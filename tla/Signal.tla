------------------------------- MODULE Signal -------------------------------
(***************************************************************************)
(* net::Signal (src/Signal.cpp): the signals that a loop's user has set    *)
(* are blocked and read from a signalfd, one more channel of the loop.     *)
(*                                                                         *)
(* Several loops, each in its own thread, have a Signal; a thread inherits *)
(* what the thread that creates it has blocked.  The kernel keeps a signal *)
(* sent to the process pending, once, while every thread blocks it, and    *)
(* gives it to a thread that does not, which ends the process: nothing     *)
(* changes a disposition.  A signal whose default is to be ignored is then *)
(* discarded.  setSignal and delSignal are called in the loop's thread, by *)
(* any callback, that of the signal included, and a signal is set on one   *)
(* loop only: two signalfds would report it to two loops, and the second   *)
(* read would find nothing.                                                *)
(***************************************************************************)
EXTENDS Naturals

CONSTANTS
    Loops,              \* the loops, and their threads
    First,              \* the loop of the thread that creates the others
    Signos,             \* the signals
    Owner,              \* the loop that a signal may be set on
    Ignored,            \* the signals that are ignored by default
    MaxSends            \* bound: how often signals are sent

ASSUME FirstIsLoop == First \in Loops
ASSUME OwnersAreLoops == Owner \in [Signos -> Loops]
ASSUME IgnoredAreSignos == Ignored \subseteq Signos
ASSUME MaxSendsIsNat == MaxSends \in Nat

VARIABLES
    threads,            \* the threads that exist
    blocked,            \* the signal mask of each thread
    pending,            \* the process's pending signals
    mask,               \* mask_ of each loop's Signal
    map,                \* the keys of signalMap_
    fdMask,             \* what the signalfd reports
    active,             \* the signalfd's channel is to be handled this round
    sends,              \* how many signals have been sent
    over                \* what has ended the process

vars == <<threads, blocked, pending, mask, map, fdMask, active, sends, over>>

TypeOK ==
    /\ threads \subseteq Loops
    /\ blocked \in [Loops -> SUBSET Signos]
    /\ pending \subseteq Signos
    /\ mask \in [Loops -> SUBSET Signos]
    /\ map \in [Loops -> SUBSET Signos]
    /\ fdMask \in [Loops -> SUBSET Signos]
    /\ active \in [Loops -> BOOLEAN]
    /\ sends \in 0..MaxSends
    /\ over \in {"no", "killed", "assertion", "noCallback"}
    /\ map = mask

\* The constructor: an empty mask and signalfd
Init ==
    /\ threads = {First}
    /\ blocked = [l \in Loops |-> {}]
    /\ pending = {}
    /\ mask = [l \in Loops |-> {}]
    /\ map = [l \in Loops |-> {}]
    /\ fdMask = [l \in Loops |-> {}]
    /\ active = [l \in Loops |-> FALSE]
    /\ sends = 0
    /\ over = "no"

Up(l) == over = "no" /\ l \in threads

\* what the signalfd of l could be read for
Readable(l) == pending \cap fdMask[l]

-----------------------------------------------------------------------------
(* The kernel.                                                             *)

NewThread(l) ==
    /\ Up(First)
    /\ l \notin threads
    /\ threads' = threads \cup {l}
    /\ blocked' = [blocked EXCEPT ![l] = blocked[First]]
    /\ UNCHANGED <<pending, mask, map, fdMask, active, sends, over>>

\* the signals S reach a thread that does not block them
Deliver(S) == over' = IF S \subseteq Ignored THEN over ELSE "killed"

Send(s) ==
    /\ over = "no"
    /\ sends < MaxSends
    /\ sends' = sends + 1
    /\ \/ /\ \A l \in threads : s \in blocked[l]
          /\ pending' = pending \cup {s}
          /\ UNCHANGED over
       \/ /\ \E l \in threads : s \notin blocked[l]
          /\ Deliver({s})
          /\ UNCHANGED pending
    /\ UNCHANGED <<threads, blocked, mask, map, fdMask, active>>

-----------------------------------------------------------------------------
(* What a loop does.                                                       *)

\* mutant: the signalfd is not told
TellSignalFdNot(l) == UNCHANGED fdMask

\* signalfd(signalFd_, &mask_, ...)
TellSignalFd(l) == fdMask' = [fdMask EXCEPT ![l] = mask'[l]]

SetSignal(l, s) ==
    /\ Up(l)
    /\ Owner[s] = l
    /\ mask' = [mask EXCEPT ![l] = @ \cup {s}]
    /\ blocked' = [blocked EXCEPT ![l] = @ \cup mask'[l]]
    /\ map' = [map EXCEPT ![l] = @ \cup {s}]
    /\ TellSignalFd(l)
    /\ UNCHANGED <<threads, pending, active, sends, over>>

\* mutant: no sigdelset
ClearNot(l, s) == UNCHANGED mask

\* sigdelset(&mask_, signo)
Clear(l, s) == mask' = [mask EXCEPT ![l] = @ \ {s}]

\* mutants: SIG_UNBLOCK of what is left in mask_, and no call at all
UnblockRest(l) == blocked' = [blocked EXCEPT ![l] = @ \ mask'[l]]
UnblockNot(l) == UNCHANGED blocked

\* sigprocmask(SIG_SETMASK, &mask_, NULL), which also unblocks what the thread had
\* inherited
SetMask(l) == blocked' = [blocked EXCEPT ![l] = mask'[l]]

\* delSignal: does nothing for a signal that is not set.  The signalfd goes on to
\* report the signal, and a pending one is delivered by the system call.
DelSignal(l, s) ==
    /\ Up(l)
    /\ s \in map[l]
    /\ Clear(l, s)
    /\ SetMask(l)
    /\ map' = [map EXCEPT ![l] = @ \ {s}]
    /\ pending' = pending \cap blocked'[l]
    /\ Deliver(pending \ blocked'[l])
    /\ UNCHANGED <<threads, fdMask, active, sends>>

\* poll reports the signalfd; other channels of the round may be handled first
PollReports(l) ==
    /\ Up(l)
    /\ ~active[l]
    /\ Readable(l) # {}
    /\ active' = [active EXCEPT ![l] = TRUE]
    /\ UNCHANGED <<threads, blocked, pending, mask, map, fdMask, sends, over>>

\* handleRead: one signal is read, which is asserted, and its callback called
HandleRead(l) ==
    /\ Up(l)
    /\ active[l]
    /\ active' = [active EXCEPT ![l] = FALSE]
    /\ \/ /\ Readable(l) = {}
          /\ over' = "assertion"
          /\ UNCHANGED pending
       \/ \E s \in Readable(l) :
             /\ pending' = pending \ {s}
             /\ over' = IF s \in map[l] THEN over ELSE "noCallback"
    /\ UNCHANGED <<threads, blocked, mask, map, fdMask, sends>>

-----------------------------------------------------------------------------

Next ==
    \/ \E l \in Loops : NewThread(l) \/ PollReports(l) \/ HandleRead(l)
    \/ \E l \in Loops, s \in Signos : SetSignal(l, s) \/ DelSignal(l, s)
    \/ \E s \in Signos : Send(s)

Spec == Init /\ [][Next]_vars

\* the loops run; MaxSends makes one signal give way to the others
Fairness == \A l \in Loops : WF_vars(PollReports(l)) /\ WF_vars(HandleRead(l))

FairSpec == Spec /\ Fairness

-----------------------------------------------------------------------------
(* Properties.                                                             *)

\* A signal that is set never ends the process by way of the loop's own thread,
\* and reaches its signalfd, whatever else is set and deleted: the thread blocks
\* it, and the signalfd reports it (setSignal, delSignal).
SetIsBlocked ==
    \A l \in threads : map[l] \subseteq blocked[l] \cap fdMask[l]

\* assert(n==sizeof(sigInfo)), Signal.cpp:33, and the call of what signalMap_ has
\* for the signal: between poll's report and the read nothing takes the signal or
\* its callback away, though the signalfd also reports deleted signals.
NothingFails == over \notin {"assertion", "noCallback"}

\* A pending signal is read by the loop it is set on.
PendingIsHandled ==
    \A s \in Signos :
        (s \in pending /\ s \in map[Owner[s]])
            ~> (s \notin pending \/ s \notin map[Owner[s]] \/ over # "no")
=============================================================================
