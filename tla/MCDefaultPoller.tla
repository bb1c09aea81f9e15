-------------------------- MODULE MCDefaultPoller --------------------------
(* An instance of DefaultPoller for TLC: the wakeup channel, a Connector's   *)
(* and two connections', one on the Connector's descriptor and one on its    *)
(* own, and a connection that reuses the latter's.                           *)
EXTENDS DefaultPoller

CONSTANTS w, k1, c1, c2, d2

MCChannels == {w, k1, c1, c2, d2}
MCFdOf == [c \in MCChannels |-> CASE c = w -> 3
                                  [] c \in {k1, c1} -> 4
                                  [] c \in {c2, d2} -> 5]
=============================================================================
