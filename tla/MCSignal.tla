------------------------------ MODULE MCSignal ------------------------------
(* An instance of Signal for TLC: two signals belong to the first loop, one *)
(* to the loop of the thread it creates.                                    *)
EXTENDS Signal

CONSTANTS main, io, int, quit, term

MCOwner == [s \in Signos |-> IF s = term THEN io ELSE main]
=============================================================================
