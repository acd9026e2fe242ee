---------------------------- MODULE LogDelivery ----------------------------
(***************************************************************************)
(* What a log session promises its client, whatever its queue, watermarks  *)
(* and acks do: the lines of the container reach the client in order, and  *)
(* every batch says exactly how many lines were lost right before its      *)
(* first one.  Lines are numbered 1, 2, 3, ... in the order the container  *)
(* wrote them; `accounted' is the last line that some batch delivered or   *)
(* reported as dropped.                                                    *)
(***************************************************************************)
EXTENDS Naturals, Sequences

VARIABLES produced,   \* lines read from the container so far
          accounted,  \* last line delivered or reported as dropped
          batch,      \* the latest batch sent to the client
          closed      \* the session is over

vars == <<produced, accounted, batch, closed>>

NoBatch == [lines |-> << >>, dropped |-> 0]

Init ==
    /\ produced = 0
    /\ accounted = 0
    /\ batch = NoBatch
    /\ closed = FALSE

Produce ==
    /\ ~closed
    /\ produced' \in Nat
    /\ produced' > produced
    /\ UNCHANGED <<accounted, batch, closed>>

\* A batch skips d lines, which it reports, and carries the n lines after them.
Deliver(d, n) ==
    /\ ~closed
    /\ accounted + d + n <= produced
    /\ batch' = [lines |-> [i \in 1..n |-> accounted + d + i], dropped |-> d]
    /\ accounted' = accounted + d + n
    /\ UNCHANGED <<produced, closed>>

Close ==
    /\ ~closed
    /\ closed' = TRUE
    /\ UNCHANGED <<produced, accounted, batch>>

Next ==
    \/ Produce
    \/ \E d \in 0..produced, n \in 1..produced : Deliver(d, n)
    \/ Close

Spec == Init /\ [][Next]_vars
=============================================================================
