------------------------------ MODULE LogView ------------------------------
(***************************************************************************)
(* A log session and the browser at its other end: use-container-logs.ts   *)
(* and logs-buffer.ts in apps/web/src/lib/live.  The client applies a      *)
(* batch to its ring buffer and then acks it, so the ack of the session is *)
(* the client's step here; a batch may also be applied after the server    *)
(* has given it up.                                                        *)
(***************************************************************************)
EXTENDS LogSession

CONSTANT ViewSize   \* MAX_LINES of use-container-logs.ts

ASSUME ViewAssumption == ViewSize \in Nat \ {0}

VARIABLES view,      \* LogsBuffer: the lines shown and the total dropped
          applied    \* the client has applied the latest batch

viewVars == <<vars, view, applied>>

LogsBuffer == [lines : Seq(Nat), dropped : Nat]
EmptyLogsBuffer == [lines |-> << >>, dropped |-> 0]

ViewTypeOK ==
    /\ TypeOK
    /\ view \in LogsBuffer
    /\ applied \in BOOLEAN

ViewInit ==
    /\ Init
    /\ view = EmptyLogsBuffer
    /\ applied = TRUE

\* appendBatch(buffer, b, MAX_LINES): what overflows is counted as dropped too
OverflowUncounted(buffer, b) ==   \* mutant of AppendBatch
    LET all == buffer.lines \o b.lines
        overflow == IF Len(all) > ViewSize THEN Len(all) - ViewSize ELSE 0
    IN  [lines |-> SubSeq(all, overflow + 1, Len(all)),
         dropped |-> buffer.dropped + b.dropped]

AppendBatch(buffer, b) ==
    LET all == buffer.lines \o b.lines
        overflow == IF Len(all) > ViewSize THEN Len(all) - ViewSize ELSE 0
    IN  [lines |-> SubSeq(all, overflow + 1, Len(all)),
         dropped |-> buffer.dropped + b.dropped + overflow]

\* onBatch: the batch is applied, its ack is on the way
ApplyBatch ==
    /\ ~applied
    /\ view' = AppendBatch(view, batch)
    /\ applied' = TRUE
    /\ UNCHANGED vars

\* A batch emitted by a step of the session is new to the client.
Arrives == applied' = (applied /\ batch' = batch)

\* mutant of AckApplied: the ack does not wait for the client
AckUnapplied == Ack
AckApplied == applied /\ Ack

ViewNext ==
    \/ ApplyBatch
    \/ (Stream \/ AckApplied \/ AckTimeout \/ Cancel) /\ Arrives /\ UNCHANGED view

\* The client may be gone before it applies a batch, but every batch settles.
ViewFairness ==
    /\ WF_viewVars(PushLine /\ Arrives /\ UNCHANGED view)
    /\ WF_viewVars(StreamEnd /\ Arrives /\ UNCHANGED view)
    /\ WF_viewVars((AckApplied \/ AckTimeout) /\ Arrives /\ UNCHANGED view)

ViewSpec == ViewInit /\ [][ViewNext]_viewVars
FairViewSpec == ViewSpec /\ ViewFairness
-----------------------------------------------------------------------------
\* The last line that the batches the client has applied account for
Shown == IF applied THEN accounted
                    ELSE accounted - batch.dropped - Len(batch.lines)

\* End to end, no line disappears unreported: the lines on the screen and the
\* dropped counter add up to everything the session sent, the screen keeps the
\* newest lines in order, and never more than ViewSize of them.
ViewAddsUp ==
    /\ view.dropped + Len(view.lines) = Shown
    /\ Len(view.lines) <= ViewSize
    /\ \A i, j \in 1..Len(view.lines) : i < j => view.lines[i] < view.lines[j]
    /\ view.lines # << >> => view.lines[Len(view.lines)] = Shown

\* A session that closed by itself leaves the whole output of its container on
\* the client's screen or counted there: the tail of a dying container, queued
\* behind batches the client still had to ack, is not lost.
EndIsSeen == closed /\ ~cut => Shown = produced
=============================================================================
