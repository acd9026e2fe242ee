----------------------------- MODULE LogSession -----------------------------
(***************************************************************************)
(* One live log stream of one client: apps/api/src/logs/log-session.ts and *)
(* the container's stream that logs.service.ts attaches to it.             *)
(*                                                                         *)
(* Node runs one callback at a time.  The lines of one chunk are pushed by *)
(* one "data" callback, so while `burst' > 0 nothing but PushLine happens; *)
(* flush() yields only at `await this.emit(...)', and the step after that  *)
(* await is Ack or AckTimeout.                                             *)
(*                                                                         *)
(* A line is its position in the container's output: 1, 2, 3, ...          *)
(***************************************************************************)
EXTENDS Naturals, Sequences

CONSTANTS BatchSize,   \* options.batchSize
          MaxQueue,    \* options.maxQueue
          HighWater,   \* options.highWater
          LowWater,    \* options.lowWater
          MaxChunk,    \* bound: lines one "data" chunk can hold
          MaxLines     \* bound: lines the container writes

ASSUME SessionAssumption ==
    /\ BatchSize \in Nat \ {0}
    /\ MaxQueue \in Nat \ {0}
    /\ HighWater \in Nat
    /\ LowWater \in Nat
    /\ LowWater < HighWater
    /\ MaxChunk \in Nat
    /\ MaxLines \in Nat

VARIABLES
    queue,      \* lines waiting for a batch
    dropped,    \* lines discarded since the latest batch
    paused,     \* the session asked its source to pause
    sending,    \* flush() is running: a batch waits for its ack
    closed,
    ending,     \* the source ended, what is queued is still to be sent
    source,     \* the session holds a source
    stream,     \* the container's stream, as Node runs it
    burst,      \* lines of the current chunk not pushed yet
    largest,    \* history: the most lines a chunk has held so far
    exited,     \* the container stopped: the stream ends once it is read out
    produced,   \* lines read from the stream so far
    accounted,  \* last line a batch delivered or reported as dropped
    batch,      \* the latest batch emitted
    cut         \* history: the session was cancelled, timed out or broke

session == <<queue, dropped, paused, sending, closed, ending, source>>
docker == <<stream, burst, largest, exited, produced>>
wire == <<accounted, batch>>
vars == <<session, docker, wire, cut>>

StreamStates == {"opening", "flowing", "paused", "ended", "destroyed", "failed"}
Batch == [lines : Seq(Nat), dropped : Nat]
NoBatch == [lines |-> << >>, dropped |-> 0]

TypeOK ==
    /\ queue \in Seq(Nat)
    /\ dropped \in Nat
    /\ paused \in BOOLEAN
    /\ sending \in BOOLEAN
    /\ closed \in BOOLEAN
    /\ ending \in BOOLEAN
    /\ source \in BOOLEAN
    /\ stream \in StreamStates
    /\ burst \in Nat
    /\ largest \in Nat
    /\ exited \in BOOLEAN
    /\ produced \in Nat
    /\ accounted \in Nat
    /\ batch \in Batch
    /\ cut \in BOOLEAN

Init ==
    /\ queue = << >>
    /\ dropped = 0
    /\ paused = FALSE
    /\ sending = FALSE
    /\ closed = FALSE
    /\ ending = FALSE
    /\ source = FALSE
    /\ stream = "opening"
    /\ burst = 0
    /\ largest = 0
    /\ exited = FALSE
    /\ produced = 0
    /\ accounted = 0
    /\ batch = NoBatch
    /\ cut = FALSE

Idle == burst = 0   \* no "data" callback is running

-----------------------------------------------------------------------------
\* The session's methods, as they change its state

\* source?.pause() and source?.resume()
PauseForgotten(s) == s
PauseSource(s) == IF source THEN "paused" ELSE s
ResumeSource(s) == IF source THEN "flowing" ELSE s

\* close(): what is queued is discarded and the source destroyed.  holds: the
\* session still has its source.
Close(holds) ==
    /\ closed' = TRUE
    /\ queue' = << >>
    /\ stream' = IF holds THEN "destroyed" ELSE stream
    /\ cut' = TRUE
    /\ UNCHANGED <<dropped, paused>>

BatchLength(q) == IF Len(q) < BatchSize THEN Len(q) ELSE BatchSize

\* flush() resumes the source once the queue is drained.
Resumes(p, rest) == p /\ Len(rest) <= LowWater

\* The batch of flush(), and what it leaves of the dropped count
GapUnreported(q, d) == [lines |-> SubSeq(q, 1, BatchLength(q)), dropped |-> 0]
NextBatch(q, d) == [lines |-> SubSeq(q, 1, BatchLength(q)), dropped |-> d]
DroppedAfterBatch(d) == 0

\* One turn of the loop in flush(), up to its await: q, d, p and s are the
\* queue, the dropped count, the paused flag and the stream it starts from.
SendBatch(q, d, p, s) ==
    LET n == BatchLength(q)
        rest == SubSeq(q, n + 1, Len(q))
    IN  /\ batch' = NextBatch(q, d)
        /\ accounted' = accounted + d + n
        /\ queue' = rest
        /\ dropped' = DroppedAfterBatch(d)
        /\ paused' = (p /\ ~Resumes(p, rest))
        /\ stream' = IF Resumes(p, rest) THEN ResumeSource(s) ELSE s
        /\ sending' = TRUE

\* push(line): a full queue loses its oldest line, a long one pauses the source
Full == Len(queue) >= MaxQueue
DropsNewest(line) == IF Full THEN queue ELSE Append(queue, line)
Enqueued(line) == Append(IF Full THEN Tail(queue) ELSE queue, line)
DroppedMiscounted == IF Full THEN dropped - 1 ELSE dropped
DroppedAfterPush == IF Full THEN dropped + 1 ELSE dropped
PausesLate(q) == ~paused /\ Len(q) > HighWater
Pauses(q) == ~paused /\ Len(q) >= HighWater

\* push(line) and the flush() it ends with
Push(line) ==
    LET q == Enqueued(line)
        d == DroppedAfterPush
        p == paused \/ Pauses(q)
        s == IF Pauses(q) THEN PauseSource(stream) ELSE stream
    IN  IF sending
          THEN /\ queue' = q
               /\ dropped' = d
               /\ paused' = p
               /\ stream' = s
               /\ UNCHANGED <<sending, accounted, batch>>
          ELSE SendBatch(q, d, p, s)

\* maybeFinishEnding(), called with the values its caller leaves behind
EndNeverFinishes(end, busy) == FALSE
FinishesEnding(end, busy) == end /\ ~busy /\ queue = << >> /\ ~closed

-----------------------------------------------------------------------------
\* The container's stream

\* mutant of AttachSource: the session's state is not looked at
AttachAnyway ==
    /\ stream = "opening"
    /\ stream' = "flowing"
    /\ source' = TRUE
    /\ UNCHANGED <<queue, dropped, paused, sending, closed, ending, burst,
                   largest, exited, produced, wire, cut>>

\* openDockerStream gets the stream; attachSource destroys it at once if the
\* session was closed meanwhile.
AttachSource ==
    /\ stream = "opening"
    /\ IF closed THEN stream' = "destroyed" /\ UNCHANGED source
                 ELSE stream' = "flowing" /\ source' = TRUE
    /\ UNCHANGED <<queue, dropped, paused, sending, closed, ending, burst,
                   largest, exited, produced, wire, cut>>

\* openDockerStream fails: subscribe closes the session.
OpenFails ==
    /\ stream = "opening"
    /\ stream' = "failed"
    /\ closed' = TRUE
    /\ queue' = << >>
    /\ cut' = TRUE
    /\ UNCHANGED <<dropped, paused, sending, ending, source, burst, largest,
                   exited, produced, wire>>

\* A "data" event: k complete lines are about to be pushed.
Chunk(k) ==
    /\ stream = "flowing"
    /\ Idle
    /\ produced + k <= MaxLines
    /\ produced' = produced + k
    /\ burst' = k
    /\ largest' = IF k > largest THEN k ELSE largest
    /\ UNCHANGED <<session, stream, exited, wire, cut>>

PushLine ==
    /\ ~Idle
    /\ ~closed
    /\ burst' = burst - 1
    /\ Push(produced - burst + 1)
    /\ UNCHANGED <<closed, ending, source, largest, exited, produced, cut>>

\* The container stops; what it wrote may still wait in the stream.
Exit ==
    /\ Idle
    /\ ~exited
    /\ exited' = TRUE
    /\ UNCHANGED <<session, stream, burst, largest, produced, wire, cut>>

\* "end", which Node emits only to a flowing stream: end() lets go of the
\* source and closes at once if there is nothing left to send.
StreamEnd ==
    /\ stream = "flowing"
    /\ Idle
    /\ exited
    /\ ~closed
    /\ ~ending
    /\ ending' = TRUE
    /\ source' = FALSE
    /\ stream' = "ended"
    /\ closed' = FinishesEnding(TRUE, sending)
    /\ UNCHANGED <<queue, dropped, paused, sending, burst, largest, exited,
                   produced, wire, cut>>

\* "error": the stream is gone, close() discards the queue.
StreamError ==
    /\ stream \in {"flowing", "paused"}
    /\ Idle
    /\ ~closed
    /\ Close(source)
    /\ UNCHANGED <<sending, ending, source, burst, largest, exited, produced, wire>>

-----------------------------------------------------------------------------
\* The client

\* mutant of Ack: one batch per flush(), the queue waits for the next push
AckWithoutLoop ==
    /\ sending
    /\ Idle
    /\ sending' = FALSE
    /\ closed' = (closed \/ FinishesEnding(ending, FALSE))
    /\ UNCHANGED <<queue, dropped, paused, stream, wire>>
    /\ UNCHANGED <<ending, source, burst, largest, exited, produced, cut>>

\* mutant of Ack: the first ack after the end closes, whatever is queued
AckEndsEarly ==
    /\ sending
    /\ Idle
    /\ IF ~closed /\ ~ending /\ queue # << >>
         THEN /\ SendBatch(queue, dropped, paused, stream)
              /\ UNCHANGED closed
         ELSE /\ sending' = FALSE
              /\ closed' = (closed \/ ending)
              /\ UNCHANGED <<queue, dropped, paused, stream, wire>>
    /\ UNCHANGED <<ending, source, burst, largest, exited, produced, cut>>

\* The client's ack resolves emit(): the loop goes on, or flush() finishes.
Ack ==
    /\ sending
    /\ Idle
    /\ IF ~closed /\ queue # << >>
         THEN /\ SendBatch(queue, dropped, paused, stream)
              /\ UNCHANGED closed
         ELSE /\ sending' = FALSE
              /\ closed' = (closed \/ FinishesEnding(ending, FALSE))
              /\ UNCHANGED <<queue, dropped, paused, stream, wire>>
    /\ UNCHANGED <<ending, source, burst, largest, exited, produced, cut>>

\* No ack in ackTimeoutMs: the catch of flush() closes the session.
AckTimeout ==
    /\ sending
    /\ Idle
    /\ sending' = FALSE
    /\ IF closed THEN UNCHANGED <<closed, queue, dropped, paused, stream, cut>>
                 ELSE Close(source)
    /\ UNCHANGED <<ending, source, burst, largest, exited, produced, wire>>

\* unsubscribe, a disconnect or the module's shutdown
Cancel ==
    /\ Idle
    /\ ~closed
    /\ Close(source)
    /\ UNCHANGED <<sending, ending, source, burst, largest, exited, produced, wire>>

-----------------------------------------------------------------------------
Stream == \/ AttachSource \/ OpenFails \/ PushLine
          \/ Exit \/ StreamEnd \/ StreamError
          \/ \E k \in 1..MaxChunk : Chunk(k)
Client == Ack \/ AckTimeout \/ Cancel

Next == Stream \/ Client

\* The callback that pushes a chunk runs to its end, Node delivers "end" to a
\* flowing stream, and the timer of socket.timeout() settles every batch.
Fairness ==
    /\ WF_vars(PushLine)
    /\ WF_vars(StreamEnd)
    /\ WF_vars(Ack \/ AckTimeout)

Spec == Init /\ [][Next]_vars
FairSpec == Spec /\ Fairness

-----------------------------------------------------------------------------
\* Properties

\* The n lines after line a
Lines(a, n) == [i \in 1..n |-> a + i]

\* Every line read from the stream has exactly one fate: it was accounted for
\* by a batch, it is counted in `dropped', or it waits in the queue, which is
\* the unbroken run of the newest lines (push drops the oldest and counts it,
\* flush reports the count once).
ExactAccounting ==
    ~closed =>
        /\ accounted + dropped + Len(queue) = produced - burst
        /\ queue = Lines(accounted + dropped, Len(queue))

\* No lost wake-up: only a push or a settled batch can start flush() again, so
\* lines wait, the source is paused or the session drains its end only while a
\* batch is in flight.
FlushPending ==
    ~closed => (queue # << >> \/ paused \/ ending => sending)

\* The session's idea of the source and the source itself agree, so pause()
\* and resume() strictly alternate, and a paused source has lines to drain.
PauseInStep ==
    ~closed /\ source =>
        /\ paused <=> (stream = "paused")
        /\ paused => Len(queue) > LowWater
        /\ ~paused => Len(queue) < HighWater

\* A closed session leaves no stream of the daemon open, whichever of close(),
\* end(), a failed open and a late attachSource() came first.
NoOrphanStream ==
    closed => stream \notin {"flowing", "paused"}

\* The queue never passes its limit, and as long as the room above the high
\* watermark holds the rest of every chunk (pause() does not stop the current
\* one), no line is dropped.
BoundedAndLossless ==
    /\ Len(queue) <= MaxQueue
    /\ HighWater + largest <= MaxQueue + 1 => dropped = 0 /\ batch.dropped = 0

\* end() drains, close() cuts: a session that closed by itself, at the end of its
\* stream or at the ack of the batch that emptied its queue, has read all its
\* container wrote, sent every line and had every batch acked.
EndDrains ==
    closed /\ ~cut => exited /\ accounted = produced /\ ~sending /\ dropped = 0

\* Every line read is eventually delivered or reported, unless the session is
\* cut: nothing waits for a push that never comes.
EveryLineAccounted ==
    \A n \in 1..MaxLines : produced >= n ~> accounted >= n \/ closed

\* When the container stops, its session eventually closes by itself.
ExitCloses == exited /\ source ~> closed

\* The session implements what it promises its client; its queue, flags, stream
\* and settled acks are hidden.
Delivery == INSTANCE LogDelivery WITH
                produced <- produced, accounted <- accounted,
                batch <- batch, closed <- closed
DeliverySpec == Delivery!Spec
=============================================================================
