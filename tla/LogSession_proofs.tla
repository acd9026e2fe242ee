------------------------- MODULE LogSession_proofs -------------------------
(***************************************************************************)
(* Proofs about LogSession, for every value of its constants, and about    *)
(* the browser at its other end, for every size of its screen.             *)
(***************************************************************************)
EXTENDS LogView, SequenceTheorems, TLAPS

-----------------------------------------------------------------------------
\* Lemmas about runs of consecutive lines

\* A run is a sequence of numbers.
LEMMA LinesSeq ==
    ASSUME NEW a \in Nat, NEW n \in Nat
    PROVE  /\ Lines(a, n) \in Seq(Nat)
           /\ Len(Lines(a, n)) = n
           /\ \A i \in 1..n : Lines(a, n)[i] = a + i
BY DEF Lines

\* A sequence whose members count up from a + 1 is the run after a.
LEMMA LinesUnique ==
    ASSUME NEW a \in Nat, NEW q \in Seq(Nat),
           \A i \in 1..Len(q) : q[i] = a + i
    PROVE  q = Lines(a, Len(q))
<1>1. Len(q) \in Nat /\ q \in [1..Len(q) -> Nat]
  BY LenProperties
<1>2. q = [i \in 1..Len(q) |-> q[i]]
  BY <1>1
<1>3. QED
  BY <1>2 DEF Lines

\* push: the next line extends a run.
LEMMA LinesAppend ==
    ASSUME NEW a \in Nat, NEW n \in Nat
    PROVE  Append(Lines(a, n), a + n + 1) = Lines(a, n + 1)
<1> DEFINE l == Lines(a, n)
           q == Append(l, a + n + 1)
<1>1. l \in Seq(Nat) /\ Len(l) = n /\ \A i \in 1..n : l[i] = a + i
  BY LinesSeq
<1> HIDE DEF l
<1>2. q \in Seq(Nat) /\ Len(q) = n + 1
  BY <1>1
<1>3. \A i \in 1..(n + 1) : q[i] = a + i
  BY <1>1
<1> HIDE DEF q
<1>4. q = Lines(a, n + 1)
  BY <1>2, <1>3, LinesUnique
<1>5. QED
  BY <1>4 DEF q, l

\* shift: dropping the oldest line of a run leaves the run after it.
LEMMA LinesTail ==
    ASSUME NEW a \in Nat, NEW n \in Nat \ {0}
    PROVE  Tail(Lines(a, n)) = Lines(a + 1, n - 1)
<1> DEFINE l == Lines(a, n)
           q == Tail(l)
<1>1. l \in Seq(Nat) /\ Len(l) = n /\ \A i \in 1..n : l[i] = a + i
  BY LinesSeq
<1> HIDE DEF l
<1>2. q \in Seq(Nat) /\ Len(q) = n - 1
  BY <1>1
<1>3. \A i \in 1..(n - 1) : q[i] = (a + 1) + i
  BY <1>1
<1> HIDE DEF q
<1>4. a + 1 \in Nat
  OBVIOUS
<1>5. q = Lines(a + 1, n - 1)
  BY <1>2, <1>3, <1>4, LinesUnique
<1>6. QED
  BY <1>5 DEF q, l

\* splice: a batch is a run, and so is what it leaves.
LEMMA LinesSplit ==
    ASSUME NEW a \in Nat, NEW n \in Nat, NEW k \in 0..n
    PROVE  /\ SubSeq(Lines(a, n), 1, k) = Lines(a, k)
           /\ SubSeq(Lines(a, n), k + 1, n) = Lines(a + k, n - k)
<1> DEFINE q == Lines(a, n)
           l == SubSeq(q, 1, k)
           r == SubSeq(q, k + 1, n)
<1>1. q \in Seq(Nat) /\ Len(q) = n /\ \A i \in 1..n : q[i] = a + i
  BY LinesSeq
<1> HIDE DEF q
<1>2. l \in Seq(Nat) /\ Len(l) = k /\ \A i \in 1..k : l[i] = q[i]
  <2>1. \A i \in 1..k : q[i] \in Nat
    BY <1>1
  <2>2. QED
    BY <2>1, SubSeqProperties, 1 \in Int, k \in Int
<1>3. r \in Seq(Nat) /\ Len(r) = n - k /\ \A i \in 1..(n - k) : r[i] = q[k + i]
  <2>1. \A i \in (k + 1)..n : q[i] \in Nat
    BY <1>1
  <2>2. /\ r \in Seq(Nat)
        /\ Len(r) = IF k + 1 <= n THEN n - (k + 1) + 1 ELSE 0
        /\ \A i \in 1..(n - (k + 1) + 1) : r[i] = q[(k + 1) + i - 1]
    BY <2>1, SubSeqProperties, k + 1 \in Int, n \in Int
  <2>3. QED
    BY <2>2
<1>4. l = Lines(a, k)
  <2>1. \A i \in 1..k : l[i] = a + i
    BY <1>1, <1>2
  <2> HIDE DEF l
  <2>2. QED
    BY <1>2, <2>1, LinesUnique
<1>5. r = Lines(a + k, n - k)
  <2>1. \A i \in 1..(n - k) : r[i] = (a + k) + i
    BY <1>1, <1>3
  <2>2. a + k \in Nat
    OBVIOUS
  <2> HIDE DEF r
  <2>3. QED
    BY <1>3, <2>1, <2>2, LinesUnique
<1>6. QED
  BY <1>4, <1>5 DEF q

-----------------------------------------------------------------------------
(***************************************************************************)
(* The inductive invariant.  The checked invariants do not say by          *)
(* themselves where a stream can be in its life, nor why a chunk still     *)
(* fits; Lifecycle and Headroom do.                                        *)
(***************************************************************************)
Lifecycle ==
    /\ burst <= produced
    /\ burst > 0 => stream \in {"flowing", "paused"}
    /\ stream \in {"flowing", "paused"} => source /\ ~closed
    /\ source /\ ~closed => stream \in {"flowing", "paused"}
    /\ source => ~ending
    /\ stream = "opening" => ~source /\ ~ending /\ queue = << >>
    /\ ~closed /\ ~source => ~paused
    /\ ~closed /\ queue = << >> => dropped = 0
    /\ closed => queue = << >>

Headroom == ~closed => Len(queue) + burst + 1 <= HighWater + largest

IInv ==
    /\ TypeOK
    /\ ExactAccounting
    /\ FlushPending
    /\ PauseInStep
    /\ BoundedAndLossless
    /\ Lifecycle
    /\ Headroom

\* flush sends a run of lines and leaves the run after it in the queue.
LEMMA SendBatchRuns ==
    ASSUME TypeOK, NEW q \in Seq(Nat), NEW d \in Nat, NEW p, NEW s,
           q = Lines(accounted + d, Len(q)), Len(q) > 0,
           SendBatch(q, d, p, s)
    PROVE  \E n \in 1..Len(q) :
             /\ batch' = [lines |-> Lines(accounted + d, n), dropped |-> d]
             /\ accounted' = accounted + d + n
             /\ queue' = Lines(accounted + d + n, Len(q) - n)
             /\ queue' \in Seq(Nat)
             /\ Len(queue') = Len(q) - n
             /\ dropped' = 0
             /\ sending' = TRUE
             /\ paused' = (p /\ ~(p /\ Len(queue') <= LowWater))
             /\ stream' = IF p /\ Len(queue') <= LowWater
                           THEN ResumeSource(s) ELSE s
<1> DEFINE n == BatchLength(q)
           m == Len(q)
           a == accounted + d
<1>1. m \in Nat /\ a \in Nat
  BY DEF TypeOK
<1>2. n \in 1..m /\ n \in 0..m
  BY <1>1, SessionAssumption DEF BatchLength
<1>3. /\ batch' = [lines |-> SubSeq(q, 1, n), dropped |-> d]
      /\ accounted' = a + n
      /\ queue' = SubSeq(q, n + 1, m)
      /\ dropped' = 0
      /\ sending' = TRUE
      /\ paused' = (p /\ ~(p /\ Len(queue') <= LowWater))
      /\ stream' = IF p /\ Len(queue') <= LowWater THEN ResumeSource(s) ELSE s
  BY DEF SendBatch, NextBatch, DroppedAfterBatch, Resumes
<1> HIDE DEF n
<1>4. /\ SubSeq(Lines(a, m), 1, n) = Lines(a, n)
      /\ SubSeq(Lines(a, m), n + 1, m) = Lines(a + n, m - n)
  BY <1>1, <1>2, LinesSplit
<1>5. q = Lines(a, m)
  OBVIOUS
<1>6. SubSeq(q, 1, n) = Lines(a, n) /\ SubSeq(q, n + 1, m) = Lines(a + n, m - n)
  BY <1>4, <1>5
<1>7. a + n \in Nat /\ m - n \in Nat
  BY <1>1, <1>2
<1>8. queue' \in Seq(Nat) /\ Len(queue') = m - n
  <2>1. /\ Lines(a + n, m - n) \in Seq(Nat)
        /\ Len(Lines(a + n, m - n)) = m - n
    BY <1>7, LinesSeq
  <2>2. QED
    BY <1>3, <1>6, <2>1
<1>9. QED
  BY <1>2, <1>3, <1>6, <1>8

\* push keeps the queue a run, whose last line is the one just pushed.
LEMMA EnqueuedRun ==
    ASSUME TypeOK, ExactAccounting, ~closed,
           burst > 0, burst <= produced, Len(queue) <= MaxQueue
    PROVE  LET l == produced - burst + 1
               q == Enqueued(l)
               d == DroppedAfterPush
           IN  /\ q \in Seq(Nat)
               /\ Len(q) = IF Full THEN Len(queue) ELSE Len(queue) + 1
               /\ Len(q) \in 1..MaxQueue
               /\ d \in Nat
               /\ q = Lines(accounted + d, Len(q))
               /\ accounted + d + Len(q) = l
<1> DEFINE l == produced - burst + 1
           n == Len(queue)
           a == accounted + dropped
<1>1. n \in Nat /\ a \in Nat /\ queue = Lines(a, n) /\ l = a + n + 1 /\ l \in Nat
  BY DEF TypeOK, ExactAccounting
<1>2. CASE Full
  <2>1. n \in Nat \ {0} /\ n = MaxQueue
    BY <1>1, <1>2, SessionAssumption DEF Full
  <2>2. Tail(Lines(a, n)) = Lines(a + 1, n - 1)
    BY <1>1, <2>1, LinesTail
  <2>3. Append(Lines(a + 1, n - 1), (a + 1) + (n - 1) + 1) = Lines(a + 1, (n - 1) + 1)
    <3>1. a + 1 \in Nat /\ n - 1 \in Nat
      BY <1>1, <2>1
    <3> QED
      BY <3>1, LinesAppend
  <2>4. Enqueued(l) = Lines(a + 1, n)
    <3>1. (a + 1) + (n - 1) + 1 = l /\ (n - 1) + 1 = n
      BY <1>1, <2>1
    <3> QED
      BY <1>1, <1>2, <2>2, <2>3, <3>1 DEF Enqueued
  <2>5. DroppedAfterPush = dropped + 1
    BY <1>2 DEF DroppedAfterPush
  <2>6. Lines(a + 1, n) \in Seq(Nat) /\ Len(Lines(a + 1, n)) = n
    <3>1. a + 1 \in Nat
      BY <1>1
    <3> QED
      BY <1>1, <3>1, LinesSeq
  <2>7. accounted + (dropped + 1) = a + 1 /\ dropped + 1 \in Nat
    BY DEF TypeOK
  <2> QED
    BY <1>1, <1>2, <2>1, <2>4, <2>5, <2>6, <2>7
<1>3. CASE ~Full
  <2>1. n < MaxQueue
    BY <1>1, <1>3, SessionAssumption DEF Full
  <2>2. Enqueued(l) = Lines(a, n + 1)
    BY <1>1, <1>3, LinesAppend DEF Enqueued
  <2>3. DroppedAfterPush = dropped
    BY <1>3 DEF DroppedAfterPush
  <2>4. Lines(a, n + 1) \in Seq(Nat) /\ Len(Lines(a, n + 1)) = n + 1
    <3>1. n + 1 \in Nat
      BY <1>1
    <3> QED
      BY <1>1, <3>1, LinesSeq
  <2>5. accounted + dropped = a /\ dropped \in Nat
    BY DEF TypeOK
  <2>6. n + 1 \in 1..MaxQueue
    BY <1>1, <2>1, SessionAssumption
  <2> QED
    BY <1>1, <1>3, <2>2, <2>3, <2>4, <2>5, <2>6
<1>4. QED
  BY <1>2, <1>3

-----------------------------------------------------------------------------
\* The invariant holds in the initial state.
LEMMA InitIInv == Init => IInv
<1> SUFFICES ASSUME Init PROVE IInv
  OBVIOUS
<1> USE SessionAssumption DEF Init
<1>1. TypeOK
  <2>1. NoBatch \in Batch
    BY EmptySeq DEF NoBatch, Batch
  <2>2. QED
    BY <2>1, EmptySeq DEF TypeOK, StreamStates
<1>2. ExactAccounting
  BY DEF ExactAccounting, Lines
<1>3. FlushPending /\ PauseInStep /\ BoundedAndLossless
  BY DEF FlushPending, PauseInStep, BoundedAndLossless, NoBatch
<1>4. Lifecycle /\ Headroom
  BY DEF Lifecycle, Headroom
<1>5. QED
  BY <1>1, <1>2, <1>3, <1>4 DEF IInv

\* A step that pushes a line keeps the invariant: the line joins the queue
\* behind the batch in flight, or goes out at once.
LEMMA PushLineIInv == IInv /\ PushLine => IInv'
<1> SUFFICES ASSUME IInv, PushLine PROVE IInv'
  OBVIOUS
<1> USE SessionAssumption
<1> DEFINE l == produced - burst + 1
           q == Enqueued(l)
           d == DroppedAfterPush
           p == paused \/ Pauses(q)
           s == IF Pauses(q) THEN PauseSource(stream) ELSE stream
<1>1. /\ burst > 0 /\ burst \in Nat /\ ~closed /\ burst' = burst - 1
      /\ burst <= produced /\ produced' = produced /\ largest' = largest
      /\ UNCHANGED <<closed, ending, source, exited, cut>>
      /\ source /\ ~ending /\ stream \in {"flowing", "paused"}
      /\ Push(l)
  BY DEF IInv, TypeOK, Lifecycle, PushLine, Idle
<1>2. /\ q \in Seq(Nat)
      /\ Len(q) = IF Full THEN Len(queue) ELSE Len(queue) + 1
      /\ Len(q) \in 1..MaxQueue
      /\ d \in Nat
      /\ q = Lines(accounted + d, Len(q))
      /\ accounted + d + Len(q) = l
  BY <1>1, EnqueuedRun DEF IInv, BoundedAndLossless
<1>3. HighWater + largest <= MaxQueue + 1 => d = 0
  BY <1>1 DEF IInv, TypeOK, Headroom, BoundedAndLossless, DroppedAfterPush, Full
<1>4. /\ p \in BOOLEAN
      /\ s = IF p THEN "paused" ELSE "flowing"
      /\ p => Len(q) > LowWater
      /\ ~p => Len(q) < HighWater
  BY <1>1, <1>2 DEF IInv, TypeOK, PauseInStep, Pauses, PauseSource
<1>5. Len(q) + burst' + 1 <= HighWater + largest
  BY <1>1, <1>2 DEF IInv, TypeOK, Headroom
<1> HIDE DEF q, d, p, s
<1>9. /\ Len(q) \in Nat /\ Len(q) > 0 /\ d \in Nat /\ accounted \in Nat
      /\ accounted + d + Len(q) = produced - burst + 1
  <2>1. accounted \in Nat
    BY DEF IInv, TypeOK
  <2>2. Len(q) \in Nat /\ Len(q) > 0
    BY <1>2
  <2> QED
    BY <1>2, <2>1, <2>2
<1>10. produced' - burst' = produced - burst + 1
  BY <1>1 DEF IInv, TypeOK
<1>6. CASE sending
  <2>1. /\ queue' = q /\ dropped' = d /\ paused' = p /\ stream' = s
        /\ UNCHANGED <<sending, accounted, batch>>
    BY <1>1, <1>6 DEF Push, q, d, p, s
  <2>2. TypeOK'
    BY <1>1, <1>2, <1>4, <2>1 DEF IInv, TypeOK, StreamStates
  <2>3. ExactAccounting'
    <3>1. accounted' + dropped' + Len(queue') = produced' - burst'
      BY <1>9, <1>10, <2>1
    <3>2. queue' = Lines(accounted' + dropped', Len(queue'))
      BY <1>2, <2>1
    <3> QED
      BY <3>1, <3>2 DEF ExactAccounting
  <2>4. FlushPending' /\ PauseInStep'
    BY <1>1, <1>4, <1>6, <2>1 DEF FlushPending, PauseInStep
  <2>5. BoundedAndLossless'
    BY <1>1, <1>2, <1>3, <2>1 DEF IInv, BoundedAndLossless
  <2>6. Lifecycle'
    <3>1. queue' # << >>
      BY <1>2, <2>1
    <3> QED
      BY <1>1, <1>4, <2>1, <3>1 DEF IInv, TypeOK, Lifecycle
  <2>7. Headroom'
    BY <1>1, <1>5, <2>1 DEF Headroom
  <2> QED
    BY <2>2, <2>3, <2>4, <2>5, <2>6, <2>7 DEF IInv
<1>7. CASE ~sending
  <2>1. SendBatch(q, d, p, s)
    BY <1>1, <1>7 DEF Push, q, d, p, s
  <2>2. PICK n \in 1..Len(q) :
             /\ batch' = [lines |-> Lines(accounted + d, n), dropped |-> d]
             /\ accounted' = accounted + d + n
             /\ queue' = Lines(accounted + d + n, Len(q) - n)
             /\ queue' \in Seq(Nat)
             /\ Len(queue') = Len(q) - n
             /\ dropped' = 0
             /\ sending' = TRUE
             /\ paused' = (p /\ ~(p /\ Len(queue') <= LowWater))
             /\ stream' = IF p /\ Len(queue') <= LowWater
                           THEN ResumeSource(s) ELSE s
    <3>1. TypeOK
      BY DEF IInv
    <3>2. /\ q \in Seq(Nat) /\ d \in Nat /\ Len(q) > 0
          /\ q = Lines(accounted + d, Len(q))
      BY <1>2, <1>9
    <3>3. QED
      BY <2>1, <3>1, <3>2, SendBatchRuns
  <2>3. /\ stream' = IF paused' THEN "paused" ELSE "flowing"
        /\ paused' \in BOOLEAN
        /\ paused' => Len(queue') > LowWater
        /\ ~paused' => Len(queue') < HighWater
    <3>1. Len(queue') \in Nat /\ Len(queue') < Len(q) /\ Len(q) \in Nat
      BY <1>9, <2>2
    <3>2. CASE p /\ Len(queue') <= LowWater
      <4>1. paused' = FALSE /\ stream' = "flowing"
        BY <1>1, <2>2, <3>2, Zenon DEF ResumeSource
      <4>2. Len(queue') < HighWater
        BY <3>1, <3>2
      <4> QED
        BY <4>1, <4>2
    <3>3. CASE p /\ ~(Len(queue') <= LowWater)
      <4>1. paused' = TRUE /\ stream' = s /\ s = "paused"
        BY <1>4, <2>2, <3>3, Zenon
      <4> QED
        BY <3>1, <3>3, <4>1
    <3>4. CASE ~p
      <4>1. paused' = FALSE /\ stream' = s /\ s = "flowing"
        BY <1>4, <2>2, <3>4, Zenon
      <4>2. Len(q) < HighWater
        BY <1>4, <3>4, Zenon
      <4>3. Len(queue') < HighWater
        BY <3>1, <4>2
      <4> QED
        BY <4>1, <4>3
    <3> QED
      BY <1>4, <3>2, <3>3, <3>4
  <2>4. TypeOK'
    <3>1. accounted + d \in Nat /\ n \in Nat
      BY <1>2 DEF IInv, TypeOK
    <3>2. Lines(accounted + d, n) \in Seq(Nat)
      BY <3>1, LinesSeq
    <3>3. batch' \in Batch
      BY <1>2, <2>2, <3>2 DEF Batch
    <3>4. queue' \in Seq(Nat) /\ dropped' \in Nat /\ accounted' \in Nat /\ sending' \in BOOLEAN
      BY <2>2, <3>1
    <3>5. paused' \in BOOLEAN /\ stream' \in StreamStates
      BY <2>3 DEF StreamStates
    <3>6. /\ closed' \in BOOLEAN /\ ending' \in BOOLEAN /\ source' \in BOOLEAN
          /\ burst' \in Nat /\ largest' \in Nat /\ exited' \in BOOLEAN /\ produced' \in Nat
          /\ cut' \in BOOLEAN
      BY <1>1 DEF IInv, TypeOK
    <3> QED
      BY <3>3, <3>4, <3>5, <3>6 DEF TypeOK
  <2>5. ExactAccounting'
    <3>1. accounted' + dropped' = accounted + d + n
      BY <1>2, <2>2 DEF IInv, TypeOK
    <3>2. accounted' + dropped' + Len(queue') = produced' - burst'
      <4>1. accounted' + dropped' + Len(queue') = accounted + d + Len(q)
        <5>1. n \in Nat /\ dropped' = 0 /\ Len(queue') = Len(q) - n
          BY <1>9, <2>2
        <5> QED
          BY <1>9, <3>1, <5>1
      <4> QED
        BY <1>9, <1>10, <4>1
    <3> QED
      BY <2>2, <3>1, <3>2 DEF ExactAccounting
  <2>6. FlushPending' /\ PauseInStep'
    BY <1>1, <2>2, <2>3 DEF FlushPending, PauseInStep
  <2>7. BoundedAndLossless'
    <3>1. batch'.dropped = d
      BY <2>2
    <3> QED
      BY <1>1, <1>2, <1>3, <2>2, <3>1 DEF BoundedAndLossless
  <2>8. Lifecycle'
    BY <1>1, <2>2, <2>3 DEF IInv, TypeOK, Lifecycle
  <2>9. Headroom'
    BY <1>1, <1>2, <1>5, <2>2 DEF IInv, TypeOK, Headroom
  <2> QED
    BY <2>4, <2>5, <2>6, <2>7, <2>8, <2>9 DEF IInv
<1>8. QED
  BY <1>6, <1>7 DEF IInv, TypeOK

\* An ack that lets flush() send the next batch keeps the invariant.
LEMMA AckSendsIInv ==
    ASSUME IInv, Ack, ~closed, queue # << >>
    PROVE  IInv'
<1> USE SessionAssumption
<1>1. /\ TypeOK /\ queue \in Seq(Nat) /\ dropped \in Nat /\ accounted \in Nat
      /\ Len(queue) \in Nat /\ Len(queue) > 0
      /\ queue = Lines(accounted + dropped, Len(queue))
      /\ accounted + dropped + Len(queue) = produced - burst
  <2>1. TypeOK /\ queue \in Seq(Nat) /\ dropped \in Nat /\ accounted \in Nat
    BY DEF IInv, TypeOK
  <2>2. Len(queue) \in Nat /\ Len(queue) > 0
    BY <2>1, EmptySeq
  <2>3. /\ queue = Lines(accounted + dropped, Len(queue))
        /\ accounted + dropped + Len(queue) = produced - burst
    BY DEF IInv, ExactAccounting
  <2>4. QED
    BY <2>1, <2>2, <2>3
<1>2. /\ SendBatch(queue, dropped, paused, stream)
      /\ sending /\ burst = 0
      /\ UNCHANGED <<closed, ending, source, burst, largest, exited, produced, cut>>
  BY DEF Ack, Idle
<1>3. PICK n \in 1..Len(queue) :
           /\ batch' = [lines |-> Lines(accounted + dropped, n), dropped |-> dropped]
           /\ accounted' = accounted + dropped + n
           /\ queue' = Lines(accounted + dropped + n, Len(queue) - n)
           /\ queue' \in Seq(Nat)
           /\ Len(queue') = Len(queue) - n
           /\ dropped' = 0
           /\ sending' = TRUE
           /\ paused' = (paused /\ ~(paused /\ Len(queue') <= LowWater))
           /\ stream' = IF paused /\ Len(queue') <= LowWater
                         THEN ResumeSource(stream) ELSE stream
  <2>1. /\ TypeOK /\ queue \in Seq(Nat) /\ dropped \in Nat /\ Len(queue) > 0
        /\ queue = Lines(accounted + dropped, Len(queue))
    BY <1>1
  <2>2. SendBatch(queue, dropped, paused, stream)
    BY <1>2
  <2>3. QED
    BY <2>1, <2>2, SendBatchRuns
<1>4. Len(queue') \in Nat /\ Len(queue') < Len(queue)
  BY <1>1, <1>3
<1>5. TypeOK'
  <2>1. accounted + dropped \in Nat /\ n \in Nat
    BY <1>1
  <2>2. batch' \in Batch
    <3>1. Lines(accounted + dropped, n) \in Seq(Nat)
      BY <2>1, LinesSeq
    <3>2. QED
      BY <1>1, <1>3, <3>1 DEF Batch
  <2>3. stream' \in StreamStates
    BY <1>1, <1>3 DEF TypeOK, ResumeSource, StreamStates
  <2>4. paused' \in BOOLEAN
    BY <1>3, Zenon
  <2>5. accounted' \in Nat
    BY <1>3, <2>1
  <2>6. QED
    BY <1>1, <1>2, <1>3, <2>2, <2>3, <2>4, <2>5 DEF TypeOK
<1>6. ExactAccounting'
  <2>1. accounted' + dropped' = accounted + dropped + n
    BY <1>1, <1>3
  <2>2. accounted' + dropped' + Len(queue') = produced' - burst'
    <3>1. produced' - burst' = produced - burst
      BY <1>2
    <3>2. accounted' + dropped' + Len(queue') = accounted + dropped + Len(queue)
      <4>1. /\ Len(queue') = Len(queue) - n
            /\ n \in Nat /\ Len(queue) \in Nat
            /\ accounted + dropped \in Nat
        BY <1>1, <1>3
      <4>2. QED
        BY <2>1, <4>1
    <3>3. QED
      BY <1>1, <3>1, <3>2
  <2>3. QED
    BY <1>3, <2>1, <2>2 DEF ExactAccounting
<1>7. /\ source => (paused' <=> stream' = "paused")
      /\ source /\ paused' => Len(queue') > LowWater
      /\ source /\ ~paused' => Len(queue') < HighWater
      /\ source => stream' \in {"flowing", "paused"}
      /\ ~source => ~paused' /\ stream' = stream
  <2>1. CASE paused /\ Len(queue') <= LowWater
    <3>1. paused' = FALSE /\ stream' = IF source THEN "flowing" ELSE stream
      BY <1>3, <2>1, Zenon DEF ResumeSource
    <3>2. Len(queue') < HighWater
      BY <1>4, <2>1
    <3>3. QED
      BY <3>1, <3>2
  <2>2. CASE ~(paused /\ Len(queue') <= LowWater)
    <3>1. paused' = paused /\ stream' = stream
      BY <1>1, <1>3, <2>2, Zenon DEF TypeOK
    <3>2. Len(queue) < HighWater => Len(queue') < HighWater
      BY <1>1, <1>4
    <3>3. paused => Len(queue') > LowWater
      BY <1>4, <2>2
    <3>4. QED
      BY <3>1, <3>2, <3>3 DEF IInv, PauseInStep, Lifecycle
  <2>3. QED
    BY <2>1, <2>2
<1>8. FlushPending' /\ PauseInStep'
  BY <1>2, <1>3, <1>7 DEF FlushPending, PauseInStep
<1>9. BoundedAndLossless'
  <2>1. batch'.dropped = dropped
    BY <1>3
  <2>2. Len(queue') <= MaxQueue
    BY <1>1, <1>4 DEF IInv, BoundedAndLossless
  <2>3. QED
    BY <1>2, <1>3, <2>1, <2>2 DEF IInv, BoundedAndLossless
<1>10. Lifecycle'
  BY <1>2, <1>3, <1>7 DEF IInv, Lifecycle
<1>11. Headroom'
  BY <1>1, <1>2, <1>4 DEF IInv, TypeOK, Headroom
<1>12. QED
  BY <1>5, <1>6, <1>8, <1>9, <1>10, <1>11 DEF IInv

\* A step that closes the session, or leaves a closed one closed, keeps the
\* invariant if it discards the queue and does not leave the stream open.
LEMMA ClosedIInv ==
    ASSUME IInv, TypeOK', closed', queue' = << >>, burst = 0, burst' = 0,
           stream' \notin {"flowing", "paused"},
           source' => ~ending', stream' = "opening" => ~source' /\ ~ending',
           UNCHANGED <<dropped, batch, largest, produced>>
    PROVE  IInv'
<1>1. ExactAccounting' /\ FlushPending' /\ PauseInStep' /\ Headroom'
  BY DEF ExactAccounting, FlushPending, PauseInStep, Headroom
<1>2. BoundedAndLossless'
  BY SessionAssumption, EmptySeq DEF IInv, BoundedAndLossless
<1>3. Lifecycle'
  BY DEF IInv, TypeOK, Lifecycle
<1>4. QED
  BY <1>1, <1>2, <1>3 DEF IInv

\* The steps of the container's stream that do not push a line
LEMMA AttachSourceIInv == IInv /\ AttachSource => IInv'
<1> SUFFICES ASSUME IInv, AttachSource PROVE IInv'
  OBVIOUS
<1> USE SessionAssumption DEF AttachSource, wire
<1>1. TypeOK'
  BY DEF IInv, TypeOK, StreamStates
<1>2. burst = 0 /\ queue = << >>
  BY DEF IInv, TypeOK, Lifecycle
<1>3. CASE closed
  BY <1>1, <1>2, <1>3, ClosedIInv DEF IInv, Lifecycle
<1>4. CASE ~closed
  <2>1. ~paused /\ Len(queue) = 0 /\ stream' = "flowing" /\ ~closed'
    BY <1>2, <1>4, EmptySeq DEF IInv, Lifecycle
  <2>2. ExactAccounting' /\ FlushPending' /\ BoundedAndLossless'
    BY <1>4, <2>1 DEF IInv, ExactAccounting, FlushPending, BoundedAndLossless
  <2>3. PauseInStep'
    BY <2>1 DEF PauseInStep
  <2>4. Lifecycle' /\ Headroom'
    BY <1>4, <2>1 DEF IInv, Lifecycle, Headroom
  <2>5. QED
    BY <1>1, <2>2, <2>3, <2>4 DEF IInv
<1>5. QED
  BY <1>3, <1>4

LEMMA OpenFailsIInv == IInv /\ OpenFails => IInv'
<1> SUFFICES ASSUME IInv, OpenFails PROVE IInv'
  OBVIOUS
<1> USE DEF OpenFails, wire
<1>1. TypeOK'
  BY EmptySeq DEF IInv, TypeOK, StreamStates
<1>2. burst = 0
  BY DEF IInv, TypeOK, Lifecycle
<1>3. QED
  BY <1>1, <1>2, ClosedIInv DEF IInv, Lifecycle

LEMMA ChunkIInv == ASSUME IInv, NEW k \in 1..MaxChunk, Chunk(k) PROVE IInv'
<1> USE SessionAssumption DEF Chunk, session, wire, Idle
<1>1. source /\ ~closed /\ ~paused /\ Len(queue) < HighWater
  BY DEF IInv, Lifecycle, PauseInStep
<1>2. TypeOK'
  BY DEF IInv, TypeOK
<1>3. ExactAccounting'
  BY DEF IInv, TypeOK, ExactAccounting
<1>4. FlushPending' /\ PauseInStep'
  BY DEF IInv, FlushPending, PauseInStep
<1>5. BoundedAndLossless'
  BY DEF IInv, TypeOK, BoundedAndLossless
<1>6. Lifecycle'
  BY DEF IInv, TypeOK, Lifecycle
<1>7. Headroom'
  <2>1. queue' = queue /\ burst' = k /\ k <= largest' /\ largest' \in Nat
    BY DEF IInv, TypeOK
  <2>2. Len(queue) \in Nat
    BY DEF IInv, TypeOK
  <2>3. QED
    BY <1>1, <2>1, <2>2 DEF Headroom
<1>8. QED
  BY <1>2, <1>3, <1>4, <1>5, <1>6, <1>7 DEF IInv

LEMMA ExitIInv == IInv /\ Exit => IInv'
<1> SUFFICES ASSUME IInv, Exit PROVE IInv'
  OBVIOUS
<1> USE DEF Exit, session, wire
<1>1. TypeOK'
  BY DEF IInv, TypeOK
<1>2. QED
  BY <1>1 DEF IInv, ExactAccounting, FlushPending, PauseInStep,
              BoundedAndLossless, Lifecycle, Headroom

\* "end" reaches only a flowing stream, so the session is not paused and what
\* is queued is behind a batch in flight.
LEMMA StreamEndIInv == IInv /\ StreamEnd => IInv'
<1> SUFFICES ASSUME IInv, StreamEnd PROVE IInv'
  OBVIOUS
<1> USE DEF StreamEnd, wire, Idle
<1>1. ~paused /\ closed' = (~sending /\ queue = << >>)
  BY DEF IInv, Lifecycle, PauseInStep, FinishesEnding
<1>2. TypeOK'
  BY <1>1, Zenon DEF IInv, TypeOK, StreamStates
<1>3. CASE closed'
  BY <1>1, <1>2, <1>3, ClosedIInv DEF IInv
<1>4. CASE ~closed'
  <2>1. queue # << >> => sending
    BY DEF IInv, FlushPending
  <2>2. sending
    BY <1>1, <1>4, <2>1
  <2>3. ExactAccounting' /\ FlushPending' /\ PauseInStep'
    BY <1>1, <2>2 DEF IInv, ExactAccounting, FlushPending, PauseInStep
  <2>4. BoundedAndLossless' /\ Headroom'
    BY <1>1, <1>4 DEF IInv, BoundedAndLossless, Headroom
  <2>5. Lifecycle'
    <3>1. /\ ~closed /\ ~paused' /\ ~source' /\ stream' = "ended"
          /\ burst' = 0 /\ queue' = queue /\ dropped' = dropped
          /\ produced' = produced /\ produced \in Nat
      BY <1>1 DEF IInv, TypeOK
    <3>2. queue = << >> => dropped = 0
      BY <3>1 DEF IInv, Lifecycle
    <3>3. burst' <= produced' /\ ~(burst' > 0)
      BY <3>1
    <3>4. QED
      BY <1>4, <3>1, <3>2, <3>3, Zenon DEF Lifecycle
  <2>6. QED
    BY <1>2, <2>3, <2>4, <2>5 DEF IInv
<1>5. QED
  BY <1>3, <1>4

\* close(), called by Cancel, StreamError and the catch of flush()
LEMMA CloseIInv ==
    ASSUME IInv, Close(source), ~closed, burst = 0, sending' \in BOOLEAN,
           UNCHANGED <<ending, source, burst, largest, exited, produced, wire>>
    PROVE  IInv'
<1>1. TypeOK'
  BY EmptySeq DEF IInv, TypeOK, Close, StreamStates, wire
<1>2. stream' \notin {"flowing", "paused"}
  BY DEF IInv, Lifecycle, Close
<1>3. QED
  BY <1>1, <1>2, ClosedIInv DEF IInv, Lifecycle, Close, wire

\* The steps that settle a batch
LEMMA AckIInv == IInv /\ Ack => IInv'
<1> SUFFICES ASSUME IInv, Ack PROVE IInv'
  OBVIOUS
<1>1. CASE ~closed /\ queue # << >>
  BY <1>1, AckSendsIInv
<1>2. CASE closed \/ queue = << >>
  <2>1. /\ sending' = FALSE /\ burst = 0 /\ queue = << >>
        /\ closed' = (closed \/ ending)
        /\ UNCHANGED <<queue, dropped, paused, stream, ending, source, burst,
                       largest, exited, produced, accounted, batch, cut>>
    BY <1>2 DEF Ack, Idle, wire, FinishesEnding, IInv, Lifecycle
  <2>2. TypeOK'
    BY <2>1, Zenon DEF IInv, TypeOK
  <2>3. CASE closed'
    BY <2>1, <2>2, <2>3, ClosedIInv DEF IInv, Lifecycle
  <2>4. CASE ~closed'
    <3>1. ~closed /\ ~ending
      BY <2>1, <2>4
    <3>2. ~paused
      <4>1. source => (paused => Len(queue) > LowWater)
        BY <3>1 DEF IInv, PauseInStep
      <4>2. Len(queue) = 0
        BY <2>1, EmptySeq
      <4>3. QED
        BY <3>1, <4>1, <4>2, SessionAssumption DEF IInv, Lifecycle
    <3>3. ExactAccounting' /\ FlushPending' /\ PauseInStep'
      BY <2>1, <3>1, <3>2
      DEF IInv, ExactAccounting, FlushPending, PauseInStep
    <3>4. BoundedAndLossless' /\ Lifecycle' /\ Headroom'
      BY <2>1, <3>1 DEF IInv, BoundedAndLossless, Lifecycle, Headroom
    <3>5. QED
      BY <2>2, <3>3, <3>4 DEF IInv
  <2>5. QED
    BY <2>3, <2>4
<1>3. QED
  BY <1>1, <1>2

LEMMA AckTimeoutIInv == IInv /\ AckTimeout => IInv'
<1> SUFFICES ASSUME IInv, AckTimeout PROVE IInv'
  OBVIOUS
<1>1. CASE closed
  <2>1. TypeOK'
    BY <1>1 DEF AckTimeout, IInv, TypeOK, wire
  <2>2. QED
    BY <1>1, <2>1, ClosedIInv DEF AckTimeout, Idle, wire, IInv, Lifecycle
<1>2. CASE ~closed
  BY <1>2, CloseIInv DEF AckTimeout, Idle
<1>3. QED
  BY <1>1, <1>2

\* Every step keeps the invariant.
LEMMA NextIInv == IInv /\ [Next]_vars => IInv'
<1> SUFFICES ASSUME IInv, [Next]_vars PROVE IInv'
  OBVIOUS
<1>1. CASE AttachSource
  BY <1>1, AttachSourceIInv
<1>2. CASE OpenFails
  BY <1>2, OpenFailsIInv
<1>3. ASSUME NEW k \in 1..MaxChunk, Chunk(k) PROVE IInv'
  BY <1>3, ChunkIInv
<1>4. CASE PushLine
  BY <1>4, PushLineIInv
<1>5. CASE Exit
  BY <1>5, ExitIInv
<1>6. CASE StreamEnd
  BY <1>6, StreamEndIInv
<1>7. CASE StreamError \/ Cancel
  <2>1. sending' \in BOOLEAN
    BY <1>7 DEF StreamError, Cancel, IInv, TypeOK
  <2>2. QED
    BY <1>7, <2>1, CloseIInv DEF StreamError, Cancel, Idle
<1>8. CASE Ack
  BY <1>8, AckIInv
<1>9. CASE AckTimeout
  BY <1>9, AckTimeoutIInv
<1>10. CASE UNCHANGED vars
  BY <1>10 DEF vars, session, docker, wire, IInv, TypeOK, ExactAccounting,
               FlushPending, PauseInStep, BoundedAndLossless, Lifecycle, Headroom
<1>11. QED
  BY <1>1, <1>2, <1>3, <1>4, <1>5, <1>6, <1>7, <1>8, <1>9, <1>10
  DEF Next, Stream, Client

\* The inductive invariant holds throughout.
THEOREM Invariant == Spec => []IInv
BY InitIInv, NextIInv, PTL DEF Spec

-----------------------------------------------------------------------------
\* Every variable keeps its type.
THEOREM TypeCorrect == Spec => []TypeOK
<1>1. IInv => TypeOK
  BY DEF IInv
<1>2. QED
  BY <1>1, Invariant, PTL

\* The queue of push() and flush() loses no line without counting it, and
\* reports each loss once, in the batch of the line after it.
THEOREM Accounting == Spec => []ExactAccounting
<1>1. IInv => ExactAccounting
  BY DEF IInv
<1>2. QED
  BY <1>1, Invariant, PTL

\* push(), flush() and maybeFinishEnding() never leave work that no event will
\* pick up again.
THEOREM NoLostWakeup == Spec => []FlushPending
<1>1. IInv => FlushPending
  BY DEF IInv
<1>2. QED
  BY <1>1, Invariant, PTL

\* pause() and resume() follow the watermarks.
THEOREM Backpressure == Spec => []PauseInStep
<1>1. IInv => PauseInStep
  BY DEF IInv
<1>2. QED
  BY <1>1, Invariant, PTL

\* The queue is bounded, and lossless while chunks fit above the watermark.
THEOREM Lossless == Spec => []BoundedAndLossless
<1>1. IInv => BoundedAndLossless
  BY DEF IInv
<1>2. QED
  BY <1>1, Invariant, PTL

\* No order of close(), end() and attachSource() leaves a stream open.
THEOREM StreamsReleased == Spec => []NoOrphanStream
<1>1. IInv => NoOrphanStream
  BY DEF IInv, Lifecycle, NoOrphanStream
<1>2. QED
  BY <1>1, Invariant, PTL

(***************************************************************************)
(* How a session ends.  An end is behind all that the container wrote, and *)
(* a session that was not cut closes at its end only: at once if nothing   *)
(* is left to send, else at the ack after which nothing is.                *)
(***************************************************************************)
EndInv ==
    /\ ending => exited
    /\ closed /\ ~cut => ending
    /\ EndDrains

\* An open session with an empty queue has sent all it has read.
LEMMA EmptyIsSent ==
    ASSUME IInv, ~closed, queue = << >>, burst = 0
    PROVE  accounted = produced /\ dropped = 0
<1>1. dropped = 0 /\ Len(queue) = 0
  BY EmptySeq DEF IInv, Lifecycle
<1>2. QED
  BY <1>1 DEF IInv, TypeOK, ExactAccounting

\* The last ack of a session that ends by itself, or an ack in a cut one
LEMMA AckEndInv == ASSUME IInv, EndInv, Ack PROVE EndInv'
<1>1. closed => cut
  BY DEF Ack, EndInv, EndDrains
<1>2. CASE ~closed /\ queue # << >>
  BY <1>2 DEF Ack, EndInv, EndDrains
<1>3. CASE closed
  BY <1>1, <1>3 DEF Ack, EndInv, EndDrains, IInv, TypeOK
<1>4. CASE ~closed /\ queue = << >>
  <2>1. accounted = produced /\ dropped = 0
    BY <1>4, EmptyIsSent DEF Ack, Idle
  <2>2. /\ UNCHANGED <<accounted, produced, dropped, ending, exited, cut>>
        /\ sending' = FALSE /\ (closed' => ending)
    BY <1>4 DEF Ack, FinishesEnding, wire
  <2>3. QED
    BY <2>1, <2>2 DEF EndInv, EndDrains
<1>5. QED
  BY <1>2, <1>3, <1>4

LEMMA EndNextInv == IInv /\ EndInv /\ [Next]_vars => EndInv'
<1> SUFFICES ASSUME IInv, EndInv, [Next]_vars PROVE EndInv'
  OBVIOUS
<1> USE DEF EndInv, EndDrains
<1>1. CASE Ack
  BY <1>1, AckEndInv
<1>2. CASE PushLine
  BY <1>2 DEF PushLine
<1>3. CASE StreamEnd
  <2>1. /\ UNCHANGED <<accounted, produced, dropped, sending, exited, cut>>
        /\ ending' = TRUE /\ exited
        /\ closed' => ~sending /\ queue = << >> /\ ~closed /\ burst = 0
    BY <1>3 DEF StreamEnd, FinishesEnding, wire, Idle
  <2>2. QED
    BY <2>1, EmptyIsSent
<1>4. ASSUME NEW k \in 1..MaxChunk, Chunk(k) PROVE EndInv'
  BY <1>4 DEF Chunk, session, wire, IInv, Lifecycle
<1>5. CASE AttachSource \/ Exit \/ UNCHANGED vars
  BY <1>5 DEF AttachSource, Exit, vars, session, docker, wire
<1>6. CASE OpenFails \/ StreamError \/ Cancel
  BY <1>6 DEF OpenFails, StreamError, Cancel, Close
<1>7. CASE AckTimeout
  BY <1>7 DEF AckTimeout, Close, wire
<1>8. QED
  BY <1>1, <1>2, <1>3, <1>4, <1>5, <1>6, <1>7 DEF Next, Stream, Client

\* A session that closed without being cut, at its end or at the ack that
\* emptied its queue, has read, sent and had acked all its container wrote.
THEOREM EndIsComplete == Spec => []EndDrains
<1>1. Init => EndInv
  BY DEF Init, EndInv, EndDrains
<1>2. EndInv => EndDrains
  BY DEF EndInv
<1>3. QED
  BY <1>1, <1>2, EndNextInv, Invariant, PTL DEF Spec

-----------------------------------------------------------------------------
\* Refinement: LogSession implements LogDelivery.

\* A step that sends a batch delivers it: it skips exactly the lines dropped.
LEMMA SendDelivers ==
    ASSUME IInv, IInv', ~closed, closed' = closed, produced' = produced,
           NEW q \in Seq(Nat), NEW d \in Nat, NEW p, NEW s,
           q = Lines(accounted + d, Len(q)), Len(q) > 0,
           accounted + d + Len(q) <= produced,
           SendBatch(q, d, p, s)
    PROVE  \E e \in 0..produced, n \in 1..produced : Delivery!Deliver(e, n)
<1>1. TypeOK
  BY DEF IInv
<1>2. PICK n \in 1..Len(q) :
           /\ batch' = [lines |-> Lines(accounted + d, n), dropped |-> d]
           /\ accounted' = accounted + d + n
  BY <1>1, SendBatchRuns
<1>3. accounted \in Nat /\ produced \in Nat /\ Len(q) \in Nat
  BY <1>1 DEF TypeOK
<1>4. d \in 0..produced /\ n \in 1..produced /\ accounted + d + n <= produced
  BY <1>2, <1>3
<1>5. Delivery!Deliver(d, n)
  BY <1>2, <1>4 DEF Delivery!Deliver, Lines
<1>6. QED
  BY <1>4, <1>5

\* Every step of a session is a step of the delivery it promises, or none.
LEMMA StepRefines ==
    ASSUME IInv, IInv', [Next]_vars
    PROVE  [Delivery!Next]_(Delivery!vars)
<1> USE DEF Delivery!vars
<1>1. CASE PushLine
  <2> DEFINE l == produced - burst + 1
  <2>1. /\ ~closed /\ burst > 0 /\ burst <= produced /\ Push(l)
        /\ closed' = closed /\ produced' = produced
    BY <1>1 DEF PushLine, Idle, IInv, TypeOK, Lifecycle
  <2>2. CASE sending
    BY <2>1, <2>2 DEF Push
  <2>3. CASE ~sending
    <3> DEFINE q == Enqueued(l)
               d == DroppedAfterPush
               p == paused \/ Pauses(q)
               s == IF Pauses(q) THEN PauseSource(stream) ELSE stream
    <3>1. SendBatch(q, d, p, s)
      BY <2>1, <2>3 DEF Push
    <3>2. /\ q \in Seq(Nat) /\ Len(q) \in 1..MaxQueue /\ d \in Nat
          /\ q = Lines(accounted + d, Len(q))
          /\ accounted + d + Len(q) = l
      BY <2>1, EnqueuedRun DEF IInv, BoundedAndLossless
    <3> HIDE DEF q, d, p, s
    <3>3. accounted + d + Len(q) <= produced
      BY <2>1, <3>2 DEF IInv, TypeOK
    <3>4. Len(q) > 0
      BY <3>2
    <3>5. \E e \in 0..produced, n \in 1..produced : Delivery!Deliver(e, n)
      BY <2>1, <3>1, <3>2, <3>3, <3>4, SendDelivers
    <3>6. QED
      BY <3>5 DEF Delivery!Next
  <2>4. QED
    BY <2>2, <2>3
<1>2. CASE Ack
  <2>1. CASE ~closed /\ queue # << >>
    <3>1. /\ SendBatch(queue, dropped, paused, stream)
          /\ closed' = closed /\ produced' = produced /\ burst = 0
      BY <1>2, <2>1 DEF Ack, Idle
    <3>2. /\ queue \in Seq(Nat) /\ dropped \in Nat /\ Len(queue) > 0
          /\ queue = Lines(accounted + dropped, Len(queue))
      BY <2>1, EmptySeq DEF IInv, TypeOK, ExactAccounting
    <3>3. accounted + dropped + Len(queue) <= produced
      BY <2>1, <3>1 DEF IInv, TypeOK, ExactAccounting
    <3>4. \E e \in 0..produced, n \in 1..produced : Delivery!Deliver(e, n)
      BY <2>1, <3>1, <3>2, <3>3, SendDelivers
    <3>5. QED
      BY <3>4 DEF Delivery!Next
  <2>2. CASE ~(~closed /\ queue # << >>)
    BY <1>2, <2>2
    DEF Ack, wire, FinishesEnding, Delivery!Next, Delivery!Close, IInv, TypeOK
  <2>3. QED
    BY <2>1, <2>2
<1>3. ASSUME NEW k \in 1..MaxChunk, Chunk(k)
      PROVE  Delivery!Produce
  BY <1>3, SessionAssumption
  DEF Chunk, session, wire, IInv, TypeOK, Lifecycle, Delivery!Produce
<1>4. CASE OpenFails \/ StreamEnd \/ StreamError \/ AckTimeout \/ Cancel
  <2>1. UNCHANGED <<produced, accounted, batch>>
    BY <1>4 DEF OpenFails, StreamEnd, StreamError, AckTimeout, Cancel, wire
  <2>2. closed' \in BOOLEAN /\ closed \in BOOLEAN /\ (closed => closed')
    BY <1>4 DEF OpenFails, StreamEnd, StreamError, AckTimeout, Cancel, Close,
                IInv, TypeOK
  <2>3. QED
    BY <2>1, <2>2 DEF Delivery!Next, Delivery!Close
<1>5. CASE AttachSource \/ Exit \/ UNCHANGED vars
  BY <1>5 DEF AttachSource, Exit, vars, session, docker, wire
<1>6. QED
  BY <1>1, <1>2, <1>3, <1>4, <1>5 DEF Next, Stream, Client, Delivery!Next

\* The session delivers the container's lines in order, with every gap exactly
\* reported: it implements LogDelivery.
THEOREM Implements == Spec => DeliverySpec
<1>1. Init => Delivery!Init
  BY DEF Init, Delivery!Init, NoBatch, Delivery!NoBatch
<1>2. IInv /\ IInv' /\ [Next]_vars => [Delivery!Next]_(Delivery!vars)
  BY StepRefines
<1>3. QED
  BY <1>1, <1>2, Invariant, PTL DEF Spec, DeliverySpec, Delivery!Spec

-----------------------------------------------------------------------------
(***************************************************************************)
(* The browser.  The latest batch is the run of lines that ends with the   *)
(* last line accounted for, and an open session that waits for no ack has  *)
(* had its last batch applied; so the screen never lacks more than the     *)
(* batch that is on its way.                                               *)
(***************************************************************************)
BatchRun ==
    /\ batch.dropped + Len(batch.lines) <= accounted
    /\ \A i \in 1..Len(batch.lines) : batch.lines[i] = accounted - Len(batch.lines) + i

ViewIInv ==
    /\ IInv
    /\ ViewTypeOK
    /\ BatchRun
    /\ ~applied => Len(batch.lines) > 0
    /\ ~closed /\ ~sending => applied
    /\ closed /\ ~cut => applied
    /\ ViewAddsUp

SessionStep == Stream \/ AckApplied \/ AckTimeout \/ Cancel

\* A step of the session with its client is one of the session alone.
LEMMA ViewStep == ViewNext => [Next]_vars
BY DEF ViewNext, ApplyBatch, AckApplied, Next, Client

\* A batch is sent when none is in flight or when the client has applied the
\* one that was; flush() stops waiting only for such an ack or with the session,
\* and a session closes uncut only at such an ack or when it waits for none.
LEMMA SendsInTurn ==
    ASSUME TypeOK, SessionStep
    PROVE  /\ closed => closed'
           /\ \/ sending' = TRUE /\ ~closed /\ ~closed' /\ (applied \/ ~sending)
              \/ /\ UNCHANGED wire
                 /\ closed' \/ sending' = sending \/ applied
                 /\ closed' /\ ~cut' => (closed /\ ~cut) \/ (~closed /\ ~sending) \/ applied
<1>1. CASE PushLine
  BY <1>1 DEF PushLine, Push, SendBatch, wire
<1>2. CASE AckApplied
  BY <1>2 DEF AckApplied, Ack, SendBatch
<1>3. CASE OpenFails \/ StreamEnd \/ StreamError \/ AckTimeout \/ Cancel
  BY <1>3 DEF OpenFails, StreamEnd, StreamError, AckTimeout, Cancel, Close, FinishesEnding
<1>4. CASE AttachSource \/ Exit \/ \E k \in 1..MaxChunk : Chunk(k)
  BY <1>4 DEF AttachSource, Exit, Chunk, session
<1>5. QED
  BY <1>1, <1>2, <1>3, <1>4 DEF SessionStep, Stream

LEMMA ViewInitIInv == ViewInit => ViewIInv
<1> SUFFICES ASSUME ViewInit PROVE ViewIInv
  OBVIOUS
<1>1. IInv
  BY InitIInv DEF ViewInit
<1>2. /\ accounted = 0 /\ batch = NoBatch /\ applied = TRUE /\ view = EmptyLogsBuffer
  BY DEF ViewInit, Init
<1>3. ViewTypeOK
  BY <1>1, <1>2 DEF ViewTypeOK, LogsBuffer, EmptyLogsBuffer, IInv
<1>4. BatchRun /\ ViewAddsUp
  BY <1>2, ViewAssumption
  DEF BatchRun, NoBatch, ViewAddsUp, EmptyLogsBuffer, Shown
<1>5. QED
  BY <1>1, <1>2, <1>3, <1>4 DEF ViewIInv

\* A batch that is sent becomes the one the screen lacks.
LEMMA SentIInv ==
    ASSUME ViewIInv, IInv', NEW d \in Nat, NEW n \in Nat \ {0}, Delivery!Deliver(d, n),
           applied, Arrives, view' = view
    PROVE  /\ ViewTypeOK' /\ BatchRun' /\ ViewAddsUp'
           /\ ~applied' /\ Len(batch'.lines) > 0
<1> USE DEF ViewIInv
<1>1. /\ batch' = [lines |-> Lines(accounted + d, n), dropped |-> d]
      /\ accounted' = accounted + d + n /\ accounted \in Nat /\ accounted + d \in Nat
  BY DEF Delivery!Deliver, Lines, IInv, TypeOK
<1>2. /\ batch'.lines \in Seq(Nat) /\ Len(batch'.lines) = n /\ batch'.dropped = d
      /\ \A i \in 1..n : batch'.lines[i] = accounted + d + i
  BY <1>1, LinesSeq
<1>3. BatchRun'
  <2>1. d + n <= accounted'
    BY <1>1
  <2>2. \A i \in 1..n : accounted + d + i = accounted' - n + i
    BY <1>1
  <2>3. QED
    BY <1>2, <2>1, <2>2 DEF BatchRun
<1>4. batch' # batch
  <2> SUFFICES ASSUME batch' = batch PROVE FALSE
    OBVIOUS
  <2>1. Len(batch.lines) = n /\ batch.lines[n] = accounted + d + n
    BY <1>2
  <2>2. batch.lines[n] = accounted - n + n
    BY <2>1 DEF BatchRun
  <2>3. QED
    BY <1>1, <2>1, <2>2
<1>5. ~applied' /\ applied' \in BOOLEAN
  BY <1>4 DEF Arrives
<1>6. Shown' = accounted /\ Shown = accounted
  <2>1. accounted' - d - n = accounted
    BY <1>1
  <2>2. Shown' = accounted' - d - n
    BY <1>2, <1>5 DEF Shown
  <2>3. QED
    BY <2>1, <2>2 DEF Shown
<1>7. ViewAddsUp'
  BY <1>6 DEF ViewAddsUp
<1>8. ViewTypeOK'
  BY <1>5 DEF ViewTypeOK, IInv
<1>9. QED
  BY <1>2, <1>3, <1>5, <1>7, <1>8

\* appendBatch: the screen takes the lines of the batch, which come after its
\* own, and counts those that leave it.
LEMMA ApplyBatchIInv ==
    ASSUME ViewIInv, ApplyBatch
    PROVE  /\ view' \in LogsBuffer /\ ViewAddsUp'
<1> DEFINE u == view.lines
           w == batch.lines
           all == u \o w
           o == IF Len(all) > ViewSize THEN Len(all) - ViewSize ELSE 0
           new == SubSeq(all, o + 1, Len(all))
<1> USE DEF ViewIInv
<1>1. /\ ~applied /\ applied' = TRUE /\ UNCHANGED <<accounted, batch>>
      /\ view' = [lines |-> new, dropped |-> view.dropped + batch.dropped + o]
  BY DEF ApplyBatch, AppendBatch, vars, wire
<1>2. /\ u \in Seq(Nat) /\ w \in Seq(Nat) /\ Len(u) \in Nat /\ Len(w) \in Nat
      /\ view.dropped \in Nat /\ batch.dropped \in Nat /\ accounted \in Nat /\ Len(w) > 0
      /\ \A i \in 1..Len(u) : u[i] \in Nat
      /\ \A i \in 1..Len(w) : w[i] = accounted - Len(w) + i
  BY <1>1, LenProperties, ElementOfSeq
  DEF ViewTypeOK, LogsBuffer, IInv, TypeOK, Batch, BatchRun
<1>3. PICK nu \in Nat, nw \in Nat \ {0}, a \in Nat, vd \in Nat, bd \in Nat :
        /\ nu = Len(u) /\ nw = Len(w) /\ a = accounted
        /\ vd = view.dropped /\ bd = batch.dropped
  <2>1. Len(w) \in Nat \ {0}
    BY <1>2
  <2> HIDE DEF u, w
  <2>2. QED
    BY <1>2, <2>1
<1>4. /\ Shown = a - bd - nw /\ Shown' = accounted /\ vd + nu = Shown
      /\ \A i \in 1..nw : w[i] = a - nw + i
      /\ \A i \in 1..nu : u[i] \in Nat
  BY <1>1, <1>2, <1>3 DEF Shown, ViewAddsUp
<1>5. /\ \A i, j \in 1..nu : i < j => u[i] < u[j]
      /\ \A i \in 1..nu : u[i] <= a - nw
  <2>1. /\ \A i, j \in 1..nu : i < j => u[i] < u[j]
        /\ nu > 0 => u[nu] = Shown
    <3>1. \A i, j \in 1..nu : i < j => u[i] < u[j]
      BY <1>3 DEF ViewAddsUp
    <3>2. ASSUME nu > 0 PROVE u[nu] = Shown
      <4>1. u # << >>
        BY <1>2, <1>3, <3>2, EmptySeq
      <4>2. QED
        BY <1>3, <4>1 DEF ViewAddsUp
    <3>3. QED
      BY <3>1, <3>2
  <2> HIDE DEF u, w
  <2>2. ASSUME NEW i \in 1..nu
        PROVE  u[i] <= a - nw
    <3>1. nu \in 1..nu /\ nu > 0 /\ (i = nu \/ i < nu)
      OBVIOUS
    <3>2. /\ i = nu \/ u[i] < u[nu]
          /\ u[nu] = a - bd - nw /\ u[i] \in Nat
      BY <1>4, <2>1, <3>1
    <3>3. CASE i = nu
      BY <3>2, <3>3
    <3>4. CASE u[i] < u[nu]
      BY <3>2, <3>4
    <3>5. QED
      BY <3>2, <3>3, <3>4
  <2>3. QED
    BY <2>1, <2>2
<1> HIDE DEF u, w
<1>6. PICK len \in Nat \ {0} : len = nu + nw
  OBVIOUS
<1>7. /\ all \in Seq(Nat) /\ Len(all) = len
      /\ \A i \in 1..len : all[i] = IF i <= nu THEN u[i] ELSE w[i - nu]
  <2>1. /\ all \in Seq(Nat) /\ Len(all) = Len(u) + Len(w)
        /\ \A i \in 1..(Len(u) + Len(w)) :
              all[i] = IF i <= Len(u) THEN u[i] ELSE w[i - Len(u)]
    BY <1>2, ConcatProperties
  <2> HIDE DEF all
  <2>2. QED
    BY <1>3, <1>6, <2>1
<1> HIDE DEF all
<1>8. /\ \A i \in 1..len : all[i] \in Nat
      /\ \A i, j \in 1..len : i < j => all[i] < all[j]
      /\ all[len] = a
  <2>1. ASSUME NEW i \in 1..nu
        PROVE  all[i] = u[i]
    BY <1>6, <1>7
  <2>2. ASSUME NEW i \in (nu + 1)..len
        PROVE  all[i] = a - nw + (i - nu)
    <3>1. i \in 1..len /\ ~(i <= nu) /\ i - nu \in 1..nw
      BY <1>6
    <3>2. all[i] = w[i - nu]
      BY <1>7, <3>1
    <3>3. QED
      BY <1>4, <3>1, <3>2
  <2>3. \A i \in 1..len : all[i] \in Nat
    BY <1>7, ElementOfSeq
  <2>4. ASSUME NEW i \in 1..len, NEW j \in 1..len, i < j
        PROVE  all[i] < all[j]
    <3>1. CASE j <= nu
      <4>1. i \in 1..nu /\ j \in 1..nu
        BY <2>4, <3>1
      <4>2. QED
        BY <1>5, <2>1, <2>4, <4>1
    <3>2. CASE i <= nu /\ j > nu
      <4>1. i \in 1..nu /\ j \in (nu + 1)..len
        BY <3>2
      <4>2. all[i] <= a - nw /\ all[j] = a - nw + (j - nu)
        BY <1>5, <2>1, <2>2, <4>1
      <4>3. QED
        BY <2>3, <3>2, <4>2
    <3>3. CASE i > nu
      <4>1. i \in (nu + 1)..len /\ j \in (nu + 1)..len
        BY <2>4, <3>3
      <4>2. all[i] = a - nw + (i - nu) /\ all[j] = a - nw + (j - nu)
        BY <2>2, <4>1
      <4>3. QED
        BY <2>4, <4>2
    <3>4. QED
      BY <3>1, <3>2, <3>3
  <2>5. all[len] = a
    <3>1. len \in (nu + 1)..len /\ a - nw + (len - nu) = a
      BY <1>6
    <3>2. QED
      BY <2>2, <3>1
  <2>6. QED
    BY <2>3, <2>4, <2>5
<1>9. PICK over \in 0..len : over = o /\ len - over <= ViewSize /\ len - over > 0
  <2>1. o = IF len > ViewSize THEN len - ViewSize ELSE 0
    BY <1>7
  <2>2. ViewSize \in Nat \ {0}
    BY ViewAssumption
  <2> HIDE DEF o
  <2>3. CASE len > ViewSize
    BY <2>1, <2>2, <2>3
  <2>4. CASE ~(len > ViewSize)
    BY <2>1, <2>2, <2>4
  <2>5. QED
    BY <2>3, <2>4
<1> HIDE DEF o
<1>10. /\ new \in Seq(Nat) /\ Len(new) = len - over
       /\ \A i \in 1..(len - over) : new[i] = all[over + i] /\ over + i \in 1..len
  <2>1. \A i \in (over + 1)..len : all[i] \in Nat
    BY <1>8
  <2>2. PICK t : t = SubSeq(all, over + 1, len)
    OBVIOUS
  <2>3. /\ t \in Seq(Nat)
        /\ Len(t) = IF over + 1 <= len THEN len - (over + 1) + 1 ELSE 0
        /\ \A i \in 1..(len - (over + 1) + 1) : t[i] = all[(over + 1) + i - 1]
    BY <2>1, <2>2, SubSeqProperties, over + 1 \in Int, len \in Int
  <2>4. Len(t) = len - over
    BY <1>9, <2>3
  <2>5. \A i \in 1..(len - over) : /\ i \in 1..(len - (over + 1) + 1) /\ over + i \in 1..len
                                   /\ (over + 1) + i - 1 = over + i
    OBVIOUS
  <2>6. new = t
    BY <1>7, <1>9, <2>2
  <2>7. QED
    BY <2>3, <2>4, <2>5, <2>6
<1> HIDE DEF new
<1>11. view'.lines = new /\ view'.dropped = vd + bd + over
  BY <1>1, <1>3, <1>9
<1>12. view'.dropped \in Nat /\ view' \in LogsBuffer
  <2>1. vd + bd + over \in Nat
    OBVIOUS
  <2>2. QED
    BY <1>1, <1>10, <1>11, <2>1 DEF LogsBuffer
<1>13. view'.dropped + Len(new) = accounted
  <2>1. vd + bd + over + (len - over) = a
    BY <1>4, <1>6
  <2>2. QED
    BY <1>3, <1>10, <1>11, <2>1
<1>14. ASSUME NEW i \in 1..Len(new), NEW j \in 1..Len(new), i < j
       PROVE  new[i] < new[j]
  BY <1>8, <1>10, <1>14
<1>15. new[Len(new)] = accounted
  <2>1. len - over \in 1..(len - over) /\ over + (len - over) = len
    BY <1>9
  <2>2. QED
    BY <1>3, <1>8, <1>10, <2>1
<1>16. Len(new) <= ViewSize
  BY <1>9, <1>10
<1>17. QED
  BY <1>4, <1>11, <1>12, <1>13, <1>14, <1>15, <1>16 DEF ViewAddsUp

LEMMA ViewNextIInv == ViewIInv /\ [ViewNext]_viewVars => ViewIInv'
<1> SUFFICES ASSUME ViewIInv, [ViewNext]_viewVars PROVE ViewIInv'
  OBVIOUS
<1> USE DEF ViewIInv
<1>1. [Next]_vars
  BY ViewStep DEF viewVars
<1>2. IInv' /\ TypeOK'
  BY <1>1, NextIInv DEF IInv
<1>3. CASE ApplyBatch
  <2>1. applied' = TRUE /\ UNCHANGED <<accounted, batch>>
    BY <1>3 DEF ApplyBatch, vars, wire
  <2>2. BatchRun'
    BY <2>1 DEF BatchRun
  <2>3. ViewAddsUp' /\ ViewTypeOK'
    BY <1>2, <1>3, <2>1, ApplyBatchIInv DEF ViewTypeOK
  <2>4. QED
    BY <1>2, <2>1, <2>2, <2>3
<1>4. CASE SessionStep /\ Arrives /\ view' = view
  <2>1. CASE \E d \in 0..produced, n \in 1..produced : Delivery!Deliver(d, n)
    <3>1. PICK d \in 0..produced, n \in 1..produced : Delivery!Deliver(d, n)
      BY <2>1
    <3>2. produced \in Nat /\ d \in Nat /\ n \in Nat \ {0}
      BY <3>1 DEF IInv, TypeOK
    <3>3. accounted' # accounted
      BY <3>1, <3>2 DEF Delivery!Deliver, IInv, TypeOK
    <3>4. sending' = TRUE /\ applied /\ ~closed'
      BY <1>4, <3>3, SendsInTurn DEF IInv, wire
    <3>5. QED
      BY <1>2, <1>4, <3>1, <3>2, <3>4, SentIInv
  <2>2. CASE UNCHANGED <<accounted, batch>>
    <3>1. applied' = applied /\ applied' \in BOOLEAN
      BY <1>4, <2>2 DEF Arrives, ViewTypeOK
    <3>2. BatchRun' /\ ViewAddsUp' /\ ViewTypeOK'
      BY <1>2, <1>4, <2>2, <3>1 DEF BatchRun, ViewAddsUp, Shown, ViewTypeOK
    <3>3. ~closed' /\ ~sending' => applied'
      BY <1>4, <3>1, SendsInTurn DEF IInv
    <3>4. closed' /\ ~cut' => applied'
      BY <1>4, <3>1, SendsInTurn DEF IInv
    <3>5. QED
      BY <1>2, <2>2, <3>1, <3>2, <3>3, <3>4
  <2>3. QED
    BY <1>1, <1>2, <2>1, <2>2, StepRefines
    DEF Delivery!Next, Delivery!Produce, Delivery!Close, Delivery!vars
<1>5. CASE UNCHANGED viewVars
  BY <1>2, <1>5 DEF viewVars, vars, session, wire, BatchRun, ViewAddsUp, Shown, ViewTypeOK
<1>6. QED
  BY <1>3, <1>4, <1>5 DEF ViewNext, SessionStep

THEOREM ViewInvariant == ViewSpec => []ViewIInv
BY ViewInitIInv, ViewNextIInv, PTL DEF ViewSpec

\* What is proved of the session above holds with its client.
THEOREM ViewUsesSession == ViewSpec => Spec
<1>1. ViewInit => Init
  BY DEF ViewInit
<1>2. [ViewNext]_viewVars => [Next]_vars
  BY ViewStep DEF viewVars
<1>3. QED
  BY <1>1, <1>2, PTL DEF ViewSpec, Spec

\* From Docker to the screen no line disappears unreported: what is shown and
\* the counter add up to everything that was sent, newest lines last.
THEOREM ScreenAddsUp == ViewSpec => []ViewAddsUp
<1>1. ViewIInv => ViewAddsUp
  BY DEF ViewIInv
<1>2. QED
  BY <1>1, ViewInvariant, PTL

\* A session that closed by itself has its container's whole output on the
\* screen or counted there, what was queued when the container ended included.
THEOREM EndReachesScreen == ViewSpec => []EndIsSeen
<1>1. ViewIInv /\ EndDrains => EndIsSeen
  BY DEF ViewIInv, EndDrains, EndIsSeen, Shown
<1>2. QED
  BY <1>1, ViewInvariant, ViewUsesSession, EndIsComplete, PTL
=============================================================================
