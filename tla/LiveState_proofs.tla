-------------------------- MODULE LiveState_proofs --------------------------
(***************************************************************************)
(* Proofs about LiveState, for any finite set of containers, any limit of  *)
(* rooms, any number of changes and any number of inspects in flight.      *)
(***************************************************************************)
EXTENDS LiveState, FiniteSetTheorems, SequenceTheorems, TLAPS

\* A stream on its way down has already armed the timer of its replacement.
Subscribed == OneSubscription /\ (failing > 0 /\ ~stopped => timers = 1)

\* What is stored anywhere is no newer than the daemon's state, and a card is
\* no newer than the newest state it was given.
Past(c) ==
    /\ gap[c] <= now[c] /\ view[c] <= newest[c] /\ newest[c] <= now[c]
    /\ snap[c] \in Versions => snap[c] <= now[c]
    /\ \A i \in DOMAIN calls[c] : calls[c][i] # Unread => calls[c][i] <= now[c]
NoFuture == \A c \in Containers : Past(c)

\* The state x of a container is the daemon's, or the difference is accounted
\* for: it was lost, or an inspect in flight has read it or is still to read.
OnItsWay(c) == \E i \in DOMAIN calls[c] : calls[c][i] \in {Unread, now[c]}
Explained(c) == gap[c] = now[c] \/ OnItsWay(c)
Current(c, x) == x = now[c] \/ Explained(c)

\* Only a connected client resyncs.  It joins the rooms last, with a snapshot
\* that its cards still show, for no room has changed them meanwhile.
Synced ==
    /\ sync # "none" => conn
    /\ rooms # {} => sync = "joined"
    /\ sync = "applied" => \A c \in Listed : snap[c] \in Versions /\ view[c] = snap[c]
    /\ sync \in {"reading", "applied"} =>
          \A c \in Containers : snap[c] \in Versions => Current(c, snap[c])

\* A card in its room is accounted for, or has been given the newest state.
InRoom == \A c \in rooms : Current(c, view[c]) \/ newest[c] = now[c]

IInv ==
    /\ TypeOK
    /\ Subscribed
    /\ NoFuture
    /\ Synced
    /\ InRoom

-----------------------------------------------------------------------------
\* What an inspect in flight holds, and what RemoveAt leaves of a sequence.
Read == Versions \union {Unread}

LEMMA Markers ==
    /\ Exited \in Versions /\ Versions \subseteq Nat
    /\ Unread \in Nat /\ Unlisted \in Nat
    /\ Unread \notin Versions /\ Unlisted \notin Versions /\ Unread # Unlisted
BY LiveAssumption DEF Exited, Versions, Unread, Unlisted

LEMMA RemoveAtProperties ==
    ASSUME NEW S, NEW s \in Seq(S), NEW i \in 1..Len(s)
    PROVE  /\ RemoveAt(s, i) \in Seq(S)
           /\ Len(RemoveAt(s, i)) = Len(s) - 1
           /\ \A k \in 1..(Len(s) - 1) :
                 RemoveAt(s, i)[k] = IF k < i THEN s[k] ELSE s[k + 1]
<1> DEFINE a == SubSeq(s, 1, i - 1)
           b == SubSeq(s, i + 1, Len(s))
<1>1. Len(s) \in Nat /\ \A k \in 1..Len(s) : s[k] \in S
  BY LenProperties, ElementOfSeq
<1>2. /\ a \in Seq(S) /\ Len(a) = i - 1
      /\ \A k \in 1..(i - 1) : a[k] = s[k]
  <2>1. \A k \in 1..(i - 1) : s[k] \in S
    BY <1>1
  <2>2. /\ a \in Seq(S) /\ Len(a) = IF 1 <= i - 1 THEN i - 1 - 1 + 1 ELSE 0
        /\ \A k \in 1..(i - 1 - 1 + 1) : a[k] = s[1 + k - 1]
    BY <1>1, <2>1, SubSeqProperties
  <2>3. QED
    BY <1>1, <2>2
<1>3. /\ b \in Seq(S) /\ Len(b) = Len(s) - i
      /\ \A k \in 1..(Len(s) - i) : b[k] = s[i + k]
  <2>1. \A k \in (i + 1)..Len(s) : s[k] \in S
    BY <1>1
  <2>2. /\ b \in Seq(S)
        /\ Len(b) = IF i + 1 <= Len(s) THEN Len(s) - (i + 1) + 1 ELSE 0
        /\ \A k \in 1..(Len(s) - (i + 1) + 1) : b[k] = s[(i + 1) + k - 1]
    BY <1>1, <2>1, SubSeqProperties
  <2>3. QED
    BY <1>1, <2>2
<1>4. RemoveAt(s, i) = a \o b
  BY DEF RemoveAt
<1> HIDE DEF a, b
<1>5. /\ a \o b \in Seq(S) /\ Len(a \o b) = Len(a) + Len(b)
      /\ \A k \in 1..(Len(a) + Len(b)) :
            (a \o b)[k] = IF k <= Len(a) THEN a[k] ELSE b[k - Len(a)]
  BY <1>2, <1>3, ConcatProperties
<1>6. QED
  BY <1>1, <1>2, <1>3, <1>4, <1>5

-----------------------------------------------------------------------------
LEMMA InitIInv == Init => IInv
<1> SUFFICES ASSUME Init PROVE IInv
  OBVIOUS
<1> USE Markers
<1>1. TypeOK
  <2>1. rooms \subseteq Containers /\ Cardinality(rooms) <= MaxRooms
    BY FS_EmptySet, LiveAssumption DEF Init
  <2>2. now \in [Containers -> Versions] /\ view \in [Containers -> Versions]
    BY LiveAssumption DEF Init, Everywhere, Exited, Versions
  <2>3. /\ calls \in [Containers -> Seq(Versions \union {Unread})]
        /\ \A c \in Containers : Len(calls[c]) <= MaxCalls
    BY LiveAssumption DEF Init, Everywhere
  <2>4. /\ snap \in [Containers -> Versions \union {Unread, Unlisted}]
        /\ gap \in [Containers -> Versions] /\ newest \in [Containers -> Versions]
    BY DEF Init, Everywhere
  <2>5. {opening, streams, failing, timers} \subseteq Nat
    BY DEF Init
  <2>6. stopped \in BOOLEAN /\ conn \in BOOLEAN
    BY Zenon DEF Init
  <2>7. sync \in {"none", "asked", "reading", "applied", "joined", "failed"}
    BY DEF Init
  <2>8. QED
    BY <2>1, <2>2, <2>3, <2>4, <2>5, <2>6, <2>7 DEF TypeOK
<1>2. Subscribed
  BY DEF Init, Subscribed, OneSubscription
<1>3. NoFuture
  BY DEF Init, NoFuture, Past, Everywhere, Exited
<1>4. Synced /\ InRoom
  BY DEF Init, Synced, InRoom
<1>5. QED
  BY <1>1, <1>2, <1>3, <1>4 DEF IInv

-----------------------------------------------------------------------------
\* A step that touches neither the daemon's state of a container nor what is in
\* flight or lost of it leaves what accounts for its card alone.
LEMMA ExplainedSame ==
    ASSUME NEW c, calls'[c] = calls[c], now'[c] = now[c], gap'[c] = gap[c]
    PROVE  Explained(c)' = Explained(c)
BY DEF Explained, OnItsWay

\* The steps of the event stream.
LEMMA EventsIInv == IInv /\ Events => IInv'
<1> SUFFICES ASSUME IInv, Events PROVE IInv'
  OBVIOUS
<1> USE DEF IInv
<1>1. UNCHANGED <<now, calls, client, gap, newest>>
  BY DEF Events, Opens, OpenFails, StreamEnds, EndAfterError, Retry, ModuleDestroy
<1>2. /\ stopped' \in BOOLEAN /\ {opening, streams, failing, timers}' \subseteq Nat
      /\ Subscribed'
  <2> USE DEF TypeOK, Subscribed, OneSubscription, ScheduleRetry
  <2>1. CASE Opens
    BY <2>1 DEF Opens
  <2>2. CASE OpenFails
    BY <2>2 DEF OpenFails
  <2>3. CASE StreamEnds
    BY <2>3 DEF StreamEnds
  <2>4. CASE EndAfterError
    BY <2>4 DEF EndAfterError
  <2>5. CASE Retry
    <3>1. /\ timers = 1 /\ failing = 0 /\ ~stopped /\ opening = 0 /\ streams = 0
          /\ timers' = 0 /\ opening' = 1
          /\ UNCHANGED <<stopped, streams, failing>>
      BY <2>5 DEF Retry, Resubscribe
    <3>2. QED
      BY <3>1
  <2>6. CASE ModuleDestroy
    BY <2>6 DEF ModuleDestroy
  <2>7. QED
    BY <2>1, <2>2, <2>3, <2>4, <2>5, <2>6 DEF Events
<1>3. TypeOK'
  BY <1>1, <1>2 DEF TypeOK, client
<1>4. NoFuture'
  BY <1>1 DEF NoFuture, Past, client
<1>5. Synced' /\ InRoom'
  BY <1>1 DEF Synced, InRoom, Current, Explained, OnItsWay, Listed, client
<1>6. QED
  BY <1>2, <1>3, <1>4, <1>5

-----------------------------------------------------------------------------
\* A step after which container c is accounted for, and that leaves the others
\* and the client alone, keeps what is said of the snapshot and of the rooms.
LEMMA ExplainedStep ==
    ASSUME TypeOK, Synced, InRoom, NEW c \in Containers, Explained(c)',
           UNCHANGED <<client, newest>>,
           \A d \in Containers \ {c} : Explained(d)' = Explained(d) /\ now'[d] = now[d]
    PROVE  Synced' /\ InRoom'
<1>1. rooms \subseteq Containers /\ Listed \subseteq Containers
  BY DEF TypeOK, Listed
<1>2. UNCHANGED <<conn, rooms, sync, snap, view, Listed>>
  BY DEF client, Listed
<1>3. ASSUME NEW d \in Containers, NEW x, Current(d, x)
      PROVE  Current(d, x)'
  BY <1>3 DEF Current
<1>4. Synced'
  BY <1>1, <1>2, <1>3 DEF Synced
<1>5. InRoom'
  <2> SUFFICES ASSUME NEW d \in rooms
               PROVE  Current(d, view[d])' \/ newest'[d] = now'[d]
    BY <1>2 DEF InRoom
  <2>1. CASE d = c
    BY <2>1 DEF Current
  <2>2. CASE d # c
    BY <1>1, <1>2, <2>2 DEF InRoom, Current
  <2>3. QED
    BY <2>1, <2>2
<1>6. QED
  BY <1>4, <1>5

\* What a call of publishFromEvent in flight holds.
LEMMA CallsAre ==
    ASSUME TypeOK, NEW c \in Containers
    PROVE  /\ calls[c] \in Seq(Read) /\ DOMAIN calls[c] = 1..Len(calls[c])
           /\ Len(calls[c]) \in Nat /\ Len(calls[c]) <= MaxCalls
           /\ \A i \in DOMAIN calls[c] : calls[c][i] \in Read
BY LenProperties, ElementOfSeq DEF TypeOK, Read

LEMMA Values ==
    ASSUME TypeOK, NEW c \in Containers
    PROVE  /\ {now[c], gap[c], view[c], newest[c]} \subseteq Versions
           /\ now[c] \in Nat /\ gap[c] \in Nat /\ view[c] \in Nat /\ newest[c] \in Nat
           /\ snap[c] \in Nat
BY Markers DEF TypeOK

\* What no older than the daemon's state was is no older after a change.
LEMMA PastSame ==
    ASSUME NEW c, calls'[c] = calls[c], now'[c] = now[c], gap'[c] = gap[c],
           snap'[c] = snap[c], view'[c] = view[c], newest'[c] = newest[c]
    PROVE  Past(c)' = Past(c)
BY DEF Past

\* A step of the daemon, or of an inspect, after which container c is accounted
\* for, and that gives no inspect a state that is yet to come.
LEMMA AccountedStep ==
    ASSUME IInv, NEW c \in Containers, UNCHANGED <<events, client, newest>>,
           now' \in [Containers -> Versions], now'[c] >= now[c],
           calls' \in [Containers -> Seq(Read)],
           \A d \in Containers : Len(calls'[d]) <= MaxCalls,
           \A i \in DOMAIN calls'[c] : calls'[c][i] # Unread => calls'[c][i] <= now'[c],
           gap' \in [Containers -> Versions], gap'[c] <= now'[c],
           \A d \in Containers \ {c} :
              now'[d] = now[d] /\ calls'[d] = calls[d] /\ gap'[d] = gap[d],
           Explained(c)'
    PROVE  IInv'
<1> USE DEF IInv
<1>1. TypeOK'
  BY DEF TypeOK, Read, events, client
<1>2. NoFuture'
  <2>1. Past(c)'
    <3>1. /\ view'[c] = view[c] /\ newest'[c] = newest[c] /\ snap'[c] = snap[c]
          /\ view[c] <= newest[c] /\ newest[c] <= now[c]
          /\ snap[c] \in Versions => snap[c] <= now[c]
      BY DEF NoFuture, Past, client
    <3>2. {now[c], now'[c], newest[c], snap[c]} \subseteq Nat
      BY Values, Markers
    <3>3. QED
      BY <3>1, <3>2 DEF Past
  <2>2. \A d \in Containers \ {c} : Past(d)' = Past(d)
    BY PastSame DEF client
  <2>3. QED
    BY <2>1, <2>2 DEF NoFuture
<1>3. \A d \in Containers \ {c} : Explained(d)' = Explained(d)
  BY ExplainedSame
<1>4. Synced' /\ InRoom'
  BY <1>3, ExplainedStep
<1>5. Subscribed'
  BY DEF Subscribed, OneSubscription, events
<1>6. QED
  BY <1>1, <1>2, <1>4, <1>5

\* A container changes: the inspect of its event will see it, or it is lost.
LEMMA ChangeIInv == ASSUME IInv, NEW c \in Containers, Change(c) PROVE IInv'
<1> USE DEF IInv
<1>1. /\ now' = [now EXCEPT ![c] = now[c] + 1] /\ now[c] < MaxVersion
      /\ UNCHANGED <<events, client, newest>>
  BY DEF Change
<1>2. /\ now[c] \in Nat /\ gap[c] \in Nat /\ now[c] + 1 \in Versions
  BY <1>1, Values, LiveAssumption DEF Versions
<1>3. now' \in [Containers -> Versions] /\ now'[c] = now[c] + 1 /\ now'[c] >= now[c]
      /\ \A d \in Containers \ {c} : now'[d] = now[d]
  BY <1>1, <1>2 DEF TypeOK
<1>4. /\ calls[c] \in Seq(Read) /\ Len(calls[c]) \in Nat
      /\ DOMAIN calls[c] = 1..Len(calls[c])
      /\ calls \in [Containers -> Seq(Read)] /\ gap \in [Containers -> Versions]
      /\ \A d \in Containers : Len(calls[d]) <= MaxCalls
      /\ gap[c] <= now[c]
  BY CallsAre DEF TypeOK, Read, NoFuture, Past
<1>5. \A i \in DOMAIN calls[c] : calls[c][i] # Unread => calls[c][i] <= now'[c]
  <2>1. \A i \in DOMAIN calls[c] : calls[c][i] \in Nat
    BY CallsAre, Markers DEF Read
  <2>2. QED
    BY <1>2, <1>3, <2>1 DEF NoFuture, Past
<1>6. CASE streams > 0
  <2>1. /\ calls' = [calls EXCEPT ![c] = Append(calls[c], Unread)]
        /\ Len(calls[c]) < MaxCalls /\ UNCHANGED gap
    BY <1>6 DEF Change, PublishFromEvent
  <2>2. Unread \in Read
    BY DEF Read
  <2>3. /\ Append(calls[c], Unread) \in Seq(Read)
        /\ Len(Append(calls[c], Unread)) = Len(calls[c]) + 1
        /\ \A i \in 1..Len(calls[c]) : Append(calls[c], Unread)[i] = calls[c][i]
        /\ Append(calls[c], Unread)[Len(calls[c]) + 1] = Unread
    BY <1>4, <2>2, AppendProperties
  <2>4. /\ calls' \in [Containers -> Seq(Read)]
        /\ calls'[c] = Append(calls[c], Unread)
        /\ \A d \in Containers \ {c} : calls'[d] = calls[d]
    BY <1>4, <2>1, <2>3
  <2>5. DOMAIN calls'[c] = 1..(Len(calls[c]) + 1)
    BY <2>3, <2>4, LenProperties
  <2>6. \A d \in Containers : Len(calls'[d]) <= MaxCalls
    BY <1>4, <2>1, <2>3, <2>4, LiveAssumption
  <2>7. \A i \in DOMAIN calls'[c] : calls'[c][i] # Unread => calls'[c][i] <= now'[c]
    BY <1>4, <1>5, <2>3, <2>4, <2>5
  <2>8. gap'[c] <= now'[c]
    BY <1>2, <1>3, <1>4, <2>1
  <2>9. Explained(c)'
    BY <1>4, <2>3, <2>4, <2>5 DEF Explained, OnItsWay
  <2>10. QED
    BY <1>1, <1>3, <1>4, <2>1, <2>4, <2>6, <2>7, <2>8, <2>9, AccountedStep
<1>7. CASE ~(streams > 0)
  <2>1. /\ gap' = [gap EXCEPT ![c] = IF now'[c] > gap[c] THEN now'[c] ELSE gap[c]]
        /\ UNCHANGED calls
    BY <1>7 DEF Change, Missed
  <2>2. now'[c] > gap[c] /\ now'[c] \in Versions /\ now'[c] <= now'[c]
    BY <1>2, <1>3, <1>4
  <2>3. gap' \in [Containers -> Versions] /\ gap'[c] = now'[c] /\ gap'[c] <= now'[c]
        /\ \A d \in Containers \ {c} : gap'[d] = gap[d]
    BY <1>4, <2>1, <2>2
  <2>4. Explained(c)'
    BY <2>3 DEF Explained
  <2>5. QED
    BY <1>1, <1>3, <1>4, <1>5, <2>1, <2>3, <2>4, AccountedStep
<1>8. QED
  BY <1>6, <1>7

\* An inspect reads the daemon's state of that moment, or loses it.
LEMMA InspectStateIInv == ASSUME IInv, NEW c \in Containers, InspectState(c) PROVE IInv'
<1> USE DEF IInv
<1>1. PICK i \in DOMAIN calls[c] :
         /\ calls[c][i] = Unread
         /\ \/ calls' = [calls EXCEPT ![c][i] = now[c]] /\ UNCHANGED gap
            \/ calls' = [calls EXCEPT ![c][i] = Exited] /\ Missed(c, now[c])
  BY DEF InspectState
<1>2. UNCHANGED <<now, events, client, newest>>
  BY DEF InspectState
<1>3. /\ now[c] \in Nat /\ gap[c] \in Nat /\ now[c] \in Versions /\ Exited <= now[c]
      /\ gap[c] <= now[c] /\ gap \in [Containers -> Versions]
      /\ now \in [Containers -> Versions] /\ now[c] >= now[c]
  BY Values DEF Exited, NoFuture, Past, TypeOK
<1>4. PICK v \in {now[c], Exited} : calls' = [calls EXCEPT ![c] = [calls[c] EXCEPT ![i] = v]]
  BY <1>1
<1>5. v \in Versions /\ v \in Read /\ v <= now[c]
  BY <1>3, Markers DEF Read
<1>6. /\ calls[c] \in Seq(Read) /\ DOMAIN calls[c] = 1..Len(calls[c])
      /\ calls \in [Containers -> Seq(Read)]
      /\ \A d \in Containers : Len(calls[d]) <= MaxCalls
      /\ \A j \in DOMAIN calls[c] : calls[c][j] # Unread => calls[c][j] <= now[c]
  BY CallsAre DEF TypeOK, Read, NoFuture, Past
<1>7. /\ [calls[c] EXCEPT ![i] = v] \in Seq(Read)
      /\ Len([calls[c] EXCEPT ![i] = v]) = Len(calls[c])
  BY <1>5, <1>6, ExceptSeq
<1>8. /\ calls' \in [Containers -> Seq(Read)]
      /\ calls'[c] = [calls[c] EXCEPT ![i] = v]
      /\ \A d \in Containers \ {c} : calls'[d] = calls[d]
  BY <1>4, <1>6, <1>7
<1>9. \A d \in Containers : Len(calls'[d]) <= MaxCalls
  BY <1>6, <1>7, <1>8
<1>10. \A j \in DOMAIN calls'[c] : calls'[c][j] # Unread => calls'[c][j] <= now'[c]
  BY <1>2, <1>5, <1>6, <1>8
<1>11. /\ gap' \in [Containers -> Versions] /\ gap'[c] <= now'[c]
       /\ \A d \in Containers \ {c} : gap'[d] = gap[d]
       /\ Explained(c)'
  <2>1. CASE calls' = [calls EXCEPT ![c][i] = now[c]] /\ UNCHANGED gap
    <3>1. calls'[c][i] = now'[c] /\ i \in DOMAIN calls'[c]
      BY <1>2, <1>6, <2>1
    <3>2. Explained(c)'
      BY <3>1 DEF Explained, OnItsWay
    <3>3. QED
      BY <1>2, <1>3, <2>1, <3>2
  <2>2. CASE Missed(c, now[c])
    <3>1. gap' = [gap EXCEPT ![c] = IF now[c] > gap[c] THEN now[c] ELSE gap[c]]
      BY <2>2 DEF Missed
    <3>2. (IF now[c] > gap[c] THEN now[c] ELSE gap[c]) = now[c]
      BY <1>3
    <3>3. Explained(c)'
      BY <1>2, <1>3, <3>1, <3>2 DEF Explained
    <3>4. QED
      BY <1>2, <1>3, <3>1, <3>2, <3>3
  <2>3. QED
    BY <1>1, <2>1, <2>2
<1>12. QED
  BY <1>2, <1>3, <1>8, <1>9, <1>10, <1>11, AccountedStep

\* An update is published, to the card or to nobody.
LEMMA PublishUpdateIInv == ASSUME IInv, NEW c \in Containers, PublishUpdate(c) PROVE IInv'
<1> USE DEF IInv
<1>1. PICK i \in DOMAIN calls[c] :
         /\ calls[c][i] # Unread
         /\ calls' = [calls EXCEPT ![c] = RemoveAt(calls[c], i)]
         /\ IF c \in rooms
            THEN ApplyUpdate(c, calls[c][i]) /\ UNCHANGED gap
            ELSE Missed(c, calls[c][i]) /\ UNCHANGED <<view, newest>>
  BY DEF PublishUpdate
<1>2. UNCHANGED <<now, events, conn, sync, snap, rooms>>
  BY DEF PublishUpdate
<1>3. /\ calls[c] \in Seq(Read) /\ DOMAIN calls[c] = 1..Len(calls[c])
      /\ calls \in [Containers -> Seq(Read)] /\ Len(calls[c]) \in Nat
      /\ \A d \in Containers : Len(calls[d]) <= MaxCalls
      /\ \A j \in DOMAIN calls[c] : calls[c][j] # Unread => calls[c][j] <= now[c]
      /\ \A j \in DOMAIN calls[c] : calls[c][j] \in Read
  BY CallsAre DEF TypeOK, Read, NoFuture, Past
<1>4. PICK v \in Versions : v = calls[c][i] /\ v <= now[c] /\ v \in Nat
  BY <1>1, <1>3, Markers DEF Read
<1>5. /\ RemoveAt(calls[c], i) \in Seq(Read)
      /\ Len(RemoveAt(calls[c], i)) = Len(calls[c]) - 1
      /\ \A k \in 1..(Len(calls[c]) - 1) :
            RemoveAt(calls[c], i)[k] = IF k < i THEN calls[c][k] ELSE calls[c][k + 1]
  BY <1>3, RemoveAtProperties
<1>6. /\ calls' \in [Containers -> Seq(Read)]
      /\ calls'[c] = RemoveAt(calls[c], i)
      /\ \A d \in Containers \ {c} : calls'[d] = calls[d]
  BY <1>1, <1>3, <1>5
<1>7. DOMAIN calls'[c] = 1..(Len(calls[c]) - 1)
  BY <1>5, <1>6, LenProperties
<1>8. \A d \in Containers : Len(calls'[d]) <= MaxCalls
  <2>1. Len(calls'[c]) <= MaxCalls
    BY <1>3, <1>5, <1>6, LiveAssumption
  <2>2. QED
    BY <1>3, <1>6, <2>1
<1>9. \A k \in DOMAIN calls'[c] : calls'[c][k] # Unread => calls'[c][k] <= now'[c]
  <2> TAKE k \in DOMAIN calls'[c]
  <2>1. k \in DOMAIN calls[c] /\ k + 1 \in DOMAIN calls[c] /\ k \in 1..(Len(calls[c]) - 1)
    BY <1>3, <1>7
  <2>2. calls'[c][k] \in {calls[c][k], calls[c][k + 1]}
    BY <1>5, <1>6, <2>1
  <2>3. QED
    BY <1>2, <1>3, <2>1, <2>2
<1>10. OnItsWay(c) => v = now[c] \/ OnItsWay(c)'
  <2> SUFFICES ASSUME NEW j \in DOMAIN calls[c], calls[c][j] \in {Unread, now[c]}, v # now[c]
               PROVE  \E k \in DOMAIN calls'[c] : calls'[c][k] \in {Unread, now'[c]}
    BY DEF OnItsWay
  <2>1. j # i
    BY <1>1, <1>4
  <2>2. CASE j < i
    <3>1. j \in DOMAIN calls'[c] /\ calls'[c][j] = calls[c][j]
      BY <1>3, <1>5, <1>6, <1>7, <2>2
    <3>2. QED
      BY <3>1, <1>2
  <2>3. CASE j > i
    <3>1. j - 1 \in DOMAIN calls'[c] /\ calls'[c][j - 1] = calls[c][j]
      BY <1>3, <1>5, <1>6, <1>7, <2>3
    <3>2. QED
      BY <3>1, <1>2
  <2>4. QED
    BY <1>3, <2>1, <2>2, <2>3
<1>11. /\ now[c] \in Nat /\ gap[c] \in Nat /\ newest[c] \in Nat /\ view[c] \in Nat
       /\ gap[c] <= now[c] /\ view[c] <= newest[c] /\ newest[c] <= now[c]
       /\ gap \in [Containers -> Versions] /\ view \in [Containers -> Versions]
       /\ newest \in [Containers -> Versions] /\ now \in [Containers -> Versions]
       /\ rooms \subseteq Containers
  BY Values DEF NoFuture, Past, TypeOK
<1>12. Subscribed'
  BY <1>2 DEF Subscribed, OneSubscription, events
<1>13. CASE c \in rooms
  <2>1. /\ view' = [view EXCEPT ![c] = v] /\ UNCHANGED gap
        /\ newest' = [newest EXCEPT ![c] = IF v > newest[c] THEN v ELSE newest[c]]
    BY <1>1, <1>4, <1>13 DEF ApplyUpdate
  <2>2. /\ view' \in [Containers -> Versions] /\ view'[c] = v
        /\ newest' \in [Containers -> Versions]
        /\ newest'[c] = IF v > newest[c] THEN v ELSE newest[c]
        /\ \A d \in Containers \ {c} : view'[d] = view[d] /\ newest'[d] = newest[d]
    BY <1>4, <1>11, <2>1
  <2>3. TypeOK'
    BY <1>2, <1>6, <1>8, <2>1, <2>2 DEF TypeOK, Read, events
  <2>4. NoFuture'
    <3>1. Past(c)'
      <4>1. snap'[c] = snap[c] /\ (snap[c] \in Versions => snap[c] <= now[c])
        BY <1>2 DEF NoFuture, Past
      <4>2. view'[c] <= newest'[c] /\ newest'[c] <= now'[c] /\ gap'[c] <= now'[c]
        BY <1>2, <1>4, <1>11, <2>1, <2>2
      <4>3. QED
        BY <1>2, <1>9, <4>1, <4>2 DEF Past
    <3>2. \A d \in Containers \ {c} : Past(d)' = Past(d)
      BY <1>2, <1>6, <2>1, <2>2, PastSame
    <3>3. QED
      BY <3>1, <3>2 DEF NoFuture
  <2>5. Synced'
    BY <1>2, <1>13 DEF Synced
  <2>6. InRoom'
    <3>1. Current(c, view[c])' \/ newest'[c] = now'[c]
      <4>1. CASE v = now[c] \/ newest[c] = now[c] \/ view[c] = now[c]
        BY <1>2, <1>4, <1>11, <2>2, <4>1
      <4>2. CASE Explained(c)
        BY <1>2, <1>10, <2>1, <2>2, <4>2 DEF Explained, Current
      <4>3. QED
        BY <1>13, <4>1, <4>2 DEF InRoom, Current
    <3>2. ASSUME NEW d \in rooms, d # c
          PROVE  Current(d, view[d])' \/ newest'[d] = now'[d]
      <4>1. Explained(d)' = Explained(d)
        BY <1>2, <1>6, <1>11, <2>1, <3>2, ExplainedSame
      <4>2. QED
        BY <1>2, <1>11, <2>2, <3>2, <4>1 DEF InRoom, Current
    <3>3. QED
      BY <1>2, <3>1, <3>2 DEF InRoom
  <2>7. QED
    BY <1>12, <2>3, <2>4, <2>5, <2>6
<1>14. CASE c \notin rooms
  <2>1. /\ gap' = [gap EXCEPT ![c] = IF v > gap[c] THEN v ELSE gap[c]]
        /\ UNCHANGED <<view, newest>>
    BY <1>1, <1>4, <1>14 DEF Missed
  <2>2. /\ gap' \in [Containers -> Versions]
        /\ gap'[c] = IF v > gap[c] THEN v ELSE gap[c]
        /\ \A d \in Containers \ {c} : gap'[d] = gap[d]
    BY <1>4, <1>11, <2>1
  <2>3. TypeOK'
    BY <1>2, <1>6, <1>8, <2>1, <2>2 DEF TypeOK, Read, events
  <2>4. NoFuture'
    <3>1. Past(c)'
      <4>1. snap'[c] = snap[c] /\ (snap[c] \in Versions => snap[c] <= now[c])
        BY <1>2 DEF NoFuture, Past
      <4>2. view'[c] <= newest'[c] /\ newest'[c] <= now'[c] /\ gap'[c] <= now'[c]
        BY <1>2, <1>4, <1>11, <2>1, <2>2
      <4>3. QED
        BY <1>2, <1>9, <4>1, <4>2 DEF Past
    <3>2. \A d \in Containers \ {c} : Past(d)' = Past(d)
      BY <1>2, <1>6, <2>1, <2>2, PastSame
    <3>3. QED
      BY <3>1, <3>2 DEF NoFuture
  <2>5. \A d \in Containers : Explained(d) => Explained(d)'
    <3>1. Explained(c) => Explained(c)'
      BY <1>2, <1>4, <1>10, <1>11, <2>2 DEF Explained
    <3>2. \A d \in Containers \ {c} : Explained(d)' = Explained(d)
      BY <1>2, <1>6, <2>2, ExplainedSame
    <3>3. QED
      BY <3>1, <3>2
  <2>6. ASSUME NEW d \in Containers, NEW x, Current(d, x)
        PROVE  Current(d, x)'
    BY <1>2, <2>5, <2>6 DEF Current
  <2>7. Synced'
    <3>1. Listed' = Listed /\ Listed \subseteq Containers
      BY <1>2 DEF Listed
    <3>2. QED
      BY <1>2, <2>1, <2>6, <3>1 DEF Synced
  <2>8. InRoom'
    BY <1>2, <1>11, <2>1, <2>5 DEF InRoom, Current
  <2>9. QED
    BY <1>12, <2>3, <2>4, <2>7, <2>8
<1>15. QED
  BY <1>13, <1>14

-----------------------------------------------------------------------------
\* A step of the client's socket changes nothing of the daemon's or in flight.
LEMMA ClientSame ==
    ASSUME IInv, UNCHANGED <<now, events, calls, gap>>
    PROVE  /\ Subscribed'
           /\ \A d \in Containers, x \in Versions : Current(d, x)' = Current(d, x)
<1>1. Subscribed'
  BY DEF IInv, Subscribed, OneSubscription, events
<1>2. \A d \in Containers, x \in Versions : Current(d, x)' = Current(d, x)
  BY DEF Current, Explained, OnItsWay
<1>3. QED
  BY <1>1, <1>2

\* A client connects and disconnects: without its rooms it is told nothing.
LEMMA ConnectionIInv == IInv /\ (Connect \/ Disconnect) => IInv'
<1> SUFFICES ASSUME IInv, Connect \/ Disconnect PROVE IInv'
  OBVIOUS
<1> USE DEF IInv
<1>1. UNCHANGED <<now, events, calls, view, gap, newest>>
  BY DEF Connect, Disconnect
<1>2. conn' \in BOOLEAN
  BY Zenon DEF Connect, Disconnect
<1>3. sync' \in {"none", "asked"} /\ rooms' = {} /\ (sync' # "none" => conn')
  BY DEF Connect, Disconnect, Synced
<1>4. \A d \in Containers : snap'[d] \in {snap[d], Unlisted}
  BY DEF Connect, Disconnect, Everywhere
<1>5. snap' \in [Containers -> Versions \union {Unread, Unlisted}]
  BY DEF Connect, Disconnect, Everywhere, TypeOK
<1>6. TypeOK'
  <2>1. rooms' \subseteq Containers /\ Cardinality(rooms') <= MaxRooms
    BY <1>3, FS_EmptySet, LiveAssumption
  <2>2. QED
    BY <1>1, <1>2, <1>3, <1>5, <2>1 DEF TypeOK, events
<1>7. NoFuture'
  BY <1>1, <1>4, Markers DEF NoFuture, Past
<1>8. Synced' /\ InRoom'
  BY <1>3 DEF Synced, InRoom
<1>9. QED
  BY <1>1, <1>6, <1>7, <1>8, ClientSame

\* The snapshot is listed and read: each state in it was the daemon's.
LEMMA SnapshotIInv ==
    IInv /\ (List \/ ListFails \/ \E c \in Containers : InspectForSnapshot(c)) => IInv'
<1> SUFFICES ASSUME IInv, List \/ ListFails \/ \E c \in Containers : InspectForSnapshot(c)
             PROVE  IInv'
  OBVIOUS
<1> USE DEF IInv
<1>1. UNCHANGED <<now, events, calls, conn, rooms, view, gap, newest>>
  BY DEF List, ListFails, InspectForSnapshot
<1>2. sync' \in {"reading", "failed"} /\ sync \in {"asked", "reading"} /\ rooms = {}
  BY DEF List, ListFails, InspectForSnapshot, Synced
<1> DEFINE Taken ==
      /\ snap' \in [Containers -> Versions \union {Unread, Unlisted}]
      /\ \A d \in Containers : snap'[d] \in {snap[d], now[d], Unread, Unlisted}
      /\ sync' = "reading" =>
            \A d \in Containers : snap'[d] \in Versions =>
               snap'[d] = now[d] \/ (sync = "reading" /\ snap'[d] = snap[d])
<1>3. Taken
  <2>1. CASE List
    BY <2>1, Markers DEF List, TypeOK
  <2>2. CASE ListFails
    BY <2>2 DEF ListFails, TypeOK
  <2>3. ASSUME NEW c \in Containers, InspectForSnapshot(c)
        PROVE  Taken
    <3>1. PICK v \in {now[c], Unlisted} : snap' = [snap EXCEPT ![c] = v]
      BY <2>3 DEF InspectForSnapshot
    <3>2. v \in Versions \union {Unlisted}
      BY Values
    <3>3. QED
      BY <2>3, <3>1, <3>2, Markers DEF InspectForSnapshot, TypeOK
  <2>4. QED
    BY <2>1, <2>2, <2>3
<1>4. TypeOK'
  BY <1>1, <1>2, <1>3 DEF TypeOK, events
<1>5. NoFuture'
  <2>1. \A d \in Containers : now[d] <= now[d]
    BY Values
  <2>2. \A d \in Containers : snap'[d] \in Versions => snap'[d] <= now[d]
    BY <1>3, <2>1, Markers DEF NoFuture, Past
  <2>3. QED
    BY <1>1, <2>2 DEF NoFuture, Past
<1>6. Synced'
  <2>1. ASSUME sync' = "reading", NEW d \in Containers, snap'[d] \in Versions
        PROVE  Current(d, snap[d])'
    <3>1. Explained(d)' = Explained(d)
      BY <1>1, ExplainedSame
    <3>2. QED
      BY <1>1, <1>3, <2>1, <3>1 DEF Synced, Current
  <2>2. sync' # "applied" /\ rooms' = {} /\ conn'
    BY <1>1, <1>2 DEF Synced
  <2>3. QED
    BY <2>1, <2>2 DEF Synced
<1>7. InRoom'
  BY <1>1, <1>2 DEF InRoom
<1>8. QED
  BY <1>1, <1>4, <1>5, <1>6, <1>7, ClientSame

\* The cards show the snapshot.
LEMMA ApplySnapshotIInv == IInv /\ ApplySnapshot => IInv'
<1> SUFFICES ASSUME IInv, ApplySnapshot PROVE IInv'
  OBVIOUS
<1> USE DEF IInv
<1>1. /\ UNCHANGED <<now, events, calls, conn, snap, rooms, gap>>
      /\ sync = "reading" /\ newest' = view' /\ sync' \in {"joined", "applied"}
      /\ view' = [d \in Containers |-> IF d \in Listed THEN snap[d] ELSE Exited]
  BY DEF ApplySnapshot
<1>2. \A d \in Listed : d \in Containers /\ snap[d] \in Versions /\ view'[d] = snap[d]
  BY <1>1 DEF ApplySnapshot, Listed, TypeOK
<1>3. view' \in [Containers -> Versions]
  BY <1>1, <1>2, Markers
<1>4. rooms = {} /\ conn
  BY <1>1 DEF Synced
<1>5. TypeOK'
  BY <1>1, <1>3 DEF TypeOK, events
<1>6. NoFuture'
  <2>1. \A d \in Containers : view'[d] <= newest'[d] /\ newest'[d] <= now[d]
    <3>1. \A d \in Containers : view'[d] \in Nat /\ now[d] \in Nat
      BY <1>3, Values, Markers
    <3>2. \A d \in Containers : view'[d] <= now[d]
      BY <1>1, <1>2, <3>1 DEF Exited, NoFuture, Past
    <3>3. QED
      BY <1>1, <3>1, <3>2
  <2>2. QED
    BY <1>1, <2>1 DEF NoFuture, Past
<1>7. Synced'
  <2>1. Listed' = Listed
    BY <1>1 DEF Listed
  <2>2. \A d \in Containers : snap'[d] \in Versions => Current(d, snap[d])'
    BY <1>1 DEF Synced, Current, Explained, OnItsWay
  <2>3. QED
    BY <1>1, <1>2, <1>4, <2>1, <2>2 DEF Synced
<1>8. InRoom'
  BY <1>1, <1>4 DEF InRoom
<1>9. QED
  BY <1>1, <1>5, <1>6, <1>7, <1>8, ClientSame

\* The rooms of the snapshot are joined, as many as a request may name.
LEMMA JoinRoomsIInv == IInv /\ JoinRooms => IInv'
<1> SUFFICES ASSUME IInv, JoinRooms PROVE IInv'
  OBVIOUS
<1> USE DEF IInv
<1>1. /\ UNCHANGED <<now, events, calls, conn, snap, view, gap, newest>>
      /\ sync = "applied" /\ sync' = "joined" /\ conn
  BY DEF JoinRooms, Synced
<1>2. /\ rooms' \subseteq Listed
      /\ Cardinality(rooms') = IF Cardinality(Listed) > MaxRooms
                               THEN MaxRooms ELSE Cardinality(Listed)
  BY DEF JoinRooms, SanitizeServices
<1>3. Listed \subseteq Containers /\ Cardinality(Listed) \in Nat
  BY LiveAssumption, FS_Subset, FS_CardinalityType DEF Listed
<1>4. TypeOK'
  BY <1>1, <1>2, <1>3, LiveAssumption DEF TypeOK, events
<1>5. NoFuture'
  BY <1>1 DEF NoFuture, Past
<1>6. Synced'
  BY <1>1 DEF Synced
<1>7. InRoom'
  BY <1>1, <1>2, <1>3 DEF InRoom, Synced, Current, Explained, OnItsWay
<1>8. QED
  BY <1>1, <1>4, <1>5, <1>6, <1>7, ClientSame

-----------------------------------------------------------------------------
LEMMA NextIInv == IInv /\ [Next]_vars => IInv'
<1> SUFFICES ASSUME IInv, [Next]_vars PROVE IInv'
  OBVIOUS
<1>1. CASE Events
  BY <1>1, EventsIInv
<1>2. CASE Publications
  BY <1>2, ChangeIInv, InspectStateIInv, PublishUpdateIInv DEF Publications
<1>3. CASE Client
  BY <1>3, ConnectionIInv, SnapshotIInv, ApplySnapshotIInv, JoinRoomsIInv DEF Client
<1>4. CASE UNCHANGED vars
  <2>1. TypeOK' /\ Subscribed'
    BY <1>4 DEF vars, events, client, IInv, TypeOK, Subscribed, OneSubscription
  <2>2. NoFuture'
    BY <1>4 DEF vars, client, IInv, NoFuture, Past
  <2>3. Synced' /\ InRoom'
    BY <1>4 DEF vars, client, IInv, Synced, InRoom, Listed, Current, Explained, OnItsWay
  <2>4. QED
    BY <2>1, <2>2, <2>3 DEF IInv
<1>5. QED
  BY <1>1, <1>2, <1>3, <1>4 DEF Next

\* The inductive invariant holds in every reachable state.
THEOREM Invariant == FairSpec => []IInv
<1>1. QED
  BY InitIInv, NextIInv, PTL DEF FairSpec

\* Type correctness: in particular no more rooms are joined than
\* sanitizeServices lets through in one request.
THEOREM TypeCorrect == FairSpec => []TypeOK
<1>1. IInv => TypeOK
  BY DEF IInv
<1>2. QED
  BY <1>1, Invariant, PTL

\* However the daemon's streams fail, and whatever they emit on their way down,
\* the service is subscribed to the events at most once.
THEOREM SubscribedOnce == FairSpec => []OneSubscription
<1>1. IInv => OneSubscription
  BY DEF IInv, Subscribed
<1>2. QED
  BY <1>1, Invariant, PTL

\* A card in its room with no inspect in flight shows the daemon's state unless
\* that state was not delivered, or was delivered before an older one.
THEOREM CardsInStep == FairSpec => []CardInStep
<1>1. IInv => CardInStep
  <2> SUFFICES ASSUME IInv, NEW c \in Containers, c \in rooms, calls[c] = << >>,
                      view[c] # now[c]
               PROVE  gap[c] = now[c] \/ newest[c] = now[c]
    BY DEF CardInStep
  <2>1. DOMAIN calls[c] = {}
    OBVIOUS
  <2>2. QED
    BY <2>1 DEF IInv, InRoom, Current, Explained, OnItsWay
<1>2. QED
  BY <1>1, Invariant, PTL
=============================================================================
