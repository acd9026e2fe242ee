--------------------------- MODULE Panels_proofs ---------------------------
(***************************************************************************)
(* Proofs about two panels of the dashboard and what feeds them: the alert *)
(* feed, for any types and filters, any limit of a poll, and any number of *)
(* alerts and of polls in flight; and the metrics, for any kinds, tabs and *)
(* ranges, any retention, and any number of rollups and queries at once.   *)
(***************************************************************************)
EXTENDS AlertFeed, MetricsRollup, SequenceTheorems, TLAPS

Numbers == 1..MaxAlerts

\* Before its first answer the poller has passed and announced nothing.
Started ==
    ~initialized => /\ base = 0 /\ lastSeenId = 0 /\ ~overtaken
                    /\ \A i \in Numbers : times[i] = 0

\* While the polls are answered in order, what is past the last alert seen has
\* not been announced, and what is up to it at most once.
InOrder ==
    ~overtaken =>
        /\ base <= lastSeenId
        /\ \A i \in Numbers : /\ times[i] <= IF i <= base THEN 0 ELSE 1
                              /\ i > lastSeenId => times[i] = 0

IInv ==
    /\ TypeOK
    /\ Started
    /\ InOrder
    /\ NothingSkipped

-----------------------------------------------------------------------------
LEMMA Bounds ==
    /\ PollLimit \in Nat /\ PollLimit >= 1 /\ MaxAlerts \in Nat
    /\ MaxPolls \in Nat /\ MaxPolls >= 1
    /\ Lengths = 0..MaxAlerts /\ Nothing = MaxAlerts + 1 /\ Nothing \notin Lengths
BY FeedAssumption DEF Lengths, Nothing

LEMMA RemoveAtType ==
    ASSUME NEW S, NEW s \in Seq(S), NEW i \in DOMAIN s
    PROVE  RemoveAt(s, i) \in Seq(S) /\ Len(RemoveAt(s, i)) = Len(s) - 1
<1> DEFINE a == SubSeq(s, 1, i - 1)
           b == SubSeq(s, i + 1, Len(s))
<1>1. /\ Len(s) \in Nat /\ i \in 1..Len(s)
      /\ \A k \in 1..(i - 1) : s[k] \in S
      /\ \A k \in (i + 1)..Len(s) : s[k] \in S
  BY LenProperties, ElementOfSeq
<1>2. a \in Seq(S) /\ Len(a) = i - 1
  <2>1. a \in Seq(S) /\ Len(a) = IF 1 <= i - 1 THEN i - 1 - 1 + 1 ELSE 0
    BY <1>1, SubSeqProperties
  <2>2. QED
    BY <1>1, <2>1
<1>3. b \in Seq(S) /\ Len(b) = Len(s) - i
  <2>1. b \in Seq(S) /\ Len(b) = IF i + 1 <= Len(s) THEN Len(s) - (i + 1) + 1 ELSE 0
    BY <1>1, SubSeqProperties
  <2>2. QED
    BY <1>1, <2>1
<1>4. RemoveAt(s, i) = a \o b
  BY DEF RemoveAt
<1> HIDE DEF a, b
<1>5. a \o b \in Seq(S) /\ Len(a \o b) = Len(a) + Len(b)
  BY <1>2, <1>3, ConcatProperties
<1>6. QED
  BY <1>1, <1>2, <1>3, <1>4, <1>5

LEMMA InitIInv == Init => IInv
<1> SUFFICES ASSUME Init PROVE IInv
  OBVIOUS
<1> USE Bounds
<1>1. TypeOK
  <2>1. feed \in Seq(Types) /\ Len(feed) = 0
    BY DEF Init
  <2>2. 0 \in Lengths
    OBVIOUS
  <2>3. polls \in Seq(Lengths) /\ Len(polls) = 1
    BY <2>2 DEF Init
  <2>4. lastSeenId \in Lengths /\ base \in Lengths /\ view \in Filters \union {Later}
    BY <2>2 DEF Init
  <2>5. {initialized, live, overtaken} \subseteq BOOLEAN
    BY DEF Init
  <2>6. /\ data \in [Filters -> Lengths \union {Nothing}]
        /\ fetching \in [Filters -> Lengths \union {Nothing}]
        /\ \A v \in Filters : data[v] = Nothing
        /\ times \in [1..MaxAlerts -> Nat]
    BY <2>2 DEF Init
  <2>7. QED
    BY <2>1, <2>3, <2>4, <2>5, <2>6 DEF TypeOK
<1>2. Started /\ InOrder
  BY DEF Init, Started, InOrder, Numbers
<1>3. NothingSkipped
  BY DEF Init, NothingSkipped
<1>4. QED
  BY <1>1, <1>2, <1>3 DEF IInv

-----------------------------------------------------------------------------
\* What the poller knows is not touched by the panel, by a poll that starts or
\* fails, or by an alert that reaches the bot.
LEMMA PollerSame ==
    ASSUME IInv, UNCHANGED <<lastSeenId, initialized, base, times, overtaken>>,
           Len(feed') \in Nat, Len(feed) <= Len(feed')
    PROVE  Started' /\ InOrder' /\ NothingSkipped'
<1>1. Started' /\ InOrder'
  BY DEF IInv, Started, InOrder
<1>2. NothingSkipped'
  <2> SUFFICES ASSUME NEW i \in base + 1..lastSeenId, times[i] = 0
               PROVE  i + PollLimit <= Len(feed')
    BY DEF NothingSkipped
  <2>1. i + PollLimit <= Len(feed)
    BY DEF IInv, NothingSkipped
  <2>2. i \in Int /\ Len(feed) \in Nat
    BY LenProperties, Bounds DEF IInv, TypeOK
  <2>3. QED
    BY <2>1, <2>2, Bounds
<1>3. QED
  BY <1>1, <1>2

LEMMA SendIInv == ASSUME IInv, NEW t \in Types, Send(t) PROVE IInv'
<1>1. /\ feed' = Append(feed, t) /\ Len(feed) < MaxAlerts
      /\ UNCHANGED <<poller, live, panel>>
  BY DEF Send
<1>2. feed \in Seq(Types) /\ Len(feed) \in Nat
  BY LenProperties DEF IInv, TypeOK
<1>3. feed' \in Seq(Types) /\ Len(feed') = Len(feed) + 1
  BY <1>1, <1>2, AppendProperties
<1>4. TypeOK'
  <2>1. \A v \in Filters : data[v] # Nothing => data[v] <= Len(feed')
    <3> SUFFICES ASSUME NEW v \in Filters, data[v] # Nothing
                 PROVE  data[v] <= Len(feed')
      OBVIOUS
    <3>1. data[v] \in Lengths /\ data[v] <= Len(feed)
      BY DEF IInv, TypeOK
    <3>2. QED
      BY <1>2, <1>3, <3>1, Bounds
  <2>2. Len(feed') <= MaxAlerts
    BY <1>1, <1>2, <1>3, Bounds
  <2>3. QED
    BY <1>1, <1>3, <2>1, <2>2 DEF IInv, TypeOK, poller, panel
<1>5. Len(feed) <= Len(feed') /\ Len(feed') \in Nat
  BY <1>2, <1>3
<1>6. QED
  BY <1>1, <1>4, <1>5, PollerSame DEF IInv, poller

\* A poll starts, or fails.
LEMMA PollIInv == IInv /\ (Poll \/ PollFails) => IInv'
<1> SUFFICES ASSUME IInv, Poll \/ PollFails PROVE IInv'
  OBVIOUS
<1>1. UNCHANGED <<feed, lastSeenId, initialized, base, times, overtaken, live, panel>>
  BY DEF Poll, PollFails
<1>2. polls \in Seq(Lengths) /\ Len(polls) \in Nat /\ Len(polls) <= MaxPolls
      /\ Len(feed) \in Nat /\ Len(feed) \in Lengths
  BY LenProperties, Bounds DEF IInv, TypeOK
<1>3. polls' \in Seq(Lengths) /\ Len(polls') <= MaxPolls
  <2>1. CASE Poll
    <3>1. polls' = Append(polls, Len(feed)) /\ Len(polls) < MaxPolls
      BY <2>1 DEF Poll
    <3>2. QED
      BY <1>2, <3>1, AppendProperties, Bounds
  <2>2. CASE PollFails
    <3>1. PICK k \in DOMAIN polls : polls' = RemoveAt(polls, k)
      BY <2>2 DEF PollFails
    <3>2. QED
      BY <1>2, <3>1, RemoveAtType, Bounds
  <2>3. QED
    BY <2>1, <2>2
<1>4. TypeOK'
  BY <1>1, <1>3 DEF IInv, TypeOK, panel
<1>5. Len(feed) <= Len(feed') /\ Len(feed') \in Nat
  BY <1>1, <1>2
<1>6. QED
  BY <1>1, <1>4, <1>5, PollerSame DEF IInv

\* The panel: its pages are read from the feed as it was at some moment.
LEMMA PanelIInv == IInv /\ Panel => IInv'
<1> SUFFICES ASSUME IInv, Panel PROVE IInv'
  OBVIOUS
<1>1. UNCHANGED <<feed, poller>>
  BY DEF Panel, Connect, Disconnect, ShowLater, Fallback, ShowFirst, PageArrives, PageFails
<1>2. Len(feed) \in Nat /\ Len(feed) \in Lengths /\ Len(feed) # Nothing
  BY LenProperties, Bounds DEF IInv, TypeOK
<1>3. live' \in BOOLEAN /\ view' \in Filters \union {Later}
  <2>1. live \in BOOLEAN /\ view \in Filters \union {Later}
    BY DEF IInv, TypeOK
  <2>2. QED
    BY <2>1, Zenon DEF Panel, Connect, Disconnect, ShowLater, Fallback, ShowFirst,
                       PageArrives, PageFails, panel
<1>4. fetching' \in [Filters -> Lengths \union {Nothing}]
  <2>1. fetching \in [Filters -> Lengths \union {Nothing}]
    BY DEF IInv, TypeOK
  <2>2. \/ UNCHANGED fetching
        \/ \E v, n : n \in {Len(feed), fetching[v], Nothing}
                     /\ fetching' = [fetching EXCEPT ![v] = n]
    BY DEF Panel, Connect, Disconnect, ShowLater, Fallback, ShowFirst, PageArrives,
           PageFails, panel, Fetch, Invalidate, Refresh
  <2>3. QED
    BY <1>2, <2>1, <2>2
<1> DEFINE PagesAreRead ==
      /\ data' \in [Filters -> Lengths \union {Nothing}]
      /\ \A v \in Filters : data'[v] # Nothing => data'[v] <= Len(feed)
<1>5. PagesAreRead
  <2>1. /\ data \in [Filters -> Lengths \union {Nothing}]
        /\ fetching \in [Filters -> Lengths \union {Nothing}]
        /\ \A v \in Filters : data[v] # Nothing => data[v] <= Len(feed)
    BY DEF IInv, TypeOK
  <2>2. ASSUME NEW v \in Filters, PageArrives(v)
        PROVE  PagesAreRead
    <3>1. PICK n \in fetching[v]..Len(feed) : data' = [data EXCEPT ![v] = n]
      BY <2>2 DEF PageArrives, Reads
    <3>2. fetching[v] \in Lengths
      BY <2>1, <2>2 DEF PageArrives
    <3>3. n \in Lengths /\ n <= Len(feed)
      BY <1>2, <3>1, <3>2, Bounds
    <3>4. QED
      BY <2>1, <3>1, <3>3
  <2>3. CASE UNCHANGED data
    BY <2>1, <2>3
  <2>4. QED
    BY <2>2, <2>3 DEF Panel, Connect, Disconnect, ShowLater, Fallback, ShowFirst,
                      PageFails, panel
<1>6. TypeOK'
  BY <1>1, <1>3, <1>4, <1>5 DEF IInv, TypeOK, poller
<1>7. QED
  BY <1>1, <1>2, <1>6, PollerSame DEF IInv, poller

-----------------------------------------------------------------------------
\* What an answer n of the bot adds to what was announced: none of it is old when
\* n is not behind the last alert seen, and the boundary moves to n.
LEMMA FreshProperties ==
    ASSUME NEW n \in Nat, lastSeenId \in Nat
    PROVE  /\ Fresh(n) \subseteq 1..n
           /\ lastSeenId <= n => \A i \in Fresh(n) : i > lastSeenId
           /\ lastSeenId <= n /\ Fresh(n) = {} => n = lastSeenId
           /\ \A i \in 1..n : i \in Fresh(n) \/ i + PollLimit <= n \/ i <= lastSeenId
<1>1. Fresh(n) \subseteq 1..n
  BY DEF Fresh, Items
<1>2. ASSUME lastSeenId <= n, NEW i \in Fresh(n)
      PROVE  i > lastSeenId
  <2>1. i \in 1..n /\ i > n - PollLimit
    BY DEF Fresh, Items
  <2>2. CASE lastSeenId \in Items(n)
    BY <2>2 DEF Fresh
  <2>3. CASE lastSeenId \notin Items(n)
    <3>1. lastSeenId = 0 \/ ~(lastSeenId > n - PollLimit)
      BY <1>2, <2>3 DEF Items
    <3>2. QED
      BY <2>1, <3>1, Bounds
  <2>4. QED
    BY <2>2, <2>3
<1>3. ASSUME lastSeenId <= n, Fresh(n) = {}, n # lastSeenId
      PROVE  FALSE
  <2>1. n \in Items(n) /\ n > lastSeenId
    BY <1>3, Bounds DEF Items
  <2>2. QED
    BY <1>3, <2>1 DEF Fresh
<1>4. ASSUME NEW i \in 1..n, ~(i + PollLimit <= n), ~(i <= lastSeenId)
      PROVE  i \in Fresh(n)
  <2>1. i \in Items(n)
    BY <1>4, Bounds DEF Items
  <2>2. QED
    BY <1>4, <2>1 DEF Fresh
<1>5. QED
  BY <1>1, <1>2, <1>3, <1>4

\* The first answer only sets the boundary.
LEMMA FirstPollKeeps ==
    ASSUME IInv, NEW n \in Lengths, FirstPoll(n), UNCHANGED feed
    PROVE  Started' /\ InOrder' /\ NothingSkipped'
<1>1. /\ ~initialized /\ initialized' = TRUE /\ lastSeenId' = n /\ base' = n
      /\ UNCHANGED <<times, overtaken>>
  BY DEF FirstPoll
<1>2. n <= n /\ \A i \in Numbers : times[i] = 0
  BY <1>1, Bounds DEF IInv, Started
<1>3. Started'
  BY <1>1 DEF Started
<1>4. InOrder'
  BY <1>1, <1>2 DEF InOrder
<1>5. NothingSkipped'
  <2>1. base' + 1..lastSeenId' = {}
    BY <1>1, Bounds
  <2>2. QED
    BY <2>1 DEF NothingSkipped
<1>6. QED
  BY <1>3, <1>4, <1>5

\* Any other answer announces what is fresh in it, and moves the boundary to it.
LEMMA LaterPollKeeps ==
    ASSUME IInv, NEW n \in Lengths, n <= Len(feed), LaterPoll(n), UNCHANGED feed
    PROVE  Started' /\ InOrder' /\ NothingSkipped'
<1>1. /\ initialized /\ lastSeenId' = (IF Fresh(n) = {} THEN lastSeenId ELSE n)
      /\ times' = [i \in Numbers |-> IF i \in Fresh(n) THEN times[i] + 1 ELSE times[i]]
      /\ overtaken' = (overtaken \/ n < lastSeenId)
      /\ UNCHANGED <<initialized, base>>
  BY DEF LaterPoll, Announce, Numbers
<1>2. /\ n \in Nat /\ lastSeenId \in Nat /\ base \in Nat /\ Len(feed) \in Nat
      /\ n <= MaxAlerts /\ \A i \in Numbers : i \in Nat /\ times[i] \in Nat
  BY LenProperties, Bounds DEF IInv, TypeOK, Numbers
<1>3. /\ Fresh(n) \subseteq 1..n /\ 1..n \subseteq Numbers
      /\ lastSeenId <= n => \A i \in Fresh(n) : i > lastSeenId
      /\ lastSeenId <= n /\ Fresh(n) = {} => n = lastSeenId
      /\ \A i \in 1..n : i \in Fresh(n) \/ i + PollLimit <= n \/ i <= lastSeenId
  BY <1>2, FreshProperties, Bounds DEF Numbers
<1>4. Started'
  BY <1>1 DEF Started
<1>5. InOrder'
  <2> SUFFICES ASSUME ~overtaken'
               PROVE  /\ base <= lastSeenId'
                      /\ \A i \in Numbers : /\ times'[i] <= IF i <= base THEN 0 ELSE 1
                                            /\ i > lastSeenId' => times'[i] = 0
    BY <1>1 DEF InOrder
  <2>1. /\ ~overtaken /\ lastSeenId <= n /\ base <= lastSeenId
        /\ \A i \in Numbers : /\ times[i] <= IF i <= base THEN 0 ELSE 1
                              /\ i > lastSeenId => times[i] = 0
    <3>1. ~overtaken /\ ~(n < lastSeenId)
      BY <1>1, Zenon
    <3>2. lastSeenId <= n
      BY <1>2, <3>1
    <3>3. QED
      BY <3>1, <3>2 DEF IInv, InOrder
  <2>2. lastSeenId' = n
    BY <1>1, <1>3, <2>1
  <2>3. ASSUME NEW i \in Numbers, i \in Fresh(n)
        PROVE  times'[i] = 1 /\ i > base /\ i <= n
    <3>1. i > lastSeenId /\ i \in 1..n
      BY <1>3, <2>1, <2>3
    <3>2. times[i] = 0 /\ times'[i] = times[i] + 1
      BY <1>1, <2>1, <2>3, <3>1
    <3>3. QED
      BY <1>2, <2>1, <3>1, <3>2
  <2>4. ASSUME NEW i \in Numbers, i \notin Fresh(n)
        PROVE  times'[i] = times[i]
    BY <1>1, <2>4
  <2>5. QED
    <3> SUFFICES ASSUME NEW i \in Numbers
                 PROVE  /\ times'[i] <= IF i <= base THEN 0 ELSE 1
                        /\ i > n => times'[i] = 0
      BY <1>2, <2>1, <2>2
    <3>1. CASE i \in Fresh(n)
      BY <1>2, <2>3, <3>1
    <3>2. CASE i \notin Fresh(n)
      BY <1>2, <2>1, <2>4, <3>2
    <3>3. QED
      BY <3>1, <3>2
<1>6. NothingSkipped'
  <2> SUFFICES ASSUME NEW i \in base + 1..lastSeenId', times'[i] = 0
               PROVE  i + PollLimit <= Len(feed)
    BY <1>1 DEF NothingSkipped
  <2>1. i \in Nat /\ i \in Numbers
    BY <1>1, <1>2, Bounds DEF Numbers, IInv, TypeOK
  <2>2. i \notin Fresh(n) /\ times[i] = 0
    BY <1>1, <1>2, <2>1
  <2>3. CASE i <= lastSeenId
    <3>1. i \in base + 1..lastSeenId
      BY <1>2, <2>1, <2>3
    <3>2. QED
      BY <2>2, <3>1 DEF IInv, NothingSkipped
  <2>4. CASE i > lastSeenId
    <3>1. lastSeenId' = n /\ i \in 1..n
      BY <1>1, <1>2, <2>1, <2>4
    <3>2. i + PollLimit <= n
      BY <1>2, <1>3, <2>1, <2>2, <2>4, <3>1
    <3>3. QED
      BY <1>2, <2>1, <3>2, Bounds
  <2>5. QED
    BY <1>2, <2>1, <2>3, <2>4
<1>7. QED
  BY <1>4, <1>5, <1>6

LEMMA PollAnswersIInv == IInv /\ PollAnswers => IInv'
<1> SUFFICES ASSUME IInv, PollAnswers PROVE IInv'
  OBVIOUS
<1>1. UNCHANGED <<feed, live, view, data>>
  BY DEF PollAnswers
<1>2. PICK k \in DOMAIN polls :
         /\ polls' = RemoveAt(polls, k)
         /\ \E n \in polls[k]..Len(feed) : FirstPoll(n) \/ LaterPoll(n)
  BY DEF PollAnswers
<1>3. PICK n \in polls[k]..Len(feed) : FirstPoll(n) \/ LaterPoll(n)
  BY <1>2
<1>4. /\ polls \in Seq(Lengths) /\ Len(polls) \in Nat /\ Len(polls) <= MaxPolls
      /\ Len(feed) \in Nat /\ Len(feed) \in Lengths
      /\ fetching \in [Filters -> Lengths \union {Nothing}]
      /\ times \in [Numbers -> Nat]
  BY LenProperties, Bounds DEF IInv, TypeOK, Numbers
<1>5. polls[k] \in Lengths
  BY <1>4, LenProperties, ElementOfSeq
<1>6. n \in Lengths /\ n <= Len(feed)
  BY <1>4, <1>5, Bounds
<1>7. polls' \in Seq(Lengths) /\ Len(polls') <= MaxPolls
  BY <1>2, <1>4, RemoveAtType, Bounds
<1>8. fetching' \in [Filters -> Lengths \union {Nothing}]
  <2>1. UNCHANGED fetching \/ Invalidate(view)
    BY <1>3 DEF FirstPoll, LaterPoll, Announce, OnNewAlerts
  <2>2. CASE Invalidate(view)
    <3>1. PICK m \in {Len(feed), fetching[view]} : fetching' = [fetching EXCEPT ![view] = m]
      BY <2>2 DEF Invalidate
    <3>2. QED
      BY <1>4, <3>1
  <2>3. QED
    BY <1>4, <2>1, <2>2
<1>9. /\ times' \in [Numbers -> Nat] /\ lastSeenId' \in Lengths /\ base' \in Lengths
      /\ initialized' \in BOOLEAN /\ overtaken' \in BOOLEAN
  <2>1. lastSeenId' \in Lengths /\ base' \in Lengths
    BY <1>3, <1>6 DEF FirstPoll, LaterPoll, IInv, TypeOK
  <2>2. times' \in [Numbers -> Nat]
    BY <1>3, <1>4 DEF FirstPoll, LaterPoll, Announce, Numbers
  <2>3. initialized' \in BOOLEAN /\ overtaken' \in BOOLEAN
    BY <1>3 DEF FirstPoll, LaterPoll, IInv, TypeOK
  <2>4. QED
    BY <2>1, <2>2, <2>3
<1>10. TypeOK'
  BY <1>1, <1>7, <1>8, <1>9 DEF IInv, TypeOK, Numbers
<1>11. Started' /\ InOrder' /\ NothingSkipped'
  BY <1>1, <1>3, <1>6, FirstPollKeeps, LaterPollKeeps
<1>12. QED
  BY <1>10, <1>11 DEF IInv

-----------------------------------------------------------------------------
LEMMA NextIInv == IInv /\ [Next]_vars => IInv'
<1> SUFFICES ASSUME IInv, [Next]_vars PROVE IInv'
  OBVIOUS
<1>1. CASE \E t \in Types : Send(t)
  BY <1>1, SendIInv
<1>2. CASE Poller
  BY <1>2, PollIInv, PollAnswersIInv DEF Poller
<1>3. CASE Panel
  BY <1>3, PanelIInv
<1>4. CASE UNCHANGED vars
  <2>1. TypeOK'
    BY <1>4 DEF vars, poller, panel, IInv, TypeOK
  <2>2. Started' /\ InOrder' /\ NothingSkipped'
    BY <1>4 DEF vars, poller, panel, IInv, Started, InOrder, NothingSkipped
  <2>3. QED
    BY <2>1, <2>2 DEF IInv
<1>5. QED
  BY <1>1, <1>2, <1>3, <1>4 DEF Next

\* The inductive invariant holds in every reachable state.
THEOREM Invariant == FairSpec => []IInv
<1>1. QED
  BY InitIInv, NextIInv, PTL DEF FairSpec

\* Type correctness: what a page was read from is never longer than the feed.
THEOREM TypeCorrect == FairSpec => []TypeOK
<1>1. IInv => TypeOK
  BY DEF IInv
<1>2. QED
  BY <1>1, Invariant, PTL

\* While the polls are answered in order no alert is announced twice, and none of
\* the history the poller found at its start.
THEOREM OnceEach == FairSpec => []AnnouncedOnce
<1>1. IInv => AnnouncedOnce
  BY DEF IInv, InOrder, Numbers, AnnouncedOnce
<1>2. QED
  BY <1>1, Invariant, PTL

\* In whatever order the polls are answered, an alert that was passed without
\* being announced was behind a whole page of newer ones.
THEOREM OnlyFullPagesSkip == FairSpec => []NothingSkipped
<1>1. IInv => NothingSkipped
  BY DEF IInv
<1>2. QED
  BY <1>1, Invariant, PTL

-----------------------------------------------------------------------------
(***************************************************************************)
(* The metrics.  Every row of the table is the average, for the container  *)
(* and kind of its key, of the bucket it is filed under; so is every point *)
(* of an answer for what was asked, and a purge that waits has read a      *)
(* cutoff that time can only leave further behind.                         *)
(***************************************************************************)
Tick == [at : {"idle", "query", "insert", "purge"}, kind : Nat, end : Int,
         rows : SUBSET Containers, cutoff : Int]

InTime(tick, now) == tick.at = "purge" => tick.cutoff <= now - Retention

Clocked ==
    /\ clock \in Nat
    /\ ticks \in [Ticks -> Tick]
    /\ \A t \in Ticks : InTime(ticks[t], clock)

Filed == \A k \in DOMAIN table :
            /\ k.bucketStart \in Int
            /\ table[k] = <<k.container, k.metric, k.bucketStart + Bucket>>

AnswersTrue ==
    /\ DOMAIN asked = QueryKeys
    /\ \A q \in QueryKeys : asked[q] # None =>
          /\ DOMAIN asked[q] \subseteq q[2]
          /\ \A k \in DOMAIN asked[q] : \A p \in asked[q][k] :
                p[2] = Truth(q[1], k, q[3], p[1])

MetricsInv ==
    /\ Clocked
    /\ Filed
    /\ AnswersTrue
    /\ DOMAIN charts = QueryKeys
    /\ ChartIsTrue

LEMMA Widths ==
    /\ Bucket \in Nat \ {0} /\ Retention \in Nat /\ MaxWindow \in Nat
    /\ MaxWindow <= Retention
BY MetricsAssumption

\* Buckets end at whole numbers.
LEMMA BucketEndInt ==
    ASSUME NEW now \in Nat
    PROVE  BucketEnd(now) \in Int
BY Widths DEF BucketEnd

\* mergeSeries: a row shows, for each kind, the value of a point at its time.
LEMMA MergeIsTrue ==
    ASSUME NEW tab, NEW c, NEW range, NEW series, DOMAIN series = tab,
           \A k \in DOMAIN series : \A p \in series[k] :
              p[2] = Truth(c, k, range, p[1]),
           NEW x \in DOMAIN MergeSeries(series)
    PROVE  /\ DOMAIN MergeSeries(series)[x] \subseteq tab
           /\ \A k \in DOMAIN MergeSeries(series)[x] :
                 MergeSeries(series)[x][k] = Truth(c, k, range, x)
<1>1. MergeSeries(series)[x] = RowAt(series, x)
  BY DEF MergeSeries
<1>2. DOMAIN RowAt(series, x) = {k \in tab : \E p \in series[k] : p[1] = x}
  BY DEF RowAt
<1>3. ASSUME NEW k \in DOMAIN RowAt(series, x)
      PROVE  RowAt(series, x)[k] = Truth(c, k, range, x)
  <2>1. k \in tab /\ \E p \in series[k] : p[1] = x
    BY <1>2, <1>3
  <2>2. PICK p : p = CHOOSE y \in series[k] : y[1] = x
    OBVIOUS
  <2>3. p \in series[k] /\ p[1] = x
    BY <2>1, <2>2
  <2>4. RowAt(series, x)[k] = p[2]
    BY <1>2, <1>3, <2>2 DEF RowAt
  <2>5. QED
    BY <2>1, <2>3, <2>4
<1>4. QED
  BY <1>1, <1>2, <1>3

\* getHistory, getLiveSeries: the points of an answer are true, gaps or none.
LEMMA PointsAreTrue ==
    ASSUME Filed, NEW c, NEW kind, NEW range, NEW points \in Series(c, kind, range),
           NEW p \in points
    PROVE  p[2] = Truth(c, kind, range, p[1])
<1>1. CASE range = Live
  <2>1. PICK sampled \in SUBSET Steps : points = LiveSeries(c, kind, sampled)
    BY <1>1 DEF Series
  <2>2. QED
    BY <1>1, <2>1 DEF LiveSeries, Truth
<1>2. CASE range # Live
  <2>1. points = History(c, kind, range)
    BY <1>2 DEF Series
  <2>2. PICK k \in DOMAIN table : /\ k.container = c /\ k.metric = kind
                                  /\ p = <<k.bucketStart, table[k]>>
    BY <2>1 DEF History
  <2>3. QED
    BY <1>2, <2>2 DEF Filed, Truth
<1>3. QED
  BY <1>1, <1>2

LEMMA MetricsInitInv ==
    ASSUME MetricsInit
    PROVE  MetricsInv
<1>1. Resting \in Tick /\ Resting.at = "idle"
  BY DEF Resting, Tick
<1>2. Clocked
  <2>1. PICK t \in Ticks :
          ticks = [u \in Ticks |-> IF u = t THEN [Resting EXCEPT !.at = "query"]
                                            ELSE Resting]
    BY DEF MetricsInit
  <2>2. /\ [Resting EXCEPT !.at = "query"] \in Tick
        /\ [Resting EXCEPT !.at = "query"].at = "query"
    BY <1>1 DEF Tick
  <2>3. clock = 0
    BY DEF MetricsInit
  <2>4. QED
    BY <1>1, <2>1, <2>2, <2>3 DEF Clocked, InTime
<1>3. DOMAIN table = {} /\ \A q \in QueryKeys : asked[q] = None /\ DOMAIN charts[q] = {}
  BY DEF MetricsInit, Empty
<1>4. DOMAIN asked = QueryKeys /\ DOMAIN charts = QueryKeys
  BY DEF MetricsInit
<1>5. QED
  BY <1>2, <1>3, <1>4 DEF MetricsInv, Filed, AnswersTrue, ChartIsTrue

\* A tick that has done a kind goes on to the next, or reads its cutoff.
LEMMA NextKindIs ==
    ASSUME clock \in Nat, NEW tick \in Tick
    PROVE  NextKind(tick) \in Tick /\ InTime(NextKind(tick), clock)
<1>1. CASE tick.kind < Len(Kinds)
  <2>1. NextKind(tick) = [tick EXCEPT !.at = "query", !.kind = @ + 1, !.rows = {}]
    BY <1>1 DEF NextKind
  <2>2. tick.kind + 1 \in Nat
    BY DEF Tick
  <2>3. NextKind(tick) = [at |-> "query", kind |-> tick.kind + 1, end |-> tick.end,
                                  rows |-> {}, cutoff |-> tick.cutoff]
    BY <2>1 DEF Tick
  <2>4. QED
    BY <2>2, <2>3 DEF Tick, InTime
<1>2. CASE ~(tick.kind < Len(Kinds))
  <2>1. NextKind(tick)
          = [tick EXCEPT !.at = "purge", !.rows = {}, !.cutoff = clock - Retention]
    BY <1>2 DEF NextKind
  <2>2. clock - Retention \in Int /\ clock - Retention <= clock - Retention
    BY Widths
  <2>3. QED
    BY <2>1, <2>2 DEF Tick, InTime
<1>3. QED
  BY <1>1, <1>2

\* One tick does something, the others wait.
LEMMA TickSteps ==
    ASSUME Clocked, clock' = clock, NEW t \in Ticks, NEW n \in Tick, InTime(n, clock),
           ticks' = [ticks EXCEPT ![t] = n]
    PROVE  Clocked'
BY DEF Clocked, InTime

LEMMA RestingIs ==
    ASSUME NEW now
    PROVE  Resting \in Tick /\ InTime(Resting, now)
BY DEF Resting, Tick, InTime

\* What starts a tick: it is about a bucket that has closed.
LEMMA StartIs ==
    ASSUME NEW n \in Nat, NEW now, NEW start,
           start = [Resting EXCEPT !.at = "query", !.end = BucketEnd(n)]
    PROVE  start \in Tick /\ InTime(start, now)
<1>1. PICK e \in Int : e = BucketEnd(n)
  BY BucketEndInt
<1>2. start = [at |-> "query", kind |-> 1, end |-> e, rows |-> {}, cutoff |-> 0]
  BY <1>1 DEF Resting
<1>3. QED
  BY <1>2 DEF Tick, InTime

LEMMA AdvanceInv ==
    ASSUME MetricsInv, Advance
    PROVE  MetricsInv'
<1>1. clock \in Nat /\ clock' = clock + 1 /\ clock' \in Nat /\ UNCHANGED <<table, asked, charts>>
  BY DEF Advance, MetricsInv, Clocked
<1>2. ASSUME NEW tick \in Tick, InTime(tick, clock)
      PROVE  InTime(tick, clock')
  BY <1>1, <1>2, Widths DEF InTime, Tick
<1>3. Clocked'
  <2>1. CASE UNCHANGED ticks
    BY <1>1, <1>2, <2>1 DEF MetricsInv, Clocked
  <2>2. CASE \E t \in Ticks : ticks' = RollupTick(t, clock')
    <3>1. PICK t \in Ticks : ticks' = RollupTick(t, clock')
      BY <2>2
    <3>2. PICK start : start = [Resting EXCEPT !.at = "query",
                                                       !.end = BucketEnd(clock')]
      OBVIOUS
    <3>3. start \in Tick /\ InTime(start, clock')
      BY <1>1, <3>2, StartIs
    <3>4. ticks' = [ticks EXCEPT ![t] = start]
      BY <3>1, <3>2 DEF RollupTick
    <3>5. QED
      BY <1>1, <1>2, <3>3, <3>4 DEF MetricsInv, Clocked
  <2>3. QED
    BY <2>1, <2>2 DEF Advance
<1>4. QED
  BY <1>1, <1>3 DEF MetricsInv, Filed, AnswersTrue, ChartIsTrue

LEMMA RestartInv ==
    ASSUME MetricsInv, Restart
    PROVE  MetricsInv'
<1>1. UNCHANGED <<clock, table, asked, charts>> /\ clock \in Nat
  BY DEF Restart, MetricsInv, Clocked
<1>2. PICK start : start = [Resting EXCEPT !.at = "query",
                                                   !.end = BucketEnd(clock)]
  OBVIOUS
<1>3. start \in Tick /\ InTime(start, clock)
  BY <1>1, <1>2, StartIs
<1>4. \E t \in Ticks : ticks' = [u \in Ticks |-> IF u = t THEN start ELSE Resting]
  BY <1>2 DEF Restart
<1>5. Clocked'
  BY <1>1, <1>3, <1>4, RestingIs DEF Clocked
<1>6. QED
  BY <1>1, <1>5 DEF MetricsInv, Filed, AnswersTrue, ChartIsTrue

\* Query, RollupFails: nothing but a tick changes.
LEMMA QueryInv ==
    ASSUME MetricsInv, NEW t \in Ticks,
           Query(t) \/ RollupFails(t)
    PROVE  MetricsInv'
<1>1. /\ UNCHANGED <<clock, table, asked, charts>>
      /\ clock \in Nat /\ ticks[t] \in Tick /\ InTime(ticks[t], clock)
  BY DEF Query, RollupFails, MetricsInv, Clocked
<1>2. \E n \in Tick : InTime(n, clock) /\ ticks' = [ticks EXCEPT ![t] = n]
  <2>1. CASE RollupFails(t)
    BY <2>1, RestingIs DEF RollupFails
  <2>2. CASE Query(t)
    <3>1. PICK rows \in SUBSET Containers :
            ticks' = [ticks EXCEPT ![t] =
              IF rows = {} THEN NextKind(@)
                           ELSE [@ EXCEPT !.at = "insert", !.rows = rows]]
      BY <2>2 DEF Query, Sampled
    <3>2. PICK n : n = IF rows = {} THEN NextKind(ticks[t])
                       ELSE [ticks[t] EXCEPT !.at = "insert", !.rows = rows]
      OBVIOUS
    <3>3. CASE rows = {}
      BY <1>1, <3>1, <3>2, <3>3, NextKindIs
    <3>4. CASE rows # {}
      <4>1. n = [ticks[t] EXCEPT !.at = "insert", !.rows = rows]
        BY <3>2, <3>4
      <4>2. n \in Tick /\ InTime(n, clock)
        BY <1>1, <4>1 DEF Tick, InTime
      <4>3. ticks' = [ticks EXCEPT ![t] = n]
        BY <3>1, <3>4, <4>1
      <4>4. QED
        BY <4>2, <4>3
    <3>5. QED
      BY <3>3, <3>4
  <2>3. QED
    BY <2>1, <2>2
<1>3. Clocked'
  BY <1>1, <1>2, TickSteps DEF MetricsInv
<1>4. QED
  BY <1>1, <1>3 DEF MetricsInv, Filed, AnswersTrue, ChartIsTrue

\* createMany: a row is filed under the bucket that its average is about.
LEMMA InsertInv ==
    ASSUME MetricsInv, NEW t \in Ticks, Insert(t)
    PROVE  MetricsInv'
<1>1. /\ UNCHANGED <<clock, asked, charts>> /\ clock \in Nat /\ ticks[t] \in Tick
      /\ ticks' = [ticks EXCEPT ![t] = NextKind(ticks[t])]
  BY DEF Insert, MetricsInv, Clocked
<1>2. Clocked'
  BY <1>1, NextKindIs, TickSteps DEF MetricsInv
<1>3. PICK new : new = NewRows(ticks[t])
  OBVIOUS
<1>4. \A k \in DOMAIN new :
        k.bucketStart \in Int /\ new[k] = <<k.container, k.metric, k.bucketStart + Bucket>>
  <2>1. PICK e : e = ticks[t].end
    OBVIOUS
  <2>2. \A k \in DOMAIN new : k.bucketStart = e - Bucket /\ new[k] = <<k.container, k.metric, e>>
    BY <1>3, <2>1 DEF NewRows
  <2>3. e \in Int /\ e - Bucket \in Int /\ e = e - Bucket + Bucket
    BY <1>1, <2>1, Widths DEF Tick
  <2>4. QED
    BY <2>2, <2>3
<1>5. table' = Overlay(table, new)
  BY <1>3 DEF Insert
<1>6. Filed'
  <2>1. /\ DOMAIN table' = DOMAIN table \union DOMAIN new
        /\ \A k \in DOMAIN table' : table'[k] = IF k \in DOMAIN table THEN table[k] ELSE new[k]
    BY <1>5 DEF Overlay
  <2>2. QED
    BY <1>4, <2>1 DEF MetricsInv, Filed
<1>7. QED
  BY <1>1, <1>2, <1>6 DEF MetricsInv, AnswersTrue, ChartIsTrue

LEMMA PurgeInv ==
    ASSUME MetricsInv, NEW t \in Ticks, PurgeOldRollups(t)
    PROVE  MetricsInv'
<1>1. /\ UNCHANGED <<clock, asked, charts>>
      /\ ticks' = [ticks EXCEPT ![t] = Resting]
      /\ DOMAIN table' \subseteq DOMAIN table /\ \A k \in DOMAIN table' : table'[k] = table[k]
  BY DEF PurgeOldRollups
<1>2. Clocked'
  BY <1>1, RestingIs, TickSteps DEF MetricsInv
<1>3. QED
  BY <1>1, <1>2 DEF MetricsInv, Filed, AnswersTrue, ChartIsTrue

\* An answer reaches a query of the panel, and the last one its chart.
LEMMA PanelInv ==
    ASSUME MetricsInv, NEW q \in QueryKeys, PanelQuery(q)
    PROVE  MetricsInv'
<1>1. UNCHANGED <<clock, ticks, table>>
  BY DEF PanelQuery, Ask, AskFails, Answer
<1>2. Clocked' /\ Filed'
  BY <1>1 DEF MetricsInv, Clocked, Filed
<1>3. CASE Ask(q) \/ AskFails(q)
  <2>1. /\ charts' = charts
        /\ \/ asked' = [asked EXCEPT ![q] = Empty]
           \/ asked' = [asked EXCEPT ![q] = None]
    BY <1>3 DEF Ask, AskFails
  <2>2. DOMAIN Empty = {}
    BY DEF Empty
  <2>3. AnswersTrue'
    BY <2>1, <2>2 DEF MetricsInv, AnswersTrue
  <2>4. QED
    BY <1>2, <2>1, <2>3 DEF MetricsInv, ChartIsTrue
<1>4. ASSUME NEW kind, Answer(q, kind)
      PROVE  MetricsInv'
  <2>0. PICK points \in Series(q[1], kind, q[3]) :
          LET series == [k \in DOMAIN asked[q] \union {kind} |->
                            IF k = kind THEN points ELSE asked[q][k]]
          IN  IF DOMAIN series = q[2]
              THEN /\ charts' = [charts EXCEPT ![q] = MergeSeries(series)]
                   /\ asked' = [asked EXCEPT ![q] = None]
              ELSE asked' = [asked EXCEPT ![q] = series] /\ charts' = charts
    BY <1>4 DEF Answer
  <2>1. PICK series : series = [k \in DOMAIN asked[q] \union {kind} |->
                                  IF k = kind THEN points ELSE asked[q][k]]
    OBVIOUS
  <2>2. /\ asked[q] # None /\ kind \in q[2]
        /\ IF DOMAIN series = q[2]
           THEN /\ charts' = [charts EXCEPT ![q] = MergeSeries(series)]
                /\ asked' = [asked EXCEPT ![q] = None]
           ELSE asked' = [asked EXCEPT ![q] = series] /\ charts' = charts
    BY <1>4, <2>0, <2>1 DEF Answer
  <2>3. /\ DOMAIN series \subseteq q[2]
        /\ \A k \in DOMAIN series : \A p \in series[k] :
              p[2] = Truth(q[1], k, q[3], p[1])
    <3>1. /\ DOMAIN asked[q] \subseteq q[2]
          /\ \A k \in DOMAIN asked[q] : \A p \in asked[q][k] :
                p[2] = Truth(q[1], k, q[3], p[1])
      BY <2>2 DEF MetricsInv, AnswersTrue
    <3>2. \A p \in points : p[2] = Truth(q[1], kind, q[3], p[1])
      BY PointsAreTrue DEF MetricsInv
    <3>3. /\ DOMAIN series = DOMAIN asked[q] \union {kind}
          /\ \A k \in DOMAIN series :
                series[k] = IF k = kind THEN points ELSE asked[q][k]
      BY <2>1
    <3>4. QED
      BY <2>2, <3>1, <3>2, <3>3
  <2>4. CASE DOMAIN series = q[2]
    <3>1. AnswersTrue'
      BY <2>2, <2>4 DEF MetricsInv, AnswersTrue
    <3>2. PICK chart : chart = MergeSeries(series)
      OBVIOUS
    <3>3. \A x \in DOMAIN chart : /\ DOMAIN chart[x] \subseteq q[2]
                                  /\ \A k \in DOMAIN chart[x] :
                                        chart[x][k] = Truth(q[1], k, q[3], x)
      <4>1. ASSUME NEW x \in DOMAIN MergeSeries(series)
            PROVE  /\ DOMAIN MergeSeries(series)[x] \subseteq q[2]
                   /\ \A k \in DOMAIN MergeSeries(series)[x] :
                         MergeSeries(series)[x][k] = Truth(q[1], k, q[3], x)
        <5>1. PICK tab, c, range : tab = q[2] /\ c = q[1] /\ range = q[3]
          OBVIOUS
        <5>2. \A k \in DOMAIN series : \A p \in series[k] :
                 p[2] = Truth(c, k, range, p[1])
          BY <2>3, <5>1
        <5>3. DOMAIN series = tab
          BY <2>4, <5>1
        <5>4. /\ DOMAIN MergeSeries(series)[x] \subseteq tab
              /\ \A k \in DOMAIN MergeSeries(series)[x] :
                    MergeSeries(series)[x][k] = Truth(c, k, range, x)
          BY <4>1, <5>2, <5>3, MergeIsTrue
        <5>5. QED
          BY <5>1, <5>4
      <4>2. QED
        BY <3>2, <4>1
    <3>4. charts' = [charts EXCEPT ![q] = chart]
      BY <2>2, <2>4, <3>2
    <3>5. ChartIsTrue' /\ DOMAIN charts' = QueryKeys
      BY <3>3, <3>4 DEF MetricsInv, ChartIsTrue
    <3>6. QED
      BY <1>2, <3>1, <3>5 DEF MetricsInv
  <2>5. CASE DOMAIN series # q[2]
    <3>1. asked' = [asked EXCEPT ![q] = series] /\ charts' = charts
      BY <2>2, <2>5
    <3>2. AnswersTrue'
      BY <2>3, <3>1 DEF MetricsInv, AnswersTrue
    <3>3. QED
      BY <1>2, <3>1, <3>2 DEF MetricsInv, ChartIsTrue
  <2>6. QED
    BY <2>4, <2>5
<1>5. QED
  BY <1>3, <1>4 DEF PanelQuery

LEMMA MetricsNextInv ==
    ASSUME MetricsInv, [MetricsNext]_metricsVars
    PROVE  MetricsInv'
<1>1. ASSUME NEW t \in Ticks, Rollup(t)
      PROVE  MetricsInv'
  BY <1>1, QueryInv, InsertInv, PurgeInv DEF Rollup
<1>2. CASE UNCHANGED metricsVars
  BY <1>2 DEF metricsVars, MetricsInv, Clocked, Filed, AnswersTrue, ChartIsTrue
<1>3. QED
  BY <1>1, <1>2, AdvanceInv, RestartInv, PanelInv DEF MetricsNext

THEOREM MetricsInvariant == MetricsSpec => []MetricsInv
<1>1. MetricsInit => MetricsInv
  BY MetricsInitInv
<1>2. MetricsInv /\ [MetricsNext]_metricsVars => MetricsInv'
  BY MetricsNextInv
<1>3. QED
  BY <1>1, <1>2, PTL DEF MetricsSpec

\* Whatever ticks, restarts, purges and answers overlap, a point drawn for a kind
\* of a container was computed for them and the bucket or instant it is drawn at.
THEOREM ChartsAreTrue == MetricsSpec => []ChartIsTrue
<1>1. MetricsInv => ChartIsTrue
  BY DEF MetricsInv
<1>2. QED
  BY <1>1, MetricsInvariant, PTL

\* No purge, however late it runs, deletes a rollup that /metrics/history may
\* still be asked for.
THEOREM HistoryKept == MetricsSpec => WindowKept
<1> DEFINE kept == \A k \in DOMAIN table :
                      k.bucketStart >= clock - MaxWindow => k \in DOMAIN table'
<1>1. ASSUME MetricsInv, [MetricsNext]_metricsVars
      PROVE  kept
  <2>1. CASE UNCHANGED table
    BY <2>1
  <2>2. ASSUME NEW t \in Ticks, Insert(t)
        PROVE  kept
    BY <2>2 DEF Insert, Overlay
  <2>3. ASSUME NEW t \in Ticks, PurgeOldRollups(t)
        PROVE  kept
    <3> SUFFICES ASSUME NEW k \in DOMAIN table, k.bucketStart >= clock - MaxWindow
                 PROVE  k \in DOMAIN table'
      OBVIOUS
    <3>1. PICK start \in Int, cutoff \in Int : start = k.bucketStart /\ cutoff = ticks[t].cutoff
      BY <1>1 DEF MetricsInv, Clocked, Filed, Tick
    <3>2. cutoff <= clock - Retention /\ clock \in Nat
      BY <1>1, <2>3, <3>1 DEF MetricsInv, Clocked, InTime, PurgeOldRollups
    <3>3. ~(start < cutoff)
      BY <3>1, <3>2, Widths
    <3>4. QED
      BY <2>3, <3>1, <3>3 DEF PurgeOldRollups, Purged
  <2>4. QED
    BY <1>1, <2>1, <2>2, <2>3
    DEF MetricsNext, Rollup, Advance, Restart, Query,
        RollupFails, PanelQuery, Ask, AskFails, Answer,
        metricsVars
<1>2. MetricsInv /\ [MetricsNext]_metricsVars => [kept]_metricsVars
  BY <1>1
<1>3. QED
  BY <1>2, MetricsInvariant, PTL DEF MetricsSpec, WindowKept
=============================================================================
