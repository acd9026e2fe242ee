------------------------- MODULE LogsService_proofs -------------------------
(***************************************************************************)
(* Proofs about LogsService, for any sockets, containers, number of calls  *)
(* and limit of sessions.                                                  *)
(***************************************************************************)
EXTENDS LogsService, FiniteSetTheorems, TLAPS

\* What is known of a call at each point: only a call past its lookup has a
\* session, and only the call that has one has its key in the Map.
Progress ==
    /\ \A r \in Calls : pc[r] # "idle" => key[r] \in Keys
    /\ \A r \in Calls : session[r] # "none" => key[r] \in Keys
    /\ \A r \in Calls : pc[r] \in {"idle", "lookup"} => session[r] = "none"

\* A lookup of a client that waits for its answers is the only one of that
\* client, and what it found free, the key and the room under the limit, still is.
Alone ==
    \A r \in Calls : pc[r] = "lookup" /\ key[r][1] \notin overlapped =>
        /\ key[r][1] \in connected
        /\ sessions[key[r]] = None
        /\ Cardinality(Registered(key[r][1])) < MaxSessions
        /\ \A q \in Calls : pc[q] = "lookup" /\ key[q][1] = key[r][1] => q = r

IInv ==
    /\ TypeOK
    /\ Progress
    /\ RegistryIsLive
    /\ StreamsFollowSessions
    /\ Alone
    /\ SequentialClients

-----------------------------------------------------------------------------
\* Sets of calls are finite, and a smaller one is no larger.
LEMMA Finite ==
    ASSUME NEW S \in SUBSET Calls
    PROVE  IsFiniteSet(S) /\ Cardinality(S) \in Nat
BY ServiceAssumption, FS_Subset, FS_CardinalityType

LEMMA Fewer ==
    ASSUME NEW S \in SUBSET Calls, NEW T \in SUBSET S
    PROVE  Cardinality(T) <= Cardinality(S)
BY Finite, FS_Subset

\* The registered sessions of a socket are the live ones with a key in the Map.
LEMMA RegisteredIs ==
    ASSUME TypeOK, RegistryIsLive, NEW s \in Sockets
    PROVE  /\ Registered(s) \subseteq Calls
           /\ Registered(s) \subseteq Live(s)
           /\ \A r \in Registered(s) : key[r] \in Keys /\ sessions[key[r]] = r
<1>1. ASSUME NEW r \in Registered(s)
      PROVE  /\ r \in Calls /\ session[r] = "live" /\ key[r][1] = s
             /\ key[r] \in Keys /\ sessions[key[r]] = r
  <2>1. PICK c \in Containers : r = sessions[<<s, c>>] /\ r # None
    BY DEF Registered
  <2>2. <<s, c>> \in Keys /\ <<s, c>>[1] = s
    BY DEF Keys
  <2>3. r \in Calls
    BY <2>1, <2>2 DEF TypeOK
  <2>4. session[r] = "live" /\ key[r] = <<s, c>>
    BY <2>1, <2>2 DEF RegistryIsLive
  <2>5. QED
    BY <2>1, <2>2, <2>3, <2>4
<1>2. QED
  BY <1>1 DEF Live

\* A session that is live and has its own key in the Map is registered.
LEMMA IsRegistered ==
    ASSUME NEW s \in Sockets, NEW r \in Calls, key[r] \in Keys,
           key[r][1] = s, sessions[key[r]] = r
    PROVE  r \in Registered(s)
<1>1. PICK c \in Containers : key[r] = <<s, c>>
  BY DEF Keys
<1>2. r # None
  BY ServiceAssumption
<1>3. QED
  BY <1>1, <1>2 DEF Registered

-----------------------------------------------------------------------------
LEMMA InitIInv == Init => IInv
<1> SUFFICES ASSUME Init PROVE IInv
  OBVIOUS
<1>1. TypeOK /\ Progress /\ StreamsFollowSessions /\ Alone
  BY DEF Init, TypeOK, Progress, StreamsFollowSessions, Alone
<1>2. RegistryIsLive
  BY DEF Init, RegistryIsLive
<1>3. SequentialClients
  <2> SUFFICES ASSUME NEW s \in Sockets
               PROVE  /\ Live(s) = {} /\ Registered(s) = {}
                      /\ Cardinality(Live(s)) <= MaxSessions
    BY DEF Init, SequentialClients
  <2>1. Live(s) = {}
    BY DEF Init, Live
  <2>2. Registered(s) = {}
    BY DEF Init, Registered, Keys
  <2>3. QED
    BY <2>1, <2>2, FS_EmptySet, ServiceAssumption
<1>4. QED
  BY <1>1, <1>2, <1>3 DEF IInv

-----------------------------------------------------------------------------
\* A step that leaves the Map and the sessions alone keeps what is said of them.
LEMMA SameSessions ==
    ASSUME UNCHANGED <<sessions, session>>,
           \A r \in Calls : session[r] = "live" => key'[r] = key[r],
           RegistryIsLive, TypeOK
    PROVE  /\ RegistryIsLive'
           /\ \A s \in Sockets : Live(s)' = Live(s) /\ Registered(s)' = Registered(s)
<1>1. \A k \in Keys : sessions[k] # None => sessions[k] \in Calls
  BY DEF TypeOK
<1>2. RegistryIsLive'
  BY <1>1 DEF RegistryIsLive
<1>3. ASSUME NEW s \in Sockets
      PROVE  Live(s)' = Live(s) /\ Registered(s)' = Registered(s)
  BY DEF Live, Registered
<1>4. QED
  BY <1>2, <1>3

\* subscribe() up to its lookup: a second request of the client marks it.
LEMMA SubscribeIInv ==
    ASSUME IInv, NEW r \in Calls, NEW s \in Sockets, NEW c \in Containers,
           Subscribe(r, s, c)
    PROVE  IInv'
<1> USE DEF IInv
<1>1. /\ pc[r] = "idle" /\ session[r] = "none" /\ s \in connected
      /\ key' = [key EXCEPT ![r] = <<s, c>>]
      /\ UNCHANGED <<sessions, session, stream, connected>>
      /\ <<s, c>> \in Keys /\ <<s, c>>[1] = s
      /\ pc'[r] \in {"lookup", "done"}
      /\ \A q \in Calls \ {r} : pc'[q] = pc[q] /\ key'[q] = key[q]
      /\ key'[r] = <<s, c>>
  BY DEF Subscribe, Progress, TypeOK, Keys
<1>2. overlapped \subseteq overlapped' /\ overlapped' \subseteq overlapped \union {s}
  BY DEF Subscribe, Overlaps
<1>3. TypeOK'
  BY <1>1, <1>2 DEF TypeOK, Subscribe
<1>4. Progress'
  BY <1>1 DEF Progress
<1>5. /\ RegistryIsLive'
      /\ \A x \in Sockets : Live(x)' = Live(x) /\ Registered(x)' = Registered(x)
  BY <1>1, SameSessions
<1>6. StreamsFollowSessions'
  BY <1>1 DEF StreamsFollowSessions
<1>7. SequentialClients'
  BY <1>1, <1>2, <1>5 DEF SequentialClients
<1>8. Alone'
  <2> SUFFICES ASSUME NEW q \in Calls, NEW x \in Sockets, pc'[q] = "lookup",
                      key'[q][1] = x, x \notin overlapped'
               PROVE  /\ x \in connected
                      /\ sessions[key'[q]] = None
                      /\ Cardinality(Registered(x)) < MaxSessions
                      /\ \A p \in Calls : pc'[p] = "lookup" /\ key'[p][1] = x => p = q
    <3>1. \A q \in Calls : pc'[q] = "lookup" => key'[q][1] \in Sockets
      BY <1>4 DEF Progress, Keys
    <3>2. \A q \in Calls : pc'[q] = "lookup" =>
             Registered(key[q][1])' = Registered(key'[q][1])
      BY <1>1 DEF Registered
    <3>3. QED
      BY <1>1, <3>1, <3>2 DEF Alone
  <2>1. CASE q = r
    <3>1. sessions[<<s, c>>] = None /\ ~AtLimit(s)
      BY <1>1, <2>1 DEF Subscribe, TypeOK
    <3>2. Cardinality(Registered(s)) < MaxSessions
      <4>1. Cardinality(Registered(s)) \in Nat
        BY RegisteredIs, Finite
      <4>2. QED
        BY <3>1, <4>1, ServiceAssumption DEF AtLimit
    <3>3. ASSUME NEW p \in Calls \ {r}, pc[p] = "lookup", key[p][1] = s
          PROVE  FALSE
      BY <1>1, <2>1, <3>3 DEF Subscribe, Overlaps
    <3>4. QED
      BY <1>1, <1>5, <2>1, <3>1, <3>2, <3>3
  <2>2. CASE q # r
    <3>1. pc[q] = "lookup" /\ key[q] \in Keys /\ key'[q] = key[q]
      BY <1>1, <2>2 DEF Progress
    <3>2. key[q][1] # s
      BY <1>1, <2>2, <3>1 DEF Subscribe, Overlaps
    <3>3. key[q][1] = x /\ x \notin overlapped
      BY <1>2, <3>1
    <3>4. QED
      BY <1>1, <1>5, <2>2, <3>1, <3>2, <3>3 DEF Alone
  <2>3. QED
    BY <2>1, <2>2
<1>9. QED
  BY <1>3, <1>4, <1>5, <1>6, <1>7, <1>8

\* The session is registered: its key was free, or the client is marked.
LEMMA LookupFindsIInv ==
    ASSUME IInv, NEW r \in Calls, LookupFinds(r)
    PROVE  IInv'
<1> USE DEF IInv
<1>0. PICK s \in Sockets, d \in Containers : key[r] = <<s, d>>
  BY DEF LookupFinds, Progress, Keys
<1> DEFINE k == <<s, d>>
<1>1. /\ pc[r] = "lookup" /\ session[r] = "none" /\ key[r] = k
      /\ k \in Keys /\ k[1] = s
      /\ UNCHANGED <<key, stream, connected, overlapped>>
      /\ pc' = [pc EXCEPT ![r] = "opening"]
      /\ session' = [session EXCEPT ![r] = "live"]
      /\ sessions' = [sessions EXCEPT ![k] = r]
  BY <1>0 DEF LookupFinds, Progress, Keys
<1> HIDE DEF k
<1>2. TypeOK'
  BY <1>1 DEF TypeOK
<1>3. Progress'
  BY <1>1 DEF Progress, TypeOK
<1>4. RegistryIsLive'
  <2> SUFFICES ASSUME NEW x \in Keys, sessions'[x] # None
               PROVE  session'[sessions'[x]] = "live" /\ key[sessions'[x]] = x
    BY <1>1 DEF RegistryIsLive
  <2>1. CASE x = k
    BY <1>1, <2>1 DEF TypeOK
  <2>2. CASE x # k
    BY <1>1, <2>2 DEF TypeOK, RegistryIsLive
  <2>3. QED
    BY <2>1, <2>2
<1>5. StreamsFollowSessions'
  BY <1>1 DEF StreamsFollowSessions, TypeOK
<1>6. ASSUME NEW x \in Sockets
      PROVE  Live(x)' = IF x = s THEN Live(x) \union {r} ELSE Live(x)
  BY <1>1 DEF Live, TypeOK
<1>7. ASSUME NEW x \in Sockets, x # s
      PROVE  Registered(x)' = Registered(x)
  <2>1. ASSUME NEW c \in Containers
        PROVE  sessions'[<<x, c>>] = sessions[<<x, c>>]
    <3>1. <<x, c>> \in Keys /\ <<x, c>>[1] = x
      BY DEF Keys
    <3>2. <<x, c>> # k
      BY <1>1, <1>7, <3>1
    <3>3. QED
      BY <1>1, <3>1, <3>2 DEF TypeOK
  <2>2. QED
    BY <2>1 DEF Registered
<1>8. ASSUME s \notin overlapped
      PROVE  /\ s \in connected
             /\ Registered(s)' = Registered(s) \union {r}
             /\ Cardinality(Registered(s)) < MaxSessions
  <2>1. /\ s \in connected /\ sessions[k] = None
        /\ Cardinality(Registered(s)) < MaxSessions
    BY <1>1, <1>8 DEF Alone
  <2>3. ASSUME NEW c \in Containers
        PROVE  sessions'[<<s, c>>] = IF c = d THEN r ELSE sessions[<<s, c>>]
    BY <1>1 DEF TypeOK, Keys, k
  <2>4. r # None
    BY ServiceAssumption
  <2>5. Registered(s)' = {sessions'[<<s, c>>] : c \in Containers} \ {None}
    BY DEF Registered
  <2>6. Registered(s)' = Registered(s) \union {r}
    BY <2>1, <2>3, <2>4, <2>5 DEF Registered, k
  <2>7. QED
    BY <2>1, <2>6
<1>9. SequentialClients'
  <2> SUFFICES ASSUME NEW x \in Sockets \ overlapped
               PROVE  /\ Live(x)' = Registered(x)'
                      /\ Cardinality(Live(x)') <= MaxSessions
                      /\ x \notin connected => Live(x)' = {}
    BY <1>1 DEF SequentialClients
  <2>1. CASE x # s
    BY <1>6, <1>7, <2>1 DEF SequentialClients
  <2>2. CASE x = s
    <3>1. /\ Live(s) = Registered(s) /\ Registered(s) \subseteq Calls
          /\ Cardinality(Registered(s)) \in Nat /\ IsFiniteSet(Registered(s))
      BY <1>1, <2>2, RegisteredIs, Finite DEF SequentialClients
    <3>2. Cardinality(Registered(s) \union {r}) <= Cardinality(Registered(s)) + 1
      <4>1. Cardinality(Registered(s) \union {r}) =
               IF r \in Registered(s) THEN Cardinality(Registered(s))
                                      ELSE Cardinality(Registered(s)) + 1
        BY <3>1, FS_AddElement
      <4>2. QED
        BY <3>1, <4>1
    <3>3. Cardinality(Registered(s) \union {r}) \in Nat
      BY <3>1, Finite
    <3>4. Live(s)' = Registered(s) \union {r} /\ Registered(s)' = Live(s)'
      BY <1>1, <1>6, <1>8, <2>2, <3>1
    <3>5. Cardinality(Registered(s)) < MaxSessions /\ s \in connected
      BY <1>8, <2>2
    <3>6. Cardinality(Registered(s) \union {r}) <= MaxSessions
      BY <3>1, <3>2, <3>3, <3>5, ServiceAssumption
    <3>7. QED
      BY <2>2, <3>4, <3>5, <3>6
  <2>3. QED
    BY <2>1, <2>2
<1>10. Alone'
  <2> SUFFICES ASSUME NEW q \in Calls, NEW x \in Sockets, pc'[q] = "lookup",
                      key[q][1] = x, x \notin overlapped
               PROVE  /\ x \in connected
                      /\ sessions'[key[q]] = None
                      /\ Cardinality(Registered(x)') < MaxSessions
                      /\ \A p \in Calls : pc'[p] = "lookup" /\ key[p][1] = x => p = q
    <3>1. \A q \in Calls : pc'[q] = "lookup" => key[q][1] \in Sockets
      BY <1>1, <1>3 DEF Progress, Keys
    <3>2. \A q \in Calls : Registered(key[q][1])' =
             {sessions'[<<key[q][1], c>>] : c \in Containers} \ {None}
      BY <1>1 DEF Registered
    <3>3. \A x \in Sockets : Registered(x)' =
             {sessions'[<<x, c>>] : c \in Containers} \ {None}
      BY DEF Registered
    <3>4. QED
      BY <1>1, <3>1, <3>2, <3>3 DEF Alone
  <2>1. q # r /\ pc[q] = "lookup" /\ key[q] \in Keys
    BY <1>1 DEF TypeOK, Progress
  <2>2. x # s
    BY <1>1, <2>1 DEF Alone
  <2>3. Registered(x)' = Registered(x)
    BY <1>7, <2>2
  <2>4. sessions'[key[q]] = sessions[key[q]]
    BY <1>1, <2>1, <2>2 DEF TypeOK
  <2>5. \A p \in Calls : pc'[p] = "lookup" => pc[p] = "lookup"
    BY <1>1 DEF TypeOK
  <2>6. QED
    BY <2>1, <2>3, <2>4, <2>5 DEF Alone
<1>11. QED
  BY <1>2, <1>3, <1>4, <1>5, <1>9, <1>10

\* A call goes on without touching the Map.
LEMMA SameMap ==
    ASSUME RegistryIsLive, SequentialClients, Alone,
           UNCHANGED <<sessions, key, session, connected, overlapped>>,
           \A r \in Calls : pc'[r] = "lookup" => pc[r] = "lookup"
    PROVE  RegistryIsLive' /\ SequentialClients' /\ Alone'
<1>1. RegistryIsLive'
  BY DEF RegistryIsLive
<1>2. SequentialClients'
  <2>1. \A s \in Sockets : Live(s)' = Live(s) /\ Registered(s)' = Registered(s)
    BY DEF Live, Registered
  <2>2. overlapped' = overlapped /\ connected' = connected
    OBVIOUS
  <2>3. QED
    BY <2>1, <2>2 DEF SequentialClients
<1>3. Alone'
  BY DEF Alone, Registered
<1>4. QED
  BY <1>1, <1>2, <1>3

LEMMA GoesOnIInv ==
    ASSUME IInv, NEW r \in Calls,
           \/ LookupFails(r) \/ StreamOpens(r)
           \/ StreamFails(r) /\ session[r] # "live"
    PROVE  IInv'
<1>1. /\ UNCHANGED <<sessions, key, session, connected, overlapped>>
      /\ pc' = [pc EXCEPT ![r] = "done"] /\ pc[r] \in {"lookup", "opening"}
      /\ stream' \in {stream, [stream EXCEPT ![r] = Attached(r)]}
  BY DEF LookupFails, StreamOpens, StreamFails
<1>2. TypeOK' /\ Progress'
  BY <1>1 DEF IInv, TypeOK, Progress, Attached
<1>3. StreamsFollowSessions'
  BY <1>1 DEF IInv, TypeOK, StreamsFollowSessions, Attached
<1>4. \A q \in Calls : pc'[q] = "lookup" => pc[q] = "lookup"
  BY <1>1 DEF IInv, TypeOK
<1>5. RegistryIsLive' /\ SequentialClients' /\ Alone'
  BY <1>1, <1>4, SameMap DEF IInv
<1>6. QED
  BY <1>2, <1>3, <1>5 DEF IInv

-----------------------------------------------------------------------------
\* close(): whatever live sessions are closed, and whatever else the handler
\* does to its own call, the Map keeps the others.  Of a client that waits for
\* its answers no key is taken from a session that stays: its live sessions are
\* the registered ones.
LEMMA CloseIInv ==
    ASSUME IInv, NEW R \in SUBSET Calls, Close(R),
           \A r \in R : session[r] = "live",
           UNCHANGED key, connected' \subseteq connected,
           overlapped \subseteq overlapped', overlapped' \subseteq Sockets,
           pc' \in [Calls -> {"idle", "lookup", "opening", "done"}],
           \A r \in Calls : pc'[r] = pc[r] \/ (pc[r] = "opening" /\ pc'[r] = "done"),
           \A s \in connected \ connected' :
              /\ Live(s) \intersect Registered(s) \subseteq R
              /\ s \notin overlapped' =>
                    \A r \in Calls : pc[r] = "lookup" => key[r][1] # s
    PROVE  IInv'
<1> USE DEF IInv
<1>1. /\ \A r \in Calls : session'[r] = IF r \in R THEN "closed" ELSE session[r]
      /\ session' \in [Calls -> {"none", "live", "closed"}]
      /\ \A k \in Keys : sessions'[k] =
            IF \E r \in R : key[r] = k THEN None ELSE sessions[k]
      /\ sessions' \in [Keys -> Calls \union {None}]
      /\ \A r \in Calls : stream'[r] = IF r \in R /\ stream[r] = "open"
                                       THEN "released" ELSE stream[r]
      /\ stream' \in [Calls -> {"none", "open", "released"}]
      /\ key' = key
  BY DEF Close, CloseKeys, TypeOK
<1>2. TypeOK'
  BY <1>1 DEF TypeOK
<1>3. Progress'
  BY <1>1 DEF Progress
<1>4. StreamsFollowSessions'
  BY <1>1 DEF StreamsFollowSessions
<1>5. RegistryIsLive'
  <2> SUFFICES ASSUME NEW k \in Keys, sessions'[k] # None
               PROVE  session'[sessions'[k]] = "live" /\ key[sessions'[k]] = k
    BY <1>1 DEF RegistryIsLive
  <2>1. sessions'[k] = sessions[k] /\ ~\E r \in R : key[r] = k
    BY <1>1
  <2>2. sessions[k] \in Calls /\ session[sessions[k]] = "live" /\ key[sessions[k]] = k
    BY <2>1 DEF TypeOK, RegistryIsLive
  <2>3. QED
    BY <1>1, <2>1, <2>2
<1>6. ASSUME NEW s \in Sockets
      PROVE  /\ Live(s)' = Live(s) \ R
             /\ Registered(s)' \subseteq Registered(s)
  <2>1. Live(s)' = Live(s) \ R
    BY <1>1 DEF Live
  <2>2. \A c \in Containers : sessions'[<<s, c>>] \in {sessions[<<s, c>>], None}
    BY <1>1 DEF Keys
  <2>3. QED
    BY <2>1, <2>2 DEF Registered
<1>7. SequentialClients'
  <2> SUFFICES ASSUME NEW s \in Sockets \ overlapped'
               PROVE  /\ Live(s)' = Registered(s)'
                      /\ Cardinality(Live(s)') <= MaxSessions
                      /\ s \notin connected' => Live(s)' = {}
    BY DEF SequentialClients
  <2>1. /\ Live(s) = Registered(s) /\ Cardinality(Live(s)) <= MaxSessions
        /\ s \notin connected => Live(s) = {}
    BY DEF SequentialClients
  <2>2. Live(s)' \subseteq Registered(s)'
    <3> SUFFICES ASSUME NEW r \in Live(s)'
                 PROVE  r \in Registered(s)'
      OBVIOUS
    <3>1. /\ r \in Calls \ R /\ r \in Registered(s) /\ key[r][1] = s
          /\ key[r] \in Keys /\ sessions[key[r]] = r
      BY <1>6, <2>1, RegisteredIs DEF Live
    <3>2. ASSUME NEW q \in R, key[q] = key[r]
          PROVE  FALSE
      <4>1. q \in Live(s)
        BY <3>1, <3>2 DEF Live
      <4>2. sessions[key[q]] = q
        BY <2>1, <4>1, RegisteredIs
      <4>3. QED
        BY <3>1, <3>2, <4>2
    <3>3. sessions'[key[r]] = r
      BY <1>1, <3>1, <3>2
    <3>4. PICK c \in Containers : key[r] = <<s, c>>
      BY <3>1 DEF Keys
    <3>5. r # None
      BY <3>1, ServiceAssumption
    <3>6. QED
      BY <3>3, <3>4, <3>5 DEF Registered
  <2>3. Registered(s)' \subseteq Live(s)'
    <3> SUFFICES ASSUME NEW r \in Registered(s)'
                 PROVE  r \in Live(s)'
      OBVIOUS
    <3>1. PICK c \in Containers : r = sessions'[<<s, c>>] /\ r # None
      BY DEF Registered
    <3>2. <<s, c>> \in Keys /\ <<s, c>>[1] = s
      BY DEF Keys
    <3>3. session'[r] = "live" /\ key'[r] = <<s, c>> /\ r \in Calls
      BY <1>1, <1>5, <3>1, <3>2 DEF RegistryIsLive
    <3>4. QED
      BY <3>2, <3>3 DEF Live
  <2>4. Cardinality(Live(s)') <= MaxSessions
    <3>1. Live(s) \subseteq Calls /\ Live(s)' \subseteq Live(s)
      BY <1>6 DEF Live
    <3>2. /\ Cardinality(Live(s)') <= Cardinality(Live(s))
          /\ Cardinality(Live(s)') \in Nat /\ Cardinality(Live(s)) \in Nat
      BY <3>1, Fewer, Finite
    <3>3. QED
      BY <2>1, <3>2, ServiceAssumption
  <2>5. s \notin connected' => Live(s)' = {}
    BY <1>6, <2>1
  <2>6. QED
    BY <2>2, <2>3, <2>4, <2>5
<1>8. Alone'
  <2> SUFFICES ASSUME NEW q \in Calls, NEW s \in Sockets, pc'[q] = "lookup",
                      key[q][1] = s, s \notin overlapped'
               PROVE  /\ s \in connected'
                      /\ sessions'[key[q]] = None
                      /\ Cardinality(Registered(s)') < MaxSessions
                      /\ \A p \in Calls : pc'[p] = "lookup" /\ key[p][1] = s => p = q
    <3>1. \A p \in Calls : pc'[p] = "lookup" => key[p][1] \in Sockets
      BY <1>1, <1>3 DEF Progress, Keys
    <3>2. \A p \in Calls : Registered(key[p][1])' =
             {sessions'[<<key[p][1], c>>] : c \in Containers} \ {None}
      BY <1>1 DEF Registered
    <3>3. \A x \in Sockets : Registered(x)' =
             {sessions'[<<x, c>>] : c \in Containers} \ {None}
      BY DEF Registered
    <3>4. QED
      BY <1>1, <3>1, <3>2, <3>3 DEF Alone
  <2>1. \A p \in Calls : pc'[p] = "lookup" => pc[p] = "lookup"
    OBVIOUS
  <2>2. /\ s \in connected /\ sessions[key[q]] = None /\ key[q] \in Keys
        /\ Cardinality(Registered(s)) < MaxSessions
        /\ \A p \in Calls : pc[p] = "lookup" /\ key[p][1] = s => p = q
    BY <2>1 DEF Alone, Progress
  <2>3. s \in connected'
    BY <2>1, <2>2
  <2>4. Cardinality(Registered(s)') < MaxSessions
    <3>1. Registered(s) \subseteq Calls /\ Registered(s)' \subseteq Registered(s)
      BY <1>6, RegisteredIs
    <3>2. /\ Cardinality(Registered(s)') <= Cardinality(Registered(s))
          /\ Cardinality(Registered(s)') \in Nat /\ Cardinality(Registered(s)) \in Nat
      BY <3>1, Fewer, Finite
    <3>3. QED
      BY <2>2, <3>2, ServiceAssumption
  <2>5. sessions'[key[q]] = None
    BY <1>1, <2>2
  <2>6. QED
    BY <2>1, <2>2, <2>3, <2>4, <2>5
<1>9. QED
  BY <1>2, <1>3, <1>4, <1>5, <1>7, <1>8

\* The steps that close sessions: the stream is refused or ends, the client
\* unsubscribes or leaves, the service stops.
LEMMA SessionClosesIInv ==
    ASSUME IInv, NEW r \in Calls,
           SessionCloses(r) \/ (StreamFails(r) /\ session[r] = "live")
    PROVE  IInv'
<1>1. /\ Close({r}) /\ session[r] = "live"
      /\ UNCHANGED <<key, connected, overlapped>>
      /\ pc' = pc \/ (pc' = [pc EXCEPT ![r] = "done"] /\ pc[r] = "opening")
  BY DEF StreamFails, SessionCloses
<1>2. /\ pc' \in [Calls -> {"idle", "lookup", "opening", "done"}]
      /\ \A q \in Calls : pc'[q] = pc[q] \/ (pc[q] = "opening" /\ pc'[q] = "done")
  BY <1>1 DEF IInv, TypeOK
<1>3. overlapped' \subseteq Sockets /\ {r} \in SUBSET Calls
  BY <1>1 DEF IInv, TypeOK
<1>4. QED
  BY <1>1, <1>2, <1>3, CloseIInv

LEMMA HandlersIInv ==
    ASSUME IInv,
           \/ \E s \in Sockets, c \in Containers : Unsubscribe(s, c)
           \/ \E s \in Sockets : Disconnect(s)
           \/ ModuleDestroy
    PROVE  IInv'
<1>1. /\ UNCHANGED <<pc, key>>
      /\ pc \in [Calls -> {"idle", "lookup", "opening", "done"}]
      /\ \A r \in Calls : pc'[r] = pc[r]
  BY DEF Unsubscribe, Disconnect, ModuleDestroy, IInv, TypeOK
<1>2. /\ overlapped \subseteq overlapped' /\ overlapped' \subseteq Sockets
      /\ connected' \subseteq connected
  BY DEF Unsubscribe, Disconnect, ModuleDestroy, Overlaps, IInv, TypeOK
<1>3. \A x \in Sockets : Registered(x) \subseteq Live(x) /\ Registered(x) \subseteq Calls
  BY RegisteredIs DEF IInv
<1>4. \A x \in Sockets : \A r \in Registered(x) : r \in Calls /\ session[r] = "live"
  BY <1>3 DEF Live
<1>5. ASSUME NEW s \in Sockets, NEW c \in Containers, Unsubscribe(s, c)
      PROVE  IInv'
  <2> DEFINE R == {sessions[<<s, c>>]} \ {None}
  <2>1. Close(R) /\ connected' = connected
    BY <1>5 DEF Unsubscribe
  <2>2. R \subseteq Registered(s)
    BY DEF Registered
  <2>3. R \in SUBSET Calls /\ \A r \in R : session[r] = "live"
    BY <1>4, <2>2
  <2> HIDE DEF R
  <2>4. QED
    BY <1>1, <1>2, <2>1, <2>3, CloseIInv
<1>6. ASSUME NEW s \in Sockets, Disconnect(s)
      PROVE  IInv'
  <2> DEFINE R == Registered(s)
  <2>1. Close(R) /\ connected' = connected \ {s} /\ Overlaps(s)
    BY <1>6 DEF Disconnect, Destroyed
  <2>2. R \in SUBSET Calls /\ \A r \in R : session[r] = "live"
    BY <1>4
  <2>3. \A x \in connected \ connected' :
           /\ Live(x) \intersect Registered(x) \subseteq R
           /\ x \notin overlapped' => \A r \in Calls : pc[r] = "lookup" => key[r][1] # x
    BY <2>1 DEF Overlaps
  <2> HIDE DEF R
  <2>4. QED
    BY <1>1, <1>2, <2>1, <2>2, <2>3, CloseIInv
<1>7. CASE ModuleDestroy
  <2> DEFINE R == UNION {Registered(x) : x \in Sockets}
  <2>1. Close(R) /\ connected' = connected
    BY <1>7 DEF ModuleDestroy
  <2>2. R \in SUBSET Calls /\ \A r \in R : session[r] = "live"
    BY <1>4
  <2> HIDE DEF R
  <2>3. QED
    BY <1>1, <1>2, <2>1, <2>2, CloseIInv
<1>8. QED
  BY <1>5, <1>6, <1>7

LEMMA NextIInv == IInv /\ [Next]_vars => IInv'
<1> SUFFICES ASSUME IInv, [Next]_vars PROVE IInv'
  OBVIOUS
<1>1. CASE Gateway
  <2>1. ASSUME NEW s \in Sockets, NEW c \in Containers, NEW r \in Calls,
               Subscribe(r, s, c)
        PROVE  IInv'
    BY <2>1, SubscribeIInv
  <2>2. QED
    BY <1>1, <2>1, HandlersIInv DEF Gateway
<1>2. CASE Daemon
  BY <1>2, LookupFindsIInv, GoesOnIInv, SessionClosesIInv DEF Daemon
<1>3. CASE UNCHANGED vars
  <2>1. TypeOK' /\ Progress' /\ StreamsFollowSessions'
    BY <1>3 DEF IInv, TypeOK, Progress, StreamsFollowSessions, vars
  <2>2. RegistryIsLive' /\ SequentialClients' /\ Alone'
    BY <1>3, SameMap DEF IInv, vars
  <2>3. QED
    BY <2>1, <2>2 DEF IInv
<1>4. QED
  BY <1>1, <1>2, <1>3 DEF Next

-----------------------------------------------------------------------------
\* The inductive invariant holds in every state.
THEOREM Invariant == Spec => []IInv
BY InitIInv, NextIInv, PTL DEF Spec

\* subscribe, unsubscribe and close keep their variables in their types.
THEOREM TypeCorrect == Spec => []TypeOK
<1>1. IInv => TypeOK
  BY DEF IInv
<1>2. QED
  BY <1>1, Invariant, PTL

\* The Map never leads to a session that is over, nor to one of another key,
\* although onClose deletes the key "whatever session it leads to by now".
THEOREM RegistryLeadsToLive == Spec => []RegistryIsLive
<1>1. IInv => RegistryIsLive
  BY DEF IInv
<1>2. QED
  BY <1>1, Invariant, PTL

\* A client that waits for its answers has every session it has in the Map, no
\* more than the limit, and none when it is gone.
THEOREM SequentialClientsServed == Spec => []SequentialClients
<1>1. IInv => SequentialClients
  BY DEF IInv
<1>2. QED
  BY <1>1, Invariant, PTL

\* No stream of the daemon stays open behind a session that is closed.
THEOREM StreamsReleased == Spec => []StreamsFollowSessions
<1>1. IInv => StreamsFollowSessions
  BY DEF IInv
<1>2. QED
  BY <1>1, Invariant, PTL
=============================================================================
