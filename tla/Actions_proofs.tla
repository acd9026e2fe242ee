--------------------------- MODULE Actions_proofs ---------------------------
(***************************************************************************)
(* Proofs about Actions, for every number of requests and containers and   *)
(* every value of the limits, and about the button in front of it, for     *)
(* every number of timers.                                                 *)
(***************************************************************************)
EXTENDS RestartButton, FiniteSetTheorems, SequenceTheorems, TLAPS

\* What a process remembers is about restarts it asked for, a request that has
\* not got that far has no age, and every restart that a limit may still look at
\* is remembered: the latest of its container, and in the array.
Memory ==
    /\ globalRestarts \subseteq issued
    /\ \A c \in Containers : lastRestartAt[c] # None =>
          lastRestartAt[c] \in issued /\ target[lastRestartAt[c]] = c
    /\ \A r \in issued : target[r] \in Containers
    /\ \A r \in issued : age[r] < ContainerCooldown => lastRestartAt[target[r]] = r
    /\ \A r \in issued : age[r] < GlobalWindow => r \in globalRestarts

\* Where a request is, and what is known of it there
Progress ==
    \A r \in Requests :
        /\ pc[r] \in {"idle", "lookup"} => r \notin issued /\ age[r] = 0
        /\ pc[r] # "idle" => target[r] \in Containers
        /\ pc[r] \in {"docker", "audit"} => target[r] \notin Protected
        /\ pc[r] = "audit" => result[r] \in {"ok", "error"}
        /\ pc[r] \in {"idle", "lookup", "docker", "audit"} =>
              reply[r] = "none" /\ rows[r] = "none"

IInv ==
    /\ TypeOK
    /\ Memory
    /\ Progress
    /\ Cardinality(Recent) <= GlobalLimit
    /\ ToldAsDone

-----------------------------------------------------------------------------
\* Sets of requests are finite, and a smaller one is no larger.
LEMMA Finite ==
    ASSUME NEW S \in SUBSET Requests
    PROVE  IsFiniteSet(S) /\ Cardinality(S) \in Nat
BY ActionsAssumption, FS_Subset, FS_CardinalityType

LEMMA Fewer ==
    ASSUME NEW S \in SUBSET Requests, NEW T \in SUBSET S
    PROVE  Cardinality(T) <= Cardinality(S)
BY Finite, FS_Subset

\* A number that reaches a bound and does not pass it
LEMMA AtMostAndAtLeast ==
    ASSUME NEW m \in Nat, NEW n \in Nat, m >= n, m <= n
    PROVE  m = n
OBVIOUS

\* The array holds every restart within the window.
LEMMA RecentIsIssued ==
    ASSUME IInv
    PROVE  Recent = {r \in issued : age[r] < GlobalWindow}
BY DEF IInv, Memory, Recent

LEMMA RecentType ==
    ASSUME IInv
    PROVE  Recent \subseteq Requests /\ Cardinality(Recent) \in Nat
BY Finite DEF IInv, TypeOK, Recent

-----------------------------------------------------------------------------
\* The initial states satisfy the invariant.
LEMMA InitIInv == Init => IInv
<1> SUFFICES ASSUME Init PROVE IInv
  OBVIOUS
<1>1. TypeOK /\ Memory /\ Progress /\ ToldAsDone
  BY ActionsAssumption
  DEF Init, TypeOK, Memory, Progress, ToldAsDone, Old, Replies, Results
<1>2. Recent = {}
  BY DEF Init, Recent
<1>3. Cardinality(Recent) <= GlobalLimit
  BY <1>2, FS_EmptySet, ActionsAssumption
<1>4. QED
  BY <1>1, <1>3 DEF IInv

\* A step that leaves the limits and the restarts alone keeps the memory.
LEMMA SameLimits ==
    ASSUME IInv, UNCHANGED <<limits, issued>>,
           \A r \in issued : target'[r] = target[r]
    PROVE  Memory' /\ Cardinality(Recent') <= GlobalLimit
<1>1. Recent' = Recent
  BY DEF limits, Recent
<1>2. Memory'
  BY DEF IInv, Memory, limits
<1>3. QED
  BY <1>1, <1>2 DEF IInv

\* A request is taken in, or is answered before it reaches Docker.
LEMMA RequestIInv ==
    ASSUME IInv, NEW r \in Requests, NEW c \in Containers, Request(r, c)
    PROVE  IInv'
<1>1. TypeOK' /\ Progress' /\ ToldAsDone'
  BY DEF IInv, TypeOK, Request, Progress, ToldAsDone, limits
<1>2. \A q \in issued : target'[q] = target[q]
  BY DEF IInv, TypeOK, Request, Progress
<1>3. QED
  BY <1>1, <1>2, SameLimits DEF IInv, Request

LEMMA RefusalIInv ==
    ASSUME IInv, NEW r \in Requests, LookupFails(r) \/ Refused(r)
    PROVE  IInv'
<1>1. /\ pc[r] = "lookup" /\ pc' = [pc EXCEPT ![r] = "done"]
      /\ \E what \in {"not found", "server error", "forbidden", "too many"} :
            reply' = [reply EXCEPT ![r] = what]
      /\ UNCHANGED <<limits, target, issued, result, rows>>
  BY DEF LookupFails, Refused, End
<1>2. TypeOK'
  BY <1>1 DEF IInv, TypeOK, limits, Replies
<1>3. Progress'
  <2>1. /\ pc'[r] = "done" /\ target[r] \in Containers
        /\ \A q \in Requests \ {r} : pc'[q] = pc[q] /\ reply'[q] = reply[q]
    BY <1>1 DEF IInv, TypeOK, Progress
  <2>2. UNCHANGED <<issued, age, target, result, rows>>
    BY <1>1 DEF limits
  <2>3. QED
    BY <2>1, <2>2 DEF IInv, Progress
<1>4. ToldAsDone'
  <2>1. rows' = rows /\ result' = result /\ target' = target
    BY <1>1
  <2>2. rows[r] = "none"
    BY <1>1 DEF IInv, Progress
  <2>3. \A q \in Requests : reply'[q] \in {"ok", "bad gateway"} => reply'[q] = reply[q]
    BY <1>1 DEF IInv, TypeOK
  <2>4. QED
    BY <2>1, <2>3 DEF IInv, ToldAsDone
<1>5. QED
  BY <1>1, <1>2, <1>3, <1>4, SameLimits DEF IInv

\* Docker's answer and the audit row
LEMMA AnswersIInv ==
    ASSUME IInv, NEW r \in Requests, Answers(r)
    PROVE  IInv'
<1>1. TypeOK'
  BY DEF IInv, TypeOK, Answers, limits, Results
<1>2. Progress'
  <2>1. /\ pc[r] = "docker" /\ pc'[r] = "audit"
        /\ result'[r] \in {"ok", "error"}
        /\ \A q \in Requests \ {r} : pc'[q] = pc[q] /\ result'[q] = result[q]
    BY DEF Answers, IInv, TypeOK
  <2>2. UNCHANGED <<issued, age, target, reply, rows>>
    BY DEF Answers, limits
  <2>3. QED
    BY <2>1, <2>2 DEF IInv, Progress
<1>3. ToldAsDone'
  BY DEF IInv, TypeOK, Answers, Progress, ToldAsDone
<1>4. QED
  BY <1>1, <1>2, <1>3, SameLimits DEF IInv, Answers

LEMMA AuditIInv ==
    ASSUME IInv, NEW r \in Requests, AuditWritten(r) \/ AuditFails(r)
    PROVE  IInv'
<1>1. CASE AuditWritten(r)
  <2>1. TypeOK' /\ Progress' /\ ToldAsDone'
    BY <1>1 DEF IInv, TypeOK, AuditWritten, EndAsResult, End, Progress,
                ToldAsDone, limits, Results, Replies
  <2>2. QED
    BY <1>1, <2>1, SameLimits DEF IInv, AuditWritten
<1>2. CASE AuditFails(r)
  <2>1. TypeOK' /\ Progress' /\ ToldAsDone'
    BY <1>2 DEF IInv, TypeOK, AuditFails, End, Progress, ToldAsDone, limits,
                Results, Replies
  <2>2. QED
    BY <1>2, <2>1, SameLimits DEF IInv, AuditFails
<1>3. QED
  BY <1>1, <1>2

\* The step that decides: the check passes, so nothing that counts is forgotten
\* and there is room for one more.
LEMMA AllowedIInv ==
    ASSUME IInv, NEW r \in Requests, Allowed(r)
    PROVE  IInv'
<1> DEFINE R == globalRestarts \union {r}
<1>1. /\ pc[r] = "lookup" /\ r \notin issued /\ age[r] = 0
      /\ target[r] \in Containers /\ target[r] \notin Protected
      /\ ~Cooling(target[r]) /\ ~Spent
      /\ pc' = [pc EXCEPT ![r] = "docker"]
      /\ lastRestartAt' = [lastRestartAt EXCEPT ![target[r]] = r]
      /\ globalRestarts' = Pruned(R)
      /\ issued' = issued \union {r}
      /\ age' = [age EXCEPT ![r] = 0]
      /\ UNCHANGED <<target, reply, result, rows>>
  BY DEF Allowed, RecordAndAsk, RecordRestart, IInv, Progress
<1>2. /\ globalRestarts' \subseteq R
      /\ \A q \in R : age[q] <= GlobalWindow => q \in globalRestarts'
  BY <1>1 DEF Pruned
<1>3. TypeOK'
  BY <1>1, <1>2, ActionsAssumption DEF IInv, TypeOK, Old
<1>4. Progress' /\ ToldAsDone'
  BY <1>1 DEF IInv, TypeOK, Progress, ToldAsDone
<1>5. Memory'
  <2>1. globalRestarts' \subseteq issued'
    BY <1>1, <1>2 DEF IInv, Memory
  <2>2. \A c \in Containers : lastRestartAt'[c] # None =>
            lastRestartAt'[c] \in issued' /\ target'[lastRestartAt'[c]] = c
    BY <1>1 DEF IInv, TypeOK, Memory
  <2>3. \A q \in issued' : target'[q] \in Containers
    BY <1>1 DEF IInv, Memory
  <2>4. ASSUME NEW q \in issued', age'[q] < ContainerCooldown
        PROVE  lastRestartAt'[target'[q]] = q
    <3>1. CASE q = r
      BY <1>1, <3>1 DEF IInv, TypeOK
    <3>2. CASE q # r
      <4>1. /\ q \in issued /\ age[q] < ContainerCooldown
            /\ lastRestartAt[target[q]] = q /\ target[q] \in Containers
        BY <1>1, <2>4, <3>2 DEF IInv, TypeOK, Memory
      <4>2. q # None
        BY <4>1, ActionsAssumption DEF IInv, TypeOK
      <4>3. target[q] # target[r]
        BY <1>1, <4>1, <4>2 DEF Cooling
      <4>4. QED
        BY <1>1, <4>1, <4>3 DEF IInv, TypeOK
    <3>3. QED
      BY <3>1, <3>2
  <2>5. ASSUME NEW q \in issued', age'[q] < GlobalWindow
        PROVE  q \in globalRestarts'
    <3>1. q \in R /\ age[q] <= GlobalWindow
      BY <1>1, <2>5, ActionsAssumption DEF IInv, TypeOK, Memory, Old
    <3>2. QED
      BY <1>2, <3>1
  <2>6. QED
    BY <2>1, <2>2, <2>3, <2>4, <2>5 DEF Memory
<1>6. Cardinality(Recent') <= GlobalLimit
  <2>1. Recent' \subseteq Recent \union {r}
    BY <1>1, <1>2 DEF Recent, IInv, TypeOK
  <2>2. Recent \subseteq Requests /\ Cardinality(Recent) \in Nat
    BY RecentType
  <2>3. Cardinality(Recent) < GlobalLimit
    BY <1>1, <2>2, ActionsAssumption DEF Spent
  <2>4. Cardinality(Recent \union {r}) <= Cardinality(Recent) + 1
    BY <2>2, Finite, FS_AddElement
  <2>5. Cardinality(Recent') <= Cardinality(Recent \union {r})
    BY <2>1, <2>2, Fewer
  <2>6. Cardinality(Recent') \in Nat /\ Cardinality(Recent \union {r}) \in Nat
    BY <2>1, <2>2, Finite
  <2>7. QED
    BY <2>2, <2>3, <2>4, <2>5, <2>6, ActionsAssumption
<1>7. QED
  BY <1>3, <1>4, <1>5, <1>6 DEF IInv

\* Time only takes restarts out of the windows.
LEMMA TickIInv ==
    ASSUME IInv, Tick
    PROVE  IInv'
<1>1. /\ \A r \in Requests : age'[r] \in 0..Old /\ age'[r] >= age[r]
      /\ \A r \in Requests \ issued : age'[r] = age[r]
      /\ age' \in [Requests -> 0..Old]
  BY ActionsAssumption DEF Tick, Older, Old, IInv, TypeOK
<1>2. UNCHANGED <<lastRestartAt, globalRestarts, pc, target, reply, issued,
                  result, rows>>
  BY DEF Tick
<1>3. TypeOK' /\ Progress' /\ ToldAsDone'
  BY <1>1, <1>2 DEF IInv, TypeOK, Progress, ToldAsDone
<1>4. \A r \in issued : \A n \in Nat : age'[r] < n => age[r] < n
  BY <1>1, ActionsAssumption DEF IInv, TypeOK, Old
<1>5. Memory'
  BY <1>2, <1>4, ActionsAssumption DEF IInv, Memory
<1>6. Recent' \subseteq Recent
  BY <1>2, <1>4, ActionsAssumption DEF Recent, IInv, Memory
<1>7. Cardinality(Recent') <= GlobalLimit
  <2>1. Recent \subseteq Requests /\ Cardinality(Recent) \in Nat
    BY RecentType
  <2>2. Cardinality(Recent') <= Cardinality(Recent) /\ Cardinality(Recent') \in Nat
    BY <1>6, <2>1, Fewer, Finite
  <2>3. QED
    BY <2>1, <2>2, ActionsAssumption DEF IInv
<1>8. QED
  BY <1>3, <1>5, <1>7 DEF IInv

\* A process that starts again has nothing to remember.
LEMMA CrashIInv ==
    ASSUME IInv, Crash
    PROVE  IInv'
<1>1. TypeOK' /\ Memory' /\ Progress' /\ ToldAsDone'
  BY DEF Crash, IInv, TypeOK, Memory, Progress, ToldAsDone
<1>2. Recent' = {}
  BY DEF Crash, Recent
<1>3. QED
  BY <1>1, <1>2, FS_EmptySet, ActionsAssumption DEF IInv

LEMMA NextIInv == IInv /\ [Next]_vars => IInv'
<1> SUFFICES ASSUME IInv, [Next]_vars PROVE IInv'
  OBVIOUS
<1>1. ASSUME NEW r \in Requests, Serve(r)
      PROVE  IInv'
  BY <1>1, RequestIInv, RefusalIInv, AllowedIInv, AnswersIInv, AuditIInv DEF Serve
<1>2. CASE Tick
  BY <1>2, TickIInv
<1>3. CASE Crash
  BY <1>3, CrashIInv
<1>4. CASE UNCHANGED vars
  <2>1. TypeOK' /\ Progress' /\ ToldAsDone'
    BY <1>4 DEF IInv, TypeOK, Progress, ToldAsDone, vars, limits
  <2>2. QED
    BY <1>4, <2>1, SameLimits DEF IInv, vars
<1>5. QED
  BY <1>1, <1>2, <1>3, <1>4 DEF Next

-----------------------------------------------------------------------------
\* The inductive invariant holds in every state.
THEOREM Invariant == Spec => []IInv
BY InitIInv, NextIInv, PTL DEF Spec

\* restartContainer keeps its variables in their types.
THEOREM TypeCorrect == Spec => []TypeOK
<1>1. IInv => TypeOK
  BY DEF IInv
<1>2. QED
  BY <1>1, Invariant, PTL

\* However requests overlap, two restarts of a container are a cooldown apart.
THEOREM CooldownKept == Spec => []CooldownHolds
<1>1. IInv => CooldownHolds
  <2> SUFFICES ASSUME IInv, NEW r \in issued, NEW q \in issued, r # q,
                      target[r] = target[q], age[r] < ContainerCooldown,
                      age[q] < ContainerCooldown
               PROVE  FALSE
    BY ActionsAssumption DEF CooldownHolds, IInv, TypeOK, Old
  <2>1. lastRestartAt[target[r]] = r /\ lastRestartAt[target[q]] = q
    BY DEF IInv, Memory
  <2>2. QED
    BY <2>1
<1>2. QED
  BY <1>1, Invariant, PTL

\* No window holds more than GLOBAL_LIMIT restarts, whatever pruning forgets.
THEOREM BudgetKept == Spec => []BudgetHolds
<1>1. IInv => BudgetHolds
  BY RecentIsIssued DEF IInv, BudgetHolds
<1>2. QED
  BY <1>1, Invariant, PTL

\* Answers and audit rows agree with what Docker did.
THEOREM AnswersAreTrue == Spec => []ToldAsDone
<1>1. IInv => ToldAsDone
  BY DEF IInv
<1>2. QED
  BY <1>1, Invariant, PTL

\* A 429 is given only for a restart within the cooldown or a spent budget.
LEMMA RefusalStep ==
    ASSUME IInv, [Next]_vars, NEW r \in Requests,
           reply[r] # "too many", reply'[r] = "too many"
    PROVE  \/ \E q \in issued : target[q] = target[r] /\ age[q] < ContainerCooldown
           \/ Cardinality({q \in issued : age[q] < GlobalWindow}) = GlobalLimit
<1>1. Refused(r)
  <2>1. ASSUME NEW s \in Requests, Serve(s)
        PROVE  Refused(r)
    BY <2>1 DEF Serve, Request, LookupFails, Refused, Allowed, Answers, AuditWritten,
                AuditFails, EndAsResult, End, IInv, TypeOK
  <2>2. QED
    BY <2>1 DEF Next, Tick, Crash, vars
<1>2. target[r] \in Containers /\ (Cooling(target[r]) \/ Spent)
  BY <1>1 DEF Refused, End, IInv, TypeOK, Progress
<1>3. CASE Cooling(target[r])
  BY <1>2, <1>3 DEF Cooling, IInv, Memory
<1>4. CASE Spent
  <2>1. Cardinality(Recent) \in Nat
    BY RecentType
  <2>2. Cardinality(Recent) = GlobalLimit
    <3>1. Cardinality(Recent) >= GlobalLimit
      BY <1>4 DEF Spent
    <3>2. Cardinality(Recent) <= GlobalLimit
      BY DEF IInv
    <3>3. GlobalLimit \in Nat
      BY ActionsAssumption
    <3>4. QED
      BY <2>1, <3>1, <3>2, <3>3, AtMostAndAtLeast
  <2>3. Recent = {q \in issued : age[q] < GlobalWindow}
    BY RecentIsIssued
  <2>4. QED
    BY <2>2, <2>3
<1>5. QED
  BY <1>2, <1>3, <1>4

THEOREM RefusalsHaveReasons == Spec => RefusedForAReason
<1>1. IInv /\ [Next]_vars =>
        [\A r \in Requests : reply[r] # "too many" /\ reply'[r] = "too many" =>
          \/ \E q \in issued : target[q] = target[r] /\ age[q] < ContainerCooldown
          \/ Cardinality({q \in issued : age[q] < GlobalWindow}) = GlobalLimit]_vars
  BY RefusalStep
<1>2. QED
  BY <1>1, Invariant, PTL DEF Spec, RefusedForAReason
-----------------------------------------------------------------------------
\* The button shows a success only for a request that was told "ok".
ButtonIInv ==
    /\ IInv
    /\ ButtonTypeOK
    /\ status = "done" => shown \in Requests /\ reply[shown] = "ok"
    /\ status = "pending" => sent # {}
    /\ status = "confirm" => timers # << >>

\* Each step of the button is one of the API or leaves it alone.
LEMMA ButtonStep == ButtonNext => [Next]_vars
<1> SUFFICES ASSUME ButtonNext PROVE [Next]_vars
  OBVIOUS
<1>1. CASE (Crash \/ Tick \/ \E r \in Requests : Serve(r)) /\ UNCHANGED button
  BY <1>1 DEF Next
<1>2. CASE FirstClick \/ TimerFires \/ \E r \in Requests : Settled(r)
  BY <1>2 DEF FirstClick, TimerFires, Settled
<1>3. CASE \E r \in Requests : SecondClick(r)
  BY <1>3, ButtonAssumption DEF SecondClick, Serve, Next
<1>4. QED
  BY <1>1, <1>2, <1>3 DEF ButtonNext

\* What a request was answered is not taken back.
LEMMA RepliesStay ==
    ASSUME IInv, [Next]_vars, NEW r \in Requests, reply[r] = "ok"
    PROVE  reply'[r] = "ok"
<1>1. pc[r] \notin {"lookup", "audit"}
  BY DEF IInv, Progress
<1>2. ASSUME NEW q \in Requests, NEW what, q # r, End(q, what)
      PROVE  reply'[r] = "ok"
  BY <1>2 DEF End, IInv, TypeOK
<1>3. ASSUME NEW q \in Requests, Serve(q)
      PROVE  reply'[r] = "ok"
  <2>1. CASE LookupFails(q) \/ Refused(q)
    BY <1>1, <1>2, <2>1 DEF LookupFails, Refused
  <2>2. CASE AuditWritten(q) \/ AuditFails(q)
    BY <1>1, <1>2, <2>2 DEF AuditWritten, AuditFails, EndAsResult
  <2>3. CASE Allowed(q) \/ Answers(q) \/ \E c \in Containers : Request(q, c)
    BY <2>3 DEF Allowed, Answers, Request
  <2>4. QED
    BY <1>3, <2>1, <2>2, <2>3 DEF Serve
<1>4. CASE Tick \/ Crash \/ UNCHANGED vars
  BY <1>4 DEF Tick, Crash, vars
<1>5. QED
  BY <1>3, <1>4 DEF Next

LEMMA ButtonInitIInv == ButtonInit => ButtonIInv
<1> SUFFICES ASSUME ButtonInit PROVE ButtonIInv
  OBVIOUS
<1>1. IInv
  BY InitIInv DEF ButtonInit
<1>2. QED
  BY <1>1 DEF ButtonInit, ButtonIInv, ButtonTypeOK, IInv

LEMMA ButtonNextIInv == ButtonIInv /\ [ButtonNext]_buttonVars => ButtonIInv'
<1> SUFFICES ASSUME ButtonIInv, [ButtonNext]_buttonVars PROVE ButtonIInv'
  OBVIOUS
<1> USE DEF ButtonIInv
<1>1. [Next]_vars
  BY ButtonStep DEF buttonVars
<1>2. IInv' /\ TypeOK'
  BY <1>1, NextIInv DEF IInv
<1>3. CASE FirstClick
  <2>1. /\ status' = "confirm" /\ shown' = None /\ sent' = sent
        /\ timers' = Append(timers, "confirm")
    BY <1>3 DEF FirstClick, Shows, SetTimer
  <2>2. timers' \in Seq({"confirm", "any"}) /\ timers' # << >>
    BY <2>1, AppendProperties, EmptySeq DEF ButtonTypeOK
  <2>3. QED
    BY <1>2, <2>1, <2>2 DEF ButtonTypeOK
<1>4. ASSUME NEW r \in Requests, SecondClick(r)
      PROVE  ButtonIInv'
  BY <1>2, <1>4 DEF SecondClick, Shows, ButtonTypeOK
<1>5. ASSUME NEW r \in Requests, Settled(r)
      PROVE  ButtonIInv'
  <2>1. /\ status' \in {"done", "error"} /\ sent' = sent \ {r}
        /\ status' = "done" => shown' = r /\ reply[r] = "ok"
        /\ shown' \in {r, None} /\ reply' = reply
        /\ timers' = Append(timers, "any")
    BY <1>5 DEF Settled, Shows, Outcome, SetTimer, vars
  <2>2. timers' \in Seq({"confirm", "any"})
    BY <2>1, AppendProperties DEF ButtonTypeOK
  <2>3. QED
    BY <1>2, <2>1, <2>2 DEF ButtonTypeOK
<1>6. CASE TimerFires
  <2>1. /\ timers # << >> /\ timers' = Tail(timers) /\ UNCHANGED <<sent, reply>>
        /\ \/ status # "confirm" /\ UNCHANGED <<status, shown>>
           \/ status' = "idle" /\ shown' = None
    BY <1>6 DEF TimerFires, Shows, vars
  <2>2. timers' \in Seq({"confirm", "any"})
    BY <2>1, HeadTailProperties DEF ButtonTypeOK
  <2>3. QED
    BY <1>2, <2>1, <2>2 DEF ButtonTypeOK
<1>7. CASE UNCHANGED button
  <2>1. UNCHANGED <<status, timers, sent, shown>>
    BY <1>7 DEF button
  <2>2. status' = "done" => shown' \in Requests /\ reply'[shown'] = "ok"
    BY <1>1, <2>1, RepliesStay
  <2>3. QED
    BY <1>2, <2>1, <2>2 DEF ButtonTypeOK
<1>8. QED
  BY <1>3, <1>4, <1>5, <1>6, <1>7 DEF ButtonNext, buttonVars

\* What is proved of the API above holds behind the button.
THEOREM ButtonUsesApi == ButtonSpec => Spec
<1>1. ButtonInit => Init
  BY DEF ButtonInit
<1>2. [ButtonNext]_buttonVars => [Next]_vars
  BY ButtonStep DEF buttonVars
<1>3. QED
  BY <1>1, <1>2, PTL DEF ButtonSpec, Spec

\* Whichever timers and answers overtake each other, a success that is shown is
\* one that Docker and the audit log know of, and a button that waits or asks has
\* an answer or a timer ahead of it.
THEOREM ButtonTellsTruth == ButtonSpec => []ButtonIsTrue
<1>1. ButtonIInv => ButtonIsTrue
  BY DEF ButtonIInv, ButtonIsTrue, IInv, ToldAsDone
<1>2. QED
  BY <1>1, ButtonInitIInv, ButtonNextIInv, PTL DEF ButtonSpec
=============================================================================
