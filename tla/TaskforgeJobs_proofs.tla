------------------------ MODULE TaskforgeJobs_proofs ------------------------
(***************************************************************************)
(* Proofs about TaskforgeJobs, for any number of calls and jobs, any       *)
(* lifetime of a token and any margin.                                     *)
(***************************************************************************)
EXTENDS TaskforgeJobs, SequenceTheorems, TLAPS

\* A token is asked for, and issued later; one request is enough for all.
TokenInv ==
    /\ TokenShared
    /\ \A k \in DOMAIN requests :
          requests[k].asked <= clock /\ requests[k].asked <= requests[k].issued

\* A call of each kind: what it has read and been told is still so, or the row
\* has been purged, or another refresh of the same run overlaps it.
TriggerInv(call) ==
    /\ call.job \in Jobs
    /\ rows[call.job] = "none"
    /\ call.at = "row" <=> jobs[call.job] # "none"

RefreshInv(call) ==
    /\ call.job \in Jobs
    /\ call.row = "COMPLETED" => jobs[call.job] = "completed"
    /\ call.at = "row" /\ call.row = "COMPLETED" =>
          call.state \in {"completed", "unreadable"}
    /\ call.job \notin overlapped => rows[call.job] \in {call.row, "none"}

CallInv(call) ==
    /\ call.at = "idle" => call = Idle
    /\ call.at # "idle" => call.op # "none"
    /\ call.at = "row" => call.op # "list"
    /\ call.op = "trigger" => TriggerInv(call)
    /\ call.op = "refresh" => RefreshInv(call)
    /\ call.at = "row" /\ call.state = "completed" => jobs[call.job] = "completed"

\* The jobs that have ended stay so, only jobs have rows, a job that is being
\* triggered has no other call, and refreshes that overlap are known.
JobsInv ==
    /\ \A c \in Calls : CallInv(calls[c])
    /\ \A j \in Jobs : /\ rows[j] # "none" => jobs[j] # "none"
                       /\ rows[j] = "COMPLETED" => jobs[j] = "completed"
    /\ \A c, d \in Calls :
          c # d /\ calls[c].job = calls[d].job =>
             /\ calls[c].op # "trigger"
             /\ calls[c].op = "refresh" /\ calls[d].op = "refresh" =>
                   calls[c].job \in overlapped

IInv == TypeOK /\ TokenInv /\ JobsInv

CallType ==
    [op : {"none", "trigger", "refresh", "list"},
     at : {"idle", "token", "taskforge", "row"},
     job : Jobs \union {None}, token : Times,
     row : Statuses \union {"none"},
     state : JobStates \union {"none", "unreadable"}]

RequestType == [asked : 0..MaxTime, issued : 0..NotIssued]

LEMMA TypeOKIs ==
    TypeOK <=>
      /\ clock \in 0..MaxTime
      /\ cached \in [expiresAt : Times, expiry : Times]
      /\ requests \in Seq(RequestType)
      /\ calls \in [Calls -> CallType]
      /\ jobs \in [Jobs -> JobStates \union {"none"}]
      /\ rows \in [Jobs -> Statuses \union {"none"}]
      /\ overlapped \subseteq Jobs
BY DEF TypeOK, CallType, RequestType

LEMMA IdleType == Idle \in CallType
BY JobsAssumption DEF Idle, CallType, Times

\* Only a job that has ended well is shown as completed.
LEMMA MapStateIs ==
    ASSUME NEW s
    PROVE  MapState(s) \in Statuses /\ (MapState(s) = "COMPLETED" <=> s = "completed")
BY DEF MapState, Statuses

-----------------------------------------------------------------------------
LEMMA InitIInv == Init => IInv
<1> SUFFICES ASSUME Init PROVE IInv
  OBVIOUS
<1>1. TypeOK
  BY JobsAssumption, IdleType, TypeOKIs DEF Init, NoToken, Times, JobStates, Statuses
<1>2. TokenInv
  BY DEF Init, TokenInv, TokenShared, NoToken
<1>3. JobsInv
  BY DEF Init, JobsInv, CallInv, Idle
<1>4. QED
  BY <1>1, <1>2, <1>3 DEF IInv

-----------------------------------------------------------------------------
\* What the steps do to the calls: they start, wait for a token, or go on.

\* A call goes on without its job or row, or ends.
GoesOn(old, new) ==
    \/ new = Idle
    \/ new = old
    \/ /\ {old.at, new.at} \subseteq {"token", "taskforge"}
       /\ \E t \in Times : new = [old EXCEPT !.at = new.at, !.token = t]

LEMMA GoesOnIs ==
    ASSUME NEW old \in CallType, NEW new, GoesOn(old, new)
    PROVE  /\ new \in CallType
           /\ \/ new = Idle
              \/ /\ new.op = old.op /\ new.job = old.job
                 /\ new.row = old.row /\ new.state = old.state
                 /\ \/ new = old
                    \/ new.at \in {"token", "taskforge"} /\ old.at \in {"token", "taskforge"}
BY IdleType DEF GoesOn, CallType

\* Calls that go on keep what is known of jobs and rows, also when a call that
\* ends has enqueued its job.
LEMMA GoOnInv ==
    ASSUME IInv, UNCHANGED <<rows, overlapped>>,
           calls' \in [Calls -> CallType],
           \A c \in Calls : GoesOn(calls[c], calls'[c]),
           \/ UNCHANGED jobs
           \/ \E c \in Calls : /\ calls[c].op = "trigger" /\ calls'[c] = Idle
                               /\ calls[c].at = "taskforge"
                               /\ jobs' = [jobs EXCEPT ![calls[c].job] = "queued"]
    PROVE  JobsInv'
<1>1. /\ calls \in [Calls -> CallType]
      /\ jobs \in [Jobs -> JobStates \union {"none"}]
  BY TypeOKIs DEF IInv
<1>2. ASSUME NEW j \in Jobs
      PROVE  /\ jobs[j] # "none" => jobs'[j] # "none"
             /\ jobs[j] = "completed" => jobs'[j] = "completed"
             /\ rows[j] = "none" /\ jobs'[j] # jobs[j] =>
                  \E c \in Calls : /\ calls[c].op = "trigger" /\ calls[c].job = j
                                   /\ calls'[c] = Idle
  BY <1>1 DEF IInv, JobsInv, CallInv, TriggerInv
<1>3. ASSUME NEW c \in Calls
      PROVE  CallInv(calls[c])'
  <2>1. CallInv(calls[c])
    BY DEF IInv, JobsInv
  <2>2. CASE calls'[c] = Idle
    BY <2>2 DEF CallInv, Idle
  <2>3. CASE calls'[c] # Idle
    <3>1. /\ calls'[c].op = calls[c].op /\ calls'[c].job = calls[c].job
          /\ calls'[c].row = calls[c].row /\ calls'[c].state = calls[c].state
          /\ \/ calls'[c] = calls[c]
             \/ /\ calls'[c].at \in {"token", "taskforge"}
                /\ calls[c].at \in {"token", "taskforge"}
      BY <1>1, <2>3, GoesOnIs
    <3>2. calls[c].op = "trigger" => TriggerInv(calls[c])'
      <4> SUFFICES ASSUME calls[c].op = "trigger"
                   PROVE  TriggerInv(calls[c])'
        OBVIOUS
      <4>1. TriggerInv(calls[c]) /\ calls[c].job \in Jobs
        BY <2>1 DEF CallInv, TriggerInv
      <4>2. jobs'[calls[c].job] = jobs[calls[c].job]
        <5>1. ASSUME NEW d \in Calls, calls[d].op = "trigger",
                     calls[d].job = calls[c].job, calls'[d] = Idle
              PROVE  FALSE
          <6>1. d = c
            BY <5>1 DEF IInv, JobsInv
          <6>2. QED
            BY <2>3, <5>1, <6>1
        <5>2. QED
          BY <1>2, <4>1, <5>1 DEF TriggerInv
      <4>3. QED
        BY <3>1, <4>1, <4>2 DEF TriggerInv
    <3>3. calls[c].op = "refresh" => RefreshInv(calls[c])'
      BY <1>2, <2>1, <3>1 DEF CallInv, RefreshInv
    <3>4. calls'[c].at = "row" /\ calls'[c].state = "completed" =>
             jobs'[calls'[c].job] = "completed"
      BY <1>2, <2>1, <3>1 DEF CallInv, TriggerInv, RefreshInv, CallType
    <3>5. QED
      BY <1>1, <2>1, <2>3, <3>1, <3>2, <3>3, <3>4 DEF CallInv, CallType
  <2>4. QED
    BY <2>2, <2>3
<1>4. \A j \in Jobs : /\ rows'[j] # "none" => jobs'[j] # "none"
                      /\ rows'[j] = "COMPLETED" => jobs'[j] = "completed"
  BY <1>2 DEF IInv, JobsInv
<1>5. ASSUME NEW c \in Calls, NEW d \in Calls, c # d,
             calls'[c].job = calls'[d].job
      PROVE  /\ calls'[c].op # "trigger"
             /\ calls'[c].op = "refresh" /\ calls'[d].op = "refresh" =>
                   calls'[c].job \in overlapped'
  <2>1. CASE calls'[c] = Idle \/ calls'[d] = Idle
    <3>1. calls'[c] = Idle => calls'[c].op # "trigger" /\ calls'[c].op # "refresh"
      BY DEF Idle
    <3>2. calls'[d] = Idle => calls'[d].job = None /\ calls'[d].op # "refresh"
      BY DEF Idle
    <3>3. calls'[c].op = "trigger" => calls'[c].job \in Jobs
      BY <1>3 DEF CallInv, TriggerInv
    <3>4. QED
      BY <1>5, <2>1, <3>1, <3>2, <3>3, JobsAssumption
  <2>2. CASE calls'[c] # Idle /\ calls'[d] # Idle
    <3>1. /\ calls'[c].op = calls[c].op /\ calls'[c].job = calls[c].job
          /\ calls'[d].op = calls[d].op /\ calls'[d].job = calls[d].job
      BY <1>1, <2>2, GoesOnIs
    <3>2. QED
      BY <1>5, <3>1 DEF IInv, JobsInv
  <2>3. QED
    BY <2>1, <2>2
<1>6. QED
  BY <1>3, <1>4, <1>5 DEF JobsInv

\* A call that starts shares the request in flight.
LEMMA StartIs ==
    ASSUME IInv, NEW c \in Calls, NEW call \in CallType,
           GetAccessToken(c, call), UNCHANGED <<clock, cached>>
    PROVE  /\ calls[c] = Idle
           /\ calls' \in [Calls -> CallType]
           /\ \A d \in Calls \ {c} : calls'[d] = calls[d]
           /\ calls'[c].at \in {"token", "taskforge"}
           /\ calls'[c].op = call.op /\ calls'[c].job = call.job
           /\ calls'[c].row = call.row /\ calls'[c].state = call.state
           /\ requests' \in Seq(RequestType) /\ TokenInv'
<1>1. /\ calls \in [Calls -> CallType] /\ requests \in Seq(RequestType)
      /\ cached.expiry \in Times /\ clock \in 0..MaxTime /\ MaxTime \in Nat
  BY TypeOKIs, JobsAssumption DEF IInv
<1>2. PICK at \in {"token", "taskforge"}, token \in Times :
         calls' = [calls EXCEPT ![c] = [call EXCEPT !.at = at, !.token = token]]
  <2>1. CASE Usable
    BY <1>1, <2>1 DEF GetAccessToken
  <2>2. CASE ~Usable
    <3>1. [call EXCEPT !.at = "token"] = [call EXCEPT !.at = "token", !.token = call.token]
      BY DEF CallType
    <3>2. call.token \in Times
      BY DEF CallType
    <3>3. QED
      BY <2>2, <3>1, <3>2 DEF GetAccessToken
  <2>3. QED
    BY <2>1, <2>2
<1>3. requests' = requests \/ (requests = << >> /\
         requests' = <<[asked |-> clock, issued |-> NotIssued]>>)
  BY DEF GetAccessToken, AskOnce
<1>4. requests' \in Seq(RequestType) /\ TokenInv'
  <2>1. CASE requests' = requests
    BY <1>1, <2>1 DEF IInv, TokenInv, TokenShared
  <2>2. CASE requests' = <<[asked |-> clock, issued |-> NotIssued]>>
    <3>1. [asked |-> clock, issued |-> NotIssued] \in RequestType
      BY <1>1 DEF RequestType, NotIssued
    <3>2. clock <= NotIssued /\ clock <= clock
      BY <1>1 DEF NotIssued
    <3>3. QED
      BY <2>2, <3>1, <3>2 DEF IInv, TokenInv, TokenShared
  <2>3. QED
    BY <1>3, <2>1, <2>2
<1>5. /\ calls' \in [Calls -> CallType]
      /\ \A d \in Calls \ {c} : calls'[d] = calls[d]
      /\ calls'[c].at = at /\ calls'[c].op = call.op /\ calls'[c].job = call.job
      /\ calls'[c].row = call.row /\ calls'[c].state = call.state
  BY <1>1, <1>2 DEF CallType
<1>6. QED
  BY <1>4, <1>5 DEF GetAccessToken

\* A call that changes its job meets no trigger of the new one.
LEMMA OthersStay ==
    ASSUME IInv, NEW c \in Calls, overlapped \subseteq overlapped',
           \A d \in Calls \ {c} : calls'[d] = calls[d],
           \A d \in Calls : CallInv(calls[d])',
           \A j \in Jobs : /\ rows'[j] # "none" => jobs'[j] # "none"
                           /\ rows'[j] = "COMPLETED" => jobs'[j] = "completed",
           \A d \in Calls \ {c} : calls[d].job = calls'[c].job =>
              /\ calls'[c].op # "trigger" /\ calls[d].op # "trigger"
              /\ calls'[c].op = "refresh" /\ calls[d].op = "refresh" =>
                    calls[d].job \in overlapped'
    PROVE  JobsInv'
<1>1. ASSUME NEW a \in Calls, NEW b \in Calls, a # b, calls'[a].job = calls'[b].job
      PROVE  /\ calls'[a].op # "trigger"
             /\ calls'[a].op = "refresh" /\ calls'[b].op = "refresh" =>
                   calls'[a].job \in overlapped'
  <2>1. CASE a = c \/ b = c
    BY <1>1, <2>1
  <2>2. CASE a # c /\ b # c
    BY <1>1, <2>2 DEF IInv, JobsInv
  <2>3. QED
    BY <2>1, <2>2
<1>2. QED
  BY <1>1 DEF JobsInv

LEMMA TriggerIInv ==
    ASSUME IInv, NEW c \in Calls, NEW j \in Jobs, Trigger(c, j)
    PROVE  IInv'
<1> DEFINE call == [Idle EXCEPT !.op = "trigger", !.job = j]
<1>1. /\ call \in CallType /\ call.op = "trigger" /\ call.job = j
      /\ call.row = "none" /\ call.state = "none"
  BY IdleType DEF CallType, Idle
<1> HIDE DEF call
<1>2. /\ GetAccessToken(c, call) /\ jobs[j] = "none"
      /\ \A d \in Calls : calls[d].job # j
      /\ UNCHANGED <<clock, cached, jobs, rows, overlapped>>
  BY DEF Trigger, call
<1>3. /\ calls' \in [Calls -> CallType]
      /\ \A d \in Calls \ {c} : calls'[d] = calls[d]
      /\ calls'[c].at \in {"token", "taskforge"}
      /\ calls'[c].op = "trigger" /\ calls'[c].job = j
      /\ calls'[c].row = "none" /\ calls'[c].state = "none"
      /\ requests' \in Seq(RequestType) /\ TokenInv'
  BY <1>1, <1>2, StartIs
<1>4. TypeOK'
  BY <1>2, <1>3, TypeOKIs DEF IInv, TypeOK, CallType, RequestType
<1>5. \A d \in Calls : CallInv(calls[d])'
  <2>1. CallInv(calls[c])'
    BY <1>2, <1>3 DEF CallInv, TriggerInv, IInv, JobsInv
  <2>2. \A d \in Calls \ {c} : CallInv(calls[d])'
    BY <1>2, <1>3 DEF CallInv, TriggerInv, RefreshInv, IInv, JobsInv
  <2>3. QED
    BY <2>1, <2>2
<1>6. JobsInv'
  <2>1. \A i \in Jobs : /\ rows'[i] # "none" => jobs'[i] # "none"
                        /\ rows'[i] = "COMPLETED" => jobs'[i] = "completed"
    BY <1>2 DEF IInv, JobsInv
  <2>2. QED
    BY <1>2, <1>3, <1>5, <2>1, OthersStay
<1>7. QED
  BY <1>3, <1>4, <1>6 DEF IInv

LEMMA RefreshIInv ==
    ASSUME IInv, NEW c \in Calls, NEW j \in Jobs, Refresh(c, j)
    PROVE  IInv'
<1> DEFINE call == [Idle EXCEPT !.op = "refresh", !.job = j, !.row = rows[j]]
<1>1. /\ call \in CallType /\ call.op = "refresh" /\ call.job = j
      /\ call.row = rows[j] /\ call.state = "none"
  BY IdleType DEF CallType, Idle, IInv, TypeOK
<1> HIDE DEF call
<1>2. /\ GetAccessToken(c, call) /\ rows[j] # "none"
      /\ UNCHANGED <<clock, cached, jobs, rows>>
      /\ overlapped' = IF \E d \in Calls : calls[d].op = "refresh" /\ calls[d].job = j
                       THEN overlapped \union {j} ELSE overlapped
  BY DEF Refresh, call
<1>3. /\ calls' \in [Calls -> CallType]
      /\ \A d \in Calls \ {c} : calls'[d] = calls[d]
      /\ calls'[c].at \in {"token", "taskforge"}
      /\ calls'[c].op = "refresh" /\ calls'[c].job = j
      /\ calls'[c].row = rows[j] /\ calls'[c].state = "none"
      /\ requests' \in Seq(RequestType) /\ TokenInv'
  BY <1>1, <1>2, StartIs
<1>4. TypeOK'
  BY <1>2, <1>3, TypeOKIs DEF IInv, TypeOK, CallType, RequestType
<1>5. \A d \in Calls : CallInv(calls[d])'
  <2>1. CallInv(calls[c])'
    BY <1>2, <1>3 DEF CallInv, RefreshInv, IInv, JobsInv
  <2>2. \A d \in Calls \ {c} : CallInv(calls[d])'
    BY <1>2, <1>3 DEF CallInv, TriggerInv, RefreshInv, IInv, JobsInv
  <2>3. QED
    BY <2>1, <2>2
<1>6. JobsInv'
  <2>1. \A i \in Jobs : /\ rows'[i] # "none" => jobs'[i] # "none"
                        /\ rows'[i] = "COMPLETED" => jobs'[i] = "completed"
    BY <1>2 DEF IInv, JobsInv
  <2>2. ASSUME NEW d \in Calls, calls[d].job = j
        PROVE  calls[d].op # "trigger"
    BY <1>2, <2>2 DEF IInv, JobsInv, CallInv, TriggerInv
  <2>3. QED
    BY <1>2, <1>3, <1>5, <2>1, <2>2, OthersStay
<1>7. QED
  BY <1>3, <1>4, <1>6 DEF IInv

LEMMA ListIInv ==
    ASSUME IInv, NEW c \in Calls, ListJobs(c)
    PROVE  IInv'
<1> DEFINE call == [Idle EXCEPT !.op = "list"]
<1>1. /\ call \in CallType /\ call.op = "list" /\ call.state = "none"
      /\ call.job = None
  BY IdleType DEF CallType, Idle
<1> HIDE DEF call
<1>2. GetAccessToken(c, call) /\ UNCHANGED <<clock, cached, jobs, rows, overlapped>>
  BY DEF ListJobs, call
<1>3. /\ calls' \in [Calls -> CallType]
      /\ \A d \in Calls \ {c} : calls'[d] = calls[d]
      /\ calls'[c].at \in {"token", "taskforge"}
      /\ calls'[c].op = "list" /\ calls'[c].state = "none"
      /\ calls'[c].job = None
      /\ requests' \in Seq(RequestType) /\ TokenInv'
  BY <1>1, <1>2, StartIs
<1>4. TypeOK'
  BY <1>2, <1>3, TypeOKIs DEF IInv, TypeOK, CallType, RequestType
<1>5. \A d \in Calls : CallInv(calls[d])'
  BY <1>2, <1>3 DEF CallInv, TriggerInv, RefreshInv, IInv, JobsInv
<1>6. JobsInv'
  <2>1. \A i \in Jobs : /\ rows'[i] # "none" => jobs'[i] # "none"
                        /\ rows'[i] = "COMPLETED" => jobs'[i] = "completed"
    BY <1>2 DEF IInv, JobsInv
  <2>2. ASSUME NEW d \in Calls, calls[d].job = None
        PROVE  calls[d].op # "trigger"
    BY <2>2, JobsAssumption DEF IInv, JobsInv, CallInv, TriggerInv
  <2>3. QED
    BY <1>2, <1>3, <1>5, <2>1, <2>2, OthersStay
<1>7. QED
  BY <1>3, <1>4, <1>6 DEF IInv

-----------------------------------------------------------------------------
\* The token

LEMMA TokenIInv ==
    ASSUME IInv, Issue \/ TokenArrives \/ TokenFails
    PROVE  IInv'
<1>1. /\ requests \in Seq(RequestType) /\ Len(requests) <= 1
      /\ calls \in [Calls -> CallType] /\ clock \in 0..MaxTime
      /\ \A k \in DOMAIN requests :
            requests[k].asked <= clock /\ requests[k].asked <= requests[k].issued
      /\ cached.expiresAt <= cached.expiry
      /\ cached \in [expiresAt : Times, expiry : Times]
      /\ MaxTime \in Nat /\ TTL \in Nat
  BY TypeOKIs, JobsAssumption DEF IInv, TokenInv, TokenShared
<1>2. CASE Issue
  <2>1. PICK k \in DOMAIN requests : requests' = [requests EXCEPT ![k].issued = clock]
    BY <1>2 DEF Issue
  <2>2. UNCHANGED <<clock, cached, calls, jobs, rows, overlapped>>
    BY <1>2 DEF Issue
  <2>3. k \in 1..Len(requests) /\ requests[k] \in RequestType
    BY <1>1, <2>1
  <2>4. [requests[k] EXCEPT !.issued = clock] \in RequestType
    BY <1>1, <2>3 DEF RequestType, NotIssued
  <2>5. /\ requests' \in Seq(RequestType) /\ Len(requests') = Len(requests)
        /\ \A i \in 1..Len(requests) : requests'[i] =
              IF i = k THEN [requests[k] EXCEPT !.issued = clock] ELSE requests[i]
    <3>1. requests' = [requests EXCEPT ![k] = [requests[k] EXCEPT !.issued = clock]]
      BY <2>1
    <3>2. QED
      BY <1>1, <2>3, <2>4, <3>1, ExceptSeq
  <2>6. /\ [requests[k] EXCEPT !.issued = clock].asked = requests[k].asked
        /\ [requests[k] EXCEPT !.issued = clock].issued = clock
    BY <2>3 DEF RequestType
  <2>7. TokenInv'
    <3>1. DOMAIN requests' = 1..Len(requests) /\ DOMAIN requests = 1..Len(requests)
      BY <1>1, <2>5, LenProperties
    <3>2. \A i \in DOMAIN requests' :
             requests'[i].asked <= clock /\ requests'[i].asked <= requests'[i].issued
      BY <1>1, <2>5, <2>6, <3>1
    <3>3. QED
      BY <1>1, <2>2, <2>5, <3>2 DEF TokenInv, TokenShared
  <2>8. TypeOK'
    BY <2>2, <2>5, TypeOKIs DEF IInv, TypeOK, RequestType
  <2>9. JobsInv'
    BY <2>2 DEF IInv, JobsInv, CallInv, TriggerInv, RefreshInv
  <2>10. QED
    BY <2>7, <2>8, <2>9 DEF IInv
<1>3. CASE TokenArrives \/ TokenFails
  <2>1. /\ requests # << >> /\ requests' = Tail(requests)
        /\ UNCHANGED <<clock, jobs, rows, overlapped>>
    BY <1>3 DEF TokenArrives, TokenFails
  <2>2. requests' = << >>
    BY <1>1, <2>1
  <2> DEFINE r == Head(requests)
  <2>3. r \in RequestType /\ r.asked <= r.issued
    BY <1>1, <2>1
  <2>4. TokenArrives => r.issued + TTL \in Times /\ r.asked + TTL \in Times
    <3>1. TokenArrives => r.issued # NotIssued
      BY DEF TokenArrives
    <3>2. QED
      BY <1>1, <2>3, <3>1 DEF RequestType, NotIssued, Times
  <2>5. TokenArrives =>
           cached' = [expiresAt |-> r.asked + TTL, expiry |-> r.issued + TTL]
    BY DEF TokenArrives, ExpiresAt
  <2>6. /\ cached' \in [expiresAt : Times, expiry : Times]
        /\ cached'.expiresAt <= cached'.expiry
    <3>1. CASE TokenArrives
      BY <1>1, <2>3, <2>4, <2>5, <3>1 DEF RequestType, NotIssued
    <3>2. CASE TokenFails
      BY <1>1, <3>2 DEF TokenFails
    <3>3. QED
      BY <1>3, <3>1, <3>2
  <2>7. TokenInv'
    <3>1. Len(requests') <= 1 /\ DOMAIN requests' = {}
      BY <2>2
    <3>2. QED
      BY <2>6, <3>1 DEF TokenInv, TokenShared
  <2>8. /\ calls' \in [Calls -> CallType]
        /\ \A c \in Calls : GoesOn(calls[c], calls'[c])
    <3>1. CASE TokenArrives
      <4>1. calls' = [c \in Calls |-> IF Waiting(c)
               THEN [calls[c] EXCEPT !.at = "taskforge", !.token = r.issued + TTL]
               ELSE calls[c]]
        BY <3>1 DEF TokenArrives
      <4> HIDE DEF r
      <4>2. QED
        BY <1>1, <2>4, <3>1, <4>1 DEF GoesOn, Waiting, CallType
    <3>2. CASE TokenFails
      BY <1>1, <3>2, IdleType DEF TokenFails, GoesOn
    <3>3. QED
      BY <1>3, <3>1, <3>2
  <2>9. JobsInv'
    BY <2>1, <2>8, GoOnInv
  <2>10. TypeOK'
    <3>1. requests' \in Seq(RequestType)
      BY <2>2
    <3>2. QED
      BY <2>1, <2>6, <2>8, <3>1, TypeOKIs DEF IInv, TypeOK, CallType, RequestType
  <2>11. QED
    BY <2>7, <2>9, <2>10 DEF IInv
<1>4. QED
  BY <1>2, <1>3

-----------------------------------------------------------------------------
\* Steps that leave the token and the requests alone
LEMMA SameToken ==
    ASSUME IInv, UNCHANGED <<clock, cached, requests>>
    PROVE  TokenInv'
BY DEF IInv, TokenInv, TokenShared

\* Taskforge serves a call: a listing ends, another waits for its row.
LEMMA ServeIInv ==
    ASSUME IInv, NEW c \in Calls, Serve(c)
    PROVE  IInv'
<1> DEFINE j == calls[c].job
<1>1. /\ calls \in [Calls -> CallType]
      /\ jobs \in [Jobs -> JobStates \union {"none"}]
      /\ CallInv(calls[c]) /\ calls[c] \in CallType
  BY TypeOKIs DEF IInv, JobsInv
<1>2. /\ calls[c].at = "taskforge" /\ calls[c].op # "none"
      /\ UNCHANGED <<clock, cached, requests, rows, overlapped>>
  BY <1>1 DEF Serve, AtTaskforge, CallInv
<1>3. CASE calls[c].op = "list"
  <2>1. calls' = [calls EXCEPT ![c] = Idle] /\ UNCHANGED jobs
    BY <1>3 DEF Serve
  <2>2. /\ calls' \in [Calls -> CallType]
        /\ \A d \in Calls : GoesOn(calls[d], calls'[d])
    BY <1>1, <2>1, IdleType DEF GoesOn
  <2>3. JobsInv' /\ TokenInv'
    BY <1>2, <2>1, <2>2, GoOnInv, SameToken
  <2>4. TypeOK'
    BY <1>2, <2>1, <2>2, TypeOKIs DEF IInv, TypeOK, CallType
  <2>5. QED
    BY <2>3, <2>4 DEF IInv
<1>4. CASE calls[c].op # "list"
  <2>1. calls[c].op \in {"trigger", "refresh"} /\ j \in Jobs
    BY <1>1, <1>2, <1>4 DEF CallType, CallInv, TriggerInv, RefreshInv
  <2>2. PICK s \in {jobs'[j], "unreadable"} :
           calls' = [calls EXCEPT ![c] = [calls[c] EXCEPT !.at = "row", !.state = s]]
    BY <1>4 DEF Serve, Served
  <2>3. jobs' = IF calls[c].op = "trigger" THEN [jobs EXCEPT ![j] = "queued"] ELSE jobs
    BY DEF Serve
  <2>4. /\ jobs' \in [Jobs -> JobStates \union {"none"}]
        /\ s \in JobStates \union {"none", "unreadable"}
    BY <1>1, <2>1, <2>2, <2>3 DEF JobStates
  <2>5. /\ calls' \in [Calls -> CallType]
        /\ \A d \in Calls \ {c} : calls'[d] = calls[d]
        /\ calls'[c].at = "row" /\ calls'[c].state = s
        /\ calls'[c].op = calls[c].op /\ calls'[c].job = j
        /\ calls'[c].row = calls[c].row
    BY <1>1, <2>2, <2>4 DEF CallType
  <2>6. TypeOK'
    BY <1>2, <2>4, <2>5, TypeOKIs DEF IInv, TypeOK, CallType
  <2>7. calls[c].op = "trigger" => jobs[j] = "none" /\ jobs'[j] = "queued"
    BY <1>1, <1>2, <2>1, <2>3 DEF CallInv, TriggerInv
  <2>8. CallInv(calls[c])'
    <3>1. CASE calls[c].op = "trigger"
      BY <1>1, <1>2, <2>1, <2>2, <2>5, <2>7, <3>1 DEF CallInv, TriggerInv
    <3>2. CASE calls[c].op = "refresh"
      BY <1>1, <1>2, <2>1, <2>2, <2>3, <2>5, <3>2 DEF CallInv, RefreshInv
    <3>3. QED
      BY <2>1, <3>1, <3>2
  <2>9. ASSUME NEW d \in Calls \ {c}
        PROVE  CallInv(calls[d])'
    <3>1. CallInv(calls[d]) /\ calls'[d] = calls[d]
      BY <2>5 DEF IInv, JobsInv
    <3>2. calls[d].op = "trigger" /\ calls[c].op = "trigger" => calls[d].job # j
      BY DEF IInv, JobsInv
    <3>3. \A i \in Jobs : jobs'[i] # jobs[i] =>
             i = j /\ jobs[i] = "none" /\ calls[c].op = "trigger"
      BY <1>1, <2>1, <2>3, <2>7
    <3>4. calls[d].op = "trigger" => TriggerInv(calls[d])'
      BY <1>2, <3>1, <3>2, <3>3 DEF CallInv, TriggerInv
    <3>5. calls[d].op = "refresh" => RefreshInv(calls[d])'
      BY <1>2, <3>1, <3>3 DEF CallInv, RefreshInv
    <3>6. calls[d].at = "row" => calls[d].op \in {"trigger", "refresh"} /\ calls[d].job \in Jobs
      BY <1>1, <3>1 DEF CallInv, CallType, TriggerInv, RefreshInv
    <3>7. calls[d].at = "row" /\ calls[d].state = "completed" =>
             jobs'[calls[d].job] = "completed"
      BY <3>1, <3>3, <3>6 DEF CallInv
    <3>8. QED
      BY <3>1, <3>4, <3>5, <3>7 DEF CallInv
  <2>10. \A i \in Jobs : /\ rows'[i] # "none" => jobs'[i] # "none"
                         /\ rows'[i] = "COMPLETED" => jobs'[i] = "completed"
    BY <1>1, <1>2, <2>1, <2>3, <2>7 DEF IInv, JobsInv
  <2>11. JobsInv'
    BY <1>2, <2>5, <2>8, <2>9, <2>10 DEF IInv, JobsInv
  <2>12. QED
    BY <1>2, <2>6, <2>11, SameToken DEF IInv
<1>5. QED
  BY <1>3, <1>4

LEMMA ServeFailsIInv ==
    ASSUME IInv, NEW c \in Calls, ServeFails(c)
    PROVE  IInv'
<1>1. /\ calls \in [Calls -> CallType]
      /\ jobs \in [Jobs -> JobStates \union {"none"}]
  BY TypeOKIs DEF IInv
<1>2. /\ calls[c].at = "taskforge"
      /\ calls' = [calls EXCEPT ![c] = Idle]
      /\ \/ UNCHANGED jobs
         \/ /\ calls[c].op = "trigger"
            /\ jobs' = [jobs EXCEPT ![calls[c].job] = "queued"]
      /\ UNCHANGED <<clock, cached, requests, rows, overlapped>>
  BY DEF ServeFails, AtTaskforge, End
<1>3. /\ calls' \in [Calls -> CallType] /\ calls'[c] = Idle
      /\ \A d \in Calls : GoesOn(calls[d], calls'[d])
  BY <1>1, <1>2, IdleType DEF GoesOn
<1>4. jobs' \in [Jobs -> JobStates \union {"none"}]
  BY <1>1, <1>2 DEF JobStates
<1>5. JobsInv' /\ TokenInv'
  BY <1>2, <1>3, GoOnInv, SameToken
<1>6. TypeOK'
  BY <1>2, <1>3, <1>4, TypeOKIs DEF IInv, TypeOK, CallType
<1>7. QED
  BY <1>5, <1>6 DEF IInv

\* The row is created for the one call that triggered its job.
LEMMA CreateIInv ==
    ASSUME IInv, NEW c \in Calls, Create(c)
    PROVE  IInv'
<1> DEFINE j == calls[c].job
<1>1. /\ calls \in [Calls -> CallType]
      /\ rows \in [Jobs -> Statuses \union {"none"}]
      /\ CallInv(calls[c])
  BY TypeOKIs DEF IInv, JobsInv
<1>2. /\ calls[c].at = "row" /\ calls[c].op = "trigger"
      /\ calls' = [calls EXCEPT ![c] = Idle]
      /\ \/ UNCHANGED rows
         \/ rows' = [rows EXCEPT ![j] = MapState(calls[c].state)]
      /\ UNCHANGED <<clock, cached, requests, jobs, overlapped>>
  BY DEF Create, End
<1>3. j \in Jobs /\ rows[j] = "none" /\ jobs[j] # "none"
  BY <1>1, <1>2 DEF CallInv, TriggerInv
<1>4. /\ rows' \in [Jobs -> Statuses \union {"none"}]
      /\ \A i \in Jobs \ {j} : rows'[i] = rows[i]
      /\ rows'[j] = "COMPLETED" => calls[c].state = "completed"
  BY <1>1, <1>2, <1>3, MapStateIs
<1>5. /\ calls' \in [Calls -> CallType] /\ calls'[c] = Idle
      /\ \A d \in Calls \ {c} : calls'[d] = calls[d]
  BY <1>1, <1>2, IdleType
<1>6. TypeOK'
  BY <1>2, <1>4, <1>5, TypeOKIs DEF IInv, TypeOK, CallType
<1>7. \A d \in Calls \ {c} : calls[d].job # j
  BY <1>2 DEF IInv, JobsInv
<1>8. \A d \in Calls : CallInv(calls[d])'
  <2>1. CallInv(calls[c])'
    BY <1>5 DEF CallInv, Idle
  <2>2. ASSUME NEW d \in Calls \ {c}
        PROVE  CallInv(calls[d])'
    <3>1. CallInv(calls[d]) /\ calls'[d] = calls[d] /\ calls[d].job # j
      BY <1>5, <1>7 DEF IInv, JobsInv
    <3>2. QED
      BY <1>2, <1>4, <3>1 DEF CallInv, TriggerInv, RefreshInv
  <2>3. QED
    BY <2>1, <2>2
<1>9. \A i \in Jobs : /\ rows'[i] # "none" => jobs'[i] # "none"
                      /\ rows'[i] = "COMPLETED" => jobs'[i] = "completed"
  BY <1>1, <1>2, <1>3, <1>4 DEF IInv, JobsInv, CallInv
<1>10. JobsInv'
  <2>1. ASSUME NEW d \in Calls, calls[d].job = None
        PROVE  calls[d].op # "trigger"
    BY <2>1, JobsAssumption DEF IInv, JobsInv, CallInv, TriggerInv
  <2>2. calls'[c].job = None /\ calls'[c].op = "none"
    BY <1>5 DEF Idle
  <2>3. QED
    BY <1>2, <1>5, <1>8, <1>9, <2>1, <2>2, OthersStay
<1>11. QED
  BY <1>2, <1>6, <1>10, SameToken DEF IInv

\* The row is updated to what taskforge said, if it is still there and was read
\* as something else.
LEMMA UpdateIInv ==
    ASSUME IInv, NEW c \in Calls, Update(c)
    PROVE  IInv'
<1> DEFINE j == calls[c].job
<1>1. /\ calls \in [Calls -> CallType]
      /\ rows \in [Jobs -> Statuses \union {"none"}]
      /\ overlapped \subseteq Jobs
      /\ CallInv(calls[c])
  BY TypeOKIs DEF IInv, JobsInv
<1>2. /\ calls[c].at = "row" /\ calls[c].op = "refresh"
      /\ calls' = [calls EXCEPT ![c] = Idle]
      /\ \/ UNCHANGED rows
         \/ rows[j] # "none" /\ rows' = [rows EXCEPT ![j] = MapState(calls[c].state)]
      /\ UNCHANGED <<clock, cached, requests, jobs>>
      /\ overlapped' =
           IF \E d \in Calls \ {c} : calls[d].op = "refresh" /\ calls[d].job = j
           THEN overlapped ELSE overlapped \ {j}
  BY DEF Update, End, NextStatus
<1>3. j \in Jobs
  BY <1>1, <1>2 DEF CallInv, RefreshInv
<1>4. /\ rows' \in [Jobs -> Statuses \union {"none"}]
      /\ \A i \in Jobs \ {j} : rows'[i] = rows[i]
      /\ rows[j] = "none" => rows'[j] = "none"
      /\ rows'[j] = "COMPLETED" => calls[c].state = "completed" \/ rows[j] = "COMPLETED"
  BY <1>1, <1>2, <1>3, MapStateIs
<1>5. /\ calls' \in [Calls -> CallType] /\ calls'[c] = Idle
      /\ \A d \in Calls \ {c} : calls'[d] = calls[d]
  BY <1>1, <1>2, IdleType
<1>6. TypeOK'
  BY <1>1, <1>2, <1>4, <1>5, TypeOKIs DEF IInv, TypeOK, CallType
<1>7. ASSUME NEW d \in Calls \ {c}
      PROVE  /\ calls[d].op = "refresh" /\ calls[d].job \notin overlapped' =>
                   calls[d].job # j /\ calls[d].job \notin overlapped
             /\ calls[d].op = "trigger" => calls[d].job # j
  BY <1>2 DEF IInv, JobsInv
<1>8. \A d \in Calls : CallInv(calls[d])'
  <2>1. CallInv(calls[c])'
    BY <1>5 DEF CallInv, Idle
  <2>2. ASSUME NEW d \in Calls \ {c}
        PROVE  CallInv(calls[d])'
    <3>1. CallInv(calls[d]) /\ calls'[d] = calls[d]
      BY <1>5 DEF IInv, JobsInv
    <3>2. calls[d].op = "trigger" => TriggerInv(calls[d])'
      BY <1>2, <1>4, <1>7, <3>1 DEF CallInv, TriggerInv
    <3>3. calls[d].op = "refresh" => RefreshInv(calls[d])'
      BY <1>2, <1>4, <1>7, <3>1 DEF CallInv, RefreshInv
    <3>4. QED
      BY <1>2, <3>1, <3>2, <3>3 DEF CallInv
  <2>3. QED
    BY <2>1, <2>2
<1>9. \A i \in Jobs : /\ rows'[i] # "none" => jobs'[i] # "none"
                      /\ rows'[i] = "COMPLETED" => jobs'[i] = "completed"
  <2>1. calls[c].state = "completed" => jobs[j] = "completed"
    BY <1>1, <1>2 DEF CallInv
  <2>2. QED
    BY <1>2, <1>3, <1>4, <2>1 DEF IInv, JobsInv
<1>10. JobsInv'
  <2>1. ASSUME NEW a \in Calls, NEW b \in Calls, a # b, calls'[a].job = calls'[b].job
        PROVE  /\ calls'[a].op # "trigger"
               /\ calls'[a].op = "refresh" /\ calls'[b].op = "refresh" =>
                     calls'[a].job \in overlapped'
    <3>1. CASE a = c
      BY <1>5, <3>1 DEF Idle
    <3>2. CASE b = c
      <4>1. calls'[b].job = None /\ calls'[b].op # "refresh"
        BY <1>5, <3>2 DEF Idle
      <4>2. calls'[a].op = "trigger" => calls'[a].job \in Jobs
        BY <1>8 DEF CallInv, TriggerInv
      <4>3. QED
        BY <2>1, <4>1, <4>2, JobsAssumption
    <3>3. CASE a # c /\ b # c
      <4>1. /\ calls[a].op # "trigger"
            /\ calls[a].op = "refresh" /\ calls[b].op = "refresh" =>
                  calls[a].job \in overlapped
        BY <1>5, <2>1, <3>3 DEF IInv, JobsInv
      <4>2. QED
        BY <1>2, <1>5, <3>3, <4>1
    <3>4. QED
      BY <3>1, <3>2, <3>3
  <2>2. QED
    BY <1>8, <1>9, <2>1 DEF JobsInv
<1>11. QED
  BY <1>2, <1>6, <1>10, SameToken DEF IInv

\* The worker moves a job, and never one that has completed.
LEMMA WorkIInv ==
    ASSUME IInv, NEW j \in Jobs, Work(j)
    PROVE  IInv'
<1>1. /\ calls \in [Calls -> CallType]
      /\ jobs \in [Jobs -> JobStates \union {"none"}]
  BY TypeOKIs DEF IInv
<1>2. PICK s \in JobStates : <<jobs[j], s>> \in Moves /\ jobs' = [jobs EXCEPT ![j] = s]
  BY DEF Work
<1>3. UNCHANGED <<clock, cached, requests, calls, rows, overlapped>>
  BY DEF Work
<1>4. /\ jobs' \in [Jobs -> JobStates \union {"none"}]
      /\ \A i \in Jobs : jobs'[i] # jobs[i] => jobs[i] # "none" /\ jobs[i] # "completed"
                                               /\ jobs'[i] # "none"
  BY <1>1, <1>2 DEF Moves, JobStates
<1>5. TypeOK'
  BY <1>3, <1>4 DEF IInv, TypeOK
<1>6. ASSUME NEW c \in Calls
      PROVE  CallInv(calls[c])'
  <2>1. CallInv(calls[c])
    BY DEF IInv, JobsInv
  <2>2. calls[c].op = "trigger" => TriggerInv(calls[c])'
    BY <1>3, <1>4, <2>1 DEF CallInv, TriggerInv
  <2>3. calls[c].op = "refresh" => RefreshInv(calls[c])'
    BY <1>3, <1>4, <2>1 DEF CallInv, RefreshInv
  <2>4. calls[c].at = "row" => calls[c].job \in Jobs
    BY <1>1, <2>1 DEF CallInv, CallType, TriggerInv, RefreshInv
  <2>5. QED
    BY <1>3, <1>4, <2>1, <2>2, <2>3, <2>4 DEF CallInv
<1>7. JobsInv'
  BY <1>3, <1>4, <1>6 DEF IInv, JobsInv
<1>8. QED
  BY <1>3, <1>5, <1>7, SameToken DEF IInv

\* A purged row is none that a call relies on: it may always be missing.
LEMMA PurgeIInv ==
    ASSUME IInv, NEW j \in Jobs, PurgeJobRuns(j)
    PROVE  IInv'
<1>1. rows \in [Jobs -> Statuses \union {"none"}] /\ calls \in [Calls -> CallType]
  BY TypeOKIs DEF IInv
<1>2. /\ rows' = [rows EXCEPT ![j] = "none"]
      /\ UNCHANGED <<clock, cached, requests, calls, jobs, overlapped>>
  BY DEF PurgeJobRuns
<1>3. /\ rows' \in [Jobs -> Statuses \union {"none"}]
      /\ \A i \in Jobs : rows'[i] \in {rows[i], "none"}
  BY <1>1, <1>2
<1>4. TypeOK'
  BY <1>2, <1>3 DEF IInv, TypeOK
<1>5. ASSUME NEW c \in Calls
      PROVE  CallInv(calls[c])'
  <2>1. CallInv(calls[c])
    BY DEF IInv, JobsInv
  <2>2. QED
    BY <1>2, <1>3, <2>1 DEF CallInv, TriggerInv, RefreshInv
<1>6. JobsInv'
  BY <1>2, <1>3, <1>5 DEF IInv, JobsInv
<1>7. QED
  BY <1>2, <1>4, <1>6, SameToken DEF IInv

LEMMA TickIInv ==
    ASSUME IInv, Tick
    PROVE  IInv'
<1>1. /\ clock' = clock + 1 /\ clock' \in 0..MaxTime
      /\ UNCHANGED <<cached, requests, calls, jobs, rows, overlapped>>
  BY JobsAssumption DEF Tick, IInv, TypeOK
<1>2. TypeOK'
  BY <1>1 DEF IInv, TypeOK
<1>3. JobsInv'
  BY <1>1 DEF IInv, JobsInv, CallInv, TriggerInv, RefreshInv
<1>4. TokenInv'
  <2>1. /\ requests \in Seq(RequestType) /\ clock \in Nat
        /\ DOMAIN requests = 1..Len(requests)
    BY TypeOKIs, JobsAssumption DEF IInv
  <2>2. ASSUME NEW k \in DOMAIN requests
        PROVE  requests[k].asked \in Nat
    <3>1. requests[k] \in RequestType
      BY <2>1, ElementOfSeq
    <3>2. QED
      BY <3>1, JobsAssumption DEF RequestType
  <2>3. QED
    BY <1>1, <2>1, <2>2 DEF IInv, TokenInv, TokenShared
<1>5. QED
  BY <1>2, <1>3, <1>4 DEF IInv

LEMMA NextIInv == IInv /\ [Next]_vars => IInv'
<1> SUFFICES ASSUME IInv, [Next]_vars PROVE IInv'
  OBVIOUS
<1>1. ASSUME NEW c \in Calls, ListJobs(c) \/ Step(c)
      PROVE  IInv'
  BY <1>1, ListIInv, ServeIInv, ServeFailsIInv, CreateIInv, UpdateIInv DEF Step
<1>2. ASSUME NEW c \in Calls, NEW j \in Jobs, Trigger(c, j) \/ Refresh(c, j)
      PROVE  IInv'
  BY <1>2, TriggerIInv, RefreshIInv
<1>3. CASE Issue \/ TokenArrives \/ TokenFails
  BY <1>3, TokenIInv
<1>4. CASE Tick
  BY <1>4, TickIInv
<1>5. ASSUME NEW j \in Jobs, Work(j) \/ PurgeJobRuns(j)
      PROVE  IInv'
  BY <1>5, WorkIInv, PurgeIInv
<1>6. CASE UNCHANGED vars
  <2>1. TypeOK' /\ TokenInv'
    BY <1>6, SameToken DEF vars, IInv, TypeOK
  <2>2. JobsInv'
    BY <1>6 DEF vars, IInv, JobsInv, CallInv, TriggerInv, RefreshInv
  <2>3. QED
    BY <2>1, <2>2 DEF IInv
<1>7. QED
  BY <1>1, <1>2, <1>3, <1>4, <1>5, <1>6 DEF Next

-----------------------------------------------------------------------------
\* The inductive invariant holds in every state.
THEOREM Invariant == FairSpec => []IInv
BY InitIInv, NextIInv, PTL DEF FairSpec

\* The client, its calls and the rows keep their types.
THEOREM TypeCorrect == FairSpec => []TypeOK
<1>1. IInv => TypeOK
  BY DEF IInv
<1>2. QED
  BY <1>1, Invariant, PTL

\* getAccessToken: one token request for all the calls that need one, and the
\* cached expiry is never later than the true one.
THEOREM OneTokenRequest == FairSpec => []TokenShared
<1>1. IInv => TokenShared
  BY DEF IInv, TokenInv
<1>2. QED
  BY <1>1, Invariant, PTL

\* A refresh takes back the row of a completed run only when another refresh of
\* the run overlaps it, or when it could not read what taskforge said.
LEMMA CompletedStep ==
    ASSUME IInv, [Next]_vars, NEW j \in Jobs,
           rows[j] = "COMPLETED", j \notin overlapped
    PROVE  \/ rows'[j] \in {"COMPLETED", "none"}
           \/ \E c \in Calls : calls[c].job = j /\ calls[c].state = "unreadable"
<1>1. /\ calls \in [Calls -> CallType]
      /\ rows \in [Jobs -> Statuses \union {"none"}]
      /\ \A c \in Calls : CallInv(calls[c])
  BY TypeOKIs DEF IInv, JobsInv
<1>2. ASSUME NEW c \in Calls, Create(c), rows'[j] # rows[j]
      PROVE  FALSE
  <2>1. rows[calls[c].job] = "none" /\ calls[c].job \in Jobs
    BY <1>1, <1>2 DEF Create, CallInv, TriggerInv
  <2>2. calls[c].job # j
    BY <2>1
  <2>3. QED
    BY <1>1, <1>2, <2>2 DEF Create
<1>3. ASSUME NEW c \in Calls, Update(c), rows'[j] # rows[j]
      PROVE  calls[c].job = j /\ calls[c].state = "unreadable"
  <2>1. /\ calls[c].at = "row" /\ RefreshInv(calls[c])
        /\ NextStatus(c) # calls[c].row
        /\ rows' = [rows EXCEPT ![calls[c].job] = NextStatus(c)]
    BY <1>1, <1>3 DEF Update, CallInv
  <2>2. calls[c].job = j
    BY <1>1, <1>3, <2>1
  <2>3. calls[c].row = "COMPLETED"
    BY <2>1, <2>2 DEF RefreshInv
  <2>4. calls[c].state # "completed"
    BY <2>1, <2>3, MapStateIs DEF NextStatus
  <2>5. QED
    BY <2>1, <2>2, <2>3, <2>4 DEF RefreshInv
<1>4. ASSUME NEW c \in Calls, ListJobs(c) \/ Step(c)
      PROVE  \/ rows'[j] = rows[j]
             \/ \E d \in Calls : calls[d].job = j /\ calls[d].state = "unreadable"
  BY <1>2, <1>3, <1>4 DEF Step, ListJobs, Serve, ServeFails
<1>5. ASSUME NEW i \in Jobs, Work(i) \/ PurgeJobRuns(i)
      PROVE  rows'[j] \in {rows[j], "none"}
  BY <1>1, <1>5 DEF Work, PurgeJobRuns
<1>6. QED
  BY <1>4, <1>5 DEF Next, Trigger, Refresh, Issue, TokenArrives, TokenFails, Tick, vars

THEOREM CompletedIsKept == FairSpec => EndIsKept
<1>1. IInv /\ [Next]_vars =>
        [\A j \in Jobs :
          rows[j] = "COMPLETED" /\ j \notin overlapped
             => \/ rows'[j] \in {"COMPLETED", "none"}
                \/ \E c \in Calls : calls[c].job = j /\ calls[c].state = "unreadable"]_vars
  BY CompletedStep
<1>2. QED
  BY <1>1, Invariant, PTL DEF FairSpec, EndIsKept
=============================================================================
