--------------------------- MODULE TaskforgeJobs ---------------------------
(***************************************************************************)
(* Work delegated to taskforge: taskforge-client.service.ts, which shares  *)
(* one cached access token between all its callers, and jobs.service.ts,   *)
(* which enqueues a job, keeps a row of it and refreshes the row.          *)
(*                                                                         *)
(* Every call of the client awaits a token, then taskforge, then (but for  *)
(* the listings of taskforge-status and of the health check) the database. *)
(***************************************************************************)
EXTENDS Naturals, Sequences, FiniteSets

CONSTANTS Calls,     \* bound: calls in flight
          Jobs,      \* bound: jobs enqueued
          TTL,       \* expires_in of a token, in ticks
          Margin,    \* TOKEN_REFRESH_MARGIN_MS, in ticks
          MaxTime,   \* bound: ticks of the clock
          None

ASSUME JobsAssumption ==
    /\ {TTL, Margin, MaxTime} \subseteq Nat
    /\ None \notin Jobs

VARIABLES
    clock,
    cached,       \* cachedToken: what it believes (expiresAt) and what is (expiry)
    requests,     \* POST /oauth/token in flight: when asked, when issued
    calls,        \* where each call is
    jobs,         \* taskforge: the state of each job
    rows,         \* JobRun: the status of each job's row
    overlapped    \* jobs with two refreshes in flight at once

vars == <<clock, cached, requests, calls, jobs, rows, overlapped>>

Times == 0..MaxTime + TTL
NoToken == [expiresAt |-> 0, expiry |-> 0]
NotIssued == MaxTime + 1

JobStates == {"queued", "active", "delayed", "completed", "failed", "dlq"}
Statuses == {"PENDING", "RUNNING", "COMPLETED", "FAILED"}

\* A call: the job it is about, the expiry of its token, the status of the row
\* it has read, the state taskforge has answered
Idle == [op |-> "none", at |-> "idle", job |-> None, token |-> 0,
         row |-> "none", state |-> "none"]

TypeOK ==
    /\ clock \in 0..MaxTime
    /\ cached \in [expiresAt : Times, expiry : Times]
    /\ requests \in Seq([asked : 0..MaxTime, issued : 0..NotIssued])
    /\ calls \in [Calls -> [op : {"none", "trigger", "refresh", "list"},
                            at : {"idle", "token", "taskforge", "row"},
                            job : Jobs \union {None}, token : Times,
                            row : Statuses \union {"none"},
                            state : JobStates \union {"none", "unreadable"}]]
    /\ jobs \in [Jobs -> JobStates \union {"none"}]
    /\ rows \in [Jobs -> Statuses \union {"none"}]
    /\ overlapped \subseteq Jobs

Init ==
    /\ clock = 0
    /\ cached = NoToken
    /\ requests = << >>
    /\ calls = [c \in Calls |-> Idle]
    /\ jobs = [j \in Jobs |-> "none"]
    /\ rows = [j \in Jobs |-> "none"]
    /\ overlapped = {}

MapState(state) ==
    CASE state = "active" -> "RUNNING"
      [] state = "completed" -> "COMPLETED"
      [] state \in {"failed", "dlq"} -> "FAILED"
      [] OTHER -> "PENDING"

-----------------------------------------------------------------------------
\* getAccessToken: the cached token, or the request in flight, or a new one

Usable == cached.expiresAt > clock + Margin
AskEach == requests' = Append(requests, [asked |-> clock, issued |-> NotIssued])
AskOnce ==
    requests' = IF requests = << >>
                THEN <<[asked |-> clock, issued |-> NotIssued]>> ELSE requests

GetAccessToken(c, call) ==
    /\ calls[c] = Idle
    /\ IF Usable
       THEN /\ calls' = [calls EXCEPT
                  ![c] = [call EXCEPT !.at = "taskforge", !.token = cached.expiry]]
            /\ UNCHANGED requests
       ELSE /\ calls' = [calls EXCEPT ![c] = [call EXCEPT !.at = "token"]]
            /\ AskOnce

\* The auth service issues the token, which expires TTL from that moment...
Issue ==
    /\ \E k \in DOMAIN requests :
          /\ requests[k].issued = NotIssued
          /\ requests' = [requests EXCEPT ![k].issued = clock]
    /\ UNCHANGED <<clock, cached, calls, jobs, rows, overlapped>>

\* ...and fetchAccessToken counts its expiry from before the request.
ExpiresAt(r) == r.asked + TTL

FirstWaiting(c) ==       \* mutant of Waiting
    c = CHOOSE d \in Calls : calls[d].at = "token"
Waiting(c) == calls[c].at = "token"
TokenArrives ==
    /\ requests # << >> /\ Head(requests).issued # NotIssued
    /\ LET r == Head(requests) IN
       /\ cached' = [expiresAt |-> ExpiresAt(r), expiry |-> r.issued + TTL]
       /\ calls' = [c \in Calls |->
             IF Waiting(c)
             THEN [calls[c] EXCEPT !.at = "taskforge", !.token = r.issued + TTL]
             ELSE calls[c]]
    /\ requests' = Tail(requests)
    /\ UNCHANGED <<clock, jobs, rows, overlapped>>

\* No token: every call that awaits it fails, and the next one asks again.
TokenFails ==
    /\ requests # << >>
    /\ requests' = Tail(requests)
    /\ calls' = [c \in Calls |-> IF Waiting(c) THEN Idle ELSE calls[c]]
    /\ UNCHANGED <<clock, cached, jobs, rows, overlapped>>

-----------------------------------------------------------------------------
\* The calls

\* triggerDemo, enqueueDemoJob: a job of its own for every call
Trigger(c, j) ==
    /\ jobs[j] = "none" /\ \A d \in Calls : calls[d].job # j
    /\ GetAccessToken(c, [Idle EXCEPT !.op = "trigger", !.job = j])
    /\ UNCHANGED <<clock, cached, jobs, rows, overlapped>>

\* refreshStatus: the row is read before taskforge is asked
Refresh(c, j) ==
    /\ rows[j] # "none"
    /\ GetAccessToken(c, [Idle EXCEPT !.op = "refresh", !.job = j, !.row = rows[j]])
    /\ overlapped' = IF \E d \in Calls : calls[d].op = "refresh" /\ calls[d].job = j
                     THEN overlapped \union {j} ELSE overlapped
    /\ UNCHANGED <<clock, cached, jobs, rows>>

\* listJobs: one of getStatus()'s parallel reads, or the health check
ListJobs(c) ==
    /\ GetAccessToken(c, [Idle EXCEPT !.op = "list"])
    /\ UNCHANGED <<clock, cached, jobs, rows, overlapped>>

\* request(): taskforge serves the call while its token lasts.  A body that
\* breaks off, or is no JSON, is read as {}.
End(c) == calls' = [calls EXCEPT ![c] = Idle]
AtTaskforge(c) == calls[c].at = "taskforge"
Served(c) ==
    {[calls[c] EXCEPT !.at = "row", !.state = s] : s \in {jobs'[calls[c].job], "unreadable"}}
Serve(c) ==
    /\ AtTaskforge(c) /\ clock < calls[c].token
    /\ jobs' = IF calls[c].op = "trigger"
               THEN [jobs EXCEPT ![calls[c].job] = "queued"] ELSE jobs
    /\ \E call \in IF calls[c].op = "list" THEN {Idle} ELSE Served(c) :
          calls' = [calls EXCEPT ![c] = call]
    /\ UNCHANGED <<clock, cached, requests, rows, overlapped>>

\* The call fails: refused, unreachable, or with its answer lost.
FailsToPending(c) ==     \* mutant of ServeFails
    /\ AtTaskforge(c) /\ UNCHANGED jobs
    /\ rows' = IF calls[c].op = "refresh"
               THEN [rows EXCEPT ![calls[c].job] = "PENDING"] ELSE rows
    /\ End(c)
    /\ UNCHANGED <<clock, cached, requests, overlapped>>
ServeFails(c) ==
    /\ AtTaskforge(c)
    /\ \/ UNCHANGED jobs
       \/ /\ calls[c].op = "trigger" /\ clock < calls[c].token
          /\ jobs' = [jobs EXCEPT ![calls[c].job] = "queued"]
    /\ End(c)
    /\ UNCHANGED <<clock, cached, requests, rows, overlapped>>

\* jobRun.create, or its failure: the job runs without a row.  An answer that
\* could not be read has no jobId to create it with.
Create(c) ==
    /\ calls[c].at = "row" /\ calls[c].op = "trigger"
    /\ \/ /\ calls[c].state # "unreadable"
          /\ rows' = [rows EXCEPT ![calls[c].job] = MapState(calls[c].state)]
       \/ UNCHANGED rows
    /\ End(c)
    /\ UNCHANGED <<clock, cached, requests, jobs, overlapped>>

\* jobRun.update, when the status is not the one read at first; a row that is no
\* longer there, like any other failure, answers what was read.
NextStatus(c) == MapState(calls[c].state)
Update(c) ==
    /\ calls[c].at = "row" /\ calls[c].op = "refresh"
    /\ \/ /\ NextStatus(c) # calls[c].row /\ rows[calls[c].job] # "none"
          /\ rows' = [rows EXCEPT ![calls[c].job] = NextStatus(c)]
       \/ UNCHANGED rows
    /\ End(c)
    /\ overlapped' =
          IF \E d \in Calls \ {c} : calls[d].op = "refresh" /\ calls[d].job = calls[c].job
          THEN overlapped ELSE overlapped \ {calls[c].job}
    /\ UNCHANGED <<clock, cached, requests, jobs>>

-----------------------------------------------------------------------------
\* Around the API

\* The worker: a job that fails is delayed and tried again, until the dead letters.
Moves == {<<"queued", "active">>, <<"active", "completed">>, <<"active", "failed">>,
          <<"failed", "delayed">>, <<"delayed", "active">>, <<"failed", "dlq">>}
Work(j) ==
    /\ \E s \in JobStates : <<jobs[j], s>> \in Moves /\ jobs' = [jobs EXCEPT ![j] = s]
    /\ UNCHANGED <<clock, cached, requests, calls, rows, overlapped>>

\* RetentionService deletes an old row, whatever the state of its job.
PurgeJobRuns(j) ==
    /\ rows[j] # "none"
    /\ rows' = [rows EXCEPT ![j] = "none"]
    /\ UNCHANGED <<clock, cached, requests, calls, jobs, overlapped>>

Tick ==
    /\ clock < MaxTime
    /\ clock' = clock + 1
    /\ UNCHANGED <<cached, requests, calls, jobs, rows, overlapped>>

Step(c) == Serve(c) \/ ServeFails(c) \/ Create(c) \/ Update(c)
Next ==
    \/ \E c \in Calls : ListJobs(c) \/ Step(c)
    \/ \E c \in Calls, j \in Jobs : Trigger(c, j) \/ Refresh(c, j)
    \/ Issue \/ TokenArrives \/ TokenFails \/ Tick
    \/ \E j \in Jobs : Work(j) \/ PurgeJobRuns(j)

\* The auth service and taskforge answer, or the connection breaks.
FairSpec ==
    /\ Init /\ [][Next]_vars
    /\ WF_vars(Issue) /\ WF_vars(TokenArrives \/ TokenFails)
    /\ \A c \in Calls : WF_vars(Step(c))
-----------------------------------------------------------------------------
\* Properties

\* "N llamadas concurrentes con el caché vencido" make one token request, and the
\* expiry the cache believes in is never later than the true one, however long
\* the answer took: a token taken from the cache is good for the margin.
TokenShared ==
    /\ Len(requests) <= 1
    /\ cached.expiresAt <= cached.expiry

\* A row that says COMPLETED keeps it: no refresh takes it back, unless two
\* refreshes of the run overlap, or taskforge's answer could not be read.
EndIsKept ==
    [][\A j \in Jobs :
          rows[j] = "COMPLETED" /\ j \notin overlapped
             => \/ rows'[j] \in {"COMPLETED", "none"}
                \/ \E c \in Calls : calls[c].job = j /\ calls[c].state = "unreadable"]_vars
\* One request for all of them strands none: every call that waits for a token,
\* its own request or another call's, gets an end, also when the request fails.
CallsEnd == \A c \in Calls : calls[c].at # "idle" ~> calls[c].at = "idle"
=============================================================================
