------------------------------- MODULE Actions -------------------------------
(***************************************************************************)
(* Restarting a container on an operator's request:                        *)
(* apps/api/src/actions/actions.service.ts, restartContainer().            *)
(*                                                                         *)
(* Each request runs through three awaits: findManagedByName (`lookup'),   *)
(* Docker's restart (`docker') and the audit row (`audit').  The limits    *)
(* live in the memory of the process.  A timestamp is kept as its age: a   *)
(* restart is known by its request, whose age grows with time until no     *)
(* limit looks at it any more.                                             *)
(***************************************************************************)
EXTENDS Naturals, FiniteSets

CONSTANTS Requests,          \* bound: the requests of a behaviour
          Containers,
          Protected,         \* containers of a protected compose project
          ContainerCooldown, \* CONTAINER_COOLDOWN_MS, in ticks
          GlobalLimit,       \* GLOBAL_LIMIT
          GlobalWindow,      \* GLOBAL_WINDOW_MS, in ticks
          PruneOver,         \* GLOBAL_LIMIT * 4: a longer array is pruned
          None

ASSUME ActionsAssumption ==
    /\ IsFiniteSet(Requests)
    /\ Protected \subseteq Containers
    /\ GlobalWindow \in Nat
    /\ ContainerCooldown \in 1..GlobalWindow
    /\ GlobalLimit \in Nat \ {0}
    /\ PruneOver \in Nat
    /\ None \notin Requests

VARIABLES
    lastRestartAt,   \* the last restart recorded for a container, or None
    globalRestarts,  \* the restarts in the array
    age,             \* ticks since a restart was asked of Docker, up to Old
    pc,              \* where a request is
    target,          \* the container it names
    reply,           \* what it was answered
    \* what the properties are about
    issued,          \* restarts this process has asked of Docker
    result,          \* what Docker answered
    rows             \* AuditLog: the result written for a request

limits == <<lastRestartAt, globalRestarts, age>>
vars == <<limits, pc, target, reply, issued, result, rows>>

Old == GlobalWindow + 1

Results == {"none", "ok", "error"}
Replies == {"none", "ok", "bad gateway", "not found", "forbidden", "too many",
            "server error"}

TypeOK ==
    /\ lastRestartAt \in [Containers -> Requests \union {None}]
    /\ globalRestarts \subseteq Requests
    /\ age \in [Requests -> 0..Old]
    /\ pc \in [Requests -> {"idle", "lookup", "docker", "audit", "done"}]
    /\ target \in [Requests -> Containers \union {None}]
    /\ reply \in [Requests -> Replies]
    /\ issued \subseteq Requests
    /\ result \in [Requests -> Results]
    /\ rows \in [Requests -> Results]

Init ==
    /\ lastRestartAt = [c \in Containers |-> None]
    /\ globalRestarts = {}
    /\ age = [r \in Requests |-> 0]
    /\ pc = [r \in Requests |-> "idle"]
    /\ target = [r \in Requests |-> None]
    /\ reply = [r \in Requests |-> "none"]
    /\ issued = {}
    /\ result = [r \in Requests |-> "none"]
    /\ rows = [r \in Requests |-> "none"]

-----------------------------------------------------------------------------
\* checkRateLimit
Cooling(c) == lastRestartAt[c] # None /\ age[lastRestartAt[c]] < ContainerCooldown
Recent == {r \in globalRestarts : age[r] < GlobalWindow}
SpentEver == Cardinality(globalRestarts) >= GlobalLimit
Spent == Cardinality(Recent) >= GlobalLimit

\* recordRestart: the array, without what has left the window once it is long.
PrunedTooFar(R) ==
    IF Cardinality(R) > PruneOver
    THEN {q \in R : age[q] < ContainerCooldown} ELSE R
Pruned(R) ==
    IF Cardinality(R) > PruneOver
    THEN {q \in R : age[q] <= GlobalWindow} ELSE R

RecordRestart(r) ==
    /\ lastRestartAt' = [lastRestartAt EXCEPT ![target[r]] = r]
    /\ globalRestarts' = Pruned(globalRestarts \union {r})

\* A request ends with its reply.
End(r, what) ==
    /\ pc' = [pc EXCEPT ![r] = "done"]
    /\ reply' = [reply EXCEPT ![r] = what]

-----------------------------------------------------------------------------
\* restartContainer, up to its first await
Request(r, c) ==
    /\ pc[r] = "idle"
    /\ pc' = [pc EXCEPT ![r] = "lookup"]
    /\ target' = [target EXCEPT ![r] = c]
    /\ UNCHANGED <<limits, reply, issued, result, rows>>

\* The lookup answers null, or throws.
LookupFails(r) ==
    /\ pc[r] = "lookup"
    /\ \E what \in {"not found", "server error"} : End(r, what)
    /\ UNCHANGED <<limits, target, issued, result, rows>>

\* It answers with the container: a protected project or a limit refuses it.
Refused(r) ==
    /\ pc[r] = "lookup"
    /\ \/ target[r] \in Protected /\ End(r, "forbidden")
       \/ /\ target[r] \notin Protected
          /\ Cooling(target[r]) \/ Spent
          /\ End(r, "too many")
    /\ UNCHANGED <<limits, target, issued, result, rows>>

\* It is recorded and asked of Docker in the same step as the check.
AskOnly(r) ==
    /\ pc' = [pc EXCEPT ![r] = "docker"]
    /\ UNCHANGED <<lastRestartAt, globalRestarts>>
RecordAndAsk(r) ==
    /\ pc' = [pc EXCEPT ![r] = "docker"]
    /\ RecordRestart(r)

Allowed(r) ==
    /\ pc[r] = "lookup"
    /\ target[r] \notin Protected
    /\ ~Cooling(target[r])
    /\ ~Spent
    /\ RecordAndAsk(r)
    /\ issued' = issued \union {r}
    /\ age' = [age EXCEPT ![r] = 0]
    /\ UNCHANGED <<target, reply, result, rows>>

\* Docker restarts the container, or it does not.
Answers(r) ==
    /\ pc[r] = "docker"
    /\ pc' = [pc EXCEPT ![r] = "audit"]
    /\ \E what \in {"ok", "error"} : result' = [result EXCEPT ![r] = what]
    /\ UNCHANGED <<limits, target, reply, issued, rows>>

\* audit(): the row is written and the request answered...
EndWithResult(r) == End(r, result[r])
EndAsResult(r) == End(r, IF result[r] = "ok" THEN "ok" ELSE "bad gateway")
AuditWritten(r) ==
    /\ pc[r] = "audit"
    /\ rows' = [rows EXCEPT ![r] = result[r]]
    /\ EndAsResult(r)
    /\ UNCHANGED <<limits, target, issued, result>>

\* ...or the database rejects it, and so does restartContainer().
AuditSwallowed(r) ==
    /\ pc[r] = "audit"
    /\ EndAsResult(r)
    /\ UNCHANGED <<limits, target, issued, result, rows>>
AuditFails(r) ==
    /\ pc[r] = "audit"
    /\ End(r, "server error")
    /\ UNCHANGED <<limits, target, issued, result, rows>>

-----------------------------------------------------------------------------
\* Time and the process

Older(n) == IF n < Old THEN n + 1 ELSE n

Tick ==
    /\ age' = [r \in Requests |-> IF r \in issued THEN Older(age[r]) ELSE age[r]]
    /\ UNCHANGED <<lastRestartAt, globalRestarts, pc, target, reply, issued,
                   result, rows>>

\* The process goes down, with the requests it was serving and its memory.
Crash ==
    /\ lastRestartAt' = [c \in Containers |-> None]
    /\ globalRestarts' = {}
    /\ pc' = [r \in Requests |-> IF pc[r] = "idle" THEN "idle" ELSE "done"]
    /\ issued' = {}
    /\ UNCHANGED <<age, target, reply, result, rows>>

Serve(r) ==
    \/ \E c \in Containers : Request(r, c)
    \/ LookupFails(r) \/ Refused(r) \/ Allowed(r)
    \/ Answers(r)
    \/ AuditWritten(r) \/ AuditFails(r)

Next ==
    \/ \E r \in Requests : Serve(r)
    \/ Tick
    \/ Crash

Spec == Init /\ [][Next]_vars

-----------------------------------------------------------------------------
\* Properties.  The two limits are about one life of the process: both Maps are
\* empty after a restart of the dashboard.

\* CONTAINER_COOLDOWN_MS: two restarts of a container are a cooldown apart,
\* however many requests are past their lookup at once (recordRestart before
\* the call to Docker, "evita que dos clicks concurrentes pasen ambos").
CooldownHolds ==
    \A r, q \in issued :
        r # q /\ target[r] = target[q] =>
            age[r] >= ContainerCooldown \/ age[q] >= ContainerCooldown

\* GLOBAL_LIMIT: no window holds more restarts, failed ones included; pruning
\* the array forgets none that still counts.
BudgetHolds ==
    Cardinality({r \in issued : age[r] < GlobalWindow}) <= GlobalLimit

\* A 429 has a reason: the container was restarted within the cooldown, or the
\* budget of the window is really spent.
RefusedForAReason ==
    [][\A r \in Requests : reply[r] # "too many" /\ reply'[r] = "too many" =>
         \/ \E q \in issued : target[q] = target[r] /\ age[q] < ContainerCooldown
         \/ Cardinality({q \in issued : age[q] < GlobalWindow}) = GlobalLimit]_vars

\* What the operator and the audit log are told agrees with what Docker did: a
\* success or a 502 has its row, and no row speaks of a restart never asked for.
ToldAsDone ==
    \A r \in Requests :
        /\ reply[r] = "ok" => rows[r] = "ok"
        /\ reply[r] = "bad gateway" => rows[r] = "error"
        /\ rows[r] # "none" => rows[r] = result[r] /\ target[r] \notin Protected
=============================================================================
