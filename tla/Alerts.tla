------------------------------- MODULE Alerts -------------------------------
(***************************************************************************)
(* Telegram alerts for containers that die or restart:                     *)
(* apps/api/src/alerts/alerts.service.ts.                                  *)
(*                                                                         *)
(* The updates that ContainersService emits are the environment's.  A      *)
(* maybeAlert() call is counted in `asked' while it awaits isEnabled() and *)
(* in `granted' once the setting was read as enabled; it then checks and   *)
(* sets the cooldown without yielding.  Time passes in ticks; only how     *)
(* long ago something happened is kept, up to the window that matters.     *)
(***************************************************************************)
EXTENDS Naturals

CONSTANTS Containers,
          Coalesce,     \* DIE_RESTART_COALESCE_MS, in ticks
          Cooldown,     \* COOLDOWN_MS, in ticks
          Switchable,   \* the alerts an admin switches on and off
          MaxUpdates,   \* bound: updates of a behaviour
          MaxReboots    \* bound: times the process goes down

Kinds == {"die", "restart"}

ASSUME AlertsAssumption ==
    /\ Coalesce \in Nat \ {0}
    /\ Cooldown \in Nat \ {0}
    /\ Switchable \subseteq Kinds
    /\ MaxUpdates \in Nat
    /\ MaxReboots \in Nat

Alert == Kinds \X Containers
NoTimer == Coalesce + 1

\* Since its last death a container is away, or it came back by a start that the
\* service takes for its first one, or by one that it does not.
Ways == {"away", "first start", "back"}

VARIABLES
    seenContainers,
    pendingDieAlerts,  \* ticks left of a container's timer, or NoTimer
    lastAlertAt,       \* ticks since an alert of this kind, up to Cooldown
    asked,             \* maybeAlert() calls that await their setting
    granted,           \* maybeAlert() calls whose setting was enabled
    enabled,           \* AlertSetting, in the database
    updates,           \* updates handled so far
    reboots,           \* times the process went down
    \* what the properties are about
    quiet,             \* ticks since an alert was sent, up to Cooldown
    tooSoon,           \* alerts that were sent within the cooldown of another
    dieAge,            \* ticks since the container last died, up to Coalesce
    back,              \* how the container came back since it last died
    falseDown,         \* why a "down" was queued wrongly
    owed               \* the container died and nobody has been told yet

memory == <<seenContainers, pendingDieAlerts, lastAlertAt, asked, granted>>
outside == <<enabled, updates, reboots>>
history == <<quiet, tooSoon, dieAge, back, falseDown, owed>>
vars == <<memory, outside, history>>

TypeOK ==
    /\ seenContainers \subseteq Containers
    /\ pendingDieAlerts \in [Containers -> 0..NoTimer]
    /\ lastAlertAt \in [Alert -> 0..Cooldown]
    /\ asked \in [Alert -> 0..MaxUpdates]
    /\ granted \in [Alert -> 0..MaxUpdates]
    /\ enabled \subseteq Kinds
    /\ updates \in 0..MaxUpdates
    /\ reboots \in 0..MaxReboots
    /\ quiet \in [Alert -> 0..Cooldown]
    /\ tooSoon \subseteq Alert
    /\ dieAge \in [Containers -> 0..Coalesce]
    /\ back \in [Containers -> Ways]
    /\ falseDown \subseteq Ways
    /\ owed \subseteq Containers

\* The maps of a process that has just started
NoTimers == [c \in Containers |-> NoTimer]
NoAlerts == [a \in Alert |-> Cooldown]
NoCalls == [a \in Alert |-> 0]

Init ==
    /\ seenContainers = {}
    /\ pendingDieAlerts = NoTimers
    /\ lastAlertAt = NoAlerts
    /\ asked = NoCalls
    /\ granted = NoCalls
    /\ enabled = Kinds
    /\ updates = 0
    /\ reboots = 0
    /\ quiet = NoAlerts
    /\ tooSoon = {}
    /\ dieAge = [c \in Containers |-> 0]
    /\ back = [c \in Containers |-> "back"]
    /\ falseDown = {}
    /\ owed = {}

-----------------------------------------------------------------------------
\* handleUpdate

HandlesUpdate ==
    /\ updates < MaxUpdates
    /\ updates' = updates + 1
    /\ UNCHANGED <<lastAlertAt, granted, enabled, reboots, quiet, tooSoon, falseDown>>

\* scheduleDieAlert: a second death starts the window again.
Die(c) ==
    /\ HandlesUpdate
    /\ pendingDieAlerts' = [pendingDieAlerts EXCEPT ![c] = Coalesce]
    /\ dieAge' = [dieAge EXCEPT ![c] = 0]
    /\ back' = [back EXCEPT ![c] = "away"]
    /\ owed' = owed \union {c}
    /\ UNCHANGED <<seenContainers, asked>>

\* cancelPendingDieAlert
TimerKept(c) == pendingDieAlerts
TimerCancelled(c) == [pendingDieAlerts EXCEPT ![c] = NoTimer]

\* mutant of ComesBack: the pending "down" is dropped and nothing replaces it
ComesBackQuietly(c) ==
    /\ pendingDieAlerts' = TimerCancelled(c)
    /\ back' = [back EXCEPT ![c] = "back"]
    /\ UNCHANGED asked

\* The container is back: a pending "down" gives way to "restarted".
ComesBack(c) ==
    /\ pendingDieAlerts' = TimerCancelled(c)
    /\ asked' = [asked EXCEPT ![<<"restart", c>>] = @ + 1]
    /\ back' = [back EXCEPT ![c] = "back"]

Restart(c) ==
    /\ HandlesUpdate
    /\ ComesBack(c)
    /\ owed' = owed \ {c}   \* "restarted" is the one right alert
    /\ UNCHANGED <<seenContainers, dieAge>>

\* isRedeployStart: the first start seen of a container is not a redeploy.
Start(c) ==
    /\ HandlesUpdate
    /\ seenContainers' = seenContainers \union {c}
    /\ IF c \in seenContainers
         THEN ComesBack(c)
         ELSE /\ back' = [back EXCEPT ![c] = IF @ = "away" THEN "first start" ELSE @]
              /\ UNCHANGED <<pendingDieAlerts, asked>>
    /\ UNCHANGED <<dieAge, owed>>

\* The timer of scheduleDieAlert runs once, and it may run late.
Fired(c) == [pendingDieAlerts EXCEPT ![c] = NoTimer]
DieTimer(c) ==
    /\ pendingDieAlerts[c] = 0
    /\ pendingDieAlerts' = Fired(c)
    /\ asked' = [asked EXCEPT ![<<"die", c>>] = @ + 1]
    /\ falseDown' = falseDown \union
            IF dieAge[c] < Coalesce THEN {"away"} ELSE {back[c]} \ {"away"}
    /\ UNCHANGED <<seenContainers, lastAlertAt, granted, outside, quiet,
                   tooSoon, dieAge, back, owed>>

-----------------------------------------------------------------------------
\* maybeAlert

\* isEnabled() answers.  A disabled kind owes nobody its own alert.
ReadSetting(a) ==
    /\ asked[a] > 0
    /\ asked' = [asked EXCEPT ![a] = @ - 1]
    /\ granted' = [granted EXCEPT ![a] = IF a[1] \in enabled THEN @ + 1 ELSE @]
    /\ owed' = IF a[1] = "die" /\ a[1] \notin enabled THEN owed \ {a[2]} ELSE owed
    /\ UNCHANGED <<seenContainers, pendingDieAlerts, lastAlertAt, outside,
                   quiet, tooSoon, dieAge, back, falseDown>>

\* isOnCooldown and what follows, up to the next await: the alert is sent, or
\* one of its kind went out a moment ago.
NeverOnCooldown(a) == FALSE
OnCooldown(a) == lastAlertAt[a] < Cooldown

Answer(a) ==
    /\ granted[a] > 0
    /\ granted' = [granted EXCEPT ![a] = @ - 1]
    /\ owed' = owed \ {a[2]}
    /\ IF OnCooldown(a)
         THEN UNCHANGED <<lastAlertAt, quiet, tooSoon>>
         ELSE /\ lastAlertAt' = [lastAlertAt EXCEPT ![a] = 0]
              /\ tooSoon' = IF quiet[a] < Cooldown THEN tooSoon \union {a} ELSE tooSoon
              /\ quiet' = [quiet EXCEPT ![a] = 0]
    /\ UNCHANGED <<seenContainers, pendingDieAlerts, asked, outside, dieAge,
                   back, falseDown>>

-----------------------------------------------------------------------------
\* Time, the admin and the process

Later(n, most) == IF n < most THEN n + 1 ELSE n

Tick ==
    /\ pendingDieAlerts' = [c \in Containers |->
            IF pendingDieAlerts[c] \in 1..Coalesce
            THEN pendingDieAlerts[c] - 1 ELSE pendingDieAlerts[c]]
    /\ lastAlertAt' = [a \in Alert |-> Later(lastAlertAt[a], Cooldown)]
    /\ quiet' = [a \in Alert |-> Later(quiet[a], Cooldown)]
    /\ dieAge' = [c \in Containers |-> Later(dieAge[c], Coalesce)]
    /\ UNCHANGED <<seenContainers, asked, granted, outside, tooSoon, back,
                   falseDown, owed>>

Toggle(k) ==
    /\ enabled' = IF k \in enabled THEN enabled \ {k} ELSE enabled \union {k}
    /\ UNCHANGED <<memory, updates, reboots, history>>

\* onModuleDestroy, or the rejection of isEnabled(): nothing catches it, so
\* Node ends the process.  The next one starts with empty maps.
Reboot ==
    /\ reboots < MaxReboots
    /\ reboots' = reboots + 1
    /\ seenContainers' = {}
    /\ pendingDieAlerts' = NoTimers
    /\ lastAlertAt' = NoAlerts
    /\ asked' = NoCalls
    /\ granted' = NoCalls
    /\ owed' = {}
    /\ quiet' = NoAlerts
    /\ UNCHANGED <<enabled, updates, tooSoon, dieAge, back, falseDown>>

Service(c) ==
    \/ DieTimer(c)
    \/ \E k \in Kinds : ReadSetting(<<k, c>>) \/ Answer(<<k, c>>)

Next ==
    \/ \E c \in Containers : Die(c) \/ Restart(c) \/ Start(c) \/ Service(c)
    \/ Tick
    \/ \E k \in Switchable : Toggle(k)
    \/ Reboot

\* Time passes, due timers run, and the database answers what it was asked.
Spec ==
    /\ Init
    /\ [][Next]_vars
    /\ WF_vars(Tick)
    /\ \A c \in Containers : WF_vars(DieTimer(c))
    /\ \A a \in Alert : WF_vars(ReadSetting(a)) /\ WF_vars(Answer(a))

-----------------------------------------------------------------------------
\* Properties

\* COOLDOWN_MS: however many calls wait for the database at once, two alerts of
\* a kind for one container are a cooldown apart.
CooldownHolds == tooSoon = {}

\* The coalescing window: no "down" is queued for a container that came back
\* since its last death (its first start apart), nor before that death is a whole
\* window old.
NoFalseDown == falseDown \subseteq {"first start"}

\* handleUpdate: a "down" pending for a restart or redeploy "se cancela: el aviso
\* único y correcto es 'reiniciado'".  It fails for the first redeploy after the
\* service started: the container comes back by a start it has not seen before.
RedeployIsNotDown == falseDown = {}

\* A death is never silent: unless it belongs to a `restart', or "down" alerts
\* are off, an alert about the container follows (or one is on its cooldown).
DeathIsTold == \A c \in Containers : c \in owed ~> c \notin owed
=============================================================================
