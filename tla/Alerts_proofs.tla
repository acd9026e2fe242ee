---------------------------- MODULE Alerts_proofs ----------------------------
(***************************************************************************)
(* Proofs about Alerts, for any containers, window, cooldown, number of    *)
(* updates and of restarts of the process, whatever the admin may switch.  *)
(***************************************************************************)
EXTENDS Alerts, TLAPS

\* What the service remembers of its alerts is when they were sent.
CooldownInv == quiet = lastAlertAt /\ tooSoon = {}

\* A timer that is armed was set by the last death, and the container has not
\* come back since by a start or restart that the service recognised.
TimerInv ==
    \A c \in Containers : pendingDieAlerts[c] # NoTimer =>
        /\ dieAge[c] + pendingDieAlerts[c] = Coalesce
        /\ back[c] # "back"

\* Every call of maybeAlert, and every armed timer, belongs to an update of its own.
Armed(c) == IF pendingDieAlerts[c] = NoTimer THEN 0 ELSE 1
InFlight(a) == asked[a] + granted[a]
Counted ==
    \A c \in Containers :
        /\ InFlight(<<"restart", c>>) <= updates
        /\ InFlight(<<"die", c>>) + Armed(c) <= updates

IInv ==
    /\ TypeOK
    /\ CooldownInv
    /\ TimerInv
    /\ Counted
    /\ NoFalseDown

-----------------------------------------------------------------------------
LEMMA Sizes ==
    /\ Coalesce \in Nat /\ Coalesce >= 1 /\ Cooldown \in Nat /\ Cooldown >= 1
    /\ NoTimer = Coalesce + 1 /\ NoTimer \in 0..NoTimer /\ Coalesce \in 0..NoTimer
    /\ MaxUpdates \in Nat /\ MaxReboots \in Nat
BY AlertsAssumption DEF NoTimer

\* The alerts of a container: the two kinds, and none of another container.
LEMMA AlertsOf ==
    /\ \A c \in Containers : <<"die", c>> \in Alert /\ <<"restart", c>> \in Alert
    /\ \A a \in Alert : \E c \in Containers : a = <<"die", c>> \/ a = <<"restart", c>>
    /\ \A c, d : <<"die", c>> # <<"restart", d>>
    /\ \A c, d : c # d => <<"die", c>> # <<"die", d>> /\ <<"restart", c>> # <<"restart", d>>
BY DEF Alert, Kinds

\* What TypeOK says of the calls follows, after a step, from the count of the updates.
LEMMA CallsAreBounded ==
    ASSUME asked' \in [Alert -> Nat], granted' \in [Alert -> Nat], Counted',
           updates' \in 0..MaxUpdates
    PROVE  asked' \in [Alert -> 0..MaxUpdates] /\ granted' \in [Alert -> 0..MaxUpdates]
<1>1. ASSUME NEW a \in Alert
      PROVE  asked'[a] \in 0..MaxUpdates /\ granted'[a] \in 0..MaxUpdates
  <2>1. asked'[a] \in Nat /\ granted'[a] \in Nat
    OBVIOUS
  <2>2. asked'[a] + granted'[a] <= updates'
    <3>1. PICK c \in Containers : a = <<"die", c>> \/ a = <<"restart", c>>
      BY AlertsOf
    <3>2. CASE a = <<"restart", c>>
      BY <3>2 DEF Counted, InFlight
    <3>3. CASE a = <<"die", c>>
      <4>1. asked'[a] + granted'[a] + Armed(c)' <= updates'
        BY <3>3 DEF Counted, InFlight
      <4>2. Armed(c)' \in {0, 1}
        BY DEF Armed
      <4>3. QED
        BY <2>1, <4>1, <4>2, Sizes
    <3>4. QED
      BY <3>1, <3>2, <3>3
  <2>3. QED
    BY <2>1, <2>2, Sizes
<1>2. QED
  BY <1>1

LEMMA InitIInv == Init => IInv
<1> SUFFICES ASSUME Init PROVE IInv
  OBVIOUS
<1> USE Sizes
<1>1. TypeOK
  <2>1. seenContainers \subseteq Containers /\ enabled \subseteq Kinds /\ tooSoon \subseteq Alert
        /\ falseDown \subseteq Ways /\ owed \subseteq Containers
    BY DEF Init
  <2>2. /\ pendingDieAlerts \in [Containers -> 0..NoTimer]
        /\ dieAge \in [Containers -> 0..Coalesce] /\ back \in [Containers -> Ways]
    BY DEF Init, NoTimers, Ways
  <2>3. /\ lastAlertAt \in [Alert -> 0..Cooldown] /\ quiet \in [Alert -> 0..Cooldown]
        /\ asked \in [Alert -> 0..MaxUpdates] /\ granted \in [Alert -> 0..MaxUpdates]
    BY DEF Init, NoAlerts, NoCalls
  <2>4. updates \in 0..MaxUpdates /\ reboots \in 0..MaxReboots
    BY DEF Init
  <2>5. QED
    BY <2>1, <2>2, <2>3, <2>4 DEF TypeOK
<1>2. CooldownInv /\ TimerInv /\ NoFalseDown
  BY DEF Init, CooldownInv, TimerInv, NoFalseDown, NoTimers
<1>3. Counted
  <2>1. \A a \in Alert : asked[a] = 0 /\ granted[a] = 0
    BY DEF Init, NoCalls
  <2>2. \A c \in Containers : pendingDieAlerts[c] = NoTimer
    BY DEF Init, NoTimers
  <2>3. updates = 0
    BY DEF Init
  <2> SUFFICES ASSUME NEW c \in Containers
               PROVE  /\ asked[<<"restart", c>>] + granted[<<"restart", c>>] <= updates
                      /\ asked[<<"die", c>>] + granted[<<"die", c>>] + Armed(c) <= updates
    BY DEF Counted, InFlight
  <2>4. <<"restart", c>> \in Alert /\ <<"die", c>> \in Alert
    BY AlertsOf
  <2>5. QED
    BY <2>1, <2>2, <2>3, <2>4 DEF Armed
<1>4. QED
  BY <1>1, <1>2, <1>3 DEF IInv

-----------------------------------------------------------------------------
\* The updates: handleUpdate arms or cancels the timer of its container and asks
\* for the setting at most once.
LEMMA UpdateIInv ==
    ASSUME IInv, NEW c \in Containers, HandlesUpdate,
           pendingDieAlerts' \in [Containers -> 0..NoTimer],
           dieAge' \in [Containers -> 0..Coalesce], back' \in [Containers -> Ways],
           seenContainers' \subseteq Containers, owed' \subseteq Containers,
           \A d \in Containers \ {c} :
              /\ pendingDieAlerts'[d] = pendingDieAlerts[d]
              /\ dieAge'[d] = dieAge[d] /\ back'[d] = back[d],
           pendingDieAlerts'[c] # NoTimer =>
              dieAge'[c] + pendingDieAlerts'[c] = Coalesce /\ back'[c] # "back",
           \/ UNCHANGED asked
           \/ /\ asked' = [asked EXCEPT ![<<"restart", c>>] = asked[<<"restart", c>>] + 1]
              /\ pendingDieAlerts'[c] = NoTimer
    PROVE  IInv'
<1> USE DEF IInv
<1>1. /\ updates' = updates + 1 /\ updates' \in 0..MaxUpdates /\ updates \in Nat
      /\ UNCHANGED <<lastAlertAt, granted, enabled, reboots, quiet, tooSoon, falseDown>>
  BY Sizes DEF HandlesUpdate, TypeOK
<1>2. /\ asked \in [Alert -> Nat] /\ granted \in [Alert -> Nat]
      /\ asked' \in [Alert -> Nat] /\ granted' \in [Alert -> Nat]
  <2>1. asked \in [Alert -> Nat] /\ granted \in [Alert -> Nat]
    BY Sizes DEF TypeOK
  <2>2. <<"restart", c>> \in Alert
    BY AlertsOf
  <2>3. asked' \in [Alert -> Nat]
    BY <2>1, <2>2
  <2>4. QED
    BY <1>1, <2>1, <2>3
<1>3. Counted'
  <2> SUFFICES ASSUME NEW d \in Containers
               PROVE  /\ asked'[<<"restart", d>>] + granted[<<"restart", d>>] <= updates + 1
                      /\ asked'[<<"die", d>>] + granted[<<"die", d>>] + Armed(d)' <= updates + 1
    BY <1>1 DEF Counted, InFlight
  <2>1. /\ asked[<<"restart", d>>] + granted[<<"restart", d>>] <= updates
        /\ asked[<<"die", d>>] + granted[<<"die", d>>] + Armed(d) <= updates
    BY DEF Counted, InFlight
  <2>2. /\ asked[<<"restart", d>>] \in Nat /\ granted[<<"restart", d>>] \in Nat
        /\ asked[<<"die", d>>] \in Nat /\ granted[<<"die", d>>] \in Nat
    BY <1>2, AlertsOf
  <2>3. Armed(d) \in {0, 1} /\ Armed(d)' \in {0, 1}
    BY DEF Armed
  <2>4. /\ asked'[<<"die", d>>] = asked[<<"die", d>>]
        /\ asked'[<<"restart", d>>] \in {asked[<<"restart", d>>], asked[<<"restart", d>>] + 1}
    BY <1>2, AlertsOf
  <2>5. QED
    BY <1>1, <2>1, <2>2, <2>3, <2>4
<1>4. TypeOK'
  <2>1. asked' \in [Alert -> 0..MaxUpdates] /\ granted' \in [Alert -> 0..MaxUpdates]
    BY <1>1, <1>2, <1>3, CallsAreBounded
  <2>2. QED
    BY <1>1, <2>1 DEF TypeOK
<1>5. CooldownInv' /\ NoFalseDown'
  BY <1>1 DEF CooldownInv, NoFalseDown
<1>6. TimerInv'
  BY DEF TimerInv
<1>7. QED
  BY <1>3, <1>4, <1>5, <1>6

LEMMA DieIInv == ASSUME IInv, NEW c \in Containers, Die(c) PROVE IInv'
<1>1. /\ HandlesUpdate /\ UNCHANGED asked
      /\ pendingDieAlerts' = [pendingDieAlerts EXCEPT ![c] = Coalesce]
      /\ dieAge' = [dieAge EXCEPT ![c] = 0] /\ back' = [back EXCEPT ![c] = "away"]
      /\ seenContainers' \subseteq Containers /\ owed' \subseteq Containers
  BY DEF Die, IInv, TypeOK
<1>2. /\ pendingDieAlerts \in [Containers -> 0..NoTimer]
      /\ dieAge \in [Containers -> 0..Coalesce] /\ back \in [Containers -> Ways]
  BY DEF IInv, TypeOK
<1>3. /\ pendingDieAlerts' \in [Containers -> 0..NoTimer] /\ pendingDieAlerts'[c] = Coalesce
      /\ dieAge' \in [Containers -> 0..Coalesce] /\ dieAge'[c] = 0
      /\ back' \in [Containers -> Ways] /\ back'[c] = "away"
  <2>1. Coalesce \in 0..NoTimer /\ 0 \in 0..Coalesce /\ "away" \in Ways
    BY Sizes DEF Ways
  <2>2. QED
    BY <1>1, <1>2, <2>1
<1>4. /\ pendingDieAlerts'[c] # NoTimer =>
            dieAge'[c] + pendingDieAlerts'[c] = Coalesce /\ back'[c] # "back"
      /\ \A d \in Containers \ {c} :
            /\ pendingDieAlerts'[d] = pendingDieAlerts[d]
            /\ dieAge'[d] = dieAge[d] /\ back'[d] = back[d]
  BY <1>1, <1>2, <1>3, Sizes
<1>5. QED
  BY <1>1, <1>3, <1>4, UpdateIInv

\* A container that comes back has no timer left.
LEMMA ComesBackIInv ==
    ASSUME IInv, NEW c \in Containers, HandlesUpdate, ComesBack(c), UNCHANGED dieAge,
           seenContainers' \subseteq Containers, owed' \subseteq Containers
    PROVE  IInv'
<1>1. /\ pendingDieAlerts' = [pendingDieAlerts EXCEPT ![c] = NoTimer]
      /\ asked' = [asked EXCEPT ![<<"restart", c>>] = asked[<<"restart", c>>] + 1]
      /\ back' = [back EXCEPT ![c] = "back"]
  BY DEF ComesBack, TimerCancelled
<1>2. /\ pendingDieAlerts \in [Containers -> 0..NoTimer]
      /\ dieAge \in [Containers -> 0..Coalesce] /\ back \in [Containers -> Ways]
  BY DEF IInv, TypeOK
<1>3. /\ pendingDieAlerts' \in [Containers -> 0..NoTimer] /\ pendingDieAlerts'[c] = NoTimer
      /\ back' \in [Containers -> Ways]
  BY <1>1, <1>2, Sizes DEF Ways
<1>4. QED
  BY <1>1, <1>2, <1>3, UpdateIInv

LEMMA RestartIInv == ASSUME IInv, NEW c \in Containers, Restart(c) PROVE IInv'
<1>1. /\ HandlesUpdate /\ ComesBack(c) /\ UNCHANGED dieAge
      /\ seenContainers' \subseteq Containers /\ owed' \subseteq Containers
  BY DEF Restart, IInv, TypeOK
<1>2. QED
  BY <1>1, ComesBackIInv

LEMMA StartIInv == ASSUME IInv, NEW c \in Containers, Start(c) PROVE IInv'
<1>1. /\ HandlesUpdate /\ UNCHANGED dieAge
      /\ seenContainers' \subseteq Containers /\ owed' \subseteq Containers
  BY DEF Start, IInv, TypeOK
<1>2. CASE c \in seenContainers
  BY <1>1, <1>2, ComesBackIInv DEF Start
<1>3. CASE c \notin seenContainers
  <2>1. /\ UNCHANGED <<pendingDieAlerts, asked>>
        /\ back' = [back EXCEPT ![c] = IF back[c] = "away" THEN "first start" ELSE back[c]]
    BY <1>3 DEF Start
  <2>2. /\ pendingDieAlerts \in [Containers -> 0..NoTimer]
        /\ dieAge \in [Containers -> 0..Coalesce] /\ back \in [Containers -> Ways]
    BY DEF IInv, TypeOK
  <2>3. /\ back' \in [Containers -> Ways]
        /\ back'[c] \in {"first start", back[c]}
        /\ \A d \in Containers \ {c} : back'[d] = back[d]
    BY <2>1, <2>2 DEF Ways
  <2>4. pendingDieAlerts[c] # NoTimer =>
           dieAge[c] + pendingDieAlerts[c] = Coalesce /\ back'[c] # "back"
    BY <2>3 DEF IInv, TimerInv
  <2>5. QED
    BY <1>1, <2>1, <2>2, <2>3, <2>4, UpdateIInv
<1>4. QED
  BY <1>2, <1>3

\* The timer runs: it was armed, so the window is over and nobody came back.
LEMMA DieTimerIInv == ASSUME IInv, NEW c \in Containers, DieTimer(c) PROVE IInv'
<1> USE DEF IInv
<1>1. /\ pendingDieAlerts[c] = 0
      /\ pendingDieAlerts' = [pendingDieAlerts EXCEPT ![c] = NoTimer]
      /\ asked' = [asked EXCEPT ![<<"die", c>>] = asked[<<"die", c>>] + 1]
      /\ UNCHANGED <<seenContainers, lastAlertAt, granted, outside, quiet,
                     tooSoon, dieAge, back, owed>>
  BY DEF DieTimer, Fired
<1>2. /\ pendingDieAlerts \in [Containers -> 0..NoTimer] /\ back \in [Containers -> Ways]
      /\ dieAge \in [Containers -> 0..Coalesce] /\ updates \in Nat
      /\ asked \in [Alert -> Nat] /\ granted \in [Alert -> Nat]
  BY Sizes DEF TypeOK
<1>3. pendingDieAlerts' \in [Containers -> 0..NoTimer] /\ pendingDieAlerts'[c] = NoTimer
      /\ \A d \in Containers \ {c} : pendingDieAlerts'[d] = pendingDieAlerts[d]
  BY <1>1, <1>2, Sizes
<1>4. <<"die", c>> \in Alert
  BY AlertsOf
<1>5. asked' \in [Alert -> Nat] /\ granted' \in [Alert -> Nat]
  BY <1>1, <1>2, <1>4
<1>6. dieAge[c] = Coalesce /\ back[c] # "back"
  BY <1>1, <1>2, Sizes DEF TimerInv
<1>7. falseDown' \subseteq {"first start"} /\ falseDown' \subseteq Ways
  <2>1. falseDown' = falseDown \union ({back[c]} \ {"away"})
    BY <1>2, <1>6, Sizes DEF DieTimer
  <2>2. back[c] \in {"away", "first start"}
    BY <1>2, <1>6 DEF Ways
  <2>3. QED
    BY <2>1, <2>2 DEF NoFalseDown, Ways
<1>8. Counted'
  <2> SUFFICES ASSUME NEW d \in Containers
               PROVE  /\ asked'[<<"restart", d>>] + granted[<<"restart", d>>] <= updates
                      /\ asked'[<<"die", d>>] + granted[<<"die", d>>] + Armed(d)' <= updates
    BY <1>1 DEF Counted, InFlight, outside
  <2>1. /\ asked[<<"restart", d>>] + granted[<<"restart", d>>] <= updates
        /\ asked[<<"die", d>>] + granted[<<"die", d>>] + Armed(d) <= updates
    BY DEF Counted, InFlight
  <2>2. asked'[<<"restart", d>>] = asked[<<"restart", d>>]
    BY <1>1, <1>2, AlertsOf
  <2>3. CASE d = c
    <3>1. Armed(c) = 1 /\ Armed(c)' = 0
      BY <1>1, <1>3, Sizes DEF Armed
    <3>2. asked'[<<"die", c>>] = asked[<<"die", c>>] + 1
      BY <1>1, <1>2, <1>4
    <3>3. asked[<<"die", c>>] \in Nat /\ granted[<<"die", c>>] \in Nat
      BY <1>2, <1>4
    <3>4. QED
      BY <1>2, <2>1, <2>2, <2>3, <3>1, <3>2, <3>3
  <2>4. CASE d # c
    <3>1. Armed(d)' = Armed(d)
      BY <1>3, <2>4 DEF Armed
    <3>2. asked'[<<"die", d>>] = asked[<<"die", d>>]
      BY <1>1, <1>2, <2>4, AlertsOf
    <3>3. QED
      BY <2>1, <2>2, <3>1, <3>2
  <2>5. QED
    BY <2>3, <2>4
<1>9. TypeOK'
  <2>1. updates' \in 0..MaxUpdates
    BY <1>1 DEF TypeOK, outside
  <2>2. asked' \in [Alert -> 0..MaxUpdates] /\ granted' \in [Alert -> 0..MaxUpdates]
    BY <1>5, <1>8, <2>1, CallsAreBounded
  <2>3. QED
    BY <1>1, <1>3, <1>7, <2>2 DEF TypeOK, outside
<1>10. CooldownInv' /\ NoFalseDown'
  BY <1>1, <1>7 DEF CooldownInv, NoFalseDown
<1>11. TimerInv'
  BY <1>1, <1>3 DEF TimerInv
<1>12. QED
  BY <1>8, <1>9, <1>10, <1>11

-----------------------------------------------------------------------------
\* A call goes on: what it leaves behind is one call fewer, or none more.
LEMMA CallIInv ==
    ASSUME IInv, NEW a \in Alert,
           UNCHANGED <<seenContainers, pendingDieAlerts, outside, dieAge, back, falseDown>>,
           asked' \in [Alert -> Nat], granted' \in [Alert -> Nat],
           \A b \in Alert : asked'[b] + granted'[b] <= asked[b] + granted[b],
           lastAlertAt' \in [Alert -> 0..Cooldown], owed' \subseteq owed, CooldownInv'
    PROVE  IInv'
<1> USE DEF IInv
<1>1. Counted'
  <2> SUFFICES ASSUME NEW d \in Containers
               PROVE  /\ asked'[<<"restart", d>>] + granted'[<<"restart", d>>] <= updates
                      /\ asked'[<<"die", d>>] + granted'[<<"die", d>>] + Armed(d) <= updates
    BY DEF Counted, InFlight, outside, Armed
  <2>1. /\ asked[<<"restart", d>>] + granted[<<"restart", d>>] <= updates
        /\ asked[<<"die", d>>] + granted[<<"die", d>>] + Armed(d) <= updates
    BY DEF Counted, InFlight
  <2>2. <<"restart", d>> \in Alert /\ <<"die", d>> \in Alert
    BY AlertsOf
  <2>3. /\ asked \in [Alert -> Nat] /\ granted \in [Alert -> Nat] /\ updates \in Nat
        /\ Armed(d) \in {0, 1}
    BY Sizes DEF TypeOK, Armed
  <2>4. ASSUME NEW b \in Alert
        PROVE  /\ asked[b] \in Nat /\ granted[b] \in Nat
               /\ asked'[b] \in Nat /\ granted'[b] \in Nat
    BY <2>3
  <2>5. QED
    BY <2>1, <2>2, <2>3, <2>4
<1>2. TypeOK'
  <2>1. updates' \in 0..MaxUpdates
    BY DEF TypeOK, outside
  <2>2. asked' \in [Alert -> 0..MaxUpdates] /\ granted' \in [Alert -> 0..MaxUpdates]
    BY <1>1, <2>1, CallsAreBounded
  <2>3. quiet' \in [Alert -> 0..Cooldown] /\ tooSoon' \subseteq Alert
    BY DEF CooldownInv
  <2>4. QED
    BY <2>2, <2>3 DEF TypeOK, outside
<1>3. TimerInv' /\ NoFalseDown'
  BY DEF TimerInv, NoFalseDown
<1>4. QED
  BY <1>1, <1>2, <1>3

LEMMA ReadSettingIInv == ASSUME IInv, NEW a \in Alert, ReadSetting(a) PROVE IInv'
<1>1. /\ asked[a] > 0 /\ asked' = [asked EXCEPT ![a] = asked[a] - 1]
      /\ granted' = [granted EXCEPT ![a] = IF a[1] \in enabled THEN granted[a] + 1 ELSE granted[a]]
      /\ UNCHANGED <<seenContainers, pendingDieAlerts, lastAlertAt, outside,
                     quiet, tooSoon, dieAge, back, falseDown>>
      /\ owed' \subseteq owed
  BY DEF ReadSetting
<1>2. asked \in [Alert -> Nat] /\ granted \in [Alert -> Nat]
  BY Sizes DEF IInv, TypeOK
<1>3. asked[a] - 1 \in Nat /\ granted[a] \in Nat /\ asked[a] \in Nat
  BY <1>1, <1>2
<1>4. PICK n \in {granted[a], granted[a] + 1} : granted' = [granted EXCEPT ![a] = n]
  BY <1>1
<1>5. asked' \in [Alert -> Nat] /\ granted' \in [Alert -> Nat]
  BY <1>1, <1>2, <1>3, <1>4
<1>6. \A b \in Alert : asked'[b] + granted'[b] <= asked[b] + granted[b]
  <2> TAKE b \in Alert
  <2>1. CASE b = a
    BY <1>1, <1>2, <1>3, <1>4, <2>1
  <2>2. CASE b # a
    BY <1>1, <1>2, <1>4, <2>2
  <2>3. QED
    BY <2>1, <2>2
<1>7. CooldownInv' /\ lastAlertAt' \in [Alert -> 0..Cooldown]
  BY <1>1 DEF IInv, CooldownInv, TypeOK
<1>8. QED
  BY <1>1, <1>5, <1>6, <1>7, CallIInv

\* An alert is sent only when the last one of its kind is a cooldown old.
LEMMA AnswerIInv == ASSUME IInv, NEW a \in Alert, Answer(a) PROVE IInv'
<1>1. /\ granted[a] > 0 /\ granted' = [granted EXCEPT ![a] = granted[a] - 1]
      /\ UNCHANGED <<seenContainers, pendingDieAlerts, asked, outside, dieAge, back, falseDown>>
      /\ owed' \subseteq owed
  BY DEF Answer
<1>2. asked \in [Alert -> Nat] /\ granted \in [Alert -> Nat]
      /\ lastAlertAt \in [Alert -> 0..Cooldown]
  BY Sizes DEF IInv, TypeOK
<1>3. granted' \in [Alert -> Nat] /\ asked' \in [Alert -> Nat]
  BY <1>1, <1>2
<1>4. \A b \in Alert : asked'[b] + granted'[b] <= asked[b] + granted[b]
  BY <1>1, <1>2
<1>5. CooldownInv' /\ lastAlertAt' \in [Alert -> 0..Cooldown]
  <2>1. CASE OnCooldown(a)
    BY <1>2, <2>1 DEF Answer, IInv, CooldownInv
  <2>2. CASE ~OnCooldown(a)
    <3>1. ~(quiet[a] < Cooldown)
      BY <2>2 DEF OnCooldown, IInv, CooldownInv
    <3>2. /\ lastAlertAt' = [lastAlertAt EXCEPT ![a] = 0]
          /\ quiet' = [quiet EXCEPT ![a] = 0] /\ tooSoon' = tooSoon
      BY <2>2, <3>1 DEF Answer
    <3>3. QED
      BY <1>2, <3>2, Sizes DEF IInv, CooldownInv
  <2>3. QED
    BY <2>1, <2>2
<1>6. QED
  BY <1>1, <1>3, <1>4, <1>5, CallIInv

-----------------------------------------------------------------------------
\* A timer that loses a tick has a death that is a tick older.
LEMMA TickIInv == IInv /\ Tick => IInv'
<1> SUFFICES ASSUME IInv, Tick PROVE IInv'
  OBVIOUS
<1> USE DEF IInv
<1>1. /\ UNCHANGED <<seenContainers, asked, granted, outside, tooSoon, back, falseDown, owed>>
      /\ lastAlertAt' = [a \in Alert |-> Later(lastAlertAt[a], Cooldown)]
      /\ quiet' = [a \in Alert |-> Later(quiet[a], Cooldown)]
      /\ dieAge' = [c \in Containers |-> Later(dieAge[c], Coalesce)]
      /\ pendingDieAlerts' = [c \in Containers |->
            IF pendingDieAlerts[c] \in 1..Coalesce
            THEN pendingDieAlerts[c] - 1 ELSE pendingDieAlerts[c]]
  BY DEF Tick
<1>2. ASSUME NEW m \in Nat, NEW n \in 0..m
      PROVE  Later(n, m) \in 0..m
  BY DEF Later
<1>3. /\ lastAlertAt' \in [Alert -> 0..Cooldown] /\ quiet' \in [Alert -> 0..Cooldown]
      /\ dieAge' \in [Containers -> 0..Coalesce]
  BY <1>1, <1>2, Sizes DEF TypeOK
<1>4. ASSUME NEW c \in Containers
      PROVE  /\ pendingDieAlerts'[c] \in 0..NoTimer
             /\ pendingDieAlerts'[c] = NoTimer <=> pendingDieAlerts[c] = NoTimer
             /\ pendingDieAlerts[c] # NoTimer =>
                   dieAge'[c] + pendingDieAlerts'[c] = Coalesce /\ back[c] # "back"
  <2>1. pendingDieAlerts[c] \in 0..NoTimer /\ dieAge[c] \in 0..Coalesce
    BY DEF TypeOK
  <2>2. /\ pendingDieAlerts'[c] = IF pendingDieAlerts[c] \in 1..Coalesce
                                  THEN pendingDieAlerts[c] - 1 ELSE pendingDieAlerts[c]
        /\ dieAge'[c] = IF dieAge[c] < Coalesce THEN dieAge[c] + 1 ELSE dieAge[c]
    BY <1>1 DEF Later
  <2>3. pendingDieAlerts[c] # NoTimer =>
           dieAge[c] + pendingDieAlerts[c] = Coalesce /\ back[c] # "back"
    BY DEF TimerInv
  <2>4. QED
    BY <2>1, <2>2, <2>3, Sizes
<1>5. pendingDieAlerts' \in [Containers -> 0..NoTimer]
  BY <1>1, <1>4
<1>6. TypeOK'
  BY <1>1, <1>3, <1>5 DEF TypeOK, outside
<1>7. CooldownInv' /\ NoFalseDown'
  BY <1>1 DEF CooldownInv, NoFalseDown
<1>8. TimerInv'
  BY <1>1, <1>4 DEF TimerInv
<1>9. Counted'
  BY <1>1, <1>4 DEF Counted, InFlight, Armed, outside
<1>10. QED
  BY <1>6, <1>7, <1>8, <1>9

LEMMA ToggleIInv == ASSUME IInv, NEW k \in Switchable, Toggle(k) PROVE IInv'
<1>1. enabled' \subseteq Kinds
  BY AlertsAssumption DEF Toggle, IInv, TypeOK
<1>2. UNCHANGED <<memory, updates, reboots, history>>
  BY DEF Toggle
<1>3. TypeOK'
  BY <1>1, <1>2 DEF IInv, TypeOK, memory, history
<1>4. QED
  BY <1>2, <1>3 DEF IInv, memory, history, CooldownInv, TimerInv, Counted, InFlight,
                    Armed, NoFalseDown

\* A process that starts has no timer, no call and no alert to remember.
LEMMA RebootIInv == IInv /\ Reboot => IInv'
<1> SUFFICES ASSUME IInv, Reboot PROVE IInv'
  OBVIOUS
<1> USE DEF IInv
<1>1. /\ seenContainers' = {} /\ owed' = {} /\ reboots' \in 0..MaxReboots
      /\ UNCHANGED <<enabled, updates, tooSoon, dieAge, back, falseDown>>
  BY Sizes DEF Reboot, TypeOK
<1>2. /\ pendingDieAlerts' \in [Containers -> 0..NoTimer]
      /\ \A c \in Containers : pendingDieAlerts'[c] = NoTimer
  BY Sizes DEF Reboot, NoTimers
<1>3. /\ lastAlertAt' \in [Alert -> 0..Cooldown] /\ quiet' = lastAlertAt'
      /\ asked' \in [Alert -> 0..MaxUpdates] /\ granted' \in [Alert -> 0..MaxUpdates]
      /\ \A a \in Alert : asked'[a] = 0 /\ granted'[a] = 0
  BY Sizes DEF Reboot, NoAlerts, NoCalls
<1>4. TypeOK'
  BY <1>1, <1>2, <1>3 DEF TypeOK
<1>5. CooldownInv' /\ TimerInv' /\ NoFalseDown'
  BY <1>1, <1>2, <1>3 DEF CooldownInv, TimerInv, NoFalseDown
<1>6. Counted'
  <2>1. updates' >= 0
    BY <1>1 DEF TypeOK
  <2> SUFFICES ASSUME NEW c \in Containers
               PROVE  /\ asked'[<<"restart", c>>] + granted'[<<"restart", c>>] <= updates'
                      /\ asked'[<<"die", c>>] + granted'[<<"die", c>>] + Armed(c)' <= updates'
    BY DEF Counted, InFlight
  <2>2. <<"restart", c>> \in Alert /\ <<"die", c>> \in Alert
    BY AlertsOf
  <2>3. QED
    BY <1>2, <1>3, <2>1, <2>2 DEF Armed
<1>7. QED
  BY <1>4, <1>5, <1>6

-----------------------------------------------------------------------------
LEMMA NextIInv == IInv /\ [Next]_vars => IInv'
<1> SUFFICES ASSUME IInv, [Next]_vars PROVE IInv'
  OBVIOUS
<1>1. ASSUME NEW c \in Containers, Die(c) \/ Restart(c) \/ Start(c) \/ DieTimer(c)
      PROVE  IInv'
  BY <1>1, DieIInv, RestartIInv, StartIInv, DieTimerIInv
<1>2. ASSUME NEW c \in Containers, NEW k \in Kinds,
             ReadSetting(<<k, c>>) \/ Answer(<<k, c>>)
      PROVE  IInv'
  <2>1. <<k, c>> \in Alert
    BY DEF Alert
  <2>2. QED
    BY <1>2, <2>1, ReadSettingIInv, AnswerIInv
<1>3. CASE Tick \/ Reboot
  BY <1>3, TickIInv, RebootIInv
<1>4. ASSUME NEW k \in Switchable, Toggle(k)
      PROVE  IInv'
  BY <1>4, ToggleIInv
<1>5. CASE UNCHANGED vars
  BY <1>5 DEF vars, memory, outside, history, IInv, TypeOK, CooldownInv, TimerInv,
              Counted, InFlight, Armed, NoFalseDown
<1>6. QED
  BY <1>1, <1>2, <1>3, <1>4, <1>5 DEF Next, Service

\* The inductive invariant holds in every reachable state.
THEOREM Invariant == Spec => []IInv
<1>1. QED
  BY InitIInv, NextIInv, PTL DEF Spec

\* Type correctness: in particular every call of maybeAlert in flight belongs to
\* an update of its own.
THEOREM TypeCorrect == Spec => []TypeOK
<1>1. IInv => TypeOK
  BY DEF IInv
<1>2. QED
  BY <1>1, Invariant, PTL

\* However many calls wait for their setting, two alerts of a kind for one
\* container are a cooldown apart.
THEOREM AlertsAreApart == Spec => []CooldownHolds
<1>1. IInv => CooldownHolds
  BY DEF IInv, CooldownInv, CooldownHolds
<1>2. QED
  BY <1>1, Invariant, PTL

\* No "down" is queued before the window of the last death is over, nor for a
\* container that came back within it, its first start apart.
THEOREM DownIsTrue == Spec => []NoFalseDown
<1>1. IInv => NoFalseDown
  BY DEF IInv
<1>2. QED
  BY <1>1, Invariant, PTL
=============================================================================
