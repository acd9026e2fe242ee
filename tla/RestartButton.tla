--------------------------- MODULE RestartButton ---------------------------
(***************************************************************************)
(* The restart button of a container's card, restart-button.tsx, in front  *)
(* of the restarts of the API.  The first click asks for a confirmation,   *)
(* the second sends the request.  What it shows in between and afterwards  *)
(* ends with a timer, and no timer is ever cancelled; all of them take the *)
(* same time, so they fire in the order in which they were set, here at    *)
(* any time after it.                                                      *)
(***************************************************************************)
EXTENDS Actions, Sequences

CONSTANTS Mine,       \* the container of the button
          MaxTimers   \* bound: timers that run at once

ASSUME ButtonAssumption == Mine \in Containers /\ MaxTimers \in Nat

VARIABLES status,   \* what the button shows
          timers,   \* the timers that run, the oldest first: "confirm" for
                    \* one that ends a confirmation only, "any" for the others
          sent,     \* its requests in flight
          shown     \* the request whose success it shows, or None

button == <<status, timers, sent, shown>>
buttonVars == <<vars, button>>

ButtonTypeOK ==
    /\ TypeOK
    /\ status \in {"idle", "confirm", "pending", "done", "error"}
    /\ timers \in Seq({"confirm", "any"})
    /\ sent \subseteq Requests
    /\ shown \in Requests \union {None}

ButtonInit ==
    /\ Init
    /\ status = "idle" /\ timers = << >> /\ sent = {}
    /\ shown = None

Shows(what, r) ==
    /\ status' = what
    /\ shown' = IF what = "done" THEN r ELSE None
SetTimer(ends) ==
    /\ Len(timers) < MaxTimers
    /\ timers' = Append(timers, ends)

\* onClick on a button that is not asking yet; a pending one is disabled
FirstClick ==
    /\ status \in {"idle", "done", "error"}
    /\ Shows("confirm", None)
    /\ SetTimer("confirm")
    /\ UNCHANGED <<vars, sent>>

\* onClick on a button that asks: restartContainer()
SecondClick(r) ==
    /\ status = "confirm"
    /\ Request(r, Mine)
    /\ Shows("pending", None)
    /\ sent' = sent \union {r}
    /\ UNCHANGED timers

\* The answer, or the end of the connection while the server goes on
AnyAnswer(r) == IF pc[r] = "done" THEN "done" ELSE "error"   \* mutant of Outcome
Outcome(r) == IF reply[r] = "ok" THEN "done" ELSE "error"
Settled(r) ==
    /\ r \in sent
    /\ Shows(Outcome(r), r)
    /\ sent' = sent \ {r}
    /\ SetTimer("any")
    /\ UNCHANGED vars

\* The timer of a confirmation leaves any other state alone; that of an answer
\* sets "idle" whatever the button shows by then.
TimerFires ==
    /\ timers # << >>
    /\ timers' = Tail(timers)
    /\ IF Head(timers) = "confirm" /\ status # "confirm"
       THEN UNCHANGED <<status, shown>>
       ELSE Shows("idle", None)
    /\ UNCHANGED <<vars, sent>>

ButtonNext ==
    \/ (Crash \/ Tick \/ \E r \in Requests : Serve(r)) /\ UNCHANGED button
    \/ FirstClick \/ TimerFires
    \/ \E r \in Requests : SecondClick(r) \/ Settled(r)

ButtonSpec == ButtonInit /\ [][ButtonNext]_buttonVars

-----------------------------------------------------------------------------
\* What the button shows is so, whichever timers and answers overtake each
\* other: "done" is about a restart that Docker did and the audit log knows, a
\* disabled button waits for an answer that will enable it again, and a
\* confirmation has a timer that ends it.
ButtonIsTrue ==
    /\ status = "done" => result[shown] = "ok" /\ rows[shown] = "ok"
    /\ status = "pending" => sent # {}
    /\ status = "confirm" => timers # << >>
=============================================================================
