---------------------------- MODULE AuthSession ----------------------------
(***************************************************************************)
(* The session of a browser: auth-provider.tsx with its storage and its    *)
(* login form, the proxy of the API in front of cci-auth-service, and the  *)
(* roles the API grants to the access token.                               *)
(*                                                                         *)
(* A token pair is the number of its issue, 0 is no token.  Every call is  *)
(* asked, served by the auth service, and applied by the browser; a pair   *)
(* that is applied is followed by fetchMe().  Time passes in ticks, and a  *)
(* setInterval that is due fires before the next one.                      *)
(***************************************************************************)
EXTENDS Naturals, Sequences, FiniteSets,
        SequencesExt,   \* RemoveAt
        Functions       \* Range

CONSTANTS ClaimSets,        \* the claims `roles' of the accounts
          TTL,              \* ticks an access token is good for: 15 min
          RefreshInterval,  \* REFRESH_INTERVAL_MS: 12 min
          MaxPairs,         \* bound: pairs the auth service issues
          MaxCalls          \* bound: calls in flight

ASSUME AuthAssumption ==
    /\ IsFiniteSet(ClaimSets)
    /\ RefreshInterval \in Nat \ {0} /\ TTL \in Nat /\ RefreshInterval < TTL
    /\ MaxPairs \in Nat /\ MaxCalls \in Nat \ {0}

VARIABLES
    claims,      \* cci-auth-service: the claims of each pair it has issued
    age,         \* the ticks since it issued them, up to TTL
    valid,       \* and the refresh tokens it still accepts
    ref,         \* refreshTokenRef
    storage,     \* the refresh token in localStorage
    access,      \* accessToken
    user,
    timer,       \* the ticks since the setInterval of the session last fired
    ready,
    modal,       \* the login form, when the user is anonymous
    calls,       \* the calls in flight
    disturbed,   \* history: since the session was last opened or closed, calls
                 \* overlapped, one failed that should not, or the pair came late
    over         \* history: the user logged out with nothing in flight

session == <<ref, storage, access, user>>
service == <<claims, age, valid>>
vars == <<service, session, timer, ready, modal, calls, disturbed, over>>

Pairs == 1..Len(claims)
Ops == {"restore", "renew", "login", "verify", "logout"}
\* form: the login form that made the call is still on the screen
Call(op, token) == [op |-> op, token |-> token, step |-> "asked", pair |-> 0,
                    form |-> op \in {"login", "verify"}]
Calls == Range(calls)

-----------------------------------------------------------------------------
\* Roles: roleFromClaims, hasRole, and what the token of a request is worth

ROLES == <<"viewer", "operator", "admin">>
Rank(role) == CHOOSE i \in DOMAIN ROLES : ROLES[i] = role
RoleFromClaims(S) ==
    IF "ADMIN" \in S THEN "admin" ELSE IF "OPERATOR" \in S THEN "operator" ELSE "viewer"
Anonymous == [sub |-> 0, role |-> "viewer"]
\* a token that is missing or has expired is worth nothing
Authenticate(pair) ==
    IF pair = 0 \/ age[pair] >= TTL THEN Anonymous
    ELSE [sub |-> pair, role |-> RoleFromClaims(claims[pair])]
HasRole(u, min) == Rank(u.role) >= Rank(min)
\* AuthGuard.canActivate for a handler with a minimal role
CanActivate(pair, min) ==
    LET u == Authenticate(pair) IN
    IF HasRole(u, min) THEN 200 ELSE IF u.sub = 0 THEN 401 ELSE 403

TypeOK ==
    /\ claims \in Seq(ClaimSets) /\ Len(claims) <= MaxPairs
    /\ age \in Seq(0..TTL) /\ Len(age) = Len(claims)
    /\ valid \subseteq Pairs
    /\ {ref, storage, access} \subseteq Pairs \union {0}
    /\ user.sub \in Pairs \union {0} /\ user.role \in Range(ROLES)
    /\ timer \in 0..RefreshInterval
    /\ {ready, disturbed, over} \subseteq BOOLEAN
    /\ modal \in {"closed", "credentials", "twoFactor"}
    /\ Len(calls) <= MaxCalls
    /\ \A c \in Calls : /\ c.op \in Ops
                        /\ c.step \in {"asked", "granted", "challenged", "denied", "me"}
                        /\ {c.token, c.pair} \subseteq Pairs \union {0}
                        /\ c.form => modal # "closed"

\* A page that is opened with no session
Init ==
    /\ claims = << >> /\ age = << >> /\ valid = {}
    /\ ref = 0 /\ storage = 0 /\ access = 0 /\ user = Anonymous /\ timer = 0
    /\ ready = TRUE
    /\ modal = "closed"
    /\ calls = << >>
    /\ disturbed = FALSE /\ over = FALSE

-----------------------------------------------------------------------------
\* The auth service, through AuthProxyService.forward

Issue(S) ==
    /\ Len(claims) < MaxPairs
    /\ claims' = Append(claims, S) /\ age' = Append(age, 0)
Step(k, step) == calls' = [calls EXCEPT ![k].step = step]
Grant(k) == calls' = [calls EXCEPT ![k].step = "granted", ![k].pair = Len(claims')]

Refreshing(c) == c.op \in {"restore", "renew"}

\* A refresh token is good for one refresh.
ServeRefresh(k) ==
    /\ Refreshing(calls[k])
    /\ calls[k].token \in valid
    /\ Issue(claims[calls[k].token])
    /\ valid' = (valid \ {calls[k].token}) \union {Len(claims')}
    /\ \/ Grant(k) /\ UNCHANGED disturbed
       \/ Step(k, "denied") /\ disturbed' = TRUE    \* the answer is lost

ServeLogin(k) ==
    /\ calls[k].op \in {"login", "verify"}
    /\ \/ /\ \E S \in ClaimSets : Issue(S)
          /\ valid' = valid \union {Len(claims')}
          /\ Grant(k)
       \/ /\ calls[k].op = "login"
          /\ Step(k, "challenged")
          /\ UNCHANGED service
    /\ UNCHANGED disturbed

\* The service refuses, or cannot be reached: of a token it still accepts only the
\* latter.
Refuse(k) ==
    /\ calls[k].op # "logout"
    /\ Step(k, "denied")
    /\ disturbed' = (disturbed \/ (Refreshing(calls[k]) /\ calls[k].token \in valid))
    /\ UNCHANGED service

\* Logging out is best effort: nobody waits for its answer.
ServeLogout(k) ==
    /\ calls[k].op = "logout"
    /\ valid' \in {valid, valid \ {calls[k].token}}
    /\ calls' = RemoveAt(calls, k)
    /\ UNCHANGED <<claims, age, disturbed>>

Serve(k) ==
    /\ calls[k].step = "asked"
    /\ ServeRefresh(k) \/ ServeLogin(k) \/ Refuse(k) \/ ServeLogout(k)
    /\ UNCHANGED <<session, timer, ready, modal, over>>

-----------------------------------------------------------------------------
\* AuthProvider

ForgetsRotation(n) ==    \* mutant of SetTokens
    /\ ref' = IF ref = 0 THEN n ELSE ref
    /\ storage' = n /\ access' = n
SetTokens(n) == ref' = n /\ storage' = n /\ access' = n

\* A form whose user is no longer anonymous leaves the screen, and starts again
\* with the credentials when it comes back.
Detached(cs) == [k \in DOMAIN cs |-> [cs[k] EXCEPT !.form = FALSE]]
SetUser(u, cs, form) ==
    /\ user' = u
    /\ calls' = IF u.sub # 0 \/ form = "closed" THEN Detached(cs) ELSE cs
    /\ modal' = IF u.sub # 0 /\ form # "closed" THEN "credentials" ELSE form

\* A call other than a logout is in flight.
Busy(cs) == \E i \in DOMAIN cs : cs[i].op # "logout"

\* The effect of an access token starts its interval again.
ClearKeepsStorage(cs) == \* mutant of ClearSession
    /\ ref' = 0 /\ storage' = storage /\ access' = 0 /\ timer' = 0
    /\ SetUser(Anonymous, cs, modal)
    /\ disturbed' = Busy(cs)
ClearSession(cs) ==
    /\ ref' = 0 /\ storage' = 0 /\ access' = 0 /\ timer' = 0
    /\ SetUser(Anonymous, cs, modal)
    /\ disturbed' = Busy(cs)

ReadyOnSuccess(k) == ready' = (ready \/ (calls[k].op = "restore" /\ calls[k].step = "me"))
Finally(k) == ready' = (ready \/ calls[k].op = "restore")

\* applySession: the tokens at once, the user when fetchMe has answered.  A pair
\* that comes late expires before it is renewed.
Late(pair) == age[pair] >= TTL - RefreshInterval
ApplySession(k) ==
    /\ calls[k].step = "granted"
    /\ SetTokens(calls[k].pair)
    /\ timer' = 0
    /\ Step(k, "me")
    /\ disturbed' = (Busy(RemoveAt(calls, k)) \/ Late(calls[k].pair))
    /\ UNCHANGED <<service, user, ready, modal, over>>

\* setUser(await fetchMe()): the user of the pair, or ANONYMOUS for an answer
\* that is not ok.  The login form closes, whichever is open by then.
Me(k) ==
    /\ calls[k].step = "me"
    /\ \E u \in {Authenticate(calls[k].pair), Anonymous} :
          /\ SetUser(u, RemoveAt(calls, k),
                     IF Refreshing(calls[k]) THEN modal ELSE "closed")
          /\ disturbed' = (disturbed \/ u # Authenticate(calls[k].pair))
    /\ Finally(k)
    /\ UNCHANGED <<service, ref, storage, access, timer, over>>

\* The call is refused, or fetchMe throws: a refresh ends the session, whichever
\* it is by then; the form shows the error and keeps what was applied.
Fails(k) ==
    /\ calls[k].step \in {"denied", "me"}
    /\ IF Refreshing(calls[k])
       THEN ClearSession(RemoveAt(calls, k))
       ELSE /\ calls' = RemoveAt(calls, k)
            /\ disturbed' = (disturbed \/ calls[k].step = "me")
            /\ UNCHANGED <<session, timer, modal>>
    /\ Finally(k)
    /\ UNCHANGED <<service, over>>

Ask(op, token) ==
    /\ Len(calls) < MaxCalls
    /\ calls' = Append(calls, Call(op, token))
    /\ disturbed' = (disturbed \/ Busy(calls))

\* The setInterval of an open session: it renews, and starts over.
RenewsLate == access # 0 /\ timer = TTL     \* mutant of Due
Due == access # 0 /\ timer = RefreshInterval
Renew ==
    /\ Due /\ ref # 0
    /\ Ask("renew", ref)
    /\ timer' = 0
    /\ UNCHANGED <<service, session, ready, modal, over>>

\* Time passes.
Tick ==
    /\ ~Due
    /\ age' = [p \in Pairs |-> IF age[p] < TTL THEN age[p] + 1 ELSE TTL]
    /\ timer' = IF access = 0 THEN timer ELSE timer + 1
    /\ UNCHANGED <<claims, valid, session, ready, modal, calls, disturbed, over>>

Logout ==
    /\ user.sub # 0
    /\ Len(calls) < MaxCalls
    /\ ClearSession(IF ref = 0 THEN calls ELSE Append(calls, Call("logout", ref)))
    /\ over' = (\A c \in Calls : c.op = "logout")
    /\ UNCHANGED <<service, ready>>

\* The page is loaded again: a stored token is refreshed.  What was in flight
\* reaches the auth service, or does not.
Reload ==
    /\ ref' = 0 /\ access' = 0 /\ user' = Anonymous /\ timer' = 0
    /\ modal' = "closed"
    /\ ready' = (storage = 0)
    /\ calls' = IF storage = 0 THEN << >> ELSE <<Call("restore", storage)>>
    /\ \E S \in SUBSET {c.token : c \in Calls} : valid' = valid \ S
    /\ disturbed' = (storage # 0 /\ \E c \in Calls : c.token = storage)
    /\ UNCHANGED <<claims, age, storage, over>>

-----------------------------------------------------------------------------
\* LoginModal

Submitting == \E c \in Calls : c.form
Shown == user.sub = 0 /\ modal # "closed"

OpenOrClose ==
    /\ user.sub = 0
    /\ modal' = IF modal = "closed" THEN "credentials" ELSE "closed"
    /\ calls' = Detached(calls)
    /\ UNCHANGED <<service, session, timer, ready, disturbed, over>>

\* onSubmitCredentials, onSubmitTwoFactor
Submit ==
    /\ Shown /\ ~Submitting
    /\ Ask(IF modal = "twoFactor" THEN "verify" ELSE "login", 0)
    /\ over' = FALSE
    /\ UNCHANGED <<service, session, timer, ready, modal>>

Challenged(k) ==
    /\ calls[k].step = "challenged"
    /\ modal' = IF calls[k].form THEN "twoFactor" ELSE modal
    /\ calls' = RemoveAt(calls, k)
    /\ UNCHANGED <<service, session, timer, ready, disturbed, over>>

-----------------------------------------------------------------------------
Answer(k) == Serve(k) \/ ApplySession(k) \/ Me(k) \/ Fails(k) \/ Challenged(k)
Next ==
    \/ Renew \/ Tick \/ Logout \/ Reload \/ OpenOrClose \/ Submit
    \/ \E k \in 1..MaxCalls : k \in DOMAIN calls /\ Answer(k)

\* Every call is answered, or fails.
FairSpec ==
    /\ Init /\ [][Next]_vars
    /\ WF_vars(1 \in DOMAIN calls /\ Answer(1))
-----------------------------------------------------------------------------
\* Properties

\* A session is cut by a refused refresh only after a disturbance: as long as its
\* calls do not overlap and the service answers, the token that an interval or a
\* reload sends is the one the service accepts, whatever was rotated, logged out
\* or logged in before.  After a disturbance the provider does cut: one refused
\* or lost renewal ends a session, also one opened since (auth-provider.tsx:72,85).
SessionKept == \A c \in Calls : Refreshing(c) /\ c.step = "denied" => disturbed

\* At rest in an undisturbed session, what the page offers is what the API allows,
\* for every minimal role: the user shown is the one of the pair that is sent,
\* and that pair is renewed before it expires.
RolesAgree ==
    calls = << >> /\ ~disturbed =>
        \A min \in Range(ROLES) : HasRole(user, min) <=> CanActivate(access, min) = 200

\* A user who logs out with nothing in flight is out, and stays out until the
\* next login: no interval, reload or late answer brings the session back.
LogoutSticks == over => access = 0 /\ user = Anonymous

\* A page that is not reloaded for ever gets ready, with its session restored or
\* without it.
GetsReady == <>[][~Reload]_vars => (~ready ~> ready)
=============================================================================
