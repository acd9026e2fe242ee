---------------------------- MODULE LogsService ----------------------------
(***************************************************************************)
(* The registry of live log sessions: apps/api/src/logs/logs.service.ts,   *)
(* driven by the handlers of apps/api/src/gateway/live.gateway.ts.         *)
(*                                                                         *)
(* subscribe() is a call with two awaits: findManagedByName (`lookup') and *)
(* the daemon's logs stream (`opening').  Between them any other handler   *)
(* runs, also for the same socket.  A session is known by the call that    *)
(* created it; what a session does with its lines is module LogSession.    *)
(***************************************************************************)
EXTENDS Naturals, FiniteSets

CONSTANTS Sockets,      \* socket ids; an id is never used again
          Containers,
          Calls,        \* bound: the subscribe() calls of a behaviour
          MaxSessions,  \* MAX_SESSIONS_PER_SOCKET
          None

ASSUME ServiceAssumption ==
    /\ MaxSessions \in Nat \ {0}
    /\ None \notin Calls
    /\ IsFiniteSet(Calls)

VARIABLES
    sessions,   \* the Map: key |-> the call whose session is registered
    pc,         \* where a subscribe() call is
    key,        \* the key a call asked for: <<socket, container>>
    session,    \* the session a call created
    stream,     \* the daemon's stream of that session
    connected,  \* sockets the gateway still serves
    overlapped  \* history: sockets with a request handled during a lookup

vars == <<sessions, pc, key, session, stream, connected, overlapped>>

Keys == Sockets \X Containers

TypeOK ==
    /\ sessions \in [Keys -> Calls \union {None}]
    /\ pc \in [Calls -> {"idle", "lookup", "opening", "done"}]
    /\ key \in [Calls -> Keys \union {None}]
    /\ session \in [Calls -> {"none", "live", "closed"}]
    /\ stream \in [Calls -> {"none", "open", "released"}]
    /\ connected \subseteq Sockets
    /\ overlapped \subseteq Sockets

Init ==
    /\ sessions = [k \in Keys |-> None]
    /\ pc = [r \in Calls |-> "idle"]
    /\ key = [r \in Calls |-> None]
    /\ session = [r \in Calls |-> "none"]
    /\ stream = [r \in Calls |-> "none"]
    /\ connected = Sockets
    /\ overlapped = {}

-----------------------------------------------------------------------------
\* The sessions registered for a socket: sessionCountFor, destroyForSocket
Registered(s) == {sessions[<<s, c>>] : c \in Containers} \ {None}

\* close() of the sessions R.  Each destroys its source, and its onClose
\* deletes its key from the Map, whatever session the key leads to by now.
KeyKept(R) == sessions
CloseKeys(R) == [k \in Keys |-> IF \E r \in R : key[r] = k THEN None ELSE sessions[k]]
Close(R) ==
    /\ session' = [r \in Calls |-> IF r \in R THEN "closed" ELSE session[r]]
    /\ stream' = [r \in Calls |-> IF r \in R /\ stream[r] = "open"
                                  THEN "released" ELSE stream[r]]
    /\ sessions' = CloseKeys(R)

\* History: a request of s is handled while a subscribe() of s awaits its lookup.
Overlaps(s) ==
    overlapped' = IF \E r \in Calls : pc[r] = "lookup" /\ key[r][1] = s
                  THEN overlapped \union {s} ELSE overlapped

PastLimit(s) == Cardinality(Registered(s)) > MaxSessions
AtLimit(s) == Cardinality(Registered(s)) >= MaxSessions

\* subscribe(), up to its first await
Subscribe(r, s, c) ==
    /\ s \in connected
    /\ pc[r] = "idle"
    /\ key' = [key EXCEPT ![r] = <<s, c>>]
    /\ pc' = [pc EXCEPT ![r] = IF sessions[<<s, c>>] # None \/ AtLimit(s)
                               THEN "done" ELSE "lookup"]
    /\ Overlaps(s)
    /\ UNCHANGED <<sessions, session, stream, connected>>

\* The container is one of the stack's: the session is created and registered,
\* without a second look at the Map or the socket.
LookupFinds(r) ==
    /\ pc[r] = "lookup"
    /\ pc' = [pc EXCEPT ![r] = "opening"]
    /\ session' = [session EXCEPT ![r] = "live"]
    /\ sessions' = [sessions EXCEPT ![key[r]] = r]
    /\ UNCHANGED <<key, stream, connected, overlapped>>

\* The container is unknown, or the daemon does not answer.
LookupFails(r) ==
    /\ pc[r] = "lookup"
    /\ pc' = [pc EXCEPT ![r] = "done"]
    /\ UNCHANGED <<sessions, key, session, stream, connected, overlapped>>

\* The stream is open: attachSource() destroys it if the session was closed.
AttachAnyway(r) == "open"
Attached(r) == IF session[r] = "closed" THEN "released" ELSE "open"
StreamOpens(r) ==
    /\ pc[r] = "opening"
    /\ pc' = [pc EXCEPT ![r] = "done"]
    /\ stream' = [stream EXCEPT ![r] = Attached(r)]
    /\ UNCHANGED <<sessions, key, session, connected, overlapped>>

\* The daemon refuses the stream: the catch of subscribe() closes the session,
\* a second close() does nothing.
StreamFails(r) ==
    /\ pc[r] = "opening"
    /\ pc' = [pc EXCEPT ![r] = "done"]
    /\ IF session[r] = "live" THEN Close({r})
                              ELSE UNCHANGED <<sessions, session, stream>>
    /\ UNCHANGED <<key, connected, overlapped>>

\* The session closes by itself: its stream ended or broke, or an ack expired.
SessionCloses(r) ==
    /\ session[r] = "live"
    /\ stream[r] = "open"
    /\ Close({r})
    /\ UNCHANGED <<pc, key, connected, overlapped>>

\* unsubscribe()
Unsubscribe(s, c) ==
    /\ s \in connected
    /\ Close({sessions[<<s, c>>]} \ {None})
    /\ Overlaps(s)
    /\ UNCHANGED <<pc, key, connected>>

\* handleDisconnect, which calls destroyForSocket()
Destroyed(s) == Registered(s)
DestroyedNone(s) == {}
Disconnect(s) ==
    /\ s \in connected
    /\ connected' = connected \ {s}
    /\ Close(Destroyed(s))
    /\ Overlaps(s)
    /\ UNCHANGED <<pc, key>>

\* onModuleDestroy
ModuleDestroy ==
    /\ Close(UNION {Registered(s) : s \in Sockets})
    /\ UNCHANGED <<pc, key, connected, overlapped>>

Gateway ==
    \/ \E s \in Sockets, c \in Containers :
          \/ \E r \in Calls : Subscribe(r, s, c)
          \/ Unsubscribe(s, c)
    \/ \E s \in Sockets : Disconnect(s)
    \/ ModuleDestroy

Daemon ==
    \E r \in Calls :
        \/ LookupFinds(r) \/ LookupFails(r)
        \/ StreamOpens(r) \/ StreamFails(r) \/ SessionCloses(r)

Next == Gateway \/ Daemon

Spec == Init /\ [][Next]_vars

-----------------------------------------------------------------------------
\* Properties

Live(s) == {r \in Calls : session[r] = "live" /\ key[r][1] = s}

\* The Map leads only to live sessions, each under its own key: unsubscribe and
\* has(key) never act on a session that is over.
RegistryIsLive ==
    \A k \in Keys : sessions[k] # None =>
        session[sessions[k]] = "live" /\ key[sessions[k]] = k

\* As long as no request of a client is handled while one of its own lookups
\* is pending, the client can reach every session it has (unsubscribe closes
\* it), has no more than the limit, and has none once it is gone.
SequentialClients ==
    \A s \in Sockets \ overlapped :
        /\ Live(s) = Registered(s)
        /\ Cardinality(Live(s)) <= MaxSessions
        /\ s \notin connected => Live(s) = {}

\* No stream of the daemon outlives its session, even one that opens after its
\* session was closed.
StreamsFollowSessions ==
    \A r \in Calls : session[r] = "closed" => stream[r] # "open"

\* handleDisconnect: "Cortar todos los streams de logs del cliente: nada queda
\* colgado."  It fails when the client leaves during its lookup.
NothingLeftHanging ==
    \A s \in Sockets \ connected : \A r \in Live(s) : pc[r] # "done"
=============================================================================
