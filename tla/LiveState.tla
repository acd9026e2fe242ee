----------------------------- MODULE LiveState -----------------------------
(***************************************************************************)
(* The state of the containers, from the Docker daemon to a browser:       *)
(* containers.service.ts subscribes to the daemon's events and inspects    *)
(* the container of each, live.gateway.ts publishes to the room of the     *)
(* service, live-provider.tsx asks for a snapshot on every connection and  *)
(* then joins the rooms.                                                   *)
(*                                                                         *)
(* The state of a container is a version: the daemon's grows with every    *)
(* change, 0 is a container that is not there (shown as exited).  A socket *)
(* delivers in order and the client only reacts, so what is emitted to it  *)
(* is applied in the same step.                                            *)
(***************************************************************************)
EXTENDS Naturals, Sequences, FiniteSets, SequencesExt   \* RemoveAt

CONSTANTS Containers,
          MaxRooms,     \* MAX_ROOMS_PER_REQUEST
          MaxVersion,   \* bound: the changes of a container
          MaxCalls      \* bound: the inspects of a container in flight

ASSUME LiveAssumption ==
    /\ IsFiniteSet(Containers)
    /\ MaxRooms \in Nat \ {0}
    /\ MaxVersion \in Nat \ {0}
    /\ MaxCalls \in Nat \ {0}

VARIABLES
    now,       \* the daemon's state of each container
    stopped,   \* ContainersService.stopped
    opening,   \* getEvents() awaited
    streams,   \* event streams that deliver
    failing,   \* streams that have emitted `error', and may still emit `end'
    timers,    \* ContainersService.retryTimer: those armed
    calls,     \* publishFromEvent() in flight: what its inspect has read
    conn,      \* the socket is connected
    sync,      \* where resync() is
    snap,      \* the snapshot being made
    rooms,     \* the rooms the socket is in
    view,      \* services: what the cards show
    gap,       \* the newest state that was not delivered to the client
    newest     \* the newest state the card was given since its snapshot

events == <<stopped, opening, streams, failing, timers>>
client == <<conn, sync, snap, rooms, view>>
vars == <<now, events, calls, client, gap, newest>>

Exited == 0
Versions == 0..MaxVersion
Unread == MaxVersion + 1        \* asked of the daemon, not read yet
Unlisted == MaxVersion + 2      \* not among the containers of the snapshot

TypeOK ==
    /\ now \in [Containers -> Versions]
    /\ stopped \in BOOLEAN
    /\ {opening, streams, failing, timers} \subseteq Nat
    /\ calls \in [Containers -> Seq(Versions \union {Unread})]
    /\ \A c \in Containers : Len(calls[c]) <= MaxCalls
    /\ conn \in BOOLEAN
    /\ sync \in {"none", "asked", "reading", "applied", "joined", "failed"}
    /\ snap \in [Containers -> Versions \union {Unread, Unlisted}]
    /\ rooms \subseteq Containers
    /\ Cardinality(rooms) <= MaxRooms
    /\ view \in [Containers -> Versions]
    /\ gap \in [Containers -> Versions]
    /\ newest \in [Containers -> Versions]

Everywhere(x) == [c \in Containers |-> x]

\* Some containers run before the dashboard starts; onModuleInit subscribes.
Init ==
    /\ now \in [Containers -> {Exited, Exited + 1}]
    /\ stopped = FALSE
    /\ opening = 1 /\ streams = 0 /\ failing = 0 /\ timers = 0
    /\ calls = Everywhere(<< >>)
    /\ conn = FALSE /\ sync = "none"
    /\ snap = Everywhere(Unlisted)
    /\ rooms = {}
    /\ view = Everywhere(Exited)
    /\ gap = Everywhere(Exited)
    /\ newest = Everywhere(Exited)

-----------------------------------------------------------------------------
\* The subscription to the daemon's events

ScheduleAnother == timers' = IF stopped THEN timers ELSE timers + 1
ScheduleRetry == timers' = IF stopped \/ timers > 0 THEN timers ELSE timers + 1

\* subscribeToDockerEvents: getEvents() answers, also after the service stopped
Opens ==
    /\ opening > 0
    /\ opening' = opening - 1
    /\ streams' = streams + 1
    /\ UNCHANGED <<now, stopped, failing, timers, calls, client, gap, newest>>

OpenFails ==
    /\ opening > 0
    /\ opening' = opening - 1
    /\ ScheduleRetry
    /\ UNCHANGED <<now, stopped, streams, failing, calls, client, gap, newest>>

\* The stream ends; or it emits an error, and an end that follows at once.
StreamEnds ==
    /\ streams > 0
    /\ streams' = streams - 1
    /\ failing' \in {failing, failing + 1}
    /\ ScheduleRetry
    /\ UNCHANGED <<now, stopped, opening, calls, client, gap, newest>>

EndAfterError ==
    /\ failing > 0
    /\ failing' = failing - 1
    /\ ScheduleRetry
    /\ UNCHANGED <<now, stopped, opening, streams, calls, client, gap, newest>>

\* scheduleRetry's timer, five seconds later
RetryNever == UNCHANGED opening
Resubscribe == opening' = IF stopped THEN opening ELSE opening + 1
Retry ==
    /\ timers > 0 /\ failing = 0
    /\ timers' = timers - 1
    /\ Resubscribe
    /\ UNCHANGED <<now, stopped, streams, failing, calls, client, gap, newest>>

\* onModuleDestroy: a stream that is still being opened is not seen
ModuleDestroy ==
    /\ ~stopped
    /\ stopped' = TRUE
    /\ timers' = 0
    /\ streams' = 0
    /\ UNCHANGED <<now, opening, failing, calls, client, gap, newest>>

-----------------------------------------------------------------------------
\* From an event to a card

Missed(c, v) == gap' = [gap EXCEPT ![c] = IF v > @ THEN v ELSE @]

\* A container changes.  With no stream the event is lost; otherwise
\* handleEventLine calls publishFromEvent, which awaits an inspect.
CallUnlessBusy(c) ==
    calls' = IF calls[c] = << >> THEN [calls EXCEPT ![c] = <<Unread>>] ELSE calls
PublishFromEvent(c) ==
    /\ Len(calls[c]) < MaxCalls
    /\ calls' = [calls EXCEPT ![c] = Append(@, Unread)]

Change(c) ==
    /\ now[c] < MaxVersion
    /\ now' = [now EXCEPT ![c] = @ + 1]
    /\ IF streams > 0
       THEN PublishFromEvent(c) /\ UNCHANGED gap
       ELSE Missed(c, now'[c]) /\ UNCHANGED calls
    /\ UNCHANGED <<events, client, newest>>

\* The daemon answers an inspect: its state of that moment, or an error, which
\* publishFromEvent turns into a container that has exited.
InspectState(c) ==
    /\ \E i \in DOMAIN calls[c] :
          /\ calls[c][i] = Unread
          /\ \/ calls' = [calls EXCEPT ![c][i] = now[c]] /\ UNCHANGED gap
             \/ calls' = [calls EXCEPT ![c][i] = Exited] /\ Missed(c, now[c])
    /\ UNCHANGED <<now, events, client, newest>>

\* applyUpdate(services, update)
ApplyUpdate(c, v) ==
    /\ view' = [view EXCEPT ![c] = v]
    /\ newest' = [newest EXCEPT ![c] = IF v > @ THEN v ELSE @]

\* The update is emitted to the room of the service.
PublishUpdate(c) ==
    /\ \E i \in DOMAIN calls[c] :
          LET v == calls[c][i] IN
          /\ v # Unread
          /\ calls' = [calls EXCEPT ![c] = RemoveAt(@, i)]
          /\ IF c \in rooms
             THEN ApplyUpdate(c, v) /\ UNCHANGED gap
             ELSE Missed(c, v) /\ UNCHANGED <<view, newest>>
    /\ UNCHANGED <<now, events, conn, sync, snap, rooms>>

-----------------------------------------------------------------------------
\* The connection of a client

\* connect: resync() asks for a snapshot
Connect ==
    /\ ~conn
    /\ conn' = TRUE
    /\ sync' = "asked"
    /\ UNCHANGED <<now, events, calls, snap, rooms, view, gap, newest>>

\* disconnect, and the end of a socket whose token has changed: the rooms are
\* lost, and with them the answers on their way
Disconnect ==
    /\ conn
    /\ conn' = FALSE
    /\ sync' = "none"
    /\ snap' = Everywhere(Unlisted)
    /\ rooms' = {}
    /\ UNCHANGED <<now, events, calls, view, gap, newest>>

\* getSnapshot: the containers are listed, and then inspected one by one
List ==
    /\ sync = "asked"
    /\ sync' = "reading"
    /\ snap' = [c \in Containers |-> IF now[c] # Exited THEN Unread ELSE Unlisted]
    /\ UNCHANGED <<now, events, calls, conn, rooms, view, gap, newest>>

ListFails ==
    /\ sync = "asked"
    /\ sync' = "failed"
    /\ UNCHANGED <<now, events, calls, conn, snap, rooms, view, gap, newest>>

\* A container that cannot be inspected is left out.
InspectForSnapshot(c) ==
    /\ sync = "reading"
    /\ snap[c] = Unread
    /\ \E v \in {now[c], Unlisted} : snap' = [snap EXCEPT ![c] = v]
    /\ UNCHANGED <<now, events, calls, conn, sync, rooms, view, gap, newest>>

Listed == {c \in Containers : snap[c] # Unlisted}

\* setServices(snapshot): what it does not name disappears
ApplySnapshot ==
    /\ sync = "reading"
    /\ \A c \in Containers : snap[c] # Unread
    /\ view' = [c \in Containers |-> IF c \in Listed THEN snap[c] ELSE Exited]
    /\ newest' = view'
    /\ sync' = IF Listed = {} THEN "joined" ELSE "applied"
    /\ UNCHANGED <<now, events, calls, conn, snap, rooms, gap>>

\* rooms:subscribe with what the snapshot named, and no more than MaxRooms (the
\* first ones of the request, here any)
EveryRoom(S) == {S}
SanitizeServices(S) ==
    {R \in SUBSET S : Cardinality(R) = IF Cardinality(S) > MaxRooms
                                       THEN MaxRooms ELSE Cardinality(S)}
JoinRooms ==
    /\ sync = "applied"
    /\ rooms' \in SanitizeServices(Listed)
    /\ sync' = "joined"
    /\ UNCHANGED <<now, events, calls, conn, snap, view, gap, newest>>

-----------------------------------------------------------------------------
Events == Opens \/ OpenFails \/ StreamEnds \/ EndAfterError \/ Retry \/ ModuleDestroy
Publications ==
    \E c \in Containers : Change(c) \/ InspectState(c) \/ PublishUpdate(c)
Client ==
    \/ Connect \/ Disconnect
    \/ List \/ ListFails \/ ApplySnapshot \/ JoinRooms
    \/ \E c \in Containers : InspectForSnapshot(c)

Next == Events \/ Publications \/ Client

\* Timers fire, the end of a failed stream is emitted, and getEvents() answers;
\* the daemon does not refuse it for ever.
FairSpec ==
    /\ Init /\ [][Next]_vars
    /\ WF_vars(Retry) /\ WF_vars(EndAfterError)
    /\ WF_vars(Opens \/ OpenFails) /\ SF_vars(Opens)
-----------------------------------------------------------------------------
\* Properties

\* The daemon's events are handled once: whatever a stream emits on its way
\* down, it is replaced by one stream, and nothing is tried again after the
\* service has stopped.
OneSubscription ==
    /\ opening + streams + timers <= 1
    /\ stopped => timers = 0

\* The service does not stay deaf: a lost or refused stream is opened again.
Resubscribes == ~stopped ~> (streams > 0 \/ stopped)

\* A card that is in its room, with nothing on the way, shows the state of its
\* container, but for these reasons: the newest event was lost with the stream,
\* its inspect failed, its update was published before the room was joined, or
\* the card was given the newest state and then an older one, because the
\* inspects of the events were answered in another order.
CardInStep ==
    \A c \in Containers :
        c \in rooms /\ calls[c] = << >> /\ view[c] # now[c]
            => gap[c] = now[c] \/ newest[c] = now[c]
=============================================================================
