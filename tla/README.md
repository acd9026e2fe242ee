# core-dashboard: TLA+ models, checks and proofs

core-dashboard is an operations dashboard for a stack of Docker containers: a
NestJS API (`apps/api`), a Next.js client (`apps/web`) and shared types
(`packages/shared`). The API follows the Docker daemon, pushes state and logs to
browsers over Socket.IO, sends alerts through ops-notify-bot, and restarts
containers for operators. This directory holds the TLA+ models of its stateful
parts, the TLC configurations that check them and the TLAPS proofs about them.
Paths below are relative to the repository root.

- [How to run](#how-to-run)
- [The system](#the-system)
- [Modules](#modules)
- [Runs](#runs)
- [Fairness](#fairness)
- [Divergences found](#divergences-found)
- [Proofs](#proofs)
- [Not modelled](#not-modelled)
- [Plan](#plan)

## How to run

    tlc -workers 2 -config MCLogSession.cfg LogView
    tlapm LogSession_proofs.tla

The other runs are in the table [below](#runs); the other modules to prove are
`LogsService_proofs`, `Alerts_proofs`, `Actions_proofs`, `LiveState_proofs`,
`Panels_proofs`, `AuthSession_proofs` and `TaskforgeJobs_proofs`. None needs more than
a few minutes.

`PROJECT.json` lists every run with its properties, a mutant of the code for every
property, the source lines each definition models, the hazards, and the theorems.
An operator that no other definition uses and whose name tells of a bug
(`PauseForgotten`, `DropsNewest`) is the body of such a mutant.

## The system

Node runs one callback at a time, so a step of a model is the code between two
awaits; what interleaves are the calls that are suspended at one.

| Component | State it keeps | Operations | Talks to | Hard behaviour |
|---|---|---|---|---|
| Log session (`logs/log-session.ts`) | queue, dropped count, flags, source | push, flush, end, close, attachSource | the daemon's stream, the client's acks | backpressure, drain at the end, late stream, expired acks |
| Log registry (`logs/logs.service.ts`) | Map of sessions by socket and container | subscribe, unsubscribe, destroyForSocket | ContainersService, Docker, sessions | two awaits inside subscribe |
| Log view (`lib/live/use-container-logs.ts`, `logs-buffer.ts`) | ring buffer | apply a batch, ack it | session, registry | batches after a timeout, effects that run twice |
| Alerts (`alerts/alerts.service.ts`) | pending timers, last alerts, containers seen | handleUpdate, timer, maybeAlert | ContainersService, AlertSetting, ops-notify-bot | coalescing, cooldown, calls waiting for the database |
| Restarts (`actions/actions.service.ts`) | last restart per container, recent restarts | restartContainer | ContainersService, AuditLog | concurrent clicks, partial failure |
| Restart button (`components/restart-button.tsx`) | what it shows, its timers | first click, second click, answer, timer | `ActionsService` | timers nobody cancels |
| Containers (`containers/containers.service.ts`) | event stream, retry timer | snapshot, lookup, restart, publish an update per event | Docker, gateway, Alerts | an inspect per event, reconnection, shutdown |
| Live gateway (`gateway/live.gateway.ts`) | rooms of Socket.IO | rooms, resync, broadcasts, log handlers | everything live | disconnect during a handler |
| Live provider (`lib/live/live-provider.tsx`) | services shown, socket | snapshot, room join, updates | gateway | updates between snapshot and join |
| Alert feed (`alerts/alerts-poller.service.ts`, `components/alerts-feed-panel.tsx`) | last alert seen; the pages read | poll, push, read a page | ops-notify-bot, gateway | overlapping polls, bursts, lost pushes |
| Taskforge client and job runs (`jobs/`) | cached token, request in flight; JobRun rows | enqueue, refresh | auth service, taskforge, database | single flight, half-done enqueue, late refreshes |
| Browser session (`lib/auth/`, `components/login-modal.tsx`, `user-menu.tsx`) | tokens, user, login form | restore, login, refresh, logout | auth proxy, guard | answers that arrive after a logout or a login |
| Metrics (`metrics/`, `components/metrics-panel.tsx`) | MetricRollup rows; the charts read | rollup, purge, history, live series | Prometheus, database | ticks that fail half-way or overlap, purges between two answers |
| Retention (`retention/`) | AuditLog and JobRun rows | purge | database | a row that goes while it is refreshed |
| Auth guard, proxies, health, audit queries, other panels | none of their own | one request, one answer | | |

How they interact:

- Docker's events reach `ContainersService`, whose emitter calls the gateway (a
  `state:update` to the service's room) and `AlertsService`.
- A browser takes a snapshot by `state:resync`, joins the rooms and applies updates.
- `logs:subscribe` creates a session, which reads the daemon's log stream and sends
  `logs:batch` messages; the client acks each one after applying it.
- A restart goes from the button through the guard to `ActionsService` and Docker;
  its events come back as updates and as one "restarted" alert.
- The feed of alerts is polled from ops-notify-bot and announced to every client.

What makes each modelled part correct:

- Log session: every line is delivered in order or reported as dropped where the gap
  is; nothing waits for a wake-up that never comes; the tail of a container that
  stops is sent before its session closes by itself; no stream outlives its session.
- Registry: the Map leads only to live sessions; a client keeps within its limit and
  leaves nothing behind.
- Alerts: two alerts of a kind are a cooldown apart; a container that came back is
  not reported as down; a death is told.
- Restarts: cooldown and budget hold however requests overlap; what is answered, what
  is audited and what the button shows agree with what Docker did.
- Live state: the daemon's events are handled once and again after a failure; a card
  in its room shows its container's state, or one of four known things went wrong.
- Alert feed: an alert is announced once and shown in the end.
- Taskforge: callers share one token request, and none waits for ever; a run that
  ended keeps its end.
- Browser session: rotation and expiry alone never cut a session nor let the page
  offer what the API refuses, which takes calls that overlap or fail; a user who logged
  out with nothing in flight stays out.
- Metrics: every point of a chart is about the container, kind and time it is drawn
  for; nothing the API may still be asked for is purged.

## Modules

| Module | Models | Correspondence |
|---|---|---|
| `LogDelivery` | what a session promises (abstract) | lines are numbered; `Deliver(d, n)` skips `d` lines, reports them and carries the next `n` |
| `LogSession` | `log-session.ts` and the stream `logs.service.ts` attaches | one variable per field; `PushLine` is `push` with the `flush` it starts; `Ack` and `AckTimeout` are what follows the `await` in `flush`; `StreamEnd` is `end()`, `StreamError` and `Cancel` are `close()` |
| `LogView` | the session with the browser | extends `LogSession`; `AppendBatch` is `appendBatch`; the ack of the session is the client's once it has applied the batch |
| `LogsService`, `MCLogsService` | `logs.service.ts` and the log handlers of the gateway | a call of `subscribe` is `lookup` then `opening`; a session is known by the call that created it and is abstracted to live or closed |
| `Alerts` | `alerts.service.ts`, and the switches of `alerts.controller.ts` | `Die`, `Restart`, `Start` are `handleUpdate` on each kind of update; `DieTimer` the timer; `ReadSetting` and `Answer` the two halves of `maybeAlert` |
| `Actions`, `MCActions` | `actions.service.ts` | `Request`, then `LookupFails`, `Refused` or `Allowed` (check, record and the call to Docker are one step), `Answers`, then `AuditWritten` or `AuditFails` |
| `RestartButton` (checked by `MCActions`) | `restart-button.tsx` in front of `Actions` | `SecondClick` is `Request` for its container; `Settled` the answer, or the end of a connection behind which the server goes on; `TimerFires` one of the two kinds of timer |
| `LiveState` | `containers.service.ts`, the state handlers of `live.gateway.ts`, `live-provider.tsx` | `Opens`, `OpenFails`, `StreamEnds`, `EndAfterError`, `Retry` are the event stream; `Change`, `InspectState`, `PublishUpdate` an event, its inspect and its update; `Connect`, `List`, `InspectForSnapshot`, `ApplySnapshot`, `JoinRooms` one `resync()` |
| `AlertFeed` | `alerts-poller.service.ts`, `notify-bot.client.ts`, `alerts-feed-panel.tsx` | `Poll` and `PollAnswers` are the two halves of `poll()`; `Announce` is `publishAlert` with `onNewAlert` in the browser; `Fetch`, `Invalidate`, `PageArrives` what react-query does with the page |
| `AuthSession`, `MCAuthSession` | `auth-provider.tsx`, `token-storage.ts`, `login-modal.tsx`, `user-menu.tsx`, the proxy, the guard and the roles | a call is asked (`Ask`), served (`Serve`), applied (`ApplySession`) and followed by `/me` (`Me`), or fails (`Fails`); `Due` and `Renew` are the interval, `Tick` is the clock; `Authenticate` and `CanActivate` are the token service and the guard |
| `TaskforgeJobs` | `taskforge-client.service.ts`, `jobs.service.ts`, the purge of job runs | `GetAccessToken` with its three outcomes, `Serve` or `ServeFails` for the request, `Create` and `Update` for the row |
| `MetricsRollup`, `MCMetricsRollup` | `metrics.service.ts`, `metrics.controller.ts`, `metrics-panel.tsx` | `Query` and `Insert` per kind and then `PurgeOldRollups` are one `rollupTick`; `Ask`, `Answer` one query of the panel with a request per kind |

The theorems are in modules of their own, named after what they are about:
`LogSession_proofs` (with `LogView`), `Actions_proofs` (with `RestartButton`),
`LogsService_proofs`, `Alerts_proofs`, `LiveState_proofs`, `TaskforgeJobs_proofs`,
`AuthSession_proofs`, and `Panels_proofs` for `AlertFeed` and `MetricsRollup`.

What is abstracted: a line is its position in the container's output; a chunk is the
number of complete lines in it; a timestamp is an age, kept up to the largest limit
that looks at it; texts, roles and the parsing of requests are left out. The lines of
one chunk are pushed by one callback, so between them only `PushLine` is enabled.
`Exit`, in `LogSession`, is the container's; the daemon then ends the stream once it
is read out, and Node delivers that end only to a stream that flows.

In the other modules a payload is the number that tells it from others: a container's
state is its version, an alert its place in the feed, a token pair the number of its
issue, an average what it was computed from: a container, a kind and an instant. In
`AuthSession` an access token is worth nothing once its age is `TTL`, and storage does
not fail; timers there are punctual, that is, `Tick` waits for an interval that is due
(a laptop that sleeps through one is not modelled). Of a live series Prometheus may
answer any of the steps, or none.

The environments: any sequence of updates (`Alerts`), of requests (`Actions`), of
subscribes, unsubscribes and disconnects (`LogsService`); Docker answers or fails;
the database answers or rejects. A rejection of `isEnabled()` is not caught anywhere,
so `Alerts` models it as the end of the process, like any other crash (`Reboot`).

`overlapped` (`LogsService`, `TaskforgeJobs`), `issued`, `quiet`, `dieAge`, `back`,
`owed` (`Actions`, `Alerts`), `gap`, `newest` (`LiveState`), `base`, `times`,
`overtaken` (`AlertFeed`), `cut` (`LogSession`), `disturbed`, `over` (`AuthSession`) and
`shown` (`RestartButton`) are history variables: no action reads them in a guard, and
properties are stated with them. (`Actions` ages the restarts in `issued`.)

## Runs

| Run | Bounds | What it shows |
|---|---|---|
| `session` | batch 3, queue 6, watermarks 4 and 1, chunks up to 5 lines, 13 lines, a screen of 5 | all properties of a session below, that it implements `LogDelivery`, that the screen and its counter add up (`ViewAddsUp`) and that the tail of a container is seen (`EndIsSeen`) |
| `service` | 2 clients, 2 containers, 3 subscribes, limit 1 | `RegistryIsLive`, `SequentialClients`, `StreamsFollowSessions` |
| `service_leak` | the same | `NothingLeftHanging` is violated |
| `alerts` | 2 containers, window 2, cooldown 3, 4 updates, 1 restart of the process, "down" alerts switchable | `CooldownHolds`, `NoFalseDown`, `DeathIsTold` |
| `alerts_down_only` | 1 container, "restarted" alerts switchable | `DeathIsTold` is violated |
| `alerts_redeploy` | 1 container | `RedeployIsNotDown` is violated |
| `actions` | 3 requests, 2 containers and a protected one, cooldown 1, budget 2 in a window of 2, pruning beyond 1 entry; a button with 2 timers at once | `CooldownHolds`, `BudgetHolds`, `RefusedForAReason`, `ToldAsDone`, `ButtonIsTrue` |
| `live` | 2 containers, 2 changes of each, 2 inspects of each in flight, 1 room per request | `OneSubscription`, `Resubscribes`, `CardInStep`; `TypeOK` bounds the rooms |
| `feed` | 3 alerts of 2 types, 1 filter, 2 polls in flight, 2 alerts per poll, 1 per page | `AnnouncedOnce`, `NothingSkipped`, `AlertIsShown` |
| `auth` | 3 token pairs, 2 calls in flight, tokens that live 2 ticks and are renewed after 1, an account without a role and an operator | `SessionKept`, `RolesAgree`, `LogoutSticks`, `GetsReady` |
| `jobs` | 2 calls in flight, 1 job, tokens that last 3 ticks with a margin of 1, 4 ticks | `TokenShared`, `EndIsKept`, `CallsEnd` |
| `metrics` | 2 containers, a tab of 2 kinds, live (one step) and a range of 3, buckets of 2, retention 3, 2 ticks at once, 1 chart at a time, 2 units of time | `ChartIsTrue`, `WindowKept` |

The properties of a session:

- `ExactAccounting`: a line has been accounted for by a batch, is counted in `dropped`
  or waits in the queue, which is the unbroken run of the newest lines.
- `FlushPending`: a session that has lines, is paused or is ending has a batch in
  flight, because only a push or a settled batch runs `flush` again.
- `PauseInStep`: `paused` and the stream agree; a paused source has more than
  `lowWater` lines to drain, a flowing one fewer than `highWater` in the queue.
- `EndDrains`: a session that closed without being cut, either at the end of its stream
  or at the ack of the batch that emptied its queue, has read all its container wrote and
  had every line acked or reported. Being cut (`cut`) is one of: an unsubscribe or a
  disconnect, an error of the stream, an ack that expired, a stream that could not be
  opened. The drained close looks to the variables of the code like an expired ack,
  which is why `cut` is kept.
- `NoOrphanStream`, `BoundedAndLossless`: see the comments in the module.
- `EveryLineAccounted`, `ExitCloses`: liveness, unless the session is cut. That a
  paused source is resumed follows: it has lines to drain (`PauseInStep`), and they
  are accounted for.

What the others say, in a sentence each (the modules say more):

- `OneSubscription`: whatever a stream emits on its way down, one stream replaces it.
  `Resubscribes`: a lost stream is opened again.
- `CardInStep` names the four ways in which a card can be wrong with nothing on the
  way: its event was lost with the stream, its inspect failed, its update was published
  before the room was joined, or the card was given the newest state and then an older
  one, because inspects were answered in another order. In every other case it shows
  the container.
- `AnnouncedOnce` and `NothingSkipped`: what overlapping polls and the page limit can
  do to an announcement, and nothing else. `AlertIsShown`: the interval of the panel
  makes up for every push that was lost.
- `SessionKept`: a refresh is refused only in a session that was disturbed since it was
  opened. `RolesAgree`: at rest and undisturbed, what the page offers is what the API
  allows, although tokens age, expire and are replaced. The disturbances (`disturbed`)
  are: calls that overlap, a pair applied so late that it expires before its renewal, a
  token the service accepts but whose refresh it refuses or whose answer is lost, an
  answer of `/me` that is not the user's, a `/me` that breaks off after a login, and a
  reload with the stored token in flight. None can be spared: with any one of them left
  out of the definition TLC finds a session cut or an offer that is refused. In
  particular a single refused or lost renewal ends a session
  (`auth-provider.tsx:72`, `:85`), whatever the comment at line 19 hopes for.
- `LogoutSticks`: a logout with nothing in flight is final; with a renewal in flight it
  is not, since `auth-provider.tsx:84` applies its answer.
- `TokenShared`: one token request at a time, and a cached expiry that is never late.
  `CallsEnd`: a call that waits for another call's request ends with it.
  `EndIsKept`: COMPLETED is not taken back, but by overlapping refreshes or by an
  answer that could not be read (`taskforge-client.service.ts:173` reads it as `{}`).
- `ChartIsTrue`: the value of a point was computed for the container and the kind it is
  drawn for, and for the bucket or the instant it is drawn at. A point that is missing
  (a gap, a kind whose rollup failed) is not wrong. `WindowKept`: `RETENTION_DAYS` and the controller's 720 hours agree.
- `ButtonIsTrue`: "done" is a restart that Docker did and the audit log knows; a
  disabled button waits for an answer.

`LogsService`, `Alerts`, `LogView`, `RestartButton`, `AlertFeed`, `AuthSession`,
`TaskforgeJobs` and `MetricsRollup` state a type invariant that holds in the same
instances and that no run lists: their other properties say more. But for
`MetricsRollup`'s, all of them are proved.

Why the bounds are enough; the safety properties are [proved](#proofs) for all bounds
anyway. In `session` the queue can overflow within one chunk
(a chunk of 5 on a queue that already holds lines), pass both watermarks, and be
drained by several batches, the thirteen lines allow two overflows and fill the screen
more than twice. In `service` three calls are what it takes for two overlapping
subscribes of one client next to another client's, and a limit of 1 is reached by one
session. In `alerts` four updates fit a
death, a recovery, a second death and a restart of one container, or two deaths of
each; window and cooldown differ, so that a cooldown outlives a window. In `actions`
two restarts spend the budget and the third request is the one that must be refused,
also after a pruning: the code prunes beyond `GLOBAL_LIMIT * 4` entries, which
`PruneOver` brings within reach of three requests.

In `live` two changes of a container are what two inspects in the other order take, and
a second container is what one room does not hold; a third change would let a card go
back twice, which is left to the theorem. In `feed` three alerts are one more than a
poll reads, and two polls can overtake each other. In `auth` two calls are a renewal
and what overtakes it, three pairs a login, a renewal and a second login. In
`jobs` two calls share a request, or refresh one run together; four ticks outlast a
token; in `auth` a life of two ticks is the least that leaves room for an interval
before the end. In `metrics` two units of time close a bucket while a tick of the one
before runs, and a retention of three puts its row first on the boundary of the purge
and then past it; two containers and two kinds are what a filter can mix up. A history
chart shows at most one point within these bounds: that points of several buckets do not
mix is left to the theorem.

Deadlock is checked except where the system really stops: in `session` (a closed
session), `live` (a stopped service and its last stream) and `jobs` (the clock at its
bound).

## Fairness

`LogView`, the specification of run `session`, assumes weak fairness of `PushLine` (a
callback runs to its end), of `StreamEnd` (Node delivers the end of a flowing stream)
and of a batch's settling (`socket.timeout()` settles it, answered or not), as
`LogSession` does by itself. It assumes nothing of the container, which may never write
or stop, nor of the client, which may never ack.

`Alerts` assumes weak fairness of `Tick`, of due timers, and of `ReadSetting` and
`Answer`: the database answers or rejects, and a rejection is `Reboot`, which drops
what was owed.

`LiveState`: timers fire (`Retry`), the end of a failed stream follows its error, a
`getEvents()` settles, and, since each failure is tried again after five seconds,
strong fairness of `Opens`: a daemon that refuses for ever is not one that can be
subscribed to. Nothing is assumed of the client or of inspects.

`AlertFeed`: the interval of react-query fires (`Fallback`), and a page that is asked
again and again arrives in the end (strong fairness of `PageArrives`). Nothing is
assumed of the poller or the socket, so `AlertIsShown` rests on the interval alone.

`AuthSession`: the oldest call is served and answered; a broken connection is an
answer (`Refuse`). `GetsReady` is about a page that is not reloaded for ever.

`TaskforgeJobs`: the auth service, taskforge and the database answer or the connection
breaks. The client sets no timeout on these requests (`taskforge-client.service.ts:131`),
so a peer that neither answers nor breaks the connection would hold every call; that is
the assumption.

The other modules have no liveness property.

## Divergences found

- `service_leak`: `live.gateway.ts:72` says that nothing is left hanging after a
  disconnect. A client that leaves while its `subscribe()` awaits
  `findManagedByName` has no session yet; the call goes on, registers one
  (`logs.service.ts:48`) and opens the stream. An ack that expires closes it, which
  needs the container to write something. The same missing second look at the Map
  allows overlapping subscribes to pass the limit of three, and a subscribe,
  unsubscribe, subscribe sequence to leave two sessions of one key, of which one can
  no longer be closed by the client. `SequentialClients` states what holds for clients
  that wait for their answers.
- `alerts_down_only`: with "restarted" alerts off, a crash that Docker's restart policy
  repairs is told by nothing, although `alerts.service.ts:22-23` says that a real crash
  still alerts. `DeathIsTold` holds as long as "restarted" alerts are on.
- `alerts_redeploy`: the first redeploy of a container after the dashboard started is
  reported as down although the container is back, against
  `alerts.service.ts:56-57`. `NoFalseDown` holds for every other way of coming back.

## Proofs

Every invariant and action property of the passing runs is a theorem, for every value
of the constants that the module's named assumption allows. The assumptions say that
sizes, limits and bounds are numbers (positive where a zero would mean no batch, no
poll or no call at all) and that sets of clients, calls or containers are finite; where
they say more, it is said below. The specification a theorem speaks of is the one the
run checks, or one that it implies. Each module has one inductive invariant (`IInv`), one lemma per action that
shows it is preserved, `NextIInv`, which combines them, and `Invariant`, the induction.

### Log session and log view

`LogSession_proofs` proves, for every value of `BatchSize`, `MaxQueue`, `HighWater`,
`LowWater`, `MaxChunk` and `MaxLines` that satisfies `SessionAssumption` (positive
batch and queue sizes, the low watermark below the high one):

| Theorem | Statement |
|---|---|
| `TypeCorrect` | `Spec => []TypeOK` |
| `Accounting` | `Spec => []ExactAccounting` |
| `NoLostWakeup` | `Spec => []FlushPending` |
| `Backpressure` | `Spec => []PauseInStep` |
| `Lossless` | `Spec => []BoundedAndLossless` |
| `StreamsReleased` | `Spec => []NoOrphanStream` |
| `EndIsComplete` | `Spec => []EndDrains` |
| `Implements` | `Spec => DeliverySpec` |

The argument. `IInv` is the conjunction of those invariants with two that no run needs
by itself: `Lifecycle`, which ties `stream`, `source`, `ending` and `closed` together
(a stream flows or is paused only under a session that holds it; a session that ends
has let go of it; what is being pushed is not more than what was read), and `Headroom`,
which keeps the queue and the rest of the current chunk together below the high
watermark plus the largest chunk. `Headroom` is what makes `BoundedAndLossless`
inductive: without it, a state in the middle of a chunk with a full queue could not be excluded.
`FlushPending` is needed for `PauseInStep`: a push that finds no batch in flight finds
an empty queue, so its batch leaves nothing behind.
For `EndDrains` the invariant says what a session that is ending knows: its container
has stopped and all it wrote is in the queue, in flight or accounted for. An ack closes
such a session only with its queue empty, and an empty queue with nothing dropped means
that everything was sent (`EmptyIsSent`).

One lemma per action shows that it preserves `IInv`; those about pushes and batches
rest on `SendBatchRuns` and `EnqueuedRun`, which say what one turn of the loop does to
the run of lines in the queue (`LinesTail`, `LinesSplit` and `LinesAppend` are the
sequence facts behind them). `NextIInv` combines the actions, `Invariant` is the
induction, `StepRefines` maps a step to `Produce`, `Deliver`, `Close` or a stutter of
`LogDelivery`.

`ViewUsesSession` says that the session behind its client takes only steps of
`LogSession`, so all of the above holds in `LogView` too, and with `ViewInvariant`:

| Theorem | Statement |
|---|---|
| `ScreenAddsUp` | `ViewSpec => []ViewAddsUp` |
| `EndReachesScreen` | `ViewSpec => []EndIsSeen` |

`ViewAddsUp` speaks of the batches that were applied, the session's invariant of those
that were sent. `BatchRun` bridges them: the batch in flight holds the lines just below
`accounted`, so a screen that has all but it becomes complete when it is applied. For
`EndIsSeen` the invariant also says that a session that is not cut and has nothing in
flight, closed or not, has had its last batch applied, since only the ack of the client
settles it without cutting the session.

### Restarts and the restart button

`Actions_proofs` proves, for every finite set of requests, every set of containers and
every value of the limits that satisfies `ActionsAssumption` (a cooldown of at least
one tick and at most the window, a positive budget; the pruning threshold is any
number):

| Theorem | Statement |
|---|---|
| `TypeCorrect` | `Spec => []TypeOK` |
| `CooldownKept` | `Spec => []CooldownHolds` |
| `BudgetKept` | `Spec => []BudgetHolds` |
| `AnswersAreTrue` | `Spec => []ToldAsDone` |
| `RefusalsHaveReasons` | `Spec => RefusedForAReason` |

The argument. The limits read what the process remembers (`lastRestartAt`,
`globalRestarts`), the properties speak of what was asked of Docker (`issued`, `age`).
`Memory` ties them: what is remembered was issued, and every restart that a limit may
still look at is remembered, as the latest of its container and in the array; so
pruning, which drops only what has left the window, forgets nothing that counts. A
restart of the dashboard forgets everything, and the two limits are about one life of
the process: `Crash` empties `issued` too. `Progress` says what is known of a request
where it is. With them `Recent`, the array seen through the window, is exactly the set of issued restarts within the
window (`RecentIsIssued`), and `Cardinality(Recent) <= GlobalLimit` is inductive.

`ButtonUsesApi` says that the button takes only steps of the API, so these theorems hold
in the specification of run `actions`, and `ButtonTellsTruth` adds
`ButtonSpec => []ButtonIsTrue`. Its invariant adds that the answer behind a "done" on
the screen is "ok", which stays so since a reply, once given, is not changed
(`RepliesStay`); what "ok" means is then `ToldAsDone`.

### Log registry

| Theorem of `LogsService_proofs` | Statement |
|---|---|
| `RegistryLeadsToLive` | `Spec => []RegistryIsLive` |
| `SequentialClientsServed` | `Spec => []SequentialClients` |
| `StreamsReleased` | `Spec => []StreamsFollowSessions` |

`Progress` says what a call has at each of its two awaits: no session before its lookup
has answered. `Alone` is what makes `SequentialClients` inductive: a lookup of a client
that waits for its answers is its only one, and the key and the room under the limit
that it found free before the await are still free after it. For a client that does not
wait nothing of the sort holds, which is what run `service_leak` shows.

### Alerts

| Theorem of `Alerts_proofs` | Statement |
|---|---|
| `AlertsAreApart` | `Spec => []CooldownHolds` |
| `DownIsTrue` | `Spec => []NoFalseDown` |

`CooldownInv`: what the service remembers of its alerts is when they were really sent,
which holds because reading and writing `lastAlertAt` fall between the same two awaits.
`TimerInv`: an armed timer was set by the last death, and the container has not come
back in a way the service recognises. `Counted` bounds the calls of `maybeAlert` in
flight by the updates that caused them, a timer counting as one.

### Live state

| Theorem of `LiveState_proofs` | Statement |
|---|---|
| `TypeCorrect` | `FairSpec => []TypeOK` (with the bound of the rooms) |
| `SubscribedOnce` | `FairSpec => []OneSubscription` |
| `CardsInStep` | `FairSpec => []CardInStep` |

`Subscribed` adds to `OneSubscription` that a failed stream whose end is still to come
has armed the timer already. The rest is about cards. `Current(c, x)`: the state `x` of a
container is the daemon's, or its newest event was lost, or an inspect in flight has
read the newest state or is still to read. It holds of the snapshot while a resync
runs (`Synced`), hence of a card whose room is joined, and of every card in its room
unless the card was already given the newest state (`InRoom`). `NoFuture` orders the
versions: nothing stored is newer than the daemon's state.

An earlier form of `CardInStep` said "its last update was older than the one before".
The proof failed on it: with three inspects in flight a card may be given the newest
state, an old one and then one in between. TLC confirms it with one
container, three changes and three calls, beyond the bounds of run `live`; the present
form holds there too, and `CardsInStep` proves it for all bounds.

### Alert feed and metrics

`Panels_proofs` extends `AlertFeed` and `MetricsRollup`, which share no definition (that
is why the latter has `MetricsInit`, `MetricsNext` and `MetricsSpec`).
`MetricsAssumption` says that widths and windows are positive and that the longest
window of the API is at most the retention (720 hours and 30 days in the code).

| Theorem of `Panels_proofs` | Statement |
|---|---|
| `OnceEach` | `FairSpec => []AnnouncedOnce` |
| `OnlyFullPagesSkip` | `FairSpec => []NothingSkipped` |
| `ChartsAreTrue` | `MetricsSpec => []ChartIsTrue` |
| `HistoryKept` | `MetricsSpec => WindowKept` |

For the feed, `InOrder`: until a poll overtakes another, what is past the last alert seen
was not announced, and what is up to it at most once. For the metrics the invariant
follows an average on its way: `Clocked` (what a tick is about to purge is older than
the retention), `Filed` (a row holds the average of the container, kind and bucket in
its key, whichever of two overlapping ticks wrote it), `AnswersTrue` (the answers that
are still to be drawn are true of what was asked). `MergeIsTrue` is the merge of the
kinds of a tab, for series of any length.

### Browser session

| Theorem of `AuthSession_proofs` | Statement |
|---|---|
| `SessionIsNotCut` | `FairSpec => []SessionKept` |
| `OffersAreAllowed` | `FairSpec => []RolesAgree` |
| `LogoutIsFinal` | `FairSpec => []LogoutSticks` |

`AuthAssumption` says that the interval of renewal is positive and less than the life of
a token (12 and 15 minutes in the code). The calls are a sequence of records, and what
each may still do to the session is what the invariant is about. `IInv` holds always.
`CallsInv`: the token a logout gives back, or a served refresh has used, is no longer the
session's. `GrantedInv`: a pair that was granted and not applied yet is valid and known
to nobody else, so applying it leaves a usable token in storage (`UsableInv`). `OverInv`:
after a logout with nothing in flight, every call in flight is that logout, and none
brings anything back.

`CalmInv` says what holds besides while a session is undisturbed: it makes one call at a
time (`OneAtATime`), a refresh sends a valid token that no logout gives back
(`SendsValid`), so none is refused (`NotDenied`); `/me` asks about the pair in use
(`AsksOfCurrent`), so the user is the one it was issued to (`UserIsCurrent`); and the age
of that pair stays below the timer of the interval plus the margin `TTL -
RefreshInterval` (`Fresh`), so it is renewed before it expires. The theorems follow for
any life, interval and number of calls.

### Taskforge client and job runs

| Theorem of `TaskforgeJobs_proofs` | Statement |
|---|---|
| `OneTokenRequest` | `FairSpec => []TokenShared` |
| `CompletedIsKept` | `FairSpec => EndIsKept` |

`TokenInv` adds to `TokenShared` that a token is asked for before it is issued, so an
expiry counted from the question is never late. For `EndIsKept`, `CallInv` says what a
call at each of its awaits has read: a refresh that does not overlap another still finds
in the row what it read, or the row has been purged; a "completed" it was told is so.

### Only model-checked

Liveness, since fairness is out of the prover's reach: `EveryLineAccounted`,
`ExitCloses`, `DeathIsTold`, `Resubscribes`, `AlertIsShown`, `GetsReady`, `CallsEnd`.
The three violations of [Divergences found](#divergences-found) are counterexamples, and
there is nothing to prove of them.

## Not modelled

- The bytes of Docker's log frames, and a last line without a newline: a pure parser
  whose result is modelled as a chunk of complete lines.
- Parsing and validation of requests, signatures of tokens: stateless, and unit-tested.
- Health probes other than taskforge's, audit queries and the security audit: one
  request, one answer, no state. The purge of the audit log, which no model reads.
- `rooms:unsubscribe`, which no client calls; the handshake of the socket, which
  authenticates like a request.
- A failed resync on a socket that stays up (`live-provider.tsx:75-77`): it is a step
  (`ListFails`) and leaves the page without rooms; the comment there counts on a
  reconnection that a working socket never makes, so no property says that the page
  catches up.
- Prisma, Redis adapter, module wiring, i18n, rendering.

## Plan

Every component is modelled as far as [Not modelled](#not-modelled) says, and every
safety property of a passing run is proved. What is left, in this order:

1. `DockerFrames`: the frame parser and line splitter (`logs/docker-frames.ts`) against
   a reference definition, with the last line that has no newline.
2. More abstract specifications with a refinement, as `LogDelivery` is for a session: a
   single client of `LogsService`, and the restarts of `Actions` as seen by Docker.
3. `MetricsRollup`: its type invariant.
