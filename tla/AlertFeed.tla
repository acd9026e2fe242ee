----------------------------- MODULE AlertFeed -----------------------------
(***************************************************************************)
(* The feed of alerts that ops-notify-bot keeps: alerts-poller.service.ts  *)
(* polls it and pushes "alerts:new" to every connected browser, where      *)
(* alerts-feed-panel.tsx fetches the page it shows again.                  *)
(*                                                                         *)
(* An alert is known by its number in the feed, and an answer of the bot   *)
(* by the length the feed had: the newest alert of a poll, or what a page  *)
(* of the panel was cut from.  A number of 0 is no alert (null).  A        *)
(* request is kept as the length of the feed when it was made; the bot     *)
(* reads the feed between that moment and the answer.                      *)
(***************************************************************************)
EXTENDS Naturals, Sequences, FiniteSets, SequencesExt   \* RemoveAt

CONSTANTS Types,       \* ALERT_TYPES
          All,         \* the empty filter
          Filters,     \* bound: the filters a user picks and that are followed
          Later,       \* any page but the first
          PollLimit,   \* POLL_LIMIT
          PageSize,    \* PAGE_SIZE of the panel
          MaxAlerts,   \* bound: alerts
          MaxPolls     \* bound: polls in flight

ASSUME FeedAssumption ==
    /\ All \notin Types /\ Later \notin Types \union {All}
    /\ Filters \subseteq Types \union {All}
    /\ {PollLimit, PageSize, MaxPolls} \subseteq Nat \ {0}
    /\ MaxAlerts \in Nat

VARIABLES
    feed,         \* ops-notify-bot: the types of its alerts, oldest first
    polls,        \* AlertsPollerService.poll() in flight
    lastSeenId,
    initialized,
    live,         \* the browser's socket is connected
    view,         \* the panel: the filter of its first page, or Later
    data,         \* react-query: what each first page was last read from
    fetching,     \* react-query: the read in flight of each first page
    \* what the properties are about
    base,         \* the newest alert when the poller was initialized
    times,        \* how often an alert was announced
    overtaken     \* a poll has been answered after a later one

poller == <<polls, lastSeenId, initialized, base, times, overtaken>>
panel == <<view, data, fetching>>
vars == <<feed, poller, live, panel>>

Lengths == 0..MaxAlerts
Nothing == MaxAlerts + 1    \* no data, or no fetch

TypeOK ==
    /\ feed \in Seq(Types) /\ Len(feed) <= MaxAlerts
    /\ polls \in Seq(Lengths) /\ Len(polls) <= MaxPolls
    /\ lastSeenId \in Lengths /\ base \in Lengths
    /\ {initialized, live, overtaken} \subseteq BOOLEAN
    /\ view \in Filters \union {Later}
    /\ data \in [Filters -> Lengths \union {Nothing}]
    /\ fetching \in [Filters -> Lengths \union {Nothing}]
    /\ \A v \in Filters : data[v] # Nothing => data[v] <= Len(feed)
    /\ times \in [1..MaxAlerts -> Nat]

\* The poller polls at once; a panel fetches its first page when it is mounted,
\* and that of another filter as soon as it is picked.
Init ==
    /\ feed = << >>
    /\ polls = <<0>>
    /\ lastSeenId = 0
    /\ initialized = FALSE
    /\ live = FALSE
    /\ view \in Filters
    /\ data = [v \in Filters |-> Nothing]
    /\ fetching = [v \in Filters |-> IF v = view THEN 0 ELSE Nothing]
    /\ base = 0
    /\ times = [i \in 1..MaxAlerts |-> 0]
    /\ overtaken = FALSE

\* send(): the bot takes an alert, of this API or of another service.
Send(t) ==
    /\ Len(feed) < MaxAlerts
    /\ feed' = Append(feed, t)
    /\ UNCHANGED <<poller, live, panel>>

-----------------------------------------------------------------------------
\* react-query's fetch: one that is in flight serves the new request too, but an
\* invalidated view that has data cancels it and reads again.
Fetch(v) == fetching' = [fetching EXCEPT ![v] = IF @ = Nothing THEN Len(feed) ELSE @]
Invalidate(v) ==
    fetching' = [fetching EXCEPT
        ![v] = IF @ = Nothing \/ data[v] # Nothing THEN Len(feed) ELSE @]

\* onNewAlert, for the types announced in one poll
Affects(ts) == view = All \/ view \in ts
OnNewAlerts(ts) ==
    IF live /\ Affects(ts) THEN Invalidate(view) ELSE UNCHANGED fetching

-----------------------------------------------------------------------------
\* The poller

\* A tick of the interval starts a poll, whether or not the last has answered.
Poll ==
    /\ Len(polls) < MaxPolls
    /\ polls' = Append(polls, Len(feed))
    /\ UNCHANGED <<feed, lastSeenId, initialized, base, times, overtaken, live, panel>>

\* listAlerts() throws: the next tick tries again.
PollFails ==
    /\ \E k \in DOMAIN polls : polls' = RemoveAt(polls, k)
    /\ UNCHANGED <<feed, lastSeenId, initialized, base, times, overtaken, live, panel>>

\* The items of an answer, and those after the boundary: all of them when the
\* last one seen is not among them.
Items(n) == {i \in 1..n : i > n - PollLimit}
FreshOrNewest(n) ==
    {i \in Items(n) : IF lastSeenId \in Items(n) THEN i > lastSeenId ELSE i = n}
FreshWithBoundary(n) ==
    {i \in Items(n) : lastSeenId \in Items(n) => i >= lastSeenId}
Fresh(n) == {i \in Items(n) : lastSeenId \in Items(n) => i > lastSeenId}

\* publishAlert for each: every connected browser is told
Announce(S) ==
    /\ times' = [i \in 1..MaxAlerts |-> IF i \in S THEN times[i] + 1 ELSE times[i]]
    /\ OnNewAlerts({feed[i] : i \in S})

FirstPoll(n) ==
    /\ ~initialized
    /\ initialized' = TRUE
    /\ lastSeenId' = n
    /\ base' = n
    /\ UNCHANGED <<times, fetching, overtaken>>

LaterPoll(n) ==
    /\ initialized
    /\ lastSeenId' = IF Fresh(n) = {} THEN lastSeenId ELSE n
    /\ Announce(Fresh(n))
    /\ overtaken' = (overtaken \/ n < lastSeenId)
    /\ UNCHANGED <<initialized, base>>

PollAnswers ==
    /\ \E k \in DOMAIN polls :
          /\ polls' = RemoveAt(polls, k)
          /\ \E n \in polls[k]..Len(feed) : FirstPoll(n) \/ LaterPoll(n)
    /\ UNCHANGED <<feed, live, view, data>>

-----------------------------------------------------------------------------
\* The panel

\* status becomes "live": the view is read again
Connect ==
    /\ ~live
    /\ live' = TRUE
    /\ IF view = Later THEN UNCHANGED fetching ELSE Invalidate(view)
    /\ UNCHANGED <<feed, poller, view, data>>

Disconnect ==
    /\ live
    /\ live' = FALSE
    /\ UNCHANGED <<feed, poller, panel>>

\* The user picks a filter, which starts at the first page, or turns back to it:
\* the page is fetched, and shown meanwhile as it was read the last time.
ShowFirst(v) ==
    /\ view # v
    /\ view' = v
    /\ Fetch(v)
    /\ UNCHANGED <<feed, poller, live, data>>

\* "Next", while there is more than a page
Total(v) == Cardinality({i \in 1..data[v] : v \in {All, feed[i]}})
ShowLater ==
    /\ view # Later /\ data[view] # Nothing
    /\ PageSize < Total(view)
    /\ view' = Later
    /\ UNCHANGED <<feed, poller, live, data, fetching>>

\* refetchInterval, every minute
RefreshWhenLive == live /\ Fetch(view)
Refresh == Fetch(view)
Fallback ==
    /\ view # Later /\ fetching[view] = Nothing
    /\ Refresh
    /\ UNCHANGED <<feed, poller, live, view, data>>

\* fetchAlerts answers, or fails.
Reads(v) == fetching[v]..Len(feed)
PageArrives(v) ==
    /\ fetching[v] # Nothing
    /\ \E n \in Reads(v) : data' = [data EXCEPT ![v] = n]
    /\ fetching' = [fetching EXCEPT ![v] = Nothing]
    /\ UNCHANGED <<feed, poller, live, view>>
PageFails(v) ==
    /\ fetching[v] # Nothing
    /\ fetching' = [fetching EXCEPT ![v] = Nothing]
    /\ UNCHANGED <<feed, poller, live, view, data>>

-----------------------------------------------------------------------------
Poller == Poll \/ PollFails \/ PollAnswers
Panel ==
    \/ Connect \/ Disconnect \/ ShowLater \/ Fallback
    \/ \E v \in Filters : ShowFirst(v) \/ PageArrives(v) \/ PageFails(v)

Next == (\E t \in Types : Send(t)) \/ Poller \/ Panel

\* The interval fires, requests are answered, and the bot is not down for ever.
FairSpec ==
    /\ Init /\ [][Next]_vars
    /\ WF_vars(Fallback)
    /\ \A v \in Filters : SF_vars(PageArrives(v))
-----------------------------------------------------------------------------
\* Properties

\* "Lo nuevo" is announced once: no alert is pushed twice, unless a poll was
\* answered after a later one and moved lastSeenId back; and none of the history
\* the poller found at its start is pushed as new.
AnnouncedOnce ==
    ~overtaken => \A i \in 1..MaxAlerts : times[i] <= IF i <= base THEN 0 ELSE 1

\* POLL_LIMIT: an alert that the poller has passed without a push had at least
\* a page of newer ones behind it, whatever order the polls were answered in.
NothingSkipped ==
    \A i \in base + 1..lastSeenId : times[i] = 0 => i + PollLimit <= Len(feed)

\* FALLBACK_REFRESH_MS covers the push that was lost: with the socket down, with
\* the alert skipped by the poller, or with its push answered by a read that was
\* already on its way, the page one keeps looking at shows the alert in the end.
AlertIsShown ==
    \A v \in Filters, i \in 1..MaxAlerts :
        (view = v /\ Len(feed) >= i) ~> (view # v \/ data[v] \in i..MaxAlerts)
=============================================================================
