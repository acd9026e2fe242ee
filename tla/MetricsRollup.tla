--------------------------- MODULE MetricsRollup ---------------------------
(***************************************************************************)
(* The metrics of a container, from Prometheus to the chart:               *)
(* metrics.service.ts, which stores one average per container, kind and    *)
(* bucket of time, its REST endpoints, and metrics-panel.tsx, which asks   *)
(* for each kind of a tab on its own and merges the answers.               *)
(*                                                                         *)
(* A value is what Prometheus computed it from: a container, a kind and    *)
(* the instant of the query.  A point is drawn for a container and a kind  *)
(* at a time, so what it must show is known and compared with its value.   *)
(***************************************************************************)
EXTENDS Integers, Sequences, FiniteSets

CONSTANTS Containers,
          Kinds,        \* Object.values(MetricKind), in its order
          Tabs,         \* TABS of the panel: sets of kinds
          Hours,        \* RANGE_HOURS of the ranges served from the rollups
          Bucket,       \* BUCKET_SEC
          Retention,    \* RETENTION_DAYS
          MaxWindow,    \* the most hours /metrics/history accepts (720)
          LiveWindow,   \* the minutes of the range "1h"
          LiveStep,     \* the resolution of that range
          Ticks,        \* bound: rollups that run at once
          MaxTime,      \* bound: the clock
          MaxCharts,    \* bound: the query keys the panel asks for or shows
          None

Windows == 1..MaxWindow   \* what parsePositiveInt lets through

ASSUME MetricsAssumption ==
    /\ {Bucket, Retention, MaxWindow, LiveWindow, LiveStep} \subseteq Nat \ {0}
    /\ {MaxTime, MaxCharts} \subseteq Nat
    /\ Hours \subseteq Windows
    /\ MaxWindow <= Retention
    /\ Tabs \subseteq SUBSET {Kinds[i] : i \in DOMAIN Kinds}

VARIABLES
    clock,
    ticks,     \* the runs of rollupTick: where each is and its local variables
    table,     \* MetricRollup: avgValue by the unique (container, metric, bucket)
    asked,     \* the panel's queries in flight: the answers a query has so far
    charts     \* the cache of react-query: the merged rows of each query key

metricsVars == <<clock, ticks, table, asked, charts>>

KindSet == {Kinds[i] : i \in DOMAIN Kinds}
Live == 0                      \* the range "1h"
Ranges == {Live} \union Hours
Times == -(Retention + Bucket)..MaxTime

RowKeys == [container : Containers, metric : KindSet, bucketStart : Times]
QueryKeys == Containers \X Tabs \X Ranges

Overlay(f, g) == [x \in DOMAIN f \union DOMAIN g |->
                    IF x \in DOMAIN f THEN f[x] ELSE g[x]]
Empty == [x \in {} |-> 0]

Resting == [at |-> "idle", kind |-> 1, end |-> 0, rows |-> {}, cutoff |-> 0]

MetricsTypeOK ==
    /\ clock \in 0..MaxTime
    /\ \A t \in Ticks :
          /\ ticks[t].at \in {"idle", "query", "insert", "purge"}
          /\ ticks[t].kind \in DOMAIN Kinds
          /\ ticks[t].rows \subseteq Containers
          /\ {ticks[t].end, ticks[t].cutoff} \subseteq Times
    /\ DOMAIN table \subseteq RowKeys
    /\ \A k \in DOMAIN table : table[k] \in Containers \X KindSet \X Times
    /\ DOMAIN asked = QueryKeys /\ DOMAIN charts = QueryKeys
    /\ \A q \in QueryKeys : asked[q] # None => DOMAIN asked[q] \subseteq q[2]

-----------------------------------------------------------------------------
\* runRollup: the bucket that has just closed, aligned to multiples of Bucket

BucketEnd(now) == (now \div Bucket) * Bucket
RollupTick(t, now) ==
    [ticks EXCEPT ![t] = [Resting EXCEPT !.at = "query", !.end = BucketEnd(now)]]

MetricsInit ==
    /\ clock = 0
    /\ \E t \in Ticks :   \* onModuleInit
          ticks = [u \in Ticks |-> IF u = t THEN [Resting EXCEPT !.at = "query"]
                                            ELSE Resting]
    /\ table = Empty
    /\ asked = [q \in QueryKeys |-> None]
    /\ charts = [q \in QueryKeys |-> Empty]

\* The clock; the cron starts a tick at every multiple of Bucket.
Advance ==
    /\ clock < MaxTime
    /\ clock' = clock + 1
    /\ IF clock' % Bucket = 0
       THEN \E t \in Ticks : ticks[t].at = "idle" /\ ticks' = RollupTick(t, clock')
       ELSE UNCHANGED ticks
    /\ UNCHANGED <<table, asked, charts>>

\* A new process: the ticks of the old one are gone, and the first starts.
Restart ==
    /\ \E t \in Ticks :
          ticks' = [u \in Ticks |->
              IF u = t THEN [Resting EXCEPT !.at = "query", !.end = BucketEnd(clock)]
                       ELSE Resting]
    /\ UNCHANGED <<clock, table, asked, charts>>

\* The next kind; after the last one purgeOldRollups, whose cutoff is read now.
NextKind(tick) ==
    IF tick.kind < Len(Kinds)
    THEN [tick EXCEPT !.at = "query", !.kind = @ + 1, !.rows = {}]
    ELSE [tick EXCEPT !.at = "purge", !.rows = {}, !.cutoff = clock - Retention]

\* rollupQuery asks for all the containers of the compose projects at once; any
\* of them may have been scraped, or none.
Sampled == SUBSET Containers

\* Prometheus answers for tick.end: the containers with a name and a finite
\* average.
Query(t) ==
    /\ ticks[t].at = "query"
    /\ \E rows \in Sampled :
          ticks' = [ticks EXCEPT ![t] =
              IF rows = {} THEN NextKind(@)
                           ELSE [@ EXCEPT !.at = "insert", !.rows = rows]]
    /\ UNCHANGED <<clock, table, asked, charts>>

\* createMany with skipDuplicates: the row that is there stays.
NewRows(tick) ==
    [k \in {[container |-> c, metric |-> Kinds[tick.kind],
             bucketStart |-> tick.end - Bucket] : c \in tick.rows}
        |-> <<k.container, k.metric, tick.end>>]

Insert(t) ==
    /\ ticks[t].at = "insert"
    /\ table' = Overlay(table, NewRows(ticks[t]))
    /\ ticks' = [ticks EXCEPT ![t] = NextKind(@)]
    /\ UNCHANGED <<clock, asked, charts>>

\* mutant of Purged: `lte' for `lt'
PurgedWithBoundary(row, cutoff) == row.bucketStart <= cutoff
Purged(row, cutoff) == row.bucketStart < cutoff
PurgeOldRollups(t) ==
    /\ ticks[t].at = "purge"
    /\ LET kept == {k \in DOMAIN table : ~Purged(k, ticks[t].cutoff)} IN
       table' = [k \in kept |-> table[k]]
    /\ ticks' = [ticks EXCEPT ![t] = Resting]
    /\ UNCHANGED <<clock, asked, charts>>

\* rollupTick catches what Prometheus or the database throw: the rest of the
\* kinds and the purge are left out, and no later tick looks at this bucket.
RollupFails(t) ==
    /\ ticks[t].at # "idle"
    /\ ticks' = [ticks EXCEPT ![t] = Resting]
    /\ UNCHANGED <<clock, table, asked, charts>>

-----------------------------------------------------------------------------
\* The panel.  A query asks for every kind of its tab at once; each answer is
\* computed when the API gets to it.

\* getHistory: the rows of the window; a point is a time and a value
HistoryOfAnyKind(c, kind, hours) ==   \* mutant of History: `metric' not filtered
    {<<k.bucketStart, table[k]>> : k \in
        {k \in DOMAIN table : k.container = c /\ k.bucketStart >= clock - hours}}
History(c, kind, hours) ==
    {<<k.bucketStart, table[k]>> : k \in
        {k \in DOMAIN table : /\ k.container = c /\ k.metric = kind
                              /\ k.bucketStart >= clock - hours}}

\* getLiveSeries: the series Prometheus puts first, with a value at the steps it
\* has samples for; none when it has no series.
Steps == {x \in clock - LiveWindow..clock : (x - (clock - LiveWindow)) % LiveStep = 0}
LiveSeries(c, kind, sampled) == {<<x, <<c, kind, x>>>> : x \in sampled}

\* The points that may be answered
Series(c, kind, range) ==
    IF range = Live THEN {LiveSeries(c, kind, sampled) : sampled \in SUBSET Steps}
                    ELSE {History(c, kind, range)}

\* mergeSeries: one row per time, with the kinds that have a point there
RowAt(series, x) ==
    [k \in {k \in DOMAIN series : \E p \in series[k] : p[1] = x} |->
        (CHOOSE p \in series[k] : p[1] = x)[2]]
MergeSeries(series) ==
    LET xs == UNION {{p[1] : p \in series[k]} : k \in DOMAIN series}
    IN  [x \in xs |-> RowAt(series, x)]

\* Opening a tab, a range, or the interval that asks again
Ask(q) ==
    /\ asked[q] = None
    /\ Cardinality({p \in QueryKeys \ {q} :
                      asked[p] # None \/ charts[p] # Empty}) < MaxCharts
    /\ asked' = [asked EXCEPT ![q] = Empty]
    /\ UNCHANGED <<clock, ticks, table, charts>>

Answer(q, kind) ==
    /\ asked[q] # None
    /\ kind \in q[2] \ DOMAIN asked[q]
    /\ \E points \in Series(q[1], kind, q[3]) :
          LET series == [k \in DOMAIN asked[q] \union {kind} |->
                            IF k = kind THEN points ELSE asked[q][k]]
          IN  IF DOMAIN series = q[2]
              THEN /\ charts' = [charts EXCEPT ![q] = MergeSeries(series)]
                   /\ asked' = [asked EXCEPT ![q] = None]
              ELSE /\ asked' = [asked EXCEPT ![q] = series]
                   /\ UNCHANGED charts
    /\ UNCHANGED <<clock, ticks, table>>

\* One answer is an error: Promise.all rejects and the others are dropped.
AskFails(q) ==
    /\ asked[q] # None
    /\ asked' = [asked EXCEPT ![q] = None]
    /\ UNCHANGED <<clock, ticks, table, charts>>

-----------------------------------------------------------------------------
Rollup(t) == Query(t) \/ Insert(t) \/ PurgeOldRollups(t) \/ RollupFails(t)
PanelQuery(q) == Ask(q) \/ AskFails(q) \/ \E k \in KindSet : Answer(q, k)

MetricsNext ==
    \/ Advance
    \/ Restart
    \/ \E t \in Ticks : Rollup(t)
    \/ \E q \in QueryKeys : PanelQuery(q)

MetricsSpec == MetricsInit /\ [][MetricsNext]_metricsVars

-----------------------------------------------------------------------------
\* Properties

\* What a point for a kind of a container at time x must show: the average of
\* the bucket that starts there, or the live value of that instant.
Truth(c, kind, range, x) ==
    <<c, kind, IF range = Live THEN x ELSE x + Bucket>>

\* Every point of every chart is true: across ticks that overlap or outlive
\* their bucket, restarts, purges and rollups between the answers of two kinds,
\* gaps in a series, queries of other containers and ranges in flight, the point
\* drawn for a kind of a container at a time was computed for that container,
\* that kind and the bucket or the instant it is drawn at.  (A point that never
\* comes, for a kind no tick stored, is not wrong: it is missing.)
ChartIsTrue ==
    \A q \in QueryKeys : \A x \in DOMAIN charts[q] :
        /\ DOMAIN charts[q][x] \subseteq q[2]
        /\ \A k \in DOMAIN charts[q][x] : charts[q][x][k] = Truth(q[1], k, q[3], x)

\* The purge and the API agree on the boundary: a rollup in the longest window
\* that /metrics/history accepts is never deleted, however late a purge runs
\* (RETENTION_DAYS in metrics.service.ts is 720 hours, the controller's limit).
WindowKept ==
    [][\A k \in DOMAIN table :
          k.bucketStart >= clock - MaxWindow => k \in DOMAIN table']_metricsVars
=============================================================================
