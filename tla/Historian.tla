----------------------------- MODULE Historian -----------------------------
(***************************************************************************)
(* The historian: samples of the production model are batched by           *)
(* HistorianBridge, written to the raw table of SqliteHistoryStore, moved  *)
(* to coarser tiers by the HistorianMaintenance thread and drawn by the    *)
(* History page.                                                           *)
(*                                                                         *)
(* Every store operation holds the store's mutex for a whole transaction,  *)
(* so one operation is one action; the maintenance thread takes the lock   *)
(* twice per sweep, so a sweep is two.  A row carries the identities of    *)
(* the samples its average was taken over.  One series (field, entity)     *)
(* stands for all of them: they share no row.                              *)
(***************************************************************************)
EXTENDS Integers, Sequences, SequencesExt, FiniteSets

CONSTANTS
    kOneHour,        \* the routing limits of tierForRange and the page's ranges
    kOneDay,
    rawRetention,    \* configuration of the maintenance worker
    minuteRetention,
    kMinuteBucket,
    kHourBucket,
    maxBatchSize,    \* configuration of the bridge
    maxBatchAge,
    kChartLimit,     \* most rows a chart asks for
    kTrendChartCapacity,  \* most points the chart widget keeps
    MaxTime,         \* bound: the clock
    MaxSamples,      \* bound: samples the model produces
    MaxFaults,       \* bound: SQLite statements that fail
    MaxExits         \* bound: crashes and orderly exits

ASSUME HistorianAssumption ==
    /\ {kOneHour, kOneDay, rawRetention, minuteRetention, kMinuteBucket, kHourBucket,
        maxBatchSize, kChartLimit, kTrendChartCapacity} \subseteq Nat \ {0}
    /\ {maxBatchAge, MaxTime, MaxSamples, MaxFaults, MaxExits} \subseteq Nat
    /\ kOneHour < kOneDay /\ rawRetention >= kOneHour /\ minuteRetention >= kOneDay

Tiers  == {"raw", "minute", "hour"}

VARIABLES
    proc,        \* off, up, quitting, disabled (the store could not be opened)
    now,         \* the clock, in ticks
    subscribed,  \* the bridge's callbacks are registered with the model
    pending,     \* HistorianBridge::pending_
    batchEpoch,  \* when the batch was last flushed
    tables,      \* the three tables as this connection sees them
    disk,        \* the three tables as of the last COMMIT
    txOpen,      \* a COMMIT failed and left its transaction open
    sweep,       \* maintenance thread: off, raw, minute, wait
    sweepNow,    \* the time its current sweep read
    produced,    \* how many samples the model has produced
    accepted,    \* samples write() counted as accepted
    doubled,     \* samples whose rows were copied to a coarser tier and not deleted
    lost,        \* accepted samples rolled back because txOpen held at the exit
    faults, exits

store      == <<tables, disk, txOpen>>
bridge     == <<subscribed, pending, batchEpoch>>
sweepVars  == <<sweep, sweepNow>>
historyVars == <<proc, now, bridge, store, sweepVars, produced, accepted,
                 doubled, lost, faults, exits>>

IdsOf(rows)  == UNION {rows[i].ids : i \in DOMAIN rows}
RowsWith(s)  == UNION {{t} \X {i \in DOMAIN tables[t] : s \in tables[t][i].ids} : t \in Tiers}

HistorianInit ==
    /\ proc = "off" /\ now = 0
    /\ subscribed = FALSE /\ pending = <<>> /\ batchEpoch = 0
    /\ tables = [t \in Tiers |-> <<>>] /\ disk = tables /\ txOpen = FALSE
    /\ sweep = "off" /\ sweepNow = 0
    /\ produced = 0 /\ accepted = {} /\ doubled = {} /\ lost = {}
    /\ faults = 0 /\ exits = 0

-----------------------------------------------------------------------------
(* The store.                                                              *)

\* BEGIN IMMEDIATE fails inside the transaction a failed COMMIT left open, and
\* may fail on its own (disk full, another connection).
BeginFails == txOpen \/ faults < MaxFaults

\* COMMIT's result is only logged.
Commit(tabs) ==
    /\ tables' = tabs
    /\ \/ disk' = tabs /\ UNCHANGED <<txOpen, faults>>
       \/ /\ faults < MaxFaults /\ faults' = faults + 1
          /\ txOpen' = TRUE /\ UNCHANGED disk

\* Nothing is changed: BEGIN or a prepare failed, or the statement was rolled
\* back.
NotDone ==
    /\ BeginFails
    /\ faults' = IF txOpen THEN faults ELSE faults + 1
    /\ UNCHANGED store

RawRows(batch) == [i \in DOMAIN batch |-> [ts |-> batch[i].ts, ids |-> {batch[i]}]]

\* write(): one transaction for the batch; a row whose INSERT fails is skipped.
write(batch) ==
    \/ NotDone /\ UNCHANGED accepted
    \/ /\ ~txOpen
       /\ Commit([tables EXCEPT !["raw"] = @ \o RawRows(batch)])
       /\ accepted' = accepted \cup Range(batch)
    \/ /\ ~txOpen /\ faults < MaxFaults /\ faults' = faults + 1
       /\ \E bad \in DOMAIN batch :
            LET taken == RemoveAt(batch, bad)
            IN  /\ tables' = [tables EXCEPT !["raw"] = @ \o RawRows(taken)]
                /\ accepted' = accepted \cup Range(taken)
       /\ disk' = tables' /\ UNCHANGED txOpen

\* A set of numbers in increasing order.
InOrder(S) ==
    [k \in 1..Cardinality(S) |-> CHOOSE x \in S : Cardinality({y \in S : y < x}) = k - 1]

\* The averages demoteOlderThan() inserts: one row per bucket, stamped with the
\* start of the bucket.
Averages(rows, cutoff, bucket) ==
    LET old     == {i \in DOMAIN rows : rows[i].ts < cutoff}
        buckets == {rows[i].ts \div bucket : i \in old}
        Row(b)  == [ts  |-> b * bucket,
                    ids |-> UNION {rows[i].ids : i \in {j \in old : rows[j].ts \div bucket = b}}]
    IN  [k \in 1..Cardinality(buckets) |-> Row(InOrder(buckets)[k])]

\* Some of the rows, in the order they have.
RowsAt(rows, S) == [k \in 1..Cardinality(S) |-> rows[InOrder(S)[k]]]

\* The rows that stay in the source tier, with the cut-off itself deleted too.
KeptRowsInclusive(rows, cutoff) == RowsAt(rows, {i \in DOMAIN rows : rows[i].ts > cutoff})

\* DELETE ... WHERE ts < cutoff keeps these.
KeptRows(rows, cutoff) == RowsAt(rows, {i \in DOMAIN rows : ~(rows[i].ts < cutoff)})

\* demoteOlderThan(): insert the averages, delete their sources, commit.  A
\* failed INSERT rolls back; a failed DELETE is not looked at and commits.
demoteOlderThan(src, dst, cutoff, bucket) ==
    LET averages == Averages(tables[src], cutoff, bucket)
        copied   == [tables EXCEPT ![dst] = @ \o averages]
    IN  \/ NotDone /\ UNCHANGED doubled
        \/ /\ ~txOpen
           /\ Commit([copied EXCEPT ![src] = KeptRows(@, cutoff)])
           /\ UNCHANGED doubled
        \/ /\ ~txOpen /\ faults < MaxFaults /\ averages # <<>>
           /\ tables' = copied /\ disk' = copied
           /\ faults' = faults + 1
           /\ doubled' = doubled \cup IdsOf(averages)
           /\ UNCHANGED txOpen

\* The one tier a query reads, by the length of its window.
tierForRange(duration) ==
    IF duration <= kOneHour THEN "raw"
    ELSE IF duration <= kOneDay THEN "minute" ELSE "hour"

\* Row i is newer than row j: it is later, or as late and was inserted after.
Newer(rows, i, j) == rows[i].ts > rows[j].ts \/ (rows[i].ts = rows[j].ts /\ i > j)

\* The n newest of the rows numbered by S.
Newest(rows, S, n) == {i \in S : Cardinality({j \in S : Newer(rows, j, i)}) < n}

\* query(): the newest `limit' rows of one tier within [from, to], by number.
query(from, to, limit) ==
    LET rows   == tables[tierForRange(to - from)]
        inside == {i \in DOMAIN rows : from <= rows[i].ts /\ rows[i].ts <= to}
    IN  Newest(rows, inside, limit)

-----------------------------------------------------------------------------
(* The bridge.                                                             *)

\* Stale is only tested when a record arrives: nothing flushes an idle batch.
FlushDue(batch) == Len(batch) >= maxBatchSize \/ now - batchEpoch >= maxBatchAge

\* flushLocked(): the batch is dropped whatever write() accepted.
flushLocked(batch) ==
    /\ IF batch = <<>> THEN UNCHANGED <<store, accepted, faults>> ELSE write(batch)
    /\ pending' = <<>> /\ batchEpoch' = now

\* A model callback of wire(): one record, stamped with the clock, is enqueued.
enqueue ==
    /\ proc = "up" /\ subscribed /\ produced < MaxSamples
    /\ produced' = produced + 1
    /\ LET batch == Append(pending, [id |-> produced + 1, ts |-> now])
       IN  \/ FlushDue(batch) /\ flushLocked(batch)
           \/ /\ ~FlushDue(batch) /\ pending' = batch
              /\ UNCHANGED <<batchEpoch, store, accepted, faults>>
    /\ UNCHANGED <<proc, now, subscribed, sweep, sweepNow, doubled, lost, exits>>

\* clearCallbacks(): a language or palette rebuild of the window drops every
\* subscription of the model, the bridge's too; wire() is not called again.
clearCallbacks ==
    /\ proc = "up" /\ subscribed /\ subscribed' = FALSE
    /\ UNCHANGED <<proc, now, pending, batchEpoch, store, sweep, sweepNow, produced,
                   accepted, doubled, lost, faults, exits>>

-----------------------------------------------------------------------------
(* The maintenance thread.                                                 *)

\* runOnce(), first half: read the clock, demote raw rows.
SweepRaw ==
    /\ sweep = "raw"
    /\ sweepNow' = now
    /\ demoteOlderThan("raw", "minute", now - rawRetention, kMinuteBucket)
    /\ sweep' = "minute"
    /\ UNCHANGED <<proc, now, bridge, produced, accepted, lost, exits>>

\* runOnce(), second half, with the time the sweep started at.
SweepMinute ==
    /\ sweep = "minute"
    /\ demoteOlderThan("minute", "hour", sweepNow - minuteRetention, kHourBucket)
    /\ sweep' = "wait"
    /\ UNCHANGED <<proc, now, bridge, sweepNow, produced, accepted, lost, exits>>

\* loop(): the interval is over, or stop() was requested.
SweepWakes ==
    /\ sweep = "wait"
    /\ sweep' = IF proc = "quitting" THEN "off" ELSE "raw"
    /\ UNCHANGED <<proc, now, bridge, store, sweepNow, produced, accepted, doubled,
                   lost, faults, exits>>

-----------------------------------------------------------------------------
(* The History page, on the GUI thread.  What it draws is a function of    *)
(* the store and the clock, and the first paint, the 5 s timer, the        *)
(* Refresh button and a change of range may draw it in any state the       *)
(* process is up in: so the charts are operators and no state is kept.     *)

rangeLookback(r) == CASE r = "hour" -> kOneHour [] r = "day" -> kOneDay
                      [] r = "week" -> 7 * kOneDay

\* TrendChart::addPoint() for every row read, oldest first: the ring drops the
\* oldest point once it is full.
addPoints(rows, read) == Newest(rows, read, kTrendChartCapacity)

\* refreshAllCharts() for one series: clear, query, add each row's point.
populateChart(r) ==
    LET from == now - rangeLookback(r)
        rows == tables[tierForRange(now - from)]
    IN  UNION {rows[i].ids : i \in addPoints(rows, query(from, now, kChartLimit))}

-----------------------------------------------------------------------------
(* The process.                                                            *)

\* registerHistorian(): open the store; if that fails the HMI runs without it.
registerHistorian ==
    /\ proc = "off"
    /\ \/ /\ proc' = "up" /\ subscribed' = TRUE /\ sweep' = "raw" /\ batchEpoch' = now
          /\ UNCHANGED faults
       \/ /\ faults < MaxFaults /\ faults' = faults + 1
          /\ proc' = "disabled" /\ UNCHANGED <<subscribed, sweep, batchEpoch>>
    /\ UNCHANGED <<now, pending, store, sweepNow, produced, accepted, doubled, lost, exits>>

\* Closing the connection rolls an open transaction back.
Reopened ==
    /\ tables' = disk /\ txOpen' = FALSE
    /\ lost' = IF txOpen THEN accepted \ UNION {IdsOf(disk[t]) : t \in Tiers} ELSE lost
    /\ subscribed' = FALSE

\* main() unwinds: stop() asks the thread to end and waits for it.
Quit ==
    /\ proc = "up" /\ exits < MaxExits
    /\ proc' = "quitting" /\ exits' = exits + 1
    /\ UNCHANGED <<now, bridge, store, sweep, sweepNow, produced, accepted, doubled,
                   lost, faults>>

\* ~HistorianBridge() flushes, then ~SqliteHistoryStore() closes.
FinalFlush ==
    /\ proc = "quitting" /\ sweep = "off" /\ pending # <<>>
    /\ flushLocked(pending)
    /\ UNCHANGED <<proc, now, subscribed, sweep, sweepNow, produced, doubled, lost, exits>>

CloseStore ==
    /\ proc = "quitting" /\ sweep = "off" /\ pending = <<>>
    /\ proc' = "off" /\ Reopened
    /\ UNCHANGED <<now, pending, batchEpoch, disk, sweep, sweepNow, produced, accepted,
                   doubled, faults, exits>>

\* A crash takes the batch with it.
Crash ==
    /\ proc \in {"up", "quitting"} /\ exits < MaxExits /\ exits' = exits + 1
    /\ proc' = "off" /\ pending' = <<>> /\ sweep' = "off" /\ Reopened
    /\ UNCHANGED <<now, batchEpoch, disk, sweepNow, produced, accepted, doubled, faults>>

Tick ==
    /\ now < MaxTime /\ now' = now + 1
    /\ UNCHANGED <<proc, bridge, store, sweep, sweepNow, produced, accepted, doubled,
                   lost, faults, exits>>

HistorianNext ==
    \/ enqueue \/ clearCallbacks
    \/ SweepRaw \/ SweepMinute \/ SweepWakes
    \/ registerHistorian \/ Quit \/ FinalFlush \/ CloseStore \/ Crash \/ Tick

-----------------------------------------------------------------------------
(* Properties.                                                             *)

\* A sample write() accepted stays in the store through batches, sweeps, crashes
\* and restarts, in exactly one tier: demotion neither drops a row nor counts it
\* twice, except where the code ignores a failed DELETE (doubled) or a failed
\* COMMIT (lost).  SqliteHistoryStore::demoteOlderThan, write.
AcceptedSamplesConserved ==
    \A s \in accepted :
        /\ s \notin lost    => RowsWith(s) # {}
        /\ s \notin doubled => Cardinality(RowsWith(s)) <= 1

\* What the store has accepted for the window of a chart.
Due(r) == {s \in accepted \ lost : now - rangeLookback(r) <= s.ts /\ s.ts <= now}

\* What a chart has room for: the query asks for kChartLimit rows, the widget
\* keeps kTrendChartCapacity of them.
ChartPoints == IF kTrendChartCapacity < kChartLimit THEN kTrendChartCapacity ELSE kChartLimit

\* Whenever it is drawn, the "Last hour" chart shows the newest samples the store
\* has accepted for that hour, all of them or as many as it has room for, whatever
\* the maintenance thread has demoted meanwhile.  HistoryPage::populateChart,
\* TrendChart::addPoint, HistorianMaintenance::runOnce.
LastHourComplete ==
    proc = "up" =>
        LET shown == populateChart("hour")
        IN  /\ shown \subseteq Due("hour")
            /\ \/ shown = Due("hour")
               \/ /\ Cardinality(shown) = ChartPoints
                  /\ \A s \in shown, d \in Due("hour") \ shown : d.ts <= s.ts

\* No accepted sample is lost or counted twice, and none is missing from the chart
\* of its hour unless newer ones fill it.  SqliteHistoryStore,
\* HistorianMaintenance::runOnce, HistoryPage.
HistoryComplete == AcceptedSamplesConserved /\ LastHourComplete

\* "an operator zooming into the last 24h sees minute-resolution data for the
\* most recent hour" (SqliteHistoryStore.h, query routing): the samples of the
\* last hour are behind some row of the 24 h chart.
DayChartHasLastHour ==
    proc = "up" /\ Cardinality(Due("hour")) <= ChartPoints =>
        Due("hour") \subseteq populateChart("day")
=============================================================================
