----------------------------- MODULE StatsStore -----------------------------
(***************************************************************************)
(* The two tables the usage statistics live in, as internal/repository     *)
(* keeps them: request_logs (one row per gateway request, created_at is    *)
(* the moment the request STARTED, the row is inserted when it ENDS) and   *)
(* daily_usage_stats/daily_model_stats (one aggregate row per local day),  *)
(* with the single data_settings row that both background tasks write to.  *)
(*                                                                         *)
(* The sums of an aggregate row are abstracted to what they are sums OF:   *)
(* the set of log rows counted, and the ones among them that carried a     *)
(* cost.  Time is a local day and a tick within it, so that a retention    *)
(* cutoff falls in the middle of a day, as time.AddDate(0,0,-n) does.      *)
(***************************************************************************)
EXTENDS Integers, FiniteSets

CONSTANTS
    LogId,       \* the requests that may ever be made
    FirstDay,    \* local day number on which the history starts
    LastDay,     \* bound: the clock stops on this day
    TicksPerDay  \* ticks of a day

\* time.Duration: upstream timeouts and aggregation passes are minutes, a
\* tick is a part of a day.
ASSUME CalendarAssumption ==
    /\ FirstDay \in Nat /\ FirstDay > 2
    /\ LastDay \in Nat /\ LastDay >= FirstDay
    /\ TicksPerDay \in Nat /\ TicksPerDay >= 2

VARIABLES
    today, tod,      \* the wall clock: local day bucket, tick within the day
    stage,           \* of the process: main is still wiring it up, or not running
    phase,           \* where each request is in its life
    at,              \* created_at of each request: the time it was accepted
    priced,          \* rows of request_logs with cost_usd > 0
    daily,           \* day -> aggregate row
    watermark,       \* data_settings.agg_watermark_day; 0 = never aggregated
    lastCleanup      \* data_settings.last_cleanup_at/_day: day 0 = never cleaned

storeVars == <<today, tod, stage, phase, at, priced, daily, watermark, lastCleanup>>

\* aggregation.sealLag
sealLag == 2

Days  == 1 .. LastDay
Times == [day : 0 .. LastDay, tod : 0 .. TicksPerDay - 1]
Now   == [day |-> today, tod |-> tod]

\* s is strictly earlier than t.
Before(s, t) == s.day < t.day \/ (s.day = t.day /\ s.tod < t.tod)

\* main has started the tasks and the HTTP server.
Serving == stage = "serving"

Phases == {"unused", "open", "logged", "deleted", "lost"}

AggRow == [row : BOOLEAN, ids : SUBSET LogId, priced : SUBSET LogId]
NoRow  == [row |-> FALSE, ids |-> {}, priced |-> {}]

-----------------------------------------------------------------------------
\* The rows of request_logs, those of one local day (DayRange: start
\* inclusive, end exclusive), and those older than a cutoff.
Rows == {i \in LogId : phase[i] = "logged"}

RowsOf(d) == {i \in Rows : at[i].day = d}

RowsBefore(cutoff) == {i \in Rows : Before(at[i], cutoff)}

\* What INSERT ... SELECT writes for a day: the sums over its present rows.
Summed(d) == [row |-> TRUE, ids |-> RowsOf(d), priced |-> RowsOf(d) \cap priced]

\* dailyStatsRepo.RebuildDay after its COUNT said the day has rows: delete
\* the aggregate row, insert the sums again, in one transaction.
RebuildTx(d) == daily' = [daily EXCEPT ![d] = Summed(d)]

\* dailyStatsRepo.BackfillAll: empty both tables, then one GROUP BY day over
\* what request_logs still holds; a day without rows gets no aggregate row.
BackfillAll ==
    daily' = [d \in Days |-> IF RowsOf(d) = {} THEN NoRow ELSE Summed(d)]

\* logRepo.DeleteBefore: one batch of at most n rows older than the cutoff;
\* which ones is SQLite's choice.
DeleteBatch(cutoff, n) ==
    {batch \in SUBSET RowsBefore(cutoff) :
        IF Cardinality(RowsBefore(cutoff)) <= n
        THEN batch = RowsBefore(cutoff)
        ELSE Cardinality(batch) = n}

-----------------------------------------------------------------------------
StoreTypeOK ==
    /\ today \in FirstDay .. LastDay
    /\ tod \in 0 .. TicksPerDay - 1
    /\ stage \in {"down", "starting", "serving"}
    /\ phase \in [LogId -> Phases]
    /\ at \in [LogId -> Times]
    /\ priced \in SUBSET LogId
    /\ daily \in [Days -> AggRow]
    /\ watermark \in 0 .. LastDay
    /\ lastCleanup \in Times

StoreInit ==
    /\ today = FirstDay /\ tod = 0
    /\ stage = "starting"
    /\ phase = [i \in LogId |-> "unused"]
    /\ at = [i \in LogId |-> [day |-> 0, tod |-> 0]]
    /\ priced = {}
    /\ daily = [d \in Days |-> NoRow]
    /\ watermark = 0
    /\ lastCleanup = [day |-> 0, tod |-> 0]
=============================================================================
