---------------------------- MODULE Aggregation ----------------------------
(***************************************************************************)
(* internal/aggregation/aggregate.go: the background task that folds       *)
(* request_logs into one row per local day.  Three goroutines run passes   *)
(* of it, serialised by runMu: the ticker (Run), the settings page         *)
(* (RebuildAggregate) and the cost recomputation (postRecompute).  A pass  *)
(* is not atomic: each RebuildDay is a COUNT and then a transaction, and   *)
(* the watermark is written last.                                          *)
(***************************************************************************)
EXTENDS StatsStore

CONSTANTS
    MaxRebuildDays  \* aggregation.maxRebuildDays (400 in the code)

ASSUME RebuildAssumption == MaxRebuildDays \in Nat

VARIABLES
    runMu,   \* Service.runMu: the worker that holds it, or "free"
    job      \* the pass each worker is in

aggVars == <<runMu, job>>

Worker == {"ticker", "admin", "recompute"}

Pcs == {"boot", "idle", "roll", "seal", "range", "full", "mark"}

\* day: the next day to rebuild; to: the last one; base: the local day the
\* pass took as today; counted: COUNT(*) of day was positive, its
\* transaction is next; aged: a tick passed since the pass began.
Job == [pc : Pcs, day : 0 .. LastDay + 1, to : 0 .. LastDay, base : 0 .. LastDay,
        counted : BOOLEAN, aged : BOOLEAN]

Pass(pc, day, to, base, counted, aged) ==
    [pc |-> pc, day |-> day, to |-> to, base |-> base, counted |-> counted, aged |-> aged]

Idle == Pass("idle", 0, 0, 0, FALSE, FALSE)
Boot == Pass("boot", 0, 0, 0, FALSE, FALSE)

Running(w) == job[w].pc \notin {"idle", "boot"}

\* Mutant: the mutex is not taken.
BeginUnlocked(w, pc, from, to) ==
    /\ runMu' = w
    /\ job' = [job EXCEPT ![w] = Pass(pc, from, to, today, FALSE, FALSE)]

\* Lock runMu and start on the days from .. to.
Begin(w, pc, from, to) ==
    /\ runMu = "free"
    /\ runMu' = w
    /\ job' = [job EXCEPT ![w] = Pass(pc, from, to, today, FALSE, FALSE)]

\* The deferred Unlock.
Release(w) ==
    /\ runMu' = "free"
    /\ job' = [job EXCEPT ![w] = Idle]

-----------------------------------------------------------------------------
\* Run starts with ensureBackfill: nothing to do once a watermark is there,
\* else a full rebuild.
EnsureBackfill ==
    /\ Serving /\ job["ticker"].pc = "boot"
    /\ \/ /\ watermark > 0
          /\ job' = [job EXCEPT !["ticker"] = Idle]
          /\ UNCHANGED runMu
       \/ watermark = 0 /\ Begin("ticker", "full", 0, 0)
    /\ UNCHANGED storeVars

\* Mutant: one day more is rebuilt.
TickOnceWide ==
    /\ Serving /\ job["ticker"].pc = "idle"
    /\ Begin("ticker", "roll", today - sealLag, today)
    /\ UNCHANGED storeVars

\* TickOnce: yesterday and today first.
TickOnce ==
    /\ Serving /\ job["ticker"].pc = "idle"
    /\ Begin("ticker", "roll", today - (sealLag - 1), today)
    /\ UNCHANGED storeVars

\* RebuildRange(from, to): too long a range becomes RebuildAll.
RebuildRange(w, from, to) ==
    IF to - from > MaxRebuildDays THEN Begin(w, "full", 0, 0)
                                  ELSE Begin(w, "range", from, to)

\* DataSettingsService.RebuildAggregate: days <= 0 rebuilds everything, else
\* the last n days up to now.  (n < today: no request is older than day 1.)
RebuildAggregate(n) ==
    /\ Serving /\ job["admin"].pc = "idle"
    /\ IF n <= 0 THEN Begin("admin", "full", 0, 0)
                 ELSE RebuildRange("admin", today - n, today)
    /\ UNCHANGED storeVars

\* The loop condition of every loop over days.
DayLeft(j) == j.day <= j.to

\* RebuildDay, first half: a day without rows is left alone.
CountDay(w) ==
    LET j == job[w] IN
    /\ j.pc \in {"roll", "seal", "range"} /\ ~j.counted /\ DayLeft(j)
    /\ job' = [job EXCEPT ![w] =
                    IF RowsOf(j.day) = {}
                    THEN Pass(j.pc, j.day + 1, j.to, j.base, FALSE, j.aged)
                    ELSE Pass(j.pc, j.day, j.to, j.base, TRUE, j.aged)]
    /\ UNCHANGED <<runMu, storeVars>>

\* RebuildDay, second half.
WriteDay(w) ==
    LET j == job[w] IN
    /\ j.counted
    /\ RebuildTx(j.day)
    /\ job' = [job EXCEPT ![w] = Pass(j.pc, j.day + 1, j.to, j.base, FALSE, j.aged)]
    /\ UNCHANGED <<runMu, today, tod, stage, phase, at, priced, watermark, lastCleanup>>

Finished(w, pc) == job[w].pc = pc /\ ~job[w].counted /\ job[w].day > job[w].to

\* Mutants: the first day behind the watermark is skipped; the watermark moves
\* on without a last rebuild.
FirstUnsealedSkipsOne(w) == watermark + 2
FirstUnsealedNone(w) == job[w].base - sealLag + 1

\* Where the sealing loop starts.
FirstUnsealed(w) == watermark + 1

\* tickLocked between its loops: read the watermark; when it is behind
\* today-sealLag, the days in between get their last rebuild.
Watermarked(w) ==
    /\ Finished(w, "roll")
    /\ IF watermark >= job[w].base - sealLag
       THEN Release(w)
       ELSE /\ job' = [job EXCEPT ![w] =
                           Pass("seal", FirstUnsealed(w), @.base - sealLag, @.base, FALSE, @.aged)]
            /\ UNCHANGED runMu
    /\ UNCHANGED storeVars

\* tickLocked's last statement: UpdateAggStatus.
Seal(w) ==
    /\ Finished(w, "seal")
    /\ watermark' = job[w].base - sealLag
    /\ Release(w)
    /\ UNCHANGED <<today, tod, stage, phase, at, priced, daily, lastCleanup>>

EndRange(w) ==
    /\ Finished(w, "range")
    /\ Release(w)
    /\ UNCHANGED storeVars

\* RebuildAll: the backfill, and then the watermark, from the clock as it is
\* by then.
Backfill(w) ==
    /\ job[w].pc = "full"
    /\ BackfillAll
    /\ job' = [job EXCEPT ![w] = Pass("mark", 0, 0, @.base, FALSE, @.aged)]
    /\ UNCHANGED <<runMu, today, tod, stage, phase, at, priced, watermark, lastCleanup>>

MarkAll(w) ==
    /\ job[w].pc = "mark"
    /\ watermark' = today - sealLag
    /\ Release(w)
    /\ UNCHANGED <<today, tod, stage, phase, at, priced, daily, lastCleanup>>

\* Any query of a pass may fail: the pass returns, nothing is undone.
AggError(w) ==
    /\ Running(w)
    /\ Release(w)
    /\ UNCHANGED storeVars

PassStep(w) ==
    \/ CountDay(w) \/ WriteDay(w) \/ Watermarked(w) \/ Seal(w)
    \/ EndRange(w) \/ Backfill(w) \/ MarkAll(w)

-----------------------------------------------------------------------------
AggTypeOK ==
    /\ runMu \in Worker \cup {"free"}
    /\ job \in [Worker -> Job]

AggInit ==
    /\ runMu = "free"
    /\ job = [w \in Worker |-> IF w = "ticker" THEN Boot ELSE Idle]

\* The process dies: no goroutine is left, the ticker boots at restart.
AggCrash ==
    /\ runMu' = "free"
    /\ job' = [w \in Worker |-> IF w = "ticker" THEN Boot ELSE Idle]
=============================================================================
