---------------------------- MODULE LogLifecycle ----------------------------
(***************************************************************************)
(* The life of a request_logs row: written when its request ends, folded   *)
(* into the aggregate of its day, repriced by the cost recomputation       *)
(* (internal/service/cost.go, Recompute), deleted by retention.  The       *)
(* aggregation task, the retention task, the recomputation and the gateway *)
(* share the database and nothing else; the process may die between any    *)
(* two statements.  cmd/server/main.go starts them together.               *)
(***************************************************************************)
EXTENDS Aggregation, Cleanup

CONSTANTS
    RebuildDays,  \* the values the settings page passes to RebuildAggregate
    RecomputeModes, \* the onlyMissing flags Recompute is called with
    MaxFaults     \* bound: crashes and failing statements in a behaviour

ASSUME LifecycleAssumption ==
    /\ RebuildDays \subseteq Int /\ \A n \in RebuildDays : n < FirstDay
    /\ RecomputeModes \subseteq BOOLEAN
    /\ MaxFaults \in Nat

VARIABLES
    rec,    \* the recomputation in progress
    faults

vars == <<storeVars, aggVars, ret, rec, faults>>

\* todo: the rows read by RecomputeBatch not yet handled; was: the ones of
\* them that had a cost; updated: res.Updated > 0.
Recomputation == [pc : {"idle", "scan"}, from : 0 .. LastDay, to : 0 .. LastDay,
                  todo : SUBSET LogId, was : SUBSET LogId, updated : BOOLEAN]

Scan(from, to, todo, was, updated) ==
    [pc |-> "scan", from |-> from, to |-> to, todo |-> todo, was |-> was, updated |-> updated]

RecIdle == [pc |-> "idle", from |-> 0, to |-> 0, todo |-> {}, was |-> {}, updated |-> FALSE]

TypeOK ==
    /\ StoreTypeOK /\ AggTypeOK /\ CleanupTypeOK
    /\ rec \in Recomputation
    /\ faults \in 0 .. MaxFaults

Init ==
    /\ StoreInit /\ AggInit /\ CleanupInit
    /\ rec = RecIdle
    /\ faults = 0

Fault == faults < MaxFaults /\ faults' = faults + 1

-----------------------------------------------------------------------------
\* The gateway accepts a request (created_at is set here) ...
Accept(i) ==
    /\ Serving /\ phase[i] = "unused"
    /\ phase' = [phase EXCEPT ![i] = "open"]
    /\ at' = [at EXCEPT ![i] = Now]
    /\ UNCHANGED <<today, tod, stage, priced, daily, watermark, lastCleanup,
                   aggVars, ret, rec, faults>>

\* ... and inserts its row when it is over, with the cost it could compute.
Complete(i) ==
    /\ Serving /\ phase[i] = "open"
    /\ phase' = [phase EXCEPT ![i] = "logged"]
    /\ \E cost \in {{}, {i}} : priced' = priced \cup cost
    /\ UNCHANGED <<today, tod, stage, at, daily, watermark, lastCleanup,
                   aggVars, ret, rec, faults>>

\* logs.Create failed: the gateway logs the error, the row is lost.
CreateError(i) ==
    /\ Serving /\ phase[i] = "open"
    /\ phase' = [phase EXCEPT ![i] = "lost"]
    /\ Fault
    /\ UNCHANGED <<today, tod, stage, at, priced, daily, watermark, lastCleanup,
                   aggVars, ret, rec>>

-----------------------------------------------------------------------------
\* Recompute(from, zero, onlyMissing): one batch (recomputeBatch = 500) holds
\* every row of a model of this size.  main starts one with onlyMissing while
\* it is still wiring, later ones come from the pricing page.
StartRecompute ==
    /\ rec.pc = "idle" /\ job["recompute"].pc = "idle"
    /\ \E from \in FirstDay .. today, onlyMissing \in RecomputeModes :
         /\ Serving \/ (stage = "starting" /\ onlyMissing)
         /\ LET batch == {i \in Rows : at[i].day >= from /\ (onlyMissing => i \notin priced)}
            IN  rec' = Scan(from, today, batch, batch \cap priced, FALSE)
    /\ UNCHANGED <<storeVars, aggVars, ret, faults>>

\* One row: Cost by the prices of now; UpdateCost only if it differs from the
\* cost the row was read with.  The row may have been deleted since.
RecomputeRow(i) ==
    /\ rec.pc = "scan" /\ i \in rec.todo
    /\ \E cost \in BOOLEAN :
         LET changed == cost # (i \in rec.was) IN
         /\ rec' = Scan(rec.from, rec.to, rec.todo \ {i}, rec.was, rec.updated \/ changed)
         /\ priced' = IF ~changed THEN priced
                      ELSE IF cost THEN priced \cup ({i} \cap Rows) ELSE priced \ {i}
    /\ UNCHANGED <<today, tod, stage, phase, at, daily, watermark, lastCleanup,
                   aggVars, ret, faults>>

\* A statement that fails, or a cancelled context, ends it without postRecompute.
RecomputeError ==
    /\ rec.pc = "scan"
    /\ rec' = RecIdle
    /\ Fault
    /\ UNCHANGED <<storeVars, aggVars, ret>>

\* Mutant: the first day of the range is left out of the rebuild.
EndRecomputeSkipsFirstDay ==
    /\ rec.pc = "scan" /\ rec.todo = {}
    /\ IF rec.updated /\ Serving
       THEN RebuildRange("recompute", rec.from + 1, rec.to)
       ELSE UNCHANGED aggVars
    /\ rec' = RecIdle
    /\ UNCHANGED <<storeVars, ret, faults>>

\* The end: postRecompute rebuilds the range only if a row was updated, and
\* only if main has set it by then (an unsynchronised write: either outcome).
EndRecompute ==
    /\ rec.pc = "scan" /\ rec.todo = {}
    /\ IF rec.updated /\ Serving
       THEN RebuildRange("recompute", rec.from, rec.to)
       ELSE UNCHANGED aggVars
    /\ rec' = RecIdle
    /\ UNCHANGED <<storeVars, ret, faults>>

-----------------------------------------------------------------------------
\* Time.  A tick is much longer than a request or a pass: a request of
\* yesterday is over by the end of today's first tick, and no pass lasts
\* over two ticks.
Clock ==
    /\ \A i \in LogId : phase[i] = "open" => (at[i].day = today \/ tod # 0)
    /\ \A w \in Worker : Running(w) => ~job[w].aged
    /\ IF tod < TicksPerDay - 1
       THEN tod' = tod + 1 /\ today' = today
       ELSE tod' = 0 /\ today' = today + 1 /\ today < LastDay
    /\ job' = [w \in Worker |->
                  LET j == job[w] IN
                  IF Running(w) THEN Pass(j.pc, j.day, j.to, j.base, j.counted, TRUE) ELSE j]
    /\ UNCHANGED <<stage, phase, at, priced, daily, watermark, lastCleanup,
                   runMu, ret, rec, faults>>

Crash ==
    /\ stage # "down" /\ stage' = "down"
    /\ phase' = [i \in LogId |-> IF phase[i] = "open" THEN "lost" ELSE phase[i]]
    /\ AggCrash /\ CleanupCrash /\ rec' = RecIdle
    /\ Fault
    /\ UNCHANGED <<today, tod, at, priced, daily, watermark, lastCleanup>>

Restart ==
    /\ stage = "down" /\ stage' = "starting"
    /\ UNCHANGED <<today, tod, phase, at, priced, daily, watermark, lastCleanup,
                   aggVars, ret, rec, faults>>

\* SetPostRecompute, then the tasks and the server are started.
Wire ==
    /\ stage = "starting" /\ stage' = "serving"
    /\ UNCHANGED <<today, tod, phase, at, priced, daily, watermark, lastCleanup,
                   aggVars, ret, rec, faults>>

Gateway == \E i \in LogId : Accept(i) \/ Complete(i) \/ CreateError(i)

Recompute ==
    \/ StartRecompute \/ RecomputeError \/ EndRecompute
    \/ \E i \in LogId : RecomputeRow(i)

Aggregate ==
    /\ \/ EnsureBackfill \/ TickOnce
       \/ \E n \in RebuildDays : RebuildAggregate(n)
       \/ \E w \in Worker : PassStep(w)
    /\ UNCHANGED <<ret, rec, faults>>

AggregateFails == (\E w \in Worker : AggError(w)) /\ Fault /\ UNCHANGED <<ret, rec>>

Retention ==
    /\ RunIfDue \/ Trigger \/ DeleteBefore \/ Finish
    /\ UNCHANGED <<aggVars, rec, faults>>

RetentionFails == (DeleteError \/ FinishError) /\ Fault /\ UNCHANGED <<aggVars, rec>>

Next ==
    \/ Gateway \/ Recompute \/ Aggregate \/ AggregateFails
    \/ Retention \/ RetentionFails \/ Clock \/ Crash \/ Restart \/ Wire

Spec == Init /\ [][Next]_vars

\* Passes that hold runMu go on, the ticker gets the mutex in the end (Go's
\* mutex does not starve a waiter), a dead process is restarted.
Fairness ==
    /\ WF_vars(\E w \in Worker : PassStep(w) /\ UNCHANGED <<ret, rec, faults>>)
    /\ SF_vars(EnsureBackfill /\ UNCHANGED <<ret, rec, faults>>)
    /\ SF_vars(TickOnce /\ UNCHANGED <<ret, rec, faults>>)
    /\ WF_vars(Restart) /\ WF_vars(Wire)

FairSpec == Spec /\ Fairness

-----------------------------------------------------------------------------
\* The day lost a row to retention.
Purged(d) == \E i \in LogId : phase[i] = "deleted" /\ at[i].day = d

\* Behind the watermark the aggregate of a day that lost no row to retention
\* counts exactly the day's rows: sealing comes after the last late row
\* (tickLocked's order of rebuild and UpdateAggStatus, and sealLag).
SealedExact ==
    \A d \in Days : d <= watermark /\ ~Purged(d) => daily[d].ids = RowsOf(d)

\* Once a recomputation and its rebuild are through, the cost of a sealed day
\* is again the cost of its rows, whichever passes ran in between.  (As long as
\* nothing failed: see UnchangedMeansConsistent.)
SealedCostExact ==
    faults = 0 /\ rec.pc = "idle" /\ job["recompute"].pc = "idle" =>
        \A d \in Days : d <= watermark /\ ~Purged(d) => daily[d].priced = Summed(d).priced

\* Retention deletes what it should: a pass that ended without an error left no
\* row older than its cutoff, its batch loop having stopped neither early nor at
\* a full batch (onceLocked); and whatever max_days is set to, today's rows are
\* all there, for the dashboard's live half (Lifetime's DailyUsage) counts them.
PassIsComplete ==
    /\ ret.pc = "finish" /\ ~ret.err => RowsBefore(ret.cutoff) = {}
    /\ ~Purged(today)

\* What the ticker has sealed it leaves alone: while nobody has asked for a
\* rebuild, no step changes the aggregate of a day behind the watermark, though
\* retention deletes the day's rows meanwhile, also between the COUNT and the
\* transaction of a RebuildDay, and midnight comes in the middle of a pass
\* (aggregate.go:8-9; tickLocked's window and its sealing loop).
SealedUntilAsked ==
    [][\A d \in Days : d <= watermark /\ ~Running("admin") /\ ~Running("recompute")
                        => daily'[d] = daily[d]]_vars

\* Whatever goroutines rebuild at the same time, sealed days stay sealed.
WatermarkMonotone == [][watermark' >= watermark]_vars

\* A logged request reaches the aggregate of its day, unless retention was
\* faster: no crash, failed pass or midnight makes the task skip it for good.
EventuallyCounted ==
    \A i \in LogId : phase[i] = "logged" ~>
        (phase[i] = "deleted" \/ \E d \in Days : i \in daily[d].ids)

-----------------------------------------------------------------------------
\* What comments say, against what the code does (README, Findings).

\* aggregate.go:4-5: a sealed aggregate row does not change any more, and
\* deleting details does not shrink it.  Only rows that keep a request are
\* looked at: RebuildAll, which drops the others as documented, is kept out of
\* RebuildDays.  What is kept of the promise is SealedUntilAsked.
SealedRowsNeverShrink ==
    [][\A d \in Days : d <= watermark /\ daily'[d].ids # {}
                        => daily[d].ids \subseteq daily'[d].ids]_vars

\* cost.go, Recompute: without an updated row the aggregates still agree
\* with the rows, so there is nothing to rebuild.
UnchangedMeansConsistent ==
    rec.pc = "scan" /\ rec.todo = {} /\ ~rec.updated =>
        \A d \in rec.from .. watermark : ~Purged(d) => daily[d].priced = Summed(d).priced
=============================================================================
