------------------------------ MODULE Cleanup ------------------------------
(***************************************************************************)
(* internal/cleanup/cleanup.go: the retention task.  It deletes rows older *)
(* than a cutoff fixed when the pass begins, batch by batch, each batch a  *)
(* statement of its own, and records when it finished.  It knows nothing   *)
(* of the aggregation task.  request_headers, which the same pass empties  *)
(* (TrimHeadersBefore), and VACUUM touch no statistic and are left out.    *)
(***************************************************************************)
EXTENDS StatsStore

CONSTANTS
    RetentionDays,  \* the values max_days may be set to; 0 stands for unset
    Modes,          \* the trigger modes it may be set to
    RunTick,        \* daily mode: the tick of run_hour
    IntervalTicks,  \* interval mode: the interval
    BatchSize       \* rows of one DELETE

ASSUME CleanupAssumption ==
    /\ RetentionDays \subseteq Nat
    /\ Modes \subseteq {"daily", "interval"}
    /\ RunTick \in 0 .. TicksPerDay - 1
    /\ IntervalTicks \in Nat
    /\ BatchSize \in Nat /\ BatchSize > 0

VARIABLE ret  \* the pass in progress; not idle = Retention.runMu is held

\* defaultMaxDays
defaultMaxDays == 90

RetPass == [pc : {"idle", "delete", "finish"}, cutoff : Times, err : BOOLEAN]

RetentionPass(pc, cutoff, err) == [pc |-> pc, cutoff |-> cutoff, err |-> err]

RetIdle == RetentionPass("idle", [day |-> 0, tod |-> 0], FALSE)

TicksSince(t) == (today - t.day) * TicksPerDay + (tod - t.tod)

\* due: daily mode runs once the hour has come, at most once a day; interval
\* mode when the interval has passed, and at once if it never ran.
Due(mode) ==
    \/ mode = "interval" /\ (lastCleanup.day = 0 \/ TicksSince(lastCleanup) >= IntervalTicks)
    \/ mode = "daily" /\ lastCleanup.day # today /\ tod >= RunTick

\* start.AddDate(0, 0, -maxDays), with the default for a value that is not
\* positive; a cutoff before the history began deletes nothing.
Cutoff(maxDays) ==
    LET n == IF maxDays <= 0 THEN defaultMaxDays ELSE maxDays
    IN  IF n <= today THEN [day |-> today - n, tod |-> tod] ELSE [day |-> 0, tod |-> 0]

\* onceLocked up to its loop.
StartPass ==
    \E n \in RetentionDays : ret' = RetentionPass("delete", Cutoff(n), FALSE)

\* runIfDue: what the settings say is read at every check.
RunIfDue ==
    /\ Serving /\ ret.pc = "idle"
    /\ \E mode \in Modes : Due(mode)
    /\ StartPass
    /\ UNCHANGED storeVars

\* Trigger, the manual run: refused while a pass holds runMu, not subject
\* to due.
Trigger ==
    /\ Serving /\ ret.pc = "idle"
    /\ StartPass
    /\ UNCHANGED storeVars

\* Is a batch of n rows the last one?
LastBatch(n) == n < BatchSize

\* One DeleteBefore; a batch that is not full was the last one.
DeleteBefore ==
    /\ ret.pc = "delete"
    /\ \E batch \in DeleteBatch(ret.cutoff, BatchSize) :
          /\ phase' = [i \in LogId |-> IF i \in batch THEN "deleted" ELSE phase[i]]
          /\ priced' = priced \ batch
          /\ ret' = IF LastBatch(Cardinality(batch))
                    THEN RetentionPass("finish", ret.cutoff, FALSE) ELSE ret
    /\ UNCHANGED <<today, tod, stage, at, daily, watermark, lastCleanup>>

\* Mutant: the error of the DELETE is dropped.
DeleteErrorDropped ==
    /\ ret.pc = "delete"
    /\ ret' = RetentionPass("finish", ret.cutoff, FALSE)
    /\ UNCHANGED storeVars

\* A DELETE that fails ends the pass; what was deleted stays deleted, and
\* finish runs all the same.
DeleteError ==
    /\ ret.pc = "delete"
    /\ ret' = RetentionPass("finish", ret.cutoff, TRUE)
    /\ UNCHANGED storeVars

\* finish: UpdateCleanupStatus records the time the pass ENDED.
Finish ==
    /\ ret.pc = "finish"
    /\ lastCleanup' = Now
    /\ ret' = RetIdle
    /\ UNCHANGED <<today, tod, stage, phase, at, priced, daily, watermark>>

\* ... unless that write fails, which is only logged.
FinishError ==
    /\ ret.pc = "finish"
    /\ ret' = RetIdle
    /\ UNCHANGED storeVars

CleanupTypeOK == ret \in RetPass

CleanupInit == ret = RetIdle

CleanupCrash == ret' = RetIdle
=============================================================================
