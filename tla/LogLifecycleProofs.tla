------------------------- MODULE LogLifecycleProofs -------------------------
(***************************************************************************)
(* Proofs about LogLifecycle, for every calendar, every set of requests,   *)
(* every retention setting and every number of faults: the types, that the *)
(* watermark never moves back, that behind it aggregates are exact and     *)
(* left alone until somebody asks for a rebuild, and that a retention pass *)
(* leaves nothing it should have deleted.                                  *)
(***************************************************************************)
EXTENDS LogLifecycle, TLAPS

-----------------------------------------------------------------------------
\* The inductive invariant, in parts.

\* An aggregate counts only requests that were logged and began on its day.
CountedUnderOwnDay ==
    \A d \in Days : \A i \in daily[d].ids :
        phase[i] \in {"logged", "deleted"} /\ at[i].day = d

\* The day's aggregate counts exactly the day's rows, or rows were purged.
Exact(d) == Purged(d) \/ daily[d].ids = RowsOf(d)

\* A request in flight began today, or yesterday if it is still early.
OpenIsFresh ==
    \A i \in LogId : phase[i] = "open" =>
        at[i].day = today \/ (at[i].day = today - 1 /\ tod = 0)

\* The mutex is held by the one worker that is in a pass.
LockHeld == \A w \in Worker : Running(w) <=> runMu = w

\* A pass took today's date, or yesterday's if midnight came meanwhile.
BaseIsFresh ==
    \A w \in Worker : Running(w) =>
        \/ job[w].base = today
        \/ job[w].base = today - 1 /\ tod = 0 /\ job[w].aged

\* The days behind the watermark left the window that is rebuilt.
WatermarkBehind == watermark = 0 \/ watermark <= today - sealLag

\* A counted day is within its loop.
CountedInLoop ==
    \A w \in Worker : job[w].counted =>
        job[w].pc \in {"roll", "seal", "range"} /\ job[w].day \in 1 .. job[w].to

\* What a pass has done so far: the sealing loop is exact up to its day, a
\* full rebuild that awaits its mark is exact for every day it may mark.
PassProgress ==
    \A w \in Worker :
        /\ job[w].pc \in {"roll", "range"} => job[w].day >= 1
        /\ job[w].pc = "seal" =>
              /\ job[w].to = job[w].base - sealLag /\ watermark < job[w].to
              /\ job[w].day > watermark
              /\ \A d \in Days : d < job[w].day /\ d <= job[w].to => Exact(d)
        /\ job[w].pc = "mark" =>
              /\ \A d \in Days : d <= job[w].base - sealLag => Exact(d)
              /\ (tod # 0 /\ ~job[w].aged) \/ job[w].base = today - 1 =>
                    \A d \in Days : d <= job[w].base - 1 => Exact(d)

RecomputeInHistory == rec.pc = "scan" => rec.from >= 1

IInv ==
    /\ TypeOK
    /\ RecomputeInHistory
    /\ CountedUnderOwnDay
    /\ OpenIsFresh
    /\ LockHeld
    /\ BaseIsFresh
    /\ WatermarkBehind
    /\ CountedInLoop
    /\ PassProgress
    /\ SealedExact
-----------------------------------------------------------------------------
USE DEF sealLag

LEMMA InitIInv == Init => IInv
<1> SUFFICES ASSUME Init PROVE IInv
  OBVIOUS
<1> USE CalendarAssumption, CleanupAssumption, LifecycleAssumption
<1>1. TypeOK
  BY DEF Init, StoreInit, AggInit, CleanupInit, TypeOK, StoreTypeOK, AggTypeOK, CleanupTypeOK,
     Times, Phases, AggRow, NoRow, Worker, Pcs, Job, Idle, Boot, Pass, RetPass, RetIdle, RetentionPass, Recomputation, RecIdle, Scan
<1>2. CountedUnderOwnDay /\ OpenIsFresh /\ WatermarkBehind /\ RecomputeInHistory /\ SealedExact
  BY DEF Init, StoreInit, CountedUnderOwnDay, OpenIsFresh, WatermarkBehind, RecomputeInHistory,
     SealedExact, NoRow, RecIdle, Scan, Days
<1>3. LockHeld /\ BaseIsFresh /\ CountedInLoop /\ PassProgress
  BY DEF Init, AggInit, LockHeld, BaseIsFresh, CountedInLoop, PassProgress, Running, Idle, Boot, Pass, Worker
<1> QED BY <1>1, <1>2, <1>3 DEF IInv

LEMMA JobFields ==
    ASSUME NEW j \in Job
    PROVE  /\ j.pc \in Pcs /\ j.day \in 0 .. LastDay + 1 /\ j.to \in 0 .. LastDay
           /\ j.base \in 0 .. LastDay /\ j.counted \in BOOLEAN /\ j.aged \in BOOLEAN
  BY DEF Job

LEMMA StillIsJob == Idle \in Job /\ Boot \in Job
  BY CalendarAssumption DEF Idle, Boot, Pcs, Pass, Job

\* Locking for a pass over from .. to keeps the types.
LEMMA BeginType ==
    ASSUME TypeOK, NEW w \in Worker, NEW pc \in Pcs, NEW from \in 0 .. LastDay,
           NEW to \in 0 .. LastDay, Begin(w, pc, from, to)
    PROVE  AggTypeOK'
<1> USE CalendarAssumption DEF TypeOK, StoreTypeOK, AggTypeOK
<1>1. Pass(pc, from, to, today, FALSE, FALSE) \in Job
  BY DEF Pass, Job
<1> QED BY <1>1 DEF Begin

LEMMA ReleaseType ==
    ASSUME TypeOK, NEW w \in Worker, Release(w)
    PROVE  AggTypeOK'
  BY StillIsJob DEF TypeOK, AggTypeOK, Release

LEMMA RebuildRangeType ==
    ASSUME TypeOK, NEW w \in Worker, NEW from \in 0 .. LastDay, NEW to \in 0 .. LastDay,
           RebuildRange(w, from, to)
    PROVE  AggTypeOK'
<1>1. 0 \in 0 .. LastDay
  BY CalendarAssumption
<1> QED BY <1>1, BeginType DEF RebuildRange, Pcs

LEMMA PassStepType ==
    ASSUME IInv, NEW w \in Worker, PassStep(w)
    PROVE  AggTypeOK' /\ StoreTypeOK'
<1> USE CalendarAssumption DEF IInv, TypeOK, StoreTypeOK, AggTypeOK
<1> DEFINE j == job[w]
<1>j. j \in Job /\ j.pc \in Pcs /\ j.day \in 0 .. LastDay + 1 /\ j.to \in 0 .. LastDay
      /\ j.base \in 0 .. LastDay /\ j.counted \in BOOLEAN /\ j.aged \in BOOLEAN
  BY JobFields
<1>1. CASE CountDay(w)
  <2>1. j.day + 1 \in 0 .. LastDay + 1
    BY <1>1, <1>j DEF CountDay, DayLeft
  <2>2. Pass(j.pc, j.day + 1, j.to, j.base, FALSE, j.aged) \in Job
    BY <2>1, <1>j DEF Pass, Job
  <2>3. Pass(j.pc, j.day, j.to, j.base, TRUE, j.aged) \in Job
    BY <1>j DEF Pass, Job
  <2> QED BY <1>1, <2>2, <2>3 DEF CountDay, storeVars
<1>2. CASE WriteDay(w)
  <2>1. j.day \in 1 .. j.to
    BY <1>2, <1>j DEF WriteDay, CountedInLoop
  <2>2. Pass(j.pc, j.day + 1, j.to, j.base, FALSE, j.aged) \in Job
    BY <2>1, <1>j DEF Pass, Job
  <2>3. Summed(j.day) \in AggRow
    BY DEF Summed, AggRow, RowsOf, Rows
  <2> QED BY <1>2, <2>2, <2>3 DEF WriteDay, RebuildTx
<1>3. CASE Watermarked(w)
  <2>1. CASE watermark >= j.base - sealLag
    BY <1>3, <2>1, ReleaseType DEF Watermarked, storeVars
  <2>2. CASE ~(watermark >= j.base - sealLag)
    <3>1. FirstUnsealed(w) \in 0 .. LastDay + 1 /\ j.base - sealLag \in 0 .. LastDay
      BY <2>2, <1>j DEF FirstUnsealed
    <3>2. Pass("seal", FirstUnsealed(w), j.base - sealLag, j.base, FALSE, j.aged) \in Job
      BY <3>1, <1>j DEF Pass, Job, Pcs
    <3> QED BY <1>3, <2>2, <3>2 DEF Watermarked, storeVars
  <2> QED BY <2>1, <2>2
<1>4. CASE Seal(w)
  <2>1. j.base - sealLag \in 0 .. LastDay
    BY <1>4, <1>j DEF Seal, Finished, PassProgress
  <2> QED BY <1>4, <2>1, ReleaseType DEF Seal
<1>5. CASE EndRange(w)
  BY <1>5, ReleaseType DEF EndRange, storeVars
<1>6. CASE Backfill(w)
  <2>1. Pass("mark", 0, 0, j.base, FALSE, j.aged) \in Job
    BY <1>j DEF Pass, Job, Pcs
  <2>2. \A d \in Days : Summed(d) \in AggRow /\ NoRow \in AggRow
    BY DEF Summed, AggRow, NoRow, RowsOf, Rows
  <2> QED BY <1>6, <2>1, <2>2 DEF Backfill, BackfillAll
<1>7. CASE MarkAll(w)
  <2>1. today - sealLag \in 0 .. LastDay
    OBVIOUS
  <2> QED BY <1>7, <2>1, ReleaseType DEF MarkAll
<1> QED BY <1>1, <1>2, <1>3, <1>4, <1>5, <1>6, <1>7 DEF PassStep

LEMMA TypeStep == IInv /\ [Next]_vars => TypeOK'
<1> SUFFICES ASSUME IInv, [Next]_vars PROVE TypeOK'
  OBVIOUS
<1> USE CalendarAssumption, CleanupAssumption, LifecycleAssumption
<1> USE DEF IInv, TypeOK, StoreTypeOK, AggTypeOK, CleanupTypeOK
<1>1. CASE Gateway
  BY <1>1 DEF Gateway, Accept, Complete, CreateError, Fault, Times, Phases, Now, aggVars
<1>2. CASE Recompute
  <2>1. CASE StartRecompute
    BY <2>1 DEF StartRecompute, Scan, storeVars, aggVars, Recomputation, Rows
  <2>2. CASE RecomputeError
    BY <2>2 DEF RecomputeError, storeVars, aggVars, Recomputation, RecIdle, Scan, Fault
  <2>3. CASE EndRecompute
    <3>1. rec' \in Recomputation
      BY <2>3 DEF EndRecompute, RecIdle, Recomputation
    <3>2. rec.from \in 0 .. LastDay /\ rec.to \in 0 .. LastDay
      BY DEF Recomputation
    <3>3. AggTypeOK'
      BY <2>3, <3>2, RebuildRangeType DEF EndRecompute, aggVars, Worker
    <3> QED BY <2>3, <3>1, <3>3 DEF EndRecompute, storeVars
  <2>4. ASSUME NEW i \in LogId, RecomputeRow(i) PROVE TypeOK'
    BY <2>4 DEF RecomputeRow, Scan, aggVars, Recomputation, Rows
  <2> QED BY <1>2, <2>1, <2>2, <2>3, <2>4 DEF Recompute
<1>3. CASE Aggregate
  <2>0. ret' = ret /\ rec' = rec /\ faults' = faults
    BY <1>3 DEF Aggregate
  <2>1. CASE EnsureBackfill
    <3>1. AggTypeOK'
      <4>1. 0 \in 0 .. LastDay /\ "ticker" \in Worker /\ "full" \in Pcs
        BY DEF Worker, Pcs
      <4>2. CASE job' = [job EXCEPT !["ticker"] = Idle] /\ UNCHANGED runMu
        BY <4>2, StillIsJob
      <4>3. CASE Begin("ticker", "full", 0, 0)
        BY <4>1, <4>3, BeginType
      <4> QED BY <2>1, <4>2, <4>3 DEF EnsureBackfill
    <3> QED BY <2>0, <2>1, <3>1 DEF EnsureBackfill, storeVars
  <2>2. CASE TickOnce
    <3>1. AggTypeOK'
      <4>1. today - 1 \in 0 .. LastDay /\ today \in 0 .. LastDay
        OBVIOUS
      <4> QED BY <2>2, <4>1, BeginType DEF TickOnce, Worker, Pcs
    <3> QED BY <2>0, <2>2, <3>1 DEF TickOnce, storeVars
  <2>3. ASSUME NEW n \in RebuildDays, RebuildAggregate(n) PROVE TypeOK'
    <3>1. n \in Int /\ n < FirstDay
      OBVIOUS
    <3>2. AggTypeOK'
      <4>1. CASE n <= 0
        <5>1. 0 \in 0 .. LastDay
          OBVIOUS
        <5> QED BY <2>3, <4>1, <5>1, BeginType DEF RebuildAggregate, Worker, Pcs
      <4>2. CASE ~(n <= 0)
        <5>1. today - n \in 0 .. LastDay /\ today \in 0 .. LastDay
          BY <3>1, <4>2
        <5> QED BY <2>3, <4>2, <5>1, RebuildRangeType DEF RebuildAggregate, Worker
      <4> QED BY <4>1, <4>2
    <3> QED BY <2>0, <2>3, <3>2 DEF RebuildAggregate, storeVars
  <2>4. ASSUME NEW w \in Worker, PassStep(w) PROVE TypeOK'
    BY <2>0, <2>4, PassStepType
  <2> QED BY <1>3, <2>1, <2>2, <2>3, <2>4 DEF Aggregate
<1>4. CASE AggregateFails
  <2>1. PICK w \in Worker : AggError(w)
    BY <1>4 DEF AggregateFails
  <2> QED BY <1>4, <2>1, ReleaseType DEF AggregateFails, AggError, Fault, storeVars
<1>5. CASE Retention
  <2>0. UNCHANGED <<runMu, job, rec, faults>>
    BY <1>5 DEF Retention, aggVars
  <2>1. CASE RunIfDue \/ Trigger
    <3>1. PICK n \in RetentionDays : ret' = RetentionPass("delete", Cutoff(n), FALSE)
      BY <2>1 DEF RunIfDue, Trigger, StartPass
    <3>2. n \in Nat
      OBVIOUS
    <3>3. Cutoff(n) \in Times
      BY <3>2 DEF Cutoff, Times, defaultMaxDays
    <3>4. ret' \in RetPass
      BY <3>1, <3>3 DEF RetentionPass, RetPass
    <3> QED BY <2>0, <2>1, <3>4 DEF RunIfDue, Trigger, storeVars
  <2>2. CASE DeleteBefore
    BY <2>0, <2>2 DEF DeleteBefore, RetPass, RetentionPass, Phases
  <2>3. CASE Finish
    BY <2>0, <2>3 DEF Finish, Now, Times, RetIdle, RetPass, RetentionPass
  <2> QED BY <1>5, <2>1, <2>2, <2>3 DEF Retention
<1>6. CASE RetentionFails
  <2>1. ret.cutoff \in Times
    BY DEF RetPass
  <2>2. UNCHANGED <<storeVars, aggVars, rec>> /\ faults' \in 0 .. MaxFaults
    <3>1. faults' \in 0 .. MaxFaults
      BY <1>6 DEF RetentionFails, Fault
    <3> QED BY <1>6, <3>1 DEF RetentionFails, DeleteError, FinishError
  <2>3. ret' = RetentionPass("finish", ret.cutoff, TRUE) \/ ret' = RetIdle
    BY <1>6 DEF RetentionFails, DeleteError, FinishError
  <2>4. RetIdle \in RetPass
    BY DEF RetPass, RetIdle, RetentionPass, Times
  <2>5. RetentionPass("finish", ret.cutoff, TRUE) \in RetPass
    BY <2>1 DEF RetPass, RetentionPass
  <2> QED BY <2>2, <2>3, <2>4, <2>5 DEF storeVars, aggVars
<1>7. CASE Clock
  <2>1. \A w \in Worker :
          LET j == job[w] IN Pass(j.pc, j.day, j.to, j.base, j.counted, TRUE) \in Job
    <3> TAKE w \in Worker
    <3> QED BY JobFields DEF Pass, Job
  <2>2. job' \in [Worker -> Job]
    BY <1>7, <2>1 DEF Clock
  <2>3. today' \in FirstDay .. LastDay /\ tod' \in 0 .. TicksPerDay - 1
    BY <1>7 DEF Clock
  <2> QED BY <1>7, <2>2, <2>3 DEF Clock
<1>8. CASE Crash
  <2>1. job' \in [Worker -> Job] /\ runMu' = "free"
    BY <1>8, StillIsJob DEF Crash, AggCrash
  <2>2. rec' \in Recomputation /\ ret' \in RetPass
    BY <1>8 DEF Crash, CleanupCrash, RecIdle, Recomputation, RetIdle, RetentionPass, RetPass, Times
  <2>3. phase' \in [LogId -> Phases]
    BY <1>8 DEF Crash, Phases
  <2>4. UNCHANGED <<today, tod, at, priced, daily, watermark, lastCleanup>>
    BY <1>8 DEF Crash
  <2>5. faults' \in 0 .. MaxFaults
    BY <1>8 DEF Crash, Fault
  <2>6. stage' \in {"down", "starting", "serving"}
    BY <1>8 DEF Crash
  <2>7. StoreTypeOK'
    BY <2>3, <2>4, <2>6
  <2> QED BY <2>1, <2>2, <2>5, <2>7
<1>9. CASE Restart \/ Wire
  BY <1>9 DEF Restart, Wire, aggVars
<1>10. CASE UNCHANGED vars
  BY <1>10 DEF vars, storeVars, aggVars
<1> QED BY <1>1, <1>2, <1>3, <1>4, <1>5, <1>6, <1>7, <1>8, <1>9, <1>10 DEF Next
-----------------------------------------------------------------------------
\* The parts of IInv about passes and about books, and what preserves them.

PassParts == LockHeld /\ BaseIsFresh /\ CountedInLoop /\ PassProgress

BookParts == CountedUnderOwnDay /\ OpenIsFresh /\ WatermarkBehind /\ SealedExact

\* A step that touches none of what the parts speak of preserves them.
LEMMA Frame ==
    ASSUME IInv, UNCHANGED <<today, tod, phase, at, daily, watermark, runMu, job>>
    PROVE  PassParts' /\ BookParts'
<1>1. \A d \in Days : Exact(d)' <=> Exact(d)
  BY DEF Exact, Purged, RowsOf, Rows
<1>2. PassParts'
  BY <1>1 DEF IInv, PassParts, LockHeld, BaseIsFresh, CountedInLoop, PassProgress, Running
<1>3. BookParts'
  BY DEF IInv, BookParts, CountedUnderOwnDay, OpenIsFresh, WatermarkBehind, SealedExact,
     Purged, RowsOf, Rows
<1> QED BY <1>2, <1>3

\* The same for the books alone.
LEMMA BookFrame ==
    ASSUME IInv, UNCHANGED <<today, tod, phase, at, daily, watermark>>
    PROVE  BookParts' /\ \A d \in Days : Exact(d)' <=> Exact(d)
<1>1. \A d \in Days : Exact(d)' <=> Exact(d)
  BY DEF Exact, Purged, RowsOf, Rows
<1>2. BookParts'
  BY DEF IInv, BookParts, CountedUnderOwnDay, OpenIsFresh, WatermarkBehind, SealedExact,
     Purged, RowsOf, Rows
<1> QED BY <1>1, <1>2

\* No pass is running while the mutex is free.
LEMMA FreeMeansIdle ==
    ASSUME IInv, runMu = "free"
    PROVE  \A w \in Worker : ~Running(w)
  BY DEF IInv, LockHeld, Worker

\* A new pass starts with nothing done.
LEMMA BeginParts ==
    ASSUME IInv, NEW w \in Worker, NEW pc \in {"roll", "range", "full"},
           NEW from \in 0 .. LastDay, NEW to \in 0 .. LastDay, pc # "full" => from >= 1,
           Begin(w, pc, from, to), UNCHANGED <<today, tod, phase, at, daily, watermark>>
    PROVE  PassParts' /\ BookParts'
<1>1. runMu = "free" /\ runMu' = w /\ \A u \in Worker : ~Running(u)
  BY FreeMeansIdle DEF Begin
<1>2. job \in [Worker -> Job]
  BY DEF IInv, TypeOK, AggTypeOK
<1>3. job'[w] = Pass(pc, from, to, today, FALSE, FALSE)
  BY <1>2 DEF Begin
<1>4. \A u \in Worker : u # w => job'[u] = job[u]
  BY <1>2 DEF Begin
<1>5. /\ job'[w].pc = pc /\ job'[w].day = from /\ job'[w].base = today
      /\ ~job'[w].counted
  BY <1>3 DEF Pass
<1>6. LockHeld'
  BY <1>1, <1>4, <1>5 DEF LockHeld, Running
<1>7. BaseIsFresh' /\ CountedInLoop'
  BY <1>1, <1>4, <1>5 DEF IInv, BaseIsFresh, CountedInLoop, Running
<1>8. PassProgress'
  BY <1>1, <1>4, <1>5 DEF PassProgress, Running
<1> QED BY <1>6, <1>7, <1>8, BookFrame DEF PassParts

\* Giving the mutex back leaves no pass, whatever it recorded on the way.
LEMMA ReleaseParts ==
    ASSUME IInv, NEW w \in Worker, Running(w), Release(w)
    PROVE  PassParts'
<1>1. job \in [Worker -> Job]
  BY DEF IInv, TypeOK, AggTypeOK
<1>2. runMu' = "free" /\ runMu = w
  BY DEF IInv, LockHeld, Release
<1>3. job'[w].pc = "idle" /\ ~job'[w].counted
  BY <1>1 DEF Release, Idle, Pass
<1>4. \A u \in Worker : u # w => job'[u] = job[u] /\ ~Running(u)
  BY <1>1, <1>2 DEF IInv, LockHeld, Release
<1>5. \A u \in Worker : job'[u].pc \in {"idle", "boot"} /\ ~job'[u].counted
  BY <1>3, <1>4 DEF IInv, CountedInLoop, Running
<1>6. LockHeld' /\ BaseIsFresh' /\ CountedInLoop'
  BY <1>2, <1>5 DEF LockHeld, BaseIsFresh, CountedInLoop, Running, Worker
<1>7. PassProgress'
  BY <1>5 DEF PassProgress
<1> QED BY <1>6, <1>7 DEF PassParts

\* A pass that goes on keeps the mutex; the others are not running.
LEMMA StepParts ==
    ASSUME IInv, NEW w \in Worker, Running(w), NEW p \in Job,
           job' = [job EXCEPT ![w] = p], UNCHANGED <<runMu, today, tod>>,
           p.pc \notin {"idle", "boot"}, p.base = job[w].base, p.aged = job[w].aged,
           p.counted => p.pc \in {"roll", "seal", "range"} /\ p.day \in 1 .. p.to
    PROVE  /\ LockHeld' /\ BaseIsFresh' /\ CountedInLoop'
           /\ job'[w] = p
           /\ \A u \in Worker : u # w => job'[u] = job[u] /\ job[u].pc \in {"idle", "boot"}
<1>1. job \in [Worker -> Job]
  BY DEF IInv, TypeOK, AggTypeOK
<1>2. runMu = w
  BY DEF IInv, LockHeld
<1>3. job'[w] = p /\ \A u \in Worker : u # w => job'[u] = job[u] /\ ~Running(u)
  BY <1>1, <1>2 DEF IInv, LockHeld
<1>4. LockHeld' /\ BaseIsFresh' /\ CountedInLoop'
  BY <1>2, <1>3 DEF IInv, LockHeld, BaseIsFresh, CountedInLoop, Running
<1> QED BY <1>3, <1>4 DEF Running
-----------------------------------------------------------------------------
\* Each group of actions preserves the parts.

\* Counted rows stay counted under their day while they exist or existed.
LEMMA CountedStable ==
    ASSUME IInv, daily' = daily,
           \A i \in LogId : phase[i] \in {"logged", "deleted"} =>
               phase'[i] \in {"logged", "deleted"} /\ at'[i] = at[i]
    PROVE  CountedUnderOwnDay'
<1>1. \A d \in Days : daily[d].ids \subseteq LogId
  BY DEF IInv, TypeOK, StoreTypeOK, AggRow
<1> QED BY <1>1 DEF IInv, CountedUnderOwnDay

\* A request that is accepted or logged now is not in a day that a pass or
\* the watermark vouches for.
LEMMA GatewayParts == IInv /\ Gateway => PassParts' /\ BookParts'
<1> SUFFICES ASSUME IInv, NEW i \in LogId, Accept(i) \/ Complete(i) \/ CreateError(i)
             PROVE  PassParts' /\ BookParts'
  BY DEF Gateway
<1> USE CalendarAssumption
<1>t. TypeOK
  BY DEF IInv
<1>1. UNCHANGED <<today, tod, daily, watermark, runMu, job>>
  BY DEF Accept, Complete, CreateError, aggVars
<1>2. /\ today \in FirstDay .. LastDay /\ watermark \in 0 .. LastDay
      /\ phase \in [LogId -> Phases] /\ at \in [LogId -> Times]
      /\ \A w \in Worker : job[w].base \in 0 .. LastDay
  BY <1>t, JobFields DEF TypeOK, StoreTypeOK, AggTypeOK
<1>3. ASSUME NEW d \in Days, d < today - 1 \/ (d < today /\ tod # 0)
      PROVE  /\ Exact(d) => Exact(d)'
             /\ Purged(d)' <=> Purged(d)
             /\ RowsOf(d)' = RowsOf(d)
  <2>1. d \in 1 .. LastDay
    BY DEF Days
  <2>2. CASE Accept(i)
    BY <1>1, <1>2, <2>1, <2>2 DEF Accept, Now, Exact, Purged, RowsOf, Rows
  <2>3. CASE Complete(i) \/ CreateError(i)
    <3>1. phase[i] = "open" /\ at' = at /\ phase'[i] \in {"logged", "lost"}
          /\ \A k \in LogId : k # i => phase'[k] = phase[k]
      BY <1>2, <2>3 DEF Complete, CreateError
    <3>2. at[i].day # d
      BY <1>2, <2>1, <3>1, <1>3 DEF IInv, OpenIsFresh
    <3> QED BY <1>1, <1>2, <3>1, <3>2 DEF Exact, Purged, RowsOf, Rows
  <2> QED BY <2>2, <2>3
<1>4. LockHeld' /\ BaseIsFresh' /\ CountedInLoop' /\ WatermarkBehind'
  BY <1>1 DEF IInv, LockHeld, BaseIsFresh, CountedInLoop, WatermarkBehind, Running
<1>5. PassProgress'
  <2> SUFFICES ASSUME NEW w \in Worker
               PROVE  /\ job[w].pc \in {"roll", "range"} => job[w].day >= 1
                      /\ job[w].pc = "seal" =>
                            /\ job[w].to = job[w].base - sealLag /\ watermark < job[w].to
                            /\ job[w].day > watermark
                            /\ \A d \in Days : d < job[w].day /\ d <= job[w].to => Exact(d)'
                      /\ job[w].pc = "mark" =>
                            /\ \A d \in Days : d <= job[w].base - sealLag => Exact(d)'
                            /\ (tod # 0 /\ ~job[w].aged) \/ job[w].base = today - 1 =>
                                  \A d \in Days : d <= job[w].base - 1 => Exact(d)'
    BY <1>1 DEF PassProgress
  <2>1. Running(w) => job[w].base = today \/ (job[w].base = today - 1 /\ tod = 0)
    BY DEF IInv, BaseIsFresh
  <2>2. Days \subseteq Int
    BY DEF Days
  <2>3. CASE job[w].pc = "seal"
    BY <1>2, <1>3, <2>1, <2>2, <2>3 DEF IInv, PassProgress, Running
  <2>4. CASE job[w].pc = "mark"
    BY <1>2, <1>3, <2>1, <2>2, <2>4 DEF IInv, PassProgress, Running
  <2>5. CASE job[w].pc \notin {"seal", "mark"}
    BY <2>5 DEF IInv, PassProgress
  <2> QED BY <2>3, <2>4, <2>5
<1>6. SealedExact'
  <2> SUFFICES ASSUME NEW d \in Days, d <= watermark, ~Purged(d)'
               PROVE  daily[d].ids = RowsOf(d)'
    BY <1>1 DEF SealedExact
  <2>1. d \in 1 .. LastDay
    BY DEF Days
  <2>2. d < today - 1
    BY <1>2, <2>1 DEF IInv, WatermarkBehind
  <2> QED BY <1>3, <2>2 DEF IInv, SealedExact
<1>7. CountedUnderOwnDay'
  <2>1. \A k \in LogId : phase[k] \in {"logged", "deleted"} =>
            phase'[k] \in {"logged", "deleted"} /\ at'[k] = at[k]
    BY <1>2 DEF Accept, Complete, CreateError
  <2> QED BY <1>1, <2>1, CountedStable
<1>8. OpenIsFresh'
  BY <1>1, <1>2 DEF IInv, OpenIsFresh, Accept, Complete, CreateError, Now
<1> QED BY <1>4, <1>5, <1>6, <1>7, <1>8 DEF PassParts, BookParts

\* Retention takes rows away only from days that it marks as purged.
LEMMA DeleteParts == IInv /\ DeleteBefore /\ UNCHANGED aggVars => PassParts' /\ BookParts'
<1> SUFFICES ASSUME IInv, DeleteBefore, UNCHANGED aggVars PROVE PassParts' /\ BookParts'
  OBVIOUS
<1>1. PICK batch \in DeleteBatch(ret.cutoff, BatchSize) :
         phase' = [i \in LogId |-> IF i \in batch THEN "deleted" ELSE phase[i]]
  BY DEF DeleteBefore
<1>2. batch \subseteq Rows
  BY DEF DeleteBatch, RowsBefore
<1>3. UNCHANGED <<today, tod, at, daily, watermark, runMu, job>>
  BY DEF DeleteBefore, aggVars
<1>4. /\ phase \in [LogId -> Phases]
      /\ \A i \in LogId : phase'[i] = phase[i] \/ (phase[i] = "logged" /\ phase'[i] = "deleted")
  BY <1>1, <1>2 DEF IInv, TypeOK, StoreTypeOK, Rows
<1>5. \A d \in Days : ~Purged(d)' => ~Purged(d) /\ RowsOf(d)' = RowsOf(d)
  BY <1>3, <1>4 DEF Purged, RowsOf, Rows
<1>6. \A d \in Days : Exact(d) => Exact(d)'
  BY <1>3, <1>5 DEF Exact
<1>7. PassParts'
  BY <1>3, <1>6 DEF IInv, PassParts, LockHeld, BaseIsFresh, CountedInLoop, PassProgress, Running
<1>8. CountedUnderOwnDay' /\ OpenIsFresh' /\ WatermarkBehind'
  BY <1>3, <1>4, CountedStable DEF IInv, OpenIsFresh, WatermarkBehind
<1>9. SealedExact'
  BY <1>3, <1>5 DEF IInv, SealedExact
<1> QED BY <1>7, <1>8, <1>9 DEF BookParts

\* Time passes: a pass that began before midnight is exact up to yesterday's
\* yesterday, which is what it may mark.
LEMMA ClockParts == IInv /\ Clock => PassParts' /\ BookParts'
<1> SUFFICES ASSUME IInv, Clock PROVE PassParts' /\ BookParts'
  OBVIOUS
<1> USE CalendarAssumption
<1>1. UNCHANGED <<phase, at, daily, watermark, runMu>>
  BY DEF Clock
<1>2. /\ job \in [Worker -> Job] /\ today \in FirstDay .. LastDay
      /\ tod \in 0 .. TicksPerDay - 1 /\ watermark \in 0 .. LastDay /\ at \in [LogId -> Times]
  BY DEF IInv, TypeOK, AggTypeOK, StoreTypeOK
<1>3. \/ tod' = tod + 1 /\ today' = today
      \/ tod' = 0 /\ today' = today + 1 /\ tod = TicksPerDay - 1
  BY <1>2 DEF Clock
<1>4. \A w \in Worker : /\ job'[w].pc = job[w].pc /\ job'[w].day = job[w].day
                        /\ job'[w].to = job[w].to /\ job'[w].base = job[w].base
                        /\ job'[w].counted = job[w].counted
                        /\ Running(w) => job'[w].aged /\ ~job[w].aged
  <2> TAKE w \in Worker
  <2>1. CASE Running(w)
    <3>1. job'[w] = Pass(job[w].pc, job[w].day, job[w].to, job[w].base, job[w].counted, TRUE)
      BY <2>1 DEF Clock
    <3> QED BY <2>1, <3>1 DEF Clock, Pass
  <2>2. CASE ~Running(w)
    BY <2>2 DEF Clock
  <2> QED BY <2>1, <2>2
<1>5. \A w \in Worker : Running(w) => job[w].base = today
  BY <1>4 DEF IInv, BaseIsFresh
<1>6. \A d \in Days : Exact(d)' <=> Exact(d)
  BY <1>1 DEF Exact, Purged, RowsOf, Rows
<1>7. LockHeld' /\ CountedInLoop'
  BY <1>1, <1>4 DEF IInv, LockHeld, CountedInLoop, Running
<1>8. BaseIsFresh'
  BY <1>2, <1>3, <1>4, <1>5 DEF BaseIsFresh, Running
<1>9. PassProgress'
  <2> SUFFICES ASSUME NEW w \in Worker
               PROVE  /\ job[w].pc \in {"roll", "range"} => job[w].day >= 1
                      /\ job[w].pc = "seal" =>
                            /\ job[w].to = job[w].base - sealLag /\ watermark < job[w].to
                            /\ job[w].day > watermark
                            /\ \A d \in Days : d < job[w].day /\ d <= job[w].to => Exact(d)
                      /\ job[w].pc = "mark" =>
                            /\ \A d \in Days : d <= job[w].base - sealLag => Exact(d)
                            /\ (tod' # 0 /\ ~job'[w].aged) \/ job[w].base = today' - 1 =>
                                  \A d \in Days : d <= job[w].base - 1 => Exact(d)
    BY <1>1, <1>4, <1>6 DEF PassProgress
  <2>1. CASE job[w].pc = "mark"
    BY <1>2, <1>3, <1>4, <1>5, <2>1 DEF IInv, PassProgress, Running
  <2>2. CASE job[w].pc # "mark"
    BY <2>2 DEF IInv, PassProgress
  <2> QED BY <2>1, <2>2
<1>10. CountedUnderOwnDay' /\ SealedExact'
  BY <1>1 DEF IInv, CountedUnderOwnDay, SealedExact, Purged, RowsOf, Rows
<1>11. OpenIsFresh'
  BY <1>1, <1>2, <1>3 DEF Clock, IInv, OpenIsFresh, Times
<1>12. WatermarkBehind'
  BY <1>1, <1>2, <1>3 DEF IInv, WatermarkBehind
<1> QED BY <1>7, <1>8, <1>9, <1>10, <1>11, <1>12 DEF PassParts, BookParts

\* A crash leaves the books as they are and no pass.
LEMMA CrashParts == IInv /\ Crash => PassParts' /\ BookParts'
<1> SUFFICES ASSUME IInv, Crash PROVE PassParts' /\ BookParts'
  OBVIOUS
<1>1. UNCHANGED <<today, tod, at, daily, watermark>>
  BY DEF Crash
<1>2. \A i \in LogId : phase'[i] = IF phase[i] = "open" THEN "lost" ELSE phase[i]
  BY DEF Crash
<1>3. \A w \in Worker : job'[w].pc \in {"idle", "boot"} /\ ~job'[w].counted
  BY DEF Crash, AggCrash, Idle, Boot, Pass
<1>4. PassParts'
  <2>1. runMu' = "free"
    BY DEF Crash, AggCrash
  <2> QED BY <1>3, <2>1
          DEF PassParts, LockHeld, BaseIsFresh, CountedInLoop, PassProgress, Running, Worker
<1>5. \A d \in Days : (Purged(d)' <=> Purged(d)) /\ RowsOf(d)' = RowsOf(d)
  BY <1>1, <1>2 DEF Purged, RowsOf, Rows
<1>6. BookParts'
  <2>1. CountedUnderOwnDay'
    BY <1>1, <1>2, CountedStable
  <2>2. OpenIsFresh' /\ WatermarkBehind' /\ SealedExact'
    BY <1>1, <1>2, <1>5 DEF IInv, OpenIsFresh, WatermarkBehind, SealedExact
  <2> QED BY <2>1, <2>2 DEF BookParts
<1> QED BY <1>4, <1>6

\* A loop over days that moves on past a day that is exact by now, or stays.
LEMMA LoopProgress ==
    ASSUME IInv, NEW w \in Worker, NEW p \in Job, job'[w] = p,
           \A u \in Worker : u # w => job'[u] = job[u] /\ job[u].pc \in {"idle", "boot"},
           watermark' = watermark, \A d \in Days : Exact(d) => Exact(d)',
           job[w].pc \in {"roll", "seal", "range"}, job[w].day \in 1 .. LastDay,
           p.pc = job[w].pc, p.to = job[w].to, p.base = job[w].base,
           p.day \in {job[w].day, job[w].day + 1},
           p.day = job[w].day + 1 => \A d \in Days : d = job[w].day => Exact(d)'
    PROVE  PassProgress'
<1>1. watermark \in 0 .. LastDay /\ job[w].to \in 0 .. LastDay /\ job[w].base \in 0 .. LastDay
  BY JobFields DEF IInv, TypeOK, AggTypeOK, StoreTypeOK
<1>2. p.day >= 1
  OBVIOUS
<1>3. p.pc = "seal" => /\ p.to = p.base - sealLag /\ watermark < p.to
                       /\ p.day > watermark
  <2>1. job[w].pc = "seal" => /\ job[w].to = job[w].base - sealLag /\ watermark < job[w].to
                              /\ job[w].day > watermark
    BY DEF IInv, PassProgress
  <2> QED BY <1>1, <2>1
<1>4. ASSUME p.pc = "seal", NEW d \in Days, d < p.day, d <= p.to
      PROVE  Exact(d)'
  <2>1. d \in Int
    BY DEF Days
  <2>2. CASE d < job[w].day
    BY <1>4, <2>2 DEF IInv, PassProgress
  <2>3. CASE ~(d < job[w].day)
    <3>1. d = job[w].day /\ p.day = job[w].day + 1
      BY <1>4, <2>1, <2>3
    <3> QED BY <3>1
  <2> QED BY <2>2, <2>3
<1>5. \A u \in Worker : u # w => job'[u].pc \in {"idle", "boot"}
  OBVIOUS
<1> QED BY <1>2, <1>3, <1>4, <1>5 DEF PassProgress

\* Every statement of a pass preserves the parts.
LEMMA PassStepParts ==
    ASSUME IInv, NEW w \in Worker, PassStep(w)
    PROVE  PassParts' /\ BookParts'
<1> USE CalendarAssumption
<1> DEFINE j == job[w]
<1>j. /\ j \in Job /\ j.pc \in Pcs /\ j.day \in 0 .. LastDay + 1 /\ j.to \in 0 .. LastDay
      /\ j.base \in 0 .. LastDay /\ j.counted \in BOOLEAN /\ j.aged \in BOOLEAN
      /\ today \in FirstDay .. LastDay /\ watermark \in 0 .. LastDay
  BY JobFields DEF IInv, TypeOK, AggTypeOK, StoreTypeOK
<1>r. Running(w)
  BY DEF PassStep, CountDay, WriteDay, Watermarked, Seal, EndRange, Backfill, MarkAll,
     Finished, Running, IInv, CountedInLoop
<1>1. CASE CountDay(w)
  <2> DEFINE p == IF RowsOf(j.day) = {} THEN Pass(j.pc, j.day + 1, j.to, j.base, FALSE, j.aged)
                                        ELSE Pass(j.pc, j.day, j.to, j.base, TRUE, j.aged)
  <2>1. /\ j.pc \in {"roll", "seal", "range"} /\ j.day <= j.to /\ ~j.counted
        /\ UNCHANGED <<runMu, today, tod, phase, at, daily, watermark>>
        /\ job' = [job EXCEPT ![w] = p]
    BY <1>1 DEF CountDay, DayLeft, storeVars
  <2>2. j.day >= 1
    BY <1>j, <2>1 DEF IInv, PassProgress
  <2>3. /\ p \in Job /\ p.pc = j.pc /\ p.to = j.to /\ p.base = j.base /\ p.aged = j.aged
        /\ p.counted => p.day = j.day
        /\ p.day = j.day \/ (p.day = j.day + 1 /\ RowsOf(j.day) = {})
    BY <1>j, <2>1 DEF Pass, Job
  <2>4. /\ LockHeld' /\ BaseIsFresh' /\ CountedInLoop' /\ job'[w] = p
        /\ \A u \in Worker : u # w => job'[u] = job[u] /\ job[u].pc \in {"idle", "boot"}
    <3> HIDE DEF p
    <3>1. p.counted => p.pc \in {"roll", "seal", "range"} /\ p.day \in 1 .. p.to
      BY <1>j, <2>1, <2>2, <2>3
    <3> QED BY <1>r, <2>1, <2>3, <3>1, StepParts
  <2>5. RowsOf(j.day) = {} => Exact(j.day)
    <3>1. j.day \in Days
      BY <1>j, <2>1, <2>2 DEF Days
    <3>2. daily[j.day].ids \subseteq LogId
      BY <3>1 DEF IInv, TypeOK, StoreTypeOK, AggRow
    <3> QED BY <3>1, <3>2 DEF Exact, Purged, RowsOf, Rows, IInv, CountedUnderOwnDay
  <2>6. \A d \in Days : Exact(d)' <=> Exact(d)
    BY <2>1, BookFrame
  <2>7. PassProgress'
    <3>1. j.day \in 1 .. LastDay
      BY <1>j, <2>1, <2>2
    <3> HIDE DEF p
    <3>2. p.day = j.day + 1 => \A d \in Days : d = j.day => Exact(d)'
      BY <1>j, <2>3, <2>5, <2>6, <3>1
    <3> QED BY <2>1, <2>3, <2>4, <2>6, <3>1, <3>2, LoopProgress
  <2> QED BY <2>1, <2>4, <2>7, BookFrame DEF PassParts
<1>2. CASE WriteDay(w)
  <2> DEFINE p == Pass(j.pc, j.day + 1, j.to, j.base, FALSE, j.aged)
  <2>1. /\ j.counted /\ UNCHANGED <<runMu, today, tod, phase, at, watermark>>
        /\ daily' = [daily EXCEPT ![j.day] = Summed(j.day)]
        /\ job' = [job EXCEPT ![w] = p]
    BY <1>2 DEF WriteDay, RebuildTx
  <2>2. j.pc \in {"roll", "seal", "range"} /\ j.day \in 1 .. j.to
    BY <2>1 DEF IInv, CountedInLoop
  <2>3. /\ p \in Job /\ p.pc = j.pc /\ p.to = j.to /\ p.base = j.base /\ p.aged = j.aged
        /\ ~p.counted /\ p.day = j.day + 1
    BY <1>j, <2>2 DEF Pass, Job
  <2>4. /\ LockHeld' /\ BaseIsFresh' /\ CountedInLoop' /\ job'[w] = p
        /\ \A u \in Worker : u # w => job'[u] = job[u] /\ job[u].pc \in {"idle", "boot"}
    BY <1>j, <1>r, <2>1, <2>2, <2>3, StepParts
  <2>5. /\ \A d \in Days : daily'[d].ids = IF d = j.day THEN RowsOf(d) ELSE daily[d].ids
        /\ \A d \in Days : RowsOf(d)' = RowsOf(d) /\ (Purged(d)' <=> Purged(d))
    BY <1>j, <2>1, <2>2 DEF Days, Summed, IInv, TypeOK, StoreTypeOK, RowsOf, Rows, Purged
  <2>6. \A d \in Days : Exact(d) \/ d = j.day => Exact(d)'
    BY <2>5 DEF Exact
  <2>7. PassProgress'
    <3>1. j.day \in 1 .. LastDay
      BY <1>j, <2>2
    <3>2. \A d \in Days : d = j.day => Exact(d)'
      BY <2>6
    <3> HIDE DEF p
    <3> QED BY <2>1, <2>2, <2>3, <2>4, <2>6, <3>1, <3>2, LoopProgress
  <2>8. SealedExact'
    BY <2>1, <2>5 DEF IInv, SealedExact
  <2>9. CountedUnderOwnDay'
    <3> SUFFICES ASSUME NEW d \in Days, NEW i \in daily'[d].ids
                 PROVE  phase[i] \in {"logged", "deleted"} /\ at[i].day = d
      BY <2>1 DEF CountedUnderOwnDay
    <3>1. i \in RowsOf(d) \/ i \in daily[d].ids
      BY <2>5
    <3> QED BY <3>1 DEF IInv, CountedUnderOwnDay, RowsOf, Rows
  <2>10. OpenIsFresh' /\ WatermarkBehind'
    BY <2>1 DEF IInv, OpenIsFresh, WatermarkBehind
  <2> QED BY <2>4, <2>7, <2>8, <2>9, <2>10 DEF PassParts, BookParts
<1>3. CASE Watermarked(w)
  <2>1. UNCHANGED <<today, tod, phase, at, daily, watermark>>
    BY <1>3 DEF Watermarked, storeVars
  <2>2. CASE watermark >= j.base - sealLag
    BY <1>3, <1>r, <2>1, <2>2, ReleaseParts, BookFrame DEF Watermarked
  <2>3. CASE ~(watermark >= j.base - sealLag)
    <3> DEFINE p == Pass("seal", watermark + 1, j.base - sealLag, j.base, FALSE, j.aged)
    <3>1. job' = [job EXCEPT ![w] = p] /\ UNCHANGED runMu
      BY <1>3, <2>3 DEF Watermarked, FirstUnsealed
    <3>2. /\ p \in Job /\ p.pc = "seal" /\ p.to = j.base - sealLag /\ p.base = j.base
          /\ p.aged = j.aged /\ ~p.counted /\ p.day = watermark + 1
      BY <1>j, <2>3 DEF Pass, Job, Pcs
    <3>3. /\ LockHeld' /\ BaseIsFresh' /\ CountedInLoop' /\ job'[w] = p
          /\ \A u \in Worker : u # w => job'[u] = job[u] /\ job[u].pc \in {"idle", "boot"}
      BY <1>r, <2>1, <3>1, <3>2, StepParts
    <3>4. \A d \in Days : d < watermark + 1 => Exact(d)'
      BY <1>j, <2>1, BookFrame DEF IInv, SealedExact, Exact, Days
    <3>5. PassProgress'
      <4> HIDE DEF p
      <4>1. watermark < p.to /\ p.day > watermark
        BY <1>j, <2>3, <3>2
      <4> QED BY <2>1, <3>2, <3>3, <3>4, <4>1 DEF PassProgress
    <3> QED BY <2>1, <3>3, <3>5, BookFrame DEF PassParts
  <2> QED BY <2>2, <2>3
<1>4. CASE Seal(w)
  <2>1. /\ watermark' = j.base - sealLag /\ j.pc = "seal" /\ j.day > j.to
        /\ UNCHANGED <<today, tod, phase, at, daily>>
    BY <1>4 DEF Seal, Finished
  <2>2. watermark' = j.to /\ \A d \in Days : d <= j.to => Exact(d)
    BY <1>j, <2>1 DEF IInv, PassProgress, Days
  <2>3. WatermarkBehind'
    BY <1>j, <1>r, <2>1 DEF IInv, BaseIsFresh, WatermarkBehind
  <2>4. CountedUnderOwnDay' /\ OpenIsFresh' /\ SealedExact'
    BY <2>1, <2>2 DEF IInv, CountedUnderOwnDay, OpenIsFresh, SealedExact, Exact, Purged, RowsOf, Rows
  <2> QED BY <1>4, <1>r, <2>3, <2>4, ReleaseParts DEF Seal, BookParts
<1>5. CASE EndRange(w)
  BY <1>5, <1>r, ReleaseParts, BookFrame DEF EndRange, storeVars
<1>6. CASE Backfill(w)
  <2> DEFINE p == Pass("mark", 0, 0, j.base, FALSE, j.aged)
  <2>1. /\ UNCHANGED <<runMu, today, tod, phase, at, watermark>>
        /\ job' = [job EXCEPT ![w] = p]
    BY <1>6 DEF Backfill
  <2>2. /\ p \in Job /\ p.pc = "mark" /\ p.base = j.base /\ p.aged = j.aged /\ ~p.counted
    BY <1>j DEF Pass, Job, Pcs
  <2>3. /\ LockHeld' /\ BaseIsFresh' /\ CountedInLoop' /\ job'[w] = p
        /\ \A u \in Worker : u # w => job'[u] = job[u] /\ job[u].pc \in {"idle", "boot"}
    BY <1>r, <2>1, <2>2, StepParts
  <2>4. \A d \in Days : daily'[d].ids = RowsOf(d) /\ RowsOf(d)' = RowsOf(d)
    BY <1>6, <2>1 DEF Backfill, BackfillAll, NoRow, Summed, RowsOf, Rows
  <2>5. PassProgress'
    BY <2>2, <2>3, <2>4 DEF PassProgress, Exact
  <2>6. SealedExact' /\ CountedUnderOwnDay'
    BY <2>1, <2>4 DEF SealedExact, CountedUnderOwnDay, RowsOf, Rows
  <2>7. OpenIsFresh' /\ WatermarkBehind'
    BY <2>1 DEF IInv, OpenIsFresh, WatermarkBehind
  <2> QED BY <2>3, <2>5, <2>6, <2>7 DEF PassParts, BookParts
<1>7. CASE MarkAll(w)
  <2>1. /\ watermark' = today - sealLag /\ j.pc = "mark"
        /\ UNCHANGED <<today, tod, phase, at, daily>>
    BY <1>7 DEF MarkAll
  <2>2. \A d \in Days : d <= today - sealLag => Exact(d)
    BY <1>j, <1>r, <2>1 DEF IInv, PassProgress, BaseIsFresh, Days
  <2>3. WatermarkBehind'
    BY <1>j, <2>1 DEF WatermarkBehind
  <2>4. CountedUnderOwnDay' /\ OpenIsFresh' /\ SealedExact'
    BY <2>1, <2>2 DEF IInv, CountedUnderOwnDay, OpenIsFresh, SealedExact, Exact, Purged, RowsOf, Rows
  <2> QED BY <1>7, <1>r, <2>3, <2>4, ReleaseParts DEF MarkAll, BookParts
<1> QED BY <1>1, <1>2, <1>3, <1>4, <1>5, <1>6, <1>7 DEF PassStep
-----------------------------------------------------------------------------
\* The invariant is inductive.

LEMMA StepIInv == IInv /\ [Next]_vars => IInv'
<1> SUFFICES ASSUME IInv, [Next]_vars PROVE IInv'
  OBVIOUS
<1> USE CalendarAssumption, LifecycleAssumption
<1>t. TypeOK'
  BY TypeStep
<1>i. /\ TypeOK /\ job \in [Worker -> Job] /\ today \in FirstDay .. LastDay
      /\ rec \in Recomputation
  BY DEF IInv, TypeOK, AggTypeOK, StoreTypeOK
<1>0. 0 \in 0 .. LastDay /\ today \in 0 .. LastDay /\ today - 1 \in 0 .. LastDay /\ today - 1 >= 1
  BY <1>i
<1>1. ASSUME NEW w \in Worker, NEW from \in 0 .. LastDay, NEW to \in 0 .. LastDay, from >= 1,
             RebuildRange(w, from, to), UNCHANGED <<today, tod, phase, at, daily, watermark>>
      PROVE  PassParts' /\ BookParts'
  BY <1>0, <1>1, BeginParts DEF RebuildRange
<1>2. PassParts' /\ BookParts'
  <2>1. CASE Gateway
    BY <2>1, GatewayParts
  <2>2. CASE Recompute
    <3>1. CASE EndRecompute
      <4>1. UNCHANGED <<today, tod, phase, at, daily, watermark>>
        BY <3>1 DEF EndRecompute, storeVars
      <4>2. rec.from \in 0 .. LastDay /\ rec.to \in 0 .. LastDay /\ rec.from >= 1
        BY <1>i, <3>1 DEF EndRecompute, IInv, RecomputeInHistory, Recomputation
      <4>3. CASE RebuildRange("recompute", rec.from, rec.to)
        <5>1. "recompute" \in Worker
          BY DEF Worker
        <5> QED BY <1>1, <4>1, <4>2, <4>3, <5>1
      <4>4. CASE UNCHANGED aggVars
        BY <4>1, <4>4, Frame DEF aggVars
      <4> QED BY <3>1, <4>3, <4>4 DEF EndRecompute
    <3>2. CASE ~EndRecompute
      <4>1. UNCHANGED <<today, tod, phase, at, daily, watermark, runMu, job>>
        BY <2>2, <3>2 DEF Recompute, StartRecompute, RecomputeRow, RecomputeError, storeVars, aggVars
      <4> QED BY <4>1, Frame
    <3> QED BY <3>1, <3>2
  <2>3. CASE Aggregate
    <3>1. CASE EnsureBackfill
      <4>1. UNCHANGED <<today, tod, phase, at, daily, watermark>> /\ "ticker" \in Worker
        BY <3>1 DEF EnsureBackfill, storeVars, Worker
      <4>2. CASE Begin("ticker", "full", 0, 0)
        BY <1>0, <4>1, <4>2, BeginParts
      <4>3. CASE /\ job["ticker"].pc = "boot" /\ UNCHANGED runMu
                 /\ job' = [job EXCEPT !["ticker"] = Idle]
        <5>1. /\ job'["ticker"].pc = "idle" /\ ~job'["ticker"].counted
              /\ \A u \in Worker : u # "ticker" => job'[u] = job[u]
          BY <1>i, <4>1, <4>3 DEF Idle, Pass
        <5>2. LockHeld' /\ BaseIsFresh' /\ CountedInLoop'
          BY <4>1, <4>3, <5>1 DEF IInv, LockHeld, BaseIsFresh, CountedInLoop, Running
        <5>3. \A d \in Days : Exact(d)' <=> Exact(d)
          BY <4>1, BookFrame
        <5>4. PassProgress'
          BY <4>1, <5>1, <5>3 DEF IInv, PassProgress
        <5> QED BY <4>1, <5>2, <5>4, BookFrame DEF PassParts
      <4> QED BY <3>1, <4>2, <4>3 DEF EnsureBackfill
    <3>2. CASE TickOnce
      <4>1. /\ UNCHANGED <<today, tod, phase, at, daily, watermark>> /\ "ticker" \in Worker
            /\ Begin("ticker", "roll", today - 1, today)
        BY <3>2 DEF TickOnce, storeVars, Worker
      <4> QED BY <1>0, <4>1, BeginParts
    <3>3. ASSUME NEW n \in RebuildDays, RebuildAggregate(n) PROVE PassParts' /\ BookParts'
      <4>1. UNCHANGED <<today, tod, phase, at, daily, watermark>> /\ "admin" \in Worker
        BY <3>3 DEF RebuildAggregate, storeVars, Worker
      <4>2. CASE n <= 0
        BY <1>0, <3>3, <4>1, <4>2, BeginParts DEF RebuildAggregate
      <4>3. CASE ~(n <= 0)
        <5>1. today - n \in 0 .. LastDay /\ today - n >= 1
          BY <1>i, <4>3
        <5>2. RebuildRange("admin", today - n, today)
          BY <3>3, <4>3 DEF RebuildAggregate
        <5> QED BY <1>0, <1>1, <4>1, <5>1, <5>2
      <4> QED BY <4>2, <4>3
    <3> QED BY <2>3, <3>1, <3>2, <3>3, PassStepParts DEF Aggregate
  <2>4. CASE AggregateFails
    <3>1. PICK w \in Worker : AggError(w)
      BY <2>4 DEF AggregateFails
    <3> QED BY <3>1, ReleaseParts, BookFrame DEF AggError, storeVars
  <2>5. CASE Retention \/ RetentionFails
    <3>1. CASE DeleteBefore
      BY <2>5, <3>1, DeleteParts DEF Retention, RetentionFails
    <3>2. CASE ~DeleteBefore
      <4>1. UNCHANGED <<today, tod, phase, at, daily, watermark, runMu, job>>
        BY <2>5, <3>2 DEF Retention, RetentionFails, RunIfDue, Trigger, Finish, DeleteError,
           FinishError, storeVars, aggVars
      <4> QED BY <4>1, Frame
    <3> QED BY <3>1, <3>2
  <2>6. CASE Clock
    BY <2>6, ClockParts
  <2>7. CASE Crash
    BY <2>7, CrashParts
  <2>8. CASE Restart \/ Wire \/ UNCHANGED vars
    <3>1. UNCHANGED <<today, tod, phase, at, daily, watermark, runMu, job>>
      BY <2>8 DEF Restart, Wire, vars, storeVars, aggVars
    <3> QED BY <3>1, Frame
  <2> QED BY <2>1, <2>2, <2>3, <2>4, <2>5, <2>6, <2>7, <2>8 DEF Next
<1>3. RecomputeInHistory'
  <2>1. CASE StartRecompute
    <3>1. PICK from \in FirstDay .. today : rec'.from = from
      BY <2>1 DEF StartRecompute, Scan
    <3> QED BY <1>i, <3>1 DEF RecomputeInHistory
  <2>2. ASSUME NEW i \in LogId, RecomputeRow(i) PROVE RecomputeInHistory'
    BY <2>2 DEF RecomputeRow, Scan, IInv, RecomputeInHistory
  <2>3. CASE rec' = RecIdle
    BY <2>3 DEF RecIdle, RecomputeInHistory
  <2>4. CASE rec' = rec
    BY <2>4 DEF IInv, RecomputeInHistory
  <2> QED BY <2>1, <2>2, <2>3, <2>4
          DEF Next, Gateway, Accept, Complete, CreateError, Recompute, RecomputeError, EndRecompute,
              Aggregate, AggregateFails, Retention, RetentionFails, Clock, Crash, Restart, Wire, vars
<1> QED BY <1>2, <1>3, <1>t DEF IInv, PassParts, BookParts

LEMMA Inductive == Spec => []IInv
  BY InitIInv, StepIInv, PTL DEF Spec

-----------------------------------------------------------------------------
\* Every variable keeps its type, in particular: no pass ever leaves the
\* calendar, and the watermark is a day of it.
THEOREM TypeCorrect == Spec => []TypeOK
<1>1. IInv => TypeOK
  BY DEF IInv
<1> QED BY <1>1, Inductive, PTL

\* Behind the watermark an aggregate is exact unless its day was purged: no
\* late row, midnight, crash, failed or competing pass gets past tickLocked's
\* sealing loop, or RebuildAll's backfill, uncounted.
THEOREM Sealed == Spec => []SealedExact
<1>1. IInv => SealedExact
  BY DEF IInv
<1> QED BY <1>1, Inductive, PTL

\* The watermark never moves back (UpdateAggStatus has no guard of its own:
\* runMu and the test before the sealing loop are what keeps it).
THEOREM Monotone == Spec => WatermarkMonotone
<1>1. IInv /\ [Next]_vars => [watermark' >= watermark]_vars
  <2> SUFFICES ASSUME IInv, Next PROVE watermark' >= watermark
    BY DEF vars, storeVars
  <2> USE CalendarAssumption
  <2>i. watermark \in 0 .. LastDay /\ today \in FirstDay .. LastDay
    BY DEF IInv, TypeOK, StoreTypeOK
  <2>1. ASSUME NEW w \in Worker, Seal(w) PROVE watermark' >= watermark
    <3>1. watermark' = job[w].to /\ watermark < job[w].to
      BY <2>1 DEF Seal, Finished, IInv, PassProgress
    <3>2. job[w].to \in 0 .. LastDay
      BY JobFields DEF IInv, TypeOK, AggTypeOK
    <3> QED BY <2>i, <3>1, <3>2
  <2>2. ASSUME NEW w \in Worker, MarkAll(w) PROVE watermark' >= watermark
    BY <2>2, <2>i DEF MarkAll, IInv, WatermarkBehind
  <2>3. CASE UNCHANGED watermark
    BY <2>i, <2>3
  <2>4. ASSUME NEW w \in Worker, PassStep(w) PROVE watermark' >= watermark
    BY <2>1, <2>2, <2>3, <2>4 DEF PassStep, CountDay, WriteDay, Watermarked, EndRange, Backfill, storeVars
  <2>5. CASE Aggregate
    BY <2>3, <2>4, <2>5 DEF Aggregate, EnsureBackfill, TickOnce, RebuildAggregate, storeVars
  <2>6. CASE ~Aggregate
    BY <2>3, <2>6 DEF Next, Gateway, Accept, Complete, CreateError, Recompute, StartRecompute,
       RecomputeRow, RecomputeError, EndRecompute, AggregateFails, AggError, Retention, RunIfDue,
       Trigger, DeleteBefore, Finish, RetentionFails, DeleteError, FinishError, Clock, Crash,
       Restart, Wire, storeVars
  <2> QED BY <2>5, <2>6
<1> QED BY <1>1, Inductive, PTL DEF Spec, WatermarkMonotone
-----------------------------------------------------------------------------
\* The ticker and the days that are sealed.

\* The ticker never rebuilds a range, its rolling loop is ahead of the
\* watermark, and it only rebuilds everything while nothing is sealed.
TickerInv ==
    /\ job["ticker"].pc # "range"
    /\ job["ticker"].pc = "roll" => job["ticker"].day > watermark
    /\ job["ticker"].pc = "full" => watermark = 0

LEMMA InitTicker == Init => TickerInv
  BY DEF Init, AggInit, TickerInv, Worker, Boot, Pass

\* The watermark moves under the mutex only: while the ticker is in a pass, by
\* the step that ends it.
LEMMA StepTicker == IInv /\ TickerInv /\ [Next]_vars => TickerInv'
<1> SUFFICES ASSUME IInv, TickerInv, [Next]_vars PROVE TickerInv'
  OBVIOUS
<1> USE CalendarAssumption
<1>t. /\ job \in [Worker -> Job] /\ "ticker" \in Worker
      /\ watermark \in 0 .. LastDay /\ today \in FirstDay .. LastDay
  BY DEF IInv, TypeOK, AggTypeOK, StoreTypeOK, Worker
<1>1. CASE UNCHANGED <<job, watermark>>
  BY <1>1 DEF TickerInv
<1>2. CASE job'["ticker"].pc \in {"idle", "boot"}
  BY <1>2 DEF TickerInv
<1>3. CASE job'["ticker"] = job["ticker"] /\ UNCHANGED watermark
  BY <1>3 DEF TickerInv
<1>4. ASSUME NEW w \in Worker, PassStep(w) PROVE TickerInv'
  <2>1. Running(w)
    BY <1>4 DEF PassStep, CountDay, WriteDay, Watermarked, Seal, EndRange, Backfill, MarkAll,
       Finished, Running, IInv, CountedInLoop
  <2>2. CASE w # "ticker"
    <3>1. job'["ticker"] = job["ticker"] /\ ~Running("ticker")
      BY <1>t, <1>4, <2>1, <2>2 DEF PassStep, CountDay, WriteDay, Watermarked, Seal, EndRange,
         Backfill, MarkAll, Release, IInv, LockHeld
    <3> QED BY <1>2, <3>1 DEF Running
  <2>3. CASE w = "ticker"
    <3> DEFINE j == job["ticker"]
    <3>1. j.day \in 0 .. LastDay + 1 /\ j.to \in 0 .. LastDay /\ j.base \in 0 .. LastDay
      BY <1>t, JobFields
    <3>2. CASE CountDay(w) \/ WriteDay(w)
      <4>1. /\ UNCHANGED watermark
            /\ job'["ticker"].pc = j.pc /\ job'["ticker"].day \in {j.day, j.day + 1}
        BY <1>t, <2>3, <3>2 DEF CountDay, WriteDay, Pass, storeVars
      <4> QED BY <1>t, <3>1, <4>1 DEF TickerInv
    <3>3. CASE Watermarked(w) \/ Seal(w) \/ EndRange(w) \/ Backfill(w) \/ MarkAll(w)
      <4>1. job'["ticker"].pc \in {"idle", "seal", "mark"}
        BY <1>t, <2>3, <3>3 DEF Watermarked, Seal, EndRange, Backfill, MarkAll, Release, Idle, Pass
      <4> QED BY <4>1 DEF TickerInv
    <3> QED BY <1>4, <3>2, <3>3 DEF PassStep
  <2> QED BY <2>2, <2>3
<1>5. CASE TickOnce
  <2>1. /\ UNCHANGED watermark
        /\ job'["ticker"].pc = "roll" /\ job'["ticker"].day = today - 1
    BY <1>t, <1>5 DEF TickOnce, Begin, Pass, storeVars
  <2> QED BY <1>t, <2>1 DEF TickerInv, IInv, WatermarkBehind
<1>6. CASE EnsureBackfill
  <2>1. CASE job' = [job EXCEPT !["ticker"] = Idle]
    BY <1>t, <1>2, <2>1 DEF Idle, Pass
  <2>2. CASE watermark = 0 /\ Begin("ticker", "full", 0, 0)
    BY <1>t, <1>6, <2>2 DEF EnsureBackfill, Begin, Pass, storeVars, TickerInv
  <2> QED BY <1>6, <2>1, <2>2 DEF EnsureBackfill
<1>7. ASSUME NEW n \in RebuildDays, RebuildAggregate(n) PROVE TickerInv'
  BY <1>t, <1>3, <1>7 DEF RebuildAggregate, RebuildRange, Begin, storeVars
<1>8. CASE EndRecompute
  BY <1>t, <1>3, <1>8 DEF EndRecompute, RebuildRange, Begin, storeVars, aggVars
<1>9. ASSUME NEW w \in Worker, AggError(w) PROVE TickerInv'
  <2>1. job'["ticker"] = job["ticker"] \/ job'["ticker"].pc = "idle"
    BY <1>t, <1>9 DEF AggError, Release, Idle, Pass
  <2> QED BY <1>2, <1>3, <1>9, <2>1 DEF AggError, storeVars
<1>10. CASE Clock
  <2>1. /\ UNCHANGED watermark
        /\ job'["ticker"].pc = job["ticker"].pc /\ job'["ticker"].day = job["ticker"].day
    BY <1>t, <1>10 DEF Clock, Pass
  <2> QED BY <2>1 DEF TickerInv
<1>11. CASE Crash
  BY <1>t, <1>2, <1>11 DEF Crash, AggCrash, Boot, Pass
<1> QED BY <1>1, <1>4, <1>5, <1>6, <1>7, <1>8, <1>9, <1>10, <1>11
        DEF Next, Gateway, Accept, Complete, CreateError, Recompute, StartRecompute, RecomputeRow,
            RecomputeError, Aggregate, AggregateFails, Retention, RunIfDue, Trigger, DeleteBefore,
            Finish, RetentionFails, DeleteError, FinishError, Restart, Wire, vars, storeVars, aggVars

\* Only a pass writes aggregates; one that is neither the settings page's nor
\* the recomputation's is the ticker's, and writes ahead of the watermark.
LEMMA WritesAhead ==
    ASSUME IInv, TickerInv, [Next]_vars, NEW d \in Days, d <= watermark,
           ~Running("admin"), ~Running("recompute")
    PROVE  daily'[d] = daily[d]
<1> USE CalendarAssumption
<1>t. /\ job \in [Worker -> Job] /\ daily \in [Days -> AggRow]
      /\ watermark \in 0 .. LastDay /\ d \in 1 .. LastDay
  BY DEF IInv, TypeOK, AggTypeOK, StoreTypeOK, Days
<1>1. CASE UNCHANGED daily
  BY <1>1
<1>2. ASSUME NEW w \in Worker, WriteDay(w) PROVE daily'[d] = daily[d]
  <2>1. job[w].pc \in {"roll", "seal", "range"} /\ job[w].day \in 1 .. job[w].to
    BY <1>2 DEF WriteDay, IInv, CountedInLoop
  <2>2. w = "ticker"
    BY <2>1 DEF Running, Worker
  <2>3. job[w].day > watermark
    BY <2>1, <2>2 DEF TickerInv, IInv, PassProgress
  <2> QED BY <1>t, <1>2, <2>1, <2>3 DEF WriteDay, RebuildTx
<1>3. ASSUME NEW w \in Worker, Backfill(w) PROVE FALSE
  <2>1. job[w].pc = "full" /\ w = "ticker"
    BY <1>3 DEF Backfill, Running, Worker
  <2> QED BY <1>t, <2>1 DEF TickerInv
<1>4. ASSUME NEW w \in Worker, PassStep(w) PROVE daily'[d] = daily[d]
  BY <1>1, <1>2, <1>3, <1>4 DEF PassStep, CountDay, Watermarked, Seal, EndRange, MarkAll, storeVars
<1>5. CASE Aggregate
  BY <1>1, <1>4, <1>5 DEF Aggregate, EnsureBackfill, TickOnce, RebuildAggregate, storeVars
<1>6. CASE ~Aggregate
  BY <1>1, <1>6 DEF Next, Gateway, Accept, Complete, CreateError, Recompute, StartRecompute,
     RecomputeRow, RecomputeError, EndRecompute, AggregateFails, AggError, Retention, RunIfDue,
     Trigger, DeleteBefore, Finish, RetentionFails, DeleteError, FinishError, Clock, Crash,
     Restart, Wire, vars, storeVars
<1> QED BY <1>5, <1>6

\* The aggregate of a sealed day is not changed by any step of ticker, clock,
\* retention, gateway or crash: only a rebuild that the settings page or the
\* recomputation asked for touches it again (tickLocked, ensureBackfill).
THEOREM SealedLeftAlone == Spec => SealedUntilAsked
<1>1. IInv /\ TickerInv /\ [Next]_vars =>
          [\A d \in Days : d <= watermark /\ ~Running("admin") /\ ~Running("recompute")
                               => daily'[d] = daily[d]]_vars
  BY WritesAhead
<1> QED BY <1>1, InitTicker, StepTicker, Inductive, PTL DEF Spec, SealedUntilAsked
-----------------------------------------------------------------------------
\* Retention.  A pass fixes its cutoff on an earlier day, no request in flight
\* began before it, a pass that came to its end clean has left nothing behind
\* it, and what it takes is of earlier days.
RetentionInv ==
    /\ ret.pc # "idle" =>
          /\ ret.cutoff.day < today
          /\ \A i \in LogId : phase[i] = "open" => ~Before(at[i], ret.cutoff)
    /\ ret.pc = "finish" /\ ~ret.err => RowsBefore(ret.cutoff) = {}
    /\ \A i \in LogId : phase[i] = "deleted" => at[i].day < today

LEMMA InitRetention == Init => RetentionInv
  BY DEF Init, CleanupInit, StoreInit, RetIdle, RetentionPass, RetentionInv

\* The cutoff of a pass that starts now.
LEMMA CutoffIsOld ==
    ASSUME IInv, NEW n \in RetentionDays
    PROVE  /\ Cutoff(n).day < today
           /\ \A i \in LogId : phase[i] = "open" => ~Before(at[i], Cutoff(n))
<1> USE CalendarAssumption, CleanupAssumption
<1>1. /\ today \in FirstDay .. LastDay /\ tod \in 0 .. TicksPerDay - 1 /\ n \in Nat
      /\ today \in Int /\ tod \in Int /\ today > 2 /\ tod >= 0
  BY DEF IInv, TypeOK, StoreTypeOK
<1>2. \A i \in LogId : at[i].day \in Int /\ at[i].tod \in Int /\ at[i].tod >= 0
  BY DEF IInv, TypeOK, StoreTypeOK, Times
<1>3. PICK m \in Int : m >= 1 /\ Cutoff(n) = IF m <= today THEN [day |-> today - m, tod |-> tod]
                                                            ELSE [day |-> 0, tod |-> 0]
  <2>1. CASE n <= 0
    BY <2>1 DEF Cutoff, defaultMaxDays
  <2>2. CASE ~(n <= 0)
    BY <1>1, <2>2 DEF Cutoff
  <2> QED BY <2>1, <2>2
<1>4. CASE m <= today
  <2>1. Cutoff(n).day = today - m /\ Cutoff(n).tod = tod
    BY <1>3, <1>4
  <2> QED BY <1>1, <1>2, <1>3, <2>1 DEF IInv, OpenIsFresh, Before
<1>5. CASE ~(m <= today)
  <2>1. Cutoff(n).day = 0 /\ Cutoff(n).tod = 0
    BY <1>3, <1>5
  <2> QED BY <1>1, <1>2, <2>1 DEF IInv, OpenIsFresh, Before
<1> QED BY <1>4, <1>5

\* A batch that is not full was all there was (DeleteBatch, LastBatch).
LEMMA LastBatchIsAll ==
    ASSUME NEW cutoff, NEW batch \in DeleteBatch(cutoff, BatchSize), LastBatch(Cardinality(batch))
    PROVE  batch = RowsBefore(cutoff)
  BY CleanupAssumption DEF DeleteBatch, LastBatch

LEMMA StepRetention == IInv /\ RetentionInv /\ [Next]_vars => RetentionInv'
<1> SUFFICES ASSUME IInv, RetentionInv, [Next]_vars PROVE RetentionInv'
  OBVIOUS
<1> USE CalendarAssumption, CleanupAssumption
<1>t. /\ today \in Int /\ tod \in Int /\ phase \in [LogId -> Phases] /\ at \in [LogId -> Times]
      /\ ret \in RetPass /\ ret.cutoff.day \in Int /\ ret.cutoff.tod \in Int
      /\ \A i \in LogId : at[i].day \in Int /\ at[i].tod \in Int
  BY DEF IInv, TypeOK, StoreTypeOK, CleanupTypeOK, Times, RetPass
<1>1. ASSUME NEW i \in LogId, Accept(i) \/ Complete(i) \/ CreateError(i) PROVE RetentionInv'
  <2>1. UNCHANGED <<today, tod, ret>>
    BY <1>1 DEF Accept, Complete, CreateError
  <2>2. CASE Accept(i)
    <3>1. /\ phase[i] = "unused" /\ phase' = [phase EXCEPT ![i] = "open"]
          /\ at' = [at EXCEPT ![i] = Now]
      BY <2>2 DEF Accept
    <3>2. ret.pc # "idle" => ~Before(Now, ret.cutoff)
      BY <1>t DEF RetentionInv, Before, Now
    <3>3. RowsBefore(ret.cutoff)' = RowsBefore(ret.cutoff)
      BY <1>t, <2>1, <3>1 DEF RowsBefore, Rows
    <3> QED BY <1>t, <2>1, <3>1, <3>2, <3>3 DEF RetentionInv
  <2>3. CASE Complete(i) \/ CreateError(i)
    <3>1. /\ phase[i] = "open" /\ at' = at
          /\ phase' = [phase EXCEPT ![i] = "logged"] \/ phase' = [phase EXCEPT ![i] = "lost"]
      BY <2>3 DEF Complete, CreateError
    <3>2. ret.pc # "idle" => RowsBefore(ret.cutoff)' = RowsBefore(ret.cutoff)
      BY <1>t, <2>1, <3>1 DEF RowsBefore, Rows, RetentionInv
    <3> QED BY <1>t, <2>1, <3>1, <3>2 DEF RetentionInv
  <2> QED BY <1>1, <2>2, <2>3
<1>2. ASSUME UNCHANGED <<today, phase, at, ret>> PROVE RetentionInv'
  BY <1>2 DEF RetentionInv, RowsBefore, Rows
<1>3. CASE Retention
  <2>1. CASE RunIfDue \/ Trigger
    <3>1. UNCHANGED <<today, phase, at>> /\ StartPass
      BY <2>1 DEF RunIfDue, Trigger, storeVars
    <3>2. PICK n \in RetentionDays : ret' = RetentionPass("delete", Cutoff(n), FALSE)
      BY <3>1 DEF StartPass
    <3>3. ret'.pc = "delete" /\ ret'.cutoff = Cutoff(n)
      BY <3>2 DEF RetentionPass
    <3> QED BY <3>1, <3>3, CutoffIsOld DEF RetentionInv
  <2>2. CASE DeleteBefore
    <3>1. PICK batch \in DeleteBatch(ret.cutoff, BatchSize) :
             /\ phase' = [i \in LogId |-> IF i \in batch THEN "deleted" ELSE phase[i]]
             /\ ret' = IF LastBatch(Cardinality(batch))
                       THEN RetentionPass("finish", ret.cutoff, FALSE) ELSE ret
      BY <2>2 DEF DeleteBefore
    <3>2. UNCHANGED <<today, at>> /\ ret.pc = "delete"
      BY <2>2 DEF DeleteBefore
    <3>3. ret'.cutoff = ret.cutoff /\ (ret'.pc = "finish" => LastBatch(Cardinality(batch)))
      BY <3>1, <3>2 DEF RetentionPass
    <3>4. \A i \in batch : i \in Rows /\ at[i].day < today
      BY <1>t, <3>2 DEF DeleteBatch, RowsBefore, Before, RetentionInv, Rows
    <3>5. ret'.pc = "finish" => RowsBefore(ret.cutoff)' = {}
      BY <1>t, <3>1, <3>2, <3>3, LastBatchIsAll DEF RowsBefore, Rows
    <3> QED BY <1>t, <3>1, <3>2, <3>3, <3>4, <3>5 DEF RetentionInv
  <2>3. CASE Finish
    BY <2>3 DEF Finish, RetIdle, RetentionPass, RetentionInv
  <2> QED BY <1>3, <2>1, <2>2, <2>3 DEF Retention
<1>4. CASE RetentionFails
  <2>1. UNCHANGED <<today, phase, at>>
    BY <1>4 DEF RetentionFails, DeleteError, FinishError, storeVars
  <2>2. \/ ret'.pc = "idle"
        \/ ret.pc # "idle" /\ ret'.cutoff = ret.cutoff /\ ret'.err
    BY <1>4 DEF RetentionFails, DeleteError, FinishError, RetIdle, RetentionPass
  <2> QED BY <2>1, <2>2 DEF RetentionInv, Before
<1>5. CASE Clock
  <2>1. UNCHANGED <<phase, at, ret>> /\ (today' = today \/ today' = today + 1)
    BY <1>5 DEF Clock
  <2> QED BY <1>t, <2>1 DEF RetentionInv, RowsBefore, Rows
<1>6. CASE Crash
  <2>1. /\ phase' = [i \in LogId |-> IF phase[i] = "open" THEN "lost" ELSE phase[i]]
        /\ UNCHANGED <<today, at>> /\ ret'.pc = "idle"
    BY <1>6 DEF Crash, CleanupCrash, RetIdle, RetentionPass
  <2> QED BY <1>t, <2>1 DEF RetentionInv
<1> QED BY <1>1, <1>2, <1>3, <1>4, <1>5, <1>6
        DEF Next, Gateway, Recompute, StartRecompute, RecomputeRow, RecomputeError, EndRecompute,
            Aggregate, AggregateFails, AggError, EnsureBackfill, TickOnce, RebuildAggregate, PassStep,
            CountDay, WriteDay, Watermarked, Seal, EndRange, Backfill, MarkAll, Restart, Wire,
            vars, storeVars

\* A retention pass that ends without an error left no row older than its
\* cutoff, though requests were accepted and logged while it deleted batch by
\* batch, and none of today's rows is ever taken, whatever max_days says
\* (onceLocked, DeleteBefore).
THEOREM RetentionComplete == Spec => []PassIsComplete
<1>1. IInv /\ RetentionInv => PassIsComplete
  <2> SUFFICES ASSUME IInv, RetentionInv PROVE ~Purged(today)
    BY DEF RetentionInv, PassIsComplete
  <2>1. today \in Int
    BY CalendarAssumption DEF IInv, TypeOK, StoreTypeOK
  <2> QED BY <2>1 DEF RetentionInv, Purged
<1> QED BY <1>1, Inductive, InitRetention, StepRetention, PTL DEF Spec

-----------------------------------------------------------------------------
(***************************************************************************)
(* The cost of a sealed day.  A recomputation changes costs row by row     *)
(* while the aggregation task seals days, retention deletes rows and       *)
(* requests end; unless something failed, the aggregates of the days it    *)
(* touched are right again once its rebuild is through.                    *)
(***************************************************************************)
\* The inductive invariant, on top of IInv.

\* The rebuild of a recomputation.
Rebuild == job["recompute"]

\* A rebuild of day d is due: the recomputation in progress has updated a row
\* of its range, or its rebuild has not come to d yet.
Owed(d) ==
    \/ rec.pc = "scan" /\ rec.updated /\ rec.from <= d /\ d <= rec.to
    \/ Rebuild.pc = "range" /\ Rebuild.day <= d /\ d <= Rebuild.to
    \/ Rebuild.pc = "full"

\* The day's aggregate has the cost of the day's rows, or rows were purged.
CostExact(d) == Purged(d) \/ daily[d].priced = RowsOf(d) \cap priced

Settled(d) == Owed(d) \/ CostExact(d)

\* The recomputation changes costs of rows of its range only, and has no
\* rebuild running meanwhile.
WithinRange ==
    /\ \A i \in LogId : at[i].day <= today
    /\ rec.pc = "scan" =>
          /\ Rebuild.pc = "idle"
          /\ \A i \in rec.todo :
                phase[i] \in {"logged", "deleted"} /\ at[i].day \in rec.from .. rec.to
    /\ Rebuild.pc \in {"idle", "range", "full", "mark"}

PricedAreCounted == \A d \in Days : daily[d].priced \subseteq daily[d].ids

\* Until main has wired the rebuild there is nothing sealed that could need it.
NothingSealedYet ==
    faults = 0 => /\ stage # "down"
                  /\ ~Serving => watermark = 0 /\ \A w \in Worker : ~Running(w)

\* What the watermark vouches for, and what a pass is about to, is settled.
SettledBehind ==
    faults = 0 =>
        /\ \A d \in Days : d <= watermark => Settled(d)
        /\ \A w \in Worker :
              /\ job[w].pc = "seal" =>
                    \A d \in Days : d < job[w].day /\ d <= job[w].to => Settled(d)
              /\ job[w].pc = "mark" =>
                    /\ \A d \in Days : d <= job[w].base - sealLag => Settled(d)
                    /\ (tod # 0 /\ ~job[w].aged) \/ job[w].base = today - 1 =>
                          \A d \in Days : d <= job[w].base - 1 => Settled(d)

CostInv == WithinRange /\ PricedAreCounted /\ NothingSealedYet /\ SettledBehind

LEMMA InitCost == Init => CostInv
<1> SUFFICES ASSUME Init PROVE CostInv
  OBVIOUS
<1> USE CalendarAssumption
<1>1. /\ \A w \in Worker : job[w].pc \in {"idle", "boot"}
      /\ Rebuild.pc = "idle" /\ rec.pc = "idle"
  BY DEF Init, AggInit, Rebuild, Worker, Idle, Boot, Pass, RecIdle
<1>2. WithinRange /\ PricedAreCounted
  BY <1>1 DEF Init, StoreInit, WithinRange, PricedAreCounted, NoRow
<1>3. NothingSealedYet /\ SettledBehind
  BY <1>1 DEF Init, StoreInit, NothingSealedYet, SettledBehind, Running, Serving, Days
<1> QED BY <1>2, <1>3 DEF CostInv
-----------------------------------------------------------------------------
\* Frames.

\* A fault is for good.
LEMMA FaultsStay ==
    ASSUME IInv, [Next]_vars
    PROVE  faults' = 0 => faults = 0
<1>1. faults \in Nat
  BY LifecycleAssumption DEF IInv, TypeOK
<1>2. CASE faults' = faults \/ Fault
  BY <1>1, <1>2 DEF Fault
<1>3. CASE Recompute
  <2>1. StartRecompute \/ EndRecompute \/ (\E i \in LogId : RecomputeRow(i)) => faults' = faults
    BY DEF StartRecompute, EndRecompute, RecomputeRow
  <2> QED BY <1>2, <1>3, <2>1 DEF Recompute, RecomputeError
<1>4. CASE Gateway
  BY <1>2, <1>4 DEF Gateway, Accept, Complete, CreateError
<1>5. CASE ~Recompute /\ ~Gateway
  BY <1>2, <1>5 DEF Next, Aggregate, AggregateFails, Retention, RetentionFails, Clock, Crash,
     Restart, Wire, vars
<1> QED BY <1>3, <1>4, <1>5

\* The types the proofs need.
LEMMA Fields ==
    ASSUME IInv
    PROVE  /\ today \in FirstDay .. LastDay /\ today \in Int /\ today > 2
           /\ tod \in 0 .. TicksPerDay - 1 /\ watermark \in 0 .. LastDay
           /\ phase \in [LogId -> Phases] /\ at \in [LogId -> Times]
           /\ \A i \in LogId : at[i].day \in Int
           /\ daily \in [Days -> AggRow] /\ Days \subseteq Int
           /\ job \in [Worker -> Job] /\ "recompute" \in Worker
           /\ \A w \in Worker : /\ job[w].day \in 0 .. LastDay + 1 /\ job[w].to \in 0 .. LastDay
                                /\ job[w].base \in 0 .. LastDay /\ job[w].aged \in BOOLEAN
           /\ rec \in Recomputation /\ rec.from \in Int /\ rec.to \in Int
<1> USE CalendarAssumption DEF IInv, TypeOK, StoreTypeOK, AggTypeOK
<1>1. today \in Int /\ today > 2 /\ Days \subseteq Int /\ \A i \in LogId : at[i].day \in Int
  BY DEF Times, Days
<1>2. rec.from \in Int /\ rec.to \in Int
  BY DEF Recomputation
<1>3. job \in [Worker -> Job] /\ "recompute" \in Worker
  BY DEF Worker
<1>4. \A w \in Worker : /\ job[w].day \in 0 .. LastDay + 1 /\ job[w].to \in 0 .. LastDay
                         /\ job[w].base \in 0 .. LastDay /\ job[w].aged \in BOOLEAN
  BY <1>3, JobFields
<1> QED BY <1>1, <1>2, <1>3, <1>4

\* No pass enters a sealing loop or a mark, and what was settled still is.
LEMMA SettledStays ==
    ASSUME IInv, CostInv, faults' = 0 => faults = 0,
           UNCHANGED <<today, tod, watermark>>,
           \A w \in Worker : job'[w] = job[w] \/ job'[w].pc \notin {"seal", "mark"},
           faults = 0 => \A d \in Days : Settled(d) => Settled(d)'
    PROVE  SettledBehind'
  BY DEF CostInv, SettledBehind

\* The same where a recomputation has no part.
LEMMA ExactStays ==
    ASSUME IInv, CostInv, faults' = 0 => faults = 0,
           UNCHANGED <<today, tod, watermark, rec>>,
           \A w \in Worker : job'[w] = job[w] \/ job'[w].pc \notin {"seal", "mark"},
           job'["recompute"] = job["recompute"] \/ ~Running("recompute"),
           \A d \in Days : CostExact(d) => CostExact(d)'
    PROVE  SettledBehind'
<1>1. ASSUME NEW d \in Days, Settled(d) PROVE Settled(d)'
  BY <1>1 DEF Settled, Owed, Rebuild, Running
<1> QED BY <1>1, SettledStays
-----------------------------------------------------------------------------
\* WithinRange, PricedAreCounted, NothingSealedYet.

\* A pass of another worker leaves the rebuild of a recomputation alone, one of
\* its own is a range or a full one.
LEMMA RebuildPass ==
    ASSUME IInv, CostInv, NEW w \in Worker, PassStep(w) \/ AggError(w)
    PROVE  /\ w # "recompute" => job'["recompute"] = job["recompute"]
           /\ w = "recompute" => Rebuild.pc # "idle" /\ Rebuild'.pc \in {"idle", "range", "full", "mark"}
<1>1. job \in [Worker -> Job] /\ "recompute" \in Worker
  BY Fields
<1>2. Rebuild.pc \in {"idle", "range", "full", "mark"}
      /\ (job["recompute"].counted => Rebuild.pc = "range")
  BY <1>1 DEF CostInv, WithinRange, IInv, CountedInLoop, Rebuild
<1>3. CASE w # "recompute"
  BY <1>1, <1>3 DEF PassStep, CountDay, WriteDay, Watermarked, Seal, EndRange, Backfill, MarkAll,
     AggError, Release
<1>4. CASE w = "recompute"
  <2>1. CASE CountDay(w) \/ WriteDay(w)
    BY <1>1, <1>2, <1>4, <2>1 DEF CountDay, WriteDay, Rebuild, Pass
  <2>2. CASE Watermarked(w) \/ Seal(w)
    BY <1>2, <1>4, <2>2 DEF Watermarked, Seal, Finished, Rebuild
  <2>3. CASE EndRange(w) \/ MarkAll(w) \/ AggError(w)
    BY <1>1, <1>2, <1>4, <2>3
       DEF EndRange, MarkAll, AggError, Running, Release, Finished, Rebuild, Idle, Pass
  <2>4. CASE Backfill(w)
    BY <1>1, <1>2, <1>4, <2>4 DEF Backfill, Rebuild, Pass
  <2> QED BY <2>1, <2>2, <2>3, <2>4 DEF PassStep
<1> QED BY <1>3, <1>4

\* The rebuild begins when the scan ends.
LEMMA EndRecomputeJob ==
    ASSUME IInv, CostInv, EndRecompute
    PROVE  /\ \A w \in Worker : w # "recompute" => job'[w] = job[w]
           /\ \/ ~(rec.updated /\ Serving) /\ job' = job
              \/ rec.updated /\ Serving /\ Rebuild'.pc = "full"
              \/ rec.updated /\ Serving /\ Rebuild'.pc = "range"
                 /\ Rebuild'.day = rec.from /\ Rebuild'.to = rec.to
<1>1. job \in [Worker -> Job] /\ "recompute" \in Worker
  BY Fields
<1>2. CASE rec.updated /\ Serving
  <2>1. RebuildRange("recompute", rec.from, rec.to)
    BY <1>2 DEF EndRecompute
  <2> QED BY <1>1, <1>2, <2>1 DEF RebuildRange, Begin, Rebuild, Pass
<1>3. CASE ~(rec.updated /\ Serving)
  BY <1>3 DEF EndRecompute, aggVars
<1> QED BY <1>2, <1>3

LEMMA StepWithin == IInv /\ CostInv /\ [Next]_vars => WithinRange'
<1> SUFFICES ASSUME IInv, CostInv, [Next]_vars PROVE WithinRange'
  OBVIOUS
<1>t. /\ today \in Int /\ phase \in [LogId -> Phases] /\ at \in [LogId -> Times]
      /\ \A i \in LogId : at[i].day \in Int
      /\ job \in [Worker -> Job] /\ "recompute" \in Worker /\ rec \in Recomputation
      /\ rec.todo \subseteq LogId
  BY Fields DEF Recomputation
<1>w. WithinRange
  BY DEF CostInv
<1>1. ASSUME NEW i \in LogId, Accept(i) \/ Complete(i) \/ CreateError(i) PROVE WithinRange'
  <2>1. UNCHANGED <<today, job, rec>>
    BY <1>1 DEF Accept, Complete, CreateError, aggVars
  <2>2. /\ phase[i] \in {"unused", "open"}
        /\ \A k \in LogId : k # i => phase'[k] = phase[k] /\ at'[k] = at[k]
        /\ at'[i].day = today \/ at' = at
    BY <1>1, <1>t DEF Accept, Complete, CreateError, Now
  <2>3. \A k \in LogId : at'[k].day <= today
    BY <1>t, <1>w, <2>2 DEF WithinRange
  <2> QED BY <1>t, <1>w, <2>1, <2>2, <2>3 DEF WithinRange, Rebuild
<1>2. CASE Recompute
  <2>0. UNCHANGED <<today, at, phase>>
    BY <1>2 DEF Recompute, StartRecompute, RecomputeRow, RecomputeError, EndRecompute, storeVars
  <2>1. CASE StartRecompute
    <3>1. UNCHANGED job /\ job["recompute"].pc = "idle"
      BY <2>1 DEF StartRecompute, aggVars
    <3>2. rec'.to = today /\ \A i \in rec'.todo : i \in Rows /\ at[i].day >= rec'.from
      BY <2>1 DEF StartRecompute, Scan
    <3>3. rec'.from \in Int
      BY <1>t, <2>1 DEF StartRecompute, Scan
    <3> QED BY <1>t, <1>w, <2>0, <3>1, <3>2, <3>3 DEF WithinRange, Rebuild, Rows
  <2>2. ASSUME NEW i \in LogId, RecomputeRow(i) PROVE WithinRange'
    <3>1. UNCHANGED job
      BY <2>2 DEF RecomputeRow, aggVars
    <3>2. rec.pc = "scan" /\ rec'.todo \subseteq rec.todo /\ rec'.from = rec.from /\ rec'.to = rec.to
      BY <2>2 DEF RecomputeRow, Scan
    <3> QED BY <1>t, <1>w, <2>0, <3>1, <3>2 DEF WithinRange, Rebuild
  <2>3. CASE RecomputeError
    BY <1>w, <2>0, <2>3 DEF RecomputeError, RecIdle, aggVars, WithinRange, Rebuild
  <2>4. CASE EndRecompute
    <3>1. rec'.pc = "idle" /\ Rebuild'.pc \in {"idle", "range", "full", "mark"}
      BY <1>w, <2>4, EndRecomputeJob DEF EndRecompute, RecIdle, WithinRange, Rebuild
    <3> QED BY <1>w, <2>0, <3>1 DEF WithinRange
  <2> QED BY <1>2, <2>1, <2>2, <2>3, <2>4 DEF Recompute
<1>3. ASSUME UNCHANGED <<today, at, phase, rec>>, Rebuild' = Rebuild PROVE WithinRange'
  BY <1>w, <1>3 DEF WithinRange
<1>4. CASE Aggregate \/ AggregateFails
  <2>0. UNCHANGED <<today, at, phase, rec>>
    BY <1>4 DEF Aggregate, AggregateFails, EnsureBackfill, TickOnce, RebuildAggregate, PassStep, AggError,
       CountDay, WriteDay, Watermarked, Seal, EndRange, Backfill, MarkAll, storeVars
  <2>1. CASE EnsureBackfill \/ TickOnce \/ (\E n \in RebuildDays : RebuildAggregate(n))
    <3>1. job'["recompute"] = job["recompute"]
      BY <1>t, <2>1 DEF EnsureBackfill, TickOnce, RebuildAggregate, RebuildRange, Begin
    <3> QED BY <1>3, <2>0, <3>1 DEF Rebuild
  <2>2. ASSUME NEW w \in Worker, PassStep(w) \/ AggError(w) PROVE WithinRange'
    BY <1>w, <1>3, <2>0, <2>2, RebuildPass DEF WithinRange, Rebuild
  <2> QED BY <1>4, <2>1, <2>2 DEF Aggregate, AggregateFails
<1>5. CASE Retention \/ RetentionFails
  <2>1. UNCHANGED <<today, at, rec, job>>
    BY <1>5 DEF Retention, RetentionFails, RunIfDue, Trigger, DeleteBefore, Finish, DeleteError,
       FinishError, storeVars, aggVars
  <2>2. \A i \in LogId : phase'[i] = phase[i] \/ phase'[i] = "deleted"
    BY <1>5, <1>t DEF Retention, RetentionFails, RunIfDue, Trigger, DeleteBefore, Finish, DeleteError,
       FinishError, storeVars
  <2> QED BY <1>t, <1>w, <2>1, <2>2 DEF WithinRange, Rebuild
<1>6. CASE Clock
  <2>1. UNCHANGED <<at, phase, rec>> /\ (today' = today \/ today' = today + 1)
    BY <1>6 DEF Clock
  <2>2. Rebuild'.pc = Rebuild.pc
    BY <1>6, <1>t DEF Clock, Rebuild, Pass
  <2> QED BY <1>t, <1>w, <2>1, <2>2 DEF WithinRange
<1>7. CASE Crash
  BY <1>7, <1>t, <1>w DEF Crash, AggCrash, RecIdle, WithinRange, Rebuild, Idle, Pass
<1>8. CASE Restart \/ Wire \/ UNCHANGED vars
  BY <1>3, <1>8 DEF Restart, Wire, vars, storeVars, aggVars, Rebuild
<1> QED BY <1>1, <1>2, <1>4, <1>5, <1>6, <1>7, <1>8 DEF Next, Gateway
LEMMA StepPriced == IInv /\ CostInv /\ [Next]_vars => PricedAreCounted'
<1> SUFFICES ASSUME IInv, CostInv, [Next]_vars PROVE PricedAreCounted'
  OBVIOUS
<1>1. PricedAreCounted /\ daily \in [Days -> AggRow]
  BY Fields DEF CostInv
<1>2. CASE UNCHANGED daily
  BY <1>1, <1>2 DEF PricedAreCounted
<1>3. ASSUME NEW w \in Worker, PassStep(w) PROVE PricedAreCounted'
  <2>1. CASE WriteDay(w)
    <3>1. daily' = [daily EXCEPT ![job[w].day] = Summed(job[w].day)]
      BY <2>1 DEF WriteDay, RebuildTx
    <3> QED BY <1>1, <3>1 DEF PricedAreCounted, Summed
  <2>2. CASE Backfill(w)
    BY <2>2 DEF Backfill, BackfillAll, PricedAreCounted, Summed, NoRow
  <2> QED BY <1>2, <1>3, <2>1, <2>2
          DEF PassStep, CountDay, Watermarked, Seal, EndRange, MarkAll, storeVars
<1>4. CASE Aggregate
  BY <1>2, <1>3, <1>4 DEF Aggregate, EnsureBackfill, TickOnce, RebuildAggregate, storeVars
<1>5. CASE ~Aggregate
  BY <1>2, <1>5 DEF Next, Gateway, Accept, Complete, CreateError, Recompute, StartRecompute,
     RecomputeRow, RecomputeError, EndRecompute, AggregateFails, AggError, Retention, RunIfDue,
     Trigger, DeleteBefore, Finish, RetentionFails, DeleteError, FinishError, Clock, Crash,
     Restart, Wire, vars, storeVars
<1> QED BY <1>4, <1>5

\* Every action that starts a pass or seals a day asks for a process that serves.
LEMMA StepNothing == IInv /\ CostInv /\ [Next]_vars => NothingSealedYet'
<1> SUFFICES ASSUME IInv, CostInv, [Next]_vars, faults' = 0
             PROVE  /\ stage' # "down"
                    /\ ~Serving' => watermark' = 0 /\ \A w \in Worker : ~Running(w)'
  BY DEF NothingSealedYet
<1>1. /\ faults = 0 /\ stage # "down"
      /\ ~Serving => watermark = 0 /\ \A w \in Worker : ~Running(w)
  BY FaultsStay DEF CostInv, NothingSealedYet
<1>2. CASE Serving /\ UNCHANGED stage
  BY <1>1, <1>2 DEF Serving
<1>3. CASE UNCHANGED <<stage, watermark, job>>
  BY <1>1, <1>3 DEF Serving, Running
<1>4. CASE Gateway
  BY <1>2, <1>4 DEF Gateway, Accept, Complete, CreateError
<1>5. CASE Recompute
  <2>1. CASE EndRecompute
    BY <1>2, <1>3, <2>1 DEF EndRecompute, storeVars, aggVars
  <2>2. CASE ~EndRecompute
    BY <1>3, <1>5, <2>2
       DEF Recompute, StartRecompute, RecomputeRow, RecomputeError, storeVars, aggVars
  <2> QED BY <2>1, <2>2
<1>6. CASE Aggregate \/ AggregateFails
  <2>1. CASE EnsureBackfill \/ TickOnce \/ (\E n \in RebuildDays : RebuildAggregate(n))
    BY <1>2, <2>1 DEF EnsureBackfill, TickOnce, RebuildAggregate, storeVars
  <2>2. ASSUME NEW w \in Worker, PassStep(w) \/ AggError(w)
        PROVE  Serving /\ UNCHANGED stage
    <3>1. Running(w)
      BY <2>2 DEF PassStep, CountDay, WriteDay, Watermarked, Seal, EndRange, Backfill, MarkAll,
         Finished, AggError, Running, IInv, CountedInLoop
    <3>2. UNCHANGED stage
      BY <2>2 DEF PassStep, CountDay, WriteDay, Watermarked, Seal, EndRange, Backfill, MarkAll,
         AggError, storeVars
    <3> QED BY <1>1, <3>1, <3>2
  <2> QED BY <1>2, <1>6, <2>1, <2>2 DEF Aggregate, AggregateFails
<1>7. CASE Retention \/ RetentionFails
  BY <1>3, <1>7 DEF Retention, RetentionFails, RunIfDue, Trigger, DeleteBefore, Finish, DeleteError,
     FinishError, storeVars, aggVars
<1>8. CASE Clock
  <2>1. UNCHANGED <<stage, watermark>> /\ \A w \in Worker : job'[w].pc = job[w].pc
    BY <1>8 DEF Clock, Pass
  <2> QED BY <1>1, <2>1 DEF Serving, Running
<1>9. CASE Crash
  <2>1. faults \in Nat
    BY LifecycleAssumption DEF IInv, TypeOK
  <2> QED BY <1>9, <1>1, <2>1 DEF Crash, Fault
<1>10. CASE Restart \/ Wire \/ UNCHANGED vars
  BY <1>1, <1>3, <1>10 DEF Restart, Wire, Serving, vars, storeVars, aggVars
<1> QED BY <1>4, <1>5, <1>6, <1>7, <1>8, <1>9, <1>10 DEF Next
-----------------------------------------------------------------------------
\* SettledBehind, action by action.

\* A request that is accepted or logged now began on a day that neither the
\* watermark nor a pass vouches for.
LEMMA GatewaySettled ==
    ASSUME IInv, CostInv, faults' = 0 => faults = 0, Gateway
    PROVE  SettledBehind'
<1> USE CalendarAssumption
<1>0. PICK i \in LogId : Accept(i) \/ Complete(i) \/ CreateError(i)
  BY DEF Gateway
<1>1. UNCHANGED <<today, tod, daily, watermark, runMu, job, rec>>
  BY <1>0 DEF Accept, Complete, CreateError, aggVars
<1>t. /\ today \in Int /\ watermark \in 0 .. LastDay /\ Days \subseteq Int
      /\ phase \in [LogId -> Phases] /\ at \in [LogId -> Times]
      /\ \A k \in LogId : at[k].day \in Int
      /\ \A w \in Worker : job[w].base \in 0 .. LastDay
  BY Fields
<1>2. ASSUME NEW d \in Days, d < today - 1 \/ (d < today /\ tod # 0)
      PROVE  Settled(d) => Settled(d)'
  <2>0. d \in Int
    BY <1>t
  <2>1. CASE Accept(i)
    <3>1. phase[i] = "unused" /\ at'[i].day = today /\ phase'[i] = "open" /\ priced' = priced
          /\ \A k \in LogId : k # i => phase'[k] = phase[k] /\ at'[k] = at[k]
      BY <1>t, <2>1 DEF Accept, Now
    <3>2. RowsOf(d)' = RowsOf(d) /\ Purged(d)' = Purged(d)
      BY <1>t, <3>1 DEF RowsOf, Rows, Purged
    <3> QED BY <1>1, <3>1, <3>2 DEF Settled, Owed, CostExact, Rebuild
  <2>2. CASE Complete(i) \/ CreateError(i)
    <3>1. phase[i] = "open" /\ at' = at /\ phase'[i] \in {"logged", "lost"}
          /\ \A k \in LogId : k # i => phase'[k] = phase[k]
      BY <1>t, <2>2 DEF Complete, CreateError
    <3>2. at[i].day # d
      BY <1>t, <2>0, <3>1, <1>2 DEF IInv, OpenIsFresh
    <3>3. RowsOf(d)' = RowsOf(d) /\ Purged(d)' = Purged(d) /\ i \notin RowsOf(d)
      BY <1>t, <3>1, <3>2 DEF RowsOf, Rows, Purged
    <3>4. \A k \in LogId : k # i => (k \in priced' <=> k \in priced)
      BY <2>2 DEF Complete, CreateError
    <3>5. (RowsOf(d) \cap priced)' = RowsOf(d) \cap priced
      BY <3>3, <3>4 DEF RowsOf, Rows
    <3> QED BY <1>1, <3>3, <3>5 DEF Settled, Owed, CostExact, Rebuild
  <2> QED BY <1>0, <2>1, <2>2
<1>3. ASSUME faults = 0, NEW d \in Days, d <= watermark PROVE Settled(d)'
  <2>1. Settled(d)
    BY <1>3 DEF CostInv, SettledBehind
  <2>2. d < today - 1
    <3>1. d \in 1 .. LastDay /\ watermark <= today - 2
      BY <1>t, <1>3 DEF Days, IInv, WatermarkBehind
    <3> QED BY <1>t, <1>3, <3>1
  <2> QED BY <1>2, <2>1, <2>2
<1>4. ASSUME faults = 0, NEW w \in Worker
      PROVE  /\ job[w].pc = "seal" =>
                    \A d \in Days : d < job[w].day /\ d <= job[w].to => Settled(d)'
             /\ job[w].pc = "mark" =>
                    /\ \A d \in Days : d <= job[w].base - sealLag => Settled(d)'
                    /\ (tod # 0 /\ ~job[w].aged) \/ job[w].base = today - 1 =>
                          \A d \in Days : d <= job[w].base - 1 => Settled(d)'
  <2>1. Running(w) => job[w].base = today \/ (job[w].base = today - 1 /\ tod = 0)
    BY DEF IInv, BaseIsFresh
  <2>2. CASE job[w].pc = "seal"
    <3>1. job[w].to = job[w].base - sealLag /\ job[w].base <= today
      BY <1>t, <2>1, <2>2 DEF IInv, PassProgress, Running
    <3>2. ASSUME NEW d \in Days, d < job[w].day, d <= job[w].to PROVE Settled(d)'
      <4>1. Settled(d)
        BY <1>4, <2>2, <3>2 DEF CostInv, SettledBehind
      <4>2. d < today - 1
        BY <1>t, <3>1, <3>2
      <4> QED BY <1>2, <4>1, <4>2
    <3> QED BY <2>2, <3>2
  <2>3. CASE job[w].pc = "mark"
    <3>1. job[w].base = today \/ (job[w].base = today - 1 /\ tod = 0)
      BY <2>1, <2>3 DEF Running
    <3>2. ASSUME NEW d \in Days, d <= job[w].base - sealLag PROVE Settled(d)'
      <4>1. Settled(d)
        BY <1>4, <2>3, <3>2 DEF CostInv, SettledBehind
      <4>2. d < today - 1
        BY <1>t, <3>1, <3>2
      <4> QED BY <1>2, <4>1, <4>2
    <3>3. ASSUME (tod # 0 /\ ~job[w].aged) \/ job[w].base = today - 1,
                 NEW d \in Days, d <= job[w].base - 1
          PROVE  Settled(d)'
      <4>1. Settled(d)
        BY <1>4, <2>3, <3>3 DEF CostInv, SettledBehind
      <4>2. d < today - 1 \/ (d < today /\ tod # 0)
        BY <1>t, <3>1, <3>3
      <4> QED BY <1>2, <4>1, <4>2
    <3> QED BY <2>3, <3>2, <3>3
  <2> QED BY <2>2, <2>3
<1> QED BY <1>1, <1>3, <1>4 DEF SettledBehind
\* A day without rows has no cost.
LEMMA EmptyIsExact ==
    ASSUME IInv, CostInv, NEW d \in Days, RowsOf(d) = {}
    PROVE  CostExact(d)
<1>1. Purged(d) \/ daily[d].ids = {}
  BY Fields DEF IInv, CountedUnderOwnDay, Purged, RowsOf, Rows, AggRow
<1> QED BY <1>1 DEF CostExact, CostInv, PricedAreCounted

LEMMA CostFrame ==
    ASSUME UNCHANGED <<phase, at, priced, daily>>
    PROVE  \A d \in Days : CostExact(d)' <=> CostExact(d)
  BY DEF CostExact, Purged, RowsOf, Rows

\* A loop over days that moves on past a day whose cost is exact, or stays.
LEMMA LoopSettled ==
    ASSUME IInv, CostInv, faults' = 0 => faults = 0, NEW w \in Worker,
           job[w].pc \in {"roll", "seal", "range"},
           UNCHANGED <<today, tod, watermark, rec>>,
           \A u \in Worker : u # w => job'[u] = job[u],
           job'[w].pc = job[w].pc, job'[w].to = job[w].to,
           job'[w].day \in {job[w].day, job[w].day + 1},
           \A d \in Days : CostExact(d) => CostExact(d)',
           job'[w].day = job[w].day + 1 => \A d \in Days : d = job[w].day => CostExact(d)'
    PROVE  SettledBehind'
<1>t. Days \subseteq Int /\ job[w].day \in Int /\ job[w].to \in Int /\ "recompute" \in Worker
  BY Fields
<1>1. ASSUME NEW d \in Days, Settled(d) PROVE Settled(d)'
  <2>0. d \in Int
    BY <1>t
  <2>1. CASE CostExact(d)
    BY <2>1 DEF Settled
  <2>2. CASE Owed(d) /\ w # "recompute"
    BY <1>t, <2>2 DEF Settled, Owed, Rebuild
  <2>3. CASE Owed(d) /\ w = "recompute"
    <3>1. job[w].pc = "range" /\ job[w].day <= d /\ d <= job[w].to
      BY <2>3 DEF Owed, Rebuild, CostInv, WithinRange
    <3>2. CASE d = job[w].day
      <4>1. CASE job'[w].day = job[w].day
        BY <2>3, <3>1, <4>1 DEF Settled, Owed, Rebuild
      <4> QED BY <3>2, <4>1 DEF Settled
    <3>3. CASE d # job[w].day
      <4>1. job'[w].day <= d
        BY <1>t, <2>0, <3>1, <3>3
      <4> QED BY <2>3, <3>1, <4>1 DEF Settled, Owed, Rebuild
    <3> QED BY <3>2, <3>3
  <2> QED BY <1>1, <2>1, <2>2, <2>3 DEF Settled
<1>2. CASE job[w].pc # "seal"
  <2>1. \A u \in Worker : job'[u] = job[u] \/ job'[u].pc \notin {"seal", "mark"}
    BY <1>2
  <2> QED BY <1>1, <2>1, SettledStays
<1>3. CASE job[w].pc = "seal"
  <2>1. ASSUME faults = 0, NEW d \in Days, d < job'[w].day, d <= job'[w].to PROVE Settled(d)'
    <3>1. CASE d < job[w].day
      BY <1>1, <1>3, <2>1, <3>1 DEF CostInv, SettledBehind
    <3>2. CASE ~(d < job[w].day)
      <4>1. d = job[w].day /\ job'[w].day = job[w].day + 1
        BY <1>t, <2>1, <3>2
      <4> QED BY <4>1 DEF Settled
    <3> QED BY <3>1, <3>2
  <2>2. ASSUME faults = 0, NEW u \in Worker, u # w
        PROVE  /\ job'[u].pc = "seal" =>
                      \A d \in Days : d < job'[u].day /\ d <= job'[u].to => Settled(d)'
               /\ job'[u].pc = "mark" =>
                      /\ \A d \in Days : d <= job'[u].base - sealLag => Settled(d)'
                      /\ (tod # 0 /\ ~job'[u].aged) \/ job'[u].base = today - 1 =>
                            \A d \in Days : d <= job'[u].base - 1 => Settled(d)'
    BY <1>1, <2>2 DEF CostInv, SettledBehind
  <2>3. faults = 0 => \A d \in Days : d <= watermark => Settled(d)'
    BY <1>1 DEF CostInv, SettledBehind
  <2> QED BY <1>3, <2>1, <2>2, <2>3 DEF SettledBehind
<1> QED BY <1>2, <1>3

\* Every statement of a pass.
LEMMA PassSettled ==
    ASSUME IInv, CostInv, faults' = 0 => faults = 0, NEW w \in Worker, PassStep(w), rec' = rec
    PROVE  SettledBehind'
<1> DEFINE j == job[w]
<1>t. /\ today \in Int /\ today > 2 /\ watermark \in 0 .. LastDay /\ Days = 1 .. LastDay
      /\ j.day \in 0 .. LastDay + 1 /\ j.to \in 0 .. LastDay /\ j.base \in 0 .. LastDay
      /\ job \in [Worker -> Job] /\ "recompute" \in Worker
      /\ daily \in [Days -> AggRow] /\ LastDay \in Int
  BY Fields, CalendarAssumption DEF Days
<1>r. Running(w) /\ \A u \in Worker : u # w => job'[u] = job[u] /\ job[u].pc \in {"idle", "boot"}
  <2>1. Running(w)
    BY DEF PassStep, CountDay, WriteDay, Watermarked, Seal, EndRange, Backfill, MarkAll,
       Finished, Running, IInv, CountedInLoop
  <2>2. \A u \in Worker : u # w => job'[u] = job[u]
    BY <1>t DEF PassStep, CountDay, WriteDay, Watermarked, Seal, EndRange, Backfill, MarkAll, Release
  <2> QED BY <2>1, <2>2 DEF IInv, LockHeld, Running
<1>i. faults = 0 => \A d \in Days : d <= watermark => Settled(d)
  BY DEF CostInv, SettledBehind
<1>1. CASE CountDay(w)
  <2>1. /\ j.pc \in {"roll", "seal", "range"} /\ j.day <= j.to
        /\ UNCHANGED <<today, tod, phase, at, priced, daily, watermark>>
    BY <1>1 DEF CountDay, DayLeft, storeVars
  <2>2. /\ job'[w].pc = j.pc /\ job'[w].to = j.to
        /\ job'[w].day = j.day \/ (job'[w].day = j.day + 1 /\ RowsOf(j.day) = {})
    BY <1>1, <1>t DEF CountDay, Pass
  <2>3. \A d \in Days : CostExact(d)' <=> CostExact(d)
    BY <2>1, CostFrame
  <2>4. job'[w].day = j.day + 1 => \A d \in Days : d = j.day => CostExact(d)'
    BY <1>t, <2>2, <2>3, EmptyIsExact
  <2> QED BY <1>r, <2>1, <2>2, <2>3, <2>4, LoopSettled
<1>2. CASE WriteDay(w)
  <2>1. /\ j.pc \in {"roll", "seal", "range"}
        /\ UNCHANGED <<today, tod, phase, at, priced, watermark>>
        /\ daily' = [daily EXCEPT ![j.day] = Summed(j.day)]
        /\ job'[w].pc = j.pc /\ job'[w].to = j.to /\ job'[w].day = j.day + 1
    BY <1>2, <1>t DEF WriteDay, RebuildTx, Pass, IInv, CountedInLoop
  <2>2. \A d \in Days : CostExact(d) \/ d = j.day => CostExact(d)'
    BY <1>t, <2>1 DEF CostExact, Purged, RowsOf, Rows, Summed
  <2> QED BY <1>r, <2>1, <2>2, LoopSettled
<1>3. CASE Watermarked(w)
  <2>1. UNCHANGED <<today, tod, phase, at, priced, daily, watermark>> /\ j.pc = "roll"
    BY <1>3 DEF Watermarked, storeVars, Finished
  <2>2. w # "recompute"
    BY <2>1 DEF CostInv, WithinRange, Rebuild
  <2>3. \A d \in Days : Settled(d)' <=> Settled(d)
    BY <1>r, <1>t, <2>1, <2>2, CostFrame DEF Settled, Owed, Rebuild
  <2>4. CASE job'[w].pc = "idle"
    <3>1. \A u \in Worker : job'[u] = job[u] \/ job'[u].pc \notin {"seal", "mark"}
      BY <1>r, <2>4
    <3> QED BY <2>1, <2>3, <3>1, SettledStays
  <2>5. CASE job'[w].pc = "seal" /\ job'[w].day = watermark + 1
    <3>1. \A d \in Days : d < watermark + 1 => d <= watermark
      BY <1>t
    <3>2. \A u \in Worker : u # w => job'[u].pc \notin {"seal", "mark"}
      BY <1>r
    <3> QED BY <1>i, <2>1, <2>3, <2>5, <3>1, <3>2 DEF SettledBehind
  <2>6. \/ job'[w].pc = "idle"
        \/ job'[w].pc = "seal" /\ job'[w].day = watermark + 1
    BY <1>3, <1>t DEF Watermarked, FirstUnsealed, Release, Pass, Idle
  <2> QED BY <2>4, <2>5, <2>6
<1>4. CASE Seal(w)
  <2>1. /\ UNCHANGED <<today, tod, phase, at, priced, daily>> /\ j.pc = "seal" /\ j.day > j.to
        /\ watermark' = j.base - sealLag /\ j.to = j.base - sealLag /\ job'[w].pc = "idle"
    BY <1>4, <1>t DEF Seal, Finished, Release, Idle, Pass, IInv, PassProgress
  <2>2. w # "recompute"
    BY <2>1 DEF CostInv, WithinRange, Rebuild
  <2>3. \A d \in Days : Settled(d)' <=> Settled(d)
    BY <1>r, <1>t, <2>1, <2>2, CostFrame DEF Settled, Owed, Rebuild
  <2>4. faults = 0 => \A d \in Days : d <= j.to => Settled(d)
    <3>1. ASSUME NEW d \in Days, d <= j.to PROVE d < j.day
      <4>1. d \in Int /\ j.to \in Int /\ j.day \in Int /\ j.day > j.to
        BY <1>t, <2>1
      <4> QED BY <3>1, <4>1
    <3> QED BY <2>1, <3>1 DEF CostInv, SettledBehind
  <2>5. \A u \in Worker : job'[u].pc \notin {"seal", "mark"}
    BY <1>r, <2>1
  <2> QED BY <2>1, <2>3, <2>4, <2>5 DEF SettledBehind
<1>5. CASE EndRange(w)
  <2>1. /\ UNCHANGED <<today, tod, phase, at, priced, daily, watermark>>
        /\ j.pc = "range" /\ j.day > j.to /\ job'[w].pc = "idle"
    BY <1>5, <1>t DEF EndRange, Finished, Release, Idle, Pass, storeVars
  <2>2. ASSUME NEW d \in Days, Settled(d) PROVE Settled(d)'
    <3>1. Owed(d) => Owed(d)'
      <4>1. CASE w = "recompute"
        <5>1. d \in Int /\ rec.pc # "scan"
          BY <1>t, <2>1, <4>1 DEF CostInv, WithinRange, Rebuild
        <5> QED BY <1>t, <2>1, <4>1, <5>1 DEF Owed, Rebuild
      <4>2. CASE w # "recompute"
        BY <1>r, <1>t, <4>2 DEF Owed, Rebuild
      <4> QED BY <4>1, <4>2
    <3> QED BY <2>1, <2>2, <3>1, CostFrame DEF Settled
  <2>3. \A u \in Worker : job'[u] = job[u] \/ job'[u].pc \notin {"seal", "mark"}
    BY <1>r, <2>1
  <2> QED BY <2>1, <2>2, <2>3, SettledStays
<1>6. CASE Backfill(w)
  <2>1. /\ UNCHANGED <<today, tod, phase, at, priced, watermark>> /\ BackfillAll
        /\ job'[w].pc = "mark"
    BY <1>6, <1>t DEF Backfill, Pass
  <2>2. \A d \in Days : CostExact(d)'
    BY <2>1 DEF BackfillAll, CostExact, Summed, NoRow, RowsOf, Rows
  <2> QED BY <2>2 DEF SettledBehind, Settled
<1>7. CASE MarkAll(w)
  <2>1. /\ UNCHANGED <<today, tod, phase, at, priced, daily>> /\ j.pc = "mark"
        /\ watermark' = today - sealLag /\ job'[w].pc = "idle"
    BY <1>7, <1>t DEF MarkAll, Release, Idle, Pass
  <2>2. \A d \in Days : Settled(d) => Settled(d)'
    BY <1>r, <1>t, <2>1, CostFrame DEF Settled, Owed, Rebuild, CostInv, WithinRange
  <2>3. faults = 0 => \A d \in Days : d <= today - sealLag => Settled(d)
    <3>1. j.base = today \/ j.base = today - 1
      BY <1>r DEF IInv, BaseIsFresh
    <3>2. CASE j.base = today
      BY <2>1, <3>2 DEF CostInv, SettledBehind
    <3>3. CASE j.base = today - 1
      <4>1. j.base - 1 = today - sealLag
        BY <1>t, <3>3
      <4> QED BY <2>1, <3>3, <4>1 DEF CostInv, SettledBehind
    <3> QED BY <3>1, <3>2, <3>3
  <2>4. \A u \in Worker : job'[u].pc \notin {"seal", "mark"}
    BY <1>r, <2>1
  <2> QED BY <2>1, <2>2, <2>3, <2>4 DEF SettledBehind
<1> QED BY <1>1, <1>2, <1>3, <1>4, <1>5, <1>6, <1>7 DEF PassStep
\* A recomputation owes the rebuild of what it changes from the moment it
\* changes it.
LEMMA RecomputeSettled ==
    ASSUME IInv, CostInv, faults' = 0 => faults = 0, Recompute
    PROVE  SettledBehind'
<1>1. UNCHANGED <<today, tod, phase, at, daily, watermark>>
  BY DEF Recompute, StartRecompute, RecomputeRow, RecomputeError, EndRecompute, storeVars
<1>t. Days \subseteq Int /\ \A i \in LogId : at[i].day \in Int
  BY Fields
<1>2. CASE StartRecompute
  <2>1. rec.pc = "idle" /\ UNCHANGED <<priced, job>>
    BY <1>2 DEF StartRecompute, storeVars, aggVars
  <2>2. \A d \in Days : Settled(d) => Settled(d)'
    BY <1>1, <2>1, CostFrame DEF Settled, Owed, Rebuild
  <2> QED BY <1>1, <2>1, <2>2, SettledStays
<1>3. ASSUME NEW i \in LogId, RecomputeRow(i) PROVE SettledBehind'
  <2>1. /\ rec.pc = "scan" /\ i \in rec.todo /\ UNCHANGED job
        /\ rec'.pc = "scan" /\ rec'.from = rec.from /\ rec'.to = rec.to
        /\ rec.updated => rec'.updated
        /\ \A k \in LogId : k # i => (k \in priced' <=> k \in priced)
        /\ priced' = priced \/ rec'.updated
    <3>1. PICK cost \in BOOLEAN :
             LET changed == cost # (i \in rec.was) IN
             /\ rec' = Scan(rec.from, rec.to, rec.todo \ {i}, rec.was, rec.updated \/ changed)
             /\ priced' = IF ~changed THEN priced
                          ELSE IF cost THEN priced \cup ({i} \cap Rows) ELSE priced \ {i}
      BY <1>3 DEF RecomputeRow
    <3>2. rec.pc = "scan" /\ i \in rec.todo /\ UNCHANGED job
      BY <1>3 DEF RecomputeRow, aggVars
    <3>3. /\ rec'.pc = "scan" /\ rec'.from = rec.from /\ rec'.to = rec.to
          /\ rec'.updated = (rec.updated \/ (cost # (i \in rec.was)))
      BY <3>1 DEF Scan
    <3>4. \A k \in LogId : k # i => (k \in priced' <=> k \in priced)
      BY <3>1
    <3> QED BY <3>1, <3>2, <3>3, <3>4
  <2>2. at[i].day \in rec.from .. rec.to
    BY <2>1 DEF CostInv, WithinRange
  <2>3. ASSUME NEW d \in Days, Settled(d) PROVE Settled(d)'
    <3>1. Owed(d) => Owed(d)'
      BY <2>1 DEF Owed, Rebuild
    <3>2. CASE priced' = priced
      BY <1>1, <2>3, <3>1, <3>2, CostFrame DEF Settled
    <3>3. CASE rec'.updated /\ at[i].day = d
      <4>1. rec.from <= d /\ d <= rec.to
        BY <1>t, <2>2, <3>3 DEF Recomputation
      <4> QED BY <2>1, <3>3, <4>1 DEF Settled, Owed
    <3>4. CASE at[i].day # d
      <4>1. (RowsOf(d) \cap priced)' = RowsOf(d) \cap priced
        BY <1>1, <2>1, <3>4 DEF RowsOf, Rows
      <4>2. CostExact(d)' <=> CostExact(d)
        BY <1>1, <4>1 DEF CostExact, Purged, RowsOf, Rows
      <4> QED BY <2>3, <3>1, <4>2 DEF Settled
    <3> QED BY <2>1, <3>2, <3>3, <3>4
  <2> QED BY <1>1, <2>1, <2>3, SettledStays
<1>4. CASE RecomputeError
  <2>1. faults \in Nat /\ faults' = faults + 1
    BY <1>4, LifecycleAssumption DEF RecomputeError, Fault, IInv, TypeOK
  <2> QED BY <2>1 DEF SettledBehind
<1>5. CASE EndRecompute
  <2>0. rec.pc = "scan" /\ rec'.pc = "idle" /\ UNCHANGED priced
    BY <1>5 DEF EndRecompute, RecIdle, storeVars
  <2>1. CASE rec.updated /\ Serving
    <3>1. /\ \A w \in Worker : w # "recompute" => job'[w] = job[w]
          /\ \/ Rebuild'.pc = "full"
             \/ Rebuild'.pc = "range" /\ Rebuild'.day = rec.from /\ Rebuild'.to = rec.to
      BY <1>5, <2>1, EndRecomputeJob
    <3>2. ASSUME NEW d \in Days, Settled(d) PROVE Settled(d)'
      <4>1. Rebuild.pc = "idle"
        BY <2>0 DEF CostInv, WithinRange
      <4>2. Owed(d) => Owed(d)'
        BY <3>1, <4>1 DEF Owed
      <4> QED BY <1>1, <2>0, <3>2, <4>2, CostFrame DEF Settled
    <3>3. \A w \in Worker : job'[w] = job[w] \/ job'[w].pc \notin {"seal", "mark"}
      BY <3>1 DEF Rebuild
    <3> QED BY <1>1, <3>2, <3>3, SettledStays
  <2>2. CASE ~rec.updated
    <3>1. UNCHANGED job
      BY <1>5, <2>2, EndRecomputeJob
    <3>2. \A d \in Days : Settled(d) => Settled(d)'
      BY <1>1, <2>0, <2>2, <3>1, CostFrame DEF Settled, Owed, Rebuild
    <3> QED BY <1>1, <3>1, <3>2, SettledStays
  <2>3. CASE ~Serving
    <3>1. UNCHANGED job
      BY <1>5, <2>3, EndRecomputeJob
    <3>2. faults = 0 => watermark = 0 /\ \A w \in Worker : ~Running(w)
      BY <2>3 DEF CostInv, NothingSealedYet
    <3>3. \A d \in Days : ~(d <= 0)
      BY DEF Days
    <3> QED BY <1>1, <3>1, <3>2, <3>3 DEF SettledBehind, Running
  <2> QED BY <2>1, <2>2, <2>3
<1> QED BY <1>2, <1>3, <1>4, <1>5 DEF Recompute

\* Time passes: as in ClockParts.
LEMMA ClockSettled ==
    ASSUME IInv, CostInv, faults' = 0 => faults = 0, Clock
    PROVE  SettledBehind'
<1> USE CalendarAssumption
<1>1. UNCHANGED <<phase, at, priced, daily, watermark, rec>>
  BY DEF Clock
<1>2. /\ job \in [Worker -> Job] /\ today \in Int /\ tod \in 0 .. TicksPerDay - 1
      /\ Days \subseteq Int /\ \A w \in Worker : job[w].base \in Int
  BY Fields
<1>3. \/ tod' = tod + 1 /\ today' = today
      \/ tod' = 0 /\ today' = today + 1 /\ tod # 0
  BY <1>2 DEF Clock
<1>4. \A w \in Worker : /\ job'[w].pc = job[w].pc /\ job'[w].day = job[w].day
                        /\ job'[w].to = job[w].to /\ job'[w].base = job[w].base
                        /\ Running(w) => job'[w].aged /\ ~job[w].aged
  <2> TAKE w \in Worker
  <2>1. CASE Running(w)
    <3>1. job'[w] = Pass(job[w].pc, job[w].day, job[w].to, job[w].base, job[w].counted, TRUE)
      BY <2>1 DEF Clock
    <3> QED BY <2>1, <3>1 DEF Clock, Pass
  <2>2. CASE ~Running(w)
    BY <2>2 DEF Clock
  <2> QED BY <2>1, <2>2
<1>5. \A w \in Worker : Running(w) => job[w].base = today
  BY <1>4 DEF IInv, BaseIsFresh
<1>6. \A d \in Days : Settled(d)' <=> Settled(d)
  <2>1. "recompute" \in Worker
    BY DEF Worker
  <2> QED BY <1>1, <1>4, <2>1, CostFrame DEF Settled, Owed, Rebuild
<1>7. ASSUME faults = 0, NEW w \in Worker, job'[w].pc = "mark",
             (tod' # 0 /\ ~job'[w].aged) \/ job'[w].base = today' - 1
      PROVE  \A d \in Days : d <= job'[w].base - 1 => Settled(d)'
  <2>1. job[w].pc = "mark" /\ job[w].base = today /\ job'[w].aged /\ ~job[w].aged
    BY <1>4, <1>5, <1>7 DEF Running
  <2>2. tod # 0
    BY <1>2, <1>3, <1>4, <1>7, <2>1
  <2>3. \A d \in Days : d <= job[w].base - 1 => Settled(d)
    BY <1>7, <2>1, <2>2 DEF CostInv, SettledBehind
  <2> QED BY <1>4, <1>6, <2>3
<1>8. ASSUME faults = 0, NEW w \in Worker
      PROVE  /\ job'[w].pc = "seal" =>
                    \A d \in Days : d < job'[w].day /\ d <= job'[w].to => Settled(d)'
             /\ job'[w].pc = "mark" => \A d \in Days : d <= job'[w].base - sealLag => Settled(d)'
  BY <1>4, <1>6, <1>8 DEF CostInv, SettledBehind
<1>9. faults = 0 => \A d \in Days : d <= watermark' => Settled(d)'
  BY <1>1, <1>6 DEF CostInv, SettledBehind
<1> QED BY <1>7, <1>8, <1>9 DEF SettledBehind

LEMMA StepSettled == IInv /\ CostInv /\ [Next]_vars => SettledBehind'
<1> SUFFICES ASSUME IInv, CostInv, [Next]_vars PROVE SettledBehind'
  OBVIOUS
<1>f. faults' = 0 => faults = 0
  BY FaultsStay
<1>t. job \in [Worker -> Job] /\ "recompute" \in Worker /\ phase \in [LogId -> Phases] /\ faults \in Nat
  BY Fields, LifecycleAssumption DEF IInv, TypeOK
<1>1. CASE Gateway
  BY <1>1, <1>f, GatewaySettled
<1>2. CASE Recompute
  BY <1>2, <1>f, RecomputeSettled
<1>3. CASE Aggregate
  <2>0. rec' = rec
    BY <1>3 DEF Aggregate
  <2>1. CASE EnsureBackfill \/ TickOnce \/ (\E n \in RebuildDays : RebuildAggregate(n))
    <3>1. UNCHANGED <<today, tod, phase, at, priced, daily, watermark>>
      BY <2>1 DEF EnsureBackfill, TickOnce, RebuildAggregate, storeVars
    <3>2. /\ job'["recompute"] = job["recompute"]
          /\ \A w \in Worker : job'[w] = job[w] \/ job'[w].pc \notin {"seal", "mark"}
      BY <1>t, <2>1 DEF EnsureBackfill, TickOnce, RebuildAggregate, RebuildRange, Begin, Idle, Pass
    <3> QED BY <1>f, <2>0, <3>1, <3>2, CostFrame, ExactStays
  <2>2. ASSUME NEW w \in Worker, PassStep(w) PROVE SettledBehind'
    BY <1>f, <2>0, <2>2, PassSettled
  <2> QED BY <1>3, <2>1, <2>2 DEF Aggregate
<1>4. CASE Retention
  <2>1. UNCHANGED <<today, tod, at, daily, watermark, rec, job>>
    BY <1>4 DEF Retention, RunIfDue, Trigger, DeleteBefore, Finish, storeVars, aggVars
  <2>2. \A d \in Days : CostExact(d) => CostExact(d)'
    <3>1. CASE DeleteBefore
      <4>1. PICK batch \in DeleteBatch(ret.cutoff, BatchSize) :
               /\ phase' = [i \in LogId |-> IF i \in batch THEN "deleted" ELSE phase[i]]
               /\ priced' = priced \ batch
        BY <3>1 DEF DeleteBefore
      <4>2. batch \subseteq Rows
        BY DEF DeleteBatch, RowsBefore
      <4> QED BY <1>t, <2>1, <4>1, <4>2 DEF CostExact, Purged, RowsOf, Rows
    <3>2. CASE ~DeleteBefore
      <4>1. UNCHANGED <<phase, priced>>
        BY <1>4, <3>2 DEF Retention, RunIfDue, Trigger, Finish, storeVars
      <4> QED BY <2>1, <4>1, CostFrame
    <3> QED BY <3>1, <3>2
  <2> QED BY <1>f, <2>1, <2>2, ExactStays
<1>5. CASE AggregateFails \/ RetentionFails \/ Crash
  <2>1. faults' = faults + 1
    BY <1>5 DEF AggregateFails, RetentionFails, Crash, Fault
  <2> QED BY <1>t, <2>1 DEF SettledBehind
<1>6. CASE Clock
  BY <1>6, <1>f, ClockSettled
<1>7. CASE Restart \/ Wire \/ UNCHANGED vars
  <2>1. UNCHANGED <<today, tod, phase, at, priced, daily, watermark, rec, job>>
    BY <1>7 DEF Restart, Wire, vars, storeVars, aggVars
  <2> QED BY <1>f, <2>1, CostFrame, ExactStays
<1> QED BY <1>1, <1>2, <1>3, <1>4, <1>5, <1>6, <1>7 DEF Next

LEMMA InductiveCost == Spec => [](IInv /\ CostInv)
<1>1. IInv /\ CostInv /\ [Next]_vars => CostInv'
  BY StepWithin, StepPriced, StepNothing, StepSettled DEF CostInv
<1> QED BY <1>1, Inductive, InitCost, PTL DEF Spec

-----------------------------------------------------------------------------
\* Unless something failed, the cost of a sealed day is the cost of its rows
\* whenever no recomputation and no rebuild of one is in progress: whatever
\* was sealed, rebuilt, logged or deleted between its updates (Recompute,
\* postRecompute, RebuildRange).
THEOREM CostsSealed == Spec => []SealedCostExact
<1>1. IInv /\ CostInv => SealedCostExact
  <2> SUFFICES ASSUME IInv, CostInv, faults = 0, rec.pc = "idle", Rebuild.pc = "idle",
                      NEW d \in Days, d <= watermark, ~Purged(d)
               PROVE  daily[d].priced = RowsOf(d) \cap priced
    BY DEF SealedCostExact, Summed, Rebuild
  <2> QED BY DEF CostInv, SettledBehind, Settled, Owed, CostExact
<1> QED BY <1>1, InductiveCost, PTL
=============================================================================
