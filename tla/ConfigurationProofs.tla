------------------------- MODULE ConfigurationProofs -------------------------
(***************************************************************************)
(* Proofs about Configuration, for any number of callers, calls, faults    *)
(* and crashes and whatever the tables hold: a valid cache of prices, of   *)
(* the rate or of the headers, and the calendar, hold what their table     *)
(* says; a synchronisation leaves manual prices alone; a deleted row of    *)
(* the directory does not come back; and a request is billed what the      *)
(* tables say it costs.  The last rests on lemmas about the index and the  *)
(* rates of Pricing, which hold of every table, calendar and request.      *)
(***************************************************************************)
EXTENDS Configuration, Sums, TLAPS

-----------------------------------------------------------------------------
\* The inductive invariant.

\* The caches that are invalidated on every write, and the calls that do it.
Watched == {"price", "rate", "headers"}

OpsOf(k) == IF k = "headers" THEN {"CreateHeader", "SaveHeader", "DeleteHeader"} ELSE CostOps

Owes(c, k) == calls[c].op \in OpsOf(k) /\ calls[c].step \in {"reread", "invalidate"}

\* What the table of k says, or somebody still has to invalidate: true of what
\* is served and of what a refill under way is about to store.
Vouched(e, k) ==
    ~e.stale /\ e.loaded /\ ~e.short => e.val = Stored(k) \/ \E c \in Callers : Owes(c, k)

IsEntry(e) == {"loaded", "val", "stale", "short"} \subseteq DOMAIN e

\* A refill holds the lock of its cache.
Filled(l) == filling[l] # Free => /\ filling[l].kind \in Kinds /\ Lock(filling[l].kind) = l
                                  /\ IsEntry(filling[l].next)

CachesOK ==
    /\ DOMAIN cache = Kinds /\ \A k \in Kinds : IsEntry(cache[k])
    /\ DOMAIN filling = Locks /\ \A l \in Locks : Filled(l)

Promises ==
    \A k \in Watched :
        /\ Vouched(cache[k], k)
        /\ filling[Lock(k)] # Free /\ filling[Lock(k)].kind = k => Vouched(filling[Lock(k)].next, k)

\* Only an updated rule is read back, and a holiday synchronisation does not
\* write the way the other calls do.
IsCall(call) ==
    /\ "op" \in DOMAIN call /\ "step" \in DOMAIN call
    /\ call.step = "reread" => call.op = "UpdateRule"
    /\ call.op = "SyncHolidays" => call.step \in {"fetch", "reload"}

CallsOK == DOMAIN calls = Callers /\ \A c \in Callers : IsCall(calls[c])

CalendarCurrent ==
    /\ "failed" \in DOMAIN calendar
    /\ calendar.failed \/ Running("SyncHolidays") \/ calendar.val = AllHolidays

CInv == CallsOK /\ CachesOK /\ Promises /\ CalendarCurrent

-----------------------------------------------------------------------------
\* Calls.

LEMMA BeginCall ==
    ASSUME CallsOK, NEW c \in Callers, NEW call, Begin(c, call)
    PROVE  /\ calls[c] = Idle /\ calls'[c] = call /\ DOMAIN calls' = Callers
           /\ \A d \in Callers : d # c => calls'[d] = calls[d]
  BY DEF Begin, CallsOK

LEMMA ReturnCall ==
    ASSUME CallsOK, NEW c \in Callers, Return(c)
    PROVE  /\ calls'[c] = Idle /\ DOMAIN calls' = Callers
           /\ \A d \in Callers : d # c => calls'[d] = calls[d]
  BY DEF Return, CallsOK

LEMMA ProceedCall ==
    ASSUME CallsOK, NEW c \in Callers, NEW step, Proceed(c, step)
    PROVE  /\ DOMAIN calls' = Callers /\ DOMAIN calls'[c] = DOMAIN calls[c]
           /\ calls'[c].op = calls[c].op /\ calls'[c].step = step
           /\ \A d \in Callers : d # c => calls'[d] = calls[d]
<1>1. DOMAIN calls = Callers /\ "op" \in DOMAIN calls[c] /\ "step" \in DOMAIN calls[c]
  BY DEF CallsOK, IsCall
<1>2. calls' = [calls EXCEPT ![c].step = step]
  BY DEF Proceed
<1>3. calls'[c] = [calls[c] EXCEPT !.step = step] /\ DOMAIN calls' = Callers
  BY <1>1, <1>2
<1>4. \A d \in Callers : d # c => calls'[d] = calls[d]
  BY <1>1, <1>2
<1> QED BY <1>1, <1>3, <1>4

LEMMA IdleIsCall == IsCall(Idle) /\ \A k : Idle.op \notin OpsOf(k)
  BY DEF IsCall, Idle, OpsOf, CostOps

LEMMA TableFrame ==
    /\ prices' = prices => Stored("price")' = Stored("price")
    /\ billing' = billing => Stored("rate")' = Stored("rate")
    /\ headers' = headers => Stored("headers")' = Stored("headers")
  BY DEF Stored, PriceRows

LEMMA CalendarFrame == holidays' = holidays => AllHolidays' = AllHolidays
  BY DEF AllHolidays, Dates

\* What is owed for a cache stays owed if the one caller that moves owes on.
LEMMA StillOwed ==
    ASSUME NEW c \in Callers, NEW k \in Watched, Owes(c, k) => Owes(c, k)',
           \A d \in Callers : d # c => calls'[d] = calls[d]
    PROVE  (\E d \in Callers : Owes(d, k)) => \E x \in Callers : Owes(x, k)'
<1>1. ASSUME NEW d \in Callers, Owes(d, k) PROVE \E x \in Callers : Owes(x, k)'
  <2>1. CASE d = c
    BY <1>1, <2>1
  <2>2. CASE d # c
    <3>1. Owes(d, k)'
      BY <1>1, <2>2 DEF Owes
    <3> QED BY <3>1
  <2> QED BY <2>1, <2>2
<1> QED BY <1>1

\* One caller moves: it keeps owing what it owed, owes what it changed, and a
\* synchronisation of the calendar goes on.
LEMMA CallerMoves ==
    ASSUME CInv, NEW c \in Callers,
           DOMAIN calls' = Callers, \A d \in Callers : d # c => calls'[d] = calls[d],
           IsCall(calls'[c]), UNCHANGED <<cache, filling, calendar>>,
           \A k \in Watched : \/ Stored(k)' = Stored(k) /\ (Owes(c, k) => Owes(c, k)')
                              \/ Owes(c, k)',
           \/ calls'[c].op = "SyncHolidays"
           \/ calls[c].op # "SyncHolidays" /\ AllHolidays' = AllHolidays
    PROVE  CInv'
<1>1. CallsOK'
  BY DEF CInv, CallsOK
<1>2. CachesOK'
  BY DEF CInv, CachesOK, Filled
<1>3. CalendarCurrent'
  BY DEF CInv, CalendarCurrent, Running
<1>4. ASSUME NEW k \in Watched
      PROVE  /\ (\E d \in Callers : Owes(d, k)) => \E x \in Callers : Owes(x, k)'
             /\ Stored(k)' = Stored(k) \/ \E x \in Callers : Owes(x, k)'
  <2>1. (Owes(c, k) => Owes(c, k)') \/ Owes(c, k)'
    BY <1>4
  <2> QED BY <1>4, <2>1, StillOwed
<1>5. Promises'
  BY <1>4 DEF CInv, Promises, Vouched
<1> QED BY <1>1, <1>2, <1>3, <1>5 DEF CInv
\* A call begins: it has written nothing yet.
LEMMA BeginQuiet ==
    ASSUME CInv, NEW c \in Callers, NEW call, Begin(c, call), IsCall(call),
           UNCHANGED <<tables, caches>>
    PROVE  CInv'
<1>1. /\ calls[c] = Idle /\ calls'[c] = call /\ DOMAIN calls' = Callers
      /\ \A d \in Callers : d # c => calls'[d] = calls[d]
  BY BeginCall DEF CInv
<1>2. UNCHANGED <<cache, filling, calendar, prices, billing, headers, holidays>>
  BY DEF tables, caches
<1>3. \A k \in Watched : Stored(k)' = Stored(k)
  BY <1>2, TableFrame DEF Watched
<1>4. \A k \in Watched : ~Owes(c, k)
  BY <1>1, IdleIsCall DEF Owes
<1>5. calls[c].op # "SyncHolidays" /\ AllHolidays' = AllHolidays
  BY <1>1, <1>2, CalendarFrame DEF Idle
<1> QED BY <1>1, <1>2, <1>3, <1>4, <1>5, CallerMoves

\* A call writes the tables it will invalidate the caches of.
LEMMA WriteOwed ==
    ASSUME CInv, NEW c \in Callers, Proceed(c, "invalidate"),
           calls[c].op # "SyncHolidays", UNCHANGED <<holidays, caches>>,
           \A k \in Watched : Stored(k)' = Stored(k) \/ calls[c].op \in OpsOf(k)
    PROVE  CInv'
<1>1. /\ DOMAIN calls' = Callers /\ DOMAIN calls'[c] = DOMAIN calls[c]
      /\ calls'[c].op = calls[c].op /\ calls'[c].step = "invalidate"
      /\ \A d \in Callers : d # c => calls'[d] = calls[d]
  BY ProceedCall DEF CInv
<1>2. IsCall(calls'[c])
  BY <1>1 DEF CInv, CallsOK, IsCall
<1>3. \A k \in Watched : calls[c].op \in OpsOf(k) => Owes(c, k)'
  BY <1>1 DEF Owes, OpsOf
<1>4. \A k \in Watched : Owes(c, k) => Owes(c, k)'
  BY <1>3 DEF Owes
<1>5. UNCHANGED <<cache, filling, calendar>> /\ AllHolidays' = AllHolidays
  BY CalendarFrame DEF caches
<1> QED BY <1>1, <1>2, <1>3, <1>4, <1>5, CallerMoves

\* A call that owes nothing ends.
LEMMA ReturnQuiet ==
    ASSUME CInv, NEW c \in Callers, Return(c),
           calls[c].op # "SyncHolidays", UNCHANGED <<holidays, caches>>,
           \A k \in Watched : Stored(k)' = Stored(k) /\ ~Owes(c, k)
    PROVE  CInv'
<1>1. /\ calls'[c] = Idle /\ DOMAIN calls' = Callers
      /\ \A d \in Callers : d # c => calls'[d] = calls[d]
  BY ReturnCall DEF CInv
<1>2. UNCHANGED <<cache, filling, calendar>> /\ AllHolidays' = AllHolidays
  BY CalendarFrame DEF caches
<1> QED BY <1>1, <1>2, IdleIsCall, CallerMoves

\* A call in its writing step owes nothing, nor does one on rules or rows.
LEMMA WritingOwesNothing ==
    ASSUME CInv, NEW c \in Callers,
           \/ calls[c].step \in {"write", "drop", "fetch", "reload"}
           \/ calls[c].op \in {"CreateRule", "UpdateRule", "DeleteRule"}
           \/ calls[c].step = "reread"
    PROVE  \A k \in Watched : ~Owes(c, k)
<1>1. calls[c].step = "reread" => calls[c].op = "UpdateRule"
  BY DEF CInv, CallsOK, IsCall
<1> QED BY <1>1 DEF Owes, OpsOf, CostOps

\* An invalidation waits for the refill under way, and then nothing valid is left.
LEMMA Invalidates ==
    ASSUME CInv, NEW c \in Callers, NEW l \in Locks, invalidate(l), Return(c),
           calls[c].op # "SyncHolidays", \A k \in Watched : Owes(c, k) => Lock(k) = l
    PROVE  CInv'
<1>1. /\ calls'[c] = Idle /\ DOMAIN calls' = Callers
      /\ \A d \in Callers : d # c => calls'[d] = calls[d]
  BY ReturnCall DEF CInv
<1>2. /\ filling[l] = Free /\ UNCHANGED <<tables, filling, calendar>>
      /\ cache' = [k \in Kinds |-> IF Lock(k) = l THEN [cache[k] EXCEPT !.stale = TRUE] ELSE cache[k]]
  BY DEF invalidate, invalidateLocked
<1>3. UNCHANGED <<prices, billing, headers, holidays>>
  BY <1>2 DEF tables
<1>4. \A k \in Watched : Stored(k)' = Stored(k)
  BY <1>3, TableFrame DEF Watched
<1>5. CallsOK'
  BY <1>1, IdleIsCall DEF CInv, CallsOK
<1>6. \A k \in Kinds : /\ IsEntry(cache'[k])
                       /\ Lock(k) = l => cache'[k].stale
                       /\ Lock(k) # l => cache'[k] = cache[k]
  BY <1>2 DEF CInv, CachesOK, IsEntry
<1>7. CachesOK'
  BY <1>2, <1>6 DEF CInv, CachesOK, Filled
<1>8. CalendarCurrent'
  BY <1>1, <1>2, <1>3, CalendarFrame DEF CInv, CalendarCurrent, Running
<1>9. Watched \subseteq Kinds
  BY DEF Watched, Kinds
<1>10. ASSUME NEW k \in Watched
       PROVE  /\ Vouched(cache[k], k)'
              /\ (filling[Lock(k)] # Free /\ filling[Lock(k)].kind = k
                      => Vouched(filling[Lock(k)].next, k))'
  <2>1. CASE Lock(k) = l
    BY <1>2, <1>6, <1>9, <2>1 DEF Vouched
  <2>2. CASE Lock(k) # l
    <3>1. (\E d \in Callers : Owes(d, k)) => \E d \in Callers : Owes(d, k)'
      BY <1>1, <2>2, StillOwed
    <3>2. cache'[k] = cache[k]
      BY <1>6, <1>9, <2>2
    <3> QED BY <1>2, <1>4, <3>1, <3>2 DEF CInv, Promises, Vouched
  <2> QED BY <2>1, <2>2
<1>11. Promises'
  BY <1>10 DEF Promises
<1> QED BY <1>5, <1>7, <1>8, <1>11 DEF CInv
-----------------------------------------------------------------------------
\* Every action of the services.

LEMMA CostPreserves ==
    ASSUME CInv, NEW c \in Callers, CostCall(c) \/ CostStep(c)
    PROVE  CInv'
<1>1. CASE CreatePrice(c)
  <2>1. PICK n \in PriceNames, in \in PriceInputs :
           Begin(c, [op |-> "CreatePrice", step |-> "write",
                     row |-> [model |-> n, source |-> "manual", terms |-> applyPriceInput(in)]])
    BY <1>1 DEF CreatePrice
  <2> QED BY <1>1, <2>1, BeginQuiet DEF CreatePrice, IsCall
<1>2. CASE UpdatePrice(c)
  <2>1. PICK i \in DOMAIN prices, in \in PriceInputs :
           Begin(c, [op |-> "UpdatePrice", step |-> "write", id |-> i,
                     row |-> [model |-> prices[i].model, source |-> "manual", terms |-> applyPriceInput(in)]])
    BY <1>2 DEF UpdatePrice
  <2> QED BY <1>2, <2>1, BeginQuiet DEF UpdatePrice, IsCall
<1>3. CASE Sync(c)
  <2>1. PICK feed \in Feeds :
           Begin(c, [op |-> "Sync", step |-> "write", rows |-> {syncedPrice(e) : e \in ParsePricing(feed)}])
    BY <1>3 DEF Sync
  <2> QED BY <1>3, <2>1, BeginQuiet DEF Sync, IsCall
<1>4. CASE UpdateBilling(c)
  <2>1. PICK rate \in ExchangeRates : Begin(c, [op |-> "UpdateBilling", step |-> "write", rate |-> rate])
    BY <1>4 DEF UpdateBilling
  <2> QED BY <1>4, <2>1, BeginQuiet DEF UpdateBilling, IsCall
<1>5. CASE DeletePrice(c)
  <2> DEFINE call == [op |-> "DeletePrice", step |-> "invalidate"]
  <2>1. Begin(c, call) /\ UNCHANGED <<billing, headers, holidays, caches>>
    BY <1>5 DEF DeletePrice
  <2>2. /\ calls[c] = Idle /\ calls'[c] = call /\ DOMAIN calls' = Callers
        /\ \A d \in Callers : d # c => calls'[d] = calls[d]
    BY <2>1, BeginCall DEF CInv
  <2>3. IsCall(calls'[c]) /\ calls[c].op # "SyncHolidays"
    BY <2>2 DEF IsCall, Idle
  <2>4. UNCHANGED <<cache, filling, calendar>> /\ AllHolidays' = AllHolidays
    BY <2>1, CalendarFrame DEF caches
  <2>5. \A k \in Watched : Stored(k)' = Stored(k) \/ Owes(c, k)'
    BY <2>1, <2>2, TableFrame DEF Watched, Owes, OpsOf, CostOps
  <2>6. \A k \in Watched : ~Owes(c, k)
    BY <2>2, IdleIsCall DEF Owes
  <2> QED BY <2>2, <2>3, <2>4, <2>5, <2>6, CallerMoves
<1>6. CASE InvalidateCost(c)
  <2>1. \A k \in Watched : Owes(c, k) => Lock(k) = "cost"
    BY <1>6 DEF InvalidateCost, Owes, OpsOf, CostOps, Watched, Lock
  <2>2. "cost" \in Locks /\ calls[c].op # "SyncHolidays" /\ invalidate("cost") /\ Return(c)
    BY <1>6 DEF InvalidateCost, Locks, CostOps
  <2> QED BY <2>1, <2>2, Invalidates
<1>7. CASE WriteCreatedPrice(c) \/ WriteUpdatedPrice(c) \/ WriteSynced(c) \/ WriteBilling(c)
  <2>1. /\ calls[c].op \in CostOps /\ calls[c].step = "write"
        /\ UNCHANGED <<headers, holidays, caches>>
        /\ Proceed(c, "invalidate") \/ (Return(c) /\ UNCHANGED <<prices, billing>>)
    BY <1>7 DEF WriteCreatedPrice, WriteUpdatedPrice, WriteSynced, WriteBilling, At, CostOps
  <2>2. \A k \in Watched : Stored(k)' = Stored(k) \/ calls[c].op \in OpsOf(k)
    BY <2>1, TableFrame DEF Watched, OpsOf
  <2>3. calls[c].op # "SyncHolidays"
    BY <2>1 DEF CostOps
  <2>4. CASE Proceed(c, "invalidate")
    BY <2>1, <2>2, <2>3, <2>4, WriteOwed
  <2>5. CASE Return(c) /\ UNCHANGED <<prices, billing>>
    <3>1. \A k \in Watched : Stored(k)' = Stored(k) /\ ~Owes(c, k)
      BY <2>1, <2>5, TableFrame, WritingOwesNothing DEF Watched
    <3> QED BY <2>1, <2>3, <2>5, <3>1, ReturnQuiet
  <2> QED BY <2>1, <2>4, <2>5
<1> QED BY <1>1, <1>2, <1>3, <1>4, <1>5, <1>6, <1>7 DEF CostCall, CostStep

LEMMA HeadersPreserve ==
    ASSUME CInv, NEW c \in Callers,
           \/ HeaderCall(c) \/ WriteCreatedHeader(c) \/ WriteSavedHeader(c) \/ InvalidateHeaders(c)
    PROVE  CInv'
<1>1. CASE CreateHeader(c)
  <2>1. PICK key \in HeaderNames : Begin(c, [op |-> "CreateHeader", step |-> "write", key |-> key])
    BY <1>1 DEF CreateHeader
  <2> QED BY <1>1, <2>1, BeginQuiet DEF CreateHeader, IsCall
<1>2. CASE SaveHeader(c)
  <2>1. PICK i \in DOMAIN headers, on \in BOOLEAN :
           Begin(c, [op |-> "SaveHeader", step |-> "write", id |-> i,
                     row |-> [headers[i] EXCEPT !.enabled = on]])
    BY <1>2 DEF SaveHeader
  <2> QED BY <1>2, <2>1, BeginQuiet DEF SaveHeader, IsCall
<1>3. CASE DeleteHeader(c)
  <2> DEFINE call == [op |-> "DeleteHeader", step |-> "invalidate"]
  <2>1. Begin(c, call) /\ UNCHANGED <<prices, billing, holidays, caches>>
    BY <1>3 DEF DeleteHeader
  <2>2. /\ calls[c] = Idle /\ calls'[c] = call /\ DOMAIN calls' = Callers
        /\ \A d \in Callers : d # c => calls'[d] = calls[d]
    BY <2>1, BeginCall DEF CInv
  <2>3. IsCall(calls'[c]) /\ calls[c].op # "SyncHolidays"
    BY <2>2 DEF IsCall, Idle
  <2>4. UNCHANGED <<cache, filling, calendar>> /\ AllHolidays' = AllHolidays
    BY <2>1, CalendarFrame DEF caches
  <2>5. \A k \in Watched : Stored(k)' = Stored(k) \/ Owes(c, k)'
    BY <2>1, <2>2, TableFrame DEF Watched, Owes, OpsOf
  <2>6. \A k \in Watched : ~Owes(c, k)
    BY <2>2, IdleIsCall DEF Owes
  <2> QED BY <2>2, <2>3, <2>4, <2>5, <2>6, CallerMoves
<1>4. CASE InvalidateHeaders(c)
  <2>1. \A k \in Watched : Owes(c, k) => Lock(k) = "headers"
    BY <1>4 DEF InvalidateHeaders, Owes, OpsOf, CostOps, Watched, Lock
  <2>2. "headers" \in Locks /\ calls[c].op # "SyncHolidays" /\ invalidate("headers") /\ Return(c)
    BY <1>4 DEF InvalidateHeaders, Locks
  <2> QED BY <2>1, <2>2, Invalidates
<1>5. CASE WriteCreatedHeader(c) \/ WriteSavedHeader(c)
  <2>1. /\ calls[c].op \in {"CreateHeader", "SaveHeader"} /\ calls[c].step = "write"
        /\ UNCHANGED <<prices, billing, holidays, caches>>
        /\ Proceed(c, "invalidate") \/ (Return(c) /\ UNCHANGED headers)
    BY <1>5 DEF WriteCreatedHeader, WriteSavedHeader, At
  <2>2. \A k \in Watched : Stored(k)' = Stored(k) \/ calls[c].op \in OpsOf(k)
    BY <2>1, TableFrame DEF Watched, OpsOf
  <2>3. calls[c].op # "SyncHolidays"
    BY <2>1
  <2>4. CASE Proceed(c, "invalidate")
    BY <2>1, <2>2, <2>3, <2>4, WriteOwed
  <2>5. CASE Return(c) /\ UNCHANGED headers
    <3>1. \A k \in Watched : Stored(k)' = Stored(k) /\ ~Owes(c, k)
      BY <2>1, <2>5, TableFrame, WritingOwesNothing DEF Watched
    <3> QED BY <2>1, <2>3, <2>5, <3>1, ReturnQuiet
  <2> QED BY <2>1, <2>4, <2>5
<1> QED BY <1>1, <1>2, <1>3, <1>4, <1>5 DEF HeaderCall

\* Calls on rules and on the directory touch no watched table.
LEMMA ElsewhereMoves ==
    ASSUME CInv, NEW c \in Callers, UNCHANGED <<prices, billing, headers, holidays, caches>>,
           DOMAIN calls' = Callers, \A d \in Callers : d # c => calls'[d] = calls[d],
           IsCall(calls'[c]), calls[c].op # "SyncHolidays", \A k \in Watched : ~Owes(c, k)
    PROVE  CInv'
<1>1. \A k \in Watched : Stored(k)' = Stored(k)
  BY TableFrame DEF Watched
<1>2. UNCHANGED <<cache, filling, calendar>> /\ AllHolidays' = AllHolidays
  BY CalendarFrame DEF caches
<1> QED BY <1>1, <1>2, CallerMoves

LEMMA RulesPreserve ==
    ASSUME CInv, NEW c \in Callers,
           \/ RuleCall(c) \/ WriteCreatedRule(c) \/ WriteUpdatedRule(c)
           \/ RereadRule(c) \/ InvalidateRules(c)
    PROVE  CInv'
<1>1. CASE CreateRule(c)
  <2>1. PICK rule \in RuleInputs : Begin(c, [op |-> "CreateRule", step |-> "write", row |-> rule])
    BY <1>1 DEF CreateRule
  <2> QED BY <1>1, <2>1, BeginQuiet DEF CreateRule, IsCall
<1>2. CASE UpdateRule(c)
  <2>1. PICK i \in DOMAIN rules, rule \in RuleInputs :
           Begin(c, [op |-> "UpdateRule", step |-> "write", id |-> i, row |-> rule])
    BY <1>2 DEF UpdateRule
  <2> QED BY <1>2, <2>1, BeginQuiet DEF UpdateRule, IsCall
<1>3. CASE DeleteRule(c)
  <2> DEFINE call == [op |-> "DeleteRule", step |-> "invalidate"]
  <2>1. Begin(c, call) /\ UNCHANGED <<prices, billing, headers, holidays, caches>>
    BY <1>3 DEF DeleteRule
  <2>2. /\ calls[c] = Idle /\ calls'[c] = call /\ DOMAIN calls' = Callers
        /\ \A d \in Callers : d # c => calls'[d] = calls[d]
    BY <2>1, BeginCall DEF CInv
  <2>3. IsCall(calls'[c]) /\ calls[c].op # "SyncHolidays"
    BY <2>2 DEF IsCall, Idle
  <2>4. \A k \in Watched : ~Owes(c, k)
    BY <2>2, IdleIsCall DEF Owes
  <2> QED BY <2>1, <2>2, <2>3, <2>4, ElsewhereMoves
<1>4. CASE InvalidateRules(c)
  <2>1. \A k \in Watched : ~Owes(c, k)
    BY <1>4, WritingOwesNothing DEF InvalidateRules
  <2>2. "rules" \in Locks /\ calls[c].op # "SyncHolidays" /\ invalidate("rules") /\ Return(c)
    BY <1>4 DEF InvalidateRules, Locks
  <2> QED BY <2>1, <2>2, Invalidates
<1>5. CASE WriteCreatedRule(c) \/ WriteUpdatedRule(c) \/ RereadRule(c)
  <2>1. /\ UNCHANGED <<prices, billing, headers, holidays, caches>>
        /\ calls[c].op \in {"CreateRule", "UpdateRule"}
        /\ \/ Return(c) \/ Proceed(c, "invalidate")
           \/ calls[c].op = "UpdateRule" /\ Proceed(c, "reread")
    BY <1>5 DEF WriteCreatedRule, WriteUpdatedRule, RereadRule, At, tables
  <2>2. /\ DOMAIN calls' = Callers /\ IsCall(calls'[c])
        /\ \A d \in Callers : d # c => calls'[d] = calls[d]
    <3>1. CASE Return(c)
      BY <3>1, ReturnCall, IdleIsCall DEF CInv
    <3>2. ASSUME NEW step, Proceed(c, step), step = "reread" => calls[c].op = "UpdateRule"
          PROVE  /\ DOMAIN calls' = Callers /\ IsCall(calls'[c])
                 /\ \A d \in Callers : d # c => calls'[d] = calls[d]
      BY <2>1, <3>2, ProceedCall DEF CInv, CallsOK, IsCall
    <3> QED BY <2>1, <3>1, <3>2
  <2>3. \A k \in Watched : ~Owes(c, k)
    BY <2>1, WritingOwesNothing
  <2> QED BY <2>1, <2>2, <2>3, ElsewhereMoves
<1> QED BY <1>1, <1>2, <1>3, <1>4, <1>5 DEF RuleCall
LEMMA CalendarPreserves ==
    ASSUME CInv, NEW c \in Callers, SyncHolidays(c) \/ ReplaceYear(c) \/ ReloadCalendar(c)
    PROVE  CInv'
<1>1. CASE SyncHolidays(c)
  BY <1>1, BeginQuiet DEF SyncHolidays, IsCall
<1>2. CASE ReplaceYear(c)
  <2>1. /\ calls[c].op = "SyncHolidays" /\ calls[c].step = "fetch"
        /\ UNCHANGED <<prices, billing, headers, caches>>
        /\ \/ calls' = [calls EXCEPT ![c].step = "reload"]
           \/ calls' = [calls EXCEPT ![c].year = @ + 1]
    BY <1>2 DEF ReplaceYear, At
  <2>2. DOMAIN calls = Callers /\ "op" \in DOMAIN calls[c] /\ "step" \in DOMAIN calls[c]
    BY DEF CInv, CallsOK, IsCall
  <2>3. DOMAIN calls' = Callers /\ \A d \in Callers : d # c => calls'[d] = calls[d]
    BY <2>1, <2>2
  <2>4. \/ calls'[c] = [calls[c] EXCEPT !.step = "reload"]
        \/ calls'[c] = [calls[c] EXCEPT !.year = calls[c].year + 1]
    BY <2>1, <2>2
  <2>5. IsCall(calls'[c]) /\ calls'[c].op = "SyncHolidays"
    BY <2>1, <2>2, <2>4 DEF IsCall
  <2>6. \A k \in Watched : Stored(k)' = Stored(k) /\ ~Owes(c, k)
    BY <2>1, TableFrame DEF Watched, Owes
  <2>7. UNCHANGED <<cache, filling, calendar>>
    BY <2>1 DEF caches
  <2> QED BY <2>3, <2>5, <2>6, <2>7, CallerMoves
<1>3. CASE ReloadCalendar(c)
  <2>1. /\ calls[c].step = "reload" /\ Return(c)
        /\ UNCHANGED <<prices, billing, headers, holidays, cache, filling>>
        /\ calendar'.failed \/ calendar'.val = AllHolidays
    <3>1. CASE calendar' = [val |-> AllHolidays, failed |-> FALSE]
      BY <1>3, <3>1 DEF ReloadCalendar, At, tables
    <3>2. CASE calendar' = [calendar EXCEPT !.failed = TRUE]
      BY <1>3, <3>2 DEF ReloadCalendar, At, tables, CInv, CalendarCurrent
    <3> QED BY <1>3, <3>1, <3>2 DEF ReloadCalendar
  <2>2. /\ calls'[c] = Idle /\ DOMAIN calls' = Callers
        /\ \A d \in Callers : d # c => calls'[d] = calls[d]
    BY <2>1, ReturnCall DEF CInv
  <2>3. CalendarCurrent'
    <3>1. "failed" \in DOMAIN calendar'
      BY <1>3 DEF ReloadCalendar, CInv, CalendarCurrent
    <3> QED BY <2>1, <3>1, CalendarFrame DEF CalendarCurrent
  <2>4. \A k \in Watched : Stored(k)' = Stored(k) /\ ~Owes(c, k)
    BY <2>1, TableFrame, WritingOwesNothing DEF Watched
  <2>5. Promises'
    <3>1. ASSUME NEW k \in Watched
          PROVE  (\E d \in Callers : Owes(d, k)) => \E d \in Callers : Owes(d, k)'
      BY <2>2, <2>4, StillOwed
    <3> QED BY <2>1, <2>4, <3>1 DEF CInv, Promises, Vouched
  <2>6. CallsOK' /\ CachesOK'
    BY <2>1, <2>2, IdleIsCall DEF CInv, CallsOK, CachesOK, Filled
  <2> QED BY <2>3, <2>5, <2>6 DEF CInv
<1> QED BY <1>1, <1>2, <1>3

LEMMA DirectoryPreserves ==
    ASSUME CInv, NEW c \in Callers, DirectoryCall(c) \/ DirectoryStep(c)
    PROVE  CInv'
<1>0. UNCHANGED <<tables, caches>>
  BY DEF DirectoryCall, DirectoryStep, CreateEntry, UpdateEntry, DeleteEntry, Probe, FetchBalance,
     WriteCreatedEntry, WriteUpdatedEntry, balInvalidate, WriteProbed, cacheBalance
<1>1. ASSUME NEW t \in Directories, CreateEntry(c, t) PROVE CInv'
  <2>1. PICK in \in Inputs(t) :
           Begin(c, [op |-> "CreateEntry", step |-> "write", table |-> t, row |-> Apply(NewRow, in)])
    BY <1>1 DEF CreateEntry
  <2> QED BY <1>0, <2>1, BeginQuiet DEF IsCall
<1>2. ASSUME NEW t \in Directories, UpdateEntry(c, t) PROVE CInv'
  <2>1. PICK i \in DOMAIN dir[t], in \in Inputs(t) :
           Begin(c, [op |-> "UpdateEntry", step |-> "write", table |-> t, id |-> i,
                     row |-> Apply(Base(t, i), in)])
    BY <1>2 DEF UpdateEntry
  <2> QED BY <1>0, <2>1, BeginQuiet DEF IsCall
<1>3. ASSUME NEW t \in Directories, DeleteEntry(c, t) PROVE CInv'
  <2>1. PICK i \in DOMAIN dir[t] :
           Begin(c, IF t = "channels" THEN [op |-> "DeleteEntry", step |-> "drop", id |-> i] ELSE Idle)
    BY <1>3 DEF DeleteEntry
  <2>2. CASE t = "channels"
    <3>1. Begin(c, [op |-> "DeleteEntry", step |-> "drop", id |-> i])
      BY <2>1, <2>2
    <3> QED BY <1>0, <3>1, BeginQuiet DEF IsCall
  <2>3. CASE t # "channels"
    <3>1. Begin(c, Idle)
      BY <2>1, <2>3
    <3> QED BY <1>0, <3>1, BeginQuiet, IdleIsCall
  <2> QED BY <2>2, <2>3
<1>4. CASE Probe(c)
  <2>1. PICK i \in DOMAIN dir["channels"] :
           Begin(c, [op |-> "Probe", step |-> "write", id |-> i, row |-> dir["channels"][i]])
    BY <1>4 DEF Probe
  <2> QED BY <1>0, <2>1, BeginQuiet DEF IsCall
<1>5. CASE FetchBalance(c)
  <2>1. PICK i \in DOMAIN dir["channels"] :
           Begin(c, [op |-> "Balances", step |-> "write", id |-> i, secret |-> dir["channels"][i].secret])
    BY <1>5 DEF FetchBalance
  <2> QED BY <1>0, <2>1, BeginQuiet DEF IsCall
<1>6. CASE DirectoryStep(c)
  <2>1. /\ calls[c].step \in {"write", "drop"}
        /\ Return(c) \/ Proceed(c, "drop")
    BY <1>6 DEF DirectoryStep, WriteCreatedEntry, WriteUpdatedEntry, balInvalidate, WriteProbed,
       cacheBalance, At
  <2>2. calls[c].op # "SyncHolidays"
    BY <2>1 DEF CInv, CallsOK, IsCall
  <2>3. \A k \in Watched : ~Owes(c, k)
    BY <2>1, WritingOwesNothing
  <2>4. /\ DOMAIN calls' = Callers /\ IsCall(calls'[c])
        /\ \A d \in Callers : d # c => calls'[d] = calls[d]
    <3>1. CASE Return(c)
      BY <3>1, ReturnCall, IdleIsCall DEF CInv
    <3>2. CASE Proceed(c, "drop")
      BY <2>2, <3>2, ProceedCall DEF CInv, CallsOK, IsCall
    <3> QED BY <2>1, <3>1, <3>2
  <2> QED BY <1>0, <2>2, <2>3, <2>4, ElsewhereMoves DEF tables
<1> QED BY <1>1, <1>2, <1>3, <1>4, <1>5, <1>6 DEF DirectoryCall

LEMMA FailurePreserves ==
    ASSUME CInv, NEW c \in Callers, CallFails(c)
    PROVE  CInv'
<1>1. /\ calls[c].step \in {"write", "reread"} /\ Return(c) /\ UNCHANGED <<tables, caches>>
  BY DEF CallFails
<1>2. calls[c].op # "SyncHolidays"
  BY <1>1 DEF CInv, CallsOK, IsCall
<1>3. \A k \in Watched : ~Owes(c, k)
  BY <1>1, WritingOwesNothing
<1>4. /\ DOMAIN calls' = Callers /\ IsCall(calls'[c])
      /\ \A d \in Callers : d # c => calls'[d] = calls[d]
  BY <1>1, ReturnCall, IdleIsCall DEF CInv
<1> QED BY <1>1, <1>2, <1>3, <1>4, ElsewhereMoves DEF tables

\* Nothing but caches and refills changes.
LEMMA CachesMove ==
    ASSUME CInv, UNCHANGED <<tables, calendar, calls>>, CachesOK',
           \A k \in Watched :
              /\ cache'[k] = cache[k] \/ cache'[k].stale \/ Vouched(cache[k], k)'
              /\ (filling[Lock(k)] # Free /\ filling[Lock(k)].kind = k)' =>
                    \/ filling'[Lock(k)] = filling[Lock(k)]
                    \/ Vouched(filling[Lock(k)].next, k)'
    PROVE  CInv'
<1>1. UNCHANGED <<prices, billing, headers, holidays>>
  BY DEF tables
<1>2. \A k \in Watched : Stored(k)' = Stored(k)
  BY <1>1, TableFrame DEF Watched
<1>3. \A c \in Callers, k \in Watched : Owes(c, k)' <=> Owes(c, k)
  BY DEF Owes
<1>4. CallsOK' /\ CalendarCurrent'
  BY <1>1, CalendarFrame DEF CInv, CallsOK, CalendarCurrent, Running
<1>5. ASSUME NEW k \in Watched
      PROVE  /\ Vouched(cache[k], k)'
             /\ (filling[Lock(k)] # Free /\ filling[Lock(k)].kind = k)' => Vouched(filling[Lock(k)].next, k)'
  BY <1>2, <1>3 DEF CInv, Promises, Vouched
<1> QED BY <1>4, <1>5 DEF CInv, Promises
LEMMA BeginFillPreserves ==
    ASSUME CInv, NEW k \in Kinds, BeginFill(k), Rest
    PROVE  CInv'
<1>1. UNCHANGED <<tables, cache, calendar, calls>> /\ ~Valid(k)
  BY DEF BeginFill, Rest
<1>2. PICK n \in {Loaded(Stored(k)), AfterFailure(k)} :
         filling' = [filling EXCEPT ![Lock(k)] = [kind |-> k, next |-> n]]
  BY DEF BeginFill
<1>3. Lock(k) \in Locks
  BY DEF Lock, Locks, Kinds
<1>4. /\ DOMAIN filling' = Locks /\ filling'[Lock(k)].kind = k /\ filling'[Lock(k)].next = n
      /\ \A l \in Locks : l # Lock(k) => filling'[l] = filling[l]
  BY <1>2, <1>3 DEF CInv, CachesOK
<1>5. IsEntry(n)
  <2>1. IsEntry(cache[k])
    BY DEF CInv, CachesOK
  <2>2. \A v : IsEntry(Loaded(v)) /\ IsEntry([Loaded(v) EXCEPT !.short = TRUE])
    BY DEF IsEntry, Loaded
  <2>3. IsEntry([cache[k] EXCEPT !.stale = ~cache[k].loaded])
    BY <2>1 DEF IsEntry
  <2>4. IsEntry(AfterFailure(k))
    BY <2>1, <2>2, <2>3 DEF AfterFailure, Kinds
  <2> QED BY <2>2, <2>4
<1>6. CachesOK'
  BY <1>1, <1>4, <1>5 DEF CInv, CachesOK, Filled
<1>7. ASSUME k \in Watched PROVE Vouched(n, k)'
  <2>0. Stored(k)' = Stored(k)
    BY <1>1, <1>7, TableFrame DEF Watched, tables
  <2>1. CASE n = Loaded(Stored(k))
    BY <2>0, <2>1 DEF Vouched, Loaded
  <2>2. CASE n = AfterFailure(k)
    <3>1. CASE k = "headers"
      BY <1>1, <2>2, <3>1 DEF AfterFailure, Vouched, Valid
    <3>2. CASE k \in {"price", "rate"}
      <4>1. PICK v : n = [Loaded(v) EXCEPT !.short = TRUE]
        BY <2>2, <3>2 DEF AfterFailure
      <4>2. n.short
        BY <4>1 DEF Loaded
      <4> QED BY <4>2 DEF Vouched
    <3> QED BY <1>7, <3>1, <3>2 DEF Watched
  <2> QED BY <2>1, <2>2
<1>8. \A x \in Watched : Lock(x) \in Locks
  BY DEF Watched, Lock, Locks
<1> QED BY <1>1, <1>4, <1>6, <1>7, <1>8, CachesMove

LEMMA EndFillPreserves ==
    ASSUME CInv, NEW l \in Locks, EndFill(l), Rest
    PROVE  CInv'
<1>0. PICK k, n : k = filling[l].kind /\ n = filling[l].next
  OBVIOUS
<1>1. /\ UNCHANGED <<tables, calendar, calls>> /\ filling[l] # Free
      /\ cache' = [cache EXCEPT ![k] = n]
      /\ filling' = [filling EXCEPT ![l] = Free]
  BY <1>0 DEF EndFill, Rest
<1>2. k \in Kinds /\ Lock(k) = l /\ IsEntry(n)
  BY <1>0, <1>1 DEF CInv, CachesOK, Filled
<1>3. /\ DOMAIN cache' = Kinds /\ cache'[k] = n
      /\ \A x \in Kinds : x # k => cache'[x] = cache[x]
      /\ DOMAIN filling' = Locks /\ filling'[l] = Free
      /\ \A x \in Locks : x # l => filling'[x] = filling[x]
  BY <1>1, <1>2 DEF CInv, CachesOK
<1>4. CachesOK'
  BY <1>2, <1>3 DEF CInv, CachesOK, Filled
<1>5. \A x \in Watched : x \in Kinds /\ Lock(x) \in Locks
  BY DEF Watched, Kinds, Lock, Locks
<1>6. ASSUME k \in Watched PROVE Vouched(n, k)'
  <2>1. Vouched(n, k)
    BY <1>0, <1>1, <1>2, <1>6 DEF CInv, Promises
  <2>2. Stored(k)' = Stored(k)
    BY <1>1, <1>6, TableFrame DEF Watched, tables
  <2>3. \A c \in Callers : Owes(c, k)' <=> Owes(c, k)
    BY <1>1 DEF Owes
  <2> QED BY <2>1, <2>2, <2>3 DEF Vouched
<1>7. ASSUME NEW x \in Watched
      PROVE  cache'[x] = cache[x] \/ cache'[x].stale \/ Vouched(cache[x], x)'
  <2>1. CASE x = k
    <3>1. Vouched(n, x)'
      BY <1>6, <2>1
    <3>2. Vouched(cache[x], x)' <=> Vouched(n, x)'
      BY <1>1, <1>3, <2>1 DEF Vouched
    <3> QED BY <3>1, <3>2
  <2>2. CASE x # k
    BY <1>3, <1>5, <2>2
  <2> QED BY <2>1, <2>2
<1>8. ASSUME NEW x \in Watched
      PROVE  (filling[Lock(x)] # Free)' => filling'[Lock(x)] = filling[Lock(x)]
  BY <1>3, <1>5
<1> QED BY <1>1, <1>4, <1>7, <1>8, CachesMove

LEMMA AgePreserves ==
    ASSUME CInv, NEW k \in Kinds, Age(k), Rest
    PROVE  CInv'
<1>1. /\ UNCHANGED <<tables, calendar, calls, filling>>
      /\ cache' = [cache EXCEPT ![k].stale = TRUE]
  BY DEF Age, Rest
<1>2. \A x \in Kinds : IsEntry(cache[x])
  BY DEF CInv, CachesOK
<1>3. /\ DOMAIN cache' = Kinds /\ IsEntry(cache'[k]) /\ cache'[k].stale
      /\ \A x \in Kinds : x # k => cache'[x] = cache[x]
  BY <1>1, <1>2 DEF CInv, CachesOK, IsEntry
<1>4. CachesOK'
  BY <1>1, <1>2, <1>3 DEF CInv, CachesOK, Filled
<1>5. Watched \subseteq Kinds
  BY DEF Watched, Kinds
<1> QED BY <1>1, <1>3, <1>4, <1>5, CachesMove

LEMMA UnloadedIsEntry ==
    \A k : IsEntry(Unloaded(k)) /\ ~Unloaded(k).loaded
  BY DEF IsEntry, Unloaded

LEMMA CrashPreserves == CInv /\ Crash => CInv'
<1> SUFFICES ASSUME CInv, Crash PROVE CInv'
  OBVIOUS
<1>1. /\ cache' = [k \in Kinds |-> Unloaded(k)]
      /\ filling' = [l \in Locks |-> Free]
      /\ calls' = [c \in Callers |-> Idle]
      /\ UNCHANGED holidays
      /\ calendar' \in {[val |-> AllHolidays, failed |-> FALSE], [val |-> <<>>, failed |-> TRUE]}
  BY DEF Crash
<1>2. CallsOK'
  BY <1>1, IdleIsCall DEF CallsOK
<1>3. CachesOK'
  BY <1>1, UnloadedIsEntry DEF CachesOK, Filled
<1>4. CalendarCurrent'
  <2>1. "failed" \in DOMAIN calendar' /\ (calendar'.failed \/ calendar'.val = AllHolidays)
    BY <1>1
  <2> QED BY <1>1, <2>1, CalendarFrame DEF CalendarCurrent
<1>5. \A k \in Watched : k \in Kinds /\ Lock(k) \in Locks
  BY DEF Watched, Kinds, Lock, Locks
<1>6. Promises'
  BY <1>1, <1>5, UnloadedIsEntry DEF Promises, Vouched
<1> QED BY <1>2, <1>3, <1>4, <1>6 DEF CInv

LEMMA InitCInv == Init => CInv
<1> SUFFICES ASSUME Init PROVE CInv
  OBVIOUS
<1>1. /\ cache = [k \in Kinds |-> Unloaded(k)]
      /\ filling = [l \in Locks |-> Free]
      /\ calls = [c \in Callers |-> Idle]
      /\ calendar = [val |-> AllHolidays, failed |-> FALSE]
  BY DEF Init, CachesInit
<1>2. CallsOK
  BY <1>1, IdleIsCall DEF CallsOK
<1>3. CachesOK
  BY <1>1, UnloadedIsEntry DEF CachesOK, Filled
<1>4. CalendarCurrent
  BY <1>1 DEF CalendarCurrent
<1>5. \A k \in Watched : k \in Kinds /\ Lock(k) \in Locks
  BY DEF Watched, Kinds, Lock, Locks
<1>6. Promises
  BY <1>1, <1>5, UnloadedIsEntry DEF Promises, Vouched
<1> QED BY <1>2, <1>3, <1>4, <1>6 DEF CInv

LEMMA StepCInv == CInv /\ [Next]_vars => CInv'
<1> SUFFICES ASSUME CInv, [Next]_vars PROVE CInv'
  OBVIOUS
<1>1. ASSUME NEW c \in Callers, Calls(c) \/ Steps(c) \/ CallFails(c) PROVE CInv'
  BY <1>1, CostPreserves, HeadersPreserve, RulesPreserve, CalendarPreserves, DirectoryPreserves,
     FailurePreserves DEF Calls, Steps, SettingsStep
<1>2. ASSUME NEW k \in Kinds, BeginFill(k) \/ Age(k), Rest PROVE CInv'
  BY <1>2, BeginFillPreserves, AgePreserves
<1>3. ASSUME NEW l \in Locks, EndFill(l), Rest PROVE CInv'
  BY <1>3, EndFillPreserves
<1>4. CASE UNCHANGED vars \/ BalanceExpires
  <2>1. UNCHANGED <<tables, cache, filling, calendar, calls>>
    BY <1>4 DEF vars, caches, BalanceExpires
  <2>2. CachesOK'
    BY <2>1 DEF CInv, CachesOK, Filled
  <2> QED BY <2>1, <2>2, CachesMove
<1>5. CASE Crash
  BY <1>5, CrashPreserves
<1> QED BY <1>1, <1>2, <1>3, <1>4, <1>5 DEF Next

LEMMA InductiveC == Spec => []CInv
  BY InitCInv, StepCInv, PTL DEF Spec

-----------------------------------------------------------------------------
\* What a valid cache of prices, of the rate or of the headers serves is what
\* its table says, unless its last refill failed or a call that has written
\* has not come to its invalidation: a write that falls between a refill's
\* query and its storing is not lost, for the invalidation waits for the lock
\* the refill holds.  So is the calendar (cost.go, session_header.go,
\* holiday.go).
THEOREM Current == Spec => []CachesCurrent
<1>1. CInv => CachesCurrent
  <2> SUFFICES ASSUME CInv PROVE CachesCurrent
    OBVIOUS
  <2>1. \A k \in Watched : Vouched(cache[k], k)
    BY DEF CInv, Promises
  <2>2. \A k \in Watched : (\E c \in Callers : Owes(c, k)) => Owed(OpsOf(k))
    BY DEF Owes, Owed
  <2>3. \A k \in Watched : Served(k) => cache[k].val = Stored(k) \/ Owed(OpsOf(k))
    BY <2>1, <2>2 DEF Vouched, Served, Valid
  <2> QED BY <2>3 DEF CachesCurrent, PricesCurrent, Watched, OpsOf, Stored, CInv, CalendarCurrent
<1> QED BY <1>1, InductiveC, PTL

-----------------------------------------------------------------------------
\* What the two action properties need: whose move a step is, and that a
\* behaviour that edits the directory numbers its rows.

Numbered ==
    /\ DOMAIN dir = Directories
    /\ area = "directory" => ids \in Int /\ \A c \in Callers : calls[c].op # "Sync"
    /\ area # "directory" => \A c \in Callers : calls[c].op # "CreateEntry"

LEMMA BeginsOwn ==
    ASSUME CallsOK, NEW c \in Callers, Calls(c)
    PROVE  /\ calls[c] = Idle /\ \A d \in Callers : d # c => calls'[d] = calls[d]
           /\ area = "directory" => calls'[c].op # "Sync"
           /\ area # "directory" => calls'[c].op # "CreateEntry"
           /\ area # "cost" => calls'[c].op \notin CostOps
<1> DEFINE Goal == /\ calls[c] = Idle /\ \A d \in Callers : d # c => calls'[d] = calls[d]
                   /\ area = "directory" => calls'[c].op # "Sync"
                   /\ area # "directory" => calls'[c].op # "CreateEntry"
                   /\ area # "cost" => calls'[c].op \notin CostOps
<1>1. ASSUME NEW call, Begin(c, call),
             area = "directory" => call.op # "Sync", area # "directory" => call.op # "CreateEntry",
             area # "cost" => call.op \notin CostOps
      PROVE  Goal
  BY <1>1, BeginCall
<1>2. CASE area = "cost"
  <2>1. CostCall(c)
    BY <1>2 DEF Calls
  <2>2. CASE CreatePrice(c)
    <3>1. PICK n \in PriceNames, in \in PriceInputs :
             Begin(c, [op |-> "CreatePrice", step |-> "write",
                       row |-> [model |-> n, source |-> "manual", terms |-> applyPriceInput(in)]])
      BY <2>2 DEF CreatePrice
    <3> QED BY <1>1, <1>2, <3>1
  <2>3. CASE UpdatePrice(c)
    <3>1. PICK i \in DOMAIN prices, in \in PriceInputs :
             Begin(c, [op |-> "UpdatePrice", step |-> "write", id |-> i,
                       row |-> [model |-> prices[i].model, source |-> "manual", terms |-> applyPriceInput(in)]])
      BY <2>3 DEF UpdatePrice
    <3> QED BY <1>1, <1>2, <3>1
  <2>4. CASE Sync(c)
    <3>1. PICK feed \in Feeds :
             Begin(c, [op |-> "Sync", step |-> "write", rows |-> {syncedPrice(e) : e \in ParsePricing(feed)}])
      BY <2>4 DEF Sync
    <3> QED BY <1>1, <1>2, <3>1
  <2>5. CASE UpdateBilling(c)
    <3>1. PICK rate \in ExchangeRates : Begin(c, [op |-> "UpdateBilling", step |-> "write", rate |-> rate])
      BY <2>5 DEF UpdateBilling
    <3> QED BY <1>1, <1>2, <3>1
  <2>6. CASE DeletePrice(c)
    <3>1. Begin(c, [op |-> "DeletePrice", step |-> "invalidate"])
      BY <2>6 DEF DeletePrice
    <3> QED BY <1>1, <1>2, <3>1
  <2> QED BY <2>1, <2>2, <2>3, <2>4, <2>5, <2>6 DEF CostCall
<1>3. CASE area = "calendar"
  <2>1. Begin(c, [op |-> "SyncHolidays", step |-> "fetch", year |-> 1])
    BY <1>3 DEF Calls, SyncHolidays
  <2> QED BY <1>1, <1>3, <2>1 DEF CostOps
<1>4. CASE area = "headers"
  <2>1. HeaderCall(c)
    BY <1>4 DEF Calls
  <2>2. CASE CreateHeader(c)
    <3>1. PICK key \in HeaderNames : Begin(c, [op |-> "CreateHeader", step |-> "write", key |-> key])
      BY <2>2 DEF CreateHeader
    <3> QED BY <1>1, <1>4, <3>1 DEF CostOps
  <2>3. CASE SaveHeader(c)
    <3>1. PICK i \in DOMAIN headers, on \in BOOLEAN :
             Begin(c, [op |-> "SaveHeader", step |-> "write", id |-> i,
                       row |-> [headers[i] EXCEPT !.enabled = on]])
      BY <2>3 DEF SaveHeader
    <3> QED BY <1>1, <1>4, <3>1 DEF CostOps
  <2>4. CASE DeleteHeader(c)
    <3>1. Begin(c, [op |-> "DeleteHeader", step |-> "invalidate"])
      BY <2>4 DEF DeleteHeader
    <3> QED BY <1>1, <1>4, <3>1 DEF CostOps
  <2> QED BY <2>1, <2>2, <2>3, <2>4 DEF HeaderCall
<1>5. CASE area = "rules"
  <2>1. RuleCall(c)
    BY <1>5 DEF Calls
  <2>2. CASE CreateRule(c)
    <3>1. PICK rule \in RuleInputs : Begin(c, [op |-> "CreateRule", step |-> "write", row |-> rule])
      BY <2>2 DEF CreateRule
    <3> QED BY <1>1, <1>5, <3>1 DEF CostOps
  <2>3. CASE UpdateRule(c)
    <3>1. PICK i \in DOMAIN rules, rule \in RuleInputs :
             Begin(c, [op |-> "UpdateRule", step |-> "write", id |-> i, row |-> rule])
      BY <2>3 DEF UpdateRule
    <3> QED BY <1>1, <1>5, <3>1 DEF CostOps
  <2>4. CASE DeleteRule(c)
    <3>1. Begin(c, [op |-> "DeleteRule", step |-> "invalidate"])
      BY <2>4 DEF DeleteRule
    <3> QED BY <1>1, <1>5, <3>1 DEF CostOps
  <2> QED BY <2>1, <2>2, <2>3, <2>4 DEF RuleCall
<1>6. CASE area = "directory"
  <2>1. DirectoryCall(c)
    BY <1>6 DEF Calls
  <2>2. ASSUME NEW t \in Directories, CreateEntry(c, t) PROVE Goal
    <3>1. PICK in \in Inputs(t) :
             Begin(c, [op |-> "CreateEntry", step |-> "write", table |-> t, row |-> Apply(NewRow, in)])
      BY <2>2 DEF CreateEntry
    <3> QED BY <1>1, <1>6, <3>1 DEF CostOps
  <2>3. ASSUME NEW t \in Directories, UpdateEntry(c, t) PROVE Goal
    <3>1. PICK i \in DOMAIN dir[t], in \in Inputs(t) :
             Begin(c, [op |-> "UpdateEntry", step |-> "write", table |-> t, id |-> i,
                       row |-> Apply(Base(t, i), in)])
      BY <2>3 DEF UpdateEntry
    <3> QED BY <1>1, <1>6, <3>1 DEF CostOps
  <2>4. ASSUME NEW t \in Directories, DeleteEntry(c, t) PROVE Goal
    <3>1. PICK i \in DOMAIN dir[t] :
             Begin(c, IF t = "channels" THEN [op |-> "DeleteEntry", step |-> "drop", id |-> i] ELSE Idle)
      BY <2>4 DEF DeleteEntry
    <3> DEFINE call == IF t = "channels" THEN [op |-> "DeleteEntry", step |-> "drop", id |-> i] ELSE Idle
    <3>2. call.op # "Sync" /\ call.op \notin CostOps
      BY DEF Idle, CostOps
    <3>3. Begin(c, call)
      BY <3>1
    <3> HIDE DEF call
    <3> QED BY <1>1, <1>6, <3>2, <3>3
  <2>5. CASE Probe(c)
    <3>1. PICK i \in DOMAIN dir["channels"] :
             Begin(c, [op |-> "Probe", step |-> "write", id |-> i, row |-> dir["channels"][i]])
      BY <2>5 DEF Probe
    <3> QED BY <1>1, <1>6, <3>1 DEF CostOps
  <2>6. CASE FetchBalance(c)
    <3>1. PICK i \in DOMAIN dir["channels"] :
             Begin(c, [op |-> "Balances", step |-> "write", id |-> i, secret |-> dir["channels"][i].secret])
      BY <2>6 DEF FetchBalance
    <3> QED BY <1>1, <1>6, <3>1 DEF CostOps
  <2> QED BY <2>1, <2>2, <2>3, <2>4, <2>5, <2>6 DEF DirectoryCall
<1> QED BY <1>2, <1>3, <1>4, <1>5, <1>6 DEF Calls

LEMMA MovesOwn ==
    ASSUME CallsOK, NEW c \in Callers, Steps(c) \/ CallFails(c)
    PROVE  /\ \A d \in Callers : d # c => calls'[d] = calls[d]
           /\ calls'[c].op \in {calls[c].op, "none"}
<1> DEFINE Goal == /\ \A d \in Callers : d # c => calls'[d] = calls[d]
                   /\ calls'[c].op \in {calls[c].op, "none"}
<1>1. CASE Return(c)
  BY <1>1, ReturnCall DEF Idle
<1>2. ASSUME NEW step, Proceed(c, step) PROVE Goal
  BY <1>2, ProceedCall
<1>3. CASE ReplaceYear(c)
  <2>1. DOMAIN calls = Callers /\ "op" \in DOMAIN calls[c]
    BY DEF CallsOK, IsCall
  <2>2. \/ calls' = [calls EXCEPT ![c].step = "reload"]
        \/ calls' = [calls EXCEPT ![c].year = @ + 1]
    BY <1>3 DEF ReplaceYear
  <2> QED BY <2>1, <2>2
<1>4. CASE CostStep(c)
  BY <1>1, <1>2, <1>4 DEF CostStep, WriteCreatedPrice, WriteUpdatedPrice, WriteSynced, WriteBilling,
     InvalidateCost
<1>5. CASE SettingsStep(c)
  BY <1>1, <1>2, <1>3, <1>5 DEF SettingsStep, WriteCreatedHeader, WriteSavedHeader, InvalidateHeaders,
     WriteCreatedRule, WriteUpdatedRule, RereadRule, InvalidateRules, ReloadCalendar
<1>6. CASE DirectoryStep(c)
  BY <1>1, <1>2, <1>6 DEF DirectoryStep, WriteCreatedEntry, WriteUpdatedEntry, balInvalidate,
     WriteProbed, cacheBalance
<1>7. CASE CallFails(c)
  BY <1>1, <1>7 DEF CallFails
<1> QED BY <1>4, <1>5, <1>6, <1>7 DEF Steps

\* Ids come one by one wherever no synchronisation of prices is under way.
LEMMA IdsMove ==
    ASSUME CallsOK, NEW c \in Callers, Calls(c) \/ Steps(c) \/ CallFails(c),
           calls[c].op # "Sync", ids \in Int
    PROVE  ids' \in Int
<1>1. Calls(c) => ids' = ids
  BY DEF Calls, CostCall, HeaderCall, RuleCall, DirectoryCall, CreatePrice, UpdatePrice, DeletePrice,
     Sync, UpdateBilling, SyncHolidays, CreateHeader, SaveHeader, DeleteHeader, CreateRule, UpdateRule,
     DeleteRule, CreateEntry, UpdateEntry, DeleteEntry, Probe, FetchBalance
<1>2. CostStep(c) => ids' = ids \/ ids' = ids + 1
  BY DEF CostStep, WriteCreatedPrice, WriteUpdatedPrice, WriteSynced, WriteBilling, InvalidateCost, At
<1>3. SettingsStep(c) => ids' = ids \/ ids' = ids + 1
  BY DEF SettingsStep, WriteCreatedHeader, WriteSavedHeader, InvalidateHeaders, WriteCreatedRule,
     WriteUpdatedRule, RereadRule, InvalidateRules, ReplaceYear, ReloadCalendar
<1>4. DirectoryStep(c) => ids' = ids \/ ids' = ids + 1
  BY DEF DirectoryStep, WriteCreatedEntry, WriteUpdatedEntry, balInvalidate, WriteProbed, cacheBalance
<1>5. CallFails(c) => ids' = ids
  BY DEF CallFails
<1>6. ids' = ids \/ ids' = ids + 1
  BY <1>1, <1>2, <1>3, <1>4, <1>5 DEF Steps
<1> QED BY <1>6

\* Which rows of the directory there may be after a step, and that it keeps its
\* tables.
LEMMA RowsMove ==
    ASSUME CallsOK, DOMAIN dir = Directories,
           NEW c \in Callers, Calls(c) \/ Steps(c) \/ CallFails(c)
    PROVE  /\ DOMAIN dir' = Directories
           /\ \A t \in Directories : \A i \in DOMAIN dir'[t] :
                  i \in DOMAIN dir[t] \/ (calls[c].op = "CreateEntry" /\ i = ids + 1)
<1> DEFINE Goal == /\ DOMAIN dir' = Directories
                   /\ \A t \in Directories : \A i \in DOMAIN dir'[t] :
                          i \in DOMAIN dir[t] \/ (calls[c].op = "CreateEntry" /\ i = ids + 1)
<1>1. dir' = dir => Goal
  OBVIOUS
<1>2. ASSUME NEW t, NEW i, NEW row, UpdateRow(t, i, row) PROVE Goal
  <2>1. i \in DOMAIN dir[t] /\ dir' = [dir EXCEPT ![t][i] = row]
    BY <1>2 DEF UpdateRow
  <2>2. /\ DOMAIN dir' = Directories
        /\ t \in Directories => dir'[t] = [dir[t] EXCEPT ![i] = row]
        /\ \A u \in Directories : u # t => dir'[u] = dir[u]
    BY <2>1
  <2>3. t \in Directories => DOMAIN dir'[t] = DOMAIN dir[t]
    BY <2>2
  <2> QED BY <2>2, <2>3
<1>3. ASSUME NEW t \in Directories, DeleteEntry(c, t) PROVE Goal
  <2>1. PICK j \in DOMAIN dir[t] : dir' = [dir EXCEPT ![t] = Without(dir[t], {j})]
    BY <1>3 DEF DeleteEntry
  <2>2. DOMAIN dir' = Directories /\ dir'[t] = Without(dir[t], {j})
        /\ \A u \in Directories : u # t => dir'[u] = dir[u]
    BY <2>1
  <2>3. DOMAIN dir'[t] \subseteq DOMAIN dir[t]
    BY <2>2 DEF Without
  <2> QED BY <2>2, <2>3
<1>4. CASE WriteCreatedEntry(c)
  <2>1. PICK t : t = calls[c].table
    OBVIOUS
  <2>2. CASE dir' = [dir EXCEPT ![t] = Insert(dir[t], Inserted(calls[c].row))]
    <3>1. DOMAIN dir' = Directories /\ \A u \in Directories : u # t => dir'[u] = dir[u]
      BY <2>2
    <3>2. t \in Directories => DOMAIN dir'[t] = DOMAIN dir[t] \cup {ids + 1}
      <4>1. \A f, row : DOMAIN Insert(f, row) = DOMAIN f \cup {ids + 1}
        BY DEF Insert, Put
      <4> QED BY <2>2, <4>1
    <3> QED BY <1>4, <3>1, <3>2 DEF WriteCreatedEntry, At
  <2> QED BY <1>1, <1>4, <2>1, <2>2 DEF WriteCreatedEntry
<1>5. CASE WriteProbed(c)
  BY <1>1, <1>2, <1>5 DEF WriteProbed
<1>6. CASE WriteUpdatedEntry(c)
  BY <1>1, <1>2, <1>6 DEF WriteUpdatedEntry
<1>7. CASE Calls(c)
  BY <1>1, <1>3, <1>7 DEF Calls, directory, DirectoryCall, CreateEntry, UpdateEntry, Probe, FetchBalance
<1>8. CASE balInvalidate(c) \/ cacheBalance(c) \/ CallFails(c) \/ UNCHANGED directory
  BY <1>1, <1>8 DEF balInvalidate, cacheBalance, CallFails, directory
<1> QED BY <1>4, <1>5, <1>6, <1>7, <1>8 DEF Steps, DirectoryStep

LEMMA InitNumbered == Init => Numbered
  BY DEF Init, Numbered, Idle

\* The steps that are nobody's call.
LEMMA NobodysStep ==
    ASSUME Next, ~\E c \in Callers : Calls(c) \/ Steps(c) \/ CallFails(c)
    PROVE  UNCHANGED <<prices, dir, area>> /\ (Crash \/ UNCHANGED <<calls, ids>>)
<1>1. ASSUME NEW k \in Kinds, BeginFill(k) \/ Age(k), Rest
      PROVE  UNCHANGED <<prices, dir, calls, ids>>
  BY <1>1 DEF BeginFill, Age, Rest, tables, directory
<1>2. ASSUME NEW l \in Locks, EndFill(l), Rest PROVE UNCHANGED <<prices, dir, calls, ids>>
  BY <1>2 DEF EndFill, Rest, tables, directory
<1>3. BalanceExpires => UNCHANGED <<prices, dir, calls, ids>>
  BY DEF BalanceExpires, tables
<1>4. Crash => UNCHANGED <<prices, dir>>
  BY DEF Crash
<1> QED BY <1>1, <1>2, <1>3, <1>4 DEF Next

LEMMA StepNumbered == CInv /\ Numbered /\ [Next]_vars => Numbered'
<1> SUFFICES ASSUME CInv, Numbered, [Next]_vars PROVE Numbered'
  OBVIOUS
<1>1. ASSUME NEW c \in Callers, Calls(c) \/ Steps(c) \/ CallFails(c), UNCHANGED area PROVE Numbered'
  <2>1. CallsOK
    BY DEF CInv
  <2>2. DOMAIN dir' = Directories
    BY <1>1, <2>1, RowsMove DEF Numbered
  <2>3. \A d \in Callers : d # c => calls'[d] = calls[d]
    BY <1>1, <2>1, BeginsOwn, MovesOwn
  <2>4. CASE area = "directory"
    <3>1. calls'[c].op # "Sync"
      BY <1>1, <2>1, <2>4, BeginsOwn, MovesOwn DEF Numbered
    <3>2. ids' \in Int
      BY <1>1, <2>1, <2>4, IdsMove DEF Numbered
    <3> QED BY <1>1, <2>2, <2>3, <2>4, <3>1, <3>2 DEF Numbered
  <2>5. CASE area # "directory"
    <3>1. calls'[c].op # "CreateEntry"
      BY <1>1, <2>1, <2>5, BeginsOwn, MovesOwn DEF Numbered
    <3> QED BY <1>1, <2>2, <2>3, <2>5, <3>1 DEF Numbered
  <2> QED BY <2>4, <2>5
<1>2. CASE UNCHANGED <<dir, area, calls, ids>>
  BY <1>2 DEF Numbered
<1>3. CASE Crash /\ UNCHANGED area
  <2>1. /\ DOMAIN dir' = Directories /\ \A c \in Callers : calls'[c].op = "none"
        /\ ids' = ids \/ ids' = ids + 1
    BY <1>3 DEF Crash, Idle, Numbered
  <2> QED BY <1>3, <2>1 DEF Numbered
<1>4. UNCHANGED vars => UNCHANGED <<dir, area, calls, ids>>
  BY DEF vars, directory
<1> QED BY <1>1, <1>2, <1>3, <1>4, NobodysStep DEF Next

-----------------------------------------------------------------------------
\* A row of the directory that was deleted stays deleted: only a creation adds
\* a row, with an id above all that were given, and an edit or a probe that
\* comes late finds nothing to update (channel_repo.go:29-38,
\* apikey_repo.go:40-49).
THEOREM NoRowReturns == Spec => DeletedStaysDeleted
<1> DEFINE Kept == \A t \in Directories : \A i \in DOMAIN dir'[t] : i \in DOMAIN dir[t] \/ i > ids
<1>1. CInv /\ Numbered /\ [Next]_vars => [Kept]_vars
  <2> SUFFICES ASSUME CInv, Numbered, Next PROVE Kept
    OBVIOUS
  <2>1. ASSUME NEW c \in Callers, Calls(c) \/ Steps(c) \/ CallFails(c) PROVE Kept
    <3>1. \A t \in Directories : \A i \in DOMAIN dir'[t] :
              i \in DOMAIN dir[t] \/ (calls[c].op = "CreateEntry" /\ i = ids + 1)
      BY <2>1, RowsMove DEF CInv, Numbered
    <3>2. calls[c].op = "CreateEntry" => ids \in Int
      BY DEF Numbered
    <3>3. ids \in Int => ids + 1 > ids
      OBVIOUS
    <3> QED BY <3>1, <3>2, <3>3
  <2> QED BY <2>1, NobodysStep
<1> QED BY <1>1, InitCInv, InitNumbered, StepCInv, StepNumbered, PTL DEF Spec, DeletedStaysDeleted

\* A synchronisation keeps every price set by hand as it was, whatever calls,
\* refills and faults it is interleaved with: the rows it rebuilds are those
\* the transaction finds not to be manual (cost.go:379, model_price_repo.go:91-92).
THEOREM ManualPricesStay == Spec => ManualKept
<1> DEFINE Kept == \A i \in DOMAIN prices : prices[i].source = "manual" =>
                      i \in DOMAIN prices' /\ prices'[i] = prices[i]
           Synced == \E c \in Callers : At(c, "Sync", "write") /\ ~At(c, "Sync", "write")'
<1>1. prices' = prices => Kept
  OBVIOUS
<1>2. ASSUME NEW rows, ReplaceSynced(rows) PROVE Kept
  <2> DEFINE manual == {i \in DOMAIN prices : prices[i].source = "manual"}
  <2>1. PICK added, batch : prices' = [i \in manual \cup added |->
                                           IF i \in manual THEN prices[i] ELSE batch[i - ids]]
    BY <1>2 DEF ReplaceSynced
  <2> QED BY <2>1
<1>3. ASSUME CInv, Next, NEW c \in Callers, At(c, "Sync", "write"), ~At(c, "Sync", "write")'
      PROVE  Kept
  <2>1. ASSUME NEW d \in Callers, Calls(d) \/ Steps(d) \/ CallFails(d) PROVE Kept
    <3>1. d = c
      BY <1>3, <2>1, BeginsOwn, MovesOwn DEF CInv, At
    <3>2. ~Calls(c)
      BY <1>3, BeginsOwn DEF CInv, At, Idle
    <3>3. CostStep(c) => WriteSynced(c)
      BY <1>3 DEF CostStep, WriteCreatedPrice, WriteUpdatedPrice, WriteBilling, InvalidateCost, At
    <3>4. WriteSynced(c) => Kept
      BY <1>2 DEF WriteSynced
    <3>5. SettingsStep(c) \/ DirectoryStep(c) \/ CallFails(c) => prices' = prices
      BY DEF SettingsStep, WriteCreatedHeader, WriteSavedHeader, InvalidateHeaders, WriteCreatedRule,
         WriteUpdatedRule, RereadRule, InvalidateRules, ReplaceYear, ReloadCalendar, invalidate,
         DirectoryStep, WriteCreatedEntry, WriteUpdatedEntry, balInvalidate, WriteProbed, cacheBalance,
         CallFails, tables
    <3> QED BY <1>1, <2>1, <3>1, <3>2, <3>3, <3>4, <3>5 DEF Steps
  <2> QED BY <1>1, <1>3, <2>1, NobodysStep
<1>4. CInv /\ [Next]_vars => [Synced => Kept]_vars
  BY <1>3
<1> QED BY <1>4, InductiveC, PTL DEF Spec, ManualKept

-----------------------------------------------------------------------------
\* The price table, listed in the order of the names.

IsTable(rows) ==
    IsFiniteSet(rows) /\ rows \in SUBSET Rows /\ \A r, o \in rows : r.model = o.model => r = o

LEMMA PlaceOf ==
    \A row \in Rows : Place(row) \in Nat /\ Place(row) \in DOMAIN Names /\ Names[Place(row)] = row.model
<1> TAKE row \in Rows
<1>1. \E i \in DOMAIN Names : Names[i] = row.model
  BY DEF Rows, Range
<1>2. Place(row) \in DOMAIN Names /\ Names[Place(row)] = row.model
  BY <1>1 DEF Place
<1> QED BY <1>2, BillAssumption

LEMMA PlacesDiffer ==
    ASSUME NEW rows, IsTable(rows), NEW r \in rows, NEW o \in rows, Place(r) = Place(o)
    PROVE  r = o
<1>1. r \in Rows /\ o \in Rows
  BY DEF IsTable
<1>2. r.model = o.model
  BY <1>1, PlaceOf
<1> QED BY <1>2 DEF IsTable

\* The k-th entry is of the row at pos[k].
IsList(list, rows, pos) ==
    /\ pos \in [1..Cardinality(rows) -> rows]
    /\ list = [k \in 1..Cardinality(rows) |-> entryFromPrice(pos[k])]
    /\ \A r \in rows : \E k \in 1..Cardinality(rows) : pos[k] = r
    /\ \A j, k \in 1..Cardinality(rows) : j < k => Place(pos[j]) <= Place(pos[k])

LEMMA ListComplete ==
    ASSUME NEW rows, IsTable(rows)
    PROVE  Cardinality(rows) \in Nat /\ \E pos : IsList(PriceList(rows), rows, pos)
<1> DEFINE upTo(row) == {r \in rows : Place(r) <= Place(row)}
           rank == [row \in rows |-> Cardinality(upTo(row))]
<1>1. PICK n \in Nat : n = Cardinality(rows)
  BY FS_CardinalityType DEF IsTable
<1>2. \A r \in rows : Place(r) \in Nat
  BY PlaceOf DEF IsTable
<1>3. \A row \in rows : /\ IsFiniteSet(upTo(row)) /\ Cardinality(upTo(row)) \in Nat
                        /\ Cardinality(upTo(row)) <= n /\ Cardinality(upTo(row)) >= 1
  <2> TAKE row \in rows
  <2>1. PICK up : up = upTo(row)
    OBVIOUS
  <2>2. up \in SUBSET rows /\ row \in up
    BY <1>2, <2>1
  <2>3. IsFiniteSet(up) /\ Cardinality(up) <= n /\ Cardinality(up) \in Nat
    BY <1>1, <2>2, FS_Subset, FS_CardinalityType DEF IsTable
  <2>4. Cardinality(up) # 0
    BY <2>2, <2>3, FS_EmptySet
  <2> QED BY <2>1, <2>3, <2>4
<1>4. ASSUME NEW a \in rows, NEW b \in rows, Place(a) < Place(b) PROVE rank[a] < rank[b]
  <2>1. PICK s, t : s = upTo(a) /\ t = upTo(b)
    OBVIOUS
  <2>2. s \in SUBSET t /\ b \in t /\ b \notin s
    BY <1>2, <1>4, <2>1
  <2>3. IsFiniteSet(t) /\ Cardinality(s) \in Nat /\ Cardinality(t) \in Nat
    BY <1>3, <2>1
  <2>4. Cardinality(s) <= Cardinality(t) /\ Cardinality(s) # Cardinality(t)
    BY <2>2, <2>3, FS_Subset
  <2> QED BY <2>1, <2>3, <2>4
<1>5. rank \in [rows -> 1..n]
  BY <1>1, <1>3
<1>6. rank \in Injection(rows, 1..n)
  <2>1. ASSUME NEW a \in rows, NEW b \in rows, rank[a] = rank[b] PROVE a = b
    <3>1. rank[a] \in Nat /\ rank[b] \in Nat
      BY <1>5
    <3>2. ~(Place(a) < Place(b)) /\ ~(Place(b) < Place(a))
      BY <1>4, <2>1, <3>1
    <3>3. Place(a) = Place(b)
      BY <1>2, <3>2
    <3> QED BY <3>3, PlacesDiffer
  <2> HIDE DEF rank
  <2> QED BY <1>5, <2>1 DEF Injection, IsInjective
<1>7. rank \in Surjection(rows, 1..n)
  <2>1. IsFiniteSet(1..n) /\ Cardinality(1..n) = n
    BY FS_Interval
  <2> QED BY <1>1, <1>6, <2>1, FS_Injection
<1>8. \A k \in 1..n : \E row \in rows : rank[row] = k
  <2> HIDE DEF rank
  <2> QED BY <1>7 DEF Surjection
<1> DEFINE pos == [k \in 1..n |-> CHOOSE row \in rows : Cardinality(upTo(row)) = k]
<1>9. \A k \in 1..n : pos[k] \in rows /\ rank[pos[k]] = k
  BY <1>8
<1>10. pos \in [1..n -> rows]
  BY <1>9
<1>11. PriceList(rows) = [k \in 1..n |-> entryFromPrice(pos[k])]
  BY <1>1 DEF PriceList
<1> HIDE DEF pos, rank
<1>12. \A r \in rows : \E k \in 1..n : pos[k] = r
  <2> TAKE r \in rows
  <2>1. PICK k \in 1..n : k = rank[r]
    BY <1>5
  <2>2. pos[k] = r
    BY <1>6, <1>9, <2>1 DEF Injection, IsInjective
  <2> QED BY <2>2
<1>13. ASSUME NEW j \in 1..n, NEW k \in 1..n, j < k PROVE Place(pos[j]) <= Place(pos[k])
  <2>1. PICK a \in rows, b \in rows : a = pos[j] /\ b = pos[k] /\ rank[a] = j /\ rank[b] = k
    BY <1>9
  <2>2. ~(Place(b) < Place(a))
    BY <1>4, <1>13, <2>1
  <2> QED BY <1>2, <2>1, <2>2
<1> QED BY <1>1, <1>10, <1>11, <1>12, <1>13 DEF IsList

-----------------------------------------------------------------------------
\* The recursive function FoldLeft folds with, see MapThenFoldSet of Folds.
Folding(base, q, it, s) == IF s = {} THEN base ELSE put(it[s \ {Max(s)}], q[Max(s)])
IsFold(it, base, q) == it = [s \in SUBSET DOMAIN q |-> Folding(base, q, it, s)]

Puts(base, q) == FoldLeft(put, base, q)

LEMMA FoldChosen ==
    \A base, q : Puts(base, q) = (CHOOSE it : IsFold(it, base, q))[DOMAIN q]
  BY DEF Puts, FoldLeft, MapThenFoldSet, IsFold, Folding

LEMMA FoldExists ==
    ASSUME NEW base, NEW q, NEW n \in Nat, DOMAIN q = 1..n
    PROVE  \E it : IsFold(it, base, q)
<1> DEFINE D == 1..n
           Upto(g, m) == \A s \in SUBSET D : Cardinality(s) <= m => g[s] = Folding(base, q, g, s)
           T == {m \in Nat : \E g : Upto(g, m)}
<1>0. IsFiniteSet(D) /\ \A s \in SUBSET D : IsFiniteSet(s) /\ Cardinality(s) \in Nat
  <2>1. IsFiniteSet(D)
    BY FS_Interval
  <2> HIDE DEF D
  <2> QED BY <2>1, FS_Subset, FS_CardinalityType
<1>1. 0 \in T
  <2> DEFINE g == [s \in SUBSET D |-> base]
  <2>1. ASSUME NEW s \in SUBSET D, Cardinality(s) <= 0 PROVE g[s] = Folding(base, q, g, s)
    <3>1. s = {}
      BY <1>0, <2>1, FS_EmptySet
    <3> QED BY <3>1 DEF Folding
  <2> HIDE DEF g
  <2>2. Upto(g, 0)
    BY <2>1
  <2> QED BY <2>2
<1>2. ASSUME NEW m \in Nat, m \in T PROVE m + 1 \in T
  <2>1. PICK g : Upto(g, m)
    BY <1>2
  <2> DEFINE h == [s \in SUBSET D |-> IF Cardinality(s) = m + 1 THEN Folding(base, q, g, s) ELSE g[s]]
  <2>2. ASSUME NEW s \in SUBSET D, Cardinality(s) <= m + 1 PROVE h[s] = Folding(base, q, h, s)
    <3>1. CASE s = {}
      <4>1. h[s] = g[s] /\ g[s] = Folding(base, q, g, s)
        BY <2>1, <3>1, FS_EmptySet
      <4> QED BY <3>1, <4>1 DEF Folding
    <3>2. CASE s # {}
      <4> DEFINE r == s \ {Max(s)}
      <4>1. r \in SUBSET D /\ Cardinality(r) \in Nat /\ Cardinality(s) = Cardinality(r) + 1
        BY <1>0, <3>2, HasMax, FewerElements
      <4>2. Cardinality(r) <= m /\ Cardinality(r) # m + 1
        BY <2>2, <4>1
      <4>3. h[r] = g[r]
        BY <4>1, <4>2
      <4>4. Folding(base, q, h, s) = Folding(base, q, g, s)
        BY <4>3 DEF Folding
      <4>5. CASE Cardinality(s) = m + 1
        BY <4>4, <4>5
      <4>6. CASE Cardinality(s) # m + 1
        <5>1. Cardinality(s) <= m
          BY <2>2, <4>1, <4>6
        <5> QED BY <2>1, <4>4, <4>6, <5>1
      <4> QED BY <4>5, <4>6
    <3> QED BY <3>1, <3>2
  <2> HIDE DEF h
  <2>3. Upto(h, m + 1)
    BY <2>2
  <2> QED BY <2>3
<1> HIDE DEF T
<1>3. Cardinality(D) \in T
  BY <1>0, <1>1, <1>2, NatRange
<1> USE DEF T
<1>4. PICK g : Upto(g, Cardinality(D))
  BY <1>3
<1> DEFINE it == [s \in SUBSET D |-> g[s]]
<1>5. ASSUME NEW s \in SUBSET D PROVE it[s] = Folding(base, q, it, s)
  <2>1. Cardinality(s) <= Cardinality(D)
    BY <1>0, FS_Subset
  <2>2. g[s] = Folding(base, q, g, s)
    BY <1>4, <2>1
  <2>3. s # {} => it[s \ {Max(s)}] = g[s \ {Max(s)}]
    OBVIOUS
  <2> QED BY <2>2, <2>3 DEF Folding
<1>6. it = [s \in SUBSET D |-> it[s]]
  OBVIOUS
<1> HIDE DEF it
<1>7. it = [s \in SUBSET D |-> Folding(base, q, it, s)]
  BY <1>5, <1>6
<1> QED BY <1>7 DEF IsFold

\* A fold is a run of steps, one for each element.
IsRun(h, base, q, n) ==
    h[0] = base /\ (\A i \in Nat : i < n => h[i + 1] = put(h[i], q[i + 1])) /\ Puts(base, q) = h[n]

LEMMA FoldSteps ==
    ASSUME NEW base, NEW q, NEW n \in Nat, DOMAIN q = 1..n
    PROVE  \E h : IsRun(h, base, q, n)
<1>1. PICK it : it = (CHOOSE x : IsFold(x, base, q))
  OBVIOUS
<1>2. IsFold(it, base, q)
  BY <1>1, FoldExists
<1>3. \A s \in SUBSET (1..n) : it[s] = Folding(base, q, it, s)
  BY <1>2 DEF IsFold
<1> DEFINE h == [i \in 0..n |-> it[1..i]]
<1>4. h[0] = base
  <2>1. 1..0 = {} /\ 0 \in 0..n
    OBVIOUS
  <2>2. it[1..0] = base
    BY <1>3, <2>1 DEF Folding
  <2> QED BY <2>1, <2>2
<1>5. ASSUME NEW i \in Nat, i < n PROVE h[i + 1] = put(h[i], q[i + 1])
  <2>1. PICK s : s = 1..i + 1
    OBVIOUS
  <2>2. s \in SUBSET (1..n) /\ s # {} /\ i + 1 \in s /\ \A y \in s : y \in Int /\ i + 1 >= y
    <3>1. i + 1 <= n /\ i + 1 \in s /\ \A y \in s : y \in 1..n /\ i + 1 >= y
      BY <1>5, <2>1
    <3> QED BY <3>1
  <2>3. Max(s) \in s /\ Max(s) >= i + 1
    BY <2>2, HasMax
  <2>4. Max(s) = i + 1
    <3>1. PICK x : x = Max(s)
      OBVIOUS
    <3>2. x \in Int /\ x >= i + 1 /\ i + 1 >= x
      BY <2>2, <2>3, <3>1
    <3>3. x = i + 1
      BY <3>2
    <3> QED BY <3>1, <3>3
  <2>5. s \ {i + 1} = 1..i
    BY <2>1
  <2>6. it[s] = put(it[1..i], q[i + 1])
    BY <1>3, <2>2, <2>4, <2>5 DEF Folding
  <2>7. i \in 0..n /\ i + 1 \in 0..n
    BY <1>5
  <2> QED BY <2>1, <2>6, <2>7
<1>6. Puts(base, q) = h[n]
  <2>1. Puts(base, q) = it[DOMAIN q]
    BY <1>1, FoldChosen
  <2> QED BY <2>1
<1> HIDE DEF h
<1> QED BY <1>4, <1>5, <1>6 DEF IsRun

-----------------------------------------------------------------------------
\* The index: a key belongs to the first turn that has it.

FirstOf(h, q, m) ==
    /\ \A key : key \in DOMAIN h[m] <=> \E j \in 1..m : key \in q[j].keys
    /\ \A key \in DOMAIN h[m] :
          \E j \in 1..m : /\ key \in q[j].keys /\ h[m][key] = q[j].entry
                          /\ \A l \in 1..m : l < j => key \notin q[l].keys

LEMMA FirstComes ==
    ASSUME NEW q, NEW n \in Nat, NEW h, IsRun(h, <<>>, q, n)
    PROVE  FirstOf(h, q, n)
<1> DEFINE T == {m \in Nat : m <= n => FirstOf(h, q, m)}
<1>1. 0 \in T
  <2>1. h[0] = <<>> /\ DOMAIN h[0] = {} /\ 1..0 = {}
    BY DEF IsRun
  <2>2. FirstOf(h, q, 0)
    BY <2>1 DEF FirstOf
  <2> QED BY <2>2
<1>2. ASSUME NEW m \in Nat, m \in T PROVE m + 1 \in T
  <2> SUFFICES ASSUME m + 1 <= n PROVE FirstOf(h, q, m + 1)
    OBVIOUS
  <2>1. FirstOf(h, q, m) /\ h[m + 1] = put(h[m], q[m + 1])
    BY <1>2 DEF IsRun
  <2>2. PICK f, g, turn : f = h[m] /\ g = h[m + 1] /\ turn = q[m + 1]
    OBVIOUS
  <2>3. /\ DOMAIN g = DOMAIN f \cup turn.keys
        /\ \A key \in DOMAIN g : g[key] = IF key \in DOMAIN f THEN f[key] ELSE turn.entry
    BY <2>1, <2>2 DEF put
  <2>4. \A j : j \in 1..m + 1 <=> j \in 1..m \/ j = m + 1
    OBVIOUS
  <2>5. \A key : key \in DOMAIN f <=> \E j \in 1..m : key \in q[j].keys
    BY <2>1, <2>2 DEF FirstOf
  <2>6. \A key : key \in DOMAIN g <=> \E j \in 1..m + 1 : key \in q[j].keys
    BY <2>2, <2>3, <2>4, <2>5
  <2>7. ASSUME NEW key \in DOMAIN g
        PROVE  \E j \in 1..m + 1 : /\ key \in q[j].keys /\ g[key] = q[j].entry
                                   /\ \A l \in 1..m + 1 : l < j => key \notin q[l].keys
    <3>1. CASE key \in DOMAIN f
      <4>1. PICK j \in 1..m : /\ key \in q[j].keys /\ f[key] = q[j].entry
                              /\ \A l \in 1..m : l < j => key \notin q[l].keys
        BY <2>1, <2>2, <3>1 DEF FirstOf
      <4>2. ~(m + 1 < j)
        OBVIOUS
      <4>3. \A l \in 1..m + 1 : l < j => key \notin q[l].keys
        BY <2>4, <4>1, <4>2
      <4> QED BY <2>3, <2>4, <3>1, <4>1, <4>3
    <3>2. CASE key \notin DOMAIN f
      <4>1. key \in turn.keys /\ g[key] = turn.entry
        BY <2>3, <3>2
      <4>2. \A l \in 1..m : key \notin q[l].keys
        BY <2>5, <3>2
      <4>3. \A l \in 1..m + 1 : l < m + 1 => l \in 1..m
        OBVIOUS
      <4>4. m + 1 \in 1..m + 1
        OBVIOUS
      <4> QED BY <2>2, <4>1, <4>2, <4>3, <4>4
    <3> QED BY <3>1, <3>2
  <2> QED BY <2>2, <2>6, <2>7 DEF FirstOf
<1> HIDE DEF T
<1>3. n \in T
  BY <1>1, <1>2, NatRange
<1> QED BY <1>3 DEF T

\* The turns of a listed table of n rows: each row first by its own name, then by its other names.
AreTurns(q, n, pos) ==
    /\ DOMAIN q = 1..n + n
    /\ \A i \in 1..n : /\ q[i].entry = entryFromPrice(pos[i])
                       /\ q[i].keys = {lower(pos[i].model)}
                       /\ q[n + i].entry = entryFromPrice(pos[i])
                       /\ \A key : Speaks(pos[i], key) <=> key \in q[i].keys \/ key \in q[n + i].keys

LEMMA TurnsOf ==
    ASSUME NEW rows, IsTable(rows), NEW n \in Nat, n = Cardinality(rows),
           NEW list, NEW pos, IsList(list, rows, pos), NEW q, q = Turns(list)
    PROVE  AreTurns(q, n, pos)
<1> DEFINE turn(i, which) == [entry |-> list[i], keys |-> {candidateNames(list[i].model)[j] : j \in which}]
           one == [i \in 1..n |-> turn(i, {1})]
           two == [i \in 1..n |-> turn(i, 2..4)]
<1>1. DOMAIN list = 1..n /\ \A i \in 1..n : list[i] = entryFromPrice(pos[i])
  BY DEF IsList
<1>2. q = one \o two
  BY <1>1 DEF Turns
<1>3. one \in Seq(Range(one)) /\ two \in Seq(Range(two)) /\ Len(one) = n /\ Len(two) = n
  <2> SUFFICES ASSUME NEW f, DOMAIN f = 1..n, f = [i \in 1..n |-> f[i]] PROVE f \in Seq(Range(f)) /\ Len(f) = n
    BY DEF one, two
  <2>1. f \in [1..n -> Range(f)]
    BY DEF Range
  <2> QED BY <2>1
<1>4. DOMAIN q = 1..n + n /\ \A i \in 1..n : q[i] = one[i] /\ q[n + i] = two[i]
  <2> HIDE DEF one, two
  <2>1. PICK s, t : s = Range(one) /\ t = Range(two)
    OBVIOUS
  <2>2. one \in Seq(s \cup t) /\ two \in Seq(s \cup t)
    BY <1>3, <2>1
  <2> QED BY <1>2, <1>3, <2>2
<1>5. ASSUME NEW i \in 1..n
      PROVE  /\ q[i].entry = entryFromPrice(pos[i])
             /\ q[i].keys = {lower(pos[i].model)}
             /\ q[n + i].entry = entryFromPrice(pos[i])
             /\ \A key : Speaks(pos[i], key) <=> key \in q[i].keys \/ key \in q[n + i].keys
  <2>1. list[i].model = pos[i].model
    BY <1>1 DEF entryFromPrice
  <2>2. PICK c : c = candidateNames(pos[i].model)
    OBVIOUS
  <2>3. DOMAIN c = 1..4 /\ c[1] = lower(pos[i].model)
    BY <2>2 DEF candidateNames
  <2>6. {c[j] : j \in {1}} = {c[1]} /\ {c[j] : j \in 2..4} = {c[2], c[3], c[4]}
    OBVIOUS
  <2>4. q[i] = [entry |-> list[i], keys |-> {c[1]}] /\ q[n + i] = [entry |-> list[i], keys |-> {c[2], c[3], c[4]}]
    BY <1>4, <2>1, <2>2, <2>6
  <2>5. \A key : Speaks(pos[i], key) <=> key \in {c[1], c[2], c[3], c[4]}
    BY <2>2, <2>3 DEF Speaks
  <2> QED BY <1>1, <2>3, <2>4, <2>5
<1> QED BY <1>4, <1>5 DEF AreTurns

\* An index built from a table answers with the row the book names.
LEMMA IndexKeeps ==
    ASSUME NEW rows, IsTable(rows), NEW idx, idx = IndexPrices(PriceList(rows))
    PROVE  /\ \A key : key \in DOMAIN idx <=> \E row \in rows : Speaks(row, key)
           /\ \A key \in DOMAIN idx :
                 \E row \in rows : /\ Speaks(row, key) /\ idx[key] = entryFromPrice(row)
                                   /\ \A other \in rows : Speaks(other, key) => Before(row, other, key)
<1>1. PICK n \in Nat : n = Cardinality(rows)
  BY ListComplete
<1>2. PICK list, pos : list = PriceList(rows) /\ IsList(list, rows, pos)
  BY ListComplete
<1>3. PICK q : q = Turns(list)
  OBVIOUS
<1>4. /\ DOMAIN q = 1..n + n
      /\ \A i \in 1..n : /\ q[i].entry = entryFromPrice(pos[i])
                         /\ q[i].keys = {lower(pos[i].model)}
                         /\ q[n + i].entry = entryFromPrice(pos[i])
                         /\ \A key : Speaks(pos[i], key) <=> key \in q[i].keys \/ key \in q[n + i].keys
  <2>1. AreTurns(q, n, pos)
    BY <1>1, <1>2, <1>3, TurnsOf
  <2> QED BY <2>1 DEF AreTurns
<1>5. PICK m \in Nat : m = n + n
  OBVIOUS
<1>6. PICK h : IsRun(h, <<>>, q, m)
  BY <1>4, <1>5, FoldSteps
<1>7. FirstOf(h, q, m) /\ h[m] = idx
  BY <1>2, <1>3, <1>6, FirstComes DEF IsRun, Puts, IndexPrices
<1>8. /\ \A i \in 1..n : pos[i] \in rows
      /\ \A r \in rows : \E k \in 1..n : pos[k] = r
      /\ \A j, k \in 1..n : j < k => Place(pos[j]) <= Place(pos[k])
  BY <1>1, <1>2 DEF IsList
<1>9. \A j \in 1..m : j \in 1..n \/ \E i \in 1..n : j = n + i
  <2> TAKE j \in 1..m
  <2>1. CASE j > n
    <3>1. j - n \in 1..n /\ j = n + (j - n)
      BY <1>5, <2>1
    <3> QED BY <3>1
  <2> QED BY <1>5, <2>1
<1>10. \A i \in 1..n : i \in 1..m /\ n + i \in 1..m
  BY <1>5
<1>11. \A r \in rows : Place(r) \in Nat
  BY PlaceOf DEF IsTable
<1>12. ASSUME NEW key
       PROVE  key \in DOMAIN idx <=> \E row \in rows : Speaks(row, key)
  <2>1. key \in DOMAIN idx <=> \E j \in 1..m : key \in q[j].keys
    BY <1>7 DEF FirstOf
  <2>2. ASSUME NEW j \in 1..m, key \in q[j].keys PROVE \E row \in rows : Speaks(row, key)
    BY <1>4, <1>8, <1>9, <2>2
  <2>3. ASSUME NEW row \in rows, Speaks(row, key) PROVE \E j \in 1..m : key \in q[j].keys
    BY <1>4, <1>8, <1>10, <2>3
  <2> QED BY <2>1, <2>2, <2>3
<1>13. ASSUME NEW key \in DOMAIN idx
       PROVE  \E row \in rows : /\ Speaks(row, key) /\ idx[key] = entryFromPrice(row)
                                /\ \A other \in rows : Speaks(other, key) => Before(row, other, key)
  <2>1. PICK j \in 1..m : /\ key \in q[j].keys /\ idx[key] = q[j].entry
                          /\ \A l \in 1..m : l < j => key \notin q[l].keys
    BY <1>7 DEF FirstOf
  <2>2. PICK i \in 1..n : j = i \/ j = n + i
    BY <1>9
  <2>3. PICK row \in rows : row = pos[i]
    BY <1>8
  <2>4. Speaks(row, key) /\ idx[key] = entryFromPrice(row)
    BY <1>4, <2>1, <2>2, <2>3
  <2>5. ASSUME NEW other \in rows, Speaks(other, key) PROVE Before(row, other, key)
    <3>1. PICK k \in 1..n : other = pos[k]
      BY <1>8
    <3>2. key \in q[k].keys \/ key \in q[n + k].keys
      BY <1>4, <2>5, <3>1
    <3>3. ~(k < j /\ key \in q[k].keys) /\ ~(n + k < j /\ key \in q[n + k].keys)
      BY <1>10, <2>1
    <3>4. (lower(row.model) = key <=> key \in q[i].keys) /\ (lower(other.model) = key <=> key \in q[k].keys)
      BY <1>4, <2>3, <3>1
    <3>5. i <= k => Place(row) <= Place(other)
      BY <1>8, <1>11, <2>3, <3>1
    <3>6. Place(row) \in Nat /\ Place(other) \in Nat
      BY <1>11
    <3>7. CASE lower(row.model) = key
      <4>1. lower(other.model) = key => i <= k
        <5>1. CASE j = i
          BY <3>3, <3>4, <5>1
        <5>2. CASE j = n + i
          <6>1. i < j /\ i \in 1..m
            BY <1>10, <5>2
          <6> QED BY <2>1, <3>4, <3>7, <6>1
        <5> QED BY <2>2, <5>1, <5>2
      <4> QED BY <3>5, <3>7, <4>1 DEF Before
    <3>8. CASE lower(row.model) # key
      <4>1. j = n + i
        BY <2>1, <2>2, <3>4, <3>8
      <4>2. k < j /\ lower(other.model) # key
        BY <3>3, <3>4, <4>1
      <4>3. i <= k
        BY <3>2, <3>3, <3>4, <4>1, <4>2
      <4> QED BY <3>5, <3>8, <4>2, <4>3 DEF Before
    <3> QED BY <3>7, <3>8
  <2> QED BY <2>4, <2>5
<1> QED BY <1>12, <1>13

-----------------------------------------------------------------------------
\* The row that prices a name.

LEMMA BeforeOnce ==
    ASSUME NEW rows, IsTable(rows), NEW r \in rows, NEW o \in rows, NEW key,
           Before(r, o, key), Before(o, r, key)
    PROVE  r = o
<1>1. Place(r) \in Nat /\ Place(o) \in Nat
  BY PlaceOf DEF IsTable
<1>2. Place(r) = Place(o)
  BY <1>1 DEF Before
<1> QED BY <1>2, PlacesDiffer

\* What a request is priced by is the row of the book, if there is one.
LEMMA MatchIsBook ==
    ASSUME NEW rows, IsTable(rows), NEW name, NEW idx, idx = IndexPrices(PriceList(rows))
    PROVE  /\ ~Priced(idx, name) => BookRow(rows, name) = {}
           /\ Priced(idx, name) =>
                 \E row \in rows : BookRow(rows, name) = {row} /\ MatchPrice(idx, name) = entryFromPrice(row)
<1> DEFINE cand == candidateNames(name)
           spoken == {i \in 1..4 : \E row \in rows : Speaks(row, cand[i])}
<1>1. \A key : key \in DOMAIN idx <=> \E row \in rows : Speaks(row, key)
  BY IndexKeeps
<1>2. Hits(idx, name) = spoken
  BY <1>1 DEF Hits
<1>3. CASE spoken = {}
  BY <1>2, <1>3 DEF Priced, BookRow
<1>4. CASE spoken # {}
  <2>1. spoken \in SUBSET Nat
    OBVIOUS
  <2>2. PICK key : key = cand[Min(spoken)]
    OBVIOUS
  <2>3. Min(spoken) \in spoken
    BY <1>4, <2>1, HasMin
  <2>4. key \in DOMAIN idx
    BY <1>1, <2>2, <2>3
  <2>5. PICK row \in rows : /\ Speaks(row, key) /\ idx[key] = entryFromPrice(row)
                            /\ \A other \in rows : Speaks(other, key) => Before(row, other, key)
    BY <2>4, IndexKeeps
  <2>6. BookRow(rows, name) =
          LET those == {r \in rows : Speaks(r, key)} IN {r \in those : \A other \in those : Before(r, other, key)}
    BY <1>4, <2>2 DEF BookRow
  <2>7. ASSUME NEW r \in BookRow(rows, name) PROVE r = row
    <3>1. r \in rows /\ Speaks(r, key) /\ \A other \in rows : Speaks(other, key) => Before(r, other, key)
      BY <2>6
    <3> QED BY <2>5, <3>1, BeforeOnce
  <2>8. row \in BookRow(rows, name)
    BY <2>5, <2>6
  <2>9. BookRow(rows, name) = {row}
    BY <2>7, <2>8
  <2>10. MatchPrice(idx, name) = idx[key]
    BY <1>2, <2>2 DEF MatchPrice
  <2>11. Priced(idx, name)
    BY <1>2, <1>4 DEF Priced
  <2> HIDE DEF spoken, cand
  <2> QED BY <2>5, <2>9, <2>10, <2>11
<1> QED BY <1>3, <1>4

-----------------------------------------------------------------------------
\* The hour, the rates and the sum.

LEMMA DaysAgree ==
    ASSUME NEW day \in Int
    PROVE  Weekday(day) = 1 + ((day + 3) % 7)
<1>1. PICK d, e : d = (day + 4) % 7 /\ e = (day + 3) % 7
  OBVIOUS
<1>2. d \in 0..6 /\ e \in 0..6 /\ (d = 0 => e = 6) /\ (d # 0 => e = d - 1)
  BY <1>1
<1>3. Weekday(day) = IF d = 0 THEN 7 ELSE d
  BY <1>1 DEF Weekday
<1> QED BY <1>1, <1>2, <1>3

LEMMA PeakAgrees ==
    ASSUME NEW p, p.window \in Windows, NEW at \in Int, NEW cal
    PROVE  (p.window # NoWindow /\ ~IsPeak(p.window, at, cal)) <=> OffPeak(p, at, cal)
<1>1. PICK w \in Windows : w = p.window
  OBVIOUS
<1>2. PICK hour \in Int : hour = (at + 8) % 24
  OBVIOUS
<1>3. PICK day \in Int : day = dayOf(at)
  BY DEF dayOf, beijing
<1>4. PICK wd : wd = Weekday(day) /\ wd = 1 + ((day + 3) % 7)
  BY DaysAgree
<1>5. \A s \in w.spans : (s[1] <= hour /\ hour < s[2]) <=> hour \in s[1]..(s[2] - 1)
  <2>1. \A s \in w.spans : s[1] \in Int /\ s[2] \in Int
    BY DEF Windows, Spans
  <2> QED BY <2>1
<1>6. PICK kind : kind = kindOf(cal, day)
  OBVIOUS
<1>7. w.skipHoliday \in BOOLEAN /\ w.makeupWorkday \in BOOLEAN
  BY DEF Windows
<1>8. IsPeak(w, at, cal) <=>
        \/ w = NoWindow
        \/ /\ ~(w.skipHoliday /\ kind = "holiday")
           /\ wd \in w.days \/ (w.makeupWorkday /\ kind = "workday")
           /\ \E s \in w.spans : s[1] <= hour /\ hour < s[2]
  BY <1>2, <1>3, <1>4, <1>6 DEF IsPeak, beijing
<1>9. OffPeak(p, at, cal) <=>
        /\ w # NoWindow
        /\ LET working == IF kind = "holiday" /\ w.skipHoliday THEN FALSE
                          ELSE IF kind = "workday" /\ w.makeupWorkday THEN TRUE
                          ELSE wd \in w.days
           IN  ~working \/ \A s \in w.spans : hour \notin s[1]..(s[2] - 1)
  BY <1>1, <1>2, <1>3, <1>4, <1>6 DEF OffPeak
<1> QED BY <1>1, <1>5, <1>7, <1>8, <1>9

LEMMA FirstOfThree ==
    ASSUME NEW a \in Int, NEW b \in Int, NEW c \in Int
    PROVE  FirstSet(<<a, b, c>>) = IF a > 0 THEN a ELSE IF b > 0 THEN b ELSE IF c > 0 THEN c ELSE 0
<1> DEFINE set == {i \in 1..3 : <<a, b, c>>[i] > 0}
<1>1. FirstSet(<<a, b, c>>) = IF set = {} THEN 0 ELSE <<a, b, c>>[Min(set)]
  BY DEF FirstSet
<1>2. (1 \in set <=> a > 0) /\ (2 \in set <=> b > 0) /\ (3 \in set <=> c > 0)
  OBVIOUS
<1>3. \A i \in set : i \in {1, 2, 3}
  OBVIOUS
<1>4. set # {} => Min(set) \in set /\ \A y \in set : Min(set) <= y
  BY HasMin
<1> HIDE DEF set
<1>5. PICK m : m = Min(set)
  OBVIOUS
<1>6. set # {} => m = IF a > 0 THEN 1 ELSE IF b > 0 THEN 2 ELSE 3
  BY <1>2, <1>3, <1>4, <1>5
<1> QED BY <1>1, <1>2, <1>3, <1>5, <1>6

LEMMA RatesAgree ==
    ASSUME NEW p \in Terms, NEW at \in Int, NEW prompt \in Int, NEW cal
    PROVE  /\ Rates(p, at, prompt, cal).in = BookRate(p, "in", at, prompt, cal)
           /\ Rates(p, at, prompt, cal).out = BookRate(p, "out", at, prompt, cal)
           /\ Rates(p, at, prompt, cal).read = BookRate(p, "read", at, prompt, cal)
           /\ Rates(p, at, prompt, cal).write = BookRate(p, "write", at, prompt, cal)
           /\ \A f \in {"in", "out", "read", "write"} : BookRate(p, f, at, prompt, cal) \in Int
<1>1. /\ p.base \in Amounts /\ p.off \in Amounts /\ p.above \in Amounts /\ p.window \in Windows
      /\ p.base.in >= 0 /\ p.base.out >= 0 /\ p.threshold \in Int
  BY DEF Terms
<1> DEFINE off == p.window # NoWindow /\ ~IsPeak(p.window, at, cal)
           over == p.threshold > 0 /\ prompt > p.threshold
           timed == IF off THEN [in    |-> IF p.off.in > 0 THEN p.off.in ELSE p.base.in,
                                 out   |-> IF p.off.out > 0 THEN p.off.out ELSE p.base.out,
                                 read  |-> p.off.read,
                                 write |-> p.off.write]
                    ELSE p.base
           tiered == IF over THEN [f \in DOMAIN timed |-> IF p.above[f] > 0 THEN p.above[f] ELSE timed[f]]
                     ELSE timed
<1>2. Rates(p, at, prompt, cal) =
        [tiered EXCEPT !.read  = IF @ <= 0 THEN tiered.in ELSE @,
                       !.write = IF @ <= 0 THEN tiered.in ELSE @]
  BY DEF Rates
<1>3. off \in BOOLEAN /\ over \in BOOLEAN /\ off = OffPeak(p, at, cal)
  <2>1. off <=> OffPeak(p, at, cal)
    BY <1>1, PeakAgrees
  <2>2. off \in BOOLEAN /\ OffPeak(p, at, cal) \in BOOLEAN
    BY DEF OffPeak
  <2>3. over \in BOOLEAN
    OBVIOUS
  <2> QED BY <2>1, <2>2, <2>3
<1>4. over <=> p.threshold > 0 /\ prompt > p.threshold
  OBVIOUS
<1> HIDE DEF off, over
<1>5. /\ timed \in Amounts
      /\ timed.in = IF off /\ p.off.in > 0 THEN p.off.in ELSE p.base.in
      /\ timed.out = IF off /\ p.off.out > 0 THEN p.off.out ELSE p.base.out
      /\ timed.read = IF off THEN p.off.read ELSE p.base.read
      /\ timed.write = IF off THEN p.off.write ELSE p.base.write
  BY <1>1, <1>3 DEF Amounts
<1> HIDE DEF timed
<1>6. /\ tiered \in Amounts
      /\ \A f \in {"in", "out", "read", "write"} :
            tiered[f] = IF over /\ p.above[f] > 0 THEN p.above[f] ELSE timed[f]
  <2>1. DOMAIN timed = {"in", "out", "read", "write"}
    BY <1>5 DEF Amounts
  <2>2. \A f \in DOMAIN timed : p.above[f] \in Int /\ timed[f] \in Int
    BY <1>1, <1>5, <2>1 DEF Amounts
  <2>3. PICK g : g = [f \in DOMAIN timed |-> IF p.above[f] > 0 THEN p.above[f] ELSE timed[f]]
    OBVIOUS
  <2>4. /\ DOMAIN g = {"in", "out", "read", "write"}
        /\ \A f \in DOMAIN g : g[f] = IF p.above[f] > 0 THEN p.above[f] ELSE timed[f]
    BY <2>1, <2>3
  <2>5. g = [in |-> g["in"], out |-> g["out"], read |-> g["read"], write |-> g["write"]]
    BY <2>3, <2>4
  <2>6. g \in Amounts
    BY <2>1, <2>2, <2>4, <2>5 DEF Amounts
  <2> QED BY <1>3, <1>5, <2>1, <2>3, <2>4, <2>6
<1> HIDE DEF tiered
<1>8. PICK r : r = Rates(p, at, prompt, cal)
  OBVIOUS
<1>9. /\ r.in = tiered.in /\ r.out = tiered.out
      /\ r.read = IF tiered.read <= 0 THEN tiered.in ELSE tiered.read
      /\ r.write = IF tiered.write <= 0 THEN tiered.in ELSE tiered.write
  BY <1>2, <1>6, <1>8 DEF Amounts
<1>10. /\ timed.in \in Int /\ timed.out \in Int /\ timed.read \in Int /\ timed.write \in Int
       /\ tiered.in \in Int /\ tiered.out \in Int /\ tiered.read \in Int /\ tiered.write \in Int
       /\ p.above.in \in Int /\ p.above.out \in Int /\ p.above.read \in Int /\ p.above.write \in Int
       /\ p.off.in \in Int /\ p.off.out \in Int /\ p.off.read \in Int /\ p.off.write \in Int
       /\ p.base.in \in Int /\ p.base.out \in Int /\ p.base.read \in Int /\ p.base.write \in Int
  BY <1>1, <1>5, <1>6 DEF Amounts
<1>11. timed.in >= 0 /\ timed.out >= 0 /\ tiered.in >= 0 /\ tiered.out >= 0
  <2>1. timed.in >= 0 /\ timed.out >= 0
    BY <1>1, <1>5, <1>10
  <2> QED BY <1>6, <1>10, <2>1
<1> DEFINE tier(g) == IF over THEN p.above[g] ELSE 0
<1>12. ASSUME NEW f \in {"in", "out"}
       PROVE  FirstSet(<<tier(f), IF off THEN p.off[f] ELSE 0, p.base[f]>>) = tiered[f]
  <2>1. PICK t \in Int : t = tier(f)
    BY <1>3, <1>10
  <2>2. PICK o \in Int : o = IF off THEN p.off[f] ELSE 0
    BY <1>3, <1>10
  <2>3. PICK b \in Int : b = p.base[f] /\ b >= 0
    BY <1>1, <1>10
  <2>4. timed[f] = IF o > 0 THEN o ELSE b
    BY <1>3, <1>5, <2>2, <2>3
  <2>5. tiered[f] = IF t > 0 THEN t ELSE timed[f]
    BY <1>3, <1>6, <2>1
  <2>6. FirstSet(<<t, o, b>>) = IF t > 0 THEN t ELSE IF o > 0 THEN o ELSE IF b > 0 THEN b ELSE 0
    BY FirstOfThree
  <2> HIDE DEF tier
  <2> QED BY <2>1, <2>2, <2>3, <2>4, <2>5, <2>6
<1>13. ASSUME NEW f \in {"read", "write"}
       PROVE  FirstSet(<<tier(f), IF off THEN p.off[f] ELSE p.base[f], tiered.in>>) = r[f]
  <2>1. PICK t \in Int : t = tier(f)
    BY <1>3, <1>10
  <2>2. PICK b \in Int : b = IF off THEN p.off[f] ELSE p.base[f]
    BY <1>3, <1>10
  <2>3. timed[f] = b
    BY <1>3, <1>5, <2>2
  <2>4. tiered[f] = IF t > 0 THEN t ELSE b
    BY <1>3, <1>6, <2>1, <2>3
  <2>5. PICK input \in Int : input = tiered.in /\ input >= 0
    BY <1>10, <1>11
  <2>6. r[f] = IF tiered[f] <= 0 THEN input ELSE tiered[f]
    BY <1>9, <2>5
  <2>7. FirstSet(<<t, b, input>>) = IF t > 0 THEN t ELSE IF b > 0 THEN b ELSE IF input > 0 THEN input ELSE 0
    BY FirstOfThree
  <2> HIDE DEF tier
  <2> QED BY <2>1, <2>2, <2>4, <2>5, <2>6, <2>7
<1>14. /\ BookRate(p, "in", at, prompt, cal) = tiered.in
       /\ BookRate(p, "out", at, prompt, cal) = tiered.out
       /\ BookRate(p, "read", at, prompt, cal) = r.read
       /\ BookRate(p, "write", at, prompt, cal) = r.write
  <2>1. \A f : BookRate(p, f, at, prompt, cal) =
          LET input == FirstSet(<<tier("in"), IF off THEN p.off.in ELSE 0, p.base.in>>)
          IN  CASE f = "in"  -> input
                [] f = "out" -> FirstSet(<<tier("out"), IF off THEN p.off.out ELSE 0, p.base.out>>)
                [] OTHER     -> FirstSet(<<tier(f), IF off THEN p.off[f] ELSE p.base[f], input>>)
    BY <1>3 DEF BookRate, over
  <2> HIDE DEF tier
  <2> QED BY <1>12, <1>13, <2>1
<1>15. r.in \in Int /\ r.out \in Int /\ r.read \in Int /\ r.write \in Int
  BY <1>9, <1>10
<1> QED BY <1>8, <1>9, <1>14, <1>15

LEMMA PeriodAgrees ==
    ASSUME NEW p \in Terms, NEW at \in Int, NEW cal
    PROVE  Period(p.window, at, cal) = IF p.window = NoWindow THEN ""
                                       ELSE IF OffPeak(p, at, cal) THEN "off_peak" ELSE "peak"
<1>1. p.window \in Windows
  BY DEF Terms
<1>2. (p.window # NoWindow /\ ~IsPeak(p.window, at, cal)) <=> OffPeak(p, at, cal)
  BY <1>1, PeakAgrees
<1> QED BY <1>2 DEF Period

LEMMA NotBelowZero ==
    \A d \in Int : Max({d, 0}) = IF d >= 0 THEN d ELSE 0
<1> TAKE d \in Int
<1>1. \E x \in {d, 0} : \A y \in {d, 0} : x >= y
  OBVIOUS
<1>2. PICK m : m = Max({d, 0})
  OBVIOUS
<1>3. m \in {d, 0} /\ m >= d /\ m >= 0
  BY <1>1, <1>2 DEF Max
<1> QED BY <1>2, <1>3

\* Every request costs by the index of a table what it costs by the book.
LEMMA CostIsBook ==
    ASSUME NEW rows, IsTable(rows), NEW rate \in Nat, NEW cal, NEW name, NEW u \in Usages, NEW at \in Int
    PROVE  Cost(IndexPrices(PriceList(rows)), rate, cal, name, u, at) = BookCost(rows, rate, cal, name, u, at)
<1>1. PICK idx : idx = IndexPrices(PriceList(rows))
  OBVIOUS
<1>2. CASE ~Priced(idx, name)
  BY <1>1, <1>2, MatchIsBook DEF Cost, BookCost
<1>3. CASE Priced(idx, name)
  <2>1. PICK row \in rows : BookRow(rows, name) = {row} /\ MatchPrice(idx, name) = entryFromPrice(row)
    BY <1>1, <1>3, MatchIsBook
  <2>2. PICK b : b = row.terms
    OBVIOUS
  <2>3. PICK p : p = [b EXCEPT !.currency = CurrencyOrDefault(@)]
    OBVIOUS
  <2>4. b \in Terms
    BY <2>2 DEF IsTable, Rows
  <2>5. /\ p.base = b.base /\ p.off = b.off /\ p.window = b.window
        /\ p.threshold = b.threshold /\ p.above = b.above
        /\ p.currency = CurrencyOrDefault(b.currency)
    BY <2>3, <2>4 DEF Terms
  <2>6. MatchPrice(idx, name).terms = p
    BY <2>1, <2>2, <2>3 DEF entryFromPrice
  <2>7. (CHOOSE x \in BookRow(rows, name) : TRUE).terms = b /\ BookRow(rows, name) # {}
    BY <2>1, <2>2
  <2>8. IsCNY(p) <=> b.currency = "CNY"
    BY <2>5 DEF IsCNY, CurrencyOrDefault
  <2>9. PICK ri, ro, rr, rw :
           /\ ri = BookRate(b, "in", at, u.prompt, cal) /\ ro = BookRate(b, "out", at, u.prompt, cal)
           /\ rr = BookRate(b, "read", at, u.prompt, cal) /\ rw = BookRate(b, "write", at, u.prompt, cal)
    OBVIOUS
  <2>10. u.prompt \in Nat /\ u.cached \in Nat /\ u.written \in Nat /\ u.completion \in Nat
    BY DEF Usages
  <2>11. ri \in Int /\ ro \in Int /\ rr \in Int /\ rw \in Int
    BY <2>4, <2>9, <2>10, RatesAgree
  <2>12. PICK r : r = Rates(p, at, u.prompt, cal)
    OBVIOUS
  <2>13. r.in = ri /\ r.out = ro /\ r.read = rr /\ r.write = rw
    <3>1. p \in Terms
      BY <2>3, <2>4 DEF Terms, CurrencyOrDefault
    <3>2. OffPeak(p, at, cal) = OffPeak(b, at, cal)
      BY <2>5 DEF OffPeak
    <3>3. ASSUME NEW f PROVE BookRate(p, f, at, u.prompt, cal) = BookRate(b, f, at, u.prompt, cal)
      BY <2>5, <3>2 DEF BookRate
    <3> QED BY <2>9, <2>10, <2>12, <3>1, <3>3, RatesAgree
  <2>15. PICK fresh \in Nat : fresh = IF u.style = "anthropic" THEN u.prompt ELSE Max({u.prompt - u.cached, 0})
    <3>1. PICK d \in Int : d = u.prompt - u.cached
      BY <2>10
    <3>2. Max({d, 0}) = IF d >= 0 THEN d ELSE 0
      BY NotBelowZero
    <3> QED BY <2>10, <3>1, <3>2
  <2>16. PICK t : t = SplitInputTokens(u)
    OBVIOUS
  <2>17. /\ t.uncached = fresh /\ t.cached = u.cached
         /\ t.written = IF u.style = "anthropic" THEN u.written ELSE 0
    <3>1. PICK d \in Int : d = u.prompt - u.cached
      BY <2>10
    <3>2. Max({d, 0}) = IF d >= 0 THEN d ELSE 0
      BY NotBelowZero
    <3> QED BY <2>10, <2>15, <2>16, <3>1, <3>2 DEF SplitInputTokens
  <2> DEFINE asCode == t.uncached * r.in + t.cached * r.read + t.written * r.write + u.completion * r.out
             asBook == fresh * ri + u.cached * rr + u.completion * ro
                       + (IF u.style = "anthropic" THEN u.written * rw ELSE 0)
  <2>18. asCode = asBook
    <3>1. PICK x \in Int, y \in Int, z \in Int, w \in Int :
             x = fresh * ri /\ y = u.cached * rr /\ z = u.completion * ro /\ w = t.written * rw
      BY <2>10, <2>11, <2>17
    <3>2. w = IF u.style = "anthropic" THEN u.written * rw ELSE 0
      BY <2>10, <2>11, <2>17, <3>1
    <3>3. asCode = x + y + w + z
      BY <2>13, <2>17, <3>1
    <3>4. asBook = x + y + z + w
      BY <3>1, <3>2
    <3> HIDE DEF asCode, asBook
    <3> QED BY <3>1, <3>3, <3>4
  <2>19. Calculate(u, p, at, rate, cal) =
           IF ~IsCNY(p) THEN asCode * Micro ELSE IF rate <= 0 THEN 0 ELSE (asCode * Micro) \div rate
    BY <2>12, <2>16 DEF Calculate
  <2>20. rate <= 0 <=> rate = 0
    OBVIOUS
  <2>21. Period(p.window, at, cal) = IF b.window = NoWindow THEN ""
                                     ELSE IF OffPeak(b, at, cal) THEN "off_peak" ELSE "peak"
    BY <2>4, <2>5, PeriodAgrees
  <2>22. BookCost(rows, rate, cal, name, u, at) =
           [cost   |-> IF b.currency # "CNY" THEN asBook * Micro
                       ELSE IF rate = 0 THEN 0 ELSE (asBook * Micro) \div rate,
            period |-> IF b.window = NoWindow THEN ""
                       ELSE IF OffPeak(b, at, cal) THEN "off_peak" ELSE "peak"]
    BY <2>7, <2>9, <2>15 DEF BookCost
  <2>23. Cost(idx, rate, cal, name, u, at) =
           [cost |-> Calculate(u, p, at, rate, cal), period |-> Period(p.window, at, cal)]
    BY <1>3, <2>6 DEF Cost
  <2> HIDE DEF asCode, asBook
  <2> QED BY <1>1, <2>8, <2>18, <2>19, <2>20, <2>21, <2>22, <2>23
<1> QED BY <1>2, <1>3

-----------------------------------------------------------------------------
\* What the tables of prices and of the rate hold, and what is about to be
\* written to them.

IsPriceTable(table, top) ==
    /\ DOMAIN table \in SUBSET (1..top) /\ \A i \in DOMAIN table : table[i] \in Rows
    /\ \A i, j \in DOMAIN table : table[i].model = table[j].model => i = j

\* A row that is edited keeps its model: late edits agree with the table.
Agrees(c, table) ==
    At(c, "UpdatePrice", "write") /\ calls[c].id \in DOMAIN table =>
        table[calls[c].id].model = calls[c].row.model

Fits(c) ==
    /\ At(c, "CreatePrice", "write") => calls[c].row \in Rows
    /\ At(c, "UpdatePrice", "write") => calls[c].row \in Rows /\ calls[c].id \in 1..ids
    /\ At(c, "Sync", "write") => IsTable(calls[c].rows)
    /\ At(c, "UpdateBilling", "write") => calls[c].rate \in Nat

SameRow(c, d) ==
    At(c, "UpdatePrice", "write") /\ At(d, "UpdatePrice", "write") /\ calls[c].id = calls[d].id =>
        calls[c].row.model = calls[d].row.model

PInv ==
    /\ ids \in Nat /\ IsPriceTable(prices, ids) /\ billing \in Nat
    /\ \A c \in Callers : Fits(c) /\ Agrees(c, prices) /\ \A d \in Callers : SameRow(c, d)

LEMMA InitPInv == Init => PInv
<1> SUFFICES ASSUME Init PROVE PInv
  OBVIOUS
<1>1. prices = InitPrices /\ billing = InitRate /\ ids = 10 /\ \A c \in Callers : calls[c] = Idle
  BY DEF Init
<1>2. IsPriceTable(prices, ids) /\ billing \in Nat /\ ids \in Nat
  BY <1>1, BillAssumption DEF IsPriceTable
<1>3. \A c \in Callers : \A step : ~At(c, "CreatePrice", step) /\ ~At(c, "UpdatePrice", step)
                                   /\ ~At(c, "Sync", step) /\ ~At(c, "UpdateBilling", step)
  BY <1>1 DEF At, Idle
<1> QED BY <1>2, <1>3 DEF PInv, Fits, Agrees, SameRow

\* One caller moves, whatever it writes.
LEMMA OneMoves ==
    ASSUME PInv, NEW c \in Callers, \A d \in Callers : d # c => calls'[d] = calls[d],
           ids' \in Nat, ids' >= ids, IsPriceTable(prices', ids'), billing' \in Nat,
           Fits(c)', Agrees(c, prices)', \A d \in Callers : SameRow(c, d)',
           \A d \in Callers : d # c => Agrees(d, prices')
    PROVE  PInv'
<1>1. ASSUME NEW d \in Callers, d # c PROVE Fits(d)' /\ Agrees(d, prices)'
  <2>1. calls'[d] = calls[d] /\ Fits(d) /\ Agrees(d, prices')
    BY <1>1 DEF PInv
  <2>2. ids \in Nat
    BY DEF PInv
  <2>3. Agrees(d, prices)'
    BY <2>1 DEF Agrees, At
  <2>4. Fits(d)'
    BY <2>1, <2>2 DEF Fits, At
  <2> QED BY <2>3, <2>4
<1>2. ASSUME NEW d \in Callers, NEW e \in Callers PROVE SameRow(d, e)'
  <2>1. SameRow(e, c)' <=> SameRow(c, e)'
    BY DEF SameRow
  <2>2. CASE d = c \/ e = c
    <3>1. SameRow(c, d)' /\ SameRow(c, e)' /\ (SameRow(d, c)' <=> SameRow(c, d)')
      BY DEF SameRow
    <3> QED BY <2>2, <3>1
  <2>3. CASE d # c /\ e # c
    <3>1. SameRow(d, e) /\ calls'[d] = calls[d] /\ calls'[e] = calls[e]
      BY <2>3 DEF PInv
    <3> QED BY <3>1 DEF SameRow, At
  <2> QED BY <2>2, <2>3
<1> QED BY <1>1, <1>2 DEF PInv

\* A call that is not about to write a price or the rate.
Silent(c) ==
    calls[c].step = "write" => calls[c].op \notin {"CreatePrice", "UpdatePrice", "Sync", "UpdateBilling"}

LEMMA SilentFits ==
    ASSUME NEW c, Silent(c)
    PROVE  Fits(c) /\ (\A table : Agrees(c, table)) /\ \A d : SameRow(c, d)
  BY DEF Silent, Fits, Agrees, SameRow, At

LEMMA QuietMove ==
    ASSUME PInv, NEW c \in Callers, \A d \in Callers : d # c => calls'[d] = calls[d],
           Silent(c)', UNCHANGED <<prices, billing>>, ids' \in {ids, ids + 1}
    PROVE  PInv'
<1>1. ids \in Nat /\ ids' \in Nat /\ ids' >= ids
  BY DEF PInv
<1>2. IsPriceTable(prices', ids') /\ billing' \in Nat
  BY <1>1 DEF PInv, IsPriceTable
<1>3. \A d \in Callers : Agrees(d, prices')
  BY DEF PInv
<1>4. Fits(c)' /\ Agrees(c, prices)' /\ \A d \in Callers : SameRow(c, d)'
  BY DEF Silent, Fits, Agrees, SameRow, At
<1> QED BY <1>1, <1>2, <1>3, <1>4, OneMoves
-----------------------------------------------------------------------------
\* The rows that are about to be written.

LEMMA FormIsRow ==
    ASSUME NEW in \in PriceForms, validateRates(in), NEW n \in Range(Names)
    PROVE  [model |-> n, source |-> "manual", terms |-> applyPriceInput(in)] \in Rows
<1>1. PICK w : w = NewPeakWindow(in.window)
  OBVIOUS
<1>2. w \in Windows
  <2>1. in.window.spans \in Spans
    BY DEF PriceForms
  <2>2. PICK days : days = UNION {i[2]..i[3] : i \in {x \in in.window.items : x[1] = "days"}}
    OBVIOUS
  <2>3. days \in SUBSET Int
    BY <2>2
  <2>4. w = [days |-> days, spans |-> in.window.spans, skipHoliday |-> <<"!H">> \in in.window.items,
             makeupWorkday |-> <<"W">> \in in.window.items]
    BY <1>1, <2>2 DEF NewPeakWindow
  <2>5. PICK skip, makeup \in BOOLEAN :
           w = [days |-> days, spans |-> in.window.spans, skipHoliday |-> skip, makeupWorkday |-> makeup]
    <3>1. (<<"!H">> \in in.window.items) \in BOOLEAN /\ (<<"W">> \in in.window.items) \in BOOLEAN
      OBVIOUS
    <3> QED BY <2>4, <3>1
  <2> QED BY <2>1, <2>3, <2>5 DEF Windows
<1>3. PICK t : t = applyPriceInput(in)
  OBVIOUS
<1>4. t = [in EXCEPT !.currency = CurrencyOrDefault(@), !.window = w]
  BY <1>1, <1>3 DEF applyPriceInput
<1>5. PICK cur : cur = CurrencyOrDefault(in.currency)
  OBVIOUS
<1>6. /\ DOMAIN t = {"currency", "base", "off", "window", "threshold", "above"}
      /\ t.currency = cur /\ t.window = w /\ t.base = in.base /\ t.off = in.off
      /\ t.threshold = in.threshold /\ t.above = in.above /\ t = [f \in DOMAIN t |-> t[f]]
  BY <1>4, <1>5 DEF PriceForms
<1>7. in.base.in >= 0 /\ in.base.out >= 0
  BY DEF validateRates, Zero
<1>8. cur \in {"", "USD", "CNY"}
  BY <1>5 DEF CurrencyOrDefault
<1>9. t \in Terms
  BY <1>2, <1>6, <1>7, <1>8 DEF PriceForms, Terms
<1> QED BY <1>3, <1>9 DEF Rows

\* The row a record of the public table becomes.
SyncedRow(r) ==
    [model |-> r.model, source |-> "synced",
     terms |-> [currency |-> "USD", base |-> r.base, off |-> Zero, window |-> NoWindow,
                threshold |-> FirstThreshold(r), above |-> FirstAbove(r)]]

LEMMA FeedRow ==
    ASSUME NEW feed, IsFeed(feed), NEW r \in feed
    PROVE  SyncedRow(r) \in Rows
<1>1. /\ r.model \in Range(Names) /\ r.base \in Amounts /\ r.base.in >= 0 /\ r.base.out >= 0
      /\ DOMAIN r.above \in SUBSET Nat /\ r.above \in [DOMAIN r.above -> Amounts]
  BY DEF IsFeed
<1>2. Zero \in Amounts /\ NoWindow \in Windows
  BY DEF Zero, Amounts, NoWindow, Windows, Spans
<1>3. PICK th : th = FirstThreshold(r)
  OBVIOUS
<1>4. th \in Int /\ FirstAbove(r) \in Amounts
  <2>1. CASE DOMAIN r.above = {}
    BY <1>2, <1>3, <2>1 DEF FirstThreshold, FirstAbove
  <2>2. CASE DOMAIN r.above # {}
    <3>1. th \in DOMAIN r.above
      BY <1>1, <1>3, <2>2, HasMin DEF FirstThreshold
    <3>2. FirstAbove(r) = r.above[th]
      BY <1>3, <2>2 DEF FirstAbove
    <3> QED BY <1>1, <3>1, <3>2
  <2> QED BY <2>1, <2>2
<1>5. PICK ab \in Amounts : ab = FirstAbove(r)
  BY <1>4
<1>6. PICK t : t = [currency |-> "USD", base |-> r.base, off |-> Zero, window |-> NoWindow,
                    threshold |-> th, above |-> ab]
  OBVIOUS
<1>7. t \in Terms
  BY <1>1, <1>2, <1>4, <1>5, <1>6 DEF Terms
<1>8. SyncedRow(r) = [model |-> r.model, source |-> "synced", terms |-> t]
  BY <1>3, <1>5, <1>6 DEF SyncedRow
<1> QED BY <1>1, <1>7, <1>8 DEF Rows

LEMMA FeedIsTable ==
    ASSUME NEW feed, IsFeed(feed)
    PROVE  IsTable({syncedPrice(e) : e \in ParsePricing(feed)})
<1> DEFINE kept == {x \in feed : x.mode = "chat" /\ (x.base.in > 0 \/ x.base.out > 0)}
           parsed(r) == [model |-> r.model,
                         terms |-> [currency |-> "", base |-> r.base, off |-> Zero, window |-> NoWindow,
                                    threshold |-> FirstThreshold(r), above |-> FirstAbove(r)]]
<1>1. ParsePricing(feed) = {parsed(r) : r \in kept}
  BY DEF ParsePricing
<1>2. ASSUME NEW r PROVE syncedPrice(parsed(r)) = SyncedRow(r)
  <2>1. PICK base, th, ab : base = r.base /\ th = FirstThreshold(r) /\ ab = FirstAbove(r)
    OBVIOUS
  <2>2. PICK t : t = [currency |-> "", base |-> base, off |-> Zero, window |-> NoWindow,
                      threshold |-> th, above |-> ab]
    OBVIOUS
  <2>3. PICK v : v = [t EXCEPT !.currency = "USD", !.window = NoWindow, !.off = Zero]
    OBVIOUS
  <2>4. v = [currency |-> "USD", base |-> base, off |-> Zero, window |-> NoWindow,
             threshold |-> th, above |-> ab]
    <3>1. /\ DOMAIN v = {"currency", "base", "off", "window", "threshold", "above"}
          /\ v.currency = "USD" /\ v.base = base /\ v.off = Zero /\ v.window = NoWindow
          /\ v.threshold = th /\ v.above = ab
      BY <2>2, <2>3
    <3>2. v = [f \in DOMAIN v |-> v[f]]
      BY <2>3
    <3> QED BY <3>1, <3>2
  <2>5. PICK e : e = parsed(r)
    OBVIOUS
  <2>6. e.terms = t /\ e.model = r.model
    BY <2>1, <2>2, <2>5
  <2>7. syncedPrice(e) = [model |-> r.model, source |-> "synced", terms |-> v]
    BY <2>3, <2>6 DEF syncedPrice
  <2> HIDE DEF parsed
  <2> QED BY <2>1, <2>4, <2>5, <2>7 DEF SyncedRow
<1>3. {syncedPrice(e) : e \in ParsePricing(feed)} = {SyncedRow(r) : r \in kept}
  <2> HIDE DEF parsed, kept
  <2> QED BY <1>1, <1>2
<1>4. IsFiniteSet({SyncedRow(r) : r \in kept})
  <2>1. IsFiniteSet(kept)
    BY FS_Subset DEF IsFeed
  <2>2. PICK k : k = kept
    OBVIOUS
  <2>3. PICK f : f = [r \in k |-> SyncedRow(r)]
    OBVIOUS
  <2>4. f \in Surjection(k, {SyncedRow(r) : r \in k})
    BY <2>3 DEF Surjection
  <2>5. IsFiniteSet(k)
    BY <2>1, <2>2
  <2>6. IsFiniteSet({SyncedRow(r) : r \in k})
    BY <2>4, <2>5, FS_Surjection
  <2> QED BY <2>2, <2>6
<1>5. {SyncedRow(r) : r \in kept} \in SUBSET Rows
  BY FeedRow
<1>6. ASSUME NEW r \in kept, NEW o \in kept, SyncedRow(r).model = SyncedRow(o).model PROVE r = o
  BY <1>6 DEF SyncedRow, IsFeed
<1>7. \A x, y \in {SyncedRow(r) : r \in kept} : x.model = y.model => x = y
  <2> HIDE DEF kept
  <2> QED BY <1>6
<1> QED BY <1>3, <1>4, <1>5, <1>7 DEF IsTable

\* A call begins with what it read and was given.
LEMMA CostCallPrices ==
    ASSUME CInv, PInv, NEW c \in Callers, CostCall(c)
    PROVE  PInv'
<1>1. ASSUME NEW call, Begin(c, call)
      PROVE  calls'[c] = call /\ \A d \in Callers : d # c => calls'[d] = calls[d]
  BY <1>1, BeginCall DEF CInv
<1>2. ids \in Nat /\ ids >= ids /\ IsPriceTable(prices, ids) /\ billing \in Nat
      /\ \A d \in Callers : Agrees(d, prices)
  BY DEF PInv
<1>3. CASE CreatePrice(c)
  <2>1. PICK n \in PriceNames, in \in PriceInputs :
           /\ validateRates(in)
           /\ Begin(c, [op |-> "CreatePrice", step |-> "write",
                        row |-> [model |-> n, source |-> "manual", terms |-> applyPriceInput(in)]])
    BY <1>3 DEF CreatePrice
  <2>2. PICK row : row = [model |-> n, source |-> "manual", terms |-> applyPriceInput(in)]
    OBVIOUS
  <2>3. row \in Rows
    BY <2>1, <2>2, FormIsRow, BillAssumption
  <2>4. /\ calls'[c] = [op |-> "CreatePrice", step |-> "write", row |-> row]
        /\ \A d \in Callers : d # c => calls'[d] = calls[d]
    BY <1>1, <2>1, <2>2
  <2>5. Fits(c)' /\ Agrees(c, prices)' /\ \A d \in Callers : SameRow(c, d)'
    BY <2>3, <2>4 DEF Fits, Agrees, SameRow, At
  <2>6. UNCHANGED <<prices, billing, ids>>
    BY <1>3 DEF CreatePrice, tables
  <2> QED BY <1>2, <2>4, <2>5, <2>6, OneMoves
<1>4. CASE UpdatePrice(c)
  <2>1. PICK i \in DOMAIN prices, in \in PriceInputs :
           /\ validateRates(in)
           /\ Begin(c, [op |-> "UpdatePrice", step |-> "write", id |-> i,
                        row |-> [model |-> prices[i].model, source |-> "manual", terms |-> applyPriceInput(in)]])
    BY <1>4 DEF UpdatePrice
  <2>2. PICK row : row = [model |-> prices[i].model, source |-> "manual", terms |-> applyPriceInput(in)]
    OBVIOUS
  <2>3. prices[i].model \in Range(Names) /\ i \in 1..ids
    BY <1>2 DEF IsPriceTable, Rows
  <2>4. row \in Rows /\ row.model = prices[i].model
    BY <2>1, <2>2, <2>3, FormIsRow, BillAssumption
  <2>5. /\ calls'[c] = [op |-> "UpdatePrice", step |-> "write", id |-> i, row |-> row]
        /\ \A d \in Callers : d # c => calls'[d] = calls[d]
    BY <1>1, <2>1, <2>2
  <2>6. UNCHANGED <<prices, billing, ids>>
    BY <1>4 DEF UpdatePrice, tables
  <2>7. Fits(c)' /\ Agrees(c, prices)'
    BY <2>3, <2>4, <2>5, <2>6 DEF Fits, Agrees, At
  <2>8. ASSUME NEW d \in Callers PROVE SameRow(c, d)'
    <3>1. CASE d = c
      BY <3>1 DEF SameRow
    <3>2. CASE d # c
      <4>1. calls'[d] = calls[d] /\ Agrees(d, prices)
        BY <1>2, <2>5, <3>2
      <4> QED BY <2>4, <2>5, <4>1 DEF SameRow, Agrees, At
    <3> QED BY <3>1, <3>2
  <2> QED BY <1>2, <2>5, <2>6, <2>7, <2>8, OneMoves
<1>5. CASE DeletePrice(c)
  <2>1. PICK i \in DOMAIN prices : prices' = Without(prices, {i})
    BY <1>5 DEF DeletePrice
  <2>2. /\ calls'[c] = [op |-> "DeletePrice", step |-> "invalidate"]
        /\ \A d \in Callers : d # c => calls'[d] = calls[d]
        /\ UNCHANGED <<billing, ids>>
    BY <1>1, <1>5 DEF DeletePrice
  <2>3. DOMAIN prices' \subseteq DOMAIN prices /\ \A j \in DOMAIN prices' : prices'[j] = prices[j]
    BY <2>1 DEF Without
  <2>4. IsPriceTable(prices', ids')
    BY <1>2, <2>2, <2>3 DEF IsPriceTable
  <2>5. \A d \in Callers : Agrees(d, prices')
    BY <1>2, <2>3 DEF Agrees
  <2>6. Fits(c)' /\ Agrees(c, prices)' /\ \A d \in Callers : SameRow(c, d)'
    BY <2>2 DEF Fits, Agrees, SameRow, At
  <2> QED BY <1>2, <2>2, <2>4, <2>5, <2>6, OneMoves
<1>6. CASE Sync(c)
  <2>1. PICK feed \in Feeds :
           Begin(c, [op |-> "Sync", step |-> "write", rows |-> {syncedPrice(e) : e \in ParsePricing(feed)}])
    BY <1>6 DEF Sync
  <2>2. PICK rows : rows = {syncedPrice(e) : e \in ParsePricing(feed)}
    OBVIOUS
  <2>3. IsTable(rows)
    BY <2>2, FeedIsTable, BillAssumption
  <2>4. /\ calls'[c] = [op |-> "Sync", step |-> "write", rows |-> rows]
        /\ \A d \in Callers : d # c => calls'[d] = calls[d]
    BY <1>1, <2>1, <2>2
  <2>5. Fits(c)' /\ Agrees(c, prices)' /\ \A d \in Callers : SameRow(c, d)'
    BY <2>3, <2>4 DEF Fits, Agrees, SameRow, At
  <2>6. UNCHANGED <<prices, billing, ids>>
    BY <1>6 DEF Sync, tables
  <2> QED BY <1>2, <2>4, <2>5, <2>6, OneMoves
<1>7. CASE UpdateBilling(c)
  <2>1. PICK rate \in ExchangeRates :
           rate >= 0 /\ Begin(c, [op |-> "UpdateBilling", step |-> "write", rate |-> rate])
    BY <1>7 DEF UpdateBilling
  <2>2. rate \in Nat
    BY <2>1, BillAssumption
  <2>3. /\ calls'[c] = [op |-> "UpdateBilling", step |-> "write", rate |-> rate]
        /\ \A d \in Callers : d # c => calls'[d] = calls[d]
    BY <1>1, <2>1
  <2>4. Fits(c)' /\ Agrees(c, prices)' /\ \A d \in Callers : SameRow(c, d)'
    BY <2>2, <2>3 DEF Fits, Agrees, SameRow, At
  <2>5. UNCHANGED <<prices, billing, ids>>
    BY <1>7 DEF UpdateBilling, tables
  <2> QED BY <1>2, <2>3, <2>4, <2>5, OneMoves
<1> QED BY <1>3, <1>4, <1>5, <1>6, <1>7 DEF CostCall
-----------------------------------------------------------------------------
\* The writes.

LEMMA Writes ==
    ASSUME CInv, PInv, NEW c \in Callers, Proceed(c, "invalidate"),
           ids' \in Nat, ids' >= ids, IsPriceTable(prices', ids'), billing' \in Nat,
           \A d \in Callers : d # c => Agrees(d, prices')
    PROVE  PInv'
<1>1. calls'[c].step = "invalidate" /\ \A d \in Callers : d # c => calls'[d] = calls[d]
  BY ProceedCall DEF CInv
<1>2. Fits(c)' /\ Agrees(c, prices)' /\ \A d \in Callers : SameRow(c, d)'
  BY <1>1 DEF Fits, Agrees, SameRow, At
<1> QED BY <1>1, <1>2, OneMoves

LEMMA CreatedPrice ==
    ASSUME CInv, PInv, NEW c \in Callers, WriteCreatedPrice(c), ~HasPrice(calls[c].row.model)
    PROVE  PInv'
<1>1. PICK row, k : row = calls[c].row /\ k = ids + 1
  OBVIOUS
<1>2. /\ Proceed(c, "invalidate") /\ billing' = billing /\ ids' = k
      /\ prices' = [j \in DOMAIN prices \cup {k} |-> IF j = k THEN row ELSE prices[j]]
      /\ row \in Rows
  BY <1>1 DEF WriteCreatedPrice, Insert, Put, PInv, Fits
<1>3. \A i \in DOMAIN prices : prices[i].model # row.model
  BY <1>1 DEF HasPrice
<1>4. ids \in Nat /\ k \in Nat /\ ids' >= ids /\ k \notin 1..ids /\ 1..ids \subseteq 1..k /\ k \in 1..k
  BY <1>1, <1>2 DEF PInv
<1>5. IsPriceTable(prices, ids) /\ k \notin DOMAIN prices
  BY <1>4 DEF PInv, IsPriceTable
<1>6. /\ prices'[k] = row /\ DOMAIN prices' = DOMAIN prices \cup {k}
      /\ \A j \in DOMAIN prices : prices'[j] = prices[j]
  BY <1>2, <1>5
<1>7. IsPriceTable(prices', k)
  BY <1>2, <1>3, <1>4, <1>5, <1>6 DEF IsPriceTable
<1>8. ASSUME NEW d \in Callers PROVE Agrees(d, prices')
  <2>1. Agrees(d, prices) /\ Fits(d)
    BY DEF PInv
  <2> QED BY <1>4, <1>6, <2>1 DEF Agrees, Fits
<1> QED BY <1>2, <1>4, <1>7, <1>8, Writes DEF PInv

LEMMA UpdatedPrice ==
    ASSUME CInv, PInv, NEW c \in Callers, WriteUpdatedPrice(c),
           calls[c].id \in DOMAIN prices \/ ~HasPrice(calls[c].row.model)
    PROVE  PInv'
<1>1. PICK row, i : row = calls[c].row /\ i = calls[c].id
  OBVIOUS
<1>2. /\ Proceed(c, "invalidate") /\ billing' = billing /\ ids' = ids
      /\ prices' = [j \in DOMAIN prices \cup {i} |-> IF j = i THEN row ELSE prices[j]]
      /\ row \in Rows /\ i \in 1..ids
  BY <1>1 DEF WriteUpdatedPrice, Put, PInv, Fits
<1>3. \A j \in DOMAIN prices : prices[j].model = row.model => j = i
  <2>1. CASE i \in DOMAIN prices
    <3>1. prices[i].model = row.model
      BY <1>1, <2>1 DEF PInv, Agrees, WriteUpdatedPrice
    <3> QED BY <2>1, <3>1 DEF PInv, IsPriceTable
  <2>2. CASE i \notin DOMAIN prices
    BY <1>1, <2>2 DEF HasPrice
  <2> QED BY <2>1, <2>2
<1>4. ids \in Nat /\ ids' >= ids /\ IsPriceTable(prices, ids)
  BY <1>2 DEF PInv
<1>5. /\ prices'[i] = row /\ DOMAIN prices' = DOMAIN prices \cup {i}
      /\ \A j \in DOMAIN prices : j # i => prices'[j] = prices[j]
  BY <1>2
<1>6. IsPriceTable(prices', ids)
  BY <1>2, <1>3, <1>4, <1>5 DEF IsPriceTable
<1>7. ASSUME NEW d \in Callers PROVE Agrees(d, prices')
  <2>1. Agrees(d, prices) /\ SameRow(c, d) /\ At(c, "UpdatePrice", "write")
    BY DEF PInv, WriteUpdatedPrice
  <2> QED BY <1>1, <1>5, <2>1 DEF Agrees, SameRow
<1> QED BY <1>2, <1>4, <1>6, <1>7, Writes DEF PInv

\* A set in some order, each element once.
LEMMA InSomeOrder ==
    ASSUME NEW S, IsFiniteSet(S)
    PROVE  /\ Cardinality(S) \in Nat /\ Len(SetToSeq(S)) = Cardinality(S)
           /\ SetToSeq(S) \in [1..Cardinality(S) -> S]
           /\ \A i, j \in 1..Cardinality(S) : SetToSeq(S)[i] = SetToSeq(S)[j] => i = j
<1>1. PICK n \in Nat : n = Cardinality(S)
  BY FS_CardinalityType
<1>2. IsFiniteSet(1..n) /\ Cardinality(1..n) = n
  BY FS_Interval
<1>3. ExistsBijection(1..n, S)
  BY <1>1, <1>2, FS_SameCardinalityBij
<1>4. \E f \in [1..n -> S] : IsInjective(f)
  BY <1>3 DEF ExistsBijection, Bijection, Injection
<1>5. PICK f : f = SetToSeq(S)
  OBVIOUS
<1>6. f \in [1..n -> S] /\ IsInjective(f)
  BY <1>1, <1>4, <1>5 DEF SetToSeq
<1>7. f \in Seq(S) /\ Len(f) = n
  BY <1>6
<1> QED BY <1>1, <1>5, <1>6, <1>7 DEF IsInjective

LEMMA SyncedPrices ==
    ASSUME CInv, PInv, NEW c \in Callers, WriteSynced(c)
    PROVE  PInv'
<1>1. PICK rows : rows = calls[c].rows
  OBVIOUS
<1>2. ReplaceSynced(rows) /\ IsTable(rows) /\ Proceed(c, "invalidate") /\ billing' = billing
  BY <1>1 DEF WriteSynced, PInv, Fits
<1>3. PICK manual : manual = {i \in DOMAIN prices : prices[i].source = "manual"}
  OBVIOUS
<1>4. PICK new : new = {r \in rows : \A i \in manual : prices[i].model # r.model}
  OBVIOUS
<1>5. PICK batch, n : batch = SetToSeq(new) /\ n = Cardinality(new)
  OBVIOUS
<1>6. new \in SUBSET rows /\ IsFiniteSet(new)
  BY <1>2, <1>4, FS_Subset DEF IsTable
<1>7. /\ n \in Nat /\ Len(batch) = n /\ batch \in [1..n -> new]
      /\ \A i, j \in 1..n : batch[i] = batch[j] => i = j
  BY <1>5, <1>6, InSomeOrder
<1>8. /\ prices' = [i \in manual \cup (ids + 1..ids + n) |->
                         IF i \in manual THEN prices[i] ELSE batch[i - ids]]
      /\ ids' = ids + n
  BY <1>2, <1>3, <1>4, <1>5, <1>7 DEF ReplaceSynced
<1>9. ids \in Nat /\ ids' \in Nat /\ ids' >= ids /\ IsPriceTable(prices, ids)
  BY <1>7, <1>8 DEF PInv
<1>10. manual \subseteq DOMAIN prices /\ manual \subseteq 1..ids
  BY <1>3, <1>9 DEF IsPriceTable
<1>11. \A i \in ids + 1..ids + n : i \notin manual /\ i - ids \in 1..n /\ i \in 1..ids'
  BY <1>7, <1>8, <1>9, <1>10
<1>12. /\ DOMAIN prices' = manual \cup (ids + 1..ids + n)
       /\ \A i \in manual : prices'[i] = prices[i]
       /\ \A i \in ids + 1..ids + n : prices'[i] = batch[i - ids]
  BY <1>8, <1>11
<1>13. \A i \in ids + 1..ids + n : prices'[i] \in new
  BY <1>7, <1>11, <1>12
<1>14. DOMAIN prices' \in SUBSET (1..ids')
  BY <1>8, <1>9, <1>10, <1>11, <1>12
<1>15. \A i \in DOMAIN prices' : prices'[i] \in Rows
  BY <1>2, <1>6, <1>9, <1>10, <1>12, <1>13 DEF IsTable, IsPriceTable
<1>16. ASSUME NEW i \in DOMAIN prices', NEW j \in DOMAIN prices', prices'[i].model = prices'[j].model
       PROVE  i = j
  <2>1. CASE i \in manual /\ j \in manual
    BY <1>9, <1>10, <1>12, <1>16, <2>1 DEF IsPriceTable
  <2>2. CASE i \notin manual /\ j \notin manual
    <3>1. i \in ids + 1..ids + n /\ j \in ids + 1..ids + n
      BY <1>12, <2>2
    <3>2. prices'[i] = prices'[j]
      BY <1>2, <1>6, <1>13, <1>16, <3>1 DEF IsTable
    <3>3. i - ids = j - ids
      BY <1>7, <1>11, <1>12, <3>1, <3>2
    <3> QED BY <1>9, <3>1, <3>3
  <2>3. ASSUME NEW x \in manual, NEW y \in ids + 1..ids + n PROVE prices'[x].model # prices'[y].model
    BY <1>4, <1>12, <1>13
  <2> QED BY <1>12, <1>16, <2>1, <2>2, <2>3
<1>17. IsPriceTable(prices', ids')
  BY <1>14, <1>15, <1>16 DEF IsPriceTable
<1>18. ASSUME NEW d \in Callers PROVE Agrees(d, prices')
  <2>1. Agrees(d, prices) /\ Fits(d)
    BY DEF PInv
  <2>2. \A i \in 1..ids : i \notin ids + 1..ids + n
    BY <1>9
  <2> QED BY <1>10, <1>12, <2>1, <2>2 DEF Agrees, Fits
<1> QED BY <1>2, <1>9, <1>17, <1>18, Writes DEF PInv

LEMMA CostStepPrices ==
    ASSUME CInv, PInv, NEW c \in Callers, CostStep(c)
    PROVE  PInv'
<1>1. ASSUME Return(c), UNCHANGED <<prices, billing, ids>> PROVE PInv'
  <2>1. calls'[c] = Idle /\ \A d \in Callers : d # c => calls'[d] = calls[d]
    BY <1>1, ReturnCall DEF CInv
  <2>2. Silent(c)'
    BY <2>1 DEF Silent, Idle
  <2> QED BY <1>1, <2>1, <2>2, QuietMove
<1>2. CASE WriteCreatedPrice(c)
  BY <1>1, <1>2, CreatedPrice DEF WriteCreatedPrice
<1>3. CASE WriteUpdatedPrice(c)
  BY <1>1, <1>3, UpdatedPrice DEF WriteUpdatedPrice
<1>4. CASE WriteSynced(c)
  BY <1>4, SyncedPrices
<1>5. CASE WriteBilling(c)
  <2>1. Proceed(c, "invalidate") /\ UNCHANGED <<prices, ids>> /\ billing' \in Nat
    BY <1>5 DEF WriteBilling, PInv, Fits
  <2>2. ids \in Nat /\ ids >= ids /\ IsPriceTable(prices, ids) /\ \A d \in Callers : Agrees(d, prices)
    BY DEF PInv
  <2> QED BY <2>1, <2>2, Writes
<1>6. CASE InvalidateCost(c)
  BY <1>1, <1>6 DEF InvalidateCost, invalidate, tables
<1> QED BY <1>2, <1>3, <1>4, <1>5, <1>6 DEF CostStep
\* The calls and steps of the other areas, and a call that fails.
LEMMA ElsewhereQuiet ==
    ASSUME CInv, NEW c \in Callers, SettingsStep(c) \/ DirectoryStep(c) \/ CallFails(c)
    PROVE  /\ Silent(c)' /\ UNCHANGED <<prices, billing>> /\ ids' \in {ids, ids + 1}
           /\ \A d \in Callers : d # c => calls'[d] = calls[d]
<1>1. ASSUME Return(c) PROVE Silent(c)' /\ \A d \in Callers : d # c => calls'[d] = calls[d]
  BY <1>1, ReturnCall DEF CInv, Silent, Idle
<1>2. ASSUME NEW step, step # "write", Proceed(c, step)
      PROVE  Silent(c)' /\ \A d \in Callers : d # c => calls'[d] = calls[d]
  BY <1>2, ProceedCall DEF CInv, Silent
<1>3. CASE SettingsStep(c) /\ ~ReplaceYear(c)
  <2>1. UNCHANGED <<prices, billing>> /\ ids' \in {ids, ids + 1}
    BY <1>3 DEF SettingsStep, WriteCreatedHeader, WriteSavedHeader, InvalidateHeaders, WriteCreatedRule,
       WriteUpdatedRule, RereadRule, InvalidateRules, ReloadCalendar, invalidate, tables
  <2>2. Return(c) \/ Proceed(c, "invalidate") \/ Proceed(c, "reread")
    BY <1>3 DEF SettingsStep, WriteCreatedHeader, WriteSavedHeader, InvalidateHeaders, WriteCreatedRule,
       WriteUpdatedRule, RereadRule, InvalidateRules, ReloadCalendar
  <2> QED BY <1>1, <1>2, <2>1, <2>2
<1>4. CASE ReplaceYear(c)
  <2>1. UNCHANGED <<prices, billing, ids>> /\ calls[c].op = "SyncHolidays"
    BY <1>4 DEF ReplaceYear, At
  <2>2. DOMAIN calls = Callers /\ "op" \in DOMAIN calls[c]
    BY DEF CInv, CallsOK, IsCall
  <2>3. \/ calls' = [calls EXCEPT ![c].step = "reload"]
        \/ calls' = [calls EXCEPT ![c].year = @ + 1]
    BY <1>4 DEF ReplaceYear
  <2>4. calls'[c].op = "SyncHolidays" /\ \A d \in Callers : d # c => calls'[d] = calls[d]
    BY <2>1, <2>2, <2>3
  <2> QED BY <2>1, <2>4 DEF Silent
<1>5. CASE DirectoryStep(c)
  <2>1. UNCHANGED <<prices, billing>> /\ ids' \in {ids, ids + 1}
    BY <1>5 DEF DirectoryStep, WriteCreatedEntry, WriteUpdatedEntry, balInvalidate, WriteProbed,
       cacheBalance, tables
  <2>2. Return(c) \/ Proceed(c, "drop")
    BY <1>5 DEF DirectoryStep, WriteCreatedEntry, WriteUpdatedEntry, balInvalidate, WriteProbed, cacheBalance
  <2> QED BY <1>1, <1>2, <2>1, <2>2
<1>6. CASE CallFails(c)
  BY <1>1, <1>6 DEF CallFails, tables
<1> QED BY <1>3, <1>4, <1>5, <1>6

LEMMA CallsPrices ==
    ASSUME CInv, PInv, NEW c \in Callers, Calls(c)
    PROVE  PInv'
<1>1. CASE area = "cost"
  BY <1>1, CostCallPrices DEF Calls
<1>2. CASE area # "cost"
  <2>1. UNCHANGED <<prices, billing, ids>>
    BY <1>2 DEF Calls, HeaderCall, RuleCall, DirectoryCall, SyncHolidays, CreateHeader, SaveHeader,
       DeleteHeader, CreateRule, UpdateRule, DeleteRule, CreateEntry, UpdateEntry, DeleteEntry, Probe,
       FetchBalance, tables
  <2>2. calls'[c].op \notin CostOps /\ \A d \in Callers : d # c => calls'[d] = calls[d]
    BY <1>2, BeginsOwn DEF CInv
  <2>3. Silent(c)'
    BY <2>2 DEF Silent, CostOps
  <2> QED BY <2>1, <2>2, <2>3, QuietMove
<1> QED BY <1>1, <1>2

LEMMA StepPInv == CInv /\ PInv /\ [Next]_vars => PInv'
<1> SUFFICES ASSUME CInv, PInv, [Next]_vars PROVE PInv'
  OBVIOUS
<1>1. ASSUME NEW c \in Callers, Calls(c) \/ Steps(c) \/ CallFails(c) PROVE PInv'
  BY <1>1, CallsPrices, CostStepPrices, ElsewhereQuiet, QuietMove DEF Steps
<1>2. ASSUME UNCHANGED <<prices, billing, calls, ids>> PROVE PInv'
  BY <1>2 DEF PInv, Fits, Agrees, SameRow, At
<1>3. CASE Crash
  <2>1. UNCHANGED <<prices, billing>> /\ \A c \in Callers : calls'[c] = Idle
    BY <1>3 DEF Crash
  <2>2. ids' \in {ids, ids + 1} /\ ids \in Nat
    BY <1>3 DEF Crash, PInv
  <2>3. ids' \in Nat /\ IsPriceTable(prices', ids') /\ billing' \in Nat
    BY <2>1, <2>2 DEF PInv, IsPriceTable
  <2>4. \A c \in Callers : Silent(c)'
    BY <2>1 DEF Silent, Idle
  <2>5. \A c \in Callers : Fits(c)' /\ Agrees(c, prices)' /\ \A d \in Callers : SameRow(c, d)'
    BY <2>4 DEF Silent, Fits, Agrees, SameRow, At
  <2> QED BY <2>3, <2>5 DEF PInv
<1>4. ASSUME NEW k \in Kinds, BeginFill(k) \/ Age(k), Rest PROVE UNCHANGED <<prices, billing, calls, ids>>
  BY <1>4 DEF BeginFill, Age, Rest, tables
<1>5. ASSUME NEW l \in Locks, EndFill(l), Rest PROVE UNCHANGED <<prices, billing, calls, ids>>
  BY <1>5 DEF EndFill, Rest, tables
<1>6. BalanceExpires \/ UNCHANGED vars => UNCHANGED <<prices, billing, calls, ids>>
  BY DEF BalanceExpires, vars, tables
<1> QED BY <1>1, <1>2, <1>3, <1>4, <1>5, <1>6 DEF Next

LEMMA RowsAreTable == PInv => IsTable(PriceRows)
<1> SUFFICES ASSUME PInv PROVE IsTable(PriceRows)
  OBVIOUS
<1>1. ids \in Nat /\ DOMAIN prices \in SUBSET (1..ids) /\ \A i \in DOMAIN prices : prices[i] \in Rows
  BY DEF PInv, IsPriceTable
<1>2. IsFiniteSet(DOMAIN prices)
  <2>1. IsFiniteSet(1..ids)
    BY <1>1, FS_Interval
  <2> QED BY <1>1, <2>1, FS_Subset
<1>3. PICK f : f = [i \in DOMAIN prices |-> prices[i]]
  OBVIOUS
<1>4. f \in Surjection(DOMAIN prices, PriceRows)
  BY <1>3 DEF Surjection, PriceRows
<1>5. IsFiniteSet(PriceRows)
  BY <1>2, <1>4, FS_Surjection
<1>6. \A r, o \in PriceRows : r.model = o.model => r = o
  BY DEF PInv, IsPriceTable, PriceRows
<1> QED BY <1>1, <1>5, <1>6 DEF IsTable, PriceRows

\* With no call under way, what is served is what the tables say, and what it
\* bills is what they say it costs: each token once, at the rate of its hour
\* and size, by the row that stands for the model, whatever the tables, the
\* calendar and the requests (cost.go:66-98 and 226-249, model_price.go:77-119,
\* peak_window.go:82-129, pricing.go:187-263).
THEOREM BillsByTheBook == Spec => []BilledByTheBook
<1>1. CInv /\ PInv => BilledByTheBook
  <2> SUFFICES ASSUME CInv, PInv, \A c \in Callers : calls[c] = Idle,
                      Served("price"), Served("rate"), ~calendar.failed, NEW r \in Requests
               PROVE  Cost(cache["price"].val, cache["rate"].val, calendar.val, r.name, r.usage, r.at)
                          = BookCost(PriceRows, billing, AllHolidays, r.name, r.usage, r.at)
    BY DEF BilledByTheBook, Settled, Billed
  <2>1. \A c \in Callers : \A k : ~Owes(c, k)
    BY IdleIsCall DEF Owes
  <2>2. Vouched(cache["price"], "price") /\ Vouched(cache["rate"], "rate")
    BY DEF CInv, Promises, Watched
  <2>3. cache["price"].val = Stored("price") /\ cache["rate"].val = Stored("rate")
    BY <2>1, <2>2 DEF Vouched, Served, Valid
  <2>4. Stored("price") = IndexPrices(PriceList(PriceRows)) /\ Stored("rate") = billing
    BY DEF Stored
  <2>5. calendar.val = AllHolidays
    BY DEF CInv, CalendarCurrent, Running, Idle
  <2>6. billing \in Nat /\ r.usage \in Usages /\ r.at \in Int
    BY BillAssumption DEF PInv
  <2> QED BY <2>3, <2>4, <2>5, <2>6, RowsAreTable, CostIsBook
<1> QED BY <1>1, InductiveC, InitPInv, StepPInv, PTL DEF Spec
=============================================================================
