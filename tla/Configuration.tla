----------------------------- MODULE Configuration -----------------------------
(***************************************************************************)
(* The settings of the program as a whole: admins and background jobs call *)
(* the services, requests refill the caches, time passes, the database     *)
(* fails, the process dies and comes back.  The properties relate what the *)
(* hot path serves to what the tables say.                                 *)
(***************************************************************************)
EXTENDS Directory

CONSTANTS InitPrices, InitRate, InitRules, InitHolidays, InitChannels,
          Requests      \* what is billed: [name, usage, at]

\* A table has one row for a model, and its ids are among the first given.
ASSUME BillAssumption ==
    /\ DOMAIN Names \in SUBSET Nat
    /\ \A i, j \in DOMAIN Names : Names[i] = Names[j] => i = j
    /\ DOMAIN InitPrices \in SUBSET (1..10)
    /\ \A i \in DOMAIN InitPrices : InitPrices[i] \in Rows
    /\ \A i, j \in DOMAIN InitPrices : InitPrices[i].model = InitPrices[j].model => i = j
    /\ PriceNames \in SUBSET Range(Names) /\ PriceInputs \in SUBSET PriceForms
    /\ \A feed \in Feeds : IsFeed(feed)
    /\ InitRate \in Nat /\ ExchangeRates \in SUBSET Int
    /\ \A r \in Requests : r.usage \in Usages /\ r.at \in Int

\* The services share nothing but the process: a behaviour is about one area.
Areas == {"cost", "calendar", "headers", "rules", "directory"}

VARIABLE area

vars == <<area, tables, caches, faults, calls, made, ids, directory>>

Init ==
    /\ area \in Areas
    /\ prices = InitPrices /\ rules = InitRules /\ holidays = InitHolidays
    /\ billing = InitRate
    /\ headers = (1 :> [key |-> DefaultHeader, enabled |-> TRUE])
    /\ dir = [t \in Directories |-> IF t = "channels" THEN InitChannels ELSE <<>>]
    /\ balances = <<>>
    /\ calls = [c \in Callers |-> Idle] /\ made = 0
    /\ ids = 10
    /\ CachesInit

Rest == UNCHANGED <<calls, made, ids, directory>>

\* A statement of a call fails and the call returns with an error.
CallFails(c) ==
    /\ faults < MaxFaults /\ faults' = faults + 1
    /\ calls[c].step \in {"write", "reread"}
    /\ Return(c)
    /\ UNCHANGED <<tables, caches, ids, directory>>

\* The caches are in memory.  At start the headers are seeded when there are
\* none, and the calendar is loaded, or stays empty when that fails.
Crash ==
    /\ faults < MaxFaults /\ faults' = faults + 1
    /\ cache' = [k \in Kinds |-> Unloaded(k)]
    /\ filling' = [l \in Locks |-> Free]
    /\ balances' = <<>>
    /\ calls' = [c \in Callers |-> Idle]
    /\ calendar' \in {[val |-> AllHolidays, failed |-> FALSE], [val |-> <<>>, failed |-> TRUE]}
    /\ IF headers # <<>> THEN UNCHANGED <<headers, ids>>
       ELSE headers' = Insert(headers, [key |-> DefaultHeader, enabled |-> TRUE]) /\ ids' = ids + 1
    /\ UNCHANGED <<prices, billing, rules, holidays, made, dir>>

Calls(c) == \/ area = "cost" /\ CostCall(c) /\ UNCHANGED directory
            \/ area = "calendar" /\ SyncHolidays(c) /\ UNCHANGED directory
            \/ area = "headers" /\ HeaderCall(c) /\ UNCHANGED directory
            \/ area = "rules" /\ RuleCall(c) /\ UNCHANGED directory
            \/ area = "directory" /\ DirectoryCall(c)
Steps(c) == \/ (CostStep(c) \/ SettingsStep(c)) /\ UNCHANGED directory
            \/ DirectoryStep(c)

Next ==
    /\ \/ \E c \in Callers : Calls(c) \/ Steps(c) \/ CallFails(c)
       \/ \E k \in Kinds : Lock(k) = (IF area = "calendar" THEN "cost" ELSE area) /\ (BeginFill(k) \/ Age(k)) /\ Rest
       \/ \E l \in Locks : EndFill(l) /\ Rest
       \/ BalanceExpires \/ Crash
    /\ UNCHANGED area

Spec == Init /\ [][Next]_vars

\* Fairness: a refill ends, a call that waits for the lock gets it, and the
\* short time to live of a failed query runs out.  Of the normal time to live
\* nothing is assumed: it may be as long as an operator likes.
Fairness ==
    /\ \A k \in {"price", "rate"} : WF_cache(cache[k].short /\ Age(k))
    /\ WF_filling(EndFill("cost"))
    /\ SF_calls(\E c \in Callers : InvalidateCost(c))

FairSpec == Spec /\ Fairness

-------------------------------------------------------------------------------
\* Somebody has written a table and not yet invalidated its cache.
Owed(ops) == \E c \in Callers : calls[c].op \in ops /\ calls[c].step \in {"reread", "invalidate"}

Served(k) == Valid(k) /\ ~cache[k].short

PricesCurrent == Served("price") => cache["price"].val = Stored("price") \/ Owed(CostOps)

\* Current: what a valid cache holds is what its table says, unless its
\* last refill failed or a call that has written still owes the invalidation;
\* and so the calendar, which a synchronisation reloads
\* (cost.go:281-326, session_header.go:159-200, holiday.go).
CachesCurrent ==
    /\ PricesCurrent
    /\ Served("rate") => cache["rate"].val = billing \/ Owed(CostOps)
    /\ Served("headers") => \/ cache["headers"].val = EnabledHeaders(headers)
                            \/ Owed({"CreateHeader", "SaveHeader", "DeleteHeader"})
    /\ calendar.failed \/ Running("SyncHolidays") \/ calendar.val = AllHolidays

\* RulesCurrent: the same of the rewriting rules, as reasoning_rewrite.go:137
\* promises: an index in memory, invalidated on every write.
RulesCurrent ==
    Valid("rules") => \/ cache["rules"].val = RulesByModel
                      \/ Owed({"CreateRule", "UpdateRule", "DeleteRule"})

\* No call is under way, and the caches a bill is made from are loaded without
\* failure.
Settled ==
    /\ \A c \in Callers : calls[c] = Idle
    /\ Served("price") /\ Served("rate") /\ ~calendar.failed

Billed(r) == Cost(cache["price"].val, cache["rate"].val, calendar.val, r.name, r.usage, r.at)

\* BilledByTheBook: then every request is billed what the tables say it costs
\* (cost.go:66-98 and 226-249, model_price.go:77-119, peak_window.go:82-129,
\* pricing.go:187-263): each token once, at the rate of its hour and size,
\* in dollars, by the row that stands for the model.
BilledByTheBook ==
    Settled => \A r \in Requests :
        Billed(r) = BookCost(PriceRows, billing, AllHolidays, r.name, r.usage, r.at)

\* OffPeakAsDocumented: the same of the table as its comment reads it
\* (model_price.go:32-33): an off-peak rate that is not set is the peak rate.
OffPeakAsDocumented ==
    Settled => \A r \in Requests :
        Billed(r) = BookCost({[row EXCEPT !.terms = Documented(@)] : row \in PriceRows},
                             billing, AllHolidays, r.name, r.usage, r.at)

\* ManualKept: a synchronisation takes away no price that was set by hand
\* (cost.go:379, model_price_repo.go:91-92), whatever it is interleaved with.
ManualKept ==
    [][(\E c \in Callers : At(c, "Sync", "write") /\ ~At(c, "Sync", "write")') =>
          \A i \in DOMAIN prices : prices[i].source = "manual" =>
              i \in DOMAIN prices' /\ prices'[i] = prices[i]]_vars

\* DeletedStaysDeleted: the id of a channel, key or custom model that was
\* deleted never comes back, although edits and probes in flight still write
\* the row they read (channel_repo.go:29-38, apikey_repo.go:40-49).
DeletedStaysDeleted ==
    [][\A t \in Directories : \A i \in DOMAIN dir'[t] : i \in DOMAIN dir[t] \/ i > ids]_vars

\* StalenessPasses: a price index or rate that is not what its table says is
\* not relied on for long, without the normal time to live: the call that has
\* written invalidates it, and what a failed query left, which takes the mark
\* of an earlier invalidation away, has the short time to live
\* (cost.go:302-309 and 347-356).
StalenessPasses ==
    \A k \in {"price", "rate"} : []<>(Valid(k) => cache[k].val = Stored(k))
===============================================================================
