------------------------------ MODULE CostService ------------------------------
(***************************************************************************)
(* The writes of internal/service/cost.go: prices set by hand, the table   *)
(* synchronised from the public one, the exchange rate.  A call reads and  *)
(* validates when it begins, writes, and invalidates the caches before it  *)
(* returns; other calls, refills, failures and a crash fall in between.    *)
(***************************************************************************)
EXTENDS ConfigCaches

CONSTANTS Callers,      \* admins and the background jobs
          MaxCalls,     \* bound: calls of a behaviour
          PriceInputs,  \* what an admin may submit as a price
          PriceNames,   \* the models an admin prices
          Feeds,        \* what the public price table may say
          ExchangeRates

VARIABLES calls,        \* caller -> the call it is in
          made,         \* calls begun so far
          ids           \* the highest id given to a row; ids are not reused

Idle == [op |-> "none", step |-> "none"]

Begin(c, call) == /\ calls[c] = Idle /\ made < MaxCalls
                  /\ calls' = [calls EXCEPT ![c] = call] /\ made' = made + 1
Proceed(c, step) == calls' = [calls EXCEPT ![c].step = step] /\ UNCHANGED made
Return(c) == calls' = [calls EXCEPT ![c] = Idle] /\ UNCHANGED made
Running(op) == \E c \in Callers : calls[c].op = op
At(c, op, step) == calls[c].op = op /\ calls[c].step = step

HasPrice(n) == \E i \in DOMAIN prices : prices[i].model = n
Put(table, i, row) == [j \in DOMAIN table \cup {i} |-> IF j = i THEN row ELSE table[j]]
Insert(table, row) == Put(table, ids + 1, row)
Without(table, gone) == [i \in DOMAIN table \ gone |-> table[i]]

CreatePrice(c) ==
    /\ \E n \in PriceNames, in \in PriceInputs :
           /\ validateRates(in) /\ ~HasPrice(n)
           /\ Begin(c, [op |-> "CreatePrice", step |-> "write",
                        row |-> [model |-> n, source |-> "manual", terms |-> applyPriceInput(in)]])
    /\ UNCHANGED <<tables, caches, faults, ids>>

UpdatePrice(c) ==
    /\ \E i \in DOMAIN prices, in \in PriceInputs :
           /\ validateRates(in)
           /\ Begin(c, [op |-> "UpdatePrice", step |-> "write", id |-> i,
                        row |-> [model |-> prices[i].model, source |-> "manual", terms |-> applyPriceInput(in)]])
    /\ UNCHANGED <<tables, caches, faults, ids>>

DeletePrice(c) ==
    /\ \E i \in DOMAIN prices : prices' = Without(prices, {i})
    /\ Begin(c, [op |-> "DeletePrice", step |-> "invalidate"])
    /\ UNCHANGED <<billing, headers, rules, holidays, caches, faults, ids>>

\* The mutex is held while the call runs; the table is fetched and parsed.
Sync(c) ==
    /\ ~Running("Sync")
    /\ \E feed \in Feeds :
           /\ ParsePricing(feed) # {}
           /\ Begin(c, [op |-> "Sync", step |-> "write", rows |-> {syncedPrice(e) : e \in ParsePricing(feed)}])
    /\ UNCHANGED <<tables, caches, faults, ids>>

UpdateBilling(c) ==
    /\ \E rate \in ExchangeRates : rate >= 0 /\ Begin(c, [op |-> "UpdateBilling", step |-> "write", rate |-> rate])
    /\ UNCHANGED <<tables, caches, faults, ids>>

\* The unique index on the model refuses a second row for it.
WriteCreatedPrice(c) ==
    /\ At(c, "CreatePrice", "write")
    /\ IF HasPrice(calls[c].row.model)
       THEN Return(c) /\ UNCHANGED <<prices, ids>>
       ELSE Proceed(c, "invalidate") /\ prices' = Insert(prices, calls[c].row) /\ ids' = ids + 1
    /\ UNCHANGED <<billing, headers, rules, holidays, caches, faults>>

\* gorm's Save: an UPDATE by id, and an INSERT when no row has that id.
WriteUpdatedPrice(c) ==
    /\ At(c, "UpdatePrice", "write")
    /\ LET i == calls[c].id IN
       IF i \notin DOMAIN prices /\ HasPrice(calls[c].row.model)
       THEN Return(c) /\ UNCHANGED prices
       ELSE Proceed(c, "invalidate") /\ prices' = Put(prices, i, calls[c].row)
    /\ UNCHANGED <<billing, headers, rules, holidays, caches, faults, ids>>

\* A mutant: every row is rebuilt, as if none had been set by hand.
ReplaceSyncedAll(rows) ==
    LET batch == SetToSeq(rows)
    IN  /\ prices' = [i \in ids + 1..ids + Len(batch) |-> batch[i - ids]]
        /\ ids' = ids + Len(batch)

\* One transaction: rows not set by hand go, the new ones come unless a row
\* set by hand has their model.
ReplaceSynced(rows) ==
    LET manual == {i \in DOMAIN prices : prices[i].source = "manual"}
        batch  == SetToSeq({r \in rows : \A i \in manual : prices[i].model # r.model})
    IN  /\ prices' = [i \in manual \cup (ids + 1..ids + Len(batch)) |->
                          IF i \in manual THEN prices[i] ELSE batch[i - ids]]
        /\ ids' = ids + Len(batch)

WriteSynced(c) ==
    /\ At(c, "Sync", "write")
    /\ ReplaceSynced(calls[c].rows)
    /\ Proceed(c, "invalidate")
    /\ UNCHANGED <<billing, headers, rules, holidays, caches, faults>>

WriteBilling(c) ==
    /\ At(c, "UpdateBilling", "write")
    /\ billing' = calls[c].rate
    /\ Proceed(c, "invalidate")
    /\ UNCHANGED <<prices, headers, rules, holidays, caches, faults, ids>>

CostOps == {"CreatePrice", "UpdatePrice", "DeletePrice", "Sync", "UpdateBilling"}

InvalidateCost(c) ==
    /\ calls[c].op \in CostOps /\ calls[c].step = "invalidate"
    /\ invalidate("cost")
    /\ Return(c)
    /\ UNCHANGED ids

CostCall(c) == CreatePrice(c) \/ UpdatePrice(c) \/ DeletePrice(c) \/ Sync(c) \/ UpdateBilling(c)
CostStep(c) == \/ WriteCreatedPrice(c) \/ WriteUpdatedPrice(c) \/ WriteSynced(c) \/ WriteBilling(c)
               \/ InvalidateCost(c)
===============================================================================
