----------------------------- MODULE ConfigCaches -----------------------------
(***************************************************************************)
(* The tables the settings pages write and the caches the gateway's hot    *)
(* path reads instead: the price index and the exchange rate of            *)
(* CostService (one lock), the session headers and the rewriting rules     *)
(* (a lock each), and the holiday calendar, which is only reloaded by its  *)
(* own synchronisation.                                                    *)
(*                                                                         *)
(* A read that finds its cache invalid takes the lock, queries the         *)
(* database and stores the answer; an invalidation takes the same lock.    *)
(* The query and the storing are two steps, so that writes fall between.   *)
(***************************************************************************)
EXTENDS Pricing

CONSTANTS MaxFaults   \* bound: database failures and crashes of a behaviour

VARIABLES prices,     \* model_prices: id -> [model, source, terms]
          billing,    \* billing_settings: the exchange rate
          headers,    \* session_header_configs: id -> [key, enabled]
          rules,      \* reasoning_rewrites: id -> [model, target, status]
          holidays,   \* holiday_dates: year -> [day -> kind]
          cache,      \* kind of cache -> [loaded, val, stale, short]; stale:
                      \* marked so, or past its time to live
          filling,    \* lock -> the refill that holds it
          calendar,   \* the holiday cache: [val, failed]
          faults

tables == <<prices, billing, headers, rules, holidays>>
caches == <<cache, filling, calendar>>

Kinds == {"price", "rate", "headers", "rules"}
Locks == {"cost", "headers", "rules"}
Lock(k) == IF k \in {"price", "rate"} THEN "cost" ELSE k

Free == [kind |-> "none"]
DefaultHeader == "X-Session-Id"

PriceRows == {prices[i] : i \in DOMAIN prices}
\* In the order of the names: so many rows come up to the k-th.
PriceList(rows) ==
    [k \in 1..Cardinality(rows) |->
        entryFromPrice(CHOOSE row \in rows : Cardinality({r \in rows : Place(r) <= Place(row)}) = k)]

EnabledHeaders(table) ==
    LET on == SetToSortSeq({i \in DOMAIN table : table[i].enabled}, <)
    IN  IF on = <<>> THEN <<DefaultHeader>> ELSE [j \in DOMAIN on |-> table[on[j]].key]

RulesByModel ==
    [n \in {rules[i].model : i \in DOMAIN rules} |->
        rules[CHOOSE i \in DOMAIN rules : rules[i].model = n]]

Dates == UNION {DOMAIN holidays[y] : y \in DOMAIN holidays}
AllHolidays == [d \in Dates |-> holidays[CHOOSE y \in DOMAIN holidays : d \in DOMAIN holidays[y]][d]]

\* What a cache of the kind holds when it is built from the tables as they are.
Stored(k) == CASE k = "price"   -> IndexPrices(PriceList(PriceRows))
               [] k = "rate"    -> billing
               [] k = "headers" -> EnabledHeaders(headers)
               [] k = "rules"   -> RulesByModel

Unloaded(k) == [loaded |-> FALSE, val |-> IF k = "rate" THEN 0 ELSE <<>>,
                stale |-> k \in {"rules", "rate"}, short |-> FALSE]

CachesInit == /\ cache = [k \in Kinds |-> Unloaded(k)]
              /\ filling = [l \in Locks |-> Free]
              /\ calendar = [val |-> AllHolidays, failed |-> FALSE]
              /\ faults = 0

Valid(k) == ~cache[k].stale /\ cache[k].loaded

Loaded(v) == [loaded |-> TRUE, val |-> v, stale |-> FALSE, short |-> FALSE]

\* A mutant: what a failed query leaves is kept for the normal time to live.
AfterFailureLong(k) ==
    CASE k = "price" -> Loaded(cache[k].val)
      [] k = "rate"  -> Loaded(0)
      [] OTHER       -> cache[k]

\* After a failed query: prices keep the index and the rate drops to 0, both
\* for the short time to live; headers stay as they are; rules keep the index.
AfterFailure(k) ==
    CASE k = "price"   -> [Loaded(cache[k].val) EXCEPT !.short = TRUE]
      [] k = "rate"    -> [Loaded(0) EXCEPT !.short = TRUE]
      [] k = "headers" -> cache[k]
      [] k = "rules"   -> [cache[k] EXCEPT !.stale = ~cache[k].loaded]

\* A read meets an invalid cache: it locks and queries.
BeginFill(k) ==
    /\ ~Valid(k) /\ filling[Lock(k)] = Free
    /\ \/ /\ filling' = [filling EXCEPT ![Lock(k)] = [kind |-> k, next |-> Loaded(Stored(k))]]
          /\ UNCHANGED faults
       \/ /\ faults < MaxFaults /\ faults' = faults + 1
          /\ filling' = [filling EXCEPT ![Lock(k)] = [kind |-> k, next |-> AfterFailure(k)]]
    /\ UNCHANGED <<tables, cache, calendar>>

EndFill(l) ==
    /\ filling[l] # Free
    /\ cache' = [cache EXCEPT ![filling[l].kind] = filling[l].next]
    /\ filling' = [filling EXCEPT ![l] = Free]
    /\ UNCHANGED <<tables, calendar, faults>>

\* The time to live runs out; the rules have none.
Age(k) ==
    /\ k # "rules" /\ Valid(k)
    /\ cache' = [cache EXCEPT ![k].stale = TRUE]
    /\ UNCHANGED <<tables, filling, calendar, faults>>

invalidateLocked(l) ==
    cache' = [k \in Kinds |-> IF Lock(k) = l THEN [cache[k] EXCEPT !.stale = TRUE] ELSE cache[k]]

\* A mutant: an invalidation that does not wait for the refill under way.
invalidateUnlocked(l) ==
    /\ invalidateLocked(l)
    /\ UNCHANGED <<tables, filling, calendar, faults>>

invalidate(l) ==
    /\ filling[l] = Free
    /\ invalidateLocked(l)
    /\ UNCHANGED <<tables, filling, calendar, faults>>

===============================================================================
