--------------------------- MODULE SettingsServices ---------------------------
(***************************************************************************)
(* The other settings with a cache on the hot path: the session headers    *)
(* (service/session_header.go), the rules that rewrite the reasoning level *)
(* (service/reasoning_rewrite.go) and the holiday calendar                 *)
(* (service/holiday.go).  The calls work like those of CostService.        *)
(***************************************************************************)
EXTENDS CostService

CONSTANTS HeaderNames, RuleModels, Targets,
          Years,        \* the two years of a synchronisation, in order
          YearData      \* the sets of annotations a year may come with

(* Session headers *)
HasHeader(key) == \E i \in DOMAIN headers : headers[i].key = key

CreateHeader(c) ==
    /\ \E key \in HeaderNames :
           /\ ~HasHeader(key)
           /\ Begin(c, [op |-> "CreateHeader", step |-> "write", key |-> key])
    /\ UNCHANGED <<tables, caches, faults, ids>>

\* Update writes the row it read with the switch the form gives, ToggleEnabled
\* with the opposite of the one it read.
SaveHeader(c) ==
    /\ \E i \in DOMAIN headers, on \in BOOLEAN :
           Begin(c, [op |-> "SaveHeader", step |-> "write", id |-> i,
                     row |-> [headers[i] EXCEPT !.enabled = on]])
    /\ UNCHANGED <<tables, caches, faults, ids>>

DeleteHeader(c) ==
    /\ \E i \in DOMAIN headers : headers' = Without(headers, {i})
    /\ Begin(c, [op |-> "DeleteHeader", step |-> "invalidate"])
    /\ UNCHANGED <<prices, billing, rules, holidays, caches, faults, ids>>

WriteCreatedHeader(c) ==
    /\ At(c, "CreateHeader", "write")
    /\ IF HasHeader(calls[c].key) THEN Return(c) /\ UNCHANGED <<headers, ids>>
       ELSE /\ headers' = Insert(headers, [key |-> calls[c].key, enabled |-> TRUE])
            /\ ids' = ids + 1
            /\ Proceed(c, "invalidate")
    /\ UNCHANGED <<prices, billing, rules, holidays, caches, faults>>

\* Save again: a row deleted since the read is inserted, unless its key is taken.
WriteSavedHeader(c) ==
    /\ At(c, "SaveHeader", "write")
    /\ LET i == calls[c].id IN
       IF i \notin DOMAIN headers /\ HasHeader(calls[c].row.key)
       THEN Return(c) /\ UNCHANGED headers
       ELSE headers' = Put(headers, i, calls[c].row) /\ Proceed(c, "invalidate")
    /\ UNCHANGED <<prices, billing, rules, holidays, caches, faults, ids>>

InvalidateHeaders(c) ==
    /\ calls[c].op \in {"CreateHeader", "SaveHeader", "DeleteHeader"} /\ calls[c].step = "invalidate"
    /\ invalidate("headers")
    /\ Return(c)
    /\ UNCHANGED ids

(* Rewriting rules *)
RuleInputs == [model : RuleModels, target : Targets, status : {0, 1}]
HasRule(n) == \E i \in DOMAIN rules : rules[i].model = n

\* The column's default replaces a status of zero in an INSERT.
Inserted(rule) == [rule EXCEPT !.status = IF @ = 0 THEN 1 ELSE @]

CreateRule(c) ==
    /\ \E rule \in RuleInputs :
           /\ ~HasRule(rule.model)
           /\ Begin(c, [op |-> "CreateRule", step |-> "write", row |-> rule])
    /\ UNCHANGED <<tables, caches, faults, ids>>

UpdateRule(c) ==
    /\ \E i \in DOMAIN rules, rule \in RuleInputs :
           /\ \A j \in DOMAIN rules \ {i} : rules[j].model # rule.model
           /\ Begin(c, [op |-> "UpdateRule", step |-> "write", id |-> i, row |-> rule])
    /\ UNCHANGED <<tables, caches, faults, ids>>

DeleteRule(c) ==
    /\ \E i \in DOMAIN rules : rules' = Without(rules, {i})
    /\ Begin(c, [op |-> "DeleteRule", step |-> "invalidate"])
    /\ UNCHANGED <<prices, billing, headers, holidays, caches, faults, ids>>

WriteCreatedRule(c) ==
    /\ At(c, "CreateRule", "write")
    /\ IF HasRule(calls[c].row.model) THEN Return(c) /\ UNCHANGED <<rules, ids>>
       ELSE rules' = Insert(rules, Inserted(calls[c].row)) /\ ids' = ids + 1 /\ Proceed(c, "invalidate")
    /\ UNCHANGED <<prices, billing, headers, holidays, caches, faults>>

WriteUpdatedRule(c) ==
    /\ At(c, "UpdateRule", "write")
    /\ LET i == calls[c].id
           taken == \E j \in DOMAIN rules \ {i} : rules[j].model = calls[c].row.model
       IN  IF taken THEN Return(c) /\ UNCHANGED rules
           ELSE /\ rules' = Put(rules, i, IF i \in DOMAIN rules THEN calls[c].row ELSE Inserted(calls[c].row))
                /\ Proceed(c, "reread")
    /\ UNCHANGED <<prices, billing, headers, holidays, caches, faults, ids>>

\* The row is read back for the answer before the cache is invalidated.
RereadRule(c) ==
    /\ At(c, "UpdateRule", "reread")
    /\ IF calls[c].id \in DOMAIN rules THEN Proceed(c, "invalidate") ELSE Return(c)
    /\ UNCHANGED <<tables, caches, faults, ids>>

InvalidateRules(c) ==
    /\ calls[c].op \in {"CreateRule", "UpdateRule", "DeleteRule"} /\ calls[c].step = "invalidate"
    /\ invalidate("rules")
    /\ Return(c)
    /\ UNCHANGED ids

(* Holidays *)
SyncHolidays(c) ==
    /\ ~Running("SyncHolidays")
    /\ Begin(c, [op |-> "SyncHolidays", step |-> "fetch", year |-> 1])
    /\ UNCHANGED <<tables, caches, faults, ids>>

\* One year: a failed or empty fetch keeps the old rows, and so does a
\* transaction that meets a date that belongs to another year's rows.
ReplaceYear(c) ==
    /\ At(c, "SyncHolidays", "fetch")
    /\ LET y == Years[calls[c].year]
           others == UNION {DOMAIN holidays[z] : z \in DOMAIN holidays \ {y}}
       IN  \/ UNCHANGED holidays
           \/ \E data \in YearData : /\ data # <<>> /\ DOMAIN data \cap others = {}
                                     /\ holidays' = Put(holidays, y, data)
    /\ IF calls[c].year < Len(Years) THEN calls' = [calls EXCEPT ![c].year = @ + 1]
                                     ELSE calls' = [calls EXCEPT ![c].step = "reload"]
    /\ UNCHANGED <<prices, billing, headers, rules, caches, faults, ids, made>>

ReloadCalendar(c) ==
    /\ At(c, "SyncHolidays", "reload")
    /\ \/ calendar' = [val |-> AllHolidays, failed |-> FALSE] /\ UNCHANGED faults
       \/ /\ faults < MaxFaults /\ faults' = faults + 1
          /\ calendar' = [calendar EXCEPT !.failed = TRUE]
    /\ Return(c)
    /\ UNCHANGED <<tables, cache, filling, ids>>

HeaderCall(c) == CreateHeader(c) \/ SaveHeader(c) \/ DeleteHeader(c)
RuleCall(c)   == CreateRule(c) \/ UpdateRule(c) \/ DeleteRule(c)
SettingsStep(c) == \/ WriteCreatedHeader(c) \/ WriteSavedHeader(c) \/ InvalidateHeaders(c)
                   \/ WriteCreatedRule(c) \/ WriteUpdatedRule(c) \/ RereadRule(c) \/ InvalidateRules(c)
                   \/ ReplaceYear(c) \/ ReloadCalendar(c)
===============================================================================
