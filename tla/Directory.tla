------------------------------- MODULE Directory -------------------------------
(***************************************************************************)
(* The rows the gateway reads without a cache and admins edit: channels    *)
(* (service/service.go), keys (service/key_service.go) and custom models   *)
(* (service/custom_model.go), with the two things that happen to a channel *)
(* beside its edits: the probe, which writes the row back after talking to *)
(* the vendor, and the balances, which are cached per channel              *)
(* (service/balance.go).                                                   *)
(***************************************************************************)
EXTENDS SettingsServices

CONSTANTS Entities,     \* the names rows are given
          Secrets,      \* the keys a channel has at its vendor
          ProtocolSets

VARIABLES dir,          \* table -> id -> [name, secret, protocols, status]
          balances      \* balCache: channel id -> the key it was fetched with

directory == <<dir, balances>>
Unset == 2    \* a status the input does not give
Directories == {"channels", "keys", "models"}

Named(t, n) == {i \in DOMAIN dir[t] : dir[t][i].name = n}

\* Keys and custom models have neither a vendor's key nor protocols.
Inputs(t) ==
    [name : Entities, status : {0, 1, Unset},
     secret : IF t = "channels" THEN Secrets ELSE {"none"},
     protocols : IF t = "channels" THEN ProtocolSets ELSE {{}}]

\* CreateInput.apply and its kin: a field that is not set keeps what it was.
Apply(row, in) ==
    [row EXCEPT !.name = in.name, !.secret = in.secret,
                !.protocols = IF in.protocols = {} THEN @ ELSE in.protocols,
                !.status = IF in.status = Unset THEN @ ELSE in.status]

NewRow == [name |-> "none", secret |-> "none", protocols |-> {}, status |-> 1]

\* A custom model is rebuilt from the input alone.
Base(t, i) == IF t = "models" THEN NewRow ELSE dir[t][i]

CreateEntry(c, t) ==
    /\ \E in \in Inputs(t) :
           /\ Named(t, in.name) = {}
           /\ Begin(c, [op |-> "CreateEntry", step |-> "write", table |-> t, row |-> Apply(NewRow, in)])
    /\ UNCHANGED <<tables, caches, faults, ids, directory>>

UpdateEntry(c, t) ==
    /\ \E i \in DOMAIN dir[t], in \in Inputs(t) :
           /\ Named(t, in.name) \subseteq {i}
           /\ Begin(c, [op |-> "UpdateEntry", step |-> "write", table |-> t, id |-> i,
                        row |-> Apply(Base(t, i), in)])
    /\ UNCHANGED <<tables, caches, faults, ids, directory>>

\* A zero status is a column's default on the way in, and the name is unique.
WriteCreatedEntry(c) ==
    /\ At(c, "CreateEntry", "write")
    /\ LET t == calls[c].table IN
       IF Named(t, calls[c].row.name) # {} THEN UNCHANGED <<dir, ids>>
       ELSE /\ dir' = [dir EXCEPT ![t] = Insert(@, Inserted(calls[c].row))]
            /\ ids' = ids + 1
    /\ Return(c)
    /\ UNCHANGED <<tables, caches, faults, balances>>

\* A mutant: the row is saved as Save does it, inserted when it is not there.
UpdateRowSaved(t, i, row) == dir' = [dir EXCEPT ![t] = Put(@, i, row)]

\* An UPDATE of every column; no row affected is an error.
UpdateRow(t, i, row) == i \in DOMAIN dir[t] /\ dir' = [dir EXCEPT ![t][i] = row]

WriteUpdatedEntry(c) ==
    /\ At(c, "UpdateEntry", "write")
    /\ LET t == calls[c].table  i == calls[c].id IN
       \/ /\ Named(t, calls[c].row.name) \subseteq {i}
          /\ UpdateRow(t, i, calls[c].row)
          /\ IF t = "channels" THEN Proceed(c, "drop") ELSE Return(c)
       \/ /\ i \notin DOMAIN dir[t] \/ ~(Named(t, calls[c].row.name) \subseteq {i})
          /\ Return(c) /\ UNCHANGED dir
    /\ UNCHANGED <<tables, caches, faults, ids, balances>>

DeleteEntry(c, t) ==
    /\ \E i \in DOMAIN dir[t] :
           /\ dir' = [dir EXCEPT ![t] = Without(@, {i})]
           /\ Begin(c, IF t = "channels" THEN [op |-> "DeleteEntry", step |-> "drop", id |-> i] ELSE Idle)
    /\ UNCHANGED <<tables, caches, faults, ids, balances>>

\* The cached balance goes with the key it was fetched with.
balInvalidate(c) ==
    /\ calls[c].step = "drop"
    /\ balances' = Without(balances, {calls[c].id})
    /\ Return(c)
    /\ UNCHANGED <<tables, caches, faults, ids, dir>>

Probe(c) ==
    /\ \E i \in DOMAIN dir["channels"] :
           Begin(c, [op |-> "Probe", step |-> "write", id |-> i, row |-> dir["channels"][i]])
    /\ UNCHANGED <<tables, caches, faults, ids, directory>>

\* The whole row as it was read, with the protocols the vendor answered to.
WriteProbed(c) ==
    /\ At(c, "Probe", "write")
    /\ LET i == calls[c].id IN
       \/ /\ Named("channels", calls[c].row.name) \subseteq {i}
          /\ \E ps \in ProtocolSets : UpdateRow("channels", i, [calls[c].row EXCEPT !.protocols = ps])
       \/ /\ i \notin DOMAIN dir["channels"] \/ ~(Named("channels", calls[c].row.name) \subseteq {i})
          /\ UNCHANGED dir
    /\ Return(c)
    /\ UNCHANGED <<tables, caches, faults, ids, balances>>

\* Balances lists the channels; one that is not cached is asked for.
FetchBalance(c) ==
    /\ \E i \in DOMAIN dir["channels"] \ DOMAIN balances :
           Begin(c, [op |-> "Balances", step |-> "write", id |-> i, secret |-> dir["channels"][i].secret])
    /\ UNCHANGED <<tables, caches, faults, ids, directory>>

cacheBalance(c) ==
    /\ At(c, "Balances", "write")
    /\ balances' = Put(balances, calls[c].id, calls[c].secret)
    /\ Return(c)
    /\ UNCHANGED <<tables, caches, faults, ids, dir>>

BalanceExpires ==
    /\ \E i \in DOMAIN balances : balances' = Without(balances, {i})
    /\ UNCHANGED <<tables, caches, faults, calls, made, ids, dir>>

DirectoryCall(c) ==
    \/ \E t \in Directories : CreateEntry(c, t) \/ UpdateEntry(c, t) \/ DeleteEntry(c, t)
    \/ Probe(c) \/ FetchBalance(c)
DirectoryStep(c) == \/ WriteCreatedEntry(c) \/ WriteUpdatedEntry(c) \/ balInvalidate(c)
                    \/ WriteProbed(c) \/ cacheBalance(c)
===============================================================================
