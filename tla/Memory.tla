------------------------------- MODULE Memory -------------------------------
(***************************************************************************)
(* The memory library: calls, the classifier, failures of single repository *)
(* calls and restarts of the process, over one set of tables.               *)
(***************************************************************************)
EXTENDS MemoryService, MemoryClassifier

CONSTANTS
    MaxFaults,   \* bound: repository calls that fail
    MaxCrashes   \* bound: crashes of the process

ASSUME MemoryAssumption == MaxFaults \in Nat /\ MaxCrashes \in Nat

VARIABLES
    up,       \* the process runs
    faults,   \* repository calls that failed so far
    crashes   \* crashes so far

procVars == <<up, faults, crashes>>
vars == <<storeVars, opVars, jobVars, procVars>>

TypeOK ==
    /\ StoreTypeOK
    /\ ServiceTypeOK
    /\ ClassifierTypeOK
    /\ up \in BOOLEAN
    /\ faults \in 0..MaxFaults
    /\ crashes \in 0..MaxCrashes

Init ==
    /\ StoreInit
    /\ ServiceInit
    /\ ClassifierInit
    /\ up = TRUE
    /\ faults = 0
    /\ crashes = 0

CallStep(a) == up /\ Proceed(a) /\ UNCHANGED <<jobVars, procVars>>

Requests ==
    /\ up
    /\ Manage \/ \E a \in Agent : Begin(a)
    /\ UNCHANGED <<jobVars, procVars>>

\* A job counts as a call.
Trigger ==
    /\ up
    /\ calls < MaxCalls
    /\ calls' = calls + 1
    /\ StartJob
    /\ UNCHANGED <<op, torn, told, procVars>>

JobProceeds == up /\ JobStepTaken /\ UNCHANGED <<opVars, procVars>>

\* A repository call fails.
Fault ==
    /\ up
    /\ faults < MaxFaults
    /\ faults' = faults + 1
    /\ \/ \E a \in Agent : AutoLinkFails(a) /\ UNCHANGED jobVars
       \/ \E a \in Agent : CallFails(a) /\ UNCHANGED jobVars
       \/ JobCallFails /\ UNCHANGED opVars
    /\ UNCHANGED <<up, crashes>>

\* The process dies; the tables stay as the last transaction left them.
Crash ==
    /\ up
    /\ crashes < MaxCrashes
    /\ crashes' = crashes + 1
    /\ up' = FALSE
    /\ torn' = torn \union UNION {TornBy(op[a]) : a \in Agent}
    /\ op' = [a \in Agent |-> Idle]
    /\ job' = NoJob
    /\ UNCHANGED <<storeVars, calls, told, jobStatus, lost, faults>>

\* The start-up of the process, before it serves anything.
Restart ==
    /\ ~up
    /\ up' = TRUE
    /\ \/ ResetStale /\ UNCHANGED <<lost, faults>>
       \/ /\ faults < MaxFaults
          /\ faults' = faults + 1
          /\ lost' = TRUE
          /\ UNCHANGED jobStatus
    /\ UNCHANGED <<storeVars, opVars, job, crashes>>

Next ==
    \/ Requests
    \/ \E a \in Agent : CallStep(a)
    \/ Trigger
    \/ JobProceeds
    \/ Fault
    \/ Crash
    \/ Restart

Spec == Init /\ [][Next]_vars

\* The job goes on: each question to the model has a timeout.  Calls need not.
FairSpec == Spec /\ WF_vars(JobProceeds)
-----------------------------------------------------------------------------
(* Properties *)

\* A search finds a memory by what it says now, whoever
\* saved it last and however many calls, jobs, failures and crashes it took
\* (syncFTS in the transaction of every save).
IndexAgrees == \A i \in DOMAIN row : fts[i] = row[i].content

\* A superseded memory names another memory that exists as its successor: no
\* failure and no stale copy separates the status from the successor.
SupersededHasSuccessor ==
    \A i \in DOMAIN row : row[i].status = "superseded" => row[i].by \in DOMAIN row \ {i}

\* A superseded memory can be traced from its successor: the edge from the one
\* to the other exists, unless the call that marked the memory has still to
\* write it, was cut off in between, or a user removed it.
Traceable ==
    \A i \in DOMAIN row :
        row[i].status = "superseded" =>
            \/ \E e \in edges : SameEnds(e, row[i].by, i, "supersedes")
            \/ <<row[i].by, i>> \in torn
            \/ \E a \in Agent : At(a, "edge") /\ op[a].old = i /\ op[a].id = row[i].by

\* The console shows a job as running exactly while one runs: across failures
\* of the job and crashes of the process, unless the write that should have
\* said so was itself lost.
JobHonest == up /\ ~lost => (jobStatus = "running" <=> Running)

\* An edge a user or an agent made goes only when somebody removes it: nothing
\* that remakes the automatic edges of a memory takes it along.
UserEdgesSpared ==
    [][\A e \in edges \ edges' : e.auto \/ RemoveLink]_vars

\* Every job ends, which frees the lock for the next: also when the model
\* leaves out memories of a batch, as it is told it may.
JobEnds == Running ~> ~Running
-----------------------------------------------------------------------------
(* What the comments say and the code does not do *)

\* The classifier changes nothing of a memory but its namespace, and not even
\* that where somebody has chosen it (memory_classify.go:47-48).
OnlyNamespaces ==
    [][JobAt("write") /\ row' # row /\ job' # job =>
        \A i \in DOMAIN row :
            /\ [row'[i] EXCEPT !.ns = row[i].ns, !.source = row[i].source] = row[i]
            /\ row'[i].ns # row[i].ns => row[i].source \in {"none", "llm"}]_vars

\* An edge a user asked for, and was told exists, is there until it is removed.
ToldEdgesStay == \A p \in told : \E e \in edges : SameEnds(e, p[1], p[2], "related")
=============================================================================
