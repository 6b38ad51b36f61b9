-------------------------- MODULE MemoryClassifier --------------------------
(***************************************************************************)
(* MemoryClassifier of internal/service/memory_classify.go: the background  *)
(* job that has a language model sort the uncategorized memories into       *)
(* namespaces.  It copies the memories to sort when it starts, asks the     *)
(* model about them a batch at a time, which takes seconds, and saves the   *)
(* copies.  What it is doing is recorded in the settings, which a console   *)
(* reads and which outlive the process.                                     *)
(***************************************************************************)
EXTENDS MemoryStore

CONSTANTS
    BatchSize,   \* memories sent with one question
    MaxBatches   \* questions of one job

ASSUME MemoryClassifierAssumption ==
    /\ BatchSize \in Nat \ {0}
    /\ MaxBatches \in Nat

VARIABLES
    job,        \* the job's own state; `mu` is held unless it is idle
    jobStatus,  \* memory_settings.job_status
    lost        \* history: the status that should have been written last was not

jobVars == <<job, jobStatus, lost>>

JobStep == {"idle", "config", "collect", "announce", "ask", "ensure", "write", "progress", "done", "failed"}

Copy == (1..MaxId) \X Memory

NoJob == [pc |-> "idle", todo |-> {}, answer |-> {}, now |-> << >>, asked |-> 0]

\* todo: copies not sent yet; answer: copies with the namespaces given to them,
\* not saved yet; now: the one being saved.
ClassifierTypeOK ==
    /\ job \in [pc : JobStep, todo : SUBSET Copy, answer : SUBSET Copy, now : Copy \union {<< >>},
                asked : 0..MaxBatches]
    /\ jobStatus \in {"none", "running", "done", "failed"}
    /\ lost \in BOOLEAN

ClassifierInit == job = NoJob /\ jobStatus = "none" /\ lost = FALSE

JobAt(step) == job.pc = step
JobGoto(step) == job' = [job EXCEPT !.pc = step]
Running == ~JobAt("idle")

\* Start: TryLock, and the status is written before the job is spawned; when
\* that fails nothing has happened.
StartJob ==
    /\ JobAt("idle")
    /\ JobGoto("config")
    /\ jobStatus' = "running"
    /\ lost' = FALSE
    /\ UNCHANGED storeVars

\* The settings and the channel they name, which others edit.
Configure ==
    /\ JobAt("config")
    /\ \/ JobGoto("collect")
       \/ JobGoto("done")      \* no classifier is configured
       \/ JobGoto("failed")    \* its channel is gone or disabled
    /\ UNCHANGED <<storeVars, jobStatus, lost>>

Collect ==
    LET copies == {<<i, row[i]>> : i \in {k \in DOMAIN row : row[k].ns = "" /\ Active(k)}}
    IN  /\ JobAt("collect")
        /\ job' = [job EXCEPT !.todo = copies, !.pc = IF copies = {} THEN "done" ELSE "announce"]
        /\ UNCHANGED <<storeVars, jobStatus, lost>>

Announce ==
    /\ JobAt("announce")
    /\ jobStatus' = "running"
    /\ JobGoto("ask")
    /\ UNCHANGED <<storeVars, lost>>

\* The copies of a batch, as the model may answer about them: none, one or more
\* namespaces for each.  Ids it was not asked about and names that are not
\* allowed are skipped, and one that is repeated is saved once.
Sorted(copy, n) == <<copy[1], [copy[2] EXCEPT !.ns = n, !.source = "llm"]>>
Answers(batch) == SUBSET {Sorted(copy, n) : copy \in batch, n \in Name}

\* A batch is asked about and answered; which copies come first is a matter of
\* when their rows were last touched.  Without batches left the job is done.
Ask ==
    /\ JobAt("ask")
    /\ IF job.asked = MaxBatches \/ job.todo = {}
       THEN JobGoto("done")
       ELSE \/ \E batch \in SUBSET job.todo :
                /\ \/ Cardinality(batch) = BatchSize
                   \/ batch = job.todo /\ Cardinality(batch) < BatchSize
                /\ \E answer \in Answers(batch) :
                    job' = [job EXCEPT !.pc = IF answer = {} THEN "progress" ELSE "ensure",
                                       !.todo = @ \ batch, !.answer = answer, !.asked = @ + 1]
            \/ JobGoto("failed")    \* no answer, or none that can be parsed
    /\ UNCHANGED <<storeVars, jobStatus, lost>>

\* In the order of the answer, which is the model's.
EnsureAssigned ==
    /\ JobAt("ensure")
    /\ \E copy \in job.answer :
        /\ EnsureName(copy[2].ns)
        /\ job' = [job EXCEPT !.pc = "write", !.now = copy]
    /\ UNCHANGED <<row, fts, edges, jobStatus, lost>>

Assign ==
    /\ JobAt("write")
    /\ SaveRow(job.now[1], job.now[2])
    /\ LET left == job.answer \ {job.now} IN
       job' = [job EXCEPT !.answer = left, !.now = << >>, !.pc = IF left = {} THEN "progress" ELSE "ensure"]
    /\ UNCHANGED <<registry, edges, jobStatus, lost>>

WriteProgress ==
    /\ JobAt("progress")
    /\ jobStatus' = "running"
    /\ JobGoto("ask")
    /\ UNCHANGED <<storeVars, lost>>

\* Mutant: a job that failed keeps the lock.
FinishOnlyDone ==
    /\ JobAt("done")
    /\ jobStatus' = job.pc
    /\ job' = NoJob
    /\ UNCHANGED <<storeVars, lost>>

\* finish, and the lock is released.
FinishJob ==
    /\ job.pc \in {"done", "failed"}
    /\ jobStatus' = job.pc
    /\ job' = NoJob
    /\ UNCHANGED <<storeVars, lost>>

\* A repository call of the job fails: the job fails, except that progress
\* need not be written and that a lost final status is lost.
JobCallFails ==
    /\ \/ /\ job.pc \in {"config", "collect", "announce", "ask", "ensure", "write"}
          /\ JobGoto("failed")
          /\ lost' = lost
       \/ JobAt("progress") /\ JobGoto("ask") /\ lost' = lost
       \/ job.pc \in {"done", "failed"} /\ job' = NoJob /\ lost' = TRUE
    /\ UNCHANGED <<storeVars, jobStatus>>

\* Mutant: the status of a job that died with the process is left.
ResetNothing == jobStatus' = jobStatus

\* ResetStale, when the process starts; its failure is logged.
ResetStale == jobStatus' = IF jobStatus = "running" THEN "failed" ELSE jobStatus

JobStepTaken ==
    \/ Configure \/ Collect \/ Announce \/ Ask \/ EnsureAssigned \/ Assign
    \/ WriteProgress \/ FinishJob
=============================================================================
