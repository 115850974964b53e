------------------------------ MODULE SyncQueue ------------------------------
(***************************************************************************)
(* The durable event queue of the live sync: the sync_events table         *)
(* (db/postgresSyncEventStore.ts) and the SyncEngine objects of the server *)
(* processes that feed it, claim from it and write outcomes back to it     *)
(* (engine/syncEngine.ts), with the delete-approval records they keep      *)
(* (db/postgresGovernanceStore.ts).                                        *)
(*                                                                         *)
(* One action is one database transaction, one call to a CRM, or one piece *)
(* of code that runs between two awaits.  A job is named by the identity   *)
(* of the vendor event it was made from, so a repeated delivery names the  *)
(* same job.                                                               *)
(***************************************************************************)
EXTENDS Naturals, FiniteSets

CONSTANTS
  Job,           \* identities of the change events that may arrive
  DeleteJob,     \* the events whose changeType is 'deleted'
  Linked,        \* the delete events whose record has a linked counterpart
  Engine,        \* server processes, each with one SyncEngine
  Concurrency,   \* opts.concurrency: jobs per claim
  MaxAttempts,   \* opts.maxAttempts
  DeletePolicy,  \* opts.deletePolicy
  MaxReplays,    \* bound: operator replays in a behaviour
  MaxCrashes,    \* bound: process crashes in a behaviour
  MaxCalls       \* bound: engine calls of one process awaiting the database

ASSUME ConstantsAssumption ==
  /\ IsFiniteSet(Job)
  /\ DeleteJob \subseteq Job
  /\ Linked \subseteq DeleteJob
  /\ Concurrency \in Nat \ {0}
  /\ MaxAttempts \in Nat \ {0}
  /\ DeletePolicy \in {"ignore", "cascade", "manual-review"}
  /\ MaxReplays \in Nat
  /\ MaxCrashes \in Nat
  /\ MaxCalls \in Nat \ {0}

Status == {"absent", "queued", "processing", "retry", "completed",
           "dead_letter", "manual_review", "dismissed"}

\* What one execution of process(job) has done so far; "none" is no execution.
Phase == {"none", "start", "recorded", "settled", "failed", "ambiguous"}

\* locked_by when it is NULL, and when it names a process that no longer
\* exists (the worker id holds the process id, which a restart changes).
Nobody == "nobody"
Gone   == "gone"

ASSUME LockHolderAssumption == Nobody \notin Engine /\ Gone \notin Engine

VARIABLES
  \* the row of each job in sync_events
  status, attempts, due, lockedBy, leaseOld, age,
  \* each process: its timer, its pump, the executions the pump awaits
  up, timer, pump, ending, kicks, work, seen,
  \* operator requests between their check and their last write
  dismissing, approving,
  \* deletion_requests, the destination CRM, and what has been carried out
  request, removed, settled,
  \* counters of the bounded environment actions
  replays, crashes

rowVars      == <<status, attempts, due, lockedBy, leaseOld, age>>
loopVars     == <<up, timer, pump, ending, kicks>>
execVars     == <<work, seen>>
operatorVars == <<dismissing, approving>>
worldVars    == <<request, removed, settled>>
boundVars    == <<replays, crashes>>
vars == <<rowVars, loopVars, execVars, operatorVars, worldVars, boundVars>>

Present == {j \in Job : status[j] # "absent"}

Init ==
  /\ status = [j \in Job |-> "absent"]
  /\ attempts = [j \in Job |-> 0]
  /\ due = [j \in Job |-> TRUE]
  /\ lockedBy = [j \in Job |-> Nobody]
  /\ leaseOld = [j \in Job |-> FALSE]
  /\ age = [j \in Job |-> 0]
  /\ up = [e \in Engine |-> FALSE]
  /\ timer = [e \in Engine |-> FALSE]
  /\ pump = [e \in Engine |-> "idle"]
  /\ ending = [e \in Engine |-> 0]
  /\ kicks = [e \in Engine |-> 0]
  /\ work = [e \in Engine |-> [j \in Job |-> "none"]]
  /\ seen = [e \in Engine |-> [j \in Job |-> 0]]
  /\ dismissing = [e \in Engine |-> {}]
  /\ approving = [e \in Engine |-> [j \in Job |-> "none"]]
  /\ request = [j \in Job |-> "none"]
  /\ removed = {}
  /\ settled = {}
  /\ replays = 0
  /\ crashes = 0

-----------------------------------------------------------------------------
(* Start-up and scheduling of one engine *)

\* processing rows whose locked_at is more than five minutes old
Stale == {j \in Job : status[j] = "processing" /\ leaseOld[j]}

\* init(): recoverStale, whose reply is followed by kick()
Start(e) ==
  /\ ~up[e]
  /\ up' = [up EXCEPT ![e] = TRUE]
  /\ status' = [j \in Job |-> IF j \in Stale THEN "retry" ELSE status[j]]
  /\ due' = [j \in Job |-> due[j] \/ j \in Stale]
  /\ lockedBy' = [j \in Job |-> IF j \in Stale THEN Nobody ELSE lockedBy[j]]
  /\ leaseOld' = [j \in Job |-> leaseOld[j] /\ j \notin Stale]
  /\ kicks' = [kicks EXCEPT ![e] = @ + 1]
  /\ UNCHANGED <<attempts, age, timer, pump, ending, execVars, operatorVars,
                 worldVars, boundVars>>

\* The whole volatile state of a process is lost with it.
Crash(e) ==
  /\ up[e]
  /\ crashes < MaxCrashes
  /\ crashes' = crashes + 1
  /\ up' = [up EXCEPT ![e] = FALSE]
  /\ timer' = [timer EXCEPT ![e] = FALSE]
  /\ pump' = [pump EXCEPT ![e] = "idle"]
  /\ ending' = [ending EXCEPT ![e] = 0]
  /\ kicks' = [kicks EXCEPT ![e] = 0]
  /\ work' = [work EXCEPT ![e] = [j \in Job |-> "none"]]
  /\ seen' = [seen EXCEPT ![e] = [j \in Job |-> 0]]
  /\ dismissing' = [dismissing EXCEPT ![e] = {}]
  /\ approving' = [approving EXCEPT ![e] = [j \in Job |-> "none"]]
  /\ lockedBy' = [j \in Job |-> IF lockedBy[j] = e THEN Gone ELSE lockedBy[j]]
  /\ UNCHANGED <<status, attempts, due, leaseOld, age, worldVars, replays>>

\* kick(): does nothing while the pump runs or a timer is armed
ArmedByKick(e) == timer[e] \/ pump[e] = "idle"

Kick(e) ==
  /\ kicks[e] > 0
  /\ kicks' = [kicks EXCEPT ![e] = @ - 1]
  /\ timer' = [timer EXCEPT ![e] = ArmedByKick(e)]
  /\ UNCHANGED <<rowVars, up, pump, ending, execVars, operatorVars, worldVars,
                 boundVars>>

\* The timer's callback clears it and enters pump(), which sends a claim.
TimerFires(e) ==
  /\ timer[e]
  /\ timer' = [timer EXCEPT ![e] = FALSE]
  /\ pump' = [pump EXCEPT ![e] = IF @ = "idle" THEN "claiming" ELSE @]
  /\ UNCHANGED <<rowVars, up, ending, kicks, execVars, operatorVars,
                 worldVars, boundVars>>

\* Mutant: the claim also picks dead letters up.
ClaimableDeadLetters ==
  {j \in Job : status[j] \in {"queued", "retry", "dead_letter"} /\ due[j]}

Claimable == {j \in Job : status[j] \in {"queued", "retry"} /\ due[j]}

\* ORDER BY created_at LIMIT Concurrency
Batches ==
  {S \in SUBSET Claimable :
     /\ Cardinality(S) <= Concurrency
     /\ S # Claimable => Cardinality(S) = Concurrency
     /\ \A j \in S, k \in Claimable \ S : age[j] <= age[k]}

\* The claim's statement at the database: the rows are leased before the
\* process that asked for them hears of it.
Claim(e) ==
  /\ pump[e] = "claiming"
  /\ pump' = [pump EXCEPT ![e] = "replied"]
  /\ \E S \in Batches :
       /\ status' = [j \in Job |-> IF j \in S THEN "processing" ELSE status[j]]
       /\ attempts' = [j \in Job |-> IF j \in S THEN attempts[j] + 1
                                                ELSE attempts[j]]
       /\ lockedBy' = [j \in Job |-> IF j \in S THEN e ELSE lockedBy[j]]
       /\ leaseOld' = [j \in Job |-> leaseOld[j] /\ j \notin S]
       /\ work' = [work EXCEPT ![e] = [j \in Job |-> IF j \in S THEN "start"
                                                                ELSE @[j]]]
       /\ seen' = [seen EXCEPT ![e] = [j \in Job |-> IF j \in S
                                                     THEN attempts[j] + 1
                                                     ELSE @[j]]]
  /\ UNCHANGED <<due, age, up, timer, ending, kicks, operatorVars, worldVars,
                 boundVars>>

Busy(e) == \E j \in Job : work[e][j] # "none"

\* The reply of a claim that leased something starts its executions ...
ClaimReply(e) ==
  /\ pump[e] = "replied"
  /\ Busy(e)
  /\ pump' = [pump EXCEPT ![e] = "working"]
  /\ UNCHANGED <<rowVars, up, timer, ending, kicks, execVars, operatorVars,
                 worldVars, boundVars>>

\* ... and an empty one ends the pump, whose finally block asks for stats().
PumpEnds(e) ==
  /\ pump[e] = "replied"
  /\ ~Busy(e)
  /\ ending[e] < MaxCalls
  /\ pump' = [pump EXCEPT ![e] = "idle"]
  /\ ending' = [ending EXCEPT ![e] = @ + 1]
  /\ UNCHANGED <<rowVars, up, timer, kicks, execVars, operatorVars, worldVars,
                 boundVars>>

\* Promise.all has resolved: the pump claims again.
ClaimAgain(e) ==
  /\ pump[e] = "working"
  /\ ~Busy(e)
  /\ pump' = [pump EXCEPT ![e] = "claiming"]
  /\ UNCHANGED <<rowVars, up, timer, ending, kicks, execVars, operatorVars,
                 worldVars, boundVars>>

\* Mutant: the finally block looks at the wrong counter.
WantsPollWrongCounter == \E j \in Job : status[j] = "processing"

\* if (stats.retry > 0) this.kick(1000)
WantsPoll == \E j \in Job : status[j] = "retry"

StatsReply(e) ==
  /\ ending[e] > 0
  /\ ending' = [ending EXCEPT ![e] = @ - 1]
  /\ timer' = [timer EXCEPT ![e] = IF WantsPoll THEN ArmedByKick(e) ELSE @]
  /\ UNCHANGED <<rowVars, up, pump, kicks, execVars, operatorVars, worldVars,
                 boundVars>>

-----------------------------------------------------------------------------
(* process(job): the executions a pump has started *)

At(e, j, phase) == pump[e] = "working" /\ work[e][j] = phase

Advance(e, j, phase) ==
  /\ work' = [work EXCEPT ![e][j] = phase]
  /\ UNCHANGED <<rowVars, loopVars, seen, operatorVars, boundVars>>

\* setStatus(): unconditional on the row's present status and lock
SetStatus(j, s) ==
  /\ status' = [status EXCEPT ![j] = s]
  /\ lockedBy' = [lockedBy EXCEPT ![j] = Nobody]
  /\ leaseOld' = [leaseOld EXCEPT ![j] = FALSE]
  /\ UNCHANGED <<attempts, age>>

\* The execution of j ends with the write of its outcome.
Finish(e, j, s) ==
  /\ SetStatus(j, s)
  /\ work' = [work EXCEPT ![e][j] = "none"]
  /\ seen' = [seen EXCEPT ![e][j] = 0]
  /\ UNCHANGED <<loopVars, operatorVars, worldVars, boundVars>>

\* shouldProcess(event) is false: nothing is left to do but complete
Skip(e, j) ==
  /\ At(e, j, "start")
  /\ Advance(e, j, "settled")
  /\ settled' = settled \cup {j}
  /\ UNCHANGED <<request, removed>>

\* read, reconcile and syncRecord all succeed
ApplyChange(e, j) ==
  /\ At(e, j, "start")
  /\ j \notin DeleteJob
  /\ Advance(e, j, "settled")
  /\ settled' = settled \cup {j}
  /\ UNCHANGED <<request, removed>>

\* Mutant: the request is recorded as completed whatever the policy.
RecordDeletionDone(e, j) ==
  /\ At(e, j, "start")
  /\ j \in DeleteJob
  /\ Advance(e, j, "recorded")
  /\ request' = [request EXCEPT ![j] = IF @ # "none" THEN @ ELSE "completed"]
  /\ UNCHANGED <<removed, settled>>

\* recordDeletion: the first write for a job decides the request's status
RecordDeletion(e, j) ==
  /\ At(e, j, "start")
  /\ j \in DeleteJob
  /\ Advance(e, j, "recorded")
  /\ request' = [request EXCEPT ![j] =
       IF @ # "none" THEN @
       ELSE IF DeletePolicy = "cascade" THEN "completed" ELSE "pending"]
  /\ UNCHANGED <<removed, settled>>

ReviewDelete(e, j) ==
  /\ At(e, j, "recorded")
  /\ DeletePolicy = "manual-review"
  /\ Finish(e, j, "manual_review")
  /\ UNCHANGED due

IgnoreDelete(e, j) ==
  /\ At(e, j, "recorded")
  /\ DeletePolicy = "ignore"
  /\ Advance(e, j, "settled")
  /\ settled' = settled \cup {j}
  /\ UNCHANGED <<request, removed>>

\* propagateDelete: returns silently when there is no linked counterpart
RemoveCounterpart(j) ==
  /\ removed' = removed \cup ({j} \cap Linked)
  /\ settled' = settled \cup {j}

CascadeDelete(e, j) ==
  /\ At(e, j, "recorded")
  /\ DeletePolicy = "cascade"
  /\ RemoveCounterpart(j)
  /\ Advance(e, j, "settled")
  /\ UNCHANGED request

\* Any awaited call of the try block may throw.
Fail(e, j) ==
  /\ \E phase \in {"start", "recorded", "settled"} : At(e, j, phase)
  /\ Advance(e, j, "failed")
  /\ UNCHANGED worldVars

\* AmbiguousNaturalKeyError from reconcile
FailAmbiguous(e, j) ==
  /\ At(e, j, "start")
  /\ j \notin DeleteJob
  /\ Advance(e, j, "ambiguous")
  /\ UNCHANGED worldVars

Complete(e, j) ==
  /\ At(e, j, "settled")
  /\ Finish(e, j, "completed")
  /\ UNCHANGED due

ParkAmbiguous(e, j) ==
  /\ At(e, j, "ambiguous")
  /\ Finish(e, j, "manual_review")
  /\ UNCHANGED due

\* Mutant: off by one.
ExhaustedLate(e, j) == seen[e][j] > MaxAttempts

\* job.attempts >= maxAttempts, on the attempts the claim returned
Exhausted(e, j) == seen[e][j] >= MaxAttempts

\* Mutant: the catch block gives up without a write.
DeadLetterForgotten(e, j) ==
  /\ At(e, j, "failed")
  /\ Exhausted(e, j)
  /\ work' = [work EXCEPT ![e][j] = "none"]
  /\ seen' = [seen EXCEPT ![e][j] = 0]
  /\ UNCHANGED <<rowVars, loopVars, operatorVars, worldVars, boundVars>>

\* Mutant: a status the table does not know.
DeadLetterMisnamed(e, j) ==
  /\ At(e, j, "failed")
  /\ Exhausted(e, j)
  /\ Finish(e, j, "failed")
  /\ UNCHANGED due

DeadLetter(e, j) ==
  /\ At(e, j, "failed")
  /\ Exhausted(e, j)
  /\ Finish(e, j, "dead_letter")
  /\ UNCHANGED due

Retry(e, j) ==
  /\ At(e, j, "failed")
  /\ ~Exhausted(e, j)
  /\ Finish(e, j, "retry")
  /\ due' = [due EXCEPT ![j] = FALSE]

Execute(e, j) ==
  \/ Skip(e, j)           \/ ApplyChange(e, j)    \/ RecordDeletion(e, j)
  \/ ReviewDelete(e, j)   \/ IgnoreDelete(e, j)   \/ CascadeDelete(e, j)
  \/ Fail(e, j)           \/ FailAmbiguous(e, j)  \/ Complete(e, j)
  \/ ParkAmbiguous(e, j)  \/ DeadLetter(e, j)     \/ Retry(e, j)

-----------------------------------------------------------------------------
(* Calls from the webhooks, the poller and the operators, each served by one
   process; a call whose reply ends in kick() leaves a pending kick. *)

\* enqueue(events): one transaction; a known identity keeps its row as it is
Enqueue(e) ==
  /\ up[e]
  /\ kicks[e] < MaxCalls
  /\ kicks' = [kicks EXCEPT ![e] = @ + 1]
  /\ \E E \in SUBSET Job \ {{}} :
       LET new == E \ Present IN
       /\ status' = [j \in Job |-> IF j \in new THEN "queued" ELSE status[j]]
       /\ age' = [j \in Job |-> IF j \in new THEN Cardinality(Present) + 1
                                             ELSE age[j]]
  /\ UNCHANGED <<attempts, due, lockedBy, leaseOld, up, timer, pump, ending,
                 execVars, operatorVars, worldVars, boundVars>>

\* replay(id): any row, whatever its status
Replay(e, j) ==
  /\ up[e]
  /\ j \in Present
  /\ kicks[e] < MaxCalls
  /\ replays < MaxReplays
  /\ replays' = replays + 1
  /\ kicks' = [kicks EXCEPT ![e] = @ + 1]
  /\ status' = [status EXCEPT ![j] = "queued"]
  /\ attempts' = [attempts EXCEPT ![j] = 0]
  /\ due' = [due EXCEPT ![j] = TRUE]
  /\ lockedBy' = [lockedBy EXCEPT ![j] = Nobody]
  /\ leaseOld' = [leaseOld EXCEPT ![j] = FALSE]
  /\ UNCHANGED <<age, up, timer, pump, ending, execVars, operatorVars,
                 worldVars, crashes>>

\* dismiss(id) reads the row, checks it, and dismisses it in a later statement
Dismissable == {j \in Job : status[j] \in {"dead_letter", "manual_review", "retry"}}

DismissCheck(e, j) ==
  /\ up[e]
  /\ j \in Dismissable
  /\ dismissing' = [dismissing EXCEPT ![e] = @ \cup {j}]
  /\ UNCHANGED <<rowVars, loopVars, execVars, approving, worldVars, boundVars>>

\* Mutant: dismissing deletes the row.
DismissDeletesRow(e, j) ==
  /\ j \in dismissing[e]
  /\ dismissing' = [dismissing EXCEPT ![e] = @ \ {j}]
  /\ SetStatus(j, "absent")
  /\ UNCHANGED <<due, loopVars, execVars, approving, worldVars, boundVars>>

DismissWrite(e, j) ==
  /\ j \in dismissing[e]
  /\ dismissing' = [dismissing EXCEPT ![e] = @ \ {j}]
  /\ SetStatus(j, "dismissed")
  /\ UNCHANGED <<due, loopVars, execVars, approving, worldVars, boundVars>>

\* approveDelete(id): check, remove, complete, completeDeletion - four awaits
PendingDeletes == {j \in DeleteJob : status[j] = "manual_review"}

ApproveTo(e, j, step) ==
  /\ approving' = [approving EXCEPT ![e][j] = step]
  /\ UNCHANGED <<loopVars, execVars, dismissing, boundVars>>

ApproveCheck(e, j) ==
  /\ up[e]
  /\ approving[e][j] = "none"
  /\ j \in PendingDeletes
  /\ ApproveTo(e, j, "checked")
  /\ UNCHANGED <<rowVars, worldVars>>

ApproveRemove(e, j) ==
  /\ approving[e][j] = "checked"
  /\ RemoveCounterpart(j)
  /\ ApproveTo(e, j, "removed")
  /\ UNCHANGED <<rowVars, request>>

\* Mutant: the job is completed before the counterpart is removed.
ApproveCompleteEarly(e, j) ==
  /\ approving[e][j] = "checked"
  /\ SetStatus(j, "completed")
  /\ ApproveTo(e, j, "completed")
  /\ UNCHANGED <<due, worldVars>>

ApproveComplete(e, j) ==
  /\ approving[e][j] = "removed"
  /\ SetStatus(j, "completed")
  /\ ApproveTo(e, j, "completed")
  /\ UNCHANGED <<due, worldVars>>

\* UPDATE deletion_requests: nothing happens when there is no row
ApproveRecord(e, j) ==
  /\ approving[e][j] = "completed"
  /\ request' = [request EXCEPT ![j] = IF @ = "none" THEN @ ELSE "completed"]
  /\ ApproveTo(e, j, "none")
  /\ UNCHANGED <<rowVars, removed, settled>>

\* An awaited call throws and the request is answered with the error.
ApproveThrows(e, j) ==
  /\ approving[e][j] # "none"
  /\ ApproveTo(e, j, "none")
  /\ UNCHANGED <<rowVars, worldVars>>

Operate(e, j) ==
  \/ Replay(e, j)          \/ DismissCheck(e, j)   \/ DismissWrite(e, j)
  \/ ApproveCheck(e, j)    \/ ApproveRemove(e, j)  \/ ApproveComplete(e, j)
  \/ ApproveRecord(e, j)   \/ ApproveThrows(e, j)

-----------------------------------------------------------------------------
(* Time *)

\* next_attempt_at passes
BackoffElapses(j) ==
  /\ ~due[j]
  /\ due' = [due EXCEPT ![j] = TRUE]
  /\ UNCHANGED <<status, attempts, lockedBy, leaseOld, age, loopVars, execVars,
                 operatorVars, worldVars, boundVars>>

\* five minutes pass since locked_at
LeaseAges(j) ==
  /\ status[j] = "processing"
  /\ ~leaseOld[j]
  /\ leaseOld' = [leaseOld EXCEPT ![j] = TRUE]
  /\ UNCHANGED <<status, attempts, due, lockedBy, age, loopVars, execVars,
                 operatorVars, worldVars, boundVars>>

Loop(e) ==
  \/ Kick(e)        \/ TimerFires(e)  \/ Claim(e)       \/ ClaimReply(e)
  \/ PumpEnds(e)    \/ ClaimAgain(e)  \/ StatsReply(e)

Next ==
  \/ \E e \in Engine : Start(e) \/ Crash(e) \/ Loop(e) \/ Enqueue(e)
  \/ \E e \in Engine, j \in Job : Execute(e, j) \/ Operate(e, j)
  \/ \E j \in Job : BackoffElapses(j) \/ LeaseAges(j)

Spec == Init /\ [][Next]_vars

\* What the code's own scheduling justifies: a process is started again, a
\* pending kick, timer, reply or awaited call of a live process comes, and
\* time passes.  Nothing obliges vendors or operators to call.
Fairness ==
  /\ \A e \in Engine :
       /\ WF_vars(Start(e)) /\ WF_vars(Kick(e)) /\ WF_vars(TimerFires(e))
       /\ WF_vars(Claim(e)) /\ WF_vars(ClaimReply(e)) /\ WF_vars(PumpEnds(e))
       /\ WF_vars(ClaimAgain(e)) /\ WF_vars(StatsReply(e))
  /\ \A e \in Engine, j \in Job : WF_vars(Execute(e, j))
  /\ \A j \in Job : WF_vars(BackoffElapses(j)) /\ WF_vars(LeaseAges(j))

FairSpec == Spec /\ Fairness
-----------------------------------------------------------------------------
(* Correctness properties *)

\* The type invariant of every variable above.
TypeOK ==
  /\ status \in [Job -> Status]
  /\ attempts \in [Job -> Nat]
  /\ due \in [Job -> BOOLEAN]
  /\ lockedBy \in [Job -> Engine \cup {Nobody, Gone}]
  /\ leaseOld \in [Job -> BOOLEAN]
  /\ age \in [Job -> Nat]
  /\ up \in [Engine -> BOOLEAN]
  /\ timer \in [Engine -> BOOLEAN]
  /\ pump \in [Engine -> {"idle", "claiming", "replied", "working"}]
  /\ ending \in [Engine -> Nat]
  /\ kicks \in [Engine -> Nat]
  /\ work \in [Engine -> [Job -> Phase]]
  /\ seen \in [Engine -> [Job -> Nat]]
  /\ dismissing \in [Engine -> SUBSET Job]
  /\ approving \in [Engine -> [Job -> {"none", "checked", "removed", "completed"}]]
  /\ request \in [Job -> {"none", "pending", "completed"}]
  /\ removed \in SUBSET Job
  /\ settled \in SUBSET Job
  /\ replays \in 0 .. MaxReplays
  /\ crashes \in 0 .. MaxCrashes

\* A job shown as 'processing' is held by a process that is executing it, or
\* its holder is gone and only recoverStale can release it: no interleaving of
\* claims, replays, dismissals and late outcome writes strands a row under a
\* live process (claim, setStatus, replay and recoverStale).
LeaseAccounted ==
  \A j \in Job : status[j] = "processing" =>
    \/ lockedBy[j] = Gone
    \/ lockedBy[j] \in Engine /\ work[lockedBy[j]][j] # "none"

\* A job is never reported 'completed' before its change was carried out, or
\* was found to need nothing, in the destination (process and approveDelete
\* write the outcome last), whatever crashed, failed or overlapped before.
CompletedIsDone ==
  \A j \in Job : status[j] = "completed" => j \in settled

\* Under manual review, the delete-approval record says 'completed' only once
\* the linked destination record has been removed (recordDeletion,
\* approveDelete, completeDeletion), even when approvals, dismissals, replays
\* and crashes interleave.
RequestHonest ==
  DeletePolicy # "cascade" =>
    \A j \in Linked : request[j] = "completed" => j \in removed

\* A process will look at the queue without being called again.
Watching(e) ==
  up[e] /\ (kicks[e] > 0 \/ timer[e] \/ pump[e] # "idle" \/ ending[e] > 0)

\* No job waits for a retry that nobody will make: while a row is in 'retry',
\* some live process still has a kick, a timer, a pump or a stats query
\* outstanding, or some process is down and will look when it starts (kick,
\* pump's finally block and init).
RetryWatched ==
  (\E j \in Job : status[j] = "retry") =>
    \/ \E e \in Engine : Watching(e)
    \/ \E e \in Engine : ~up[e]

OneProcess == \E e \in Engine : Engine = {e}

\* With one process, the retry budget holds: the machine attempts a job at most
\* maxAttempts times, plus once for each crash that struck while it was leased
\* (claim counts, process compares, recoverStale does not reset).
AttemptBudget ==
  OneProcess =>
    \A j \in Job : attempts[j] <= MaxAttempts + crashes

\* With one process, only an operator takes a job out of 'dead_letter': no late
\* write, retry or recovery of the engine revives it.
DeadLetterStays ==
  [][OneProcess =>
       \A j \in Job : status[j] = "dead_letter" =>
         status'[j] \notin {"processing", "retry", "manual_review"}]_vars

\* With one process that does not crash, a failing job is not retried for ever
\* and not forgotten: from 'retry' it reaches an outcome, or an operator acts
\* on it (Retry, BackoffElapses, StatsReply's kick and the attempt limit).
RetrySettles ==
  \A j \in Job :
    status[j] = "retry" ~> status[j] \notin {"retry", "processing"}

\* What a row's status reports of its job to those who enqueued it.
Outcome(s) ==
  IF s \in {"queued", "processing", "retry"} THEN "open"
  ELSE IF s \in {"dead_letter", "manual_review"} THEN "parked" ELSE s

Reported == [j \in Job |-> Outcome(status[j])]

Queue == INSTANCE JobQueue WITH state <- Reported, done <- settled

\* The rows, leases, retries, crashes and operators implement a plain
\* at-least-once queue: no accepted job is ever forgotten, and none is
\* reported as completed before it was carried out (claim, setStatus, replay,
\* dismiss, approveDelete and recoverStale, whatever they overlap with).
ImplementsJobQueue == Queue!Spec

\* 'dismissed' is "Terminal, like 'completed'" (syncEventStore.ts): only an
\* operator's replay takes a job out of either.
TerminalIsFinal ==
  [][\A j \in Job : status[j] \in {"completed", "dismissed"} =>
       status'[j] \in {"completed", "dismissed", "queued"}]_vars

\* "Persist first, then schedule. Webhook handlers can safely acknowledge"
\* (syncEngine.ts): an event that was persisted is eventually looked at.
QueuedIsServed ==
  \A j \in Job : status[j] = "queued" ~> status[j] # "queued"

\* `processing` means "leased by a worker" (OPERATIONS.md): a worker's lease
\* ends, so the job does not stay in 'processing' for ever.
ProcessingIsTransient ==
  \A j \in Job : status[j] = "processing" ~> status[j] # "processing"

=============================================================================
