-------------------------- MODULE SyncQueueRefinement --------------------------
(* SyncQueue implements JobQueue, for every set of jobs and processes, every   *)
(* concurrency, attempt limit and delete policy.                               *)
EXTENDS SyncQueueProofs

\* A call that is under way for a job was made for a row that exists, and rows
\* are never deleted.
AcceptedFirst ==
  /\ \A e \in Engine, j \in Job : work[e][j] # "none" => status[j] # "absent"
  /\ \A e \in Engine, j \in Job : approving[e][j] # "none" => status[j] # "absent"
  /\ \A e \in Engine, j \in Job : j \in dismissing[e] => status[j] # "absent"

RefinementInv == TypeOK /\ DoneInv /\ AcceptedFirst

-----------------------------------------------------------------------------
(* What a step may do to the reported state and to the effects *)

StayOpen == UNCHANGED <<Reported, settled>>

AcceptNew ==
  \E S \in SUBSET Job :
    /\ \A j \in S : status[j] = "absent"
    /\ status' = [j \in Job |-> IF j \in S THEN "queued" ELSE status[j]]
    /\ UNCHANGED settled

CarryOut(j) ==
  /\ status[j] # "absent"
  /\ settled' = settled \cup {j}
  /\ UNCHANGED status

WriteOutcome(j) ==
  /\ status[j] # "absent"
  /\ \E s \in Status \ {"absent", "processing"} :
       /\ s = "completed" => j \in settled
       /\ status' = [status EXCEPT ![j] = s]
  /\ UNCHANGED settled

QueueStep == StayOpen \/ AcceptNew \/ \E j \in Job : CarryOut(j) \/ WriteOutcome(j)

\* Statuses that report the same leave the reported state as it is.
LEMMA SameOutcomes ==
  ASSUME \A j \in Job : Outcome(status'[j]) = Outcome(status[j]), UNCHANGED settled
  PROVE  StayOpen
BY DEF StayOpen, Reported

LEMMA LoopQueueStep ==
  ASSUME RefinementInv, NEW e \in Engine, Loop(e) PROVE QueueStep
<1>1. CASE Claim(e)
  <2>1. PICK S \in Batches :
          status' = [j \in Job |-> IF j \in S THEN "processing" ELSE status[j]]
    BY <1>1 DEF Claim
  <2>2. \A j \in S : j \in Job /\ status[j] \in {"queued", "retry"}
    BY <2>1 DEF Batches, Claimable
  <2>3. \A j \in Job : Outcome(status'[j]) = Outcome(status[j])
    BY <2>1, <2>2 DEF Outcome
  <2>4. QED BY <1>1, <2>3, SameOutcomes DEF Claim, worldVars, QueueStep
<1>2. CASE ~Claim(e)
  <2>1. UNCHANGED <<status, settled>>
    BY <1>2
    DEF Loop, Kick, TimerFires, ClaimReply, PumpEnds, ClaimAgain, StatsReply,
        rowVars, worldVars
  <2>2. QED BY <2>1, SameOutcomes DEF QueueStep
<1>3. QED BY <1>1, <1>2

\* An execution advances, with or without an effect, or writes its outcome.
LEMMA ExecuteQueueStep ==
  ASSUME RefinementInv, NEW e \in Engine, NEW j \in Job, Execute(e, j)
  PROVE  QueueStep
<1>1. status[j] # "absent"
  <2>1. work[e][j] # "none"
    BY DEF Execute, At, Skip, ApplyChange, RecordDeletion, ReviewDelete, IgnoreDelete,
           CascadeDelete, Fail, FailAmbiguous, Complete, ParkAmbiguous, DeadLetter, Retry
  <2>2. QED BY <2>1 DEF RefinementInv, AcceptedFirst
<1>2. CASE \E p \in Phase \ {"none"} : Advance(e, j, p)
  <2>1. UNCHANGED status BY <1>2 DEF Advance, rowVars
  <2>2. UNCHANGED settled \/ settled' = settled \cup {j}
    BY <1>2
    DEF Execute, Skip, ApplyChange, RecordDeletion, ReviewDelete, IgnoreDelete,
        CascadeDelete, Fail, FailAmbiguous, Complete, ParkAmbiguous, DeadLetter, Retry,
        RemoveCounterpart, worldVars, Finish
  <2>3. QED BY <1>1, <2>1, <2>2, SameOutcomes DEF QueueStep, CarryOut
<1>3. CASE \E s \in {"completed", "manual_review", "dead_letter", "retry"} : Finish(e, j, s)
  <2>1. PICK s \in {"completed", "manual_review", "dead_letter", "retry"} : Finish(e, j, s)
    BY <1>3
  <2>2. status' = [status EXCEPT ![j] = s] /\ UNCHANGED settled
    BY <2>1 DEF Finish, SetStatus, worldVars
  <2>3. work'[e][j] = "none"
    BY <2>1 DEF Finish, RefinementInv, TypeOK
  <2>4. s = "completed" => j \in settled
    <3>1. SUFFICES ASSUME s = "completed" PROVE j \in settled OBVIOUS
    <3>2. status'[j] = "completed" BY <2>2, <3>1 DEF RefinementInv, TypeOK
    <3>3. CompletedIsDone'
      BY DoneStep DEF RefinementInv, DoneInv, Next
    <3>4. QED BY <2>2, <3>2, <3>3 DEF CompletedIsDone
  <2>5. QED BY <1>1, <2>2, <2>4 DEF QueueStep, WriteOutcome, Status
<1>4. QED BY <1>2, <1>3, ExecuteShape

LEMMA OperateQueueStep ==
  ASSUME RefinementInv, NEW e \in Engine, NEW j \in Job, Operate(e, j)
  PROVE  QueueStep
<1> USE DEF RefinementInv, AcceptedFirst, QueueStep
<1>a. ASSUME UNCHANGED <<status, settled>> PROVE QueueStep
  BY <1>a, SameOutcomes
<1>1. CASE Replay(e, j)
  <2>1. status[j] # "absent" BY <1>1 DEF Replay, Present
  <2>2. QED BY <1>1, <2>1 DEF Replay, WriteOutcome, Status, worldVars
<1>2. CASE DismissCheck(e, j)
  BY <1>2, <1>a DEF DismissCheck, rowVars, worldVars
<1>3. CASE DismissWrite(e, j)
  BY <1>3 DEF DismissWrite, SetStatus, WriteOutcome, Status, worldVars
<1>4. CASE ApproveCheck(e, j)
  BY <1>4, <1>a DEF ApproveCheck, rowVars, worldVars
<1>5. CASE ApproveRemove(e, j)
  BY <1>5 DEF ApproveRemove, RemoveCounterpart, CarryOut, rowVars
<1>6. CASE ApproveComplete(e, j)
  BY <1>6 DEF ApproveComplete, SetStatus, WriteOutcome, Status, worldVars,
              DoneInv, EffectsFirst
<1>7. CASE ApproveRecord(e, j)
  BY <1>7, <1>a DEF ApproveRecord, rowVars
<1>8. CASE ApproveThrows(e, j)
  BY <1>8, <1>a DEF ApproveThrows, rowVars, worldVars
<1>9. QED BY <1>1, <1>2, <1>3, <1>4, <1>5, <1>6, <1>7, <1>8 DEF Operate

LEMMA StepIsQueueStep == RefinementInv /\ [Next]_vars => QueueStep
<1> SUFFICES ASSUME RefinementInv, [Next]_vars PROVE QueueStep OBVIOUS
<1>a. ASSUME UNCHANGED <<status, settled>> PROVE QueueStep
  BY <1>a, SameOutcomes DEF QueueStep
<1>1. ASSUME NEW e \in Engine, Start(e) PROVE QueueStep
  <2>1. \A j \in Job : Outcome(status'[j]) = Outcome(status[j])
    BY <1>1 DEF Start, Stale, Outcome
  <2>2. QED BY <1>1, <2>1, SameOutcomes DEF Start, worldVars, QueueStep
<1>2. ASSUME NEW e \in Engine, Crash(e) PROVE QueueStep
  BY <1>2, <1>a DEF Crash, worldVars
<1>3. ASSUME NEW e \in Engine, Loop(e) PROVE QueueStep
  BY <1>3, LoopQueueStep
<1>4. ASSUME NEW e \in Engine, Enqueue(e) PROVE QueueStep
  <2>1. PICK E \in SUBSET Job :
          status' = [j \in Job |-> IF j \in E \ Present THEN "queued" ELSE status[j]]
    BY <1>4 DEF Enqueue
  <2>2. /\ E \ Present \in SUBSET Job
        /\ \A j \in E \ Present : status[j] = "absent"
    BY DEF Present
  <2>3. QED BY <1>4, <2>1, <2>2 DEF Enqueue, AcceptNew, QueueStep, worldVars
<1>5. ASSUME NEW e \in Engine, NEW j \in Job, Execute(e, j) PROVE QueueStep
  BY <1>5, ExecuteQueueStep
<1>6. ASSUME NEW e \in Engine, NEW j \in Job, Operate(e, j) PROVE QueueStep
  BY <1>6, OperateQueueStep
<1>7. ASSUME NEW j \in Job, BackoffElapses(j) \/ LeaseAges(j) PROVE QueueStep
  BY <1>7, <1>a DEF BackoffElapses, LeaseAges, worldVars
<1>8. CASE UNCHANGED vars
  BY <1>8, <1>a DEF vars, rowVars, worldVars
<1>9. QED BY <1>1, <1>2, <1>3, <1>4, <1>5, <1>6, <1>7, <1>8 DEF Next

-----------------------------------------------------------------------------
(* The step as a step of JobQueue *)

LEMMA QueueStepRefines ==
  ASSUME RefinementInv, QueueStep
  PROVE  [Queue!Next]_Queue!queueVars
<1> USE DEF Queue!queueVars, Queue!Accepted
<1>1. CASE StayOpen
  BY <1>1 DEF StayOpen
<1>2. CASE AcceptNew
  <2>1. PICK S \in SUBSET Job :
          /\ \A j \in S : status[j] = "absent"
          /\ status' = [j \in Job |-> IF j \in S THEN "queued" ELSE status[j]]
          /\ UNCHANGED settled
    BY <1>2 DEF AcceptNew
  <2>2. Reported' = [j \in Job |-> IF j \in S THEN "open" ELSE Reported[j]]
    BY <2>1 DEF Reported, Outcome
  <2>3. \A j \in S : Reported[j] = "absent"
    BY <2>1 DEF Reported, Outcome
  <2>4. Queue!Accept(S)
    BY <2>1, <2>2, <2>3 DEF Queue!Accept
  <2>5. QED BY <2>4 DEF Queue!Next
<1>3. CASE \E j \in Job : CarryOut(j)
  <2>1. PICK j \in Job : CarryOut(j) BY <1>3
  <2>2. Reported[j] # "absent" /\ Reported' = Reported
    BY <2>1 DEF CarryOut, Reported, Outcome
  <2>3. Queue!Perform(j)
    BY <2>1, <2>2 DEF Queue!Perform, CarryOut
  <2>4. QED BY <2>3 DEF Queue!Next
<1>4. CASE \E j \in Job : WriteOutcome(j)
  <2>1. PICK j \in Job, s \in Status \ {"absent", "processing"} :
          /\ status[j] # "absent"
          /\ s = "completed" => j \in settled
          /\ status' = [status EXCEPT ![j] = s]
          /\ UNCHANGED settled
    BY <1>4 DEF WriteOutcome
  <2>2. Reported[j] # "absent"
    BY <2>1 DEF Reported, Outcome
  <2>3. Reported' = [Reported EXCEPT ![j] = Outcome(s)]
    BY <2>1 DEF Reported, Outcome, RefinementInv, TypeOK
  <2>4. /\ Outcome(s) \in Queue!State \ {"absent"}
        /\ Outcome(s) = "completed" => j \in settled
    BY <2>1 DEF Outcome, Status, Queue!State
  <2>5. Queue!Report(j, Outcome(s))
    BY <2>1, <2>2, <2>3, <2>4 DEF Queue!Report
  <2>6. QED BY <2>4, <2>5 DEF Queue!Next
<1>5. QED BY <1>1, <1>2, <1>3, <1>4 DEF QueueStep

-----------------------------------------------------------------------------
(* The invariant holds throughout *)

\* Only a call for a row that exists begins, and no step makes a row absent.
LEMMA AcceptedStep == TypeOK /\ AcceptedFirst /\ [Next]_vars => AcceptedFirst'
<1> SUFFICES ASSUME TypeOK, AcceptedFirst, [Next]_vars PROVE AcceptedFirst' OBVIOUS
<1> USE DEF AcceptedFirst
<1>b. ASSUME UNCHANGED <<status, work, approving, dismissing>> PROVE AcceptedFirst'
  BY <1>b
<1>1. ASSUME NEW e \in Engine, Start(e) PROVE AcceptedFirst'
  BY <1>1 DEF Start, Stale, execVars, operatorVars
<1>2. ASSUME NEW e \in Engine, Crash(e) PROVE AcceptedFirst'
  BY <1>2 DEF Crash, TypeOK
<1>3. ASSUME NEW e \in Engine, Loop(e) PROVE AcceptedFirst'
  <2>1. CASE Claim(e)
    <3>1. PICK S \in Batches :
            /\ status' = [j \in Job |-> IF j \in S THEN "processing" ELSE status[j]]
            /\ work' = [work EXCEPT ![e] = [j \in Job |-> IF j \in S THEN "start" ELSE @[j]]]
      BY <2>1 DEF Claim
    <3>2. UNCHANGED <<approving, dismissing>> BY <2>1 DEF Claim, operatorVars
    <3>3. QED BY <3>1, <3>2 DEF TypeOK
  <2>2. CASE ~Claim(e)
    BY <1>3, <2>2, <1>b
    DEF Loop, Kick, TimerFires, ClaimReply, PumpEnds, ClaimAgain, StatsReply,
        rowVars, execVars, operatorVars
  <2>3. QED BY <2>1, <2>2
<1>4. ASSUME NEW e \in Engine, Enqueue(e) PROVE AcceptedFirst'
  BY <1>4 DEF Enqueue, execVars, operatorVars
<1>5. ASSUME NEW e \in Engine, NEW j \in Job, Execute(e, j) PROVE AcceptedFirst'
  <2>1. work[e][j] # "none"
    BY <1>5
    DEF Execute, At, Skip, ApplyChange, RecordDeletion, ReviewDelete, IgnoreDelete,
        CascadeDelete, Fail, FailAmbiguous, Complete, ParkAmbiguous, DeadLetter, Retry
  <2>2. CASE \E p \in Phase \ {"none"} : Advance(e, j, p)
    BY <2>1, <2>2 DEF Advance, TypeOK, rowVars, operatorVars
  <2>3. CASE \E s \in {"completed", "manual_review", "dead_letter", "retry"} :
               Finish(e, j, s)
    BY <2>3 DEF Finish, SetStatus, TypeOK, operatorVars
  <2>4. QED BY <1>5, <2>2, <2>3, ExecuteShape
<1>6. ASSUME NEW e \in Engine, NEW j \in Job, Operate(e, j) PROVE AcceptedFirst'
  <2> USE DEF ApproveTo, SetStatus, execVars
  <2>1. CASE Replay(e, j)
    BY <2>1 DEF Replay, TypeOK, operatorVars
  <2>2. CASE DismissCheck(e, j)
    BY <2>2 DEF DismissCheck, Dismissable, TypeOK, rowVars
  <2>3. CASE DismissWrite(e, j)
    BY <2>3 DEF DismissWrite, TypeOK
  <2>4. CASE ApproveCheck(e, j)
    BY <2>4 DEF ApproveCheck, PendingDeletes, TypeOK, rowVars
  <2>5. CASE ApproveRemove(e, j)
    BY <2>5 DEF ApproveRemove, TypeOK, rowVars
  <2>6. CASE ApproveComplete(e, j)
    BY <2>6 DEF ApproveComplete, TypeOK
  <2>7. CASE ApproveRecord(e, j)
    BY <2>7 DEF ApproveRecord, TypeOK, rowVars
  <2>8. CASE ApproveThrows(e, j)
    BY <2>8 DEF ApproveThrows, TypeOK, rowVars
  <2>9. QED
    BY <1>6, <2>1, <2>2, <2>3, <2>4, <2>5, <2>6, <2>7, <2>8 DEF Operate
<1>7. ASSUME NEW j \in Job, BackoffElapses(j) \/ LeaseAges(j) PROVE AcceptedFirst'
  BY <1>7, <1>b DEF BackoffElapses, LeaseAges, execVars, operatorVars
<1>8. CASE UNCHANGED vars
  BY <1>8, <1>b DEF vars, rowVars, execVars, operatorVars
<1>9. QED BY <1>1, <1>2, <1>3, <1>4, <1>5, <1>6, <1>7, <1>8 DEF Next

LEMMA RefinementInvariant == Spec => []RefinementInv
<1>1. Init => AcceptedFirst
  BY DEF Init, AcceptedFirst
<1>2. Spec => []AcceptedFirst
  BY <1>1, AcceptedStep, TypeCorrect, PTL DEF Spec
<1>3. TypeOK /\ DoneInv /\ AcceptedFirst => RefinementInv
  BY DEF RefinementInv
<1>4. QED BY <1>2, <1>3, TypeCorrect, DoneInvariant, PTL

\* The rows, leases, retries, crashes and operators of the live sync implement
\* an at-least-once queue: no accepted job is forgotten, and none is reported
\* as completed before it was carried out.
THEOREM QueueImplemented == Spec => ImplementsJobQueue
<1>1. Init => Queue!Init
  BY DEF Init, Queue!Init, Reported, Outcome
<1>2. RefinementInv /\ [Next]_vars => [Queue!Next]_Queue!queueVars
  BY StepIsQueueStep, QueueStepRefines
<1>3. QED
  BY <1>1, <1>2, RefinementInvariant, PTL DEF Spec, ImplementsJobQueue, Queue!Spec
=============================================================================
