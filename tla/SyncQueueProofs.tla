--------------------------- MODULE SyncQueueProofs ---------------------------
(* Theorems about SyncQueue for every set of jobs and processes, every       *)
(* concurrency, attempt limit and delete policy.                             *)
EXTENDS SyncQueue, FiniteSetTheorems, TLAPS

\* The number of rows is a natural number, so created_at ranks are.
LEMMA RankType == Cardinality(Present) \in Nat
BY ConstantsAssumption, FS_Subset, FS_CardinalityType DEF Present

-----------------------------------------------------------------------------
(* Type correctness *)

\* A row write by setStatus keeps the types of the row variables.
LEMMA SetStatusType ==
  ASSUME TypeOK, NEW j \in Job, NEW s \in Status, SetStatus(j, s)
  PROVE  /\ status' \in [Job -> Status]
         /\ lockedBy' \in [Job -> Engine \cup {Nobody, Gone}]
         /\ leaseOld' \in [Job -> BOOLEAN]
BY DEF TypeOK, SetStatus

LEMMA LoopType ==
  ASSUME TypeOK, NEW e \in Engine, Loop(e) PROVE TypeOK'
<1>1. CASE Kick(e)
  BY <1>1 DEF TypeOK, Kick, ArmedByKick, rowVars, execVars, operatorVars, worldVars, boundVars
<1>2. CASE TimerFires(e)
  BY <1>2 DEF TypeOK, TimerFires, rowVars, execVars, operatorVars, worldVars, boundVars
<1>3. CASE Claim(e)
  <2>1. PICK S \in Batches :
          /\ status' = [j \in Job |-> IF j \in S THEN "processing" ELSE status[j]]
          /\ attempts' = [j \in Job |-> IF j \in S THEN attempts[j] + 1 ELSE attempts[j]]
          /\ lockedBy' = [j \in Job |-> IF j \in S THEN e ELSE lockedBy[j]]
          /\ leaseOld' = [j \in Job |-> leaseOld[j] /\ j \notin S]
          /\ work' = [work EXCEPT ![e] = [j \in Job |-> IF j \in S THEN "start" ELSE @[j]]]
          /\ seen' = [seen EXCEPT ![e] = [j \in Job |-> IF j \in S THEN attempts[j] + 1 ELSE @[j]]]
    BY <1>3 DEF Claim
  <2>2. /\ status' \in [Job -> Status]
        /\ attempts' \in [Job -> Nat]
        /\ lockedBy' \in [Job -> Engine \cup {Nobody, Gone}]
        /\ leaseOld' \in [Job -> BOOLEAN]
    BY <2>1 DEF TypeOK, Status
  <2>3. work' \in [Engine -> [Job -> Phase]]
    BY <2>1 DEF TypeOK, Phase
  <2>4. seen' \in [Engine -> [Job -> Nat]]
    BY <2>1 DEF TypeOK
  <2>5. QED
    BY <1>3, <2>2, <2>3, <2>4 DEF TypeOK, Claim, operatorVars, worldVars, boundVars
<1>4. CASE ClaimReply(e)
  BY <1>4 DEF TypeOK, ClaimReply, rowVars, execVars, operatorVars, worldVars, boundVars
<1>5. CASE PumpEnds(e)
  BY <1>5 DEF TypeOK, PumpEnds, rowVars, execVars, operatorVars, worldVars, boundVars
<1>6. CASE ClaimAgain(e)
  BY <1>6 DEF TypeOK, ClaimAgain, rowVars, execVars, operatorVars, worldVars, boundVars
<1>7. CASE StatsReply(e)
  <2>1. \/ timer' = [timer EXCEPT ![e] = ArmedByKick(e)]
        \/ timer' = timer
    <3>1. CASE WantsPoll BY <1>7, <3>1 DEF StatsReply
    <3>2. CASE ~WantsPoll BY <1>7, <3>2 DEF StatsReply, TypeOK
    <3>3. QED BY <3>1, <3>2
  <2>2. ArmedByKick(e) \in BOOLEAN
    BY DEF ArmedByKick, TypeOK
  <2>3. timer' \in [Engine -> BOOLEAN]
    BY <2>1, <2>2 DEF TypeOK
  <2>4. ending' \in [Engine -> Nat]
    BY <1>7 DEF StatsReply, TypeOK
  <2>5. QED
    BY <1>7, <2>3, <2>4
    DEF TypeOK, StatsReply, rowVars, execVars, operatorVars, worldVars, boundVars
<1>8. QED BY <1>1, <1>2, <1>3, <1>4, <1>5, <1>6, <1>7 DEF Loop

\* What every step of an execution that ends with a row write leaves typed.
LEMMA FinishType ==
  ASSUME TypeOK, NEW e \in Engine, NEW j \in Job, NEW s \in Status,
         Finish(e, j, s), due' \in [Job -> BOOLEAN]
  PROVE  TypeOK'
<1>1. SetStatus(j, s) BY DEF Finish
<1>2. /\ work' \in [Engine -> [Job -> Phase]]
      /\ seen' \in [Engine -> [Job -> Nat]]
  BY DEF Finish, TypeOK, Phase
<1>3. QED
  BY <1>1, <1>2, SetStatusType
  DEF Finish, SetStatus, TypeOK, loopVars, operatorVars, worldVars, boundVars

LEMMA AdvanceType ==
  ASSUME TypeOK, NEW e \in Engine, NEW j \in Job, NEW p \in Phase, Advance(e, j, p),
         request' \in [Job -> {"none", "pending", "completed"}],
         removed' \in SUBSET Job, settled' \in SUBSET Job
  PROVE  TypeOK'
<1>1. work' \in [Engine -> [Job -> Phase]]
  BY DEF Advance, TypeOK
<1>2. QED
  BY <1>1 DEF Advance, TypeOK, rowVars, loopVars, operatorVars, boundVars

LEMMA ExecuteType ==
  ASSUME TypeOK, NEW e \in Engine, NEW j \in Job, Execute(e, j) PROVE TypeOK'
<1> USE DEF Phase, Status
<1>a. /\ request \in [Job -> {"none", "pending", "completed"}]
      /\ removed \in SUBSET Job /\ settled \in SUBSET Job /\ due \in [Job -> BOOLEAN]
  BY DEF TypeOK
<1>1. CASE Skip(e, j)
  BY <1>1, <1>a, AdvanceType DEF Skip
<1>2. CASE ApplyChange(e, j)
  BY <1>2, <1>a, AdvanceType DEF ApplyChange
<1>3. CASE RecordDeletion(e, j)
  <2>1. request' \in [Job -> {"none", "pending", "completed"}]
    BY <1>3, <1>a DEF RecordDeletion
  <2>2. QED BY <1>3, <1>a, <2>1, AdvanceType DEF RecordDeletion
<1>4. CASE ReviewDelete(e, j)
  BY <1>4, <1>a, FinishType DEF ReviewDelete
<1>5. CASE IgnoreDelete(e, j)
  BY <1>5, <1>a, AdvanceType DEF IgnoreDelete
<1>6. CASE CascadeDelete(e, j)
  BY <1>6, <1>a, AdvanceType DEF CascadeDelete, RemoveCounterpart
<1>7. CASE Fail(e, j)
  BY <1>7, <1>a, AdvanceType DEF Fail, worldVars
<1>8. CASE FailAmbiguous(e, j)
  BY <1>8, <1>a, AdvanceType DEF FailAmbiguous, worldVars
<1>9. CASE Complete(e, j)
  BY <1>9, <1>a, FinishType DEF Complete
<1>10. CASE ParkAmbiguous(e, j)
  BY <1>10, <1>a, FinishType DEF ParkAmbiguous
<1>11. CASE DeadLetter(e, j)
  BY <1>11, <1>a, FinishType DEF DeadLetter
<1>12. CASE Retry(e, j)
  BY <1>12, <1>a, FinishType DEF Retry
<1>13. QED
  BY <1>1, <1>2, <1>3, <1>4, <1>5, <1>6, <1>7, <1>8, <1>9, <1>10, <1>11, <1>12
  DEF Execute

LEMMA OperateType ==
  ASSUME TypeOK, NEW e \in Engine, NEW j \in Job, Operate(e, j) PROVE TypeOK'
<1>1. CASE Replay(e, j)
  <2>1. replays' \in 0 .. MaxReplays
    BY <1>1, ConstantsAssumption DEF Replay, TypeOK
  <2>2. QED
    BY <1>1, <2>1 DEF Replay, TypeOK, Status, execVars, operatorVars, worldVars
<1>2. CASE DismissCheck(e, j)
  BY <1>2 DEF DismissCheck, TypeOK, rowVars, loopVars, execVars, worldVars, boundVars
<1>3. CASE DismissWrite(e, j)
  <2>1. SetStatus(j, "dismissed") BY <1>3 DEF DismissWrite
  <2>2. QED
    BY <1>3, <2>1, SetStatusType
    DEF DismissWrite, SetStatus, TypeOK, Status, loopVars, execVars, worldVars, boundVars
<1>4. CASE ApproveCheck(e, j)
  BY <1>4 DEF ApproveCheck, ApproveTo, TypeOK, rowVars, loopVars, execVars, worldVars, boundVars
<1>5. CASE ApproveRemove(e, j)
  BY <1>5 DEF ApproveRemove, ApproveTo, RemoveCounterpart, TypeOK, rowVars, loopVars, execVars, boundVars
<1>6. CASE ApproveComplete(e, j)
  <2>1. SetStatus(j, "completed") BY <1>6 DEF ApproveComplete
  <2>2. /\ status' \in [Job -> Status]
        /\ lockedBy' \in [Job -> Engine \cup {Nobody, Gone}]
        /\ leaseOld' \in [Job -> BOOLEAN]
    BY <2>1, SetStatusType DEF Status
  <2>3. attempts' = attempts /\ age' = age BY <2>1 DEF SetStatus
  <2>4. QED
    BY <1>6, <2>2, <2>3
    DEF ApproveComplete, ApproveTo, TypeOK, loopVars, execVars, worldVars, boundVars
<1>7. CASE ApproveRecord(e, j)
  BY <1>7 DEF ApproveRecord, ApproveTo, TypeOK, rowVars, loopVars, execVars, boundVars
<1>8. CASE ApproveThrows(e, j)
  BY <1>8 DEF ApproveThrows, ApproveTo, TypeOK, rowVars, loopVars, execVars, worldVars, boundVars
<1>9. QED
  BY <1>1, <1>2, <1>3, <1>4, <1>5, <1>6, <1>7, <1>8 DEF Operate

LEMMA InitType == Init => TypeOK
BY ConstantsAssumption DEF Init, TypeOK, Status, Phase

LEMMA StepType == TypeOK /\ [Next]_vars => TypeOK'
<1> SUFFICES ASSUME TypeOK, [Next]_vars PROVE TypeOK' OBVIOUS
<1>1. ASSUME NEW e \in Engine, Start(e) PROVE TypeOK'
  BY <1>1 DEF Start, Stale, TypeOK, Status, execVars, operatorVars, worldVars, boundVars
<1>2. ASSUME NEW e \in Engine, Crash(e) PROVE TypeOK'
  <2>1. crashes' \in 0 .. MaxCrashes
    BY <1>2, ConstantsAssumption DEF Crash, TypeOK
  <2>2. /\ work' \in [Engine -> [Job -> Phase]]
        /\ seen' \in [Engine -> [Job -> Nat]]
        /\ approving' \in [Engine -> [Job -> {"none", "checked", "removed", "completed"}]]
        /\ dismissing' \in [Engine -> SUBSET Job]
    BY <1>2 DEF Crash, TypeOK, Phase
  <2>3. lockedBy' \in [Job -> Engine \cup {Nobody, Gone}]
    BY <1>2 DEF Crash, TypeOK
  <2>4. QED BY <1>2, <2>1, <2>2, <2>3 DEF Crash, TypeOK, worldVars
<1>3. ASSUME NEW e \in Engine, Enqueue(e) PROVE TypeOK'
  <2>1. PICK E \in SUBSET Job :
          LET new == E \ Present IN
          /\ status' = [j \in Job |-> IF j \in new THEN "queued" ELSE status[j]]
          /\ age' = [j \in Job |-> IF j \in new THEN Cardinality(Present) + 1 ELSE age[j]]
    BY <1>3 DEF Enqueue
  <2>2. age' \in [Job -> Nat]
    BY <2>1, RankType DEF TypeOK
  <2>3. status' \in [Job -> Status]
    BY <2>1 DEF TypeOK, Status
  <2>4. QED
    BY <1>3, <2>2, <2>3 DEF Enqueue, TypeOK, execVars, operatorVars, worldVars, boundVars
<1>4. ASSUME NEW j \in Job, BackoffElapses(j) PROVE TypeOK'
  BY <1>4 DEF BackoffElapses, TypeOK, loopVars, execVars, operatorVars, worldVars, boundVars
<1>5. ASSUME NEW j \in Job, LeaseAges(j) PROVE TypeOK'
  BY <1>5 DEF LeaseAges, TypeOK, loopVars, execVars, operatorVars, worldVars, boundVars
<1>6. CASE UNCHANGED vars
  BY <1>6 DEF vars, TypeOK, rowVars, loopVars, execVars, operatorVars, worldVars, boundVars
<1>7. QED
  BY <1>1, <1>2, <1>3, <1>4, <1>5, <1>6, LoopType, ExecuteType, OperateType DEF Next

\* Every reachable state is well typed.
THEOREM TypeCorrect == Spec => []TypeOK
BY InitType, StepType, PTL DEF Spec
-----------------------------------------------------------------------------
(* 'processing' rows are held *)

\* What the executions of one process do to the rows and to the executions:
\* Advance moves between phases, Finish ends with a row that is not processing.
LEMMA ExecuteShape ==
  ASSUME NEW e \in Engine, NEW j \in Job, Execute(e, j)
  PROVE  /\ pump[e] = "working" /\ UNCHANGED loopVars
         /\ \/ \E p \in Phase \ {"none"} : Advance(e, j, p)
            \/ \E s \in {"completed", "manual_review", "dead_letter", "retry"} :
                 Finish(e, j, s)
<1> USE DEF At, Phase
<1>1. CASE Skip(e, j)            BY <1>1 DEF Skip, Advance
<1>2. CASE ApplyChange(e, j)     BY <1>2 DEF ApplyChange, Advance
<1>3. CASE RecordDeletion(e, j)  BY <1>3 DEF RecordDeletion, Advance
<1>4. CASE ReviewDelete(e, j)    BY <1>4 DEF ReviewDelete, Finish
<1>5. CASE IgnoreDelete(e, j)    BY <1>5 DEF IgnoreDelete, Advance
<1>6. CASE CascadeDelete(e, j)   BY <1>6 DEF CascadeDelete, Advance
<1>7. CASE Fail(e, j)            BY <1>7 DEF Fail, Advance
<1>8. CASE FailAmbiguous(e, j)   BY <1>8 DEF FailAmbiguous, Advance
<1>9. CASE Complete(e, j)        BY <1>9 DEF Complete, Finish
<1>10. CASE ParkAmbiguous(e, j)  BY <1>10 DEF ParkAmbiguous, Finish
<1>11. CASE DeadLetter(e, j)     BY <1>11 DEF DeadLetter, Finish
<1>12. CASE Retry(e, j)          BY <1>12 DEF Retry, Finish
<1>13. QED
  BY <1>1, <1>2, <1>3, <1>4, <1>5, <1>6, <1>7, <1>8, <1>9, <1>10, <1>11, <1>12
  DEF Execute

\* A lease survives as long as its row, its holder and the holder's execution do.
Held(j) == \/ lockedBy[j] = Gone
           \/ lockedBy[j] \in Engine /\ work[lockedBy[j]][j] # "none"

LEMMA LeaseStep == TypeOK /\ LeaseAccounted /\ [Next]_vars => LeaseAccounted'
<1> SUFFICES ASSUME TypeOK, LeaseAccounted, [Next]_vars,
                    NEW k \in Job, status'[k] = "processing"
             PROVE  Held(k)'
  BY DEF LeaseAccounted, Held
<1>a. status[k] = "processing" => Held(k)
  BY DEF LeaseAccounted, Held
<1>b. ASSUME UNCHANGED <<status, lockedBy, work>> PROVE Held(k)'
  BY <1>a, <1>b DEF Held
<1>1. ASSUME NEW e \in Engine, Start(e) PROVE Held(k)'
  BY <1>1, <1>a DEF Start, Stale, Held, TypeOK, execVars
<1>2. ASSUME NEW e \in Engine, Crash(e) PROVE Held(k)'
  BY <1>2, <1>a DEF Crash, Held, TypeOK
<1>3. ASSUME NEW e \in Engine, Loop(e) PROVE Held(k)'
  <2>1. CASE Claim(e)
    <3>1. PICK S \in Batches :
            /\ status' = [j \in Job |-> IF j \in S THEN "processing" ELSE status[j]]
            /\ lockedBy' = [j \in Job |-> IF j \in S THEN e ELSE lockedBy[j]]
            /\ work' = [work EXCEPT ![e] = [j \in Job |-> IF j \in S THEN "start" ELSE @[j]]]
      BY <2>1 DEF Claim
    <3>2. CASE k \in S
      BY <3>1, <3>2 DEF Held, TypeOK
    <3>3. CASE k \notin S
      <4>1. status[k] = "processing" /\ lockedBy'[k] = lockedBy[k]
        BY <3>1, <3>3 DEF TypeOK
      <4>2. \A f \in Engine : work'[f][k] = work[f][k]
        BY <3>1, <3>3 DEF TypeOK
      <4>3. QED BY <4>1, <4>2, <1>a DEF Held
    <3>4. QED BY <3>2, <3>3
  <2>2. CASE ~Claim(e)
    BY <1>3, <2>2, <1>b
    DEF Loop, Kick, TimerFires, ClaimReply, PumpEnds, ClaimAgain, StatsReply,
        rowVars, execVars
  <2>3. QED BY <2>1, <2>2
<1>4. ASSUME NEW e \in Engine, Enqueue(e) PROVE Held(k)'
  BY <1>4, <1>a DEF Enqueue, Held, TypeOK, execVars
<1>5. ASSUME NEW e \in Engine, NEW j \in Job, Execute(e, j) PROVE Held(k)'
  <2>1. ASSUME NEW p \in Phase \ {"none"}, Advance(e, j, p) PROVE Held(k)'
    BY <2>1, <1>a DEF Advance, Held, TypeOK, rowVars
  <2>2. ASSUME NEW s \in {"completed", "manual_review", "dead_letter", "retry"},
               Finish(e, j, s)
        PROVE  Held(k)'
    <3>1. k # j /\ status[k] = "processing" /\ lockedBy'[k] = lockedBy[k]
      BY <2>2 DEF Finish, SetStatus, TypeOK
    <3>2. \A f \in Engine : work'[f][k] = work[f][k]
      BY <2>2, <3>1 DEF Finish, TypeOK
    <3>3. QED BY <3>1, <3>2, <1>a DEF Held
  <2>3. QED BY <2>1, <2>2, <1>5, ExecuteShape
<1>6. ASSUME NEW e \in Engine, NEW j \in Job, Operate(e, j) PROVE Held(k)'
  <2>1. work' = work
    BY <1>6 DEF Operate, Replay, DismissCheck, DismissWrite, ApproveCheck,
                ApproveRemove, ApproveComplete, ApproveRecord, ApproveThrows,
                ApproveTo, execVars
  <2>2. \/ UNCHANGED <<status, lockedBy>>
        \/ \E s \in {"queued", "dismissed", "completed"} :
             /\ status' = [status EXCEPT ![j] = s]
             /\ lockedBy' = [lockedBy EXCEPT ![j] = Nobody]
    BY <1>6 DEF Operate, Replay, DismissCheck, DismissWrite, ApproveCheck,
                ApproveRemove, ApproveComplete, ApproveRecord, ApproveThrows,
                SetStatus, rowVars
  <2>3. QED BY <2>1, <2>2, <1>a DEF Held, TypeOK
<1>7. ASSUME NEW j \in Job, BackoffElapses(j) \/ LeaseAges(j) PROVE Held(k)'
  BY <1>7, <1>b DEF BackoffElapses, LeaseAges, execVars
<1>8. CASE UNCHANGED vars
  BY <1>8, <1>b DEF vars, rowVars, execVars
<1>9. QED BY <1>1, <1>2, <1>3, <1>4, <1>5, <1>6, <1>7, <1>8 DEF Next

\* A 'processing' row always has a process executing it, or its holder is gone.
THEOREM LeaseAlwaysAccounted == Spec => []LeaseAccounted
<1>1. Init => LeaseAccounted
  BY DEF Init, LeaseAccounted
<1>2. QED BY <1>1, LeaseStep, TypeCorrect, PTL DEF Spec
-----------------------------------------------------------------------------
(* Retries are watched *)

LEMMA RetryWatchedStep == TypeOK /\ RetryWatched /\ [Next]_vars => RetryWatched'
<1> SUFFICES ASSUME TypeOK, RetryWatched, [Next]_vars,
                    \A f \in Engine : up'[f],
                    NEW k \in Job, status'[k] = "retry"
             PROVE  \E f \in Engine : Watching(f)'
  BY DEF RetryWatched
<1> USE DEF Watching
<1>1. ASSUME NEW e \in Engine, Start(e) PROVE Watching(e)'
  BY <1>1 DEF Start, TypeOK
<1>2. ASSUME NEW e \in Engine, Crash(e) PROVE FALSE
  BY <1>2 DEF Crash, TypeOK
<1>3. ASSUME NEW e \in Engine, Loop(e) PROVE \E f \in Engine : Watching(f)'
  <2>0. \A f \in Engine : up[f]
    BY <1>3 DEF Loop, Kick, TimerFires, Claim, ClaimReply, PumpEnds, ClaimAgain,
                StatsReply, TypeOK
  <2>1. CASE Kick(e)
    BY <2>0, <2>1 DEF Kick, ArmedByKick, TypeOK
  <2>2. CASE TimerFires(e)
    BY <2>0, <2>2 DEF TimerFires, TypeOK
  <2>3. CASE Claim(e)
    BY <2>0, <2>3 DEF Claim, TypeOK
  <2>4. CASE ClaimReply(e)
    BY <2>0, <2>4 DEF ClaimReply, TypeOK
  <2>5. CASE PumpEnds(e)
    BY <2>0, <2>5 DEF PumpEnds, TypeOK
  <2>6. CASE ClaimAgain(e)
    BY <2>0, <2>6 DEF ClaimAgain, TypeOK
  <2>7. CASE StatsReply(e)
    <3>1. status[k] = "retry" BY <2>7 DEF StatsReply, rowVars
    <3>2. WantsPoll BY <3>1 DEF WantsPoll
    <3>3. timer'[e] \/ pump'[e] # "idle"
      BY <2>7, <3>2 DEF StatsReply, ArmedByKick, TypeOK
    <3>4. QED BY <2>0, <2>7, <3>3 DEF StatsReply
  <2>8. QED BY <1>3, <2>1, <2>2, <2>3, <2>4, <2>5, <2>6, <2>7 DEF Loop
<1>4. ASSUME NEW e \in Engine, Enqueue(e) PROVE Watching(e)'
  BY <1>4 DEF Enqueue, TypeOK
<1>5. ASSUME NEW e \in Engine, NEW j \in Job, Execute(e, j)
      PROVE  \E f \in Engine : Watching(f)'
  BY <1>5, ExecuteShape DEF loopVars
<1>6. ASSUME NEW e \in Engine, NEW j \in Job, Operate(e, j)
      PROVE  \E f \in Engine : Watching(f)'
  <2>1. CASE Replay(e, j)
    BY <2>1 DEF Replay, TypeOK
  <2>2. CASE ~Replay(e, j)
    <3>1. UNCHANGED loopVars
      BY <1>6, <2>2
      DEF Operate, DismissCheck, DismissWrite, ApproveCheck, ApproveRemove,
          ApproveComplete, ApproveRecord, ApproveThrows, ApproveTo
    <3>2. status[k] = "retry"
      BY <1>6, <2>2
      DEF Operate, DismissCheck, DismissWrite, ApproveCheck, ApproveRemove,
          ApproveComplete, ApproveRecord, ApproveThrows, SetStatus, TypeOK, rowVars
    <3>3. QED BY <3>1, <3>2 DEF RetryWatched, loopVars
  <2>3. QED BY <2>1, <2>2
<1>7. ASSUME NEW j \in Job, BackoffElapses(j) \/ LeaseAges(j)
      PROVE  \E f \in Engine : Watching(f)'
  BY <1>7 DEF BackoffElapses, LeaseAges, RetryWatched, loopVars
<1>8. CASE UNCHANGED vars
  BY <1>8 DEF vars, RetryWatched, rowVars, loopVars
<1>9. QED BY <1>1, <1>2, <1>3, <1>4, <1>5, <1>6, <1>7, <1>8 DEF Next

\* While a job waits in 'retry', a process is going to look at the queue.
THEOREM RetriesWatched == Spec => []RetryWatched
<1>1. Init => RetryWatched
  BY DEF Init, RetryWatched
<1>2. QED BY <1>1, RetryWatchedStep, TypeCorrect, PTL DEF Spec

-----------------------------------------------------------------------------
(* 'completed' jobs are done, and 'completed' requests removed *)

\* Where the write of 'completed' may come next, the job's effect is in place.
EffectsFirst ==
  /\ \A e \in Engine, j \in Job : work[e][j] = "settled" => j \in settled
  /\ \A e \in Engine, j \in Job :
       approving[e][j] \in {"removed", "completed"} =>
         j \in settled /\ (j \in Linked => j \in removed)

DoneInv == EffectsFirst /\ CompletedIsDone /\ RequestHonest

LEMMA DoneStep == TypeOK /\ DoneInv /\ [Next]_vars => DoneInv'
<1> SUFFICES ASSUME TypeOK, DoneInv, [Next]_vars PROVE DoneInv' OBVIOUS
<1> USE DEF DoneInv, EffectsFirst, CompletedIsDone, RequestHonest
<1>b. ASSUME UNCHANGED <<status, work, approving, worldVars>> PROVE DoneInv'
  BY <1>b DEF worldVars
<1>1. ASSUME NEW e \in Engine, Start(e) PROVE DoneInv'
  BY <1>1 DEF Start, TypeOK, execVars, operatorVars, worldVars
<1>2. ASSUME NEW e \in Engine, Crash(e) PROVE DoneInv'
  BY <1>2 DEF Crash, TypeOK, worldVars
<1>3. ASSUME NEW e \in Engine, Loop(e) PROVE DoneInv'
  <2>1. CASE Claim(e)
    BY <2>1 DEF Claim, TypeOK, operatorVars, worldVars
  <2>2. CASE ~Claim(e)
    BY <1>3, <2>2, <1>b
    DEF Loop, Kick, TimerFires, ClaimReply, PumpEnds, ClaimAgain, StatsReply,
        rowVars, execVars, operatorVars
  <2>3. QED BY <2>1, <2>2
<1>4. ASSUME NEW e \in Engine, Enqueue(e) PROVE DoneInv'
  BY <1>4 DEF Enqueue, TypeOK, execVars, operatorVars, worldVars
<1>5. ASSUME NEW e \in Engine, NEW j \in Job, Execute(e, j) PROVE DoneInv'
  <2> USE DEF At, Advance, rowVars, operatorVars
  <2>1. CASE Skip(e, j)
    BY <2>1 DEF Skip, TypeOK
  <2>2. CASE ApplyChange(e, j)
    BY <2>2 DEF ApplyChange, TypeOK
  <2>3. CASE RecordDeletion(e, j)
    BY <2>3 DEF RecordDeletion, TypeOK
  <2>4. CASE ReviewDelete(e, j)
    BY <2>4 DEF ReviewDelete, Finish, SetStatus, TypeOK, worldVars
  <2>5. CASE IgnoreDelete(e, j)
    BY <2>5 DEF IgnoreDelete, TypeOK
  <2>6. CASE CascadeDelete(e, j)
    BY <2>6 DEF CascadeDelete, RemoveCounterpart, TypeOK
  <2>7. CASE Fail(e, j)
    BY <2>7 DEF Fail, TypeOK, worldVars
  <2>8. CASE FailAmbiguous(e, j)
    BY <2>8 DEF FailAmbiguous, TypeOK, worldVars
  <2>9. CASE Complete(e, j)
    BY <2>9 DEF Complete, Finish, SetStatus, TypeOK, worldVars
  <2>10. CASE ParkAmbiguous(e, j)
    BY <2>10 DEF ParkAmbiguous, Finish, SetStatus, TypeOK, worldVars
  <2>11. CASE DeadLetter(e, j)
    BY <2>11 DEF DeadLetter, Finish, SetStatus, TypeOK, worldVars
  <2>12. CASE Retry(e, j)
    BY <2>12 DEF Retry, Finish, SetStatus, TypeOK, worldVars
  <2>13. QED
    BY <1>5, <2>1, <2>2, <2>3, <2>4, <2>5, <2>6, <2>7, <2>8, <2>9, <2>10, <2>11,
       <2>12 DEF Execute
<1>6. ASSUME NEW e \in Engine, NEW j \in Job, Operate(e, j) PROVE DoneInv'
  <2> USE DEF ApproveTo, SetStatus, execVars
  <2>1. CASE Replay(e, j)
    BY <2>1 DEF Replay, TypeOK, operatorVars, worldVars
  <2>2. CASE DismissCheck(e, j)
    BY <2>2, <1>b DEF DismissCheck, rowVars
  <2>3. CASE DismissWrite(e, j)
    BY <2>3 DEF DismissWrite, TypeOK, worldVars
  <2>4. CASE ApproveCheck(e, j)
    BY <2>4 DEF ApproveCheck, TypeOK, rowVars, worldVars
  <2>5. CASE ApproveRemove(e, j)
    BY <2>5 DEF ApproveRemove, RemoveCounterpart, TypeOK, rowVars
  <2>6. CASE ApproveComplete(e, j)
    BY <2>6 DEF ApproveComplete, TypeOK, worldVars
  <2>7. CASE ApproveRecord(e, j)
    BY <2>7 DEF ApproveRecord, TypeOK, rowVars
  <2>8. CASE ApproveThrows(e, j)
    BY <2>8 DEF ApproveThrows, TypeOK, rowVars, worldVars
  <2>9. QED
    BY <1>6, <2>1, <2>2, <2>3, <2>4, <2>5, <2>6, <2>7, <2>8 DEF Operate
<1>7. ASSUME NEW j \in Job, BackoffElapses(j) \/ LeaseAges(j) PROVE DoneInv'
  BY <1>7, <1>b DEF BackoffElapses, LeaseAges, execVars, operatorVars
<1>8. CASE UNCHANGED vars
  BY <1>8, <1>b DEF vars, rowVars, execVars, operatorVars
<1>9. QED BY <1>1, <1>2, <1>3, <1>4, <1>5, <1>6, <1>7, <1>8 DEF Next

LEMMA DoneInvariant == Spec => []DoneInv
<1>1. Init => DoneInv
  BY ConstantsAssumption
  DEF Init, DoneInv, EffectsFirst, CompletedIsDone, RequestHonest
<1>2. QED BY <1>1, DoneStep, TypeCorrect, PTL DEF Spec

\* No job is reported completed before its effect is in the destination.
THEOREM CompletedAlwaysDone == Spec => []CompletedIsDone
<1>1. DoneInv => CompletedIsDone BY DEF DoneInv
<1>2. QED BY <1>1, DoneInvariant, PTL

\* No delete request is recorded as completed before the removal.
THEOREM RequestAlwaysHonest == Spec => []RequestHonest
<1>1. DoneInv => RequestHonest BY DEF DoneInv
<1>2. QED BY <1>1, DoneInvariant, PTL
-----------------------------------------------------------------------------
(* One process: attempts are bounded, and dead letters stay *)

Allowed == MaxAttempts + crashes

\* A pump claims only when it has nothing under way; a process that is down waits
\* for nothing and holds nothing.
Orderly(e) ==
  /\ pump[e] \in {"idle", "claiming"} => \A j \in Job : work[e][j] = "none"
  /\ ~up[e] => /\ ~timer[e] /\ kicks[e] = 0 /\ ending[e] = 0 /\ pump[e] = "idle"
               /\ \A j \in Job : lockedBy[j] # e

\* Attempts are left to a row that may be claimed, and to one that its holder has
\* left behind: the crash that cost it the attempt allows one more. An execution
\* has seen the attempts of its row, unless a replay has reset them since.
Budgeted(e, j) ==
  /\ status[j] = "absent" => attempts[j] = 0
  /\ attempts[j] <= Allowed
  /\ status[j] \in {"queued", "retry"} => attempts[j] < Allowed
  /\ status[j] = "processing" /\ lockedBy[j] # e => attempts[j] < Allowed
  /\ work[e][j] # "none" => attempts[j] <= seen[e][j]
  /\ status[j] = "dead_letter" => work[e][j] = "none"

BudgetInv(e) == Orderly(e) /\ \A j \in Job : Budgeted(e, j)

LEMMA OrderlyStep ==
  ASSUME TypeOK, NEW e \in Engine, Engine = {e}, Orderly(e), Next
  PROVE  Orderly(e)'
<1> USE DEF Orderly
<1>1. CASE Start(e) BY <1>1 DEF Start, TypeOK, execVars
<1>2. CASE Crash(e) BY <1>2, LockHolderAssumption DEF Crash, TypeOK
<1>3. CASE Loop(e)
  <2>1. CASE Claim(e) BY <2>1 DEF Claim, TypeOK
  <2>2. CASE TimerFires(e) BY <2>2 DEF TimerFires, TypeOK, rowVars, execVars
  <2>3. CASE Kick(e) BY <2>3 DEF Kick, TypeOK, rowVars, execVars
  <2>4. CASE StatsReply(e) BY <2>4 DEF StatsReply, TypeOK, rowVars, execVars
  <2>5. CASE ClaimReply(e) \/ PumpEnds(e) \/ ClaimAgain(e)
    BY <2>5 DEF ClaimReply, PumpEnds, ClaimAgain, Busy, TypeOK, rowVars, execVars
  <2>6. QED BY <1>3, <2>1, <2>2, <2>3, <2>4, <2>5 DEF Loop
<1>4. CASE Enqueue(e) BY <1>4 DEF Enqueue, TypeOK, execVars
<1>5. ASSUME NEW j \in Job, Execute(e, j) PROVE Orderly(e)'
  <2>1. pump[e] = "working" /\ UNCHANGED loopVars BY <1>5, ExecuteShape
  <2>2. QED BY <2>1 DEF loopVars
<1>6. ASSUME NEW j \in Job, Operate(e, j) PROVE Orderly(e)'
  <2>1. /\ UNCHANGED <<up, timer, pump, ending, work>>
        /\ \/ kicks' = kicks
           \/ up[e]
    BY <1>6 DEF Operate, Replay, DismissCheck, DismissWrite, ApproveCheck,
       ApproveRemove, ApproveComplete, ApproveRecord, ApproveThrows, ApproveTo,
       loopVars, execVars
  <2>2. \A k \in Job : lockedBy'[k] \in {lockedBy[k], Nobody}
    BY <1>6 DEF Operate, Replay, DismissCheck, DismissWrite, ApproveCheck,
       ApproveRemove, ApproveComplete, ApproveRecord, ApproveThrows, ApproveTo,
       SetStatus, TypeOK, rowVars
  <2>3. QED BY <2>1, <2>2, LockHolderAssumption
<1>7. ASSUME NEW j \in Job, BackoffElapses(j) \/ LeaseAges(j) PROVE Orderly(e)'
  BY <1>7 DEF BackoffElapses, LeaseAges, loopVars, execVars
<1>8. QED BY <1>1, <1>2, <1>3, <1>4, <1>5, <1>6, <1>7 DEF Next

LEMMA BudgetStep ==
  ASSUME TypeOK, NEW e \in Engine, Engine = {e}, BudgetInv(e), Next, NEW k \in Job
  PROVE  Budgeted(e, k)'
<1> USE DEF Budgeted, Allowed
<1>a. /\ MaxAttempts \in Nat \ {0} /\ crashes \in Nat /\ attempts \in [Job -> Nat]
      /\ seen[e] \in [Job -> Nat]
  BY ConstantsAssumption DEF TypeOK
<1>b. Budgeted(e, k) /\ Orderly(e) BY DEF BudgetInv
<1>c. ASSUME UNCHANGED <<status, attempts, lockedBy, work, seen, crashes>>
      PROVE  Budgeted(e, k)'
  BY <1>c, <1>b
<1>1. CASE Start(e)
  <2>1. UNCHANGED <<attempts, work, seen, crashes>>
    BY <1>1 DEF Start, execVars, boundVars
  <2>2. \/ /\ status[k] = "processing" /\ lockedBy[k] # e
           /\ status'[k] = "retry"
        \/ status'[k] = status[k] /\ lockedBy'[k] = lockedBy[k]
    BY <1>1, <1>b DEF Start, Stale, Orderly, TypeOK
  <2>3. QED BY <1>a, <1>b, <2>1, <2>2
<1>2. CASE Crash(e)
  <2>1. /\ status' = status /\ attempts' = attempts /\ crashes' = crashes + 1
        /\ work'[e][k] = "none"
    BY <1>2 DEF Crash, TypeOK
  <2>2. QED BY <1>a, <1>b, <2>1
<1>3. CASE Loop(e)
  <2>1. CASE Claim(e)
    <3>1. PICK S \in Batches :
            /\ status' = [j \in Job |-> IF j \in S THEN "processing" ELSE status[j]]
            /\ attempts' = [j \in Job |-> IF j \in S THEN attempts[j] + 1
                                                     ELSE attempts[j]]
            /\ lockedBy' = [j \in Job |-> IF j \in S THEN e ELSE lockedBy[j]]
            /\ work' = [work EXCEPT ![e] = [j \in Job |-> IF j \in S THEN "start"
                                                                     ELSE @[j]]]
            /\ seen' = [seen EXCEPT ![e] = [j \in Job |-> IF j \in S
                                                          THEN attempts[j] + 1
                                                          ELSE @[j]]]
      BY <2>1 DEF Claim
    <3>2. crashes' = crashes /\ work[e][k] = "none"
      BY <2>1, <1>b DEF Claim, Orderly, boundVars
    <3>3. CASE k \in S
      <4>1. status[k] \in {"queued", "retry"} BY <3>3 DEF Batches, Claimable
      <4>2. /\ status'[k] = "processing" /\ attempts'[k] = attempts[k] + 1
            /\ lockedBy'[k] = e /\ seen'[e][k] = attempts[k] + 1
        BY <3>1, <3>3 DEF TypeOK
      <4>3. QED BY <1>a, <1>b, <3>2, <4>1, <4>2
    <3>4. CASE k \notin S
      <4>1. /\ status'[k] = status[k] /\ attempts'[k] = attempts[k]
            /\ lockedBy'[k] = lockedBy[k] /\ work'[e][k] = "none"
        BY <3>1, <3>2, <3>4 DEF TypeOK
      <4>2. QED BY <1>b, <3>2, <4>1
    <3>5. QED BY <3>3, <3>4
  <2>2. CASE ~Claim(e)
    BY <1>3, <2>2, <1>c
    DEF Loop, Kick, TimerFires, ClaimReply, PumpEnds, ClaimAgain, StatsReply,
        rowVars, execVars, boundVars
  <2>3. QED BY <2>1, <2>2
<1>4. CASE Enqueue(e)
  <2>1. UNCHANGED <<attempts, lockedBy, work, seen, crashes>>
    BY <1>4 DEF Enqueue, execVars, boundVars
  <2>2. \/ status'[k] = status[k]
        \/ status[k] = "absent" /\ status'[k] = "queued"
    BY <1>4 DEF Enqueue, Present, TypeOK
  <2>3. QED BY <1>a, <1>b, <2>1, <2>2
<1>5. ASSUME NEW j \in Job, Execute(e, j) PROVE Budgeted(e, k)'
  <2>1. attempts' = attempts /\ crashes' = crashes
    BY <1>5, ExecuteShape DEF Advance, Finish, SetStatus, rowVars, boundVars
  <2>2. work[e][j] # "none"
    BY <1>5 DEF Execute, Skip, ApplyChange, RecordDeletion, ReviewDelete, IgnoreDelete,
       CascadeDelete, Fail, FailAmbiguous, Complete, ParkAmbiguous, DeadLetter, Retry, At
  <2>3. ASSUME NEW p \in Phase \ {"none"}, Advance(e, j, p) PROVE Budgeted(e, k)'
    <3>1. /\ status' = status /\ lockedBy' = lockedBy /\ seen' = seen
          /\ work'[e][k] = IF j = k THEN p ELSE work[e][k]
      BY <2>3 DEF Advance, rowVars, TypeOK
    <3>2. QED BY <1>b, <2>1, <2>2, <3>1
  <2>4. ASSUME NEW s \in {"completed", "manual_review", "dead_letter", "retry"},
               Finish(e, j, s)
        PROVE  Budgeted(e, k)'
    <3>1. CASE k = j
      <4>1. status'[k] = s /\ work'[e][k] = "none"
        BY <2>4, <3>1 DEF Finish, SetStatus, TypeOK
      <4>2. s = "retry" => ~Exhausted(e, j)
        BY <1>5, <2>4, <3>1, <4>1
        DEF Execute, Skip, ApplyChange, RecordDeletion, ReviewDelete, IgnoreDelete,
            CascadeDelete, Fail, FailAmbiguous, Complete, ParkAmbiguous, DeadLetter,
            Retry, Advance, Finish, SetStatus, At, rowVars, TypeOK
      <4>3. s = "retry" => attempts[k] < MaxAttempts
        BY <1>a, <1>b, <2>2, <3>1, <4>2 DEF Exhausted
      <4>4. QED BY <1>a, <1>b, <2>1, <4>1, <4>3
    <3>2. CASE k # j
      <4>1. /\ status'[k] = status[k] /\ lockedBy'[k] = lockedBy[k]
            /\ work'[e][k] = work[e][k] /\ seen'[e][k] = seen[e][k]
        BY <2>4, <3>2 DEF Finish, SetStatus, TypeOK
      <4>2. QED BY <1>b, <2>1, <4>1
    <3>3. QED BY <3>1, <3>2
  <2>5. QED BY <1>5, <2>3, <2>4, ExecuteShape
<1>6. ASSUME NEW j \in Job, Operate(e, j) PROVE Budgeted(e, k)'
  <2>1. UNCHANGED <<work, seen, crashes>>
    BY <1>6 DEF Operate, Replay, DismissCheck, DismissWrite, ApproveCheck,
       ApproveRemove, ApproveComplete, ApproveRecord, ApproveThrows, ApproveTo,
       execVars, boundVars
  <2>2. \/ /\ status'[k] = status[k] /\ attempts'[k] = attempts[k]
           /\ lockedBy'[k] = lockedBy[k]
        \/ status'[k] \in {"dismissed", "completed"} /\ attempts'[k] = attempts[k]
        \/ status'[k] = "queued" /\ attempts'[k] = 0
    BY <1>6 DEF Operate, Replay, DismissCheck, DismissWrite, ApproveCheck,
       ApproveRemove, ApproveComplete, ApproveRecord, ApproveThrows, ApproveTo,
       SetStatus, TypeOK, rowVars
  <2>3. QED BY <1>a, <1>b, <2>1, <2>2
<1>7. ASSUME NEW j \in Job, BackoffElapses(j) \/ LeaseAges(j) PROVE Budgeted(e, k)'
  BY <1>7, <1>c DEF BackoffElapses, LeaseAges, execVars, boundVars
<1>8. QED BY <1>1, <1>2, <1>3, <1>4, <1>5, <1>6, <1>7 DEF Next

BudgetHolds == OneProcess => \A e \in Engine : BudgetInv(e)

LEMMA BudgetAlwaysHolds == Spec => []BudgetHolds
<1>1. Init => BudgetHolds
  BY ConstantsAssumption, LockHolderAssumption
  DEF Init, BudgetHolds, BudgetInv, Orderly, Budgeted, Allowed
<1>2. ASSUME TypeOK, BudgetHolds, [Next]_vars PROVE BudgetHolds'
  <2> SUFFICES ASSUME NEW e \in Engine, Engine = {e} PROVE BudgetInv(e)'
    BY DEF BudgetHolds, OneProcess
  <2>1. BudgetInv(e) BY <1>2 DEF BudgetHolds, OneProcess
  <2>2. CASE Next BY <1>2, <2>1, <2>2, OrderlyStep, BudgetStep DEF BudgetInv
  <2>3. CASE UNCHANGED vars
    BY <2>1, <2>3 DEF vars, rowVars, loopVars, execVars, boundVars, BudgetInv, Orderly,
       Budgeted, Allowed
  <2>4. QED BY <1>2, <2>2, <2>3
<1>3. QED BY <1>1, <1>2, TypeCorrect, PTL DEF Spec

\* With one process, the machine attempts a job at most maxAttempts times, plus
\* once for each crash (claim, process and recoverStale).
THEOREM BudgetAlwaysKept == Spec => []AttemptBudget
<1>1. BudgetHolds => AttemptBudget
  BY DEF BudgetHolds, OneProcess, BudgetInv, Budgeted, Allowed, AttemptBudget
<1>2. QED BY <1>1, BudgetAlwaysHolds, PTL

\* With one process, no late write, retry or recovery revives a dead letter
\* (setStatus is unconditional; see process, claim and recoverStale).
THEOREM DeadLettersStay == Spec => DeadLetterStays
<1>1. ASSUME TypeOK, BudgetHolds, [Next]_vars
      PROVE  [OneProcess =>
                \A j \in Job : status[j] = "dead_letter" =>
                  status'[j] \notin {"processing", "retry", "manual_review"}]_vars
  <2> SUFFICES ASSUME NEW e \in Engine, Engine = {e}, NEW k \in Job,
                      status[k] = "dead_letter", Next
               PROVE  status'[k] \in {"dead_letter", "queued", "dismissed", "completed"}
    BY <1>1 DEF OneProcess
  <2>1. work[e][k] = "none" BY <1>1 DEF BudgetHolds, OneProcess, BudgetInv, Budgeted
  <2>2. CASE Start(e) BY <2>2, <1>1 DEF Start, Stale, TypeOK
  <2>3. CASE Crash(e) BY <2>3 DEF Crash
  <2>4. CASE Loop(e)
    <3>1. CASE Claim(e) BY <3>1, <1>1 DEF Claim, Batches, Claimable, TypeOK
    <3>2. CASE ~Claim(e)
      BY <2>4, <3>2 DEF Loop, Kick, TimerFires, ClaimReply, PumpEnds, ClaimAgain,
         StatsReply, rowVars
    <3>3. QED BY <3>1, <3>2
  <2>5. CASE Enqueue(e) BY <2>5, <1>1 DEF Enqueue, Present, TypeOK
  <2>6. ASSUME NEW j \in Job, Execute(e, j)
        PROVE  status'[k] = "dead_letter"
    <3>1. j # k
      BY <2>1, <2>6
      DEF Execute, Skip, ApplyChange, RecordDeletion, ReviewDelete, IgnoreDelete,
          CascadeDelete, Fail, FailAmbiguous, Complete, ParkAmbiguous, DeadLetter,
          Retry, At
    <3>2. QED
      BY <1>1, <2>6, <3>1, ExecuteShape DEF Advance, Finish, SetStatus, TypeOK, rowVars
  <2>7. ASSUME NEW j \in Job, Operate(e, j)
        PROVE  status'[k] \in {"dead_letter", "queued", "dismissed", "completed"}
    BY <1>1, <2>7 DEF Operate, Replay, DismissCheck, DismissWrite, ApproveCheck,
       ApproveRemove, ApproveComplete, ApproveRecord, ApproveThrows, ApproveTo,
       SetStatus, TypeOK, rowVars
  <2>8. ASSUME NEW j \in Job, BackoffElapses(j) \/ LeaseAges(j)
        PROVE  status' = status
    BY <2>8 DEF BackoffElapses, LeaseAges
  <2>9. QED BY <2>2, <2>3, <2>4, <2>5, <2>6, <2>7, <2>8 DEF Next
<1>2. QED BY <1>1, TypeCorrect, BudgetAlwaysHolds, PTL DEF Spec, DeadLetterStays
=============================================================================
