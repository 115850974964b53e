---------------------------- MODULE MigrationPlan ----------------------------
(***************************************************************************)
(* A saved migration plan and the requests that act on it: the plan's row  *)
(* (db/postgresMigrationPlanStore.ts), the routes of /api/migration-plans  *)
(* (server.ts) and the frozen previews they take and execute               *)
(* (engine/migrationEngine.ts).                                            *)
(*                                                                         *)
(* One action is one statement on the plan's row, one read of the vendors' *)
(* schemas, or the preview, check or write of one record; requests are     *)
(* handled concurrently.  A record's version stands for what source and    *)
(* target hold of it: what was reviewed is what would be written only      *)
(* while the version it was previewed from is the current one.             *)
(***************************************************************************)
EXTENDS Naturals, FiniteSets

CONSTANTS
  Rec,         \* source records within the plan's scope
  Request,     \* requests handled at the same time
  Routes,      \* the routes operators use in this instance
  MaxRev,      \* bound: revisions of the plan
  MaxRuns,     \* bound: runs recorded in migration_runs
  MaxChanges,  \* bound: changes users make to the records of the two CRMs
  MaxSchemas,  \* bound: changes of a vendor's schema
  None         \* marker: NULL

AllRoutes == {"preflight", "test-preview", "test-execute", "test-batch",
              "preview", "execute"}

ASSUME ConstantsAssumption ==
  /\ IsFiniteSet(Rec) /\ Rec # {}
  /\ Routes \subseteq AllRoutes
  /\ MaxRev \in Nat \ {0} /\ MaxRuns \in Nat \ {0}
  /\ MaxChanges \in Nat /\ MaxSchemas \in Nat
  /\ None \notin Nat /\ None \notin Rec

Rev     == 1 .. MaxRev
Run     == 1 .. MaxRuns
Schema  == 0 .. MaxSchemas

\* The test record of a batch, whose source_id is 'batch:<run>'.
Batch == "batch"

VARIABLES
  plan,     \* the row of migration_plans
  frozen,   \* migration_items of each preview run, and what it was taken for
  runs,     \* number of runs begun
  version,  \* what source and target hold of each record
  schema,   \* the vendors' schemas, as a version
  req,      \* what each request's handler is doing and has read
  canaried, \* history: revisions a finished canary was recorded for
  proven,   \* history: canary runs that wrote a record without an error
  drifted,  \* history: records written by an execution whose preview held a
            \* record that had drifted before the execution began
  offPlan,  \* history: records written from another version than reviewed
  stranded, \* history: since the row last became 'executing' or ceased to be,
            \* an execution ended without the write of its outcome: its process
            \* died, or the answer of its first or the whole last write was lost
  changes

vars == <<plan, frozen, runs, version, schema, req, canaried, proven,
          drifted, offPlan, stranded, changes>>

Idle == [at |-> "idle", route |-> None, plan |-> None, rec |-> None,
         schema |-> None, run |-> None, todo |-> {}, base |-> None]

\* Mutant: the revision of the preview starts at 0 instead of NULL.
DraftRevisionZero(rev) ==
  [rev |-> rev, status |-> "draft", schema |-> None, preview |-> None,
   previewRev |-> 0, canary |-> None, execution |-> None]

\* A row of migration_plans as create() and update() leave it.
Draft(rev) ==
  [rev |-> rev, status |-> "draft", schema |-> None, preview |-> None,
   previewRev |-> None, canary |-> None, execution |-> None]

Init ==
  /\ plan = Draft(1)
  /\ frozen = [n \in Run |-> None]
  /\ runs = 0
  /\ version = [r \in Rec |-> 0]
  /\ schema = 0
  /\ req = [q \in Request |-> Idle]
  /\ canaried = {} /\ proven = {} /\ drifted = {} /\ offPlan = {}
  /\ stranded = FALSE
  /\ changes = 0

written == <<canaried, proven, drifted, offPlan>>
history == <<written, stranded>>
world   == <<version, schema, changes>>

-----------------------------------------------------------------------------
(* The plan's row: one operator per statement of the store *)

\* update(): every field that depends on the configuration is cleared
Edit ==
  /\ plan.rev < MaxRev
  /\ plan' = Draft(plan.rev + 1)
  /\ stranded' = FALSE
  /\ UNCHANGED <<frozen, runs, world, req, written>>

SaveValidation(p, rev, s) ==
  IF p.rev = rev THEN [p EXCEPT !.status = "validated", !.schema = s] ELSE p

\* Mutant: the preview of an older revision is accepted.
SavePreviewAnyRevision(p, rev, n) ==
  [p EXCEPT !.status = "previewed", !.preview = n, !.previewRev = p.rev]

SavePreview(p, rev, n) ==
  IF p.rev = rev
  THEN [p EXCEPT !.status = "previewed", !.preview = n, !.previewRev = rev]
  ELSE p

SaveCanary(p, rev, r, n) ==
  IF p.rev = rev
  THEN [p EXCEPT !.canary = [rec |-> r, run |-> n, rev |-> rev,
                             verified |-> FALSE]]
  ELSE p

\* canary_preview_revision = revision AND canary_preview_run_id IS NOT NULL
CanaryIsCurrent(p, rev) ==
  p.rev = rev /\ p.canary # None /\ p.canary.rev = rev

FinishCanary(p, rev) ==
  IF CanaryIsCurrent(p, rev) THEN [p EXCEPT !.canary.verified = TRUE] ELSE p

\* Mutant: the row's revision is not compared with the caller's.
MayStartAnyRevision(p, rev) == p.previewRev = p.rev /\ p.preview # None

\* revision = $3 AND preview_revision = revision AND preview_run_id IS NOT NULL
MayStart(p, rev) == p.rev = rev /\ p.previewRev = rev /\ p.preview # None

FinishExecution(p, n, ok) ==
  [p EXCEPT !.status = IF ok THEN "completed" ELSE "failed", !.execution = n]

-----------------------------------------------------------------------------
(* Requests *)

At(q, stage) == req[q].at = stage

Goto(q, stage) == req' = [req EXCEPT ![q].at = stage]

Respond(q) == req' = [req EXCEPT ![q] = Idle]

\* The next record of the loop
Done(q, r) == req' = [req EXCEPT ![q].todo = @ \ {r}]

\* Mutant: the canary's verification is not looked at.
ExecuteGateOpen(p) ==
  /\ p.canary # None /\ p.canary.rev = p.rev
  /\ p.preview # None /\ p.previewRev = p.rev

\* The gates of /execute on the row it has read
ExecuteGate(p) ==
  /\ p.canary # None /\ p.canary.verified /\ p.canary.rev = p.rev
  /\ p.preview # None /\ p.previewRev = p.rev

\* The gates of /test-record/execute; a batch's run is not a record's preview
TestGate(p) ==
  /\ p.canary # None /\ p.canary.rev = p.rev
  /\ ~p.canary.verified
  /\ p.canary.rec # Batch

\* /execute has passed startExecution() and has not answered yet.
Executing(q) ==
  /\ req[q].route = "execute"
  /\ req[q].at \in {"begin", "verify", "apply", "finish-ok", "finish-failed"}

\* What handlers use of the row they read: neither status nor execution
AsRead(p) == [p EXCEPT !.status = "draft", !.execution = None]

TestRecords(route) ==
  CASE route = "test-preview" -> Rec
    [] route = "test-execute" -> {plan.canary.rec}
    [] OTHER -> {Batch}

\* A handler begins: it reads the plan and answers 404 or 409 unless its gates
\* let it go on; what it read is what it works with from here on.
Open(q, route) ==
  /\ At(q, "idle")
  /\ route = "execute" => ExecuteGate(plan)
  /\ route = "test-execute" => TestGate(plan)
  /\ \E r \in TestRecords(route) :
       req' = [req EXCEPT ![q] = [Idle EXCEPT !.at = "check", !.route = route,
                                              !.plan = AsRead(plan), !.rec = r]]
  /\ UNCHANGED <<plan, frozen, runs, world, history>>

NextStage(route) ==
  CASE route = "test-execute" -> "begin"
    [] route = "test-batch" -> "batch"
    [] route = "execute" -> "start"
    [] OTHER -> "validate"

\* preflight.run(): reads the schemas.  A blocker ends the request, and so does
\* for the two execute routes a schema that is not the validated one.
Check(q) ==
  LET route == req[q].route IN
  /\ At(q, "check")
  /\ \/ Respond(q)
     \/ /\ route \in {"test-execute", "execute"} => req[q].plan.schema = schema
        /\ req' = [req EXCEPT ![q].at = NextStage(route), ![q].schema = schema]
  /\ UNCHANGED <<plan, frozen, runs, world, history>>

\* saveValidation(): only /test-record/preview looks at its result
Validate(q) ==
  LET route == req[q].route IN
  /\ At(q, "validate")
  /\ plan' = SaveValidation(plan, req[q].plan.rev, req[q].schema)
  /\ IF \/ route = "preflight"
        \/ route = "test-preview" /\ plan.rev # req[q].plan.rev
     THEN Respond(q)
     ELSE Goto(q, "preview")
  /\ UNCHANGED <<frozen, runs, world, history>>

\* previewRecord() and run(dryRun) begin their run.
BeginPreview(q) ==
  LET n == runs + 1 IN
  /\ At(q, "preview") /\ n \in Run
  /\ runs' = n
  /\ frozen' = [frozen EXCEPT ![n] =
        [rev |-> req[q].plan.rev, schema |-> req[q].schema, items |-> <<>>]]
  /\ req' = [req EXCEPT ![q].at = "freeze", ![q].run = n,
        ![q].todo = IF req[q].route = "preview" THEN Rec ELSE {req[q].rec}]
  /\ UNCHANGED <<plan, world, history>>

WithItem(items, r, v) ==
  [s \in DOMAIN items \cup {r} |-> IF s = r THEN v ELSE items[s]]

\* A record's plan is computed and stored; None stands for the plans that can
\* never be executed, ambiguous or in error.
FreezeRecord(q) ==
  LET n == req[q].run IN
  /\ At(q, "freeze")
  /\ \E r \in req[q].todo :
       /\ \E v \in {version[r], None} :
            frozen' = [frozen EXCEPT ![n].items = WithItem(@, r, v)]
       /\ Done(q, r)
  /\ UNCHANGED <<plan, runs, world, history>>

RecordPreview(q) ==
  /\ At(q, "freeze") /\ req[q].todo = {} /\ req[q].route = "preview"
  /\ plan' = SavePreview(plan, req[q].plan.rev, req[q].run)
  /\ Respond(q)
  /\ UNCHANGED <<frozen, runs, world, history>>

\* The batch route goes on whether or not the row was written.
RecordCanary(q) ==
  /\ At(q, "freeze") \/ At(q, "batch-run")
  /\ req[q].todo = {} /\ req[q].route # "preview"
  /\ plan' = SaveCanary(plan, req[q].plan.rev, req[q].rec, req[q].run)
  /\ IF req[q].route = "test-batch" THEN Goto(q, "finish-canary")
                                    ELSE Respond(q)
  /\ UNCHANGED <<frozen, runs, world, history>>

\* run() of a batch: the first records of one type, up to the chosen count
BeginBatch(q) ==
  LET n == runs + 1 IN
  /\ At(q, "batch") /\ n \in Run
  /\ runs' = n
  /\ \E S \in SUBSET Rec : req' = [req EXCEPT ![q].at = "batch-run",
                                     ![q].run = n, ![q].todo = S]
  /\ UNCHANGED <<plan, frozen, world, history>>

\* reconcile(record) changes the target, unless nothing is to be changed
Reconcile(r) ==
  \E w \in {0, 1} : version' = [version EXCEPT ![r] = @ + w]

\* An error of a record, which may have been written all the same, is counted and
\* the run goes on.
BatchRecord(q) ==
  /\ At(q, "batch-run")
  /\ \E r \in req[q].todo :
       /\ Done(q, r)
       /\ Reconcile(r)
       /\ proven' \in {proven, proven \cup {req[q].run}}
  /\ UNCHANGED <<plan, frozen, runs, schema, changes, canaried,
                 drifted, offPlan, stranded>>

\* finishCanary(), whose result nobody looks at
VerifyCanary(q) ==
  LET rev == req[q].plan.rev IN
  /\ At(q, "finish-canary")
  /\ plan' = FinishCanary(plan, rev)
  /\ canaried' = IF CanaryIsCurrent(plan, rev) THEN canaried \cup {rev}
                                               ELSE canaried
  /\ Respond(q)
  /\ UNCHANGED <<frozen, runs, world, proven, drifted, offPlan, stranded>>

-----------------------------------------------------------------------------
(* executePreview(), for the canary's run and for the plan's *)

PreviewRun(q) == IF req[q].route = "execute" THEN req[q].plan.preview
                                             ELSE req[q].plan.canary.run

Items(q) == frozen[PreviewRun(q)].items

\* startExecution() stands before the route's try block: if the row is written
\* and the answer lost, nobody executes the plan and nobody takes it back.
StartExecution(q) ==
  /\ At(q, "start")
  /\ IF MayStart(plan, req[q].plan.rev)
     THEN /\ plan' = [plan EXCEPT !.status = "executing"]
          /\ \/ Goto(q, "begin") /\ stranded' = FALSE
             \/ Respond(q) /\ stranded' = TRUE
     ELSE Respond(q) /\ UNCHANGED <<plan, stranded>>
  /\ UNCHANGED <<frozen, runs, world, written>>

\* Mutant: a test that fails goes on to the read-back of the target.
AbortReadsBack(q) ==
  Goto(q, IF req[q].route = "execute" THEN "finish-failed" ELSE "finish-canary")

\* The error path of the execute routes
Abort(q) ==
  IF req[q].route = "execute" THEN Goto(q, "finish-failed") ELSE Respond(q)

\* The reviewed plans are read; a preview without one ends the run.
BeginVerify(q) ==
  /\ At(q, "begin")
  /\ IF Items(q) = <<>> THEN Abort(q)
     ELSE req' = [req EXCEPT ![q].at = "verify", ![q].base = version,
                             ![q].todo = DOMAIN Items(q)]
  /\ UNCHANGED <<plan, frozen, runs, world, history>>

\* Mutant: a drifted record is left out instead of stopping the run.
VerifyRecordSkipping(q) ==
  /\ At(q, "verify")
  /\ \E r \in req[q].todo : Done(q, r)
  /\ UNCHANGED <<plan, frozen, runs, world, history>>

\* Each record and its plan are read again and compared with the frozen plan: a
\* difference ends the run.
VerifyRecord(q) ==
  /\ At(q, "verify")
  /\ \E r \in req[q].todo : (version[r] = Items(q)[r] /\ Done(q, r)) \/ Abort(q)
  /\ UNCHANGED <<plan, frozen, runs, world, history>>

\* All are as reviewed: the executing run begins.
BeginApply(q) ==
  LET n == runs + 1 IN
  /\ At(q, "verify") /\ req[q].todo = {} /\ n \in Run
  /\ runs' = n
  /\ req' = [req EXCEPT ![q].at = "apply", ![q].run = n,
                        ![q].todo = DOMAIN Items(q)]
  /\ UNCHANGED <<plan, frozen, world, history>>

\* reconcile(record) succeeds, whatever became of the record since its check.
ApplyRecord(q) ==
  LET items == Items(q) IN
  /\ At(q, "apply")
  /\ \E r \in req[q].todo :
       /\ Reconcile(r)
       /\ proven' = proven \cup {PreviewRun(q)}
       /\ offPlan' = IF version[r] = items[r] THEN offPlan
                     ELSE offPlan \cup {r}
       /\ drifted' = IF \A s \in DOMAIN items : req[q].base[s] = items[s]
                     THEN drifted ELSE drifted \cup {r}
       /\ Done(q, r)
  /\ UNCHANGED <<plan, frozen, runs, schema, changes, canaried,
                 stranded>>

\* The run is complete.  The canary route reads the target back first, and
\* verifies nothing if it finds no record there.
EndApply(q) ==
  /\ At(q, "apply") /\ req[q].todo = {}
  /\ IF req[q].route = "execute" THEN Goto(q, "finish-ok")
     ELSE Goto(q, "finish-canary") \/ Respond(q)
  /\ UNCHANGED <<plan, frozen, runs, world, history>>

\* finishExecution(): addressed by the plan's id alone.  The audit of a
\* success is inside the try as well: if it fails, so does the plan.
RecordOutcome(q) ==
  /\ \/ /\ At(q, "finish-ok")
        /\ plan' = FinishExecution(plan, req[q].run, TRUE)
        /\ Respond(q) \/ Goto(q, "finish-failed")
     \/ /\ At(q, "finish-failed")
        /\ plan' = FinishExecution(plan, None, FALSE)
        /\ Respond(q)
  /\ stranded' = FALSE
  /\ UNCHANGED <<frozen, runs, world, written>>

\* Any read or write of a handler throws, having done nothing (one that was done
\* and whose answer is lost is that step and then this one).  The request is
\* answered with an error; an execution is recorded as failed first, by a write
\* that may throw as well.
CallFails(q) ==
  /\ ~At(q, "idle")
  /\ IF req[q].at \in {"begin", "verify", "apply", "finish-ok"}
     THEN Abort(q) ELSE Respond(q)
  /\ stranded' = (stranded \/ At(q, "finish-failed"))
  /\ UNCHANGED <<plan, frozen, runs, world, written>>

-----------------------------------------------------------------------------
(* The world *)

\* A user changes the source or the target of a record.
ChangeRecord(r) ==
  /\ changes < MaxChanges
  /\ changes' = changes + 1
  /\ version' = [version EXCEPT ![r] = @ + 1]
  /\ UNCHANGED <<plan, frozen, runs, schema, req, history>>

ChangeSchema ==
  /\ schema < MaxSchemas
  /\ schema' = schema + 1
  /\ UNCHANGED <<plan, frozen, runs, version, req, changes, history>>

\* The process dies and its requests with it.
Crash ==
  /\ \E q \in Request : ~At(q, "idle")
  /\ req' = [q \in Request |-> Idle]
  /\ stranded' = (stranded \/ \E q \in Request : Executing(q))
  /\ UNCHANGED <<plan, frozen, runs, world, written>>

Handle(q) ==
  \/ Check(q) \/ Validate(q) \/ BeginPreview(q) \/ FreezeRecord(q)
  \/ RecordPreview(q) \/ RecordCanary(q) \/ BeginBatch(q) \/ BatchRecord(q)
  \/ VerifyCanary(q) \/ StartExecution(q) \/ BeginVerify(q) \/ VerifyRecord(q)
  \/ BeginApply(q) \/ ApplyRecord(q) \/ EndApply(q) \/ RecordOutcome(q)
  \/ CallFails(q)

Next ==
  \/ Edit
  \/ \E q \in Request : Handle(q) \/ \E route \in Routes : Open(q, route)
  \/ \E r \in Rec : ChangeRecord(r)
  \/ ChangeSchema
  \/ Crash

Spec == Init /\ [][Next]_vars

-----------------------------------------------------------------------------
(* Properties *)

NoneOr(S) == S \cup {None}

PlanRow ==
  [rev : Rev,
   status : {"draft", "validated", "previewed", "executing", "completed",
             "failed"},
   schema : NoneOr(Schema), preview : NoneOr(Run), previewRev : NoneOr(Rev),
   canary : NoneOr([rec : NoneOr(Rec \cup {Batch}), run : Run, rev : Rev,
                    verified : BOOLEAN]),
   execution : NoneOr(Run)]

Stages == {"idle", "check", "validate", "preview", "freeze", "batch",
           "batch-run", "finish-canary", "start", "begin", "verify", "apply",
           "finish-ok", "finish-failed"}

Handler ==
  [at : Stages, route : NoneOr(Routes), plan : NoneOr(PlanRow),
   rec : NoneOr(Rec \cup {Batch}), schema : NoneOr(Schema), run : NoneOr(Run),
   todo : SUBSET Rec, base : NoneOr([Rec -> Nat])]

\* The row, the handlers and the world keep their shapes and run numbers their
\* bound.
TypeOK ==
  /\ plan \in PlanRow
  /\ req \in [Request -> Handler]
  /\ runs \in 0 .. MaxRuns
  /\ version \in [Rec -> Nat]
  /\ schema \in Schema
  /\ canaried \subseteq Rev /\ proven \subseteq Run
  /\ drifted \subseteq Rec /\ offPlan \subseteq Rec /\ stranded \in BOOLEAN
  /\ changes \in 0 .. MaxChanges

\* No revision is executed unless a canary of that same revision has been
\* recorded as verified, however requests and edits interleave.
CanaryFirst ==
  \A q \in Request : Executing(q) => req[q].plan.rev \in canaried

\* What an execution carries out was previewed from the very configuration
\* being executed: no preview of an older revision is ever executed as newer.
ExecutesItsRevision ==
  \A q \in Request :
    Executing(q) => frozen[PreviewRun(q)].rev = req[q].plan.rev

\* A plan shown as executing is being executed at the revision it shows, unless
\* an execution ended without the write of its outcome: an edit between the
\* gates of /execute and its start stops it, every error is recorded, and no
\* other request puts the row back to 'executing'.
ExecutingIsRunning ==
  plan.status = "executing" /\ ~stranded
    => \E q \in Request : Executing(q) /\ req[q].plan.rev = plan.rev

\* Does not hold: ExecutingIsRunning also after a crash or the loss of a write.
NeverStranded ==
  plan.status = "executing"
    => \E q \in Request : Executing(q) /\ req[q].plan.rev = plan.rev

\* An execution writes nothing at all if any record of its preview has drifted
\* before the execution began.
DriftStopsExecution == drifted = {}

\* The canary a plan shows as verified is one that was carried out: the run it
\* names has written a record without an error.
CanaryRan ==
  plan.canary # None /\ plan.canary.verified => plan.canary.run \in proven

\* Nothing is written from another state of source and target than the one the
\* operator reviewed.
DriftInvalidates == offPlan = {}

\* An execution meets the schemas its preview was made with.
SchemaAsPreviewed ==
  \A q \in Request : Executing(q) => req[q].schema = frozen[PreviewRun(q)].schema
=============================================================================
