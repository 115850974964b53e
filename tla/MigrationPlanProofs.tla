-------------------------- MODULE MigrationPlanProofs -------------------------
(* Theorems about MigrationPlan for every set of records, every number of    *)
(* concurrent requests and every bound.                                      *)
EXTENDS MigrationPlan, TLAPS

-----------------------------------------------------------------------------
(* The inductive invariant *)

\* Run n is a frozen preview: its items name records of the plan's scope, and
\* none was previewed from a version that is yet to come.
Taken(n) ==
  /\ n \in 1 .. runs
  /\ frozen[n] = [rev |-> frozen[n].rev, schema |-> frozen[n].schema,
                  items |-> frozen[n].items]
  /\ frozen[n].rev \in Rev
  /\ DOMAIN frozen[n].items \subseteq Rec
  /\ frozen[n].items = [r \in DOMAIN frozen[n].items |-> frozen[n].items[r]]
  /\ \A r \in DOMAIN frozen[n].items :
       frozen[n].items[r] # None =>
         frozen[n].items[r] \in Nat /\ frozen[n].items[r] <= version[r]

\* ... and nobody adds to it any more.
Settled(n) ==
  Taken(n) /\ \A q \in Request : ~(At(q, "freeze") /\ req[q].run = n)

\* What a row of the plan says of runs and canaries is so, whether it is the
\* current row or one that a handler read earlier.
RowOK(p) ==
  /\ p \in PlanRow
  /\ p.canary # None /\ p.canary.verified => p.canary.rev \in canaried
  /\ p.canary # None /\ p.canary.rec # Batch => Settled(p.canary.run)
  /\ p.preview # None => Settled(p.preview) /\ frozen[p.preview].rev = p.previewRev

\* The stages a route leads to
StageOf(route, at) ==
  /\ at = "validate" => route \in {"preflight", "test-preview", "preview"}
  /\ at \in {"preview", "freeze"} => route \in {"test-preview", "preview"}
  /\ at \in {"batch", "batch-run"} => route = "test-batch"
  /\ at \in {"start", "finish-ok", "finish-failed"} => route = "execute"
  /\ at \in {"begin", "verify", "apply"} => route \in {"execute", "test-execute"}

\* A handler is on its route, and the row it read passed that route's gates.
OnRoute(q) ==
  LET route == req[q].route IN
  /\ route \in AllRoutes
  /\ StageOf(route, req[q].at)
  /\ RowOK(req[q].plan)
  /\ route = "execute" => ExecuteGate(req[q].plan)
  /\ route = "test-execute" => TestGate(req[q].plan)
  /\ route = "test-batch" => req[q].rec = Batch
  /\ route = "test-preview" => req[q].rec \in Rec

\* A handler that takes a preview is the only one to add to its run.
Freezing(q) ==
  /\ Taken(req[q].run)
  /\ frozen[req[q].run].rev = req[q].plan.rev
  /\ \A o \in Request : At(o, "freeze") /\ req[o].run = req[q].run => o = q

\* A handler that checks or writes began from a world no older than its
\* preview, in which every record it has checked was as previewed.
Unchanged(q) ==
  /\ req[q].base \in [Rec -> Nat]
  /\ \A r \in Rec : req[q].base[r] <= version[r]
  /\ \A r \in DOMAIN Items(q) :
       /\ Items(q)[r] # None => Items(q)[r] <= req[q].base[r]
       /\ At(q, "apply") \/ r \notin req[q].todo => req[q].base[r] = Items(q)[r]

HandlerOK(q) ==
  /\ ~At(q, "idle") => OnRoute(q)
  /\ At(q, "freeze") => Freezing(q)
  /\ At(q, "batch-run") => req[q].run \in 1 .. runs
  /\ At(q, "verify") \/ At(q, "apply") => Unchanged(q)

Inv ==
  /\ TypeOK
  /\ DOMAIN frozen = Run
  /\ RowOK(plan)
  /\ \A q \in Request : HandlerOK(q)
  /\ DriftStopsExecution
  /\ ExecutingIsRunning

-----------------------------------------------------------------------------
(* What a step leaves standing *)

\* The state has moved on without touching what is settled: versions and runs
\* only grow, and nobody begins to add to a run that exists.
Grows ==
  /\ runs \in Nat /\ runs' \in Nat /\ runs <= runs'
  /\ canaried \subseteq canaried'
  /\ \A r \in Rec : /\ version[r] \in Nat /\ version'[r] \in Nat
                    /\ version[r] <= version'[r]
  /\ \A o \in Request :
       req'[o].at = "freeze" /\ req'[o].run \in 1 .. runs =>
         req[o].at = "freeze" /\ req[o].run = req'[o].run
  /\ \A n \in 1 .. runs :
       /\ Taken(n) => Taken(n)' /\ frozen'[n].rev = frozen[n].rev
       /\ Settled(n) => frozen'[n] = frozen[n]

LEMMA SettledKept ==
  ASSUME Grows, NEW n, Settled(n) PROVE Settled(n)'
BY DEF Settled, Taken, Grows, At

LEMMA RowKept ==
  ASSUME Grows, NEW p, RowOK(p) PROVE RowOK(p)'
<1>1. p.canary # None /\ p.canary.rec # Batch => Settled(p.canary.run)'
  BY SettledKept DEF RowOK
<1>2. p.preview # None =>
        /\ Settled(p.preview)'
        /\ frozen'[p.preview].rev = frozen[p.preview].rev
  BY SettledKept DEF RowOK, Settled, Taken, Grows
<1>3. QED BY <1>1, <1>2 DEF RowOK, Grows

LEMMA HandlerKept ==
  ASSUME Inv, Grows, NEW q \in Request, req'[q] = req[q] PROVE HandlerOK(q)'
<1>1. HandlerOK(q) BY DEF Inv
<1>2. ~At(q, "idle") => OnRoute(q)'
  <2>1. SUFFICES ASSUME ~At(q, "idle") PROVE OnRoute(q)' OBVIOUS
  <2>2. PICK p : p = req[q].plan OBVIOUS
  <2>3. RowOK(p)' BY <1>1, <2>1, <2>2, RowKept DEF HandlerOK, OnRoute
  <2>4. QED BY <1>1, <2>1, <2>2, <2>3 DEF HandlerOK, OnRoute
<1>3. At(q, "freeze") => Freezing(q)'
  <2>1. SUFFICES ASSUME At(q, "freeze") PROVE Freezing(q)' OBVIOUS
  <2>2. PICK n : n = req[q].run OBVIOUS
  <2>3. Taken(n) /\ Taken(n)' /\ frozen'[n].rev = frozen[n].rev
    BY <1>1, <2>1, <2>2 DEF HandlerOK, Freezing, Taken, Grows
  <2>4. \A o \in Request : req'[o].at = "freeze" /\ req'[o].run = n => o = q
    BY <1>1, <2>1, <2>2, <2>3 DEF HandlerOK, Freezing, Taken, Grows, At
  <2>5. QED BY <1>1, <2>1, <2>2, <2>3, <2>4 DEF HandlerOK, Freezing, At
<1>4. At(q, "batch-run") => req[q].run \in 1 .. runs'
  BY <1>1 DEF HandlerOK, Grows
<1>5. At(q, "verify") \/ At(q, "apply") => Unchanged(q)'
  <2>1. SUFFICES ASSUME At(q, "verify") \/ At(q, "apply") PROVE Unchanged(q)'
    OBVIOUS
  <2>2. PICK n : n = PreviewRun(q) OBVIOUS
  <2>3. Settled(n)
    BY <1>1, <2>1, <2>2
    DEF HandlerOK, OnRoute, StageOf, RowOK, PreviewRun, ExecuteGate, TestGate, At
  <2>4. frozen'[n] = frozen[n] BY <2>3 DEF Grows, Settled, Taken
  <2>5. Items(q)' = Items(q) BY <2>2, <2>4 DEF Items, PreviewRun
  <2>6. \A r \in Rec : req[q].base[r] <= version'[r]
    BY <1>1, <2>1 DEF HandlerOK, Unchanged, Grows
  <2>7. QED BY <1>1, <2>1, <2>5, <2>6 DEF HandlerOK, Unchanged, At
<1>6. QED BY <1>2, <1>3, <1>4, <1>5 DEF HandlerOK, At

-----------------------------------------------------------------------------
(* Steps of one handler *)

\* Only the handler of q changes what it does.
Only(q) ==
  /\ req' \in [Request -> Handler]
  /\ \A o \in Request \ {q} : req'[o] = req[o]

\* The step of q leaves a plan shown as executing in somebody's hands.
StillRunning(q) ==
  \/ plan'.status # "executing"
  \/ stranded' = TRUE
  \/ Executing(q)' /\ req'[q].plan.rev = plan'.rev
  \/ /\ plan'.status = plan.status /\ plan'.rev = plan.rev
     /\ stranded' = stranded
     /\ Executing(q) => Executing(q)' /\ req'[q].plan = req[q].plan

LEMMA StepKeeps ==
  ASSUME Inv, NEW q \in Request, Only(q), Grows, StillRunning(q),
         RowOK(plan)', HandlerOK(q)',
         DOMAIN frozen' = Run, runs' \in 0 .. MaxRuns, version' \in [Rec -> Nat],
         canaried' \subseteq Rev, proven' \subseteq Run, offPlan' \subseteq Rec,
         UNCHANGED <<schema, drifted, changes>>, stranded' \in BOOLEAN
  PROVE  Inv'
<1>1. \A o \in Request : HandlerOK(o)'
  <2>1. ASSUME NEW o \in Request, o # q PROVE HandlerOK(o)'
    BY <2>1, HandlerKept DEF Only
  <2>2. QED BY <2>1
<1>2. TypeOK' BY DEF Inv, TypeOK, Only, RowOK
<1>3. DriftStopsExecution' BY DEF Inv, DriftStopsExecution
<1>4. ExecutingIsRunning'
  <2>1. SUFFICES ASSUME plan'.status = "executing", ~stranded'
                 PROVE \E o \in Request : Executing(o)' /\ req'[o].plan.rev = plan'.rev
    BY DEF ExecutingIsRunning
  <2>2. CASE Executing(q)' /\ req'[q].plan.rev = plan'.rev BY <2>2
  <2>3. CASE /\ plan'.status = plan.status /\ plan'.rev = plan.rev
             /\ stranded' = stranded
             /\ Executing(q) => Executing(q)' /\ req'[q].plan = req[q].plan
    <3>1. PICK o \in Request : Executing(o) /\ req[o].plan.rev = plan.rev
      BY <2>1, <2>3 DEF Inv, ExecutingIsRunning
    <3>2. CASE o = q BY <2>3, <3>1, <3>2
    <3>3. CASE o # q BY <2>3, <3>1, <3>3 DEF Only, Executing
    <3>4. QED BY <3>2, <3>3
  <2>4. QED BY <2>1, <2>2, <2>3 DEF StillRunning
<1>5. QED BY <1>1, <1>2, <1>3, <1>4 DEF Inv

\* A step that begins no preview, changes no record and no frozen preview.
LEMMA QuietGrows ==
  ASSUME Inv, NEW q \in Request, Only(q), UNCHANGED <<frozen, runs, version>>,
         canaried \subseteq canaried',
         req'[q].at = "freeze" => req[q].at = "freeze" /\ req'[q].run = req[q].run
  PROVE  Grows
BY DEF Inv, TypeOK, Only, Grows, Taken

LEMMA OnRouteKept ==
  ASSUME Inv, Grows, NEW q \in Request, ~At(q, "idle"),
         req'[q].route = req[q].route, req'[q].plan = req[q].plan,
         req'[q].rec = req[q].rec, StageOf(req[q].route, req'[q].at)
  PROVE  OnRoute(q)'
<1>1. OnRoute(q) BY DEF Inv, HandlerOK
<1>2. PICK p : p = req[q].plan OBVIOUS
<1>3. RowOK(p)' BY <1>1, <1>2, RowKept DEF OnRoute
<1>4. QED BY <1>1, <1>2, <1>3 DEF OnRoute

LEMMA IdleType == Idle \in Handler
BY DEF Idle, Handler, Stages, NoneOr

LEMMA RespondKeeps ==
  ASSUME Inv, NEW q \in Request, Respond(q) PROVE Only(q) /\ HandlerOK(q)'
BY IdleType DEF Inv, TypeOK, Respond, Only, HandlerOK, At, Idle

LEMMA GotoKeeps ==
  ASSUME Inv, NEW q \in Request, NEW s \in Stages, Goto(q, s)
  PROVE  Only(q) /\ req'[q] = [req[q] EXCEPT !.at = s]
<1>1. req \in [Request -> Handler] BY DEF Inv, TypeOK
<1>2. [req[q] EXCEPT !.at = s] \in Handler BY <1>1 DEF Handler
<1>3. req' = [req EXCEPT ![q].at = s] BY DEF Goto
<1>4. req' = [req EXCEPT ![q] = [req[q] EXCEPT !.at = s]] BY <1>3
<1>5. QED BY <1>1, <1>2, <1>4 DEF Only

LEMMA HistoryKept ==
  ASSUME Inv, UNCHANGED history PROVE UNCHANGED written /\ stranded' \in BOOLEAN
BY DEF Inv, TypeOK, history, written

\* A step after which q answers or goes on, and which touches the plan at most.
LEMMA QuietStep ==
  ASSUME Inv, NEW q \in Request, Only(q), StillRunning(q), RowOK(plan)',
         HandlerOK(q)', UNCHANGED <<frozen, runs, world, written>>, stranded' \in BOOLEAN,
         req'[q].at = "freeze" => req[q].at = "freeze" /\ req'[q].run = req[q].run
  PROVE  Inv'
<1>1. Grows BY QuietGrows DEF world, written
<1>2. /\ DOMAIN frozen' = Run /\ runs' \in 0 .. MaxRuns
      /\ version' \in [Rec -> Nat] /\ canaried' \subseteq Rev
      /\ proven' \subseteq Run /\ offPlan' \subseteq Rec
  BY DEF Inv, TypeOK, world, written
<1>3. UNCHANGED <<schema, drifted, changes>> BY DEF world, written
<1>4. QED BY <1>1, <1>2, <1>3, StepKeeps

LEMMA PlanKept ==
  ASSUME Inv, Grows, UNCHANGED plan PROVE RowOK(plan)'
<1>1. PICK p : p = plan OBVIOUS
<1>2. RowOK(p)' BY <1>1, RowKept DEF Inv
<1>3. QED BY <1>1, <1>2 DEF RowOK

\* A change of the row that leaves canary, preview and their revisions alone.
LEMMA PlanTouched ==
  ASSUME Inv, Grows, plan' \in PlanRow, plan'.canary = plan.canary,
         plan'.preview = plan.preview, plan'.previewRev = plan.previewRev
  PROVE  RowOK(plan)'
<1>1. PICK p : p = plan OBVIOUS
<1>2. RowOK(p)' BY <1>1, RowKept DEF Inv
<1>3. QED BY <1>1, <1>2 DEF RowOK

LEMMA OpenKeeps ==
  ASSUME Inv, NEW q \in Request, NEW route \in Routes, Open(q, route) PROVE Inv'
<1>1. PICK r \in TestRecords(route) :
        req' = [req EXCEPT ![q] = [Idle EXCEPT !.at = "check", !.route = route,
                                     !.plan = AsRead(plan), !.rec = r]]
  BY DEF Open
<1>2. /\ plan \in PlanRow /\ AsRead(plan) \in PlanRow
      /\ AsRead(plan).rev = plan.rev /\ AsRead(plan).canary = plan.canary
      /\ AsRead(plan).preview = plan.preview
      /\ AsRead(plan).previewRev = plan.previewRev
  BY DEF Inv, TypeOK, AsRead, PlanRow, NoneOr
<1>3. r \in NoneOr(Rec \cup {Batch})
  BY <1>1, <1>2 DEF TestRecords, Open, TestGate, PlanRow, NoneOr
<1>4. /\ req'[q].at = "check" /\ req'[q].route = route /\ req'[q].rec = r
      /\ req'[q].plan = AsRead(plan)
  BY <1>1 DEF Idle, Inv, TypeOK
<1>5. req'[q] \in Handler
  BY <1>1, <1>2, <1>3 DEF Idle, Inv, TypeOK, Handler, NoneOr, Stages
<1>6. Only(q)
  BY <1>1, <1>5 DEF Only, Inv, TypeOK
<1>7. Grows BY <1>4, <1>6, QuietGrows DEF Open, world, written, history
<1>8. RowOK(plan)' BY <1>7, PlanKept DEF Open
<1>9. OnRoute(q)'
  <2>1. RowOK(req[q].plan)' BY <1>2, <1>4, <1>8 DEF RowOK, Open
  <2>2. route \in AllRoutes BY ConstantsAssumption
  <2>3. /\ route = "execute" => ExecuteGate(req'[q].plan)
        /\ route = "test-execute" => TestGate(req'[q].plan)
    BY <1>2, <1>4 DEF Open, ExecuteGate, TestGate
  <2>4. /\ route = "test-batch" => r = Batch
        /\ route = "test-preview" => r \in Rec
    BY <1>1 DEF TestRecords
  <2>5. QED BY <1>4, <2>1, <2>2, <2>3, <2>4 DEF OnRoute, StageOf, ExecuteGate, TestGate
<1>10. HandlerOK(q)' BY <1>4, <1>9 DEF HandlerOK, At
<1>11. StillRunning(q)
  BY DEF Open, StillRunning, Executing, history, At
<1>12. QED BY <1>4, <1>6, <1>8, <1>10, <1>11, HistoryKept, QuietStep DEF Open

LEMMA CheckKeeps ==
  ASSUME Inv, NEW q \in Request, Check(q) PROVE Inv'
<1>1. OnRoute(q) BY DEF Inv, HandlerOK, Check, At
<1>2. StillRunning(q) BY DEF Check, StillRunning, Executing, history, At
<1>3. CASE Respond(q)
  <2>1. Only(q) /\ HandlerOK(q)' BY <1>3, RespondKeeps
  <2>2. req'[q].at = "idle" BY <1>3 DEF Respond, Idle, Inv, TypeOK
  <2>3. RowOK(plan)' BY <2>1, <2>2, QuietGrows, PlanKept DEF Check, world, written, history
  <2>4. QED BY <1>2, <2>1, <2>2, <2>3, HistoryKept, QuietStep DEF Check
<1>4. CASE /\ req[q].route \in {"test-execute", "execute"} => req[q].plan.schema = schema
           /\ req' = [req EXCEPT ![q].at = NextStage(req[q].route), ![q].schema = schema]
  <2>1. NextStage(req[q].route) \in {"begin", "batch", "start", "validate"}
    BY DEF NextStage
  <2>2. /\ req'[q].at = NextStage(req[q].route) /\ req'[q].route = req[q].route
        /\ req'[q].plan = req[q].plan /\ req'[q].rec = req[q].rec
    BY <1>4 DEF Inv, TypeOK, Handler
  <2>3. req'[q] \in Handler
    <3>1. PICK s \in Stages : s = NextStage(req[q].route) BY <2>1 DEF Stages
    <3>2. req[q] \in Handler /\ schema \in NoneOr(Schema)
      BY DEF Inv, TypeOK, NoneOr
    <3>3. req'[q] = [req[q] EXCEPT !.at = s, !.schema = schema]
      BY <1>4, <3>1 DEF Inv, TypeOK
    <3>4. QED BY <3>2, <3>3 DEF Handler
  <2>4. Only(q) BY <1>4, <2>3 DEF Only, Inv, TypeOK
  <2>5. Grows BY <2>1, <2>2, <2>4, QuietGrows DEF Check, world, written, history
  <2>6. StageOf(req[q].route, req'[q].at)
    BY <1>1, <2>2 DEF OnRoute, StageOf, NextStage, AllRoutes
  <2>7. HandlerOK(q)'
    BY <2>1, <2>2, <2>5, <2>6, OnRouteKept DEF HandlerOK, At, Check
  <2>8. QED
    BY <1>2, <2>1, <2>2, <2>4, <2>5, <2>7, PlanKept, HistoryKept, QuietStep DEF Check
<1>5. QED BY <1>3, <1>4 DEF Check
-----------------------------------------------------------------------------
(* Steps that only answer or go on *)

LEMMA RespondStep ==
  ASSUME Inv, NEW q \in Request, Respond(q), StillRunning(q), plan' \in PlanRow,
         plan'.canary = plan.canary, plan'.preview = plan.preview,
         plan'.previewRev = plan.previewRev,
         UNCHANGED <<frozen, runs, world, written>>, stranded' \in BOOLEAN
  PROVE  Inv'
<1>1. Only(q) /\ HandlerOK(q)' BY RespondKeeps
<1>2. req'[q].at = "idle" BY DEF Respond, Idle, Inv, TypeOK
<1>3. Grows BY <1>1, <1>2, QuietGrows DEF world, written
<1>4. QED BY <1>1, <1>2, <1>3, PlanTouched, QuietStep

\* The stages whose handler needs no more than its route.
Plain == Stages \ {"idle", "freeze", "batch-run", "verify", "apply"}

LEMMA GotoStep ==
  ASSUME Inv, NEW q \in Request, NEW s \in Plain, Goto(q, s), ~At(q, "idle"),
         StageOf(req[q].route, s), StillRunning(q), plan' \in PlanRow,
         plan'.canary = plan.canary, plan'.preview = plan.preview,
         plan'.previewRev = plan.previewRev,
         UNCHANGED <<frozen, runs, world, written>>, stranded' \in BOOLEAN
  PROVE  Inv'
<1>1. Only(q) /\ req'[q] = [req[q] EXCEPT !.at = s]
  BY GotoKeeps DEF Plain
<1>2. /\ req'[q].at = s /\ req'[q].route = req[q].route
      /\ req'[q].plan = req[q].plan /\ req'[q].rec = req[q].rec
  BY <1>1 DEF Inv, TypeOK, Handler
<1>3. Grows BY <1>1, <1>2, QuietGrows DEF world, written, Plain
<1>4. OnRoute(q)' BY <1>2, <1>3, OnRouteKept
<1>5. HandlerOK(q)' BY <1>2, <1>4 DEF HandlerOK, At, Plain
<1>6. QED BY <1>1, <1>2, <1>3, <1>5, PlanTouched, QuietStep DEF Plain

LEMMA AbortStep ==
  ASSUME Inv, NEW q \in Request, Abort(q),
         req[q].at \in {"begin", "verify", "apply", "finish-ok"},
         UNCHANGED <<plan, frozen, runs, world, written, history>>
  PROVE  Inv'
<1>1. plan \in PlanRow BY DEF Inv, TypeOK
<1>2. CASE req[q].route = "execute"
  <2>1. Goto(q, "finish-failed") BY <1>2 DEF Abort
  <2>2. req'[q] = [req[q] EXCEPT !.at = "finish-failed"]
    BY <2>1, GotoKeeps DEF Stages
  <2>3. StillRunning(q)
    BY <1>2, <2>2 DEF StillRunning, Executing, history, Inv, TypeOK, Handler
  <2>4. QED
    BY <1>1, <1>2, <2>1, <2>3, HistoryKept, GotoStep DEF Plain, Stages, StageOf, At
<1>3. CASE req[q].route # "execute"
  BY <1>1, <1>3, HistoryKept, RespondStep DEF Abort, StillRunning, Executing, history
<1>4. QED BY <1>2, <1>3

LEMMA ValidateKeeps ==
  ASSUME Inv, NEW q \in Request, Validate(q) PROVE Inv'
<1>1. OnRoute(q) BY DEF Inv, HandlerOK, Validate, At
<1>2. /\ plan \in PlanRow /\ req[q].schema \in NoneOr(Schema)
  BY DEF Inv, TypeOK, Handler
<1>3. /\ plan' \in PlanRow /\ plan'.canary = plan.canary
      /\ plan'.preview = plan.preview /\ plan'.previewRev = plan.previewRev
      /\ plan'.rev = plan.rev /\ plan'.status \in {plan.status, "validated"}
  <2>1. plan' = plan \/ plan' = [plan EXCEPT !.status = "validated", !.schema = req[q].schema]
    BY DEF Validate, SaveValidation
  <2>2. QED BY <1>2, <2>1 DEF PlanRow
<1>4. StillRunning(q) BY <1>3 DEF StillRunning, Executing, history, Validate, At
<1>5. CASE Respond(q) BY <1>3, <1>4, <1>5, HistoryKept, RespondStep DEF Validate
<1>6. CASE Goto(q, "preview") /\ req[q].route # "preflight"
  BY <1>1, <1>3, <1>4, <1>6, HistoryKept, GotoStep
  DEF Validate, OnRoute, StageOf, Plain, Stages, At
<1>7. QED BY <1>5, <1>6 DEF Validate

LEMMA StartExecutionKeeps ==
  ASSUME Inv, NEW q \in Request, StartExecution(q) PROVE Inv'
<1>1. OnRoute(q) BY DEF Inv, HandlerOK, StartExecution, At
<1>2. req[q].route = "execute" BY <1>1 DEF OnRoute, StageOf, StartExecution, At
<1>3. plan \in PlanRow BY DEF Inv, TypeOK
<1>4. CASE MayStart(plan, req[q].plan.rev)
  <2>1. /\ plan' = [plan EXCEPT !.status = "executing"]
        /\ \/ Goto(q, "begin") /\ stranded' = FALSE
           \/ Respond(q) /\ stranded' = TRUE
    BY <1>4 DEF StartExecution
  <2>2. /\ plan' \in PlanRow /\ plan'.canary = plan.canary
        /\ plan'.preview = plan.preview /\ plan'.previewRev = plan.previewRev
        /\ plan'.rev = plan.rev
    BY <1>3, <2>1 DEF PlanRow
  <2>3. CASE Goto(q, "begin") /\ stranded' = FALSE
    <3>1. req'[q] = [req[q] EXCEPT !.at = "begin"] BY <2>3, GotoKeeps DEF Stages
    <3>2. StillRunning(q)
      BY <1>2, <1>4, <2>2, <3>1
      DEF StillRunning, Executing, MayStart, Inv, TypeOK, Handler
    <3>3. QED
      BY <1>2, <2>2, <2>3, <3>2, GotoStep
      DEF StartExecution, Plain, Stages, StageOf, At
  <2>4. CASE Respond(q) /\ stranded' = TRUE
    BY <2>2, <2>4, RespondStep DEF StartExecution, StillRunning
  <2>5. QED BY <2>1, <2>3, <2>4
<1>5. CASE ~MayStart(plan, req[q].plan.rev)
  <2>1. Respond(q) /\ UNCHANGED <<plan, stranded>> BY <1>5 DEF StartExecution
  <2>2. StillRunning(q)
    BY <2>1 DEF StillRunning, Executing, StartExecution, At
  <2>3. stranded' \in BOOLEAN BY <2>1 DEF Inv, TypeOK
  <2>4. QED BY <1>3, <2>1, <2>2, <2>3, RespondStep DEF StartExecution
<1>6. QED BY <1>4, <1>5

LEMMA EndApplyKeeps ==
  ASSUME Inv, NEW q \in Request, EndApply(q) PROVE Inv'
<1>1. OnRoute(q) BY DEF Inv, HandlerOK, EndApply, At
<1>2. plan \in PlanRow BY DEF Inv, TypeOK
<1>3. CASE req[q].route = "execute"
  <2>1. Goto(q, "finish-ok") BY <1>3 DEF EndApply
  <2>2. req'[q] = [req[q] EXCEPT !.at = "finish-ok"] BY <2>1, GotoKeeps DEF Stages
  <2>3. StillRunning(q)
    BY <1>3, <2>2 DEF EndApply, StillRunning, Executing, history, Inv, TypeOK, Handler
  <2>4. QED
    BY <1>2, <1>3, <2>1, <2>3, HistoryKept, GotoStep DEF EndApply, Plain, Stages, StageOf, At
<1>4. CASE req[q].route # "execute"
  <2>1. StillRunning(q) BY <1>4 DEF EndApply, StillRunning, Executing, history
  <2>2. CASE Respond(q) BY <1>2, <2>1, <2>2, HistoryKept, RespondStep DEF EndApply
  <2>3. CASE Goto(q, "finish-canary")
    BY <1>2, <2>1, <2>3, HistoryKept, GotoStep DEF EndApply, Plain, Stages, StageOf, At
  <2>4. QED BY <1>4, <2>2, <2>3 DEF EndApply
<1>5. QED BY <1>3, <1>4

LEMMA RecordOutcomeKeeps ==
  ASSUME Inv, NEW q \in Request, RecordOutcome(q) PROVE Inv'
<1>1. ~At(q, "idle") /\ OnRoute(q) BY DEF Inv, HandlerOK, RecordOutcome, At
<1>2. req[q].route = "execute" BY <1>1 DEF OnRoute, StageOf, RecordOutcome, At
<1>3. /\ plan' \in PlanRow /\ plan'.canary = plan.canary
      /\ plan'.preview = plan.preview /\ plan'.previewRev = plan.previewRev
      /\ plan'.status # "executing"
  <2>1. plan \in PlanRow /\ req[q].run \in NoneOr(Run) /\ None \in NoneOr(Run)
    BY DEF Inv, TypeOK, Handler, NoneOr
  <2>2. QED BY <2>1 DEF RecordOutcome, FinishExecution, PlanRow
<1>4. StillRunning(q) BY <1>3 DEF StillRunning
<1>5. CASE Respond(q) BY <1>3, <1>4, <1>5, RespondStep DEF RecordOutcome
<1>6. CASE Goto(q, "finish-failed")
  BY <1>1, <1>2, <1>3, <1>4, <1>6, GotoStep
  DEF RecordOutcome, Plain, Stages, StageOf
<1>7. QED BY <1>5, <1>6 DEF RecordOutcome

LEMMA CallFailsKeeps ==
  ASSUME Inv, NEW q \in Request, CallFails(q) PROVE Inv'
<1>1. OnRoute(q) /\ plan \in PlanRow
  BY DEF Inv, TypeOK, HandlerOK, CallFails
<1>2. UNCHANGED <<plan, frozen, runs, world, written>> /\ stranded' \in BOOLEAN
  BY DEF CallFails, Inv, TypeOK
<1>3. CASE req[q].at \in {"begin", "verify", "apply", "finish-ok"}
  <2>1. Abort(q) /\ stranded' = stranded BY <1>3 DEF CallFails, At, Inv, TypeOK
  <2>2. QED BY <1>2, <1>3, <2>1, AbortStep DEF history
<1>4. CASE req[q].at \notin {"begin", "verify", "apply", "finish-ok"}
  <2>1. Respond(q) BY <1>4 DEF CallFails
  <2>2. StillRunning(q)
    BY <1>2, <1>4 DEF CallFails, StillRunning, Executing, At, Inv, TypeOK
  <2>3. QED BY <1>1, <1>2, <2>1, <2>2, RespondStep
<1>5. QED BY <1>3, <1>4
-----------------------------------------------------------------------------
(* Steps that take a preview, or run a batch *)

\* A new run has a number of its own.
LEMMA NewRunGrows ==
  ASSUME Inv, NEW q \in Request, Only(q), runs' = runs + 1,
         \A n \in 1 .. runs : frozen'[n] = frozen[n],
         UNCHANGED <<version, canaried>>, req'[q].run = runs + 1
  PROVE  Grows
BY DEF Inv, TypeOK, Only, Grows, Taken

LEMMA BeginPreviewKeeps ==
  ASSUME Inv, NEW q \in Request, BeginPreview(q) PROVE Inv'
<1>1. HandlerOK(q) /\ OnRoute(q) /\ plan \in PlanRow
  BY DEF Inv, TypeOK, HandlerOK, BeginPreview, At
<1>2. StillRunning(q) BY DEF BeginPreview, StillRunning, Executing, history, At
<1> PICK n : n = runs + 1 OBVIOUS
<1> DEFINE T == IF req[q].route = "preview" THEN Rec ELSE {req[q].rec}
<1>3. /\ n \in Run /\ runs' = n
      /\ frozen' = [frozen EXCEPT ![n] = [rev |-> req[q].plan.rev,
                              schema |-> req[q].schema, items |-> <<>>]]
      /\ req' = [req EXCEPT ![q].at = "freeze", ![q].run = n, ![q].todo = T]
  BY DEF BeginPreview
<1>4. T \subseteq Rec
  BY <1>1 DEF OnRoute, StageOf, BeginPreview, At
<1>5. PICK S \in SUBSET Rec : S = T BY <1>4
<1>6. req'[q] = [req[q] EXCEPT !.at = "freeze", !.run = n, !.todo = S]
  BY <1>3, <1>5 DEF Inv, TypeOK
<1>7. req[q] \in Handler /\ n \in NoneOr(Run) BY <1>3 DEF Inv, TypeOK, NoneOr
<1>8. /\ req'[q] \in Handler /\ req'[q].at = "freeze" /\ req'[q].run = n
      /\ req'[q].route = req[q].route /\ req'[q].plan = req[q].plan
      /\ req'[q].rec = req[q].rec
  BY <1>6, <1>7 DEF Handler, Stages
<1>9. Only(q)
  <2>1. \A o \in Request \ {q} : req'[o] = req[o] BY <1>3 DEF Inv, TypeOK
  <2>2. req' = [o \in Request |-> IF o = q THEN req'[q] ELSE req[o]]
    BY <1>3 DEF Inv, TypeOK
  <2>3. QED BY <1>8, <2>1, <2>2 DEF Only, Inv, TypeOK
<1>10. runs \in 0 .. MaxRuns /\ DOMAIN frozen = Run BY DEF Inv, TypeOK
<1>11. /\ \A m \in 1 .. runs : frozen'[m] = frozen[m]
       /\ DOMAIN frozen' = Run
       /\ frozen'[n].rev = req[q].plan.rev /\ frozen'[n].items = <<>>
  BY <1>3, <1>10 DEF Run
<1>12. Grows
  BY <1>3, <1>8, <1>9, <1>11, NewRunGrows DEF BeginPreview, world, written, history
<1>13. OnRoute(q)'
  BY <1>1, <1>8, <1>12, OnRouteKept DEF OnRoute, StageOf, BeginPreview, At
<1>14. Freezing(q)'
  <2>1. req[q].plan.rev \in Rev BY <1>1 DEF OnRoute, RowOK, PlanRow
  <2>2. Taken(n)'
    BY <1>3, <1>10, <1>11, <2>1 DEF Taken
  <2>3. ASSUME NEW o \in Request \ {q}, req'[o].at = "freeze" PROVE req'[o].run # n
    <3>1. At(o, "freeze") /\ req'[o] = req[o] BY <1>9, <2>3 DEF Only, At
    <3>2. req[o].run \in 1 .. runs BY <3>1 DEF Inv, HandlerOK, Freezing, Taken
    <3>3. QED BY <1>10, <3>1, <3>2
  <2>4. QED BY <1>8, <1>11, <2>2, <2>3 DEF Freezing, At
<1>15. HandlerOK(q)' BY <1>8, <1>13, <1>14 DEF HandlerOK, At
<1>16. runs' \in 0 .. MaxRuns BY <1>3, <1>10 DEF Run
<1>17. RowOK(plan)' BY <1>12, PlanKept DEF BeginPreview
<1>18. /\ version' \in [Rec -> Nat] /\ canaried' \subseteq Rev
       /\ proven' \subseteq Run /\ offPlan' \subseteq Rec
       /\ UNCHANGED <<schema, drifted, changes>> /\ stranded' \in BOOLEAN
  BY DEF Inv, TypeOK, BeginPreview, world, written, history
<1>19. QED
  BY <1>2, <1>9, <1>11, <1>12, <1>15, <1>16, <1>17, <1>18, StepKeeps

\* What is left of a handler's loop
LEMMA DoneKeeps ==
  ASSUME Inv, NEW q \in Request, NEW r, Done(q, r)
  PROVE  /\ Only(q)
         /\ req'[q] = [req[q] EXCEPT !.todo = @ \ {r}]
         /\ req'[q].todo = req[q].todo \ {r}
         /\ req'[q].at = req[q].at /\ req'[q].route = req[q].route
         /\ req'[q].plan = req[q].plan /\ req'[q].rec = req[q].rec
         /\ req'[q].run = req[q].run /\ req'[q].base = req[q].base
<1>1. req[q] \in Handler BY DEF Inv, TypeOK
<1>2. req'[q] = [req[q] EXCEPT !.todo = @ \ {r}] BY DEF Done, Inv, TypeOK
<1>3. req'[q] \in Handler BY <1>1, <1>2 DEF Handler
<1>4. Only(q) BY <1>3 DEF Only, Done, Inv, TypeOK
<1>5. QED BY <1>1, <1>2, <1>4 DEF Handler

LEMMA FreezeRecordKeeps ==
  ASSUME Inv, NEW q \in Request, FreezeRecord(q) PROVE Inv'
<1>1. HandlerOK(q) /\ OnRoute(q) /\ Freezing(q) /\ plan \in PlanRow
  BY DEF Inv, TypeOK, HandlerOK, FreezeRecord, At
<1>2. StillRunning(q) BY DEF FreezeRecord, StillRunning, Executing, history, At
<1>3. PICK r \in req[q].todo : \E v \in {version[r], None} :
        /\ frozen' = [frozen EXCEPT ![req[q].run].items = WithItem(@, r, v)]
        /\ Done(q, r)
  BY DEF FreezeRecord
<1>. PICK v \in {version[r], None} :
        /\ frozen' = [frozen EXCEPT ![req[q].run].items = WithItem(@, r, v)]
        /\ Done(q, r)
  BY <1>3
<1>4. PICK n : n = req[q].run OBVIOUS
<1>5. /\ n \in 1 .. runs /\ n \in Run /\ DOMAIN frozen = Run
      /\ Taken(n) /\ frozen[n].rev = req[q].plan.rev
  <2>1. Taken(n) /\ frozen[n].rev = req[q].plan.rev
    BY <1>1, <1>4 DEF Freezing
  <2>2. n \in 1 .. runs BY <2>1 DEF Taken
  <2>3. runs \in 0 .. MaxRuns /\ DOMAIN frozen = Run BY DEF Inv, TypeOK
  <2>4. QED BY <2>1, <2>2, <2>3, ConstantsAssumption DEF Run
<1>6. r \in Rec /\ version[r] \in Nat
  BY <1>3 DEF Inv, TypeOK, Handler
<1>7. PICK f : f = WithItem(frozen[n].items, r, v) OBVIOUS
<1>8. /\ DOMAIN f \subseteq Rec
      /\ \A s \in DOMAIN f : f[s] # None => f[s] \in Nat /\ f[s] <= version[s]
  <2>1. /\ DOMAIN f = {r} \cup DOMAIN frozen[n].items
        /\ \A s \in DOMAIN f : f[s] = IF s = r THEN v ELSE frozen[n].items[s]
    BY <1>7 DEF WithItem
  <2>2. QED BY <1>3, <1>5, <1>6, <2>1 DEF Taken
<1>9. frozen' = [frozen EXCEPT ![n].items = f] BY <1>4, <1>7
<1>10. /\ DOMAIN frozen' = Run
       /\ \A m \in Run \ {n} : frozen'[m] = frozen[m]
       /\ frozen'[n] = [frozen[n] EXCEPT !.items = f]
  BY <1>5, <1>9
<1>11. frozen'[n] = [rev |-> frozen[n].rev, schema |-> frozen[n].schema, items |-> f]
  BY <1>5, <1>10 DEF Taken
<1>12. /\ Only(q) /\ req'[q].at = "freeze" /\ req'[q].run = n
       /\ req'[q].route = req[q].route /\ req'[q].plan = req[q].plan
       /\ req'[q].rec = req[q].rec
  BY <1>4, DoneKeeps DEF FreezeRecord, At
<1>13. Taken(n)'
  <2>1. f = [s \in DOMAIN f |-> f[s]] BY <1>7 DEF WithItem
  <2>2. /\ frozen'[n].rev = frozen[n].rev /\ frozen'[n].schema = frozen[n].schema
        /\ frozen'[n].items = f
    BY <1>11
  <2>3. n \in 1 .. runs' /\ version' = version
    BY <1>5 DEF FreezeRecord, world
  <2>4. frozen'[n] = [rev |-> frozen'[n].rev, schema |-> frozen'[n].schema,
                      items |-> frozen'[n].items]
    BY <1>11, <2>2
  <2>5. QED BY <1>5, <1>8, <2>1, <2>2, <2>3, <2>4 DEF Taken
<1>14. Grows
  <2>1. \A o \in Request :
          /\ req'[o].at = req[o].at /\ req'[o].run = req[o].run
    BY <1>4, <1>12 DEF Only, FreezeRecord, At
  <2>2. \A m \in 1 .. runs :
          /\ Taken(m) => Taken(m)' /\ frozen'[m].rev = frozen[m].rev
          /\ Settled(m) => frozen'[m] = frozen[m]
    <3>1. ASSUME NEW m \in 1 .. runs, m # n PROVE frozen'[m] = frozen[m]
      <4>1. runs \in 0 .. MaxRuns BY DEF Inv, TypeOK
      <4>2. m \in Run BY <3>1, <4>1, ConstantsAssumption DEF Run
      <4>3. QED BY <1>10, <3>1, <4>2
    <3>2. ASSUME NEW m \in 1 .. runs, m # n, Taken(m) PROVE Taken(m)'
      BY <3>1, <3>2 DEF Taken, FreezeRecord, world
    <3>3. ~Settled(n) BY <1>4 DEF Settled, FreezeRecord
    <3>4. frozen'[n].rev = frozen[n].rev BY <1>11
    <3>5. QED BY <1>13, <3>1, <3>2, <3>3, <3>4
  <2>3. QED
    BY <2>1, <2>2 DEF Grows, Inv, TypeOK, FreezeRecord, world, written, history
<1>15. OnRoute(q)' BY <1>1, <1>12, <1>14, OnRouteKept DEF OnRoute, FreezeRecord, At
<1>16. Freezing(q)'
  <2>1. \A o \in Request : req'[o].at = "freeze" /\ req'[o].run = n => o = q
    BY <1>1, <1>4, <1>12 DEF Freezing, Only, FreezeRecord, At
  <2>2. QED BY <1>5, <1>11, <1>12, <1>13, <2>1 DEF Freezing, At
<1>17. HandlerOK(q)' BY <1>12, <1>15, <1>16 DEF HandlerOK, At
<1>18. RowOK(plan)' BY <1>14, PlanKept DEF FreezeRecord
<1>19. /\ runs' \in 0 .. MaxRuns /\ version' \in [Rec -> Nat]
       /\ canaried' \subseteq Rev /\ proven' \subseteq Run /\ offPlan' \subseteq Rec
       /\ UNCHANGED <<schema, drifted, changes>> /\ stranded' \in BOOLEAN
  BY DEF Inv, TypeOK, FreezeRecord, world, written, history
<1>20. QED
  BY <1>2, <1>10, <1>12, <1>14, <1>17, <1>18, <1>19, StepKeeps
LEMMA RecordPreviewKeeps ==
  ASSUME Inv, NEW q \in Request, RecordPreview(q) PROVE Inv'
<1>1. OnRoute(q) /\ Freezing(q) /\ plan \in PlanRow
  BY DEF Inv, TypeOK, HandlerOK, RecordPreview, At
<1>2. /\ Only(q) /\ HandlerOK(q)' /\ req'[q].at = "idle"
  BY RespondKeeps DEF RecordPreview, Respond, Idle, Inv, TypeOK
<1>3. Grows BY <1>2, QuietGrows DEF RecordPreview, world, written, history
<1>4. PICK n, rev : n = req[q].run /\ rev = req[q].plan.rev OBVIOUS
<1>5. CASE plan' = plan
  <2>1. StillRunning(q)
    BY <1>5 DEF StillRunning, Executing, history, RecordPreview, At
  <2>2. QED BY <1>2, <1>3, <1>5, <2>1, PlanKept, HistoryKept, QuietStep DEF RecordPreview
<1>6. CASE /\ plan.rev = rev
           /\ plan' = [plan EXCEPT !.status = "previewed", !.preview = n,
                                   !.previewRev = rev]
  <2>1. Settled(n)'
    <3>1. Taken(n)' BY <1>1, <1>3, <1>4 DEF Freezing, Taken, Grows
    <3>2. \A o \in Request : ~(req'[o].at = "freeze" /\ req'[o].run = n)
      BY <1>1, <1>2, <1>4 DEF Freezing, Only, At
    <3>3. QED BY <3>1, <3>2 DEF Settled, At
  <2>2. n \in Run /\ rev \in Rev /\ frozen'[n].rev = rev
    <3>1. n \in 1 .. runs BY <1>1, <1>4 DEF Freezing, Taken
    <3>2. runs \in 0 .. MaxRuns BY DEF Inv, TypeOK
    <3>3. frozen[n].rev = rev BY <1>1, <1>4 DEF Freezing
    <3>4. rev \in Rev BY <1>1, <1>6 DEF PlanRow
    <3>5. n \in Run BY <3>1, <3>2, ConstantsAssumption DEF Run
    <3>6. QED BY <3>3, <3>4, <3>5 DEF RecordPreview
  <2>3. plan' \in PlanRow BY <1>1, <1>6, <2>2 DEF PlanRow, NoneOr
  <2>4. /\ plan'.canary = plan.canary /\ plan'.preview = n
        /\ plan'.previewRev = rev /\ plan'.status = "previewed"
    BY <1>1, <1>6 DEF PlanRow
  <2>5. RowOK(plan)'
    <3>1. PICK p : p = plan OBVIOUS
    <3>2. RowOK(p)' BY <1>3, <3>1, RowKept DEF Inv
    <3>3. QED BY <2>1, <2>2, <2>3, <2>4, <3>1, <3>2 DEF RowOK
  <2>6. StillRunning(q) BY <2>4 DEF StillRunning
  <2>7. QED BY <1>2, <2>5, <2>6, HistoryKept, QuietStep DEF RecordPreview
<1>7. QED BY <1>4, <1>5, <1>6 DEF RecordPreview, SavePreview

LEMMA RecordCanaryKeeps ==
  ASSUME Inv, NEW q \in Request, RecordCanary(q) PROVE Inv'
<1>1. /\ HandlerOK(q) /\ OnRoute(q) /\ plan \in PlanRow
      /\ At(q, "freeze") => Freezing(q) /\ req[q].route = "test-preview"
      /\ At(q, "batch-run") => req[q].run \in 1 .. runs /\ req[q].rec = Batch
                               /\ req[q].route = "test-batch"
  BY DEF Inv, TypeOK, HandlerOK, OnRoute, StageOf, RecordCanary, At
<1>2. /\ Only(q)
      /\ \/ req'[q].at = "idle"
         \/ /\ req'[q].at = "finish-canary" /\ req[q].route = "test-batch"
            /\ req'[q].route = req[q].route /\ req'[q].plan = req[q].plan
            /\ req'[q].rec = req[q].rec
  <2>1. CASE Respond(q)
    BY <2>1, RespondKeeps DEF Respond, Idle, Inv, TypeOK
  <2>2. CASE Goto(q, "finish-canary") /\ req[q].route = "test-batch"
    <3>1. Only(q) /\ req'[q] = [req[q] EXCEPT !.at = "finish-canary"]
      BY <2>2, GotoKeeps DEF Stages
    <3>2. req[q] \in Handler BY DEF Inv, TypeOK
    <3>3. QED BY <2>2, <3>1, <3>2 DEF Handler
  <2>3. QED BY <2>1, <2>2 DEF RecordCanary
<1>3. Grows BY <1>2, QuietGrows DEF RecordCanary, world, written, history
<1>4. HandlerOK(q)'
  <2>1. CASE req'[q].at = "idle" BY <2>1 DEF HandlerOK, At
  <2>2. CASE req'[q].at # "idle"
    <3>1. OnRoute(q)'
      BY <1>1, <1>2, <1>3, <2>2, OnRouteKept DEF StageOf, RecordCanary, At
    <3>2. QED BY <1>2, <2>2, <3>1 DEF HandlerOK, At
  <2>3. QED BY <2>1, <2>2
<1>5. PICK n, r, rev : n = req[q].run /\ r = req[q].rec /\ rev = req[q].plan.rev
  OBVIOUS
<1>6. CASE plan' = plan
  <2>1. StillRunning(q) BY <1>6 DEF StillRunning, Executing, history, RecordCanary, At
  <2>2. QED BY <1>2, <1>3, <1>4, <1>6, <2>1, PlanKept, HistoryKept, QuietStep DEF RecordCanary
<1>7. CASE /\ plan.rev = rev
           /\ plan' = [plan EXCEPT !.canary = [rec |-> r, run |-> n, rev |-> rev,
                                               verified |-> FALSE]]
  <2>1. r # Batch => Settled(n)'
    <3>1. SUFFICES ASSUME r # Batch PROVE Settled(n)' OBVIOUS
    <3>2. At(q, "freeze") BY <1>1, <1>5, <3>1 DEF RecordCanary
    <3>3. Taken(n)' BY <1>1, <1>3, <1>5, <3>2 DEF Freezing, Taken, Grows
    <3>4. \A o \in Request : ~(req'[o].at = "freeze" /\ req'[o].run = n)
      BY <1>1, <1>2, <1>5, <3>2 DEF Freezing, Only, At
    <3>5. QED BY <3>3, <3>4 DEF Settled, At
  <2>2. n \in Run /\ rev \in Rev /\ r \in NoneOr(Rec \cup {Batch})
    <3>1. n \in 1 .. runs BY <1>1, <1>5 DEF Freezing, Taken, RecordCanary
    <3>2. runs \in 0 .. MaxRuns /\ req[q] \in Handler BY DEF Inv, TypeOK
    <3>3. r \in NoneOr(Rec \cup {Batch}) BY <1>5, <3>2 DEF Handler
    <3>4. rev \in Rev BY <1>1, <1>7 DEF PlanRow
    <3>5. QED BY <3>1, <3>2, <3>3, <3>4, ConstantsAssumption DEF Run
  <2>3. plan' \in PlanRow BY <1>1, <1>7, <2>2 DEF PlanRow, NoneOr
  <2>4. /\ plan'.canary = [rec |-> r, run |-> n, rev |-> rev, verified |-> FALSE]
        /\ plan'.preview = plan.preview /\ plan'.previewRev = plan.previewRev
        /\ plan'.status = plan.status /\ plan'.rev = plan.rev
    BY <1>1, <1>7 DEF PlanRow
  <2>5. RowOK(plan)'
    <3>1. PICK p : p = plan OBVIOUS
    <3>2. RowOK(p)' BY <1>3, <3>1, RowKept DEF Inv
    <3>3. QED BY <2>1, <2>3, <2>4, <3>1, <3>2 DEF RowOK
  <2>6. StillRunning(q) BY <2>4 DEF StillRunning, Executing, history, RecordCanary, At
  <2>7. QED BY <1>2, <1>4, <2>5, <2>6, HistoryKept, QuietStep DEF RecordCanary
<1>8. QED BY <1>5, <1>6, <1>7 DEF RecordCanary, SaveCanary
LEMMA BeginBatchKeeps ==
  ASSUME Inv, NEW q \in Request, BeginBatch(q) PROVE Inv'
<1>1. OnRoute(q) /\ plan \in PlanRow
  BY DEF Inv, TypeOK, HandlerOK, BeginBatch, At
<1>2. StillRunning(q) BY DEF BeginBatch, StillRunning, Executing, history, At
<1>3. PICK S \in SUBSET Rec :
        req' = [req EXCEPT ![q].at = "batch-run", ![q].run = runs + 1, ![q].todo = S]
  BY DEF BeginBatch
<1>4. PICK n : n = runs + 1 OBVIOUS
<1>5. n \in Run /\ runs' = n /\ n \in NoneOr(Run)
  BY <1>4 DEF BeginBatch, NoneOr
<1>6. req'[q] = [req[q] EXCEPT !.at = "batch-run", !.run = n, !.todo = S]
  BY <1>3, <1>4 DEF Inv, TypeOK
<1>7. req[q] \in Handler BY DEF Inv, TypeOK
<1>8. /\ req'[q] \in Handler /\ req'[q].at = "batch-run" /\ req'[q].run = n
      /\ req'[q].route = req[q].route /\ req'[q].plan = req[q].plan
      /\ req'[q].rec = req[q].rec
  BY <1>5, <1>6, <1>7 DEF Handler, Stages
<1>9. Only(q) BY <1>3, <1>8 DEF Only, Inv, TypeOK
<1>10. runs \in 0 .. MaxRuns /\ runs' \in 0 .. MaxRuns /\ runs' \in 1 .. runs'
  BY <1>4, <1>5 DEF Inv, TypeOK, Run
<1>11. Grows
  BY <1>4, <1>5, <1>8, <1>9, NewRunGrows DEF BeginBatch, world, written, history
<1>12. HandlerOK(q)'
  <2>1. OnRoute(q)'
    BY <1>1, <1>8, <1>11, OnRouteKept DEF OnRoute, StageOf, BeginBatch, At
  <2>2. QED BY <1>5, <1>8, <1>10, <2>1 DEF HandlerOK, At
<1>13. RowOK(plan)' BY <1>11, PlanKept DEF BeginBatch
<1>14. /\ DOMAIN frozen' = Run /\ version' \in [Rec -> Nat]
       /\ canaried' \subseteq Rev /\ proven' \subseteq Run
       /\ offPlan' \subseteq Rec
       /\ UNCHANGED <<schema, drifted, changes>> /\ stranded' \in BOOLEAN
  BY DEF Inv, TypeOK, BeginBatch, world, written, history
<1>15. QED
  BY <1>2, <1>9, <1>10, <1>11, <1>12, <1>13, <1>14, StepKeeps

\* A record is written at most.
LEMMA WriteGrows ==
  ASSUME Inv, UNCHANGED <<frozen, runs, canaried>>, version' \in [Rec -> Nat],
         \A r \in Rec : version[r] <= version'[r],
         \A o \in Request : req'[o].at = "freeze" =>
           req[o].at = "freeze" /\ req'[o].run = req[o].run
  PROVE  Grows
<1>1. \A r \in Rec : version[r] \in Nat /\ version'[r] \in Nat
  BY DEF Inv, TypeOK
<1>2. ASSUME NEW n, Taken(n) PROVE Taken(n)'
  <2>1. \A r \in DOMAIN frozen[n].items :
          frozen[n].items[r] # None => frozen[n].items[r] <= version'[r]
    BY <1>1, <1>2 DEF Taken
  <2>2. QED BY <1>2, <2>1 DEF Taken
<1>3. QED BY <1>1, <1>2 DEF Grows, Inv, TypeOK

LEMMA ReconcileGrows ==
  ASSUME Inv, NEW r \in Rec, Reconcile(r)
  PROVE  /\ version' \in [Rec -> Nat]
         /\ \A s \in Rec : version[s] <= version'[s]
BY DEF Inv, TypeOK, Reconcile

LEMMA BatchRecordKeeps ==
  ASSUME Inv, NEW q \in Request, BatchRecord(q) PROVE Inv'
<1>1. HandlerOK(q) /\ OnRoute(q) /\ plan \in PlanRow /\ req[q] \in Handler
  BY DEF Inv, TypeOK, HandlerOK, BatchRecord, At
<1>2. PICK r \in req[q].todo :
        /\ Done(q, r)
        /\ Reconcile(r) /\ proven' \in {proven, proven \cup {req[q].run}}
  BY DEF BatchRecord
<1>3. r \in Rec BY <1>1 DEF Handler
<1>4. /\ Only(q) /\ req'[q].at = "batch-run" /\ req'[q].run = req[q].run
      /\ req'[q].route = req[q].route /\ req'[q].plan = req[q].plan
      /\ req'[q].rec = req[q].rec
  BY <1>2, DoneKeeps DEF BatchRecord, At
<1>5. /\ version' \in [Rec -> Nat]
      /\ \A s \in Rec : version[s] <= version'[s]
  BY <1>2, <1>3, ReconcileGrows DEF Inv, TypeOK
<1>6. Grows BY <1>4, <1>5, WriteGrows DEF BatchRecord, Only
<1>7. req[q].run \in 1 .. runs /\ req[q].run \in Run
  <2>1. req[q].run \in 1 .. runs BY <1>1 DEF HandlerOK, BatchRecord
  <2>2. runs \in 0 .. MaxRuns BY DEF Inv, TypeOK
  <2>3. QED BY <2>1, <2>2, ConstantsAssumption DEF Run
<1>8. HandlerOK(q)'
  <2>1. OnRoute(q)'
    BY <1>1, <1>4, <1>6, OnRouteKept DEF OnRoute, StageOf, BatchRecord, At
  <2>2. QED BY <1>4, <1>7, <2>1 DEF HandlerOK, At, BatchRecord
<1>9. StillRunning(q) BY DEF BatchRecord, StillRunning, Executing, history, At
<1>10. RowOK(plan)' BY <1>6, PlanKept DEF BatchRecord
<1>11. /\ DOMAIN frozen' = Run /\ runs' \in 0 .. MaxRuns /\ canaried' \subseteq Rev
       /\ proven' \subseteq Run /\ offPlan' \subseteq Rec
       /\ UNCHANGED <<schema, drifted, changes>> /\ stranded' \in BOOLEAN
  BY <1>2, <1>7 DEF Inv, TypeOK, BatchRecord
<1>12. QED
  BY <1>4, <1>5, <1>6, <1>8, <1>9, <1>10, <1>11, StepKeeps

LEMMA VerifyCanaryKeeps ==
  ASSUME Inv, NEW q \in Request, VerifyCanary(q) PROVE Inv'
<1>1. OnRoute(q) /\ plan \in PlanRow
  BY DEF Inv, TypeOK, HandlerOK, VerifyCanary, At
<1>2. /\ Only(q) /\ HandlerOK(q)' /\ req'[q].at = "idle"
  BY RespondKeeps DEF VerifyCanary, Respond, Idle, Inv, TypeOK
<1>3. Grows BY <1>2, QuietGrows DEF VerifyCanary, world
<1>4. PICK rev : rev = req[q].plan.rev OBVIOUS
<1>5. /\ RowOK(plan)' /\ canaried' \subseteq Rev
      /\ plan'.rev = plan.rev /\ plan'.status = plan.status
  <2>1. PICK p : p = plan OBVIOUS
  <2>2. RowOK(p)' BY <1>3, <2>1, RowKept DEF Inv
  <2>3. CASE CanaryIsCurrent(plan, rev)
    <3>1. /\ plan' = [plan EXCEPT !.canary.verified = TRUE]
          /\ canaried' = canaried \cup {rev}
      BY <1>4, <2>3 DEF VerifyCanary, FinishCanary
    <3>2. plan.canary \in [rec : NoneOr(Rec \cup {Batch}), run : Run, rev : Rev,
                           verified : BOOLEAN]
      BY <1>1, <2>3 DEF PlanRow, NoneOr, CanaryIsCurrent
    <3>3. PICK c : c = [plan.canary EXCEPT !.verified = TRUE] OBVIOUS
    <3>4. /\ c \in [rec : NoneOr(Rec \cup {Batch}), run : Run, rev : Rev,
                     verified : BOOLEAN]
          /\ c.rev = rev /\ c.rec = plan.canary.rec /\ c.run = plan.canary.run
      BY <2>3, <3>2, <3>3 DEF CanaryIsCurrent
    <3>5. plan' = [plan EXCEPT !.canary = c] BY <1>1, <3>1, <3>3 DEF PlanRow
    <3>6. /\ plan' \in PlanRow /\ plan'.canary = c /\ plan'.preview = plan.preview
          /\ plan'.previewRev = plan.previewRev /\ plan'.rev = plan.rev
          /\ plan'.status = plan.status
      BY <1>1, <3>4, <3>5 DEF PlanRow, NoneOr
    <3>7. rev \in Rev BY <3>4
    <3>8. canaried' \subseteq Rev BY <3>1, <3>7 DEF Inv, TypeOK
    <3>9. RowOK(plan)'
      BY <2>1, <2>2, <2>3, <3>1, <3>4, <3>6 DEF RowOK, CanaryIsCurrent
    <3>10. QED BY <3>6, <3>8, <3>9
  <2>4. CASE ~CanaryIsCurrent(plan, rev)
    <3>1. plan' = plan /\ canaried' = canaried
      BY <1>4, <2>4 DEF VerifyCanary, FinishCanary
    <3>2. RowOK(plan)' BY <1>3, <3>1, PlanKept
    <3>3. QED BY <3>1, <3>2 DEF Inv, TypeOK
  <2>5. QED BY <2>3, <2>4
<1>6. StillRunning(q) BY <1>5 DEF StillRunning, Executing, history, VerifyCanary, At
<1>7. /\ DOMAIN frozen' = Run /\ runs' \in 0 .. MaxRuns /\ version' \in [Rec -> Nat]
      /\ proven' \subseteq Run /\ offPlan' \subseteq Rec
      /\ UNCHANGED <<schema, drifted, changes>> /\ stranded' \in BOOLEAN
  BY DEF Inv, TypeOK, VerifyCanary, world
<1>8. QED BY <1>2, <1>3, <1>5, <1>6, <1>7, StepKeeps
-----------------------------------------------------------------------------
(* Steps that check and execute a preview *)

LEMMA PreviewSettled ==
  ASSUME Inv, NEW q \in Request, At(q, "begin") \/ At(q, "verify") \/ At(q, "apply")
  PROVE  Settled(PreviewRun(q)) /\ OnRoute(q)
BY DEF Inv, HandlerOK, OnRoute, StageOf, RowOK, PreviewRun, ExecuteGate, TestGate, At

LEMMA ItemsKept ==
  ASSUME Inv, Grows, NEW q \in Request,
         At(q, "begin") \/ At(q, "verify") \/ At(q, "apply"),
         req'[q].route = req[q].route, req'[q].plan = req[q].plan
  PROVE  Items(q)' = Items(q)
<1>1. PICK n : n = PreviewRun(q) OBVIOUS
<1>2. Settled(n) BY <1>1, PreviewSettled
<1>3. frozen'[n] = frozen[n] BY <1>2 DEF Grows, Settled, Taken
<1>4. QED BY <1>1, <1>3 DEF Items, PreviewRun

LEMMA BeginVerifyKeeps ==
  ASSUME Inv, NEW q \in Request, BeginVerify(q) PROVE Inv'
<1>1. CASE Items(q) = <<>>
  <2>1. Abort(q) BY <1>1 DEF BeginVerify
  <2>2. req[q].at \in {"begin", "verify", "apply", "finish-ok"}
    BY DEF BeginVerify, At
  <2>3. UNCHANGED <<plan, frozen, runs, world, history>> BY DEF BeginVerify
  <2>4. QED BY <2>1, <2>2, <2>3, AbortStep DEF history
<1>2. CASE Items(q) # <<>>
  <2>1. PICK n : n = PreviewRun(q) OBVIOUS
  <2>2. Taken(n) /\ Items(q) = frozen[n].items /\ OnRoute(q)
    BY <2>1, PreviewSettled DEF BeginVerify, Settled, Items
  <2>3. PICK S \in SUBSET Rec : S = DOMAIN Items(q) BY <2>2 DEF Taken
  <2>4. version \in [Rec -> Nat] /\ version \in NoneOr([Rec -> Nat]) /\ req[q] \in Handler
    BY DEF Inv, TypeOK, NoneOr
  <2>5. req'[q] = [req[q] EXCEPT !.at = "verify", !.base = version, !.todo = S]
    BY <1>2, <2>3 DEF BeginVerify, Inv, TypeOK
  <2>6. /\ req'[q] \in Handler /\ req'[q].at = "verify" /\ req'[q].base = version
        /\ req'[q].todo = S /\ req'[q].route = req[q].route
        /\ req'[q].plan = req[q].plan /\ req'[q].rec = req[q].rec
    BY <2>4, <2>5 DEF Handler, Stages
  <2>7. Only(q)
    <3>1. \A o \in Request \ {q} : req'[o] = req[o]
      BY <1>2 DEF BeginVerify, Inv, TypeOK
    <3>2. req' = [o \in Request |-> req'[o]]
      BY <1>2 DEF BeginVerify, Inv, TypeOK
    <3>3. QED BY <2>6, <3>1, <3>2 DEF Only, Inv, TypeOK
  <2>8. Grows BY <2>6, <2>7, QuietGrows DEF BeginVerify, world, written, history
  <2>9. OnRoute(q)'
    BY <2>2, <2>6, <2>8, OnRouteKept DEF OnRoute, StageOf, BeginVerify, At
  <2>10. Items(q)' = Items(q) BY <2>6, <2>8, ItemsKept DEF BeginVerify
  <2>11. Unchanged(q)'
    <3>1. \A r \in Rec : version[r] \in Nat /\ version'[r] = version[r]
      BY <2>4 DEF BeginVerify, world
    <3>2. \A r \in S : Items(q)[r] # None => Items(q)[r] <= version[r]
      BY <2>2, <2>3 DEF Taken
    <3>3. QED BY <2>3, <2>4, <2>6, <2>10, <3>1, <3>2 DEF Unchanged, At
  <2>12. HandlerOK(q)' BY <2>6, <2>9, <2>11 DEF HandlerOK, At
  <2>13. StillRunning(q)
    BY <2>6 DEF BeginVerify, StillRunning, Executing, history
  <2>14. RowOK(plan)' BY <2>8, PlanKept DEF BeginVerify
  <2>15. QED
    BY <2>6, <2>7, <2>12, <2>13, <2>14, HistoryKept, QuietStep DEF BeginVerify
<1>3. QED BY <1>1, <1>2

LEMMA VerifyRecordKeeps ==
  ASSUME Inv, NEW q \in Request, VerifyRecord(q) PROVE Inv'
<1>1. CASE Abort(q)
  <2>1. req[q].at \in {"begin", "verify", "apply", "finish-ok"}
    BY DEF VerifyRecord, At
  <2>2. UNCHANGED <<plan, frozen, runs, world, history>> BY DEF VerifyRecord
  <2>3. QED BY <1>1, <2>1, <2>2, AbortStep DEF history
<1>2. CASE ~Abort(q)
  <2>1. PICK r \in req[q].todo : version[r] = Items(q)[r] /\ Done(q, r)
    BY <1>2 DEF VerifyRecord
  <2>2. /\ Only(q) /\ req'[q].at = "verify" /\ req'[q].run = req[q].run
        /\ req'[q].route = req[q].route /\ req'[q].plan = req[q].plan
        /\ req'[q].rec = req[q].rec /\ req'[q].base = req[q].base
        /\ req'[q].todo = req[q].todo \ {r}
    BY <2>1, DoneKeeps DEF VerifyRecord, At
  <2>3. Grows BY <2>2, QuietGrows DEF VerifyRecord, world, written, history
  <2>4. OnRoute(q) /\ Unchanged(q)
    BY DEF Inv, HandlerOK, VerifyRecord, At
  <2>5. OnRoute(q)'
    BY <2>2, <2>3, <2>4, OnRouteKept DEF OnRoute, VerifyRecord, At
  <2>6. Items(q)' = Items(q) BY <2>2, <2>3, ItemsKept DEF VerifyRecord
  <2>7. r \in Rec /\ version[r] \in Nat /\ req[q].base[r] \in Nat
    BY <2>1, <2>4 DEF Inv, TypeOK, Handler, Unchanged
  <2>8. r \in DOMAIN Items(q) => req[q].base[r] = Items(q)[r]
    <3>1. Items(q)[r] # None BY <2>1, <2>7, ConstantsAssumption
    <3>2. r \in DOMAIN Items(q) =>
            Items(q)[r] <= req[q].base[r] /\ req[q].base[r] <= version[r]
      BY <2>4, <2>7, <3>1 DEF Unchanged
    <3>3. QED BY <2>1, <2>7, <3>2
  <2>9. Unchanged(q)'
    <3>1. \A s \in Rec : req'[q].base[s] <= version'[s]
      BY <2>2, <2>4 DEF Unchanged, VerifyRecord, world
    <3>2. QED
      BY <2>2, <2>4, <2>6, <2>8, <3>1 DEF Unchanged, At, VerifyRecord
  <2>10. HandlerOK(q)' BY <2>2, <2>5, <2>9 DEF HandlerOK, At
  <2>11. StillRunning(q)
    BY <2>2 DEF VerifyRecord, StillRunning, Executing, history
  <2>12. RowOK(plan)' BY <2>3, PlanKept DEF VerifyRecord
  <2>13. QED
    BY <2>2, <2>10, <2>11, <2>12, HistoryKept, QuietStep DEF VerifyRecord
<1>3. QED BY <1>1, <1>2

LEMMA BeginApplyKeeps ==
  ASSUME Inv, NEW q \in Request, BeginApply(q) PROVE Inv'
<1>1. OnRoute(q) /\ Unchanged(q) /\ req[q] \in Handler
  BY DEF Inv, TypeOK, HandlerOK, BeginApply, At
<1>2. PICK n : n = runs + 1 OBVIOUS
<1>. PICK S \in SUBSET Rec : S = DOMAIN Items(q)
  BY PreviewSettled DEF BeginApply, Settled, Taken, Items
<1>4. n \in Run /\ n \in NoneOr(Run) BY <1>2 DEF BeginApply, NoneOr
<1>3. /\ runs' = n
      /\ req' = [req EXCEPT ![q].at = "apply", ![q].run = n, ![q].todo = S]
  BY <1>2 DEF BeginApply
<1>5. req'[q] = [req[q] EXCEPT !.at = "apply", !.run = n, !.todo = S]
  BY <1>3 DEF Inv, TypeOK
<1>6. /\ req'[q] \in Handler /\ req'[q].at = "apply" /\ req'[q].run = n
      /\ req'[q].route = req[q].route /\ req'[q].plan = req[q].plan
      /\ req'[q].rec = req[q].rec /\ req'[q].base = req[q].base
  BY <1>1, <1>4, <1>5 DEF Handler, Stages
<1>7. Only(q) BY <1>3, <1>6 DEF Only, Inv, TypeOK
<1>8. Grows
  BY <1>2, <1>3, <1>6, <1>7, NewRunGrows DEF BeginApply, world, written, history
<1>9. OnRoute(q)'
  BY <1>1, <1>6, <1>8, OnRouteKept DEF OnRoute, StageOf, BeginApply, At
<1>10. Items(q)' = Items(q) BY <1>6, <1>8, ItemsKept DEF BeginApply
<1>11. Unchanged(q)'
  <2>1. \A r \in Rec : req'[q].base[r] <= version'[r]
    BY <1>1, <1>6 DEF Unchanged, BeginApply, world
  <2>2. QED
    BY <1>1, <1>6, <1>10, <2>1 DEF Unchanged, At, BeginApply
<1>12. HandlerOK(q)' BY <1>6, <1>9, <1>11 DEF HandlerOK, At
<1>13. StillRunning(q) BY <1>6 DEF BeginApply, StillRunning, Executing, history
<1>14. RowOK(plan)' BY <1>8, PlanKept DEF BeginApply
<1>15. runs' \in 0 .. MaxRuns BY <1>3, <1>4, ConstantsAssumption DEF Run
<1>16. /\ DOMAIN frozen' = Run /\ version' \in [Rec -> Nat]
       /\ canaried' \subseteq Rev /\ proven' \subseteq Run
       /\ offPlan' \subseteq Rec
       /\ UNCHANGED <<schema, drifted, changes>> /\ stranded' \in BOOLEAN
  BY DEF Inv, TypeOK, BeginApply, world, written, history
<1>17. QED
  BY <1>7, <1>8, <1>12, <1>13, <1>14, <1>15, <1>16, StepKeeps

LEMMA ApplyRecordKeeps ==
  ASSUME Inv, NEW q \in Request, ApplyRecord(q) PROVE Inv'
<1>1. OnRoute(q) /\ Unchanged(q) /\ req[q] \in Handler
  BY DEF Inv, TypeOK, HandlerOK, ApplyRecord, At
<1>2. PICK r \in req[q].todo :
        /\ Reconcile(r)
        /\ proven' = proven \cup {PreviewRun(q)}
        /\ offPlan' = IF version[r] = Items(q)[r] THEN offPlan ELSE offPlan \cup {r}
        /\ drifted' = IF \A s \in DOMAIN Items(q) : req[q].base[s] = Items(q)[s]
                      THEN drifted ELSE drifted \cup {r}
        /\ Done(q, r)
  BY DEF ApplyRecord
<1>3. r \in Rec BY <1>1 DEF Handler
<1>4. /\ Only(q) /\ req'[q].at = "apply" /\ req'[q].route = req[q].route
      /\ req'[q].plan = req[q].plan /\ req'[q].rec = req[q].rec
      /\ req'[q].base = req[q].base
  BY <1>2, DoneKeeps DEF ApplyRecord, At
<1>5. /\ version' \in [Rec -> Nat]
      /\ \A s \in Rec : version[s] <= version'[s]
  BY <1>2, <1>3, ReconcileGrows
<1>6. Grows BY <1>4, <1>5, WriteGrows DEF ApplyRecord, Only
<1>7. OnRoute(q)'
  BY <1>1, <1>4, <1>6, OnRouteKept DEF OnRoute, ApplyRecord, At
<1>8. Items(q)' = Items(q) BY <1>4, <1>6, ItemsKept DEF ApplyRecord
<1>9. Unchanged(q)'
  <2>1. \A s \in Rec : req'[q].base[s] <= version'[s]
    <3>1. \A s \in Rec : /\ req[q].base[s] \in Nat /\ version[s] \in Nat
                         /\ version'[s] \in Nat /\ req[q].base[s] <= version[s]
      BY <1>1, <1>5 DEF Unchanged, Inv, TypeOK
    <3>2. QED BY <1>4, <1>5, <3>1
  <2>2. QED
    BY <1>1, <1>4, <1>8, <2>1 DEF Unchanged, At, ApplyRecord
<1>10. HandlerOK(q)' BY <1>4, <1>7, <1>9 DEF HandlerOK, At
<1>11. StillRunning(q) BY <1>4 DEF ApplyRecord, StillRunning, Executing, history
<1>12. RowOK(plan)' BY <1>6, PlanKept DEF ApplyRecord
<1>13. drifted' = drifted
  BY <1>1, <1>2 DEF Unchanged, ApplyRecord
<1>14. proven' \subseteq Run
  <2>1. PreviewRun(q) \in 1 .. runs
    BY PreviewSettled DEF ApplyRecord, Settled, Taken
  <2>2. runs \in 0 .. MaxRuns BY DEF Inv, TypeOK
  <2>3. PreviewRun(q) \in Run BY <2>1, <2>2, ConstantsAssumption DEF Run
  <2>4. QED BY <1>2, <2>3 DEF Inv, TypeOK
<1>15. /\ DOMAIN frozen' = Run /\ runs' \in 0 .. MaxRuns
       /\ canaried' \subseteq Rev /\ offPlan' \subseteq Rec
       /\ UNCHANGED <<schema, changes>> /\ stranded' \in BOOLEAN
  BY <1>2, <1>3 DEF Inv, TypeOK, ApplyRecord
<1>16. QED
  BY <1>4, <1>5, <1>6, <1>10, <1>11, <1>12, <1>13, <1>14, <1>15, StepKeeps
-----------------------------------------------------------------------------
(* The steps of the world and of the plan's editor, and all of them *)

LEMMA InitInv == Init => Inv
<1> SUFFICES ASSUME Init PROVE Inv OBVIOUS
<1>1. plan \in PlanRow
  BY ConstantsAssumption DEF Init, Draft, PlanRow, NoneOr, Rev
<1>2. TypeOK
  <2>1. /\ runs \in 0 .. MaxRuns /\ schema \in Schema
        /\ changes \in 0 .. MaxChanges
    BY ConstantsAssumption DEF Init, Schema
  <2>2. req \in [Request -> Handler] /\ version \in [Rec -> Nat]
    BY IdleType DEF Init
  <2>3. QED BY <1>1, <2>1, <2>2 DEF Init, TypeOK
<1>3. plan.status = "draft" /\ plan.canary = None /\ plan.preview = None
  BY DEF Init, Draft
<1>4. RowOK(plan) BY <1>1, <1>3 DEF RowOK
<1>5. \A q \in Request : HandlerOK(q) BY DEF Init, Idle, HandlerOK, At
<1>6. QED
  BY <1>2, <1>3, <1>4, <1>5 DEF Inv, Init, DriftStopsExecution, ExecutingIsRunning

LEMMA EditKeeps == ASSUME Inv, Edit PROVE Inv'
<1>1. /\ plan' \in PlanRow /\ plan'.status = "draft"
      /\ plan'.canary = None /\ plan'.preview = None
  <2>1. plan.rev + 1 \in Rev
    BY ConstantsAssumption DEF Inv, TypeOK, PlanRow, Edit, Rev
  <2>2. QED BY <2>1 DEF Edit, Draft, PlanRow, NoneOr
<1>2. Grows
  BY DEF Inv, TypeOK, Edit, Grows, Taken, world, written, history
<1>3. \A q \in Request : HandlerOK(q)' BY <1>2, HandlerKept DEF Edit
<1>4. QED
  BY <1>1, <1>3
  DEF Inv, TypeOK, RowOK, Edit, world, written, history, DriftStopsExecution, ExecutingIsRunning

LEMMA WorldKeeps ==
  ASSUME Inv, (\E r \in Rec : ChangeRecord(r)) \/ ChangeSchema PROVE Inv'
<1>1. /\ UNCHANGED <<plan, frozen, runs, req, history>>
      /\ version' \in [Rec -> Nat]
      /\ \A r \in Rec : version[r] <= version'[r]
      /\ schema' \in Schema /\ changes' \in 0 .. MaxChanges
  BY ConstantsAssumption DEF Inv, TypeOK, ChangeRecord, ChangeSchema, Schema
<1>2. Grows BY <1>1, WriteGrows DEF history, written
<1>3. \A q \in Request : HandlerOK(q)' BY <1>1, <1>2, HandlerKept
<1>4. RowOK(plan)' BY <1>1, <1>2, PlanKept
<1>5. TypeOK' BY <1>1 DEF Inv, TypeOK, history, written
<1>6. QED
  BY <1>1, <1>3, <1>4, <1>5
  DEF Inv, history, written, DriftStopsExecution, ExecutingIsRunning, Executing

LEMMA CrashKeeps == ASSUME Inv, Crash PROVE Inv'
<1>1. \A q \in Request : req'[q].at = "idle" BY DEF Crash, Idle
<1>2. Grows
  <2>1. UNCHANGED <<plan, frozen, runs, version, canaried>>
    BY DEF Crash, world, written
  <2>2. version' \in [Rec -> Nat] /\ \A r \in Rec : version[r] <= version'[r]
    BY <2>1 DEF Inv, TypeOK
  <2>3. QED BY <1>1, <2>1, <2>2, WriteGrows
<1>3. \A q \in Request : HandlerOK(q)' BY <1>1 DEF HandlerOK, At
<1>4. RowOK(plan)' BY <1>2, PlanKept DEF Crash
<1>5. TypeOK'
  BY IdleType DEF Inv, TypeOK, Crash, world, written
<1>6. ExecutingIsRunning'
  BY DEF Inv, Crash, ExecutingIsRunning
<1>7. QED
  BY <1>3, <1>4, <1>5, <1>6 DEF Inv, Crash, written, DriftStopsExecution

LEMMA HandleKeeps ==
  ASSUME Inv, NEW q \in Request, Handle(q) PROVE Inv'
BY CheckKeeps, ValidateKeeps, BeginPreviewKeeps, FreezeRecordKeeps,
   RecordPreviewKeeps, RecordCanaryKeeps, BeginBatchKeeps, BatchRecordKeeps,
   VerifyCanaryKeeps, StartExecutionKeeps, BeginVerifyKeeps, VerifyRecordKeeps,
   BeginApplyKeeps, ApplyRecordKeeps, EndApplyKeeps, RecordOutcomeKeeps,
   CallFailsKeeps
   DEF Handle

LEMMA StutterKeeps == ASSUME Inv, UNCHANGED vars PROVE Inv'
<1>1. Grows BY WriteGrows DEF vars, Inv, TypeOK
<1>2. \A q \in Request : HandlerOK(q)' BY <1>1, HandlerKept DEF vars
<1>3. RowOK(plan)' BY <1>1, PlanKept DEF vars
<1>4. QED
  BY <1>2, <1>3
  DEF vars, Inv, TypeOK, DriftStopsExecution, ExecutingIsRunning, Executing

LEMMA NextKeeps == Inv /\ [Next]_vars => Inv'
BY OpenKeeps, HandleKeeps, EditKeeps, WorldKeeps, CrashKeeps, StutterKeeps
   DEF Next

LEMMA InvAlways == Spec => []Inv
BY InitInv, NextKeeps, PTL DEF Spec

-----------------------------------------------------------------------------
(* The canary of a plan that is served one request at a time *)

\* On the routes of a single record, the canary a handler may mark as verified
\* is the one it executes, and before it does so it has written a record.
Testing(q) ==
  /\ req[q].route # "test-batch"
  /\ req[q].route = "test-execute" /\ CanaryIsCurrent(plan, req[q].plan.rev) =>
       plan.canary.run = req[q].plan.canary.run
  /\ At(q, "verify") \/ At(q, "apply") => DOMAIN Items(q) # {}
  /\ At(q, "apply") /\ req[q].todo # DOMAIN Items(q) => PreviewRun(q) \in proven
  /\ At(q, "finish-canary") =>
       req[q].route = "test-execute" /\ PreviewRun(q) \in proven

TestInv == CanaryRan /\ \A q \in Request : ~At(q, "idle") => Testing(q)

\* The preview a handler checks or writes is frozen; one that has no record is
\* an empty sequence.
LEMMA NoItems ==
  ASSUME Inv, NEW q \in Request, ~At(q, "idle"),
         req[q].route \in {"execute", "test-execute"}, Items(q) # <<>>
  PROVE  DOMAIN Items(q) # {}
<1>1. Taken(PreviewRun(q))
  BY DEF Inv, HandlerOK, OnRoute, RowOK, ExecuteGate, TestGate, PreviewRun, Settled
<1>2. PICK f : f = Items(q) OBVIOUS
<1>3. f = [r \in DOMAIN f |-> f[r]] BY <1>1, <1>2 DEF Taken, Items
<1>4. f # <<>> BY <1>2
<1>5. DOMAIN f # {} BY <1>3, <1>4
<1>6. QED BY <1>2, <1>5

\* A handler that goes on with the row it read, while the plan's canary stays
\* or becomes verified, has kept what Testing says of the two.
LEMMA TestGoesOn ==
  ASSUME TestInv, NEW q \in Request, ~At(q, "idle"), plan \in PlanRow,
         req'[q].route = req[q].route, req'[q].plan = req[q].plan,
         plan'.rev = plan.rev,
         \/ plan'.canary = plan.canary
         \/ plan'.canary = [plan.canary EXCEPT !.verified = TRUE],
         plan.canary = None => plan'.canary = None,
         At(q, "verify")' \/ At(q, "apply")' => DOMAIN Items(q)' # {},
         At(q, "apply")' /\ req'[q].todo # DOMAIN Items(q)' =>
           PreviewRun(q)' \in proven',
         At(q, "finish-canary")' =>
           req[q].route = "test-execute" /\ PreviewRun(q)' \in proven'
  PROVE  Testing(q)'
<1>1. Testing(q) BY DEF TestInv
<1>2. CanaryIsCurrent(plan, req[q].plan.rev)' =>
        /\ CanaryIsCurrent(plan, req[q].plan.rev)
        /\ plan'.canary.run = plan.canary.run
  BY DEF CanaryIsCurrent, PlanRow, NoneOr
<1>3. QED BY <1>1, <1>2 DEF Testing, CanaryIsCurrent, At

\* The canary's run has written for good.
LEMMA RanKept ==
  ASSUME TestInv, proven \subseteq proven', plan'.canary = plan.canary
  PROVE  CanaryRan'
BY DEF TestInv, CanaryRan

LEMMA TestOpen ==
  ASSUME Inv, TestInv, NEW q \in Request, NEW route \in Routes, Open(q, route),
         "test-batch" \notin Routes
  PROVE  CanaryRan' /\ Testing(q)'
<1>1. PICK r \in TestRecords(route) :
        req' = [req EXCEPT ![q] = [Idle EXCEPT !.at = "check", !.route = route,
                                     !.plan = AsRead(plan), !.rec = r]]
  BY DEF Open
<1>2. /\ req'[q].at = "check" /\ req'[q].route = route
      /\ req'[q].plan = AsRead(plan)
  BY <1>1 DEF Idle, Inv, TypeOK
<1>3. AsRead(plan).canary = plan.canary
  BY DEF Inv, TypeOK, AsRead, PlanRow
<1>4. plan' = plan /\ proven' = proven /\ route # "test-batch"
  BY DEF Open, history, written
<1>5. CanaryRan' BY <1>4, RanKept
<1>6. Testing(q)' BY <1>2, <1>3, <1>4 DEF Testing, At
<1>7. QED BY <1>5, <1>6

LEMMA DoneMoves ==
  ASSUME Inv, NEW q \in Request, NEW r, Done(q, r)
  PROVE  /\ req'[q].at = req[q].at /\ req'[q].route = req[q].route
         /\ req'[q].plan = req[q].plan
BY DEF Inv, TypeOK, Handler, Done

LEMMA GotoMoves ==
  ASSUME Inv, NEW q \in Request, NEW s, Goto(q, s)
  PROVE  /\ req'[q].at = s /\ req'[q].route = req[q].route
         /\ req'[q].plan = req[q].plan
BY DEF Inv, TypeOK, Goto, Handler

LEMMA RespondMoves ==
  ASSUME Inv, NEW q \in Request, Respond(q) PROVE At(q, "idle")'
BY DEF Inv, TypeOK, Respond, Idle, At

\* Check, Validate, BeginPreview, FreezeRecord, StartExecution and BeginBatch:
\* the handler is at none of the stages Testing speaks of, before and after.
LEMMA TestEarly ==
  ASSUME Inv, TestInv, NEW q \in Request, ~At(q, "idle"),
         Check(q) \/ Validate(q) \/ BeginPreview(q) \/ FreezeRecord(q)
           \/ StartExecution(q) \/ BeginBatch(q)
  PROVE  CanaryRan' /\ (~At(q, "idle")' => Testing(q)')
<1>1. /\ plan \in PlanRow /\ plan'.canary = plan.canary /\ plan'.rev = plan.rev
      /\ proven' = proven
  BY DEF Inv, TypeOK, Check, Validate, BeginPreview, FreezeRecord, StartExecution,
         BeginBatch, SaveValidation, PlanRow, history, written
<1>2. CanaryRan' BY <1>1, RanKept
<1>3. CASE Respond(q) BY <1>2, <1>3, RespondMoves
<1>4. CASE ~Respond(q)
  <2>1. /\ req'[q].route = req[q].route /\ req'[q].plan = req[q].plan
        /\ req'[q].at \notin {"verify", "apply", "finish-canary"}
    <3>1. CASE Check(q)
      BY <1>4, <3>1 DEF Check, NextStage, Inv, TypeOK, Handler
    <3>2. CASE Validate(q)
      BY <1>4, <3>2, GotoMoves DEF Validate
    <3>3. CASE BeginPreview(q)
      BY <1>4, <3>3 DEF BeginPreview, Inv, TypeOK, Handler
    <3>4. CASE FreezeRecord(q)
      BY <1>4, <3>4, DoneMoves DEF FreezeRecord, At
    <3>5. CASE StartExecution(q)
      <4>1. Goto(q, "begin") BY <1>4, <3>5 DEF StartExecution
      <4>2. QED BY <4>1, GotoMoves
    <3>6. CASE BeginBatch(q)
      <4>1. PICK S : req' = [req EXCEPT ![q].at = "batch-run",
                                ![q].run = runs + 1, ![q].todo = S]
        BY <3>6 DEF BeginBatch
      <4>2. QED BY <4>1 DEF Inv, TypeOK, Handler
    <3>7. QED BY <3>1, <3>2, <3>3, <3>4, <3>5, <3>6
  <2>2. Testing(q)' BY <1>1, <2>1, TestGoesOn DEF At
  <2>3. QED BY <1>2, <2>2
<1>5. QED BY <1>3, <1>4

\* RecordPreview, RecordCanary, VerifyCanary and RecordOutcome: the request is
\* over, or no canary is involved.
LEMMA TestRecorded ==
  ASSUME Inv, TestInv, NEW q \in Request, ~At(q, "idle"),
         RecordPreview(q) \/ RecordCanary(q) \/ VerifyCanary(q)
           \/ RecordOutcome(q)
  PROVE  CanaryRan' /\ (~At(q, "idle")' => Testing(q)')
<1>1. plan \in PlanRow /\ Testing(q) /\ proven' = proven
  BY DEF Inv, TypeOK, TestInv, RecordPreview, RecordCanary, VerifyCanary,
         RecordOutcome, history, written
<1>2. CASE RecordPreview(q)
  <2>1. plan'.canary = plan.canary
    BY <1>1, <1>2 DEF RecordPreview, SavePreview, PlanRow
  <2>2. QED BY <1>1, <1>2, <2>1, RanKept, RespondMoves DEF RecordPreview
<1>3. CASE RecordCanary(q)
  <2>1. CanaryRan'
    BY <1>1, <1>3 DEF RecordCanary, SaveCanary, PlanRow, TestInv, CanaryRan
  <2>2. At(q, "idle")' BY <1>1, <1>3, RespondMoves DEF RecordCanary, Testing
  <2>3. QED BY <2>1, <2>2
<1>4. CASE VerifyCanary(q)
  <2>1. /\ req[q].route = "test-execute" /\ PreviewRun(q) \in proven
        /\ plan' = FinishCanary(plan, req[q].plan.rev)
    BY <1>1, <1>4 DEF VerifyCanary, Testing
  <2>2. CASE CanaryIsCurrent(plan, req[q].plan.rev)
    <3>1. plan.canary.run \in proven BY <1>1, <2>1, <2>2 DEF Testing, PreviewRun
    <3>2. plan'.canary.run = plan.canary.run
      BY <1>1, <2>1, <2>2 DEF FinishCanary, CanaryIsCurrent, PlanRow, NoneOr
    <3>3. QED BY <1>1, <1>4, <3>1, <3>2, RespondMoves DEF CanaryRan, VerifyCanary
  <2>3. CASE ~CanaryIsCurrent(plan, req[q].plan.rev)
    <3>1. plan'.canary = plan.canary BY <2>1, <2>3 DEF FinishCanary
    <3>2. QED BY <1>1, <1>4, <3>1, RanKept, RespondMoves DEF VerifyCanary
  <2>4. QED BY <2>2, <2>3
<1>5. CASE RecordOutcome(q)
  <2>1. plan'.canary = plan.canary /\ plan'.rev = plan.rev
    BY <1>1, <1>5 DEF RecordOutcome, FinishExecution, PlanRow
  <2>2. CanaryRan' BY <1>1, <2>1, RanKept
  <2>3. CASE Respond(q) BY <2>2, <2>3, RespondMoves
  <2>4. CASE Goto(q, "finish-failed")
    <3>1. Testing(q)' BY <1>1, <2>1, <2>4, GotoMoves, TestGoesOn DEF At
    <3>2. QED BY <2>2, <3>1
  <2>5. QED BY <1>5, <2>3, <2>4 DEF RecordOutcome
<1>6. QED BY <1>2, <1>3, <1>4, <1>5

\* BeginVerify, VerifyRecord, BeginApply, ApplyRecord and EndApply: a preview
\* that is executed holds a record, and to apply it is to write one.
LEMMA TestExecuted ==
  ASSUME Inv, TestInv, NEW q \in Request,
         BeginVerify(q) \/ VerifyRecord(q) \/ BeginApply(q) \/ ApplyRecord(q)
           \/ EndApply(q)
  PROVE  CanaryRan' /\ (~At(q, "idle")' => Testing(q)')
<1>1. /\ plan \in PlanRow /\ Testing(q) /\ OnRoute(q)
      /\ plan' = plan /\ frozen' = frozen /\ proven \subseteq proven'
      /\ req[q].route \in {"execute", "test-execute"} /\ ~At(q, "idle")
  BY DEF Inv, TypeOK, HandlerOK, OnRoute, StageOf, TestInv, BeginVerify,
         VerifyRecord, BeginApply, ApplyRecord, EndApply, At, history, written
<1>2. CanaryRan' BY <1>1, RanKept
<1>3. ASSUME req'[q].route = req[q].route, req'[q].plan = req[q].plan
      PROVE  Items(q)' = Items(q) /\ PreviewRun(q)' = PreviewRun(q)
  BY <1>1, <1>3 DEF Items, PreviewRun
<1>4. CASE Respond(q) BY <1>2, <1>4, RespondMoves
<1>5. CASE Goto(q, "finish-failed") \/ Goto(q, "finish-ok")
  <2>1. Testing(q)' BY <1>1, <1>5, GotoMoves, TestGoesOn DEF At
  <2>2. QED BY <1>2, <2>1
<1>6. CASE BeginVerify(q) /\ Items(q) # <<>>
  <2>1. req' = [req EXCEPT ![q].at = "verify", ![q].base = version,
                           ![q].todo = DOMAIN Items(q)]
    BY <1>6 DEF BeginVerify
  <2>2. /\ req'[q].at = "verify" /\ req'[q].route = req[q].route
        /\ req'[q].plan = req[q].plan
    BY <2>1 DEF Inv, TypeOK, Handler
  <2>3. DOMAIN Items(q)' # {} BY <1>1, <1>3, <1>6, <2>2, NoItems
  <2>4. Testing(q)' BY <1>1, <2>2, <2>3, TestGoesOn DEF At
  <2>5. QED BY <1>2, <2>4
<1>7. CASE VerifyRecord(q) /\ \E r \in req[q].todo : Done(q, r)
  <2>1. /\ req'[q].at = "verify" /\ req'[q].route = req[q].route
        /\ req'[q].plan = req[q].plan /\ At(q, "verify")
    BY <1>7, DoneMoves DEF VerifyRecord, At
  <2>2. DOMAIN Items(q)' # {} BY <1>1, <1>3, <2>1 DEF Testing
  <2>3. Testing(q)' BY <1>1, <2>1, <2>2, TestGoesOn DEF At
  <2>4. QED BY <1>2, <2>3
<1>8. CASE /\ BeginApply(q)
           /\ req' = [req EXCEPT ![q].at = "apply", ![q].run = runs + 1,
                                 ![q].todo = DOMAIN Items(q)]
  <2>1. /\ req'[q].at = "apply" /\ req'[q].route = req[q].route
        /\ req'[q].plan = req[q].plan /\ req'[q].todo = DOMAIN Items(q)
        /\ At(q, "verify")
    BY <1>8 DEF Inv, TypeOK, Handler, BeginApply
  <2>2. DOMAIN Items(q)' # {} /\ req'[q].todo = DOMAIN Items(q)'
    BY <1>1, <1>3, <2>1 DEF Testing
  <2>3. Testing(q)' BY <1>1, <2>1, <2>2, TestGoesOn DEF At
  <2>4. QED BY <1>2, <2>3
<1>9. CASE /\ ApplyRecord(q)
           /\ \E r \in req[q].todo : Done(q, r)
           /\ proven' = proven \cup {PreviewRun(q)}
  <2>1. /\ req'[q].at = "apply" /\ req'[q].route = req[q].route
        /\ req'[q].plan = req[q].plan /\ At(q, "apply")
    BY <1>9, DoneMoves DEF ApplyRecord, At
  <2>2. DOMAIN Items(q)' # {} /\ PreviewRun(q)' \in proven'
    BY <1>1, <1>3, <1>9, <2>1 DEF Testing
  <2>3. Testing(q)' BY <1>1, <2>1, <2>2, TestGoesOn DEF At
  <2>4. QED BY <1>2, <2>3
<1>10. CASE EndApply(q) /\ Goto(q, "finish-canary")
  <2>1. /\ req'[q].at = "finish-canary" /\ req'[q].route = req[q].route
        /\ req'[q].plan = req[q].plan
    BY <1>10, GotoMoves
  <2>2. At(q, "apply") /\ req[q].todo = {} /\ req[q].route = "test-execute"
    <3>1. At(q, "apply") /\ req[q].todo = {} BY <1>10 DEF EndApply
    <3>2. CASE req[q].route = "execute"
      <4>1. Goto(q, "finish-ok") BY <1>10, <3>2 DEF EndApply
      <4>2. req'[q].at = "finish-ok" BY <4>1, GotoMoves
      <4>3. QED BY <2>1, <4>2
    <3>3. QED BY <1>1, <3>1, <3>2
  <2>3. PreviewRun(q)' \in proven'
    BY <1>1, <1>3, <2>1, <2>2 DEF Testing, At
  <2>4. Testing(q)' BY <1>1, <2>1, <2>2, <2>3, TestGoesOn DEF At
  <2>5. QED BY <1>2, <2>4
<1>11. QED
  BY <1>4, <1>5, <1>6, <1>7, <1>8, <1>9, <1>10
  DEF BeginVerify, VerifyRecord, BeginApply, ApplyRecord, EndApply, Abort

\* A failing call ends the request, or sends an execution to the write of its
\* outcome.
LEMMA TestFails ==
  ASSUME Inv, TestInv, NEW q \in Request, CallFails(q)
  PROVE  CanaryRan' /\ (~At(q, "idle")' => Testing(q)')
<1>1. plan \in PlanRow /\ plan' = plan /\ proven' = proven /\ ~At(q, "idle")
  BY DEF Inv, TypeOK, CallFails, written
<1>2. CanaryRan' BY <1>1, RanKept
<1>3. CASE Respond(q) BY <1>2, <1>3, RespondMoves
<1>4. CASE Goto(q, "finish-failed")
  <2>1. Testing(q)' BY <1>1, <1>4, GotoMoves, TestGoesOn DEF At
  <2>2. QED BY <1>2, <2>1
<1>5. QED BY <1>3, <1>4 DEF CallFails, Abort

\* Users, vendors and the end of the process leave the row and what was
\* written alone; an edit takes the canary off the row.
LEMMA TestWorld ==
  ASSUME Inv, TestInv,
         Edit \/ (\E r \in Rec : ChangeRecord(r)) \/ ChangeSchema \/ Crash
           \/ UNCHANGED vars
  PROVE  TestInv'
<1>1. CASE Edit
  <2>1. plan'.canary = None BY <1>1 DEF Edit, Draft
  <2>2. CanaryRan' BY <2>1 DEF CanaryRan
  <2>3. UNCHANGED <<req, frozen, proven>> BY <1>1 DEF Edit, written
  <2>4. \A q \in Request : ~At(q, "idle")' => Testing(q)'
    BY <2>1, <2>3
    DEF TestInv, Testing, At, Items, PreviewRun, CanaryIsCurrent
  <2>5. QED BY <2>2, <2>4 DEF TestInv
<1>2. CASE Crash
  <2>1. \A q \in Request : At(q, "idle")' BY <1>2 DEF Crash, Idle, At
  <2>2. CanaryRan' BY <1>2, RanKept DEF Crash, written
  <2>3. QED BY <2>1, <2>2 DEF TestInv
<1>3. CASE (\E r \in Rec : ChangeRecord(r)) \/ ChangeSchema \/ UNCHANGED vars
  <2>1. UNCHANGED <<plan, req, frozen, proven>>
    BY <1>3 DEF ChangeRecord, ChangeSchema, vars, history, written
  <2>2. QED
    BY <2>1
    DEF TestInv, CanaryRan, Testing, At, Items, PreviewRun, CanaryIsCurrent
<1>4. QED BY <1>1, <1>2, <1>3

LEMMA TestNext ==
  ASSUME Inv, TestInv, NEW q, Request = {q}, "test-batch" \notin Routes,
         [Next]_vars
  PROVE  TestInv'
<1>1. CASE Handle(q)
  <2>1. ~BatchRecord(q)
    BY DEF BatchRecord, TestInv, Testing, Inv, HandlerOK, OnRoute, StageOf, At
  <2>2. ~At(q, "idle")
    BY <1>1 DEF Handle, Check, Validate, BeginPreview, FreezeRecord,
       RecordPreview, RecordCanary, BeginBatch, BatchRecord, VerifyCanary,
       StartExecution, BeginVerify, VerifyRecord, BeginApply, ApplyRecord,
       EndApply, RecordOutcome, CallFails, At
  <2>3. CanaryRan' /\ (~At(q, "idle")' => Testing(q)')
    BY <1>1, <2>1, <2>2, TestEarly, TestRecorded, TestExecuted,
       TestFails DEF Handle
  <2>4. QED BY <2>3 DEF TestInv
<1>2. CASE \E route \in Routes : Open(q, route)
  BY <1>2, TestOpen DEF TestInv
<1>3. QED BY <1>1, <1>2, TestWorld DEF Next

LEMMA TestInit == Init => TestInv
BY DEF Init, TestInv, CanaryRan, Draft, Idle, At

-----------------------------------------------------------------------------
(* The theorems *)

\* The plan, its handlers and the world keep their shapes, whatever requests
\* and edits of server.ts's plan routes interleave.
THEOREM TypeCorrect == Spec => []TypeOK
<1>1. Inv => TypeOK BY DEF Inv
<1>2. QED BY <1>1, InvAlways, PTL

\* The gates of /execute and startExecution() let a revision be executed only
\* after a canary of that revision has been recorded as verified.
THEOREM CanaryAlwaysFirst == Spec => []CanaryFirst
<1>1. Inv => CanaryFirst
  BY DEF Inv, HandlerOK, OnRoute, RowOK, ExecuteGate, CanaryFirst, Executing, At
<1>2. QED BY <1>1, InvAlways, PTL

\* What executePreview() carries out was frozen from the revision whose
\* execution was asked for.
THEOREM ExecutesWhatWasPreviewed == Spec => []ExecutesItsRevision
<1>1. Inv => ExecutesItsRevision
  BY DEF Inv, HandlerOK, OnRoute, RowOK, ExecuteGate, ExecutesItsRevision,
         Executing, PreviewRun, At
<1>2. QED BY <1>1, InvAlways, PTL

\* A plan whose status is 'executing' has a handler of /execute that works on
\* the revision shown, unless an execution ended without the write of its
\* outcome: its process died, the answer of startExecution() was lost outside
\* the route's try, or finishExecution() threw in its catch.
THEOREM ExecutingMeansRunning == Spec => []ExecutingIsRunning
<1>1. Inv => ExecutingIsRunning BY DEF Inv
<1>2. QED BY <1>1, InvAlways, PTL

\* An execution whose preview held a record that had drifted before it began
\* writes no record at all.
THEOREM DriftAlwaysStops == Spec => []DriftStopsExecution
<1>1. Inv => DriftStopsExecution BY DEF Inv
<1>2. QED BY <1>1, InvAlways, PTL

\* While a plan is tried out on single records and served one request at a
\* time, the canary it shows as verified has written a record: finishCanary()
\* comes after executePreview() on the run the row still names. With a batch,
\* or with a second preview meanwhile, it is not so.
THEOREM VerifiedCanaryRan ==
  ASSUME NEW q, Request = {q}, "test-batch" \notin Routes
  PROVE  Spec => []CanaryRan
<1>1. Inv /\ TestInv /\ [Next]_vars => TestInv' BY TestNext
<1>2. TestInv => CanaryRan BY DEF TestInv
<1>3. QED BY <1>1, <1>2, TestInit, InvAlways, PTL DEF Spec
=============================================================================
