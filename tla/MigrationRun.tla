---------------------------- MODULE MigrationRun ----------------------------
(* POST /api/migrate: the quota, then MigrationEngine.run() over the pages of  *)
(* one type, the run's row and items, and the usage that is counted once the   *)
(* run is over. What reconciling a record does is in Reconciler.               *)
EXTENDS Naturals, FiniteSets

CONSTANTS
  Request,     \* confirmed migration requests
  MaxRecords,  \* records 1 .. MaxRecords of the source, in the order of list()
  PerPage,     \* records per page
  Limits,      \* limitPerType a request may ask for, 0: none given
  PlanLimits,  \* limits.records_migrated of the subscription, 0: unmetered
  MaxFailures  \* bound: calls that fail

Index == 1 .. MaxRecords

VARIABLES
  planLimit,   \* the subscription
  usage,       \* usage_counters' records_migrated of the month
  counting,    \* incMigrated() calls whose statement has not run yet
  run,         \* per request: the locals of run(), and its row's status
  items,       \* per request: migration_items, record and action
  written,     \* history: request and record of each reconcile() that succeeded
  uncounted,   \* history: a quota was read before what was written is counted, or
               \* a failure keeps some of it from being counted
  failures

runVars == <<planLimit, usage, counting, run, items, written, uncounted, failures>>

NewRun == [at |-> "new", limit |-> 0, next |-> 1, last |-> 0, read |-> 0,
           reconciled |-> 0, errors |-> 0, ok |-> TRUE]

Init ==
  /\ planLimit \in PlanLimits
  /\ usage = 0 /\ counting = 0
  /\ run = [r \in Request |-> NewRun]
  /\ items = [r \in Request |-> {}]
  /\ written = {}
  /\ uncounted = FALSE /\ failures = 0

-----------------------------------------------------------------------------
At(r, l) == run[r].at = l

Running(r) == run[r].at \notin {"new", "completed", "failed", "refused"}

Smaller(m, n) == IF m < n THEN m ELSE n

\* Mutant: the quota is asked without the records the run may migrate.
AllowsAnyMore(limit) == usage <= planLimit

\* quota('records_migrated', limit): allowed: used + requested <= limit
Allows(limit) == usage + limit <= planLimit

\* A metered plan needs an explicit limit.
Begin(r) ==
  /\ At(r, "new")
  /\ \E limit \in Limits :
       IF planLimit = 0 \/ (limit # 0 /\ Allows(limit))
         THEN run' = [run EXCEPT ![r].at = "page", ![r].limit = limit]
         ELSE run' = [run EXCEPT ![r].at = "refused"]
  /\ uncounted' = (uncounted \/ counting > 0 \/ \E q \in Request : Running(q))
  /\ UNCHANGED <<planLimit, usage, counting, items, written, failures>>

\* source.list(type, cursor)
List(r) ==
  /\ At(r, "page")
  /\ run' = [run EXCEPT ![r].at = "record",
                        ![r].last = Smaller(run[r].next + PerPage - 1, MaxRecords)]
  /\ UNCHANGED <<planLimit, usage, counting, items, written, uncounted, failures>>

\* Mutant: one record more than the limit.
LimitPassed(r) == run[r].limit # 0 /\ run[r].read > run[r].limit

Limited(r) == run[r].limit # 0 /\ run[r].read >= run[r].limit

\* The next record of the page is counted ...
Take(r) ==
  /\ At(r, "record") /\ ~Limited(r) /\ run[r].next <= run[r].last
  /\ run' = [run EXCEPT ![r].at = "reconcile", ![r].read = @ + 1]
  /\ UNCHANGED <<planLimit, usage, counting, items, written, uncounted, failures>>

\* ... and reconciled: it may be ambiguous, or refused by the vendor.
Reconcile(r) ==
  /\ At(r, "reconcile")
  /\ \E ok \in BOOLEAN :
       /\ run' = [run EXCEPT ![r].at = "item", ![r].ok = ok]
       /\ written' = IF ok THEN written \cup {<<r, run[r].next>>} ELSE written
       /\ failures' = IF ok THEN failures ELSE failures + 1
  /\ failures' <= MaxFailures
  /\ UNCHANGED <<planLimit, usage, counting, items, uncounted>>

Item(r, action) == [record |-> run[r].next, action |-> action]

Counted(r, ok) ==
  run' = [run EXCEPT ![r].at = "record", ![r].next = @ + 1,
            ![r].reconciled = IF ok THEN @ + 1 ELSE @,
            ![r].errors     = IF ok THEN @ ELSE @ + 1]

\* recordPlan()
StoreItem(r) ==
  /\ At(r, "item")
  /\ items' = [items EXCEPT ![r] = @ \cup
                 {Item(r, IF run[r].ok THEN "planned" ELSE "error")}]
  /\ Counted(r, run[r].ok)
  /\ UNCHANGED <<planLimit, usage, counting, written, uncounted, failures>>

\* recordPlan() throws. After a success the catch block counts an error and
\* records the record as failed; within the catch block it ends the run.
StoreItemFails(r) ==
  /\ At(r, "item") /\ failures < MaxFailures
  /\ failures' = failures + 1
  /\ run' = IF run[r].ok THEN [run EXCEPT ![r].ok = FALSE]
            ELSE [run EXCEPT ![r].at = "failed"]
  /\ uncounted' = TRUE
  /\ UNCHANGED <<planLimit, usage, counting, items, written>>

\* The page is done: the next one, unless there is none or the limit is reached.
NextPage(r) ==
  /\ At(r, "record") /\ ~Limited(r)
  /\ run[r].next > run[r].last /\ run[r].last < MaxRecords
  /\ run' = [run EXCEPT ![r].at = "page"]
  /\ UNCHANGED <<planLimit, usage, counting, items, written, uncounted, failures>>

\* incMigrated() starts the statement and does not wait; complete().
Complete(r) ==
  /\ At(r, "record")
  /\ Limited(r) \/ (run[r].next > run[r].last /\ run[r].last >= MaxRecords)
  /\ counting' = counting + run[r].reconciled
  /\ run' = [run EXCEPT ![r].at = "completed"]
  /\ UNCHANGED <<planLimit, usage, items, written, uncounted, failures>>

\* list() throws: fail()
ListFails(r) ==
  /\ At(r, "page") /\ failures < MaxFailures
  /\ failures' = failures + 1
  /\ run' = [run EXCEPT ![r].at = "failed"]
  /\ uncounted' = TRUE
  /\ UNCHANGED <<planLimit, usage, counting, items, written>>

\* incrementUsage(): one atomic upsert
IncrementUsage ==
  /\ counting > 0
  /\ usage' = usage + counting
  /\ counting' = 0
  /\ UNCHANGED <<planLimit, run, items, written, uncounted, failures>>

Next == \/ IncrementUsage
        \/ \E r \in Request :
             \/ Begin(r) \/ List(r) \/ Take(r) \/ Reconcile(r) \/ StoreItem(r)
             \/ StoreItemFails(r) \/ NextPage(r) \/ Complete(r) \/ ListFails(r)

Spec == Init /\ [][Next]_runVars

-----------------------------------------------------------------------------
TypeOK ==
  /\ planLimit \in Nat /\ usage \in Nat /\ counting \in Nat
  /\ run \in [Request ->
       [at : {"new", "page", "record", "reconcile", "item", "completed", "failed",
              "refused"},
        limit : Nat, next : 1 .. MaxRecords + 1, last : Nat, read : Nat,
        reconciled : Nat, errors : Nat, ok : BOOLEAN]]
  /\ items \in [Request -> SUBSET [record : Index, action : {"planned", "error"}]]
  /\ written \subseteq Request \X Index
  /\ uncounted \in BOOLEAN /\ failures \in 0 .. MaxFailures

\* The subscription's limit holds: the records migrated in a month do not exceed
\* it, as long as no run begins before the last one was counted, and no call of
\* the store or the source fails in between.
QuotaHolds == planLimit # 0 /\ ~uncounted => Cardinality(written) <= planLimit

\* The same whenever runs overlap or fail halfway (see the README).
QuotaHoldsAlways == planLimit # 0 => Cardinality(written) <= planLimit

\* A completed run accounts for every record it read: one item for each, in the
\* order of the source, an error item for each error, whatever fails; and it has
\* read as many as the limit allows.
ReportAccounts ==
  \A r \in Request : At(r, "completed") =>
    /\ run[r].read = run[r].reconciled + run[r].errors
    /\ {i.record : i \in items[r]} = 1 .. run[r].read
    /\ Cardinality({i \in items[r] : i.action = "error"}) = run[r].errors
    /\ run[r].read = IF run[r].limit = 0 THEN MaxRecords
                     ELSE Smaller(run[r].limit, MaxRecords)

\* Nothing that was written is reported as an error (see the README).
ErrorsNotWritten ==
  \A r \in Request : At(r, "completed") =>
    Cardinality({w \in written : w[1] = r}) = run[r].reconciled
=============================================================================
