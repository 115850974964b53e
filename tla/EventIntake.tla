---------------------------- MODULE EventIntake ----------------------------
(* The two doors through which a CRM reports changes by itself: the webhook   *)
(* routes (handleWebhook, the connectors' parseWebhook, typeResolver) and the *)
(* change-data-capture worker with its committed replay id. Both end in       *)
(* SyncEngine.enqueue, which inserts an event id once.                        *)
EXTENDS Naturals

CONSTANTS
  Process,       \* server processes, each with a worker and the routes
  MaxPublished,  \* bound: events in the stream
  MaxChanges,    \* bound: changes that are reported by webhook
  Stamped,       \* the sender of webhooks fills in occurredAt
  Shared,        \* the native object backs two canonical objects, 1 and 2
  MaxFaults      \* bound: disconnections, failed calls, lost replies

VARIABLES
  published,  \* the stream: envelopes 1 .. published are retained
  cursor,     \* webhook_cursors' replay id of the topic, 0: none
  queuedTo,   \* the replay ids among the event ids of sync_events
  worker,     \* per process: where consume() is, the envelope it is at
  changes,    \* changes made in the CRM, each with a webhook under way
  class,      \* which canonical object's conditions the record meets, 0: none
  exists,     \* the record can be read
  known,      \* objectTypeIds has the native object
  parsing,    \* per process: the change it parses, the type it resolved
  acked,      \* changes whose webhook was answered with 200
  dropped,    \* history: changes answered for which no event was made
  jobs,       \* the other rows of sync_events: [id, type, of]
  intakeFaults

streamVars == <<published, cursor, queuedTo, worker>>
hookVars   == <<changes, class, exists, known, parsing, acked, dropped, jobs>>
eventVars  == <<streamVars, hookVars, intakeFaults>>

NoWork == [at |-> "cursor", envelope |-> 0]
NoHook == [at |-> "idle", change |-> 0, type |-> 0]
Change == 1 .. MaxChanges
Types  == {1, 2}

Init ==
  /\ published = 0 /\ cursor = 0 /\ queuedTo = {}
  /\ worker = [p \in Process |-> NoWork]
  /\ changes = 0 /\ class = 1 /\ exists = TRUE /\ known \in BOOLEAN
  /\ parsing = [p \in Process |-> NoHook]
  /\ acked = {} /\ dropped = {} /\ jobs = {}
  /\ intakeFaults = 0

-----------------------------------------------------------------------------
(* SalesforceCdcWorker.consume() *)

Publish ==
  /\ published < MaxPublished
  /\ published' = published + 1
  /\ UNCHANGED <<cursor, queuedTo, worker, hookVars, intakeFaults>>

Subscribe(p) ==
  /\ worker[p].at = "cursor"
  /\ worker' = [worker EXCEPT ![p] = [at |-> "stream", envelope |-> cursor]]
  /\ UNCHANGED <<published, cursor, queuedTo, hookVars, intakeFaults>>

\* Mutant: the replay id is committed before the event is persisted.
CommitFirst(p) ==
  /\ cursor' = worker[p].envelope + 1
  /\ UNCHANGED queuedTo

\* enqueue(), its id made of the topic and the replay id
Persist(p) ==
  /\ queuedTo' = queuedTo \cup {worker[p].envelope + 1}
  /\ UNCHANGED cursor

Deliver(p) ==
  /\ worker[p].at = "stream" /\ worker[p].envelope < published
  /\ Persist(p)
  /\ worker' = [worker EXCEPT ![p] = [at |-> "persisted",
                                      envelope |-> @.envelope + 1]]
  /\ UNCHANGED <<published, hookVars, intakeFaults>>

Commit(p) ==
  /\ worker[p].at = "persisted"
  /\ cursor' = worker[p].envelope
  /\ worker' = [worker EXCEPT ![p].at = "stream"]
  /\ UNCHANGED <<published, queuedTo, hookVars, intakeFaults>>

\* The stream, the queue or the cursor store fails; or the process dies. The
\* loop begins again from the committed replay id.
Disconnect(p) ==
  /\ worker[p].at # "cursor" /\ intakeFaults < MaxFaults
  /\ intakeFaults' = intakeFaults + 1
  /\ worker' = [worker EXCEPT ![p] = NoWork]
  /\ UNCHANGED <<published, cursor, queuedTo, hookVars>>

-----------------------------------------------------------------------------
(* Webhooks *)

\* Somebody changes the record, and with it perhaps the field that the conditions
\* of its canonical objects look at.
ChangeRecord ==
  /\ changes < MaxChanges /\ exists
  /\ changes' = changes + 1
  /\ class' \in {0} \cup Types
  /\ exists' \in BOOLEAN
  /\ UNCHANGED <<streamVars, known, parsing, acked, dropped, jobs, intakeFaults>>

\* listObjects() extends the names that webhooks can be resolved by.
LearnObjects ==
  /\ ~known
  /\ known' = TRUE
  /\ UNCHANGED <<streamVars, changes, class, exists, parsing, acked, dropped, jobs,
                 intakeFaults>>

\* The vendor posts a change until it is answered; it may post it twice at once.
Post(p, n) ==
  /\ n <= changes /\ n \notin acked
  /\ parsing[p] = NoHook
  /\ parsing' = [parsing EXCEPT ![p] = [NoHook EXCEPT !.at = "parse", !.change = n]]
  /\ UNCHANGED <<streamVars, changes, class, exists, known, acked, dropped, jobs,
                 intakeFaults>>

\* What parseWebhook() makes of the change: the only candidate, or the first one
\* whose conditions the record meets; nothing if the object is not known, the
\* record cannot be read, or it meets none.
Resolved == IF ~known \/ (Shared /\ ~exists) THEN 0
            ELSE IF Shared THEN class ELSE 1

Parse(p) ==
  /\ parsing[p].at = "parse"
  /\ parsing' = [parsing EXCEPT ![p].at = "enqueue", ![p].type = Resolved]
  /\ UNCHANGED <<streamVars, changes, class, exists, known, acked, dropped, jobs,
                 intakeFaults>>

\* readNativeFields() of a connector that is not initialized, or that the vendor
\* refuses: the webhook is answered with an error.
ParseFails(p) ==
  /\ Shared /\ parsing[p].at = "parse" /\ intakeFaults < MaxFaults
  /\ intakeFaults' = intakeFaults + 1
  /\ parsing' = [parsing EXCEPT ![p] = NoHook]
  /\ UNCHANGED <<streamVars, changes, class, exists, known, acked, dropped, jobs>>

\* Mutant: the id of an event depends on the type it was resolved to.
EventIdOfType(n, type) == <<IF Stamped THEN n ELSE 0, type>>

\* The hash of the record, the kind of change and occurredAt
EventId(n, type) == <<IF Stamped THEN n ELSE 0, 0>>

Enqueue(n, type) ==
  IF \E j \in jobs : j.id = EventId(n, type)
    THEN UNCHANGED jobs
    ELSE jobs' = jobs \cup {[id |-> EventId(n, type), type |-> type, of |-> n]}

\* enqueue() and the answer; the vendor takes it, or the answer is lost.
Answer(p) ==
  LET n == parsing[p].change IN
  /\ parsing[p].at = "enqueue"
  /\ IF parsing[p].type = 0 THEN UNCHANGED jobs ELSE Enqueue(n, parsing[p].type)
  /\ \/ /\ acked' = acked \cup {n}
        /\ dropped' = IF parsing[p].type = 0 THEN dropped \cup {n} ELSE dropped
        /\ UNCHANGED intakeFaults
     \/ /\ intakeFaults < MaxFaults
        /\ intakeFaults' = intakeFaults + 1
        /\ UNCHANGED <<acked, dropped>>
  /\ parsing' = [parsing EXCEPT ![p] = NoHook]
  /\ UNCHANGED <<streamVars, changes, class, exists, known>>

-----------------------------------------------------------------------------
Consume(p) == Subscribe(p) \/ Deliver(p) \/ Commit(p) \/ Disconnect(p)

Hook(p) == \/ \E n \in Change : Post(p, n)
           \/ Parse(p) \/ ParseFails(p) \/ Answer(p)

Next == \/ Publish \/ ChangeRecord \/ LearnObjects
        \/ \E p \in Process : Consume(p) \/ Hook(p)

Spec == Init /\ [][Next]_eventVars

-----------------------------------------------------------------------------
TypeOK ==
  /\ published \in 0 .. MaxPublished /\ cursor \in 0 .. MaxPublished
  /\ queuedTo \subseteq 1 .. MaxPublished
  /\ worker \in [Process -> [at : {"cursor", "stream", "persisted"},
                             envelope : 0 .. MaxPublished]]
  /\ changes \in 0 .. MaxChanges /\ class \in {0} \cup Types
  /\ exists \in BOOLEAN /\ known \in BOOLEAN
  /\ parsing \in [Process -> [at : {"idle", "parse", "enqueue"},
                              change : {0} \cup Change, type : {0} \cup Types]]
  /\ acked \subseteq Change /\ dropped \subseteq Change
  /\ \A j \in jobs : j.type \in Types /\ j.of \in Change
  /\ intakeFaults \in 0 .. MaxFaults

\* "This worker persists an event before committing its Replay ID, giving
\* at-least-once delivery" (cdcWorker.ts:42-46): whatever workers disconnect or
\* overlap, no event at or before the committed replay id is missing.
StreamHasNoGap == \A n \in 1 .. cursor : n \in queuedTo

QueuedOnce(n) == \E j \in jobs : {k \in jobs : k.of = n} = {j}

\* A change that was acknowledged and not dropped was put on the queue exactly
\* once, although the vendor may post it again and the record may by then belong
\* to another canonical object -- if the sender says when it occurred.
JobPerChange ==
  Stamped => \A n \in acked \ dropped : QueuedOnce(n)

\* The same of a sender that leaves occurredAt out (see the README).
JobPerChangeUnstamped == \A n \in acked \ dropped : QueuedOnce(n)

\* "Custom-object webhooks resolve from the first event" (hubspotConnector.ts:96):
\* what is acknowledged while the record exists and meets a condition is queued.
NoneDropped == dropped = {} \/ ~exists \/ class = 0
=============================================================================
