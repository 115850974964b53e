---------------------------- MODULE PlatformProofs ----------------------------
(* Theorems about the paced calls, the two doors for changes, polls, fields,  *)
(* associations, preflight reports, the conditions of mappings and confirmed  *)
(* migrations, for any number of calls, processes, requests and records, for  *)
(* pages and limits of any size. Each part has its own invariant, which the   *)
(* steps of the other parts leave alone.                                      *)
EXTENDS Platform, FiniteSetTheorems, WellFoundedInduction, TLAPS

-----------------------------------------------------------------------------
\* A step is a step of the topic, which stays what it is.
LEMMA StepOfTopic ==
  ASSUME Next
  PROVE  /\ topic' = topic
         /\ topic = "call" => Calls!Next
         /\ topic = "intake" => Intake!Next
         /\ topic = "associations" => Links!Next
         /\ topic = "preflight" => Preflight!RunPreflight
         /\ topic = "conditions" => Conditions!EditField
BY DEF Next, SettingsStep, SessionStep, CallsStep, IntakeStep, PollStep, RunStep,
   LinksStep, FieldStep, PreflightStep, ConditionsStep

-----------------------------------------------------------------------------
(* The calls of one HTTP client *)

CallEntry == [at : {"new", "queued", "sent", "backoff", "over"},
              of : {0, 1}, slot : Nat, due : Nat,
              crmRetryCount : 0 .. MaxRetries, repeats : 0 .. MaxRepeats]

\* The limiter of a client is past every slot that it gave to a request which
\* still waits or is under way ...
SlotsPast ==
  \A c \in Call :
    Calls!HasSlot(c) => call[c].slot + Interval <= nextAvailableAt[call[c].of]

\* ... which is what keeps the next slot clear of all of them.
CallInv == Calls!TypeOK /\ SlotsPast /\ Calls!SlotsSpaced

\* A slot: whatever call it is for, a new one, a retry or a repetition.
LEMMA SlotIsClear ==
  ASSUME CallInv, NEW c \in Call, NEW n \in {0, 1}, NEW entry \in CallEntry,
         Calls!Acquire(c, n, entry), time' = time, inits' = inits
  PROVE  CallInv'
<1> PICK at : at = Calls!Later(time, nextAvailableAt[n]) OBVIOUS
<1>1. /\ Interval \in Nat /\ MaxTime \in Nat /\ time \in Nat
      /\ nextAvailableAt \in [{0, 1} -> Nat] /\ call \in [Call -> CallEntry]
  BY PlatformAssumption DEF CallInv, Calls!TypeOK, CallEntry
<1>2. at \in Nat /\ nextAvailableAt[n] <= at BY <1>1 DEF Calls!Later
<1>3. /\ nextAvailableAt' = [nextAvailableAt EXCEPT ![n] = at + Interval]
      /\ call' = [call EXCEPT ![c] = [entry EXCEPT !.at = "queued", !.slot = at,
                                                   !.of = n, !.due = 0]]
  BY DEF Calls!Acquire, Calls!NextAfter
<1>4. /\ call'[c].at = "queued" /\ call'[c].slot = at /\ call'[c].of = n
      /\ \A d \in Call \ {c} : call'[d] = call[d]
  BY <1>1, <1>3 DEF CallEntry
<1>5. /\ nextAvailableAt'[n] = at + Interval
      /\ \A m \in {0, 1} : /\ nextAvailableAt'[m] \in Nat
                           /\ nextAvailableAt[m] <= nextAvailableAt'[m]
  BY <1>1, <1>2, <1>3
<1>6. \A d \in Call \ {c} : Calls!HasSlot(d)' =>
        /\ Calls!HasSlot(d) /\ call'[d] = call[d]
        /\ call[d].slot \in Nat /\ call[d].of \in {0, 1}
        /\ call[d].slot + Interval <= nextAvailableAt[call[d].of]
  BY <1>1, <1>4 DEF Calls!HasSlot, CallInv, SlotsPast, CallEntry
<1>7. Calls!TypeOK'
  <2>1. [entry EXCEPT !.at = "queued", !.slot = at, !.of = n, !.due = 0]
          \in CallEntry
    BY <1>2 DEF CallEntry
  <2>2. call' \in [Call -> CallEntry] BY <2>1, <1>1, <1>3
  <2>3. nextAvailableAt' \in [{0, 1} -> Nat] BY <1>1, <1>2, <1>3
  <2>4. QED BY <2>2, <2>3 DEF CallInv, Calls!TypeOK, CallEntry
<1>8. SlotsPast'
  <2> SUFFICES ASSUME NEW d \in Call, Calls!HasSlot(d)'
               PROVE  call'[d].slot + Interval <= nextAvailableAt'[call'[d].of]
    BY DEF SlotsPast
  <2>1. CASE d = c BY <2>1, <1>1, <1>2, <1>4, <1>5
  <2>2. CASE d # c BY <2>2, <1>1, <1>5, <1>6
  <2>3. QED BY <2>1, <2>2
<1>9. Calls!SlotsSpaced'
  <2>1. \A d \in Call \ {c} : Calls!HasSlot(d)' /\ call'[d].of = n =>
          call'[d].slot + Interval <= call'[c].slot
    BY <1>1, <1>2, <1>4, <1>6
  <2>2. QED BY <2>1, <1>4 DEF Calls!SlotsSpaced, Calls!HasSlot, CallInv
<1>10. QED BY <1>7, <1>8, <1>9 DEF CallInv

\* A step that gives no slot.
LEMMA NoSlotGiven ==
  ASSUME CallInv, Calls!TypeOK', nextAvailableAt' = nextAvailableAt,
         \A c \in Call : Calls!HasSlot(c)' =>
           /\ Calls!HasSlot(c)
           /\ call'[c].of = call[c].of /\ call'[c].slot = call[c].slot
  PROVE  CallInv'
<1>1. SlotsPast' BY DEF CallInv, SlotsPast
<1>2. Calls!SlotsSpaced' BY DEF CallInv, Calls!SlotsSpaced
<1>3. QED BY <1>1, <1>2 DEF CallInv

LEMMA CallsBegin == ASSUME Calls!Init PROVE CallInv
<1>1. Calls!TypeOK
  BY PlatformAssumption DEF Calls!Init, Calls!TypeOK, Calls!Unsent
<1>2. \A c \in Call : ~Calls!HasSlot(c)
  BY DEF Calls!Init, Calls!HasSlot, Calls!Unsent
<1>3. QED BY <1>1, <1>2 DEF CallInv, SlotsPast, Calls!SlotsSpaced

LEMMA CallsGoOn == ASSUME CallInv, Calls!Next PROVE CallInv'
<1>1. /\ call \in [Call -> CallEntry] /\ inits \in {0, 1}
      /\ MaxRepeats \in Nat /\ MaxRetries \in Nat /\ MaxTime \in Nat
      /\ Delays \subseteq Nat
  BY PlatformAssumption DEF CallInv, Calls!TypeOK, CallEntry
<1>2. ASSUME NEW c \in Call, Calls!Request(c) PROVE CallInv'
  BY <1>1, <1>2, SlotIsClear DEF Calls!Request
<1>3. ASSUME NEW c \in Call, Calls!Retry(c) PROVE CallInv'
  <2>1. call[c] \in CallEntry /\ call[c].of \in {0, 1} BY <1>1 DEF CallEntry
  <2>2. QED BY <1>3, <2>1, SlotIsClear DEF Calls!Retry
<1>4. ASSUME NEW c \in Call, Calls!Unauthorized(c) PROVE CallInv'
  <2>1. [call[c] EXCEPT !.repeats = @ + 1] \in CallEntry /\ call[c].of \in {0, 1}
    BY <1>1, <1>4 DEF CallEntry, Calls!Unauthorized
  <2>2. QED BY <1>4, <2>1, SlotIsClear DEF Calls!Unauthorized
<1>5. ASSUME NEW c \in Call, Calls!Send(c) PROVE CallInv'
  <2>1. Calls!TypeOK' BY <1>5 DEF Calls!Send, CallInv, Calls!TypeOK
  <2>2. QED BY <1>1, <1>5, <2>1, NoSlotGiven DEF Calls!Send, Calls!HasSlot, CallEntry
<1>6. ASSUME NEW c \in Call, Calls!Ends(c) PROVE CallInv'
  <2>1. Calls!TypeOK'
    BY <1>1, <1>6 DEF Calls!Ends, CallInv, Calls!TypeOK, Calls!Unsent
  <2>2. QED
    BY <1>1, <1>6, <2>1, NoSlotGiven DEF Calls!Ends, Calls!HasSlot, Calls!Unsent,
       CallEntry
<1>7. ASSUME NEW c \in Call, Calls!Throttled(c) PROVE CallInv'
  <2>1. PICK d \in Nat :
          call' = [call EXCEPT ![c].at = "backoff", ![c].due = time + d,
                               ![c].slot = 0, ![c].crmRetryCount = @ + 1]
    BY <1>1, <1>7 DEF Calls!Throttled
  <2>2. Calls!TypeOK'
    BY <1>1, <1>7, <2>1 DEF Calls!Throttled, CallInv, Calls!TypeOK
  <2>3. QED
    BY <1>1, <1>7, <2>1, <2>2, NoSlotGiven DEF Calls!Throttled, Calls!HasSlot,
       CallEntry
<1>8. CASE Calls!Reinit
  <2>1. Calls!TypeOK' BY <1>8 DEF Calls!Reinit, CallInv, Calls!TypeOK
  <2>2. QED BY <1>8, <2>1, NoSlotGiven DEF Calls!Reinit, Calls!HasSlot
<1>9. CASE Calls!Tick
  <2>1. Calls!TypeOK' BY <1>1, <1>9 DEF Calls!Tick, CallInv, Calls!TypeOK
  <2>2. QED BY <1>9, <2>1, NoSlotGiven DEF Calls!Tick, Calls!HasSlot
<1>10. QED
  BY <1>2, <1>3, <1>4, <1>5, <1>6, <1>7, <1>8, <1>9 DEF Calls!Next

\* "A burst cannot exceed the vendor's limit" (rateLimiter.ts:1-5): with any
\* number of calls, retries, repetitions and late timers, two requests of one
\* client that wait or are under way are an interval apart.
THEOREM SlotsAlwaysSpaced == Spec => []SlotsSpaced
<1> DEFINE Holds == topic = "call" => CallInv
<1>1. Init => Holds BY CallsBegin DEF Init
<1>2. Holds /\ [Next]_vars => Holds'
  <2>1. Holds /\ Next => Holds' BY CallsGoOn, StepOfTopic
  <2>2. Holds /\ UNCHANGED vars => Holds'
    BY DEF vars, callPart, CallInv, Calls!TypeOK, SlotsPast, Calls!SlotsSpaced,
       Calls!HasSlot
  <2>3. QED BY <2>1, <2>2
<1>3. Holds => SlotsSpaced BY DEF CallInv, SlotsSpaced
<1>4. QED BY <1>1, <1>2, <1>3, PTL DEF Spec

-----------------------------------------------------------------------------
(* The change-data-capture workers *)

\* What a worker has read of the stream since it subscribed is persisted, as is
\* all that was committed, by whichever worker.
StreamInv ==
  /\ cursor \in Nat
  /\ worker \in [Actor -> [at : {"cursor", "stream", "persisted"}, envelope : Nat]]
  /\ Intake!StreamHasNoGap
  /\ \A p \in Actor :
       worker[p].at # "cursor" => \A n \in 1 .. worker[p].envelope : n \in queuedTo

LEMMA StreamGoesOn == ASSUME StreamInv, Intake!Next PROVE StreamInv'
<1>1. ASSUME NEW p \in Actor, Intake!Subscribe(p) PROVE StreamInv'
  BY <1>1 DEF StreamInv, Intake!Subscribe, Intake!StreamHasNoGap
<1>2. ASSUME NEW p \in Actor, Intake!Deliver(p) PROVE StreamInv'
  <2>1. worker[p].envelope \in Nat BY DEF StreamInv
  <2>2. \A n \in 1 .. worker[p].envelope + 1 :
          n \in 1 .. worker[p].envelope \/ n = worker[p].envelope + 1
    BY <2>1
  <2>3. QED
    BY <1>2, <2>1, <2>2 DEF StreamInv, Intake!Deliver, Intake!Persist,
       Intake!StreamHasNoGap
<1>3. ASSUME NEW p \in Actor, Intake!Commit(p) PROVE StreamInv'
  BY <1>3 DEF StreamInv, Intake!Commit, Intake!StreamHasNoGap
<1>4. ASSUME NEW p \in Actor, Intake!Disconnect(p) PROVE StreamInv'
  BY <1>4 DEF StreamInv, Intake!Disconnect, Intake!NoWork, Intake!StreamHasNoGap
<1>5. CASE UNCHANGED <<cursor, queuedTo, worker>>
  BY <1>5 DEF StreamInv, Intake!StreamHasNoGap
<1>6. QED
  <2>1. CASE Intake!Publish \/ Intake!ChangeRecord \/ Intake!LearnObjects
    BY <1>5, <2>1 DEF Intake!Publish, Intake!ChangeRecord, Intake!LearnObjects,
       Intake!streamVars
  <2>2. ASSUME NEW p \in Actor, Intake!Hook(p) PROVE StreamInv'
    BY <1>5, <2>2 DEF Intake!Hook, Intake!Post, Intake!Parse, Intake!ParseFails,
       Intake!Answer, Intake!streamVars
  <2>3. QED BY <1>1, <1>2, <1>3, <1>4, <2>1, <2>2 DEF Intake!Next, Intake!Consume

\* "This worker persists an event before committing its Replay ID, giving
\* at-least-once delivery" (cdcWorker.ts:42-46): for any number of workers and a
\* stream of any length, however they disconnect and overlap, no event at or
\* before the committed replay id is missing from the queue.
THEOREM StreamNeverHasGap == Spec => []StreamHasNoGap
<1> DEFINE Holds == topic = "intake" => StreamInv
<1>1. Init => Holds
  BY DEF Init, Intake!Init, Intake!NoWork, StreamInv, Intake!StreamHasNoGap
<1>2. Holds /\ [Next]_vars => Holds'
  <2>1. Holds /\ Next => Holds' BY StreamGoesOn, StepOfTopic
  <2>2. Holds /\ UNCHANGED vars => Holds'
    BY DEF vars, intakePart, StreamInv, Intake!StreamHasNoGap
  <2>3. QED BY <2>1, <2>2
<1>3. Holds => StreamHasNoGap BY DEF StreamInv, StreamHasNoGap
<1>4. QED BY <1>1, <1>2, <1>3, PTL DEF Spec

-----------------------------------------------------------------------------
(* The webhooks *)

\* An id of the queue is the change it is of, and there is a row for each change
\* that was acknowledged and not dropped.
HookInv ==
  Stamped =>
    /\ \A j \in jobs : j.id = <<j.of, 0>>
    /\ \A j, k \in jobs : j.of = k.of => j = k
    /\ \A n \in acked \ dropped : \E j \in jobs : j.of = n

LEMMA HookGoesOn == ASSUME HookInv, Intake!Next PROVE HookInv'
<1>1. ASSUME NEW p \in Actor, Intake!Answer(p) PROVE HookInv'
  <2> SUFFICES ASSUME Stamped PROVE HookInv' BY DEF HookInv
  <2> PICK n : n = parsing[p].change OBVIOUS
  <2> PICK type : type = parsing[p].type OBVIOUS
  <2>1. CASE type = 0
    BY <1>1, <2>1 DEF HookInv, Intake!Answer
  <2>2. CASE type # 0 /\ \E j \in jobs : j.id = <<n, 0>>
    BY <1>1, <2>2 DEF HookInv, Intake!Answer, Intake!Enqueue, Intake!EventId
  <2>3. CASE type # 0 /\ ~ \E j \in jobs : j.id = <<n, 0>>
    <3> PICK job : job = [id |-> <<n, 0>>, type |-> type, of |-> n] OBVIOUS
    <3>1. jobs' = jobs \cup {job} /\ job.of = n /\ job.id = <<n, 0>>
      BY <1>1, <2>3 DEF Intake!Answer, Intake!Enqueue, Intake!EventId
    <3>2. \A j \in jobs : j.of # n BY <2>3 DEF HookInv
    <3>3. acked' \subseteq acked \cup {n} /\ dropped' = dropped
      BY <1>1, <2>3 DEF Intake!Answer
    <3>4. QED BY <3>1, <3>2, <3>3 DEF HookInv
  <2>4. QED BY <2>1, <2>2, <2>3
<1>2. CASE UNCHANGED <<jobs, acked, dropped>> BY <1>2 DEF HookInv
<1>3. QED
  <2>1. CASE Intake!Publish \/ Intake!ChangeRecord \/ Intake!LearnObjects
    BY <1>2, <2>1 DEF Intake!Publish, Intake!ChangeRecord, Intake!LearnObjects,
       Intake!hookVars
  <2>2. ASSUME NEW p \in Actor, Intake!Consume(p) PROVE HookInv'
    BY <1>2, <2>2 DEF Intake!Consume, Intake!Subscribe, Intake!Deliver,
       Intake!Commit, Intake!Disconnect, Intake!hookVars
  <2>3. ASSUME NEW p \in Actor, Intake!Hook(p) PROVE HookInv'
    BY <1>1, <1>2, <2>3 DEF Intake!Hook, Intake!Post, Intake!Parse,
       Intake!ParseFails
  <2>4. QED BY <2>1, <2>2, <2>3 DEF Intake!Next

\* A webhook's stamped change, acknowledged and not dropped, is on the queue
\* exactly once, for any number of changes and of posts of each, although the
\* record may move to another canonical object between two posts.
THEOREM JobAlwaysPerChange == Spec => []JobPerChange
<1> DEFINE Holds == topic = "intake" => HookInv
<1>1. Init => Holds BY DEF Init, Intake!Init, HookInv
<1>2. Holds /\ [Next]_vars => Holds'
  <2>1. Holds /\ Next => Holds' BY HookGoesOn, StepOfTopic
  <2>2. Holds /\ UNCHANGED vars => Holds' BY DEF vars, intakePart, HookInv
  <2>3. QED BY <2>1, <2>2
<1>3. Holds => JobPerChange
  <2>1. ASSUME HookInv, Stamped, NEW n \in acked \ dropped
        PROVE  Intake!QueuedOnce(n)
    <3>1. PICK j \in jobs : j.of = n BY <2>1 DEF HookInv
    <3>2. {k \in jobs : k.of = n} = {j} BY <2>1, <3>1 DEF HookInv
    <3>3. QED BY <3>1, <3>2 DEF Intake!QueuedOnce
  <2>2. HookInv => Intake!JobPerChange BY <2>1 DEF Intake!JobPerChange
  <2>3. QED BY <2>2 DEF JobPerChange
<1>4. QED BY <1>1, <1>2, <1>3, PTL DEF Spec

-----------------------------------------------------------------------------
(* The associations of one record *)

\* An association about to be recorded was made if it can be, and its parent is
\* linked.
LinksInv ==
  /\ DOMAIN syncing = Links!System
  /\ Links!RecordedIsMade
  /\ \A s \in Links!System :
       syncing[s].at = "record" =>
         /\ Links!CanHold(Links!Other(s))
              => <<Links!Other(s), syncing[s].now[1]>> \in made
         /\ syncing[s].now[1] \in linked

\* No step takes back what was made or linked, and none adds a lookup.
LEMMA LinksKept ==
  ASSUME LinksInv, links' = links, made \subseteq made', linked \subseteq linked',
         DOMAIN syncing' = Links!System, DOMAIN lookups' = DOMAIN lookups,
         \A s \in Links!System : syncing'[s].at = "record" =>
           syncing[s].at = "record" /\ syncing'[s].now = syncing[s].now
  PROVE  LinksInv'
BY DEF LinksInv, Links!RecordedIsMade, Links!CanHold

LEMMA LinksGoOn == ASSUME LinksInv, Links!Next PROVE LinksInv'
<1>1. ASSUME NEW s \in Links!System, Links!SyncRecord(s) PROVE LinksInv'
  BY <1>1, LinksKept DEF LinksInv, Links!SyncRecord, Links!Resting
<1>2. ASSUME NEW s \in Links!System, Links!Defer(s) PROVE LinksInv'
  BY <1>2, LinksKept DEF LinksInv, Links!Defer
<1>3. ASSUME NEW s \in Links!System, Links!Associate(s) PROVE LinksInv'
  <2>1. PICK a \in syncing[s].todo :
          /\ a[1] \in linked
          /\ made' = IF Links!CanHold(Links!Other(s))
                     THEN made \cup {<<Links!Other(s), a[1]>>} ELSE made
          /\ syncing' = [syncing EXCEPT ![s] = [at |-> "record", now |-> a,
                                               todo |-> @.todo \ {a}]]
    BY <1>3 DEF Links!Associate
  <2>2. linked' = linked /\ links' = links BY <1>3 DEF Links!Associate
  <2>3. DOMAIN lookups' = DOMAIN lookups
    BY <1>3 DEF Links!Associate, Links!AddRelated, Links!SetLookup
  <2>4. \A t : Links!CanHold(t)' <=> Links!CanHold(t) BY <2>3 DEF Links!CanHold
  <2>5. Links!RecordedIsMade'
    BY <2>1, <2>2, <2>4 DEF LinksInv, Links!RecordedIsMade
  <2>6. ASSUME NEW t \in Links!System, syncing'[t].at = "record"
        PROVE  /\ Links!CanHold(Links!Other(t))'
                    => <<Links!Other(t), syncing'[t].now[1]>> \in made'
               /\ syncing'[t].now[1] \in linked'
    BY <2>1, <2>2, <2>4, <2>6 DEF LinksInv, Links!Other
  <2>7. DOMAIN syncing' = Links!System BY <2>1 DEF LinksInv
  <2>8. QED BY <2>5, <2>6, <2>7 DEF LinksInv, Links!Other
<1>4. ASSUME NEW s \in Links!System, Links!SyncFails(s) PROVE LinksInv'
  BY <1>4, LinksKept DEF LinksInv, Links!SyncFails, Links!NoLink, Links!Resting
<1>5. ASSUME NEW s \in Links!System, Links!RecordLink(s) PROVE LinksInv'
  BY <1>5 DEF LinksInv, Links!RecordLink, Links!RecordedIsMade, Links!CanHold
<1>6. ASSUME NEW s \in Links!System, Links!Synced(s) PROVE LinksInv'
  BY <1>6, LinksKept DEF LinksInv, Links!Synced, Links!Resting
<1>7. CASE /\ UNCHANGED <<syncing, links, made>> /\ linked \subseteq linked'
           /\ DOMAIN lookups' = DOMAIN lookups
  BY <1>7 DEF LinksInv, Links!RecordedIsMade, Links!CanHold
<1>8. QED
  BY <1>1, <1>2, <1>3, <1>4, <1>5, <1>6, <1>7 DEF Links!Next, Links!EditRelated,
     Links!EditLookup, Links!LinkParent

\* A recorded link was made in the other CRM before, if that CRM has a relation to
\* the type, and the related record has a counterpart, for any number of records
\* and of failures.
THEOREM RecordedAlwaysMade == Spec => []RecordedIsMade
<1> DEFINE Holds == topic = "associations" => LinksInv
<1>1. Init => Holds
  BY DEF Init, Links!Init, Links!Resting, LinksInv, Links!RecordedIsMade
<1>2. Holds /\ [Next]_vars => Holds'
  <2>1. Holds /\ Next => Holds' BY LinksGoOn, StepOfTopic
  <2>2. Holds /\ UNCHANGED vars => Holds'
    BY DEF vars, associationsPart, LinksInv, Links!RecordedIsMade, Links!CanHold
  <2>3. QED BY <2>1, <2>2
<1>3. Holds => RecordedIsMade BY DEF LinksInv, RecordedIsMade
<1>4. QED BY <1>1, <1>2, <1>3, PTL DEF Spec

-----------------------------------------------------------------------------
(* The preflight report *)

\* A report is about the mapping and the schemas that the migration goes by.
ReportInv ==
  report = Preflight!NoReport \/
    report = [at |-> "done", issues |-> Preflight!Problems,
              ok |-> \A i \in Preflight!Problems : i.severity # "error"]

\* What an error of each kind is missing from.
LEMMA NoErrorMeansWritable ==
  ASSUME \A i \in Preflight!Problems : i.severity # "error",
         NEW r \in Preflight!WrittenRules
  PROVE  /\ Preflight!Has("target", r.native)
         /\ ~schema["target"][r.native].readOnly
         /\ \A q \in Preflight!Mismatched(r) :
              \/ \E t \in {q, r} : t.to = "set" /\ t.from = "set"
              \/ Preflight!Problem("warning", "FIELD_TYPE_MISMATCH", r.canonical)
                   \in Preflight!Problems
<1>1. r \in mapping.target /\ ~r.readOnly /\ ~r.dotted
  BY DEF Preflight!WrittenRules
<1>2. ASSUME NEW i \in Preflight!MissingProblems(r) \cup Preflight!ReadOnlyProblems(r)
                         \cup Preflight!TypeProblems(r)
      PROVE  i.severity # "error"
  <2>1. i \in Preflight!Problems BY <1>1, <1>2 DEF Preflight!Problems
  <2>2. QED BY <2>1
<1>3. Preflight!Has("target", r.native)
  <2> SUFFICES ASSUME ~Preflight!Has("target", r.native) PROVE FALSE OBVIOUS
  <2>1. Preflight!Problem("error", "TARGET_FIELD_MISSING", r.native)
          \in Preflight!MissingProblems(r)
    BY <1>1 DEF Preflight!MissingProblems
  <2>2. QED BY <1>2, <2>1 DEF Preflight!Problem
<1>4. ~schema["target"][r.native].readOnly
  <2> SUFFICES ASSUME schema["target"][r.native].readOnly PROVE FALSE OBVIOUS
  <2>1. Preflight!Problem("error", "TARGET_FIELD_READ_ONLY", r.native)
          \in Preflight!ReadOnlyProblems(r)
    BY <1>1, <1>3 DEF Preflight!ReadOnlyProblems
  <2>2. QED BY <1>2, <2>1 DEF Preflight!Problem
<1>5. ASSUME NEW q \in Preflight!Mismatched(r),
             ~ \E t \in {q, r} : t.to = "set" /\ t.from = "set"
      PROVE  Preflight!Problem("warning", "FIELD_TYPE_MISMATCH", r.canonical)
               \in Preflight!Problems
  <2> DEFINE severity == IF r.to # "unset" \/ r.from # "unset" THEN "warning" ELSE "error"
  <2>1. ~Preflight!Bidirectional(r) /\ ~Preflight!Bidirectional(q)
    BY <1>5 DEF Preflight!Bidirectional
  <2>2. Preflight!Problem(severity, "FIELD_TYPE_MISMATCH", r.canonical)
          \in Preflight!TypeProblems(r)
    BY <1>5, <2>1 DEF Preflight!TypeProblems, Preflight!Mismatched
  <2>3. severity # "error" BY <1>2, <2>2 DEF Preflight!Problem
  <2>4. severity = "warning" BY <2>3
  <2>5. QED BY <1>1, <2>2, <2>4 DEF Preflight!Problems
<1>6. QED BY <1>3, <1>4, <1>5

\* A passed preflight rules out a write of a field that the target lacks or keeps to
\* itself, and every mismatch of types has a two-way transform or a warning, for
\* any mapping and any pair of schemas.
THEOREM PassedAlwaysWritable == Spec => []PassedIsWritable
<1> DEFINE Holds == topic = "preflight" => ReportInv
<1>1. Init => Holds BY DEF Init, Preflight!InitCheck, ReportInv
<1>2. Holds /\ [Next]_vars => Holds'
  <2>1. ReportInv /\ Preflight!RunPreflight => ReportInv'
    <3>1. ASSUME Preflight!RunPreflight PROVE Preflight!Problems' = Preflight!Problems
      BY <3>1 DEF Preflight!RunPreflight, Preflight!Problems, Preflight!SourceProblems,
         Preflight!MissingProblems, Preflight!ReadOnlyProblems, Preflight!TypeProblems,
         Preflight!OptionProblems, Preflight!RequiredProblems, Preflight!KeyProblems,
         Preflight!Has, Preflight!SourceRuleOf
    <3>2. QED BY <3>1 DEF Preflight!RunPreflight, ReportInv
  <2>2. Holds /\ Next => Holds' BY <2>1, StepOfTopic
  <2>3. Holds /\ UNCHANGED vars => Holds'
    <3>1. ASSUME UNCHANGED vars
          PROVE  Preflight!Problems' = Preflight!Problems /\ report' = report
                 /\ topic' = topic
      BY <3>1 DEF vars, preflightPart, Preflight!Problems, Preflight!SourceProblems,
         Preflight!MissingProblems, Preflight!ReadOnlyProblems, Preflight!TypeProblems,
         Preflight!OptionProblems, Preflight!RequiredProblems, Preflight!KeyProblems,
         Preflight!Has, Preflight!SourceRuleOf
    <3>2. QED BY <3>1 DEF ReportInv
  <2>4. QED BY <2>2, <2>3
<1>3. Holds => PassedIsWritable
  <2>1. ASSUME ReportInv, report # Preflight!NoReport, report.ok
        PROVE  \A i \in Preflight!Problems : i.severity # "error"
    BY <2>1 DEF ReportInv
  <2>2. ASSUME ReportInv, report # Preflight!NoReport
        PROVE  report.issues = Preflight!Problems
    BY <2>2 DEF ReportInv
  <2>3. QED
    BY <2>1, <2>2, NoErrorMeansWritable DEF PassedIsWritable, Preflight!PassedIsWritable
<1>4. QED BY <1>1, <1>2, <1>3, PTL DEF Spec

-----------------------------------------------------------------------------
(* The conditions that share a native object out *)

\* Conditions that no edit of a record changes
ConditionsInv ==
  \A t \in Conditions!Sibling : \A c \in conditions[t] :
    /\ c.operator \in {"eq", "ne", "gt", "lt", "contains", "is_null", "is_not_null"}
    /\ c.than.number \in Nat
    /\ c.operator = "contains" => c.than.letters # {}

LEMMA ConditionsBegin == ASSUME Conditions!InitConditions PROVE ConditionsInv
<1>1. \A v \in Conditions!Numbers : v.number \in Nat
  BY PlatformAssumption DEF Conditions!Numbers, Conditions!FieldValue
<1>2. \A v \in Conditions!Texts : v.number = 0 /\ v.letters # {}
  BY DEF Conditions!Texts, Conditions!FieldValue
<1>3. \A ops, values : \A C \in Conditions!Conditions(ops, values) : \A c \in C :
        c.operator \in ops /\ c.than \in values
  BY DEF Conditions!Conditions
<1>4. CASE conditions \in [Conditions!Sibling -> Conditions!Conditions(
             {"eq", "ne", "gt", "lt", "is_null", "is_not_null"}, Conditions!Numbers)]
  BY <1>1, <1>3, <1>4 DEF ConditionsInv
<1>5. CASE conditions \in [Conditions!Sibling -> Conditions!Conditions(
             {"eq", "ne", "contains", "is_null", "is_not_null"}, Conditions!Texts)]
  BY <1>2, <1>3, <1>5 DEF ConditionsInv
<1>6. QED BY <1>4, <1>5 DEF Conditions!InitConditions

\* The first of a non-empty set of siblings
LEMMA SomeSiblingIsFirst ==
  ASSUME NEW S \in SUBSET Conditions!Sibling, S # {}
  PROVE  \E t \in S : \A u \in S : t <= u
<1>1. S \subseteq Nat BY DEF Conditions!Sibling
<1>2. PICK t \in S : \A u \in S : <<u, t>> \notin OpToRel(<, Nat)
  BY <1>1, NatLessThanWellFounded, WFMin
<1>3. \A m, n \in Nat : m < n => <<m, n>> \in OpToRel(<, Nat) BY DEF OpToRel
<1>4. t \in S /\ \A u \in S : t \in Nat /\ u \in Nat /\ ~(u < t)
  BY <1>1, <1>2, <1>3, Zenon
<1>5. \A m, n \in Nat : ~(n < m) => m <= n OBVIOUS
<1>6. QED BY <1>4, <1>5

\* Resolver and poll agree on each condition, but for "less than" of a blank.
LEMMA ConditionsAgree ==
  ASSUME ConditionsInv, ~Conditions!OrderOfBlank,
         NEW t \in Conditions!Sibling, NEW c \in conditions[t]
  PROVE  Conditions!Evaluated(c, value) <=> Conditions!Selected(c, value)
<1>1. /\ c.operator \in {"eq", "ne", "gt", "lt", "contains", "is_null", "is_not_null"}
      /\ c.than.number \in Nat
      /\ c.operator = "contains" => c.than.letters # {}
  BY DEF ConditionsInv
<1>2. value = Conditions!Blank =>
        value.number = 0 /\ value.letters = {} /\ c.operator # "lt"
  BY DEF Conditions!Blank, Conditions!OrderOfBlank
<1>3. CASE c.operator \in {"is_null", "is_not_null"}
  BY <1>3 DEF Conditions!Evaluated, Conditions!Selected
<1>4. CASE c.operator \in {"eq", "ne"}
  BY <1>4 DEF Conditions!Evaluated, Conditions!Selected, Conditions!SameText
<1>5. CASE c.operator \in {"gt", "lt"}
  BY <1>1, <1>2, <1>5 DEF Conditions!Evaluated, Conditions!Selected
<1>6. CASE c.operator = "contains"
  BY <1>1, <1>2, <1>6 DEF Conditions!Evaluated, Conditions!Selected
<1>7. QED BY <1>1, <1>3, <1>4, <1>5, <1>6

\* A webhook's record is resolved to a canonical object whose poll lists it, and
\* one that a single poll lists is resolved to that object (resolveCanonicalType(),
\* compileConditionSoql()): for any number of objects, conditions and values.
THEOREM AlwaysResolvedAsPolled == Spec => []ResolvedAsPolled
<1> DEFINE Holds == topic = "conditions" => ConditionsInv
<1>1. Init => Holds BY ConditionsBegin DEF Init
<1>2. Holds /\ [Next]_vars => Holds'
  <2>1. Holds /\ Next => Holds'
    BY StepOfTopic DEF Conditions!EditField, ConditionsInv
  <2>2. Holds /\ UNCHANGED vars => Holds'
    BY DEF vars, conditionsPart, ConditionsInv
  <2>3. QED BY <2>1, <2>2
<1>3. Holds => ResolvedAsPolled
  <2> SUFFICES ASSUME ConditionsInv, Conditions!Distinguished,
                      ~Conditions!OrderOfBlank, rawSoql = {}, Siblings > 1
               PROVE  Conditions!ByAnyWay
    BY DEF ResolvedAsPolled, Conditions!ResolvedAsPolled
  <2> DEFINE meeting == {t \in Conditions!Sibling :
                           \A c \in conditions[t] : Conditions!Evaluated(c, value)}
             polledBy == {t \in Conditions!Sibling : Conditions!Polled(t)}
  <2>1. meeting = polledBy BY ConditionsAgree DEF Conditions!Polled
  <2>2. meeting # {} => Conditions!ResolvedType \in meeting
    <3>1. ASSUME meeting # {} PROVE \E t \in meeting : \A u \in meeting : t <= u
      BY <3>1, SomeSiblingIsFirst
    <3>2. ~(\A t \in Conditions!Sibling : conditions[t] = {}) /\ Siblings # 1
      BY DEF Conditions!Distinguished
    <3>3. meeting # {} => Conditions!ResolvedType =
                            CHOOSE t \in meeting : \A u \in meeting : t <= u
      BY <3>2 DEF Conditions!ResolvedType
    <3>4. QED BY <3>1, <3>3
  <2>3. meeting = {} => Conditions!ResolvedType = 0
    BY DEF Conditions!ResolvedType
  <2>4. Conditions!Cardinality(polledBy) = 1 => polledBy # {}
    <3>1. Conditions!Cardinality({}) = Cardinality({})
      BY DEF Conditions!Cardinality, Cardinality
    <3>2. QED BY <3>1, FS_EmptySet
  <2>5. QED BY <2>1, <2>2, <2>3, <2>4 DEF Conditions!ByAnyWay
<1>4. QED BY <1>1, <1>2, <1>3, PTL DEF Spec

-----------------------------------------------------------------------------
(* Confirmed migrations *)

RunShape ==
  [at : {"new", "page", "record", "reconcile", "item", "completed", "failed",
         "refused"},
   limit : Nat, next : Nat, last : Nat, read : Nat,
   reconciled : Nat, errors : Nat, ok : BOOLEAN]

RunsShape ==
  /\ planLimit \in Nat /\ usage \in Nat /\ counting \in Nat
  /\ run \in [Actor -> RunShape]
  /\ items \in [Actor -> SUBSET [record : Nat, action : {"planned", "error"}]]
  /\ IsFiniteSet(written)

ErrorItems(r) == {i \in items[r] : i.action = "error"}

\* A run has counted the records it has passed, and the one it is at.
Passed(u) ==
  /\ u.at = "new" => u.next = 1 /\ u.last = 0
  /\ u.next = u.reconciled + u.errors + 1
  /\ u.read = u.next - (IF u.at \in {"reconcile", "item"} THEN 0 ELSE 1)
  /\ u.limit = 0 \/ u.read <= u.limit
  /\ u.last <= MaxRecords /\ u.next <= u.last + 1
  /\ u.at \in {"reconcile", "item"} => u.next <= u.last
  /\ u.at = "completed" =>
       (u.limit # 0 /\ u.read = u.limit) \/ u.read = MaxRecords

\* Each record it has passed has its item, each error an error item.
Itemized(r) ==
  /\ {i.record : i \in items[r]} = 1 .. (run[r].next - 1)
  /\ IsFiniteSet(ErrorItems(r))
  /\ Cardinality(ErrorItems(r)) = run[r].errors

RunInv ==
  /\ RunsShape
  /\ \A r \in Actor : run[r].at \notin {"failed", "refused"} =>
                        Passed(run[r]) /\ Itemized(r)

\* Runs that do not overlap: what is written is counted, or is about to be, or
\* is within what the run that writes it was allowed.
Written(r) ==
  usage + run[r].reconciled
        + (IF run[r].at = "item" /\ run[r].ok THEN 1 ELSE 0)

Alone ==
  /\ \A q, r \in Actor : Run!Running(q) /\ Run!Running(r) => q = r
  /\ \A r \in Actor : Run!Running(r) =>
       /\ counting = 0 /\ run[r].limit # 0
       /\ usage + run[r].limit <= planLimit
       /\ Cardinality(written) <= Written(r)
  /\ (\A r \in Actor : ~Run!Running(r)) =>
       /\ Cardinality(written) <= usage + counting
       /\ usage + counting <= planLimit

Within == planLimit # 0 /\ ~uncounted => Alone

-----------------------------------------------------------------------------
(* Cardinalities: Run has operators of its own by that name. *)

LEMMA SameCardinality ==
  ASSUME NEW S
  PROVE  Run!Cardinality(S) = Cardinality(S)
BY DEF Run!Cardinality, Cardinality

-----------------------------------------------------------------------------
(* Each record accounted for *)

\* A step of one run
LEMMA OneRunGoesOn ==
  ASSUME RunInv, NEW r \in Actor, NEW u \in RunShape, RunsShape',
         run' = [run EXCEPT ![r] = u],
         \A q \in Actor \ {r} : items'[q] = items[q],
         u.at \notin {"failed", "refused"} => Passed(u) /\ Itemized(r)'
  PROVE  RunInv'
<1>1. run'[r] = u /\ \A q \in Actor \ {r} : run'[q] = run[q]
  BY DEF RunInv, RunsShape
<1>2. \A q \in Actor \ {r} : Itemized(q)' <=> Itemized(q)
  BY <1>1 DEF Itemized, ErrorItems
<1>3. QED BY <1>1, <1>2 DEF RunInv

\* A step of one run that stores nothing
LEMMA NoItemStored ==
  ASSUME RunInv, NEW r \in Actor, NEW u \in RunShape,
         planLimit' = planLimit, usage' = usage, counting' \in Nat,
         IsFiniteSet(written'), items' = items, run' = [run EXCEPT ![r] = u],
         u.next = run[r].next, u.errors = run[r].errors,
         u.at \notin {"failed", "refused"} =>
           run[r].at \notin {"failed", "refused"} /\ Passed(u)
  PROVE  RunInv'
<1>1. RunsShape' BY DEF RunInv, RunsShape
<1>2. run'[r] = u BY DEF RunInv, RunsShape
<1>3. Itemized(r)' <=> Itemized(r) BY <1>2 DEF Itemized, ErrorItems
<1>4. QED BY <1>1, <1>3, OneRunGoesOn DEF RunInv

LEMMA RunsBegin == ASSUME Run!Init PROVE RunInv
<1>1. planLimit \in Nat BY PlatformAssumption DEF Run!Init
<1>2. Run!NewRun \in RunShape /\ Passed(Run!NewRun)
  BY PlatformAssumption DEF Run!NewRun, RunShape, Passed
<1>3. RunsShape BY <1>1, <1>2, FS_EmptySet DEF Run!Init, RunsShape
<1>4. \A r \in Actor : Itemized(r)
  <2> SUFFICES ASSUME NEW r \in Actor PROVE Itemized(r) OBVIOUS
  <2>1. items[r] = {} /\ run[r].next = 1 /\ run[r].errors = 0
    BY DEF Run!Init, Run!NewRun
  <2>2. ErrorItems(r) = {} BY <2>1 DEF ErrorItems
  <2>3. QED BY <2>1, <2>2, FS_EmptySet DEF Itemized
<1>5. QED BY <1>2, <1>3, <1>4 DEF RunInv, Run!Init

LEMMA StoredItemCounts ==
  ASSUME RunInv, NEW r \in Actor, Run!StoreItem(r)
  PROVE  RunInv'
<1> DEFINE n == run[r].next
           action == IF run[r].ok THEN "planned" ELSE "error"
           i == [record |-> n, action |-> action]
           u == run'[r]
<1>1. run \in [Actor -> RunShape] /\ run[r] \in RunShape /\ run[r].at = "item"
  BY DEF RunInv, RunsShape, Run!StoreItem, Run!At
<1>2. /\ run' = [run EXCEPT ![r] = u] /\ u \in RunShape /\ u.at = "record"
      /\ u.next = n + 1
      /\ u.reconciled = run[r].reconciled + (IF run[r].ok THEN 1 ELSE 0)
      /\ u.errors = run[r].errors + (IF run[r].ok THEN 0 ELSE 1)
      /\ u.last = run[r].last /\ u.read = run[r].read /\ u.limit = run[r].limit
  BY <1>1 DEF Run!StoreItem, Run!Counted, RunShape
<1>3. /\ items' = [items EXCEPT ![r] = items[r] \cup {i}]
      /\ items[r] \subseteq [record : Nat, action : {"planned", "error"}]
      /\ i \in [record : Nat, action : {"planned", "error"}]
  BY <1>1 DEF Run!StoreItem, Run!Item, RunInv, RunsShape, RunShape
<1>4. Passed(run[r]) /\ Itemized(r) BY <1>1 DEF RunInv
<1>5. Passed(u) BY <1>1, <1>2, <1>4 DEF Passed, RunShape
<1>6. RunsShape' BY <1>2, <1>3 DEF RunInv, RunsShape, Run!StoreItem
<1>7. items'[r] = items[r] \cup {i} BY <1>3 DEF RunInv, RunsShape
<1>8. {j.record : j \in items'[r]} = 1 .. (u.next - 1)
  <2>1. {j.record : j \in items'[r]} = {j.record : j \in items[r]} \cup {n}
    <3>1. i.record = n OBVIOUS
    <3> HIDE DEF i
    <3>2. QED BY <3>1, <1>7
  <2>2. n \in Nat /\ n >= 1 BY <1>1, <1>4 DEF Passed, RunShape
  <2>3. QED BY <2>1, <2>2, <1>2, <1>4 DEF Itemized
<1>9. IsFiniteSet(ErrorItems(r)') /\ Cardinality(ErrorItems(r)') = u.errors
  <2>1. CASE run[r].ok
    <3>1. ErrorItems(r)' = ErrorItems(r) BY <2>1, <1>7 DEF ErrorItems
    <3>2. QED BY <3>1, <2>1, <1>1, <1>2, <1>4 DEF Itemized, RunShape
  <2>2. CASE ~run[r].ok
    <3>1. ErrorItems(r)' = ErrorItems(r) \cup {i} BY <2>2, <1>7 DEF ErrorItems
    <3>2. i \notin ErrorItems(r)
      <4>1. n \notin {j.record : j \in items[r]}
        BY <1>1, <1>4 DEF Itemized, RunShape
      <4>2. QED BY <4>1 DEF ErrorItems
    <3>3. /\ IsFiniteSet(ErrorItems(r) \cup {i})
          /\ Cardinality(ErrorItems(r) \cup {i}) = Cardinality(ErrorItems(r)) + 1
      BY <3>2, <1>4, FS_AddElement DEF Itemized
    <3>4. QED BY <3>1, <3>3, <2>2, <1>1, <1>2, <1>4 DEF Itemized
  <2>3. QED BY <2>1, <2>2
<1>10. Itemized(r)' BY <1>8, <1>9 DEF Itemized
<1>11. \A q \in Actor \ {r} : items'[q] = items[q] BY <1>3 DEF RunInv, RunsShape
<1>12. QED BY <1>2, <1>5, <1>6, <1>10, <1>11, OneRunGoesOn

LEMMA RunsGoOn == ASSUME RunInv, Run!Next PROVE RunInv'
<1>1. /\ run \in [Actor -> RunShape] /\ IsFiniteSet(written)
      /\ planLimit \in Nat /\ usage \in Nat /\ counting \in Nat
      /\ MaxRecords \in Nat /\ PerPage \in Nat \ {0} /\ Limits \subseteq Nat
  BY PlatformAssumption DEF RunInv, RunsShape
<1>2. \A r \in Actor : run[r].at \notin {"failed", "refused"} => Passed(run[r])
  BY DEF RunInv
<1>3. CASE Run!IncrementUsage
  <2>1. RunsShape' BY <1>3 DEF Run!IncrementUsage, RunInv, RunsShape
  <2>2. \A r \in Actor : Itemized(r)' <=> Itemized(r)
    BY <1>3 DEF Run!IncrementUsage, Itemized, ErrorItems
  <2>3. QED BY <1>3, <2>1, <2>2 DEF Run!IncrementUsage, RunInv
<1>4. ASSUME NEW r \in Actor, Run!Begin(r) PROVE RunInv'
  <2>1. CASE run' = [run EXCEPT ![r].at = "refused"]
    <3> DEFINE u == [run[r] EXCEPT !.at = "refused"]
    <3>1. u \in RunShape BY <1>1 DEF RunShape
    <3>2. /\ run' = [run EXCEPT ![r] = u] /\ u.at = "refused"
          /\ u.next = run[r].next /\ u.errors = run[r].errors
      BY <2>1, <1>1 DEF RunShape
    <3> HIDE DEF u
    <3>3. QED BY <1>1, <1>4, <3>1, <3>2, NoItemStored DEF Run!Begin
  <2>2. ASSUME NEW limit \in Limits,
               run' = [run EXCEPT ![r].at = "page", ![r].limit = limit]
        PROVE  RunInv'
    <3> DEFINE u == [run[r] EXCEPT !.at = "page", !.limit = limit]
    <3>1. u \in RunShape BY <1>1 DEF RunShape
    <3>2. run' = [run EXCEPT ![r] = u] BY <2>2, <1>1 DEF RunShape
    <3>3. /\ u.next = run[r].next /\ u.errors = run[r].errors /\ u.at = "page"
          /\ Passed(u)
      BY <1>1, <1>2, <1>4 DEF Run!Begin, Run!At, RunShape, Passed
    <3>4. run[r].at \notin {"failed", "refused"} BY <1>4 DEF Run!Begin, Run!At
    <3> HIDE DEF u
    <3>5. QED BY <1>1, <1>4, <3>1, <3>2, <3>3, <3>4, NoItemStored DEF Run!Begin
  <2>3. QED BY <2>1, <2>2, <1>4 DEF Run!Begin
<1>5. ASSUME NEW r \in Actor, Run!List(r) PROVE RunInv'
  <2> DEFINE l == Run!Smaller(run[r].next + PerPage - 1, MaxRecords)
             u == [run[r] EXCEPT !.at = "record", !.last = l]
  <2>1. /\ l \in Nat /\ l <= MaxRecords
        /\ run[r].last <= MaxRecords => run[r].next <= l + 1 \/ run[r].next > MaxRecords
    BY <1>1 DEF Run!Smaller, RunShape
  <2>2. Passed(run[r]) /\ run[r].at = "page" BY <1>2, <1>5 DEF Run!List, Run!At
  <2>3. run[r].next <= l + 1
    BY <1>1, <2>1, <2>2 DEF Run!Smaller, RunShape, Passed
  <2>4. u \in RunShape /\ run' = [run EXCEPT ![r] = u]
    BY <1>1, <1>5, <2>1 DEF Run!List, RunShape
  <2>5. /\ u.next = run[r].next /\ u.errors = run[r].errors /\ u.at = "record"
        /\ Passed(u)
    BY <1>1, <2>1, <2>2, <2>3 DEF RunShape, Passed
  <2> HIDE DEF u
  <2>6. QED BY <1>1, <1>5, <2>2, <2>4, <2>5, NoItemStored DEF Run!List
<1>6. ASSUME NEW r \in Actor, Run!Take(r) PROVE RunInv'
  <2> DEFINE u == [run[r] EXCEPT !.at = "reconcile", !.read = @ + 1]
  <2>1. Passed(run[r]) /\ run[r].at = "record" BY <1>2, <1>6 DEF Run!Take, Run!At
  <2>2. u \in RunShape /\ run' = [run EXCEPT ![r] = u]
    BY <1>1, <1>6 DEF Run!Take, RunShape
  <2>3. /\ u.next = run[r].next /\ u.errors = run[r].errors /\ u.at = "reconcile"
        /\ Passed(u)
    BY <1>1, <1>6, <2>1 DEF Run!Take, Run!Limited, RunShape, Passed
  <2> HIDE DEF u
  <2>4. QED BY <1>1, <1>6, <2>1, <2>2, <2>3, NoItemStored DEF Run!Take
<1>7. ASSUME NEW r \in Actor, Run!Reconcile(r) PROVE RunInv'
  <2>1. PICK ok \in BOOLEAN :
          /\ run' = [run EXCEPT ![r].at = "item", ![r].ok = ok]
          /\ written' = IF ok THEN written \cup {<<r, run[r].next>>} ELSE written
    BY <1>7 DEF Run!Reconcile
  <2> DEFINE u == [run[r] EXCEPT !.at = "item", !.ok = ok]
  <2>2. Passed(run[r]) /\ run[r].at = "reconcile"
    BY <1>2, <1>7 DEF Run!Reconcile, Run!At
  <2>3. u \in RunShape /\ run' = [run EXCEPT ![r] = u]
    BY <1>1, <2>1 DEF RunShape
  <2>4. /\ u.next = run[r].next /\ u.errors = run[r].errors /\ u.at = "item"
        /\ Passed(u)
    BY <1>1, <2>2 DEF RunShape, Passed
  <2>5. IsFiniteSet(written') BY <1>1, <2>1, FS_AddElement
  <2> HIDE DEF u
  <2>6. QED BY <1>1, <1>7, <2>2, <2>3, <2>4, <2>5, NoItemStored DEF Run!Reconcile
<1>8. ASSUME NEW r \in Actor, Run!StoreItemFails(r) PROVE RunInv'
  <2> DEFINE u == IF run[r].ok THEN [run[r] EXCEPT !.ok = FALSE]
                  ELSE [run[r] EXCEPT !.at = "failed"]
  <2>1. Passed(run[r]) /\ run[r].at = "item"
    BY <1>2, <1>8 DEF Run!StoreItemFails, Run!At
  <2>2. u \in RunShape /\ run' = [run EXCEPT ![r] = u]
    BY <1>1, <1>8 DEF Run!StoreItemFails, RunShape
  <2>3. /\ u.next = run[r].next /\ u.errors = run[r].errors
        /\ u.at = "failed" \/ Passed(u)
    BY <1>1, <2>1 DEF RunShape, Passed
  <2> HIDE DEF u
  <2>4. QED BY <1>1, <1>8, <2>1, <2>2, <2>3, NoItemStored DEF Run!StoreItemFails
<1>9. ASSUME NEW r \in Actor, Run!NextPage(r) PROVE RunInv'
  <2> DEFINE u == [run[r] EXCEPT !.at = "page"]
  <2>1. Passed(run[r]) /\ run[r].at = "record" BY <1>2, <1>9 DEF Run!NextPage, Run!At
  <2>2. u \in RunShape /\ run' = [run EXCEPT ![r] = u]
    BY <1>1, <1>9 DEF Run!NextPage, RunShape
  <2>3. /\ u.next = run[r].next /\ u.errors = run[r].errors /\ u.at = "page"
        /\ Passed(u)
    BY <1>1, <2>1 DEF RunShape, Passed
  <2> HIDE DEF u
  <2>4. QED BY <1>1, <1>9, <2>1, <2>2, <2>3, NoItemStored DEF Run!NextPage
<1>10. ASSUME NEW r \in Actor, Run!Complete(r) PROVE RunInv'
  <2> DEFINE u == [run[r] EXCEPT !.at = "completed"]
  <2>1. Passed(run[r]) /\ run[r].at = "record"
    BY <1>2, <1>10 DEF Run!Complete, Run!At
  <2>2. u \in RunShape /\ run' = [run EXCEPT ![r] = u]
    BY <1>1, <1>10 DEF Run!Complete, RunShape
  <2>3. /\ u.next = run[r].next /\ u.errors = run[r].errors /\ u.at = "completed"
        /\ Passed(u)
    BY <1>1, <1>10, <2>1 DEF Run!Complete, Run!Limited, RunShape, Passed
  <2>4. counting' \in Nat BY <1>1, <1>10 DEF Run!Complete, RunShape
  <2> HIDE DEF u
  <2>5. QED BY <1>1, <1>10, <2>1, <2>2, <2>3, <2>4, NoItemStored DEF Run!Complete
<1>11. ASSUME NEW r \in Actor, Run!ListFails(r) PROVE RunInv'
  <2> DEFINE u == [run[r] EXCEPT !.at = "failed"]
  <2>1. u \in RunShape /\ run' = [run EXCEPT ![r] = u]
    BY <1>1, <1>11 DEF Run!ListFails, RunShape
  <2>2. u.next = run[r].next /\ u.errors = run[r].errors /\ u.at = "failed"
    BY <1>1 DEF RunShape
  <2> HIDE DEF u
  <2>3. QED BY <1>1, <1>11, <2>1, <2>2, NoItemStored DEF Run!ListFails
<1>12. QED
  BY <1>3, <1>4, <1>5, <1>6, <1>7, <1>8, <1>9, <1>10, <1>11, StoredItemCounts
  DEF Run!Next
-----------------------------------------------------------------------------
(* The limit of the subscription *)

\* A run goes on and writes at most the record it is at.
LEMMA RunningGoesOn ==
  ASSUME RunInv, Alone, NEW r \in Actor, Run!Running(r), Run!Running(r)',
         planLimit' = planLimit, usage' = usage, counting' = counting,
         \A q \in Actor \ {r} : run'[q] = run[q],
         run'[r].limit = run[r].limit,
         Cardinality(written') <= Written(r)'
  PROVE  Alone'
<1>1. \A q \in Actor \ {r} : ~Run!Running(q)' BY DEF Alone, Run!Running
<1>2. QED BY <1>1 DEF Alone

LEMMA LimitHoldsOn ==
  ASSUME RunInv, Alone, Run!Next, planLimit # 0, ~uncounted'
  PROVE  Alone'
<1>1. /\ run \in [Actor -> RunShape] /\ IsFiniteSet(written)
      /\ planLimit \in Nat /\ usage \in Nat /\ counting \in Nat
      /\ Limits \subseteq Nat /\ Cardinality(written) \in Nat
  BY PlatformAssumption, FS_CardinalityType DEF RunInv, RunsShape
<1>2. \A r \in Actor : Run!Running(r) => Passed(run[r])
  BY DEF RunInv, Run!Running
<1>3. CASE Run!IncrementUsage
  <2>1. \A r \in Actor : ~Run!Running(r) BY <1>1, <1>3 DEF Run!IncrementUsage, Alone
  <2>2. \A r \in Actor : ~Run!Running(r)'
    BY <1>3, <2>1 DEF Run!IncrementUsage, Run!Running
  <2>3. QED BY <1>1, <1>3, <2>1, <2>2 DEF Run!IncrementUsage, Alone
<1>4. ASSUME NEW r \in Actor, Run!Begin(r) PROVE Alone'
  <2>1. /\ \A q \in Actor : ~Run!Running(q)
        /\ counting = 0
    <3>1. ~(\E q \in Actor : Run!Running(q)) /\ ~(counting > 0)
      BY <1>4, Zenon DEF Run!Begin
    <3>2. QED BY <1>1, <3>1
  <2>2. Cardinality(written) <= usage /\ usage <= planLimit BY <1>1, <2>1 DEF Alone
  <2>3. PICK limit \in Limits :
          IF planLimit = 0 \/ (limit # 0 /\ Run!Allows(limit))
            THEN run' = [run EXCEPT ![r].at = "page", ![r].limit = limit]
            ELSE run' = [run EXCEPT ![r].at = "refused"]
    BY <1>4 DEF Run!Begin
  <2>4. \A q \in Actor \ {r} : ~Run!Running(q)'
    BY <1>1, <2>1, <2>3 DEF Run!Running
  <2>5. CASE limit # 0 /\ Run!Allows(limit)
    <3>1. /\ run'[r].at = "page" /\ run'[r].limit = limit /\ run'[r].reconciled \in Nat
      BY <1>1, <2>3, <2>5 DEF RunShape
    <3>2. Cardinality(written') <= Written(r)'
      BY <1>1, <1>4, <2>2, <3>1 DEF Run!Begin, Written
    <3>3. Run!Running(r)' BY <3>1 DEF Run!Running
    <3>4. usage + limit <= planLimit BY <2>5 DEF Run!Allows
    <3>5. QED BY <1>4, <2>1, <2>4, <2>5, <3>1, <3>2, <3>3, <3>4 DEF Run!Begin, Alone
  <2>6. CASE ~(limit # 0 /\ Run!Allows(limit))
    <3>1. run'[r].at = "refused" BY <1>1, <2>3, <2>6 DEF RunShape
    <3>2. ~Run!Running(r)' BY <3>1 DEF Run!Running
    <3>3. QED BY <1>1, <1>4, <2>1, <2>2, <2>4, <3>2 DEF Run!Begin, Alone
  <2>7. QED BY <2>5, <2>6
<1>5. ASSUME NEW r \in Actor, Run!List(r) \/ Run!Take(r) \/ Run!NextPage(r) PROVE Alone'
  <2>1. /\ Run!Running(r) /\ run[r].at # "item"
    BY <1>5 DEF Run!List, Run!Take, Run!NextPage, Run!At, Run!Running
  <2>2. /\ run'[r].at \in {"record", "reconcile", "page"}
        /\ run'[r].limit = run[r].limit /\ run'[r].reconciled = run[r].reconciled
        /\ \A q \in Actor \ {r} : run'[q] = run[q]
    BY <1>1, <1>5 DEF Run!List, Run!Take, Run!NextPage, RunShape
  <2>3. Run!Running(r)' BY <2>2 DEF Run!Running
  <2>4. UNCHANGED <<planLimit, usage, counting, written>>
    BY <1>5 DEF Run!List, Run!Take, Run!NextPage
  <2>5. Cardinality(written') <= Written(r)'
    BY <2>1, <2>2, <2>4 DEF Alone, Written
  <2>6. QED BY <2>1, <2>2, <2>3, <2>4, <2>5, RunningGoesOn
<1>6. ASSUME NEW r \in Actor, Run!Reconcile(r) PROVE Alone'
  <2>1. PICK ok \in BOOLEAN :
          /\ run' = [run EXCEPT ![r].at = "item", ![r].ok = ok]
          /\ written' = IF ok THEN written \cup {<<r, run[r].next>>} ELSE written
    BY <1>6 DEF Run!Reconcile
  <2>2. Run!Running(r) /\ run[r].at = "reconcile"
    BY <1>6 DEF Run!Reconcile, Run!At, Run!Running
  <2>3. /\ run'[r].at = "item" /\ run'[r].ok = ok
        /\ run'[r].limit = run[r].limit /\ run'[r].reconciled = run[r].reconciled
        /\ \A q \in Actor \ {r} : run'[q] = run[q]
    BY <1>1, <2>1 DEF RunShape
  <2>4. Run!Running(r)' BY <2>3 DEF Run!Running
  <2>5. UNCHANGED <<planLimit, usage, counting>> BY <1>6 DEF Run!Reconcile
  <2>6. Cardinality(written) <= usage + run[r].reconciled
    BY <1>1, <2>2 DEF Alone, Written, RunShape
  <2>7. Cardinality(written') <= Cardinality(written) + (IF ok THEN 1 ELSE 0)
    <3> DEFINE w == <<r, run[r].next>>
    <3>1. Cardinality(written \cup {w}) = IF w \in written THEN Cardinality(written)
                                          ELSE Cardinality(written) + 1
      BY <1>1, FS_AddElement
    <3> HIDE DEF w
    <3>2. QED BY <1>1, <2>1, <3>1 DEF w
  <2>8. Cardinality(written') \in Nat
    <3>1. IsFiniteSet(written') BY <1>1, <2>1, FS_AddElement
    <3>2. QED BY <3>1, FS_CardinalityType
  <2>9. Cardinality(written') <= Written(r)'
    BY <1>1, <2>3, <2>5, <2>6, <2>7, <2>8 DEF Written, RunShape
  <2>10. QED BY <2>2, <2>3, <2>4, <2>5, <2>9, RunningGoesOn
<1>7. ASSUME NEW r \in Actor, Run!StoreItem(r) PROVE Alone'
  <2>1. Run!Running(r) /\ run[r].at = "item"
    BY <1>7 DEF Run!StoreItem, Run!At, Run!Running
  <2>2. /\ run'[r].at = "record" /\ run'[r].limit = run[r].limit
        /\ run'[r].reconciled = run[r].reconciled + (IF run[r].ok THEN 1 ELSE 0)
        /\ \A q \in Actor \ {r} : run'[q] = run[q]
    BY <1>1, <1>7 DEF Run!StoreItem, Run!Counted, RunShape
  <2>3. Run!Running(r)' BY <2>2 DEF Run!Running
  <2>4. UNCHANGED <<planLimit, usage, counting, written>> BY <1>7 DEF Run!StoreItem
  <2>5. Cardinality(written') <= Written(r)'
    BY <1>1, <2>1, <2>2, <2>4 DEF Alone, Written, RunShape
  <2>6. QED BY <2>1, <2>2, <2>3, <2>4, <2>5, RunningGoesOn
<1>8. ASSUME NEW r \in Actor, Run!Complete(r) PROVE Alone'
  <2>1. Run!Running(r) /\ run[r].at = "record"
    BY <1>8 DEF Run!Complete, Run!At, Run!Running
  <2>2. /\ run'[r].at = "completed" /\ \A q \in Actor \ {r} : run'[q] = run[q]
    BY <1>1, <1>8 DEF Run!Complete, RunShape
  <2>3. \A q \in Actor : ~Run!Running(q)' BY <2>1, <2>2 DEF Alone, Run!Running
  <2>4. /\ counting' = run[r].reconciled /\ UNCHANGED <<planLimit, usage, written>>
    BY <1>1, <1>8, <2>1 DEF Run!Complete, Alone, RunShape
  <2>5. run[r].reconciled <= run[r].limit
    BY <1>1, <1>2, <2>1 DEF Alone, Passed, RunShape
  <2>6. Cardinality(written) <= usage + run[r].reconciled
    BY <1>1, <2>1 DEF Alone, Written, RunShape
  <2>7. usage + run[r].reconciled <= planLimit
    BY <1>1, <2>1, <2>5 DEF Alone, RunShape
  <2>8. QED BY <2>3, <2>4, <2>6, <2>7 DEF Alone
<1>9. \A r \in Actor : ~Run!StoreItemFails(r) /\ ~Run!ListFails(r)
  BY DEF Run!StoreItemFails, Run!ListFails
<1>10. QED BY <1>3, <1>4, <1>5, <1>6, <1>7, <1>8, <1>9 DEF Run!Next

LEMMA WithinGoesOn == ASSUME RunInv, Within, Run!Next PROVE Within'
<1> SUFFICES ASSUME planLimit' # 0, ~uncounted' PROVE Alone' BY DEF Within
<1>1. planLimit' = planLimit
  BY DEF Run!Next, Run!IncrementUsage, Run!Begin, Run!List, Run!Take, Run!Reconcile,
     Run!StoreItem, Run!StoreItemFails, Run!NextPage, Run!Complete, Run!ListFails
<1>2. ~uncounted
  BY DEF Run!Next, Run!IncrementUsage, Run!Begin, Run!List, Run!Take, Run!Reconcile,
     Run!StoreItem, Run!StoreItemFails, Run!NextPage, Run!Complete, Run!ListFails
<1>3. QED BY <1>1, <1>2, LimitHoldsOn DEF Within

LEMMA WithinAtFirst == ASSUME Run!Init PROVE Within
<1>1. \A r \in Actor : ~Run!Running(r) BY DEF Run!Init, Run!NewRun, Run!Running
<1>2. planLimit \in Nat BY PlatformAssumption DEF Run!Init
<1>3. QED BY <1>1, <1>2, FS_EmptySet DEF Within, Alone, Run!Init

\* What is written stays within the limit: it is counted, about to be counted, or
\* within what the one run under way asked for.
LEMMA WithinIsQuota == ASSUME RunInv, Within PROVE Run!QuotaHolds
<1> SUFFICES ASSUME planLimit # 0, ~uncounted PROVE Cardinality(written) <= planLimit
  BY SameCardinality DEF Run!QuotaHolds
<1>1. /\ run \in [Actor -> RunShape] /\ Cardinality(written) \in Nat
      /\ planLimit \in Nat /\ usage \in Nat /\ counting \in Nat
  BY FS_CardinalityType DEF RunInv, RunsShape
<1>2. Alone BY DEF Within
<1>3. ASSUME NEW r \in Actor, Run!Running(r) PROVE Cardinality(written) <= planLimit
  <2>1. Passed(run[r]) BY <1>3 DEF RunInv, Run!Running
  <2>2. Written(r) <= usage + run[r].limit
    BY <1>1, <1>2, <1>3, <2>1 DEF Alone, Written, Passed, RunShape
  <2>3. Written(r) \in Nat BY <1>1 DEF Written, RunShape
  <2>4. QED BY <1>1, <1>2, <1>3, <2>2, <2>3 DEF Alone, RunShape
<1>4. CASE \A r \in Actor : ~Run!Running(r)
  BY <1>1, <1>2, <1>4 DEF Alone
<1>5. QED BY <1>3, <1>4

LEMMA AccountedIsReported == ASSUME RunInv PROVE Run!ReportAccounts
<1> SUFFICES ASSUME NEW r \in Actor, run[r].at = "completed"
             PROVE  /\ run[r].read = run[r].reconciled + run[r].errors
                    /\ {i.record : i \in items[r]} = 1 .. run[r].read
                    /\ Cardinality(ErrorItems(r)) = run[r].errors
                    /\ run[r].read = IF run[r].limit = 0 THEN MaxRecords
                                     ELSE Run!Smaller(run[r].limit, MaxRecords)
  BY SameCardinality DEF Run!ReportAccounts, Run!At, ErrorItems
<1>1. /\ run[r] \in RunShape /\ MaxRecords \in Nat
      /\ Passed(run[r]) /\ Itemized(r)
  BY PlatformAssumption DEF RunInv, RunsShape
<1>2. run[r].read = run[r].next - 1 BY <1>1 DEF Passed
<1>3. QED BY <1>1, <1>2 DEF Passed, Itemized, Run!Smaller, RunShape

-----------------------------------------------------------------------------
RunsHold == topic = "run" => RunInv /\ Within

LEMMA RunsAlwaysHold == Spec => []RunsHold
<1>1. Init => RunsHold BY RunsBegin, WithinAtFirst DEF Init, RunsHold
<1>2. RunsHold /\ [Next]_vars => RunsHold'
  <2>1. ASSUME RunsHold, Next PROVE RunsHold'
    <3>1. topic' = topic /\ (topic = "run" => Run!Next)
      BY <2>1 DEF Next, SettingsStep, SessionStep, CallsStep, IntakeStep, PollStep,
         RunStep, LinksStep, FieldStep, PreflightStep, ConditionsStep
    <3>2. QED BY <2>1, <3>1, RunsGoOn, WithinGoesOn DEF RunsHold
  <2>2. ASSUME RunsHold, UNCHANGED vars PROVE RunsHold'
    BY <2>2 DEF vars, runPart, RunsHold, RunInv, RunsShape, Itemized, ErrorItems, Within,
       Alone, Written, Run!Running
  <2>3. QED BY <2>1, <2>2
<1>3. QED BY <1>1, <1>2, PTL DEF Spec

\* The records migrated in a month never exceed the subscription's limit, however
\* many requests, pages and failed records there are, as long as no run begins
\* before the last one was counted (usage.ts, server.ts POST /api/migrate).
THEOREM QuotaAlwaysHolds == Spec => []QuotaHolds
<1>1. RunsHold => QuotaHolds BY WithinIsQuota DEF RunsHold, QuotaHolds
<1>2. QED BY <1>1, RunsAlwaysHold, PTL

\* A completed run has an item for each record it read and an error item for each
\* error, and read as many as its limit allows, whatever failed on the way
\* (MigrationEngine.run()).
THEOREM ReportAlwaysAccounts == Spec => []ReportAccounts
<1>1. RunsHold => ReportAccounts BY AccountedIsReported DEF RunsHold, ReportAccounts
<1>2. QED BY <1>1, RunsAlwaysHold, PTL

-----------------------------------------------------------------------------
(* The scheduled poller: what SyncIntakeProofs shows of any records and pages  *)
(* holds of the one record that Platform polls.                                *)

Poller == INSTANCE SyncIntakeProofs
            WITH Process <- Actor, Record <- {1}, Foreign <- {},
                 Paging <- "locator", PageSize <- 1, MaxTime <- MaxClock,
                 MaxFaults <- 0, cursor <- pollCursor, faults <- pollFaults

LEMMA OneRecordIsFinite == Poller!IsFiniteSet({1})
BY FS_Singleton DEF Poller!IsFiniteSet, IsFiniteSet

\* Platform's poller and the one of the proofs are the same.
LEMMA SameCount == ASSUME NEW S PROVE Polls!Cardinality(S) = Poller!Cardinality(S)
BY DEF Polls!Cardinality, Poller!Cardinality

LEMMA SameRank == ASSUME NEW S, NEW r PROVE Polls!Rank(S, r) = Poller!Rank(S, r)
<1>1. {q \in S : Polls!Before(q, r)} = {q \in S : Poller!Before(q, r)}
  BY DEF Polls!Before, Poller!Before
<1>2. QED BY <1>1, SameCount DEF Polls!Rank, Poller!Rank

LEMMA SameView == ASSUME NEW s PROVE Polls!View(s) = Poller!View(s)
BY DEF Polls!View, Poller!View, Polls!Matching, Poller!Matching

LEMMA SamePageOf == ASSUME NEW s PROVE Polls!PageOf(s) = Poller!PageOf(s)
<1> PICK v : v = Polls!View(s) OBVIOUS
<1>1. v = Poller!View(s) BY SameView
<1>2. \A r : Polls!Rank(v, r) = Poller!Rank(v, r) BY SameRank
<1>3. QED BY <1>1, <1>2 DEF Polls!PageOf, Poller!PageOf

LEMMA SamePage == ASSUME NEW p \in Actor, Polls!Page(p) PROVE Poller!Page(p)
<1> PICK s : s = poll[p] OBVIOUS
<1>1. /\ Polls!View(s) = Poller!View(s) /\ Polls!PageOf(s) = Poller!PageOf(s)
      /\ Polls!Cardinality(Polls!View(s)) = Poller!Cardinality(Poller!View(s))
  BY SameView, SamePageOf, SameCount
<1>2. QED
  BY <1>1 DEF Polls!Page, Poller!Page, Polls!At, Poller!At, Polls!Updated,
     Poller!Updated, Polls!crmVars, Poller!crmVars

LEMMA SamePoll ==
  ASSUME NEW p \in Actor, Polls!PollStep(p) \/ Polls!Begin(p) \/ Polls!PollFails(p)
  PROVE  Poller!PollStep(p) \/ Poller!Begin(p) \/ Poller!PollFails(p)
<1> USE DEF Polls!At, Poller!At, Polls!crmVars, Poller!crmVars, Polls!Idle,
            Poller!Idle, Polls!Polling, Poller!Polling
<1>1. Polls!ReadCursor(p) => Poller!ReadCursor(p)
  BY DEF Polls!ReadCursor, Poller!ReadCursor
<1>2. Polls!StartPaging(p) => Poller!StartPaging(p)
  BY DEF Polls!StartPaging, Poller!StartPaging, Polls!LookedBack, Poller!LookedBack
<1>3. Polls!ListDeleted(p) => Poller!ListDeleted(p)
  BY DEF Polls!ListDeleted, Poller!ListDeleted, Polls!DeletedSince,
     Poller!DeletedSince, Polls!Deleted, Poller!Deleted
<1>4. Polls!EnqueueEvents(p) => Poller!EnqueueEvents(p)
  BY DEF Polls!EnqueueEvents, Poller!EnqueueEvents
<1>5. Polls!Commit(p) => Poller!Commit(p) BY DEF Polls!Commit, Poller!Commit
<1>6. Polls!Begin(p) => Poller!Begin(p) BY DEF Polls!Begin, Poller!Begin
<1>7. Polls!PollFails(p) => Poller!PollFails(p)
  BY DEF Polls!PollFails, Poller!PollFails
<1>8. QED
  BY <1>1, <1>2, <1>3, <1>4, <1>5, <1>6, <1>7, SamePage
  DEF Polls!PollStep, Poller!PollStep

LEMMA SameWorld == ASSUME Polls!World PROVE Poller!World
BY DEF Polls!World, Poller!World, Polls!Advance, Poller!Advance, Polls!Change,
   Poller!Change, Polls!Delete, Poller!Delete, Polls!Toggle, Poller!Toggle,
   Polls!crmVars, Poller!crmVars

LEMMA PollsBegin == ASSUME Polls!Init PROVE Poller!IntakeInv
<1>1. Poller!Init BY DEF Polls!Init, Poller!Init, Polls!Idle, Poller!Idle
<1>2. QED BY <1>1, OneRecordIsFinite, PlatformAssumption, Poller!Starts

LEMMA PollsGoOn ==
  ASSUME Poller!IntakeInv, Polls!Next \/ UNCHANGED pollPart
  PROVE  Poller!IntakeInv'
<1>1. Polls!Next => Poller!Next
  BY SamePoll, SameWorld DEF Polls!Next, Poller!Next
<1>2. UNCHANGED pollPart => UNCHANGED Poller!vars
  BY DEF pollPart, Poller!vars, Poller!crmVars
<1>3. QED BY <1>1, <1>2, OneRecordIsFinite, PlatformAssumption, Poller!NextKeeps

LEMMA PollsCovered == ASSUME Poller!IntakeInv PROVE Polls!Covered
<1>1. Poller!Covered BY OneRecordIsFinite, PlatformAssumption, Poller!NothingIsLeft
<1>2. QED
  BY <1>1 DEF Polls!Covered, Poller!Covered, Polls!ChangesCovered,
     Poller!ChangesCovered, Polls!DeletionsCovered, Poller!DeletionsCovered,
     Polls!Updated, Poller!Updated, Polls!Deleted, Poller!Deleted

\* Polls of any number of processes that overlap leave no change and no deletion
\* of a record before the committed cursor off the queue (pollOne).
THEOREM PollsAlwaysCovered == Spec => []Covered
<1> DEFINE Holds == topic = "poll" => Poller!IntakeInv
<1>1. Init => Holds BY PollsBegin DEF Init
<1>2. Holds /\ [Next]_vars => Holds'
  <2>1. ASSUME Holds, [Next]_vars PROVE Holds'
    <3>1. topic' = topic /\ (topic = "poll" => Polls!Next \/ UNCHANGED pollPart)
      BY <2>1 DEF Next, SettingsStep, SessionStep, CallsStep, IntakeStep, PollStep,
         RunStep, LinksStep, FieldStep, PreflightStep, ConditionsStep, vars
    <3>2. QED BY <2>1, <3>1, PollsGoOn
  <2>2. QED BY <2>1
<1>3. Holds => Covered BY PollsCovered DEF Covered
<1>4. QED BY <1>1, <1>2, <1>3, PTL DEF Spec

-----------------------------------------------------------------------------
(* A field's value between the CRMs *)

\* What the connector of the other CRM reports once s's value is carried there.
Given(s, v) ==
  LET o == Field!Opposite(s)
  IN Field!Kept(o, Field!FromCanonicalField(o, Field!ToCanonicalField(s, v)))

\* A value reads back as what was carried.
ReadsBack(s, v) ==
  Field!ContentHash(Field!ToCanonicalField(Field!Opposite(s), Given(s, v)))
    = Field!ContentHash(Field!ToCanonicalField(s, v))

LEMMA NoRows ==
  ASSUME rows = <<>>, NEW column, NEW wanted, NEW v
  PROVE  Field!Looked(rows, column, wanted, v) = v
BY DEF Field!Looked


\* What the transforms of typed fields make of the values that fit.
LEMMA TransformsOfTyped ==
  /\ \A v : Field!Transformed("identity", v) = v
  /\ \A n \in Field!Numeral :
       /\ Field!Transformed("number", Field!Number(n)) = Field!Number(n)
       /\ Field!Transformed("number", Field!Text(n)) = Field!Number(n)
  /\ \A id \in {"number", "boolean", "yes-no", "true-false", "iso-date",
                "epoch-millis"} :
       Field!Transformed(id, Field!NoValue) = Field!NoValue
  /\ \A b \in {"true", "false"} :
       /\ Field!Transformed("boolean", Field!Flag(b)) = Field!Flag(b)
       /\ Field!Transformed("boolean", Field!Text(b)) = Field!Flag(b)
       /\ Field!Transformed("true-false", Field!Flag(b)) = Field!Text(b)
       /\ Field!Transformed("true-false", Field!Text(b)) = Field!Flag(b)
  /\ Field!Transformed("yes-no", Field!Flag("true")) = Field!Text("yes")
  /\ Field!Transformed("yes-no", Field!Flag("false")) = Field!Text("no")
  /\ \A y \in {"Yes", "yes", "1"} :
       Field!Transformed("yes-no", Field!Text(y)) = Field!Flag("true")
  /\ Field!Transformed("yes-no", Field!Text("no")) = Field!Flag("false")
  /\ Field!Transformed("iso-date", Field!Text("at")) = Field!Text("at")
  /\ Field!Transformed("epoch-millis", Field!Text("at")) = Field!Number("millis")
  /\ Field!Transformed("epoch-millis", Field!Number("millis")) = Field!Text("at")
<1>1. \A v : Field!Transformed("identity", v) = v BY DEF Field!Transformed
<1>2. \A v : /\ Field!Transformed("number", v) = Field!ToNumber(v)
             /\ Field!Transformed("boolean", v) = Field!ToBoolean(v)
             /\ Field!Transformed("yes-no", v)
                  = Field!Spelled(v, "yes", "no", {"yes", "true", "1"})
             /\ Field!Transformed("true-false", v)
                  = Field!Spelled(v, "true", "false", {"true"})
             /\ Field!Transformed("iso-date", v)
                  = IF v[1] = "number" THEN Field!AsTime(v) ELSE v
             /\ Field!Transformed("epoch-millis", v) = Field!AsTime(v)
  BY DEF Field!Transformed
<1>3. \A n : /\ Field!Text(n)[1] = "text" /\ Field!Text(n)[2] = n
             /\ Field!Number(n)[1] = "number" /\ Field!Number(n)[2] = n
             /\ Field!Flag(n)[1] = "boolean" /\ Field!Flag(n)[2] = n
  BY DEF Field!Text, Field!Number, Field!Flag
<1>4. Field!NoValue[1] = "null" BY DEF Field!NoValue
<1>5. /\ Field!Lower("Yes") = "yes" /\ Field!Lower("yes") = "yes"
      /\ Field!Lower("1") = "1" /\ Field!Lower("no") = "no"
      /\ Field!Lower("true") = "true" /\ Field!Lower("false") = "false"
  BY DEF Field!Lower
<1>6. /\ Field!AsTime(Field!Text("at")) = Field!Number("millis")
      /\ Field!AsTime(Field!Number("millis")) = Field!Text("at")
      /\ Field!AsTime(Field!NoValue) = Field!NoValue
  BY DEF Field!AsTime, Field!Text, Field!Number, Field!NoValue
<1>7. /\ \A n \in Field!Numeral :
           /\ Field!ToNumber(Field!Number(n)) = Field!Number(n)
           /\ Field!ToNumber(Field!Text(n)) = Field!Number(n)
      /\ Field!ToNumber(Field!NoValue) = Field!NoValue
  BY <1>3, <1>4 DEF Field!ToNumber
<1>8. /\ \A b \in {"true", "false"} :
           /\ Field!ToBoolean(Field!Flag(b)) = Field!Flag(b)
           /\ Field!ToBoolean(Field!Text(b)) = Field!Flag(b)
           /\ Field!Spelled(Field!Flag(b), "true", "false", {"true"}) = Field!Text(b)
           /\ Field!Spelled(Field!Text(b), "true", "false", {"true"}) = Field!Flag(b)
      /\ Field!ToBoolean(Field!NoValue) = Field!NoValue
  BY <1>3, <1>4, <1>5 DEF Field!ToBoolean, Field!Spelled, Field!BoolText
<1>9. LET S(v) == Field!Spelled(v, "yes", "no", {"yes", "true", "1"})
      IN /\ S(Field!Flag("true")) = Field!Text("yes")
         /\ S(Field!Flag("false")) = Field!Text("no")
         /\ \A y \in {"Yes", "yes", "1"} : S(Field!Text(y)) = Field!Flag("true")
         /\ S(Field!Text("no")) = Field!Flag("false")
  BY <1>3, <1>5 DEF Field!Spelled, Field!BoolText
<1>10. \A yes, no, true : Field!Spelled(Field!NoValue, yes, no, true) = Field!NoValue
  BY <1>4 DEF Field!Spelled
<1>11. QED BY <1>1, <1>2, <1>3, <1>4, <1>6, <1>7, <1>8, <1>9, <1>10

\* What the CRMs keep.
LEMMA KeptValues ==
  /\ \A v : Field!Kept("salesforce", v) = v
  /\ Field!Kept("hubspot", Field!NoValue) = Field!NoValue
  /\ \A t : /\ Field!Kept("hubspot", Field!Text(t)) = Field!Text(t)
            /\ Field!Kept("hubspot", Field!Number(t)) = Field!Text(t)
            /\ Field!Kept("hubspot", Field!Flag(t)) = Field!Text(t)
BY DEF Field!Kept, Field!NoValue, Field!Text, Field!Number, Field!Flag


LEMMA Texts ==
  /\ \A t : /\ Field!Text(t)[2] = t /\ Field!Number(t)[2] = t
            /\ Field!Flag(t)[2] = t
BY DEF Field!Text, Field!Number, Field!Flag

LEMMA TypedReadsBack ==
  ASSUME NEW f, Field!TypedField(f), rule = f.rule, rows = f.rows,
         NEW s \in Field!FieldSystem, NEW v \in f.entered[s]
  PROVE  ReadsBack(s, v)
<1> DEFINE o       == Field!Opposite(s)
           In(x)   == rule[x].to
           Out(x)  == rule[x].from
           c       == Field!Transformed(In(s), v)
           back    == Field!Transformed(In(o),
                        Field!Kept(o, Field!Transformed(Out(o), c)))
           Rules(sf, hs) ==
             /\ In("salesforce") = sf[1] /\ Out("salesforce") = sf[2]
             /\ In("hubspot") = hs[1] /\ Out("hubspot") = hs[2]
           Values(sf, hs) ==
             v \in {Field!NoValue} \cup (IF s = "salesforce" THEN sf ELSE hs)
           plain == <<"identity", "identity">>
<1>1. \/ s = "salesforce" /\ o = "hubspot"
      \/ s = "hubspot" /\ o = "salesforce"
  BY DEF Field!FieldSystem, Field!Opposite
<1>2. SUFFICES back[2] = c[2]
  <2>1. rows = <<>> BY DEF Field!TypedField
  <2>2. \A x, w : /\ Field!ToCanonicalField(x, w) = Field!Transformed(In(x), w)
                  /\ Field!FromCanonicalField(x, w) = Field!Transformed(Out(x), w)
    BY <2>1, NoRows DEF Field!ToCanonicalField, Field!FromCanonicalField,
       Field!ToCanonicalValue, Field!FromCanonicalValue
  <2>3. QED BY <2>2 DEF ReadsBack, Given, Field!ContentHash
<1>3. CASE /\ \/ Rules(plain, plain) \/ Rules(plain, <<"number", "identity">>)
              \/ Rules(plain, <<"number", "number">>)
           /\ Values({Field!Number(n) : n \in Field!Numeral},
                     {Field!Text(n) : n \in Field!Numeral})
  <2>1. CASE v = Field!NoValue
    BY <1>1, <1>3, <2>1, TransformsOfTyped, KeptValues
  <2>2. CASE \E n \in Field!Numeral : v \in {Field!Number(n), Field!Text(n)}
    BY <1>1, <1>3, <2>2, TransformsOfTyped, KeptValues, Texts
  <2>3. QED BY <1>3, <2>1, <2>2
<1>4. CASE /\ \/ Rules(plain, plain) \/ Rules(plain, <<"boolean", "identity">>)
              \/ Rules(plain, <<"true-false", "true-false">>)
           /\ Values({Field!Flag("true"), Field!Flag("false")},
                     {Field!Text("true"), Field!Text("false")})
  <2>1. CASE v = Field!NoValue
    BY <1>1, <1>4, <2>1, TransformsOfTyped, KeptValues
  <2>2. CASE \E b \in {"true", "false"} :
               v = IF s = "salesforce" THEN Field!Flag(b) ELSE Field!Text(b)
    BY <1>1, <1>4, <2>2, TransformsOfTyped, KeptValues, Texts
  <2>3. QED BY <1>4, <2>1, <2>2
<1>5. CASE /\ Rules(plain, <<"yes-no", "yes-no">>)
           /\ Values({Field!Flag("true"), Field!Flag("false")},
                     {Field!Text("Yes"), Field!Text("yes"), Field!Text("no"),
                      Field!Text("1")})
  <2>1. CASE v = Field!NoValue
    BY <1>1, <1>5, <2>1, TransformsOfTyped, KeptValues
  <2>2. CASE s = "salesforce" /\ v # Field!NoValue
    <3>1. o = "hubspot" BY <1>1, <2>2
    <3>2. v = Field!Flag("true") \/ v = Field!Flag("false") BY <1>5, <2>2
    <3>3. c = v BY <1>5, <2>2, TransformsOfTyped
    <3>4. QED BY <1>5, <3>1, <3>2, <3>3, TransformsOfTyped, KeptValues, Texts
  <2>3. CASE s = "hubspot" /\ v # Field!NoValue
    <3>1. o = "salesforce" BY <1>1, <2>3
    <3>2. c = Field!Flag("true") \/ c = Field!Flag("false")
      BY <1>5, <2>3, TransformsOfTyped
    <3>3. back = c BY <1>5, <3>1, <3>2, TransformsOfTyped, KeptValues
    <3>4. QED BY <3>3
  <2>4. QED BY <1>1, <2>1, <2>2, <2>3
<1>6. CASE /\ Rules(plain, <<"iso-date", "identity">>)
           /\ Values({Field!Text("at")}, {Field!Text("at")})
  BY <1>1, <1>6, TransformsOfTyped, KeptValues, Texts
<1>7. CASE /\ Rules(<<"epoch-millis", "epoch-millis">>, plain)
           /\ Values({Field!Number("millis")}, {Field!Text("at")})
  BY <1>1, <1>7, TransformsOfTyped, KeptValues, Texts
<1>8. QED
  BY <1>1, <1>3, <1>4, <1>5, <1>6, <1>7, SMTT(60) DEF Field!TypedField

\* The row that names a value by itself is the one that is looked up.
LEMMA LookedUp ==
  ASSUME Field!OneToOne(rows), NEW t,
         NEW k \in Field!FieldSystem \cup {"canonical"},
         NEW w \in Field!FieldSystem \cup {"canonical"}
  PROVE  /\ \A n \in DOMAIN rows : rows[n][k] = t =>
              Field!Looked(rows, k, w, Field!Text(t)) = Field!Text(rows[n][w])
         /\ (\A n \in DOMAIN rows : rows[n][k] # t) =>
              Field!Looked(rows, k, w, Field!Text(t)) = Field!Text(t)
<1> DEFINE matching == {n \in DOMAIN rows : rows[n][k] = t}
<1>1. Field!IsText(Field!Text(t)) /\ Field!Text(t)[2] = t
  BY DEF Field!IsText, Field!Text
<1>2. ASSUME NEW n \in DOMAIN rows, rows[n][k] = t
      PROVE  Field!Looked(rows, k, w, Field!Text(t)) = Field!Text(rows[n][w])
  <2>1. matching = {n} BY <1>2 DEF Field!OneToOne
  <2>2. n <= n
    <3>1. DOMAIN rows \subseteq Nat BY DEF Field!OneToOne
    <3>2. n \in Nat BY <1>2, <3>1
    <3>3. QED BY <3>2
  <2>3. n = CHOOSE i \in matching : \A j \in matching : i <= j BY <2>1, <2>2
  <2>4. rows[n][w] # "" /\ matching # {} BY <2>1 DEF Field!OneToOne
  <2> HIDE DEF matching
  <2>5. {i \in DOMAIN rows : rows[i][k] = Field!Text(t)[2]} = matching
    BY <1>1 DEF matching
  <2>6. QED BY <1>1, <2>3, <2>4, <2>5 DEF Field!Looked
<1>3. ASSUME \A n \in DOMAIN rows : rows[n][k] # t
      PROVE  Field!Looked(rows, k, w, Field!Text(t)) = Field!Text(t)
  <2>1. {i \in DOMAIN rows : rows[i][k] = Field!Text(t)[2]} = {} BY <1>1, <1>3
  <2>2. QED BY <2>1 DEF Field!Looked
<1>4. QED BY <1>2, <1>3

LEMMA TextReadsBack ==
  ASSUME NEW f, Field!TextField(f), rule = f.rule, rows = f.rows,
         NEW s \in Field!FieldSystem, NEW v \in f.entered[s]
  PROVE  ReadsBack(s, v)
<1> DEFINE o == Field!Opposite(s)
           All == Field!FieldSystem \cup {"canonical"}
           Fold(t) == IF rule["hubspot"].to = "lowercase" THEN Field!Lower(t) ELSE t
<1>1. o \in Field!FieldSystem /\ s \in All /\ o \in All /\ "canonical" \in All
  BY DEF Field!FieldSystem, Field!Opposite
<1>2. /\ Field!OneToOne(rows)
      /\ \A k \in All, n \in DOMAIN rows : Fold(rows[n][k]) = rows[n][k]
  BY DEF Field!TextField
<1>3. \A x \in Field!FieldSystem :
        /\ Field!Transformed(rule[x].to, Field!NoValue) = Field!NoValue
        /\ Field!Transformed(rule[x].from, Field!NoValue) = Field!NoValue
        /\ \A t : /\ Field!Transformed(rule[x].to, Field!Text(t))
                       = Field!Text(Fold(t))
                  /\ Fold(t) = t => Field!Transformed(rule[x].from, Field!Text(t))
                                      = Field!Text(t)
  <2>1. /\ \A w : Field!Transformed("identity", w) = w
        /\ \A t : Field!Transformed("lowercase", Field!Text(t))
                    = Field!Text(Field!Lower(t))
        /\ Field!Transformed("lowercase", Field!NoValue) = Field!NoValue
    BY DEF Field!Transformed, Field!IsText, Field!Text, Field!NoValue
  <2>2. \/ \A x \in Field!FieldSystem :
             rule[x] = [to |-> "identity", from |-> "identity"]
        \/ \A x \in Field!FieldSystem : /\ rule[x].to = "lowercase"
                                        /\ rule[x].from \in {"identity", "lowercase"}
    BY DEF Field!TextField
  <2>3. "hubspot" \in Field!FieldSystem BY DEF Field!FieldSystem
  <2>4. QED BY <2>1, <2>2, <2>3
<1>4. Field!Kept(o, Field!NoValue) = Field!NoValue
      /\ \A t : Field!Kept(o, Field!Text(t)) = Field!Text(t)
  BY <1>1, KeptValues DEF Field!FieldSystem
<1>5. CASE v = Field!NoValue
  <2>0. \A k, w : Field!Looked(rows, k, w, Field!NoValue) = Field!NoValue
    BY DEF Field!Looked, Field!IsText, Field!NoValue
  <2>1. \A x \in Field!FieldSystem :
          /\ Field!ToCanonicalField(x, Field!NoValue) = Field!NoValue
          /\ Field!FromCanonicalField(x, Field!NoValue) = Field!NoValue
    BY <1>3, <2>0
    DEF Field!ToCanonicalField, Field!FromCanonicalField,
        Field!ToCanonicalValue, Field!FromCanonicalValue
  <2>2. QED BY <1>1, <1>4, <1>5, <2>1 DEF ReadsBack, Given
<1>6. CASE v # Field!NoValue
  <2>1. PICK t : /\ v = Field!Text(t)
                 /\ \/ \E n \in DOMAIN rows : rows[n][s] = Fold(t)
                    \/ \E n \in DOMAIN rows : rows[n]["canonical"] = Fold(t)
                    \/ \A n \in DOMAIN rows : rows[n][o] # Fold(t)
    BY <1>6 DEF Field!TextField
  <2>2. Fold(Fold(t)) = Fold(t)
    BY DEF Field!Lower
  <2> DEFINE To(x, u)   == Field!Looked(rows, x, "canonical", Field!Text(u))
             From(x, u) == Field!Looked(rows, "canonical", x, Field!Text(u))
  <2>3. \A x \in Field!FieldSystem :
          /\ \A u : Field!ToCanonicalField(x, Field!Text(u)) = To(x, Fold(u))
          /\ \A u, w : From(x, u) = Field!Text(w) /\ Fold(w) = w =>
               Field!FromCanonicalField(x, Field!Text(u)) = Field!Text(w)
    BY <1>3
    DEF Field!ToCanonicalField, Field!FromCanonicalField,
        Field!ToCanonicalValue, Field!FromCanonicalValue
  <2> HIDE DEF Fold
  <2>4. SUFFICES \E c, w : /\ To(s, Fold(t)) = Field!Text(c)
                           /\ From(o, c) = Field!Text(w) /\ Fold(w) = w
                           /\ To(o, w) = Field!Text(c)
    BY <1>1, <1>4, <2>1, <2>3 DEF ReadsBack, Given
  <2>5. ASSUME NEW n \in DOMAIN rows, To(s, Fold(t)) = Field!Text(rows[n]["canonical"])
        PROVE  \E c, w : /\ To(s, Fold(t)) = Field!Text(c)
                         /\ From(o, c) = Field!Text(w) /\ Fold(w) = w
                         /\ To(o, w) = Field!Text(c)
    <3>1. PICK c, w : c = rows[n]["canonical"] /\ w = rows[n][o] OBVIOUS
    <3>2. From(o, c) = Field!Text(w)
      <4>1. PICK k \in All : k = "canonical" BY <1>1
      <4>2. rows[n][k] = c BY <3>1, <4>1
      <4>3. Field!Looked(rows, k, o, Field!Text(c)) = Field!Text(rows[n][o])
        BY <1>1, <1>2, <2>5, <4>2, LookedUp
      <4>4. QED BY <3>1, <4>1, <4>3
    <3>3. To(o, w) = Field!Text(c) BY <1>1, <1>2, <2>5, <3>1, LookedUp
    <3>4. QED BY <1>1, <1>2, <2>5, <3>1, <3>2, <3>3
  <2>6. ASSUME NEW n \in DOMAIN rows, rows[n][s] = Fold(t)
        PROVE  To(s, Fold(t)) = Field!Text(rows[n]["canonical"])
    BY <1>1, <1>2, <2>6, LookedUp
  <2>7. ASSUME \A n \in DOMAIN rows : rows[n][s] # Fold(t)
        PROVE  To(s, Fold(t)) = Field!Text(Fold(t))
    BY <1>1, <1>2, <2>7, LookedUp
  <2>8. CASE \E n \in DOMAIN rows : rows[n][s] = Fold(t) BY <2>5, <2>6, <2>8
  <2>9. CASE /\ \A n \in DOMAIN rows : rows[n][s] # Fold(t)
             /\ \E n \in DOMAIN rows : rows[n]["canonical"] = Fold(t)
    BY <2>5, <2>7, <2>9
  <2>10. CASE /\ \A n \in DOMAIN rows : rows[n][s] # Fold(t)
              /\ \A n \in DOMAIN rows : rows[n]["canonical"] # Fold(t)
              /\ \A n \in DOMAIN rows : rows[n][o] # Fold(t)
    <3>1. From(o, Fold(t)) = Field!Text(Fold(t)) BY <1>1, <1>2, <2>10, LookedUp
    <3>2. To(o, Fold(t)) = Field!Text(Fold(t)) BY <1>1, <1>2, <2>10, LookedUp
    <3>3. QED BY <2>2, <2>7, <2>10, <3>1, <3>2
  <2>11. QED BY <2>1, <2>8, <2>9, <2>10
<1>7. QED BY <1>5, <1>6

\* A field that has been carried is recognised as ours, whoever reports it.
FieldInv ==
  \E f \in ConfiguredFields :
    /\ rule = f.rule /\ rows = f.rows
    /\ carried \in {0, 1} /\ DOMAIN native = Field!FieldSystem
    /\ reported \in Field!FieldSystem \cup {"none"}
    /\ carried = 0 /\ reported # "none" => native[reported] \in f.entered[reported]
    /\ carried = 1 /\ reported # "none" =>
         hashOf[reported] = Field!ContentHash(
                              Field!ToCanonicalField(reported, native[reported]))

LEMMA FieldBegins ==
  ASSUME Field!InitField PROVE FieldInv
<1>1. PICK field \in ConfiguredFields, s \in Field!FieldSystem :
        /\ rule = field.rule /\ rows = field.rows /\ reported = s
        /\ \E v \in field.entered[s] :
             native = [o \in Field!FieldSystem |-> IF o = s THEN v ELSE Field!NoValue]
  BY DEF Field!InitField
<1>2. native[s] \in field.entered[s] BY <1>1
<1>3. carried = 0 BY DEF Field!InitField
<1>4. QED BY <1>1, <1>2, <1>3 DEF FieldInv

LEMMA FieldGoesOn ==
  ASSUME FieldInv, Field!NextField, \A f \in ConfiguredFields : Field!Fits(f)
  PROVE  FieldInv'
<1>1. PICK f \in ConfiguredFields :
        /\ rule = f.rule /\ rows = f.rows
        /\ carried \in {0, 1} /\ DOMAIN native = Field!FieldSystem
        /\ reported \in Field!FieldSystem \cup {"none"}
        /\ carried = 0 /\ reported # "none" =>
             native[reported] \in f.entered[reported]
        /\ carried = 1 /\ reported # "none" =>
             hashOf[reported] = Field!ContentHash(
                              Field!ToCanonicalField(reported, native[reported]))
  BY DEF FieldInv
<1>2. CASE Field!RecogniseEcho
  BY <1>1, <1>2 DEF Field!RecogniseEcho, FieldInv
<1>3. CASE Field!CarryChange
  <2>1. PICK s, o, v, c :
          /\ s = reported /\ o = Field!Opposite(s) /\ v = native[s]
          /\ c = Field!ToCanonicalField(s, v)
    OBVIOUS
  <2>2. /\ s \in Field!FieldSystem /\ o \in Field!FieldSystem /\ s # o
        /\ carried = 0 /\ v \in f.entered[s]
    BY <1>1, <1>3, <2>1 DEF Field!CarryChange, Field!Opposite, Field!FieldSystem
  <2>3. ReadsBack(s, v)
    BY <1>1, <2>2, TextReadsBack, TypedReadsBack DEF Field!Fits
  <2>4. /\ native' = [native EXCEPT ![o] = Given(s, v)]
        /\ hashOf' = [x \in Field!FieldSystem |-> Field!ContentHash(c)]
        /\ reported' = o /\ carried' = carried + 1
        /\ rule' = rule /\ rows' = rows
    BY <1>3, <2>1 DEF Field!CarryChange, Given
  <2>5. PICK x : x = Given(s, v) OBVIOUS
  <2>6. /\ native'[o] = x /\ DOMAIN native' = Field!FieldSystem
        /\ hashOf'[o] = Field!ContentHash(c)
    BY <1>1, <2>2, <2>4, <2>5
  <2>7. Field!ToCanonicalField(o, x)' = Field!ToCanonicalField(o, x)
    BY <2>4 DEF Field!ToCanonicalField, Field!ToCanonicalValue
  <2>8. Field!ContentHash(Field!ToCanonicalField(o, x)) = Field!ContentHash(c)
    BY <2>1, <2>3, <2>5 DEF ReadsBack
  <2>9. hashOf'[o] = Field!ContentHash(Field!ToCanonicalField(o, native[o]))'
    BY <2>6, <2>7, <2>8 DEF Field!ToCanonicalField, Field!ToCanonicalValue
  <2>10. reported' = o /\ carried' = 1 /\ rule' = f.rule /\ rows' = f.rows
    BY <1>1, <2>2, <2>4
  <2>11. QED BY <2>2, <2>6, <2>9, <2>10 DEF FieldInv, Field!ToCanonicalField, Field!ToCanonicalValue
<1>4. QED BY <1>2, <1>3 DEF Field!NextField

\* One write carries a change of a field whose rules fit its values, and its echo
\* is recognised as ours: for translated texts with any table of rows that names
\* each value once, and for numbers, flags and moments that one CRM keeps as a
\* text (transform(), toCanonicalField(), contentHash()).
THEOREM EchoAlwaysEnds ==
  ASSUME \A f \in ConfiguredFields : Field!Fits(f)
  PROVE  Spec => []EchoEnds
<1> DEFINE Holds == topic = "field" => FieldInv
<1>1. Init => Holds BY FieldBegins DEF Init
<1>2. Holds /\ [Next]_vars => Holds'
  <2>1. ASSUME Holds, [Next]_vars PROVE Holds'
    <3>1. topic' = topic /\ (topic = "field" => Field!NextField \/ UNCHANGED fieldPart)
      BY <2>1 DEF Next, SettingsStep, SessionStep, CallsStep, IntakeStep, PollStep,
         RunStep, LinksStep, FieldStep, PreflightStep, ConditionsStep, vars
    <3>2. FieldInv /\ UNCHANGED fieldPart => FieldInv'
      BY DEF FieldInv, fieldPart, Field!ToCanonicalField, Field!ToCanonicalValue
    <3>3. QED BY <2>1, <3>1, <3>2, FieldGoesOn
  <2>2. QED BY <2>1
<1>3. Holds => EchoEnds
  BY DEF FieldInv, EchoEnds, Field!EchoEnds
<1>4. QED BY <1>1, <1>2, <1>3, PTL DEF Spec
=============================================================================
