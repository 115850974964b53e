------------------------------- MODULE Platform -------------------------------
(***************************************************************************)
(* The parts of the server around the sync queue and the migration plans,  *)
(* side by side: each is a module of its own, whose state no other of them *)
(* shares, and a behaviour of Platform is a behaviour of one of them, the  *)
(* topic.  The variables of the others have no value.                      *)
(***************************************************************************)
EXTENDS Naturals, FiniteSets

CONSTANTS
  Topics,       \* the parts to look at
  Actor,        \* requests, processes or parent records, as the part has them
  None,         \* no row, no rules, nobody; the value of a variable not in use
  \* The constants of the parts, described in their modules.
  MaxPairing, MaxRequests, MaxRestarts,                        \* SyncSettings
  Rotates, MaxTokens, MaxGrants,                               \* OAuthSession
  Call, Interval, MaxRetries, Delays, MaxRepeats, MaxTime,     \* VendorCall
  MaxPublished, MaxChanges, Stamped, Shared,                   \* EventIntake
  Lookback, MaxClock,                                           \* SyncIntake
  MaxFaults,                                      \* OAuthSession, EventIntake
  MaxRecords, PerPage, Limits, PlanLimits, MaxFailures,        \* MigrationRun
  MaxEdits, MaxFailed,                                         \* Associations
  ConfiguredFields, MaxCarried,                             \* FieldConversion
  Mappings, SchemaPairs, KeyProfiles,                       \* PreflightChecks
  Siblings, MaxNumber, Letters                               \* SyncConditions

Parts == {"settings", "session", "call", "intake", "poll", "run",
          "associations", "field", "preflight", "conditions"}

ASSUME PlatformAssumption ==
  /\ Topics \subseteq Parts
  /\ None \notin Actor /\ None \notin Nat
  /\ Interval \in Nat \ {0} /\ PerPage \in Nat \ {0}
  /\ MaxTime \in Nat /\ MaxRetries \in Nat /\ MaxRepeats \in Nat
  /\ Delays \subseteq Nat /\ MaxPairing \in Nat
  /\ MaxRequests \in Nat /\ MaxRestarts \in Nat
  /\ MaxTokens \in Nat /\ MaxGrants \in Nat
  /\ Lookback \in Nat /\ MaxClock \in Nat
  /\ MaxRecords \in Nat /\ MaxFailures \in Nat /\ MaxNumber \in Nat
  /\ Limits \subseteq Nat /\ PlanLimits \subseteq Nat
  /\ Rotates \in BOOLEAN /\ Stamped \in BOOLEAN /\ Shared \in BOOLEAN

VARIABLES
  topic,
  row, mem, req, requests, restarts, unreviewed, overlap, torn,
  conn, valid, issued, spent, flight, caller, client, liveInited, grants,
  states, exchanging, resets, faults, cut, raced, vain,
  time, inits, nextAvailableAt, call,
  published, cursor, queuedTo, worker, changes, class, exists, known,
  parsing, acked, dropped, jobs, intakeFaults,
  now, modified, gone, enabled, pollCursor, enqueued, poll, starts, horizon,
  pollFaults,
  planLimit, usage, counting, run, items, written, uncounted, failures,
  lookups, related, linked, syncing, links, made, edits, failed,
  rule, rows, native, hashOf, reported, carried,
  mapping, schema, profile, report,
  conditions, rawSoql, rawMet, value

Settings == INSTANCE SyncSettings WITH Handler <- Actor, NoRules <- None
Session == INSTANCE OAuthSession WITH Caller <- Actor, NoConn <- None
Calls == INSTANCE VendorCall
Intake == INSTANCE EventIntake WITH Process <- Actor
Polls == INSTANCE SyncIntake
           WITH Process <- Actor, Record <- {1}, Foreign <- {},
                Paging <- "locator", PageSize <- 1, MaxTime <- MaxClock,
                MaxFaults <- 0,   \* polls that fail: see MCSyncIntake
                cursor <- pollCursor, faults <- pollFaults
Run == INSTANCE MigrationRun WITH Request <- Actor
Links == INSTANCE Associations WITH Parent <- Actor, Nobody <- None
Field == INSTANCE FieldConversion
Preflight == INSTANCE PreflightChecks
Conditions == INSTANCE SyncConditions

\* The CRM that is not connected has no row.
ASSUME NoneIsNoRow == None \notin Session!Rows

settingsPart == <<row, mem, req, requests, restarts, unreviewed, overlap,
                  torn>>

sessionPart == <<conn, valid, issued, spent, flight, caller, client,
                 liveInited, grants, states, exchanging, resets, faults, cut,
                 raced, vain>>

callPart == <<time, inits, nextAvailableAt, call>>

intakePart == <<published, cursor, queuedTo, worker, changes, class, exists,
                known, parsing, acked, dropped, jobs, intakeFaults>>

pollPart == <<now, modified, gone, enabled, pollCursor, enqueued, poll, starts,
              horizon, pollFaults>>

runPart == <<planLimit, usage, counting, run, items, written, uncounted,
             failures>>

associationsPart == <<lookups, related, linked, syncing, links, made, edits,
                      failed>>

fieldPart == <<rule, rows, native, hashOf, reported, carried>>

preflightPart == <<mapping, schema, profile, report>>

conditionsPart == <<conditions, rawSoql, rawMet, value>>

-----------------------------------------------------------------------------
(* The variables of a part that is not the topic *)

NoSettings ==
  /\ row = None /\ mem = None /\ req = None /\ requests = None
  /\ restarts = None /\ unreviewed = None /\ overlap = None /\ torn = None

NoSession ==
  /\ conn = None /\ valid = None /\ issued = None /\ spent = None
  /\ flight = None /\ caller = None /\ client = None /\ liveInited = None
  /\ grants = None /\ states = None /\ exchanging = None /\ resets = None
  /\ faults = None /\ cut = None /\ raced = None /\ vain = None

NoCalls ==
  /\ time = None /\ inits = None /\ nextAvailableAt = None /\ call = None

NoIntake ==
  /\ published = None /\ cursor = None /\ queuedTo = None /\ worker = None
  /\ changes = None /\ class = None /\ exists = None /\ known = None
  /\ parsing = None /\ acked = None /\ dropped = None /\ jobs = None
  /\ intakeFaults = None

NoPolls ==
  /\ now = None /\ modified = None /\ gone = None /\ enabled = None
  /\ pollCursor = None /\ enqueued = None /\ poll = None /\ starts = None
  /\ horizon = None /\ pollFaults = None

NoRun ==
  /\ planLimit = None /\ usage = None /\ counting = None /\ run = None
  /\ items = None /\ written = None /\ uncounted = None /\ failures = None

NoLinks ==
  /\ lookups = None /\ related = None /\ linked = None /\ syncing = None
  /\ links = None /\ made = None /\ edits = None /\ failed = None

NoField ==
  /\ rule = None /\ rows = None /\ native = None /\ hashOf = None
  /\ reported = None /\ carried = None

NoPreflight ==
  /\ mapping = None /\ schema = None /\ profile = None /\ report = None

NoConditions ==
  /\ conditions = None /\ rawSoql = None /\ rawMet = None /\ value = None

-----------------------------------------------------------------------------
Init ==
  /\ topic \in Topics
  /\ IF topic = "settings" THEN Settings!Init ELSE NoSettings
  /\ IF topic = "session" THEN Session!Init ELSE NoSession
  /\ IF topic = "call" THEN Calls!Init ELSE NoCalls
  /\ IF topic = "intake" THEN Intake!Init ELSE NoIntake
  /\ IF topic = "poll" THEN Polls!Init ELSE NoPolls
  /\ IF topic = "run" THEN Run!Init ELSE NoRun
  /\ IF topic = "associations" THEN Links!Init ELSE NoLinks
  /\ IF topic = "field" THEN Field!InitField ELSE NoField
  /\ IF topic = "preflight" THEN Preflight!InitCheck ELSE NoPreflight
  /\ IF topic = "conditions" THEN Conditions!InitConditions ELSE NoConditions

\* The routes that edit an object's mapping and its sync settings
SettingsStep ==
  /\ topic = "settings" /\ Settings!Next
  /\ UNCHANGED <<topic, sessionPart, callPart, intakePart, pollPart, runPart,
                 associationsPart, fieldPart, preflightPart, conditionsPart>>

\* One CRM's connection, its tokens and the requests that need them
SessionStep ==
  /\ topic = "session" /\ Session!Next
  /\ UNCHANGED <<topic, settingsPart, callPart, intakePart, pollPart, runPart,
                 associationsPart, fieldPart, preflightPart, conditionsPart>>

\* The paced and retried calls of one HTTP client
CallsStep ==
  /\ topic = "call" /\ Calls!Next
  /\ UNCHANGED <<topic, settingsPart, sessionPart, intakePart, pollPart, runPart,
                 associationsPart, fieldPart, preflightPart, conditionsPart>>

\* The webhook routes and the change-data-capture worker
IntakeStep ==
  /\ topic = "intake" /\ Intake!Next
  /\ UNCHANGED <<topic, settingsPart, sessionPart, callPart, pollPart, runPart,
                 associationsPart, fieldPart, preflightPart, conditionsPart>>

\* The schedules of several processes that poll one object
PollStep ==
  /\ topic = "poll" /\ Polls!Next
  /\ UNCHANGED <<topic, settingsPart, sessionPart, callPart, intakePart, runPart,
                 associationsPart, fieldPart, preflightPart, conditionsPart>>

\* Confirmed migrations under a subscription's limit
RunStep ==
  /\ topic = "run" /\ Run!Next
  /\ UNCHANGED <<topic, settingsPart, sessionPart, callPart, intakePart,
                 pollPart, associationsPart, fieldPart, preflightPart, conditionsPart>>

\* The associations of one record
LinksStep ==
  /\ topic = "associations" /\ Links!Next
  /\ UNCHANGED <<topic, settingsPart, sessionPart, callPart, intakePart,
                 pollPart, runPart, fieldPart, preflightPart, conditionsPart>>

\* A field's value on its way between the CRMs
FieldStep ==
  /\ topic = "field" /\ Field!NextField
  /\ UNCHANGED <<topic, settingsPart, sessionPart, callPart, intakePart,
                 pollPart, runPart, associationsPart, preflightPart, conditionsPart>>

\* The report that judges a mapping before a migration
PreflightStep ==
  /\ topic = "preflight" /\ Preflight!RunPreflight
  /\ UNCHANGED <<topic, settingsPart, sessionPart, callPart, intakePart,
                 pollPart, runPart, associationsPart, fieldPart, conditionsPart>>

\* The conditions that share one native object out
ConditionsStep ==
  /\ topic = "conditions" /\ Conditions!EditField
  /\ UNCHANGED <<topic, settingsPart, sessionPart, callPart, intakePart,
                 pollPart, runPart, associationsPart, fieldPart, preflightPart>>

Next ==
  \/ SettingsStep \/ SessionStep \/ CallsStep \/ IntakeStep
  \/ PollStep \/ RunStep \/ LinksStep \/ FieldStep \/ PreflightStep
  \/ ConditionsStep

vars == <<topic, settingsPart, sessionPart, callPart, intakePart, pollPart,
          runPart, associationsPart, fieldPart, preflightPart, conditionsPart>>

Spec == Init /\ [][Next]_vars
-----------------------------------------------------------------------------
(* Properties *)

\* The type invariant of the part that is the topic.
TypeOK ==
  /\ topic = "settings" => Settings!TypeOK
  /\ topic = "session" => Session!TypeOK
  /\ topic = "call" => Calls!TypeOK
  /\ topic = "intake" => Intake!TypeOK
  /\ topic = "poll" => Polls!TypeOK
  /\ topic = "run" => Run!TypeOK
  /\ topic = "associations" => Links!TypeOK
  /\ topic = "field" => Field!FieldTypeOK
\* "If that object is currently syncing -- real-time (webhook) or scheduled
\* polling -- pause both so nothing syncs against the edited configuration until
\* an operator reviews it" (server.ts:66-71): after an edit was answered, sync
\* stays off until a settings request, whatever fails and whenever the process
\* restarts, as long as no two configs are written at the same time.
PauseHolds == topic = "settings" => Settings!PauseHolds

\* The field rules and the natural key in use name fields of the objects that
\* are paired: re-pairing clears what describes the old ones, in memory and for
\* the next start, unless it is cut short or another edit overlaps it.
RulesFitPairing == topic = "settings" => Settings!RulesFitPairing

\* Refresh-token rotation is persisted (HANDOFF.md:107): the stored refresh token
\* is one the vendor takes, or its successor is held by the refresh in flight,
\* however callers, reconnections and refreshes overlap.
TokenKept == topic = "session" => Session!TokenKept

\* A connector taken as initialized calls the organization that is connected:
\* whoever replaces the connection has it built anew, unless an initialization
\* was under way when the flag was cleared.
ClientIsCurrent == topic = "session" => Session!ClientIsCurrent

\* A burst cannot exceed the vendor's limit (rateLimiter.ts:1-5): two requests
\* of one client are an interval apart, whatever retries and idle time lie
\* between them.
SlotsSpaced == topic = "call" => Calls!SlotsSpaced

\* "This worker persists an event before committing its Replay ID, giving
\* at-least-once delivery" (cdcWorker.ts:42-46): whatever workers disconnect or
\* overlap, no event at or before the committed replay id is missing.
StreamHasNoGap == topic = "intake" => Intake!StreamHasNoGap

\* A webhook's change that was acknowledged and not dropped is on the queue
\* exactly once, although the vendor may post it again and its record may by
\* then belong to another canonical object.
JobPerChange == topic = "intake" => Intake!JobPerChange

\* Polls of several processes that overlap leave no change and no deletion before
\* the committed cursor off the queue.
Covered == topic = "poll" => Polls!Covered

\* The subscription's limit holds: the records migrated in a month do not
\* exceed it, as long as no run begins before the last one was counted.
QuotaHolds == topic = "run" => Run!QuotaHolds

\* A completed run accounts for every record it read, whatever fails: one item
\* for each and an error item for each error.
ReportAccounts == topic = "run" => Run!ReportAccounts

\* A recorded link was made in the other CRM before, if that CRM has a relation to
\* the type, and the related record has a counterpart.
RecordedIsMade == topic = "associations" => Links!RecordedIsMade

\* One write carries a change of a well-configured field, and its echo is seen
\* as ours although the CRMs keep the value in different types.
EchoEnds == topic = "field" => Field!EchoEnds

\* A passed preflight rules out a write of a field that the target lacks or keeps
\* to itself, and no two types meet without a transform or a warning.
PassedIsWritable == topic = "preflight" => Preflight!PassedIsWritable

\* A webhook's record is resolved to the canonical object whose poll lists it.
ResolvedAsPolled == topic = "conditions" => Conditions!ResolvedAsPolled

-----------------------------------------------------------------------------
(* What the code does not promise: the README shows how each is broken. *)

\* PauseHolds also when two configs are written at the same time.
QuietUntilReviewed == topic = "settings" => Settings!QuietUntilReviewed

\* RulesFitPairing also when a re-pairing is cut short or overlapped.
NeverStaleRules == topic = "settings" => Settings!NeverStaleRules

\* A newly registered object does not sync before it was enrolled.
NewcomerIsQuiet == topic = "settings" => Settings!NewcomerIsQuiet

\* Nobody is told to reconnect while the stored token is good (HANDOFF.md:107).
NeverToldInVain == topic = "session" => Session!NeverToldInVain

\* ClientIsCurrent also when an initialization was under way at the reset.
NeverAnotherOrganization ==
  topic = "session" => Session!NeverAnotherOrganization

\* SlotsSpaced also between the clients that two initializations make.
SlotsSpacedAcrossClients == topic = "call" => Calls!SlotsSpacedAcrossClients

\* "Refresh the bearer on 401 once" (salesforceConnector.ts:53).
RefreshedOnce == topic = "call" => Calls!RefreshedOnce

\* JobPerChange also of a sender that leaves occurredAt out.
JobPerChangeUnstamped == topic = "intake" => Intake!JobPerChangeUnstamped

\* What is acknowledged while its record meets a condition is queued.
NoneDropped == topic = "intake" => Intake!NoneDropped

\* QuotaHolds also when runs overlap or fail halfway.
QuotaHoldsAlways == topic = "run" => Run!QuotaHoldsAlways

\* Nothing that was written is reported as an error.
ErrorsNotWritten == topic = "run" => Run!ErrorsNotWritten

\* RecordedIsMade also where Salesforce has no lookup to the type.
EveryRecordMade == topic = "associations" => Links!EveryRecordMade

\* The two CRMs end with the same associations.
SidesAgree == topic = "associations" => Links!SidesAgree

\* A mismatch of types without any transform keeps a preflight from passing, and
\* one with a transform in one direction does not ("A transform configured on only
\* one side (or one direction) still gets flagged, just downgraded to a warning",
\* preflight.ts:83-84).
UntransformedIsBlocked == topic = "preflight" => Preflight!UntransformedIsBlocked
OneSidedIsWarned == topic = "preflight" => Preflight!OneSidedIsWarned

\* A required field is written by every migration that passed the preflight.
RequiredIsWritten == topic = "preflight" => Preflight!RequiredIsWritten

\* ResolvedAsPolled also of a blank field under an ordering.
BlankIsOrderedAlike == topic = "conditions" => Conditions!BlankIsOrderedAlike

\* ResolvedAsPolled also of an object with an advanced SOQL condition.
AdvancedIsHeeded == topic = "conditions" => Conditions!AdvancedIsHeeded

=============================================================================
