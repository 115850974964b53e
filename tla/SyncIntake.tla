----------------------------- MODULE SyncIntake -----------------------------
(* The scheduled poller: SyncPoller (engine/syncPoller.ts) over the queries  *)
(* of a connector and the cursors of PostgresReplayCursorStore, for one CRM  *)
(* and one canonical object. The other CRM of the same poll is a delay       *)
(* before the first step or after the last one.                              *)
EXTENDS Naturals, FiniteSets

CONSTANTS
  Process,    \* server processes, each with one SyncPoller
  Record,     \* records of the native object, numbered: vendors break ties
  Foreign,    \* records that the id map links to another canonical object
  Paging,     \* "locator": a query is evaluated once (Salesforce);
              \* "offset": each page evaluates it again (HubSpot's search)
  PageSize,   \* records per page
  Lookback,   \* polling.lookbackDays, on the model's clock
  None,       \* no cursor yet
  MaxTime,    \* bound: the clock
  MaxFaults   \* bound: failed calls and crashes

ASSUME IntakeAssumption ==
  /\ Record \subseteq Nat /\ IsFiniteSet(Record)
  /\ Foreign \subseteq Record
  /\ Paging \in {"locator", "offset"}
  /\ PageSize \in Nat \ {0} /\ Lookback \in Nat
  /\ MaxTime \in Nat /\ MaxFaults \in Nat
  /\ None \notin Nat

Time == 0 .. MaxTime

VARIABLES
  now,        \* the clock of vendors and servers
  modified,   \* LastModifiedDate / hs_lastmodifieddate of each record
  gone,       \* when it was deleted, 0 while it lives
  enabled,    \* objects[type].enabled, with a direction that reads this CRM
  cursor,     \* the committed row of replay_cursors, or None
  enqueued,   \* the events handed to SyncEngine.enqueue, by their event ids
  poll,       \* per process: the locals of its pollOne, or Idle
  starts,     \* history: the instants at which a poll took its next cursor
  horizon,    \* history: the latest "now - lookback" a poll began from
  faults

crmVars == <<modified, gone>>
vars == <<now, crmVars, enabled, cursor, enqueued, poll, starts, horizon,
          faults>>

Idle == [at |-> "idle", since |-> None, started |-> 0, after |-> 0,
         frozen |-> {}, events |-> {}]

Updated(r, t) == <<"updated", r, t>>
Deleted(r, t) == <<"deleted", r, t>>
Event == {"updated", "deleted"} \X Record \X Time

Init ==
  /\ now = 1
  /\ modified = [r \in Record |-> 0]
  /\ gone = [r \in Record |-> 0]
  /\ enabled = TRUE
  /\ cursor = None
  /\ enqueued = {}
  /\ poll = [p \in Process |-> Idle]
  /\ starts = {}
  /\ horizon = 0
  /\ faults = 0

-----------------------------------------------------------------------------
(* The world around the poller *)

Advance ==
  /\ now < MaxTime
  /\ now' = now + 1
  /\ UNCHANGED <<crmVars, enabled, cursor, enqueued, poll, starts, horizon,
                 faults>>

\* Somebody edits a record; the vendor stamps it.
Change(r) ==
  /\ gone[r] = 0
  /\ modified[r] < now
  /\ modified' = [modified EXCEPT ![r] = now]
  /\ UNCHANGED <<now, gone, enabled, cursor, enqueued, poll, starts, horizon,
                 faults>>

Delete(r) ==
  /\ gone[r] = 0
  /\ gone' = [gone EXCEPT ![r] = now]
  /\ UNCHANGED <<now, modified, enabled, cursor, enqueued, poll, starts,
                 horizon, faults>>

Toggle ==
  /\ enabled' = ~enabled
  /\ UNCHANGED <<now, crmVars, cursor, enqueued, poll, starts, horizon, faults>>

-----------------------------------------------------------------------------
(* What the vendors' queries return *)

\* LastModifiedDate > since, hs_lastmodifieddate GT since: strictly later
Matching(since) == {r \in Record : gone[r] = 0 /\ modified[r] > since}

\* HubSpot sorts by modification time, Salesforce keeps the order it froze.
Before(q, r) ==
  IF Paging = "offset"
    THEN modified[q] < modified[r] \/ (modified[q] = modified[r] /\ q < r)
    ELSE q < r

View(s) == IF Paging = "offset" \/ s.after = 0 THEN Matching(s.since) ELSE s.frozen

Rank(set, r) == Cardinality({q \in set : Before(q, r)})

PageOf(s) == {r \in View(s) : /\ s.after <= Rank(View(s), r)
                              /\ Rank(View(s), r) < s.after + PageSize}

\* Mutant: deletions are listed strictly later, as changes are.
DeletedSinceStrictly(since) ==
  {r \in Record \ Foreign : gone[r] # 0 /\ gone[r] > since}

\* deletedDate / hs_lastmodifieddate of an archived record: since or later.
\* Records linked to another canonical object are left to that object's poll.
DeletedSince(since) ==
  {r \in Record \ Foreign : gone[r] # 0 /\ gone[r] >= since}

-----------------------------------------------------------------------------
(* tick() and pollObject() *)

Polling(p) == poll[p].at # "idle"

\* The schedule's tick, at a time computed from an interval or a cron expression,
\* or POST /api/sync/poll-now: one poll of a type at a time, a second one returns
\* at once with the last summary.
Begin(p) ==
  /\ enabled /\ ~Polling(p)
  /\ poll' = [poll EXCEPT ![p] = [Idle EXCEPT !.at = "cursor"]]
  /\ UNCHANGED <<now, crmVars, enabled, cursor, enqueued, starts, horizon,
                 faults>>

-----------------------------------------------------------------------------
(* pollOne(), one action per awaited call *)

At(p, l) == poll[p].at = l

ReadCursor(p) ==
  /\ At(p, "cursor")
  /\ poll' = [poll EXCEPT ![p].at = "start", ![p].since = cursor]
  /\ UNCHANGED <<now, crmVars, enabled, cursor, enqueued, starts, horizon,
                 faults>>

LookedBack == IF now > Lookback THEN now - Lookback ELSE 0

\* The reply to the cursor's query; pollStartedAt is taken before any page.
StartPaging(p) ==
  /\ At(p, "start")
  /\ poll' = [poll EXCEPT ![p].at = "page",
                          ![p].since = IF @ = None THEN LookedBack ELSE @,
                          ![p].started = now]
  /\ starts' = starts \cup {now}
  /\ horizon' = IF poll[p].since = None /\ LookedBack > horizon
                  THEN LookedBack ELSE horizon
  /\ UNCHANGED <<now, crmVars, enabled, cursor, enqueued, faults>>

Page(p) ==
  LET s == poll[p]
      more == s.after + PageSize < Cardinality(View(s))
  IN /\ At(p, "page")
     /\ poll' = [poll EXCEPT
          ![p].at = IF more THEN "page" ELSE "deleted",
          ![p].frozen = IF more /\ Paging = "locator" THEN View(s) ELSE {},
          ![p].after = IF more THEN s.after + PageSize ELSE 0,
          ![p].events = @ \cup {Updated(r, modified[r]) :
                                  r \in {q \in PageOf(s) : gone[q] = 0}}]
     /\ UNCHANGED <<now, crmVars, enabled, cursor, enqueued, starts, horizon,
                    faults>>

ListDeleted(p) ==
  /\ At(p, "deleted")
  /\ poll' = [poll EXCEPT
       ![p].at = "enqueue",
       ![p].events = @ \cup {Deleted(r, gone[r]) : r \in DeletedSince(poll[p].since)}]
  /\ UNCHANGED <<now, crmVars, enabled, cursor, enqueued, starts, horizon,
                 faults>>

\* An event id is inserted once (ON CONFLICT DO NOTHING).
EnqueueEvents(p) ==
  /\ At(p, "enqueue")
  /\ enqueued' = enqueued \cup poll[p].events
  /\ poll' = [poll EXCEPT ![p].at = "commit"]
  /\ UNCHANGED <<now, crmVars, enabled, cursor, starts, horizon, faults>>

\* Mutant: the next cursor is the time of the commit.
CommitNow(p) ==
  /\ At(p, "commit")
  /\ cursor' = now
  /\ poll' = [poll EXCEPT ![p] = Idle]
  /\ UNCHANGED <<now, crmVars, enabled, enqueued, starts, horizon, faults>>

Commit(p) ==
  /\ At(p, "commit")
  /\ cursor' = poll[p].started
  /\ poll' = [poll EXCEPT ![p] = Idle]
  /\ UNCHANGED <<now, crmVars, enabled, enqueued, starts, horizon, faults>>

\* Mutant: no finally, the type stays in runningTypes.
PollFailsForGood(p) ==
  /\ Polling(p)
  /\ faults < MaxFaults
  /\ faults' = faults + 1
  /\ poll' = [poll EXCEPT ![p].at = "failed"]
  /\ UNCHANGED <<now, crmVars, enabled, cursor, enqueued, starts, horizon>>

\* A call throws, which is counted as an error, or the process dies; nothing is
\* committed, and the schedule, which is in memory, starts anew.
PollFails(p) ==
  /\ Polling(p)
  /\ faults < MaxFaults
  /\ faults' = faults + 1
  /\ poll' = [poll EXCEPT ![p] = Idle]
  /\ UNCHANGED <<now, crmVars, enabled, cursor, enqueued, starts, horizon>>

-----------------------------------------------------------------------------
PollStep(p) == \/ ReadCursor(p) \/ StartPaging(p) \/ Page(p) \/ ListDeleted(p)
               \/ EnqueueEvents(p) \/ Commit(p)

World == \/ Advance
         \/ \E r \in Record : Change(r) \/ Delete(r)
         \/ Toggle

Next == \/ World
        \/ \E p \in Process : \/ Begin(p) \/ PollStep(p)
                              \/ PollFails(p)

Spec == Init /\ [][Next]_vars

\* Time passes, timers fire and calls are answered; nobody has to edit.
FairSpec == Spec /\ WF_vars(Advance)
                 /\ \A p \in Process : WF_vars(Begin(p)) /\ WF_vars(PollStep(p))

-----------------------------------------------------------------------------
TypeOK ==
  /\ now \in Time
  /\ modified \in [Record -> Time] /\ gone \in [Record -> Time]
  /\ enabled \in BOOLEAN
  /\ cursor \in Time \cup {None}
  /\ enqueued \subseteq Event
  /\ poll \in [Process ->
       [at : {"idle", "cursor", "start", "page", "deleted", "enqueue", "commit"},
        since : Time \cup {None}, started : Time, after : Nat,
        frozen : SUBSET Record, events : SUBSET Event]]
  /\ starts \subseteq Time /\ horizon \in Time
  /\ faults \in 0 .. MaxFaults

\* Nothing falls between two polls: whatever was last changed before the
\* committed cursor has been enqueued, whichever page it was on, whoever polled
\* meanwhile and wherever a poll died. Exempt are changes older than the first
\* look back, and those made in the very instant a poll began.
ChangesCovered ==
  \A r \in Record :
    (/\ cursor # None /\ gone[r] = 0
     /\ horizon < modified[r] /\ modified[r] < cursor
     /\ modified[r] \notin starts)
    => Updated(r, modified[r]) \in enqueued

\* The same of deletions, which are listed from the cursor on: not even the
\* instant of the poll is exempt.
DeletionsCovered ==
  \A r \in Record \ Foreign :
    (cursor # None /\ horizon < gone[r] /\ gone[r] < cursor)
    => Deleted(r, gone[r]) \in enqueued

\* No poll misses a change or a deletion that another one leaves behind.
Covered == ChangesCovered /\ DeletionsCovered

\* What "Captured before paging starts so a record changed mid-poll isn't
\* skipped next cycle" (syncPoller.ts:202) says, without the exemption.
ChangedMidPollSeen ==
  \A r \in Record :
    (/\ cursor # None /\ gone[r] = 0
     /\ horizon < modified[r] /\ modified[r] < cursor)
    => Updated(r, modified[r]) \in enqueued

\* While the schedule stays on, a poll that failed, crashed or was overlapped
\* does not stop the next one: every change is enqueued or superseded.
ChangeIsSeen ==
  <>[]enabled =>
    \A r \in Record : \A t \in 1 .. MaxTime - 1 :
      modified[r] = t ~> \/ modified[r] # t \/ gone[r] # 0
                         \/ t \in starts \/ t <= horizon
                         \/ Updated(r, t) \in enqueued
=============================================================================
