---------------------------- MODULE AlertDigester ----------------------------
(***************************************************************************)
(* The digester that mails operators about sync jobs which need a human    *)
(* (engine/syncAlertDigester.ts), above a queue reduced to what the        *)
(* digester sees of it: the status and the attempts of each job.           *)
(*                                                                         *)
(* A check reads the settings, lists the dead-lettered and the reviewable  *)
(* jobs in two queries, marks those it has not seen before and mails them. *)
(* Checks are run by a timer and by operators, so two may overlap.         *)
(***************************************************************************)
EXTENDS Naturals, FiniteSets

CONSTANTS
  NJob,         \* jobs, numbered in the order of their creation
  Check,        \* checks that may be in progress at the same time
  Timer,        \* the one the process's timer begins; operators begin the others
  MaxAttempts,  \* maxAttempts of the queue
  MaxList,      \* the limit of the two lists, 200 in the code
  MaxReplays,   \* bound: replays by operators
  MaxLosses,    \* bound: mails the SMTP server does not take
  MaxUpsets     \* bound: restarts and changes of the notification settings

ASSUME ConstantsAssumption ==
  /\ Timer \in Check
  /\ NJob \in Nat \ {0} /\ MaxAttempts \in Nat \ {0} /\ MaxList \in Nat \ {0}
  /\ MaxReplays \in Nat /\ MaxLosses \in Nat /\ MaxUpsets \in Nat

Job == 1 .. NJob

VARIABLES
  status, attempts,  \* the row of each job
  enabled,           \* settings: notifications on and an address given
  alerted,           \* keys this process has marked
  check,             \* what each check is doing
  mailed,            \* history: keys this process has mailed
  lost,              \* history: keys in mails that were not taken
  heard,             \* history: jobs an operator was mailed about in the state
                     \* they have now, since they came into it
  replays, losses, upsets

rows   == <<status, attempts>>
mails  == <<mailed, lost, heard>>
bounds == <<replays, losses, upsets>>
vars   == <<rows, enabled, alerted, check, mails, bounds>>

Idle == [at |-> "idle", dead |-> {}, review |-> {}, fresh |-> {}]

Init ==
  /\ status = [j \in Job |-> "absent"]
  /\ attempts = [j \in Job |-> 0]
  /\ enabled \in BOOLEAN
  /\ alerted = {}
  /\ check = [c \in Check |-> Idle]
  /\ mailed = {} /\ lost = {} /\ heard = {}
  /\ replays = 0 /\ losses = 0 /\ upsets = 0

NeedsHuman == {"dead_letter", "manual_review"}

-----------------------------------------------------------------------------
(* The queue, as its rows change under the digester *)

SetRow(j, s, a) ==
  /\ status' = [status EXCEPT ![j] = s]
  /\ attempts' = [attempts EXCEPT ![j] = a]
  /\ heard' = heard \ {j}
  /\ UNCHANGED <<enabled, alerted, check, mailed, lost>>

Enqueue(j) ==
  /\ status[j] = "absent"
  /\ \A i \in 1 .. j - 1 : status[i] # "absent"
  /\ SetRow(j, "queued", 0)
  /\ UNCHANGED bounds

\* Mutant: one attempt more than allowed is made.
AttemptOnceMore(j) ==
  LET a == attempts[j] + 1 IN
  /\ status[j] = "queued"
  /\ \/ SetRow(j, "completed", a)
     \/ SetRow(j, "manual_review", a)
     \/ SetRow(j, IF a > MaxAttempts THEN "dead_letter" ELSE "queued", a)
  /\ UNCHANGED bounds

\* One claim and what comes of it
Attempt(j) ==
  LET a == attempts[j] + 1 IN
  /\ status[j] = "queued"
  /\ \/ SetRow(j, "completed", a)
     \/ SetRow(j, "manual_review", a)
     \/ SetRow(j, IF a >= MaxAttempts THEN "dead_letter" ELSE "queued", a)
  /\ UNCHANGED bounds

\* A job that has failed, "retry" included, which is "queued" here
Dismiss(j) ==
  /\ status[j] \in NeedsHuman \/ (status[j] = "queued" /\ attempts[j] > 0)
  /\ SetRow(j, "dismissed", attempts[j])
  /\ UNCHANGED bounds

\* A reviewed delete is approved and carried out.
Approve(j) ==
  /\ status[j] = "manual_review"
  /\ SetRow(j, "completed", attempts[j])
  /\ UNCHANGED bounds

\* Whatever the job's status is
Replay(j) ==
  /\ status[j] # "absent"
  /\ replays < MaxReplays
  /\ replays' = replays + 1
  /\ SetRow(j, "queued", 0)
  /\ UNCHANGED <<losses, upsets>>

-----------------------------------------------------------------------------
(* checkNow() *)

\* A job as a check has read it
Entry(j) == [job |-> j, status |-> status[j], attempts |-> attempts[j]]

alertKey(e) == <<e.job, e.status, e.attempts>>

\* The job of key k is in the state the key names.
Needs(k) == status[k[1]] = k[2] /\ attempts[k[1]] = k[3]

\* list(200, status): the newest jobs first
List(s) ==
  LET jobs == {j \in Job : status[j] = s} IN
  {Entry(j) : j \in {i \in jobs : Cardinality({k \in jobs : k > i}) < MaxList}}

At(c, stage) == check[c].at = stage

\* The timer fires, or an operator asks for a check; nothing is looked at
\* while notifications are off.
Begin(c) ==
  /\ At(c, "idle")
  /\ enabled
  /\ check' = [check EXCEPT ![c].at = "list-dead"]
  /\ UNCHANGED <<rows, enabled, alerted, mails, bounds>>

\* The two queries of Promise.all, one after the other
ListDead(c) ==
  /\ At(c, "list-dead")
  /\ check' = [check EXCEPT ![c].at = "list-review",
                            ![c].dead = List("dead_letter")]
  /\ UNCHANGED <<rows, enabled, alerted, mails, bounds>>

ListReview(c) ==
  /\ At(c, "list-review")
  /\ check' = [check EXCEPT ![c].at = "filter",
                            ![c].review = List("manual_review")]
  /\ UNCHANGED <<rows, enabled, alerted, mails, bounds>>

\* Mutant: a job is never news again, whatever becomes of it.
FreshByJob(c) ==
  {e \in check[c].dead \cup check[c].review : \A k \in alerted : k[1] # e.job}

Fresh(c) ==
  {e \in check[c].dead \cup check[c].review : alertKey(e) \notin alerted}

\* Mutant: the keys are marked only by the check that has mailed them.
MarkLater(c) ==
  /\ At(c, "filter")
  /\ check' = [check EXCEPT ![c] = IF Fresh(c) = {} THEN Idle
                 ELSE [Idle EXCEPT !.at = "send", !.fresh = Fresh(c)]]
  /\ UNCHANGED <<rows, enabled, alerted, mails, bounds>>

\* What is new is marked and the mail is composed, without an await between.
Mark(c) ==
  /\ At(c, "filter")
  /\ alerted' = alerted \cup {alertKey(e) : e \in Fresh(c)}
  /\ check' = [check EXCEPT ![c] = IF Fresh(c) = {} THEN Idle
                 ELSE [Idle EXCEPT !.at = "send", !.fresh = Fresh(c)]]
  /\ UNCHANGED <<rows, enabled, mails, bounds>>

Keys(E) == {alertKey(e) : e \in E}

Send(c) ==
  LET fresh == check[c].fresh IN
  /\ At(c, "send")
  /\ mailed' = mailed \cup Keys(fresh)
  /\ heard' = heard \cup {k[1] : k \in {k \in Keys(fresh) : Needs(k)}}
  /\ check' = [check EXCEPT ![c] = Idle]
  /\ UNCHANGED <<rows, enabled, alerted, lost, bounds>>

\* send() throws: tick() logs it, and the keys stay marked.
SendFails(c) ==
  /\ At(c, "send")
  /\ losses < MaxLosses
  /\ losses' = losses + 1
  /\ lost' = lost \cup Keys(check[c].fresh)
  /\ check' = [check EXCEPT ![c] = Idle]
  /\ UNCHANGED <<rows, enabled, alerted, mailed, heard, replays, upsets>>

-----------------------------------------------------------------------------
(* Operators and the process *)

Toggle ==
  /\ upsets < MaxUpsets
  /\ upsets' = upsets + 1
  /\ enabled' = ~enabled
  /\ UNCHANGED <<rows, alerted, check, mails, replays, losses>>

\* The set of marked keys lives in memory only.
Restart ==
  /\ upsets < MaxUpsets
  /\ upsets' = upsets + 1
  /\ alerted' = {}
  /\ check' = [c \in Check |-> Idle]
  /\ mailed' = {} /\ lost' = {}
  /\ UNCHANGED <<rows, enabled, heard, replays, losses>>

\* The rest of a check that has begun
Proceed(c) == ListDead(c) \/ ListReview(c) \/ Mark(c) \/ Send(c) \/ SendFails(c)

Next ==
  \/ \E j \in Job : Enqueue(j) \/ Attempt(j) \/ Dismiss(j) \/ Approve(j) \/ Replay(j)
  \/ \E c \in Check : Begin(c) \/ Proceed(c)
  \/ Toggle
  \/ Restart

Spec == Init /\ [][Next]_vars

\* The timer fires every five minutes for as long as the process runs; operators
\* need never ask.  A check that has begun goes on: each query is answered and a
\* mail is taken or refused in the end.
FairSpec ==
  /\ Spec
  /\ WF_vars(Begin(Timer))
  /\ \A c \in Check : WF_vars(Proceed(c))

-----------------------------------------------------------------------------
(* Properties *)

Key == Job \X NeedsHuman \X (1 .. MaxAttempts)

EntryType == [job : Job, status : NeedsHuman, attempts : 1 .. MaxAttempts]

\* Rows keep the queue's bounds, and the digester marks and mails nothing but
\* jobs that need a human.
TypeOK ==
  /\ status \in [Job -> NeedsHuman \cup {"absent", "queued", "completed",
                                         "dismissed"}]
  /\ attempts \in [Job -> 0 .. MaxAttempts]
  /\ enabled \in BOOLEAN
  /\ alerted \subseteq Key /\ mailed \subseteq Key /\ lost \subseteq Key
  /\ \A c \in Check :
       /\ check[c].at \in {"idle", "list-dead", "list-review", "filter", "send"}
       /\ check[c].dead \cup check[c].review \cup check[c].fresh
            \subseteq EntryType

\* No process mails the same state of a job twice, with two checks overlapping.
MailedOnce ==
  \A c \in Check : At(c, "send") =>
    /\ Keys(check[c].fresh) \cap mailed = {}
    /\ \A d \in Check \ {c} : Keys(check[c].fresh) \cap Keys(check[d].fresh) = {}

\* So many newer jobs have the same status that the list ends before this one.
Crowded(k) ==
  Cardinality({i \in Job : i > k[1] /\ status[i] = k[2]}) >= MaxList

\* A state of a job the running process has not marked is mailed about from then
\* on, or left: the timer alone sees to it, whatever operators' checks overlap
\* it, other mails are lost or the process restarts.  Exempt is a state that newer
\* jobs keep off the list, or that was in a mail which was not taken since the
\* process began.
EveryNewStateMailed ==
  \A k \in Key :
    <>[](enabled /\ ~Crowded(k) /\ k \notin lost)
      => [](Needs(k) /\ k \notin alerted => <>(~Needs(k) \/ k \in mailed))

\* Does not hold: while notifications are on, whenever a job comes to need a
\* human, again or for the first time, an operator is mailed about it unless it
\* moves on.
EveryFailureTold ==
  \A j \in Job :
    LET waiting == status[j] \in NeedsHuman IN
    <>[]enabled => [](waiting => <>(~waiting \/ j \in heard))
=============================================================================
