------------------------- MODULE AlertDigesterProofs -------------------------
(* Theorems about the digester, for any number of jobs and of checks that     *)
(* overlap, for lists of any length.                                          *)
EXTENDS AlertDigester, TLAPS

Statuses == NeedsHuman \cup {"absent", "queued", "completed", "dismissed"}

Stages == {"idle", "list-dead", "list-review", "filter", "send"}

CheckType == [at : Stages, dead : SUBSET EntryType, review : SUBSET EntryType,
              fresh : SUBSET EntryType]

\* A job that may be attempted has attempts left, one that needs a human has made
\* some.
RowsInv ==
  /\ status \in [Job -> Statuses]
  /\ attempts \in [Job -> 0 .. MaxAttempts]
  /\ \A j \in Job : /\ status[j] = "queued" => attempts[j] < MaxAttempts
                    /\ status[j] \in NeedsHuman => attempts[j] > 0

TypeInv ==
  /\ RowsInv
  /\ enabled \in BOOLEAN
  /\ alerted \subseteq Key /\ mailed \subseteq Key /\ lost \subseteq Key
  /\ check \in [Check -> CheckType]

-----------------------------------------------------------------------------
(* Types *)

LEMMA RowsBegin == ASSUME Init PROVE RowsInv
BY ConstantsAssumption DEF Init, RowsInv, Statuses, NeedsHuman

\* A step of the queue
QueueStep ==
  \E j \in Job : Enqueue(j) \/ Attempt(j) \/ Dismiss(j) \/ Approve(j) \/ Replay(j)

LEMMA RowChanges ==
  ASSUME RowsInv, NEW j \in Job, NEW s \in Statuses, NEW a \in 0 .. MaxAttempts,
         SetRow(j, s, a), s = "queued" => a < MaxAttempts,
         s \in NeedsHuman => a > 0
  PROVE  RowsInv'
<1>1. /\ status' = [status EXCEPT ![j] = s]
      /\ attempts' = [attempts EXCEPT ![j] = a]
  BY DEF SetRow
<1>2. status' \in [Job -> Statuses] /\ attempts' \in [Job -> 0 .. MaxAttempts]
  BY <1>1 DEF RowsInv
<1>3. /\ status'[j] = s /\ attempts'[j] = a
      /\ \A i \in Job \ {j} : status'[i] = status[i] /\ attempts'[i] = attempts[i]
  BY <1>1 DEF RowsInv
<1>4. QED BY <1>2, <1>3 DEF RowsInv

LEMMA RowsGoOn == ASSUME RowsInv, QueueStep PROVE RowsInv'
<1> PICK j \in Job : Enqueue(j) \/ Attempt(j) \/ Dismiss(j) \/ Approve(j) \/ Replay(j)
  BY DEF QueueStep
<1>1. MaxAttempts \in Nat \ {0} /\ attempts[j] \in 0 .. MaxAttempts
  BY ConstantsAssumption DEF RowsInv
<1>2. CASE Enqueue(j)
  BY <1>1, <1>2, RowChanges DEF Enqueue, Statuses, NeedsHuman
<1>3. CASE Attempt(j)
  <2>1. attempts[j] + 1 \in 0 .. MaxAttempts BY <1>1, <1>3 DEF Attempt, RowsInv
  <2>2. QED BY <1>1, <1>3, <2>1, RowChanges DEF Attempt, Statuses, NeedsHuman
<1>4. CASE Dismiss(j)
  BY <1>1, <1>4, RowChanges DEF Dismiss, Statuses, NeedsHuman
<1>5. CASE Approve(j)
  BY <1>1, <1>5, RowChanges DEF Approve, Statuses, NeedsHuman
<1>6. CASE Replay(j)
  BY <1>1, <1>6, RowChanges DEF Replay, Statuses, NeedsHuman
<1>7. QED BY <1>2, <1>3, <1>4, <1>5, <1>6

LEMMA TypesBegin == ASSUME Init PROVE TypeInv
<1>1. Idle \in CheckType BY DEF Idle, CheckType, Stages
<1>2. check \in [Check -> CheckType] BY <1>1 DEF Init
<1>3. QED BY <1>2, RowsBegin DEF Init, TypeInv

\* What a check reads of a job
LEMMA EntriesFit ==
  ASSUME RowsInv, NEW s \in NeedsHuman
  PROVE  List(s) \subseteq EntryType
<1> SUFFICES ASSUME NEW j \in Job, status[j] = s PROVE Entry(j) \in EntryType
  BY DEF List
<1>1. attempts[j] \in 1 .. MaxAttempts BY ConstantsAssumption DEF RowsInv
<1>2. QED BY <1>1 DEF Entry, EntryType

LEMMA KeysFit ==
  ASSUME NEW E \in SUBSET EntryType
  PROVE  Keys(E) \subseteq Key
BY DEF Keys, EntryType, Key, alertKey

\* A step of the checks alone
LEMMA CheckGoesOn ==
  ASSUME TypeInv, NEW c \in Check, NEW k \in CheckType,
         check' = [check EXCEPT ![c] = k],
         UNCHANGED <<rows, enabled>>,
         alerted' \subseteq Key, mailed' \subseteq Key, lost' \subseteq Key
  PROVE  TypeInv'
BY DEF TypeInv, RowsInv, rows

LEMMA TypesGoOn == ASSUME TypeInv, Next PROVE TypeInv'
<1>1. check \in [Check -> CheckType] /\ Idle \in CheckType /\ RowsInv
  BY DEF TypeInv, Idle, CheckType, Stages
<1>2. CASE QueueStep
  <2>1. RowsInv' BY <1>2, RowsGoOn DEF TypeInv
  <2>2. UNCHANGED <<enabled, alerted, check, mailed, lost>>
    BY <1>2 DEF QueueStep, Enqueue, Attempt, Dismiss, Approve, Replay, SetRow
  <2>3. QED BY <2>1, <2>2 DEF TypeInv
<1>3. ASSUME NEW c \in Check, Begin(c) PROVE TypeInv'
  <2>1. [check[c] EXCEPT !.at = "list-dead"] \in CheckType
    BY <1>1 DEF CheckType, Stages
  <2>2. check' = [check EXCEPT ![c] = [check[c] EXCEPT !.at = "list-dead"]]
    BY <1>1, <1>3 DEF Begin
  <2>3. QED
    BY <1>3, <2>1, <2>2, CheckGoesOn DEF Begin, mails, TypeInv
<1>4. ASSUME NEW c \in Check, ListDead(c) PROVE TypeInv'
  <2> DEFINE k == [check[c] EXCEPT !.at = "list-review", !.dead = List("dead_letter")]
  <2>1. k \in CheckType BY <1>1, EntriesFit DEF CheckType, Stages, NeedsHuman
  <2>2. check' = [check EXCEPT ![c] = k] BY <1>1, <1>4 DEF ListDead
  <2> HIDE DEF k
  <2>3. QED BY <1>4, <2>1, <2>2, CheckGoesOn DEF ListDead, mails, TypeInv
<1>5. ASSUME NEW c \in Check, ListReview(c) PROVE TypeInv'
  <2> DEFINE k == [check[c] EXCEPT !.at = "filter", !.review = List("manual_review")]
  <2>1. k \in CheckType BY <1>1, EntriesFit DEF CheckType, Stages, NeedsHuman
  <2>2. check' = [check EXCEPT ![c] = k] BY <1>1, <1>5 DEF ListReview
  <2> HIDE DEF k
  <2>3. QED BY <1>5, <2>1, <2>2, CheckGoesOn DEF ListReview, mails, TypeInv
<1>6. ASSUME NEW c \in Check, Mark(c) PROVE TypeInv'
  <2> DEFINE k == IF Fresh(c) = {} THEN Idle
                  ELSE [Idle EXCEPT !.at = "send", !.fresh = Fresh(c)]
  <2>1. Fresh(c) \in SUBSET EntryType BY <1>1 DEF Fresh, CheckType
  <2>2. k \in CheckType BY <2>1 DEF Idle, CheckType, Stages
  <2>3. check' = [check EXCEPT ![c] = k] BY <1>6 DEF Mark
  <2>4. alerted' \subseteq Key BY <1>6, <2>1, KeysFit DEF Mark, Keys, TypeInv
  <2> HIDE DEF k
  <2>5. QED BY <1>6, <2>2, <2>3, <2>4, CheckGoesOn DEF Mark, mails, TypeInv
<1>7. ASSUME NEW c \in Check, Send(c) PROVE TypeInv'
  <2>1. Keys(check[c].fresh) \subseteq Key BY <1>1, KeysFit DEF CheckType
  <2>2. QED BY <1>1, <1>7, <2>1, CheckGoesOn DEF Send, TypeInv
<1>8. ASSUME NEW c \in Check, SendFails(c) PROVE TypeInv'
  <2>1. Keys(check[c].fresh) \subseteq Key BY <1>1, KeysFit DEF CheckType
  <2>2. QED BY <1>1, <1>8, <2>1, CheckGoesOn DEF SendFails, TypeInv
<1>9. CASE Toggle BY <1>9 DEF Toggle, TypeInv, RowsInv, rows, mails
<1>10. CASE Restart BY <1>1, <1>10 DEF Restart, TypeInv, RowsInv, rows
<1>11. QED
  BY <1>2, <1>3, <1>4, <1>5, <1>6, <1>7, <1>8, <1>9, <1>10
  DEF Next, QueueStep, Proceed

LEMMA TypesAlwaysFit == Spec => []TypeInv
<1>1. TypeInv /\ UNCHANGED vars => TypeInv'
  BY DEF vars, rows, mails, TypeInv, RowsInv
<1>2. TypeInv /\ [Next]_vars => TypeInv' BY <1>1, TypesGoOn
<1>3. QED BY <1>2, TypesBegin, PTL DEF Spec

\* Rows keep the queue's bounds, and the digester marks and mails nothing but jobs
\* that need a human (syncAlertDigester.ts, checkNow()).
THEOREM TypeCorrect == Spec => []TypeOK
<1>1. TypeInv => TypeOK
  BY DEF TypeInv, RowsInv, TypeOK, CheckType, Stages, Statuses
<1>2. QED BY <1>1, TypesAlwaysFit, PTL

-----------------------------------------------------------------------------
(* Mailed once *)

\* The keys in the mail that a check is about to send
Unsent(c) == Keys(check[c].fresh)

\* What is about to be mailed was marked, by this check and by no other.
MarkedFirst ==
  /\ mailed \subseteq alerted
  /\ \A c \in Check : /\ Unsent(c) \subseteq alerted
                      /\ Unsent(c) \cap mailed = {}
                      /\ \A d \in Check \ {c} : Unsent(c) \cap Unsent(d) = {}

LEMMA MarkStaysFirst == ASSUME TypeInv, MarkedFirst, Next PROVE MarkedFirst'
<1>1. check \in [Check -> CheckType] BY DEF TypeInv
<1>2. \A c \in Check : check'[c] = check[c] => Unsent(c)' = Unsent(c)
  BY DEF Unsent, Keys, alertKey
<1>3. CASE QueueStep \/ Toggle
  <2>1. UNCHANGED <<alerted, check, mailed>>
    BY <1>3 DEF QueueStep, Enqueue, Attempt, Dismiss, Approve, Replay, SetRow, Toggle,
       mails
  <2>2. QED BY <1>2, <2>1 DEF MarkedFirst
<1>4. ASSUME NEW c \in Check,
             Begin(c) \/ ListDead(c) \/ ListReview(c) \/ SendFails(c)
      PROVE  MarkedFirst'
  <2>1. /\ check'[c].fresh \in {check[c].fresh, {}} /\ UNCHANGED <<alerted, mailed>>
        /\ \A d \in Check \ {c} : check'[d] = check[d]
    BY <1>1, <1>4 DEF Begin, ListDead, ListReview, SendFails, mails, Idle, CheckType
  <2>2. Unsent(c)' \in {Unsent(c), {}} BY <2>1 DEF Unsent, Keys, alertKey
  <2>3. QED BY <1>2, <2>1, <2>2 DEF MarkedFirst
<1>5. ASSUME NEW c \in Check, Mark(c) PROVE MarkedFirst'
  <2>1. /\ alerted' = alerted \cup Keys(Fresh(c)) /\ mailed' = mailed
        /\ \A d \in Check \ {c} : check'[d] = check[d]
        /\ check'[c] = IF Fresh(c) = {} THEN Idle
                       ELSE [Idle EXCEPT !.at = "send", !.fresh = Fresh(c)]
    BY <1>1, <1>5 DEF Mark, mails, Keys
  <2>2. check'[c].fresh = Fresh(c) BY <2>1 DEF Idle
  <2>3. Unsent(c)' \subseteq Keys(Fresh(c)) BY <2>2 DEF Unsent, Keys, alertKey
  <2>4. Keys(Fresh(c)) \cap alerted = {} BY DEF Fresh, Keys
  <2>5. QED BY <1>2, <2>1, <2>3, <2>4 DEF MarkedFirst
<1>6. ASSUME NEW c \in Check, Send(c) PROVE MarkedFirst'
  <2>1. /\ alerted' = alerted /\ check'[c].fresh = {}
        /\ mailed' = mailed \cup Keys(check[c].fresh)
        /\ \A d \in Check \ {c} : check'[d] = check[d]
    BY <1>1, <1>6 DEF Send, Idle
  <2>2. mailed' = mailed \cup Unsent(c) /\ Unsent(c)' = {} BY <2>1 DEF Unsent, Keys
  <2>3. QED BY <1>2, <2>1, <2>2 DEF MarkedFirst
<1>7. CASE Restart
  <2>1. mailed' = {} /\ \A c \in Check : check'[c].fresh = {}
    BY <1>7 DEF Restart, Idle
  <2>2. \A c \in Check : Unsent(c)' = {} BY <2>1 DEF Unsent, Keys
  <2>3. QED BY <2>1, <2>2 DEF MarkedFirst
<1>8. QED
  BY <1>3, <1>4, <1>5, <1>6, <1>7 DEF Next, QueueStep, Proceed

\* No process mails the same state of a job twice, with two checks overlapping
\* (syncAlertDigester.ts, checkNow()): the keys are marked without an await after
\* they were found unmarked.
THEOREM AlwaysMailedOnce == Spec => []MailedOnce
<1>1. Init => MarkedFirst BY DEF Init, MarkedFirst, Unsent, Keys, Idle
<1>2. MarkedFirst /\ UNCHANGED vars => MarkedFirst'
  BY DEF vars, mails, MarkedFirst, Unsent, Keys, alertKey
<1>3. TypeInv /\ MarkedFirst /\ [Next]_vars => MarkedFirst'
  BY <1>2, MarkStaysFirst
<1>4. MarkedFirst => MailedOnce BY DEF MarkedFirst, MailedOnce, Unsent
<1>5. QED BY <1>1, <1>3, <1>4, TypesAlwaysFit, PTL DEF Spec
=============================================================================
