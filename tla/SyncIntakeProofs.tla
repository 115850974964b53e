--------------------------- MODULE SyncIntakeProofs ---------------------------
(* Polls leave nothing behind: for any number of processes that poll at the   *)
(* same time, of records, of failed calls, for pages of any size and any look  *)
(* back. The theorem is about paging by locator, as Salesforce does it; paging *)
(* by offset does skip records (see the README).                               *)
EXTENDS SyncIntake, FiniteSetTheorems, TLAPS

PollShape ==
  [at : {"idle", "cursor", "start", "page", "deleted", "enqueue", "commit"},
   since : Nat \cup {None}, started : Nat, after : Nat,
   frozen : SUBSET Record,
   events : SUBSET ({"updated", "deleted"} \X Record \X Nat)]

Shape ==
  /\ now \in Nat \ {0} /\ horizon \in 0 .. now /\ starts \subseteq 0 .. now
  /\ modified \in [Record -> Nat] /\ gone \in [Record -> Nat]
  /\ poll \in [Process -> PollShape]
  /\ cursor \in starts \cup {None}

-----------------------------------------------------------------------------
(* The invariant *)

\* What the property says of the cursor, of any instant
CoveredTo(c) ==
  /\ \A r \in Record :
       (/\ gone[r] = 0 /\ horizon < modified[r] /\ modified[r] < c
        /\ modified[r] \notin starts)
       => Updated(r, modified[r]) \in enqueued
  /\ \A r \in Record \ Foreign :
       horizon < gone[r] /\ gone[r] < c => Deleted(r, gone[r]) \in enqueued

\* An instant from which a poll may go on: a poll began then, or it is as far
\* back as polls look.
Reached(c) == (c \in starts \/ c \in 0 .. horizon) /\ CoveredTo(c)

\* A change and a deletion that the poll s has to list
Due(s, r)  == gone[r] = 0 /\ s.since < modified[r] /\ modified[r] < s.started
Dead(s, r) == gone[r] # 0 /\ s.since <= gone[r] /\ gone[r] < s.started

\* A poll has listed what is due on the pages it has read.
Listed(s) ==
  /\ s.at = "page" /\ s.after # 0 =>
       \A r \in Record : Due(s, r) =>
         /\ r \in s.frozen
         /\ Rank(s.frozen, r) < s.after => Updated(r, modified[r]) \in s.events
  /\ s.at \in {"deleted", "enqueue", "commit"} =>
       \A r \in Record : Due(s, r) => Updated(r, modified[r]) \in s.events
  /\ s.at \in {"enqueue", "commit"} =>
       \A r \in Record \ Foreign : Dead(s, r) => Deleted(r, gone[r]) \in s.events
  /\ s.at = "commit" => s.events \subseteq enqueued

PollOK(s) ==
  /\ s.at # "page" => s.after = 0
  /\ s.at = "start" => s.since = None \/ Reached(s.since)
  /\ s.at \in {"page", "deleted", "enqueue", "commit"} =>
       s.since \in Nat /\ Reached(s.since) /\ s.started \in starts
  /\ Listed(s)

IntakeInv ==
  /\ Shape
  /\ \A c \in Nat : cursor = c => CoveredTo(c)
  /\ \A p \in Process : \A s \in PollShape : poll[p] = s => PollOK(s)

-----------------------------------------------------------------------------
(* What is behind stays as it is *)

\* A record that changes or is deleted does so now.
Later ==
  /\ now \in Nat \ {0} /\ now' \in Nat /\ now <= now'
  /\ horizon \in 0 .. now /\ horizon' \in 0 .. now' /\ horizon <= horizon'
  /\ starts \subseteq 0 .. now /\ starts \subseteq starts'
  /\ enqueued \subseteq enqueued'
  /\ \A r \in Record : /\ modified[r] \in Nat /\ gone[r] \in Nat
                       /\ modified'[r] \in {modified[r], now}
                       /\ \/ gone'[r] = gone[r]
                          \/ gone[r] = 0 /\ gone'[r] = now

LEMMA CoveredKept ==
  ASSUME Later, NEW c \in 0 .. now, CoveredTo(c)
  PROVE  CoveredTo(c)'
<1>1. ASSUME NEW r \in Record, gone'[r] = 0, horizon' < modified'[r],
             modified'[r] < c, modified'[r] \notin starts'
      PROVE  Updated(r, modified'[r]) \in enqueued'
  <2>1. gone[r] = 0 /\ modified'[r] = modified[r] BY <1>1 DEF Later
  <2>2. horizon < modified[r] /\ modified[r] \notin starts BY <1>1, <2>1 DEF Later
  <2>3. Updated(r, modified[r]) \in enqueued BY <1>1, <2>1, <2>2 DEF CoveredTo
  <2>4. QED BY <2>1, <2>3 DEF Later
<1>2. ASSUME NEW r \in Record \ Foreign, horizon' < gone'[r], gone'[r] < c
      PROVE  Deleted(r, gone'[r]) \in enqueued'
  <2>1. gone'[r] = gone[r] /\ horizon < gone[r] BY <1>2 DEF Later
  <2>2. Deleted(r, gone[r]) \in enqueued BY <1>2, <2>1 DEF CoveredTo
  <2>3. QED BY <2>1, <2>2 DEF Later
<1>3. QED BY <1>1, <1>2 DEF CoveredTo, Updated, Deleted

LEMMA ReachedKept ==
  ASSUME Later, NEW c \in Nat, Reached(c)
  PROVE  Reached(c)' /\ c \in 0 .. now
<1>1. c \in 0 .. now BY DEF Reached, Later
<1>2. CoveredTo(c)' BY <1>1, CoveredKept DEF Reached
<1>3. c \in starts' \/ c \in 0 .. horizon' BY DEF Reached, Later
<1>4. QED BY <1>1, <1>2, <1>3 DEF Reached

\* With a locator, the order of the records stays what it is.
LEMMA RankKept ==
  ASSUME Paging = "locator", NEW S, NEW r
  PROVE  Rank(S, r)' = Rank(S, r)
BY DEF Rank, Before

\* What is due of a poll that began before now was due all along.
LEMMA DueKept ==
  ASSUME Later, NEW s \in PollShape, s.started \in 0 .. now, NEW r \in Record
  PROVE  /\ Due(s, r)' => Due(s, r) /\ modified'[r] = modified[r]
         /\ Dead(s, r)' => Dead(s, r) /\ gone'[r] = gone[r]
BY DEF Later, Due, Dead, PollShape

LEMMA PollKept ==
  ASSUME Paging = "locator", Later, NEW s \in PollShape, PollOK(s)
  PROVE  PollOK(s)'
<1>1. s.at \in {"page", "deleted", "enqueue", "commit"} => s.started \in 0 .. now
  BY DEF PollOK, Later
<1>2. Listed(s)'
  <2>1. ASSUME s.at = "page", s.after # 0, NEW r \in Record, Due(s, r)'
        PROVE  /\ r \in s.frozen
               /\ Rank(s.frozen, r)' < s.after => Updated(r, modified'[r]) \in s.events
    BY <1>1, <2>1, DueKept, RankKept DEF PollOK, Listed
  <2>2. ASSUME s.at \in {"deleted", "enqueue", "commit"}, NEW r \in Record, Due(s, r)'
        PROVE  Updated(r, modified'[r]) \in s.events
    BY <1>1, <2>2, DueKept DEF PollOK, Listed
  <2>3. ASSUME s.at \in {"enqueue", "commit"}, NEW r \in Record \ Foreign, Dead(s, r)'
        PROVE  Deleted(r, gone'[r]) \in s.events
    BY <1>1, <2>3, DueKept DEF PollOK, Listed
  <2>4. s.at = "commit" => s.events \subseteq enqueued' BY DEF PollOK, Listed, Later
  <2>5. QED BY <2>1, <2>2, <2>3, <2>4 DEF Listed, Updated, Deleted
<1>3. s.since \in Nat /\ Reached(s.since) => Reached(s.since)' BY ReachedKept
<1>4. s.since \in Nat \cup {None} BY DEF PollShape
<1>5. QED BY <1>2, <1>3, <1>4 DEF PollOK, Later

-----------------------------------------------------------------------------
(* The steps *)

\* What a step has to show: the shape, and the poll and the cursor it sets.
LEMMA StepKeeps ==
  ASSUME Paging = "locator", IntakeInv, Later, Shape',
         cursor' = cursor \/ \A c \in Nat : cursor' = c => CoveredTo(c)',
         \A p \in Process : \/ poll'[p] = poll[p]
                           \/ \A s \in PollShape : poll'[p] = s => PollOK(s)'
  PROVE  IntakeInv'
<1>1. ASSUME NEW c \in Nat, cursor' = c PROVE CoveredTo(c)'
  <2>1. CASE cursor' = cursor
    <3>1. c \in starts /\ c \in 0 .. now
      BY <1>1, <2>1, IntakeAssumption DEF IntakeInv, Shape
    <3>2. CoveredTo(c) BY <1>1, <2>1 DEF IntakeInv
    <3>3. QED BY <3>1, <3>2, CoveredKept
  <2>2. CASE \A d \in Nat : cursor' = d => CoveredTo(d)'
    BY <1>1, <2>2
  <2>3. QED BY <2>1, <2>2
<1>2. ASSUME NEW p \in Process, NEW s \in PollShape, poll'[p] = s
      PROVE  PollOK(s)'
  <2>1. CASE poll'[p] = poll[p]
    <3>1. PollOK(s) BY <1>2, <2>1 DEF IntakeInv
    <3>2. QED BY <3>1, PollKept
  <2>2. CASE \A u \in PollShape : poll'[p] = u => PollOK(u)'
    BY <1>2, <2>2
  <2>3. QED BY <2>1, <2>2
<1>3. QED BY <1>1, <1>2 DEF IntakeInv

LEMMA Starts == Init => IntakeInv
<1> SUFFICES ASSUME Init PROVE IntakeInv
  OBVIOUS
<1>1. Shape /\ cursor = None
  BY IntakeAssumption DEF Init, Shape, PollShape, Idle
<1>2. ASSUME NEW p \in Process, NEW s \in PollShape, poll[p] = s
      PROVE  PollOK(s)
  BY <1>2 DEF Init, Idle, PollOK, Listed
<1>3. QED BY <1>1, <1>2, IntakeAssumption DEF IntakeInv

LEMMA WorldKeeps ==
  ASSUME Paging = "locator", IntakeInv, World \/ UNCHANGED vars
  PROVE  IntakeInv'
<1>1. CASE UNCHANGED vars
  BY <1>1, StepKeeps DEF IntakeInv, Shape, Later, vars, crmVars
<1>2. CASE Advance
  <2>1. Later /\ Shape' /\ cursor' = cursor /\ poll' = poll
    BY <1>2 DEF IntakeInv, Shape, Later, Advance, crmVars
  <2>2. QED BY <2>1, StepKeeps
<1>3. ASSUME NEW r \in Record, Change(r) PROVE IntakeInv'
  <2>1. Later /\ Shape' /\ cursor' = cursor /\ poll' = poll
    BY <1>3 DEF IntakeInv, Shape, Later, Change
  <2>2. QED BY <2>1, StepKeeps
<1>4. ASSUME NEW r \in Record, Delete(r) PROVE IntakeInv'
  <2>1. Later /\ Shape' /\ cursor' = cursor /\ poll' = poll
    BY <1>4 DEF IntakeInv, Shape, Later, Delete
  <2>2. QED BY <2>1, StepKeeps
<1>5. CASE Toggle
  <2>1. Later /\ Shape' /\ cursor' = cursor /\ poll' = poll
    BY <1>5 DEF IntakeInv, Shape, Later, Toggle, crmVars
  <2>2. QED BY <2>1, StepKeeps
<1>6. QED BY <1>1, <1>2, <1>3, <1>4, <1>5 DEF World

\* A poll that is given up, or one that begins, has nothing to answer for.
LEMMA IdleKeeps ==
  ASSUME Paging = "locator", IntakeInv, NEW p \in Process,
         Begin(p) \/ PollFails(p)
  PROVE  IntakeInv'
<1>1. PICK l \in {"idle", "cursor"} : poll' = [poll EXCEPT ![p] = [Idle EXCEPT !.at = l]]
  BY DEF Begin, PollFails, Idle
<1>2. Later /\ Shape' /\ cursor' = cursor
  BY <1>1, IntakeAssumption
     DEF IntakeInv, Shape, Later, Begin, PollFails, crmVars, PollShape, Idle
<1>3. ASSUME NEW q \in Process
      PROVE  \/ poll'[q] = poll[q]
             \/ \A s \in PollShape : poll'[q] = s => PollOK(s)'
  <2>1. CASE q = p
    <3>1. ASSUME NEW s \in PollShape, poll'[q] = s PROVE PollOK(s)'
      <4>1. s.at \in {"idle", "cursor"} /\ s.after = 0
        BY <1>1, <2>1, <3>1 DEF Idle, IntakeInv, Shape
      <4>2. QED BY <4>1 DEF PollOK, Listed
    <3>2. QED BY <3>1
  <2>2. CASE q # p BY <1>1, <2>2 DEF IntakeInv, Shape
  <2>3. QED BY <2>1, <2>2
<1>4. QED BY <1>2, <1>3, StepKeeps

\* A poll moves on: it sets its own row alone.
LEMMA PollMoves ==
  ASSUME Paging = "locator", IntakeInv, Later, Shape', NEW p \in Process,
         NEW t \in PollShape, poll' = [poll EXCEPT ![p] = t], PollOK(t)',
         cursor' = cursor
  PROVE  IntakeInv'
<1>1. ASSUME NEW q \in Process
      PROVE  \/ poll'[q] = poll[q]
             \/ \A s \in PollShape : poll'[q] = s => PollOK(s)'
  <2>1. CASE q = p
    <3>1. poll'[q] = t BY <2>1 DEF IntakeInv, Shape
    <3>2. QED BY <3>1
  <2>2. CASE q # p BY <2>2 DEF IntakeInv, Shape
  <2>3. QED BY <2>1, <2>2
<1>2. QED BY <1>1, StepKeeps

\* The row from which a step of a poll goes on
LEMMA PollRow ==
  ASSUME IntakeInv, NEW p \in Process
  PROVE  \E s \in PollShape : poll[p] = s /\ PollOK(s)
BY DEF IntakeInv, Shape

LEMMA ReadCursorKeeps ==
  ASSUME Paging = "locator", IntakeInv, NEW p \in Process, ReadCursor(p)
  PROVE  IntakeInv'
<1>1. PICK s \in PollShape : poll[p] = s /\ PollOK(s) BY PollRow
<1>2. cursor \in Nat \cup {None} BY DEF IntakeInv, Shape
<1>3. PICK t : t = [s EXCEPT !.at = "start", !.since = cursor] OBVIOUS
<1>4. /\ t \in PollShape
      /\ t.at = "start" /\ t.since = cursor /\ t.after = 0
  BY <1>1, <1>2, <1>3 DEF PollShape, PollOK, ReadCursor, At
<1>5. poll' = [poll EXCEPT ![p] = t] BY <1>1, <1>3 DEF ReadCursor
<1>6. Later /\ cursor' = cursor BY DEF IntakeInv, Shape, Later, ReadCursor, crmVars
<1>7. Shape' BY <1>4, <1>5 DEF IntakeInv, Shape, ReadCursor, crmVars
<1>8. ASSUME NEW c \in Nat, cursor = c PROVE Reached(c)'
  <2>1. CoveredTo(c) BY <1>8 DEF IntakeInv
  <2>2. c \in starts BY <1>8, IntakeAssumption DEF IntakeInv, Shape
  <2>3. QED BY <1>6, <2>1, <2>2, ReachedKept DEF Reached
<1>9. PICK c \in Nat \cup {None} : c = cursor BY <1>2
<1>10. t.since = None \/ Reached(t.since)'
  <2>1. t.since = c BY <1>4, <1>9
  <2>2. c = None \/ Reached(c)' BY <1>8, <1>9
  <2>3. QED BY <2>1, <2>2
<1>11. PollOK(t)' BY <1>4, <1>10 DEF PollOK, Listed
<1>12. QED BY <1>4, <1>5, <1>6, <1>7, <1>11, PollMoves

LEMMA StartPagingKeeps ==
  ASSUME Paging = "locator", IntakeInv, NEW p \in Process, StartPaging(p)
  PROVE  IntakeInv'
<1>1. PICK s \in PollShape : poll[p] = s /\ PollOK(s) BY PollRow
<1>2. LookedBack \in 0 .. now
  BY IntakeAssumption DEF LookedBack, IntakeInv, Shape
<1>3. PICK b \in 0 .. now : b = LookedBack BY <1>2
<1>4. PICK c \in Nat : c = IF s.since = None THEN b ELSE s.since
  BY <1>3 DEF PollShape, IntakeInv, Shape
<1>5. PICK t : t = [s EXCEPT !.at = "page", !.since = c, !.started = now] OBVIOUS
<1>6. /\ s.at = "start" /\ s.since \in Nat \cup {None}
      /\ t \in PollShape
      /\ t.at = "page" /\ t.since = c /\ t.started = now /\ t.after = s.after
  BY <1>1, <1>5 DEF StartPaging, At, PollShape, IntakeInv, Shape
<1>7. poll' = [poll EXCEPT ![p] = t] BY <1>1, <1>3, <1>4, <1>5 DEF StartPaging
<1>8. /\ starts' = starts \cup {now} /\ horizon' \in horizon .. now
      /\ s.since = None => c <= horizon'
      /\ cursor' = cursor
  BY <1>1, <1>3, <1>4 DEF StartPaging, IntakeInv, Shape
<1>9. Later BY <1>8 DEF IntakeInv, Shape, Later, StartPaging, crmVars
<1>10. Shape'
  <2>1. starts' \subseteq 0 .. now /\ cursor' \in starts' \cup {None}
    BY <1>8 DEF IntakeInv, Shape
  <2>2. poll' \in [Process -> PollShape] BY <1>6, <1>7 DEF IntakeInv, Shape
  <2>3. QED BY <1>8, <2>1, <2>2 DEF IntakeInv, Shape, StartPaging, crmVars
<1>11. Reached(c)'
  <2>1. CASE s.since = None
    <3>1. c \in 0 .. horizon' BY <1>8, <2>1 DEF IntakeInv, Shape
    <3>2. CoveredTo(c)'
      BY <1>10, <3>1 DEF CoveredTo, Shape
    <3>3. QED BY <3>1, <3>2 DEF Reached
  <2>2. CASE s.since # None
    <3>1. c = s.since BY <1>4, <2>2
    <3>2. Reached(c) BY <1>1, <1>6, <2>2, <3>1 DEF PollOK
    <3>3. QED BY <1>9, <3>2, ReachedKept
  <2>3. QED BY <2>1, <2>2
<1>12. t.after = 0 BY <1>1, <1>6 DEF PollOK
<1>13. PollOK(t)' BY <1>6, <1>8, <1>11, <1>12 DEF PollOK, Listed
<1>14. QED BY <1>6, <1>7, <1>8, <1>9, <1>10, <1>13, PollMoves

LEMMA PageKeeps ==
  ASSUME Paging = "locator", IntakeInv, NEW p \in Process, Page(p)
  PROVE  IntakeInv'
<1>1. PICK s \in PollShape : poll[p] = s /\ PollOK(s) BY PollRow
<1>2. PICK V \in SUBSET Record : V = View(s)
  BY IntakeAssumption DEF View, Matching, PollShape
<1>3. PICK n \in Nat : n = Cardinality(V)
  BY <1>2, IntakeAssumption, FS_Subset, FS_CardinalityType
<1>4. PICK E : E = s.events \cup {Updated(r, modified[r]) :
                                    r \in {q \in PageOf(s) : gone[q] = 0}}
  OBVIOUS
<1> DEFINE more == s.after + PageSize < n
<1>5. PICK t : t = [s EXCEPT !.at = IF more THEN "page" ELSE "deleted",
                             !.frozen = IF more THEN V ELSE {},
                             !.after = IF more THEN s.after + PageSize ELSE 0,
                             !.events = E]
  OBVIOUS
<1>6. E \in SUBSET ({"updated", "deleted"} \X Record \X Nat)
  <2>1. PageOf(s) \subseteq Record BY <1>2 DEF PageOf
  <2>2. \A r \in Record : Updated(r, modified[r]) \in {"updated", "deleted"} \X Record \X Nat
    BY DEF Updated, IntakeInv, Shape
  <2>3. QED BY <1>4, <2>1, <2>2 DEF PollShape
<1>7. /\ t \in PollShape /\ s.at = "page" /\ t.since = s.since /\ t.started = s.started
      /\ t.events = E
      /\ more => t.at = "page" /\ t.frozen = V /\ t.after = s.after + PageSize
      /\ ~more => t.at = "deleted" /\ t.after = 0
  <2>1. s.at = "page" BY <1>1 DEF Page, At
  <2>2. CASE more
    <3>1. t = [s EXCEPT !.at = "page", !.frozen = V, !.after = s.after + PageSize,
                        !.events = E]
      BY <1>5, <2>2
    <3>2. s.after + PageSize \in Nat BY IntakeAssumption DEF PollShape
    <3>3. QED BY <1>6, <2>1, <2>2, <3>1, <3>2 DEF PollShape
  <2>3. CASE ~more
    <3>1. t = [s EXCEPT !.at = "deleted", !.frozen = {}, !.after = 0, !.events = E]
      BY <1>5, <2>3
    <3>2. QED BY <1>6, <2>1, <2>3, <3>1 DEF PollShape
  <2>4. QED BY <2>2, <2>3
<1>8. poll' = [poll EXCEPT ![p] = t]
  BY <1>1, <1>2, <1>3, <1>4, <1>5 DEF Page
<1>9. Later /\ cursor' = cursor BY DEF IntakeInv, Shape, Later, Page, crmVars
<1>10. Shape'
  <2>1. poll' \in [Process -> PollShape] BY <1>7, <1>8 DEF IntakeInv, Shape
  <2>2. QED BY <2>1 DEF IntakeInv, Shape, Page, crmVars
<1>11. s.since \in Nat /\ Reached(s.since)' /\ s.started \in starts' /\ s.started \in 0 .. now
  BY <1>1, <1>7, <1>9, ReachedKept DEF PollOK, Later
<1>12. ASSUME NEW r \in Record, Due(s, r)'
      PROVE  /\ r \in V /\ Rank(V, r) \in Nat /\ Rank(V, r) < n
             /\ Rank(V, r) < s.after + PageSize => Updated(r, modified'[r]) \in E
  <2>1. Due(s, r) /\ modified'[r] = modified[r] BY <1>9, <1>11, <1>12, DueKept
  <2>2. r \in V
    <3>1. CASE s.after = 0 BY <1>2, <2>1, <3>1 DEF View, Matching, Due
    <3>2. CASE s.after # 0
      <4>1. r \in s.frozen BY <1>1, <1>7, <2>1, <3>2 DEF PollOK, Listed
      <4>2. View(s) = s.frozen BY <3>2 DEF View
      <4>3. QED BY <1>2, <4>1, <4>2
    <3>3. QED BY <3>1, <3>2
  <2>3. Rank(V, r) \in Nat /\ Rank(V, r) < n
    <3>1. IsFiniteSet(V) BY <1>2, IntakeAssumption, FS_Subset
    <3> DEFINE W == {q \in V : Before(q, r)}
    <3>2. W \subseteq V \ {r} BY IntakeAssumption DEF Before
    <3>3. IsFiniteSet(V \ {r}) /\ Cardinality(V \ {r}) = n - 1
      BY <1>3, <2>2, <3>1, FS_RemoveElement
    <3>4. Cardinality(W) \in Nat /\ Cardinality(W) <= n - 1
      BY <3>2, <3>3, FS_Subset, FS_CardinalityType
    <3>5. QED BY <3>4 DEF Rank
  <2>4. ASSUME Rank(V, r) < s.after + PageSize PROVE Updated(r, modified[r]) \in E
    <3>1. CASE s.after <= Rank(V, r)
      <4>1. r \in PageOf(s) BY <1>2, <2>2, <2>4, <3>1 DEF PageOf
      <4>2. gone[r] = 0 BY <2>1 DEF Due
      <4>3. QED BY <1>4, <4>1, <4>2
    <3>2. CASE ~(s.after <= Rank(V, r))
      <4>1. s.after # 0 /\ Rank(V, r) < s.after BY <2>3, <3>2 DEF PollShape
      <4>2. V = s.frozen BY <1>2, <4>1 DEF View
      <4>3. Updated(r, modified[r]) \in s.events
        BY <1>1, <1>7, <2>1, <4>1, <4>2 DEF PollOK, Listed
      <4>4. QED BY <1>4, <4>3
    <3>3. QED BY <3>1, <3>2
  <2>5. QED BY <2>1, <2>2, <2>3, <2>4
<1>13. Listed(t)'
  <2>1. \A r \in Record : Due(t, r)' => Due(s, r)' BY <1>7 DEF Due
  <2>2. CASE more
    <3>1. ASSUME NEW r \in Record, Due(t, r)'
          PROVE  /\ r \in t.frozen
                 /\ Rank(t.frozen, r)' < t.after => Updated(r, modified'[r]) \in t.events
      <4>1. Rank(V, r)' = Rank(V, r) BY RankKept
      <4>2. t.frozen = V /\ t.after = s.after + PageSize /\ t.events = E BY <1>7, <2>2
      <4>3. QED BY <1>12, <2>1, <3>1, <4>1, <4>2
    <3>2. t.at = "page" BY <1>7, <2>2
    <3>3. QED BY <3>1, <3>2 DEF Listed, Updated
  <2>3. CASE ~more
    <3>1. ASSUME NEW r \in Record, Due(t, r)' PROVE Updated(r, modified'[r]) \in t.events
      BY <1>7, <1>12, <2>1, <2>3, <3>1, IntakeAssumption DEF PollShape
    <3>2. t.at = "deleted" BY <1>7, <2>3
    <3>3. QED BY <3>1, <3>2 DEF Listed, Updated
  <2>4. QED BY <2>2, <2>3
<1>14. Reached(t.since)'
  <2>1. PICK c \in Nat : c = s.since BY <1>11
  <2>2. QED BY <1>7, <1>11, <2>1 DEF Reached, CoveredTo
<1>15. PollOK(t)' BY <1>7, <1>11, <1>13, <1>14 DEF PollOK
<1>16. QED BY <1>7, <1>8, <1>9, <1>10, <1>15, PollMoves

LEMMA ListDeletedKeeps ==
  ASSUME Paging = "locator", IntakeInv, NEW p \in Process, ListDeleted(p)
  PROVE  IntakeInv'
<1>1. PICK s \in PollShape : poll[p] = s /\ PollOK(s) BY PollRow
<1>2. PICK E : E = s.events \cup {Deleted(r, gone[r]) : r \in DeletedSince(s.since)}
  OBVIOUS
<1>3. PICK t : t = [s EXCEPT !.at = "enqueue", !.events = E]
  OBVIOUS
<1>4. E \in SUBSET ({"updated", "deleted"} \X Record \X Nat)
  BY <1>2 DEF PollShape, Deleted, DeletedSince, IntakeInv, Shape
<1>5. /\ t \in PollShape /\ s.at = "deleted" /\ t.at = "enqueue"
      /\ t.since = s.since /\ t.started = s.started /\ t.after = s.after
      /\ t.events = E
  BY <1>1, <1>3, <1>4 DEF PollShape, ListDeleted, At
<1>6. poll' = [poll EXCEPT ![p] = t]
  BY <1>1, <1>2, <1>3 DEF ListDeleted
<1>7. Later /\ cursor' = cursor BY DEF IntakeInv, Shape, Later, ListDeleted, crmVars
<1>0. Shape' BY <1>5, <1>6 DEF IntakeInv, Shape, ListDeleted, crmVars
<1>8. s.since \in Nat /\ Reached(s.since)' /\ s.started \in starts'
  BY <1>1, <1>5, <1>7, ReachedKept DEF PollOK, Later
<1>9. ASSUME NEW r \in Record, Due(s, r)' PROVE Updated(r, modified'[r]) \in E
  BY <1>1, <1>2, <1>5, <1>9 DEF PollOK, Listed, Due, ListDeleted, crmVars
<1>10. ASSUME NEW r \in Record \ Foreign, Dead(s, r)' PROVE Deleted(r, gone'[r]) \in E
  BY <1>2, <1>10 DEF Dead, ListDeleted, crmVars, DeletedSince
<1>11. PollOK(t)'
  <2>1. Listed(t)'
    BY <1>5, <1>9, <1>10 DEF Listed, Due, Dead
  <2>2. Reached(t.since)' BY <1>5, <1>8 DEF Reached, CoveredTo
  <2>3. QED BY <1>1, <1>5, <1>8, <2>1, <2>2 DEF PollOK
<1>12. QED BY <1>0, <1>5, <1>6, <1>7, <1>11, PollMoves

LEMMA EnqueueEventsKeeps ==
  ASSUME Paging = "locator", IntakeInv, NEW p \in Process, EnqueueEvents(p)
  PROVE  IntakeInv'
<1>1. PICK s \in PollShape : poll[p] = s /\ PollOK(s) BY PollRow
<1>2. PICK t : t = [s EXCEPT !.at = "commit"] OBVIOUS
<1>3. /\ t \in PollShape /\ s.at = "enqueue" /\ t.at = "commit"
      /\ t.since = s.since /\ t.started = s.started /\ t.after = s.after
      /\ t.events = s.events
  BY <1>1, <1>2 DEF PollShape, EnqueueEvents, At
<1>4. poll' = [poll EXCEPT ![p] = t] BY <1>1, <1>2 DEF EnqueueEvents
<1>5. Later /\ cursor' = cursor
  BY DEF IntakeInv, Shape, Later, EnqueueEvents, crmVars
<1>6. Shape' BY <1>3, <1>4 DEF IntakeInv, Shape, EnqueueEvents, crmVars
<1>7. PollOK(s)' BY <1>1, <1>5, PollKept
<1>8. s.events \subseteq enqueued' BY <1>1 DEF EnqueueEvents
<1>9. Listed(t)' BY <1>3, <1>7, <1>8 DEF PollOK, Listed, Due, Dead
<1>10. Reached(t.since)' BY <1>3, <1>7 DEF PollOK, Reached, CoveredTo
<1>11. PollOK(t)' BY <1>3, <1>7, <1>9, <1>10 DEF PollOK
<1>12. QED BY <1>3, <1>4, <1>5, <1>6, <1>11, PollMoves

LEMMA CommitKeeps ==
  ASSUME Paging = "locator", IntakeInv, NEW p \in Process, Commit(p)
  PROVE  IntakeInv'
<1>1. PICK s \in PollShape : poll[p] = s /\ PollOK(s) BY PollRow
<1>2. s.at = "commit" BY <1>1 DEF Commit, At
<1>3. /\ s.since \in Nat /\ Reached(s.since) /\ s.started \in starts
      /\ s.started \in Nat /\ s.events \subseteq enqueued
      /\ \A r \in Record : Due(s, r) => Updated(r, modified[r]) \in s.events
      /\ \A r \in Record \ Foreign : Dead(s, r) => Deleted(r, gone[r]) \in s.events
  BY <1>1, <1>2 DEF PollOK, Listed, PollShape
<1>4. CoveredTo(s.started)
  <2>1. ASSUME NEW r \in Record, gone[r] = 0, horizon < modified[r],
               modified[r] < s.started, modified[r] \notin starts
        PROVE  Updated(r, modified[r]) \in enqueued
    <3>1. modified[r] # s.since BY <1>3, <2>1 DEF Reached, IntakeInv, Shape
    <3>2. CASE modified[r] < s.since BY <1>3, <2>1, <3>2 DEF Reached, CoveredTo
    <3>3. CASE modified[r] > s.since BY <1>3, <2>1, <3>3 DEF Due
    <3>4. QED BY <1>3, <3>1, <3>2, <3>3 DEF IntakeInv, Shape
  <2>2. ASSUME NEW r \in Record \ Foreign, horizon < gone[r], gone[r] < s.started
        PROVE  Deleted(r, gone[r]) \in enqueued
    <3>1. CASE gone[r] < s.since BY <1>3, <2>2, <3>1 DEF Reached, CoveredTo
    <3>2. CASE gone[r] >= s.since
      <4>1. gone[r] # 0 BY <2>2 DEF IntakeInv, Shape
      <4>2. QED BY <1>3, <2>2, <3>2, <4>1 DEF Dead
    <3>3. QED BY <1>3, <3>1, <3>2 DEF IntakeInv, Shape
  <2>3. QED BY <2>1, <2>2 DEF CoveredTo
<1>5. cursor' = s.started /\ poll' = [poll EXCEPT ![p] = Idle]
  BY <1>1 DEF Commit
<1>6. Idle \in PollShape BY DEF Idle, PollShape
<1>7. Later BY DEF IntakeInv, Shape, Later, Commit, crmVars
<1>8. Shape' BY <1>3, <1>5, <1>6 DEF IntakeInv, Shape, Commit, crmVars
<1>9. ASSUME NEW c \in Nat, cursor' = c PROVE CoveredTo(c)'
  <2>1. c = s.started /\ c \in 0 .. now BY <1>3, <1>5, <1>9 DEF IntakeInv, Shape
  <2>2. CoveredTo(c) BY <1>4, <2>1
  <2>3. QED BY <1>7, <2>1, <2>2, CoveredKept
<1>10. ASSUME NEW q \in Process
       PROVE  \/ poll'[q] = poll[q]
              \/ \A u \in PollShape : poll'[q] = u => PollOK(u)'
  <2>1. CASE q = p
    <3>1. ASSUME NEW u \in PollShape, poll'[q] = u PROVE PollOK(u)'
      <4>1. u.at = "idle" /\ u.after = 0
        BY <1>5, <2>1, <3>1 DEF Idle, IntakeInv, Shape
      <4>2. QED BY <4>1 DEF PollOK, Listed
    <3>2. QED BY <3>1
  <2>2. CASE q # p BY <1>5, <2>2 DEF IntakeInv, Shape
  <2>3. QED BY <2>1, <2>2
<1>11. QED BY <1>7, <1>8, <1>9, <1>10, StepKeeps

-----------------------------------------------------------------------------
(* The theorem *)

LEMMA NextKeeps ==
  ASSUME Paging = "locator", IntakeInv, [Next]_vars
  PROVE  IntakeInv'
<1>1. CASE World \/ UNCHANGED vars BY <1>1, WorldKeeps
<1>2. ASSUME NEW p \in Process, Begin(p) \/ PollFails(p) PROVE IntakeInv'
  BY <1>2, IdleKeeps
<1>3. ASSUME NEW p \in Process, PollStep(p) PROVE IntakeInv'
  <2>1. CASE ReadCursor(p) BY <2>1, ReadCursorKeeps
  <2>2. CASE StartPaging(p) BY <2>2, StartPagingKeeps
  <2>3. CASE Page(p) BY <2>3, PageKeeps
  <2>4. CASE ListDeleted(p) BY <2>4, ListDeletedKeeps
  <2>5. CASE EnqueueEvents(p) BY <2>5, EnqueueEventsKeeps
  <2>6. CASE Commit(p) BY <2>6, CommitKeeps
  <2>7. QED BY <1>3, <2>1, <2>2, <2>3, <2>4, <2>5, <2>6 DEF PollStep
<1>4. QED BY <1>1, <1>2, <1>3 DEF Next

LEMMA NothingIsLeft == IntakeInv => Covered
<1> SUFFICES ASSUME IntakeInv, cursor # None PROVE Covered
  BY DEF Covered, ChangesCovered, DeletionsCovered
<1>1. PICK c \in Nat : c = cursor BY DEF IntakeInv, Shape
<1>2. CoveredTo(c) BY <1>1 DEF IntakeInv
<1>3. QED BY <1>1, <1>2 DEF CoveredTo, Covered, ChangesCovered, DeletionsCovered

\* Nothing falls between two polls of a vendor whose queries are evaluated
\* once: whatever was last changed or deleted before the committed cursor was
\* enqueued, however many processes poll at once and wherever polls fail
\* (pollOne and the cursor of PostgresReplayCursorStore).
THEOREM NothingLeftBehind ==
  ASSUME Paging = "locator"
  PROVE  Spec => []Covered
<1>1. IntakeInv /\ [Next]_vars => IntakeInv' BY NextKeeps
<1>2. QED BY <1>1, Starts, NothingIsLeft, PTL DEF Spec
=============================================================================
