----------------------------- MODULE Reconciler -----------------------------
(***************************************************************************)
(* How a change becomes agreement between two CRMs: the executions of      *)
(* Reconciler.reconcile() (engine/reconciler.ts) over the two CRMs and the *)
(* id map in PostgreSQL (db/postgresIdMapStore.ts, db/migrations/001).     *)
(*                                                                         *)
(* One action is one call to a CRM or one database transaction, with the   *)
(* code that runs from its reply to the next await.  One canonical object  *)
(* type is modelled.  A record's content is a function of its canonical    *)
(* fields, and its content hash is the content itself.  The queue that     *)
(* starts the executions is abstracted to a set of records with an event   *)
(* waiting (module SyncQueue has the queue): an event that arrives while   *)
(* another for the same record waits is merged with it, since both read    *)
(* the record when they run.                                               *)
(***************************************************************************)
EXTENDS Naturals, FiniteSets

CONSTANTS
  NativeId,      \* native record ids, per CRM
  Link,          \* canonical ids of links
  Worker,        \* executions of SyncEngine.process that may run at once
  Field, Value,  \* canonical fields and their values
  Null,          \* the null value
  KeyField,      \* NATURAL_KEY_FIELDS of the type
  ReadOnly,      \* per CRM, the fields whose rule is readOnly
  Required,      \* per CRM, the mapped fields its schema requires
  Kept,          \* per CRM, the value it reads back for a value written to it
  UniqueKey,     \* the CRMs that refuse two records with one natural key
  Strategy,      \* conflictStrategy of the sync settings
  SourceOfTruth, \* sourceOfTruth of the sync settings
  UserContent,   \* what users may give a record
  MaxTries,      \* maxAttempts of the engine
  MaxEdits,      \* bound: user edits in a behaviour
  MaxDeletes,    \* bound: user deletions in a behaviour
  MaxFaults,     \* bound: failed calls and process deaths in a behaviour
  \* Markers for a record not created yet and one deleted, and for an id, a
  \* hash, a link or a link side there is not.
  Absent, Deleted, None

System == {"salesforce", "hubspot"}
Other(s) == IF s = "salesforce" THEN "hubspot" ELSE "salesforce"

Content == [Field -> Value]
Key     == [KeyField -> Value \ {Null}]

ASSUME ConstantsAssumption ==
  /\ Null \in Value
  /\ KeyField \subseteq Field
  /\ ReadOnly \in [System -> SUBSET Field]
  /\ Required \in [System -> SUBSET Field]
  /\ Kept \in [System -> [Value -> Value]]
  /\ \A s \in System : Kept[s][Null] = Null
  /\ UniqueKey \subseteq System
  /\ Strategy \in {"source-of-truth", "last-write-wins", "field-merge"}
  /\ SourceOfTruth \in System
  /\ UserContent \subseteq Content
  /\ MaxTries \in Nat \ {0}
  /\ MaxEdits \in Nat /\ MaxDeletes \in Nat /\ MaxFaults \in Nat

\* A worker with nothing to do.
Idle == [at |-> "idle"]

ASSUME MarkersAssumption ==
  /\ Absent # Deleted
  /\ {Absent, Deleted, None} \cap Content = {}
  /\ None \notin NativeId \cup Link
  /\ None \notin [id : NativeId, hash : Content \cup {None}]

VARIABLES
  crm,       \* the records of both CRMs
  side,      \* record_link_sides
  keyLink,   \* record_natural_keys
  pending,   \* records with an update event waiting for a worker
  deletions, \* records with an approved delete event waiting for a worker
  tries,     \* attempts of the job of each record
  dead,      \* records whose job is in dead_letter
  review,    \* records whose job is in manual_review
  run,       \* what each worker is executing
  byUs,      \* history: records whose content was last written by a worker
  created,   \* history: records created by a worker
  edits, deletes, faults

jobVars   == <<pending, deletions, tries, dead, review>>
mapVars   == <<side, keyLink>>
boundVars == <<edits, deletes, faults>>
vars == <<crm, mapVars, jobVars, run, byUs, created, boundVars>>

Record == System \X NativeId

Init ==
  /\ crm = [s \in System |-> [i \in NativeId |-> Absent]]
  /\ side = [l \in Link |-> [s \in System |-> None]]
  /\ keyLink = [k \in Key |-> None]
  /\ pending = {} /\ deletions = {} /\ dead = {} /\ review = {}
  /\ tries = [e \in Record |-> 0]
  /\ run = [w \in Worker |-> Idle]
  /\ byUs = {} /\ created = {}
  /\ edits = 0 /\ deletes = 0 /\ faults = 0

-----------------------------------------------------------------------------
(* Natural keys, the CRMs and the id map *)

\* naturalKeyQuery(): every key field must have a value
HasKey(c) == KeyField # {} /\ \A f \in KeyField : c[f] # Null
KeyOf(c)  == [f \in KeyField |-> c[f]]

Live(s, i) == crm[s][i] \notin {Absent, Deleted}

SameKey(c, d) == HasKey(c) /\ HasKey(d) /\ KeyOf(c) = KeyOf(d)

\* The records of s that have the natural key of c.
Candidates(s, c) == {i \in NativeId : Live(s, i) /\ SameKey(crm[s][i], c)}

\* What s holds after upsert(c) to a record that holds old: rules that are
\* read-only are not written, the others come back as s keeps them.
Written(s, old, c) ==
  [f \in Field |-> IF f \in ReadOnly[s]
                   THEN IF old = Absent THEN Null ELSE old[f]
                   ELSE Kept[s][c[f]]]

\* Another record of s already owns the natural key that c would give i.
KeyOwners(s, i, c) ==
  IF s \in UniqueKey THEN Candidates(s, Written(s, crm[s][i], c)) \ {i} ELSE {}

LinkOf(s, i) == {l \in Link : side[l][s] # None /\ side[l][s].id = i}
Saved(l)     == \E s \in System : side[l][s] # None

\* PostgresIdMapStore.load()
Load(l) ==
  [id     |-> l,
   ids    |-> [s \in System |-> IF side[l][s] = None THEN None
                                                     ELSE side[l][s].id],
   hashes |-> [s \in System |-> IF side[l][s] = None THEN None
                                                     ELSE side[l][s].hash],
   keys   |-> {k \in Key : keyLink[k] = l}]

\* The canonical ids no row and no execution holds; a new link takes one.
Unused ==
  {l \in Link :
     /\ ~Saved(l)
     /\ \A w \in Worker : run[w] # Idle /\ run[w].link # None
                          => run[w].link.id # l}

\* Mutant: the natural key is made of every field.
NewLinkWholeKey(s, i, t, c) ==
  [id     |-> CHOOSE l \in Unused : TRUE,
   ids    |-> [x \in System |-> IF x = s THEN i ELSE t],
   hashes |-> [x \in System |-> None],
   keys   |-> IF HasKey(c) THEN {c} ELSE {}]

NewLink(s, i, t, c) ==
  [id     |-> CHOOSE l \in Unused : TRUE,
   ids    |-> [x \in System |-> IF x = s THEN i ELSE t],
   hashes |-> [x \in System |-> None],
   keys   |-> IF HasKey(c) THEN {KeyOf(c)} ELSE {}]

-----------------------------------------------------------------------------
(* Users of the CRMs *)

\* A user creates or changes a record; its webhook or its poll enqueues it.
Edit(s, i) ==
  /\ edits < MaxEdits
  /\ crm[s][i] # Deleted
  /\ \E c \in UserContent \ {crm[s][i]} :
       /\ s \in UniqueKey => Candidates(s, c) \subseteq {i}
       /\ crm' = [crm EXCEPT ![s][i] = c]
  /\ pending' = pending \cup {<<s, i>>}
  /\ tries' = [tries EXCEPT ![<<s, i>>] = 0]
  /\ dead' = dead \ {<<s, i>>}
  /\ review' = review \ {<<s, i>>}
  /\ byUs' = byUs \ {<<s, i>>}
  /\ edits' = edits + 1
  /\ UNCHANGED <<mapVars, deletions, run, created, deletes, faults>>

\* A user deletes a record; the delete event is carried out under cascade or
\* once an operator has approved it.
Remove(s, i) ==
  /\ deletes < MaxDeletes
  /\ Live(s, i)
  /\ crm' = [crm EXCEPT ![s][i] = Deleted]
  /\ deletions' = deletions \cup {<<s, i>>}
  /\ tries' = [tries EXCEPT ![<<s, i>>] = 0]
  /\ deletes' = deletes + 1
  /\ UNCHANGED <<mapVars, pending, dead, review, run, byUs, created, edits,
                 faults>>

-----------------------------------------------------------------------------
(* The life of one execution *)

Source(w) == run[w].source
From(w)   == run[w].source[1]
To(w)     == Other(From(w))
At(w, stage) == run[w].at = stage

\* An execution starts on a record with an event waiting.
Begin(w, stage, e) ==
  /\ At(w, "idle")
  /\ run' = [run EXCEPT ![w] = [at |-> stage, source |-> e, content |-> None,
                                echo |-> FALSE, link |-> None,
                                winner |-> None]]
  /\ tries' = [tries EXCEPT ![e] = IF @ < MaxTries THEN @ + 1 ELSE @]

StartUpdate(w) ==
  \E e \in pending :
    /\ Begin(w, "read", e)
    /\ pending' = pending \ {e}
    /\ UNCHANGED <<crm, mapVars, deletions, dead, review, byUs, created,
                   boundVars>>

StartDelete(w) ==
  \E e \in deletions :
    /\ Begin(w, "unlink", e)
    /\ deletions' = deletions \ {e}
    /\ UNCHANGED <<crm, mapVars, pending, dead, review, byUs, created,
                   boundVars>>

\* The execution goes on to the next call with what it holds in its locals.
Goto(w, stage, locals) ==
  /\ run' = [run EXCEPT ![w] = [f \in DOMAIN @ |->
               IF f = "at" THEN stage
               ELSE IF f \in DOMAIN locals THEN locals[f] ELSE @[f]]]

\* The execution ends, its job complete.
End(w) ==
  /\ run' = [run EXCEPT ![w] = Idle]
  /\ UNCHANGED jobVars

\* The execution's event goes back to those waiting.
Requeue(w) ==
  IF run[w].at \in {"unlink", "remove"}
  THEN deletions' = deletions \cup {Source(w)} /\ UNCHANGED pending
  ELSE pending' = pending \cup {Source(w)} /\ UNCHANGED deletions

\* reconcile() throws: the job is retried until its budget is spent.
Fail(w) ==
  /\ run' = [run EXCEPT ![w] = Idle]
  /\ IF tries[Source(w)] < MaxTries
     THEN Requeue(w) /\ UNCHANGED <<tries, dead, review>>
     ELSE /\ dead' = dead \cup {Source(w)}
          /\ UNCHANGED <<pending, deletions, tries, review>>

\* A call of the execution fails, whether or not it had its effect, or the
\* process dies and the lease of the job is recovered.
Fault(w) ==
  /\ ~At(w, "idle")
  /\ faults < MaxFaults
  /\ faults' = faults + 1
  /\ \/ Fail(w)
     \/ /\ run' = [run EXCEPT ![w] = Idle]
        /\ Requeue(w)
        /\ UNCHANGED <<tries, dead, review>>
  /\ UNCHANGED <<crm, mapVars, byUs, created, edits, deletes>>

\* connector.read(): a record that is gone fails the job.
Read(w) ==
  LET s == From(w) i == Source(w)[2] IN
  /\ At(w, "read")
  /\ IF Live(s, i)
     THEN /\ Goto(w, "find", [content |-> crm[s][i],
                              echo |-> Source(w) \in byUs])
          /\ UNCHANGED jobVars
     ELSE Fail(w)
  /\ UNCHANGED <<crm, mapVars, byUs, created, boundVars>>

-----------------------------------------------------------------------------
(* Finding the link *)

\* Mutant: every change is taken for news.
EchoNever(w, link) == FALSE

\* link.hashes[from] === incomingHash
IsEcho(w, link) == link.hashes[From(w)] = run[w].content

\* With its link in hand, the execution drops an echo and otherwise looks at
\* the counterpart, if there is one.
UseLink(w, link) ==
  \/ /\ IsEcho(w, link)
     /\ End(w)
  \/ /\ ~IsEcho(w, link)
     /\ Goto(w, IF link.ids[To(w)] = None THEN "write" ELSE "counterpart",
             [link |-> link, winner |-> run[w].content])
     /\ UNCHANGED jobVars

\* idMap.bySource()
FindBySource(w) ==
  LET s == From(w) i == Source(w)[2] IN
  /\ At(w, "find")
  /\ \/ \E l \in LinkOf(s, i) : UseLink(w, Load(l))
     \/ /\ LinkOf(s, i) = {}
        /\ HasKey(run[w].content)
        /\ Goto(w, "bykey", <<>>)
        /\ UNCHANGED jobVars
     \/ /\ LinkOf(s, i) = {}
        /\ ~HasKey(run[w].content)
        /\ Unused # {}
        /\ UseLink(w, NewLink(s, i, None, run[w].content))
  /\ UNCHANGED <<crm, mapVars, byUs, created, boundVars>>

\* idMap.byNaturalKey(): the link found is given this record's id
FindByKey(w) ==
  LET s == From(w) i == Source(w)[2] k == KeyOf(run[w].content) IN
  /\ At(w, "bykey")
  /\ \/ /\ keyLink[k] # None
        /\ UseLink(w, [Load(keyLink[k]) EXCEPT !.ids[s] = i,
                                               !.keys = @ \cup {k}])
     \/ /\ keyLink[k] = None
        /\ Goto(w, "search", <<>>)
        /\ UNCHANGED jobVars
  /\ UNCHANGED <<crm, mapVars, byUs, created, boundVars>>

\* Mutant: the search of the target is skipped.
SearchNothing(w) ==
  /\ At(w, "search")
  /\ Unused # {}
  /\ UseLink(w, NewLink(From(w), Source(w)[2], None, run[w].content))
  /\ UNCHANGED <<crm, mapVars, byUs, created, boundVars>>

\* connectors[to].findByNaturalKey(): several candidates need a human
Search(w) ==
  LET found == Candidates(To(w), run[w].content) IN
  /\ At(w, "search")
  /\ \/ /\ Cardinality(found) > 1
        /\ run' = [run EXCEPT ![w] = Idle]
        /\ review' = review \cup {Source(w)}
        /\ UNCHANGED <<pending, deletions, tries, dead>>
     \/ /\ Cardinality(found) <= 1
        /\ Unused # {}
        /\ \E t \in IF found = {} THEN {None} ELSE found :
             UseLink(w, NewLink(From(w), Source(w)[2], t, run[w].content))
  /\ UNCHANGED <<crm, mapVars, byUs, created, boundVars>>

-----------------------------------------------------------------------------
(* Conflicts *)

\* The field-by-field merge of p over q, the fields being owned by nobody.
Merge(p, q) == [f \in Field |-> IF p[f] # Null THEN p[f] ELSE q[f]]

\* resolve(): which of the two modification times is the newer is left open,
\* since each is stamped by the clock of its own vendor.
Winners(w, mine, theirs) ==
  CASE Strategy = "source-of-truth" ->
         {IF From(w) = SourceOfTruth THEN mine ELSE theirs}
    [] Strategy = "last-write-wins" -> {mine, theirs}
    [] Strategy = "field-merge" -> {Merge(mine, theirs), Merge(theirs, mine)}

\* connectors[to].read(): a counterpart that differs from its recorded hash
\* was changed since the last sync.
ReadCounterpart(w) ==
  LET t == run[w].link.ids[To(w)]
      theirs == crm[To(w)][t]
      changed == Live(To(w), t) /\ theirs # run[w].link.hashes[To(w)] IN
  /\ At(w, "counterpart")
  /\ \/ /\ changed
        /\ \E c \in Winners(w, run[w].content, theirs) :
             Goto(w, "conflict", [winner |-> c])
     \/ /\ ~changed
        /\ Goto(w, "write", <<>>)
  /\ UNCHANGED <<crm, mapVars, jobVars, byUs, created, boundVars>>

\* governance.recordConflict(): conflicts.link_id references record_links, so
\* the row of a link that was never saved is refused.
RecordConflict(w) ==
  /\ At(w, "conflict")
  /\ IF Saved(run[w].link.id)
     THEN Goto(w, "write", <<>>) /\ UNCHANGED jobVars
     ELSE Fail(w)
  /\ UNCHANGED <<crm, mapVars, byUs, created, boundVars>>

-----------------------------------------------------------------------------
(* Writing *)

MissingRequired(w) == \E f \in Required[To(w)] \ ReadOnly[To(w)] :
                        run[w].winner[f] = Null

\* A successful write by the engine is itself a change that raises an event.
WriteRecord(s, i, c) ==
  /\ crm' = [crm EXCEPT ![s][i] = Written(s, @, c)]
  /\ byUs' = byUs \cup {<<s, i>>}
  /\ pending' = pending \cup {<<s, i>>}
  /\ tries' = [tries EXCEPT ![<<s, i>>] = 0]
  /\ dead' = dead \ {<<s, i>>}
  /\ review' = review \ {<<s, i>>}
  /\ UNCHANGED deletions

\* Mutant: the winner is taken to be the source's content without writing it
\* back there.
AfterWriteOneSided(w, t) ==
  Goto(w, "save", [link |-> [run[w].link EXCEPT !.ids[To(w)] = t,
                               !.hashes = [s \in System |-> run[w].winner]]])

\* After the write: the new hash, and the source next if the winner differs.
AfterWrite(w, t) ==
  LET c == run[w].winner
      link == [run[w].link EXCEPT !.ids[To(w)] = t,
                                  !.hashes[To(w)] = c] IN
  IF c # run[w].content
  THEN Goto(w, "writeback", [link |-> link])
  ELSE Goto(w, "save", [link |-> [link EXCEPT !.hashes[From(w)] = c]])

\* connectors[to].upsert() on a record that exists
Update(w, stage) ==
  LET t == run[w].link.ids[To(w)] IN
  /\ At(w, stage)
  /\ t # None
  /\ ~MissingRequired(w)
  /\ Live(To(w), t)
  /\ KeyOwners(To(w), t, run[w].winner) = {}
  /\ WriteRecord(To(w), t, run[w].winner)
  /\ AfterWrite(w, t)
  /\ UNCHANGED <<mapVars, created, boundVars>>

\* connectors[to].upsert() without a target id
Create(w) ==
  /\ At(w, "write")
  /\ run[w].link.ids[To(w)] = None
  /\ ~MissingRequired(w)
  /\ \E t \in NativeId :
       /\ crm[To(w)][t] = Absent
       /\ KeyOwners(To(w), t, run[w].winner) = {}
       /\ WriteRecord(To(w), t, run[w].winner)
       /\ created' = created \cup {<<To(w), t>>}
       /\ AfterWrite(w, t)
  /\ UNCHANGED <<mapVars, boundVars>>

\* The target names another record that owns the natural key: the write is
\* repeated on that record.
Heal(w) ==
  /\ At(w, "write")
  /\ ~MissingRequired(w)
  /\ LET t == run[w].link.ids[To(w)] IN
     \E i \in IF t = None THEN {x \in NativeId : crm[To(w)][x] = Absent} ELSE {t} :
       /\ t # None => Live(To(w), t)
       /\ \E o \in KeyOwners(To(w), i, run[w].winner) :
            Goto(w, "rewrite", [link |-> [run[w].link EXCEPT !.ids[To(w)] = o]])
  /\ UNCHANGED <<crm, mapVars, jobVars, byUs, created, boundVars>>

\* A required field is blank, the target is gone, or the repeated write hits
\* another owner.
WriteFails(w) ==
  LET t == run[w].link.ids[To(w)] IN
  /\ \/ At(w, "write") /\ (MissingRequired(w) \/ (t # None /\ ~Live(To(w), t)))
     \/ At(w, "rewrite") /\ ( \/ ~Live(To(w), t)
                              \/ KeyOwners(To(w), t, run[w].winner) # {})
  /\ Fail(w)
  /\ UNCHANGED <<crm, mapVars, byUs, created, boundVars>>

\* connectors[from].upsert(): both sides get the winner
WriteBack(w) ==
  LET s == From(w) i == Source(w)[2] IN
  /\ At(w, "writeback")
  /\ IF Live(s, i) /\ KeyOwners(s, i, run[w].winner) = {}
     THEN /\ WriteRecord(s, i, run[w].winner)
          /\ Goto(w, "save", [link |-> [run[w].link EXCEPT
                                          !.hashes[s] = run[w].winner]])
     ELSE Fail(w) /\ UNCHANGED <<crm, byUs>>
  /\ UNCHANGED <<mapVars, created, boundVars>>

\* UNIQUE (tenant_id, system, native_id)
TakenByAnother(link) ==
  \E s \in System : link.ids[s] # None /\ LinkOf(s, link.ids[s]) \ {link.id} # {}

\* idMap.upsertLink()
Save(w) ==
  LET link == run[w].link IN
  /\ At(w, "save")
  /\ \/ /\ TakenByAnother(link)
        /\ Fail(w)
        /\ UNCHANGED mapVars
     \/ /\ ~TakenByAnother(link)
        /\ side' = [side EXCEPT ![link.id] = [s \in System |->
                      IF link.ids[s] = None THEN @[s]
                      ELSE [id |-> link.ids[s], hash |-> link.hashes[s]]]]
        /\ keyLink' = [k \in Key |-> IF k \in link.keys THEN link.id
                                                        ELSE keyLink[k]]
        /\ End(w)
  /\ UNCHANGED <<crm, byUs, created, boundVars>>

-----------------------------------------------------------------------------
(* propagateDelete() *)

\* Mutant: the id of the deleted record is looked up in the other CRM.
FindDoomedWrongSide(w) ==
  LET s == From(w) i == Source(w)[2] IN
  /\ At(w, "unlink")
  /\ \/ \E l \in LinkOf(Other(s), i) :
          Goto(w, "remove", [link |-> Load(l)]) /\ UNCHANGED jobVars
     \/ LinkOf(Other(s), i) = {} /\ End(w)
  /\ UNCHANGED <<crm, mapVars, byUs, created, boundVars>>

\* idMap.bySource(): without a counterpart there is nothing to remove
FindDoomed(w) ==
  LET s == From(w) i == Source(w)[2] IN
  /\ At(w, "unlink")
  /\ \/ \E l \in LinkOf(s, i) :
          IF side[l][To(w)] = None THEN End(w)
          ELSE Goto(w, "remove", [link |-> Load(l)]) /\ UNCHANGED jobVars
     \/ LinkOf(s, i) = {} /\ End(w)
  /\ UNCHANGED <<crm, mapVars, byUs, created, boundVars>>

\* connectors[target].remove(): fails on a record that is already gone
RemoveCounterpart(w) ==
  LET t == run[w].link.ids[To(w)] IN
  /\ At(w, "remove")
  /\ IF Live(To(w), t)
     THEN /\ crm' = [crm EXCEPT ![To(w)][t] = Deleted]
          /\ deletions' = deletions \cup {<<To(w), t>>}
          /\ tries' = [tries EXCEPT ![<<To(w), t>>] = 0]
          /\ run' = [run EXCEPT ![w] = Idle]
          /\ UNCHANGED <<pending, dead, review>>
     ELSE Fail(w) /\ UNCHANGED crm
  /\ UNCHANGED <<mapVars, byUs, created, boundVars>>

-----------------------------------------------------------------------------
Users == \E s \in System, i \in NativeId : Edit(s, i) \/ Remove(s, i)

Step(w) ==
  \/ StartUpdate(w) \/ StartDelete(w) \/ Read(w)
  \/ FindBySource(w) \/ FindByKey(w) \/ Search(w)
  \/ ReadCounterpart(w) \/ RecordConflict(w)
  \/ Update(w, "write") \/ Update(w, "rewrite") \/ Create(w) \/ Heal(w)
  \/ WriteFails(w) \/ WriteBack(w) \/ Save(w)
  \/ FindDoomed(w) \/ RemoveCounterpart(w)

Next == Users \/ \E w \in Worker : Step(w) \/ Fault(w)

Spec == Init /\ [][Next]_vars

\* An execution that has begun goes on, and a waiting event is claimed.
FairSpec == Spec /\ \A w \in Worker : WF_vars(Step(w))

-----------------------------------------------------------------------------
(* Properties *)

LinkRecord == [id : Link, ids : [System -> NativeId \cup {None}],
               hashes : [System -> Content \cup {None}], keys : SUBSET Key]

Stage == {"read", "find", "bykey", "search", "counterpart", "conflict",
          "write", "rewrite", "writeback", "save", "unlink", "remove"}

Execution == [at : Stage, source : Record, content : Content \cup {None},
              echo : BOOLEAN, link : LinkRecord \cup {None},
              winner : Content \cup {None}]

\* Every variable keeps the shape its table, record or local has in the code.
TypeOK ==
  /\ crm \in [System -> [NativeId -> Content \cup {Absent, Deleted}]]
  /\ side \in [Link -> [System ->
       [id : NativeId, hash : Content \cup {None}] \cup {None}]]
  /\ keyLink \in [Key -> Link \cup {None}]
  /\ pending \subseteq Record /\ deletions \subseteq Record
  /\ dead \subseteq Record /\ review \subseteq Record
  /\ tries \in [Record -> 0 .. MaxTries]
  /\ run \in [Worker -> Execution \cup {Idle}]
  /\ byUs \subseteq Record /\ created \subseteq Record
  /\ edits \in 0 .. MaxEdits /\ deletes \in 0 .. MaxDeletes
  /\ faults \in 0 .. MaxFaults

Quiet == pending = {} /\ deletions = {} /\ \A w \in Worker : At(w, "idle")

\* Once nothing is left to do, two records that are linked hold the same
\* values in every field both CRMs accept, unless the job of one of them was
\* given up or waits for a human: what reconcile() is there for.
Agreement ==
  Quiet => \A l \in Link :
    (\A s \in System : /\ side[l][s] # None
                       /\ Live(s, side[l][s].id)
                       /\ <<s, side[l][s].id>> \notin dead \cup review)
    => \A f \in Field \ UNION {ReadOnly[s] : s \in System} :
         crm["salesforce"][side[l]["salesforce"].id][f] =
         crm["hubspot"][side[l]["hubspot"].id][f]

\* The engine never creates a record beside one of its own with the same
\* natural key, even when a create is retried because its outcome was lost.
NoTwinCreated ==
  [][\A r, q \in Record :
       (/\ r[1] = q[1] /\ r # q
        /\ r \in created' \ created
        /\ q \in created /\ Live(q[1], q[2]))
       => ~SameKey(crm'[r[1]][r[2]], crm[q[1]][q[2]])]_vars

\* An execution that read what the engine itself wrote to a record, which has
\* kept its link since, never writes to a CRM: the event is an echo and is
\* dropped.
EchoDropped ==
  [][\A w \in Worker :
       (/\ run[w] # Idle /\ run[w].echo
        /\ LinkOf(From(w), Source(w)[2]) # {}
        /\ run'[w].at \in {"writeback", "save"})
       => run'[w] = run[w]]_vars

\* A deletion carried over to the other CRM never removes a record that is
\* linked to a living one.
DeleteSparesLiving ==
  [][\A w \in Worker, l \in Link :
       (/\ At(w, "remove") /\ run'[w] # run[w]
        /\ side[l][To(w)] # None /\ side[l][From(w)] # None
        /\ crm'[To(w)][side[l][To(w)].id] # crm[To(w)][side[l][To(w)].id])
       => ~Live(From(w), side[l][From(w)].id)]_vars

\* A record whose only counterpart by natural key was there before it was
\* ever synchronised is not given up: it is linked.
MatchLinks ==
  \A e \in dead :
    ~(/\ Live(e[1], e[2]) /\ LinkOf(e[1], e[2]) = {}
      /\ Cardinality(Candidates(Other(e[1]), crm[e[1]][e[2]])) = 1)

\* Synchronisation stops by itself: the engine's own writes do not keep it
\* busy for ever.
Quiesces == <>[]Quiet
=============================================================================
