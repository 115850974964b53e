-------------------------- MODULE ReconcilerProofs --------------------------
(***************************************************************************)
(* Theorems about the executions of Reconciler.reconcile(). Type           *)
(* correctness is proved for any number of workers. The rest is proved for *)
(* one worker, over any contents, records, links, edits, deletions and     *)
(* faults, any conflict strategy and any read-only and required fields:    *)
(* with two workers the runs of MCReconciler show it false. What is shown  *)
(* of twins and of echoes has the hypotheses that are stated with it.      *)
(***************************************************************************)
EXTENDS Reconciler, TLAPS

Part == {"at", "source", "content", "echo", "link", "winner"}

\* The stages at which an execution holds the content it read, a link, and a
\* link with a counterpart.
Holding  == {"find", "bykey", "search", "counterpart", "conflict", "write",
             "rewrite", "writeback", "save"}
Linking  == {"counterpart", "conflict", "write", "rewrite", "writeback", "save"}
Targeted == {"counterpart", "conflict", "rewrite", "writeback", "save",
             "remove"}

\* What the locals of an execution are at each stage.
Sound(r) ==
  /\ r.at \in Holding => r.content \in Content
  /\ r.at \in {"bykey", "search"} => HasKey(r.content)
  /\ r.at \in Linking => /\ r.link \in LinkRecord
                         /\ r.winner \in Content
                         /\ r.link.ids[r.source[1]] = r.source[2]
  /\ r.at \in Targeted => /\ r.link \in LinkRecord
                          /\ r.link.ids[Other(r.source[1])] \in NativeId
  /\ r.at \in {"writeback", "save"} =>
       r.link.hashes[Other(r.source[1])] = r.winner
  /\ r.at = "save" => r.link.hashes[r.source[1]] = r.winner

Progress == \A w \in Worker : run[w] \in Execution => Sound(run[w])

TypeInv == TypeOK /\ Progress

-----------------------------------------------------------------------------
(* The operators *)

\* There are two CRMs.
LEMMA TwoSystems ==
  /\ \A s \in System : Other(s) \in System /\ Other(s) # s /\ Other(Other(s)) = s
  /\ \A s, x \in System : x = s \/ x = Other(s)
BY DEF System, Other

\* A content with a value in every key field has a key.
LEMMA KeyType ==
  ASSUME NEW c \in Content, HasKey(c)
  PROVE  KeyOf(c) \in Key
BY ConstantsAssumption DEF HasKey, KeyOf, Key, Content

\* What a CRM holds after a write, and a merge, are contents.
LEMMA WrittenType ==
  ASSUME NEW s \in System, NEW old \in Content \cup {Absent, Deleted},
         NEW c \in Content, old # Deleted
  PROVE  Written(s, old, c) \in Content
<1>1. ASSUME NEW f \in Field
      PROVE  (IF f \in ReadOnly[s] THEN IF old = Absent THEN Null ELSE old[f]
                                   ELSE Kept[s][c[f]]) \in Value
  BY ConstantsAssumption DEF Content
<1>2. QED BY <1>1 DEF Written, Content

LEMMA MergeType ==
  ASSUME NEW p \in Content, NEW q \in Content
  PROVE  Merge(p, q) \in Content
BY DEF Merge, Content

LEMMA MarkersDiffer ==
  /\ Absent \notin Content /\ Deleted \notin Content /\ None \notin Content
  /\ Absent # Deleted /\ None \notin NativeId /\ None \notin Link
BY MarkersAssumption

\* Idle is not an execution.
LEMMA IdleAt ==
  /\ Idle.at = "idle" /\ Idle \notin Execution
  /\ \A r \in Execution : r.at \in Stage /\ r.at # "idle" /\ r # Idle
<1>1. \A r \in Execution : r.at \in Stage /\ r.at # "idle"
  BY DEF Execution, Stage
<1>2. Idle.at = "idle" BY DEF Idle
<1>3. QED BY <1>1, <1>2

LEMMA RecType ==
  ASSUME NEW r, r = [f \in Part |-> r[f]],
         r.at \in Stage, r.source \in Record, r.content \in Content \cup {None},
         r.echo \in BOOLEAN, r.link \in LinkRecord \cup {None},
         r.winner \in Content \cup {None}
  PROVE  r \in Execution
BY DEF Execution, Part

\* The worker that steps is the only one that moves.
Moves(w) == run' = [run EXCEPT ![w] = run'[w]]

\* An execution that goes on to its next call keeps the locals that are not
\* replaced (Goto).
LEMMA GoesOn ==
  ASSUME NEW w \in Worker, NEW stage \in Stage, NEW locals, NEW D, D = DOMAIN locals,
         D \subseteq {"content", "echo", "link", "winner"},
         "content" \in D => locals["content"] \in Content,
         "echo" \in D => locals["echo"] \in BOOLEAN,
         "link" \in D => locals["link"] \in LinkRecord,
         "winner" \in D => locals["winner"] \in Content,
         run \in [Worker -> Execution \cup {Idle}], run[w] \in Execution,
         Goto(w, stage, locals)
  PROVE  /\ Moves(w) /\ run'[w] \in Execution
         /\ run'[w].at = stage /\ run'[w].source = run[w].source
         /\ run'[w].content = IF "content" \in D THEN locals["content"]
                                                 ELSE run[w].content
         /\ run'[w].link = IF "link" \in D THEN locals["link"] ELSE run[w].link
         /\ run'[w].winner = IF "winner" \in D THEN locals["winner"]
                                               ELSE run[w].winner
         /\ run'[w].echo = IF "echo" \in D THEN locals["echo"] ELSE run[w].echo
<1>1. DOMAIN run[w] = Part BY DEF Execution, Part
<1>2. run'[w] = [f \in Part |-> IF f = "at" THEN stage
               ELSE IF f \in D THEN locals[f] ELSE run[w][f]]
  BY <1>1 DEF Goto
<1>3. Moves(w) BY DEF Goto, Moves
<1>4. run'[w] = [f \in Part |-> run'[w][f]] BY <1>2
<1>5. /\ run'[w].at = stage /\ run'[w].source = run[w].source
      /\ run'[w].content = IF "content" \in D THEN locals["content"]
                                              ELSE run[w].content
      /\ run'[w].link = IF "link" \in D THEN locals["link"] ELSE run[w].link
      /\ run'[w].winner = IF "winner" \in D THEN locals["winner"]
                                            ELSE run[w].winner
  BY <1>2 DEF Part
<1>6. run'[w].echo = IF "echo" \in D THEN locals["echo"] ELSE run[w].echo
  BY <1>2 DEF Part
<1>7. /\ run[w].source \in Record /\ run[w].content \in Content \cup {None}
      /\ run[w].echo \in BOOLEAN /\ run[w].link \in LinkRecord \cup {None}
      /\ run[w].winner \in Content \cup {None}
  BY DEF Execution
<1>8. run'[w].content \in Content \cup {None} BY <1>5, <1>7
<1>9. run'[w].link \in LinkRecord \cup {None} BY <1>5, <1>7
<1>10. run'[w].winner \in Content \cup {None} BY <1>5, <1>7
<1>11. run'[w].echo \in BOOLEAN BY <1>6, <1>7
<1>12. run'[w] \in Execution
  BY <1>4, <1>5, <1>7, <1>8, <1>9, <1>10, <1>11, RecType
<1>13. QED BY <1>3, <1>5, <1>6, <1>12

\* ... with nothing new
LEMMA GoesOnPlain ==
  ASSUME NEW w \in Worker, NEW stage \in Stage,
         run \in [Worker -> Execution \cup {Idle}], run[w] \in Execution,
         Goto(w, stage, <<>>)
  PROVE  /\ Moves(w) /\ run'[w] \in Execution
         /\ run'[w].at = stage /\ run'[w].source = run[w].source
         /\ run'[w].content = run[w].content /\ run'[w].link = run[w].link
         /\ run'[w].winner = run[w].winner /\ run'[w].echo = run[w].echo
<1> DEFINE none == <<>>
<1>1. DOMAIN none = {} OBVIOUS
<1>2. Goto(w, stage, none) OBVIOUS
<1> HIDE DEF none
<1>3. QED BY <1>1, <1>2, GoesOn

\* ... with what was read
LEMMA GoesOnRead ==
  ASSUME NEW w \in Worker, NEW stage \in Stage, NEW c \in Content, NEW b \in BOOLEAN,
         run \in [Worker -> Execution \cup {Idle}], run[w] \in Execution,
         Goto(w, stage, [content |-> c, echo |-> b])
  PROVE  /\ Moves(w) /\ run'[w] \in Execution
         /\ run'[w].at = stage /\ run'[w].source = run[w].source
         /\ run'[w].content = c /\ run'[w].echo = b
<1> DEFINE l == [content |-> c, echo |-> b]
<1>1. DOMAIN l = {"content", "echo"} OBVIOUS
<1>2. Goto(w, stage, l) OBVIOUS
<1>3. l["content"] = c /\ l["echo"] = b OBVIOUS
<1> HIDE DEF l
<1>4. QED BY <1>1, <1>2, <1>3, GoesOn

\* ... with a link and a winner
LEMMA GoesOnLinked ==
  ASSUME NEW w \in Worker, NEW stage \in Stage, NEW c \in Content, NEW k \in LinkRecord,
         run \in [Worker -> Execution \cup {Idle}], run[w] \in Execution,
         Goto(w, stage, [link |-> k, winner |-> c])
  PROVE  /\ Moves(w) /\ run'[w] \in Execution
         /\ run'[w].at = stage /\ run'[w].source = run[w].source
         /\ run'[w].content = run[w].content /\ run'[w].link = k
         /\ run'[w].winner = c /\ run'[w].echo = run[w].echo
<1> DEFINE l == [link |-> k, winner |-> c]
<1>1. DOMAIN l = {"link", "winner"} OBVIOUS
<1>2. Goto(w, stage, l) OBVIOUS
<1>3. l["link"] = k /\ l["winner"] = c OBVIOUS
<1> HIDE DEF l
<1>4. QED BY <1>1, <1>2, <1>3, GoesOn

\* ... with another winner
LEMMA GoesOnWinner ==
  ASSUME NEW w \in Worker, NEW stage \in Stage, NEW c \in Content,
         run \in [Worker -> Execution \cup {Idle}], run[w] \in Execution,
         Goto(w, stage, [winner |-> c])
  PROVE  /\ Moves(w) /\ run'[w] \in Execution
         /\ run'[w].at = stage /\ run'[w].source = run[w].source
         /\ run'[w].content = run[w].content /\ run'[w].link = run[w].link
         /\ run'[w].winner = c /\ run'[w].echo = run[w].echo
<1> DEFINE l == [winner |-> c]
<1>1. DOMAIN l = {"winner"} OBVIOUS
<1>2. Goto(w, stage, l) OBVIOUS
<1>3. l["winner"] = c OBVIOUS
<1> HIDE DEF l
<1>4. QED BY <1>1, <1>2, <1>3, GoesOn

\* ... with another link
LEMMA GoesOnLink ==
  ASSUME NEW w \in Worker, NEW stage \in Stage, NEW k \in LinkRecord,
         run \in [Worker -> Execution \cup {Idle}], run[w] \in Execution,
         Goto(w, stage, [link |-> k])
  PROVE  /\ Moves(w) /\ run'[w] \in Execution
         /\ run'[w].at = stage /\ run'[w].source = run[w].source
         /\ run'[w].content = run[w].content /\ run'[w].link = k
         /\ run'[w].winner = run[w].winner /\ run'[w].echo = run[w].echo
<1> DEFINE l == [link |-> k]
<1>1. DOMAIN l = {"link"} OBVIOUS
<1>2. Goto(w, stage, l) OBVIOUS
<1>3. l["link"] = k OBVIOUS
<1> HIDE DEF l
<1>4. QED BY <1>1, <1>2, <1>3, GoesOn

-----------------------------------------------------------------------------
(* Type correctness *)

\* The worker that stepped is idle or holds what its stage needs.
Stepped(w) == /\ Moves(w)
              /\ \/ run'[w] = Idle
                 \/ run'[w] \in Execution /\ Sound(run'[w])

\* ... and the others keep what they hold.
LEMMA SteppedKeeps ==
  ASSUME NEW w \in Worker, TypeInv, Stepped(w)
  PROVE  /\ run' \in [Worker -> Execution \cup {Idle}]
         /\ Progress'
<1>2. run \in [Worker -> Execution \cup {Idle}] BY DEF TypeInv, TypeOK
<1>1. /\ \A v \in Worker \ {w} : run'[v] = run[v]
      /\ run'[w] \in Execution \cup {Idle}
  BY <1>2 DEF Stepped, Moves
<1>5. run' \in [Worker -> Execution \cup {Idle}]
  BY <1>1, <1>2 DEF Stepped, Moves
<1>6. ASSUME NEW v \in Worker, run'[v] \in Execution
      PROVE  Sound(run'[v])
  <2>1. CASE v = w BY <1>6, <2>1, IdleAt DEF Stepped
  <2>2. CASE v # w
    <3>1. run'[v] = run[v] BY <1>1, <2>2
    <3>2. Sound(run[v]) BY <1>6, <3>1 DEF TypeInv, Progress
    <3>3. QED BY <3>1, <3>2
  <2>3. QED BY <2>1, <2>2
<1>7. Progress' BY <1>6 DEF Progress, Sound
<1>8. QED BY <1>5, <1>7

\* The events and jobs keep their shape.
JobsOK == /\ pending \subseteq Record /\ deletions \subseteq Record
          /\ dead \subseteq Record /\ review \subseteq Record
          /\ tries \in [Record -> 0 .. MaxTries]

CrmOK == crm \in [System -> [NativeId -> Content \cup {Absent, Deleted}]]

LEMMA SourceType ==
  ASSUME NEW w \in Worker, run[w] \in Execution
  PROVE  /\ Source(w) \in Record /\ From(w) \in System /\ To(w) \in System
         /\ Source(w)[2] \in NativeId /\ Source(w) = <<From(w), Source(w)[2]>>
         /\ From(w) = run[w].source[1] /\ To(w) = Other(run[w].source[1])
         /\ To(w) # From(w)
<1>1. run[w].source \in System \X NativeId BY DEF Execution, Record
<1>2. QED BY <1>1, TwoSystems DEF Source, From, To, Record

\* A worker that is not idle is executing.
LEMMA Executing ==
  ASSUME TypeOK, NEW w \in Worker, run[w].at # "idle"
  PROVE  run[w] \in Execution
<1>1. run[w] \in Execution \cup {Idle} BY DEF TypeOK
<1>2. QED BY <1>1, IdleAt

\* A failure ends the execution and leaves the jobs well-formed.
LEMMA FailSteps ==
  ASSUME TypeOK, NEW w \in Worker, run[w] \in Execution, Fail(w)
  PROVE  Stepped(w) /\ run'[w] = Idle /\ JobsOK'
<1>1. run \in [Worker -> Execution \cup {Idle}] BY DEF TypeOK
<1>2. Moves(w) /\ run'[w] = Idle BY <1>1 DEF Fail, Moves
<1>3. Source(w) \in Record BY SourceType
<1>4. JobsOK' BY <1>3 DEF TypeOK, JobsOK, Fail, Requeue
<1>5. QED BY <1>2, <1>4 DEF Stepped

LEMMA EndSteps ==
  ASSUME TypeOK, NEW w \in Worker, run' = [run EXCEPT ![w] = Idle]
  PROVE  Stepped(w) /\ run'[w] = Idle
<1>1. run \in [Worker -> Execution \cup {Idle}] BY DEF TypeOK
<1>2. QED BY <1>1 DEF Stepped, Moves

\* WriteRecord() changes one record and covers it with an event.
LEMMA WriteTypes ==
  ASSUME TypeOK, NEW s \in System, NEW i \in NativeId, NEW c \in Content,
         crm[s][i] # Deleted, WriteRecord(s, i, c)
  PROVE  /\ CrmOK' /\ JobsOK' /\ byUs' \subseteq Record
         /\ crm'[s][i] \in Content /\ crm'[s][i] = Written(s, crm[s][i], c)
         /\ \A x \in System, j \in NativeId : <<x, j>> # <<s, i>> => crm'[x][j] = crm[x][j]
         /\ pending' = pending \cup {<<s, i>>} /\ dead' = dead \ {<<s, i>>}
         /\ review' = review \ {<<s, i>>}
<1> DEFINE d == Written(s, crm[s][i], c)
<1>1. crm \in [System -> [NativeId -> Content \cup {Absent, Deleted}]]
  BY DEF TypeOK
<1>2. d \in Content BY <1>1, WrittenType
<1>3. crm' = [crm EXCEPT ![s][i] = d] BY DEF WriteRecord
<1> HIDE DEF d
<1>4. CrmOK' /\ crm'[s][i] = d BY <1>1, <1>2, <1>3 DEF CrmOK
<1>5. \A x \in System, j \in NativeId : <<x, j>> # <<s, i>> => crm'[x][j] = crm[x][j]
  BY <1>1, <1>3
<1>6. <<s, i>> \in Record BY DEF Record
<1>7. tries' \in [Record -> 0 .. MaxTries]
  <2>1. 0 \in 0 .. MaxTries BY ConstantsAssumption
  <2>2. tries' = [tries EXCEPT ![<<s, i>>] = 0] BY DEF WriteRecord
  <2>3. tries \in [Record -> 0 .. MaxTries] BY DEF TypeOK
  <2>4. QED BY <1>6, <2>1, <2>2, <2>3
<1>8. /\ byUs' = byUs \cup {<<s, i>>} /\ pending' = pending \cup {<<s, i>>}
      /\ dead' = dead \ {<<s, i>>} /\ review' = review \ {<<s, i>>}
      /\ deletions' = deletions
  BY DEF WriteRecord
<1>9. JobsOK' /\ byUs' \subseteq Record
  BY <1>6, <1>7, <1>8 DEF TypeOK, JobsOK
<1>10. QED BY <1>2, <1>4, <1>5, <1>8, <1>9 DEF d

\* Links, loaded or new, are link records.
LEMMA LoadType ==
  ASSUME TypeOK, NEW l \in Link
  PROVE  Load(l) \in LinkRecord
BY DEF Load, TypeOK, LinkRecord

LEMMA NewLinkType ==
  ASSUME NEW s \in System, NEW i \in NativeId, NEW t \in NativeId \cup {None},
         NEW c \in Content, Unused # {}
  PROVE  /\ NewLink(s, i, t, c) \in LinkRecord
         /\ NewLink(s, i, t, c).ids[s] = i /\ NewLink(s, i, t, c).ids[Other(s)] = t
         /\ \A x \in System : NewLink(s, i, t, c).hashes[x] = None
         /\ NewLink(s, i, t, c).id \in Unused
<1>1. (CHOOSE l \in Unused : TRUE) \in Unused OBVIOUS
<1>2. Unused \subseteq Link BY DEF Unused
<1>3. HasKey(c) => KeyOf(c) \in Key BY KeyType
<1>4. QED BY <1>1, <1>2, <1>3, TwoSystems DEF NewLink, LinkRecord

\* With its link in hand an execution ends as an echo or goes on with it.
LEMMA UseLinkSteps ==
  ASSUME TypeInv, NEW w \in Worker, run[w] \in Execution,
         run[w].at \in {"find", "bykey", "search"},
         NEW k \in LinkRecord, k.ids[From(w)] = Source(w)[2],
         UseLink(w, k)
  PROVE  /\ Stepped(w) /\ UNCHANGED jobVars
         /\ \/ IsEcho(w, k) /\ run'[w] = Idle
            \/ /\ ~IsEcho(w, k) /\ run'[w] \in Execution
               /\ run'[w].at = IF k.ids[To(w)] = None THEN "write"
                                                      ELSE "counterpart"
               /\ run'[w].source = run[w].source
               /\ run'[w].content = run[w].content
               /\ run'[w].link = k /\ run'[w].winner = run[w].content
               /\ run'[w].echo = run[w].echo
<1>1. TypeOK /\ run \in [Worker -> Execution \cup {Idle}] BY DEF TypeInv, TypeOK
<1>2. run[w].content \in Content
  BY DEF TypeInv, Progress, Sound, Holding
<1>3. CASE IsEcho(w, k) /\ End(w)
  BY <1>1, <1>3, EndSteps DEF End
<1>4. CASE /\ ~IsEcho(w, k)
           /\ Goto(w, IF k.ids[To(w)] = None THEN "write" ELSE "counterpart",
                   [link |-> k, winner |-> run[w].content])
           /\ UNCHANGED jobVars
  <2>1. PICK stage \in {"write", "counterpart"} :
          stage = IF k.ids[To(w)] = None THEN "write" ELSE "counterpart"
    OBVIOUS
  <2>2. stage \in Stage BY DEF Stage
  <2>3. Goto(w, stage, [link |-> k, winner |-> run[w].content]) BY <1>4, <2>1
  <2>4. /\ Moves(w) /\ run'[w] \in Execution
        /\ run'[w].at = stage /\ run'[w].source = run[w].source
        /\ run'[w].content = run[w].content /\ run'[w].link = k
        /\ run'[w].winner = run[w].content /\ run'[w].echo = run[w].echo
    BY <1>1, <1>2, <2>2, <2>3, GoesOnLinked
  <2>5. stage = "counterpart" => k.ids[To(w)] \in NativeId
    BY <2>1, SourceType DEF LinkRecord
  <2>6. Sound(run'[w])
    BY <1>2, <2>1, <2>4, <2>5, SourceType DEF Sound, Holding, Linking, Targeted, Source
  <2>7. QED BY <1>4, <2>1, <2>4, <2>6 DEF Stepped
<1>5. QED BY <1>3, <1>4 DEF UseLink

\* After a write to t the link has both ids and the target's new hash.
LEMMA AfterWriteSteps ==
  ASSUME TypeInv, NEW w \in Worker, run[w] \in Execution,
         run[w].at \in {"write", "rewrite"},
         NEW t \in NativeId, AfterWrite(w, t)
  PROVE  /\ Stepped(w) /\ run'[w] \in Execution
         /\ run'[w].source = run[w].source
         /\ run'[w].content = run[w].content
         /\ run'[w].winner = run[w].winner /\ run'[w].echo = run[w].echo
         /\ run'[w].link.id = run[w].link.id
         /\ run'[w].link.keys = run[w].link.keys
         /\ run'[w].link.ids[To(w)] = t
         /\ run'[w].at \in {"writeback", "save"}
         /\ run'[w].at = "save" => run[w].winner = run[w].content
<1>1. run \in [Worker -> Execution \cup {Idle}] BY DEF TypeInv, TypeOK
<1>2. /\ run[w].content \in Content /\ run[w].winner \in Content
      /\ run[w].link \in LinkRecord /\ run[w].link.ids[From(w)] = Source(w)[2]
  BY SourceType DEF TypeInv, Progress, Sound, Holding, Linking, Source
<1>3. PICK k \in LinkRecord :
        /\ k = [run[w].link EXCEPT !.ids[To(w)] = t, !.hashes[To(w)] = run[w].winner]
        /\ k.id = run[w].link.id /\ k.keys = run[w].link.keys /\ k.ids[To(w)] = t
        /\ k.ids[From(w)] = Source(w)[2] /\ k.hashes[To(w)] = run[w].winner
  <2>1. [run[w].link EXCEPT !.ids[To(w)] = t, !.hashes[To(w)] = run[w].winner]
          \in LinkRecord
    BY <1>2, SourceType DEF LinkRecord
  <2>2. QED BY <2>1, <1>2, SourceType DEF LinkRecord
<1>4. PICK m \in LinkRecord :
        /\ m = [k EXCEPT !.hashes[From(w)] = run[w].winner]
        /\ m.id = run[w].link.id /\ m.keys = run[w].link.keys /\ m.ids = k.ids
        /\ m.hashes[To(w)] = run[w].winner /\ m.hashes[From(w)] = run[w].winner
  <2>1. [k EXCEPT !.hashes[From(w)] = run[w].winner] \in LinkRecord
    BY <1>2, <1>3, SourceType DEF LinkRecord
  <2>2. QED BY <2>1, <1>3, SourceType DEF LinkRecord
<1>5. "writeback" \in Stage /\ "save" \in Stage BY DEF Stage
<1>6. CASE run[w].winner # run[w].content /\ Goto(w, "writeback", [link |-> k])
  <2>1. /\ Moves(w) /\ run'[w] \in Execution
        /\ run'[w].at = "writeback" /\ run'[w].source = run[w].source
        /\ run'[w].content = run[w].content /\ run'[w].link = k
        /\ run'[w].winner = run[w].winner /\ run'[w].echo = run[w].echo
    BY <1>1, <1>5, <1>6, GoesOnLink
  <2>2. Sound(run'[w])
    BY <2>1, <1>2, <1>3, SourceType DEF Sound, Source
  <2>3. QED BY <2>1, <2>2, <1>3 DEF Stepped
<1>7. CASE run[w].winner = run[w].content /\ Goto(w, "save", [link |-> m])
  <2>1. /\ Moves(w) /\ run'[w] \in Execution
        /\ run'[w].at = "save" /\ run'[w].source = run[w].source
        /\ run'[w].content = run[w].content /\ run'[w].link = m
        /\ run'[w].winner = run[w].winner /\ run'[w].echo = run[w].echo
    BY <1>1, <1>5, <1>7, GoesOnLink
  <2>2. Sound(run'[w])
    BY <2>1, <1>2, <1>3, <1>4, SourceType DEF Sound, Source
  <2>3. QED BY <2>1, <2>2, <1>3, <1>4, <1>7 DEF Stepped
<1>8. QED BY <1>3, <1>4, <1>6, <1>7 DEF AfterWrite

MapOK == /\ side \in [Link -> [System ->
              [id : NativeId, hash : Content \cup {None}] \cup {None}]]
         /\ keyLink \in [Key -> Link \cup {None}]

RestOK == /\ byUs \subseteq Record /\ created \subseteq Record
          /\ edits \in 0 .. MaxEdits /\ deletes \in 0 .. MaxDeletes
          /\ faults \in 0 .. MaxFaults

\* TypeOK part by part.
LEMMA Parts ==
  /\ TypeOK <=> /\ CrmOK /\ JobsOK /\ MapOK /\ RestOK
                /\ run \in [Worker -> Execution \cup {Idle}]
BY DEF TypeOK, CrmOK, JobsOK, MapOK, RestOK

LEMMA StepTyped ==
  ASSUME TypeInv, NEW w \in Worker, Stepped(w), CrmOK', JobsOK', MapOK', RestOK'
  PROVE  TypeInv'
BY SteppedKeeps, Parts DEF TypeInv, TypeOK, CrmOK, JobsOK, MapOK, RestOK

LEMMA Same ==
  ASSUME TypeOK
  PROVE  /\ UNCHANGED jobVars => JobsOK'
         /\ UNCHANGED crm => CrmOK'
         /\ UNCHANGED mapVars => MapOK'
         /\ UNCHANGED <<byUs, created, boundVars>> => RestOK'
BY DEF TypeOK, JobsOK, CrmOK, MapOK, RestOK, jobVars, mapVars, boundVars

LEMMA TypeInit == Init => TypeInv
<1> SUFFICES ASSUME Init PROVE TypeInv OBVIOUS
<1>1. CrmOK BY DEF Init, CrmOK
<1>2. MapOK BY DEF Init, MapOK
<1>3. JobsOK BY ConstantsAssumption DEF Init, JobsOK
<1>4. RestOK BY ConstantsAssumption DEF Init, RestOK
<1>5. run \in [Worker -> Execution \cup {Idle}] BY DEF Init
<1>6. \A w \in Worker : run[w] \notin Execution BY IdleAt DEF Init
<1>7. QED BY <1>1, <1>2, <1>3, <1>4, <1>5, <1>6, Parts DEF TypeInv, Progress

\* Users change records and what waits, never links or executions.
LEMMA UsersType ==
  ASSUME TypeInv, Users
  PROVE  TypeInv' /\ UNCHANGED <<mapVars, run, created>>
<1>1. TypeOK BY DEF TypeInv
<1>2. ASSUME NEW s \in System, NEW i \in NativeId, Edit(s, i)
      PROVE  TypeInv' /\ UNCHANGED <<mapVars, run, created>>
  <2>1. <<s, i>> \in Record BY DEF Record
  <2>2. PICK c \in UserContent : crm' = [crm EXCEPT ![s][i] = c] BY <1>2 DEF Edit
  <2>3. CrmOK' BY <1>1, <2>2, ConstantsAssumption DEF TypeOK, CrmOK
  <2>4. tries' \in [Record -> 0 .. MaxTries]
    <3>1. 0 \in 0 .. MaxTries BY ConstantsAssumption
    <3>2. tries' = [tries EXCEPT ![<<s, i>>] = 0] BY <1>2 DEF Edit
    <3>3. QED BY <1>1, <2>1, <3>1, <3>2 DEF TypeOK
  <2>5. JobsOK' BY <1>1, <1>2, <2>1, <2>4 DEF TypeOK, JobsOK, Edit
  <2>6. RestOK' BY <1>1, <1>2, ConstantsAssumption DEF TypeOK, RestOK, Edit
  <2>7. UNCHANGED <<mapVars, run, created>> BY <1>2 DEF Edit
  <2>8. MapOK' BY <1>1, <2>7, Same DEF mapVars
  <2>9. Progress' BY <2>7 DEF TypeInv, Progress
  <2>10. run' \in [Worker -> Execution \cup {Idle}] BY <1>1, <2>7 DEF TypeOK
  <2>11. TypeOK' BY <2>3, <2>5, <2>6, <2>8, <2>10 DEF TypeOK, CrmOK, JobsOK, RestOK, MapOK
  <2>12. QED BY <2>7, <2>9, <2>11 DEF TypeInv
<1>3. ASSUME NEW s \in System, NEW i \in NativeId, Remove(s, i)
      PROVE  TypeInv' /\ UNCHANGED <<mapVars, run, created>>
  <2>1. <<s, i>> \in Record BY DEF Record
  <2>3. CrmOK' BY <1>1, <1>3 DEF TypeOK, CrmOK, Remove
  <2>4. tries' \in [Record -> 0 .. MaxTries]
    <3>1. 0 \in 0 .. MaxTries BY ConstantsAssumption
    <3>2. tries' = [tries EXCEPT ![<<s, i>>] = 0] BY <1>3 DEF Remove
    <3>3. QED BY <1>1, <2>1, <3>1, <3>2 DEF TypeOK
  <2>5. JobsOK' BY <1>1, <1>3, <2>1, <2>4 DEF TypeOK, JobsOK, Remove
  <2>6. RestOK' BY <1>1, <1>3, ConstantsAssumption DEF TypeOK, RestOK, Remove
  <2>7. UNCHANGED <<mapVars, run, created>> BY <1>3 DEF Remove
  <2>8. MapOK' BY <1>1, <2>7, Same DEF mapVars
  <2>9. Progress' BY <2>7 DEF TypeInv, Progress
  <2>10. run' \in [Worker -> Execution \cup {Idle}] BY <1>1, <2>7 DEF TypeOK
  <2>11. TypeOK' BY <2>3, <2>5, <2>6, <2>8, <2>10 DEF TypeOK, CrmOK, JobsOK, RestOK, MapOK
  <2>12. QED BY <2>7, <2>9, <2>11 DEF TypeInv
<1>4. QED BY <1>2, <1>3 DEF Users

LEMMA BeginSteps ==
  ASSUME TypeOK, NEW w \in Worker, NEW stage \in {"read", "unlink"}, NEW e \in Record,
         Begin(w, stage, e)
  PROVE  /\ Stepped(w) /\ run'[w] \in Execution /\ run'[w].at = stage
         /\ run'[w].source = e /\ run[w] = Idle
         /\ tries' \in [Record -> 0 .. MaxTries]
<1>1. run \in [Worker -> Execution \cup {Idle}] BY DEF TypeOK
<1>2. /\ Moves(w)
      /\ run'[w] = [at |-> stage, source |-> e, content |-> None, echo |-> FALSE,
                    link |-> None, winner |-> None]
  BY <1>1 DEF Begin, Moves
<1>3. run'[w] \in Execution BY <1>2 DEF Execution, Stage
<1>4. Sound(run'[w]) BY <1>2 DEF Sound, Holding, Linking, Targeted
<1>5. run[w] = Idle BY <1>1, IdleAt DEF Begin, At
<1>6. tries' \in [Record -> 0 .. MaxTries]
  <2>1. tries \in [Record -> 0 .. MaxTries] BY DEF TypeOK
  <2>2. (IF tries[e] < MaxTries THEN tries[e] + 1 ELSE tries[e]) \in 0 .. MaxTries
    BY <2>1, ConstantsAssumption
  <2>3. QED BY <2>1, <2>2 DEF Begin
<1>7. QED BY <1>2, <1>3, <1>4, <1>5, <1>6 DEF Stepped

\* An execution begins.
LEMMA StartStep ==
  ASSUME TypeInv, NEW w \in Worker, StartUpdate(w) \/ StartDelete(w)
  PROVE  /\ TypeInv' /\ UNCHANGED <<crm, side, keyLink, dead, review, created>>
         /\ run[w] = Idle /\ run'[w] \in Execution
         /\ \/ /\ run'[w].at = "read" /\ run'[w].source \in Record
               /\ pending' = pending \ {run'[w].source}
               /\ deletions' = deletions
            \/ /\ run'[w].at = "unlink" /\ run'[w].source \in deletions
               /\ pending' = pending /\ deletions' \subseteq deletions
<1>1. TypeOK BY DEF TypeInv
<1>2. CASE StartUpdate(w)
  <2>1. PICK e \in pending :
          /\ Begin(w, "read", e) /\ pending' = pending \ {e}
          /\ UNCHANGED <<crm, mapVars, deletions, dead, review, byUs, created, boundVars>>
    BY <1>2 DEF StartUpdate
  <2>2. e \in Record BY <1>1, <2>1 DEF TypeOK
  <2>3. /\ Stepped(w) /\ run'[w] \in Execution /\ run'[w].at = "read"
        /\ run'[w].source = e /\ run[w] = Idle
        /\ tries' \in [Record -> 0 .. MaxTries]
    BY <1>1, <2>1, <2>2, BeginSteps
  <2>4. JobsOK' BY <1>1, <2>1, <2>3 DEF TypeOK, JobsOK
  <2>5. CrmOK' /\ MapOK' /\ RestOK' BY <1>1, <2>1, Same
  <2>6. TypeInv' BY <2>3, <2>4, <2>5, StepTyped
  <2>7. QED BY <2>1, <2>2, <2>3, <2>6 DEF mapVars
<1>3. CASE StartDelete(w)
  <2>1. PICK e \in deletions :
          /\ Begin(w, "unlink", e) /\ deletions' = deletions \ {e}
          /\ UNCHANGED <<crm, mapVars, pending, dead, review, byUs, created, boundVars>>
    BY <1>3 DEF StartDelete
  <2>2. e \in Record BY <1>1, <2>1 DEF TypeOK
  <2>3. /\ Stepped(w) /\ run'[w] \in Execution /\ run'[w].at = "unlink"
        /\ run'[w].source = e /\ run[w] = Idle
        /\ tries' \in [Record -> 0 .. MaxTries]
    BY <1>1, <2>1, <2>2, BeginSteps
  <2>4. JobsOK' BY <1>1, <2>1, <2>3 DEF TypeOK, JobsOK
  <2>5. CrmOK' /\ MapOK' /\ RestOK' BY <1>1, <2>1, Same
  <2>6. TypeInv' BY <2>3, <2>4, <2>5, StepTyped
  <2>7. QED BY <2>1, <2>2, <2>3, <2>6 DEF mapVars
<1>4. QED BY <1>2, <1>3

\* What a step that throws does to the jobs, and what no failure does.
LEMMA FailStep ==
  ASSUME TypeInv, NEW w \in Worker, run[w] \in Execution, Fail(w),
         UNCHANGED <<crm, mapVars>>, RestOK'
  PROVE  /\ TypeInv' /\ run'[w] = Idle
<1>1. TypeOK BY DEF TypeInv
<1>2. Stepped(w) /\ run'[w] = Idle /\ JobsOK' BY <1>1, FailSteps
<1>3. CrmOK' /\ MapOK' BY <1>1, Same DEF mapVars
<1>4. QED BY <1>2, <1>3, StepTyped

\* An execution goes on without a job, a record or a link being changed.
LEMMA QuietStep ==
  ASSUME TypeInv, NEW w \in Worker, Stepped(w),
         UNCHANGED <<crm, mapVars, jobVars, byUs, created, boundVars>>
  PROVE  TypeInv'
<1>1. TypeOK BY DEF TypeInv
<1>2. CrmOK' /\ MapOK' /\ JobsOK' /\ RestOK' BY <1>1, Same DEF mapVars, jobVars
<1>3. QED BY <1>2, StepTyped

-----------------------------------------------------------------------------
(* What each call of an execution does *)

LEMMA ReadStep ==
  ASSUME TypeInv, NEW w \in Worker, Read(w)
  PROVE  /\ TypeInv' /\ run[w] \in Execution
         /\ UNCHANGED <<crm, side, keyLink, created>>
         /\ \/ /\ UNCHANGED jobVars /\ run'[w] \in Execution
               /\ run'[w].at = "find" /\ run'[w].source = run[w].source
               /\ run'[w].content = crm[From(w)][Source(w)[2]]
               /\ Live(From(w), Source(w)[2])
               /\ run'[w].echo => Source(w) \in byUs
            \/ Fail(w)
<1>1. TypeOK /\ run \in [Worker -> Execution \cup {Idle}] BY DEF TypeInv, TypeOK
<1>2. run[w] \in Execution BY <1>1, Executing DEF Read, At
<1>3. From(w) \in System /\ Source(w)[2] \in NativeId BY <1>2, SourceType
<1>4. UNCHANGED <<crm, side, keyLink, created>> BY DEF Read, mapVars
<1>5. CASE Live(From(w), Source(w)[2])
  <2>1. PICK c \in Content : c = crm[From(w)][Source(w)[2]]
    BY <1>1, <1>3, <1>5 DEF TypeOK, Live
  <2>2. PICK b \in BOOLEAN : b = (Source(w) \in byUs)
    <3>1. (Source(w) \in byUs) \in BOOLEAN OBVIOUS
    <3>2. QED BY <3>1
  <2>3. Goto(w, "find", [content |-> c, echo |-> b]) /\ UNCHANGED jobVars
    BY <1>5, <2>1, <2>2 DEF Read
  <2>4. "find" \in Stage BY DEF Stage
  <2>5. /\ Moves(w) /\ run'[w] \in Execution /\ run'[w].at = "find"
        /\ run'[w].source = run[w].source /\ run'[w].content = c
        /\ run'[w].echo = b
    BY <1>1, <1>2, <2>3, <2>4, GoesOnRead
  <2>6. Sound(run'[w])
    BY <2>5 DEF Sound, Holding, Linking, Targeted
  <2>7. TypeInv' BY <2>3, <2>5, <2>6, QuietStep DEF Read, Stepped
  <2>8. QED BY <1>2, <1>4, <1>5, <2>1, <2>2, <2>3, <2>5, <2>7
<1>6. CASE ~Live(From(w), Source(w)[2])
  <2>1. Fail(w) BY <1>6 DEF Read
  <2>2. RestOK' BY <1>1, Same DEF Read
  <2>3. TypeInv' BY <1>2, <2>1, <2>2, FailStep DEF Read
  <2>4. QED BY <1>2, <1>4, <2>1, <2>3
<1>7. QED BY <1>5, <1>6

\* The outcome of UseLink(w, k).
Uses(w, k) ==
  \/ IsEcho(w, k) /\ run'[w] = Idle
  \/ /\ ~IsEcho(w, k) /\ run'[w] \in Execution
     /\ run'[w].at = IF k.ids[To(w)] = None THEN "write" ELSE "counterpart"
     /\ run'[w].source = run[w].source /\ run'[w].content = run[w].content
     /\ run'[w].link = k /\ run'[w].winner = run[w].content
     /\ run'[w].echo = run[w].echo

\* A link loaded for its record has the record's id.
LEMMA LinkOfLoad ==
  ASSUME TypeOK, NEW s \in System, NEW i \in NativeId, NEW l \in LinkOf(s, i)
  PROVE  /\ l \in Link /\ side[l][s] # None /\ side[l][s].id = i
         /\ Load(l) \in LinkRecord /\ Load(l).ids[s] = i
BY LoadType DEF LinkOf, Load

LEMMA FindBySourceStep ==
  ASSUME TypeInv, NEW w \in Worker, FindBySource(w)
  PROVE  /\ TypeInv' /\ run[w] \in Execution
         /\ UNCHANGED <<crm, side, keyLink, created, jobVars>>
         /\ \/ \E l \in LinkOf(From(w), Source(w)[2]) : Uses(w, Load(l))
            \/ /\ LinkOf(From(w), Source(w)[2]) = {}
               /\ run'[w] \in Execution
               /\ run'[w].at = "bykey" /\ run'[w].source = run[w].source
               /\ run'[w].content = run[w].content /\ run'[w].echo = run[w].echo
            \/ /\ LinkOf(From(w), Source(w)[2]) = {}
               /\ Unused # {} /\ ~HasKey(run[w].content)
               /\ Uses(w, NewLink(From(w), Source(w)[2], None, run[w].content))
<1>1. TypeOK /\ run \in [Worker -> Execution \cup {Idle}] BY DEF TypeInv, TypeOK
<1>2. run[w] \in Execution /\ run[w].at = "find"
  BY <1>1, Executing DEF FindBySource, At
<1>3. From(w) \in System /\ Source(w)[2] \in NativeId BY <1>2, SourceType
<1>4. UNCHANGED <<crm, side, keyLink, created>>
  BY DEF FindBySource, mapVars
<1>5. run[w].content \in Content BY <1>2 DEF TypeInv, Progress, Sound, Holding
<1>6. ASSUME NEW l \in LinkOf(From(w), Source(w)[2]), UseLink(w, Load(l))
      PROVE  Stepped(w) /\ UNCHANGED jobVars /\ Uses(w, Load(l))
  <2>1. PICK k \in LinkRecord : k = Load(l) /\ k.ids[From(w)] = Source(w)[2]
    BY <1>1, <1>3, LinkOfLoad
  <2>2. UseLink(w, k) BY <1>6, <2>1
  <2>3. Stepped(w) /\ UNCHANGED jobVars /\ Uses(w, k)
    BY <1>2, <2>1, <2>2, UseLinkSteps DEF Uses
  <2>4. QED BY <2>1, <2>3
<1>7. CASE /\ LinkOf(From(w), Source(w)[2]) = {} /\ HasKey(run[w].content)
           /\ Goto(w, "bykey", <<>>) /\ UNCHANGED jobVars
  <2>1. "bykey" \in Stage BY DEF Stage
  <2>2. /\ Moves(w) /\ run'[w] \in Execution
        /\ run'[w].at = "bykey" /\ run'[w].source = run[w].source
        /\ run'[w].content = run[w].content /\ run'[w].echo = run[w].echo
    BY <1>1, <1>2, <1>7, <2>1, GoesOnPlain
  <2>3. Sound(run'[w])
    BY <1>5, <1>7, <2>2 DEF Sound, Holding, Linking, Targeted
  <2>4. TypeInv' BY <1>7, <2>2, <2>3, QuietStep DEF FindBySource, Stepped
  <2>5. QED BY <1>2, <1>4, <1>7, <2>2, <2>4
<1>8. CASE /\ LinkOf(From(w), Source(w)[2]) = {} /\ ~HasKey(run[w].content)
           /\ Unused # {}
           /\ UseLink(w, NewLink(From(w), Source(w)[2], None, run[w].content))
  <2>1. PICK k \in LinkRecord :
          /\ k = NewLink(From(w), Source(w)[2], None, run[w].content)
          /\ k.ids[From(w)] = Source(w)[2]
    BY <1>3, <1>5, <1>8, NewLinkType
  <2>2. Stepped(w) /\ UNCHANGED jobVars /\ Uses(w, k)
    BY <1>2, <1>8, <2>1, UseLinkSteps DEF Uses
  <2>3. TypeInv' BY <2>2, QuietStep DEF FindBySource
  <2>4. QED BY <1>2, <1>4, <1>8, <2>1, <2>2, <2>3
<1>9. CASE \E l \in LinkOf(From(w), Source(w)[2]) : UseLink(w, Load(l))
  <2>1. PICK l \in LinkOf(From(w), Source(w)[2]) : UseLink(w, Load(l)) BY <1>9
  <2>2. Stepped(w) /\ UNCHANGED jobVars /\ Uses(w, Load(l)) BY <1>6, <2>1
  <2>3. TypeInv' BY <2>2, QuietStep DEF FindBySource
  <2>4. QED BY <1>2, <1>4, <2>2, <2>3
<1>10. QED BY <1>7, <1>8, <1>9 DEF FindBySource

LEMMA FindByKeyStep ==
  ASSUME TypeInv, NEW w \in Worker, FindByKey(w)
  PROVE  /\ TypeInv' /\ run[w] \in Execution /\ run[w].at = "bykey"
         /\ UNCHANGED <<crm, side, keyLink, created, jobVars>>
         /\ \/ \E k \in LinkRecord :
                 /\ keyLink[KeyOf(run[w].content)] = k.id
                 /\ k.ids[From(w)] = Source(w)[2]
                 /\ k.ids[To(w)] = Load(k.id).ids[To(w)]
                 /\ k.keys = Load(k.id).keys \cup {KeyOf(run[w].content)}
                 /\ Uses(w, k)
            \/ /\ keyLink[KeyOf(run[w].content)] = None
               /\ run'[w] \in Execution /\ run'[w].at = "search"
               /\ run'[w].source = run[w].source
               /\ run'[w].content = run[w].content /\ run'[w].echo = run[w].echo
<1>1. TypeOK /\ run \in [Worker -> Execution \cup {Idle}] BY DEF TypeInv, TypeOK
<1>2. run[w] \in Execution /\ run[w].at = "bykey"
  BY <1>1, Executing DEF FindByKey, At
<1>3. /\ From(w) \in System /\ Source(w)[2] \in NativeId /\ To(w) \in System
      /\ To(w) # From(w)
  BY <1>2, SourceType
<1>4. UNCHANGED <<crm, side, keyLink, created>> BY DEF FindByKey, mapVars
<1>5. run[w].content \in Content /\ HasKey(run[w].content)
  BY <1>2 DEF TypeInv, Progress, Sound, Holding
<1>6. KeyOf(run[w].content) \in Key BY <1>5, KeyType
<1>7. CASE /\ keyLink[KeyOf(run[w].content)] = None
           /\ Goto(w, "search", <<>>) /\ UNCHANGED jobVars
  <2>1. "search" \in Stage BY DEF Stage
  <2>2. /\ Moves(w) /\ run'[w] \in Execution
        /\ run'[w].at = "search" /\ run'[w].source = run[w].source
        /\ run'[w].content = run[w].content /\ run'[w].echo = run[w].echo
    BY <1>1, <1>2, <1>7, <2>1, GoesOnPlain
  <2>3. Sound(run'[w])
    BY <1>5, <2>2 DEF Sound, Holding, Linking, Targeted
  <2>4. TypeInv' BY <1>7, <2>2, <2>3, QuietStep DEF FindByKey, Stepped
  <2>5. QED BY <1>2, <1>4, <1>7, <2>2, <2>4
<1>8. CASE /\ keyLink[KeyOf(run[w].content)] # None
           /\ UseLink(w, [Load(keyLink[KeyOf(run[w].content)]) EXCEPT
                            !.ids[From(w)] = Source(w)[2],
                            !.keys = @ \cup {KeyOf(run[w].content)}])
  <2>1. PICK l \in Link : l = keyLink[KeyOf(run[w].content)]
    BY <1>1, <1>6, <1>8 DEF TypeOK
  <2>2. Load(l) \in LinkRecord /\ Load(l).id = l BY <1>1, LoadType DEF Load
  <2>3. PICK m \in LinkRecord : m = Load(l) /\ m.id = l BY <2>2
  <2>4. PICK k : k = [m EXCEPT !.ids[From(w)] = Source(w)[2],
                               !.keys = @ \cup {KeyOf(run[w].content)}]
    OBVIOUS
  <2>5. /\ k \in LinkRecord /\ k.id = l /\ k.ids[From(w)] = Source(w)[2]
        /\ k.ids[To(w)] = m.ids[To(w)]
        /\ k.keys = m.keys \cup {KeyOf(run[w].content)}
    BY <1>3, <1>6, <2>3, <2>4 DEF LinkRecord
  <2>6. UseLink(w, k) BY <1>8, <2>1, <2>3, <2>4
  <2>7. Stepped(w) /\ UNCHANGED jobVars /\ Uses(w, k)
    BY <1>2, <2>5, <2>6, UseLinkSteps DEF Uses
  <2>8. TypeInv' BY <2>7, QuietStep DEF FindByKey
  <2>9. QED BY <1>2, <1>4, <2>1, <2>3, <2>5, <2>7, <2>8
<1>9. QED BY <1>7, <1>8 DEF FindByKey

LEMMA SearchStep ==
  ASSUME TypeInv, NEW w \in Worker, Search(w)
  PROVE  /\ TypeInv' /\ run[w] \in Execution /\ run[w].at = "search"
         /\ UNCHANGED <<crm, side, keyLink, created, pending, deletions, dead>>
         /\ \/ run'[w] = Idle /\ review' = review \cup {Source(w)}
            \/ /\ review' = review /\ Unused # {}
               /\ \E t \in NativeId \cup {None} :
                    /\ t = None => Candidates(To(w), run[w].content) = {}
                    /\ t # None => t \in Candidates(To(w), run[w].content)
                    /\ Uses(w, NewLink(From(w), Source(w)[2], t, run[w].content))
<1>1. TypeOK /\ run \in [Worker -> Execution \cup {Idle}] BY DEF TypeInv, TypeOK
<1>2. run[w] \in Execution /\ run[w].at = "search"
  BY <1>1, Executing DEF Search, At
<1>3. /\ From(w) \in System /\ Source(w)[2] \in NativeId /\ Source(w) \in Record
  BY <1>2, SourceType
<1>4. UNCHANGED <<crm, side, keyLink, created>> BY DEF Search, mapVars
<1>5. run[w].content \in Content BY <1>2 DEF TypeInv, Progress, Sound, Holding
<1>6. CASE /\ run' = [run EXCEPT ![w] = Idle]
           /\ review' = review \cup {Source(w)}
           /\ UNCHANGED <<pending, deletions, tries, dead>>
  <2>1. Stepped(w) /\ run'[w] = Idle BY <1>1, <1>6, EndSteps
  <2>2. JobsOK' BY <1>1, <1>3, <1>6 DEF TypeOK, JobsOK
  <2>3. CrmOK' /\ MapOK' /\ RestOK' BY <1>1, Same DEF Search
  <2>4. TypeInv' BY <2>1, <2>2, <2>3, StepTyped
  <2>5. QED BY <1>2, <1>4, <1>6, <2>1, <2>4
<1>7. ASSUME NEW t \in IF Candidates(To(w), run[w].content) = {} THEN {None}
                       ELSE Candidates(To(w), run[w].content),
             Unused # {},
             UseLink(w, NewLink(From(w), Source(w)[2], t, run[w].content))
      PROVE  /\ TypeInv' /\ UNCHANGED jobVars
             /\ t \in NativeId \cup {None}
             /\ t = None => Candidates(To(w), run[w].content) = {}
             /\ t # None => t \in Candidates(To(w), run[w].content)
             /\ Uses(w, NewLink(From(w), Source(w)[2], t, run[w].content))
  <2>1. /\ t \in NativeId \cup {None}
        /\ t = None => Candidates(To(w), run[w].content) = {}
        /\ t # None => t \in Candidates(To(w), run[w].content)
    BY <1>7, MarkersDiffer DEF Candidates
  <2>2. PICK k \in LinkRecord :
          /\ k = NewLink(From(w), Source(w)[2], t, run[w].content)
          /\ k.ids[From(w)] = Source(w)[2]
    BY <1>3, <1>5, <1>7, <2>1, NewLinkType
  <2>3. Stepped(w) /\ UNCHANGED jobVars /\ Uses(w, k)
    BY <1>2, <1>7, <2>2, UseLinkSteps DEF Uses
  <2>4. TypeInv' BY <2>3, QuietStep DEF Search
  <2>5. QED BY <2>1, <2>2, <2>3, <2>4
<1>8. CASE /\ Unused # {}
           /\ \E t \in IF Candidates(To(w), run[w].content) = {} THEN {None}
                       ELSE Candidates(To(w), run[w].content) :
                UseLink(w, NewLink(From(w), Source(w)[2], t, run[w].content))
  <2>1. PICK t \in IF Candidates(To(w), run[w].content) = {} THEN {None}
                   ELSE Candidates(To(w), run[w].content) :
          UseLink(w, NewLink(From(w), Source(w)[2], t, run[w].content))
    BY <1>8
  <2>2. /\ TypeInv' /\ UNCHANGED jobVars
        /\ t \in NativeId \cup {None}
        /\ t = None => Candidates(To(w), run[w].content) = {}
        /\ t # None => t \in Candidates(To(w), run[w].content)
        /\ Uses(w, NewLink(From(w), Source(w)[2], t, run[w].content))
    BY <1>7, <1>8, <2>1
  <2>3. QED BY <1>2, <1>4, <1>8, <2>2 DEF jobVars
<1>9. QED BY <1>6, <1>8 DEF Search

LEMMA WinnersType ==
  ASSUME NEW w, NEW p \in Content, NEW q \in Content
  PROVE  Winners(w, p, q) \subseteq Content
BY ConstantsAssumption, MergeType DEF Winners

LEMMA CounterpartStep ==
  ASSUME TypeInv, NEW w \in Worker, ReadCounterpart(w)
  PROVE  /\ TypeInv' /\ run[w] \in Execution /\ run[w].at = "counterpart"
         /\ UNCHANGED <<crm, side, keyLink, created, jobVars>>
         /\ run'[w] \in Execution /\ run'[w].at \in {"conflict", "write"}
         /\ run'[w].source = run[w].source /\ run'[w].content = run[w].content
         /\ run'[w].link = run[w].link /\ run'[w].echo = run[w].echo
         /\ \/ run'[w].winner = run[w].winner
            \/ \E t \in NativeId :
                 /\ t = run[w].link.ids[To(w)] /\ Live(To(w), t)
                 /\ run'[w].winner \in Winners(w, run[w].content, crm[To(w)][t])
<1>1. TypeOK /\ run \in [Worker -> Execution \cup {Idle}] BY DEF TypeInv, TypeOK
<1>2. run[w] \in Execution /\ run[w].at = "counterpart"
  BY <1>1, Executing DEF ReadCounterpart, At
<1>3. Sound(run[w]) BY <1>2 DEF TypeInv, Progress
<1>4. UNCHANGED <<crm, side, keyLink, created, jobVars>>
  BY DEF ReadCounterpart, mapVars
<1>5. "conflict" \in Stage /\ "write" \in Stage BY DEF Stage
<1> DEFINE t == run[w].link.ids[To(w)]
           theirs == crm[To(w)][t]
<1>6. t \in NativeId /\ To(w) \in System
  BY <1>2, <1>3, SourceType DEF Sound, Targeted
<1>7. CASE /\ Live(To(w), t)
           /\ \E c \in Winners(w, run[w].content, theirs) :
                Goto(w, "conflict", [winner |-> c])
  <2>1. theirs \in Content BY <1>1, <1>6, <1>7 DEF TypeOK, Live
  <2>2. run[w].content \in Content BY <1>2, <1>3 DEF Sound, Holding
  <2>3. Winners(w, run[w].content, theirs) \subseteq Content
    BY <2>1, <2>2, WinnersType
  <2>4. PICK c \in Content : /\ c \in Winners(w, run[w].content, theirs)
                              /\ Goto(w, "conflict", [winner |-> c])
    BY <1>7, <2>3
  <2>5. /\ Moves(w) /\ run'[w] \in Execution /\ run'[w].at = "conflict"
        /\ run'[w].source = run[w].source /\ run'[w].content = run[w].content
        /\ run'[w].link = run[w].link /\ run'[w].winner = c
        /\ run'[w].echo = run[w].echo
    BY <1>1, <1>2, <1>5, <2>4, GoesOnWinner
  <2>6. Sound(run'[w])
    BY <1>2, <1>3, <2>5 DEF Sound, Holding, Linking, Targeted
  <2>7. TypeInv' BY <2>5, <2>6, QuietStep DEF ReadCounterpart, Stepped
  <2>8. QED BY <1>2, <1>4, <1>6, <1>7, <2>4, <2>5, <2>7
<1>8. CASE Goto(w, "write", <<>>)
  <2>1. /\ Moves(w) /\ run'[w] \in Execution /\ run'[w].at = "write"
        /\ run'[w].source = run[w].source /\ run'[w].content = run[w].content
        /\ run'[w].link = run[w].link /\ run'[w].winner = run[w].winner
        /\ run'[w].echo = run[w].echo
    BY <1>1, <1>2, <1>5, <1>8, GoesOnPlain
  <2>2. Sound(run'[w])
    BY <1>2, <1>3, <2>1 DEF Sound, Holding, Linking, Targeted
  <2>3. TypeInv' BY <2>1, <2>2, QuietStep DEF ReadCounterpart, Stepped
  <2>4. QED BY <1>2, <1>4, <2>1, <2>3
<1>9. QED BY <1>7, <1>8 DEF ReadCounterpart

LEMMA ConflictStep ==
  ASSUME TypeInv, NEW w \in Worker, RecordConflict(w)
  PROVE  /\ TypeInv' /\ run[w] \in Execution /\ run[w].at = "conflict"
         /\ UNCHANGED <<crm, side, keyLink, created>>
         /\ \/ /\ UNCHANGED jobVars
               /\ run'[w] \in Execution /\ run'[w].at = "write"
               /\ run'[w].source = run[w].source
               /\ run'[w].content = run[w].content
               /\ run'[w].link = run[w].link /\ run'[w].echo = run[w].echo
               /\ run'[w].winner = run[w].winner
            \/ Fail(w)
<1>1. TypeOK /\ run \in [Worker -> Execution \cup {Idle}] BY DEF TypeInv, TypeOK
<1>2. run[w] \in Execution /\ run[w].at = "conflict"
  BY <1>1, Executing DEF RecordConflict, At
<1>3. Sound(run[w]) BY <1>2 DEF TypeInv, Progress
<1>4. UNCHANGED <<crm, side, keyLink, created>> BY DEF RecordConflict, mapVars
<1>5. "write" \in Stage BY DEF Stage
<1>6. CASE Goto(w, "write", <<>>) /\ UNCHANGED jobVars
  <2>1. /\ Moves(w) /\ run'[w] \in Execution /\ run'[w].at = "write"
        /\ run'[w].source = run[w].source /\ run'[w].content = run[w].content
        /\ run'[w].link = run[w].link /\ run'[w].winner = run[w].winner
        /\ run'[w].echo = run[w].echo
    BY <1>1, <1>2, <1>5, <1>6, GoesOnPlain
  <2>2. Sound(run'[w])
    BY <1>2, <1>3, <2>1 DEF Sound, Holding, Linking, Targeted
  <2>3. TypeInv' BY <1>6, <2>1, <2>2, QuietStep DEF RecordConflict, Stepped
  <2>4. QED BY <1>2, <1>4, <1>6, <2>1, <2>3
<1>7. CASE Fail(w)
  <2>1. RestOK' BY <1>1, Same DEF RecordConflict
  <2>2. TypeInv' BY <1>2, <1>7, <2>1, FailStep DEF RecordConflict
  <2>3. QED BY <1>2, <1>4, <1>7, <2>2
<1>8. QED BY <1>6, <1>7 DEF RecordConflict

\* What a write to record e by worker w does.
Wrote(w, e) ==
  /\ pending' = pending \cup {e} /\ dead' = dead \ {e} /\ review' = review \ {e}
  /\ \A x \in System, j \in NativeId : <<x, j>> # e => crm'[x][j] = crm[x][j]
  /\ crm'[e[1]][e[2]] \in Content
  /\ deletions' = deletions /\ side' = side /\ keyLink' = keyLink
  /\ run'[w] \in Execution /\ run'[w].source = run[w].source
  /\ run'[w].content = run[w].content /\ run'[w].winner = run[w].winner
  /\ run'[w].echo = run[w].echo
  /\ run'[w].link.id = run[w].link.id /\ run'[w].link.keys = run[w].link.keys
  /\ byUs' = byUs \cup {e}

\* An execution that writes to the target goes on to write back or to save.
WroteTarget(w, t) ==
  /\ Wrote(w, <<To(w), t>>)
  /\ run'[w].link.ids[To(w)] = t
  /\ run'[w].at \in {"writeback", "save"}
  /\ run'[w].at = "save" => run[w].winner = run[w].content

\* connectors[to].upsert(): an update, a creation, a repeated write, a failure
LEMMA UpdateStep ==
  ASSUME TypeInv, NEW w \in Worker, NEW stage \in {"write", "rewrite"},
         Update(w, stage)
  PROVE  /\ TypeInv' /\ run[w] \in Execution /\ run[w].at = stage
         /\ created' = created
         /\ \E t \in NativeId :
              /\ Live(To(w), t) /\ t = run[w].link.ids[To(w)]
              /\ KeyOwners(To(w), t, run[w].winner) = {}
              /\ crm'[To(w)][t] = Written(To(w), crm[To(w)][t], run[w].winner)
              /\ WroteTarget(w, t)
<1>1. TypeOK /\ run \in [Worker -> Execution \cup {Idle}] BY DEF TypeInv, TypeOK
<1>2. run[w] \in Execution /\ run[w].at = stage
  BY <1>1, Executing DEF Update, At
<1>3. Sound(run[w]) BY <1>2 DEF TypeInv, Progress
<1>4. To(w) \in System BY <1>2, SourceType
<1>5. PICK t \in NativeId :
        /\ t = run[w].link.ids[To(w)] /\ Live(To(w), t)
        /\ KeyOwners(To(w), t, run[w].winner) = {}
        /\ WriteRecord(To(w), t, run[w].winner) /\ AfterWrite(w, t)
  <2>1. run[w].link.ids[To(w)] \in NativeId \cup {None}
    BY <1>2, <1>3, <1>4 DEF Sound, Linking, LinkRecord
  <2>2. QED BY <2>1 DEF Update
<1>6. run[w].winner \in Content BY <1>2, <1>3 DEF Sound, Linking
<1>7. /\ CrmOK' /\ JobsOK' /\ byUs' \subseteq Record
      /\ crm'[To(w)][t] \in Content
      /\ crm'[To(w)][t] = Written(To(w), crm[To(w)][t], run[w].winner)
      /\ \A x \in System, j \in NativeId : <<x, j>> # <<To(w), t>> => crm'[x][j] = crm[x][j]
      /\ pending' = pending \cup {<<To(w), t>>} /\ dead' = dead \ {<<To(w), t>>}
      /\ review' = review \ {<<To(w), t>>}
  BY <1>1, <1>4, <1>5, <1>6, WriteTypes DEF Live
<1>8. /\ Stepped(w) /\ run'[w] \in Execution
      /\ run'[w].source = run[w].source
      /\ run'[w].content = run[w].content
      /\ run'[w].winner = run[w].winner /\ run'[w].echo = run[w].echo
      /\ run'[w].link.id = run[w].link.id /\ run'[w].link.keys = run[w].link.keys
      /\ run'[w].link.ids[To(w)] = t
      /\ run'[w].at \in {"writeback", "save"}
      /\ run'[w].at = "save" => run[w].winner = run[w].content
  BY <1>2, <1>5, AfterWriteSteps
<1>9. /\ UNCHANGED <<side, keyLink, deletions, created, boundVars>>
      /\ byUs' = byUs \cup {<<To(w), t>>}
  BY <1>5 DEF Update, WriteRecord, mapVars
<1>10. MapOK' BY <1>1, <1>9, Same DEF mapVars
<1>11. RestOK' BY <1>1, <1>7, <1>9 DEF TypeOK, RestOK, boundVars
<1>12. TypeInv' BY <1>7, <1>8, <1>10, <1>11, StepTyped
<1>13. QED BY <1>2, <1>5, <1>7, <1>8, <1>9, <1>12 DEF WroteTarget, Wrote

LEMMA CreateStep ==
  ASSUME TypeInv, NEW w \in Worker, Create(w)
  PROVE  /\ TypeInv' /\ run[w] \in Execution /\ run[w].at = "write"
         /\ run[w].link.ids[To(w)] = None
         /\ \E t \in NativeId :
              /\ crm[To(w)][t] = Absent /\ WroteTarget(w, t)
              /\ KeyOwners(To(w), t, run[w].winner) = {}
              /\ crm'[To(w)][t] = Written(To(w), Absent, run[w].winner)
              /\ crm'[To(w)][t] \in Content
              /\ created' = created \cup {<<To(w), t>>}
<1>1. TypeOK /\ run \in [Worker -> Execution \cup {Idle}] BY DEF TypeInv, TypeOK
<1>2. run[w] \in Execution /\ run[w].at = "write"
  BY <1>1, Executing DEF Create, At
<1>3. Sound(run[w]) BY <1>2 DEF TypeInv, Progress
<1>4. To(w) \in System BY <1>2, SourceType
<1>5. PICK t \in NativeId :
        /\ crm[To(w)][t] = Absent /\ created' = created \cup {<<To(w), t>>}
        /\ KeyOwners(To(w), t, run[w].winner) = {}
        /\ WriteRecord(To(w), t, run[w].winner) /\ AfterWrite(w, t)
  BY DEF Create
<1>6. run[w].winner \in Content BY <1>2, <1>3 DEF Sound, Linking
<1>7. /\ CrmOK' /\ JobsOK' /\ byUs' \subseteq Record
      /\ crm'[To(w)][t] \in Content
      /\ crm'[To(w)][t] = Written(To(w), crm[To(w)][t], run[w].winner)
      /\ \A x \in System, j \in NativeId : <<x, j>> # <<To(w), t>> => crm'[x][j] = crm[x][j]
      /\ pending' = pending \cup {<<To(w), t>>} /\ dead' = dead \ {<<To(w), t>>}
      /\ review' = review \ {<<To(w), t>>}
  BY <1>1, <1>4, <1>5, <1>6, MarkersDiffer, WriteTypes
<1>8. /\ Stepped(w) /\ run'[w] \in Execution
      /\ run'[w].source = run[w].source
      /\ run'[w].content = run[w].content
      /\ run'[w].winner = run[w].winner /\ run'[w].echo = run[w].echo
      /\ run'[w].link.id = run[w].link.id /\ run'[w].link.keys = run[w].link.keys
      /\ run'[w].link.ids[To(w)] = t
      /\ run'[w].at \in {"writeback", "save"}
      /\ run'[w].at = "save" => run[w].winner = run[w].content
  BY <1>2, <1>5, AfterWriteSteps
<1>9. /\ UNCHANGED <<side, keyLink, deletions, boundVars>>
      /\ byUs' = byUs \cup {<<To(w), t>>}
  BY <1>5 DEF Create, WriteRecord, mapVars
<1>10. MapOK' BY <1>1, <1>9, Same DEF mapVars
<1>11. <<To(w), t>> \in Record BY <1>4 DEF Record
<1>12. RestOK' BY <1>1, <1>5, <1>7, <1>9, <1>11 DEF TypeOK, RestOK, boundVars
<1>13. TypeInv' BY <1>7, <1>8, <1>10, <1>12, StepTyped
<1>14. run[w].link.ids[To(w)] = None BY DEF Create
<1>15. WroteTarget(w, t) BY <1>7, <1>8, <1>9 DEF WroteTarget, Wrote
<1>16. QED BY <1>2, <1>5, <1>7, <1>13, <1>14, <1>15

LEMMA HealStep ==
  ASSUME TypeInv, NEW w \in Worker, Heal(w)
  PROVE  /\ TypeInv' /\ run[w] \in Execution /\ run[w].at = "write"
         /\ UNCHANGED <<crm, side, keyLink, created, jobVars>>
         /\ run'[w] \in Execution /\ run'[w].at = "rewrite"
         /\ run'[w].source = run[w].source /\ run'[w].content = run[w].content
         /\ run'[w].winner = run[w].winner /\ run'[w].echo = run[w].echo
         /\ run'[w].link.id = run[w].link.id /\ run'[w].link.keys = run[w].link.keys
         /\ \E i, o \in NativeId :
              /\ run'[w].link.ids[To(w)] = o
              /\ run[w].link.ids[To(w)] \in {None, i}
              /\ run[w].link.ids[To(w)] # None => Live(To(w), i)
              /\ o \in KeyOwners(To(w), i, run[w].winner)
<1>1. TypeOK /\ run \in [Worker -> Execution \cup {Idle}] BY DEF TypeInv, TypeOK
<1>2. run[w] \in Execution /\ run[w].at = "write"
  BY <1>1, Executing DEF Heal, At
<1>3. Sound(run[w]) BY <1>2 DEF TypeInv, Progress
<1>4. To(w) \in System /\ From(w) # To(w) BY <1>2, SourceType
<1>5. UNCHANGED <<crm, side, keyLink, created, jobVars>> BY DEF Heal, mapVars
<1>6. PICK i, o \in NativeId :
        /\ Goto(w, "rewrite", [link |-> [run[w].link EXCEPT !.ids[To(w)] = o]])
        /\ run[w].link.ids[To(w)] \in {None, i}
        /\ run[w].link.ids[To(w)] # None => Live(To(w), i)
        /\ o \in KeyOwners(To(w), i, run[w].winner)
  <2>1. \A i : KeyOwners(To(w), i, run[w].winner) \subseteq NativeId
    BY DEF KeyOwners, Candidates
  <2>2. run[w].link.ids[To(w)] \in NativeId \cup {None}
    BY <1>2, <1>3, <1>4 DEF Sound, Linking, LinkRecord
  <2>3. QED BY <2>1, <2>2 DEF Heal
<1>7. PICK k \in LinkRecord :
        /\ k = [run[w].link EXCEPT !.ids[To(w)] = o]
        /\ k.ids[To(w)] = o /\ k.ids[From(w)] = run[w].link.ids[From(w)]
        /\ k.id = run[w].link.id /\ k.keys = run[w].link.keys
  <2>1. PICK m \in LinkRecord : m = run[w].link
    BY <1>2, <1>3 DEF Sound, Linking
  <2>2. PICK k : k = [m EXCEPT !.ids[To(w)] = o] OBVIOUS
  <2>3. /\ k \in LinkRecord /\ k.ids[To(w)] = o
        /\ k.ids[From(w)] = m.ids[From(w)] /\ k.id = m.id /\ k.keys = m.keys
    BY <1>2, <1>4, <2>2, SourceType DEF LinkRecord
  <2>4. QED BY <2>1, <2>2, <2>3
<1>8. "rewrite" \in Stage BY DEF Stage
<1>9. /\ Moves(w) /\ run'[w] \in Execution
      /\ run'[w].at = "rewrite" /\ run'[w].source = run[w].source
      /\ run'[w].content = run[w].content /\ run'[w].link = k
      /\ run'[w].winner = run[w].winner /\ run'[w].echo = run[w].echo
  BY <1>1, <1>2, <1>6, <1>7, <1>8, GoesOnLink
<1>10. Sound(run'[w])
  BY <1>2, <1>3, <1>7, <1>9, SourceType DEF Sound, Holding, Linking, Targeted
<1>11. TypeInv' BY <1>9, <1>10, QuietStep DEF Heal, Stepped
<1>12. QED BY <1>2, <1>5, <1>6, <1>7, <1>9, <1>11

LEMMA WriteFailsStep ==
  ASSUME TypeInv, NEW w \in Worker, WriteFails(w)
  PROVE  /\ TypeInv' /\ run[w] \in Execution /\ run[w].at \in {"write", "rewrite"}
         /\ UNCHANGED <<crm, side, keyLink, created>> /\ Fail(w)
<1>1. TypeOK BY DEF TypeInv
<1>2. run[w] \in Execution /\ run[w].at \in {"write", "rewrite"}
  BY <1>1, Executing DEF WriteFails, At
<1>3. Fail(w) /\ UNCHANGED <<crm, side, keyLink, byUs, created, boundVars>>
  BY DEF WriteFails, mapVars
<1>4. RestOK' BY <1>1, <1>3, Same
<1>5. TypeInv' BY <1>2, <1>3, <1>4, FailStep DEF mapVars
<1>6. QED BY <1>2, <1>3, <1>5

LEMMA WriteBackStep ==
  ASSUME TypeInv, NEW w \in Worker, WriteBack(w)
  PROVE  /\ TypeInv' /\ run[w] \in Execution /\ run[w].at = "writeback"
         /\ UNCHANGED <<side, keyLink, created>>
         /\ \/ /\ Wrote(w, Source(w)) /\ run'[w].at = "save"
               /\ Live(From(w), Source(w)[2])
               /\ run'[w].link.ids = run[w].link.ids
               /\ crm'[From(w)][Source(w)[2]]
                    = Written(From(w), crm[From(w)][Source(w)[2]], run[w].winner)
               /\ KeyOwners(From(w), Source(w)[2], run[w].winner) = {}
            \/ /\ Fail(w) /\ UNCHANGED crm
               /\ ~(/\ Live(From(w), Source(w)[2])
                    /\ KeyOwners(From(w), Source(w)[2], run[w].winner) = {})
<1>1. TypeOK /\ run \in [Worker -> Execution \cup {Idle}] BY DEF TypeInv, TypeOK
<1>2. run[w] \in Execution /\ run[w].at = "writeback"
  BY <1>1, Executing DEF WriteBack, At
<1>3. Sound(run[w]) BY <1>2 DEF TypeInv, Progress
<1>4. /\ From(w) \in System /\ Source(w)[2] \in NativeId
      /\ Source(w) = <<From(w), Source(w)[2]>> /\ Source(w) \in Record
  BY <1>2, SourceType
<1>5. UNCHANGED <<side, keyLink, created, boundVars>> BY DEF WriteBack, mapVars
<1>6. MapOK' BY <1>1, <1>5, Same DEF mapVars
<1>7. CASE /\ Live(From(w), Source(w)[2])
           /\ KeyOwners(From(w), Source(w)[2], run[w].winner) = {}
           /\ WriteRecord(From(w), Source(w)[2], run[w].winner)
           /\ Goto(w, "save", [link |-> [run[w].link EXCEPT
                                          !.hashes[From(w)] = run[w].winner]])
  <2>1. run[w].winner \in Content /\ run[w].link \in LinkRecord
    BY <1>2, <1>3 DEF Sound, Linking
  <2>2. /\ CrmOK' /\ JobsOK' /\ byUs' \subseteq Record
        /\ crm'[From(w)][Source(w)[2]] \in Content
        /\ crm'[From(w)][Source(w)[2]]
             = Written(From(w), crm[From(w)][Source(w)[2]], run[w].winner)
        /\ \A x \in System, j \in NativeId : <<x, j>> # Source(w) => crm'[x][j] = crm[x][j]
        /\ pending' = pending \cup {Source(w)} /\ dead' = dead \ {Source(w)}
        /\ review' = review \ {Source(w)}
    BY <1>1, <1>4, <1>7, <2>1, WriteTypes DEF Live
  <2>3. PICK k \in LinkRecord :
          /\ k = [run[w].link EXCEPT !.hashes[From(w)] = run[w].winner]
          /\ k.id = run[w].link.id /\ k.keys = run[w].link.keys
          /\ k.ids = run[w].link.ids /\ k.hashes[From(w)] = run[w].winner
          /\ k.hashes[To(w)] = run[w].link.hashes[To(w)]
    <3>1. [run[w].link EXCEPT !.hashes[From(w)] = run[w].winner] \in LinkRecord
      BY <1>4, <2>1 DEF LinkRecord
    <3>2. QED BY <3>1, <1>2, <1>4, <2>1, SourceType DEF LinkRecord
  <2>4. "save" \in Stage BY DEF Stage
  <2>5. /\ Moves(w) /\ run'[w] \in Execution
        /\ run'[w].at = "save" /\ run'[w].source = run[w].source
        /\ run'[w].content = run[w].content /\ run'[w].link = k
        /\ run'[w].winner = run[w].winner /\ run'[w].echo = run[w].echo
    BY <1>1, <1>2, <1>7, <2>3, <2>4, GoesOnLink
  <2>6. Sound(run'[w])
    BY <1>2, <1>3, <2>3, <2>5, SourceType DEF Sound, Holding, Linking, Targeted
  <2>7. RestOK' BY <1>1, <1>5, <2>2 DEF TypeOK, RestOK, boundVars
  <2>8. TypeInv' BY <1>6, <2>2, <2>5, <2>6, <2>7, StepTyped DEF Stepped
  <2>9. deletions' = deletions /\ byUs' = byUs \cup {Source(w)}
    BY <1>4, <1>7 DEF WriteRecord
  <2>10. Wrote(w, Source(w)) BY <1>4, <1>5, <2>2, <2>3, <2>5, <2>9 DEF Wrote
  <2>11. QED BY <1>2, <1>5, <1>7, <2>2, <2>3, <2>5, <2>8, <2>10
<1>8. CASE /\ Fail(w) /\ UNCHANGED <<crm, byUs>>
           /\ ~(/\ Live(From(w), Source(w)[2])
                /\ KeyOwners(From(w), Source(w)[2], run[w].winner) = {})
  <2>1. RestOK' BY <1>1, <1>5, <1>8, Same
  <2>2. TypeInv' BY <1>2, <1>5, <1>8, <2>1, FailStep DEF mapVars
  <2>3. QED BY <1>2, <1>5, <1>8, <2>2
<1>9. QED BY <1>7, <1>8 DEF WriteBack

\* Saving a link stores both its sides with the winner as their hash.
LEMMA SaveStep ==
  ASSUME TypeInv, NEW w \in Worker, Save(w)
  PROVE  /\ TypeInv' /\ run[w] \in Execution /\ run[w].at = "save"
         /\ UNCHANGED <<crm, created>>
         /\ \/ /\ Fail(w) /\ UNCHANGED <<side, keyLink>>
               /\ TakenByAnother(run[w].link)
            \/ /\ ~TakenByAnother(run[w].link) /\ UNCHANGED jobVars /\ run'[w] = Idle
               /\ side' = [side EXCEPT ![run[w].link.id] =
                     [s \in System |-> [id |-> run[w].link.ids[s],
                                        hash |-> run[w].winner]]]
               /\ \A k \in Key : keyLink'[k] = IF k \in run[w].link.keys
                                               THEN run[w].link.id ELSE keyLink[k]
               /\ run[w].link.id \in Link
               /\ \A s \in System : run[w].link.ids[s] \in NativeId
<1>1. TypeOK /\ run \in [Worker -> Execution \cup {Idle}] BY DEF TypeInv, TypeOK
<1>2. run[w] \in Execution /\ run[w].at = "save" BY <1>1, Executing DEF Save, At
<1>3. Sound(run[w]) BY <1>2 DEF TypeInv, Progress
<1>4. UNCHANGED <<crm, byUs, created, boundVars>> BY DEF Save
<1>5. RestOK' /\ CrmOK' BY <1>1, <1>4, Same
<1>6. CASE TakenByAnother(run[w].link) /\ Fail(w) /\ UNCHANGED mapVars
  <2>1. TypeInv' BY <1>2, <1>4, <1>5, <1>6, FailStep
  <2>2. QED BY <1>2, <1>4, <1>6, <2>1 DEF mapVars
<1>7. CASE /\ ~TakenByAnother(run[w].link)
           /\ side' = [side EXCEPT ![run[w].link.id] = [s \in System |->
                         IF run[w].link.ids[s] = None THEN @[s]
                         ELSE [id |-> run[w].link.ids[s], hash |-> run[w].link.hashes[s]]]]
           /\ keyLink' = [k \in Key |-> IF k \in run[w].link.keys THEN run[w].link.id
                                                                 ELSE keyLink[k]]
           /\ End(w)
  <2>1. PICK m \in LinkRecord : m = run[w].link
    BY <1>2, <1>3 DEF Sound, Linking
  <2>2. PICK c \in Content : c = run[w].winner BY <1>2, <1>3 DEF Sound, Linking
  <2>3. m.id \in Link /\ m.keys \subseteq Key BY DEF LinkRecord
  <2>4. \A s \in System : m.ids[s] \in NativeId /\ m.ids[s] # None /\ m.hashes[s] = c
    <3>1. /\ m.ids[From(w)] \in NativeId /\ m.ids[To(w)] \in NativeId
          /\ m.hashes[From(w)] = c /\ m.hashes[To(w)] = c
      BY <1>2, <1>3, <2>1, <2>2, SourceType DEF Sound, Linking, Targeted, Source
    <3>2. \A s \in System : s = From(w) \/ s = To(w)
      BY <1>2, SourceType, TwoSystems
    <3>3. QED BY <3>1, <3>2, MarkersDiffer
  <2>5. [s \in System |-> IF m.ids[s] = None THEN side[m.id][s]
                          ELSE [id |-> m.ids[s], hash |-> m.hashes[s]]]
        = [s \in System |-> [id |-> m.ids[s], hash |-> c]]
    BY <2>4
  <2>6. side' = [side EXCEPT ![m.id] = [s \in System |-> [id |-> m.ids[s], hash |-> c]]]
    BY <1>7, <2>1, <2>5
  <2>7. [s \in System |-> [id |-> m.ids[s], hash |-> c]]
          \in [System -> [id : NativeId, hash : Content \cup {None}] \cup {None}]
    BY <2>4
  <2>8. /\ keyLink' \in [Key -> Link \cup {None}]
        /\ \A k \in Key : keyLink'[k] = IF k \in m.keys THEN m.id ELSE keyLink[k]
    BY <1>1, <1>7, <2>1, <2>3 DEF TypeOK
  <2>9. MapOK' BY <1>1, <2>3, <2>6, <2>7, <2>8 DEF TypeOK, MapOK
  <2>10. UNCHANGED jobVars /\ Stepped(w) /\ run'[w] = Idle
    BY <1>1, <1>7, EndSteps DEF End
  <2>11. JobsOK' BY <1>1, <2>10, Same
  <2>12. TypeInv' BY <1>5, <2>9, <2>10, <2>11, StepTyped
  <2>13. QED BY <1>2, <1>4, <1>7, <2>1, <2>2, <2>3, <2>4, <2>6, <2>8, <2>10, <2>12
<1>8. QED BY <1>6, <1>7 DEF Save

\* propagateDelete(): the link is found, the counterpart removed
LEMMA DoomedStep ==
  ASSUME TypeInv, NEW w \in Worker, FindDoomed(w)
  PROVE  /\ TypeInv' /\ run[w] \in Execution /\ run[w].at = "unlink"
         /\ UNCHANGED <<crm, side, keyLink, created, jobVars>>
         /\ \/ run'[w] = Idle
            \/ /\ run'[w] \in Execution /\ run'[w].at = "remove"
               /\ run'[w].source = run[w].source
               /\ \E l \in LinkOf(From(w), Source(w)[2]) :
                    side[l][To(w)] # None /\ run'[w].link = Load(l)
<1>1. TypeOK /\ run \in [Worker -> Execution \cup {Idle}] BY DEF TypeInv, TypeOK
<1>2. run[w] \in Execution /\ run[w].at = "unlink"
  BY <1>1, Executing DEF FindDoomed, At
<1>3. /\ From(w) \in System /\ Source(w)[2] \in NativeId /\ To(w) \in System
      /\ To(w) # From(w)
  BY <1>2, SourceType
<1>4. UNCHANGED <<crm, side, keyLink, created>> BY DEF FindDoomed, mapVars
<1>5. CASE End(w)
  <2>1. UNCHANGED jobVars /\ Stepped(w) /\ run'[w] = Idle
    BY <1>1, <1>5, EndSteps DEF End
  <2>2. TypeInv' BY <2>1, QuietStep DEF FindDoomed
  <2>3. QED BY <1>2, <1>4, <2>1, <2>2
<1>6. ASSUME NEW l \in LinkOf(From(w), Source(w)[2]), side[l][To(w)] # None,
             Goto(w, "remove", [link |-> Load(l)]), UNCHANGED jobVars
      PROVE  /\ TypeInv' /\ run'[w] \in Execution /\ run'[w].at = "remove"
             /\ run'[w].source = run[w].source /\ run'[w].link = Load(l)
  <2>1. PICK k \in LinkRecord : k = Load(l) BY <1>1, <1>3, LinkOfLoad
  <2>2. "remove" \in Stage BY DEF Stage
  <2>3. /\ Moves(w) /\ run'[w] \in Execution /\ run'[w].at = "remove"
        /\ run'[w].source = run[w].source /\ run'[w].link = k
    BY <1>1, <1>2, <1>6, <2>1, <2>2, GoesOnLink
  <2>4. k.ids[To(w)] \in NativeId
    <3>1. l \in Link BY DEF LinkOf
    <3>2. side[l][To(w)] \in [id : NativeId, hash : Content \cup {None}]
      BY <1>1, <1>3, <1>6, <3>1 DEF TypeOK
    <3>3. k.ids[To(w)] = side[l][To(w)].id
      BY <1>3, <1>6, <2>1 DEF Load
    <3>4. QED BY <3>2, <3>3
  <2>5. Sound(run'[w])
    BY <1>2, <2>3, <2>4, SourceType DEF Sound, Holding, Linking, Targeted
  <2>6. TypeInv' BY <1>6, <2>3, <2>5, QuietStep DEF FindDoomed, Stepped
  <2>7. QED BY <2>1, <2>3, <2>6
<1>7. CASE \E l \in LinkOf(From(w), Source(w)[2]) :
             /\ side[l][To(w)] # None
             /\ Goto(w, "remove", [link |-> Load(l)]) /\ UNCHANGED jobVars
  BY <1>2, <1>4, <1>6, <1>7
<1>8. QED BY <1>5, <1>7 DEF FindDoomed

LEMMA RemoveStep ==
  ASSUME TypeInv, NEW w \in Worker, RemoveCounterpart(w)
  PROVE  /\ TypeInv' /\ run[w] \in Execution /\ run[w].at = "remove"
         /\ UNCHANGED <<side, keyLink, created>>
         /\ \/ \E t \in NativeId :
                 /\ t = run[w].link.ids[To(w)] /\ run'[w] = Idle
                 /\ crm'[To(w)][t] = Deleted
                 /\ \A x \in System, j \in NativeId :
                      <<x, j>> # <<To(w), t>> => crm'[x][j] = crm[x][j]
                 /\ deletions' = deletions \cup {<<To(w), t>>}
                 /\ UNCHANGED <<pending, dead, review>>
            \/ Fail(w) /\ UNCHANGED crm
<1>1. TypeOK /\ run \in [Worker -> Execution \cup {Idle}] BY DEF TypeInv, TypeOK
<1>2. run[w] \in Execution /\ run[w].at = "remove"
  BY <1>1, Executing DEF RemoveCounterpart, At
<1>3. To(w) \in System BY <1>2, SourceType
<1>4. PICK t \in NativeId : t = run[w].link.ids[To(w)]
  BY <1>2, SourceType DEF TypeInv, Progress, Sound, Targeted
<1>5. UNCHANGED <<mapVars, byUs, created, boundVars>> BY DEF RemoveCounterpart
<1>6. MapOK' /\ RestOK' BY <1>1, <1>5, Same
<1>7. CASE /\ crm' = [crm EXCEPT ![To(w)][t] = Deleted]
           /\ deletions' = deletions \cup {<<To(w), t>>}
           /\ tries' = [tries EXCEPT ![<<To(w), t>>] = 0]
           /\ run' = [run EXCEPT ![w] = Idle]
           /\ UNCHANGED <<pending, dead, review>>
  <2>1. CrmOK' BY <1>1, <1>3, <1>7 DEF TypeOK, CrmOK
  <2>2. /\ crm'[To(w)][t] = Deleted
        /\ \A x \in System, j \in NativeId :
             <<x, j>> # <<To(w), t>> => crm'[x][j] = crm[x][j]
    BY <1>1, <1>3, <1>7 DEF TypeOK
  <2>3. <<To(w), t>> \in Record BY <1>3 DEF Record
  <2>4. tries' \in [Record -> 0 .. MaxTries]
    <3>1. 0 \in 0 .. MaxTries BY ConstantsAssumption
    <3>2. QED BY <1>1, <1>7, <2>3, <3>1 DEF TypeOK
  <2>5. JobsOK' BY <1>1, <1>7, <2>3, <2>4 DEF TypeOK, JobsOK
  <2>6. Stepped(w) /\ run'[w] = Idle BY <1>1, <1>7, EndSteps
  <2>7. TypeInv' BY <1>6, <2>1, <2>5, <2>6, StepTyped
  <2>8. QED BY <1>2, <1>4, <1>5, <1>7, <2>2, <2>6, <2>7 DEF mapVars
<1>8. CASE Fail(w) /\ UNCHANGED crm
  <2>1. TypeInv' BY <1>2, <1>5, <1>6, <1>8, FailStep
  <2>2. QED BY <1>2, <1>5, <1>8, <2>1 DEF mapVars
<1>9. QED BY <1>4, <1>7, <1>8 DEF RemoveCounterpart

\* A fault ends the execution with its event back in the queue or its job
\* dead.
LEMMA FaultStep ==
  ASSUME TypeInv, NEW w \in Worker, Fault(w)
  PROVE  /\ TypeInv' /\ run[w] \in Execution /\ run'[w] = Idle
         /\ UNCHANGED <<crm, side, keyLink, created>>
         /\ \/ Fail(w)
            \/ Requeue(w) /\ UNCHANGED <<dead, review>>
<1>1. TypeOK BY DEF TypeInv
<1>2. run[w] \in Execution BY <1>1, Executing DEF Fault, At
<1>3. UNCHANGED <<crm, mapVars, byUs, created, edits, deletes>> BY DEF Fault
<1>4. RestOK'
  <2>1. faults \in 0 .. MaxFaults /\ faults < MaxFaults /\ faults' = faults + 1
    BY <1>1 DEF TypeOK, Fault
  <2>2. faults' \in 0 .. MaxFaults BY <2>1, ConstantsAssumption
  <2>3. QED BY <1>1, <1>3, <2>2 DEF TypeOK, RestOK
<1>5. CASE Fail(w)
  <2>1. TypeInv' /\ run'[w] = Idle BY <1>2, <1>3, <1>4, <1>5, FailStep
  <2>2. QED BY <1>2, <1>3, <1>5, <2>1 DEF mapVars
<1>6. CASE /\ run' = [run EXCEPT ![w] = Idle] /\ Requeue(w)
           /\ UNCHANGED <<tries, dead, review>>
  <2>1. Stepped(w) /\ run'[w] = Idle BY <1>1, <1>6, EndSteps
  <2>2. Source(w) \in Record BY <1>2, SourceType
  <2>3. JobsOK' BY <1>1, <1>6, <2>2 DEF TypeOK, JobsOK, Requeue
  <2>4. CrmOK' /\ MapOK' BY <1>1, <1>3, Same
  <2>5. TypeInv' BY <1>4, <2>1, <2>3, <2>4, StepTyped
  <2>6. QED BY <1>2, <1>3, <1>6, <2>1, <2>5 DEF mapVars
<1>7. QED BY <1>5, <1>6 DEF Fault

\* Every step keeps the types.
LEMMA TypeNext ==
  ASSUME TypeInv, [Next]_vars
  PROVE  TypeInv'
<1>1. ASSUME NEW w \in Worker, Step(w)
      PROVE  TypeInv'
  BY <1>1, StartStep, ReadStep, FindBySourceStep, FindByKeyStep, SearchStep,
     CounterpartStep, ConflictStep, UpdateStep, CreateStep, HealStep,
     WriteFailsStep, WriteBackStep, SaveStep, DoomedStep, RemoveStep
  DEF Step
<1>2. CASE UNCHANGED vars
  <2>1. TypeOK BY DEF TypeInv
  <2>2. CrmOK' /\ JobsOK' /\ MapOK' /\ RestOK' BY <1>2, <2>1, Same DEF vars
  <2>3. run' = run BY <1>2 DEF vars
  <2>4. QED BY <2>1, <2>2, <2>3
        DEF TypeInv, TypeOK, CrmOK, JobsOK, MapOK, RestOK, Progress
<1>3. QED BY <1>1, <1>2, UsersType, FaultStep DEF Next

\* Every record, row and local of reconcile() keeps its shape, whichever
\* workers, calls and failures interleave.
THEOREM TypeCorrect == Spec => []TypeOK
<1>1. Init => TypeInv BY TypeInit
<1>2. TypeInv /\ [Next]_vars => TypeInv' BY TypeNext
<1>3. TypeInv => TypeOK BY DEF TypeInv
<1>4. QED BY <1>1, <1>2, <1>3, PTL DEF Spec

-----------------------------------------------------------------------------
(* One worker: what is known of links, records and the execution between    *)
(* two steps.                                                               *)

\* The records with an event waiting, a job given up or in review, or an
\* update under way.
Covered ==
  pending \cup dead \cup review \cup
  {e \in Record : \E v \in Worker : /\ run[v] \in Execution
                                    /\ run[v].at \notin {"unlink", "remove"}
                                    /\ run[v].source = e}

\* The record holds c, or an event waits that will read what it holds.
Matches(e, c) ==
  crm[e[1]][e[2]] = c \/ e \in pending \/ ~Live(e[1], e[2])

\* A record is on one link.
OneLink ==
  \A l, m \in Link, s \in System :
    (side[l][s] # None /\ side[m][s] # None /\ side[l][s].id = side[m][s].id)
    => l = m

\* A link has both its sides, with the same hash, or none.
BothSides ==
  \A l \in Link, s \in System :
    side[l][s] # None => /\ side[l][Other(s)] # None
                         /\ side[l][Other(s)].hash = side[l][s].hash

\* A key leads to a saved link.
KeysSaved == \A k \in Key : keyLink[k] # None =>
               \A s \in System : side[keyLink[k]][s] # None

\* A recorded hash is what the record holds, unless something will see to it.
HashesTrue ==
  \A l \in Link, s \in System :
    (/\ side[l][s] # None /\ Live(s, side[l][s].id)
     /\ <<s, side[l][s].id>> \notin Covered)
    => side[l][s].hash = crm[s][side[l][s].id]

Gone == \A e \in deletions : crm[e[1]][e[2]] = Deleted

InStep(r) ==
  /\ r.at \in Holding \ {"save"} => Matches(r.source, r.content)
  /\ r.at = "save" => Matches(r.source, r.winner)
  /\ r.at \in {"bykey", "search"} => LinkOf(r.source[1], r.source[2]) = {}
  /\ r.at \in {"writeback", "save"} =>
       <<Other(r.source[1]), r.link.ids[Other(r.source[1])]>> \in pending
  /\ r.at \in {"unlink", "remove"} => crm[r.source[1]][r.source[2]] = Deleted
  /\ r.at = "remove" =>
       \E l \in Link : /\ side[l][r.source[1]] # None
                       /\ side[l][r.source[1]].id = r.source[2]
                       /\ side[l][Other(r.source[1])] # None
                       /\ side[l][Other(r.source[1])].id
                            = r.link.ids[Other(r.source[1])]

Settled ==
  /\ OneLink /\ BothSides /\ KeysSaved /\ HashesTrue /\ Gone
  /\ \A v \in Worker : \A r \in Execution : run[v] = r => InStep(r)

\* The record of a link side is a record.
LEMMA SideType ==
  ASSUME TypeOK, NEW l \in Link, NEW s \in System, side[l][s] # None
  PROVE  side[l][s].id \in NativeId /\ <<s, side[l][s].id>> \in Record
<1>1. side[l][s] \in [id : NativeId, hash : Content \cup {None}] BY DEF TypeOK
<1>2. QED BY <1>1 DEF Record

LEMMA SettledInit == Init => Settled
<1> SUFFICES ASSUME Init PROVE Settled OBVIOUS
<1>1. \A l \in Link, s \in System : side[l][s] = None BY DEF Init
<1>2. \A k \in Key : keyLink[k] = None BY DEF Init
<1>3. \A v \in Worker : run[v] = Idle BY DEF Init
<1>4. deletions = {} BY DEF Init
<1>5. OneLink /\ BothSides /\ KeysSaved /\ HashesTrue /\ Gone
  BY <1>1, <1>2, <1>4 DEF OneLink, BothSides, KeysSaved, HashesTrue, Gone
<1>6. QED BY <1>3, <1>5, IdleAt DEF Settled

\* The hashes stay true where the links do not change and every record whose
\* content changed, or that nothing covers any more, is accounted for.
LEMMA HashesKeep ==
  ASSUME TypeOK, HashesTrue, side' = side,
         \A e \in Record :
           \/ e \in Covered'
           \/ crm'[e[1]][e[2]] \in {Absent, Deleted}
           \/ crm'[e[1]][e[2]] = crm[e[1]][e[2]] /\ e \notin Covered
           \/ \A l \in Link : (side[l][e[1]] # None /\ side[l][e[1]].id = e[2])
                              => side[l][e[1]].hash = crm'[e[1]][e[2]]
  PROVE  HashesTrue'
<1> SUFFICES ASSUME NEW l \in Link, NEW s \in System,
                    side[l][s] # None, ~(crm'[s][side[l][s].id] \in {Absent, Deleted}),
                    <<s, side[l][s].id>> \notin Covered'
             PROVE  side[l][s].hash = crm'[s][side[l][s].id]
  BY DEF HashesTrue, Live
<1>1. PICK e \in Record : e = <<s, side[l][s].id>> /\ e[1] = s /\ e[2] = side[l][s].id
  BY SideType
<1>2. CASE crm'[e[1]][e[2]] = crm[e[1]][e[2]] /\ e \notin Covered
  BY <1>1, <1>2 DEF HashesTrue, Live
<1>3. CASE \A m \in Link : (side[m][e[1]] # None /\ side[m][e[1]].id = e[2])
                           => side[m][e[1]].hash = crm'[e[1]][e[2]]
  BY <1>1, <1>3
<1>4. QED BY <1>1, <1>2, <1>3

\* Where the id map is unchanged, its invariants are.
LEMMA MapKeeps ==
  ASSUME OneLink, BothSides, KeysSaved, side' = side, keyLink' = keyLink
  PROVE  OneLink' /\ BothSides' /\ KeysSaved'
BY DEF OneLink, BothSides, KeysSaved

LEMMA InStepSame ==
  ASSUME NEW r, InStep(r), UNCHANGED <<crm, side, pending>>
  PROVE  InStep(r)'
BY DEF InStep, Matches, Live, LinkOf

\* An execution that goes on without changing a record, a link or a job.
LEMMA SettledOn ==
  ASSUME NEW w \in Worker, Worker = {w}, TypeInv, Settled,
         UNCHANGED <<crm, side, keyLink, jobVars>>, run[w] \in Execution,
         NEW r \in Execution, run'[w] = r, r.source = run[w].source,
         (r.at \in {"unlink", "remove"}) <=> (run[w].at \in {"unlink", "remove"}),
         InStep(r)
  PROVE  Settled'
<1>1. OneLink' /\ BothSides' /\ KeysSaved' BY MapKeeps DEF Settled
<1>2. TypeOK BY DEF TypeInv
<1>3. \A e \in Record : e \in Covered => e \in Covered'
  BY DEF Covered, jobVars
<1>4. HashesTrue' BY <1>2, <1>3, HashesKeep DEF Settled
<1>5. Gone' BY DEF Settled, Gone, jobVars
<1>6. InStep(r)' BY InStepSame DEF jobVars
<1>7. \A v \in Worker : \A q \in Execution : run'[v] = q => InStep(q)' BY <1>6
<1>8. QED BY <1>1, <1>4, <1>5, <1>7 DEF Settled

\* An execution that ends, leaving what it covered to the queue.
LEMMA SettledEnd ==
  ASSUME NEW w \in Worker, Worker = {w}, TypeInv, Settled,
         UNCHANGED <<crm, side, keyLink>>, run[w] \in Execution, run'[w] = Idle,
         pending \cup dead \cup review \subseteq pending' \cup dead' \cup review',
         \/ Source(w) \in pending' \cup dead' \cup review'
         \/ run[w].at \in {"unlink", "remove"}
         \/ ~Live(From(w), Source(w)[2])
         \/ \A l \in LinkOf(From(w), Source(w)[2]) :
              side[l][From(w)].hash = crm[From(w)][Source(w)[2]],
         deletions' \subseteq deletions
           \cup (IF run[w].at \in {"unlink", "remove"} THEN {Source(w)} ELSE {})
  PROVE  Settled'
<1>1. OneLink' /\ BothSides' /\ KeysSaved' BY MapKeeps DEF Settled
<1>2. TypeOK BY DEF TypeInv
<1>3. /\ Source(w) \in Record /\ Source(w) = run[w].source
      /\ From(w) = Source(w)[1]
  BY SourceType DEF Source
<1>4. \A e \in Record \ {Source(w)} : e \in Covered => e \in Covered'
  BY <1>3 DEF Covered
<1>5. \/ Source(w) \in Covered'
      \/ Source(w) \notin Covered
      \/ crm'[From(w)][Source(w)[2]] \in {Absent, Deleted}
      \/ \A l \in Link : (side[l][From(w)] # None /\ side[l][From(w)].id = Source(w)[2])
                         => side[l][From(w)].hash = crm'[From(w)][Source(w)[2]]
  BY <1>3 DEF Covered, Live, LinkOf
<1>6. HashesTrue' BY <1>2, <1>3, <1>4, <1>5, HashesKeep DEF Settled
<1>7. Gone'
  <2>1. ASSUME NEW e \in deletions' PROVE crm'[e[1]][e[2]] = Deleted
    <3>1. CASE e \in deletions BY <3>1 DEF Settled, Gone
    <3>2. CASE e = Source(w) /\ run[w].at \in {"unlink", "remove"}
      <4>1. PICK r \in Execution : r = run[w] OBVIOUS
      <4>2. InStep(r) BY <4>1 DEF Settled
      <4>3. QED BY <3>2, <4>1, <4>2, <1>3 DEF InStep
    <3>3. QED BY <3>1, <3>2
  <2>2. QED BY <2>1 DEF Gone
<1>8. \A v \in Worker : \A q \in Execution : run'[v] = q => InStep(q)' BY IdleAt
<1>9. QED BY <1>1, <1>6, <1>7, <1>8 DEF Settled

\* ... because it failed
LEMMA FailSettles ==
  ASSUME NEW w \in Worker, Worker = {w}, TypeInv, Settled, run[w] \in Execution,
         Fail(w) \/ (Requeue(w) /\ UNCHANGED <<dead, review>>),
         UNCHANGED <<crm, side, keyLink>>, run'[w] = Idle
  PROVE  Settled'
<1>1. pending \cup dead \cup review \subseteq pending' \cup dead' \cup review'
  BY DEF Fail, Requeue
<1>2. \/ Source(w) \in pending' \cup dead' \cup review'
      \/ run[w].at \in {"unlink", "remove"}
  BY DEF Fail, Requeue
<1>3. deletions' \subseteq deletions
        \cup (IF run[w].at \in {"unlink", "remove"} THEN {Source(w)} ELSE {})
  BY DEF Fail, Requeue
<1>4. QED BY <1>1, <1>2, <1>3, SettledEnd

\* Using a link: an echo's hash is what its record holds.
LEMMA UsesSettles ==
  ASSUME NEW w \in Worker, Worker = {w}, TypeInv, Settled, run[w] \in Execution,
         run[w].at \in {"find", "bykey", "search"},
         UNCHANGED <<crm, side, keyLink, jobVars>>, NEW k, Uses(w, k),
         \/ k.hashes[From(w)] = None
         \/ LinkOf(From(w), Source(w)[2]) = {}
         \/ \E l \in LinkOf(From(w), Source(w)[2]) :
              k.hashes[From(w)] = side[l][From(w)].hash
  PROVE  Settled'
<1>1. PICK r \in Execution : r = run[w] OBVIOUS
<1>2. InStep(r) BY <1>1 DEF Settled
<1>3. Matches(Source(w), run[w].content)
  BY <1>1, <1>2 DEF InStep, Holding, Source
<1>4. run[w].content \in Content BY DEF TypeInv, Progress, Sound, Holding
<1>5. /\ Source(w) \in Record /\ From(w) \in System /\ From(w) = Source(w)[1]
  BY SourceType DEF Source
<1>6. CASE IsEcho(w, k) /\ run'[w] = Idle
  <2>1. k.hashes[From(w)] = run[w].content BY <1>6 DEF IsEcho
  <2>2. k.hashes[From(w)] # None BY <1>4, <2>1, MarkersDiffer
  <2>3. \A l \in LinkOf(From(w), Source(w)[2]) :
          side[l][From(w)].hash = run[w].content
    BY <1>5, <2>1, <2>2 DEF Settled, OneLink, LinkOf
  <2>4. \/ Source(w) \in pending'
        \/ ~Live(From(w), Source(w)[2])
        \/ \A l \in LinkOf(From(w), Source(w)[2]) :
             side[l][From(w)].hash = crm[From(w)][Source(w)[2]]
    BY <1>3, <1>5, <2>3 DEF Matches, jobVars
  <2>5. /\ pending \cup dead \cup review \subseteq pending' \cup dead' \cup review'
        /\ deletions' \subseteq deletions
             \cup (IF run[w].at \in {"unlink", "remove"} THEN {Source(w)} ELSE {})
    BY DEF jobVars
  <2>6. QED BY <1>6, <2>4, <2>5, SettledEnd
<1>7. CASE /\ run'[w] \in Execution
           /\ run'[w].at = IF k.ids[To(w)] = None THEN "write" ELSE "counterpart"
           /\ run'[w].source = run[w].source /\ run'[w].content = run[w].content
  <2>1. PICK q \in Execution : q = run'[w] BY <1>7
  <2>2. /\ q.source = run[w].source /\ q.content = run[w].content
        /\ q.at \in {"write", "counterpart"}
    BY <1>7, <2>1
  <2>3. InStep(q) BY <1>3, <2>2 DEF InStep, Holding, Source
  <2>4. QED BY <2>1, <2>2, <2>3, SettledOn
<1>8. QED BY <1>6, <1>7 DEF Uses

\* What the invariant says of the execution of w.
LEMMA InStepNow ==
  ASSUME NEW w \in Worker, Settled, run[w] \in Execution
  PROVE  InStep(run[w])
<1>1. PICK r \in Execution : r = run[w] OBVIOUS
<1>2. InStep(r) BY <1>1 DEF Settled
<1>3. QED BY <1>1, <1>2

\* A write covers the record it changes.
LEMMA WriteSettles ==
  ASSUME NEW w \in Worker, Worker = {w}, TypeInv, TypeInv', Settled,
         run[w] \in Execution, run[w].at \in Holding,
         NEW e \in Record, Wrote(w, e), crm[e[1]][e[2]] # Deleted,
         run'[w].at \in {"writeback", "save"},
         <<To(w), run'[w].link.ids[To(w)]>> \in pending \cup {e},
         run'[w].at = "save" => e = Source(w) \/ Matches(Source(w), run'[w].winner),
         run'[w].at = "writeback" => e = Source(w) \/ Matches(Source(w), run'[w].content)
  PROVE  Settled'
<1>1. TypeOK BY DEF TypeInv
<1>2. OneLink' /\ BothSides' /\ KeysSaved' BY MapKeeps DEF Settled, Wrote
<1>3. \A d \in Record : d # e => crm'[d[1]][d[2]] = crm[d[1]][d[2]]
  BY DEF Wrote, Record
<1>4. e \in Covered' /\ pending' = pending \cup {e}
  BY DEF Covered, Wrote
<1>5. \A d \in Record \ {e} : d \in Covered => d \in Covered'
  BY DEF Covered, Wrote, Holding
<1>6. HashesTrue' BY <1>1, <1>3, <1>4, <1>5, HashesKeep DEF Settled, Wrote
<1>7. Gone'
  <2>1. \A d \in deletions : d \in Record /\ d # e
    BY <1>1 DEF Settled, Gone, TypeOK
  <2>2. QED BY <1>3, <2>1 DEF Settled, Gone, Wrote
<1>8. /\ Source(w) \in Record /\ Source(w) = run[w].source
      /\ To(w) = Other(run[w].source[1])
  BY SourceType DEF Source
<1>9. \A c : Matches(Source(w), c) \/ e = Source(w) => Matches(Source(w), c)'
  BY <1>3, <1>4, <1>8 DEF Matches, Live, Source, Wrote
<1>10. ASSUME NEW r \in Execution, run'[w] = r
       PROVE  InStep(r)'
  <2>1. r.source = Source(w) /\ r.at \in {"writeback", "save"}
    BY <1>8, <1>10 DEF Wrote
  <2>2. Source(w)' = Source(w) BY <1>10, <2>1 DEF Source
  <2>3. r.at = "save" => Matches(r.source, r.winner)'
    <3>1. ASSUME r.at = "save"
          PROVE  e = r.source \/ Matches(r.source, r.winner)
      BY <1>10, <2>1, <3>1
    <3>2. QED BY <1>3, <1>4, <1>8, <2>1, <3>1 DEF Matches, Live
  <2>4. r.at = "writeback" => Matches(r.source, r.content)'
    <3>1. ASSUME r.at = "writeback"
          PROVE  e = r.source \/ Matches(r.source, r.content)
      BY <1>10, <2>1, <3>1
    <3>2. QED BY <1>3, <1>4, <1>8, <2>1, <3>1 DEF Matches, Live
  <2>5. <<Other(r.source[1]), r.link.ids[Other(r.source[1])]>> \in pending'
    BY <1>4, <1>8, <1>10, <2>1
  <2>6. QED BY <2>1, <2>3, <2>4, <2>5 DEF InStep, Holding
<1>11. \A v \in Worker : \A q \in Execution : run'[v] = q => InStep(q)' BY <1>10
<1>12. QED BY <1>2, <1>6, <1>7, <1>11 DEF Settled

\* The write to the target, the saving of the link
LEMMA TargetSettles ==
  ASSUME NEW w \in Worker, Worker = {w}, TypeInv, TypeInv', Settled,
         run[w] \in Execution, run[w].at \in {"write", "rewrite"},
         NEW t \in NativeId, WroteTarget(w, t), crm[To(w)][t] # Deleted
  PROVE  Settled'
<1>1. PICK e \in Record : e = <<To(w), t>> /\ e[1] = To(w) /\ e[2] = t
  <2>1. To(w) \in System BY SourceType
  <2>2. <<To(w), t>> \in Record BY <2>1 DEF Record
  <2>3. QED BY <2>2
<1>2. Matches(Source(w), run[w].content)
  BY InStepNow DEF InStep, Holding, Source
<1>3. run[w].at \in Holding BY DEF Holding
<1>4. /\ run'[w].at = "save" => Matches(Source(w), run'[w].winner)
      /\ run'[w].at = "writeback" => Matches(Source(w), run'[w].content)
      /\ run'[w].at \in {"writeback", "save"}
      /\ <<To(w), run'[w].link.ids[To(w)]>> \in pending \cup {e}
      /\ Wrote(w, e)
  BY <1>1, <1>2 DEF WroteTarget, Wrote
<1>5. QED BY <1>1, <1>3, <1>4, WriteSettles

LEMMA SaveSettles ==
  ASSUME NEW w \in Worker, Worker = {w}, TypeInv, TypeInv', Settled,
         run[w] \in Execution, run[w].at = "save", UNCHANGED <<crm, jobVars>>,
         ~TakenByAnother(run[w].link), run'[w] = Idle,
         side' = [side EXCEPT ![run[w].link.id] =
                    [s \in System |-> [id |-> run[w].link.ids[s],
                                       hash |-> run[w].winner]]],
         \A k \in Key : keyLink'[k] \in {run[w].link.id, keyLink[k]},
         run[w].link.id \in Link,
         \A s \in System : run[w].link.ids[s] \in NativeId
  PROVE  Settled'
<1>1. TypeOK BY DEF TypeInv
<1>2. PICK m \in Link : m = run[w].link.id OBVIOUS
<1>3. PICK ids : ids = run[w].link.ids OBVIOUS
<1>4. PICK c : c = run[w].winner OBVIOUS
<1>5. /\ \A s \in System : /\ side'[m][s] # None
                           /\ side'[m][s].id = ids[s] /\ side'[m][s].hash = c
      /\ \A l \in Link \ {m} : side'[l] = side[l]
  <2>1. side' = [side EXCEPT ![m] = [s \in System |-> [id |-> ids[s], hash |-> c]]]
    BY <1>2, <1>3, <1>4
  <2>2. /\ \A s \in System : side'[m][s] = [id |-> ids[s], hash |-> c]
        /\ \A l \in Link \ {m} : side'[l] = side[l]
    BY <1>1, <2>1 DEF TypeOK
  <2>3. c \in Content BY <1>4 DEF TypeInv, Progress, Sound, Linking
  <2>4. ASSUME NEW s \in System
        PROVE  side'[m][s] # None /\ side'[m][s].id = ids[s] /\ side'[m][s].hash = c
    <3>1. PICK i \in NativeId : i = ids[s] BY <1>3
    <3>2. side'[m][s] = [id |-> i, hash |-> c] BY <2>2, <3>1
    <3>3. [id |-> i, hash |-> c] \in [id : NativeId, hash : Content \cup {None}]
      BY <2>3
    <3>4. QED BY <3>1, <3>2, <3>3, MarkersAssumption
  <2>5. QED BY <2>2, <2>4
<1>6. \A s \in System : LinkOf(s, ids[s]) \subseteq {m}
  <2>1. \A s \in System : ids[s] # None BY <1>3, MarkersDiffer
  <2>2. QED BY <1>2, <1>3, <2>1 DEF TakenByAnother
<1>7. OneLink'
  <2>1. SUFFICES ASSUME NEW l \in Link, NEW n \in Link, NEW s \in System,
                        side'[l][s] # None, side'[n][s] # None,
                        side'[l][s].id = side'[n][s].id
                 PROVE  l = n
    BY DEF OneLink
  <2>2. ASSUME NEW x \in Link \ {m}, side'[x][s] # None, side'[x][s].id = ids[s]
        PROVE  FALSE
    <3>1. side'[x] = side[x] BY <1>5
    <3>2. x \in LinkOf(s, ids[s]) BY <2>2, <3>1 DEF LinkOf
    <3>3. QED BY <1>6, <3>2
  <2>3. side'[m][s].id = ids[s] BY <1>5
  <2>4. CASE l = m BY <2>1, <2>2, <2>3, <2>4
  <2>5. CASE n = m BY <2>1, <2>2, <2>3, <2>5
  <2>6. CASE l # m /\ n # m
    <3>1. side'[l] = side[l] /\ side'[n] = side[n] BY <1>5, <2>6
    <3>2. QED BY <2>1, <3>1 DEF Settled, OneLink
  <2>7. QED BY <2>4, <2>5, <2>6
<1>8. BothSides'
  <2>1. SUFFICES ASSUME NEW l \in Link, NEW s \in System, side'[l][s] # None
                 PROVE  /\ side'[l][Other(s)] # None
                        /\ side'[l][Other(s)].hash = side'[l][s].hash
    BY DEF BothSides
  <2>2. Other(s) \in System BY TwoSystems
  <2>3. CASE l = m BY <1>5, <2>1, <2>2, <2>3
  <2>4. CASE l # m
    <3>1. side'[l] = side[l] BY <1>5, <2>4
    <3>2. QED BY <2>1, <3>1 DEF Settled, BothSides
  <2>5. QED BY <2>3, <2>4
<1>9. KeysSaved'
  <2>1. SUFFICES ASSUME NEW k \in Key, keyLink'[k] # None, NEW s \in System
                 PROVE  side'[keyLink'[k]][s] # None
    BY DEF KeysSaved
  <2>2. CASE keyLink'[k] = m BY <1>5, <2>2
  <2>3. CASE keyLink'[k] # m
    <3>1. keyLink'[k] = keyLink[k] BY <1>2, <2>3
    <3>2. keyLink[k] \in Link /\ side[keyLink[k]][s] # None
      BY <1>1, <2>1, <3>1 DEF Settled, KeysSaved, TypeOK
    <3>3. QED BY <1>5, <2>3, <3>1, <3>2
  <2>4. QED BY <2>2, <2>3
<1>10. /\ Source(w) \in Record /\ Source(w) = run[w].source
       /\ From(w) \in System /\ To(w) = Other(From(w)) /\ From(w) = Source(w)[1]
       /\ To(w) \in System /\ \A s \in System : s = From(w) \/ s = To(w)
       /\ ids[From(w)] = Source(w)[2] /\ Source(w) = <<From(w), Source(w)[2]>>
  BY <1>3, SourceType, TwoSystems DEF Source, From, TypeInv, Progress, Sound, Linking
<1>11. InStep(run[w]) BY InStepNow
<1>12. HashesTrue'
  <2>1. SUFFICES ASSUME NEW l \in Link, NEW s \in System,
                        side'[l][s] # None, ~(crm'[s][side'[l][s].id] \in {Absent, Deleted}),
                        <<s, side'[l][s].id>> \notin Covered'
                 PROVE  side'[l][s].hash = crm'[s][side'[l][s].id]
    BY DEF HashesTrue, Live
  <2>2. CASE l = m /\ s = From(w)
    <3>1. side'[l][s].id = Source(w)[2] /\ side'[l][s].hash = c BY <1>5, <1>10, <2>2
    <3>2. Matches(Source(w), c) BY <1>4, <1>10, <1>11 DEF InStep
    <3>3. Source(w) \notin pending
      <4>1. <<s, side'[l][s].id>> = Source(w) BY <1>10, <2>2, <3>1
      <4>2. Source(w) \notin Covered' BY <2>1, <4>1
      <4>3. QED BY <4>2 DEF Covered, jobVars
    <3>4. QED BY <1>10, <2>1, <2>2, <3>1, <3>2, <3>3 DEF Matches, Live
  <2>3. CASE l = m /\ s = To(w)
    <3>1. <<To(w), ids[To(w)]>> \in pending
      BY <1>3, <1>10, <1>11 DEF InStep
    <3>2. side'[l][s].id = ids[To(w)] BY <1>5, <2>3
    <3>3. <<s, side'[l][s].id>> \in pending' BY <2>3, <3>1, <3>2 DEF jobVars
    <3>4. QED BY <2>1, <3>3 DEF Covered
  <2>4. CASE l # m
    <3>1. side'[l][s] = side[l][s] BY <1>5, <2>4
    <3>2. <<s, side[l][s].id>> # Source(w)
      BY <1>6, <1>10, <2>1, <2>4, <3>1 DEF LinkOf
    <3>3. <<s, side[l][s].id>> \notin Covered
      <4>1. PICK e : e = <<s, side[l][s].id>> OBVIOUS
      <4>2. e \notin pending \cup dead \cup review
        BY <2>1, <3>1, <4>1 DEF Covered, jobVars
      <4>3. \A v \in Worker : run[v].source # e BY <1>10, <3>2, <4>1
      <4>4. QED BY <4>1, <4>2, <4>3 DEF Covered
    <3>4. QED BY <2>1, <3>1, <3>3 DEF Settled, HashesTrue, Live
  <2>5. s = From(w) \/ s = To(w) BY <1>10
  <2>6. QED BY <2>2, <2>3, <2>4, <2>5
<1>13. Gone' BY DEF Settled, Gone, jobVars
<1>14. \A v \in Worker : \A q \in Execution : run'[v] = q => InStep(q)' BY IdleAt
<1>15. QED BY <1>7, <1>8, <1>9, <1>12, <1>13, <1>14 DEF Settled

\* Users leave an event wherever they change a record.
LEMMA UsersSettle ==
  ASSUME NEW w \in Worker, Worker = {w}, TypeInv, Settled, Users
  PROVE  Settled'
<1>1. TypeOK /\ UNCHANGED <<side, keyLink, run>>
  BY UsersType DEF TypeInv, mapVars
<1>2. OneLink' /\ BothSides' /\ KeysSaved' BY <1>1, MapKeeps DEF Settled
<1>3. PICK s \in System, i \in NativeId : Edit(s, i) \/ Remove(s, i) BY DEF Users
<1>4. PICK e \in Record : e = <<s, i>> /\ e[1] = s /\ e[2] = i
  <2>1. <<s, i>> \in Record BY DEF Record
  <2>2. QED BY <2>1
<1>5. \A d \in Record : d # e => crm'[d[1]][d[2]] = crm[d[1]][d[2]]
  BY <1>1, <1>3, <1>4 DEF Edit, Remove, Record, TypeOK
<1>6. \/ e \in pending' /\ crm[s][i] # Deleted /\ deletions' = deletions
      \/ crm'[s][i] = Deleted /\ deletions' = deletions \cup {e}
  BY <1>1, <1>3, <1>4 DEF Edit, Remove, TypeOK
<1>7. /\ \A d \in Record \ {e} : d \in Covered => d \in Covered'
      /\ e \in pending' => e \in Covered'
      /\ pending \subseteq pending'
  BY <1>1, <1>3, <1>4 DEF Edit, Remove, Covered
<1>8. HashesTrue'
  <2>1. e \in Covered' \/ crm'[e[1]][e[2]] \in {Absent, Deleted}
    BY <1>4, <1>6, <1>7
  <2>2. QED BY <1>1, <1>5, <1>7, <2>1, HashesKeep DEF Settled
<1>9. crm[s][i] = Deleted => crm'[s][i] = Deleted
  BY <1>6
<1>10. Gone'
  <2>1. \A d \in deletions : d \in Record BY <1>1 DEF TypeOK
  <2>2. QED BY <1>4, <1>5, <1>6, <1>9, <2>1 DEF Settled, Gone
<1>11. ASSUME NEW r \in Execution, run'[w] = r
       PROVE  InStep(r)'
  <2>1. InStep(r) BY <1>1, <1>11 DEF Settled
  <2>2. r.source \in Record BY DEF Execution
  <2>3. \A c : Matches(r.source, c) =>
          \/ crm'[r.source[1]][r.source[2]] = c
          \/ r.source \in pending'
          \/ crm'[r.source[1]][r.source[2]] \in {Absent, Deleted}
    BY <1>4, <1>5, <1>6, <1>7, <2>2 DEF Matches, Live
  <2>4. crm[r.source[1]][r.source[2]] = Deleted => crm'[r.source[1]][r.source[2]] = Deleted
    BY <1>4, <1>5, <1>9, <2>2
  <2>5. \A x, j : LinkOf(x, j)' = LinkOf(x, j) BY <1>1 DEF LinkOf
  <2>6. QED BY <1>1, <1>7, <2>1, <2>3, <2>4, <2>5 DEF InStep, Matches, Live
<1>12. \A v \in Worker : \A q \in Execution : run'[v] = q => InStep(q)' BY <1>11
<1>13. QED BY <1>2, <1>8, <1>10, <1>12 DEF Settled

\* The calls, one by one
LEMMA StartSettles ==
  ASSUME NEW w \in Worker, Worker = {w}, TypeInv, Settled, StartUpdate(w) \/ StartDelete(w)
  PROVE  Settled'
<1>1. TypeOK BY DEF TypeInv
<1>2. /\ UNCHANGED <<crm, side, keyLink, dead, review>>
      /\ run[w] = Idle /\ run'[w] \in Execution
      /\ \/ /\ run'[w].at = "read" /\ run'[w].source \in Record
            /\ pending' = pending \ {run'[w].source}
            /\ deletions' = deletions
         \/ /\ run'[w].at = "unlink" /\ run'[w].source \in deletions
            /\ pending' = pending /\ deletions' \subseteq deletions
  BY StartStep
<1>3. OneLink' /\ BothSides' /\ KeysSaved' BY <1>2, MapKeeps DEF Settled
<1>4. \A e \in Record : e \in Covered => e \in Covered'
  BY <1>2, IdleAt DEF Covered
<1>5. HashesTrue' BY <1>1, <1>2, <1>4, HashesKeep DEF Settled
<1>6. Gone' BY <1>2 DEF Settled, Gone
<1>7. ASSUME NEW r \in Execution, run'[w] = r
      PROVE  InStep(r)'
  <2>1. CASE r.at = "read" BY <2>1 DEF InStep, Holding
  <2>2. CASE r.at = "unlink" /\ r.source \in deletions
    BY <1>2, <2>2 DEF InStep, Holding, Settled, Gone
  <2>3. QED BY <1>2, <1>7, <2>1, <2>2
<1>8. \A v \in Worker : \A q \in Execution : run'[v] = q => InStep(q)' BY <1>7
<1>9. QED BY <1>3, <1>5, <1>6, <1>8 DEF Settled

LEMMA FindSettles ==
  ASSUME NEW w \in Worker, Worker = {w}, TypeInv, Settled, FindBySource(w)
  PROVE  Settled'
<1>1. TypeOK BY DEF TypeInv
<1>2. /\ run[w] \in Execution /\ run[w].at = "find"
      /\ UNCHANGED <<crm, side, keyLink, jobVars>>
  BY <1>1, Executing, FindBySourceStep DEF FindBySource, At
<1>3. From(w) \in System /\ Source(w)[2] \in NativeId BY <1>2, SourceType
<1>4. CASE \E l \in LinkOf(From(w), Source(w)[2]) : Uses(w, Load(l))
  <2>1. PICK l \in LinkOf(From(w), Source(w)[2]) : Uses(w, Load(l)) BY <1>4
  <2>2. Load(l).hashes[From(w)] = side[l][From(w)].hash
    BY <1>3 DEF Load, LinkOf
  <2>3. PICK k : k = Load(l) OBVIOUS
  <2>4. QED BY <1>2, <2>1, <2>2, <2>3, UsesSettles
<1>5. CASE /\ LinkOf(From(w), Source(w)[2]) = {}
           /\ run'[w] \in Execution
           /\ run'[w].at = "bykey" /\ run'[w].source = run[w].source
           /\ run'[w].content = run[w].content
  <2>1. PICK r \in Execution : r = run'[w] BY <1>5
  <2>2. Matches(run[w].source, run[w].content)
    BY <1>2, InStepNow DEF InStep, Holding
  <2>3. /\ r.at = "bykey" /\ r.source = run[w].source
        /\ r.content = run[w].content
        /\ LinkOf(r.source[1], r.source[2]) = {}
    BY <1>5, <2>1 DEF From, Source
  <2>4. InStep(r) BY <2>2, <2>3 DEF InStep
  <2>5. QED BY <1>2, <2>1, <2>3, <2>4, SettledOn
<1>6. CASE Unused # {} /\ Uses(w, NewLink(From(w), Source(w)[2], None, run[w].content))
  <2>1. PICK k : k = NewLink(From(w), Source(w)[2], None, run[w].content) OBVIOUS
  <2>2. k.hashes[From(w)] = None BY <1>3, <2>1 DEF NewLink
  <2>3. QED BY <1>2, <1>6, <2>1, <2>2, UsesSettles
<1>7. QED BY <1>4, <1>5, <1>6, FindBySourceStep

LEMMA KeySettles ==
  ASSUME NEW w \in Worker, Worker = {w}, TypeInv, Settled, FindByKey(w)
  PROVE  Settled'
<1>1. /\ run[w] \in Execution /\ run[w].at = "bykey"
      /\ UNCHANGED <<crm, side, keyLink, jobVars>>
      /\ \/ \E k \in LinkRecord : Uses(w, k)
         \/ /\ run'[w] \in Execution /\ run'[w].at = "search"
            /\ run'[w].source = run[w].source
            /\ run'[w].content = run[w].content
  BY FindByKeyStep
<1>2. InStep(run[w]) BY <1>1, InStepNow
<1>3. LinkOf(From(w), Source(w)[2]) = {} BY <1>1, <1>2 DEF InStep, From, Source
<1>4. CASE \E k \in LinkRecord : Uses(w, k) BY <1>1, <1>3, <1>4, UsesSettles
<1>5. CASE /\ run'[w] \in Execution /\ run'[w].at = "search"
           /\ run'[w].source = run[w].source
           /\ run'[w].content = run[w].content
  <2>1. PICK r \in Execution : r = run'[w] BY <1>5
  <2>2. /\ r.at = "search" /\ r.source = run[w].source /\ r.content = run[w].content
    BY <1>5, <2>1
  <2>3. InStep(r) BY <1>1, <1>2, <2>2 DEF InStep, Holding
  <2>4. QED BY <1>1, <2>1, <2>2, <2>3, SettledOn
<1>6. QED BY <1>1, <1>4, <1>5

LEMMA SearchSettles ==
  ASSUME NEW w \in Worker, Worker = {w}, TypeInv, Settled, Search(w)
  PROVE  Settled'
<1>1. /\ run[w] \in Execution /\ run[w].at = "search"
      /\ UNCHANGED <<crm, side, keyLink, pending, deletions, dead>>
  BY SearchStep
<1>2. From(w) \in System BY <1>1, SourceType
<1>3. CASE run'[w] = Idle /\ review' = review \cup {Source(w)}
  BY <1>1, <1>3, SettledEnd
<1>4. CASE /\ review' = review
           /\ \E t \in NativeId \cup {None} :
                Uses(w, NewLink(From(w), Source(w)[2], t, run[w].content))
  <2>1. PICK t : Uses(w, NewLink(From(w), Source(w)[2], t, run[w].content))
    BY <1>4
  <2>2. PICK k : k = NewLink(From(w), Source(w)[2], t, run[w].content) OBVIOUS
  <2>3. k.hashes[From(w)] = None BY <1>2, <2>2 DEF NewLink
  <2>4. UNCHANGED jobVars
    <3>1. tries' = tries BY <1>4 DEF Search, UseLink, End, jobVars
    <3>2. QED BY <1>1, <1>4, <3>1 DEF jobVars
  <2>5. QED BY <1>1, <2>1, <2>2, <2>3, <2>4, UsesSettles
<1>5. QED BY <1>3, <1>4, SearchStep

LEMMA ReadSettles ==
  ASSUME NEW w \in Worker, Worker = {w}, TypeInv, Settled, Read(w)
  PROVE  Settled'
<1>1. TypeOK BY DEF TypeInv
<1>2. /\ run[w] \in Execution /\ run[w].at = "read"
      /\ UNCHANGED <<crm, side, keyLink>>
  BY <1>1, Executing, ReadStep DEF Read, At
<1>3. CASE /\ UNCHANGED jobVars /\ run'[w] \in Execution
           /\ run'[w].at = "find" /\ run'[w].source = run[w].source
           /\ run'[w].content = crm[From(w)][Source(w)[2]]
  <2>1. PICK r \in Execution : r = run'[w] BY <1>3
  <2>2. /\ r.at = "find" /\ r.source = run[w].source
        /\ r.content = crm[r.source[1]][r.source[2]]
    BY <1>3, <2>1 DEF From, Source
  <2>3. InStep(r) BY <2>2 DEF InStep, Matches
  <2>4. QED BY <1>2, <1>3, <2>1, <2>2, <2>3, SettledOn
<1>4. CASE Fail(w)
  <2>1. run'[w] = Idle BY <1>1, <1>2, <1>4, FailSteps
  <2>2. QED BY <1>2, <1>4, <2>1, FailSettles
<1>5. QED BY <1>3, <1>4, ReadStep

\* The stages from the counterpart to the write keep what was read.
LEMMA OnSettles ==
  ASSUME NEW w \in Worker, Worker = {w}, TypeInv, Settled, run[w] \in Execution,
         run[w].at \in Holding \ {"save"}, UNCHANGED <<crm, side, keyLink, jobVars>>,
         run'[w] \in Execution, run'[w].at \in {"conflict", "write", "rewrite"},
         run'[w].source = run[w].source, run'[w].content = run[w].content
  PROVE  Settled'
<1>1. PICK r \in Execution : r = run'[w] OBVIOUS
<1>2. Matches(run[w].source, run[w].content) BY InStepNow DEF InStep
<1>3. InStep(r) BY <1>1, <1>2 DEF InStep
<1>4. QED BY <1>1, <1>3, SettledOn DEF Holding

LEMMA WriteBackSettles ==
  ASSUME NEW w \in Worker, Worker = {w}, TypeInv, Settled, WriteBack(w)
  PROVE  Settled'
<1>1. TypeOK BY DEF TypeInv
<1>2. /\ TypeInv' /\ run[w] \in Execution /\ run[w].at = "writeback"
      /\ UNCHANGED <<side, keyLink>>
  BY WriteBackStep
<1>3. CASE /\ Wrote(w, Source(w)) /\ run'[w].at = "save"
           /\ Live(From(w), Source(w)[2])
           /\ run'[w].link.ids = run[w].link.ids
  <2>1. PICK e \in Record : e = Source(w) BY <1>2, SourceType
  <2>2. crm[e[1]][e[2]] # Deleted BY <1>3, <2>1 DEF Live, From, Source
  <2>3. <<To(w), run[w].link.ids[To(w)]>> \in pending
    BY <1>2, InStepNow, SourceType DEF InStep
  <2>4. run[w].at \in Holding BY <1>2 DEF Holding
  <2>5. QED BY <1>2, <1>3, <2>1, <2>2, <2>3, <2>4, WriteSettles
<1>4. CASE Fail(w) /\ UNCHANGED crm
  <2>1. run'[w] = Idle BY <1>1, <1>2, <1>4, FailSteps
  <2>2. QED BY <1>2, <1>4, <2>1, FailSettles
<1>5. QED BY <1>3, <1>4, WriteBackStep

LEMMA DoomedSettles ==
  ASSUME NEW w \in Worker, Worker = {w}, TypeInv, Settled, FindDoomed(w)
  PROVE  Settled'
<1>1. /\ run[w] \in Execution /\ run[w].at = "unlink"
      /\ UNCHANGED <<crm, side, keyLink, jobVars>>
  BY DoomedStep
<1>2. InStep(run[w]) BY <1>1, InStepNow
<1>3. /\ From(w) \in System /\ To(w) \in System
      /\ From(w) = run[w].source[1] /\ To(w) = Other(run[w].source[1])
      /\ Source(w) = run[w].source
  BY <1>1, SourceType DEF Source
<1>4. CASE run'[w] = Idle
  <2>1. /\ pending \cup dead \cup review \subseteq pending' \cup dead' \cup review'
        /\ deletions' \subseteq deletions
             \cup (IF run[w].at \in {"unlink", "remove"} THEN {Source(w)} ELSE {})
    BY <1>1 DEF jobVars
  <2>2. QED BY <1>1, <1>4, <2>1, SettledEnd
<1>5. CASE /\ run'[w] \in Execution /\ run'[w].at = "remove"
           /\ run'[w].source = run[w].source
           /\ \E l \in LinkOf(From(w), Source(w)[2]) :
                side[l][To(w)] # None /\ run'[w].link = Load(l)
  <2>1. PICK r \in Execution : r = run'[w] BY <1>5
  <2>2. PICK l \in LinkOf(From(w), Source(w)[2]) :
          side[l][To(w)] # None /\ r.link = Load(l)
    BY <1>5, <2>1
  <2>3. /\ l \in Link /\ side[l][From(w)] # None
        /\ side[l][From(w)].id = Source(w)[2]
    BY <2>2 DEF LinkOf
  <2>4. r.link.ids[To(w)] = side[l][To(w)].id
    BY <1>3, <2>2 DEF Load
  <2>5. r.at = "remove" /\ r.source = run[w].source BY <1>5, <2>1
  <2>6. crm[r.source[1]][r.source[2]] = Deleted BY <1>1, <1>2, <2>5 DEF InStep
  <2>7. InStep(r) BY <1>3, <2>2, <2>3, <2>4, <2>5, <2>6 DEF InStep, Holding
  <2>8. QED BY <1>1, <2>1, <2>5, <2>7, SettledOn
<1>6. QED BY <1>4, <1>5, DoomedStep

LEMMA RemoveSettles ==
  ASSUME NEW w \in Worker, Worker = {w}, TypeInv, Settled, RemoveCounterpart(w)
  PROVE  Settled'
<1>1. TypeOK BY DEF TypeInv
<1>2. /\ run[w] \in Execution /\ run[w].at = "remove"
      /\ UNCHANGED <<side, keyLink>>
  BY RemoveStep
<1>3. ASSUME NEW t \in NativeId, run'[w] = Idle, crm'[To(w)][t] = Deleted,
             \A x \in System, j \in NativeId :
               <<x, j>> # <<To(w), t>> => crm'[x][j] = crm[x][j],
             deletions' = deletions \cup {<<To(w), t>>},
             UNCHANGED <<pending, dead, review>>
      PROVE  Settled'
  <2>1. PICK e \in Record : e = <<To(w), t>> /\ e[1] = To(w) /\ e[2] = t
    <3>1. <<To(w), t>> \in Record BY <1>2, SourceType DEF Record
    <3>2. QED BY <3>1
  <2>2. \A d \in Record : d # e => crm'[d[1]][d[2]] = crm[d[1]][d[2]]
    BY <1>3, <2>1 DEF Record
  <2>3. \A d \in Record : d \in Covered => d \in Covered'
    BY <1>2, <1>3 DEF Covered
  <2>4. HashesTrue'
    <3>1. crm'[e[1]][e[2]] \in {Absent, Deleted} BY <1>3, <2>1
    <3>2. QED BY <1>1, <1>2, <2>2, <2>3, <3>1, HashesKeep DEF Settled
  <2>5. OneLink' /\ BothSides' /\ KeysSaved' BY <1>2, MapKeeps DEF Settled
  <2>6. Gone'
    <3>1. \A d \in deletions : d \in Record BY <1>1 DEF TypeOK
    <3>2. QED BY <1>3, <2>1, <2>2, <3>1 DEF Settled, Gone
  <2>7. \A v \in Worker : \A q \in Execution : run'[v] = q => InStep(q)'
    BY <1>3, IdleAt
  <2>8. QED BY <2>4, <2>5, <2>6, <2>7 DEF Settled
<1>4. CASE Fail(w) /\ UNCHANGED crm
  <2>1. run'[w] = Idle BY <1>1, <1>2, <1>4, FailSteps
  <2>2. QED BY <1>2, <1>4, <2>1, FailSettles
<1>5. QED BY <1>3, <1>4, RemoveStep

\* What the model knows of links, records and the execution holds after
\* every step of a system with one worker.
LEMMA SettledNext ==
  ASSUME NEW w \in Worker, Worker = {w}, TypeInv, Settled, [Next]_vars
  PROVE  Settled'
<1>1. TypeOK /\ TypeInv' BY TypeNext DEF TypeInv
<1>2. ASSUME run[w] \in Execution, Fail(w), UNCHANGED <<crm, side, keyLink>>
      PROVE  Settled'
  BY <1>1, <1>2, FailSteps, FailSettles
<1>3. CASE StartUpdate(w) \/ StartDelete(w) BY <1>3, StartSettles
<1>4. CASE Read(w) BY <1>4, ReadSettles
<1>5. CASE FindBySource(w) \/ FindByKey(w) \/ Search(w)
  BY <1>5, FindSettles, KeySettles, SearchSettles
<1>6. CASE ReadCounterpart(w)
  BY <1>6, CounterpartStep, OnSettles DEF Holding
<1>7. CASE RecordConflict(w)
  BY <1>2, <1>7, ConflictStep, OnSettles DEF Holding
<1>8. ASSUME NEW stage \in {"write", "rewrite"}, Update(w, stage)
      PROVE  Settled'
  <2>1. /\ run[w] \in Execution /\ run[w].at = stage
        /\ \E t \in NativeId : /\ Live(To(w), t) /\ t = run[w].link.ids[To(w)]
                               /\ WroteTarget(w, t)
    BY <1>8, UpdateStep
  <2>2. PICK t \in NativeId : Live(To(w), t) /\ WroteTarget(w, t) BY <2>1
  <2>3. crm[To(w)][t] # Deleted BY <2>2 DEF Live
  <2>4. QED BY <1>1, <2>1, <2>2, <2>3, TargetSettles
<1>9. CASE Create(w)
  <2>1. PICK t \in NativeId : crm[To(w)][t] = Absent /\ WroteTarget(w, t)
    BY <1>9, CreateStep
  <2>2. run[w] \in Execution /\ run[w].at = "write" BY <1>9, CreateStep
  <2>3. crm[To(w)][t] # Deleted BY <2>1, MarkersDiffer
  <2>4. QED BY <1>1, <2>1, <2>2, <2>3, TargetSettles
<1>10. CASE Heal(w) BY <1>10, HealStep, OnSettles DEF Holding
<1>11. CASE WriteFails(w) BY <1>2, <1>11, WriteFailsStep
<1>12. CASE WriteBack(w) BY <1>12, WriteBackSettles
<1>13. CASE Save(w)
  <2>1. run[w] \in Execution /\ run[w].at = "save" /\ crm' = crm
    BY <1>13, SaveStep
  <2>2. CASE Fail(w) /\ UNCHANGED <<side, keyLink>> BY <1>2, <2>1, <2>2
  <2>3. CASE /\ ~TakenByAnother(run[w].link) /\ UNCHANGED jobVars /\ run'[w] = Idle
             /\ side' = [side EXCEPT ![run[w].link.id] =
                   [s \in System |-> [id |-> run[w].link.ids[s],
                                      hash |-> run[w].winner]]]
             /\ \A k \in Key : keyLink'[k] \in {run[w].link.id, keyLink[k]}
             /\ run[w].link.id \in Link
             /\ \A s \in System : run[w].link.ids[s] \in NativeId
    BY <1>1, <2>1, <2>3, SaveSettles
  <2>4. QED BY <1>13, <2>2, <2>3, SaveStep
<1>14. CASE FindDoomed(w) BY <1>14, DoomedSettles
<1>15. CASE RemoveCounterpart(w) BY <1>15, RemoveSettles
<1>16. CASE Fault(w)
  BY <1>16, FaultStep, FailSettles
<1>17. CASE Users BY <1>17, UsersSettle
<1>18. CASE UNCHANGED vars
  <2>1. UNCHANGED <<crm, side, keyLink, pending, deletions, dead, review, run>>
    BY <1>18 DEF vars, mapVars, jobVars
  <2>2. OneLink' /\ BothSides' /\ KeysSaved' BY <2>1, MapKeeps DEF Settled
  <2>3. HashesTrue' BY <1>1, <2>1, HashesKeep DEF Settled, Covered
  <2>4. Gone' BY <2>1 DEF Settled, Gone
  <2>5. \A q \in Execution : run'[w] = q => InStep(q)'
    BY <2>1, InStepSame DEF Settled
  <2>6. QED BY <2>2, <2>3, <2>4, <2>5 DEF Settled
<1>19. QED
  <2>1. Step(w) => Settled'
    BY <1>3, <1>4, <1>5, <1>6, <1>7, <1>8, <1>9, <1>10, <1>11, <1>12, <1>13,
       <1>14, <1>15
    DEF Step
  <2>2. QED BY <2>1, <1>16, <1>17, <1>18 DEF Next

OneWorkerInv == TypeInv /\ Settled

LEMMA OneWorkerSpec ==
  ASSUME NEW w \in Worker, Worker = {w}
  PROVE  Spec => []OneWorkerInv
<1>1. Init => OneWorkerInv BY TypeInit, SettledInit DEF OneWorkerInv
<1>2. OneWorkerInv /\ [Next]_vars => OneWorkerInv'
  BY TypeNext, SettledNext DEF OneWorkerInv
<1>3. QED BY <1>1, <1>2, PTL DEF Spec

\* With one worker, two linked records hold the same values once nothing is
\* left to do, whatever calls failed or had an outcome that was lost: what
\* reconcile(), its echo check and its write-back are there for.
THEOREM OneWorkerAgrees ==
  ASSUME NEW w \in Worker, Worker = {w}
  PROVE  Spec => []Agreement
<1>1. OneWorkerInv => Agreement
  <2> SUFFICES ASSUME OneWorkerInv, Quiet, NEW l \in Link,
                      \A s \in System : /\ side[l][s] # None
                                        /\ Live(s, side[l][s].id)
                                        /\ <<s, side[l][s].id>> \notin dead \cup review
               PROVE  crm["salesforce"][side[l]["salesforce"].id] =
                      crm["hubspot"][side[l]["hubspot"].id]
    BY DEF Agreement
  <2>1. TypeOK BY DEF OneWorkerInv, TypeInv
  <2>2. run[w] \notin Execution BY <2>1, IdleAt DEF Quiet, At
  <2>3. \A s \in System : <<s, side[l][s].id>> \notin Covered
    BY <2>2 DEF Covered, Quiet
  <2>4. \A s \in System : side[l][s].hash = crm[s][side[l][s].id]
    BY <2>3 DEF OneWorkerInv, Settled, HashesTrue
  <2>5. side[l]["salesforce"].hash = side[l]["hubspot"].hash
    BY DEF OneWorkerInv, Settled, BothSides, System, Other
  <2>6. QED BY <2>4, <2>5 DEF System
<1>2. Spec => []OneWorkerInv BY OneWorkerSpec
<1>3. QED BY <1>1, <1>2, PTL

\* With one worker, propagateDelete() never removes a record that is linked to
\* a living one, although its link was read a call earlier.
THEOREM OneWorkerSparesLiving ==
  ASSUME NEW v \in Worker, Worker = {v}
  PROVE  Spec => DeleteSparesLiving
<1>1. OneWorkerInv /\ [Next]_vars =>
        [\A w \in Worker, l \in Link :
           (/\ At(w, "remove") /\ run'[w] # run[w]
            /\ side[l][To(w)] # None /\ side[l][From(w)] # None
            /\ crm'[To(w)][side[l][To(w)].id] # crm[To(w)][side[l][To(w)].id])
           => ~Live(From(w), side[l][From(w)].id)]_vars
  <2> SUFFICES ASSUME OneWorkerInv, Next, NEW w \in Worker, NEW l \in Link,
                      At(w, "remove"), run'[w] # run[w],
                      side[l][To(w)] # None, side[l][From(w)] # None,
                      crm'[To(w)][side[l][To(w)].id] # crm[To(w)][side[l][To(w)].id]
               PROVE  ~Live(From(w), side[l][From(w)].id)
    BY DEF vars
  <2>1. TypeInv /\ TypeOK /\ Settled /\ w = v BY DEF OneWorkerInv, TypeInv
  <2>2. run[w] \in Execution /\ run[w].at = "remove"
    BY <2>1, Executing DEF At
  <2>0. /\ InStep(run[w]) /\ From(w) = run[w].source[1]
        /\ To(w) = Other(run[w].source[1]) /\ Source(w)[2] = run[w].source[2]
    BY <2>1, <2>2, InStepNow, SourceType DEF Source
  <2>3. PICK m \in Link :
          /\ side[m][From(w)] # None /\ side[m][From(w)].id = Source(w)[2]
          /\ side[m][To(w)] # None
          /\ side[m][To(w)].id = run[w].link.ids[To(w)]
    BY <2>0, <2>2 DEF InStep
  <2>4. crm[From(w)][Source(w)[2]] = Deleted BY <2>0, <2>2 DEF InStep
  <2>5. RemoveCounterpart(w)
    <3>1. ~Users BY <2>1, UsersType
    <3>2. ~Fault(w) BY <2>1, FaultStep
    <3>3. Step(w) BY <2>1, <3>1, <3>2 DEF Next
    <3>4. run[w] # Idle BY <2>2, IdleAt
    <3>5. QED
      BY <2>1, <2>2, <3>3, <3>4, StartStep, ReadStep, FindBySourceStep,
         FindByKeyStep, SearchStep, CounterpartStep, ConflictStep, UpdateStep,
         CreateStep, HealStep, WriteFailsStep, WriteBackStep, SaveStep, DoomedStep
      DEF Step, Read, FindBySource, At
  <2>6. PICK t \in NativeId :
          /\ t = run[w].link.ids[To(w)]
          /\ \A x \in System, j \in NativeId :
               <<x, j>> # <<To(w), t>> => crm'[x][j] = crm[x][j]
    BY <2>1, <2>5, RemoveStep
  <2>7. From(w) \in System /\ To(w) \in System BY <2>2, SourceType
  <2>8. side[l][To(w)].id \in NativeId BY <2>1, <2>7, SideType
  <2>9. side[l][To(w)].id = t BY <2>6, <2>7, <2>8
  <2>10. l = m BY <2>1, <2>3, <2>6, <2>7, <2>9 DEF Settled, OneLink
  <2>11. QED BY <2>3, <2>4, <2>10 DEF Live
<1>2. Spec => []OneWorkerInv BY OneWorkerSpec
<1>3. QED BY <1>1, <1>2, PTL DEF Spec, DeleteSparesLiving

-----------------------------------------------------------------------------
(* One worker: no twin is created *)

\* Users leave the natural keys of the records the engine created alone.
KeysStay ==
  edits' # edits =>
    \A q \in created : Live(q[1], q[2]) =>
      KeyOf(crm'[q[1]][q[2]]) = KeyOf(crm[q[1]][q[2]])

\* A record that is about to be created has the key of no living record the
\* engine created before.
NoTwinAhead(r) ==
  (r.at = "write" /\ r.link.ids[Other(r.source[1])] = None) =>
    /\ r.winner = r.content
    /\ \A q \in created :
         (q[1] = Other(r.source[1]) /\ Live(q[1], q[2]))
         => ~SameKey(crm[q[1]][q[2]], r.content)

Apart ==
  /\ \A q \in created : crm[q[1]][q[2]] # Absent
  /\ \A v \in Worker : \A r \in Execution : run[v] = r => NoTwinAhead(r)

\* Contents with one key have the same twins.
LEMMA KeysAlike ==
  ASSUME NEW c, NEW d, NEW e, KeyOf(c) = KeyOf(d)
  PROVE  SameKey(c, e) <=> SameKey(d, e)
<1>1. \A f \in KeyField : c[f] = d[f]
  <2>1. \A f \in KeyField : KeyOf(c)[f] = c[f] /\ KeyOf(d)[f] = d[f] BY DEF KeyOf
  <2>2. QED BY <2>1
<1>2. HasKey(c) <=> HasKey(d) BY <1>1 DEF HasKey
<1>3. QED BY <1>2 DEF SameKey

\* The first write of a record keeps its key or has none.
LEMMA WrittenKey ==
  ASSUME NEW s \in System, NEW c \in Content,
         \A x \in System, v \in Value : Kept[x][v] \in {v, Null},
         HasKey(Written(s, Absent, c))
  PROVE  HasKey(c) /\ KeyOf(Written(s, Absent, c)) = KeyOf(c)
<1>1. \A f \in KeyField : Written(s, Absent, c)[f] = c[f]
  <2>1. SUFFICES ASSUME NEW f \in KeyField PROVE Written(s, Absent, c)[f] = c[f]
    OBVIOUS
  <2>2. f \in Field /\ c[f] \in Value BY ConstantsAssumption DEF Content
  <2>3. Written(s, Absent, c)[f] = IF f \in ReadOnly[s] THEN Null ELSE Kept[s][c[f]]
    BY <2>2 DEF Written
  <2>4. Written(s, Absent, c)[f] # Null BY DEF HasKey
  <2>5. QED BY <2>2, <2>3, <2>4
<1>2. HasKey(c) BY <1>1 DEF HasKey
<1>3. QED BY <1>1, <1>2 DEF KeyOf

\* What the key of every created record gives for a content.
LEMMA UsesApart ==
  ASSUME NEW w \in Worker, Worker = {w}, TypeInv, Apart, run[w] \in Execution,
         UNCHANGED <<crm, created>>, NEW k, Uses(w, k),
         k.ids[To(w)] = None =>
           \A q \in created : (q[1] = To(w) /\ Live(q[1], q[2]))
                              => ~SameKey(crm[q[1]][q[2]], run[w].content)
  PROVE  Apart'
<1>1. ASSUME NEW r \in Execution, run'[w] = r
      PROVE  NoTwinAhead(r)'
  <2>1. /\ r.source = run[w].source /\ r.content = run[w].content
        /\ r.link = k /\ r.winner = run[w].content
    BY <1>1, IdleAt DEF Uses
  <2>2. To(w) = Other(r.source[1]) BY <2>1, SourceType
  <2>3. QED BY <2>1, <2>2 DEF NoTwinAhead, Live
<1>2. \A v \in Worker : \A r \in Execution : run'[v] = r => NoTwinAhead(r)' BY <1>1
<1>3. QED BY <1>2 DEF Apart

\* A step after which no record is about to be created.
LEMMA ElsewhereApart ==
  ASSUME NEW w \in Worker, Worker = {w}, Apart,
         \A q \in created' : crm'[q[1]][q[2]] # Absent,
         \/ run'[w] = Idle
         \/ /\ run'[w] \in Execution
            /\ run'[w].at = "write" =>
                 run'[w].link.ids[Other(run'[w].source[1])] # None
  PROVE  Apart'
<1>1. \A v \in Worker : \A r \in Execution : run'[v] = r => NoTwinAhead(r)'
  BY IdleAt DEF NoTwinAhead
<1>2. QED BY <1>1 DEF Apart

\* Every step keeps creations apart from what was created before.
LEMMA ApartNext ==
  ASSUME NEW w \in Worker, Worker = {w}, TypeInv, Settled, Apart, [Next]_vars,
         [KeysStay]_vars
  PROVE  Apart'
<1>1. TypeOK /\ TypeInv' BY TypeNext DEF TypeInv
<1>2. \A q \in created : q \in Record BY <1>1 DEF TypeOK
<1>3. ASSUME UNCHANGED <<crm, created>>,
             \/ run'[w] = Idle
             \/ /\ run'[w] \in Execution
                /\ run'[w].at = "write" =>
                     run'[w].link.ids[Other(run'[w].source[1])] # None
      PROVE  Apart'
  BY <1>3, ElsewhereApart DEF Apart
<1>4. ASSUME run[w] \in Execution, Fail(w), UNCHANGED <<crm, created>>
      PROVE  Apart'
  BY <1>1, <1>3, <1>4, FailSteps
<1>5. CASE StartUpdate(w) \/ StartDelete(w)
  <2>1. /\ UNCHANGED <<crm, created>> /\ run'[w] \in Execution
        /\ run'[w].at \in {"read", "unlink"}
    BY <1>5, StartStep
  <2>2. QED BY <1>3, <2>1
<1>6. CASE Read(w)
  <2>1. /\ UNCHANGED <<crm, created>> /\ run[w] \in Execution
        /\ \/ Fail(w)
           \/ run'[w] \in Execution /\ run'[w].at = "find"
    BY <1>6, ReadStep
  <2>2. QED BY <1>3, <1>4, <2>1
<1>7. CASE FindBySource(w)
  <2>1. run[w] \in Execution /\ UNCHANGED <<crm, created>>
    BY <1>7, FindBySourceStep
  <2>2. /\ From(w) \in System /\ To(w) \in System /\ To(w) = Other(From(w))
    BY <2>1, SourceType
  <2>3. ASSUME NEW l \in LinkOf(From(w), Source(w)[2]), Uses(w, Load(l))
        PROVE  Apart'
    <3>1. l \in Link /\ side[l][From(w)] # None BY DEF LinkOf
    <3>2. side[l][To(w)] # None BY <2>2, <3>1 DEF Settled, BothSides
    <3>3. side[l][To(w)].id \in NativeId BY <1>1, <2>2, <3>1, <3>2, SideType
    <3>4. PICK k : k = Load(l) OBVIOUS
    <3>5. k.ids[To(w)] # None BY <2>2, <3>2, <3>3, <3>4, MarkersDiffer DEF Load
    <3>6. QED BY <2>1, <2>3, <3>4, <3>5, UsesApart
  <2>4. CASE run'[w] \in Execution /\ run'[w].at = "bykey"
    BY <1>3, <2>1, <2>4
  <2>5. CASE /\ ~HasKey(run[w].content)
             /\ Uses(w, NewLink(From(w), Source(w)[2], None, run[w].content))
    <3>1. \A c : ~SameKey(c, run[w].content) BY <2>5 DEF SameKey
    <3>2. PICK k : k = NewLink(From(w), Source(w)[2], None, run[w].content) OBVIOUS
    <3>3. QED BY <2>1, <2>5, <3>1, <3>2, UsesApart
  <2>6. QED BY <1>7, <2>3, <2>4, <2>5, FindBySourceStep
<1>8. CASE FindByKey(w)
  <2>1. run[w] \in Execution /\ run[w].at = "bykey" /\ UNCHANGED <<crm, created>>
    BY <1>8, FindByKeyStep
  <2>2. ASSUME NEW k \in LinkRecord, keyLink[KeyOf(run[w].content)] = k.id,
               k.ids[To(w)] = Load(k.id).ids[To(w)], Uses(w, k)
        PROVE  Apart'
    <3>1. To(w) \in System BY <2>1, SourceType
    <3>2. KeyOf(run[w].content) \in Key
      BY <2>1, KeyType DEF TypeInv, Progress, Sound, Holding
    <3>3. k.id \in Link BY DEF LinkRecord
    <3>4. side[k.id][To(w)] # None
      BY <2>2, <3>1, <3>2, <3>3, MarkersDiffer DEF Settled, KeysSaved
    <3>5. side[k.id][To(w)].id \in NativeId BY <1>1, <3>1, <3>3, <3>4, SideType
    <3>6. k.ids[To(w)] # None
      BY <2>2, <3>1, <3>4, <3>5, MarkersDiffer DEF Load
    <3>7. QED BY <2>1, <2>2, <3>6, UsesApart
  <2>3. CASE run'[w] \in Execution /\ run'[w].at = "search" BY <1>3, <2>1, <2>3
  <2>4. QED BY <1>8, <2>2, <2>3, FindByKeyStep
<1>9. CASE Search(w)
  <2>1. run[w] \in Execution /\ UNCHANGED <<crm, created>> BY <1>9, SearchStep
  <2>2. From(w) \in System /\ To(w) = Other(From(w)) /\ To(w) \in System
    BY <2>1, SourceType
  <2>3. CASE run'[w] = Idle BY <1>3, <2>1, <2>3
  <2>4. ASSUME NEW t \in NativeId \cup {None},
               t = None => Candidates(To(w), run[w].content) = {},
               Uses(w, NewLink(From(w), Source(w)[2], t, run[w].content))
        PROVE  Apart'
    <3>1. PICK k : k = NewLink(From(w), Source(w)[2], t, run[w].content) OBVIOUS
    <3>2. k.ids[To(w)] = t BY <2>2, <3>1, TwoSystems DEF NewLink
    <3>3. t = None => \A q \in created : (q[1] = To(w) /\ Live(q[1], q[2]))
                        => ~SameKey(crm[q[1]][q[2]], run[w].content)
      BY <1>2, <2>4 DEF Candidates, Record
    <3>4. QED BY <2>1, <2>4, <3>1, <3>2, <3>3, UsesApart
  <2>5. QED BY <1>9, <2>3, <2>4, SearchStep
<1>10. CASE ReadCounterpart(w) \/ RecordConflict(w)
  <2>1. /\ run[w] \in Execution /\ run[w].at \in {"counterpart", "conflict"}
        /\ UNCHANGED <<crm, created>>
        /\ \/ Fail(w)
           \/ /\ run'[w] \in Execution /\ run'[w].source = run[w].source
              /\ run'[w].link = run[w].link
    BY <1>10, CounterpartStep, ConflictStep
  <2>2. run[w].link.ids[Other(run[w].source[1])] \in NativeId
    BY <2>1 DEF TypeInv, Progress, Sound, Targeted
  <2>3. run[w].link.ids[Other(run[w].source[1])] # None BY <2>2, MarkersDiffer
  <2>4. QED BY <1>3, <1>4, <2>1, <2>3
<1>11. ASSUME NEW e \in Record, Wrote(w, e), run'[w].at \in {"writeback", "save"},
              created' \subseteq created \cup {e}
       PROVE  Apart'
  <2>1. \A q \in created' : crm'[q[1]][q[2]] # Absent
    <3>1. crm'[e[1]][e[2]] # Absent BY <1>11, MarkersDiffer DEF Wrote
    <3>2. \A q \in created : q # e => crm'[q[1]][q[2]] = crm[q[1]][q[2]]
      BY <1>2, <1>11 DEF Wrote, Record
    <3>3. QED BY <1>11, <3>1, <3>2 DEF Apart
  <2>2. QED BY <1>11, <2>1, ElsewhereApart DEF Wrote
<1>12. ASSUME NEW stage \in {"write", "rewrite"}, Update(w, stage)
       PROVE  Apart'
  <2>1. PICK t \in NativeId : WroteTarget(w, t) BY <1>12, UpdateStep
  <2>2. <<To(w), t>> \in Record /\ created' = created
    BY <1>12, UpdateStep, SourceType DEF Record
  <2>3. QED BY <1>11, <2>1, <2>2 DEF WroteTarget
<1>13. CASE Create(w)
  <2>1. PICK t \in NativeId :
          WroteTarget(w, t) /\ created' = created \cup {<<To(w), t>>}
    BY <1>13, CreateStep
  <2>2. <<To(w), t>> \in Record BY <1>13, CreateStep, SourceType DEF Record
  <2>3. QED BY <1>11, <2>1, <2>2 DEF WroteTarget
<1>14. CASE Heal(w)
  <2>1. /\ run'[w] \in Execution /\ run'[w].at = "rewrite"
        /\ UNCHANGED <<crm, created>>
    BY <1>14, HealStep
  <2>2. QED BY <1>3, <2>1
<1>15. CASE WriteFails(w) BY <1>4, <1>15, WriteFailsStep
<1>16. CASE WriteBack(w)
  <2>1. CASE Wrote(w, Source(w)) /\ run'[w].at = "save"
    <3>1. Source(w) \in Record /\ created' = created
      BY <1>16, WriteBackStep, SourceType
    <3>2. QED BY <1>11, <2>1, <3>1
  <2>2. CASE Fail(w) /\ UNCHANGED crm BY <1>4, <1>16, <2>2, WriteBackStep
  <2>3. QED BY <1>16, <2>1, <2>2, WriteBackStep
<1>17. CASE Save(w) BY <1>3, <1>4, <1>17, SaveStep
<1>18. CASE FindDoomed(w) BY <1>3, <1>18, DoomedStep
<1>19. CASE RemoveCounterpart(w)
  <2>1. CASE Fail(w) /\ UNCHANGED crm BY <1>4, <1>19, <2>1, RemoveStep
  <2>2. ASSUME NEW t \in NativeId, run'[w] = Idle, crm'[To(w)][t] = Deleted,
               \A x \in System, j \in NativeId :
                 <<x, j>> # <<To(w), t>> => crm'[x][j] = crm[x][j]
        PROVE  Apart'
    <3>1. created' = created BY <1>19, RemoveStep
    <3>2. \A q \in created' : crm'[q[1]][q[2]] # Absent
      BY <1>2, <2>2, <3>1, MarkersDiffer DEF Apart, Record
    <3>3. QED BY <2>2, <3>2, ElsewhereApart
  <2>3. QED BY <1>19, <2>1, <2>2, RemoveStep
<1>20. CASE Fault(w) BY <1>3, <1>20, FaultStep
<1>21. CASE Users
  <2>1. UNCHANGED <<run, created>> BY <1>21, UsersType
  <2>2. PICK s \in System, i \in NativeId : Edit(s, i) \/ Remove(s, i)
    BY <1>21 DEF Users
  <2>3. \A d \in Record : d # <<s, i>> => crm'[d[1]][d[2]] = crm[d[1]][d[2]]
    BY <1>1, <2>2 DEF Edit, Remove, Record, TypeOK
  <2>4. crm'[s][i] # Absent
    BY <1>1, <2>2, ConstantsAssumption, MarkersDiffer DEF Edit, Remove, TypeOK
  <2>5. \A q \in created' : crm'[q[1]][q[2]] # Absent
    BY <1>2, <2>1, <2>3, <2>4 DEF Apart, Record
  <2>6. ASSUME NEW q \in created, crm'[q[1]][q[2]] \notin {Absent, Deleted}
        PROVE  Live(q[1], q[2]) /\ \A c : SameKey(crm'[q[1]][q[2]], c)
                                            <=> SameKey(crm[q[1]][q[2]], c)
    <3>1. CASE q # <<s, i>>
      <4>1. crm'[q[1]][q[2]] = crm[q[1]][q[2]] BY <1>2, <2>3, <3>1
      <4>2. QED BY <2>6, <4>1 DEF Live
    <3>2. CASE q = <<s, i>>
      <4>1. ~Remove(s, i) BY <1>1, <2>6, <3>2 DEF Remove, TypeOK
      <4>2. Edit(s, i) BY <2>2, <4>1
      <4>3. Live(q[1], q[2]) BY <3>2, <4>2 DEF Edit, Live, Apart
      <4>4. edits' # edits
        <5>1. edits \in Nat /\ edits' = edits + 1
          BY <1>1, <4>2, ConstantsAssumption DEF Edit, TypeOK
        <5>2. QED BY <5>1
      <4>5. KeysStay BY <4>4 DEF vars, boundVars
      <4>6. KeyOf(crm'[q[1]][q[2]]) = KeyOf(crm[q[1]][q[2]])
        BY <4>3, <4>4, <4>5 DEF KeysStay
      <4>7. QED BY <4>3, <4>6, KeysAlike
    <3>3. QED BY <3>1, <3>2
  <2>7. ASSUME NEW r \in Execution, run'[w] = r
        PROVE  NoTwinAhead(r)'
    <3>1. NoTwinAhead(r) BY <2>1, <2>7 DEF Apart
    <3>2. QED BY <2>1, <2>6, <3>1 DEF NoTwinAhead, Live
  <2>8. \A v \in Worker : \A r \in Execution : run'[v] = r => NoTwinAhead(r)'
    BY <2>7
  <2>9. QED BY <2>5, <2>8 DEF Apart
<1>22. CASE UNCHANGED vars
  <2>1. UNCHANGED <<crm, created, run>> BY <1>22 DEF vars
  <2>2. \A v \in Worker : \A r \in Execution : run'[v] = r => NoTwinAhead(r)'
    BY <2>1 DEF Apart, NoTwinAhead, Live
  <2>3. QED BY <2>1, <2>2 DEF Apart
<1>23. QED
  <2>1. Step(w) => Apart'
    BY <1>5, <1>6, <1>7, <1>8, <1>9, <1>10, <1>12, <1>13, <1>14, <1>15, <1>16,
       <1>17, <1>18, <1>19
    DEF Step
  <2>2. QED BY <2>1, <1>20, <1>21, <1>22 DEF Next

\* With one worker, reconcile() never creates a record beside one of its own
\* with the same natural key, even when an earlier create was lost to it, as
\* long as users leave the keys of its records alone and the CRMs keep a key
\* as it was written.
THEOREM OneWorkerMakesNoTwin ==
  ASSUME NEW w \in Worker, Worker = {w},
         \A s \in System, v \in Value : Kept[s][v] \in {v, Null}
  PROVE  Spec /\ [][KeysStay]_vars => NoTwinCreated
<1>1. Init => Apart
  <2>1. Init => created = {} /\ \A v \in Worker : run[v] = Idle BY DEF Init
  <2>2. QED BY <2>1, IdleAt DEF Apart
<1>2. OneWorkerInv /\ Apart /\ [Next]_vars /\ [KeysStay]_vars => Apart'
  BY ApartNext DEF OneWorkerInv
<1>3. OneWorkerInv /\ Apart /\ [Next]_vars =>
        [\A r, q \in Record :
           (/\ r[1] = q[1] /\ r # q
            /\ r \in created' \ created
            /\ q \in created /\ Live(q[1], q[2]))
           => ~SameKey(crm'[r[1]][r[2]], crm[q[1]][q[2]])]_vars
  <2> SUFFICES ASSUME OneWorkerInv, Apart, Next, NEW r \in Record, NEW q \in Record,
                      r[1] = q[1], r \in created' \ created,
                      q \in created, Live(q[1], q[2])
               PROVE  ~SameKey(crm'[r[1]][r[2]], crm[q[1]][q[2]])
    BY DEF vars
  <2>1. TypeInv BY DEF OneWorkerInv
  <2>2. Create(w)
    <3>1. created' # created OBVIOUS
    <3>2. ~Users /\ ~Fault(w) BY <2>1, <3>1, UsersType, FaultStep
    <3>3. Step(w) BY <3>2 DEF Next
    <3>4. QED
      BY <2>1, <3>1, <3>3, StartStep, ReadStep, FindBySourceStep, FindByKeyStep,
         SearchStep, CounterpartStep, ConflictStep, UpdateStep, HealStep,
         WriteFailsStep, WriteBackStep, SaveStep, DoomedStep, RemoveStep
      DEF Step
  <2>3. PICK t \in NativeId :
          /\ crm'[To(w)][t] = Written(To(w), Absent, run[w].winner)
          /\ created' = created \cup {<<To(w), t>>}
    BY <2>1, <2>2, CreateStep
  <2>4. r[1] = To(w) /\ r[2] = t BY <2>3
  <2>5. /\ run[w] \in Execution /\ run[w].at = "write"
        /\ run[w].link.ids[To(w)] = None
    BY <2>1, <2>2, CreateStep
  <2>6. To(w) \in System /\ To(w) = Other(run[w].source[1]) BY <2>5, SourceType
  <2>7. PICK x \in Execution : x = run[w] BY <2>5
  <2>8. NoTwinAhead(x) BY <2>7 DEF Apart
  <2>9. /\ run[w].winner = run[w].content
        /\ ~SameKey(crm[q[1]][q[2]], run[w].content)
    BY <2>4, <2>5, <2>6, <2>7, <2>8 DEF NoTwinAhead
  <2>10. PICK c \in Content : c = run[w].content
    BY <2>1, <2>5 DEF TypeInv, Progress, Sound, Holding
  <2>11. crm'[r[1]][r[2]] = Written(To(w), Absent, c) BY <2>3, <2>4, <2>9, <2>10
  <2>12. SUFFICES ASSUME SameKey(Written(To(w), Absent, c), crm[q[1]][q[2]])
                  PROVE  FALSE
    BY <2>11
  <2>13. HasKey(c) /\ KeyOf(Written(To(w), Absent, c)) = KeyOf(c)
    BY <2>6, <2>12, WrittenKey DEF SameKey
  <2>14. SameKey(crm[q[1]][q[2]], c) BY <2>12, <2>13 DEF SameKey
  <2>15. QED BY <2>9, <2>10, <2>14
<1>4. Spec => []OneWorkerInv BY OneWorkerSpec
<1>5. QED BY <1>1, <1>2, <1>3, <1>4, PTL DEF Spec, NoTwinCreated

-----------------------------------------------------------------------------
(* One worker: echoes are dropped *)

\* Both CRMs take every mapped field and keep it as it was written.
AsWritten == \A s \in System : ReadOnly[s] = {} /\ \A v \in Value : Kept[s][v] = v

\* Users leave the keys of existing records alone, and an execution that has
\* written is not cut short: no call fails and no process dies between its
\* first write and the end, and users do not delete the record it is about.
Undisturbed ==
  /\ edits' # edits =>
       \A e \in Record : Live(e[1], e[2]) =>
         KeyOf(crm'[e[1]][e[2]]) = KeyOf(crm[e[1]][e[2]])
  /\ faults' # faults => \A w \in Worker : ~At(w, "writeback") /\ ~At(w, "save")
  /\ \A w \in Worker :
       (run[w] \in Execution /\ Live(From(w), Source(w)[2]))
       => crm'[From(w)][Source(w)[2]] # Deleted

\* Where the CRM says so, no two records have one key.
Distinct ==
  \A s \in UniqueKey : \A i, j \in NativeId :
    (Live(s, i) /\ Live(s, j) /\ SameKey(crm[s][i], crm[s][j])) => i = j

\* The two sides of a link have the key that was hashed, and it leads to the
\* link.
LinksKeyed ==
  /\ \A l \in Link, s \in System : side[l][s] # None =>
       /\ crm[s][side[l][s].id] # Absent
       /\ Live(s, side[l][s].id) =>
            KeyOf(crm[s][side[l][s].id]) = KeyOf(side[l][s].hash)
       /\ HasKey(side[l][s].hash) =>
            KeyOf(side[l][s].hash) \in Key /\ keyLink[KeyOf(side[l][s].hash)] = l
  /\ \A k \in Key : keyLink[k] # None =>
       \A s \in System : KeyOf(side[keyLink[k]][s].hash) = k

\* An execution has written to e, or is about to, and will save its hash.
Writing(e) ==
  \E v \in Worker :
    /\ run[v] \in Execution /\ run[v].at \in {"writeback", "save"}
    /\ e \in {Source(v), <<To(v), run[v].link.ids[To(v)]>>}

\* The recorded hash of a record that a worker wrote last is what it holds.
EchoesKnown ==
  \A l \in Link, s \in System :
    (/\ side[l][s] # None /\ Live(s, side[l][s].id)
     /\ <<s, side[l][s].id>> \in byUs /\ ~Writing(<<s, side[l][s].id>>))
    => side[l][s].hash = crm[s][side[l][s].id]

\* What an execution has read is there, unless a user changed it, who left
\* its key.
ReadTrue(r) ==
  LET here == crm[r.source[1]][r.source[2]]
  IN /\ Live(r.source[1], r.source[2]) /\ KeyOf(here) = KeyOf(r.content)
     /\ r.source \in byUs =>
          here = IF r.at = "save" THEN r.winner ELSE r.content

\* The link in hand takes no record and no key from another, and its
\* counterpart has the key of the source.  An echo has no link yet.
LinkTrue(r) ==
  LET link == r.link  o == Other(r.source[1])
  IN /\ KeyOf(r.winner) = KeyOf(r.content)
     /\ r.echo => LinkOf(r.source[1], r.source[2]) = {}
     /\ \A x \in System : link.ids[x] # None =>
          LinkOf(x, link.ids[x]) \subseteq {link.id}
     /\ \A k \in link.keys : k = KeyOf(r.content) /\ keyLink[k] \in {None, link.id}
     /\ \A k \in Key : keyLink[k] = link.id => k \in link.keys
     /\ HasKey(r.content) => KeyOf(r.content) \in link.keys
     /\ link.ids[o] # None =>
          /\ crm[o][link.ids[o]] # Absent
          /\ Live(o, link.ids[o]) => KeyOf(crm[o][link.ids[o]]) = KeyOf(r.content)

\* What was written to the counterpart is there, unless a user changed it.
WriteTrue(r) ==
  LET o == Other(r.source[1])
  IN (<<o, r.link.ids[o]>> \in byUs /\ Live(o, r.link.ids[o]))
     => crm[o][r.link.ids[o]] = r.winner

Known(r) ==
  /\ r.at \in Holding => ReadTrue(r)
  /\ r.at = "find" => \A l \in LinkOf(r.source[1], r.source[2]) :
       /\ KeyOf(side[l][r.source[1]].hash) = KeyOf(r.content)
       /\ r.echo => side[l][r.source[1]].hash = r.content
  /\ r.at = "search" => keyLink[KeyOf(r.content)] = None
  /\ r.at \in Linking => LinkTrue(r)
  /\ r.at \in {"writeback", "save"} => WriteTrue(r)

Echoing ==
  /\ Distinct /\ LinksKeyed /\ EchoesKnown
  /\ \A v \in Worker : \A r \in Execution : run[v] = r => Known(r)

\* What is written is what is read.
LEMMA WrittenAsIs ==
  ASSUME AsWritten, NEW s \in System, NEW old, NEW c \in Content
  PROVE  Written(s, old, c) = c
<1>1. \A f \in Field : c[f] \in Value BY DEF Content
<1>2. \A f \in Field : (IF f \in ReadOnly[s]
                        THEN IF old = Absent THEN Null ELSE old[f]
                        ELSE Kept[s][c[f]]) = c[f]
  BY <1>1 DEF AsWritten
<1>3. c = [f \in Field |-> c[f]] BY DEF Content
<1>4. QED BY <1>2, <1>3 DEF Written

\* Whether there is a key, and whose it is, is told by KeyOf.
LEMMA KeyDecides ==
  ASSUME NEW c, NEW d, KeyOf(c) = KeyOf(d)
  PROVE  /\ HasKey(c) <=> HasKey(d)
         /\ HasKey(c) => SameKey(c, d) /\ SameKey(d, c)
<1>1. \A f \in KeyField : c[f] = d[f]
  <2>1. \A f \in KeyField : KeyOf(c)[f] = c[f] /\ KeyOf(d)[f] = d[f] BY DEF KeyOf
  <2>2. QED BY <2>1
<1>2. HasKey(c) <=> HasKey(d) BY <1>1 DEF HasKey
<1>3. QED BY <1>2 DEF SameKey

\* The winner of a conflict between two records of one key has that key.
LEMMA WinnerKey ==
  ASSUME NEW w, NEW p \in Content, NEW q \in Content, KeyOf(p) = KeyOf(q),
         NEW c \in Winners(w, p, q)
  PROVE  KeyOf(c) = KeyOf(p)
<1>1. \A f \in KeyField : p[f] = q[f] /\ f \in Field
  <2>1. \A f \in KeyField : KeyOf(p)[f] = p[f] /\ KeyOf(q)[f] = q[f] BY DEF KeyOf
  <2>2. QED BY <2>1, ConstantsAssumption
<1>2. KeyOf(Merge(p, q)) = KeyOf(p) /\ KeyOf(Merge(q, p)) = KeyOf(p)
  BY <1>1 DEF KeyOf, Merge
<1>3. c \in {p, q, Merge(p, q), Merge(q, p)}
  BY ConstantsAssumption DEF Winners
<1>4. QED BY <1>2, <1>3

LEMMA KnownNow ==
  ASSUME NEW w \in Worker, Echoing, run[w] \in Execution
  PROVE  Known(run[w])
<1>1. PICK r \in Execution : r = run[w] OBVIOUS
<1>2. QED BY <1>1 DEF Echoing

LEMMA EchoInit == Init => Echoing
<1> SUFFICES ASSUME Init PROVE Echoing OBVIOUS
<1>1. \A s \in System, i \in NativeId : ~Live(s, i) BY DEF Init, Live
<1>2. \A l \in Link, s \in System : side[l][s] = None BY DEF Init
<1>3. \A k \in Key : keyLink[k] = None BY DEF Init
<1>4. \A v \in Worker : run[v] \notin Execution BY IdleAt DEF Init
<1>5. UniqueKey \subseteq System BY ConstantsAssumption
<1>6. QED BY <1>1, <1>2, <1>3, <1>4, <1>5
      DEF Echoing, Distinct, LinksKeyed, EchoesKnown

\* What is known of an execution depends on records, links and history only.
LEMMA KnownSame ==
  ASSUME NEW r, Known(r), UNCHANGED <<crm, side, keyLink, byUs>>
  PROVE  Known(r)'
BY DEF Known, ReadTrue, LinkTrue, WriteTrue, Live, LinkOf

\* A step that changes no record and no link, before anything was written.
LEMMA EchoOn ==
  ASSUME NEW w \in Worker, Worker = {w}, Echoing,
         UNCHANGED <<crm, side, keyLink, byUs>>,
         run[w] \in Execution => run[w].at \notin {"writeback", "save"},
         \/ run'[w] = Idle
         \/ run'[w] \in Execution /\ Known(run'[w])
  PROVE  Echoing'
<1>1. Distinct' BY DEF Echoing, Distinct, Live
<1>2. LinksKeyed' BY DEF Echoing, LinksKeyed, Live
<1>3. EchoesKnown'
  <2>1. \A e : ~Writing(e) BY DEF Writing
  <2>2. QED BY <2>1 DEF Echoing, EchoesKnown, Live
<1>4. ASSUME NEW v \in Worker, NEW r \in Execution, run'[v] = r
      PROVE  Known(r)'
  <2>1. v = w /\ Known(r) BY <1>4, IdleAt
  <2>2. QED BY <2>1, KnownSame
<1>5. QED BY <1>1, <1>2, <1>3, <1>4 DEF Echoing

\* Starting and reading.
LEMMA ReadEchoes ==
  ASSUME NEW w \in Worker, Worker = {w}, TypeInv, Echoing,
         StartUpdate(w) \/ StartDelete(w) \/ Read(w)
  PROVE  Echoing'
<1>1. CASE StartUpdate(w) \/ StartDelete(w)
  <2>1. /\ UNCHANGED <<crm, side, keyLink>> /\ run[w] = Idle
        /\ run'[w] \in Execution /\ run'[w].at \in {"read", "unlink"}
    BY <1>1, StartStep
  <2>2. byUs' = byUs BY <1>1 DEF StartUpdate, StartDelete
  <2>3. Known(run'[w]) BY <2>1 DEF Known, Holding, Linking
  <2>4. QED BY <2>1, <2>2, <2>3, IdleAt, EchoOn
<1>2. CASE Read(w)
  <2>1. /\ UNCHANGED <<crm, side, keyLink>> /\ run[w] \in Execution
        /\ run[w].at = "read" /\ byUs' = byUs
    BY <1>2, ReadStep DEF Read, At
  <2>2. CASE Fail(w)
    <3>1. run'[w] = Idle BY <2>1, <2>2, FailSteps DEF TypeInv
    <3>2. QED BY <2>1, <3>1, EchoOn
  <2>3. CASE /\ run'[w] \in Execution
             /\ run'[w].at = "find" /\ run'[w].source = run[w].source
             /\ run'[w].content = crm[From(w)][Source(w)[2]]
             /\ Live(From(w), Source(w)[2])
             /\ run'[w].echo => Source(w) \in byUs
    <3>1. PICK s \in System, i \in NativeId :
            run[w].source = <<s, i>> /\ From(w) = s /\ Source(w)[2] = i
      BY <2>1, SourceType DEF Source
    <3>2. ASSUME NEW l \in LinkOf(s, i)
          PROVE  /\ KeyOf(side[l][s].hash) = KeyOf(crm[s][i])
                 /\ <<s, i>> \in byUs => side[l][s].hash = crm[s][i]
      <4>1. l \in Link /\ side[l][s] # None /\ side[l][s].id = i BY DEF LinkOf
      <4>2. Live(s, side[l][s].id) BY <2>3, <3>1, <4>1
      <4>3. \A e : ~Writing(e) BY <2>1 DEF Writing
      <4>4. QED BY <4>1, <4>2, <4>3 DEF Echoing, LinksKeyed, EchoesKnown
    <3>3. PICK r \in Execution : r = run'[w] BY <2>3
    <3>4. /\ r.at = "find" /\ r.source = <<s, i>> /\ r.content = crm[s][i]
          /\ Live(s, i) /\ (r.echo => <<s, i>> \in byUs)
      BY <2>3, <3>1, <3>3 DEF Source
    <3>5. Known(r)
      BY <3>2, <3>4 DEF Known, ReadTrue, Linking
    <3>6. QED BY <2>1, <3>3, <3>5, EchoOn
  <2>4. QED BY <1>2, <2>2, <2>3, ReadStep
<1>3. QED BY <1>1, <1>2

\* With link k in hand.
LEMMA UsesEchoes ==
  ASSUME NEW w \in Worker, Worker = {w}, TypeInv, Echoing, run[w] \in Execution,
         run[w].at \in {"find", "bykey", "search"},
         UNCHANGED <<crm, side, keyLink, byUs>>, NEW k \in LinkRecord, Uses(w, k),
         ~IsEcho(w, k) /\ run[w].echo => LinkOf(From(w), Source(w)[2]) = {},
         \A x \in System : k.ids[x] # None => LinkOf(x, k.ids[x]) \subseteq {k.id},
         \A y \in k.keys : y = KeyOf(run[w].content) /\ keyLink[y] \in {None, k.id},
         \A y \in Key : keyLink[y] = k.id => y \in k.keys,
         HasKey(run[w].content) => KeyOf(run[w].content) \in k.keys,
         k.ids[To(w)] # None =>
           /\ crm[To(w)][k.ids[To(w)]] # Absent
           /\ Live(To(w), k.ids[To(w)]) =>
                KeyOf(crm[To(w)][k.ids[To(w)]]) = KeyOf(run[w].content)
  PROVE  Echoing'
<1>1. CASE run'[w] = Idle BY <1>1, EchoOn
<1>2. CASE run'[w] \in Execution
  <2>1. PICK r \in Execution : r = run'[w] BY <1>2
  <2>2. /\ ~IsEcho(w, k) /\ r.at \in {"write", "counterpart"}
        /\ r.source = run[w].source /\ r.content = run[w].content
        /\ r.link = k /\ r.winner = run[w].content /\ r.echo = run[w].echo
    BY <1>2, <2>1, IdleAt DEF Uses
  <2>3. /\ Other(r.source[1]) = To(w) /\ r.source[1] = From(w)
        /\ r.source[2] = Source(w)[2]
    BY <2>2, SourceType DEF Source
  <2>4. ReadTrue(run[w]) BY KnownNow DEF Known, Holding
  <2>5. ReadTrue(r) BY <2>2, <2>4 DEF ReadTrue
  <2>6. LinkTrue(r) BY <2>2, <2>3 DEF LinkTrue
  <2>7. Known(r) BY <2>2, <2>5, <2>6 DEF Known
  <2>8. QED BY <2>1, <2>7, EchoOn
<1>3. QED BY <1>1, <1>2 DEF Uses

\* What link l, loaded, is to a record that holds c.
Loaded(k, l, c) ==
  /\ k = Load(l) /\ k.id = l
  /\ \A s \in System :
       /\ k.ids[s] = side[l][s].id /\ k.hashes[s] = side[l][s].hash
       /\ LinkOf(s, k.ids[s]) = {l}
       /\ crm[s][k.ids[s]] # Absent
       /\ Live(s, k.ids[s]) => KeyOf(crm[s][k.ids[s]]) = KeyOf(c)
  /\ \A y \in k.keys : y = KeyOf(c) /\ keyLink[y] = l
  /\ \A y \in Key : keyLink[y] = l => y \in k.keys
  /\ HasKey(c) => KeyOf(c) \in k.keys

LEMMA LoadedLink ==
  ASSUME TypeInv, Settled, Echoing, NEW l \in Link, NEW c \in Content,
         \A s \in System : side[l][s] # None /\ KeyOf(side[l][s].hash) = KeyOf(c)
  PROVE  \E k \in LinkRecord : Loaded(k, l, c)
<1>1. TypeOK BY DEF TypeInv
<1>2. PICK k \in LinkRecord :
      /\ k = Load(l) /\ k.id = l
      /\ \A s \in System : /\ k.ids[s] = side[l][s].id
                           /\ k.hashes[s] = side[l][s].hash
      /\ k.keys = {y \in Key : keyLink[y] = l}
  BY <1>1, LoadType DEF Load
<1>3. ASSUME NEW s \in System
      PROVE  /\ side[l][s].id \in NativeId
             /\ LinkOf(s, side[l][s].id) = {l}
             /\ crm[s][side[l][s].id] # Absent
             /\ Live(s, side[l][s].id) => KeyOf(crm[s][side[l][s].id]) = KeyOf(c)
  <2>1. side[l][s].id \in NativeId BY <1>1, SideType
  <2>2. LinkOf(s, side[l][s].id) = {l} BY DEF LinkOf, Settled, OneLink
  <2>3. QED BY <2>1, <2>2 DEF Echoing, LinksKeyed
<1>4. ASSUME NEW y \in Key, keyLink[y] = l PROVE y = KeyOf(c)
  <2>1. keyLink[y] # None BY <1>4, MarkersDiffer
  <2>2. "hubspot" \in System BY DEF System
  <2>3. QED BY <1>4, <2>1, <2>2 DEF Echoing, LinksKeyed
<1>5. ASSUME HasKey(c) PROVE KeyOf(c) \in Key /\ keyLink[KeyOf(c)] = l
  <2>1. PICK s \in System : TRUE BY DEF System
  <2>2. HasKey(side[l][s].hash) BY <1>5, KeyDecides
  <2>3. QED BY <1>5, <2>2, KeyType DEF Echoing, LinksKeyed
<1>6. QED BY <1>2, <1>3, <1>4, <1>5 DEF Loaded

\* What a new link is to a record that holds c and has none.
Fresh(k, s, i, t, c) ==
  /\ k = NewLink(s, i, t, c) /\ k.ids[s] = i /\ k.ids[Other(s)] = t
  /\ k.hashes[s] = None
  /\ \A x \in System : k.ids[x] # None => LinkOf(x, k.ids[x]) = {}
  /\ \A y \in k.keys : y = KeyOf(c) /\ keyLink[y] = None
  /\ \A y \in Key : keyLink[y] # k.id
  /\ HasKey(c) => KeyOf(c) \in k.keys
  /\ t # None => /\ crm[Other(s)][t] # Absent
                 /\ KeyOf(crm[Other(s)][t]) = KeyOf(c)

LEMMA FreshLink ==
  ASSUME TypeInv, Settled, Echoing, NEW s \in System, NEW i \in NativeId,
         NEW t \in NativeId \cup {None}, NEW c \in Content, Unused # {},
         LinkOf(s, i) = {}, HasKey(c) => keyLink[KeyOf(c)] = None,
         t # None => t \in Candidates(Other(s), c)
  PROVE  \E k \in LinkRecord : Fresh(k, s, i, t, c)
<1>1. PICK k \in LinkRecord :
        /\ k = NewLink(s, i, t, c) /\ k.ids[s] = i /\ k.ids[Other(s)] = t
        /\ k.hashes[s] = None /\ k.id \in Unused
  BY NewLinkType
<1>2. k.keys = IF HasKey(c) THEN {KeyOf(c)} ELSE {} BY <1>1 DEF NewLink
<1>3. ASSUME t # None
      PROVE  /\ LinkOf(Other(s), t) = {} /\ crm[Other(s)][t] # Absent
             /\ KeyOf(crm[Other(s)][t]) = KeyOf(c)
  <2>1. /\ Other(s) \in System /\ Live(Other(s), t)
        /\ SameKey(crm[Other(s)][t], c)
    BY <1>3, TwoSystems DEF Candidates
  <2>2. HasKey(c) /\ KeyOf(crm[Other(s)][t]) = KeyOf(c) BY <2>1 DEF SameKey
  <2>3. ASSUME NEW l \in LinkOf(Other(s), t) PROVE FALSE
    <3>1. /\ l \in Link /\ side[l][Other(s)] # None
          /\ side[l][Other(s)].id = t
      BY DEF LinkOf
    <3>2. KeyOf(side[l][Other(s)].hash) = KeyOf(c)
      BY <2>1, <2>2, <3>1 DEF Echoing, LinksKeyed
    <3>3. keyLink[KeyOf(c)] = l
      BY <2>1, <2>2, <3>1, <3>2, KeyDecides DEF Echoing, LinksKeyed
    <3>4. QED BY <2>2, <3>1, <3>3, MarkersDiffer
  <2>4. QED BY <2>1, <2>2, <2>3 DEF Live
<1>4. ASSUME NEW x \in System, k.ids[x] # None PROVE LinkOf(x, k.ids[x]) = {}
  BY <1>1, <1>3, <1>4, TwoSystems
<1>5. ASSUME NEW y \in Key, keyLink[y] = k.id PROVE FALSE
  <2>1. k.id \in Link /\ ~Saved(k.id) BY <1>1 DEF Unused
  <2>2. keyLink[y] # None BY <1>5, <2>1, MarkersDiffer
  <2>3. QED BY <1>5, <2>1, <2>2 DEF Settled, KeysSaved, Saved, System
<1>6. QED BY <1>1, <1>2, <1>3, <1>4, <1>5 DEF Fresh

\* bySource(): a hash that is the content is an echo, and is dropped.
LEMMA FindEchoes ==
  ASSUME NEW w \in Worker, Worker = {w}, TypeInv, Settled, Echoing, FindBySource(w)
  PROVE  Echoing'
<1>1. /\ run[w] \in Execution /\ run[w].at = "find"
      /\ UNCHANGED <<crm, side, keyLink, byUs>>
  BY FindBySourceStep DEF FindBySource, At
<1>2. PICK s \in System, i \in NativeId :
        /\ From(w) = s /\ Source(w)[2] = i /\ To(w) = Other(s)
        /\ run[w].source[1] = s /\ run[w].source[2] = i
  BY <1>1, SourceType DEF Source
<1>3. PICK c \in Content : c = run[w].content
  BY <1>1 DEF TypeInv, Progress, Sound, Holding
<1>4. Known(run[w]) BY <1>1, KnownNow
<1>5. /\ run[w].at \in {"find", "bykey", "search"}
      /\ Other(s) \in System /\ \A x \in System : x = s \/ x = Other(s)
  BY <1>1, TwoSystems
<1>6. ASSUME NEW l \in LinkOf(s, i), Uses(w, Load(l))
      PROVE  Echoing'
  <2>1. l \in Link /\ side[l][s] # None BY DEF LinkOf
  <2>2. KeyOf(side[l][s].hash) = KeyOf(c) /\ (run[w].echo => side[l][s].hash = c)
    BY <1>1, <1>2, <1>3, <1>4 DEF Known
  <2>3. \A x \in System : side[l][x] # None /\ side[l][x].hash = side[l][s].hash
    BY <1>5, <2>1 DEF Settled, BothSides
  <2>4. \A x \in System : side[l][x] # None /\ KeyOf(side[l][x].hash) = KeyOf(c)
    BY <2>2, <2>3
  <2>5. PICK k \in LinkRecord : Loaded(k, l, c)
    <3>1. PICK m \in Link : m = l BY <2>1
    <3>2. \A x \in System : side[m][x] # None /\ KeyOf(side[m][x].hash) = KeyOf(c)
      BY <2>4, <3>1
    <3>3. QED BY <3>1, <3>2, LoadedLink
  <2>6. run[w].echo => IsEcho(w, k) BY <1>2, <1>3, <2>2, <2>5 DEF IsEcho, Loaded
  <2>7. /\ Uses(w, k) /\ From(w) = s /\ To(w) = Other(s)
        /\ run[w].content = c
    BY <1>2, <1>3, <1>6, <2>5 DEF Loaded
  <2>8. /\ ~IsEcho(w, k) /\ run[w].echo => LinkOf(s, i) = {}
        /\ \A x \in System : k.ids[x] # None => LinkOf(x, k.ids[x]) \subseteq {k.id}
        /\ \A y \in k.keys : y = KeyOf(c) /\ keyLink[y] \in {None, k.id}
        /\ \A y \in Key : keyLink[y] = k.id => y \in k.keys
        /\ HasKey(c) => KeyOf(c) \in k.keys
        /\ crm[Other(s)][k.ids[Other(s)]] # Absent
        /\ Live(Other(s), k.ids[Other(s)]) =>
             KeyOf(crm[Other(s)][k.ids[Other(s)]]) = KeyOf(c)
    BY <1>5, <2>5, <2>6 DEF Loaded
  <2>9. QED
    BY <1>1, <1>2, <1>5, <2>7, <2>8, UsesEchoes
<1>7. CASE /\ LinkOf(From(w), Source(w)[2]) = {}
           /\ run'[w] \in Execution /\ run'[w].at = "bykey"
           /\ run'[w].source = run[w].source /\ run'[w].content = run[w].content
  <2>1. ReadTrue(run'[w])
    BY <1>1, <1>4, <1>7 DEF Known, ReadTrue, Holding
  <2>2. Known(run'[w]) BY <1>7, <2>1 DEF Known, Linking
  <2>3. QED BY <1>1, <1>7, <2>2, EchoOn
<1>8. CASE /\ LinkOf(s, i) = {} /\ Unused # {} /\ ~HasKey(c)
           /\ Uses(w, NewLink(s, i, None, c))
  <2>1. PICK k \in LinkRecord : Fresh(k, s, i, None, c)
    <3>1. PICK t \in NativeId \cup {None} : t = None OBVIOUS
    <3>2. Unused # {} /\ LinkOf(s, i) = {} /\ ~HasKey(c) BY <1>8
    <3>3. QED BY <3>1, <3>2, FreshLink
  <2>2. QED BY <1>1, <1>2, <1>3, <1>5, <1>8, <2>1, UsesEchoes DEF Fresh
<1>9. LinkOf(s, i) = {} \/ \E l \in LinkOf(s, i) : TRUE OBVIOUS
<1>10. QED
  <2>1. \/ \E l \in LinkOf(s, i) : Uses(w, Load(l))
        \/ /\ LinkOf(s, i) = {}
           /\ run'[w] \in Execution /\ run'[w].at = "bykey"
           /\ run'[w].source = run[w].source /\ run'[w].content = run[w].content
        \/ /\ Unused # {} /\ ~HasKey(c) /\ LinkOf(s, i) = {}
           /\ Uses(w, NewLink(s, i, None, c))
    BY <1>2, <1>3, FindBySourceStep
  <2>2. QED BY <1>2, <1>6, <1>7, <1>8, <2>1

\* byNaturalKey()
LEMMA KeyEchoes ==
  ASSUME NEW w \in Worker, Worker = {w}, TypeInv, Settled, Echoing, FindByKey(w)
  PROVE  Echoing'
<1>1. /\ run[w] \in Execution /\ run[w].at = "bykey"
      /\ UNCHANGED <<crm, side, keyLink, byUs>>
  BY FindByKeyStep DEF FindByKey
<1>2. PICK s \in System, i \in NativeId :
        /\ From(w) = s /\ Source(w)[2] = i /\ To(w) = Other(s)
        /\ run[w].source[1] = s /\ run[w].source[2] = i
  BY <1>1, SourceType DEF Source
<1>3. PICK c \in Content : c = run[w].content /\ HasKey(c)
  BY <1>1 DEF TypeInv, Progress, Sound, Holding
<1>4. Known(run[w]) /\ LinkOf(s, i) = {}
  BY <1>1, <1>2, KnownNow, InStepNow DEF InStep
<1>5. /\ run[w].at \in {"find", "bykey", "search"} /\ KeyOf(c) \in Key
      /\ Other(s) \in System /\ Other(s) # s
      /\ \A x \in System : x = s \/ x = Other(s)
  BY <1>1, <1>3, TwoSystems, KeyType
<1>6. ASSUME NEW k \in LinkRecord, keyLink[KeyOf(c)] = k.id, k.ids[s] = i,
             k.ids[Other(s)] = Load(k.id).ids[Other(s)],
             k.keys = Load(k.id).keys \cup {KeyOf(c)}, Uses(w, k)
      PROVE  Echoing'
  <2>1. PICK l \in Link : l = k.id BY DEF LinkRecord
  <2>2. keyLink[KeyOf(c)] = l /\ l # None BY <1>6, <2>1, MarkersDiffer
  <2>3. \A x \in System : side[l][x] # None /\ KeyOf(side[l][x].hash) = KeyOf(c)
    BY <1>5, <2>2 DEF Settled, KeysSaved, Echoing, LinksKeyed
  <2>5. PICK m \in LinkRecord : Loaded(m, l, c) BY <2>3, LoadedLink
  <2>6. k.ids[Other(s)] = m.ids[Other(s)] /\ k.keys = m.keys \cup {KeyOf(c)}
    BY <1>6, <2>1, <2>5 DEF Loaded
  <2>7. \A x \in System : k.ids[x] # None => LinkOf(x, k.ids[x]) \subseteq {k.id}
    BY <1>4, <1>5, <1>6, <2>1, <2>5, <2>6 DEF Loaded
  <2>8. /\ \A y \in k.keys : y = KeyOf(c) /\ keyLink[y] \in {None, k.id}
        /\ \A y \in Key : keyLink[y] = k.id => y \in k.keys
        /\ HasKey(c) => KeyOf(c) \in k.keys
    BY <2>1, <2>2, <2>5, <2>6 DEF Loaded
  <2>9. /\ crm[Other(s)][k.ids[Other(s)]] # Absent
        /\ Live(Other(s), k.ids[Other(s)]) =>
             KeyOf(crm[Other(s)][k.ids[Other(s)]]) = KeyOf(c)
    BY <1>5, <2>5, <2>6 DEF Loaded
  <2>10. QED
    BY <1>1, <1>2, <1>3, <1>4, <1>5, <1>6, <2>7, <2>8, <2>9, UsesEchoes
<1>7. CASE /\ keyLink[KeyOf(c)] = None
           /\ run'[w] \in Execution /\ run'[w].at = "search"
           /\ run'[w].source = run[w].source /\ run'[w].content = run[w].content
  <2>1. ReadTrue(run'[w])
    BY <1>1, <1>4, <1>7 DEF Known, ReadTrue, Holding
  <2>2. Known(run'[w]) BY <1>3, <1>7, <2>1 DEF Known, Linking
  <2>3. QED BY <1>1, <1>7, <2>2, EchoOn
<1>8. QED BY <1>2, <1>3, <1>6, <1>7, FindByKeyStep

\* findByNaturalKey()
LEMMA SearchEchoes ==
  ASSUME NEW w \in Worker, Worker = {w}, TypeInv, Settled, Echoing, Search(w)
  PROVE  Echoing'
<1>1. /\ run[w] \in Execution /\ run[w].at = "search"
      /\ UNCHANGED <<crm, side, keyLink, byUs>>
  BY SearchStep DEF Search
<1>2. PICK s \in System, i \in NativeId :
        /\ From(w) = s /\ Source(w)[2] = i /\ To(w) = Other(s)
        /\ run[w].source[1] = s /\ run[w].source[2] = i
  BY <1>1, SourceType DEF Source
<1>3. PICK c \in Content : c = run[w].content
  BY <1>1 DEF TypeInv, Progress, Sound, Holding
<1>4. LinkOf(s, i) = {} /\ keyLink[KeyOf(c)] = None
  BY <1>1, <1>2, <1>3, KnownNow, InStepNow DEF InStep, Known
<1>5. run[w].at \in {"find", "bykey", "search"} /\ Other(s) \in System
  BY <1>1, TwoSystems
<1>6. CASE run'[w] = Idle BY <1>1, <1>6, EchoOn
<1>7. ASSUME NEW t \in NativeId \cup {None}, Unused # {},
             t # None => t \in Candidates(Other(s), c),
             Uses(w, NewLink(s, i, t, c))
      PROVE  Echoing'
  <2>1. PICK k \in LinkRecord : Fresh(k, s, i, t, c)
    BY <1>4, <1>7, FreshLink
  <2>2. QED BY <1>1, <1>2, <1>3, <1>4, <1>5, <1>7, <2>1, UsesEchoes DEF Fresh
<1>8. QED BY <1>2, <1>3, <1>6, <1>7, SearchStep

\* The stages from the counterpart to the write keep what was read.
LEMMA OnEchoes ==
  ASSUME NEW w \in Worker, Worker = {w}, Echoing, run[w] \in Execution,
         run[w].at \in {"counterpart", "conflict", "write"},
         UNCHANGED <<crm, side, keyLink, byUs>>,
         NEW r \in Execution, run'[w] = r, r.at \in {"conflict", "write", "rewrite"},
         r.source = run[w].source, r.content = run[w].content, LinkTrue(r)
  PROVE  Echoing'
<1>1. ReadTrue(run[w]) BY KnownNow DEF Known, Holding
<1>2. ReadTrue(r) BY <1>1 DEF ReadTrue
<1>3. Known(r) BY <1>2 DEF Known
<1>4. QED BY <1>3, EchoOn

\* Reading the counterpart: the winner has the key both have.
LEMMA CounterpartEchoes ==
  ASSUME NEW w \in Worker, Worker = {w}, TypeInv, Echoing, ReadCounterpart(w)
  PROVE  Echoing'
<1>1. /\ run[w] \in Execution /\ run[w].at = "counterpart"
      /\ UNCHANGED <<crm, side, keyLink, byUs>>
  BY CounterpartStep DEF ReadCounterpart
<1>2. PICK r \in Execution :
        /\ r = run'[w] /\ r.at \in {"conflict", "write"}
        /\ r.source = run[w].source /\ r.content = run[w].content
        /\ r.link = run[w].link /\ r.echo = run[w].echo
        /\ \/ r.winner = run[w].winner
           \/ \E t \in NativeId :
                /\ t = run[w].link.ids[To(w)] /\ Live(To(w), t)
                /\ r.winner \in Winners(w, run[w].content, crm[To(w)][t])
  BY CounterpartStep
<1>3. PICK o \in System : o = To(w) /\ o = Other(run[w].source[1])
  BY <1>1, SourceType
<1>4. LinkTrue(run[w]) BY <1>1, KnownNow DEF Known, Linking
<1>5. PICK c \in Content : c = run[w].content
  BY <1>1 DEF TypeInv, Progress, Sound, Holding
<1>6. KeyOf(r.winner) = KeyOf(c)
  <2>1. CASE r.winner = run[w].winner BY <1>4, <1>5, <2>1 DEF LinkTrue
  <2>2. ASSUME NEW t \in NativeId, t = run[w].link.ids[o], Live(o, t),
               r.winner \in Winners(w, c, crm[o][t])
        PROVE  KeyOf(r.winner) = KeyOf(c)
    <3>1. PICK d \in Content : d = crm[o][t]
      BY <2>2 DEF TypeInv, TypeOK, Live
    <3>2. KeyOf(d) = KeyOf(c)
      BY <1>3, <1>4, <1>5, <2>2, <3>1, MarkersDiffer DEF LinkTrue
    <3>3. QED BY <2>2, <3>1, <3>2, WinnerKey
  <2>3. QED BY <1>2, <1>3, <1>5, <2>1, <2>2
<1>7. LinkTrue(r) BY <1>2, <1>4, <1>5, <1>6 DEF LinkTrue
<1>8. QED BY <1>1, <1>2, <1>7, OnEchoes

\* Recording the conflict, or failing to
LEMMA ConflictEchoes ==
  ASSUME NEW w \in Worker, Worker = {w}, TypeInv, Echoing, RecordConflict(w)
  PROVE  Echoing'
<1>1. /\ run[w] \in Execution /\ run[w].at = "conflict"
      /\ UNCHANGED <<crm, side, keyLink, byUs>>
  BY ConflictStep DEF RecordConflict
<1>2. CASE Fail(w)
  <2>1. run'[w] = Idle BY <1>1, <1>2, FailSteps DEF TypeInv
  <2>2. QED BY <1>1, <2>1, EchoOn
<1>3. ASSUME NEW r \in Execution, r = run'[w], r.at = "write",
             r.source = run[w].source, r.content = run[w].content,
             r.link = run[w].link, r.echo = run[w].echo, r.winner = run[w].winner
      PROVE  Echoing'
  <2>1. LinkTrue(run[w]) BY <1>1, KnownNow DEF Known, Linking
  <2>2. LinkTrue(r) BY <1>3, <2>1 DEF LinkTrue
  <2>3. QED BY <1>1, <1>3, <2>2, OnEchoes
<1>4. QED BY <1>2, <1>3, ConflictStep

\* What owns the key of a winner lives, has that key and is another record.
LEMMA OwnerHasKey ==
  ASSUME AsWritten, NEW s \in System, NEW i, NEW c \in Content,
         NEW o \in KeyOwners(s, i, c)
  PROVE  /\ s \in UniqueKey /\ o \in NativeId /\ o # i /\ Live(s, o)
         /\ SameKey(crm[s][o], c)
<1>1. Written(s, crm[s][i], c) = c BY WrittenAsIs
<1>2. QED BY <1>1 DEF KeyOwners, Candidates

\* A repeated write: only a create meets the owner of its key, which then has
\* no other link.
LEMMA HealEchoes ==
  ASSUME NEW w \in Worker, Worker = {w}, AsWritten, TypeInv, TypeInv', Echoing, Heal(w)
  PROVE  Echoing'
<1>1. /\ run[w] \in Execution /\ run[w].at = "write"
      /\ UNCHANGED <<crm, side, keyLink, byUs>>
  BY HealStep DEF Heal
<1>2. PICK r \in Execution :
        /\ r = run'[w] /\ r.at = "rewrite"
        /\ r.source = run[w].source /\ r.content = run[w].content
        /\ r.winner = run[w].winner /\ r.echo = run[w].echo
        /\ r.link.id = run[w].link.id /\ r.link.keys = run[w].link.keys
        /\ \E i, o \in NativeId :
             /\ r.link.ids[To(w)] = o
             /\ run[w].link.ids[To(w)] \in {None, i}
             /\ run[w].link.ids[To(w)] # None => Live(To(w), i)
             /\ o \in KeyOwners(To(w), i, run[w].winner)
  BY HealStep
<1>3. PICK s \in System, x \in System :
        /\ s = From(w) /\ x = To(w) /\ s = run[w].source[1] /\ x = Other(s) /\ s # x
        /\ \A y \in System : y = s \/ y = x
  BY <1>1, SourceType, TwoSystems
<1>4. LinkTrue(run[w]) BY <1>1, KnownNow DEF Known, Linking
<1>5. PICK c \in Content : c = run[w].winner /\ KeyOf(c) = KeyOf(run[w].content)
  BY <1>1, <1>4 DEF TypeInv, Progress, Sound, Linking, LinkTrue
<1>6. PICK i \in NativeId, o \in NativeId :
        /\ r.link.ids[x] = o /\ run[w].link.ids[x] \in {None, i}
        /\ run[w].link.ids[x] # None => Live(x, i)
        /\ o \in KeyOwners(x, i, c)
  BY <1>2, <1>3, <1>5
<1>7. /\ x \in UniqueKey /\ o # i /\ Live(x, o) /\ SameKey(crm[x][o], c)
  BY <1>6, OwnerHasKey
<1>8. LinkOf(x, o) \subseteq {r.link.id}
  <2>1. SUFFICES ASSUME NEW l \in LinkOf(x, o) PROVE l = r.link.id OBVIOUS
  <2>2. l \in Link /\ side[l][x] # None /\ side[l][x].id = o BY DEF LinkOf
  <2>3. KeyOf(side[l][x].hash) = KeyOf(crm[x][o])
    BY <1>7, <2>2 DEF Echoing, LinksKeyed
  <2>4. /\ KeyOf(side[l][x].hash) = KeyOf(c) /\ HasKey(side[l][x].hash) /\ HasKey(c)
    BY <1>7, <2>3, KeyDecides DEF SameKey
  <2>5. keyLink[KeyOf(c)] = l BY <2>2, <2>4 DEF Echoing, LinksKeyed
  <2>6. HasKey(run[w].content) BY <1>5, <2>4, KeyDecides
  <2>7. keyLink[KeyOf(c)] \in {None, r.link.id}
    BY <1>2, <1>4, <1>5, <2>6 DEF LinkTrue
  <2>8. QED BY <2>2, <2>5, <2>7, MarkersDiffer
<1>9. r.link.ids[s] = run[w].link.ids[s]
  BY <1>1, <1>2, <1>3 DEF TypeInv, Progress, Sound, Linking
<1>10. KeyOf(crm[x][o]) = KeyOf(r.content) /\ crm[x][o] # Absent
  BY <1>2, <1>5, <1>7 DEF SameKey, Live
<1>11. LinkTrue(r)
  <2>1. /\ KeyOf(r.winner) = KeyOf(r.content)
        /\ r.echo => LinkOf(r.source[1], r.source[2]) = {}
        /\ \A k \in r.link.keys :
             k = KeyOf(r.content) /\ keyLink[k] \in {None, r.link.id}
        /\ \A k \in Key : keyLink[k] = r.link.id => k \in r.link.keys
        /\ HasKey(r.content) => KeyOf(r.content) \in r.link.keys
    BY <1>2, <1>4 DEF LinkTrue
  <2>2. \A y \in System : r.link.ids[y] # None =>
          LinkOf(y, r.link.ids[y]) \subseteq {r.link.id}
    BY <1>2, <1>3, <1>4, <1>6, <1>8, <1>9 DEF LinkTrue
  <2>3. Other(r.source[1]) = x BY <1>2, <1>3
  <2>4. QED BY <1>6, <1>10, <2>1, <2>2, <2>3 DEF LinkTrue
<1>12. QED BY <1>1, <1>2, <1>11, OnEchoes

\* A write that fails, a deletion looked up
LEMMA EndEchoes ==
  ASSUME NEW w \in Worker, Worker = {w}, TypeInv, Echoing, WriteFails(w) \/ FindDoomed(w)
  PROVE  Echoing'
<1>1. CASE WriteFails(w)
  <2>1. /\ run[w] \in Execution /\ run[w].at \in {"write", "rewrite"}
        /\ UNCHANGED <<crm, side, keyLink, byUs>> /\ Fail(w)
    BY <1>1, WriteFailsStep DEF WriteFails
  <2>2. run'[w] = Idle BY <2>1, FailSteps DEF TypeInv
  <2>3. QED BY <2>1, <2>2, EchoOn
<1>2. CASE FindDoomed(w)
  <2>1. /\ run[w] \in Execution /\ run[w].at = "unlink"
        /\ UNCHANGED <<crm, side, keyLink, byUs>>
        /\ run'[w] = Idle \/ (run'[w] \in Execution /\ run'[w].at = "remove")
    BY <1>2, DoomedStep DEF FindDoomed
  <2>2. run'[w].at = "remove" => Known(run'[w]) BY DEF Known, Holding, Linking
  <2>3. QED BY <2>1, <2>2, EchoOn
<1>3. QED BY <1>1, <1>2

\* No record comes back, and none gets another key.
KeysKept ==
  \A s \in System, i \in NativeId : crm[s][i] # Absent =>
    /\ crm'[s][i] # Absent
    /\ crm'[s][i] # Deleted => /\ Live(s, i)
                               /\ KeyOf(crm'[s][i]) = KeyOf(crm[s][i])

LEMMA LinksKeyedKept ==
  ASSUME TypeOK, LinksKeyed, KeysKept, UNCHANGED <<side, keyLink>>
  PROVE  LinksKeyed'
<1>1. ASSUME NEW l \in Link, NEW s \in System, side[l][s] # None
      PROVE  /\ crm'[s][side[l][s].id] # Absent
             /\ Live(s, side[l][s].id)' =>
                  KeyOf(crm'[s][side[l][s].id]) = KeyOf(side[l][s].hash)
             /\ HasKey(side[l][s].hash) => /\ KeyOf(side[l][s].hash) \in Key
                                           /\ keyLink[KeyOf(side[l][s].hash)] = l
  <2>1. PICK i \in NativeId : i = side[l][s].id BY <1>1, SideType
  <2>2. /\ crm[s][i] # Absent
        /\ Live(s, i) => KeyOf(crm[s][i]) = KeyOf(side[l][s].hash)
        /\ HasKey(side[l][s].hash) => /\ KeyOf(side[l][s].hash) \in Key
                                      /\ keyLink[KeyOf(side[l][s].hash)] = l
    BY <1>1, <2>1 DEF LinksKeyed
  <2>3. QED BY <2>1, <2>2 DEF KeysKept, Live
<1>2. \A k \in Key : keyLink[k] # None =>
        \A s \in System : KeyOf(side[keyLink[k]][s].hash) = k
  BY DEF LinksKeyed
<1>3. QED BY <1>1, <1>2 DEF LinksKeyed

\* One record changes, to a content whose key no other record has.
LEMMA DistinctKept ==
  ASSUME Distinct, NEW s \in System, NEW i \in NativeId,
         \A x \in System, j \in NativeId : <<x, j>> # <<s, i>> => crm'[x][j] = crm[x][j],
         (s \in UniqueKey /\ crm'[s][i] # Deleted)
           => Candidates(s, crm'[s][i]) \subseteq {i}
  PROVE  Distinct'
<1>1. SUFFICES ASSUME NEW x \in UniqueKey, NEW j \in NativeId, NEW k \in NativeId,
                      j # k, Live(x, j)', Live(x, k)',
                      SameKey(crm'[x][j], crm'[x][k])
               PROVE  FALSE
  BY DEF Distinct
<1>2. x \in System BY ConstantsAssumption
<1>3. SameKey(crm'[x][k], crm'[x][j]) BY <1>1 DEF SameKey
<1>4. ASSUME NEW m \in NativeId, x = s, m # i, Live(x, m)', Live(s, i)',
             SameKey(crm'[x][m], crm'[s][i])
      PROVE  FALSE
  <2>1. crm'[s][m] = crm[s][m] BY <1>4
  <2>2. Live(s, m) BY <1>4, <2>1 DEF Live
  <2>3. m \in Candidates(s, crm'[s][i]) BY <1>4, <2>1, <2>2 DEF Candidates
  <2>4. crm'[s][i] # Deleted BY <1>4 DEF Live
  <2>5. QED BY <1>4, <2>3, <2>4
<1>5. CASE x = s /\ (j = i \/ k = i) BY <1>1, <1>3, <1>4, <1>5
<1>6. CASE ~(x = s /\ (j = i \/ k = i))
  <2>1. crm'[x][j] = crm[x][j] /\ crm'[x][k] = crm[x][k] BY <1>2, <1>6
  <2>2. QED BY <1>1, <2>1 DEF Distinct, Live
<1>7. QED BY <1>5, <1>6

\* What is known of an execution stays true while users change other records,
\* or this one without its key.
LEMMA KnownKept ==
  ASSUME NEW r \in Execution, Known(r), Sound(r), KeysKept,
         UNCHANGED <<side, keyLink>>,
         \A e \in Record : (e \in byUs' /\ crm'[e[1]][e[2]] \notin {Absent, Deleted})
                           => e \in byUs /\ crm'[e[1]][e[2]] = crm[e[1]][e[2]],
         Live(r.source[1], r.source[2])
           => crm'[r.source[1]][r.source[2]] # Deleted
  PROVE  Known(r)'
<1>1. PICK s \in System, i \in NativeId, x \in System :
        /\ r.source = <<s, i>> /\ r.source[1] = s /\ r.source[2] = i
        /\ x = Other(s) /\ x = Other(r.source[1])
  <2>1. r.source \in Record BY DEF Execution
  <2>2. QED BY <2>1, TwoSystems DEF Record
<1>2. r.at \in Holding => ReadTrue(r)'
  <2>1. SUFFICES ASSUME r.at \in Holding PROVE ReadTrue(r)' OBVIOUS
  <2>2. /\ Live(s, i) /\ KeyOf(crm[s][i]) = KeyOf(r.content)
        /\ <<s, i>> \in byUs =>
             crm[s][i] = IF r.at = "save" THEN r.winner ELSE r.content
    BY <1>1, <2>1 DEF Known, ReadTrue
  <2>3. /\ crm'[s][i] \notin {Absent, Deleted}
        /\ KeyOf(crm'[s][i]) = KeyOf(r.content)
    BY <1>1, <2>2 DEF KeysKept, Live
  <2>4. <<s, i>> \in byUs' => <<s, i>> \in byUs /\ crm'[s][i] = crm[s][i]
    <3>1. <<s, i>> \in Record /\ <<s, i>>[1] = s /\ <<s, i>>[2] = i BY DEF Record
    <3>2. QED BY <2>3, <3>1
  <2>5. QED BY <1>1, <2>2, <2>3, <2>4 DEF ReadTrue, Live
<1>3. r.at = "find" => \A l \in LinkOf(s, i)' :
        /\ KeyOf(side'[l][s].hash) = KeyOf(r.content)
        /\ r.echo => side'[l][s].hash = r.content
  BY <1>1 DEF Known, LinkOf
<1>4. r.at \in Linking => r.link.ids[x] \in NativeId \cup {None}
  BY DEF Sound, LinkRecord
<1>5. r.at \in Linking => LinkTrue(r)'
  <2>1. SUFFICES ASSUME r.at \in Linking PROVE LinkTrue(r)' OBVIOUS
  <2>2. LinkTrue(r) BY <2>1 DEF Known
  <2>3. r.link.ids[x] # None =>
          /\ crm'[x][r.link.ids[x]] # Absent
          /\ Live(x, r.link.ids[x])' =>
               KeyOf(crm'[x][r.link.ids[x]]) = KeyOf(r.content)
    BY <1>1, <1>4, <2>1, <2>2 DEF LinkTrue, KeysKept, Live
  <2>4. QED BY <1>1, <2>2, <2>3 DEF LinkTrue, LinkOf
<1>6. r.at \in {"writeback", "save"} => WriteTrue(r)'
  <2>1. SUFFICES ASSUME r.at \in {"writeback", "save"} PROVE WriteTrue(r)' OBVIOUS
  <2>2. PICK t \in NativeId : t = r.link.ids[x] BY <1>1, <2>1 DEF Sound, Targeted
  <2>3. (<<x, t>> \in byUs /\ Live(x, t)) => crm[x][t] = r.winner
    BY <1>1, <2>1, <2>2 DEF Known, WriteTrue
  <2>4. <<x, t>> \in Record /\ <<x, t>>[1] = x /\ <<x, t>>[2] = t BY DEF Record
  <2>5. (<<x, t>> \in byUs' /\ Live(x, t)') => crm'[x][t] = r.winner
    BY <2>3, <2>4 DEF Live
  <2>6. QED BY <1>1, <2>2, <2>5 DEF WriteTrue
<1>7. r.at = "search" => keyLink'[KeyOf(r.content)] = None BY DEF Known
<1>8. QED BY <1>1, <1>2, <1>3, <1>5, <1>6, <1>7 DEF Known

\* The write to the target
LEMMA TargetEchoes ==
  ASSUME NEW w \in Worker, Worker = {w}, AsWritten, TypeInv, TypeInv', Echoing,
         run[w] \in Execution, run[w].at \in {"write", "rewrite"},
         NEW t \in NativeId, WroteTarget(w, t),
         \/ crm[To(w)][t] = Absent /\ run[w].link.ids[To(w)] = None
         \/ Live(To(w), t) /\ run[w].link.ids[To(w)] = t,
         KeyOwners(To(w), t, run[w].winner) = {},
         crm'[To(w)][t] = Written(To(w), crm[To(w)][t], run[w].winner)
  PROVE  Echoing'
<1>1. PICK s \in System, i \in NativeId, x \in System :
        /\ s = From(w) /\ x = To(w) /\ run[w].source = <<s, i>>
        /\ run[w].source[1] = s /\ run[w].source[2] = i /\ x = Other(s) /\ s # x
        /\ \A y \in System : y = s \/ y = x
  BY SourceType, TwoSystems DEF Source
<1>2. Known(run[w]) /\ ReadTrue(run[w]) /\ LinkTrue(run[w])
  BY KnownNow DEF Known, Holding, Linking
<1>3. PICK c \in Content : c = run[w].winner
  BY DEF TypeInv, Progress, Sound, Linking
<1>4. PICK r \in Execution :
        /\ r = run'[w] /\ r.source = run[w].source /\ r.content = run[w].content
        /\ r.winner = c /\ r.echo = run[w].echo /\ r.at \in {"writeback", "save"}
        /\ r.link.id = run[w].link.id /\ r.link.keys = run[w].link.keys
        /\ r.link.ids[x] = t
        /\ r.at = "save" => c = run[w].content
  BY <1>1, <1>3 DEF WroteTarget, Wrote
<1>5. r.link.ids[s] = i /\ run[w].link.ids[s] = i
  BY <1>1, <1>4 DEF TypeInv, Progress, Sound, Linking
<1>6. /\ \A y \in System, j \in NativeId : <<y, j>> # <<x, t>> => crm'[y][j] = crm[y][j]
      /\ side' = side /\ keyLink' = keyLink /\ byUs' = byUs \cup {<<x, t>>}
      /\ crm'[x][t] = c
  <2>1. crm'[x][t] = c BY <1>1, <1>3, WrittenAsIs
  <2>2. QED BY <1>1, <2>1 DEF WroteTarget, Wrote
<1>7. c \notin {Absent, Deleted} BY MarkersDiffer
<1>8. KeyOf(c) = KeyOf(run[w].content) BY <1>2, <1>3 DEF LinkTrue
<1>9. crm[x][t] # Absent => Live(x, t) /\ KeyOf(crm[x][t]) = KeyOf(c)
  <2>1. SUFFICES ASSUME crm[x][t] # Absent
                 PROVE  Live(x, t) /\ KeyOf(crm[x][t]) = KeyOf(c)
    OBVIOUS
  <2>2. Live(x, t) /\ run[w].link.ids[x] = t /\ t # None
    BY <1>1, <2>1, MarkersDiffer
  <2>3. QED BY <1>1, <1>2, <1>8, <2>2 DEF LinkTrue
<1>10. KeysKept
  <2>1. SUFFICES ASSUME NEW y \in System, NEW j \in NativeId, crm[y][j] # Absent
                 PROVE  /\ crm'[y][j] # Absent
                        /\ crm'[y][j] # Deleted =>
                             Live(y, j) /\ KeyOf(crm'[y][j]) = KeyOf(crm[y][j])
    BY DEF KeysKept
  <2>2. CASE y = x /\ j = t BY <1>6, <1>7, <1>9, <2>1, <2>2
  <2>3. CASE ~(y = x /\ j = t) BY <1>6, <2>1, <2>3 DEF Live
  <2>4. QED BY <2>2, <2>3
<1>11. LinksKeyed' BY <1>6, <1>10, LinksKeyedKept DEF Echoing, TypeInv
<1>12. Distinct'
  <2>1. x \in UniqueKey => Candidates(x, c) \subseteq {t}
    BY <1>1, <1>3, WrittenAsIs DEF KeyOwners
  <2>2. QED BY <1>6, <2>1, DistinctKept DEF Echoing
<1>13. EchoesKnown'
  <2>1. SUFFICES ASSUME NEW l \in Link, NEW y \in System, side[l][y] # None,
                        Live(y, side[l][y].id)', <<y, side[l][y].id>> \in byUs',
                        ~Writing(<<y, side[l][y].id>>)'
                 PROVE  side[l][y].hash = crm'[y][side[l][y].id]
    BY <1>6 DEF EchoesKnown
  <2>2. PICK j \in NativeId : j = side[l][y].id BY <2>1, SideType DEF TypeInv
  <2>3. <<y, j>> # <<x, t>>
    <3>1. To(w)' = x BY <1>1, <1>4 DEF To, From
    <3>2. /\ run'[w] \in Execution /\ run'[w].at \in {"writeback", "save"}
          /\ <<x, t>> = <<To(w)', run'[w].link.ids[To(w)']>>
      BY <1>4, <3>1
    <3>3. Writing(<<x, t>>)' BY <3>2 DEF Writing
    <3>4. QED BY <1>6, <2>1, <2>2, <3>3
  <2>4. crm'[y][j] = crm[y][j] /\ <<y, j>> \in byUs
    <3>1. crm'[y][j] = crm[y][j] BY <1>6, <2>3
    <3>2. <<y, j>> \in byUs BY <1>6, <2>1, <2>2, <2>3
    <3>3. QED BY <3>1, <3>2
  <2>5. ~Writing(<<y, j>>) BY DEF Writing
  <2>6. Live(y, j) BY <1>6, <2>1, <2>2, <2>4 DEF Live
  <2>7. QED BY <2>1, <2>2, <2>4, <2>5, <2>6 DEF Echoing, EchoesKnown
<1>14. ReadTrue(r)'
  <2>1. crm'[s][i] = crm[s][i] /\ (<<s, i>> \in byUs' => <<s, i>> \in byUs)
    BY <1>1, <1>6
  <2>2. QED BY <1>1, <1>2, <1>4, <2>1 DEF ReadTrue, Live
<1>15. LinkTrue(r)'
  <2>1. \A y, j : LinkOf(y, j)' = LinkOf(y, j) BY <1>6 DEF LinkOf
  <2>2. LinkOf(x, t) \subseteq {r.link.id}
    <3>1. CASE run[w].link.ids[x] = t
      BY <1>2, <1>4, <3>1, MarkersDiffer DEF LinkTrue
    <3>2. CASE crm[x][t] = Absent
      BY <3>2 DEF LinkOf, Echoing, LinksKeyed
    <3>3. QED BY <1>1, <3>1, <3>2
  <2>3. \A y \in System : r.link.ids[y] # None =>
          LinkOf(y, r.link.ids[y]) \subseteq {r.link.id}
    BY <1>1, <1>2, <1>4, <1>5, <2>2, MarkersDiffer DEF LinkTrue
  <2>4. /\ KeyOf(r.winner) = KeyOf(r.content)
        /\ r.echo => LinkOf(s, i) = {}
        /\ \A k \in r.link.keys :
             k = KeyOf(r.content) /\ keyLink[k] \in {None, r.link.id}
        /\ \A k \in Key : keyLink[k] = r.link.id => k \in r.link.keys
        /\ HasKey(r.content) => KeyOf(r.content) \in r.link.keys
    BY <1>1, <1>2, <1>4, <1>8 DEF LinkTrue
  <2>5. Other(r.source[1]) = x /\ r.source[1] = s /\ r.source[2] = i BY <1>1, <1>4
  <2>6. \A y \in System : r.link.ids[y] # None =>
          LinkOf(y, r.link.ids[y])' \subseteq {r.link.id}
    BY <2>1, <2>3
  <2>7. /\ crm'[x][r.link.ids[x]] # Absent
        /\ KeyOf(crm'[x][r.link.ids[x]]) = KeyOf(r.content)
    BY <1>4, <1>6, <1>7, <2>4
  <2>8. /\ r.echo => LinkOf(s, i)' = {}
        /\ \A k \in r.link.keys :
             k = KeyOf(r.content) /\ keyLink'[k] \in {None, r.link.id}
        /\ \A k \in Key : keyLink'[k] = r.link.id => k \in r.link.keys
    BY <1>6, <2>1, <2>4
  <2>9. QED BY <2>4, <2>5, <2>6, <2>7, <2>8 DEF LinkTrue
<1>16. WriteTrue(r)' BY <1>1, <1>4, <1>6 DEF WriteTrue
<1>17. Known(r)' BY <1>4, <1>14, <1>15, <1>16 DEF Known
<1>18. \A v \in Worker : v = w OBVIOUS
<1>19. QED BY <1>4, <1>11, <1>12, <1>13, <1>17, <1>18 DEF Echoing

LEMMA WritesEcho ==
  ASSUME NEW w \in Worker, Worker = {w}, AsWritten, TypeInv, Echoing,
         Update(w, "write") \/ Update(w, "rewrite") \/ Create(w)
  PROVE  Echoing'
<1>1. CASE Create(w)
  <2>1. /\ TypeInv' /\ run[w] \in Execution /\ run[w].at = "write"
        /\ run[w].link.ids[To(w)] = None
    BY <1>1, CreateStep
  <2>2. PICK t \in NativeId :
          /\ crm[To(w)][t] = Absent /\ WroteTarget(w, t)
          /\ KeyOwners(To(w), t, run[w].winner) = {}
          /\ crm'[To(w)][t] = Written(To(w), Absent, run[w].winner)
    BY <1>1, CreateStep
  <2>3. QED BY <2>1, <2>2, TargetEchoes
<1>2. ASSUME NEW stage \in {"write", "rewrite"}, Update(w, stage) PROVE Echoing'
  <2>1. TypeInv' /\ run[w] \in Execution /\ run[w].at = stage
    BY <1>2, UpdateStep
  <2>2. PICK t \in NativeId :
          /\ Live(To(w), t) /\ t = run[w].link.ids[To(w)] /\ WroteTarget(w, t)
          /\ KeyOwners(To(w), t, run[w].winner) = {}
          /\ crm'[To(w)][t] = Written(To(w), crm[To(w)][t], run[w].winner)
    BY <1>2, UpdateStep
  <2>3. QED BY <2>1, <2>2, TargetEchoes
<1>3. QED BY <1>1, <1>2

\* The write to the source, which nothing can refuse
LEMMA WriteBackEchoes ==
  ASSUME NEW w \in Worker, Worker = {w}, AsWritten, TypeInv, Echoing, WriteBack(w)
  PROVE  Echoing'
<1>1. /\ TypeInv' /\ run[w] \in Execution /\ run[w].at = "writeback"
      /\ side' = side /\ keyLink' = keyLink
  BY WriteBackStep
<1>2. PICK s \in System, i \in NativeId, x \in System :
        /\ s = From(w) /\ x = To(w) /\ Source(w) = <<s, i>> /\ Source(w)[2] = i
        /\ run[w].source = <<s, i>> /\ x = Other(s) /\ s # x
        /\ run[w].source[1] = s /\ run[w].source[2] = i
        /\ \A y \in System : y = s \/ y = x
  BY <1>1, SourceType, TwoSystems DEF Source
<1>3. /\ Known(run[w]) /\ ReadTrue(run[w]) /\ LinkTrue(run[w]) /\ WriteTrue(run[w])
  BY <1>1, KnownNow DEF Known, Holding, Linking
<1>4. PICK c \in Content : c = run[w].winner /\ KeyOf(c) = KeyOf(run[w].content)
  BY <1>1, <1>3 DEF TypeInv, Progress, Sound, Linking, LinkTrue
<1>5. Live(s, i) /\ KeyOf(crm[s][i]) = KeyOf(c)
  BY <1>2, <1>3, <1>4 DEF ReadTrue
<1>6. s \in UniqueKey => Candidates(s, c) \subseteq {i}
  <2>1. SUFFICES ASSUME s \in UniqueKey, NEW o \in NativeId, Live(s, o),
                        SameKey(crm[s][o], c)
                 PROVE  o = i
    BY DEF Candidates
  <2>2. SameKey(crm[s][o], crm[s][i])
    BY <1>5, <2>1, KeyDecides DEF SameKey
  <2>3. QED BY <1>5, <2>1, <2>2 DEF Echoing, Distinct
<1>7. Written(s, crm[s][i], c) = c BY WrittenAsIs
<1>8. KeyOwners(s, i, c) = {} BY <1>6, <1>7 DEF KeyOwners
<1>9. /\ Wrote(w, <<s, i>>) /\ run'[w].at = "save" /\ crm'[s][i] = c
      /\ run'[w].link.ids = run[w].link.ids
  BY <1>2, <1>4, <1>5, <1>7, <1>8, WriteBackStep
<1>10. PICK r \in Execution :
        /\ r = run'[w] /\ r.source = run[w].source /\ r.content = run[w].content
        /\ r.winner = c /\ r.echo = run[w].echo /\ r.at = "save"
        /\ r.link.id = run[w].link.id /\ r.link.keys = run[w].link.keys
        /\ r.link.ids = run[w].link.ids
  BY <1>4, <1>9 DEF Wrote
<1>11. /\ \A y \in System, j \in NativeId : <<y, j>> # <<s, i>> => crm'[y][j] = crm[y][j]
       /\ byUs' = byUs \cup {<<s, i>>}
  BY <1>9 DEF Wrote
<1>12. c \notin {Absent, Deleted} BY MarkersDiffer
<1>13. KeysKept
  <2>1. SUFFICES ASSUME NEW y \in System, NEW j \in NativeId, crm[y][j] # Absent
                 PROVE  /\ crm'[y][j] # Absent
                        /\ crm'[y][j] # Deleted =>
                             Live(y, j) /\ KeyOf(crm'[y][j]) = KeyOf(crm[y][j])
    BY DEF KeysKept
  <2>2. CASE y = s /\ j = i BY <1>5, <1>9, <1>12, <2>1, <2>2
  <2>3. CASE ~(y = s /\ j = i) BY <1>11, <2>1, <2>3 DEF Live
  <2>4. QED BY <2>2, <2>3
<1>14. LinksKeyed' BY <1>1, <1>13, LinksKeyedKept DEF Echoing, TypeInv
<1>15. Distinct' BY <1>6, <1>9, <1>11, DistinctKept DEF Echoing
<1>16. EchoesKnown'
  <2>1. SUFFICES ASSUME NEW l \in Link, NEW y \in System, side[l][y] # None,
                        Live(y, side[l][y].id)', <<y, side[l][y].id>> \in byUs',
                        ~Writing(<<y, side[l][y].id>>)'
                 PROVE  side[l][y].hash = crm'[y][side[l][y].id]
    BY <1>1 DEF EchoesKnown
  <2>2. PICK j \in NativeId : j = side[l][y].id BY <2>1, SideType DEF TypeInv
  <2>3. Source(w)' = <<s, i>> /\ To(w)' = x BY <1>2, <1>10 DEF Source, To, From
  <2>4. <<y, j>> # <<s, i>> /\ <<y, j>> # <<x, run[w].link.ids[x]>>
    BY <1>1, <1>10, <2>1, <2>2, <2>3 DEF Writing
  <2>5. crm'[y][j] = crm[y][j] BY <1>11, <2>4
  <2>6. <<y, j>> \in byUs BY <1>1, <1>11, <2>1, <2>2, <2>4
  <2>7. ~Writing(<<y, j>>) BY <1>2, <2>4 DEF Writing
  <2>8. Live(y, j) BY <1>1, <2>1, <2>2, <2>5 DEF Live
  <2>9. QED BY <2>1, <2>2, <2>5, <2>6, <2>7, <2>8 DEF Echoing, EchoesKnown
<1>17. ReadTrue(r)' BY <1>2, <1>4, <1>9, <1>10, <1>12 DEF ReadTrue, Live
<1>18. PICK t \in NativeId : t = run[w].link.ids[x] /\ crm'[x][t] = crm[x][t]
  <2>1. run[w].link.ids[x] \in NativeId
    BY <1>1, <1>2 DEF TypeInv, Progress, Sound, Targeted
  <2>2. QED BY <1>2, <1>11, <2>1
<1>19. LinkTrue(r)'
  <2>1. \A y, j : LinkOf(y, j)' = LinkOf(y, j) BY <1>1 DEF LinkOf
  <2>2. \A y \in System : r.link.ids[y] # None =>
          LinkOf(y, r.link.ids[y])' \subseteq {r.link.id}
    BY <1>3, <1>10, <2>1 DEF LinkTrue
  <2>3. /\ KeyOf(r.winner) = KeyOf(r.content)
        /\ r.echo => LinkOf(s, i)' = {}
        /\ \A k \in r.link.keys :
             k = KeyOf(r.content) /\ keyLink'[k] \in {None, r.link.id}
        /\ \A k \in Key : keyLink'[k] = r.link.id => k \in r.link.keys
        /\ HasKey(r.content) => KeyOf(r.content) \in r.link.keys
    BY <1>1, <1>2, <1>3, <1>4, <1>10, <2>1 DEF LinkTrue
  <2>4. /\ crm[x][t] # Absent
        /\ Live(x, t) => KeyOf(crm[x][t]) = KeyOf(r.content)
    BY <1>2, <1>3, <1>10, <1>18, MarkersDiffer DEF LinkTrue
  <2>5. /\ crm'[x][r.link.ids[x]] # Absent
        /\ Live(x, r.link.ids[x])' =>
             KeyOf(crm'[x][r.link.ids[x]]) = KeyOf(r.content)
    BY <1>10, <1>18, <2>4 DEF Live
  <2>6. Other(r.source[1]) = x /\ r.source[1] = s /\ r.source[2] = i BY <1>2, <1>10
  <2>7. QED BY <2>2, <2>3, <2>5, <2>6 DEF LinkTrue
<1>20. WriteTrue(r)'
  <2>1. <<x, t>> \in byUs' => <<x, t>> \in byUs BY <1>2, <1>11
  <2>2. (<<x, t>> \in byUs /\ Live(x, t)) => crm[x][t] = c
    BY <1>2, <1>3, <1>4, <1>18 DEF WriteTrue
  <2>3. QED BY <1>2, <1>10, <1>18, <2>1, <2>2 DEF WriteTrue, Live
<1>21. Known(r)' BY <1>10, <1>17, <1>19, <1>20 DEF Known, Linking
<1>22. \A v \in Worker : v = w OBVIOUS
<1>23. QED BY <1>10, <1>14, <1>15, <1>16, <1>21, <1>22 DEF Echoing

\* Saving the link: both sides get the hash of what both records hold.
LEMMA SaveEchoes ==
  ASSUME NEW w \in Worker, Worker = {w}, TypeInv, Echoing, Save(w)
  PROVE  Echoing'
<1>1. /\ run[w] \in Execution /\ run[w].at = "save" /\ crm' = crm /\ byUs' = byUs
  BY SaveStep DEF Save
<1>2. PICK s \in System, i \in NativeId, x \in System :
        /\ s = From(w) /\ x = To(w) /\ Source(w) = <<s, i>>
        /\ run[w].source = <<s, i>> /\ x = Other(s) /\ s # x
        /\ run[w].source[1] = s /\ run[w].source[2] = i
        /\ \A y \in System : y = s \/ y = x
  BY <1>1, SourceType, TwoSystems DEF Source
<1>3. ReadTrue(run[w]) /\ LinkTrue(run[w]) /\ WriteTrue(run[w])
  BY <1>1, KnownNow DEF Known, Holding, Linking
<1>4. PICK k \in LinkRecord, c \in Content :
        k = run[w].link /\ c = run[w].winner /\ k.ids[s] = i
  BY <1>1, <1>2 DEF TypeInv, Progress, Sound, Linking
<1>5. KeyOf(c) = KeyOf(run[w].content) BY <1>3, <1>4 DEF LinkTrue
<1>6. ~TakenByAnother(k) BY <1>3, <1>4 DEF TakenByAnother, LinkTrue
<1>7. /\ run'[w] = Idle
      /\ side' = [side EXCEPT ![k.id] =
                    [y \in System |-> [id |-> k.ids[y], hash |-> c]]]
      /\ \A y \in Key : keyLink'[y] = IF y \in k.keys THEN k.id ELSE keyLink[y]
      /\ k.id \in Link /\ \A y \in System : k.ids[y] \in NativeId
  BY <1>4, <1>6, SaveStep
<1>8. side \in [Link -> [System ->
        [id : NativeId, hash : Content \cup {None}] \cup {None}]]
  BY DEF TypeInv, TypeOK
<1>9. /\ \A y \in System : side'[k.id][y].id = k.ids[y] /\ side'[k.id][y].hash = c
      /\ \A l \in Link : l # k.id => side'[l] = side[l]
  BY <1>7, <1>8
<1>10. ASSUME NEW y \in System
       PROVE  /\ crm[y][k.ids[y]] # Absent
              /\ Live(y, k.ids[y]) => KeyOf(crm[y][k.ids[y]]) = KeyOf(c)
              /\ (<<y, k.ids[y]>> \in byUs /\ Live(y, k.ids[y]))
                   => crm[y][k.ids[y]] = c
  <2>1. CASE y = s
    BY <1>1, <1>2, <1>3, <1>4, <1>5, <2>1 DEF ReadTrue, Live
  <2>2. CASE y = x
    <3>1. k.ids[x] # None BY <1>7, MarkersDiffer
    <3>2. QED BY <1>2, <1>3, <1>4, <1>5, <2>2, <3>1 DEF LinkTrue, WriteTrue
  <2>3. QED BY <1>2, <2>1, <2>2
<1>11. Distinct' BY <1>1 DEF Echoing, Distinct, Live
<1>12. LinksKeyed'
  <2>1. ASSUME NEW l \in Link, NEW y \in System, side'[l][y] # None
        PROVE  /\ crm[y][side'[l][y].id] # Absent
               /\ Live(y, side'[l][y].id) =>
                    KeyOf(crm[y][side'[l][y].id]) = KeyOf(side'[l][y].hash)
               /\ HasKey(side'[l][y].hash) =>
                    /\ KeyOf(side'[l][y].hash) \in Key
                    /\ keyLink'[KeyOf(side'[l][y].hash)] = l
    <3>1. CASE l = k.id
      <4>1. side'[l][y].id = k.ids[y] /\ side'[l][y].hash = c BY <1>9, <2>1, <3>1
      <4>2. HasKey(c) => KeyOf(c) \in k.keys
        BY <1>3, <1>4, <1>5, KeyDecides DEF LinkTrue
      <4>3. HasKey(c) => KeyOf(c) \in Key /\ keyLink'[KeyOf(c)] = l
        BY <1>7, <3>1, <4>2, KeyType
      <4>4. QED BY <1>10, <4>1, <4>3
    <3>2. CASE l # k.id
      <4>1. side'[l] = side[l] BY <1>9, <3>2
      <4>2. /\ crm[y][side[l][y].id] # Absent
            /\ Live(y, side[l][y].id) =>
                 KeyOf(crm[y][side[l][y].id]) = KeyOf(side[l][y].hash)
            /\ HasKey(side[l][y].hash) => /\ KeyOf(side[l][y].hash) \in Key
                                          /\ keyLink[KeyOf(side[l][y].hash)] = l
        BY <2>1, <4>1 DEF Echoing, LinksKeyed
      <4>3. ASSUME HasKey(side[l][y].hash)
            PROVE  keyLink'[KeyOf(side[l][y].hash)] = l
        <5>1. PICK d \in Key : d = KeyOf(side[l][y].hash) /\ keyLink[d] = l
          BY <4>2, <4>3
        <5>2. d \notin k.keys
          BY <1>3, <1>4, <3>2, <5>1, MarkersDiffer DEF LinkTrue
        <5>3. QED BY <1>7, <5>1, <5>2
      <4>4. QED BY <4>1, <4>2, <4>3
    <3>3. QED BY <3>1, <3>2
  <2>2. ASSUME NEW y \in Key, keyLink'[y] # None, NEW z \in System
        PROVE  KeyOf(side'[keyLink'[y]][z].hash) = y
    <3>1. CASE y \in k.keys
      <4>1. keyLink'[y] = k.id /\ y = KeyOf(c)
        BY <1>3, <1>4, <1>5, <1>7, <3>1 DEF LinkTrue
      <4>2. QED BY <1>9, <2>2, <4>1
    <3>2. CASE y \notin k.keys
      <4>1. keyLink'[y] = keyLink[y] BY <1>7, <3>2
      <4>2. keyLink[y] # k.id BY <1>3, <1>4, <3>2 DEF LinkTrue
      <4>3. keyLink[y] \in Link BY <2>2, <4>1 DEF TypeInv, TypeOK
      <4>4. side'[keyLink[y]] = side[keyLink[y]] BY <1>9, <4>2, <4>3
      <4>5. QED BY <2>2, <4>1, <4>4 DEF Echoing, LinksKeyed
    <3>3. QED BY <3>1, <3>2
  <2>3. QED BY <1>1, <2>1, <2>2 DEF LinksKeyed, Live
<1>13. EchoesKnown'
  <2>1. SUFFICES ASSUME NEW l \in Link, NEW y \in System, side'[l][y] # None,
                        Live(y, side'[l][y].id), <<y, side'[l][y].id>> \in byUs
                 PROVE  side'[l][y].hash = crm[y][side'[l][y].id]
    BY <1>1 DEF EchoesKnown, Live
  <2>2. CASE l = k.id
    <3>1. side'[l][y].id = k.ids[y] /\ side'[l][y].hash = c BY <1>9, <2>1, <2>2
    <3>2. QED BY <1>10, <2>1, <3>1
  <2>3. CASE l # k.id
    <3>1. side'[l] = side[l] BY <1>9, <2>3
    <3>2. PICK j \in NativeId : j = side[l][y].id
      BY <2>1, <3>1, SideType DEF TypeInv
    <3>3. l \in LinkOf(y, j) BY <2>1, <3>1, <3>2 DEF LinkOf
    <3>4. j # k.ids[y]
      BY <1>3, <1>4, <2>3, <3>2, <3>3, MarkersDiffer DEF LinkTrue
    <3>5. ~Writing(<<y, j>>)
      BY <1>2, <1>4, <3>4 DEF Writing
    <3>6. QED BY <2>1, <3>1, <3>2, <3>5 DEF Echoing, EchoesKnown
  <2>4. QED BY <2>2, <2>3
<1>14. \A v \in Worker : run'[v] \notin Execution BY <1>7, IdleAt
<1>15. QED BY <1>11, <1>12, <1>13, <1>14 DEF Echoing

\* The removal of the counterpart of a deleted record
LEMMA RemoveEchoes ==
  ASSUME NEW w \in Worker, Worker = {w}, TypeInv, Echoing, RemoveCounterpart(w)
  PROVE  Echoing'
<1>1. /\ run[w] \in Execution /\ run[w].at = "remove" /\ byUs' = byUs
      /\ UNCHANGED <<side, keyLink>>
  BY RemoveStep DEF RemoveCounterpart
<1>2. CASE Fail(w) /\ UNCHANGED crm
  <2>1. run'[w] = Idle BY <1>1, <1>2, FailSteps DEF TypeInv
  <2>2. QED BY <1>1, <1>2, <2>1, EchoOn
<1>3. ASSUME NEW x \in System, NEW t \in NativeId, run'[w] = Idle,
             crm'[x][t] = Deleted, Live(x, t),
             \A y \in System, j \in NativeId :
               <<y, j>> # <<x, t>> => crm'[y][j] = crm[y][j]
      PROVE  Echoing'
  <2>1. KeysKept
    <3>1. SUFFICES ASSUME NEW y \in System, NEW j \in NativeId, crm[y][j] # Absent
                   PROVE  /\ crm'[y][j] # Absent
                          /\ crm'[y][j] # Deleted =>
                               Live(y, j) /\ KeyOf(crm'[y][j]) = KeyOf(crm[y][j])
      BY DEF KeysKept
    <3>2. CASE y = x /\ j = t BY <1>3, <3>2, MarkersDiffer
    <3>3. CASE ~(y = x /\ j = t) BY <1>3, <3>1, <3>3 DEF Live
    <3>4. QED BY <3>2, <3>3
  <2>2. LinksKeyed' BY <1>1, <2>1, LinksKeyedKept DEF Echoing, TypeInv
  <2>3. Distinct' BY <1>3, DistinctKept DEF Echoing
  <2>4. EchoesKnown'
    <3>1. SUFFICES ASSUME NEW l \in Link, NEW y \in System, side[l][y] # None,
                          crm'[y][side[l][y].id] \notin {Absent, Deleted},
                          <<y, side[l][y].id>> \in byUs
                   PROVE  side[l][y].hash = crm'[y][side[l][y].id]
      BY <1>1 DEF EchoesKnown, Live
    <3>2. PICK j \in NativeId : j = side[l][y].id BY <3>1, SideType DEF TypeInv
    <3>3. crm'[y][j] = crm[y][j] BY <1>3, <3>1, <3>2
    <3>4. ~Writing(<<y, j>>) BY <1>1 DEF Writing
    <3>5. QED BY <3>1, <3>2, <3>3, <3>4 DEF Echoing, EchoesKnown, Live
  <2>5. \A v \in Worker : run'[v] \notin Execution BY <1>3, IdleAt
  <2>6. QED BY <2>2, <2>3, <2>4, <2>5 DEF Echoing
<1>4. QED
  <2>1. To(w) \in System BY <1>1, SourceType
  <2>2. Fail(w) \/ Live(To(w), run[w].link.ids[To(w)]) BY DEF RemoveCounterpart
  <2>3. QED BY <1>2, <1>3, <2>1, <2>2, RemoveStep DEF RemoveCounterpart

\* Users, who leave keys alone and do not delete what is being synchronised
LEMMA UsersEcho ==
  ASSUME NEW w \in Worker, Worker = {w}, TypeInv, Echoing, Users, Undisturbed
  PROVE  Echoing'
<1>1. TypeOK /\ UNCHANGED <<side, keyLink, run>>
  BY UsersType DEF TypeInv, mapVars
<1>2. PICK s \in System, i \in NativeId : Edit(s, i) \/ Remove(s, i) BY DEF Users
<1>3. \A y \in System, j \in NativeId : <<y, j>> # <<s, i>> => crm'[y][j] = crm[y][j]
  BY <1>1, <1>2 DEF Edit, Remove, TypeOK
<1>4. /\ crm'[s][i] # Absent
      /\ crm'[s][i] # Deleted => /\ crm[s][i] # Deleted
                                 /\ <<s, i>> \notin byUs'
                                 /\ s \in UniqueKey =>
                                      Candidates(s, crm'[s][i]) \subseteq {i}
      /\ byUs' \subseteq byUs
  <2>1. CASE Remove(s, i) BY <1>1, <2>1, MarkersDiffer DEF Remove, TypeOK
  <2>2. CASE Edit(s, i)
    <3>1. PICK c \in UserContent :
            /\ s \in UniqueKey => Candidates(s, c) \subseteq {i}
            /\ crm' = [crm EXCEPT ![s][i] = c]
      BY <2>2 DEF Edit
    <3>2. crm'[s][i] = c /\ c \notin {Absent, Deleted}
      BY <1>1, <3>1, ConstantsAssumption, MarkersDiffer DEF TypeOK
    <3>3. QED BY <2>2, <3>1, <3>2 DEF Edit
  <2>3. QED BY <1>2, <2>1, <2>2
<1>5. (crm'[s][i] # Deleted /\ Live(s, i)) => KeyOf(crm'[s][i]) = KeyOf(crm[s][i])
  <2>1. SUFFICES ASSUME crm'[s][i] # Deleted, Live(s, i)
                 PROVE  KeyOf(crm'[s][i]) = KeyOf(crm[s][i])
    OBVIOUS
  <2>2. Edit(s, i) BY <1>1, <1>2, <2>1 DEF Remove, TypeOK
  <2>3. edits' # edits BY <1>1, <2>2, ConstantsAssumption DEF Edit, TypeOK
  <2>4. <<s, i>> \in Record /\ <<s, i>>[1] = s /\ <<s, i>>[2] = i BY DEF Record
  <2>5. QED BY <2>1, <2>3, <2>4 DEF Undisturbed
<1>6. KeysKept
  <2>1. SUFFICES ASSUME NEW y \in System, NEW j \in NativeId, crm[y][j] # Absent
                 PROVE  /\ crm'[y][j] # Absent
                        /\ crm'[y][j] # Deleted =>
                             Live(y, j) /\ KeyOf(crm'[y][j]) = KeyOf(crm[y][j])
    BY DEF KeysKept
  <2>2. CASE y = s /\ j = i BY <1>4, <1>5, <2>1, <2>2 DEF Live
  <2>3. CASE ~(y = s /\ j = i) BY <1>3, <2>1, <2>3 DEF Live
  <2>4. QED BY <2>2, <2>3
<1>7. LinksKeyed' BY <1>1, <1>6, LinksKeyedKept DEF Echoing
<1>8. Distinct' BY <1>3, <1>4, DistinctKept DEF Echoing
<1>9. ASSUME NEW y \in System, NEW j \in NativeId, <<y, j>> \in byUs',
             crm'[y][j] \notin {Absent, Deleted}
      PROVE  <<y, j>> \in byUs /\ crm'[y][j] = crm[y][j]
  <2>1. <<y, j>> # <<s, i>> BY <1>4, <1>9
  <2>2. QED BY <1>3, <1>4, <1>9, <2>1
<1>10. EchoesKnown'
  <2>1. SUFFICES ASSUME NEW l \in Link, NEW y \in System, side[l][y] # None,
                        crm'[y][side[l][y].id] \notin {Absent, Deleted},
                        <<y, side[l][y].id>> \in byUs',
                        ~Writing(<<y, side[l][y].id>>)
                 PROVE  side[l][y].hash = crm'[y][side[l][y].id]
    BY <1>1 DEF EchoesKnown, Live, Writing, Source, To, From
  <2>2. PICK j \in NativeId : j = side[l][y].id BY <1>1, <2>1, SideType
  <2>3. <<y, j>> \in byUs /\ crm'[y][j] = crm[y][j] BY <1>9, <2>1, <2>2
  <2>4. QED BY <2>1, <2>2, <2>3 DEF Echoing, EchoesKnown, Live
<1>11. ASSUME NEW r \in Execution, run'[w] = r PROVE Known(r)'
  <2>1. run[w] = r /\ Known(r) /\ Sound(r)
    BY <1>1, <1>11 DEF Echoing, TypeInv, Progress
  <2>2. \A e \in Record : (e \in byUs' /\ crm'[e[1]][e[2]] \notin {Absent, Deleted})
                          => e \in byUs /\ crm'[e[1]][e[2]] = crm[e[1]][e[2]]
    BY <1>9 DEF Record
  <2>3. Live(r.source[1], r.source[2]) => crm'[r.source[1]][r.source[2]] # Deleted
    BY <2>1 DEF Undisturbed, From, Source
  <2>4. QED BY <1>1, <1>6, <2>1, <2>2, <2>3, KnownKept
<1>12. \A v \in Worker : v = w OBVIOUS
<1>13. QED BY <1>7, <1>8, <1>10, <1>11, <1>12 DEF Echoing

\* Every step keeps echoes known.
LEMMA EchoNext ==
  ASSUME NEW w \in Worker, Worker = {w}, AsWritten, OneWorkerInv, Echoing,
         [Next]_vars, [Undisturbed]_vars
  PROVE  Echoing'
<1>1. TypeInv /\ TypeInv' /\ Settled BY TypeNext DEF OneWorkerInv
<1>2. CASE UNCHANGED vars
  <2>1. UNCHANGED <<crm, side, keyLink, byUs, run>> BY <1>2 DEF vars, mapVars
  <2>2. Distinct' /\ LinksKeyed' BY <2>1 DEF Echoing, Distinct, LinksKeyed, Live
  <2>3. EchoesKnown'
    BY <2>1 DEF Echoing, EchoesKnown, Live, Writing, Source, To, From
  <2>4. ASSUME NEW v \in Worker, NEW r \in Execution, run'[v] = r PROVE Known(r)'
    <3>1. Known(r) BY <2>1, <2>4 DEF Echoing
    <3>2. QED BY <2>1, <3>1, KnownSame
  <2>5. QED BY <2>2, <2>3, <2>4 DEF Echoing
<1>3. ASSUME Fault(w), Undisturbed PROVE Echoing'
  <2>1. /\ run[w] \in Execution /\ run'[w] = Idle
        /\ UNCHANGED <<crm, side, keyLink, byUs>>
    BY <1>1, <1>3, FaultStep DEF Fault
  <2>2. faults' # faults
    BY <1>1, <1>3, ConstantsAssumption DEF Fault, TypeInv, TypeOK
  <2>3. run[w].at \notin {"writeback", "save"}
    BY <1>3, <2>2 DEF Undisturbed, At
  <2>4. QED BY <2>1, <2>3, EchoOn
<1>4. ASSUME Step(w) PROVE Echoing'
  BY <1>1, <1>4, ReadEchoes, FindEchoes, KeyEchoes, SearchEchoes, CounterpartEchoes,
     ConflictEchoes, WritesEcho, HealEchoes, EndEchoes, WriteBackEchoes, SaveEchoes,
     RemoveEchoes
  DEF Step
<1>5. CASE Next /\ Undisturbed
  BY <1>1, <1>3, <1>4, <1>5, UsersEcho DEF Next
<1>6. QED BY <1>2, <1>5

\* With one worker, an execution that read what the engine itself wrote to a
\* record never writes to a CRM: reconcile() finds the hash it saved and drops
\* the echo, under every conflict strategy.  The CRMs keep what is written to
\* them, users leave keys alone and do not delete a record while it is being
\* synchronised, and no execution is cut short between its write and the save
\* of the link: without any of these the hash can be another.
THEOREM OneWorkerDropsEchoes ==
  ASSUME NEW v \in Worker, Worker = {v}, AsWritten
  PROVE  Spec /\ [][Undisturbed]_vars => EchoDropped
<1>1. Init => Echoing BY EchoInit
<1>2. OneWorkerInv /\ Echoing /\ [Next]_vars /\ [Undisturbed]_vars => Echoing'
  BY EchoNext
<1>3. OneWorkerInv /\ Echoing /\ [Next]_vars =>
        [\A w \in Worker :
           (/\ run[w] # Idle /\ run[w].echo
            /\ LinkOf(From(w), Source(w)[2]) # {}
            /\ run'[w].at \in {"writeback", "save"})
           => run'[w] = run[w]]_vars
  <2> SUFFICES ASSUME OneWorkerInv, Echoing, Next, run[v].echo,
                      LinkOf(From(v), Source(v)[2]) # {},
                      run'[v].at \in {"writeback", "save"}, run'[v] # run[v]
               PROVE  FALSE
    BY DEF vars
  <2>1. TypeInv BY DEF OneWorkerInv
  <2>2. run'[v] # Idle BY IdleAt
  <2>3. ~Users /\ ~Fault(v) BY <2>1, <2>2, UsersType, FaultStep
  <2>4. Step(v) BY <2>3 DEF Next
  <2>5. run[v] \in Execution => ~Fail(v)
    BY <2>1, <2>2, FailSteps DEF TypeInv
  <2>6. \A k : ~Uses(v, k) BY <2>2 DEF Uses
  <2>7. run[v] \in Execution /\ run[v].at \in {"write", "rewrite", "writeback"}
    <3>1. ~(StartUpdate(v) \/ StartDelete(v) \/ Read(v))
      BY <2>1, <2>5, StartStep, ReadStep
    <3>2. ~FindBySource(v) BY <2>1, <2>6, FindBySourceStep
    <3>3. ~FindByKey(v) BY <2>1, <2>6, FindByKeyStep
    <3>4. ~Search(v) BY <2>1, <2>2, <2>6, SearchStep
    <3>5. ~ReadCounterpart(v) /\ ~RecordConflict(v) /\ ~Heal(v)
      BY <2>1, <2>5, CounterpartStep, ConflictStep, HealStep
    <3>6. ~WriteFails(v) /\ ~Save(v) BY <2>1, <2>2, <2>5, WriteFailsStep, SaveStep
    <3>7. ~FindDoomed(v) /\ ~RemoveCounterpart(v)
      BY <2>1, <2>2, <2>5, DoomedStep, RemoveStep
    <3>8. QED
      BY <2>1, <2>4, <3>1, <3>2, <3>3, <3>4, <3>5, <3>6, <3>7, UpdateStep,
         CreateStep, WriteBackStep
      DEF Step
  <2>8. LinkTrue(run[v]) BY <2>7, KnownNow DEF Known, Linking
  <2>9. QED BY <2>7, <2>8 DEF LinkTrue, From, Source
<1>4. Spec => []OneWorkerInv BY OneWorkerSpec
<1>5. QED BY <1>1, <1>2, <1>3, <1>4, PTL DEF Spec, EchoDropped, AsWritten
=============================================================================
