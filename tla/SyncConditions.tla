---------------------------- MODULE SyncConditions ----------------------------
(***************************************************************************)
(* Which canonical object a Salesforce record belongs to, decided twice:   *)
(* the poll selects the records of each object by SOQL                     *)
(* (compileConditionSoql() of salesforceConnector.ts); for a webhook       *)
(* resolveCanonicalType() (engine/typeResolver.ts) evaluates the same      *)
(* conditions itself (evaluateConditions() of core/syncConfig.ts).         *)
(*                                                                         *)
(* The canonical objects of one native object have conditions on one field *)
(* of it.  The field holds numbers or texts, and the conditions fit it; a  *)
(* text is a set of letters, so that one may contain another, with or      *)
(* without capitals.                                                       *)
(***************************************************************************)
EXTENDS Naturals, FiniteSets

CONSTANTS
  Siblings,    \* how many canonical objects share the native object
  MaxNumber,   \* bound: numbers in the field and in conditions
  Letters      \* the letters of texts

VARIABLES
  conditions,  \* per canonical object, in registry order: its conditions
  rawSoql,     \* the objects with an advanced SOQL condition besides
  rawMet,      \* the record meets the advanced conditions
  value        \* the value of the record's field

conditionVars == <<conditions, rawSoql, rawMet, value>>

Sibling == 1..Siblings

FieldValue(numbers, texts, capitals) ==
  [number : numbers, letters : texts, capital : capitals]

Blank   == [number |-> 0, letters |-> {}, capital |-> FALSE]
Numbers == FieldValue(0..MaxNumber, {{"#"}}, {FALSE})
Texts   == FieldValue({0}, (SUBSET Letters) \ {{}}, BOOLEAN)

Conditions(operators, values) ==
  {{}} \cup {{c} : c \in [operator : operators, than : values]}

InitConditions ==
  /\ \/ /\ value \in Numbers \cup {Blank}
        /\ conditions \in [Sibling -> Conditions(
             {"eq", "ne", "gt", "lt", "is_null", "is_not_null"}, Numbers)]
     \/ /\ value \in Texts \cup {Blank}
        /\ conditions \in [Sibling -> Conditions(
             {"eq", "ne", "contains", "is_null", "is_not_null"}, Texts)]
  /\ rawSoql \in {{}, {1}}
  /\ rawMet = TRUE
-----------------------------------------------------------------------------

\* Mutant: texts are compared with regard to case.
SameTextExactly(v, w) == v = w

\* How evaluateConditions() compares: both as lower-case text.
SameText(v, w) == v.number = w.number /\ v.letters = w.letters

\* evaluateConditions(): null is the empty text, and the number 0.
Evaluated(c, v) ==
  CASE c.operator = "is_null"     -> v = Blank
    [] c.operator = "is_not_null" -> v # Blank
    [] c.operator = "eq"          -> SameText(v, c.than)
    [] c.operator = "ne"          -> ~SameText(v, c.than)
    [] c.operator = "gt"          -> v.number > c.than.number
    [] c.operator = "lt"          -> v.number < c.than.number
    [] c.operator = "contains"    -> c.than.letters \subseteq v.letters

\* The comparison compileConditionSoql() writes, as SOQL evaluates it: texts
\* without regard to case; null is in no order and unlike every value.
Selected(c, v) ==
  CASE c.operator = "is_null"     -> v = Blank
    [] c.operator = "is_not_null" -> v # Blank
    [] c.operator = "eq" ->
         v.number = c.than.number /\ v.letters = c.than.letters
    [] c.operator = "ne" ->
         v.number # c.than.number \/ v.letters # c.than.letters
    [] c.operator = "gt" -> v # Blank /\ v.number > c.than.number
    [] c.operator = "lt" -> v # Blank /\ v.number < c.than.number
    [] c.operator = "contains" ->
         v # Blank /\ c.than.letters \subseteq v.letters

\* soql(): the structured conditions and the advanced one
Polled(t) ==
  /\ \A c \in conditions[t] : Selected(c, value)
  /\ t \in rawSoql => rawMet

\* resolveCanonicalType(): the only object, or the first whose structured
\* conditions the record meets; 0 if none does, or if none has any.
ResolvedType ==
  LET meeting == {t \in Sibling : \A c \in conditions[t] : Evaluated(c, value)}
  IN IF Siblings = 1 THEN 1
     ELSE IF meeting = {} \/ \A t \in Sibling : conditions[t] = {} THEN 0
     ELSE CHOOSE t \in meeting : \A u \in meeting : t <= u

\* A user edits the record.
EditField ==
  /\ value' \in IF value \in Numbers THEN Numbers \cup {Blank}
                ELSE IF value \in Texts THEN Texts \cup {Blank} ELSE {Blank}
  /\ rawMet' \in BOOLEAN
  /\ UNCHANGED <<conditions, rawSoql>>

ConditionSpec == InitConditions /\ [][EditField]_conditionVars
-----------------------------------------------------------------------------
(* Properties *)

\* The type a webhook is resolved to is one whose poll lists the record, and
\* a record only one poll lists is resolved to that type: it reaches the
\* same canonical object by both ways.  Left out are the two cases the next
\* properties are about, and a native object none of whose objects has a
\* condition (the resolver drops its events and says so).
Distinguished == \E t \in Sibling : conditions[t] # {}

ByAnyWay ==
  LET polledBy == {t \in Sibling : Polled(t)}
  IN /\ ResolvedType # 0 => ResolvedType \in polledBy
     /\ Cardinality(polledBy) = 1 => ResolvedType \in polledBy

OrderOfBlank ==
  value = Blank /\ \E t \in Sibling : \E c \in conditions[t] : c.operator = "lt"

\* Resolver and poll agree for structured conditions.
ResolvedAsPolled ==
  Siblings > 1 /\ Distinguished /\ ~OrderOfBlank /\ rawSoql = {} => ByAnyWay

\* evaluateConditions() is "the reference behavior a connector's compiled
\* SOQL/search-filter must match" (syncConfig.ts:139-144).  Not for null:
\* Number(null) is 0, which is less than a positive number.
BlankIsOrderedAlike ==
  Siblings > 1 /\ Distinguished /\ rawSoql = {} => ByAnyWay

\* Nor with an advanced condition, which the resolver cannot evaluate: it
\* syncs a record the poll of the type leaves out.
AdvancedIsHeeded ==
  Siblings > 1 /\ Distinguished /\ ~OrderOfBlank => ByAnyWay

=============================================================================
