--------------------------- MODULE FieldConversion ---------------------------
(***************************************************************************)
(* What a field's value becomes on its way between the CRMs: the mapping   *)
(* engine of core/mapping.ts and the content hash of core/idMap.ts.        *)
(*                                                                         *)
(* One canonical field and its rule in each system.  A user gives the      *)
(* field a value in one CRM; each step carries the change the connector    *)
(* reports there to the other CRM, as Reconciler.reconcile() does, unless  *)
(* the content hash shows it as our own write.                             *)
(*                                                                         *)
(* A FieldValue is a pair of its JavaScript type and its text.  Texts      *)
(* differ in what the transforms tell apart: letter case, the spellings of *)
(* a boolean, whether it is a number, a time ("at", an ISO date, is the    *)
(* moment of the number "millis").                                         *)
(***************************************************************************)
EXTENDS Naturals, Sequences

CONSTANTS
  \* The fields to try: per system a rule, the transforms in each direction,
  \* and the values users enter there; the rows of value_mappings, in order.
  ConfiguredFields,
  MaxCarried    \* bound: changes carried in a behaviour

FieldSystem == {"salesforce", "hubspot"}
Opposite(s) == IF s = "salesforce" THEN "hubspot" ELSE "salesforce"

VARIABLES
  rule,     \* TABLES: the field's rule, per system
  rows,     \* VALUE_MAPPINGS of the field
  native,   \* the value of the field, per system
  hashOf,   \* link.hashes: the content hash recorded, per system
  reported, \* the system whose connector reports a change, or "none"
  carried   \* changes written to the other system

fieldVars == <<rule, rows, native, hashOf, reported, carried>>

NoValue   == <<"null", "">>
Text(s)   == <<"text", s>>
Number(s) == <<"number", s>>
Flag(s)   == <<"boolean", s>>

IsText(v) == v[1] = "text"

-----------------------------------------------------------------------------
(* transform() *)

Lower(s) == CASE s = "Yes" -> "yes" [] s = "Other" -> "other" [] OTHER -> s

Numeral  == {"0", "1", "millis"}
BoolText(b) == IF b THEN "true" ELSE "false"

\* new Date(value): the moment of an ISO text, the text of a moment
AsTime(v) ==
  CASE v = Number("millis") -> Text("at")
    [] v = Text("at")       -> Number("millis")
    [] OTHER                -> v

ToNumber(v) ==
  CASE v[1] = "text" /\ v[2] \notin Numeral -> NoValue
    [] v[1] \in {"text", "number"}          -> Number(v[2])
    [] v[1] = "boolean" -> Number(IF v[2] = "true" THEN "1" ELSE "0")
    [] OTHER            -> NoValue

ToBoolean(v) ==
  CASE v[1] = "text"   -> Flag(BoolText(Lower(v[2]) \in {"true", "1", "yes"}))
    [] v[1] = "number" -> Flag(BoolText(v[2] # "0"))
    [] OTHER           -> v

\* 'yes-no' and 'true-false': the type of the input gives the direction
Spelled(v, yes, no, true) ==
  CASE v[1] = "boolean" -> Text(IF v[2] = "true" THEN yes ELSE no)
    [] v[1] = "text"    -> Flag(BoolText(Lower(v[2]) \in true))
    [] OTHER            -> v

Transformed(id, v) ==
  CASE id = "lowercase"    -> IF IsText(v) THEN Text(Lower(v[2])) ELSE v
    [] id = "number"       -> ToNumber(v)
    [] id = "boolean"      -> ToBoolean(v)
    [] id = "yes-no"       -> Spelled(v, "yes", "no", {"yes", "true", "1"})
    [] id = "true-false"   -> Spelled(v, "true", "false", {"true"})
    [] id = "iso-date"     -> IF v[1] = "number" THEN AsTime(v) ELSE v
    [] id = "epoch-millis" -> AsTime(v)
    [] OTHER               -> v
-----------------------------------------------------------------------------
(* Value mappings: the first row that matches *)

\* What the first row of table with this value in one column has in the
\* other, and the value itself without one.
Looked(table, column, wanted, v) ==
  LET matching == {n \in DOMAIN table : table[n][column] = v[2]}
      first    == CHOOSE n \in matching : \A m \in matching : n <= m
  IN IF ~IsText(v) \/ matching = {} \/ table[first][wanted] = "" THEN v
     ELSE Text(table[first][wanted])

ToCanonicalValue(s, v)   == Looked(rows, s, "canonical", v)
FromCanonicalValue(s, v) == Looked(rows, "canonical", s, v)

ToCanonicalField(s, v)   == ToCanonicalValue(s, Transformed(rule[s].to, v))
FromCanonicalField(s, c) ==
  Transformed(rule[s].from, FromCanonicalValue(s, c))

\* Mutant: the hash tells 1 from "1" and true from "true".
ContentHashTyped(c) == c[1] \o c[2]

\* contentHash(): the text of every value
ContentHash(c) == c[2]

\* What a CRM gives back for a value written to it: HubSpot's properties
\* are texts.
Kept(s, v) == IF s = "hubspot" /\ v # NoValue THEN Text(v[2]) ELSE v
-----------------------------------------------------------------------------

InitField ==
  /\ \E field \in ConfiguredFields, s \in FieldSystem :
       /\ rule = field.rule
       /\ rows = field.rows
       /\ reported = s
       /\ \E v \in field.entered[s] :
            native = [o \in FieldSystem |-> IF o = s THEN v ELSE NoValue]
  /\ hashOf = [s \in FieldSystem |-> "none"]
  /\ carried = 0

\* The change is our own write: its hash is the one recorded.
RecogniseEcho ==
  /\ reported # "none"
  /\ hashOf[reported] = ContentHash(ToCanonicalField(reported, native[reported]))
  /\ reported' = "none"
  /\ UNCHANGED <<rule, rows, native, hashOf, carried>>

\* The change is carried to the other CRM, whose connector reports it next.
CarryChange ==
  LET from == reported
      to   == Opposite(reported)
      c    == ToCanonicalField(from, native[from])
  IN /\ reported # "none"
     /\ carried < MaxCarried
     /\ hashOf[from] # ContentHash(c)
     /\ native' = [native EXCEPT ![to] = Kept(to, FromCanonicalField(to, c))]
     /\ hashOf' = [s \in FieldSystem |-> ContentHash(c)]
     /\ reported' = to
     /\ carried' = carried + 1
     /\ UNCHANGED <<rule, rows>>

NextField == RecogniseEcho \/ CarryChange

FieldSpec == InitField /\ [][NextField]_fieldVars
-----------------------------------------------------------------------------

(* Properties *)

FieldTypeOK ==
  /\ \A s \in FieldSystem :
       native[s][1] \in {"null", "text", "number", "boolean"}
  /\ reported \in FieldSystem \cup {"none"}
  /\ carried \in 0..MaxCarried

\* The columns of value_mappings, each of which names every row by itself.
OneToOne(table) ==
  /\ DOMAIN table \subseteq Nat
  /\ \A k \in FieldSystem \cup {"canonical"}, n, m \in DOMAIN table :
       table[n][k] # "" /\ (table[n][k] = table[m][k] => n = m)

\* A text in both CRMs, as it is or in lower case, its values translated row by
\* row: a value without a row is not taken for one that has a row over there.
TextField(field) ==
  LET table     == field.rows
      Column(k) == {table[n][k] : n \in DOMAIN table}
      Fold(t)   == IF field.rule["hubspot"].to = "lowercase" THEN Lower(t) ELSE t
  IN /\ \/ \A s \in FieldSystem :
             field.rule[s] = [to |-> "identity", from |-> "identity"]
        \/ \A s \in FieldSystem : /\ field.rule[s].to = "lowercase"
                                  /\ field.rule[s].from \in {"identity", "lowercase"}
     /\ OneToOne(table)
     /\ \A k \in FieldSystem \cup {"canonical"} : \A t \in Column(k) : Fold(t) = t
     /\ \A s \in FieldSystem : \A v \in field.entered[s] :
          v = NoValue \/ /\ v = Text(v[2])
                         /\ \/ Fold(v[2]) \in Column(s) \cup Column("canonical")
                            \/ Fold(v[2]) \notin Column(Opposite(s))

\* A number, a flag or a moment that one CRM keeps as a text, with the rules
\* that read such a text.
TypedField(field) ==
  LET Rules(sf, hs) ==
        /\ field.rule["salesforce"] = [to |-> sf[1], from |-> sf[2]]
        /\ field.rule["hubspot"] = [to |-> hs[1], from |-> hs[2]]
      Values(sf, hs) ==
        /\ field.entered["salesforce"] \subseteq {NoValue} \cup sf
        /\ field.entered["hubspot"] \subseteq {NoValue} \cup hs
      plain == <<"identity", "identity">>
      flags == {Flag("true"), Flag("false")}
      words == {Text("true"), Text("false")}
  IN /\ field.rows = <<>>
     /\ \/ /\ \/ Rules(plain, plain) \/ Rules(plain, <<"number", "identity">>)
              \/ Rules(plain, <<"number", "number">>)
           /\ Values({Number(n) : n \in Numeral}, {Text(n) : n \in Numeral})
        \/ /\ \/ Rules(plain, plain) \/ Rules(plain, <<"boolean", "identity">>)
              \/ Rules(plain, <<"true-false", "true-false">>)
           /\ Values(flags, words)
        \/ /\ Rules(plain, <<"yes-no", "yes-no">>)
           /\ Values(flags, {Text("Yes"), Text("yes"), Text("no"), Text("1")})
        \/ /\ Rules(plain, <<"iso-date", "identity">>)
           /\ Values({Text("at")}, {Text("at")})
        \/ /\ Rules(<<"epoch-millis", "epoch-millis">>, plain)
           /\ Values({Number("millis")}, {Text("at")})

\* The rules of the field fit its values.
Fits(field) == TextField(field) \/ TypedField(field)

\* For a field that Fits, whose rules fit its values and whose rows are
\* one-to-one, the value one CRM is given reads back from it as the canonical value that was
\* carried: one write carries a change, and its echo is seen as ours
\* whatever types the two CRMs keep the value in.  Were it not, each CRM's
\* echo would be written to the other without end.
EchoEnds == carried <= 1

=============================================================================
