--------------------------- MODULE PreflightChecks ---------------------------
(***************************************************************************)
(* What a preflight report promises of a migration's writes:               *)
(* PreflightService.run() and profileNaturalKeys() of engine/preflight.ts  *)
(* against fromCanonicalFields() of core/mapping.ts.                       *)
(*                                                                         *)
(* A schema is a function from native names to field descriptions; a rule  *)
(* maps one canonical field to a native name.  Types are the groups        *)
(* compatible() sorts them into.  A rule has a transform to and one from   *)
(* the canonical value: "unset", "identity", which the dashboard saves in  *)
(* every rule and which does nothing, or "set", any other.  The check is   *)
(* one step: run() judges nothing but the replies of its own describe()    *)
(* and list() calls.                                                       *)
(***************************************************************************)
EXTENDS Naturals, FiniteSets

CONSTANTS
  Mappings,    \* pairs [source, target] of rule sets, per mapping to try
  SchemaPairs, \* pairs [source, target] of schemas to try
  \* What keyProfile() may find in the sampled records: source records without
  \* a key, keys of several source and of several target records; or that the
  \* list() calls failed.
  KeyProfiles

VARIABLES
  mapping,  \* TABLES of the type: rules of the source and the target
  schema,   \* what describe() answers for the source and the target
  profile,  \* what the sampled records show of the natural keys
  report    \* the report, or [at |-> "none"]

checkVars == <<mapping, schema, profile, report>>


Problem(severity, code, field) ==
  [severity |-> severity, code |-> code, field |-> field]

\* A dotted path is looked up by its root, which stands for its name here.
Has(s, name) == name \in DOMAIN schema[s]

SourceRuleOf(rule) == {r \in mapping.source : r.canonical = rule.canonical}
-----------------------------------------------------------------------------

SourceProblems(rule) ==
  IF Has("source", rule.native) THEN {}
  ELSE IF rule.dotted
  THEN {Problem("warning", "RELATIONSHIP_FIELD_UNVERIFIED", rule.native)}
  ELSE {Problem("error", "SOURCE_FIELD_MISSING", rule.native)}

MissingProblems(rule) ==
  IF ~Has("target", rule.native) /\ ~rule.readOnly /\ ~rule.dotted
  THEN {Problem("error", "TARGET_FIELD_MISSING", rule.native)} ELSE {}

ReadOnlyProblems(rule) ==
  IF Has("target", rule.native) /\ schema["target"][rule.native].readOnly
     /\ ~rule.readOnly
  THEN {Problem("error", "TARGET_FIELD_READ_ONLY", rule.native)} ELSE {}

\* Mutant: two transforms count as two-way though they are the identity.
AnyPair(rule) == rule.to # "unset" /\ rule.from # "unset"

\* isBidirectional(): a transform to and from, neither of them the identity
Bidirectional(rule) == rule.to = "set" /\ rule.from = "set"

\* The severity tests the names for being there, so that an identity counts.
TypeProblems(rule) ==
  {Problem(IF rule.to # "unset" \/ rule.from # "unset" THEN "warning" ELSE "error",
           "FIELD_TYPE_MISMATCH", rule.canonical) :
     r \in {r \in SourceRuleOf(rule) :
              /\ Has("source", r.native) /\ Has("target", rule.native)
              /\ schema["source"][r.native].group
                   # schema["target"][rule.native].group
              /\ ~Bidirectional(rule) /\ ~Bidirectional(r)}}

OptionProblems(rule) ==
  {Problem("warning", "ENUM_VALUES_REQUIRE_REVIEW", rule.canonical) :
     r \in {r \in SourceRuleOf(rule) :
              /\ Has("source", r.native) /\ Has("target", rule.native)
              /\ schema["source"][r.native].group = "enum"
              /\ schema["target"][rule.native].group = "enum"}}

RequiredProblems ==
  {Problem("error", "REQUIRED_TARGET_UNMAPPED", name) :
     name \in {n \in DOMAIN schema["target"] :
                 /\ schema["target"][n].required
                 /\ ~schema["target"][n].readOnly
                 /\ \A rule \in mapping.target : rule.native # n}}

KeyProblem(found, severity, code) ==
  IF found THEN {Problem(severity, code, "key")} ELSE {}

KeyProblems ==
  IF ~profile.sampled
  THEN {Problem("warning", "NATURAL_KEY_PROFILE_UNAVAILABLE", "key")}
  ELSE KeyProblem(profile.missing, "warning", "NATURAL_KEY_MISSING_VALUES")
       \cup KeyProblem(profile.sourceTwins, "warning",
                       "SOURCE_NATURAL_KEY_DUPLICATES")
       \cup KeyProblem(profile.targetTwins, "error",
                       "TARGET_NATURAL_KEY_DUPLICATES")

Problems ==
  (UNION {SourceProblems(r) : r \in mapping.source})
  \cup (UNION {MissingProblems(r) \cup ReadOnlyProblems(r)
               \cup TypeProblems(r) \cup OptionProblems(r) :
                 r \in mapping.target})
  \cup RequiredProblems \cup KeyProblems

NoReport == [at |-> "none"]

InitCheck ==
  /\ mapping \in Mappings
  /\ schema \in SchemaPairs
  /\ profile \in KeyProfiles
  /\ report = NoReport

RunPreflight ==
  /\ report = NoReport
  /\ report' = [at |-> "done", issues |-> Problems,
                ok |-> \A i \in Problems : i.severity # "error"]
  /\ UNCHANGED <<mapping, schema, profile>>

CheckSpec == InitCheck /\ [][RunPreflight]_checkVars
-----------------------------------------------------------------------------
(* fromCanonicalFields(): what the migration then writes *)

\* The rules whose field a record of the source carries to the target.
WrittenRules ==
  {r \in mapping.target :
     ~r.readOnly /\ ~r.dotted /\ SourceRuleOf(r) # {}}

\* The rules of the source whose value is written to a field of another type.
Mismatched(r) ==
  {q \in SourceRuleOf(r) :
     /\ Has("source", q.native) /\ Has("target", r.native)
     /\ schema["source"][q.native].group # schema["target"][r.native].group}

\* A passed preflight rules out a write of a field that the target lacks or that
\* is read-only there, and a value of another type is only written by a
\* transform that goes both ways or under a warning.
PassedIsWritable ==
  report # NoReport /\ report.ok =>
    \A r \in WrittenRules :
      /\ Has("target", r.native)
      /\ ~schema["target"][r.native].readOnly
      /\ \A q \in Mismatched(r) :
           \/ \E rule \in {q, r} : rule.to = "set" /\ rule.from = "set"
           \/ Problem("warning", "FIELD_TYPE_MISMATCH", r.canonical)
                \in report.issues

\* Does not hold: a mismatch is an error unless one of its rules has a transform;
\* an explicit identity counts as one.
UntransformedIsBlocked ==
  report # NoReport /\ report.ok =>
    \A r \in WrittenRules : \A q \in Mismatched(r) :
      "set" \in {r.to, r.from, q.to, q.from}

\* Does not hold: a transform on one side makes the mismatch a warning; one on the
\* source's rule does not.
OneSidedIsWarned ==
  report # NoReport =>
    \A r \in WrittenRules : \A q \in Mismatched(r) :
      "set" \in {r.to, r.from, q.to, q.from} =>
        Problem("error", "FIELD_TYPE_MISMATCH", r.canonical) \notin report.issues

\* Does not hold: a required field counts as mapped when a rule names it,
\* also a read-only rule or one whose canonical field no source rule fills.
RequiredIsWritten ==
  report # NoReport /\ report.ok =>
    \A n \in DOMAIN schema["target"] :
      schema["target"][n].required /\ ~schema["target"][n].readOnly
      => \E r \in WrittenRules : r.native = n

=============================================================================
