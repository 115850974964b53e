------------------------------ MODULE MCPlatform ------------------------------
(* Finite instances of Platform for TLC. *)
EXTENDS Platform, TLC

CONSTANTS a1, a2, c1, c2, c3

TwoActors  == {a1, a2}
ThreeCalls == {c1, c2, c3}
PlatformSymmetry == Permutations(TwoActors)

-----------------------------------------------------------------------------
(* Fields: a text in both CRMs; a number or a flag that HubSpot keeps as    *)
(* text, with and without a transform on its rule; the encodings the        *)
(* dashboard offers for HubSpot's enumerations; a date; a stage mapped      *)
(* value by value.                                                          *)

Rule(to, from) == [to |-> to, from |-> from]
Empty == <<"null", "">>
Plain == Rule("identity", "identity")
Field_(sf, hs, table, sfValues, hsValues) ==
  [rule    |-> [salesforce |-> sf, hubspot |-> hs],
   rows    |-> table,
   entered |-> [salesforce |-> {Empty} \cup sfValues,
                hubspot    |-> {Empty} \cup hsValues]]

Texts(S)   == {"text"} \X S
Numbers(S) == {"number"} \X S
Flags      == {"boolean"} \X {"true", "false"}
Stage(c, sf, hs) == [canonical |-> c, salesforce |-> sf, hubspot |-> hs]

NumberField(r) == Field_(Plain, r, <<>>, Numbers({"0", "1"}), Texts({"0", "1"}))
FlagField(r, words) == Field_(Plain, r, <<>>, Flags, Texts(words))

FittingFields ==
  {Field_(Plain, Plain, <<>>, Texts({"Yes", "Other"}), Texts({"no", "Other"})),
   NumberField(Plain), NumberField(Rule("number", "identity")),
   NumberField(Rule("number", "number")),
   FlagField(Plain, {"true", "false"}),
   FlagField(Rule("boolean", "identity"), {"true", "false"}),
   FlagField(Rule("yes-no", "yes-no"), {"Yes", "yes", "no", "1"}),
   FlagField(Rule("true-false", "true-false"), {"true", "false"}),
   Field_(Plain, Rule("iso-date", "identity"), <<>>, Texts({"at"}), Texts({"at"})),
   Field_(Rule("epoch-millis", "epoch-millis"), Plain, <<>>,
          Numbers({"millis"}), Texts({"at"}))}
  \cup
  {Field_(r, r, table, Texts({"Other", "no"}), Texts({"Yes", "yes", "true"})) :
     r \in {Rule("lowercase", "identity"), Rule("lowercase", "lowercase")},
     table \in {<<>>, <<Stage("won", "other", "yes"), Stage("lost", "no", "true")>>}}

ASSUME \A field \in FittingFields : Field!Fits(field)

\* A property of HubSpot that stores a date as a number.
EpochField ==
  {Field_(Plain, Rule("epoch-millis", "epoch-millis"), <<>>,
          Texts({"at"}), Numbers({"millis"}))}

\* Two stages of Salesforce that are one in HubSpot.
SharedStage ==
  {Field_(Plain, Plain, <<Stage("won", "yes", "true"), Stage("lost", "no", "true")>>,
          Texts({"yes", "no"}), {})}

\* A flag whose rules make a number of it in one CRM and a word in the other.
MixedField ==
  {Field_(Rule("number", "number"), Rule("yes-no", "yes-no"), <<>>, Flags, {})}

UnfittingFields == EpochField \cup SharedStage \cup MixedField

-----------------------------------------------------------------------------
(* Preflight: up to two canonical fields p and q, of which q may have no     *)
(* source; the target has the fields x and y.                                *)

MappingRule(c, n, ro, to, from, dotted) ==
  [canonical |-> c, native |-> n, readOnly |-> ro, to |-> to, from |-> from,
   dotted |-> dotted]

Transforms == {"unset", "identity", "set"} \X {"unset", "identity", "set"}

SourceRules ==
  {{MappingRule("p", "a", FALSE, t[1], t[2], FALSE)} : t \in Transforms}
  \cup {{MappingRule("p", "a", FALSE, "unset", "unset", TRUE)}}

TargetRules ==
  {{MappingRule("p", "x", ro, t[1], t[2], FALSE)} \cup Q :
     ro \in BOOLEAN, t \in Transforms,
     Q \in {{}, {MappingRule("q", "y", FALSE, "unset", "unset", FALSE)},
            {MappingRule("p", "y", TRUE, "unset", "unset", FALSE)}}}

FewMappings == [source : SourceRules, target : TargetRules]

Description(groups, readOnly, required) ==
  [group : groups, readOnly : readOnly, required : required]

\* Schemas that describe some of the names.
Schemas(names, descriptions) ==
  UNION {[D -> descriptions] : D \in SUBSET names}

FewSchemas ==
  [source : Schemas({"a"}, Description({"number", "enum"}, {FALSE}, {FALSE})),
   target : Schemas({"x", "y"}, Description({"number"}, BOOLEAN, BOOLEAN))
            \cup Schemas({"x"}, Description({"enum"}, {FALSE}, BOOLEAN))]

Profile(missing, source, target, sampled) ==
  [missing |-> missing, sourceTwins |-> source, targetTwins |-> target,
   sampled |-> sampled]

FewProfiles ==
  {Profile(FALSE, FALSE, FALSE, TRUE), Profile(TRUE, TRUE, FALSE, TRUE),
   Profile(FALSE, FALSE, TRUE, TRUE), Profile(FALSE, FALSE, FALSE, FALSE)}
=============================================================================
