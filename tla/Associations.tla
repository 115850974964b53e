---------------------------- MODULE Associations ----------------------------
(* The relations of one record: AssociationEngine.syncRecord() between the    *)
(* parent lookups of Salesforce, each with one value, and HubSpot's           *)
(* associations, a set. It runs after the record itself was reconciled.       *)
(* Salesforce may have no lookup to the type at all, as from companies to     *)
(* contacts; its associate() then does nothing, and the engine goes on as if  *)
(* it had.                                                                    *)
EXTENDS Naturals, FiniteSets

CONSTANTS
  Parent,       \* records of the related type
  Nobody,       \* an empty lookup
  MaxEdits,     \* bound: edits in either CRM
  MaxFailed     \* bound: calls that fail

\* Parent lookups to the type, in the order of describe(), as far as there are any.
Lookup == {1, 2}
Descriptions == {{}, {1}, Lookup}

System == {"salesforce", "hubspot"}
Other(s) == IF s = "salesforce" THEN "hubspot" ELSE "salesforce"

VARIABLES
  lookups,   \* Salesforce: the value of each lookup it has to the type
  related,   \* HubSpot: the associated records
  linked,    \* id map: the parents that have a record in both CRMs
  syncing,   \* syncRecord() per source: the associations left to go through
  links,     \* association_links: parents, by the kind of the source
  made,      \* history: the associations each CRM really made
  edits, failed

assocVars == <<lookups, related, linked, syncing, links, made, edits, failed>>

\* A listed association: the parent, and the kind, which is the lookup's label
\* or the canonical type.
Listed == Parent \X (Lookup \cup {0})

Resting == [at |-> "rest", todo |-> {}, now |-> <<>>]

Init ==
  /\ \E L \in Descriptions : lookups = [l \in L |-> Nobody]
  /\ related = {}
  /\ linked \in SUBSET Parent
  /\ syncing = [s \in System |-> Resting]
  /\ links = {} /\ made = {}
  /\ edits = 0 /\ failed = 0

-----------------------------------------------------------------------------
EditLookup(l) ==
  /\ l \in DOMAIN lookups /\ edits < MaxEdits
  /\ \E p \in Parent \cup {Nobody} : lookups' = [lookups EXCEPT ![l] = p]
  /\ edits' = edits + 1
  /\ UNCHANGED <<related, linked, syncing, links, made, failed>>

EditRelated ==
  /\ edits < MaxEdits
  /\ \E p \in Parent :
       related' = IF p \in related THEN related \ {p} ELSE related \cup {p}
  /\ edits' = edits + 1
  /\ UNCHANGED <<lookups, linked, syncing, links, made, failed>>

\* The parent itself is reconciled.
LinkParent(p) ==
  /\ p \notin linked
  /\ linked' = linked \cup {p}
  /\ UNCHANGED <<lookups, related, syncing, links, made, edits, failed>>

\* listAssociations()
List(s) ==
  IF s = "salesforce"
    THEN {<<lookups[l], l>> : l \in {k \in DOMAIN lookups : lookups[k] # Nobody}}
    ELSE related \X {0}

SyncRecord(s) ==
  /\ syncing[s].at = "rest"
  /\ syncing' = [syncing EXCEPT ![s] = [Resting EXCEPT !.at = "next",
                                                       !.todo = List(s)]]
  /\ UNCHANGED <<lookups, related, linked, links, made, edits, failed>>

\* The next association of the list: if its other record has no counterpart it is
\* deferred, which is a number in the result and nothing else.
Defer(s) ==
  /\ syncing[s].at = "next"
  /\ \E a \in syncing[s].todo :
       /\ a[1] \notin linked
       /\ syncing' = [syncing EXCEPT ![s].todo = @ \ {a}]
  /\ UNCHANGED <<lookups, related, linked, links, made, edits, failed>>

\* associate() of Salesforce sets its first lookup to the type, whichever relation
\* the association came from, and returns without a word if it has none ...
SetLookup(p) ==
  /\ lookups' = [l \in DOMAIN lookups |-> IF l = 1 THEN p ELSE lookups[l]]
  /\ UNCHANGED related

\* ... and that of HubSpot adds the association.
AddRelated(p) == related' = related \cup {p} /\ UNCHANGED lookups

\* A CRM can hold the association.
CanHold(s) == s = "hubspot" \/ DOMAIN lookups # {}

Associate(s) ==
  /\ syncing[s].at = "next"
  /\ \E a \in syncing[s].todo :
       /\ a[1] \in linked
       /\ IF s = "salesforce" THEN AddRelated(a[1]) ELSE SetLookup(a[1])
       /\ made' = IF CanHold(Other(s)) THEN made \cup {<<Other(s), a[1]>>} ELSE made
       /\ syncing' = [syncing EXCEPT ![s] = [at |-> "record", now |-> a,
                                            todo |-> @.todo \ {a}]]
  /\ UNCHANGED <<linked, links, edits, failed>>

\* Mutant: the link is recorded although the call failed.
LinkAnyway(s) == links' = links \cup {<<Other(s), a[1], a[2]>> : a \in syncing[s].todo}

NoLink(s) == UNCHANGED links

\* A call fails: syncRecord() throws.
SyncFails(s) ==
  /\ syncing[s].at # "rest" /\ failed < MaxFailed
  /\ failed' = failed + 1
  /\ NoLink(s)
  /\ syncing' = [syncing EXCEPT ![s] = Resting]
  /\ UNCHANGED <<lookups, related, linked, made, edits>>

\* store.upsert(), by a hash of both ends, kind and label, whatever associate() did
RecordLink(s) ==
  /\ syncing[s].at = "record"
  /\ links' = links \cup {<<Other(s), syncing[s].now[1], syncing[s].now[2]>>}
  /\ syncing' = [syncing EXCEPT ![s].at = "next", ![s].now = <<>>]
  /\ UNCHANGED <<lookups, related, linked, made, edits, failed>>

Synced(s) ==
  /\ syncing[s].at = "next" /\ syncing[s].todo = {}
  /\ syncing' = [syncing EXCEPT ![s] = Resting]
  /\ UNCHANGED <<lookups, related, linked, links, made, edits, failed>>

Next == \/ EditRelated \/ \E l \in Lookup : EditLookup(l)
        \/ \E p \in Parent : LinkParent(p)
        \/ \E s \in System : \/ SyncRecord(s) \/ Defer(s) \/ Associate(s)
                             \/ SyncFails(s) \/ RecordLink(s) \/ Synced(s)

Spec == Init /\ [][Next]_assocVars

-----------------------------------------------------------------------------
TypeOK ==
  /\ \E L \in Descriptions : lookups \in [L -> Parent \cup {Nobody}]
  /\ related \subseteq Parent
  /\ linked \subseteq Parent
  /\ \A s \in System : syncing[s].at \in {"rest", "next", "record"}
                       /\ syncing[s].todo \subseteq Listed
  /\ links \subseteq System \X Parent \X (Lookup \cup {0})
  /\ made \subseteq System \X Parent
  /\ edits \in 0 .. MaxEdits /\ failed \in 0 .. MaxFailed

\* A recorded link was made in the other CRM before, if that CRM can hold it, and
\* the related record has a counterpart: no failure between the two leaves a link
\* that never was.
RecordedIsMade ==
  \A k \in links : (CanHold(k[1]) => <<k[1], k[2]>> \in made) /\ k[2] \in linked

\* Does not hold: RecordedIsMade also of a CRM without a lookup to the type.
EveryRecordMade == \A k \in links : <<k[1], k[2]>> \in made

\* Once both sides rest and every parent is linked, the sides agree (see the
\* README for why they need not, also where Salesforce has lookups).
SidesAgree ==
  (\A s \in System : syncing[s].at = "rest") /\ linked = Parent /\ links # {}
  /\ CanHold("salesforce") =>
    {lookups[l] : l \in DOMAIN lookups} \ {Nobody} = related
=============================================================================
