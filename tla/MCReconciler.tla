---------------------------- MODULE MCReconciler ----------------------------
(* Small instances of Reconciler: contacts with a natural key, a free field *)
(* and, in one of them, a field Salesforce maps read-only.                  *)
EXTENDS Reconciler, TLC

CONSTANTS key, va, vb, vc

AllKept  == [s \in System |-> [v \in Value |-> v]]
NoFields == [s \in System |-> {}]
EmailNeeded == [s \in System |-> IF s = "hubspot" THEN {"body"} ELSE {}]

\* companyName of the default contact: Account.Name, read-only in Salesforce
CompanyReadOnly == [s \in System |-> IF s = "salesforce" THEN {"body"} ELSE {}]

\* One business key, a few bodies.
Bodies   == {[email |-> key, body |-> v] : v \in Value \ {key, Null}}
\* ... and a record whose body is blank.
OrBlank  == Bodies \cup {[email |-> key, body |-> Null]}

Symmetric == Permutations(NativeId) \cup Permutations(Value \ {key, Null})
=============================================================================
