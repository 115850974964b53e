------------------------------- MODULE JobQueue -------------------------------
(***************************************************************************)
(* What the live sync promises of an accepted change event, without the    *)
(* queue's rows, leases, retries and processes (README, "Sync queue and    *)
(* engine"): it is never forgotten, it is carried out at least once before *)
(* it is reported as completed, and an outcome other than completion is    *)
(* one an operator can see.  SyncQueue implements it.                      *)
(***************************************************************************)
CONSTANT Job

VARIABLES
  state,  \* what is reported of each job
  done    \* the jobs carried out, or found to need nothing

queueVars == <<state, done>>

\* Not accepted, still to be worked on, stopped for an operator to decide,
\* given up by an operator, carried out.
State == {"absent", "open", "parked", "dismissed", "completed"}

Accepted(j) == state[j] # "absent"

Init ==
  /\ state = [j \in Job |-> "absent"]
  /\ done = {}

Accept(S) ==
  /\ \A j \in S : ~Accepted(j)
  /\ state' = [j \in Job |-> IF j \in S THEN "open" ELSE state[j]]
  /\ UNCHANGED done

\* Carrying a job out again is allowed: delivery is at least once.
Perform(j) ==
  /\ Accepted(j)
  /\ done' = done \cup {j}
  /\ UNCHANGED state

Report(j, outcome) ==
  /\ Accepted(j)
  /\ outcome \in State \ {"absent"}
  /\ outcome = "completed" => j \in done
  /\ state' = [state EXCEPT ![j] = outcome]
  /\ UNCHANGED done

Next ==
  \/ \E S \in SUBSET Job : Accept(S)
  \/ \E j \in Job : Perform(j) \/ \E outcome \in State : Report(j, outcome)

Spec == Init /\ [][Next]_queueVars

=============================================================================
