--------------------------- MODULE MCPlanSelection ---------------------------
(***************************************************************************)
(* Small instances of PlanSelection for TLC.                               *)
(***************************************************************************)
EXTENDS PlanSelection

\* A candidate whose id is its place in the vector.
Candidate(id, feasible, costs, confidence) ==
  [candidate_id |-> id, generation |-> 1, strategy |-> 0, feasible |-> feasible,
   cost |-> costs, authority_confidence |-> confidence]

Cost(time, preserved, lost, units, risk) ==
  [expected_time |-> time, expected_preserved_progress |-> preserved,
   expected_lost_progress |-> lost, cost_units |-> units,
   failover_domain_risk |-> risk]

\* Three feasible candidates that differ in progress and time.
ProgressAndTime ==
  {Cost(t, p, l, 1, 0) : t \in {1, 2}, p \in {0, 1, Unknown}, l \in {0, 1}}
ThreeFeasible ==
  {<<Candidate(1, TRUE, {a}, 1), Candidate(2, TRUE, {b}, 1), Candidate(3, TRUE, {c}, 1)>> :
     a \in ProgressAndTime, b \in ProgressAndTime, c \in ProgressAndTime}

\* Up to two candidates that may be infeasible, without cost evidence, or tie in
\* progress and time and differ in units, risk and confidence.
CostTails == {{Cost(1, 1, 0, u, k)} : u \in {1, 2, Unknown}, k \in {0, 1}} \cup {{}}
Pairs ==
  {<<Candidate(1, f, a, x), Candidate(2, g, b, y)>> :
     f \in BOOLEAN, g \in BOOLEAN, a \in CostTails, b \in CostTails, x \in {0, 1}, y \in {0, 1}}
Short == {<<>>} \cup {<<Candidate(1, f, a, 1)>> : f \in BOOLEAN, a \in CostTails} \cup Pairs

AnyChoice == ThreeFeasible \cup Short

Request(deadline, duration, loss) ==
  [recovery_deadline |-> deadline, max_recovery_duration |-> duration,
   max_tolerated_progress_loss |-> loss]

\* No constraint, a deadline, a tolerance, both, and a relative deadline.
AllKinds ==
  {Request(Unknown, Unknown, Unknown), Request(6, Unknown, Unknown),
   Request(Unknown, Unknown, 0), Request(6, Unknown, 0), Request(Unknown, 1, 1)}

\* One candidate of any expected time, negative ones included.
AnyTime == {<<Candidate(1, TRUE, {Cost(t, 1, 0, 1, 0)}, 1)>> : t \in Word \cup {Unknown}}
\* One absolute deadline, or one relative one, of any value.
AnyDeadline == {Request(d, Unknown, Unknown) : d \in Word}
AnyDuration == {Request(Unknown, d, Unknown) : d \in Word}
AnyRequest == AnyDeadline \cup AnyDuration

\* Every kind of request with every choice, and every deadline with every time.
Selections == (AllKinds \X AnyChoice) \cup (AnyRequest \X AnyTime)

=============================================================================
