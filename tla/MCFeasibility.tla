---------------------------- MODULE MCFeasibility ----------------------------
(***************************************************************************)
(* Small instances of Feasibility for TLC.                                 *)
(***************************************************************************)
EXTENDS Feasibility

CONSTANTS w1, b1, b2

\* A request with compatibility requirements, and one without them that forbids a
\* strategy and is of another workload generation than the context's.
SomeRequests ==
  {[workload_generation |-> 1, forbidden |-> {}, has_requirements |-> TRUE],
   [workload_generation |-> 2, forbidden |-> {"MIGRATE"}, has_requirements |-> FALSE]}

=============================================================================
