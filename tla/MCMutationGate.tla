--------------------------- MODULE MCMutationGate ---------------------------
(* Instances of MutationGate for TLC.                                       *)
EXTENDS MutationGate, TLC

CONSTANTS c1, c2, v1, p1, x, y

MCCalls       == {c1, c2}
MCOneValidation == {v1}
MCPings       == {p1}

\* v1 validates a field of a leased receiver.
MCFields  == v1 :> "read_field"
MCValues  == v1 :> x

Request(k, v, r, a) == [command |-> k, validation |-> v, receiver |-> r, value |-> a]
\* The value of a field is free: the approval alone fixes it.
MCFieldCalls ==
  {Request("set_field", v1, v1, x), Request("set_field", v1, v1, y),
   Request("invoke_method", v1, v1, x)}
=============================================================================
