----------------------------- MODULE MCInvocation -----------------------------
(* Instances of Invocation for TLC. *)
EXTENDS Invocation, TLC

\* Every session belongs to one principal: the principal's window is shared.
MCPrincipalOf == [s \in Sessions |-> CHOOSE q \in Principals : TRUE]

\* Requests are interchangeable: Init and every action treat them alike.
RequestSymmetry == Permutations(Requests)

\* So are replicas: none of them is special to Valkey or to a client.
ReplicaSymmetry == Permutations(Requests) \cup Permutations(Replicas)
==============================================================================
