----------------------------- MODULE MCContainers ------------------------------
(* A run of every kind, and a call of any tool beside it, of the first container. *)
EXTENDS Containers

MCReqsOf(c) ==
  IF c = 1
  THEN {r \in RunReqs : /\ r.valid /\ r.named /\ ~(r.detach /\ r.remove)
                        /\ r.strict = (r.detach = r.remove)}
  ELSE {r \in RunReqs : r.named /\ r.detach /\ r.remove /\ r.strict = r.valid}
         \cup {r \in UseReqs : r.valid /\ (r.target = 1 => ~r.strict)
                                       /\ (r.target = Sim => r.tool = "exec")
                                       /\ r.target < 2}
         \cup {r \in PsReqs : r.valid /\ r.all /\ ~r.strict}
================================================================================
