----------------------------- MODULE MCClusterTools -----------------------------
(* Two calls on one Deployment and one circuit breaker. *)
EXTENDS ClusterTools
================================================================================
