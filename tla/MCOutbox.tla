------------------------------- MODULE MCOutbox -------------------------------
(* Instances of Outbox for TLC: one relay, and two relays on one list. *)
EXTENDS Outbox
==============================================================================
