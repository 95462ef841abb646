------------------------------- MODULE EventLog -------------------------------
(***************************************************************************)
(* What the event outbox promises to consumers of the WORKSPACE_EVENTS     *)
(* stream: every event that was accepted is seen, in the order in which    *)
(* events were accepted.  How often an event is repeated after it was      *)
(* first seen is not part of the promise (delivery is at least once).      *)
(***************************************************************************)
EXTENDS Naturals, Sequences

CONSTANT Events

VARIABLES log,   \* accepted events, oldest first
          seen   \* events in the order in which consumers first see them

logVars == <<log, seen>>

Init == log = <<>> /\ seen = <<>>

Accept(e) == log' = Append(log, e) /\ UNCHANGED seen

Deliver ==
  /\ Len(seen) < Len(log)
  /\ seen' = Append(seen, log[Len(seen) + 1])
  /\ UNCHANGED log

Next == (\E e \in Events : Accept(e)) \/ Deliver

Spec == Init /\ [][Next]_logVars

FairSpec == Spec /\ WF_logVars(Deliver)
==============================================================================
