----------------------------- MODULE MCK8sSessions -----------------------------
(* Instances of K8sSessions for TLC: one session id and everyone who uses it. *)
EXTENDS K8sSessions

CONSTANTS s1

\* The calls are all about one id: a client that retries, and retries to close.
MCCreateIdOf == [c \in Creators |-> s1]
MCCloseIdOf == [q \in Closers |-> s1]

\* newK8sSessionID gives ids that sanitizeLabelValue leaves as they are.
MCLabelKept == [i \in IDs |-> i]
================================================================================
