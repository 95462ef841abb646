------------------------------ MODULE K8sSessions ------------------------------
(***************************************************************************)
(* Sessions on Kubernetes: KubernetesManager (CreateSession, CloseSession) *)
(* and KubernetesPodJanitor of internal/adapters/workspace, with the       *)
(* Valkey session store of internal/adapters/sessionstore.                 *)
(*                                                                         *)
(* A session is a pod and a record, created and removed by separate calls  *)
(* to two services; the janitor, which sees only pod labels and records,   *)
(* collects the pods that have no session.  Time is counted in ticks: the  *)
(* ages of pods, the time to live of records and the timeout of a creation.*)
(***************************************************************************)
EXTENDS Integers, FiniteSets

CONSTANTS
  IDs,           \* session ids
  Creators,      \* calls of CreateSession
  CreateIdOf,    \* the id of each, from the client or newK8sSessionID
  Closers,       \* calls of CloseSession
  CloseIdOf,
  Labels,        \* values of the pod label workspace_id
  LabelOf,       \* sanitizeLabelValue
  NoLabel,       \* the label "unknown" of an id without a usable character
  ReadyTimeout,  \* PodReadyTimeout
  SaveLatency,   \* longest time from readiness to the end of store.Save or undo
  Grace,         \* MissingSessionGracePeriod
  TerminalTTL,   \* SessionTerminalPodTTL
  Lifetime,      \* ExpiresInSecond
  MaxCrashes     \* bound: crashes of the runtime process

ASSUME IdsTyped == CreateIdOf \in [Creators -> IDs] /\ CloseIdOf \in [Closers -> IDs]
ASSUME LabelsTyped == LabelOf \in [IDs -> Labels \cup {NoLabel}] /\ NoLabel \notin Labels
ASSUME TimesTyped == /\ {ReadyTimeout, SaveLatency, MaxCrashes} \subseteq Nat
                     /\ {Grace, TerminalTTL, Lifetime} \subseteq Nat \ {0}

VARIABLES
  pods,      \* Kubernetes: the pod of each id
  left,      \* session store: ticks each record has to live, 0 without a record
  creator,   \* where each CreateSession is
  clock,     \* ticks since it created its pod
  closer,    \* where each CloseSession is
  listed,    \* janitor: pods of the current sweep still to be looked at, as listed
  victim,    \* janitor: pods it has decided to delete
  crashes,
  savedBy,   \* history: the creations that wrote the present record of each id
  broke,     \* history: ids whose pod failed by itself
  clean      \* history: closes that began when no creation of the id was under way,
             \* none of which began since

cluster  == <<pods, broke>>
records  == <<left, savedBy>>
creation == <<creator, clock>>
sweep    == <<listed, victim>>
vars == <<cluster, records, creation, closer, sweep, crashes, clean>>

Max2(a, b) == IF a >= b THEN a ELSE b

\* Ages matter up to the larger of the two periods they are compared with.
AgeCap == Max2(Grace, TerminalTTL)

\* "failed" stands for every phase that isTerminalOrUnknownPhase names.
Phases == {"absent", "pending", "ready", "failed"}

Pod == [phase : Phases, deleting : BOOLEAN, label : Labels \cup {NoLabel}, age : 0 .. AgeCap]

NoPod == [phase |-> "absent", deleting |-> FALSE, label |-> NoLabel, age |-> 0]

TypeOK ==
  /\ pods \in [IDs -> Pod]
  /\ left \in [IDs -> 0 .. Lifetime]
  /\ creator \in [Creators -> {"idle", "wait", "save", "undo", "created", "failed",
                               "crashed"}]
  /\ clock \in [Creators -> 0 .. ReadyTimeout + SaveLatency]
  /\ closer \in [Closers -> {"idle", "get", "delete", "lookup", "remove", "closed",
                             "failed", "crashed"}]
  /\ listed \in [IDs -> Pod]
  /\ victim \subseteq IDs
  /\ crashes \in 0 .. MaxCrashes
  /\ savedBy \in [IDs -> SUBSET Creators]
  /\ broke \subseteq IDs
  /\ clean \subseteq Closers

Active == {c \in Creators : creator[c] \in {"wait", "save", "undo"}}

Init ==
  /\ pods = [i \in IDs |-> NoPod]
  /\ left = [i \in IDs |-> 0]
  /\ creator = [c \in Creators |-> "idle"]
  /\ clock = [c \in Creators |-> 0]
  /\ closer = [q \in Closers |-> "idle"]
  /\ listed = [i \in IDs |-> NoPod]
  /\ victim = {}
  /\ crashes = 0
  /\ savedBy = [i \in IDs |-> {}]
  /\ broke = {}
  /\ clean = {}

------------------------------------------------------------------------------
(* Kubernetes: external, as the manager and the janitor use it *)

\* The pod sessionPod describes, as it is when it is created.
SessionPod(i) == [phase |-> "pending", deleting |-> FALSE, label |-> LabelOf[i], age |-> 0]

\* Pods(ns).Delete by name: the pod that has the name now starts to terminate; it is
\* not an error for the callers when there is none.
DeletePod(i) ==
  pods' = IF pods[i].phase = "absent" THEN pods ELSE [pods EXCEPT ![i].deleting = TRUE]

PodReady(i) ==
  /\ pods[i].phase = "pending"
  /\ pods' = [pods EXCEPT ![i].phase = "ready"]
  /\ UNCHANGED <<broke, records, creation, closer, sweep, crashes, clean>>

PodFails(i) ==
  /\ pods[i].phase \in {"pending", "ready"}
  /\ pods' = [pods EXCEPT ![i].phase = "failed"]
  /\ broke' = broke \cup {i}
  /\ UNCHANGED <<records, creation, closer, sweep, crashes, clean>>

PodGone(i) ==
  /\ pods[i].deleting
  /\ pods' = [pods EXCEPT ![i] = NoPod]
  /\ UNCHANGED <<broke, records, creation, closer, sweep, crashes, clean>>

------------------------------------------------------------------------------
(* KubernetesManager.CreateSession *)

\* Pods.Create.  It fails while a pod of that name exists, and it may fail
\* otherwise, with the pod created or not.
CreatePod(c) ==
  LET i == CreateIdOf[c]
      created == [pods EXCEPT ![i] = SessionPod(i)]
  IN /\ creator[c] = "idle"
     /\ \/ /\ pods[i].phase = "absent"
           /\ pods' = created
           /\ creator' = [creator EXCEPT ![c] = "wait"]
        \/ /\ pods' \in IF pods[i].phase = "absent" THEN {pods, created} ELSE {pods}
           /\ creator' = [creator EXCEPT ![c] = "failed"]
     /\ clean' = {q \in clean : CloseIdOf[q] # i}
     /\ UNCHANGED <<broke, records, clock, closer, sweep, crashes>>

\* waitUntilReady sees the pod ready: podReady looks at its conditions, not at
\* whether it is being deleted.
WaitReady(c) ==
  /\ creator[c] = "wait"
  /\ pods[CreateIdOf[c]].phase = "ready"
  /\ creator' = [creator EXCEPT ![c] = "save"]
  /\ UNCHANGED <<cluster, records, clock, closer, sweep, crashes, clean>>

\* The timeout, a failed pod, an error of the API server or a cancelled request.
WaitFails(c) ==
  /\ creator[c] = "wait"
  /\ creator' = [creator EXCEPT ![c] = "undo"]
  /\ UNCHANGED <<cluster, records, clock, closer, sweep, crashes, clean>>

\* store.Save; when it reports an error the record may exist or not.
SaveSession(c) ==
  LET i == CreateIdOf[c]
      Saved == /\ left' = [left EXCEPT ![i] = Lifetime]
               /\ savedBy' = [savedBy EXCEPT ![i] = {c}]
  IN /\ creator[c] = "save"
     /\ \/ Saved /\ creator' = [creator EXCEPT ![c] = "created"]
        \/ /\ Saved \/ UNCHANGED records
           /\ creator' = [creator EXCEPT ![c] = "undo"]
     /\ UNCHANGED <<cluster, clock, closer, sweep, crashes, clean>>

\* The pod of a failed creation is deleted; an error of that (a cancelled request
\* context makes one) is logged and forgotten.
UndoCreate(c) ==
  /\ creator[c] = "undo"
  /\ DeletePod(CreateIdOf[c]) \/ UNCHANGED pods
  /\ creator' = [creator EXCEPT ![c] = "failed"]
  /\ UNCHANGED <<broke, records, clock, closer, sweep, crashes, clean>>

------------------------------------------------------------------------------
(* KubernetesManager.CloseSession *)

CloseCall(q) ==
  LET i == CloseIdOf[q]
  IN /\ closer[q] = "idle"
     /\ closer' = [closer EXCEPT ![q] = "get"]
     /\ clean' = IF \A c \in Active : CreateIdOf[c] # i THEN clean \cup {q} ELSE clean
     /\ UNCHANGED <<cluster, records, creation, sweep, crashes>>

\* Mutant: a session without a record counts as closed.
Mut_NoLookup(q) == IF left[CloseIdOf[q]] > 0 THEN "delete" ELSE "closed"

\* With a record, its pod name is used; without one the pod is looked up by label.
AfterGet(q) == IF left[CloseIdOf[q]] > 0 THEN "delete" ELSE "lookup"

CloseGet(q) ==
  /\ closer[q] = "get"
  /\ \E next \in {AfterGet(q), "failed"} : closer' = [closer EXCEPT ![q] = next]
  /\ UNCHANGED <<cluster, records, creation, sweep, crashes, clean>>

CloseDelete(q) ==
  LET deleted == [left EXCEPT ![CloseIdOf[q]] = 0]
  IN /\ closer[q] = "delete"
     /\ \/ left' = deleted /\ closer' = [closer EXCEPT ![q] = "remove"]
        \/ left' \in {left, deleted} /\ closer' = [closer EXCEPT ![q] = "failed"]
     /\ UNCHANGED <<cluster, savedBy, creation, sweep, crashes, clean>>

\* lookupPodNameBySessionID: a pod with the label of this id.
CloseLookup(q) ==
  LET i == CloseIdOf[q]
      present == pods[i].phase # "absent" /\ pods[i].label = LabelOf[i]
  IN /\ closer[q] = "lookup"
     /\ \E next \in {IF present THEN "remove" ELSE "closed", "failed"} :
          closer' = [closer EXCEPT ![q] = next]
     /\ UNCHANGED <<cluster, records, creation, sweep, crashes, clean>>

CloseRemove(q) ==
  /\ closer[q] = "remove"
  /\ \/ DeletePod(CloseIdOf[q]) /\ closer' = [closer EXCEPT ![q] = "closed"]
     \/ /\ DeletePod(CloseIdOf[q]) \/ UNCHANGED pods
        /\ closer' = [closer EXCEPT ![q] = "failed"]
  /\ UNCHANGED <<broke, records, creation, sweep, crashes, clean>>

------------------------------------------------------------------------------
(* KubernetesPodJanitor *)

\* Sweep: List of the session pods; the ones already being deleted are skipped.
Sweep ==
  /\ listed = [i \in IDs |-> NoPod] /\ victim = {}
  /\ \E i \in IDs : pods[i].phase # "absent"
  /\ listed' = [i \in IDs |-> IF pods[i].deleting THEN NoPod ELSE pods[i]]
  /\ UNCHANGED <<cluster, records, creation, closer, victim, crashes, clean>>

\* SessionStore.Get with the label as the id.  A record that has expired is gone, so
\* the branch "session_expired" is never taken.
SessionFound(label) == label \in IDs /\ left[label] > 0

\* Mutant: pods without a session are deleted at once.
Mut_NoGrace(pod) ==
  \/ pod.phase = "failed" /\ pod.age >= TerminalTTL
  \/ ~SessionFound(pod.label)

\* Mutant: only terminal pods are deleted.
Mut_OnlyTerminal(pod) == pod.phase = "failed" /\ pod.age >= TerminalTTL

\* resolveSessionPodDeleteReason, on the pod as it was listed.  A pod that names no
\* session is left alone until it ends by itself.
ResolveDelete(pod) ==
  \/ pod.phase = "failed" /\ pod.age >= TerminalTTL
  \/ pod.label # NoLabel /\ ~SessionFound(pod.label) /\ pod.age >= Grace

JanitorCheck(i) ==
  /\ listed[i].phase # "absent" /\ victim = {}
  /\ listed' = [listed EXCEPT ![i] = NoPod]
  /\ victim' = IF ResolveDelete(listed[i]) THEN {i} ELSE {}
  /\ UNCHANGED <<cluster, records, creation, closer, crashes, clean>>

\* The session store reports an error: the pod is left for the next sweep.
JanitorSkip(i) ==
  /\ listed[i].phase # "absent" /\ victim = {}
  /\ listed' = [listed EXCEPT ![i] = NoPod]
  /\ UNCHANGED <<cluster, records, creation, closer, victim, crashes, clean>>

\* Delete by name, whichever pod has the name by now.
JanitorDelete(i) ==
  /\ i \in victim
  /\ victim' = {}
  /\ DeletePod(i)
  /\ UNCHANGED <<broke, records, creation, closer, listed, crashes, clean>>

JanitorDeleteFails ==
  /\ victim # {}
  /\ victim' = {}
  /\ UNCHANGED <<cluster, records, creation, closer, listed, crashes, clean>>

------------------------------------------------------------------------------
(* Time and crashes *)

\* The time to live of a record after a tick; at 0 the record is gone.
TTLAfter(ttl) == Max2(ttl - 1, 0)

\* Time passes, but not past the end of a wait (PollUntilContextTimeout) or of the
\* calls that follow it.
Tick ==
  /\ \A c \in Creators : /\ creator[c] = "wait" => clock[c] < ReadyTimeout
                         /\ c \in Active => clock[c] < ReadyTimeout + SaveLatency
  /\ pods' = [i \in IDs |-> IF pods[i].phase = "absent" THEN NoPod
                            ELSE [pods[i] EXCEPT !.age = IF @ < AgeCap THEN @ + 1 ELSE @]]
  /\ left' = [i \in IDs |-> TTLAfter(left[i])]
  /\ clock' = [c \in Creators |-> IF c \in Active THEN clock[c] + 1 ELSE clock[c]]
  /\ UNCHANGED <<broke, savedBy, creator, closer, sweep, crashes, clean>>

\* The runtime process dies and is replaced: its calls and its sweep are gone.
Crash ==
  /\ crashes < MaxCrashes
  /\ crashes' = crashes + 1
  /\ creator' = [c \in Creators |-> IF c \in Active THEN "crashed" ELSE creator[c]]
  /\ closer' = [q \in Closers |-> IF closer[q] \in {"get", "delete", "lookup", "remove"}
                                  THEN "crashed" ELSE closer[q]]
  /\ listed' = [i \in IDs |-> NoPod]
  /\ victim' = {}
  /\ UNCHANGED <<cluster, records, clock, clean>>

------------------------------------------------------------------------------
(* Specification *)

CreateStep(c) == WaitReady(c) \/ WaitFails(c) \/ SaveSession(c) \/ UndoCreate(c)

CloseStep(q) == CloseGet(q) \/ CloseDelete(q) \/ CloseLookup(q) \/ CloseRemove(q)

Next ==
  \/ \E i \in IDs : \/ PodReady(i) \/ PodFails(i) \/ PodGone(i)
                    \/ JanitorCheck(i) \/ JanitorSkip(i) \/ JanitorDelete(i)
  \/ \E c \in Creators : CreatePod(c) \/ CreateStep(c)
  \/ \E q \in Closers : CloseCall(q) \/ CloseStep(q)
  \/ Sweep \/ JanitorDeleteFails
  \/ Tick \/ Crash

Spec == Init /\ [][Next]_vars

\* Time passes, goroutines run, terminating pods end, the janitor's ticker fires, and
\* a lookup or a delete that every sweep tries again succeeds some time.
Fairness ==
  /\ WF_vars(Tick)
  /\ WF_vars(Sweep)
  /\ \A i \in IDs : WF_vars(PodGone(i)) /\ SF_vars(JanitorCheck(i)) /\ SF_vars(JanitorDelete(i))
  /\ \A c \in Creators : WF_vars(CreateStep(c))
  /\ \A q \in Closers : WF_vars(CloseStep(q))

FairSpec == Spec /\ Fairness

------------------------------------------------------------------------------
(* Properties *)

\* The ids that the janitor judges aright: the label is the id itself, and no creation of
\* the id lasted as long as the grace period (that and the readiness timeout both default
\* to 120 s).  For the others it finds no record while, or although, there is a session.
Judged(i) ==
  /\ LabelOf[i] = i
  /\ \A c \in Creators : CreateIdOf[c] = i => clock[c] < Grace

\* CreateSession and the janitor: a session that was answered as created, has not
\* expired, was not asked to be closed and whose pod did not fail by itself, has its
\* pod, if it is one that the janitor judges aright: neither a sweep nor another
\* creation, of the id or of an id with the same label, takes it.
LiveHasPod ==
  \A c \in Creators :
    LET i == CreateIdOf[c]
    IN /\ creator[c] = "created" /\ savedBy[i] = {c} /\ left[i] > 0 /\ i \notin broke
       /\ \A q \in Closers : CloseIdOf[q] = i => closer[q] = "idle"
       /\ Judged(i)
       => pods[i].phase = "ready" /\ ~pods[i].deleting

\* CloseSession: a close that reports success, with no creation of the id beside it,
\* leaves neither a record nor a running pod - also when an earlier close of the id
\* failed, or died, after it had deleted the record.
CloseIsFinal ==
  \A q \in clean :
    LET i == CloseIdOf[q]
    IN closer[q] = "closed" => left[i] = 0 /\ (pods[i].phase = "absent" \/ pods[i].deleting)

\* The janitor: a pod without a session does not stay, whichever call failed or which
\* process died to leave it behind.
OrphansCollected ==
  \A i \in IDs :
    (pods[i].phase # "absent" /\ left[i] = 0 /\ \A c \in Active : CreateIdOf[c] # i)
      ~> pods[i].phase = "absent"

------------------------------------------------------------------------------
(* Strengthenings that make the safety properties inductive *)

NoCreation(i) == \A c \in Active : CreateIdOf[c] # i

\* Pods carry the label of their session, also as the janitor remembers them.
PodsLabelled ==
  \A i \in IDs : /\ pods[i].phase # "absent" => pods[i].label = LabelOf[i]
                 /\ listed[i].phase # "absent" => listed[i].label = LabelOf[i]

\* A clean close stays without a creation beside it; its record is gone from the
\* moment it looks for the pod, and the pod is gone or going when it reports success.
CleanCloses ==
  \A q \in clean :
    LET i == CloseIdOf[q]
    IN /\ closer[q] # "idle" /\ NoCreation(i)
       /\ closer[q] \in {"lookup", "remove", "closed"} => left[i] = 0
       /\ closer[q] = "closed" => pods[i].phase = "absent" \/ pods[i].deleting

CloseInv == PodsLabelled /\ CleanCloses

\* The ids LiveHasPod is about: no failure of the pod, no close so far, judged aright.
Quiet(i) ==
  /\ i \notin broke /\ \A q \in Closers : CloseIdOf[q] = i => closer[q] = "idle"
  /\ Judged(i)

Standing(i) == pods[i].phase \in {"pending", "ready"} /\ ~pods[i].deleting

FailuresNoted ==
  \A i \in IDs : pods[i].phase = "failed" \/ listed[i].phase = "failed" => i \in broke

\* A creation under way is alone, and its pod stands and is no older than the creation.
CreationHasPod ==
  \A c \in Active :
    LET i == CreateIdOf[c]
    IN Quiet(i) => /\ Standing(i) /\ pods[i].age <= clock[c]
                   /\ creator[c] = "save" => pods[i].phase = "ready"
                   /\ \A d \in Active : CreateIdOf[d] = i => d = c

\* A pod the janitor listed as old enough to be an orphan still stands, unused by a
\* creation: only the janitor itself removes such a pod.
OldListedStands ==
  \A i \in IDs :
    Quiet(i) /\ listed[i].phase # "absent" /\ listed[i].age >= Grace =>
      Standing(i) /\ NoCreation(i)

\* What the janitor has decided to delete has no session, and none will appear.
VictimIsOrphan ==
  \A i \in victim :
    /\ listed[i].phase = "absent"
    /\ Quiet(i) => Standing(i) /\ NoCreation(i) /\ left[i] = 0

LiveStands ==
  \A c \in Creators :
    LET i == CreateIdOf[c]
    IN Quiet(i) /\ creator[c] = "created" /\ savedBy[i] = {c} /\ left[i] > 0 =>
         pods[i].phase = "ready" /\ ~pods[i].deleting /\ NoCreation(i)

LiveInv == /\ PodsLabelled
           /\ FailuresNoted
           /\ CreationHasPod
           /\ OldListedStands
           /\ VictimIsOrphan
           /\ LiveStands
================================================================================
