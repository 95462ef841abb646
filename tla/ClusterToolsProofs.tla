--------------------------- MODULE ClusterToolsProofs --------------------------
(* Theorems about ClusterTools, for every number of calls, processes and images *)
(* and every bound.                                                             *)
EXTENDS ClusterTools, FiniteSetTheorems, TLAPS

--------------------------------------------------------------------------------
(* The choices of a ReplicaSet. *)

\* Among some numbers below a bound there is a greatest.
LEMMA Greatest ==
  ASSUME NEW S, S # {}, NEW f, NEW K \in Nat, \A i \in S : f[i] \in Nat /\ f[i] <= K
  PROVE  \E i \in S : \A j \in S : f[j] <= f[i]
<1> DEFINE T == {K - f[i] : i \in S}
           R == OpToRel(<, Nat)
<1>1. T \subseteq Nat /\ T # {}
  OBVIOUS
<1>2. \A x, y \in Nat : x < y => <<x, y>> \in R
  BY DEF OpToRel
<1>3. IsWellFoundedOn(R, Nat)
  BY NatLessThanWellFounded, Zenon
<1> HIDE DEF R
<1>4. PICK x \in T : \A y \in T : <<y, x>> \notin R
  <2> HIDE DEF T
  <2> QED
    BY <1>1, <1>3, WFMin
<1>5. PICK i \in S : x = K - f[i]
  OBVIOUS
<1>6. ASSUME NEW j \in S PROVE f[j] <= f[i]
  <2>1. K - f[j] \in T
    OBVIOUS
  <2>2. ~(K - f[j] < x)
    BY <1>1, <1>2, <1>4, <2>1
  <2> QED
    BY <1>5, <2>2
<1> QED
  BY <1>6

\* The newest ReplicaSet is one of them.
LEMMA NewestFacts ==
  ASSUME TypeOK, NewestExists
  PROVE  /\ Newest \in DOMAIN sets /\ sets[Newest] \in ReplicaSets
         /\ \A t \in DOMAIN sets : sets[t].rev <= sets[Newest].rev
<1>1. Newest \in DOMAIN sets /\ \A t \in DOMAIN sets : sets[t].rev <= sets[Newest].rev
  BY Zenon DEF Newest, NewestExists
<1>2. sets[Newest] \in ReplicaSets
  BY <1>1 DEF TypeOK
<1> QED
  BY <1>1, <1>2

\* So is the one of a Deployment's template.
LEMMA CurrentFacts ==
  ASSUME TypeOK, NewestExists, NEW d
  PROVE  currentReplicaSet(d) \in DOMAIN sets
<1> DEFINE same == {i \in DOMAIN sets : sets[i].template = d.template}
<1>1. currentReplicaSet(d) = IF same = {} THEN Newest ELSE CHOOSE i \in same : TRUE
  BY Zenon DEF currentReplicaSet
<1>2. same # {} => (CHOOSE i \in same : TRUE) \in same
  <2> HIDE DEF same
  <2> QED
    BY Zenon
<1>3. same \subseteq DOMAIN sets
  OBVIOUS
<1> HIDE DEF same
<1> QED
  BY <1>1, <1>2, <1>3, NewestFacts

\* The target of a rollback is one, unless there is none.
LEMMA TargetFacts ==
  ASSUME TypeOK, NewestExists, NEW d, NEW revision \in Int
  PROVE  targetRollbackReplicaSet(d, revision) \in {0, -1} \cup DOMAIN sets
<1> DEFINE current == currentReplicaSet(d)
           named == {i \in DOMAIN sets : sets[i].rev = revision}
           healthy == {i \in DOMAIN sets \ {current} : replicaSetHealthyRollbackTarget(i)}
           top == CHOOSE i \in healthy : \A j \in healthy : sets[j].rev <= sets[i].rev
           one == CHOOSE i \in named : TRUE
<1>1. named \subseteq DOMAIN sets /\ healthy \subseteq DOMAIN sets
  OBVIOUS
<1>2. targetRollbackReplicaSet(d, revision) =
        IF revision > 0
        THEN IF named = {} THEN 0 ELSE IF named \subseteq healthy \cup {current} THEN one ELSE -1
        ELSE IF healthy = {} THEN -1 ELSE top
  BY Zenon DEF targetRollbackReplicaSet
<1> HIDE DEF current, named, healthy
<1>3. named # {} => one \in named
  BY Zenon
<1>4. healthy # {} => top \in healthy
  <2> SUFFICES ASSUME healthy # {} PROVE top \in healthy
    OBVIOUS
  <2>1. \A i \in DOMAIN sets : sets[i].rev \in Nat
    <3>1. \A i \in DOMAIN sets : sets[i] \in ReplicaSets
      BY DEF TypeOK
    <3> QED
      BY <3>1 DEF ReplicaSets
  <2> DEFINE f == [i \in DOMAIN sets |-> sets[i].rev]
  <2>2. \A i \in healthy : f[i] = sets[i].rev /\ f[i] \in Nat /\ f[i] <= sets[Newest].rev
    BY <1>1, <2>1, NewestFacts
  <2>3. sets[Newest].rev \in Nat
    BY <2>1, NewestFacts
  <2>4. \E i \in healthy : \A j \in healthy : f[j] <= f[i]
    <3> HIDE DEF f
    <3> QED
      BY <2>2, <2>3, Greatest
  <2>5. \E i \in healthy : \A j \in healthy : sets[j].rev <= sets[i].rev
    BY <2>2, <2>4
  <2> QED
    BY <2>5, Zenon
<1> HIDE DEF top, one
<1> QED
  BY <1>1, <1>2, <1>3, <1>4

--------------------------------------------------------------------------------
(* Requests and what the tools make of a Deployment. *)

AllRequests == DeploymentRequests \cup BreakerRequests \cup {NoReq}

\* Only k8s.scale_deployment takes a number below zero.
LEMMA RequestFacts ==
  ASSUME NEW r \in AllRequests
  PROVE  /\ r.image \in Images /\ r.n \in Int
         /\ r.tool # "k8s.scale_deployment" => r.n \in Nat
<1>1. ASSUME NEW tool, NEW q, q = Req(tool)
      PROVE  /\ q.tool = tool /\ q.image = InitImage /\ q.n = 0
             /\ \A f \in {"tool", "named", "wait", "image", "n", "delta", "docs", "dryRun",
                          "headless"} : f \in DOMAIN q
  BY <1>1 DEF Req
<1>2. InitImage \in Images
  BY ClusterAssumption
<1>3. CASE r = NoReq
  BY <1>1, <1>2, <1>3 DEF NoReq
<1>4. CASE r \in BreakerRequests
  <2>1. CASE \E t \in TTLs : r = [Req("k8s.circuit_break") EXCEPT !.n = t]
    BY <1>1, <1>2, <2>1, ClusterAssumption
  <2>2. CASE r = [Req("k8s.circuit_break") EXCEPT !.headless = TRUE]
    BY <1>1, <1>2, <2>2
  <2> QED
    BY <1>4, <2>1, <2>2 DEF BreakerRequests
<1>5. CASE r \in DeploymentRequests
  <2>1. CASE r \in {Req("k8s.rollout_status"), Req("k8s.rollout_pause"), Req("k8s.restart_pods"),
                    [Req("k8s.restart_pods") EXCEPT !.n = 1],
                    [Req("k8s.rollout_pause") EXCEPT !.named = FALSE],
                    Req("k8s.set_image"), [Req("k8s.get_logs") EXCEPT !.named = FALSE]}
    BY <1>1, <1>2, <2>1
  <2>2. CASE \E tool \in Readers : r = [Req(tool) EXCEPT !.n = 1]
    BY <1>1, <1>2, <2>2
  <2>3. CASE \E k \in {<<0, FALSE>>, <<1, TRUE>>, <<-2, TRUE>>} :
               r = [Req("k8s.scale_deployment") EXCEPT !.n = k[1], !.delta = k[2]]
    <3>1. PICK k \in {<<0, FALSE>>, <<1, TRUE>>, <<-2, TRUE>>} :
            r = [Req("k8s.scale_deployment") EXCEPT !.n = k[1], !.delta = k[2]]
      BY <2>3
    <3>2. k[1] \in Int
      <4>1. CASE k = <<0, FALSE>>
        BY <4>1
      <4>2. CASE k = <<1, TRUE>>
        BY <4>2
      <4>3. CASE k = <<-2, TRUE>>
        BY <4>3
      <4> QED
        BY <4>1, <4>2, <4>3
    <3>3. ASSUME NEW n \in Int, NEW delta,
                 r = [Req("k8s.scale_deployment") EXCEPT !.n = n, !.delta = delta]
          PROVE  r.image \in Images /\ r.n \in Int /\ r.tool = "k8s.scale_deployment"
      BY <1>1, <1>2, <3>3
    <3> QED
      BY <3>1, <3>2, <3>3
  <2>4. CASE r = [Req("k8s.restart_deployment") EXCEPT !.wait = TRUE]
    BY <1>1, <1>2, <2>4
  <2>5. CASE \E i \in Images \ {InitImage} :
               r = [Req("k8s.set_image") EXCEPT !.image = i, !.wait = TRUE]
    BY <1>1, <1>2, <2>5
  <2>6. CASE \E k \in 0 .. 2 : r = [Req("k8s.rollout_undo") EXCEPT !.n = k]
    BY <1>1, <1>2, <2>6
  <2>7. CASE \E d \in Docs : r = [Req("k8s.apply_manifest") EXCEPT !.docs = d]
    BY <1>1, <1>2, <2>7
  <2>8. CASE r = [Req("k8s.apply_manifest") EXCEPT !.docs = <<"deployment">>, !.dryRun = TRUE]
    BY <1>1, <1>2, <2>8
  <2> QED
    BY <1>5, <2>1, <2>2, <2>3, <2>4, <2>5, <2>6, <2>7, <2>8, Zenon DEF DeploymentRequests
<1> QED
  BY <1>3, <1>4, <1>5 DEF AllRequests

\* What a tool decides on the Deployment d that it has read: a change of that version that
\* keeps the rest, to list the ReplicaSets, or an answer.
Sound(r, d, change) ==
  \/ /\ change[1] = "update" /\ change[2] \in Deployments
     /\ change[2].version = d.version
     /\ KeepsTheRest(r.tool, d, change[2])
  \/ change[1] = "list" /\ change[2] = d /\ r.tool = "k8s.rollout_undo"
  \/ change[1] \in {"ok", "invalid_argument", "rollout_too_young",
                    "no_previous_healthy_replicaset"}

\* k8s.rollout_undo puts the template of one of the ReplicaSets in the place of that of the
\* Deployment it has read.
LEMMA UndoFacts ==
  ASSUME TypeOK, NewestExists, NEW r \in AllRequests, r.tool = "k8s.rollout_undo",
         NEW d \in Deployments
  PROVE  LET change == K8sRolloutUndo(r, d) IN Sound(r, d, change) /\ change[1] # "list"
<1> DEFINE target == targetRollbackReplicaSet(d, r.n)
           current == currentReplicaSet(d)
           Good(change) == Sound(r, d, change) /\ change[1] # "list"
<1>1. target \in {0, -1} \cup DOMAIN sets
  BY RequestFacts, TargetFacts
<1> HIDE DEF target, current
<1>2. ASSUME NEW code \in {"ok", "invalid_argument", "rollout_too_young",
                           "no_previous_healthy_replicaset"}
      PROVE  Good(<<code, d>>)
  BY <1>2 DEF Sound
<1>3. ASSUME target \notin {0, -1}
      PROVE  Good(<<"update", [d EXCEPT !.template = sets[target].template]>>)
  <2> DEFINE t == sets[target].template
             e == [d EXCEPT !.template = t]
  <2>1. sets[target] \in ReplicaSets
    BY <1>1, <1>3 DEF TypeOK
  <2>2. t \in Templates
    BY <2>1 DEF ReplicaSets
  <2> HIDE DEF t
  <2>3. e \in Deployments /\ e.version = d.version /\ e.replicas = d.replicas /\ e.paused = d.paused
    BY <2>2 DEF Deployments
  <2> HIDE DEF e
  <2>4. Good(<<"update", e>>)
    BY <2>3 DEF Sound, KeepsTheRest
  <2> QED
    BY <2>4 DEF e, t
<1> HIDE DEF Good
<1>4. Good(K8sRolloutUndo(r, d))
  BY <1>2, <1>3 DEF K8sRolloutUndo, target, current
<1> QED
  BY <1>4 DEF Good

\* A tool's change is a Deployment of the version that was read, which keeps the rest.
LEMMA ChangeFacts ==
  ASSUME TypeOK, NewestExists, NEW r \in AllRequests
  PROVE  LET change == Change(r, dep)
         IN  Sound(r, dep, change)
<1> DEFINE Good(change) == Sound(r, dep, change)
<1>0. dep \in Deployments /\ dep.template \in Templates /\ dep.replicas \in Nat /\ now \in Nat
  BY DEF TypeOK, Deployments
<1>1. r.image \in Images /\ r.n \in Int
  BY RequestFacts
<1>2. ASSUME NEW t \in Templates, NEW d, d = [dep EXCEPT !.template = t]
      PROVE  /\ d \in Deployments /\ d.version = dep.version /\ d.replicas = dep.replicas
             /\ d.paused = dep.paused /\ d.template = t
  BY <1>0, <1>2 DEF Deployments
<1>3. ASSUME NEW d, d \in Deployments, d.version = dep.version, KeepsTheRest(r.tool, dep, d)
      PROVE  Good(<<"update", d>>)
  BY <1>3 DEF Sound
<1>4. ASSUME NEW code \in {"ok", "invalid_argument", "rollout_too_young",
                           "no_previous_healthy_replicaset"}, NEW d
      PROVE  Good(<<code, d>>)
  BY <1>4 DEF Sound
<1> HIDE DEF Good
<1>5. CASE r.tool = "k8s.scale_deployment"
  <2> DEFINE n == ScaleTarget(r, dep)
  <2>1. n \in Int
    BY <1>0, <1>1 DEF ScaleTarget
  <2> HIDE DEF n
  <2>2. ASSUME n >= 0 PROVE Good(<<"update", [dep EXCEPT !.replicas = n]>>)
    <3>1. [dep EXCEPT !.replicas = n] \in Deployments
      BY <1>0, <2>1, <2>2 DEF Deployments
    <3>2. /\ [dep EXCEPT !.replicas = n].version = dep.version
          /\ [dep EXCEPT !.replicas = n].paused = dep.paused
          /\ [dep EXCEPT !.replicas = n].template = dep.template
      BY <1>0 DEF Deployments
    <3>3. KeepsTheRest(r.tool, dep, [dep EXCEPT !.replicas = n])
      BY <1>5, <3>2 DEF KeepsTheRest
    <3> QED
      BY <1>3, <3>1, <3>2, <3>3
  <2>3. Good(K8sScaleDeployment(r, dep))
    BY <1>4, <2>1, <2>2 DEF K8sScaleDeployment, n
  <2> QED
    BY <1>5, <2>3 DEF Change, Good
<1>6. CASE r.tool = "k8s.rollout_pause"
  <2>1. /\ [dep EXCEPT !.paused = TRUE] \in Deployments
        /\ [dep EXCEPT !.paused = TRUE].version = dep.version
        /\ [dep EXCEPT !.paused = TRUE].replicas = dep.replicas
        /\ [dep EXCEPT !.paused = TRUE].template = dep.template
    BY <1>0 DEF Deployments
  <2>2. KeepsTheRest(r.tool, dep, [dep EXCEPT !.paused = TRUE])
    BY <1>6, <2>1 DEF KeepsTheRest
  <2>3. Good(K8sRolloutPause(r, dep))
    BY <1>3, <1>4, <2>1, <2>2 DEF K8sRolloutPause
  <2> QED
    BY <1>6, <2>3 DEF Change, Good
<1>7. CASE r.tool = "k8s.rollout_undo"
  BY <1>7 DEF Change, Good, Sound
<1>8. CASE r.tool = "k8s.set_image"
  <2> DEFINE t == [dep.template EXCEPT !.image = r.image]
  <2>1. t \in Templates /\ t.stamp = dep.template.stamp
    BY <1>0, <1>1 DEF Templates
  <2>2. [dep EXCEPT !.template.image = r.image] = [dep EXCEPT !.template = t]
    BY <1>0 DEF Deployments
  <2> HIDE DEF t
  <2>3. Good(<<"update", [dep EXCEPT !.template = t]>>)
    BY <1>2, <1>3, <1>8, <2>1 DEF KeepsTheRest
  <2>4. Good(K8sSetImage(r, dep))
    BY <2>2, <2>3 DEF K8sSetImage
  <2> QED
    BY <1>8, <2>4 DEF Change, Good
<1>9. CASE r.tool \notin {"k8s.scale_deployment", "k8s.rollout_pause", "k8s.rollout_undo",
                          "k8s.set_image"}
  <2> DEFINE t == [dep.template EXCEPT !.stamp = now + 1]
  <2>1. t \in Templates
    BY <1>0 DEF Templates
  <2>2. Restarted(dep) = [dep EXCEPT !.template = t]
    BY <1>0 DEF Deployments, Restarted
  <2> HIDE DEF t
  <2>3. Good(<<"update", [dep EXCEPT !.template = t]>>)
    BY <1>2, <1>3, <1>9, <2>1 DEF KeepsTheRest
  <2> QED
    BY <1>9, <2>2, <2>3 DEF Change, Good
<1> QED
  BY <1>5, <1>6, <1>7, <1>8, <1>9

--------------------------------------------------------------------------------
(* What a step of a call may do; every one does no more than this. *)

\* Nothing but the status changes, or the Deployment is a later one.
DepMoves ==
  /\ dep' \in Deployments
  /\ \/ /\ dep'.version = dep.version /\ dep'.gen = dep.gen
        /\ dep'.replicas = dep.replicas /\ dep'.paused = dep.paused
        /\ dep'.template = dep.template
     \/ dep'.version = dep.version + 1 /\ dep'.gen = dep.gen + 1

\* The rest of the state has its types.
RestOK ==
  /\ svc = "ip" /\ objects \subseteq {"configmap"}
  /\ breaker \in Nat /\ timer \in [Processes -> Nat] /\ firing \in [Processes -> Nat]
  /\ now \in Nat /\ crashes \in Nat /\ lost \in Nat

CallShape(c) ==
  /\ call' = [call EXCEPT ![c] = call'[c]] /\ call'[c] \in CallStates
  /\ DepMoves /\ RestOK' /\ UNCHANGED sets
  /\ CopyIsCurrent(c)' /\ WaitsForItsOwn(c)'

\* A call that does not move keeps its part of the invariant.
LEMMA OthersKeep ==
  ASSUME TypeOK, ClusterInv, DepMoves, NEW c \in Calls, call'[c] = call[c]
  PROVE  CopyIsCurrent(c)' /\ WaitsForItsOwn(c)'
<1>1. CopyIsCurrent(c) /\ WaitsForItsOwn(c)
  BY DEF ClusterInv
<1>2. /\ dep.version \in Nat /\ dep.gen \in Nat /\ dep'.version \in Nat /\ dep'.gen \in Nat
      /\ call[c].gen \in Nat
  BY DEF TypeOK, Deployments, CallStates, DepMoves
<1>3. WaitsForItsOwn(c)'
  BY <1>1, <1>2 DEF WaitsForItsOwn, DepMoves
<1>4. ASSUME call[c].pc \in {"list", "put"}
      PROVE  /\ call[c].read.version <= dep'.version
             /\ call[c].read.version = dep'.version =>
                  KeepsTheRest(call[c].req.tool, dep', call[c].read)
  <2>1. call[c].read \in Deployments /\ call[c].read.version \in Nat
    BY <1>1, <1>4 DEF CopyIsCurrent, Deployments
  <2>2. /\ call[c].read.version <= dep.version
        /\ call[c].read.version = dep.version => KeepsTheRest(call[c].req.tool, dep, call[c].read)
    BY <1>1, <1>4 DEF CopyIsCurrent
  <2>3. CASE dep'.version = dep.version + 1
    BY <1>2, <2>1, <2>2, <2>3
  <2>4. CASE /\ dep'.version = dep.version /\ dep'.gen = dep.gen
             /\ dep'.replicas = dep.replicas /\ dep'.paused = dep.paused
             /\ dep'.template = dep.template
    BY <2>2, <2>4 DEF KeepsTheRest
  <2> QED
    BY <2>3, <2>4 DEF DepMoves
<1>5. CopyIsCurrent(c)'
  BY <1>1, <1>4 DEF CopyIsCurrent, Doc
<1> QED
  BY <1>3, <1>5

\* A step of that shape keeps types and invariant.
LEMMA CallShapeKeeps ==
  ASSUME TypeOK, ClusterInv, NEW c \in Calls, CallShape(c)
  PROVE  TypeOK' /\ ClusterInv'
<1>1. TypeOK'
  BY DEF TypeOK, CallShape, DepMoves, RestOK
<1>2. NewestExists'
  BY DEF ClusterInv, NewestExists, CallShape
<1>3. ASSUME NEW d \in Calls PROVE CopyIsCurrent(d)' /\ WaitsForItsOwn(d)'
  <2>1. CASE d = c
    BY <2>1 DEF CallShape
  <2>2. CASE d # c
    <3>1. call'[d] = call[d]
      BY <2>2 DEF CallShape, TypeOK
    <3> QED
      BY <3>1, OthersKeep DEF CallShape
  <2> QED
    BY <2>1, <2>2
<1> QED
  BY <1>1, <1>2, <1>3 DEF ClusterInv

\* The answers other than "completed".
OtherCodes == {"ok", "timeout", "invalid_argument", "policy_denied", "execution_failed",
               "rollout_too_young", "no_previous_healthy_replicaset"}

\* A call that has read nothing.
LEMMA NothingRead == Idle.read \in Copies
BY DEF Idle, Copies

\* Ends answers the call.
LEMMA EndsFacts ==
  ASSUME TypeOK, ClusterInv, NEW c \in Calls, NEW code \in OtherCodes, Ends(c, code), DepMoves
  PROVE  /\ call' = [call EXCEPT ![c] = call'[c]] /\ call'[c] \in CallStates
         /\ CopyIsCurrent(c)' /\ WaitsForItsOwn(c)'
<1>1. call[c] \in CallStates /\ WaitsForItsOwn(c) /\ Idle.read \in Copies
  BY NothingRead DEF TypeOK, ClusterInv
<1> DEFINE n == [call[c] EXCEPT !.pc = "done", !.code = code, !.read = Idle.read, !.doc = 0]
<1>2. n \in CallStates /\ n.pc = "done" /\ n.code = code /\ n.gen = call[c].gen
  <2> DEFINE none == Idle.read
  <2>1. none \in Copies
    BY NothingRead
  <2> HIDE DEF none
  <2>2. \A k \in CallStates :
          LET m == [k EXCEPT !.pc = "done", !.code = code, !.read = none, !.doc = 0]
          IN  m \in CallStates /\ m.pc = "done" /\ m.code = code /\ m.gen = k.gen
    BY <2>1, ZenonT(40) DEF CallStates, OtherCodes
  <2> QED
    BY <1>1, <2>2 DEF none
<1> HIDE DEF n
<1>3. call' = [call EXCEPT ![c] = n]
  BY DEF Ends, TypeOK, n
<1>4. call'[c] = n
  BY <1>3 DEF TypeOK
<1>5. call[c].gen <= dep'.gen
  <2>1. dep.gen \in Nat /\ dep'.gen \in Nat /\ call[c].gen \in Nat
    BY <1>1 DEF TypeOK, Deployments, CallStates, DepMoves
  <2> QED
    BY <1>1, <2>1 DEF WaitsForItsOwn, DepMoves
<1>6. CopyIsCurrent(c)' /\ WaitsForItsOwn(c)'
  BY <1>2, <1>4, <1>5 DEF CopyIsCurrent, WaitsForItsOwn, OtherCodes
<1> QED
  BY <1>2, <1>3, <1>4, <1>6

--------------------------------------------------------------------------------
(* The calls. *)

\* A step that leaves the world alone.
LEMMA WorldStands ==
  ASSUME TypeOK, UNCHANGED world
  PROVE  DepMoves /\ RestOK' /\ UNCHANGED sets
BY DEF TypeOK, world, DepMoves, RestOK

\* A call takes a new state.
LEMMA Moved ==
  ASSUME TypeOK, NEW c \in Calls, NEW n, call' = [call EXCEPT ![c] = n]
  PROVE  call' = [call EXCEPT ![c] = call'[c]] /\ call'[c] = n
BY DEF TypeOK

\* Begin: the call has a request, and has read nothing.
LEMMA BeginHasShape ==
  ASSUME TypeOK, ClusterInv, NEW c \in Calls, NEW p \in Processes, NEW r \in AllRequests,
         Begin(c, p, r)
  PROVE  CallShape(c)
<1>1. DepMoves /\ RestOK' /\ UNCHANGED sets
  BY WorldStands DEF Begin
<1>2. /\ call[c] \in CallStates /\ call[c].gen <= dep.gen /\ call[c].code # "completed"
      /\ dep' = dep
  BY DEF TypeOK, ClusterInv, WaitsForItsOwn, Begin, world
<1>3. CASE ~r.named
  <2> DEFINE n == [call[c] EXCEPT !.pc = "done", !.req = r, !.code = "invalid_argument"]
  <2>1. call' = [call EXCEPT ![c] = n]
    BY <1>3 DEF Begin
  <2>2. /\ n \in CallStates /\ n.pc = "done" /\ n.code = "invalid_argument"
        /\ n.gen = call[c].gen
    BY <1>2 DEF CallStates, AllRequests
  <2> HIDE DEF n
  <2>3. CopyIsCurrent(c)' /\ WaitsForItsOwn(c)'
    BY <1>2, <2>1, <2>2, Moved DEF CopyIsCurrent, WaitsForItsOwn
  <2> QED
    BY <1>1, <2>1, <2>2, <2>3, Moved DEF CallShape
<1>4. CASE r.named
  <2> DEFINE n == [call[c] EXCEPT !.pc = "get", !.req = r, !.at = p, !.doc = 1]
  <2>1. call' = [call EXCEPT ![c] = n]
    BY <1>4 DEF Begin
  <2>2. n \in CallStates /\ n.pc = "get" /\ n.code = call[c].code /\ n.gen = call[c].gen
    BY <1>2 DEF CallStates, AllRequests
  <2> HIDE DEF n
  <2>3. CopyIsCurrent(c)' /\ WaitsForItsOwn(c)'
    BY <1>2, <2>1, <2>2, Moved DEF CopyIsCurrent, WaitsForItsOwn
  <2> QED
    BY <1>1, <2>1, <2>2, <2>3, Moved DEF CallShape
<1> QED
  BY <1>3, <1>4

\* The readers answer a number.
LEMMA AnswerType ==
  ASSUME TypeOK, NEW r \in AllRequests, r.tool \in Readers
  PROVE  Answer(r).items \in Nat
<1>1. r.n \in Nat /\ dep.updated \in Nat /\ Len(sets) \in Nat
  <2>1. r.tool # "k8s.scale_deployment"
    BY DEF Readers
  <2> QED
    BY <2>1, RequestFacts DEF TypeOK, Deployments
<1>2. \A items, max \in Nat : truncated(items, max).items \in Nat
  BY DEF truncated
<1>3. Cardinality({sets[i].template.image : i \in {Newest}}) \in Nat
  <2>1. {sets[i].template.image : i \in {Newest}} = {sets[Newest].template.image}
    OBVIOUS
  <2>2. Cardinality({sets[Newest].template.image}) = 1
    BY FS_Singleton, Zenon
  <2> QED
    BY <2>1, <2>2
<1>4. CASE r.tool = "k8s.get_pods"
  BY <1>1, <1>2, <1>4 DEF Answer, K8sGetPods
<1>5. CASE r.tool = "k8s.get_services"
  BY <1>1, <1>2, <1>5 DEF Answer, K8sGetServices
<1>6. CASE r.tool = "k8s.get_deployments"
  BY <1>1, <1>2, <1>6 DEF Answer, K8sGetDeployments
<1>7. CASE r.tool = "k8s.get_images"
  BY <1>1, <1>2, <1>3, <1>7 DEF Answer, K8sGetImages
<1>8. CASE r.tool = "k8s.get_logs"
  BY <1>1, <1>2, <1>8 DEF Answer, K8sGetLogs
<1>9. CASE r.tool = "k8s.get_replicasets"
  BY <1>1, <1>9 DEF Answer, K8sGetReplicaSets
<1> QED
  BY <1>4, <1>5, <1>6, <1>7, <1>8, <1>9 DEF Readers

\* A call that only reads.
LEMMA ReadHasShape ==
  ASSUME TypeOK, ClusterInv, NEW c \in Calls, Read(c)
  PROVE  CallShape(c)
<1>1. DepMoves /\ RestOK' /\ UNCHANGED sets
  BY WorldStands DEF Read
<1>2. call[c] \in CallStates /\ call[c].gen <= dep.gen /\ call[c].req \in AllRequests /\ dep' = dep
  BY DEF TypeOK, ClusterInv, WaitsForItsOwn, Read, world, CallStates, AllRequests
<1>3. CASE Fails(c)
  BY <1>1, <1>3, EndsFacts DEF Fails, CallShape, OtherCodes
<1>4. ASSUME call' = [call EXCEPT ![c] = [call[c] EXCEPT !.pc = "done", !.code = "ok", !.doc = 0,
                                                        !.obs = Answer(call[c].req).items]]
      PROVE  CallShape(c)
  <2> DEFINE items == Answer(call[c].req).items
             n == [call[c] EXCEPT !.pc = "done", !.code = "ok", !.doc = 0, !.obs = items]
  <2>1. items \in Nat
    BY <1>2, AnswerType DEF Read
  <2>2. call' = [call EXCEPT ![c] = n]
    BY <1>4
  <2> HIDE DEF items
  <2>3. n \in CallStates /\ n.pc = "done" /\ n.code = "ok" /\ n.gen = call[c].gen
    BY <1>2, <2>1 DEF CallStates
  <2> HIDE DEF n
  <2>4. CopyIsCurrent(c)' /\ WaitsForItsOwn(c)'
    BY <1>2, <2>2, <2>3, Moved DEF CopyIsCurrent, WaitsForItsOwn
  <2> QED
    BY <1>1, <2>2, <2>3, <2>4, Moved DEF CallShape
<1> QED
  BY <1>3, <1>4 DEF Read

\* What a call decides on the Deployment d that it has read.
LEMMA DecidesHasShape ==
  ASSUME TypeOK, ClusterInv, NEW c \in Calls, call[c].pc \in {"get", "list"},
         UNCHANGED world, NEW d \in Deployments, d.version <= dep.version,
         d.version = dep.version => KeepsTheRest(call[c].req.tool, dep, d),
         NEW change, Sound(call[c].req, d, change), Decides(c, change)
  PROVE  CallShape(c)
<1>1. DepMoves /\ RestOK' /\ UNCHANGED sets
  BY WorldStands
<1>2. /\ call[c] \in CallStates /\ dep' = dep
      /\ call[c].gen <= dep.gen /\ call[c].code # "completed"
  BY DEF TypeOK, ClusterInv, WaitsForItsOwn, world
<1>4. CASE Fails(c)
  BY <1>1, <1>4, EndsFacts DEF Fails, CallShape, OtherCodes
<1>5. CASE change[1] \notin {"update", "list"} /\ Ends(c, change[1])
  BY <1>1, <1>5, EndsFacts DEF CallShape, OtherCodes, Sound
<1>6. ASSUME NEW pc \in {"put", "list"}, pc = "list" => call[c].req.tool = "k8s.rollout_undo",
             NEW e \in Deployments, e.version = d.version,
             KeepsTheRest(call[c].req.tool, d, e),
             call' = [call EXCEPT ![c].pc = pc, ![c].read = e]
      PROVE  CallShape(c)
  <2> DEFINE n == [call[c] EXCEPT !.pc = pc, !.read = e]
  <2>1. d.version = dep.version => KeepsTheRest(call[c].req.tool, dep, e)
    BY <1>6 DEF KeepsTheRest
  <2>2. call' = [call EXCEPT ![c] = n]
    BY <1>6 DEF TypeOK
  <2>3. /\ n \in CallStates /\ n.pc = pc /\ n.code = call[c].code /\ n.gen = call[c].gen
        /\ n.read = e /\ n.req = call[c].req
    <3>1. e \in Copies
      BY DEF Copies
    <3> QED
      BY <1>2, <3>1 DEF CallStates
  <2> HIDE DEF n
  <2>4. WaitsForItsOwn(c)'
    BY <1>2, <2>2, <2>3, Moved DEF WaitsForItsOwn
  <2>5. CopyIsCurrent(c)'
    <3>1. call'[c] = n
      BY <2>2, Moved
    <3>2. n.read.version = dep'.version => KeepsTheRest(n.req.tool, dep', n.read)
      BY <1>2, <1>6, <2>1, <2>3
    <3>3. n.read.version <= dep'.version
      BY <1>2, <1>6, <2>3
    <3> QED
      BY <1>6, <2>3, <3>1, <3>2, <3>3 DEF CopyIsCurrent
  <2> QED
    BY <1>1, <2>2, <2>3, <2>4, <2>5, Moved DEF CallShape
<1>7. CASE change[1] = "update" /\ call' = [call EXCEPT ![c].pc = "put", ![c].read = change[2]]
  BY <1>6, <1>7 DEF Sound
<1>8. CASE change[1] = "list" /\ call' = [call EXCEPT ![c].pc = "list", ![c].read = change[2]]
  <2>1. change[2] = d /\ call[c].req.tool = "k8s.rollout_undo"
    BY <1>8 DEF Sound
  <2>2. KeepsTheRest(call[c].req.tool, d, d)
    BY DEF KeepsTheRest
  <2> QED
    BY <1>6, <1>8, <2>1, <2>2
<1> QED
  BY <1>4, <1>5, <1>7, <1>8 DEF Decides

\* Get: the copy is of the version of this moment.
LEMMA GetHasShape ==
  ASSUME TypeOK, ClusterInv, NEW c \in Calls, Get(c)
  PROVE  CallShape(c)
<1>1. call[c].req \in AllRequests /\ dep \in Deployments /\ dep.version <= dep.version
  <2>1. call[c] \in CallStates /\ dep \in Deployments
    BY DEF TypeOK
  <2>2. call[c].req \in AllRequests
    BY <2>1 DEF CallStates, AllRequests
  <2>3. dep.version \in Nat
    BY <2>1 DEF Deployments
  <2> QED
    BY <2>1, <2>2, <2>3
<1>2. KeepsTheRest(call[c].req.tool, dep, dep)
  BY DEF KeepsTheRest
<1> DEFINE change == Change(call[c].req, dep)
<1>3. Sound(call[c].req, dep, change)
  BY <1>1, ChangeFacts DEF ClusterInv
<1>4. call[c].pc = "get" /\ UNCHANGED world /\ Decides(c, change)
  BY DEF Get
<1> HIDE DEF change
<1> QED
  BY <1>1, <1>2, <1>3, <1>4, DecidesHasShape

\* The ReplicaSets may be newer than the copy of the Deployment; the copy is what changes.
LEMMA ListHasShape ==
  ASSUME TypeOK, ClusterInv, NEW c \in Calls, ListOwnedReplicaSets(c)
  PROVE  CallShape(c)
<1> DEFINE d == call[c].read
           change == K8sRolloutUndo(call[c].req, d)
<1>1. call[c].pc = "list" /\ UNCHANGED world /\ Decides(c, change)
  BY DEF ListOwnedReplicaSets
<1>2. /\ call[c].req \in AllRequests /\ call[c].req.tool = "k8s.rollout_undo"
      /\ d \in Deployments /\ d.version <= dep.version
      /\ d.version = dep.version => KeepsTheRest(call[c].req.tool, dep, d)
  BY <1>1 DEF TypeOK, CallStates, AllRequests, ClusterInv, CopyIsCurrent
<1> HIDE DEF d
<1>3. Sound(call[c].req, d, change)
  BY <1>2, UndoFacts DEF ClusterInv
<1> HIDE DEF change
<1> QED
  BY <1>1, <1>2, <1>3, DecidesHasShape

\* Update writes a copy as the next version and generation; the status stays.
LEMMA UpdateFacts ==
  ASSUME TypeOK, NEW c, NEW d \in Deployments, Update(c, d)
  PROVE  /\ DepMoves
         /\ dep'.version = dep.version + 1 /\ dep'.gen = dep.gen + 1
         /\ dep'.replicas = d.replicas /\ dep'.paused = d.paused /\ dep'.template = d.template
<1>1. /\ dep.version + 1 \in Nat /\ dep.gen + 1 \in Nat /\ dep.obs \in Nat
      /\ dep.updated \in Nat
  BY DEF TypeOK, Deployments
<1> DEFINE v == dep.version + 1
           g == dep.gen + 1
           o == dep.obs
           u == dep.updated
<1>2. dep' = [d EXCEPT !.version = v, !.gen = g, !.obs = o, !.updated = u]
  BY DEF Update
<1>3. v \in Nat /\ g \in Nat /\ o \in Nat /\ u \in Nat
  BY <1>1
<1> HIDE DEF v, g, o, u
<1>4. dep' \in Deployments
  BY <1>2, <1>3 DEF Deployments
<1>5. /\ dep'.version = v /\ dep'.gen = g /\ dep'.replicas = d.replicas
      /\ dep'.paused = d.paused /\ dep'.template = d.template
  BY <1>2 DEF Deployments
<1> QED
  BY <1>4, <1>5 DEF DepMoves, v, g

\* Put: the copy is written, if it is current.
LEMMA PutHasShape ==
  ASSUME TypeOK, ClusterInv, NEW c \in Calls, Put(c)
  PROVE  CallShape(c)
<1>1. /\ call[c] \in CallStates /\ call[c].pc = "put" /\ call[c].read \in Deployments
      /\ call[c].code # "completed"
  BY DEF TypeOK, ClusterInv, WaitsForItsOwn, CopyIsCurrent, Put
<1>2. RestOK' /\ UNCHANGED sets
  <2>1. lost' \in Nat
    BY DEF Put, Lost, TypeOK
  <2> QED
    BY <2>1 DEF Put, TypeOK, RestOK
<1>3. CASE Fails(c) /\ UNCHANGED dep
  <2>1. DepMoves
    BY <1>3 DEF DepMoves, TypeOK
  <2> QED
    BY <1>2, <1>3, <2>1, EndsFacts DEF Fails, CallShape, OtherCodes
<1>4. CASE Fails(c) /\ Update(c, call[c].read)
  BY <1>1, <1>2, <1>4, UpdateFacts, EndsFacts DEF Fails, CallShape, OtherCodes
<1>5. CASE Ends(c, "ok") /\ Update(c, call[c].read)
  BY <1>1, <1>2, <1>5, UpdateFacts, EndsFacts DEF CallShape, OtherCodes
<1>6. ASSUME call' = [call EXCEPT ![c].pc = "wait", ![c].gen = dep.gen + 1],
             Update(c, call[c].read)
      PROVE  CallShape(c)
  <2> DEFINE g == dep.gen + 1
             n == [call[c] EXCEPT !.pc = "wait", !.gen = g]
  <2>1. g \in Nat /\ dep'.gen = g /\ DepMoves
    <3>1. g \in Nat
      BY DEF TypeOK, Deployments
    <3> QED
      BY <1>1, <1>6, <3>1, UpdateFacts
  <2>2. call' = [call EXCEPT ![c] = n]
    BY <1>6 DEF TypeOK
  <2> HIDE DEF g
  <2>3. n \in CallStates /\ n.pc = "wait" /\ n.code = call[c].code /\ n.gen = g
    BY <1>1, <2>1 DEF CallStates
  <2> HIDE DEF n
  <2>4. call'[c] = n /\ call' = [call EXCEPT ![c] = call'[c]]
    BY <2>2, Moved
  <2>5. CopyIsCurrent(c)' /\ WaitsForItsOwn(c)'
    BY <1>1, <2>1, <2>3, <2>4 DEF CopyIsCurrent, WaitsForItsOwn
  <2> QED
    BY <1>2, <2>1, <2>3, <2>4, <2>5 DEF CallShape
<1> QED
  BY <1>3, <1>4, <1>5, <1>6 DEF Put

\* A wait answers "completed" of the generation it waits for or a later one.
LEMMA WaitHasShape ==
  ASSUME TypeOK, ClusterInv, NEW c \in Calls, WaitForDeploymentRollout(c)
  PROVE  CallShape(c)
<1>1. DepMoves /\ RestOK' /\ UNCHANGED sets
  BY WorldStands DEF WaitForDeploymentRollout
<1>2. call[c] \in CallStates /\ call[c].gen <= dep.gen /\ dep' = dep
  BY DEF TypeOK, ClusterInv, WaitsForItsOwn, WaitForDeploymentRollout, world
<1>3. ASSUME NEW code \in OtherCodes, Ends(c, code) PROVE CallShape(c)
  BY <1>1, <1>3, EndsFacts DEF CallShape
<1>4. ASSUME evaluateDeploymentRollout(dep),
             call' = [call EXCEPT ![c].pc = "done", ![c].code = "completed", ![c].obs = dep.obs]
      PROVE  CallShape(c)
  <2> DEFINE o == dep.obs
             n == [call[c] EXCEPT !.pc = "done", !.code = "completed", !.obs = o]
  <2>1. o \in Nat /\ dep.gen \in Nat /\ call[c].gen \in Nat /\ o >= dep.gen
    BY <1>2, <1>4 DEF TypeOK, Deployments, CallStates, evaluateDeploymentRollout
  <2>2. call' = [call EXCEPT ![c] = n]
    BY <1>4 DEF TypeOK
  <2> HIDE DEF o
  <2>3. n \in CallStates /\ n.pc = "done" /\ n.obs = o /\ n.gen = call[c].gen
    BY <1>2, <2>1 DEF CallStates
  <2> HIDE DEF n
  <2>4. call'[c] = n /\ call' = [call EXCEPT ![c] = call'[c]]
    BY <2>2, Moved
  <2>5. CopyIsCurrent(c)' /\ WaitsForItsOwn(c)'
    BY <1>2, <2>1, <2>3, <2>4 DEF CopyIsCurrent, WaitsForItsOwn
  <2> QED
    BY <1>1, <2>3, <2>4, <2>5 DEF CallShape
<1> QED
  BY <1>3, <1>4 DEF WaitForDeploymentRollout, Fails, OtherCodes

\* Pods that are deleted are not in the specification.
LEMMA RestartPodsHasShape ==
  ASSUME TypeOK, ClusterInv, NEW c \in Calls, K8sRestartPods(c)
  PROVE  CallShape(c)
<1>1. RestOK' /\ UNCHANGED sets
  BY DEF K8sRestartPods, others, TypeOK, RestOK
<1>2. PICK k \in 0 .. call[c].req.n :
        /\ k <= dep.updated
        /\ dep' = [dep EXCEPT !.updated = @ - k]
        /\ Fails(c) \/ Ends(c, "ok")
  BY DEF K8sRestartPods
<1>3. call[c].req.n \in Int
  <2>1. call[c].req \in AllRequests
    BY DEF TypeOK, CallStates, AllRequests
  <2> QED
    BY <2>1, RequestFacts
<1>4. dep.updated - k \in Nat
  BY <1>2, <1>3 DEF TypeOK, Deployments
<1>5. DepMoves
  BY <1>2, <1>4 DEF TypeOK, Deployments, DepMoves
<1> QED
  BY <1>1, <1>2, <1>5, EndsFacts DEF Fails, CallShape, OtherCodes

--------------------------------------------------------------------------------
(* Manifests. *)

\* An object that is applied leads to the next, or to the answer.
LEMMA AppliedFacts ==
  ASSUME TypeOK, ClusterInv, NEW c \in Calls, call[c].pc \in {"get", "apply"}, Applied(c),
         DepMoves
  PROVE  /\ call' = [call EXCEPT ![c] = call'[c]] /\ call'[c] \in CallStates
         /\ CopyIsCurrent(c)' /\ WaitsForItsOwn(c)'
<1> DEFINE none == Idle.read
           k == call[c]
           n1 == [k EXCEPT !.pc = "done", !.code = "ok", !.read = none, !.doc = 0]
           n2 == [k EXCEPT !.pc = "get", !.read = none, !.doc = k.doc + 1]
           n == IF k.doc = Len(k.req.docs) THEN n1 ELSE n2
<1>1. call' = [call EXCEPT ![c] = n]
  BY Zenon DEF Applied
<1>2. /\ k \in CallStates /\ none \in Copies /\ k.doc + 1 \in Nat
      /\ k.gen <= dep.gen /\ k.code # "completed"
  <2>1. k \in CallStates /\ WaitsForItsOwn(c)
    BY DEF TypeOK, ClusterInv
  <2>2. k.doc + 1 \in Nat
    <3>1. call[c].doc \in Nat
      BY <2>1 DEF CallStates
    <3> QED
      BY <3>1
  <2>3. k.gen <= dep.gen /\ k.code # "completed"
    BY <2>1 DEF WaitsForItsOwn
  <2> QED
    BY <2>1, <2>2, <2>3, NothingRead
<1>3. k.gen <= dep'.gen
  <2>1. dep.gen \in Nat /\ dep'.gen \in Nat /\ k.gen \in Nat
    BY <1>2 DEF TypeOK, Deployments, CallStates, DepMoves
  <2> QED
    BY <1>2, <2>1 DEF DepMoves
<1> HIDE DEF none
<1>4. n1 \in CallStates /\ n1.pc = "done" /\ n1.code = "ok" /\ n1.gen = k.gen
  BY <1>2 DEF CallStates
<1>5. n2 \in CallStates /\ n2.pc = "get" /\ n2.code = k.code /\ n2.gen = k.gen
  BY <1>2 DEF CallStates
<1> HIDE DEF n1, n2
<1>6. /\ n \in CallStates /\ n.pc \in {"done", "get"} /\ n.code # "completed"
      /\ n.gen = k.gen
  BY <1>2, <1>4, <1>5
<1> HIDE DEF n
<1>7. call'[c] = n /\ call' = [call EXCEPT ![c] = call'[c]]
  BY <1>1, Moved
<1> QED
  BY <1>3, <1>6, <1>7 DEF CopyIsCurrent, WaitsForItsOwn

\* k8s.apply_manifest.
LEMMA ApplyHasShape ==
  ASSUME TypeOK, ClusterInv, NEW c \in Calls,
         ApplyRefused(c) \/ ApplySmall(c) \/ ApplyGet(c) \/ ApplyPut(c)
  PROVE  CallShape(c)
<1>1. ASSUME NEW code \in OtherCodes, Ends(c, code), DepMoves, RestOK', UNCHANGED sets
      PROVE  CallShape(c)
  BY <1>1, EndsFacts DEF CallShape
<1>2. ASSUME call[c].pc \in {"get", "apply"}, Applied(c), DepMoves, RestOK', UNCHANGED sets
      PROVE  CallShape(c)
  BY <1>2, AppliedFacts DEF CallShape
<1>3. CASE ApplyRefused(c)
  BY <1>1, <1>3, WorldStands DEF ApplyRefused, OtherCodes
<1>4. CASE ApplySmall(c)
  <2>1. DepMoves /\ RestOK' /\ UNCHANGED sets
    BY <1>4 DEF ApplySmall, preserveServiceImmutableFields, TypeOK, DepMoves, RestOK, others
  <2> QED
    BY <1>1, <1>2, <1>4, <2>1 DEF ApplySmall, Applying, Fails, OtherCodes
<1>5. CASE ApplyGet(c)
  <2>1. DepMoves /\ RestOK' /\ UNCHANGED sets /\ call[c] \in CallStates /\ call[c].pc = "get"
    BY <1>5, WorldStands DEF ApplyGet, Applying, TypeOK
  <2>2. CASE Fails(c)
    BY <1>1, <2>1, <2>2 DEF Fails, OtherCodes
  <2> DEFINE small == IF Doc(c) = "service" \/ Doc(c) \in objects THEN [version |-> 1]
                      ELSE [version |-> 0]
             m == IF Doc(c) = "deployment" THEN Manifest(dep.version) ELSE small
  <2>3. CASE call' = [call EXCEPT ![c].pc = "apply", ![c].read = m]
    <3> DEFINE n == [call[c] EXCEPT !.pc = "apply", !.read = m]
    <3>1. call' = [call EXCEPT ![c] = n]
      BY <2>3 DEF TypeOK
    <3>2. m \in Copies /\ (Doc(c) = "deployment" => m \in Deployments)
      <4>1. Manifest(dep.version) \in Deployments
        BY ClusterAssumption DEF Manifest, Deployments, Templates, TypeOK
      <4> QED
        BY <4>1 DEF Copies
    <3> HIDE DEF m
    <3>3. /\ n \in CallStates /\ n.pc = "apply" /\ n.read = m /\ n.code = call[c].code
          /\ n.gen = call[c].gen /\ n.req = call[c].req /\ n.doc = call[c].doc
      BY <2>1, <3>2 DEF CallStates
    <3> HIDE DEF n
    <3>4. call'[c] = n /\ call' = [call EXCEPT ![c] = call'[c]]
      BY <3>1, Moved
    <3>5. CopyIsCurrent(c)' /\ WaitsForItsOwn(c)'
      <4>1. call[c].gen <= dep.gen /\ call[c].code # "completed" /\ dep' = dep
        BY <1>5, <2>1 DEF ClusterInv, WaitsForItsOwn, ApplyGet, world
      <4> QED
        BY <3>2, <3>3, <3>4, <4>1 DEF CopyIsCurrent, WaitsForItsOwn, Doc
    <3> QED
      BY <2>1, <3>3, <3>4, <3>5 DEF CallShape
  <2> QED
    BY <1>5, <2>2, <2>3 DEF ApplyGet
<1>6. CASE ApplyPut(c)
  <2>1. /\ RestOK' /\ UNCHANGED sets /\ call[c].pc = "apply"
        /\ call[c].read \in Deployments
    BY <1>6 DEF ApplyPut, TypeOK, RestOK, others, ClusterInv, CopyIsCurrent
  <2>2. DepMoves
    <3>1. CASE UNCHANGED dep
      BY <3>1 DEF DepMoves, TypeOK
    <3>2. CASE Update(c, call[c].read)
      BY <2>1, <3>2, UpdateFacts
    <3> QED
      BY <1>6, <3>1, <3>2 DEF ApplyPut
  <2> QED
    BY <1>1, <1>2, <1>6, <2>1, <2>2 DEF ApplyPut, Fails, OtherCodes
<1> QED
  BY <1>3, <1>4, <1>5, <1>6

--------------------------------------------------------------------------------
(* Circuit breakers. *)

\* The calls of a breaker do not touch the Deployment.
LEMMA BreakHasShape ==
  ASSUME TypeOK, ClusterInv, NEW c \in Calls, K8sCircuitBreak(c) \/ SchedulePolicyCleanup(c)
  PROVE  CallShape(c)
<1>1. DepMoves /\ UNCHANGED sets
  BY DEF K8sCircuitBreak, SchedulePolicyCleanup, DepMoves, TypeOK
<1>2. /\ call[c] \in CallStates /\ call[c].req \in AllRequests
      /\ call[c].req.tool = "k8s.circuit_break"
  BY DEF TypeOK, CallStates, AllRequests, K8sCircuitBreak, SchedulePolicyCleanup, ClusterInv,
         CopyIsCurrent
<1>3. now + call[c].req.n \in Nat
  BY <1>2, RequestFacts DEF TypeOK
<1>4. CASE SchedulePolicyCleanup(c)
  <2>1. RestOK'
    BY <1>2, <1>3, <1>4 DEF SchedulePolicyCleanup, RestOK, TypeOK, CallStates
  <2> QED
    BY <1>1, <1>4, <2>1, EndsFacts DEF SchedulePolicyCleanup, CallShape, OtherCodes
<1>5. CASE K8sCircuitBreak(c)
  <2>1. breaker' \in Nat /\ lost' \in Nat
    BY <1>3, <1>5 DEF K8sCircuitBreak, TypeOK, Lost
  <2>2. RestOK'
    BY <1>5, <2>1 DEF K8sCircuitBreak, RestOK, TypeOK
  <2>3. ASSUME NEW code \in OtherCodes, Ends(c, code) PROVE CallShape(c)
    BY <1>1, <2>2, <2>3, EndsFacts DEF CallShape
  <2>4. ASSUME call' = [call EXCEPT ![c].pc = "schedule"] PROVE CallShape(c)
    <3> DEFINE n == [call[c] EXCEPT !.pc = "schedule"]
    <3>1. call' = [call EXCEPT ![c] = n]
      BY <2>4 DEF TypeOK
    <3>2. /\ n \in CallStates /\ n.pc = "schedule" /\ n.code = call[c].code
          /\ n.gen = call[c].gen /\ n.req = call[c].req
      BY <1>2 DEF CallStates
    <3> HIDE DEF n
    <3>3. call'[c] = n /\ call' = [call EXCEPT ![c] = call'[c]]
      BY <3>1, Moved
    <3>4. call[c].gen <= dep.gen /\ call[c].code # "completed" /\ dep' = dep
      BY <1>5 DEF ClusterInv, WaitsForItsOwn, K8sCircuitBreak
    <3>5. CopyIsCurrent(c)' /\ WaitsForItsOwn(c)'
      BY <1>2, <3>2, <3>3, <3>4 DEF CopyIsCurrent, WaitsForItsOwn
    <3> QED
      BY <1>1, <2>2, <3>2, <3>3, <3>5 DEF CallShape
  <2> QED
    BY <1>5, <2>3, <2>4 DEF K8sCircuitBreak, Fails, OtherCodes
<1> QED
  BY <1>4, <1>5

--------------------------------------------------------------------------------
(* The controller, the timers, the processes and time. *)

\* Steps that leave every call where it is.
LEMMA CallsStand ==
  ASSUME TypeOK, ClusterInv, UNCHANGED call, DepMoves, RestOK', sets' \in Seq(ReplicaSets),
         NewestExists'
  PROVE  TypeOK' /\ ClusterInv'
<1>1. TypeOK'
  BY DEF TypeOK, RestOK, DepMoves
<1>2. \A c \in Calls : CopyIsCurrent(c)' /\ WaitsForItsOwn(c)'
  BY OthersKeep
<1> QED
  BY <1>1, <1>2 DEF ClusterInv

\* The controller writes the status and numbers the ReplicaSets upwards.
LEMMA ControllerKeeps ==
  ASSUME TypeOK, ClusterInv, ControllerObserves \/ ControllerRollsOut
  PROVE  TypeOK' /\ ClusterInv'
<1>0. /\ dep \in Deployments /\ dep.replicas \in Nat /\ dep.gen \in Nat /\ dep.updated \in Nat
      /\ dep.template \in Templates /\ now \in Nat /\ sets \in Seq(ReplicaSets) /\ NewestExists
  BY DEF TypeOK, Deployments, ClusterInv
<1>1. CASE ControllerRollsOut
  <2>1. DepMoves
    BY <1>0, <1>1 DEF ControllerRollsOut, Deployments, DepMoves
  <2>2. RestOK' /\ UNCHANGED <<call, sets>>
    BY <1>1 DEF ControllerRollsOut, RestOK, TypeOK, others
  <2>3. NewestExists'
    BY <1>0, <2>2 DEF NewestExists
  <2> QED
    BY <1>0, <2>1, <2>2, <2>3, CallsStand
<1>2. CASE ControllerObserves
  <2> DEFINE u == IF sets[Newest].template = dep.template
                  THEN IF dep.updated < dep.replicas THEN dep.updated ELSE dep.replicas
                  ELSE 0
             g == dep.gen
             same == {i \in DOMAIN sets : sets[i].template = dep.template}
             one == CHOOSE i \in same : TRUE
             rev == sets[Newest].rev + 1
  <2>1. DepMoves
    <3>1. dep' = [dep EXCEPT !.obs = g, !.updated = u]
      BY <1>2 DEF ControllerObserves
    <3>2. u \in Nat /\ g \in Nat
      BY <1>0
    <3> HIDE DEF u, g
    <3> QED
      BY <1>0, <3>1, <3>2 DEF Deployments, DepMoves
  <2>2. RestOK' /\ UNCHANGED call
    BY <1>2 DEF ControllerObserves, RestOK, TypeOK, others
  <2>3. \/ sets' = sets
        \/ sets' = Append(sets, [template |-> dep.template, rev |-> rev, since |-> now])
        \/ same # {} /\ sets' = [sets EXCEPT ![one].rev = rev]
    BY <1>2, Zenon DEF ControllerObserves
  <2>4. /\ \A t \in DOMAIN sets : sets[t] \in ReplicaSets /\ sets[t].rev \in Nat
        /\ rev \in Nat /\ \A t \in DOMAIN sets : sets[t].rev < rev
    <3>1. \A t \in DOMAIN sets : sets[t] \in ReplicaSets
      BY <1>0
    <3>2. \A t \in DOMAIN sets : sets[t].rev \in Nat
      BY <3>1 DEF ReplicaSets
    <3> QED
      BY <1>0, <3>1, <3>2, NewestFacts
  <2>5. same # {} => one \in DOMAIN sets
    <3>1. same # {} => one \in same
      <4> HIDE DEF same
      <4> QED
        BY Zenon
    <3> HIDE DEF one
    <3> QED
      BY <3>1
  <2> HIDE DEF same, one, rev, u, g
  <2>6. CASE sets' = sets
    <3>1. NewestExists'
      BY <1>0, <2>6 DEF NewestExists
    <3> QED
      BY <1>0, <2>1, <2>2, <2>6, <3>1, CallsStand
  <2>7. CASE sets' = Append(sets, [template |-> dep.template, rev |-> rev, since |-> now])
    <3> DEFINE x == [template |-> dep.template, rev |-> rev, since |-> now]
    <3>1. x \in ReplicaSets /\ x.rev = rev
      BY <1>0, <2>4 DEF ReplicaSets
    <3>2. sets' = Append(sets, x)
      BY <2>7
    <3> HIDE DEF x
    <3>3. sets' \in Seq(ReplicaSets)
      BY <1>0, <3>1, <3>2
    <3>4. /\ Len(sets) + 1 \in DOMAIN sets' /\ sets'[Len(sets) + 1] = x
          /\ \A t \in DOMAIN sets' : t = Len(sets) + 1 \/ (t \in DOMAIN sets /\ sets'[t] = sets[t])
      BY <1>0, <3>1, <3>2
    <3>5. \A t \in DOMAIN sets' : sets'[t].rev <= sets'[Len(sets) + 1].rev
      BY <2>4, <3>1, <3>4
    <3>6. NewestExists'
      BY <3>4, <3>5 DEF NewestExists
    <3> QED
      BY <2>1, <2>2, <3>3, <3>6, CallsStand
  <2>8. CASE same # {} /\ sets' = [sets EXCEPT ![one].rev = rev]
    <3>1. \A x \in ReplicaSets : /\ [x EXCEPT !.rev = rev] \in ReplicaSets
                                 /\ [x EXCEPT !.rev = rev].rev = rev
      BY <2>4 DEF ReplicaSets
    <3>2. sets' = [sets EXCEPT ![one] = [sets[one] EXCEPT !.rev = rev]]
      BY <2>8
    <3>3. sets[one] \in ReplicaSets /\ one \in DOMAIN sets
      BY <2>4, <2>5, <2>8
    <3>4. sets' \in Seq(ReplicaSets)
      BY <1>0, <3>1, <3>2, <3>3
    <3>5. /\ DOMAIN sets' = DOMAIN sets /\ sets'[one].rev = rev
          /\ \A t \in DOMAIN sets : t # one => sets'[t] = sets[t]
      BY <3>1, <3>2, <3>3
    <3>6. \A t \in DOMAIN sets' : sets'[t].rev <= sets'[one].rev
      BY <2>4, <3>5
    <3>7. NewestExists'
      BY <3>3, <3>5, <3>6 DEF NewestExists
    <3> QED
      BY <2>1, <2>2, <3>4, <3>7, CallsStand
  <2> QED
    BY <2>3, <2>6, <2>7, <2>8
<1> QED
  BY <1>1, <1>2

\* Timers, clean-ups and time touch no Deployment and no call.
LEMMA TimersKeep ==
  ASSUME TypeOK, ClusterInv,
         \/ \E p \in Processes : TimerFires(p) \/ Cleanup(p)
         \/ Tick \/ UNCHANGED vars
  PROVE  TypeOK' /\ ClusterInv'
<1>1. UNCHANGED <<dep, sets, call>>
  BY DEF TimerFires, Cleanup, Tick, vars
<1>2. DepMoves /\ sets' \in Seq(ReplicaSets) /\ NewestExists'
  BY <1>1 DEF DepMoves, TypeOK, ClusterInv, NewestExists
<1>3. RestOK'
  <2>1. CASE Tick
    <3>1. now' \in Nat
      BY <2>1 DEF Tick, TypeOK
    <3>2. UNCHANGED <<svc, objects, breaker, timer, firing, crashes, lost>>
      BY <2>1 DEF Tick
    <3> QED
      BY <3>1, <3>2 DEF RestOK, TypeOK
  <2>4. CASE UNCHANGED vars
    BY <2>4 DEF vars, RestOK, TypeOK
  <2>2. ASSUME NEW p \in Processes, TimerFires(p) PROVE RestOK'
    BY <2>2 DEF TimerFires, RestOK, TypeOK
  <2>3. ASSUME NEW p \in Processes, Cleanup(p) PROVE RestOK'
    <3>1. firing[p] \in Nat /\ firing[p] - 1 \in Nat /\ breaker' \in Nat /\ lost' \in Nat
      BY <2>3 DEF Cleanup, TypeOK, Lost
    <3>2. firing' \in [Processes -> Nat]
      BY <2>3, <3>1 DEF Cleanup, TypeOK
    <3> QED
      BY <2>3, <3>1, <3>2 DEF Cleanup, RestOK, TypeOK
  <2> QED
    BY <2>1, <2>2, <2>3, <2>4
<1> QED
  BY <1>1, <1>2, <1>3, CallsStand

\* A process that dies ends its calls without an answer.
LEMMA RestartKeeps ==
  ASSUME TypeOK, ClusterInv, NEW p \in Processes, Restart(p)
  PROVE  TypeOK' /\ ClusterInv'
<1>1. DepMoves /\ UNCHANGED sets /\ dep' = dep
  BY DEF Restart, DepMoves, TypeOK
<1>2. RestOK'
  <2>1. crashes' \in Nat /\ lost' \in Nat
    <3>1. crashes' = crashes + 1 /\ (lost' = lost \/ lost' = lost + 1)
      BY Zenon DEF Restart, reconcileExistingPolicies, Lost
    <3> QED
      BY <3>1 DEF TypeOK
  <2>2. PICK m \in Nat, k \in Nat : /\ timer' = [timer EXCEPT ![p] = m]
                                    /\ firing' = [firing EXCEPT ![p] = k]
    <3> DEFINE expired == breaker # 0 /\ breaker <= now
               m == IF expired THEN 0 ELSE breaker
               k == IF expired THEN 1 ELSE 0
    <3>1. m \in Nat /\ k \in Nat /\ 0 \in Nat
      BY DEF TypeOK
    <3>2. \/ timer' = [timer EXCEPT ![p] = m] /\ firing' = [firing EXCEPT ![p] = k]
          \/ timer' = [timer EXCEPT ![p] = 0] /\ firing' = [firing EXCEPT ![p] = 0]
      BY Zenon DEF Restart, reconcileExistingPolicies
    <3> HIDE DEF m, k
    <3> QED
      BY <3>1, <3>2
  <2> QED
    BY <2>1, <2>2 DEF Restart, RestOK, TypeOK
<1>3. ASSUME NEW c \in Calls
      PROVE  call'[c] \in CallStates /\ CopyIsCurrent(c)' /\ WaitsForItsOwn(c)'
  <2>1. call[c] \in CallStates /\ WaitsForItsOwn(c)
    BY DEF TypeOK, ClusterInv
  <2>2. CASE call'[c] = call[c]
    BY <1>1, <2>1, <2>2, OthersKeep
  <2>3. CASE call'[c] = [call[c] EXCEPT !.pc = "done", !.code = "died"]
    <3>1. /\ call'[c] \in CallStates /\ call'[c].pc = "done" /\ call'[c].code = "died"
          /\ call'[c].gen = call[c].gen
      BY <2>1, <2>3 DEF CallStates
    <3> QED
      BY <1>1, <2>1, <3>1 DEF CopyIsCurrent, WaitsForItsOwn
  <2> QED
    BY <2>2, <2>3 DEF Restart
<1>4. call' \in [Calls -> CallStates]
  BY <1>3 DEF Restart
<1> QED
  BY <1>1, <1>2, <1>3, <1>4 DEF TypeOK, RestOK, DepMoves, ClusterInv, NewestExists

--------------------------------------------------------------------------------
(* The theorems. *)

\* A step of a call has the shape above.
LEMMA StepHasShape ==
  ASSUME TypeOK, ClusterInv, NEW c \in Calls,
         Step(c) \/ \E p \in Processes, r \in Requests : Begin(c, p, r)
  PROVE  CallShape(c)
<1>1. CASE Step(c)
  BY <1>1, ReadHasShape, GetHasShape, ListHasShape, PutHasShape, WaitHasShape, RestartPodsHasShape,
     ApplyHasShape, BreakHasShape DEF Step
<1>2. CASE \E p \in Processes, r \in Requests : Begin(c, p, r)
  <2>1. Requests \subseteq AllRequests
    BY DEF Requests, AllRequests
  <2> QED
    BY <1>2, <2>1, BeginHasShape
<1> QED
  BY <1>1, <1>2

\* The invariant holds at first and every step keeps it.
LEMMA ClusterInduction ==
  Spec => [](TypeOK /\ ClusterInv)
<1>1. Init => TypeOK /\ ClusterInv
  <2> SUFFICES ASSUME Init PROVE TypeOK /\ ClusterInv
    OBVIOUS
  <2> DEFINE t == [image |-> InitImage, stamp |-> 0]
             x == [template |-> t, rev |-> 1, since |-> 0]
  <2>1. t \in Templates
    BY ClusterAssumption DEF Templates
  <2>2. dep = [version |-> 1, gen |-> 1, template |-> t, replicas |-> 1, paused |-> FALSE,
               obs |-> 1, updated |-> 1] /\ sets = <<x>>
    BY DEF Init
  <2> HIDE DEF t
  <2>3. dep \in Deployments /\ dep.gen = 1
    BY <2>1, <2>2 DEF Deployments
  <2>4. x \in ReplicaSets
    BY <2>1 DEF ReplicaSets
  <2> HIDE DEF x
  <2>5. sets \in Seq(ReplicaSets) /\ DOMAIN sets = {1} /\ sets[1] = x
    BY <2>2, <2>4
  <2>6. NewestExists
    <3>1. x.rev \in Nat
      BY <2>4 DEF ReplicaSets
    <3> QED
      BY <2>5, <3>1 DEF NewestExists
  <2>7. /\ Idle \in CallStates /\ Idle.pc = "idle" /\ Idle.gen = 0 /\ Idle.code = ""
    <3>1. (CHOOSE p \in Processes : TRUE) \in Processes
      BY ClusterAssumption, Zenon
    <3> DEFINE at == CHOOSE p \in Processes : TRUE
               none == [version |-> 0]
    <3>2. Idle = [pc |-> "idle", req |-> NoReq, at |-> at, read |-> none, doc |-> 0, gen |-> 0,
                  obs |-> 0, code |-> ""]
      BY Zenon DEF Idle
    <3>3. at \in Processes
      BY <3>1
    <3> HIDE DEF at, none
    <3>4. Idle.read = none
      BY <3>2
    <3>5. none \in Copies
      BY <3>4, NothingRead
    <3> QED
      BY <3>2, <3>3, <3>5 DEF CallStates
  <2>8. \A c \in Calls : call[c] = Idle
    BY DEF Init
  <2>9. TypeOK
    BY <2>3, <2>5, <2>7 DEF Init, TypeOK
  <2>10. \A c \in Calls : CopyIsCurrent(c) /\ WaitsForItsOwn(c)
    <3> SUFFICES ASSUME NEW c \in Calls PROVE CopyIsCurrent(c) /\ WaitsForItsOwn(c)
      OBVIOUS
    <3>1. call[c].pc = "idle" /\ call[c].gen = 0 /\ call[c].code = ""
      BY <2>7, <2>8
    <3>2. CopyIsCurrent(c)
      BY <3>1 DEF CopyIsCurrent
    <3>3. call[c].gen <= dep.gen
      <4>1. \A a, b : a = 0 /\ b = 1 => a <= b
        OBVIOUS
      <4> QED
        BY <2>3, <3>1, <4>1, Zenon
    <3> QED
      BY <3>1, <3>2, <3>3 DEF WaitsForItsOwn
  <2> QED
    BY <2>6, <2>9, <2>10 DEF ClusterInv
<1>2. ASSUME TypeOK, ClusterInv, [Next]_vars PROVE TypeOK' /\ ClusterInv'
  <2>1. ASSUME NEW c \in Calls,
               Step(c) \/ \E p \in Processes, r \in Requests : Begin(c, p, r)
        PROVE  TypeOK' /\ ClusterInv'
    BY <1>2, <2>1, StepHasShape, CallShapeKeeps
  <2>2. CASE ControllerObserves \/ ControllerRollsOut
    BY <1>2, <2>2, ControllerKeeps
  <2>3. CASE \/ \E p \in Processes : TimerFires(p) \/ Cleanup(p)
             \/ Tick \/ UNCHANGED vars
    BY <1>2, <2>3, TimersKeep
  <2>4. CASE \E p \in Processes : Restart(p)
    BY <1>2, <2>4, RestartKeeps
  <2> QED
    BY <1>2, <2>1, <2>2, <2>3, <2>4, Zenon DEF Next, Timers
<1> QED
  BY <1>1, <1>2, PTL DEF Spec

\* Type correctness of the cluster tools: the Deployment, its ReplicaSets, the breaker and
\* the calls keep their form, whatever revision a rollback goes back to.
THEOREM ClusterTypeCorrect == Spec => []TypeOK
BY ClusterInduction, PTL

\* "completed" of k8s.set_image and k8s.restart_deployment is about the rollout the call
\* began or a later one, for any number of calls that write, pause, undo and apply in
\* between.
THEOREM CompletedHolds == Spec => []CompletedIsThisRollout
<1>1. ClusterInv => CompletedIsThisRollout
  BY DEF ClusterInv, WaitsForItsOwn, CompletedIsThisRollout
<1> QED
  BY <1>1, ClusterInduction, PTL

\* No lost update: what a tool writes back to a Deployment keeps what the others wrote since
\* it was read, for any number of calls and processes.
THEOREM WritesKeep == Spec => WritesKeepTheRest
<1> DEFINE Kept == \A c \in Calls :
                     call[c].pc = "put" /\ call'[c].pc # "put" /\ dep'.version # dep.version =>
                       KeepsTheRest(call[c].req.tool, dep, dep')
<1>1. ASSUME TypeOK, ClusterInv, [Next]_vars PROVE Kept
  <2>1. ASSUME NEW c \in Calls, call[c].pc = "put", call'[c].pc # "put",
               dep'.version # dep.version
        PROVE  KeepsTheRest(call[c].req.tool, dep, dep')
    <3>1. ASSUME NEW d \in Calls, d # c,
                 Step(d) \/ \E p \in Processes, r \in Requests : Begin(d, p, r)
          PROVE  FALSE
      <4>1. CallShape(d)
        BY <1>1, <3>1, StepHasShape
      <4>2. call'[c] = call[c]
        BY <1>1, <3>1, <4>1 DEF CallShape, TypeOK
      <4> QED
        BY <2>1, <4>2
    <3>2. ~ControllerObserves /\ ~ControllerRollsOut
      BY <2>1 DEF ControllerObserves, ControllerRollsOut
    <3>3. ~(\E p \in Processes : TimerFires(p) \/ Cleanup(p) \/ Restart(p))
      BY <2>1 DEF TimerFires, Cleanup, Restart
    <3>4. ~Tick /\ ~UNCHANGED vars
      BY <2>1 DEF Tick, vars
    <3>5. Step(c) \/ \E p \in Processes, r \in Requests : Begin(c, p, r)
      BY <1>1, <3>1, <3>2, <3>3, <3>4, Zenon DEF Next, Timers
    <3>6. Put(c)
      BY <2>1, <3>5 DEF Step, Begin, Read, Get, ListOwnedReplicaSets, WaitForDeploymentRollout, K8sRestartPods,
         ApplyRefused, ApplySmall, ApplyGet, ApplyPut, Applying, K8sCircuitBreak,
         SchedulePolicyCleanup
    <3>7. Update(c, call[c].read)
      BY <2>1, <3>6 DEF Put
    <3>8. /\ call[c].read \in Deployments
          /\ call[c].read.version = dep.version => KeepsTheRest(call[c].req.tool, dep, call[c].read)
      BY <1>1, <2>1 DEF ClusterInv, CopyIsCurrent
    <3>9. KeepsTheRest(call[c].req.tool, dep, call[c].read)
      BY <3>7, <3>8 DEF Update
    <3> QED
      BY <1>1, <3>7, <3>8, <3>9, UpdateFacts DEF KeepsTheRest
  <2> QED
    BY <2>1
<1> QED
  BY <1>1, ClusterInduction, PTL DEF Spec, WritesKeepTheRest
================================================================================
