------------------------------ MODULE ClusterTools ------------------------------
(***************************************************************************)
(* The k8s.* tools of internal/adapters/tools on one namespace: calls that *)
(* read a Deployment, change it and write it back, calls that wait for its *)
(* rollout, manifests applied object by object, and circuit breakers that  *)
(* a timer of the process removes.  The API server and the deployment      *)
(* controller are external: an Update of an object that has changed since  *)
(* it was read is refused, and the controller follows the specification    *)
(* when it gets to it.                                                     *)
(***************************************************************************)
EXTENDS Integers, FiniteSets, Sequences

CONSTANTS
  Calls,       \* one tool call each
  Processes,   \* replicas of the runtime
  Images,
  InitImage,
  MinAge,      \* k8sRolloutMinAge, in ticks
  TTLs,        \* of circuit breakers, in ticks
  MaxTime,     \* bound
  MaxCrashes,  \* bound
  MaxLost      \* bound on answers of the API server that are lost

ASSUME ClusterAssumption ==
  InitImage \in Images /\ Processes # {} /\ MinAge \in Nat /\ TTLs \subseteq Nat \ {0}

VARIABLES
  dep,      \* the Deployment: version, generation, specification and status
  sets,     \* its ReplicaSets, oldest first
  svc,      \* the address of the Service of the manifests
  objects,  \* the other objects that manifests have created
  breaker,  \* the NetworkPolicy of the circuit breaker: its expiry, 0 for none
  timer,    \* per process: when the clean-up of the breaker is due, 0 for no timer
  firing,   \* per process: clean-ups that have started and not yet deleted
  call,     \* the calls
  now, crashes, lost

vars == <<dep, sets, svc, objects, breaker, timer, firing, call, now, crashes, lost>>
world == <<dep, sets, svc, objects, breaker, timer, firing, now, crashes, lost>>
others == <<timer, firing, now, crashes, lost>>

--------------------------------------------------------------------------------
(* Requests, those that decodeK8sArgs and the handlers' first checks let pass among them. *)

Docs == {<<"service", "deployment">>, <<"deployment", "secret">>, <<"configmap">>,
         <<"deployment", "elsewhere">>}

Req(tool) == [tool |-> tool, named |-> TRUE, wait |-> FALSE, image |-> InitImage, n |-> 0,
              delta |-> FALSE, docs |-> <<>>, dryRun |-> FALSE, headless |-> FALSE]

Readers == {"k8s.get_pods", "k8s.get_services", "k8s.get_deployments", "k8s.get_images",
            "k8s.get_logs", "k8s.get_replicasets"}

DeploymentRequests ==
  {Req("k8s.rollout_status"), Req("k8s.rollout_pause"), Req("k8s.restart_pods"),
   [Req("k8s.restart_pods") EXCEPT !.n = 1], [Req("k8s.rollout_pause") EXCEPT !.named = FALSE],
   Req("k8s.set_image"), [Req("k8s.get_logs") EXCEPT !.named = FALSE]}
  \cup {[Req(tool) EXCEPT !.n = 1] : tool \in Readers}
  \cup {[Req("k8s.scale_deployment") EXCEPT !.n = k[1], !.delta = k[2]] :
          k \in {<<0, FALSE>>, <<1, TRUE>>, <<-2, TRUE>>}}
  \cup {[Req("k8s.restart_deployment") EXCEPT !.wait = TRUE]}
  \cup {[Req("k8s.set_image") EXCEPT !.image = i, !.wait = TRUE] : i \in Images \ {InitImage}}
  \cup {[Req("k8s.rollout_undo") EXCEPT !.n = k] : k \in 0 .. 2}
  \cup {[Req("k8s.apply_manifest") EXCEPT !.docs = d] : d \in Docs}
  \cup {[Req("k8s.apply_manifest") EXCEPT !.docs = <<"deployment">>, !.dryRun = TRUE]}

BreakerRequests ==
  {[Req("k8s.circuit_break") EXCEPT !.n = t] : t \in TTLs}
  \cup {[Req("k8s.circuit_break") EXCEPT !.headless = TRUE]}   \* a Service without an address

\* The two families share no state: a behaviour has calls of one.
Requests ==
  LET begun == {call[c].req.tool : c \in Calls} \ {"none"}
  IN  (IF begun \subseteq {"k8s.circuit_break"} THEN BreakerRequests ELSE {})
      \cup (IF "k8s.circuit_break" \in begun THEN {} ELSE DeploymentRequests)

NoReq == Req("none")
Idle == [pc |-> "idle", req |-> NoReq, at |-> CHOOSE p \in Processes : TRUE, read |-> [version |-> 0],
         doc |-> 0, gen |-> 0, obs |-> 0, code |-> ""]

\* The call answers; what it has read is gone.
Ends(c, code) == call' = [call EXCEPT ![c].pc = "done", ![c].code = code,
                                     ![c].read = Idle.read, ![c].doc = 0]
Fails(c) == Ends(c, "execution_failed")

\* The answer of a write is lost.
Lost == lost < MaxLost /\ lost' = lost + 1

--------------------------------------------------------------------------------
(* The Deployment. *)

Init ==
  /\ dep = [version |-> 1, gen |-> 1, template |-> [image |-> InitImage, stamp |-> 0],
            replicas |-> 1, paused |-> FALSE, obs |-> 1, updated |-> 1]
  /\ sets = <<[template |-> [image |-> InitImage, stamp |-> 0], rev |-> 1, since |-> 0]>>
  /\ svc = "ip"
  /\ objects = {} /\ breaker = 0
  /\ timer = [p \in Processes |-> 0] /\ firing = [p \in Processes |-> 0]
  /\ call = [c \in Calls |-> Idle]
  /\ now = 0 /\ crashes = 0 /\ lost = 0

Newest == CHOOSE s \in DOMAIN sets : \A t \in DOMAIN sets : sets[t].rev <= sets[s].rev

\* The controller sees the specification: a new template gets a ReplicaSet, or brings an
\* old one back, unless the Deployment is paused.
ControllerObserves ==
  LET same == {i \in DOMAIN sets : sets[i].template = dep.template}
      rev == sets[Newest].rev + 1
  IN  /\ dep.obs < dep.gen
      /\ dep' = [dep EXCEPT !.obs = dep.gen,
                            !.updated = IF sets[Newest].template = dep.template
                                        THEN IF @ < dep.replicas THEN @ ELSE dep.replicas
                                        ELSE 0]
      /\ sets' = IF dep.paused \/ sets[Newest].template = dep.template THEN sets
                 ELSE IF same = {}
                 THEN Append(sets, [template |-> dep.template, rev |-> rev, since |-> now])
                 ELSE [sets EXCEPT ![CHOOSE i \in same : TRUE].rev = rev]
      /\ UNCHANGED <<svc, objects, breaker, others, call>>

\* ... and brings the pods of the template to the number that is asked for.
ControllerRollsOut ==
  /\ dep.obs = dep.gen /\ dep.updated # dep.replicas
  /\ sets[Newest].template = dep.template
  /\ dep' = [dep EXCEPT !.updated = dep.replicas]
  /\ UNCHANGED <<sets, svc, objects, breaker, others, call>>

\* Mutant: the write carries no version.
Mut_Update(c, d) ==
  dep' = [d EXCEPT !.version = dep.version + 1, !.gen = dep.gen + 1,
                   !.obs = dep.obs, !.updated = dep.updated]

\* Deployments(namespace).Update, of the copy that call c has read and changed to d.
Update(c, d) ==
  /\ call[c].read.version = dep.version
  /\ dep' = [d EXCEPT !.version = dep.version + 1, !.gen = dep.gen + 1,
                      !.obs = dep.obs, !.updated = dep.updated]

\* k8s.scale_deployment: the number of replicas, given or added; less than none is refused.
ScaleTarget(r, d) == IF r.delta THEN d.replicas + r.n ELSE r.n

\* replicaSetHealthyRollbackTarget: it has ready pods, or the controller has noted on it
\* that pods are desired.
replicaSetHealthyRollbackTarget(s) == (s = Newest /\ dep.updated > 0) \/ dep.replicas > 0

\* currentReplicaSet: the one of the Deployment's template, else the newest.
currentReplicaSet(d) ==
  LET same == {i \in DOMAIN sets : sets[i].template = d.template}
  IN  IF same = {} THEN Newest ELSE CHOOSE i \in same : TRUE

\* targetRollbackReplicaSet: the revision that is asked for, or the newest before the
\* current one; 0 for a revision that is not there, -1 for no healthy one.
targetRollbackReplicaSet(d, revision) ==
  LET current == currentReplicaSet(d)
      named == {i \in DOMAIN sets : sets[i].rev = revision}
      healthy == {i \in DOMAIN sets \ {current} : replicaSetHealthyRollbackTarget(i)}
  IN  IF revision > 0
      THEN IF named = {} THEN 0 ELSE IF named \subseteq healthy \cup {current}
                                     THEN CHOOSE i \in named : TRUE ELSE -1
      ELSE IF healthy = {} THEN -1
           ELSE CHOOSE i \in healthy : \A j \in healthy : sets[j].rev <= sets[i].rev

\* What the calls that change the Deployment do with the copy they have read: the change,
\* or the answer that ends them.
Restarted(d) == [d EXCEPT !.template.stamp = now + 1]

K8sScaleDeployment(r, d) ==
  LET n == ScaleTarget(r, d)
  IN  IF n < 0 THEN <<"invalid_argument", d>>
      ELSE IF n = d.replicas THEN <<"ok", d>> ELSE <<"update", [d EXCEPT !.replicas = n]>>

K8sRolloutPause(r, d) ==
  IF d.paused THEN <<"ok", d>> ELSE <<"update", [d EXCEPT !.paused = TRUE]>>

\* The ReplicaSets are listed after the Deployment d was read, and may be newer.
K8sRolloutUndo(r, d) ==
  LET current == currentReplicaSet(d)
      target == targetRollbackReplicaSet(d, r.n)
  IN  IF now - sets[current].since < MinAge THEN <<"rollout_too_young", d>>
      ELSE IF target = 0 THEN <<"invalid_argument", d>>
      ELSE IF target = -1 THEN <<"no_previous_healthy_replicaset", d>>
      ELSE IF target = current THEN <<"ok", d>>
      ELSE <<"update", [d EXCEPT !.template = sets[target].template]>>

K8sSetImage(r, d) == <<"update", [d EXCEPT !.template.image = r.image]>>

Change(r, d) ==
  CASE r.tool = "k8s.scale_deployment" -> K8sScaleDeployment(r, d)
    [] r.tool = "k8s.rollout_pause" -> K8sRolloutPause(r, d)
    [] r.tool = "k8s.rollout_undo" -> <<"list", d>>
    [] r.tool = "k8s.set_image" -> K8sSetImage(r, d)
    [] OTHER -> <<"update", Restarted(d)>>   \* k8s.restart_deployment, k8s.restart_pods

Changers == {"k8s.scale_deployment", "k8s.rollout_pause", "k8s.rollout_undo", "k8s.set_image",
             "k8s.restart_deployment", "k8s.restart_pods"}

--------------------------------------------------------------------------------
(* The calls. *)

Begin(c, p, r) ==
  /\ call[c].pc = "idle"
  /\ call' = [call EXCEPT ![c] =
       IF ~r.named THEN [@ EXCEPT !.pc = "done", !.req = r, !.code = "invalid_argument"]
       ELSE [@ EXCEPT !.pc = "get", !.req = r, !.at = p, !.doc = 1]]
  /\ UNCHANGED world

\* A list is cut to the number that is asked for, and says so.
truncated(items, max) ==
  [items |-> IF max < items THEN max ELSE items, truncated |-> items > max]

K8sGetPods(r) == truncated(dep.updated, r.n)
K8sGetServices(r) == truncated(1, r.n)
K8sGetDeployments(r) == truncated(1, r.n)

\* buildImageIndex: every image once, however many pods run it.
K8sGetImages(r) == truncated(Cardinality({sets[i].template.image : i \in {Newest}}), r.n)

\* The log of a pod is cut to max_bytes; a pod of no log answers none.
K8sGetLogs(r) == truncated(dep.updated, r.n)

\* All of them, never cut; "current" is the newest, whatever the Deployment's template is.
K8sGetReplicaSets(r) == [items |-> Len(sets), truncated |-> FALSE]

Answer(r) ==
  CASE r.tool = "k8s.get_pods" -> K8sGetPods(r)
    [] r.tool = "k8s.get_services" -> K8sGetServices(r)
    [] r.tool = "k8s.get_deployments" -> K8sGetDeployments(r)
    [] r.tool = "k8s.get_images" -> K8sGetImages(r)
    [] r.tool = "k8s.get_logs" -> K8sGetLogs(r)
    [] r.tool = "k8s.get_replicasets" -> K8sGetReplicaSets(r)

\* One read of the cluster, and its answer.
Read(c) ==
  /\ call[c].pc = "get" /\ call[c].req.tool \in Readers
  /\ \/ Fails(c)
     \/ call' = [call EXCEPT ![c] = [@ EXCEPT !.pc = "done", !.code = "ok", !.doc = 0,
                                              !.obs = Answer(call[c].req).items]]
  /\ UNCHANGED world

\* The copy is to be written back, k8s.rollout_undo goes on to list the ReplicaSets, or the
\* call ends with an answer.
Decides(c, change) ==
  \/ Fails(c)
  \/ change[1] \notin {"update", "list"} /\ Ends(c, change[1])
  \/ /\ change[1] = "update"
     /\ call' = [call EXCEPT ![c].pc = "put", ![c].read = change[2]]
  \/ /\ change[1] = "list"
     /\ call' = [call EXCEPT ![c].pc = "list", ![c].read = change[2]]

\* The Deployment is read, and the copy changed.
Get(c) ==
  LET r == call[c].req
  IN  /\ call[c].pc = "get" /\ r.tool \in Changers /\ ~(r.tool = "k8s.restart_pods" /\ r.n > 0)
      /\ Decides(c, Change(r, dep))
      /\ UNCHANGED world

\* listOwnedReplicaSets: the ReplicaSets of now, for the Deployment that was read.
ListOwnedReplicaSets(c) ==
  /\ call[c].pc = "list"
  /\ Decides(c, K8sRolloutUndo(call[c].req, call[c].read))
  /\ UNCHANGED world

\* The copy is written back; a conflict and any other error end the call.
Put(c) ==
  LET r == call[c].req
  IN  /\ call[c].pc = "put"
      /\ \/ /\ Fails(c) /\ UNCHANGED <<dep, lost>>
         \/ /\ Fails(c) /\ Lost /\ Update(c, call[c].read)
         \/ /\ Update(c, call[c].read) /\ UNCHANGED lost
            /\ IF r.wait
               THEN call' = [call EXCEPT ![c].pc = "wait", ![c].gen = dep.gen + 1]
               ELSE Ends(c, "ok")
      /\ UNCHANGED <<sets, svc, objects, breaker, timer, firing, now, crashes>>

\* Mutant: the status is believed whatever generation it is about.
Mut_evaluateDeploymentRollout(d) == d.updated >= d.replicas

evaluateDeploymentRollout(d) == d.obs >= d.gen /\ d.updated >= d.replicas

\* waitForDeploymentRollout: one look; the deadline may pass after any of them.
WaitForDeploymentRollout(c) ==
  /\ \/ call[c].pc = "wait"
     \/ call[c].pc = "get" /\ call[c].req.tool = "k8s.rollout_status"
  /\ \/ /\ evaluateDeploymentRollout(dep)
        /\ call' = [call EXCEPT ![c].pc = "done", ![c].code = "completed", ![c].obs = dep.obs]
     \/ ~evaluateDeploymentRollout(dep) /\ Ends(c, "timeout")
     \/ Fails(c)
  /\ UNCHANGED world

\* k8s.restart_pods with a selector deletes pods, one by one, as many as are asked for.
K8sRestartPods(c) ==
  /\ call[c].pc = "get" /\ call[c].req.tool = "k8s.restart_pods" /\ call[c].req.n > 0
  /\ \E k \in 0 .. call[c].req.n :
       /\ k <= dep.updated
       /\ dep' = [dep EXCEPT !.updated = @ - k]
       /\ \/ Fails(c)
          \/ (k = call[c].req.n \/ k = dep.updated) /\ Ends(c, "ok")
  /\ UNCHANGED <<sets, svc, objects, breaker, others>>

--------------------------------------------------------------------------------
(* k8s.apply_manifest: the objects in their order; what was applied before an error stays. *)

k8sManifestKindAllowed(kind) == kind \in {"configmap", "deployment", "service", "elsewhere"}
k8sManifestNamespaceAllowed(kind) == kind # "elsewhere"   \* a Deployment of another namespace

\* The Deployment of the manifests.
Manifest(version) ==
  [version |-> version, gen |-> 0, template |-> [image |-> InitImage, stamp |-> 0],
   replicas |-> 2, paused |-> FALSE, obs |-> 0, updated |-> 0]

preserveServiceImmutableFields(new, old) == IF new = "" THEN old ELSE new

Applying(c) == call[c].pc = "get" /\ call[c].req.tool = "k8s.apply_manifest"
Doc(c) == call[c].req.docs[call[c].doc]

\* The next object, or the answer.
Applied(c) ==
  call' = [call EXCEPT ![c] = IF @.doc = Len(@.req.docs)
                              THEN [@ EXCEPT !.pc = "done", !.code = "ok", !.read = Idle.read, !.doc = 0]
                              ELSE [@ EXCEPT !.pc = "get", !.read = Idle.read,
                                             !.doc = call[c].doc + 1]]

ApplyRefused(c) ==
  /\ Applying(c) /\ ~(k8sManifestKindAllowed(Doc(c)) /\ k8sManifestNamespaceAllowed(Doc(c)))
  /\ Ends(c, "policy_denied")
  /\ UNCHANGED world

\* applyDeployment, applyService and applyConfigMap read the object; a ConfigMap may not
\* be there yet (version 0).
ApplyGet(c) ==
  /\ Applying(c) /\ Doc(c) \in {"deployment", "service", "configmap"}
  /\ \/ Fails(c)
     \/ call' = [call EXCEPT ![c].pc = "apply",
                             ![c].read = IF Doc(c) = "deployment" THEN Manifest(dep.version)
                                         ELSE IF Doc(c) = "service" \/ Doc(c) \in objects
                                         THEN [version |-> 1] ELSE [version |-> 0]]
  /\ UNCHANGED world

\* The Service and the ConfigMap are updated, or a ConfigMap that was not there is created,
\* unless another call has since.  The manifest's Service leaves its address to the cluster.
ApplySmall(c) ==
  /\ call[c].pc = "apply" /\ Doc(c) \in {"service", "configmap"}
  /\ \/ Fails(c) /\ UNCHANGED <<svc, objects>>
     \/ /\ call[c].read.version = 0 => Doc(c) \notin objects
        /\ Applied(c)
        /\ IF call[c].req.dryRun THEN UNCHANGED <<svc, objects>>
           ELSE /\ svc' = IF Doc(c) = "configmap" THEN svc
                          ELSE preserveServiceImmutableFields("", svc)
                /\ objects' = IF Doc(c) = "configmap" THEN objects \cup {Doc(c)} ELSE objects
  /\ UNCHANGED <<dep, sets, breaker, others>>

\* The manifest is written over the Deployment of the version that was read.
ApplyPut(c) ==
  /\ call[c].pc = "apply" /\ Doc(c) = "deployment"
  /\ \/ Fails(c) /\ UNCHANGED dep
     \/ Applied(c) /\ IF call[c].req.dryRun THEN UNCHANGED dep ELSE Update(c, call[c].read)
  /\ UNCHANGED <<sets, svc, objects, breaker, others>>

--------------------------------------------------------------------------------
(* Circuit breakers. *)

\* k8s.circuit_break: both Services are read, then the policy is created, or replaced when
\* there is one; the process that did it schedules the clean-up in a later step.
K8sCircuitBreak(c) ==
  LET expiry == now + call[c].req.n
  IN  /\ call[c].pc = "get" /\ call[c].req.tool = "k8s.circuit_break"
      /\ \/ Fails(c) /\ UNCHANGED <<breaker, lost>>
         \/ Fails(c) /\ ~call[c].req.headless /\ Lost /\ breaker' = expiry
         \/ call[c].req.headless /\ Ends(c, "invalid_argument") /\ UNCHANGED <<breaker, lost>>
         \/ /\ ~call[c].req.headless /\ breaker' = expiry
            /\ call' = [call EXCEPT ![c].pc = "schedule"]
            /\ UNCHANGED lost
      /\ UNCHANGED <<dep, sets, svc, objects, timer, firing, now, crashes>>

\* schedulePolicyCleanup: the timer of an earlier call of this process is stopped, when it
\* has not fired.
SchedulePolicyCleanup(c) ==
  /\ call[c].pc = "schedule"
  /\ timer' = [timer EXCEPT ![call[c].at] = now + call[c].req.n]
  /\ Ends(c, "ok")
  /\ UNCHANGED <<dep, sets, svc, objects, breaker, firing, now, crashes, lost>>

TimerFires(p) ==
  /\ timer[p] # 0 /\ timer[p] <= now
  /\ timer' = [timer EXCEPT ![p] = 0]
  /\ firing' = [firing EXCEPT ![p] = @ + 1]
  /\ UNCHANGED <<dep, sets, svc, objects, breaker, call, now, crashes, lost>>

\* The clean-up deletes whatever policy has the name now; its error is not looked at.
Cleanup(p) ==
  /\ firing[p] > 0
  /\ firing' = [firing EXCEPT ![p] = @ - 1]
  /\ \/ breaker' = 0 /\ UNCHANGED lost
     \/ Lost /\ UNCHANGED breaker
  /\ UNCHANGED <<dep, sets, svc, objects, timer, call, now, crashes>>

\* Mutant: the policies that have not expired are left to the timers of before.
Mut_reconcileExistingPolicies(p) ==
  /\ timer' = [timer EXCEPT ![p] = 0]
  /\ firing' = [firing EXCEPT ![p] = IF breaker # 0 /\ breaker <= now THEN 1 ELSE 0]
  /\ UNCHANGED lost

\* reconcileExistingPolicies, when the process starts, for the default namespace, which is
\* the one modelled: an expired policy is deleted like by a clean-up, another one gets its
\* timer back.  When the list fails the policies are left as they are.
reconcileExistingPolicies(p) ==
  LET expired == breaker # 0 /\ breaker <= now
  IN  \/ /\ timer' = [timer EXCEPT ![p] = IF expired THEN 0 ELSE breaker]
         /\ firing' = [firing EXCEPT ![p] = IF expired THEN 1 ELSE 0]
         /\ UNCHANGED lost
      \/ /\ Lost
         /\ timer' = [timer EXCEPT ![p] = 0]
         /\ firing' = [firing EXCEPT ![p] = 0]

\* A process dies with its calls and its timers, and starts again.
Restart(p) ==
  /\ crashes < MaxCrashes /\ crashes' = crashes + 1
  /\ \E c \in Calls : call[c].req.tool = "k8s.circuit_break"   \* the others fail as by an error
  /\ reconcileExistingPolicies(p)
  /\ call' = [c \in Calls |-> IF call[c].at = p /\ call[c].pc \notin {"idle", "done"}
                              THEN [call[c] EXCEPT !.pc = "done", !.code = "died"] ELSE call[c]]
  /\ UNCHANGED <<dep, sets, svc, objects, breaker, now>>

\* Bound: after MaxTime the time passes only until the last breaker is over.
Tick ==
  /\ now < MaxTime \/ breaker > now \/ \E p \in Processes : timer[p] > now
  /\ now' = now + 1
  /\ UNCHANGED <<dep, sets, svc, objects, breaker, timer, firing, call, crashes, lost>>

--------------------------------------------------------------------------------
Step(c) ==
  \/ Read(c) \/ Get(c) \/ ListOwnedReplicaSets(c) \/ Put(c) \/ WaitForDeploymentRollout(c) \/ K8sRestartPods(c)
  \/ ApplyRefused(c) \/ ApplySmall(c) \/ ApplyGet(c) \/ ApplyPut(c)
  \/ K8sCircuitBreak(c) \/ SchedulePolicyCleanup(c)

Timers(p) == TimerFires(p) \/ Cleanup(p)

Next ==
  \/ \E c \in Calls : Step(c) \/ \E p \in Processes, r \in Requests : Begin(c, p, r)
  \/ \E p \in Processes : Timers(p) \/ Restart(p)
  \/ ControllerObserves \/ ControllerRollsOut
  \/ Tick

Spec == Init /\ [][Next]_vars

\* A call runs on, timers fire and time passes.
FairSpec ==
  /\ Spec /\ WF_vars(Tick)
  /\ \A c \in Calls : WF_vars(Step(c))
  /\ \A p \in Processes : WF_vars(Timers(p))

--------------------------------------------------------------------------------
(* Properties. *)

\* k8s.set_image and k8s.restart_deployment with wait_for_rollout: "completed" is said of a
\* status the controller wrote after it had seen the change of this call.
CompletedIsThisRollout ==
  \A c \in Calls : call[c].code = "completed" => call[c].obs >= call[c].gen

\* What a tool does not change of a Deployment.
KeepsTheRest(tool, old, new) ==
  /\ tool # "k8s.scale_deployment" => new.replicas = old.replicas
  /\ tool # "k8s.rollout_pause" => new.paused = old.paused
  /\ tool \in {"k8s.scale_deployment", "k8s.rollout_pause"} => new.template = old.template
  /\ tool = "k8s.set_image" => new.template.stamp = old.template.stamp

\* Each tool that writes a Deployment back leaves what is not its own as it was at the
\* moment of the write, whatever another call wrote since it was read.
WritesKeepTheRest ==
  [][\A c \in Calls :
       call[c].pc = "put" /\ call'[c].pc # "put" /\ dep'.version # dep.version =>
         KeepsTheRest(call[c].req.tool, dep, dep')]_vars

\* k8s.circuit_break: a breaker whose time is over goes, also when the process that was to
\* remove it died before, unless an answer of the API server was lost: of the write that
\* made it, of its deletion, or of the list of the policies at the start.
BreakersEnd == []<>(breaker = 0 \/ breaker > now \/ lost > 0)

--------------------------------------------------------------------------------
(* Types, and strengthenings that make the safety properties inductive. *)

Templates == [image : Images, stamp : Nat]
Deployments == [version : Nat, gen : Nat, template : Templates, replicas : Nat,
                paused : BOOLEAN, obs : Nat, updated : Nat]
ReplicaSets == [template : Templates, rev : Nat, since : Nat]

\* A Deployment, or whether a smaller object is there.
Copies == Deployments \cup [version : {0, 1}]

CallStates ==
  [pc : {"idle", "get", "list", "put", "wait", "apply", "schedule", "done"},
   req : DeploymentRequests \cup BreakerRequests \cup {NoReq}, at : Processes,
   read : Copies, doc : Nat, gen : Nat, obs : Nat,
   code : {"", "ok", "completed", "timeout", "died", "invalid_argument", "policy_denied",
           "execution_failed", "rollout_too_young", "no_previous_healthy_replicaset"}]

TypeOK ==
  /\ dep \in Deployments /\ sets \in Seq(ReplicaSets)
  /\ svc = "ip" /\ objects \subseteq {"configmap"}
  /\ breaker \in Nat /\ timer \in [Processes -> Nat] /\ firing \in [Processes -> Nat]
  /\ call \in [Calls -> CallStates]
  /\ now \in Nat /\ crashes \in Nat /\ lost \in Nat

\* One ReplicaSet has the latest revision, so that "the newest" is one of them.
NewestExists == \E s \in DOMAIN sets : \A t \in DOMAIN sets : sets[t].rev <= sets[s].rev

\* The copy a call is about to write; it differs from the Deployment of its version in what
\* the tool changes and in nothing else.
CopyIsCurrent(c) ==
  LET k == call[c]
  IN  /\ k.pc \in {"list", "put"} =>
           /\ k.read \in Deployments /\ k.read.version <= dep.version
           /\ k.read.version = dep.version => KeepsTheRest(k.req.tool, dep, k.read)
      /\ k.pc = "list" => k.req.tool = "k8s.rollout_undo"
      /\ k.pc = "apply" /\ Doc(c) = "deployment" => k.read \in Deployments
      /\ k.pc = "schedule" => k.req.tool = "k8s.circuit_break"

\* The generation a call waits for exists, and "completed" is of that one or a later.
WaitsForItsOwn(c) ==
  LET k == call[c]
  IN  /\ k.gen <= dep.gen
      /\ k.code = "completed" => k.pc = "done" /\ k.obs >= k.gen

ClusterInv == NewestExists /\ \A c \in Calls : CopyIsCurrent(c) /\ WaitsForItsOwn(c)

================================================================================
