------------------------------- MODULE Containers ------------------------------
(***************************************************************************)
(* The container tools (container.ps, run, logs, exec) of internal/        *)
(* adapters/tools on their four runtimes: pods (container_tools_k8s.go),   *)
(* the Docker API (container_tools_docker.go), a container CLI found in    *)
(* the workspace, and none (container_tools.go); and the sweep of the pods *)
(* that container.run leaves (kubernetes_pod_janitor.go).                  *)
(*                                                                         *)
(* A call takes one step per request it makes to the runtime, and so does  *)
(* the sweep, which lists the pods, looks up their sessions and deletes by *)
(* name.  Containers start and exit by themselves between those steps,     *)
(* requests fail with or without effect, and the session may end.          *)
(***************************************************************************)
EXTENDS Integers, FiniteSets

CONSTANTS
  Calls,     \* calls of the container tools in one session
  ReqsOf(_), \* the requests each may make
  MaxBoxes   \* bound: containers the runtime makes

ASSUME BoxesAssumption == MaxBoxes \in Nat

VARIABLES
  runtime,  \* what container tools the session has
  record,   \* the session's record, as a lookup by the label of its pods finds it
  box,      \* the runtime's containers, in the order they were made
  call,     \* where each call is
  sweep,    \* the pod of its list that the janitor is at
  faulty    \* history: calls with a failed request, but for a start that was undone

vars == <<runtime, record, box, call, sweep, faulty>>

Runtimes == {"k8s", "docker", "cli", "none"}
Boxes == 1 .. MaxBoxes
NoId == 0
Sim == -1   \* an id that buildSimulatedContainerID made

\* unseen: live, but its id is not what sanitizeContainerLabelValue makes of it, so that
\* the pods' label finds no record.
Records == {"live", "unseen", "expired", "absent"}

\* state: free, created, running, exited or gone; named: it has the name that runs with a
\* name ask for; auto: removed by the runtime on exit; old: past the janitor's periods.
NoBox == [state |-> "free", named |-> FALSE, auto |-> FALSE, old |-> FALSE]

\* Two runs with a name ask for the same name; on pods so do two runs of one command.
RunReqs == [tool : {"run"}, valid : BOOLEAN, strict : BOOLEAN, named : BOOLEAN,
            detach : BOOLEAN, remove : BOOLEAN]
UseReqs == [tool : {"logs", "exec"}, valid : BOOLEAN, strict : BOOLEAN,
            target : Boxes \cup {Sim}]
PsReqs == [tool : {"ps"}, valid : BOOLEAN, strict : BOOLEAN, all : BOOLEAN]
NoReq == [tool |-> "none"]
Reqs == RunReqs \cup UseReqs \cup PsReqs

\* A pod of the janitor's list, as it was listed: past the period for pods without a session,
\* past the one for pods that have exited; and whether it is to be deleted.
Sweeps == [pod : Boxes \cup {NoId}, old : BOOLEAN, terminal : BOOLEAN, doomed : BOOLEAN]
NoSweep == [pod |-> NoId, old |-> FALSE, terminal |-> FALSE, doomed |-> FALSE]

NoAnswer == [code |-> "none", simulated |-> FALSE, id |-> NoId, status |-> "none"]

Box == [state : {"free", "created", "running", "exited", "gone"}, named : BOOLEAN,
        auto : BOOLEAN, old : BOOLEAN]

\* failed: any error of the runtime, not_found and timeout among them.
Answers == [code : {"none", "ok", "invalid_argument", "failed"},
            simulated : BOOLEAN, id : Boxes \cup {Sim, NoId},
            status : {"none", "running", "exited", "unknown"}]

CallStates ==
  [pc : {"idle", "refused", "simulated", "probe", "run", "starting", "undoing", "waiting",
         "removing", "ps", "logs", "exec", "used", "attaching", "copying", "inspecting", "done"},
   req : Reqs \cup {NoReq}, box : Boxes \cup {NoId}, ans : Answers]

TypeOK ==
  /\ runtime \in Runtimes /\ record \in Records
  /\ box \in [Boxes -> Box]
  /\ call \in [Calls -> CallStates]
  /\ sweep \in Sweeps
  /\ faulty \subseteq Calls

\* isTerminalOrUnknownPhase: a pod whose container has exited.
Exited(b) == box[b].state = "exited"
Live(b) == box[b].state \in {"created", "running", "exited"}
\* The next id, when the bound leaves one.
FreeBoxes == {b \in Boxes : box[b].state = "free" /\ \A a \in 1 .. b - 1 : box[a].state # "free"}

\* Of a container that was removed its name is remembered.
Gone(x) == [NoBox EXCEPT !.state = "gone", !.named = x.named]

NameTaken(r) == r.named /\ \E b \in Boxes : Live(b) /\ box[b].named

\* What a request for container b finds: a pod is asked for by its name, which another may
\* have taken after it; the others by an id of their own.
Under(b) == {a \in Boxes : Live(a) /\ (a = b \/ (runtime = "k8s" /\ box[a].named /\ box[b].named))}

--------------------------------------------------------------------------------
(* Answers. *)

done(c, a) ==
  call' = [call EXCEPT ![c] = [pc |-> "done", req |-> call[c].req, box |-> call[c].box,
                               ans |-> a]]

goto(c, pc) == call' = [call EXCEPT ![c].pc = pc]

Fails(c, code) ==
  done(c, [NoAnswer EXCEPT !.code = code])

Succeeds(c, id, status) ==
  done(c, [NoAnswer EXCEPT !.code = "ok", !.id = id, !.status = status])

\* buildSimulatedContainerRunResult and its like: an answer without a runtime.
SimulatedAnswer(r) ==
  LET ans == [NoAnswer EXCEPT !.code = "ok", !.simulated = TRUE]
  IN  CASE r.tool = "ps"  -> ans
        [] r.tool = "run" -> [ans EXCEPT !.id = Sim,
                                         !.status = IF r.detach THEN "running" ELSE "exited"]
        [] OTHER          -> [ans EXCEPT !.id = r.target]

Simulates(c) == done(c, SimulatedAnswer(call[c].req))

\* A request that did not do what it should: an error when strict, else simulated.
Fallback(c) == IF call[c].req.strict THEN Fails(c, "failed") ELSE Simulates(c)

Fault(c) == faulty' = faulty \cup {c}

At(c, pc, rt) == call[c].pc = pc /\ runtime \in rt

--------------------------------------------------------------------------------
(* The beginning of each handler. *)

Begin(c, r, pc) ==
  /\ call[c].pc = "idle"
  /\ call' = [call EXCEPT ![c] = [@ EXCEPT !.pc = pc, !.req = r]]
  /\ UNCHANGED <<runtime, record, box, sweep, faulty>>

\* The arguments of every tool are checked first; a simulated id is answered before
\* the runtime is looked for, unless strict.
BeginPc(r) ==
  IF ~r.valid THEN "refused"
  ELSE IF r.tool \in {"logs", "exec"} /\ ~r.strict /\ r.target = Sim THEN "simulated"
  ELSE IF runtime \in {"k8s", "docker"} THEN r.tool
  ELSE "probe"

ContainerPS(c, r)   == r \in PsReqs /\ Begin(c, r, BeginPc(r))
ContainerRun(c, r)  == r \in RunReqs /\ Begin(c, r, BeginPc(r))
ContainerLogs(c, r) == r \in UseReqs /\ r.tool = "logs" /\ Begin(c, r, BeginPc(r))
ContainerExec(c, r) == r \in UseReqs /\ r.tool = "exec" /\ Begin(c, r, BeginPc(r))

Refuse(c) ==
  /\ call[c].pc = "refused" /\ Fails(c, "invalid_argument")
  /\ UNCHANGED <<runtime, record, box, sweep, faulty>>

AnswerSimulated(c) ==
  /\ call[c].pc = "simulated" /\ Simulates(c)
  /\ UNCHANGED <<runtime, record, box, sweep, faulty>>

\* detectContainerRuntime: the CLI that answers its probe, if one does.
DetectContainerRuntime(c) ==
  /\ call[c].pc = "probe"
  /\ \/ runtime = "cli" /\ goto(c, call[c].req.tool) /\ UNCHANGED faulty
     \/ Fallback(c) /\ Fault(c)
  /\ UNCHANGED <<runtime, record, box, sweep>>

--------------------------------------------------------------------------------
(* container.run on pods. *)

\* Only the Docker API and a CLI remove a container on its exit.
NewBox(r, state) ==
  [NoBox EXCEPT !.state = state, !.named = r.named,
                !.auto = r.remove /\ (runtime = "cli" \/ (runtime = "docker" /\ r.detach))]

MakesBox(c, b, new, pc) ==
  /\ box' = [box EXCEPT ![b] = new]
  /\ call' = [call EXCEPT ![c].pc = pc, ![c].box = b]

\* Create, again under another name when the name is taken.  An error may come after
\* the pod was made.
K8sCreate(c) ==
  LET r == call[c].req
      pod == [NewBox(r, "created") EXCEPT !.named = r.named /\ ~NameTaken(r)]
  IN  /\ At(c, "run", {"k8s"})
      /\ \/ \E b \in FreeBoxes : MakesBox(c, b, pod, "starting") /\ UNCHANGED faulty
         \/ /\ \/ \E b \in FreeBoxes : box' = [box EXCEPT ![b] = pod]
               \/ UNCHANGED box
            /\ Fails(c, "failed") /\ Fault(c)
      /\ UNCHANGED <<runtime, record, sweep>>

\* waitForK8sContainerPodStarted: a container that has exited already did start, or did not
\* when it failed; a pod that is not found is looked for until the timeout.
K8sStarted(c) ==
  LET b == call[c].box
  IN  /\ At(c, "starting", {"k8s"})
      /\ \/ /\ \E a \in Under(b) :
                 /\ box[a].state \in {"running", "exited"}
                 /\ IF call[c].req.detach
                    THEN Succeeds(c, b, box[a].state) ELSE goto(c, "waiting")
            /\ UNCHANGED faulty
         \/ /\ \E a \in Under(b) : Exited(a)
            /\ Fails(c, "failed") /\ UNCHANGED faulty
         \/ Fails(c, "failed") /\ Fault(c)   \* the timeout, or an error
      /\ UNCHANGED <<runtime, record, box, sweep>>

\* The pod under the name, or the container, is deleted; an error is not looked at.
Remove(b) ==
  box' = [a \in Boxes |-> IF a \in Under(b) THEN Gone(box[a]) ELSE box[a]]

Removing(c) ==
  \/ Remove(call[c].box) /\ UNCHANGED faulty
  \/ UNCHANGED box /\ Fault(c)

\* waitForK8sPodCompletion: on a timeout or an error the pod stays.
K8sTerminal(c) ==
  LET b == call[c].box
  IN  /\ At(c, "waiting", {"k8s"})
      /\ \/ /\ \E a \in Under(b) : Exited(a)
            /\ IF call[c].req.remove THEN goto(c, "removing") ELSE Succeeds(c, b, "exited")
            /\ UNCHANGED faulty
         \/ Fails(c, "failed") /\ Fault(c)
      /\ UNCHANGED <<runtime, record, box, sweep>>

\* A run that was waited for and is to be removed, on pods and on the Docker API.
RunRemoved(c) ==
  /\ At(c, "removing", {"k8s", "docker"})
  /\ Removing(c) /\ Succeeds(c, call[c].box, "exited")
  /\ UNCHANGED <<runtime, record, sweep>>

--------------------------------------------------------------------------------
(* container.run on the Docker API. *)

DockerCreate(c) ==
  LET r == call[c].req
  IN  /\ At(c, "run", {"docker"})
      /\ \/ /\ ~NameTaken(r)
            /\ \E b \in FreeBoxes : MakesBox(c, b, NewBox(r, "created"), "starting")
            /\ UNCHANGED faulty
         \/ /\ \/ /\ ~NameTaken(r)
                  /\ \E b \in FreeBoxes : box' = [box EXCEPT ![b] = NewBox(r, "created")]
               \/ UNCHANGED box
            /\ Fails(c, "failed") /\ Fault(c)
      /\ UNCHANGED <<runtime, record, sweep>>

\* Mutant: a container that could not be started is left.
Mut_DockerStart(c) ==
  LET b == call[c].box
      started == [box EXCEPT ![b].state = "running"]
  IN  /\ At(c, "starting", {"docker"})
      /\ \/ /\ box' = started
            /\ IF call[c].req.detach THEN Succeeds(c, b, "running") ELSE goto(c, "waiting")
         \/ box' \in {box, started} /\ Fails(c, "failed")
      /\ UNCHANGED <<runtime, record, sweep, faulty>>

\* The start; when it reports an error, which may be after it took effect, the container is
\* to be removed by force.
DockerStart(c) ==
  LET b == call[c].box
      started == [box EXCEPT ![b].state = "running"]
  IN  /\ At(c, "starting", {"docker"})
      /\ \/ /\ box' = started
            /\ IF call[c].req.detach THEN Succeeds(c, b, "running") ELSE goto(c, "waiting")
         \/ box' \in {box, started} /\ goto(c, "undoing")
      /\ UNCHANGED <<runtime, record, sweep, faulty>>

DockerUndo(c) ==
  /\ At(c, "undoing", {"docker"})
  /\ Removing(c) /\ Fails(c, "failed")
  /\ UNCHANGED <<runtime, record, sweep>>

\* Mutant: no deadline for the container to exit.
Mut_WaitForever(c) ==
  LET b == call[c].box
  IN  /\ At(c, "waiting", {"docker"})
      /\ \/ /\ Exited(b)
            /\ IF call[c].req.remove THEN goto(c, "removing") ELSE Succeeds(c, b, "exited")
         \/ ~Live(b) /\ Succeeds(c, b, "unknown")
      /\ UNCHANGED <<runtime, record, box, sweep, faulty>>

\* waitAndCollect: exited, not to be inspected, or still running at the deadline.
DockerWait(c) ==
  LET b == call[c].box
  IN  /\ At(c, "waiting", {"docker"})
      /\ \/ /\ Exited(b) /\ UNCHANGED faulty
            /\ IF call[c].req.remove THEN goto(c, "removing") ELSE Succeeds(c, b, "exited")
         \/ Fault(c) /\ Succeeds(c, b, "unknown")
         \/ Fault(c) /\ box[b].state = "running" /\ Succeeds(c, b, "running")
      /\ UNCHANGED <<runtime, record, box, sweep>>

--------------------------------------------------------------------------------
(* container.run on a CLI: one command, which ends when the container has exited unless  *)
(* detached, and fails when the container does.                                          *)

\* The container is made, and may not start.
CliRun(c) ==
  LET r == call[c].req
  IN  /\ At(c, "run", {"cli"})
      /\ \/ /\ ~NameTaken(r)
            /\ \E b \in FreeBoxes, state \in {"created", "running"} :
                 MakesBox(c, b, NewBox(r, state), "waiting")
            /\ UNCHANGED faulty
         \/ Fallback(c) /\ Fault(c) /\ UNCHANGED box
      /\ UNCHANGED <<runtime, record, sweep>>

\* parseContainerRunID: the first word of what the command wrote, its errors included; of a
\* detached run that is the id unless something came before it, of another what the
\* container wrote.  A simulated id when there is no such word.
parseContainerRunID(r, b) == IF r.detach THEN {b, NoId} ELSE Boxes \cup {Sim, NoId}

\* The command ends; one that fails, or is stopped at its deadline, leaves the container as
\* it is.
CliWait(c) ==
  LET b == call[c].box  r == call[c].req
  IN  /\ At(c, "waiting", {"cli"})
      /\ \/ /\ box[b].state \in IF r.detach THEN {"running", "exited", "gone"}
                                            ELSE {"exited", "gone"}
            /\ \E id \in parseContainerRunID(r, b) :
                 Succeeds(c, id, IF r.detach THEN "running" ELSE "exited")
            /\ UNCHANGED faulty
         \/ Fallback(c) /\ Fault(c)
      /\ UNCHANGED <<runtime, record, box, sweep>>

--------------------------------------------------------------------------------
(* container.ps, logs and exec. *)

\* The containers of one moment, which change nothing and which no property is about.
Listed(c, failing) ==
  /\ \/ Succeeds(c, NoId, "none") /\ UNCHANGED faulty
     \/ failing /\ Fault(c)
  /\ UNCHANGED <<runtime, record, box, sweep>>

K8sPS(c)    == At(c, "ps", {"k8s"}) /\ Listed(c, Fails(c, "failed"))
DockerPS(c) == At(c, "ps", {"docker"}) /\ Listed(c, Fails(c, "failed"))
CliPS(c)    == At(c, "ps", {"cli"}) /\ Listed(c, Fallback(c))

There(c) == call[c].req.target # Sim /\ Under(call[c].req.target) # {}
Runs(c) == There(c) /\ \E a \in Under(call[c].req.target) : box[a].state = "running"

\* The request itself, by then of a container that may have ended.
Used(c, there) ==
  /\ \/ there /\ Succeeds(c, call[c].req.target, "none") /\ UNCHANGED faulty
     \/ /\ IF runtime = "cli" THEN Fallback(c) ELSE Fails(c, "failed")
        /\ Fault(c)
  /\ UNCHANGED <<runtime, record, box, sweep>>

\* The pod is read first: logs need it there, exec needs it running.
K8sLookup(c, usable) ==
  /\ \/ ~There(c) /\ Fails(c, "failed") /\ UNCHANGED faulty
     \/ There(c) /\ ~usable /\ Fails(c, "failed") /\ UNCHANGED faulty
     \/ usable /\ goto(c, "used") /\ UNCHANGED faulty
     \/ Fails(c, "failed") /\ Fault(c)
  /\ UNCHANGED <<runtime, record, box, sweep>>

K8sLogs(c) == At(c, "logs", {"k8s"}) /\ K8sLookup(c, There(c))
K8sExec(c) == At(c, "exec", {"k8s"}) /\ K8sLookup(c, Runs(c))
K8sUsed(c) ==
  At(c, "used", {"k8s"}) /\ Used(c, IF call[c].req.tool = "exec" THEN Runs(c) ELSE There(c))

DockerLogs(c) == At(c, "logs", {"docker"}) /\ Used(c, There(c))

\* invokeExec makes an exec, attaches to it, which starts it, and copies its output.
DockerExecStep(c, at, to) ==
  /\ At(c, at, {"docker"})
  /\ \/ Runs(c) /\ goto(c, to) /\ UNCHANGED faulty
     \/ Fails(c, "failed") /\ Fault(c)
  /\ UNCHANGED <<runtime, record, box, sweep>>

DockerExec(c)       == DockerExecStep(c, "exec", "attaching")
DockerExecAttach(c) == DockerExecStep(c, "attaching", "copying")

\* The copy ends with the command or with its container; the timeout does not end it.
DockerExecCopied(c) ==
  /\ At(c, "copying", {"docker"}) /\ goto(c, "inspecting")
  /\ UNCHANGED <<runtime, record, box, sweep, faulty>>

\* The exit code, whatever has become of the container; an error when the timeout has passed.
DockerExecInspect(c) == At(c, "inspecting", {"docker"}) /\ Used(c, call[c].req.target # Sim)

CliLogs(c) == At(c, "logs", {"cli"}) /\ Used(c, There(c))
CliExec(c) == At(c, "exec", {"cli"}) /\ Used(c, Runs(c))

--------------------------------------------------------------------------------
(* The runtime, the session, and the janitor. *)

\* The kubelet starts a pod's container.
PodStarts(b) ==
  /\ runtime = "k8s" /\ box[b].state = "created"
  /\ box' = [box EXCEPT ![b].state = "running"]
  /\ UNCHANGED <<runtime, record, call, sweep, faulty>>

BoxExits(b) ==
  /\ box[b].state = "running"
  /\ box' = [box EXCEPT ![b] = IF @.auto THEN Gone(@) ELSE [@ EXCEPT !.state = "exited"]]
  /\ UNCHANGED <<runtime, record, call, sweep, faulty>>

BoxAges(b) ==
  /\ runtime = "k8s" /\ Live(b) /\ ~box[b].old
  /\ box' = [box EXCEPT ![b].old = TRUE]
  /\ UNCHANGED <<runtime, record, call, sweep, faulty>>

\* Closed or expired: the record goes, the containers of its runs stay.
SessionEnds ==
  /\ record # "absent"
  /\ record' \in CASE record = "live"    -> {"expired", "absent"}
                   [] record = "unseen"  -> {"absent"}
                   [] record = "expired" -> {"absent"}
  /\ UNCHANGED <<runtime, box, call, sweep, faulty>>

\* The pods are listed and gone through one by one; any time may pass before pod b is reached.
\* A lookup or a delete that fails changes nothing, and the next sweep begins again: it is no
\* step here.
SweepContainerPods(b) ==
  /\ runtime = "k8s" /\ sweep = NoSweep /\ Live(b)
  /\ sweep' = [pod |-> b, old |-> box[b].old, terminal |-> Exited(b) /\ box[b].old,
               doomed |-> FALSE]
  /\ UNCHANGED <<runtime, record, box, call, faulty>>

\* Mutant: a container is also collected when it is old.
Mut_DeleteOld(s) == s.old

\* Mutant: a pod without a session is not one to delete.
Mut_DeleteTerminal(s) == s.terminal

\* By the pod as it was listed and the record as it is found now.
ResolveContainerPodDeleteReason(s) ==
  \/ s.terminal                                  \* terminal_pod_ttl_expired
  \/ record \in {"absent", "unseen"} /\ s.old      \* session_not_found, past the grace period
  \/ record = "expired"

\* The pod is judged: it is to be deleted, or it stays.
JanitorJudges ==
  /\ sweep.pod # NoId /\ ~sweep.doomed
  /\ sweep' = IF ResolveContainerPodDeleteReason(sweep)
              THEN [NoSweep EXCEPT !.pod = sweep.pod, !.doomed = TRUE] ELSE NoSweep
  /\ UNCHANGED <<runtime, record, box, call, faulty>>

\* deletePod, by the name, of whichever pod has it.
JanitorDeletes ==
  /\ sweep.doomed /\ Remove(sweep.pod)
  /\ sweep' = NoSweep
  /\ UNCHANGED <<runtime, record, call, faulty>>

--------------------------------------------------------------------------------
Init ==
  /\ runtime \in Runtimes /\ record \in {"live", "unseen"}
  /\ box = [b \in Boxes |-> NoBox]
  /\ call = [c \in Calls |-> [pc |-> "idle", req |-> NoReq, box |-> NoId, ans |-> NoAnswer]]
  /\ sweep = NoSweep /\ faulty = {}

CallStep(c) ==
  \/ Refuse(c) \/ AnswerSimulated(c) \/ DetectContainerRuntime(c)
  \/ K8sCreate(c) \/ K8sStarted(c) \/ K8sTerminal(c) \/ RunRemoved(c)
  \/ DockerCreate(c) \/ DockerStart(c) \/ DockerUndo(c) \/ DockerWait(c)
  \/ CliRun(c) \/ CliWait(c)
  \/ K8sPS(c) \/ DockerPS(c) \/ CliPS(c)
  \/ K8sLogs(c) \/ K8sExec(c) \/ K8sUsed(c)
  \/ DockerLogs(c) \/ DockerExec(c) \/ DockerExecAttach(c) \/ DockerExecInspect(c)
  \/ CliLogs(c) \/ CliExec(c)

BoxStep(b) == PodStarts(b) \/ BoxExits(b) \/ BoxAges(b)

JanitorStep == JanitorJudges \/ JanitorDeletes

Next ==
  \/ \E c \in Calls : \/ \E r \in ReqsOf(c) : \/ ContainerPS(c, r) \/ ContainerRun(c, r)
                                              \/ ContainerLogs(c, r) \/ ContainerExec(c, r)
                      \/ CallStep(c) \/ DockerExecCopied(c)
  \/ \E b \in Boxes : BoxStep(b) \/ SweepContainerPods(b)
  \/ JanitorStep \/ SessionEnds

\* A call that has begun goes on, but a copy surely ends only with its container; time
\* passes; the janitor sweeps every interval, and the store and the cluster answer it now and
\* then.
Fairness ==
  /\ \A c \in Calls : WF_vars(CallStep(c)) /\ WF_vars(DockerExecCopied(c) /\ ~Runs(c))
  /\ \A b \in Boxes :
       WF_vars(BoxAges(b)) /\ WF_vars(SweepContainerPods(b))
  /\ WF_vars(JanitorStep)

Spec == Init /\ [][Next]_vars /\ Fairness

--------------------------------------------------------------------------------
(* Properties. *)

Answered(c) == call[c].pc = "done"
Ok(c) == Answered(c) /\ call[c].ans.code = "ok"
InEarnest(c) == Ok(c) /\ ~call[c].ans.simulated

\* What container.run answers in earnest is so of the container it made: on pods and the
\* Docker API the id it gives is that one's (a CLI's is the first word it wrote), one it
\* calls exited does not run, nothing is left of one that was to be removed, nor on the
\* Docker API of one that did not start, when no other request failed.
EarnestHolds(c) ==
  LET b == call[c].box  r == call[c].req  kept == c \notin faulty
  IN  Answered(c) /\ b # NoId =>
        /\ InEarnest(c) /\ runtime # "cli" => call[c].ans.id = b
        /\ InEarnest(c) /\ call[c].ans.status = "exited" => box[b].state \in {"exited", "gone"}
        /\ kept /\ Ok(c) /\ r.remove /\ ~r.detach => box[b].state = "gone"
        /\ kept /\ ~Ok(c) /\ runtime = "docker" => box[b].state = "gone"

\* An answer without the runtime says so, is given to no strict call and only when a request
\* failed or the container asked for is itself simulated, and names no container of the
\* runtime as the one it made; without a runtime there is no other.  The container that a
\* failed command did make may still be there.
SimulationHolds(c) ==
  LET r == call[c].req
  IN  /\ Ok(c) /\ call[c].ans.simulated =>
           /\ ~r.strict
           /\ c \in faulty \/ (r \in UseReqs /\ r.target = Sim)
           /\ r \in RunReqs => call[c].ans.id = Sim
      /\ Ok(c) /\ runtime = "none" => call[c].ans.simulated

\* What container.run answered on pods, the Docker API, a CLI or by simulation is so of its
\* container, and stays so while other calls, the runtime and the janitor go on.
RunAnswersHold == \A c \in Calls : EarnestHolds(c) /\ SimulationHolds(c)

\* Pod b has the name of another that was there when it was decided to delete that one.
TookName(b) ==
  \E a \in Boxes \ {b} :
    /\ b \in Under(a)
    /\ (sweep.doomed /\ sweep.pod = a) \/ \E c \in Calls : call[c].box = a /\ call[c].pc = "removing"

\* A container that runs is removed by no call and no sweep while the session's record is
\* found, but for one that its own call started and was told it did not start, and for a pod
\* that took the name of one to be deleted; only one that is to be removed on exit ends by
\* exiting.
RunningIsKept ==
  [][\A b \in Boxes : box[b].state = "running" /\ box'[b].state = "gone" =>
       \/ record # "live"
       \/ box[b].auto /\ call' = call
       \/ \E c \in Calls : call[c].box = b /\ call[c].pc = "undoing"
       \/ TookName(b)]_vars

\* A call that has begun is answered, though its container may run for ever or be gone; only
\* an exec on the Docker API may wait for its command as long as the container runs.
CallsAnswered ==
  \A c \in Calls : call[c].pc # "idle" ~> Answered(c) \/ (call[c].pc = "copying" /\ Runs(c))

\* When the session has ended, the pods of its runs go, whatever their calls did.
PodsCollected ==
  \A b \in Boxes :
    [](runtime = "k8s" /\ record \in {"expired", "absent"} /\ Live(b) => <>(box[b].state = "gone"))
--------------------------------------------------------------------------------
(* Strengthenings that make the safety properties inductive. *)

\* The request of a call, by where the call is.
ReqInPlace(c) ==
  LET pc == call[c].pc  r == call[c].req
  IN  /\ pc # "idle" => r \in Reqs
      /\ pc \in {"run", "starting", "undoing", "waiting", "removing"} => r \in RunReqs
      /\ pc \in {"logs", "exec", "used", "attaching", "copying", "inspecting"} => r \in UseReqs
      /\ pc = "ps" => r \in PsReqs
      /\ pc = "simulated" => ~r.strict /\ r \in UseReqs /\ r.target = Sim
      /\ pc = "undoing" => runtime = "docker"
      /\ pc = "removing" => runtime # "cli"
      /\ runtime = "none" => pc \in {"idle", "refused", "simulated", "probe", "done"}

\* A container that the runtime removes on its exit.
WillGo(b) == box[b].auto /\ box[b].state \in {"created", "running"}

\* The container of a call was made for it alone, and by nobody else is it started; one that
\* is to be removed after its exit has exited.
OwnBox(c) ==
  LET b == call[c].box  pc == call[c].pc
  IN  /\ b # NoId => /\ box[b].state # "free"
                     /\ \A d \in Calls : call[d].box = b => d = c
      /\ pc \in {"starting", "undoing", "waiting", "removing"} => b # NoId
      /\ pc \notin {"starting", "undoing", "waiting", "removing", "done"} => b = NoId
      /\ pc = "starting" /\ runtime = "docker" => box[b].state = "created"
      /\ pc = "waiting" /\ runtime # "cli" => box[b].state \in {"running", "exited", "gone"}
      /\ pc = "removing" => box[b].state \in {"exited", "gone"}
      /\ pc = "waiting" /\ runtime = "cli" /\ call[c].req.remove =>
           WillGo(b) \/ box[b].state = "gone"

\* No two containers have the name at once.
NameIsUnique ==
  \A a, b \in Boxes : Live(a) /\ Live(b) /\ box[a].named /\ box[b].named => a = b

\* A pod that was listed as terminal, or is to be deleted while the record is found, has exited.
SweptInPlace ==
  /\ sweep # NoSweep => runtime = "k8s"
  /\ sweep.terminal \/ sweep.doomed => sweep.pod # NoId
  /\ sweep.terminal \/ (sweep.doomed /\ record = "live") =>
       box[sweep.pod].state \in {"exited", "gone"}

BoxInv ==
  /\ NameIsUnique /\ SweptInPlace
  /\ \A c \in Calls : ReqInPlace(c) /\ OwnBox(c) /\ EarnestHolds(c) /\ SimulationHolds(c)

================================================================================
