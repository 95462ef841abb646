---------------------------- MODULE ContainersProofs ---------------------------
(* Theorems about Containers, for every set of calls, whatever they request, and  *)
(* every number of containers.                                                    *)
EXTENDS Containers, TLAPS

--------------------------------------------------------------------------------
(* How a call moves and is answered. *)

\* A step changes no call but c, and not its request.
OnlyCall(c) ==
  /\ call' = [call EXCEPT ![c] = call'[c]]
  /\ call'[c] \in CallStates
  /\ call'[c].req = call[c].req

\* c is answered; its container stays as it was.
Ends(c) ==
  OnlyCall(c) /\ call'[c].pc = "done" /\ call'[c].box = call[c].box

Places == {"run", "undoing", "waiting", "removing", "ps", "logs", "exec", "used", "attaching",
           "copying", "inspecting"}

\* goto changes the place of a call and nothing else.
LEMMA GotoFacts ==
  ASSUME TypeOK, NEW c \in Calls, NEW pc \in Places, goto(c, pc)
  PROVE  OnlyCall(c) /\ call'[c].pc = pc /\ call'[c].box = call[c].box
<1>1. call[c] \in CallStates /\ call' = [call EXCEPT ![c] = [call[c] EXCEPT !.pc = pc]]
  BY DEF goto, TypeOK
<1>2. call'[c] = [call[c] EXCEPT !.pc = pc]
  BY <1>1 DEF TypeOK
<1>3. /\ call'[c] \in CallStates /\ call'[c].req = call[c].req
      /\ call'[c].pc = pc /\ call'[c].box = call[c].box
  BY <1>1, <1>2 DEF CallStates, Places
<1>4. call' = [call EXCEPT ![c] = call'[c]]
  BY <1>1, <1>2
<1> QED
  BY <1>3, <1>4 DEF OnlyCall

\* An answer ends the call.
LEMMA DoneFacts ==
  ASSUME TypeOK, NEW c \in Calls, NEW a \in Answers, done(c, a)
  PROVE  Ends(c) /\ call'[c].ans = a
<1>1. call[c] \in CallStates
  BY DEF TypeOK
<1>2. call'[c] = [pc |-> "done", req |-> call[c].req, box |-> call[c].box, ans |-> a]
  BY DEF done, TypeOK
<1>3. call'[c] \in CallStates
  BY <1>1, <1>2 DEF CallStates
<1>4. call' = [call EXCEPT ![c] = call'[c]]
  BY <1>2 DEF done
<1> QED
  BY <1>2, <1>3, <1>4 DEF Ends, OnlyCall

\* An error answers without a result.
LEMMA FailsFacts ==
  ASSUME TypeOK, NEW c \in Calls, NEW code \in {"invalid_argument", "failed"}, Fails(c, code)
  PROVE  Ends(c) /\ call'[c].ans.code # "ok"
<1>1. [NoAnswer EXCEPT !.code = code] \in Answers
  BY DEF NoAnswer, Answers, NoId
<1> QED
  BY <1>1, DoneFacts DEF Fails, NoAnswer

\* A result names a container and its status.
LEMMA SucceedsFacts ==
  ASSUME TypeOK, NEW c \in Calls, NEW id \in Boxes \cup {Sim, NoId},
         NEW status \in {"none", "running", "exited", "unknown"}, Succeeds(c, id, status)
  PROVE  /\ Ends(c) /\ call'[c].ans.code = "ok" /\ ~call'[c].ans.simulated
         /\ call'[c].ans.id = id /\ call'[c].ans.status = status
<1>1. [NoAnswer EXCEPT !.code = "ok", !.id = id, !.status = status] \in Answers
  BY DEF NoAnswer, Answers
<1> QED
  BY <1>1, DoneFacts DEF Succeeds, NoAnswer

\* A simulated answer says that it is one, and a run's names no container.
LEMMA SimulatesFacts ==
  ASSUME TypeOK, NEW c \in Calls, call[c].req \in Reqs, Simulates(c)
  PROVE  /\ Ends(c) /\ call'[c].ans.code = "ok" /\ call'[c].ans.simulated
         /\ call[c].req \in RunReqs => call'[c].ans.id = Sim
<1> DEFINE Fit(a, r) == /\ a \in Answers /\ a.code = "ok" /\ a.simulated
                        /\ r \in RunReqs => a.id = Sim
<1>1. \A r \in RunReqs : Fit(SimulatedAnswer(r), r)
  BY DEF SimulatedAnswer, RunReqs, NoAnswer, Answers, NoId
<1>2. \A r \in UseReqs : Fit(SimulatedAnswer(r), r)
  BY DEF SimulatedAnswer, RunReqs, UseReqs, NoAnswer, Answers, NoId
<1>3. \A r \in PsReqs : Fit(SimulatedAnswer(r), r)
  BY DEF SimulatedAnswer, RunReqs, PsReqs, NoAnswer, Answers, NoId
<1>4. PICK a : a = SimulatedAnswer(call[c].req)
  OBVIOUS
<1>5. Fit(a, call[c].req)
  BY <1>1, <1>2, <1>3, <1>4 DEF Reqs
<1>6. done(c, a)
  BY <1>4 DEF Simulates
<1> QED
  BY <1>5, <1>6, DoneFacts

\* What SimulationHolds asks of an answer, of the answer that c is given.
AnswerFits(c) ==
  call'[c].ans.code = "ok" =>
    /\ call'[c].ans.simulated =>
         /\ ~call[c].req.strict
         /\ c \in faulty' \/ (call[c].req \in UseReqs /\ call[c].req.target = Sim)
         /\ call[c].req \in RunReqs => call'[c].ans.id = Sim
    /\ runtime = "none" => call'[c].ans.simulated

\* Without a result from the runtime a strict call fails and another is simulated.
LEMMA FallbackFacts ==
  ASSUME TypeOK, NEW c \in Calls, call[c].req \in Reqs, Fallback(c), Fault(c)
  PROVE  /\ Ends(c) /\ AnswerFits(c)
         /\ call'[c].ans.code = "ok" => call'[c].ans.simulated
BY FailsFacts, SimulatesFacts DEF Fallback, Fault, AnswerFits

--------------------------------------------------------------------------------
(* What a step may do to the containers: none is made twice, started by anybody but its   *)
(* call or its kubelet, or runs again.                                                     *)

BoxesGo(own) ==
  /\ box' \in [Boxes -> Box]
  /\ \A b \in Boxes :
       \/ box'[b].state = box[b].state
       \/ box[b].state = "free"
       \/ box[b].state = "created" /\ (runtime = "k8s" \/ b = own) /\ box'[b].state # "free"
       \/ box[b].state = "running" /\ box'[b].state \in {"exited", "gone"}
       \/ box[b].state = "exited" /\ box'[b].state = "gone"
  /\ \A b \in Boxes : WillGo(b) => WillGo(b)' \/ box'[b].state = "gone"
  /\ NameIsUnique'

\* A name that no other container takes stays unique.
LEMMA NamesShrink ==
  ASSUME NameIsUnique,
         \A b \in Boxes : (Live(b) /\ box[b].named)' => Live(b) /\ box[b].named
  PROVE  NameIsUnique'
BY DEF NameIsUnique

\* Containers that stay as they are.
LEMMA BoxesStay ==
  ASSUME TypeOK, NameIsUnique, UNCHANGED box, NEW own
  PROVE  BoxesGo(own)
BY DEF BoxesGo, TypeOK, NameIsUnique, Live, WillGo

\* Of a container that was removed, the record.
LEMMA GoneType ==
  ASSUME NEW x \in Box
  PROVE  Gone(x) \in Box /\ Gone(x).state = "gone"
<1>1. x.named \in BOOLEAN
  BY DEF Box
<1> QED
  BY <1>1 DEF Gone, NoBox, Box

\* A removal takes what is under the name, and on the Docker API only the container itself.
LEMMA RemoveFacts ==
  ASSUME TypeOK, NameIsUnique, NEW a \in Boxes, Remove(a)
  PROVE  /\ box' \in [Boxes -> Box]
         /\ \A b \in Boxes : \/ b \in Under(a) /\ Live(b) /\ box'[b].state = "gone"
                             \/ b \notin Under(a) /\ box'[b] = box[b]
         /\ box[a].state # "free" => box'[a].state = "gone"
         /\ BoxesGo(a)
<1>1. \A b \in Boxes : box'[b] = IF b \in Under(a) THEN Gone(box[b]) ELSE box[b]
  BY DEF Remove
<1>2. \A b \in Boxes : box[b] \in Box /\ Gone(box[b]) \in Box /\ Gone(box[b]).state = "gone"
  BY GoneType DEF TypeOK
<1>3. box' \in [Boxes -> Box]
  BY <1>2 DEF Remove
<1>4. \A b \in Boxes : \/ b \in Under(a) /\ Live(b) /\ box'[b].state = "gone"
                       \/ b \notin Under(a) /\ box'[b] = box[b]
  BY <1>1, <1>2 DEF Under
<1>5. box[a].state # "free" => box'[a].state = "gone"
  <2>1. box[a].state \in {"free", "created", "running", "exited", "gone"}
    BY <1>2 DEF Box
  <2> QED
    BY <1>4, <2>1 DEF Under, Live
<1>6. NameIsUnique'
  BY <1>4, NamesShrink DEF Live
<1>7. BoxesGo(a)
  BY <1>3, <1>4, <1>6 DEF BoxesGo, Under, Live, WillGo
<1> QED
  BY <1>3, <1>4, <1>5, <1>7

--------------------------------------------------------------------------------
(* What a step of a call may do; every action of a call does no more than this. *)

PlaceOf(c) ==
  LET b == call'[c].box  pc == call'[c].pc
  IN  /\ b # NoId => box'[b].state # "free"
      /\ pc \in {"starting", "undoing", "waiting", "removing"} => b # NoId
      /\ pc \notin {"starting", "undoing", "waiting", "removing", "done"} => b = NoId
      /\ pc = "starting" /\ runtime = "docker" => box'[b].state = "created"
      /\ pc = "waiting" /\ runtime # "cli" => box'[b].state \in {"running", "exited", "gone"}
      /\ pc = "removing" => box'[b].state \in {"exited", "gone"}
      /\ pc = "waiting" /\ runtime = "cli" /\ call'[c].req.remove =>
           \/ box'[b].auto /\ box'[b].state \in {"created", "running"}
           \/ box'[b].state = "gone"

CallShape(c) ==
  /\ UNCHANGED <<runtime, record, sweep>>
  /\ faulty' \in {faulty, faulty \cup {c}}
  /\ call' = [call EXCEPT ![c] = call'[c]] /\ call'[c] \in CallStates
  /\ \/ call'[c].box = call[c].box
     \/ call'[c].box \in Boxes /\ box[call'[c].box].state = "free"
  /\ BoxesGo(call[c].box) /\ PlaceOf(c)
  /\ ReqInPlace(c)' /\ EarnestHolds(c)' /\ SimulationHolds(c)'

\* A call that does not move keeps its part of the invariant, however containers go on.
LEMMA OthersKept ==
  ASSUME TypeOK, BoxInv, NEW d \in Calls, NEW own, BoxesGo(own), runtime' = runtime,
         call'[d] = call[d], d \in faulty' <=> d \in faulty,
         call[d].box = NoId \/ call[d].box # own,
         \A e \in Calls : call[d].box # NoId /\ call'[e].box = call[d].box => e = d
  PROVE  (ReqInPlace(d) /\ OwnBox(d) /\ EarnestHolds(d) /\ SimulationHolds(d))'
<1>1. ReqInPlace(d) /\ OwnBox(d) /\ EarnestHolds(d) /\ SimulationHolds(d)
  BY DEF BoxInv
<1>2. call[d].box \in Boxes \/ call[d].box = NoId
  BY DEF TypeOK, CallStates
<1>3. ReqInPlace(d)' /\ SimulationHolds(d)'
  BY <1>1 DEF ReqInPlace, SimulationHolds, Ok, Answered
<1>4. OwnBox(d)'
  BY <1>1, <1>2 DEF OwnBox, BoxesGo, WillGo
<1>5. EarnestHolds(d)'
  BY <1>1, <1>2 DEF EarnestHolds, OwnBox, BoxesGo, InEarnest, Ok, Answered
<1> QED
  BY <1>3, <1>4, <1>5

\* The janitor's judgement stays true of the pod, however containers go on.
LEMMA SweepKept ==
  ASSUME TypeOK, SweptInPlace, NEW own, BoxesGo(own), runtime' = runtime, sweep' = sweep,
         record' = "live" => record = "live"
  PROVE  SweptInPlace'
<1>1. sweep \in Sweeps
  BY DEF TypeOK
<1>2. sweep.pod # NoId => sweep.pod \in Boxes
  BY <1>1 DEF Sweeps
<1> QED
  BY <1>2 DEF SweptInPlace, BoxesGo

\* A step of that shape keeps types and invariant.
LEMMA CallShapeKeeps ==
  ASSUME TypeOK, BoxInv, NEW c \in Calls, CallShape(c)
  PROVE  TypeOK' /\ BoxInv'
<1>1. TypeOK'
  BY DEF CallShape, BoxesGo, TypeOK
<1>2. ASSUME NEW d \in Calls
      PROVE  (ReqInPlace(d) /\ OwnBox(d) /\ EarnestHolds(d) /\ SimulationHolds(d))'
  <2>1. CASE d = c
    <3>1. ASSUME call'[c].box # NoId, NEW e \in Calls, call'[e].box = call'[c].box, e # c
          PROVE  FALSE
      <4>1. call'[e] = call[e]
        BY <3>1 DEF CallShape, TypeOK
      <4>2. call[e].box # NoId /\ OwnBox(e) /\ OwnBox(c)
        BY <3>1, <4>1 DEF BoxInv
      <4> QED
        BY <3>1, <4>1, <4>2 DEF CallShape, OwnBox
    <3> QED
      BY <2>1, <3>1 DEF CallShape, PlaceOf, OwnBox, WillGo
  <2>2. CASE d # c
    <3>1. call'[d] = call[d] /\ (d \in faulty' <=> d \in faulty) /\ runtime' = runtime
      BY <2>2 DEF CallShape, TypeOK
    <3>2. OwnBox(d) /\ OwnBox(c)
      BY DEF BoxInv
    <3>3. call[d].box = NoId \/ call[d].box # call[c].box
      BY <2>2, <3>2 DEF OwnBox
    <3>4. ASSUME NEW e \in Calls, call[d].box # NoId, call'[e].box = call[d].box PROVE e = d
      <4>1. CASE e # c
        BY <3>2, <3>4, <4>1 DEF OwnBox, CallShape, TypeOK
      <4>2. CASE e = c
        BY <2>2, <3>2, <3>4, <4>2 DEF OwnBox, CallShape
      <4> QED
        BY <4>1, <4>2
    <3>5. BoxesGo(call[c].box)
      BY DEF CallShape
    <3> QED
      BY <3>1, <3>3, <3>4, <3>5, OthersKept
  <2> QED
    BY <2>1, <2>2
<1>3. SweptInPlace' /\ NameIsUnique'
  BY SweepKept DEF CallShape, BoxInv, BoxesGo
<1> QED
  BY <1>1, <1>2, <1>3 DEF BoxInv

Answering == {"refused", "simulated", "probe", "run", "ps", "logs", "exec", "used", "attaching",
              "copying", "inspecting"}

\* A call that has made no container is answered.
LEMMA PlainAnswer ==
  ASSUME TypeOK, BoxInv, NEW c \in Calls, call[c].pc \in Answering,
         Ends(c), UNCHANGED <<runtime, record, sweep>>, faulty' \in {faulty, faulty \cup {c}},
         box' \in [Boxes -> Box], \A b \in Boxes : box'[b] = box[b] \/ box[b].state = "free",
         NameIsUnique', AnswerFits(c)
  PROVE  CallShape(c)
<1>1. call[c].box = NoId /\ call[c].req \in Reqs
  BY DEF BoxInv, OwnBox, ReqInPlace, Answering
<1>2. BoxesGo(call[c].box) /\ PlaceOf(c)
  BY <1>1 DEF BoxesGo, PlaceOf, Ends, WillGo
<1>3. ReqInPlace(c)' /\ EarnestHolds(c)' /\ SimulationHolds(c)'
  BY <1>1 DEF ReqInPlace, EarnestHolds, SimulationHolds, AnswerFits, Ok, Answered, Ends, OnlyCall
<1> QED
  BY <1>2, <1>3 DEF CallShape, Ends, OnlyCall

\* A call that has made no container goes on.
LEMMA PlainMove ==
  ASSUME TypeOK, BoxInv, NEW c \in Calls, call[c].pc \in Answering,
         NEW pc \in Places \ {"undoing", "waiting", "removing"}, goto(c, pc),
         pc = "run" => call[c].req \in RunReqs,
         pc \in {"logs", "exec", "used", "attaching", "copying", "inspecting"} =>
           call[c].req \in UseReqs,
         pc = "ps" => call[c].req \in PsReqs,
         runtime # "none", UNCHANGED <<runtime, record, box, sweep, faulty>>
  PROVE  CallShape(c)
<1>1. call[c].box = NoId /\ call[c].req \in Reqs
  BY DEF BoxInv, OwnBox, ReqInPlace, Answering
<1>2. OnlyCall(c) /\ call'[c].pc = pc /\ call'[c].box = call[c].box
  BY GotoFacts
<1>3. BoxesGo(call[c].box) /\ PlaceOf(c)
  BY <1>1, <1>2, BoxesStay DEF PlaceOf, Places, BoxInv
<1>4. ReqInPlace(c)' /\ EarnestHolds(c)' /\ SimulationHolds(c)'
  BY <1>1, <1>2
     DEF ReqInPlace, EarnestHolds, SimulationHolds, Ok, Answered, OnlyCall, Places
<1> QED
  BY <1>2, <1>3, <1>4 DEF CallShape, OnlyCall

\* A call that has made a container is answered.
LEMMA OwnAnswer ==
  ASSUME TypeOK, BoxInv, NEW c \in Calls,
         call[c].pc \in {"starting", "undoing", "waiting", "removing"},
         Ends(c), UNCHANGED <<runtime, record, sweep>>, faulty' \in {faulty, faulty \cup {c}},
         BoxesGo(call[c].box), EarnestHolds(c)', AnswerFits(c)
  PROVE  CallShape(c)
<1>1. /\ call[c].box \in Boxes /\ call[c].req \in Reqs /\ box[call[c].box].state # "free"
      /\ box[call[c].box] \in Box
  BY DEF BoxInv, OwnBox, ReqInPlace, TypeOK, CallStates
<1>2. PlaceOf(c)
  BY <1>1 DEF BoxesGo, PlaceOf, Ends
<1>3. ReqInPlace(c)' /\ SimulationHolds(c)'
  BY <1>1 DEF ReqInPlace, SimulationHolds, AnswerFits, Ok, Answered, Ends, OnlyCall
<1> QED
  BY <1>2, <1>3 DEF CallShape, Ends, OnlyCall

\* A call that has made a container goes on.
LEMMA OwnMove ==
  ASSUME TypeOK, BoxInv, NEW c \in Calls, call[c].pc \in {"starting", "waiting"},
         NEW pc \in {"undoing", "waiting", "removing"}, goto(c, pc),
         UNCHANGED <<runtime, record, sweep, faulty>>, BoxesGo(call[c].box),
         pc = "undoing" => runtime = "docker",
         pc = "removing" => runtime # "cli" /\ box'[call[c].box].state \in {"exited", "gone"},
         pc = "waiting" /\ runtime # "cli" =>
           box'[call[c].box].state \in {"running", "exited", "gone"},
         runtime # "cli"
  PROVE  CallShape(c)
<1>1. /\ call[c].box \in Boxes /\ call[c].req \in RunReqs /\ call[c].box # NoId
      /\ box[call[c].box].state # "free" /\ runtime # "none"
  BY DEF BoxInv, OwnBox, ReqInPlace, TypeOK, CallStates
<1>2. OnlyCall(c) /\ call'[c].pc = pc /\ call'[c].box = call[c].box
  BY GotoFacts DEF Places
<1>3. PlaceOf(c)
  BY <1>1, <1>2 DEF BoxesGo, PlaceOf
<1>4. ReqInPlace(c)' /\ EarnestHolds(c)' /\ SimulationHolds(c)'
  BY <1>1, <1>2 DEF ReqInPlace, EarnestHolds, SimulationHolds, Ok, Answered, OnlyCall, Reqs
<1> QED
  BY <1>2, <1>3, <1>4 DEF CallShape, OnlyCall

\* The beginning of a call only places it.
LEMMA BeginHasShape ==
  ASSUME TypeOK, BoxInv, NEW c \in Calls, NEW r \in Reqs, Begin(c, r, BeginPc(r))
  PROVE  CallShape(c)
<1>1. /\ call[c] \in CallStates /\ call[c].pc = "idle" /\ call[c].box = NoId
      /\ UNCHANGED <<runtime, record, box, sweep, faulty>>
  BY DEF Begin, TypeOK, BoxInv, OwnBox
<1>2. /\ r \in RunReqs => r.tool = "run"
      /\ r \in UseReqs => r.tool \in {"logs", "exec"}
      /\ r \in PsReqs => r.tool = "ps"
  BY DEF RunReqs, UseReqs, PsReqs
<1> DEFINE pc == BeginPc(r)
<1>3. /\ pc \in {"refused", "simulated", "probe", "run", "ps", "logs", "exec"}
      /\ pc = "run" => r \in RunReqs
      /\ pc \in {"logs", "exec"} => r \in UseReqs
      /\ pc = "ps" => r \in PsReqs
      /\ pc = "simulated" => ~r.strict /\ r \in UseReqs /\ r.target = Sim
      /\ runtime = "none" => pc \in {"refused", "simulated", "probe"}
  BY <1>2 DEF BeginPc, Reqs
<1> HIDE DEF pc
<1>4. call'[c] = [call[c] EXCEPT !.pc = pc, !.req = r]
  BY DEF Begin, TypeOK, pc
<1>5. /\ call'[c] \in CallStates /\ call'[c].pc = pc /\ call'[c].req = r
      /\ call'[c].box = NoId
  BY <1>1, <1>3, <1>4 DEF CallStates
<1>6. call' = [call EXCEPT ![c] = call'[c]]
  BY <1>4 DEF Begin, pc
<1>7. BoxesGo(call[c].box) /\ PlaceOf(c)
  BY <1>1, <1>3, <1>5, BoxesStay DEF PlaceOf, BoxInv
<1>8. ReqInPlace(c)' /\ EarnestHolds(c)' /\ SimulationHolds(c)'
  BY <1>1, <1>3, <1>5 DEF ReqInPlace, EarnestHolds, SimulationHolds, Ok, Answered
<1> QED
  BY <1>1, <1>5, <1>6, <1>7, <1>8 DEF CallShape

\* The steps that make no container: refusals, simulation, probing, ps, logs and exec.
LEMMA PlainStepsHaveShape ==
  ASSUME TypeOK, BoxInv, NEW c \in Calls,
         \/ Refuse(c) \/ AnswerSimulated(c) \/ DetectContainerRuntime(c)
         \/ K8sPS(c) \/ DockerPS(c) \/ CliPS(c)
         \/ K8sLogs(c) \/ K8sExec(c) \/ K8sUsed(c)
         \/ DockerLogs(c) \/ DockerExec(c) \/ DockerExecAttach(c) \/ DockerExecCopied(c)
         \/ DockerExecInspect(c) \/ CliLogs(c) \/ CliExec(c)
  PROVE  CallShape(c)
<1> USE DEF At
<1>0. /\ ReqInPlace(c) /\ box \in [Boxes -> Box]
      /\ call[c].pc \in Answering => call[c].req \in Reqs
      /\ UNCHANGED box => NameIsUnique'
  BY DEF BoxInv, TypeOK, ReqInPlace, Answering, NameIsUnique, Live
<1>1. CASE Refuse(c)
  <2>1. Ends(c) /\ call'[c].ans.code # "ok"
    BY <1>1, FailsFacts DEF Refuse
  <2> QED
    BY <1>0, <1>1, <2>1, PlainAnswer DEF Refuse, AnswerFits, Answering
<1>2. CASE AnswerSimulated(c)
  <2>1. call[c].pc = "simulated" /\ UNCHANGED <<runtime, record, box, sweep, faulty>>
    BY <1>2 DEF AnswerSimulated
  <2>2. ~call[c].req.strict /\ call[c].req \in UseReqs /\ call[c].req.target = Sim
    BY <1>0, <2>1 DEF ReqInPlace
  <2>3. /\ Ends(c) /\ call'[c].ans.simulated
        /\ call[c].req \in RunReqs => call'[c].ans.id = Sim
    BY <1>0, <1>2, <2>1, SimulatesFacts DEF AnswerSimulated, Answering
  <2> QED
    BY <1>0, <2>1, <2>2, <2>3, PlainAnswer DEF AnswerFits, Answering
<1>3. CASE DetectContainerRuntime(c)
  <2>1. CASE runtime = "cli" /\ goto(c, call[c].req.tool) /\ UNCHANGED faulty
    <3>1. call[c].req \in Reqs /\ call[c].pc = "probe"
      BY <1>0, <1>3 DEF DetectContainerRuntime, ReqInPlace
    <3>2. LET r == call[c].req
          IN  /\ r.tool \in {"run", "ps", "logs", "exec"}
              /\ r.tool = "run" => r \in RunReqs
              /\ r.tool \in {"logs", "exec"} => r \in UseReqs
              /\ r.tool = "ps" => r \in PsReqs
      BY <3>1 DEF Reqs, RunReqs, UseReqs, PsReqs
    <3> QED
      BY <1>3, <2>1, <3>1, <3>2, PlainMove DEF DetectContainerRuntime, Answering, Places
  <2>2. CASE Fallback(c) /\ Fault(c)
    BY <1>0, <1>3, <2>2, FallbackFacts, PlainAnswer DEF DetectContainerRuntime, Answering, Fault
  <2> QED
    BY <1>3, <2>1, <2>2 DEF DetectContainerRuntime
<1>4. CASE K8sPS(c) \/ DockerPS(c) \/ CliPS(c)
  <2>1. /\ call[c].pc = "ps" /\ runtime # "none" /\ UNCHANGED <<runtime, record, box, sweep>>
        /\ call[c].pc \in Answering
    BY <1>4 DEF K8sPS, DockerPS, CliPS, Listed, Answering
  <2>2. CASE Succeeds(c, NoId, "none") /\ UNCHANGED faulty
    <3>1. Ends(c) /\ ~call'[c].ans.simulated
      BY <2>2, SucceedsFacts
    <3> QED
      BY <1>0, <2>1, <2>2, <3>1, PlainAnswer DEF AnswerFits
  <2>3. CASE Fails(c, "failed") /\ Fault(c)
    <3>1. Ends(c) /\ call'[c].ans.code # "ok"
      BY <2>3, FailsFacts
    <3> QED
      BY <1>0, <2>1, <2>3, <3>1, PlainAnswer DEF AnswerFits, Fault
  <2>4. CASE Fallback(c) /\ Fault(c)
    BY <1>0, <2>1, <2>4, FallbackFacts, PlainAnswer DEF Fault
  <2> QED
    BY <1>4, <2>2, <2>3, <2>4 DEF K8sPS, DockerPS, CliPS, Listed
<1>5. CASE K8sLogs(c) \/ K8sExec(c) \/ DockerExec(c) \/ DockerExecAttach(c) \/ DockerExecCopied(c)
  <2>1. /\ call[c].pc \in {"logs", "exec", "attaching", "copying"} /\ runtime # "none"
        /\ UNCHANGED <<runtime, record, box, sweep>>
    BY <1>5 DEF K8sLogs, K8sExec, K8sLookup, DockerExec, DockerExecAttach, DockerExecStep,
                DockerExecCopied
  <2>2. call[c].req \in UseReqs /\ call[c].pc \in Answering
    BY <1>0, <2>1 DEF ReqInPlace, Answering
  <2>3. ASSUME NEW pc \in {"used", "attaching", "copying", "inspecting"}, goto(c, pc),
               UNCHANGED faulty
        PROVE  CallShape(c)
    BY <2>1, <2>2, <2>3, PlainMove DEF Places
  <2>4. ASSUME Fails(c, "failed"), UNCHANGED faulty \/ Fault(c)
        PROVE  CallShape(c)
    <3>1. Ends(c) /\ call'[c].ans.code # "ok"
      BY <2>4, FailsFacts
    <3> QED
      BY <1>0, <2>1, <2>2, <2>4, <3>1, PlainAnswer DEF AnswerFits, Fault
  <2>5. CASE K8sLogs(c) \/ K8sExec(c)
    BY <2>3, <2>4, <2>5 DEF K8sLogs, K8sExec, K8sLookup
  <2>6. CASE DockerExec(c) \/ DockerExecAttach(c) \/ DockerExecCopied(c)
    BY <2>3, <2>4, <2>6 DEF DockerExec, DockerExecAttach, DockerExecStep, DockerExecCopied
  <2> QED
    BY <1>5, <2>5, <2>6
<1>6. CASE K8sUsed(c) \/ DockerLogs(c) \/ DockerExecInspect(c) \/ CliLogs(c) \/ CliExec(c)
  <2>1. /\ call[c].pc \in {"used", "logs", "exec", "inspecting"} /\ runtime # "none"
        /\ UNCHANGED <<runtime, record, box, sweep>>
        /\ \/ Succeeds(c, call[c].req.target, "none") /\ UNCHANGED faulty
           \/ (Fallback(c) \/ Fails(c, "failed")) /\ Fault(c)
    BY <1>6 DEF K8sUsed, DockerLogs, DockerExecInspect, CliLogs, CliExec, Used
  <2>2. call[c].req \in UseReqs /\ call[c].pc \in Answering
    BY <1>0, <2>1 DEF ReqInPlace, Answering
  <2>3. CASE Succeeds(c, call[c].req.target, "none") /\ UNCHANGED faulty
    <3>1. call[c].req.target \in Boxes \cup {Sim}
      BY <2>2 DEF UseReqs
    <3>2. Ends(c) /\ ~call'[c].ans.simulated
      BY <2>3, <3>1, SucceedsFacts
    <3> QED
      BY <1>0, <2>1, <2>2, <2>3, <3>2, PlainAnswer DEF AnswerFits
  <2>4. CASE Fallback(c) /\ Fault(c)
    BY <1>0, <2>1, <2>2, <2>4, FallbackFacts, PlainAnswer DEF Fault
  <2>5. CASE Fails(c, "failed") /\ Fault(c)
    <3>1. Ends(c) /\ call'[c].ans.code # "ok"
      BY <2>5, FailsFacts
    <3> QED
      BY <1>0, <2>1, <2>2, <2>5, <3>1, PlainAnswer DEF AnswerFits, Fault
  <2> QED
    BY <2>1, <2>3, <2>4, <2>5
<1> QED
  BY <1>1, <1>2, <1>3, <1>4, <1>5, <1>6

--------------------------------------------------------------------------------
(* container.run. *)

\* A container takes an id that was free.
LEMMA FreshBox ==
  ASSUME TypeOK, NameIsUnique, NEW b \in FreeBoxes, NEW x \in Box, box' = [box EXCEPT ![b] = x],
         x.named => \A a \in Boxes : ~(Live(a) /\ box[a].named)
  PROVE  /\ b \in Boxes /\ b # NoId /\ box[b].state = "free"
         /\ box' \in [Boxes -> Box] /\ box'[b] = x
         /\ \A a \in Boxes : box'[a] = box[a] \/ box[a].state = "free"
         /\ NameIsUnique'
<1>1. b \in Boxes /\ box[b].state = "free"
  BY DEF FreeBoxes
<1>2. b # NoId
  BY <1>1, BoxesAssumption DEF Boxes, NoId
<1>3. \A a \in Boxes : box'[a] = IF a = b THEN x ELSE box[a]
  BY <1>1 DEF TypeOK
<1>4. NameIsUnique'
  BY <1>1, <1>3 DEF NameIsUnique, Live
<1> QED
  BY <1>1, <1>2, <1>3, <1>4 DEF TypeOK

\* What the runtimes make is a container.
LEMMA NewBoxType ==
  ASSUME NEW r \in RunReqs, NEW state \in {"created", "running"}
  PROVE  /\ NewBox(r, state) \in Box /\ NewBox(r, state).state = state
         /\ NewBox(r, state).named = r.named
         /\ runtime = "cli" => NewBox(r, state).auto = r.remove
         /\ \A n \in BOOLEAN : LET x == [NewBox(r, state) EXCEPT !.named = n]
                               IN  x \in Box /\ x.state = state /\ x.named = n
<1> DEFINE auto == r.remove /\ (runtime = "cli" \/ (runtime = "docker" /\ r.detach))
<1>1. r.named \in BOOLEAN /\ auto \in BOOLEAN /\ (runtime = "cli" => auto = r.remove)
  BY DEF RunReqs
<1>2. NewBox(r, state) = [NoBox EXCEPT !.state = state, !.named = r.named, !.auto = auto]
  BY Zenon DEF NewBox
<1> HIDE DEF auto
<1>3. NewBox(r, state) = [state |-> state, named |-> r.named, auto |-> auto, old |-> FALSE]
  BY <1>2 DEF NoBox
<1>4. /\ NewBox(r, state) \in Box /\ NewBox(r, state).state = state
      /\ NewBox(r, state).named = r.named
      /\ runtime = "cli" => NewBox(r, state).auto = r.remove
  BY <1>1, <1>3 DEF Box
<1>5. \A x \in Box : \A n \in BOOLEAN : /\ [x EXCEPT !.named = n] \in Box
                                        /\ [x EXCEPT !.named = n].state = x.state
                                        /\ [x EXCEPT !.named = n].named = n
  BY DEF Box
<1> QED
  BY <1>4, <1>5

\* A call whose container was made waits for its start or for its command.
LEMMA Made ==
  ASSUME TypeOK, BoxInv, NEW c \in Calls, call[c].pc = "run", runtime # "none",
         NEW b \in FreeBoxes, NEW x \in Box, NEW pc \in {"starting", "waiting"},
         x.state \in {"created", "running"}, pc = "waiting" /\ call[c].req.remove => x.auto,
         pc = "starting" => x.state = "created", pc = "waiting" => runtime = "cli",
         x.named => \A a \in Boxes : ~(Live(a) /\ box[a].named),
         MakesBox(c, b, x, pc), UNCHANGED <<runtime, record, sweep, faulty>>
  PROVE  CallShape(c)
<1>1. call[c] \in CallStates /\ call[c].req \in RunReqs /\ call[c].box = NoId
  BY DEF TypeOK, BoxInv, ReqInPlace, OwnBox
<1>2. /\ b \in Boxes /\ b # NoId /\ box[b].state = "free"
      /\ box' \in [Boxes -> Box] /\ box'[b] = x
      /\ \A a \in Boxes : box'[a] = box[a] \/ box[a].state = "free"
      /\ NameIsUnique'
  BY FreshBox DEF MakesBox, BoxInv
<1>3. call'[c] = [call[c] EXCEPT !.pc = pc, !.box = b]
  BY DEF TypeOK, MakesBox
<1>4. /\ call'[c] \in CallStates /\ call'[c].pc = pc /\ call'[c].box = b
      /\ call'[c].req = call[c].req
  <2>1. ASSUME NEW k \in CallStates
        PROVE  LET n == [k EXCEPT !.pc = pc, !.box = b]
               IN  n \in CallStates /\ n.pc = pc /\ n.box = b /\ n.req = k.req
    BY <1>2 DEF CallStates
  <2> QED
    BY <1>1, <1>3, <2>1
<1>5. call' = [call EXCEPT ![c] = call'[c]]
  BY <1>3 DEF MakesBox
<1>6. BoxesGo(call[c].box) /\ PlaceOf(c)
  BY <1>2, <1>4 DEF BoxesGo, PlaceOf, WillGo
<1>7. ReqInPlace(c)' /\ EarnestHolds(c)' /\ SimulationHolds(c)'
  BY <1>1, <1>4 DEF ReqInPlace, EarnestHolds, SimulationHolds, Ok, Answered, Reqs
<1> QED
  BY <1>2, <1>4, <1>5, <1>6, <1>7 DEF CallShape

\* The steps that make a container.
LEMMA CreatesHaveShape ==
  ASSUME TypeOK, BoxInv, NEW c \in Calls, K8sCreate(c) \/ DockerCreate(c) \/ CliRun(c)
  PROVE  CallShape(c)
<1> USE DEF At
<1>1. /\ call[c].pc = "run" /\ runtime # "none" /\ UNCHANGED <<runtime, record, sweep>>
      /\ box \in [Boxes -> Box] /\ call[c].pc \in Answering
  BY DEF K8sCreate, DockerCreate, CliRun, TypeOK, Answering
<1>2. call[c].req \in RunReqs /\ call[c].req \in Reqs
  BY <1>1 DEF BoxInv, ReqInPlace
<1>3. ASSUME Fails(c, "failed"), Fault(c),
             \/ UNCHANGED box
             \/ \E b \in FreeBoxes, x \in Box :
                  /\ box' = [box EXCEPT ![b] = x]
                  /\ x.named => \A a \in Boxes : ~(Live(a) /\ box[a].named)
      PROVE  CallShape(c)
  <2>1. Ends(c) /\ call'[c].ans.code # "ok"
    BY <1>3, FailsFacts
  <2>2. /\ box' \in [Boxes -> Box] /\ NameIsUnique'
        /\ \A b \in Boxes : box'[b] = box[b] \/ box[b].state = "free"
    <3>1. CASE UNCHANGED box
      BY <1>1, <3>1 DEF BoxInv, NameIsUnique, Live
    <3> QED
      BY <1>3, <3>1, FreshBox DEF BoxInv
  <2> QED
    BY <1>1, <1>3, <2>1, <2>2, PlainAnswer DEF AnswerFits, Fault
<1>4. CASE K8sCreate(c)
  <2> DEFINE r == call[c].req
             named == r.named /\ ~NameTaken(r)
  <2>1. PICK x : x = [NewBox(r, "created") EXCEPT !.named = named]
    OBVIOUS
  <2>2. named \in BOOLEAN
    OBVIOUS
  <2>3. x \in Box /\ x.state = "created" /\ (x.named => ~NameTaken(r))
    <3>1. x \in Box /\ x.state = "created" /\ x.named = named
      <4> HIDE DEF named
      <4> QED
        BY <1>2, <2>1, <2>2, NewBoxType
    <3> QED
      BY <3>1
  <2>6. x.named => \A a \in Boxes : ~(Live(a) /\ box[a].named)
    <3>1. x.named => named
      BY <1>2, <2>1, <2>2, NewBoxType
    <3> QED
      BY <3>1 DEF NameTaken
  <2>4. \/ \E b \in FreeBoxes : MakesBox(c, b, x, "starting") /\ UNCHANGED faulty
        \/ /\ (\E b \in FreeBoxes : box' = [box EXCEPT ![b] = x]) \/ UNCHANGED box
           /\ Fails(c, "failed") /\ Fault(c)
    BY <1>4, <2>1, Zenon DEF K8sCreate
  <2>5. CASE \E b \in FreeBoxes : MakesBox(c, b, x, "starting") /\ UNCHANGED faulty
    BY <1>1, <2>3, <2>6, <2>5, Made
  <2> QED
    BY <1>3, <2>3, <2>6, <2>4, <2>5
<1>5. CASE DockerCreate(c)
  <2>1. PICK x : x = NewBox(call[c].req, "created")
    OBVIOUS
  <2>2. x \in Box /\ x.state = "created" /\ x.named = call[c].req.named
    BY <1>2, <2>1, NewBoxType
  <2>3. \/ \E b \in FreeBoxes : /\ MakesBox(c, b, x, "starting") /\ UNCHANGED faulty
                                /\ ~NameTaken(call[c].req)
        \/ /\ \/ \E b \in FreeBoxes : box' = [box EXCEPT ![b] = x] /\ ~NameTaken(call[c].req)
              \/ UNCHANGED box
           /\ Fails(c, "failed") /\ Fault(c)
    BY <1>5, <2>1, Zenon DEF DockerCreate
  <2>4. ~NameTaken(call[c].req) /\ x.named => \A a \in Boxes : ~(Live(a) /\ box[a].named)
    BY <2>2 DEF NameTaken
  <2>5. CASE \E b \in FreeBoxes : /\ MakesBox(c, b, x, "starting") /\ UNCHANGED faulty
                                  /\ ~NameTaken(call[c].req)
    BY <1>1, <2>2, <2>4, <2>5, Made
  <2> QED
    BY <1>3, <2>2, <2>3, <2>4, <2>5
<1>6. CASE CliRun(c)
  <2>1. CASE Fallback(c) /\ Fault(c) /\ UNCHANGED box
    <3>1. NameIsUnique'
      BY <2>1 DEF BoxInv, NameIsUnique, Live
    <3> QED
      BY <1>1, <1>2, <2>1, <3>1, FallbackFacts, PlainAnswer DEF Fault
  <2>2. ASSUME NEW b \in FreeBoxes, NEW state \in {"created", "running"}, UNCHANGED faulty,
               MakesBox(c, b, NewBox(call[c].req, state), "waiting"), ~NameTaken(call[c].req)
        PROVE  CallShape(c)
    <3>1. PICK x : x = NewBox(call[c].req, state)
      OBVIOUS
    <3>2. /\ x \in Box /\ x.state = state /\ MakesBox(c, b, x, "waiting") /\ runtime = "cli"
          /\ x.named = call[c].req.named /\ x.auto = call[c].req.remove
      BY <1>2, <1>6, <2>2, <3>1, NewBoxType DEF CliRun
    <3>3. x.named => \A a \in Boxes : ~(Live(a) /\ box[a].named)
      BY <2>2, <3>2 DEF NameTaken
    <3> QED
      BY <1>1, <2>2, <3>2, <3>3, Made
  <2> QED
    BY <1>6, <2>1, <2>2 DEF CliRun
<1> QED
  BY <1>4, <1>5, <1>6


\* A removal that is tried leaves nothing of the container, unless the request failed.
LEMMA RemovingFacts ==
  ASSUME TypeOK, NameIsUnique, NEW c \in Calls, call[c].box \in Boxes,
         box[call[c].box].state # "free", Removing(c)
  PROVE  /\ faulty' \in {faulty, faulty \cup {c}} /\ BoxesGo(call[c].box)
         /\ \/ box'[call[c].box].state = "gone"
            \/ box' = box /\ c \in faulty'
<1>1. CASE Remove(call[c].box) /\ UNCHANGED faulty
  BY <1>1, RemoveFacts
<1>2. CASE UNCHANGED box /\ Fault(c)
  BY <1>2, BoxesStay DEF Fault
<1> QED
  BY <1>1, <1>2 DEF Removing

\* The container that the step starts, and no other.
LEMMA StartFacts ==
  ASSUME TypeOK, NameIsUnique, NEW b \in Boxes, box[b].state = "created",
         box' = [box EXCEPT ![b].state = "running"]
  PROVE  BoxesGo(b) /\ box'[b].state = "running"
<1>1. box[b] \in Box
  BY DEF TypeOK
<1>2. [box[b] EXCEPT !.state = "running"] \in Box
  BY <1>1 DEF Box
<1>3. /\ box'[b] = [box[b] EXCEPT !.state = "running"] /\ box' \in [Boxes -> Box]
      /\ \A a \in Boxes \ {b} : box'[a] = box[a]
  BY <1>2 DEF TypeOK
<1>4. box'[b].state = "running" /\ box'[b].named = box[b].named /\ box'[b].auto = box[b].auto
  BY <1>1, <1>3 DEF Box
<1>5. NameIsUnique'
  BY <1>3, <1>4, NamesShrink DEF Live
<1> QED
  BY <1>3, <1>4, <1>5 DEF BoxesGo, WillGo

\* The steps of a run that has its container.
LEMMA OwnStepsHaveShape ==
  ASSUME TypeOK, BoxInv, NEW c \in Calls,
         \/ K8sStarted(c) \/ K8sTerminal(c) \/ RunRemoved(c)
         \/ DockerStart(c) \/ DockerUndo(c) \/ DockerWait(c) \/ CliWait(c)
  PROVE  CallShape(c)
<1>0. PICK b : b = call[c].box
  OBVIOUS
<1>1. /\ call[c].pc \in {"starting", "undoing", "waiting", "removing"}
      /\ UNCHANGED <<runtime, record, sweep>>
  BY DEF K8sStarted, K8sTerminal, RunRemoved, DockerStart, DockerUndo, DockerWait, CliWait, At
<1>2. /\ b \in Boxes /\ b # NoId /\ box[b].state # "free" /\ box[b] \in Box
      /\ call[c].req \in RunReqs /\ call[c].req \in Reqs /\ runtime # "none"
      /\ call[c].pc = "starting" /\ runtime = "docker" => box[b].state = "created"
      /\ call[c].pc = "waiting" /\ runtime # "cli" => box[b].state \in {"running", "exited", "gone"}
      /\ call[c].pc = "removing" => runtime # "cli" /\ box[b].state \in {"exited", "gone"}
      /\ call[c].pc = "waiting" /\ runtime = "cli" /\ call[c].req.remove =>
           WillGo(b) \/ box[b].state = "gone"
      /\ NameIsUnique
  BY <1>0, <1>1 DEF BoxInv, OwnBox, ReqInPlace, TypeOK, CallStates
<1>3. UNCHANGED box => BoxesGo(b)
  BY <1>2, BoxesStay
<1>4. ASSUME NEW status \in {"running", "exited", "unknown"}, NEW id \in Boxes \cup {Sim, NoId},
             Succeeds(c, id, status), id = b \/ runtime = "cli",
             BoxesGo(b), faulty' \in {faulty, faulty \cup {c}},
             status = "exited" => box'[b].state \in {"exited", "gone"},
             call[c].req.remove /\ ~call[c].req.detach =>
               c \in faulty' \/ box'[b].state = "gone"
      PROVE  CallShape(c)
  <2>1. /\ Ends(c) /\ call'[c].ans.code = "ok" /\ ~call'[c].ans.simulated
        /\ call'[c].ans.id = id /\ call'[c].ans.status = status
    BY <1>2, <1>4, SucceedsFacts
  <2>2. EarnestHolds(c)' /\ AnswerFits(c)
    BY <1>0, <1>1, <1>2, <1>4, <2>1
       DEF EarnestHolds, InEarnest, Ok, Answered, AnswerFits, Ends, OnlyCall
  <2> QED
    BY <1>0, <1>1, <1>4, <2>1, <2>2, OwnAnswer
<1>5. ASSUME Fails(c, "failed"), BoxesGo(b), faulty' \in {faulty, faulty \cup {c}},
             c \in faulty' \/ runtime # "docker" \/ box'[b].state = "gone"
      PROVE  CallShape(c)
  <2>1. Ends(c) /\ call'[c].ans.code # "ok"
    BY <1>5, FailsFacts
  <2>2. EarnestHolds(c)' /\ AnswerFits(c)
    BY <1>0, <1>1, <1>2, <1>5, <2>1
       DEF EarnestHolds, InEarnest, Ok, Answered, AnswerFits, Ends, OnlyCall
  <2> QED
    BY <1>0, <1>1, <1>5, <2>1, <2>2, OwnAnswer
\* A pod that is found under the name is the call's, or the call's is gone.
<1>6. ASSUME NEW a \in Under(b) PROVE box[a].state = box[b].state \/ box[b].state = "gone"
  BY <1>2, <1>6 DEF Under, NameIsUnique, Live, Box
<1>7. ASSUME NEW pc \in {"undoing", "waiting", "removing"}, goto(c, pc), runtime # "cli",
             call[c].pc \in {"starting", "waiting"}, UNCHANGED faulty, BoxesGo(b),
             pc = "undoing" => runtime = "docker",
             pc = "removing" => box'[b].state \in {"exited", "gone"},
             pc = "waiting" => box'[b].state \in {"running", "exited", "gone"}
      PROVE  CallShape(c)
  BY <1>0, <1>1, <1>7, OwnMove
<1>8. CASE K8sStarted(c)
  <2>1. /\ runtime = "k8s" /\ call[c].pc = "starting" /\ UNCHANGED box
    BY <1>8 DEF K8sStarted, At
  <2>2. ASSUME NEW a \in Under(b), box[a].state \in {"running", "exited"}, UNCHANGED faulty,
               IF call[c].req.detach THEN Succeeds(c, b, box[a].state) ELSE goto(c, "waiting")
        PROVE  CallShape(c)
    <3>1. CASE call[c].req.detach
      BY <1>2, <1>3, <1>4, <1>6, <2>1, <2>2, <3>1
    <3>2. CASE ~call[c].req.detach
      BY <1>3, <1>6, <1>7, <2>1, <2>2, <3>2
    <3> QED
      BY <3>1, <3>2
  <2>3. ASSUME Fails(c, "failed"), UNCHANGED faulty \/ Fault(c) PROVE CallShape(c)
    BY <1>3, <1>5, <2>1, <2>3 DEF Fault
  <2> QED
    BY <1>0, <1>8, <2>2, <2>3 DEF K8sStarted
<1>9. CASE K8sTerminal(c)
  <2>1. /\ runtime = "k8s" /\ call[c].pc = "waiting" /\ UNCHANGED box
    BY <1>9 DEF K8sTerminal, At
  <2>2. ASSUME NEW a \in Under(b), Exited(a), UNCHANGED faulty,
               IF call[c].req.remove THEN goto(c, "removing") ELSE Succeeds(c, b, "exited")
        PROVE  CallShape(c)
    <3>1. box[b].state \in {"exited", "gone"}
      BY <1>6, <2>2 DEF Exited
    <3>2. CASE call[c].req.remove
      BY <1>3, <1>7, <2>1, <2>2, <3>1, <3>2
    <3>3. CASE ~call[c].req.remove
      BY <1>2, <1>3, <1>4, <2>1, <2>2, <3>1, <3>3
    <3> QED
      BY <3>2, <3>3
  <2>3. ASSUME Fails(c, "failed"), Fault(c) PROVE CallShape(c)
    BY <1>3, <1>5, <2>1, <2>3 DEF Fault
  <2> QED
    BY <1>0, <1>9, <2>2, <2>3 DEF K8sTerminal
<1>10. CASE RunRemoved(c)
  <2>1. call[c].pc = "removing" /\ Removing(c) /\ Succeeds(c, b, "exited")
    BY <1>0, <1>10 DEF RunRemoved, At
  <2>2. /\ faulty' \in {faulty, faulty \cup {c}} /\ BoxesGo(b)
        /\ box'[b].state = "gone" \/ (box' = box /\ c \in faulty')
    BY <1>0, <1>2, <2>1, RemovingFacts
  <2> QED
    BY <1>2, <1>4, <2>1, <2>2
<1>11. CASE DockerUndo(c)
  <2>1. Removing(c) /\ Fails(c, "failed")
    BY <1>11 DEF DockerUndo
  <2>2. /\ faulty' \in {faulty, faulty \cup {c}} /\ BoxesGo(b)
        /\ box'[b].state = "gone" \/ (box' = box /\ c \in faulty')
    BY <1>0, <1>2, <2>1, RemovingFacts
  <2> QED
    BY <1>5, <2>1, <2>2
<1>12. CASE DockerStart(c)
  <2>1. /\ runtime = "docker" /\ call[c].pc = "starting" /\ UNCHANGED faulty
        /\ box[b].state = "created"
    BY <1>2, <1>12 DEF DockerStart, At
  <2>2. box' = [box EXCEPT ![b].state = "running"] => BoxesGo(b) /\ box'[b].state = "running"
    BY <1>2, <2>1, StartFacts
  <2>3. CASE box' \in {box, [box EXCEPT ![b].state = "running"]} /\ goto(c, "undoing")
    BY <1>3, <1>7, <2>1, <2>2, <2>3
  <2>4. CASE /\ box' = [box EXCEPT ![b].state = "running"]
             /\ IF call[c].req.detach THEN Succeeds(c, b, "running") ELSE goto(c, "waiting")
    <3>1. CASE call[c].req.detach
      BY <1>2, <1>4, <2>1, <2>2, <2>4, <3>1
    <3>2. CASE ~call[c].req.detach
      BY <1>7, <2>1, <2>2, <2>4, <3>2
    <3> QED
      BY <3>1, <3>2
  <2> QED
    BY <1>0, <1>12, <2>3, <2>4, Zenon DEF DockerStart
<1>13. CASE DockerWait(c)
  <2>1. runtime = "docker" /\ call[c].pc = "waiting" /\ UNCHANGED box /\ BoxesGo(b)
    BY <1>3, <1>13 DEF DockerWait, At
  <2>2. CASE /\ Exited(b) /\ UNCHANGED faulty
             /\ IF call[c].req.remove THEN goto(c, "removing") ELSE Succeeds(c, b, "exited")
    <3>1. CASE call[c].req.remove
      BY <1>7, <2>1, <2>2, <3>1 DEF Exited
    <3>2. CASE ~call[c].req.remove
      BY <1>2, <1>4, <2>1, <2>2, <3>2 DEF Exited
    <3> QED
      BY <3>1, <3>2
  <2>3. ASSUME Fault(c), NEW status \in {"unknown", "running"}, Succeeds(c, b, status)
        PROVE  CallShape(c)
    BY <1>2, <1>4, <2>1, <2>3 DEF Fault
  <2> QED
    BY <1>0, <1>13, <2>2, <2>3 DEF DockerWait
<1>14. CASE CliWait(c)
  <2>1. runtime = "cli" /\ call[c].pc = "waiting" /\ UNCHANGED box /\ BoxesGo(b)
    BY <1>3, <1>14 DEF CliWait, At
  <2>2. CASE Fallback(c) /\ Fault(c)
    <3>1. /\ Ends(c) /\ AnswerFits(c) /\ c \in faulty'
          /\ call'[c].ans.code = "ok" => call'[c].ans.simulated
      BY <1>2, <2>2, FallbackFacts DEF Fault
    <3>2. EarnestHolds(c)'
      BY <2>1, <3>1, <1>1 DEF EarnestHolds, InEarnest, Ok, Answered, Ends, OnlyCall
    <3> QED
      BY <1>0, <1>1, <2>1, <2>2, <3>1, <3>2, OwnAnswer DEF Fault
  <2>3. ASSUME NEW id \in parseContainerRunID(call[c].req, b), UNCHANGED faulty,
               box[b].state \in IF call[c].req.detach THEN {"running", "exited", "gone"}
                                                      ELSE {"exited", "gone"},
               Succeeds(c, id, IF call[c].req.detach THEN "running" ELSE "exited")
        PROVE  CallShape(c)
    <3>1. id \in Boxes \cup {Sim, NoId}
      BY <1>2, <2>3 DEF parseContainerRunID
    <3>2. CASE call[c].req.detach
      BY <1>2, <1>4, <2>1, <2>3, <3>1, <3>2
    <3>3. CASE ~call[c].req.detach
      BY <1>2, <1>4, <2>1, <2>3, <3>1, <3>3 DEF WillGo
    <3> QED
      BY <3>2, <3>3
  <2> QED
    BY <1>0, <1>14, <2>2, <2>3 DEF CliWait
<1> QED
  BY <1>8, <1>9, <1>10, <1>11, <1>12, <1>13, <1>14

--------------------------------------------------------------------------------
(* The runtime, the session and the janitor. *)

\* What goes on beside the calls.
GoesOn ==
  /\ UNCHANGED <<runtime, call, faulty>>
  /\ record' \in Records /\ (record' = "live" => record = "live")
  /\ sweep' \in Sweeps /\ SweptInPlace'
  /\ BoxesGo(NoId)

\* None of it disturbs the invariant.
LEMMA GoingOnKeeps ==
  ASSUME TypeOK, BoxInv, GoesOn
  PROVE  TypeOK' /\ BoxInv'
<1>1. TypeOK'
  BY DEF GoesOn, BoxesGo, TypeOK
<1>2. ASSUME NEW d \in Calls
      PROVE  (ReqInPlace(d) /\ OwnBox(d) /\ EarnestHolds(d) /\ SimulationHolds(d))'
  <2>1. OwnBox(d)
    BY DEF BoxInv
  <2>2. \A e \in Calls : call[d].box # NoId /\ call'[e].box = call[d].box => e = d
    BY <2>1 DEF OwnBox, GoesOn
  <2>3. /\ call'[d] = call[d] /\ (d \in faulty' <=> d \in faulty) /\ runtime' = runtime
        /\ BoxesGo(NoId)
    BY DEF GoesOn
  <2> QED
    BY <2>2, <2>3, OthersKept
<1> QED
  BY <1>1, <1>2 DEF BoxInv, GoesOn, BoxesGo

\* A container that starts, exits or ages.
LEMMA BoxStepGoesOn ==
  ASSUME TypeOK, BoxInv, NEW b \in Boxes, BoxStep(b)
  PROVE  GoesOn
<1>1. box[b] \in Box /\ record \in Records /\ NameIsUnique /\ SweptInPlace /\ sweep \in Sweeps
  BY DEF TypeOK, BoxInv
<1>2. UNCHANGED <<runtime, record, call, sweep, faulty>>
  BY DEF BoxStep, PodStarts, BoxExits, BoxAges
<1>3. BoxesGo(NoId)
  <2>1. ASSUME NEW x \in Box, box' = [box EXCEPT ![b] = x], x.state # "free",
               box[b].state # "free", x.state \in {box[b].state, "running", "exited", "gone"},
               x.state = "running" => box[b].state = "running" \/ runtime = "k8s",
               x.state = "exited" => box[b].state = "exited" \/
                                     (box[b].state = "running" /\ ~box[b].auto),
               x.state = "gone" => box[b].state \in {"running", "gone"},
               x.state = "running" => box[b].state \in {"created", "running"},
               x.named = box[b].named,
               x.state # "gone" => x.auto = box[b].auto
        PROVE  BoxesGo(NoId)
    <3>1. box'[b] = x /\ box' \in [Boxes -> Box] /\ \A a \in Boxes \ {b} : box'[a] = box[a]
      BY <2>1 DEF TypeOK
    <3>2. NameIsUnique'
      <4>1. (Live(b) /\ box[b].named)' => Live(b) /\ box[b].named
        BY <1>1, <2>1, <3>1 DEF Live, Box
      <4> QED
        BY <1>1, <3>1, <4>1, NamesShrink DEF Live
    <3> QED
      BY <1>1, <2>1, <3>1, <3>2 DEF BoxesGo, WillGo, Box
  <2>2. CASE PodStarts(b)
    <3>1. PICK x : x = [box[b] EXCEPT !.state = "running"]
      OBVIOUS
    <3>2. /\ x \in Box /\ x.state = "running" /\ x.named = box[b].named /\ x.auto = box[b].auto
          /\ box[b].state = "created" /\ runtime = "k8s"
      BY <1>1, <2>2, <3>1 DEF PodStarts, Box
    <3>3. box' = [box EXCEPT ![b] = x]
      BY <2>2, <3>1 DEF PodStarts
    <3> QED
      BY <2>1, <3>2, <3>3
  <2>3. CASE BoxExits(b)
    <3>1. PICK x : x = IF box[b].auto THEN Gone(box[b]) ELSE [box[b] EXCEPT !.state = "exited"]
      OBVIOUS
    <3>2. box' = [box EXCEPT ![b] = x] /\ box[b].state = "running"
      BY <2>3, <3>1 DEF BoxExits
    <3>3. CASE box[b].auto
      <4>1. x \in Box /\ x.state = "gone" /\ x.named = box[b].named
        BY <1>1, <3>1, <3>3, GoneType DEF Gone, NoBox
      <4> QED
        BY <2>1, <3>2, <4>1
    <3>4. CASE ~box[b].auto
      <4>1. x \in Box /\ x.state = "exited" /\ x.named = box[b].named /\ x.auto = box[b].auto
        BY <1>1, <3>1, <3>4 DEF Box
      <4> QED
        BY <2>1, <3>2, <3>4, <4>1
    <3> QED
      BY <3>3, <3>4
  <2>4. CASE BoxAges(b)
    <3>1. PICK x : x = [box[b] EXCEPT !.old = TRUE]
      OBVIOUS
    <3>2. /\ x \in Box /\ x.state = box[b].state /\ x.named = box[b].named
          /\ x.auto = box[b].auto /\ box[b].state \in {"created", "running", "exited"}
          /\ runtime = "k8s"
      BY <1>1, <2>4, <3>1 DEF BoxAges, Box, Live
    <3>3. box' = [box EXCEPT ![b] = x]
      BY <2>4, <3>1 DEF BoxAges
    <3> QED
      BY <2>1, <3>2, <3>3
  <2> QED
    BY <2>2, <2>3, <2>4 DEF BoxStep
<1>4. SweptInPlace'
  BY <1>1, <1>2, <1>3, SweepKept
<1> QED
  BY <1>1, <1>2, <1>3, <1>4 DEF GoesOn

\* The steps of a sweep: a pod is listed, judged by that and by the record, and deleted.
LEMMA SweepGoesOn ==
  ASSUME TypeOK, BoxInv, (\E b \in Boxes : SweepContainerPods(b)) \/ JanitorStep
  PROVE  GoesOn
<1>1. record \in Records /\ NameIsUnique /\ SweptInPlace /\ sweep \in Sweeps
  BY DEF TypeOK, BoxInv
<1>2. /\ UNCHANGED <<runtime, record, call, faulty>>
      /\ sweep.pod # NoId => sweep.pod \in Boxes
  BY <1>1 DEF SweepContainerPods, JanitorStep, JanitorJudges, JanitorDeletes, Sweeps
<1>3. NoSweep \in Sweeps /\ NoSweep.pod = NoId /\ ~NoSweep.terminal /\ ~NoSweep.doomed
  BY DEF NoSweep, Sweeps
<1>4. sweep' = NoSweep => sweep' \in Sweeps /\ SweptInPlace'
  BY <1>3 DEF SweptInPlace
<1>5. UNCHANGED box => BoxesGo(NoId)
  BY <1>1, BoxesStay
<1>6. ASSUME NEW b \in Boxes, SweepContainerPods(b) PROVE GoesOn
  <2>1. /\ sweep' = [pod |-> b, old |-> box[b].old, terminal |-> Exited(b) /\ box[b].old,
                     doomed |-> FALSE]
        /\ UNCHANGED box /\ runtime = "k8s" /\ b # NoId
    BY <1>6, BoxesAssumption DEF SweepContainerPods, Boxes, NoId
  <2>2. box[b].old \in BOOLEAN
    BY DEF TypeOK, Box
  <2>3. /\ sweep' \in Sweeps /\ sweep'.pod = b /\ ~sweep'.doomed
        /\ sweep'.terminal => Exited(b)
    BY <2>1, <2>2 DEF Sweeps
  <2>4. SweptInPlace'
    BY <1>2, <2>1, <2>3 DEF SweptInPlace, Exited
  <2> QED
    BY <1>1, <1>2, <1>5, <2>1, <2>3, <2>4 DEF GoesOn
<1>7. CASE JanitorJudges
  <2>1. UNCHANGED box /\ sweep.pod \in Boxes /\ sweep # NoSweep
    BY <1>2, <1>3, <1>7 DEF JanitorJudges
  <2>2. CASE sweep' = NoSweep
    BY <1>1, <1>2, <1>4, <1>5, <2>1, <2>2 DEF GoesOn
  <2>3. CASE /\ ResolveContainerPodDeleteReason(sweep)
             /\ sweep' = [NoSweep EXCEPT !.pod = sweep.pod, !.doomed = TRUE]
    <3>1. /\ sweep' \in Sweeps /\ sweep'.pod = sweep.pod /\ ~sweep'.terminal
      BY <2>1, <2>3 DEF NoSweep, Sweeps
    <3>2. record = "live" => sweep.terminal
      BY <2>3 DEF ResolveContainerPodDeleteReason
    <3>3. runtime' = "k8s" /\ sweep'.pod # NoId
      BY <1>1, <1>2, <1>7, <2>1, <3>1 DEF SweptInPlace, JanitorJudges
    <3>4. record' = "live" => box'[sweep'.pod].state \in {"exited", "gone"}
      BY <1>1, <1>2, <2>1, <3>1, <3>2 DEF SweptInPlace
    <3>5. SweptInPlace'
      BY <3>1, <3>3, <3>4 DEF SweptInPlace
    <3> QED
      BY <1>1, <1>2, <1>5, <2>1, <3>1, <3>5 DEF GoesOn
  <2> QED
    BY <1>7, <2>2, <2>3 DEF JanitorJudges
<1>8. CASE JanitorDeletes
  <2>1. sweep.doomed /\ Remove(sweep.pod) /\ sweep' = NoSweep
    BY <1>8 DEF JanitorDeletes
  <2>2. sweep.pod \in Boxes /\ runtime = "k8s"
    BY <1>1, <1>2, <1>3, <2>1 DEF SweptInPlace
  <2>3. BoxesGo(NoId)
    BY <1>1, <2>1, <2>2, RemoveFacts DEF BoxesGo
  <2> QED
    BY <1>1, <1>2, <1>4, <2>1, <2>3 DEF GoesOn
<1> QED
  BY <1>6, <1>7, <1>8 DEF JanitorStep

\* The end of the session leaves the containers and the sweep.
LEMMA SessionEndGoesOn ==
  ASSUME TypeOK, BoxInv, SessionEnds \/ UNCHANGED vars
  PROVE  GoesOn
<1>1. record \in Records /\ NameIsUnique /\ SweptInPlace /\ sweep \in Sweeps
  BY DEF TypeOK, BoxInv
<1>2. /\ UNCHANGED <<runtime, box, call, sweep, faulty>>
      /\ record' \in Records /\ (record' = "live" => record = "live")
  BY <1>1 DEF SessionEnds, vars, Records
<1>3. BoxesGo(NoId)
  BY <1>1, <1>2, BoxesStay
<1>4. SweptInPlace'
  BY <1>1, <1>2, <1>3, SweepKept
<1> QED
  BY <1>1, <1>2, <1>3, <1>4 DEF GoesOn

\* Every step is one of a call, or goes on beside them.
LEMMA StepShape ==
  ASSUME TypeOK, BoxInv, [Next]_vars
  PROVE  GoesOn \/ \E c \in Calls : CallShape(c)
<1>1. ASSUME NEW c \in Calls, NEW r \in ReqsOf(c),
             \/ ContainerPS(c, r) \/ ContainerRun(c, r)
             \/ ContainerLogs(c, r) \/ ContainerExec(c, r)
      PROVE  CallShape(c)
  <2>1. r \in Reqs /\ Begin(c, r, BeginPc(r))
    BY <1>1 DEF ContainerPS, ContainerRun, ContainerLogs, ContainerExec, Reqs
  <2> QED
    BY <2>1, BeginHasShape
<1>2. ASSUME NEW c \in Calls, CallStep(c) \/ DockerExecCopied(c) PROVE CallShape(c)
  BY <1>2, PlainStepsHaveShape, CreatesHaveShape, OwnStepsHaveShape DEF CallStep
<1> QED
  BY <1>1, <1>2, BoxStepGoesOn, SweepGoesOn, SessionEndGoesOn DEF Next

\* Types and the invariant hold in every state.
LEMMA BoxInduction ==
  Spec => [](TypeOK /\ BoxInv)
<1>1. Init => TypeOK /\ BoxInv
  <2> SUFFICES ASSUME Init PROVE TypeOK /\ BoxInv
    OBVIOUS
  <2>1. NoBox \in Box /\ NoAnswer \in Answers /\ NoSweep \in Sweeps
    BY DEF NoBox, Box, NoAnswer, Answers, NoSweep, Sweeps
  <2>2. TypeOK
    BY <2>1 DEF Init, TypeOK, CallStates, Records
  <2>3. SweptInPlace /\ NameIsUnique
    BY DEF Init, SweptInPlace, NameIsUnique, Live, NoBox, NoSweep
  <2>4. BoxInv
    BY <2>3 DEF Init, BoxInv, ReqInPlace, OwnBox, EarnestHolds, SimulationHolds, Ok, Answered
  <2> QED
    BY <2>2, <2>4
<1>2. TypeOK /\ BoxInv /\ [Next]_vars => TypeOK' /\ BoxInv'
  BY StepShape, CallShapeKeeps, GoingOnKeeps
<1> QED
  BY <1>1, <1>2, PTL DEF Spec

\* Type correctness of the container tools: calls, containers, sweep and answers keep their
\* form.
THEOREM ContainersTypeCorrect == Spec => []TypeOK
BY BoxInduction, PTL

\* What container.run answers on pods, the Docker API, a CLI or by simulation is so and stays
\* so, for any calls at once, whatever requests fail and whatever the runtime, the janitor and
\* the session do meanwhile.  Of a CLI's answer the id is not claimed, which the code takes
\* from the command's output, and after a failed request containers may be left.
THEOREM RunAnswersAreTrue == Spec => []RunAnswersHold
<1>1. BoxInv => RunAnswersHold
  BY DEF BoxInv, RunAnswersHold
<1> QED
  BY <1>1, BoxInduction, PTL

\* The steps that remove nothing leave a container that runs.
LEMMA OtherStepsRemoveNothing ==
  ASSUME TypeOK, BoxInv, NEW b \in Boxes, box[b].state = "running", box'[b].state = "gone",
         NEW c \in Calls
  PROVE  /\ ~DockerExecCopied(c)
         /\ \A r \in ReqsOf(c) : ~(\/ ContainerPS(c, r) \/ ContainerRun(c, r)
                                   \/ ContainerLogs(c, r) \/ ContainerExec(c, r))
         /\ CallStep(c) => RunRemoved(c) \/ DockerUndo(c)
<1>1. ASSUME UNCHANGED box PROVE FALSE
  BY <1>1
<1>2. /\ ~DockerExecCopied(c)
      /\ \A r \in ReqsOf(c) : ~(\/ ContainerPS(c, r) \/ ContainerRun(c, r)
                                \/ ContainerLogs(c, r) \/ ContainerExec(c, r))
  BY <1>1 DEF DockerExecCopied, ContainerPS, ContainerRun, ContainerLogs, ContainerExec, Begin
<1>3. /\ ~Refuse(c) /\ ~AnswerSimulated(c) /\ ~DetectContainerRuntime(c)
      /\ ~K8sStarted(c) /\ ~K8sTerminal(c) /\ ~DockerWait(c) /\ ~CliWait(c)
  BY <1>1 DEF Refuse, AnswerSimulated, DetectContainerRuntime, K8sStarted, K8sTerminal,
              DockerWait, CliWait
<1>4. /\ ~K8sPS(c) /\ ~DockerPS(c) /\ ~CliPS(c) /\ ~K8sLogs(c) /\ ~K8sExec(c) /\ ~K8sUsed(c)
      /\ ~DockerLogs(c) /\ ~DockerExec(c) /\ ~DockerExecAttach(c) /\ ~DockerExecInspect(c)
      /\ ~CliLogs(c) /\ ~CliExec(c)
  BY <1>1 DEF K8sPS, DockerPS, CliPS, Listed, K8sLogs, K8sExec, K8sLookup, K8sUsed, Used,
              DockerLogs, DockerExec, DockerExecAttach, DockerExecStep, DockerExecInspect,
              CliLogs, CliExec
<1>5. ASSUME NEW a \in FreeBoxes, NEW x, box' = [box EXCEPT ![a] = x] PROVE FALSE
  <2>1. a # b
    BY <1>5 DEF FreeBoxes
  <2> QED
    BY <1>5, <2>1 DEF TypeOK
<1>6. ~K8sCreate(c) /\ ~DockerCreate(c) /\ ~CliRun(c)
  BY <1>1, <1>5 DEF K8sCreate, DockerCreate, CliRun, MakesBox
<1>7. ~DockerStart(c)
  <2>1. ASSUME NEW a, box' = [box EXCEPT ![a].state = "running"] PROVE FALSE
    BY <2>1 DEF TypeOK, Box
  <2> QED
    BY <1>1, <2>1 DEF DockerStart
<1> QED
  BY <1>2, <1>3, <1>4, <1>6, <1>7 DEF CallStep

\* While the session's record is found, a container that runs is removed by no call and no
\* sweep, but by a call that was told its own did not start, or as the pod that took the name
\* of one that had been chosen for deletion.
THEOREM RunningStays == Spec => RunningIsKept
<1> DEFINE Excused(b) == \/ record # "live"
                         \/ box[b].auto /\ call' = call
                         \/ \E c \in Calls : call[c].box = b /\ call[c].pc = "undoing"
                         \/ TookName(b)
<1>1. ASSUME TypeOK, BoxInv, [Next]_vars, NEW b \in Boxes,
             box[b].state = "running", box'[b].state = "gone"
      PROVE  Excused(b)
  <2>0. NameIsUnique /\ SweptInPlace
    BY <1>1 DEF BoxInv
  <2>1. ASSUME NEW a \in Boxes, Remove(a) PROVE b \in Under(a)
    BY <1>1, <2>0, <2>1, RemoveFacts
  <2>2. ASSUME NEW c \in Calls, RunRemoved(c) PROVE TookName(b)
    <3>1. /\ call[c].pc = "removing" /\ call[c].box \in Boxes
          /\ box[call[c].box].state \in {"exited", "gone"}
      BY <1>1, <2>2 DEF RunRemoved, At, BoxInv, OwnBox, TypeOK, CallStates
    <3>2. Remove(call[c].box)
      BY <1>1, <2>2 DEF RunRemoved, Removing
    <3> QED
      BY <1>1, <2>1, <3>1, <3>2 DEF TookName
  <2>3. ASSUME NEW c \in Calls, DockerUndo(c)
        PROVE  call[c].box = b /\ call[c].pc = "undoing"
    <3>1. call[c].pc = "undoing" /\ runtime = "docker" /\ call[c].box \in Boxes
      BY <1>1, <2>3 DEF DockerUndo, At, BoxInv, OwnBox, TypeOK, CallStates
    <3>2. Remove(call[c].box)
      BY <1>1, <2>3 DEF DockerUndo, Removing
    <3> QED
      BY <2>1, <3>1, <3>2 DEF Under
  <2>4. ASSUME JanitorDeletes, record = "live" PROVE TookName(b)
    <3>1. sweep.doomed /\ sweep.pod \in Boxes /\ box[sweep.pod].state \in {"exited", "gone"}
      BY <1>1, <2>0, <2>4 DEF JanitorDeletes, SweptInPlace, TypeOK, Sweeps
    <3>2. b \in Under(sweep.pod)
      BY <2>1, <2>4, <3>1 DEF JanitorDeletes
    <3> QED
      BY <1>1, <3>1, <3>2 DEF TookName
  <2>5. ASSUME NEW a \in Boxes, BoxStep(a) PROVE box[b].auto /\ call' = call
    <3>1. call' = call
      BY <2>5 DEF BoxStep, PodStarts, BoxExits, BoxAges
    <3>2. ~PodStarts(a) /\ ~BoxAges(a)
      BY <1>1 DEF PodStarts, BoxAges, TypeOK, Box
    <3>3. BoxExits(a) /\ a = b
      BY <1>1, <2>5, <3>2 DEF BoxStep, BoxExits, TypeOK
    <3>4. ASSUME ~box[b].auto PROVE FALSE
      <4>1. box' = [box EXCEPT ![b] = [box[b] EXCEPT !.state = "exited"]]
        BY <3>3, <3>4 DEF BoxExits
      <4>2. box'[b].state = "exited"
        BY <1>1, <4>1 DEF TypeOK, Box
      <4> QED
        BY <1>1, <4>2
    <3> QED
      BY <3>1, <3>4
  <2>6. /\ ~SessionEnds /\ ~UNCHANGED vars /\ ~JanitorJudges
        /\ \A a \in Boxes : ~SweepContainerPods(a)
    BY <1>1 DEF SessionEnds, vars, JanitorJudges, SweepContainerPods
  <2> QED
    BY <1>1, <2>2, <2>3, <2>4, <2>5, <2>6, OtherStepsRemoveNothing DEF Next, JanitorStep
<1> DEFINE Kept == \A b \in Boxes : box[b].state = "running" /\ box'[b].state = "gone" =>
                     \/ record # "live"
                     \/ box[b].auto /\ call' = call
                     \/ \E c \in Calls : call[c].box = b /\ call[c].pc = "undoing"
                     \/ TookName(b)
<1>2. TypeOK /\ BoxInv /\ [Next]_vars => Kept
  BY <1>1
<1> HIDE DEF Kept
<1>3. Spec => [][Kept]_vars
  BY <1>2, BoxInduction, PTL DEF Spec
<1> QED
  BY <1>3 DEF Kept, RunningIsKept
================================================================================
