----------------------------- MODULE Remediation -----------------------------
(***************************************************************************)
(* The remediation agent as a client of the runtime of Recommender: an     *)
(* alert starts the playbook of its name in a session of its own, the      *)
(* tools of the playbook are invoked in order, and what they came to is    *)
(* reported as feedback on the recommendation that was asked for.          *)
(*                                                                         *)
(* Each call is one request over gRPC, whose answer may be lost after its  *)
(* effect.  Alerts come one at a time (the callback of a subscription),    *)
(* and one that comes while the agent is down is gone.                     *)
(***************************************************************************)
EXTENDS Recommender

CONSTANTS
    Playbooks,  \* the tools of the playbook of each alert that has one
    Alerts,     \* messages: [name, valid, status]
    MaxAlerts   \* bound

ASSUME RemediationAssumption ==
    /\ None \notin Sessions
    /\ \A name \in DOMAIN Playbooks : Playbooks[name] \in Seq(Tools)

VARIABLES
    agent,   \* the playbook under way
    alerts,  \* how many messages there were
    stray,   \* sessions the agent made and does not hold any more
    ran      \* history: the invocations of each session, as the runtime has them

agentVars == <<agent, alerts, stray, ran>>
remediationVars == <<vars, agentVars>>

NoRun == [pc |-> "idle", alert |-> "", session |-> None, recTools |-> <<>>, recID |-> 0,
          left |-> <<>>, status |-> "", steps |-> <<>>]

RemediationInit == Init /\ agent = NoRun /\ alerts = 0 /\ stray = {}
                   /\ ran = [s \in Sessions |-> {}]

MatchPlaybook(name) == name \in DOMAIN Playbooks

\* A message that cannot be read, is not firing or has no playbook is dropped.
HandleAlert(a) ==
    /\ agent.pc = "idle" /\ alerts < MaxAlerts
    /\ alerts' = alerts + 1
    /\ agent' = IF a.valid /\ a.status = "firing" /\ MatchPlaybook(a.name)
                THEN [NoRun EXCEPT !.pc = "create", !.alert = a.name] ELSE agent
    /\ UNCHANGED <<vars, stray, ran>>

\* A new session, in which prewarming starts.  (A name of Sessions stands for one session
\* after another.)
CreateSession(s) ==
    /\ agent.pc = "create" /\ s \in config.sessions \ (live \cup stray)
    /\ asking[s] = NoCall /\ ran' = [ran EXCEPT ![s] = {}]
    /\ live' = live \cup {s}
    /\ warm' = [warm EXCEPT ![s] = Cold("loading")]
    /\ answer' = [answer EXCEPT ![s] = None]
    /\ \/ agent' = [agent EXCEPT !.pc = "recommend", !.session = s] /\ UNCHANGED stray
       \/ agent' = NoRun /\ stray' = stray \cup {s}
    /\ UNCHANGED <<learnerVars, config, files, memory, stats, bandit, asking, ending, decisions,
                   events, used, executed, alerts>>

CreateFails ==
    /\ agent.pc = "create"
    /\ agent' = NoRun
    /\ UNCHANGED <<vars, alerts, stray, ran>>

\* The tools of the playbook, or the first recommended when it names none.
ToolsOf(alert, recTools) ==
    IF Playbooks[alert] = <<>> /\ recTools # <<>> THEN <<recTools[1]>> ELSE Playbooks[alert]

RecommendCall ==
    /\ agent.pc = "recommend"
    /\ Recommend(agent.session)
    /\ LET a == answer'[agent.session]
       IN  agent' = IF a = None THEN agent
                    ELSE IF a.code # "ok" THEN [agent EXCEPT !.pc = "close"]
                    ELSE [agent EXCEPT !.pc = "invoke", !.recTools = a.decision.tools,
                             !.recID = a.decision.id,
                             !.left = ToolsOf(agent.alert, a.decision.tools)]
    /\ UNCHANGED <<alerts, stray, ran>>

\* Its answer is lost: the playbook ends, and its session is closed.
RecommendFails ==
    /\ agent.pc = "recommend"
    /\ agent' = [agent EXCEPT !.pc = "close"]
    /\ UNCHANGED <<vars, alerts, stray, ran>>

InvokeTool ==
    /\ agent.pc = "invoke" /\ agent.left # <<>>
    /\ \/ \E status \in {"succeeded", "failed", "denied"} :
             /\ InvocationEnds(agent.session, Head(agent.left), status, 1)
             /\ agent' = [agent EXCEPT !.pc = "invoking", !.status = status]
             /\ ran' = [ran EXCEPT ![agent.session] = @ \cup {<<Head(agent.left), status>>}]
       \/ /\ agent' = [agent EXCEPT !.pc = "invoking", !.status = "error"]
          /\ UNCHANGED <<vars, ran>>
    /\ UNCHANGED <<alerts, stray>>

\* The answer, or an error in its place, is a step of the result.
InvokeAnswered ==
    /\ agent.pc = "invoking" /\ ending[agent.session] = None
    /\ \E status \in {agent.status, "error"} :
          agent' = [agent EXCEPT !.pc = "invoke", !.left = Tail(@),
                       !.steps = Append(@, [tool |-> Head(agent.left), status |-> status])]
    /\ UNCHANGED <<vars, alerts, stray, ran>>

\* Mutant: each step overwrites what the earlier ones came to.
Mut_allSucceeded(steps) == steps = <<>> \/ Last(steps).status = "succeeded"

allSucceeded(steps) == \A i \in DOMAIN steps : steps[i].status = "succeeded"

usedRecommended(steps, recTools) == \E i \in DOMAIN steps : steps[i].tool \in ToSet(recTools)

\* Feedback, when some recommended tool ran; its error is logged.
ReportFeedback ==
    /\ agent.pc = "invoke" /\ agent.left = <<>>
    /\ IF usedRecommended(agent.steps, agent.recTools)
       THEN Feedback(agent.session, IF allSucceeded(agent.steps) THEN "accepted" ELSE "rejected",
                     agent.recID)
       ELSE UNCHANGED vars
    /\ agent' = [agent EXCEPT !.pc = "close"]
    /\ UNCHANGED <<alerts, stray, ran>>

\* The deferred CloseSession, whose error is ignored.
CloseSession ==
    /\ agent.pc = "close"
    /\ \/ /\ live' = live \ {agent.session}
          /\ warm' = [warm EXCEPT ![agent.session] = Cold("none")]
          /\ UNCHANGED stray
       \/ /\ stray' = stray \cup {agent.session}
          /\ UNCHANGED <<live, warm>>
    /\ agent' = NoRun
    /\ UNCHANGED <<learnerVars, config, files, memory, stats, bandit, asking, ending, decisions,
                   events, used, executed, answer, alerts, ran>>

\* (The runtime goes on by itself in AgentStep: it ends the calls whose answers are lost, and
\* sessions expire.)  The agent's process ends, and with it the playbook under way.
AgentRestart ==
    /\ agent.pc # "idle" /\ Change
    /\ stray' = IF agent.session = None THEN stray ELSE stray \cup {agent.session}
    /\ agent' = NoRun
    /\ UNCHANGED <<learnerVars, config, live, files, memory, stats, bandit, warm, asking, ending,
                   decisions, events, executed, answer, alerts, ran>>

AgentStep ==
    \/ \E a \in Alerts : HandleAlert(a)
    \/ \E s \in config.sessions : CreateSession(s)
    \/ CreateFails \/ RecommendCall \/ RecommendFails \/ InvokeTool \/ InvokeAnswered
    \/ ReportFeedback \/ CloseSession \/ AgentRestart
    \/ /\ \E s \in config.sessions :
             \/ recordTelemetry(s) \/ updateOnlineBandit(s) \/ Prewarmed(s) \/ SessionCloses(s)
             \/ agent.pc # "recommend" /\ asking[s].pc # "idle" /\ Recommend(s)
       /\ UNCHANGED agentVars

RemediationNext ==
    \/ Next /\ UNCHANGED agentVars
    \/ config.part = "agent" /\ AgentStep

RemediationSpec == RemediationInit /\ [][RemediationNext]_remediationVars

-----------------------------------------------------------------------------
\* What a step that hands over feedback, or leaves the agent idle, comes from.
EarnedStep ==
    /\ \A e \in events' \ events :
          config.part = "agent" /\ e.kind # "emitted" =>
             LET done == ran[agent.session]
                 asked == ToSet(ToolsOf(agent.alert, agent.recTools))
             IN  /\ ~ \E d \in events : d.rec = e.rec /\ d.kind # "emitted"
                 /\ asked \cap ToSet(agent.recTools) # {}
                 /\ e.kind = "accepted" => done = asked \X {"succeeded"}
                 /\ e.kind = "rejected" =>
                        \/ done # asked \X {"succeeded"}
                        \/ \E i \in DOMAIN agent.steps : agent.steps[i].status = "error"
    /\ config.part = "agent" /\ agent'.pc = "idle" => live' \subseteq stray'

(* The agent's feedback is earned: a recommendation gets at most one, and  *)
(* a tool of it was called for; when it is accepted, the runtime has every *)
(* tool of the playbook as succeeded in the session and none otherwise;    *)
(* when it is rejected, one is otherwise, or its answer was lost.  And an  *)
(* agent that is idle has no session open, save one whose close was lost,  *)
(* or that a restart or a lost answer of CreateSession took from it.       *)
FeedbackIsEarned == [][EarnedStep]_remediationVars

(* Why it is: whatever is open is the agent's or stray; the id of its      *)
(* recommendation has had no feedback yet ...                              *)
StatusNames == {"succeeded", "failed", "denied", "error"}

SessionsAreHeld ==
    /\ config.part # "agent" => agent.pc = "idle"
    /\ agent.pc \notin {"idle", "create"} => agent.session \in Sessions
    /\ config.part = "agent" =>
           IF agent.pc \in {"idle", "create"} THEN live \subseteq stray
           ELSE live \subseteq stray \cup {agent.session}

FeedbackIsNew ==
    /\ \A e \in events : e.kind # "emitted" => e.rec \in 0..used.answers
    /\ agent.pc = "recommend" => answer[agent.session] = None
    /\ agent.pc \in {"invoke", "invoking"} =>
           /\ agent.recID \in 1..used.answers
           /\ \A e \in events : e.kind # "emitted" => e.rec # agent.recID

(* ... and what ran in its session is what its steps say, save the answers *)
(* that were lost and the one that is awaited.                             *)
StepsHold ==
    /\ agent.pc = "idle" \/ agent.alert \in DOMAIN Playbooks
    /\ agent.pc \in {"create", "recommend"} => agent.steps = <<>>
    /\ agent.pc = "recommend" => ran[agent.session] = {}
    /\ agent.pc \in {"invoke", "invoking"} =>
           LET done == ran[agent.session]
           IN  /\ agent.left \in Seq(Tools)
               /\ agent.steps \in Seq([tool : Tools, status : StatusNames])
               /\ ToSet(ToolsOf(agent.alert, agent.recTools)) =
                      {agent.steps[i].tool : i \in DOMAIN agent.steps} \cup ToSet(agent.left)
               /\ \A i \in DOMAIN agent.steps :
                     agent.steps[i].status # "error" =>
                         <<agent.steps[i].tool, agent.steps[i].status>> \in done
               /\ agent.pc = "invoking" =>
                     /\ agent.left # <<>> /\ agent.status \in StatusNames
                     /\ agent.status # "error" => <<Head(agent.left), agent.status>> \in done
               /\ \A r \in done :
                     \/ agent.pc = "invoking" /\ r = <<Head(agent.left), agent.status>>
                     \/ \E i \in DOMAIN agent.steps :
                           \/ r = <<agent.steps[i].tool, agent.steps[i].status>>
                           \/ agent.steps[i].status = "error" /\ r[1] = agent.steps[i].tool

AgentInv ==
    /\ DOMAIN agent = DOMAIN NoRun /\ DOMAIN ran = Sessions
    /\ SessionsAreHeld /\ FeedbackIsNew /\ StepsHold
=============================================================================
