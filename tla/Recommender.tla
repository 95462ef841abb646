----------------------------- MODULE Recommender -----------------------------
(***************************************************************************)
(* The learning side of the runtime service, over the pipeline of          *)
(* ToolLearning: what an invocation leaves behind for learning (telemetry  *)
(* record, update of the online bandit), the statistics the aggregator     *)
(* keeps, the prewarmed data of a session, RecommendTools with its scorers *)
(* and its evidence, and the feedback of agents.                           *)
(*                                                                         *)
(* What the scorers draw at random or compute from real-valued weights is  *)
(* any member of Samples.  files[s] are the marker files the service sees  *)
(* in the workspace of s (none of a workspace inside a container), and    *)
(* ListTools is the constant Allowed.                                      *)
(***************************************************************************)
EXTENDS ToolLearning, SequencesExt

CONSTANTS
    Sessions, Files,      \* sessions; marker files a workspace may hold
    Restricted, Admins,   \* sessions with allowed paths; of a platform_admin
    Allowed,              \* [Sessions -> SUBSET Tools]: what ListTools answers
    Capability,           \* [Tools -> the metadata of the tool]
    ToolOrder,            \* the tools in the order of their names
    Hints,                \* task hints: tokens, and the tokens each tool matches
    TopKs,                \* requested top_k
    Samples,              \* outcomes of a scorer's draw, in hundredths
    Configs,              \* the wirings of the service that are considered, and its sessions
    MaxInvocations, MaxAnswers, \* bounds: invocations; recommendations, feedback
    MaxChanges            \* bound: changes of the surroundings of the service

ASSUME RecommenderAssumption ==
    /\ IsFiniteSet(Sessions) /\ IsFiniteSet(Tools) /\ TopKs \subseteq Int
    /\ \A c \in Configs : c.sessions \subseteq Sessions
    /\ Allowed \in [Sessions -> SUBSET Tools]

VARIABLES
    config,     \* [part, sessions, telemetry, decisions, policies]: as main wires them
    live, files,\* open sessions; the marker files of their workspace
    memory,     \* the records of the in-memory telemetry
    stats,      \* the Aggregator's statistics of each tool, or None
    bandit,     \* per signature, the HyLinUCB instance (updates per arm), or None
    warm,       \* prewarmed data of a session: "none", "loading" or the data
    asking,     \* the RecommendTools call of each session
    ending,     \* the invocation of each session that is being recorded
    decisions,  \* the decision store
    events,     \* learning events handed to the event bus
    used,       \* what has been used of the three bounds
    executed,   \* invocations per signature and tool that really ran
    answer      \* what the last call of each session answered, or None

runtimeVars == <<config, live, files, memory, stats, bandit, warm, asking, ending,
                 decisions, events, used, executed, answer>>

vars == <<learnerVars, runtimeVars>>

\* The markers detectLanguage looks for, in its order.
Markers ==
    << <<"go.mod", "go">>, <<"Cargo.toml", "rust">>, <<"package.json", "javascript">>,
       <<"pyproject.toml", "python">>, <<"setup.py", "python">>,
       <<"requirements.txt", "python">>, <<"pom.xml", "java">>, <<"build.gradle", "java">>,
       <<"Gemfile", "ruby">>, <<"mix.exs", "elixir">>, <<"composer.json", "php">>,
       <<"*.csproj", "csharp">> >>

detectLanguage(present) ==
    LET hits == {i \in DOMAIN Markers : Markers[i][1] \in present}
    IN  IF hits = {} THEN "unknown" ELSE Markers[Min(hits)][2]

classifyConstraints(s) ==
    IF s \in Restricted THEN "constraints_high"
    ELSE IF s \in Admins THEN "constraints_low" ELSE "standard"

\* The task family is fixed: the signature does not depend on the tool.
DeriveContextSignature(s) == <<detectLanguage(files[s]), classifyConstraints(s)>>

ASSUME SignatureAssumption ==
    \A s \in Sessions, present \in SUBSET Files :
        <<detectLanguage(present), classifyConstraints(s)>> \in Sigs

\* The data of a call are those of the signature "from": its own, or the one the session had
\* when it was prewarmed.
NoCall == [pc |-> "idle", sig |-> None, from |-> None, prewarmed |-> FALSE, stats |-> None,
           policies |-> None, model |-> None]

Cold(pc) == [pc |-> pc, from |-> None, stats |-> None, policies |-> None, model |-> None]

NoStats == [t \in Tools |-> None]

Init ==
    /\ LearnerInit
    /\ config \in Configs
    /\ live = IF config.part = "agent" THEN {} ELSE config.sessions
    /\ files = [s \in Sessions |-> {}]
    /\ memory = [t \in Tools |-> EmptyBag] /\ stats = NoStats
    /\ bandit = [g \in Sigs |-> None]
    /\ warm = [s \in Sessions |-> Cold("loading")]
    /\ asking = [s \in Sessions |-> NoCall]
    /\ ending = [s \in Sessions |-> None]
    /\ decisions = {} /\ events = {}
    /\ used = [invocations |-> 0, answers |-> 0, changes |-> 0]
    /\ executed = [k \in Keys |-> 0]
    /\ answer = [s \in Sessions |-> None]

-----------------------------------------------------------------------------
(* Telemetry.                                                              *)

Weigh(b, S(_)) ==
    MapThenSumSet(LAMBDA r : r.n * b[r], {r \in BagToSet(b) : S(r)})

computeToolStats(b) ==
    [n      |-> Weigh(b, LAMBDA r : TRUE),
     ok     |-> Weigh(b, LAMBDA r : r.status = "succeeded"),
     denied |-> Weigh(b, LAMBDA r : r.status = "denied")]

\* TelemetryQuerier.AllToolStats: computed on demand from the records in
\* memory, or what the Aggregator last computed; nothing without a backend.
AllToolStats ==
    CASE config.telemetry = "memory" ->
            [t \in Tools |-> IF memory[t] = EmptyBag THEN None ELSE computeToolStats(memory[t])]
      [] config.telemetry = "valkey" -> stats
      [] OTHER -> NoStats

\* Aggregator.aggregate: the tools it knows are those it has statistics of; a
\* tool whose list is empty or cannot be read is dropped.
aggregate ==
    /\ config.telemetry = "valkey"
    /\ \E unread \in SUBSET Tools :
          stats' = [t \in Tools |->
              IF stats[t] = None \/ t \in unread \/ lists[t] = EmptyBag THEN None
              ELSE computeToolStats(lists[t])]
    /\ UNCHANGED learnerVars
    /\ UNCHANGED <<config, live, files, memory, bandit, warm, asking, ending,
                   decisions, events, used, executed, answer>>

\* An invocation of s has ended with the status and recordTelemetry derives its signature,
\* from the workspace as it is by then.  A denied invocation may have run all the same: its
\* result was too large, or its tool refused.
InvocationEnds(s, t, status, n) ==
    /\ ending[s] = None /\ s \in live
    /\ t \in Allowed[s] \/ status = "denied"
    /\ ending' = [ending EXCEPT ![s] =
           [pc |-> "record", tool |-> t, sig |-> DeriveContextSignature(s),
            status |-> status, n |-> n]]
    /\ used' = [used EXCEPT !.invocations = @ + 1]
    /\ \/ executed' = [executed EXCEPT ![<<DeriveContextSignature(s), t>>] = @ + n]
       \/ status = "denied" /\ UNCHANGED executed
    /\ UNCHANGED learnerVars
    /\ UNCHANGED <<config, live, files, memory, stats, bandit, warm, asking,
                   decisions, events, answer>>

\* The record of recordTelemetry; an error of the recorder is ignored.
recordTelemetry(s) ==
    LET e   == ending[s]
        row == [sig |-> e.sig, status |-> e.status, n |-> e.n, age |-> "hour"]
    IN  /\ e # None /\ e.pc = "record"
        /\ \/ /\ config.telemetry = "valkey"
              /\ Arrives(e.tool, row)
              /\ UNCHANGED memory
           \/ /\ config.telemetry = "memory"
              /\ memory' = [memory EXCEPT ![e.tool] = @ (+) SetToBag({row})]
              /\ UNCHANGED lists
           \/ /\ config.telemetry # "memory"
              /\ UNCHANGED <<lists, memory>>
        /\ ending' = [ending EXCEPT ![s].pc = "bandit"]
        /\ UNCHANGED <<exporting, exports, lake, policies, model, job, snapshots, notices,
                       stored>>
        /\ UNCHANGED <<config, live, files, stats, bandit, warm, asking, decisions,
                       events, used, executed, answer>>

\* Mutant: the outcome of every invocation is fed to the bandit.
Mut_CarriesReward(e) == e.status \in {"succeeded", "failed", "denied"}

CarriesReward(e) == e.status \in {"succeeded", "failed"}

\* updateOnlineBandit: only for a policy it can read, and a context some
\* recommendation has made an instance for.
updateOnlineBandit(s) ==
    LET e == ending[s]
    IN  /\ e # None /\ e.pc = "bandit"
        /\ \/ /\ config.policies /\ CarriesReward(e)
              /\ policies[<<e.sig, e.tool>>] # None /\ bandit[e.sig] # None
              /\ bandit' = [bandit EXCEPT ![e.sig][e.tool] = bandit[e.sig][e.tool] + e.n]
           \/ UNCHANGED bandit
        /\ ending' = [ending EXCEPT ![s] = None]
        /\ UNCHANGED learnerVars
        /\ UNCHANGED <<config, live, files, memory, stats, warm, asking, decisions,
                       events, used, executed, answer>>

-----------------------------------------------------------------------------
(* The data a recommendation is made from.                                 *)

\* ReadPoliciesForContext: got are the tools whose policies it can read (it skips the others);
\* of a context it cannot scan it has none.
ReadPoliciesForContext(sig, got) ==
    [t \in Tools |-> IF t \in got /\ config.policies THEN policies[<<sig, t>>] ELSE None]

ReadNeuralModel(got) == IF got /\ config.policies THEN model ELSE None

\* The goroutine of prewarmSession is done: the session keeps these data for
\* as long as it is open.
Prewarmed(s) ==
    /\ warm[s].pc = "loading"
    /\ \E gotPolicies \in SUBSET Tools, gotModel \in BOOLEAN :
          warm' = [warm EXCEPT ![s] =
              [pc |-> "ready", from |-> DeriveContextSignature(s), stats |-> AllToolStats,
               policies |-> ReadPoliciesForContext(DeriveContextSignature(s), gotPolicies),
               model |-> ReadNeuralModel(gotModel)]]
    /\ UNCHANGED learnerVars
    /\ UNCHANGED <<config, live, files, memory, stats, bandit, asking, ending,
                   decisions, events, used, executed, answer>>

getWarmData(s) == warm[s].pc = "ready"

deriveCost(c) ==
    IF c.costHint # None THEN c.costHint
    ELSE IF c.timeout <= 10 THEN "cheap" ELSE IF c.timeout <= 60 THEN "medium" ELSE "expensive"

Rounded(num, den) == (2 * num + den) \div (2 * den)

scoreTool(t, hint) ==
    LET c == Capability[t]
        penalty == [low |-> 0, medium |-> 15, high |-> 35][c.risk]
                   + [none |-> 0, reversible |-> 10, irreversible |-> 25][c.effects]
                   + (IF c.approval THEN 10 ELSE 0)
                   + [cheap |-> 0, medium |-> 5, expensive |-> 15][deriveCost(c)]
        bonus == IF hint.tokens = 0 THEN 0 ELSE Rounded(20 * hint.matches[t], hint.tokens)
    IN  100 - penalty + bonus

applyTelemetryBoost(score, t, st) ==
    IF st = None THEN score
    ELSE IF st.n < 5 THEN score
    ELSE score + (IF 10 * st.ok >= 9 * st.n THEN 15 ELSE IF 2 * st.ok < st.n THEN -15 ELSE 0)
               - (IF t \in SlowTools THEN 10 ELSE 0)
               - (IF 5 * st.denied > st.n THEN 10 ELSE 0)

\* SelectScorerFull: the largest sample of the context's policies decides.
SelectScorerFull(ps, trained, contextual) ==
    LET held == {t \in Tools : ps[t] # None}
        maxSamples == Max({ps[t].n : t \in held})
    IN  CASE held = {} -> "none"
          [] OTHER ->
             CASE trained # None /\ maxSamples >= 100 -> "neural_thompson_sampling"
               [] contextual /\ maxSamples >= 20 /\ maxSamples < 100 -> "hylinucb_hybrid"
               [] OTHER -> IF maxSamples >= 50 THEN "beta_thompson_sampling" ELSE "heuristic_policy"

algorithmID(scorer) ==
    IF scorer \in {"none", "heuristic_policy"} THEN "heuristic_v1" ELSE scorer

classifyDecisionSource(st, ps) ==
    IF \E t \in Tools : ps[t] # None
    THEN IF \E t \in Tools : ps[t] # None /\ ps[t].n >= 50
         THEN "learned_policy_thompson" ELSE "heuristic_with_learned_policy"
    ELSE IF st # NoStats THEN "heuristic_with_telemetry" ELSE "heuristic_only"

decisionSource(scorer, st, ps) ==
    CASE scorer = "neural_thompson_sampling" -> "neural_thompson_sampling"
      [] scorer = "beta_thompson_sampling" -> "learned_policy_thompson"
      [] OTHER -> classifyDecisionSource(st, ps)

Blend(weight, base, x) == Rounded((100 - weight) * base + weight * x, 100)

\* The HyLinUCB score of an arm: optimistic when the arm has no update yet.
armScore(inst, t, draw) == IF inst = None \/ inst[t] = 0 THEN 75 ELSE draw

\* The scorers: a policy with fewer than 10 samples leaves the score alone.
Score(scorer, base, t, p, inst, draw) ==
    LET low(a, b) == IF a < b THEN a ELSE b
        slo == (IF p.errorRate > 30 THEN 20 ELSE 0) + (IF t \in SlowTools THEN 10 ELSE 0)
    IN  IF p.n < 10 THEN base
        ELSE (CASE scorer = "neural_thompson_sampling" -> Blend(low(p.n \div 2, 90), base, draw)
                [] scorer = "hylinucb_hybrid" ->
                       Blend(low((5 * p.n) \div 4, 70), base, armScore(inst, t, draw))
                [] scorer = "beta_thompson_sampling" -> Blend(low(p.n, 80), base, draw)
                [] OTHER -> base + Rounded(25 * p.confidence, 100)) - slo

\* BuildCrossAgentInsight: tier and confidence from the data of the call.
BuildCrossAgentInsight(st, ps, algorithm) ==
    LET total == MapThenSumSet(LAMBDA t : st[t].n, {t \in Tools : st[t] # None})
    IN  [total |-> total,
         tier |-> CASE algorithm = "heuristic_v1" -> "heuristic"
                    [] algorithm = "beta_thompson_sampling" -> "thompson"
                    [] algorithm = "neural_thompson_sampling" -> "neural_ts"
                    [] OTHER -> IF total >= 5 THEN "telemetry" ELSE "heuristic",
         confidence |-> IF total >= 100 /\ \E t \in Tools : ps[t] # None THEN "high"
                        ELSE IF total >= 20 THEN "medium" ELSE "low"]

-----------------------------------------------------------------------------
(* RecommendTools.                                                         *)

Answer(call, code) == [call |-> call, code |-> code]

\* ListTools, GetSession, and the first of the data: the prewarmed ones when
\* there are any, whatever signature they were loaded for.
RecommendTools(s) ==
    /\ asking[s].pc = "idle"
    /\ \/ /\ s \notin live
          /\ answer' = [answer EXCEPT ![s] = Answer("RecommendTools", "not_found")]
          /\ UNCHANGED asking
       \/ /\ s \in live /\ getWarmData(s)
          /\ asking' = [asking EXCEPT ![s] =
                 [pc |-> "score", sig |-> DeriveContextSignature(s), from |-> warm[s].from,
                  prewarmed |-> TRUE, stats |-> warm[s].stats, policies |-> warm[s].policies,
                  model |-> warm[s].model]]
          /\ UNCHANGED answer
       \/ /\ s \in live /\ ~getWarmData(s)
          /\ asking' = [asking EXCEPT ![s] =
                 [pc |-> "policies", sig |-> DeriveContextSignature(s),
                  from |-> DeriveContextSignature(s), prewarmed |-> FALSE,
                  stats |-> AllToolStats, policies |-> None, model |-> None]]
          /\ UNCHANGED answer
    /\ UNCHANGED learnerVars
    /\ UNCHANGED <<config, live, files, memory, stats, bandit, warm, ending,
                   decisions, events, used, executed>>

RecommendPolicies(s) ==
    /\ asking[s].pc = "policies"
    /\ \E got \in SUBSET Tools :
          asking' = [asking EXCEPT ![s] =
              [asking[s] EXCEPT !.pc = "model",
                                !.policies = ReadPoliciesForContext(asking[s].sig, got)]]
    /\ UNCHANGED learnerVars
    /\ UNCHANGED <<config, live, files, memory, stats, bandit, warm, ending,
                   decisions, events, used, executed, answer>>

RecommendModel(s) ==
    /\ asking[s].pc = "model"
    /\ \E got \in BOOLEAN :
          asking' = [asking EXCEPT ![s] =
              [asking[s] EXCEPT !.pc = "score", !.model = ReadNeuralModel(got)]]
    /\ UNCHANGED learnerVars
    /\ UNCHANGED <<config, live, files, memory, stats, bandit, warm, ending,
                   decisions, events, used, executed, answer>>

EffectiveTopK(k) == IF k <= 0 THEN 10 ELSE IF k > 50 THEN 50 ELSE k

NameOrder(t) == CHOOSE i \in DOMAIN ToolOrder : ToolOrder[i] = t

\* What the sort and the cut leave: the first k of the tools, by score and then by name.
\* (There is one such sequence; sort.Slice asks for no more.)
Ranked(tools, score, k) ==
    LET before(t, u) == \/ score[t] > score[u]
                        \/ score[t] = score[u] /\ NameOrder(t) < NameOrder(u)
        n == IF k < Cardinality(tools) THEN k ELSE Cardinality(tools)
    IN  {r \in [1..n -> tools] :
            /\ \A i, j \in 1..n : i < j => before(r[i], r[j])
            /\ \A i \in 1..n, t \in tools \ {r[j] : j \in 1..n} : before(r[i], t)}

\* HyLinUCBManager.GetScorer makes the instance of a context it has not seen.
GetScorer(scorer, sig) ==
    IF scorer = "hylinucb_hybrid" /\ bandit[sig] = None
    THEN [bandit EXCEPT ![sig] = [t \in Tools |-> 0]]
    ELSE bandit

\* Mutant: the event is published through publishEvent, which makes its own id.
Mut_EmittedEvent(id) == [kind |-> "emitted", rec |-> id, event |-> <<id, "bus">>]

EmittedEvent(id) == [kind |-> "emitted", rec |-> id, event |-> <<id, "answer">>]

\* The rest of the call: scorer, scores, ranking, decision, event, answer.
\* A decision that is not saved does not fail the call.  (sessionLastRec,
\* which the call also sets, is read for metrics only and is left out.)
RecommendAnswer(s, k, hint, draw) ==
    LET a      == asking[s]
        id     == used.answers + 1
        scorer == SelectScorerFull(a.policies, a.model, TRUE)
        inst   == GetScorer(scorer, a.sig)[a.sig]
        score  == [t \in Allowed[s] |->
                      LET base == applyTelemetryBoost(scoreTool(t, hint), t, a.stats[t])
                      IN  IF a.policies[t] = None THEN base
                          ELSE Score(scorer, base, t, a.policies[t], inst, draw[t])]
    IN  /\ a.pc = "score"
        /\ bandit' = GetScorer(scorer, a.sig)
        /\ \E ranked \in Ranked(Allowed[s], score, EffectiveTopK(k)) :
              LET d == [id |-> id, session |-> s, sig |-> a.sig, tools |-> ranked,
                        algorithm |-> algorithmID(scorer),
                        source |-> decisionSource(scorer, a.stats, a.policies),
                        shadow |-> \E t \in Tools : a.policies[t] # None]
              IN  /\ \E saved \in {TRUE, config.decisions = "memory"} :
                        decisions' = IF saved THEN decisions \cup {d} ELSE decisions
                  /\ answer' = [answer EXCEPT ![s] =
                         [call |-> "RecommendTools", code |-> "ok", decision |-> d,
                          event |-> <<id, "answer">>, from |-> a.from,
                          prewarmed |-> a.prewarmed,
                          insight |-> BuildCrossAgentInsight(a.stats, a.policies, d.algorithm)]]
        /\ events' = events \cup {EmittedEvent(id)}
        /\ asking' = [asking EXCEPT ![s] = NoCall]
        /\ used' = [used EXCEPT !.answers = id]
        /\ UNCHANGED learnerVars
        /\ UNCHANGED <<config, live, files, memory, stats, warm, ending, executed>>

\* AcceptRecommendation and RejectRecommendation: neither the session nor the
\* recommendation has to exist, and the event that is published has another id
\* than the one that is answered.
Feedback(s, kind, rec) ==
    LET id == used.answers + 1
    IN  /\ \/ /\ answer' = [answer EXCEPT ![s] = Answer(kind, "internal")]
              /\ UNCHANGED events
           \/ /\ events' = events \cup {[kind |-> kind, rec |-> rec, event |-> <<id, "bus">>]}
              /\ answer' = [answer EXCEPT ![s] =
                     [call |-> kind, code |-> "ok", event |-> <<id, "answer">>]]
        /\ used' = [used EXCEPT !.answers = id]
        /\ UNCHANGED learnerVars
        /\ UNCHANGED <<config, live, files, memory, stats, bandit, warm, asking, ending,
                       decisions, executed>>

-----------------------------------------------------------------------------
(* What the service says of itself: the scorers it lists as active.        *)

GetLearningStatus ==
    [call |-> "GetLearningStatus", code |-> "ok",
     algorithms |-> {"heuristic_v1"} \cup
         (IF config.policies THEN {"thompson_sampling", "neural_ts"} ELSE {})]

-----------------------------------------------------------------------------
(* The surroundings.                                                       *)

Change == /\ used.changes < MaxChanges
          /\ used' = [used EXCEPT !.changes = @ + 1]

\* A tool writes or removes a marker file: the session's signature changes.
WorkspaceChanges(s) ==
    /\ s \in live
    /\ \E f \in Files : files' = [files EXCEPT ![s] = IF f \in @ THEN @ \ {f} ELSE @ \cup {f}]
    /\ Change
    /\ UNCHANGED learnerVars
    /\ UNCHANGED <<config, live, memory, stats, bandit, warm, asking, ending,
                   decisions, events, executed, answer>>

\* CloseSession evicts the prewarmed data.
SessionCloses(s) ==
    /\ s \in live
    /\ live' = live \ {s} /\ warm' = [warm EXCEPT ![s] = Cold("none")]
    /\ Change
    /\ UNCHANGED learnerVars
    /\ UNCHANGED <<config, files, memory, stats, bandit, asking, ending,
                   decisions, events, executed, answer>>

\* The process restarts: what it held in memory is gone, and no session is
\* prewarmed again.
Restart ==
    /\ memory' = [t \in Tools |-> EmptyBag] /\ stats' = NoStats
    /\ bandit' = [g \in Sigs |-> None] /\ warm' = [s \in Sessions |-> Cold("none")]
    /\ asking' = [s \in Sessions |-> NoCall] /\ ending' = [s \in Sessions |-> None]
    /\ answer' = [s \in Sessions |-> None]
    /\ decisions' = IF config.decisions = "memory" THEN {} ELSE decisions
    /\ Change
    /\ UNCHANGED learnerVars
    /\ UNCHANGED <<config, live, files, events, executed>>

DecisionExpires ==
    /\ config.decisions = "valkey"
    /\ \E d \in decisions : decisions' = decisions \ {d}
    /\ Change
    /\ UNCHANGED learnerVars
    /\ UNCHANGED <<config, live, files, memory, stats, bandit, warm, asking, ending,
                   events, executed, answer>>

(* A behaviour follows either the pipeline in detail, fed with whatever    *)
(* telemetry the runtimes may write, or the service in detail, over        *)
(* whatever policies the pipeline may write.                               *)

LearnerStep ==
    /\ \/ config.part = "pipeline" /\ LearnerNext /\ UNCHANGED used
       \/ config.part = "service" /\ config.policies /\ (Learned \/ KeyExpires) /\ Change
    /\ UNCHANGED <<config, live, files, memory, stats, bandit, warm, asking, ending,
                   decisions, events, executed, answer>>

Recommend(s) ==
    \/ RecommendTools(s) \/ RecommendPolicies(s) \/ RecommendModel(s)
    \/ \E k \in TopKs, hint \in Hints, draw \in [Tools -> Samples] :
          RecommendAnswer(s, k, hint, draw)

ServiceStep(s) ==
    \/ /\ used.invocations < MaxInvocations
       /\ \E t \in Tools, status \in {"succeeded", "failed", "denied"}, n \in Batches :
             InvocationEnds(s, t, status, n)
    \/ recordTelemetry(s) \/ updateOnlineBandit(s) \/ Prewarmed(s)
    \/ (asking[s].pc = "idle" => used.answers < MaxAnswers) /\ Recommend(s)
    \/ /\ used.answers < MaxAnswers
       /\ \E kind \in {"accepted", "rejected"}, rec \in {d.id : d \in decisions} \cup {0} :
             Feedback(s, kind, rec)
    \/ WorkspaceChanges(s) \/ SessionCloses(s)

Next ==
    \/ LearnerStep
    \/ /\ config.part = "service"
       /\ aggregate \/ Restart \/ DecisionExpires \/ \E s \in config.sessions : ServiceStep(s)

-----------------------------------------------------------------------------
(* The online bandit learns from executions only: the updates of an arm    *)
(* never exceed the invocations of its tool that ran in its context,       *)
(* whatever was denied, restarted, recommended or relearned in between.    *)
BanditLearnsFromRuns ==
    \A g \in Sigs : bandit[g] # None =>
        \A t \in Tools : bandit[g][t] <= executed[<<g, t>>]

\* A recommendation was answered.
Recommended(a) == a # None /\ a.call = "RecommendTools" /\ a.code = "ok"

\* The keys of every policy the store ever took.
TakenKeys == {x[2] : x \in stored}

\* The name the status has for the algorithm of an answer.  It never lists HyLinUCB, which
\* works on the policies of the reader it lists as thompson_sampling.
StatusName(algorithm) ==
    CASE algorithm = "heuristic_v1" -> "heuristic_v1"
      [] algorithm = "neural_thompson_sampling" -> "neural_ts"
      [] algorithm \in {"beta_thompson_sampling", "hylinucb_hybrid"} -> "thompson_sampling"

(* The evidence of an answered recommendation holds, whatever was learned, *)
(* expired, restarted or answered to others since: one event was handed to *)
(* the bus for it, with the id the answer names; the decision found under  *)
(* its id, if it was saved and has not expired, is the one answered; its   *)
(* algorithm is one the status lists under its own name (HyLinUCB, which   *)
(* is never listed: under that of the reader whose policies it uses); and  *)
(* if it was learned, the store took a policy of the signature its data    *)
(* were read for, which is the one the decision names, save for data of a  *)
(* prewarmed session, that stay those of the signature it had then.        *)
AnswersAreEvidenced ==
    \A s \in Sessions :
        LET a == answer[s]
            d == a.decision
        IN  Recommended(a) =>
               /\ {e.event : e \in {x \in events : x.kind = "emitted" /\ x.rec = d.id}} = {a.event}
               /\ \A kept \in decisions : kept.id = d.id => kept = d
               /\ StatusName(d.algorithm) \in GetLearningStatus.algorithms
               /\ d.algorithm # "heuristic_v1" =>
                     /\ \E t \in Tools : <<a.from, t>> \in TakenKeys
                     /\ a.from = d.sig \/ a.prewarmed

(* Why it does: an id is used once, so that what is stored or emitted      *)
(* under the id of an answer is what was answered ...                      *)
AnswerHolds(a) ==
    Recommended(a) =>
        /\ a.decision.id \in 1..used.answers
        /\ \E e \in events : e.kind = "emitted" /\ e.rec = a.decision.id
        /\ \A e \in events : e.kind = "emitted" /\ e.rec = a.decision.id => e.event = a.event
        /\ \A d \in decisions : d.id = a.decision.id => d = a.decision
        /\ a.decision.algorithm \in {"heuristic_v1", "beta_thompson_sampling",
                                     "neural_thompson_sampling", "hylinucb_hybrid"}
        /\ a.decision.algorithm # "heuristic_v1" =>
              /\ config.policies
              /\ \E t \in Tools : <<a.from, t>> \in TakenKeys
              /\ a.from = a.decision.sig \/ a.prewarmed

(* ... what the store holds it took, and the policies of a call, and of a  *)
(* prewarmed session, were in it under the signature they were read for.   *)
StoreHolds ==
    /\ DOMAIN policies = Keys
    /\ \A k \in Keys : policies[k] # None => k \in TakenKeys

ReadFrom(ps, g) ==
    \A t \in Tools : ps[t] # None => config.policies /\ <<g, t>> \in TakenKeys

CallHolds(c) ==
    /\ DOMAIN c = DOMAIN NoCall
    /\ c.pc # "idle" => c.sig \in Sigs /\ c.from \in Sigs /\ (c.from = c.sig \/ c.prewarmed)
    /\ c.pc \in {"policies", "model"} => c.from = c.sig
    /\ c.pc \in {"model", "score"} => ReadFrom(c.policies, c.from)

EvidenceInv ==
    /\ config \in Configs
    /\ files \in [Sessions -> SUBSET Files]
    /\ used = [invocations |-> used.invocations, answers |-> used.answers,
               changes |-> used.changes]
    /\ used.answers \in Nat
    /\ StoreHolds
    /\ DOMAIN answer = Sessions /\ DOMAIN asking = Sessions /\ DOMAIN warm = Sessions
    /\ \A d \in decisions : d.id \in 1..used.answers
    /\ \A e \in events : e.kind = "emitted" => e.rec \in 1..used.answers
    /\ \A s \in Sessions :
          /\ AnswerHolds(answer[s])
          /\ CallHolds(asking[s])
          /\ warm[s].pc = "ready" => warm[s].from \in Sigs /\ ReadFrom(warm[s].policies, warm[s].from)
=============================================================================
