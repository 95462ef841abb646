---------------------------- MODULE LearningProofs ----------------------------
(* Theorems about the tool-learning pipeline, the recommender over it and the *)
(* remediation agent, for every set of tools, signatures, sessions and jobs,  *)
(* and every bound.                                                           *)
EXTENDS FiniteSetTheorems, Remediation, TLAPS

-----------------------------------------------------------------------------
(* The policy runs. *)

runVars == <<job, notices, policies, stored>>

\* Nothing but a step of a run touches what a run keeps or announces, and nothing but that, the
\* runs of Learned and the end of a TTL what the store holds.
LEMMA RunFrame ==
  ASSUME RemediationNext
  PROVE  \/ UNCHANGED runVars \/ \E j \in Schedules : RunStep(j)
         \/ Learned \/ KeyExpires
<1>1. ASSUME UNCHANGED learnerVars PROVE UNCHANGED runVars
  BY <1>1 DEF learnerVars, runVars
<1>2. ASSUME UNCHANGED vars PROVE UNCHANGED runVars
  BY <1>1, <1>2 DEF vars
<1>3. ASSUME NEW s, Recommend(s) PROVE UNCHANGED learnerVars
  <2>1. CASE RecommendTools(s) \/ RecommendPolicies(s) \/ RecommendModel(s)
    BY <2>1, Zenon DEF RecommendTools, RecommendPolicies, RecommendModel
  <2>2. ASSUME NEW k, NEW hint, NEW draw, RecommendAnswer(s, k, hint, draw)
        PROVE  UNCHANGED learnerVars
    BY <2>2, Zenon DEF RecommendAnswer
  <2> QED
    BY <1>3, <2>1, <2>2, Zenon DEF Recommend
<1>4. ASSUME NEW s, recordTelemetry(s) PROVE UNCHANGED runVars
  BY <1>4, Zenon DEF recordTelemetry, runVars
<1>5. ASSUME NEW s, updateOnlineBandit(s) \/ Prewarmed(s) \/ SessionCloses(s)
      PROVE  UNCHANGED learnerVars
  BY <1>5, Zenon DEF updateOnlineBandit, Prewarmed, SessionCloses
<1>6. ASSUME NEW s, NEW t, NEW status, NEW n, InvocationEnds(s, t, status, n)
      PROVE  UNCHANGED learnerVars
  BY <1>6, Zenon DEF InvocationEnds
<1>7. ASSUME NEW s, NEW kind, NEW rec, Feedback(s, kind, rec) PROVE UNCHANGED learnerVars
  BY <1>7, Zenon DEF Feedback
<1>8. CASE LearnerStep
  <2>2. CASE LearnerNext
    <3>1. CASE TelemetryArrives \/ ExportRead \/ exportParquet \/ HourPasses
      BY <3>1, Zenon DEF TelemetryArrives, ExportRead, exportParquet, HourPasses, runVars
    <3> QED
      BY <2>2, <3>1, Zenon DEF LearnerNext
  <2> QED
    BY <1>8, <2>2, Zenon DEF LearnerStep
<1>9. ASSUME NEW s, ServiceStep(s) PROVE UNCHANGED runVars
  <2>1. CASE WorkspaceChanges(s)
    BY <1>1, <2>1, Zenon DEF WorkspaceChanges
  <2> QED
    BY <1>1, <1>3, <1>4, <1>5, <1>6, <1>7, <1>9, <2>1, Zenon DEF ServiceStep
<1>10. CASE aggregate \/ Restart \/ DecisionExpires
  BY <1>1, <1>10, Zenon DEF aggregate, Restart, DecisionExpires
<1>11. CASE Next
  BY <1>8, <1>9, <1>10, <1>11, Zenon DEF Next
<1>12. CASE AgentStep
  <2>1. CASE \E a \in Alerts : HandleAlert(a)
    BY <1>2, <2>1, Zenon DEF HandleAlert
  <2>2. ASSUME NEW s, CreateSession(s) PROVE UNCHANGED learnerVars
    BY <2>2, Zenon DEF CreateSession
  <2>3. CASE CreateFails \/ RecommendFails \/ InvokeAnswered
    BY <1>2, <2>3, Zenon DEF CreateFails, RecommendFails, InvokeAnswered
  <2>4. CASE RecommendCall
    BY <1>1, <1>3, <2>4, Zenon DEF RecommendCall
  <2>5. CASE InvokeTool
    BY <1>1, <1>2, <1>6, <2>5, Zenon DEF InvokeTool
  <2>6. CASE ReportFeedback
    BY <1>1, <1>2, <1>7, <2>6, Zenon DEF ReportFeedback
  <2>7. CASE CloseSession \/ AgentRestart
    BY <1>1, <2>7, Zenon DEF CloseSession, AgentRestart
  <2> QED
    BY <1>1, <1>3, <1>4, <1>5, <1>12, <2>1, <2>2, <2>3, <2>4, <2>5, <2>6, <2>7, Zenon
    DEF AgentStep
<1> QED
  BY <1>11, <1>12, Zenon DEF RemediationNext

\* A job of the right shape, field by field.
LEMMA JobShape ==
  ASSUME NEW r, NEW pc, NEW no,
         r = [pc |-> r.pc, no |-> r.no, aggs |-> r.aggs, out |-> r.out]
  PROVE  /\ [r EXCEPT !.pc = pc] = [pc |-> pc, no |-> r.no, aggs |-> r.aggs, out |-> r.out]
         /\ [r EXCEPT !.no = no] = [pc |-> r.pc, no |-> no, aggs |-> r.aggs, out |-> r.out]
<1>1. PICK a, b, c, d : r = [pc |-> a, no |-> b, aggs |-> c, out |-> d]
  BY Zenon
<1>2. r.pc = a /\ r.no = b /\ r.aggs = c /\ r.out = d
  BY <1>1
<1>3. [r EXCEPT !.pc = pc] = [pc |-> pc, no |-> r.no, aggs |-> r.aggs, out |-> r.out]
  BY ONLY <1>1, <1>2
<1>4. [r EXCEPT !.no = no] = [pc |-> r.pc, no |-> no, aggs |-> r.aggs, out |-> r.out]
  BY ONLY <1>1, <1>2
<1> QED
  BY <1>3, <1>4

\* What a step of a run does to the runs: r is what it leaves of its own job,
\* new what it announces.
RunTo(j, r, new) ==
    /\ job' = [job EXCEPT ![j] = r]
    /\ notices' = notices \cup new

\* It keeps RunsInv when what it announces is of the run and true, the end of a run is
\* announced with the end of the job, and the job left holds what JobHolds asks of it.
LEMMA RunToKeeps ==
  ASSUME RunsInv, NEW j \in Schedules, NEW pc, NEW no \in Nat, NEW aggs, NEW out, NEW new,
         RunTo(j, [pc |-> pc, no |-> no, aggs |-> aggs, out |-> out], new),
         stored \subseteq stored',
         job[j].no <= no,
         no = job[j].no => job[j].pc # "idle" \/ pc = "idle",
         pc = "idle" => out = {},
         \A p \in out : p.run = <<j, no>>,
         pc \in {"model", "announce", "complete"} => \A p \in out : <<p.run, p.key>> \in stored',
         \A n \in new :
            /\ n.run = <<j, no>>
            /\ no = job[j].no => job[j].pc # "idle"
            /\ \A k \in n.keys : <<n.run, k>> \in stored'
            /\ n.subject \in {"run.failed", "run.completed"} => pc = "idle",
         \A n, m \in new : n.subject = "run.failed" => m.subject # "run.completed"
  PROVE  RunsInv'
<1>1. /\ DOMAIN job = Schedules
      /\ RunsAreNumbered
      /\ \A i \in Schedules : JobHolds(i)
      /\ AnnouncedIsStored
  BY DEF RunsInv
<1>2. /\ job' = [job EXCEPT ![j] = [pc |-> pc, no |-> no, aggs |-> aggs, out |-> out]]
      /\ notices' = notices \cup new
  BY DEF RunTo
<1>3. DOMAIN job' = Schedules
  BY <1>1, <1>2
<1>4. /\ job'[j] = [pc |-> pc, no |-> no, aggs |-> aggs, out |-> out]
      /\ job'[j].pc = pc /\ job'[j].no = no /\ job'[j].aggs = aggs /\ job'[j].out = out
      /\ \A i \in Schedules : i # j => job'[i] = job[i]
  BY <1>1, <1>2
<1> HIDE DEF RunsInv
<1>5. ASSUME NEW i \in Schedules PROVE JobHolds(i)'
  <2>1. JobHolds(i)
    BY <1>1
  <2>2. CASE i # j
    BY <1>4, <2>1, <2>2 DEF JobHolds, Run
  <2>3. CASE i = j
    BY <1>4, <2>3 DEF JobHolds, Run
  <2> QED
    BY <2>2, <2>3
<1>6. job[j].no \in Nat
  BY <1>1 DEF JobHolds
<1>7. RunsAreNumbered'
  <2> SUFFICES ASSUME NEW n \in notices', NEW i \in Schedules, n.run[1] = i
               PROVE  /\ n.run[2] \in 0..job'[i].no
                      /\ n.run[2] = job'[i].no /\ job'[i].pc # "idle" =>
                             n.subject \notin {"run.failed", "run.completed"}
    BY DEF RunsAreNumbered
  <2>1. CASE n \in new
    BY <1>4, <2>1
  <2>2. CASE n \in notices /\ i # j
    BY <1>1, <1>4, <2>2 DEF RunsAreNumbered
  <2>3. CASE n \in notices /\ i = j
    BY <1>1, <1>4, <1>6, <2>3 DEF RunsAreNumbered
  <2> QED
    BY <1>2, <2>1, <2>2, <2>3
<1>8. AnnouncedIsStored'
  <2>1. ASSUME NEW n \in notices', NEW k \in n.keys PROVE <<n.run, k>> \in stored'
    BY <1>1, <1>2, <2>1 DEF AnnouncedIsStored
  <2>2. ASSUME NEW n \in notices, n.run = <<j, no>>, new # {}
        PROVE  n.subject \notin {"run.failed", "run.completed"}
    <3>1. no = job[j].no => job[j].pc # "idle"
      BY <2>2
    <3> QED
      BY <1>1, <1>6, <2>2, <3>1 DEF RunsAreNumbered
  <2>3. ASSUME NEW n \in notices', NEW m \in notices', n.subject = "run.failed",
               m.run = n.run, m.subject = "run.completed"
        PROVE  FALSE
    BY <1>1, <1>2, <2>2, <2>3 DEF AnnouncedIsStored
  <2> QED
    BY <2>1, <2>3 DEF AnnouncedIsStored
<1> QED
  BY <1>3, <1>5, <1>7, <1>8 DEF RunsInv

\* The policies of a run are its own.
LEMMA ComputedIsOwn ==
  ASSUME NEW run, NEW agg
  PROVE  ComputePolicy(run, agg).run = run
  BY DEF ComputePolicy

\* Each action of a run keeps RunsInv.
LEMMA RunStepKeeps ==
  ASSUME RunsInv, NEW j \in Schedules, RunStep(j)
  PROVE  RunsInv'
<1>1. DOMAIN job = Schedules /\ JobHolds(j)
  BY DEF RunsInv
<1>2. /\ job[j] = [pc |-> job[j].pc, no |-> job[j].no, aggs |-> job[j].aggs, out |-> job[j].out]
      /\ job[j].no \in Nat
      /\ job[j].pc = "idle" => job[j].out = {}
      /\ \A p \in job[j].out : p.run = <<j, job[j].no>>
      /\ job[j].pc \in {"model", "announce", "complete"} =>
             \A p \in job[j].out : <<p.run, p.key>> \in stored
  BY <1>1 DEF JobHolds, Run
<1> DEFINE Rec(pc, no, aggs, out) == [pc |-> pc, no |-> no, aggs |-> aggs, out |-> out]
<1>3. ASSUME NEW pc, job' = [job EXCEPT ![j].pc = pc]
      PROVE  job' = [job EXCEPT ![j] = Rec(pc, job[j].no, job[j].aggs, job[j].out)]
  BY <1>2, <1>3, JobShape
<1>4. CASE RunStart(j)
  <2>1. CASE job' = [job EXCEPT ![j] = Rec("query", job[j].no + 1, {}, {})]
             /\ Publish({[subject |-> "run.started", run |-> <<j, job[j].no + 1>>, keys |-> {}]})
    <3>1. RunTo(j, Rec("query", job[j].no + 1, {}, {}),
                {[subject |-> "run.started", run |-> <<j, job[j].no + 1>>, keys |-> {}]})
      BY <2>1 DEF RunTo, Publish
    <3>2. stored' = stored /\ job[j].pc = "idle"
      BY <1>4, Zenon DEF RunStart
    <3>3. PICK m \in Nat : m = job[j].no + 1 /\ job[j].no <= m /\ m # job[j].no
      BY <1>2
    <3>4. RunTo(j, Rec("query", m, {}, {}),
                {[subject |-> "run.started", run |-> <<j, m>>, keys |-> {}]})
      BY <3>1, <3>3
    <3> QED
      BY <3>2, <3>3, <3>4, RunToKeeps
  <2>2. CASE job' = [job EXCEPT ![j].no = job[j].no + 1] /\ UNCHANGED notices
    <3>1. job' = [job EXCEPT ![j] = Rec(job[j].pc, job[j].no + 1, job[j].aggs, job[j].out)]
      BY <1>2, <2>2, JobShape
    <3>2. RunTo(j, Rec(job[j].pc, job[j].no + 1, job[j].aggs, job[j].out), {})
      BY <2>2, <3>1 DEF RunTo
    <3>3. stored' = stored /\ job[j].pc = "idle"
      BY <1>4, Zenon DEF RunStart
    <3> QED
      <4>1. PICK m \in Nat : m = job[j].no + 1 /\ job[j].no <= m /\ m # job[j].no
        BY <1>2
      <4>2. RunTo(j, Rec("idle", m, job[j].aggs, {}), {})
        BY <1>2, <3>2, <3>3, <4>1
      <4> QED
        BY <3>3, <4>1, <4>2, RunToKeeps
  <2> QED
    BY <1>4, <2>1, <2>2, Zenon DEF RunStart
<1>5. ASSUME failRun(j), stored \subseteq stored', job[j].pc # "idle" PROVE RunsInv'
  <2>1. RunTo(j, Rec("idle", job[j].no, {}, {}),
              {[subject |-> "run.failed", run |-> <<j, job[j].no>>, keys |-> {}]})
    BY <1>5 DEF failRun, End, Publish, Notice, Run, RunTo
  <2> QED
    BY <1>2, <1>5, <2>1, RunToKeeps
<1>6. CASE RunQuery(j)
  <2>1. job[j].pc = "query" /\ stored' = stored
    BY <1>6, Zenon DEF RunQuery
  <2> DEFINE aggs == QueryAggregates(j)
             all  == {ComputePolicy(Run(j), a) : a \in aggs}
             out  == {p \in all : IsEligible(p)}
  <2>2. CASE /\ job' = [job EXCEPT ![j] = Rec("write", job[j].no, {a.key : a \in aggs}, out)]
             /\ UNCHANGED notices
    <3>1. \A p \in out : p.run = <<j, job[j].no>>
      BY ComputedIsOwn DEF Run
    <3> HIDE DEF out, aggs
    <3>2. RunTo(j, Rec("write", job[j].no, {a.key : a \in aggs}, out), {})
      BY <2>2 DEF RunTo
    <3> QED
      BY <1>2, <2>1, <3>1, <3>2, RunToKeeps
  <2>3. CASE failRun(j)
    BY <1>5, <2>1, <2>3
  <2> QED
    BY <1>6, <2>2, <2>3, Zenon DEF RunQuery
<1>7. CASE RunWrite(j)
  <2>1. job[j].pc = "write"
    BY <1>7, Zenon DEF RunWrite
  <2>2. ASSUME NEW ps, Take(ps) PROVE stored' = stored \cup {<<p.run, p.key>> : p \in ps}
    BY <2>2, Zenon DEF Take
  <2>3. CASE Take(job[j].out) /\ job' = [job EXCEPT ![j].pc = "model"] /\ UNCHANGED notices
    <3>1. RunTo(j, Rec("model", job[j].no, job[j].aggs, job[j].out), {})
      BY <1>3, <2>3 DEF RunTo
    <3>2. /\ stored \subseteq stored'
          /\ \A p \in job[j].out : <<p.run, p.key>> \in stored'
      BY <2>2, <2>3
    <3> QED
      BY <1>2, <2>1, <3>1, <3>2, RunToKeeps
  <2>4. CASE (\E ps \in SUBSET job[j].out : Take(ps)) /\ failRun(j)
    <3>1. stored \subseteq stored'
      BY <2>2, <2>4
    <3> QED
      BY <1>5, <2>1, <2>4, <3>1
  <2> QED
    BY <1>7, <2>3, <2>4, Zenon DEF RunWrite
<1>8. CASE RunModel(j)
  <2>1. job[j].pc = "model" /\ stored' = stored
    BY <1>8, Zenon DEF RunModel
  <2>2. RunTo(j, Rec("announce", job[j].no, job[j].aggs, job[j].out), {})
    BY <1>3, <1>8 DEF RunTo, RunModel
  <2> QED
    BY <1>2, <2>1, <2>2, RunToKeeps
<1>9. ASSUME job[j].pc \in {"model", "announce", "complete"}
      PROVE  \A k \in EligibleKeys(j) : <<<<j, job[j].no>>, k>> \in stored
  BY <1>2, <1>9 DEF EligibleKeys
<1>10. CASE RunAnnounce(j)
  <2> DEFINE about(subject) == Notice(subject, j, EligibleKeys(j))
  <2>1. job[j].pc = "announce" /\ stored' = stored /\ job' = [job EXCEPT ![j].pc = "complete"]
    BY <1>10, Zenon DEF RunAnnounce
  <2>2. PICK subjects \in SUBSET {"policy.computed", "snapshot.published", "policy.updated"} :
            notices' = notices \cup {about(x) : x \in subjects}
    <3>1. CASE Publish({about("policy.computed"), about("snapshot.published"),
                        about("policy.updated")})
      <4>1. notices' = notices \cup
                {about(x) : x \in {"policy.computed", "snapshot.published", "policy.updated"}}
        BY <3>1 DEF Publish
      <4> QED
        BY <4>1
    <3>2. CASE Publish({about("policy.computed"), about("policy.updated")})
      <4>1. notices' = notices \cup {about(x) : x \in {"policy.computed", "policy.updated"}}
        BY <3>2 DEF Publish
      <4> QED
        BY <4>1
    <3>3. CASE UNCHANGED notices
      <4>1. notices' = notices \cup {about(x) : x \in {}}
        BY <3>3
      <4> QED
        BY <4>1
    <3> QED
      BY <1>10, <3>1, <3>2, <3>3, Zenon DEF RunAnnounce
  <2> DEFINE new == {about(x) : x \in subjects}
  <2>3. \A n \in new :
            /\ n.run = <<j, job[j].no>> /\ n.keys = EligibleKeys(j)
            /\ n.subject \notin {"run.failed", "run.completed"}
    BY DEF Notice, Run
  <2>4. RunTo(j, Rec("complete", job[j].no, job[j].aggs, job[j].out), new)
    BY <1>3, <2>1, <2>2 DEF RunTo
  <2> HIDE DEF new
  <2> QED
    BY <1>2, <1>9, <2>1, <2>3, <2>4, RunToKeeps
<1>11. CASE RunComplete(j)
  <2>1. job[j].pc = "complete" /\ stored' = stored
    BY <1>11, Zenon DEF RunComplete
  <2>2. RunTo(j, Rec("idle", job[j].no, {}, {}),
              {[subject |-> "run.completed", run |-> <<j, job[j].no>>,
                keys |-> EligibleKeys(j)]})
    BY <1>11 DEF RunComplete, End, Publish, Notice, Run, RunTo
  <2>3. \A k \in EligibleKeys(j) : <<<<j, job[j].no>>, k>> \in stored'
    BY <1>9, <2>1
  <2> QED
    BY <1>2, <2>1, <2>2, <2>3, RunToKeeps, SMTT(30)
<1>12. CASE RunCrash(j)
  <2>1. job[j].pc # "idle" /\ stored' = stored
    BY <1>12, Zenon DEF RunCrash
  <2>2. RunTo(j, Rec("idle", job[j].no, {}, {}), {})
    BY <1>12 DEF RunCrash, End, RunTo
  <2> QED
    BY <1>2, <2>1, <2>2, RunToKeeps
<1> QED
  BY <1>4, <1>6, <1>7, <1>8, <1>10, <1>11, <1>12, Zenon DEF RunStep

\* RunsInv holds of the initial states.
LEMMA RunsStart ==
  ASSUME RemediationInit
  PROVE  RunsInv
<1>1. /\ job = [j \in Schedules |-> Idle]
      /\ notices = {}
  BY Zenon DEF RemediationInit, Init, LearnerInit
<1> QED
  BY <1>1 DEF RunsInv, RunsAreNumbered, JobHolds, AnnouncedIsStored, Idle

\* What a policy job announces is true of the store (compute_policy.go, Execute):
\* once policy.computed, snapshot.published, policy.updated or run.completed of a
\* run is out, the store took every policy the run found eligible, and no run is
\* announced both as failed and as completed.  However many runs of however many
\* jobs overlap and wherever they fail or are cut off.
THEOREM AnnouncementsAreTrue == RemediationSpec => []AnnouncedIsStored
<1>1. RemediationInit => RunsInv
  BY RunsStart
<1>2. RunsInv /\ [RemediationNext]_remediationVars => RunsInv'
  <2>1. ASSUME RunsInv, RemediationNext PROVE RunsInv'
    <3>1. ASSUME UNCHANGED runVars PROVE RunsInv'
      BY <2>1, <3>1 DEF runVars, RunsInv, RunsAreNumbered, JobHolds, Run, AnnouncedIsStored
    <3>2. ASSUME Learned \/ KeyExpires PROVE RunsInv'
      <4>1. UNCHANGED <<job, notices>>
        BY <3>2, Zenon DEF Learned, KeyExpires
      <4>2. stored \subseteq stored'
        <5>1. UNCHANGED stored \/ \E ps : Take(ps)
          BY <3>2, Zenon DEF Learned, KeyExpires
        <5> QED
          BY <5>1 DEF Take
      <4> QED
        BY <2>1, <4>1, <4>2 DEF RunsInv, RunsAreNumbered, JobHolds, Run, AnnouncedIsStored
    <3> QED
      BY <2>1, <3>1, <3>2, RunFrame, RunStepKeeps
  <2>2. ASSUME RunsInv, UNCHANGED remediationVars PROVE RunsInv'
    <3>1. UNCHANGED runVars
      BY <2>2, Zenon DEF remediationVars, vars, learnerVars, runVars
    <3> QED
      BY <2>2, <3>1 DEF runVars, RunsInv, RunsAreNumbered, JobHolds, Run, AnnouncedIsStored
  <2> QED
    BY <2>1, <2>2
<1>3. RunsInv => AnnouncedIsStored
  BY DEF RunsInv
<1> QED
  BY <1>1, <1>2, <1>3, PTL DEF RemediationSpec

-----------------------------------------------------------------------------
(* Sums over the sessions: m is the sum of w when, in some order of the    *)
(* sessions, it is the last of the running totals.                         *)

RunningTotal(w, n, e, acc) == acc[0] = 0 /\ \A i \in 1..n : acc[i] = acc[i - 1] + w[e[i]]

SumOver(w, m) ==
    \E n \in Nat : \E e \in Bijection(1..n, Sessions), acc \in [0..n -> Int] :
        RunningTotal(w, n, e, acc) /\ m = acc[n]

\* Nothing adds up to nothing.
LEMMA SumOfNone ==
  ASSUME NEW w \in [Sessions -> Int], \A s \in Sessions : w[s] = 0
  PROVE  SumOver(w, 0)
<1>0. PICK n \in Nat : Bijection(1..n, Sessions) # {}
  <2>1. Cardinality(Sessions) \in Nat /\ ExistsBijection(1..Cardinality(Sessions), Sessions)
    BY RecommenderAssumption, FS_CardinalityType
  <2> QED
    BY <2>1 DEF ExistsBijection
<1>1. PICK e : e \in Bijection(1..n, Sessions)
  BY <1>0
<1>2. \A i \in 1..n : e[i] \in Sessions
  BY <1>1 DEF Bijection, Injection
<1> DEFINE acc == [i \in 0..n |-> 0]
<1>3. acc \in [0..n -> Int] /\ RunningTotal(w, n, e, acc) /\ 0 = acc[n]
  BY <1>1, <1>2 DEF RunningTotal
<1> QED
  BY <1>1, <1>3, Zenon DEF SumOver

\* A change of one summand changes the sum by as much.
LEMMA SumChanges ==
  ASSUME NEW w \in [Sessions -> Int], NEW m, SumOver(w, m), NEW s \in Sessions, NEW v \in Int
  PROVE  SumOver([w EXCEPT ![s] = v], m + (v - w[s]))
<1>0. PICK n \in Nat : \E e \in Bijection(1..n, Sessions), acc \in [0..n -> Int] :
          RunningTotal(w, n, e, acc) /\ m = acc[n]
  BY DEF SumOver
<1>1. PICK e \in Bijection(1..n, Sessions), acc \in [0..n -> Int] :
          RunningTotal(w, n, e, acc) /\ m = acc[n]
  BY <1>0
<1>2. /\ e \in [1..n -> Sessions]
      /\ \A i, j \in 1..n : e[i] = e[j] => i = j
      /\ \E i \in 1..n : e[i] = s
  BY <1>1 DEF Bijection, Injection, Surjection, IsInjective
<1>3. PICK at \in 1..n : e[at] = s
  BY <1>2
<1> DEFINE w2   == [w EXCEPT ![s] = v]
           d    == v - w[s]
           acc2 == [i \in 0..n |-> IF i < at THEN acc[i] ELSE acc[i] + d]
<1>4. d \in Int /\ acc2 \in [0..n -> Int]
  BY <1>1
<1>5. acc2[0] = 0 /\ acc2[n] = m + d
  BY <1>1, <1>3 DEF RunningTotal
<1>6. ASSUME NEW i \in 1..n PROVE acc2[i] = acc2[i - 1] + w2[e[i]]
  <2>1. /\ acc[i] = acc[i - 1] + w[e[i]] /\ acc[i] \in Int /\ acc[i - 1] \in Int
        /\ w[e[i]] \in Int /\ i - 1 \in 0..n /\ i \in 0..n
    BY <1>1, <1>2 DEF RunningTotal
  <2>2. CASE i = at
    <3>1. w2[e[i]] = v /\ w[e[i]] = w[s]
      BY <1>3, <2>2
    <3>2. acc2[i] = acc[i] + d /\ acc2[i - 1] = acc[i - 1]
      BY <2>1, <2>2
    <3> QED
      BY <2>1, <3>1, <3>2
  <2>3. CASE i # at
    <3>1. w2[e[i]] = w[e[i]]
      BY <1>2, <1>3, <2>3
    <3>2. (i < at) <=> (i - 1 < at)
      BY <1>3, <2>3
    <3>3. CASE i < at
      <4>1. acc2[i] = acc[i] /\ acc2[i - 1] = acc[i - 1]
        BY <2>1, <3>2, <3>3
      <4> QED
        BY <2>1, <3>1, <4>1
    <3>4. CASE ~(i < at)
      <4>1. acc2[i] = acc[i] + d /\ acc2[i - 1] = acc[i - 1] + d
        BY <2>1, <3>2, <3>4
      <4> HIDE DEF d, acc2
      <4> QED
        BY <1>4, <2>1, <3>1, <4>1, SMTT(30)
    <3> QED
      BY <3>3, <3>4
  <2> QED
    BY <2>2, <2>3
<1> HIDE DEF acc2, w2
<1>7. RunningTotal(w2, n, e, acc2) /\ m + d = acc2[n]
  BY <1>5, <1>6 DEF RunningTotal
<1>8. SumOver(w2, m + d)
  BY <1>1, <1>4, <1>7, Zenon DEF SumOver
<1> QED
  BY <1>8 DEF w2

\* The sum of natural numbers is one: there is no first negative total.
LEMMA SumOfNats ==
  ASSUME NEW w \in [Sessions -> Nat], NEW m, SumOver(w, m)
  PROVE  m \in Nat
<1>0. PICK n \in Nat : \E e \in Bijection(1..n, Sessions), acc \in [0..n -> Int] :
          RunningTotal(w, n, e, acc) /\ m = acc[n]
  BY DEF SumOver
<1>1. PICK e \in Bijection(1..n, Sessions), acc \in [0..n -> Int] :
          RunningTotal(w, n, e, acc) /\ m = acc[n]
  BY <1>0
<1>2. e \in [1..n -> Sessions]
  BY <1>1 DEF Bijection, Injection
<1> DEFINE T == {i \in 0..n : acc[i] < 0}
           R == OpToRel(<, Nat)
<1>3. SUFFICES ASSUME T # {} PROVE FALSE
  <2>1. n \in 0..n /\ acc[n] \in Int /\ n \notin T => ~(acc[n] < 0)
    OBVIOUS
  <2> QED
    BY <1>1, <2>1
<1>4. \A x, y \in Nat : x < y => <<x, y>> \in R
  BY DEF OpToRel
<1>5. IsWellFoundedOn(R, Nat)
  BY NatLessThanWellFounded, Zenon
<1>6. T \subseteq Nat
  OBVIOUS
<1> HIDE DEF R
<1>7. PICK x \in T : \A y \in T : <<y, x>> \notin R
  <2> HIDE DEF T
  <2> QED
    BY <1>3, <1>5, <1>6, WFMin
<1>8. x \in 1..n
  BY <1>1, <1>7 DEF RunningTotal
<1>9. x - 1 \notin T
  <2>1. x \in Nat /\ x - 1 \in Nat /\ x - 1 < x
    BY <1>8
  <2>2. <<x - 1, x>> \in R
    BY <1>4, <2>1
  <2> HIDE DEF T
  <2> QED
    BY <1>7, <2>2
<1>10. acc[x] = acc[x - 1] + w[e[x]] /\ w[e[x]] \in Nat /\ acc[x - 1] \in Int
  BY <1>1, <1>2, <1>8 DEF RunningTotal
<1> QED
  BY <1>7, <1>8, <1>9, <1>10

-----------------------------------------------------------------------------
(* The online bandit. *)

\* What an invocation that is being recorded may still add to the arm of k.
Weight(e, k) == IF e # None /\ CarriesReward(e) /\ <<e.sig, e.tool>> = k THEN e.n ELSE 0

Pending(k) == [s \in Sessions |-> Weight(ending[s], k)]

\* The updates the arm of k has had; a context without an instance had none.
Updates(k) == IF bandit[k[1]] = None THEN 0 ELSE bandit[k[1]][k[2]]

EndingHolds(e) ==
    e # None =>
        /\ e = [pc |-> e.pc, tool |-> e.tool, sig |-> e.sig, status |-> e.status, n |-> e.n]
        /\ e.n \in Nat

BanditTypes ==
    /\ config \in Configs
    /\ executed \in [Keys -> Nat]
    /\ bandit \in [Sigs -> [Tools -> Nat] \cup {None}]
    /\ DOMAIN ending = Sessions
    /\ \A s \in Sessions : EndingHolds(ending[s])

\* What the bandit was told and may still be told of an arm ran.
BanditInv ==
    /\ BanditTypes
    /\ \A k \in Keys : \E m \in Int : SumOver(Pending(k), m) /\ Updates(k) + m <= executed[k]

\* What a step may do with the bandit and the invocations that are recorded.
banditVars == <<config, bandit, ending, executed>>

BanditStep ==
    \/ UNCHANGED banditVars
    \/ \E s, t, status : \E n \in Nat : InvocationEnds(s, t, status, n)
    \/ \E s \in Sessions : recordTelemetry(s) \/ updateOnlineBandit(s)
    \/ /\ \E scorer, sig : bandit' = GetScorer(scorer, sig)
       /\ UNCHANGED <<config, ending, executed>>
    \/ Restart

\* Every step does one of these.
LEMMA BanditFrame ==
  ASSUME RemediationNext, config \in Configs
  PROVE  BanditStep
<1>1. config.sessions \subseteq Sessions
  BY RecommenderAssumption
<1>2. ASSUME UNCHANGED vars PROVE UNCHANGED banditVars
  BY <1>2, Zenon DEF vars, runtimeVars, banditVars
<1>3. ASSUME NEW s, Recommend(s) PROVE BanditStep
  <2>1. CASE RecommendTools(s) \/ RecommendPolicies(s) \/ RecommendModel(s)
    <3>1. UNCHANGED banditVars
      BY <2>1, Zenon DEF RecommendTools, RecommendPolicies, RecommendModel, banditVars
    <3> QED
      BY <3>1, Zenon DEF BanditStep
  <2>2. ASSUME NEW k, NEW hint, NEW draw, RecommendAnswer(s, k, hint, draw) PROVE BanditStep
    <3>1. /\ bandit' = GetScorer(SelectScorerFull(asking[s].policies, asking[s].model, TRUE),
                                 asking[s].sig)
          /\ UNCHANGED <<config, ending, executed>>
      BY <2>2, Zenon DEF RecommendAnswer
    <3> QED
      BY <3>1, Zenon DEF BanditStep
  <2> QED
    BY <1>3, <2>1, <2>2, Zenon DEF Recommend
<1>4. ASSUME NEW s, Prewarmed(s) \/ SessionCloses(s) \/ WorkspaceChanges(s)
      PROVE  UNCHANGED banditVars
  BY <1>4, Zenon DEF Prewarmed, SessionCloses, WorkspaceChanges, banditVars
<1>5. ASSUME NEW s, NEW kind, NEW rec, Feedback(s, kind, rec) PROVE UNCHANGED banditVars
  BY <1>5, Zenon DEF Feedback, banditVars
<1>6. CASE LearnerStep \/ aggregate \/ DecisionExpires
  BY <1>6, Zenon DEF LearnerStep, aggregate, DecisionExpires, banditVars, BanditStep
<1>7. ASSUME NEW s \in config.sessions, recordTelemetry(s) \/ updateOnlineBandit(s)
      PROVE  BanditStep
  BY <1>1, <1>7 DEF BanditStep
<1>8. ASSUME NEW s \in config.sessions, ServiceStep(s) PROVE BanditStep
  <2>1. ASSUME NEW t, NEW status, NEW n \in Batches, InvocationEnds(s, t, status, n)
        PROVE  BanditStep
    <3>1. n \in Nat
      BY <2>1, LearningAssumption
    <3> QED
      BY <2>1, <3>1, Zenon DEF BanditStep
  <2>2. UNCHANGED banditVars => BanditStep
    BY Zenon DEF BanditStep
  <2> QED
    BY <1>3, <1>4, <1>5, <1>7, <1>8, <2>1, <2>2, Zenon DEF ServiceStep
<1>9. CASE Next
  BY <1>6, <1>8, <1>9, Zenon DEF Next, BanditStep
<1>10. CASE AgentStep
  <2>1. UNCHANGED banditVars => BanditStep
    BY Zenon DEF BanditStep
  <2>2. CASE \E a \in Alerts : HandleAlert(a)
    BY <1>2, <2>1, <2>2, Zenon DEF HandleAlert
  <2>3. ASSUME NEW s, CreateSession(s) PROVE UNCHANGED banditVars
    BY <2>3, Zenon DEF CreateSession, banditVars
  <2>4. CASE CreateFails \/ RecommendFails \/ InvokeAnswered
    BY <1>2, <2>1, <2>4, Zenon DEF CreateFails, RecommendFails, InvokeAnswered
  <2>5. CASE RecommendCall
    BY <1>3, <2>5, Zenon DEF RecommendCall
  <2>6. CASE InvokeTool
    <3>1. 1 \in Nat
      OBVIOUS
    <3> QED
      BY <1>2, <2>1, <2>6, <3>1, Zenon DEF InvokeTool, BanditStep
  <2>7. CASE ReportFeedback
    BY <1>2, <1>5, <2>1, <2>7, Zenon DEF ReportFeedback
  <2>8. CASE CloseSession \/ AgentRestart
    <3>1. UNCHANGED banditVars
      BY <2>8, Zenon DEF CloseSession, AgentRestart, banditVars
    <3> QED
      BY <2>1, <3>1
  <2> QED
    BY <1>3, <1>4, <1>7, <1>10, <2>1, <2>2, <2>3, <2>4, <2>5, <2>6, <2>7, <2>8, Zenon
    DEF AgentStep
<1> QED
  BY <1>9, <1>10, Zenon DEF RemediationNext

\* A weight is a number of invocations.
LEMMA WeightIsNat ==
  ASSUME NEW e, EndingHolds(e), NEW k
  PROVE  Weight(e, k) \in Nat
  BY DEF EndingHolds, Weight

\* And so is what is pending of each session.
LEMMA PendingIsNat ==
  ASSUME BanditTypes, NEW k
  PROVE  Pending(k) \in [Sessions -> Nat]
  BY WeightIsNat DEF Pending, BanditTypes

\* One session's invocation goes on to e: what is pending changes by the weights.
LEMMA PendingChanges ==
  ASSUME BanditTypes, NEW k, NEW m, SumOver(Pending(k), m), NEW s \in Sessions,
         NEW e, EndingHolds(e), ending' = [ending EXCEPT ![s] = e]
  PROVE  SumOver(Pending(k)', m + (Weight(e, k) - Weight(ending[s], k)))
<1>1. Pending(k)' = [Pending(k) EXCEPT ![s] = Weight(e, k)]
  <2>1. DOMAIN ending = Sessions
    BY DEF BanditTypes
  <2>2. ASSUME NEW i \in Sessions
        PROVE  Weight(ending'[i], k) = IF i = s THEN Weight(e, k) ELSE Weight(ending[i], k)
    BY <2>1
  <2>3. Pending(k)' = [i \in Sessions |-> Weight(ending'[i], k)]
    BY Zenon DEF Pending, Weight, CarriesReward
  <2>4. Pending(k) = [i \in Sessions |-> Weight(ending[i], k)]
    BY Zenon DEF Pending
  <2> QED
    BY <2>2, <2>3, <2>4
<1>2. Weight(e, k) \in Nat /\ Pending(k) \in [Sessions -> Nat]
      /\ Pending(k)[s] = Weight(ending[s], k)
  BY WeightIsNat, PendingIsNat DEF Pending
<1> QED
  <2>1. Pending(k) \in [Sessions -> Int] /\ Weight(e, k) \in Int
    BY <1>2
  <2>2. SumOver([Pending(k) EXCEPT ![s] = Weight(e, k)], m + (Weight(e, k) - Pending(k)[s]))
    BY <2>1, SumChanges, Zenon
  <2> QED
    BY <1>1, <1>2, <2>2, Zenon

\* How the invariant is kept: the types are, and for each arm the updates, the sum of what is
\* pending and what ran move together.
LEMMA BanditMoves ==
  ASSUME BanditInv, BanditTypes', NEW d \in [Keys -> Int],
         \A k \in Keys, m \in Int : SumOver(Pending(k), m) => SumOver(Pending(k)', m + d[k]),
         \A k \in Keys, m \in Int :
             Updates(k) + m <= executed[k] => Updates(k)' + (m + d[k]) <= executed'[k]
  PROVE  BanditInv'
<1>1. ASSUME NEW k \in Keys
      PROVE  \E m \in Int : SumOver(Pending(k)', m) /\ Updates(k)' + m <= executed'[k]
  <2>1. PICK m \in Int : SumOver(Pending(k), m) /\ Updates(k) + m <= executed[k]
    BY DEF BanditInv
  <2>2. SumOver(Pending(k)', m + d[k]) /\ Updates(k)' + (m + d[k]) <= executed'[k]
    BY <2>1
  <2>3. m + d[k] \in Int
    OBVIOUS
  <2> QED
    BY <2>2, <2>3, Zenon
<1>2. \A k \in Keys : \E m \in Int : SumOver(Pending(k)', m) /\ Updates(k)' + m <= executed'[k]
  BY <1>1
<1> QED
  BY <1>2, Zenon DEF BanditInv, SumOver, RunningTotal

\* An invocation ends: what ran grows by what may still be told of it.
LEMMA EndsKeeps ==
  ASSUME BanditInv, NEW s, NEW t, NEW status, NEW n \in Nat, InvocationEnds(s, t, status, n)
  PROVE  BanditInv'
<1> DEFINE sig == DeriveContextSignature(s)
           e == [pc |-> "record", tool |-> t, sig |-> sig, status |-> status, n |-> n]
<1>1. BanditTypes
  BY DEF BanditInv
<1>2. /\ ending[s] = None
      /\ ending' = [ending EXCEPT ![s] = e]
      /\ \/ executed' = [executed EXCEPT ![<<sig, t>>] = @ + n]
         \/ status = "denied" /\ executed' = executed
      /\ config' = config /\ bandit' = bandit
  BY Zenon DEF InvocationEnds
<1>3. EndingHolds(e)
  BY DEF EndingHolds
<1>4. /\ Weight(ending[s], <<sig, t>>) = 0
      /\ \A k : Weight(ending[s], k) = 0
      /\ \A k : Weight(e, k) = IF e # None /\ status \in {"succeeded", "failed"} /\ <<sig, t>> = k
                               THEN n ELSE 0
  BY <1>2 DEF Weight, CarriesReward
<1>5. /\ executed' \in [Keys -> Nat]
      /\ \A k \in Keys : \/ executed'[k] = executed[k] /\ (status = "denied" \/ <<sig, t>> # k)
                         \/ executed'[k] = executed[k] + n /\ <<sig, t>> = k
  <2> HIDE DEF sig
  <2>1. executed \in [Keys -> Nat]
    BY <1>1 DEF BanditTypes
  <2>2. PICK key : key = <<sig, t>>
    OBVIOUS
  <2>3. CASE status = "denied" /\ executed' = executed
    BY <2>1, <2>3
  <2>4. CASE executed' = [executed EXCEPT ![key] = @ + n]
    <3>2. /\ executed' \in [Keys -> Nat]
          /\ \A k \in Keys : executed'[k] = IF key = k THEN executed[k] + n ELSE executed[k]
      <4>1. CASE key \in Keys
        <5>1. executed' = [executed EXCEPT ![key] = executed[key] + n] /\ executed[key] \in Nat
          BY <2>1, <2>4, <4>1
        <5> QED
          BY <2>1, <4>1, <5>1
      <4>2. CASE key \notin Keys
        <5>1. executed' = executed
          BY <2>1, <2>4, <4>2
        <5> QED
          BY <2>1, <4>2, <5>1
      <4> QED
        BY <4>1, <4>2
    <3> QED
      BY <2>2, <3>2
  <2> QED
    BY <1>2, <2>2, <2>3, <2>4
<1> HIDE DEF e, sig
<1>6. BanditTypes'
  <2>1. DOMAIN ending' = Sessions /\ \A i \in Sessions : EndingHolds(ending'[i])
    BY <1>1, <1>2, <1>3 DEF BanditTypes
  <2>2. \A i \in Sessions : EndingHolds(ending[i])'
    BY <2>1 DEF EndingHolds
  <2> QED
    BY <1>1, <1>2, <1>5, <2>1, <2>2 DEF BanditTypes
<1>7. \A k \in Keys : Updates(k)' = Updates(k)
  BY <1>2 DEF Updates
<1>8. \A k \in Keys : Updates(k) \in Nat /\ executed[k] \in Nat
  BY <1>1 DEF BanditTypes, Updates, Keys
<1>9. CASE s \in Sessions
  <2> DEFINE d == [k \in Keys |-> Weight(e, k)]
  <2>1. d \in [Keys -> Int]
    BY <1>3, WeightIsNat
  <2>2. ASSUME NEW k \in Keys, NEW m \in Int, SumOver(Pending(k), m)
        PROVE  SumOver(Pending(k)', m + d[k])
    <3>1. SumOver(Pending(k)', m + (Weight(e, k) - Weight(ending[s], k)))
      BY <1>1, <1>2, <1>3, <1>9, <2>2, PendingChanges, Zenon
    <3>2. Weight(e, k) - Weight(ending[s], k) = d[k]
      BY <1>3, <1>4, WeightIsNat
    <3> QED
      BY <3>1, <3>2, Zenon
  <2>3. ASSUME NEW k \in Keys, NEW m \in Int, Updates(k) + m <= executed[k]
        PROVE  Updates(k)' + (m + d[k]) <= executed'[k]
    <3>1. Updates(k) \in Nat /\ executed[k] \in Nat /\ d[k] = Weight(e, k)
      BY <1>8
    <3> HIDE DEF d
    <3>2. \/ d[k] = 0 /\ executed'[k] = executed[k]
          \/ d[k] = 0 /\ executed'[k] = executed[k] + n
          \/ d[k] = n /\ executed'[k] = executed[k] + n
      <4>1. CASE executed'[k] = executed[k] + n
        <5>1. d[k] = 0 \/ d[k] = n
          BY <1>4, <3>1
        <5> QED
          BY <4>1, <5>1
      <4>2. CASE executed'[k] = executed[k] /\ (status = "denied" \/ <<sig, t>> # k)
        <5>1. ~(status \in {"succeeded", "failed"} /\ <<sig, t>> = k)
          BY <4>2
        <5>2. d[k] = 0
          BY <1>4, <3>1, <5>1
        <5> QED
          BY <4>2, <5>2
      <4> QED
        BY <1>5, <4>1, <4>2
    <3> QED
      BY <1>7, <2>3, <3>1, <3>2
  <2> HIDE DEF d
  <2> QED
    BY <1>6, <2>1, <2>2, <2>3, BanditMoves
<1>10. CASE s \notin Sessions
  <2>1. \A i \in Sessions : ending'[i] = ending[i]
    BY <1>1, <1>2, <1>10 DEF BanditTypes
  <2> DEFINE d == [k \in Keys |-> 0]
  <2>2. ASSUME NEW k \in Keys PROVE Pending(k)' = Pending(k)
    BY <2>1 DEF Pending, Weight, CarriesReward
  <2>3. ASSUME NEW k \in Keys, NEW m \in Int, SumOver(Pending(k), m)
        PROVE  SumOver(Pending(k)', m + d[k])
    <3>1. m + d[k] = m
      OBVIOUS
    <3> QED
      BY <2>2, <2>3, <3>1, Zenon
  <2>4. ASSUME NEW k \in Keys, NEW m \in Int, Updates(k) + m <= executed[k]
        PROVE  Updates(k)' + (m + d[k]) <= executed'[k]
    <3>1. m + d[k] = m /\ Updates(k) \in Nat /\ executed[k] \in Nat
      BY <1>8
    <3>2. executed'[k] \in Nat /\ executed[k] <= executed'[k]
      BY <1>5, <3>1
    <3> HIDE DEF d
    <3> QED
      BY <1>7, <2>4, <3>1, <3>2
  <2>5. d \in [Keys -> Int]
    OBVIOUS
  <2> HIDE DEF d
  <2> QED
    BY <1>6, <2>3, <2>4, <2>5, BanditMoves
<1> QED
  BY <1>9, <1>10

\* The record is written: the invocation stays what it was.
LEMMA RecordKeeps ==
  ASSUME BanditInv, NEW s \in Sessions, recordTelemetry(s)
  PROVE  BanditInv'
<1> DEFINE e == ending[s]
           f == [e EXCEPT !.pc = "bandit"]
<1>1. BanditTypes
  BY DEF BanditInv
<1>2. /\ e # None
      /\ ending' = [ending EXCEPT ![s].pc = "bandit"]
      /\ UNCHANGED <<config, bandit, executed>>
  BY Zenon DEF recordTelemetry
<1>3. ending' = [ending EXCEPT ![s] = f]
  BY <1>2
<1>4. EndingHolds(e)
  BY <1>1 DEF BanditTypes
<1>5. /\ f = [pc |-> "bandit", tool |-> e.tool, sig |-> e.sig, status |-> e.status, n |-> e.n]
      /\ e.n \in Nat
  BY <1>2, <1>4 DEF EndingHolds
<1> HIDE DEF e, f
<1>6. EndingHolds(f)
  BY <1>5 DEF EndingHolds
<1>7. ASSUME NEW k PROVE Weight(f, k) = 0 \/ Weight(f, k) = Weight(e, k)
  BY <1>2, <1>5 DEF Weight, CarriesReward
<1>8. BanditTypes'
  <2>1. DOMAIN ending' = Sessions /\ \A i \in Sessions : EndingHolds(ending'[i])
    BY <1>1, <1>3, <1>6 DEF BanditTypes
  <2>2. \A i \in Sessions : EndingHolds(ending[i])'
    BY <2>1 DEF EndingHolds
  <2> QED
    BY <1>1, <1>2, <2>1, <2>2 DEF BanditTypes
<1> DEFINE d == [k \in Keys |-> Weight(f, k) - Weight(e, k)]
<1>9. ASSUME NEW k \in Keys PROVE d[k] \in Int /\ d[k] <= 0 /\ d[k] = Weight(f, k) - Weight(e, k)
  <2>1. Weight(f, k) \in Nat /\ Weight(e, k) \in Nat
    BY <1>4, <1>6, WeightIsNat
  <2> QED
    BY <1>7, <2>1
<1>10. d \in [Keys -> Int]
  BY <1>9
<1>11. ASSUME NEW k \in Keys, NEW m \in Int, SumOver(Pending(k), m)
       PROVE  SumOver(Pending(k)', m + d[k])
  <2>1. SumOver(Pending(k)', m + (Weight(f, k) - Weight(ending[s], k)))
    BY <1>1, <1>3, <1>6, <1>11, PendingChanges, Zenon
  <2> QED
    BY <1>9, <2>1, Zenon DEF e
<1> HIDE DEF d
<1>12. ASSUME NEW k \in Keys, NEW m \in Int, Updates(k) + m <= executed[k]
       PROVE  Updates(k)' + (m + d[k]) <= executed'[k]
  <2>1. Updates(k)' = Updates(k) /\ executed'[k] = executed[k]
    BY <1>2 DEF Updates
  <2>2. Updates(k) \in Nat /\ executed[k] \in Nat
    BY <1>1 DEF BanditTypes, Updates, Keys
  <2> QED
    BY <1>9, <1>12, <2>1, <2>2
<1> QED
  BY <1>8, <1>10, <1>11, <1>12, BanditMoves

\* The bandit is told of an invocation, or is not: it is not pending any more.
LEMMA TellKeeps ==
  ASSUME BanditInv, NEW s \in Sessions, updateOnlineBandit(s)
  PROVE  BanditInv'
<1> DEFINE e == ending[s]
<1>1. BanditTypes
  BY DEF BanditInv
<1>2. /\ e # None
      /\ ending' = [ending EXCEPT ![s] = None]
      /\ UNCHANGED <<config, executed>>
      /\ \/ /\ CarriesReward(e) /\ bandit[e.sig] # None
            /\ bandit' = [bandit EXCEPT ![e.sig][e.tool] = bandit[e.sig][e.tool] + e.n]
         \/ bandit' = bandit
  BY Zenon DEF updateOnlineBandit
<1>3. EndingHolds(e) /\ EndingHolds(None) /\ e.n \in Nat
  BY <1>1, <1>2 DEF BanditTypes, EndingHolds
<1>4. bandit \in [Sigs -> [Tools -> Nat] \cup {None}]
  BY <1>1 DEF BanditTypes
<1> HIDE DEF e
<1>5. ASSUME NEW g \in Sigs
      PROVE  /\ bandit'[g] \in [Tools -> Nat] \cup {None}
             /\ \A t \in Tools :
                   Updates(<<g, t>>)' <= Updates(<<g, t>>) + Weight(e, <<g, t>>)
  <2>1. ASSUME NEW t \in Tools PROVE Updates(<<g, t>>) \in Nat /\ Weight(e, <<g, t>>) \in Nat
    BY <1>3, <1>4, WeightIsNat DEF Updates
  <2>2. CASE bandit'[g] = bandit[g]
    <3>1. \A t \in Tools : Updates(<<g, t>>)' = Updates(<<g, t>>)
      BY <2>2 DEF Updates
    <3>2. ASSUME NEW t \in Tools
          PROVE  Updates(<<g, t>>)' <= Updates(<<g, t>>) + Weight(e, <<g, t>>)
      BY <2>1, <3>1
    <3> QED
      BY <1>4, <2>2, <3>2
  <2>3. CASE bandit'[g] # bandit[g]
    <3>1. /\ CarriesReward(e) /\ bandit[e.sig] # None
          /\ bandit' = [bandit EXCEPT ![e.sig][e.tool] = bandit[e.sig][e.tool] + e.n]
      BY <1>2, <2>3
    <3>2. g = e.sig /\ bandit[g] \in [Tools -> Nat]
          /\ bandit'[g] = [bandit[g] EXCEPT ![e.tool] = bandit[g][e.tool] + e.n]
      BY <1>4, <2>3, <3>1
    <3>3. bandit'[g] \in [Tools -> Nat]
      <4>1. PICK b \in [Tools -> Nat] : b = bandit[g]
        BY <3>2
      <4>2. e.tool \in Tools => b[e.tool] + e.n \in Nat
        BY <1>3, <4>1
      <4>3. \A v, u : (u \in Tools => v \in Nat) => [b EXCEPT ![u] = v] \in [Tools -> Nat]
        BY <4>1
      <4>4. bandit'[g] = [b EXCEPT ![e.tool] = b[e.tool] + e.n]
        BY <3>2, <4>1
      <4> QED
        BY <4>2, <4>3, <4>4, Zenon
    <3>4. ASSUME NEW t \in Tools
          PROVE  Updates(<<g, t>>)' <= Updates(<<g, t>>) + Weight(e, <<g, t>>)
      <4>1. bandit[g][t] \in Nat /\ bandit'[g][t] \in Nat /\ Updates(<<g, t>>) = bandit[g][t]
        BY <3>1, <3>2, <3>3 DEF Updates
      <4>2. Updates(<<g, t>>)' <= bandit'[g][t]
        BY <4>1 DEF Updates
      <4>3. CASE t = e.tool
        <5>1. bandit'[g][t] = bandit[g][t] + e.n
          BY <3>2, <4>3
        <5>2. Weight(e, <<g, t>>) = e.n
          BY <1>2, <3>1, <3>2, <4>3 DEF Weight
        <5> QED
          BY <4>1, <4>2, <5>1, <5>2
      <4>4. CASE t # e.tool
        <5>1. bandit'[g][t] = bandit[g][t]
          BY <3>2, <4>4
        <5>2. Updates(<<g, t>>)' = 0 \/ Updates(<<g, t>>)' = bandit'[g][t]
          BY DEF Updates
        <5> QED
          BY <2>1, <4>1, <5>1, <5>2
      <4> QED
        BY <4>3, <4>4
    <3> QED
      BY <3>3, <3>4
  <2> QED
    BY <2>2, <2>3
<1>6. BanditTypes'
  <2>1. DOMAIN ending' = Sessions /\ \A i \in Sessions : EndingHolds(ending'[i])
    BY <1>1, <1>2, <1>3 DEF BanditTypes
  <2>2. \A i \in Sessions : EndingHolds(ending[i])'
    BY <2>1 DEF EndingHolds
  <2>3. bandit' \in [Sigs -> [Tools -> Nat] \cup {None}]
    <3>1. DOMAIN bandit' = Sigs /\ bandit' = [g \in Sigs |-> bandit'[g]]
      BY <1>2, <1>4
    <3> QED
      BY <1>5, <3>1
  <2> QED
    BY <1>1, <1>2, <2>1, <2>2, <2>3 DEF BanditTypes
<1> DEFINE d == [k \in Keys |-> 0 - Weight(e, k)]
<1>7. ASSUME NEW k \in Keys PROVE d[k] \in Int /\ d[k] = 0 - Weight(e, k) /\ Weight(e, k) \in Nat
  BY <1>3, WeightIsNat
<1>8. d \in [Keys -> Int]
  BY <1>7
<1> HIDE DEF d
<1>9. ASSUME NEW k \in Keys, NEW m \in Int, SumOver(Pending(k), m)
      PROVE  SumOver(Pending(k)', m + d[k])
  <2>1. SumOver(Pending(k)', m + (Weight(None, k) - Weight(ending[s], k)))
    BY <1>1, <1>2, <1>3, <1>9, PendingChanges, Zenon
  <2>2. Weight(None, k) = 0
    BY DEF Weight
  <2> QED
    BY <1>7, <2>1, <2>2, Zenon DEF e
<1>10. ASSUME NEW k \in Keys, NEW m \in Int, Updates(k) + m <= executed[k]
       PROVE  Updates(k)' + (m + d[k]) <= executed'[k]
  <2>1. PICK g \in Sigs, t \in Tools : k = <<g, t>>
    BY DEF Keys
  <2>2. Updates(k)' <= Updates(k) + Weight(e, k)
    BY <1>5, <2>1
  <2>3. Updates(k) \in Nat /\ executed[k] \in Nat /\ executed'[k] = executed[k]
    BY <1>1, <1>2 DEF BanditTypes, Updates, Keys
  <2>4. Updates(k)' \in Nat
    BY <1>6, <2>1 DEF BanditTypes, Updates
  <2> QED
    BY <1>7, <1>10, <2>2, <2>3, <2>4
<1> QED
  BY <1>6, <1>8, <1>9, <1>10, BanditMoves

\* A recommendation may make the instance of a context, with no update in it.
LEMMA ScorerKeeps ==
  ASSUME BanditInv, NEW scorer, NEW sig, bandit' = GetScorer(scorer, sig),
         UNCHANGED <<config, ending, executed>>
  PROVE  BanditInv'
<1>1. BanditTypes
  BY DEF BanditInv
<1>2. bandit \in [Sigs -> [Tools -> Nat] \cup {None}]
  BY <1>1 DEF BanditTypes
<1>3. ASSUME NEW g \in Sigs
      PROVE  bandit'[g] = bandit[g] \/ (bandit[g] = None /\ bandit'[g] = [t \in Tools |-> 0])
  BY <1>2 DEF GetScorer
<1>4. bandit' \in [Sigs -> [Tools -> Nat] \cup {None}]
  <2>1. [t \in Tools |-> 0] \in [Tools -> Nat]
    OBVIOUS
  <2>2. DOMAIN bandit' = Sigs /\ bandit' = [g \in Sigs |-> bandit'[g]]
    BY <1>2 DEF GetScorer
  <2>3. \A g \in Sigs : bandit'[g] \in [Tools -> Nat] \cup {None}
    BY <1>2, <1>3, <2>1
  <2> QED
    BY <2>2, <2>3
<1>5. BanditTypes'
  BY <1>1, <1>4 DEF BanditTypes, EndingHolds
<1>6. ASSUME NEW k \in Keys
      PROVE  Updates(k)' = Updates(k) /\ Pending(k)' = Pending(k) /\ executed'[k] = executed[k]
  <2>1. PICK g \in Sigs, t \in Tools : k = <<g, t>>
    BY DEF Keys
  <2>2. Updates(k)' = Updates(k)
    BY <1>3, <2>1 DEF Updates
  <2>3. Pending(k)' = Pending(k)
    BY DEF Pending, Weight, CarriesReward
  <2> QED
    BY <2>2, <2>3
<1> DEFINE d == [k \in Keys |-> 0]
<1>7. d \in [Keys -> Int] /\ \A k \in Keys, m \in Int : m + d[k] = m
  OBVIOUS
<1> HIDE DEF d
<1> QED
  BY <1>5, <1>6, <1>7, BanditMoves

\* Where no arm has an update and nothing is pending, as at the start and after a restart.
BanditFresh ==
    /\ BanditTypes
    /\ \A g \in Sigs : bandit[g] = None
    /\ \A s \in Sessions : ending[s] = None

\* The invariant of the policy computer holds before its first run.
LEMMA BanditAfresh == BanditFresh => BanditInv
<1> SUFFICES ASSUME BanditFresh PROVE BanditInv
  OBVIOUS
<1> USE DEF BanditFresh
<1>1. ASSUME NEW k \in Keys PROVE SumOver(Pending(k), 0) /\ Updates(k) + 0 <= executed[k]
  <2>1. Pending(k) \in [Sessions -> Int] /\ \A s \in Sessions : Pending(k)[s] = 0
    BY DEF Pending, Weight
  <2>2. SumOver(Pending(k), 0)
    BY <2>1, SumOfNone
  <2>3. Updates(k) = 0 /\ executed[k] \in Nat
    BY DEF Updates, Keys, BanditTypes
  <2> QED
    BY <2>2, <2>3
<1>2. \A k \in Keys : \E m \in Int : SumOver(Pending(k), m) /\ Updates(k) + m <= executed[k]
  <2>1. 0 \in Int
    OBVIOUS
  <2> QED
    BY <1>1, <2>1, Zenon
<1> QED
  BY <1>2 DEF BanditInv

\* The online bandit learns from executions only (service.go, updateOnlineBandit):
\* the updates of an arm never exceed the invocations of its tool that ran in its
\* context.  For any number of sessions whose invocations are recorded and told
\* to the bandit in any order, and whatever was denied, restarted or recommended.
THEOREM BanditLearns == RemediationSpec => []BanditLearnsFromRuns
<1>1. RemediationInit => BanditInv
  <2> SUFFICES ASSUME RemediationInit PROVE BanditInv
    OBVIOUS
  <2>1. /\ config \in Configs /\ executed = [k \in Keys |-> 0]
        /\ bandit = [g \in Sigs |-> None] /\ ending = [s \in Sessions |-> None]
    BY Zenon DEF RemediationInit, Init
  <2>2. BanditTypes
    BY <2>1 DEF BanditTypes, EndingHolds
  <2> QED
    BY <2>1, <2>2, BanditAfresh DEF BanditFresh
<1>2. BanditInv /\ [RemediationNext]_remediationVars => BanditInv'
  <2>1. ASSUME BanditInv, UNCHANGED banditVars PROVE BanditInv'
    <3>1. /\ UNCHANGED <<config, executed>> /\ bandit' = bandit /\ ending' = ending
      BY <2>1 DEF banditVars
    <3>2. BanditTypes' /\ \A k \in Keys : Updates(k)' = Updates(k) /\ Pending(k)' = Pending(k)
      BY <2>1, <3>1
      DEF BanditInv, BanditTypes, EndingHolds, Updates, Pending, Weight, CarriesReward
    <3> DEFINE d == [k \in Keys |-> 0]
    <3>3. d \in [Keys -> Int] /\ \A k \in Keys, m \in Int : m + d[k] = m
      OBVIOUS
    <3> HIDE DEF d
    <3> QED
      BY <2>1, <3>1, <3>2, <3>3, BanditMoves
  <2>2. ASSUME BanditInv, Restart PROVE BanditInv'
    <3>1. /\ bandit' = [g \in Sigs |-> None] /\ ending' = [s \in Sessions |-> None]
          /\ UNCHANGED <<config, executed>>
      BY <2>2, Zenon DEF Restart
    <3>2. BanditTypes'
      BY <2>2, <3>1 DEF BanditInv, BanditTypes, EndingHolds
    <3>3. /\ \A g \in Sigs : bandit'[g] = None
          /\ \A s \in Sessions : ending'[s] = None
      BY <3>1
    <3>4. BanditFresh'
      BY <3>2, <3>3 DEF BanditFresh
    <3> QED
      BY <3>4, BanditAfresh, PTL
  <2>3. ASSUME BanditInv, RemediationNext PROVE BanditInv'
    <3>1. BanditStep
      BY <2>3, BanditFrame DEF BanditInv, BanditTypes
    <3> QED
      BY <2>1, <2>2, <2>3, <3>1, EndsKeeps, RecordKeeps, TellKeeps, ScorerKeeps DEF BanditStep
  <2>4. ASSUME BanditInv, UNCHANGED remediationVars PROVE BanditInv'
    <3>1. UNCHANGED banditVars
      BY <2>4, Zenon DEF remediationVars, vars, runtimeVars, banditVars
    <3> QED
      BY <2>1, <2>4, <3>1
  <2> QED
    BY <2>3, <2>4
<1>3. BanditInv => BanditLearnsFromRuns
  <2> SUFFICES ASSUME BanditInv, NEW g \in Sigs, bandit[g] # None, NEW t \in Tools
               PROVE  bandit[g][t] <= executed[<<g, t>>]
    BY DEF BanditLearnsFromRuns
  <2>1. <<g, t>> \in Keys /\ BanditTypes
    BY DEF Keys, BanditInv
  <2>2. PICK m \in Int : /\ SumOver(Pending(<<g, t>>), m)
                         /\ Updates(<<g, t>>) + m <= executed[<<g, t>>]
    BY <2>1 DEF BanditInv
  <2>3. m \in Nat
    BY <2>1, <2>2, PendingIsNat, SumOfNats
  <2>4. Updates(<<g, t>>) = bandit[g][t]
    BY DEF Updates
  <2>5. bandit[g][t] \in Nat /\ executed[<<g, t>>] \in Nat
    BY <2>1 DEF BanditTypes
  <2> QED
    BY <2>2, <2>3, <2>4, <2>5
<1> QED
  BY <1>1, <1>2, <1>3, PTL DEF RemediationSpec

-----------------------------------------------------------------------------
(* The evidence of recommendations. *)

\* What a step may do with what the evidence is made of: it may use one more id, for one
\* decision and for the answer of one session, whose event is out.
NewAnswer(a) ==
    /\ a.decision.id = used.answers + 1 /\ used'.answers = used.answers + 1
    /\ \E e \in events' : e.kind = "emitted" /\ e.rec = a.decision.id
    /\ \A e \in events' : e \in events \/ e.event = a.event
    /\ \A d \in decisions' : d \in decisions \/ d = a.decision
    /\ a.decision.algorithm \in {"heuristic_v1", "beta_thompson_sampling",
                                 "neural_thompson_sampling", "hylinucb_hybrid"}
    /\ a.decision.algorithm # "heuristic_v1" =>
          /\ config.policies
          /\ \E t \in Tools : <<a.from, t>> \in TakenKeys
          /\ a.from = a.decision.sig \/ a.prewarmed

NewDecision(d) == d.id = used.answers + 1 /\ used'.answers = used.answers + 1

NewEvent(e) ==
    e.kind = "emitted" => e.rec = used.answers + 1 /\ used'.answers = used.answers + 1

UsedGrows ==
    /\ used' = [invocations |-> used'.invocations, answers |-> used'.answers,
                changes |-> used'.changes]
    /\ used'.answers = used.answers \/ used'.answers = used.answers + 1

WarmHolds(w) == w.pc = "ready" => w.from \in Sigs /\ ReadFrom(w.policies, w.from)

EvidenceStep ==
    /\ config' = config /\ files' \in [Sessions -> SUBSET Files]
    /\ events \subseteq events' /\ UsedGrows
    /\ DOMAIN answer' = Sessions /\ DOMAIN asking' = Sessions /\ DOMAIN warm' = Sessions
    /\ \A d \in decisions' : d \in decisions \/ NewDecision(d)
    /\ \A e \in events' : e \in events \/ NewEvent(e)
    /\ \A s \in Sessions :
          /\ \/ answer'[s] = answer[s]
             \/ ~Recommended(answer'[s])
             \/ NewAnswer(answer'[s])
          /\ warm'[s] = warm[s] \/ WarmHolds(warm'[s])
          /\ asking'[s] = asking[s] \/ CallHolds(asking'[s])

\* What the store ever took stays so, and what it holds it took.
StoreStep == TakenKeys \subseteq TakenKeys' /\ StoreHolds'

\* Such a step keeps the invariant: the new id is larger than the ones in use.
LEMMA EvidenceStepKeeps ==
  ASSUME EvidenceInv, EvidenceStep, StoreStep
  PROVE  EvidenceInv'
<1>1. /\ config' = config /\ events \subseteq events' /\ UsedGrows
      /\ DOMAIN answer' = Sessions /\ DOMAIN asking' = Sessions /\ DOMAIN warm' = Sessions
      /\ \A d \in decisions' : d \in decisions \/ NewDecision(d)
      /\ \A e \in events' : e \in events \/ NewEvent(e)
  BY DEF EvidenceStep
<1>2. used.answers \in Nat /\ used'.answers \in Nat /\ used.answers <= used'.answers
  BY <1>1 DEF EvidenceInv, UsedGrows
<1>3. /\ \A d \in decisions : d.id \in 1..used.answers
      /\ \A e \in events : e.kind = "emitted" => e.rec \in 1..used.answers
  BY DEF EvidenceInv
<1>4. /\ \A d \in decisions' : d.id \in 1..used'.answers
      /\ \A e \in events' : e.kind = "emitted" => e.rec \in 1..used'.answers
  BY <1>1, <1>2, <1>3 DEF NewDecision, NewEvent
<1>5. ASSUME NEW s \in Sessions PROVE AnswerHolds(answer[s])'
  <2> DEFINE a == answer'[s]
             learned == /\ config.policies
                        /\ \E t \in Tools : <<a.from, t>> \in TakenKeys
                        /\ a.from = a.decision.sig \/ a.prewarmed
             known == a.decision.algorithm \in {"heuristic_v1", "beta_thompson_sampling",
                                                "neural_thompson_sampling", "hylinucb_hybrid"}
  <2>1. AnswerHolds(answer[s])
    BY DEF EvidenceInv
  <2>2. SUFFICES ASSUME Recommended(a)
                 PROVE  /\ a.decision.id \in 1..used'.answers
                        /\ \E e \in events' : e.kind = "emitted" /\ e.rec = a.decision.id
                        /\ \A e \in events' : e.kind = "emitted" /\ e.rec = a.decision.id =>
                                                 e.event = a.event
                        /\ \A d \in decisions' : d.id = a.decision.id => d = a.decision
                        /\ known
                        /\ a.decision.algorithm # "heuristic_v1" => learned
    BY <1>1 DEF AnswerHolds, Recommended, StoreStep
  <2>3. CASE a = answer[s]
    <3>1. /\ a.decision.id \in 1..used.answers
          /\ \E e \in events : e.kind = "emitted" /\ e.rec = a.decision.id
          /\ \A e \in events : e.kind = "emitted" /\ e.rec = a.decision.id => e.event = a.event
          /\ \A d \in decisions : d.id = a.decision.id => d = a.decision
          /\ known
          /\ a.decision.algorithm # "heuristic_v1" => learned
      BY <2>1, <2>2, <2>3 DEF AnswerHolds
    <3> HIDE DEF a, learned, known
    <3>2. \A d \in decisions' : d.id = a.decision.id => d = a.decision
      BY <1>1, <1>2, <3>1 DEF NewDecision
    <3>3. \A e \in events' : e.kind = "emitted" /\ e.rec = a.decision.id => e.event = a.event
      BY <1>1, <1>2, <3>1 DEF NewEvent
    <3>4. a.decision.id \in 1..used'.answers
      BY <1>2, <3>1
    <3> QED
      BY <1>1, <3>1, <3>2, <3>3, <3>4
  <2>4. CASE NewAnswer(a)
    <3>1. /\ a.decision.id = used.answers + 1 /\ used'.answers = used.answers + 1
          /\ \E e \in events' : e.kind = "emitted" /\ e.rec = a.decision.id
          /\ \A e \in events' : e \in events \/ e.event = a.event
          /\ \A d \in decisions' : d \in decisions \/ d = a.decision
          /\ known
          /\ a.decision.algorithm # "heuristic_v1" => learned
      BY <2>4 DEF NewAnswer
    <3> HIDE DEF a, learned, known
    <3>2. \A d \in decisions' : d.id = a.decision.id => d = a.decision
      BY <1>2, <1>3, <3>1
    <3>3. \A e \in events' : e.kind = "emitted" /\ e.rec = a.decision.id => e.event = a.event
      BY <1>2, <1>3, <3>1
    <3>4. a.decision.id \in 1..used'.answers
      BY <1>2, <3>1
    <3> QED
      BY <3>1, <3>2, <3>3, <3>4
  <2> QED
    BY <2>2, <2>3, <2>4 DEF EvidenceStep
<1>6. ASSUME NEW ps, NEW g, ReadFrom(ps, g)
      PROVE  \A t \in Tools : ps[t] # None => config.policies /\ <<g, t>> \in TakenKeys'
  BY <1>6 DEF ReadFrom, StoreStep
<1>7. ASSUME NEW s \in Sessions
      PROVE  /\ CallHolds(asking[s])'
             /\ warm'[s].pc = "ready" =>
                   warm'[s].from \in Sigs /\ ReadFrom(warm[s].policies, warm[s].from)'
  <2>1. CallHolds(asking'[s]) /\ WarmHolds(warm'[s])
    BY DEF EvidenceInv, EvidenceStep, WarmHolds
  <2>2. /\ ReadFrom(asking'[s].policies, asking'[s].from) =>
              ReadFrom(asking[s].policies, asking[s].from)'
        /\ ReadFrom(warm'[s].policies, warm'[s].from) =>
              ReadFrom(warm[s].policies, warm[s].from)'
    BY <1>1, <1>6 DEF ReadFrom
  <2>3. (DOMAIN NoCall)' = DOMAIN NoCall
    BY DEF NoCall
  <2> QED
    BY <2>1, <2>2, <2>3 DEF CallHolds, WarmHolds
<1>8. /\ config' \in Configs /\ StoreHolds' /\ files' \in [Sessions -> SUBSET Files]
      /\ used' = [invocations |-> used'.invocations, answers |-> used'.answers,
                  changes |-> used'.changes]
  BY <1>1 DEF EvidenceInv, StoreStep, EvidenceStep, UsedGrows
<1> QED
  BY <1>1, <1>2, <1>4, <1>5, <1>7, <1>8 DEF EvidenceInv

\* The store takes policies, drops one whose TTL is over, or stays as it is.
LEMMA StoreMoves ==
  ASSUME EvidenceInv,
         \/ UNCHANGED <<policies, stored>>
         \/ \E ps : Take(ps)
         \/ UNCHANGED stored /\ \E k \in Keys : policies' = [policies EXCEPT ![k] = None]
  PROVE  StoreStep
<1>1. DOMAIN policies = Keys /\ \A k \in Keys : policies[k] # None => k \in TakenKeys
  BY DEF EvidenceInv, StoreHolds
<1>2. ASSUME UNCHANGED stored,
             UNCHANGED policies \/ \E k \in Keys : policies' = [policies EXCEPT ![k] = None]
      PROVE  StoreStep
  <2>1. TakenKeys' = TakenKeys
    BY <1>2 DEF TakenKeys
  <2>2. CASE UNCHANGED policies
    BY <1>1, <2>1, <2>2 DEF StoreStep, StoreHolds
  <2>3. ASSUME NEW k \in Keys, policies' = [policies EXCEPT ![k] = None] PROVE StoreStep
    BY <1>1, <2>1, <2>3 DEF StoreStep, StoreHolds
  <2> QED
    BY <1>2, <2>2, <2>3
<1>3. ASSUME NEW ps, Take(ps) PROVE StoreStep
  <2>1. TakenKeys \subseteq TakenKeys'
    BY <1>3 DEF Take, TakenKeys
  <2>2. ASSUME NEW k \in Keys, policies'[k] # None PROVE k \in TakenKeys'
    <3>1. CASE \E p \in ps : p.key = k
      <4>1. PICK p \in ps : p.key = k
        BY <3>1
      <4>2. <<p.run, p.key>> \in stored' /\ <<p.run, p.key>>[2] = k
        BY <1>3, <4>1 DEF Take
      <4> QED
        BY <4>2 DEF TakenKeys
    <3>2. CASE ~ \E p \in ps : p.key = k
      BY <1>1, <1>3, <2>1, <2>2, <3>2 DEF Take
    <3> QED
      BY <3>1, <3>2
  <2>3. DOMAIN policies' = Keys
    BY <1>3 DEF Take
  <2> QED
    BY <2>1, <2>2, <2>3 DEF StoreStep, StoreHolds
<1> QED
  BY <1>2, <1>3

\* Every step is one of these.
LEMMA StoreFrame ==
  ASSUME EvidenceInv, RemediationNext
  PROVE  StoreStep
<1>1. CASE UNCHANGED runVars
  BY <1>1, StoreMoves DEF runVars
<1>2. CASE Learned
  <2>1. UNCHANGED <<policies, stored>> \/ \E ps : Take(ps)
    BY <1>2, Zenon DEF Learned
  <2> QED
    BY <2>1, StoreMoves
<1>3. CASE KeyExpires
  <2>1. /\ UNCHANGED stored
        /\ UNCHANGED policies \/ \E k \in Keys : policies' = [policies EXCEPT ![k] = None]
    BY <1>3, Zenon DEF KeyExpires
  <2> QED
    BY <2>1, StoreMoves
<1>4. ASSUME NEW j \in Schedules, RunStep(j) PROVE StoreStep
  <2>1. UNCHANGED <<policies, stored>> \/ \E ps : Take(ps)
    BY <1>4, Zenon
    DEF RunStep, RunStart, RunQuery, RunWrite, RunModel, RunAnnounce, RunComplete, RunCrash
  <2> QED
    BY <2>1, StoreMoves
<1> QED
  BY <1>1, <1>2, <1>3, <1>4, RunFrame

\* A step that leaves the rest of the evidence alone.
evidenceVars == <<config, files, answer, asking, warm, decisions, events>>

\* A step that leaves the evidence alone keeps it.
LEMMA EvidenceRests ==
  ASSUME EvidenceInv, UNCHANGED evidenceVars, UsedGrows
  PROVE  EvidenceStep
<1>1. /\ config' = config /\ answer' = answer /\ asking' = asking /\ warm' = warm
      /\ decisions' = decisions /\ events' = events /\ files' = files
  BY DEF evidenceVars
<1> QED
  BY <1>1 DEF EvidenceStep, EvidenceInv

\* The bounds grow with a change, an invocation or an answer.
LEMMA BoundsGrow ==
  ASSUME EvidenceInv
  PROVE  /\ UNCHANGED used => UsedGrows
         /\ Change => UsedGrows /\ used'.answers = used.answers
         /\ used' = [used EXCEPT !.invocations = @ + 1] => UsedGrows
         /\ used' = [used EXCEPT !.answers = used.answers + 1] =>
                UsedGrows /\ used'.answers = used.answers + 1
<1>1. PICK i, n, c : used = [invocations |-> i, answers |-> n, changes |-> c]
  BY Zenon DEF EvidenceInv
<1>2. used.invocations = i /\ used.answers = n /\ used.changes = c
  BY <1>1
<1>3. ASSUME Change PROVE UsedGrows /\ used'.answers = used.answers
  <2>1. used' = [used EXCEPT !.changes = @ + 1]
    BY <1>3, Zenon DEF Change
  <2>2. used' = [invocations |-> i, answers |-> n, changes |-> c + 1]
    BY <1>1, <2>1
  <2> QED
    BY <1>2, <2>2 DEF UsedGrows
<1>4. ASSUME used' = [used EXCEPT !.invocations = @ + 1] PROVE UsedGrows
  <2>1. used' = [invocations |-> i + 1, answers |-> n, changes |-> c]
    BY <1>1, <1>4
  <2> QED
    BY <1>2, <2>1 DEF UsedGrows
<1>5. ASSUME used' = [used EXCEPT !.answers = used.answers + 1]
      PROVE  UsedGrows /\ used'.answers = used.answers + 1
  <2>1. used' = [invocations |-> i, answers |-> n + 1, changes |-> c]
    BY <1>1, <1>2, <1>5
  <2> QED
    BY <1>2, <2>1 DEF UsedGrows
<1>6. ASSUME UNCHANGED used PROVE UsedGrows
  BY <1>1, <1>2, <1>6 DEF UsedGrows
<1> QED
  BY <1>3, <1>4, <1>5, <1>6

\* An algorithm is one of four, and without a policy it is the heuristic.
LEMMA ScorerNeedsPolicy ==
  ASSUME NEW ps, NEW trained, NEW contextual
  PROVE  LET algorithm == algorithmID(SelectScorerFull(ps, trained, contextual))
         IN  /\ algorithm \in {"heuristic_v1", "beta_thompson_sampling",
                               "neural_thompson_sampling", "hylinucb_hybrid"}
             /\ algorithm # "heuristic_v1" => \E t \in Tools : ps[t] # None
<1> DEFINE scorer == SelectScorerFull(ps, trained, contextual)
<1>1. scorer \in {"none", "neural_thompson_sampling", "hylinucb_hybrid",
                  "beta_thompson_sampling", "heuristic_policy"}
  BY DEF SelectScorerFull
<1>2. {t \in Tools : ps[t] # None} = {} => scorer = "none"
  BY DEF SelectScorerFull
<1> HIDE DEF scorer
<1>3. /\ algorithmID(scorer) \in {"heuristic_v1", "beta_thompson_sampling",
                                  "neural_thompson_sampling", "hylinucb_hybrid"}
      /\ scorer = "none" => algorithmID(scorer) = "heuristic_v1"
  BY <1>1 DEF algorithmID
<1> QED
  BY <1>2, <1>3 DEF scorer

\* A signature is one of those the store has policies of.
LEMMA SignatureIsOne ==
  ASSUME EvidenceInv, NEW s \in Sessions
  PROVE  DeriveContextSignature(s) \in Sigs
<1>1. files[s] \in SUBSET Files
  BY DEF EvidenceInv
<1> QED
  BY <1>1, SignatureAssumption DEF DeriveContextSignature

\* What is read of the store was taken by it.
LEMMA ReadIsTaken ==
  ASSUME EvidenceInv, NEW g \in Sigs, NEW got
  PROVE  ReadFrom(ReadPoliciesForContext(g, got), g)
<1>1. \A t \in Tools : <<g, t>> \in Keys
  BY DEF Keys
<1> QED
  BY <1>1 DEF EvidenceInv, StoreHolds, ReadFrom, ReadPoliciesForContext

\* The answer of a call: one new id, for its decision, its event and its answer.
LEMMA AnswerGiven ==
  ASSUME NEW s \in Sessions, NEW k \in TopKs, NEW hint, NEW draw,
         RecommendAnswer(s, k, hint, draw)
  PROVE  \E new :
            /\ answer' = [answer EXCEPT ![s] = new]
            /\ decisions' = decisions \cup {new.decision} \/ decisions' = decisions
            /\ new.event = <<used.answers + 1, "answer">>
            /\ new.decision.id = used.answers + 1
            /\ new.from = asking[s].from /\ new.prewarmed = asking[s].prewarmed
            /\ new.decision.sig = asking[s].sig
            /\ new.decision.tools # <<>> => new.decision.tools[1] \in Tools
            /\ new.decision.algorithm =
                   algorithmID(SelectScorerFull(asking[s].policies, asking[s].model, TRUE))
<1> DEFINE a == asking[s]
           id == used.answers + 1
           scorer == SelectScorerFull(a.policies, a.model, TRUE)
           score == [t \in Allowed[s] |->
               LET base == applyTelemetryBoost(scoreTool(t, hint), t, a.stats[t])
               IN  IF a.policies[t] = None THEN base
                   ELSE Score(scorer, base, t, a.policies[t], GetScorer(scorer, a.sig)[a.sig],
                              draw[t])]
           source == decisionSource(scorer, a.stats, a.policies)
           shadow == \E t \in Tools : a.policies[t] # None
           D(ranked) == [id |-> id, session |-> s, sig |-> a.sig, tools |-> ranked,
                         algorithm |-> algorithmID(scorer), source |-> source,
                         shadow |-> shadow]
           insight(ranked) == BuildCrossAgentInsight(a.stats, a.policies, D(ranked).algorithm)
<1>1. PICK ranked \in Ranked(Allowed[s], score, EffectiveTopK(k)) :
          /\ \E saved \in {TRUE, config.decisions = "memory"} :
                decisions' = IF saved THEN decisions \cup {D(ranked)} ELSE decisions
          /\ answer' = [answer EXCEPT ![s] =
                 [call |-> "RecommendTools", code |-> "ok", decision |-> D(ranked),
                  event |-> <<id, "answer">>, from |-> a.from, prewarmed |-> a.prewarmed,
                  insight |-> insight(ranked)]]
  BY Zenon DEF RecommendAnswer
<1> DEFINE d == D(ranked)
           new == [call |-> "RecommendTools", code |-> "ok", decision |-> d,
                   event |-> <<id, "answer">>, from |-> a.from, prewarmed |-> a.prewarmed,
                  insight |-> insight(ranked)]
<1>2. ranked # <<>> => ranked[1] \in Tools
  <2>1. Allowed[s] \subseteq Tools /\ IsFiniteSet(Tools) /\ k \in Int
    BY RecommenderAssumption
  <2>2. Cardinality(Allowed[s]) \in Int
    BY <2>1, FS_Subset, FS_CardinalityType
  <2>3. EffectiveTopK(k) \in Int
    BY <2>1 DEF EffectiveTopK
  <2> DEFINE n == IF EffectiveTopK(k) < Cardinality(Allowed[s])
                  THEN EffectiveTopK(k) ELSE Cardinality(Allowed[s])
  <2>4. ranked \in [1..n -> Allowed[s]]
    <3> HIDE DEF score
    <3> QED
      BY <1>1, Zenon DEF Ranked
  <2>5. n \in Int
    BY <2>2, <2>3
  <2> HIDE DEF n
  <2> QED
    BY <2>1, <2>4, <2>5
<1>3. d.id = id /\ d.tools = ranked /\ d.sig = a.sig /\ d.algorithm = algorithmID(scorer)
  OBVIOUS
<1>4. /\ new.decision = d /\ new.event = <<id, "answer">>
      /\ new.from = a.from /\ new.prewarmed = a.prewarmed
  OBVIOUS
<1>5. decisions' = decisions \cup {d} \/ decisions' = decisions
  <2> HIDE DEF D
  <2> QED
    BY <1>1
<1>6. answer' = [answer EXCEPT ![s] = new]
  BY <1>1, Zenon
<1> HIDE DEF d, new
<1>7. /\ decisions' = decisions \cup {new.decision} \/ decisions' = decisions
      /\ new.decision.tools # <<>> => new.decision.tools[1] \in Tools
  BY <1>2, <1>3, <1>4, <1>5
<1> QED
  BY <1>3, <1>4, <1>6, <1>7, Zenon

\* Each step of a RecommendTools call is such a step.
LEMMA RecommendEvidence ==
  ASSUME EvidenceInv, NEW s \in Sessions, Recommend(s)
  PROVE  EvidenceStep
<1>1. /\ DOMAIN answer = Sessions /\ DOMAIN asking = Sessions /\ DOMAIN warm = Sessions
      /\ WarmHolds(warm[s]) /\ CallHolds(asking[s]) /\ files \in [Sessions -> SUBSET Files]
  BY DEF EvidenceInv, WarmHolds
<1>2. ASSUME UNCHANGED <<config, files, warm, decisions, events, used>>,
             NEW a, answer' = answer \/ (answer' = [answer EXCEPT ![s] = a] /\ ~Recommended(a)),
             NEW c, asking' = asking \/ (asking' = [asking EXCEPT ![s] = c] /\ CallHolds(c))
      PROVE  EvidenceStep
  <2>1. UsedGrows
    BY <1>2, BoundsGrow
  <2>2. DOMAIN answer' = Sessions
        /\ \A i \in Sessions : answer'[i] = answer[i] \/ ~Recommended(answer'[i])
    BY <1>1, <1>2
  <2>3. DOMAIN asking' = Sessions
        /\ \A i \in Sessions : asking'[i] = asking[i] \/ CallHolds(asking'[i])
    BY <1>1, <1>2
  <2> QED
    BY <1>1, <1>2, <2>1, <2>2, <2>3 DEF EvidenceStep
<1>3. CASE RecommendTools(s)
  <2>1. UNCHANGED <<config, files, warm, decisions, events, used>>
    BY <1>3, Zenon DEF RecommendTools
  <2>2. PICK sig \in Sigs : sig = DeriveContextSignature(s)
    BY SignatureIsOne
  <2>3. CASE /\ answer' = [answer EXCEPT ![s] = Answer("RecommendTools", "not_found")]
             /\ UNCHANGED asking
    <3>1. ~Recommended(Answer("RecommendTools", "not_found"))
      BY DEF Recommended, Answer
    <3> QED
      BY <1>2, <2>1, <2>3, <3>1
  <2>4. CASE /\ getWarmData(s) /\ UNCHANGED answer
             /\ asking' = [asking EXCEPT ![s] =
                    [pc |-> "score", sig |-> sig, from |-> warm[s].from,
                     prewarmed |-> TRUE, stats |-> warm[s].stats, policies |-> warm[s].policies,
                     model |-> warm[s].model]]
    <3> DEFINE c == [pc |-> "score", sig |-> sig, from |-> warm[s].from, prewarmed |-> TRUE,
                     stats |-> warm[s].stats, policies |-> warm[s].policies,
                     model |-> warm[s].model]
    <3>1. warm[s].from \in Sigs /\ ReadFrom(warm[s].policies, warm[s].from)
      BY <1>1, <2>4 DEF getWarmData, WarmHolds
    <3>2. /\ DOMAIN c = DOMAIN NoCall /\ c.pc = "score" /\ c.sig = sig /\ c.from = warm[s].from
          /\ c.prewarmed = TRUE /\ c.policies = warm[s].policies
      BY DEF NoCall
    <3> HIDE DEF c
    <3>3. CallHolds(c)
      BY <3>1, <3>2 DEF CallHolds
    <3>4. asking' = [asking EXCEPT ![s] = c]
      BY <2>4 DEF c
    <3> QED
      BY <1>2, <2>1, <2>4, <3>3, <3>4
  <2>5. CASE /\ UNCHANGED answer
             /\ asking' = [asking EXCEPT ![s] =
                    [pc |-> "policies", sig |-> sig, from |-> sig, prewarmed |-> FALSE,
                     stats |-> AllToolStats, policies |-> None, model |-> None]]
    <3>1. PICK c : c = [pc |-> "policies", sig |-> sig, from |-> sig, prewarmed |-> FALSE,
                        stats |-> AllToolStats, policies |-> None, model |-> None]
      OBVIOUS
    <3>2. CallHolds(c)
      BY <3>1 DEF NoCall, CallHolds
    <3>3. asking' = [asking EXCEPT ![s] = c]
      BY <2>5, <3>1
    <3> QED
      BY <1>2, <2>1, <2>5, <3>2, <3>3
  <2> QED
    BY <1>3, <2>2, <2>3, <2>4, <2>5, Zenon DEF RecommendTools
<1>4. CASE RecommendPolicies(s) \/ RecommendModel(s)
  <2>1. UNCHANGED <<config, files, warm, decisions, events, used>> /\ UNCHANGED answer
    BY <1>4, Zenon DEF RecommendPolicies, RecommendModel
  <2>2. PICK a : a = asking[s]
    OBVIOUS
  <2>3. /\ a.pc \in {"policies", "model"} /\ DOMAIN a = DOMAIN NoCall
        /\ a.sig \in Sigs /\ a.from \in Sigs /\ (a.from = a.sig \/ a.prewarmed)
        /\ a.pc = "model" => ReadFrom(a.policies, a.from)
    <3>1. asking[s].pc \in {"policies", "model"}
      BY <1>4, Zenon DEF RecommendPolicies, RecommendModel
    <3> QED
      BY <1>1, <2>2, <3>1 DEF CallHolds
  <2>4. ASSUME NEW ps, NEW md
        PROVE  LET c == [a EXCEPT !.pc = "model", !.policies = ps]
                   b == [a EXCEPT !.pc = "score", !.model = md]
               IN  /\ DOMAIN c = DOMAIN NoCall /\ c.pc = "model" /\ c.policies = ps
                   /\ c.sig = a.sig /\ c.from = a.from /\ c.prewarmed = a.prewarmed
                   /\ DOMAIN b = DOMAIN NoCall /\ b.pc = "score" /\ b.policies = a.policies
                   /\ b.sig = a.sig /\ b.from = a.from /\ b.prewarmed = a.prewarmed
    BY <2>3 DEF NoCall
  <2>5. CASE RecommendPolicies(s)
    <3>1. PICK got : asking' = [asking EXCEPT ![s] =
                         [a EXCEPT !.pc = "model",
                                   !.policies = ReadPoliciesForContext(a.sig, got)]]
      BY <2>2, <2>5, Zenon DEF RecommendPolicies
    <3>2. a.from = a.sig
      BY <1>1, <2>2, <2>3, <2>5 DEF RecommendPolicies, CallHolds
    <3>3. PICK ps : ps = ReadPoliciesForContext(a.sig, got)
      OBVIOUS
    <3>4. ReadFrom(ps, a.from)
      BY <2>3, <3>2, <3>3, ReadIsTaken
    <3>5. PICK c : c = [a EXCEPT !.pc = "model", !.policies = ps]
      OBVIOUS
    <3>6. CallHolds(c)
      BY <2>3, <2>4, <3>2, <3>4, <3>5 DEF CallHolds
    <3>7. asking' = [asking EXCEPT ![s] = c]
      BY <3>1, <3>3, <3>5
    <3> QED
      BY <1>2, <2>1, <3>6, <3>7
  <2>6. CASE RecommendModel(s)
    <3>1. PICK md : asking' = [asking EXCEPT ![s] = [a EXCEPT !.pc = "score", !.model = md]]
      BY <2>2, <2>6, Zenon DEF RecommendModel
    <3>2. ReadFrom(a.policies, a.from)
      BY <2>2, <2>3, <2>6 DEF RecommendModel
    <3>3. PICK c : c = [a EXCEPT !.pc = "score", !.model = md]
      OBVIOUS
    <3>4. CallHolds(c)
      BY <2>3, <2>4, <3>2, <3>3 DEF CallHolds
    <3> QED
      BY <1>2, <2>1, <3>1, <3>3, <3>4
  <2> QED
    BY <1>4, <2>5, <2>6
<1>5. ASSUME NEW k \in TopKs, NEW hint, NEW draw, RecommendAnswer(s, k, hint, draw)
      PROVE  EvidenceStep
  <2> DEFINE a == asking[s]
             id == used.answers + 1
             algorithm == algorithmID(SelectScorerFull(a.policies, a.model, TRUE))
  <2>1. /\ a.pc = "score"
        /\ events' = events \cup {EmittedEvent(id)}
        /\ asking' = [asking EXCEPT ![s] = NoCall]
        /\ used' = [used EXCEPT !.answers = id]
        /\ UNCHANGED <<config, files, warm>>
    BY <1>5, Zenon DEF RecommendAnswer
  <2>2. PICK new :
            /\ answer' = [answer EXCEPT ![s] = new]
            /\ decisions' = decisions \cup {new.decision} \/ decisions' = decisions
            /\ new.event = <<id, "answer">> /\ new.decision.id = id
            /\ new.from = a.from /\ new.prewarmed = a.prewarmed /\ new.decision.sig = a.sig
            /\ new.decision.algorithm = algorithm
    BY <1>5, AnswerGiven, Zenon
  <2>3. /\ algorithm \in {"heuristic_v1", "beta_thompson_sampling",
                          "neural_thompson_sampling", "hylinucb_hybrid"}
        /\ algorithm # "heuristic_v1" =>
              /\ config.policies
              /\ \E t \in Tools : <<a.from, t>> \in TakenKeys
              /\ a.from = a.sig \/ a.prewarmed
    <3>1. ReadFrom(a.policies, a.from) /\ (a.from = a.sig \/ a.prewarmed)
      BY <1>1, <2>1 DEF CallHolds
    <3>2. /\ algorithm \in {"heuristic_v1", "beta_thompson_sampling",
                            "neural_thompson_sampling", "hylinucb_hybrid"}
          /\ algorithm # "heuristic_v1" => \E t \in Tools : a.policies[t] # None
      BY ScorerNeedsPolicy
    <3> HIDE DEF algorithm, a
    <3> QED
      BY <3>1, <3>2 DEF ReadFrom
  <2>4. UsedGrows /\ used'.answers = id
    BY <2>1, BoundsGrow
  <2>5. /\ EmittedEvent(id).rec = id /\ EmittedEvent(id).event = <<id, "answer">>
        /\ EmittedEvent(id).kind = "emitted"
    BY DEF EmittedEvent
  <2> HIDE DEF algorithm
  <2>6. NewDecision(new.decision)
    BY <2>2, <2>4 DEF NewDecision
  <2>7. NewAnswer(new)
    <3>1. EmittedEvent(id) \in events' /\ \A e \in events' : e \in events \/ e.event = new.event
      BY <2>1, <2>2, <2>5
    <3>2. \A d \in decisions' : d \in decisions \/ d = new.decision
      BY <2>2
    <3> HIDE DEF a
    <3> QED
      BY <2>2, <2>3, <2>4, <2>5, <3>1, <3>2 DEF NewAnswer
  <2>8. DOMAIN answer' = Sessions
        /\ \A i \in Sessions : answer'[i] = answer[i] \/ NewAnswer(answer'[i])
    BY <1>1, <2>2, <2>7
  <2>9. DOMAIN asking' = Sessions
        /\ \A i \in Sessions : asking'[i] = asking[i] \/ asking'[i] = NoCall
    BY <1>1, <2>1
  <2>10. CallHolds(NoCall)
    BY DEF NoCall, CallHolds
  <2>11. \A i \in Sessions : asking'[i] = asking[i] \/ CallHolds(asking'[i])
    BY <2>9, <2>10
  <2>12. \A d \in decisions' : d \in decisions \/ NewDecision(d)
    BY <2>2, <2>6
  <2>13. \A e \in events' : e \in events \/ NewEvent(e)
    BY <2>1, <2>4, <2>5 DEF NewEvent
  <2>14. events \subseteq events'
    BY <2>1
  <2> QED
    BY <1>1, <2>1, <2>4, <2>8, <2>9, <2>11, <2>12, <2>13, <2>14 DEF EvidenceStep
<1> QED
  BY <1>3, <1>4, <1>5, Zenon DEF Recommend

\* The agent's RecommendTools is a call of a session.
AgentHolds ==
    /\ {"pc", "session"} \subseteq DOMAIN agent
    /\ agent.pc = "recommend" => agent.session \in Sessions

\* A step of the agent keeps its invariant.
LEMMA AgentKeeps ==
  ASSUME AgentHolds, RemediationNext, config \in Configs
  PROVE  AgentHolds'
<1>1. {"pc", "session"} \subseteq DOMAIN NoRun /\ NoRun.pc = "idle"
  BY DEF NoRun
<1>2. ASSUME agent' = agent \/ agent' = NoRun PROVE AgentHolds'
  BY <1>1, <1>2 DEF AgentHolds
<1>3. ASSUME NEW r, {"pc", "session"} \subseteq DOMAIN r, agent' = r, r.pc # "recommend"
      PROVE  AgentHolds'
  BY <1>3 DEF AgentHolds
<1>4. CASE UNCHANGED agentVars
  BY <1>2, <1>4 DEF agentVars
<1>5. CASE \E a \in Alerts : HandleAlert(a)
  <2>1. PICK a \in Alerts : agent' = agent \/
            agent' = [NoRun EXCEPT !.pc = "create", !.alert = a.name]
    BY <1>5, Zenon DEF HandleAlert
  <2>2. ASSUME agent' = [NoRun EXCEPT !.pc = "create", !.alert = a.name] PROVE AgentHolds'
    BY <2>2 DEF NoRun, AgentHolds
  <2> QED
    BY <1>2, <2>1, <2>2
<1>6. ASSUME NEW s \in config.sessions, CreateSession(s) PROVE AgentHolds'
  <2>1. s \in Sessions
    BY RecommenderAssumption
  <2>2. agent' = NoRun \/ agent' = [agent EXCEPT !.pc = "recommend", !.session = s]
    BY <1>6, Zenon DEF CreateSession
  <2>3. \A r : {"pc", "session"} \subseteq DOMAIN r =>
            /\ {"pc", "session"} \subseteq DOMAIN [r EXCEPT !.pc = "recommend", !.session = s]
            /\ [r EXCEPT !.pc = "recommend", !.session = s].session = s
    OBVIOUS
  <2> QED
    BY <1>2, <2>1, <2>2, <2>3 DEF AgentHolds
<1>7. CASE CreateFails \/ CloseSession \/ AgentRestart
  BY <1>2, <1>7, Zenon DEF CreateFails, CloseSession, AgentRestart
<1>8. \A r : {"pc", "session"} \subseteq DOMAIN r =>
          /\ {"pc", "session"} \subseteq DOMAIN [r EXCEPT !.pc = "close"]
          /\ [r EXCEPT !.pc = "close"].pc = "close"
  OBVIOUS
<1>9. {"pc", "session"} \subseteq DOMAIN agent
  BY DEF AgentHolds
<1>10. CASE RecommendFails \/ ReportFeedback
  <2>1. agent' = [agent EXCEPT !.pc = "close"]
    BY <1>10, Zenon DEF RecommendFails, ReportFeedback
  <2> QED
    BY <1>3, <1>8, <1>9, <2>1
<1>11. CASE RecommendCall
  <2>1. PICK x, y, z : \/ agent' = agent \/ agent' = [agent EXCEPT !.pc = "close"]
                       \/ agent' = [agent EXCEPT !.pc = "invoke", !.recTools = x, !.recID = y,
                                                 !.left = z]
    BY <1>11, Zenon DEF RecommendCall
  <2>2. \A r : {"pc", "session"} \subseteq DOMAIN r =>
            LET q == [r EXCEPT !.pc = "invoke", !.recTools = x, !.recID = y, !.left = z]
            IN  {"pc", "session"} \subseteq DOMAIN q /\ q.pc = "invoke"
    OBVIOUS
  <2> QED
    BY <1>2, <1>3, <1>8, <1>9, <2>1, <2>2
<1>12. CASE InvokeTool
  <2>1. PICK x : agent' = [agent EXCEPT !.pc = "invoking", !.status = x]
    BY <1>12, Zenon DEF InvokeTool
  <2>2. \A r : {"pc", "session"} \subseteq DOMAIN r =>
            LET q == [r EXCEPT !.pc = "invoking", !.status = x]
            IN  {"pc", "session"} \subseteq DOMAIN q /\ q.pc = "invoking"
    OBVIOUS
  <2> QED
    BY <1>3, <1>9, <2>1, <2>2
<1>13. CASE InvokeAnswered
  <2>1. PICK x, y : agent' = [agent EXCEPT !.pc = "invoke", !.left = x, !.steps = y]
    BY <1>13, Zenon DEF InvokeAnswered
  <2>2. \A r : {"pc", "session"} \subseteq DOMAIN r =>
            LET q == [r EXCEPT !.pc = "invoke", !.left = x, !.steps = y]
            IN  {"pc", "session"} \subseteq DOMAIN q /\ q.pc = "invoke"
    OBVIOUS
  <2> QED
    BY <1>3, <1>9, <2>1, <2>2
<1>14. CASE AgentStep
  BY <1>4, <1>5, <1>6, <1>7, <1>10, <1>11, <1>12, <1>13, <1>14, Zenon DEF AgentStep
<1> QED
  BY <1>4, <1>14, Zenon DEF RemediationNext

\* Every step is one that keeps the evidence.
LEMMA EvidenceFrame ==
  ASSUME EvidenceInv, AgentHolds, RemediationNext
  PROVE  EvidenceStep
<1>1. /\ DOMAIN answer = Sessions /\ DOMAIN asking = Sessions /\ DOMAIN warm = Sessions
      /\ files \in [Sessions -> SUBSET Files]
      /\ config.sessions \subseteq Sessions
  BY RecommenderAssumption DEF EvidenceInv
<1>2. ASSUME UNCHANGED vars PROVE EvidenceStep
  <2>1. UNCHANGED evidenceVars /\ UNCHANGED used
    BY <1>2, Zenon DEF vars, runtimeVars, evidenceVars
  <2> QED
    BY <2>1, BoundsGrow, EvidenceRests
<1>3. ASSUME UNCHANGED evidenceVars,
             UNCHANGED used \/ Change \/ used' = [used EXCEPT !.invocations = @ + 1]
      PROVE  EvidenceStep
  BY <1>3, BoundsGrow, EvidenceRests
<1>4. ASSUME NEW s, recordTelemetry(s) \/ updateOnlineBandit(s) PROVE EvidenceStep
  <2>1. UNCHANGED evidenceVars /\ UNCHANGED used
    BY <1>4, Zenon DEF recordTelemetry, updateOnlineBandit, evidenceVars
  <2> QED
    BY <1>3, <2>1
<1>5. ASSUME NEW s, NEW t, NEW status, NEW n, InvocationEnds(s, t, status, n) PROVE EvidenceStep
  <2>1. UNCHANGED evidenceVars /\ used' = [used EXCEPT !.invocations = @ + 1]
    BY <1>5, Zenon DEF InvocationEnds, evidenceVars
  <2> QED
    BY <1>3, <2>1
<1>6. ASSUME UNCHANGED <<config, files, answer, asking, decisions, events>>,
             UNCHANGED used \/ Change,
             NEW s, NEW w, warm' = [warm EXCEPT ![s] = w], WarmHolds(w)
      PROVE  EvidenceStep
  <2>1. UsedGrows
    BY <1>6, BoundsGrow
  <2>2. DOMAIN warm' = Sessions
        /\ \A i \in Sessions : warm'[i] = warm[i] \/ WarmHolds(warm'[i])
    BY <1>1, <1>6
  <2> QED
    BY <1>1, <1>6, <2>1, <2>2 DEF EvidenceStep
<1>7. \A pc : pc # "ready" => WarmHolds(Cold(pc))
  BY DEF Cold, WarmHolds
<1>8. ASSUME NEW s \in Sessions, Prewarmed(s) PROVE EvidenceStep
  <2>1. PICK sig \in Sigs : sig = DeriveContextSignature(s)
    BY SignatureIsOne
  <2>2. PICK got, md : warm' = [warm EXCEPT ![s] =
                [pc |-> "ready", from |-> sig, stats |-> AllToolStats,
                 policies |-> ReadPoliciesForContext(sig, got), model |-> md]]
    BY <1>8, <2>1, Zenon DEF Prewarmed
  <2>3. PICK ps : ps = ReadPoliciesForContext(sig, got)
    OBVIOUS
  <2>4. ReadFrom(ps, sig)
    BY <2>3, ReadIsTaken
  <2>5. PICK w : w = [pc |-> "ready", from |-> sig, stats |-> AllToolStats, policies |-> ps,
                      model |-> md]
    OBVIOUS
  <2>6. WarmHolds(w)
    BY <2>4, <2>5 DEF WarmHolds
  <2>7. warm' = [warm EXCEPT ![s] = w]
    BY <2>2, <2>3, <2>5
  <2>8. UNCHANGED <<config, files, answer, asking, decisions, events>> /\ UNCHANGED used
    BY <1>8, Zenon DEF Prewarmed
  <2> QED
    BY <1>6, <2>6, <2>7, <2>8
<1>9. ASSUME NEW s, SessionCloses(s) PROVE EvidenceStep
  <2>1. /\ UNCHANGED <<config, files, answer, asking, decisions, events>> /\ Change
        /\ warm' = [warm EXCEPT ![s] = Cold("none")]
    BY <1>9, Zenon DEF SessionCloses
  <2> QED
    BY <1>6, <1>7, <2>1
<1>10. ASSUME NEW s, WorkspaceChanges(s) PROVE EvidenceStep
  <2>1. UNCHANGED <<config, answer, asking, warm, decisions, events>> /\ Change
    BY <1>10, Zenon DEF WorkspaceChanges
  <2>2. files' \in [Sessions -> SUBSET Files]
    BY <1>1, <1>10 DEF WorkspaceChanges
  <2>3. UsedGrows
    BY <2>1, BoundsGrow
  <2> QED
    BY <1>1, <2>1, <2>2, <2>3 DEF EvidenceStep
<1>11. ASSUME NEW s, NEW kind \in {"accepted", "rejected"}, NEW rec, Feedback(s, kind, rec)
       PROVE  EvidenceStep
  <2>1. /\ UNCHANGED <<config, files, asking, warm, decisions>>
        /\ used' = [used EXCEPT !.answers = used.answers + 1]
    BY <1>11, Zenon DEF Feedback
  <2>2. PICK a : answer' = [answer EXCEPT ![s] = a] /\ ~Recommended(a)
    <3>1. ~Recommended(Answer(kind, "internal"))
          /\ ~Recommended([call |-> kind, code |-> "ok",
                           event |-> <<used.answers + 1, "answer">>])
      BY DEF Recommended, Answer
    <3> QED
      BY <1>11, <3>1, Zenon DEF Feedback
  <2>3. events \subseteq events' /\ \A e \in events' : e \in events \/ NewEvent(e)
    BY <1>11 DEF Feedback, NewEvent
  <2>4. UsedGrows
    BY <2>1, BoundsGrow
  <2>5. DOMAIN answer' = Sessions
        /\ \A i \in Sessions : answer'[i] = answer[i] \/ ~Recommended(answer'[i])
    BY <1>1, <2>2
  <2> QED
    BY <1>1, <2>1, <2>3, <2>4, <2>5 DEF EvidenceStep
<1>12. CASE LearnerStep
  <2>1. UNCHANGED evidenceVars /\ (UNCHANGED used \/ Change)
    BY <1>12, Zenon DEF LearnerStep, evidenceVars
  <2> QED
    BY <1>3, <2>1
<1>13. CASE aggregate
  <2>1. UNCHANGED evidenceVars /\ UNCHANGED used
    BY <1>13, Zenon DEF aggregate, evidenceVars
  <2> QED
    BY <1>3, <2>1
<1>14. CASE Restart
  <2>1. /\ warm' = [s \in Sessions |-> Cold("none")]
        /\ asking' = [s \in Sessions |-> NoCall] /\ answer' = [s \in Sessions |-> None]
        /\ UNCHANGED <<config, files, events>> /\ Change
        /\ decisions' = {} \/ decisions' = decisions
    BY <1>14, Zenon DEF Restart
  <2>2. CallHolds(NoCall) /\ ~Recommended(None) /\ WarmHolds(Cold("none"))
    BY <1>7 DEF NoCall, CallHolds, Recommended
  <2>3. UsedGrows
    BY <2>1, BoundsGrow
  <2>4. ASSUME NEW s \in Sessions
        PROVE  ~Recommended(answer'[s]) /\ WarmHolds(warm'[s]) /\ CallHolds(asking'[s])
    BY <2>1, <2>2
  <2>5. DOMAIN answer' = Sessions /\ DOMAIN asking' = Sessions /\ DOMAIN warm' = Sessions
    BY <2>1
  <2> QED
    BY <1>1, <2>1, <2>3, <2>4, <2>5 DEF EvidenceStep
<1>15. CASE DecisionExpires
  <2>1. UNCHANGED <<config, files, answer, asking, warm, events>> /\ Change
    BY <1>15, Zenon DEF DecisionExpires
  <2>2. decisions' \subseteq decisions
    BY <1>15 DEF DecisionExpires
  <2>3. UsedGrows
    BY <2>1, BoundsGrow
  <2> QED
    BY <1>1, <2>1, <2>2, <2>3 DEF EvidenceStep
<1>16. ASSUME NEW s \in config.sessions, Recommend(s) PROVE EvidenceStep
  BY <1>1, <1>16, RecommendEvidence
<1>17. ASSUME NEW s \in config.sessions, ServiceStep(s) PROVE EvidenceStep
  <2>1. s \in Sessions
    BY <1>1
  <2> QED
    BY <1>4, <1>5, <1>8, <1>9, <1>10, <1>11, <1>16, <1>17, <2>1, Zenon DEF ServiceStep
<1>18. CASE Next
  BY <1>12, <1>13, <1>14, <1>15, <1>17, <1>18, Zenon DEF Next
<1>19. CASE AgentStep
  <2>1. CASE \E a \in Alerts : HandleAlert(a)
    BY <1>2, <2>1, Zenon DEF HandleAlert
  <2>2. ASSUME NEW s, CreateSession(s) PROVE EvidenceStep
    <3>1. /\ UNCHANGED <<config, files, asking, decisions, events>> /\ UNCHANGED used
          /\ warm' = [warm EXCEPT ![s] = Cold("loading")]
          /\ answer' = [answer EXCEPT ![s] = None]
      BY <2>2, Zenon DEF CreateSession
    <3>2. UsedGrows
      BY <3>1, BoundsGrow
    <3>3. ~Recommended(None) /\ WarmHolds(Cold("loading"))
      BY <1>7 DEF Recommended
    <3>4. /\ DOMAIN answer' = Sessions /\ DOMAIN warm' = Sessions
          /\ \A i \in Sessions : answer'[i] = answer[i] \/ ~Recommended(answer'[i])
          /\ \A i \in Sessions : warm'[i] = warm[i] \/ WarmHolds(warm'[i])
      BY <1>1, <3>1, <3>3
    <3> QED
      BY <1>1, <3>1, <3>2, <3>4 DEF EvidenceStep
  <2>3. CASE CreateFails \/ RecommendFails \/ InvokeAnswered
    BY <1>2, <2>3, Zenon DEF CreateFails, RecommendFails, InvokeAnswered
  <2>4. CASE RecommendCall
    <3>1. Recommend(agent.session) /\ agent.pc = "recommend"
      BY <2>4, Zenon DEF RecommendCall
    <3> QED
      BY <3>1, RecommendEvidence DEF AgentHolds
  <2>5. CASE InvokeTool
    BY <1>2, <1>5, <2>5, Zenon DEF InvokeTool
  <2>6. CASE ReportFeedback
    <3>1. PICK kind \in {"accepted", "rejected"} :
              Feedback(agent.session, kind, agent.recID) \/ UNCHANGED vars
      BY <2>6, Zenon DEF ReportFeedback
    <3> QED
      BY <1>2, <1>11, <3>1
  <2>7. CASE CloseSession
    <3>1. CASE UNCHANGED <<live, warm>>
      <4>1. UNCHANGED evidenceVars /\ UNCHANGED used
        BY <2>7, <3>1, Zenon DEF CloseSession, evidenceVars
      <4> QED
        BY <1>3, <4>1
    <3>2. CASE warm' = [warm EXCEPT ![agent.session] = Cold("none")]
      <4>1. UNCHANGED <<config, files, answer, asking, decisions, events>> /\ UNCHANGED used
        BY <2>7, Zenon DEF CloseSession
      <4> QED
        BY <1>6, <1>7, <3>2, <4>1
    <3> QED
      BY <2>7, <3>1, <3>2, Zenon DEF CloseSession
  <2>8. CASE AgentRestart
    <3>1. UNCHANGED evidenceVars /\ Change
      BY <2>8, Zenon DEF AgentRestart, evidenceVars
    <3> QED
      BY <1>3, <3>1
  <2>9. ASSUME NEW s \in config.sessions, Prewarmed(s) PROVE EvidenceStep
    BY <1>1, <1>8, <2>9
  <2> QED
    BY <1>4, <1>9, <1>16, <1>19, <2>9, <2>1, <2>2, <2>3, <2>4, <2>5, <2>6, <2>7, <2>8, Zenon
    DEF AgentStep
<1> QED
  BY <1>18, <1>19, Zenon DEF RemediationNext

\* The invariant gives what is said of the answers.
LEMMA AnswersAgree ==
  ASSUME EvidenceInv
  PROVE  AnswersAreEvidenced
<1> SUFFICES ASSUME NEW s \in Sessions, Recommended(answer[s])
             PROVE  LET a == answer[s]
                        d == a.decision
                    IN  /\ {e.event : e \in {x \in events : x.kind = "emitted" /\ x.rec = d.id}}
                              = {a.event}
                        /\ \A kept \in decisions : kept.id = d.id => kept = d
                        /\ StatusName(d.algorithm) \in GetLearningStatus.algorithms
                        /\ d.algorithm # "heuristic_v1" =>
                              /\ \E t \in Tools : <<a.from, t>> \in TakenKeys
                              /\ a.from = d.sig \/ a.prewarmed
  BY Zenon DEF AnswersAreEvidenced
<1>1. PICK a : a = answer[s]
  OBVIOUS
<1>2. /\ \E e \in events : e.kind = "emitted" /\ e.rec = a.decision.id
      /\ \A e \in events : e.kind = "emitted" /\ e.rec = a.decision.id => e.event = a.event
      /\ \A d \in decisions : d.id = a.decision.id => d = a.decision
      /\ a.decision.algorithm \in {"heuristic_v1", "beta_thompson_sampling",
                                   "neural_thompson_sampling", "hylinucb_hybrid"}
      /\ a.decision.algorithm # "heuristic_v1" =>
            /\ config.policies
            /\ \E t \in Tools : <<a.from, t>> \in TakenKeys
            /\ a.from = a.decision.sig \/ a.prewarmed
  BY <1>1 DEF EvidenceInv, AnswerHolds
<1>3. {e.event : e \in {x \in events : x.kind = "emitted" /\ x.rec = a.decision.id}} = {a.event}
  BY <1>2
<1>4. StatusName(a.decision.algorithm) \in GetLearningStatus.algorithms
  <2>1. GetLearningStatus.algorithms =
            {"heuristic_v1"} \cup
                (IF config.policies THEN {"thompson_sampling", "neural_ts"} ELSE {})
    BY DEF GetLearningStatus
  <2> QED
    BY <1>2, <2>1 DEF StatusName
<1> QED
  BY <1>1, <1>2, <1>3, <1>4

\* Nothing is answered or stored at first.
LEMMA EvidenceStarts ==
  ASSUME Init
  PROVE  EvidenceInv
<1>1. /\ config \in Configs /\ decisions = {} /\ events = {}
      /\ files = [s \in Sessions |-> {}] /\ policies = [k \in Keys |-> None]
      /\ warm = [s \in Sessions |-> Cold("loading")] /\ asking = [s \in Sessions |-> NoCall]
      /\ answer = [s \in Sessions |-> None]
      /\ used = [invocations |-> 0, answers |-> 0, changes |-> 0]
  BY Zenon DEF Init, LearnerInit
<1>2. \A s \in Sessions : AnswerHolds(answer[s])
  BY <1>1 DEF AnswerHolds, Recommended
<1>3. ASSUME NEW s \in Sessions PROVE warm[s].pc # "ready" /\ CallHolds(asking[s])
  BY <1>1 DEF Cold, NoCall, CallHolds
<1>4. used = [invocations |-> used.invocations, answers |-> used.answers,
              changes |-> used.changes] /\ used.answers \in Nat
  BY <1>1
<1>5. StoreHolds /\ files \in [Sessions -> SUBSET Files]
  BY <1>1 DEF StoreHolds
<1> QED
  BY <1>1, <1>2, <1>3, <1>4, <1>5 DEF EvidenceInv

\* The evidence of a recommendation holds (recommender.go, RecommendTools; service.go,
\* GetLearningStatus): one event was handed to the bus for an answer, with the id it names; the
\* decision found under its id is the one answered; its algorithm is listed as active (HyLinUCB,
\* which never is, under the name of its policy reader); and a learned answer rests on a policy
\* the store took for the signature its data were read for, which is the decision's unless the
\* session was prewarmed.  For any number of sessions, whatever was learned, expired, restarted
\* or answered to others in between.
THEOREM EvidenceAgreesWithAnswers == RemediationSpec => []AnswersAreEvidenced
<1> DEFINE Inv == EvidenceInv /\ AgentHolds
<1>1. RemediationInit => Inv
  <2> SUFFICES ASSUME RemediationInit PROVE Inv
    OBVIOUS
  <2>1. Init /\ agent = NoRun
    BY Zenon DEF RemediationInit
  <2>2. AgentHolds
    BY <2>1 DEF AgentHolds, NoRun
  <2> QED
    BY <2>1, <2>2, EvidenceStarts
<1>2. Inv /\ [RemediationNext]_remediationVars => Inv'
  <2>1. ASSUME Inv, RemediationNext PROVE Inv'
    <3>1. EvidenceInv'
      BY <2>1, EvidenceFrame, StoreFrame, EvidenceStepKeeps
    <3>2. config \in Configs
      BY <2>1 DEF EvidenceInv
    <3>3. AgentHolds'
      BY <2>1, <3>2, AgentKeeps
    <3> QED
      BY <3>1, <3>3
  <2>2. ASSUME Inv, UNCHANGED remediationVars PROVE Inv'
    <3>1. UNCHANGED evidenceVars /\ UNCHANGED used /\ UNCHANGED agent
      BY <2>2, Zenon DEF remediationVars, agentVars, vars, runtimeVars, evidenceVars
    <3>2. EvidenceInv'
      <4>1. UNCHANGED <<policies, stored>>
        BY <2>2, Zenon DEF remediationVars, vars, learnerVars
      <4>2. StoreStep
        BY <2>2, <4>1, StoreMoves
      <4> QED
        BY <2>2, <3>1, <4>2, BoundsGrow, EvidenceRests, EvidenceStepKeeps
    <3> QED
      BY <2>2, <3>1, <3>2 DEF AgentHolds
  <2> QED
    BY <2>1, <2>2
<1>3. Inv => AnswersAreEvidenced
  BY AnswersAgree
<1> QED
  BY <1>1, <1>2, <1>3, PTL DEF RemediationSpec

-----------------------------------------------------------------------------
(* The feedback of the remediation agent. *)

Fields == {"pc", "alert", "session", "recTools", "recID", "left", "status", "steps"}

\* The fields of the playbook under way after each of the changes the agent makes to it.
LEMMA AgentFields ==
  /\ DOMAIN NoRun = Fields /\ NoRun.pc = "idle" /\ NoRun.steps = <<>>
  /\ \A r, s : DOMAIN r = Fields =>
        LET q == [r EXCEPT !.pc = "recommend", !.session = s]
        IN  /\ DOMAIN q = Fields /\ q.pc = "recommend" /\ q.session = s
            /\ q.alert = r.alert /\ q.steps = r.steps
  /\ \A r, x, y, z : DOMAIN r = Fields =>
        LET q == [r EXCEPT !.pc = "invoke", !.recTools = x, !.recID = y, !.left = z]
        IN  /\ DOMAIN q = Fields /\ q.pc = "invoke" /\ q.recTools = x /\ q.recID = y
            /\ q.left = z /\ q.session = r.session /\ q.alert = r.alert /\ q.steps = r.steps
  /\ \A r, x : DOMAIN r = Fields =>
        LET q == [r EXCEPT !.pc = "invoking", !.status = x]
        IN  /\ DOMAIN q = Fields /\ q.pc = "invoking" /\ q.status = x
            /\ q.session = r.session /\ q.alert = r.alert /\ q.steps = r.steps
            /\ q.recTools = r.recTools /\ q.recID = r.recID /\ q.left = r.left
  /\ \A r, x, y : DOMAIN r = Fields =>
        LET q == [r EXCEPT !.pc = "invoke", !.left = x, !.steps = y]
        IN  /\ DOMAIN q = Fields /\ q.pc = "invoke" /\ q.left = x /\ q.steps = y
            /\ q.session = r.session /\ q.alert = r.alert
            /\ q.recTools = r.recTools /\ q.recID = r.recID
  /\ \A r : DOMAIN r = Fields =>
        LET q == [r EXCEPT !.pc = "close"]
        IN  DOMAIN q = Fields /\ q.pc = "close" /\ q.session = r.session /\ q.alert = r.alert
  /\ \A n : LET q == [NoRun EXCEPT !.pc = "create", !.alert = n]
            IN  DOMAIN q = Fields /\ q.pc = "create" /\ q.alert = n /\ q.steps = <<>>
<1>1. DOMAIN NoRun = Fields /\ NoRun.pc = "idle" /\ NoRun.steps = <<>>
  BY DEF NoRun, Fields
<1>2. ASSUME NEW r, NEW s, DOMAIN r = Fields
      PROVE  LET q == [r EXCEPT !.pc = "recommend", !.session = s]
             IN  /\ DOMAIN q = Fields /\ q.pc = "recommend" /\ q.session = s
                 /\ q.alert = r.alert /\ q.steps = r.steps
  BY <1>2 DEF Fields
<1>3. ASSUME NEW r, NEW x, NEW y, NEW z, DOMAIN r = Fields
      PROVE  LET q == [r EXCEPT !.pc = "invoke", !.recTools = x, !.recID = y, !.left = z]
             IN  /\ DOMAIN q = Fields /\ q.pc = "invoke" /\ q.recTools = x /\ q.recID = y
                 /\ q.left = z /\ q.session = r.session /\ q.alert = r.alert /\ q.steps = r.steps
  BY <1>3 DEF Fields
<1>4. ASSUME NEW r, NEW x, DOMAIN r = Fields
      PROVE  LET q == [r EXCEPT !.pc = "invoking", !.status = x]
             IN  /\ DOMAIN q = Fields /\ q.pc = "invoking" /\ q.status = x
                 /\ q.session = r.session /\ q.alert = r.alert /\ q.steps = r.steps
                 /\ q.recTools = r.recTools /\ q.recID = r.recID /\ q.left = r.left
  BY <1>4 DEF Fields
<1>5. ASSUME NEW r, NEW x, NEW y, DOMAIN r = Fields
      PROVE  LET q == [r EXCEPT !.pc = "invoke", !.left = x, !.steps = y]
             IN  /\ DOMAIN q = Fields /\ q.pc = "invoke" /\ q.left = x /\ q.steps = y
                 /\ q.session = r.session /\ q.alert = r.alert
                 /\ q.recTools = r.recTools /\ q.recID = r.recID
  BY <1>5 DEF Fields
<1>6. ASSUME NEW r, DOMAIN r = Fields
      PROVE  LET q == [r EXCEPT !.pc = "close"]
             IN  DOMAIN q = Fields /\ q.pc = "close" /\ q.session = r.session /\ q.alert = r.alert
  BY <1>6 DEF Fields
<1>7. ASSUME NEW n
      PROVE  LET q == [NoRun EXCEPT !.pc = "create", !.alert = n]
             IN  DOMAIN q = Fields /\ q.pc = "create" /\ q.alert = n /\ q.steps = <<>>
  BY <1>1 DEF Fields
<1> QED
  BY <1>1, <1>2, <1>3, <1>4, <1>5, <1>6, <1>7, Zenon

\* A step that hands no feedback to the bus.
Quiet == \A e \in events' : e.kind # "emitted" => e \in events

\* What an answered recommendation gives the agent.
LEMMA RecommendGives ==
  ASSUME EvidenceInv, NEW s \in Sessions, Recommend(s)
  PROVE  /\ Quiet /\ live' = live
         /\ \/ answer' = answer
            \/ \E a : /\ answer' = [answer EXCEPT ![s] = a]
                      /\ \/ a.code # "ok"
                         \/ /\ a.decision.id = used.answers + 1
                            /\ used'.answers = used.answers + 1
                            /\ a.decision.tools # <<>> => a.decision.tools[1] \in Tools
<1>1. CASE RecommendPolicies(s) \/ RecommendModel(s)
  <2>1. answer' = answer /\ events' = events /\ live' = live
    BY <1>1, Zenon DEF RecommendPolicies, RecommendModel
  <2> QED
    BY <2>1 DEF Quiet
<1>2. CASE RecommendTools(s)
  <2>1. events' = events /\ live' = live
    BY <1>2, Zenon DEF RecommendTools
  <2>2. \/ answer' = [answer EXCEPT ![s] = Answer("RecommendTools", "not_found")]
        \/ answer' = answer
    BY <1>2, Zenon DEF RecommendTools
  <2>3. Answer("RecommendTools", "not_found").code # "ok"
    BY DEF Answer
  <2> QED
    BY <2>1, <2>2, <2>3 DEF Quiet
<1>3. ASSUME NEW k \in TopKs, NEW hint, NEW draw, RecommendAnswer(s, k, hint, draw)
      PROVE  /\ Quiet /\ live' = live
             /\ \E a : /\ answer' = [answer EXCEPT ![s] = a]
                       /\ a.decision.id = used.answers + 1
                       /\ used'.answers = used.answers + 1
                       /\ a.decision.tools # <<>> => a.decision.tools[1] \in Tools
  <2>1. /\ events' = events \cup {EmittedEvent(used.answers + 1)} /\ live' = live
        /\ used' = [used EXCEPT !.answers = used.answers + 1]
    BY <1>3, Zenon DEF RecommendAnswer
  <2>2. used'.answers = used.answers + 1
    BY <2>1, BoundsGrow
  <2>3. EmittedEvent(used.answers + 1).kind = "emitted"
    BY DEF EmittedEvent
  <2>4. Quiet
    BY <2>1, <2>3 DEF Quiet
  <2> QED
    BY <1>3, <2>1, <2>2, <2>4, AnswerGiven, Zenon
<1> QED
  BY <1>1, <1>2, <1>3, Zenon DEF Recommend

\* What AgentInv says of a step that leaves the playbook alone: it hands over no feedback, and
\* opens no session.
LEMMA AgentRests ==
  ASSUME AgentInv, UNCHANGED agentVars, config' = config, live' \subseteq live, Quiet,
         used.answers \in Nat, used'.answers \in Nat, used.answers <= used'.answers,
         agent.pc = "recommend" => answer'[agent.session] = answer[agent.session]
  PROVE  AgentInv'
<1>1. agent' = agent /\ stray' = stray /\ ran' = ran
  BY DEF agentVars
<1>2. SessionsAreHeld'
  BY <1>1 DEF AgentInv, SessionsAreHeld
<1>3. FeedbackIsNew'
  BY <1>1 DEF AgentInv, FeedbackIsNew, Quiet
<1>4. StepsHold'
  BY <1>1, Zenon DEF AgentInv, StepsHold
<1>5. DOMAIN agent' = DOMAIN NoRun /\ DOMAIN ran' = Sessions
  BY <1>1 DEF AgentInv
<1> QED
  BY <1>2, <1>3, <1>4, <1>5, Zenon DEF AgentInv

\* A playbook that is not yet, or not any more, at its tools.
LEMMA AgentAway ==
  ASSUME AgentInv, config' = config, Quiet, DOMAIN agent' = Fields, DOMAIN ran' = Sessions,
         used.answers \in Nat, used'.answers \in Nat, used.answers <= used'.answers,
         agent'.pc \in {"idle", "create", "close"},
         config.part # "agent" => agent'.pc = "idle",
         agent'.pc = "close" => agent'.session \in Sessions,
         config.part = "agent" =>
             IF agent'.pc \in {"idle", "create"} THEN live' \subseteq stray'
             ELSE live' \subseteq stray' \cup {agent'.session},
         agent'.pc = "idle" \/ agent'.alert \in DOMAIN Playbooks,
         agent'.pc = "create" => agent'.steps = <<>>
  PROVE  AgentInv'
<1>1. SessionsAreHeld'
  BY DEF SessionsAreHeld
<1>2. FeedbackIsNew'
  BY DEF AgentInv, FeedbackIsNew, Quiet
<1>3. StepsHold'
  BY DEF StepsHold
<1>4. DOMAIN agent' = DOMAIN NoRun
  BY AgentFields
<1> QED
  BY <1>1, <1>2, <1>3, <1>4, Zenon DEF AgentInv

\* A step of the agent that touches the playbook alone, or ends it.
LEMMA AgentMoves ==
  ASSUME EvidenceInv, AgentInv, config.part = "agent",
         \/ \E a \in Alerts : HandleAlert(a)
         \/ CreateFails \/ RecommendFails \/ CloseSession \/ AgentRestart
  PROVE  AgentInv'
<1>1. /\ DOMAIN agent = Fields /\ DOMAIN ran = Sessions /\ used.answers \in Nat
      /\ SessionsAreHeld /\ StepsHold
  BY AgentFields DEF AgentInv, EvidenceInv
<1>2. ASSUME UNCHANGED vars
      PROVE  /\ config' = config /\ live' = live /\ events' = events /\ used' = used
             /\ answer' = answer /\ Quiet
  <2>1. /\ config' = config /\ live' = live /\ events' = events /\ used' = used
        /\ answer' = answer
    BY <1>2, Zenon DEF vars, runtimeVars
  <2> QED
    BY <2>1 DEF Quiet
<1>3. ASSUME NEW a \in Alerts, HandleAlert(a) PROVE AgentInv'
  <2>1. /\ agent.pc = "idle" /\ UNCHANGED vars /\ stray' = stray /\ ran' = ran
        /\ \/ agent' = agent
           \/ /\ a.name \in DOMAIN Playbooks
              /\ agent' = [NoRun EXCEPT !.pc = "create", !.alert = a.name]
    BY <1>3, Zenon DEF HandleAlert, MatchPlaybook
  <2>2. live \subseteq stray
    BY <1>1, <2>1 DEF SessionsAreHeld
  <2>3. CASE agent' = agent
    BY <1>1, <1>2, <2>1, <2>2, <2>3, AgentAway
  <2>4. CASE /\ a.name \in DOMAIN Playbooks
             /\ agent' = [NoRun EXCEPT !.pc = "create", !.alert = a.name]
    <3>1. /\ DOMAIN agent' = Fields /\ agent'.pc = "create" /\ agent'.alert = a.name
          /\ agent'.steps = <<>>
      BY <2>4, AgentFields
    <3> QED
      BY <1>1, <1>2, <2>1, <2>2, <2>4, <3>1, AgentAway
  <2> QED
    BY <2>1, <2>3, <2>4
<1>4. ASSUME agent' = NoRun, config' = config, Quiet, ran' = ran, used'.answers = used.answers,
             live' \subseteq stray'
      PROVE  AgentInv'
  <2>1. DOMAIN agent' = Fields /\ agent'.pc = "idle"
    BY <1>4, AgentFields
  <2> QED
    BY <1>1, <1>4, <2>1, AgentAway
<1>5. CASE CreateFails
  <2>1. agent.pc = "create" /\ agent' = NoRun /\ UNCHANGED vars /\ stray' = stray /\ ran' = ran
    BY <1>5, Zenon DEF CreateFails
  <2>2. live' \subseteq stray'
    BY <1>1, <1>2, <2>1 DEF SessionsAreHeld
  <2> QED
    BY <1>2, <1>4, <2>1, <2>2
<1>6. CASE RecommendFails
  <2>1. /\ agent.pc = "recommend" /\ agent' = [agent EXCEPT !.pc = "close"] /\ UNCHANGED vars
        /\ stray' = stray /\ ran' = ran
    BY <1>6, Zenon DEF RecommendFails
  <2>2. /\ DOMAIN agent' = Fields /\ agent'.pc = "close" /\ agent'.session = agent.session
        /\ agent'.alert = agent.alert
    BY <1>1, <2>1, AgentFields
  <2>3. agent.session \in Sessions /\ live \subseteq stray \cup {agent.session}
    BY <1>1, <2>1 DEF SessionsAreHeld
  <2>4. agent.alert \in DOMAIN Playbooks
    BY <1>1, <2>1 DEF StepsHold
  <2> QED
    BY <1>1, <1>2, <2>1, <2>2, <2>3, <2>4, AgentAway
<1>7. CASE CloseSession
  <2>1. /\ agent.pc = "close" /\ agent' = NoRun /\ config' = config /\ events' = events
        /\ used' = used /\ ran' = ran
        /\ \/ live' = live \ {agent.session} /\ stray' = stray
           \/ stray' = stray \cup {agent.session} /\ live' = live
    BY <1>7, Zenon DEF CloseSession
  <2>2. live \subseteq stray \cup {agent.session}
    BY <1>1, <2>1 DEF SessionsAreHeld
  <2>3. Quiet
    BY <2>1 DEF Quiet
  <2> QED
    BY <1>4, <2>1, <2>2, <2>3
<1>8. CASE AgentRestart
  <2>1. /\ agent.pc # "idle" /\ Change /\ agent' = NoRun /\ config' = config /\ live' = live
        /\ events' = events /\ ran' = ran
        /\ stray' = IF agent.session = None THEN stray ELSE stray \cup {agent.session}
    BY <1>8, Zenon DEF AgentRestart
  <2>2. used'.answers = used.answers
    BY <2>1, BoundsGrow
  <2>3. Quiet
    BY <2>1 DEF Quiet
  <2>4. live \subseteq stray'
    <3>1. CASE agent.pc = "create"
      BY <1>1, <2>1, <3>1 DEF SessionsAreHeld
    <3>2. CASE agent.pc # "create"
      BY <1>1, <2>1, <3>2, RemediationAssumption DEF SessionsAreHeld
    <3> QED
      BY <3>1, <3>2
  <2> QED
    BY <1>4, <2>1, <2>2, <2>3, <2>4
<1> QED
  BY <1>3, <1>5, <1>6, <1>7, <1>8

\* A session is made: it is the agent's, or stray.
LEMMA AgentCreates ==
  ASSUME EvidenceInv, AgentInv, config.part = "agent", NEW s \in config.sessions,
         CreateSession(s)
  PROVE  AgentInv'
<1>1. /\ DOMAIN agent = Fields /\ DOMAIN ran = Sessions /\ used.answers \in Nat
      /\ DOMAIN answer = Sessions /\ s \in Sessions
      /\ SessionsAreHeld /\ FeedbackIsNew /\ StepsHold
  BY AgentFields, RecommenderAssumption DEF AgentInv, EvidenceInv
<1>2. /\ agent.pc = "create" /\ ran' = [ran EXCEPT ![s] = {}] /\ live' = live \cup {s}
      /\ answer' = [answer EXCEPT ![s] = None] /\ config' = config /\ events' = events
      /\ used' = used
      /\ \/ agent' = [agent EXCEPT !.pc = "recommend", !.session = s] /\ stray' = stray
         \/ agent' = NoRun /\ stray' = stray \cup {s}
  BY Zenon DEF CreateSession
<1>3. Quiet /\ DOMAIN ran' = Sessions /\ ran'[s] = {} /\ answer'[s] = None
  BY <1>1, <1>2 DEF Quiet
<1>4. live' \subseteq stray \cup {s}
  BY <1>1, <1>2 DEF SessionsAreHeld
<1>5. agent.alert \in DOMAIN Playbooks /\ agent.steps = <<>>
  BY <1>1, <1>2 DEF StepsHold
<1>6. CASE agent' = NoRun /\ stray' = stray \cup {s}
  <2>1. DOMAIN agent' = Fields /\ agent'.pc = "idle"
    BY <1>6, AgentFields
  <2> QED
    BY <1>1, <1>2, <1>3, <1>4, <1>6, <2>1, AgentAway
<1>7. CASE agent' = [agent EXCEPT !.pc = "recommend", !.session = s] /\ stray' = stray
  <2>1. /\ DOMAIN agent' = Fields /\ agent'.pc = "recommend" /\ agent'.session = s
        /\ agent'.alert = agent.alert /\ agent'.steps = agent.steps
    BY <1>1, <1>7, AgentFields
  <2>2. SessionsAreHeld'
    BY <1>1, <1>2, <1>4, <1>7, <2>1 DEF SessionsAreHeld
  <2>3. FeedbackIsNew'
    BY <1>1, <1>2, <1>3, <2>1 DEF FeedbackIsNew
  <2>4. StepsHold'
    BY <1>3, <1>5, <2>1 DEF StepsHold
  <2> QED
    BY <1>3, <2>1, <2>2, <2>3, <2>4, AgentFields DEF AgentInv
<1> QED
  BY <1>2, <1>6, <1>7

\* The tools that will be called for are tools.
LEMMA ToolsAreTools ==
  ASSUME NEW alert \in DOMAIN Playbooks, NEW recTools,
         recTools # <<>> => recTools[1] \in Tools
  PROVE  ToolsOf(alert, recTools) \in Seq(Tools)
<1>1. Playbooks[alert] \in Seq(Tools)
  BY RemediationAssumption
<1> QED
  BY <1>1 DEF ToolsOf

\* A recommendation that is answered has a new id, which no feedback names yet.
LEMMA AgentRecommends ==
  ASSUME EvidenceInv, AgentInv, config.part = "agent", RecommendCall
  PROVE  AgentInv'
<1> DEFINE s == agent.session
           a == answer'[s]
<1>1. /\ DOMAIN agent = Fields /\ DOMAIN ran = Sessions /\ used.answers \in Nat
      /\ DOMAIN answer = Sessions
      /\ SessionsAreHeld /\ FeedbackIsNew /\ StepsHold
  BY AgentFields DEF AgentInv, EvidenceInv
<1>2. /\ agent.pc = "recommend" /\ Recommend(s) /\ stray' = stray /\ ran' = ran
      /\ alerts' = alerts
      /\ agent' = IF a = None THEN agent
                  ELSE IF a.code # "ok" THEN [agent EXCEPT !.pc = "close"]
                  ELSE [agent EXCEPT !.pc = "invoke", !.recTools = a.decision.tools,
                           !.recID = a.decision.id,
                           !.left = ToolsOf(agent.alert, a.decision.tools)]
  BY Zenon DEF RecommendCall
<1>3. /\ s \in Sessions /\ live \subseteq stray \cup {s} /\ answer[s] = None /\ ran[s] = {}
      /\ agent.alert \in DOMAIN Playbooks /\ agent.steps = <<>>
  BY <1>1, <1>2 DEF SessionsAreHeld, FeedbackIsNew, StepsHold
<1>4. /\ Quiet /\ live' = live
      /\ \/ a = None
         \/ a.code # "ok"
         \/ /\ a.decision.id = used.answers + 1 /\ used'.answers = used.answers + 1
            /\ a.decision.tools # <<>> => a.decision.tools[1] \in Tools
  BY <1>1, <1>2, <1>3, RecommendGives
<1>5. config' = config /\ used'.answers \in Nat /\ used.answers <= used'.answers
  <2>1. AgentHolds
    BY <1>1, <1>3 DEF AgentHolds, Fields
  <2>2. RemediationNext
    BY Zenon DEF RemediationNext, AgentStep
  <2>3. EvidenceStep
    BY <2>1, <2>2, EvidenceFrame
  <2> QED
    BY <1>1, <2>3 DEF EvidenceStep, UsedGrows
<1> HIDE DEF a
<1>6. CASE a = None
  <2>1. agent' = agent /\ a = answer[s]
    BY <1>2, <1>3, <1>6
  <2>2. UNCHANGED agentVars
    BY <1>2, <2>1 DEF agentVars
  <2> QED
    BY <1>1, <1>4, <1>5, <2>1, <2>2, AgentRests DEF a
<1>7. CASE a # None /\ a.code # "ok"
  <2>1. agent' = [agent EXCEPT !.pc = "close"]
    BY <1>2, <1>7
  <2>2. /\ DOMAIN agent' = Fields /\ agent'.pc = "close" /\ agent'.session = s
        /\ agent'.alert = agent.alert
    BY <1>1, <2>1, AgentFields
  <2> QED
    BY <1>1, <1>2, <1>3, <1>4, <1>5, <2>2, AgentAway
<1>8. CASE a # None /\ a.code = "ok"
  <2> DEFINE tools == a.decision.tools
             left == ToolsOf(agent.alert, tools)
  <2>1. agent' = [agent EXCEPT !.pc = "invoke", !.recTools = tools,
                               !.recID = a.decision.id, !.left = left]
    BY <1>2, <1>8
  <2>2. /\ a.decision.id = used.answers + 1 /\ used'.answers = used.answers + 1
        /\ tools # <<>> => tools[1] \in Tools
    BY <1>4, <1>8
  <2>3. left \in Seq(Tools)
    BY <1>3, <2>2, ToolsAreTools
  <2> HIDE DEF tools
  <2>4. /\ DOMAIN agent' = Fields /\ agent'.pc = "invoke" /\ agent'.recTools = tools
        /\ agent'.recID = a.decision.id /\ agent'.left = left /\ agent'.session = s
        /\ agent'.alert = agent.alert /\ agent'.steps = agent.steps
    BY <1>1, <2>1, AgentFields
  <2>5. SessionsAreHeld'
    BY <1>1, <1>2, <1>3, <1>4, <1>5, <2>4 DEF SessionsAreHeld
  <2>6. FeedbackIsNew'
    <3>1. \A e \in events' : e.kind # "emitted" => e.rec \in 0..used.answers
      BY <1>1, <1>4 DEF FeedbackIsNew, Quiet
    <3> QED
      BY <1>1, <2>2, <2>4, <3>1 DEF FeedbackIsNew
  <2>7. StepsHold'
    <3>1. agent'.steps = <<>> /\ ran'[agent'.session] = {} /\ agent'.alert \in DOMAIN Playbooks
      BY <1>2, <1>3, <2>4
    <3>2. agent'.left = ToolsOf(agent'.alert, agent'.recTools)
      BY <2>4
    <3>3. /\ agent'.left \in Seq(Tools)
          /\ agent'.steps \in Seq([tool : Tools, status : StatusNames])
          /\ DOMAIN agent'.steps = {}
      BY <2>3, <2>4, <3>1
    <3>4. ToSet(ToolsOf(agent'.alert, agent'.recTools)) =
              {agent'.steps[i].tool : i \in DOMAIN agent'.steps} \cup ToSet(agent'.left)
      BY <3>2, <3>3
    <3> QED
      BY <2>4, <3>1, <3>3, <3>4 DEF StepsHold
  <2> QED
    BY <1>1, <1>2, <2>4, <2>5, <2>6, <2>7, AgentFields DEF AgentInv
<1> QED
  BY <1>6, <1>7, <1>8

\* A tool is called: what the runtime has of it is awaited, unless the call failed before it
\* got there.
LEMMA AgentInvokes ==
  ASSUME EvidenceInv, AgentInv, config.part = "agent", InvokeTool
  PROVE  AgentInv'
<1> DEFINE s == agent.session
           t == Head(agent.left)
<1>1. /\ DOMAIN agent = Fields /\ DOMAIN ran = Sessions /\ used.answers \in Nat
      /\ SessionsAreHeld /\ FeedbackIsNew /\ StepsHold
  BY AgentFields DEF AgentInv, EvidenceInv
<1>2. PICK status \in StatusNames :
          /\ agent.pc = "invoke" /\ agent.left # <<>> /\ stray' = stray
          /\ agent' = [agent EXCEPT !.pc = "invoking", !.status = status]
          /\ \/ /\ status # "error"
                /\ InvocationEnds(s, t, status, 1)
                /\ ran' = [ran EXCEPT ![s] = @ \cup {<<t, status>>}]
             \/ status = "error" /\ UNCHANGED vars /\ ran' = ran
  <2>1. /\ agent.pc = "invoke" /\ agent.left # <<>> /\ stray' = stray
        /\ \/ \E status \in {"succeeded", "failed", "denied"} :
                 /\ InvocationEnds(s, t, status, 1)
                 /\ agent' = [agent EXCEPT !.pc = "invoking", !.status = status]
                 /\ ran' = [ran EXCEPT ![s] = @ \cup {<<t, status>>}]
           \/ /\ agent' = [agent EXCEPT !.pc = "invoking", !.status = "error"]
              /\ UNCHANGED vars /\ ran' = ran
    BY Zenon DEF InvokeTool
  <2>2. CASE /\ agent' = [agent EXCEPT !.pc = "invoking", !.status = "error"]
             /\ UNCHANGED vars /\ ran' = ran
    <3>1. "error" \in StatusNames
      BY DEF StatusNames
    <3> QED
      BY <2>1, <2>2, <3>1, Zenon
  <2>3. ASSUME NEW status \in {"succeeded", "failed", "denied"},
               InvocationEnds(s, t, status, 1),
               agent' = [agent EXCEPT !.pc = "invoking", !.status = status],
               ran' = [ran EXCEPT ![s] = @ \cup {<<t, status>>}]
        PROVE  \E st \in StatusNames :
                  /\ agent' = [agent EXCEPT !.pc = "invoking", !.status = st]
                  /\ \/ /\ st # "error"
                        /\ InvocationEnds(s, t, st, 1)
                        /\ ran' = [ran EXCEPT ![s] = @ \cup {<<t, st>>}]
                     \/ st = "error" /\ UNCHANGED vars /\ ran' = ran
    <3>1. status \in StatusNames /\ status # "error"
      BY DEF StatusNames
    <3> QED
      BY <2>3, <3>1, Zenon
  <2> QED
    BY <2>1, <2>2, <2>3, Zenon
<1>3. /\ DOMAIN agent' = Fields /\ agent'.pc = "invoking" /\ agent'.status = status
      /\ agent'.session = s /\ agent'.alert = agent.alert /\ agent'.steps = agent.steps
      /\ agent'.recTools = agent.recTools /\ agent'.recID = agent.recID
      /\ agent'.left = agent.left
  BY <1>1, <1>2, AgentFields
<1>4. /\ config' = config /\ live' = live /\ events' = events /\ used'.answers = used.answers
  <2>1. CASE UNCHANGED vars
    BY <2>1, Zenon DEF vars, runtimeVars
  <2>2. CASE InvocationEnds(s, t, status, 1)
    <3>1. /\ config' = config /\ live' = live /\ events' = events
          /\ used' = [used EXCEPT !.invocations = @ + 1]
      BY <2>2, Zenon DEF InvocationEnds
    <3>2. used'.answers = used.answers
      <4>1. "answers" \in DOMAIN used
        BY DEF EvidenceInv
      <4> QED
        BY <3>1, <4>1
    <3> QED
      BY <3>1, <3>2
  <2> QED
    BY <1>2, <2>1, <2>2
<1>5. s \in Sessions /\ live \subseteq stray \cup {s}
  BY <1>1, <1>2 DEF SessionsAreHeld
<1>6. /\ DOMAIN ran' = Sessions
      /\ ran'[s] = IF status = "error" THEN ran[s] ELSE ran[s] \cup {<<t, status>>}
  BY <1>1, <1>2, <1>5
<1>7. SessionsAreHeld'
  BY <1>2, <1>3, <1>4, <1>5 DEF SessionsAreHeld
<1>8. FeedbackIsNew'
  BY <1>1, <1>2, <1>3, <1>4 DEF FeedbackIsNew
<1>9. StepsHold'
  <2> DEFINE steps == agent.steps
             done == ran[s]
             done2 == ran'[s]
  <2>1. /\ agent.alert \in DOMAIN Playbooks /\ agent.left \in Seq(Tools)
        /\ steps \in Seq([tool : Tools, status : StatusNames])
        /\ ToSet(ToolsOf(agent.alert, agent.recTools)) =
               {steps[i].tool : i \in DOMAIN steps} \cup ToSet(agent.left)
    BY <1>1, <1>2 DEF StepsHold
  <2>2. \A i \in DOMAIN steps :
            steps[i].status # "error" => <<steps[i].tool, steps[i].status>> \in done
    BY <1>1, <1>2 DEF StepsHold
  <2>3. \A r \in done : \E i \in DOMAIN steps :
            \/ r = <<steps[i].tool, steps[i].status>>
            \/ steps[i].status = "error" /\ r[1] = steps[i].tool
    BY <1>1, <1>2 DEF StepsHold
  <2>4. /\ done \subseteq done2
        /\ status # "error" => <<t, status>> \in done2
        /\ \A r \in done2 : r \in done \/ r = <<t, status>>
    BY <1>6
  <2> HIDE DEF steps, done, done2
  <2>5. \A i \in DOMAIN steps :
            steps[i].status # "error" => <<steps[i].tool, steps[i].status>> \in done2
    BY <2>2, <2>4
  <2>6. \A r \in done2 :
            \/ r = <<t, status>>
            \/ \E i \in DOMAIN steps :
                  \/ r = <<steps[i].tool, steps[i].status>>
                  \/ steps[i].status = "error" /\ r[1] = steps[i].tool
    BY <2>3, <2>4
  <2>7. /\ agent'.steps = steps /\ ran'[agent'.session] = done2
        /\ Head(agent'.left) = t /\ agent'.left # <<>>
    BY <1>2, <1>3 DEF steps, done2
  <2> HIDE DEF t
  <2> QED
    BY <1>2, <1>3, <2>1, <2>4, <2>5, <2>6, <2>7, SMTT(30) DEF StepsHold
<1> QED
  BY <1>3, <1>6, <1>7, <1>8, <1>9, AgentFields DEF AgentInv

\* An answer, or an error in its place, is one more step: the tool it is about goes from what
\* is left to what was done.
LEMMA AgentAnswered ==
  ASSUME EvidenceInv, AgentInv, config.part = "agent", InvokeAnswered
  PROVE  AgentInv'
<1> DEFINE s == agent.session
           t == Head(agent.left)
<1>1. /\ DOMAIN agent = Fields /\ DOMAIN ran = Sessions /\ used.answers \in Nat
      /\ SessionsAreHeld /\ FeedbackIsNew /\ StepsHold
  BY AgentFields DEF AgentInv, EvidenceInv
<1>2. PICK status \in {agent.status, "error"} :
          /\ agent.pc = "invoking" /\ UNCHANGED vars /\ stray' = stray /\ ran' = ran
          /\ agent' = [agent EXCEPT !.pc = "invoke", !.left = Tail(@),
                          !.steps = Append(@, [tool |-> t, status |-> status])]
  BY Zenon DEF InvokeAnswered
<1> DEFINE new == [tool |-> t, status |-> status]
<1>3. /\ DOMAIN agent' = Fields /\ agent'.pc = "invoke" /\ agent'.left = Tail(agent.left)
      /\ agent'.steps = Append(agent.steps, new)
      /\ agent'.session = s /\ agent'.alert = agent.alert
      /\ agent'.recTools = agent.recTools /\ agent'.recID = agent.recID
  <2>1. agent' = [agent EXCEPT !.pc = "invoke", !.left = Tail(agent.left),
                               !.steps = Append(agent.steps, new)]
    BY <1>1, <1>2 DEF Fields
  <2> QED
    BY <1>1, <2>1, AgentFields
<1>4. config' = config /\ live' = live /\ events' = events /\ used' = used
  BY <1>2, Zenon DEF vars, runtimeVars
<1>5. s \in Sessions /\ live \subseteq stray \cup {s}
  BY <1>1, <1>2 DEF SessionsAreHeld
<1>6. SessionsAreHeld'
  BY <1>2, <1>3, <1>4, <1>5 DEF SessionsAreHeld
<1>7. FeedbackIsNew'
  BY <1>1, <1>2, <1>3, <1>4 DEF FeedbackIsNew
<1>8. StepsHold'
  <2> DEFINE steps == agent.steps
             left == agent.left
             done == ran[s]
             steps2 == Append(steps, new)
             Says(r, st) == \/ r = <<st.tool, st.status>>
                            \/ st.status = "error" /\ r[1] = st.tool
  <2>1. /\ agent.alert \in DOMAIN Playbooks /\ left \in Seq(Tools) /\ left # <<>>
        /\ steps \in Seq([tool : Tools, status : StatusNames])
        /\ agent.status \in StatusNames
        /\ agent.status # "error" => <<t, agent.status>> \in done
    BY <1>1, <1>2 DEF StepsHold
  <2>2. ToSet(ToolsOf(agent.alert, agent.recTools)) =
            {steps[i].tool : i \in DOMAIN steps} \cup ToSet(left)
    BY <1>1, <1>2 DEF StepsHold
  <2>3. \A i \in DOMAIN steps :
            steps[i].status # "error" => <<steps[i].tool, steps[i].status>> \in done
    BY <1>1, <1>2 DEF StepsHold
  <2>4. \A r \in done : r = <<t, agent.status>> \/ \E i \in DOMAIN steps : Says(r, steps[i])
    BY <1>1, <1>2 DEF StepsHold
  <2>5. t \in Tools /\ status \in StatusNames /\ Tail(left) \in Seq(Tools)
    BY <1>2, <2>1 DEF StatusNames
  <2>6. new \in [tool : Tools, status : StatusNames] /\ new.tool = t /\ new.status = status
    BY <2>5
  <2> HIDE DEF new
  <2>7. /\ steps2 \in Seq([tool : Tools, status : StatusNames])
        /\ DOMAIN steps2 = DOMAIN steps \cup {Len(steps) + 1}
        /\ steps2[Len(steps) + 1] = new
        /\ \A i \in DOMAIN steps : steps2[i] = steps[i]
    BY <2>1, <2>6
  <2> DEFINE m == Len(steps) + 1
  <2> HIDE DEF steps2, m
  <2>8. /\ DOMAIN steps2 = DOMAIN steps \cup {m} /\ steps2[m] = new
        /\ \A i \in DOMAIN steps : steps2[i] = steps[i]
    BY <2>7 DEF m
  <2>9. ToSet(left) = {t} \cup ToSet(Tail(left))
    <3>1. DOMAIN left = 1..Len(left) /\ Len(left) >= 1 /\ t = left[1]
      BY <2>1
    <3>2. /\ DOMAIN Tail(left) = 1..(Len(left) - 1)
          /\ \A i \in 1..(Len(left) - 1) : Tail(left)[i] = left[i + 1]
      BY <2>1
    <3>3. ASSUME NEW x \in ToSet(left) PROVE x = t \/ x \in ToSet(Tail(left))
      <4>1. PICK i \in 1..Len(left) : x = left[i]
        BY <3>1 DEF ToSet
      <4>2. i # 1 => i - 1 \in 1..(Len(left) - 1) /\ Tail(left)[i - 1] = x
        BY <3>1, <3>2, <4>1
      <4> QED
        BY <3>1, <3>2, <4>1, <4>2 DEF ToSet
    <3>4. ASSUME NEW x \in ToSet(Tail(left)) PROVE x \in ToSet(left)
      <4>1. PICK i \in 1..(Len(left) - 1) : x = left[i + 1]
        BY <3>2 DEF ToSet
      <4>2. i + 1 \in DOMAIN left
        BY <3>1, <4>1
      <4> QED
        BY <4>1, <4>2 DEF ToSet
    <3>5. t \in ToSet(left)
      BY <3>1 DEF ToSet
    <3> QED
      BY <3>3, <3>4, <3>5
  <2>10. {steps2[i].tool : i \in DOMAIN steps2} = {steps[i].tool : i \in DOMAIN steps} \cup {t}
    BY <2>6, <2>8
  <2>11. ToSet(ToolsOf(agent.alert, agent.recTools)) =
             {steps2[i].tool : i \in DOMAIN steps2} \cup ToSet(Tail(left))
    BY <2>2, <2>9, <2>10
  <2>12. \A i \in DOMAIN steps2 :
             steps2[i].status # "error" => <<steps2[i].tool, steps2[i].status>> \in done
    <3>1. status # "error" => <<t, status>> \in done
      BY <1>2, <2>1
    <3> QED
      BY <2>3, <2>6, <2>8, <3>1
  <2>13. \A r \in done : \E i \in DOMAIN steps2 : Says(r, steps2[i])
    <3> SUFFICES ASSUME NEW r \in done PROVE \E i \in DOMAIN steps2 : Says(r, steps2[i])
      OBVIOUS
    <3>1. CASE r = <<t, agent.status>>
      <4>1. r[1] = t
        BY <3>1
      <4>2. Says(r, new)
        BY <1>2, <2>6, <3>1, <4>1
      <4> QED
        BY <2>8, <4>2
    <3>2. ASSUME NEW i \in DOMAIN steps, Says(r, steps[i])
          PROVE  \E j \in DOMAIN steps2 : Says(r, steps2[j])
      BY <2>8, <3>2
    <3> QED
      BY <2>4, <3>1, <3>2
  <2>14. /\ agent'.steps = steps2 /\ ran'[agent'.session] = done
         /\ agent'.left = Tail(left)
    BY <1>2, <1>3 DEF steps2, new
  <2> HIDE DEF steps, left, done
  <2> QED
    BY <1>3, <2>1, <2>5, <2>7, <2>11, <2>12, <2>13, <2>14, ZenonT(40) DEF StepsHold
<1> QED
  BY <1>1, <1>2, <1>3, <1>6, <1>7, <1>8, AgentFields DEF AgentInv

\* The playbook ends with its feedback, if any: the id it names has had it now.
LEMMA AgentReports ==
  ASSUME EvidenceInv, AgentInv, config.part = "agent", ReportFeedback
  PROVE  AgentInv'
<1>1. /\ DOMAIN agent = Fields /\ DOMAIN ran = Sessions /\ used.answers \in Nat
      /\ SessionsAreHeld /\ FeedbackIsNew /\ StepsHold
  BY AgentFields DEF AgentInv, EvidenceInv
<1>2. /\ agent.pc = "invoke" /\ agent' = [agent EXCEPT !.pc = "close"]
      /\ stray' = stray /\ ran' = ran
      /\ UNCHANGED vars \/ \E kind : Feedback(agent.session, kind, agent.recID)
  BY Zenon DEF ReportFeedback
<1>3. /\ DOMAIN agent' = Fields /\ agent'.pc = "close" /\ agent'.session = agent.session
      /\ agent'.alert = agent.alert
  BY <1>1, <1>2, AgentFields
<1>4. /\ config' = config /\ live' = live
      /\ used'.answers \in Nat /\ used.answers <= used'.answers
      /\ \A e \in events' : e \in events \/ e.rec = agent.recID
  <2>1. CASE UNCHANGED vars
    <3>1. config' = config /\ live' = live /\ used' = used /\ events' = events
      BY <2>1, Zenon DEF vars, runtimeVars
    <3> QED
      BY <1>1, <3>1
  <2>2. ASSUME NEW kind, Feedback(agent.session, kind, agent.recID)
        PROVE  /\ config' = config /\ live' = live
               /\ used'.answers \in Nat /\ used.answers <= used'.answers
               /\ \A e \in events' : e \in events \/ e.rec = agent.recID
    <3>1. /\ config' = config /\ live' = live
          /\ used' = [used EXCEPT !.answers = used.answers + 1]
          /\ \/ events' = events
             \/ events' = events \cup {[kind |-> kind, rec |-> agent.recID,
                                        event |-> <<used.answers + 1, "bus">>]}
      BY <2>2, Zenon DEF Feedback
    <3>2. used'.answers = used.answers + 1
      BY <3>1, BoundsGrow
    <3> QED
      BY <1>1, <3>1, <3>2
  <2> QED
    BY <1>2, <2>1, <2>2
<1>5. /\ agent.session \in Sessions /\ live \subseteq stray \cup {agent.session}
      /\ agent.recID \in 1..used.answers /\ agent.alert \in DOMAIN Playbooks
  BY <1>1, <1>2 DEF SessionsAreHeld, FeedbackIsNew, StepsHold
<1>6. SessionsAreHeld'
  BY <1>2, <1>3, <1>4, <1>5 DEF SessionsAreHeld
<1>7. FeedbackIsNew'
  BY <1>1, <1>3, <1>4, <1>5 DEF FeedbackIsNew
<1>8. StepsHold'
  BY <1>3, <1>5 DEF StepsHold
<1> QED
  BY <1>1, <1>2, <1>3, <1>6, <1>7, <1>8, AgentFields DEF AgentInv

\* The runtime goes on by itself under a playbook.
LEMMA RuntimeGoesOn ==
  ASSUME EvidenceInv, NEW s \in Sessions,
         \/ recordTelemetry(s) \/ updateOnlineBandit(s) \/ Prewarmed(s) \/ SessionCloses(s)
         \/ agent.pc # "recommend" /\ Recommend(s)
  PROVE  /\ Quiet /\ live' \subseteq live
         /\ agent.pc = "recommend" => answer' = answer
<1>1. CASE recordTelemetry(s) \/ updateOnlineBandit(s) \/ Prewarmed(s)
  <2>1. events' = events /\ live' = live /\ answer' = answer
    BY <1>1, Zenon DEF recordTelemetry, updateOnlineBandit, Prewarmed
  <2> QED
    BY <2>1 DEF Quiet
<1>2. CASE SessionCloses(s)
  <2>1. events' = events /\ live' = live \ {s} /\ answer' = answer
    BY <1>2, Zenon DEF SessionCloses
  <2> QED
    BY <2>1 DEF Quiet
<1>3. CASE agent.pc # "recommend" /\ Recommend(s)
  BY <1>3, RecommendGives
<1> QED
  BY <1>1, <1>2, <1>3

\* Without the agent, feedback names a decision that was stored, or none.
LEMMA ServiceFeedback ==
  ASSUME EvidenceInv, Next, NEW e \in events', e.kind # "emitted"
  PROVE  e \in events \/ e.rec \in 0..used.answers
<1>1. used.answers \in Nat /\ config.sessions \subseteq Sessions
  BY RecommenderAssumption DEF EvidenceInv
<1>2. ASSUME events' = events PROVE e \in events
  BY <1>2
<1>3. CASE LearnerStep \/ aggregate \/ Restart \/ DecisionExpires
  <2>1. events' = events
    BY <1>3, Zenon DEF LearnerStep, aggregate, Restart, DecisionExpires
  <2> QED
    BY <1>2, <2>1
<1>4. ASSUME NEW s \in config.sessions, ServiceStep(s)
      PROVE  e \in events \/ e.rec \in 0..used.answers
  <2>1. ASSUME NEW t, NEW status, NEW n, InvocationEnds(s, t, status, n) PROVE e \in events
    BY <2>1, Zenon DEF InvocationEnds
  <2>2. CASE \/ recordTelemetry(s) \/ updateOnlineBandit(s) \/ Prewarmed(s)
             \/ WorkspaceChanges(s) \/ SessionCloses(s)
    <3>1. events' = events
      BY <2>2, Zenon DEF recordTelemetry, updateOnlineBandit, Prewarmed, WorkspaceChanges,
                         SessionCloses
    <3> QED
      BY <1>2, <3>1
  <2>3. CASE Recommend(s)
    BY <1>1, <2>3, RecommendGives DEF Quiet
  <2>4. ASSUME NEW kind, NEW rec \in {d.id : d \in decisions} \cup {0}, Feedback(s, kind, rec)
        PROVE  e \in events \/ e.rec \in 0..used.answers
    <3>1. \/ events' = events
          \/ events' = events \cup {[kind |-> kind, rec |-> rec,
                                     event |-> <<used.answers + 1, "bus">>]}
      BY <2>4, Zenon DEF Feedback
    <3>2. rec \in 0..used.answers
      BY <1>1, <2>4 DEF EvidenceInv
    <3> QED
      BY <3>1, <3>2
  <2> QED
    BY <1>4, <2>1, <2>2, <2>3, <2>4, Zenon DEF ServiceStep
<1> QED
  BY <1>3, <1>4, Zenon DEF Next

\* Every step keeps the invariant of the agent.
LEMMA AgentInvKeeps ==
  ASSUME EvidenceInv, AgentInv, RemediationNext
  PROVE  AgentInv'
<1>1. /\ DOMAIN agent = Fields /\ used.answers \in Nat /\ config.sessions \subseteq Sessions
      /\ SessionsAreHeld /\ FeedbackIsNew
  BY AgentFields, RecommenderAssumption DEF AgentInv, EvidenceInv
<1>2. AgentHolds
  BY <1>1 DEF AgentHolds, SessionsAreHeld, Fields
<1>3. config' = config /\ used'.answers \in Nat /\ used.answers <= used'.answers
  <2>1. EvidenceStep
    BY <1>2, EvidenceFrame
  <2> QED
    BY <1>1, <2>1 DEF EvidenceStep, UsedGrows
<1>4. CASE Next /\ UNCHANGED agentVars
  <2>1. agent' = agent /\ ran' = ran /\ stray' = stray
    BY <1>4 DEF agentVars
  <2>2. config.part # "agent"
    BY <1>4, Zenon DEF Next, LearnerStep
  <2>3. agent.pc = "idle"
    BY <1>1, <2>2 DEF SessionsAreHeld
  <2>4. SessionsAreHeld'
    BY <1>3, <2>1, <2>2, <2>3 DEF SessionsAreHeld
  <2>5. \A e \in events' : e.kind # "emitted" => e.rec \in 0..used.answers
    BY <1>1, <1>4, ServiceFeedback DEF FeedbackIsNew
  <2>6. FeedbackIsNew'
    BY <1>1, <1>3, <2>1, <2>3, <2>5 DEF FeedbackIsNew
  <2>7. StepsHold'
    BY <2>1, <2>3 DEF StepsHold
  <2> QED
    BY <2>1, <2>4, <2>6, <2>7 DEF AgentInv
<1>5. ASSUME config.part = "agent", UNCHANGED agentVars, NEW s \in config.sessions,
             \/ recordTelemetry(s) \/ updateOnlineBandit(s) \/ Prewarmed(s) \/ SessionCloses(s)
             \/ agent.pc # "recommend" /\ Recommend(s)
      PROVE  AgentInv'
  <2>1. Quiet /\ live' \subseteq live /\ (agent.pc = "recommend" => answer' = answer)
    BY <1>1, <1>5, RuntimeGoesOn
  <2> QED
    BY <1>1, <1>3, <1>5, <2>1, AgentRests
<1>6. ASSUME config.part = "agent", AgentStep PROVE AgentInv'
  <2>1. CASE \/ \E a \in Alerts : HandleAlert(a)
             \/ CreateFails \/ RecommendFails \/ CloseSession \/ AgentRestart
    BY <1>6, <2>1, AgentMoves
  <2>2. CASE \E s \in config.sessions : CreateSession(s)
    BY <1>6, <2>2, AgentCreates
  <2>3. CASE RecommendCall
    BY <1>6, <2>3, AgentRecommends
  <2>4. CASE InvokeTool
    BY <1>6, <2>4, AgentInvokes
  <2>5. CASE InvokeAnswered
    BY <1>6, <2>5, AgentAnswered
  <2>6. CASE ReportFeedback
    BY <1>6, <2>6, AgentReports
  <2> QED
    BY <1>5, <1>6, <2>1, <2>2, <2>3, <2>4, <2>5, <2>6, Zenon DEF AgentStep
<1> QED
  BY <1>4, <1>6, Zenon DEF RemediationNext

\* Only ReportFeedback hands over feedback of the agent.
LEMMA OthersAreQuiet ==
  ASSUME EvidenceInv, AgentInv, RemediationNext, config.part = "agent", ~ReportFeedback
  PROVE  Quiet
<1>1. config.sessions \subseteq Sessions /\ SessionsAreHeld
  BY RecommenderAssumption DEF AgentInv, EvidenceInv
<1>2. ASSUME events' = events PROVE Quiet
  BY <1>2 DEF Quiet
<1>3. ASSUME UNCHANGED vars PROVE Quiet
  <2>1. events' = events
    BY <1>3, Zenon DEF vars, runtimeVars
  <2> QED
    BY <1>2, <2>1
<1>4. CASE \/ \E a \in Alerts : HandleAlert(a)
           \/ CreateFails \/ RecommendFails \/ InvokeAnswered
  BY <1>3, <1>4, Zenon DEF HandleAlert, CreateFails, RecommendFails, InvokeAnswered
<1>5. CASE \E s \in config.sessions : CreateSession(s)
  BY <1>2, <1>5, Zenon DEF CreateSession
<1>6. CASE CloseSession \/ AgentRestart
  BY <1>2, <1>6, Zenon DEF CloseSession, AgentRestart
<1>7. CASE RecommendCall
  <2>1. agent.pc = "recommend" /\ Recommend(agent.session)
    BY <1>7, Zenon DEF RecommendCall
  <2>2. agent.session \in Sessions
    BY <1>1, <2>1 DEF SessionsAreHeld
  <2> QED
    BY <2>1, <2>2, RecommendGives
<1>8. CASE InvokeTool
  <2>1. UNCHANGED vars \/ \E t, status : InvocationEnds(agent.session, t, status, 1)
    BY <1>8, Zenon DEF InvokeTool
  <2>2. ASSUME NEW t, NEW status, InvocationEnds(agent.session, t, status, 1)
        PROVE  events' = events
    BY <2>2, Zenon DEF InvocationEnds
  <2> QED
    BY <1>2, <1>3, <2>1, <2>2
<1>9. ASSUME NEW s \in config.sessions,
             \/ recordTelemetry(s) \/ updateOnlineBandit(s) \/ Prewarmed(s) \/ SessionCloses(s)
             \/ agent.pc # "recommend" /\ Recommend(s)
      PROVE  Quiet
  BY <1>1, <1>9, RuntimeGoesOn
<1>10. CASE AgentStep
  BY <1>4, <1>5, <1>6, <1>7, <1>8, <1>9, <1>10, Zenon DEF AgentStep
<1>11. ~Next
  BY Zenon DEF Next, LearnerStep
<1> QED
  BY <1>10, <1>11, Zenon DEF RemediationNext

\* What a playbook that has been through says of what ran in its session.
LEMMA PlaybookSays ==
  ASSUME AgentInv, agent.pc = "invoke", agent.left = <<>>
  PROVE  LET done == ran[agent.session]
             asked == ToSet(ToolsOf(agent.alert, agent.recTools))
         IN  /\ usedRecommended(agent.steps, agent.recTools) =>
                    asked \cap ToSet(agent.recTools) # {}
             /\ allSucceeded(agent.steps) => done = asked \X {"succeeded"}
             /\ ~allSucceeded(agent.steps) =>
                    \/ done # asked \X {"succeeded"}
                    \/ \E i \in DOMAIN agent.steps : agent.steps[i].status = "error"
<1> DEFINE done == ran[agent.session]
           asked == ToSet(ToolsOf(agent.alert, agent.recTools))
           steps == agent.steps
<1>1. asked = {steps[i].tool : i \in DOMAIN steps}
  <2>1. asked = {steps[i].tool : i \in DOMAIN steps} \cup ToSet(agent.left)
    BY DEF AgentInv, StepsHold
  <2>2. ToSet(agent.left) = {}
    BY DEF ToSet
  <2> QED
    BY <2>1, <2>2
<1>2. \A i \in DOMAIN steps :
          steps[i].status # "error" => <<steps[i].tool, steps[i].status>> \in done
  BY DEF AgentInv, StepsHold
<1>3. \A r \in done : \E i \in DOMAIN steps :
          \/ r = <<steps[i].tool, steps[i].status>>
          \/ steps[i].status = "error" /\ r[1] = steps[i].tool
  BY DEF AgentInv, StepsHold
<1> HIDE DEF done, asked, steps
<1>4. ASSUME usedRecommended(steps, agent.recTools)
      PROVE  asked \cap ToSet(agent.recTools) # {}
  BY <1>1, <1>4 DEF usedRecommended
<1>5. ASSUME allSucceeded(steps) PROVE done = asked \X {"succeeded"}
  <2>1. \A i \in DOMAIN steps : steps[i].status = "succeeded"
    BY <1>5 DEF allSucceeded
  <2>2. ASSUME NEW r \in done PROVE r \in asked \X {"succeeded"}
    <3>1. PICK i \in DOMAIN steps : r = <<steps[i].tool, "succeeded">>
      BY <1>3, <2>1
    <3> QED
      BY <1>1, <3>1
  <2>3. ASSUME NEW r \in asked \X {"succeeded"} PROVE r \in done
    <3>1. PICK i \in DOMAIN steps : r = <<steps[i].tool, "succeeded">>
      BY <1>1
    <3>2. steps[i].status = "succeeded" /\ steps[i].status # "error"
      BY <2>1
    <3> QED
      BY <1>2, <3>1, <3>2
  <2> QED
    BY <2>2, <2>3
<1>6. ASSUME ~allSucceeded(steps), \A i \in DOMAIN steps : steps[i].status # "error"
      PROVE  done # asked \X {"succeeded"}
  <2>1. PICK i \in DOMAIN steps : steps[i].status # "succeeded"
    BY <1>6 DEF allSucceeded
  <2>2. <<steps[i].tool, steps[i].status>> \in done
    BY <1>2, <1>6
  <2>3. <<steps[i].tool, steps[i].status>> \notin asked \X {"succeeded"}
    BY <2>1
  <2> QED
    BY <2>2, <2>3
<1> QED
  BY <1>4, <1>5, <1>6 DEF done, asked, steps

\* A step that hands over feedback has earned it.
LEMMA StepIsEarned ==
  ASSUME EvidenceInv, AgentInv, RemediationNext
  PROVE  EarnedStep
<1>1. config.part = "agent" /\ agent'.pc = "idle" => live' \subseteq stray'
  <2>1. AgentInv'
    BY AgentInvKeeps
  <2>2. SessionsAreHeld'
    BY <2>1 DEF AgentInv
  <2>3. config' = config
    <3>1. AgentHolds
      BY AgentFields DEF AgentInv, AgentHolds, SessionsAreHeld, Fields
    <3> QED
      BY <3>1, EvidenceFrame DEF EvidenceStep
  <2> QED
    BY <2>2, <2>3 DEF SessionsAreHeld
<1>2. ASSUME NEW e \in events' \ events, config.part = "agent", e.kind # "emitted"
      PROVE  LET done == ran[agent.session]
                 asked == ToSet(ToolsOf(agent.alert, agent.recTools))
             IN  /\ ~ \E d \in events : d.rec = e.rec /\ d.kind # "emitted"
                 /\ asked \cap ToSet(agent.recTools) # {}
                 /\ e.kind = "accepted" => done = asked \X {"succeeded"}
                 /\ e.kind = "rejected" =>
                        \/ done # asked \X {"succeeded"}
                        \/ \E i \in DOMAIN agent.steps : agent.steps[i].status = "error"
  <2>1. ReportFeedback
    BY <1>2, OthersAreQuiet DEF Quiet
  <2> DEFINE kind == IF allSucceeded(agent.steps) THEN "accepted" ELSE "rejected"
  <2>2. /\ agent.pc = "invoke" /\ agent.left = <<>>
        /\ \/ /\ usedRecommended(agent.steps, agent.recTools)
              /\ Feedback(agent.session, kind, agent.recID)
           \/ UNCHANGED vars
    BY <2>1, Zenon DEF ReportFeedback
  <2>3. ~UNCHANGED vars
    <3> SUFFICES ASSUME UNCHANGED vars PROVE FALSE
      OBVIOUS
    <3>1. events' = events
      BY Zenon DEF vars, runtimeVars
    <3> QED
      BY <1>2, <3>1
  <2>4. \/ events' = events
        \/ events' = events \cup {[kind |-> kind, rec |-> agent.recID,
                                   event |-> <<used.answers + 1, "bus">>]}
    BY <2>2, <2>3, Zenon DEF Feedback
  <2> HIDE DEF kind
  <2>5. e.kind = kind /\ e.rec = agent.recID
    BY <1>2, <2>4
  <2>6. ~ \E d \in events : d.rec = e.rec /\ d.kind # "emitted"
    BY <2>2, <2>5 DEF AgentInv, FeedbackIsNew
  <2>7. /\ e.kind = "accepted" => allSucceeded(agent.steps)
        /\ e.kind = "rejected" => ~allSucceeded(agent.steps)
    BY <2>5 DEF kind
  <2> QED
    BY <2>2, <2>3, <2>6, <2>7, PlaybookSays, Zenon
<1> QED
  BY <1>1, <1>2, Zenon DEF EarnedStep

\* The agent's feedback is earned (remediation/agent.go, executePlaybook): whatever
\* answers were lost, playbooks cut short by a restart or calls left to end by
\* themselves, a recommendation gets at most one feedback, which says what the
\* runtime has of the playbook's tools; and no session is left open but a stray one.
THEOREM FeedbackIsDeserved == RemediationSpec => FeedbackIsEarned
<1> DEFINE Inv == EvidenceInv /\ AgentInv
<1>1. RemediationInit => Inv
  <2> SUFFICES ASSUME RemediationInit PROVE Inv
    OBVIOUS
  <2>1. /\ Init /\ events = {} /\ agent = NoRun /\ ran = [s \in Sessions |-> {}]
        /\ live = IF config.part = "agent" THEN {} ELSE config.sessions
    BY Zenon DEF RemediationInit, Init
  <2>2. EvidenceInv
    BY <2>1, EvidenceStarts
  <2>3. agent.pc = "idle" /\ DOMAIN agent = DOMAIN NoRun /\ DOMAIN ran = Sessions
    BY <2>1, AgentFields
  <2> QED
    BY <2>1, <2>2, <2>3 DEF AgentInv, SessionsAreHeld, FeedbackIsNew, StepsHold
<1>2. Inv /\ [RemediationNext]_remediationVars => Inv'
  <2>1. ASSUME Inv, RemediationNext PROVE Inv'
    <3>1. AgentHolds
      BY <2>1, AgentFields DEF AgentInv, AgentHolds, SessionsAreHeld, Fields
    <3> QED
      BY <2>1, <3>1, AgentInvKeeps, EvidenceFrame, StoreFrame, EvidenceStepKeeps
  <2>2. ASSUME Inv, UNCHANGED remediationVars PROVE Inv'
    <3>1. UNCHANGED evidenceVars /\ UNCHANGED used /\ UNCHANGED agentVars /\ UNCHANGED live
      BY <2>2, Zenon DEF remediationVars, agentVars, vars, runtimeVars, evidenceVars
    <3>2. EvidenceInv'
      <4>1. UNCHANGED <<policies, stored>>
        BY <2>2, Zenon DEF remediationVars, vars, learnerVars
      <4>2. StoreStep
        BY <2>2, <4>1, StoreMoves
      <4> QED
        BY <2>2, <3>1, <4>2, BoundsGrow, EvidenceRests, EvidenceStepKeeps
    <3>3. config' = config /\ events' = events /\ answer' = answer
      BY <3>1 DEF evidenceVars
    <3>4. Quiet /\ used.answers \in Nat
      BY <2>2, <3>3 DEF Quiet, EvidenceInv
    <3> QED
      BY <2>2, <3>1, <3>2, <3>3, <3>4, AgentRests
  <2> QED
    BY <2>1, <2>2
<1>3. Inv /\ [RemediationNext]_remediationVars => [EarnedStep]_remediationVars
  BY StepIsEarned
<1> QED
  BY <1>1, <1>2, <1>3, PTL DEF RemediationSpec, FeedbackIsEarned
=============================================================================
