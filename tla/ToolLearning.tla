---------------------------- MODULE ToolLearning ----------------------------
(***************************************************************************)
(* The tool-learning pipeline (services/tool-learning): the telemetry      *)
(* lists the runtime leaves in Valkey, the export-lake job that copies     *)
(* them into the lake, the hourly and the daily policy computation, and    *)
(* the policies and the neural model they leave in Valkey for the runtime. *)
(* The jobs are CronJobs of their own: each has at most one run at a time, *)
(* but an hourly run, a daily run and an export overlap freely.            *)
(*                                                                         *)
(* A telemetry record stands for n invocations with the same outcome, so   *)
(* that the sample-size thresholds of the code (5, 10, 20, 50, 100) are    *)
(* crossed with few records.  Probabilities, scores and rates are counted  *)
(* in hundredths.  An age is the part of the day a row falls in: a row of  *)
(* age "hour" is in the hourly and in the daily window, a row of age "day" *)
(* in the daily one only.                                                  *)
(***************************************************************************)
EXTENDS Integers, Sequences, FiniteSets, FiniteSetsExt, Bags

CONSTANTS
    Tools, Sigs,          \* tool names; context signatures
    Schedules,            \* the policy jobs: "hourly" and "daily"
    SlowTools,            \* tools whose p95 latency is over every threshold
    MaxErrorRate,         \* --max-error-rate in hundredths; 0 disables it
    LimitLatency,         \* TRUE when --max-p95-latency-ms excludes SlowTools
    Algorithm,            \* "thompson" or "thompson-llm"
    Estimate,             \* the LLM's estimate of a tool in hundredths, or None
    SamplePolicies,       \* n and confidence of the policies Learned may write
    Batches,              \* n of a telemetry record
    MaxRecords,           \* bound: telemetry records
    ModelAggregates,      \* aggregates needed to train the model (20 in the code)
    MaxExports, MaxRuns,  \* bounds: exports, and runs of each policy job
    None

ASSUME LearningAssumption ==
    /\ Schedules \subseteq {"hourly", "daily"}
    /\ SlowTools \subseteq Tools
    /\ MaxErrorRate \in 0..100 /\ LimitLatency \in BOOLEAN
    /\ Algorithm \in {"thompson", "thompson-llm"}
    /\ Batches \subseteq Nat \ {0}
    /\ ModelAggregates \in Nat \ {0} /\ MaxExports \in Nat /\ MaxRuns \in Nat

VARIABLES
    lists,      \* the telemetry list of each tool in Valkey; its order plays no part
    exporting,  \* what a running export-lake has read, or None
    exports,    \* export-lake runs so far
    lake,       \* the rows of the Parquet files, with their number of copies
    policies,   \* policy at <<signature, tool>> in Valkey, or None
    model,      \* the neural model in Valkey: the run that trained it, or None
    job,        \* the current run of each policy job
    snapshots,  \* runs whose audit snapshot is in the bucket
    notices,    \* what the jobs handed to NATS, whether or not it arrived
    stored      \* <<run, signature, tool>> of every policy the store took

learnerVars == <<lists, exporting, exports, lake, policies, model, job,
                 snapshots, notices, stored>>

Keys == Sigs \X Tools

Idle == [pc |-> "idle", no |-> 0, aggs |-> {}, out |-> {}]

LearnerInit ==
    /\ lists = [t \in Tools |-> EmptyBag] /\ exporting = None /\ exports = 0
    /\ lake = EmptyBag /\ policies = [k \in Keys |-> None] /\ model = None
    /\ job = [j \in Schedules |-> Idle]
    /\ snapshots = {} /\ notices = {} /\ stored = {}

-----------------------------------------------------------------------------
(* export-lake.                                                            *)

\* telemetryRecord.outcome: whatever did not succeed is a failure, denials too.
outcome(r) == IF r.status = "succeeded" THEN "success" ELSE "failure"

loadRecords(t, r) ==
    [sig |-> r.sig, tool |-> t, outcome |-> outcome(r), n |-> r.n, age |-> r.age]

\* readAllTelemetry walks the lists with SCAN and skips one it cannot read.
readAllTelemetry(skipped) ==
    FoldSet(LAMBDA t, rows : rows (+) BagOfAll(LAMBDA r : loadRecords(t, r), lists[t]),
            EmptyBag, Tools \ skipped)

ExportRead ==
    /\ exporting = None /\ exports < MaxExports
    /\ \E skipped \in SUBSET Tools : exporting' = readAllTelemetry(skipped)
    /\ exports' = exports + 1
    /\ UNCHANGED <<lists, lake, policies, model, job, snapshots, notices, stored>>

\* exportParquet names its files anew on every run, so the rows of an earlier
\* export stay in the lake beside the ones it writes; it fails before any file
\* is complete, or the job ends early, and the lake is as it was.
exportParquet ==
    /\ exporting # None
    /\ \/ lake' = lake (+) exporting
       \/ lake' = lake
    /\ exporting' = None
    /\ UNCHANGED <<lists, exports, policies, model, job, snapshots, notices, stored>>

-----------------------------------------------------------------------------
(* The policy computation.                                                 *)

InWindow(j, row) == row.age = "hour" \/ (j = "daily" /\ row.age = "day")

Total(rows) == MapThenSumSet(LAMBDA r : r.n * lake[r], rows)

\* The aggregate of every <<signature, tool>> with a row in the job's window.
QueryAggregates(j) ==
    LET rows(k) == {r \in BagToSet(lake) : InWindow(j, r) /\ <<r.sig, r.tool>> = k}
    IN  {[key |-> k, total |-> Total(rows(k)),
          successes |-> Total({r \in rows(k) : r.outcome = "success"})] :
            k \in {key \in Keys : rows(key) # {}}}

Clamp(v, lo, hi) == IF v < lo THEN lo ELSE IF v > hi THEN hi ELSE v

\* ComputePrior with EquivalentN = 10: alpha and beta in hundredths.
ComputePrior(p) == LET q == Clamp(p, 1, 99) IN [alpha |-> 10 * q, beta |-> 10 * (100 - q)]

\* The prior of a tool: Beta(1, 1) without an estimate of the LLM for it.
Prior(t) ==
    IF Algorithm = "thompson-llm" /\ Estimate[t] # None
    THEN ComputePrior(Estimate[t])
    ELSE [alpha |-> 100, beta |-> 100]

\* ThompsonSampler.ComputePolicy and ThompsonSamplerLLM.ComputePolicy.
ComputePolicy(run, agg) ==
    LET prior == Prior(agg.key[2])
        alpha == 100 * agg.successes + prior.alpha
        beta  == 100 * (agg.total - agg.successes) + prior.beta
    IN  [key |-> agg.key, run |-> run, n |-> agg.total,
         confidence |-> (100 * alpha) \div (alpha + beta),
         errorRate |-> (100 * (agg.total - agg.successes)) \div agg.total]

IsEligible(p) ==
    /\ ~(LimitLatency /\ p.key[2] \in SlowTools)
    /\ MaxErrorRate > 0 => p.errorRate <= MaxErrorRate

Run(j) == <<j, job[j].no>>

Notice(subject, j, keys) == [subject |-> subject, run |-> Run(j), keys |-> keys]

\* Whether a publication reaches NATS or is lost, the run goes on.
Publish(ns) == notices' = notices \cup ns

EligibleKeys(j) == {p.key : p \in job[j].out}

End(j) == job' = [job EXCEPT ![j] = [pc |-> "idle", no |-> job[j].no, aggs |-> {}, out |-> {}]]

\* A run whose adapters or sampler cannot be built ends without a trace; one
\* that starts announces it.
RunStart(j) ==
    /\ job[j].pc = "idle" /\ job[j].no < MaxRuns
    /\ \/ /\ job' = [job EXCEPT ![j] = [pc |-> "query", no |-> job[j].no + 1,
                                             aggs |-> {}, out |-> {}]]
          /\ Publish({[subject |-> "run.started", run |-> <<j, job[j].no + 1>>, keys |-> {}]})
       \/ /\ job' = [job EXCEPT ![j].no = job[j].no + 1]
          /\ UNCHANGED notices
    /\ UNCHANGED <<lists, exporting, exports, lake, policies, model, snapshots, stored>>

failRun(j) == End(j) /\ Publish({Notice("run.failed", j, {})})

RunQuery(j) ==
    /\ job[j].pc = "query"
    /\ \/ LET aggs == QueryAggregates(j)
              all  == {ComputePolicy(Run(j), a) : a \in aggs}
          IN  /\ job' = [job EXCEPT ![j] =
                     [pc |-> "write", no |-> job[j].no, aggs |-> {a.key : a \in aggs},
                      out |-> {p \in all : IsEligible(p)}]]
              /\ UNCHANGED notices
       \/ failRun(j)
    /\ UNCHANGED <<lists, exporting, exports, lake, policies, model, snapshots, stored>>

\* The store takes the policies of ps; each replaces what its key held.
Take(ps) ==
    /\ policies' = [k \in Keys |->
           IF \E p \in ps : p.key = k THEN CHOOSE p \in ps : p.key = k ELSE policies[k]]
    /\ stored' = stored \cup {<<p.run, p.key>> : p \in ps}

\* Mutant: a failed WritePolicies is only logged, like a failed publication.
Mut_RunWrite(j) ==
    /\ job[j].pc = "write"
    /\ \/ Take(job[j].out)
       \/ \E ps \in SUBSET job[j].out : Take(ps)
    /\ job' = [job EXCEPT ![j].pc = "model"] /\ UNCHANGED notices
    /\ UNCHANGED <<lists, exporting, exports, lake, model, snapshots>>

\* WritePolicies is one pipeline: when it fails, some of its SETs may have
\* been carried out, and the run ends as failed.
RunWrite(j) ==
    /\ job[j].pc = "write"
    /\ \/ /\ Take(job[j].out)
          /\ job' = [job EXCEPT ![j].pc = "model"]
          /\ UNCHANGED notices
       \/ /\ job[j].out # {}
          /\ \E ps \in SUBSET job[j].out : Take(ps)
          /\ failRun(j)
    /\ UNCHANGED <<lists, exporting, exports, lake, model, snapshots>>

\* Training needs enough aggregates; a model that cannot be written is logged.
RunModel(j) ==
    /\ job[j].pc = "model"
    /\ \/ Cardinality(job[j].aggs) >= ModelAggregates /\ model' = Run(j)
       \/ UNCHANGED model
    /\ job' = [job EXCEPT ![j].pc = "announce"]
    /\ UNCHANGED <<lists, exporting, exports, lake, policies, snapshots, notices, stored>>

\* policy.computed, the audit snapshot and, once it is written,
\* snapshot.published, then policy.updated: all of them only for a run that
\* has policies, none of them able to fail the run.
RunAnnounce(j) ==
    LET ks == EligibleKeys(j)
    IN  /\ job[j].pc = "announce"
        /\ \/ /\ ks # {}
              /\ \/ /\ snapshots' = snapshots \cup {Run(j)}
                    /\ Publish({Notice("policy.computed", j, ks),
                                Notice("snapshot.published", j, ks),
                                Notice("policy.updated", j, ks)})
                 \/ /\ Publish({Notice("policy.computed", j, ks),
                                Notice("policy.updated", j, ks)})
                    /\ UNCHANGED snapshots
           \/ ks = {} /\ UNCHANGED <<notices, snapshots>>
        /\ job' = [job EXCEPT ![j].pc = "complete"]
        /\ UNCHANGED <<lists, exporting, exports, lake, policies, model, stored>>

RunComplete(j) ==
    /\ job[j].pc = "complete"
    /\ Publish({Notice("run.completed", j, EligibleKeys(j))})
    /\ End(j)
    /\ UNCHANGED <<lists, exporting, exports, lake, policies, model, snapshots, stored>>

\* The pod of a run is killed, or the run's ten minutes are over.
RunCrash(j) ==
    /\ job[j].pc # "idle"
    /\ End(j)
    /\ UNCHANGED <<lists, exporting, exports, lake, policies, model, snapshots,
                   notices, stored>>

-----------------------------------------------------------------------------
(* Time: rows leave the hourly window; Valkey drops what outlived its TTL. *)

Older(r) == [r EXCEPT !.age = "day"]

HourPasses ==
    /\ \E r \in BagToSet(lake) \cup UNION {BagToSet(lists[t]) : t \in Tools} : r.age = "hour"
    /\ lists' = [t \in Tools |-> BagOfAll(Older, lists[t])]
    /\ lake' = BagOfAll(Older, lake)
    /\ exporting' = IF exporting = None THEN None ELSE BagOfAll(Older, exporting)
    /\ UNCHANGED <<exports, policies, model, job, snapshots, notices, stored>>

KeyExpires ==
    /\ \/ \E t \in Tools : /\ lists[t] # EmptyBag
                           /\ lists' = [lists EXCEPT ![t] = EmptyBag]
                           /\ UNCHANGED <<policies, model>>
       \/ \E k \in Keys : /\ policies[k] # None
                          /\ policies' = [policies EXCEPT ![k] = None]
                          /\ UNCHANGED <<lists, model>>
       \/ model # None /\ model' = None /\ UNCHANGED <<lists, policies>>
    /\ UNCHANGED <<exporting, exports, lake, job, snapshots, notices, stored>>

\* A runtime appends a record; the RPUSH may come from any replica.
Arrives(t, r) == lists' = [lists EXCEPT ![t] = @ (+) SetToBag({r})]

TelemetryArrives ==
    /\ FoldSet(LAMBDA t, c : c + BagCardinality(lists[t]), 0, Tools) < MaxRecords
    /\ \E t \in Tools, g \in Sigs, status \in {"succeeded", "denied"}, n \in Batches :
          Arrives(t, [sig |-> g, status |-> status, n |-> n, age |-> "hour"])
    /\ UNCHANGED <<exporting, exports, lake, policies, model, job, snapshots, notices, stored>>

\* What the policy runs look like to the runtime: at any time a policy of some
\* sample size and confidence, or a model, may be in the store.
Learned ==
    /\ \/ /\ \E k \in Keys, p \in SamplePolicies :
                Take({[key |-> k, run |-> None, n |-> p.n, confidence |-> p.confidence,
                       errorRate |-> 100 - p.confidence]})
          /\ UNCHANGED model
       \/ /\ model' = <<"daily", 1>>
          /\ UNCHANGED <<policies, stored>>
    /\ UNCHANGED <<lists, exporting, exports, lake, job, snapshots, notices>>

RunStep(j) ==
    \/ RunStart(j) \/ RunQuery(j) \/ RunWrite(j) \/ RunModel(j)
    \/ RunAnnounce(j) \/ RunComplete(j) \/ RunCrash(j)

LearnerNext ==
    \/ TelemetryArrives \/ ExportRead \/ exportParquet \/ HourPasses
    \/ \E j \in Schedules : RunStep(j)

-----------------------------------------------------------------------------
(* What a policy job announces is true of the store: once policy.computed, *)
(* snapshot.published, policy.updated or run.completed of a run is out,    *)
(* the store took every policy that run found eligible, whatever other run *)
(* overlapped it and wherever it was cut off; and no run is announced both *)
(* as failed and as completed.                                             *)
AnnouncedIsStored ==
    \A n \in notices :
        /\ \A k \in n.keys : <<n.run, k>> \in stored
        /\ n.subject = "run.failed" =>
               ~ \E m \in notices : m.run = n.run /\ m.subject = "run.completed"

(* Why that holds, step by step of a run: its number was never used before *)
(* and it is announced as over when it ends, never earlier ...             *)
RunsAreNumbered ==
    \A n \in notices, j \in Schedules :
        n.run[1] = j =>
            /\ n.run[2] \in 0..job[j].no
            /\ n.run[2] = job[j].no /\ job[j].pc # "idle" =>
                   n.subject \notin {"run.failed", "run.completed"}

(* ... the policies it holds are its own, and from RunModel on the store   *)
(* took all of them.                                                       *)
JobHolds(j) ==
    /\ job[j] = [pc |-> job[j].pc, no |-> job[j].no, aggs |-> job[j].aggs, out |-> job[j].out]
    /\ job[j].no \in Nat
    /\ job[j].pc = "idle" => job[j].out = {}
    /\ \A p \in job[j].out : p.run = Run(j)
    /\ job[j].pc \in {"model", "announce", "complete"} =>
           \A p \in job[j].out : <<p.run, p.key>> \in stored

RunsInv ==
    /\ DOMAIN job = Schedules
    /\ RunsAreNumbered
    /\ \A j \in Schedules : JobHolds(j)
    /\ AnnouncedIsStored
=============================================================================
