------------------------------- MODULE Builds -------------------------------
(***************************************************************************)
(* The tools that build, test and measure the project in a workspace:      *)
(* repo.*, the tools of each language, repo.coverage_report, go.test,      *)
(* quality.gate and ci.run_pipeline.  A call is a sequence of stages, each *)
(* of which runs at most one command in the workspace; the calls of a      *)
(* session interleave between stages and share the files that the commands *)
(* leave: the coverage profile and the binary of c.test.                   *)
(*                                                                         *)
(* What a command prints is its outcome and one number, a percentage or a  *)
(* count.  Command lines are left out.                                     *)
(***************************************************************************)
EXTENDS Integers, SequencesExt

CONSTANTS
    Jobs,       \* names of calls
    Projects,   \* "go", "c", "python", "unknown"
    Workspaces, \* whether the workspace is in a pod: a subset of BOOLEAN
    Scenarios   \* what each call asks for: [Jobs -> requests], or NoRequest

VARIABLES
    project, remote,  \* the workspace
    files,            \* the call that wrote each file, or 0
    job               \* the calls

buildVars == <<project, remote, files, job>>

NoRequest == [tool |-> "", valid |-> TRUE, run |-> TRUE, static |-> TRUE, coverage |-> TRUE,
              gate |-> TRUE, failFast |-> TRUE, limits |-> [cover |-> -1, diags |-> -1],
              metrics |-> [cover |-> 0, diags |-> 0, tests |-> 0]]

Outcomes == {"ok", "failed", "timeout"}
Numbers == {-1, 0, 2}    \* -1: nothing to parse

toToolError(outcome) == IF outcome = "timeout" THEN "timeout" ELSE "execution_failed"

-----------------------------------------------------------------------------
(* The stages of each tool. *)

RepoDetect == <<"identify">>
RepoValidate == <<"detect", "resolve", "run">>
RepoBuild == <<"detect", "args", "resolve", "run">>
RepoRunTests == <<"detect", "args", "resolve", "run">>
RepoStaticAnalysis == <<"detect", "resolve", "run">>
RepoPackage == IF project \in {"go", "python", "c"} THEN <<"detect", "resolve", "prepare", "run">>
               ELSE <<"detect", "resolve", "run">>
GoModTidy == <<"run">>
GoGenerate == <<"run">>
GoBuild == <<"args", "run">>
RustTools == <<"run">>
NodeTools == <<"run">>
PythonInstallDeps == <<"args", "prepare", "requirements", "run">>
PythonValidate == <<"run">>
PythonTest == <<"args", "run">>
CBuild == <<"args", "source", "run">>
CTest(r) == IF r.run THEN <<"args", "source", "compile", "execute">>
            ELSE <<"args", "source", "compile">>
runRepoTestsForAnalysis == <<"detect", "args", "resolve", "observe">>

\* The summaries of failures and of stack traces run the tests unless they are given an output.
RepoTestFailuresSummary(r) == IF r.run THEN runRepoTestsForAnalysis ELSE <<"answer">>
RepoStacktraceSummary(r) == IF r.run THEN runRepoTestsForAnalysis ELSE <<"answer">>
GoTest(r) == IF r.coverage THEN <<"args", "profile", "func", "remove">> ELSE <<"args", "run">>
QualityGate == <<"evaluate">>
RepoCoverageReport == IF project = "go" THEN <<"detect", "profile", "func", "rm">>
                      ELSE <<"detect", "resolve", "run">>
CIRunPipeline(r) ==
    <<"detect", "validate", "build", "test">> \o (IF r.static THEN <<"static_analysis">> ELSE <<>>)
        \o (IF ~r.coverage THEN <<>>
            ELSE IF project = "go" THEN <<"coverage", "rm">> ELSE <<"coverage">>)
        \o <<"finalize">>

Tools ==
    {"repo.detect_project_type", "repo.detect_toolchain", "repo.validate", "repo.build",
     "repo.run_tests", "repo.test", "repo.static_analysis", "repo.package", "go.mod.tidy",
     "go.generate", "go.build", "rust.build", "rust.test", "rust.clippy", "rust.format",
     "node.install", "node.build", "node.test", "node.lint", "node.typecheck",
     "python.install_deps", "python.validate", "python.test", "c.build", "c.test",
     "repo.test_failures_summary", "repo.stacktrace_summary", "go.test", "quality.gate",
     "repo.coverage_report", "ci.run_pipeline"}

Stages(r) ==
    CASE r.tool \in {"repo.detect_project_type", "repo.detect_toolchain"} -> RepoDetect
      [] r.tool = "repo.validate" -> RepoValidate
      [] r.tool = "repo.build" -> RepoBuild
      [] r.tool \in {"repo.run_tests", "repo.test"} -> RepoRunTests
      [] r.tool = "repo.static_analysis" -> RepoStaticAnalysis
      [] r.tool = "repo.package" -> RepoPackage
      [] r.tool = "go.mod.tidy" -> GoModTidy
      [] r.tool = "go.generate" -> GoGenerate
      [] r.tool = "go.build" -> GoBuild
      [] r.tool \in {"rust.build", "rust.test", "rust.clippy", "rust.format"} -> RustTools
      [] r.tool \in {"node.install", "node.build", "node.test", "node.lint",
                     "node.typecheck"} -> NodeTools
      [] r.tool = "python.install_deps" -> PythonInstallDeps
      [] r.tool = "python.validate" -> PythonValidate
      [] r.tool = "python.test" -> PythonTest
      [] r.tool = "c.build" -> CBuild
      [] r.tool = "c.test" -> CTest(r)
      [] r.tool = "repo.test_failures_summary" -> RepoTestFailuresSummary(r)
      [] r.tool = "repo.stacktrace_summary" -> RepoStacktraceSummary(r)
      [] r.tool = "go.test" -> GoTest(r)
      [] r.tool = "quality.gate" -> QualityGate
      [] r.tool = "repo.coverage_report" -> RepoCoverageReport
      [] r.tool = "ci.run_pipeline" -> CIRunPipeline(r)

-----------------------------------------------------------------------------
(* What a stage makes of a call. *)

NoJob == [pc |-> "idle", ask |-> NoRequest, todo |-> <<>>, err |-> "", steps |-> <<>>,
          failed |-> "", metrics |-> NoRequest.metrics, passed |-> TRUE, ruled |-> FALSE,
          from |-> {}, beside |-> {}, broken |-> {}, measured |-> {}]

\* The handler returns, with an error or with none.
Return(j, err) == [j EXCEPT !.pc = "done", !.err = err]

\* It goes on; after the last stage it returns what was pending.
GoOn(j) == [j EXCEPT !.todo = Tail(@), !.pc = IF Len(j.todo) = 1 THEN "done" ELSE @]

\* Where the directory does not tell, or is not here, a command looks for the marks of each
\* kind of project.  That there are none ends every tool but those that ask for the kind.
detectProjectTypeForSession(j, outcome) ==
    IF outcome # "ok" \/ (project = "unknown" /\ Head(j.todo) = "detect")
    THEN Return(j, "execution_failed") ELSE GoOn(j)

\* Every kind of project has its commands; those of C need a source file, and one that is not
\* named is looked for in the directory, which is not here for a pod.
Resolvable == IF project # "c" THEN {TRUE} ELSE BOOLEAN

Resolved(j, found) == IF found THEN GoOn(j) ELSE Return(j, "execution_failed")

invokeStructuredToolCommand(j, outcome) ==
  IF outcome = "ok" THEN GoOn(j) ELSE Return(j, toToolError(outcome))

\* python.install_deps without a requirements file has nothing to do.
resolvePipInstallArgs(j, found) ==
    CASE found = "file" -> GoOn(j)
      [] found = "none" -> Return(j, "")
      [] found = "missing" -> Return(j, "invalid_argument")

\* A summary has something to tell of tests that failed, and of a command that could not run.
Observed(j, outcome) == IF outcome = "timeout" THEN Return(j, "timeout") ELSE GoOn(j)

-----------------------------------------------------------------------------
(* The quality gate. *)

clampMaxThreshold(n) == IF n < 0 THEN -1 ELSE IF n > 100000 THEN 100000 ELSE n

normalizeQualityGateConfig(limits) ==
    [cover |-> IF limits.cover < 0 THEN -1 ELSE IF limits.cover > 100 THEN 100 ELSE limits.cover,
     diags |-> clampMaxThreshold(limits.diags), tests |-> 0]

evaluateQualityGate(metrics, config) ==
    /\ config.cover >= 0 => metrics.cover >= config.cover
    /\ config.diags >= 0 => metrics.diags <= config.diags
    /\ metrics.tests <= config.tests

QualityGateAnswer(j) ==
    [GoOn(j) EXCEPT !.passed = evaluateQualityGate(j.ask.metrics,
                                                  normalizeQualityGateConfig(j.ask.limits)),
                    !.ruled = TRUE]

-----------------------------------------------------------------------------
(* The pipeline. *)

updatePipelineQualityMetrics(metrics, step, outcome, number) ==
    CASE step = "test" -> [metrics EXCEPT !.tests = IF outcome = "ok" THEN 0 ELSE 1]
      [] step = "static_analysis" -> [metrics EXCEPT !.diags = IF number < 0 THEN 0 ELSE number]
      [] step = "coverage" /\ number >= 0 -> [metrics EXCEPT !.cover = number]
      [] OTHER -> metrics

\* Mutant: a step that succeeds takes the failure of an earlier one back.
Mut_runStep(j, step, outcome, number) ==
    LET ran == [GoOn(j) EXCEPT
                   !.steps = Append(@, <<step, IF outcome = "ok" THEN "succeeded" ELSE "failed">>),
                   !.metrics = updatePipelineQualityMetrics(@, step, outcome, number)]
    IN  IF outcome = "ok" THEN [ran EXCEPT !.failed = "", !.err = ""]
        ELSE [ran EXCEPT !.failed = step, !.err = toToolError(outcome),
                         !.pc = IF j.ask.failFast THEN "done" ELSE @]

\* A step's failure is kept, and replaces that of an earlier step; it ends a pipeline that is
\* to fail fast.
runStep(j, step, outcome, number) ==
    LET ran == [GoOn(j) EXCEPT
                   !.steps = Append(@, <<step, IF outcome = "ok" THEN "succeeded" ELSE "failed">>),
                   !.metrics = updatePipelineQualityMetrics(@, step, outcome, number)]
    IN  IF outcome = "ok" THEN ran
        ELSE [ran EXCEPT !.failed = step, !.err = toToolError(outcome),
                         !.pc = IF j.ask.failFast THEN "done" ELSE @]

\* The static analysis and, except for Go, the coverage may be skipped.
Skipped(j) == [GoOn(j) EXCEPT !.steps = Append(@, <<Head(j.todo), "skipped">>)]

\* A step whose command cannot be told is the whole answer.
Unresolved(j) == [Return(j, "execution_failed") EXCEPT !.steps = <<>>, !.failed = ""]

runPipelineQualityGateStep(j) ==
    LET passed == evaluateQualityGate(j.metrics, normalizeQualityGateConfig(j.ask.limits))
        ruled == [GoOn(j) EXCEPT !.passed = passed, !.ruled = TRUE,
                     !.steps = Append(@, <<"quality_gate", IF passed THEN "succeeded" ELSE "failed">>)]
    IN  IF passed THEN ruled ELSE [ruled EXCEPT !.failed = "quality_gate", !.err = "execution_failed"]

finalize(j) == IF j.ask.gate /\ j.failed = "" THEN runPipelineQualityGateStep(j) ELSE GoOn(j)

-----------------------------------------------------------------------------
(* The stages as steps of the system. *)

Init ==
    /\ project \in Projects /\ remote \in Workspaces
    /\ files = [f \in {"profile", "binary"} |-> 0]
    /\ \E asked \in Scenarios : job = [c \in Jobs |-> [NoJob EXCEPT !.ask = asked[c]]]

Running(c, stage) == job[c].pc = "running" /\ Head(job[c].todo) = stage

Becomes(c, j) == job' = [job EXCEPT ![c] = j] /\ UNCHANGED <<project, remote>>

\* The command of a stage ran: the call with what failed and what was measured in its history.
Ran(c, outcome, number) ==
    LET stage == Head(job[c].todo)
    IN  [job[c] EXCEPT !.broken = IF outcome = "ok" THEN @ ELSE @ \cup {stage},
                       !.measured = IF number < 0 THEN @ ELSE @ \cup {<<stage, number>>}]

Start(c) ==
    /\ job[c].pc = "idle" /\ job[c].ask.tool # ""
    /\ LET others == {d \in Jobs : job[d].pc = "running"}
       IN  job' = [d \in Jobs |->
                     IF d = c THEN [job[c] EXCEPT !.pc = "running", !.beside = others,
                                                  !.todo = Stages(job[c].ask)]
                     ELSE IF d \in others THEN [job[d] EXCEPT !.beside = @ \cup {c}] ELSE job[d]]
    /\ UNCHANGED <<project, remote, files>>

Detect(c) ==
    /\ Running(c, "detect") \/ Running(c, "identify")
    /\ IF ~remote /\ project # "unknown" THEN Becomes(c, GoOn(job[c]))
       ELSE \E o \in Outcomes : Becomes(c, detectProjectTypeForSession(Ran(c, o, -1), o))
    /\ UNCHANGED files

CheckArgs(c) ==
    /\ Running(c, "args")
    /\ Becomes(c, IF job[c].ask.valid THEN GoOn(job[c]) ELSE Return(job[c], "invalid_argument"))
    /\ UNCHANGED files

Resolve(c) ==
    /\ \/ Running(c, "resolve") /\ \E found \in Resolvable : Becomes(c, Resolved(job[c], found))
       \/ Running(c, "source") /\ \E found \in BOOLEAN : Becomes(c, Resolved(job[c], found))
       \/ /\ Running(c, "requirements")
          /\ \E found \in {"file", "none", "missing"} :
               Becomes(c, resolvePipInstallArgs(job[c], found))
    /\ UNCHANGED files

Run(c) ==
    /\ Running(c, "run") \/ Running(c, "prepare")
    /\ \E o \in Outcomes : Becomes(c, invokeStructuredToolCommand(Ran(c, o, -1), o))
    /\ UNCHANGED files

Observe(c) ==
    /\ \/ Running(c, "observe") /\ \E o \in Outcomes : Becomes(c, Observed(Ran(c, o, -1), o))
       \/ Running(c, "answer") /\ Becomes(c, GoOn(job[c]))
       \/ Running(c, "evaluate") /\ Becomes(c, QualityGateAnswer(job[c]))
    /\ UNCHANGED files

\* c.test: what a failed compilation leaves of the binary is the compiler's choice, and what
\* is executed is what is there.
Compile(c) ==
    /\ Running(c, "compile")
    /\ \E o \in Outcomes, left \in {files.binary, c, 0} :
          /\ o = "ok" => left = c
          /\ files' = [files EXCEPT !.binary = left]
          /\ Becomes(c, invokeStructuredToolCommand(Ran(c, o, -1), o))

Execute(c) ==
    /\ Running(c, "execute")
    /\ \E o \in Outcomes :
          /\ o = "ok" => files.binary # 0
          /\ Becomes(c, [invokeStructuredToolCommand(Ran(c, o, -1), o) EXCEPT
                           !.from = {files.binary} \ {0}])
    /\ UNCHANGED files

\* go test with a profile, by repo.coverage_report and go.test.  When it fails the first
\* removes the profile, the second does not.
Profile(c) ==
    /\ Running(c, "profile")
    /\ \E o \in Outcomes, n \in {-1, 2}, left \in {files.profile, c, 0} :
          /\ o = "ok" => left = c
          /\ files' = [files EXCEPT !.profile = left]
          /\ LET j == [Ran(c, o, n) EXCEPT !.from = IF n >= 0 THEN {c} ELSE {}]
             IN  Becomes(c, IF o = "ok" THEN GoOn(j)
                            ELSE IF j.ask.tool = "go.test" THEN Return(j, toToolError(o))
                            ELSE [j EXCEPT !.todo = <<"rm">>, !.err = toToolError(o)])

\* go tool cover: the percentage of the profile that is there.  Its error ends a report, after
\* the profile is removed, and not a test.
calculateCoverage(c) ==
    /\ Running(c, "func")
    /\ \E o \in Outcomes, n \in {-1, 2} :
          /\ o = "ok" => files.profile # 0
          /\ LET ran == Ran(c, o, n)
                 j == IF n < 0 \/ files.profile = 0 THEN ran ELSE [ran EXCEPT !.from = {files.profile}]
             IN  Becomes(c, IF o = "ok" THEN GoOn(j)
                            ELSE IF j.ask.tool = "go.test" THEN GoOn(ran)
                            ELSE [GoOn(j) EXCEPT !.err = toToolError(o)])
    /\ UNCHANGED files

\* rm -f in the workspace, whose error is ignored; go.test removes the file of its own machine.
RemoveProfile(c) ==
    /\ Running(c, "rm") \/ Running(c, "remove")
    /\ \E removed \in BOOLEAN :
          /\ Running(c, "remove") => removed = ~remote
          /\ files' = IF removed THEN [files EXCEPT !.profile = 0] ELSE files
    /\ Becomes(c, GoOn(job[c]))

PipelineStep(c) ==
    /\ \E step \in {"validate", "build", "test"} :
          /\ Running(c, step)
          /\ \/ FALSE \in Resolvable /\ Becomes(c, Unresolved(job[c]))
             \/ \E o \in Outcomes : Becomes(c, runStep(Ran(c, o, -1), step, o, -1))
    /\ UNCHANGED files

StaticStep(c) ==
    /\ Running(c, "static_analysis")
    /\ \/ FALSE \in Resolvable /\ Becomes(c, Skipped(job[c]))
       \/ \E o \in Outcomes, n \in {0, 2} : Becomes(c, runStep(Ran(c, o, n), "static_analysis", o, n))
    /\ UNCHANGED files

CoverageStep(c) ==
    /\ Running(c, "coverage")
    /\ IF project # "go" THEN Becomes(c, Skipped(job[c])) /\ UNCHANGED files
       ELSE \E o \in Outcomes, n \in Numbers, left \in {files.profile, c, 0} :
               /\ o = "ok" => left = c
               /\ files' = [files EXCEPT !.profile = left]
               /\ Becomes(c, runStep(Ran(c, o, n), "coverage", o, n))

Finalize(c) ==
    /\ Running(c, "finalize")
    /\ Becomes(c, finalize(job[c]))
    /\ UNCHANGED files

Next ==
    \E c \in Jobs :
       \/ Start(c) \/ Detect(c) \/ CheckArgs(c) \/ Resolve(c) \/ Run(c) \/ Observe(c) \/ Compile(c)
       \/ Execute(c) \/ Profile(c) \/ calculateCoverage(c) \/ RemoveProfile(c) \/ PipelineStep(c)
       \/ StaticStep(c) \/ CoverageStep(c) \/ Finalize(c)

-----------------------------------------------------------------------------
(* Properties. *)

\* The commands whose failure a tool lives with: the tests that a summary is about, and the
\* second reading of the coverage by go.test.
Dispensable(j) == {"observe"} \cup (IF j.ask.tool = "go.test" THEN {"func"} ELSE {})

Broken(j) == j.broken \ Dispensable(j)

Measured(j, stage) == {m[2] : m \in {n \in j.measured : n[1] = stage}}

\* The last of the failures that the answer of a pipeline lists.
FailedSteps(j) == {i \in DOMAIN j.steps : j.steps[i][2] = "failed"}
LastFailed(j) == CHOOSE i \in FailedSteps(j) : \A k \in FailedSteps(j) : k <= i

StepNames(j) == {j.steps[i][1] : i \in DOMAIN j.steps}

\* A pipeline without an error did all that it was asked for.
PipelineEarned(j) ==
    /\ {"validate", "build", "test"} \subseteq StepNames(j)
    /\ j.ask.static => "static_analysis" \in StepNames(j)
    /\ j.ask.gate /\ j.ask.limits.cover > 0 =>
          \E n \in Measured(j, "coverage") : n >= normalizeQualityGateConfig(j.ask.limits).cover
    /\ j.ask.gate /\ j.ask.limits.diags >= 0 /\ <<"static_analysis", "succeeded">> \in ToSet(j.steps)
       => \A n \in Measured(j, "static_analysis") : n <= j.ask.limits.diags

\* A pipeline that names a failed step names the last one.
FailureNamed(j) ==
    /\ j.err # "" /\ FailedSteps(j) # {} /\ j.failed = j.steps[LastFailed(j)][1]
    /\ j.ask.failFast \/ j.failed = "quality_gate" => FailedSteps(j) = {Len(j.steps)}
    /\ j.failed = "quality_gate" => Broken(j) = {}

\* ci.run_pipeline, quality.gate, repo.*, go.*, rust.*, node.*, python.* and c.*: a call that is
\* answered without an error had no command fail, a pipeline moreover ran every step that its
\* project has a command for, and measured what it was asked to keep within limits; a pipeline
\* that failed says which step was the last to fail, and one that fails fast ran nothing after
\* it; and what a call reads from a file, of coverage or to execute, is its own or that of a
\* call beside it, never what an earlier call left.
VerdictIsEarned ==
    \A c \in Jobs : job[c].pc = "done" =>
       /\ job[c].err = "" => Broken(job[c]) = {}
       /\ job[c].from \subseteq {c} \cup job[c].beside
       /\ job[c].ask.tool = "ci.run_pipeline" /\ job[c].err = "" => PipelineEarned(job[c])
       /\ job[c].failed # "" => FailureNamed(job[c])
=============================================================================
