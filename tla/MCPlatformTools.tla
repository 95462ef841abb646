----------------------------- MODULE MCPlatformTools -----------------------------
(***************************************************************************)
(* A session's tools and results (PlatformTools), the builds in its        *)
(* workspace (Builds) and its life (Sessions).  The parts share no state:  *)
(* a behaviour follows one, the focus of its session.  There is one        *)
(* session per family of tools, whose policy is narrower than its          *)
(* profiles, one whose builds and one whose life are followed.             *)
(***************************************************************************)
EXTENDS PlatformTools

CONSTANTS Ops, Ids, Principals, TTLs, Auth, MaxCreates, MaxTime, MaxRestarts,  \* as in Sessions
  Jobs, Projects, Workspaces, Scenarios   \* as in Builds

VARIABLES
  backend, mem, store, box, cache, warmed, events, op, made, answered, closed, overlapped, adrift,
  clock, restarts,  \* as in Sessions
  project, remote, files, job   \* as in Builds

Life == INSTANCE Sessions

lifeVars == <<backend, mem, store, box, cache, warmed, events, op, made, answered, closed, overlapped,
              adrift, clock, restarts>>

Build == INSTANCE Builds

\* Calls are to the tools of Builds, with whole numbers for limits.
ASSUME ScenariosTyped ==
  \A asked \in Scenarios, c \in Jobs :
    /\ asked[c].tool \in Build!Tools \cup {""}
    /\ asked[c].limits.cover \in Int /\ asked[c].limits.diags \in Int

buildVars == <<project, remote, files, job>>

MCInit ==
  /\ Init /\ Life!Init /\ Build!Init
  /\ session.focus # "life" => backend = "local"
  /\ session.focus # "builds" =>
       project = "unknown" /\ ~remote /\ \A c \in Jobs : job[c] = Build!NoJob

MCNext ==
  \/ Next /\ UNCHANGED <<lifeVars, buildVars>>
  \/ session.focus = "life" /\ Life!Next /\ UNCHANGED <<vars, buildVars>>
  \/ session.focus = "builds" /\ Build!Next /\ UNCHANGED <<vars, lifeVars>>

MCSpec == MCInit /\ [][MCNext]_<<vars, lifeVars, buildVars>>

SymmetryOps == Permutations(Ops)

\* A session that is answered for has its workspace: see Sessions.
LiveHasWorkspace == Life!LiveHasWorkspace

\* Of a session that was closed nothing is left: see Sessions.
ClosedIsGone == Life!ClosedIsGone

\* What the tools that build and test say is what their commands came to: see Builds.
VerdictIsEarned == Build!VerdictIsEarned

MCKeyOrder == <<<<"dev", ":", "a">>, <<"dev", ":", "b">>, <<"dev", "2">>,
                <<"dev", ":", "a", "1">>, <<"dev", ":", "a", "2">>>>
MCSetKeys == {MCKeyOrder[1], MCKeyOrder[3], MCKeyOrder[4], MCKeyOrder[5]}
MCDataNames == [topics |-> {<<"dev", ".", "a">>, <<"ops", ".", "a">>},
                queues |-> {<<"dev", ".", "a">>, <<"ops", ".", "a">>},
                databases |-> {<<"dev">>, <<"ops">>}]
MCBranches == {<<"main">>, <<"feature", "a">>}

Writable == {[p EXCEPT !.readOnly = FALSE] : p \in defaultConnectionProfiles}

MCSession(focus, keys, roles) ==
  [focus |-> focus, maxCalls |-> IF focus = "messages" THEN 2 ELSE 3, roles |-> roles,
   allowedPaths |-> {}, profiles |-> Writable,
   allowedProfiles |-> {}, env |-> [allowlist |-> FALSE, endpoints |-> <<>>, rules |-> <<>>],
   meta |-> [profiles |-> {}, subjects |-> {<<"dev", ">">>}, topics |-> {<<"*">>},
             queues |-> {<<"dev", "*">>}, keys |-> keys, namespaces |-> {<<"dev">>},
             registries |-> {<<"ghcr", ".", "io">>},
             profile |-> "", environment |-> "", runtimeEnv |-> "", workspaceEnv |-> ""],
   refPrefixes |-> {<<"refs", "heads", "feature">>}, remotes |-> {"origin"}]

Specialist(profile, environment) ==
  [MCSession("cluster", {}, {"platform_admin"}) EXCEPT !.maxCalls = 1, !.meta.profile = profile,
     !.meta.environment = environment, !.meta.runtimeEnv = "dev"]

MCSessions ==
  {MCSession("redis", {<<"dev">>}, {"devops"}),
   MCSession("redis", {<<"dev", ":", "a">>}, {"devops"}),
   MCSession("messages", {}, {"devops"}), MCSession("messages", {}, {"reader"}),
   [MCSession("messages", {}, {"devops"}) EXCEPT !.profiles = {}],
   MCSession("git", {}, {"platform_admin"}), MCSession("cluster", {}, {"platform_admin"}),
   Specialist("saturation-operator-bounded", "dev"), Specialist("saturation-operator-bounded", "prod"),
   MCSession("results", {}, {"devops"}), MCSession("life", {}, {"devops"}),
   MCSession("builds", {}, {"devops"}),
   Specialist("runtime-rollout-narrow", "prod"), Specialist("human-escalation-minimal", "dev")}

MCWirings ==
  {[records |-> "memory", objects |-> "local"], [records |-> "valkey", objects |-> "local"],
   [records |-> "valkey", objects |-> "s3"]}
MCLimits == [output |-> 3, artifacts |-> 1, bytes |-> 3]
Value(kind, fields, size) == [kind |-> kind, fields |-> fields, size |-> size]
Payload(name, size) == [name |-> name, data |-> [as |-> "bytes", value |-> name, size |-> size]]
AnySchema == [type |-> "", required |-> {}, properties |-> <<>>]
CountSchema == [type |-> "object", required |-> {"count"}, properties |-> [count |-> "integer"]]
Counted == [output |-> Value("object", [count |-> "integer"], 1), logs |-> <<"a", "b">>,
            artifacts |-> <<Payload(<<"dir", "report">>, 1)>>, err |-> "", schema |-> CountSchema]
MCResults ==
  {Counted, [Counted EXCEPT !.err = "failed", !.logs = <<>>],
   [Counted EXCEPT !.output.fields = [other |-> "string"]],
   [Counted EXCEPT !.output = Value("nil", <<>>, 0), !.schema = AnySchema, !.artifacts = <<>>],
   [Counted EXCEPT !.output = Value("unencodable", <<>>, 0), !.schema = AnySchema],
   [Counted EXCEPT !.output.size = 4], [Counted EXCEPT !.artifacts = <<Payload(<<"..">>, 4)>>],
   [Counted EXCEPT !.artifacts = <<Payload(<<"invocation-output.json">>, 1)>>]}

\* As in Builds: a value given to a constant of an instance does not refer to the instance.
NoRequest == [tool |-> "", valid |-> TRUE, run |-> TRUE, static |-> TRUE, coverage |-> TRUE,
              gate |-> TRUE, failFast |-> TRUE, limits |-> [cover |-> -1, diags |-> -1],
              metrics |-> [cover |-> 0, diags |-> 0, tests |-> 0]]
ToolRequest(tool, valid) == [NoRequest EXCEPT !.tool = tool, !.valid = valid]
Pipeline(static, coverage, failFast) ==
  [NoRequest EXCEPT !.tool = "ci.run_pipeline", !.static = static, !.coverage = coverage,
     !.failFast = failFast]
Limited == [cover |-> 1, diags |-> 0]
OneRequest ==
  {ToolRequest(tool, valid) : valid \in BOOLEAN,
     tool \in {"repo.detect_project_type", "repo.validate", "repo.build", "repo.run_tests",
              "repo.static_analysis", "repo.package", "go.mod.tidy", "go.generate", "go.build",
              "rust.build", "node.test", "python.install_deps", "python.validate", "python.test",
              "c.build"}}
  \cup {[ToolRequest(tool, TRUE) EXCEPT !.run = run] : run \in BOOLEAN,
          tool \in {"repo.test_failures_summary", "repo.stacktrace_summary"}}
  \cup {[ToolRequest("quality.gate", TRUE) EXCEPT !.limits = Limited, !.metrics.cover = n] :
          n \in {0, 2}}
  \cup {Pipeline(s, c, f) : s \in BOOLEAN, c \in BOOLEAN, f \in BOOLEAN}
  \cup {[Pipeline(TRUE, c, f) EXCEPT !.limits = Limited, !.gate = g] :
          c \in BOOLEAN, f \in BOOLEAN, g \in BOOLEAN}
Report == ToolRequest("repo.coverage_report", TRUE)
Test == ToolRequest("go.test", TRUE)
TestC == ToolRequest("c.test", TRUE)
MCScenarios ==
  {<<r, NoRequest>> : r \in OneRequest \cup {NoRequest, [Test EXCEPT !.coverage = FALSE]}}
  \cup {<<Report, Report>>, <<Report, Test>>, <<Test, Test>>, <<TestC, TestC>>,
        <<TestC, [TestC EXCEPT !.run = FALSE]>>, <<Pipeline(FALSE, TRUE, TRUE), Report>>,
        <<Pipeline(FALSE, TRUE, TRUE), Test>>}
================================================================================
