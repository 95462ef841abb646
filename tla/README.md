# Underpass Runtime: TLA+ verification project

Models of the governed tool runtime (`src/`), checked with TLC on small
instances and proved with TLAPS for every value of the constants. Paths below are relative to the repository unless they end in
`.tla` or `.cfg`.

## 1. The system

The runtime gives AI agents *sessions* (a workspace in a directory, a container
or a pod) and *tools* that run inside them. Every tool call is governed:
rate-limited, authorised, bounded in concurrency, recorded, audited, published
as events and fed to a recommender.

| Part | State it keeps | Operations | Interacts with |
|---|---|---|---|
| Invocation service (`internal/app/service.go`) | none of its own per call | InvokeTool, session and discovery calls | every other part, through ports |
| Quota limiter (same file) | per-process maps: minute windows by session and principal, in-flight counts | allowRate, acquireConcurrency, release, allowRunResult | called by InvokeTool under one mutex |
| Invocation store (`internal/adapters/invocationstore`) | Valkey: a record per invocation, an index by (session, tool, correlation id) | Save (SET, then SETNX), Get, FindByCorrelation | shared by all replicas |
| Event bus (`internal/adapters/eventbus`) | Valkey list of pending events; JetStream stream | Publish, Drain, Ack, relay loop | filled by the service, emptied by one relay goroutine per process |
| Kubernetes sessions (`internal/adapters/workspace/kubernetes_*.go`) | pods, labelled with the session; records in the session store | CreateSession, GetSession, CloseSession, janitor sweep | Kubernetes API, session store |
| Session store (`internal/adapters/sessionstore`) | Valkey: a record per session with a TTL | Save, Get, Delete | managers and janitor |
| Local and Docker managers | maps and directories; containers | the same operations | file system, Docker API |
| Policy engine (`internal/adapters/policy/static_policy.go`) | none | Authorize | called by InvokeTool |
| Recommendation (`recommender.go`, `scorer.go`, `hylinucb.go`, `neural.go`, `prewarm.go`, ...) | warm caches, bandit instances, recent recommendations | Recommend, updates from outcomes | learned policies in Valkey, telemetry statistics |
| Telemetry (`internal/adapters/telemetry`) | Valkey lists, in-memory statistics | Record, periodic aggregation | service, recommender |
| Artifact and snapshot storage | files or S3 objects | Save, List, Read, snapshot and restore | service |
| Tools (`internal/adapters/tools`, over half the code) | the workspace, external systems | 138 capabilities | command runners: local, Docker, pod exec |
| Tool-learning service (`services/tool-learning`) | lake, policies in Valkey | compute a policy run, publish | recommender |
| Remediation agent (`internal/remediation`) | alerts in hand | handle an alert with a playbook | the gRPC API |
| gRPC API, audit, metrics, wiring | little | identity of the caller, conversion, redaction, counters | |

What is hard here:

* **Two stores, no transaction.** A session is a pod and a record; an
  invocation is a record and an index entry; a result is a record, an audit
  entry, an event and a telemetry entry. Each is written by a call that can
  fail, fail after it took effect, or be cut off by a crash.
* **Check-then-act across calls.** Correlation lookup and index; the janitor's
  listing, lookup and delete; drain and trim.
* **Several processes.** The production chart runs two replicas: they share
  Valkey and the list of pending events, but not the limiter.
* **Time.** Minute windows, the grace period and the readiness timeout, TTLs,
  the duplicate window of JetStream.
* **One tool, several backends.** Every file tool exists on disk and as a shell
  script in a pod, every container tool on four runtimes; the pod's commands can
  be cut off or time out after their effect, and outputs are cut at a limit.
* **Shared things that others change.** A Deployment, a remote branch, a Redis
  key, a coverage profile, a learned policy: read at one moment, used at another.

`PROJECT.json` lists these as hazards, at their lines, with the properties that
cover them.

## 2. Modules

| Module | Models | Used by |
|---|---|---|
| `Quota` | the limiter's decisions, one operator per critical section | `Invocation` |
| `Invocation` | `InvokeTool`, the invocation store, the limiter per replica, the evidence | `MCInvocation`, proofs |
| `EventLog` | abstract: what consumers of the event stream may rely on | `Outbox` (refinement) |
| `Outbox` | outbox list, relays, JetStream | `MCOutbox`, proofs |
| `K8sSessions` | session manager and janitor on Kubernetes, session store | `MCK8sSessions` |
| `Sessions` | gRPC session calls, service, local and Docker managers, both session stores, warm caches | `MCPlatformTools` |
| `WorkspaceTree` | the file tree, `os` calls and shell commands on it, `resolvePath` | `FsTools` |
| `FsTools` | the file tools, undo, `repo.tree`, `artifact.*`, the pod's command runner | `MCFsTools` |
| `Containers` | `container.*` on pods, Docker, a CLI, nothing; the sweep of their pods | `MCContainers` |
| `ClusterTools` | `k8s.*` on one namespace | `MCClusterTools` |
| `Policy` | `StaticPolicy.Authorize`, as operators | `DataTools`, `PlatformTools` |
| `DataTools` | connection profiles, `redis.*`, `nats.*`, `kafka.*`, `rabbit.*`, `mongo.*`, as operators | `PlatformTools` |
| `GitTools` | `git.*`, as operators on a repository and its remotes | `PlatformTools` |
| `Artifacts` | results of runs: quota, artifact store, record, queries | `PlatformTools` |
| `Builds` | `repo.*`, language tools, `repo.coverage_report`, `quality.gate`, `ci.run_pipeline` | `MCPlatformTools` |
| `PlatformTools` | composes `Policy`, `DataTools`, `GitTools` and `Artifacts`: the calls of a session while others use the same services | `MCPlatformTools` |
| `ToolLearning` | telemetry lists, `export-lake`, the hourly and the daily policy job | `Recommender` |
| `Recommender` | the service's side of learning, over `ToolLearning`: telemetry, aggregator, bandit, warm data, `RecommendTools`, feedback, learning status | `Remediation` |
| `Remediation` | the remediation agent as a client of `Recommender` | `MCLearning` |
| `MC*` | instances for TLC | the `.cfg` files |
| `InvocationProofs`, `OutboxProofs`, `K8sSessionsProofs`, `FsToolsProofs`, `ContainersProofs`, `ClusterToolsProofs`, `PlatformProofs`, `LearningProofs` | theorems | TLAPS |

### Invocation

A request is one call of `InvokeTool`, served by one goroutine of one replica.
A call creates at most one invocation, so the request stands for it. `pc[r]`
is the point the goroutine has reached; each action runs to the next point at
which another goroutine can interfere: a store call, a critical section of the
limiter, the tool, a call that leaves evidence. Correspondence:

| Action | Code |
|---|---|
| `Receive`, `Lookup` | `validateToolRequest`, `findInvocationByCorrelation` |
| `SaveRunning`, `IndexRunning` | the first `storeInvocation`: SET, then SETNX |
| `PublishStarted` | `publishEvent(EventInvocationStarted)` |
| `AllowRate`, `Authorize`, `AcquireConcurrency` | `authorizeToolInvocation` |
| `RunTool` | `tools.Invoke` and `allowRunResult` |
| `PersistRunArtifacts` | `persistRunArtifacts`, the run's error, schema validation |
| `SaveFinal`, `IndexFinal` | the second `storeInvocation` |
| `RecordAudit`, `PublishFinished`, `RecordTelemetry` | in the order of `completeToolInvocation` or of `denyInvocation` |
| `Return` | the deferred release and the answer |
| `Tick`, `Crash` | the clock; a replica dies and loses its limiter |

A store call that reports an error may have been applied or not. Publishing and
telemetry errors are ignored by the code, so the model records that the call
was made. `Authorize` chooses the answer of the policy engine (the static
engine never returns an error, but its port may). `FindByCorrelation` reads the
index and then the record; index entries never change (`TerminalIsFinal`), so
the two reads are one step. The times to live of records are not modelled: the
properties are about calls within them. The history variables `executed`,
`admitted`, `late` and `resets` (how often a session's window was replaced by that
of an earlier minute, or lost with the process) are read by properties only.

### Outbox

`list` is the Valkey list, `stream` the events in the order in which they first
reached JetStream, `copies` how often each is stored, `window` the ids in the
duplicate window. A relay is in `down`, `poll`, `forward` or `ack`. A drain
that fails or finds nothing leaves it polling and is not a step. `Halt` stands
for `Stop` and for a crash: the cycle under way ends where it is. `Relays` has
one member per process.

`EventLog` is the promise: a log of accepted events and the prefix of it that
consumers have seen. `InOrder` says that `Outbox` implements it, with
`log <- accepted` and `seen <- stream`.

### K8sSessions

Calls of `CreateSession` and `CloseSession` with their ids, one pod and one
record per id, and one janitor. Time is counted in ticks. A tick is not taken
past the readiness timeout of a creation that waits, nor more than
`SaveLatency` past it while the creation still saves or undoes: that is the
time the calls to Valkey and Kubernetes may take. The branch `session_expired`
of the janitor does not appear, since the session store already answers "not
found" for an expired record. The phase `failed` stands for every terminal or
unknown phase. Kubernetes (`PodReady`, `PodFails`, `PodGone`, `DeletePod`) is
external and modelled by what the code relies on: a delete by name affects
whatever pod has the name then, and a name is free again only when the old pod
is gone.

### Sessions

A request (`Ops`) is one create, read or close over gRPC. Its steps are the ones
that others can come between: the manager's map under its lock, the store, the
engine, the event, the warm cache. A creation makes a new *generation* of its
id; `box[id]` is the generation whose directory or container has the id's name,
since both managers name the workspace after the id. `GotOrClose` is the close
that a read does when it finds the session expired. `adrift` are generations for
which a call to the store or the engine failed, or whose name a restart or the
expiry of the record took away: the code has no way back to their workspace.
`overlapped` are the ids of which a session was made before the last one was gone:
a client may choose an id again, and both managers tell sessions by their id alone.

### FsTools and WorkspaceTree

A tree maps each path to nothing, a directory or a file; a file is a sequence of
lines. Each handler is an operator that gives the set of its possible results,
once through package `os` and once as the script sent to the pod. `Interrupted`
is a command cut off in the middle or one whose answer was lost; `truncate`
cuts what the runner reads. An undo snapshot is stored under a path whose
separators became `__`, and components are split around `__` so that two paths
can get one snapshot. `Invoke` composes the policy of paths, the handler and the
answer. `BackendsAgree` compares the two versions of every tool in every state.
A patch is the files that its `+++` lines name and at most one that it deletes or
renames as it is: `extractPatchPaths` sees only the former. `Sent` is what the
runner passes on of a listing, with its mark (`Mark`) in place of the rest.

### Containers

One step per request to the runtime; containers start, exit and age between
them. `DetectContainerRuntime` and `Fallback` are the choice of the runtime and
the simulated answers. A failed request may have had its effect (`faulty`); a
start on the Docker API that reports an error is undone by force (`DockerUndo`).
The id that a CLI run answers is the first word the command wrote
(`parseContainerRunID`). An exec on the Docker API is made, attached, copied and
inspected in four steps; the copy is not ended by the timeout. The janitor's
sweep lists (`SweepContainerPods`), looks up the record (`JanitorJudges`) and
deletes by name (`JanitorDeletes`) in three steps, between which another run may
take the name.

### ClusterTools

A call reads the Deployment (`get`), computes its change and writes it back
(`put`): an Update of an object that has changed is refused by the API server. A
rollback lists the ReplicaSets after the Deployment (`list`). `apply_manifest`
applies its documents one by one, each with a read and a write.
The controller (external) raises the observed generation when it gets to it. A
circuit breaker is a policy object with an expiry; the timer that removes it is
of the process, and `reconcileExistingPolicies` sets it again when the process
starts. The answer of a write, of a clean-up's delete or of the reconciliation's
list can be lost (`MaxLost`); the code repeats none of them.

### Policy, DataTools, GitTools, PlatformTools

`Policy` translates `Authorize` rule by rule. Texts are sequences of characters
(a word that no pattern splits counts as one), so that prefixes, patterns and
NATS tokens are compared as in the code. A data or git handler is an operator
from session, request and services to its possible answers; `Reading` and
`Writing` are the order of checks that the handlers share. `PlatformTools` asks
the policy and then the handler, while others set and expire keys (`KeySet`,
`KeyExpires`) and push commits (`OthersPush`). A push has a refspec of the forms
`ref`, `from:ref`, `:ref`, `:`, each with and without `+`, or none (`Sends`,
`Accepts`). A session has one *focus*, a family of tools: the families share
nothing but the policy.

### Artifacts

Per invocation: the quota, the payloads written one by one, the record, the
queries. A write can fail and leave a part; the record of the Valkey store has
neither output nor logs, only references; records expire and processes restart.

### Builds

A call is a sequence of stages with at most one command each, whose outcome
(ok, failed, timed out) and number (a percentage or a count) are
chosen. The coverage profile and the binary of `c.test` have one name per
workspace: `files` says which call wrote them.

### ToolLearning, Recommender, Remediation

A telemetry record stands for `n` invocations, so that the thresholds of the
code are crossed with few records; rates are in hundredths. The two policy jobs
and the export run one at a time each and overlap with each other; every write
can fail after a part of it. What scorers draw or compute from real weights is
any member of `Samples`. `ReadPoliciesForContext` may skip any tool's policy.
An invocation's signature is taken when its telemetry is recorded, and a denied one
may have run (its result was too large, or its tool refused). Data of a prewarmed
session keep the signature of then (`from`). A configuration has one *part* under study: the
pipeline, the service with Valkey, the service in memory, or the agent. Each
request of the agent can lose its answer after its effect.

## 3. Runs

Expected to pass:

| Run | Instance | Shows |
|---|---|---|
| `invocation` | 2 requests, 1 replica, limits 2 per session, 1 per principal, 1 in flight; 2 minutes; 1 crash; fair | slot accounting, safe retries, complete and consistent evidence, final statuses stay, every call is answered and every slot comes back |
| `invocation_replicas` | 3 requests, 2 replicas, limits 1 and 1; 2 minutes; 1 crash; symmetric | the limits of each replica with a shared store and separate limiters; the rate limit per window, of which a late call or a restart gives a new one |
| `outbox` | 4 events, batches of 2, 1 relay, 1 halt, 1 passing of the duplicate window; fair | nothing lost, repeats only after forgetting, order (refinement), delivery, the list drains |
| `k8s_sessions` | 1 id, 2 creations, janitor, 1 crash; grace 2 = timeout 2, latency 1; fair | live sessions whose creation was shorter than the grace period keep their pods; orphans are collected |
| `k8s_close` | 1 id, 1 creation, 2 closes, janitor, 1 crash | a successful close is final |
| `fs_tools` | 5 paths, 2 lines, outputs cut at 2, every pair of calls of every tool, both backends, with and without allowed paths | changes stay in the allowed paths, no file is lost unasked, answers are true, cuts show, both backends do the same |
| `containers` | every kind of run and a second call, 2 containers, 4 runtimes; fair | what a run answers is so, running containers are kept, calls end, pods of ended sessions go |
| `cluster_tools` | 2 calls of any tool on 2 processes, 1 Deployment, clock 2, 1 crash, 1 lost answer; fair | "completed" is about this rollout, writes keep each other's changes, breakers end |
| `platform_tools` | 14 sessions: Redis, messages, git, cluster, results, builds, life; 1 to 3 calls each | effects and answers stay in scope, Redis answers that were cut say so, remote branches change only as told, results are read back, verdicts are earned, live sessions have their workspace and closed ones leave nothing |
| `learning` | 4 configurations, 2 tools, 2 signatures, 2 records, 1 export, 1 run per schedule, 2 alerts | what a job announces is stored, the bandit learns from runs only, answers are evidenced by what is stored, feedback is earned |

Expected to be violated, each a disagreement of code and documentation
(`PROJECT.json`, findings, has the quotations):

| Run | What happens |
|---|---|
| `invocation_idempotent` | two concurrent calls with one correlation id both miss the index and both run the tool |
| `outbox_two_relays` | two relays drain the same head and both trim: the second trim removes events never forwarded |

Other disagreements met while modelling. Where constants or exemptions are named,
TLC shows the case when they are changed; the others are read from the code:

* *Audit.* The tool ran, the final save fails, and the call returns before
  `audit.Record` (`service.go:519`; `SECURITY.md:36` says all invocations are
  recorded). `SuccessIsEvidenced` is about calls answered as succeeded.
* *Rate limit.* A call that started in the old minute and reaches the limiter in
  the new one replaces the newer window (`service.go:1090`), and a crash empties
  the limiter: `RateLimitHolds` counts these resets and allows the limit again for
  each. The documented limit per minute is exceeded then.
* *Labels.* Of an id that `sanitizeLabelValue` changes (`kubernetes_manager.go:509`)
  the janitor does not find the record and deletes a live session's pod.
  `LiveHasPod` is about ids that are their own label (`Judged`).
* *Grace.* Grace period and readiness timeout both default to 120 s: a creation
  that takes the whole timeout can lose its pod between readiness and the save of
  its record. `LiveHasPod` is about creations shorter than the grace period.
* *Re-created ids.* Of two sessions of one id that overlap, a read that found the
  first expired closes the second (`local_manager.go:97`), the store deletes the
  second's record (`valkey_store.go:88`), and a close whose caller was checked
  against the first closes the second. `LiveHasWorkspace` and `ClosedIsGone` are
  about ids whose sessions follow each other (`Sole`).
* *Files.* In a pod `fs.mkdir` answers `created: true` for what it did not create;
  two files can share an undo snapshot, so `workspace.undo_edit` does not always
  restore what was before the last edit; a copy without `recursive` or without
  `create_parents` differs between the backends; a search of a single file finds
  nothing in a pod, where grep prints no name (`fs_tools.go:1515`); an output that
  only the runner cut is not flagged. A patch deletes and renames files outside
  `allowed_paths`, since only `+++` lines are looked at (`fs_tools.go:1805`). These
  are the exemptions in `AnswersHold`, `BackendsAgree`, `ReadersComplete` and
  `Confined`.
* *Containers.* A pod's container that fails before the first poll is "failed to
  start" and its pod stays until the sweep; a failed removal followed by a retry
  is answered ok; an attached CLI run answers the container's first word as its id;
  an exec on the Docker API waits for its command however long it takes
  (`container_tools_docker.go:256`); a sweep deletes a pod that took the name of the
  one it judged.
* *Cluster.* A scale by a delta can pass the cap of 200 that a scale to a number
  obeys; `apply_manifest` leaves what it applied before a refused document;
  a breaker that another replica renewed is removed by the older timer; a breaker
  whose creation, deletion or listing lost its answer stays, and so do breakers of
  namespaces other than the default one after a restart.
* *Data and git.* `redis.scan`'s cursor after a truncated page skips the keys that
  were dropped; `>` in a NATS subject matches no token in the policy and at
  least one in a profile; `git.push` deletes the reference to clean up before
  remote and refspec are checked, pushes the branch that is checked out, unchecked,
  when there is no refspec, and passes on the `+` that it does not look at
  (`git_tools.go:968-993`); `rabbit.consume` drops messages it has acknowledged and
  `mongo.find` stops at its limit, and neither says so; `rabbit.publish` checks the queue, not the
  routing key.
* *Results.* An artifact of the tool named like the service's own output or logs
  is read back in their place (`Reserved` in `Artifacts`); `List` of the local
  store cuts the identifier at its first dash; the S3 list reads one page; a
  retry answered from Valkey has neither output nor logs.
* *Builds.* `repo.test_failures_summary` answers ok with no failing test when the
  command could not run; a skipped analysis passes `max_diagnostics`;
  the coverage profile stays after a failed or failing-fast run.
* *Learning.* Nothing registers a tool with the aggregator, so with Valkey it has
  no statistics; warm data is never refreshed; each export writes all records
  again; denials count as failures in the lake; the event id that
  `AcceptRecommendation` answers is not the published one; the audit snapshot is
  stored under another key than the one announced; `hylinucb_hybrid` is answered as
  an algorithm and never listed by the status (`service.go:1362`).
* *Agent.* An empty playbook without recommendations counts as success; the
  severity of an alert is not looked at.

**Bounds.** Two requests are enough for each race on the index and on a slot;
three on a limit of 1 fill it, exceed it and come late. One session and one tool suffice for safety since every
map is keyed by them and the proofs cover any number. One crash cuts one call at
every point while the other continues. Four events in batches of two give a
second batch and a batch that is cut in the middle. In the Kubernetes runs all
calls are about one id: different ids share nothing but the janitor's sweep.

The file tools are checked on a directory, a file in it, a file beside it and a
name that collides in the undo snapshots; two calls give every edit followed by
an undo and every move onto what another call made. Two containers are the run's
and another's; two calls race on one Deployment. Redis has five keys, some
of which are prefixes of others, and pages smaller than the table; three calls
give a scan, its continuation and a read. The session's commits and one of
others make every order of fetch, push and forced push, with each form of refspec. `Builds` takes one call of each tool and
pairs of the calls that share files. `Sessions` has three requests and
two creations of one id, one restart and one tick past the time to live. In `learning` a record
of 60 or 120 invocations crosses each threshold of the code; one run per
schedule overlaps the other and the export.

`MaxMinute`, `MaxCrashes`, `MaxForgets`, `MaxHalts`, `MaxCalls`, `MaxLen`,
`MaxBoxes`, `MaxTime`, `MaxLost`, `MaxCommits`, `maxCalls`, `MaxCreates`,
`MaxRestarts`, `MaxRecords`, `MaxExports`, `MaxRuns`, `MaxInvocations`,
`MaxAnswers`, `MaxChanges` and `MaxAlerts` are the caps; they appear in the
guards. `CHECK_DEADLOCK FALSE` is used where requests, events or calls are finite
and the system may be finished. Symmetry is used only where no liveness is
checked.

**Fairness.** `Invocation`: weak fairness of each goroutine's next step; store
calls return, and a tool ends because every capability of the catalogue sets a
timeout. No request must arrive and nothing must crash. `Outbox`: a relay is
restarted and polls (weak); a publish or a trim that is tried for ever succeeds
some time (strong): no outage is permanent and no event is refused for ever.
`K8sSessions`: time passes, calls return, terminating pods end, the ticker
fires (weak); a lookup or delete that every sweep repeats succeeds some time
(strong). `Containers`: the steps of a call (requests have deadlines; the copy of
a Docker exec has none and is fair only once its container no longer runs), the
steps of the sweep and the ageing of pods (weak); no container must start or exit. `ClusterTools`: the clock, the steps of a call (waits have deadlines) and
the timers of each process (weak); the controller need not act.

## 4. Theorems

TLAPS checks these for every set of requests, replicas, sessions, events, relays,
pods, containers, calls, paths, keys and tools, and every limit and bound.
Assumptions: those named in the modules, which TLC evaluates on every run. Only
the two theorems under `OneRelay` have a hypothesis of their own.

* `InvocationProofs`: `TypeCorrect`; `SlotAccounting` and `ConcurrencyHolds`.
  The invariant is `SlotInv`. `SlotsExact` alone is not inductive: a release
  would be counted twice unless a call that owes one is on a path that ends in
  `Return` (`SlotsHeldInPlace`), and the bound on running tools follows from the
  bound on the counter (`InFlightBounded`) only if every running call holds a
  slot (`RunningHoldsSlot`). Cardinalities come from `FiniteSetTheorems`.
  `IndexNamesRecords`, `RetriesAreSafe` and `TerminalStays` follow from
  `RecordInv`: a call past its first save has a record, a terminal record exists
  only from the final save on, and a late call stays at points from which it must
  find the record. `EvidenceIsConsistent` and `SuccessLeavesEvidence` follow from
  `EvidenceInv`, which says for each point of a call what must already be stored,
  audited, published and recorded (for publishing and telemetry, whose errors the
  code ignores: that the call was made), and what cannot be yet: only that makes
  the agreement survive a write that fails and a crash between two writes.
  `RateLimitIsKept` follows from `RateInv`: the window counts the calls of its own
  minute since it was last reset; a minute that is over had one window more than
  there were resets, one that is to come at most as many.
* `OutboxProofs`: `OutboxTypeCorrect` and `RepeatsBounded` for any relays;
  `OneRelayLosesNothing` and the refinement `OneRelayKeepsOrder` under
  `OneRelay`, from `OutboxInv`: the list is a suffix of what was accepted, the
  stream a prefix, they overlap or touch, and the batch under way is the head of
  the list. `OneRelay` is necessary: `outbox_two_relays` is the counterexample.
* `K8sSessionsProofs`: `SessionsTypeCorrect`. `CloseHolds` from `CloseInv`:
  labels are those of the ids, and a close past a step without error finds its
  id without a pod or without a record. `LiveSessionsKeepPods`, for every grace
  period, timeout and labelling, from `LiveInv`: of an id that the janitor judges
  aright, a creation under way has a pod no older than itself, so a listed pod
  beyond the grace period is not one of a creation; the janitor's victim has no
  record and none will appear.
* `FsToolsProofs`: `AnswersAreTrue`, `CallsAreConfined`, `LossesAreAskedFor`,
  `ReadersTellAll` and `TheBackendsAgree`, from `FsInv`: the tree is one that a
  file system can hold (`IsTree`), and snapshots are contents. Lemmas say what each
  `os` call and each shell command does to a tree, and each handler is shown to be
  one of them on disk and in a pod. Assumptions: paths are closed under prefixes
  (`PathsClosed`), finite sequences of components (`PathsTyped`); the first trees
  are trees (`TreesTyped`), contents are sequences of lines (`ContentsTyped`),
  limits are numbers (`SizesTyped`).
* `ContainersProofs`: `ContainersTypeCorrect`; `RunAnswersAreTrue` and
  `RunningStays` from `BoxInv`. A step of a call changes its own container or a
  free id (`CallShape`), and whatever else happens lets containers only go on from
  created to running, exited and gone (`BoxesGo`); what the janitor has judged stays
  true of the pod it judged (`SweptInPlace`). These relations carry all four
  runtimes and any number of concurrent calls. The exceptions of
  `RunningIsKept` are needed: a start that took effect and reported an error is
  undone, and a delete by name takes whatever pod has the name.
* `ClusterToolsProofs`: `ClusterTypeCorrect`; `CompletedHolds` and `WritesKeep`
  from `ClusterInv`: a copy whose version is still the current one, before and after
  the ReplicaSets are listed, differs from the object only in what its tool changes,
  every write raises the version, and generations only grow. That the revision a rollback chooses exists is shown
  from the finite set of revisions (`Greatest`).
* `PlatformProofs`, all for the composition `MCPlatformTools`.
  `LiveSessionsHaveWorkspaces` and `ClosedSessionsAreGone` from `LifeInv`: of an
  id whose sessions follow each other (`Orderly`), the map and the store hold the
  last session, which has its workspace or had a failure; a request that undoes a
  session never meets one that is still making it; and a workspace is named by the
  map, the record or a request that will remove it. `RemotesAreKept` from the shape
  of the repository (`Repo`) and a lemma per `git.*` tool. `CallsStayWithinScope`
  from `DataInv`: what the last answer tells of is in scope, since the scope of a
  session never changes; lemmas on `Policy` and on prefixes and patterns say which
  keys, subjects and topics a handler can be about. `VerdictsAreEarned` from
  `BuildInv`: what is left to do of a call, what its steps were so far, and whose
  file it is about to read. Assumptions: keys are texts (`KeysTyped`), at least
  three (`EnoughKeys`); what sessions allow are texts (`SessionsTyped`); calls are
  to the tools of `Builds` (`ScenariosTyped`); `MaxCommitsNat`.
* `LearningProofs`, all for the composition `Remediation` of pipeline, service
  and agent. `AnnouncementsAreTrue` from `RunsInv`: runs are numbered once, and
  a job has stored what it announces. `BanditLearns` from `BanditInv`: updates
  plus the weights of the invocations still being recorded, summed over the
  sessions, are at most the executions; the sum is the last running total along an
  order of the sessions. `EvidenceAgreesWithAnswers` from `EvidenceInv`: an id is
  used once; what the policy store holds it took (`StoreHolds`); and the policies of
  a call, or of a prewarmed session, were in it under the signature they were read
  for (`ReadFrom`, `CallHolds`). `FeedbackIsDeserved`
  from `AgentInv`: an id under way has had no feedback; what ran in the agent's
  session is what its steps say, except for lost answers and the one awaited;
  what is open is the agent's or stray. Assumptions: sessions and tools are finite,
  signatures are among `Sigs` (`SignatureAssumption`), playbooks name tools and
  `None` is no session.

Induction theorems with an operator as parameter cannot be used here. Where a
definition recurs (the pages of a scan, the greatest revision, a running total),
the proofs take the least counterexample of a set of numbers (`WFMin`).

The type-correctness theorems and `IndexNamesRecords` state invariants that the
other theorems rest on; no run repeats them.

Only model-checked:

* liveness (`EventuallyAnswered`, `SlotsEventuallyFree`, `EventuallySeen`,
  `ListDrains`, `OrphansCollected`, `CallsAnswered`, `PodsCollected`,
  `BreakersEnd`): fairness is outside the prover's reach;
* `RedisCutsFlagged`: the total of an answer is a fold over its items, whose value
  for every sequence the provers do not reach;
* `ReadsBack`: it relates records, references and objects over every order of failed
  writes, expiries and queries; its inductive invariant is not written yet.

## 5. Not modelled

* Formatting, redaction, tracing, metrics and KPI counters; protobuf conversion;
  flags, TLS and server start-up; generated code.
* Times to live of invocation records; repeated commands inside the Valkey
  client; list elements of the outbox that cannot be decoded.
* A second janitor at the same time; `GetSession`'s close of an expired session on
  Kubernetes (Valkey drops the record at the same moment); the contents of pods.
* `snapshot_store.go`: no process constructs it. The Docker manager without a
  session store: `main.go` always gives it one.
* In the file tools: symbolic links, and the snapshots of undo as files of the
  workspace (`undo_tools.go:124`), which `Confined` does not count; the limit of
  64 KB per line of a local `fs.read_lines`; removals that fail half way.
* In the cluster tools: namespaces other than the default one; an `apply_manifest`
  whose write took effect and reported an error. An S3 put that took effect and
  reported an error. The `arg_fields` of most `git.*` tools, which only refuse more.
* The learning server's queries (decisions, bundles, policies, aggregates, insights)
  and `DiscoverTools`: they read and change nothing.
* Malformed JSON arguments are one refused request per tool. Fetches and pulls name
  one reference or none. A copy of a directory into itself is not asked for. Prefixes of `redis.scan` have no glob
  characters. RabbitMQ publishes to the default exchange. A data or git call is
  one step: what others do comes before or after it.
* In `Builds`, command lines and the parsing of what commands print (the last
  "coverage:" line, the count of diagnostics); the searches of
  `repo_analysis_tools.go` (symbols, changed files, stack traces as text).
* In learning, SQL, sampling, training, `domain/hylinucb.go` (used by the
  benchmark only), `seed-lake`; the windowed telemetry query (its default is off).
* The tools listed as "Other tools" in `PROJECT.json`: they run a program or send
  a request and format the answer. `shell.exec` reports a command that could not
  be run as a result with an exit code. `notify.escalation_channel` limits
  deliveries per incident in the process; its retries are a loop over one request.

## 6. Plan

What is left, in this order:

1. **Proofs**: `RedisCutsFlagged` and `ReadsBack`.
2. **Sessions**: an abstract life cycle that `K8sSessions` and `Sessions` both
   implement; two janitors; the overlapping sessions of one id, and the pods of ids
   that the janitor misjudges, as properties of their own.
3. **Invocation and outbox composed**: events of calls through the outbox, and
   the shutdown order of `cmd/workspace`.
4. **Tools**: image builds and pushes, the escalation channel's limit.
