------------------------------ MODULE Invocation ------------------------------
(***************************************************************************)
(* The governed tool call: Service.InvokeTool of internal/app/service.go   *)
(* with the invocation store it writes (the Valkey store of                *)
(* internal/adapters/invocationstore), the quota limiter of each replica,  *)
(* and the evidence it leaves (audit records, domain events, telemetry).   *)
(*                                                                         *)
(* A request is one gRPC call, served by one goroutine of one replica; a   *)
(* request creates at most one invocation, so the invocation it creates is *)
(* identified by the request.  Each action is the code between two points  *)
(* where another goroutine can interfere: a call to the store, a critical  *)
(* section of the limiter, or a call of the tool.                          *)
(***************************************************************************)
EXTENDS Quota, FiniteSets

CONSTANTS
  Requests,          \* calls of InvokeTool
  Replicas,          \* runtime processes sharing one Valkey
  Sessions,
  Principals,
  PrincipalOf,       \* the owner of each session (tenant:actor)
  Tools,
  CorrelationIDs,    \* client-provided correlation ids
  NoCorrelation,     \* the empty correlation id
  NoInvocation,
  MaxPerMinute,              \* WORKSPACE_RATE_LIMIT_PER_MINUTE
  MaxPerMinutePerPrincipal,  \* WORKSPACE_RATE_LIMIT_PER_MINUTE_PER_PRINCIPAL
  MaxConcurrent,             \* WORKSPACE_MAX_CONCURRENCY_PER_SESSION
  MaxMinute,         \* bound: the clock stops at this minute
  MaxCrashes         \* bound: replica crashes in a behaviour

ASSUME RequestsFinite == IsFiniteSet(Requests)
ASSUME NoInvocationFresh == NoInvocation \notin Requests
ASSUME NoCorrelationFresh == NoCorrelation \notin CorrelationIDs
ASSUME OwnersTyped == PrincipalOf \in [Sessions -> Principals]
ASSUME LimitsTyped == /\ MaxPerMinute \in Nat
                      /\ MaxPerMinutePerPrincipal \in Nat
                      /\ MaxConcurrent \in Nat
ASSUME BoundsTyped == MaxMinute \in Nat /\ MaxCrashes \in Nat

VARIABLES
  pc,               \* where each request's goroutine is
  call,             \* the request: replica, session, tool, correlation id
  outcome,          \* how the call ends, once decided
  minute,           \* startedAt, truncated to the minute
  slots,            \* requests whose deferred releaseConcurrency is pending
  store,            \* Valkey: status of each stored invocation
  corrIndex,        \* Valkey: correlation key -> invocation
  sessionWindow,    \* limiter.perSessionWindowCounters of each replica
  principalWindow,  \* limiter.perPrincipalWindowCounters of each replica
  inFlight,         \* limiter.perSessionInFlight of each replica
  now,              \* the minute on the clock
  crashes,          \* crashes so far (bound)
  executed,         \* requests whose tool ran (the side effects exist)
  admitted,         \* requests that passed allowRate
  late,             \* requests received when their key was already indexed
  resets,           \* times a newer window of a session was lost to an older call or a crash
  audit,            \* status in the audit record of each invocation
  events,           \* domain events emitted for each invocation
  telemetry         \* status in the telemetry record of each invocation

limiter  == <<sessionWindow, principalWindow, inFlight>>
valkey   == <<store, corrIndex>>
evidence == <<audit, events, telemetry>>
history  == <<executed, admitted, late, resets>>
vars == <<pc, call, outcome, minute, slots, valkey, limiter, now, crashes,
          history, evidence>>

------------------------------------------------------------------------------
(* Types *)

Correlations == CorrelationIDs \cup {NoCorrelation}

Calls == [replica : Replicas, session : Sessions, tool : Tools,
          corr : Correlations]

\* domain.InvocationStatus; "none" where nothing is recorded.
Terminal == {"succeeded", "failed", "denied"}
Statuses == Terminal \cup {"running"}
Recorded == Statuses \cup {"none"}

\* The points of InvokeTool between which goroutines interleave.
Labels == {"idle", "lookup", "save", "index", "started", "rate", "authorize",
           "acquire", "run", "persist", "store", "storeIndex", "audit",
           "event", "telemetry", "return", "done", "crashed"}

\* How InvokeTool ends: "unsaved" is a tool that succeeded and whose final
\* record could not be saved, "policyError" an error of the policy engine.
Outcomes == {"pending", "notFound", "internal", "existing", "denied",
             "failed", "policyError", "succeeded", "unsaved"}

CorrKeys == Sessions \X Tools \X CorrelationIDs

Minutes == 0 .. MaxMinute

TypeOK ==
  /\ pc \in [Requests -> Labels]
  /\ call \in [Requests -> Calls]
  /\ outcome \in [Requests -> Outcomes]
  /\ minute \in [Requests -> Minutes]
  /\ slots \subseteq Requests
  /\ store \in [Requests -> Recorded]
  /\ corrIndex \in [CorrKeys -> Requests \cup {NoInvocation}]
  /\ sessionWindow \in [Replicas -> [Sessions -> QuotaWindow]]
  /\ principalWindow \in [Replicas -> [Principals -> QuotaWindow]]
  /\ inFlight \in [Replicas -> [Sessions -> Nat]]
  /\ now \in Minutes
  /\ crashes \in 0 .. MaxCrashes
  /\ executed \subseteq Requests
  /\ admitted \subseteq Requests
  /\ late \subseteq Requests
  /\ resets \in [Replicas -> [Sessions -> Nat]]
  /\ audit \in [Requests -> Recorded]
  /\ events \in [Requests -> SUBSET {"started", "completed", "denied"}]
  /\ telemetry \in [Requests -> Recorded]

------------------------------------------------------------------------------
(* Helpers *)

Goto(r, label) == pc' = [pc EXCEPT ![r] = label]

Correlated(r) == call[r].corr # NoCorrelation

\* correlationKey: (session, tool, correlation id).
CorrelationKey(c) == <<c.session, c.tool, c.corr>>

\* The status the invocation value carries once its outcome is decided.
FinalStatus(o) ==
  CASE o = "denied"                    -> "denied"
    [] o \in {"failed", "policyError"} -> "failed"
    [] o \in {"succeeded", "unsaved"}  -> "succeeded"
    [] OTHER                           -> "running"

\* Mutant: SET instead of SETNX, the last invocation wins.
Mut_IndexOverwrites(r) == [corrIndex EXCEPT ![CorrelationKey(call[r])] = r]

\* SETNX of the correlation index: the first invocation wins.
SetNX(r) ==
  LET key == CorrelationKey(call[r])
  IN IF corrIndex[key] = NoInvocation
     THEN [corrIndex EXCEPT ![key] = r]
     ELSE corrIndex

Reply(r, o) ==
  /\ outcome' = [outcome EXCEPT ![r] = o]
  /\ Goto(r, "done")

\* Decide how the invocation ends and start recording it.
Settle(r, o) ==
  /\ outcome' = [outcome EXCEPT ![r] = o]
  /\ Goto(r, "store")

\* invocation := domain.Invocation{ID: newID("inv"), StartedAt: time.Now()}
Begin(r) ==
  /\ minute' = [minute EXCEPT ![r] = now]
  /\ Goto(r, "save")

------------------------------------------------------------------------------
(* Initial state: an empty Valkey, fresh processes, any assignment of calls. *)

Init ==
  /\ pc = [r \in Requests |-> "idle"]
  /\ call \in [Requests -> Calls]
  /\ outcome = [r \in Requests |-> "pending"]
  /\ minute = [r \in Requests |-> 0]
  /\ slots = {}
  /\ store = [r \in Requests |-> "none"]
  /\ corrIndex = [k \in CorrKeys |-> NoInvocation]
  /\ sessionWindow = [p \in Replicas |-> [s \in Sessions |-> NoWindow]]
  /\ principalWindow = [p \in Replicas |-> [q \in Principals |-> NoWindow]]
  /\ inFlight = [p \in Replicas |-> [s \in Sessions |-> 0]]
  /\ now = 0
  /\ crashes = 0
  /\ executed = {}
  /\ admitted = {}
  /\ late = {}
  /\ resets = [p \in Replicas |-> [s \in Sessions |-> 0]]
  /\ audit = [r \in Requests |-> "none"]
  /\ events = [r \in Requests |-> {}]
  /\ telemetry = [r \in Requests |-> "none"]

------------------------------------------------------------------------------
(* validateToolRequest *)

\* GetSession and catalog.Get.  A session may be missing, expired or closed,
\* the tool unknown, the session store down.
Receive(r) ==
  /\ pc[r] = "idle"
  /\ late' = IF Correlated(r) /\ corrIndex[CorrelationKey(call[r])] # NoInvocation
             THEN late \cup {r} ELSE late
  /\ \/ Reply(r, "notFound") /\ UNCHANGED minute
     \/ Reply(r, "internal") /\ UNCHANGED minute
     \/ Correlated(r) /\ Goto(r, "lookup") /\ UNCHANGED <<outcome, minute>>
     \/ ~Correlated(r) /\ Begin(r) /\ UNCHANGED outcome
  /\ UNCHANGED <<call, slots, valkey, limiter, now, crashes, executed, admitted, resets,
                 evidence>>

\* Mutant: only a finished invocation counts as found.
Mut_FoundWhenFinished(r) ==
  LET id == corrIndex[CorrelationKey(call[r])]
  IN id # NoInvocation /\ store[id] \in Terminal

\* FindByCorrelation: the index entry, and the record it names.  An index entry
\* never changes, so its two reads are one step here.
FoundByCorrelation(r) ==
  LET id == corrIndex[CorrelationKey(call[r])]
  IN id # NoInvocation /\ store[id] # "none"

\* Mutant: a call that finds a running invocation waits for it to finish.
Mut_LookupWaits(r) ==
  LET id == corrIndex[CorrelationKey(call[r])]
  IN /\ pc[r] = "lookup"
     /\ \/ /\ FoundByCorrelation(r) /\ store[id] \in Terminal
           /\ Reply(r, "existing") /\ UNCHANGED minute
        \/ ~FoundByCorrelation(r) /\ Begin(r) /\ UNCHANGED outcome
     /\ UNCHANGED <<call, slots, valkey, limiter, now, crashes, history, evidence>>

\* findInvocationByCorrelation: an indexed invocation is returned as it is
\* stored, "running" included.
Lookup(r) ==
  /\ pc[r] = "lookup"
  /\ \/ Reply(r, "internal") /\ UNCHANGED minute
     \/ FoundByCorrelation(r) /\ Reply(r, "existing") /\ UNCHANGED minute
     \/ ~FoundByCorrelation(r) /\ Begin(r) /\ UNCHANGED outcome
  /\ UNCHANGED <<call, slots, valkey, limiter, now, crashes, history, evidence>>

------------------------------------------------------------------------------
(* storeInvocation of the running record: SET, then SETNX of the index.  A   *)
(* write that reports an error may have been applied or not.                 *)

SaveRunning(r) ==
  LET written == [store EXCEPT ![r] = "running"]
  IN /\ pc[r] = "save"
     /\ \/ /\ store' = written
           /\ Goto(r, IF Correlated(r) THEN "index" ELSE "started")
           /\ UNCHANGED outcome
        \/ store' \in {store, written} /\ Reply(r, "internal")
     /\ UNCHANGED <<call, minute, slots, corrIndex, limiter, now, crashes, history,
                    evidence>>

IndexRunning(r) ==
  /\ pc[r] = "index"
  /\ \/ corrIndex' = SetNX(r) /\ Goto(r, "started") /\ UNCHANGED outcome
     \/ corrIndex' \in {corrIndex, SetNX(r)} /\ Reply(r, "internal")
  /\ UNCHANGED <<call, minute, slots, store, limiter, now, crashes, history, evidence>>

\* publishEvent ignores what Publish returns: the record here is the call.
PublishStarted(r) ==
  /\ pc[r] = "started"
  /\ events' = [events EXCEPT ![r] = @ \cup {"started"}]
  /\ Goto(r, "rate")
  /\ UNCHANGED <<call, outcome, minute, slots, valkey, limiter, now, crashes, history,
                 audit, telemetry>>

------------------------------------------------------------------------------
(* authorizeToolInvocation *)

\* The session counter is charged even when the principal's then refuses.
AllowRate(r) ==
  LET p == call[r].replica
      s == call[r].session
      q == PrincipalOf[s]
      m == minute[r]
      bySession   == WindowAllows(sessionWindow[p][s], m, MaxPerMinute)
      byPrincipal == WindowAllows(principalWindow[p][q], m, MaxPerMinutePerPrincipal)
  IN /\ pc[r] = "rate"
     /\ sessionWindow' = [sessionWindow EXCEPT ![p][s] = WindowAfter(@, m, MaxPerMinute)]
     /\ resets' = IF MaxPerMinute > 0 /\ sessionWindow[p][s].start > m
                  THEN [resets EXCEPT ![p][s] = @ + 1] ELSE resets
     /\ principalWindow' =
          IF bySession
          THEN [principalWindow EXCEPT
                 ![p][q] = WindowAfter(@, m, MaxPerMinutePerPrincipal)]
          ELSE principalWindow
     /\ \/ /\ bySession /\ byPrincipal
           /\ admitted' = admitted \cup {r}
           /\ Goto(r, "authorize")
           /\ UNCHANGED outcome
        \/ ~(bySession /\ byPrincipal) /\ Settle(r, "denied") /\ UNCHANGED admitted
     /\ UNCHANGED <<call, minute, slots, valkey, inFlight, now, crashes, executed, late,
                    evidence>>

\* capabilitySupportedByRuntime and policy.Authorize: a pure decision on the
\* session, the capability and the arguments, none of which is modelled.
Authorize(r) ==
  /\ pc[r] = "authorize"
  /\ \/ Goto(r, "acquire") /\ UNCHANGED outcome
     \/ Settle(r, "denied")
     \/ Settle(r, "policyError")
  /\ UNCHANGED <<call, minute, slots, valkey, limiter, now, crashes, history, evidence>>

AcquireConcurrency(r) ==
  LET p == call[r].replica
      s == call[r].session
  IN /\ pc[r] = "acquire"
     /\ \/ /\ MaxConcurrent = 0
           /\ Goto(r, "run")
           /\ UNCHANGED <<outcome, slots, inFlight>>
        \/ /\ MaxConcurrent > 0
           /\ SlotAvailable(inFlight[p][s], MaxConcurrent)
           /\ inFlight' = [inFlight EXCEPT ![p][s] = @ + 1]
           /\ slots' = slots \cup {r}
           /\ Goto(r, "run")
           /\ UNCHANGED outcome
        \/ /\ ~SlotAvailable(inFlight[p][s], MaxConcurrent)
           /\ Settle(r, "denied")
           /\ UNCHANGED <<slots, inFlight>>
     /\ UNCHANGED <<call, minute, valkey, sessionWindow, principalWindow, now, crashes,
                    history, evidence>>

------------------------------------------------------------------------------
(* The tool, and completeToolInvocation *)

\* tools.Invoke under the capability's timeout.  The run may fail (timeouts
\* included), be refused by the tool itself with a policy code, or succeed; a
\* successful result over a result quota (allowRunResult) is denied at once.
RunTool(r) ==
  /\ pc[r] = "run"
  /\ executed' = executed \cup {r}
  /\ \/ /\ \E o \in {"succeeded", "failed", "denied"} :
             outcome' = [outcome EXCEPT ![r] = o]
        /\ Goto(r, "persist")
     \/ Settle(r, "denied")
  /\ UNCHANGED <<call, minute, slots, valkey, limiter, now, crashes, admitted, late, resets,
                 evidence>>

\* persistRunArtifacts and validateOutputAgainstSchema: their errors only matter
\* to a run that has none of its own.
PersistRunArtifacts(r) ==
  /\ pc[r] = "persist"
  /\ \/ Settle(r, outcome[r])
     \/ outcome[r] = "succeeded" /\ Settle(r, "failed")
  /\ UNCHANGED <<call, minute, slots, valkey, limiter, now, crashes, history, evidence>>

\* Mutant: the save error of a successful run is ignored like the others.
Mut_SaveErrorIgnored(r) == Goto(r, "audit") /\ UNCHANGED outcome

\* Mutant: a successful run that cannot be saved is recorded as failed.
Mut_UnsavedIsFailed(r) ==
  /\ outcome' = [outcome EXCEPT ![r] = IF @ = "succeeded" THEN "failed" ELSE @]
  /\ Goto(r, "audit")

\* A failed save of the final record ends a successful call (its error is
\* returned at once); denyInvocation and the failure paths ignore it.
AfterFailedSave(r) ==
  IF outcome[r] = "succeeded"
  THEN outcome' = [outcome EXCEPT ![r] = "unsaved"] /\ Goto(r, "return")
  ELSE Goto(r, "audit") /\ UNCHANGED outcome

SaveFinal(r) ==
  LET written == [store EXCEPT ![r] = FinalStatus(outcome[r])]
  IN /\ pc[r] = "store"
     /\ \/ /\ store' = written
           /\ Goto(r, IF Correlated(r) THEN "storeIndex" ELSE "audit")
           /\ UNCHANGED outcome
        \/ store' \in {store, written} /\ AfterFailedSave(r)
     /\ UNCHANGED <<call, minute, slots, corrIndex, limiter, now, crashes, history,
                    evidence>>

IndexFinal(r) ==
  /\ pc[r] = "storeIndex"
  /\ \/ corrIndex' = SetNX(r) /\ Goto(r, "audit") /\ UNCHANGED outcome
     \/ corrIndex' \in {corrIndex, SetNX(r)} /\ AfterFailedSave(r)
  /\ UNCHANGED <<call, minute, slots, store, limiter, now, crashes, history, evidence>>

\* After the audit record: denyInvocation records telemetry and then publishes,
\* the other paths publish first; an error of the policy engine does neither.
AfterAudit(o) ==
  CASE o = "denied"                  -> "telemetry"
    [] o \in {"succeeded", "failed"} -> "event"
    [] OTHER                         -> "return"  \* policyError

RecordAudit(r) ==
  /\ pc[r] = "audit"
  /\ audit' = [audit EXCEPT ![r] = FinalStatus(outcome[r])]
  /\ Goto(r, AfterAudit(outcome[r]))
  /\ UNCHANGED <<call, outcome, minute, slots, valkey, limiter, now, crashes, history,
                 events, telemetry>>

PublishFinished(r) ==
  /\ pc[r] = "event"
  /\ events' = [events EXCEPT ![r] =
                  @ \cup {IF outcome[r] = "denied" THEN "denied" ELSE "completed"}]
  /\ Goto(r, IF outcome[r] = "denied" THEN "return" ELSE "telemetry")
  /\ UNCHANGED <<call, outcome, minute, slots, valkey, limiter, now, crashes, history,
                 audit, telemetry>>

RecordTelemetry(r) ==
  /\ pc[r] = "telemetry"
  /\ telemetry' = [telemetry EXCEPT ![r] = FinalStatus(outcome[r])]
  /\ Goto(r, IF outcome[r] = "denied" THEN "event" ELSE "return")
  /\ UNCHANGED <<call, outcome, minute, slots, valkey, limiter, now, crashes, history,
                 audit, events>>

\* Mutant: every way out releases, also the ones that acquired nothing.
Mut_AlwaysReleases(r) == TRUE

\* Mutant: the path that denies a finished run forgets its slot.
Mut_DenialKeepsSlot(r) == r \in slots /\ outcome[r] # "denied"

\* defer releaseConcurrency() is reached only by a call that got its slot.
OwesRelease(r) == r \in slots

\* The deferred calls: the slot goes back, and the answer leaves.
Return(r) ==
  LET p == call[r].replica
      s == call[r].session
  IN /\ pc[r] = "return"
     /\ inFlight' = IF OwesRelease(r)
                    THEN [inFlight EXCEPT ![p][s] = Released(@)]
                    ELSE inFlight
     /\ slots' = IF OwesRelease(r) THEN slots \ {r} ELSE slots
     /\ Goto(r, "done")
     /\ UNCHANGED <<call, outcome, minute, valkey, sessionWindow, principalWindow, now,
                    crashes, history, evidence>>

------------------------------------------------------------------------------
(* Environment *)

Tick ==
  /\ now < MaxMinute
  /\ now' = now + 1
  /\ UNCHANGED <<pc, call, outcome, minute, slots, valkey, limiter, crashes, history,
                 evidence>>

\* A replica dies and is replaced: its goroutines and its limiter are gone, what
\* is in Valkey stays.
Crash(p) ==
  LET lost == {r \in Requests : call[r].replica = p /\ pc[r] \notin {"idle", "done"}}
  IN /\ crashes < MaxCrashes
     /\ crashes' = crashes + 1
     /\ pc' = [r \in Requests |-> IF r \in lost THEN "crashed" ELSE pc[r]]
     /\ slots' = slots \ lost
     /\ sessionWindow' = [sessionWindow EXCEPT ![p] = [s \in Sessions |-> NoWindow]]
     /\ principalWindow' = [principalWindow EXCEPT ![p] =
                              [q \in Principals |-> NoWindow]]
     /\ inFlight' = [inFlight EXCEPT ![p] = [s \in Sessions |-> 0]]
     /\ resets' = [resets EXCEPT ![p] = [s \in Sessions |-> @[s] + 1]]
     /\ UNCHANGED <<call, outcome, minute, valkey, now, executed, admitted, late, evidence>>

------------------------------------------------------------------------------
(* Specification *)

\* What the goroutine of an accepted request does next.
Step(r) ==
  \/ Lookup(r) \/ SaveRunning(r) \/ IndexRunning(r) \/ PublishStarted(r)
  \/ AllowRate(r) \/ Authorize(r) \/ AcquireConcurrency(r)
  \/ RunTool(r) \/ PersistRunArtifacts(r)
  \/ SaveFinal(r) \/ IndexFinal(r) \/ RecordAudit(r) \/ PublishFinished(r)
  \/ RecordTelemetry(r) \/ Return(r)

Next ==
  \/ \E r \in Requests : Receive(r) \/ Step(r)
  \/ Tick
  \/ \E p \in Replicas : Crash(p)

Spec == Init /\ [][Next]_vars

\* The scheduler runs every goroutine, store calls return, and a tool ends (it
\* completes or its timeout cancels it).  No request need arrive, no replica crash.
Fairness == \A r \in Requests : WF_vars(Step(r))

FairSpec == Spec /\ Fairness

------------------------------------------------------------------------------
(* Properties *)

\* Requests whose tool is running now, or ran and still owes its slot.
Holders(p, s) == {r \in slots : call[r].replica = p /\ call[r].session = s}

Executing(p, s) ==
  {r \in Requests : pc[r] = "run" /\ call[r].replica = p /\ call[r].session = s}

\* acquireConcurrency/release: the in-flight counter of a session is exactly the
\* number of pending releases, on every path out of InvokeTool and across crashes
\* - a slot is neither leaked nor given back twice.
SlotsExact ==
  \A p \in Replicas, s \in Sessions : inFlight[p][s] = Cardinality(Holders(p, s))

\* WORKSPACE_MAX_CONCURRENCY_PER_SESSION: a replica never runs more tools of one
\* session at once than the limit.
ConcurrencyBounded ==
  MaxConcurrent > 0 =>
    \A p \in Replicas, s \in Sessions : Cardinality(Executing(p, s)) <= MaxConcurrent

\* The order of Save (SET, then SETNX): whatever the correlation index names can
\* be read, also after a failed write or a crash between the two.
IndexedIsStored ==
  \A k \in CorrKeys : corrIndex[k] # NoInvocation => store[corrIndex[k]] # "none"

\* A client that repeats a call whose correlation id is already indexed does not
\* run the tool again, whatever became of the first call (finished, denied, failed
\* to save, lost in a crash).
RetryNeverReexecutes == late \cap executed = {}

\* A call answered as succeeded ran its tool once and left everything behind: the
\* stored record, the audit record, the completed event and the telemetry record.
SuccessIsEvidenced ==
  \A r \in Requests :
    pc[r] = "done" /\ outcome[r] = "succeeded" =>
      /\ r \in executed
      /\ store[r] = "succeeded"
      /\ audit[r] = "succeeded"
      /\ telemetry[r] = "succeeded"
      /\ events[r] = {"started", "completed"}

\* The records of one invocation never contradict each other: audit, telemetry,
\* terminal event and stored status agree, although each is written by a separate
\* call and any of them can fail.
EvidenceAgrees ==
  \A r \in Requests :
    /\ telemetry[r] # "none" => telemetry[r] = audit[r]
    /\ "denied" \in events[r] => audit[r] = "denied"
    /\ "completed" \in events[r] => audit[r] \in {"succeeded", "failed"}
    /\ store[r] \in Terminal /\ audit[r] # "none" => store[r] = audit[r]

\* Save overwrites the record, but no step ever rewrites a terminal status, and an
\* index entry, once written, names the same invocation for ever.
TerminalIsFinal ==
  [][/\ \A r \in Requests : store[r] \in Terminal => store'[r] = store[r]
     /\ \A k \in CorrKeys : corrIndex[k] # NoInvocation => corrIndex'[k] = corrIndex[k]
    ]_vars

\* Every accepted call is answered unless its replica dies.
EventuallyAnswered ==
  \A r \in Requests : pc[r] # "idle" ~> pc[r] \in {"done", "crashed"}

\* Every slot is given back: no path blocks while it owes a release.
SlotsEventuallyFree == \A r \in Requests : r \in slots ~> r \notin slots

------------------------------------------------------------------------------
(* Strengthenings that make the safety properties inductive *)

\* Where a call can be between acquiring its slot and releasing it.
SlotLabels == {"run", "persist", "store", "storeIndex", "audit", "event", "telemetry",
               "return"}

SlotsHeldInPlace == \A r \in slots : pc[r] \in SlotLabels

RunningHoldsSlot ==
  MaxConcurrent > 0 => \A r \in Requests : pc[r] = "run" => r \in slots

InFlightBounded ==
  MaxConcurrent > 0 =>
    \A p \in Replicas, s \in Sessions : inFlight[p][s] <= MaxConcurrent

SlotInv == SlotsExact /\ SlotsHeldInPlace /\ RunningHoldsSlot /\ InFlightBounded

\* Where a call is after its running record was saved and before it ends.
SavedLabels == {"index", "started", "rate", "authorize", "acquire"} \cup SlotLabels

\* Where a call is before the first attempt to save its final record.
BeforeFinal == {"idle", "lookup", "save", "index", "started", "rate", "authorize",
                "acquire", "run", "persist", "store"}

SavedHasRecord == \A r \in Requests : pc[r] \in SavedLabels => store[r] # "none"

FinalOnlyAtEnd == \A r \in Requests : pc[r] \in BeforeFinal => store[r] \notin Terminal

ExecutedWasReceived == \A r \in executed : pc[r] # "idle"

\* A late call stays where it cannot reach its tool: it will find the record.
LateStaysOut ==
  \A r \in late : /\ Correlated(r)
                  /\ corrIndex[CorrelationKey(call[r])] # NoInvocation
                  /\ pc[r] \in {"lookup", "done", "crashed"}
                  /\ r \notin executed

RecordInv == /\ IndexedIsStored
             /\ SavedHasRecord
             /\ FinalOnlyAtEnd
             /\ ExecutedWasReceived
             /\ LateStaysOut

\* Where a call is before its audit record.
BeforeAudit == BeforeFinal \cup {"storeIndex", "audit"}

\* Outcomes that are recorded as evidence.
Settled == {"denied", "failed", "policyError", "succeeded"}

\* The outcome is decided by the time the invocation is settled, and not before.
OutcomeInPlace(r) ==
  /\ pc[r] \in {"idle", "lookup", "save", "index", "started", "rate", "authorize",
                "acquire", "run"} => outcome[r] = "pending"
  /\ pc[r] \in {"persist", "store", "storeIndex", "audit"} => outcome[r] \in Settled
  /\ pc[r] \in {"event", "telemetry"} => outcome[r] \in Settled \ {"policyError"}

\* Nothing is recorded before the audit record is, and each record states the outcome.
RecordedInPlace(r) ==
  /\ pc[r] \in BeforeAudit => audit[r] = "none"
  /\ pc[r] \in {"event", "telemetry"} => audit[r] # "none"
  /\ audit[r] = "none" => telemetry[r] = "none" /\ events[r] \subseteq {"started"}
  /\ audit[r] # "none" => outcome[r] \in Settled /\ audit[r] = FinalStatus(outcome[r])
  /\ telemetry[r] # "none" => telemetry[r] = audit[r]
  /\ "denied" \in events[r] => audit[r] = "denied"
  /\ "completed" \in events[r] => audit[r] \in {"succeeded", "failed"}
  /\ store[r] \in Terminal => store[r] = FinalStatus(outcome[r])

\* A call is past the start event from allowRate on.
StartIsPublished(r) ==
  pc[r] \in {"rate", "authorize", "acquire", "run"} => "started" \in events[r]

\* What a call that will be answered as succeeded has left behind so far.
SuccessSoFar(r) ==
  outcome[r] = "succeeded" =>
    /\ r \in executed /\ "started" \in events[r]
    /\ pc[r] \in {"storeIndex", "audit", "event", "telemetry", "return", "done"} =>
         store[r] = "succeeded"
    /\ pc[r] \in {"event", "telemetry", "return", "done"} => audit[r] = "succeeded"
    /\ pc[r] \in {"telemetry", "return", "done"} => "completed" \in events[r]
    /\ pc[r] \in {"return", "done"} => telemetry[r] = "succeeded"

EvidenceOf(r) == /\ OutcomeInPlace(r)
                 /\ RecordedInPlace(r)
                 /\ StartIsPublished(r)
                 /\ SuccessSoFar(r)

EvidenceInv == \A r \in Requests : EvidenceOf(r)

\* Calls of a session that started in one minute and that a replica admitted.
AdmittedOf(p, s, m) ==
  {r \in admitted : call[r].replica = p /\ call[r].session = s /\ minute[r] = m}

\* What was admitted of a minute: the window counts its own minute from the last time it
\* was reset on; a minute that is over had one window more than there were resets, one
\* that is yet to come at most as many.
RateOf(p, s, m) ==
  LET window == sessionWindow[p][s]
      before == MaxPerMinute * resets[p][s]
  IN /\ Cardinality(AdmittedOf(p, s, m)) <= before + MaxPerMinute
     /\ window.start = m => Cardinality(AdmittedOf(p, s, m)) <= before + window.count
     /\ window.start < m => Cardinality(AdmittedOf(p, s, m)) <= before

RateInv ==
  MaxPerMinute > 0 =>
    \A p \in Replicas, s \in Sessions :
      /\ sessionWindow[p][s].count <= MaxPerMinute
      /\ \A m \in Minutes : RateOf(p, s, m)

\* WORKSPACE_RATE_LIMIT_PER_MINUTE: a replica admits at most that many calls of a
\* session that started in one minute, and as many again only each time its window was
\* lost: to a call of an earlier minute that reaches allowRate after the minute turned
\* and replaces the newer window by its own, or to a restart of the process.
RateLimitHolds ==
  MaxPerMinute > 0 =>
    \A p \in Replicas, s \in Sessions, m \in Minutes :
      Cardinality(AdmittedOf(p, s, m)) <= MaxPerMinute * (1 + resets[p][s])

------------------------------------------------------------------------------
(* What the documentation says, and a run refutes. *)

\* specs/underpass/runtime/v1/contract.md calls correlation_id "the idempotency
\* mechanism for the public API": calls with one (session, tool, correlation id)
\* run the tool at most once.  InvokeTool checks the index and writes it in
\* separate steps, so two concurrent calls both run it.
CorrelationIsIdempotent ==
  \A k \in CorrKeys :
    Cardinality({r \in executed : Correlated(r) /\ CorrelationKey(call[r]) = k}) <= 1
==============================================================================
