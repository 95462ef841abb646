--------------------------- MODULE InvocationProofs ---------------------------
(* Theorems about Invocation, for every set of requests, replicas, sessions   *)
(* and tools and every setting of the limits.                                 *)
EXTENDS Invocation, FiniteSetTheorems, TLAPS

------------------------------------------------------------------------------
(* Facts about the operators *)

\* incrementQuotaWindowCounter leaves a well-formed window.
LEMMA WindowAfterTyped ==
  ASSUME NEW w \in QuotaWindow, NEW m \in Int, NEW max \in Nat
  PROVE  WindowAfter(w, m, max) \in QuotaWindow
BY DEF WindowAfter, RollWindow, QuotaWindow

\* The counter a release leaves is a natural number.
LEMMA ReleasedTyped ==
  ASSUME NEW n \in Nat
  PROVE  Released(n) \in Nat
BY DEF Released

\* The fields of a request.
LEMMA CallTyped ==
  ASSUME TypeOK, NEW r \in Requests
  PROVE  /\ call[r] \in Calls
         /\ call[r].replica \in Replicas
         /\ call[r].session \in Sessions
         /\ call[r].tool \in Tools
         /\ call[r].corr \in Correlations
         /\ PrincipalOf[call[r].session] \in Principals
         /\ Correlated(r) => CorrelationKey(call[r]) \in CorrKeys
<1>1. call[r] \in Calls
  BY DEF TypeOK
<1>2. /\ call[r].replica \in Replicas
      /\ call[r].session \in Sessions
      /\ call[r].tool \in Tools
      /\ call[r].corr \in Correlations
  BY <1>1 DEF Calls
<1>3. PrincipalOf[call[r].session] \in Principals
  BY <1>2, OwnersTyped
<1>4. Correlated(r) => CorrelationKey(call[r]) \in CorrKeys
  BY <1>2 DEF Correlated, CorrelationKey, CorrKeys, Correlations
<1> QED
  BY <1>1, <1>2, <1>3, <1>4

\* SETNX yields a correlation index.
LEMMA SetNXTyped ==
  ASSUME TypeOK, NEW r \in Requests
  PROVE  SetNX(r) \in [CorrKeys -> Requests \cup {NoInvocation}]
BY DEF TypeOK, SetNX

\* The status written for an outcome is a status.
LEMMA FinalStatusTyped ==
  ASSUME NEW o
  PROVE  FinalStatus(o) \in Recorded
BY DEF FinalStatus, Recorded, Statuses, Terminal

------------------------------------------------------------------------------
(* Type correctness *)

\* One step of one request, or of the environment, keeps every variable in its type.
LEMMA TypeOKInductive == TypeOK /\ [Next]_vars => TypeOK'
<1> SUFFICES ASSUME TypeOK, [Next]_vars PROVE TypeOK'
  OBVIOUS
<1> USE DEF Goto, Reply, Settle, Begin, limiter, valkey, evidence, history
<1>1. ASSUME NEW r \in Requests, Receive(r) PROVE TypeOK'
  <2>1. pc' \in [Requests -> Labels]
    BY <1>1 DEF TypeOK, Receive, Labels
  <2>2. outcome' \in [Requests -> Outcomes]
    BY <1>1 DEF TypeOK, Receive, Outcomes
  <2>3. minute' \in [Requests -> Minutes]
    BY <1>1 DEF TypeOK, Receive
  <2>4. late' \subseteq Requests
    BY <1>1 DEF TypeOK, Receive
  <2> QED
    BY <1>1, <2>1, <2>2, <2>3, <2>4 DEF TypeOK, Receive
<1>2. ASSUME NEW r \in Requests, Lookup(r) PROVE TypeOK'
  <2>1. pc' \in [Requests -> Labels]
    BY <1>2 DEF TypeOK, Lookup, Labels
  <2>2. outcome' \in [Requests -> Outcomes]
    BY <1>2 DEF TypeOK, Lookup, Outcomes
  <2>3. minute' \in [Requests -> Minutes]
    BY <1>2 DEF TypeOK, Lookup
  <2> QED
    BY <1>2, <2>1, <2>2, <2>3 DEF TypeOK, Lookup
<1>3. ASSUME NEW r \in Requests, SaveRunning(r) PROVE TypeOK'
  BY <1>3 DEF TypeOK, SaveRunning, Labels, Outcomes, Recorded, Statuses
<1>4. ASSUME NEW r \in Requests, IndexRunning(r) PROVE TypeOK'
  <2>a. \/ pc' = [pc EXCEPT ![r] = "started"]
        \/ pc' = [pc EXCEPT ![r] = "done"]
    BY <1>4 DEF IndexRunning
  <2>1. pc' \in [Requests -> Labels]
    BY <2>a DEF TypeOK, Labels
  <2>2. outcome' \in [Requests -> Outcomes]
    BY <1>4 DEF TypeOK, IndexRunning, Outcomes
  <2>3. corrIndex' \in [CorrKeys -> Requests \cup {NoInvocation}]
    BY <1>4, SetNXTyped DEF TypeOK, IndexRunning
  <2> QED
    BY <1>4, <2>1, <2>2, <2>3 DEF TypeOK, IndexRunning
<1>5. ASSUME NEW r \in Requests, PublishStarted(r) PROVE TypeOK'
  BY <1>5 DEF TypeOK, PublishStarted, Labels
<1>6. ASSUME NEW r \in Requests, AllowRate(r) PROVE TypeOK'
  <2>1. pc' \in [Requests -> Labels]
    BY <1>6, ZenonT(40) DEF TypeOK, AllowRate, Labels
  <2>2. outcome' \in [Requests -> Outcomes] /\ admitted' \subseteq Requests
    BY <1>6 DEF TypeOK, AllowRate, Outcomes
  <2>3. minute[r] \in Int
    BY DEF TypeOK, Minutes
  <2>4. sessionWindow' \in [Replicas -> [Sessions -> QuotaWindow]]
    BY <1>6, <2>3, CallTyped, WindowAfterTyped, LimitsTyped DEF TypeOK, AllowRate
  <2>5. principalWindow' \in [Replicas -> [Principals -> QuotaWindow]]
    BY <1>6, <2>3, CallTyped, WindowAfterTyped, LimitsTyped DEF TypeOK, AllowRate
  <2> QED
    BY <1>6, <2>1, <2>2, <2>4, <2>5 DEF TypeOK, AllowRate
<1>7. ASSUME NEW r \in Requests, Authorize(r) PROVE TypeOK'
  BY <1>7 DEF TypeOK, Authorize, Labels, Outcomes
<1>8. ASSUME NEW r \in Requests, AcquireConcurrency(r) PROVE TypeOK'
  <2>1. pc' \in [Requests -> Labels]
    BY <1>8 DEF TypeOK, AcquireConcurrency, Labels
  <2>2. outcome' \in [Requests -> Outcomes] /\ slots' \subseteq Requests
    BY <1>8 DEF TypeOK, AcquireConcurrency, Outcomes
  <2>3. inFlight' \in [Replicas -> [Sessions -> Nat]]
    <3> DEFINE p == call[r].replica
               s == call[r].session
               taken == [inFlight EXCEPT ![p][s] = @ + 1]
    <3>1. p \in Replicas /\ s \in Sessions /\ inFlight \in [Replicas -> [Sessions -> Nat]]
      BY CallTyped DEF TypeOK
    <3>2. taken \in [Replicas -> [Sessions -> Nat]]
      BY <3>1
    <3>3. inFlight' = inFlight \/ inFlight' = taken
      BY <1>8 DEF AcquireConcurrency
    <3> QED
      BY <3>1, <3>2, <3>3
  <2> QED
    BY <1>8, <2>1, <2>2, <2>3 DEF TypeOK, AcquireConcurrency
<1>9. ASSUME NEW r \in Requests, RunTool(r) PROVE TypeOK'
  BY <1>9, ZenonT(40) DEF TypeOK, RunTool, Labels, Outcomes
<1>10. ASSUME NEW r \in Requests, PersistRunArtifacts(r) PROVE TypeOK'
  BY <1>10 DEF TypeOK, PersistRunArtifacts, Labels, Outcomes
<1>11. ASSUME NEW r \in Requests, SaveFinal(r) PROVE TypeOK'
  <2>1. pc' \in [Requests -> Labels]
    BY <1>11, SMTT(30) DEF TypeOK, SaveFinal, AfterFailedSave, Labels
  <2>2. outcome' \in [Requests -> Outcomes]
    BY <1>11 DEF TypeOK, SaveFinal, AfterFailedSave, Outcomes
  <2>3. store' \in [Requests -> Recorded]
    BY <1>11, FinalStatusTyped DEF TypeOK, SaveFinal
  <2> QED
    BY <1>11, <2>1, <2>2, <2>3 DEF TypeOK, SaveFinal
<1>12. ASSUME NEW r \in Requests, IndexFinal(r) PROVE TypeOK'
  <2>1. pc' \in [Requests -> Labels]
    BY <1>12 DEF TypeOK, IndexFinal, AfterFailedSave, Labels
  <2>2. outcome' \in [Requests -> Outcomes]
    BY <1>12 DEF TypeOK, IndexFinal, AfterFailedSave, Outcomes
  <2>3. corrIndex' \in [CorrKeys -> Requests \cup {NoInvocation}]
    BY <1>12, SetNXTyped DEF TypeOK, IndexFinal
  <2> QED
    BY <1>12, <2>1, <2>2, <2>3 DEF TypeOK, IndexFinal
<1>13. ASSUME NEW r \in Requests, RecordAudit(r) PROVE TypeOK'
  BY <1>13, FinalStatusTyped DEF TypeOK, RecordAudit, AfterAudit, Labels
<1>14. ASSUME NEW r \in Requests, PublishFinished(r) PROVE TypeOK'
  BY <1>14 DEF TypeOK, PublishFinished, Labels
<1>15. ASSUME NEW r \in Requests, RecordTelemetry(r) PROVE TypeOK'
  BY <1>15, FinalStatusTyped DEF TypeOK, RecordTelemetry, Labels
<1>16. ASSUME NEW r \in Requests, Return(r) PROVE TypeOK'
  BY <1>16, CallTyped, ReleasedTyped DEF TypeOK, Return, Labels
<1>17. ASSUME Tick PROVE TypeOK'
  BY <1>17, BoundsTyped DEF TypeOK, Tick, Minutes
<1>18. ASSUME NEW p \in Replicas, Crash(p) PROVE TypeOK'
  BY <1>18, BoundsTyped DEF TypeOK, Crash, Labels, QuotaWindow, NoWindow
<1>19. CASE UNCHANGED vars
  BY <1>19 DEF TypeOK, vars
<1> QED
  BY <1>1, <1>2, <1>3, <1>4, <1>5, <1>6, <1>7, <1>8, <1>9, <1>10, <1>11, <1>12,
     <1>13, <1>14, <1>15, <1>16, <1>17, <1>18, <1>19
  DEF Next, Step

\* Every variable of InvokeTool, of the limiters and of the stores keeps its type:
\* counters never go below zero, statuses and outcomes are the ones the code names.
THEOREM TypeCorrect == Spec => []TypeOK
<1>1. Init => TypeOK
  BY BoundsTyped
  DEF Init, TypeOK, Labels, Outcomes, Recorded, Statuses, Minutes, QuotaWindow, NoWindow
<1> QED
  BY <1>1, TypeOKInductive, PTL DEF Spec
------------------------------------------------------------------------------
(* Concurrency slots *)

\* A step of one call that touches neither slots nor counters keeps the accounting,
\* as long as a call that owes a release stays on the way to Return.
LEMMA SlotInvKept ==
  ASSUME TypeOK, SlotInv, NEW r \in Requests,
         UNCHANGED <<call, slots, inFlight>>,
         pc' = [pc EXCEPT ![r] = pc'[r]],
         r \in slots => pc'[r] \in SlotLabels,
         pc'[r] = "run" => MaxConcurrent = 0
  PROVE  SlotInv'
<1>1. \A p, s : Holders(p, s)' = Holders(p, s)
  BY DEF Holders
<1>2. SlotsExact' /\ InFlightBounded'
  BY <1>1 DEF SlotInv, SlotsExact, InFlightBounded
<1>3. SlotsHeldInPlace'
  BY DEF SlotInv, SlotsHeldInPlace, TypeOK
<1>4. RunningHoldsSlot'
  BY DEF SlotInv, RunningHoldsSlot, TypeOK
<1> QED
  BY <1>2, <1>3, <1>4 DEF SlotInv

\* Every set of pending releases is finite.
LEMMA HoldersFinite ==
  ASSUME TypeOK
  PROVE  /\ IsFiniteSet(slots)
         /\ \A p, s : IsFiniteSet(Holders(p, s)) /\ Holders(p, s) \subseteq slots
<1>1. IsFiniteSet(slots)
  BY RequestsFinite, FS_Subset DEF TypeOK
<1>2. \A p, s : Holders(p, s) \subseteq slots
  BY DEF Holders
<1> QED
  BY <1>1, <1>2, FS_Subset

\* acquireConcurrency adds one pending release and counts one.
LEMMA AcquireKeepsSlots ==
  ASSUME TypeOK, SlotInv, NEW r \in Requests, AcquireConcurrency(r)
  PROVE  SlotInv'
<1> DEFINE p == call[r].replica
           s == call[r].session
<1>1. p \in Replicas /\ s \in Sessions
  BY CallTyped
<1>2. r \notin slots
  BY DEF SlotInv, SlotsHeldInPlace, SlotLabels, AcquireConcurrency
<1>3. CASE UNCHANGED <<slots, inFlight>>
  <2>1. /\ pc' = [pc EXCEPT ![r] = pc'[r]]
        /\ pc'[r] = "run" => MaxConcurrent = 0
    BY <1>3, <1>1 DEF AcquireConcurrency, Goto, Settle, TypeOK
  <2> QED
    BY <1>2, <1>3, <2>1, SlotInvKept DEF AcquireConcurrency
<1>4. CASE /\ MaxConcurrent > 0
           /\ SlotAvailable(inFlight[p][s], MaxConcurrent)
           /\ inFlight' = [inFlight EXCEPT ![p][s] = @ + 1]
           /\ slots' = slots \cup {r}
           /\ Goto(r, "run")
  <2>1. call' = call
    BY DEF AcquireConcurrency
  <2>2. inFlight'[p][s] = inFlight[p][s] + 1
    BY <1>4, <1>1 DEF TypeOK
  <2>3. \A q \in Replicas, t \in Sessions :
          <<q, t>> # <<p, s>> => inFlight'[q][t] = inFlight[q][t]
    BY <1>4, <1>1 DEF TypeOK
  <2>4. Holders(p, s)' = Holders(p, s) \cup {r}
    BY <1>4, <2>1 DEF Holders
  <2>5. \A q, t : <<q, t>> # <<p, s>> => Holders(q, t)' = Holders(q, t)
    BY <1>4, <2>1 DEF Holders
  <2>6. Cardinality(Holders(p, s)') = Cardinality(Holders(p, s)) + 1
    <3>1. r \notin Holders(p, s)
      BY <1>2 DEF Holders
    <3> QED
      BY <2>4, <3>1, HoldersFinite, FS_AddElement
  <2>7. SlotsExact'
    BY <1>1, <2>1, <2>2, <2>3, <2>5, <2>6 DEF SlotInv, SlotsExact
  <2>8. InFlightBounded'
    <3>1. inFlight'[p][s] <= MaxConcurrent
      BY <1>1, <1>4, <2>2, LimitsTyped DEF SlotAvailable, TypeOK
    <3> QED
      BY <3>1, <2>3 DEF SlotInv, InFlightBounded
  <2>9. SlotsHeldInPlace' /\ RunningHoldsSlot'
    BY <1>4 DEF Goto, SlotInv, SlotsHeldInPlace, RunningHoldsSlot, SlotLabels, TypeOK
  <2> QED
    BY <2>7, <2>8, <2>9 DEF SlotInv
<1> QED
  BY <1>3, <1>4 DEF AcquireConcurrency

\* The deferred release removes its own pending release and counts it down.
LEMMA ReturnKeepsSlots ==
  ASSUME TypeOK, SlotInv, NEW r \in Requests, Return(r)
  PROVE  SlotInv'
<1> DEFINE p == call[r].replica
           s == call[r].session
<1>1. p \in Replicas /\ s \in Sessions
  BY CallTyped
<1>2. CASE r \notin slots
  <2>1. UNCHANGED <<call, slots, inFlight>>
    BY <1>2 DEF Return, OwesRelease
  <2>2. pc' = [pc EXCEPT ![r] = pc'[r]] /\ pc'[r] # "run"
    BY DEF Return, Goto, TypeOK
  <2> QED
    BY <1>2, <2>1, <2>2, SlotInvKept
<1>3. CASE r \in slots
  <2>1. /\ call' = call
        /\ slots' = slots \ {r}
        /\ inFlight' = [inFlight EXCEPT ![p][s] = Released(@)]
        /\ pc' = [pc EXCEPT ![r] = "done"]
    BY <1>3 DEF Return, OwesRelease, Goto
  <2>2. inFlight'[p][s] = Released(inFlight[p][s])
    BY <1>1, <2>1 DEF TypeOK
  <2>3. \A q \in Replicas, t \in Sessions :
          <<q, t>> # <<p, s>> => inFlight'[q][t] = inFlight[q][t]
    BY <1>1, <2>1 DEF TypeOK
  <2>4. Holders(p, s)' = Holders(p, s) \ {r}
    BY <2>1 DEF Holders
  <2>5. \A q, t : <<q, t>> # <<p, s>> => Holders(q, t)' = Holders(q, t)
    BY <2>1 DEF Holders
  <2>6. /\ Cardinality(Holders(p, s)') = Cardinality(Holders(p, s)) - 1
        /\ Cardinality(Holders(p, s)') \in Nat
        /\ Cardinality(Holders(p, s)) \in Nat
    <3>1. r \in Holders(p, s)
      BY <1>3 DEF Holders
    <3>2. IsFiniteSet(Holders(p, s)) /\ IsFiniteSet(Holders(p, s) \ {r})
      BY HoldersFinite, FS_RemoveElement
    <3> QED
      BY <2>4, <3>1, <3>2, FS_RemoveElement, FS_CardinalityType
  <2>7. inFlight'[p][s] = inFlight[p][s] - 1
    BY <1>1, <2>2, <2>6 DEF SlotInv, SlotsExact, Released
  <2>8. SlotsExact'
    BY <1>1, <2>1, <2>3, <2>5, <2>6, <2>7 DEF SlotInv, SlotsExact
  <2>9. InFlightBounded'
    <3>0. \A q \in Replicas, t \in Sessions : inFlight[q][t] \in Nat
      BY DEF TypeOK
    <3>1. \A q \in Replicas, t \in Sessions : inFlight'[q][t] <= inFlight[q][t]
      BY <1>1, <2>3, <2>7, <3>0
    <3>2. \A q \in Replicas, t \in Sessions : inFlight'[q][t] \in Int
      BY <1>1, <2>3, <2>7, <3>0
    <3> QED
      BY <3>0, <3>1, <3>2, LimitsTyped DEF SlotInv, InFlightBounded
  <2>10. SlotsHeldInPlace' /\ RunningHoldsSlot'
    BY <2>1 DEF SlotInv, SlotsHeldInPlace, RunningHoldsSlot, TypeOK
  <2> QED
    BY <2>8, <2>9, <2>10 DEF SlotInv
<1> QED
  BY <1>2, <1>3

\* A crash takes the calls of the replica and its counters together.
LEMMA CrashKeepsSlots ==
  ASSUME TypeOK, SlotInv, NEW p \in Replicas, Crash(p)
  PROVE  SlotInv'
<1> DEFINE lost == {r \in Requests : call[r].replica = p /\ pc[r] \notin {"idle", "done"}}
<1>1. /\ call' = call
      /\ slots' = slots \ lost
      /\ pc' = [r \in Requests |-> IF r \in lost THEN "crashed" ELSE pc[r]]
      /\ inFlight' = [inFlight EXCEPT ![p] = [s \in Sessions |-> 0]]
  BY DEF Crash
<1>2. \A r \in slots : r \in lost <=> call[r].replica = p
  BY DEF SlotInv, SlotsHeldInPlace, SlotLabels, TypeOK
<1>3. \A s : Holders(p, s)' = {}
  BY <1>1, <1>2 DEF Holders
<1>4. \A q, s : q # p => Holders(q, s)' = Holders(q, s)
  BY <1>1, <1>2 DEF Holders
<1>5. \A s \in Sessions : inFlight'[p][s] = 0
  BY <1>1 DEF TypeOK
<1>6. \A q \in Replicas, s \in Sessions : q # p => inFlight'[q][s] = inFlight[q][s]
  BY <1>1 DEF TypeOK
<1>7. SlotsExact'
  BY <1>3, <1>4, <1>5, <1>6, FS_EmptySet, SMTT(30) DEF SlotInv, SlotsExact
<1>8. InFlightBounded'
  BY <1>5, <1>6, LimitsTyped DEF SlotInv, InFlightBounded
<1>9. SlotsHeldInPlace' /\ RunningHoldsSlot'
  BY <1>1 DEF SlotInv, SlotsHeldInPlace, RunningHoldsSlot, TypeOK
<1> QED
  BY <1>7, <1>8, <1>9 DEF SlotInv

\* One step keeps the slot accounting.
LEMMA SlotInvInductive == TypeOK /\ SlotInv /\ [Next]_vars => SlotInv'
<1> SUFFICES ASSUME TypeOK, SlotInv, [Next]_vars PROVE SlotInv'
  OBVIOUS
<1> DEFINE Kept(r) == /\ UNCHANGED <<call, slots, inFlight>>
                      /\ pc' = [pc EXCEPT ![r] = pc'[r]]
                      /\ r \in slots => pc'[r] \in SlotLabels
                      /\ pc'[r] # "run"
<1>1. \A r \in Requests : Kept(r) => SlotInv'
  BY SlotInvKept
<1> USE DEF Goto, Reply, Settle, Begin, limiter, valkey, evidence, history
<1>2. ASSUME NEW r \in Requests,
             \/ Receive(r) \/ Lookup(r) \/ SaveRunning(r) \/ IndexRunning(r)
             \/ PublishStarted(r) \/ AllowRate(r) \/ Authorize(r)
      PROVE  Kept(r)
  <2>1. r \notin slots
    BY <1>2 DEF SlotInv, SlotsHeldInPlace, SlotLabels, Receive, Lookup, SaveRunning,
                IndexRunning, PublishStarted, AllowRate, Authorize
  <2>2. CASE Receive(r)
    BY <2>1, <2>2 DEF Receive, TypeOK
  <2>3. CASE Lookup(r)
    BY <2>1, <2>3 DEF Lookup, TypeOK
  <2>4. CASE SaveRunning(r)
    BY <2>1, <2>4 DEF SaveRunning, TypeOK
  <2>5. CASE IndexRunning(r)
    BY <2>1, <2>5 DEF IndexRunning, TypeOK
  <2>6. CASE PublishStarted(r)
    BY <2>1, <2>6 DEF PublishStarted, TypeOK
  <2>7. CASE AllowRate(r)
    BY <2>1, <2>7 DEF AllowRate, TypeOK
  <2>8. CASE Authorize(r)
    BY <2>1, <2>8 DEF Authorize, TypeOK
  <2> QED
    BY <1>2, <2>2, <2>3, <2>4, <2>5, <2>6, <2>7, <2>8
<1>3. ASSUME NEW r \in Requests,
             \/ RunTool(r) \/ PersistRunArtifacts(r) \/ SaveFinal(r) \/ IndexFinal(r)
             \/ RecordAudit(r) \/ PublishFinished(r) \/ RecordTelemetry(r)
      PROVE  Kept(r)
  <2>1. CASE RunTool(r)
    BY <2>1 DEF RunTool, SlotLabels, TypeOK
  <2>2. CASE PersistRunArtifacts(r)
    BY <2>2 DEF PersistRunArtifacts, SlotLabels, TypeOK
  <2>3. CASE SaveFinal(r)
    BY <2>3 DEF SaveFinal, AfterFailedSave, SlotLabels, TypeOK
  <2>4. CASE IndexFinal(r)
    BY <2>4 DEF IndexFinal, AfterFailedSave, SlotLabels, TypeOK
  <2>5. CASE RecordAudit(r)
    BY <2>5 DEF RecordAudit, AfterAudit, SlotLabels, TypeOK
  <2>6. CASE PublishFinished(r)
    BY <2>6 DEF PublishFinished, SlotLabels, TypeOK
  <2>7. CASE RecordTelemetry(r)
    BY <2>7 DEF RecordTelemetry, SlotLabels, TypeOK
  <2> QED
    BY <1>3, <2>1, <2>2, <2>3, <2>4, <2>5, <2>6, <2>7
<1>4. ASSUME NEW r \in Requests, AcquireConcurrency(r) PROVE SlotInv'
  BY <1>4, AcquireKeepsSlots
<1>5. ASSUME NEW r \in Requests, Return(r) PROVE SlotInv'
  BY <1>5, ReturnKeepsSlots
<1>6. CASE Tick \/ UNCHANGED vars
  BY <1>6 DEF Tick, vars, SlotInv, SlotsExact, SlotsHeldInPlace, RunningHoldsSlot,
              InFlightBounded, Holders
<1>7. ASSUME NEW p \in Replicas, Crash(p) PROVE SlotInv'
  BY <1>7, CrashKeepsSlots
<1> QED
  BY <1>1, <1>2, <1>3, <1>4, <1>5, <1>6, <1>7 DEF Next, Step

\* SlotInv holds in every reachable state.
THEOREM SlotInvariant == Spec => []SlotInv
<1>1. Init => SlotInv
  <2> SUFFICES ASSUME Init PROVE SlotInv
    OBVIOUS
  <2>1. SlotsExact
    <3>1. \A p, s : Holders(p, s) = {}
      BY DEF Init, Holders
    <3> QED
      BY <3>1, FS_EmptySet DEF Init, SlotsExact
  <2>2. SlotsHeldInPlace /\ RunningHoldsSlot /\ InFlightBounded
    BY LimitsTyped DEF Init, SlotsHeldInPlace, RunningHoldsSlot, InFlightBounded
  <2> QED
    BY <2>1, <2>2 DEF SlotInv
<1> QED
  BY <1>1, SlotInvInductive, TypeCorrect, PTL DEF Spec

\* The in-flight counter of every session on every replica is exactly the number of
\* calls that still owe a release: no path out of InvokeTool leaks or doubles one.
THEOREM SlotAccounting == Spec => []SlotsExact
<1>1. SlotInv => SlotsExact
  BY DEF SlotInv
<1> QED
  BY <1>1, SlotInvariant, PTL

\* No replica ever runs more tools of one session at once than the configured limit,
\* for any limit and any number of sessions, replicas and calls.
THEOREM ConcurrencyHolds == Spec => []ConcurrencyBounded
<1>1. TypeOK /\ SlotInv => ConcurrencyBounded
  <2> SUFFICES ASSUME TypeOK, SlotInv, MaxConcurrent > 0,
                      NEW p \in Replicas, NEW s \in Sessions
               PROVE  Cardinality(Executing(p, s)) <= MaxConcurrent
    BY DEF ConcurrencyBounded
  <2>1. Executing(p, s) \subseteq Holders(p, s)
    BY DEF Executing, Holders, SlotInv, RunningHoldsSlot
  <2>2. /\ Cardinality(Executing(p, s)) <= Cardinality(Holders(p, s))
        /\ Cardinality(Executing(p, s)) \in Nat
        /\ Cardinality(Holders(p, s)) \in Nat
    <3>1. IsFiniteSet(Holders(p, s)) /\ IsFiniteSet(Executing(p, s))
      BY <2>1, HoldersFinite, FS_Subset
    <3> QED
      BY <2>1, <3>1, FS_Subset, FS_CardinalityType
  <2>3. Cardinality(Holders(p, s)) <= MaxConcurrent
    BY DEF SlotInv, SlotsExact, InFlightBounded
  <2> QED
    BY <2>2, <2>3, LimitsTyped
<1> QED
  BY <1>1, SlotInvariant, TypeCorrect, PTL

------------------------------------------------------------------------------
(* Theorems about what Invocation leaves in Valkey: the correlation index, the *)
(* record it names, and what a repeated call finds there.                      *)

\* What one step of one call may do to the records; every action of a call does no
\* more than this.
RecordStep(r) ==
  /\ call' = call
  /\ pc' = [pc EXCEPT ![r] = pc'[r]]
  /\ store' = [store EXCEPT ![r] = store'[r]]
  /\ store[r] # "none" => store'[r] # "none"
  /\ store[r] \in Terminal => store'[r] = store[r]
  /\ pc'[r] \in SavedLabels => store'[r] # "none"
  /\ pc'[r] \in BeforeFinal => store'[r] \notin Terminal
  /\ pc'[r] # "idle"
  /\ \A k \in CorrKeys :
       \/ corrIndex'[k] = corrIndex[k]
       \/ corrIndex[k] = NoInvocation /\ corrIndex'[k] = r /\ store'[r] # "none"
  /\ \/ late' = late
     \/ /\ late' = late \cup {r}
        /\ Correlated(r) /\ corrIndex[CorrelationKey(call[r])] # NoInvocation
        /\ r \notin executed
        /\ pc'[r] \in {"lookup", "done"}
  /\ r \in late => pc'[r] \in {"lookup", "done", "crashed"}
  /\ executed' = executed \/ (executed' = executed \cup {r} /\ r \notin late)
  /\ executed' = executed \/ late' = late

------------------------------------------------------------------------------
(* The invariant is kept *)

\* SETNX changes an index entry only from empty to the caller's invocation.
LEMMA SetNXFacts ==
  ASSUME TypeOK, NEW r \in Requests, NEW k \in CorrKeys
  PROVE  \/ SetNX(r)[k] = corrIndex[k]
         \/ corrIndex[k] = NoInvocation /\ SetNX(r)[k] = r
BY DEF SetNX, TypeOK

\* The status of a final record is never "none".
LEMMA FinalStatusRecorded ==
  ASSUME NEW o
  PROVE  FinalStatus(o) # "none"
BY DEF FinalStatus

\* A step of the allowed shape keeps the invariant.
LEMMA RecordStepKeeps ==
  ASSUME TypeOK, TypeOK', RecordInv, NEW r \in Requests, RecordStep(r)
  PROVE  RecordInv'
<1>1. IndexedIsStored'
  <2> SUFFICES ASSUME NEW k \in CorrKeys, corrIndex'[k] # NoInvocation
               PROVE  store'[corrIndex'[k]] # "none"
    BY DEF IndexedIsStored
  <2>1. CASE corrIndex'[k] = corrIndex[k]
    <3>1. corrIndex[k] \in Requests /\ store[corrIndex[k]] # "none"
      BY <2>1 DEF RecordInv, IndexedIsStored, TypeOK
    <3> QED
      BY <2>1, <3>1 DEF RecordStep, TypeOK
  <2>2. CASE corrIndex'[k] = r /\ store'[r] # "none"
    BY <2>2
  <2> QED
    BY <2>1, <2>2 DEF RecordStep
<1>2. SavedHasRecord'
  BY DEF RecordStep, RecordInv, SavedHasRecord, TypeOK
<1>3. FinalOnlyAtEnd'
  BY DEF RecordStep, RecordInv, FinalOnlyAtEnd, TypeOK
<1>4. ExecutedWasReceived'
  BY DEF RecordStep, RecordInv, ExecutedWasReceived, TypeOK
<1>5. LateStaysOut'
  <2>0. call' = call
    BY DEF RecordStep
  <2> SUFFICES ASSUME NEW q, q \in late'
               PROVE  /\ Correlated(q)'
                      /\ corrIndex'[CorrelationKey(call[q])] # NoInvocation
                      /\ pc'[q] \in {"lookup", "done", "crashed"}
                      /\ q \notin executed'
    BY <2>0 DEF LateStaysOut, CorrelationKey
  <2>1. q \in Requests
    BY DEF TypeOK
  <2>2. Correlated(q) /\ corrIndex[CorrelationKey(call[q])] # NoInvocation
    BY DEF RecordStep, RecordInv, LateStaysOut
  <2>3. corrIndex'[CorrelationKey(call[q])] # NoInvocation
    <3>1. CorrelationKey(call[q]) \in CorrKeys
      BY <2>1, <2>2, CallTyped
    <3> QED
      BY <2>2, <3>1, NoInvocationFresh DEF RecordStep
  <2>4. Correlated(q)'
    BY <2>2 DEF RecordStep, Correlated
  <2>5. pc'[q] \in {"lookup", "done", "crashed"}
    <3>1. CASE q = r
      BY <3>1 DEF RecordStep
    <3>2. CASE q # r
      <4>1. q \in late /\ pc'[q] = pc[q]
        BY <2>1, <3>2 DEF RecordStep, TypeOK
      <4> QED
        BY <4>1 DEF RecordInv, LateStaysOut
    <3> QED
      BY <3>1, <3>2
  <2>6. q \notin executed'
    BY DEF RecordStep, RecordInv, LateStaysOut
  <2> QED
    BY <2>3, <2>4, <2>5, <2>6
<1> QED
  BY <1>1, <1>2, <1>3, <1>4, <1>5 DEF RecordInv

\* Every action of a call has that shape.
LEMMA StepsAreRecordSteps ==
  ASSUME TypeOK, RecordInv, NEW r \in Requests, Receive(r) \/ Step(r)
  PROVE  RecordStep(r)
<1> USE DEF Goto, Reply, Settle, Begin, limiter, valkey, evidence, history,
            SavedLabels, SlotLabels, BeforeFinal, Terminal
<1>1. CASE Receive(r)
  <2>1. r \notin executed /\ store[r] \notin Terminal /\ r \notin late
    BY <1>1 DEF Receive, RecordInv, ExecutedWasReceived, FinalOnlyAtEnd, LateStaysOut
  <2>2. pc' = [pc EXCEPT ![r] = pc'[r]] /\ pc'[r] \in {"lookup", "save", "done"}
    BY <1>1 DEF Receive, TypeOK
  <2>3. \/ late' = late
        \/ /\ late' = late \cup {r}
           /\ Correlated(r) /\ corrIndex[CorrelationKey(call[r])] # NoInvocation
           /\ pc'[r] \in {"lookup", "done"}
    BY <1>1 DEF Receive, TypeOK
  <2> QED
    BY <1>1, <2>1, <2>2, <2>3 DEF Receive, RecordStep, TypeOK
<1>2. CASE Lookup(r)
  <2>1. store[r] \notin Terminal
    BY <1>2 DEF Lookup, RecordInv, FinalOnlyAtEnd
  <2>2. pc' = [pc EXCEPT ![r] = pc'[r]] /\ pc'[r] \in {"save", "done"}
    BY <1>2 DEF Lookup, TypeOK
  <2>3. r \in late => pc'[r] = "done"
    <3> SUFFICES ASSUME r \in late PROVE FoundByCorrelation(r)
      BY <1>2 DEF Lookup, TypeOK
    <3>1. Correlated(r) /\ corrIndex[CorrelationKey(call[r])] # NoInvocation
      BY DEF RecordInv, LateStaysOut
    <3> QED
      BY <3>1, CallTyped DEF FoundByCorrelation, RecordInv, IndexedIsStored
  <2> QED
    BY <1>2, <2>1, <2>2, <2>3 DEF Lookup, RecordStep, TypeOK
<1>3. CASE SaveRunning(r)
  <2>1. store[r] \notin Terminal /\ r \notin late
    BY <1>3 DEF SaveRunning, RecordInv, FinalOnlyAtEnd, LateStaysOut
  <2>2. /\ pc' = [pc EXCEPT ![r] = pc'[r]]
        /\ pc'[r] \in {"index", "started", "done"}
        /\ pc'[r] # "done" => store'[r] = "running"
    BY <1>3 DEF SaveRunning, TypeOK
  <2>3. store' = [store EXCEPT ![r] = store'[r]] /\ store'[r] \in {store[r], "running"}
    BY <1>3 DEF SaveRunning, TypeOK
  <2> QED
    BY <1>3, <2>1, <2>2, <2>3 DEF SaveRunning, RecordStep, TypeOK
<1>4. CASE IndexRunning(r)
  <2>1. store[r] \notin Terminal /\ store[r] # "none" /\ r \notin late
    BY <1>4 DEF IndexRunning, RecordInv, FinalOnlyAtEnd, SavedHasRecord, LateStaysOut
  <2>2. pc' = [pc EXCEPT ![r] = pc'[r]] /\ pc'[r] \in {"started", "done"}
    BY <1>4 DEF IndexRunning, TypeOK
  <2>3. corrIndex' = corrIndex \/ corrIndex' = SetNX(r)
    BY <1>4 DEF IndexRunning
  <2>4. \A k \in CorrKeys : \/ corrIndex'[k] = corrIndex[k]
                            \/ corrIndex[k] = NoInvocation /\ corrIndex'[k] = r
    BY <2>3, SetNXFacts
  <2> QED
    BY <1>4, <2>1, <2>2, <2>4 DEF IndexRunning, RecordStep, TypeOK
<1>5. CASE PublishStarted(r) \/ AllowRate(r) \/ Authorize(r) \/ AcquireConcurrency(r)
  <2>1. store[r] \notin Terminal /\ store[r] # "none" /\ r \notin late
    BY <1>5 DEF PublishStarted, AllowRate, Authorize, AcquireConcurrency, RecordInv,
                FinalOnlyAtEnd, SavedHasRecord, LateStaysOut
  <2>2. pc' = [pc EXCEPT ![r] = pc'[r]] /\ pc'[r] # "idle"
    BY <1>5 DEF PublishStarted, AllowRate, Authorize, AcquireConcurrency, TypeOK
  <2>3. UNCHANGED <<call, store, corrIndex, late, executed>>
    BY <1>5 DEF PublishStarted, AllowRate, Authorize, AcquireConcurrency
  <2> QED
    BY <2>1, <2>2, <2>3 DEF RecordStep, TypeOK
<1>6. CASE RunTool(r) \/ PersistRunArtifacts(r)
  <2>1. store[r] \notin Terminal /\ store[r] # "none" /\ r \notin late
    BY <1>6 DEF RunTool, PersistRunArtifacts, RecordInv, FinalOnlyAtEnd, SavedHasRecord,
                LateStaysOut
  <2>2. pc' = [pc EXCEPT ![r] = pc'[r]] /\ pc'[r] # "idle"
    BY <1>6 DEF RunTool, PersistRunArtifacts, TypeOK
  <2>3. /\ UNCHANGED <<call, store, corrIndex, late>>
        /\ executed' = executed \/ executed' = executed \cup {r}
    BY <1>6 DEF RunTool, PersistRunArtifacts
  <2> QED
    BY <2>1, <2>2, <2>3 DEF RecordStep, TypeOK
<1>7. CASE SaveFinal(r)
  <2>1. store[r] \notin Terminal /\ store[r] # "none" /\ r \notin late
    BY <1>7 DEF SaveFinal, RecordInv, FinalOnlyAtEnd, SavedHasRecord, LateStaysOut
  <2>2. /\ pc' = [pc EXCEPT ![r] = pc'[r]]
        /\ pc'[r] \in {"storeIndex", "audit", "return"}
    BY <1>7 DEF SaveFinal, AfterFailedSave, TypeOK
  <2>3. /\ store' = [store EXCEPT ![r] = store'[r]]
        /\ store'[r] \in {store[r], FinalStatus(outcome[r])}
    BY <1>7 DEF SaveFinal, TypeOK
  <2>4. store'[r] # "none"
    BY <2>1, <2>3, FinalStatusRecorded
  <2> QED
    BY <1>7, <2>1, <2>2, <2>3, <2>4 DEF SaveFinal, RecordStep, TypeOK
<1>8. CASE IndexFinal(r)
  <2>1. store[r] # "none" /\ r \notin late
    BY <1>8 DEF IndexFinal, RecordInv, SavedHasRecord, LateStaysOut
  <2>2. pc' = [pc EXCEPT ![r] = pc'[r]] /\ pc'[r] \in {"audit", "return"}
    BY <1>8 DEF IndexFinal, AfterFailedSave, TypeOK
  <2>3. corrIndex' = corrIndex \/ corrIndex' = SetNX(r)
    BY <1>8 DEF IndexFinal
  <2>4. \A k \in CorrKeys : \/ corrIndex'[k] = corrIndex[k]
                            \/ corrIndex[k] = NoInvocation /\ corrIndex'[k] = r
    BY <2>3, SetNXFacts
  <2> QED
    BY <1>8, <2>1, <2>2, <2>4 DEF IndexFinal, RecordStep, TypeOK
<1>9. CASE \/ RecordAudit(r) \/ PublishFinished(r) \/ RecordTelemetry(r) \/ Return(r)
  <2>1. store[r] # "none" /\ r \notin late
    BY <1>9 DEF RecordAudit, PublishFinished, RecordTelemetry, Return, RecordInv,
                SavedHasRecord, LateStaysOut
  <2>2. /\ pc' = [pc EXCEPT ![r] = pc'[r]]
        /\ pc'[r] \in {"event", "telemetry", "return", "done"}
    BY <1>9 DEF RecordAudit, AfterAudit, PublishFinished, RecordTelemetry, Return, TypeOK
  <2>3. UNCHANGED <<call, store, corrIndex, late, executed>>
    BY <1>9 DEF RecordAudit, PublishFinished, RecordTelemetry, Return
  <2> QED
    BY <2>1, <2>2, <2>3 DEF RecordStep, TypeOK
<1> QED
  BY <1>1, <1>2, <1>3, <1>4, <1>5, <1>6, <1>7, <1>8, <1>9 DEF Step

\* Neither time nor a crash touches a record.
LEMMA EnvironmentKeepsRecords ==
  ASSUME TypeOK, RecordInv, Tick \/ (\E p \in Replicas : Crash(p)) \/ UNCHANGED vars
  PROVE  RecordInv' /\ UNCHANGED <<store, corrIndex>>
<1>1. CASE Tick \/ UNCHANGED vars
  BY <1>1 DEF Tick, vars, valkey, history, RecordInv, IndexedIsStored, SavedHasRecord,
              FinalOnlyAtEnd, ExecutedWasReceived, LateStaysOut, Correlated
<1>2. ASSUME NEW p \in Replicas, Crash(p) PROVE RecordInv' /\ UNCHANGED <<store, corrIndex>>
  <2>1. UNCHANGED <<call, store, corrIndex, executed, late>>
    BY <1>2 DEF Crash, valkey, history
  <2>2. \A r \in Requests : \/ pc'[r] = pc[r]
                            \/ pc'[r] = "crashed" /\ pc[r] # "idle"
    BY <1>2 DEF Crash
  <2>3. IndexedIsStored'
    BY <2>1 DEF RecordInv, IndexedIsStored
  <2>4. SavedHasRecord' /\ FinalOnlyAtEnd'
    BY <2>1, <2>2 DEF RecordInv, SavedHasRecord, FinalOnlyAtEnd, SavedLabels, SlotLabels,
                      BeforeFinal
  <2>5. ExecutedWasReceived'
    BY <2>1, <2>2 DEF RecordInv, ExecutedWasReceived, TypeOK
  <2>6. LateStaysOut'
    BY <2>1, <2>2 DEF RecordInv, LateStaysOut, Correlated, TypeOK
  <2> QED
    BY <2>1, <2>3, <2>4, <2>5, <2>6 DEF RecordInv
<1> QED
  BY <1>1, <1>2

\* RecordInv holds in every reachable state.
THEOREM RecordInvariant == Spec => []RecordInv
<1>1. Init => RecordInv
  BY DEF Init, RecordInv, IndexedIsStored, SavedHasRecord, FinalOnlyAtEnd,
         ExecutedWasReceived, LateStaysOut, SavedLabels, SlotLabels, Terminal
<1>2. TypeOK /\ TypeOK' /\ RecordInv /\ [Next]_vars => RecordInv'
  BY RecordStepKeeps, StepsAreRecordSteps, EnvironmentKeepsRecords DEF Next
<1> QED
  BY <1>1, <1>2, TypeCorrect, PTL DEF Spec

------------------------------------------------------------------------------
(* Theorems *)

\* The correlation index never names an invocation that was not stored, although the
\* two keys are written one after the other and either write may fail or be cut off
\* by a crash.
THEOREM IndexNamesRecords == Spec => []IndexedIsStored
<1>1. RecordInv => IndexedIsStored
  BY DEF RecordInv
<1> QED
  BY <1>1, RecordInvariant, PTL

\* A call that arrives when its correlation id is indexed never runs its tool.
THEOREM RetriesAreSafe == Spec => []RetryNeverReexecutes
<1>1. RecordInv => RetryNeverReexecutes
  BY DEF RecordInv, LateStaysOut, RetryNeverReexecutes
<1> QED
  BY <1>1, RecordInvariant, PTL

\* A terminal status and an index entry are written once and never rewritten.
THEOREM TerminalStays == Spec => TerminalIsFinal
<1> DEFINE Final == /\ \A r \in Requests : store[r] \in Terminal => store'[r] = store[r]
                    /\ \A k \in CorrKeys :
                         corrIndex[k] # NoInvocation => corrIndex'[k] = corrIndex[k]
<1>1. ASSUME TypeOK, RecordInv, NEW r \in Requests, RecordStep(r) PROVE Final
  BY <1>1 DEF RecordStep, TypeOK
<1>2. TypeOK /\ RecordInv /\ [Next]_vars => [Final]_vars
  BY <1>1, StepsAreRecordSteps, EnvironmentKeepsRecords DEF Next
<1> QED
  BY <1>2, RecordInvariant, TypeCorrect, PTL DEF Spec, TerminalIsFinal

------------------------------------------------------------------------------
(* Theorems about the evidence Invocation leaves: the audit record, the domain *)
(* events and the telemetry record of one call agree with each other and with  *)
(* the stored status, and a call answered as succeeded has left all of them.   *)

------------------------------------------------------------------------------
(* The invariant is kept *)

\* A step of one call leaves the evidence of the others alone.
LEMMA OthersKeepEvidence ==
  ASSUME TypeOK, NEW r \in Requests, Receive(r) \/ Step(r), NEW q \in Requests, q # r,
         EvidenceOf(q)
  PROVE  EvidenceOf(q)'
<1> USE DEF Goto, Reply, Settle, Begin, limiter, valkey, evidence, history
<1>1. pc'[q] = pc[q] /\ outcome'[q] = outcome[q]
  BY DEF Receive, Step, Lookup, SaveRunning, IndexRunning, PublishStarted, AllowRate,
         Authorize, AcquireConcurrency, RunTool, PersistRunArtifacts, SaveFinal,
         IndexFinal, AfterFailedSave, RecordAudit, PublishFinished, RecordTelemetry,
         Return, TypeOK
<1>2. store'[q] = store[q] /\ (q \in executed' <=> q \in executed)
  BY DEF Receive, Step, Lookup, SaveRunning, IndexRunning, PublishStarted, AllowRate,
         Authorize, AcquireConcurrency, RunTool, PersistRunArtifacts, SaveFinal,
         IndexFinal, RecordAudit, PublishFinished, RecordTelemetry, Return, TypeOK
<1>3. audit'[q] = audit[q] /\ events'[q] = events[q] /\ telemetry'[q] = telemetry[q]
  BY DEF Receive, Step, Lookup, SaveRunning, IndexRunning, PublishStarted, AllowRate,
         Authorize, AcquireConcurrency, RunTool, PersistRunArtifacts, SaveFinal,
         IndexFinal, RecordAudit, PublishFinished, RecordTelemetry, Return, TypeOK
<1> QED
  BY <1>1, <1>2, <1>3 DEF EvidenceOf, OutcomeInPlace, RecordedInPlace, StartIsPublished,
                          SuccessSoFar

\* A step of a call keeps its own evidence.
LEMMA StepKeepsEvidence ==
  ASSUME TypeOK, RecordInv, NEW r \in Requests, EvidenceOf(r), Receive(r) \/ Step(r)
  PROVE  EvidenceOf(r)'
<1> USE DEF Goto, Reply, Settle, Begin, limiter, valkey, evidence, history, Settled,
            BeforeAudit, BeforeFinal, Terminal
<1> USE DEF EvidenceOf, OutcomeInPlace, RecordedInPlace, StartIsPublished, SuccessSoFar
<1>0. pc[r] \in BeforeFinal => store[r] \notin Terminal
  BY DEF RecordInv, FinalOnlyAtEnd
<1>1. CASE Receive(r)
  BY <1>0, <1>1 DEF Receive, FinalStatus, TypeOK
<1>2. CASE Lookup(r)
  BY <1>0, <1>2 DEF Lookup, FinalStatus, TypeOK
<1>3. CASE SaveRunning(r)
  BY <1>0, <1>3 DEF SaveRunning, FinalStatus, TypeOK
<1>4. CASE IndexRunning(r)
  BY <1>0, <1>4 DEF IndexRunning, FinalStatus, TypeOK
<1>5. CASE PublishStarted(r)
  BY <1>0, <1>5 DEF PublishStarted, FinalStatus, TypeOK
<1>6. CASE AllowRate(r)
  BY <1>0, <1>6 DEF AllowRate, FinalStatus, TypeOK
<1>7. CASE Authorize(r)
  BY <1>0, <1>7 DEF Authorize, FinalStatus, TypeOK
<1>8. CASE AcquireConcurrency(r)
  BY <1>0, <1>8 DEF AcquireConcurrency, FinalStatus, TypeOK
<1>9. CASE RunTool(r)
  BY <1>0, <1>9 DEF RunTool, FinalStatus, TypeOK
<1>10. CASE PersistRunArtifacts(r)
  BY <1>0, <1>10 DEF PersistRunArtifacts, FinalStatus, TypeOK
<1>11. CASE SaveFinal(r)
  BY <1>0, <1>11 DEF SaveFinal, AfterFailedSave, FinalStatus, TypeOK
<1>12. CASE IndexFinal(r)
  BY <1>0, <1>12 DEF IndexFinal, AfterFailedSave, FinalStatus, TypeOK
<1>13. CASE RecordAudit(r)
  BY <1>0, <1>13 DEF RecordAudit, AfterAudit, FinalStatus, TypeOK
<1>14. CASE PublishFinished(r)
  BY <1>0, <1>14 DEF PublishFinished, FinalStatus, TypeOK
<1>15. CASE RecordTelemetry(r)
  BY <1>0, <1>15 DEF RecordTelemetry, FinalStatus, TypeOK
<1>16. CASE Return(r)
  BY <1>0, <1>16 DEF Return, FinalStatus, TypeOK
<1> QED
  BY <1>1, <1>2, <1>3, <1>4, <1>5, <1>6, <1>7, <1>8, <1>9, <1>10, <1>11, <1>12, <1>13, <1>14, <1>15, <1>16 DEF Step

\* A crash leaves a call with the evidence it had; time changes nothing.
LEMMA EnvironmentKeepsEvidence ==
  ASSUME TypeOK, EvidenceInv, Tick \/ (\E p \in Replicas : Crash(p)) \/ UNCHANGED vars
  PROVE  EvidenceInv'
<1>1. /\ UNCHANGED <<outcome, store, executed, audit, events, telemetry>>
      /\ \A q \in Requests : pc'[q] = pc[q] \/ pc'[q] = "crashed"
  BY DEF Tick, Crash, vars, valkey, history, evidence
<1> QED
  BY <1>1 DEF EvidenceInv, EvidenceOf, OutcomeInPlace, RecordedInPlace, StartIsPublished,
              SuccessSoFar, BeforeAudit, BeforeFinal

\* EvidenceInv holds in every reachable state.
THEOREM EvidenceInvariant == Spec => []EvidenceInv
<1>1. Init => EvidenceInv
  BY DEF Init, EvidenceInv, EvidenceOf, OutcomeInPlace, RecordedInPlace, StartIsPublished,
         SuccessSoFar, BeforeAudit, BeforeFinal, Terminal
<1>2. ASSUME TypeOK, RecordInv, EvidenceInv, [Next]_vars
      PROVE  EvidenceInv'
  <2>1. ASSUME NEW r \in Requests, Receive(r) \/ Step(r), NEW q \in Requests
        PROVE  EvidenceOf(q)'
    BY <1>2, <2>1, OthersKeepEvidence, StepKeepsEvidence DEF EvidenceInv
  <2>2. ASSUME NEW r \in Requests, Receive(r) \/ Step(r)
        PROVE  EvidenceInv'
    BY <2>1, <2>2 DEF EvidenceInv
  <2> QED
    BY <1>2, <2>2, EnvironmentKeepsEvidence DEF Next
<1>3. TypeOK /\ RecordInv /\ EvidenceInv /\ [Next]_vars => EvidenceInv'
  BY <1>2
<1> QED
  BY <1>1, <1>3, TypeCorrect, RecordInvariant, PTL DEF Spec

------------------------------------------------------------------------------
(* Theorems *)

\* The audit record, the telemetry record, the terminal event and the stored status of
\* one invocation never contradict each other: InvokeTool writes them one by one, any
\* of the writes may fail, and its replica may die between two of them.
THEOREM EvidenceIsConsistent == Spec => []EvidenceAgrees
<1>1. EvidenceInv => EvidenceAgrees
  BY DEF EvidenceInv, EvidenceOf, RecordedInPlace, EvidenceAgrees
<1> QED
  BY <1>1, EvidenceInvariant, PTL

\* A call answered as succeeded ran its tool and left its record, its audit record, its
\* telemetry and both of its events.
THEOREM SuccessLeavesEvidence == Spec => []SuccessIsEvidenced
<1>1. ASSUME TypeOK, EvidenceInv, NEW r \in Requests, pc[r] = "done",
             outcome[r] = "succeeded"
      PROVE  /\ r \in executed
             /\ store[r] = "succeeded"
             /\ audit[r] = "succeeded"
             /\ telemetry[r] = "succeeded"
             /\ events[r] = {"started", "completed"}
  <2>1. EvidenceOf(r) /\ events[r] \subseteq {"started", "completed", "denied"}
    BY <1>1 DEF EvidenceInv, TypeOK
  <2>2. /\ r \in executed
        /\ store[r] = "succeeded" /\ audit[r] = "succeeded" /\ telemetry[r] = "succeeded"
        /\ "started" \in events[r] /\ "completed" \in events[r]
    BY <1>1, <2>1 DEF EvidenceOf, SuccessSoFar
  <2>3. "denied" \notin events[r]
    BY <2>1, <2>2 DEF EvidenceOf, RecordedInPlace
  <2> QED
    BY <2>1, <2>2, <2>3
<1>2. TypeOK /\ EvidenceInv => SuccessIsEvidenced
  BY <1>1 DEF SuccessIsEvidenced
<1> QED
  BY <1>2, TypeCorrect, EvidenceInvariant, PTL

------------------------------------------------------------------------------
(* The rate limit *)

\* An element adds at most one to the size of a set.
LEMMA AtMostOneMore ==
  ASSUME NEW S, IsFiniteSet(S), NEW x
  PROVE  /\ Cardinality(S \cup {x}) \in Nat
         /\ Cardinality(S \cup {x}) <= Cardinality(S) + 1
<1>1. Cardinality(S) \in Nat
  BY FS_CardinalityType
<1>2. Cardinality(S \cup {x}) = IF x \in S THEN Cardinality(S) ELSE Cardinality(S) + 1
  BY FS_AddElement
<1> QED
  BY <1>1, <1>2

\* Admissions are counted.
LEMMA AdmittedFinite ==
  ASSUME TypeOK, NEW p, NEW s, NEW m
  PROVE  IsFiniteSet(AdmittedOf(p, s, m)) /\ Cardinality(AdmittedOf(p, s, m)) \in Nat
<1>1. AdmittedOf(p, s, m) \subseteq Requests
  BY DEF AdmittedOf, TypeOK
<1> QED
  BY <1>1, RequestsFinite, FS_Subset, FS_CardinalityType

\* One reset more allows one window more.
LEMMA OneWindowMore ==
  ASSUME NEW n \in Nat, NEW k \in Nat
  PROVE  /\ n * k \in Nat /\ n * (k + 1) \in Nat /\ n * (k + 1) = n * k + n
         /\ n * (1 + k) = n * k + n
  OBVIOUS

\* allowRate: an admission is counted in the session's window before it is granted, and
\* a call of an earlier minute than the window's is counted as a reset.
LEMMA AllowRateCounts ==
  ASSUME TypeOK, RateInv, MaxPerMinute > 0, NEW r \in Requests, AllowRate(r)
  PROVE  RateInv'
<1>0. PICK p \in Replicas, s \in Sessions, n \in Minutes :
        p = call[r].replica /\ s = call[r].session /\ n = minute[r]
  BY CallTyped DEF TypeOK
<1> DEFINE window == sessionWindow[p][s]
           counted == sessionWindow'[p][s]
<1>1. p \in Replicas /\ s \in Sessions /\ UNCHANGED <<call, minute>>
  BY <1>0 DEF AllowRate
<1>2. /\ n \in Minutes /\ n \in Int /\ MaxPerMinute \in Nat
      /\ window \in QuotaWindow /\ resets[p][s] \in Nat
  BY <1>1, LimitsTyped, BoundsTyped DEF TypeOK, Minutes
<1>3. /\ counted = WindowAfter(window, n, MaxPerMinute)
      /\ \A q \in Replicas, t \in Sessions :
           <<q, t>> # <<p, s>> => sessionWindow'[q][t] = sessionWindow[q][t]
  BY <1>0, <1>2 DEF AllowRate, TypeOK
<1>4. /\ resets'[p][s] = IF window.start > n THEN resets[p][s] + 1 ELSE resets[p][s]
      /\ \A q \in Replicas, t \in Sessions : <<q, t>> # <<p, s>> => resets'[q][t] = resets[q][t]
  BY <1>0, <1>2 DEF AllowRate, TypeOK
<1>5. \A q, t, m : <<q, t, m>> # <<p, s, n>> => AdmittedOf(q, t, m)' = AdmittedOf(q, t, m)
  BY <1>0, <1>1 DEF AdmittedOf, AllowRate, Settle
<1>6. window.count <= MaxPerMinute /\ \A m \in Minutes : RateOf(p, s, m)
  BY <1>1 DEF RateInv
<1>7. /\ counted.start = n /\ counted.count \in Nat /\ counted.count <= MaxPerMinute
      /\ window.start \in Int /\ window.count \in Nat
      /\ window.start = n =>
           counted.count = IF window.count < MaxPerMinute THEN window.count + 1 ELSE window.count
      /\ window.start # n => counted.count = 1
  BY <1>2, <1>3, <1>6 DEF WindowAfter, RollWindow, QuotaWindow
<1> DEFINE a == Cardinality(AdmittedOf(p, s, n))
           b == Cardinality(AdmittedOf(p, s, n)')
<1>8. /\ a \in Nat /\ b \in Nat /\ b <= a + 1
      /\ b # a => WindowAllows(window, n, MaxPerMinute)
  <2>1. CASE admitted' = admitted
    <3>1. AdmittedOf(p, s, n)' = AdmittedOf(p, s, n)
      BY <1>1, <2>1 DEF AdmittedOf
    <3> QED
      BY <3>1, AdmittedFinite
  <2>2. CASE admitted' = admitted \cup {r} /\ WindowAllows(window, n, MaxPerMinute)
    <3>1. AdmittedOf(p, s, n)' = AdmittedOf(p, s, n) \cup {r}
      BY <1>0, <1>1, <2>2 DEF AdmittedOf
    <3> QED
      BY <2>2, <3>1, AdmittedFinite, AtMostOneMore
  <2> QED
    BY <1>0, <1>2, <2>1, <2>2 DEF AllowRate
<1> HIDE DEF a, b, window, counted
<1>9. PICK before \in Nat : before = MaxPerMinute * resets[p][s]
  BY <1>2, OneWindowMore
<1>10. PICK after \in Nat :
         /\ after = MaxPerMinute * resets'[p][s]
         /\ after = IF window.start > n THEN before + MaxPerMinute ELSE before
  BY <1>2, <1>4, <1>9, OneWindowMore
<1>11. /\ a <= before + MaxPerMinute
       /\ window.start = n => a <= before + window.count
       /\ window.start < n => a <= before
  BY <1>2, <1>6, <1>9 DEF RateOf, a, window
<1>12. window.start = n /\ b # a => window.count < MaxPerMinute
  BY <1>2, <1>8 DEF WindowAllows, RollWindow
<1>13. b <= after + counted.count
  BY <1>2, <1>7, <1>8, <1>10, <1>11, <1>12
<1>14. ASSUME NEW m \in Minutes PROVE RateOf(p, s, m)'
  <2>1. m \in Int
    BY BoundsTyped DEF Minutes
  <2>2. CASE m = n
    <3>1. Cardinality(AdmittedOf(p, s, m)') = b
      BY <2>2 DEF b
    <3> QED
      BY <1>1, <1>2, <1>7, <1>8, <1>10, <1>13, <2>1, <2>2, <3>1 DEF RateOf, counted
  <2>3. CASE m # n
    <3>1. PICK c \in Nat : c = Cardinality(AdmittedOf(p, s, m))
      BY AdmittedFinite
    <3>2. Cardinality(AdmittedOf(p, s, m)') = c
      BY <1>5, <2>3, <3>1
    <3>3. /\ c <= before + MaxPerMinute
          /\ window.start = m => c <= before + window.count
          /\ window.start < m => c <= before
      BY <1>6, <1>9, <3>1 DEF RateOf, window
    <3>4. c <= after + MaxPerMinute /\ (n < m => c <= after)
      BY <1>2, <1>6, <1>7, <1>10, <2>1, <3>3
    <3> QED
      BY <1>1, <1>2, <1>7, <1>10, <2>1, <2>3, <3>2, <3>4 DEF RateOf, counted
  <2> QED
    BY <2>2, <2>3
<1>15. ASSUME NEW q \in Replicas, NEW t \in Sessions, <<q, t>> # <<p, s>>
       PROVE  /\ sessionWindow'[q][t].count <= MaxPerMinute
              /\ \A m \in Minutes : RateOf(q, t, m)'
  <2>1. sessionWindow'[q][t] = sessionWindow[q][t] /\ resets'[q][t] = resets[q][t]
    BY <1>3, <1>4, <1>15
  <2>2. \A m : AdmittedOf(q, t, m)' = AdmittedOf(q, t, m)
    BY <1>5, <1>15
  <2> QED
    BY <2>1, <2>2 DEF RateInv, RateOf
<1> QED
  BY <1>7, <1>14, <1>15 DEF RateInv, counted

\* A restart forgets the windows of a replica, and is counted as a reset of each.
LEMMA CrashForgets ==
  ASSUME TypeOK, RateInv, MaxPerMinute > 0, NEW p \in Replicas, Crash(p)
  PROVE  RateInv'
<1>1. \A q, t, m : AdmittedOf(q, t, m)' = AdmittedOf(q, t, m)
  BY DEF Crash, AdmittedOf
<1>2. ASSUME NEW q \in Replicas, NEW t \in Sessions
      PROVE  IF q = p THEN sessionWindow'[q][t] = NoWindow /\ resets'[q][t] = resets[q][t] + 1
             ELSE sessionWindow'[q][t] = sessionWindow[q][t] /\ resets'[q][t] = resets[q][t]
  BY <1>2 DEF Crash, TypeOK
<1>3. ASSUME NEW t \in Sessions
      PROVE  sessionWindow'[p][t].count <= MaxPerMinute /\ \A m \in Minutes : RateOf(p, t, m)'
  <2>1. sessionWindow'[p][t].start = -1 /\ sessionWindow'[p][t].count = 0
    BY <1>2 DEF NoWindow
  <2>2. resets[p][t] \in Nat /\ MaxPerMinute \in Nat
    BY LimitsTyped DEF TypeOK
  <2>3. PICK before \in Nat : before = MaxPerMinute * resets[p][t]
    BY <2>2, OneWindowMore
  <2>4. MaxPerMinute * resets'[p][t] = before + MaxPerMinute
    BY <1>2, <2>2, <2>3, OneWindowMore
  <2>5. ASSUME NEW m \in Minutes PROVE RateOf(p, t, m)'
    <3>1. PICK c \in Nat : c = Cardinality(AdmittedOf(p, t, m))
      BY AdmittedFinite
    <3>2. c <= before + MaxPerMinute /\ Cardinality(AdmittedOf(p, t, m)') = c
      BY <1>1, <2>3, <3>1 DEF RateInv, RateOf
    <3>3. m \in Nat
      BY BoundsTyped DEF Minutes
    <3> QED
      BY <2>1, <2>2, <2>4, <3>2, <3>3 DEF RateOf
  <2> QED
    BY <2>1, <2>2, <2>5
<1>4. ASSUME NEW q \in Replicas, NEW t \in Sessions, q # p
      PROVE  sessionWindow'[q][t].count <= MaxPerMinute /\ \A m \in Minutes : RateOf(q, t, m)'
  BY <1>1, <1>2, <1>4 DEF RateInv, RateOf
<1> QED
  BY <1>3, <1>4 DEF RateInv

\* The minute of a call that was admitted is never set again.
AdmittedStarted == \A r \in admitted : pc[r] \notin {"idle", "lookup"}

LEMMA AdmittedStartedStep ==
  ASSUME TypeOK, AdmittedStarted, NEW r \in Requests, Receive(r) \/ Step(r)
  PROVE  AdmittedStarted'
<1> DEFINE Moved == /\ \E l : pc' = [pc EXCEPT ![r] = l] /\ (l \in {"idle", "lookup"} => r \notin admitted)
                    /\ admitted' \subseteq admitted \cup {r}
                    /\ pc'[r] \in {"idle", "lookup"} => admitted' = admitted
<1> USE DEF Goto, Reply, Settle, Begin
<1>1. ASSUME Receive(r) PROVE Moved
  BY <1>1 DEF Receive, history, AdmittedStarted, TypeOK
<1>2. ASSUME Lookup(r) PROVE Moved
  BY <1>2 DEF Lookup, history, AdmittedStarted, TypeOK
<1>3. ASSUME SaveRunning(r) \/ IndexRunning(r) \/ PublishStarted(r) PROVE Moved
  BY <1>3 DEF SaveRunning, IndexRunning, PublishStarted, history, AdmittedStarted, TypeOK
<1>4. ASSUME AllowRate(r) PROVE Moved
  BY <1>4 DEF AllowRate, history, AdmittedStarted, TypeOK
<1>5. ASSUME Authorize(r) \/ AcquireConcurrency(r) \/ RunTool(r) PROVE Moved
  BY <1>5 DEF Authorize, AcquireConcurrency, RunTool, history, AdmittedStarted, TypeOK
<1>6. ASSUME PersistRunArtifacts(r) \/ SaveFinal(r) \/ IndexFinal(r) PROVE Moved
  BY <1>6 DEF PersistRunArtifacts, SaveFinal, IndexFinal, AfterFailedSave, history, TypeOK
<1>7. ASSUME RecordAudit(r) \/ PublishFinished(r) \/ RecordTelemetry(r) \/ Return(r) PROVE Moved
  BY <1>7 DEF RecordAudit, AfterAudit, PublishFinished, RecordTelemetry, Return, history, TypeOK
<1>8. Moved
  BY <1>1, <1>2, <1>3, <1>4, <1>5, <1>6, <1>7 DEF Step
<1> QED
  BY <1>8 DEF AdmittedStarted, TypeOK

\* Nothing else counts or admits.
LEMMA OthersDoNotAdmit ==
  ASSUME TypeOK, AdmittedStarted, NEW r \in Requests, Receive(r) \/ Step(r), ~AllowRate(r)
  PROVE  /\ UNCHANGED <<call, admitted, sessionWindow, resets>>
         /\ \A q \in admitted : minute'[q] = minute[q]
<1>1. UNCHANGED <<call, admitted, sessionWindow, resets>>
  BY DEF Receive, Step, Lookup, SaveRunning, IndexRunning, PublishStarted, Authorize,
         AcquireConcurrency, RunTool, PersistRunArtifacts, SaveFinal, IndexFinal,
         RecordAudit, PublishFinished, RecordTelemetry, Return, limiter, history
<1>2. UNCHANGED minute \/ (pc[r] \in {"idle", "lookup"} /\ minute' = [minute EXCEPT ![r] = now])
  BY DEF Receive, Step, Lookup, SaveRunning, IndexRunning, PublishStarted, Authorize,
         AcquireConcurrency, RunTool, PersistRunArtifacts, SaveFinal, IndexFinal,
         RecordAudit, PublishFinished, RecordTelemetry, Return, Begin
<1> QED
  BY <1>1, <1>2 DEF AdmittedStarted, TypeOK

\* WORKSPACE_RATE_LIMIT_PER_MINUTE: whatever the order in which its calls reach the
\* limiter, however often the minute turns under them and the process restarts, a replica
\* admits no more calls of a session and a minute than the limit for every window the
\* minute had, and it has a second one only when a late call or a restart reset it.
THEOREM RateLimitIsKept == Spec => []RateLimitHolds
<1>1. Init => RateInv /\ AdmittedStarted
  <2> SUFFICES ASSUME Init, MaxPerMinute > 0, NEW p \in Replicas, NEW s \in Sessions
               PROVE  /\ sessionWindow[p][s].count <= MaxPerMinute
                      /\ \A m \in Minutes : RateOf(p, s, m)
    BY DEF RateInv, AdmittedStarted, Init
  <2>1. sessionWindow[p][s].count = 0 /\ resets[p][s] = 0
    BY DEF Init, NoWindow
  <2>2. \A m : Cardinality(AdmittedOf(p, s, m)) = 0
    BY FS_EmptySet DEF Init, AdmittedOf
  <2> QED
    BY <2>1, <2>2, LimitsTyped DEF RateOf
<1>2. ASSUME TypeOK, RateInv, AdmittedStarted, [Next]_vars PROVE RateInv' /\ AdmittedStarted'
  <2>1. ASSUME UNCHANGED <<call, admitted, sessionWindow, resets>>,
               \A q \in admitted : minute'[q] = minute[q]
        PROVE  RateInv'
    <3>1. \A q, t, m : AdmittedOf(q, t, m)' = AdmittedOf(q, t, m)
      BY <2>1 DEF AdmittedOf
    <3> QED
      BY <1>2, <2>1, <3>1 DEF RateInv, RateOf
  <2>2. CASE \E r \in Requests : Receive(r) \/ Step(r)
    <3>1. PICK r \in Requests : Receive(r) \/ Step(r)
      BY <2>2
    <3>2. AdmittedStarted'
      BY <1>2, <3>1, AdmittedStartedStep
    <3>3. CASE MaxPerMinute > 0
      BY <1>2, <2>1, <3>1, <3>2, <3>3, AllowRateCounts, OthersDoNotAdmit
    <3> QED
      BY <3>2, <3>3 DEF RateInv
  <2>3. CASE Tick \/ UNCHANGED vars
    BY <1>2, <2>1, <2>3 DEF Tick, vars, history, limiter, AdmittedStarted
  <2>4. CASE \E p \in Replicas : Crash(p)
    <3>1. PICK p \in Replicas : Crash(p)
      BY <2>4
    <3>2. AdmittedStarted'
      BY <1>2, <3>1 DEF Crash, AdmittedStarted, TypeOK
    <3> QED
      BY <1>2, <3>1, <3>2, CrashForgets DEF RateInv
  <2> QED
    BY <1>2, <2>2, <2>3, <2>4 DEF Next
<1>3. ASSUME TypeOK, RateInv PROVE RateLimitHolds
  <2> SUFFICES ASSUME MaxPerMinute > 0, NEW p \in Replicas, NEW s \in Sessions,
                      NEW m \in Minutes
               PROVE  Cardinality(AdmittedOf(p, s, m)) <= MaxPerMinute * (1 + resets[p][s])
    BY DEF RateLimitHolds
  <2>1. resets[p][s] \in Nat /\ MaxPerMinute \in Nat
    BY <1>3, LimitsTyped DEF TypeOK
  <2>2. Cardinality(AdmittedOf(p, s, m)) <= MaxPerMinute * resets[p][s] + MaxPerMinute
    BY <1>3 DEF RateInv, RateOf
  <2> QED
    BY <2>1, <2>2, OneWindowMore
<1>4. TypeOK /\ RateInv /\ AdmittedStarted /\ [Next]_vars => RateInv' /\ AdmittedStarted'
  BY <1>2
<1>5. TypeOK /\ RateInv => RateLimitHolds
  BY <1>3
<1> QED
  BY <1>1, <1>4, <1>5, TypeCorrect, PTL DEF Spec
==============================================================================
