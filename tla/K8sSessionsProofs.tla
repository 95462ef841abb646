--------------------------- MODULE K8sSessionsProofs ---------------------------
(* Theorems about K8sSessions, for every set of session ids and of calls, every   *)
(* period of the janitor and every number of crashes.                             *)
EXTENDS K8sSessions, TLAPS

------------------------------------------------------------------------------
(* Type correctness *)

\* The cap on ages is a positive number, as the periods are.
LEMMA TimesAreNat ==
  /\ AgeCap \in Nat /\ Grace \in Nat /\ TerminalTTL \in Nat
  /\ Grace > 0 /\ TerminalTTL > 0
  /\ Lifetime \in Nat /\ Lifetime > 0
  /\ ReadyTimeout \in Nat /\ SaveLatency \in Nat /\ MaxCrashes \in Nat
  /\ ReadyTimeout + SaveLatency \in Nat
BY TimesTyped DEF AgeCap, Max2

\* The pods Kubernetes may hold are pods.
LEMMA PodsTyped ==
  /\ NoPod \in Pod
  /\ \A i \in IDs : SessionPod(i) \in Pod
BY TimesAreNat, LabelsTyped DEF NoPod, SessionPod, Pod, Phases

\* A delete by name changes nothing but the deletion mark of that pod.
LEMMA DeletePodFacts ==
  ASSUME TypeOK, NEW i \in IDs, DeletePod(i)
  PROVE  /\ pods' \in [IDs -> Pod]
         /\ \A j \in IDs : j # i => pods'[j] = pods[j]
         /\ pods'[i].phase = pods[i].phase
         /\ pods'[i].label = pods[i].label
         /\ pods'[i].age = pods[i].age
         /\ pods'[i].phase = "absent" \/ pods'[i].deleting
BY ZenonT(40) DEF DeletePod, TypeOK, Pod

\* A pod that becomes ready or fails changes nothing but its phase.
LEMMA PhaseFacts ==
  ASSUME TypeOK, NEW i \in IDs, PodReady(i) \/ PodFails(i)
  PROVE  /\ pods' \in [IDs -> Pod]
         /\ \A j \in IDs : j # i => pods'[j] = pods[j]
         /\ pods'[i].phase = IF PodFails(i) THEN "failed" ELSE "ready"
         /\ pods'[i].label = pods[i].label
         /\ pods'[i].age = pods[i].age
         /\ pods'[i].deleting = pods[i].deleting
<1>1. PICK phase \in {"ready", "failed"} :
        /\ pods' = [pods EXCEPT ![i].phase = phase]
        /\ phase = IF PodFails(i) THEN "failed" ELSE "ready"
  <2>1. CASE PodFails(i)
    BY <2>1 DEF PodFails
  <2>2. CASE ~PodFails(i)
    BY <2>2 DEF PodReady
  <2> QED
    BY <2>1, <2>2
<1>2. pods[i] \in Pod /\ pods'[i] = [pods[i] EXCEPT !.phase = phase]
  BY <1>1 DEF TypeOK
<1>3. /\ pods'[i].phase = phase
      /\ pods'[i].label = pods[i].label
      /\ pods'[i].age = pods[i].age
      /\ pods'[i].deleting = pods[i].deleting
      /\ pods'[i] \in Pod
  BY <1>2 DEF Pod, Phases
<1>4. \A j \in IDs : j # i => pods'[j] = pods[j]
  BY <1>1 DEF TypeOK
<1>5. pods' \in [IDs -> Pod]
  BY <1>1, <1>3 DEF TypeOK
<1> QED
  BY <1>1, <1>3, <1>4, <1>5

\* Time makes a pod older, up to the cap, and leaves the rest of it.
LEMMA TickFacts ==
  ASSUME TypeOK, Tick
  PROVE  /\ pods' \in [IDs -> Pod]
         /\ \A i \in IDs : /\ pods'[i].phase = pods[i].phase
                           /\ pods[i].phase # "absent" =>
                                /\ pods'[i].label = pods[i].label
                                /\ pods'[i].deleting = pods[i].deleting
                                /\ pods'[i].age \in {pods[i].age, pods[i].age + 1}
         /\ left' \in [IDs -> 0 .. Lifetime]
         /\ \A i \in IDs : left'[i] <= left[i]
<1>1. ASSUME NEW i \in IDs
      PROVE  /\ pods'[i] \in Pod
             /\ pods'[i].phase = pods[i].phase
             /\ pods[i].phase # "absent" =>
                  /\ pods'[i].label = pods[i].label
                  /\ pods'[i].deleting = pods[i].deleting
                  /\ pods'[i].age \in {pods[i].age, pods[i].age + 1}
  <2>1. pods[i] \in Pod
    BY DEF TypeOK
  <2>2. CASE pods[i].phase = "absent"
    <3>1. pods'[i] = NoPod
      BY <2>2 DEF Tick
    <3> QED
      BY <2>2, <3>1, PodsTyped DEF NoPod
  <2>3. CASE pods[i].phase # "absent"
    <3>1. pods'[i] = [pods[i] EXCEPT !.age = IF @ < AgeCap THEN @ + 1 ELSE @]
      BY <2>3 DEF Tick
    <3> QED
      BY <2>1, <3>1, TimesAreNat DEF Pod
  <2> QED
    BY <2>2, <2>3
<1>2. pods' \in [IDs -> Pod]
  BY <1>1 DEF Tick
<1>3. ASSUME NEW i \in IDs PROVE left'[i] \in 0 .. Lifetime /\ left'[i] <= left[i]
  BY TimesAreNat DEF Tick, TypeOK, TTLAfter, Max2
<1>4. left' \in [IDs -> 0 .. Lifetime]
  BY <1>3 DEF Tick
<1> QED
  BY <1>1, <1>2, <1>3, <1>4

\* Every step keeps every variable in its type.
LEMMA TypeOKInductive == TypeOK /\ [Next]_vars => TypeOK'
<1> SUFFICES ASSUME TypeOK, [Next]_vars PROVE TypeOK'
  OBVIOUS
<1> USE IdsTyped, TimesAreNat DEF cluster, records, creation, sweep
<1>1. ASSUME NEW i \in IDs, PodReady(i) \/ PodFails(i) \/ PodGone(i) PROVE TypeOK'
  <2>1. pods' \in [IDs -> Pod]
    <3>1. CASE PodReady(i) \/ PodFails(i)
      BY <3>1, PhaseFacts
    <3>2. CASE PodGone(i)
      BY <3>2, PodsTyped DEF PodGone, TypeOK
    <3> QED
      BY <1>1, <3>1, <3>2
  <2> QED
    BY <1>1, <2>1 DEF PodReady, PodFails, PodGone, TypeOK
<1>2. ASSUME NEW i \in IDs, JanitorCheck(i) \/ JanitorSkip(i) PROVE TypeOK'
  BY <1>2, PodsTyped DEF JanitorCheck, JanitorSkip, TypeOK
<1>3. ASSUME NEW i \in IDs, JanitorDelete(i) PROVE TypeOK'
  BY <1>3, DeletePodFacts DEF JanitorDelete, TypeOK
<1>4. ASSUME NEW c \in Creators, CreatePod(c) PROVE TypeOK'
  <2>1. pods' \in [IDs -> Pod]
    BY <1>4, PodsTyped DEF CreatePod, TypeOK
  <2> QED
    BY <1>4, <2>1 DEF CreatePod, TypeOK
<1>5. ASSUME NEW c \in Creators, WaitReady(c) \/ WaitFails(c) PROVE TypeOK'
  BY <1>5 DEF WaitReady, WaitFails, TypeOK
<1>6. ASSUME NEW c \in Creators, SaveSession(c) PROVE TypeOK'
  <2>1. /\ left' \in [IDs -> 0 .. Lifetime]
        /\ savedBy' \in [IDs -> SUBSET Creators]
    BY <1>6 DEF SaveSession, TypeOK
  <2> QED
    BY <1>6, <2>1 DEF SaveSession, TypeOK
<1>7. ASSUME NEW c \in Creators, UndoCreate(c) PROVE TypeOK'
  <2>1. pods' \in [IDs -> Pod]
    BY <1>7, DeletePodFacts DEF UndoCreate, TypeOK
  <2> QED
    BY <1>7, <2>1 DEF UndoCreate, TypeOK
<1>8. ASSUME NEW q \in Closers, CloseCall(q) \/ CloseGet(q) \/ CloseLookup(q) PROVE TypeOK'
  BY <1>8 DEF CloseCall, CloseGet, AfterGet, CloseLookup, TypeOK
<1>9. ASSUME NEW q \in Closers, CloseDelete(q) PROVE TypeOK'
  <2>1. left' \in [IDs -> 0 .. Lifetime]
    BY <1>9 DEF CloseDelete, TypeOK
  <2> QED
    BY <1>9, <2>1 DEF CloseDelete, TypeOK
<1>10. ASSUME NEW q \in Closers, CloseRemove(q) PROVE TypeOK'
  <2>1. pods' \in [IDs -> Pod]
    BY <1>10, DeletePodFacts DEF CloseRemove, TypeOK
  <2> QED
    BY <1>10, <2>1 DEF CloseRemove, TypeOK
<1>11. CASE Sweep \/ JanitorDeleteFails
  BY <1>11, PodsTyped DEF Sweep, JanitorDeleteFails, TypeOK
<1>12. CASE Tick
  <2>1. clock' \in [Creators -> 0 .. ReadyTimeout + SaveLatency]
    BY <1>12 DEF Tick, TypeOK
  <2> QED
    BY <1>12, <2>1, TickFacts DEF Tick, TypeOK
<1>13. CASE Crash
  <2>1. /\ creator' \in [Creators -> {"idle", "wait", "save", "undo", "created", "failed",
                                     "crashed"}]
        /\ closer' \in [Closers -> {"idle", "get", "delete", "lookup", "remove", "closed",
                                    "failed", "crashed"}]
    BY <1>13 DEF Crash, TypeOK
  <2> QED
    BY <1>13, <2>1, PodsTyped DEF Crash, TypeOK
<1>14. CASE UNCHANGED vars
  BY <1>14 DEF vars, TypeOK
<1> QED
  BY <1>1, <1>2, <1>3, <1>4, <1>5, <1>6, <1>7, <1>8, <1>9, <1>10, <1>11, <1>12, <1>13,
     <1>14 DEF Next, CreateStep, CloseStep

\* Every variable of K8sSessions keeps its type: ages stay below the cap, clocks below
\* the timeout of a creation, and no call is ever at an undefined point.
THEOREM SessionsTypeCorrect == Spec => []TypeOK
<1>1. Init => TypeOK
  BY PodsTyped, TimesAreNat DEF Init, TypeOK
<1> QED
  BY <1>1, TypeOKInductive, PTL DEF Spec

------------------------------------------------------------------------------
(* CloseSession *)

\* Nothing but a creation gives an id a pod, and nothing changes the label of one.
LEMMA LabelsStay ==
  ASSUME TypeOK, PodsLabelled, [Next]_vars
  PROVE  PodsLabelled'
<1> USE IdsTyped DEF cluster, records, creation, sweep
<1>1. ASSUME NEW i \in IDs, pods'[i].phase # "absent" PROVE pods'[i].label = LabelOf[i]
  <2>1. ASSUME NEW j \in IDs, DeletePod(j) PROVE pods'[i].label = LabelOf[i]
    BY <1>1, <2>1, DeletePodFacts DEF PodsLabelled
  <2>2. CASE UNCHANGED pods
    BY <1>1, <2>2 DEF PodsLabelled
  <2>3. ASSUME NEW j \in IDs, PodReady(j) \/ PodFails(j) \/ PodGone(j)
        PROVE  pods'[i].label = LabelOf[i]
    <3>1. CASE PodReady(j) \/ PodFails(j)
      <4>1. pods[i].phase # "absent"
        BY <1>1, <3>1, PhaseFacts DEF PodReady, PodFails
      <4> QED
        BY <3>1, <4>1, PhaseFacts DEF PodsLabelled
    <3>2. CASE PodGone(j)
      BY <1>1, <3>2 DEF PodGone, NoPod, PodsLabelled, TypeOK
    <3> QED
      BY <2>3, <3>1, <3>2
  <2>4. ASSUME NEW c \in Creators, CreatePod(c) PROVE pods'[i].label = LabelOf[i]
    BY <1>1, <2>4 DEF CreatePod, SessionPod, PodsLabelled, TypeOK
  <2>5. CASE Tick
    BY <1>1, <2>5, TickFacts DEF PodsLabelled
  <2> QED
    BY <2>1, <2>2, <2>3, <2>4, <2>5
       DEF Next, vars, CreateStep, CloseStep, JanitorCheck, JanitorSkip, JanitorDelete,
           WaitReady, WaitFails, SaveSession, UndoCreate, CloseCall, CloseGet,
           CloseDelete, CloseLookup, CloseRemove, Sweep, JanitorDeleteFails, Crash
<1>2. ASSUME NEW i \in IDs, listed'[i].phase # "absent" PROVE listed'[i].label = LabelOf[i]
  <2>1. listed'[i] \in {listed[i], pods[i], NoPod}
    BY DEF Next, vars, CreateStep, CloseStep, JanitorCheck, JanitorSkip, JanitorDelete,
           WaitReady, WaitFails, SaveSession, UndoCreate, CloseCall, CloseGet,
           CloseDelete, CloseLookup, CloseRemove, Sweep, JanitorDeleteFails, Crash,
           PodReady, PodFails, PodGone, CreatePod, Tick, TypeOK
  <2> QED
    BY <1>2, <2>1 DEF NoPod, PodsLabelled
<1> QED
  BY <1>1, <1>2 DEF PodsLabelled
\* Creations only start with CreatePod.
LEMMA ActiveShrinks ==
  ASSUME TypeOK, [Next]_vars, NEW c \in Active', c \notin Active
  PROVE  CreatePod(c) /\ pods[CreateIdOf[c]].phase = "absent"
<1> USE DEF cluster, records, creation, sweep, Active
<1>1. CASE \E d \in Creators : CreatePod(d)
  BY <1>1 DEF CreatePod, TypeOK
<1>2. CASE \E d \in Creators : CreateStep(d)
  BY <1>2 DEF CreateStep, WaitReady, WaitFails, SaveSession, UndoCreate, TypeOK
<1>3. CASE Crash
  BY <1>3 DEF Crash
<1> QED
  BY <1>1, <1>2, <1>3
     DEF Next, vars, PodReady, PodFails, PodGone, JanitorCheck, JanitorSkip,
         JanitorDelete, CloseStep, CloseCall, CloseGet, CloseDelete, CloseLookup,
         CloseRemove, Sweep, JanitorDeleteFails, Tick

\* Only store.Save prolongs the life of a record.
LEMMA RecordsExpire ==
  ASSUME TypeOK, [Next]_vars, NEW i \in IDs,
         \A c \in Creators : SaveSession(c) => CreateIdOf[c] # i
  PROVE  left'[i] <= left[i] /\ savedBy'[i] = savedBy[i]
<1> USE IdsTyped DEF cluster, records, creation, sweep
<1>1. CASE Tick
  BY <1>1, TickFacts DEF Tick
<1>2. ASSUME NEW c \in Creators, SaveSession(c)
      PROVE  left'[i] <= left[i] /\ savedBy'[i] = savedBy[i]
  <2>1. left'[i] = left[i] /\ savedBy'[i] = savedBy[i]
    BY <1>2 DEF SaveSession, TypeOK
  <2> QED
    BY <2>1, TimesAreNat DEF TypeOK
<1>3. ASSUME NEW q \in Closers, CloseDelete(q)
      PROVE  left'[i] <= left[i] /\ savedBy'[i] = savedBy[i]
  BY <1>3, TimesAreNat DEF CloseDelete, TypeOK
<1>4. CASE UNCHANGED <<left, savedBy>>
  BY <1>4, TimesAreNat DEF TypeOK
<1> QED
  BY <1>1, <1>2, <1>3, <1>4
     DEF Next, vars, PodReady, PodFails, PodGone, JanitorCheck, JanitorSkip,
         JanitorDelete, CreatePod, CreateStep, WaitReady, WaitFails, UndoCreate,
         CloseStep, CloseCall, CloseGet, CloseLookup, CloseRemove, Sweep,
         JanitorDeleteFails, Crash

\* A pod that is gone or going comes back only with a new creation.
LEMMA GoneStays ==
  ASSUME TypeOK, [Next]_vars, NEW i \in IDs, pods[i].phase = "absent" \/ pods[i].deleting,
         \A c \in Creators : CreatePod(c) => CreateIdOf[c] # i
  PROVE  pods'[i].phase = "absent" \/ pods'[i].deleting
<1> USE IdsTyped DEF cluster, records, creation, sweep
<1>1. ASSUME NEW j \in IDs, DeletePod(j) PROVE pods'[i].phase = "absent" \/ pods'[i].deleting
  <2>1. CASE i = j
    BY <1>1, <2>1, DeletePodFacts
  <2>2. CASE i # j
    BY <1>1, <2>2, DeletePodFacts
  <2> QED
    BY <2>1, <2>2
<1>2. ASSUME NEW j \in IDs, PodReady(j) \/ PodFails(j) \/ PodGone(j)
      PROVE  pods'[i].phase = "absent" \/ pods'[i].deleting
  <2>1. CASE PodGone(j)
    BY <2>1 DEF PodGone, NoPod, TypeOK
  <2>2. CASE ~PodGone(j)
    <3>1. pods[j].phase # "absent"
      BY <1>2, <2>2 DEF PodReady, PodFails
    <3> QED
      BY <1>2, <2>2, <3>1, PhaseFacts
  <2> QED
    BY <2>1, <2>2
<1>3. ASSUME NEW c \in Creators, CreatePod(c)
      PROVE  pods'[i].phase = "absent" \/ pods'[i].deleting
  BY <1>3 DEF CreatePod, TypeOK
<1>4. CASE Tick
  BY <1>4, TickFacts
<1> QED
  BY <1>1, <1>2, <1>3, <1>4
     DEF Next, vars, CreateStep, CloseStep, JanitorCheck, JanitorSkip, JanitorDelete,
         WaitReady, WaitFails, SaveSession, UndoCreate, CloseCall, CloseGet, CloseDelete,
         CloseLookup, CloseRemove, Sweep, JanitorDeleteFails, Crash

\* A close is clean until a creation of its id begins, and becomes clean only when it
\* is called with none under way.
LEMMA CleanFacts ==
  ASSUME TypeOK, [Next]_vars, NEW q \in clean'
  PROVE  /\ q \in Closers
         /\ \A c \in Creators : CreatePod(c) => CreateIdOf[c] # CloseIdOf[q]
         /\ q \in clean \/ (CloseCall(q) /\ NoCreation(CloseIdOf[q]))
<1> USE IdsTyped DEF cluster, records, creation, sweep
<1>1. CASE \E c \in Creators : CreatePod(c)
  <2>1. q \in clean
    BY <1>1 DEF CreatePod
  <2>2. \A c \in Creators : CreatePod(c) => CreateIdOf[c] # CloseIdOf[q]
    BY DEF CreatePod
  <2> QED
    BY <2>1, <2>2 DEF TypeOK
<1>2. CASE \E r \in Closers : CloseCall(r)
  <2>1. PICK r \in Closers : CloseCall(r)
    BY <1>2
  <2>2. ~(\E c \in Creators : CreatePod(c))
    BY <2>1 DEF CloseCall, CreatePod, TypeOK
  <2> QED
    BY <2>1, <2>2 DEF CloseCall, NoCreation, TypeOK
<1> QED
  BY <1>1, <1>2
     DEF Next, vars, PodReady, PodFails, PodGone, JanitorCheck, JanitorSkip,
         JanitorDelete, CreateStep, WaitReady, WaitFails, SaveSession, UndoCreate,
         CloseStep, CloseGet, CloseDelete, CloseLookup, CloseRemove, Sweep,
         JanitorDeleteFails, Tick, Crash, TypeOK
\* How the call of a close proceeds.
LEMMA CloserFacts ==
  ASSUME TypeOK, PodsLabelled, [Next]_vars, NEW q \in Closers
  PROVE  LET i == CloseIdOf[q]
         IN /\ closer[q] # "idle" => closer'[q] # "idle"
            /\ closer'[q] = "lookup" => closer[q] = "lookup" \/ (left[i] = 0 /\ left' = left)
            /\ closer'[q] = "remove" => \/ closer[q] \in {"lookup", "remove"}
                                        \/ left'[i] = 0
            /\ closer'[q] = "closed" =>
                 \/ closer[q] = "closed"
                 \/ /\ closer[q] \in {"lookup", "remove"}
                    /\ pods'[i].phase = "absent" \/ pods'[i].deleting
<1> USE IdsTyped DEF cluster, records, creation, sweep
<1>1. CASE closer' = closer
  BY <1>1
<1>2. ASSUME NEW r \in Closers, CloseCall(r) PROVE closer'[q] \in {closer[q], "get"}
  BY <1>2 DEF CloseCall, TypeOK
<1>3. ASSUME NEW r \in Closers, CloseGet(r)
      PROVE  \/ closer'[q] \in {closer[q], "delete", "failed"}
             \/ closer'[q] = "lookup" /\ left[CloseIdOf[q]] = 0 /\ left' = left
  BY <1>3 DEF CloseGet, AfterGet, TypeOK
<1>4. ASSUME NEW r \in Closers, CloseDelete(r)
      PROVE  \/ closer'[q] \in {closer[q], "failed"}
             \/ closer'[q] = "remove" /\ left'[CloseIdOf[q]] = 0
  BY <1>4 DEF CloseDelete, TypeOK
<1>5. ASSUME NEW r \in Closers, CloseLookup(r)
      PROVE  \/ closer'[q] \in {closer[q], "failed"}
             \/ closer[q] = "lookup" /\ closer'[q] = "remove"
             \/ /\ closer[q] = "lookup" /\ closer'[q] = "closed"
                /\ pods'[CloseIdOf[q]].phase = "absent"
  <2>1. pods' = pods
    BY <1>5 DEF CloseLookup
  <2> QED
    BY <1>5, <2>1 DEF CloseLookup, PodsLabelled, TypeOK
<1>6. ASSUME NEW r \in Closers, CloseRemove(r)
      PROVE  \/ closer'[q] \in {closer[q], "failed"}
             \/ /\ closer[q] = "remove" /\ closer'[q] = "closed"
                /\ pods'[CloseIdOf[q]].phase = "absent" \/ pods'[CloseIdOf[q]].deleting
  BY <1>6, DeletePodFacts DEF CloseRemove, TypeOK
<1>7. CASE Crash
  <2>1. closer'[q] \in {closer[q], "crashed"}
    BY <1>7 DEF Crash, TypeOK
  <2> QED
    BY <2>1
<1>8. CASE \E r \in Closers : CloseCall(r) \/ CloseStep(r)
  BY <1>2, <1>3, <1>4, <1>5, <1>6, <1>8 DEF CloseStep
<1> QED
  BY <1>1, <1>7, <1>8
     DEF Next, vars, PodReady, PodFails, PodGone, JanitorCheck, JanitorSkip,
         JanitorDelete, CreatePod, CreateStep, WaitReady, WaitFails, SaveSession,
         UndoCreate, Sweep, JanitorDeleteFails, Tick

\* Every step keeps what is known of a clean close.
LEMMA CleanClosesKept ==
  ASSUME TypeOK, TypeOK', CloseInv, [Next]_vars
  PROVE  CleanCloses'
<1> SUFFICES ASSUME NEW q \in clean'
             PROVE  /\ closer'[q] # "idle" /\ NoCreation(CloseIdOf[q])'
                    /\ closer'[q] \in {"lookup", "remove", "closed"} =>
                         left'[CloseIdOf[q]] = 0
                    /\ closer'[q] = "closed" => \/ pods'[CloseIdOf[q]].phase = "absent"
                                                \/ pods'[CloseIdOf[q]].deleting
  BY DEF CleanCloses
<1> DEFINE i == CloseIdOf[q]
<1>0. q \in Closers /\ i \in IDs /\ PodsLabelled
  BY CleanFacts, IdsTyped DEF CloseInv
<1>1. NoCreation(i)
  BY CleanFacts DEF CloseInv, CleanCloses
<1>2. NoCreation(i)'
  <2> SUFFICES ASSUME NEW c \in Active', CreateIdOf[c] = i PROVE FALSE
    BY DEF NoCreation
  <2>1. CreatePod(c) /\ c \in Creators
    BY <1>1, ActiveShrinks DEF NoCreation, Active
  <2> QED
    BY <2>1, CleanFacts
<1>3. left'[i] <= left[i] /\ left[i] \in Nat /\ left'[i] \in Nat
  <2>1. \A c \in Creators : SaveSession(c) => CreateIdOf[c] # i
    BY <1>1 DEF SaveSession, NoCreation, Active
  <2> HIDE DEF i
  <2> QED
    BY <1>0, <2>1, RecordsExpire, TimesAreNat DEF TypeOK
<1>4. CASE q \in clean
  <2> HIDE DEF i
  <2>1. /\ closer[q] # "idle"
        /\ closer[q] \in {"lookup", "remove", "closed"} => left[i] = 0
        /\ closer[q] = "closed" => pods[i].phase = "absent" \/ pods[i].deleting
    BY <1>4 DEF CloseInv, CleanCloses, i
  <2>2. /\ closer'[q] # "idle"
        /\ closer'[q] = "lookup" => closer[q] = "lookup" \/ (left[i] = 0 /\ left' = left)
        /\ closer'[q] = "remove" => closer[q] \in {"lookup", "remove"} \/ left'[i] = 0
        /\ closer'[q] = "closed" =>
             \/ closer[q] = "closed"
             \/ /\ closer[q] \in {"lookup", "remove"}
                /\ pods'[i].phase = "absent" \/ pods'[i].deleting
    BY <1>0, <2>1, CloserFacts DEF i
  <2>3. closer'[q] \in {"lookup", "remove", "closed"} => left'[i] = 0
    BY <1>3, <2>1, <2>2
  <2>4. closer'[q] = "closed" => pods'[i].phase = "absent" \/ pods'[i].deleting
    <3>1. \A c \in Creators : CreatePod(c) => CreateIdOf[c] # i
      BY CleanFacts DEF i
    <3> QED
      BY <1>0, <2>1, <2>2, <3>1, GoneStays DEF i
  <2> QED
    BY <1>2, <2>2, <2>3, <2>4 DEF i
<1>5. CASE CloseCall(q)
  <2>1. closer'[q] = "get"
    BY <1>0, <1>5 DEF CloseCall, TypeOK
  <2> QED
    BY <1>2, <2>1
<1> QED
  BY <1>4, <1>5, CleanFacts

\* CloseSession: a close that reports success with no creation of the id beside it
\* leaves neither record nor running pod, whichever of its own or of an earlier close's
\* steps failed, whatever the janitor does meanwhile and wherever the process dies.
THEOREM CloseHolds == Spec => []CloseIsFinal
<1>1. Init => CloseInv
  BY DEF Init, CloseInv, PodsLabelled, CleanCloses, NoPod
<1>2. TypeOK /\ TypeOK' /\ CloseInv /\ [Next]_vars => CloseInv'
  BY LabelsStay, CleanClosesKept DEF CloseInv
<1>3. CloseInv => CloseIsFinal
  BY DEF CloseInv, CleanCloses, CloseIsFinal
<1> QED
  BY <1>1, <1>2, <1>3, SessionsTypeCorrect, PTL DEF Spec
------------------------------------------------------------------------------
(* CreateSession and the janitor *)

\* An id that is quiet after a step was quiet before it.
LEMMA QuietBefore ==
  ASSUME TypeOK, [Next]_vars, NEW i \in IDs, Quiet(i)'
  PROVE  /\ Quiet(i)
         /\ ~PodFails(i)
         /\ \A q \in Closers : CloseIdOf[q] = i => ~CloseRemove(q)
<1> USE DEF cluster, records, creation, sweep
<1>1. broke \subseteq broke'
  BY DEF Next, vars, PodReady, PodFails, PodGone, JanitorCheck, JanitorSkip,
         JanitorDelete, CreatePod, CreateStep, WaitReady, WaitFails, SaveSession,
         UndoCreate, CloseStep, CloseCall, CloseGet, CloseDelete, CloseLookup,
         CloseRemove, Sweep, JanitorDeleteFails, Tick, Crash
<1>2. ASSUME NEW q \in Closers, CloseIdOf[q] = i PROVE closer[q] = "idle"
  <2>1. closer'[q] = "idle"
    BY <1>2 DEF Quiet
  <2>2. CASE closer' = closer
    BY <2>1, <2>2
  <2>3. ASSUME NEW r \in Closers, CloseCall(r) \/ CloseStep(r) PROVE closer[q] = "idle"
    BY <2>1, <2>3 DEF CloseCall, CloseStep, CloseGet, AfterGet, CloseDelete, CloseLookup,
                      CloseRemove, TypeOK
  <2>4. CASE Crash
    BY <2>1, <2>4 DEF Crash
  <2> QED
    BY <2>2, <2>3, <2>4
       DEF Next, vars, PodReady, PodFails, PodGone, JanitorCheck, JanitorSkip,
           JanitorDelete, CreatePod, CreateStep, WaitReady, WaitFails, SaveSession,
           UndoCreate, Sweep, JanitorDeleteFails, Tick
<1>3. ASSUME NEW c \in Creators, clock'[c] < Grace PROVE clock[c] < Grace
  <2>1. clock[c] \in Nat /\ clock'[c] \in {clock[c], clock[c] + 1}
    BY TimesAreNat
       DEF TypeOK, Next, vars, PodReady, PodFails, PodGone, JanitorCheck, JanitorSkip,
           JanitorDelete, CreatePod, CreateStep, WaitReady, WaitFails, SaveSession,
           UndoCreate, CloseStep, CloseCall, CloseGet, CloseDelete, CloseLookup,
           CloseRemove, Sweep, JanitorDeleteFails, Tick, Crash
  <2> QED
    BY <1>3, <2>1, TimesAreNat
<1>4. Quiet(i)
  BY <1>1, <1>2, <1>3 DEF Quiet, Judged
<1> QED
  BY <1>2, <1>4 DEF Quiet, PodFails, CloseRemove

\* The pod of a quiet id stands until a creation undoes it or the janitor takes it.
LEMMA StandingStays ==
  ASSUME TypeOK, [Next]_vars, NEW i \in IDs, Quiet(i)', Standing(i), ~JanitorDelete(i),
         \A c \in Creators : UndoCreate(c) => CreateIdOf[c] # i
  PROVE  /\ Standing(i)'
         /\ pods[i].phase = "ready" => pods'[i].phase = "ready"
         /\ pods'[i].age = pods[i].age \/ (Tick /\ pods'[i].age = pods[i].age + 1)
<1> DEFINE Stands == /\ pods'[i].phase \in {pods[i].phase, "ready"}
                     /\ pods'[i].deleting = pods[i].deleting
                     /\ \/ pods'[i].age = pods[i].age
                        \/ Tick /\ pods'[i].age = pods[i].age + 1
<1> USE IdsTyped DEF cluster, records, creation, sweep
<1>1. ASSUME pods'[i] = pods[i] PROVE Stands
  BY <1>1
<1>2. ASSUME NEW j \in IDs, DeletePod(j), j # i PROVE Stands
  BY <1>1, <1>2, DeletePodFacts
<1>3. ASSUME NEW j \in IDs, PodReady(j) \/ PodFails(j) PROVE Stands
  <2>1. CASE j = i
    BY <1>3, <2>1, QuietBefore, PhaseFacts
  <2>2. CASE j # i
    BY <1>1, <1>3, <2>2, PhaseFacts
  <2> QED
    BY <2>1, <2>2
<1>4. ASSUME NEW j \in IDs, PodGone(j) PROVE Stands
  BY <1>1, <1>4 DEF PodGone, Standing, TypeOK
<1>5. ASSUME NEW j \in IDs, JanitorDelete(j) PROVE Stands
  BY <1>2, <1>5 DEF JanitorDelete
<1>6. ASSUME NEW c \in Creators, CreatePod(c) PROVE Stands
  BY <1>1, <1>6 DEF CreatePod, Standing, TypeOK
<1>7. ASSUME NEW c \in Creators, UndoCreate(c) PROVE Stands
  BY <1>1, <1>2, <1>7 DEF UndoCreate
<1>8. ASSUME NEW q \in Closers, CloseRemove(q) PROVE Stands
  BY <1>1, <1>2, <1>8, QuietBefore DEF CloseRemove
<1>9. ASSUME Tick PROVE Stands
  BY <1>9, TickFacts DEF Standing
<1>10. Stands
  <2>1. CASE UNCHANGED pods
    BY <1>1, <2>1
  <2> HIDE DEF Stands
  <2> QED
    BY <2>1, <1>3, <1>4, <1>5, <1>6, <1>7, <1>8, <1>9
       DEF Next, vars, CreateStep, CloseStep, JanitorCheck, JanitorSkip, WaitReady,
           WaitFails, SaveSession, CloseCall, CloseGet, CloseDelete, CloseLookup, Sweep,
           JanitorDeleteFails, Crash
<1> QED
  BY <1>10 DEF Standing

\* No creation begins while the pod of the id stands.
LEMMA NoCreationStays ==
  ASSUME TypeOK, [Next]_vars, NEW i \in IDs, NoCreation(i), Standing(i)
  PROVE  NoCreation(i)'
<1> SUFFICES ASSUME NEW c \in Active', CreateIdOf[c] = i PROVE FALSE
  BY DEF NoCreation
<1>1. c \notin Active
  BY DEF NoCreation
<1>2. pods[i].phase = "absent"
  BY <1>1, ActiveShrinks
<1> QED
  BY <1>2 DEF Standing

\* A session becomes live by being saved.
LEMMA LiveBegins ==
  ASSUME TypeOK, TypeOK', [Next]_vars, NEW c \in Creators, creator'[c] = "created",
         savedBy'[CreateIdOf[c]] = {c}, left'[CreateIdOf[c]] > 0,
         ~(creator[c] = "created" /\ savedBy[CreateIdOf[c]] = {c} /\ left[CreateIdOf[c]] > 0)
  PROVE  SaveSession(c)
<1> DEFINE i == CreateIdOf[c]
<1> USE IdsTyped DEF cluster, records, creation, sweep
<1>1. CASE creator[c] # "created"
  <2>1. CASE creator' = creator
    BY <1>1, <2>1
  <2>2. CASE Crash
    BY <1>1, <2>2 DEF Crash
  <2>3. ASSUME NEW d \in Creators, CreatePod(d) \/ CreateStep(d) PROVE SaveSession(c)
    BY <1>1, <2>3 DEF CreatePod, CreateStep, WaitReady, WaitFails, SaveSession,
                      UndoCreate, TypeOK
  <2> QED
    BY <2>1, <2>2, <2>3
       DEF Next, vars, PodReady, PodFails, PodGone, JanitorCheck, JanitorSkip,
           JanitorDelete, CloseStep, CloseCall, CloseGet, CloseDelete, CloseLookup,
           CloseRemove, Sweep, JanitorDeleteFails, Tick
<1>2. CASE creator[c] = "created" /\ ~(\E d \in Creators : SaveSession(d) /\ CreateIdOf[d] = i)
  <2>1. left'[i] <= left[i] /\ savedBy'[i] = savedBy[i]
    BY <1>2, RecordsExpire
  <2> QED
    BY <1>2, <2>1, TimesAreNat DEF TypeOK
<1>3. ASSUME creator[c] = "created", NEW d \in Creators, SaveSession(d), CreateIdOf[d] = i
      PROVE  FALSE
  <2>1. d # c
    BY <1>3 DEF SaveSession
  <2>2. CASE savedBy' = [savedBy EXCEPT ![CreateIdOf[d]] = {d}]
    BY <1>3, <2>1, <2>2 DEF TypeOK
  <2>3. CASE UNCHANGED <<left, savedBy>>
    BY <1>3, <2>3
  <2> QED
    BY <1>3, <2>2, <2>3 DEF SaveSession
<1> QED
  BY <1>1, <1>2, <1>3
\* Failures stay noted.
LEMMA FailuresStayNoted ==
  ASSUME TypeOK, FailuresNoted, [Next]_vars
  PROVE  FailuresNoted'
<1> USE IdsTyped DEF cluster, records, creation, sweep
<1> SUFFICES ASSUME NEW i \in IDs, i \notin broke'
             PROVE  pods'[i].phase # "failed" /\ listed'[i].phase # "failed"
  BY DEF FailuresNoted
<1>1. i \notin broke /\ ~PodFails(i)
  BY DEF Next, vars, PodReady, PodFails, PodGone, JanitorCheck, JanitorSkip,
         JanitorDelete, CreatePod, CreateStep, WaitReady, WaitFails, SaveSession,
         UndoCreate, CloseStep, CloseCall, CloseGet, CloseDelete, CloseLookup,
         CloseRemove, Sweep, JanitorDeleteFails, Tick, Crash
<1>2. pods[i].phase # "failed" /\ listed[i].phase # "failed"
  BY <1>1 DEF FailuresNoted
<1>3. listed'[i].phase # "failed"
  <2>1. listed'[i] \in {listed[i], pods[i], NoPod}
    BY DEF Next, vars, CreateStep, CloseStep, JanitorCheck, JanitorSkip, JanitorDelete,
           WaitReady, WaitFails, SaveSession, UndoCreate, CloseCall, CloseGet,
           CloseDelete, CloseLookup, CloseRemove, Sweep, JanitorDeleteFails, Crash,
           PodReady, PodFails, PodGone, CreatePod, Tick, TypeOK
  <2> QED
    BY <1>2, <2>1 DEF NoPod
<1>4. pods'[i].phase # "failed"
  <2>1. ASSUME NEW j \in IDs, DeletePod(j) PROVE pods'[i].phase # "failed"
    BY <1>2, <2>1, DeletePodFacts
  <2>2. CASE UNCHANGED pods
    BY <1>2, <2>2
  <2>3. ASSUME NEW j \in IDs, PodReady(j) \/ PodFails(j) PROVE pods'[i].phase # "failed"
    BY <1>1, <1>2, <2>3, PhaseFacts
  <2>4. ASSUME NEW j \in IDs, PodGone(j) PROVE pods'[i].phase # "failed"
    BY <1>2, <2>4 DEF PodGone, NoPod, TypeOK
  <2>5. ASSUME NEW c \in Creators, CreatePod(c) PROVE pods'[i].phase # "failed"
    BY <1>2, <2>5 DEF CreatePod, SessionPod, TypeOK
  <2>6. CASE Tick
    BY <1>2, <2>6, TickFacts
  <2> QED
    BY <2>1, <2>2, <2>3, <2>4, <2>5, <2>6
       DEF Next, vars, CreateStep, CloseStep, JanitorCheck, JanitorSkip, JanitorDelete,
           WaitReady, WaitFails, SaveSession, UndoCreate, CloseCall, CloseGet,
           CloseDelete, CloseLookup, CloseRemove, Sweep, JanitorDeleteFails, Crash
<1> QED
  BY <1>3, <1>4

\* An id without a creation under way keeps its standing pod, except from the janitor.
LEMMA UnusedStandingStays ==
  ASSUME TypeOK, [Next]_vars, NEW i \in IDs, Quiet(i)', Standing(i), NoCreation(i),
         ~JanitorDelete(i)
  PROVE  /\ Standing(i)' /\ NoCreation(i)'
         /\ pods[i].phase = "ready" => pods'[i].phase = "ready"
         /\ left'[i] <= left[i]
<1>1. \A c \in Creators : UndoCreate(c) \/ SaveSession(c) => CreateIdOf[c] # i
  BY DEF NoCreation, Active, UndoCreate, SaveSession
<1> QED
  BY <1>1, StandingStays, NoCreationStays, RecordsExpire

\* The janitor's list: what it finds old enough has no creation under way.
LEMMA OldListedKept ==
  ASSUME TypeOK, LiveInv, [Next]_vars
  PROVE  OldListedStands'
<1> USE DEF cluster, records, creation, sweep
<1> SUFFICES ASSUME NEW i \in IDs, Quiet(i)', listed'[i].phase # "absent",
                    listed'[i].age >= Grace
             PROVE  Standing(i)' /\ NoCreation(i)'
  BY DEF OldListedStands
<1>1. Quiet(i) /\ ~PodFails(i)
  BY QuietBefore
<1>2. CASE listed'[i] = listed[i]
  <2>1. Standing(i) /\ NoCreation(i)
    BY <1>1, <1>2 DEF LiveInv, OldListedStands
  <2>2. ~JanitorDelete(i)
    BY <1>2 DEF LiveInv, VictimIsOrphan, JanitorDelete
  <2> QED
    BY <2>1, <2>2, UnusedStandingStays
<1>3. CASE Sweep /\ listed'[i] = pods[i] /\ ~pods[i].deleting
  <2>1. Standing(i)
    BY <1>1, <1>3 DEF LiveInv, FailuresNoted, Quiet, Standing, TypeOK, Pod, Phases
  <2>2. NoCreation(i)
    <3> SUFFICES ASSUME NEW c \in Active, CreateIdOf[c] = i PROVE FALSE
      BY DEF NoCreation
    <3>1. pods[i].age <= clock[c]
      BY <1>1 DEF LiveInv, CreationHasPod
    <3>2. clock[c] \in Nat /\ clock[c] < Grace /\ pods[i].age \in Nat
      BY <1>1, TimesAreNat DEF Active, TypeOK, Pod, Quiet, Judged
    <3> QED
      BY <1>3, <3>1, <3>2, TimesAreNat
  <2>3. ~JanitorDelete(i)
    BY <1>3 DEF Sweep, JanitorDelete
  <2> QED
    BY <2>1, <2>2, <2>3, UnusedStandingStays
<1>4. \/ listed'[i] \in {listed[i], NoPod}
      \/ Sweep /\ listed'[i] = pods[i] /\ ~pods[i].deleting
  BY DEF Next, vars, CreateStep, CloseStep, JanitorCheck, JanitorSkip, JanitorDelete,
         WaitReady, WaitFails, SaveSession, UndoCreate, CloseCall, CloseGet,
         CloseDelete, CloseLookup, CloseRemove, Sweep, JanitorDeleteFails, Crash,
         PodReady, PodFails, PodGone, CreatePod, Tick, TypeOK
<1> QED
  BY <1>2, <1>3, <1>4 DEF NoPod
\* The janitor's decision: only an orphan becomes a victim, and it stays one.
LEMMA VictimKept ==
  ASSUME TypeOK, TypeOK', LiveInv, [Next]_vars
  PROVE  VictimIsOrphan'
<1> USE DEF cluster, records, creation, sweep
<1> SUFFICES ASSUME NEW i \in victim'
             PROVE  /\ listed'[i].phase = "absent"
                    /\ Quiet(i)' => Standing(i)' /\ NoCreation(i)' /\ left'[i] = 0
  BY DEF VictimIsOrphan
<1>0. i \in IDs
  BY DEF TypeOK
<1>1. CASE i \in victim
  <2>1. listed[i].phase = "absent" /\ (Quiet(i) => Standing(i) /\ NoCreation(i) /\ left[i] = 0)
    BY <1>1 DEF LiveInv, VictimIsOrphan
  <2>2. ~JanitorDelete(i)
    BY DEF JanitorDelete
  <2>3. listed'[i] \in {listed[i], NoPod}
    BY <1>0, <1>1
       DEF Next, vars, CreateStep, CloseStep, JanitorCheck, JanitorSkip, JanitorDelete,
           WaitReady, WaitFails, SaveSession, UndoCreate, CloseCall, CloseGet,
           CloseDelete, CloseLookup, CloseRemove, Sweep, JanitorDeleteFails, Crash,
           PodReady, PodFails, PodGone, CreatePod, Tick, TypeOK
  <2>4. ASSUME Quiet(i)' PROVE Standing(i)' /\ NoCreation(i)' /\ left'[i] = 0
    <3>1. Standing(i) /\ NoCreation(i) /\ left[i] = 0
      BY <1>0, <2>1, <2>4, QuietBefore
    <3>2. Standing(i)' /\ NoCreation(i)' /\ left'[i] <= left[i]
      BY <1>0, <2>2, <2>4, <3>1, UnusedStandingStays
    <3> QED
      BY <1>0, <3>1, <3>2, TimesAreNat DEF TypeOK
  <2> QED
    BY <2>1, <2>3, <2>4 DEF NoPod
<1>2. CASE i \notin victim
  <2>1. JanitorCheck(i) /\ ResolveDelete(listed[i])
    BY <1>0, <1>2
       DEF Next, vars, CreateStep, CloseStep, JanitorCheck, JanitorSkip, JanitorDelete,
           WaitReady, WaitFails, SaveSession, UndoCreate, CloseCall, CloseGet,
           CloseDelete, CloseLookup, CloseRemove, Sweep, JanitorDeleteFails, Crash,
           PodReady, PodFails, PodGone, CreatePod, Tick
  <2>2. listed'[i].phase = "absent"
    BY <1>0, <2>1 DEF JanitorCheck, NoPod, TypeOK
  <2>3. ASSUME Quiet(i)' PROVE Standing(i)' /\ NoCreation(i)' /\ left'[i] = 0
    <3>1. Quiet(i) /\ listed[i].phase # "failed" /\ listed[i].label = i
      BY <1>0, <2>1, <2>3, QuietBefore
         DEF LiveInv, FailuresNoted, PodsLabelled, Quiet, Judged, JanitorCheck
    <3>2. left[i] = 0 /\ listed[i].age >= Grace
      BY <1>0, <2>1, <3>1, TimesAreNat DEF ResolveDelete, SessionFound, TypeOK
    <3>3. Standing(i) /\ NoCreation(i)
      BY <1>0, <2>1, <3>1, <3>2 DEF LiveInv, OldListedStands, JanitorCheck
    <3>4. UNCHANGED <<pods, left, creator>>
      BY <2>1 DEF JanitorCheck
    <3> QED
      BY <3>2, <3>3, <3>4 DEF Standing, NoCreation, Active
  <2> QED
    BY <2>2, <2>3
<1> QED
  BY <1>1, <1>2

\* A creation keeps its pod until it ends, and no other begins beside it.
LEMMA CreationKept ==
  ASSUME TypeOK, TypeOK', LiveInv, [Next]_vars
  PROVE  CreationHasPod'
<1> USE IdsTyped DEF cluster, records, creation, sweep
<1> SUFFICES ASSUME NEW c \in Active', Quiet(CreateIdOf[c])'
             PROVE  /\ Standing(CreateIdOf[c])' /\ pods'[CreateIdOf[c]].age <= clock'[c]
                    /\ creator'[c] = "save" => pods'[CreateIdOf[c]].phase = "ready"
                    /\ \A d \in Active' : CreateIdOf[d] = CreateIdOf[c] => d = c
  BY DEF CreationHasPod
<1>0. c \in Creators /\ CreateIdOf[c] \in IDs
  BY DEF Active
<1> DEFINE i == CreateIdOf[c]
<1>1. Quiet(i)
  BY <1>0, QuietBefore
<1>2. CASE c \in Active
  <2>1. /\ Standing(i) /\ pods[i].age <= clock[c]
        /\ creator[c] = "save" => pods[i].phase = "ready"
        /\ \A d \in Active : CreateIdOf[d] = i => d = c
    BY <1>1, <1>2 DEF LiveInv, CreationHasPod
  <2>2. ~JanitorDelete(i)
    BY <1>1, <1>2 DEF JanitorDelete, LiveInv, VictimIsOrphan, NoCreation
  <2>3. ASSUME NEW d \in Creators, UndoCreate(d) PROVE CreateIdOf[d] # i
    <3>1. d \in Active /\ d # c
      BY <1>0, <2>3 DEF UndoCreate, Active, TypeOK
    <3> QED
      BY <2>1, <3>1
  <2> HIDE DEF i
  <2>4. /\ Standing(i)'
        /\ pods[i].phase = "ready" => pods'[i].phase = "ready"
        /\ pods'[i].age = pods[i].age \/ (Tick /\ pods'[i].age = pods[i].age + 1)
    BY <1>0, <2>1, <2>2, <2>3, StandingStays DEF i
  <2>5. clock'[c] = IF Tick THEN clock[c] + 1 ELSE clock[c]
    <3>1. CASE Tick
      BY <1>0, <1>2, <3>1 DEF Tick
    <3>2. CASE ~Tick
      BY <3>2
         DEF Next, vars, CreateStep, CloseStep, JanitorCheck, JanitorSkip, JanitorDelete,
             WaitReady, WaitFails, SaveSession, UndoCreate, CloseCall, CloseGet,
             CloseDelete, CloseLookup, CloseRemove, Sweep, JanitorDeleteFails, Crash,
             PodReady, PodFails, PodGone, CreatePod
    <3> QED
      BY <3>1, <3>2
  <2>6. pods'[i].age <= clock'[c]
    <3>1. clock[c] \in Nat /\ pods[i].age \in Nat
      BY <1>0, TimesAreNat DEF TypeOK, Pod, i
    <3> QED
      BY <2>1, <2>4, <2>5, <3>1
  <2>7. creator'[c] = "save" => pods'[i].phase = "ready"
    <3> SUFFICES ASSUME creator'[c] = "save", creator[c] # "save" PROVE pods'[i].phase = "ready"
      BY <2>1, <2>4
    <3>1. WaitReady(c)
      BY <1>0
         DEF Next, vars, CreateStep, CloseStep, JanitorCheck, JanitorSkip, JanitorDelete,
             WaitReady, WaitFails, SaveSession, UndoCreate, CloseCall, CloseGet,
             CloseDelete, CloseLookup, CloseRemove, Sweep, JanitorDeleteFails, Crash,
             PodReady, PodFails, PodGone, CreatePod, Tick, TypeOK
    <3> QED
      BY <3>1 DEF WaitReady, i
  <2>8. ASSUME NEW d \in Active', CreateIdOf[d] = i PROVE d = c
    <3>1. CASE d \in Active
      BY <2>1, <2>8, <3>1
    <3>2. CASE d \notin Active
      BY <2>1, <2>8, <3>2, ActiveShrinks DEF Standing
    <3> QED
      BY <3>1, <3>2
  <2> QED
    BY <2>4, <2>6, <2>7, <2>8 DEF i
<1>3. CASE c \notin Active
  <2>1. CreatePod(c) /\ pods[i].phase = "absent"
    BY <1>3, ActiveShrinks
  <2>2. creator' = [creator EXCEPT ![c] = "wait"] /\ pods'[i] = SessionPod(i)
    BY <1>0, <2>1 DEF CreatePod, Active, TypeOK
  <2>3. /\ Standing(i)' /\ pods'[i].age = 0 /\ creator'[c] = "wait"
    BY <1>0, <2>2 DEF SessionPod, Standing, TypeOK
  <2>4. 0 <= clock'[c]
    BY <1>0, TimesAreNat DEF TypeOK
  <2>5. ASSUME NEW d \in Active', CreateIdOf[d] = i, d # c PROVE FALSE
    <3>1. d \in Active
      BY <2>2, <2>5 DEF Active, TypeOK
    <3>2. Standing(i)
      BY <1>1, <2>5, <3>1 DEF LiveInv, CreationHasPod
    <3> QED
      BY <2>1, <3>2 DEF Standing
  <2> QED
    BY <2>3, <2>4, <2>5
<1> QED
  BY <1>2, <1>3

\* A live session keeps its pod.
LEMMA LiveKept ==
  ASSUME TypeOK, TypeOK', LiveInv, [Next]_vars
  PROVE  LiveStands'
<1> USE IdsTyped DEF cluster, records, creation, sweep
<1> SUFFICES ASSUME NEW c \in Creators, Quiet(CreateIdOf[c])', creator'[c] = "created",
                    savedBy'[CreateIdOf[c]] = {c}, left'[CreateIdOf[c]] > 0
             PROVE  /\ pods'[CreateIdOf[c]].phase = "ready"
                    /\ ~pods'[CreateIdOf[c]].deleting /\ NoCreation(CreateIdOf[c])'
  BY DEF LiveStands
<1> DEFINE i == CreateIdOf[c]
<1>0. i \in IDs /\ Quiet(i)
  BY QuietBefore
<1>1. CASE creator[c] = "created" /\ savedBy[i] = {c} /\ left[i] > 0
  <2>1. pods[i].phase = "ready" /\ Standing(i) /\ NoCreation(i)
    BY <1>0, <1>1 DEF LiveInv, LiveStands, Standing
  <2>2. ~JanitorDelete(i)
    <3>1. i \in victim => left[i] = 0
      BY <1>0 DEF LiveInv, VictimIsOrphan
    <3> QED
      BY <1>0, <1>1, <3>1, TimesAreNat DEF JanitorDelete, TypeOK
  <2> QED
    BY <1>0, <2>1, <2>2, UnusedStandingStays DEF Standing
<1>2. CASE ~(creator[c] = "created" /\ savedBy[i] = {c} /\ left[i] > 0)
  <2>1. SaveSession(c)
    BY <1>2, LiveBegins
  <2>2. pods' = pods /\ creator' = [creator EXCEPT ![c] = "created"] /\ creator[c] = "save"
    BY <2>1 DEF SaveSession, TypeOK
  <2>3. c \in Active
    BY <2>2 DEF Active
  <2>4. /\ pods[i].phase = "ready" /\ Standing(i)
        /\ \A d \in Active : CreateIdOf[d] = i => d = c
    BY <1>0, <2>2, <2>3 DEF LiveInv, CreationHasPod
  <2>5. NoCreation(i)'
    BY <2>2, <2>4 DEF NoCreation, Active, TypeOK
  <2> QED
    BY <2>2, <2>4, <2>5 DEF Standing
<1> QED
  BY <1>1, <1>2

\* CreateSession and the janitor, for every grace period, readiness timeout and labelling:
\* a session that was answered as created, is not expired, was not asked to be closed and
\* whose pod did not fail has its pod - against every sweep, stale list, late delete by
\* name, failed creation of the same id and crash - when its label is its id and each
\* creation of the id took less than the grace period.
THEOREM LiveSessionsKeepPods == Spec => []LiveHasPod
<1>1. Init => LiveInv
  BY DEF Init, LiveInv, PodsLabelled, FailuresNoted, CreationHasPod, OldListedStands,
         VictimIsOrphan, LiveStands, NoPod, Active
<1>2. TypeOK /\ TypeOK' /\ LiveInv /\ [Next]_vars => LiveInv'
  <2> SUFFICES ASSUME TypeOK, TypeOK', LiveInv, [Next]_vars PROVE LiveInv'
    OBVIOUS
  <2>1. PodsLabelled' /\ FailuresNoted'
    BY LabelsStay, FailuresStayNoted DEF LiveInv
  <2>2. OldListedStands' /\ VictimIsOrphan' /\ CreationHasPod' /\ LiveStands'
    BY OldListedKept, VictimKept, CreationKept, LiveKept
  <2> QED
    BY <2>1, <2>2 DEF LiveInv
<1>3. LiveInv => LiveHasPod
  BY DEF LiveInv, LiveStands, LiveHasPod, Quiet
<1> QED
  BY <1>1, <1>2, <1>3, SessionsTypeCorrect, PTL DEF Spec
================================================================================
