----------------------------- MODULE OutboxProofs -----------------------------
(* Theorems about Outbox, for any events, batch size and number of halts and   *)
(* forgettings.  The delivery theorems are about one relay on one list.        *)
EXTENDS Outbox, SequenceTheorems, TLAPS

------------------------------------------------------------------------------
(* Sequences *)

\* LRANGE 0 batchSize-1 of a list that is not empty: a non-empty head of it.
LEMMA DrainBatchIsHead ==
  ASSUME TypeOK, list # <<>>
  PROVE  /\ DrainBatch \in Seq(Events)
         /\ Len(DrainBatch) \in 1 .. Len(list)
         /\ \A i \in 1 .. Len(DrainBatch) : DrainBatch[i] = list[i]
<1> DEFINE n == Min2(BatchSize, Len(list))
<1>1. list \in Seq(Events) /\ Len(list) \in Nat \ {0}
  BY EmptySeq DEF TypeOK
<1>2. n \in 1 .. Len(list)
  BY <1>1, BatchSizePositive DEF Min2
<1>3. \A i \in 1 .. n : list[i] \in Events
  BY <1>1, <1>2, ElementOfSeq
<1> HIDE DEF n
<1>4. /\ SubSeq(list, 1, n) \in Seq(Events)
      /\ Len(SubSeq(list, 1, n)) = n
      /\ \A i \in 1 .. n : SubSeq(list, 1, n)[i] = list[i]
  BY <1>2, <1>3, SubSeqProperties
<1> QED
  BY <1>2, <1>4 DEF DrainBatch, n

\* LTRIM n -1 of a list that has at least n events drops exactly its first n.
LEMMA TrimmedIsTail ==
  ASSUME TypeOK, NEW n \in 0 .. Len(list)
  PROVE  /\ Trimmed(n) \in Seq(Events)
         /\ Len(Trimmed(n)) = Len(list) - n
         /\ \A i \in 1 .. Len(list) - n : Trimmed(n)[i] = list[n + i]
<1>1. list \in Seq(Events) /\ Len(list) \in Nat
  BY LenProperties DEF TypeOK
<1>2. \A i \in n + 1 .. Len(list) : list[i] \in Events
  BY <1>1, ElementOfSeq
<1>3. /\ SubSeq(list, n + 1, Len(list)) \in Seq(Events)
      /\ Len(SubSeq(list, n + 1, Len(list))) =
           IF n + 1 <= Len(list) THEN Len(list) - (n + 1) + 1 ELSE 0
      /\ \A i \in 1 .. Len(list) - (n + 1) + 1 :
           SubSeq(list, n + 1, Len(list))[i] = list[(n + 1) + i - 1]
  BY <1>1, <1>2, SubSeqProperties
<1> QED
  BY <1>1, <1>3 DEF Trimmed

\* Whatever n is, a trimmed list is a list.
LEMMA TrimmedTyped ==
  ASSUME TypeOK, NEW n \in Nat
  PROVE  Trimmed(n) \in Seq(Events)
<1>1. list \in Seq(Events) /\ Len(list) \in Nat
  BY LenProperties DEF TypeOK
<1>2. \A i \in n + 1 .. Len(list) : list[i] \in Events
  BY <1>1, ElementOfSeq
<1> QED
  BY <1>1, <1>2, SubSeqProperties DEF Trimmed

------------------------------------------------------------------------------
(* Type correctness *)

\* JetStream keeps its types for an event of the system.
LEMMA StoreTyped ==
  ASSUME TypeOK, NEW e \in Events, JetStreamStore(e)
  PROVE  /\ stream' \in Seq(Events)
         /\ copies' \in [Events -> Nat]
         /\ window' \subseteq Events
<1>1. Append(stream, e) \in Seq(Events)
  BY AppendProperties DEF TypeOK
<1>2. stream' = stream \/ stream' = Append(stream, e)
  BY DEF JetStreamStore, streamVars
<1>3. /\ copies' = copies \/ copies' = [copies EXCEPT ![e] = @ + 1]
      /\ window' = window \/ window' = window \cup {e}
  BY DEF JetStreamStore, streamVars
<1>4. [copies EXCEPT ![e] = @ + 1] \in [Events -> Nat]
  BY DEF TypeOK
<1>5. copies \in [Events -> Nat] /\ window \subseteq Events /\ stream \in Seq(Events)
  BY DEF TypeOK
<1>6. stream' \in Seq(Events)
  BY <1>1, <1>2, <1>5
<1>7. copies' \in [Events -> Nat]
  BY <1>3, <1>4, <1>5
<1>8. window' \subseteq Events
  BY <1>3, <1>5
<1> QED
  BY <1>6, <1>7, <1>8

\* The event under a relay's cursor is an event.
LEMMA CursorTyped ==
  ASSUME TypeOK, CursorInBatch, NEW k \in Relays, pc[k] = "forward"
  PROVE  /\ batch[k] \in Seq(Events)
         /\ pos[k] \in 1 .. Len(batch[k])
         /\ batch[k][pos[k]] \in Events
  BY ElementOfSeq DEF TypeOK, CursorInBatch

\* One step keeps the types and the cursors.
LEMMA TypeInductive ==
  TypeOK /\ CursorInBatch /\ [Next]_vars => TypeOK' /\ CursorInBatch'
<1> SUFFICES ASSUME TypeOK, CursorInBatch, [Next]_vars PROVE TypeOK' /\ CursorInBatch'
  OBVIOUS
<1> USE DEF relayVars, streamVars
<1>1. ASSUME NEW e \in Events, Publish(e) PROVE TypeOK' /\ CursorInBatch'
  <2>1. Append(list, e) \in Seq(Events) /\ Append(accepted, e) \in Seq(Events)
    BY AppendProperties DEF TypeOK
  <2> QED
    BY <1>1, <2>1 DEF TypeOK, CursorInBatch, Publish
<1>2. CASE ForgetIDs
  BY <1>2, OutboxBounds DEF TypeOK, CursorInBatch, ForgetIDs
<1>3. ASSUME NEW k \in Relays, Start(k) PROVE TypeOK' /\ CursorInBatch'
  BY <1>3 DEF TypeOK, CursorInBatch, Start
<1>4. ASSUME NEW k \in Relays, Halt(k) PROVE TypeOK' /\ CursorInBatch'
  BY <1>4, OutboxBounds, EmptySeq DEF TypeOK, CursorInBatch, Halt
<1>5. ASSUME NEW k \in Relays, Drain(k) PROVE TypeOK' /\ CursorInBatch'
  <2>1. DrainBatch \in Seq(Events) /\ Len(DrainBatch) \in Nat /\ Len(DrainBatch) >= 1
    BY <1>5, DrainBatchIsHead, LenProperties DEF Drain
  <2>2. TypeOK'
    BY <1>5, <2>1 DEF TypeOK, Drain
  <2>3. CursorInBatch'
    BY <1>5, <2>1 DEF TypeOK, CursorInBatch, Drain
  <2> QED
    BY <2>2, <2>3
<1>6. ASSUME NEW k \in Relays, Forward(k) PROVE TypeOK' /\ CursorInBatch'
  <2>1. /\ stream' \in Seq(Events)
        /\ copies' \in [Events -> Nat]
        /\ window' \subseteq Events
    BY <1>6, CursorTyped, StoreTyped DEF Forward
  <2>2. TypeOK'
    <3>1. pos' \in [Relays -> Nat \ {0}]
      BY <1>6 DEF TypeOK, Forward
    <3>2. pc' \in [Relays -> {"down", "poll", "forward", "ack"}]
      BY <1>6 DEF TypeOK, Forward
    <3>3. UNCHANGED <<list, accepted, used, batch, forgets, halts>>
      BY <1>6 DEF Forward
    <3> QED
      BY <2>1, <3>1, <3>2, <3>3 DEF TypeOK
  <2>3. CursorInBatch'
    <3>1. pos[k] \in 1 .. Len(batch[k]) /\ Len(batch[k]) \in Nat
      BY <1>6, CursorTyped, LenProperties DEF Forward
    <3>2. /\ batch' = batch
          /\ pos' = [pos EXCEPT ![k] = @ + 1]
          /\ pc' = [pc EXCEPT ![k] = IF pos[k] = Len(batch[k]) THEN "ack" ELSE "forward"]
      BY <1>6 DEF Forward
    <3> QED
      BY <3>1, <3>2 DEF TypeOK, CursorInBatch
  <2> QED
    BY <2>2, <2>3
<1>7. ASSUME NEW k \in Relays, ForwardFails(k) PROVE TypeOK' /\ CursorInBatch'
  <2>1. /\ stream' \in Seq(Events)
        /\ copies' \in [Events -> Nat]
        /\ window' \subseteq Events
    BY <1>7, CursorTyped, StoreTyped DEF ForwardFails, TypeOK
  <2>2. Abandon(k) /\ UNCHANGED <<list, accepted, used, forgets, halts>>
    BY <1>7 DEF ForwardFails
  <2>3. TypeOK'
    BY <2>1, <2>2, EmptySeq DEF TypeOK, Abandon
  <2>4. CursorInBatch'
    BY <2>2 DEF TypeOK, CursorInBatch, Abandon
  <2> QED
    BY <2>3, <2>4
<1>8. ASSUME NEW k \in Relays, Ack(k) PROVE TypeOK' /\ CursorInBatch'
  <2>1. Trimmed(Len(batch[k])) \in Seq(Events)
    BY TrimmedTyped, LenProperties DEF TypeOK
  <2> QED
    BY <1>8, <2>1, EmptySeq DEF TypeOK, CursorInBatch, Ack, Abandon
<1>9. ASSUME NEW k \in Relays, AckFails(k) PROVE TypeOK' /\ CursorInBatch'
  BY <1>9, EmptySeq DEF TypeOK, CursorInBatch, AckFails, Abandon
<1>10. CASE UNCHANGED vars
  BY <1>10 DEF TypeOK, CursorInBatch, vars
<1> QED
  BY <1>1, <1>2, <1>3, <1>4, <1>5, <1>6, <1>7, <1>8, <1>9, <1>10 DEF Next

\* The list, the batches and the stream only ever hold events, and a relay never
\* reads past the end of its batch, however many relays there are.
THEOREM OutboxTypeCorrect == Spec => [](TypeOK /\ CursorInBatch)
<1>1. Init => TypeOK /\ CursorInBatch
  BY OutboxBounds, EmptySeq DEF Init, TypeOK, CursorInBatch
<1> QED
  BY <1>1, TypeInductive, PTL DEF Spec

------------------------------------------------------------------------------
(* Repeats *)

\* With any number of relays, an event is stored once more than the duplicate window
\* ran out, at most: the message id makes every other repeat invisible.
THEOREM RepeatsBounded == Spec => []RepeatsNeedForgetting
<1>1. Init => CopiesCounted
  BY DEF Init, CopiesCounted
<1>2. TypeOK /\ CursorInBatch /\ CopiesCounted /\ [Next]_vars => CopiesCounted'
  <2> SUFFICES ASSUME TypeOK, CursorInBatch, CopiesCounted, [Next]_vars
               PROVE  CopiesCounted'
    OBVIOUS
  <2> USE DEF relayVars, streamVars
  <2>1. ASSUME NEW e \in Events, JetStreamStore(e), forgets' = forgets
        PROVE  CopiesCounted'
    BY <2>1 DEF CopiesCounted, JetStreamStore, TypeOK
  <2>2. CASE ForgetIDs
    BY <2>2 DEF CopiesCounted, ForgetIDs, TypeOK
  <2>3. ASSUME NEW k \in Relays, Forward(k) \/ ForwardFails(k) PROVE CopiesCounted'
    <3>1. /\ batch[k][pos[k]] \in Events
          /\ forgets' = forgets
          /\ JetStreamStore(batch[k][pos[k]]) \/ UNCHANGED <<copies, window>>
      BY <2>3, CursorTyped DEF Forward, ForwardFails
    <3> QED
      BY <2>1, <3>1 DEF CopiesCounted
  <2>4. CASE UNCHANGED <<copies, window, forgets>>
    BY <2>4 DEF CopiesCounted
  <2> QED
    BY <2>2, <2>3, <2>4
    DEF Next, Publish, Start, Halt, Drain, Ack, AckFails, vars
<1>3. TypeOK /\ CopiesCounted => RepeatsNeedForgetting
  BY DEF CopiesCounted, RepeatsNeedForgetting, TypeOK
<1> QED
  BY <1>1, <1>2, <1>3, OutboxTypeCorrect, PTL DEF Spec

------------------------------------------------------------------------------
(* Delivery by one relay *)

\* The lengths are numbers.
LEMMA LengthsTyped ==
  ASSUME TypeOK
  PROVE  /\ Len(list) \in Nat /\ Len(accepted) \in Nat /\ Len(stream) \in Nat
         /\ \A k \in Relays : Len(batch[k]) \in Nat
BY LenProperties DEF TypeOK

\* What JetStream does with the event at place n of the log, when everything before
\* it was seen: it is appended if it is the next one and ignored if it was seen.
LEMMA StoreExtendsStream ==
  ASSUME TypeOK, OutboxInv, NEW n \in 1 .. Len(accepted), n <= Len(stream) + 1,
         JetStreamStore(accepted[n])
  PROVE  /\ n <= Len(stream) => stream' = stream
         /\ n = Len(stream) + 1 => stream' = Append(stream, accepted[n])
         /\ n <= Len(stream')
         /\ Len(stream) <= Len(stream')
<1> DEFINE e == accepted[n]
<1>1. Len(stream) \in Nat /\ Len(accepted) \in Nat
  BY LengthsTyped
<1>2. e \in Events
  BY ElementOfSeq DEF TypeOK
<1>3. CASE n <= Len(stream)
  <2>1. e = stream[n] /\ n \in 1 .. Len(stream)
    BY <1>1, <1>3 DEF OutboxInv, StreamIsPrefix
  <2>2. e \in Elements(stream)
    BY <2>1 DEF Elements
  <2> QED
    BY <1>1, <1>3, <2>2 DEF JetStreamStore, streamVars
<1>4. CASE n = Len(stream) + 1
  <2>1. e \notin Elements(stream)
    <3> SUFFICES ASSUME NEW i \in 1 .. Len(stream), stream[i] = e PROVE FALSE
      BY DEF Elements
    <3>1. accepted[i] = accepted[n] /\ i \in 1 .. Len(accepted) /\ i # n
      BY <1>1, <1>4 DEF OutboxInv, StreamIsPrefix
    <3> QED
      BY <3>1 DEF OutboxInv, AcceptedOnce
  <2>2. e \notin window
    BY <2>1 DEF OutboxInv, WindowWasSeen
  <2>3. stream' = Append(stream, e)
    BY <2>1, <2>2 DEF JetStreamStore
  <2>4. Len(stream') = Len(stream) + 1
    BY <1>2, <2>3, AppendProperties DEF TypeOK
  <2> QED
    BY <1>1, <1>4, <2>3, <2>4
<1> QED
  BY <1>1, <1>3, <1>4

\* The event under the cursor is the next one of the log, or one already seen.
LEMMA CursorInLog ==
  ASSUME TypeOK, CursorInBatch, OutboxInv, NEW k \in Relays, pc[k] = "forward"
  PROVE  /\ TrimCount + pos[k] \in 1 .. Len(accepted)
         /\ TrimCount + pos[k] <= Len(stream) + 1
         /\ batch[k][pos[k]] = accepted[TrimCount + pos[k]]
<1>1. /\ Len(list) \in Nat /\ Len(accepted) \in Nat /\ Len(stream) \in Nat
      /\ Len(batch[k]) \in Nat
      /\ Len(list) <= Len(accepted)
  BY LengthsTyped DEF OutboxInv, ListIsSuffix
<1>2. pos[k] \in 1 .. Len(batch[k]) /\ Len(batch[k]) <= Len(list)
  BY <1>1 DEF CursorInBatch, OutboxInv, RelayInPlace
<1>3. batch[k][pos[k]] = list[pos[k]] /\ TrimCount + pos[k] - 1 <= Len(stream)
  BY <1>2 DEF OutboxInv, RelayInPlace
<1>4. list[pos[k]] = accepted[TrimCount + pos[k]]
  BY <1>1, <1>2 DEF OutboxInv, ListIsSuffix
<1> QED
  BY <1>1, <1>2, <1>3, <1>4, SMTT(30) DEF TrimCount

\* The stream stays a prefix of the log when JetStream stores the event under a
\* cursor, and it then holds everything up to that event.
LEMMA StreamKept ==
  ASSUME TypeOK, TypeOK', CursorInBatch, OutboxInv, NEW k \in Relays, pc[k] = "forward",
         JetStreamStore(batch[k][pos[k]]), accepted' = accepted
  PROVE  /\ StreamIsPrefix' /\ WindowWasSeen'
         /\ Len(stream) <= Len(stream') /\ TrimCount + pos[k] <= Len(stream')
         /\ \/ stream' = stream
            \/ /\ Len(stream) < Len(accepted)
               /\ stream' = Append(stream, accepted[Len(stream) + 1])
<1> DEFINE n == TrimCount + pos[k]
           e == accepted[n]
<1>1. n \in 1 .. Len(accepted) /\ n <= Len(stream) + 1 /\ batch[k][pos[k]] = e
  BY CursorInLog
<1>2. Len(stream) \in Nat /\ Len(accepted) \in Nat /\ Len(stream') \in Nat
  BY LengthsTyped, LenProperties DEF TypeOK
<1>3. e \in Events
  BY <1>1, ElementOfSeq DEF TypeOK
<1>4. /\ n <= Len(stream) => stream' = stream
      /\ n = Len(stream) + 1 => stream' = Append(stream, e)
      /\ n <= Len(stream') /\ Len(stream) <= Len(stream')
  BY <1>1, StoreExtendsStream
<1>5. CASE n <= Len(stream)
  <2>1. stream' = stream
    BY <1>4, <1>5
  <2>2. e = stream[n] /\ n \in 1 .. Len(stream)
    BY <1>1, <1>2, <1>5 DEF OutboxInv, StreamIsPrefix
  <2>3. WindowWasSeen'
    <3>1. e \in Elements(stream)
      BY <2>2 DEF Elements
    <3>2. window' \subseteq window \cup {e}
      BY <1>1 DEF JetStreamStore, streamVars
    <3>3. Elements(stream)' = Elements(stream)
      BY <2>1 DEF Elements
    <3> QED
      BY <3>1, <3>2, <3>3 DEF OutboxInv, WindowWasSeen
  <2> QED
    BY <1>4, <2>1, <2>3 DEF OutboxInv, StreamIsPrefix
<1>6. CASE n = Len(stream) + 1
  <2>1. stream' = Append(stream, e)
    BY <1>4, <1>6
  <2>2. /\ Len(stream') = Len(stream) + 1
        /\ \A i \in 1 .. Len(stream) : stream'[i] = stream[i]
        /\ stream'[Len(stream) + 1] = e
    BY <1>3, <2>1, AppendProperties DEF TypeOK
  <2>3. StreamIsPrefix'
    BY <1>1, <1>2, <1>6, <2>2 DEF OutboxInv, StreamIsPrefix
  <2>4. WindowWasSeen'
    <3>1. e \in Elements(stream)'
      BY <1>2, <2>2 DEF Elements
    <3>2. Elements(stream) \subseteq Elements(stream)'
      BY <1>2, <2>2 DEF Elements
    <3>3. window' \subseteq window \cup {e}
      BY <1>1 DEF JetStreamStore, streamVars
    <3> QED
      BY <3>1, <3>2, <3>3 DEF OutboxInv, WindowWasSeen
  <2>5. Len(stream) < Len(accepted) /\ e = accepted[Len(stream) + 1]
    BY <1>1, <1>2, <1>6
  <2> QED
    BY <1>4, <2>1, <2>3, <2>4, <2>5
<1> QED
  BY <1>1, <1>2, <1>5, <1>6

\* A step that leaves the list and the log alone, and the stream no shorter, keeps
\* the parts about them.
LEMMA ListPartsKept ==
  ASSUME TypeOK, TypeOK', OutboxInv, UNCHANGED <<list, accepted, used>>,
         Len(stream) <= Len(stream')
  PROVE  AcceptedOnce' /\ ListIsSuffix' /\ TrimmedWasSeen' /\ TrimCount' = TrimCount
<1>1. /\ Len(list) \in Nat /\ Len(accepted) \in Nat /\ Len(stream) \in Nat
      /\ Len(stream') \in Nat
  BY LengthsTyped, LenProperties DEF TypeOK
<1>2. TrimCount' = TrimCount
  BY DEF TrimCount
<1>3. AcceptedOnce' /\ ListIsSuffix'
  BY <1>2 DEF OutboxInv, AcceptedOnce, ListIsSuffix
<1>4. TrimmedWasSeen'
  BY <1>1, <1>2 DEF OutboxInv, TrimmedWasSeen, TrimCount
<1> QED
  BY <1>2, <1>3, <1>4

\* Publish appends to the list and to the log alike.
LEMMA PublishKeeps ==
  ASSUME TypeOK, TypeOK', CursorInBatch, OutboxInv, NEW e \in Events, Publish(e)
  PROVE  OutboxInv'
<1>1. UNCHANGED <<pc, batch, pos, stream, copies, window>> /\ used' = used \cup {e}
  BY DEF Publish, relayVars, streamVars
<1>2. WindowWasSeen'
  BY <1>1 DEF OutboxInv, WindowWasSeen, Elements
<1>3. CASE UNCHANGED <<list, accepted>>
  <2>1. AcceptedOnce' /\ ListIsSuffix' /\ StreamIsPrefix' /\ TrimmedWasSeen'
    BY <1>1, <1>3 DEF OutboxInv, AcceptedOnce, ListIsSuffix, StreamIsPrefix,
                      TrimmedWasSeen, TrimCount
  <2>2. RelayInPlace'
    BY <1>1, <1>3 DEF OutboxInv, RelayInPlace, TrimCount
  <2> QED
    BY <1>2, <2>1, <2>2 DEF OutboxInv
<1>4. CASE list' = Append(list, e) /\ accepted' = Append(accepted, e)
  <2>1. /\ Len(list) \in Nat /\ Len(accepted) \in Nat /\ Len(stream) \in Nat
        /\ \A k \in Relays : Len(batch[k]) \in Nat /\ pos[k] \in Nat
    BY LengthsTyped DEF TypeOK
  <2>2. /\ Len(list') = Len(list) + 1
        /\ \A i \in 1 .. Len(list) : list'[i] = list[i]
        /\ list'[Len(list) + 1] = e
    BY <1>4, AppendProperties DEF TypeOK
  <2>3. /\ Len(accepted') = Len(accepted) + 1
        /\ \A i \in 1 .. Len(accepted) : accepted'[i] = accepted[i]
        /\ accepted'[Len(accepted) + 1] = e
    BY <1>4, AppendProperties DEF TypeOK
  <2>4. TrimCount' = TrimCount /\ TrimCount \in 0 .. Len(accepted)
    BY <2>1, <2>2, <2>3 DEF TrimCount, OutboxInv, ListIsSuffix
  <2>5. AcceptedOnce'
    <3>1. e \notin used
      BY DEF Publish
    <3>2. \A i \in 1 .. Len(accepted) : accepted[i] # e
      BY <3>1 DEF OutboxInv, AcceptedOnce
    <3>3. \A i \in 1 .. Len(accepted') : i \in 1 .. Len(accepted) \/ i = Len(accepted) + 1
      BY <2>1, <2>3
    <3>4. \A i \in 1 .. Len(accepted') : accepted'[i] \in used'
      BY <1>1, <2>3, <3>3 DEF OutboxInv, AcceptedOnce
    <3>5. \A i, j \in 1 .. Len(accepted') : accepted'[i] = accepted'[j] => i = j
      BY <2>3, <3>2, <3>3 DEF OutboxInv, AcceptedOnce
    <3> QED
      BY <3>4, <3>5 DEF AcceptedOnce
  <2>6. ListIsSuffix'
    <3>1. Len(list') <= Len(accepted')
      BY <2>1, <2>2, <2>3 DEF OutboxInv, ListIsSuffix
    <3>2. ASSUME NEW i \in 1 .. Len(list') PROVE list'[i] = accepted'[TrimCount + i]
      <4>1. CASE i \in 1 .. Len(list)
        <5>1. TrimCount + i \in 1 .. Len(accepted)
          BY <2>1, <4>1 DEF TrimCount, OutboxInv, ListIsSuffix
        <5> QED
          BY <2>2, <2>3, <4>1, <5>1 DEF OutboxInv, ListIsSuffix
      <4>2. CASE i = Len(list) + 1
        <5>1. TrimCount + i = Len(accepted) + 1
          BY <2>1, <4>2 DEF TrimCount
        <5> QED
          BY <2>2, <2>3, <4>2, <5>1
      <4> QED
        BY <2>1, <2>2, <4>1, <4>2
    <3> QED
      BY <2>4, <3>1, <3>2 DEF ListIsSuffix
  <2>7. StreamIsPrefix' /\ TrimmedWasSeen'
    BY <1>1, <2>1, <2>3, <2>4 DEF OutboxInv, StreamIsPrefix, TrimmedWasSeen
  <2>8. RelayInPlace'
    BY <1>1, <2>1, <2>2, <2>4 DEF OutboxInv, RelayInPlace
  <2> QED
    BY <1>2, <2>5, <2>6, <2>7, <2>8 DEF OutboxInv
<1> QED
  BY <1>3, <1>4 DEF Publish

\* A relay that starts, halts or gives up touches neither the list nor the stream,
\* and is then in no cycle.
LEMMA LeavingCycleKeeps ==
  ASSUME TypeOK, TypeOK', OutboxInv, NEW k \in Relays,
         UNCHANGED <<list, accepted, used, streamVars>>,
         pc' = [pc EXCEPT ![k] = pc'[k]], pc'[k] \notin {"forward", "ack"},
         \A j \in Relays : j # k => batch'[j] = batch[j] /\ pos'[j] = pos[j]
  PROVE  OutboxInv'
<1>1. Len(stream) \in Nat
  BY LengthsTyped
<1>2. AcceptedOnce' /\ ListIsSuffix' /\ TrimmedWasSeen' /\ TrimCount' = TrimCount
  BY <1>1, ListPartsKept DEF streamVars
<1>3. StreamIsPrefix' /\ WindowWasSeen'
  BY DEF OutboxInv, StreamIsPrefix, WindowWasSeen, Elements, streamVars
<1>4. RelayInPlace'
  <2> SUFFICES ASSUME NEW j \in Relays, pc'[j] \in {"forward", "ack"}
               PROVE  /\ j # k /\ pc'[j] = pc[j]
                      /\ batch'[j] = batch[j] /\ pos'[j] = pos[j]
    BY <1>2 DEF OutboxInv, RelayInPlace, streamVars
  <2> QED
    BY DEF TypeOK
<1> QED
  BY <1>2, <1>3, <1>4 DEF OutboxInv

\* Forward moves the cursor past an event that JetStream now holds.
LEMMA ForwardKeeps ==
  ASSUME TypeOK, TypeOK', CursorInBatch, OutboxInv, OneRelay, NEW k \in Relays, Forward(k)
  PROVE  OutboxInv'
<1>1. /\ pc[k] = "forward"
      /\ JetStreamStore(batch[k][pos[k]])
      /\ UNCHANGED <<list, accepted, used, batch>>
  BY DEF Forward
<1>2. /\ StreamIsPrefix' /\ WindowWasSeen'
      /\ Len(stream) <= Len(stream') /\ TrimCount + pos[k] <= Len(stream')
  BY <1>1, StreamKept
<1>3. AcceptedOnce' /\ ListIsSuffix' /\ TrimmedWasSeen' /\ TrimCount' = TrimCount
  BY <1>1, <1>2, ListPartsKept
<1>4. RelayInPlace'
  <2> SUFFICES ASSUME NEW j \in Relays, pc'[j] \in {"forward", "ack"}
               PROVE  /\ Len(batch'[j]) \in 1 .. Len(list')
                      /\ \A i \in 1 .. Len(batch'[j]) : batch'[j][i] = list'[i]
                      /\ TrimCount' + pos'[j] - 1 <= Len(stream')
                      /\ pc'[j] = "ack" => pos'[j] = Len(batch'[j]) + 1
    BY DEF RelayInPlace
  <2>1. j = k
    BY DEF OneRelay
  <2>2. /\ pos'[k] = pos[k] + 1
        /\ pc'[k] = IF pos[k] = Len(batch[k]) THEN "ack" ELSE "forward"
    BY DEF Forward, TypeOK
  <2>3. /\ pos[k] \in Nat
        /\ Len(list) \in Nat /\ Len(accepted) \in Nat
    BY LengthsTyped DEF TypeOK
  <2>4. TrimCount + pos'[k] - 1 = TrimCount + pos[k]
    BY <2>2, <2>3 DEF TrimCount
  <2>5. /\ Len(batch[k]) \in 1 .. Len(list)
        /\ \A i \in 1 .. Len(batch[k]) : batch[k][i] = list[i]
    BY <1>1 DEF OutboxInv, RelayInPlace
  <2> QED
    BY <1>1, <1>2, <1>3, <2>1, <2>2, <2>4, <2>5
<1> QED
  BY <1>2, <1>3, <1>4 DEF OutboxInv

\* A failed forward stores the event or not, and ends the cycle.
LEMMA ForwardFailsKeeps ==
  ASSUME TypeOK, TypeOK', CursorInBatch, OutboxInv, OneRelay, NEW k \in Relays,
         ForwardFails(k)
  PROVE  OutboxInv'
<1>1. /\ pc[k] = "forward"
      /\ JetStreamStore(batch[k][pos[k]]) \/ UNCHANGED streamVars
      /\ UNCHANGED <<list, accepted, used>>
      /\ pc' = [pc EXCEPT ![k] = "poll"]
  BY DEF ForwardFails, Abandon
<1>2. StreamIsPrefix' /\ WindowWasSeen' /\ Len(stream) <= Len(stream')
  <2>1. CASE JetStreamStore(batch[k][pos[k]])
    BY <1>1, <2>1, StreamKept
  <2>2. CASE UNCHANGED streamVars
    BY <1>1, <2>2, LengthsTyped DEF OutboxInv, StreamIsPrefix, WindowWasSeen, Elements,
                                    streamVars
  <2> QED
    BY <1>1, <2>1, <2>2
<1>3. AcceptedOnce' /\ ListIsSuffix' /\ TrimmedWasSeen'
  BY <1>1, <1>2, ListPartsKept
<1>4. RelayInPlace'
  BY <1>1 DEF OneRelay, RelayInPlace, TypeOK
<1> QED
  BY <1>2, <1>3, <1>4 DEF OutboxInv

\* Drain starts a cycle at the head of the list.
LEMMA DrainKeeps ==
  ASSUME TypeOK, TypeOK', OutboxInv, OneRelay, NEW k \in Relays, Drain(k)
  PROVE  OutboxInv'
<1>1. /\ list # <<>>
      /\ UNCHANGED <<list, accepted, used, stream, copies, window>>
      /\ batch'[k] = DrainBatch /\ pos'[k] = 1 /\ pc'[k] = "forward"
  BY DEF Drain, streamVars, TypeOK
<1>2. AcceptedOnce' /\ ListIsSuffix' /\ TrimmedWasSeen' /\ TrimCount' = TrimCount
  BY <1>1, ListPartsKept, LengthsTyped
<1>3. StreamIsPrefix' /\ WindowWasSeen'
  BY <1>1 DEF OutboxInv, StreamIsPrefix, WindowWasSeen, Elements
<1>4. RelayInPlace'
  <2>1. /\ Len(DrainBatch) \in 1 .. Len(list)
        /\ \A i \in 1 .. Len(DrainBatch) : DrainBatch[i] = list[i]
    BY <1>1, DrainBatchIsHead
  <2>2. TrimCount + 1 - 1 <= Len(stream)
    BY LengthsTyped DEF OutboxInv, TrimmedWasSeen, TrimCount
  <2> QED
    BY <1>1, <1>2, <2>1, <2>2 DEF OneRelay, RelayInPlace
<1> QED
  BY <1>2, <1>3, <1>4 DEF OutboxInv

\* Ack drops the head of the list that the cycle has forwarded.
LEMMA AckKeeps ==
  ASSUME TypeOK, TypeOK', OutboxInv, OneRelay, NEW k \in Relays, Ack(k)
  PROVE  OutboxInv'
<1> DEFINE n == Len(batch[k])
<1>1. /\ pc[k] = "ack"
      /\ list' = Trimmed(n)
      /\ UNCHANGED <<accepted, used, stream, copies, window>>
      /\ pc' = [pc EXCEPT ![k] = "poll"]
  BY DEF Ack, Abandon, streamVars
<1>2. /\ Len(list) \in Nat /\ Len(accepted) \in Nat /\ Len(stream) \in Nat
      /\ n \in Nat
  BY LengthsTyped
<1>3. n \in 1 .. Len(list) /\ pos[k] = n + 1 /\ TrimCount + pos[k] - 1 <= Len(stream)
  BY <1>1 DEF OutboxInv, RelayInPlace
<1>4. /\ Len(list') = Len(list) - n
      /\ \A i \in 1 .. Len(list) - n : list'[i] = list[n + i]
  <2>1. n \in 0 .. Len(list)
    BY <1>2, <1>3
  <2>2. /\ Len(Trimmed(n)) = Len(list) - n
        /\ \A i \in 1 .. Len(list) - n : Trimmed(n)[i] = list[n + i]
    BY <2>1, TrimmedIsTail
  <2> QED
    BY <1>1, <2>2
<1>5. TrimCount' = TrimCount + n
  BY <1>1, <1>2, <1>4 DEF TrimCount
<1>6. Len(list) <= Len(accepted) /\ TrimCount \in Int
  BY <1>2 DEF OutboxInv, ListIsSuffix, TrimCount
<1>7. TrimmedWasSeen'
  BY <1>1, <1>2, <1>3, <1>5, <1>6 DEF TrimmedWasSeen
<1>8. ListIsSuffix'
  <2>1. ASSUME NEW i \in 1 .. Len(list') PROVE list'[i] = accepted[TrimCount + n + i]
    <3>1. n + i \in 1 .. Len(list)
      BY <1>2, <1>4
    <3>2. list'[i] = list[n + i]
      BY <1>4
    <3>3. list[n + i] = accepted[TrimCount + (n + i)]
      BY <3>1 DEF OutboxInv, ListIsSuffix
    <3>4. TrimCount + (n + i) = TrimCount + n + i
      BY <1>2, <3>1 DEF TrimCount
    <3> QED
      BY <3>2, <3>3, <3>4
  <2>2. Len(list') <= Len(accepted')
    BY <1>1, <1>2, <1>3, <1>4, <1>6
  <2> QED
    BY <1>1, <1>5, <2>1, <2>2 DEF ListIsSuffix
<1>9. AcceptedOnce' /\ StreamIsPrefix' /\ WindowWasSeen'
  BY <1>1 DEF OutboxInv, AcceptedOnce, StreamIsPrefix, WindowWasSeen, Elements
<1>10. RelayInPlace'
  BY <1>1 DEF OneRelay, RelayInPlace, TypeOK
<1> QED
  BY <1>7, <1>8, <1>9, <1>10 DEF OutboxInv

\* ForgetIDs empties the duplicate window and nothing else.
LEMMA ForgetKeeps ==
  ASSUME TypeOK, OutboxInv, ForgetIDs
  PROVE  OutboxInv'
BY DEF ForgetIDs, relayVars, OutboxInv, AcceptedOnce, ListIsSuffix, StreamIsPrefix,
       TrimmedWasSeen, WindowWasSeen, RelayInPlace, TrimCount

\* One step keeps the delivery invariant when there is one relay.
LEMMA OutboxInvInductive ==
  ASSUME OneRelay
  PROVE  TypeOK /\ TypeOK' /\ CursorInBatch /\ OutboxInv /\ [Next]_vars => OutboxInv'
<1> SUFFICES ASSUME TypeOK, TypeOK', CursorInBatch, OutboxInv, [Next]_vars
             PROVE  OutboxInv'
  OBVIOUS
<1>1. ASSUME NEW k \in Relays, Start(k) \/ Halt(k) \/ AckFails(k) PROVE OutboxInv'
  <2>1. /\ UNCHANGED <<list, accepted, used, streamVars>>
        /\ pc' = [pc EXCEPT ![k] = pc'[k]] /\ pc'[k] \notin {"forward", "ack"}
    BY <1>1 DEF Start, Halt, AckFails, Abandon, TypeOK
  <2>2. \A j \in Relays : j # k => batch'[j] = batch[j] /\ pos'[j] = pos[j]
    BY DEF OneRelay
  <2> QED
    BY <2>1, <2>2, LeavingCycleKeeps
<1>2. CASE UNCHANGED vars
  BY <1>2 DEF vars, relayVars, streamVars, OutboxInv, AcceptedOnce, ListIsSuffix,
              StreamIsPrefix, TrimmedWasSeen, WindowWasSeen, RelayInPlace, TrimCount, Elements
<1> QED
  BY <1>1, <1>2, PublishKeeps, ForgetKeeps, DrainKeeps, ForwardKeeps, ForwardFailsKeeps,
     AckKeeps
  DEF Next

\* OutboxInv holds in every reachable state of an outbox with one relay.
THEOREM OutboxInvariant ==
  ASSUME OneRelay
  PROVE  Spec => []OutboxInv
<1>1. Init => OutboxInv
  BY DEF Init, OutboxInv, AcceptedOnce, ListIsSuffix, StreamIsPrefix, TrimmedWasSeen,
         WindowWasSeen, RelayInPlace, TrimCount
<1>2. TypeOK /\ TypeOK' /\ CursorInBatch /\ OutboxInv /\ [Next]_vars => OutboxInv'
  BY OutboxInvInductive
<1> QED
  BY <1>1, <1>2, OutboxTypeCorrect, PTL DEF Spec

\* An outbox with one relay loses nothing: whatever fails, stops or crashes, an event
\* that entered the list is in the list or has reached the stream.
THEOREM OneRelayLosesNothing ==
  ASSUME OneRelay
  PROVE  Spec => []NothingLost
<1>1. TypeOK /\ OutboxInv => NothingLost
  <2> SUFFICES ASSUME TypeOK, OutboxInv, NEW i \in 1 .. Len(accepted)
               PROVE  accepted[i] \in Elements(list) \cup Elements(stream)
    BY DEF NothingLost, Elements
  <2>1. Len(list) \in Nat /\ Len(accepted) \in Nat /\ Len(stream) \in Nat
    BY LengthsTyped
  <2>2. CASE i <= TrimCount
    <3>1. i \in 1 .. Len(stream)
      BY <2>1, <2>2 DEF OutboxInv, TrimmedWasSeen, TrimCount
    <3>2. accepted[i] = stream[i]
      BY <3>1 DEF OutboxInv, StreamIsPrefix
    <3> QED
      BY <3>1, <3>2 DEF Elements
  <2>3. CASE i > TrimCount
    <3>1. i - TrimCount \in 1 .. Len(list) /\ TrimCount + (i - TrimCount) = i
      BY <2>1, <2>3 DEF OutboxInv, ListIsSuffix, TrimCount
    <3>2. list[i - TrimCount] = accepted[i]
      BY <3>1 DEF OutboxInv, ListIsSuffix
    <3> QED
      BY <3>1, <3>2 DEF Elements
  <2> QED
    BY <2>1, <2>2, <2>3 DEF TrimCount
<1> QED
  BY <1>1, OutboxInvariant, OutboxTypeCorrect, PTL

\* An outbox with one relay implements the ordered log: every step accepts an event,
\* shows consumers the next accepted one, or changes nothing they can see.
THEOREM OneRelayKeepsOrder ==
  ASSUME OneRelay
  PROVE  Spec => InOrder
<1>1. Init => Log!Init
  BY DEF Init, Log!Init
<1>2. /\ TypeOK /\ TypeOK' /\ CursorInBatch /\ OutboxInv /\ [Next]_vars
      => [Log!Next]_Log!logVars
  <2> SUFFICES ASSUME TypeOK, TypeOK', CursorInBatch, OutboxInv, [Next]_vars
               PROVE  Log!Next \/ UNCHANGED <<accepted, stream>>
    BY DEF Log!logVars
  <2>1. ASSUME NEW e \in Events, Publish(e)
        PROVE  Log!Accept(e) \/ UNCHANGED <<accepted, stream>>
    BY <2>1 DEF Publish, streamVars, Log!Accept
  <2>2. ASSUME NEW k \in Relays, Forward(k) \/ ForwardFails(k)
        PROVE  Log!Deliver \/ UNCHANGED <<accepted, stream>>
    <3>1. /\ pc[k] = "forward" /\ accepted' = accepted
          /\ JetStreamStore(batch[k][pos[k]]) \/ UNCHANGED stream
      BY <2>2 DEF Forward, ForwardFails, streamVars
    <3>2. \/ stream' = stream
          \/ /\ Len(stream) < Len(accepted)
             /\ stream' = Append(stream, accepted[Len(stream) + 1])
      BY <3>1, StreamKept
    <3> QED
      BY <3>1, <3>2 DEF Log!Deliver
  <2>3. CASE \/ ForgetIDs \/ UNCHANGED vars
             \/ \E k \in Relays : \/ Start(k) \/ Halt(k) \/ Drain(k) \/ Ack(k)
                                  \/ AckFails(k)
    BY <2>3 DEF ForgetIDs, vars, Start, Halt, Drain, Ack, AckFails, streamVars
  <2> QED
    BY <2>1, <2>2, <2>3 DEF Next, Log!Next
<1> QED
  BY <1>1, <1>2, OutboxInvariant, OutboxTypeCorrect, PTL DEF Spec, InOrder, Log!Spec
==============================================================================
