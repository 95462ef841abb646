-------------------------------- MODULE Outbox --------------------------------
(***************************************************************************)
(* The transactional outbox of internal/adapters/eventbus: OutboxPublisher *)
(* (a Valkey list), OutboxRelay (one goroutine per process that drains a   *)
(* batch, forwards it event by event and then trims the list) and          *)
(* NATSPublisher (JetStream, which drops an event whose id it has seen     *)
(* within its duplicate window).                                           *)
(*                                                                         *)
(* Relays is the set of relay goroutines that work on one list: one per    *)
(* runtime process, since the key is the same in every process.            *)
(***************************************************************************)
EXTENDS Integers, Sequences, FiniteSets

CONSTANTS
  Events,      \* domain events; each carries its own id and is published once
  Relays,
  BatchSize,   \* events per drain (defaultBatchSize, WithBatchSize)
  MaxForgets,  \* bound: how often JetStream's duplicate window runs out
  MaxHalts     \* bound: how often a relay's process stops or crashes

ASSUME BatchSizePositive == BatchSize \in Nat \ {0}
ASSUME OutboxBounds == MaxForgets \in Nat /\ MaxHalts \in Nat

VARIABLES
  list,      \* Valkey: the <prefix>:pending list
  accepted,  \* every event that ever entered the list, in order
  used,      \* events whose Publish was called
  pc,        \* "down", "poll", "forward" or "ack", for each relay
  batch,     \* the events the relay drained
  pos,       \* the index in batch of the next event to forward
  stream,    \* JetStream: events in the order in which they first arrived
  copies,    \* JetStream: how often each event is stored
  window,    \* JetStream: ids in the duplicate window
  forgets, halts

relayVars  == <<pc, batch, pos>>
streamVars == <<stream, copies, window>>
vars == <<list, accepted, used, relayVars, streamVars, forgets, halts>>

Min2(a, b) == IF a <= b THEN a ELSE b

Elements(seq) == {seq[i] : i \in 1 .. Len(seq)}

TypeOK ==
  /\ list \in Seq(Events)
  /\ accepted \in Seq(Events)
  /\ used \subseteq Events
  /\ pc \in [Relays -> {"down", "poll", "forward", "ack"}]
  /\ batch \in [Relays -> Seq(Events)]
  /\ pos \in [Relays -> Nat \ {0}]
  /\ stream \in Seq(Events)
  /\ copies \in [Events -> Nat]
  /\ window \subseteq Events
  /\ forgets \in 0 .. MaxForgets
  /\ halts \in 0 .. MaxHalts

Init ==
  /\ list = <<>> /\ accepted = <<>> /\ used = {}
  /\ pc = [k \in Relays |-> "down"]
  /\ batch = [k \in Relays |-> <<>>]
  /\ pos = [k \in Relays |-> 1]
  /\ stream = <<>>
  /\ copies = [e \in Events |-> 0]
  /\ window = {}
  /\ forgets = 0 /\ halts = 0

------------------------------------------------------------------------------
(* OutboxPublisher *)

\* Publish: RPUSH.  When it reports an error the event may be in the list or not;
\* the service ignores the error either way.
Publish(e) ==
  /\ e \notin used
  /\ used' = used \cup {e}
  /\ \/ list' = Append(list, e) /\ accepted' = Append(accepted, e)
     \/ UNCHANGED <<list, accepted>>
  /\ UNCHANGED <<relayVars, streamVars, forgets, halts>>

\* Mutant: the batch is taken from the newest end of the list.
Mut_DrainTail == SubSeq(list, Len(list) - Min2(BatchSize, Len(list)) + 1, Len(list))

\* LRANGE 0 batchSize-1.
DrainBatch == SubSeq(list, 1, Min2(BatchSize, Len(list)))

\* Mutant: removes one event more than was forwarded.
Mut_TrimOneMore(n) == SubSeq(list, n + 2, Len(list))

\* Mutant: nothing is removed.
Mut_TrimNothing(n) == list

\* LTRIM n -1: the first n events go, or the whole list when it is shorter.
Trimmed(n) == SubSeq(list, n + 1, Len(list))

------------------------------------------------------------------------------
(* NATSPublisher on JetStream *)

\* Mutant: the message id is not set, so nothing is recognised as a repeat.
Mut_NoMessageID(e) ==
  /\ stream' = IF e \in Elements(stream) THEN stream ELSE Append(stream, e)
  /\ copies' = [copies EXCEPT ![e] = @ + 1]
  /\ UNCHANGED window

\* js.Publish with WithMsgID(event.ID): an id in the duplicate window is dropped.
JetStreamStore(e) ==
  IF e \in window
  THEN UNCHANGED streamVars
  ELSE /\ stream' = IF e \in Elements(stream) THEN stream ELSE Append(stream, e)
       /\ copies' = [copies EXCEPT ![e] = @ + 1]
       /\ window' = window \cup {e}

\* The duplicate window passes.
ForgetIDs ==
  /\ window # {}
  /\ forgets < MaxForgets
  /\ forgets' = forgets + 1
  /\ window' = {}
  /\ UNCHANGED <<list, accepted, used, relayVars, stream, copies, halts>>

------------------------------------------------------------------------------
(* OutboxRelay *)

Start(k) ==
  /\ pc[k] = "down"
  /\ pc' = [pc EXCEPT ![k] = "poll"]
  /\ UNCHANGED <<list, accepted, used, batch, pos, streamVars, forgets, halts>>

\* Stop cancels the loop's context, a crash ends it: either way the cycle that was
\* under way is abandoned where it stands.
Halt(k) ==
  /\ pc[k] # "down"
  /\ halts < MaxHalts
  /\ halts' = halts + 1
  /\ pc' = [pc EXCEPT ![k] = "down"]
  /\ batch' = [batch EXCEPT ![k] = <<>>]
  /\ pos' = [pos EXCEPT ![k] = 1]
  /\ UNCHANGED <<list, accepted, used, streamVars, forgets>>

\* An empty list, or an error of LRANGE, leaves the relay polling.
Drain(k) ==
  /\ pc[k] = "poll"
  /\ list # <<>>
  /\ pc' = [pc EXCEPT ![k] = "forward"]
  /\ batch' = [batch EXCEPT ![k] = DrainBatch]
  /\ pos' = [pos EXCEPT ![k] = 1]
  /\ UNCHANGED <<list, accepted, used, streamVars, forgets, halts>>

Forward(k) ==
  /\ pc[k] = "forward"
  /\ JetStreamStore(batch[k][pos[k]])
  /\ pos' = [pos EXCEPT ![k] = @ + 1]
  /\ pc' = [pc EXCEPT ![k] = IF pos[k] = Len(batch[k]) THEN "ack" ELSE "forward"]
  /\ UNCHANGED <<list, accepted, used, batch, forgets, halts>>

\* Mutant: a failed publish is skipped and the batch goes on.
Mut_SkipFailed(k) ==
  LET last == pos[k] >= Len(batch[k])
  IN IF pc[k] = "forward"
     THEN /\ pos' = [pos EXCEPT ![k] = @ + 1]
          /\ pc' = [pc EXCEPT ![k] = IF last THEN "ack" ELSE "forward"]
          /\ UNCHANGED batch
     ELSE /\ pc' = [pc EXCEPT ![k] = "poll"]
          /\ batch' = [batch EXCEPT ![k] = <<>>]
          /\ pos' = [pos EXCEPT ![k] = 1]

\* The loop drops the batch, backs off and starts over.
Abandon(k) ==
  /\ pc' = [pc EXCEPT ![k] = "poll"]
  /\ batch' = [batch EXCEPT ![k] = <<>>]
  /\ pos' = [pos EXCEPT ![k] = 1]

\* downstream.Publish reports an error: the event may have been stored or not.
ForwardFails(k) ==
  /\ pc[k] = "forward"
  /\ \/ JetStreamStore(batch[k][pos[k]])
     \/ UNCHANGED streamVars
  /\ Abandon(k)
  /\ UNCHANGED <<list, accepted, used, forgets, halts>>

Ack(k) ==
  /\ pc[k] = "ack"
  /\ list' = Trimmed(Len(batch[k]))
  /\ Abandon(k)
  /\ UNCHANGED <<accepted, used, streamVars, forgets, halts>>

\* Ack reports an error.  If the list was trimmed all the same, the step is that of
\* Ack: the loop goes back to polling in both cases.
AckFails(k) ==
  /\ pc[k] = "ack"
  /\ UNCHANGED list
  /\ Abandon(k)
  /\ UNCHANGED <<accepted, used, streamVars, forgets, halts>>

------------------------------------------------------------------------------
(* Specification *)

Next ==
  \/ \E e \in Events : Publish(e)
  \/ ForgetIDs
  \/ \E k \in Relays : \/ Start(k) \/ Halt(k) \/ Drain(k)
                       \/ Forward(k) \/ ForwardFails(k)
                       \/ Ack(k) \/ AckFails(k)

Spec == Init /\ [][Next]_vars

\* The relay's next event is e and its publish succeeds.
ForwardNext(k, e) == pc[k] = "forward" /\ batch[k][pos[k]] = e /\ Forward(k)

\* A stopped relay is started again and keeps polling.  A publish and an ack that
\* are tried for ever succeed some time: no outage of NATS or Valkey is permanent
\* and no event is refused for ever.
Fairness ==
  \A k \in Relays :
    /\ WF_vars(Start(k))
    /\ WF_vars(Drain(k))
    /\ SF_vars(Ack(k))
    /\ \A e \in Events : SF_vars(ForwardNext(k, e))

FairSpec == Spec /\ Fairness

------------------------------------------------------------------------------
(* Properties *)

\* outbox.go: "This guarantees at-least-once delivery".  An event that entered the
\* list is still in the list or has reached the stream, whatever failed, stopped or
\* crashed between drain, forward and trim.
NothingLost == Elements(accepted) \subseteq Elements(list) \cup Elements(stream)

\* An event is stored again only when the duplicate window ran out since.
RepeatsNeedForgetting == \A e \in Events : copies[e] <= forgets + 1

Log == INSTANCE EventLog WITH log <- accepted, seen <- stream

\* The outbox implements the log that consumers rely on: events become visible in
\* the order in which they were accepted, however often a batch is restarted.
InOrder == Log!Spec

\* Every event that entered the list reaches the stream.
EventuallySeen ==
  \A e \in Events : e \in Elements(accepted) ~> e \in Elements(stream)

\* Once nothing more is published the list is emptied: the relay does not redeliver
\* a batch for ever.
ListDrains == used = Events ~> list = <<>>

------------------------------------------------------------------------------
(* Strengthenings that make the safety properties inductive *)

\* A relay that forwards is inside its batch (this part holds for any relays).
CursorInBatch == \A k \in Relays : pc[k] = "forward" => pos[k] \in 1 .. Len(batch[k])

\* An id outside the duplicate window was stored at most once per forgetting.
CopiesCounted == \A e \in Events : copies[e] <= forgets + (IF e \in window THEN 1 ELSE 0)

OneRelay == \A j, k \in Relays : j = k

\* The number of events that were trimmed from the list.
TrimCount == Len(accepted) - Len(list)

AcceptedOnce ==
  /\ \A i \in 1 .. Len(accepted) : accepted[i] \in used
  /\ \A i, j \in 1 .. Len(accepted) : accepted[i] = accepted[j] => i = j

ListIsSuffix ==
  /\ Len(list) <= Len(accepted)
  /\ \A i \in 1 .. Len(list) : list[i] = accepted[TrimCount + i]

StreamIsPrefix ==
  /\ Len(stream) <= Len(accepted)
  /\ \A i \in 1 .. Len(stream) : stream[i] = accepted[i]

TrimmedWasSeen == TrimCount <= Len(stream)

WindowWasSeen == window \subseteq Elements(stream)

\* A cycle under way holds the head of the list; what it forwarded was seen.
RelayInPlace ==
  \A k \in Relays :
    pc[k] \in {"forward", "ack"} =>
      /\ Len(batch[k]) \in 1 .. Len(list)
      /\ \A i \in 1 .. Len(batch[k]) : batch[k][i] = list[i]
      /\ TrimCount + pos[k] - 1 <= Len(stream)
      /\ pc[k] = "ack" => pos[k] = Len(batch[k]) + 1

OutboxInv == /\ AcceptedOnce
             /\ ListIsSuffix
             /\ StreamIsPrefix
             /\ TrimmedWasSeen
             /\ WindowWasSeen
             /\ RelayInPlace
==============================================================================
