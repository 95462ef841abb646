------------------------------- MODULE DataTools --------------------------------
(***************************************************************************)
(* The tools for data services of internal/adapters/tools: connection      *)
(* profiles, Redis, NATS, Kafka, RabbitMQ and MongoDB.                     *)
(*                                                                         *)
(* A handler takes the session s, the request r and the services w, and    *)
(* gives the set of its possible answers, each with the services after it. *)
(* A message, a value and a document are their sizes in bytes; Missing is  *)
(* the value of no key.  Names are texts, as in module Policy.             *)
(***************************************************************************)
EXTENDS Policy

CONSTANT KeyOrder   \* every Redis key, in the order SCAN visits the table

Keys == ToSet(KeyOrder)

IsText(t) == t \in Seq(ToSet(t))

ASSUME KeysTyped == KeyOrder \in Seq(Keys) /\ \A k \in Keys : IsText(k)

Missing == -1
BadPayload == -1   \* a payload its encoding cannot be decoded from

Total(sizes) ==
  LET sum[i \in 0 .. Len(sizes)] == IF i = 0 THEN 0 ELSE sum[i - 1] + sizes[i]
  IN  sum[Len(sizes)]
FirstN(seq, n) == SubSeq(seq, 1, Min({n, Len(seq)}))

\* An answer: what it shows (a size per item), what the service had given for it, and
\* whether it says that something was cut.
Answer(w, items, fetched, truncated) ==
  [code |-> "ok", w |-> w, items |-> items, fetched |-> fetched, truncated |-> truncated,
   keys |-> <<>>, cursor |-> 0]
Failed(w, code) == [Answer(w, <<>>, <<>>, FALSE) EXCEPT !.code = code]
Done(w) == Answer(w, <<>>, <<>>, FALSE)

clampInt(value, min, max, fallback) ==
  LET v == IF value = 0 THEN fallback ELSE value
  IN  IF v < min THEN min ELSE IF v > max THEN max ELSE v

--------------------------------------------------------------------------------
(* Connection profiles. *)

DefaultProfile(id, kind, scope) == [id |-> id, kind |-> kind, readOnly |-> TRUE, scope |-> scope]

defaultConnectionProfiles ==
  {DefaultProfile("dev.nats", "nats", {<<"sandbox", ">">>, <<"dev", ">">>}),
   DefaultProfile("dev.kafka", "kafka", {<<"sandbox", ".">>, <<"dev", ".">>}),
   DefaultProfile("dev.rabbit", "rabbitmq", {<<"sandbox", ".">>, <<"dev", ".">>}),
   DefaultProfile("dev.redis", "redis", {<<"sandbox", ":">>, <<"dev", ":">>}),
   DefaultProfile("dev.mongo", "mongo", {<<"sandbox">>, <<"dev">>})}

\* resolveConnectionProfiles: those of the session's metadata, when it has any.
resolveConnectionProfiles(s) ==
  IF s.profiles = {} THEN defaultConnectionProfiles ELSE s.profiles

filterProfilesByAllowlist(s) ==
  {p \in resolveConnectionProfiles(s) : \/ s.allowedProfiles = {}
                                        \/ "*" \in s.allowedProfiles
                                        \/ p.id \in s.allowedProfiles}

\* hostMatchesAllowRule: a network, a domain with what is under it, or one host.
hostMatchesAllowRule(host, rule) ==
  CASE rule.kind = "cidr" -> host \in rule.hosts
    [] rule.kind = "domain" -> IsSuffix(rule.host, host)
    [] OTHER -> host = rule.host

profileEndpointAllowed(env, id) ==
  \/ ~env.allowlist
  \/ id \in DOMAIN env.rules /\ \E r \in env.rules[id] : hostMatchesAllowRule(env.endpoints[id], r)

resolveProfileEndpoint(env, id) ==
  id \in DOMAIN env.endpoints /\ profileEndpointAllowed(env, id)

NoProfile == [id |-> "", kind |-> "", readOnly |-> TRUE, scope |-> {}]

ProfileOf(s, id) ==
  LET known == {p \in filterProfilesByAllowlist(s) : p.id = id}
  IN  IF known = {} THEN NoProfile ELSE CHOOSE p \in known : TRUE

\* resolveTypedProfile and validateAndResolveProfileEndpoint: what they refuse, "ok" for
\* nothing.
resolveTypedProfile(s, id, kinds, defaultID) ==
  LET p == ProfileOf(s, id)
  IN  IF id = "" THEN "invalid_argument"
      ELSE IF p = NoProfile THEN "not_found"
      ELSE IF p.kind \notin kinds THEN "invalid_argument"
      ELSE IF resolveProfileEndpoint(s.env, id) \/ id = defaultID THEN "ok"
      ELSE "execution_failed"

resolveRedisProfile(s, id) == resolveTypedProfile(s, id, {"redis"}, "dev.redis")
resolveNATSProfile(s, id) == resolveTypedProfile(s, id, {"nats"}, "dev.nats")
resolveKafkaProfile(s, id) == resolveTypedProfile(s, id, {"kafka"}, "dev.kafka")
resolveRabbitProfile(s, id) == resolveTypedProfile(s, id, {"rabbitmq", "rabbit"}, "dev.rabbit")
resolveMongoProfile(s, id) == resolveTypedProfile(s, id, {"mongo", "mongodb"}, "dev.mongo")

ConnListProfiles(s, r, w) == {Done(w)}

ConnDescribeProfile(s, r, w) ==
  {IF r.profile = "" THEN Failed(w, "invalid_argument")
   ELSE IF ProfileOf(s, r.profile) = NoProfile THEN Failed(w, "not_found")
   ELSE Done(w)}

--------------------------------------------------------------------------------
(* What the handlers have in common: the order of their checks. *)

\* A reading tool: its arguments, its profile, its scope, then the service.
Reading(s, r, w, argsOk, resolved, inScope, answers) ==
  IF ~argsOk THEN {Failed(w, "invalid_argument")}
  ELSE IF resolved # "ok" THEN {Failed(w, resolved)}
  ELSE IF ~inScope THEN {Failed(w, "policy_denied")}
  ELSE {Failed(w, "execution_failed")} \cup answers

\* A writing tool refuses a read-only profile, and looks at its payload last.  A failure of
\* the service may come after the effect.
Writing(s, r, w, argsOk, resolved, inScope, payloadOk, done) ==
  IF ~argsOk THEN {Failed(w, "invalid_argument")}
  ELSE IF resolved # "ok" THEN {Failed(w, resolved)}
  ELSE IF ProfileOf(s, r.profile).readOnly \/ ~inScope THEN {Failed(w, "policy_denied")}
  ELSE IF ~payloadOk THEN {Failed(w, "invalid_argument")}
  ELSE {Failed(w, "execution_failed"), Failed(done.w, "execution_failed"), done}

\* decodePayload, and the limit on what it gives.
PayloadFits(size, maxBytes) == size # BadPayload /\ size <= maxBytes

\* One budget for the messages of an answer, in order: what is left for message i.
Left(sizes, i, maxBytes) == maxBytes - Min({maxBytes, Total(SubSeq(sizes, 1, i - 1))})

\* The loop of nats.subscribe_pull and rabbit.consume: the last message may be cut, what
\* comes after a full budget is dropped.
Budgeted(w, sizes, maxBytes) ==
  LET shown == {i \in DOMAIN sizes : Left(sizes, i, maxBytes) > 0}
      items == [i \in 1 .. Cardinality(shown) |-> Min({sizes[i], Left(sizes, i, maxBytes)})]
  IN  Answer(w, items, sizes, \E i \in DOMAIN sizes : \/ i \notin shown
                                                      \/ sizes[i] > Left(sizes, i, maxBytes))

--------------------------------------------------------------------------------
(* Redis. *)

keyAllowedByProfile(key, p) == prefixAllowlistMatch(key, p.scope)

\* Mutant: a prefix of an allowed prefix is allowed, too.
Mut_ParentPrefix(prefix, p) ==
  \E a \in p.scope : a = Star \/ IsPrefix(a, prefix) \/ IsPrefix(prefix, a)

\* prefixAllowedByProfile: at least as specific as an allowed prefix.
prefixAllowedByProfile(prefix, p) == \E a \in p.scope : a = Star \/ IsPrefix(a, prefix)

normalizeRedisKeys(keys) == Len(keys) \in 1 .. 200 /\ \A i \in DOMAIN keys : keys[i] # <<>>

RedisGet(s, r, w) ==
  LET v == w.kv[r.key]
  IN  Reading(s, r, w, r.key # <<>>, resolveRedisProfile(s, r.profile),
              keyAllowedByProfile(r.key, ProfileOf(s, r.profile)),
              {IF v = Missing THEN Done(w)
               ELSE Answer(w, <<Min({v, r.maxBytes})>>, <<v>>, v > r.maxBytes)})

\* processMGetEntry: an empty value is not found; a full budget leaves nothing of a value.
processMGetEntry(w, keys, i, maxBytes) ==
  LET sizes == [j \in DOMAIN keys |-> Max({0, w.kv[keys[j]]})]
  IN  Min({sizes[i], Left(sizes, i, maxBytes)})

RedisMGet(s, r, w) ==
  LET sizes == [j \in DOMAIN r.keys |-> Max({0, w.kv[r.keys[j]]})]
      items == [i \in DOMAIN r.keys |-> processMGetEntry(w, r.keys, i, r.maxBytes)]
  IN  Reading(s, r, w, normalizeRedisKeys(r.keys), resolveRedisProfile(s, r.profile),
              \A i \in DOMAIN r.keys : keyAllowedByProfile(r.keys[i], ProfileOf(s, r.profile)),
              {Answer(w, items, sizes,
                      \E i \in DOMAIN sizes : sizes[i] > Left(sizes, i, r.maxBytes))})

\* The keys of a prefix, among those from position a of the table to position b.
Matching(w, prefix, a, b) ==
  LET seen[i \in 0 .. Len(KeyOrder)] ==
        IF i < a THEN <<>>
        ELSE IF w.kv[KeyOrder[i]] # Missing /\ IsPrefix(prefix, KeyOrder[i])
        THEN Append(seen[i - 1], KeyOrder[i]) ELSE seen[i - 1]
  IN  seen[b]

\* Mutant: the flag is for what was cut from an earlier page.
Mut_ScanUnflagged(w, r) ==
  LET end == Min({r.cursor + r.hint, Len(KeyOrder)})
      found == Matching(w, r.prefix, r.cursor + 1, end)
  IN  [keys |-> FirstN(found, r.max), cursor |-> IF end = Len(KeyOrder) THEN 0 ELSE end,
       truncated |-> FALSE]

\* Where page j of redis.scan ends, and what was found up to there.
PageEnd(r, j) == Min({r.cursor + j * r.hint, Len(KeyOrder)})
Found(w, r, j) == Matching(w, r.prefix, r.cursor + 1, PageEnd(r, j))

\* Pages are read until there are enough keys or the table ends.
LastPage(w, r) ==
  CHOOSE j \in 1 .. Len(KeyOrder) + 1 :
    /\ Len(Found(w, r, j)) >= r.max \/ PageEnd(r, j) = Len(KeyOrder)
    /\ \A i \in 1 .. j - 1 : Len(Found(w, r, i)) < r.max /\ PageEnd(r, i) < Len(KeyOrder)

\* redisScanKeys and appendScanBatch: what the last page has too much is dropped, and the
\* cursor is after it.
redisScanKeys(w, r) ==
  LET last == LastPage(w, r)
  IN  [keys |-> FirstN(Found(w, r, last), r.max),
       cursor |-> IF PageEnd(r, last) = Len(KeyOrder) THEN 0 ELSE PageEnd(r, last),
       truncated |-> Len(Found(w, r, last)) >= r.max]

RedisScan(s, r, w) ==
  LET page == redisScanKeys(w, r)
      all == Matching(w, r.prefix, r.cursor + 1, Len(KeyOrder))
      OneEach(keys) == [i \in DOMAIN keys |-> 1]   \* a key counts as one byte
  IN  Reading(s, r, w, r.prefix # <<>>, resolveRedisProfile(s, r.profile),
              prefixAllowedByProfile(r.prefix, ProfileOf(s, r.profile)),
              {[Answer(w, OneEach(page.keys), OneEach(all), page.truncated)
                  EXCEPT !.keys = page.keys, !.cursor = page.cursor]})

\* redis.ttl and redis.exists show nothing of a value.
RedisTTL(s, r, w) ==
  Reading(s, r, w, r.key # <<>>, resolveRedisProfile(s, r.profile),
          keyAllowedByProfile(r.key, ProfileOf(s, r.profile)), {Done(w)})

RedisExists(s, r, w) ==
  Reading(s, r, w, normalizeRedisKeys(r.keys), resolveRedisProfile(s, r.profile),
          \A i \in DOMAIN r.keys : keyAllowedByProfile(r.keys[i], ProfileOf(s, r.profile)),
          {Done(w)})

MaxTTL == 604800   \* in seconds

\* redis.set looks at the value before the profile, and always sets an expiry.
RedisSet(s, r, w) ==
  Writing(s, r, w, r.key # <<>> /\ r.payload # BadPayload /\ r.ttl \in 1 .. MaxTTL,
          resolveRedisProfile(s, r.profile),
          keyAllowedByProfile(r.key, ProfileOf(s, r.profile)), TRUE,
          Done([w EXCEPT !.kv[r.key] = r.payload, !.expires = @ \cup {r.key}]))

RedisDel(s, r, w) ==
  LET gone == ToSet(r.keys)
  IN  Writing(s, r, w, normalizeRedisKeys(r.keys), resolveRedisProfile(s, r.profile),
              \A k \in gone : keyAllowedByProfile(k, ProfileOf(s, r.profile)), TRUE,
              Done([w EXCEPT !.kv = [k \in Keys |-> IF k \in gone THEN Missing ELSE @[k]],
                             !.expires = @ \ gone]))

--------------------------------------------------------------------------------
(* NATS. *)

\* natsSubjectPatternMatch: ">" stands for at least one token.
natsSubjectPatternMatch(pattern, subject) ==
  /\ pattern # <<>> /\ subject # <<>>
  /\ \/ pattern = subject
     \/ /\ TokensMatch(pattern, subject)
        /\ IF RestAt(pattern) <= Len(pattern) THEN RestAt(pattern) <= Len(subject)
           ELSE Len(pattern) = Len(subject)

subjectAllowedByProfile(subject, p) == \E t \in p.scope : natsSubjectPatternMatch(t, subject)

Heard(w, subject) == [w EXCEPT !.heard = @ \cup {subject}]

\* nats.request is not refused by a read-only profile; its payload has no limit, the reply has.
NATSRequest(s, r, w) ==
  LET replies == {Answer(Heard(w, r.subject), <<Min({n, r.maxBytes})>>, <<n>>, n > r.maxBytes) :
                    n \in w.sizes}
      sent == IF r.payload = BadPayload THEN {Failed(w, "invalid_argument")}
              ELSE replies \cup {Failed(Heard(w, r.subject), "execution_failed"),
                                 Failed(w, "execution_failed")}
      read == Reading(s, r, w, r.subject # <<>>, resolveNATSProfile(s, r.profile),
                      subjectAllowedByProfile(r.subject, ProfileOf(s, r.profile)), {Done(w)})
  IN  IF Done(w) \in read THEN sent ELSE read

NATSPublish(s, r, w) ==
  Writing(s, r, w, r.subject # <<>>, resolveNATSProfile(s, r.profile),
          subjectAllowedByProfile(r.subject, ProfileOf(s, r.profile)),
          PayloadFits(r.payload, r.maxBytes),
          Done(Heard(w, r.subject)))

\* nats.subscribe_pull gets what others publish while it waits.
NATSSubscribePull(s, r, w) ==
  Reading(s, r, w, r.subject # <<>>, resolveNATSProfile(s, r.profile),
          subjectAllowedByProfile(r.subject, ProfileOf(s, r.profile)),
          {Budgeted(w, sizes, r.maxBytes) : sizes \in UNION {[1 .. n -> w.sizes] : n \in 0 .. r.max}})

--------------------------------------------------------------------------------
(* Kafka: a topic is a sequence of messages, each with the sizes of key and value. *)

topicPatternMatch(pattern, topic) == wildcardPatternMatch(pattern, topic)
topicAllowedByProfile(topic, p) == \E t \in p.scope : topicPatternMatch(t, topic)

\* resolveKafkaConsumeOffset: the mode that is asked for, else the one the other arguments
\* stand for; they may not contradict it.  An offset is absent, a word, a number or bad.
resolveKafkaConsumeOffset(mode, offset, timestamp) ==
  LET legacy == offset.kind \in {"latest", "earliest"}
      asked == IF mode # "" THEN mode
               ELSE IF timestamp # Missing THEN "timestamp"
               ELSE IF legacy THEN offset.kind
               ELSE IF offset.kind = "number" THEN "absolute"
               ELSE "latest"
  IN  CASE offset.kind = "bad" -> "invalid"
        [] asked \in {"latest", "earliest"} -> IF offset.kind \in {"absent", asked}
                                               THEN asked ELSE "invalid"
        [] asked = "absolute" -> IF offset.kind = "number" THEN asked ELSE "invalid"
        [] asked = "timestamp" -> IF timestamp >= 0 /\ offset.kind = "absent"
                                  THEN asked ELSE "invalid"
        [] OTHER -> "invalid"

\* Where liveKafkaClient.Consume starts; message i was written at time i.
KafkaStart(log, r) ==
  CASE resolveKafkaConsumeOffset(r.mode, r.offset, r.timestamp) = "earliest" -> 1
    [] resolveKafkaConsumeOffset(r.mode, r.offset, r.timestamp) = "absolute" -> r.offset.n + 1
    [] resolveKafkaConsumeOffset(r.mode, r.offset, r.timestamp) = "timestamp" -> Max({1, r.timestamp})
    [] OTHER -> Len(log) + 1

\* kafkaTrimMessageBytes: the key comes first.
kafkaTrimMessageBytes(m, remaining) ==
  [key |-> Min({m.key, remaining}), value |-> Min({m.value, Max({0, remaining - m.key})})]

\* kafkaConsumeFormatMessages
kafkaConsumeFormatMessages(w, messages, maxBytes) ==
  LET sizes == [i \in DOMAIN messages |-> messages[i].key + messages[i].value]
      shown == {i \in DOMAIN sizes : Left(sizes, i, maxBytes) > 0}
      Trim(i) == kafkaTrimMessageBytes(messages[i], Left(sizes, i, maxBytes))
  IN  Answer(w, [i \in 1 .. Cardinality(shown) |-> Trim(i).key + Trim(i).value], sizes,
             \E i \in DOMAIN messages : i \notin shown \/ Trim(i) # messages[i])

\* kafka.consume reads without a group: it moves no offset.  It may end at its deadline.
KafkaConsume(s, r, w) ==
  LET log == w.topic[r.topic]
      from == KafkaStart(log, r)
      offset == resolveKafkaConsumeOffset(r.mode, r.offset, r.timestamp)
      read == {SubSeq(log, from, to) : to \in from - 1 .. Min({Len(log), from + r.max - 1})}
              \cup {<<>>}
  IN  Reading(s, r, w, r.topic # <<>> /\ r.partition >= 0 /\ offset # "invalid",
              resolveKafkaProfile(s, r.profile),
              topicAllowedByProfile(r.topic, ProfileOf(s, r.profile)),
              {kafkaConsumeFormatMessages(w, m, r.maxBytes) : m \in read})

KafkaProduce(s, r, w) ==
  LET m == [key |-> r.keySize, value |-> r.payload]
  IN  Writing(s, r, w, r.topic # <<>> /\ r.partition >= 0, resolveKafkaProfile(s, r.profile),
              topicAllowedByProfile(r.topic, ProfileOf(s, r.profile)),
              BadPayload \notin {r.keySize, r.payload} /\ r.keySize + r.payload <= r.maxBytes,
              Done([w EXCEPT !.topic[r.topic] = Append(@, m)]))

KafkaTopicMetadata(s, r, w) ==
  Reading(s, r, w, r.topic # <<>>, resolveKafkaProfile(s, r.profile),
          topicAllowedByProfile(r.topic, ProfileOf(s, r.profile)), {Done(w)})

--------------------------------------------------------------------------------
(* RabbitMQ: a queue is the sequence of the sizes of its messages. *)

\* queuePatternMatch: as wildcardPatternMatch, without ".>".
queuePatternMatch(pattern, queue) ==
  wildcardPatternMatch(pattern, queue) /\ (IsSuffix(<<".", ">">>, pattern) => pattern = queue)
queueAllowedByProfile(queue, p) == \E t \in p.scope : queuePatternMatch(t, queue)

\* rabbit.consume: the broker takes a message as acknowledged when it sends it, and sends
\* without waiting; the handler takes up to r.max of those, fewer at its deadline.
RabbitConsume(s, r, w) ==
  LET q == w.queue[r.queue]
      Sent(n) == [w EXCEPT !.queue[r.queue] = SubSeq(q, n + 1, Len(q))]
  IN  Reading(s, r, w, r.queue # <<>>, resolveRabbitProfile(s, r.profile),
              queueAllowedByProfile(r.queue, ProfileOf(s, r.profile)),
              {Budgeted(Sent(n[2]), SubSeq(q, 1, n[1]), r.maxBytes) :
                 n \in {n \in (0 .. Min({r.max, Len(q)})) \X (0 .. Len(q)) : n[1] <= n[2]}})

\* rabbit.publish to the default exchange: the routing key, which nothing checks, names the
\* queue; a message for no queue is dropped.
RabbitPublish(s, r, w) ==
  LET to == IF r.routing = <<>> THEN r.queue ELSE r.routing
  IN  Writing(s, r, w, r.queue # <<>>, resolveRabbitProfile(s, r.profile),
              queueAllowedByProfile(r.queue, ProfileOf(s, r.profile)),
              PayloadFits(r.payload, r.maxBytes),
              Done(IF to \in DOMAIN w.queue
                   THEN [w EXCEPT !.queue[to] = Append(@, r.payload)] ELSE w))

RabbitQueueInfo(s, r, w) ==
  Reading(s, r, w, r.queue # <<>>, resolveRabbitProfile(s, r.profile),
          queueAllowedByProfile(r.queue, ProfileOf(s, r.profile)), {Done(w)})

--------------------------------------------------------------------------------
(* MongoDB, which these tools only read. *)

\* databaseAllowedByProfile: a name, or what is around one star.
databaseAllowedByProfile(database, p) ==
  \E t \in p.scope : t = database \/ OneStarMatch(t, database)

\* validateMongoFilter: the operators that it sees are those of documents in documents, not
\* those in lists.
validateMongoFilter(ops) == ops \cap {"$where", "$accumulator", "$function", "$expr"} = {}

\* truncateMongoDocuments: whole documents, as long as they fit.
truncateMongoDocuments(w, docs, maxBytes) ==
  LET shown == {i \in DOMAIN docs : Total(SubSeq(docs, 1, i)) <= maxBytes}
  IN  Answer(w, SubSeq(docs, 1, Cardinality(shown)), docs, shown # DOMAIN docs)

\* mongo.find; mongo.aggregate ends its pipeline with the limit, after which no stage writes.
MongoFind(s, r, w) ==
  Reading(s, r, w, r.database # <<>>, resolveMongoProfile(s, r.profile),
          databaseAllowedByProfile(r.database, ProfileOf(s, r.profile)),
          IF validateMongoFilter(r.ops)
          THEN {truncateMongoDocuments(w, FirstN(w.docs[r.database], r.max), r.maxBytes)}
          ELSE {})

MongoAggregate(s, r, w) ==
  Reading(s, r, w, r.database # <<>>, resolveMongoProfile(s, r.profile),
          databaseAllowedByProfile(r.database, ProfileOf(s, r.profile)),
          IF validateMongoFilter(r.ops)
          THEN {truncateMongoDocuments(w, FirstN(docs, r.max), r.maxBytes) :
                  docs \in {w.docs[r.database], <<>>}}
          ELSE {})

================================================================================
