----------------------------- MODULE PlatformTools ------------------------------
(***************************************************************************)
(* Calls of a session to the tools for data services and for git, each     *)
(* first asked of the policy, while others use the same services: they set *)
(* and expire Redis keys, and push to the remotes; and what becomes of the *)
(* results of calls (Artifacts).                                           *)
(***************************************************************************)
EXTENDS DataTools

CONSTANTS
  Branches, Remotes, MaxCommits,   \* as in GitTools
  Sessions,    \* the sessions, one of which makes at most maxCalls (a bound) calls
  SetKeys,     \* Redis keys there are at the start
  DataNames    \* a record of the topics, queues and databases there are

\* The requests for Redis are about the first keys of the table.
ASSUME EnoughKeys == Len(KeyOrder) >= 3

\* What a session allows are texts, and the profile dev.nats is one for NATS.
ASSUME SessionsTyped ==
  \A s \in Sessions :
    /\ \A t \in s.meta.keys : IsText(t)
    /\ \A p \in resolveConnectionProfiles(s) :
         (\A t \in p.scope : IsText(t)) /\ (p.id = "dev.nats" => p.kind = "nats")

ASSUME MaxCommitsNat == MaxCommits \in Nat

CONSTANTS Invocations, Results, Wirings, Limits   \* as in Artifacts

Git == INSTANCE GitTools

VARIABLES wiring, tasks, records, objects, lost   \* as in Artifacts

Kept == INSTANCE Artifacts

VARIABLES
  session, \* the session that calls
  world,   \* the data services
  git,     \* the repository of the workspace, and its remotes
  last,    \* the last answer
  calls,   \* how many calls there were
  pushes   \* commits that others pushed

callVars == <<session, world, git, last, calls, pushes>>
keptVars == <<wiring, tasks, records, objects, lost>>
vars == <<callVars, keptVars>>

--------------------------------------------------------------------------------
(* The catalog: what the policy is told of a tool. *)

GitReaders == {"git.status", "git.diff", "git.diff_file", "git.log", "git.show",
               "git.branch_list", "git.blame"}
GitWriters == {"git.apply_patch", "git.checkout", "git.commit", "git.push", "git.fetch", "git.pull"}
DataReaders == {"conn.list_profiles", "conn.describe_profile", "nats.subscribe_pull",
                "kafka.consume", "kafka.topic_metadata", "rabbit.consume", "rabbit.queue_info",
                "redis.get", "redis.mget", "redis.scan", "redis.ttl", "redis.exists",
                "mongo.find", "mongo.aggregate"}
DataWriters == {"nats.publish", "kafka.produce", "rabbit.publish", "redis.set", "redis.del"}

ClusterAsked == {"k8s.get_pods", "k8s.get_replicasets", "k8s.rollout_pause", "k8s.rollout_undo",
                 "k8s.scale_deployment", "k8s.circuit_break", "notify.escalation_channel",
                 "image.push"}

Fields(tool) ==
  CASE tool = "image.push" -> {"registry"}
    [] tool = "k8s.get_pods" -> {"namespace"}
    [] tool = "notify.escalation_channel" -> {"arg"}
    [] tool \in ClusterAsked -> {"arg", "namespace"}
    [] tool \in {"git.diff", "git.diff_file", "git.show", "git.commit", "git.blame"} -> {"path"}
    [] tool \in GitReaders \cup GitWriters \cup {"conn.list_profiles"} -> {}
    [] tool \in {"nats.request", "nats.publish", "nats.subscribe_pull"} -> {"profile", "subject"}
    [] tool \in {"kafka.consume", "kafka.produce", "kafka.topic_metadata"} -> {"profile", "topic"}
    [] tool \in {"rabbit.consume", "rabbit.publish", "rabbit.queue_info"} -> {"profile", "queue"}
    [] tool \in {"conn.describe_profile", "mongo.find", "mongo.aggregate"} -> {"profile"}
    [] OTHER -> {"profile", "key"}

Capability(tool) ==
  [scope |-> IF tool \in GitReaders \cup GitWriters \cup {"image.push"} THEN "repo"
             ELSE IF tool \in ClusterAsked \ {"notify.escalation_channel"} THEN "cluster"
             ELSE IF tool \in {"conn.list_profiles", "conn.describe_profile"} THEN "workspace"
             ELSE "external",
   risk |-> IF tool \in {"git.push", "k8s.rollout_undo", "k8s.circuit_break"} THEN "high" ELSE "medium",
   approval |-> tool \in DataWriters \cup (GitWriters \ {"git.checkout"})
               \cup (ClusterAsked \ {"k8s.get_pods", "k8s.get_replicasets"}),
   rule |-> [maxLength |-> 4, maxItems |-> 1, denyCharacters |-> {";"}, deniedPrefix |-> {<<"-">>},
             allowedValues |-> {}, allowedPrefix |-> {}],
   fields |-> Fields(tool)]

\* The arguments that the policy looks at.
Args(tool, r) ==
  [path |-> IF r.pathsOk THEN Given(<<<<".">>>>) ELSE Given(<<<<"..">>>>),
   profile |-> Given(<<<<r.profile>>>>), subject |-> Given(<<r.subject>>),
   topic |-> Given(<<r.topic>>), queue |-> Given(<<r.queue>>),
   namespace |-> r.namespace, registry |-> r.image, arg |-> r.name,
   key |-> IF tool \in {"redis.mget", "redis.exists", "redis.del"} THEN Given(r.keys)
           ELSE IF tool = "redis.scan" THEN Given(<<r.prefix>>) ELSE Given(<<r.key>>)]

Decision(tool, r) ==
  Authorize([tool |-> tool, session |-> session, cap |-> Capability(tool),
             approved |-> r.approved, args |-> Args(tool, r), amounts |-> r.amounts])

--------------------------------------------------------------------------------
(* Requests. *)

Blank == [profile |-> "", approved |-> TRUE, key |-> <<>>, keys |-> <<>>, prefix |-> <<>>,
          cursor |-> 0, max |-> 2, hint |-> 2, maxBytes |-> 3, payload |-> 1, ttl |-> 60,
          subject |-> <<>>, topic |-> <<>>, partition |-> 0, mode |-> "",
          offset |-> [kind |-> "absent", n |-> 0], timestamp |-> Missing, keySize |-> 1,
          queue |-> <<>>, routing |-> <<>>, database |-> <<>>, ops |-> {},
          ref |-> <<>>, start |-> <<>>, remote |-> "", cleanup |-> <<>>, pathsOk |-> TRUE,
          valid |-> TRUE, check |-> FALSE, create |-> FALSE, force |-> FALSE, all |-> TRUE,
          message |-> TRUE, lease |-> FALSE, prune |-> FALSE, from |-> <<>>, plus |-> FALSE,
          matching |-> FALSE,
          namespace |-> Absent, image |-> Absent, name |-> Given(<<<<"web">>>>), amounts |-> <<>>]

Of(profile) == [Blank EXCEPT !.profile = profile]

RedisRequests(tool) ==
  {[Of("dev.redis") EXCEPT !.key = k, !.keys = <<k>>, !.prefix = k, !.hint = 3] :
     k \in {<<>>, KeyOrder[1], KeyOrder[2], KeyOrder[3]}}
  \cup {[Of("dev.redis") EXCEPT !.keys = <<KeyOrder[1], KeyOrder[2]>>, !.key = KeyOrder[1],
                               !.prefix = <<"dev", ":">>, !.payload = 4, !.approved = b] :
          b \in BOOLEAN}
  \cup {[Of(p) EXCEPT !.key = KeyOrder[1], !.keys = <<KeyOrder[1]>>, !.prefix = KeyOrder[1]] :
          p \in {"", "dev.nats"}}
  \cup {[Of("dev.redis") EXCEPT !.prefix = <<"dev">>, !.cursor = k] :
          k \in IF tool = "redis.scan" THEN {0, 2} ELSE {}}

NatsRequests(tool) ==
  {[Of("dev.nats") EXCEPT !.subject = n, !.payload = k] :
     n \in {<<>>, <<"dev">>, <<"dev", "a">>, <<"ops", "a">>}, k \in {BadPayload, 1, 4}}

KafkaAbout(topic) ==
  {[Of("dev.kafka") EXCEPT !.topic = topic, !.payload = k] : k \in {1, 4}}
  \cup {[Of("dev.kafka") EXCEPT !.topic = topic, !.mode = m[1], !.timestamp = m[2],
                               !.offset = [kind |-> m[3], n |-> 1]] :
          m \in {<<"earliest", Missing, "absent">>, <<"", Missing, "number">>,
                 <<"", 1, "absent">>, <<"earliest", Missing, "number">>}}

KafkaRequests(tool) == UNION {KafkaAbout(n) : n \in DataNames.topics}

RabbitRequests(tool) ==
  {[Of("dev.rabbit") EXCEPT !.queue = n, !.routing = k, !.payload = 2] :
     n \in DataNames.queues, k \in {<<>>} \cup DataNames.queues}

MongoRequests(tool) ==
  {[Of("dev.mongo") EXCEPT !.database = n, !.ops = o] :
     n \in DataNames.databases, o \in {{}, {"$where"}}}

\* The refspecs of a push: "[+]from:ref", ":ref", "[+]:" and none.
PushesTo(o) ==
  LET to == [Blank EXCEPT !.remote = o]
      plain == {to} \cup {[to EXCEPT !.from = b, !.ref = c] : b \in Branches \cup {<<>>}, c \in Branches}
      all == [to EXCEPT !.matching = TRUE]
  IN  {[q EXCEPT !.lease = l] : q \in plain \cup {all}, l \in BOOLEAN}
        \cup {[q EXCEPT !.plus = TRUE] : q \in (plain \ {to}) \cup {all}}

GitRequests(tool) ==
  LET on == {[Blank EXCEPT !.ref = b, !.from = b, !.remote = o] : b \in Branches, o \in Remotes}
      some == CHOOSE q \in on : TRUE
  IN  CASE tool \in GitReaders -> on \cup {[some EXCEPT !.pathsOk = FALSE]}
        [] tool = "git.checkout" -> {[q EXCEPT !.create = c, !.force = c] : q \in on, c \in BOOLEAN}
        [] tool = "git.push" ->
             {[q EXCEPT !.cleanup = c] : q \in on, c \in Branches}
             \cup UNION {PushesTo(o) : o \in Remotes}
        [] tool = "git.apply_patch" -> {some, [some EXCEPT !.check = TRUE],
                                        [some EXCEPT !.valid = FALSE], [some EXCEPT !.pathsOk = FALSE]}
        [] tool = "git.commit" -> {some, [some EXCEPT !.message = FALSE], [some EXCEPT !.all = FALSE]}
        [] OTHER -> on \cup {[some EXCEPT !.ref = <<>>, !.from = <<>>]}

ClusterRequests(tool) ==
  {[Blank EXCEPT !.namespace = n, !.image = i] :
     n \in {Absent, Bad, Given(<<<<"dev">>>>), Given(<<<<"ops">>>>)},
     i \in {Absent, Given(<<<<"ghcr", ".", "io", "/", "app">>>>), Given(<<<<"app">>>>)}}
  \cup {[Blank EXCEPT !.name = v] :
          v \in {Bad, Given(<<<<"a", ";">>>>), Given(<<<<"-">>>>), Given(<<<<"a">>, <<"b">>>>)}}
  \cup {[Blank EXCEPT !.amounts = [replicas |-> n, ttl_seconds |-> n]] : n \in {0, 60, 201, 1801}}

--------------------------------------------------------------------------------
(* Calls. *)

NoAnswer == [tool |-> "none", code |-> "", shown |-> {}, items |-> <<>>, fetched |-> <<>>,
             truncated |-> FALSE, budget |-> 0, cleaned |-> <<>>,
             refspec |-> [from |-> <<>>, to |-> <<>>, plus |-> FALSE, matching |-> FALSE]]

Init ==
  /\ session \in Sessions
  /\ world = [kv |-> [k \in Keys |-> IF k \in SetKeys THEN 2 ELSE Missing],
              expires |-> {Head(KeyOrder), Last(KeyOrder)},
              heard |-> {}, sizes |-> {1, 4},
              topic |-> [n \in DataNames.topics |->
                           <<[key |-> 1, value |-> 1], [key |-> 2, value |-> 2]>>],
              queue |-> [n \in DataNames.queues |-> <<2, 2>>],
              docs |-> [n \in DataNames.databases |-> <<2, 2>>]]
  /\ git = Git!GitInit /\ last = NoAnswer /\ calls = 0 /\ pushes = 0
  /\ Kept!Init /\ (session.focus # "results" => wiring = CHOOSE w \in Wirings : TRUE)

Handler(tool, r) ==
  CASE tool = "conn.list_profiles" -> ConnListProfiles(session, r, world)
    [] tool = "conn.describe_profile" -> ConnDescribeProfile(session, r, world)
    [] tool = "redis.get" -> RedisGet(session, r, world)
    [] tool = "redis.mget" -> RedisMGet(session, r, world)
    [] tool = "redis.scan" -> RedisScan(session, r, world)
    [] tool = "redis.ttl" -> RedisTTL(session, r, world)
    [] tool = "redis.exists" -> RedisExists(session, r, world)
    [] tool = "redis.set" -> RedisSet(session, r, world)
    [] tool = "redis.del" -> RedisDel(session, r, world)
    [] tool = "nats.request" -> NATSRequest(session, r, world)
    [] tool = "nats.publish" -> NATSPublish(session, r, world)
    [] tool = "nats.subscribe_pull" -> NATSSubscribePull(session, r, world)
    [] tool = "kafka.consume" -> KafkaConsume(session, r, world)
    [] tool = "kafka.produce" -> KafkaProduce(session, r, world)
    [] tool = "kafka.topic_metadata" -> KafkaTopicMetadata(session, r, world)
    [] tool = "rabbit.consume" -> RabbitConsume(session, r, world)
    [] tool = "rabbit.publish" -> RabbitPublish(session, r, world)
    [] tool = "rabbit.queue_info" -> RabbitQueueInfo(session, r, world)
    [] tool = "mongo.find" -> MongoFind(session, r, world)
    [] tool = "mongo.aggregate" -> MongoAggregate(session, r, world)

\* The names that an answer tells something of.
Shown(tool, r, a) ==
  IF a.code # "ok" THEN {}
  ELSE IF tool \in {"redis.get", "redis.ttl"} THEN {r.key}
  ELSE IF tool \in {"redis.mget", "redis.exists"} THEN ToSet(r.keys)
  ELSE ToSet(a.keys)

Asked(tool, r) == calls < session.maxCalls /\ calls' = calls + 1 /\ UNCHANGED <<session, pushes>>

Refused(tool, r) ==
  /\ Decision(tool, r) # Allow /\ Asked(tool, r)
  /\ last' = [NoAnswer EXCEPT !.tool = tool, !.code = Decision(tool, r)]
  /\ UNCHANGED <<world, git>>

CallData(tool, r) ==
  /\ Decision(tool, r) = Allow /\ Asked(tool, r)
  /\ \E a \in Handler(tool, r) :
       /\ world' = a.w
       /\ last' = [tool |-> tool, code |-> a.code, shown |-> Shown(tool, r, a), items |-> a.items,
                   fetched |-> a.fetched, truncated |-> a.truncated, budget |-> r.maxBytes,
                   cleaned |-> <<>>, refspec |-> NoAnswer.refspec]
  /\ UNCHANGED git

GitHandler(tool, r) ==
  CASE tool = "git.status" -> Git!GitStatus(git, session, r)
    [] tool = "git.diff" -> Git!GitDiff(git, session, r)
    [] tool = "git.diff_file" -> Git!GitDiffFile(git, session, r)
    [] tool = "git.log" -> Git!GitLog(git, session, r)
    [] tool = "git.show" -> Git!GitShow(git, session, r)
    [] tool = "git.branch_list" -> Git!GitBranchList(git, session, r)
    [] tool = "git.blame" -> Git!GitBlame(git, session, r)
    [] tool = "git.apply_patch" -> Git!GitApplyPatch(git, session, r)
    [] tool = "git.checkout" -> Git!GitCheckout(git, session, r)
    [] tool = "git.commit" -> Git!GitCommit(git, session, r)
    [] tool = "git.push" -> Git!GitPush(git, session, r)
    [] tool = "git.fetch" -> Git!GitFetch(git, session, r)
    [] tool = "git.pull" -> Git!GitPull(git, session, r)

CallGit(tool, r) ==
  /\ Decision(tool, r) = Allow /\ Asked(tool, r)
  /\ \E a \in GitHandler(tool, r) :
       git' = a[2] /\ last' = [NoAnswer EXCEPT !.tool = tool, !.cleaned = r.cleanup,
         !.refspec = [from |-> r.from, to |-> r.ref, plus |-> r.plus, matching |-> r.matching],
         !.code = IF a[1] \in Git!GitErrors THEN "failed" ELSE a[1]]
  /\ UNCHANGED world

\* A call to a tool of the cluster, of images or of notifications, as far as the policy
\* decides it.
CallCluster(tool, r) ==
  /\ Decision(tool, r) = Allow /\ Asked(tool, r)
  /\ last' = [NoAnswer EXCEPT !.tool = tool, !.code = "ok", !.shown = Values(r.namespace)]
  /\ UNCHANGED <<world, git>>

\* Others: a key comes or expires, a commit is pushed to a remote.
KeySet(k) ==
  /\ world.kv[k] = Missing /\ calls < session.maxCalls /\ calls' = calls + 1
  /\ world' = [world EXCEPT !.kv[k] = 1]
  /\ UNCHANGED <<session, git, last, pushes>>

KeyExpires(k) ==
  /\ k \in world.expires /\ world.kv[k] # Missing
  /\ world' = [world EXCEPT !.kv[k] = Missing, !.expires = @ \ {k}]
  /\ UNCHANGED <<session, git, last, calls, pushes>>

OthersPush(o, b) ==
  /\ pushes = 0 /\ pushes' = 1
  /\ git.remote[o][b] # Git!NoBranch
  /\ git' = [git EXCEPT !.remote[o][b] = @ \cup {MaxCommits + 1}]
  /\ UNCHANGED <<session, world, last, calls>>

\* The families share no state: a behaviour has calls of one.
RedisTools == {"redis.get", "redis.mget", "redis.scan", "redis.ttl", "redis.exists",
               "redis.set", "redis.del"}

RedisNext ==
  \/ \E tool \in RedisTools : \E r \in RedisRequests(tool) : CallData(tool, r) \/ Refused(tool, r)
  \/ \E k \in Keys : KeySet(k) \/ KeyExpires(k)

MessageNext ==
  \/ \E tool \in {"nats.request", "nats.publish", "nats.subscribe_pull"} :
       \E r \in NatsRequests(tool) : CallData(tool, r) \/ Refused(tool, r)
  \/ \E tool \in {"kafka.consume", "kafka.produce", "kafka.topic_metadata"} :
       \E r \in KafkaRequests(tool) : CallData(tool, r) \/ Refused(tool, r)
  \/ \E tool \in {"rabbit.consume", "rabbit.publish", "rabbit.queue_info"} :
       \E r \in RabbitRequests(tool) : CallData(tool, r) \/ Refused(tool, r)
  \/ \E tool \in {"mongo.find", "mongo.aggregate"} :
       \E r \in MongoRequests(tool) : CallData(tool, r) \/ Refused(tool, r)
  \/ \E tool \in {"conn.list_profiles", "conn.describe_profile"}, p \in {"", "dev.nats", "other"} :
       CallData(tool, Of(p)) \/ Refused(tool, Of(p))

GitNext ==
  \/ \E tool \in GitReaders \cup GitWriters : \E r \in GitRequests(tool) :
       CallGit(tool, r) \/ Refused(tool, r)
  \/ \E o \in Remotes, b \in Branches : OthersPush(o, b)

ClusterNext ==
  \E tool \in ClusterAsked : \E r \in ClusterRequests(tool) : CallCluster(tool, r) \/ Refused(tool, r)

Next ==
  \/ /\ \/ session.focus = "cluster" /\ ClusterNext
        \/ session.focus = "redis" /\ RedisNext
        \/ session.focus = "messages" /\ MessageNext
        \/ session.focus = "git" /\ GitNext
     /\ UNCHANGED keptVars
  \/ session.focus = "results" /\ Kept!Next /\ UNCHANGED callVars

Spec == Init /\ [][Next]_vars

--------------------------------------------------------------------------------
(* Properties. *)

KeyInScope(k) ==
  /\ prefixAllowlistMatch(k, ProfileOf(session, "dev.redis").scope)
  /\ argsAllowedByKeyPrefixPolicy(Given(<<k>>), session.meta)

\* redis.*, nats.*, kafka.*: whatever the sequence of calls, an answer tells only of keys, and an
\* effect is only on keys, subjects and topics, that both the session's policy and the profile of
\* the connection allow.  (rabbit.publish is not among them: its routing key is not checked.)
WithinScope ==
  [][/\ session.focus = "redis" => \A k \in last'.shown : KeyInScope(k)
     /\ calls' # calls /\ last' # last =>
          /\ \A k \in Keys : world'.kv[k] # world.kv[k] => KeyInScope(k)
          /\ \A n \in world'.heard \ world.heard :
               /\ argsAllowedBySubjectPolicy(Given(<<n>>), session.meta)
               /\ subjectAllowedByProfile(n, ProfileOf(session, "dev.nats"))
          /\ \A n \in DataNames.topics : world'.topic[n] # world.topic[n] =>
               /\ argsAllowedByTopicPolicy(Given(<<n>>), session.meta)
               /\ topicAllowedByProfile(n, ProfileOf(session, "dev.kafka"))]_vars

\* What the call just answered may have sent to branch b without naming it: with no refspec the
\* branch that was checked out, with ":" any.
Unnamed(b) == last'.refspec.to = <<>> /\ (b = git.head \/ last'.refspec.matching)

\* Whether the call just answered was told to overwrite or delete branch b: cleanup_ref, "+", ":ref".
ToldTo(b) ==
  \/ last'.cleaned = b
  \/ last'.refspec.plus /\ last'.refspec.to \in {<<>>, b}
  \/ last'.refspec.to = b /\ last'.refspec.from = <<>>

\* git.push: a call changes only remote branches within the session's allowed prefixes, but for
\* those that the refspec leaves unnamed, which are not checked; only of remotes that the session
\* allows, but for a reference to delete first, which goes before the remote is checked; and a
\* commit that others pushed leaves a remote branch only when the call was told to overwrite or
\* delete the branch, or the session had fetched the commit before.
RemotesKept ==
  [][calls' # calls => \A o \in Remotes, b \in Branches : git'.remote[o][b] # git.remote[o][b] =>
       /\ Git!gitRefAllowed(session, b) \/ Unnamed(b)
       /\ Git!gitRemoteAllowed(session, o) \/ last'.cleaned = b
       /\ MaxCommits + 1 \in git.remote[o][b] \ git'.remote[o][b] =>
            ToldTo(b) \/ MaxCommits + 1 \in git.tracking[o][b]]_vars

\* redis.get, redis.mget and redis.scan: an answer is within its budget of bytes or keys, and one
\* that lacks something of what Redis has for the request says so: a value that was cut, values
\* after it, keys that a scan found too many or has not come to.  (The readers of queues and
\* collections are not among them: rabbit.consume drops messages that it has acknowledged, and
\* mongo.find stops at its limit of documents, and neither says so.)
RedisCutsFlagged ==
  last.tool \in {"redis.get", "redis.mget", "redis.scan"} =>
    /\ Total(last.items) <= last.budget
    /\ last.items # last.fetched => last.truncated

\* Whatever is left of records and objects, results are read back as they were: see Artifacts.
ReadsBack == Kept!ReadsBack

================================================================================
