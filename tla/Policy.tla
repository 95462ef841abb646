--------------------------------- MODULE Policy --------------------------------
(***************************************************************************)
(* StaticPolicy of internal/adapters/policy: whether a call of a tool is   *)
(* allowed.                                                                *)
(*                                                                         *)
(* A text is the sequence of its characters (a word that no pattern splits *)
(* counts as one), a NATS subject the sequence of its tokens, a path the   *)
(* sequence of the components of its clean form: <<".">> is the root,      *)
(* <<"..", ...>> is outside.  An argument is absent, of a wrong type, or   *)
(* the sequence of the texts it holds; white space is left out.            *)
(***************************************************************************)
EXTENDS Integers, FiniteSets, SequencesExt

Absent == <<"absent", <<>>>>
Bad == <<"bad", <<>>>>
Given(texts) == <<"given", texts>>
IsGiven(arg) == arg[1] = "given"
Values(arg) == ToSet(arg[2])

Star == <<"*">>

--------------------------------------------------------------------------------
(* Patterns. *)

\* What is before and after one star may overlap in the value.
OneStarMatch(pattern, value) ==
  \E i \in DOMAIN pattern : /\ \A j \in DOMAIN pattern : pattern[j] = "*" <=> j = i
                            /\ IsPrefix(SubSeq(pattern, 1, i - 1), value)
                            /\ IsSuffix(SubSeq(pattern, i + 1, Len(pattern)), value)

\* wildcardPatternMatch; a pattern with several stars is a prefix when it ends like one.
wildcardPatternMatch(pattern, value) ==
  /\ pattern # <<>> /\ value # <<>>
  /\ \/ pattern = Star \/ pattern = value
     \/ IF IsSuffix(<<".", ">">>, pattern) THEN IsPrefix(Front(pattern), value)
        ELSE \/ OneStarMatch(pattern, value)
             \/ /\ Cardinality({i \in DOMAIN pattern : pattern[i] = "*"}) # 1
                /\ Last(pattern) \in {".", ":", "/"} /\ IsPrefix(pattern, value)

\* Where the ">" of a subject pattern is, after its end when there is none.
RestAt(pattern) ==
  CHOOSE i \in 1 .. Len(pattern) + 1 :
    /\ i <= Len(pattern) => pattern[i] = ">"
    /\ \A j \in 1 .. i - 1 : pattern[j] # ">"

TokensMatch(pattern, subject) ==
  \A i \in 1 .. RestAt(pattern) - 1 : i <= Len(subject) /\ pattern[i] \in {"*", subject[i]}

\* natsSubjectMatch: ">" also stands for no token at all.
natsSubjectMatch(pattern, subject) ==
  \/ pattern = subject
  \/ /\ TokensMatch(pattern, subject)
     /\ (RestAt(pattern) <= Len(pattern) \/ Len(pattern) = Len(subject))

patternAllowlistMatch(value, allowlist) ==
  \E pattern \in allowlist : wildcardPatternMatch(pattern, value)

prefixAllowlistMatch(value, allowlist) ==
  \E prefix \in allowlist : prefix = Star \/ IsPrefix(prefix, value)

natsSubjectAllowed(subject, allowlist) ==
  \E pattern \in allowlist : natsSubjectMatch(pattern, subject)

\* extractRegistryFromImageRef: the first component, when it can be a host.
extractRegistryFromImageRef(image) ==
  LET slashes == {i \in DOMAIN image : image[i] = "/"}
      first == SubSeq(image, 1, (CHOOSE i \in slashes : \A j \in slashes : i <= j) - 1)
  IN  IF slashes # {} /\ {".", ":", "localhost"} \cap ToSet(first) # {}
      THEN first ELSE <<"docker.io">>

\* isPathWithinAllowlist: "." allows what does not begin with "..", an absolute path too.
isPathWithinAllowlist(path, allowlist) ==
  \E a \in allowlist : IF a = <<".">> THEN Head(path) # ".." ELSE IsPrefix(a, path)

--------------------------------------------------------------------------------
(* The rules a capability has for its arguments. *)

\* checkFieldValuesAllowed: a list that is empty, or has "*", allows everything, even
\* arguments of a wrong type.
FieldAllowed(arg, allowlist, allowed) ==
  \/ allowlist = {} \/ Star \in allowlist
  \/ arg = Absent
  \/ IsGiven(arg) /\ \A v \in Values(arg) : v = <<>> \/ v \in allowed

argsAllowedByProfilePolicy(arg, m) ==
  FieldAllowed(arg, m.profiles, m.profiles)

argsAllowedBySubjectPolicy(arg, m) ==
  FieldAllowed(arg, m.subjects, {v \in Values(arg) : natsSubjectAllowed(v, m.subjects)})

argsAllowedByTopicPolicy(arg, m) ==
  FieldAllowed(arg, m.topics, {v \in Values(arg) : patternAllowlistMatch(v, m.topics)})

argsAllowedByQueuePolicy(arg, m) ==
  FieldAllowed(arg, m.queues, {v \in Values(arg) : patternAllowlistMatch(v, m.queues)})

argsAllowedByKeyPrefixPolicy(arg, m) ==
  FieldAllowed(arg, m.keys, {v \in Values(arg) : prefixAllowlistMatch(v, m.keys)})

argsAllowedByNamespacePolicy(arg, m) ==
  FieldAllowed(arg, m.namespaces, {v \in Values(arg) : patternAllowlistMatch(v, m.namespaces)})

argsAllowedByRegistryPolicy(arg, m) ==
  FieldAllowed(arg, m.registries,
               {v \in Values(arg) :
                  \/ patternAllowlistMatch(v, m.registries)
                  \/ patternAllowlistMatch(extractRegistryFromImageRef(v), m.registries)})

\* argsWithinAllowedPaths: no list is the list of ".".
argsWithinAllowedPaths(arg, allowed) ==
  LET paths == IF allowed = {} THEN {<<".">>} ELSE allowed
  IN  \/ arg = Absent
      \/ IsGiven(arg) /\ \A p \in Values(arg) : p = <<>> \/ isPathWithinAllowlist(p, paths)

\* argValueAllowed, of the rule f: what is denied comes before what is allowed.
argValueAllowed(v, f) ==
  /\ v # <<>>
  /\ f.maxLength > 0 => Len(v) <= f.maxLength
  /\ f.denyCharacters \cap ToSet(v) = {}
  /\ \A p \in f.deniedPrefix : ~IsPrefix(p, v)
  /\ IF f.allowedValues # {} THEN v \in f.allowedValues
     ELSE f.allowedPrefix # {} => \E p \in f.allowedPrefix : IsPrefix(p, v)

argsAllowedByPolicy(arg, f) ==
  \/ arg = Absent
  \/ /\ IsGiven(arg) /\ (f.maxItems > 0 => Len(arg[2]) <= f.maxItems)
     /\ \A v \in Values(arg) : argValueAllowed(v, f)

--------------------------------------------------------------------------------
(* The decision. *)

Allow == "allow"
NoRule == "no_rule"   \* the rule has nothing to say
Denied == "policy_denied"

scopeAllowed(roles, scope) ==
  \/ scope \in {"workspace", "repo"}
  \/ /\ scope \in {"cluster", "external"}
     /\ roles \cap {"devops", "platform_admin", "incident_communicator"} # {}

RolloutTools == {"k8s.get_replicasets", "k8s.rollout_pause", "k8s.rollout_undo"}
SaturationTools == {"k8s.scale_deployment", "k8s.restart_pods", "k8s.circuit_break"}

\* runtimeRolloutEnvironment: of the session's metadata, else of the process.
runtimeRolloutEnvironment(m) ==
  IF m.runtimeEnv \notin {"", "unknown"} THEN m.runtimeEnv
  ELSE IF m.workspaceEnv = "unknown" THEN "" ELSE m.workspaceEnv

\* authorizeEnvironmentMatch
EnvironmentMatches(m) ==
  LET env == runtimeRolloutEnvironment(m) IN env = "" \/ m.environment = env

authorizeRuntimeRolloutCapability(in) ==
  IF in.tool \notin RolloutTools THEN NoRule
  ELSE IF in.session.meta.profile # "runtime-rollout-narrow" THEN Denied
  ELSE IF in.tool # "k8s.get_replicasets" /\ ~EnvironmentMatches(in.session.meta)
       THEN "environment_mismatch"
  ELSE NoRule

\* The numbers of k8s.scale_deployment and k8s.circuit_break, each when it is given.
AmountsAllowed(in) ==
  LET Within(name, range) == name \in DOMAIN in.amounts => in.amounts[name] \in range
  IN  /\ in.tool = "k8s.scale_deployment" => /\ Within("replicas", 0 .. 200)
                                             /\ Within("replicas_delta", -50 .. 50)
      /\ in.tool = "k8s.circuit_break" => Within("ttl_seconds", 60 .. 1800)

\* authorizeSaturationCapability and authorizeNotifyCapability: their word is final, the
\* rules for arguments are not asked.
authorizeSpecialistCapability(in) ==
  LET profile == IF in.tool \in SaturationTools THEN "saturation-operator-bounded"
                 ELSE "human-escalation-minimal"
  IN  IF in.tool \notin SaturationTools \cup {"notify.escalation_channel"} THEN NoRule
      ELSE IF in.session.meta.profile # profile THEN Denied
      ELSE IF ~EnvironmentMatches(in.session.meta) THEN "environment_mismatch"
      ELSE IF AmountsAllowed(in) THEN Allow ELSE Denied

\* Each rule that the capability has, asked of its argument.
ArgumentsAllowed(in) ==
  LET m == in.session.meta
      Asked(kind) == kind \in in.cap.fields
      a == in.args
  IN  /\ Asked("path") => argsWithinAllowedPaths(a.path, in.session.allowedPaths)
      /\ Asked("arg") => argsAllowedByPolicy(a.arg, in.cap.rule)
      /\ Asked("profile") => argsAllowedByProfilePolicy(a.profile, m)
      /\ Asked("subject") => argsAllowedBySubjectPolicy(a.subject, m)
      /\ Asked("topic") => argsAllowedByTopicPolicy(a.topic, m)
      /\ Asked("queue") => argsAllowedByQueuePolicy(a.queue, m)
      /\ Asked("key") => argsAllowedByKeyPrefixPolicy(a.key, m)
      /\ Asked("namespace") => argsAllowedByNamespacePolicy(a.namespace, m)
      /\ Asked("registry") => argsAllowedByRegistryPolicy(a.registry, m)

Authorize(in) ==
  LET rollout == authorizeRuntimeRolloutCapability(in)
      special == authorizeSpecialistCapability(in)
  IN  IF ~scopeAllowed(in.session.roles, in.cap.scope) THEN Denied
      ELSE IF in.cap.risk = "high" /\ "platform_admin" \notin in.session.roles THEN Denied
      ELSE IF in.cap.approval /\ ~in.approved THEN "approval_required"
      ELSE IF rollout # NoRule THEN rollout
      ELSE IF special # NoRule THEN special
      ELSE IF ArgumentsAllowed(in) THEN Allow ELSE Denied

================================================================================
