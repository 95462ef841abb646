------------------------------- MODULE GitTools --------------------------------
(***************************************************************************)
(* The git tools of internal/adapters/tools/git_tools.go and git_blame_    *)
(* tools.go: what each answers, and what it does to the repository of the  *)
(* workspace and to its remotes.                                           *)
(*                                                                         *)
(* A handler is the set of the pairs of an error code and a repository it  *)
(* may leave.  A branch is the set of its commits; NoBranch is a branch    *)
(* that does not exist.  A reference is the sequence of its components.    *)
(***************************************************************************)
EXTENDS Integers, FiniteSets, SequencesExt

CONSTANTS Branches, Remotes, MaxCommits  \* bound: commits

NoBranch == {0}
Commits == 1 .. MaxCommits

\* What executeGit and toGitToolError make of a command that does not succeed.
GitErrors == {"timeout", "execution_failed", "git_repo_error", "git_usage_error"}

\* A command that changes nothing: answered, or failed.
executeGit(g) == {<<"ok", g>>} \cup {<<code, g>> : code \in GitErrors}

Denied(g) == {<<"policy_denied", g>>}

\* gitRefAllowedWithPrefixes: a prefix may be written with or without refs/heads.
gitRefAllowedWithPrefixes(prefixes, ref) ==
  \/ ref = <<>> \/ prefixes = {} \/ <<"*">> \in prefixes
  \/ \E p \in prefixes :
       \/ IsPrefix(p, ref)
       \/ /\ Head(ref) # "refs"
          /\ \E kind \in {"heads", "tags", "remotes"} : IsPrefix(p, <<"refs", kind>> \o ref)

gitRefAllowed(s, ref) == gitRefAllowedWithPrefixes(s.refPrefixes, ref)

\* gitRefspecAllowed: each side of a refspec that is given, without a leading "+".  No refspec,
\* and ":" alone, have none.
gitRefspecAllowed(s, spec) == \A side \in spec : gitRefAllowed(s, side)

gitRemoteAllowed(s, remote) == s.remotes = {} \/ {"*", remote} \cap s.remotes # {}

--------------------------------------------------------------------------------
(* The tools that only read. *)

GitStatus(g, s, r) == executeGit(g)

GitBranchList(g, s, r) == executeGit(g)

GitDiff(g, s, r) == IF r.pathsOk THEN executeGit(g) ELSE Denied(g)

GitLog(g, s, r) == IF gitRefAllowed(s, r.ref) THEN executeGit(g) ELSE Denied(g)

GitDiffFile(g, s, r) ==
  IF r.pathsOk /\ gitRefAllowed(s, r.ref) THEN executeGit(g) ELSE Denied(g)

GitShow(g, s, r) ==
  IF gitRefAllowed(s, r.ref) /\ r.pathsOk THEN executeGit(g) ELSE Denied(g)

GitBlame(g, s, r) == IF r.pathsOk THEN executeGit(g) ELSE Denied(g)

--------------------------------------------------------------------------------
(* The tools that change the repository. *)

\* A command that has the effect g2 when it succeeds, and may time out after it.
Effect(g, possible, g2) ==
  {<<code, g>> : code \in GitErrors}
    \cup (IF possible THEN {<<"ok", g2>>, <<"timeout", g2>>} ELSE {})

\* git.apply_patch: unsafe paths are reported as an invalid patch.
GitApplyPatch(g, s, r) ==
  IF ~r.valid THEN {<<"invalid_argument", g>>}
  ELSE IF ~r.pathsOk THEN Denied(g)
  ELSE Effect(g, TRUE, IF r.check THEN g ELSE [g EXCEPT !.dirty = TRUE])

GitCheckout(g, s, r) ==
  LET from == IF r.start = <<>> THEN g.head ELSE r.start
      there == g.branch[r.ref] # NoBranch
      clean == [g EXCEPT !.head = r.ref, !.dirty = @ /\ ~r.force, !.staged = @ /\ ~r.force]
  IN  IF ~gitRefAllowed(s, r.ref) \/ ~gitRefAllowed(s, r.start) THEN Denied(g)
      ELSE IF r.create
           THEN Effect(g, ~there /\ g.branch[from] # NoBranch,
                       [clean EXCEPT !.branch[r.ref] = g.branch[from]])
      ELSE Effect(g, there, clean)

\* "git add --all" comes before the paths are looked at.
GitCommit(g, s, r) ==
  LET added == IF r.all THEN [g EXCEPT !.staged = @ \/ g.dirty, !.dirty = FALSE] ELSE g
      next == Cardinality(UNION {g.branch[b] : b \in Branches} \ NoBranch) + 1
      commit == [added EXCEPT !.staged = FALSE, !.branch[g.head] = @ \cup {next}]
  IN  IF ~r.message THEN {<<"invalid_argument", g>>}
      ELSE (IF r.all THEN {<<code, g>> : code \in GitErrors} ELSE {})
             \cup (IF ~r.pathsOk THEN Denied(added)
                   ELSE Effect(added, added.staged /\ next \in Commits, commit))

\* What a refspec sends: "[+]from:ref", "[+]ref" (from is then ref), ":ref", which deletes, "[+]:",
\* which is every branch that both have, or none, the branch that is checked out.
Sends(g, r) ==
  IF r.ref # <<>> THEN {r.ref}
  ELSE IF r.matching
       THEN {b \in Branches : g.branch[b] # NoBranch /\ g.remote[r.remote][b] # NoBranch}
  ELSE {g.head}

Source(g, r, b) ==
  IF r.ref = <<>> THEN g.branch[b] ELSE IF r.from = <<>> THEN NoBranch ELSE g.branch[r.from]

Deletes(r) == r.ref # <<>> /\ r.from = <<>>

\* Mutant: a lease is on whatever the remote has now.
Mut_Accepts(g, r, b) ==
  LET there == g.remote[r.remote][b]
      new == Source(g, r, b)
  IN  /\ IF Deletes(r) THEN there # NoBranch ELSE new # NoBranch
      /\ \/ r.plus \/ r.lease
         \/ Deletes(r) \/ there \subseteq new \cup NoBranch

\* Whether the remote takes it: with "+" in any case; a lease is on what was last fetched; else a
\* branch goes forward, or is deleted.
Accepts(g, r, b) ==
  LET there == g.remote[r.remote][b]
      new == Source(g, r, b)
  IN  /\ IF Deletes(r) THEN there # NoBranch ELSE new # NoBranch
      /\ \/ r.plus
         \/ r.lease /\ g.tracking[r.remote][b] = there
         \/ ~r.lease /\ (Deletes(r) \/ there \subseteq new \cup NoBranch)

\* The branches that are taken change, on the remote and in what is known of it; the others do not.
Moved(g, r, known) ==
  [b \in Branches |-> IF b \in Sends(g, r) /\ Accepts(g, r, b) THEN Source(g, r, b) ELSE known[b]]

Pushed(g, r) ==
  [g EXCEPT !.remote[r.remote] = Moved(g, r, @), !.tracking[r.remote] = Moved(g, r, @)]

\* "git push" fails when a branch is refused, and has then sent the others.
PushEffect(g, r) ==
  LET whole == \A b \in Sends(g, r) : Accepts(g, r, b)
  IN  Effect(g, whole, Pushed(g, r)) \cup {<<"execution_failed", Pushed(g, r)>>}

\* executeGitRemoteCommand: the remote, then the refspec.
Remotely(g, s, r, answers) ==
  IF gitRemoteAllowed(s, r.remote) /\ gitRefspecAllowed(s, {r.from, r.ref})
  THEN answers ELSE Denied(g)

\* The reference that a push deletes first, where the remote has it.
Cleaned(g, r) ==
  IF r.cleanup = <<>> \/ g.remote[r.remote][r.cleanup] = NoBranch THEN g
  ELSE [g EXCEPT !.remote[r.remote][r.cleanup] = NoBranch,
                 !.tracking[r.remote][r.cleanup] = NoBranch]

\* git.push: the reference to delete first is deleted, if git can, before the remote and
\* the refspec of the push are looked at.
GitPush(g, s, r) ==
  IF ~gitRefspecAllowed(s, {r.cleanup}) THEN Denied(g)
  ELSE UNION {Remotely(h, s, r, PushEffect(h, r)) : h \in {g, Cleaned(g, r)}}

\* What a fetch brings: the reference that is asked for, or all.
Fetched(g, r) ==
  [g EXCEPT !.tracking[r.remote] =
    [b \in Branches |-> IF r.ref \in {<<>>, b} /\ (r.prune \/ g.remote[r.remote][b] # NoBranch)
                        THEN g.remote[r.remote][b] ELSE @[b]]]

GitFetch(g, s, r) == Remotely(g, s, r, Effect(g, TRUE, Fetched(g, r)))

\* git.pull: the remote's commits join the branch that is checked out.
GitPull(g, s, r) ==
  LET theirs == g.remote[r.remote][IF r.ref = <<>> THEN g.head ELSE r.ref]
  IN  Remotely(g, s, r, Effect(g, theirs # NoBranch /\ ~g.dirty,
                               [Fetched(g, r) EXCEPT !.branch[g.head] = @ \cup theirs]))

--------------------------------------------------------------------------------
(* The repository as the tools find it. *)

GitInit == [head |-> CHOOSE b \in Branches : TRUE, dirty |-> TRUE, staged |-> FALSE,
            branch |-> [b \in Branches |-> IF b = CHOOSE c \in Branches : TRUE
                                           THEN {1} ELSE NoBranch],
            remote |-> [o \in Remotes |-> [b \in Branches |-> {1}]],
            tracking |-> [o \in Remotes |-> [b \in Branches |-> NoBranch]]]

Histories == SUBSET Commits \cup {NoBranch}

GitRepos == [head : Branches, dirty : BOOLEAN, staged : BOOLEAN,
             branch : [Branches -> Histories],
             remote : [Remotes -> [Branches -> Histories]],
             tracking : [Remotes -> [Branches -> Histories]]]

================================================================================
