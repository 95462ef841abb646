----------------------------- MODULE WorkspaceTree -----------------------------
(***************************************************************************)
(* The file tree of a workspace, as the fs tools see it: what the calls of *)
(* package os and the commands of the pod's shell do to it, and resolvePath*)
(* of internal/adapters/tools/path.go.                                     *)
(*                                                                         *)
(* A path is the sequence of its components, below the workspace root <<>>.*)
(* A component is the sequence of its parts around "__", which is how an   *)
(* undo snapshot is named.  A file's content is a sequence of lines.       *)
(***************************************************************************)
EXTENDS Integers, FiniteSets, SequencesExt

CONSTANTS
  Paths,   \* bound: the paths of the workspace, closed under prefixes
  Lines    \* the lines files are made of

ASSUME PathsClosed == <<>> \in Paths /\ \A p \in Paths : Prefixes(p) \subseteq Paths

\* The mark a runner leaves where it cut an output, and what files are made of with it.
Cut == "[output truncated]"
Text == Lines \cup {Cut}
Content == Seq(Text)

Root == <<>>
Absent == [kind |-> "none", data |-> <<>>]
Dir == [kind |-> "dir", data |-> <<>>]
File(content) == [kind |-> "file", data |-> content]

Exists(t, p) == t[p].kind # "none"
IsDir(t, p) == t[p].kind = "dir"
IsFile(t, p) == t[p].kind = "file"

\* What lies under p, p included.
Under(p) == {q \in Paths : IsPrefix(p, q)}

\* A tree as every file system keeps it: what exists lies in a directory.
WellFormed(t) == \A p \in Paths : Exists(t, p) => IsDir(t, Front(p))

\* The same, of every directory on the way, of a tree of directories and files.
Nested(t) ==
  /\ Exists(t, Root) => IsDir(t, Root)
  /\ \A p \in Paths, q \in Paths : Exists(t, q) /\ IsPrefix(p, q) /\ p # q => IsDir(t, p)

Node(x) == x \in {Absent, Dir} \/ (x = File(x.data) /\ x.data \in Content)

IsTree(t) == t = [p \in Paths |-> t[p]] /\ (\A p \in Paths : Node(t[p])) /\ Nested(t)

\* The outcome of one call: whether it succeeded, and the tree it leaves.
Done(t) == [ok |-> TRUE, tree |-> t]
Failed(t) == [ok |-> FALSE, tree |-> t]

\* os.Mkdir, mkdir.
Mkdir(t, p) ==
  IF Exists(t, p) \/ p = Root \/ ~IsDir(t, Front(p)) THEN Failed(t)
  ELSE Done([t EXCEPT ![p] = Dir])

\* os.MkdirAll, mkdir -p: a file on the way stops it before it made anything below.
MkdirAll(t, p) ==
  IF \E q \in Prefixes(p) : IsFile(t, q) THEN Failed(t)
  ELSE Done([q \in Paths |-> IF IsPrefix(q, p) THEN Dir ELSE t[q]])

\* os.WriteFile, cat >.
Put(t, p, content) ==
  IF p = Root \/ IsDir(t, p) \/ ~IsDir(t, Front(p)) THEN Failed(t)
  ELSE Done([t EXCEPT ![p] = File(content)])

\* os.RemoveAll, rm -rf.
RemoveAll(t, p) == [q \in Paths |-> IF q \in Under(p) THEN Absent ELSE t[q]]

\* The subtree at src, copied to dst: cp -R, copyDirectoryRecursive.
Graft(t, src, dst) ==
  [q \in Paths |->
     IF q \notin Under(dst) THEN t[q]
     ELSE LET s == src \o SubSeq(q, Len(dst) + 1, Len(q))
          IN  IF s \in Paths THEN t[s] ELSE Absent]

\* Bound: the subtree at src fits among Paths when it is put at dst.
Fits(t, src, dst) ==
  \A q \in Under(src) : Exists(t, q) => dst \o SubSeq(q, Len(src) + 1, Len(q)) \in Paths

\* Mutant: the source stays.
Mut_RenameByCopy(t, src, dst) ==
  IF IsPrefix(src, dst) \/ ~Exists(t, src) \/ ~IsDir(t, Front(dst)) THEN Failed(t)
  ELSE Done(Graft(t, src, dst))

\* os.Rename and mv to a free name: a directory does not go into itself.
Rename(t, src, dst) ==
  IF IsPrefix(src, dst) \/ ~Exists(t, src) \/ ~IsDir(t, Front(dst)) THEN Failed(t)
  ELSE Done(RemoveAll(Graft(t, src, dst), src))

\* Mutant: a prefix of an allowed path is taken for one.
Mut_AllowedEither(p, allowed) ==
  allowed = {} \/ \E a \in allowed : IsPrefix(a, p) \/ IsPrefix(p, a)

\* pathAllowed: an empty list allows everything.
pathAllowed(p, allowed) == allowed = {} \/ \E a \in allowed : IsPrefix(a, p)

\* resolvePath: "escape" stands for the paths that leave the workspace.
resolvePath(p, allowed) == IF p \in Paths /\ pathAllowed(p, allowed) THEN "ok"
                           ELSE "policy_denied"

\* undoSnapshotPath: the separators of the path become "__".
undoSnapshotPath(p) == FlattenSeq(p)

================================================================================
