-------------------------------- MODULE FsTools --------------------------------
(***************************************************************************)
(* The workspace tools of internal/adapters/tools that read and change     *)
(* files: fs_tools.go, insert_tools.go, undo_tools.go, read_lines_tools.go,*)
(* glob_tools.go, tree_tools.go and artifact_tools.go, with the command    *)
(* runners behind them.                                                    *)
(*                                                                         *)
(* Every tool exists twice: through package os when the session runs on    *)
(* the runtime's own disk, and as shell commands that a CommandRunner      *)
(* sends to the session's pod.  The second can time out before or after a  *)
(* command took effect, and cuts what it reads at MaxBytes.                *)
(***************************************************************************)
EXTENDS WorkspaceTree

CONSTANTS
  Allowed,    \* the allowed_paths a session may have
  InitTrees,  \* the trees a session may start with
  Contents,   \* the contents fs.write_file is given
  MaxBytes,   \* size at which a runner cuts a text, and limit of a write
  MaxOut,     \* lines at which a runner cuts a listing
  MaxLen,     \* bound: size of a file
  MaxCalls    \* bound: tool calls

ASSUME SizesTyped == {MaxBytes, MaxOut, MaxLen, MaxCalls} \subseteq Nat

Components == UNION {ToSet(p) : p \in Paths \cup UNION Allowed}

ASSUME PathsTyped == IsFiniteSet(Paths) /\ Paths \cup UNION Allowed \subseteq Seq(Components)

ASSUME TreesTyped == \A t \in InitTrees : IsTree(t)

ASSUME ContentsTyped == Contents \subseteq Seq(Lines)

VARIABLES
  tree,     \* the workspace
  undo,     \* .underpass-undo: the snapshot under each name
  session,  \* its runtime and its allowed_paths
  last,     \* the last call and its answer
  calls

vars == <<tree, undo, session, last, calls>>

\* A path out of the workspace.
Escape == << <<"..">> >>

Names == {undoSnapshotPath(p) : p \in Paths}
Targets == Paths \cup {Escape}

\* truncate
truncate(content) ==
  IF Len(content) <= MaxBytes THEN content ELSE Append(SubSeq(content, 1, MaxBytes), Cut)

Answer(code, claim, t, u) == [code |-> code, claim |-> claim, tree |-> t, undo |-> u]

\* A call that ends without touching anything.
Refuse(code, t, u) == Answer(code, "none", t, u)

Code(ok) == IF ok THEN "ok" ELSE "execution_failed"

\* toFSRunnerError: a script that failed for a missing path is told apart.
toFSRunnerError(missing) == IF missing THEN "not_found" ELSE "execution_failed"

--------------------------------------------------------------------------------
(* fs.mkdir, fs.move, fs.copy, fs.delete: on disk, and as a script. *)

FSMkdirLocal(t, u, r) ==
  LET made == IF r.parents THEN MkdirAll(t, r.path) ELSE Mkdir(t, r.path)
  IN  IF Exists(t, r.path)
      THEN Refuse(Code(IsDir(t, r.path) /\ r.existOk), t, u)
      ELSE Answer(Code(made.ok), IF made.ok THEN "created" ELSE "none", made.tree, u)

\* The last command of the script is "chmod ... || true": once the path was not there
\* the script succeeds, whatever became of mkdir.
FSMkdirRemote(t, u, r) ==
  LET made == IF r.parents THEN MkdirAll(t, r.path) ELSE Mkdir(t, r.path)
      ok == ~Exists(t, r.path) \/ (IsDir(t, r.path) /\ r.existOk)
  IN  Answer(Code(ok), IF ok THEN "created" ELSE "none",
             IF Exists(t, r.path) THEN t ELSE made.tree, u)

\* Mutant: overwrite is not looked at.
Mut_OverwriteAlways(t, r) ==
  LET made == IF r.parents /\ r.dst # Root THEN MkdirAll(t, Front(r.dst)) ELSE Done(t)
  IN  IF ~made.ok THEN Failed(made.tree) ELSE Done(RemoveAll(made.tree, r.dst))

\* The destination as a move or a copy finds it: parents made, an old one removed.
Prepared(t, r) ==
  LET made == IF r.parents /\ r.dst # Root THEN MkdirAll(t, Front(r.dst)) ELSE Done(t)
      taken == Exists(made.tree, r.dst)
  IN  IF ~made.ok \/ (taken /\ ~r.overwrite) THEN Failed(made.tree)
      ELSE Done(IF taken THEN RemoveAll(made.tree, r.dst) ELSE made.tree)

FSMoveLocal(t, u, r) ==
  LET ready == Prepared(t, r)
      moved == Rename(ready.tree, r.path, r.dst)
  IN  IF r.path = r.dst THEN Refuse("ok", t, u)
      ELSE IF ~Exists(t, r.path) THEN Refuse("not_found", t, u)
      ELSE IF ~ready.ok THEN Refuse("execution_failed", ready.tree, u)
      ELSE Answer(Code(moved.ok), IF moved.ok THEN "moved" ELSE "none", moved.tree, u)

FSMoveRemote(t, u, r) ==
  LET ready == Prepared(t, r)
      moved == Rename(ready.tree, r.path, r.dst)
      gone == ~Exists(t, r.path) \/ (ready.ok /\ ~Exists(ready.tree, r.path))
      orphan == ready.ok /\ ~Exists(ready.tree, Front(r.dst))
  IN  IF r.path = r.dst THEN Refuse("ok", t, u)
      ELSE IF ~Exists(t, r.path) THEN Refuse(toFSRunnerError(TRUE), t, u)
      ELSE IF ~ready.ok THEN Refuse("execution_failed", ready.tree, u)
      ELSE IF moved.ok THEN Answer("ok", "moved", moved.tree, u)
      ELSE Refuse(toFSRunnerError(gone \/ orphan), ready.tree, u)

\* fsCopyPrepareDestination comes before fsCopyDispatch looks at recursive, and the copy
\* makes the parents of its destination even when it was told not to.
FSCopyLocal(t, u, r) ==
  LET ready == Prepared(t, r)
      now == ready.tree
      parent == MkdirAll(now, Front(r.dst))
  IN  IF r.path = r.dst THEN Refuse("invalid_argument", t, u)
      ELSE IF ~Exists(t, r.path) THEN Refuse("execution_failed", t, u)
      ELSE IF ~ready.ok THEN Refuse("execution_failed", now, u)
      ELSE IF IsDir(t, r.path) /\ ~r.recursive THEN Refuse("invalid_argument", now, u)
      ELSE IF Exists(now, r.path) /\ parent.ok
           THEN Answer("ok", "copied", Graft(parent.tree, r.path, r.dst), u)
      ELSE Refuse("execution_failed", now, u)

FSCopyRemote(t, u, r) ==
  LET ready == Prepared(t, r)
      now == ready.tree
      there == Exists(now, r.path) /\ IsDir(now, Front(r.dst))
  IN  IF r.path = r.dst THEN Refuse("invalid_argument", t, u)
      ELSE IF ~Exists(t, r.path) THEN Refuse(toFSRunnerError(TRUE), t, u)
      ELSE IF IsDir(t, r.path) /\ ~r.recursive THEN Refuse("execution_failed", t, u)
      ELSE IF ~ready.ok THEN Refuse("execution_failed", now, u)
      ELSE IF there THEN Answer("ok", "copied", Graft(now, r.path, r.dst), u)
      ELSE Refuse(toFSRunnerError(TRUE), now, u)

FSDeleteLocal(t, u, r) ==
  IF ~Exists(t, r.path) THEN Refuse(Code(r.force), t, u)
  ELSE IF IsDir(t, r.path) /\ ~r.recursive THEN Refuse("invalid_argument", t, u)
  ELSE Answer("ok", "deleted", RemoveAll(t, r.path), u)

\* Mutant: the script does not look at recursive.
Mut_DeleteRemoteAll(t, u, r) ==
  IF ~Exists(t, r.path) /\ ~r.force THEN Refuse("not_found", t, u)
  ELSE Answer("ok", "deleted", RemoveAll(t, r.path), u)

FSDeleteRemote(t, u, r) ==
  IF ~Exists(t, r.path) /\ ~r.force THEN Refuse(toFSRunnerError(TRUE), t, u)
  ELSE IF IsDir(t, r.path) /\ ~r.recursive THEN Refuse("execution_failed", t, u)
  ELSE Answer("ok", "deleted", RemoveAll(t, r.path), u)

--------------------------------------------------------------------------------
(* fs.write_file, fs.edit, fs.insert and the snapshot they take; undo_edit. *)

\* SaveUndoSnapshot, SaveUndoSnapshotRemote: before anything is known of the edit, and
\* only of a file that can be read.
SaveUndoSnapshot(t, u, p) ==
  IF IsFile(t, p) THEN [u EXCEPT ![undoSnapshotPath(p)] = t[p]] ELSE u

\* fsEditApply: a sequence of at most one content.
fsEditApply(content, r) ==
  LET at == {i \in DOMAIN content : content[i] = r.old}
      change == IF r.all THEN at ELSE {Min(at)}
  IN  IF at = {} \/ (~r.all /\ Cardinality(at) > 1) THEN <<>>
      ELSE << FlattenSeq([i \in DOMAIN content |->
                            IF i \in change THEN r.new ELSE <<content[i]>>]) >>

\* fsInsertAtLine: after the given line, or at the end.
fsInsertAtLine(content, r) ==
  LET at == IF r.line > Len(content) THEN Len(content) ELSE r.line
  IN  SubSeq(content, 1, at) \o r.new \o SubSeq(content, at + 1, Len(content))

FSWriteLocal(t, u, r) ==
  LET saved == SaveUndoSnapshot(t, u, r.path)
      made == IF r.parents /\ r.path # Root THEN MkdirAll(t, Front(r.path)) ELSE Done(t)
      put == Put(made.tree, r.path, r.new)
  IN  IF Len(r.new) > MaxBytes THEN Refuse("invalid_argument", t, u)
      ELSE IF ~made.ok THEN Refuse("execution_failed", t, saved)
      ELSE Answer(Code(put.ok), IF put.ok THEN "written" ELSE "none", put.tree, saved)

FSWriteRemote(t, u, r) ==
  LET a == FSWriteLocal(t, u, r)
      orphan == ~r.parents /\ ~Exists(t, Front(r.path))
  IN  IF a.code = "execution_failed" /\ orphan
      THEN [a EXCEPT !.code = toFSRunnerError(TRUE)] ELSE a

FSEditLocal(t, u, r) ==
  LET saved == SaveUndoSnapshot(t, u, r.path)
      new == fsEditApply(t[r.path].data, r)
  IN  IF ~Exists(t, r.path) THEN Refuse("invalid_argument", t, saved)
      ELSE IF IsDir(t, r.path) THEN Refuse("execution_failed", t, saved)
      ELSE IF new = <<>> THEN Refuse("invalid_argument", t, saved)
      ELSE Answer("ok", "edited", Put(t, r.path, new[1]).tree, saved)

\* The content comes back as the output of "cat", which the runner cuts.
FSEditRemote(t, u, r) ==
  LET saved == SaveUndoSnapshot(t, u, r.path)
      new == fsEditApply(truncate(t[r.path].data), r)
  IN  IF ~IsFile(t, r.path) THEN Refuse(toFSRunnerError(~Exists(t, r.path)), t, saved)
      ELSE IF new = <<>> THEN Refuse("invalid_argument", t, saved)
      ELSE Answer("ok", "edited", Put(t, r.path, new[1]).tree, saved)

FSInsertLocal(t, u, r) ==
  LET saved == SaveUndoSnapshot(t, u, r.path)
      new == fsInsertAtLine(t[r.path].data, r)
  IN  IF ~Exists(t, r.path) THEN Refuse("invalid_argument", t, saved)
      ELSE IF IsDir(t, r.path) THEN Refuse("execution_failed", t, saved)
      ELSE Answer("ok", "edited", Put(t, r.path, new).tree, saved)

FSInsertRemote(t, u, r) ==
  LET saved == SaveUndoSnapshot(t, u, r.path)
      new == fsInsertAtLine(truncate(t[r.path].data), r)
  IN  IF ~IsFile(t, r.path) THEN Refuse(toFSRunnerError(~Exists(t, r.path)), t, saved)
      ELSE Answer("ok", "edited", Put(t, r.path, new).tree, saved)

\* The snapshot goes once the file is written: a failed undo can be tried again.
WorkspaceUndoEditLocal(t, u, r) ==
  LET name == undoSnapshotPath(r.path)
      put == Put(t, r.path, u[name].data)
  IN  IF u[name] = Absent THEN Refuse("invalid_argument", t, u)
      ELSE IF ~put.ok THEN Refuse("execution_failed", t, u)
      ELSE Answer("ok", "restored", put.tree, [u EXCEPT ![name] = Absent])

WorkspaceUndoEditRemote(t, u, r) ==
  LET name == undoSnapshotPath(r.path)
      put == Put(t, r.path, truncate(u[name].data))
  IN  IF u[name] = Absent THEN Refuse("invalid_argument", t, u)
      ELSE IF ~put.ok THEN Refuse(toFSRunnerError(~Exists(t, Front(r.path))), t, u)
      ELSE Answer("ok", "restored", put.tree, [u EXCEPT ![name] = Absent])

\* git apply removes a file with the directories that this leaves empty.
Unlink(t, p) ==
  [q \in Paths |->
     IF IsPrefix(q, p) /\ q # Root /\ \A x \in Under(q) : Exists(t, x) => IsPrefix(x, p)
     THEN Absent ELSE t[q]]

\* A file is renamed to a free place, the way to it made.
Relocated(t, from, to) ==
  LET made == MkdirAll(Unlink(t, from), Front(to)).tree
  IN  [made EXCEPT ![to] = t[from]]

\* The diff as git applies it: new content for the files of its "+++" lines, and a file
\* that has none of them since it is deleted, or renamed as it is.
Patched(t, r) ==
  LET written == [p \in Paths |-> IF p \in r.writes THEN File(r.new) ELSE t[p]]
  IN  IF r.from = Root THEN written
      ELSE IF r.to = Root THEN Unlink(written, r.from)
      ELSE Relocated(written, r.from, r.to)

Applies(t, r) ==
  /\ \A p \in r.writes : IsFile(t, p)
  /\ r.from # Root => r.from \notin r.writes /\ IsFile(t, r.from)
  /\ r.to # Root => ~Exists(t, r.to) /\ MkdirAll(t, Front(r.to)).ok

\* extractPatchPaths: only the files of the "+++" lines are looked at.
extractPatchPaths(r) == r.writes

\* fs.patch: git apply does all of the diff or none of it, except that --3way leaves the
\* conflicts it met in the files.
FSPatch(t, u, r) ==
  LET allowed == \A p \in extractPatchPaths(r) : resolvePath(p, session.allowed) = "ok"
  IN  IF extractPatchPaths(r) = {} THEN Refuse("invalid_argument", t, u)
      ELSE IF ~allowed THEN Refuse("policy_denied", t, u)
      ELSE IF Applies(t, r) /\ (~r.conflict \/ r.strategy = "apply")
           THEN Answer(Code(~r.conflict), "none", Patched(t, r), u)
      ELSE Refuse("execution_failed", t, u)

--------------------------------------------------------------------------------
(* The tools that only read: what each answers for a tree. *)

\* At most max of the elements of S: which ones depends on the order of the walk.
Capped(S, max) ==
  {K \in SUBSET S : Cardinality(K) = IF Cardinality(S) <= max THEN Cardinality(S) ELSE max}

\* The line that shows where a runner cut a listing.
Mark == << <<Cut>> >>

\* What a runner passes on of a listing; a line that it broke counts as not sent.
Sent(S) ==
  IF Cardinality(S) <= MaxOut THEN {S} ELSE {K \cup {Mark} : K \in Capped(S, MaxOut)}

Listing(t, p, recursive) ==
  {q \in Under(p) : Exists(t, q) /\ q # p /\ (recursive \/ Len(q) = Len(p) + 1)}

\* fs.list, on disk and with find, directories first; an empty set of answers is an error.
\* The mark is dropped with the lines that are not "type<tab>path".
FSListLocal(t, p, recursive, max) ==
  IF ~Exists(t, p) THEN {} ELSE IF IsFile(t, p) THEN {{p}}
  ELSE Capped(Listing(t, p, recursive), max)

FSListRemote(t, p, recursive, max) ==
  LET dirs == {q \in Listing(t, p, recursive) : IsDir(t, q)}
      files == {q \in Listing(t, p, recursive) : IsFile(t, q)}
      cap == Min({max, MaxOut})
      room == cap - Cardinality(dirs)
  IN  IF IsFile(t, p) THEN {{p}} ELSE IF ~IsDir(t, p) THEN {}
      ELSE IF room <= 0 THEN Capped(dirs, cap)
      ELSE {dirs \cup K : K \in Capped(files, room)}

\* fs.read_file: os.ReadFile, and dd of at most max bytes.
FSReadLocal(t, p, max) ==
  IF ~IsFile(t, p) THEN {}
  ELSE {IF Len(t[p].data) > max THEN SubSeq(t[p].data, 1, max) ELSE t[p].data}

FSReadRemote(t, p, max) ==
  IF t[p].kind # "file" THEN {}
  ELSE {[i \in 1 .. Min({max, Len(t[p].data)}) |-> t[p].data[i]]}

\* fs.stat: a missing path is an answer, not an error.
FSStatLocal(t, p) ==
  IF ~Exists(t, p) THEN [exists |-> FALSE, type |-> "none"]
  ELSE [exists |-> TRUE, type |-> t[p].kind]

FSStatRemote(t, p) ==
  LET type == IF IsDir(t, p) THEN "dir" ELSE IF IsFile(t, p) THEN "file" ELSE "missing"
  IN  IF type = "missing" THEN [exists |-> FALSE, type |-> "none"]
      ELSE [exists |-> TRUE, type |-> type]

Git == <<".git">>

\* fs.search for the lines x: a walk that skips .git and stops at max, and a grep of
\* everything of which the first max matches are kept.  Of a file that is named itself grep
\* gives no file names, and parseGrepLine drops lines without one, as it does the mark.
Matching(t, p, x) == {m \in Under(p) \X (1 .. MaxLen) :
                        /\ IsFile(t, m[1]) /\ m[2] \in DOMAIN t[m[1]].data
                        /\ t[m[1]].data[m[2]] = x}

FSSearchLocal(t, p, x, max) ==
  LET git(q) == \E i \in 1 .. Len(q) - 1 : i >= Len(p) /\ q[i] = Git
  IN  IF ~Exists(t, p) THEN {}
      ELSE Capped({m \in Matching(t, p, x) : ~git(m[1])}, max)

FSSearchRemote(t, p, x, max) ==
  IF ~Exists(t, p) THEN {} ELSE IF IsFile(t, p) THEN {{}}
  ELSE Capped(Matching(t, p, x), Min({max, MaxOut}))

\* fs.glob for the files whose last component is n.  The remote one takes limit + 1 files
\* of any name first and matches those.
FSGlobLocal(t, p, n, limit) ==
  LET hits == {q \in Under(p) : Exists(t, q) /\ q # p /\ Last(q) = n}
  IN  {[matches |-> K, truncated |-> Cardinality(hits) > limit] : K \in Capped(hits, limit)}

FSGlobRemote(t, p, n, limit) ==
  LET hits(seen) == {q \in seen : Last(q) = n}
  IN  UNION {{[matches |-> K, truncated |-> Cardinality(K) >= limit] :
                K \in Capped(hits(seen), limit)} :
               seen \in Capped({q \in Under(p) : IsFile(t, q)}, Min({limit + 1, MaxOut}))}

\* fs.read_lines: the clamps of Invoke, then the lines of the range; sed's the runner cuts.
FSReadLinesLocal(t, p, start, end, range) ==
  LET s == IF start < 1 THEN 1 ELSE start
      e == IF end < s THEN s ELSE end
      f == IF e - s + 1 > range THEN s + range - 1 ELSE e
  IN  IF ~IsFile(t, p) THEN {} ELSE {SubSeq(t[p].data, s, Min({f, Len(t[p].data)}))}

FSReadLinesRemote(t, p, start, end, range) ==
  {truncate(c) : c \in FSReadLinesLocal(t, p, start, end, range)}

\* repo.tree: entries down to a depth, without the ignored names.
RepoTreeLocal(t, p, depth, ignored, max) ==
  LET shown == {q \in Listing(t, p, TRUE) :
                  /\ Len(q) - Len(p) <= depth
                  /\ \A i \in Len(p) + 1 .. Len(q) : q[i] \notin ignored}
  IN  {[entries |-> K, truncated |-> Cardinality(shown) > max] : K \in Capped(shown, max)}

\* Mutant: one entry more than the limit is not asked for.
Mut_HeadExact(t, p, depth, ignored, max) ==
  LET shown == {q \in {p} \cup Listing(t, p, TRUE) : Len(q) - Len(p) <= depth}
  IN  {[entries |-> K, truncated |-> Cardinality(K) > max] : K \in Capped(shown, max)}

RepoTreeRemote(t, p, depth, ignored, max) ==
  LET shown == {q \in {p} \cup Listing(t, p, TRUE) :
                  /\ Len(q) - Len(p) <= depth
                  /\ \A i \in Len(p) + 1 .. Len(q) : q[i] \notin ignored}
  IN  {[entries |-> K, truncated |-> Cardinality(K) > max] :
         K \in UNION {Sent(S) : S \in Capped(shown, max + 1)}}

\* readWorkspaceFile of the artifact tools: on disk the whole file is read and cut at max,
\* in a pod at most max + 1 bytes are, so that a longer file shows.
readLocalFile(t, p, max) ==
  IF ~IsFile(t, p) THEN {}
  ELSE {[content |-> SubSeq(t[p].data, 1, Min({max, Len(t[p].data)})),
         truncated |-> Len(t[p].data) > max]}

readRemoteFile(t, p, max) ==
  LET sent == SubSeq(t[p].data, 1, Min({max + 1, Len(t[p].data)}))
  IN  IF t[p].kind # "file" THEN {}
      ELSE {[content |-> IF Len(sent) > max THEN SubSeq(sent, 1, max) ELSE sent,
             truncated |-> Len(sent) > max]}

\* artifact.upload answers with an artifact of the content it read, artifact.download with
\* the content itself, refused when it is to be utf8 and is not (encoded are those that are).
ArtifactUpload(read, name) ==
  {[artifact |-> [name |-> name, data |-> g.content], truncated |-> g.truncated] : g \in read}

ArtifactDownload(read, utf8, encoded) == {g \in read : utf8 => g.content \in encoded}

\* artifact.list: files under p whose path or last component matches, at most max; which
\* ones depends on the walk.  A directory is never among them.
artifactPathMatches(q, pattern) == pattern = <<>> \/ Last(q) = pattern

ArtifactListLocal(t, p, recursive, pattern, max) ==
  LET files == {q \in Listing(t, p, recursive) : IsFile(t, q) /\ artifactPathMatches(q, pattern)}
      found == IF IsFile(t, p) THEN {q \in {p} : artifactPathMatches(q, pattern)} ELSE files
  IN  IF ~Exists(t, p) THEN {}
      ELSE {[entries |-> K, truncated |-> Cardinality(K) >= max] : K \in Capped(found, max)}

\* find -type f, of which the lines that match are kept; the mark is one without a pattern.
ArtifactListRemote(t, p, recursive, pattern, max) ==
  LET lines == {q \in Under(p) : IsFile(t, q) /\ (recursive \/ Len(q) <= Len(p) + 1)}
      found(sent) == {q \in sent : artifactPathMatches(q, pattern)}
  IN  IF ~IsDir(t, p) /\ ~IsFile(t, p) THEN {}
      ELSE {[entries |-> K, truncated |-> Cardinality(K) >= max] :
              K \in UNION {Capped(found(sent), max) : sent \in Sent(lines)}}

--------------------------------------------------------------------------------
(* The calls. *)

MkdirReqs == [tool : {"fs.mkdir"}, path : Targets, parents : BOOLEAN, existOk : BOOLEAN]
MoveReqs == [tool : {"fs.move"}, path : Targets, dst : Targets, parents : BOOLEAN,
             overwrite : BOOLEAN]
CopyReqs == [tool : {"fs.copy"}, path : Targets, dst : Targets, parents : BOOLEAN,
             overwrite : BOOLEAN, recursive : BOOLEAN]
DeleteReqs == [tool : {"fs.delete"}, path : Targets, recursive : BOOLEAN, force : BOOLEAN]
WriteReqs == [tool : {"fs.write_file"}, path : Targets, new : Contents, parents : BOOLEAN]
EditReqs == [tool : {"fs.edit"}, path : Targets, old : Lines,
             new : {<<x>> : x \in Lines} \cup {<<>>}, all : BOOLEAN]
InsertReqs == [tool : {"fs.insert"}, path : Targets, line : {0, MaxLen},
               new : {<<x>> : x \in Lines}]
UndoReqs == [tool : {"workspace.undo_edit"}, path : Targets]
\* writes: the files of its "+++" lines; from: one that it deletes, or renames to another
\* place, without such a line; Root for none.  Bound: two files, and no conflict when it has
\* one to delete or rename.
Sets(n) == {T \in SUBSET (Targets \ {Root}) : Cardinality(T) <= n}
PatchReqs ==
  [tool : {"fs.patch"}, path : {Root}, writes : Sets(2), from : {Root}, to : {Root},
   new : Contents, conflict : BOOLEAN, strategy : {"apply", "reject_on_conflict"}]
  \cup
  [tool : {"fs.patch"}, path : {Root}, writes : Sets(1), from : Paths \ {Root}, to : Paths,
   new : Contents, conflict : {FALSE}, strategy : {"apply"}]

\* Invoke of fs.delete and of fs.edit refuses before it looks at the runtime.
FSDelete(t, u, r, remote) ==
  IF r.path = Root THEN Refuse("policy_denied", t, u)
  ELSE IF remote THEN FSDeleteRemote(t, u, r) ELSE FSDeleteLocal(t, u, r)

FSEdit(t, u, r, remote) ==
  IF r.new = <<r.old>> THEN Refuse("invalid_argument", t, u)
  ELSE IF remote THEN FSEditRemote(t, u, r) ELSE FSEditLocal(t, u, r)

\* What a handler does once its paths are accepted.
Handle(t, u, r, remote) ==
  CASE r.tool = "fs.mkdir" -> IF remote THEN FSMkdirRemote(t, u, r) ELSE FSMkdirLocal(t, u, r)
    [] r.tool = "fs.move" -> IF remote THEN FSMoveRemote(t, u, r) ELSE FSMoveLocal(t, u, r)
    [] r.tool = "fs.copy" -> IF remote THEN FSCopyRemote(t, u, r) ELSE FSCopyLocal(t, u, r)
    [] r.tool = "fs.delete" -> FSDelete(t, u, r, remote)
    [] r.tool = "fs.write_file" ->
         IF remote THEN FSWriteRemote(t, u, r) ELSE FSWriteLocal(t, u, r)
    [] r.tool = "fs.edit" -> FSEdit(t, u, r, remote)
    [] r.tool = "fs.insert" ->
         IF remote THEN FSInsertRemote(t, u, r) ELSE FSInsertLocal(t, u, r)
    [] r.tool = "fs.patch" -> FSPatch(t, u, r)
    [] OTHER -> IF remote THEN WorkspaceUndoEditRemote(t, u, r)
                ELSE WorkspaceUndoEditLocal(t, u, r)

\* resolvePath of every path the call names, before anything else.
Permitted(r) ==
  r.tool = "fs.patch" \/
  \A p \in {r.path} \cup (IF "dst" \in DOMAIN r THEN {r.dst} ELSE {}) :
     resolvePath(p, session.allowed) = "ok"

\* A command sent to the pod may time out before it had an effect, after it, or between
\* the commands of a script or of a call; without a workspace the pod's shell cannot
\* even change into its directory.
Interrupted(t, u, r) ==
  LET done == Handle(t, u, r, TRUE)
      middle == IF r.tool \in {"fs.move", "fs.copy"} /\ done.claim # "none"
                THEN Prepared(t, r).tree ELSE t
  IN  {Refuse("timeout", t, u), Refuse("timeout", t, done.undo),
       Refuse("timeout", middle, u), Refuse("timeout", done.tree, done.undo)}

Answers(t, u, r) ==
  IF ~Permitted(r) THEN {Refuse("policy_denied", t, u)}
  ELSE IF session.runtime = "local" THEN {Handle(t, u, r, FALSE)}
  ELSE IF ~IsDir(t, Root) THEN {Refuse(toFSRunnerError(TRUE), t, u)}
  ELSE {Handle(t, u, r, TRUE)} \cup Interrupted(t, u, r)

\* Bounds: files stay small, subtrees fit, and no directory is copied into itself.
Bounded(r) ==
  /\ r.tool = "fs.insert" /\ r.path \in Paths => Len(tree[r.path].data) < MaxLen
  /\ "dst" \in DOMAIN r /\ {r.path, r.dst} \subseteq Paths => Fits(tree, r.path, r.dst)
  /\ r.tool = "fs.copy" /\ r.path # r.dst => ~IsPrefix(r.path, r.dst)

Edits == {"fs.write_file", "fs.edit", "fs.insert"}

\* Engine.Invoke: one call of a tool.
Invoke(r) ==
  /\ calls < MaxCalls /\ Bounded(r)
  /\ \E a \in Answers(tree, undo, r) :
       /\ tree' = a.tree /\ undo' = a.undo
       /\ last' = [req |-> r, code |-> a.code, claim |-> a.claim]
  /\ calls' = calls + 1
  /\ UNCHANGED session

Init ==
  /\ tree \in InitTrees
  /\ undo = [n \in Names |-> Absent]
  /\ session \in [runtime : {"local", "kubernetes"}, allowed : Allowed]
  /\ last = [req |-> [tool |-> "none", path |-> Root], code |-> "ok", claim |-> "none"]
  /\ calls = 0

FsMkdir == \E r \in MkdirReqs : Invoke(r)
FsMove == \E r \in MoveReqs : Invoke(r)
FsCopy == \E r \in CopyReqs : Invoke(r)
FsDelete == \E r \in DeleteReqs : Invoke(r)
FsWrite == \E r \in WriteReqs : Invoke(r)
FsEdit == \E r \in EditReqs : Invoke(r)
FsInsert == \E r \in InsertReqs : Invoke(r)
UndoEdit == \E r \in UndoReqs : Invoke(r)
FsPatch == \E r \in PatchReqs : Invoke(r)

Next == \/ FsMkdir \/ FsMove \/ FsCopy \/ FsDelete \/ FsWrite
        \/ FsEdit \/ FsInsert \/ UndoEdit \/ FsPatch

Spec == Init /\ [][Next]_vars

--------------------------------------------------------------------------------
(* Properties. *)

\* What fs.patch does beside its "+++" lines: the file it deletes or renames, where that
\* goes, and the directories of both.
Unlooked(r, p) ==
  /\ r.tool = "fs.patch" /\ r.from # Root
  /\ IsPrefix(p, r.from) \/ (r.to # Root /\ IsPrefix(p, r.to))

ConfinedTo(allowed, t, v, r) ==
  \A p \in Paths : v[p] # t[p] =>
    \/ pathAllowed(p, allowed)
    \/ t[p] = Absent /\ v[p] = Dir /\ \E a \in allowed : IsPrefix(p, a)
    \/ Unlooked(r, p)

\* No tool call changes anything outside the session's allowed_paths (resolvePath,
\* pathAllowed) except for the directories that lead to an allowed path; but a patch that
\* writes an allowed file also deletes or renames any other, which extractPatchPaths does
\* not look at.
Confined == [][ConfinedTo(session.allowed, tree, tree', last'.req)]_vars

\* What a call names as what it writes, deletes or overwrites; an overwritten destination
\* goes with all that is under it, the source as well when that is there.
Asked(r, q) ==
  \/ r.tool \in Edits \cup {"workspace.undo_edit"} /\ q = r.path
  \/ r.tool = "fs.patch" /\ q \in r.writes \cup {r.from}
  \/ r.tool = "fs.delete" /\ q \in Under(r.path)
  \/ r.tool \in {"fs.move", "fs.copy"} /\ r.overwrite /\ q \in Under(r.dst)

Spared(t, v, r) ==
  \A q \in Paths : IsFile(t, q) /\ v[q] # t[q] =>
    \/ Asked(r, q)
    \/ /\ r.tool = "fs.move" /\ IsPrefix(r.path, q)
       /\ v[r.dst \o SubSeq(q, Len(r.path) + 1, Len(q))] = t[q]

\* A file loses its content only when the call names it as what it writes, deletes or
\* overwrites, or when it has moved: also when the call fails or is cut short.
LossIsAskedFor == [][Spared(tree, tree', last'.req)]_vars

Claimed(t, r, claim) ==
  /\ claim = "created" /\ session.runtime = "local" => IsDir(t, r.path)
  /\ claim = "moved" => Exists(t, r.dst) /\ ~Exists(t, r.path)
  /\ claim = "copied" => Exists(t, r.dst) /\ t = Graft(t, r.path, r.dst)
  /\ claim = "deleted" => \A q \in Under(r.path) : ~Exists(t, q)
  /\ claim = "written" => t[r.path] = File(r.new)

\* What an answer claims is true of the workspace: moved, copied, deleted, written, and
\* on disk also created; and it is a tree that a file system can hold.
AnswersHold == WellFormed(tree) /\ Claimed(tree, last.req, last.claim)

\* What a runner passes on uncut.
Whole(S) == Cardinality(S) <= MaxOut

SameEffect(l, m) == (l.code = "ok") = (m.code = "ok") /\ l.tree = m.tree /\ l.undo = m.undo

Small == /\ \A p \in Paths : Len(tree[p].data) <= MaxBytes
         /\ \A n \in Names : Len(undo[n].data) <= MaxBytes

\* The tools mean the same on disk and in a pod: the same calls succeed, and leave the
\* same files and snapshots, and fs.stat, fs.read_file, fs.list, fs.search, artifact.list
\* and the artifacts' contents answer the same.  Excepted are the contents and listings a
\* runner cuts, a copy without recursive of a directory or without create_parents, a failed
\* mkdir, a search of .git, and a search of a file, of which a pod finds nothing.
BackendsAgree ==
  (calls < MaxCalls /\ IsDir(tree, Root)) =>
    /\ \A r \in MoveReqs \cup DeleteReqs \cup WriteReqs \cup CopyReqs :
         Permitted(r) /\ Bounded(r)
           /\ (r.tool = "fs.copy" => r.parents /\ (IsDir(tree, r.path) => r.recursive))
           => SameEffect(Handle(tree, undo, r, FALSE), Handle(tree, undo, r, TRUE))
    /\ Small => \A r \in EditReqs \cup InsertReqs \cup UndoReqs :
         Permitted(r) => SameEffect(Handle(tree, undo, r, FALSE), Handle(tree, undo, r, TRUE))
    /\ \A p \in Paths :
         /\ FSStatLocal(tree, p) = FSStatRemote(tree, p)
         /\ \A max \in 0 .. MaxLen : FSReadLocal(tree, p, max) = FSReadRemote(tree, p, max)
         /\ \A b \in BOOLEAN, max \in 1 .. 2 :
              Whole(Listing(tree, p, b)) =>
                FSListRemote(tree, p, b, max) \subseteq FSListLocal(tree, p, b, max)
         /\ ~IsFile(tree, p) /\ (\A q \in Under(p) : Git \notin ToSet(q)) =>
              \A x \in Lines : Whole(Matching(tree, p, x)) =>
                FSSearchLocal(tree, p, x, 2) = FSSearchRemote(tree, p, x, 2)
         /\ \A max \in 1 .. 2 : readLocalFile(tree, p, max) = readRemoteFile(tree, p, max)
         /\ Whole({q \in Under(p) : IsFile(tree, q)}) =>
              \A b \in BOOLEAN, max \in 1 .. 2 : ArtifactListLocal(tree, p, b, <<>>, max)
                                                = ArtifactListRemote(tree, p, b, <<>>, max)

\* The lines of file q from start on, at most range of them.
LinesFrom(c, q, start, range) ==
  Len(c) <= range /\ \A i \in DOMAIN c : c[i] = tree[q].data[Max({start, 1}) + i - 1]

\* An answer of fs.glob on disk, of repo.tree, artifact.list, artifact.upload or
\* artifact.download that is not flagged truncated is complete, to the depth asked for, or
\* shows the mark of a runner's cut among its entries: in a pod that mark is all there is
\* to show it, and an artifact.list with a pattern, which drops it, is only complete when
\* the runner cut nothing.  One of fs.read_lines holds the lines asked for, up to a mark.
ReadersComplete ==
  calls < MaxCalls => \A p \in Paths : IsDir(tree, p) =>
    /\ \A n \in {Last(q) : q \in Paths \ {Root}}, limit \in 1 .. 2 :
         \A g \in FSGlobLocal(tree, p, n, limit) :
            ~g.truncated => g.matches = {q \in Listing(tree, p, TRUE) : Last(q) = n}
    /\ \A max \in 1 .. 3 :
         \A g \in RepoTreeLocal(tree, p, 2, {}, max) \cup RepoTreeRemote(tree, p, 2, {}, max) :
            ~g.truncated /\ Mark \notin g.entries =>
              {q \in Listing(tree, p, TRUE) : Len(q) - Len(p) <= 2} \subseteq g.entries
    /\ \A q \in Under(p), start \in 0 .. MaxLen, end \in 0 .. MaxLen, range \in 2 .. 3 :
         /\ \A c \in FSReadLinesLocal(tree, q, start, end, range) : LinesFrom(c, q, start, range)
         /\ \A c \in FSReadLinesRemote(tree, q, start, end, range) :
               \/ LinesFrom(c, q, start, range)
               \/ c # <<>> /\ Last(c) = Cut /\ LinesFrom(Front(c), q, start, range)
    /\ \A n \in {<<>>} \cup {Last(q) : q \in Paths \ {Root}}, max \in 1 .. 3 :
         \A g \in ArtifactListRemote(tree, p, TRUE, n, max) :
            /\ ~g.truncated /\ Mark \notin g.entries
            /\ n = <<>> \/ Whole({q \in Under(p) : IsFile(tree, q)})
            => {q \in Under(p) : IsFile(tree, q) /\ n \in {<<>>, Last(q)}} = g.entries
    /\ \A q \in Under(p), max \in 1 .. 2 :
         /\ \A g \in ArtifactUpload(readRemoteFile(tree, q, max), "report") :
               ~g.truncated => g.artifact.data = tree[q].data
         /\ \A g \in ArtifactDownload(readLocalFile(tree, q, max), TRUE, Contents) :
               ~g.truncated => g.content = tree[q].data

================================================================================
