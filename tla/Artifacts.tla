------------------------------- MODULE Artifacts -------------------------------
(***************************************************************************)
(* What becomes of the result of a tool run: the quota on results, the     *)
(* payloads written to the artifact store one by one, the record that      *)
(* refers to them, and the queries that read output, logs and artifacts    *)
(* back from the record and the objects, in whatever is left of both after *)
(* failed writes, a restart, or the expiry of the record.                  *)
(*                                                                         *)
(* A name is a sequence of path segments.  Output is a kind of value, with *)
(* the kinds of its fields when it is an object.                           *)
(***************************************************************************)
EXTENDS Naturals, Sequences, SequencesExt, FiniteSetsExt

CONSTANTS
  Invocations, \* the invocations, each of which runs once
  Results,     \* what a tool may return: output, logs, artifacts, err, and its schema
  Wirings,     \* the stores that are configured: [records, objects]
  Limits       \* the quotas on a result: [output, artifacts, bytes], 0 for none

VARIABLES
  wiring,  \* the stores of this deployment
  tasks,   \* the call of each invocation: where it is, and the result of its run
  records, \* the invocation store
  objects, \* the artifact store
  lost     \* invocations whose objects went with the volume of a pod

vars == <<wiring, tasks, records, objects, lost>>

Nil == [kind |-> "nil", fields |-> <<>>, size |-> 0]
NoRecord == [status |-> "none"]

OutputName == <<"invocation-output.json">>
LogsName == <<"invocation-logs.jsonl">>

--------------------------------------------------------------------------------
(* The artifact stores. *)

\* The last segment of the name; one that is empty or ".." is named artifact.bin.
sanitizeFilename(name) ==
  IF name = <<>> \/ Last(name) \in {"", ".."} THEN <<"artifact.bin">> ELSE <<Last(name)>>

\* An identifier is "artifact-" and a random number: one per write.
newArtifactID(i, n) == <<"artifact", i, n>>

Object(i, id, name, data) == [path |-> <<i, id, name>>, data |-> data]

Stored(i) == {o \in objects : o.path[1] = i}

\* List takes what is before the first "-" of a file name as the identifier.
List(i) ==
  {[id |-> <<o.path[2][1]>>, name |-> Tail(o.path[2]) \o o.path[3], path |-> o.path] :
     o \in Stored(i)}

Readable(path) == \E o \in objects : o.path = path
Read(path) == (CHOOSE o \in objects : o.path = path).data

--------------------------------------------------------------------------------
(* The run and its result. *)

TotalBytes(artifacts) == FoldLeft(LAMBDA n, a : n + a.data.size, 0, artifacts)

allowRunResult(r) ==
  /\ Limits.output > 0 /\ r.output.kind # "unencodable" => r.output.size <= Limits.output
  /\ Limits.artifacts > 0 => Len(r.artifacts) <= Limits.artifacts
  /\ Limits.bytes > 0 => TotalBytes(r.artifacts) <= Limits.bytes

\* What is written for a result: the artifacts of the tool, its output, its logs.
buildInvocationArtifactPayloads(r) ==
  r.artifacts
  \o (IF r.output = Nil THEN <<>>
      ELSE <<[name |-> OutputName,
              data |-> [as |-> "json", value |-> r.output, size |-> r.output.size]]>>)
  \o (IF r.logs = <<>> THEN <<>>
      ELSE <<[name |-> LogsName,
              data |-> [as |-> "lines", value |-> r.logs, size |-> Len(r.logs)]]>>)

matchesSchemaType(kind, type) ==
  CASE type = "object"  -> kind = "object"
    [] type = "array"   -> kind = "array"
    [] type = "string"  -> kind = "string"
    [] type = "boolean" -> kind = "boolean"
    [] type = "integer" -> kind \in {"integer", "wholeFloat"}
    [] type = "number"  -> kind \in {"integer", "wholeFloat", "float"}
    [] OTHER -> TRUE

\* An empty type of the schema, or of a property, asks for nothing.
validateOutputAgainstSchema(schema, output) ==
  schema.type = "" \/
    /\ matchesSchemaType(output.kind, schema.type)
    /\ schema.type = "object" =>
         /\ schema.required \subseteq DOMAIN output.fields
         /\ \A f \in DOMAIN schema.properties \cap DOMAIN output.fields :
              schema.properties[f] # "" => matchesSchemaType(output.fields[f], schema.properties[f])

\* What encoding as JSON and decoding makes of a value: numbers come back as floats, and
\* the structs of Go as maps.
Decoded(output) ==
  LET back(kind) == CASE kind = "integer" -> "wholeFloat" [] kind = "struct" -> "object" [] OTHER -> kind
  IN  [output EXCEPT !.kind = back(@), !.fields = [f \in DOMAIN @ |-> back(@[f])]]

--------------------------------------------------------------------------------
(* InvokeTool around the run. *)

Idle == [pc |-> "idle", res |-> NoRecord, left |-> <<>>, saved |-> <<>>, error |-> FALSE]

Init ==
  /\ wiring \in Wirings
  /\ tasks = [i \in Invocations |-> Idle]
  /\ records = [i \in Invocations |-> NoRecord]
  /\ objects = {} /\ lost = {}

Record(status) ==
  [status |-> status, output |-> Nil, logs |-> <<>>, outputRef |-> <<>>, logsRef |-> <<>>,
   artifacts |-> <<>>]

\* The invocation stores: the one in memory keeps the record, the envelope that Valkey gets
\* has neither output nor logs.
toEnvelope(record) ==
  IF wiring.records = "memory" THEN record ELSE [record EXCEPT !.output = Nil, !.logs = <<>>]

\* storeInvocation: only Valkey can fail.
Store(i, record, stored) ==
  /\ stored \/ wiring.records = "valkey"
  /\ records' = IF stored THEN [records EXCEPT ![i] = toEnvelope(record)] ELSE records

\* Without a stored record the call ends.
Start(i) ==
  /\ tasks[i].pc = "idle"
  /\ \E stored \in BOOLEAN :
       /\ Store(i, Record("running"), stored)
       /\ tasks' = [tasks EXCEPT ![i].pc = IF stored THEN "run" ELSE "done"]
  /\ UNCHANGED <<wiring, objects, lost>>

\* The tool returns r.  A result over its quota is denied, and nothing of it is kept.
Run(i, r) ==
  /\ tasks[i].pc = "run"
  /\ IF r.err = "" /\ ~allowRunResult(r)
     THEN /\ \E stored \in BOOLEAN : Store(i, Record("denied"), stored)
          /\ tasks' = [tasks EXCEPT ![i].pc = "done", ![i].res = r]
     ELSE /\ tasks' = [tasks EXCEPT ![i].res = r, ![i].pc = "save",
                         ![i].error = r.output.kind = "unencodable",
                         ![i].left = IF r.output.kind = "unencodable" THEN <<>>
                                     ELSE buildInvocationArtifactPayloads(r)]
          /\ UNCHANGED records
  /\ UNCHANGED <<wiring, objects, lost>>

\* Mutant: a payload that cannot be written is left out, and Save goes on.
Mut_WriteFailed(i) ==
  /\ tasks' = [tasks EXCEPT ![i].left = Tail(@)]
  /\ UNCHANGED objects

\* One write of Save.  A failed one ends Save with an error, and leaves what was written
\* before it (of the file it wrote, perhaps a part).
WriteFailed(i) ==
  LET t == tasks[i] IN
  /\ tasks' = [tasks EXCEPT ![i].left = <<>>, ![i].saved = <<>>, ![i].error = TRUE]
  /\ \/ UNCHANGED objects
     \/ /\ wiring.objects = "local"
        /\ objects' = objects \cup {Object(i, newArtifactID(i, Len(t.saved) + 1),
                                           sanitizeFilename(Head(t.left).name),
                                           [as |-> "part", value |-> Nil, size |-> 0])}

Written(i) ==
  LET t == tasks[i]
      id == newArtifactID(i, Len(t.saved) + 1)
      name == sanitizeFilename(Head(t.left).name)
  IN  /\ objects' = objects \cup {Object(i, id, name, Head(t.left).data)}
      /\ tasks' = [tasks EXCEPT ![i].left = Tail(@),
                     ![i].saved = Append(@, [id |-> id, name |-> name, path |-> <<i, id, name>>])]

Save(i) ==
  /\ tasks[i].pc = "save" /\ tasks[i].left # <<>>
  /\ Written(i) \/ WriteFailed(i)
  /\ UNCHANGED <<wiring, records, lost>>

\* The first artifact of that name.
findArtifactIDByName(artifacts, name) ==
  LET named == {n \in DOMAIN artifacts : artifacts[n].name = name}
  IN  IF named = {} THEN <<>> ELSE artifacts[Min(named)].id

Status(t) ==
  CASE t.res.err # "" -> t.res.err
    [] t.error \/ ~validateOutputAgainstSchema(t.res.schema, t.res.output) -> "failed"
    [] OTHER -> "succeeded"

\* Every failure to store the final record is ignored or answered: the record of an
\* invocation that is over can stay "running".
completeToolInvocation(i) ==
  LET t == tasks[i]
      record == [status |-> Status(t), output |-> t.res.output, logs |-> t.res.logs,
                 outputRef |-> findArtifactIDByName(t.saved, OutputName),
                 logsRef |-> findArtifactIDByName(t.saved, LogsName), artifacts |-> t.saved]
  IN  /\ t.pc = "save" /\ t.left = <<>>
      /\ \E stored \in BOOLEAN : Store(i, record, stored)
      /\ tasks' = [tasks EXCEPT ![i].pc = "done"]
      /\ UNCHANGED <<wiring, objects, lost>>

\* The process restarts: calls and records in memory are gone, and the files of the local
\* store are when they were on a volume of the pod.
Restart ==
  /\ tasks' = [i \in Invocations |->
                 IF tasks[i].pc = "idle" THEN tasks[i] ELSE [tasks[i] EXCEPT !.pc = "done"]]
  /\ records' = IF wiring.records = "memory" THEN [i \in Invocations |-> NoRecord] ELSE records
  /\ \/ UNCHANGED <<objects, lost>>
     \/ /\ wiring.objects = "local" /\ objects # {}
        /\ objects' = {} /\ lost' = lost \cup {o.path[1] : o \in objects}
  /\ UNCHANGED wiring

\* The TTL of a record in Valkey; its objects stay.
RecordExpires(i) ==
  /\ wiring.records = "valkey" /\ records[i] # NoRecord
  /\ records' = [records EXCEPT ![i] = NoRecord]
  /\ UNCHANGED <<wiring, tasks, objects, lost>>

Next ==
  \/ \E i \in Invocations :
       \/ Start(i) \/ Save(i) \/ completeToolInvocation(i) \/ RecordExpires(i)
       \/ \E r \in Results : Run(i, r)
  \/ Restart

--------------------------------------------------------------------------------
(* The queries. *)

\* The artifact of the record with that identifier, else the one of the list.
resolveArtifact(i, id) ==
  LET kept == {a \in ToSet(records[i].artifacts) : a.id = id}
  IN  IF kept # {} THEN kept ELSE {a \in List(i) : a.id = id}

NotReadable == [as |-> "error", value |-> Nil, size |-> 0]

readArtifactByRef(i, id) ==
  LET found == resolveArtifact(i, id)
  IN  IF found = {} THEN NotReadable
      ELSE LET path == (CHOOSE a \in found : TRUE).path
           IN  IF Readable(path) THEN Read(path) ELSE NotReadable

\* GetInvocation, with the output read back by its reference.
GetInvocation(i) ==
  LET record == records[i]
      data == readArtifactByRef(i, record.outputRef)
  IN  CASE record = NoRecord -> [code |-> "not_found"]
        [] record.output # Nil \/ record.outputRef = <<>> -> [code |-> "ok", output |-> record.output]
        [] data.as = "json" -> [code |-> "ok", output |-> Decoded(data.value)]
        [] OTHER -> [code |-> "internal"]

GetInvocationLogs(i) ==
  LET record == records[i]
      data == readArtifactByRef(i, record.logsRef)
  IN  CASE GetInvocation(i).code # "ok" -> GetInvocation(i)
        [] record.logs # <<>> \/ record.logsRef = <<>> -> [code |-> "ok", logs |-> record.logs]
        [] data.as = "lines" -> [code |-> "ok", logs |-> data.value]
        [] OTHER -> [code |-> "internal"]

GetInvocationArtifacts(i) ==
  CASE GetInvocation(i).code # "ok" -> GetInvocation(i)
    [] records[i].artifacts # <<>> -> [code |-> "ok", artifacts |-> ToSet(records[i].artifacts)]
    [] OTHER -> [code |-> "ok", artifacts |-> List(i)]

\* A tool's own artifact may bear one of the names the service uses.
Reserved(r) ==
  \E n \in DOMAIN r.artifacts : sanitizeFilename(r.artifacts[n].name) \in {OutputName, LogsName}

\* GetInvocation, GetInvocationLogs and GetInvocationArtifacts: whatever writes failed and
\* whatever was restarted, an invocation whose record is there is answered as long as its
\* objects are; output is never that of another value than the run returned, and that of
\* a success is all there: output, logs, and artifacts whose objects hold what was written.
\* (Not so when an artifact of the tool bears the name of the output or of the logs.)
ReadsBack ==
  \A i \in Invocations :
    LET r == tasks[i].res
        got == GetInvocation(i)
        list == GetInvocationArtifacts(i)
    IN  records[i] # NoRecord /\ (r # NoRecord => ~Reserved(r)) =>
          /\ i \notin lost => got.code = "ok" /\ list.code = "ok"
          /\ got.code = "ok" => got.output = Nil \/ got.output \in {r.output, Decoded(r.output)}
          /\ list.code = "ok" /\ i \notin lost =>
               \A a \in list.artifacts : Readable(a.path) /\ a.path[1] = i
          /\ records[i].status = "succeeded" /\ i \notin lost =>
               /\ got.output \in {r.output, Decoded(r.output)}
               /\ GetInvocationLogs(i) = [code |-> "ok", logs |-> r.logs]
               /\ {Read(a.path) : a \in list.artifacts} =
                    {p.data : p \in ToSet(buildInvocationArtifactPayloads(r))}

================================================================================
