-------------------------------- MODULE Sessions ---------------------------------
(***************************************************************************)
(* The life of a session outside Kubernetes: the gRPC server, the session  *)
(* operations of the service (events, warm caches), the local and the      *)
(* Docker session manager and the session store.                           *)
(*                                                                         *)
(* A creation makes a new generation of its session.  The workspace of a   *)
(* session is the directory, or the container, that the session's id names *)
(* (LocalManager: basePath/tenant/id; DockerManager: containerName), so    *)
(* that generations of one id share the place.                             *)
(***************************************************************************)
EXTENDS Integers, FiniteSets

CONSTANTS
  Ops,         \* requests, one each
  Ids,         \* session ids; a client may choose them
  Principals,
  TTLs,        \* expires_in_seconds, in ticks: positive
  Auth,        \* AuthConfig.AuthEnabled
  MaxCreates,  \* bound: creations of one id
  MaxTime,     \* bound
  MaxRestarts  \* bound

VARIABLES
  backend,   \* the session manager of this process
  mem,       \* the map of the manager: id -> session, or its container
  store,     \* the session store of the Docker manager: id -> session
  box,       \* the workspaces: id -> generation that has made it, 0 for none
  cache,     \* sessionWarmCaches: id -> the generation it is for, 0 for none
  warmed,    \* generations whose data has been loaded
  events,    \* what was published
  op,        \* the requests
  made,      \* creations so far, of each id
  answered,  \* generations the client knows of
  closed,    \* generations that a CloseSession has answered ok for
  overlapped,\* ids of which a session was made while an earlier one, or a request that makes or
             \* ends one, was still there
  adrift,    \* generations for which a call to the store or the engine failed, or whose
             \* workspace no record and no map names any more
  clock, restarts

managed == <<mem, store, box>>
told == <<cache, warmed, events>>
counted == <<made, overlapped>>
vars == <<backend, mem, store, box, cache, warmed, events, op, made, answered, closed, overlapped,
          adrift, clock, restarts>>

None == [gen |-> 0, owner |-> CHOOSE p \in Principals : TRUE, expires |-> 0]
Gen(id, n) == <<id, n>>
Expired(s) == clock >= s.expires

Idle == [pc |-> "idle", kind |-> "", id |-> CHOOSE i \in Ids : TRUE, by |-> None.owner, ttl |-> 0,
         gen |-> 0, sess |-> None, victim |-> None, inner |-> FALSE, then |-> "", code |-> ""]

Init ==
  /\ backend \in {"local", "docker"}
  /\ mem = [i \in Ids |-> None] /\ store = [i \in Ids |-> None] /\ box = [i \in Ids |-> 0]
  /\ cache = [i \in Ids |-> 0] /\ warmed = {} /\ events = {}
  /\ op = [o \in Ops |-> Idle] /\ made = [i \in Ids |-> 0]
  /\ answered = {} /\ closed = {} /\ overlapped = {} /\ adrift = {} /\ clock = 0 /\ restarts = 0

Goto(o, pc) == op' = [op EXCEPT ![o].pc = pc]
Answer(o, code) ==
  op' = [op EXCEPT ![o] = [Idle EXCEPT !.pc = "done", !.kind = op[o].kind, !.code = code]]
At(o, pc) == op[o].pc = pc
Id(o) == op[o].id
Made(o) == Gen(Id(o), op[o].gen)

--------------------------------------------------------------------------------
(* Requests, as they reach the server. *)

Creating == {"make", "track", "save", "publish"}
Ending == {"check", "close", "lookup", "unsave", "remove", "closed"}
Busy(o) == op[o].pc \notin {"idle", "done"}

\* Whether an id has nothing left of earlier sessions of its name, and nobody at work on them.
Unmade(id) == \A o \in Ops : op[o].pc \in Creating => op[o].id # id

Free(id) ==
  /\ mem[id] = None /\ store[id] = None /\ box[id] = 0 /\ Unmade(id)
  /\ \A o \in Ops : op[o].pc \in Ending \/ (Busy(o) /\ op[o].kind = "close") => op[o].id # id

Overlapping(id, free) == overlapped' = IF free THEN overlapped ELSE overlapped \cup {id}

\* CreateSession: the principal is the authenticated one, or that of the request.
BeginCreate(o, id, p, t) ==
  /\ At(o, "idle") /\ made[id] < MaxCreates
  /\ made' = [made EXCEPT ![id] = @ + 1] /\ Overlapping(id, Free(id))
  /\ op' = [op EXCEPT ![o] = [Idle EXCEPT !.pc = "make", !.kind = "create", !.id = id, !.by = p,
                                          !.ttl = t, !.gen = made[id] + 1]]
  /\ UNCHANGED <<backend, managed, told, answered, closed, adrift, clock, restarts>>

\* ListTools and the other reads of a session; validateSessionAuth reads it before them when
\* the caller is authenticated.
BeginRead(o, id, p) ==
  /\ At(o, "idle")
  /\ op' = [op EXCEPT ![o] = [Idle EXCEPT !.pc = "get", !.kind = "read", !.id = id, !.by = p,
                                          !.then = IF Auth THEN "auth" ELSE "list"]]
  /\ UNCHANGED <<backend, managed, told, counted, answered, closed, adrift, clock, restarts>>

\* A client closes a session once it knows of it; it may also try again.
Knows(id, n) ==
  Gen(id, n) \in answered /\ \A m \in n + 1 .. made[id] : Gen(id, m) \notin answered

BeginClose(o, id, p) ==
  /\ At(o, "idle")
  /\ \E n \in 1 .. made[id] :
       /\ Knows(id, n)
       /\ op' = [op EXCEPT ![o] = [Idle EXCEPT !.pc = "get", !.kind = "close", !.id = id, !.by = p,
                                               !.gen = n,
                                               !.then = IF Auth THEN "auth" ELSE "close"]]
  /\ Overlapping(id, Unmade(id))
  /\ UNCHANGED <<backend, managed, told, made, answered, closed, adrift, clock, restarts>>

\* UnaryAuthInterceptor: no handler runs without the token and a principal.
Unauthenticated(o) ==
  /\ At(o, "idle") /\ Auth
  /\ Answer(o, "unauthenticated")
  /\ UNCHANGED <<backend, managed, told, counted, answered, closed, adrift, clock, restarts>>

samePrincipalIdentity(p, q) == p = q

\* ValidateSessionAccess, after the session was read; the operation reads it again.
ValidateSessionAccess(o) ==
  /\ At(o, "auth")
  /\ IF op[o].sess = None THEN Answer(o, "not_found")
     ELSE IF ~samePrincipalIdentity(op[o].sess.owner, op[o].by) THEN Answer(o, "policy_denied")
     ELSE op' = [op EXCEPT ![o].pc = "get", ![o].sess = None,
                           ![o].then = IF op[o].kind = "close" THEN "close" ELSE "list"]
  /\ UNCHANGED <<backend, managed, told, counted, answered, closed, adrift, clock, restarts>>

\* ListTools: what the runtime supports and the policy allows of the catalog.
ListTools(o) ==
  /\ At(o, "list")
  /\ Answer(o, IF op[o].sess # None THEN "ok" ELSE "not_found")
  /\ UNCHANGED <<backend, managed, told, counted, answered, closed, adrift, clock, restarts>>

--------------------------------------------------------------------------------
(* CreateSession of the managers, and of the service. *)

Session(o) == [gen |-> op[o].gen, owner |-> op[o].by, expires |-> clock + op[o].ttl]

\* LocalManager: the directory, then the repository in it; a copy or a clone that fails
\* leaves the directory.
LocalMake(o) ==
  /\ At(o, "make") /\ backend = "local"
  /\ \/ Answer(o, "internal") /\ UNCHANGED <<box, adrift>>
     \/ /\ box' = [box EXCEPT ![Id(o)] = op[o].gen]
        /\ \/ Answer(o, "internal") /\ adrift' = adrift \cup {Made(o)}
           \/ Goto(o, "track") /\ UNCHANGED adrift
  /\ UNCHANGED <<backend, mem, store, told, counted, answered, closed, clock, restarts>>

LocalTrack(o) ==
  /\ At(o, "track") /\ backend = "local"
  /\ mem' = [mem EXCEPT ![Id(o)] = Session(o)]
  /\ op' = [op EXCEPT ![o].pc = "publish"]
  /\ UNCHANGED <<backend, store, box, told, counted, answered, closed, adrift, clock, restarts>>

\* DockerManager: a container of a name that must be free; when it does not start, or the
\* clone in it fails, it is removed, if Docker can.
DockerMake(o) ==
  /\ At(o, "make") /\ backend = "docker"
  /\ \/ Answer(o, "internal") /\ UNCHANGED <<box, adrift>>
     \/ /\ box[Id(o)] = 0 /\ box' = [box EXCEPT ![Id(o)] = op[o].gen]
        /\ \/ Goto(o, "track") /\ UNCHANGED adrift
           \/ Answer(o, "internal") /\ adrift' = adrift \cup {Made(o)}
  /\ UNCHANGED <<backend, mem, store, told, counted, answered, closed, clock, restarts>>

DockerTrack(o) ==
  /\ At(o, "track") /\ backend = "docker"
  /\ mem' = [mem EXCEPT ![Id(o)] = Session(o)]
  /\ op' = [op EXCEPT ![o].pc = "save", ![o].sess = Session(o)]
  /\ UNCHANGED <<backend, store, box, told, counted, answered, closed, adrift, clock, restarts>>

Stored(o) == store' = [store EXCEPT ![Id(o)] = op[o].sess]

\* The record cannot be saved, or was and the answer is lost: the container is stopped and
\* removed, if Docker can.  Its entry in the map stays.
DockerUnsaved(o) ==
  /\ Answer(o, "internal") /\ adrift' = adrift \cup {Made(o)}
  /\ Stored(o) \/ UNCHANGED store
  /\ \/ box' = [box EXCEPT ![Id(o)] = IF @ = op[o].gen THEN 0 ELSE @]
     \/ UNCHANGED box

DockerSave(o) ==
  /\ At(o, "save")
  /\ \/ Stored(o) /\ Goto(o, "publish") /\ UNCHANGED <<box, adrift>>
     \/ DockerUnsaved(o)
  /\ UNCHANGED <<backend, mem, told, counted, answered, closed, clock, restarts>>

\* prewarmSession puts the cache in the map at once, its data comes later.
prewarmSession(o) == cache' = [cache EXCEPT ![Id(o)] = op[o].gen]

\* The event, the warm cache, the answer.
Created(o) ==
  /\ At(o, "publish")
  /\ events' = events \cup {<<"created", Made(o)>>}
  /\ prewarmSession(o)
  /\ answered' = answered \cup {Made(o)}
  /\ Answer(o, "ok")
  /\ UNCHANGED <<backend, managed, warmed, counted, closed, adrift, clock, restarts>>

\* The loader has its own reference to the cache: what it loads for a session that was
\* closed meanwhile goes nowhere.
Warmed(id, n) == UNCHANGED cache

Prewarm(id, n) ==
  /\ Gen(id, n) \in answered \ warmed
  /\ warmed' = warmed \cup {Gen(id, n)}
  /\ Warmed(id, n)
  /\ UNCHANGED <<backend, managed, events, op, counted, answered, closed, adrift, clock, restarts>>

--------------------------------------------------------------------------------
(* GetSession of the managers: op[o].then says what it is for. *)

Got(o, s) == op' = [op EXCEPT ![o].pc = op[o].then, ![o].sess = s, ![o].victim = None,
                              ![o].inner = FALSE]

\* A session that was read and has expired is closed, in steps that others may come between.
GotOrClose(o, s) ==
  IF s # None /\ Expired(s)
  THEN op' = [op EXCEPT ![o].pc = "close", ![o].inner = TRUE, ![o].sess = None]
  ELSE Got(o, s)

LocalGet(o) ==
  /\ At(o, "get") /\ backend = "local"
  /\ GotOrClose(o, mem[Id(o)])
  /\ UNCHANGED <<backend, managed, told, counted, answered, closed, adrift, clock, restarts>>

\* The stores delete a record that has expired, in a second step.  Their error is an answer,
\* but for CloseSession, which goes on.
StoreGet(o) ==
  /\ At(o, "get") /\ backend = "docker"
  /\ \/ store[Id(o)] = None /\ Got(o, None)
     \/ store[Id(o)] # None /\ Expired(store[Id(o)]) /\ Goto(o, "drop")
     \/ /\ store[Id(o)] # None /\ ~Expired(store[Id(o)])
        /\ op' = [op EXCEPT ![o].pc = "check", ![o].sess = store[Id(o)]]
     \/ IF op[o].then = "close" THEN Got(o, None) ELSE Answer(o, "internal")
  /\ UNCHANGED <<backend, managed, told, counted, answered, closed, adrift, clock, restarts>>

\* The record of a session is gone: with no entry in the map its container has no name left.
Unnamed(id) == IF mem[id] = None THEN {Gen(id, store[id].gen)} ELSE {}

StoreDrop(o) ==
  /\ At(o, "drop")
  /\ store' = [store EXCEPT ![Id(o)] = None]
  /\ adrift' = adrift \cup Unnamed(Id(o))
  /\ Got(o, None)
  /\ UNCHANGED <<backend, mem, box, told, counted, answered, closed, clock, restarts>>

\* DockerManager looks at the time again.
DockerCheck(o) ==
  /\ At(o, "check")
  /\ GotOrClose(o, op[o].sess)
  /\ UNCHANGED <<backend, managed, told, counted, answered, closed, adrift, clock, restarts>>

\* Valkey lets a record go at its expiry (ttlFromSessionExpiry).
StoreExpires(id) ==
  /\ store[id] # None /\ Expired(store[id])
  /\ store' = [store EXCEPT ![id] = None]
  /\ adrift' = adrift \cup Unnamed(id)
  /\ UNCHANGED <<backend, mem, box, told, op, counted, answered, closed, clock, restarts>>

--------------------------------------------------------------------------------
(* CloseSession of the managers, called by the service or within GetSession, which logs its
   error. *)

Ended(o, ok) ==
  IF op[o].inner THEN Got(o, None) ELSE IF ok THEN Goto(o, "closed") ELSE Answer(o, "internal")

\* Mutant: the entry stays until the workspace is gone.
Mut_Taken(id) == UNCHANGED mem

Taken(id) == mem' = [mem EXCEPT ![id] = None]

\* The entry of the map is taken; without one the local manager has nothing to do.
TakeEntry(o) ==
  LET s == mem[Id(o)]
  IN  /\ At(o, "close")
      /\ Taken(Id(o))
      /\ \/ /\ s # None
            /\ op' = [op EXCEPT ![o].pc = IF backend = "local" THEN "remove" ELSE "unsave",
                                ![o].victim = s]
         \/ s = None /\ backend = "local" /\ Ended(o, TRUE)
         \/ s = None /\ backend = "docker" /\ Goto(o, "lookup")
      /\ UNCHANGED <<backend, store, box, told, counted, answered, closed, adrift, clock, restarts>>

\* DockerManager looks for the container in the record, when the map has none; a record that
\* has expired, or cannot be read, is none.
Lookup(o) ==
  LET s == store[Id(o)]
  IN  /\ At(o, "lookup")
      /\ \/ /\ s # None /\ ~Expired(s)
            /\ op' = [op EXCEPT ![o].pc = "unsave", ![o].victim = s]
            /\ UNCHANGED adrift
         \/ /\ Goto(o, "unsave")
            /\ adrift' = IF s # None THEN adrift \cup {Gen(Id(o), s.gen)} ELSE adrift
      /\ UNCHANGED <<backend, managed, told, counted, answered, closed, clock, restarts>>

\* The record is deleted; an error is logged.
Unsave(o) ==
  /\ At(o, "unsave")
  /\ \/ store' = [store EXCEPT ![Id(o)] = None] /\ UNCHANGED adrift
     \/ UNCHANGED store /\ adrift' = adrift \cup {Gen(Id(o), store[Id(o)].gen)}
  /\ IF op[o].victim = None THEN Ended(o, TRUE) ELSE Goto(o, "remove")
  /\ UNCHANGED <<backend, mem, box, told, counted, answered, closed, clock, restarts>>

\* The directory, or the container, is removed; with an error the entry is gone all the same.
\* A container that is no longer there is an error, a directory is not.
Remove(o) ==
  LET there == backend = "local" \/ box[Id(o)] = op[o].victim.gen
  IN  /\ At(o, "remove")
      /\ \/ there /\ box' = [box EXCEPT ![Id(o)] = 0] /\ Ended(o, TRUE) /\ UNCHANGED adrift
         \/ /\ UNCHANGED box /\ Ended(o, FALSE)
            /\ adrift' = adrift \cup {Gen(Id(o), op[o].victim.gen)}
      /\ UNCHANGED <<backend, mem, store, told, counted, answered, closed, clock, restarts>>

\* Mutant: the warm cache of a closed session stays.
Mut_evict(id) == UNCHANGED cache

evict(id) == cache' = [cache EXCEPT ![id] = 0]

\* CloseSession of the service: the event, when the session was found at first; the cache goes
\* in any case.
Closed(o) ==
  /\ At(o, "closed")
  /\ events' = IF op[o].sess # None
               THEN events \cup {<<"closed", Gen(Id(o), op[o].sess.gen)>>} ELSE events
  /\ evict(Id(o))
  /\ closed' = closed \cup {Made(o)}
  /\ Answer(o, "ok")
  /\ UNCHANGED <<backend, managed, warmed, counted, answered, adrift, clock, restarts>>

--------------------------------------------------------------------------------
(* Time, and the process. *)

Tick ==
  /\ clock < MaxTime /\ clock' = clock + 1
  /\ UNCHANGED <<backend, managed, told, op, counted, answered, closed, adrift, restarts>>

\* The maps and the requests die with the process; directories, containers and records stay.
Restart ==
  /\ restarts < MaxRestarts /\ restarts' = restarts + 1
  /\ mem' = [i \in Ids |-> None] /\ cache' = [i \in Ids |-> 0]
  /\ op' = [o \in Ops |-> IF op[o].pc \in {"idle", "done"} THEN op[o]
                          ELSE [Idle EXCEPT !.pc = "done", !.code = "died"]]
  /\ warmed' = answered
  /\ adrift' = adrift \cup {Gen(i, box[i]) : i \in {j \in Ids : box[j] # store[j].gen}}
  /\ UNCHANGED <<backend, store, box, events, counted, answered, closed, clock>>

CreateStep(o) ==
  LocalMake(o) \/ LocalTrack(o) \/ DockerMake(o) \/ DockerTrack(o) \/ DockerSave(o) \/ Created(o)

GetStep(o) ==
  \/ LocalGet(o) \/ StoreGet(o) \/ StoreDrop(o) \/ DockerCheck(o)
  \/ ValidateSessionAccess(o) \/ ListTools(o)

CloseStep(o) == TakeEntry(o) \/ Lookup(o) \/ Unsave(o) \/ Remove(o) \/ Closed(o)

Next ==
  \/ \E o \in Ops : Unauthenticated(o) \/ CreateStep(o) \/ GetStep(o) \/ CloseStep(o)
  \/ \E o \in Ops, i \in Ids, p \in Principals :
       BeginRead(o, i, p) \/ BeginClose(o, i, p) \/ \E t \in TTLs : BeginCreate(o, i, p, t)
  \/ \E i \in Ids : StoreExpires(i) \/ \E n \in 1 .. MaxCreates : Prewarm(i, n)
  \/ Tick \/ Restart

Spec == Init /\ [][Next]_vars

--------------------------------------------------------------------------------
(* Properties. *)

Answerable(id) == IF backend = "local" THEN mem[id] ELSE store[id]

\* An id whose sessions followed each other: none was made before the last one was gone.  A
\* client may choose an id again (local_manager.go, docker_manager.go: req.SessionID), and of
\* sessions of one id that overlap neither property holds.
Sole == Ids \ overlapped

\* GetSession: a session that a manager answers for has its directory or its container, however
\* creations, reads that find it expired, and closes of it interleave and a restart comes
\* between; unless a call to the store or the engine has failed for it, or sessions of its id
\* overlap.
LiveHasWorkspace ==
  \A i \in Sole : LET s == Answerable(i)
                  IN  s # None /\ ~Expired(s) /\ Gen(i, s.gen) \notin adrift => box[i] = s.gen

Quiet == \A o \in Ops : op[o].pc \in {"idle", "done"}

\* CloseSession: once it has answered ok for the last session of an id and no request is under
\* way, nothing of the session is left (no record, no warm cache, no workspace), unless a call to
\* the store or the engine has failed for it, or a restart or its expiry had made its workspace
\* nameless, or sessions of its id overlap.
ClosedIsGone ==
  Quiet => \A i \in Sole : Gen(i, made[i]) \in closed =>
             /\ cache[i] # made[i]
             /\ Gen(i, made[i]) \notin adrift => Answerable(i).gen # made[i] /\ box[i] # made[i]

--------------------------------------------------------------------------------
(* Why they hold: of an id whose sessions do not overlap, a request that may undo a session
   never meets one that is still making it. *)

Making == {"make", "track", "save"}
Undoing == {"lookup", "unsave", "remove", "closed"}

Lost(id) == Gen(id, made[id]) \in adrift
NoRecord(id) == store[id] = None \/ Lost(id)
Over(id) == \A o \in Ops : op[o].pc \in Making => op[o].id # id
Current(s, id) == s = None \/ (s.gen = made[id] /\ made[id] # 0)

\* The shape of the state: fields and domains, and no generation that is still to come.
Request(o) ==
  /\ DOMAIN op[o] = DOMAIN Idle
  /\ op[o].gen \in Nat
  /\ Busy(o) => op[o].id \in Ids /\ op[o].gen <= made[op[o].id]

Entry(i) ==
  /\ made[i] \in Nat
  /\ \A g \in answered \cup closed : g[1] = i => g[2] \in 0 .. made[i]

Shape ==
  /\ DOMAIN op = Ops /\ \A o \in Ops : Request(o)
  /\ DOMAIN mem = Ids /\ DOMAIN store = Ids /\ DOMAIN box = Ids /\ DOMAIN cache = Ids
  /\ DOMAIN made = Ids /\ \A i \in Ids : Entry(i)

\* CreateSession: one request makes the last session of an id.
Maker(o) ==
  op[o].pc \in Creating =>
    /\ op[o].gen = made[op[o].id] /\ made[op[o].id] # 0
    /\ op[o].pc \in {"track", "save"} => box[op[o].id] = made[op[o].id]
    /\ op[o].pc = "save" => backend = "docker" /\ op[o].sess.gen = made[op[o].id]
    /\ \A x \in Ops \ {o} : op[x].pc \in Creating => op[x].id # op[o].id

\* GetSession and CloseSession: whoever ends a session follows its creation, and has taken its
\* entry of the map, and its record, before the workspace.
Ender(o) ==
  /\ op[o].pc \in Ending => made[op[o].id] # 0 /\ Over(op[o].id)
  /\ Busy(o) /\ op[o].kind = "close" => made[op[o].id] # 0 /\ Unmade(op[o].id)
  /\ op[o].pc \in Ending \cup {"get", "drop", "auth", "list"} =>
       /\ op[o].then \in {"auth", "list", "close"}
       /\ op[o].then = "close" => op[o].kind = "close"
  /\ op[o].pc \in {"close", "lookup", "unsave", "remove"} /\ ~op[o].inner => op[o].kind = "close"
  /\ op[o].pc = "closed" => op[o].kind = "close"
  /\ op[o].pc \in Undoing => mem[op[o].id] = None
  /\ op[o].pc \in {"remove", "closed"} => NoRecord(op[o].id)
  /\ op[o].pc = "unsave" => op[o].victim # None \/ NoRecord(op[o].id)
  /\ op[o].pc = "remove" => op[o].victim # None
  /\ op[o].pc \in Undoing => Current(op[o].victim, op[o].id)
  /\ Busy(o) /\ op[o].pc \notin Undoing => op[o].victim = None

\* The map and the store hold the last session, which has its workspace or had a failure; of a
\* closed one nothing is left by name.
Holds(i) ==
  /\ box[i] \in {0, made[i]} /\ Current(mem[i], i) /\ Current(store[i], i)
  /\ Gen(i, made[i]) \in closed =>
       made[i] # 0 /\ mem[i] = None /\ NoRecord(i) /\ cache[i] = 0 /\ Unmade(i)
  /\ mem[i] # None =>
       /\ box[i] = made[i] \/ Lost(i)
       /\ \A o \in Ops : op[o].pc \in {"make", "track"} => op[o].id # i
  /\ store[i] # None => (box[i] = made[i] \/ Lost(i)) /\ Over(i) /\ backend = "docker"

\* A workspace is named by the map, by the store or by a request that makes or removes it.
Named(o) == \/ op[o].pc \in {"track", "save", "remove"}
            \/ op[o].pc = "unsave" /\ op[o].victim # None

Kept(i) ==
  box[i] # 0 => \/ Lost(i) \/ mem[i] # None \/ store[i] # None
                \/ \E o \in Ops : op[o].id = i /\ Named(o)

\* What is so of an id whose sessions follow each other.
Orderly(i) ==
  /\ Holds(i) /\ Kept(i)
  /\ \A o \in Ops : op[o].id = i => Maker(o) /\ Ender(o)

LifeInv == Shape /\ \A i \in Sole : Orderly(i)
================================================================================
