------------------------------ MODULE PlatformProofs ------------------------------
(***************************************************************************)
(* What is proved of a session's life (Sessions), of its tools for git and *)
(* for data services (GitTools, DataTools, Policy) and of those that build *)
(* and test (Builds), as MCPlatformTools puts them together, for every     *)
(* value of its constants.                                                 *)
(***************************************************************************)
EXTENDS MCPlatformTools, SequenceTheorems, FiniteSetTheorems, WellFoundedInduction, TLAPS

--------------------------------------------------------------------------------
(* Sessions: the life of one. *)

\* The fields of a request, and what tells no session from one.
LEMMA RequestFields ==
  /\ Life!None.gen = 0
  /\ DOMAIN Life!Idle = {"pc", "kind", "id", "by", "ttl", "gen", "sess", "victim", "inner", "then",
                    "code"}
  /\ Life!Idle.pc = "idle" /\ Life!Idle.kind = "" /\ Life!Idle.victim = Life!None /\ ~Life!Idle.inner
  /\ Life!Idle.gen = 0
<1>1. Life!None.gen = 0
  BY DEF Life!None
<1> QED
  BY <1>1 DEF Life!Idle

\* A session of a creation is one.
LEMMA SomeSession == \A s : s.gen # 0 => s # Life!None
BY DEF Life!None

\* A step of one request leaves the others.
Frame(o) ==
  /\ DOMAIN op' = Ops /\ DOMAIN op'[o] = DOMAIN Life!Idle
  /\ \A x \in Ops \ {o} : op'[x] = op[x]

\* A request goes to its next step.
LEMMA GotoStep ==
  ASSUME NEW o \in Ops, NEW c, Life!Shape, Life!Goto(o, c)
  PROVE  /\ Frame(o) /\ op'[o].pc = c
         /\ op'[o].kind = op[o].kind /\ op'[o].id = op[o].id /\ op'[o].gen = op[o].gen
         /\ op'[o].sess = op[o].sess /\ op'[o].victim = op[o].victim
         /\ op'[o].inner = op[o].inner /\ op'[o].then = op[o].then
<1>1. DOMAIN op = Ops /\ DOMAIN op[o] = DOMAIN Life!Idle
  BY DEF Life!Shape, Life!Request
<1>2. op' = [op EXCEPT ![o].pc = c]
  BY DEF Life!Goto
<1> QED
  BY <1>1, <1>2, RequestFields, Zenon DEF Frame

\* A request is answered.
LEMMA AnswerStep ==
  ASSUME NEW o \in Ops, NEW c, Life!Shape, Life!Answer(o, c)
  PROVE  Frame(o) /\ op'[o].pc = "done" /\ op'[o].victim = Life!None /\ op'[o].gen = 0
<1>1. DOMAIN op = Ops
  BY DEF Life!Shape
<1>2. op' = [op EXCEPT ![o] = [Life!Idle EXCEPT !.pc = "done", !.kind = op[o].kind, !.code = c]]
  BY DEF Life!Answer
<1>3. op'[o] = [Life!Idle EXCEPT !.pc = "done", !.kind = op[o].kind, !.code = c]
  BY <1>1, <1>2
<1>4. op'[o].pc = "done" /\ op'[o].victim = Life!None /\ op'[o].gen = 0
      /\ DOMAIN op'[o] = DOMAIN Life!Idle
  BY <1>3, RequestFields, Zenon
<1> QED
  BY <1>1, <1>2, <1>4 DEF Frame

\* GetSession answers: the request goes on with what it found.
LEMMA GotStep ==
  ASSUME NEW o \in Ops, NEW s, Life!Shape, Life!Got(o, s)
  PROVE  /\ Frame(o) /\ op'[o].pc = op[o].then
         /\ op'[o].kind = op[o].kind /\ op'[o].id = op[o].id /\ op'[o].gen = op[o].gen
         /\ op'[o].sess = s /\ op'[o].victim = Life!None
         /\ ~op'[o].inner /\ op'[o].then = op[o].then
<1>1. DOMAIN op = Ops /\ DOMAIN op[o] = DOMAIN Life!Idle
  BY DEF Life!Shape, Life!Request
<1>2. op' = [op EXCEPT ![o].pc = op[o].then, ![o].sess = s, ![o].victim = Life!None,
                       ![o].inner = FALSE]
  BY DEF Life!Got
<1>3. op'[o] = [op[o] EXCEPT !.pc = op[o].then, !.sess = s, !.victim = Life!None, !.inner = FALSE]
  BY <1>1, <1>2
<1>4. DOMAIN op' = Ops /\ \A x \in Ops \ {o} : op'[x] = op[x]
  BY <1>1, <1>2
<1>5. DOMAIN op'[o] = DOMAIN Life!Idle /\ op'[o].kind = op[o].kind /\ op'[o].id = op[o].id
      /\ op'[o].gen = op[o].gen /\ op'[o].then = op[o].then
  BY <1>1, <1>3, RequestFields, Zenon
<1>6. op'[o].pc = op[o].then /\ op'[o].sess = s /\ op'[o].victim = Life!None /\ ~op'[o].inner
  BY <1>1, <1>3, RequestFields, Zenon
<1> QED
  BY <1>4, <1>5, <1>6 DEF Frame

\* A request takes a session to remove.
LEMMA VictimStep ==
  ASSUME NEW o \in Ops, NEW c, NEW s, Life!Shape,
         op' = [op EXCEPT ![o].pc = c, ![o].victim = s]
  PROVE  /\ Frame(o) /\ op'[o].pc = c /\ op'[o].victim = s
         /\ op'[o].kind = op[o].kind /\ op'[o].id = op[o].id /\ op'[o].gen = op[o].gen
         /\ op'[o].inner = op[o].inner /\ op'[o].then = op[o].then /\ op'[o].sess = op[o].sess
<1>1. DOMAIN op = Ops /\ DOMAIN op[o] = DOMAIN Life!Idle
  BY DEF Life!Shape, Life!Request
<1>2. op'[o] = [op[o] EXCEPT !.pc = c, !.victim = s]
  BY <1>1
<1>3. DOMAIN op' = Ops /\ \A x \in Ops \ {o} : op'[x] = op[x]
  BY <1>1
<1> QED
  BY <1>1, <1>2, <1>3, RequestFields, Zenon DEF Frame

\* A request holds a session.
LEMMA SessStep ==
  ASSUME NEW o \in Ops, NEW c, NEW s, Life!Shape,
         op' = [op EXCEPT ![o].pc = c, ![o].sess = s]
  PROVE  /\ Frame(o) /\ op'[o].pc = c /\ op'[o].sess = s /\ op'[o].victim = op[o].victim
         /\ op'[o].kind = op[o].kind /\ op'[o].id = op[o].id /\ op'[o].gen = op[o].gen
         /\ op'[o].inner = op[o].inner /\ op'[o].then = op[o].then
<1>1. DOMAIN op = Ops /\ DOMAIN op[o] = DOMAIN Life!Idle
  BY DEF Life!Shape, Life!Request
<1>2. op'[o] = [op[o] EXCEPT !.pc = c, !.sess = s]
  BY <1>1
<1>3. DOMAIN op' = Ops /\ \A x \in Ops \ {o} : op'[x] = op[x]
  BY <1>1
<1> QED
  BY <1>1, <1>2, <1>3, RequestFields, Zenon DEF Frame

\* A request that has found its session expired closes it.
LEMMA InnerStep ==
  ASSUME NEW o \in Ops, NEW s, Life!Shape,
         op' = [op EXCEPT ![o].pc = "close", ![o].inner = TRUE, ![o].sess = s]
  PROVE  /\ Frame(o) /\ op'[o].pc = "close" /\ op'[o].inner /\ op'[o].victim = op[o].victim
         /\ op'[o].kind = op[o].kind /\ op'[o].id = op[o].id /\ op'[o].gen = op[o].gen
         /\ op'[o].then = op[o].then
<1>1. DOMAIN op = Ops /\ DOMAIN op[o] = DOMAIN Life!Idle
  BY DEF Life!Shape, Life!Request
<1>2. op'[o] = [op[o] EXCEPT !.pc = "close", !.inner = TRUE, !.sess = s]
  BY <1>1
<1>3. DOMAIN op' = Ops /\ \A x \in Ops \ {o} : op'[x] = op[x]
  BY <1>1
<1> QED
  BY <1>1, <1>2, <1>3, RequestFields, Zenon DEF Frame

\* A request that may use its session reads it again.
LEMMA AgainStep ==
  ASSUME NEW o \in Ops, NEW c, Life!Shape,
         op' = [op EXCEPT ![o].pc = "get", ![o].sess = Life!None, ![o].then = c]
  PROVE  /\ Frame(o) /\ op'[o].pc = "get" /\ op'[o].then = c /\ op'[o].victim = op[o].victim
         /\ op'[o].kind = op[o].kind /\ op'[o].id = op[o].id /\ op'[o].gen = op[o].gen
<1>1. DOMAIN op = Ops /\ DOMAIN op[o] = DOMAIN Life!Idle
  BY DEF Life!Shape, Life!Request
<1>2. op'[o] = [op[o] EXCEPT !.pc = "get", !.sess = Life!None, !.then = c]
  BY <1>1
<1>3. DOMAIN op' = Ops /\ \A x \in Ops \ {o} : op'[x] = op[x]
  BY <1>1
<1> QED
  BY <1>1, <1>2, <1>3, RequestFields, Zenon DEF Frame

\* A creation begins.
LEMMA CreateBegins ==
  ASSUME NEW o \in Ops, Life!Shape, NEW i, NEW p, NEW t, NEW n,
         op' = [op EXCEPT ![o] = [Life!Idle EXCEPT !.pc = "make", !.kind = "create", !.id = i,
                                     !.by = p, !.ttl = t, !.gen = n]]
  PROVE  /\ Frame(o) /\ op'[o].pc = "make" /\ op'[o].kind = "create" /\ op'[o].id = i
         /\ op'[o].gen = n /\ op'[o].victim = Life!None
<1>1. DOMAIN op = Ops
  BY DEF Life!Shape
<1>2. op'[o] = [Life!Idle EXCEPT !.pc = "make", !.kind = "create", !.id = i,
                                     !.by = p, !.ttl = t, !.gen = n]
  BY <1>1
<1>3. DOMAIN op' = Ops /\ \A x \in Ops \ {o} : op'[x] = op[x]
  BY <1>1
<1> QED
  BY <1>1, <1>2, <1>3, RequestFields, Zenon DEF Frame

\* A read begins.
LEMMA ReadBegins ==
  ASSUME NEW o \in Ops, Life!Shape, NEW i, NEW p, NEW c,
         op' = [op EXCEPT ![o] = [Life!Idle EXCEPT !.pc = "get", !.kind = "read", !.id = i, !.by = p,
                                     !.then = c]]
  PROVE  /\ Frame(o) /\ op'[o].pc = "get" /\ op'[o].kind = "read" /\ op'[o].id = i
         /\ op'[o].then = c /\ op'[o].victim = Life!None /\ op'[o].gen = 0
<1>1. DOMAIN op = Ops
  BY DEF Life!Shape
<1>2. op'[o] = [Life!Idle EXCEPT !.pc = "get", !.kind = "read", !.id = i, !.by = p,
                                     !.then = c]
  BY <1>1
<1>3. DOMAIN op' = Ops /\ \A x \in Ops \ {o} : op'[x] = op[x]
  BY <1>1
<1> QED
  BY <1>1, <1>2, <1>3, RequestFields, Zenon DEF Frame

\* A close begins.
LEMMA CloseBegins ==
  ASSUME NEW o \in Ops, Life!Shape, NEW i, NEW p, NEW c, NEW n,
         op' = [op EXCEPT ![o] = [Life!Idle EXCEPT !.pc = "get", !.kind = "close", !.id = i, !.by = p,
                                     !.gen = n, !.then = c]]
  PROVE  /\ Frame(o) /\ op'[o].pc = "get" /\ op'[o].kind = "close" /\ op'[o].id = i
         /\ op'[o].gen = n /\ op'[o].then = c /\ op'[o].victim = Life!None
<1>1. DOMAIN op = Ops
  BY DEF Life!Shape
<1>2. op'[o] = [Life!Idle EXCEPT !.pc = "get", !.kind = "close", !.id = i, !.by = p,
                                     !.gen = n, !.then = c]
  BY <1>1
<1>3. DOMAIN op' = Ops /\ \A x \in Ops \ {o} : op'[x] = op[x]
  BY <1>1
<1> QED
  BY <1>1, <1>2, <1>3, RequestFields, Zenon DEF Frame

USE DEF Life!Making, Life!Creating, Life!Undoing, Life!Ending, Life!Busy

\* A request under way is about an id.
LEMMA Facts ==
  ASSUME Life!LifeInv, NEW o \in Ops
  PROVE  /\ Life!Shape /\ Life!Request(o)
         /\ Life!Busy(o) => op[o].id \in Ids /\ Life!Entry(op[o].id)
BY DEF Life!LifeInv, Life!Shape, Life!Request

\* What is so of an id, and of a request about it.
LEMMA AtHand ==
  ASSUME NEW i, Life!Orderly(i), NEW o \in Ops, op[o].id = i
  PROVE  Life!Maker(o) /\ Life!Ender(o) /\ Life!Holds(i) /\ Life!Kept(i)
BY DEF Life!Orderly

\* A step that is about one id leaves the others.
Apart(i) ==
  /\ backend' = backend /\ overlapped \subseteq overlapped' /\ adrift \subseteq adrift'
  /\ DOMAIN mem' = Ids /\ DOMAIN store' = Ids /\ DOMAIN box' = Ids /\ DOMAIN cache' = Ids
  /\ DOMAIN made' = Ids /\ \A k \in Ids : made'[k] \in Nat /\ made[k] <= made'[k]
  /\ \A k \in Ids \ {i} : /\ mem'[k] = mem[k] /\ store'[k] = store[k] /\ box'[k] = box[k]
                          /\ cache'[k] = cache[k] /\ made'[k] = made[k]
  /\ \A g \in answered' \cup closed' :
       g \in answered \cup closed \/ (g[1] = i /\ g[2] \in 0 .. made'[g[1]])
  /\ \A g \in closed' : g \in closed \/ g[1] = i

\* A request, if it is under way, is about this id.
IsOf(o, i) == Life!Busy(o) => op[o].id = i

\* What is so of an id stays so in a step about another.
LEMMA Elsewhere ==
  ASSUME NEW i, NEW k \in Ids \ {i}, Life!Orderly(k), Apart(i),
         \A x \in Ops : op'[x] = op[x] \/ (IsOf(x, i) /\ IsOf(x, i)')
  PROVE  Life!Orderly(k)'
<1>1. /\ mem'[k] = mem[k] /\ store'[k] = store[k] /\ box'[k] = box[k] /\ cache'[k] = cache[k]
      /\ made'[k] = made[k] /\ backend' = backend
  BY DEF Apart
<1>2. (Life!Lost(k) => Life!Lost(k)') /\ (Life!NoRecord(k) => Life!NoRecord(k)')
  BY <1>1 DEF Apart, Life!Lost, Life!NoRecord
<1>3. Life!Gen(k, made'[k]) \in closed' => Life!Gen(k, made[k]) \in closed
  BY <1>1 DEF Apart, Life!Gen
<1>4. \A x \in Ops : Life!Busy(x)' /\ op'[x].id = k => op'[x] = op[x]
  BY DEF IsOf
<1>5. \A x \in Ops : Life!Busy(x) /\ op[x].id = k => op'[x] = op[x]
  BY DEF IsOf
<1>6. (Life!Over(k) => Life!Over(k)') /\ (Life!Unmade(k) => Life!Unmade(k)')
  BY <1>4 DEF Life!Over, Life!Unmade
<1>7. Life!Holds(k)'
  BY <1>1, <1>2, <1>3, <1>4, <1>6 DEF Life!Orderly, Life!Holds, Life!Current
<1>8. Life!Kept(k)'
  BY <1>1, <1>2, <1>5 DEF Life!Orderly, Life!Kept, Life!Named
<1>9. ASSUME NEW x \in Ops, op'[x].id = k PROVE Life!Maker(x)' /\ Life!Ender(x)'
  <2>1. CASE ~Life!Busy(x)'
    BY <2>1 DEF Life!Maker, Life!Ender
  <2>2. CASE Life!Busy(x)'
    <3>1. op'[x] = op[x] /\ op[x].id = k /\ Life!Maker(x) /\ Life!Ender(x)
      BY <1>4, <1>9, <2>2 DEF Life!Orderly
    <3>2. Life!Maker(x)'
      BY <1>1, <1>4, <3>1 DEF Life!Maker
    <3>3. Life!Ender(x)'
      BY <1>1, <1>2, <1>6, <3>1 DEF Life!Ender, Life!Current
    <3> QED
      BY <3>2, <3>3
  <2> QED
    BY <2>1, <2>2
<1> QED
  BY <1>7, <1>8, <1>9 DEF Life!Orderly

\* The shape is kept by a step about one id.
LEMMA ShapeStays ==
  ASSUME Life!Shape, NEW i, NEW o \in Ops, Frame(o), Life!Request(o)', Apart(i)
  PROVE  Life!Shape'
<1>1. ASSUME NEW k \in Ids PROVE Life!Entry(k)'
  <2>1. made'[k] \in Nat /\ made[k] \in Nat /\ made[k] <= made'[k]
    BY DEF Apart, Life!Shape, Life!Entry
  <2>2. ASSUME NEW g \in answered' \cup closed', g[1] = k PROVE g[2] \in 0 .. made'[k]
    <3>1. CASE g \in answered \cup closed
      <4>1. g[2] \in 0 .. made[k]
        BY <2>2, <3>1 DEF Life!Shape, Life!Entry
      <4>2. k = i \/ made'[k] = made[k]
        BY DEF Apart
      <4> QED
        BY <2>1, <2>2, <3>1, <4>1, <4>2 DEF Apart
    <3>2. CASE g[1] = i /\ g[2] \in 0 .. made'[g[1]]
      BY <2>2, <3>2
    <3> QED
      BY <3>1, <3>2 DEF Apart
  <2> QED
    BY <2>1, <2>2 DEF Life!Entry
<1>2. ASSUME NEW x \in Ops \ {o} PROVE Life!Request(x)'
  <2>1. op'[x] = op[x] /\ Life!Request(x)
    BY DEF Frame, Life!Shape
  <2>2. \A k \in Ids : made[k] \in Nat /\ made'[k] \in Nat /\ made[k] <= made'[k]
    BY DEF Apart, Life!Shape, Life!Entry
  <2> QED
    BY <2>1, <2>2 DEF Life!Request
<1> QED
  BY <1>1, <1>2 DEF Life!Shape, Frame, Apart

\* The invariant is kept when what is so of the id that a step is about stays so.
LEMMA AboutOne ==
  ASSUME Life!LifeInv, NEW i, NEW o \in Ops, Frame(o), Life!Request(o)', Apart(i),
         IsOf(o, i), IsOf(o, i)',
         i \in Life!Sole /\ i \in Life!Sole' /\ Life!Orderly(i) => Life!Orderly(i)'
  PROVE  Life!LifeInv'
<1>1. Life!Shape'
  BY ShapeStays DEF Life!LifeInv
<1>2. ASSUME NEW k \in Life!Sole' PROVE Life!Orderly(k)'
  <2>1. k \in Life!Sole /\ k \in Ids /\ Life!Orderly(k)
    BY DEF Life!Sole, Apart, Life!LifeInv
  <2>2. CASE k = i
    BY <2>1, <2>2
  <2>3. CASE k # i
    <3>1. \A x \in Ops : op'[x] = op[x] \/ (IsOf(x, i) /\ IsOf(x, i)')
      BY DEF Frame
    <3> QED
      BY <2>1, <2>3, <3>1, Elsewhere
  <2> QED
    BY <2>2, <2>3
<1> QED
  BY <1>1, <1>2 DEF Life!LifeInv

\* A session that is over stays so when no request begins to make it.
LEMMA OverStays ==
  ASSUME NEW o \in Ops, Frame(o), op'[o].pc \notin Life!Making
  PROVE  \A i : Life!Over(i) => Life!Over(i)'
BY DEF Life!Over, Frame

\* An id that nobody makes stays so when no request begins to make it.
LEMMA UnmadeStays ==
  ASSUME NEW o \in Ops, Frame(o), op'[o].pc \notin Life!Creating
  PROVE  \A i : Life!Unmade(i) => Life!Unmade(i)'
BY DEF Life!Unmade, Frame

\* What is so of an id, when a request about it moves and does not begin to make it.
LEMMA Here ==
  ASSUME NEW i, NEW o \in Ops, Life!Orderly(i), Frame(o), made'[i] = made[i], backend' = backend,
         box'[i] = box[i] \/ Life!Over(i) \/ (op[o].pc \in Life!Creating /\ op[o].id = i),
         op'[o].pc \in Life!Creating => op[o].pc \in Life!Creating /\ op[o].id = i /\ op'[o].id = i,
         op'[o].pc \in Life!Making => op[o].pc \in Life!Making,
         Life!Over(i) => /\ mem[i] = Life!None => mem'[i] = Life!None
                         /\ Life!NoRecord(i) => Life!NoRecord(i)',
         op'[o].id = i => Life!Maker(o)' /\ Life!Ender(o)', Life!Holds(i)', Life!Kept(i)'
  PROVE  Life!Orderly(i)'
<1>1. (Life!Over(i) => Life!Over(i)') /\ (Life!Unmade(i) => Life!Unmade(i)')
  BY DEF Life!Over, Life!Unmade, Frame
<1>2. ASSUME NEW x \in Ops \ {o}, op'[x].id = i PROVE Life!Maker(x)' /\ Life!Ender(x)'
  <2>1. op'[x] = op[x] /\ op[x].id = i /\ Life!Maker(x) /\ Life!Ender(x)
    BY <1>2 DEF Life!Orderly, Frame
  <2>2. Life!Maker(x)'
    <3> SUFFICES ASSUME op[x].pc \in Life!Creating PROVE Life!Maker(x)'
      BY <2>1 DEF Life!Maker
    <3>1. \A y \in Ops \ {x} : op[y].pc \in Life!Creating => op[y].id # i
      BY <2>1 DEF Life!Maker
    <3>2. op'[o].pc \notin Life!Creating /\ ~(op[o].pc \in Life!Creating /\ op[o].id = i)
      BY <3>1
    <3>3. \A y \in Ops \ {x} : op'[y].pc \in Life!Creating => op'[y].id # i
      BY <3>1, <3>2 DEF Frame
    <3>4. op[x].pc \in {"track", "save"} => box'[i] = box[i]
      BY <2>1, <3>2 DEF Life!Over
    <3> QED
      BY <2>1, <3>3, <3>4 DEF Life!Maker
  <2>3. Life!Ender(x)'
    BY <1>1, <2>1 DEF Life!Ender, Life!Current
  <2> QED
    BY <2>2, <2>3
<1> QED
  BY <1>2 DEF Life!Orderly

\* A step of one request that leaves the maps, the records and the workspaces.
LeftAlone ==
  /\ UNCHANGED <<backend, store, box, cache, made, answered, closed>>
  /\ overlapped \subseteq overlapped' /\ adrift \subseteq adrift'
  /\ DOMAIN mem' = Ids /\ \A k \in Ids : mem'[k] = mem[k]

\* A step that moves one request, and none that makes or removes a workspace.
LEMMA RequestMoves ==
  ASSUME Life!LifeInv, NEW i, NEW o \in Ops, Frame(o), Life!Request(o)', LeftAlone, IsOf(o, i), IsOf(o, i)',
         ~Life!Named(o),
         i \in Life!Sole /\ i \in Life!Sole' /\ Life!Orderly(i) =>
           Life!Ender(o)' /\ op'[o].pc \notin Life!Creating
  PROVE  Life!LifeInv'
<1>1. Apart(i)
  <2>1. /\ DOMAIN store = Ids /\ DOMAIN box = Ids /\ DOMAIN cache = Ids /\ DOMAIN made = Ids
        /\ \A k \in Ids : made[k] \in Nat
    BY DEF Life!LifeInv, Life!Shape, Life!Entry
  <2> QED
    BY <2>1 DEF LeftAlone, Apart
<1>2. ASSUME i \in Life!Sole, i \in Life!Sole', Life!Orderly(i) PROVE Life!Orderly(i)'
  <2>1. i \in Ids /\ mem'[i] = mem[i] /\ (Life!Lost(i) => Life!Lost(i)')
    BY <1>2 DEF Life!Sole, LeftAlone, Life!Lost
  <2>2. UNCHANGED <<backend, store, box, cache, made, closed>>
    BY DEF LeftAlone
  <2>3. (Life!Over(i) => Life!Over(i)') /\ (Life!Unmade(i) => Life!Unmade(i)')
    BY <1>2, OverStays, UnmadeStays
  <2>4. Life!NoRecord(i) => Life!NoRecord(i)'
    BY <2>1, <2>2 DEF Life!NoRecord
  <2>5. Life!Holds(i)'
    <3>1. \A x \in Ops : op'[x].pc \in Life!Creating => op'[x] = op[x]
      BY <1>2 DEF Frame
    <3> QED
      BY <1>2, <2>1, <2>2, <2>3, <2>4, <3>1 DEF Life!Orderly, Life!Holds, Life!Current
  <2>6. Life!Kept(i)'
    BY <1>2, <2>1, <2>2 DEF Life!Orderly, Life!Kept, Life!Named, Frame
  <2>7. Life!Maker(o)' /\ Life!Ender(o)'
    BY <1>2 DEF Life!Maker
  <2> QED
    BY <1>2, <2>1, <2>2, <2>4, <2>5, <2>6, <2>7, Here
<1> QED
  BY <1>1, <1>2, AboutOne

\* A request that ends, and did not hold a workspace.
LEMMA AnswerKeeps ==
  ASSUME Life!LifeInv, NEW o \in Ops, NEW c, Life!Answer(o, c), ~Life!Named(o), LeftAlone
  PROVE  Life!LifeInv'
<1>1. Frame(o) /\ op'[o].pc = "done" /\ op'[o].gen = 0
  BY AnswerStep, Facts
<1>2. Life!Request(o)' /\ Life!Ender(o)'
  BY <1>1 DEF Life!Request, Life!Ender, Frame
<1>3. IsOf(o, op[o].id) /\ Life!Busy(o)' = FALSE
  BY <1>1 DEF IsOf
<1>4. PICK i : i = op[o].id
  OBVIOUS
<1>5. IsOf(o, i) /\ IsOf(o, i)'
  BY <1>3, <1>4 DEF IsOf
<1> QED
  BY <1>1, <1>2, <1>5, RequestMoves

\* A request that is followed: the id it is about, in one state and the next.
LEMMA Follows ==
  ASSUME Life!LifeInv, NEW o \in Ops, Life!Busy(o), op'[o].id = op[o].id
  PROVE  \E i \in Ids : op[o].id = i /\ op'[o].id = i /\ IsOf(o, i) /\ IsOf(o, i)'
<1>1. PICK i \in Ids : op[o].id = i
  BY Facts
<1>2. IsOf(o, i) /\ IsOf(o, i)'
  BY <1>1 DEF IsOf
<1> QED
  BY <1>1, <1>2

\* A request that goes on with what GetSession found.
LEMMA GotKeeps ==
  ASSUME Life!LifeInv, NEW o \in Ops, NEW s, Life!Got(o, s), LeftAlone,
         op[o].pc \in {"get", "drop", "check", "close"}
  PROVE  Life!LifeInv'
<1>1. /\ Frame(o) /\ op'[o].pc = op[o].then
      /\ op'[o].kind = op[o].kind /\ op'[o].id = op[o].id /\ op'[o].gen = op[o].gen
      /\ op'[o].victim = Life!None /\ ~op'[o].inner /\ op'[o].then = op[o].then
  BY GotStep, Facts
<1>2. Life!Request(o)' /\ Life!Busy(o) /\ ~Life!Named(o)
  BY <1>1, Facts DEF Life!Request, Frame, LeftAlone, Life!Named
<1>3. PICK i \in Ids : op[o].id = i /\ op'[o].id = i /\ IsOf(o, i) /\ IsOf(o, i)'
  BY <1>1, <1>2, Follows
<1>4. ASSUME Life!Orderly(i) PROVE Life!Ender(o)' /\ op'[o].pc \notin Life!Creating
  <2>1. Life!Ender(o)
    BY <1>3, <1>4, AtHand
  <2>2. op[o].then \in {"auth", "list", "close"} /\ (op[o].then = "close" => op[o].kind = "close")
    BY <2>1 DEF Life!Ender
  <2>3. op[o].kind = "close" => made[i] # 0 /\ Life!Unmade(i)'
    <3>1. op[o].kind = "close" => made[i] # 0 /\ Life!Unmade(i)
      BY <1>2, <1>3, <2>1 DEF Life!Ender
    <3> QED
      BY <1>1, <2>2, <3>1, UnmadeStays
  <2>4. Life!Unmade(i)' => Life!Over(i)'
    BY DEF Life!Unmade, Life!Over
  <2> QED
    BY <1>1, <1>3, <2>1, <2>2, <2>3, <2>4 DEF Life!Ender, Life!Current, LeftAlone
<1> QED
  BY <1>1, <1>2, <1>3, <1>4, RequestMoves

\* A request that found its session expired begins to close it.
LEMMA InnerKeeps ==
  ASSUME Life!LifeInv, NEW o \in Ops, op[o].pc \in {"get", "check"}, LeftAlone,
         NEW s, op' = [op EXCEPT ![o].pc = "close", ![o].inner = TRUE, ![o].sess = s],
         Life!Orderly(op[o].id) => made[op[o].id] # 0 /\ Life!Over(op[o].id)
  PROVE  Life!LifeInv'
<1>1. /\ Frame(o) /\ op'[o].pc = "close" /\ op'[o].inner /\ op'[o].victim = op[o].victim
      /\ op'[o].kind = op[o].kind /\ op'[o].id = op[o].id /\ op'[o].gen = op[o].gen
      /\ op'[o].then = op[o].then
  BY InnerStep, Facts, Zenon
<1>2. Life!Request(o)' /\ Life!Busy(o) /\ ~Life!Named(o)
  BY <1>1, Facts DEF Life!Request, Frame, LeftAlone, Life!Named
<1>3. PICK i \in Ids : op[o].id = i /\ op'[o].id = i /\ IsOf(o, i) /\ IsOf(o, i)'
  BY <1>1, <1>2, Follows
<1>4. ASSUME Life!Orderly(i) PROVE Life!Ender(o)'
  <2>1. Life!Ender(o)
    BY <1>3, <1>4, AtHand
  <2>2. made[i] # 0 /\ Life!Over(i)' /\ (Life!Unmade(i) => Life!Unmade(i)')
    BY <1>1, <1>3, <1>4, OverStays, UnmadeStays
  <2> QED
    BY <1>1, <1>3, <2>1, <2>2 DEF Life!Ender, Life!Current, LeftAlone
<1> QED
  BY <1>1, <1>2, <1>3, <1>4, RequestMoves

\* A request that goes on to a step that ends nothing.
LEMMA ReadsOn ==
  ASSUME Life!LifeInv, NEW o \in Ops, op[o].pc \in {"get", "auth"}, LeftAlone, Frame(o),
         op'[o].pc \in {"get", "drop", "check"},
         op'[o].kind = op[o].kind /\ op'[o].id = op[o].id /\ op'[o].gen = op[o].gen,
         op'[o].victim = op[o].victim,
         op'[o].then \in {op[o].then, IF op[o].kind = "close" THEN "close" ELSE "list"},
         op'[o].pc = "check" /\ Life!Orderly(op[o].id) => made[op[o].id] # 0 /\ Life!Over(op[o].id)
  PROVE  Life!LifeInv'
<1>1. Life!Request(o)' /\ Life!Busy(o) /\ ~Life!Named(o)
  BY Facts DEF Life!Request, Frame, LeftAlone, Life!Named
<1>2. PICK i \in Ids : op[o].id = i /\ op'[o].id = i /\ IsOf(o, i) /\ IsOf(o, i)'
  BY <1>1, Follows
<1>3. ASSUME Life!Orderly(i) PROVE Life!Ender(o)'
  <2>1. Life!Ender(o)
    BY <1>2, <1>3, AtHand
  <2>2. (Life!Over(i) => Life!Over(i)') /\ (Life!Unmade(i) => Life!Unmade(i)')
    BY OverStays, UnmadeStays
  <2>3. /\ op'[o].then \in {"auth", "list", "close"}
        /\ op'[o].then = "close" => op[o].kind = "close"
    BY <2>1 DEF Life!Ender
  <2> QED
    BY <1>1, <1>2, <1>3, <2>1, <2>2, <2>3 DEF Life!Ender, Life!Current, LeftAlone
<1> QED
  BY <1>1, <1>2, <1>3, RequestMoves

\* GetSession, ListTools and the checks before a close.
LEMMA GetKeeps ==
  ASSUME Life!LifeInv, NEW o \in Ops,
         Life!LocalGet(o) \/ Life!StoreGet(o) \/ Life!DockerCheck(o)
           \/ Life!ValidateSessionAccess(o) \/ Life!ListTools(o) \/ Life!Unauthenticated(o)
  PROVE  Life!LifeInv'
<1>1. LeftAlone /\ Life!Shape
  <2>1. UNCHANGED <<backend, mem, store, box, cache, made, overlapped, answered, closed, adrift>>
    BY Zenon DEF Life!LocalGet, Life!StoreGet, Life!DockerCheck, Life!ValidateSessionAccess,
                 Life!ListTools, Life!Unauthenticated, Life!managed, Life!told, Life!counted
  <2> QED
    BY <2>1, Facts DEF LeftAlone, Life!Shape
<1>2. ASSUME NEW c, Life!Answer(o, c), ~Life!Named(o) PROVE Life!LifeInv'
  BY <1>1, <1>2, AnswerKeeps
<1>3. ASSUME NEW s, Life!Got(o, s), op[o].pc \in {"get", "check"} PROVE Life!LifeInv'
  BY <1>1, <1>3, GotKeeps
<1>4. ASSUME NEW s, Life!GotOrClose(o, s), op[o].pc \in {"get", "check"},
             s # Life!None /\ Life!Orderly(op[o].id) => made[op[o].id] # 0 /\ Life!Over(op[o].id)
      PROVE  Life!LifeInv'
  <2>1. CASE s # Life!None /\ Life!Expired(s)
    <3>1. op' = [op EXCEPT ![o].pc = "close", ![o].inner = TRUE, ![o].sess = Life!None]
      BY <1>4, <2>1 DEF Life!GotOrClose
    <3> QED
      BY <1>1, <1>4, <2>1, <3>1, InnerKeeps, Zenon
  <2>2. CASE ~(s # Life!None /\ Life!Expired(s))
    BY <1>3, <1>4, <2>2 DEF Life!GotOrClose
  <2> QED
    BY <2>1, <2>2
<1>5. CASE Life!LocalGet(o)
  <2>1. op[o].pc = "get" /\ backend = "local" /\ Life!GotOrClose(o, mem[op[o].id])
    BY <1>5 DEF Life!LocalGet, Life!At, Life!Id
  <2>2. ASSUME mem[op[o].id] # Life!None, Life!Orderly(op[o].id)
        PROVE  made[op[o].id] # 0 /\ Life!Over(op[o].id)
    <3>1. Life!Holds(op[o].id)
      BY <2>2 DEF Life!Orderly
    <3>2. ASSUME NEW x \in Ops, op[x].pc = "save", op[x].id = op[o].id PROVE FALSE
      <4>1. Life!Maker(x)
        BY <2>2, <3>2 DEF Life!Orderly
      <4> QED
        BY <2>1, <3>2, <4>1 DEF Life!Maker
    <3> QED
      BY <2>2, <3>1, <3>2 DEF Life!Holds, Life!Over, Life!Current
  <2> QED
    BY <1>4, <2>1, <2>2
<1>6. CASE Life!StoreGet(o)
  <2>1. /\ op[o].pc = "get" /\ ~Life!Named(o)
        /\ \/ Life!Got(o, Life!None)
           \/ Life!Goto(o, "drop")
           \/ /\ store[op[o].id] # Life!None
              /\ op' = [op EXCEPT ![o].pc = "check", ![o].sess = store[op[o].id]]
           \/ Life!Answer(o, "internal")
    BY <1>6 DEF Life!StoreGet, Life!At, Life!Id, Life!Named
  <2>2. CASE Life!Goto(o, "drop")
    BY <1>1, <2>1, <2>2, GotoStep, ReadsOn
  <2>3. CASE /\ store[op[o].id] # Life!None
             /\ op' = [op EXCEPT ![o].pc = "check", ![o].sess = store[op[o].id]]
    <3>1. /\ Frame(o) /\ op'[o].pc = "check" /\ op'[o].victim = op[o].victim
          /\ op'[o].kind = op[o].kind /\ op'[o].id = op[o].id /\ op'[o].gen = op[o].gen
          /\ op'[o].then = op[o].then
      BY <1>1, <2>3, SessStep
    <3>2. Life!Orderly(op[o].id) => made[op[o].id] # 0 /\ Life!Over(op[o].id)
      BY <2>3 DEF Life!Orderly, Life!Holds, Life!Current
    <3> QED
      BY <1>1, <2>1, <3>1, <3>2, ReadsOn
  <2> QED
    BY <1>2, <1>3, <2>1, <2>2, <2>3
<1>7. CASE Life!DockerCheck(o)
  <2>1. op[o].pc = "check" /\ Life!GotOrClose(o, op[o].sess)
    BY <1>7 DEF Life!DockerCheck, Life!At
  <2>2. Life!Orderly(op[o].id) => made[op[o].id] # 0 /\ Life!Over(op[o].id)
    BY <2>1 DEF Life!Ender, Life!Orderly
  <2> QED
    BY <1>4, <2>1, <2>2
<1>8. CASE Life!ValidateSessionAccess(o)
  <2>1. /\ op[o].pc = "auth" /\ ~Life!Named(o)
        /\ \/ \E c : Life!Answer(o, c)
           \/ op' = [op EXCEPT ![o].pc = "get", ![o].sess = Life!None,
                               ![o].then = IF op[o].kind = "close" THEN "close" ELSE "list"]
    BY <1>8 DEF Life!ValidateSessionAccess, Life!At, Life!Named
  <2>2. CASE op' = [op EXCEPT ![o].pc = "get", ![o].sess = Life!None,
                              ![o].then = IF op[o].kind = "close" THEN "close" ELSE "list"]
    <3>1. PICK c : c = IF op[o].kind = "close" THEN "close" ELSE "list"
      OBVIOUS
    <3>2. op' = [op EXCEPT ![o].pc = "get", ![o].sess = Life!None, ![o].then = c]
      BY <2>2, <3>1, Zenon
    <3>3. /\ Frame(o) /\ op'[o].pc = "get" /\ op'[o].victim = op[o].victim /\ op'[o].then = c
          /\ op'[o].kind = op[o].kind /\ op'[o].id = op[o].id /\ op'[o].gen = op[o].gen
      BY <1>1, <3>2, AgainStep, Zenon
    <3> QED
      BY <1>1, <2>1, <3>1, <3>3, ReadsOn
  <2> QED
    BY <1>2, <2>1, <2>2
<1>9. CASE Life!ListTools(o)
  BY <1>2, <1>9 DEF Life!ListTools, Life!At, Life!Named
<1>10. CASE Life!Unauthenticated(o)
  BY <1>2, <1>10 DEF Life!Unauthenticated, Life!At, Life!Named
<1> QED
  BY <1>5, <1>6, <1>7, <1>8, <1>9, <1>10

\* ListTools and the other reads of a session begin.
LEMMA ReadKeeps ==
  ASSUME Life!LifeInv, NEW o \in Ops, NEW i \in Ids, NEW p, Life!BeginRead(o, i, p)
  PROVE  Life!LifeInv'
<1>1. LeftAlone /\ Life!Shape /\ op[o].pc = "idle" /\ ~Life!Named(o)
  <2>1. /\ UNCHANGED <<backend, mem, store, box, cache, made, overlapped, answered, closed, adrift>>
        /\ op[o].pc = "idle"
    BY Zenon DEF Life!BeginRead, Life!managed, Life!told, Life!counted, Life!At
  <2> QED
    BY <2>1, Facts DEF LeftAlone, Life!Shape, Life!Named
<1>2. PICK c : c = IF Auth THEN "auth" ELSE "list"
  OBVIOUS
<1>3. op' = [op EXCEPT ![o] = [Life!Idle EXCEPT !.pc = "get", !.kind = "read", !.id = i, !.by = p,
                                           !.then = c]]
  BY <1>2 DEF Life!BeginRead
<1>4. /\ Frame(o) /\ op'[o].pc = "get" /\ op'[o].kind = "read" /\ op'[o].id = i
      /\ op'[o].then = c /\ op'[o].victim = Life!None /\ op'[o].gen = 0
  BY <1>1, <1>3, ReadBegins, Zenon
<1>5. Life!Request(o)' /\ Life!Ender(o)'
  <2>1. made'[i] \in Nat
    BY <1>1 DEF LeftAlone, Life!Shape, Life!Entry
  <2> QED
    BY <1>2, <1>4, <2>1 DEF Life!Request, Frame, Life!Ender
<1>6. IsOf(o, i) /\ IsOf(o, i)'
  BY <1>1, <1>4 DEF IsOf
<1> QED
  BY <1>1, <1>4, <1>5, <1>6, RequestMoves

\* A close begins: of an id whose sessions follow each other none is being made.
LEMMA CloseKeeps ==
  ASSUME Life!LifeInv, NEW o \in Ops, NEW i \in Ids, NEW p, Life!BeginClose(o, i, p)
  PROVE  Life!LifeInv'
<1>1. /\ LeftAlone /\ Life!Shape /\ op[o].pc = "idle" /\ ~Life!Named(o) /\ made[i] \in Nat
      /\ i \in Life!Sole' => Life!Unmade(i)
  <2>1. /\ UNCHANGED <<backend, mem, store, box, cache, made, answered, closed, adrift>>
        /\ op[o].pc = "idle" /\ Life!Overlapping(i, Life!Unmade(i))
    BY Zenon DEF Life!BeginClose, Life!managed, Life!told, Life!At
  <2>2. overlapped \subseteq overlapped' /\ (i \in Life!Sole' => Life!Unmade(i))
    BY <2>1 DEF Life!Overlapping, Life!Sole
  <2> QED
    BY <2>1, <2>2, Facts DEF LeftAlone, Life!Shape, Life!Named, Life!Entry
<1>2. PICK c : c = IF Auth THEN "auth" ELSE "close"
  OBVIOUS
<1>3. PICK n \in 1 .. made[i] :
        op' = [op EXCEPT ![o] = [Life!Idle EXCEPT !.pc = "get", !.kind = "close", !.id = i, !.by = p,
                                           !.gen = n, !.then = c]]
  BY <1>2 DEF Life!BeginClose
<1>4. /\ Frame(o) /\ op'[o].pc = "get" /\ op'[o].kind = "close" /\ op'[o].id = i
      /\ op'[o].gen = n /\ op'[o].then = c /\ op'[o].victim = Life!None
  BY <1>1, <1>3, CloseBegins, Zenon
<1>5. Life!Request(o)' /\ made' = made /\ made[i] # 0
  BY <1>1, <1>3, <1>4 DEF Life!Request, Frame, LeftAlone
<1>6. ASSUME i \in Life!Sole' PROVE Life!Ender(o)'
  <2>1. Life!Unmade(i)'
    BY <1>1, <1>4, <1>6, UnmadeStays
  <2> QED
    BY <1>2, <1>4, <1>5, <2>1 DEF Life!Ender
<1>7. IsOf(o, i) /\ IsOf(o, i)'
  BY <1>1, <1>4 DEF IsOf
<1> QED
  BY <1>1, <1>4, <1>5, <1>6, <1>7, RequestMoves

\* A creation begins: of an id whose sessions follow each other nothing is left.
LEMMA CreateKeeps ==
  ASSUME Life!LifeInv, NEW o \in Ops, NEW i \in Ids, NEW p, NEW t, Life!BeginCreate(o, i, p, t)
  PROVE  Life!LifeInv'
<1>1. /\ UNCHANGED <<backend, mem, store, box, cache, answered, closed, adrift>>
      /\ op[o].pc = "idle" /\ Life!Overlapping(i, Life!Free(i))
      /\ made' = [made EXCEPT ![i] = made[i] + 1]
  BY Zenon DEF Life!BeginCreate, Life!managed, Life!told, Life!At
<1>2. overlapped \subseteq overlapped' /\ (i \in Life!Sole' => Life!Free(i))
  BY <1>1 DEF Life!Overlapping, Life!Sole
<1>3. Life!Shape /\ DOMAIN made = Ids /\ \A k \in Ids : made[k] \in Nat
  BY DEF Life!LifeInv, Life!Shape, Life!Entry
<1>4. PICK n : n = made[i] + 1
  OBVIOUS
<1>5. /\ n \in Nat /\ n # 0 /\ made'[i] = n /\ DOMAIN made' = Ids
      /\ \A k \in Ids \ {i} : made'[k] = made[k]
  BY <1>1, <1>3, <1>4
<1>6. /\ Frame(o) /\ op'[o].pc = "make" /\ op'[o].kind = "create" /\ op'[o].id = i
      /\ op'[o].gen = n /\ op'[o].victim = Life!None
  <2>1. op' = [op EXCEPT ![o] = [Life!Idle EXCEPT !.pc = "make", !.kind = "create", !.id = i,
                                             !.by = p, !.ttl = t, !.gen = n]]
    BY <1>4, Zenon DEF Life!BeginCreate
  <2> QED
    BY <1>3, <2>1, CreateBegins, Zenon
<1>7. Life!Request(o)'
  BY <1>5, <1>6 DEF Life!Request, Frame
<1>8. Apart(i)
  BY <1>1, <1>2, <1>3, <1>4, <1>5 DEF Apart, Life!Shape
<1>9. IsOf(o, i) /\ IsOf(o, i)'
  BY <1>1, <1>6 DEF IsOf
<1>10. ASSUME i \in Life!Sole', Life!Orderly(i) PROVE Life!Orderly(i)'
  <2>1. /\ mem'[i] = Life!None /\ store'[i] = Life!None /\ box'[i] = 0
        /\ \A x \in Ops \ {o} : /\ op'[x] = op[x]
                                /\ op[x].pc \in Life!Creating => op[x].id # i
                                /\ op[x].pc \in Life!Ending => op[x].id # i
                                /\ Life!Busy(x) /\ op[x].kind = "close" => op[x].id # i
    BY <1>1, <1>2, <1>6, <1>10 DEF Life!Free, Life!Unmade, Frame
  <2>2. Life!Gen(i, n) \notin closed
    <3>1. Life!Gen(i, n)[1] = i /\ Life!Gen(i, n)[2] = n
      BY DEF Life!Gen
    <3> QED
      BY <1>3, <1>4, <3>1 DEF Life!Shape, Life!Entry
  <2>3. Life!Holds(i)' /\ Life!Kept(i)'
    BY <1>1, <1>5, <2>1, <2>2 DEF Life!Holds, Life!Kept, Life!Current
  <2>4. Life!Maker(o)' /\ Life!Ender(o)'
    BY <1>5, <1>6, <2>1 DEF Life!Maker, Life!Ender
  <2>5. ASSUME NEW x \in Ops \ {o}, op'[x].id = i PROVE Life!Maker(x)' /\ Life!Ender(x)'
    <3>1. op'[x] = op[x] /\ Life!Ender(x)
      BY <1>10, <2>1, <2>5 DEF Life!Orderly
    <3> QED
      BY <2>1, <2>5, <3>1 DEF Life!Maker, Life!Ender
  <2> QED
    BY <2>3, <2>4, <2>5 DEF Life!Orderly
<1> QED
  BY <1>6, <1>7, <1>8, <1>9, <1>10, AboutOne

\* A request about an id moves, and of the session nothing is touched but what one step of its
\* making or its ending does.
Touches(o, i) ==
  /\ op[o].id = i /\ Life!Busy(o) /\ Frame(o) /\ Life!Request(o)' /\ IsOf(o, i)'
  /\ UNCHANGED <<backend, made, overlapped>> /\ adrift \subseteq adrift'

\* The rest of the step is about that id alone.
LEMMA TouchesOne ==
  ASSUME Life!LifeInv, NEW i \in Ids, NEW o \in Ops, Touches(o, i), Apart(i),
         Life!Orderly(i) => Life!Orderly(i)'
  PROVE  Life!LifeInv'
BY AboutOne DEF Touches, IsOf

\* Where answers and closes stay, a step that changes maps at one id is about it.
LEMMA AtOne ==
  ASSUME Life!LifeInv, NEW i \in Ids,
         UNCHANGED <<backend, made, overlapped, answered, closed>>, adrift \subseteq adrift',
         mem' = mem \/ \E v : mem' = [mem EXCEPT ![i] = v],
         store' = store \/ \E v : store' = [store EXCEPT ![i] = v],
         box' = box \/ \E v : box' = [box EXCEPT ![i] = v],
         cache' = cache \/ \E v : cache' = [cache EXCEPT ![i] = v]
  PROVE  Apart(i)
<1>1. /\ DOMAIN mem = Ids /\ DOMAIN store = Ids /\ DOMAIN box = Ids /\ DOMAIN cache = Ids
      /\ DOMAIN made = Ids /\ \A k \in Ids : made[k] \in Nat
  BY DEF Life!LifeInv, Life!Shape, Life!Entry
<1>2. DOMAIN mem' = Ids /\ \A k \in Ids \ {i} : mem'[k] = mem[k]
  BY <1>1
<1>3. DOMAIN store' = Ids /\ \A k \in Ids \ {i} : store'[k] = store[k]
  BY <1>1
<1>4. DOMAIN box' = Ids /\ \A k \in Ids \ {i} : box'[k] = box[k]
  BY <1>1
<1>5. DOMAIN cache' = Ids /\ \A k \in Ids \ {i} : cache'[k] = cache[k]
  BY <1>1
<1> QED
  BY <1>1, <1>2, <1>3, <1>4, <1>5 DEF Apart

\* The record is deleted.
LEMMA UnsaveKeeps ==
  ASSUME Life!LifeInv, NEW o \in Ops, Life!Unsave(o)
  PROVE  Life!LifeInv'
<1>1. /\ op[o].pc = "unsave" /\ Life!Busy(o)
      /\ UNCHANGED <<backend, mem, box, cache, made, overlapped, answered, closed>>
  BY DEF Life!Unsave, Life!At, Life!told, Life!counted
<1>2. PICK i \in Ids : op[o].id = i
  BY <1>1, Facts
<1>3. \/ store' = [store EXCEPT ![i] = Life!None] /\ adrift' = adrift
      \/ store' = store /\ adrift' = adrift \cup {Life!Gen(i, store[i].gen)}
  BY <1>2 DEF Life!Unsave, Life!Id
<1>4. /\ Frame(o) /\ op'[o].kind = op[o].kind /\ op'[o].id = i /\ op'[o].gen = op[o].gen
      /\ op'[o].then = op[o].then
      /\ \/ op'[o].pc = "remove" /\ op'[o].victim = op[o].victim /\ op[o].victim # Life!None
            /\ op'[o].inner = op[o].inner
         \/ op'[o].pc = "closed" /\ op[o].victim = Life!None /\ op'[o].victim = op[o].victim
            /\ ~op[o].inner
         \/ op'[o].pc = op[o].then /\ op'[o].victim = Life!None /\ ~op'[o].inner
            /\ op[o].victim = Life!None
  BY <1>1, <1>2, Facts, GotoStep, GotStep DEF Life!Unsave, Life!Ended
<1>5. Life!Request(o)' /\ IsOf(o, i)'
  BY <1>1, <1>2, <1>4, Facts DEF Life!Request, Frame, IsOf
<1>6. Touches(o, i) /\ Apart(i)
  <2>1. adrift \subseteq adrift' /\ (store' = store \/ \E v : store' = [store EXCEPT ![i] = v])
    BY <1>3
  <2> QED
    BY <1>1, <1>2, <1>4, <1>5, <2>1, AtOne DEF Touches
<1>7. ASSUME Life!Orderly(i) PROVE Life!Orderly(i)'
  <2>1. Life!Maker(o) /\ Life!Ender(o) /\ Life!Holds(i) /\ Life!Kept(i)
    BY <1>2, <1>7, AtHand
  <2>2. /\ store'[i] = Life!None \/ (store'[i] = store[i] /\ Life!NoRecord(i)')
        /\ Life!Lost(i) => Life!Lost(i)'
    <3>1. Life!Lost(i) => Life!Lost(i)'
      BY <1>1, <1>3 DEF Life!Lost
    <3>2. CASE store' = store /\ adrift' = adrift \cup {Life!Gen(i, store[i].gen)}
      BY <1>1, <2>1, <3>1, <3>2 DEF Life!NoRecord, Life!Lost, Life!Holds, Life!Current
    <3>3. CASE store' = [store EXCEPT ![i] = Life!None]
      BY <3>1, <3>3 DEF Life!LifeInv, Life!Shape
    <3> QED
      BY <1>3, <3>1, <3>2, <3>3
  <2>3. /\ made[i] # 0 /\ Life!Over(i) /\ op'[o].pc \notin Life!Creating
        /\ op[o].then \in {"auth", "list", "close"}
        /\ op[o].then = "close" => op[o].kind = "close"
        /\ op[o].kind = "close" => Life!Unmade(i)
        /\ mem[i] = Life!None /\ (~op[o].inner => op[o].kind = "close")
        /\ op[o].victim # Life!None \/ Life!NoRecord(i)
        /\ Life!Current(op[o].victim, i)
    BY <1>1, <1>2, <1>4, <2>1 DEF Life!Ender
  <2>4. Life!Over(i)' /\ (Life!Unmade(i) => Life!Unmade(i)')
    BY <1>4, <2>3, OverStays, UnmadeStays
  <2>5. Life!NoRecord(i) => Life!NoRecord(i)'
    BY <2>2 DEF Life!NoRecord
  <2>6. Life!NoRecord(i)'
    BY <2>2 DEF Life!NoRecord
  <2>7. Life!Ender(o)' /\ Life!Maker(o)'
    BY <1>1, <1>4, <2>3, <2>4, <2>6 DEF Life!Ender, Life!Maker, Life!Current
  <2>8. Life!Holds(i)'
    <3>1. \A x \in Ops : op'[x].pc \in Life!Creating => op'[x] = op[x]
      BY <1>4, <2>3 DEF Frame
    <3> QED
      BY <1>1, <2>1, <2>2, <2>3, <2>4, <2>6, <3>1 DEF Life!Holds, Life!Current
  <2>9. Life!Kept(i)'
    BY <1>1, <1>2, <1>4, <2>1, <2>2, <2>3 DEF Life!Kept, Life!Named, Life!NoRecord, Frame
  <2> QED
    BY <1>1, <1>4, <1>7, <2>3, <2>5, <2>7, <2>8, <2>9, Here
<1> QED
  BY <1>6, <1>7, TouchesOne

\* Whoever makes a session does not close it.
LEMMA MakersCreate ==
  ASSUME NEW o \in Ops, Life!Ender(o), op[o].pc \in Life!Creating
  PROVE  op[o].kind # "close" /\ op[o].victim = Life!None
BY DEF Life!Ender, Life!Unmade

\* CreateSession of the managers: the directory or the container.
LEMMA MakeKeeps ==
  ASSUME Life!LifeInv, NEW o \in Ops, Life!LocalMake(o) \/ Life!DockerMake(o)
  PROVE  Life!LifeInv'
<1>1. /\ op[o].pc = "make" /\ Life!Busy(o) /\ ~Life!Named(o) /\ Life!Shape
      /\ UNCHANGED <<backend, mem, store, cache, made, overlapped, answered, closed>>
  BY Facts DEF Life!LocalMake, Life!DockerMake, Life!At, Life!told, Life!counted, Life!Named
<1>2. PICK i \in Ids : op[o].id = i
  BY <1>1, Facts
<1>3. PICK n : n = op[o].gen
  OBVIOUS
<1>4. \/ Life!Answer(o, "internal") /\ box' = box /\ adrift' = adrift
      \/ /\ box' = [box EXCEPT ![i] = n]
         /\ \/ Life!Answer(o, "internal") /\ adrift' = adrift \cup {Life!Gen(i, n)}
            \/ Life!Goto(o, "track") /\ adrift' = adrift
  BY <1>2, <1>3 DEF Life!LocalMake, Life!DockerMake, Life!Id, Life!Made
<1>5. CASE Life!Answer(o, "internal") /\ box' = box /\ adrift' = adrift
  <2>1. LeftAlone
    BY <1>1, <1>5 DEF LeftAlone, Life!Shape
  <2> QED
    BY <1>1, <1>5, <2>1, AnswerKeeps
<1>6. ASSUME box' = [box EXCEPT ![i] = n], adrift \subseteq adrift', Frame(o),
             op'[o].gen \in Nat,
             \/ op'[o].pc = "done" /\ Life!Gen(i, n) \in adrift'
             \/ /\ op'[o].pc = "track" /\ op'[o].id = i /\ op'[o].gen = n
                /\ op'[o].kind = op[o].kind /\ op'[o].victim = op[o].victim
      PROVE  Life!LifeInv'
  <2>1. Life!Request(o)' /\ IsOf(o, i)'
    BY <1>1, <1>2, <1>3, <1>6, Facts DEF Life!Request, Frame, IsOf
  <2>2. Touches(o, i) /\ Apart(i)
    BY <1>1, <1>2, <1>6, <2>1, AtOne DEF Touches
  <2>3. ASSUME Life!Orderly(i) PROVE Life!Orderly(i)'
    <3>1. Life!Maker(o) /\ Life!Ender(o) /\ Life!Holds(i) /\ Life!Kept(i)
      BY <1>2, <2>3, AtHand
    <3>2. n = made[i] /\ made[i] # 0 /\ mem[i] = Life!None /\ store[i] = Life!None /\ box'[i] = n
          /\ Life!Gen(i, made[i]) \notin closed
      BY <1>1, <1>2, <1>3, <1>6, <3>1 DEF Life!Maker, Life!Holds, Life!Over, Life!Unmade, Life!Shape
    <3>3. \A x \in Ops \ {o} : op'[x] = op[x] /\ (op[x].pc \in Life!Creating => op[x].id # i)
      BY <1>1, <1>2, <1>6, <3>1 DEF Life!Maker, Frame
    <3>4. Life!Holds(i)'
      BY <1>1, <3>2 DEF Life!Holds, Life!Current
    <3>5. Life!Kept(i)'
      BY <1>1, <1>6, <3>2 DEF Life!Kept, Life!Named, Life!Lost
    <3>6. op'[o].id = i => Life!Maker(o)' /\ Life!Ender(o)'
      BY <1>1, <1>2, <1>6, <3>1, <3>2, <3>3, MakersCreate DEF Life!Maker, Life!Ender
    <3>7. Life!NoRecord(i)'
      BY <1>1, <3>2 DEF Life!NoRecord
    <3> QED
      BY <1>1, <1>2, <1>6, <2>3, <3>4, <3>5, <3>6, <3>7, Here
  <2> QED
    BY <2>2, <2>3, TouchesOne
<1>7. CASE box' = [box EXCEPT ![i] = n] /\ Life!Goto(o, "track") /\ adrift' = adrift
  BY <1>1, <1>2, <1>3, <1>6, <1>7, GotoStep, Facts DEF Life!Request
<1>8. CASE /\ box' = [box EXCEPT ![i] = n] /\ Life!Answer(o, "internal")
           /\ adrift' = adrift \cup {Life!Gen(i, n)}
  BY <1>1, <1>6, <1>8, AnswerStep
<1> QED
  BY <1>4, <1>5, <1>7, <1>8

\* CreateSession of the managers: the entry of the map.
LEMMA TrackKeeps ==
  ASSUME Life!LifeInv, NEW o \in Ops, Life!LocalTrack(o) \/ Life!DockerTrack(o)
  PROVE  Life!LifeInv'
<1>1. /\ op[o].pc = "track" /\ Life!Busy(o) /\ Life!Shape
      /\ UNCHANGED <<backend, store, box, cache, made, overlapped, answered, closed, adrift>>
  BY Facts DEF Life!LocalTrack, Life!DockerTrack, Life!At, Life!told, Life!counted
<1>2. PICK i \in Ids : op[o].id = i
  BY <1>1, Facts
<1>3. PICK s : s = Life!Session(o)
  OBVIOUS
<1>4. s.gen = op[o].gen /\ mem' = [mem EXCEPT ![i] = s]
  BY <1>2, <1>3 DEF Life!LocalTrack, Life!DockerTrack, Life!Id, Life!Session
<1>5. /\ Frame(o) /\ op'[o].id = i /\ op'[o].gen = op[o].gen /\ op'[o].kind = op[o].kind
      /\ op'[o].victim = op[o].victim
      /\ \/ op'[o].pc = "publish"
         \/ op'[o].pc = "save" /\ backend = "docker" /\ op'[o].sess = s
  <2>1. CASE Life!LocalTrack(o)
    BY <1>1, <1>2, <2>1, GotoStep DEF Life!LocalTrack, Life!Goto
  <2>2. CASE Life!DockerTrack(o)
    <3>1. backend = "docker" /\ op' = [op EXCEPT ![o].pc = "save", ![o].sess = s]
      BY <1>3, <2>2 DEF Life!DockerTrack
    <3>2. /\ Frame(o) /\ op'[o].pc = "save" /\ op'[o].sess = s /\ op'[o].victim = op[o].victim
          /\ op'[o].kind = op[o].kind /\ op'[o].id = op[o].id /\ op'[o].gen = op[o].gen
      <4>1. DOMAIN op = Ops /\ DOMAIN op[o] = DOMAIN Life!Idle
        BY <1>1 DEF Life!Shape, Life!Request
      <4>2. op'[o] = [op[o] EXCEPT !.pc = "save", !.sess = s]
        BY <3>1, <4>1
      <4>3. DOMAIN op' = Ops /\ \A x \in Ops \ {o} : op'[x] = op[x]
        BY <3>1, <4>1
      <4> QED
        BY <4>1, <4>2, <4>3, RequestFields, Zenon DEF Frame
    <3> QED
      BY <1>2, <3>1, <3>2
  <2> QED
    BY <2>1, <2>2
<1>6. Touches(o, i) /\ Apart(i)
  <2>1. Life!Request(o)' /\ IsOf(o, i)'
    BY <1>1, <1>2, <1>5, Facts DEF Life!Request, Frame, IsOf
  <2> QED
    BY <1>1, <1>2, <1>4, <1>5, <2>1, AtOne DEF Touches
<1>7. ASSUME Life!Orderly(i) PROVE Life!Orderly(i)'
  <2>1. Life!Maker(o) /\ Life!Ender(o) /\ Life!Holds(i) /\ Life!Kept(i)
    BY <1>2, <1>7, AtHand
  <2>2. /\ op[o].gen = made[i] /\ made[i] # 0 /\ box[i] = made[i] /\ store[i] = Life!None
        /\ mem'[i] = s /\ Life!Gen(i, made[i]) \notin closed /\ ~Life!Over(i)
    BY <1>1, <1>2, <1>4, <2>1 DEF Life!Maker, Life!Holds, Life!Over, Life!Unmade, Life!Shape
  <2>3. s # Life!None
    BY <1>4, <2>2, SomeSession
  <2>4. \A x \in Ops \ {o} : op'[x] = op[x] /\ (op[x].pc \in Life!Creating => op[x].id # i)
    BY <1>1, <1>2, <1>5, <2>1 DEF Life!Maker, Frame
  <2>5. Life!Holds(i)'
    BY <1>1, <1>4, <1>5, <2>2, <2>4 DEF Life!Holds, Life!Current
  <2>6. Life!Kept(i)'
    BY <1>1, <2>2, <2>3 DEF Life!Kept
  <2>7. Life!Maker(o)' /\ Life!Ender(o)'
    BY <1>1, <1>2, <1>4, <1>5, <2>1, <2>2, <2>4, MakersCreate DEF Life!Maker, Life!Ender
  <2> QED
    BY <1>1, <1>2, <1>5, <1>7, <2>2, <2>5, <2>6, <2>7, Here
<1> QED
  BY <1>6, <1>7, TouchesOne

\* CreateSession of the Docker manager: the record, or its failure.
LEMMA SaveKeeps ==
  ASSUME Life!LifeInv, NEW o \in Ops, Life!DockerSave(o)
  PROVE  Life!LifeInv'
<1>1. /\ op[o].pc = "save" /\ Life!Busy(o) /\ Life!Shape
      /\ UNCHANGED <<backend, mem, cache, made, overlapped, answered, closed>>
  BY Facts DEF Life!DockerSave, Life!At, Life!told, Life!counted
<1>2. PICK i \in Ids : op[o].id = i
  BY <1>1, Facts
<1>3. PICK n : n = op[o].gen
  OBVIOUS
<1>4. /\ store' = [store EXCEPT ![i] = op[o].sess] \/ store' = store
      /\ \/ /\ Life!Goto(o, "publish") /\ adrift' = adrift /\ box' = box
            /\ store' = [store EXCEPT ![i] = op[o].sess]
         \/ /\ Life!Answer(o, "internal") /\ adrift' = adrift \cup {Life!Gen(i, n)}
            /\ box' = box \/ box' = [box EXCEPT ![i] = IF box[i] = n THEN 0 ELSE box[i]]
  BY <1>2, <1>3 DEF Life!DockerSave, Life!DockerUnsaved, Life!Stored, Life!Made, Life!Id
<1>5. /\ Frame(o) /\ op'[o].gen \in Nat
      /\ \/ /\ op'[o].pc = "publish" /\ op'[o].id = i /\ op'[o].gen = n /\ op'[o].kind = op[o].kind
            /\ op'[o].victim = op[o].victim
            /\ box' = box /\ store' = [store EXCEPT ![i] = op[o].sess]
         \/ op'[o].pc = "done" /\ Life!Gen(i, n) \in adrift'
  BY <1>1, <1>2, <1>3, <1>4, GotoStep, AnswerStep, Facts DEF Life!Request
<1>6. Touches(o, i) /\ Apart(i)
  <2>1. Life!Request(o)' /\ IsOf(o, i)'
    BY <1>1, <1>2, <1>3, <1>5, Facts DEF Life!Request, Frame, IsOf
  <2>2. adrift \subseteq adrift' /\ (box' = box \/ \E v : box' = [box EXCEPT ![i] = v])
        /\ (store' = store \/ \E v : store' = [store EXCEPT ![i] = v])
    BY <1>4
  <2> QED
    BY <1>1, <1>2, <1>5, <2>1, <2>2, AtOne DEF Touches
<1>7. ASSUME Life!Orderly(i) PROVE Life!Orderly(i)'
  <2>1. Life!Maker(o) /\ Life!Ender(o) /\ Life!Holds(i) /\ Life!Kept(i)
    BY <1>2, <1>7, AtHand
  <2>2. /\ n = made[i] /\ made[i] # 0 /\ box[i] = made[i] /\ store[i] = Life!None
        /\ op[o].sess.gen = made[i] /\ backend = "docker"
        /\ Life!Gen(i, made[i]) \notin closed /\ ~Life!Over(i)
    BY <1>1, <1>2, <1>3, <2>1 DEF Life!Maker, Life!Holds, Life!Over, Life!Unmade
  <2>3. op[o].sess # Life!None
    BY <2>2, SomeSession
  <2>4. /\ store'[i] \in {store[i], op[o].sess}
        /\ box'[i] = made[i] \/ (box'[i] = 0 /\ Life!Lost(i)')
        /\ Life!Lost(i)' \/ (op'[o].pc = "publish" /\ store'[i] = op[o].sess /\ box'[i] = made[i])
    <3>1. store'[i] \in {store[i], op[o].sess} /\ box'[i] \in {box[i], IF box[i] = n THEN 0 ELSE box[i]}
      BY <1>4 DEF Life!LifeInv, Life!Shape
    <3>2. op'[o].pc = "done" => Life!Lost(i)'
      BY <1>1, <1>5, <2>2 DEF Life!Lost
    <3> QED
      BY <1>1, <1>5, <2>2, <3>1, <3>2 DEF Life!Shape
  <2>5. \A x \in Ops \ {o} : op'[x] = op[x] /\ (op[x].pc \in Life!Creating => op[x].id # i)
    BY <1>1, <1>2, <1>5, <2>1 DEF Life!Maker, Frame
  <2>6. Life!Over(i)' /\ \A x \in Ops : op'[x].pc \in {"make", "track"} => op'[x].id # i
    BY <1>5, <2>5 DEF Life!Over
  <2>7. Life!Holds(i)'
    BY <1>1, <2>1, <2>2, <2>4, <2>6 DEF Life!Holds, Life!Current, Life!Lost
  <2>8. Life!Kept(i)'
    BY <2>3, <2>4 DEF Life!Kept
  <2>9. op'[o].id = i => Life!Maker(o)' /\ Life!Ender(o)'
    BY <1>1, <1>2, <1>5, <2>1, <2>2, <2>5, MakersCreate DEF Life!Maker, Life!Ender
  <2> QED
    BY <1>1, <1>2, <1>5, <1>7, <2>2, <2>7, <2>8, <2>9, Here
<1> QED
  BY <1>6, <1>7, TouchesOne

\* CreateSession of the service: the event, the warm cache, the answer.
LEMMA CreatedKeeps ==
  ASSUME Life!LifeInv, NEW o \in Ops, Life!Created(o)
  PROVE  Life!LifeInv'
<1>1. /\ op[o].pc = "publish" /\ Life!Busy(o) /\ Life!Shape
      /\ UNCHANGED <<backend, mem, store, box, made, overlapped, closed, adrift>>
  BY Facts DEF Life!Created, Life!At, Life!managed, Life!counted
<1>2. PICK i \in Ids : op[o].id = i
  BY <1>1, Facts
<1>3. PICK n : n = op[o].gen
  OBVIOUS
<1>4. answered' = answered \cup {Life!Gen(i, n)} /\ cache' = [cache EXCEPT ![i] = n]
  BY <1>2, <1>3 DEF Life!Created, Life!Made, Life!Id, Life!prewarmSession
<1>5. Frame(o) /\ op'[o].pc = "done" /\ op'[o].gen = 0
  BY <1>1, AnswerStep DEF Life!Created
<1>6. n \in 0 .. made[i]
  <2>1. op[o].gen \in Nat /\ made[i] \in Nat /\ op[o].gen <= made[i]
    BY <1>1, <1>2 DEF Life!Shape, Life!Request, Life!Entry
  <2> QED
    BY <1>3, <2>1
<1>7. Apart(i)
  <2>1. /\ DOMAIN mem = Ids /\ DOMAIN store = Ids /\ DOMAIN box = Ids /\ DOMAIN cache = Ids
        /\ DOMAIN made = Ids /\ \A k \in Ids : made[k] \in Nat
    BY DEF Life!LifeInv, Life!Shape, Life!Entry
  <2>2. \A g \in answered' \cup closed' :
          g \in answered \cup closed \/ (g[1] = i /\ g[2] \in 0 .. made'[g[1]])
    BY <1>1, <1>4, <1>6 DEF Life!Gen
  <2> QED
    BY <1>1, <1>4, <2>1, <2>2 DEF Apart
<1>8. Touches(o, i)
  BY <1>1, <1>2, <1>5 DEF Touches, Life!Request, Frame, IsOf
<1>9. ASSUME Life!Orderly(i) PROVE Life!Orderly(i)'
  <2>1. Life!Maker(o) /\ Life!Ender(o) /\ Life!Holds(i) /\ Life!Kept(i)
    BY <1>2, <1>9, AtHand
  <2>2. Life!Gen(i, made[i]) \notin closed
    BY <1>1, <1>2, <2>1 DEF Life!Holds, Life!Unmade
  <2>3. (Life!Over(i) => Life!Over(i)') /\ \A x \in Ops : op'[x].pc \in Life!Creating => op'[x] = op[x]
    BY <1>5, OverStays DEF Frame
  <2>4. Life!Holds(i)'
    BY <1>1, <2>1, <2>2, <2>3 DEF Life!Holds, Life!Current, Life!Lost
  <2>5. Life!Kept(i)'
    BY <1>1, <1>5, <2>1 DEF Life!Kept, Life!Named, Life!Lost, Frame
  <2>6. Life!Maker(o)' /\ Life!Ender(o)'
    BY <1>5 DEF Life!Maker, Life!Ender
  <2>7. Life!NoRecord(i) => Life!NoRecord(i)'
    BY <1>1 DEF Life!NoRecord, Life!Lost
  <2> QED
    BY <1>1, <1>5, <1>9, <2>4, <2>5, <2>6, <2>7, Here
<1> QED
  BY <1>7, <1>8, <1>9, TouchesOne

\* A record that goes: its session has an entry, or is lost by name.
LEMMA RecordGoes ==
  ASSUME Life!LifeInv, NEW i \in Ids, store' = [store EXCEPT ![i] = Life!None],
         adrift' = adrift \cup Life!Unnamed(i), mem' = mem, made' = made, Life!Holds(i)
  PROVE  /\ store'[i] = Life!None /\ (Life!Lost(i) => Life!Lost(i)') /\ Life!NoRecord(i)'
         /\ store[i] # Life!None => mem[i] # Life!None \/ Life!Lost(i)'
<1>1. DOMAIN store = Ids
  BY DEF Life!LifeInv, Life!Shape
<1>2. store'[i] = Life!None /\ (Life!Lost(i) => Life!Lost(i)')
  BY <1>1 DEF Life!Lost
<1>3. ASSUME store[i] # Life!None, mem[i] = Life!None PROVE Life!Lost(i)'
  BY <1>3 DEF Life!Lost, Life!Unnamed, Life!Holds, Life!Current
<1> QED
  BY <1>2, <1>3 DEF Life!NoRecord

\* What is so of an id, when its record goes and at most a reader moves.
LEMMA GoneHere ==
  ASSUME Life!LifeInv, NEW i \in Ids, Life!Orderly(i), store' = [store EXCEPT ![i] = Life!None],
         adrift' = adrift \cup Life!Unnamed(i),
         UNCHANGED <<backend, mem, box, cache, made, closed>>,
         \A x \in Ops : op'[x].pc \in Life!Creating => op'[x] = op[x],
         \A x \in Ops : Life!Named(x) => op'[x] = op[x]
  PROVE  Life!Holds(i)' /\ Life!Kept(i)' /\ Life!NoRecord(i)' /\ (Life!Lost(i) => Life!Lost(i)')
<1>1. Life!Holds(i) /\ Life!Kept(i)
  BY DEF Life!Orderly
<1>2. /\ store'[i] = Life!None /\ (Life!Lost(i) => Life!Lost(i)') /\ Life!NoRecord(i)'
      /\ store[i] # Life!None => mem[i] # Life!None \/ Life!Lost(i)'
  BY <1>1, RecordGoes
<1>3. Life!Unmade(i) => Life!Unmade(i)'
  BY DEF Life!Unmade
<1>4. Life!Holds(i)'
  BY <1>1, <1>2, <1>3 DEF Life!Holds, Life!Current
<1>5. Life!Kept(i)'
  BY <1>1, <1>2 DEF Life!Kept, Life!Named
<1> QED
  BY <1>2, <1>4, <1>5

\* The stores delete a record that has expired.
LEMMA DropKeeps ==
  ASSUME Life!LifeInv, NEW o \in Ops, Life!StoreDrop(o)
  PROVE  Life!LifeInv'
<1>1. /\ op[o].pc = "drop" /\ Life!Busy(o) /\ Life!Shape /\ ~Life!Named(o)
      /\ UNCHANGED <<backend, mem, box, cache, made, overlapped, answered, closed>>
  BY Facts DEF Life!StoreDrop, Life!At, Life!told, Life!counted, Life!Named
<1>2. PICK i \in Ids : op[o].id = i
  BY <1>1, Facts
<1>3. store' = [store EXCEPT ![i] = Life!None] /\ adrift' = adrift \cup Life!Unnamed(i)
  BY <1>2 DEF Life!StoreDrop, Life!Id
<1>4. /\ Frame(o) /\ op'[o].pc = op[o].then /\ op'[o].kind = op[o].kind /\ op'[o].id = i
      /\ op'[o].gen = op[o].gen /\ op'[o].victim = Life!None /\ ~op'[o].inner
      /\ op'[o].then = op[o].then
  BY <1>1, <1>2, GotStep DEF Life!StoreDrop
<1>5. Touches(o, i) /\ Apart(i)
  <2>1. Life!Request(o)' /\ IsOf(o, i)'
    BY <1>1, <1>2, <1>4, Facts DEF Life!Request, Frame, IsOf
  <2>2. adrift \subseteq adrift'
    BY <1>3
  <2> QED
    BY <1>1, <1>2, <1>3, <1>4, <2>1, <2>2, AtOne DEF Touches
<1>6. ASSUME Life!Orderly(i) PROVE Life!Orderly(i)'
  <2>1. Life!Ender(o)
    BY <1>2, <1>6, AtHand
  <2>2. op[o].then \in {"auth", "list", "close"} /\ (op[o].then = "close" => op[o].kind = "close")
    BY <1>1, <2>1 DEF Life!Ender
  <2>3. op'[o].pc \notin Life!Creating
    BY <1>4, <2>2
  <2>4. op[o].kind = "close" => made[i] # 0 /\ Life!Unmade(i)' /\ Life!Over(i)'
    <3>1. op[o].kind = "close" => made[i] # 0 /\ Life!Unmade(i)
      BY <1>1, <1>2, <2>1 DEF Life!Ender
    <3>2. Life!Unmade(i)' => Life!Over(i)'
      BY DEF Life!Unmade, Life!Over
    <3> QED
      BY <1>4, <2>3, <3>1, <3>2, UnmadeStays
  <2>5. Life!Ender(o)' /\ Life!Maker(o)'
    BY <1>1, <1>4, <2>2, <2>3, <2>4 DEF Life!Ender, Life!Maker
  <2>6. Life!Holds(i)' /\ Life!Kept(i)' /\ Life!NoRecord(i)'
    <3>1. \A x \in Ops : op'[x].pc \in Life!Creating => op'[x] = op[x]
      BY <1>4, <2>3 DEF Frame
    <3>2. \A x \in Ops : Life!Named(x) => op'[x] = op[x]
      BY <1>1, <1>4 DEF Frame
    <3> QED
      BY <1>1, <1>3, <1>6, <3>1, <3>2, GoneHere
  <2> QED
    BY <1>1, <1>4, <1>6, <2>3, <2>5, <2>6, Here
<1> QED
  BY <1>5, <1>6, TouchesOne

\* Valkey lets a record go at its expiry.
LEMMA ExpiresKeeps ==
  ASSUME Life!LifeInv, NEW i \in Ids, Life!StoreExpires(i)
  PROVE  Life!LifeInv'
<1>1. /\ UNCHANGED <<backend, mem, box, cache, op, made, overlapped, answered, closed>>
      /\ store' = [store EXCEPT ![i] = Life!None] /\ adrift' = adrift \cup Life!Unnamed(i)
  BY DEF Life!StoreExpires, Life!told, Life!counted
<1>2. Apart(i)
  <2>1. adrift \subseteq adrift'
    BY <1>1
  <2> QED
    BY <1>1, <2>1, AtOne
<1>3. Life!Shape'
  BY <1>1, <1>2 DEF Life!LifeInv, Life!Shape, Life!Request, Life!Entry, Apart
<1>4. ASSUME Life!Orderly(i) PROVE Life!Orderly(i)'
  <2>1. Life!Holds(i)' /\ Life!Kept(i)' /\ Life!NoRecord(i)'
    BY <1>1, <1>4, GoneHere
  <2>2. ASSUME NEW x \in Ops, op'[x].id = i PROVE Life!Maker(x)' /\ Life!Ender(x)'
    <3>1. op[x].id = i /\ Life!Maker(x) /\ Life!Ender(x)
      BY <1>1, <1>4, <2>2 DEF Life!Orderly
    <3>2. Life!Maker(x)'
      BY <1>1, <3>1 DEF Life!Maker
    <3>3. Life!Ender(x)'
      BY <1>1, <2>1, <3>1 DEF Life!Ender, Life!Over, Life!Unmade, Life!Current
    <3> QED
      BY <3>2, <3>3
  <2> QED
    BY <2>1, <2>2 DEF Life!Orderly
<1>5. ASSUME NEW k \in Life!Sole' PROVE Life!Orderly(k)'
  <2>1. k \in Ids /\ Life!Orderly(k) /\ \A x \in Ops : op'[x] = op[x]
    BY <1>1 DEF Life!Sole, Life!LifeInv
  <2> QED
    BY <1>2, <1>4, <2>1, Elsewhere
<1> QED
  BY <1>3, <1>5 DEF Life!LifeInv

\* CloseSession of the managers, when the map has no entry: the request moves on.
LEMMA NoEntry ==
  ASSUME Life!LifeInv, NEW o \in Ops, op[o].pc = "close", LeftAlone, mem[op[o].id] = Life!None,
         Frame(o), op'[o].kind = op[o].kind, op'[o].id = op[o].id, op'[o].gen = op[o].gen,
         op'[o].then = op[o].then, op'[o].inner = op[o].inner, op'[o].victim = op[o].victim,
         op'[o].pc \in {"closed", "lookup"},
         op'[o].pc = "closed" => backend = "local" /\ ~op[o].inner
  PROVE  Life!LifeInv'
<1>1. Life!Request(o)' /\ Life!Busy(o) /\ ~Life!Named(o)
  BY Facts DEF Life!Request, Frame, LeftAlone, Life!Named
<1>2. PICK i \in Ids : op[o].id = i /\ op'[o].id = i /\ IsOf(o, i) /\ IsOf(o, i)'
  BY <1>1, Follows
<1>3. ASSUME Life!Orderly(i) PROVE Life!Ender(o)'
  <2>1. Life!Ender(o) /\ Life!Holds(i)
    BY <1>2, <1>3, AtHand
  <2>2. (Life!Over(i) => Life!Over(i)') /\ (Life!Unmade(i) => Life!Unmade(i)')
    BY OverStays, UnmadeStays
  <2>3. op'[o].pc = "closed" => Life!NoRecord(i)'
    BY <2>1 DEF Life!Holds, Life!NoRecord, LeftAlone
  <2>4. mem'[i] = Life!None /\ made' = made
    BY <1>2 DEF LeftAlone
  <2> QED
    BY <1>2, <2>1, <2>2, <2>3, <2>4 DEF Life!Ender, Life!Current
<1> QED
  BY <1>1, <1>2, <1>3, RequestMoves

\* CloseSession of the managers: the entry of the map is taken.
LEMMA TakeKeeps ==
  ASSUME Life!LifeInv, NEW o \in Ops, Life!TakeEntry(o)
  PROVE  Life!LifeInv'
<1>1. /\ op[o].pc = "close" /\ Life!Busy(o) /\ Life!Shape
      /\ UNCHANGED <<backend, store, box, cache, made, overlapped, answered, closed, adrift>>
  BY Facts DEF Life!TakeEntry, Life!At, Life!told, Life!counted
<1>2. PICK i \in Ids : op[o].id = i
  BY <1>1, Facts
<1>3. PICK s : s = mem[i]
  OBVIOUS
<1>4. mem' = [mem EXCEPT ![i] = Life!None] /\ DOMAIN mem = Ids
  BY <1>1, <1>2 DEF Life!TakeEntry, Life!Taken, Life!Id, Life!Shape
<1>5. \/ /\ s # Life!None
         /\ op' = [op EXCEPT ![o].pc = IF backend = "local" THEN "remove" ELSE "unsave",
                             ![o].victim = s]
      \/ s = Life!None /\ backend = "local" /\ Life!Ended(o, TRUE)
      \/ s = Life!None /\ backend = "docker" /\ Life!Goto(o, "lookup")
  BY <1>2, <1>3 DEF Life!TakeEntry, Life!Id
<1>6. s = Life!None => LeftAlone
  BY <1>1, <1>3, <1>4 DEF LeftAlone
<1>7. CASE s = Life!None /\ backend = "docker" /\ Life!Goto(o, "lookup")
  <2>1. /\ Frame(o) /\ op'[o].pc = "lookup"
        /\ op'[o].kind = op[o].kind /\ op'[o].id = op[o].id /\ op'[o].gen = op[o].gen
        /\ op'[o].victim = op[o].victim
        /\ op'[o].inner = op[o].inner /\ op'[o].then = op[o].then
    BY <1>1, <1>7, GotoStep
  <2> QED
    BY <1>1, <1>2, <1>3, <1>6, <1>7, <2>1, NoEntry
<1>8. CASE s = Life!None /\ backend = "local" /\ Life!Ended(o, TRUE)
  <2>1. CASE op[o].inner
    BY <1>1, <1>6, <1>8, <2>1, GotKeeps DEF Life!Ended
  <2>2. CASE ~op[o].inner
    <3>1. Life!Goto(o, "closed")
      BY <1>8, <2>2 DEF Life!Ended
    <3>2. /\ Frame(o) /\ op'[o].pc = "closed"
          /\ op'[o].kind = op[o].kind /\ op'[o].id = op[o].id /\ op'[o].gen = op[o].gen
          /\ op'[o].victim = op[o].victim
          /\ op'[o].inner = op[o].inner /\ op'[o].then = op[o].then
      BY <1>1, <3>1, GotoStep
    <3> QED
      BY <1>1, <1>2, <1>3, <1>6, <1>8, <2>2, <3>2, NoEntry
  <2> QED
    BY <2>1, <2>2
<1>9. CASE /\ s # Life!None
           /\ op' = [op EXCEPT ![o].pc = IF backend = "local" THEN "remove" ELSE "unsave",
                               ![o].victim = s]
  <2>1. PICK c : c = IF backend = "local" THEN "remove" ELSE "unsave"
    OBVIOUS
  <2>2. op' = [op EXCEPT ![o].pc = c, ![o].victim = s]
    BY <1>9, <2>1
  <2>3. /\ Frame(o) /\ op'[o].pc = c /\ op'[o].victim = s
        /\ op'[o].kind = op[o].kind /\ op'[o].id = op[o].id /\ op'[o].gen = op[o].gen
        /\ op'[o].inner = op[o].inner /\ op'[o].then = op[o].then
    <3>1. DOMAIN op = Ops /\ DOMAIN op[o] = DOMAIN Life!Idle
      BY <1>1 DEF Life!Shape, Life!Request
    <3>2. op'[o] = [op[o] EXCEPT !.pc = c, !.victim = s]
      BY <2>2, <3>1
    <3>3. DOMAIN op' = Ops /\ \A x \in Ops \ {o} : op'[x] = op[x]
      BY <2>2, <3>1
    <3> QED
      BY <3>1, <3>2, <3>3, RequestFields, Zenon DEF Frame
  <2>4. Touches(o, i) /\ Apart(i)
    <3>1. Life!Request(o)' /\ IsOf(o, i)'
      BY <1>1, <1>2, <2>1, <2>3, Facts DEF Life!Request, Frame, IsOf
    <3> QED
      BY <1>1, <1>2, <1>4, <2>3, <3>1, AtOne DEF Touches
  <2>5. ASSUME Life!Orderly(i) PROVE Life!Orderly(i)'
    <3>1. Life!Ender(o) /\ Life!Holds(i)
      BY <1>2, <2>5, AtHand
    <3>2. /\ c \in {"remove", "unsave"} /\ (c = "remove" => Life!NoRecord(i)')
          /\ s.gen = made[i] /\ made[i] # 0 /\ Life!Over(i)
      <4>1. c = "remove" => backend = "local"
        BY <2>1
      <4>2. backend = "local" => store[i] = Life!None
        BY <3>1 DEF Life!Holds
      <4>3. c \in {"remove", "unsave"} /\ (c = "remove" => Life!NoRecord(i)')
        BY <1>1, <2>1, <4>1, <4>2 DEF Life!NoRecord
      <4>4. s.gen = made[i] /\ made[i] # 0 /\ Life!Over(i)
        BY <1>1, <1>2, <1>3, <1>9, <3>1 DEF Life!Holds, Life!Current, Life!Ender
      <4> QED
        BY <4>3, <4>4
    <3>3. /\ mem'[i] = Life!None /\ op'[o].pc \notin Life!Creating
          /\ Life!Over(i)' /\ (Life!Unmade(i) => Life!Unmade(i)')
      BY <1>4, <2>3, <3>2, OverStays, UnmadeStays
    <3>4. (Life!Lost(i) <=> Life!Lost(i)') /\ (Life!NoRecord(i) => Life!NoRecord(i)')
      BY <1>1 DEF Life!Lost, Life!NoRecord
    <3>5. Life!Holds(i)'
      BY <1>1, <3>1, <3>3, <3>4 DEF Life!Holds, Life!Current
    <3>6. Life!Kept(i)'
      BY <1>2, <1>9, <2>3, <3>2 DEF Life!Kept, Life!Named
    <3>7. Life!Ender(o)' /\ Life!Maker(o)'
      BY <1>1, <1>2, <1>9, <2>3, <3>1, <3>2, <3>3 DEF Life!Ender, Life!Maker, Life!Current
    <3> QED
      BY <1>1, <2>3, <2>5, <3>2, <3>3, <3>4, <3>5, <3>6, <3>7, Here
  <2> QED
    BY <2>4, <2>5, TouchesOne
<1> QED
  BY <1>5, <1>7, <1>8, <1>9

\* CloseSession of the Docker manager: the container by the record, when the map has none.
LEMMA LookupKeeps ==
  ASSUME Life!LifeInv, NEW o \in Ops, Life!Lookup(o)
  PROVE  Life!LifeInv'
<1>1. /\ op[o].pc = "lookup" /\ Life!Busy(o) /\ ~Life!Named(o) /\ Life!Shape
      /\ UNCHANGED <<backend, mem, store, box, cache, made, overlapped, answered, closed>>
  BY Facts DEF Life!Lookup, Life!At, Life!told, Life!counted, Life!Named, Life!managed
<1>2. PICK i \in Ids : op[o].id = i
  BY <1>1, Facts
<1>3. PICK s : s = store[i]
  OBVIOUS
<1>4. \/ s # Life!None /\ op' = [op EXCEPT ![o].pc = "unsave", ![o].victim = s] /\ adrift' = adrift
      \/ /\ Life!Goto(o, "unsave")
         /\ adrift' = IF s # Life!None THEN adrift \cup {Life!Gen(i, s.gen)} ELSE adrift
  BY <1>2, <1>3 DEF Life!Lookup, Life!Id
<1>5. LeftAlone
  BY <1>1, <1>4 DEF LeftAlone, Life!Shape
<1>6. /\ Frame(o) /\ op'[o].pc = "unsave" /\ op'[o].kind = op[o].kind /\ op'[o].id = op[o].id
      /\ op'[o].gen = op[o].gen /\ op'[o].inner = op[o].inner /\ op'[o].then = op[o].then
      /\ \/ op'[o].victim = s /\ s # Life!None
         \/ op'[o].victim = op[o].victim /\ (s = Life!None \/ Life!Gen(i, s.gen) \in adrift')
  <2>1. CASE s # Life!None /\ op' = [op EXCEPT ![o].pc = "unsave", ![o].victim = s]
    <3>1. DOMAIN op = Ops /\ DOMAIN op[o] = DOMAIN Life!Idle
      BY <1>1 DEF Life!Shape, Life!Request
    <3>2. op'[o] = [op[o] EXCEPT !.pc = "unsave", !.victim = s]
      BY <2>1, <3>1
    <3>3. DOMAIN op' = Ops /\ \A x \in Ops \ {o} : op'[x] = op[x]
      BY <2>1, <3>1
    <3>4. /\ op'[o].pc = "unsave" /\ op'[o].kind = op[o].kind /\ op'[o].id = op[o].id
          /\ op'[o].gen = op[o].gen /\ op'[o].inner = op[o].inner /\ op'[o].then = op[o].then
          /\ op'[o].victim = s /\ DOMAIN op'[o] = DOMAIN Life!Idle
      BY <3>1, <3>2, RequestFields, Zenon
    <3> QED
      BY <2>1, <3>3, <3>4 DEF Frame
  <2>2. CASE /\ Life!Goto(o, "unsave")
             /\ adrift' = IF s # Life!None THEN adrift \cup {Life!Gen(i, s.gen)} ELSE adrift
    BY <1>1, <2>2, GotoStep
  <2> QED
    BY <1>4, <2>1, <2>2
<1>7. Life!Request(o)' /\ IsOf(o, i) /\ IsOf(o, i)'
  BY <1>1, <1>2, <1>6, Facts DEF Life!Request, Frame, IsOf
<1>8. ASSUME Life!Orderly(i) PROVE Life!Ender(o)'
  <2>1. Life!Ender(o) /\ Life!Holds(i)
    BY <1>2, <1>8, AtHand
  <2>2. made[i] # 0 /\ Life!Over(i)' /\ (Life!Unmade(i) => Life!Unmade(i)')
    BY <1>1, <1>2, <1>6, <2>1, OverStays, UnmadeStays DEF Life!Ender
  <2>3. Life!Current(s, i) /\ Life!Current(op[o].victim, i)
    BY <1>1, <1>2, <1>3, <2>1 DEF Life!Holds, Life!Ender
  <2>4. op'[o].victim # Life!None \/ Life!NoRecord(i)'
    BY <1>1, <1>3, <1>6, <2>3 DEF Life!NoRecord, Life!Lost, Life!Current
  <2> QED
    BY <1>1, <1>2, <1>6, <2>1, <2>2, <2>3, <2>4 DEF Life!Ender, Life!Current
<1> QED
  BY <1>1, <1>5, <1>6, <1>7, <1>8, RequestMoves

\* CloseSession of the managers: the directory or the container is removed, or is lost.
LEMMA RemoveKeeps ==
  ASSUME Life!LifeInv, NEW o \in Ops, Life!Remove(o)
  PROVE  Life!LifeInv'
<1>1. /\ op[o].pc = "remove" /\ Life!Busy(o) /\ Life!Shape
      /\ UNCHANGED <<backend, mem, store, cache, made, overlapped, answered, closed>>
  BY Facts DEF Life!Remove, Life!At, Life!told, Life!counted
<1>2. PICK i \in Ids : op[o].id = i
  BY <1>1, Facts
<1>3. /\ \/ box' = [box EXCEPT ![i] = 0] /\ adrift' = adrift
         \/ box' = box /\ adrift' = adrift \cup {Life!Gen(i, op[o].victim.gen)}
      /\ Life!Ended(o, TRUE) \/ Life!Ended(o, FALSE)
  BY <1>2 DEF Life!Remove, Life!Id
<1>4. /\ Frame(o) /\ op'[o].gen \in Nat
      /\ \/ op'[o].pc = "done"
         \/ /\ op'[o].kind = op[o].kind /\ op'[o].id = i /\ op'[o].gen = op[o].gen
            /\ op'[o].then = op[o].then
            /\ \/ op'[o].pc = "closed" /\ ~op[o].inner /\ op'[o].victim = op[o].victim
               \/ op'[o].pc = op[o].then /\ ~op'[o].inner /\ op'[o].victim = Life!None
  <2>1. Life!Got(o, Life!None) \/ (Life!Goto(o, "closed") /\ ~op[o].inner) \/ Life!Answer(o, "internal")
    BY <1>3 DEF Life!Ended
  <2>2. op[o].gen \in Nat
    BY <1>1 DEF Life!Shape, Life!Request
  <2>3. CASE Life!Got(o, Life!None)
    BY <1>1, <1>2, <2>2, <2>3, GotStep
  <2>4. CASE Life!Goto(o, "closed") /\ ~op[o].inner
    BY <1>1, <1>2, <2>2, <2>4, GotoStep
  <2>5. CASE Life!Answer(o, "internal")
    BY <1>1, <2>5, AnswerStep
  <2> QED
    BY <2>1, <2>3, <2>4, <2>5
<1>5. Touches(o, i) /\ Apart(i)
  <2>1. Life!Request(o)' /\ IsOf(o, i)'
    BY <1>1, <1>2, <1>4, Facts DEF Life!Request, Frame, IsOf
  <2>2. adrift \subseteq adrift' /\ (box' = box \/ \E v : box' = [box EXCEPT ![i] = v])
    BY <1>3
  <2> QED
    BY <1>1, <1>2, <1>4, <2>1, <2>2, AtOne DEF Touches
<1>6. ASSUME Life!Orderly(i) PROVE Life!Orderly(i)'
  <2>1. Life!Ender(o) /\ Life!Holds(i)
    BY <1>2, <1>6, AtHand
  <2>2. /\ op[o].victim.gen = made[i] /\ mem[i] = Life!None /\ Life!NoRecord(i) /\ made[i] # 0
        /\ Life!Over(i) /\ Life!Current(op[o].victim, i)
        /\ op[o].then \in {"auth", "list", "close"} /\ (op[o].then = "close" => op[o].kind = "close")
        /\ ~op[o].inner => op[o].kind = "close"
        /\ op[o].kind = "close" => Life!Unmade(i)
    BY <1>1, <1>2, <2>1 DEF Life!Ender, Life!Current
  <2>3. /\ box'[i] = 0 \/ (box'[i] = box[i] /\ Life!Lost(i)')
        /\ Life!Lost(i) => Life!Lost(i)'
    BY <1>1, <1>3, <2>2 DEF Life!Shape, Life!Lost
  <2>4. op'[o].pc \notin Life!Creating
    BY <1>4, <2>2
  <2>5. Life!Over(i)' /\ (Life!Unmade(i) => Life!Unmade(i)') /\ Life!NoRecord(i)'
    BY <1>1, <1>4, <2>2, <2>3, <2>4, OverStays, UnmadeStays DEF Life!NoRecord
  <2>6. Life!Ender(o)' /\ Life!Maker(o)'
    <3>1. CASE op'[o].pc = "done"
      BY <3>1 DEF Life!Ender, Life!Maker
    <3>2. CASE op'[o].pc # "done"
      BY <1>1, <1>4, <2>2, <2>4, <2>5, <3>2 DEF Life!Ender, Life!Maker, Life!Current
    <3> QED
      BY <3>1, <3>2
  <2>7. Life!Holds(i)'
    <3>1. \A x \in Ops : op'[x].pc \in Life!Creating => op'[x] = op[x]
      BY <1>4, <2>4 DEF Frame
    <3>2. store[i] # Life!None => Life!Lost(i)'
      BY <2>2, <2>3 DEF Life!NoRecord
    <3> QED
      BY <1>1, <2>1, <2>2, <2>3, <2>5, <3>1, <3>2 DEF Life!Holds, Life!Current
  <2>8. Life!Kept(i)'
    BY <2>3 DEF Life!Kept
  <2> QED
    BY <1>1, <1>4, <1>6, <2>2, <2>4, <2>5, <2>6, <2>7, <2>8, Here
<1> QED
  BY <1>5, <1>6, TouchesOne

\* CloseSession of the service: the event, the cache, the answer.
LEMMA ClosedKeeps ==
  ASSUME Life!LifeInv, NEW o \in Ops, Life!Closed(o)
  PROVE  Life!LifeInv'
<1>1. /\ op[o].pc = "closed" /\ Life!Busy(o) /\ Life!Shape /\ ~Life!Named(o)
      /\ UNCHANGED <<backend, mem, store, box, made, overlapped, answered, adrift>>
  BY Facts DEF Life!Closed, Life!At, Life!managed, Life!counted, Life!Named
<1>2. PICK i \in Ids : op[o].id = i
  BY <1>1, Facts
<1>3. PICK n : n = op[o].gen
  OBVIOUS
<1>4. closed' = closed \cup {Life!Gen(i, n)} /\ cache' = [cache EXCEPT ![i] = 0]
  BY <1>2, <1>3 DEF Life!Closed, Life!Made, Life!Id, Life!evict
<1>5. Frame(o) /\ op'[o].pc = "done" /\ op'[o].gen = 0
  BY <1>1, AnswerStep DEF Life!Closed
<1>6. n \in 0 .. made[i]
  <2>1. op[o].gen \in Nat /\ made[i] \in Nat /\ op[o].gen <= made[i]
    BY <1>1, <1>2 DEF Life!Shape, Life!Request, Life!Entry
  <2> QED
    BY <1>3, <2>1
<1>7. Apart(i)
  <2>1. /\ DOMAIN mem = Ids /\ DOMAIN store = Ids /\ DOMAIN box = Ids /\ DOMAIN cache = Ids
        /\ DOMAIN made = Ids /\ \A k \in Ids : made[k] \in Nat
    BY DEF Life!LifeInv, Life!Shape, Life!Entry
  <2>2. /\ \A g \in answered' \cup closed' :
             g \in answered \cup closed \/ (g[1] = i /\ g[2] \in 0 .. made'[g[1]])
        /\ \A g \in closed' : g \in closed \/ g[1] = i
    BY <1>1, <1>4, <1>6 DEF Life!Gen
  <2> QED
    BY <1>1, <1>4, <2>1, <2>2 DEF Apart
<1>8. Touches(o, i)
  BY <1>1, <1>2, <1>5 DEF Touches, Life!Request, Frame, IsOf
<1>9. ASSUME Life!Orderly(i) PROVE Life!Orderly(i)'
  <2>1. Life!Ender(o) /\ Life!Holds(i) /\ Life!Kept(i)
    BY <1>2, <1>9, AtHand
  <2>2. mem[i] = Life!None /\ Life!NoRecord(i) /\ Life!Unmade(i) /\ made[i] # 0
    BY <1>1, <1>2, <2>1 DEF Life!Ender
  <2>3. /\ (Life!Over(i) => Life!Over(i)') /\ Life!Unmade(i)' /\ Life!NoRecord(i)'
        /\ \A x \in Ops : op'[x].pc \in Life!Creating => op'[x] = op[x]
    BY <1>1, <1>5, <2>2, OverStays, UnmadeStays DEF Frame, Life!NoRecord, Life!Lost
  <2>4. cache'[i] = 0
    BY <1>1, <1>4 DEF Life!Shape
  <2>5. Life!Holds(i)'
    BY <1>1, <2>1, <2>2, <2>3, <2>4 DEF Life!Holds, Life!Current, Life!Lost
  <2>6. Life!Kept(i)'
    BY <1>1, <1>5, <2>1 DEF Life!Kept, Life!Named, Life!Lost, Frame
  <2>7. Life!Maker(o)' /\ Life!Ender(o)'
    BY <1>5 DEF Life!Maker, Life!Ender
  <2> QED
    BY <1>1, <1>5, <1>9, <2>3, <2>5, <2>6, <2>7, Here
<1> QED
  BY <1>7, <1>8, <1>9, TouchesOne

\* The process dies and another begins: what no record names is lost.
LEMMA RestartKeeps ==
  ASSUME Life!LifeInv, Life!Restart
  PROVE  Life!LifeInv'
<1>1. /\ UNCHANGED <<backend, store, box, made, overlapped, answered, closed>>
      /\ mem' = [i \in Ids |-> Life!None] /\ cache' = [i \in Ids |-> 0]
      /\ op' = [o \in Ops |-> IF op[o].pc \in {"idle", "done"} THEN op[o]
                              ELSE [Life!Idle EXCEPT !.pc = "done", !.code = "died"]]
      /\ adrift' = adrift \cup {Life!Gen(i, box[i]) : i \in {j \in Ids : box[j] # store[j].gen}}
  BY DEF Life!Restart, Life!counted
<1>2. DOMAIN op' = Ops /\ \A o \in Ops : /\ op'[o].pc \in {"idle", "done"} /\ Life!Request(o)'
  <2> SUFFICES ASSUME NEW o \in Ops PROVE op'[o].pc \in {"idle", "done"} /\ Life!Request(o)'
    BY <1>1
  <2>1. CASE op[o].pc \in {"idle", "done"}
    BY <1>1, <2>1, Facts DEF Life!Request
  <2>2. CASE op[o].pc \notin {"idle", "done"}
    <3>1. op'[o] = [Life!Idle EXCEPT !.pc = "done", !.code = "died"]
      BY <1>1, <2>2
    <3>2. op'[o].pc = "done" /\ op'[o].gen = 0 /\ DOMAIN op'[o] = DOMAIN Life!Idle
      BY <3>1, RequestFields, Zenon
    <3> QED
      BY <3>2 DEF Life!Request
  <2> QED
    BY <2>1, <2>2
<1>3. Life!Shape'
  BY <1>1, <1>2 DEF Life!LifeInv, Life!Shape, Life!Entry
<1>4. ASSUME NEW i \in Life!Sole' PROVE Life!Orderly(i)'
  <2>1. i \in Ids /\ Life!Holds(i) /\ Life!Kept(i)
    BY <1>1 DEF Life!Sole, Life!LifeInv, Life!Orderly
  <2>2. Life!Lost(i) => Life!Lost(i)'
    BY <1>1 DEF Life!Lost
  <2>3. ASSUME box[i] # 0, store[i] = Life!None PROVE Life!Lost(i)'
    <3>1. store[i].gen = 0
      BY <2>3, RequestFields, Zenon
    <3>2. Life!Gen(i, box[i]) \in adrift'
      BY <1>1, <2>1, <2>3, <3>1
    <3> QED
      BY <1>1, <2>1, <2>3, <3>2 DEF Life!Lost, Life!Holds
  <2>4. Life!Holds(i)'
    BY <1>1, <1>2, <2>1, <2>2 DEF Life!Holds, Life!Over, Life!Unmade, Life!NoRecord, Life!Current
  <2>5. Life!Kept(i)'
    BY <1>1, <2>3 DEF Life!Kept
  <2>6. \A o \in Ops : Life!Maker(o)' /\ Life!Ender(o)'
    BY <1>2 DEF Life!Maker, Life!Ender
  <2> QED
    BY <2>4, <2>5, <2>6 DEF Life!Orderly
<1> QED
  BY <1>3, <1>4 DEF Life!LifeInv

\* What the invariant is about stays as it is.
LEMMA StutterKeeps ==
  ASSUME Life!LifeInv,
         UNCHANGED <<backend, mem, store, box, cache, op, made, overlapped, answered, closed, adrift>>
  PROVE  Life!LifeInv'
<1>1. Life!Shape'
  BY DEF Life!LifeInv, Life!Shape, Life!Request, Life!Entry
<1>2. ASSUME NEW i \in Life!Sole' PROVE Life!Orderly(i)'
  <2>1. Life!Orderly(i)
    BY DEF Life!Sole, Life!LifeInv
  <2>2. Life!Holds(i)'
    BY <2>1 DEF Life!Orderly, Life!Holds, Life!Over, Life!Unmade, Life!NoRecord, Life!Lost, Life!Current
  <2>3. Life!Kept(i)'
    BY <2>1 DEF Life!Orderly, Life!Kept, Life!Named, Life!Lost
  <2>4. ASSUME NEW o \in Ops, op'[o].id = i PROVE Life!Maker(o)' /\ Life!Ender(o)'
    <3>1. Life!Maker(o) /\ Life!Ender(o)
      BY <2>1, <2>4 DEF Life!Orderly
    <3>2. Life!Maker(o)'
      BY <3>1 DEF Life!Maker
    <3>3. Life!Ender(o)'
      BY <3>1 DEF Life!Ender, Life!Over, Life!Unmade, Life!NoRecord, Life!Lost, Life!Current
    <3> QED
      BY <3>2, <3>3
  <2> QED
    BY <2>2, <2>3, <2>4 DEF Life!Orderly
<1> QED
  BY <1>1, <1>2 DEF Life!LifeInv

\* Nothing is made at first.
LEMMA LifeInvInit == Life!Init => Life!LifeInv
<1> SUFFICES ASSUME Life!Init PROVE Life!LifeInv
  OBVIOUS
<1>1. /\ mem = [i \in Ids |-> Life!None] /\ store = [i \in Ids |-> Life!None]
      /\ box = [i \in Ids |-> 0] /\ cache = [i \in Ids |-> 0] /\ op = [o \in Ops |-> Life!Idle]
      /\ made = [i \in Ids |-> 0] /\ answered = {} /\ closed = {} /\ adrift = {}
  BY DEF Life!Init
<1>2. \A o \in Ops : op[o].pc = "idle" /\ op[o].gen = 0 /\ DOMAIN op[o] = DOMAIN Life!Idle
  BY <1>1, RequestFields, Zenon
<1>3. Life!Shape
  BY <1>1, <1>2 DEF Life!Shape, Life!Request, Life!Entry
<1>4. \A o \in Ops : Life!Maker(o) /\ Life!Ender(o)
  BY <1>2 DEF Life!Maker, Life!Ender
<1>5. \A i \in Ids : Life!Holds(i) /\ Life!Kept(i)
  BY <1>1 DEF Life!Holds, Life!Kept, Life!Current
<1> QED
  BY <1>3, <1>4, <1>5 DEF Life!LifeInv, Life!Orderly, Life!Sole

\* Every step keeps the invariant.
LEMMA LifeInvNext == Life!LifeInv /\ [Life!Next]_(Life!vars) => Life!LifeInv'
<1> SUFFICES ASSUME Life!LifeInv, [Life!Next]_(Life!vars) PROVE Life!LifeInv'
  OBVIOUS
<1>1. ASSUME NEW o \in Ops, Life!CreateStep(o) PROVE Life!LifeInv'
  BY <1>1, MakeKeeps, TrackKeeps, SaveKeeps, CreatedKeeps, Zenon DEF Life!CreateStep
<1>2. ASSUME NEW o \in Ops, Life!GetStep(o) \/ Life!Unauthenticated(o) PROVE Life!LifeInv'
  BY <1>2, GetKeeps, DropKeeps, Zenon DEF Life!GetStep
<1>3. ASSUME NEW o \in Ops, Life!CloseStep(o) PROVE Life!LifeInv'
  BY <1>3, TakeKeeps, LookupKeeps, UnsaveKeeps, RemoveKeeps, ClosedKeeps, Zenon DEF Life!CloseStep
<1>4. ASSUME NEW o \in Ops, NEW i \in Ids, NEW p \in Principals,
             Life!BeginRead(o, i, p) \/ Life!BeginClose(o, i, p)
               \/ \E t \in TTLs : Life!BeginCreate(o, i, p, t)
      PROVE  Life!LifeInv'
  BY <1>4, ReadKeeps, CloseKeeps, CreateKeeps
<1>5. ASSUME NEW i \in Ids, Life!StoreExpires(i) PROVE Life!LifeInv'
  BY <1>5, ExpiresKeeps
<1>6. ASSUME NEW i \in Ids, NEW n, Life!Prewarm(i, n) PROVE Life!LifeInv'
  <2>1. UNCHANGED <<backend, mem, store, box, cache, op, made, overlapped, answered, closed, adrift>>
    BY <1>6, Zenon DEF Life!Prewarm, Life!managed, Life!counted, Life!Warmed
  <2> QED
    BY <2>1, StutterKeeps
<1>7. CASE Life!Tick \/ UNCHANGED Life!vars
  <2>1. UNCHANGED <<backend, mem, store, box, cache, op, made, overlapped, answered, closed, adrift>>
    BY <1>7, Zenon DEF Life!Tick, Life!vars, Life!managed, Life!told, Life!counted
  <2> QED
    BY <2>1, StutterKeeps
<1>8. CASE Life!Restart
  BY <1>8, RestartKeeps
<1> QED
  BY <1>1, <1>2, <1>3, <1>4, <1>5, <1>6, <1>7, <1>8, Zenon DEF Life!Next

\* A step of the whole is a step of the life of its sessions, or none.
LEMMA StepsOfLife == [MCNext]_<<vars, lifeVars, buildVars>> => [Life!Next]_(Life!vars)
BY Zenon DEF MCNext, lifeVars, Life!vars

\* GetSession of the local and the Docker manager (local_manager.go, docker_manager.go): a session
\* that is answered for has its directory or its container, for any number of requests, sessions,
\* creations of an id and restarts, where the sessions of the id do not overlap and no call to the
\* store or the engine has failed for it.
THEOREM LiveSessionsHaveWorkspaces == MCSpec => []LiveHasWorkspace
<1>1. Life!LifeInv => LiveHasWorkspace
  <2> SUFFICES ASSUME Life!LifeInv, NEW i \in Life!Sole, Life!Answerable(i) # Life!None,
                      Life!Gen(i, Life!Answerable(i).gen) \notin adrift
               PROVE  box[i] = Life!Answerable(i).gen
    BY Zenon DEF LiveHasWorkspace, Life!LiveHasWorkspace
  <2>1. Life!Holds(i)
    BY DEF Life!LifeInv, Life!Orderly
  <2>2. Life!Answerable(i).gen = made[i]
    BY <2>1 DEF Life!Holds, Life!Current, Life!Answerable
  <2>3. ~Life!Lost(i)
    BY <2>2 DEF Life!Lost
  <2> QED
    BY <2>1, <2>2, <2>3 DEF Life!Holds, Life!Answerable
<1>2. Life!LifeInv /\ [MCNext]_<<vars, lifeVars, buildVars>> => Life!LifeInv'
  BY LifeInvNext, StepsOfLife
<1>3. MCInit => Life!LifeInv
  BY LifeInvInit DEF MCInit
<1> QED
  BY <1>1, <1>2, <1>3, PTL DEF MCSpec

\* CloseSession (service.go, local_manager.go, docker_manager.go): once it has answered ok for the
\* last session of an id and no request is under way, the record, the warm cache and the workspace
\* of the session are gone, for any number of requests, sessions, creations of an id and restarts;
\* unless a failure, an expiry or a restart has made them nameless, or sessions of the id overlap.
THEOREM ClosedSessionsAreGone == MCSpec => []ClosedIsGone
<1>1. Life!LifeInv => ClosedIsGone
  <2> SUFFICES ASSUME Life!LifeInv, Life!Quiet, NEW i \in Life!Sole, Life!Gen(i, made[i]) \in closed
               PROVE  /\ cache[i] # made[i]
                      /\ Life!Gen(i, made[i]) \notin adrift =>
                           Life!Answerable(i).gen # made[i] /\ box[i] # made[i]
    BY DEF ClosedIsGone, Life!ClosedIsGone
  <2>1. Life!Holds(i) /\ Life!Kept(i)
    BY DEF Life!LifeInv, Life!Orderly
  <2>2. made[i] # 0 /\ mem[i] = Life!None /\ Life!NoRecord(i) /\ cache[i] = 0
    BY <2>1 DEF Life!Holds
  <2>3. ASSUME ~Life!Lost(i) PROVE Life!Answerable(i).gen = 0 /\ box[i] = 0
    <3>1. store[i] = Life!None
      BY <2>2, <2>3 DEF Life!NoRecord
    <3>2. \A o \in Ops : ~Life!Named(o)
      BY DEF Life!Quiet, Life!Named
    <3>3. box[i] = 0
      BY <2>1, <2>2, <2>3, <3>1, <3>2 DEF Life!Kept
    <3> QED
      BY <2>2, <3>1, <3>3, RequestFields, Zenon DEF Life!Answerable
  <2> QED
    BY <2>2, <2>3 DEF Life!Lost
<1>2. Life!LifeInv /\ [MCNext]_<<vars, lifeVars, buildVars>> => Life!LifeInv'
  BY LifeInvNext, StepsOfLife
<1>3. MCInit => Life!LifeInv
  BY LifeInvInit DEF MCInit
<1> QED
  BY <1>1, <1>2, <1>3, PTL DEF MCSpec

--------------------------------------------------------------------------------
(* Git. *)

\* What the proofs need of a repository: which branches its remotes have.
ByBranch(f) == DOMAIN f = Remotes /\ \A o \in Remotes : DOMAIN f[o] = Branches

Repo(g) ==
  /\ {"head", "dirty", "staged", "branch", "remote", "tracking"} = DOMAIN g
  /\ ByBranch(g.remote) /\ ByBranch(g.tracking)

\* What a request leaves unnamed, and what it is told to overwrite or delete: as in RemotesKept.
LeftUnnamed(g, r, b) == r.ref = <<>> /\ (b = g.head \/ r.matching)

Told(r, b) ==
  \/ r.cleanup = b
  \/ r.plus /\ r.ref \in {<<>>, b}
  \/ r.ref = b /\ r.from = <<>>

\* What a handler may do to a branch of a remote of g.
Spares(g, h, s, r, o, b) ==
  h.remote[o][b] # g.remote[o][b] =>
    /\ Git!gitRefAllowed(s, b) \/ LeftUnnamed(g, r, b)
    /\ Git!gitRemoteAllowed(s, o) \/ r.cleanup = b
    /\ MaxCommits + 1 \in g.remote[o][b] \ h.remote[o][b] =>
         Told(r, b) \/ MaxCommits + 1 \in g.tracking[o][b]

Respects(g, h, s, r) == Repo(h) /\ \A o \in Remotes, b \in Branches : Spares(g, h, s, r, o, b)

\* A command that leaves the remotes alone.
LEMMA RemotesAlone ==
  ASSUME NEW g, NEW h, NEW s, NEW r, Repo(g), DOMAIN h = DOMAIN g, h.remote = g.remote,
         ByBranch(h.tracking)
  PROVE  Respects(g, h, s, r)
BY DEF Repo, Respects, Spares

\* A call that leaves the repository as it is.
LEMMA NothingRespects ==
  ASSUME NEW g, NEW s, NEW r, Repo(g)
  PROVE  Respects(g, g, s, r)
BY DEF Repo, Respects, Spares

\* A git command that fails or is denied.
LEMMA ExecuteRespects ==
  ASSUME NEW g, NEW s, NEW r, Repo(g), NEW a, a \in Git!executeGit(g) \/ a \in Git!Denied(g)
  PROVE  Respects(g, a[2], s, r)
<1>1. a[2] = g
  BY DEF Git!executeGit, Git!Denied
<1> QED
  BY <1>1, NothingRespects

\* A command that may fail has its effect or none.
LEMMA EffectIs ==
  ASSUME NEW h, NEW possible, NEW g2, NEW a \in Git!Effect(h, possible, g2)
  PROVE  a[2] = h \/ (possible /\ a[2] = g2)
BY DEF Git!Effect

\* Such a command does no harm if its effect does none.
LEMMA EffectRespects ==
  ASSUME NEW g, NEW s, NEW r, NEW h, NEW g2, NEW possible,
         Respects(g, h, s, r), possible => Respects(g, g2, s, r),
         NEW a \in Git!Effect(h, possible, g2)
  PROVE  Respects(g, a[2], s, r)
<1>1. a[2] = h \/ (possible /\ a[2] = g2)
  BY EffectIs
<1> QED
  BY <1>1

\* The tools that only read the repository.
LEMMA Readers ==
  ASSUME NEW g, NEW s, NEW r, Repo(g), NEW a,
         \/ a \in Git!GitStatus(g, s, r) \/ a \in Git!GitBranchList(g, s, r)
         \/ a \in Git!GitDiff(g, s, r) \/ a \in Git!GitLog(g, s, r)
         \/ a \in Git!GitDiffFile(g, s, r) \/ a \in Git!GitShow(g, s, r)
         \/ a \in Git!GitBlame(g, s, r)
  PROVE  Respects(g, a[2], s, r)
<1>1. a \in Git!executeGit(g) \/ a \in Git!Denied(g)
  BY DEF Git!GitStatus, Git!GitBranchList, Git!GitDiff, Git!GitLog, Git!GitDiffFile,
         Git!GitShow, Git!GitBlame
<1> QED
  BY <1>1, ExecuteRespects

\* git.apply_patch.
LEMMA ApplyPatch ==
  ASSUME NEW g, NEW s, NEW r, Repo(g), NEW a \in Git!GitApplyPatch(g, s, r)
  PROVE  Respects(g, a[2], s, r)
<1>1. \/ a = <<"invalid_argument", g>> \/ a \in Git!Denied(g)
      \/ a \in Git!Effect(g, TRUE, g)
      \/ a \in Git!Effect(g, TRUE, [g EXCEPT !.dirty = TRUE])
  BY DEF Git!GitApplyPatch
<1>2. a[2] = g \/ a[2] = [g EXCEPT !.dirty = TRUE]
  <2>1. CASE a = <<"invalid_argument", g>> \/ a \in Git!Denied(g)
    BY <2>1 DEF Git!Denied
  <2>2. CASE a \in Git!Effect(g, TRUE, g) \/ a \in Git!Effect(g, TRUE, [g EXCEPT !.dirty = TRUE])
    BY <2>2, EffectIs
  <2> QED
    BY <1>1, <2>1, <2>2
<1>3. Respects(g, [g EXCEPT !.dirty = TRUE], s, r)
  <2>1. PICK h : h = [g EXCEPT !.dirty = TRUE]
    OBVIOUS
  <2>2. DOMAIN h = DOMAIN g /\ h.remote = g.remote /\ ByBranch(h.tracking)
    BY <2>1 DEF Repo
  <2> QED
    BY <2>1, <2>2, RemotesAlone
<1> QED
  BY <1>2, <1>3, NothingRespects

\* git.checkout.
LEMMA Checkout ==
  ASSUME NEW g, NEW s, NEW r, Repo(g), NEW a \in Git!GitCheckout(g, s, r)
  PROVE  Respects(g, a[2], s, r)
<1>1. PICK clean : clean = [g EXCEPT !.head = r.ref, !.dirty = @ /\ ~r.force, !.staged = @ /\ ~r.force]
  OBVIOUS
<1>2. PICK from : from = IF r.start = <<>> THEN g.head ELSE r.start
  OBVIOUS
<1>3. PICK created : created = [clean EXCEPT !.branch[r.ref] = g.branch[from]]
  OBVIOUS
<1>4. PICK there \in BOOLEAN : there = (g.branch[r.ref] # Git!NoBranch)
  OBVIOUS
<1>5. PICK able \in BOOLEAN : able = (~there /\ g.branch[from] # Git!NoBranch)
  OBVIOUS
<1>6. \/ a \in Git!Denied(g) \/ a \in Git!Effect(g, able, created) \/ a \in Git!Effect(g, there, clean)
  BY <1>1, <1>2, <1>3, <1>4, <1>5 DEF Git!GitCheckout
<1>7. a[2] = g \/ a[2] = created \/ a[2] = clean
  <2>1. CASE a \in Git!Denied(g)
    BY <2>1 DEF Git!Denied
  <2>2. CASE a \in Git!Effect(g, able, created) \/ a \in Git!Effect(g, there, clean)
    BY <2>2, EffectIs
  <2> QED
    BY <1>6, <2>1, <2>2
<1>8. DOMAIN clean = DOMAIN g /\ clean.remote = g.remote /\ clean.tracking = g.tracking
  BY <1>1 DEF Repo
<1>9. DOMAIN created = DOMAIN g /\ created.remote = g.remote /\ created.tracking = g.tracking
  BY <1>3, <1>8 DEF Repo
<1> QED
  BY <1>7, <1>8, <1>9, RemotesAlone, NothingRespects DEF Repo

\* git.commit.
LEMMA CommitIs ==
  ASSUME NEW g, NEW s, NEW r, Repo(g), NEW a \in Git!GitCommit(g, s, r)
  PROVE  Respects(g, a[2], s, r)
<1>1. PICK added : added = IF r.all THEN [g EXCEPT !.staged = @ \/ g.dirty, !.dirty = FALSE] ELSE g
  OBVIOUS
<1>2. PICK next : next = Git!Cardinality(UNION {g.branch[b] : b \in Branches} \ Git!NoBranch) + 1
  OBVIOUS
<1>3. PICK commit : commit = [added EXCEPT !.staged = FALSE, !.branch[g.head] = @ \cup {next}]
  OBVIOUS
<1>5. \/ a = <<"invalid_argument", g>> \/ a \in {<<code, g>> : code \in Git!GitErrors}
      \/ a \in Git!Denied(added) \/ a \in Git!Effect(added, added.staged /\ next \in Git!Commits, commit)
  <2>1. a \in IF ~r.message THEN {<<"invalid_argument", g>>}
             ELSE (IF r.all THEN {<<code, g>> : code \in Git!GitErrors} ELSE {})
                    \cup (IF ~r.pathsOk THEN Git!Denied(added)
                          ELSE Git!Effect(added, added.staged /\ next \in Git!Commits, commit))
    BY <1>1, <1>2, <1>3, Zenon DEF Git!GitCommit
  <2> QED
    BY <2>1
<1>6. a[2] = g \/ a[2] = added \/ a[2] = commit
  <2>1. CASE a = <<"invalid_argument", g>> \/ a \in {<<code, g>> : code \in Git!GitErrors}
    BY <2>1
  <2>2. CASE a \in Git!Denied(added)
    BY <2>2 DEF Git!Denied
  <2>3. CASE a \in Git!Effect(added, added.staged /\ next \in Git!Commits, commit)
    BY <2>3 DEF Git!Effect
  <2> QED
    BY <1>5, <2>1, <2>2, <2>3
<1>7. DOMAIN added = DOMAIN g /\ added.remote = g.remote /\ added.tracking = g.tracking
  BY <1>1 DEF Repo
<1>8. DOMAIN commit = DOMAIN g /\ commit.remote = g.remote /\ commit.tracking = g.tracking
  BY <1>3, <1>7 DEF Repo
<1> QED
  BY <1>6, <1>7, <1>8, RemotesAlone, NothingRespects DEF Repo

\* A command for a remote is denied or run.
LEMMA RemotelyIs ==
  ASSUME NEW g, NEW s, NEW r, NEW answers, NEW a \in Git!Remotely(g, s, r, answers)
  PROVE  \/ a[2] = g
         \/ /\ a \in answers /\ Git!gitRemoteAllowed(s, r.remote)
            /\ Git!gitRefAllowed(s, r.ref)
BY DEF Git!Remotely, Git!Denied, Git!gitRefspecAllowed

\* git.fetch and git.pull change only what the workspace has.
LEMMA FetchPull ==
  ASSUME NEW g, NEW s, NEW r, Repo(g), NEW a,
         a \in Git!GitFetch(g, s, r) \/ a \in Git!GitPull(g, s, r)
  PROVE  Respects(g, a[2], s, r)
<1>1. PICK fetched : fetched = Git!Fetched(g, r)
  OBVIOUS
<1>2. PICK theirs : theirs = g.remote[r.remote][IF r.ref = <<>> THEN g.head ELSE r.ref]
  OBVIOUS
<1>3. PICK pulled : pulled = [fetched EXCEPT !.branch[g.head] = @ \cup theirs]
  OBVIOUS
<1>4. PICK able : able = (theirs # Git!NoBranch /\ ~g.dirty)
  OBVIOUS
<1>5. \/ a \in Git!Remotely(g, s, r, Git!Effect(g, TRUE, fetched))
      \/ a \in Git!Remotely(g, s, r, Git!Effect(g, able, pulled))
  BY <1>1, <1>2, <1>3, <1>4, Zenon DEF Git!GitFetch, Git!GitPull
<1>6. a[2] = g \/ a[2] = fetched \/ a[2] = pulled
  <2>1. CASE a \in Git!Remotely(g, s, r, Git!Effect(g, TRUE, fetched))
    BY <2>1, RemotelyIs DEF Git!Effect
  <2>2. CASE a \in Git!Remotely(g, s, r, Git!Effect(g, able, pulled))
    BY <2>2, RemotelyIs DEF Git!Effect
  <2> QED
    BY <1>5, <2>1, <2>2
<1>7. DOMAIN fetched = DOMAIN g /\ fetched.remote = g.remote /\ ByBranch(fetched.tracking)
  <2>1. PICK known : known = [b \in Branches |->
            IF r.ref \in {<<>>, b} /\ (r.prune \/ g.remote[r.remote][b] # Git!NoBranch)
            THEN g.remote[r.remote][b] ELSE g.tracking[r.remote][b]]
    OBVIOUS
  <2>2. fetched = [g EXCEPT !.tracking = [g.tracking EXCEPT ![r.remote] = known]]
    BY <1>1, <2>1 DEF Git!Fetched
  <2>3. fetched.tracking = [g.tracking EXCEPT ![r.remote] = known]
        /\ DOMAIN fetched = DOMAIN g /\ fetched.remote = g.remote
    BY <2>2 DEF Repo
  <2>4. DOMAIN known = Branches
    BY <2>1
  <2> QED
    BY <2>3, <2>4 DEF Repo, ByBranch
<1>8. DOMAIN pulled = DOMAIN g /\ pulled.remote = g.remote /\ ByBranch(pulled.tracking)
  BY <1>3, <1>7 DEF Repo
<1> QED
  BY <1>6, <1>7, <1>8, RemotesAlone, NothingRespects

\* What git.push deletes first.
LEMMA CleanedIs ==
  ASSUME NEW g, NEW r, Repo(g), NEW h, h = g \/ h = Git!Cleaned(g, r)
  PROVE  /\ Repo(h) /\ h.branch = g.branch /\ h.head = g.head
         /\ \A o \in Remotes, b \in Branches :
              \/ h.remote[o][b] = g.remote[o][b] /\ h.tracking[o][b] = g.tracking[o][b]
              \/ b = r.cleanup
<1>1. PICK gone : gone = [g EXCEPT !.remote[r.remote][r.cleanup] = Git!NoBranch,
                                   !.tracking[r.remote][r.cleanup] = Git!NoBranch]
  OBVIOUS
<1>2. h = g \/ h = gone
  BY <1>1 DEF Git!Cleaned
<1>3. DOMAIN gone = DOMAIN g /\ gone.branch = g.branch /\ gone.head = g.head
  BY <1>1 DEF Repo
<1>4. /\ gone.remote = [g.remote EXCEPT ![r.remote][r.cleanup] = Git!NoBranch]
      /\ gone.tracking = [g.tracking EXCEPT ![r.remote][r.cleanup] = Git!NoBranch]
  BY <1>1 DEF Repo
<1>5. ByBranch(gone.remote) /\ ByBranch(gone.tracking)
  BY <1>4 DEF Repo, ByBranch
<1>6. \A o \in Remotes, b \in Branches :
        b # r.cleanup => gone.remote[o][b] = g.remote[o][b] /\ gone.tracking[o][b] = g.tracking[o][b]
  BY <1>4 DEF Repo, ByBranch
<1> QED
  BY <1>2, <1>3, <1>5, <1>6 DEF Repo

\* What git.push sends.
LEMMA PushedIs ==
  ASSUME NEW h, NEW r, Repo(h)
  PROVE  /\ Repo(Git!Pushed(h, r))
         /\ \A o \in Remotes, b \in Branches :
              LET new == Git!Pushed(h, r).remote[o][b]
              IN  \/ new = h.remote[o][b]
                  \/ /\ o = r.remote /\ b \in Git!Sends(h, r) /\ Git!Accepts(h, r, b)
                     /\ new = Git!Source(h, r, b)
<1>1. PICK sent : sent = Git!Moved(h, r, h.remote[r.remote])
  OBVIOUS
<1>2. PICK known : known = Git!Moved(h, r, h.tracking[r.remote])
  OBVIOUS
<1>3. PICK g2 : g2 = Git!Pushed(h, r)
  OBVIOUS
<1>4. g2 = [h EXCEPT !.remote = [h.remote EXCEPT ![r.remote] = sent],
                     !.tracking = [h.tracking EXCEPT ![r.remote] = known]]
  BY <1>1, <1>2, <1>3 DEF Git!Pushed
<1>5. /\ g2.remote = [h.remote EXCEPT ![r.remote] = sent]
      /\ g2.tracking = [h.tracking EXCEPT ![r.remote] = known] /\ DOMAIN g2 = DOMAIN h
  BY <1>4 DEF Repo
<1>6. DOMAIN sent = Branches /\ DOMAIN known = Branches
  BY <1>1, <1>2 DEF Git!Moved
<1>7. Repo(g2)
  BY <1>5, <1>6 DEF Repo, ByBranch
<1>8. \A b \in Branches : \/ sent[b] = h.remote[r.remote][b]
                          \/ /\ b \in Git!Sends(h, r) /\ Git!Accepts(h, r, b)
                             /\ sent[b] = Git!Source(h, r, b)
  BY <1>1 DEF Git!Moved
<1>9. \A o \in Remotes : g2.remote[o] = h.remote[o] \/ (o = r.remote /\ g2.remote[o] = sent)
  BY <1>5 DEF Repo, ByBranch
<1> QED
  BY <1>3, <1>7, <1>8, <1>9

\* git.push: what it deletes first, then what it pushes.
LEMMA PushIs ==
  ASSUME NEW g, NEW s, NEW r, Repo(g), NEW a \in Git!GitPush(g, s, r)
  PROVE  Respects(g, a[2], s, r)
<1>3. CASE ~Git!gitRefspecAllowed(s, {r.cleanup})
  <2>1. a \in Git!Denied(g)
    BY <1>3, Zenon DEF Git!GitPush
  <2> QED
    BY <2>1, ExecuteRespects
<1>4. CASE Git!gitRefspecAllowed(s, {r.cleanup})
  <2>1. PICK h \in {g, Git!Cleaned(g, r)} : a \in Git!Remotely(h, s, r, Git!PushEffect(h, r))
    BY <1>4 DEF Git!GitPush
  <2>2. /\ Repo(h) /\ h.branch = g.branch /\ h.head = g.head
        /\ \A o \in Remotes, b \in Branches :
             \/ h.remote[o][b] = g.remote[o][b] /\ h.tracking[o][b] = g.tracking[o][b]
             \/ b = r.cleanup
    BY <2>1, CleanedIs
  <2>3. Git!gitRefAllowed(s, r.cleanup)
    BY <1>4 DEF Git!gitRefspecAllowed
  <2>4. \A o \in Remotes : Spares(g, h, s, r, o, r.cleanup)
    BY <2>3 DEF Spares, Told
  <2>5. Respects(g, h, s, r)
    BY <2>2, <2>4 DEF Respects, Spares
  <2>6. PICK g2 : g2 = Git!Pushed(h, r)
    OBVIOUS
  <2>7. \/ a[2] = h
        \/ a[2] = g2 /\ Git!gitRemoteAllowed(s, r.remote) /\ Git!gitRefAllowed(s, r.ref)
    <3>1. \A x \in Git!PushEffect(h, r) : x[2] = h \/ x[2] = g2
      BY <2>6 DEF Git!PushEffect, Git!Effect
    <3> QED
      BY <2>1, <3>1, RemotelyIs
  <2>8. Repo(g2) /\ \A o \in Remotes, b \in Branches :
          \/ g2.remote[o][b] = h.remote[o][b]
          \/ /\ o = r.remote /\ b \in Git!Sends(h, r) /\ Git!Accepts(h, r, b)
             /\ g2.remote[o][b] = Git!Source(h, r, b)
    BY <2>2, <2>6, PushedIs
  <2>9. ASSUME Git!gitRemoteAllowed(s, r.remote), Git!gitRefAllowed(s, r.ref)
        PROVE  Respects(g, g2, s, r)
    <3> SUFFICES ASSUME NEW o \in Remotes, NEW b \in Branches, g2.remote[o][b] # g.remote[o][b]
                 PROVE  Spares(g, g2, s, r, o, b)
      BY <2>8 DEF Respects, Spares
    <3>1. CASE b = r.cleanup
      BY <2>3, <3>1 DEF Spares, Told
    <3>2. CASE b # r.cleanup
      <4>1. h.remote[o][b] = g.remote[o][b] /\ h.tracking[o][b] = g.tracking[o][b]
        BY <2>2, <3>2
      <4>2. /\ o = r.remote /\ b \in Git!Sends(h, r) /\ Git!Accepts(h, r, b)
            /\ g2.remote[o][b] = Git!Source(h, r, b)
        BY <2>8, <4>1
      <4>3. IF r.ref # <<>> THEN b = r.ref ELSE r.matching \/ b = g.head
        BY <2>2, <4>2 DEF Git!Sends
      <4>4. Git!gitRefAllowed(s, b) \/ LeftUnnamed(g, r, b)
        BY <2>9, <4>3 DEF LeftUnnamed
      <4>5. ASSUME MaxCommits + 1 \in g.remote[o][b] \ g2.remote[o][b], ~Told(r, b)
            PROVE  MaxCommits + 1 \in g.tracking[o][b]
        <5>1. ~r.plus /\ ~Git!Deletes(r)
          BY <4>3, <4>5 DEF Told, Git!Deletes
        <5>2. MaxCommits + 1 \notin Git!NoBranch
          BY MaxCommitsNat DEF Git!NoBranch
        <5>3. ~(h.remote[o][b] \subseteq Git!Source(h, r, b) \cup Git!NoBranch)
          BY <4>1, <4>2, <4>5, <5>2
        <5>4. h.tracking[o][b] = h.remote[o][b]
          BY <4>2, <5>1, <5>3 DEF Git!Accepts
        <5> QED
          BY <4>1, <4>5, <5>4
      <4> QED
        BY <2>9, <4>2, <4>4, <4>5 DEF Spares
    <3> QED
      BY <3>1, <3>2
  <2> QED
    BY <2>5, <2>7, <2>9
<1> QED
  BY <1>3, <1>4

\* Whatever git tool it is.
LEMMA GitHandled ==
  ASSUME Repo(git), NEW tool \in GitReaders \cup GitWriters, NEW r, NEW a \in GitHandler(tool, r)
  PROVE  Respects(git, a[2], session, r)
<1>1. CASE tool \in GitReaders
  <2>1. \/ a \in Git!GitStatus(git, session, r) \/ a \in Git!GitBranchList(git, session, r)
        \/ a \in Git!GitDiff(git, session, r) \/ a \in Git!GitLog(git, session, r)
        \/ a \in Git!GitDiffFile(git, session, r) \/ a \in Git!GitShow(git, session, r)
        \/ a \in Git!GitBlame(git, session, r)
    BY <1>1 DEF GitHandler, GitReaders
  <2> QED
    BY <2>1, Readers
<1>2. CASE tool \in GitWriters
  <2>1. \/ a \in Git!GitApplyPatch(git, session, r) \/ a \in Git!GitCheckout(git, session, r)
        \/ a \in Git!GitCommit(git, session, r) \/ a \in Git!GitPush(git, session, r)
        \/ a \in Git!GitFetch(git, session, r) \/ a \in Git!GitPull(git, session, r)
    BY <1>2 DEF GitHandler, GitWriters
  <2> QED
    BY <2>1, ApplyPatch, Checkout, CommitIs, PushIs, FetchPull
<1> QED
  BY <1>1, <1>2

\* What a step can be to the repository.
LEMMA GitMoves ==
  ASSUME [MCNext]_<<vars, lifeVars, buildVars>>
  PROVE  \/ git' = git
         \/ \E o \in Remotes, b \in Branches : OthersPush(o, b)
         \/ \E tool \in GitReaders \cup GitWriters : \E r \in GitRequests(tool) : CallGit(tool, r)
<1>1. CASE UNCHANGED vars
  BY <1>1 DEF vars, callVars
<1>2. CASE Kept!Next /\ UNCHANGED callVars
  BY <1>2 DEF callVars
<1>3. CASE ClusterNext
  BY <1>3 DEF ClusterNext, CallCluster, Refused
<1>4. CASE RedisNext
  BY <1>4, Zenon DEF RedisNext, CallData, Refused, KeySet, KeyExpires
<1>5. CASE MessageNext
  BY <1>5, Zenon DEF MessageNext, CallData, Refused
<1>6. CASE GitNext
  BY <1>6, Zenon DEF GitNext, Refused
<1>7. \/ UNCHANGED vars \/ (Kept!Next /\ UNCHANGED callVars) \/ ClusterNext \/ RedisNext
      \/ MessageNext \/ GitNext
  BY DEF MCNext, Next, vars
<1> QED
  BY <1>1, <1>2, <1>3, <1>4, <1>5, <1>6, <1>7

\* A step of any kind, and the repository.
Spared(o, b) ==
  calls' # calls => (git'.remote[o][b] # git.remote[o][b] =>
    /\ Git!gitRefAllowed(session, b) \/ Unnamed(b)
    /\ Git!gitRemoteAllowed(session, o) \/ last'.cleaned = b
    /\ MaxCommits + 1 \in git.remote[o][b] \ git'.remote[o][b] =>
         ToldTo(b) \/ MaxCommits + 1 \in git.tracking[o][b])

LEMMA GitSteps ==
  ASSUME Repo(git), [MCNext]_<<vars, lifeVars, buildVars>>
  PROVE  Repo(git)' /\ \A o \in Remotes, b \in Branches : Spared(o, b)
<1>1. CASE git' = git
  BY <1>1 DEF Repo, ByBranch, Spared
<1>2. ASSUME NEW o \in Remotes, NEW b \in Branches, OthersPush(o, b)
      PROVE  Repo(git)' /\ calls' = calls
  <2>1. git' = [git EXCEPT !.remote[o][b] = @ \cup {MaxCommits + 1}] /\ calls' = calls
    BY <1>2 DEF OthersPush
  <2>2. Repo(git')
    BY <2>1 DEF Repo, ByBranch
  <2> QED
    BY <2>1, <2>2 DEF Repo, ByBranch
<1>3. ASSUME NEW tool \in GitReaders \cup GitWriters, NEW r, CallGit(tool, r)
      PROVE  /\ Respects(git, git', session, r) /\ last'.cleaned = r.cleanup
             /\ last'.refspec.from = r.from /\ last'.refspec.to = r.ref
             /\ last'.refspec.plus = r.plus /\ last'.refspec.matching = r.matching
  <2>0. PICK spec : spec = [from |-> r.from, to |-> r.ref, plus |-> r.plus, matching |-> r.matching]
    OBVIOUS
  <2>1. PICK a \in GitHandler(tool, r) :
          git' = a[2] /\ last' = [NoAnswer EXCEPT !.tool = tool, !.cleaned = r.cleanup,
                                    !.refspec = spec,
                                    !.code = IF a[1] \in Git!GitErrors THEN "failed" ELSE a[1]]
    BY <1>3, <2>0, Zenon DEF CallGit
  <2>2. last'.cleaned = r.cleanup /\ last'.refspec = spec
    <3>1. {"tool", "cleaned", "refspec", "code"} \subseteq DOMAIN NoAnswer
      BY DEF NoAnswer
    <3> QED
      BY <2>1, <3>1
  <2> QED
    BY <2>0, <2>1, <2>2, GitHandled
<1>4. CASE \E o \in Remotes, b \in Branches : OthersPush(o, b)
  BY <1>2, <1>4 DEF Spared
<1>5. CASE \E tool \in GitReaders \cup GitWriters : \E r \in GitRequests(tool) : CallGit(tool, r)
  <2>1. PICK tool \in GitReaders \cup GitWriters : \E r \in GitRequests(tool) : CallGit(tool, r)
    BY <1>5
  <2>2. PICK r \in GitRequests(tool) : CallGit(tool, r)
    BY <2>1
  <2>3. /\ Respects(git, git', session, r) /\ last'.cleaned = r.cleanup
        /\ last'.refspec.from = r.from /\ last'.refspec.to = r.ref
        /\ last'.refspec.plus = r.plus /\ last'.refspec.matching = r.matching
    BY <1>3, <2>2
  <2>4. Repo(git)'
    BY <2>3 DEF Respects, Repo, ByBranch
  <2>5. ASSUME NEW o \in Remotes, NEW b \in Branches PROVE Spared(o, b)
    <3>1. Spares(git, git', session, r, o, b)
      BY <2>3 DEF Respects
    <3>2. (LeftUnnamed(git, r, b) => Unnamed(b)) /\ (Told(r, b) => ToldTo(b))
      BY <2>3 DEF LeftUnnamed, Unnamed, Told, ToldTo
    <3> QED
      BY <2>3, <3>1, <3>2 DEF Spares, Spared
  <2> QED
    BY <2>4, <2>5
<1> QED
  BY <1>1, <1>4, <1>5, GitMoves

\* The repository at the start.
LEMMA RepoInit == MCInit => Repo(git)
BY DEF MCInit, Init, Git!GitInit, Repo, ByBranch

\* git.push (git_tools.go), whatever its refspec ("[+]from:ref", ":ref", "[+]:" or none), its lease
\* and the reference to delete first: it changes branches outside the allowed prefixes only where
\* the refspec names none, and remotes outside the allowed ones only by that deletion; and a commit
\* of others that the session has not fetched leaves a remote only when the call was told to
\* overwrite or delete its branch.
THEOREM RemotesAreKept == MCSpec => RemotesKept
<1>1. Repo(git) /\ [MCNext]_<<vars, lifeVars, buildVars>> => Repo(git)'
  BY GitSteps
<1>2. Repo(git) /\ [MCNext]_<<vars, lifeVars, buildVars>> =>
        [calls' # calls => \A o \in Remotes, b \in Branches : git'.remote[o][b] # git.remote[o][b] =>
           /\ Git!gitRefAllowed(session, b) \/ Unnamed(b)
           /\ Git!gitRemoteAllowed(session, o) \/ last'.cleaned = b
           /\ MaxCommits + 1 \in git.remote[o][b] \ git'.remote[o][b] =>
                ToldTo(b) \/ MaxCommits + 1 \in git.tracking[o][b]]_vars
  BY GitSteps DEF Spared
<1> QED
  BY <1>1, <1>2, RepoInit, PTL DEF MCSpec, RemotesKept

--------------------------------------------------------------------------------
(* Induction and recursion up to a number, for sets in place of predicates. *)

\* Induction up to a number, for a set.
LEMMA Induct ==
  ASSUME NEW n \in Nat, NEW G, 0 \in G, \A i \in 1 .. n : i - 1 \in G => i \in G
  PROVE  \A i \in 0 .. n : i \in G
<1>1. PICK R : R = OpToRel(<, Nat)
  BY Zenon
<1>2. \A a, b \in Nat : <<a, b>> \in R <=> a < b
  BY <1>1 DEF OpToRel
<1>3. IsWellFoundedOn(R, Nat)
  BY <1>1, NatLessThanWellFounded, Zenon
<1>4. PICK T : T = {i \in 0 .. n : i \notin G}
  OBVIOUS
<1> SUFFICES ASSUME T # {} PROVE FALSE
  BY <1>4
<1>0. T \subseteq Nat
  BY <1>4
<1>5. PICK m \in T : \A k \in T : ~ (<<k, m>> \in R)
  BY <1>0, <1>3, WFMin
<1>6. m \in Nat /\ m \notin G /\ m # 0 /\ m <= n
  BY <1>4, <1>5
<1>7. m - 1 \in Nat /\ m - 1 \in 0 .. n /\ m - 1 < m /\ m \in 1 .. n
  BY <1>6
<1>8. <<m - 1, m>> \in R
  BY <1>2, <1>6, <1>7
<1>9. m - 1 \in G
  BY <1>4, <1>5, <1>7, <1>8
<1> QED
  BY <1>6, <1>7, <1>9

Iterates(f, n, S, base, step) ==
  f \in [0 .. n -> S] /\ f[0] = base /\ \A i \in 1 .. n : f[i] = step[i][f[i - 1]]

\* There is a function that takes n steps from a base.
LEMMA Recursion ==
  ASSUME NEW n \in Nat, NEW S, NEW base \in S, NEW step \in [1 .. n -> [S -> S]]
  PROVE  \E f : Iterates(f, n, S, base, step)
<1> DEFINE Fits(f, m) == /\ f \in [0 .. m -> S] /\ f[0] = base
                         /\ \A i \in 1 .. m : f[i] = step[i][f[i - 1]]
           G == {m \in 0 .. n : \E f : Fits(f, m)}
<1>1. 0 \in G
  <2>1. Fits([i \in 0 .. 0 |-> base], 0)
    OBVIOUS
  <2>2. 0 \in 0 .. n
    OBVIOUS
  <2> HIDE DEF Fits
  <2> QED
    BY <2>1, <2>2
<1>2. ASSUME NEW m \in 1 .. n, m - 1 \in G PROVE m \in G
  <2>1. PICK f : Fits(f, m - 1)
    <3> HIDE DEF Fits
    <3> QED
      BY <1>2
  <2> DEFINE g == [i \in 0 .. m |-> IF i = m THEN step[m][f[m - 1]] ELSE f[i]]
  <2>2. m - 1 \in 0 .. m - 1 /\ f[m - 1] \in S
    BY <2>1
  <2>3. step[m][f[m - 1]] \in S
    BY <2>2
  <2>4. g \in [0 .. m -> S]
    BY <2>1, <2>3
  <2>5. g[0] = base
    BY <2>1
  <2>6. ASSUME NEW i \in 1 .. m PROVE g[i] = step[i][g[i - 1]]
    <3>1. i - 1 \in 0 .. m /\ i - 1 # m /\ i \in 0 .. m
      OBVIOUS
    <3>2. g[i - 1] = f[i - 1]
      BY <3>1
    <3>3. CASE i = m
      BY <3>1, <3>2, <3>3
    <3>4. CASE i # m
      <4>1. i \in 1 .. m - 1 /\ g[i] = f[i]
        BY <3>1, <3>4
      <4> QED
        BY <2>1, <3>2, <4>1
    <3> QED
      BY <3>3, <3>4
  <2> HIDE DEF g
  <2>7. Fits(g, m)
    BY <2>4, <2>5, <2>6
  <2> HIDE DEF Fits
  <2> QED
    BY <2>7
<1>3. \A m \in 0 .. n : m \in G
  <2> HIDE DEF G
  <2> QED
    BY <1>1, <1>2, Induct
<1>4. n \in G
  BY <1>3
<1> QED
  BY <1>4 DEF Iterates

--------------------------------------------------------------------------------
(* Redis. *)

\* The keys that a page of redis.scan finds are keys of the table with the prefix.
LEMMA MatchingIs ==
  ASSUME NEW w, NEW prefix, NEW a \in Nat \ {0}, NEW b \in 0 .. Len(KeyOrder)
  PROVE  Matching(w, prefix, a, b) \in Seq({k \in Keys : IsPrefix(prefix, k)})
<1>1. PICK n : n = Len(KeyOrder)
  OBVIOUS
<1>2. n \in Nat /\ DOMAIN KeyOrder = 1 .. n /\ \A i \in 1 .. n : KeyOrder[i] \in Keys
  BY <1>1, KeysTyped, LenProperties, ElementOfSeq
<1> DEFINE Hit(i) == w.kv[KeyOrder[i]] # Missing /\ IsPrefix(prefix, KeyOrder[i])
<1>4. PICK K : K = {k \in Keys : IsPrefix(prefix, k)}
  OBVIOUS
<1>5. \A i \in 1 .. n : Hit(i) => KeyOrder[i] \in K
  BY <1>2, <1>4
<1> HIDE DEF Hit
<1> DEFINE step == [i \in 1 .. n |-> [s \in Seq(K) |->
                      IF i < a THEN <<>> ELSE IF Hit(i) THEN Append(s, KeyOrder[i]) ELSE s]]
           Eq(f) == f = [i \in 0 .. n |-> IF i < a THEN <<>>
                                          ELSE IF Hit(i) THEN Append(f[i - 1], KeyOrder[i]) ELSE f[i - 1]]
<1>6. step \in [1 .. n -> [Seq(K) -> Seq(K)]]
  <2>1. ASSUME NEW i \in 1 .. n, NEW s \in Seq(K), Hit(i) PROVE Append(s, KeyOrder[i]) \in Seq(K)
    BY <1>5, <2>1, AppendProperties
  <2>2. <<>> \in Seq(K)
    BY EmptySeq
  <2>3. ASSUME NEW i \in 1 .. n, NEW s \in Seq(K)
        PROVE  (IF i < a THEN <<>> ELSE IF Hit(i) THEN Append(s, KeyOrder[i]) ELSE s) \in Seq(K)
    BY <2>1, <2>2
  <2> QED
    BY <2>3
<1>7. \E f : Eq(f)
  <2>1. <<>> \in Seq(K)
    BY EmptySeq
  <2>2. PICK f \in [0 .. n -> Seq(K)] : f[0] = <<>> /\ \A i \in 1 .. n : f[i] = step[i][f[i - 1]]
    <3>1. PICK S : S = Seq(K)
      OBVIOUS
    <3>2. PICK st : st = step
      OBVIOUS
    <3>3. st \in [1 .. n -> [S -> S]] /\ <<>> \in S
      BY <1>6, <2>1, <3>1, <3>2
    <3>4. n \in Nat
      BY <1>2
    <3>5. PICK f : Iterates(f, n, S, <<>>, st)
      BY <3>3, <3>4, Recursion
    <3> HIDE DEF step
    <3> QED
      BY <3>1, <3>2, <3>5 DEF Iterates
  <2>3. ASSUME NEW i \in 0 .. n
        PROVE  f[i] = IF i < a THEN <<>>
                      ELSE IF Hit(i) THEN Append(f[i - 1], KeyOrder[i]) ELSE f[i - 1]
    <3>1. CASE i = 0
      BY <2>2, <3>1
    <3>2. CASE i # 0
      <4>1. i \in 1 .. n /\ i - 1 \in 0 .. n
        BY <1>2, <3>2
      <4>2. f[i - 1] \in Seq(K)
        BY <4>1
      <4> QED
        BY <2>2, <4>1, <4>2
    <3> QED
      BY <3>1, <3>2
  <2>4. Eq(f)
    BY <2>2, <2>3
  <2> HIDE DEF Eq
  <2> QED
    BY <2>4
<1>8. PICK g : Eq(g) /\ Matching(w, prefix, a, b) = g[b]
  <2>1. PICK g : g = (CHOOSE f : Eq(f)) /\ Matching(w, prefix, a, b) = g[b]
    BY <1>1, Zenon DEF Matching, Hit
  <2>2. Eq(g)
    <3> HIDE DEF Eq
    <3> QED
      BY <1>7, <2>1
  <2> HIDE DEF Eq
  <2> QED
    BY <2>1, <2>2
<1>9. \A i \in 0 .. n : i \in {k \in 0 .. n : g[k] \in Seq(K)}
  <2>1. g[0] = <<>>
    BY <1>2, <1>8
  <2>2. <<>> \in Seq(K)
    BY EmptySeq
  <2>3. ASSUME NEW i \in 1 .. n, g[i - 1] \in Seq(K) PROVE g[i] \in Seq(K)
    <3>0. i \in 0 .. n
      BY <1>2
    <3>1. g[i] = IF i < a THEN <<>> ELSE IF Hit(i) THEN Append(g[i - 1], KeyOrder[i]) ELSE g[i - 1]
      BY <1>8, <3>0
    <3>2. Hit(i) => Append(g[i - 1], KeyOrder[i]) \in Seq(K)
      BY <1>5, <2>3, AppendProperties
    <3> QED
      BY <2>2, <2>3, <3>1, <3>2
  <2>4. PICK G : G = {k \in 0 .. n : g[k] \in Seq(K)}
    OBVIOUS
  <2>5. 0 \in G /\ \A i \in 1 .. n : i - 1 \in G => i \in G
    <3>1. \A i \in 1 .. n : i \in 0 .. n
      BY <1>2
    <3>2. 0 \in 0 .. n
      BY <1>2
    <3> QED
      BY <2>1, <2>2, <2>3, <2>4, <3>1, <3>2
  <2>6. \A i \in 0 .. n : i \in G
    BY <1>2, <2>5, Induct
  <2> QED
    BY <2>4, <2>6
<1> HIDE DEF Eq
<1> QED
  BY <1>1, <1>4, <1>8, <1>9

\* A set of positions that is not empty has a first one.
LEMMA Least ==
  ASSUME NEW n \in Nat, NEW G, G \subseteq 1 .. n, G # {}
  PROVE  \E m \in G : \A i \in 1 .. m - 1 : i \notin G
<1>1. PICK R : R = OpToRel(<, Nat)
  BY Zenon
<1>2. \A a, b \in Nat : <<a, b>> \in R <=> a < b
  BY <1>1 DEF OpToRel
<1>3. IsWellFoundedOn(R, Nat)
  BY <1>1, NatLessThanWellFounded, Zenon
<1>4. G \subseteq Nat
  OBVIOUS
<1>5. PICK m \in G : \A k \in G : ~ (<<k, m>> \in R)
  BY <1>3, <1>4, WFMin
<1>6. ASSUME NEW i \in 1 .. m - 1 PROVE i \notin G
  <2>1. m \in Nat /\ i \in Nat /\ i < m
    BY <1>4, <1>5
  <2>2. <<i, m>> \in R
    BY <1>2, <2>1
  <2> QED
    BY <1>5, <2>2
<1> QED
  BY <1>5, <1>6

\* Texts, and their prefixes.
LEMMA TextIs ==
  ASSUME NEW t, IsText(t), NEW S, ToSet(t) \subseteq S
  PROVE  t \in Seq(S) /\ Len(t) \in Nat
BY LenProperties DEF IsText

\* What it is to be a prefix.
LEMMA TextPrefix ==
  ASSUME NEW p, IsText(p), NEW q, IsText(q)
  PROVE  /\ Len(p) \in Nat /\ Len(q) \in Nat
         /\ IsPrefix(p, q) <=> Len(p) <= Len(q) /\ \A i \in 1 .. Len(p) : p[i] = q[i]
<1>0. PICK S : S = ToSet(p) \cup ToSet(q)
  OBVIOUS
<1>1. p \in Seq(S) /\ q \in Seq(S)
  BY <1>0, TextIs
<1>2. Len(p) \in Nat /\ Len(q) \in Nat /\ SubSeq(p, 1, Len(p)) = p
  BY <1>1, LenProperties, SubSeqFull
<1>3. ASSUME Len(p) <= Len(q)
      PROVE  /\ SubSeq(q, 1, Len(p)) \in Seq(S) /\ Len(SubSeq(q, 1, Len(p))) = Len(p)
             /\ \A i \in 1 .. Len(p) : SubSeq(q, 1, Len(p))[i] = q[i]
  <2>1. \A i \in 1 .. Len(p) : q[i] \in S
    BY <1>1, <1>2, <1>3, ElementOfSeq
  <2> QED
    BY <1>1, <1>2, <1>3, <2>1, SubSeqProperties
<1>4. ASSUME IsPrefix(p, q) PROVE Len(p) <= Len(q) /\ \A i \in 1 .. Len(p) : p[i] = q[i]
  BY <1>2, <1>3, <1>4 DEF IsPrefix
<1>5. ASSUME Len(p) <= Len(q), \A i \in 1 .. Len(p) : p[i] = q[i] PROVE IsPrefix(p, q)
  <2>1. p = SubSeq(q, 1, Len(p))
    BY <1>1, <1>2, <1>3, <1>5, SeqEqual
  <2> QED
    BY <1>2, <1>5, <2>1 DEF IsPrefix
<1> QED
  BY <1>2, <1>4, <1>5

\* A prefix of a prefix is one.
LEMMA PrefixPrefix ==
  ASSUME NEW p, IsText(p), NEW q, IsText(q), NEW t, IsText(t), IsPrefix(p, q), IsPrefix(q, t)
  PROVE  IsPrefix(p, t)
<1>1. Len(p) \in Nat /\ Len(q) \in Nat /\ Len(t) \in Nat
  BY TextPrefix
<1>2. Len(p) <= Len(q) /\ Len(q) <= Len(t)
  BY TextPrefix
<1>3. \A i \in 1 .. Len(p) : p[i] = q[i]
  BY TextPrefix
<1>4. \A i \in 1 .. Len(q) : q[i] = t[i]
  BY TextPrefix
<1>5. \A i \in 1 .. Len(p) : p[i] = t[i]
  BY <1>1, <1>2, <1>3, <1>4
<1> QED
  BY <1>1, <1>2, <1>5, TextPrefix

\* What is allowed of a prefix is allowed of what begins with it.
LEMMA PrefixAllows ==
  ASSUME NEW A, \A t \in A : IsText(t), NEW p, IsText(p), NEW k, IsText(k), IsPrefix(p, k),
         prefixAllowlistMatch(p, A)
  PROVE  prefixAllowlistMatch(k, A)
<1>1. PICK q \in A : q = Star \/ IsPrefix(q, p)
  BY DEF prefixAllowlistMatch
<1>2. q = Star \/ IsPrefix(q, k)
  BY <1>1, PrefixPrefix
<1> QED
  BY <1>2 DEF prefixAllowlistMatch

--------------------------------------------------------------------------------
(* The policy. *)

\* A tool without a rule of its own is allowed only when its arguments are.
LEMMA AllowedArguments ==
  ASSUME NEW tool, tool \notin RolloutTools \cup SaturationTools \cup {"notify.escalation_channel"},
         NEW r, Decision(tool, r) = Allow
  PROVE  LET in == [tool |-> tool, session |-> session, cap |-> Capability(tool),
                    approved |-> r.approved, args |-> Args(tool, r), amounts |-> r.amounts]
         IN  ArgumentsAllowed(in)
<1>1. PICK in : in = [tool |-> tool, session |-> session, cap |-> Capability(tool),
                      approved |-> r.approved, args |-> Args(tool, r), amounts |-> r.amounts]
  OBVIOUS
<1>2. Authorize(in) = Allow
  BY <1>1 DEF Decision
<1>3. in.tool = tool
  BY <1>1
<1>4. authorizeRuntimeRolloutCapability(in) = NoRule
  BY <1>3 DEF authorizeRuntimeRolloutCapability
<1>5. authorizeSpecialistCapability(in) = NoRule
  BY <1>3 DEF authorizeSpecialistCapability
<1>6. ArgumentsAllowed(in)
  BY <1>2, <1>4, <1>5 DEF Authorize, Allow, Denied, NoRule
<1> QED
  BY <1>1, <1>6

\* What the policy engine has looked at when it allows a call.
LEMMA FieldsAllowed ==
  ASSUME NEW tool, tool \notin RolloutTools \cup SaturationTools \cup {"notify.escalation_channel"},
         NEW r, Decision(tool, r) = Allow
  PROVE  /\ "key" \in Fields(tool) => argsAllowedByKeyPrefixPolicy(Args(tool, r).key, session.meta)
         /\ "subject" \in Fields(tool) => argsAllowedBySubjectPolicy(Args(tool, r).subject, session.meta)
         /\ "topic" \in Fields(tool) => argsAllowedByTopicPolicy(Args(tool, r).topic, session.meta)
<1>1. PICK in : in = [tool |-> tool, session |-> session, cap |-> Capability(tool),
                      approved |-> r.approved, args |-> Args(tool, r), amounts |-> r.amounts]
  OBVIOUS
<1>2. ArgumentsAllowed(in)
  BY <1>1, AllowedArguments
<1>3. in.session = session /\ in.args = Args(tool, r) /\ in.cap = Capability(tool)
  BY <1>1
<1>4. in.cap.fields = Fields(tool)
  <2>1. \A a, b, c, d, e : [scope |-> a, risk |-> b, approval |-> c, rule |-> d, fields |-> e].fields = e
    OBVIOUS
  <2>2. Capability(tool).fields = Fields(tool)
    BY <2>1, Zenon DEF Capability
  <2> QED
    BY <1>3, <2>2
<1> QED
  BY <1>2, <1>3, <1>4, Zenon DEF ArgumentsAllowed

--------------------------------------------------------------------------------
(* The handlers of the data tools. *)

\* The parts of the services.
Services(w) ==
  /\ DOMAIN w = {"kv", "expires", "heard", "sizes", "topic", "queue", "docs"}
  /\ DOMAIN w.kv = Keys /\ DOMAIN w.topic = DataNames.topics

\* An answer that shows nothing.
Blind(a) == a.items = <<>> /\ a.fetched = <<>> /\ a.keys = <<>> /\ a.truncated = FALSE

\* The fields of an answer.
LEMMA AnswerIs ==
  ASSUME NEW w, NEW items, NEW fetched, NEW truncated \in BOOLEAN
  PROVE  /\ Answer(w, items, fetched, truncated).w = w
         /\ Answer(w, items, fetched, truncated).code = "ok"
         /\ Answer(w, items, fetched, truncated).items = items
         /\ Answer(w, items, fetched, truncated).fetched = fetched
         /\ Answer(w, items, fetched, truncated).truncated = truncated
         /\ Answer(w, items, fetched, truncated).keys = <<>>
BY DEF Answer

\* The fields of an answer that has nothing to show.
LEMMA FailedIs ==
  ASSUME NEW w, NEW code
  PROVE  /\ Failed(w, code).w = w /\ Failed(w, code).code = code /\ Blind(Failed(w, code))
         /\ Done(w).w = w /\ Done(w).code = "ok" /\ Blind(Done(w))
BY DEF Failed, Done, Answer, Blind

\* The handler of each tool.
LEMMA Handlers ==
  ASSUME NEW r
  PROVE  /\ Handler("conn.list_profiles", r) = ConnListProfiles(session, r, world)
         /\ Handler("conn.describe_profile", r) = ConnDescribeProfile(session, r, world)
         /\ Handler("redis.get", r) = RedisGet(session, r, world)
         /\ Handler("redis.mget", r) = RedisMGet(session, r, world)
         /\ Handler("redis.scan", r) = RedisScan(session, r, world)
         /\ Handler("redis.ttl", r) = RedisTTL(session, r, world)
         /\ Handler("redis.exists", r) = RedisExists(session, r, world)
         /\ Handler("redis.set", r) = RedisSet(session, r, world)
         /\ Handler("redis.del", r) = RedisDel(session, r, world)
         /\ Handler("nats.request", r) = NATSRequest(session, r, world)
         /\ Handler("nats.publish", r) = NATSPublish(session, r, world)
         /\ Handler("nats.subscribe_pull", r) = NATSSubscribePull(session, r, world)
         /\ Handler("kafka.consume", r) = KafkaConsume(session, r, world)
         /\ Handler("kafka.produce", r) = KafkaProduce(session, r, world)
         /\ Handler("kafka.topic_metadata", r) = KafkaTopicMetadata(session, r, world)
         /\ Handler("rabbit.consume", r) = RabbitConsume(session, r, world)
         /\ Handler("rabbit.publish", r) = RabbitPublish(session, r, world)
         /\ Handler("rabbit.queue_info", r) = RabbitQueueInfo(session, r, world)
         /\ Handler("mongo.find", r) = MongoFind(session, r, world)
         /\ Handler("mongo.aggregate", r) = MongoAggregate(session, r, world)
BY SMT DEF Handler

\* What comes of a reading tool, and of a writing one.
LEMMA ReadingIs ==
  ASSUME NEW s, NEW r, NEW w, NEW argsOk \in BOOLEAN, NEW resolved, NEW inScope \in BOOLEAN,
         NEW answers, NEW a \in Reading(s, r, w, argsOk, resolved, inScope, answers)
  PROVE  \/ a.w = w /\ a.code # "ok" /\ Blind(a)
         \/ argsOk /\ resolved = "ok" /\ inScope /\ a \in answers
<1>1. \/ a = Failed(w, "invalid_argument") \/ (resolved # "ok" /\ a = Failed(w, resolved))
      \/ a = Failed(w, "policy_denied") \/ a = Failed(w, "execution_failed")
      \/ argsOk /\ resolved = "ok" /\ inScope /\ a \in answers
  BY DEF Reading
<1> QED
  BY <1>1, FailedIs

\* A tool that writes has its effect only if every check has passed.
LEMMA WritingIs ==
  ASSUME NEW s, NEW r, NEW w, NEW argsOk \in BOOLEAN, NEW resolved, NEW inScope \in BOOLEAN,
         NEW payloadOk \in BOOLEAN, NEW w2,
         NEW a \in Writing(s, r, w, argsOk, resolved, inScope, payloadOk, Done(w2))
  PROVE  /\ Blind(a)
         /\ \/ a.w = w /\ a.code # "ok"
            \/ argsOk /\ resolved = "ok" /\ inScope /\ payloadOk /\ a.w = w2
<1>1. \/ a = Failed(w, "invalid_argument") \/ (resolved # "ok" /\ a = Failed(w, resolved))
      \/ a = Failed(w, "policy_denied") \/ a = Failed(w, "execution_failed")
      \/ /\ argsOk /\ resolved = "ok" /\ inScope /\ payloadOk
         /\ a = Failed(Done(w2).w, "execution_failed") \/ a = Done(w2)
  BY DEF Writing
<1> QED
  BY <1>1, FailedIs

--------------------------------------------------------------------------------
(* Redis: which keys a call can be about. *)

\* The keys that a request names.
Keyed(keys) == keys \in Seq({t \in ToSet(keys) : IsText(t)})

\* The arguments of the calls to Redis.
LEMMA RedisRequestIs ==
  ASSUME NEW tool, NEW r \in RedisRequests(tool)
  PROVE  /\ r.profile \in {"dev.redis", "", "dev.nats"}
         /\ IsText(r.key) /\ IsText(r.prefix) /\ Keyed(r.keys)
         /\ r.max = 2 /\ r.maxBytes = 3 /\ r.hint \in {2, 3} /\ r.cursor \in {0, 2}
         /\ r.payload \in {1, 4}
<1>1. IsText(KeyOrder[1]) /\ IsText(KeyOrder[2]) /\ IsText(KeyOrder[3])
  <2>1. Len(KeyOrder) \in Nat /\ \A i \in 1 .. Len(KeyOrder) : KeyOrder[i] \in Keys
    BY KeysTyped, LenProperties, ElementOfSeq
  <2>2. 1 \in 1 .. Len(KeyOrder) /\ 2 \in 1 .. Len(KeyOrder) /\ 3 \in 1 .. Len(KeyOrder)
    BY <2>1, EnoughKeys
  <2> QED
    BY <2>1, <2>2, KeysTyped
<1>2. IsText(<<>>) /\ IsText(<<"dev">>) /\ IsText(<<"dev", ":">>)
  <2>1. ToSet(<<"dev">>) = {"dev"} /\ ToSet(<<"dev", ":">>) = {"dev", ":"}
    BY DEF ToSet
  <2>2. \A S : \A x, y \in S : <<x>> \in Seq(S) /\ <<x, y>> \in Seq(S)
    OBVIOUS
  <2>3. \A S : <<>> \in Seq(S)
    BY EmptySeq
  <2> QED
    BY <2>1, <2>2, <2>3 DEF IsText
<1>3. Keyed(<<>>) /\ Keyed(<<<<>>>>) /\ Keyed(<<KeyOrder[1]>>)
      /\ Keyed(<<KeyOrder[2]>>) /\ Keyed(<<KeyOrder[3]>>) /\ Keyed(<<KeyOrder[1], KeyOrder[2]>>)
  <2>1. ASSUME NEW x, NEW y, IsText(x), IsText(y) PROVE Keyed(<<x>>) /\ Keyed(<<x, y>>)
    <3>1. x \in {t \in ToSet(<<x>>) : IsText(t)} /\ x \in {t \in ToSet(<<x, y>>) : IsText(t)}
          /\ y \in {t \in ToSet(<<x, y>>) : IsText(t)}
      BY <2>1 DEF ToSet
    <3>2. \A S : \A u, v \in S : <<u>> \in Seq(S) /\ <<u, v>> \in Seq(S)
      OBVIOUS
    <3> QED
      BY <3>1, <3>2 DEF Keyed
  <2>2. Keyed(<<>>)
    BY EmptySeq DEF Keyed
  <2> QED
    BY <1>1, <1>2, <2>1, <2>2
<1>4. PICK blank : blank = Blank
  OBVIOUS
<1>5. /\ {"profile", "key", "keys", "prefix", "max", "maxBytes", "hint", "cursor", "payload",
          "approved"} \subseteq DOMAIN blank
      /\ blank.key = <<>> /\ blank.prefix = <<>> /\ blank.keys = <<>>
      /\ blank.max = 2 /\ blank.maxBytes = 3 /\ blank.hint = 2 /\ blank.cursor = 0 /\ blank.payload = 1
  BY <1>4, Zenon DEF Blank
<1>6. CASE \E k \in {<<>>, KeyOrder[1], KeyOrder[2], KeyOrder[3]} :
             r = [[blank EXCEPT !.profile = "dev.redis"] EXCEPT !.key = k, !.keys = <<k>>, !.prefix = k,
                                                                !.hint = 3]
  BY <1>1, <1>2, <1>3, <1>5, <1>6
<1>7. CASE \E b \in BOOLEAN :
             r = [[blank EXCEPT !.profile = "dev.redis"] EXCEPT
                    !.keys = <<KeyOrder[1], KeyOrder[2]>>, !.key = KeyOrder[1],
                    !.prefix = <<"dev", ":">>, !.payload = 4, !.approved = b]
  BY <1>1, <1>2, <1>3, <1>5, <1>7
<1>8. CASE \E p \in {"", "dev.nats"} :
             r = [[blank EXCEPT !.profile = p] EXCEPT !.key = KeyOrder[1], !.keys = <<KeyOrder[1]>>,
                                                      !.prefix = KeyOrder[1]]
  <2>1. PICK p \in {"", "dev.nats"} :
          r = [[blank EXCEPT !.profile = p] EXCEPT !.key = KeyOrder[1], !.keys = <<KeyOrder[1]>>,
                                                   !.prefix = KeyOrder[1]]
    BY <1>8, Zenon
  <2>2. PICK x, y : x = KeyOrder[1] /\ y = <<KeyOrder[1]>>
    BY Zenon
  <2>3. r = [[blank EXCEPT !.profile = p] EXCEPT !.key = x, !.keys = y, !.prefix = x]
    BY <2>1, <2>2, Zenon
  <2>4. r.profile = p /\ r.key = x /\ r.keys = y /\ r.prefix = x
        /\ r.max = 2 /\ r.maxBytes = 3 /\ r.hint = 2 /\ r.cursor = 0 /\ r.payload = 1
    BY <1>5, <2>3, Zenon
  <2> QED
    BY <1>1, <1>3, <2>2, <2>4, Zenon
<1>9. CASE \E k \in {0, 2} :
             r = [[blank EXCEPT !.profile = "dev.redis"] EXCEPT !.prefix = <<"dev">>, !.cursor = k]
  BY <1>1, <1>2, <1>3, <1>5, <1>9
<1>10. \/ \E k \in {<<>>, KeyOrder[1], KeyOrder[2], KeyOrder[3]} :
             r = [[blank EXCEPT !.profile = "dev.redis"] EXCEPT !.key = k, !.keys = <<k>>, !.prefix = k,
                                                                !.hint = 3]
       \/ \E b \in BOOLEAN :
             r = [[blank EXCEPT !.profile = "dev.redis"] EXCEPT
                    !.keys = <<KeyOrder[1], KeyOrder[2]>>, !.key = KeyOrder[1],
                    !.prefix = <<"dev", ":">>, !.payload = 4, !.approved = b]
       \/ \E p \in {"", "dev.nats"} :
             r = [[blank EXCEPT !.profile = p] EXCEPT !.key = KeyOrder[1], !.keys = <<KeyOrder[1]>>,
                                                      !.prefix = KeyOrder[1]]
       \/ \E k \in {0, 2} :
             r = [[blank EXCEPT !.profile = "dev.redis"] EXCEPT !.prefix = <<"dev">>, !.cursor = k]
  BY <1>4, Zenon DEF RedisRequests, Of
<1> QED
  BY <1>6, <1>7, <1>8, <1>9, <1>10, Zenon

\* The profile that a call to Redis can use.
LEMMA RedisProfile ==
  ASSUME session \in Sessions, NEW id \in {"dev.redis", "", "dev.nats"},
         resolveRedisProfile(session, id) = "ok"
  PROVE  id = "dev.redis" /\ \A t \in ProfileOf(session, id).scope : IsText(t)
<1>1. id # ""
  BY Zenon DEF resolveRedisProfile, resolveTypedProfile
<1>2. ProfileOf(session, id) # NoProfile /\ ProfileOf(session, id).kind = "redis"
  BY <1>1, Zenon DEF resolveRedisProfile, resolveTypedProfile
<1>3. PICK known : known = {p \in filterProfilesByAllowlist(session) : p.id = id}
  BY Zenon
<1>4. known # {} /\ ProfileOf(session, id) = CHOOSE p \in known : TRUE
  BY <1>2, <1>3, Zenon DEF ProfileOf
<1>5. ProfileOf(session, id) \in known
  BY <1>4, Zenon
<1>6. ProfileOf(session, id) \in resolveConnectionProfiles(session) /\ ProfileOf(session, id).id = id
  BY <1>3, <1>5, Zenon DEF filterProfilesByAllowlist
<1>7. (\A t \in ProfileOf(session, id).scope : IsText(t))
      /\ (ProfileOf(session, id).id = "dev.nats" => ProfileOf(session, id).kind = "nats")
  BY <1>6, SessionsTyped, Zenon
<1> QED
  BY <1>1, <1>2, <1>6, <1>7, Zenon

\* The policy on a key, from that on the argument that holds it.
LEMMA KeyOfArgument ==
  ASSUME NEW texts, NEW k \in ToSet(texts), k # <<>>,
         argsAllowedByKeyPrefixPolicy(Given(texts), session.meta)
  PROVE  argsAllowedByKeyPrefixPolicy(Given(<<k>>), session.meta)
         /\ (\/ session.meta.keys = {} \/ Star \in session.meta.keys
             \/ prefixAllowlistMatch(k, session.meta.keys))
<1>1. Values(Given(texts)) = ToSet(texts) /\ Given(texts) # Absent /\ Values(Given(<<k>>)) = {k}
      /\ IsGiven(Given(<<k>>))
  BY DEF Values, Given, Absent, IsGiven, ToSet
<1>2. \/ session.meta.keys = {} \/ Star \in session.meta.keys
      \/ prefixAllowlistMatch(k, session.meta.keys)
  BY <1>1 DEF argsAllowedByKeyPrefixPolicy, FieldAllowed
<1> QED
  BY <1>1, <1>2 DEF argsAllowedByKeyPrefixPolicy, FieldAllowed

\* A key that the policy of the session lets pass.
LEMMA ArgumentOfKey ==
  ASSUME NEW k,
         \/ session.meta.keys = {} \/ Star \in session.meta.keys
         \/ prefixAllowlistMatch(k, session.meta.keys)
  PROVE  argsAllowedByKeyPrefixPolicy(Given(<<k>>), session.meta)
<1>1. Values(Given(<<k>>)) = {k} /\ IsGiven(Given(<<k>>))
  BY DEF Values, Given, IsGiven, ToSet
<1> QED
  BY <1>1 DEF argsAllowedByKeyPrefixPolicy, FieldAllowed

\* The smaller and the larger of two numbers.
LEMMA PairMin ==
  ASSUME NEW a \in Int, NEW b \in Int
  PROVE  /\ Min({a, b}) = IF a <= b THEN a ELSE b
         /\ Max({a, b}) = IF a >= b THEN a ELSE b
<1> DEFINE m == IF a <= b THEN a ELSE b
           n == IF a >= b THEN a ELSE b
<1>1. m \in {a, b} /\ \A y \in {a, b} : m <= y
  OBVIOUS
<1>2. \A x \in {a, b} : (\A y \in {a, b} : x <= y) => x = m
  OBVIOUS
<1>3. n \in {a, b} /\ \A y \in {a, b} : n >= y
  OBVIOUS
<1>4. \A x \in {a, b} : (\A y \in {a, b} : x >= y) => x = n
  OBVIOUS
<1> HIDE DEF m, n
<1>5. Min({a, b}) = m
  <2>1. Min({a, b}) \in {a, b} /\ \A y \in {a, b} : Min({a, b}) <= y
    BY <1>1, Zenon DEF Min
  <2> QED
    BY <1>2, <2>1
<1>6. Max({a, b}) = n
  <2>1. Max({a, b}) \in {a, b} /\ \A y \in {a, b} : Max({a, b}) >= y
    BY <1>3, Zenon DEF Max
  <2> QED
    BY <1>4, <2>1
<1> QED
  BY <1>5, <1>6 DEF m, n

\* The first entries of a sequence.
LEMMA FirstNIs ==
  ASSUME NEW S, NEW s \in Seq(S), NEW n \in Nat
  PROVE  /\ FirstN(s, n) \in Seq(S) /\ Len(FirstN(s, n)) = Min({n, Len(s)})
         /\ Len(FirstN(s, n)) <= n /\ Len(FirstN(s, n)) <= Len(s)
         /\ \A i \in 1 .. Len(FirstN(s, n)) : FirstN(s, n)[i] = s[i]
         /\ Len(s) <= n => FirstN(s, n) = s
<1>1. Len(s) \in Nat
  BY LenProperties
<1>2. PICK m : m = Min({n, Len(s)})
  OBVIOUS
<1>3. m \in Nat /\ m <= n /\ m <= Len(s) /\ (Len(s) <= n => m = Len(s))
  BY <1>1, <1>2, PairMin
<1>4. FirstN(s, n) = SubSeq(s, 1, m)
  BY <1>2 DEF FirstN
<1>5. /\ SubSeq(s, 1, m) \in Seq(S) /\ Len(SubSeq(s, 1, m)) = m
      /\ \A i \in 1 .. m : SubSeq(s, 1, m)[i] = s[i]
  <2>1. \A i \in 1 .. m : s[i] \in S
    BY <1>1, <1>3, ElementOfSeq
  <2> QED
    BY <1>1, <1>3, <2>1, SubSeqProperties
<1>6. Len(s) <= n => SubSeq(s, 1, m) = s
  BY <1>3, SubSeqFull
<1> QED
  BY <1>2, <1>3, <1>4, <1>5, <1>6

\* redis.scan: the keys of a page have the prefix, and all are there unless it says not.
LEMMA ScanKeys ==
  ASSUME NEW w, NEW r, r.max = 2, r.hint \in {2, 3}, r.cursor \in {0, 2}
  PROVE  /\ redisScanKeys(w, r).keys \in Seq({k \in Keys : IsPrefix(r.prefix, k)})
         /\ Len(redisScanKeys(w, r).keys) <= 2 /\ redisScanKeys(w, r).truncated \in BOOLEAN
         /\ ~redisScanKeys(w, r).truncated =>
              redisScanKeys(w, r).keys = Matching(w, r.prefix, r.cursor + 1, Len(KeyOrder))
<1> DEFINE Stops(j) == Len(Found(w, r, j)) >= r.max \/ PageEnd(r, j) = Len(KeyOrder)
<1>1. Len(KeyOrder) \in Nat
  BY KeysTyped, LenProperties
<1>2. PICK n : n = Len(KeyOrder) + 1
  OBVIOUS
<1>3. n \in Nat /\ r.cursor + 1 \in Nat \ {0}
  BY <1>1, <1>2
<1>4. ASSUME NEW j \in 1 .. n
      PROVE  PageEnd(r, j) \in 0 .. Len(KeyOrder) /\ (j = n => PageEnd(r, j) = Len(KeyOrder))
  <2>1. j * r.hint \in Nat /\ j * r.hint >= j
    <3>1. CASE r.hint = 2
      BY <1>3, <3>1
    <3>2. CASE r.hint = 3
      BY <1>3, <3>2
    <3> QED
      BY <3>1, <3>2
  <2>2. PICK e : e = r.cursor + j * r.hint
    OBVIOUS
  <2>3. e \in Nat /\ e >= j
    BY <1>3, <2>1, <2>2
  <2>4. Min({e, Len(KeyOrder)}) = IF e <= Len(KeyOrder) THEN e ELSE Len(KeyOrder)
    BY <1>1, <2>3, PairMin
  <2>5. PageEnd(r, j) = Min({e, Len(KeyOrder)})
    BY <2>2 DEF PageEnd
  <2> QED
    BY <1>1, <1>2, <2>3, <2>4, <2>5
<1>5. PICK K : K = {k \in Keys : IsPrefix(r.prefix, k)}
  OBVIOUS
<1>6. ASSUME NEW j \in 1 .. n PROVE Found(w, r, j) \in Seq(K)
  <2>1. PageEnd(r, j) \in 0 .. Len(KeyOrder)
    BY <1>4
  <2> QED
    BY <1>3, <1>5, <2>1, MatchingIs DEF Found
<1>7. PICK G : G = {j \in 1 .. n : Stops(j)}
  OBVIOUS
<1>8. n \in G
  <2>1. n \in 1 .. n
    BY <1>1, <1>2
  <2>2. PageEnd(r, n) = Len(KeyOrder)
    BY <1>4, <2>1
  <2> QED
    BY <1>7, <2>1, <2>2
<1>9. \A j \in 1 .. n : PageEnd(r, j) <= Len(KeyOrder) /\ PageEnd(r, j) \in Nat
  BY <1>1, <1>4
<1>10. \A j \in 1 .. n : Len(Found(w, r, j)) \in Nat
  <2> QED
    BY <1>6, LenProperties
<1>11. PICK m \in G : \A i \in 1 .. m - 1 : i \notin G
  BY <1>3, <1>7, <1>8, Least
<1>12. \A i \in 1 .. m - 1 : Len(Found(w, r, i)) < r.max /\ PageEnd(r, i) < Len(KeyOrder)
  <2> SUFFICES ASSUME NEW i \in 1 .. m - 1 PROVE Len(Found(w, r, i)) < r.max /\ PageEnd(r, i) < Len(KeyOrder)
    OBVIOUS
  <2>1. m \in 1 .. n
    BY <1>7, <1>11
  <2>2. i \in 1 .. n
    BY <1>3, <2>1
  <2>3. ~Stops(i)
    BY <1>7, <1>11, <2>2
  <2> QED
    BY <1>1, <1>9, <1>10, <2>2, <2>3
<1>13. PICK last0 : last0 = LastPage(w, r)
  OBVIOUS
<1>14. last0 \in 1 .. n /\ Stops(last0)
  <2>1. m \in 1 .. n /\ Stops(m)
    BY <1>7, <1>11
  <2> QED
    BY <1>2, <1>12, <1>13, <2>1, Zenon DEF LastPage
<1>15. redisScanKeys(w, r) = [keys |-> FirstN(Found(w, r, last0), r.max),
                              cursor |-> IF PageEnd(r, last0) = Len(KeyOrder) THEN 0 ELSE PageEnd(r, last0),
                              truncated |-> Len(Found(w, r, last0)) >= r.max]
  BY <1>13 DEF redisScanKeys
<1>16. PICK found : found = Found(w, r, last0)
  OBVIOUS
<1>17. found \in Seq(K) /\ Len(found) \in Nat
  <2> QED
    BY <1>6, <1>10, <1>14, <1>16
<1>18. redisScanKeys(w, r).keys = FirstN(found, 2) /\ redisScanKeys(w, r).truncated = (Len(found) >= 2)
  BY <1>15, <1>16
<1>19. ASSUME ~(Len(found) >= 2)
       PROVE  FirstN(found, 2) = found /\ found = Matching(w, r.prefix, r.cursor + 1, Len(KeyOrder))
  <2>1. PageEnd(r, last0) = Len(KeyOrder)
    BY <1>14, <1>16, <1>19
  <2>2. Len(found) <= 2
    BY <1>17, <1>19
  <2>3. FirstN(found, 2) = found
    BY <1>17, <2>2, FirstNIs
  <2>4. found = Matching(w, r.prefix, r.cursor + 1, Len(KeyOrder))
    BY <1>16, <2>1, Zenon DEF Found
  <2> QED
    BY <2>3, <2>4
<1>20. FirstN(found, 2) \in Seq(K) /\ Len(FirstN(found, 2)) <= 2
  BY <1>17, FirstNIs
<1>21. PICK page : page = redisScanKeys(w, r)
  OBVIOUS
<1>22. page.keys \in Seq(K) /\ Len(page.keys) <= 2 /\ page.truncated \in BOOLEAN
  <2>1. page.keys \in Seq(K) /\ Len(page.keys) <= 2
    BY <1>18, <1>20, <1>21
  <2>2. page.truncated \in BOOLEAN
    <3>1. (Len(found) >= 2) \in BOOLEAN
      OBVIOUS
    <3>2. page.truncated = (Len(found) >= 2)
      BY <1>18, <1>21, Zenon
    <3> QED
      BY <3>1, <3>2, Zenon
  <2> QED
    BY <2>1, <2>2
<1>23. ~page.truncated => page.keys = Matching(w, r.prefix, r.cursor + 1, Len(KeyOrder))
  BY <1>18, <1>19, <1>21
<1> HIDE DEF Stops
<1> QED
  BY <1>5, <1>21, <1>22, <1>23

\* The entry of a sequence of one.
LEMMA TheOnly == \A x : x \in ToSet(<<x>>)
<1>1. \A x : 1 \in DOMAIN <<x>> /\ <<x>>[1] = x
  OBVIOUS
<1>2. \A s : 1 \in DOMAIN s => s[1] \in ToSet(s)
  BY DEF ToSet
<1> QED
  BY <1>1, <1>2

\* Given that the policy and the profile allow it.
LEMMA KeyAllowed ==
  ASSUME session \in Sessions, NEW id \in {"dev.redis", "", "dev.nats"},
         resolveRedisProfile(session, id) = "ok", NEW texts, NEW k \in ToSet(texts), k # <<>>,
         keyAllowedByProfile(k, ProfileOf(session, id)),
         argsAllowedByKeyPrefixPolicy(Given(texts), session.meta)
  PROVE  KeyInScope(k)
<1>1. id = "dev.redis"
  BY RedisProfile, Zenon
<1>2. argsAllowedByKeyPrefixPolicy(Given(<<k>>), session.meta)
  BY KeyOfArgument, Zenon
<1> QED
  BY <1>1, <1>2 DEF KeyInScope, keyAllowedByProfile

\* The keys under a prefix that is allowed are in scope.
LEMMA PrefixAllowed ==
  ASSUME session \in Sessions, NEW id \in {"dev.redis", "", "dev.nats"},
         resolveRedisProfile(session, id) = "ok", NEW p, p # <<>>, IsText(p),
         prefixAllowedByProfile(p, ProfileOf(session, id)),
         argsAllowedByKeyPrefixPolicy(Given(<<p>>), session.meta),
         NEW k \in Keys, IsPrefix(p, k)
  PROVE  KeyInScope(k)
<1>1. id = "dev.redis" /\ \A t \in ProfileOf(session, id).scope : IsText(t)
  BY RedisProfile, Zenon
<1>2. IsText(k) /\ \A t \in session.meta.keys : IsText(t)
  BY KeysTyped, SessionsTyped, Zenon
<1>3. prefixAllowlistMatch(p, ProfileOf(session, id).scope)
  BY Zenon DEF prefixAllowedByProfile, prefixAllowlistMatch
<1>4. prefixAllowlistMatch(k, ProfileOf(session, id).scope)
  BY <1>1, <1>2, <1>3, PrefixAllows
<1>5. p \in ToSet(<<p>>)
  BY TheOnly, Zenon
<1>6. \/ session.meta.keys = {} \/ Star \in session.meta.keys
      \/ prefixAllowlistMatch(p, session.meta.keys)
  BY <1>5, KeyOfArgument, Zenon
<1>7. prefixAllowlistMatch(p, session.meta.keys) => prefixAllowlistMatch(k, session.meta.keys)
  BY <1>2, PrefixAllows, Zenon
<1>8. argsAllowedByKeyPrefixPolicy(Given(<<k>>), session.meta)
  BY <1>6, <1>7, ArgumentOfKey, Zenon
<1> QED
  BY <1>1, <1>4, <1>8 DEF KeyInScope

\* What an answer to a call about Redis may show and change.
RedisRespects(tool, r, a) ==
  /\ \A k \in Shown(tool, r, a) : KeyInScope(k)
  /\ Services(a.w) /\ a.w.heard = world.heard /\ a.w.topic = world.topic
  /\ \A k \in Keys : a.w.kv[k] # world.kv[k] => KeyInScope(k)

\* A call to Redis that fails shows nothing.
LEMMA Unshown ==
  ASSUME Services(world), NEW tool, NEW r, NEW a, a.w = world, a.code # "ok"
  PROVE  RedisRespects(tool, r, a)
BY DEF RedisRespects, Shown

\* What the policy engine has looked at when it allows a call to Redis.
LEMMA RedisAllowed ==
  ASSUME NEW tool \in RedisTools, NEW r, Decision(tool, r) = Allow
  PROVE  /\ tool \in {"redis.mget", "redis.exists", "redis.del"} =>
              argsAllowedByKeyPrefixPolicy(Given(r.keys), session.meta)
         /\ tool = "redis.scan" => argsAllowedByKeyPrefixPolicy(Given(<<r.prefix>>), session.meta)
         /\ tool \in {"redis.get", "redis.ttl", "redis.set"} =>
              argsAllowedByKeyPrefixPolicy(Given(<<r.key>>), session.meta)
<1>1. tool \notin RolloutTools \cup SaturationTools \cup {"notify.escalation_channel"}
  BY DEF RedisTools, RolloutTools, SaturationTools
<1>2. "key" \in Fields(tool)
  BY DEF Fields, RedisTools, ClusterAsked, GitReaders, GitWriters
<1>3. argsAllowedByKeyPrefixPolicy(Args(tool, r).key, session.meta)
  BY <1>1, <1>2, FieldsAllowed
<1>4. \A a, b, c, d, e, f, g, h, i :
        [path |-> a, profile |-> b, subject |-> c, topic |-> d, queue |-> e, namespace |-> f,
         registry |-> g, arg |-> h, key |-> i].key = i
  OBVIOUS
<1>5. Args(tool, r).key = IF tool \in {"redis.mget", "redis.exists", "redis.del"} THEN Given(r.keys)
                          ELSE IF tool = "redis.scan" THEN Given(<<r.prefix>>) ELSE Given(<<r.key>>)
  BY <1>4, Zenon DEF Args
<1>6. PICK x, y, z : x = Given(r.keys) /\ y = Given(<<r.prefix>>) /\ z = Given(<<r.key>>)
  OBVIOUS
<1>7. Args(tool, r).key = IF tool \in {"redis.mget", "redis.exists", "redis.del"} THEN x
                          ELSE IF tool = "redis.scan" THEN y ELSE z
  BY <1>5, <1>6
<1> QED
  BY <1>3, <1>6, <1>7

\* The tools about one key.
LEMMA OneKey ==
  ASSUME session \in Sessions, Services(world), NEW tool \in {"redis.get", "redis.ttl", "redis.set"},
         NEW r \in RedisRequests(tool), Decision(tool, r) = Allow, NEW a \in Handler(tool, r)
  PROVE  RedisRespects(tool, r, a)
<1>1. r.profile \in {"dev.redis", "", "dev.nats"}
  BY RedisRequestIs, Zenon
<1>2. argsAllowedByKeyPrefixPolicy(Given(<<r.key>>), session.meta)
  BY RedisAllowed DEF RedisTools
<1>3. r.key \in ToSet(<<r.key>>)
  BY TheOnly
<1>4. ASSUME r.key # <<>>, resolveRedisProfile(session, r.profile) = "ok",
             keyAllowedByProfile(r.key, ProfileOf(session, r.profile))
      PROVE  KeyInScope(r.key)
  BY <1>1, <1>2, <1>3, <1>4, KeyAllowed, Zenon
<1>5. CASE tool = "redis.set"
  <2>1. PICK w2 : w2 = [world EXCEPT !.kv[r.key] = r.payload, !.expires = @ \cup {r.key}]
    OBVIOUS
  <2>2. a \in Writing(session, r, world, r.key # <<>> /\ r.payload # BadPayload /\ r.ttl \in 1 .. MaxTTL,
                      resolveRedisProfile(session, r.profile),
                      keyAllowedByProfile(r.key, ProfileOf(session, r.profile)), TRUE, Done(w2))
    <3>1. Handler(tool, r) = RedisSet(session, r, world)
      BY <1>5, Handlers
    <3> QED
      BY <2>1, <3>1, Zenon DEF RedisSet
  <2>3. keyAllowedByProfile(r.key, ProfileOf(session, r.profile)) \in BOOLEAN
    BY DEF keyAllowedByProfile, prefixAllowlistMatch
  <2>4. /\ Blind(a)
        /\ \/ a.w = world /\ a.code # "ok"
           \/ /\ r.key # <<>> /\ resolveRedisProfile(session, r.profile) = "ok"
              /\ keyAllowedByProfile(r.key, ProfileOf(session, r.profile)) /\ a.w = w2
    <3>1. PICK ok \in BOOLEAN : ok = (r.key # <<>> /\ r.payload # BadPayload /\ r.ttl \in 1 .. MaxTTL)
      OBVIOUS
    <3>2. PICK within \in BOOLEAN : within = keyAllowedByProfile(r.key, ProfileOf(session, r.profile))
      BY <2>3
    <3>0. PICK yes \in BOOLEAN : yes = TRUE
      OBVIOUS
    <3>3. a \in Writing(session, r, world, ok, resolveRedisProfile(session, r.profile), within, yes, Done(w2))
      BY <2>2, <3>0, <3>1, <3>2, Zenon
    <3>4. /\ Blind(a)
          /\ \/ a.w = world /\ a.code # "ok"
             \/ ok /\ resolveRedisProfile(session, r.profile) = "ok" /\ within /\ a.w = w2
      BY <3>3, WritingIs
    <3> QED
      BY <3>1, <3>2, <3>4
  <2>5. CASE a.w = world /\ a.code # "ok"
    BY <2>5, Unshown
  <2>6. CASE a.w = w2 /\ KeyInScope(r.key)
    <3>1. Services(w2) /\ w2.heard = world.heard /\ w2.topic = world.topic
          /\ \A k \in Keys : w2.kv[k] # world.kv[k] => k = r.key
      BY <2>1 DEF Services
    <3>2. Shown(tool, r, a) = {}
      <4>1. a.keys = <<>>
        BY <2>4 DEF Blind
      <4>2. ToSet(a.keys) = {}
        BY <4>1 DEF ToSet
      <4> QED
        BY <1>5, <4>2 DEF Shown
    <3> QED
      BY <2>6, <3>1, <3>2 DEF RedisRespects
  <2> QED
    BY <1>4, <2>4, <2>5, <2>6
<1>6. CASE tool \in {"redis.get", "redis.ttl"}
  <2>1. PICK answers : a \in Reading(session, r, world, r.key # <<>>, resolveRedisProfile(session, r.profile),
                              keyAllowedByProfile(r.key, ProfileOf(session, r.profile)), answers)
                       /\ \A b \in answers : b.w = world
    <3>1. CASE tool = "redis.ttl"
      <4>1. a \in Reading(session, r, world, r.key # <<>>, resolveRedisProfile(session, r.profile),
                          keyAllowedByProfile(r.key, ProfileOf(session, r.profile)), {Done(world)})
        <5>1. Handler(tool, r) = RedisTTL(session, r, world)
          BY <3>1, Handlers
        <5> QED
          BY <5>1, Zenon DEF RedisTTL
      <4> QED
        BY <4>1, FailedIs
    <3>2. CASE tool = "redis.get"
      <4>1. PICK v : v = world.kv[r.key]
        OBVIOUS
      <4>2. PICK b : b = IF v = Missing THEN Done(world)
                         ELSE Answer(world, <<Min({v, r.maxBytes})>>, <<v>>, v > r.maxBytes)
        OBVIOUS
      <4>3. a \in Reading(session, r, world, r.key # <<>>, resolveRedisProfile(session, r.profile),
                          keyAllowedByProfile(r.key, ProfileOf(session, r.profile)), {b})
        <5>1. Handler(tool, r) = RedisGet(session, r, world)
          BY <3>2, Handlers
        <5> QED
          BY <4>1, <4>2, <5>1, Zenon DEF RedisGet
      <4>4. b.w = world
        BY <4>2, FailedIs DEF Answer
      <4> QED
        BY <4>3, <4>4
    <3> QED
      BY <1>6, <3>1, <3>2
  <2>3. keyAllowedByProfile(r.key, ProfileOf(session, r.profile)) \in BOOLEAN
    BY DEF keyAllowedByProfile, prefixAllowlistMatch
  <2>4. \/ a.w = world /\ a.code # "ok" /\ Blind(a)
        \/ /\ r.key # <<>> /\ resolveRedisProfile(session, r.profile) = "ok"
           /\ keyAllowedByProfile(r.key, ProfileOf(session, r.profile)) /\ a \in answers
    <3>1. PICK ok \in BOOLEAN : ok = (r.key # <<>>)
      OBVIOUS
    <3>2. PICK within \in BOOLEAN : within = keyAllowedByProfile(r.key, ProfileOf(session, r.profile))
      BY <2>3
    <3>3. a \in Reading(session, r, world, ok, resolveRedisProfile(session, r.profile), within, answers)
      BY <2>1, <3>1, <3>2, Zenon
    <3>4. \/ a.w = world /\ a.code # "ok" /\ Blind(a)
          \/ ok /\ resolveRedisProfile(session, r.profile) = "ok" /\ within /\ a \in answers
      BY <3>3, ReadingIs
    <3> QED
      BY <3>1, <3>2, <3>4
  <2>5. CASE a.w = world /\ a.code # "ok"
    BY <2>5, Unshown
  <2>6. CASE KeyInScope(r.key) /\ a \in answers
    <3>1. a.w = world
      BY <2>1, <2>6
    <3>2. Shown(tool, r, a) \subseteq {r.key}
      BY <1>6 DEF Shown
    <3> QED
      BY <2>6, <3>1, <3>2 DEF RedisRespects
  <2> QED
    BY <1>4, <2>4, <2>5, <2>6
<1> QED
  BY <1>5, <1>6

\* The tools about several keys.
LEMMA ManyKeys ==
  ASSUME session \in Sessions, Services(world), NEW tool \in {"redis.mget", "redis.exists", "redis.del"},
         NEW r \in RedisRequests(tool), Decision(tool, r) = Allow, NEW a \in Handler(tool, r)
  PROVE  RedisRespects(tool, r, a)
<1>1. r.profile \in {"dev.redis", "", "dev.nats"}
  BY RedisRequestIs, Zenon
<1>2. argsAllowedByKeyPrefixPolicy(Given(r.keys), session.meta)
  BY RedisAllowed DEF RedisTools
<1>3. PICK ok \in BOOLEAN : ok = normalizeRedisKeys(r.keys)
  BY DEF normalizeRedisKeys
<1>4. PICK within \in BOOLEAN :
        within = \A i \in DOMAIN r.keys : keyAllowedByProfile(r.keys[i], ProfileOf(session, r.profile))
  OBVIOUS
<1>5. ASSUME ok, within, resolveRedisProfile(session, r.profile) = "ok", NEW k \in ToSet(r.keys)
      PROVE  KeyInScope(k)
  <2>1. k # <<>>
    BY <1>3, <1>5 DEF normalizeRedisKeys, ToSet
  <2>2. keyAllowedByProfile(k, ProfileOf(session, r.profile))
    BY <1>4, <1>5 DEF ToSet
  <2> QED
    BY <1>1, <1>2, <1>5, <2>1, <2>2, KeyAllowed, Zenon
<1>6. CASE tool = "redis.del"
  <2>1. PICK w2 : w2 = [world EXCEPT !.kv = [k \in Keys |-> IF k \in ToSet(r.keys) THEN Missing ELSE @[k]],
                                     !.expires = @ \ ToSet(r.keys)]
    BY Zenon
  <2>2. PICK all \in BOOLEAN :
          all = \A k \in ToSet(r.keys) : keyAllowedByProfile(k, ProfileOf(session, r.profile))
    OBVIOUS
  <2>3. PICK yes \in BOOLEAN : yes = TRUE
    OBVIOUS
  <2>4. Handler(tool, r) = RedisDel(session, r, world)
    BY <1>6, Handlers
  <2>5. a \in Writing(session, r, world, ok, resolveRedisProfile(session, r.profile), all, yes, Done(w2))
    BY <1>3, <2>1, <2>2, <2>3, <2>4, Zenon DEF RedisDel
  <2>6. all => within
    BY <1>4, <2>2 DEF ToSet
  <2>7. /\ Blind(a)
        /\ \/ a.w = world /\ a.code # "ok"
           \/ ok /\ resolveRedisProfile(session, r.profile) = "ok" /\ all /\ a.w = w2
    BY <2>5, WritingIs
  <2>8. CASE a.w = world /\ a.code # "ok"
    BY <2>8, Unshown
  <2>9. CASE a.w = w2 /\ \A k \in ToSet(r.keys) : KeyInScope(k)
    <3>1. Services(w2) /\ w2.heard = world.heard /\ w2.topic = world.topic
          /\ \A k \in Keys : w2.kv[k] # world.kv[k] => k \in ToSet(r.keys)
      BY <2>1 DEF Services
    <3>2. Shown(tool, r, a) = {}
      <4>1. a.keys = <<>>
        BY <2>7 DEF Blind
      <4>2. ToSet(a.keys) = {}
        BY <4>1 DEF ToSet
      <4> QED
        BY <1>6, <4>2 DEF Shown
    <3> QED
      BY <2>9, <3>1, <3>2 DEF RedisRespects
  <2> QED
    BY <1>5, <2>6, <2>7, <2>8, <2>9
<1>7. CASE tool \in {"redis.mget", "redis.exists"}
  <2>1. PICK answers : a \in Reading(session, r, world, ok, resolveRedisProfile(session, r.profile), within, answers)
                       /\ \A b \in answers : b.w = world
    <3>1. CASE tool = "redis.exists"
      <4>1. Handler(tool, r) = RedisExists(session, r, world)
        BY <3>1, Handlers
      <4>2. a \in Reading(session, r, world, ok, resolveRedisProfile(session, r.profile), within, {Done(world)})
        BY <1>3, <1>4, <4>1, Zenon DEF RedisExists
      <4> QED
        BY <4>2, FailedIs
    <3>2. CASE tool = "redis.mget"
      <4>1. PICK sizes : sizes = [j \in DOMAIN r.keys |-> Max({0, world.kv[r.keys[j]]})]
        OBVIOUS
      <4>2. PICK items : items = [i \in DOMAIN r.keys |-> processMGetEntry(world, r.keys, i, r.maxBytes)]
        OBVIOUS
      <4>3. PICK b : b = Answer(world, items, sizes,
                                \E i \in DOMAIN sizes : sizes[i] > Left(sizes, i, r.maxBytes))
        OBVIOUS
      <4>4. Handler(tool, r) = RedisMGet(session, r, world)
        BY <3>2, Handlers
      <4>5. a \in Reading(session, r, world, ok, resolveRedisProfile(session, r.profile), within, {b})
        BY <1>3, <1>4, <4>1, <4>2, <4>3, <4>4, Zenon DEF RedisMGet
      <4>6. b.w = world
        BY <4>3 DEF Answer
      <4> QED
        BY <4>5, <4>6
    <3> QED
      BY <1>7, <3>1, <3>2
  <2>2. \/ a.w = world /\ a.code # "ok" /\ Blind(a)
        \/ ok /\ resolveRedisProfile(session, r.profile) = "ok" /\ within /\ a \in answers
    BY <2>1, ReadingIs
  <2>3. CASE a.w = world /\ a.code # "ok"
    BY <2>3, Unshown
  <2>4. CASE a \in answers /\ \A k \in ToSet(r.keys) : KeyInScope(k)
    <3>1. a.w = world
      BY <2>1, <2>4
    <3>2. Shown(tool, r, a) \subseteq ToSet(r.keys)
      BY <1>7 DEF Shown
    <3> QED
      BY <2>4, <3>1, <3>2 DEF RedisRespects
  <2> QED
    BY <1>5, <2>2, <2>3, <2>4
<1> QED
  BY <1>6, <1>7

\* redis.scan: what it lists has the prefix that was checked.
LEMMA ScannedKeys ==
  ASSUME session \in Sessions, Services(world), NEW r \in RedisRequests("redis.scan"),
         Decision("redis.scan", r) = Allow, NEW a \in Handler("redis.scan", r)
  PROVE  RedisRespects("redis.scan", r, a)
<1>1. r.profile \in {"dev.redis", "", "dev.nats"} /\ IsText(r.prefix) /\ r.max = 2
      /\ r.hint \in {2, 3} /\ r.cursor \in {0, 2}
  BY RedisRequestIs, Zenon
<1>2. argsAllowedByKeyPrefixPolicy(Given(<<r.prefix>>), session.meta)
  BY RedisAllowed DEF RedisTools
<1>3. PICK page : page = redisScanKeys(world, r)
  OBVIOUS
<1>4. page.keys \in Seq({k \in Keys : IsPrefix(r.prefix, k)})
  BY <1>1, <1>3, ScanKeys, Zenon
<1>5. PICK x, y, all : x = [i \in DOMAIN page.keys |-> 1] /\ y = [i \in DOMAIN all |-> 1]
                       /\ all = Matching(world, r.prefix, r.cursor + 1, Len(KeyOrder))
  OBVIOUS
<1>6. PICK b : b = [Answer(world, x, y, page.truncated) EXCEPT !.keys = page.keys, !.cursor = page.cursor]
  OBVIOUS
<1>7. b.w = world /\ b.keys = page.keys
  BY <1>6 DEF Answer
<1>8. PICK ok \in BOOLEAN : ok = (r.prefix # <<>>)
  OBVIOUS
<1>9. PICK within \in BOOLEAN : within = prefixAllowedByProfile(r.prefix, ProfileOf(session, r.profile))
  BY DEF prefixAllowedByProfile
<1>10. a \in Reading(session, r, world, ok, resolveRedisProfile(session, r.profile), within, {b})
  <2>1. Handler("redis.scan", r) = RedisScan(session, r, world)
    BY Handlers
  <2> QED
    BY <1>3, <1>5, <1>6, <1>8, <1>9, <2>1, Zenon DEF RedisScan
<1>11. \/ a.w = world /\ a.code # "ok" /\ Blind(a)
       \/ ok /\ resolveRedisProfile(session, r.profile) = "ok" /\ within /\ a \in {b}
  BY <1>10, ReadingIs
<1>12. CASE a.w = world /\ a.code # "ok"
  BY <1>12, Unshown
<1>13. CASE r.prefix # <<>> /\ resolveRedisProfile(session, r.profile) = "ok" /\ a = b
            /\ prefixAllowedByProfile(r.prefix, ProfileOf(session, r.profile))
  <2>1. ASSUME NEW k \in ToSet(page.keys) PROVE KeyInScope(k)
    <3>1. k \in Keys /\ IsPrefix(r.prefix, k)
      BY <1>4, <2>1, ElementOfSeq, LenProperties DEF ToSet
    <3> QED
      BY <1>1, <1>2, <1>13, <3>1, PrefixAllowed, Zenon
  <2>2. Shown("redis.scan", r, a) \subseteq ToSet(page.keys)
    BY <1>7, <1>13 DEF Shown
  <2> QED
    BY <1>7, <1>13, <2>1, <2>2 DEF RedisRespects
<1> QED
  BY <1>8, <1>9, <1>11, <1>12, <1>13

\* Whatever Redis tool it is.
LEMMA RedisHandled ==
  ASSUME session \in Sessions, Services(world), NEW tool \in RedisTools,
         NEW r \in RedisRequests(tool), Decision(tool, r) = Allow, NEW a \in Handler(tool, r)
  PROVE  RedisRespects(tool, r, a)
<1>1. CASE tool = "redis.scan"
  BY <1>1, ScannedKeys
<1>2. CASE tool \in {"redis.mget", "redis.exists", "redis.del"}
  BY <1>2, ManyKeys
<1>3. CASE tool \in {"redis.get", "redis.ttl", "redis.set"}
  BY <1>3, OneKey
<1> QED
  BY <1>1, <1>2, <1>3 DEF RedisTools

--------------------------------------------------------------------------------
(* Messages and documents. *)

\* Services as they are, as far as keys, subjects and topics go.
Quiet(w) == Services(w) /\ w.kv = world.kv /\ w.heard = world.heard /\ w.topic = world.topic

\* What an answer of these tools may change.
MessagesRespect(a) ==
  /\ Services(a.w) /\ a.w.kv = world.kv
  /\ \A n \in a.w.heard \ world.heard : /\ argsAllowedBySubjectPolicy(Given(<<n>>), session.meta)
                                        /\ subjectAllowedByProfile(n, ProfileOf(session, "dev.nats"))
  /\ \A n \in DataNames.topics : a.w.topic[n] # world.topic[n] =>
       /\ argsAllowedByTopicPolicy(Given(<<n>>), session.meta)
       /\ topicAllowedByProfile(n, ProfileOf(session, "dev.kafka"))

\* A call that publishes nothing.
LEMMA QuietRespects ==
  ASSUME NEW a, Quiet(a.w) PROVE MessagesRespect(a)
BY DEF Quiet, MessagesRespect

\* A tool that reads leaves the services, or does to them what its answers do.
ReadsQuietly(a) ==
  \E r, x, y, z, answers : /\ a \in Reading(session, r, world, x, y, z, answers)
                           /\ \A b \in answers : Quiet(b.w)

\* A tool that only reads publishes nothing.
LEMMA QuietReaders ==
  ASSUME Services(world), NEW a, ReadsQuietly(a)
  PROVE  MessagesRespect(a)
<1>1. PICK r, x, y, z, answers : /\ a \in Reading(session, r, world, x, y, z, answers)
                                 /\ \A b \in answers : Quiet(b.w)
  BY DEF ReadsQuietly
<1>2. (\E c : a = Failed(world, c)) \/ a \in answers
  BY <1>1, Zenon DEF Reading
<1>3. Quiet(a.w)
  <2>1. CASE a \in answers
    BY <1>1, <2>1
  <2>2. CASE \E c : a = Failed(world, c)
    BY <2>2, FailedIs DEF Quiet
  <2> QED
    BY <1>2, <2>1, <2>2
<1> QED
  BY <1>3, QuietRespects

\* An answer without an effect.
LEMMA DoneIsQuiet ==
  ASSUME Services(world) PROVE \A b \in {Done(world)} : Quiet(b.w)
BY FailedIs DEF Quiet

\* An answer leaves the services as they are.
LEMMA AnswersKeepTheServices ==
  ASSUME NEW w
  PROVE  /\ \A x, y, z : Answer(w, x, y, z).w = w
         /\ \A x, m : Budgeted(w, x, m).w = w /\ kafkaConsumeFormatMessages(w, x, m).w = w
                      /\ truncateMongoDocuments(w, x, m).w = w
<1>1. \A x, y, z : Answer(w, x, y, z).w = w
  BY DEF Answer
<1>2. ASSUME NEW x, NEW m PROVE Budgeted(w, x, m).w = w
  BY <1>1, Zenon DEF Budgeted
<1>3. ASSUME NEW x, NEW m PROVE kafkaConsumeFormatMessages(w, x, m).w = w
  BY <1>1, Zenon DEF kafkaConsumeFormatMessages
<1>4. ASSUME NEW x, NEW m PROVE truncateMongoDocuments(w, x, m).w = w
  BY <1>1, Zenon DEF truncateMongoDocuments
<1> QED
  BY <1>1, <1>2, <1>3, <1>4

\* The tools that read messages and documents.
LEMMA MessagesRead ==
  ASSUME Services(world), NEW r,
         NEW tool \in {"nats.subscribe_pull", "kafka.consume", "kafka.topic_metadata", "rabbit.consume",
                       "rabbit.queue_info", "mongo.find", "mongo.aggregate"},
         NEW a \in Handler(tool, r)
  PROVE  ReadsQuietly(a)
<1>0. Quiet(world)
  BY DEF Quiet
<1>1. CASE tool = "nats.subscribe_pull"
  <2>1. PICK S : S = UNION {[1 .. n -> world.sizes] : n \in 0 .. r.max}
    OBVIOUS
  <2>2. PICK answers : answers = {Budgeted(world, sizes, r.maxBytes) : sizes \in S}
    OBVIOUS
  <2>3. Handler(tool, r) = NATSSubscribePull(session, r, world)
    BY <1>1, Handlers
  <2>4. \E x, y, z : a \in Reading(session, r, world, x, y, z, answers)
    BY <2>1, <2>2, <2>3, Zenon DEF NATSSubscribePull
  <2>5. \A b \in answers : Quiet(b.w)
    BY <1>0, <2>2, AnswersKeepTheServices
  <2> QED
    BY <2>4, <2>5, Zenon DEF ReadsQuietly
<1>2. CASE tool = "kafka.consume"
  <2>1. PICK log, from : log = world.topic[r.topic] /\ from = KafkaStart(log, r)
    OBVIOUS
  <2>2. PICK M : M = {SubSeq(log, from, to) : to \in from - 1 .. Min({Len(log), from + r.max - 1})} \cup {<<>>}
    OBVIOUS
  <2>3. PICK answers : answers = {kafkaConsumeFormatMessages(world, m, r.maxBytes) : m \in M}
    OBVIOUS
  <2>4. Handler(tool, r) = KafkaConsume(session, r, world)
    BY <1>2, Handlers
  <2>5. \E x, y, z : a \in Reading(session, r, world, x, y, z, answers)
    BY <2>1, <2>2, <2>3, <2>4, Zenon DEF KafkaConsume
  <2>6. \A b \in answers : Quiet(b.w)
    BY <1>0, <2>3, AnswersKeepTheServices
  <2> QED
    BY <2>5, <2>6, Zenon DEF ReadsQuietly
<1>3. CASE tool = "kafka.topic_metadata"
  <2>1. Handler(tool, r) = KafkaTopicMetadata(session, r, world)
    BY <1>3, Handlers
  <2>2. \E x, y, z : a \in Reading(session, r, world, x, y, z, {Done(world)})
    BY <2>1, Zenon DEF KafkaTopicMetadata
  <2>3. PICK answers : answers = {Done(world)}
    OBVIOUS
  <2>4. \E x, y, z : a \in Reading(session, r, world, x, y, z, answers)
    BY <2>2, <2>3, Zenon
  <2>5. \A b \in answers : Quiet(b.w)
    BY <2>3, DoneIsQuiet
  <2> QED
    BY <2>4, <2>5, Zenon DEF ReadsQuietly
<1>4. CASE tool = "rabbit.queue_info"
  <2>1. Handler(tool, r) = RabbitQueueInfo(session, r, world)
    BY <1>4, Handlers
  <2>2. \E x, y, z : a \in Reading(session, r, world, x, y, z, {Done(world)})
    BY <2>1, Zenon DEF RabbitQueueInfo
  <2>3. PICK answers : answers = {Done(world)}
    OBVIOUS
  <2>4. \E x, y, z : a \in Reading(session, r, world, x, y, z, answers)
    BY <2>2, <2>3, Zenon
  <2>5. \A b \in answers : Quiet(b.w)
    BY <2>3, DoneIsQuiet
  <2> QED
    BY <2>4, <2>5, Zenon DEF ReadsQuietly
<1>5. CASE tool = "rabbit.consume"
  <2>1. PICK q, N : q = world.queue[r.queue]
                    /\ N = {n \in (0 .. Min({r.max, Len(q)})) \X (0 .. Len(q)) : n[1] <= n[2]}
    OBVIOUS
  <2>2. PICK answers : answers = {Budgeted([world EXCEPT !.queue[r.queue] = SubSeq(q, n[2] + 1, Len(q))],
                                           SubSeq(q, 1, n[1]), r.maxBytes) : n \in N}
    OBVIOUS
  <2>3. Handler(tool, r) = RabbitConsume(session, r, world)
    BY <1>5, Handlers
  <2>4. \E x, y, z : a \in Reading(session, r, world, x, y, z, answers)
    BY <2>1, <2>2, <2>3, Zenon DEF RabbitConsume
  <2>5. ASSUME NEW b \in answers PROVE Quiet(b.w)
    <3>1. PICK n : b = Budgeted([world EXCEPT !.queue[r.queue] = SubSeq(q, n[2] + 1, Len(q))],
                                SubSeq(q, 1, n[1]), r.maxBytes)
      BY <2>2, <2>5, Zenon
    <3>2. PICK w2 : w2 = [world EXCEPT !.queue[r.queue] = SubSeq(q, n[2] + 1, Len(q))]
      OBVIOUS
    <3>3. b.w = w2
      BY <3>1, <3>2, AnswersKeepTheServices
    <3> QED
      BY <3>2, <3>3 DEF Quiet, Services
  <2> QED
    BY <2>4, <2>5, Zenon DEF ReadsQuietly
<1>6. CASE tool = "mongo.find"
  <2>1. PICK answers : answers = IF validateMongoFilter(r.ops)
                                 THEN {truncateMongoDocuments(world, FirstN(world.docs[r.database], r.max), r.maxBytes)}
                                 ELSE {}
    OBVIOUS
  <2>2. Handler(tool, r) = MongoFind(session, r, world)
    BY <1>6, Handlers
  <2>3. \E x, y, z : a \in Reading(session, r, world, x, y, z, answers)
    BY <2>1, <2>2, Zenon DEF MongoFind
  <2>4. ASSUME NEW b \in answers PROVE Quiet(b.w)
    <3>1. \E d : b = truncateMongoDocuments(world, d, r.maxBytes)
      BY <2>1, <2>4, Zenon
    <3> QED
      BY <1>0, <3>1, AnswersKeepTheServices
  <2> QED
    BY <2>3, <2>4, Zenon DEF ReadsQuietly
<1>7. CASE tool = "mongo.aggregate"
  <2>1. PICK answers : answers = IF validateMongoFilter(r.ops)
                                 THEN {truncateMongoDocuments(world, FirstN(docs, r.max), r.maxBytes) :
                                         docs \in {world.docs[r.database], <<>>}}
                                 ELSE {}
    OBVIOUS
  <2>2. Handler(tool, r) = MongoAggregate(session, r, world)
    BY <1>7, Handlers
  <2>3. \E x, y, z : a \in Reading(session, r, world, x, y, z, answers)
    BY <2>1, <2>2, Zenon DEF MongoAggregate
  <2>4. ASSUME NEW b \in answers PROVE Quiet(b.w)
    <3>1. \E d : b = truncateMongoDocuments(world, d, r.maxBytes)
      BY <2>1, <2>4, Zenon
    <3> QED
      BY <1>0, <3>1, AnswersKeepTheServices
  <2> QED
    BY <2>3, <2>4, Zenon DEF ReadsQuietly
<1> QED
  BY <1>1, <1>2, <1>3, <1>4, <1>5, <1>6, <1>7

\* The requests name the profiles that WithinScope speaks of.
LEMMA NatsRequestIs ==
  ASSUME NEW tool, NEW r \in NatsRequests(tool) PROVE r.profile = "dev.nats"
<1>1. PICK blank : blank = Blank
  OBVIOUS
<1>2. {"profile", "subject", "payload"} \subseteq DOMAIN blank
  BY <1>1, Zenon DEF Blank
<1>3. \E n \in {<<>>, <<"dev">>, <<"dev", "a">>, <<"ops", "a">>}, k \in {BadPayload, 1, 4} :
        r = [[blank EXCEPT !.profile = "dev.nats"] EXCEPT !.subject = n, !.payload = k]
  BY <1>1 DEF NatsRequests, Of
<1> QED
  BY <1>2, <1>3

\* The arguments of the calls to Kafka.
LEMMA KafkaRequestIs ==
  ASSUME NEW tool, NEW r \in KafkaRequests(tool)
  PROVE  r.profile = "dev.kafka" /\ r.topic \in DataNames.topics
<1>1. PICK blank : blank = Blank
  OBVIOUS
<1>2. {"profile", "topic", "payload", "mode", "timestamp", "offset"} \subseteq DOMAIN blank
  BY <1>1, Zenon DEF Blank
<1>3. PICK n \in DataNames.topics : r \in KafkaAbout(n)
  BY DEF KafkaRequests
<1>4. PICK P : P = {<<"earliest", Missing, "absent">>, <<"", Missing, "number">>,
                    <<"", 1, "absent">>, <<"earliest", Missing, "number">>}
  BY Zenon
<1>5. \/ \E k \in {1, 4} : r = [[blank EXCEPT !.profile = "dev.kafka"] EXCEPT !.topic = n, !.payload = k]
      \/ \E m \in P : r = [[blank EXCEPT !.profile = "dev.kafka"] EXCEPT
                             !.topic = n, !.mode = m[1], !.timestamp = m[2], !.offset = [kind |-> m[3], n |-> 1]]
  BY <1>1, <1>3, <1>4, Zenon DEF KafkaAbout, Of
<1>6. CASE \E k \in {1, 4} : r = [[blank EXCEPT !.profile = "dev.kafka"] EXCEPT !.topic = n, !.payload = k]
  BY <1>2, <1>6
<1>7. CASE \E m \in P : r = [[blank EXCEPT !.profile = "dev.kafka"] EXCEPT
                               !.topic = n, !.mode = m[1], !.timestamp = m[2], !.offset = [kind |-> m[3], n |-> 1]]
  BY <1>2, <1>7
<1> QED
  BY <1>5, <1>6, <1>7, Zenon

\* What the policy engine has looked at when it allows a call to a broker.
LEMMA MessagesAllowed ==
  ASSUME NEW tool, NEW r, Decision(tool, r) = Allow
  PROVE  /\ tool \in {"nats.request", "nats.publish"} =>
              argsAllowedBySubjectPolicy(Given(<<r.subject>>), session.meta)
         /\ tool = "kafka.produce" => argsAllowedByTopicPolicy(Given(<<r.topic>>), session.meta)
<1> SUFFICES ASSUME tool \in {"nats.request", "nats.publish", "kafka.produce"}
             PROVE  /\ tool \in {"nats.request", "nats.publish"} =>
                         argsAllowedBySubjectPolicy(Given(<<r.subject>>), session.meta)
                    /\ tool = "kafka.produce" => argsAllowedByTopicPolicy(Given(<<r.topic>>), session.meta)
  OBVIOUS
<1>1. tool \notin RolloutTools \cup SaturationTools \cup {"notify.escalation_channel"}
  BY DEF RolloutTools, SaturationTools
<1>2. /\ tool \in {"nats.request", "nats.publish"} => "subject" \in Fields(tool)
      /\ tool = "kafka.produce" => "topic" \in Fields(tool)
  BY SMT DEF Fields, ClusterAsked, GitReaders, GitWriters
<1>3. \A a, b, c, d, e, f, g, h, i :
        /\ [path |-> a, profile |-> b, subject |-> c, topic |-> d, queue |-> e, namespace |-> f,
            registry |-> g, arg |-> h, key |-> i].subject = c
        /\ [path |-> a, profile |-> b, subject |-> c, topic |-> d, queue |-> e, namespace |-> f,
            registry |-> g, arg |-> h, key |-> i].topic = d
  OBVIOUS
<1>4. Args(tool, r).subject = Given(<<r.subject>>) /\ Args(tool, r).topic = Given(<<r.topic>>)
  BY <1>3, Zenon DEF Args
<1>5. tool \in {"nats.request", "nats.publish"} => argsAllowedBySubjectPolicy(Given(<<r.subject>>), session.meta)
  BY <1>1, <1>2, <1>4, FieldsAllowed
<1>6. tool = "kafka.produce" => argsAllowedByTopicPolicy(Given(<<r.topic>>), session.meta)
  BY <1>1, <1>2, <1>4, FieldsAllowed
<1> QED
  BY <1>5, <1>6

\* A message on a subject that policy and profile allow.
LEMMA HeardIs ==
  ASSUME Services(world), NEW n, argsAllowedBySubjectPolicy(Given(<<n>>), session.meta),
         subjectAllowedByProfile(n, ProfileOf(session, "dev.nats"))
  PROVE  \A a : a.w = Heard(world, n) => MessagesRespect(a)
<1>1. PICK w2 : w2 = Heard(world, n)
  OBVIOUS
<1>2. Services(w2) /\ w2.kv = world.kv /\ w2.heard = world.heard \cup {n} /\ w2.topic = world.topic
  BY <1>1 DEF Heard, Services
<1>3. \A a : a.w = w2 => MessagesRespect(a)
  BY <1>2 DEF MessagesRespect
<1> QED
  BY <1>1, <1>3

\* nats.request and nats.publish.
LEMMA NatsWrites ==
  ASSUME Services(world), NEW tool \in {"nats.request", "nats.publish"}, NEW r \in NatsRequests(tool),
         Decision(tool, r) = Allow, NEW a \in Handler(tool, r)
  PROVE  MessagesRespect(a)
<1>1. r.profile = "dev.nats"
  BY NatsRequestIs
<1>2. argsAllowedBySubjectPolicy(Given(<<r.subject>>), session.meta)
  BY MessagesAllowed
<1>3. PICK ok \in BOOLEAN : ok = (r.subject # <<>>)
  OBVIOUS
<1>4. PICK within \in BOOLEAN : within = subjectAllowedByProfile(r.subject, ProfileOf(session, r.profile))
  BY DEF subjectAllowedByProfile
<1>5. ASSUME within, a.w = Heard(world, r.subject) PROVE MessagesRespect(a)
  <2>1. subjectAllowedByProfile(r.subject, ProfileOf(session, "dev.nats"))
    BY <1>1, <1>4, <1>5
  <2> QED
    BY <1>2, <1>5, <2>1, HeardIs
<1>6. ASSUME a.w = world PROVE MessagesRespect(a)
  BY <1>6, QuietRespects DEF Quiet
<1>7. CASE tool = "nats.publish"
  <2>1. PICK fits \in BOOLEAN : fits = PayloadFits(r.payload, r.maxBytes)
    BY DEF PayloadFits
  <2>2. Handler(tool, r) = NATSPublish(session, r, world)
    BY <1>7, Handlers
  <2>3. a \in Writing(session, r, world, ok, resolveNATSProfile(session, r.profile), within, fits,
                      Done(Heard(world, r.subject)))
    BY <1>3, <1>4, <2>1, <2>2, Zenon DEF NATSPublish
  <2>4. a.w = world \/ (within /\ a.w = Heard(world, r.subject))
    BY <2>3, WritingIs
  <2> QED
    BY <1>5, <1>6, <2>4
<1>8. CASE tool = "nats.request"
  <2>1. PICK read : read = Reading(session, r, world, ok, resolveNATSProfile(session, r.profile), within, {Done(world)})
    OBVIOUS
  <2>2. PICK heard : heard = Heard(world, r.subject)
    OBVIOUS
  <2>3. PICK replies : replies = {Answer(heard, <<Min({n, r.maxBytes})>>, <<n>>, n > r.maxBytes) : n \in world.sizes}
    OBVIOUS
  <2>4. PICK sent : sent = IF r.payload = BadPayload THEN {Failed(world, "invalid_argument")}
                           ELSE replies \cup {Failed(heard, "execution_failed"), Failed(world, "execution_failed")}
    OBVIOUS
  <2>5. Handler(tool, r) = NATSRequest(session, r, world)
    BY <1>8, Handlers
  <2>6. a \in IF Done(world) \in read THEN sent ELSE read
    BY <1>3, <1>4, <2>1, <2>2, <2>3, <2>4, <2>5, Zenon DEF NATSRequest
  <2>7. ASSUME NEW b \in read PROVE b.w = world /\ (b.code = "ok" => within)
    <3>1. \/ b.w = world /\ b.code # "ok" /\ Blind(b)
          \/ ok /\ resolveNATSProfile(session, r.profile) = "ok" /\ within /\ b \in {Done(world)}
      BY <2>1, <2>7, ReadingIs
    <3> QED
      BY <3>1, FailedIs
  <2>8. CASE Done(world) \in read /\ a \in sent
    <3>1. Done(world).code = "ok"
      BY FailedIs
    <3>2. within
      BY <2>7, <2>8, <3>1
    <3>3. \/ a = Failed(world, "invalid_argument") \/ a = Failed(heard, "execution_failed")
          \/ a = Failed(world, "execution_failed") \/ a \in replies
      BY <2>4, <2>8
    <3>4. \A b \in replies : b.w = heard
      <4>1. \A x, y, z : Answer(heard, x, y, z).w = heard
        BY AnswersKeepTheServices
      <4> QED
        BY <2>3, <4>1, Zenon
    <3>5. a.w = world \/ a.w = heard
      BY <3>3, <3>4, FailedIs
    <3> QED
      BY <1>5, <1>6, <2>2, <3>2, <3>5
  <2>9. CASE a \in read
    BY <1>6, <2>7, <2>9
  <2> QED
    BY <2>6, <2>8, <2>9
<1> QED
  BY <1>7, <1>8

\* kafka.produce.
LEMMA KafkaWrites ==
  ASSUME Services(world), NEW r \in KafkaRequests("kafka.produce"),
         Decision("kafka.produce", r) = Allow, NEW a \in Handler("kafka.produce", r)
  PROVE  MessagesRespect(a)
<1>1. r.profile = "dev.kafka" /\ r.topic \in DataNames.topics
  BY KafkaRequestIs
<1>2. argsAllowedByTopicPolicy(Given(<<r.topic>>), session.meta)
  BY MessagesAllowed
<1>3. PICK ok \in BOOLEAN : ok = (r.topic # <<>> /\ r.partition >= 0)
  OBVIOUS
<1>4. PICK within \in BOOLEAN : within = topicAllowedByProfile(r.topic, ProfileOf(session, r.profile))
  BY DEF topicAllowedByProfile
<1>5. PICK fits \in BOOLEAN : fits = (BadPayload \notin {r.keySize, r.payload}
                                      /\ r.keySize + r.payload <= r.maxBytes)
  OBVIOUS
<1>6. PICK w2 : w2 = [world EXCEPT !.topic[r.topic] = Append(@, [key |-> r.keySize, value |-> r.payload])]
  OBVIOUS
<1>7. Handler("kafka.produce", r) = KafkaProduce(session, r, world)
  BY Handlers
<1>8. a \in Writing(session, r, world, ok, resolveKafkaProfile(session, r.profile), within, fits, Done(w2))
  BY <1>3, <1>4, <1>5, <1>6, <1>7, Zenon DEF KafkaProduce
<1>9. a.w = world \/ (within /\ a.w = w2)
  BY <1>8, WritingIs
<1>10. CASE a.w = world
  BY <1>10, QuietRespects DEF Quiet
<1>11. CASE within /\ a.w = w2
  <2>1. Services(w2) /\ w2.kv = world.kv /\ w2.heard = world.heard
        /\ \A n \in DataNames.topics : w2.topic[n] # world.topic[n] => n = r.topic
    BY <1>1, <1>6 DEF Services
  <2>2. topicAllowedByProfile(r.topic, ProfileOf(session, "dev.kafka"))
    BY <1>1, <1>4, <1>11
  <2> QED
    BY <1>2, <1>11, <2>1, <2>2 DEF MessagesRespect
<1> QED
  BY <1>9, <1>10, <1>11

\* rabbit.publish.
LEMMA RabbitWrites ==
  ASSUME Services(world), NEW r, NEW a \in Handler("rabbit.publish", r)
  PROVE  MessagesRespect(a)
<1>1. PICK to : to = IF r.routing = <<>> THEN r.queue ELSE r.routing
  OBVIOUS
<1>2. PICK w2 : w2 = IF to \in DOMAIN world.queue
                     THEN [world EXCEPT !.queue[to] = Append(@, r.payload)] ELSE world
  OBVIOUS
<1>3. PICK ok \in BOOLEAN : ok = (r.queue # <<>>)
  OBVIOUS
<1>4. PICK within \in BOOLEAN : within = queueAllowedByProfile(r.queue, ProfileOf(session, r.profile))
  BY DEF queueAllowedByProfile
<1>5. PICK fits \in BOOLEAN : fits = PayloadFits(r.payload, r.maxBytes)
  BY DEF PayloadFits
<1>6. Handler("rabbit.publish", r) = RabbitPublish(session, r, world)
  BY Handlers
<1>7. a \in Writing(session, r, world, ok, resolveRabbitProfile(session, r.profile), within, fits, Done(w2))
  BY <1>1, <1>2, <1>3, <1>4, <1>5, <1>6, Zenon DEF RabbitPublish
<1>8. a.w = world \/ a.w = w2
  BY <1>7, WritingIs
<1>9. Quiet(world) /\ Quiet(w2)
  BY <1>2 DEF Quiet, Services
<1> QED
  BY <1>8, <1>9, QuietRespects

\* conn.list_profiles and conn.describe_profile.
LEMMA ConnReads ==
  ASSUME Services(world), NEW r, NEW tool \in {"conn.list_profiles", "conn.describe_profile"},
         NEW a \in Handler(tool, r)
  PROVE  MessagesRespect(a)
<1>1. CASE tool = "conn.list_profiles"
  <2>1. a = Done(world)
    BY <1>1, Handlers DEF ConnListProfiles
  <2> QED
    BY <2>1, FailedIs, QuietRespects DEF Quiet
<1>2. CASE tool = "conn.describe_profile"
  <2>1. a = Done(world) \/ \E c : a = Failed(world, c)
    <3>1. a \in ConnDescribeProfile(session, r, world)
      BY <1>2, Handlers
    <3> QED
      BY <3>1, Zenon DEF ConnDescribeProfile
  <2>2. a.w = world
    BY <2>1, FailedIs
  <2> QED
    BY <2>2, QuietRespects DEF Quiet
<1> QED
  BY <1>1, <1>2

\* Every tool of the brokers.
LEMMA MessagesHandled ==
  ASSUME Services(world), NEW tool, NEW r, Decision(tool, r) = Allow, NEW a \in Handler(tool, r),
         \/ tool \in {"nats.request", "nats.publish", "nats.subscribe_pull"} /\ r \in NatsRequests(tool)
         \/ tool \in {"kafka.consume", "kafka.produce", "kafka.topic_metadata"} /\ r \in KafkaRequests(tool)
         \/ tool \in {"rabbit.consume", "rabbit.publish", "rabbit.queue_info"}
         \/ tool \in {"mongo.find", "mongo.aggregate"}
         \/ tool \in {"conn.list_profiles", "conn.describe_profile"}
  PROVE  MessagesRespect(a)
<1>1. CASE tool \in {"nats.subscribe_pull", "kafka.consume", "kafka.topic_metadata", "rabbit.consume",
                     "rabbit.queue_info", "mongo.find", "mongo.aggregate"}
  <2>1. ReadsQuietly(a)
    BY <1>1, MessagesRead
  <2> QED
    BY <2>1, QuietReaders
<1>2. CASE tool \in {"nats.request", "nats.publish"}
  BY <1>2, NatsWrites
<1>3. CASE tool = "kafka.produce"
  BY <1>3, KafkaWrites
<1>4. CASE tool = "rabbit.publish"
  BY <1>4, RabbitWrites
<1>5. CASE tool \in {"conn.list_profiles", "conn.describe_profile"}
  BY <1>5, ConnReads
<1> QED
  BY <1>1, <1>2, <1>3, <1>4, <1>5

--------------------------------------------------------------------------------
(* The steps. *)

\* The inductive invariant: the last answer still tells only of what the session may see.
DataInv ==
  /\ session \in Sessions /\ Services(world)
  /\ session.focus = "redis" => \A k \in last.shown : KeyInScope(k)

\* A step that keeps it, and what it may do to the data services.
DataStep ==
  /\ DataInv'
  /\ session.focus = "redis" => \A k \in last'.shown : KeyInScope(k)
  /\ calls' # calls /\ last' # last =>
       /\ \A k \in Keys : world'.kv[k] # world.kv[k] => KeyInScope(k)
       /\ \A n \in world'.heard \ world.heard :
            /\ argsAllowedBySubjectPolicy(Given(<<n>>), session.meta)
            /\ subjectAllowedByProfile(n, ProfileOf(session, "dev.nats"))
       /\ \A n \in DataNames.topics : world'.topic[n] # world.topic[n] =>
            /\ argsAllowedByTopicPolicy(Given(<<n>>), session.meta)
            /\ topicAllowedByProfile(n, ProfileOf(session, "dev.kafka"))

\* The scope of a session does not change.
LEMMA ScopeStays ==
  ASSUME session' = session PROVE \A k : KeyInScope(k)' <=> KeyInScope(k)
BY DEF KeyInScope

\* What a step has to keep.
LEMMA InvariantKept ==
  ASSUME DataInv, session' = session, Services(world'),
         session.focus = "redis" => \A k \in last'.shown : KeyInScope(k)
  PROVE  DataInv'
BY ScopeStays DEF DataInv, Services

\* A step that leaves the services, and shows nothing new.
LEMMA Still ==
  ASSUME DataInv, session' = session, world' = world,
         last' = last \/ session.focus # "redis" \/ last'.shown = {}
  PROVE  DataStep
<1>1. session.focus = "redis" => \A k \in last'.shown : KeyInScope(k)
  BY DEF DataInv
<1>2. DataInv'
  BY <1>1, InvariantKept DEF DataInv
<1> QED
  BY <1>1, <1>2 DEF DataStep

\* A call that is refused.
LEMMA RefusedStill ==
  ASSUME DataInv, NEW tool, NEW r, Refused(tool, r) PROVE DataStep
<1>1. PICK code : code = Decision(tool, r)
  OBVIOUS
<1>2. last' = [NoAnswer EXCEPT !.tool = tool, !.code = code] /\ session' = session /\ world' = world
  BY <1>1 DEF Refused, Asked
<1>3. last'.shown = {}
  BY <1>2 DEF NoAnswer
<1> QED
  BY <1>2, <1>3, Still

\* What a call to a data tool leaves behind.
LEMMA CallIs ==
  ASSUME NEW tool, NEW r, CallData(tool, r)
  PROVE  /\ Decision(tool, r) = Allow /\ session' = session
         /\ \E a \in Handler(tool, r) : world' = a.w /\ last'.shown = Shown(tool, r, a)
<1>1. PICK a \in Handler(tool, r) :
        /\ world' = a.w
        /\ last' = [tool |-> tool, code |-> a.code, shown |-> Shown(tool, r, a), items |-> a.items,
                    fetched |-> a.fetched, truncated |-> a.truncated, budget |-> r.maxBytes,
                    cleaned |-> <<>>, refspec |-> NoAnswer.refspec]
  BY Zenon DEF CallData
<1>2. \A p, q, s, t, u, v, w, x, y : [tool |-> p, code |-> q, shown |-> s, items |-> t, fetched |-> u,
                                   truncated |-> v, budget |-> w, cleaned |-> x,
                                      refspec |-> y].shown = s
  OBVIOUS
<1>3. last'.shown = Shown(tool, r, a)
  BY <1>1, <1>2, Zenon
<1>4. Decision(tool, r) = Allow /\ session' = session
  BY Zenon DEF CallData, Asked
<1> QED
  BY <1>1, <1>3, <1>4

\* A call to Redis.
LEMMA RedisCalls ==
  ASSUME DataInv, NEW tool \in RedisTools, NEW r \in RedisRequests(tool), CallData(tool, r)
  PROVE  DataStep
<1>1. PICK a \in Handler(tool, r) : world' = a.w /\ last'.shown = Shown(tool, r, a)
  BY CallIs
<1>2. session' = session /\ Decision(tool, r) = Allow
  BY CallIs
<1>3. RedisRespects(tool, r, a)
  BY <1>2, RedisHandled DEF DataInv
<1>4. DataInv'
  BY <1>1, <1>2, <1>3, InvariantKept DEF RedisRespects
<1> QED
  BY <1>1, <1>3, <1>4 DEF RedisRespects, DataStep

\* A call to a broker.
LEMMA MessageCalls ==
  ASSUME DataInv, session.focus = "messages", NEW tool, NEW r, CallData(tool, r),
         \/ tool \in {"nats.request", "nats.publish", "nats.subscribe_pull"} /\ r \in NatsRequests(tool)
         \/ tool \in {"kafka.consume", "kafka.produce", "kafka.topic_metadata"} /\ r \in KafkaRequests(tool)
         \/ tool \in {"rabbit.consume", "rabbit.publish", "rabbit.queue_info"}
         \/ tool \in {"mongo.find", "mongo.aggregate"}
         \/ tool \in {"conn.list_profiles", "conn.describe_profile"}
  PROVE  DataStep
<1>1. PICK a \in Handler(tool, r) : world' = a.w
  BY CallIs
<1>2. session' = session /\ Decision(tool, r) = Allow
  BY CallIs
<1>3. MessagesRespect(a)
  BY <1>2, MessagesHandled DEF DataInv
<1>4. DataInv'
  BY <1>1, <1>2, <1>3, InvariantKept DEF MessagesRespect
<1> QED
  BY <1>1, <1>3, <1>4 DEF MessagesRespect, DataStep

\* What others do to the keys.
LEMMA KeysOfOthers ==
  ASSUME DataInv, NEW k \in Keys, KeySet(k) \/ KeyExpires(k) PROVE DataStep
<1>1. session' = session /\ last' = last
  BY DEF KeySet, KeyExpires
<1>2. Services(world')
  BY DEF KeySet, KeyExpires, DataInv, Services
<1>3. DataInv'
  BY <1>1, <1>2, InvariantKept DEF DataInv
<1> QED
  BY <1>1, <1>3 DEF DataStep, DataInv

\* Whatever the step.
LEMMA DataSteps ==
  ASSUME DataInv, [MCNext]_<<vars, lifeVars, buildVars>> PROVE DataStep
<1>1. CASE UNCHANGED callVars
  BY <1>1, Still DEF callVars
<1>2. CASE session.focus = "cluster" /\ ClusterNext
  <2>1. session' = session /\ world' = world
    BY <1>2, Zenon DEF ClusterNext, CallCluster, Refused, Asked
  <2> QED
    BY <1>2, <2>1, Still
<1>3. CASE session.focus = "git" /\ GitNext
  <2>1. session' = session /\ world' = world
    BY <1>3, Zenon DEF GitNext, CallGit, Refused, OthersPush, Asked
  <2> QED
    BY <1>3, <2>1, Still
<1>4. CASE RedisNext
  <2>1. CASE \E tool \in RedisTools : \E r \in RedisRequests(tool) : CallData(tool, r) \/ Refused(tool, r)
    BY <2>1, RedisCalls, RefusedStill
  <2>2. CASE \E k \in Keys : KeySet(k) \/ KeyExpires(k)
    BY <2>2, KeysOfOthers
  <2> QED
    BY <1>4, <2>1, <2>2 DEF RedisNext
<1>5. CASE session.focus = "messages" /\ MessageNext
  <2>1. PICK tool, r :
          /\ CallData(tool, r) \/ Refused(tool, r)
          /\ \/ tool \in {"nats.request", "nats.publish", "nats.subscribe_pull"} /\ r \in NatsRequests(tool)
             \/ tool \in {"kafka.consume", "kafka.produce", "kafka.topic_metadata"} /\ r \in KafkaRequests(tool)
             \/ tool \in {"rabbit.consume", "rabbit.publish", "rabbit.queue_info"}
             \/ tool \in {"mongo.find", "mongo.aggregate"}
             \/ tool \in {"conn.list_profiles", "conn.describe_profile"}
    BY <1>5, Zenon DEF MessageNext
  <2> QED
    BY <1>5, <2>1, MessageCalls, RefusedStill
<1>6. \/ UNCHANGED callVars \/ (session.focus = "cluster" /\ ClusterNext) \/ RedisNext
      \/ (session.focus = "messages" /\ MessageNext) \/ (session.focus = "git" /\ GitNext)
  <2>1. CASE UNCHANGED <<vars, lifeVars, buildVars>>
    BY <2>1 DEF vars
  <2>2. CASE MCNext
    BY <2>2, Zenon DEF MCNext, Next, vars
  <2> QED
    BY <2>1, <2>2
<1> QED
  BY <1>1, <1>2, <1>3, <1>4, <1>5, <1>6

\* The invariant holds in the initial states.
LEMMA DataStart == MCInit => DataInv
<1> SUFFICES ASSUME MCInit PROVE DataInv
  OBVIOUS
<1>1. session \in Sessions /\ last = NoAnswer
  BY DEF MCInit, Init
<1>2. PICK kv, expires, sizes, topic, queue, docs :
        /\ world = [kv |-> kv, expires |-> expires, heard |-> {}, sizes |-> sizes, topic |-> topic,
                    queue |-> queue, docs |-> docs]
        /\ kv = [k \in Keys |-> IF k \in SetKeys THEN 2 ELSE Missing]
        /\ topic = [n \in DataNames.topics |-> <<[key |-> 1, value |-> 1], [key |-> 2, value |-> 2]>>]
  BY Zenon DEF MCInit, Init
<1>3. DOMAIN world = {"kv", "expires", "heard", "sizes", "topic", "queue", "docs"}
      /\ world.kv = kv /\ world.topic = topic
  BY <1>2
<1>4. DOMAIN kv = Keys /\ DOMAIN topic = DataNames.topics
  BY <1>2
<1>5. last.shown = {}
  BY <1>1, Zenon DEF NoAnswer
<1> QED
  BY <1>1, <1>3, <1>4, <1>5 DEF DataInv, Services

\* policy/static_policy.go with the handlers of redis_tools.go, nats_tools.go and kafka_tools.go:
\* whatever the sequence of calls, an answer tells only of keys, and an effect is only on keys,
\* subjects and topics, that both the session's policy and the profile of the connection allow.
THEOREM CallsStayWithinScope == MCSpec => WithinScope
<1>1. MCInit => DataInv
  BY DataStart
<1>2. DataInv /\ [MCNext]_<<vars, lifeVars, buildVars>> => DataInv'
  BY DataSteps DEF DataStep
<1>3. DataInv /\ [MCNext]_<<vars, lifeVars, buildVars>> =>
        [/\ session.focus = "redis" => \A k \in last'.shown : KeyInScope(k)
         /\ calls' # calls /\ last' # last =>
              /\ \A k \in Keys : world'.kv[k] # world.kv[k] => KeyInScope(k)
              /\ \A n \in world'.heard \ world.heard :
                   /\ argsAllowedBySubjectPolicy(Given(<<n>>), session.meta)
                   /\ subjectAllowedByProfile(n, ProfileOf(session, "dev.nats"))
              /\ \A n \in DataNames.topics : world'.topic[n] # world.topic[n] =>
                   /\ argsAllowedByTopicPolicy(Given(<<n>>), session.meta)
                   /\ topicAllowedByProfile(n, ProfileOf(session, "dev.kafka"))]_vars
  <2> SUFFICES ASSUME DataInv, [MCNext]_<<vars, lifeVars, buildVars>>
               PROVE  /\ session.focus = "redis" => \A k \in last'.shown : KeyInScope(k)
                      /\ calls' # calls /\ last' # last =>
                           /\ \A k \in Keys : world'.kv[k] # world.kv[k] => KeyInScope(k)
                           /\ \A n \in world'.heard \ world.heard :
                                /\ argsAllowedBySubjectPolicy(Given(<<n>>), session.meta)
                                /\ subjectAllowedByProfile(n, ProfileOf(session, "dev.nats"))
                           /\ \A n \in DataNames.topics : world'.topic[n] # world.topic[n] =>
                                /\ argsAllowedByTopicPolicy(Given(<<n>>), session.meta)
                                /\ topicAllowedByProfile(n, ProfileOf(session, "dev.kafka"))
    OBVIOUS
  <2>1. DataStep
    BY DataSteps
  <2> QED
    BY <2>1 DEF DataStep
<1> QED
  BY <1>1, <1>2, <1>3, PTL DEF MCSpec, WithinScope

--------------------------------------------------------------------------------
(* The builds: the stages that a call has left. *)

AllStages == {"identify", "detect", "args", "resolve", "source", "requirements", "run", "prepare",
              "observe", "answer", "evaluate", "compile", "execute", "profile", "func", "rm", "remove",
              "validate", "build", "test", "static_analysis", "coverage", "finalize"}

Plan == Seq(AllStages)
Rest(s) == {s[i] : i \in 1 .. Len(s)}
Once(s) == \A i \in 1 .. Len(s), k \in 1 .. Len(s) : s[i] = s[k] => i = k

\* A file is read right after the call has written it.
WrittenFirst(s) ==
  \A i \in 1 .. Len(s) : \A k \in 1 .. Len(s) : k = i + 1 =>
    /\ s[k] = "func" => s[i] = "profile"
    /\ s[k] = "execute" => s[i] = "compile"

PipelineSteps == {"validate", "build", "test", "static_analysis", "coverage", "finalize"}

\* What is so of the stages of every call, from its start on.
Sound(r, s) ==
  /\ s \in Plan /\ s # <<>> /\ WrittenFirst(s)
  /\ "requirements" \in Rest(s) => Rest(s) \cap {"profile", "func"} = {}
  /\ IF r.tool = "ci.run_pipeline"
     THEN /\ Once(s) /\ Rest(s) \subseteq PipelineSteps \cup {"detect", "rm"}
          /\ s[Len(s)] = "finalize"
     ELSE Rest(s) \cap PipelineSteps = {}

\* The stage that a call is at, and those after it.
LEMMA PlanGoesOn ==
  ASSUME NEW s \in Plan, s # <<>>
  PROVE  /\ Tail(s) \in Plan /\ Len(s) \in Nat \ {0}
         /\ Rest(s) = {Head(s)} \cup Rest(Tail(s))
         /\ Len(s) = 1 => Rest(s) = {Head(s)}
         /\ Head(s) = s[1] /\ (Len(s) # 1 => Tail(s)[Len(Tail(s))] = s[Len(s)])
         /\ Len(s) # 1 => Tail(s) # <<>>
         /\ Once(s) => Once(Tail(s)) /\ Head(s) \notin Rest(Tail(s))
         /\ WrittenFirst(s) => WrittenFirst(Tail(s))
         /\ WrittenFirst(s) /\ Len(s) # 1 =>
              /\ Head(Tail(s)) = "func" => Head(s) = "profile"
              /\ Head(Tail(s)) = "execute" => Head(s) = "compile"
<1>1. Len(s) \in Nat \ {0} /\ Head(s) = s[1]
  BY EmptySeq, LenProperties, HeadTailProperties DEF Plan
<1>2. PICK t : t = Tail(s)
  OBVIOUS
<1>3. t \in Plan /\ Len(t) = Len(s) - 1 /\ \A i \in 1 .. Len(t) : t[i] = s[i + 1]
  BY <1>2, HeadTailProperties DEF Plan
<1>4. Len(t) \in Nat
  BY <1>1, <1>3
<1>5. \A i \in 1 .. Len(t) : i + 1 \in 1 .. Len(s)
  BY <1>1, <1>3
<1>6. \A k \in 1 .. Len(s) : k = 1 \/ (k - 1 \in 1 .. Len(t) /\ (k - 1) + 1 = k)
  BY <1>1, <1>3
<1>7. Rest(s) = {Head(s)} \cup Rest(t)
  <2>1. ASSUME NEW x \in Rest(s) PROVE x \in {Head(s)} \cup Rest(t)
    <3>1. PICK k \in 1 .. Len(s) : x = s[k]
      BY <2>1 DEF Rest
    <3>2. CASE k = 1
      BY <1>1, <3>1, <3>2
    <3>3. CASE k # 1
      <4>1. PICK i : i = k - 1
        OBVIOUS
      <4>2. i \in 1 .. Len(t) /\ i + 1 = k
        BY <1>6, <3>3, <4>1
      <4>3. x = t[i]
        BY <1>3, <3>1, <4>2
      <4> QED
        BY <4>2, <4>3 DEF Rest
    <3> QED
      BY <3>2, <3>3
  <2>2. Head(s) \in Rest(s)
    BY <1>1 DEF Rest
  <2>3. \A x \in Rest(t) : x \in Rest(s)
    BY <1>3, <1>5 DEF Rest
  <2> QED
    BY <2>1, <2>2, <2>3
<1>8. ASSUME Len(s) = 1 PROVE Rest(s) = {Head(s)}
  BY <1>1, <1>8 DEF Rest
<1>9. ASSUME Len(s) # 1 PROVE t # <<>> /\ Head(t) = s[2]
  <2>1. Len(t) # 0
    BY <1>1, <1>3, <1>9
  <2>2. t # <<>>
    BY <2>1
  <2>3. Head(t) = t[1] /\ 1 \in 1 .. Len(t)
    BY <1>3, <1>4, <2>1, <2>2, HeadTailProperties DEF Plan
  <2> QED
    BY <1>3, <2>2, <2>3
<1>10. ASSUME Once(s) PROVE Once(t) /\ Head(s) \notin Rest(t)
  <2>1. ASSUME NEW i \in 1 .. Len(t), NEW k \in 1 .. Len(t), t[i] = t[k] PROVE i = k
    <3>1. s[i + 1] = s[k + 1] /\ i + 1 \in 1 .. Len(s) /\ k + 1 \in 1 .. Len(s)
      BY <1>3, <1>5, <2>1
    <3>2. i + 1 = k + 1
      BY <1>10, <3>1 DEF Once
    <3> QED
      BY <1>4, <3>2
  <2>2. ASSUME NEW i \in 1 .. Len(t), t[i] = Head(s) PROVE FALSE
    <3>1. s[i + 1] = s[1] /\ i + 1 \in 1 .. Len(s) /\ 1 \in 1 .. Len(s)
      BY <1>1, <1>3, <1>5, <2>2
    <3>2. i + 1 = 1
      BY <1>10, <3>1 DEF Once
    <3> QED
      BY <1>4, <3>2
  <2> QED
    BY <2>1, <2>2 DEF Once, Rest
<1>11. ASSUME WrittenFirst(s) PROVE WrittenFirst(t)
  <2> SUFFICES ASSUME NEW i \in 1 .. Len(t), NEW k \in 1 .. Len(t), k = i + 1
               PROVE  (t[k] = "func" => t[i] = "profile") /\ (t[k] = "execute" => t[i] = "compile")
    BY DEF WrittenFirst
  <2>1. i + 1 \in 1 .. Len(s) /\ k + 1 \in 1 .. Len(s) /\ k + 1 = (i + 1) + 1
    BY <1>5
  <2>2. t[i] = s[i + 1] /\ t[k] = s[k + 1]
    BY <1>3
  <2>3. /\ s[k + 1] = "func" => s[i + 1] = "profile"
        /\ s[k + 1] = "execute" => s[i + 1] = "compile"
    BY <1>11, <2>1 DEF WrittenFirst
  <2> QED
    BY <2>2, <2>3
<1>12. ASSUME WrittenFirst(s), Len(s) # 1
       PROVE  (s[2] = "func" => s[1] = "profile") /\ (s[2] = "execute" => s[1] = "compile")
  <2>0. Len(s) # 1
    BY <1>12
  <2>1. 1 \in 1 .. Len(s) /\ 2 \in 1 .. Len(s) /\ 2 = 1 + 1
    BY <1>1, <2>0
  <2> QED
    BY <1>12, <2>1 DEF WrittenFirst
<1>13. ASSUME Len(s) # 1 PROVE t[Len(t)] = s[Len(s)]
  <2>1. Len(t) \in 1 .. Len(t) /\ Len(t) + 1 = Len(s)
    BY <1>1, <1>3, <1>13
  <2> QED
    BY <1>3, <2>1
<1> QED
  BY <1>1, <1>2, <1>3, <1>13, <1>7, <1>8, <1>9, <1>10, <1>11, <1>12

\* The stages that are left are sound, too; only the last one of a pipeline ends it.
LEMMA SoundGoesOn ==
  ASSUME NEW r, NEW s, Sound(r, s)
  PROVE  /\ Head(s) \in Rest(s) /\ Len(s) \in Nat \ {0}
         /\ Rest(s) = {Head(s)} \cup Rest(Tail(s))
         /\ Len(s) # 1 => Sound(r, Tail(s))
         /\ Len(s) # 1 =>
              /\ Head(Tail(s)) = "func" => Head(s) = "profile"
              /\ Head(Tail(s)) = "execute" => Head(s) = "compile"
         /\ r.tool = "ci.run_pipeline" =>
              Head(s) \notin Rest(Tail(s)) /\ (Len(s) = 1 <=> Head(s) = "finalize")
<1>0. s \in Plan /\ s # <<>> /\ WrittenFirst(s)
  BY DEF Sound
<1>1. PICK t : t = Tail(s)
  OBVIOUS
<1>2. /\ t \in Plan /\ Len(s) \in Nat \ {0} /\ Rest(s) = {Head(s)} \cup Rest(t)
      /\ Head(s) = s[1] /\ (Len(s) # 1 => t # <<>> /\ t[Len(t)] = s[Len(s)])
      /\ (Once(s) => Once(t) /\ Head(s) \notin Rest(t))
      /\ WrittenFirst(t)
      /\ (Len(s) # 1 => (Head(t) = "func" => Head(s) = "profile")
                        /\ (Head(t) = "execute" => Head(s) = "compile"))
  BY <1>0, <1>1, PlanGoesOn
<1>3. ASSUME Len(s) # 1 PROVE Sound(r, t)
  <2>1. CASE r.tool = "ci.run_pipeline"
    BY <1>2, <1>3, <2>1 DEF Sound
  <2>2. CASE r.tool # "ci.run_pipeline"
    BY <1>2, <1>3, <2>2 DEF Sound
  <2> QED
    BY <2>1, <2>2
<1>4. ASSUME r.tool = "ci.run_pipeline"
      PROVE  Head(s) \notin Rest(t) /\ (Len(s) = 1 <=> Head(s) = "finalize")
  <2>1. Once(s) /\ s[Len(s)] = "finalize"
    BY <1>4 DEF Sound
  <2>2. ASSUME s[1] = "finalize" PROVE Len(s) = 1
    <3>1. 1 \in 1 .. Len(s) /\ Len(s) \in 1 .. Len(s)
      BY <1>2
    <3>2. s[1] = s[Len(s)]
      BY <2>1, <2>2
    <3> QED
      BY <2>1, <3>1, <3>2 DEF Once
  <2> QED
    BY <1>2, <2>1, <2>2
<1> QED
  BY <1>1, <1>2, <1>3, <1>4

\* Lists of stages, one by one.
LEMMA Lists ==
  \A a, b, c, d :
    /\ <<a>> # <<>> /\ Rest(<<a>>) = {a} /\ Head(<<a>>) = a
    /\ <<a, b>> # <<>> /\ Rest(<<a, b>>) = {a, b} /\ Head(<<a, b>>) = a
    /\ <<a, b, c>> # <<>> /\ Rest(<<a, b, c>>) = {a, b, c} /\ Head(<<a, b, c>>) = a
    /\ <<a, b, c, d>> # <<>> /\ Rest(<<a, b, c, d>>) = {a, b, c, d} /\ Head(<<a, b, c, d>>) = a
<1>1. \A a, b, c, d : /\ Rest(<<a>>) = {a} /\ Rest(<<a, b>>) = {a, b} /\ Rest(<<a, b, c>>) = {a, b, c}
                      /\ Rest(<<a, b, c, d>>) = {a, b, c, d}
  BY DEF Rest
<1>2. \A a, b, c, d : /\ <<a>> # <<>> /\ <<a, b>> # <<>> /\ <<a, b, c>> # <<>> /\ <<a, b, c, d>> # <<>>
  OBVIOUS
<1>3. \A a, b, c, d : /\ Head(<<a>>) = a /\ Head(<<a, b>>) = a /\ Head(<<a, b, c>>) = a
                      /\ Head(<<a, b, c, d>>) = a
  OBVIOUS
<1> QED
  BY <1>1, <1>2, <1>3

\* Stages that read no file.
LEMMA NoFileRead ==
  ASSUME NEW s, Rest(s) \cap {"func", "execute"} = {} PROVE WrittenFirst(s)
BY DEF WrittenFirst, Rest

\* Lists put together.
LEMMA Joined ==
  ASSUME NEW s \in Plan, NEW t \in Plan, Once(s), Once(t), Rest(s) \cap Rest(t) = {}
  PROVE  /\ s \o t \in Plan /\ Once(s \o t) /\ Rest(s \o t) = Rest(s) \cup Rest(t)
         /\ s # <<>> => s \o t # <<>> /\ Head(s \o t) = Head(s)
         /\ t # <<>> => s \o t # <<>> /\ (s \o t)[Len(s \o t)] = t[Len(t)]
<1>1. PICK u : u = s \o t
  OBVIOUS
<1>2. /\ u \in Plan /\ Len(u) = Len(s) + Len(t)
      /\ \A i \in 1 .. Len(u) : u[i] = IF i <= Len(s) THEN s[i] ELSE t[i - Len(s)]
  BY <1>1, ConcatProperties DEF Plan
<1>3. Len(s) \in Nat /\ Len(t) \in Nat /\ Len(u) \in Nat
  BY <1>2, LenProperties DEF Plan
<1>4. ASSUME NEW i \in 1 .. Len(u)
      PROVE  \/ i \in 1 .. Len(s) /\ u[i] = s[i] /\ u[i] \in Rest(s)
             \/ i - Len(s) \in 1 .. Len(t) /\ u[i] = t[i - Len(s)] /\ u[i] \in Rest(t)
  <2>1. CASE i <= Len(s)
    <3>1. i \in 1 .. Len(s) /\ u[i] = s[i]
      BY <1>2, <1>3, <2>1
    <3> QED
      BY <3>1 DEF Rest
  <2>2. CASE ~(i <= Len(s))
    <3>1. i - Len(s) \in 1 .. Len(t) /\ u[i] = t[i - Len(s)]
      BY <1>2, <1>3, <2>2
    <3> QED
      BY <3>1 DEF Rest
  <2> QED
    BY <2>1, <2>2
<1>5. Rest(u) = Rest(s) \cup Rest(t)
  <2>1. ASSUME NEW x \in Rest(u) PROVE x \in Rest(s) \cup Rest(t)
    BY <1>4, <2>1 DEF Rest
  <2>2. ASSUME NEW x \in Rest(s) PROVE x \in Rest(u)
    <3>1. PICK i \in 1 .. Len(s) : x = s[i]
      BY <2>2 DEF Rest
    <3>2. i \in 1 .. Len(u) /\ u[i] = s[i]
      BY <1>2, <1>3, <3>1
    <3> QED
      BY <3>1, <3>2 DEF Rest
  <2>3. ASSUME NEW x \in Rest(t) PROVE x \in Rest(u)
    <3>1. PICK i \in 1 .. Len(t) : x = t[i]
      BY <2>3 DEF Rest
    <3>2. PICK k : k = i + Len(s)
      OBVIOUS
    <3>3. k \in 1 .. Len(u) /\ ~(k <= Len(s)) /\ k - Len(s) = i
      BY <1>2, <1>3, <3>2
    <3>4. u[k] = t[i]
      BY <1>2, <3>3
    <3> QED
      BY <3>1, <3>3, <3>4 DEF Rest
  <2> QED
    BY <2>1, <2>2, <2>3
<1>6. Once(u)
  <2> SUFFICES ASSUME NEW i \in 1 .. Len(u), NEW k \in 1 .. Len(u), u[i] = u[k] PROVE i = k
    BY DEF Once
  <2>1. CASE i \in 1 .. Len(s) /\ u[i] = s[i] /\ u[i] \in Rest(s)
    <3>1. k \in 1 .. Len(s) /\ u[k] = s[k]
      BY <1>4, <2>1
    <3> QED
      BY <2>1, <3>1 DEF Once
  <2>2. CASE i - Len(s) \in 1 .. Len(t) /\ u[i] = t[i - Len(s)] /\ u[i] \in Rest(t)
    <3>1. k - Len(s) \in 1 .. Len(t) /\ u[k] = t[k - Len(s)]
      BY <1>4, <2>2
    <3>2. i - Len(s) = k - Len(s)
      BY <2>2, <3>1 DEF Once
    <3> QED
      BY <1>3, <3>2
  <2> QED
    BY <1>4, <2>1, <2>2
<1>7. ASSUME s # <<>> PROVE u # <<>> /\ Head(u) = Head(s)
  <2>1. Len(s) # 0
    BY <1>7, EmptySeq DEF Plan
  <2>2. 1 \in 1 .. Len(u) /\ u[1] = s[1] /\ Len(u) # 0
    BY <1>2, <1>3, <2>1
  <2>3. u # <<>>
    BY <2>2
  <2> QED
    BY <1>2, <1>7, <2>2, <2>3, HeadTailProperties DEF Plan
<1>8. ASSUME t # <<>> PROVE u # <<>> /\ u[Len(u)] = t[Len(t)]
  <2>1. Len(t) # 0
    BY <1>8, EmptySeq DEF Plan
  <2>2. PICK n : n = Len(u)
    OBVIOUS
  <2>3. n \in 1 .. Len(u) /\ ~(n <= Len(s)) /\ n - Len(s) = Len(t) /\ n # 0
    BY <1>2, <1>3, <2>1, <2>2
  <2>4. u[n] = t[Len(t)]
    BY <1>2, <2>3
  <2>5. u # <<>>
    BY <2>2, <2>3
  <2> QED
    BY <2>2, <2>4, <2>5
<1> QED
  BY <1>1, <1>2, <1>5, <1>6, <1>7, <1>8

\* The lists of the tools other than the pipeline.
Lined ==
  {<<"identify">>, <<"run">>, <<"answer">>, <<"evaluate">>, <<"args", "run">>,
   <<"detect", "resolve", "run">>, <<"args", "source", "run">>, <<"args", "source", "compile">>,
   <<"detect", "args", "resolve", "run">>, <<"detect", "resolve", "prepare", "run">>,
   <<"args", "prepare", "requirements", "run">>, <<"detect", "args", "resolve", "observe">>}
Written ==
  {<<"args", "source", "compile", "execute">>, <<"args", "profile", "func", "remove">>,
   <<"detect", "profile", "func", "rm">>}

\* The stages of each tool.
LEMMA StagesAre ==
  ASSUME NEW r, r.tool \in Build!Tools
  PROVE  /\ r.tool # "ci.run_pipeline" => Build!Stages(r) \in Lined \cup Written
         /\ r.tool = "ci.run_pipeline" => Build!Stages(r) = Build!CIRunPipeline(r)
<1>1. /\ r.tool \in {"repo.detect_project_type", "repo.detect_toolchain"} => Build!Stages(r) = Build!RepoDetect
      /\ r.tool = "repo.validate" => Build!Stages(r) = Build!RepoValidate
      /\ r.tool = "repo.build" => Build!Stages(r) = Build!RepoBuild
      /\ r.tool \in {"repo.run_tests", "repo.test"} => Build!Stages(r) = Build!RepoRunTests
      /\ r.tool = "repo.static_analysis" => Build!Stages(r) = Build!RepoStaticAnalysis
      /\ r.tool = "repo.package" => Build!Stages(r) = Build!RepoPackage
      /\ r.tool = "go.mod.tidy" => Build!Stages(r) = Build!GoModTidy
      /\ r.tool = "go.generate" => Build!Stages(r) = Build!GoGenerate
      /\ r.tool = "go.build" => Build!Stages(r) = Build!GoBuild
      /\ r.tool \in {"rust.build", "rust.test", "rust.clippy", "rust.format"} => Build!Stages(r) = Build!RustTools
      /\ r.tool \in {"node.install", "node.build", "node.test", "node.lint", "node.typecheck"} =>
           Build!Stages(r) = Build!NodeTools
      /\ r.tool = "python.install_deps" => Build!Stages(r) = Build!PythonInstallDeps
      /\ r.tool = "python.validate" => Build!Stages(r) = Build!PythonValidate
      /\ r.tool = "python.test" => Build!Stages(r) = Build!PythonTest
      /\ r.tool = "c.build" => Build!Stages(r) = Build!CBuild
      /\ r.tool = "c.test" => Build!Stages(r) = Build!CTest(r)
      /\ r.tool = "repo.test_failures_summary" => Build!Stages(r) = Build!RepoTestFailuresSummary(r)
      /\ r.tool = "repo.stacktrace_summary" => Build!Stages(r) = Build!RepoStacktraceSummary(r)
      /\ r.tool = "go.test" => Build!Stages(r) = Build!GoTest(r)
      /\ r.tool = "quality.gate" => Build!Stages(r) = Build!QualityGate
      /\ r.tool = "repo.coverage_report" => Build!Stages(r) = Build!RepoCoverageReport
      /\ r.tool = "ci.run_pipeline" => Build!Stages(r) = Build!CIRunPipeline(r)
  <2>1. r.tool \in {"repo.detect_project_type", "repo.detect_toolchain"} =>
          Build!Stages(r) = Build!RepoDetect
    BY SMT DEF Build!Stages
  <2>2. r.tool = "repo.validate" =>
          Build!Stages(r) = Build!RepoValidate
    BY SMT DEF Build!Stages
  <2>3. r.tool = "repo.build" =>
          Build!Stages(r) = Build!RepoBuild
    BY SMT DEF Build!Stages
  <2>4. r.tool \in {"repo.run_tests", "repo.test"} =>
          Build!Stages(r) = Build!RepoRunTests
    BY SMT DEF Build!Stages
  <2>5. r.tool = "repo.static_analysis" =>
          Build!Stages(r) = Build!RepoStaticAnalysis
    BY SMT DEF Build!Stages
  <2>6. r.tool = "repo.package" =>
          Build!Stages(r) = Build!RepoPackage
    BY SMT DEF Build!Stages
  <2>7. r.tool = "go.mod.tidy" =>
          Build!Stages(r) = Build!GoModTidy
    BY SMT DEF Build!Stages
  <2>8. r.tool = "go.generate" =>
          Build!Stages(r) = Build!GoGenerate
    BY SMT DEF Build!Stages
  <2>9. r.tool = "go.build" =>
          Build!Stages(r) = Build!GoBuild
    BY SMT DEF Build!Stages
  <2>10. r.tool \in {"rust.build", "rust.test", "rust.clippy", "rust.format"} =>
          Build!Stages(r) = Build!RustTools
    BY SMT DEF Build!Stages
  <2>11. r.tool \in {"node.install", "node.build", "node.test", "node.lint", "node.typecheck"} =>
          Build!Stages(r) = Build!NodeTools
    BY SMT DEF Build!Stages
  <2>12. r.tool = "python.install_deps" =>
          Build!Stages(r) = Build!PythonInstallDeps
    BY SMT DEF Build!Stages
  <2>13. r.tool = "python.validate" =>
          Build!Stages(r) = Build!PythonValidate
    BY SMT DEF Build!Stages
  <2>14. r.tool = "python.test" =>
          Build!Stages(r) = Build!PythonTest
    BY SMT DEF Build!Stages
  <2>15. r.tool = "c.build" =>
          Build!Stages(r) = Build!CBuild
    BY SMT DEF Build!Stages
  <2>16. r.tool = "c.test" =>
          Build!Stages(r) = Build!CTest(r)
    BY SMT DEF Build!Stages
  <2>17. r.tool = "repo.test_failures_summary" =>
          Build!Stages(r) = Build!RepoTestFailuresSummary(r)
    BY SMT DEF Build!Stages
  <2>18. r.tool = "repo.stacktrace_summary" =>
          Build!Stages(r) = Build!RepoStacktraceSummary(r)
    BY SMT DEF Build!Stages
  <2>19. r.tool = "go.test" =>
          Build!Stages(r) = Build!GoTest(r)
    BY SMT DEF Build!Stages
  <2>20. r.tool = "quality.gate" =>
          Build!Stages(r) = Build!QualityGate
    BY SMT DEF Build!Stages
  <2>21. r.tool = "repo.coverage_report" =>
          Build!Stages(r) = Build!RepoCoverageReport
    BY SMT DEF Build!Stages
  <2>22. r.tool = "ci.run_pipeline" =>
          Build!Stages(r) = Build!CIRunPipeline(r)
    BY SMT DEF Build!Stages
  <2> QED
    BY <2>1, <2>2, <2>3, <2>4, <2>5, <2>6, <2>7, <2>8, <2>9, <2>10, <2>11,
       <2>12, <2>13, <2>14, <2>15, <2>16, <2>17, <2>18, <2>19, <2>20, <2>21, <2>22
<1>2. /\ Build!RepoDetect \in Lined \cup Written /\ Build!RepoValidate \in Lined \cup Written
      /\ Build!RepoBuild \in Lined \cup Written /\ Build!RepoRunTests \in Lined \cup Written
      /\ Build!RepoStaticAnalysis \in Lined \cup Written /\ Build!RepoPackage \in Lined \cup Written
      /\ Build!GoModTidy \in Lined \cup Written /\ Build!GoGenerate \in Lined \cup Written
      /\ Build!GoBuild \in Lined \cup Written /\ Build!RustTools \in Lined \cup Written
      /\ Build!NodeTools \in Lined \cup Written /\ Build!PythonInstallDeps \in Lined \cup Written
  BY Zenon DEF Lined, Written, Build!RepoDetect, Build!RepoValidate, Build!RepoBuild, Build!RepoRunTests,
         Build!RepoStaticAnalysis, Build!RepoPackage, Build!GoModTidy, Build!GoGenerate, Build!GoBuild,
         Build!RustTools, Build!NodeTools, Build!PythonInstallDeps
<1>3. /\ Build!PythonValidate \in Lined \cup Written /\ Build!PythonTest \in Lined \cup Written
      /\ Build!CBuild \in Lined \cup Written /\ Build!CTest(r) \in Lined \cup Written
      /\ Build!RepoTestFailuresSummary(r) \in Lined \cup Written
      /\ Build!RepoStacktraceSummary(r) \in Lined \cup Written
      /\ Build!GoTest(r) \in Lined \cup Written /\ Build!QualityGate \in Lined \cup Written
      /\ Build!RepoCoverageReport \in Lined \cup Written
  BY Zenon DEF Lined, Written, Build!PythonValidate, Build!PythonTest, Build!CBuild, Build!CTest,
         Build!RepoTestFailuresSummary, Build!RepoStacktraceSummary, Build!runRepoTestsForAnalysis,
         Build!GoTest, Build!QualityGate, Build!RepoCoverageReport
<1> QED
  BY <1>1, <1>2, <1>3 DEF Build!Tools

\* The lists of the pipeline.
LEMMA PipelineIs ==
  ASSUME NEW r
  PROVE  /\ Build!CIRunPipeline(r) \in Plan /\ Once(Build!CIRunPipeline(r)) /\ Build!CIRunPipeline(r) # <<>>
         /\ Rest(Build!CIRunPipeline(r)) \subseteq PipelineSteps \cup {"detect", "rm"}
         /\ Head(Build!CIRunPipeline(r)) = "detect"
         /\ Build!CIRunPipeline(r)[Len(Build!CIRunPipeline(r))] = "finalize"
         /\ {"validate", "build", "test"} \subseteq Rest(Build!CIRunPipeline(r))
         /\ r.static => "static_analysis" \in Rest(Build!CIRunPipeline(r))
<1>1. PICK a : a = <<"detect", "validate", "build", "test">>
  OBVIOUS
<1>2. PICK b : b = IF r.static THEN <<"static_analysis">> ELSE <<>>
  OBVIOUS
<1>3. PICK c : c = IF ~r.coverage THEN <<>>
                   ELSE IF project = "go" THEN <<"coverage", "rm">> ELSE <<"coverage">>
  OBVIOUS
<1>4. PICK d : d = <<"finalize">>
  OBVIOUS
<1>5. Build!CIRunPipeline(r) = ((a \o b) \o c) \o d
  BY <1>1, <1>2, <1>3, <1>4, Zenon DEF Build!CIRunPipeline
<1>6. \A x, y : /\ Once(<<>>) /\ Once(<<x>>) /\ (x # y => Once(<<x, y>>)) /\ Rest(<<>>) = {}
  BY DEF Once, Rest
<1>7. <<>> \in Plan
  BY EmptySeq DEF Plan
<1>8. /\ a \in Plan /\ Rest(a) = {"detect", "validate", "build", "test"} /\ a # <<>> /\ Head(a) = "detect"
      /\ Once(a)
  <2>1. Once(a)
    BY <1>1 DEF Once
  <2>2. a \in Plan
    BY <1>1 DEF Plan, AllStages
  <2> QED
    BY <1>1, <2>1, <2>2, Lists
<1>9. b \in Plan /\ Once(b) /\ Rest(b) \subseteq {"static_analysis"} /\ (r.static => Rest(b) = {"static_analysis"})
  <2>1. CASE r.static
    <3>1. b = <<"static_analysis">>
      BY <1>2, <2>1
    <3>2. b \in Plan
      BY <3>1 DEF Plan, AllStages
    <3> QED
      BY <1>6, <3>1, <3>2, Lists
  <2>2. CASE ~r.static
    <3>1. b = <<>>
      BY <1>2, <2>2
    <3> QED
      BY <1>6, <1>7, <2>2, <3>1
  <2> QED
    BY <2>1, <2>2
<1>10. c \in Plan /\ Once(c) /\ Rest(c) \subseteq {"coverage", "rm"}
  <2>1. c = <<>> \/ c = <<"coverage", "rm">> \/ c = <<"coverage">>
    BY <1>3
  <2>2. CASE c = <<>>
    BY <1>6, <1>7, <2>2
  <2>3. CASE c = <<"coverage", "rm">>
    <3>1. c \in Plan
      BY <2>3 DEF Plan, AllStages
    <3>2. Rest(c) = {"coverage", "rm"}
      BY <2>3, Lists, Zenon
    <3>3. Once(c)
      BY <1>6, <2>3
    <3> QED
      BY <3>1, <3>2, <3>3
  <2>4. CASE c = <<"coverage">>
    <3>1. c \in Plan
      BY <2>4 DEF Plan, AllStages
    <3>2. Rest(c) = {"coverage"}
      BY <2>4, Lists, Zenon
    <3>3. Once(c)
      BY <1>6, <2>4, Zenon
    <3> QED
      BY <3>1, <3>2, <3>3
  <2> QED
    BY <2>1, <2>2, <2>3, <2>4
<1>11. d \in Plan /\ Once(d) /\ Rest(d) = {"finalize"} /\ d # <<>> /\ d[Len(d)] = "finalize"
  <2>1. d \in Plan
    BY <1>4 DEF Plan, AllStages
  <2>2. d[Len(d)] = "finalize"
    BY <1>4
  <2> QED
    BY <1>4, <1>6, <2>1, <2>2, Lists
<1>12. PICK ab : ab = a \o b
  OBVIOUS
<1>13. ab \in Plan /\ Once(ab) /\ Rest(ab) = Rest(a) \cup Rest(b) /\ ab # <<>> /\ Head(ab) = "detect"
  <2>1. Rest(a) \cap Rest(b) = {}
    BY <1>8, <1>9
  <2> QED
    BY <1>8, <1>9, <1>12, <2>1, Joined
<1>14. PICK abc : abc = ab \o c
  OBVIOUS
<1>15. abc \in Plan /\ Once(abc) /\ Rest(abc) = Rest(ab) \cup Rest(c) /\ abc # <<>> /\ Head(abc) = "detect"
  <2>1. Rest(ab) \cap Rest(c) = {}
    BY <1>8, <1>9, <1>10, <1>13
  <2> QED
    BY <1>10, <1>13, <1>14, <2>1, Joined
<1>16. PICK l : l = abc \o d
  OBVIOUS
<1>17. l \in Plan /\ Once(l) /\ Rest(l) = Rest(abc) \cup Rest(d) /\ l # <<>> /\ Head(l) = "detect"
       /\ l[Len(l)] = "finalize"
  <2>1. Rest(abc) \cap Rest(d) = {}
    BY <1>8, <1>9, <1>10, <1>11, <1>13, <1>15
  <2> QED
    BY <1>11, <1>15, <1>16, <2>1, Joined
<1>18. Build!CIRunPipeline(r) = l
  BY <1>5, <1>12, <1>14, <1>16
<1>19. Rest(l) \subseteq PipelineSteps \cup {"detect", "rm"}
  BY <1>8, <1>9, <1>10, <1>11, <1>13, <1>15, <1>17 DEF PipelineSteps
<1> QED
  BY <1>8, <1>9, <1>13, <1>15, <1>17, <1>18, <1>19

\* A call starts with sound stages.
LEMMA StartsSound ==
  ASSUME NEW r, r.tool \in Build!Tools
  PROVE  /\ Sound(r, Build!Stages(r)) /\ Head(Build!Stages(r)) \notin {"func", "execute"}
         /\ r.tool = "ci.run_pipeline" =>
              /\ {"validate", "build", "test"} \subseteq Rest(Build!Stages(r))
              /\ r.static => "static_analysis" \in Rest(Build!Stages(r))
<1>1. PICK s : s = Build!Stages(r)
  OBVIOUS
<1>2. CASE r.tool = "ci.run_pipeline"
  <2>1. s = Build!CIRunPipeline(r)
    BY <1>1, <1>2, StagesAre
  <2>2. /\ s \in Plan /\ Once(s) /\ s # <<>> /\ Rest(s) \subseteq PipelineSteps \cup {"detect", "rm"}
        /\ Head(s) = "detect" /\ s[Len(s)] = "finalize" /\ {"validate", "build", "test"} \subseteq Rest(s)
        /\ r.static => "static_analysis" \in Rest(s)
    BY <2>1, PipelineIs
  <2>3. /\ Rest(s) \cap {"func", "execute"} = {} /\ "requirements" \notin Rest(s)
    BY <2>2 DEF PipelineSteps
  <2>4. WrittenFirst(s)
    BY <2>3, NoFileRead
  <2> QED
    BY <1>1, <1>2, <2>2, <2>3, <2>4 DEF Sound
<1>3. CASE r.tool # "ci.run_pipeline" /\ s \in Lined
  <2>1. /\ s \in Plan /\ s # <<>> /\ Head(s) \in Rest(s) /\ Rest(s) \cap PipelineSteps = {}
        /\ Rest(s) \cap {"func", "execute", "profile"} = {}
    <3>1. PICK x, y, z, u : /\ {x, y, z, u} \cap ({"func", "execute", "profile"} \cup PipelineSteps) = {}
                            /\ s \in {<<x>>, <<x, y>>, <<x, y, z>>, <<x, y, z, u>>}
                            /\ {x, y, z, u} \subseteq AllStages
      <4>1. CASE s \in {<<"identify">>, <<"run">>, <<"answer">>, <<"evaluate">>, <<"args", "run">>}
        BY <4>1 DEF PipelineSteps, AllStages
      <4>2. CASE s \in {<<"detect", "resolve", "run">>, <<"args", "source", "run">>,
                        <<"args", "source", "compile">>}
        BY <4>2 DEF PipelineSteps, AllStages
      <4>3. CASE s \in {<<"detect", "args", "resolve", "run">>, <<"detect", "resolve", "prepare", "run">>,
                        <<"args", "prepare", "requirements", "run">>, <<"detect", "args", "resolve", "observe">>}
        BY <4>3 DEF PipelineSteps, AllStages
      <4> QED
        BY <1>3, <4>1, <4>2, <4>3 DEF Lined
    <3>2. \A S : \A i, j, k, l \in S : /\ <<i>> \in Seq(S) /\ <<i, j>> \in Seq(S) /\ <<i, j, k>> \in Seq(S)
                                       /\ <<i, j, k, l>> \in Seq(S)
      OBVIOUS
    <3>3. s \in Plan
      <4>0. x \in AllStages /\ y \in AllStages /\ z \in AllStages /\ u \in AllStages
        BY <3>1
      <4>1. /\ <<x>> \in Seq(AllStages) /\ <<x, y>> \in Seq(AllStages) /\ <<x, y, z>> \in Seq(AllStages)
            /\ <<x, y, z, u>> \in Seq(AllStages)
        BY <3>2, <4>0, Zenon
      <4> QED
        BY <3>1, <4>1 DEF Plan
    <3>4. /\ s # <<>> /\ Head(s) = x /\ x \in Rest(s) /\ Rest(s) \subseteq {x, y, z, u}
      <4>1. CASE s = <<x>>
        BY <4>1, Lists
      <4>2. CASE s = <<x, y>>
        BY <4>2, Lists
      <4>3. CASE s = <<x, y, z>>
        BY <4>3, Lists
      <4>4. CASE s = <<x, y, z, u>>
        BY <4>4, Lists
      <4> QED
        BY <3>1, <4>1, <4>2, <4>3, <4>4
    <3> QED
      BY <3>1, <3>3, <3>4
  <2>2. WrittenFirst(s)
    BY <2>1, NoFileRead
  <2> QED
    BY <1>1, <1>3, <2>1, <2>2 DEF Sound
<1>4. CASE r.tool # "ci.run_pipeline" /\ s \in Written
  <2>1. /\ s \in Plan /\ s # <<>> /\ Rest(s) \cap PipelineSteps = {} /\ "requirements" \notin Rest(s)
        /\ Head(s) \in {"args", "detect"}
    <3>1. s \in Plan
      <4>1. <<"args", "source", "compile", "execute">> \in Plan
        BY DEF Plan, AllStages
      <4>2. <<"args", "profile", "func", "remove">> \in Plan
        BY DEF Plan, AllStages
      <4>3. <<"detect", "profile", "func", "rm">> \in Plan
        BY DEF Plan, AllStages
      <4> QED
        BY <1>4, <4>1, <4>2, <4>3 DEF Written
    <3>2. CASE s = <<"args", "source", "compile", "execute">>
      BY <3>1, <3>2, Lists DEF PipelineSteps
    <3>3. CASE s = <<"args", "profile", "func", "remove">>
      BY <3>1, <3>3, Lists DEF PipelineSteps
    <3>4. CASE s = <<"detect", "profile", "func", "rm">>
      BY <3>1, <3>4, Lists DEF PipelineSteps
    <3> QED
      BY <1>4, <3>2, <3>3, <3>4 DEF Written
  <2>2. WrittenFirst(s)
    BY <1>4 DEF Written, WrittenFirst
  <2> QED
    BY <1>1, <1>4, <2>1, <2>2 DEF Sound
<1> QED
  BY <1>1, <1>2, <1>3, <1>4, StagesAre

--------------------------------------------------------------------------------
(* The builds: the steps that a pipeline tells of. *)

StepSet == (AllStages \cup {"quality_gate"}) \X {"succeeded", "failed", "skipped"}

NoneFailed(steps) == \A i \in 1 .. Len(steps) : steps[i][2] # "failed"
LastIs(steps, name) ==
  \E m \in 1 .. Len(steps) : /\ steps[m] = <<name, "failed">>
                             /\ \A i \in 1 .. Len(steps) : i > m => steps[i][2] # "failed"
OnlyLast(steps) == \A i \in 1 .. Len(steps) : steps[i][2] = "failed" => i = Len(steps)
Names(steps) == {steps[i][1] : i \in 1 .. Len(steps)}

\* A step is added to the list.
LEMMA OneMore ==
  ASSUME NEW s \in Seq(StepSet), NEW e \in StepSet
  PROVE  /\ Append(s, e) \in Seq(StepSet)
         /\ e[2] # "failed" /\ NoneFailed(s) => NoneFailed(Append(s, e))
         /\ \A n : e[2] # "failed" /\ LastIs(s, n) => LastIs(Append(s, e), n)
         /\ \A n : e = <<n, "failed">> => LastIs(Append(s, e), n)
         /\ NoneFailed(s) => OnlyLast(Append(s, e))
         /\ Names(Append(s, e)) = Names(s) \cup {e[1]}
<1>1. PICK t : t = Append(s, e)
  OBVIOUS
<1>2. Len(s) \in Nat
  BY LenProperties
<1>3. PICK n : n = Len(s)
  OBVIOUS
<1>4. t \in Seq(StepSet) /\ Len(t) = n + 1 /\ (\A i \in 1 .. n : t[i] = s[i]) /\ t[n + 1] = e
  BY <1>1, <1>3, AppendProperties
<1>5. \A i \in 1 .. n + 1 : i \in 1 .. n \/ i = n + 1
  BY <1>2, <1>3
<1>6. \A i \in 1 .. n : i \in 1 .. n + 1 /\ i < n + 1
  BY <1>2, <1>3
<1>7. n + 1 \in 1 .. n + 1
  BY <1>2, <1>3
<1>8. ASSUME e[2] # "failed", NoneFailed(s) PROVE NoneFailed(t)
  BY <1>3, <1>4, <1>5, <1>8 DEF NoneFailed
<1>9. ASSUME NEW x, e[2] # "failed", LastIs(s, x) PROVE LastIs(t, x)
  <2>1. PICK m \in 1 .. n : s[m] = <<x, "failed">> /\ \A i \in 1 .. n : i > m => s[i][2] # "failed"
    BY <1>3, <1>9 DEF LastIs
  <2>2. m \in 1 .. Len(t) /\ t[m] = <<x, "failed">>
    BY <1>4, <1>6, <2>1
  <2>3. ASSUME NEW i \in 1 .. Len(t), i > m PROVE t[i][2] # "failed"
    <3>1. CASE i \in 1 .. n
      BY <1>4, <2>1, <2>3, <3>1
    <3>2. CASE i = n + 1
      BY <1>4, <1>9, <3>2
    <3> QED
      BY <1>4, <1>5, <2>3, <3>1, <3>2
  <2> QED
    BY <2>2, <2>3 DEF LastIs
<1>10. ASSUME NEW x, e = <<x, "failed">> PROVE LastIs(t, x)
  <2>1. n + 1 \in 1 .. Len(t) /\ t[n + 1] = <<x, "failed">>
    BY <1>4, <1>7, <1>10
  <2>2. \A i \in 1 .. Len(t) : ~(i > n + 1)
    BY <1>2, <1>3, <1>4
  <2> QED
    BY <2>1, <2>2 DEF LastIs
<1>11. ASSUME NoneFailed(s) PROVE OnlyLast(t)
  BY <1>3, <1>4, <1>5, <1>11 DEF NoneFailed, OnlyLast
<1>12. Names(t) = Names(s) \cup {e[1]}
  <2>1. ASSUME NEW x \in Names(t) PROVE x \in Names(s) \cup {e[1]}
    BY <1>3, <1>4, <1>5, <2>1 DEF Names
  <2>2. ASSUME NEW x \in Names(s) PROVE x \in Names(t)
    BY <1>3, <1>4, <1>6, <2>2 DEF Names
  <2>3. e[1] \in Names(t)
    BY <1>4, <1>7 DEF Names
  <2> QED
    BY <2>1, <2>2, <2>3
<1> QED
  BY <1>1, <1>4, <1>8, <1>9, <1>10, <1>11, <1>12

\* The list at the start.
LEMMA NoSteps ==
  /\ <<>> \in Seq(StepSet) /\ NoneFailed(<<>>) /\ Names(<<>>) = {}
<1>1. <<>> \in Seq(StepSet)
  BY EmptySeq
<1>2. Len(<<>>) = 0
  OBVIOUS
<1> QED
  BY <1>1, <1>2 DEF NoneFailed, Names

--------------------------------------------------------------------------------
(* The builds: what is so of a call. *)

JobFields == {"pc", "ask", "todo", "err", "steps", "failed", "metrics", "passed", "ruled", "from",
              "beside", "broken", "measured"}

IsCI(j) == j.ask.tool = "ci.run_pipeline"

Typed(j) ==
  /\ DOMAIN j = JobFields /\ j.pc \in {"idle", "running", "done"} /\ j.steps \in Seq(StepSet)
  /\ j.ask.tool \in Build!Tools \cup {""}
  /\ j.ask.limits.cover \in Int /\ j.ask.limits.diags \in Int

Fresh(j) ==
  /\ j.err = "" /\ j.steps = <<>> /\ j.failed = "" /\ j.from = {} /\ j.broken = {} /\ j.measured = {}
  /\ DOMAIN j.metrics = {"cover", "diags", "tests"} /\ j.metrics.cover = 0 /\ j.metrics.diags \in Int

\* What failed is named.
FailuresTold(j) ==
  /\ j.failed = "" => NoneFailed(j.steps)
  /\ j.failed # "" => LastIs(j.steps, j.failed) /\ j.err # "" /\ IsCI(j)
  /\ j.failed # "" /\ (j.ask.failFast \/ j.failed = "quality_gate") =>
       OnlyLast(j.steps) /\ j.pc = "done"

\* A pipeline that has not ended: its steps are listed or left, its numbers are measured.
Going(j) ==
  /\ j.err = "" <=> j.failed = ""
  /\ {"validate", "build", "test"} \subseteq Rest(j.todo) \cup Names(j.steps)
  /\ j.ask.static => "static_analysis" \in Rest(j.todo) \cup Names(j.steps)
  /\ DOMAIN j.metrics = {"cover", "diags", "tests"} /\ j.metrics.diags \in Int
  /\ j.metrics.cover = 0 \/ <<"coverage", j.metrics.cover>> \in j.measured
  /\ \A e \in j.measured : e[1] = "static_analysis" =>
       e[2] = j.metrics.diags /\ "static_analysis" \notin Rest(j.todo)

Underway(j) ==
  /\ Sound(j.ask, j.todo)
  /\ "requirements" \in Rest(j.todo) => j.err = ""
  /\ IsCI(j) => Going(j)

\* Whether what broke is told of.
Clean(j) == j.err = "" \/ j.failed = "quality_gate" => Build!Broken(j) = {}

Almost(c, j) ==
  /\ Typed(j) /\ FailuresTold(j) /\ j.from \subseteq {c} \cup j.beside
  /\ j.pc = "idle" => Fresh(j)
  /\ j.pc = "running" => Underway(j)
  /\ j.pc = "done" /\ IsCI(j) /\ j.err = "" => Build!PipelineEarned(j)

Well(c, j) == Almost(c, j) /\ Clean(j)

\* What a stage leaves of a call, whatever it does.
Kin(j, k) == DOMAIN k = JobFields /\ k.ask = j.ask /\ k.beside = j.beside

--------------------------------------------------------------------------------
(* The builds: what a stage makes of a call. *)

\* What going on changes.
LEMMA GoOnIs ==
  ASSUME NEW j, DOMAIN j = JobFields
  PROVE  LET g == Build!GoOn(j)
         IN  /\ Kin(j, g) /\ g.todo = Tail(j.todo) /\ g.pc = IF Len(j.todo) = 1 THEN "done" ELSE j.pc
             /\ g.err = j.err /\ g.steps = j.steps /\ g.failed = j.failed /\ g.metrics = j.metrics
             /\ g.from = j.from /\ g.broken = j.broken /\ g.measured = j.measured
BY DEF Build!GoOn, JobFields, Kin

\* What a command leaves of the rest of a call.
Alike(j, x) ==
  /\ Kin(j, x) /\ x.pc = j.pc /\ x.todo = j.todo /\ x.err = j.err /\ x.steps = j.steps
  /\ x.failed = j.failed

\* What a stage may do to a call other than a pipeline.
LEMMA PlainWell ==
  ASSUME NEW c, NEW j, Almost(c, j), j.pc = "running", ~IsCI(j), NEW g, Kin(j, g),
         g.pc \in {"running", "done"}, g.steps = j.steps, g.failed = j.failed,
         g.from \subseteq {c} \cup j.beside,
         g.pc = "running" => Sound(j.ask, g.todo) /\ ("requirements" \in Rest(g.todo) => g.err = ""),
         g.err = "" => Build!Broken(g) = {}
  PROVE  Well(c, g)
<1>1. Typed(j) /\ FailuresTold(j)
  BY Zenon DEF Almost
<1>2. g.ask = j.ask /\ g.beside = j.beside /\ DOMAIN g = JobFields /\ ~IsCI(g)
  BY Zenon DEF Kin, IsCI
<1>3. Typed(g)
  BY <1>1, <1>2, Zenon DEF Typed
<1>4. j.failed = "" /\ NoneFailed(j.steps)
  BY <1>1, Zenon DEF FailuresTold
<1>5. FailuresTold(g)
  BY <1>4, Zenon DEF FailuresTold
<1>6. g.pc = "running" => Underway(g)
  BY <1>2, Zenon DEF Underway
<1>7. Clean(g)
  BY <1>4, Zenon DEF Clean
<1> QED
  BY <1>2, <1>3, <1>5, <1>6, <1>7, Zenon DEF Well, Almost

\* What broke before, and what a call lives with, is no reason for an error.
LEMMA StillClean ==
  ASSUME NEW j, Clean(j), j.err = "", NEW g, g.ask = j.ask,
         g.broken \subseteq j.broken \cup Build!Dispensable(j)
  PROVE  Build!Broken(g) = {}
<1>1. Build!Broken(j) = {}
  BY Zenon DEF Clean
<1>2. Build!Dispensable(g) = Build!Dispensable(j)
  BY Zenon DEF Build!Dispensable
<1> QED
  BY <1>1, <1>2, Zenon DEF Build!Broken

\* The next stage of such a call.
LEMMA PlainGoesOn ==
  ASSUME NEW c, NEW j, Well(c, j), j.pc = "running", ~IsCI(j), NEW g, Kin(j, g),
         g.todo = Tail(j.todo), g.pc = IF Len(j.todo) = 1 THEN "done" ELSE j.pc,
         g.steps = j.steps, g.failed = j.failed, g.from \subseteq {c} \cup j.beside,
         g.err = j.err \/ (g.err # "" /\ "requirements" \notin Rest(j.todo)),
         g.err = "" => g.broken \subseteq j.broken \cup Build!Dispensable(j)
  PROVE  /\ Well(c, g)
         /\ g.pc = "running" => (Head(g.todo) = "func" => Head(j.todo) = "profile")
                                /\ (Head(g.todo) = "execute" => Head(j.todo) = "compile")
<1>1. Almost(c, j) /\ Clean(j) /\ Underway(j)
  BY Zenon DEF Well, Almost
<1>2. Sound(j.ask, j.todo) /\ ("requirements" \in Rest(j.todo) => j.err = "")
  BY <1>1, Zenon DEF Underway
<1>3. PICK s : s = j.todo
  BY Zenon
<1>4. /\ Len(s) \in Nat \ {0} /\ Rest(s) = {Head(s)} \cup Rest(Tail(s))
      /\ Len(s) # 1 => Sound(j.ask, Tail(s))
      /\ Len(s) # 1 => (Head(Tail(s)) = "func" => Head(s) = "profile")
                       /\ (Head(Tail(s)) = "execute" => Head(s) = "compile")
  BY <1>2, <1>3, SoundGoesOn, Zenon
<1>5. g.err = "" => Build!Broken(g) = {}
  BY <1>1, StillClean, Zenon DEF Kin
<1>6. ASSUME g.pc = "running" PROVE Len(s) # 1
  BY <1>3, <1>6, Zenon
<1>7. g.pc = "running" => Sound(j.ask, g.todo) /\ ("requirements" \in Rest(g.todo) => g.err = "")
  BY <1>2, <1>3, <1>4, <1>6, Zenon
<1>8. Well(c, g)
  BY <1>1, <1>5, <1>7, PlainWell, Zenon
<1> QED
  BY <1>3, <1>4, <1>6, <1>8, Zenon

\* The end of such a call.
LEMMA PlainReturns ==
  ASSUME NEW c, NEW j, Well(c, j), j.pc = "running", ~IsCI(j), NEW g, Kin(j, g), g.pc = "done",
         g.steps = j.steps, g.failed = j.failed, g.from \subseteq {c} \cup j.beside,
         g.err # "" \/ (j.err = "" /\ g.broken = j.broken)
  PROVE  Well(c, g)
<1>1. Almost(c, j) /\ Clean(j)
  BY Zenon DEF Well
<1>2. g.err = "" => Build!Broken(g) = {}
  BY <1>1, StillClean, Zenon DEF Kin
<1> QED
  BY <1>1, <1>2, PlainWell, Zenon

--------------------------------------------------------------------------------
(* The builds: what a stage makes of a pipeline. *)

\* What is so of the stage that a call is at.
LEMMA StageOf ==
  ASSUME NEW c, NEW j, Well(c, j), j.pc = "running"
  PROVE  /\ Head(j.todo) \in Rest(j.todo)
         /\ IsCI(j) => Head(j.todo) \in PipelineSteps \cup {"detect", "rm"}
         /\ ~IsCI(j) => Head(j.todo) \notin PipelineSteps
         /\ Head(j.todo) = "requirements" => j.err = ""
         /\ Head(j.todo) \in {"profile", "func"} => "requirements" \notin Rest(j.todo)
<1>1. Underway(j)
  BY DEF Well, Almost
<1>2. Sound(j.ask, j.todo) /\ ("requirements" \in Rest(j.todo) => j.err = "")
  BY <1>1, Zenon DEF Underway
<1>3. Head(j.todo) \in Rest(j.todo)
  BY <1>2, SoundGoesOn, Zenon
<1> QED
  BY <1>2, <1>3, Zenon DEF Sound, IsCI

\* What is so of the stages of a pipeline.
LEMMA PipelineAt ==
  ASSUME NEW c, NEW j, Well(c, j), j.pc = "running", IsCI(j)
  PROVE  /\ Typed(j) /\ FailuresTold(j) /\ Clean(j) /\ Going(j) /\ j.from \subseteq {c} \cup j.beside
         /\ Sound(j.ask, j.todo) /\ Len(j.todo) \in Nat \ {0}
         /\ Rest(j.todo) = {Head(j.todo)} \cup Rest(Tail(j.todo)) /\ Head(j.todo) \notin Rest(Tail(j.todo))
         /\ Len(j.todo) = 1 <=> Head(j.todo) = "finalize"
         /\ Head(j.todo) # "finalize" =>
              /\ Sound(j.ask, Tail(j.todo)) /\ Head(Tail(j.todo)) \notin {"func", "execute"}
              /\ "requirements" \notin Rest(Tail(j.todo))
         /\ j.failed # "" => ~j.ask.failFast /\ j.failed # "quality_gate"
<1>1. Almost(c, j) /\ Clean(j) /\ Underway(j)
  BY DEF Well, Almost
<1>2. Typed(j) /\ FailuresTold(j) /\ j.from \subseteq {c} \cup j.beside
  BY <1>1 DEF Almost
<1>3. Sound(j.ask, j.todo) /\ Going(j)
  BY <1>1, Zenon DEF Underway
<1>4. PICK s : s = j.todo
  OBVIOUS
<1>5. /\ Len(s) \in Nat \ {0} /\ Rest(s) = {Head(s)} \cup Rest(Tail(s)) /\ Head(s) \notin Rest(Tail(s))
      /\ Len(s) = 1 <=> Head(s) = "finalize"
      /\ Len(s) # 1 => Sound(j.ask, Tail(s))
  BY <1>3, <1>4, SoundGoesOn DEF IsCI
<1>6. ASSUME Head(s) # "finalize"
      PROVE  Head(Tail(s)) \notin {"func", "execute"} /\ "requirements" \notin Rest(Tail(s))
  <2>1. Sound(j.ask, Tail(s))
    BY <1>5, <1>6
  <2>2. Head(Tail(s)) \in Rest(Tail(s))
    BY <2>1, SoundGoesOn
  <2>3. Rest(Tail(s)) \subseteq PipelineSteps \cup {"detect", "rm"}
    BY <2>1 DEF Sound, IsCI
  <2> QED
    BY <2>2, <2>3 DEF PipelineSteps
<1>7. j.failed # "" => ~j.ask.failFast /\ j.failed # "quality_gate"
  BY <1>2, Zenon DEF FailuresTold
<1> QED
  BY <1>1, <1>2, <1>3, <1>4, <1>5, <1>6, <1>7, Zenon

\* A stage that is not a step of the pipeline leaves what was told.
LEMMA PipelineGoesOn ==
  ASSUME NEW c, NEW j, Well(c, j), j.pc = "running", IsCI(j), Head(j.todo) \in {"detect", "rm"},
         NEW g, Kin(j, g), g.todo = Tail(j.todo), g.pc = IF Len(j.todo) = 1 THEN "done" ELSE j.pc,
         g.err = j.err, g.steps = j.steps, g.failed = j.failed, g.metrics = j.metrics,
         g.from = j.from, g.broken = j.broken, g.measured = j.measured
  PROVE  Well(c, g) /\ (g.pc = "running" => Head(g.todo) \notin {"func", "execute"})
<1>1. PICK s : s = j.todo
  OBVIOUS
<1>2. PICK t : t = Tail(s)
  OBVIOUS
<1>3. /\ Typed(j) /\ FailuresTold(j) /\ Clean(j) /\ Going(j) /\ j.from \subseteq {c} \cup j.beside
      /\ Rest(s) = {Head(s)} \cup Rest(t) /\ Len(s) # 1
      /\ Sound(j.ask, t) /\ Head(t) \notin {"func", "execute"} /\ "requirements" \notin Rest(t)
  BY <1>1, <1>2, PipelineAt, Zenon
<1>4. g.ask = j.ask /\ g.beside = j.beside /\ DOMAIN g = JobFields /\ IsCI(g) /\ g.pc = "running" /\ g.todo = t
  BY <1>1, <1>2, <1>3 DEF Kin, IsCI
<1>5. Typed(g)
  BY <1>3, <1>4, Zenon DEF Typed
<1>6. FailuresTold(g)
  BY <1>3, <1>4, Zenon DEF FailuresTold
<1>7. Clean(g)
  BY <1>3, <1>4, Zenon DEF Clean, Build!Broken, Build!Dispensable
<1>8. {"validate", "build", "test", "static_analysis"} \cap Rest(s) =
        {"validate", "build", "test", "static_analysis"} \cap Rest(t)
  BY <1>1, <1>3
<1>9. Going(g)
  <2>1. /\ j.err = "" <=> j.failed = ""
        /\ {"validate", "build", "test"} \subseteq Rest(s) \cup Names(j.steps)
        /\ j.ask.static => "static_analysis" \in Rest(s) \cup Names(j.steps)
        /\ DOMAIN j.metrics = {"cover", "diags", "tests"} /\ j.metrics.diags \in Int
        /\ j.metrics.cover = 0 \/ <<"coverage", j.metrics.cover>> \in j.measured
        /\ \A e \in j.measured : e[1] = "static_analysis" =>
             e[2] = j.metrics.diags /\ "static_analysis" \notin Rest(s)
    BY <1>1, <1>3 DEF Going
  <2>2. /\ {"validate", "build", "test"} \subseteq Rest(t) \cup Names(j.steps)
        /\ j.ask.static => "static_analysis" \in Rest(t) \cup Names(j.steps)
        /\ "static_analysis" \notin Rest(s) => "static_analysis" \notin Rest(t)
    BY <1>3, <1>8, <2>1
  <2> QED
    BY <1>4, <2>1, <2>2 DEF Going
<1> QED
  BY <1>3, <1>4, <1>5, <1>6, <1>7, <1>9, Zenon DEF Well, Almost, Underway

\* The end of a pipeline before its last step.
LEMMA PipelineReturns ==
  ASSUME NEW c, NEW j, Well(c, j), j.pc = "running", IsCI(j), NEW g, Kin(j, g), g.pc = "done", g.err # "",
         \/ g.steps = j.steps /\ g.failed = j.failed
         \/ g.steps = <<>> /\ g.failed = "",
         g.from = j.from
  PROVE  Well(c, g)
<1>1. /\ Typed(j) /\ FailuresTold(j) /\ j.from \subseteq {c} \cup j.beside
      /\ j.failed # "" => ~j.ask.failFast /\ j.failed # "quality_gate"
  BY PipelineAt, Zenon
<1>2. g.ask = j.ask /\ g.beside = j.beside /\ DOMAIN g = JobFields /\ IsCI(g)
  BY Zenon DEF Kin, IsCI
<1>3. Typed(g)
  BY <1>1, <1>2, NoSteps, Zenon DEF Typed
<1>4. FailuresTold(g)
  BY <1>1, <1>2, NoSteps, Zenon DEF FailuresTold
<1>5. Clean(g)
  BY <1>1, Zenon DEF Clean
<1> QED
  BY <1>1, <1>2, <1>3, <1>4, <1>5, Zenon DEF Well, Almost

\* What a step of a pipeline does: it is listed with how it went.
Listed(j, g, v) ==
  /\ Kin(j, g) /\ g.todo = Tail(j.todo) /\ g.steps = Append(j.steps, <<Head(j.todo), v>>)
  /\ g.pc = IF v = "failed" /\ j.ask.failFast THEN "done"
            ELSE IF Len(j.todo) = 1 THEN "done" ELSE j.pc
  /\ v # "failed" => g.err = j.err /\ g.failed = j.failed /\ g.broken = j.broken
  /\ v = "failed" => g.err # "" /\ g.failed = Head(j.todo)
  /\ g.from = j.from
  /\ DOMAIN g.metrics = {"cover", "diags", "tests"} /\ g.metrics.diags \in Int
  /\ g.metrics.cover = 0 \/ <<"coverage", g.metrics.cover>> \in g.measured
  /\ \A e \in g.measured : e[1] = "static_analysis" =>
       e[2] = g.metrics.diags /\ "static_analysis" \notin Rest(Tail(j.todo))

\* A pipeline after one of its steps.
LEMMA StepListed ==
  ASSUME NEW c, NEW j, Well(c, j), j.pc = "running", IsCI(j), Head(j.todo) \in PipelineSteps \ {"finalize"},
         NEW v \in {"succeeded", "failed", "skipped"}, NEW g, Listed(j, g, v)
  PROVE  Well(c, g) /\ (g.pc = "running" => Head(g.todo) \notin {"func", "execute"})
<1>0. /\ Kin(j, g) /\ g.todo = Tail(j.todo) /\ g.steps = Append(j.steps, <<Head(j.todo), v>>)
      /\ g.pc = IF v = "failed" /\ j.ask.failFast THEN "done"
                ELSE IF Len(j.todo) = 1 THEN "done" ELSE j.pc
      /\ v # "failed" => g.err = j.err /\ g.failed = j.failed /\ g.broken = j.broken
      /\ v = "failed" => g.err # "" /\ g.failed = Head(j.todo)
      /\ g.from = j.from
      /\ DOMAIN g.metrics = {"cover", "diags", "tests"} /\ g.metrics.diags \in Int
      /\ g.metrics.cover = 0 \/ <<"coverage", g.metrics.cover>> \in g.measured
      /\ \A e \in g.measured : e[1] = "static_analysis" =>
           e[2] = g.metrics.diags /\ "static_analysis" \notin Rest(Tail(j.todo))
  BY Zenon DEF Listed
<1>1. PICK h : h = Head(j.todo)
  OBVIOUS
<1>2. PICK t : t = Tail(j.todo)
  OBVIOUS
<1>3. /\ Typed(j) /\ FailuresTold(j) /\ Clean(j) /\ Going(j) /\ j.from \subseteq {c} \cup j.beside
      /\ Rest(j.todo) = {h} \cup Rest(t) /\ Len(j.todo) # 1
      /\ Sound(j.ask, t) /\ Head(t) \notin {"func", "execute"} /\ "requirements" \notin Rest(t)
      /\ j.failed # "" => ~j.ask.failFast /\ j.failed # "quality_gate"
  BY <1>0, <1>1, <1>2, PipelineAt, Zenon
<1>4. g.ask = j.ask /\ g.beside = j.beside /\ DOMAIN g = JobFields /\ IsCI(g) /\ g.todo = t
  BY <1>0, <1>1, <1>2, <1>3, Zenon DEF Kin, IsCI
<1>5. PICK e : e = <<h, v>>
  OBVIOUS
<1>6. e \in StepSet /\ e[1] = h /\ e[2] = v /\ h \notin {"", "quality_gate"} /\ j.steps \in Seq(StepSet)
  BY <1>0, <1>1, <1>3, <1>5, Zenon DEF StepSet, PipelineSteps, AllStages, Typed
<1>7. /\ g.steps \in Seq(StepSet) /\ Names(g.steps) = Names(j.steps) \cup {h}
      /\ v # "failed" /\ NoneFailed(j.steps) => NoneFailed(g.steps)
      /\ v # "failed" /\ LastIs(j.steps, j.failed) => LastIs(g.steps, j.failed)
      /\ v = "failed" => LastIs(g.steps, h)
      /\ NoneFailed(j.steps) => OnlyLast(g.steps)
  <2>1. PICK s : s = j.steps
    OBVIOUS
  <2>2. g.steps = Append(s, e) /\ s \in Seq(StepSet)
    BY <1>0, <1>1, <1>5, <1>6, <2>1, Zenon
  <2>3. /\ Append(s, e) \in Seq(StepSet)
        /\ e[2] # "failed" /\ NoneFailed(s) => NoneFailed(Append(s, e))
        /\ NoneFailed(s) => OnlyLast(Append(s, e))
        /\ Names(Append(s, e)) = Names(s) \cup {e[1]}
    BY <1>0, <1>6, <2>2, OneMore, Zenon
  <2>4. e[2] # "failed" /\ LastIs(s, j.failed) => LastIs(Append(s, e), j.failed)
    BY <1>0, <1>6, <2>2, OneMore, Zenon
  <2>5. e = <<h, "failed">> => LastIs(Append(s, e), h)
    BY <1>0, <1>6, <2>2, OneMore, Zenon
  <2> QED
    BY <1>0, <1>5, <1>6, <2>1, <2>2, <2>3, <2>4, <2>5, Zenon
<1>8. g.pc \in {"running", "done"} /\ (g.pc = "done" => v = "failed")
  BY <1>0, <1>3, Zenon
<1>9. Typed(g)
  BY <1>0, <1>3, <1>4, <1>7, <1>8, Zenon DEF Typed
<1>10. CASE v # "failed"
  <2>1. FailuresTold(g)
    BY <1>0, <1>3, <1>4, <1>7, <1>8, <1>10, Zenon DEF FailuresTold
  <2>2. Clean(g)
    BY <1>0, <1>3, <1>4, <1>10, Zenon DEF Clean, Build!Broken, Build!Dispensable
  <2>3. Going(g)
    BY <1>0, <1>1, <1>2, <1>3, <1>4, <1>7, <1>10, Zenon DEF Going
  <2> QED
    BY <1>0, <1>3, <1>4, <1>8, <1>9, <1>10, <2>1, <2>2, <2>3, Zenon DEF Well, Almost, Underway
<1>11. CASE v = "failed"
  <2>1. j.ask.failFast => NoneFailed(j.steps) /\ g.pc = "done"
    BY <1>0, <1>3, <1>11, Zenon DEF FailuresTold
  <2>2. FailuresTold(g)
    BY <1>0, <1>1, <1>4, <1>6, <1>7, <1>11, <2>1, Zenon DEF FailuresTold
  <2>3. Clean(g)
    BY <1>0, <1>1, <1>6, <1>11, Zenon DEF Clean
  <2>4. Going(g)
    BY <1>0, <1>1, <1>2, <1>3, <1>4, <1>6, <1>7, <1>11, Zenon DEF Going
  <2> QED
    BY <1>0, <1>3, <1>4, <1>8, <1>9, <1>11, <2>2, <2>3, <2>4, Zenon DEF Well, Almost, Underway
<1> QED
  BY <1>0, <1>10, <1>11, Zenon

\* What a step that ran changes.
LEMMA RunStepIs ==
  ASSUME NEW x, DOMAIN x = JobFields, NEW step, NEW o, NEW n
  PROVE  LET g == Build!runStep(x, step, o, n)
         IN  /\ Kin(x, g) /\ g.todo = Tail(x.todo)
             /\ g.steps = Append(x.steps, <<step, IF o = "ok" THEN "succeeded" ELSE "failed">>)
             /\ g.pc = IF o # "ok" /\ x.ask.failFast THEN "done"
                       ELSE IF Len(x.todo) = 1 THEN "done" ELSE x.pc
             /\ g.err = IF o = "ok" THEN x.err ELSE Build!toToolError(o)
             /\ g.failed = IF o = "ok" THEN x.failed ELSE step
             /\ g.metrics = Build!updatePipelineQualityMetrics(x.metrics, step, o, n)
             /\ g.from = x.from /\ g.broken = x.broken /\ g.measured = x.measured
<1>1. PICK y : y = Build!GoOn(x)
  OBVIOUS
<1>2. /\ DOMAIN y = JobFields /\ y.ask = x.ask /\ y.beside = x.beside /\ y.todo = Tail(x.todo)
      /\ y.pc = (IF Len(x.todo) = 1 THEN "done" ELSE x.pc)
      /\ y.err = x.err /\ y.steps = x.steps /\ y.failed = x.failed /\ y.metrics = x.metrics
      /\ y.from = x.from /\ y.broken = x.broken /\ y.measured = x.measured
  BY <1>1, GoOnIs DEF Kin
<1>3. PICK l : l = Append(y.steps, <<step, IF o = "ok" THEN "succeeded" ELSE "failed">>)
  OBVIOUS
<1>4. PICK m : m = Build!updatePipelineQualityMetrics(y.metrics, step, o, n)
  OBVIOUS
<1>5. PICK ran : ran = [y EXCEPT !.steps = l, !.metrics = m]
  OBVIOUS
<1>6. PICK g : g = IF o = "ok" THEN ran
                   ELSE [ran EXCEPT !.failed = step, !.err = Build!toToolError(o),
                                    !.pc = IF x.ask.failFast THEN "done" ELSE @]
  OBVIOUS
<1>7. Build!runStep(x, step, o, n) = g
  BY <1>1, <1>3, <1>4, <1>5, <1>6, Zenon DEF Build!runStep
<1>8. /\ DOMAIN ran = JobFields /\ ran.steps = l /\ ran.metrics = m /\ ran.ask = x.ask /\ ran.beside = x.beside
      /\ ran.todo = Tail(x.todo) /\ ran.pc = y.pc /\ ran.err = x.err /\ ran.failed = x.failed
      /\ ran.from = x.from /\ ran.broken = x.broken /\ ran.measured = x.measured
  BY <1>2, <1>5 DEF JobFields
<1>9. CASE o = "ok"
  BY <1>2, <1>3, <1>4, <1>6, <1>7, <1>8, <1>9 DEF Kin
<1>10. CASE o # "ok"
  <2>1. g = [ran EXCEPT !.failed = step, !.err = Build!toToolError(o), !.pc = IF x.ask.failFast THEN "done" ELSE @]
    BY <1>6, <1>10
  <2>2. /\ DOMAIN g = JobFields /\ g.steps = l /\ g.metrics = m /\ g.ask = x.ask /\ g.beside = x.beside
        /\ g.todo = Tail(x.todo) /\ g.pc = (IF x.ask.failFast THEN "done" ELSE y.pc)
        /\ g.err = Build!toToolError(o) /\ g.failed = step
        /\ g.from = x.from /\ g.broken = x.broken /\ g.measured = x.measured
    BY <1>8, <2>1 DEF JobFields
  <2> QED
    BY <1>2, <1>3, <1>4, <1>7, <1>10, <2>2 DEF Kin
<1> QED
  BY <1>9, <1>10

\* What a step measures.
LEMMA MetricsAre ==
  ASSUME NEW m, DOMAIN m = {"cover", "diags", "tests"}, NEW step, NEW o, NEW n \in Int
  PROVE  LET k == Build!updatePipelineQualityMetrics(m, step, o, n)
         IN  /\ DOMAIN k = {"cover", "diags", "tests"}
             /\ k.diags = IF step = "static_analysis" THEN IF n < 0 THEN 0 ELSE n ELSE m.diags
             /\ k.cover = IF step = "coverage" /\ n >= 0 THEN n ELSE m.cover
<1>1. CASE step = "test"
  <2>1. PICK f : f = IF o = "ok" THEN 0 ELSE 1
    OBVIOUS
  <2>2. Build!updatePipelineQualityMetrics(m, step, o, n) = [m EXCEPT !.tests = f]
    BY <1>1, <2>1 DEF Build!updatePipelineQualityMetrics
  <2> QED
    BY <1>1, <2>2
<1>2. CASE step = "static_analysis"
  <2>1. PICK f : f = IF n < 0 THEN 0 ELSE n
    OBVIOUS
  <2>2. Build!updatePipelineQualityMetrics(m, step, o, n) = [m EXCEPT !.diags = f]
    BY <1>2, <2>1 DEF Build!updatePipelineQualityMetrics
  <2> QED
    BY <1>2, <2>1, <2>2
<1>3. CASE step = "coverage" /\ n >= 0
  <2>1. Build!updatePipelineQualityMetrics(m, step, o, n) = [m EXCEPT !.cover = n]
    BY <1>3 DEF Build!updatePipelineQualityMetrics
  <2> QED
    BY <1>3, <2>1
<1>4. CASE step \notin {"test", "static_analysis"} /\ ~(step = "coverage" /\ n >= 0)
  <2>1. Build!updatePipelineQualityMetrics(m, step, o, n) = m
    BY <1>4 DEF Build!updatePipelineQualityMetrics
  <2> QED
    BY <1>4, <2>1
<1> QED
  BY <1>1, <1>2, <1>3, <1>4

\* A step of a pipeline that ran.
LEMMA StepRan ==
  ASSUME NEW c, Well(c, job[c]), job[c].pc = "running", IsCI(job[c]),
         NEW step \in PipelineSteps \ {"finalize"}, Head(job[c].todo) = step, NEW o \in Build!Outcomes,
         NEW n \in Int, step \notin {"static_analysis", "coverage"} => n < 0,
         step = "static_analysis" => n >= 0,
         NEW g, g = Build!runStep(Build!Ran(c, o, n), step, o, n)
  PROVE  Well(c, g) /\ Kin(job[c], g) /\ (g.pc = "running" => Head(g.todo) \notin {"func", "execute"})
<1>1. PICK j : j = job[c]
  OBVIOUS
<1>2. PICK x : x = Build!Ran(c, o, n)
  OBVIOUS
<1>3. Well(c, j) /\ j.pc = "running" /\ IsCI(j) /\ Head(j.todo) = step /\ DOMAIN j = JobFields
  BY <1>1, Zenon DEF Well, Almost, Typed
<1>4. /\ Kin(j, x) /\ x.pc = j.pc /\ x.todo = j.todo
      /\ x.err = j.err /\ x.steps = j.steps /\ x.failed = j.failed /\ x.metrics = j.metrics
      /\ x.from = j.from
      /\ x.broken = IF o = "ok" THEN j.broken ELSE j.broken \cup {Head(j.todo)}
      /\ x.measured = IF n < 0 THEN j.measured ELSE j.measured \cup {<<Head(j.todo), n>>}
  BY <1>1, <1>2, <1>3 DEF Build!Ran, JobFields, Kin
<1>5. DOMAIN x = JobFields /\ x.ask = j.ask /\ x.beside = j.beside
  BY <1>4 DEF Kin
<1>6. /\ Kin(x, g) /\ g.todo = Tail(x.todo)
      /\ g.steps = Append(x.steps, <<step, IF o = "ok" THEN "succeeded" ELSE "failed">>)
      /\ g.pc = IF o # "ok" /\ x.ask.failFast THEN "done"
                ELSE IF Len(x.todo) = 1 THEN "done" ELSE x.pc
      /\ g.err = IF o = "ok" THEN x.err ELSE Build!toToolError(o)
      /\ g.failed = IF o = "ok" THEN x.failed ELSE step
      /\ g.metrics = Build!updatePipelineQualityMetrics(x.metrics, step, o, n)
      /\ g.from = x.from /\ g.broken = x.broken /\ g.measured = x.measured
  BY <1>2, <1>5, RunStepIs
<1>7. PICK v : v = IF o = "ok" THEN "succeeded" ELSE "failed"
  OBVIOUS
<1>8. Kin(j, g) /\ Build!toToolError(o) # ""
  BY <1>5, <1>6 DEF Kin, Build!toToolError
<1>9. PICK m : m = j.metrics
  OBVIOUS
<1>10. Going(j) /\ Head(j.todo) \in Rest(j.todo) /\ Head(j.todo) \notin Rest(Tail(j.todo))
       /\ Rest(j.todo) = {Head(j.todo)} \cup Rest(Tail(j.todo))
  BY <1>3, PipelineAt, Zenon
<1>11. /\ DOMAIN m = {"cover", "diags", "tests"} /\ m.diags \in Int
       /\ m.cover = 0 \/ <<"coverage", m.cover>> \in j.measured
       /\ \A i \in j.measured : i[1] = "static_analysis" =>
            i[2] = m.diags /\ "static_analysis" \notin Rest(j.todo)
  BY <1>9, <1>10, Zenon DEF Going
<1>12. PICK k : k = g.metrics
  OBVIOUS
<1>13. /\ DOMAIN k = {"cover", "diags", "tests"}
       /\ k.diags = IF step = "static_analysis" THEN IF n < 0 THEN 0 ELSE n ELSE m.diags
       /\ k.cover = IF step = "coverage" /\ n >= 0 THEN n ELSE m.cover
  <2>1. k = Build!updatePipelineQualityMetrics(m, step, o, n)
    BY <1>4, <1>6, <1>9, <1>12
  <2> QED
    BY <1>11, <2>1, MetricsAre
<1>14. k.diags \in Int
  BY <1>11, <1>13
<1>15. g.measured = IF n < 0 THEN j.measured ELSE j.measured \cup {<<step, n>>}
  BY <1>3, <1>4, <1>6
<1>16. k.cover = 0 \/ <<"coverage", k.cover>> \in g.measured
  BY <1>11, <1>13, <1>15
<1>17. ASSUME NEW i \in g.measured, i[1] = "static_analysis"
       PROVE  i[2] = k.diags /\ "static_analysis" \notin Rest(Tail(j.todo))
  <2>1. CASE step = "static_analysis"
    <3>1. i \notin j.measured
      BY <1>3, <1>10, <1>11, <1>17, <2>1
    <3>2. i = <<step, n>>
      BY <1>15, <3>1
    <3>3. i[2] = n
      BY <3>2
    <3> QED
      BY <1>3, <1>10, <1>13, <2>1, <3>3
  <2>2. CASE step # "static_analysis"
    <3>1. i # <<step, n>>
      BY <1>17, <2>2
    <3>2. i \in j.measured
      BY <1>15, <3>1
    <3> QED
      BY <1>10, <1>11, <1>13, <1>17, <2>2, <3>2
  <2> QED
    BY <2>1, <2>2
<1>18. /\ v \in {"succeeded", "failed", "skipped"} /\ g.todo = Tail(j.todo)
       /\ g.steps = Append(j.steps, <<Head(j.todo), v>>)
       /\ g.pc = IF v = "failed" /\ j.ask.failFast THEN "done" ELSE IF Len(j.todo) = 1 THEN "done" ELSE j.pc
       /\ v # "failed" => g.err = j.err /\ g.failed = j.failed /\ g.broken = j.broken
       /\ v = "failed" => g.err # "" /\ g.failed = Head(j.todo)
       /\ g.from = j.from
  <2>1. CASE o = "ok"
    BY <1>3, <1>4, <1>5, <1>6, <1>7, <2>1
  <2>2. CASE o # "ok"
    BY <1>3, <1>4, <1>5, <1>6, <1>7, <1>8, <2>2, Zenon
  <2> QED
    BY <2>1, <2>2, Zenon
<1>19. Listed(j, g, v)
  BY <1>8, <1>12, <1>13, <1>14, <1>16, <1>17, <1>18, Zenon DEF Listed
<1> QED
  BY <1>1, <1>3, <1>8, <1>18, <1>19, StepListed, Zenon

\* A step that is skipped.
LEMMA StepSkipped ==
  ASSUME NEW c, NEW j, Well(c, j), j.pc = "running", IsCI(j), Head(j.todo) \in PipelineSteps \ {"finalize"},
         NEW g, g = Build!Skipped(j)
  PROVE  Well(c, g) /\ Kin(j, g) /\ (g.pc = "running" => Head(g.todo) \notin {"func", "execute"})
<1>1. DOMAIN j = JobFields
  BY Zenon DEF Well, Almost, Typed
<1>2. PICK y : y = Build!GoOn(j)
  OBVIOUS
<1>3. /\ DOMAIN y = JobFields /\ y.ask = j.ask /\ y.beside = j.beside /\ y.todo = Tail(j.todo)
      /\ y.pc = (IF Len(j.todo) = 1 THEN "done" ELSE j.pc)
      /\ y.err = j.err /\ y.steps = j.steps /\ y.failed = j.failed /\ y.metrics = j.metrics
      /\ y.from = j.from /\ y.broken = j.broken /\ y.measured = j.measured
  BY <1>1, <1>2, GoOnIs DEF Kin
<1>4. PICK l : l = Append(j.steps, <<Head(j.todo), "skipped">>)
  OBVIOUS
<1>5. g = [y EXCEPT !.steps = Append(@, <<Head(j.todo), "skipped">>)]
  BY <1>2, Zenon DEF Build!Skipped
<1>6. /\ DOMAIN g = JobFields /\ g.ask = j.ask /\ g.beside = j.beside /\ g.todo = Tail(j.todo)
      /\ g.pc = (IF Len(j.todo) = 1 THEN "done" ELSE j.pc)
      /\ g.err = j.err /\ g.steps = l /\ g.failed = j.failed /\ g.metrics = j.metrics
      /\ g.from = j.from /\ g.broken = j.broken /\ g.measured = j.measured
  BY <1>3, <1>4, <1>5 DEF JobFields
<1>7. Kin(j, g)
  BY <1>6 DEF Kin
<1>8. Going(j) /\ Rest(j.todo) = {Head(j.todo)} \cup Rest(Tail(j.todo))
  BY PipelineAt, Zenon
<1>9. /\ DOMAIN j.metrics = {"cover", "diags", "tests"} /\ j.metrics.diags \in Int
      /\ j.metrics.cover = 0 \/ <<"coverage", j.metrics.cover>> \in j.measured
      /\ \A e \in j.measured : e[1] = "static_analysis" =>
           e[2] = j.metrics.diags /\ "static_analysis" \notin Rest(Tail(j.todo))
  BY <1>8, Zenon DEF Going
<1>10. PICK v : v = "skipped"
  OBVIOUS
<1>11. Listed(j, g, v)
  BY <1>4, <1>6, <1>7, <1>9, <1>10 DEF Listed
<1> QED
  BY <1>7, <1>10, <1>11, StepListed

\* The gate finds the limits kept only of what was measured.
LEMMA GateEarned ==
  ASSUME NEW j, Typed(j), Going(j), Rest(j.todo) = {"finalize"}, NEW g, g.ask = j.ask,
         Names(g.steps) = Names(j.steps) \cup {"quality_gate"} \/ g.steps = j.steps,
         g.steps \in Seq(StepSet), g.measured = j.measured,
         \/ ~j.ask.gate
         \/ Build!evaluateQualityGate(j.metrics, Build!normalizeQualityGateConfig(j.ask.limits))
  PROVE  Build!PipelineEarned(g)
<1>1. DOMAIN g.steps = 1 .. Len(g.steps)
  BY LenProperties
<1>2. Build!StepNames(g) = Names(g.steps)
  BY <1>1, Zenon DEF Build!StepNames, Names
<1>3. /\ {"validate", "build", "test"} \subseteq Names(j.steps)
      /\ j.ask.static => "static_analysis" \in Names(j.steps)
      /\ j.metrics.diags \in Int
      /\ j.metrics.cover = 0 \/ <<"coverage", j.metrics.cover>> \in j.measured
      /\ \A e \in j.measured : e[1] = "static_analysis" => e[2] = j.metrics.diags
  BY Zenon DEF Going
<1>4. /\ {"validate", "build", "test"} \subseteq Build!StepNames(g)
      /\ g.ask.static => "static_analysis" \in Build!StepNames(g)
  BY <1>2, <1>3
<1>5. PICK k : k = Build!normalizeQualityGateConfig(j.ask.limits)
  OBVIOUS
<1>6. PICK lim : lim = j.ask.limits
  OBVIOUS
<1>7. lim.cover \in Int /\ lim.diags \in Int
  BY <1>6, Zenon DEF Typed
<1>8. /\ k.cover = (IF lim.cover < 0 THEN -1 ELSE IF lim.cover > 100 THEN 100 ELSE lim.cover)
      /\ k.diags = Build!clampMaxThreshold(lim.diags)
  BY <1>5, <1>6, SMT DEF Build!normalizeQualityGateConfig
<1>9. k.diags = (IF lim.diags < 0 THEN -1 ELSE IF lim.diags > 100000 THEN 100000 ELSE lim.diags)
  BY <1>8, SMT DEF Build!clampMaxThreshold
<1>10. ASSUME j.ask.gate
       PROVE  /\ k.cover >= 0 => j.metrics.cover >= k.cover
              /\ k.diags >= 0 => j.metrics.diags <= k.diags
  BY <1>5, <1>10 DEF Build!evaluateQualityGate
<1>11. ASSUME j.ask.gate, lim.cover > 0
       PROVE  \E n \in Build!Measured(g, "coverage") : n >= k.cover
  <2>1. k.cover >= 0 /\ k.cover > 0 /\ k.cover \in Int
    BY <1>7, <1>8, <1>11
  <2>2. j.metrics.cover >= k.cover
    BY <1>10, <1>11, <2>1
  <2>3. j.metrics.cover # 0
    BY <2>1, <2>2
  <2>4. PICK e : e = <<"coverage", j.metrics.cover>>
    OBVIOUS
  <2>5. e \in g.measured /\ e[1] = "coverage" /\ e[2] = j.metrics.cover
    BY <1>3, <2>3, <2>4
  <2>6. e[2] \in Build!Measured(g, "coverage")
    BY <2>5 DEF Build!Measured
  <2> QED
    BY <2>2, <2>5, <2>6
<1>12. ASSUME j.ask.gate, lim.diags >= 0, NEW n \in Build!Measured(g, "static_analysis")
       PROVE  n <= lim.diags
  <2>1. PICK e \in g.measured : e[1] = "static_analysis" /\ n = e[2]
    BY <1>12 DEF Build!Measured
  <2>2. n = j.metrics.diags
    BY <1>3, <2>1
  <2>3. j.metrics.diags <= k.diags
    BY <1>7, <1>9, <1>10, <1>12
  <2> QED
    BY <1>3, <1>7, <1>9, <1>12, <2>2, <2>3
<1> QED
  BY <1>4, <1>5, <1>6, <1>11, <1>12, Zenon DEF Build!PipelineEarned

\* The end of a pipeline.
LEMMA PipelineEnds ==
  ASSUME NEW c, NEW j, Well(c, j), j.pc = "running", IsCI(j), Head(j.todo) = "finalize",
         NEW g, g = Build!finalize(j)
  PROVE  Well(c, g) /\ Kin(j, g) /\ g.pc = "done"
<1>1. /\ Typed(j) /\ FailuresTold(j) /\ Clean(j) /\ Going(j) /\ j.from \subseteq {c} \cup j.beside
      /\ Sound(j.ask, j.todo) /\ Len(j.todo) = 1
      /\ j.failed # "" => ~j.ask.failFast /\ j.failed # "quality_gate"
  BY PipelineAt, Zenon
<1>2. Rest(j.todo) = {"finalize"}
  BY <1>1, PlanGoesOn, Zenon DEF Sound
<1>3. DOMAIN j = JobFields /\ j.steps \in Seq(StepSet) /\ (j.err = "" <=> j.failed = "")
  BY <1>1, Zenon DEF Typed, Going
<1>4. PICK y : y = Build!GoOn(j)
  OBVIOUS
<1>5. /\ DOMAIN y = JobFields /\ y.ask = j.ask /\ y.beside = j.beside /\ y.pc = "done"
      /\ y.err = j.err /\ y.steps = j.steps /\ y.failed = j.failed
      /\ y.from = j.from /\ y.broken = j.broken /\ y.measured = j.measured
  BY <1>1, <1>3, <1>4, GoOnIs, Zenon DEF Kin
<1>6. CASE ~(j.ask.gate /\ j.failed = "")
  <2>1. g = y
    BY <1>4, <1>6, Zenon DEF Build!finalize
  <2>2. IsCI(g) /\ Kin(j, g)
    BY <1>5, <2>1 DEF IsCI, Kin
  <2>3. Typed(g)
    BY <1>1, <1>5, <2>1, Zenon DEF Typed
  <2>4. FailuresTold(g)
    BY <1>1, <1>5, <2>1, <2>2, Zenon DEF FailuresTold
  <2>5. Clean(g)
    BY <1>1, <1>5, <2>1, Zenon DEF Clean, Build!Broken, Build!Dispensable
  <2>6. ASSUME g.err = "" PROVE Build!PipelineEarned(g)
    <3>1. ~j.ask.gate /\ g.steps = j.steps /\ g.steps \in Seq(StepSet) /\ g.ask = j.ask /\ g.measured = j.measured
      BY <1>3, <1>5, <1>6, <2>1, <2>6, Zenon
    <3> QED
      BY <1>1, <1>2, <3>1, GateEarned, Zenon
  <2> QED
    BY <1>1, <1>5, <2>1, <2>2, <2>3, <2>4, <2>5, <2>6, Zenon DEF Well, Almost
<1>7. CASE j.ask.gate /\ j.failed = ""
  <2>1. PICK passed \in BOOLEAN :
          passed = Build!evaluateQualityGate(j.metrics, Build!normalizeQualityGateConfig(j.ask.limits))
    BY DEF Build!evaluateQualityGate
  <2>2. PICK v : v = IF passed THEN "succeeded" ELSE "failed"
    OBVIOUS
  <2>3. PICK l : l = Append(j.steps, <<"quality_gate", v>>)
    OBVIOUS
  <2>4. PICK ruled : ruled = [y EXCEPT !.passed = passed, !.ruled = TRUE,
                                       !.steps = Append(@, <<"quality_gate", v>>)]
    OBVIOUS
  <2>5. g = IF passed THEN ruled ELSE [ruled EXCEPT !.failed = "quality_gate", !.err = "execution_failed"]
    <3>1. g = Build!runPipelineQualityGateStep(j)
      BY <1>7, Zenon DEF Build!finalize
    <3> QED
      BY <1>4, <2>1, <2>2, <2>4, <3>1, Zenon DEF Build!runPipelineQualityGateStep
  <2>6. /\ DOMAIN ruled = JobFields /\ ruled.ask = j.ask /\ ruled.beside = j.beside /\ ruled.pc = "done"
        /\ ruled.err = j.err /\ ruled.steps = l /\ ruled.failed = j.failed
        /\ ruled.from = j.from /\ ruled.broken = j.broken /\ ruled.measured = j.measured
    BY <1>5, <2>3, <2>4 DEF JobFields
  <2>7. /\ DOMAIN g = JobFields /\ g.ask = j.ask /\ g.beside = j.beside /\ g.pc = "done" /\ g.steps = l
        /\ g.from = j.from /\ g.broken = j.broken /\ g.measured = j.measured
        /\ passed => g.err = j.err /\ g.failed = j.failed
        /\ ~passed => g.err = "execution_failed" /\ g.failed = "quality_gate"
    BY <2>5, <2>6 DEF JobFields
  <2>8. PICK e : e = <<"quality_gate", v>>
    OBVIOUS
  <2>9. e \in StepSet /\ e[1] = "quality_gate" /\ e[2] = v
    BY <2>2, <2>8 DEF StepSet
  <2>10. NoneFailed(j.steps)
    BY <1>1, <1>7, Zenon DEF FailuresTold
  <2>11. /\ l \in Seq(StepSet) /\ Names(l) = Names(j.steps) \cup {"quality_gate"} /\ OnlyLast(l)
         /\ v # "failed" => NoneFailed(l)
    BY <1>3, <2>3, <2>8, <2>9, <2>10, OneMore, Zenon
  <2>12. ~passed => LastIs(l, "quality_gate")
    BY <1>3, <2>2, <2>3, <2>8, <2>9, OneMore, Zenon
  <2>13. IsCI(g) /\ Kin(j, g)
    BY <2>7 DEF IsCI, Kin
  <2>14. Typed(g)
    BY <1>1, <2>7, <2>11, Zenon DEF Typed
  <2>15. FailuresTold(g)
    BY <1>7, <2>2, <2>7, <2>11, <2>12, <2>13, Zenon DEF FailuresTold
  <2>16. Build!Broken(j) = {}
    BY <1>1, <1>3, <1>7, Zenon DEF Clean
  <2>17. Build!Broken(g) = {}
    BY <2>7, <2>16, Zenon DEF Build!Broken, Build!Dispensable
  <2>18. ASSUME g.err = "" PROVE Build!PipelineEarned(g)
    <3>1. Build!evaluateQualityGate(j.metrics, Build!normalizeQualityGateConfig(j.ask.limits))
      BY <2>1, <2>7, <2>18, Zenon
    <3> QED
      BY <1>1, <1>2, <2>7, <2>11, <3>1, GateEarned, Zenon
  <2> QED
    BY <1>1, <2>7, <2>13, <2>14, <2>15, <2>17, <2>18, Zenon DEF Well, Almost, Clean
<1> QED
  BY <1>6, <1>7, Zenon

--------------------------------------------------------------------------------
(* The builds: the invariant. *)

\* A file that is about to be read is of the call or of one beside it.
Owned(c, j, f) ==
  j.pc = "running" =>
    /\ Head(j.todo) = "execute" => f.binary \in {0, c} \cup j.beside
    /\ Head(j.todo) = "func" => f.profile \in {0, c} \cup j.beside

BuildInv ==
  /\ DOMAIN job = Jobs /\ DOMAIN files = {"profile", "binary"}
  /\ \A c \in Jobs : Well(c, job[c]) /\ Owned(c, job[c], files)
  /\ \A c, d \in Jobs : c # d /\ job[c].pc = "running" /\ job[d].pc = "running" => d \in job[c].beside

\* What a step may make of the call that takes it, and of the files.
MayBecome(c, g) ==
  /\ Well(c, g) /\ Kin(job[c], g)
  /\ g.pc = "running" /\ Head(g.todo) = "execute" => files'.binary = c
  /\ g.pc = "running" /\ Head(g.todo) = "func" => files'.profile = c

FilesKept(c) ==
  /\ DOMAIN files' = {"profile", "binary"}
  /\ files'.binary \in {files.binary, c, 0} /\ files'.profile \in {files.profile, c, 0}

\* A step of one call keeps the invariant.
LEMMA OneMoves ==
  ASSUME BuildInv, NEW c \in Jobs, job[c].pc = "running", NEW g, Build!Becomes(c, g), MayBecome(c, g),
         FilesKept(c)
  PROVE  BuildInv'
<1>1. /\ job' = [job EXCEPT ![c] = g] /\ DOMAIN job = Jobs
  BY DEF Build!Becomes, BuildInv
<1>2. DOMAIN job' = Jobs /\ job'[c] = g /\ \A d \in Jobs : d # c => job'[d] = job[d]
  BY <1>1
<1>3. g.beside = job[c].beside /\ Well(c, g)
  BY DEF MayBecome, Kin
<1>4. ASSUME NEW d \in Jobs PROVE Owned(d, job'[d], files')
  <2>1. CASE d = c
    BY <1>2, <2>1 DEF MayBecome, Owned
  <2>2. CASE d # c
    <3>1. job'[d] = job[d] /\ Owned(d, job[d], files)
      BY <1>2, <2>2 DEF BuildInv
    <3>2. job[d].pc = "running" => c \in job[d].beside
      BY <2>2 DEF BuildInv
    <3> QED
      BY <3>1, <3>2 DEF Owned, FilesKept
  <2> QED
    BY <2>1, <2>2
<1>5. ASSUME NEW d \in Jobs PROVE Well(d, job'[d])
  <2>1. CASE d = c
    BY <1>2, <1>3, <2>1
  <2>2. CASE d # c
    BY <1>2, <2>2 DEF BuildInv
  <2> QED
    BY <2>1, <2>2
<1>6. ASSUME NEW d \in Jobs, NEW e \in Jobs, d # e, job'[d].pc = "running", job'[e].pc = "running"
      PROVE  e \in job'[d].beside
  <2>1. job[d].pc = "running" /\ job[e].pc = "running"
    BY <1>2, <1>6
  <2>2. e \in job[d].beside
    BY <1>6, <2>1 DEF BuildInv
  <2>3. CASE d = c
    BY <1>2, <1>3, <2>2, <2>3
  <2>4. CASE d # c
    BY <1>2, <2>2, <2>4
  <2> QED
    BY <2>3, <2>4
<1>7. DOMAIN files' = {"profile", "binary"}
  BY DEF FilesKept
<1>8. \A d \in Jobs : (Well(d, job[d]))' <=> Well(d, job'[d])
  BY DEF Well, Almost, Clean
<1>9. \A d \in Jobs : (Owned(d, job[d], files))' <=> Owned(d, job'[d], files')
  BY DEF Owned
<1> QED
  BY <1>2, <1>4, <1>5, <1>6, <1>7, <1>8, <1>9 DEF BuildInv

--------------------------------------------------------------------------------
(* The builds: the steps. *)

\* A command that has nothing to measure.
LEMMA Below == -1 \in Int /\ -1 < 0
OBVIOUS

\* A call after the command of its stage.
HasRun(c, j, o, n, x) ==
  /\ DOMAIN x = JobFields /\ Alike(j, x) /\ x.ask = j.ask
  /\ x.metrics = j.metrics /\ x.from = j.from
  /\ n < 0 => x.measured = j.measured
  /\ o = "ok" => x.broken = j.broken
  /\ x.broken \subseteq j.broken \cup {Head(j.todo)}

\* What a command changes.
LEMMA RanAlike ==
  ASSUME NEW c, DOMAIN job[c] = JobFields, NEW o, NEW n PROVE HasRun(c, job[c], o, n, Build!Ran(c, o, n))
<1>1. PICK j : j = job[c]
  OBVIOUS
<1>2. PICK x : x = Build!Ran(c, o, n)
  OBVIOUS
<1>3. /\ DOMAIN x = JobFields /\ x.ask = j.ask /\ x.beside = j.beside /\ x.pc = j.pc /\ x.todo = j.todo
      /\ x.err = j.err /\ x.steps = j.steps /\ x.failed = j.failed /\ x.metrics = j.metrics
      /\ x.from = j.from
      /\ x.broken = (IF o = "ok" THEN j.broken ELSE j.broken \cup {Head(j.todo)})
      /\ x.measured = (IF n < 0 THEN j.measured ELSE j.measured \cup {<<Head(j.todo), n>>})
  BY <1>1, <1>2 DEF Build!Ran, JobFields
<1>4. Alike(j, x)
  BY <1>3 DEF Alike, Kin
<1>5. HasRun(c, j, o, n, x)
  BY <1>3, <1>4 DEF HasRun
<1> QED
  BY <1>1, <1>2, <1>5

\* The call goes on to its next stage.
MayGoOn(c, j, x) ==
  /\ Well(c, j) /\ j.pc = "running" /\ Head(j.todo) \notin PipelineSteps
  /\ Alike(j, x) /\ x.from \subseteq {c} \cup j.beside
  /\ x.broken \subseteq j.broken \cup Build!Dispensable(j)
  /\ IsCI(j) => x.from = j.from /\ x.broken = j.broken /\ x.metrics = j.metrics /\ x.measured = j.measured

\* What most stages do: the call goes on, or ends with an error.
Proceeds(c, j, g) ==
  /\ Well(c, g) /\ Kin(j, g) /\ g.pc # "idle"
  /\ g.pc = "running" => (Head(g.todo) = "func" => Head(j.todo) = "profile")
                         /\ (Head(g.todo) = "execute" => Head(j.todo) = "compile")

\* A call that may go on does so well.
LEMMA GoesOn ==
  ASSUME NEW c, NEW j, NEW x, MayGoOn(c, j, x) PROVE Proceeds(c, j, Build!GoOn(x))
<1>0. /\ Well(c, j) /\ j.pc = "running" /\ Head(j.todo) \notin PipelineSteps
      /\ Alike(j, x) /\ x.from \subseteq {c} \cup j.beside
      /\ x.broken \subseteq j.broken \cup Build!Dispensable(j)
      /\ IsCI(j) => x.from = j.from /\ x.broken = j.broken /\ x.metrics = j.metrics /\ x.measured = j.measured
  BY DEF MayGoOn
<1>1. /\ DOMAIN x = JobFields /\ x.ask = j.ask /\ x.beside = j.beside /\ x.pc = j.pc /\ x.todo = j.todo
      /\ x.err = j.err /\ x.steps = j.steps /\ x.failed = j.failed
  BY <1>0 DEF Alike, Kin
<1>g. PICK g : g = Build!GoOn(x)
  OBVIOUS
<1>2. /\ DOMAIN g = JobFields /\ g.ask = x.ask /\ g.beside = x.beside /\ g.todo = Tail(x.todo)
      /\ g.pc = (IF Len(x.todo) = 1 THEN "done" ELSE x.pc)
      /\ g.err = x.err /\ g.steps = x.steps /\ g.failed = x.failed /\ g.metrics = x.metrics
      /\ g.from = x.from /\ g.broken = x.broken /\ g.measured = x.measured
  BY <1>1, <1>g, GoOnIs DEF Kin
<1>3. Kin(j, g) /\ g.pc # "idle" /\ g.todo = Tail(j.todo) /\ g.pc = (IF Len(j.todo) = 1 THEN "done" ELSE j.pc)
  BY <1>0, <1>1, <1>2 DEF Kin
<1>4. ASSUME ~IsCI(j) PROVE Proceeds(c, j, g)
  <2>1. /\ g.steps = j.steps /\ g.failed = j.failed /\ g.from \subseteq {c} \cup j.beside /\ g.err = j.err
        /\ g.broken \subseteq j.broken \cup Build!Dispensable(j)
    BY <1>0, <1>1, <1>2
  <2>2. /\ Well(c, g)
        /\ g.pc = "running" => (Head(g.todo) = "func" => Head(j.todo) = "profile")
                               /\ (Head(g.todo) = "execute" => Head(j.todo) = "compile")
    BY <1>0, <1>3, <1>4, <2>1, PlainGoesOn, Zenon
  <2> QED
    BY <1>3, <2>2 DEF Proceeds
<1>5. ASSUME IsCI(j) PROVE Proceeds(c, j, g)
  <2>1. Head(j.todo) \in {"detect", "rm"}
    BY <1>0, <1>5, StageOf, Zenon
  <2>2. /\ g.err = j.err /\ g.steps = j.steps /\ g.failed = j.failed /\ g.metrics = j.metrics
        /\ g.from = j.from /\ g.broken = j.broken /\ g.measured = j.measured
    BY <1>0, <1>1, <1>2, <1>5
  <2>3. Well(c, g) /\ (g.pc = "running" => Head(g.todo) \notin {"func", "execute"})
    BY <1>0, <1>3, <1>5, <2>1, <2>2, PipelineGoesOn
  <2> QED
    BY <1>3, <2>3 DEF Proceeds
<1> QED
  BY <1>g, <1>4, <1>5

\* The call returns an error.
MayReturn(c, j, x) ==
  /\ Well(c, j) /\ j.pc = "running" /\ Alike(j, x) /\ x.from \subseteq {c} \cup j.beside
  /\ IsCI(j) => x.from = j.from

\* A call that may return does so well.
LEMMA Returns ==
  ASSUME NEW c, NEW j, NEW x, MayReturn(c, j, x), NEW e, e # "" PROVE Proceeds(c, j, Build!Return(x, e))
<1>0. /\ Well(c, j) /\ j.pc = "running" /\ Alike(j, x) /\ x.from \subseteq {c} \cup j.beside
      /\ IsCI(j) => x.from = j.from
  BY Zenon DEF MayReturn
<1>1. /\ DOMAIN x = JobFields /\ x.ask = j.ask /\ x.beside = j.beside /\ x.steps = j.steps /\ x.failed = j.failed
  BY <1>0, Zenon DEF Alike, Kin
<1>g. PICK g : g = Build!Return(x, e)
  BY Zenon
<1>2. /\ DOMAIN g = JobFields /\ g.ask = x.ask /\ g.beside = x.beside /\ g.pc = "done" /\ g.err = e
      /\ g.steps = x.steps /\ g.failed = x.failed /\ g.from = x.from
  BY <1>1, <1>g, Zenon DEF Build!Return, JobFields
<1>3. Kin(j, g)
  BY <1>1, <1>2, Zenon DEF Kin
<1>4. CASE ~IsCI(j)
  <2>1. Well(c, g)
    BY <1>0, <1>1, <1>2, <1>3, <1>4, PlainReturns, Zenon
  <2> QED
    BY <1>g, <1>2, <1>3, <2>1, Zenon DEF Proceeds
<1>5. CASE IsCI(j)
  <2>1. g.steps = j.steps /\ g.failed = j.failed /\ g.from = j.from /\ g.err # ""
    BY <1>0, <1>1, <1>2, <1>5, Zenon
  <2>2. Well(c, g)
    BY <1>0, <1>2, <1>3, <1>5, <2>1, PipelineReturns, Zenon
  <2> QED
    BY <1>g, <1>2, <1>3, <2>2, Zenon DEF Proceeds
<1> QED
  BY <1>4, <1>5, Zenon

\* A step of a call keeps the invariant, if what the call reads next is its own.
LEMMA PlainMoves ==
  ASSUME BuildInv, NEW c \in Jobs, job[c].pc = "running", NEW g, Build!Becomes(c, g), Proceeds(c, job[c], g),
         FilesKept(c),
         Head(job[c].todo) = "profile" /\ g.pc = "running" => Head(g.todo) # "func" \/ files'.profile = c,
         Head(job[c].todo) = "compile" /\ g.pc = "running" => Head(g.todo) # "execute" \/ files'.binary = c
  PROVE  BuildInv'
<1>1. MayBecome(c, g)
  BY DEF Proceeds, MayBecome
<1> QED
  BY <1>1, OneMoves

\* A step that leaves the files.
LEMMA FilesStay == ASSUME NEW c, BuildInv, UNCHANGED files PROVE FilesKept(c)
BY DEF BuildInv, FilesKept

\* A call goes on without a command, or returns.
LEMMA Unmoved ==
  ASSUME BuildInv, NEW c \in Jobs, job[c].pc = "running"
  PROVE  /\ Head(job[c].todo) \notin PipelineSteps => Proceeds(c, job[c], Build!GoOn(job[c]))
         /\ \A e : e # "" => Proceeds(c, job[c], Build!Return(job[c], e))
<1>1. PICK j : j = job[c]
  OBVIOUS
<1>2. Well(c, j) /\ j.pc = "running" /\ DOMAIN j = JobFields /\ j.from \subseteq {c} \cup j.beside
  BY <1>1, Zenon DEF BuildInv, Well, Almost, Typed
<1>3. Alike(j, j)
  BY <1>2 DEF Alike, Kin
<1>4. Head(j.todo) \notin PipelineSteps => MayGoOn(c, j, j)
  BY <1>2, <1>3 DEF MayGoOn
<1>5. MayReturn(c, j, j)
  BY <1>2, <1>3 DEF MayReturn
<1> QED
  BY <1>1, <1>4, <1>5, GoesOn, Returns, Zenon

\* A call goes on after a command that succeeded or that it can do without, or returns.
LEMMA AfterRun ==
  ASSUME BuildInv, NEW c \in Jobs, job[c].pc = "running", NEW o, NEW n, n < 0
  PROVE  /\ Head(job[c].todo) \notin PipelineSteps /\ (o = "ok" \/ Head(job[c].todo) = "observe") =>
              Proceeds(c, job[c], Build!GoOn(Build!Ran(c, o, n)))
         /\ \A e : e # "" => Proceeds(c, job[c], Build!Return(Build!Ran(c, o, n), e))
<1>1. PICK j : j = job[c]
  OBVIOUS
<1>2. Well(c, j) /\ j.pc = "running" /\ DOMAIN j = JobFields /\ j.from \subseteq {c} \cup j.beside
  BY <1>1, Zenon DEF BuildInv, Well, Almost, Typed
<1>3. PICK x : x = Build!Ran(c, o, n)
  OBVIOUS
<1>4. HasRun(c, j, o, n, x)
  BY <1>1, <1>2, <1>3, RanAlike
<1>5. /\ Alike(j, x) /\ x.metrics = j.metrics /\ x.from = j.from
      /\ x.measured = j.measured /\ (o = "ok" => x.broken = j.broken)
      /\ x.broken \subseteq j.broken \cup {Head(j.todo)}
  BY <1>4 DEF HasRun
<1>6. ASSUME Head(j.todo) \notin PipelineSteps, o = "ok" \/ Head(j.todo) = "observe" PROVE MayGoOn(c, j, x)
  <2>1. x.broken \subseteq j.broken \cup Build!Dispensable(j)
    BY <1>5, <1>6 DEF Build!Dispensable
  <2>2. IsCI(j) => Head(j.todo) # "observe"
    BY <1>2, StageOf, Zenon DEF PipelineSteps
  <2>3. IsCI(j) => x.broken = j.broken
    BY <1>5, <1>6, <2>2
  <2> QED
    BY <1>2, <1>5, <1>6, <2>1, <2>3 DEF MayGoOn
<1>7. MayReturn(c, j, x)
  BY <1>2, <1>5 DEF MayReturn
<1> QED
  BY <1>1, <1>3, <1>6, <1>7, GoesOn, Returns, Zenon

\* A step that touches no file keeps the invariant.
LEMMA Moves ==
  ASSUME BuildInv, NEW c \in Jobs, job[c].pc = "running", NEW g, Build!Becomes(c, g),
         Proceeds(c, job[c], g), UNCHANGED files, Head(job[c].todo) \notin {"profile", "compile"}
  PROVE  BuildInv'
<1>1. FilesKept(c)
  BY FilesStay
<1> QED
  BY <1>1, PlainMoves

\* The kind of the project is looked for.
LEMMA DetectMoves == ASSUME BuildInv, NEW c \in Jobs, Build!Detect(c) PROVE BuildInv'
<1>1. /\ job[c].pc = "running" /\ Head(job[c].todo) \in {"detect", "identify"} /\ UNCHANGED files
      /\ Head(job[c].todo) \notin PipelineSteps \cup {"profile", "compile"}
  BY DEF Build!Detect, Build!Running, PipelineSteps
<1>2. CASE Build!Becomes(c, Build!GoOn(job[c]))
  BY <1>1, <1>2, Unmoved, Moves, Zenon
<1>3. ASSUME NEW o \in Build!Outcomes,
             Build!Becomes(c, Build!detectProjectTypeForSession(Build!Ran(c, o, -1), o))
      PROVE  BuildInv'
  <2>1. PICK n : n = -1 /\ n < 0
    BY Below, Zenon
  <2>2. PICK x : x = Build!Ran(c, o, n)
    OBVIOUS
  <2>3. PICK g : g = Build!detectProjectTypeForSession(x, o)
    OBVIOUS
  <2>4. Build!Becomes(c, g)
    BY <1>3, <2>1, <2>2, <2>3, Zenon
  <2>5. g = Build!Return(x, "execution_failed") \/ (o = "ok" /\ g = Build!GoOn(x))
    BY <2>3 DEF Build!detectProjectTypeForSession
  <2>6. Proceeds(c, job[c], g)
    BY <1>1, <2>1, <2>2, <2>5, AfterRun, Zenon
  <2> QED
    BY <1>1, <2>4, <2>6, Moves
<1> QED
  BY <1>2, <1>3 DEF Build!Detect

\* The arguments are checked.
LEMMA CheckArgsMoves == ASSUME BuildInv, NEW c \in Jobs, Build!CheckArgs(c) PROVE BuildInv'
<1>1. /\ job[c].pc = "running" /\ UNCHANGED files
      /\ Head(job[c].todo) \notin PipelineSteps \cup {"profile", "compile"}
  BY DEF Build!CheckArgs, Build!Running, PipelineSteps
<1>2. PICK g : Build!Becomes(c, g) /\ (g = Build!GoOn(job[c]) \/ g = Build!Return(job[c], "invalid_argument"))
  BY DEF Build!CheckArgs
<1>3. Proceeds(c, job[c], g)
  BY <1>1, <1>2, Unmoved, Zenon
<1> QED
  BY <1>1, <1>2, <1>3, Moves

\* The command, the source or the requirements are looked for.
LEMMA ResolveMoves == ASSUME BuildInv, NEW c \in Jobs, Build!Resolve(c) PROVE BuildInv'
<1>1. /\ job[c].pc = "running" /\ UNCHANGED files
      /\ Head(job[c].todo) \in {"resolve", "source", "requirements"}
      /\ Head(job[c].todo) \notin PipelineSteps \cup {"profile", "compile"}
  BY DEF Build!Resolve, Build!Running, PipelineSteps
<1>2. ASSUME NEW found, Build!Becomes(c, Build!Resolved(job[c], found)) PROVE BuildInv'
  <2>1. PICK g : Build!Becomes(c, g) /\ (g = Build!GoOn(job[c]) \/ g = Build!Return(job[c], "execution_failed"))
    BY <1>2 DEF Build!Resolved
  <2>2. Proceeds(c, job[c], g)
    BY <1>1, <2>1, Unmoved, Zenon
  <2> QED
    BY <1>1, <2>1, <2>2, Moves
<1>3. ASSUME NEW found \in {"file", "none", "missing"}, Head(job[c].todo) = "requirements",
             Build!Becomes(c, Build!resolvePipInstallArgs(job[c], found))
      PROVE  BuildInv'
  <2>1. PICK g : g = Build!resolvePipInstallArgs(job[c], found)
    OBVIOUS
  <2>2. \/ g = Build!GoOn(job[c]) \/ g = Build!Return(job[c], "invalid_argument")
        \/ g = Build!Return(job[c], "")
    <3>1. CASE found = "file"
      BY <2>1, <3>1 DEF Build!resolvePipInstallArgs
    <3>2. CASE found = "none"
      BY <2>1, <3>2, Zenon DEF Build!resolvePipInstallArgs
    <3>3. CASE found = "missing"
      BY <2>1, <3>3 DEF Build!resolvePipInstallArgs
    <3> QED
      BY <1>3, <3>1, <3>2, <3>3, Zenon
  <2>3. ASSUME g # Build!Return(job[c], "") PROVE Proceeds(c, job[c], g)
    BY <1>1, <2>2, <2>3, Unmoved, Zenon
  <2>4. ASSUME g = Build!Return(job[c], "") PROVE Proceeds(c, job[c], g)
    <3>1. PICK j : j = job[c]
      OBVIOUS
    <3>2. Well(c, j) /\ j.pc = "running" /\ DOMAIN j = JobFields /\ j.from \subseteq {c} \cup j.beside
      BY <1>1, <3>1, Zenon DEF BuildInv, Well, Almost, Typed
    <3>3. j.err = "" /\ ~IsCI(j)
      BY <1>3, <3>1, <3>2, StageOf, Zenon DEF PipelineSteps
    <3>4. /\ DOMAIN g = JobFields /\ g.ask = j.ask /\ g.beside = j.beside /\ g.pc = "done" /\ g.err = ""
          /\ g.steps = j.steps /\ g.failed = j.failed /\ g.from = j.from /\ g.broken = j.broken
      BY <2>4, <3>1, <3>2 DEF Build!Return, JobFields
    <3>5. Kin(j, g)
      BY <3>4, Zenon DEF Kin
    <3>6. Well(c, g)
      BY <3>2, <3>3, <3>4, <3>5, PlainReturns, Zenon
    <3> QED
      BY <3>1, <3>4, <3>5, <3>6, Zenon DEF Proceeds
  <2>5. Proceeds(c, job[c], g)
    BY <2>3, <2>4, Zenon
  <2> QED
    BY <1>1, <1>3, <2>1, <2>5, Moves
<1> QED
  BY <1>2, <1>3 DEF Build!Resolve, Build!Running

\* A command of which only the outcome counts.
LEMMA CommandProceeds ==
  ASSUME BuildInv, NEW c \in Jobs, job[c].pc = "running", Head(job[c].todo) \notin PipelineSteps,
         NEW o \in Build!Outcomes
  PROVE  Proceeds(c, job[c], Build!invokeStructuredToolCommand(Build!Ran(c, o, -1), o))
<1>1. PICK n : n = -1 /\ n < 0
  BY Below, Zenon
<1>2. PICK x : x = Build!Ran(c, o, n)
  OBVIOUS
<1>3. PICK g : g = Build!invokeStructuredToolCommand(x, o)
  OBVIOUS
<1>4. Build!toToolError(o) # ""
  BY DEF Build!toToolError
<1>5. (o = "ok" /\ g = Build!GoOn(x)) \/ g = Build!Return(x, Build!toToolError(o))
  BY <1>3 DEF Build!invokeStructuredToolCommand
<1>6. Proceeds(c, job[c], g)
  BY <1>1, <1>2, <1>4, <1>5, AfterRun, Zenon
<1> QED
  BY <1>1, <1>2, <1>3, <1>6, Zenon

\* A command runs.
LEMMA RunMoves == ASSUME BuildInv, NEW c \in Jobs, Build!Run(c) PROVE BuildInv'
<1>1. /\ job[c].pc = "running" /\ UNCHANGED files
      /\ Head(job[c].todo) \notin PipelineSteps \cup {"profile", "compile"}
  BY DEF Build!Run, Build!Running, PipelineSteps
<1>2. PICK o \in Build!Outcomes : Build!Becomes(c, Build!invokeStructuredToolCommand(Build!Ran(c, o, -1), o))
  BY DEF Build!Run
<1>3. PICK g : g = Build!invokeStructuredToolCommand(Build!Ran(c, o, -1), o)
  OBVIOUS
<1>4. Proceeds(c, job[c], g)
  BY <1>1, <1>3, CommandProceeds
<1>5. Build!Becomes(c, g)
  BY <1>2, <1>3, Zenon
<1> QED
  BY <1>1, <1>4, <1>5, Moves

\* A summary, an answer or a gate.
LEMMA ObserveMoves == ASSUME BuildInv, NEW c \in Jobs, Build!Observe(c) PROVE BuildInv'
<1>1. /\ job[c].pc = "running" /\ UNCHANGED files
      /\ Head(job[c].todo) \notin PipelineSteps \cup {"profile", "compile"}
  BY DEF Build!Observe, Build!Running, PipelineSteps
<1>2. ASSUME NEW o \in Build!Outcomes, Head(job[c].todo) = "observe",
             Build!Becomes(c, Build!Observed(Build!Ran(c, o, -1), o))
      PROVE  BuildInv'
  <2>1. PICK n : n = -1 /\ n < 0
    BY Below, Zenon
  <2>2. PICK x : x = Build!Ran(c, o, n)
    OBVIOUS
  <2>3. PICK g : g = Build!Observed(x, o)
    OBVIOUS
  <2>4. Build!Becomes(c, g)
    BY <1>2, <2>1, <2>2, <2>3, Zenon
  <2>5. g = Build!Return(x, "timeout") \/ g = Build!GoOn(x)
    BY <2>3 DEF Build!Observed
  <2>6. Proceeds(c, job[c], g)
    BY <1>1, <1>2, <2>1, <2>2, <2>5, AfterRun, Zenon
  <2> QED
    BY <1>1, <2>4, <2>6, Moves
<1>3. ASSUME Build!Becomes(c, Build!GoOn(job[c])) PROVE BuildInv'
  BY <1>1, <1>3, Unmoved, Moves, Zenon
<1>4. ASSUME Head(job[c].todo) = "evaluate", Build!Becomes(c, Build!QualityGateAnswer(job[c]))
      PROVE  BuildInv'
  <2>1. PICK j : j = job[c]
    OBVIOUS
  <2>2. PICK g : g = Build!QualityGateAnswer(j)
    OBVIOUS
  <2>3. Well(c, j) /\ j.pc = "running" /\ DOMAIN j = JobFields /\ j.from \subseteq {c} \cup j.beside
    BY <1>1, <2>1, Zenon DEF BuildInv, Well, Almost, Typed
  <2>4. ~IsCI(j)
    BY <1>4, <2>1, <2>3, StageOf, Zenon DEF PipelineSteps
  <2>5. PICK y : y = Build!GoOn(j)
    OBVIOUS
  <2>6. /\ DOMAIN y = JobFields /\ y.ask = j.ask /\ y.beside = j.beside /\ y.todo = Tail(j.todo)
        /\ y.pc = (IF Len(j.todo) = 1 THEN "done" ELSE j.pc)
        /\ y.err = j.err /\ y.steps = j.steps /\ y.failed = j.failed
        /\ y.from = j.from /\ y.broken = j.broken
    BY <2>3, <2>5, GoOnIs DEF Kin
  <2>7. PICK p : p = Build!evaluateQualityGate(j.ask.metrics, Build!normalizeQualityGateConfig(j.ask.limits))
    OBVIOUS
  <2>8. g = [y EXCEPT !.passed = p, !.ruled = TRUE]
    BY <2>2, <2>5, <2>7, Zenon DEF Build!QualityGateAnswer
  <2>9. /\ DOMAIN g = JobFields /\ g.ask = j.ask /\ g.beside = j.beside /\ g.todo = Tail(j.todo)
        /\ g.pc = (IF Len(j.todo) = 1 THEN "done" ELSE j.pc)
        /\ g.err = j.err /\ g.steps = j.steps /\ g.failed = j.failed
        /\ g.from = j.from /\ g.broken = j.broken
    BY <2>6, <2>8 DEF JobFields
  <2>10. Kin(j, g) /\ g.from \subseteq {c} \cup j.beside /\ g.broken \subseteq j.broken \cup Build!Dispensable(j)
    BY <2>3, <2>9 DEF Kin
  <2>11. /\ Well(c, g)
         /\ g.pc = "running" => (Head(g.todo) = "func" => Head(j.todo) = "profile")
                                /\ (Head(g.todo) = "execute" => Head(j.todo) = "compile")
    BY <2>3, <2>4, <2>9, <2>10, PlainGoesOn, Zenon
  <2>12. Proceeds(c, job[c], g)
    BY <2>1, <2>3, <2>9, <2>10, <2>11 DEF Proceeds
  <2> QED
    BY <1>1, <1>4, <2>1, <2>2, <2>12, Moves
<1> QED
  BY <1>2, <1>3, <1>4 DEF Build!Observe, Build!Running

\* c.test compiles.
LEMMA CompileMoves == ASSUME BuildInv, NEW c \in Jobs, Build!Compile(c) PROVE BuildInv'
<1>1. job[c].pc = "running" /\ Head(job[c].todo) = "compile" /\ Head(job[c].todo) \notin PipelineSteps
  BY DEF Build!Compile, Build!Running, PipelineSteps
<1>2. PICK o \in Build!Outcomes, left \in {files.binary, c, 0} :
        /\ o = "ok" => left = c
        /\ files' = [files EXCEPT !.binary = left]
        /\ Build!Becomes(c, Build!invokeStructuredToolCommand(Build!Ran(c, o, -1), o))
  BY DEF Build!Compile
<1>3. PICK x : x = Build!Ran(c, o, -1)
  OBVIOUS
<1>4. PICK g : g = Build!invokeStructuredToolCommand(x, o)
  OBVIOUS
<1>5. Build!Becomes(c, g) /\ Proceeds(c, job[c], g)
  <2>1. Build!Becomes(c, g)
    BY <1>2, <1>3, <1>4, Zenon
  <2>2. Proceeds(c, job[c], Build!invokeStructuredToolCommand(Build!Ran(c, o, -1), o))
    BY <1>1, CommandProceeds
  <2> QED
    BY <1>3, <1>4, <2>1, <2>2, Zenon
<1>6. DOMAIN files = {"profile", "binary"}
  BY DEF BuildInv
<1>7. FilesKept(c) /\ files'.binary = left
  BY <1>2, <1>6 DEF FilesKept
<1>8. ASSUME g.pc = "running" PROVE files'.binary = c
  <2>1. ASSUME o # "ok" PROVE FALSE
    <3>1. g = Build!Return(x, Build!toToolError(o))
      BY <1>4, <2>1 DEF Build!invokeStructuredToolCommand
    <3>2. DOMAIN job[c] = JobFields
      BY Zenon DEF BuildInv, Well, Almost, Typed
    <3>3. HasRun(c, job[c], o, -1, x)
      BY <1>3, <3>2, RanAlike, Zenon
    <3>4. DOMAIN x = JobFields
      BY <3>3 DEF HasRun
    <3>5. g.pc = "done"
      BY <3>1, <3>4 DEF Build!Return, JobFields
    <3> QED
      BY <1>8, <3>5
  <2> QED
    BY <1>2, <1>7, <2>1
<1> QED
  BY <1>1, <1>5, <1>7, <1>8, PlainMoves

\* What is so of a call at a stage that is not of a pipeline.
LEMMA PlainAt ==
  ASSUME BuildInv, NEW c \in Jobs, job[c].pc = "running",
         Head(job[c].todo) \notin PipelineSteps \cup {"detect", "rm"}
  PROVE  /\ Well(c, job[c]) /\ ~IsCI(job[c]) /\ DOMAIN job[c] = JobFields
         /\ job[c].from \subseteq {c} \cup job[c].beside /\ Owned(c, job[c], files)
<1>1. Well(c, job[c]) /\ Owned(c, job[c], files)
  BY DEF BuildInv
<1>2. ~IsCI(job[c])
  BY <1>1, StageOf, Zenon
<1> QED
  BY <1>1, <1>2, Zenon DEF Well, Almost, Typed

\* c.test executes.
LEMMA ExecuteMoves == ASSUME BuildInv, NEW c \in Jobs, Build!Execute(c) PROVE BuildInv'
<1>1. /\ job[c].pc = "running" /\ UNCHANGED files /\ Head(job[c].todo) = "execute"
      /\ Head(job[c].todo) \notin PipelineSteps \cup {"detect", "rm"}
      /\ Head(job[c].todo) \notin PipelineSteps \cup {"profile", "compile"}
  BY DEF Build!Execute, Build!Running, PipelineSteps
<1>2. PICK o \in Build!Outcomes :
        Build!Becomes(c, [Build!invokeStructuredToolCommand(Build!Ran(c, o, -1), o) EXCEPT
                            !.from = {files.binary} \ {0}])
  BY DEF Build!Execute
<1>3. PICK j : j = job[c]
  OBVIOUS
<1>4. Well(c, j) /\ ~IsCI(j) /\ DOMAIN j = JobFields /\ j.pc = "running" /\ Owned(c, j, files)
  BY <1>1, <1>3, PlainAt
<1>5. PICK read : read = {files.binary} \ {0}
  OBVIOUS
<1>6. read \subseteq {c} \cup j.beside
  BY <1>1, <1>3, <1>4, <1>5 DEF Owned
<1>7. PICK x : x = Build!Ran(c, o, -1)
  OBVIOUS
<1>8. PICK n : n = -1 /\ n < 0
  BY Below, Zenon
<1>9. HasRun(c, j, o, n, x)
  <2>1. HasRun(c, job[c], o, n, Build!Ran(c, o, n))
    BY <1>3, <1>4, RanAlike
  <2> QED
    BY <1>3, <1>7, <1>8, <2>1, Zenon
<1>10. /\ DOMAIN x = JobFields /\ x.ask = j.ask /\ x.beside = j.beside /\ x.pc = j.pc /\ x.todo = j.todo
       /\ x.err = j.err /\ x.steps = j.steps /\ x.failed = j.failed /\ (o = "ok" => x.broken = j.broken)
  BY <1>9 DEF HasRun, Alike, Kin
<1>11. PICK y : y = Build!invokeStructuredToolCommand(x, o)
  OBVIOUS
<1>12. PICK g : g = [y EXCEPT !.from = read]
  OBVIOUS
<1>13. Build!Becomes(c, g)
  BY <1>2, <1>5, <1>7, <1>11, <1>12, Zenon
<1>14. CASE o = "ok"
  <2>1. y = Build!GoOn(x)
    BY <1>11, <1>14 DEF Build!invokeStructuredToolCommand
  <2>2. /\ DOMAIN y = JobFields /\ y.ask = x.ask /\ y.beside = x.beside /\ y.todo = Tail(x.todo)
        /\ y.pc = (IF Len(x.todo) = 1 THEN "done" ELSE x.pc)
        /\ y.err = x.err /\ y.steps = x.steps /\ y.failed = x.failed /\ y.broken = x.broken
    BY <1>10, <2>1, GoOnIs DEF Kin
  <2>3. /\ DOMAIN g = JobFields /\ g.ask = j.ask /\ g.beside = j.beside /\ g.todo = Tail(j.todo)
        /\ g.pc = (IF Len(j.todo) = 1 THEN "done" ELSE j.pc)
        /\ g.err = j.err /\ g.steps = j.steps /\ g.failed = j.failed /\ g.broken = j.broken /\ g.from = read
    BY <1>10, <1>12, <1>14, <2>2 DEF JobFields
  <2>4. Kin(j, g) /\ g.from \subseteq {c} \cup j.beside /\ g.broken \subseteq j.broken \cup Build!Dispensable(j)
    BY <1>6, <2>3 DEF Kin
  <2>5. /\ Well(c, g)
        /\ g.pc = "running" => (Head(g.todo) = "func" => Head(j.todo) = "profile")
                               /\ (Head(g.todo) = "execute" => Head(j.todo) = "compile")
    BY <1>4, <2>3, <2>4, PlainGoesOn, Zenon
  <2>6. Proceeds(c, job[c], g)
    BY <1>3, <1>4, <2>3, <2>4, <2>5 DEF Proceeds
  <2> QED
    BY <1>1, <1>13, <2>6, Moves
<1>15. CASE o # "ok"
  <2>1. PICK e : e = Build!toToolError(o)
    OBVIOUS
  <2>2. y = Build!Return(x, e) /\ e # ""
    BY <1>11, <1>15, <2>1 DEF Build!invokeStructuredToolCommand, Build!toToolError
  <2>3. /\ DOMAIN g = JobFields /\ g.ask = j.ask /\ g.beside = j.beside /\ g.pc = "done" /\ g.err = e
        /\ g.steps = j.steps /\ g.failed = j.failed /\ g.from = read
    BY <1>10, <1>12, <2>2, Zenon DEF Build!Return, JobFields
  <2>4. Kin(j, g) /\ g.from \subseteq {c} \cup j.beside
    BY <1>6, <2>3 DEF Kin
  <2>5. Well(c, g)
    BY <1>4, <2>2, <2>3, <2>4, PlainReturns, Zenon
  <2>6. Proceeds(c, job[c], g)
    BY <1>3, <2>3, <2>4, <2>5 DEF Proceeds
  <2> QED
    BY <1>1, <1>13, <2>6, Moves
<1> QED
  BY <1>14, <1>15

\* What is left of a report whose tests failed.
LEMMA OnlyRemoval == ASSUME NEW r, r.tool # "ci.run_pipeline"
      PROVE  Sound(r, <<"rm">>) /\ Rest(<<"rm">>) = {"rm"}
<1>1. Rest(<<"rm">>) = {"rm"} /\ <<"rm">> # <<>>
  BY Lists
<1>2. <<"rm">> \in Plan
  BY DEF Plan, AllStages
<1>3. WrittenFirst(<<"rm">>)
  BY <1>1, NoFileRead
<1> QED
  BY <1>1, <1>2, <1>3 DEF Sound, PipelineSteps

\* go test with a profile.
LEMMA ProfileMoves == ASSUME BuildInv, NEW c \in Jobs, Build!Profile(c) PROVE BuildInv'
<1>1. /\ job[c].pc = "running" /\ Head(job[c].todo) = "profile"
      /\ Head(job[c].todo) \notin PipelineSteps \cup {"detect", "rm"}
  BY DEF Build!Profile, Build!Running, PipelineSteps
<1>2. PICK o \in Build!Outcomes, n \in {-1, 2}, left \in {files.profile, c, 0} :
        /\ o = "ok" => left = c
        /\ files' = [files EXCEPT !.profile = left]
        /\ LET j == [Build!Ran(c, o, n) EXCEPT !.from = IF n >= 0 THEN {c} ELSE {}]
           IN  Build!Becomes(c, IF o = "ok" THEN Build!GoOn(j)
                                ELSE IF j.ask.tool = "go.test" THEN Build!Return(j, Build!toToolError(o))
                                ELSE [j EXCEPT !.todo = <<"rm">>, !.err = Build!toToolError(o)])
  BY Zenon DEF Build!Profile
<1>3. PICK j : j = job[c]
  OBVIOUS
<1>4. Well(c, j) /\ ~IsCI(j) /\ DOMAIN j = JobFields /\ j.pc = "running"
  BY <1>1, <1>3, PlainAt
<1>5. PICK y : y = Build!Ran(c, o, n)
  OBVIOUS
<1>6. HasRun(c, j, o, n, y)
  BY <1>3, <1>4, <1>5, RanAlike
<1>7. /\ DOMAIN y = JobFields /\ y.ask = j.ask /\ y.beside = j.beside /\ y.pc = j.pc /\ y.todo = j.todo
      /\ y.err = j.err /\ y.steps = j.steps /\ y.failed = j.failed /\ (o = "ok" => y.broken = j.broken)
  BY <1>6 DEF HasRun, Alike, Kin
<1>8. PICK read : read = IF n >= 0 THEN {c} ELSE {}
  OBVIOUS
<1>9. PICK x : x = [y EXCEPT !.from = read]
  OBVIOUS
<1>10. /\ DOMAIN x = JobFields /\ x.ask = j.ask /\ x.beside = j.beside /\ x.pc = j.pc /\ x.todo = j.todo
       /\ x.err = j.err /\ x.steps = j.steps /\ x.failed = j.failed /\ (o = "ok" => x.broken = j.broken)
       /\ x.from = read
  BY <1>7, <1>9 DEF JobFields
<1>11. Alike(j, x) /\ x.from \subseteq {c} \cup j.beside
  BY <1>8, <1>10 DEF Alike, Kin
<1>12. PICK e : e = Build!toToolError(o)
  OBVIOUS
<1>13. e # ""
  BY <1>12 DEF Build!toToolError
<1>14. PICK g : g = IF o = "ok" THEN Build!GoOn(x)
                    ELSE IF x.ask.tool = "go.test" THEN Build!Return(x, e)
                    ELSE [x EXCEPT !.todo = <<"rm">>, !.err = e]
  OBVIOUS
<1>15. Build!Becomes(c, g)
  BY <1>2, <1>5, <1>8, <1>9, <1>12, <1>14, Zenon
<1>16. DOMAIN files = {"profile", "binary"}
  BY DEF BuildInv
<1>17. FilesKept(c) /\ files'.profile = left
  BY <1>2, <1>16 DEF FilesKept
<1>18. CASE o = "ok"
  <2>1. MayGoOn(c, j, x)
    BY <1>1, <1>3, <1>4, <1>10, <1>11, <1>18 DEF MayGoOn
  <2>2. Proceeds(c, job[c], g)
    BY <1>3, <1>14, <1>18, <2>1, GoesOn
  <2>3. files'.profile = c
    BY <1>2, <1>17, <1>18
  <2> QED
    BY <1>1, <1>15, <1>17, <2>2, <2>3, PlainMoves
<1>19. CASE o # "ok" /\ x.ask.tool = "go.test"
  <2>1. MayReturn(c, j, x) /\ g = Build!Return(x, e)
    BY <1>4, <1>11, <1>14, <1>19 DEF MayReturn
  <2>2. Proceeds(c, job[c], g)
    BY <1>3, <1>13, <2>1, Returns, Zenon
  <2>3. g.pc = "done"
    BY <1>10, <2>1 DEF Build!Return, JobFields
  <2> QED
    BY <1>1, <1>15, <1>17, <2>2, <2>3, PlainMoves
<1>20. CASE o # "ok" /\ x.ask.tool # "go.test"
  <2>1. g = [x EXCEPT !.todo = <<"rm">>, !.err = e]
    BY <1>14, <1>20
  <2>2. PICK last0 : last0 = <<"rm">>
    OBVIOUS
  <2>3. /\ DOMAIN g = JobFields /\ g.ask = j.ask /\ g.beside = j.beside /\ g.pc = j.pc /\ g.todo = last0
        /\ g.err = e /\ g.steps = j.steps /\ g.failed = j.failed /\ g.from = read
    BY <1>10, <2>1, <2>2 DEF JobFields
  <2>4. Sound(j.ask, last0) /\ Rest(last0) = {"rm"} /\ Head(last0) = "rm"
    BY <1>4, <2>2, OnlyRemoval, Lists DEF IsCI
  <2>5. Kin(j, g) /\ Almost(c, j) /\ g.from \subseteq {c} \cup j.beside
    BY <1>4, <1>10, <1>11, <2>3 DEF Kin, Well
  <2>6. g.pc = "running" => Sound(j.ask, g.todo) /\ ("requirements" \in Rest(g.todo) => g.err = "")
    BY <2>3, <2>4
  <2>7. g.err = "" => Build!Broken(g) = {}
    BY <1>13, <2>3, Zenon
  <2>8. Well(c, g)
    BY <1>4, <2>3, <2>5, <2>6, <2>7, PlainWell, Zenon
  <2>9. Proceeds(c, job[c], g) /\ Head(g.todo) # "func"
    BY <1>3, <1>4, <2>3, <2>4, <2>5, <2>8 DEF Proceeds
  <2> QED
    BY <1>1, <1>15, <1>17, <2>9, PlainMoves
<1> QED
  BY <1>18, <1>19, <1>20

\* go tool cover.
LEMMA CoverageMoves == ASSUME BuildInv, NEW c \in Jobs, Build!calculateCoverage(c) PROVE BuildInv'
<1>1. /\ job[c].pc = "running" /\ Head(job[c].todo) = "func" /\ UNCHANGED files
      /\ Head(job[c].todo) \notin PipelineSteps \cup {"detect", "rm"}
      /\ Head(job[c].todo) \notin {"profile", "compile"}
  BY DEF Build!calculateCoverage, Build!Running, PipelineSteps
<1>2. PICK o \in Build!Outcomes, n \in {-1, 2} :
        /\ o = "ok" => files.profile # 0
        /\ LET ran == Build!Ran(c, o, n)
               j == IF n < 0 \/ files.profile = 0 THEN ran ELSE [ran EXCEPT !.from = {files.profile}]
           IN  Build!Becomes(c, IF o = "ok" THEN Build!GoOn(j)
                                ELSE IF j.ask.tool = "go.test" THEN Build!GoOn(ran)
                                ELSE [Build!GoOn(j) EXCEPT !.err = Build!toToolError(o)])
  BY Zenon DEF Build!calculateCoverage
<1>3. PICK j : j = job[c]
  OBVIOUS
<1>4. /\ Well(c, j) /\ ~IsCI(j) /\ DOMAIN j = JobFields /\ j.pc = "running" /\ Owned(c, j, files)
      /\ j.from \subseteq {c} \cup j.beside /\ "requirements" \notin Rest(j.todo)
  <2>1. Well(c, j) /\ ~IsCI(j) /\ DOMAIN j = JobFields /\ j.pc = "running" /\ Owned(c, j, files)
        /\ j.from \subseteq {c} \cup j.beside
    BY <1>1, <1>3, PlainAt
  <2> QED
    BY <1>1, <1>3, <2>1, StageOf, Zenon
<1>5. PICK y : y = Build!Ran(c, o, n)
  OBVIOUS
<1>6. HasRun(c, j, o, n, y)
  BY <1>3, <1>4, <1>5, RanAlike
<1>7. /\ DOMAIN y = JobFields /\ y.ask = j.ask /\ y.beside = j.beside /\ y.pc = j.pc /\ y.todo = j.todo
      /\ y.err = j.err /\ y.steps = j.steps /\ y.failed = j.failed /\ (o = "ok" => y.broken = j.broken)
      /\ y.broken \subseteq j.broken \cup {"func"} /\ y.from = j.from
  BY <1>1, <1>3, <1>6 DEF HasRun, Alike, Kin
<1>8. PICK x : x = IF n < 0 \/ files.profile = 0 THEN y ELSE [y EXCEPT !.from = {files.profile}]
  OBVIOUS
<1>9. /\ DOMAIN x = JobFields /\ x.ask = j.ask /\ x.beside = j.beside /\ x.pc = j.pc /\ x.todo = j.todo
      /\ x.err = j.err /\ x.steps = j.steps /\ x.failed = j.failed /\ (o = "ok" => x.broken = j.broken)
      /\ x.from \subseteq {c} \cup j.beside
  <2>1. CASE n < 0 \/ files.profile = 0
    BY <1>4, <1>7, <1>8, <2>1
  <2>2. CASE ~(n < 0 \/ files.profile = 0)
    <3>1. x = [y EXCEPT !.from = {files.profile}]
      BY <1>8, <2>2
    <3>2. files.profile \in {c} \cup j.beside
      BY <1>1, <1>3, <1>4, <2>2 DEF Owned
    <3> QED
      BY <1>7, <3>1, <3>2 DEF JobFields
  <2> QED
    BY <2>1, <2>2
<1>10. PICK e : e = Build!toToolError(o)
  OBVIOUS
<1>11. e # ""
  BY <1>10 DEF Build!toToolError
<1>12. PICK g : g = IF o = "ok" THEN Build!GoOn(x)
                    ELSE IF x.ask.tool = "go.test" THEN Build!GoOn(y)
                    ELSE [Build!GoOn(x) EXCEPT !.err = e]
  OBVIOUS
<1>13. Build!Becomes(c, g)
  BY <1>2, <1>5, <1>8, <1>10, <1>12, Zenon
<1>14. CASE o = "ok"
  <2>1. Alike(j, x)
    BY <1>9 DEF Alike, Kin
  <2>2. MayGoOn(c, j, x)
    BY <1>1, <1>3, <1>4, <1>9, <1>14, <2>1 DEF MayGoOn
  <2>3. Proceeds(c, job[c], g)
    BY <1>3, <1>12, <1>14, <2>2, GoesOn
  <2> QED
    BY <1>1, <1>13, <2>3, Moves
<1>15. CASE o # "ok" /\ x.ask.tool = "go.test"
  <2>1. Alike(j, y) /\ y.broken \subseteq j.broken \cup Build!Dispensable(j)
    BY <1>7, <1>9, <1>15 DEF Alike, Kin, Build!Dispensable
  <2>2. MayGoOn(c, j, y)
    BY <1>1, <1>3, <1>4, <1>7, <2>1 DEF MayGoOn
  <2>3. Proceeds(c, job[c], g)
    BY <1>3, <1>12, <1>15, <2>2, GoesOn
  <2> QED
    BY <1>1, <1>13, <2>3, Moves
<1>16. CASE o # "ok" /\ x.ask.tool # "go.test"
  <2>1. PICK z : z = Build!GoOn(x)
    OBVIOUS
  <2>2. g = [z EXCEPT !.err = e]
    BY <1>12, <1>16, <2>1
  <2>3. /\ DOMAIN z = JobFields /\ z.ask = x.ask /\ z.beside = x.beside /\ z.todo = Tail(x.todo)
        /\ z.pc = (IF Len(x.todo) = 1 THEN "done" ELSE x.pc)
        /\ z.steps = x.steps /\ z.failed = x.failed /\ z.from = x.from
    BY <1>9, <2>1, GoOnIs DEF Kin
  <2>4. /\ DOMAIN g = JobFields /\ g.ask = j.ask /\ g.beside = j.beside /\ g.todo = Tail(j.todo)
        /\ g.pc = (IF Len(j.todo) = 1 THEN "done" ELSE j.pc)
        /\ g.err = e /\ g.steps = j.steps /\ g.failed = j.failed /\ g.from = x.from
    BY <1>9, <2>2, <2>3 DEF JobFields
  <2>5. Kin(j, g) /\ g.from \subseteq {c} \cup j.beside /\ g.err # ""
    BY <1>9, <1>11, <2>4, Zenon DEF Kin
  <2>6. /\ Well(c, g)
        /\ g.pc = "running" => (Head(g.todo) = "func" => Head(j.todo) = "profile")
                               /\ (Head(g.todo) = "execute" => Head(j.todo) = "compile")
    BY <1>4, <2>4, <2>5, PlainGoesOn, Zenon
  <2>7. Proceeds(c, job[c], g)
    BY <1>3, <1>4, <2>4, <2>5, <2>6, Zenon DEF Proceeds
  <2> QED
    BY <1>1, <1>13, <2>7, Moves
<1> QED
  BY <1>14, <1>15, <1>16

\* The profile is removed.
LEMMA RemoveMoves == ASSUME BuildInv, NEW c \in Jobs, Build!RemoveProfile(c) PROVE BuildInv'
<1>1. /\ job[c].pc = "running" /\ Head(job[c].todo) \in {"rm", "remove"}
      /\ Head(job[c].todo) \notin PipelineSteps \cup {"profile", "compile"}
  BY DEF Build!RemoveProfile, Build!Running, PipelineSteps
<1>2. /\ files' = files \/ files' = [files EXCEPT !.profile = 0]
      /\ Build!Becomes(c, Build!GoOn(job[c]))
  BY DEF Build!RemoveProfile
<1>3. DOMAIN files = {"profile", "binary"}
  BY DEF BuildInv
<1>4. FilesKept(c)
  BY <1>2, <1>3 DEF FilesKept
<1>5. Proceeds(c, job[c], Build!GoOn(job[c]))
  BY <1>1, Unmoved, Zenon
<1> QED
  BY <1>1, <1>2, <1>4, <1>5, PlainMoves

\* A step of the pipeline leads to no stage that reads a file.
LEMMA PipelineMoves ==
  ASSUME BuildInv, NEW c \in Jobs, job[c].pc = "running", NEW g, Build!Becomes(c, g), FilesKept(c),
         Well(c, g), Kin(job[c], g), g.pc = "running" => Head(g.todo) \notin {"func", "execute"}
  PROVE  BuildInv'
<1>1. MayBecome(c, g)
  BY DEF MayBecome
<1> QED
  BY <1>1, OneMoves

\* A call at a step of a pipeline is a pipeline.
LEMMA AtStep ==
  ASSUME BuildInv, NEW c \in Jobs, job[c].pc = "running", Head(job[c].todo) \in PipelineSteps
  PROVE  Well(c, job[c]) /\ IsCI(job[c]) /\ DOMAIN job[c] = JobFields
<1>1. Well(c, job[c])
  BY DEF BuildInv
<1>2. IsCI(job[c])
  BY <1>1, StageOf, Zenon
<1> QED
  BY <1>1, <1>2, Zenon DEF Well, Almost, Typed

\* The steps of every pipeline.
LEMMA PipelineStepMoves == ASSUME BuildInv, NEW c \in Jobs, Build!PipelineStep(c) PROVE BuildInv'
<1>1. PICK step \in {"validate", "build", "test"} :
        /\ Build!Running(c, step)
        /\ \/ Build!Becomes(c, Build!Unresolved(job[c]))
           \/ \E o \in Build!Outcomes : Build!Becomes(c, Build!runStep(Build!Ran(c, o, -1), step, o, -1))
  BY Zenon DEF Build!PipelineStep
<1>2. UNCHANGED files
  BY Zenon DEF Build!PipelineStep
<1>3. job[c].pc = "running" /\ Head(job[c].todo) = step /\ step \in PipelineSteps \ {"finalize"}
      /\ step \notin {"static_analysis", "coverage"}
  BY <1>1 DEF Build!Running, PipelineSteps
<1>4. FilesKept(c)
  BY <1>2, FilesStay
<1>5. Well(c, job[c]) /\ IsCI(job[c]) /\ DOMAIN job[c] = JobFields
  BY <1>3, AtStep
<1>6. ASSUME Build!Becomes(c, Build!Unresolved(job[c])) PROVE BuildInv'
  <2>1. PICK j : j = job[c]
    OBVIOUS
  <2>2. PICK g : g = Build!Unresolved(j)
    OBVIOUS
  <2>3. PICK none : none = <<>>
    OBVIOUS
  <2>4. g = [Build!Return(j, "execution_failed") EXCEPT !.steps = none, !.failed = ""]
    BY <2>2, <2>3, Zenon DEF Build!Unresolved
  <2>5. PICK r : r = Build!Return(j, "execution_failed")
    OBVIOUS
  <2>6. /\ DOMAIN r = JobFields /\ r.ask = j.ask /\ r.beside = j.beside /\ r.pc = "done"
        /\ r.err = "execution_failed" /\ r.from = j.from
    BY <1>5, <2>1, <2>5 DEF Build!Return, JobFields
  <2>7. /\ DOMAIN g = JobFields /\ g.ask = j.ask /\ g.beside = j.beside /\ g.pc = "done"
        /\ g.err = "execution_failed" /\ g.from = j.from /\ g.steps = none /\ g.failed = ""
    BY <2>4, <2>5, <2>6 DEF JobFields
  <2>8. Kin(j, g) /\ g.err # "" /\ g.steps = <<>>
    BY <2>3, <2>7, Zenon DEF Kin
  <2>9. Well(c, g)
    BY <1>3, <1>5, <2>1, <2>7, <2>8, PipelineReturns, Zenon
  <2>10. Build!Becomes(c, g)
    BY <1>6, <2>1, <2>2, Zenon
  <2> QED
    BY <1>3, <1>4, <2>1, <2>7, <2>8, <2>9, <2>10, PipelineMoves, Zenon
<1>7. ASSUME NEW o \in Build!Outcomes, Build!Becomes(c, Build!runStep(Build!Ran(c, o, -1), step, o, -1))
      PROVE  BuildInv'
  <2>1. PICK n : n = -1 /\ n \in Int /\ n < 0
    BY Below, Zenon
  <2>2. PICK g : g = Build!runStep(Build!Ran(c, o, n), step, o, n)
    OBVIOUS
  <2>3. Build!Becomes(c, g)
    BY <1>7, <2>1, <2>2, Zenon
  <2>4. n \in Int /\ n < 0
    BY <2>1, Zenon
  <2> HIDE <2>1
  <2>5. Well(c, g) /\ Kin(job[c], g) /\ (g.pc = "running" => Head(g.todo) \notin {"func", "execute"})
    BY <1>3, <1>5, <2>2, <2>4, StepRan
  <2> QED
    BY <1>3, <1>4, <2>3, <2>5, PipelineMoves
<1> QED
  BY <1>1, <1>6, <1>7, Zenon

\* A step that is skipped.
LEMMA SkipMoves ==
  ASSUME BuildInv, NEW c \in Jobs, job[c].pc = "running", Head(job[c].todo) \in PipelineSteps \ {"finalize"},
         Build!Becomes(c, Build!Skipped(job[c])), UNCHANGED files
  PROVE  BuildInv'
<1>1. Well(c, job[c]) /\ IsCI(job[c])
  BY AtStep
<1>2. PICK g : g = Build!Skipped(job[c])
  OBVIOUS
<1>3. Well(c, g) /\ Kin(job[c], g) /\ (g.pc = "running" => Head(g.todo) \notin {"func", "execute"})
  BY <1>1, <1>2, StepSkipped
<1>4. FilesKept(c)
  BY FilesStay
<1> QED
  BY <1>2, <1>3, <1>4, PipelineMoves

\* The static analysis of a pipeline.
LEMMA StaticStepMoves == ASSUME BuildInv, NEW c \in Jobs, Build!StaticStep(c) PROVE BuildInv'
<1>1. job[c].pc = "running" /\ Head(job[c].todo) = "static_analysis" /\ UNCHANGED files
  BY DEF Build!StaticStep, Build!Running
<1>2. PICK step : step = "static_analysis"
  OBVIOUS
<1>3. step \in PipelineSteps \ {"finalize"} /\ Head(job[c].todo) = step
  BY <1>1, <1>2 DEF PipelineSteps
<1>4. ASSUME Build!Becomes(c, Build!Skipped(job[c])) PROVE BuildInv'
  BY <1>1, <1>3, <1>4, SkipMoves
<1>5. ASSUME NEW o \in Build!Outcomes, NEW n \in {0, 2},
             Build!Becomes(c, Build!runStep(Build!Ran(c, o, n), "static_analysis", o, n))
      PROVE  BuildInv'
  <2>1. n \in Int /\ n >= 0
    OBVIOUS
  <2>2. Well(c, job[c]) /\ IsCI(job[c])
    BY <1>1, <1>3, AtStep
  <2>3. PICK g : g = Build!runStep(Build!Ran(c, o, n), step, o, n)
    OBVIOUS
  <2>4. Build!Becomes(c, g)
    BY <1>2, <1>5, <2>3, Zenon
  <2>5. Well(c, g) /\ Kin(job[c], g) /\ (g.pc = "running" => Head(g.todo) \notin {"func", "execute"})
    BY <1>1, <1>2, <1>3, <2>1, <2>2, <2>3, StepRan
  <2>6. FilesKept(c)
    BY <1>1, FilesStay
  <2> QED
    BY <1>1, <2>4, <2>5, <2>6, PipelineMoves
<1> QED
  BY <1>4, <1>5, Zenon DEF Build!StaticStep

\* The coverage of a pipeline.
LEMMA CoverageStepMoves == ASSUME BuildInv, NEW c \in Jobs, Build!CoverageStep(c) PROVE BuildInv'
<1>1. job[c].pc = "running" /\ Head(job[c].todo) = "coverage"
  BY DEF Build!CoverageStep, Build!Running
<1>2. PICK step : step = "coverage"
  OBVIOUS
<1>3. step \in PipelineSteps \ {"finalize"} /\ Head(job[c].todo) = step /\ step # "static_analysis"
  BY <1>1, <1>2 DEF PipelineSteps
<1>4. ASSUME Build!Becomes(c, Build!Skipped(job[c])), UNCHANGED files PROVE BuildInv'
  BY <1>1, <1>3, <1>4, SkipMoves
<1>5. ASSUME NEW o \in Build!Outcomes, NEW n \in Build!Numbers, NEW left \in {files.profile, c, 0},
             files' = [files EXCEPT !.profile = left],
             Build!Becomes(c, Build!runStep(Build!Ran(c, o, n), "coverage", o, n))
      PROVE  BuildInv'
  <2>1. n \in Int
    BY DEF Build!Numbers
  <2>2. Well(c, job[c]) /\ IsCI(job[c])
    BY <1>1, <1>3, AtStep
  <2>3. PICK g : g = Build!runStep(Build!Ran(c, o, n), step, o, n)
    OBVIOUS
  <2>4. Build!Becomes(c, g)
    BY <1>2, <1>5, <2>3, Zenon
  <2>5. Well(c, g) /\ Kin(job[c], g) /\ (g.pc = "running" => Head(g.todo) \notin {"func", "execute"})
    BY <1>1, <1>2, <1>3, <2>1, <2>2, <2>3, StepRan
  <2>6. DOMAIN files = {"profile", "binary"}
    BY DEF BuildInv
  <2>7. FilesKept(c)
    BY <1>5, <2>6 DEF FilesKept
  <2> QED
    BY <1>1, <2>4, <2>5, <2>7, PipelineMoves
<1> QED
  BY <1>4, <1>5, Zenon DEF Build!CoverageStep

\* The end of a pipeline, with the gate.
LEMMA FinalizeMoves == ASSUME BuildInv, NEW c \in Jobs, Build!Finalize(c) PROVE BuildInv'
<1>1. job[c].pc = "running" /\ Head(job[c].todo) = "finalize" /\ Head(job[c].todo) \in PipelineSteps
  BY DEF Build!Finalize, Build!Running, PipelineSteps
<1>2. Build!Becomes(c, Build!finalize(job[c])) /\ UNCHANGED files
  BY Zenon DEF Build!Finalize
<1>3. PICK g : g = Build!finalize(job[c])
  OBVIOUS
<1>4. Well(c, job[c]) /\ IsCI(job[c])
  BY <1>1, AtStep
<1>5. Well(c, g) /\ Kin(job[c], g) /\ g.pc = "done"
  BY <1>1, <1>3, <1>4, PipelineEnds
<1>6. FilesKept(c) /\ Build!Becomes(c, g)
  BY <1>2, <1>3, FilesStay
<1> QED
  BY <1>1, <1>5, <1>6, PipelineMoves

\* Facts that are needed one at a time.
LEMMA Paired == \A a, b : <<a, b>>[1] = a /\ <<a, b>>[2] = b
OBVIOUS

\* Zero is a whole number.
LEMMA ZeroInt == 0 \in Int
OBVIOUS

\* The order of positions.
LEMMA InOrder ==
  \A n \in Nat : \A a, b \in 1 .. n : (~(a > b) => a <= b) /\ (a <= b /\ b <= a => a = b)
OBVIOUS

\* A call that starts.
Started(j, others) == [j EXCEPT !.pc = "running", !.beside = others, !.todo = Build!Stages(j.ask)]

MayStart(c, j) == Well(c, j) /\ j.pc = "idle" /\ j.ask.tool # ""
UnderwayWith(c, g, others) ==
  Well(c, g) /\ g.pc = "running" /\ g.beside = others /\ Head(g.todo) \notin {"func", "execute"}

\* A call that may start does so well.
LEMMA Starts ==
  ASSUME NEW c, NEW j, MayStart(c, j), NEW others PROVE UnderwayWith(c, Started(j, others), others)
<1>0. Well(c, j) /\ j.pc = "idle" /\ j.ask.tool # ""
  BY Zenon DEF MayStart
<1>g. PICK g : g = Started(j, others)
  OBVIOUS
<1>1. Typed(j) /\ Fresh(j)
  BY <1>0, Zenon DEF Well, Almost
<1>2. DOMAIN j = JobFields /\ j.ask.tool \in Build!Tools
  BY <1>0, <1>1, Zenon DEF Typed
<1>3. PICK s : s = Build!Stages(j.ask)
  OBVIOUS
<1>4. /\ Sound(j.ask, s) /\ Head(s) \notin {"func", "execute"}
      /\ IsCI(j) => /\ {"validate", "build", "test"} \subseteq Rest(s)
                    /\ j.ask.static => "static_analysis" \in Rest(s)
  BY <1>2, <1>3, StartsSound DEF IsCI
<1>5. /\ DOMAIN g = JobFields /\ g.ask = j.ask /\ g.pc = "running" /\ g.beside = others /\ g.todo = s
      /\ g.err = j.err /\ g.steps = j.steps /\ g.failed = j.failed /\ g.metrics = j.metrics
      /\ g.from = j.from /\ g.broken = j.broken /\ g.measured = j.measured
  BY <1>2, <1>3, <1>g DEF JobFields, Started
<1>6. /\ g.err = "" /\ g.steps = <<>> /\ g.failed = "" /\ g.from = {} /\ g.broken = {} /\ g.measured = {}
      /\ DOMAIN g.metrics = {"cover", "diags", "tests"} /\ g.metrics.cover = 0 /\ g.metrics.diags \in Int
  BY <1>1, <1>5, Zenon DEF Fresh
<1>7. Typed(g)
  BY <1>1, <1>5, Zenon DEF Typed
<1>8. FailuresTold(g)
  BY <1>6, NoSteps, Zenon DEF FailuresTold
<1>9. Clean(g)
  BY <1>6, Zenon DEF Clean, Build!Broken
<1>10. IsCI(g) => Going(g)
  BY <1>4, <1>5, <1>6, Zenon DEF Going, IsCI
<1>11. Underway(g)
  BY <1>4, <1>5, <1>6, <1>10, Zenon DEF Underway
<1>12. Well(c, g)
  BY <1>5, <1>6, <1>7, <1>8, <1>9, <1>11, Zenon DEF Well, Almost
<1> QED
  BY <1>g, <1>4, <1>5, <1>12, Zenon DEF UnderwayWith

\* A call that is under way while another one starts.
LEMMA StaysWell ==
  ASSUME NEW d, NEW j, Well(d, j), j.pc = "running", NEW c, NEW f, Owned(d, j, f),
         NEW g, g = [j EXCEPT !.beside = @ \cup {c}]
  PROVE  Well(d, g) /\ Owned(d, g, f) /\ g.pc = "running" /\ g.beside = j.beside \cup {c}
<1>1. DOMAIN j = JobFields
  BY Zenon DEF Well, Almost, Typed
<1>2. /\ DOMAIN g = JobFields /\ g.ask = j.ask /\ g.pc = "running" /\ g.beside = j.beside \cup {c} /\ g.todo = j.todo
      /\ g.err = j.err /\ g.steps = j.steps /\ g.failed = j.failed /\ g.metrics = j.metrics
      /\ g.from = j.from /\ g.broken = j.broken /\ g.measured = j.measured
  BY <1>1 DEF JobFields
<1>3. Typed(j) /\ FailuresTold(j) /\ Clean(j) /\ Underway(j) /\ j.from \subseteq {d} \cup j.beside
  BY DEF Well, Almost
<1>4. Typed(g)
  BY <1>2, <1>3, Zenon DEF Typed
<1>5. FailuresTold(g)
  BY <1>2, <1>3, Zenon DEF FailuresTold, IsCI
<1>6. Clean(g)
  BY <1>2, <1>3, Zenon DEF Clean, Build!Broken, Build!Dispensable
<1>7. IsCI(g) => Going(g)
  BY <1>2, <1>3, Zenon DEF Underway, Going, IsCI
<1>8. Underway(g)
  BY <1>2, <1>3, <1>7, Zenon DEF Underway
<1>9. Owned(d, g, f)
  BY <1>2 DEF Owned
<1> QED
  BY <1>2, <1>3, <1>4, <1>5, <1>6, <1>8, <1>9, Zenon DEF Well, Almost

\* A call starts beside the others.
LEMMA StartMoves == ASSUME BuildInv, NEW c \in Jobs, Build!Start(c) PROVE BuildInv'
<1>1. job[c].pc = "idle" /\ job[c].ask.tool # "" /\ files' = files
  BY Zenon DEF Build!Start
<1>2. PICK others : others = {d \in Jobs : job[d].pc = "running"}
  OBVIOUS
<1>3. job' = [d \in Jobs |->
                IF d = c THEN [job[c] EXCEPT !.pc = "running", !.beside = others,
                                             !.todo = Build!Stages(job[c].ask)]
                ELSE IF d \in others THEN [job[d] EXCEPT !.beside = @ \cup {c}] ELSE job[d]]
  BY <1>2, Zenon DEF Build!Start
<1>4. DOMAIN job' = Jobs
  BY <1>3
<1>5. job'[c] = [job[c] EXCEPT !.pc = "running", !.beside = others, !.todo = Build!Stages(job[c].ask)]
  BY <1>3
<1>6. /\ Well(c, job'[c]) /\ job'[c].pc = "running" /\ job'[c].beside = others
      /\ Head(job'[c].todo) \notin {"func", "execute"}
  <2>1. PICK j : j = job[c]
    OBVIOUS
  <2>2. MayStart(c, j)
    BY <1>1, <2>1, Zenon DEF BuildInv, MayStart
  <2>3. PICK g : g = Started(j, others)
    OBVIOUS
  <2>4. UnderwayWith(c, g, others)
    <3>1. UnderwayWith(c, Started(j, others), others)
      BY <2>2, Starts
    <3> QED
      BY <2>3, <3>1, Zenon
  <2>5. job'[c] = g
    BY <1>5, <2>1, <2>3, Zenon DEF Started
  <2> QED
    BY <2>4, <2>5 DEF UnderwayWith
<1>7. ASSUME NEW d \in others
      PROVE  /\ d \in Jobs /\ d # c /\ job[d].pc = "running" /\ Well(d, job'[d]) /\ Owned(d, job'[d], files)
             /\ job'[d].pc = "running" /\ job'[d].beside = job[d].beside \cup {c}
  <2>1. d \in Jobs /\ d # c /\ job[d].pc = "running"
    BY <1>1, <1>2, Zenon
  <2>2. job'[d] = [job[d] EXCEPT !.beside = @ \cup {c}]
    BY <1>3, <2>1
  <2>3. PICK j : j = job[d]
    OBVIOUS
  <2>4. PICK g : g = [j EXCEPT !.beside = @ \cup {c}]
    OBVIOUS
  <2>5. Well(d, j) /\ Owned(d, j, files)
    BY <2>1, <2>3 DEF BuildInv
  <2>6. Well(d, g) /\ Owned(d, g, files) /\ g.pc = "running" /\ g.beside = j.beside \cup {c}
    BY <2>1, <2>3, <2>4, <2>5, StaysWell
  <2>7. job'[d] = g
    BY <2>2, <2>3, <2>4, Zenon
  <2> QED
    BY <2>1, <2>3, <2>6, <2>7
<1>8. ASSUME NEW d \in Jobs, d # c, d \notin others PROVE job'[d] = job[d] /\ job[d].pc # "running"
  BY <1>2, <1>3, <1>8, Zenon
<1>9. ASSUME NEW d \in Jobs PROVE Well(d, job'[d]) /\ Owned(d, job'[d], files')
  <2>1. CASE d = c
    BY <1>1, <1>6, <2>1, Zenon DEF Owned
  <2>2. CASE d \in others
    BY <1>1, <1>7, <2>2, Zenon
  <2>3. CASE d # c /\ d \notin others
    BY <1>1, <1>8, <2>3, Zenon DEF BuildInv
  <2> QED
    BY <2>1, <2>2, <2>3
<1>10. ASSUME NEW d \in Jobs, NEW e \in Jobs, d # e, job'[d].pc = "running", job'[e].pc = "running"
       PROVE  e \in job'[d].beside
  <2>1. d = c \/ d \in others
    BY <1>8, <1>10
  <2>2. e = c \/ e \in others
    BY <1>8, <1>10
  <2>3. CASE d = c
    BY <1>6, <1>10, <2>2, <2>3
  <2>4. CASE d \in others /\ e = c
    BY <1>7, <2>4
  <2>5. CASE d \in others /\ e \in others
    <3>1. d \in Jobs /\ e \in Jobs /\ job[d].pc = "running" /\ job[e].pc = "running"
      BY <1>7, <2>5
    <3>2. e \in job[d].beside
      BY <1>10, <3>1 DEF BuildInv
    <3> QED
      BY <1>7, <2>5, <3>2
  <2> QED
    BY <2>1, <2>2, <2>3, <2>4, <2>5
<1>11. DOMAIN files' = {"profile", "binary"}
  BY <1>1, Zenon DEF BuildInv
<1>12. \A d \in Jobs : (Well(d, job[d]))' <=> Well(d, job'[d])
  BY DEF Well, Almost, Clean
<1>13. \A d \in Jobs : (Owned(d, job[d], files))' <=> Owned(d, job'[d], files')
  BY DEF Owned
<1> QED
  BY <1>4, <1>9, <1>10, <1>11, <1>12, <1>13 DEF BuildInv

\* Every step of the builds keeps the invariant.
LEMMA BuildNextKeeps == ASSUME BuildInv, Build!Next PROVE BuildInv'
<1>1. PICK c \in Jobs :
        \/ Build!Start(c) \/ Build!Detect(c) \/ Build!CheckArgs(c) \/ Build!Resolve(c) \/ Build!Run(c)
        \/ Build!Observe(c) \/ Build!Compile(c) \/ Build!Execute(c) \/ Build!Profile(c)
        \/ Build!calculateCoverage(c) \/ Build!RemoveProfile(c) \/ Build!PipelineStep(c)
        \/ Build!StaticStep(c) \/ Build!CoverageStep(c) \/ Build!Finalize(c)
  BY Zenon DEF Build!Next
<1> QED
  BY <1>1, StartMoves, DetectMoves, CheckArgsMoves, ResolveMoves, RunMoves, ObserveMoves, CompileMoves,
     ExecuteMoves, ProfileMoves, CoverageMoves, RemoveMoves, PipelineStepMoves, StaticStepMoves,
     CoverageStepMoves, FinalizeMoves, Zenon

\* So do the steps of the other parts.
LEMMA BuildStays == ASSUME BuildInv, UNCHANGED buildVars PROVE BuildInv'
<1>1. job' = job /\ files' = files
  BY DEF buildVars
<1>2. \A d \in Jobs : (Well(d, job[d]))' <=> Well(d, job'[d])
  BY DEF Well, Almost, Clean
<1>3. \A d \in Jobs : (Owned(d, job[d], files))' <=> Owned(d, job'[d], files')
  BY DEF Owned
<1> QED
  BY <1>1, <1>2, <1>3 DEF BuildInv

\* A call that nobody made yet.
LEMMA FreshWell ==
  ASSUME NEW c, NEW r, r.tool \in Build!Tools \cup {""}, r.limits.cover \in Int, r.limits.diags \in Int,
         NEW j, j = [Build!NoJob EXCEPT !.ask = r]
  PROVE  Well(c, j) /\ j.pc = "idle"
<1>1. PICK m : m = Build!NoRequest.metrics
  BY Zenon
<1>2. DOMAIN m = {"cover", "diags", "tests"} /\ m.cover = 0 /\ m.diags = 0
  BY <1>1, Zenon DEF Build!NoRequest
<1>3. PICK n : n = Build!NoRequest
  BY Zenon
<1>4. /\ DOMAIN j = JobFields /\ j.ask = r /\ j.pc = "idle" /\ j.err = "" /\ j.steps = <<>> /\ j.failed = ""
      /\ j.from = {} /\ j.beside = {} /\ j.broken = {} /\ j.measured = {} /\ j.metrics = m
  BY <1>1, Zenon DEF Build!NoJob, JobFields
<1>5. Fresh(j)
  <2>1. j.metrics.diags = 0 /\ j.metrics.cover = 0 /\ DOMAIN j.metrics = {"cover", "diags", "tests"}
    BY <1>2, <1>4, Zenon
  <2>2. j.metrics.diags \in Int
    BY <2>1, ZeroInt, Zenon
  <2> QED
    BY <1>4, <2>1, <2>2, Zenon DEF Fresh
<1>6. Typed(j)
  BY <1>4, NoSteps, Zenon DEF Typed
<1>7. FailuresTold(j)
  BY <1>4, NoSteps, Zenon DEF FailuresTold
<1>8. Clean(j)
  BY <1>4, Zenon DEF Clean, Build!Broken
<1> QED
  BY <1>4, <1>5, <1>6, <1>7, <1>8, Zenon DEF Well, Almost

\* The invariant holds in the initial states.
LEMMA BuildInits == Build!Init => BuildInv
<1> SUFFICES ASSUME Build!Init PROVE BuildInv
  OBVIOUS
<1>1. files = [f \in {"profile", "binary"} |-> 0]
  BY Zenon DEF Build!Init
<1>2. PICK asked \in Scenarios : job = [c \in Jobs |-> [Build!NoJob EXCEPT !.ask = asked[c]]]
  BY Zenon DEF Build!Init
<1>3. ASSUME NEW c \in Jobs PROVE Well(c, job[c]) /\ job[c].pc = "idle"
  <2>1. PICK r : r = asked[c]
    OBVIOUS
  <2>2. r.tool \in Build!Tools \cup {""} /\ r.limits.cover \in Int /\ r.limits.diags \in Int
    BY <1>2, <2>1, ScenariosTyped, Zenon
  <2>3. job[c] = [Build!NoJob EXCEPT !.ask = r]
    BY <1>2, <2>1
  <2> QED
    BY <2>2, <2>3, FreshWell, Zenon
<1>4. DOMAIN job = Jobs /\ DOMAIN files = {"profile", "binary"}
  BY <1>1, <1>2
<1>5. \A c \in Jobs : Owned(c, job[c], files)
  BY <1>3 DEF Owned
<1> QED
  BY <1>3, <1>4, <1>5 DEF BuildInv

\* The failure that is named.
LEMMA NamedLast ==
  ASSUME NEW j, Typed(j), FailuresTold(j), Clean(j), j.failed # "" PROVE Build!FailureNamed(j)
<1>1. LastIs(j.steps, j.failed) /\ j.err # ""
  BY Zenon DEF FailuresTold
<1>2. PICK s : s = j.steps
  BY Zenon
<1>3. s \in Seq(StepSet)
  BY <1>2, Zenon DEF Typed
<1>4. DOMAIN s = 1 .. Len(s) /\ Len(s) \in Nat
  BY <1>3, LenProperties, Zenon
<1>5. PICK m \in 1 .. Len(s) : s[m] = <<j.failed, "failed">> /\ \A i \in 1 .. Len(s) : i > m => s[i][2] # "failed"
  BY <1>1, <1>2, Zenon DEF LastIs
<1>6. PICK F : F = Build!FailedSteps(j)
  BY Zenon
<1>7. F = {i \in 1 .. Len(s) : s[i][2] = "failed"}
  BY <1>2, <1>4, <1>6, Zenon DEF Build!FailedSteps
<1>8. s[m][1] = j.failed /\ s[m][2] = "failed"
  <2>1. PICK f : f = j.failed
    BY Zenon
  <2>2. s[m] = <<f, "failed">>
    BY <1>5, <2>1, Zenon
  <2>3. s[m][1] = f /\ s[m][2] = "failed"
    <3>1. <<f, "failed">>[1] = f /\ <<f, "failed">>[2] = "failed"
      BY Paired, Zenon
    <3> QED
      BY <2>2, <3>1, Zenon
  <2> QED
    BY <2>1, <2>3, Zenon
<1>9. m \in F
  BY <1>7, <1>8, Zenon
<1>10. \A k \in F : k <= m
  <2> SUFFICES ASSUME NEW k \in F PROVE k <= m
    BY Zenon
  <2>1. k \in 1 .. Len(s) /\ s[k][2] = "failed"
    BY <1>7, Zenon
  <2>2. ~(k > m)
    BY <1>5, <2>1, Zenon
  <2> QED
    BY <1>4, <1>5, <2>1, <2>2, InOrder, Zenon
<1>11. Build!LastFailed(j) = m
  <2>1. PICK l : l = Build!LastFailed(j)
    BY Zenon
  <2>2. l \in F /\ \A k \in F : k <= l
    <3>1. l = CHOOSE i \in F : \A k \in F : k <= i
      BY <1>6, <2>1, Zenon DEF Build!LastFailed
    <3> QED
      BY <1>9, <1>10, <3>1, Zenon
  <2>3. l <= m /\ m <= l
    BY <1>9, <1>10, <2>2, Zenon
  <2>4. l \in 1 .. Len(s) /\ m \in 1 .. Len(s)
    BY <1>5, <1>7, <2>2, Zenon
  <2> QED
    BY <1>4, <2>1, <2>3, <2>4, InOrder, Zenon
<1>12. j.err # "" /\ F # {} /\ j.failed = j.steps[Build!LastFailed(j)][1]
  BY <1>1, <1>2, <1>8, <1>9, <1>11, Zenon
<1>13. ASSUME j.ask.failFast \/ j.failed = "quality_gate" PROVE F = {Len(j.steps)}
  <2>1. OnlyLast(s)
    BY <1>2, <1>13, Zenon DEF FailuresTold
  <2>2. \A i \in F : i = Len(s)
    BY <1>7, <2>1, Zenon DEF OnlyLast
  <2> QED
    BY <1>2, <1>9, <2>2, Zenon
<1>14. j.failed = "quality_gate" => Build!Broken(j) = {}
  BY DEF Clean
<1> QED
  BY <1>6, <1>12, <1>13, <1>14, Zenon DEF Build!FailureNamed

\* The invariant implies the property.
LEMMA BuildInvEarns == BuildInv => VerdictIsEarned
<1> SUFFICES ASSUME BuildInv, NEW c \in Jobs, job[c].pc = "done"
             PROVE  /\ job[c].err = "" => Build!Broken(job[c]) = {}
                    /\ job[c].from \subseteq {c} \cup job[c].beside
                    /\ job[c].ask.tool = "ci.run_pipeline" /\ job[c].err = "" => Build!PipelineEarned(job[c])
                    /\ job[c].failed # "" => Build!FailureNamed(job[c])
  BY Zenon DEF VerdictIsEarned, Build!VerdictIsEarned
<1>1. PICK j : j = job[c]
  OBVIOUS
<1>2. Typed(j) /\ FailuresTold(j) /\ Clean(j) /\ j.from \subseteq {c} \cup j.beside
      /\ (IsCI(j) /\ j.err = "" => Build!PipelineEarned(j))
  BY <1>1, Zenon DEF BuildInv, Well, Almost
<1>3. j.failed # "" => Build!FailureNamed(j)
  BY <1>2, NamedLast, Zenon
<1> QED
  BY <1>1, <1>2, <1>3, Zenon DEF Clean, IsCI

\* The tools for builds, tests, coverage, the quality gate and the pipeline
\* (repo_tools.go, coverage_tools.go, quality_gate_tools.go,
\* ci_pipeline_tools.go) only tell what the commands did. However the calls of
\* a workspace interleave and whichever commands fail, a call answered without
\* an error had no command fail; a pipeline that passed ran every step it was
\* asked for and what it measured is within its limits; one that failed names
\* the last step that failed; and the coverage a call reports is from a profile
\* written by that call or by one beside it.
THEOREM VerdictsAreEarned == MCSpec => []VerdictIsEarned
<1>1. MCInit => BuildInv
  BY BuildInits, Zenon DEF MCInit
<1>2. BuildInv /\ [MCNext]_<<vars, lifeVars, buildVars>> => BuildInv'
  <2> SUFFICES ASSUME BuildInv, [MCNext]_<<vars, lifeVars, buildVars>> PROVE BuildInv'
    OBVIOUS
  <2>1. CASE Build!Next
    BY <2>1, BuildNextKeeps
  <2>2. CASE UNCHANGED buildVars
    BY <2>2, BuildStays
  <2>3. Build!Next \/ UNCHANGED buildVars
    BY Zenon DEF MCNext
  <2> QED
    BY <2>1, <2>2, <2>3
<1> QED
  BY <1>1, <1>2, BuildInvEarns, PTL DEF MCSpec
================================================================================
