----------------------------- MODULE FsToolsProofs -----------------------------
(***************************************************************************)
(* What is proved of the tools for files and for the workspace (FsTools):  *)
(* for every set of paths, contents and trees, and whichever tools are     *)
(* called in whichever order, the answers are true, the calls stay within  *)
(* the paths the session allows, nothing is lost that was not asked for,   *)
(* and the two ways of doing an operation come to the same.                *)
(***************************************************************************)
EXTENDS FsTools, FiniteSetTheorems, SequenceTheorems, WellFoundedInduction, TLAPS

--------------------------------------------------------------------------------
(* Paths. *)

Path == Seq(Components)

\* What the library says of sequences, of paths.
LEMMA PathLen ==
  ASSUME NEW p \in Path
  PROVE  /\ Len(p) \in Nat /\ SubSeq(p, 1, Len(p)) = p
         /\ \A i \in 1 .. Len(p) : p[i] \in Components
         /\ p # <<>> => Len(p) \in Nat \ {0}
BY LenProperties, SubSeqFull, ElementOfSeq, EmptySeq DEF Path

\* The workspace itself.
LEMMA RootPath == <<>> \in Path /\ Len(<<>>) = 0
BY EmptySeq DEF Path

\* Paths with the same names are the same.
LEMMA PathEqual ==
  ASSUME NEW p \in Path, NEW q \in Path, Len(p) = Len(q), \A i \in 1 .. Len(p) : p[i] = q[i]
  PROVE  p = q
BY SeqEqual DEF Path

\* A part of a path.
LEMMA SubPath ==
  ASSUME NEW p \in Path, NEW m \in Nat \ {0}, NEW n \in Nat, n <= Len(p)
  PROVE  /\ SubSeq(p, m, n) \in Path
         /\ Len(SubSeq(p, m, n)) = IF m <= n THEN n - m + 1 ELSE 0
         /\ \A i \in 1 .. n - m + 1 : SubSeq(p, m, n)[i] = p[m + i - 1]
<1>1. \A i \in m .. n : p[i] \in Components
  BY PathLen
<1>2. m \in Int /\ n \in Int
  OBVIOUS
<1> QED
  BY <1>1, <1>2, SubSeqProperties DEF Path

\* A path put under another one.
LEMMA JoinPaths ==
  ASSUME NEW p \in Path, NEW q \in Path
  PROVE  /\ p \o q \in Path /\ Len(p \o q) = Len(p) + Len(q)
         /\ \A i \in 1 .. Len(p) + Len(q) : (p \o q)[i] = IF i <= Len(p) THEN p[i] ELSE q[i - Len(p)]
BY ConcatProperties DEF Path

\* A prefix, component by component.
LEMMA PrefixOf ==
  ASSUME NEW p \in Path, NEW q \in Path
  PROVE  IsPrefix(p, q) <=> Len(p) <= Len(q) /\ \A i \in 1 .. Len(p) : p[i] = q[i]
<1>1. Len(p) \in Nat /\ Len(q) \in Nat
  BY PathLen
<1>2. SubSeq(p, 1, Len(p)) = p
  BY PathLen
<1>3. ASSUME Len(p) <= Len(q)
      PROVE  /\ SubSeq(q, 1, Len(p)) \in Path /\ Len(SubSeq(q, 1, Len(p))) = Len(p)
             /\ \A i \in 1 .. Len(p) : SubSeq(q, 1, Len(p))[i] = q[i]
  <2>1. \A i \in 1 .. Len(p) : q[i] \in Components
    BY <1>1, <1>3, PathLen
  <2> QED
    BY <1>1, <1>3, <2>1, SubPath
<1>4. ASSUME IsPrefix(p, q) PROVE Len(p) <= Len(q) /\ \A i \in 1 .. Len(p) : p[i] = q[i]
  BY <1>2, <1>3, <1>4 DEF IsPrefix
<1>5. ASSUME Len(p) <= Len(q), \A i \in 1 .. Len(p) : p[i] = q[i] PROVE IsPrefix(p, q)
  <2>1. p = SubSeq(q, 1, Len(p))
    BY <1>3, <1>5, PathEqual
  <2> QED
    BY <1>2, <1>5, <2>1 DEF IsPrefix
<1> QED
  BY <1>4, <1>5

\* Prefixes are ordered, and two prefixes of one path are comparable.
LEMMA PrefixOrder ==
  ASSUME NEW p \in Path, NEW q \in Path, NEW s \in Path
  PROVE  /\ IsPrefix(p, p)
         /\ IsPrefix(p, q) /\ IsPrefix(q, s) => IsPrefix(p, s)
         /\ IsPrefix(p, q) /\ IsPrefix(q, p) => p = q
         /\ IsPrefix(p, s) /\ IsPrefix(q, s) => IsPrefix(p, q) \/ IsPrefix(q, p)
<1>1. Len(p) \in Nat /\ Len(q) \in Nat /\ Len(s) \in Nat
  BY PathLen
<1>2. IsPrefix(p, p)
  BY <1>1, PrefixOf
<1>3. IsPrefix(p, q) /\ IsPrefix(q, s) => IsPrefix(p, s)
  BY <1>1, PrefixOf
<1>4. IsPrefix(p, q) /\ IsPrefix(q, p) => p = q
  <2>1. HAVE IsPrefix(p, q) /\ IsPrefix(q, p)
  <2>2. Len(p) = Len(q) /\ \A i \in 1 .. Len(p) : p[i] = q[i]
    BY <1>1, <2>1, PrefixOf
  <2> QED
    BY <2>2, PathEqual
<1>5. IsPrefix(p, s) /\ IsPrefix(q, s) => IsPrefix(p, q) \/ IsPrefix(q, p)
  BY <1>1, PrefixOf
<1> QED
  BY <1>2, <1>3, <1>4, <1>5

\* The directory of a path.
LEMMA FrontOf ==
  ASSUME NEW p \in Path, NEW q \in Path
  PROVE  /\ Front(q) \in Path /\ IsPrefix(Front(q), q)
         /\ q = <<>> => Front(q) = q
         /\ q # <<>> => Front(q) # q
         /\ IsPrefix(p, q) /\ p # q => IsPrefix(p, Front(q))
<1>1. Len(p) \in Nat /\ Len(q) \in Nat
  BY PathLen
<1>2. CASE q = <<>>
  <2>1. Len(q) = 0
    BY <1>2, PathLen, RootPath
  <2>2. Front(q) = <<>>
    BY <1>1, <2>1, SubSeqEmpty DEF Front
  <2>3. IsPrefix(p, q) => p = q
    BY <1>1, <2>1, PrefixOf, PathEqual
  <2> QED
    BY <1>2, <2>2, <2>3, PrefixOrder
<1>3. CASE q # <<>>
  <2>1. Len(q) \in Nat \ {0} /\ Len(q) - 1 \in Nat
    BY <1>3, PathLen, RootPath
  <2>2. \A i \in 1 .. Len(q) - 1 : q[i] \in Components
    BY <2>1, PathLen
  <2>3. /\ Front(q) \in Path /\ Len(Front(q)) = Len(q) - 1
        /\ \A i \in 1 .. Len(q) - 1 : Front(q)[i] = q[i]
    <3>1. /\ Front(q) \in Path /\ Len(Front(q)) = IF 1 <= Len(q) - 1 THEN Len(q) - 1 - 1 + 1 ELSE 0
          /\ \A i \in 1 .. Len(q) - 1 - 1 + 1 : Front(q)[i] = q[1 + i - 1]
      BY <1>1, <2>1, SubPath DEF Front
    <3>2. Len(Front(q)) = Len(q) - 1
      <4>1. Len(Front(q)) = IF 1 <= Len(q) - 1 THEN Len(q) - 1 - 1 + 1 ELSE 0
        BY <3>1, Zenon
      <4> HIDE DEF Front
      <4>2. CASE 1 <= Len(q) - 1
        BY <2>1, <4>1, <4>2
      <4>3. CASE ~(1 <= Len(q) - 1)
        BY <2>1, <4>1, <4>3
      <4> QED
        BY <4>2, <4>3
    <3>3. ASSUME NEW i \in 1 .. Len(q) - 1 PROVE Front(q)[i] = q[i]
      <4>1. i \in 1 .. Len(q) - 1 - 1 + 1 /\ 1 + i - 1 = i
        BY <2>1
      <4> QED
        BY <3>1, <4>1
    <3> QED
      BY <3>1, <3>2, <3>3
  <2>4. IsPrefix(Front(q), q) /\ Front(q) # q
    BY <2>1, <2>3, PrefixOf
  <2>5. ASSUME IsPrefix(p, q), p # q PROVE IsPrefix(p, Front(q))
    <3>1. Len(p) <= Len(q) /\ \A i \in 1 .. Len(p) : p[i] = q[i]
      BY <2>5, PrefixOf
    <3>2. Len(p) # Len(q)
      BY <2>5, <3>1, PathEqual
    <3>3. Len(p) <= Len(q) - 1
      BY <1>1, <3>1, <3>2
    <3> QED
      BY <1>1, <2>1, <2>3, <3>1, <3>3, PrefixOf
  <2> QED
    BY <1>3, <2>3, <2>4, <2>5
<1> QED
  BY <1>2, <1>3

\* The paths that lead to a path.
LEMMA PrefixesOf ==
  ASSUME NEW p \in Path, NEW q \in Path, IsPrefix(p, q)
  PROVE  p \in Prefixes(q)
<1>1. Len(p) \in Nat /\ Len(q) \in Nat /\ Len(p) <= Len(q)
  BY PathLen, PrefixOf
<1>2. p = SubSeq(q, 1, Len(p))
  BY PathLen DEF IsPrefix
<1>3. \E l \in 0 .. Len(q) : p = SubSeq(q, 1, l)
  <2>1. Len(p) \in 0 .. Len(q)
    BY <1>1
  <2> QED
    BY <1>2, <2>1, Zenon
<1> QED
  BY <1>3, Zenon DEF Prefixes

\* A path under src, as it is called when src is called dst.
Onto(dst, src, q) == dst \o SubSeq(q, Len(src) + 1, Len(q))

\* Where a move takes what is under its source.
LEMMA OntoOf ==
  ASSUME NEW src \in Path, NEW dst \in Path, NEW q \in Path, IsPrefix(src, q)
  PROVE  /\ Onto(dst, src, q) \in Path
         /\ Len(Onto(dst, src, q)) = Len(dst) + Len(q) - Len(src)
         /\ \A i \in 1 .. Len(dst) : Onto(dst, src, q)[i] = dst[i]
         /\ \A i \in Len(dst) + 1 .. Len(dst) + Len(q) - Len(src) :
              Onto(dst, src, q)[i] = q[i - Len(dst) + Len(src)]
         /\ IsPrefix(dst, Onto(dst, src, q))
<1> DEFINE tail == SubSeq(q, Len(src) + 1, Len(q))
<1>1. Len(src) \in Nat /\ Len(dst) \in Nat /\ Len(q) \in Nat /\ Len(src) <= Len(q)
  BY PathLen, PrefixOf
<1>2. \A i \in Len(src) + 1 .. Len(q) : q[i] \in Components
  BY <1>1, PathLen
<1>3. /\ tail \in Path /\ Len(tail) = Len(q) - Len(src)
      /\ \A i \in 1 .. Len(q) - Len(src) : tail[i] = q[Len(src) + i]
  <2>1. /\ tail \in Path
        /\ Len(tail) = IF Len(src) + 1 <= Len(q) THEN Len(q) - (Len(src) + 1) + 1 ELSE 0
        /\ \A i \in 1 .. Len(q) - (Len(src) + 1) + 1 : tail[i] = q[Len(src) + 1 + i - 1]
    BY <1>1, <1>2, SubPath
  <2> QED
    BY <1>1, <2>1
<1> HIDE DEF tail
<1>4. /\ dst \o tail \in Path /\ Len(dst \o tail) = Len(dst) + Len(tail)
      /\ \A i \in 1 .. Len(dst) + Len(tail) :
           (dst \o tail)[i] = IF i <= Len(dst) THEN dst[i] ELSE tail[i - Len(dst)]
  BY <1>3, JoinPaths
<1>5. Onto(dst, src, q) = dst \o tail
  BY DEF Onto, tail
<1>6. /\ Len(Onto(dst, src, q)) = Len(dst) + Len(q) - Len(src)
      /\ \A i \in 1 .. Len(dst) : Onto(dst, src, q)[i] = dst[i]
  BY <1>1, <1>3, <1>4, <1>5
<1>7. ASSUME NEW i \in Len(dst) + 1 .. Len(dst) + Len(q) - Len(src)
      PROVE  Onto(dst, src, q)[i] = q[i - Len(dst) + Len(src)]
  <2>1. i \in 1 .. Len(dst) + Len(tail) /\ ~(i <= Len(dst)) /\ i - Len(dst) \in 1 .. Len(q) - Len(src)
    BY <1>1, <1>3
  <2>2. tail[i - Len(dst)] = q[Len(src) + (i - Len(dst))]
    BY <1>3, <2>1
  <2>3. Len(src) + (i - Len(dst)) = i - Len(dst) + Len(src)
    BY <1>1
  <2> QED
    BY <1>4, <1>5, <2>1, <2>2, <2>3
<1>8. IsPrefix(dst, Onto(dst, src, q))
  <2>1. Len(dst) <= Len(Onto(dst, src, q)) /\ \A i \in 1 .. Len(dst) : dst[i] = Onto(dst, src, q)[i]
    BY <1>1, <1>6
  <2>2. Onto(dst, src, q) \in Path
    BY <1>4, <1>5
  <2> QED
    BY <2>1, <2>2, PrefixOf
<1> QED
  BY <1>4, <1>5, <1>6, <1>7, <1>8

\* The same of a path with a name of its own.
Moved(dst, src, q, m) ==
  /\ m \in Path /\ Len(m) = Len(dst) + Len(q) - Len(src) /\ IsPrefix(dst, m)
  /\ \A i \in 1 .. Len(dst) : m[i] = dst[i]
  /\ \A i \in Len(dst) + 1 .. Len(dst) + Len(q) - Len(src) : m[i] = q[i - Len(dst) + Len(src)]

\* The same, in the words of Moved.
LEMMA OntoMoved ==
  ASSUME NEW src \in Path, NEW dst \in Path, NEW q \in Path, IsPrefix(src, q), NEW m, m = Onto(dst, src, q)
  PROVE  Moved(dst, src, q, m)
<1>1. m \in Path /\ Len(m) = Len(dst) + Len(q) - Len(src) /\ IsPrefix(dst, m)
  BY OntoOf
<1>2. ASSUME NEW i \in 1 .. Len(dst) PROVE m[i] = dst[i]
  BY <1>1, <1>2, PrefixOf
<1>3. ASSUME NEW i \in Len(dst) + 1 .. Len(dst) + Len(q) - Len(src)
      PROVE  m[i] = q[i - Len(dst) + Len(src)]
  BY OntoOf
<1> QED
  BY <1>1, <1>2, <1>3 DEF Moved

\* Renaming keeps what lies under what, and can be undone.
LEMMA OntoKeeps ==
  ASSUME NEW src \in Path, NEW dst \in Path, NEW p \in Path, NEW q \in Path,
         IsPrefix(src, p), IsPrefix(src, q)
  PROVE  /\ Onto(dst, src, src) = dst
         /\ Onto(src, dst, Onto(dst, src, q)) = q
         /\ IsPrefix(p, q) /\ p # q =>
              IsPrefix(Onto(dst, src, p), Onto(dst, src, q)) /\ Onto(dst, src, p) # Onto(dst, src, q)
<1>1. Len(src) \in Nat /\ Len(dst) \in Nat /\ Len(p) \in Nat /\ Len(q) \in Nat /\ Len(src) <= Len(q)
      /\ Len(src) <= Len(p)
  BY PathLen, PrefixOf
<1>2. Onto(dst, src, src) = dst
  <2>1. IsPrefix(src, src)
    BY PrefixOrder
  <2>2. Onto(dst, src, src) \in Path /\ Len(Onto(dst, src, src)) = Len(dst) + Len(src) - Len(src)
        /\ \A i \in 1 .. Len(dst) : Onto(dst, src, src)[i] = dst[i]
    <3>1. Moved(dst, src, src, Onto(dst, src, src))
      BY <2>1, OntoMoved
    <3> QED
      BY <3>1 DEF Moved
  <2> QED
    BY <1>1, <2>2, PathEqual
<1>3. Onto(src, dst, Onto(dst, src, q)) = q
  <2> DEFINE m == Onto(dst, src, q)
             b == Onto(src, dst, m)
  <2>1. /\ m \in Path /\ Len(m) = Len(dst) + Len(q) - Len(src) /\ IsPrefix(dst, m)
        /\ \A i \in Len(dst) + 1 .. Len(dst) + Len(q) - Len(src) : m[i] = q[i - Len(dst) + Len(src)]
    <3>1. Moved(dst, src, q, m)
      BY OntoMoved
    <3> QED
      BY <3>1 DEF Moved
  <2> HIDE DEF m
  <2>2. /\ b \in Path /\ Len(b) = Len(src) + Len(m) - Len(dst)
        /\ \A i \in 1 .. Len(src) : b[i] = src[i]
        /\ \A i \in Len(src) + 1 .. Len(src) + Len(m) - Len(dst) : b[i] = m[i - Len(src) + Len(dst)]
    <3>1. Moved(src, dst, m, b)
      BY <2>1, OntoMoved
    <3> QED
      BY <3>1 DEF Moved
  <2> HIDE DEF b
  <2>3. Len(b) = Len(q)
    BY <1>1, <2>1, <2>2
  <2>4. ASSUME NEW i \in 1 .. Len(q) PROVE b[i] = q[i]
    <3>1. CASE i <= Len(src)
      BY <1>1, <2>2, <3>1, PrefixOf
    <3>2. CASE i > Len(src)
      <4>1. b[i] = m[i - Len(src) + Len(dst)]
        BY <1>1, <2>1, <2>2, <3>2
      <4>2. m[i - Len(src) + Len(dst)] = q[(i - Len(src) + Len(dst)) - Len(dst) + Len(src)]
        BY <1>1, <2>1, <3>2
      <4>3. (i - Len(src) + Len(dst)) - Len(dst) + Len(src) = i
        BY <1>1
      <4> QED
        BY <4>1, <4>2, <4>3
    <3> QED
      BY <1>1, <3>1, <3>2
  <2>5. b = q
    BY <2>2, <2>3, <2>4, PathEqual
  <2> QED
    BY <2>5 DEF b, m
<1>4. ASSUME IsPrefix(p, q), p # q
      PROVE  IsPrefix(Onto(dst, src, p), Onto(dst, src, q)) /\ Onto(dst, src, p) # Onto(dst, src, q)
  <2> DEFINE m == Onto(dst, src, p)
             n == Onto(dst, src, q)
  <2>1. /\ m \in Path /\ Len(m) = Len(dst) + Len(p) - Len(src)
        /\ \A i \in 1 .. Len(dst) : m[i] = dst[i]
        /\ \A i \in Len(dst) + 1 .. Len(dst) + Len(p) - Len(src) : m[i] = p[i - Len(dst) + Len(src)]
    <3>1. Moved(dst, src, p, m)
      BY OntoMoved
    <3> QED
      BY <3>1 DEF Moved
  <2>2. /\ n \in Path /\ Len(n) = Len(dst) + Len(q) - Len(src)
        /\ \A i \in 1 .. Len(dst) : n[i] = dst[i]
        /\ \A i \in Len(dst) + 1 .. Len(dst) + Len(q) - Len(src) : n[i] = q[i - Len(dst) + Len(src)]
    <3>1. Moved(dst, src, q, n)
      BY OntoMoved
    <3> QED
      BY <3>1 DEF Moved
  <2> HIDE DEF m, n
  <2>3. Len(p) < Len(q) /\ \A i \in 1 .. Len(p) : p[i] = q[i]
    <3>1. Len(p) <= Len(q) /\ \A i \in 1 .. Len(p) : p[i] = q[i]
      BY <1>4, PrefixOf
    <3>2. Len(p) # Len(q)
      BY <1>4, <3>1, PathEqual
    <3> QED
      BY <1>1, <3>1, <3>2
  <2>4. Len(m) < Len(n)
    BY <1>1, <2>1, <2>2, <2>3
  <2>5. ASSUME NEW i \in 1 .. Len(m) PROVE m[i] = n[i]
    <3>1. CASE i <= Len(dst)
      BY <1>1, <2>1, <2>2, <3>1
    <3>2. CASE i > Len(dst)
      <4>1. i \in Len(dst) + 1 .. Len(dst) + Len(p) - Len(src)
            /\ i \in Len(dst) + 1 .. Len(dst) + Len(q) - Len(src)
            /\ i - Len(dst) + Len(src) \in 1 .. Len(p)
        BY <1>1, <2>1, <2>3, <3>2
      <4> QED
        BY <2>1, <2>2, <2>3, <4>1
    <3> QED
      BY <1>1, <2>1, <3>1, <3>2
  <2>6. IsPrefix(m, n) /\ m # n
    BY <1>1, <2>1, <2>2, <2>4, <2>5, PrefixOf
  <2> QED
    BY <2>6 DEF m, n
<1> QED
  BY <1>2, <1>3, <1>4

\* Paths is a set of paths that holds the directories on the way to each.
LEMMA PathsAre ==
  /\ Paths \subseteq Path /\ Root \in Paths
  /\ \A A \in Allowed : A \subseteq Path
  /\ \A p \in Paths, q \in Path : IsPrefix(q, p) => q \in Paths /\ q \in Prefixes(p)
  /\ \A p \in Paths : Front(p) \in Paths
<1>1. Paths \subseteq Path /\ Root \in Paths /\ \A A \in Allowed : A \subseteq Path
  BY PathsTyped, PathsClosed DEF Path, Root
<1>2. ASSUME NEW p \in Paths, NEW q \in Path, IsPrefix(q, p) PROVE q \in Paths /\ q \in Prefixes(p)
  BY <1>1, <1>2, PrefixesOf, PathsClosed
<1>3. ASSUME NEW p \in Paths PROVE Front(p) \in Paths
  BY <1>1, <1>2, FrontOf
<1> QED
  BY <1>1, <1>2, <1>3

\* What lies under what: the order of paths, as the trees below need it.
LEMMA UnderOf ==
  ASSUME NEW p \in Paths, NEW q \in Paths
  PROVE  /\ q \in Under(p) <=> IsPrefix(p, q)
         /\ p \in Under(p)
         /\ IsPrefix(Root, p)
         /\ IsPrefix(p, Root) => p = Root
<1>1. p \in Path /\ q \in Path /\ Root \in Path
  BY PathsAre
<1>2. Len(Root) = 0
  BY RootPath DEF Root
<1>3. IsPrefix(Root, p)
  BY <1>1, <1>2, PathLen, PrefixOf
<1> QED
  BY <1>1, <1>3, PrefixOrder DEF Under

--------------------------------------------------------------------------------
(* What the calls of package os and of the shell do to a tree. *)

\* A node is nothing, a directory or a file, and its kind says which.
LEMMA NodeOf ==
  ASSUME NEW x, Node(x)
  PROVE  /\ x.kind \in {"none", "dir", "file"}
         /\ x.kind = "none" <=> x = Absent
         /\ x.kind = "dir" <=> x = Dir
         /\ x.kind = "file" <=> x = File(x.data)
         /\ x.data \in Content
<1>1. <<>> \in Content
  BY EmptySeq DEF Content
<1>2. CASE x \in {Absent, Dir}
  BY <1>1, <1>2 DEF Absent, Dir, File
<1>3. CASE x = File(x.data) /\ x.data \in Content
  BY <1>3 DEF Absent, Dir, File
<1> QED
  BY <1>2, <1>3 DEF Node

\* What tells the kinds of entries apart.
LEMMA Nodes ==
  /\ Absent.kind = "none" /\ Dir.kind = "dir" /\ Node(Absent) /\ Node(Dir) /\ Absent # Dir
  /\ \A c : File(c).kind = "file" /\ File(c).data = c /\ File(c) # Absent
  /\ \A c \in Content : Node(File(c))
BY DEF Node, Absent, Dir, File

\* In a tree what exists lies in directories only, up to the root.
LEMMA TreeNests ==
  ASSUME NEW t, IsTree(t), NEW p \in Paths, NEW q \in Paths, IsPrefix(p, q), Exists(t, q)
  PROVE  Exists(t, p) /\ (p # q => IsDir(t, p))
BY DEF IsTree, Nested, Exists, IsDir

\* A tree of directories and files is one that a file system can hold.
LEMMA TreeIsWellFormed ==
  ASSUME NEW t, IsTree(t)
  PROVE  WellFormed(t)
<1> SUFFICES ASSUME NEW p \in Paths, Exists(t, p) PROVE IsDir(t, Front(p))
  BY DEF WellFormed
<1>1. p \in Path /\ Front(p) \in Paths /\ Front(p) \in Path
  BY PathsAre
<1>2. CASE p = Root
  BY <1>1, <1>2, FrontOf DEF IsTree, Nested, Root
<1>3. CASE p # Root
  BY <1>1, <1>3, FrontOf, TreeNests DEF Root
<1> QED
  BY <1>2, <1>3

\* The files outside X are as they were.
Keeps(t, v, X) == \A q \in Paths : IsFile(t, q) /\ q \notin X => v[q] = t[q]

\* What two steps keep, one after the other.
LEMMA KeepsOn ==
  ASSUME NEW t, NEW v, NEW w, NEW X, NEW Y, Keeps(t, v, X), Keeps(v, w, Y)
  PROVE  Keeps(t, t, X) /\ Keeps(t, w, X \cup Y)
BY DEF Keeps, IsFile

\* What changes lies in the allowed paths, or is a directory made on the way to one.
Within(allowed, t, v) ==
  \A p \in Paths : v[p] # t[p] =>
    \/ pathAllowed(p, allowed)
    \/ t[p] = Absent /\ v[p] = Dir /\ \E a \in allowed : IsPrefix(p, a)

\* Which is all that a tool other than fs.patch may change.
LEMMA WithinConfined ==
  \A A, t, v, r : Within(A, t, v) => ConfinedTo(A, t, v, r)
BY DEF Within, ConfinedTo

\* A step that stays within the allowed paths may follow another.
LEMMA WithinOn ==
  ASSUME NEW A, NEW t, NEW v, NEW w, Within(A, t, v), Within(A, v, w)
  PROVE  Within(A, t, t) /\ Within(A, t, w)
<1>1. Within(A, t, t)
  BY DEF Within
<1>2. ASSUME NEW p \in Paths, w[p] # t[p], ~pathAllowed(p, A)
      PROVE  t[p] = Absent /\ w[p] = Dir /\ \E a \in A : IsPrefix(p, a)
  <2>1. v[p] # t[p] => t[p] = Absent /\ v[p] = Dir /\ \E a \in A : IsPrefix(p, a)
    BY <1>2 DEF Within
  <2>2. w[p] # v[p] => v[p] = Absent /\ w[p] = Dir /\ \E a \in A : IsPrefix(p, a)
    BY <1>2 DEF Within
  <2> QED
    BY <1>2, <2>1, <2>2, Nodes
<1> QED
  BY <1>1, <1>2 DEF Within

\* os.MkdirAll, mkdir -p of p, or of a directory on the way to p: where p is allowed, it
\* stays within what is, since an allowed path and a directory on the way to p compare.
LEMMA MkdirAllEffect ==
  ASSUME NEW t, IsTree(t), NEW A, A \subseteq Path, NEW p \in Paths, pathAllowed(p, A),
         NEW x \in Paths, IsPrefix(x, p), NEW v, v = MkdirAll(t, x).tree
  PROVE  /\ IsTree(v) /\ Within(A, t, v) /\ Keeps(t, v, {})
         /\ MkdirAll(t, x).ok \in BOOLEAN
         /\ MkdirAll(t, x).ok => IsDir(v, x)
         /\ \A q \in Paths : Exists(t, q) => Exists(v, q)
         /\ \A q \in Paths : v[q] # t[q] => IsPrefix(q, x)
<1> DEFINE w == [q \in Paths |-> IF IsPrefix(q, x) THEN Dir ELSE t[q]]
<1>1. CASE \E q \in Prefixes(x) : IsFile(t, q)
  <2>1. v = t /\ MkdirAll(t, x).ok = FALSE
    BY <1>1, Zenon DEF MkdirAll, Failed
  <2> QED
    BY <2>1 DEF Within, Keeps
<1>2. CASE ~ \E q \in Prefixes(x) : IsFile(t, q)
  <2>1. v = w /\ MkdirAll(t, x).ok = TRUE
    BY <1>2 DEF MkdirAll, Done
  <2>2. /\ v = [q \in Paths |-> v[q]]
        /\ \A q \in Paths : v[q] = IF IsPrefix(q, x) THEN Dir ELSE t[q]
    BY <2>1
  <2> HIDE DEF w
  <2>3. ASSUME NEW q \in Paths, IsPrefix(q, x) PROVE t[q] \in {Absent, Dir}
    <3>1. ~IsFile(t, q) /\ Node(t[q])
      BY <1>2, <2>3, PathsAre DEF IsTree
    <3> QED
      BY <3>1, NodeOf DEF IsFile
  <2>4. Nested(v)
    <3>1. IsDir(v, Root)
      BY <2>2, UnderOf, PathsAre, Nodes DEF IsDir
    <3>2. ASSUME NEW q \in Paths, NEW s \in Paths, Exists(v, s), IsPrefix(q, s), q # s
          PROVE  IsDir(v, q)
      <4>1. CASE IsPrefix(s, x)
        <5>1. IsPrefix(q, x)
          BY <3>2, <4>1, PathsAre, PrefixOrder
        <5> QED
          BY <2>2, <5>1, Nodes DEF IsDir
      <4>2. CASE ~IsPrefix(s, x)
        <5>1. Exists(t, s)
          BY <2>2, <3>2, <4>2 DEF Exists
        <5>2. IsDir(t, q)
          BY <3>2, <5>1, TreeNests
        <5> QED
          BY <2>2, <5>2, Nodes DEF IsDir
      <4> QED
        BY <4>1, <4>2
    <3> QED
      BY <3>1, <3>2 DEF Nested
  <2>5. IsTree(v)
    BY <2>2, <2>4, Nodes DEF IsTree
  <2>6. Keeps(t, v, {})
    <3> SUFFICES ASSUME NEW q \in Paths, IsFile(t, q) PROVE v[q] = t[q]
      BY DEF Keeps
    <3> QED
      BY <2>2, <2>3, Nodes DEF IsFile
  <2>7. Within(A, t, v)
    <3> SUFFICES ASSUME NEW q \in Paths, v[q] # t[q], ~pathAllowed(q, A)
                 PROVE  t[q] = Absent /\ v[q] = Dir /\ \E a \in A : IsPrefix(q, a)
      BY DEF Within
    <3>1. IsPrefix(q, x) /\ v[q] = Dir /\ t[q] = Absent
      BY <2>2, <2>3
    <3>2. IsPrefix(q, p) /\ q \in Path /\ p \in Path
      BY <3>1, PathsAre, PrefixOrder
    <3>3. PICK a \in A : IsPrefix(a, p)
      BY DEF pathAllowed
    <3>4. IsPrefix(a, q) \/ IsPrefix(q, a)
      BY <3>2, <3>3, PrefixOrder
    <3> QED
      BY <3>1, <3>4 DEF pathAllowed
  <2>8. IsDir(v, x)
    BY <2>2, PathsAre, PrefixOrder, Nodes DEF IsDir
  <2>9. \A q \in Paths : (Exists(t, q) => Exists(v, q)) /\ (v[q] # t[q] => IsPrefix(q, x))
    BY <2>2, Nodes DEF Exists
  <2> QED
    BY <2>1, <2>5, <2>6, <2>7, <2>8, <2>9
<1> QED
  BY <1>1, <1>2

\* One node changes, of a path in a directory: it is not nothing now, and
\* was no directory before.
LEMMA NodeSet ==
  ASSUME NEW t, IsTree(t), NEW A, NEW p \in Paths, pathAllowed(p, A), p # Root,
         IsDir(t, Front(p)), ~IsDir(t, p), NEW v, Node(v[p]), v[p] # Absent,
         v = [q \in Paths |-> v[q]], \A q \in Paths : q # p => v[q] = t[q]
  PROVE  IsTree(v) /\ Within(A, t, v)
<1>1. /\ v = [q \in Paths |-> v[q]]
      /\ \A q \in Paths : q # p => v[q] = t[q]
  OBVIOUS
<1>2. Nested(v)
  <2>1. Exists(v, Root) => IsDir(v, Root)
    BY <1>1, PathsAre DEF IsTree, Nested, Exists, IsDir
  <2>2. ASSUME NEW q \in Paths, NEW s \in Paths, Exists(v, s), IsPrefix(q, s), q # s
        PROVE  IsDir(v, q)
    <3>1. CASE s = p
      <4>1. IsPrefix(q, Front(p)) /\ Front(p) \in Paths
        BY <2>2, <3>1, PathsAre, FrontOf
      <4>2. Exists(t, Front(p))
        BY DEF Exists, IsDir
      <4>3. IsDir(t, q)
        BY <4>1, <4>2, TreeNests
      <4> QED
        BY <1>1, <2>2, <3>1, <4>3 DEF IsDir
    <3>2. CASE s # p
      <4>1. Exists(t, s)
        BY <1>1, <2>2, <3>2 DEF Exists
      <4>2. IsDir(t, q)
        BY <2>2, <4>1, TreeNests
      <4> QED
        BY <1>1, <4>2 DEF IsDir
    <3> QED
      BY <3>1, <3>2
  <2> QED
    BY <2>1, <2>2 DEF Nested
<1>3. \A q \in Paths : Node(v[q])
  BY <1>1 DEF IsTree
<1>4. IsTree(v)
  BY <1>1, <1>2, <1>3 DEF IsTree
<1>5. Within(A, t, v)
  BY <1>1 DEF Within
<1> QED
  BY <1>4, <1>5

\* os.Mkdir, mkdir.
LEMMA MkdirEffect ==
  ASSUME NEW t, IsTree(t), NEW A, NEW p \in Paths, pathAllowed(p, A), NEW v, v = Mkdir(t, p).tree
  PROVE  /\ IsTree(v) /\ Within(A, t, v) /\ Keeps(t, v, {})
         /\ Mkdir(t, p).ok \in BOOLEAN
         /\ Mkdir(t, p).ok => IsDir(v, p)
<1>1. CASE Exists(t, p) \/ p = Root \/ ~IsDir(t, Front(p))
  <2>1. v = t /\ Mkdir(t, p).ok = FALSE
    BY <1>1 DEF Mkdir, Failed
  <2> QED
    BY <2>1 DEF Within, Keeps
<1>2. CASE ~Exists(t, p) /\ p # Root /\ IsDir(t, Front(p))
  <2>1. v = [t EXCEPT ![p] = Dir] /\ Mkdir(t, p).ok = TRUE
    BY <1>2 DEF Mkdir, Done
  <2>2. ~IsDir(t, p) /\ ~IsFile(t, p)
    BY <1>2 DEF Exists, IsDir, IsFile
  <2>3. v = [q \in Paths |-> v[q]] /\ v[p] = Dir /\ \A q \in Paths : q # p => v[q] = t[q]
    BY <2>1 DEF IsTree
  <2>4. IsTree(v) /\ Within(A, t, v)
    BY <1>2, <2>2, <2>3, NodeSet, Nodes
  <2> QED
    BY <2>1, <2>2, <2>3, <2>4, Nodes DEF Keeps, IsDir, IsFile
<1> QED
  BY <1>1, <1>2

\* os.WriteFile, cat >.
LEMMA PutEffect ==
  ASSUME NEW t, IsTree(t), NEW A, NEW p \in Paths, pathAllowed(p, A), NEW c \in Content,
         NEW v, v = Put(t, p, c).tree
  PROVE  /\ IsTree(v) /\ Within(A, t, v) /\ Keeps(t, v, {p})
         /\ Put(t, p, c).ok \in BOOLEAN
         /\ Put(t, p, c).ok => v[p] = File(c)
<1>1. CASE p = Root \/ IsDir(t, p) \/ ~IsDir(t, Front(p))
  <2>1. v = t /\ Put(t, p, c).ok = FALSE
    BY <1>1 DEF Put, Failed
  <2> QED
    BY <2>1 DEF Within, Keeps
<1>2. CASE p # Root /\ ~IsDir(t, p) /\ IsDir(t, Front(p))
  <2>1. v = [t EXCEPT ![p] = File(c)] /\ Put(t, p, c).ok = TRUE
    BY <1>2 DEF Put, Done
  <2>2. Node(File(c)) /\ File(c) # Absent
    BY Nodes
  <2>3. v = [q \in Paths |-> v[q]] /\ v[p] = File(c) /\ \A q \in Paths : q # p => v[q] = t[q]
    BY <2>1 DEF IsTree
  <2>4. IsTree(v) /\ Within(A, t, v)
    BY <1>2, <2>2, <2>3, NodeSet
  <2> QED
    BY <2>1, <2>3, <2>4 DEF Keeps
<1> QED
  BY <1>1, <1>2

\* os.RemoveAll, rm -rf.
LEMMA RemoveAllEffect ==
  ASSUME NEW t, IsTree(t), NEW A, A \subseteq Path, NEW p \in Paths, pathAllowed(p, A),
         NEW v, v = RemoveAll(t, p)
  PROVE  /\ IsTree(v) /\ Within(A, t, v) /\ Keeps(t, v, Under(p))
         /\ \A q \in Under(p) : v[q] = Absent /\ ~Exists(v, q)
         /\ \A q \in Paths : q \notin Under(p) => v[q] = t[q]
<1>1. /\ v = [q \in Paths |-> v[q]]
      /\ \A q \in Paths : v[q] = IF q \in Under(p) THEN Absent ELSE t[q]
  BY DEF RemoveAll
<1>2. \A q \in Paths : Exists(v, q) => q \notin Under(p) /\ Exists(t, q) /\ v[q] = t[q]
  BY <1>1, Nodes DEF Exists
<1>3. Nested(v)
  <2>1. Exists(v, Root) => IsDir(v, Root)
    BY <1>2, PathsAre DEF IsTree, Nested, Exists, IsDir
  <2>2. ASSUME NEW q \in Paths, NEW s \in Paths, Exists(v, s), IsPrefix(q, s), q # s
        PROVE  IsDir(v, q)
    <3>1. s \notin Under(p) /\ IsDir(t, q)
      BY <1>2, <2>2, TreeNests
    <3>2. q \notin Under(p)
      BY <2>2, <3>1, PathsAre, PrefixOrder, UnderOf
    <3> QED
      BY <1>1, <3>1, <3>2 DEF IsDir
  <2> QED
    BY <2>1, <2>2 DEF Nested
<1>4. IsTree(v)
  BY <1>1, <1>3, Nodes DEF IsTree
<1>5. ASSUME NEW q \in Paths, v[q] # t[q] PROVE pathAllowed(q, A)
  <2>1. IsPrefix(p, q)
    BY <1>1, <1>5, UnderOf
  <2> QED
    BY <2>1, PathsAre, PrefixOrder DEF pathAllowed
<1>6. \A q \in Under(p) : v[q] = Absent /\ ~Exists(v, q)
  BY <1>1, Nodes DEF Exists, Under
<1> QED
  BY <1>1, <1>4, <1>5, <1>6 DEF Within, Keeps

\* The subtree at src is called dst: a free name, in a directory, that is not below src.
LEMMA GraftEffect ==
  ASSUME NEW t, IsTree(t), NEW A, A \subseteq Path, NEW src \in Paths, NEW dst \in Paths,
         pathAllowed(dst, A), Exists(t, src), ~Exists(t, dst), ~IsPrefix(src, dst),
         IsDir(t, Front(dst)), NEW v, v = Graft(t, src, dst)
  PROVE  /\ IsTree(v) /\ Within(A, t, v) /\ Keeps(t, v, {})
         /\ v[dst] = t[src]
         /\ \A q \in Under(src) : q \notin Under(dst) /\ v[q] = t[q]
         /\ \A q \in Under(src) : Onto(dst, src, q) \in Paths => v[Onto(dst, src, q)] = t[q]
         /\ Graft(v, src, dst) = v
<1>1. /\ Paths \subseteq Path /\ Front(dst) \in Paths
      /\ \A q \in Under(src) : q \in Paths /\ q \in Path /\ IsPrefix(src, q)
      /\ \A q \in Under(dst) : q \in Paths /\ q \in Path /\ IsPrefix(dst, q)
  BY PathsAre DEF Under
<1>2. /\ v = [q \in Paths |-> v[q]]
      /\ \A q \in Paths : q \notin Under(dst) => v[q] = t[q]
      /\ \A q \in Under(dst) : v[q] = IF Onto(src, dst, q) \in Paths THEN t[Onto(src, dst, q)] ELSE Absent
  BY <1>1 DEF Graft, Onto
<1>3. ~IsPrefix(dst, src)
  BY <1>1, TreeNests
<1>4. ASSUME NEW q \in Under(src) PROVE q \notin Under(dst)
  BY <1>1, <1>3, <1>4, PrefixOrder
<1>5. ASSUME NEW q \in Under(dst)
      PROVE  Onto(src, dst, q) \in Path /\ IsPrefix(src, Onto(src, dst, q))
  BY <1>1, OntoOf
<1>6. ASSUME NEW q \in Under(dst) PROVE ~Exists(t, q)
  BY <1>1, TreeNests
<1>7. Nested(v)
  <2>1. Exists(v, Root) => IsDir(v, Root)
    <3>1. Root \notin Under(dst)
      <4>1. dst # Root
        BY <1>3, UnderOf
      <4> QED
        BY <1>1, <4>1, UnderOf, PathsAre
    <3> QED
      BY <1>2, <3>1, PathsAre DEF IsTree, Nested, Exists, IsDir
  <2>2. ASSUME NEW q \in Paths, NEW s \in Paths, Exists(v, s), IsPrefix(q, s), q # s
        PROVE  IsDir(v, q)
    <3>1. CASE s \notin Under(dst)
      <4>1. q \notin Under(dst)
        BY <1>1, <2>2, <3>1, PrefixOrder, UnderOf
      <4>2. Exists(t, s)
        BY <1>2, <2>2, <3>1 DEF Exists
      <4>3. IsDir(t, q)
        BY <2>2, <4>2, TreeNests
      <4> QED
        BY <1>2, <4>1, <4>3 DEF IsDir
    <3>2. CASE s \in Under(dst) /\ q \in Under(dst)
      <4>1. Onto(src, dst, s) \in Paths /\ Exists(t, Onto(src, dst, s))
        BY <1>2, <2>2, <3>2, Nodes DEF Exists
      <4>2. /\ IsPrefix(Onto(src, dst, q), Onto(src, dst, s))
            /\ Onto(src, dst, q) # Onto(src, dst, s)
        BY <1>1, <2>2, <3>2, OntoKeeps
      <4>3. Onto(src, dst, q) \in Paths
        BY <1>5, <3>2, <4>1, <4>2, PathsAre
      <4>4. IsDir(t, Onto(src, dst, q))
        BY <4>1, <4>2, <4>3, TreeNests
      <4> QED
        BY <1>2, <3>2, <4>3, <4>4 DEF IsDir
    <3>3. CASE s \in Under(dst) /\ q \notin Under(dst)
      <4>1. IsPrefix(q, dst) /\ q # dst
        BY <1>1, <2>2, <3>3, PrefixOrder, UnderOf
      <4>2. IsPrefix(q, Front(dst))
        BY <1>1, <4>1, FrontOf
      <4>3. Exists(t, Front(dst))
        BY DEF Exists, IsDir
      <4>4. IsDir(t, q)
        BY <1>1, <4>2, <4>3, TreeNests
      <4> QED
        BY <1>2, <3>3, <4>4 DEF IsDir
    <3> QED
      BY <3>1, <3>2, <3>3
  <2> QED
    BY <2>1, <2>2 DEF Nested
<1>8. \A q \in Paths : Node(v[q])
  BY <1>2, Nodes DEF IsTree
<1>9. IsTree(v)
  BY <1>2, <1>7, <1>8 DEF IsTree
<1>10. ASSUME NEW q \in Paths, v[q] # t[q] PROVE pathAllowed(q, A)
  <2>1. IsPrefix(dst, q)
    BY <1>1, <1>2, <1>10
  <2> QED
    BY <1>1, <2>1, PrefixOrder DEF pathAllowed
<1>11. Keeps(t, v, {})
  <2> SUFFICES ASSUME NEW q \in Paths, IsFile(t, q) PROVE v[q] = t[q]
    BY DEF Keeps
  <2>1. Exists(t, q)
    BY DEF Exists, IsFile
  <2> QED
    BY <1>2, <1>6, <2>1
<1>12. ASSUME NEW q \in Under(src), Onto(dst, src, q) \in Paths PROVE v[Onto(dst, src, q)] = t[q]
  <2>1. Onto(dst, src, q) \in Under(dst)
    BY <1>1, <1>12, OntoOf DEF Under
  <2>2. Onto(src, dst, Onto(dst, src, q)) = q
    BY <1>1, <1>12, OntoKeeps
  <2> QED
    BY <1>1, <1>2, <1>12, <2>1, <2>2
<1>13. v[dst] = t[src]
  <2>1. src \in Under(src) /\ Onto(dst, src, src) = dst
    BY <1>1, UnderOf, OntoKeeps
  <2> QED
    BY <1>12, <2>1
<1>14. Graft(v, src, dst) = v
  <2> DEFINE w == Graft(v, src, dst)
  <2>1. /\ w = [q \in Paths |-> w[q]]
        /\ \A q \in Paths : q \notin Under(dst) => w[q] = v[q]
        /\ \A q \in Under(dst) : w[q] = IF Onto(src, dst, q) \in Paths THEN v[Onto(src, dst, q)] ELSE Absent
    BY <1>1 DEF Graft, Onto
  <2> HIDE DEF w
  <2>2. ASSUME NEW q \in Under(dst), Onto(src, dst, q) \in Paths
        PROVE  v[Onto(src, dst, q)] = t[Onto(src, dst, q)]
    <3>1. Onto(src, dst, q) \in Under(src)
      BY <1>5, <2>2 DEF Under
    <3> QED
      BY <1>1, <1>2, <1>4, <3>1
  <2>3. \A q \in Paths : w[q] = v[q]
    BY <1>2, <2>1, <2>2
  <2>4. w = v
    BY <1>2, <2>1, <2>3
  <2> QED
    BY <2>4 DEF w
<1> QED
  BY <1>1, <1>2, <1>4, <1>9, <1>10, <1>11, <1>12, <1>13, <1>14 DEF Within

\* os.Rename and mv to a free name: what was at src is at dst, and nothing else has moved.
LEMMA RenameEffect ==
  ASSUME NEW t, IsTree(t), NEW A, A \subseteq Path, NEW src \in Paths, NEW dst \in Paths,
         pathAllowed(src, A), pathAllowed(dst, A), ~Exists(t, dst),
         NEW v, v = Rename(t, src, dst).tree
  PROVE  /\ IsTree(v) /\ Within(A, t, v) /\ Keeps(t, v, Under(src))
         /\ Rename(t, src, dst).ok \in BOOLEAN
         /\ ~Rename(t, src, dst).ok => v = t
         /\ Rename(t, src, dst).ok =>
              /\ Exists(v, dst) /\ ~Exists(v, src)
              /\ \A q \in Under(src) : Onto(dst, src, q) \in Paths => v[Onto(dst, src, q)] = t[q]
<1>1. CASE IsPrefix(src, dst) \/ ~Exists(t, src) \/ ~IsDir(t, Front(dst))
  <2>1. v = t /\ Rename(t, src, dst).ok = FALSE
    BY <1>1 DEF Rename, Failed
  <2> QED
    BY <2>1 DEF Within, Keeps
<1>2. CASE ~IsPrefix(src, dst) /\ Exists(t, src) /\ IsDir(t, Front(dst))
  <2>1. PICK w : w = Graft(t, src, dst)
    OBVIOUS
  <2>2. v = RemoveAll(w, src) /\ Rename(t, src, dst).ok = TRUE
    BY <1>2, <2>1 DEF Rename, Done
  <2>3. /\ IsTree(w) /\ Within(A, t, w) /\ Keeps(t, w, {})
        /\ w[dst] = t[src]
        /\ \A q \in Under(src) : q \notin Under(dst)
        /\ \A q \in Under(src) : Onto(dst, src, q) \in Paths => w[Onto(dst, src, q)] = t[q]
    BY <1>2, <2>1, GraftEffect
  <2>4. /\ IsTree(v) /\ Within(A, w, v) /\ Keeps(w, v, Under(src))
        /\ \A q \in Under(src) : ~Exists(v, q)
        /\ \A q \in Paths : q \notin Under(src) => v[q] = w[q]
    BY <2>2, <2>3, RemoveAllEffect
  <2>5. Within(A, t, v)
    BY <2>3, <2>4, WithinOn
  <2>6. Keeps(t, v, {} \cup Under(src))
    BY <2>3, <2>4, KeepsOn
  <2>7. {} \cup Under(src) = Under(src)
    OBVIOUS
  <2>8. src \in Under(src) /\ dst \in Under(dst)
    BY UnderOf
  <2>9. Exists(v, dst) /\ ~Exists(v, src)
    BY <1>2, <2>3, <2>4, <2>8 DEF Exists
  <2>10. ASSUME NEW q \in Under(src), Onto(dst, src, q) \in Paths
         PROVE  v[Onto(dst, src, q)] = t[q]
    <3>1. Onto(dst, src, q) \in Under(dst)
      BY <2>10, PathsAre, OntoOf DEF Under
    <3> QED
      BY <2>3, <2>4, <2>10, <3>1
  <2> QED
    BY <2>2, <2>4, <2>5, <2>6, <2>7, <2>9, <2>10
<1> QED
  BY <1>1, <1>2

--------------------------------------------------------------------------------
(* The handlers. *)

\* What every answer keeps to: a tree, changed within the allowed paths, that has lost
\* what it was asked to lose and is as the answer claims.
Lawful(t, v, r, claim) ==
  /\ IsTree(v)
  /\ ConfinedTo(session.allowed, t, v, r)
  /\ Spared(t, v, r)
  /\ Claimed(v, r, claim)

\* The snapshots of .underpass-undo: one for every name, of text.
Saved(u) == u = [n \in Names |-> u[n]] /\ \A n \in Names : u[n].data \in Content

\* A path of the call that resolvePath has let through.
Resolved(p) == p \in Paths /\ pathAllowed(p, session.allowed)

\* The fields of an answer.
LEMMA Answered ==
  \A c, l, t, u : /\ Answer(c, l, t, u).tree = t /\ Answer(c, l, t, u).claim = l
                  /\ Answer(c, l, t, u).undo = u /\ Answer(c, l, t, u).code = c
                  /\ Refuse(c, t, u).tree = t /\ Refuse(c, t, u).claim = "none"
                  /\ Refuse(c, t, u).undo = u /\ Refuse(c, t, u).code = c
BY DEF Answer, Refuse

--------------------------------------------------------------------------------
(* Texts. *)

\* A set of natural numbers has a least one: what inductions here are made of.
LEMMA LeastNat ==
  ASSUME NEW T, T \subseteq Nat, T # {}
  PROVE  \E m \in T : \A k \in T : m <= k
<1>1. PICK R : R = OpToRel(<, Nat)
  OBVIOUS
<1>2. \A a, b \in Nat : <<a, b>> \in R <=> a < b
  BY <1>1 DEF OpToRel
<1>3. IsWellFoundedOn(R, Nat)
  BY <1>1, NatLessThanWellFounded
<1>4. PICK m \in T : \A k \in T : ~ (<<k, m>> \in R)
  BY <1>3, WFMin
<1>5. ASSUME NEW k \in T PROVE m <= k
  <2>1. k \in Nat /\ m \in Nat /\ ~ (<<k, m>> \in R)
    BY <1>4
  <2>2. ~(k < m)
    BY <1>2, <2>1
  <2> QED
    BY <2>1, <2>2
<1> QED
  BY <1>5

\* The concatenation of sequences: the recursion of FlattenSeq is defined, and ends in a
\* sequence.
LEMMA FlattenType ==
  ASSUME NEW S, NEW s \in Seq(Seq(S))
  PROVE  FlattenSeq(s) \in Seq(S)
<1>1. Len(s) \in Nat /\ \A i \in 1 .. Len(s) : s[i] \in Seq(S)
  BY LenProperties, ElementOfSeq
<1>2. CASE Len(s) = 0
  <2>1. s = <<>>
    BY <1>2, EmptySeq, SeqEqual
  <2>2. FlattenSeq(s) = s
    BY <1>2, Zenon DEF FlattenSeq
  <2> QED
    BY <2>1, <2>2, EmptySeq
<1>3. CASE Len(s) # 0
  <2> DEFINE Eq(g, n) == g = [i \in 1 .. n |-> IF i = 1 THEN s[i] ELSE g[i - 1] \o s[i]]
             Bad == {n \in Nat : n <= Len(s) /\ ~ \E g : Eq(g, n)}
  <2>1. Bad = {}
    <3>1. SUFFICES ASSUME Bad # {} PROVE FALSE
      OBVIOUS
    <3>2. PICK n \in Bad : \A k \in Bad : n <= k
      BY <3>1, LeastNat
    <3>3. n \in Nat /\ n <= Len(s) /\ ~ \E g : Eq(g, n)
      BY <3>2
    <3>4. CASE n = 0
      <4>1. Eq([i \in 1 .. 0 |-> 0], 0)
        OBVIOUS
      <4> HIDE DEF Eq
      <4> QED
        BY <3>3, <3>4, <4>1
    <3>5. CASE n # 0
      <4>1. n - 1 \in Nat /\ n - 1 <= Len(s) /\ n - 1 \notin Bad
        <5>1. n - 1 \in Nat /\ n - 1 <= Len(s) /\ ~(n <= n - 1)
          BY <1>1, <3>3, <3>5
        <5> HIDE DEF Bad
        <5> QED
          BY <3>2, <5>1
      <4>2. PICK g : Eq(g, n - 1)
        <5> HIDE DEF Eq
        <5> QED
          BY <4>1
      <4> DEFINE h == [i \in 1 .. n |-> IF i = n THEN IF n = 1 THEN s[1] ELSE g[n - 1] \o s[n] ELSE g[i]]
      <4>3. ASSUME NEW i \in 1 .. n PROVE h[i] = IF i = 1 THEN s[i] ELSE h[i - 1] \o s[i]
        <5>1. CASE i = 1
          <6>1. CASE n = 1
            BY <5>1, <6>1
          <6>2. CASE n # 1
            BY <3>3, <4>2, <5>1, <6>2
          <6> QED
            BY <6>1, <6>2
        <5>2. CASE i # 1 /\ i = n
          <6>1. i - 1 \in 1 .. n /\ i - 1 # n /\ n # 1
            BY <3>3, <5>2
          <6>2. h[i - 1] = g[n - 1] /\ h[i] = g[n - 1] \o s[n]
            BY <5>2, <6>1
          <6> HIDE DEF h
          <6> QED
            BY <5>2, <6>2
        <5>3. CASE i # 1 /\ i # n
          <6>1. i \in 1 .. n - 1 /\ i - 1 \in 1 .. n /\ i - 1 # n
            BY <3>3, <5>3
          <6>2. h[i] = g[i] /\ h[i - 1] = g[i - 1]
            BY <5>3, <6>1
          <6>3. g[i] = g[i - 1] \o s[i]
            BY <4>2, <5>3, <6>1
          <6> HIDE DEF h
          <6> QED
            BY <5>3, <6>2, <6>3
        <5> QED
          BY <5>1, <5>2, <5>3
      <4>4. h = [i \in 1 .. n |-> h[i]]
        OBVIOUS
      <4> HIDE DEF h
      <4>5. Eq(h, n)
        BY <4>3, <4>4
      <4> HIDE DEF Eq
      <4> QED
        BY <3>3, <4>5
    <3> QED
      BY <3>4, <3>5
  <2>2. \E g : Eq(g, Len(s))
    <3> HIDE DEF Eq
    <3> QED
      BY <1>1, <2>1
  <2>3. PICK f : f = (CHOOSE g : g = [i \in 1 .. Len(s) |-> IF i = 1 THEN s[i] ELSE g[i - 1] \o s[i]])
                 /\ FlattenSeq(s) = f[Len(s)]
    BY <1>3, Zenon DEF FlattenSeq
  <2>4. Eq(f, Len(s))
    BY <2>2, <2>3, Zenon
  <2>5. \A i \in 1 .. Len(s) : f[i] = IF i = 1 THEN s[i] ELSE f[i - 1] \o s[i]
    BY <2>4
  <2> HIDE DEF Eq
  <2> DEFINE Ill == {n \in Nat : n \in 1 .. Len(s) /\ f[n] \notin Seq(S)}
  <2>6. Ill = {}
    <3>1. SUFFICES ASSUME Ill # {} PROVE FALSE
      OBVIOUS
    <3>2. PICK n \in Ill : \A k \in Ill : n <= k
      BY <3>1, LeastNat
    <3>3. n \in 1 .. Len(s) /\ f[n] \notin Seq(S) /\ s[n] \in Seq(S)
      BY <1>1, <3>2
    <3>4. n # 1
      BY <2>5, <3>3
    <3>5. n - 1 \in 1 .. Len(s) /\ n - 1 \notin Ill
      BY <1>1, <3>2, <3>3, <3>4
    <3>6. f[n - 1] \in Seq(S)
      BY <1>1, <3>5
    <3>7. f[n - 1] \o s[n] \in Seq(S)
      BY <3>3, <3>6, ConcatProperties
    <3> QED
      BY <2>5, <3>3, <3>4, <3>7
  <2>7. Len(s) \in 1 .. Len(s)
    BY <1>1, <1>3
  <2>8. f[Len(s)] \in Seq(S)
    BY <1>1, <2>6, <2>7
  <2> QED
    BY <2>3, <2>8, Zenon
<1> QED
  BY <1>2, <1>3

\* What the calls bring, what a runner cuts and what an edit leaves is text.
LEMMA NewText ==
  ASSUME NEW r \in WriteReqs \cup EditReqs \cup InsertReqs \cup PatchReqs
  PROVE  r.new \in Content
<1>1. Contents \subseteq Content /\ Lines \subseteq Text
  BY ContentsTyped DEF Content, Text
<1>2. \A x \in Lines : <<x>> \in Content
  BY <1>1 DEF Content
<1>3. <<>> \in Content
  BY EmptySeq DEF Content
<1>4. CASE r \in WriteReqs \cup PatchReqs
  BY <1>1, <1>4 DEF WriteReqs, PatchReqs
<1>5. CASE r \in EditReqs \cup InsertReqs
  BY <1>2, <1>3, <1>5 DEF EditReqs, InsertReqs
<1> QED
  BY <1>4, <1>5

\* A content is the sequence of its pieces.
LEMMA TextOf ==
  ASSUME NEW c \in Content
  PROVE  /\ Len(c) \in Nat /\ DOMAIN c = 1 .. Len(c) /\ c = [i \in 1 .. Len(c) |-> c[i]]
         /\ \A i \in 1 .. Len(c) : c[i] \in Text
BY LenProperties DEF Content

\* A part of a content.
LEMMA SubText ==
  ASSUME NEW c \in Content, NEW m \in Nat \ {0}, NEW n \in Nat, n <= Len(c)
  PROVE  /\ SubSeq(c, m, n) \in Content
         /\ Len(SubSeq(c, m, n)) = IF m <= n THEN n - m + 1 ELSE 0
         /\ \A i \in 1 .. n - m + 1 : SubSeq(c, m, n)[i] = c[m + i - 1]
<1>1. \A i \in m .. n : c[i] \in Text
  BY TextOf
<1>2. m \in Int /\ n \in Int
  OBVIOUS
<1> QED
  BY <1>1, <1>2, SubSeqProperties DEF Content

\* truncate keeps what is within the limit.
LEMMA TruncateText ==
  ASSUME NEW c \in Content
  PROVE  /\ truncate(c) \in Content
         /\ Len(c) <= MaxBytes => truncate(c) = c
<1>1. Len(c) \in Nat /\ MaxBytes \in Nat
  BY TextOf, SizesTyped
<1>2. ASSUME ~(Len(c) <= MaxBytes) PROVE truncate(c) \in Content
  <2>1. SubSeq(c, 1, MaxBytes) \in Content
    BY <1>1, <1>2, SubText
  <2>2. Append(SubSeq(c, 1, MaxBytes), Cut) \in Content
    BY <2>1, AppendProperties DEF Content, Text
  <2> QED
    BY <1>2, <2>2 DEF truncate
<1>3. ASSUME Len(c) <= MaxBytes PROVE truncate(c) = c
  BY <1>3 DEF truncate
<1> QED
  BY <1>2, <1>3

\* fs.insert writes a content.
LEMMA InsertText ==
  ASSUME NEW c \in Content, NEW r \in InsertReqs
  PROVE  fsInsertAtLine(c, r) \in Content
<1>1. r.new \in Content /\ r.line \in Nat /\ Len(c) \in Nat
  BY NewText, TextOf, SizesTyped DEF InsertReqs
<1>2. PICK at : at = IF r.line > Len(c) THEN Len(c) ELSE r.line
  OBVIOUS
<1>3. at \in Nat /\ at <= Len(c)
  BY <1>1, <1>2
<1>4. SubSeq(c, 1, at) \in Content /\ SubSeq(c, at + 1, Len(c)) \in Content
  BY <1>1, <1>3, SubText
<1>5. SubSeq(c, 1, at) \o r.new \in Content
  BY <1>1, <1>4, ConcatProperties DEF Content
<1>6. (SubSeq(c, 1, at) \o r.new) \o SubSeq(c, at + 1, Len(c)) \in Content
  BY <1>4, <1>5, ConcatProperties DEF Content
<1> QED
  BY <1>2, <1>6, Zenon DEF fsInsertAtLine

\* fs.edit writes a content, or nothing.
LEMMA EditText ==
  ASSUME NEW c \in Content, NEW r \in EditReqs, NEW new, new = fsEditApply(c, r)
  PROVE  new = <<>> \/ new[1] \in Content
<1>1. r.new \in Content
  BY NewText
<1>2. PICK change : new = <<>> \/ new = << FlattenSeq([i \in DOMAIN c |->
                                             IF i \in change THEN r.new ELSE <<c[i]>>]) >>
  BY Zenon DEF fsEditApply
<1>3. PICK parts : parts = [i \in DOMAIN c |-> IF i \in change THEN r.new ELSE <<c[i]>>]
  OBVIOUS
<1>4. parts \in Seq(Content)
  <2>1. Len(c) \in Nat /\ DOMAIN c = 1 .. Len(c) /\ \A i \in 1 .. Len(c) : c[i] \in Text
    BY TextOf
  <2>2. \A i \in 1 .. Len(c) : <<c[i]>> \in Content
    BY <2>1 DEF Content
  <2>3. parts \in [1 .. Len(c) -> Content]
    BY <1>1, <1>3, <2>1, <2>2
  <2> QED
    BY <2>1, <2>3, SeqDef
<1>5. FlattenSeq(parts) \in Content
  BY <1>4, FlattenType DEF Content
<1>6. new = <<>> \/ new = << FlattenSeq(parts) >>
  BY <1>2, <1>3
<1> QED
  BY <1>5, <1>6

\* The snapshot that an edit takes.
LEMMA SnapshotSaved ==
  ASSUME NEW t, IsTree(t), NEW u, Saved(u), NEW p \in Paths
  PROVE  Saved(SaveUndoSnapshot(t, u, p))
<1>1. PICK name : name = undoSnapshotPath(p)
  OBVIOUS
<1>2. name \in Names
  BY <1>1 DEF Names
<1>3. PICK v : v = [u EXCEPT ![name] = t[p]]
  OBVIOUS
<1>4. v = [n \in Names |-> v[n]] /\ v[name] = t[p] /\ \A n \in Names : n # name => v[n] = u[n]
  BY <1>2, <1>3 DEF Saved
<1>5. t[p].data \in Content
  BY NodeOf DEF IsTree
<1>6. Saved(v)
  BY <1>4, <1>5 DEF Saved
<1> QED
  BY <1>1, <1>3, <1>6 DEF SaveUndoSnapshot

--------------------------------------------------------------------------------
(* The handlers, continued. *)

\* Where only what was asked for is lost, and nothing is claimed.
LEMMA SparedOf ==
  ASSUME NEW t, NEW v, NEW r, NEW X, Keeps(t, v, X), \A q \in X : Asked(r, q)
  PROVE  Spared(t, v, r)
BY DEF Keeps, Spared

\* An answer without a claim claims nothing.
LEMMA NoClaim ==
  ASSUME NEW v, NEW r
  PROVE  Claimed(v, r, "none")
BY DEF Claimed

\* A call that leaves the tree as it is does nothing wrong.
LEMMA NothingDone ==
  ASSUME NEW t, IsTree(t), NEW r
  PROVE  Lawful(t, t, r, "none")
BY NoClaim DEF Lawful, ConfinedTo, Spared

\* An answer that claims nothing, as one after a timeout, is lawful where one that does is.
LEMMA LawfulSilent ==
  ASSUME NEW t, NEW v, NEW r, NEW claim, Lawful(t, v, r, claim)
  PROVE  Lawful(t, v, r, "none")
BY NoClaim DEF Lawful

\* fs.mkdir.
LEMMA MkdirLawful ==
  ASSUME NEW t, IsTree(t), NEW u, Saved(u), NEW r \in MkdirReqs, Resolved(r.path), session.allowed \subseteq Path,
         NEW a, \/ a = FSMkdirLocal(t, u, r)
                \/ a = FSMkdirRemote(t, u, r) /\ session.runtime # "local"
  PROVE  Lawful(t, a.tree, r, a.claim) /\ Saved(a.undo)
<1> DEFINE A == session.allowed
<1>1. /\ r.path \in Paths /\ pathAllowed(r.path, A) /\ r.parents \in BOOLEAN /\ r.existOk \in BOOLEAN
      /\ r.tool = "fs.mkdir" /\ IsPrefix(r.path, r.path)
  BY PathsAre, PrefixOrder DEF Resolved, MkdirReqs
<1>2. PICK made : made = IF r.parents THEN MkdirAll(t, r.path) ELSE Mkdir(t, r.path)
  OBVIOUS
<1> HIDE DEF A
<1>3. /\ IsTree(made.tree) /\ Within(A, t, made.tree) /\ Keeps(t, made.tree, {})
      /\ made.ok \in BOOLEAN /\ (made.ok => IsDir(made.tree, r.path))
  <2>1. CASE r.parents
    BY <1>1, <1>2, <2>1, MkdirAllEffect DEF A
  <2>2. CASE ~r.parents
    BY <1>1, <1>2, <2>2, MkdirEffect DEF A
  <2> QED
    BY <1>1, <2>1, <2>2
<1>4. Spared(t, made.tree, r)
  BY <1>3, SparedOf
<1>5. Lawful(t, made.tree, r, "none") /\ (made.ok => Lawful(t, made.tree, r, "created"))
      /\ (session.runtime # "local" => Lawful(t, made.tree, r, "created"))
  BY <1>3, <1>4, NoClaim, WithinConfined DEF Lawful, Claimed, A
<1>6. Lawful(t, t, r, "none") /\ (session.runtime # "local" => Lawful(t, t, r, "created"))
  BY NothingDone DEF Lawful, Claimed
<1>7. CASE a = FSMkdirLocal(t, u, r)
  <2>1. a = IF Exists(t, r.path) THEN Refuse(Code(IsDir(t, r.path) /\ r.existOk), t, u)
            ELSE Answer(Code(made.ok), IF made.ok THEN "created" ELSE "none", made.tree, u)
    BY <1>2, <1>7, Zenon DEF FSMkdirLocal
  <2>2. /\ a.undo = u
        /\ \/ a.tree = t /\ a.claim = "none"
           \/ a.tree = made.tree /\ a.claim = IF made.ok THEN "created" ELSE "none"
    BY <2>1, Answered
  <2> QED
    BY <1>5, <1>6, <2>2
<1>8. CASE a = FSMkdirRemote(t, u, r) /\ session.runtime # "local"
  <2>1. PICK ok : a = Answer(Code(ok), IF ok THEN "created" ELSE "none",
                             IF Exists(t, r.path) THEN t ELSE made.tree, u)
    BY <1>2, <1>8, Zenon DEF FSMkdirRemote
  <2>2. a.tree \in {t, made.tree} /\ a.claim \in {"created", "none"} /\ a.undo = u
    BY <2>1, Answered
  <2> QED
    BY <1>5, <1>6, <1>8, <2>2
<1> QED
  BY <1>7, <1>8

\* The destination of a move or a copy, once it is ready, is free; what it cost lay there,
\* and the call said overwrite.
LEMMA PreparedEffect ==
  ASSUME NEW t, IsTree(t), NEW r, Resolved(r.dst), session.allowed \subseteq Path,
         r.overwrite \in BOOLEAN, r.parents \in BOOLEAN, NEW v, v = Prepared(t, r).tree
  PROVE  /\ IsTree(v) /\ Within(session.allowed, t, v)
         /\ Keeps(t, v, IF r.overwrite THEN Under(r.dst) ELSE {})
         /\ Prepared(t, r).ok \in BOOLEAN
         /\ Prepared(t, r).ok => ~Exists(v, r.dst)
<1> DEFINE A == session.allowed
           X == IF r.overwrite THEN Under(r.dst) ELSE {}
<1>1. r.dst \in Paths /\ pathAllowed(r.dst, A) /\ Front(r.dst) \in Paths /\ IsPrefix(Front(r.dst), r.dst)
  BY PathsAre, FrontOf DEF Resolved
<1>2. PICK made : made = IF r.parents /\ r.dst # Root THEN MkdirAll(t, Front(r.dst)) ELSE Done(t)
  OBVIOUS
<1> HIDE DEF A
<1>3. IsTree(made.tree) /\ Within(A, t, made.tree) /\ Keeps(t, made.tree, {}) /\ made.ok \in BOOLEAN
  <2>1. CASE r.parents /\ r.dst # Root
    BY <1>1, <1>2, <2>1, MkdirAllEffect DEF A
  <2>2. CASE ~(r.parents /\ r.dst # Root)
    <3>1. made.tree = t /\ made.ok = TRUE
      BY <1>2, <2>2 DEF Done
    <3> QED
      BY <3>1 DEF Within, Keeps
  <2> QED
    BY <2>1, <2>2
<1>4. Prepared(t, r) =
        IF ~made.ok \/ (Exists(made.tree, r.dst) /\ ~r.overwrite) THEN Failed(made.tree)
        ELSE Done(IF Exists(made.tree, r.dst) THEN RemoveAll(made.tree, r.dst) ELSE made.tree)
  BY <1>2, Zenon DEF Prepared
<1>5. Keeps(t, made.tree, X)
  BY <1>3 DEF Keeps
<1>6. CASE ~made.ok \/ (Exists(made.tree, r.dst) /\ ~r.overwrite)
  <2>1. v = made.tree /\ Prepared(t, r).ok = FALSE
    BY <1>4, <1>6 DEF Failed
  <2> QED
    BY <1>3, <1>5, <2>1 DEF A
<1>7. CASE made.ok /\ ~Exists(made.tree, r.dst)
  <2>1. v = made.tree /\ Prepared(t, r).ok = TRUE
    BY <1>4, <1>7 DEF Done
  <2> QED
    BY <1>3, <1>5, <1>7, <2>1 DEF A
<1>8. CASE made.ok /\ Exists(made.tree, r.dst) /\ r.overwrite
  <2>1. v = RemoveAll(made.tree, r.dst) /\ Prepared(t, r).ok = TRUE
    BY <1>4, <1>8 DEF Done
  <2>2. /\ IsTree(v) /\ Within(A, made.tree, v) /\ Keeps(made.tree, v, Under(r.dst))
        /\ \A q \in Under(r.dst) : ~Exists(v, q)
    BY <1>1, <1>3, <2>1, RemoveAllEffect DEF A
  <2>3. Within(A, t, v) /\ Keeps(t, v, X)
    BY <1>3, <1>8, <2>2, WithinOn DEF Keeps, IsFile
  <2>4. r.dst \in Under(r.dst)
    BY <1>1, UnderOf
  <2> QED
    BY <2>1, <2>2, <2>3, <2>4 DEF A
<1> QED
  BY <1>3, <1>6, <1>7, <1>8

\* A call cut short once its destination is ready.
LEMMA PreparedLawful ==
  ASSUME NEW t, IsTree(t), NEW r \in MoveReqs \cup CopyReqs, Resolved(r.dst),
         session.allowed \subseteq Path
  PROVE  Lawful(t, Prepared(t, r).tree, r, "none")
<1>1. r.tool \in {"fs.move", "fs.copy"} /\ r.overwrite \in BOOLEAN /\ r.parents \in BOOLEAN
  BY DEF MoveReqs, CopyReqs
<1>2. PICK v : v = Prepared(t, r).tree
  OBVIOUS
<1>3. /\ IsTree(v) /\ Within(session.allowed, t, v)
      /\ Keeps(t, v, IF r.overwrite THEN Under(r.dst) ELSE {})
  BY <1>1, <1>2, PreparedEffect
<1>4. \A q \in IF r.overwrite THEN Under(r.dst) ELSE {} : Asked(r, q)
  BY <1>1 DEF Asked
<1>5. Spared(t, v, r)
  BY <1>3, <1>4, SparedOf
<1> QED
  BY <1>2, <1>3, <1>5, NoClaim, WithinConfined DEF Lawful

\* fs.move: a file below the source has gone to where the call said.
LEMMA MoveLawful ==
  ASSUME NEW t, IsTree(t), NEW u, Saved(u), NEW r \in MoveReqs, Resolved(r.path), Resolved(r.dst),
         Fits(t, r.path, r.dst), session.allowed \subseteq Path,
         NEW a, a \in {FSMoveLocal(t, u, r), FSMoveRemote(t, u, r)}
  PROVE  Lawful(t, a.tree, r, a.claim) /\ Saved(a.undo)
<1> DEFINE A == session.allowed
<1>1. /\ r.tool = "fs.move" /\ r.overwrite \in BOOLEAN /\ r.parents \in BOOLEAN
      /\ r.path \in Paths /\ r.dst \in Paths /\ pathAllowed(r.path, A) /\ pathAllowed(r.dst, A)
  BY DEF MoveReqs, Resolved
<1>2. PICK ready : ready = Prepared(t, r)
  OBVIOUS
<1>3. PICK moved : moved = Rename(ready.tree, r.path, r.dst)
  OBVIOUS
<1> HIDE DEF A
<1>4. /\ IsTree(ready.tree) /\ Within(A, t, ready.tree)
      /\ Keeps(t, ready.tree, IF r.overwrite THEN Under(r.dst) ELSE {})
      /\ ready.ok \in BOOLEAN /\ (ready.ok => ~Exists(ready.tree, r.dst))
  BY <1>1, <1>2, PreparedEffect DEF A
<1>5. Lawful(t, ready.tree, r, "none") /\ Lawful(t, t, r, "none")
  BY <1>2, PreparedLawful, NothingDone
<1>6. ASSUME ready.ok
      PROVE  /\ moved.ok \in BOOLEAN
             /\ Lawful(t, moved.tree, r, "none")
             /\ moved.ok => Lawful(t, moved.tree, r, "moved")
  <2>1. /\ IsTree(moved.tree) /\ Within(A, ready.tree, moved.tree)
        /\ Keeps(ready.tree, moved.tree, Under(r.path)) /\ moved.ok \in BOOLEAN
        /\ ~moved.ok => moved.tree = ready.tree
        /\ moved.ok => /\ Exists(moved.tree, r.dst) /\ ~Exists(moved.tree, r.path)
                       /\ \A q \in Under(r.path) : Onto(r.dst, r.path, q) \in Paths =>
                            moved.tree[Onto(r.dst, r.path, q)] = ready.tree[q]
    BY <1>1, <1>3, <1>4, <1>6, RenameEffect DEF A
  <2>2. Within(A, t, moved.tree)
    BY <1>4, <2>1, WithinOn
  <2>3. ASSUME NEW q \in Paths, IsFile(t, q), moved.tree[q] # t[q], ~Asked(r, q)
        PROVE  IsPrefix(r.path, q) /\ moved.tree[Onto(r.dst, r.path, q)] = t[q]
    <3>1. ready.tree[q] = t[q] /\ IsFile(ready.tree, q)
      BY <1>1, <1>4, <2>3 DEF Keeps, Asked, IsFile
    <3>2. moved.ok /\ q \in Under(r.path)
      BY <2>1, <2>3, <3>1 DEF Keeps
    <3>3. Onto(r.dst, r.path, q) \in Paths
      BY <2>3, <3>2 DEF Fits, Onto, Exists, IsFile
    <3> QED
      BY <2>1, <3>1, <3>2, <3>3 DEF Under
  <2>4. Spared(t, moved.tree, r)
    BY <1>1, <2>3 DEF Spared, Onto
  <2> QED
    BY <2>1, <2>2, <2>4, NoClaim, WithinConfined DEF Lawful, Claimed, A
<1>7. /\ a.undo = u
      /\ \/ a.tree = t /\ a.claim = "none"
         \/ a.tree = ready.tree /\ a.claim = "none"
         \/ ready.ok /\ a.tree = moved.tree /\ a.claim = IF moved.ok THEN "moved" ELSE "none"
  <2>1. CASE a = FSMoveLocal(t, u, r)
    <3>1. a = IF r.path = r.dst THEN Refuse("ok", t, u)
              ELSE IF ~Exists(t, r.path) THEN Refuse("not_found", t, u)
              ELSE IF ~ready.ok THEN Refuse("execution_failed", ready.tree, u)
              ELSE Answer(Code(moved.ok), IF moved.ok THEN "moved" ELSE "none", moved.tree, u)
      BY <1>2, <1>3, <2>1, Zenon DEF FSMoveLocal
    <3> QED
      BY <1>4, <3>1, Answered
  <2>2. CASE a = FSMoveRemote(t, u, r)
    <3>1. PICK late : a = IF r.path = r.dst THEN Refuse("ok", t, u)
              ELSE IF ~Exists(t, r.path) THEN Refuse(toFSRunnerError(TRUE), t, u)
              ELSE IF ~ready.ok THEN Refuse("execution_failed", ready.tree, u)
              ELSE IF moved.ok THEN Answer("ok", "moved", moved.tree, u)
              ELSE Refuse(late, ready.tree, u)
      BY <1>2, <1>3, <2>2, Zenon DEF FSMoveRemote
    <3> QED
      BY <1>4, <3>1 DEF Answer, Refuse, toFSRunnerError
  <2> QED
    BY <2>1, <2>2
<1> QED
  BY <1>5, <1>6, <1>7

\* fs.copy.
LEMMA CopyLawful ==
  ASSUME NEW t, IsTree(t), NEW u, Saved(u), NEW r \in CopyReqs, Resolved(r.path), Resolved(r.dst),
         r.path # r.dst => ~IsPrefix(r.path, r.dst), session.allowed \subseteq Path,
         NEW a, a \in {FSCopyLocal(t, u, r), FSCopyRemote(t, u, r)}
  PROVE  Lawful(t, a.tree, r, a.claim) /\ Saved(a.undo)
<1> DEFINE A == session.allowed
           X == IF r.overwrite THEN Under(r.dst) ELSE {}
<1>1. /\ r.tool = "fs.copy" /\ r.overwrite \in BOOLEAN /\ r.parents \in BOOLEAN
      /\ r.path \in Paths /\ r.dst \in Paths /\ pathAllowed(r.path, A) /\ pathAllowed(r.dst, A)
      /\ Front(r.dst) \in Paths /\ IsPrefix(Front(r.dst), r.dst)
  BY PathsAre, FrontOf DEF CopyReqs, Resolved
<1>2. PICK ready : ready = Prepared(t, r)
  OBVIOUS
<1>3. PICK parent : parent = MkdirAll(ready.tree, Front(r.dst))
  OBVIOUS
<1> HIDE DEF A
<1>4. /\ IsTree(ready.tree) /\ Within(A, t, ready.tree) /\ Keeps(t, ready.tree, X)
      /\ ready.ok \in BOOLEAN /\ (ready.ok => ~Exists(ready.tree, r.dst))
  BY <1>1, <1>2, PreparedEffect DEF A
<1>5. \A q \in X : Asked(r, q)
  BY <1>1 DEF Asked
<1> HIDE DEF X
<1>6. Lawful(t, ready.tree, r, "none") /\ Lawful(t, t, r, "none")
  BY <1>2, PreparedLawful, NothingDone
<1>7. ASSUME NEW now, IsTree(now), Within(A, t, now), Keeps(t, now, X), r.path # r.dst,
             Exists(now, r.path), ~Exists(now, r.dst), IsDir(now, Front(r.dst))
      PROVE  Lawful(t, Graft(now, r.path, r.dst), r, "copied")
  <2>1. PICK v : v = Graft(now, r.path, r.dst)
    OBVIOUS
  <2>0. ~IsPrefix(r.path, r.dst) /\ A \subseteq Path
    BY <1>7 DEF A
  <2>2. /\ IsTree(v) /\ Within(A, now, v) /\ Keeps(now, v, {}) /\ v[r.dst] = now[r.path]
        /\ Graft(v, r.path, r.dst) = v
    <3>1. PICK src, dst : src = r.path /\ dst = r.dst
      OBVIOUS
    <3>2. /\ src \in Paths /\ dst \in Paths /\ pathAllowed(dst, A) /\ IsTree(now) /\ Exists(now, src)
          /\ ~Exists(now, dst) /\ ~IsPrefix(src, dst) /\ IsDir(now, Front(dst)) /\ v = Graft(now, src, dst)
      BY <1>1, <1>7, <2>0, <2>1, <3>1
    <3>3. /\ IsTree(v) /\ Within(A, now, v) /\ Keeps(now, v, {}) /\ v[dst] = now[src]
          /\ Graft(v, src, dst) = v
      BY <2>0, <3>2, GraftEffect
    <3> QED
      BY <3>1, <3>3
  <2>3. Within(A, t, v) /\ Keeps(t, v, X \cup {})
    BY <1>7, <2>2, WithinOn, KeepsOn
  <2>4. Spared(t, v, r)
    BY <1>5, <2>3, SparedOf
  <2>5. Exists(v, r.dst)
    BY <1>7, <2>2 DEF Exists
  <2> QED
    BY <2>1, <2>2, <2>3, <2>4, <2>5, WithinConfined DEF Lawful, Claimed, A
<1>8. CASE a = FSCopyLocal(t, u, r)
  <2>1. a = IF r.path = r.dst THEN Refuse("invalid_argument", t, u)
            ELSE IF ~Exists(t, r.path) THEN Refuse("execution_failed", t, u)
            ELSE IF ~ready.ok THEN Refuse("execution_failed", ready.tree, u)
            ELSE IF IsDir(t, r.path) /\ ~r.recursive THEN Refuse("invalid_argument", ready.tree, u)
            ELSE IF Exists(ready.tree, r.path) /\ parent.ok
                 THEN Answer("ok", "copied", Graft(parent.tree, r.path, r.dst), u)
            ELSE Refuse("execution_failed", ready.tree, u)
    BY <1>2, <1>3, <1>8, Zenon DEF FSCopyLocal
  <2>2. /\ a.undo = u
        /\ \/ a.tree \in {t, ready.tree} /\ a.claim = "none"
           \/ /\ r.path # r.dst /\ ready.ok /\ Exists(ready.tree, r.path) /\ parent.ok
              /\ a.tree = Graft(parent.tree, r.path, r.dst) /\ a.claim = "copied"
    BY <1>4, <2>1, Answered
  <2>3. ASSUME r.path # r.dst, ready.ok, Exists(ready.tree, r.path), parent.ok
        PROVE  Lawful(t, Graft(parent.tree, r.path, r.dst), r, "copied")
    <3>1. /\ IsTree(parent.tree) /\ Within(A, ready.tree, parent.tree)
          /\ Keeps(ready.tree, parent.tree, {}) /\ IsDir(parent.tree, Front(r.dst))
          /\ \A q \in Paths : Exists(ready.tree, q) => Exists(parent.tree, q)
          /\ \A q \in Paths : parent.tree[q] # ready.tree[q] => IsPrefix(q, Front(r.dst))
      BY <1>1, <1>3, <1>4, <2>3, MkdirAllEffect DEF A
    <3>2. Within(A, t, parent.tree) /\ Keeps(t, parent.tree, X \cup {}) /\ X \cup {} = X
      BY <1>4, <3>1, WithinOn, KeepsOn
    <3>3. r.dst # Root
      <4>1. IsPrefix(Root, r.path) /\ Root \in Paths
        BY <1>1, PathsAre, UnderOf
      <4> QED
        BY <1>1, <1>4, <2>3, <4>1, TreeNests
    <3>4. ~IsPrefix(r.dst, Front(r.dst))
      BY <1>1, <3>3, PathsAre, FrontOf, PrefixOrder DEF Root
    <3>5. ~Exists(parent.tree, r.dst) /\ Exists(parent.tree, r.path)
      BY <1>1, <1>4, <2>3, <3>1, <3>4 DEF Exists
    <3> QED
      BY <1>7, <2>3, <3>1, <3>2, <3>5
  <2> QED
    BY <1>6, <2>2, <2>3
<1>9. CASE a = FSCopyRemote(t, u, r)
  <2>1. a = IF r.path = r.dst THEN Refuse("invalid_argument", t, u)
            ELSE IF ~Exists(t, r.path) THEN Refuse(toFSRunnerError(TRUE), t, u)
            ELSE IF IsDir(t, r.path) /\ ~r.recursive THEN Refuse("execution_failed", t, u)
            ELSE IF ~ready.ok THEN Refuse("execution_failed", ready.tree, u)
            ELSE IF Exists(ready.tree, r.path) /\ IsDir(ready.tree, Front(r.dst))
                 THEN Answer("ok", "copied", Graft(ready.tree, r.path, r.dst), u)
            ELSE Refuse(toFSRunnerError(TRUE), ready.tree, u)
    BY <1>2, <1>9, Zenon DEF FSCopyRemote
  <2>2. /\ a.undo = u
        /\ \/ a.tree \in {t, ready.tree} /\ a.claim = "none"
           \/ /\ r.path # r.dst /\ ready.ok /\ Exists(ready.tree, r.path)
              /\ IsDir(ready.tree, Front(r.dst))
              /\ a.tree = Graft(ready.tree, r.path, r.dst) /\ a.claim = "copied"
    BY <1>4, <2>1 DEF Answer, Refuse, toFSRunnerError
  <2> QED
    BY <1>4, <1>6, <1>7, <2>2
<1> QED
  BY <1>8, <1>9

\* fs.delete.
LEMMA DeleteLawful ==
  ASSUME NEW t, IsTree(t), NEW u, Saved(u), NEW r \in DeleteReqs, Resolved(r.path), session.allowed \subseteq Path,
         NEW a, a \in {FSDeleteLocal(t, u, r), FSDeleteRemote(t, u, r)}
  PROVE  Lawful(t, a.tree, r, a.claim) /\ Saved(a.undo)
<1>1. r.tool = "fs.delete" /\ r.path \in Paths /\ pathAllowed(r.path, session.allowed)
  BY DEF DeleteReqs, Resolved
<1>2. PICK v : v = RemoveAll(t, r.path)
  OBVIOUS
<1>3. /\ IsTree(v) /\ Within(session.allowed, t, v) /\ Keeps(t, v, Under(r.path))
      /\ \A q \in Under(r.path) : ~Exists(v, q)
  BY <1>1, <1>2, RemoveAllEffect
<1>4. \A q \in Under(r.path) : Asked(r, q)
  BY <1>1 DEF Asked
<1>5. Spared(t, v, r)
  BY <1>3, <1>4, SparedOf
<1>6. Lawful(t, v, r, "deleted") /\ Lawful(t, t, r, "none")
  BY <1>3, <1>5, NothingDone, WithinConfined DEF Lawful, Claimed
<1>7. /\ a.undo = u
      /\ \/ a.tree = t /\ a.claim = "none"
         \/ a.tree = v /\ a.claim = "deleted"
  <2>1. CASE a = FSDeleteLocal(t, u, r)
    BY <1>2, <2>1 DEF FSDeleteLocal, Answer, Refuse
  <2>2. CASE a = FSDeleteRemote(t, u, r)
    BY <1>2, <2>2 DEF FSDeleteRemote, Answer, Refuse, toFSRunnerError
  <2> QED
    BY <2>1, <2>2
<1> QED
  BY <1>6, <1>7

\* One file is written, by fs.write_file, fs.edit, fs.insert or undo_edit.
LEMMA PutLawful ==
  ASSUME NEW t, IsTree(t), NEW r, r.tool \in Edits \cup {"workspace.undo_edit"}, Resolved(r.path), NEW c \in Content
  PROVE  /\ Lawful(t, Put(t, r.path, c).tree, r, "none")
         /\ Lawful(t, Put(t, r.path, c).tree, r, "edited")
         /\ Lawful(t, Put(t, r.path, c).tree, r, "restored")
         /\ Put(t, r.path, c).ok \in BOOLEAN
<1>1. r.path \in Paths /\ pathAllowed(r.path, session.allowed)
  BY DEF Resolved
<1>2. PICK v : v = Put(t, r.path, c).tree
  OBVIOUS
<1>3. /\ IsTree(v) /\ Within(session.allowed, t, v) /\ Keeps(t, v, {r.path})
      /\ Put(t, r.path, c).ok \in BOOLEAN
  BY <1>1, <1>2, PutEffect
<1>4. \A q \in {r.path} : Asked(r, q)
  BY DEF Asked
<1>5. Spared(t, v, r)
  BY <1>3, <1>4, SparedOf
<1> QED
  BY <1>2, <1>3, <1>5, WithinConfined DEF Lawful, Claimed

\* fs.write_file: where making the parents fails, the tree is as it was.
LEMMA WriteLawful ==
  ASSUME NEW t, IsTree(t), NEW u, Saved(u), NEW r \in WriteReqs, Resolved(r.path), session.allowed \subseteq Path,
         NEW a, a \in {FSWriteLocal(t, u, r), FSWriteRemote(t, u, r)}
  PROVE  Lawful(t, a.tree, r, a.claim) /\ Saved(a.undo)
<1> DEFINE A == session.allowed
<1>1. /\ r.tool = "fs.write_file" /\ r.parents \in BOOLEAN /\ r.path \in Paths
      /\ pathAllowed(r.path, A) /\ Front(r.path) \in Paths /\ IsPrefix(Front(r.path), r.path)
  BY PathsAre, FrontOf DEF WriteReqs, Resolved
<1>2. PICK made : made = IF r.parents /\ r.path # Root THEN MkdirAll(t, Front(r.path)) ELSE Done(t)
  OBVIOUS
<1>3. PICK put : put = Put(made.tree, r.path, r.new)
  OBVIOUS
<1> HIDE DEF A
<1>4. IsTree(made.tree) /\ Within(A, t, made.tree) /\ Keeps(t, made.tree, {}) /\ made.ok \in BOOLEAN
  <2>1. CASE r.parents /\ r.path # Root
    BY <1>1, <1>2, <2>1, MkdirAllEffect DEF A
  <2>2. CASE ~(r.parents /\ r.path # Root)
    <3>1. made.tree = t /\ made.ok = TRUE
      BY <1>2, <2>2 DEF Done
    <3> QED
      BY <3>1 DEF Within, Keeps
  <2> QED
    BY <2>1, <2>2
<1>5. /\ IsTree(put.tree) /\ Within(A, made.tree, put.tree) /\ Keeps(made.tree, put.tree, {r.path})
      /\ put.ok \in BOOLEAN /\ (put.ok => put.tree[r.path] = File(r.new))
  BY <1>1, <1>3, <1>4, NewText, PutEffect
<1>6. Within(A, t, put.tree) /\ Keeps(t, put.tree, {} \cup {r.path})
  BY <1>4, <1>5, WithinOn, KeepsOn
<1>7. \A q \in {} \cup {r.path} : Asked(r, q)
  BY <1>1 DEF Asked, Edits
<1>8. Spared(t, put.tree, r)
  BY <1>6, <1>7, SparedOf
<1>9. /\ Lawful(t, put.tree, r, "none") /\ (put.ok => Lawful(t, put.tree, r, "written"))
      /\ Lawful(t, t, r, "none")
  BY <1>5, <1>6, <1>8, NothingDone, WithinConfined DEF Lawful, Claimed, A
<1>10. PICK b : b = FSWriteLocal(t, u, r)
  OBVIOUS
<1>11. /\ Saved(b.undo)
       /\ \/ b.tree = t /\ b.claim = "none"
          \/ b.tree = put.tree /\ b.claim = IF put.ok THEN "written" ELSE "none"
       /\ b = [code |-> b.code, claim |-> b.claim, tree |-> b.tree, undo |-> b.undo]
  <2>1. PICK saved : saved = SaveUndoSnapshot(t, u, r.path)
    OBVIOUS
  <2>2. Saved(saved)
    BY <1>1, <2>1, SnapshotSaved
  <2>3. b = IF Len(r.new) > MaxBytes THEN Refuse("invalid_argument", t, u)
            ELSE IF ~made.ok THEN Refuse("execution_failed", t, saved)
            ELSE Answer(Code(put.ok), IF put.ok THEN "written" ELSE "none", put.tree, saved)
    BY <1>2, <1>3, <1>10, <2>1, Zenon DEF FSWriteLocal
  <2> QED
    BY <2>2, <2>3 DEF Answer, Refuse
<1>12. a.tree = b.tree /\ a.claim = b.claim /\ a.undo = b.undo
  <2>1. CASE a = b
    BY <2>1
  <2>2. CASE a # b
    <3>1. a = FSWriteRemote(t, u, r)
      BY <1>10, <2>2
    <3>2. \E code : a = [b EXCEPT !.code = code]
      BY <1>10, <2>2, <3>1, Zenon DEF FSWriteRemote
    <3> QED
      BY <1>11, <3>2
  <2> QED
    BY <2>1, <2>2
<1> QED
  BY <1>5, <1>9, <1>11, <1>12

\* fs.edit and fs.insert.
LEMMA EditLawful ==
  ASSUME NEW t, IsTree(t), NEW u, Saved(u), NEW r \in EditReqs \cup InsertReqs, Resolved(r.path),
         NEW a, \/ r \in EditReqs /\ a \in {FSEditLocal(t, u, r), FSEditRemote(t, u, r)}
                \/ r \in InsertReqs /\ a \in {FSInsertLocal(t, u, r), FSInsertRemote(t, u, r)}
  PROVE  Lawful(t, a.tree, r, a.claim) /\ Saved(a.undo)
<1>1. r.tool \in Edits \cup {"workspace.undo_edit"} /\ r.path \in Paths
  BY DEF EditReqs, InsertReqs, Edits, Resolved
<1>2. t[r.path].data \in Content /\ truncate(t[r.path].data) \in Content
  BY <1>1, NodeOf, TruncateText DEF IsTree
<1>3. PICK saved : saved = SaveUndoSnapshot(t, u, r.path)
  OBVIOUS
<1>4. Saved(saved)
  BY <1>1, <1>3, SnapshotSaved
<1>5. /\ a.undo = saved
      /\ \/ a.tree = t /\ a.claim = "none"
         \/ a.claim = "edited" /\ \E c \in Content : a.tree = Put(t, r.path, c).tree
  <2>1. CASE r \in EditReqs /\ a = FSEditLocal(t, u, r)
    <3>1. PICK new : new = fsEditApply(t[r.path].data, r)
      OBVIOUS
    <3>2. new = <<>> \/ new[1] \in Content
      BY <1>2, <2>1, <3>1, EditText
    <3>3. a = IF ~Exists(t, r.path) THEN Refuse("invalid_argument", t, saved)
             ELSE IF IsDir(t, r.path) THEN Refuse("execution_failed", t, saved)
             ELSE IF new = <<>> THEN Refuse("invalid_argument", t, saved)
             ELSE Answer("ok", "edited", Put(t, r.path, new[1]).tree, saved)
      BY <1>3, <2>1, <3>1, Zenon DEF FSEditLocal
    <3> QED
      BY <3>2, <3>3, Answered
  <2>2. CASE r \in EditReqs /\ a = FSEditRemote(t, u, r)
    <3>1. PICK new : new = fsEditApply(truncate(t[r.path].data), r)
      OBVIOUS
    <3>2. new = <<>> \/ new[1] \in Content
      BY <1>2, <2>2, <3>1, EditText
    <3>3. PICK miss : a = IF ~IsFile(t, r.path) THEN Refuse(miss, t, saved)
             ELSE IF new = <<>> THEN Refuse("invalid_argument", t, saved)
             ELSE Answer("ok", "edited", Put(t, r.path, new[1]).tree, saved)
      BY <1>3, <2>2, <3>1, Zenon DEF FSEditRemote
    <3> QED
      BY <3>2, <3>3, Answered
  <2>3. CASE r \in InsertReqs /\ a = FSInsertLocal(t, u, r)
    <3>1. PICK new : new = fsInsertAtLine(t[r.path].data, r)
      OBVIOUS
    <3>2. new \in Content
      BY <1>2, <2>3, <3>1, InsertText
    <3>3. a = IF ~Exists(t, r.path) THEN Refuse("invalid_argument", t, saved)
             ELSE IF IsDir(t, r.path) THEN Refuse("execution_failed", t, saved)
             ELSE Answer("ok", "edited", Put(t, r.path, new).tree, saved)
      BY <1>3, <2>3, <3>1, Zenon DEF FSInsertLocal
    <3> QED
      BY <3>2, <3>3, Answered
  <2>4. CASE r \in InsertReqs /\ a = FSInsertRemote(t, u, r)
    <3>1. PICK new : new = fsInsertAtLine(truncate(t[r.path].data), r)
      OBVIOUS
    <3>2. new \in Content
      BY <1>2, <2>4, <3>1, InsertText
    <3>3. PICK miss : a = IF ~IsFile(t, r.path) THEN Refuse(miss, t, saved)
             ELSE Answer("ok", "edited", Put(t, r.path, new).tree, saved)
      BY <1>3, <2>4, <3>1, Zenon DEF FSInsertRemote
    <3> QED
      BY <3>2, <3>3, Answered
  <2> QED
    BY <2>1, <2>2, <2>3, <2>4
<1> QED
  BY <1>1, <1>4, <1>5, PutLawful, NothingDone

\* workspace.undo_edit.
LEMMA UndoLawful ==
  ASSUME NEW t, IsTree(t), NEW u, Saved(u), NEW r \in UndoReqs, Resolved(r.path),
         NEW a, a \in {WorkspaceUndoEditLocal(t, u, r), WorkspaceUndoEditRemote(t, u, r)}
  PROVE  Lawful(t, a.tree, r, a.claim) /\ Saved(a.undo)
<1>1. r.tool \in Edits \cup {"workspace.undo_edit"} /\ r.path \in Paths
  BY DEF UndoReqs, Resolved
<1>2. PICK name : name = undoSnapshotPath(r.path)
  OBVIOUS
<1>3. name \in Names
  BY <1>1, <1>2 DEF Names
<1>4. u[name].data \in Content /\ truncate(u[name].data) \in Content
  BY <1>3, TruncateText DEF Saved
<1>5. PICK gone : gone = [u EXCEPT ![name] = Absent]
  OBVIOUS
<1>6. Saved(gone)
  <2>1. gone = [n \in Names |-> gone[n]] /\ gone[name] = Absent /\ \A n \in Names : n # name => gone[n] = u[n]
    BY <1>3, <1>5 DEF Saved
  <2>2. Absent.data \in Content
    BY Nodes, NodeOf
  <2> QED
    BY <2>1, <2>2 DEF Saved
<1>7. \/ a.tree = t /\ a.claim = "none" /\ a.undo = u
      \/ /\ a.claim = "restored" /\ a.undo = gone
         /\ \E c \in Content : a.tree = Put(t, r.path, c).tree
  <2>1. \E c \in {u[name].data, truncate(u[name].data)} : \E d, miss :
          \/ a = Refuse(d, t, u)
          \/ a = Refuse(miss, t, u)
          \/ a = Answer("ok", "restored", Put(t, r.path, c).tree, gone)
    <3>1. CASE a = WorkspaceUndoEditLocal(t, u, r)
      BY <1>2, <1>5, <3>1, Zenon DEF WorkspaceUndoEditLocal
    <3>2. CASE a = WorkspaceUndoEditRemote(t, u, r)
      BY <1>2, <1>5, <3>2, Zenon DEF WorkspaceUndoEditRemote
    <3> QED
      BY <3>1, <3>2
  <2> QED
    BY <1>4, <2>1, Answered
<1> QED
  BY <1>1, <1>6, <1>7, PutLawful, NothingDone

\* What a diff removes from a tree, and the directories that this leaves empty.
LEMMA UnlinkEffect ==
  ASSUME NEW t, IsTree(t), NEW p \in Paths, IsFile(t, p), NEW v, v = Unlink(t, p)
  PROVE  /\ IsTree(v) /\ Keeps(t, v, {p})
         /\ \A q \in Paths : v[q] = t[q] \/ (v[q] = Absent /\ IsPrefix(q, p))
<1> DEFINE Goes(q) == IsPrefix(q, p) /\ q # Root /\ \A x \in Under(q) : Exists(t, x) => IsPrefix(x, p)
<1>1. /\ v = [q \in Paths |-> v[q]]
      /\ \A q \in Paths : v[q] = IF Goes(q) THEN Absent ELSE t[q]
  BY DEF Unlink
<1>2. ASSUME NEW q \in Paths, NEW x \in Paths, Goes(q), IsPrefix(q, x), Exists(t, x)
      PROVE  Goes(x)
  <2>1. q \in Path /\ x \in Path /\ p \in Path /\ Root \in Path
    BY PathsAre
  <2>2. IsPrefix(x, p) /\ x # Root
    BY <1>2, <2>1, UnderOf, PathsAre
  <2>3. ASSUME NEW y \in Under(x), Exists(t, y) PROVE IsPrefix(y, p)
    <3>1. y \in Paths /\ y \in Path /\ IsPrefix(x, y)
      BY PathsAre DEF Under
    <3>2. y \in Under(q)
      BY <1>2, <2>1, <3>1, PrefixOrder DEF Under
    <3> QED
      BY <1>2, <2>3, <3>2
  <2> QED
    BY <2>2, <2>3
<1>3. \A q \in Paths : Goes(q) => IsPrefix(q, p)
  OBVIOUS
<1>4. ~Goes(Root)
  OBVIOUS
<1> HIDE DEF Goes
<1>5. Nested(v)
  <2>1. Exists(v, Root) => IsDir(v, Root)
    BY <1>1, <1>4, PathsAre DEF IsTree, Nested, Exists, IsDir
  <2>2. ASSUME NEW q \in Paths, NEW x \in Paths, Exists(v, x), IsPrefix(q, x), q # x
        PROVE  IsDir(v, q)
    <3>1. ~Goes(x) /\ Exists(t, x)
      BY <1>1, <2>2, Nodes DEF Exists
    <3>2. IsDir(t, q) /\ ~Goes(q)
      BY <1>2, <2>2, <3>1, TreeNests
    <3> QED
      BY <1>1, <3>2 DEF IsDir
  <2> QED
    BY <2>1, <2>2 DEF Nested
<1>6. \A q \in Paths : Node(v[q])
  BY <1>1, Nodes DEF IsTree
<1>7. Keeps(t, v, {p})
  <2> SUFFICES ASSUME NEW q \in Paths, IsFile(t, q), q # p PROVE ~Goes(q)
    BY <1>1 DEF Keeps
  <2>1. Exists(t, p) /\ ~IsDir(t, q)
    BY DEF IsFile, IsDir, Exists
  <2> QED
    BY <1>3, <2>1, TreeNests
<1> QED
  BY <1>1, <1>3, <1>5, <1>6, <1>7 DEF IsTree

\* A diff that renames a file: it goes to a free place, the way to which is made.
LEMMA RelocatedEffect ==
  ASSUME NEW t, IsTree(t), NEW from \in Paths, IsFile(t, from), NEW to \in Paths, to # Root,
         ~Exists(t, to), MkdirAll(t, Front(to)).ok, NEW v, v = Relocated(t, from, to)
  PROVE  /\ IsTree(v) /\ Keeps(t, v, {from})
         /\ \A q \in Paths : v[q] # t[q] => IsPrefix(q, from) \/ IsPrefix(q, to)
<1>1. /\ from \in Path /\ to \in Path /\ Front(to) \in Paths /\ Front(to) \in Path
      /\ IsPrefix(Front(to), to) /\ Front(to) # to
  BY PathsAre, FrontOf DEF Root
<1>2. PICK u : u = Unlink(t, from)
  OBVIOUS
<1>3. /\ IsTree(u) /\ Keeps(t, u, {from})
      /\ \A q \in Paths : u[q] = t[q] \/ (u[q] = Absent /\ IsPrefix(q, from))
  BY <1>2, UnlinkEffect
<1>4. PICK w : w = MkdirAll(u, Front(to)).tree
  OBVIOUS
<1>5. MkdirAll(u, Front(to)).ok
  <2>1. \A q \in Prefixes(Front(to)) : q \in Paths /\ ~IsFile(t, q)
    <3>1. Prefixes(Front(to)) \subseteq Paths
      BY <1>1, PathsClosed
    <3>2. ~ \E q \in Prefixes(Front(to)) : IsFile(t, q)
      BY Zenon DEF MkdirAll, Failed
    <3> QED
      BY <3>1, <3>2
  <2>2. \A q \in Prefixes(Front(to)) : ~IsFile(u, q)
    BY <1>3, <2>1, Nodes DEF IsFile
  <2> QED
    BY <2>2 DEF MkdirAll, Done
<1>6. /\ IsTree(w) /\ Keeps(u, w, {}) /\ IsDir(w, Front(to))
      /\ \A q \in Paths : w[q] # u[q] => IsPrefix(q, Front(to))
  <2>1. pathAllowed(to, {}) /\ {} \subseteq Path
    BY DEF pathAllowed
  <2> QED
    BY <1>1, <1>3, <1>4, <1>5, <2>1, MkdirAllEffect
<1>7. v = [w EXCEPT ![to] = t[from]]
  BY <1>2, <1>4, Zenon DEF Relocated
<1>8. v = [q \in Paths |-> v[q]] /\ v[to] = t[from] /\ \A q \in Paths : q # to => v[q] = w[q]
  BY <1>6, <1>7 DEF IsTree
<1>9. ~IsDir(w, to)
  <2>1. ~IsPrefix(to, Front(to))
    BY <1>1, PrefixOrder
  <2>2. u[to] = Absent
    BY <1>3, NodeOf DEF Exists, IsTree
  <2> QED
    BY <1>6, <2>1, <2>2, Nodes DEF IsDir
<1>10. Node(t[from]) /\ t[from].kind = "file" /\ t[from] # Absent
  BY Nodes DEF IsTree, IsFile
<1>11. IsTree(v)
  <2>1. pathAllowed(to, {})
    BY DEF pathAllowed
  <2> QED
    BY <1>6, <1>8, <1>9, <1>10, <2>1, NodeSet
<1>12. Keeps(t, v, {from})
  <2> SUFFICES ASSUME NEW q \in Paths, IsFile(t, q), q # from PROVE v[q] = t[q]
    BY DEF Keeps
  <2>1. u[q] = t[q] /\ IsFile(u, q)
    BY <1>3 DEF Keeps, IsFile
  <2>2. w[q] = u[q]
    BY <1>6, <2>1 DEF Keeps
  <2>3. q # to
    BY DEF IsFile, Exists
  <2> QED
    BY <1>8, <2>1, <2>2, <2>3
<1>13. ASSUME NEW q \in Paths, v[q] # t[q] PROVE IsPrefix(q, from) \/ IsPrefix(q, to)
  <2>0. q \in Path
    BY PathsAre
  <2>1. CASE q = to
    BY <1>1, <2>1, PrefixOrder
  <2>2. CASE q # to /\ w[q] # u[q]
    BY <1>1, <1>6, <2>0, <2>2, PrefixOrder
  <2>3. CASE q # to /\ w[q] = u[q]
    BY <1>3, <1>8, <1>13, <2>3
  <2> QED
    BY <2>1, <2>2, <2>3
<1> QED
  BY <1>11, <1>12, <1>13

\* The fields of a patch.
LEMMA PatchFields ==
  ASSUME NEW r \in PatchReqs
  PROVE  r.tool = "fs.patch" /\ r.from \in Paths /\ r.to \in Paths /\ r.new \in Contents
         /\ r.path = Root /\ r.conflict \in BOOLEAN
BY PathsAre DEF PatchReqs

\* The files of the diff are there, and stay files.
LEMMA WrittenEffect ==
  ASSUME NEW t, IsTree(t), NEW W, \A p \in W : p \in Paths /\ IsFile(t, p), NEW c \in Content,
         NEW v, v = [p \in Paths |-> IF p \in W THEN File(c) ELSE t[p]]
  PROVE  /\ IsTree(v) /\ Keeps(t, v, W)
         /\ \A p \in Paths : /\ v[p] # t[p] => p \in W
                             /\ Exists(v, p) <=> Exists(t, p)
                             /\ IsDir(v, p) <=> IsDir(t, p)
                             /\ IsFile(v, p) <=> IsFile(t, p)
<1>1. /\ v = [p \in Paths |-> v[p]]
      /\ \A p \in Paths : v[p] = IF p \in W THEN File(c) ELSE t[p]
  OBVIOUS
<1>2. \A p \in Paths : /\ Node(v[p])
                       /\ Exists(v, p) <=> Exists(t, p)
                       /\ IsDir(v, p) <=> IsDir(t, p)
                       /\ IsFile(v, p) <=> IsFile(t, p)
  <2> SUFFICES ASSUME NEW p \in Paths
               PROVE  /\ Node(v[p])
                      /\ Exists(v, p) <=> Exists(t, p)
                      /\ IsDir(v, p) <=> IsDir(t, p)
                      /\ IsFile(v, p) <=> IsFile(t, p)
    OBVIOUS
  <2>1. CASE p \in W
    BY <1>1, <2>1, Nodes DEF Exists, IsDir, IsFile
  <2>2. CASE p \notin W
    BY <1>1, <2>2 DEF Exists, IsDir, IsFile, IsTree
  <2> QED
    BY <2>1, <2>2
<1>3. IsTree(v)
  BY <1>1, <1>2, PathsAre DEF IsTree, Nested
<1> QED
  BY <1>1, <1>2, <1>3 DEF Keeps

\* fs.patch: what its "+++" lines name is allowed; what it removes or renames beside them is
\* what the property excepts.
LEMMA PatchLawful ==
  ASSUME NEW t, IsTree(t), NEW u, Saved(u), NEW r \in PatchReqs, NEW a, a = FSPatch(t, u, r)
  PROVE  Lawful(t, a.tree, r, a.claim) /\ Saved(a.undo)
<1>1. r.tool = "fs.patch" /\ r.from \in Paths /\ r.to \in Paths
  BY PatchFields
<1>2. PICK v : v = Patched(t, r)
  OBVIOUS
<1>3. /\ a.undo = u
      /\ \/ a.tree = t /\ a.claim = "none"
         \/ /\ a.tree = v /\ a.claim = "none" /\ Applies(t, r)
            /\ \A p \in r.writes : resolvePath(p, session.allowed) = "ok"
  BY <1>2 DEF FSPatch, Answer, Refuse, extractPatchPaths
<1>4. ASSUME Applies(t, r), \A p \in r.writes : resolvePath(p, session.allowed) = "ok"
      PROVE  Lawful(t, v, r, "none")
  <2>1. \A p \in r.writes : p \in Paths /\ pathAllowed(p, session.allowed) /\ IsFile(t, p)
    BY <1>4 DEF resolvePath, Applies
  <2>2. PICK w : w = [p \in Paths |-> IF p \in r.writes THEN File(r.new) ELSE t[p]]
    OBVIOUS
  <2>3. /\ IsTree(w) /\ Keeps(t, w, r.writes)
        /\ \A p \in Paths : /\ w[p] # t[p] => p \in r.writes
                            /\ Exists(w, p) <=> Exists(t, p)
                            /\ IsDir(w, p) <=> IsDir(t, p)
                            /\ IsFile(w, p) <=> IsFile(t, p)
    <3>1. r.new \in Content
      BY NewText
    <3> QED
      BY <2>1, <2>2, <3>1, WrittenEffect
  <2>4. v = IF r.from = Root THEN w
            ELSE IF r.to = Root THEN Unlink(w, r.from) ELSE Relocated(w, r.from, r.to)
    BY <1>2, <2>2, Zenon DEF Patched
  <2>5. r.from # Root => IsFile(w, r.from)
    BY <1>1, <1>4, <2>3 DEF Applies
  <2>6. /\ IsTree(v) /\ Keeps(w, v, {r.from})
        /\ \A q \in Paths : v[q] # w[q] => Unlooked(r, q)
    <3>1. CASE r.from = Root
      BY <2>3, <2>4, <3>1 DEF Keeps
    <3>2. CASE r.from # Root /\ r.to = Root
      <4>1. v = Unlink(w, r.from)
        BY <2>4, <3>2
      <4>2. /\ IsTree(v) /\ Keeps(w, v, {r.from})
            /\ \A q \in Paths : v[q] = w[q] \/ (v[q] = Absent /\ IsPrefix(q, r.from))
        BY <1>1, <2>3, <2>5, <3>2, <4>1, UnlinkEffect
      <4> QED
        BY <1>1, <3>2, <4>2 DEF Unlooked
    <3>3. CASE r.from # Root /\ r.to # Root
      <4>1. v = Relocated(w, r.from, r.to)
        BY <2>4, <3>3
      <4>2. ~Exists(w, r.to)
        BY <1>1, <1>4, <2>3, <3>3 DEF Applies
      <4>3. MkdirAll(w, Front(r.to)).ok
        <5>1. ~ \E q \in Prefixes(Front(r.to)) : IsFile(t, q)
          <6>1. MkdirAll(t, Front(r.to)).ok
            BY <1>4, <3>3 DEF Applies
          <6> QED
            BY <6>1, Zenon DEF MkdirAll, Failed
        <5>2. Prefixes(Front(r.to)) \subseteq Paths
          BY <1>1, PathsAre, PathsClosed
        <5>3. ~ \E q \in Prefixes(Front(r.to)) : IsFile(w, q)
          BY <2>3, <5>1, <5>2
        <5> QED
          BY <5>3 DEF MkdirAll, Done
      <4>4. /\ IsTree(v) /\ Keeps(w, v, {r.from})
            /\ \A q \in Paths : v[q] # w[q] => IsPrefix(q, r.from) \/ IsPrefix(q, r.to)
        BY <1>1, <2>3, <2>5, <3>3, <4>1, <4>2, <4>3, RelocatedEffect
      <4> QED
        BY <1>1, <3>3, <4>4 DEF Unlooked
    <3> QED
      BY <3>1, <3>2, <3>3
  <2>7. ConfinedTo(session.allowed, t, v, r)
    BY <2>1, <2>3, <2>6 DEF ConfinedTo
  <2>8. Spared(t, v, r)
    <3>1. Keeps(t, v, r.writes \cup {r.from})
      BY <2>3, <2>6, KeepsOn
    <3>2. \A q \in r.writes \cup {r.from} : Asked(r, q)
      BY <1>1 DEF Asked
    <3> QED
      BY <3>1, <3>2, SparedOf
  <2> QED
    BY <2>6, <2>7, <2>8, NoClaim DEF Lawful
<1> QED
  BY <1>3, <1>4, NothingDone

Requests == MkdirReqs \cup MoveReqs \cup CopyReqs \cup DeleteReqs \cup WriteReqs
            \cup EditReqs \cup InsertReqs \cup UndoReqs \cup PatchReqs

\* What resolvePath has let through.
LEMMA PermittedOf ==
  ASSUME NEW r \in Requests, Permitted(r)
  PROVE  /\ r \notin PatchReqs => Resolved(r.path)
         /\ r \in MoveReqs \cup CopyReqs => Resolved(r.dst)
<1>1. ASSUME NEW p, resolvePath(p, session.allowed) = "ok" PROVE Resolved(p)
  BY <1>1 DEF resolvePath, Resolved
<1>2. ASSUME r \notin PatchReqs PROVE Resolved(r.path)
  <2>1. r.tool # "fs.patch"
    BY <1>2 DEF Requests, MkdirReqs, MoveReqs, CopyReqs, DeleteReqs, WriteReqs, EditReqs,
                InsertReqs, UndoReqs
  <2> QED
    BY <1>1, <2>1 DEF Permitted
<1>3. ASSUME r \in MoveReqs \cup CopyReqs PROVE Resolved(r.dst)
  <2>1. r.tool # "fs.patch" /\ "dst" \in DOMAIN r
    BY <1>3 DEF MoveReqs, CopyReqs
  <2> QED
    BY <1>1, <2>1 DEF Permitted
<1> QED
  BY <1>2, <1>3

\* Every handler, on disk and in a pod.
LEMMA HandleLawful ==
  ASSUME IsTree(tree), session.allowed \in Allowed, NEW r \in Requests, Permitted(r), Bounded(r),
         NEW remote \in BOOLEAN, remote => session.runtime # "local", Saved(undo),
         NEW a, a = Handle(tree, undo, r, remote)
  PROVE  Lawful(tree, a.tree, r, a.claim) /\ Saved(a.undo)
<1>1. session.allowed \subseteq Path
  BY PathsAre
<1>2. CASE r \in MkdirReqs
  <2>1. a = IF remote THEN FSMkdirRemote(tree, undo, r) ELSE FSMkdirLocal(tree, undo, r)
    <3>1. r.tool = "fs.mkdir"
      BY <1>2 DEF MkdirReqs
    <3> QED
      BY <3>1 DEF Handle
  <2>2. Resolved(r.path)
    BY <1>2, PermittedOf, PatchFields DEF MkdirReqs
  <2> QED
    BY <1>1, <1>2, <2>1, <2>2, MkdirLawful
<1>3. CASE r \in MoveReqs
  <2>0. r.tool = "fs.move" /\ "dst" \in DOMAIN r
    BY <1>3 DEF MoveReqs
  <2>1. a = IF remote THEN FSMoveRemote(tree, undo, r) ELSE FSMoveLocal(tree, undo, r)
    BY <2>0 DEF Handle
  <2>2. Resolved(r.path) /\ Resolved(r.dst)
    BY <1>3, PermittedOf, PatchFields DEF MoveReqs
  <2>3. Fits(tree, r.path, r.dst)
    BY <2>0, <2>2 DEF Bounded, Resolved
  <2> QED
    BY <1>1, <1>3, <2>1, <2>2, <2>3, MoveLawful
<1>4. CASE r \in CopyReqs
  <2>0. r.tool = "fs.copy"
    BY <1>4 DEF CopyReqs
  <2>1. a = IF remote THEN FSCopyRemote(tree, undo, r) ELSE FSCopyLocal(tree, undo, r)
    BY <2>0 DEF Handle
  <2>2. Resolved(r.path) /\ Resolved(r.dst)
    BY <1>4, PermittedOf, PatchFields DEF CopyReqs
  <2>3. r.path # r.dst => ~IsPrefix(r.path, r.dst)
    BY <2>0 DEF Bounded
  <2> QED
    BY <1>1, <1>4, <2>1, <2>2, <2>3, CopyLawful
<1>5. CASE r \in DeleteReqs
  <2>0. r.tool = "fs.delete"
    BY <1>5 DEF DeleteReqs
  <2>1. a = IF r.path = Root THEN Refuse("policy_denied", tree, undo)
            ELSE IF remote THEN FSDeleteRemote(tree, undo, r) ELSE FSDeleteLocal(tree, undo, r)
    BY <2>0 DEF Handle, FSDelete
  <2>2. Resolved(r.path)
    BY <2>0, PermittedOf, PatchFields
  <2> QED
    BY <1>1, <1>5, <2>1, <2>2, DeleteLawful, NothingDone, Answered
<1>6. CASE r \in WriteReqs
  <2>0. r.tool = "fs.write_file"
    BY <1>6 DEF WriteReqs
  <2>1. a = IF remote THEN FSWriteRemote(tree, undo, r) ELSE FSWriteLocal(tree, undo, r)
    BY <2>0 DEF Handle
  <2>2. Resolved(r.path)
    BY <2>0, PermittedOf, PatchFields
  <2> QED
    BY <1>1, <1>6, <2>1, <2>2, WriteLawful
<1>7. CASE r \in EditReqs
  <2>0. r.tool = "fs.edit"
    BY <1>7 DEF EditReqs
  <2>1. a = IF r.new = <<r.old>> THEN Refuse("invalid_argument", tree, undo)
            ELSE IF remote THEN FSEditRemote(tree, undo, r) ELSE FSEditLocal(tree, undo, r)
    BY <2>0 DEF Handle, FSEdit
  <2>2. Resolved(r.path)
    BY <2>0, PermittedOf, PatchFields
  <2> QED
    BY <1>7, <2>1, <2>2, EditLawful, NothingDone, Answered
<1>8. CASE r \in InsertReqs
  <2>0. r.tool = "fs.insert"
    BY <1>8 DEF InsertReqs
  <2>1. a = IF remote THEN FSInsertRemote(tree, undo, r) ELSE FSInsertLocal(tree, undo, r)
    BY <2>0 DEF Handle
  <2>2. Resolved(r.path)
    BY <2>0, PermittedOf, PatchFields
  <2> QED
    BY <1>8, <2>1, <2>2, EditLawful
<1>9. CASE r \in UndoReqs
  <2>0. r.tool = "workspace.undo_edit"
    BY <1>9 DEF UndoReqs
  <2>1. a = IF remote THEN WorkspaceUndoEditRemote(tree, undo, r) ELSE WorkspaceUndoEditLocal(tree, undo, r)
    BY <2>0 DEF Handle
  <2>2. Resolved(r.path)
    BY <2>0, PermittedOf, PatchFields
  <2> QED
    BY <1>9, <2>1, <2>2, UndoLawful
<1>10. CASE r \in PatchReqs
  <2>0. r.tool = "fs.patch"
    BY <1>10, PatchFields
  <2>1. a = FSPatch(tree, undo, r)
    BY <2>0 DEF Handle
  <2> QED
    BY <1>10, <2>1, PatchLawful
<1> QED
  BY <1>2, <1>3, <1>4, <1>5, <1>6, <1>7, <1>8, <1>9, <1>10 DEF Requests

\* Every answer: also one refused, one of a pod without its workspace, and one cut short
\* by a timeout before, within or after the script.
LEMMA AnswersLawful ==
  ASSUME IsTree(tree), session.allowed \in Allowed, Saved(undo), NEW r \in Requests, Bounded(r),
         NEW a \in Answers(tree, undo, r)
  PROVE  Lawful(tree, a.tree, r, a.claim) /\ Saved(a.undo)
<1>1. Lawful(tree, tree, r, "none")
  BY NothingDone
<1>2. CASE ~Permitted(r)
  BY <1>1, <1>2, Answered DEF Answers
<1>3. CASE Permitted(r) /\ session.runtime = "local"
  BY <1>3, HandleLawful DEF Answers
<1>4. CASE Permitted(r) /\ session.runtime # "local" /\ ~IsDir(tree, Root)
  <2>1. \E c : a = Refuse(c, tree, undo)
    BY <1>4 DEF Answers
  <2> QED
    BY <1>1, <2>1, Answered
<1>5. CASE Permitted(r) /\ session.runtime # "local" /\ IsDir(tree, Root)
  <2>1. PICK done : done = Handle(tree, undo, r, TRUE)
    OBVIOUS
  <2>2. Lawful(tree, done.tree, r, done.claim) /\ Saved(done.undo)
    BY <1>5, <2>1, HandleLawful
  <2>3. Lawful(tree, done.tree, r, "none")
    BY <2>2, LawfulSilent
  <2>4. PICK middle : middle = IF r.tool \in {"fs.move", "fs.copy"} /\ done.claim # "none"
                               THEN Prepared(tree, r).tree ELSE tree
    OBVIOUS
  <2>5. Lawful(tree, middle, r, "none")
    <3>1. CASE r.tool \in {"fs.move", "fs.copy"}
      <4>1. r \in MoveReqs \cup CopyReqs
        BY <3>1, PatchFields DEF Requests, MkdirReqs, DeleteReqs, WriteReqs, EditReqs, InsertReqs,
                                 UndoReqs
      <4>2. Resolved(r.dst) /\ session.allowed \subseteq Path
        BY <1>5, <4>1, PermittedOf, PathsAre
      <4>3. Lawful(tree, Prepared(tree, r).tree, r, "none")
        BY <4>1, <4>2, PreparedLawful
      <4> QED
        BY <1>1, <2>4, <4>3
    <3>2. CASE r.tool \notin {"fs.move", "fs.copy"}
      BY <1>1, <2>4, <3>2
    <3> QED
      BY <3>1, <3>2
  <2>6. Answers(tree, undo, r) = {done} \cup Interrupted(tree, undo, r)
    BY <1>5, <2>1 DEF Answers
  <2>7. Interrupted(tree, undo, r) =
          {Refuse("timeout", tree, undo), Refuse("timeout", tree, done.undo),
           Refuse("timeout", middle, undo), Refuse("timeout", done.tree, done.undo)}
    BY <2>1, <2>4, Zenon DEF Interrupted
  <2> QED
    BY <1>1, <2>2, <2>3, <2>5, <2>6, <2>7, Answered
<1> QED
  BY <1>2, <1>3, <1>4, <1>5

--------------------------------------------------------------------------------
(* The theorems. *)

FsInv == IsTree(tree) /\ Saved(undo) /\ session.allowed \in Allowed /\ AnswersHold

\* The invariant holds in the initial states.
LEMMA FsInit == Init => FsInv
<1> SUFFICES ASSUME Init PROVE FsInv
  OBVIOUS
<1>1. IsTree(tree) /\ session.allowed \in Allowed /\ last.claim = "none"
  BY TreesTyped DEF Init
<1>2. Saved(undo)
  <2>1. Absent.data \in Content
    BY Nodes, NodeOf
  <2> QED
    BY <2>1 DEF Init, Saved
<1> QED
  BY <1>1, <1>2, TreeIsWellFormed, NoClaim DEF FsInv, AnswersHold

\* One call, whatever tool it is of.
LEMMA FsStep ==
  ASSUME FsInv, [Next]_vars
  PROVE  /\ FsInv'
         /\ [ConfinedTo(session.allowed, tree, tree', last'.req)]_vars
         /\ [Spared(tree, tree', last'.req)]_vars
<1>1. IsTree(tree) /\ Saved(undo) /\ session.allowed \in Allowed /\ AnswersHold
  BY DEF FsInv
<1>2. CASE UNCHANGED vars
  BY <1>1, <1>2 DEF vars, FsInv, AnswersHold, Claimed
<1>3. ASSUME Next
      PROVE  /\ FsInv' /\ ConfinedTo(session.allowed, tree, tree', last'.req)
             /\ Spared(tree, tree', last'.req)
  <2>1. PICK r \in Requests : Invoke(r)
    BY <1>3 DEF Next, FsMkdir, FsMove, FsCopy, FsDelete, FsWrite, FsEdit, FsInsert, UndoEdit, FsPatch,
                Requests
  <2>2. PICK a \in Answers(tree, undo, r) :
          /\ tree' = a.tree /\ undo' = a.undo
          /\ last' = [req |-> r, code |-> a.code, claim |-> a.claim]
    BY <2>1 DEF Invoke
  <2>3. Bounded(r) /\ session' = session
    BY <2>1 DEF Invoke
  <2>4. Lawful(tree, a.tree, r, a.claim) /\ Saved(a.undo)
    BY <1>1, <2>2, <2>3, AnswersLawful
  <2>5. last'.req = r /\ last'.claim = a.claim
    BY <2>2
  <2>6. /\ IsTree(tree') /\ ConfinedTo(session.allowed, tree, tree', last'.req)
        /\ Spared(tree, tree', last'.req)
    BY <2>2, <2>4, <2>5 DEF Lawful
  <2>7. WellFormed(tree')
    BY <2>6, TreeIsWellFormed
  <2>8. Claimed(tree, last.req, last.claim)'
    BY <2>2, <2>3, <2>4, <2>5 DEF Lawful, Claimed
  <2> QED
    BY <1>1, <2>2, <2>3, <2>4, <2>6, <2>7, <2>8 DEF FsInv, AnswersHold
<1> QED
  BY <1>2, <1>3

\* What a workspace tool answers is true of the workspace, and the workspace stays a tree
\* that a file system can hold, for every set of paths, every allowed_paths and every
\* sequence of calls, on disk and in a pod, timeouts included (fs_tools.go).
THEOREM AnswersAreTrue == Spec => []AnswersHold
<1>1. FsInv /\ [Next]_vars => FsInv'
  BY FsStep
<1>2. FsInv => AnswersHold
  BY DEF FsInv
<1> QED
  BY <1>1, <1>2, FsInit, PTL DEF Spec

\* No call changes anything outside the session's allowed_paths but the directories that
\* lead there (resolvePath and pathAllowed of path.go); a patch of fs_tools.go, which is
\* checked by its "+++" lines alone, may besides delete or rename other files.
THEOREM CallsAreConfined == Spec => Confined
<1>1. FsInv /\ [Next]_vars => FsInv' /\ [ConfinedTo(session.allowed, tree, tree', last'.req)]_vars
  BY FsStep
<1> QED
  BY <1>1, FsInit, PTL DEF Spec, Confined

\* A file is lost only to a call that names it as what it writes, deletes or overwrites,
\* or is where the call moved it: also when the call failed or timed out (fs_tools.go).
THEOREM LossesAreAskedFor == Spec => LossIsAskedFor
<1>1. FsInv /\ [Next]_vars => FsInv' /\ [Spared(tree, tree', last'.req)]_vars
  BY FsStep
<1> QED
  BY <1>1, FsInit, PTL DEF Spec, LossIsAskedFor

--------------------------------------------------------------------------------
(* The tools that only read. *)

\* A set of paths is finite, and what is kept of it at a limit is all of it below the limit.
LEMMA CappedOf ==
  ASSUME NEW S, IsFiniteSet(S), NEW max \in Nat, NEW K \in Capped(S, max)
  PROVE  /\ K \subseteq S /\ IsFiniteSet(K) /\ Cardinality(S) \in Nat /\ Cardinality(K) \in Nat
         /\ Cardinality(K) = IF Cardinality(S) <= max THEN Cardinality(S) ELSE max
         /\ Cardinality(S) <= max => K = S
         /\ Cardinality(K) < max => K = S
<1>1. /\ K \in SUBSET S
      /\ Cardinality(K) = IF Cardinality(S) <= max THEN Cardinality(S) ELSE max
  BY DEF Capped
<1>2. Cardinality(S) \in Nat
  BY FS_CardinalityType
<1>3. IsFiniteSet(K) /\ (Cardinality(S) = Cardinality(K) => S = K)
  BY <1>1, FS_Subset
<1>4. Cardinality(K) \in Nat
  BY <1>3, FS_CardinalityType
<1>5. Cardinality(S) <= max => Cardinality(S) = Cardinality(K)
  BY <1>1
<1>6. Cardinality(K) < max => Cardinality(S) = Cardinality(K)
  BY <1>1, <1>2
<1> QED
  BY <1>1, <1>2, <1>3, <1>4, <1>5, <1>6

\* There are finitely many entries.
LEMMA PathsFinite ==
  ASSUME NEW S, S \subseteq Paths
  PROVE  IsFiniteSet(S)
BY PathsTyped, FS_Subset

\* The smaller and the larger of two numbers.
LEMMA PairMin ==
  ASSUME NEW a \in Int, NEW b \in Int
  PROVE  /\ Min({a, b}) = IF a <= b THEN a ELSE b
         /\ Max({a, b}) = IF a >= b THEN a ELSE b
<1> DEFINE m == IF a <= b THEN a ELSE b
           n == IF a >= b THEN a ELSE b
<1>1. m \in {a, b} /\ \A y \in {a, b} : m <= y
  OBVIOUS
<1>2. \A x \in {a, b} : (\A y \in {a, b} : x <= y) => x = m
  OBVIOUS
<1>3. n \in {a, b} /\ \A y \in {a, b} : n >= y
  OBVIOUS
<1>4. \A x \in {a, b} : (\A y \in {a, b} : x >= y) => x = n
  OBVIOUS
<1> HIDE DEF m, n
<1>5. Min({a, b}) = m
  <2>1. Min({a, b}) \in {a, b} /\ \A y \in {a, b} : Min({a, b}) <= y
    BY <1>1, Zenon DEF Min
  <2> QED
    BY <1>2, <2>1
<1>6. Max({a, b}) = n
  <2>1. Max({a, b}) \in {a, b} /\ \A y \in {a, b} : Max({a, b}) >= y
    BY <1>3, Zenon DEF Max
  <2> QED
    BY <1>4, <2>1
<1> QED
  BY <1>5, <1>6 DEF m, n

\* A runner's cut of what it does not cut changes nothing.
LEMMA CappedCut ==
  ASSUME NEW S, IsFiniteSet(S), Whole(S), NEW max \in Nat
  PROVE  Min({max, MaxOut}) \in Nat /\ Capped(S, Min({max, MaxOut})) = Capped(S, max)
<1>1. Cardinality(S) \in Nat /\ Cardinality(S) <= MaxOut /\ MaxOut \in Nat
  BY FS_CardinalityType, SizesTyped DEF Whole
<1>2. PICK m : m = Min({max, MaxOut})
  OBVIOUS
<1>3. m = IF max <= MaxOut THEN max ELSE MaxOut
  BY <1>1, <1>2, PairMin
<1>4. m \in Nat
  BY <1>1, <1>3
<1>5. (IF Cardinality(S) <= m THEN Cardinality(S) ELSE m)
        = IF Cardinality(S) <= max THEN Cardinality(S) ELSE max
  BY <1>1, <1>3
<1>6. Capped(S, m) = Capped(S, max)
  BY <1>5, Zenon DEF Capped
<1> QED
  BY <1>2, <1>4, <1>6

\* What a runner sends of a listing is all of it, or shows the mark.
LEMMA SentOf ==
  ASSUME NEW S, IsFiniteSet(S), NEW K \in Sent(S)
  PROVE  /\ K = S \/ Mark \in K
         /\ IsFiniteSet(K)
         /\ Whole(S) => K = S
<1>1. CASE Cardinality(S) <= MaxOut
  BY <1>1 DEF Sent
<1>2. CASE ~(Cardinality(S) <= MaxOut)
  <2>1. PICK L \in Capped(S, MaxOut) : K = L \cup {Mark}
    BY <1>2 DEF Sent
  <2>2. IsFiniteSet(L)
    BY SizesTyped, CappedOf
  <2> QED
    BY <1>2, <2>1, <2>2, FS_AddElement DEF Whole
<1> QED
  BY <1>1, <1>2

\* repo.tree, on disk and with find.
LEMMA TreeComplete ==
  ASSUME NEW t, NEW p \in Paths, NEW depth, NEW max \in Nat,
         NEW g \in RepoTreeLocal(t, p, depth, {}, max) \cup RepoTreeRemote(t, p, depth, {}, max), ~g.truncated,
         Mark \notin g.entries
  PROVE  {q \in Listing(t, p, TRUE) : Len(q) - Len(p) <= depth} \subseteq g.entries
<1>1. CASE g \in RepoTreeLocal(t, p, depth, {}, max)
  <2>1. PICK shown : shown = {q \in Listing(t, p, TRUE) :
                                /\ Len(q) - Len(p) <= depth
                                /\ \A i \in Len(p) + 1 .. Len(q) : q[i] \notin {}}
    OBVIOUS
  <2>2. IsFiniteSet(shown)
    BY <2>1, PathsFinite DEF Listing, Under
  <2>3. PICK K \in Capped(shown, max) : g = [entries |-> K, truncated |-> Cardinality(shown) > max]
    BY <1>1, <2>1, Zenon DEF RepoTreeLocal
  <2>4. Cardinality(shown) \in Nat /\ (Cardinality(shown) <= max => K = shown)
    BY <2>2, CappedOf
  <2>5. ~(Cardinality(shown) > max) /\ g.entries = K
    BY <2>3
  <2>6. g.entries = shown
    BY <2>4, <2>5
  <2> QED
    BY <2>1, <2>6
<1>2. CASE g \in RepoTreeRemote(t, p, depth, {}, max)
  <2>1. PICK shown : shown = {q \in {p} \cup Listing(t, p, TRUE) :
                                /\ Len(q) - Len(p) <= depth
                                /\ \A i \in Len(p) + 1 .. Len(q) : q[i] \notin {}}
    OBVIOUS
  <2>2. IsFiniteSet(shown)
    BY <2>1, PathsFinite DEF Listing, Under
  <2>3. PICK K \in UNION {Sent(S) : S \in Capped(shown, max + 1)} :
          g = [entries |-> K, truncated |-> Cardinality(K) > max]
    BY <1>2, <2>1, Zenon DEF RepoTreeRemote
  <2>4. Cardinality(K) \in Nat /\ (Cardinality(K) < max + 1 => K = shown)
    <3>1. max + 1 \in Nat
      OBVIOUS
    <3>2. PICK S \in Capped(shown, max + 1) : K \in Sent(S)
      BY <2>3
    <3>3. IsFiniteSet(S) /\ Cardinality(S) \in Nat /\ (Cardinality(S) < max + 1 => S = shown)
      BY <2>2, <3>1, <3>2, CappedOf
    <3>4. K = S
      <4>1. g.entries = K
        BY <2>3
      <4> QED
        BY <3>2, <3>3, <4>1, SentOf
    <3> QED
      BY <3>3, <3>4
  <2>5. ~(Cardinality(K) > max) /\ g.entries = K
    BY <2>3
  <2>6. g.entries = shown
    BY <2>4, <2>5
  <2> QED
    BY <2>1, <2>6
<1> QED
  BY <1>1, <1>2

\* artifact.list in a pod: the mark matches where there is no pattern.
LEMMA ArtifactsComplete ==
  ASSUME NEW t, NEW p \in Paths, NEW n, NEW max \in Nat,
         NEW g \in ArtifactListRemote(t, p, TRUE, n, max), ~g.truncated, Mark \notin g.entries,
         n = <<>> \/ Whole({q \in Under(p) : IsFile(t, q)})
  PROVE  {q \in Under(p) : IsFile(t, q) /\ n \in {<<>>, Last(q)}} = g.entries
<1> DEFINE found(sent) == {q \in sent : artifactPathMatches(q, n)}
<1>1. PICK lines : lines = {q \in Under(p) : IsFile(t, q) /\ (TRUE \/ Len(q) <= Len(p) + 1)}
  OBVIOUS
<1>2. IsFiniteSet(lines) /\ lines = {q \in Under(p) : IsFile(t, q)}
  <2>1. lines = {q \in Under(p) : IsFile(t, q)}
    BY <1>1
  <2> QED
    BY <2>1, PathsFinite DEF Under
<1>3. ArtifactListRemote(t, p, TRUE, n, max) =
        IF ~IsDir(t, p) /\ ~IsFile(t, p) THEN {}
        ELSE {[entries |-> K, truncated |-> Cardinality(K) >= max] :
                K \in UNION {Capped(found(sent), max) : sent \in Sent(lines)}}
  BY <1>1, Zenon DEF ArtifactListRemote
<1> HIDE DEF found
<1>4. g \in {[entries |-> K, truncated |-> Cardinality(K) >= max] :
               K \in UNION {Capped(found(sent), max) : sent \in Sent(lines)}}
  BY <1>3
<1>5. PICK K \in UNION {Capped(found(sent), max) : sent \in Sent(lines)} :
        g = [entries |-> K, truncated |-> Cardinality(K) >= max]
  BY <1>4, Zenon
<1>6. PICK sent \in Sent(lines) : K \in Capped(found(sent), max)
  BY <1>5
<1>7. (sent = lines \/ Mark \in sent) /\ IsFiniteSet(sent) /\ (Whole(lines) => sent = lines)
  BY <1>2, <1>6, SentOf
<1>8. IsFiniteSet(found(sent)) /\ found(sent) \subseteq sent
  BY <1>7, FS_Subset DEF found
<1>9. Cardinality(K) \in Nat /\ (Cardinality(K) < max => K = found(sent))
  BY <1>6, <1>8, CappedOf
<1>10. ~(Cardinality(K) >= max) /\ g.entries = K
  BY <1>5
<1>11. g.entries = found(sent)
  BY <1>9, <1>10
<1>12. sent = lines
  <2>1. CASE n = <<>>
    <3>1. found(sent) = sent
      BY <2>1 DEF found, artifactPathMatches
    <3> QED
      BY <1>7, <1>11, <3>1
  <2>2. CASE Whole({q \in Under(p) : IsFile(t, q)})
    BY <1>2, <1>7, <2>2
  <2> QED
    BY <2>1, <2>2
<1>13. found(lines) = {q \in Under(p) : IsFile(t, q) /\ n \in {<<>>, Last(q)}}
  BY <1>2 DEF found, artifactPathMatches
<1> QED
  BY <1>11, <1>12, <1>13

\* The lines of a content from start on, at most range of them.
LinesOf(c, d, start, range) ==
  Len(c) <= range /\ \A i \in DOMAIN c : c[i] = d[Max({start, 1}) + i - 1]

\* fs.read_lines: at most range lines, from the first one asked for on.
LEMMA LinesComplete ==
  ASSUME NEW t, IsTree(t), NEW q \in Paths, NEW start \in Nat, NEW end \in Nat, NEW range \in Nat \ {0},
         NEW c \in FSReadLinesLocal(t, q, start, end, range)
  PROVE  LinesOf(c, t[q].data, start, range) /\ c \in Content
<1>1. t[q].data \in Content /\ Len(t[q].data) \in Nat
  BY NodeOf, TextOf DEF IsTree
<1>2. PICK s : s = IF start < 1 THEN 1 ELSE start
  OBVIOUS
<1>3. PICK e : e = IF end < s THEN s ELSE end
  OBVIOUS
<1>4. PICK f : f = IF e - s + 1 > range THEN s + range - 1 ELSE e
  OBVIOUS
<1>5. c = SubSeq(t[q].data, s, Min({f, Len(t[q].data)}))
  <2>1. FSReadLinesLocal(t, q, start, end, range) =
          IF ~IsFile(t, q) THEN {} ELSE {SubSeq(t[q].data, s, Min({f, Len(t[q].data)}))}
    BY <1>2, <1>3, <1>4, Zenon DEF FSReadLinesLocal
  <2> QED
    BY <2>1
<1>6. s \in Nat \ {0} /\ e \in Nat /\ f \in Nat /\ f - s + 1 <= range /\ s = Max({start, 1})
  <2>1. s \in Nat \ {0} /\ e \in Nat /\ e >= s
    BY <1>2, <1>3
  <2>2. f \in Nat /\ f - s + 1 <= range
    BY <1>4, <2>1
  <2>3. s = Max({start, 1})
    BY <1>2, PairMin
  <2> QED
    BY <2>1, <2>2, <2>3
<1>7. PICK n : /\ n = Min({f, Len(t[q].data)})
               /\ n \in Nat /\ n <= f /\ n <= Len(t[q].data)
  <2>1. f \in Int /\ Len(t[q].data) \in Int
    BY <1>1, <1>6
  <2>2. Min({f, Len(t[q].data)}) = IF f <= Len(t[q].data) THEN f ELSE Len(t[q].data)
    BY <2>1, PairMin
  <2> QED
    BY <1>1, <1>6, <2>2
<1>8. /\ c \in Content /\ Len(c) = IF s <= n THEN n - s + 1 ELSE 0
      /\ \A i \in 1 .. n - s + 1 : c[i] = t[q].data[s + i - 1]
  <2>1. PICK d : d = t[q].data
    OBVIOUS
  <2>2. d \in Content /\ n <= Len(d) /\ c = SubSeq(d, s, n)
    BY <1>1, <1>5, <1>7, <2>1
  <2>3. /\ SubSeq(d, s, n) \in Content /\ Len(SubSeq(d, s, n)) = IF s <= n THEN n - s + 1 ELSE 0
        /\ \A i \in 1 .. n - s + 1 : SubSeq(d, s, n)[i] = d[s + i - 1]
    <3>1. s \in Nat \ {0}
      BY <1>6
    <3>2. n \in Nat
      BY <1>7
    <3>3. d \in Content
      BY <2>2
    <3>4. n <= Len(d)
      BY <2>2
    <3> QED
      BY <3>1, <3>2, <3>3, <3>4, SubText
  <2> QED
    BY <2>1, <2>2, <2>3
<1>9. DOMAIN c = 1 .. Len(c)
  BY <1>8, TextOf
<1>10. Len(c) <= range
  BY <1>6, <1>7, <1>8
<1>11. ASSUME NEW i \in DOMAIN c PROVE c[i] = t[q].data[Max({start, 1}) + i - 1]
  <2>1. i \in 1 .. n - s + 1
    BY <1>6, <1>7, <1>8, <1>9, <1>11
  <2> QED
    BY <1>6, <1>8, <2>1
<1> QED
  BY <1>8, <1>10, <1>11 DEF LinesOf

\* A text that the runner cut: what it kept, and the mark.
LEMMA CutText ==
  ASSUME NEW d \in Content, ~(Len(d) <= MaxBytes), NEW c, c = truncate(d)
  PROVE  /\ c # <<>> /\ Last(c) = Cut
         /\ Front(c) \in Content /\ Len(Front(c)) = MaxBytes /\ MaxBytes < Len(d)
         /\ \A i \in 1 .. MaxBytes : Front(c)[i] = d[i]
<1>1. Len(d) \in Nat /\ MaxBytes \in Nat /\ MaxBytes <= Len(d) /\ MaxBytes < Len(d)
  BY TextOf, SizesTyped
<1>2. PICK k : k = SubSeq(d, 1, MaxBytes)
  OBVIOUS
<1>3. /\ k \in Content /\ Len(k) = MaxBytes
      /\ \A i \in 1 .. MaxBytes : k[i] = d[i]
  <2>1. /\ SubSeq(d, 1, MaxBytes) \in Content
        /\ Len(SubSeq(d, 1, MaxBytes)) = IF 1 <= MaxBytes THEN MaxBytes - 1 + 1 ELSE 0
        /\ \A i \in 1 .. MaxBytes - 1 + 1 : SubSeq(d, 1, MaxBytes)[i] = d[1 + i - 1]
    BY <1>1, SubText
  <2>2. /\ k \in Content /\ Len(k) = IF 1 <= MaxBytes THEN MaxBytes - 1 + 1 ELSE 0
        /\ \A i \in 1 .. MaxBytes - 1 + 1 : k[i] = d[1 + i - 1]
    BY <1>2, <2>1, Zenon
  <2>3. \A i \in 1 .. MaxBytes : i \in 1 .. MaxBytes - 1 + 1 /\ 1 + i - 1 = i
    BY <1>1
  <2>4. Len(k) = MaxBytes
    BY <1>1, <2>2
  <2> QED
    BY <2>2, <2>3, <2>4
<1>4. c = Append(k, Cut)
  BY <1>2 DEF truncate
<1>5. /\ c \in Content /\ c # <<>> /\ Len(c) = MaxBytes + 1 /\ c[MaxBytes + 1] = Cut
      /\ \A i \in 1 .. MaxBytes : c[i] = k[i]
  <2>1. Cut \in Text
    BY DEF Text
  <2> QED
    BY <1>3, <1>4, <2>1, AppendProperties DEF Content
<1>6. Last(c) = Cut
  BY <1>5 DEF Last
<1>7. Front(c) = SubSeq(c, 1, MaxBytes)
  <2>1. Len(c) - 1 = MaxBytes
    BY <1>1, <1>5
  <2> QED
    BY <2>1, Zenon DEF Front
<1>8. PICK h : h = SubSeq(c, 1, MaxBytes)
  OBVIOUS
<1>9. /\ h \in Content /\ Len(h) = MaxBytes
      /\ \A i \in 1 .. MaxBytes : h[i] = c[i]
  <2>0. MaxBytes <= Len(c)
    BY <1>1, <1>5
  <2>1. /\ SubSeq(c, 1, MaxBytes) \in Content
        /\ Len(SubSeq(c, 1, MaxBytes)) = IF 1 <= MaxBytes THEN MaxBytes - 1 + 1 ELSE 0
        /\ \A i \in 1 .. MaxBytes - 1 + 1 : SubSeq(c, 1, MaxBytes)[i] = c[1 + i - 1]
    BY <1>1, <1>5, <2>0, SubText
  <2>2. /\ h \in Content /\ Len(h) = IF 1 <= MaxBytes THEN MaxBytes - 1 + 1 ELSE 0
        /\ \A i \in 1 .. MaxBytes - 1 + 1 : h[i] = c[1 + i - 1]
    BY <1>8, <2>1, Zenon
  <2>3. \A i \in 1 .. MaxBytes : i \in 1 .. MaxBytes - 1 + 1 /\ 1 + i - 1 = i
    BY <1>1
  <2>4. Len(h) = MaxBytes
    BY <1>1, <2>2
  <2> QED
    BY <2>2, <2>3, <2>4
<1> QED
  BY <1>1, <1>3, <1>5, <1>6, <1>7, <1>8, <1>9

\* fs.read_lines in a pod: the same, up to the mark.
LEMMA SentLinesComplete ==
  ASSUME NEW t, IsTree(t), NEW q \in Paths, NEW start \in Nat, NEW end \in Nat, NEW range \in Nat \ {0},
         NEW c \in FSReadLinesRemote(t, q, start, end, range)
  PROVE  \/ LinesOf(c, t[q].data, start, range)
         \/ c # <<>> /\ Last(c) = Cut /\ LinesOf(Front(c), t[q].data, start, range)
<1>1. PICK d \in FSReadLinesLocal(t, q, start, end, range) : c = truncate(d)
  BY DEF FSReadLinesRemote
<1>2. /\ Len(d) <= range /\ \A i \in DOMAIN d : d[i] = t[q].data[Max({start, 1}) + i - 1]
      /\ d \in Content
  BY LinesComplete DEF LinesOf
<1>3. CASE Len(d) <= MaxBytes
  BY <1>1, <1>2, <1>3, TruncateText DEF LinesOf
<1>4. CASE ~(Len(d) <= MaxBytes)
  <2>1. PICK h : h = Front(c)
    OBVIOUS
  <2>2. /\ c # <<>> /\ Last(c) = Cut /\ h \in Content /\ Len(h) = MaxBytes /\ MaxBytes < Len(d)
        /\ \A i \in 1 .. MaxBytes : h[i] = d[i]
    BY <1>1, <1>2, <1>4, <2>1, CutText
  <2>3. /\ DOMAIN h = 1 .. MaxBytes /\ DOMAIN d = 1 .. Len(d) /\ Len(d) \in Nat
        /\ MaxBytes \in Nat
    BY <1>2, <2>2, TextOf, SizesTyped
  <2>4. Len(h) <= range
    BY <1>2, <2>2, <2>3
  <2>5. \A i \in DOMAIN h : i \in DOMAIN d /\ h[i] = d[i]
    BY <2>2, <2>3
  <2>6. LinesOf(h, t[q].data, start, range)
    BY <1>2, <2>4, <2>5 DEF LinesOf
  <2> QED
    BY <2>1, <2>2, <2>6
<1> QED
  BY <1>3, <1>4

\* readWorkspaceFile of the artifact tools.
LEMMA FileComplete ==
  ASSUME NEW t, IsTree(t), NEW q \in Paths, NEW max \in Nat
  PROVE  /\ readLocalFile(t, q, max) = readRemoteFile(t, q, max)
         /\ \A g \in readLocalFile(t, q, max) : ~g.truncated => g.content = t[q].data
<1> DEFINE c == t[q].data
<1>1. c \in Content /\ Len(c) \in Nat /\ SubSeq(c, 1, Len(c)) = c
  <2>1. c \in Content
    BY NodeOf DEF IsTree
  <2> QED
    BY <2>1, TextOf, SubSeqFull DEF Content
<1> HIDE DEF c
<1>2. PICK sent : sent = SubSeq(c, 1, Min({max + 1, Len(c)}))
  OBVIOUS
<1>3. readRemoteFile(t, q, max) =
        IF t[q].kind # "file" THEN {}
        ELSE {[content |-> IF Len(sent) > max THEN SubSeq(sent, 1, max) ELSE sent,
               truncated |-> Len(sent) > max]}
  BY <1>2, Zenon DEF readRemoteFile, c
<1>4. readLocalFile(t, q, max) =
        IF t[q].kind # "file" THEN {}
        ELSE {[content |-> SubSeq(c, 1, Min({max, Len(c)})), truncated |-> Len(c) > max]}
  BY DEF readLocalFile, c, IsFile
<1>5. CASE Len(c) <= max
  <2>1. Min({max + 1, Len(c)}) = Len(c) /\ Min({max, Len(c)}) = Len(c)
    BY <1>1, <1>5, PairMin
  <2>2. sent = c /\ (Len(c) > max) = FALSE
    BY <1>1, <1>2, <1>5, <2>1
  <2>3. readLocalFile(t, q, max) = IF t[q].kind # "file" THEN {} ELSE {[content |-> c, truncated |-> FALSE]}
    BY <1>1, <1>4, <2>1, <2>2, Zenon
  <2>4. readRemoteFile(t, q, max) = IF t[q].kind # "file" THEN {} ELSE {[content |-> c, truncated |-> FALSE]}
    BY <1>3, <2>2, Zenon
  <2> QED
    BY <2>3, <2>4 DEF c
<1>6. CASE Len(c) > max
  <2>1. Min({max + 1, Len(c)}) = max + 1 /\ Min({max, Len(c)}) = max
    BY <1>1, <1>6, PairMin
  <2>2. /\ sent \in Content /\ Len(sent) = max + 1
        /\ \A i \in 1 .. max + 1 : sent[i] = c[i]
    <3>1. /\ sent \in Content /\ Len(sent) = IF 1 <= max + 1 THEN max + 1 - 1 + 1 ELSE 0
          /\ \A i \in 1 .. max + 1 - 1 + 1 : sent[i] = c[1 + i - 1]
      <4>1. max + 1 \in Nat /\ max + 1 <= Len(c) /\ sent = SubSeq(c, 1, max + 1)
        <5>1. max + 1 \in Nat /\ max + 1 <= Len(c)
          BY <1>1, <1>6
        <5> QED
          BY <1>2, <2>1, <5>1, Zenon
      <4>2. /\ SubSeq(c, 1, max + 1) \in Content
            /\ Len(SubSeq(c, 1, max + 1)) = IF 1 <= max + 1 THEN max + 1 - 1 + 1 ELSE 0
            /\ \A i \in 1 .. max + 1 - 1 + 1 : SubSeq(c, 1, max + 1)[i] = c[1 + i - 1]
        BY <1>1, <4>1, SubText
      <4> QED
        BY <4>1, <4>2, Zenon
    <3>2. \A i \in 1 .. max + 1 : i \in 1 .. max + 1 - 1 + 1 /\ 1 + i - 1 = i
      OBVIOUS
    <3>3. Len(sent) = max + 1
      BY <3>1
    <3> QED
      BY <3>1, <3>2, <3>3
  <2>3. SubSeq(sent, 1, max) = SubSeq(c, 1, max)
    <3>1. /\ SubSeq(sent, 1, max) \in Content /\ Len(SubSeq(sent, 1, max)) = IF 1 <= max THEN max - 1 + 1 ELSE 0
          /\ \A i \in 1 .. max - 1 + 1 : SubSeq(sent, 1, max)[i] = sent[1 + i - 1]
      BY <2>2, SubText
    <3>2. /\ SubSeq(c, 1, max) \in Content /\ Len(SubSeq(c, 1, max)) = IF 1 <= max THEN max - 1 + 1 ELSE 0
          /\ \A i \in 1 .. max - 1 + 1 : SubSeq(c, 1, max)[i] = c[1 + i - 1]
      BY <1>1, <1>6, SubText
    <3>3. ASSUME NEW i \in 1 .. Len(SubSeq(sent, 1, max)) PROVE SubSeq(sent, 1, max)[i] = SubSeq(c, 1, max)[i]
      <4>1. i \in 1 .. max - 1 + 1 /\ 1 + i - 1 = i /\ i \in 1 .. max + 1
        BY <3>1
      <4> QED
        BY <2>2, <3>1, <3>2, <4>1
    <3> QED
      BY <3>1, <3>2, <3>3, SeqEqual DEF Content
  <2>4. Len(sent) > max
    BY <2>2
  <2>5. readRemoteFile(t, q, max) =
          IF t[q].kind # "file" THEN {} ELSE {[content |-> SubSeq(c, 1, max), truncated |-> TRUE]}
    BY <1>3, <2>3, <2>4
  <2>6. readLocalFile(t, q, max) =
          IF t[q].kind # "file" THEN {} ELSE {[content |-> SubSeq(c, 1, max), truncated |-> TRUE]}
    BY <1>4, <1>6, <2>1
  <2> QED
    BY <2>5, <2>6
<1> QED
  BY <1>1, <1>5, <1>6

\* What the readers tell of a tree is all that there is, up to their limits.
LEMMA ReadersAreComplete ==
  ASSUME IsTree(tree)
  PROVE  ReadersComplete
<1> SUFFICES ASSUME NEW p \in Paths
             PROVE  /\ \A n \in {Last(q) : q \in Paths \ {Root}}, limit \in 1 .. 2 :
                         \A g \in FSGlobLocal(tree, p, n, limit) :
                            ~g.truncated => g.matches = {q \in Listing(tree, p, TRUE) : Last(q) = n}
                    /\ \A max \in 1 .. 3 :
                         \A g \in RepoTreeLocal(tree, p, 2, {}, max) \cup RepoTreeRemote(tree, p, 2, {}, max) :
                            ~g.truncated /\ Mark \notin g.entries =>
                              {q \in Listing(tree, p, TRUE) : Len(q) - Len(p) <= 2} \subseteq g.entries
                    /\ \A q \in Under(p), start \in 0 .. MaxLen, end \in 0 .. MaxLen, range \in 2 .. 3 :
                         /\ \A c \in FSReadLinesLocal(tree, q, start, end, range) : LinesFrom(c, q, start, range)
                         /\ \A c \in FSReadLinesRemote(tree, q, start, end, range) :
                               \/ LinesFrom(c, q, start, range)
                               \/ c # <<>> /\ Last(c) = Cut /\ LinesFrom(Front(c), q, start, range)
                    /\ \A n \in {<<>>} \cup {Last(q) : q \in Paths \ {Root}}, max \in 1 .. 3 :
                         \A g \in ArtifactListRemote(tree, p, TRUE, n, max) :
                            /\ ~g.truncated /\ Mark \notin g.entries
                            /\ n = <<>> \/ Whole({q \in Under(p) : IsFile(tree, q)})
                            => {q \in Under(p) : IsFile(tree, q) /\ n \in {<<>>, Last(q)}} = g.entries
                    /\ \A q \in Under(p), max \in 1 .. 2 :
                         /\ \A g \in ArtifactUpload(readRemoteFile(tree, q, max), "report") :
                               ~g.truncated => g.artifact.data = tree[q].data
                         /\ \A g \in ArtifactDownload(readLocalFile(tree, q, max), TRUE, Contents) :
                               ~g.truncated => g.content = tree[q].data
  BY Zenon DEF ReadersComplete
<1>0. MaxLen \in Nat /\ \A q \in Under(p) : q \in Paths
  BY SizesTyped DEF Under
<1>1. ASSUME NEW n, NEW limit \in 1 .. 2, NEW g \in FSGlobLocal(tree, p, n, limit), ~g.truncated
      PROVE  g.matches = {q \in Listing(tree, p, TRUE) : Last(q) = n}
  <2>1. PICK hits : hits = {q \in Under(p) : Exists(tree, q) /\ q # p /\ Last(q) = n}
    OBVIOUS
  <2>2. IsFiniteSet(hits)
    BY <2>1, PathsFinite DEF Under
  <2>3. PICK K \in Capped(hits, limit) : g = [matches |-> K, truncated |-> Cardinality(hits) > limit]
    BY <1>1, <2>1, Zenon DEF FSGlobLocal
  <2>4. Cardinality(hits) \in Nat /\ (Cardinality(hits) <= limit => K = hits)
    BY <2>2, CappedOf
  <2>5. ~(Cardinality(hits) > limit) /\ g.matches = K
    BY <1>1, <2>3
  <2>6. K = hits
    BY <2>4, <2>5
  <2>7. hits = {q \in Listing(tree, p, TRUE) : Last(q) = n}
    BY <2>1 DEF Listing
  <2> QED
    BY <2>5, <2>6, <2>7
<1>2. ASSUME NEW max \in 1 .. 3,
             NEW g \in RepoTreeLocal(tree, p, 2, {}, max) \cup RepoTreeRemote(tree, p, 2, {}, max),
             ~g.truncated, Mark \notin g.entries
      PROVE  {q \in Listing(tree, p, TRUE) : Len(q) - Len(p) <= 2} \subseteq g.entries
  <2>1. max \in Nat
    OBVIOUS
  <2> QED
    BY <1>2, <2>1, TreeComplete
<1>3. ASSUME NEW q \in Under(p), NEW start \in 0 .. MaxLen, NEW end \in 0 .. MaxLen,
             NEW range \in 2 .. 3
      PROVE  /\ \A c \in FSReadLinesLocal(tree, q, start, end, range) : LinesFrom(c, q, start, range)
             /\ \A c \in FSReadLinesRemote(tree, q, start, end, range) :
                  \/ LinesFrom(c, q, start, range)
                  \/ c # <<>> /\ Last(c) = Cut /\ LinesFrom(Front(c), q, start, range)
  <2>1. q \in Paths /\ start \in Nat /\ end \in Nat /\ range \in Nat \ {0}
    BY <1>0
  <2>2. PICK t : t = tree
    OBVIOUS
  <2>3. IsTree(t)
    BY <2>2
  <2>4. \A c : LinesFrom(c, q, start, range) <=> LinesOf(c, t[q].data, start, range)
    BY <2>2, Zenon DEF LinesFrom, LinesOf
  <2>5. ASSUME NEW c \in FSReadLinesLocal(t, q, start, end, range) PROVE LinesFrom(c, q, start, range)
    <3>1. LinesOf(c, t[q].data, start, range)
      BY <2>1, <2>3, LinesComplete
    <3> QED
      BY <2>4, <3>1, Zenon
  <2>6. ASSUME NEW c \in FSReadLinesRemote(t, q, start, end, range)
        PROVE  \/ LinesFrom(c, q, start, range)
               \/ c # <<>> /\ Last(c) = Cut /\ LinesFrom(Front(c), q, start, range)
    <3>1. \/ LinesOf(c, t[q].data, start, range)
          \/ c # <<>> /\ Last(c) = Cut /\ LinesOf(Front(c), t[q].data, start, range)
      BY <2>1, <2>3, SentLinesComplete
    <3> QED
      BY <2>4, <3>1, Zenon
  <2> QED
    BY <2>2, <2>5, <2>6
<1>4. ASSUME NEW n, NEW max \in 1 .. 3, NEW g \in ArtifactListRemote(tree, p, TRUE, n, max), ~g.truncated,
             Mark \notin g.entries, n = <<>> \/ Whole({q \in Under(p) : IsFile(tree, q)})
      PROVE  {q \in Under(p) : IsFile(tree, q) /\ n \in {<<>>, Last(q)}} = g.entries
  <2>1. max \in Nat
    OBVIOUS
  <2> QED
    BY <1>4, <2>1, ArtifactsComplete
<1>5. ASSUME NEW q \in Under(p), NEW max \in 1 .. 2
      PROVE  /\ \A g \in ArtifactUpload(readRemoteFile(tree, q, max), "report") :
                   ~g.truncated => g.artifact.data = tree[q].data
             /\ \A g \in ArtifactDownload(readLocalFile(tree, q, max), TRUE, Contents) :
                   ~g.truncated => g.content = tree[q].data
  <2>1. /\ readLocalFile(tree, q, max) = readRemoteFile(tree, q, max)
        /\ \A g \in readLocalFile(tree, q, max) : ~g.truncated => g.content = tree[q].data
    BY <1>0, FileComplete
  <2>2. ASSUME NEW g \in ArtifactUpload(readRemoteFile(tree, q, max), "report"), ~g.truncated
        PROVE  g.artifact.data = tree[q].data
    <3>1. PICK h \in readRemoteFile(tree, q, max) :
            g = [artifact |-> [name |-> "report", data |-> h.content], truncated |-> h.truncated]
      BY <2>2, Zenon DEF ArtifactUpload
    <3> QED
      BY <2>1, <2>2, <3>1
  <2> QED
    BY <2>1, <2>2 DEF ArtifactDownload
<1> QED
  BY <1>1, <1>2, <1>3, <1>4, <1>5, Zenon

\* What a reader answers that is neither flagged nor shows the mark of a runner's cut is all
\* there is (glob_tools.go, tree_tools.go, read_lines_tools.go, artifact_tools.go), for every
\* tree and every size at which the runner cuts.
THEOREM ReadersTellAll == Spec => []ReadersComplete
<1>1. FsInv /\ [Next]_vars => FsInv'
  BY FsStep
<1>2. FsInv => ReadersComplete
  BY ReadersAreComplete DEF FsInv
<1> QED
  BY <1>1, <1>2, FsInit, PTL DEF Spec

--------------------------------------------------------------------------------
(* The two backends. *)

\* The parts of an answer that the backends have to agree on.
LEMMA Same ==
  ASSUME NEW l, NEW m, (l.code = "ok") <=> (m.code = "ok"), l.tree = m.tree, l.undo = m.undo
  PROVE  SameEffect(l, m)
BY DEF SameEffect

\* The directories on the way to p are what Prefixes counts.
LEMMA PrefixesAre ==
  ASSUME NEW p \in Paths, NEW q \in Prefixes(p)
  PROVE  q \in Paths /\ IsPrefix(q, p)
<1>1. p \in Path /\ q \in Paths /\ q \in Path
  BY PathsClosed, PathsAre
<1>2. Len(p) \in Nat /\ Len(q) \in Nat
  BY <1>1, PathLen
<1>3. PICK l \in 0 .. Len(p) : q = SubSeq(p, 1, l)
  BY Zenon DEF Prefixes
<1>4. l \in Nat /\ l <= Len(p) /\ 1 \in Nat \ {0}
  BY <1>2
<1>5. /\ Len(SubSeq(p, 1, l)) = IF 1 <= l THEN l - 1 + 1 ELSE 0
      /\ \A i \in 1 .. l - 1 + 1 : SubSeq(p, 1, l)[i] = p[1 + i - 1]
  BY <1>1, <1>4, SubPath
<1>6. Len(q) = l
  BY <1>3, <1>4, <1>5
<1>7. ASSUME NEW i \in 1 .. Len(q) PROVE q[i] = p[i]
  <2>1. i \in 1 .. l - 1 + 1 /\ 1 + i - 1 = i
    BY <1>4, <1>6
  <2> QED
    BY <1>3, <1>5, <2>1
<1> QED
  BY <1>1, <1>4, <1>6, <1>7, PrefixOf

\* mkdir -p of a directory that is there, and rm -rf of a path that is not, do nothing.
LEMMA MadeAlready ==
  ASSUME NEW t, IsTree(t), NEW p \in Paths, IsDir(t, p)
  PROVE  MkdirAll(t, p).ok = TRUE /\ MkdirAll(t, p).tree = t
<1>1. ASSUME NEW q \in Paths, IsPrefix(q, p) PROVE t[q] = Dir
  <2>1. Exists(t, p) /\ Node(t[q])
    BY DEF IsDir, Exists, IsTree
  <2>2. IsDir(t, q)
    BY <1>1, <2>1, TreeNests
  <2> QED
    BY <2>1, <2>2, NodeOf DEF IsDir
<1>2. ~ \E q \in Prefixes(p) : IsFile(t, q)
  BY <1>1, PrefixesAre, Nodes DEF IsFile
<1>3. MkdirAll(t, p) = Done([q \in Paths |-> IF IsPrefix(q, p) THEN Dir ELSE t[q]])
  BY <1>2 DEF MkdirAll
<1>4. [q \in Paths |-> IF IsPrefix(q, p) THEN Dir ELSE t[q]] = [q \in Paths |-> t[q]]
  BY <1>1
<1> QED
  BY <1>3, <1>4 DEF Done, IsTree

\* Removing what is not there changes nothing.
LEMMA GoneAlready ==
  ASSUME NEW t, IsTree(t), NEW p \in Paths, ~Exists(t, p)
  PROVE  RemoveAll(t, p) = t
<1>1. ASSUME NEW q \in Under(p) PROVE t[q] = Absent
  <2>1. q \in Paths /\ IsPrefix(p, q)
    BY <1>1 DEF Under
  <2>2. ~Exists(t, q) /\ Node(t[q])
    BY <2>1, TreeNests DEF IsTree
  <2> QED
    BY <2>2, NodeOf DEF Exists
<1>2. [q \in Paths |-> IF q \in Under(p) THEN Absent ELSE t[q]] = [q \in Paths |-> t[q]]
  BY <1>1
<1> QED
  BY <1>2 DEF RemoveAll, IsTree

\* fs.move: the backends agree.
LEMMA MoveAgrees ==
  ASSUME NEW t, NEW u, NEW r
  PROVE  SameEffect(FSMoveLocal(t, u, r), FSMoveRemote(t, u, r))
<1>1. PICK ready : ready = Prepared(t, r)
  OBVIOUS
<1>2. PICK moved : moved = Rename(ready.tree, r.path, r.dst)
  OBVIOUS
<1>3. moved.ok = TRUE \/ (moved.ok = FALSE /\ moved.tree = ready.tree)
  BY <1>2 DEF Rename, Done, Failed
<1>4. PICK l : l = FSMoveLocal(t, u, r)
  OBVIOUS
<1>5. PICK m : m = FSMoveRemote(t, u, r)
  OBVIOUS
<1>6. l = IF r.path = r.dst THEN Refuse("ok", t, u)
          ELSE IF ~Exists(t, r.path) THEN Refuse("not_found", t, u)
          ELSE IF ~ready.ok THEN Refuse("execution_failed", ready.tree, u)
          ELSE Answer(Code(moved.ok), IF moved.ok THEN "moved" ELSE "none", moved.tree, u)
  BY <1>1, <1>2, <1>4, Zenon DEF FSMoveLocal
<1>7. PICK missing : m =
          IF r.path = r.dst THEN Refuse("ok", t, u)
          ELSE IF ~Exists(t, r.path) THEN Refuse(toFSRunnerError(TRUE), t, u)
          ELSE IF ~ready.ok THEN Refuse("execution_failed", ready.tree, u)
          ELSE IF moved.ok THEN Answer("ok", "moved", moved.tree, u)
          ELSE Refuse(toFSRunnerError(missing), ready.tree, u)
  BY <1>1, <1>2, <1>5, Zenon DEF FSMoveRemote
<1>8. l.tree = m.tree /\ l.undo = m.undo /\ ((l.code = "ok") <=> (m.code = "ok"))
  <2>1. CASE moved.ok = TRUE
    BY <1>6, <1>7, <2>1 DEF Answer, Refuse, toFSRunnerError, Code
  <2>2. CASE moved.ok = FALSE /\ moved.tree = ready.tree
    BY <1>6, <1>7, <2>2 DEF Answer, Refuse, toFSRunnerError, Code
  <2> QED
    BY <1>3, <2>1, <2>2
<1> QED
  BY <1>4, <1>5, <1>8, Same

\* fs.delete: the backends agree.
LEMMA DeleteAgrees ==
  ASSUME NEW t, IsTree(t), NEW u, NEW r \in DeleteReqs, r.path \in Paths
  PROVE  SameEffect(FSDeleteLocal(t, u, r), FSDeleteRemote(t, u, r))
<1>1. r.force \in BOOLEAN /\ r.recursive \in BOOLEAN
  BY DEF DeleteReqs
<1>2. ~Exists(t, r.path) => RemoveAll(t, r.path) = t /\ ~IsDir(t, r.path)
  BY GoneAlready DEF Exists, IsDir
<1>3. PICK v : v = RemoveAll(t, r.path)
  OBVIOUS
<1>4. PICK l : l = FSDeleteLocal(t, u, r)
  OBVIOUS
<1>5. PICK m : m = FSDeleteRemote(t, u, r)
  OBVIOUS
<1>6. l.tree = m.tree /\ l.undo = m.undo /\ ((l.code = "ok") <=> (m.code = "ok"))
  <2>1. CASE ~Exists(t, r.path)
    <3>1. l = Refuse(Code(r.force), t, u)
      BY <1>4, <2>1 DEF FSDeleteLocal
    <3>2. m = IF ~r.force THEN Refuse(toFSRunnerError(TRUE), t, u) ELSE Answer("ok", "deleted", t, u)
      BY <1>2, <1>5, <2>1 DEF FSDeleteRemote
    <3> QED
      BY <1>1, <3>1, <3>2 DEF Answer, Refuse, toFSRunnerError, Code
  <2>2. CASE Exists(t, r.path)
    <3>1. l = IF IsDir(t, r.path) /\ ~r.recursive THEN Refuse("invalid_argument", t, u)
              ELSE Answer("ok", "deleted", v, u)
      BY <1>3, <1>4, <2>2, Zenon DEF FSDeleteLocal
    <3>2. m = IF IsDir(t, r.path) /\ ~r.recursive THEN Refuse("execution_failed", t, u)
              ELSE Answer("ok", "deleted", v, u)
      BY <1>3, <1>5, <2>2, Zenon DEF FSDeleteRemote
    <3> QED
      BY <3>1, <3>2 DEF Answer, Refuse
  <2> QED
    BY <2>1, <2>2
<1> QED
  BY <1>4, <1>5, <1>6, Same

\* fs.write_file: the backends agree.
LEMMA WriteAgrees ==
  ASSUME NEW t, NEW u, NEW r
  PROVE  SameEffect(FSWriteLocal(t, u, r), FSWriteRemote(t, u, r))
<1>1. PICK l : l = FSWriteLocal(t, u, r)
  OBVIOUS
<1>2. PICK m : m = FSWriteRemote(t, u, r)
  OBVIOUS
<1>3. PICK orphan : m = IF l.code = "execution_failed" /\ orphan
                        THEN [l EXCEPT !.code = toFSRunnerError(TRUE)] ELSE l
  BY <1>1, <1>2, Zenon DEF FSWriteRemote
<1>4. \E c, k, v, w : l = Answer(c, k, v, w)
  <2>1. \E c, v, w : l = Refuse(c, v, w) \/ \E k : l = Answer(c, k, v, w)
    BY <1>1, Zenon DEF FSWriteLocal
  <2> QED
    BY <2>1 DEF Refuse
<1>5. l.tree = m.tree /\ l.undo = m.undo /\ ((l.code = "ok") <=> (m.code = "ok"))
  <2>1. CASE m = l
    BY <2>1
  <2>2. CASE l.code = "execution_failed" /\ m = [l EXCEPT !.code = toFSRunnerError(TRUE)]
    BY <1>4, <2>2 DEF Answer, toFSRunnerError
  <2> QED
    BY <1>3, <2>1, <2>2
<1> QED
  BY <1>1, <1>2, <1>5, Same

\* With create_parents the parents are there once the destination is ready, so that the
\* copy on disk has none left to make.
LEMMA CopyAgrees ==
  ASSUME NEW t, IsTree(t), NEW u, NEW r \in CopyReqs, Resolved(r.dst), session.allowed \subseteq Path,
         r.path \in Paths, r.parents, IsDir(t, r.path) => r.recursive
  PROVE  SameEffect(FSCopyLocal(t, u, r), FSCopyRemote(t, u, r))
<1>1. /\ r.overwrite \in BOOLEAN /\ r.parents = TRUE /\ r.dst \in Paths
      /\ Front(r.dst) \in Paths /\ IsPrefix(Front(r.dst), r.dst)
  BY PathsAre, FrontOf DEF CopyReqs, Resolved
<1>2. PICK ready : ready = Prepared(t, r)
  OBVIOUS
<1>3. PICK parent : parent = MkdirAll(ready.tree, Front(r.dst))
  OBVIOUS
<1>4. IsTree(ready.tree) /\ ready.ok \in BOOLEAN /\ (ready.ok => ~Exists(ready.tree, r.dst))
  BY <1>1, <1>2, PreparedEffect
<1>5. ASSUME ready.ok, Exists(ready.tree, r.path)
      PROVE  IsDir(ready.tree, Front(r.dst)) /\ parent.ok = TRUE /\ parent.tree = ready.tree
  <2>1. r.dst # Root
    <3>1. IsPrefix(Root, r.path) /\ Root \in Paths
      BY PathsAre, UnderOf
    <3> QED
      BY <1>4, <1>5, <3>1, TreeNests
  <2>2. PICK made : made = MkdirAll(t, Front(r.dst))
    OBVIOUS
  <2>3. made.ok \in BOOLEAN /\ (made.ok => IsDir(made.tree, Front(r.dst)))
    BY <1>1, <2>2, MkdirAllEffect DEF Resolved
  <2>4. ready = IF ~made.ok \/ (Exists(made.tree, r.dst) /\ ~r.overwrite) THEN Failed(made.tree)
                ELSE Done(IF Exists(made.tree, r.dst) THEN RemoveAll(made.tree, r.dst) ELSE made.tree)
    <3>1. (IF r.parents /\ r.dst # Root THEN MkdirAll(t, Front(r.dst)) ELSE Done(t)) = made
      BY <1>1, <2>1, <2>2
    <3> QED
      BY <1>2, <3>1, Zenon DEF Prepared
  <2>5. made.ok /\ ready.tree \in {made.tree, RemoveAll(made.tree, r.dst)}
    BY <1>5, <2>3, <2>4 DEF Done, Failed
  <2>6. Front(r.dst) \notin Under(r.dst)
    BY <1>1, <2>1, PathsAre, FrontOf, PrefixOrder, UnderOf DEF Root
  <2>7. IsDir(ready.tree, Front(r.dst))
    BY <1>1, <2>3, <2>5, <2>6 DEF IsDir, RemoveAll
  <2> QED
    BY <1>1, <1>3, <1>4, <2>7, MadeAlready
<1>6. PICK l : l = FSCopyLocal(t, u, r)
  OBVIOUS
<1>7. PICK m : m = FSCopyRemote(t, u, r)
  OBVIOUS
<1>8. PICK done : done = Graft(ready.tree, r.path, r.dst)
  OBVIOUS
<1>9. l = IF r.path = r.dst THEN Refuse("invalid_argument", t, u)
          ELSE IF ~Exists(t, r.path) THEN Refuse("execution_failed", t, u)
          ELSE IF ~ready.ok THEN Refuse("execution_failed", ready.tree, u)
          ELSE IF IsDir(t, r.path) /\ ~r.recursive THEN Refuse("invalid_argument", ready.tree, u)
          ELSE IF Exists(ready.tree, r.path) /\ parent.ok
               THEN Answer("ok", "copied", Graft(parent.tree, r.path, r.dst), u)
          ELSE Refuse("execution_failed", ready.tree, u)
  BY <1>2, <1>3, <1>6, Zenon DEF FSCopyLocal
<1>10. m = IF r.path = r.dst THEN Refuse("invalid_argument", t, u)
           ELSE IF ~Exists(t, r.path) THEN Refuse(toFSRunnerError(TRUE), t, u)
           ELSE IF IsDir(t, r.path) /\ ~r.recursive THEN Refuse("execution_failed", t, u)
           ELSE IF ~ready.ok THEN Refuse("execution_failed", ready.tree, u)
           ELSE IF Exists(ready.tree, r.path) /\ IsDir(ready.tree, Front(r.dst))
                THEN Answer("ok", "copied", done, u)
           ELSE Refuse(toFSRunnerError(TRUE), ready.tree, u)
  BY <1>2, <1>7, <1>8, Zenon DEF FSCopyRemote
<1>11. l.tree = m.tree /\ l.undo = m.undo /\ ((l.code = "ok") <=> (m.code = "ok"))
  <2>1. CASE r.path = r.dst \/ ~Exists(t, r.path) \/ ~ready.ok
    BY <1>9, <1>10, <2>1 DEF Answer, Refuse, toFSRunnerError
  <2>2. CASE r.path # r.dst /\ Exists(t, r.path) /\ ready.ok /\ ~Exists(ready.tree, r.path)
    BY <1>9, <1>10, <2>2 DEF Answer, Refuse, toFSRunnerError
  <2>3. CASE r.path # r.dst /\ Exists(t, r.path) /\ ready.ok /\ Exists(ready.tree, r.path)
    <3>1. l = Answer("ok", "copied", done, u)
      BY <1>5, <1>8, <1>9, <2>3
    <3>2. m = Answer("ok", "copied", done, u)
      BY <1>5, <1>10, <2>3
    <3> QED
      BY <3>1, <3>2
  <2> QED
    BY <1>4, <2>1, <2>2, <2>3
<1> QED
  BY <1>6, <1>7, <1>11, Same

\* fs.edit, fs.insert and undo_edit, where no runner cuts what it reads.
LEMMA EditAgrees ==
  ASSUME NEW t, IsTree(t), NEW u, NEW r, r.path \in Paths, Len(t[r.path].data) <= MaxBytes
  PROVE  /\ SameEffect(FSEditLocal(t, u, r), FSEditRemote(t, u, r))
         /\ SameEffect(FSInsertLocal(t, u, r), FSInsertRemote(t, u, r))
<1>1. t[r.path].kind \in {"none", "dir", "file"} /\ truncate(t[r.path].data) = t[r.path].data
  BY NodeOf, TruncateText DEF IsTree
<1>2. PICK saved : saved = SaveUndoSnapshot(t, u, r.path)
  OBVIOUS
<1>3. PICK new : new = fsEditApply(t[r.path].data, r)
  OBVIOUS
<1>4. PICK more : more = fsInsertAtLine(t[r.path].data, r)
  OBVIOUS
<1>5. ASSUME NEW l, l = FSEditLocal(t, u, r), NEW m, m = FSEditRemote(t, u, r)
      PROVE  SameEffect(l, m)
  <2>1. l = IF ~Exists(t, r.path) THEN Refuse("invalid_argument", t, saved)
            ELSE IF IsDir(t, r.path) THEN Refuse("execution_failed", t, saved)
            ELSE IF new = <<>> THEN Refuse("invalid_argument", t, saved)
            ELSE Answer("ok", "edited", Put(t, r.path, new[1]).tree, saved)
    BY <1>2, <1>3, <1>5, Zenon DEF FSEditLocal
  <2>2. PICK miss : m = IF ~IsFile(t, r.path) THEN Refuse(toFSRunnerError(miss), t, saved)
            ELSE IF new = <<>> THEN Refuse("invalid_argument", t, saved)
            ELSE Answer("ok", "edited", Put(t, r.path, new[1]).tree, saved)
    BY <1>1, <1>2, <1>3, <1>5, Zenon DEF FSEditRemote
  <2>3. l.tree = m.tree /\ l.undo = m.undo /\ ((l.code = "ok") <=> (m.code = "ok"))
    BY <1>1, <2>1, <2>2 DEF Exists, IsDir, IsFile, Answer, Refuse, toFSRunnerError
  <2> QED
    BY <2>3, Same
<1>6. ASSUME NEW l, l = FSInsertLocal(t, u, r), NEW m, m = FSInsertRemote(t, u, r)
      PROVE  SameEffect(l, m)
  <2>1. l = IF ~Exists(t, r.path) THEN Refuse("invalid_argument", t, saved)
            ELSE IF IsDir(t, r.path) THEN Refuse("execution_failed", t, saved)
            ELSE Answer("ok", "edited", Put(t, r.path, more).tree, saved)
    BY <1>2, <1>4, <1>6, Zenon DEF FSInsertLocal
  <2>2. PICK miss : m = IF ~IsFile(t, r.path) THEN Refuse(toFSRunnerError(miss), t, saved)
            ELSE Answer("ok", "edited", Put(t, r.path, more).tree, saved)
    BY <1>1, <1>2, <1>4, <1>6, Zenon DEF FSInsertRemote
  <2>3. l.tree = m.tree /\ l.undo = m.undo /\ ((l.code = "ok") <=> (m.code = "ok"))
    BY <1>1, <2>1, <2>2 DEF Exists, IsDir, IsFile, Answer, Refuse, toFSRunnerError
  <2> QED
    BY <2>3, Same
<1> QED
  BY <1>5, <1>6

\* workspace.undo_edit: the backends agree on what is short enough to be saved whole.
LEMMA UndoAgrees ==
  ASSUME NEW t, NEW u, Saved(u), NEW r, r.path \in Paths,
         \A n \in Names : Len(u[n].data) <= MaxBytes
  PROVE  SameEffect(WorkspaceUndoEditLocal(t, u, r), WorkspaceUndoEditRemote(t, u, r))
<1>1. PICK name : name = undoSnapshotPath(r.path)
  OBVIOUS
<1>2. name \in Names
  BY <1>1 DEF Names
<1>3. truncate(u[name].data) = u[name].data
  BY <1>2, TruncateText DEF Saved
<1>4. PICK put : put = Put(t, r.path, u[name].data)
  OBVIOUS
<1>5. PICK l : l = WorkspaceUndoEditLocal(t, u, r)
  OBVIOUS
<1>6. PICK m : m = WorkspaceUndoEditRemote(t, u, r)
  OBVIOUS
<1>7. PICK rest : rest = [u EXCEPT ![name] = Absent]
  OBVIOUS
<1>8. l = IF u[name] = Absent THEN Refuse("invalid_argument", t, u)
          ELSE IF ~put.ok THEN Refuse("execution_failed", t, u)
          ELSE Answer("ok", "restored", put.tree, rest)
  BY <1>1, <1>4, <1>5, <1>7, Zenon DEF WorkspaceUndoEditLocal
<1>9. PICK miss : m = IF u[name] = Absent THEN Refuse("invalid_argument", t, u)
          ELSE IF ~put.ok THEN Refuse(toFSRunnerError(miss), t, u)
          ELSE Answer("ok", "restored", put.tree, rest)
  BY <1>1, <1>3, <1>4, <1>6, <1>7, Zenon DEF WorkspaceUndoEditRemote
<1>10. l.tree = m.tree /\ l.undo = m.undo /\ ((l.code = "ok") <=> (m.code = "ok"))
  BY <1>8, <1>9 DEF Answer, Refuse, toFSRunnerError
<1> QED
  BY <1>5, <1>6, <1>10, Same

\* fs.stat and fs.read_file.
LEMMA ReadAgrees ==
  ASSUME NEW t, IsTree(t), NEW p \in Paths, NEW max \in Nat
  PROVE  FSStatLocal(t, p) = FSStatRemote(t, p) /\ FSReadLocal(t, p, max) = FSReadRemote(t, p, max)
<1>1. t[p].kind \in {"none", "dir", "file"} /\ t[p].data \in Content
  BY NodeOf DEF IsTree
<1>2. FSStatLocal(t, p) = FSStatRemote(t, p)
  BY <1>1 DEF FSStatLocal, FSStatRemote, Exists, IsDir, IsFile
<1>3. PICK d : d = t[p].data
  OBVIOUS
<1>4. d \in Content /\ Len(d) \in Nat /\ d = [i \in 1 .. Len(d) |-> d[i]]
  BY <1>1, <1>3, TextOf
<1>5. PICK n : n = Min({max, Len(d)})
  OBVIOUS
<1>6. n = IF max <= Len(d) THEN max ELSE Len(d)
  BY <1>4, <1>5, PairMin
<1>7. (IF Len(d) > max THEN SubSeq(d, 1, max) ELSE d) = [i \in 1 .. n |-> d[i]]
  <2>1. CASE Len(d) > max
    <3>1. n = max
      BY <1>4, <1>6, <2>1
    <3>2. SubSeq(d, 1, max) = [i \in 1 .. max |-> d[i]]
      <4>1. max <= Len(d)
        BY <1>4, <2>1
      <4>2. /\ SubSeq(d, 1, max) \in Content
            /\ Len(SubSeq(d, 1, max)) = IF 1 <= max THEN max - 1 + 1 ELSE 0
            /\ \A i \in 1 .. max - 1 + 1 : SubSeq(d, 1, max)[i] = d[1 + i - 1]
        <5>1. 1 \in Nat \ {0}
          OBVIOUS
        <5> QED
          BY <1>4, <4>1, <5>1, SubText, Zenon
      <4>3. PICK e : e = SubSeq(d, 1, max)
        OBVIOUS
      <4>4. Len(e) = max /\ e \in Content
        BY <4>2, <4>3
      <4>5. ASSUME NEW i \in 1 .. max PROVE e[i] = d[i]
        <5>1. i \in 1 .. max - 1 + 1 /\ 1 + i - 1 = i
          OBVIOUS
        <5> QED
          BY <4>2, <4>3, <5>1
      <4>6. e = [i \in 1 .. max |-> e[i]]
        BY <4>4, TextOf
      <4> QED
        BY <4>3, <4>5, <4>6
    <3> QED
      BY <2>1, <3>1, <3>2
  <2>2. CASE ~(Len(d) > max)
    <3>1. n = Len(d)
      BY <1>4, <1>6, <2>2
    <3> QED
      BY <1>4, <2>2, <3>1
  <2> QED
    BY <2>1, <2>2
<1>8. FSReadLocal(t, p, max) = IF t[p].kind # "file" THEN {} ELSE {IF Len(d) > max THEN SubSeq(d, 1, max) ELSE d}
  BY <1>3 DEF FSReadLocal, IsFile
<1>9. FSReadRemote(t, p, max) = IF t[p].kind # "file" THEN {} ELSE {[i \in 1 .. n |-> d[i]]}
  BY <1>3, <1>5, Zenon DEF FSReadRemote
<1> QED
  BY <1>2, <1>7, <1>8, <1>9

\* fs.list: find prints the directories, then the files while there is room for them.
LEMMA ListAgrees ==
  ASSUME NEW t, IsTree(t), NEW p \in Paths, NEW deep \in BOOLEAN, NEW max \in Nat,
         Whole(Listing(t, p, deep))
  PROVE  FSListRemote(t, p, deep, max) \subseteq FSListLocal(t, p, deep, max)
<1>1. PICK all : all = Listing(t, p, deep)
  OBVIOUS
<1>2. PICK dirs : dirs = {q \in all : IsDir(t, q)}
  OBVIOUS
<1>3. PICK files : files = {q \in all : IsFile(t, q)}
  OBVIOUS
<1>4. all \subseteq Paths /\ \A q \in all : Exists(t, q) /\ Node(t[q])
  BY <1>1 DEF Listing, Under, IsTree
<1>5. all = dirs \cup files /\ dirs \cap files = {}
  BY <1>2, <1>3, <1>4, NodeOf DEF Exists, IsDir, IsFile
<1>6. IsFiniteSet(all) /\ IsFiniteSet(dirs) /\ IsFiniteSet(files)
  BY <1>2, <1>3, <1>4, PathsFinite
<1>7. /\ Cardinality(all) \in Nat /\ Cardinality(dirs) \in Nat /\ Cardinality(files) \in Nat
      /\ Cardinality({}) = 0
  BY <1>6, FS_CardinalityType, FS_EmptySet
<1>8. Cardinality(all) = Cardinality(dirs) + Cardinality(files)
  <2>1. Cardinality(dirs \cup files) = Cardinality(dirs) + Cardinality(files) - Cardinality(dirs \cap files)
    BY <1>6, FS_Union
  <2>2. Cardinality(dirs \cap files) = 0 /\ Cardinality(all) = Cardinality(dirs \cup files)
    BY <1>5, <1>7, Zenon
  <2> QED
    BY <1>7, <2>1, <2>2
<1>0. PICK cap : cap = Min({max, MaxOut})
  OBVIOUS
<1>17. cap \in Nat /\ Capped(all, cap) = Capped(all, max)
  BY <1>0, <1>1, <1>6, CappedCut
<1>9. PICK room : room = cap - Cardinality(dirs)
  OBVIOUS
<1>10. FSListRemote(t, p, deep, max) =
         IF IsFile(t, p) THEN {{p}} ELSE IF ~IsDir(t, p) THEN {}
         ELSE IF room <= 0 THEN Capped(dirs, cap) ELSE {dirs \cup K : K \in Capped(files, room)}
  BY <1>1, <1>2, <1>3, <1>0, <1>9, Zenon DEF FSListRemote
<1>11. FSListLocal(t, p, deep, max) =
         IF ~Exists(t, p) THEN {} ELSE IF IsFile(t, p) THEN {{p}} ELSE Capped(all, max)
  BY <1>1, Zenon DEF FSListLocal
<1>12. ASSUME NEW S, S \subseteq all,
              Cardinality(S) = IF Cardinality(all) <= cap THEN Cardinality(all) ELSE cap
       PROVE  S \in Capped(all, cap)
  BY <1>12 DEF Capped
<1>13. ASSUME NEW K \in Capped(dirs, cap), room <= 0 PROVE K \in Capped(all, cap)
  <2>1. K \subseteq dirs /\ Cardinality(K) = IF Cardinality(dirs) <= cap THEN Cardinality(dirs) ELSE cap
    BY <1>6, <1>13, <1>17, CappedOf
  <2>2. Cardinality(dirs) >= cap
    BY <1>7, <1>9, <1>13, <1>17
  <2>3. Cardinality(K) = IF Cardinality(all) <= cap THEN Cardinality(all) ELSE cap
    BY <1>7, <1>8, <1>17, <2>1, <2>2
  <2> QED
    BY <1>5, <1>12, <2>1, <2>3
<1>14. ASSUME NEW K \in Capped(files, room), ~(room <= 0) PROVE dirs \cup K \in Capped(all, cap)
  <2>1. room \in Nat
    BY <1>7, <1>9, <1>14, <1>17
  <2>2. /\ K \subseteq files /\ IsFiniteSet(K) /\ Cardinality(K) \in Nat
        /\ Cardinality(K) = IF Cardinality(files) <= room THEN Cardinality(files) ELSE room
    BY <1>6, <1>14, <2>1, CappedOf
  <2>3. dirs \cap K = {}
    BY <1>5, <2>2
  <2>4. Cardinality(dirs \cup K) = Cardinality(dirs) + Cardinality(K) - Cardinality(dirs \cap K)
    BY <1>6, <2>2, FS_Union
  <2>5. Cardinality(dirs \cup K) = IF Cardinality(all) <= cap THEN Cardinality(all) ELSE cap
    BY <1>7, <1>8, <1>9, <1>17, <2>1, <2>2, <2>3, <2>4
  <2>6. dirs \cup K \subseteq all
    BY <1>5, <2>2
  <2> QED
    BY <1>12, <2>5, <2>6
<1>15. IsFile(t, p) => Exists(t, p) /\ ~IsDir(t, p)
  BY DEF IsFile, Exists, IsDir
<1>16. IsDir(t, p) => Exists(t, p)
  BY DEF Exists, IsDir
<1> QED
  BY <1>10, <1>11, <1>13, <1>14, <1>15, <1>16, <1>17

\* fs.search of a directory without .git.
LEMMA SearchAgrees ==
  ASSUME NEW t, NEW p \in Paths, ~IsFile(t, p), \A q \in Under(p) : Git \notin ToSet(q), NEW x,
         NEW max \in Nat, Whole(Matching(t, p, x))
  PROVE  FSSearchLocal(t, p, x, max) = FSSearchRemote(t, p, x, max)
<1>1. Len(p) \in Nat
  BY PathsAre, PathLen
<1>2. ASSUME NEW m \in Matching(t, p, x)
      PROVE  ~ \E i \in 1 .. Len(m[1]) - 1 : i >= Len(p) /\ m[1][i] = Git
  <2>1. PICK q : q = m[1]
    OBVIOUS
  <2>2. q \in Under(p)
    BY <1>2, <2>1 DEF Matching
  <2>3. q \in Path /\ Len(q) \in Nat /\ Git \notin ToSet(q)
    BY <2>2, PathsAre, PathLen DEF Under
  <2>4. DOMAIN q = 1 .. Len(q)
    BY <2>3, LenProperties DEF Path
  <2>5. \A i \in 1 .. Len(q) - 1 : i \in DOMAIN q
    BY <2>3, <2>4
  <2>6. \A i \in DOMAIN q : q[i] # Git
    BY <2>3 DEF ToSet
  <2> QED
    BY <2>1, <2>5, <2>6
<1>3. PICK clean : clean = {m \in Matching(t, p, x) :
                              ~ \E i \in 1 .. Len(m[1]) - 1 : i >= Len(p) /\ m[1][i] = Git}
  OBVIOUS
<1>4. clean = Matching(t, p, x)
  BY <1>2, <1>3
<1>5. FSSearchLocal(t, p, x, max) = IF ~Exists(t, p) THEN {} ELSE Capped(clean, max)
  BY <1>3, Zenon DEF FSSearchLocal
<1>6. IsFiniteSet(Matching(t, p, x))
  <2>1. IsFiniteSet(Under(p)) /\ IsFiniteSet(1 .. MaxLen)
    <3>1. MaxLen \in Int /\ 1 \in Int
      BY SizesTyped
    <3> QED
      BY <3>1, PathsFinite, FS_Interval DEF Under
  <2>2. IsFiniteSet(Under(p) \X (1 .. MaxLen))
    BY <2>1, FS_Product
  <2>3. Matching(t, p, x) \subseteq Under(p) \X (1 .. MaxLen)
    BY Zenon DEF Matching
  <2> QED
    BY <2>2, <2>3, FS_Subset
<1>7. PICK M : M = Matching(t, p, x)
  OBVIOUS
<1>8. Capped(M, Min({max, MaxOut})) = Capped(M, max)
  BY <1>6, <1>7, CappedCut
<1>9. FSSearchRemote(t, p, x, max) = IF ~Exists(t, p) THEN {} ELSE Capped(M, Min({max, MaxOut}))
  BY <1>7 DEF FSSearchRemote
<1> QED
  BY <1>4, <1>5, <1>7, <1>8, <1>9

\* artifact.list: under a file there is nothing else.
LEMMA ArtifactsAgree ==
  ASSUME NEW t, IsTree(t), NEW p \in Paths, NEW deep \in BOOLEAN, NEW n, NEW max,
         Whole({q \in Under(p) : IsFile(t, q)})
  PROVE  ArtifactListLocal(t, p, deep, n, max) = ArtifactListRemote(t, p, deep, n, max)
<1>1. PICK files : files = {q \in Listing(t, p, deep) : IsFile(t, q) /\ artifactPathMatches(q, n)}
  OBVIOUS
<1>2. PICK here : here = IF IsFile(t, p) THEN {q \in {p} : artifactPathMatches(q, n)} ELSE files
  OBVIOUS
<1>3. PICK lines : lines = {q \in Under(p) : IsFile(t, q) /\ (deep \/ Len(q) <= Len(p) + 1)}
  OBVIOUS
<1>4. PICK found : found = {q \in lines : artifactPathMatches(q, n)}
  OBVIOUS
<1>5. ArtifactListLocal(t, p, deep, n, max) =
        IF ~Exists(t, p) THEN {}
        ELSE {[entries |-> K, truncated |-> Cardinality(K) >= max] : K \in Capped(here, max)}
  BY <1>1, <1>2, Zenon DEF ArtifactListLocal
<1>6. ArtifactListRemote(t, p, deep, n, max) =
        IF ~IsDir(t, p) /\ ~IsFile(t, p) THEN {}
        ELSE {[entries |-> K, truncated |-> Cardinality(K) >= max] : K \in Capped(found, max)}
  <2> DEFINE hits(sent) == {q \in sent : artifactPathMatches(q, n)}
  <2>1. ArtifactListRemote(t, p, deep, n, max) =
          IF ~IsDir(t, p) /\ ~IsFile(t, p) THEN {}
          ELSE {[entries |-> K, truncated |-> Cardinality(K) >= max] :
                  K \in UNION {Capped(hits(sent), max) : sent \in Sent(lines)}}
    BY <1>3, Zenon DEF ArtifactListRemote
  <2>2. found = hits(lines)
    BY <1>4
  <2> HIDE DEF hits
  <2>3. Sent(lines) = {lines}
    <3>1. PICK files2 : files2 = {q \in Under(p) : IsFile(t, q)}
      OBVIOUS
    <3>2. IsFiniteSet(files2) /\ lines \subseteq files2 /\ Cardinality(files2) <= MaxOut
      BY <1>3, <3>1, PathsFinite DEF Under, Whole
    <3>3. Cardinality(lines) <= Cardinality(files2)
      BY <3>2, FS_Subset
    <3>4. IsFiniteSet(lines)
      BY <3>2, FS_Subset
    <3>5. Cardinality(lines) \in Nat /\ Cardinality(files2) \in Nat /\ MaxOut \in Nat
      BY <3>2, <3>4, FS_CardinalityType, SizesTyped
    <3>6. Cardinality(lines) <= MaxOut
      BY <3>2, <3>3, <3>5
    <3> QED
      BY <3>6 DEF Sent
  <2>4. UNION {Capped(hits(sent), max) : sent \in {lines}} = Capped(found, max)
    BY <2>2
  <2> QED
    BY <2>1, <2>3, <2>4, Zenon
<1>7. Exists(t, p) <=> IsDir(t, p) \/ IsFile(t, p)
  BY NodeOf DEF Exists, IsDir, IsFile, IsTree
<1>8. p \in Path /\ Len(p) \in Nat /\ \A q \in Under(p) : q \in Paths /\ q \in Path /\ IsPrefix(p, q) /\ Len(q) \in Nat
  BY PathsAre, PathLen DEF Under
<1>9. CASE IsFile(t, p)
  <2>1. ASSUME NEW q \in lines PROVE q = p
    <3>1. q \in Under(p) /\ Exists(t, q)
      BY <1>3, <2>1 DEF IsFile, Exists
    <3>2. p # q => IsDir(t, p)
      BY <1>8, <3>1, TreeNests
    <3> QED
      BY <1>9, <3>2 DEF IsDir, IsFile
  <2>2. p \in lines
    <3>1. p \in Under(p) /\ Len(p) <= Len(p) + 1
      BY <1>8, UnderOf
    <3> QED
      BY <1>3, <1>9, <3>1
  <2>3. lines = {p}
    BY <2>1, <2>2
  <2>4. here = found
    BY <1>2, <1>4, <1>9, <2>3
  <2> QED
    BY <1>5, <1>6, <1>7, <2>4
<1>10. CASE ~IsFile(t, p)
  <2>1. ASSUME NEW q \in Under(p), IsFile(t, q)
        PROVE  q \in Listing(t, p, deep) <=> deep \/ Len(q) <= Len(p) + 1
    <3>1. q # p /\ Exists(t, q)
      BY <1>10, <2>1 DEF IsFile, Exists
    <3>2. Len(q) > Len(p)
      <4>1. Len(p) <= Len(q) /\ \A i \in 1 .. Len(p) : p[i] = q[i]
        BY <1>8, <2>1, PrefixOf
      <4>2. Len(p) # Len(q)
        BY <1>8, <2>1, <3>1, <4>1, PathEqual
      <4> QED
        BY <1>8, <2>1, <4>1, <4>2
    <3> QED
      BY <1>8, <2>1, <3>1, <3>2 DEF Listing
  <2>2. \A q \in Listing(t, p, deep) : q \in Under(p)
    BY DEF Listing
  <2>3. here = found
    BY <1>1, <1>2, <1>3, <1>4, <1>10, <2>1, <2>2
  <2> QED
    BY <1>5, <1>6, <1>7, <2>3
<1> QED
  BY <1>9, <1>10

\* The backends agree on every call to a tree of the invariant.
LEMMA BackendsDoAgree ==
  ASSUME IsTree(tree), Saved(undo), session.allowed \in Allowed
  PROVE  BackendsAgree
<1>0. session.allowed \subseteq Path /\ MaxLen \in Nat /\ MaxBytes \in Nat
  BY PathsAre, SizesTyped
<1>1. ASSUME NEW r \in MoveReqs \cup DeleteReqs \cup WriteReqs \cup CopyReqs, Permitted(r),
             r.tool = "fs.copy" => r.parents /\ (IsDir(tree, r.path) => r.recursive)
      PROVE  SameEffect(Handle(tree, undo, r, FALSE), Handle(tree, undo, r, TRUE))
  <2>1. CASE r \in MoveReqs
    <3>1. r.tool = "fs.move"
      BY <2>1 DEF MoveReqs
    <3>2. /\ Handle(tree, undo, r, FALSE) = FSMoveLocal(tree, undo, r)
          /\ Handle(tree, undo, r, TRUE) = FSMoveRemote(tree, undo, r)
      BY <3>1 DEF Handle
    <3> QED
      BY <3>2, MoveAgrees
  <2>2. CASE r \in DeleteReqs
    <3>1. r.tool = "fs.delete"
      BY <2>2 DEF DeleteReqs
    <3>2. r.path \in Paths
      <4>1. Resolved(r.path)
        BY <1>1, <2>2, <3>1, PermittedOf, PatchFields DEF Requests
      <4> QED
        BY <4>1 DEF Resolved
    <3>3. CASE r.path = Root
      <4>1. /\ Handle(tree, undo, r, FALSE) = Refuse("policy_denied", tree, undo)
            /\ Handle(tree, undo, r, TRUE) = Refuse("policy_denied", tree, undo)
        BY <3>1, <3>3 DEF Handle, FSDelete
      <4> QED
        BY <4>1, Same
    <3>4. CASE r.path # Root
      <4>1. /\ Handle(tree, undo, r, FALSE) = FSDeleteLocal(tree, undo, r)
            /\ Handle(tree, undo, r, TRUE) = FSDeleteRemote(tree, undo, r)
        BY <3>1, <3>4 DEF Handle, FSDelete
      <4> QED
        BY <2>2, <3>2, <4>1, DeleteAgrees
    <3> QED
      BY <3>3, <3>4
  <2>3. CASE r \in WriteReqs
    <3>1. r.tool = "fs.write_file"
      BY <2>3 DEF WriteReqs
    <3>2. /\ Handle(tree, undo, r, FALSE) = FSWriteLocal(tree, undo, r)
          /\ Handle(tree, undo, r, TRUE) = FSWriteRemote(tree, undo, r)
      BY <3>1 DEF Handle
    <3> QED
      BY <3>2, WriteAgrees
  <2>4. CASE r \in CopyReqs
    <3>1. r.tool = "fs.copy"
      BY <2>4 DEF CopyReqs
    <3>2. Resolved(r.path) /\ Resolved(r.dst)
      BY <1>1, <2>4, <3>1, PermittedOf, PatchFields DEF Requests
    <3>3. /\ Handle(tree, undo, r, FALSE) = FSCopyLocal(tree, undo, r)
          /\ Handle(tree, undo, r, TRUE) = FSCopyRemote(tree, undo, r)
      BY <3>1 DEF Handle
    <3>4. r.path \in Paths /\ r.parents /\ (IsDir(tree, r.path) => r.recursive)
      BY <1>1, <3>1, <3>2 DEF Resolved
    <3> QED
      BY <1>0, <2>4, <3>2, <3>3, <3>4, CopyAgrees
  <2> QED
    BY <1>1, <2>1, <2>2, <2>3, <2>4
<1>2. ASSUME Small, NEW r \in EditReqs \cup InsertReqs \cup UndoReqs, Permitted(r)
      PROVE  SameEffect(Handle(tree, undo, r, FALSE), Handle(tree, undo, r, TRUE))
  <2>1. r.path \in Paths
    <3>1. r \in Requests /\ r \notin PatchReqs
      BY <1>2, PatchFields DEF Requests, EditReqs, InsertReqs, UndoReqs
    <3> QED
      BY <1>2, <3>1, PermittedOf DEF Resolved
  <2>2. Len(tree[r.path].data) <= MaxBytes /\ \A n \in Names : Len(undo[n].data) <= MaxBytes
    BY <1>2, <2>1 DEF Small
  <2>3. CASE r \in EditReqs
    <3>1. r.tool = "fs.edit"
      BY <2>3 DEF EditReqs
    <3>2. CASE r.new = <<r.old>>
      <4>1. /\ Handle(tree, undo, r, FALSE) = Refuse("invalid_argument", tree, undo)
            /\ Handle(tree, undo, r, TRUE) = Refuse("invalid_argument", tree, undo)
        BY <3>1, <3>2 DEF Handle, FSEdit
      <4> QED
        BY <4>1, Same
    <3>3. CASE r.new # <<r.old>>
      <4>1. /\ Handle(tree, undo, r, FALSE) = FSEditLocal(tree, undo, r)
            /\ Handle(tree, undo, r, TRUE) = FSEditRemote(tree, undo, r)
        BY <3>1, <3>3 DEF Handle, FSEdit
      <4> QED
        BY <2>1, <2>2, <4>1, EditAgrees
    <3> QED
      BY <3>2, <3>3
  <2>4. CASE r \in InsertReqs
    <3>1. r.tool = "fs.insert"
      BY <2>4 DEF InsertReqs
    <3>2. /\ Handle(tree, undo, r, FALSE) = FSInsertLocal(tree, undo, r)
          /\ Handle(tree, undo, r, TRUE) = FSInsertRemote(tree, undo, r)
      BY <3>1 DEF Handle
    <3> QED
      BY <2>1, <2>2, <3>2, EditAgrees
  <2>5. CASE r \in UndoReqs
    <3>1. r.tool = "workspace.undo_edit"
      BY <2>5 DEF UndoReqs
    <3>2. /\ Handle(tree, undo, r, FALSE) = WorkspaceUndoEditLocal(tree, undo, r)
          /\ Handle(tree, undo, r, TRUE) = WorkspaceUndoEditRemote(tree, undo, r)
      BY <3>1 DEF Handle
    <3> QED
      BY <2>1, <2>2, <3>2, UndoAgrees
  <2> QED
    BY <1>2, <2>3, <2>4, <2>5
<1>3. ASSUME NEW p \in Paths
      PROVE  /\ FSStatLocal(tree, p) = FSStatRemote(tree, p)
             /\ \A max \in 0 .. MaxLen : FSReadLocal(tree, p, max) = FSReadRemote(tree, p, max)
             /\ \A b \in BOOLEAN, max \in 1 .. 2 :
                  Whole(Listing(tree, p, b)) =>
                    FSListRemote(tree, p, b, max) \subseteq FSListLocal(tree, p, b, max)
             /\ ~IsFile(tree, p) /\ (\A q \in Under(p) : Git \notin ToSet(q)) =>
                  \A x \in Lines : Whole(Matching(tree, p, x)) =>
                    FSSearchLocal(tree, p, x, 2) = FSSearchRemote(tree, p, x, 2)
             /\ \A max \in 1 .. 2 : readLocalFile(tree, p, max) = readRemoteFile(tree, p, max)
             /\ Whole({q \in Under(p) : IsFile(tree, q)}) =>
                  \A b \in BOOLEAN, max \in 1 .. 2 : ArtifactListLocal(tree, p, b, <<>>, max)
                                                    = ArtifactListRemote(tree, p, b, <<>>, max)
  <2>1. \A max \in Nat : FSStatLocal(tree, p) = FSStatRemote(tree, p)
                         /\ FSReadLocal(tree, p, max) = FSReadRemote(tree, p, max)
    BY ReadAgrees
  <2>2. \A b \in BOOLEAN, max \in Nat :
          Whole(Listing(tree, p, b)) => FSListRemote(tree, p, b, max) \subseteq FSListLocal(tree, p, b, max)
    BY ListAgrees
  <2>3. ~IsFile(tree, p) /\ (\A q \in Under(p) : Git \notin ToSet(q)) =>
          \A x \in Lines : Whole(Matching(tree, p, x)) =>
            FSSearchLocal(tree, p, x, 2) = FSSearchRemote(tree, p, x, 2)
    <3>1. 2 \in Nat
      OBVIOUS
    <3> QED
      BY <3>1, SearchAgrees
  <2>4. \A max \in Nat : readLocalFile(tree, p, max) = readRemoteFile(tree, p, max)
    BY FileComplete
  <2>5. Whole({q \in Under(p) : IsFile(tree, q)}) =>
          \A b \in BOOLEAN, max \in 1 .. 2 :
            ArtifactListLocal(tree, p, b, <<>>, max) = ArtifactListRemote(tree, p, b, <<>>, max)
    BY ArtifactsAgree
  <2>6. 0 \in Nat /\ (\A max \in 0 .. MaxLen : max \in Nat) /\ (\A max \in 1 .. 2 : max \in Nat)
    BY <1>0
  <2> QED
    BY <2>1, <2>2, <2>3, <2>4, <2>5, <2>6, Zenon
<1> QED
  BY <1>1, <1>2, <1>3, Zenon DEF BackendsAgree

\* The tools mean the same on disk and in a pod (fs_tools.go, undo_tools.go,
\* insert_tools.go, artifact_tools.go): the same calls succeed, with the same effect, for
\* every tree and every request, but for the exceptions BackendsAgree names.
THEOREM TheBackendsAgree == Spec => []BackendsAgree
<1>1. FsInv /\ [Next]_vars => FsInv'
  BY FsStep
<1>2. FsInv => BackendsAgree
  BY BackendsDoAgree DEF FsInv
<1> QED
  BY <1>1, <1>2, FsInit, PTL DEF Spec
================================================================================
