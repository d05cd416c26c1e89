----------------------------- MODULE FileProofs -----------------------------
(***************************************************************************)
(* PathGuard on any file trees, and ReadIsClean for any number of paths,   *)
(* directories, inodes and changes.                                        *)
(*                                                                         *)
(* The guard: a walk of the kernel ends, since each step has one component *)
(* less to go or one link less to follow; so Reach is the function that    *)
(* its definition says it is.  The path a walk arrives at has no link and  *)
(* no .. in it, so a second walk along it arrives at the same place, and   *)
(* one along it and further starts from there.                             *)
(*                                                                         *)
(* The read: once the names that were found are as many as the link count, *)
(* they are all of them, and none of those was denied.                     *)
(***************************************************************************)
EXTENDS VerifiedRead, PathGuard, FiniteSetTheorems, SequenceTheorems, WellFoundedInduction, TLAPS

-----------------------------------------------------------------------------
(* Induction and recursion, stated of sets. *)

\* A set of numbers with 0 and all successors has all numbers.
LEMMA NatSet ==
  ASSUME NEW S, 0 \in S, \A n \in Nat : n \in S => n + 1 \in S
  PROVE  \A n \in Nat : n \in S
<1> DEFINE T == Nat \ S
<1> SUFFICES ASSUME T # {} PROVE FALSE
  OBVIOUS
<1>1. PICK n \in T : \A m \in T : <<m, n>> \notin OpToRel(<, Nat)
  BY WFMin, NatLessThanWellFounded
<1>2. n \in Nat /\ n \notin S /\ n # 0
  OBVIOUS
<1>3. n - 1 \in Nat /\ n - 1 < n /\ (n - 1) + 1 = n
  BY <1>2
<1>4. n - 1 \in S
  BY <1>1, <1>3 DEF OpToRel
<1> QED
  BY <1>2, <1>3, <1>4

\* What of D goes on to the end, whatever S: an induction along next.
Inductive(D, Stops, next) ==
  \A S \in SUBSET D : (\A x \in D : x \in Stops \/ next[x] \in S => x \in S) => S = D

\* What D holds follows next to the end: a function defined by it exists.
Fits(f, X, D, Stops, next, end) ==
  /\ X \subseteq D
  /\ \A x \in X : IF x \in Stops THEN f[x] = end[x] ELSE next[x] \in X /\ f[x] = f[next[x]]

\* A function that is defined by following next to the end exists.
LEMMA TailRecursion ==
  ASSUME NEW D, NEW Stops, NEW next \in [D -> D], NEW end,
         Inductive(D, Stops, next)
  PROVE  \E F : F = [x \in D |-> IF x \in Stops THEN end[x] ELSE F[next[x]]]
<1> DEFINE Fit(f, X) == Fits(f, X, D, Stops, next, end)
           Same == {x \in D : \A f, g, X, Y : Fit(f, X) /\ Fit(g, Y) /\ x \in X /\ x \in Y => f[x] = g[x]}
           Some == {x \in D : \E f, X : Fit(f, X) /\ x \in X}
           F == [x \in D |-> CHOOSE v : \E f, X : Fit(f, X) /\ x \in X /\ v = f[x]]
<1>1. Same = D
  <2>1. ASSUME NEW x \in D, x \in Stops \/ next[x] \in Same PROVE x \in Same
    BY <2>1 DEF Fits
  <2> HIDE DEF Same
  <2>2. Same \in SUBSET D
    BY DEF Same
  <2> QED
    BY <2>1, <2>2 DEF Inductive
<1>2. Some = D
  <2>1. ASSUME NEW x \in D, x \in Stops \/ next[x] \in Some PROVE x \in Some
    <3>1. CASE x \in Stops
      <4>1. Fit([y \in {x} |-> end[x]], {x})
        BY <3>1 DEF Fits
      <4> QED
        BY <4>1
    <3>2. CASE x \notin Stops
      <4>1. PICK f, X : Fit(f, X) /\ next[x] \in X
        BY <2>1, <3>2
      <4> DEFINE g == [y \in X \union {x} |-> IF y \in X THEN f[y] ELSE f[next[x]]]
      <4>2. Fit(g, X \union {x})
        <5>1. X \union {x} \subseteq D
          BY <4>1 DEF Fits
        <5>2. ASSUME NEW y \in X
              PROVE IF y \in Stops THEN g[y] = end[y] ELSE next[y] \in X \union {x} /\ g[y] = g[next[y]]
          BY <4>1 DEF Fits
        <5>3. x \notin X => next[x] \in X \union {x} /\ g[x] = g[next[x]]
          BY <4>1
        <5> HIDE DEF g
        <5> QED
          BY <5>1, <5>2, <5>3, <3>2 DEF Fits
      <4> QED
        BY <4>2
    <3> QED
      BY <3>1, <3>2
  <2> HIDE DEF Some
  <2>2. Some \in SUBSET D
    BY DEF Some
  <2> QED
    BY <2>1, <2>2 DEF Inductive
<1>3. ASSUME NEW f, NEW X, Fit(f, X), NEW x \in X PROVE F[x] = f[x]
  <2>1. x \in D
    BY <1>3 DEF Fits
  <2>2. \A v : (\E g, Y : Fit(g, Y) /\ x \in Y /\ v = g[x]) => v = f[x]
    BY <1>1, <1>3, <2>1
  <2>3. \E g, Y : Fit(g, Y) /\ x \in Y /\ f[x] = g[x]
    BY <1>3
  <2> HIDE DEF Fit
  <2>4. (CHOOSE v : \E g, Y : Fit(g, Y) /\ x \in Y /\ v = g[x]) = f[x]
    BY <2>2, <2>3
  <2> QED
    BY <2>1, <2>4
<1>4. ASSUME NEW x \in D PROVE F[x] = IF x \in Stops THEN end[x] ELSE F[next[x]]
  <2>1. PICK f, X : Fit(f, X) /\ x \in X
    BY <1>2
  <2>2. IF x \in Stops THEN f[x] = end[x] ELSE next[x] \in X /\ f[x] = f[next[x]]
    BY <2>1 DEF Fits
  <2> HIDE DEF F, Fit
  <2> QED
    BY <1>3, <2>1, <2>2
<1>5. F = [x \in D |-> F[x]]
  OBVIOUS
<1> HIDE DEF F
<1>6. F = [x \in D |-> IF x \in Stops THEN end[x] ELSE F[next[x]]]
  BY <1>4, <1>5
<1> QED
  BY <1>6

-----------------------------------------------------------------------------
(* Walks of the kernel. *)

USE GuardAssumption DEF GuardAssumption

\* A directory entry is one of the kinds the code tells apart.
LEMMA NodeKinds ==
  ASSUME NEW t \in Tree, NEW p
  PROVE  LET n == Node(t, p)
         IN \/ n = Nothing \/ n = ADir \/ n = [kind |-> "file"]
            \/ n.kind = "link" /\ n.abs \in BOOLEAN /\ n.parts \in Paths
<1>1. CASE p = <<>>
  BY <1>1 DEF Node
<1>2. CASE p # <<>> /\ p \in DOMAIN t
  <2>1. Node(t, p) = t[p]
    BY <1>2 DEF Node
  <2> QED
    BY <1>2, <2>1
<1>3. CASE p # <<>> /\ p \notin DOMAIN t
  BY <1>3 DEF Node
<1> QED
  BY <1>1, <1>2, <1>3

\* Dropping the last component leaves a path.
LEMMA ParentType ==
  ASSUME NEW p \in Paths
  PROVE  Parent(p) \in Paths
<1>1. Len(p) \in Nat /\ \A i \in 1 .. (Len(p) - 1) : p[i] \in STRING
  BY DEF Paths
<1>2. SubSeq(p, 1, Len(p) - 1) \in Seq(STRING)
  BY <1>1, SubSeqProperties
<1> QED
  BY <1>2 DEF Parent, Front, Paths

\* A walk that goes on has one component less to go, or one link less to follow.
LEMMA Shrinks ==
  ASSUME NEW t \in Tree, NEW w \in Walks, GoesOn(t, w)
  PROVE  LET o == Onward(t, w)
         IN /\ o \in Walks /\ o.new = w.new
            /\ \/ o.links = w.links /\ Len(o.rest) = Len(w.rest) - 1
               \/ o.links = w.links - 1
<1> DEFINE name == Head(w.rest)
           link == Ahead(t, w)
<1>1. w.rest \in Paths /\ w.rest # <<>> /\ w.at \in Paths /\ w.links \in 0 .. MaxLinks /\ w.new \in BOOLEAN
  BY DEF GoesOn, Walks
<1>2. name \in STRING /\ Tail(w.rest) \in Paths /\ Len(Tail(w.rest)) = Len(w.rest) - 1
  BY <1>1, HeadTailProperties DEF Paths
<1>3. CASE name = ".."
  <2>1. Onward(t, w) = [w EXCEPT !.at = Parent(@), !.rest = Tail(@)]
    BY <1>3 DEF Onward
  <2> QED
    BY <1>1, <1>2, <2>1, ParentType DEF Walks
<1>4. CASE name # ".." /\ link.kind # "link"
  <2>1. Onward(t, w) = [w EXCEPT !.at = Append(@, name), !.rest = Tail(@)]
    BY <1>4 DEF Onward
  <2>2. Append(w.at, name) \in Paths
    BY <1>1, <1>2 DEF Paths
  <2> QED
    BY <1>1, <1>2, <2>1, <2>2 DEF Walks
<1>5. CASE name # ".." /\ link.kind = "link"
  <2>1. Onward(t, w) = [w EXCEPT !.at = IF link.abs THEN <<>> ELSE @, !.rest = link.parts \o Tail(@), !.links = @ - 1]
    BY <1>5 DEF Onward
  <2>2. link.parts \in Paths
    BY <1>5, NodeKinds DEF Ahead, Nothing, ADir
  <2>3. link.parts \o Tail(w.rest) \in Paths /\ <<>> \in Paths
    BY <1>2, <2>2 DEF Paths
  <2>4. w.links - 1 \in 0 .. MaxLinks
    BY <1>1, <1>5 DEF GoesOn
  <2> QED
    BY <1>1, <2>1, <2>3, <2>4 DEF Walks
<1> QED
  BY <1>3, <1>4, <1>5

\* Every walk ends: what holds of it when it holds of its next step holds.
LEMMA WalkInduction ==
  ASSUME NEW t \in Tree, NEW S \in SUBSET Walks,
         \A w \in Walks : (GoesOn(t, w) => Onward(t, w) \in S) => w \in S
  PROVE  S = Walks
<1> DEFINE Few(l) == \A w \in Walks : w.links < l => w \in S
           L == {l \in Nat : Few(l)}
<1>1. 0 \in L
  BY DEF Walks
<1>2. ASSUME NEW l \in Nat, l \in L PROVE l + 1 \in L
  <2> DEFINE N == {n \in Nat : \A w \in Walks : w.links = l /\ Len(w.rest) < n => w \in S}
  <2>1. 0 \in N
    BY DEF Walks, Paths
  <2>2. ASSUME NEW n \in Nat, n \in N PROVE n + 1 \in N
    <3> SUFFICES ASSUME NEW w \in Walks, w.links = l, Len(w.rest) < n + 1 PROVE w \in S
      OBVIOUS
    <3>1. ASSUME GoesOn(t, w) PROVE Onward(t, w) \in S
      <4>1. Len(w.rest) \in Nat /\ Onward(t, w) \in Walks
        BY <3>1, Shrinks DEF Walks, Paths
      <4>2. (Onward(t, w).links = l /\ Len(Onward(t, w).rest) < n) \/ Onward(t, w).links = l - 1
        BY <3>1, <4>1, Shrinks
      <4> QED
        BY <1>2, <2>2, <4>1, <4>2
    <3> QED
      BY <3>1
  <2>3. \A n \in Nat : n \in N
    <3> HIDE DEF N
    <3> QED
      BY <2>1, <2>2, NatSet
  <2>4. ASSUME NEW w \in Walks, w.links < l + 1 PROVE w \in S
    <3>1. w.links \in Nat /\ Len(w.rest) \in Nat
      BY DEF Walks, Paths
    <3>2. Len(w.rest) + 1 \in N
      BY <2>3, <3>1
    <3>3. w.links < l \/ w.links = l
      BY <2>4, <3>1
    <3> QED
      BY <1>2, <3>1, <3>2, <3>3
  <2> QED
    BY <2>4
<1>3. \A l \in Nat : l \in L
  <2> HIDE DEF L
  <2> QED
    BY <1>1, <1>2, NatSet
<1>4. ASSUME NEW w \in Walks PROVE w \in S
  <2>1. w.links + 1 \in Nat /\ w.links < w.links + 1
    BY DEF Walks
  <2>2. w.links + 1 \in L
    BY <1>3, <2>1
  <2> QED
    BY <2>1, <2>2
<1> QED
  BY <1>4

\* Reach is what its definition says: the recursion is well-founded.
LEMMA ReachStep ==
  ASSUME NEW t \in Tree, NEW w \in Walks
  PROVE  Reach(t)[w] = IF GoesOn(t, w) THEN Reach(t)[Onward(t, w)] ELSE Arrival(t, w)
<1> DEFINE Stops == {x \in Walks : ~ GoesOn(t, x)}
           next == [x \in Walks |-> IF GoesOn(t, x) THEN Onward(t, x) ELSE x]
           end == [x \in Walks |-> Arrival(t, x)]
           Def(F) == F = [x \in Walks |-> IF GoesOn(t, x) THEN F[Onward(t, x)] ELSE Arrival(t, x)]
<1>1. next \in [Walks -> Walks]
  BY Shrinks
<1>2. Inductive(Walks, Stops, next)
  <2> SUFFICES ASSUME NEW S \in SUBSET Walks, \A x \in Walks : x \in Stops \/ next[x] \in S => x \in S
               PROVE  S = Walks
    BY DEF Inductive
  <2>1. \A x \in Walks : (GoesOn(t, x) => Onward(t, x) \in S) => x \in S
    OBVIOUS
  <2> QED
    BY <2>1, WalkInduction
<1>3. \E F : F = [x \in Walks |-> IF x \in Stops THEN end[x] ELSE F[next[x]]]
  <2> HIDE DEF Stops, next, end
  <2> QED
    BY <1>1, <1>2, TailRecursion
<1>4. PICK F : Def(F)
  <2>1. PICK F : F = [x \in Walks |-> IF x \in Stops THEN end[x] ELSE F[next[x]]]
    BY <1>3
  <2>2. \A x \in Walks : (IF x \in Stops THEN end[x] ELSE F[next[x]]) =
                          (IF GoesOn(t, x) THEN F[Onward(t, x)] ELSE Arrival(t, x))
    OBVIOUS
  <2> HIDE DEF Stops, next, end
  <2>3. Def(F)
    BY <2>1, <2>2
  <2> QED
    BY <2>3
<1>5. Reach(t) = CHOOSE G : Def(G)
  BY DEF Reach
<1>6. Def(Reach(t))
  <2> HIDE DEF Def
  <2> QED
    BY <1>4, <1>5
<1> QED
  BY <1>6

-----------------------------------------------------------------------------
(* Paths that no link and no .. stands in. *)

\* Every component names a directory, the last one maybe a file.
Real(t, q) ==
  /\ q \in Paths
  /\ \A j \in 1 .. Len(q) :
       /\ q[j] # ".."
       /\ Node(t, SubSeq(q, 1, j)).kind \in {"dir", "file"}
       /\ j < Len(q) => Node(t, SubSeq(q, 1, j)).kind = "dir"

\* The first components of a path.
LEMMA Firsts ==
  ASSUME NEW p \in Paths, NEW n \in 0 .. Len(p)
  PROVE  /\ SubSeq(p, 1, n) \in Paths /\ Len(SubSeq(p, 1, n)) = n
         /\ \A i \in 1 .. n : SubSeq(p, 1, n)[i] = p[i]
<1>1. Len(p) \in Nat /\ n \in Nat /\ n <= Len(p) /\ \A i \in 1 .. Len(p) : p[i] \in STRING
  BY DEF Paths
<1>2. \A i \in 1 .. n : p[i] \in STRING
  BY <1>1
<1>3. /\ SubSeq(p, 1, n) \in Seq(STRING)
      /\ Len(SubSeq(p, 1, n)) = IF 1 <= n THEN n - 1 + 1 ELSE 0
      /\ \A i \in 1 .. n - 1 + 1 : SubSeq(p, 1, n)[i] = p[1 + i - 1]
  BY <1>1, <1>2, SubSeqProperties
<1>4. Len(SubSeq(p, 1, n)) = n
  BY <1>1, <1>3
<1>5. ASSUME NEW i \in 1 .. n PROVE SubSeq(p, 1, n)[i] = p[i]
  <2>1. i \in 1 .. n - 1 + 1 /\ 1 + i - 1 = i
    BY <1>1
  <2> QED
    BY <1>3, <2>1
<1> QED
  BY <1>3, <1>4, <1>5 DEF Paths

\* Paths with the same first components.
LEMMA SameFirsts ==
  ASSUME NEW p \in Paths, NEW r \in Paths, NEW n \in 0 .. Len(p), n <= Len(r), \A i \in 1 .. n : p[i] = r[i]
  PROVE  SubSeq(p, 1, n) = SubSeq(r, 1, n)
<1>1. n \in 0 .. Len(r)
  BY DEF Paths
<1>2. /\ SubSeq(p, 1, n) \in Paths /\ Len(SubSeq(p, 1, n)) = n
      /\ SubSeq(r, 1, n) \in Paths /\ Len(SubSeq(r, 1, n)) = n
      /\ \A i \in 1 .. n : SubSeq(p, 1, n)[i] = SubSeq(r, 1, n)[i]
  BY <1>1, Firsts
<1> QED
  BY <1>2, SeqEqual DEF Paths

\* The first of the first components of a path are first ones.
LEMMA FirstsOfFirsts ==
  ASSUME NEW p \in Paths, NEW n \in 0 .. Len(p), NEW j \in 0 .. n
  PROVE  SubSeq(SubSeq(p, 1, n), 1, j) = SubSeq(p, 1, j)
<1>1. /\ SubSeq(p, 1, n) \in Paths /\ Len(SubSeq(p, 1, n)) = n
      /\ \A i \in 1 .. n : SubSeq(p, 1, n)[i] = p[i]
  BY Firsts
<1>2. j <= Len(p) /\ \A i \in 1 .. j : i \in 1 .. n
  BY DEF Paths
<1> QED
  BY <1>1, <1>2, SameFirsts

\* The components of a path that is longer by one.
LEMMA FirstOfAppend ==
  ASSUME NEW p \in Paths, NEW c \in STRING
  PROVE  /\ Append(p, c) \in Paths /\ Len(Append(p, c)) = Len(p) + 1
         /\ SubSeq(Append(p, c), 1, Len(p) + 1) = Append(p, c)
         /\ \A j \in 1 .. Len(p) : Append(p, c)[j] = p[j] /\ SubSeq(Append(p, c), 1, j) = SubSeq(p, 1, j)
         /\ Append(p, c)[Len(p) + 1] = c
<1>1. /\ Append(p, c) \in Paths /\ Len(Append(p, c)) = Len(p) + 1 /\ Append(p, c)[Len(p) + 1] = c
      /\ \A j \in 1 .. Len(p) : Append(p, c)[j] = p[j]
  BY AppendProperties DEF Paths
<1>2. SubSeq(Append(p, c), 1, Len(p) + 1) = Append(p, c)
  BY <1>1, SubSeqFull DEF Paths
<1>3. ASSUME NEW j \in 1 .. Len(p) PROVE SubSeq(Append(p, c), 1, j) = SubSeq(p, 1, j)
  <2>1. j \in 0 .. Len(p) /\ j <= Len(Append(p, c)) /\ \A i \in 1 .. j : p[i] = Append(p, c)[i]
    BY <1>1 DEF Paths
  <2> QED
    BY <1>1, <2>1, SameFirsts
<1> QED
  BY <1>1, <1>2, <1>3

\* The first components of a real path are a real path.
LEMMA RealFirsts ==
  ASSUME NEW t \in Tree, NEW q, Real(t, q), NEW n \in 0 .. Len(q)
  PROVE  /\ Real(t, SubSeq(q, 1, n))
         /\ n < Len(q) => Node(t, SubSeq(q, 1, n)).kind = "dir"
<1> DEFINE p == SubSeq(q, 1, n)
<1>1. q \in Paths /\ Len(q) \in Nat /\ n \in Nat /\ n <= Len(q)
  BY DEF Real, Paths
<1>2. p \in Paths /\ Len(p) = n /\ \A i \in 1 .. n : p[i] = q[i]
  BY <1>1, Firsts
<1>3. \A j \in 1 .. n : SubSeq(p, 1, j) = SubSeq(q, 1, j)
  BY <1>1, FirstsOfFirsts
<1>4. n < Len(q) => Node(t, p).kind = "dir"
  <2>1. CASE n = 0
    <3>1. p = <<>>
      BY <1>2, <2>1 DEF Paths
    <3> QED
      BY <3>1 DEF Node, ADir
  <2>2. CASE n # 0
    <3>1. n \in 1 .. Len(q)
      BY <1>1, <2>2
    <3> QED
      BY <3>1 DEF Real
  <2> QED
    BY <2>1, <2>2
<1> HIDE DEF p
<1>5. ASSUME NEW j \in 1 .. Len(p)
      PROVE  /\ p[j] # ".." /\ Node(t, SubSeq(p, 1, j)).kind \in {"dir", "file"}
             /\ j < Len(p) => Node(t, SubSeq(p, 1, j)).kind = "dir"
  <2>1. j \in 1 .. n /\ j \in 1 .. Len(q) /\ (j < Len(p) => j < Len(q))
    BY <1>1, <1>2
  <2>2. p[j] = q[j] /\ SubSeq(p, 1, j) = SubSeq(q, 1, j)
    BY <1>2, <1>3, <2>1
  <2> QED
    BY <2>1, <2>2 DEF Real
<1> QED
  BY <1>2, <1>4, <1>5 DEF Real, p

\* So is the parent of one.
LEMMA RealParent ==
  ASSUME NEW t \in Tree, NEW q, Real(t, q)
  PROVE  Real(t, Parent(q)) /\ Node(t, Parent(q)).kind = "dir"
<1>1. CASE q = <<>>
  BY <1>1 DEF Parent, Node, ADir
<1>2. CASE q # <<>>
  <2>1. Len(q) \in Nat /\ Len(q) >= 1
    BY <1>2 DEF Real, Paths
  <2>2. Len(q) - 1 \in 0 .. Len(q) /\ Len(q) - 1 < Len(q) /\ Parent(q) = SubSeq(q, 1, Len(q) - 1)
    BY <1>2, <2>1 DEF Parent, Front
  <2> QED
    BY <2>2, RealFirsts
<1> QED
  BY <1>1, <1>2

\* A real directory and an entry in it that is no link make a real path.
LEMMA RealAppend ==
  ASSUME NEW t \in Tree, NEW q, Real(t, q), Node(t, q).kind = "dir", NEW c \in STRING, c # "..",
         Node(t, Append(q, c)).kind \in {"dir", "file"}
  PROVE  Real(t, Append(q, c))
<1> DEFINE r == Append(q, c)
<1>1. q \in Paths /\ Len(q) \in Nat
  BY DEF Real, Paths
<1>2. /\ r \in Paths /\ Len(r) = Len(q) + 1 /\ SubSeq(r, 1, Len(q) + 1) = r
      /\ \A j \in 1 .. Len(q) : r[j] = q[j] /\ SubSeq(r, 1, j) = SubSeq(q, 1, j)
      /\ r[Len(q) + 1] = c
  BY <1>1, FirstOfAppend
<1>3. Len(q) > 0 => Node(t, SubSeq(q, 1, Len(q))).kind = "dir"
  BY <1>1, SubSeqFull DEF Paths
<1> HIDE DEF r
<1>4. ASSUME NEW j \in 1 .. Len(r)
      PROVE  /\ r[j] # ".." /\ Node(t, SubSeq(r, 1, j)).kind \in {"dir", "file"}
             /\ j < Len(r) => Node(t, SubSeq(r, 1, j)).kind = "dir"
  <2>1. CASE j = Len(q) + 1
    <3>1. SubSeq(r, 1, j) = r /\ r[j] = c /\ ~ (j < Len(r))
      BY <1>1, <1>2, <2>1
    <3>2. Node(t, r).kind \in {"dir", "file"}
      BY DEF r
    <3> QED
      BY <3>1, <3>2
  <2>2. CASE j \in 1 .. Len(q)
    <3>1. r[j] = q[j] /\ SubSeq(r, 1, j) = SubSeq(q, 1, j)
      BY <1>2, <2>2
    <3>2. j = Len(q) \/ j < Len(q)
      BY <1>1, <2>2
    <3>3. q[j] # ".." /\ Node(t, SubSeq(q, 1, j)).kind = "dir"
      BY <1>1, <1>3, <2>2, <3>2 DEF Real
    <3> QED
      BY <3>1, <3>3
  <2>3. j = Len(q) + 1 \/ j \in 1 .. Len(q)
    BY <1>1, <1>2
  <2> QED
    BY <2>1, <2>2, <2>3
<1>5. Real(t, r)
  BY <1>2, <1>4 DEF Real
<1> QED
  BY <1>5 DEF r

\* What the kernel finds is one path at most, and a real one if it is there.
LEMMA ReachReal ==
  ASSUME NEW t \in Tree, NEW w \in Walks, Real(t, w.at)
  PROVE  /\ Reach(t)[w] = {} \/ \E q : Reach(t)[w] = {q}
         /\ w.new = FALSE => \A q \in Reach(t)[w] : Real(t, q)
<1> DEFINE Good(x) == /\ Reach(t)[x] = {} \/ \E q : Reach(t)[x] = {q}
                      /\ x.new = FALSE => \A q \in Reach(t)[x] : Real(t, q)
           S == {x \in Walks : Real(t, x.at) => Good(x)}
<1>1. ASSUME NEW x \in Walks, GoesOn(t, x) => Onward(t, x) \in S PROVE x \in S
  <2> SUFFICES ASSUME Real(t, x.at) PROVE Good(x)
    OBVIOUS
  <2>1. CASE ~ GoesOn(t, x)
    <3>1. Reach(t)[x] = Arrival(t, x)
      BY <2>1, ReachStep
    <3> QED
      BY <3>1 DEF Arrival
  <2>2. CASE GoesOn(t, x)
    <3> DEFINE name == Head(x.rest)
               o == Onward(t, x)
    <3>1. Reach(t)[x] = Reach(t)[o] /\ o \in Walks /\ o.new = x.new /\ name \in STRING /\ x.at \in Paths
      BY <2>2, ReachStep, Shrinks, HeadTailProperties DEF Walks, GoesOn, Paths
    <3>2. Real(t, o.at)
      <4>1. CASE name = ".."
        <5>1. o.at = Parent(x.at)
          BY <4>1 DEF Onward, Walks
        <5> QED
          BY <5>1, RealParent
      <4>2. CASE name # ".." /\ Ahead(t, x).kind # "link"
        <5>1. o.at = Append(x.at, name)
          BY <4>2 DEF Onward, Walks
        <5>2. Node(t, Append(x.at, name)).kind \in {"dir", "file"} /\ Node(t, x.at).kind = "dir"
          BY <2>2, <4>2 DEF GoesOn, Ahead
        <5> QED
          BY <3>1, <4>2, <5>1, <5>2, RealAppend
      <4>3. CASE name # ".." /\ Ahead(t, x).kind = "link"
        <5>1. o.at = <<>> \/ o.at = x.at
          BY <4>3 DEF Onward, Walks
        <5>2. Real(t, <<>>)
          BY DEF Real, Paths
        <5> QED
          BY <5>1, <5>2
      <4> QED
        BY <4>1, <4>2, <4>3
    <3> QED
      BY <1>1, <2>2, <3>1, <3>2
  <2> QED
    BY <2>1, <2>2
<1>2. S = Walks
  <2> HIDE DEF S
  <2>1. S \in SUBSET Walks
    BY DEF S
  <2> QED
    BY <1>1, <2>1, WalkInduction
<1> QED
  BY <1>2

\* The kernel walks along a real path as it is written, and follows no link.
LEMMA AlongReal ==
  ASSUME NEW t \in Tree, NEW p \in Paths, NEW n \in 0 .. Len(p), Real(t, SubSeq(p, 1, n)),
         NEW new \in BOOLEAN
  PROVE  Reach(t)[FromTop(p, new)] =
           Reach(t)[[at |-> SubSeq(p, 1, n), rest |-> SubSeq(p, n + 1, Len(p)), links |-> MaxLinks, new |-> new]]
<1> DEFINE w(j) == [at |-> SubSeq(p, 1, j), rest |-> SubSeq(p, j + 1, Len(p)), links |-> MaxLinks, new |-> new]
           J == {j \in Nat : j <= n => Reach(t)[FromTop(p, new)] = Reach(t)[w(j)]}
<1>1. Len(p) \in Nat /\ n \in Nat /\ n <= Len(p) /\ MaxLinks \in 0 .. MaxLinks
  BY DEF Paths
<1>2. 0 \in J
  <2>1. SubSeq(p, 1, 0) = <<>> /\ SubSeq(p, 0 + 1, Len(p)) = p
    BY <1>1, SubSeqEmpty, SubSeqFull DEF Paths
  <2> QED
    BY <2>1 DEF FromTop
<1>3. ASSUME NEW j \in Nat, j \in J PROVE j + 1 \in J
  <2> SUFFICES ASSUME j + 1 <= n PROVE Reach(t)[w(j)] = Reach(t)[w(j + 1)]
    BY <1>1, <1>3
  <2>1. j \in 0 .. Len(p) /\ j + 1 \in 0 .. Len(p) /\ j + 1 \in 1 .. Len(p) /\ Len(p) \in j + 1 .. Len(p)
        /\ j + 1 \in 1 .. n /\ j \in 0 .. n /\ j + 1 \in 0 .. n /\ j < n
    BY <1>1
  <2>2. Head(SubSeq(p, j + 1, Len(p))) = p[j + 1] /\ Tail(SubSeq(p, j + 1, Len(p))) = SubSeq(p, j + 1 + 1, Len(p))
    BY <2>1, HeadTailOfSubSeq DEF Paths
  <2>3. SubSeq(p, j + 1, Len(p)) \in Paths /\ Len(SubSeq(p, j + 1, Len(p))) = Len(p) - (j + 1) + 1
    <3>1. \A i \in j + 1 .. Len(p) : p[i] \in STRING
      BY <2>1 DEF Paths
    <3> QED
      BY <1>1, <2>1, <3>1, SubSeqProperties DEF Paths
  <2>4. SubSeq(p, j + 1, Len(p)) # <<>>
    <3>1. Len(p) - (j + 1) + 1 > 0
      BY <1>1, <2>1
    <3> DEFINE s == SubSeq(p, j + 1, Len(p))
    <3>2. Len(s) > 0
      BY <2>3, <3>1
    <3> HIDE DEF s
    <3>3. s # <<>>
      BY <3>2
    <3> QED
      BY <3>3 DEF s
  <2>5. /\ SubSeq(p, 1, n) \in Paths /\ Len(SubSeq(p, 1, n)) = n
        /\ SubSeq(p, 1, n)[j + 1] = p[j + 1]
    BY <1>1, <2>1, Firsts
  <2>6. SubSeq(SubSeq(p, 1, n), 1, j) = SubSeq(p, 1, j) /\ SubSeq(SubSeq(p, 1, n), 1, j + 1) = SubSeq(p, 1, j + 1)
    BY <1>1, <2>1, FirstsOfFirsts
  <2>7. Node(t, SubSeq(p, 1, j)).kind = "dir"
    <3>1. j \in 0 .. Len(SubSeq(p, 1, n)) /\ j < Len(SubSeq(p, 1, n))
      BY <2>1, <2>5
    <3>2. Node(t, SubSeq(SubSeq(p, 1, n), 1, j)).kind = "dir"
      BY <3>1, RealFirsts
    <3> QED
      BY <2>6, <3>2
  <2>8. p[j + 1] # ".." /\ Node(t, SubSeq(p, 1, j + 1)).kind \in {"dir", "file"}
    BY <2>1, <2>5, <2>6 DEF Real
  <2>9. Append(SubSeq(p, 1, j), p[j + 1]) = SubSeq(p, 1, j + 1)
    <3>1. /\ SubSeq(p, 1, j) \in Paths /\ Len(SubSeq(p, 1, j)) = j /\ \A i \in 1 .. j : SubSeq(p, 1, j)[i] = p[i]
          /\ SubSeq(p, 1, j + 1) \in Paths /\ Len(SubSeq(p, 1, j + 1)) = j + 1
          /\ \A i \in 1 .. j + 1 : SubSeq(p, 1, j + 1)[i] = p[i]
      BY <2>1, Firsts
    <3>2. p[j + 1] \in STRING
      BY <2>1 DEF Paths
    <3>3. /\ Append(SubSeq(p, 1, j), p[j + 1]) \in Paths /\ Len(Append(SubSeq(p, 1, j), p[j + 1])) = j + 1
          /\ \A i \in 1 .. j : Append(SubSeq(p, 1, j), p[j + 1])[i] = SubSeq(p, 1, j)[i]
          /\ Append(SubSeq(p, 1, j), p[j + 1])[j + 1] = p[j + 1]
      <4> DEFINE a == SubSeq(p, 1, j)
                 c == p[j + 1]
      <4>1. a \in Paths /\ Len(a) = j /\ c \in STRING
        BY <3>1, <3>2
      <4> HIDE DEF a, c
      <4>2. /\ Append(a, c) \in Paths /\ Len(Append(a, c)) = Len(a) + 1
            /\ \A i \in 1 .. Len(a) : Append(a, c)[i] = a[i]
            /\ Append(a, c)[Len(a) + 1] = c
        BY <4>1, AppendProperties DEF Paths
      <4>3. /\ Append(a, c) \in Paths /\ Len(Append(a, c)) = j + 1
            /\ \A i \in 1 .. j : Append(a, c)[i] = a[i]
            /\ Append(a, c)[j + 1] = c
        BY <4>1, <4>2
      <4> QED
        BY <4>3 DEF a, c
    <3>4. ASSUME NEW i \in 1 .. j + 1 PROVE Append(SubSeq(p, 1, j), p[j + 1])[i] = SubSeq(p, 1, j + 1)[i]
      <4>1. i \in 1 .. j \/ i = j + 1
        OBVIOUS
      <4> QED
        BY <3>1, <3>3, <4>1
    <3> QED
      BY <3>1, <3>3, <3>4, SeqEqual DEF Paths
  <2>10. w(j) \in Walks
    BY <1>1, <2>1, <2>3, Firsts DEF Walks
  <2>11. Ahead(t, w(j)) = Node(t, SubSeq(p, 1, j + 1))
    BY <2>2, <2>9 DEF Ahead
  <2>12. GoesOn(t, w(j))
    BY <2>2, <2>4, <2>7, <2>8, <2>11 DEF GoesOn
  <2>13. Onward(t, w(j)) = w(j + 1)
    <3>1. Ahead(t, w(j)).kind # "link"
      BY <2>8, <2>11
    <3>2. Onward(t, w(j)) = [w(j) EXCEPT !.at = Append(@, p[j + 1]), !.rest = Tail(@)]
      BY <2>2, <2>8, <3>1 DEF Onward
    <3> QED
      BY <2>2, <2>9, <3>2
  <2> HIDE DEF w
  <2> QED
    BY <2>10, <2>12, <2>13, ReachStep
<1>4. \A j \in Nat : j \in J
  <2> HIDE DEF J
  <2> QED
    BY <1>2, <1>3, NatSet
<1> QED
  BY <1>1, <1>4

\* A real path is its own canonical path.
LEMMA RealIsFixed ==
  ASSUME NEW t \in Tree, NEW q, Real(t, q), NEW new \in BOOLEAN
  PROVE  Reach(t)[FromTop(q, new)] = {q}
<1> DEFINE w == [at |-> q, rest |-> <<>>, links |-> MaxLinks, new |-> new]
<1>1. q \in Paths /\ Len(q) \in Nat /\ Len(q) \in 0 .. Len(q) /\ MaxLinks \in 0 .. MaxLinks /\ <<>> \in Paths
  BY DEF Real, Paths
<1>2. SubSeq(q, 1, Len(q)) = q /\ SubSeq(q, Len(q) + 1, Len(q)) = <<>>
  BY <1>1, SubSeqFull, SubSeqEmpty DEF Paths
<1>3. Reach(t)[FromTop(q, new)] = Reach(t)[w]
  <2> DEFINE n == Len(q)
  <2>1. n \in 0 .. Len(q) /\ Real(t, SubSeq(q, 1, n))
    BY <1>1, <1>2
  <2> HIDE DEF n
  <2>2. Reach(t)[FromTop(q, new)] =
          Reach(t)[[at |-> SubSeq(q, 1, n), rest |-> SubSeq(q, n + 1, Len(q)), links |-> MaxLinks, new |-> new]]
    BY <1>1, <2>1, AlongReal
  <2> QED
    BY <1>2, <2>2 DEF n
<1>4. w \in Walks /\ ~ GoesOn(t, w) /\ Arrival(t, w) = {q}
  BY <1>1 DEF Walks, GoesOn, Arrival
<1> HIDE DEF w
<1> QED
  BY <1>3, <1>4, ReachStep

\* A canonical path is real, there is at most one, and it is its own.
LEMMA CanonIsReal ==
  ASSUME fs \in Tree, NEW p \in Paths
  PROVE  /\ Canon(p) = {} \/ \E q : Canon(p) = {q}
         /\ \A q \in Canon(p) : Real(fs, q) /\ Canon(q) = {q} /\ Landing(q) = {q}
<1>1. FromTop(p, FALSE) \in Walks /\ FromTop(p, FALSE).at = <<>> /\ FromTop(p, FALSE).new = FALSE
  BY DEF FromTop, Walks, Paths
<1>2. Real(fs, <<>>)
  BY DEF Real, Paths
<1>3. /\ Canon(p) = {} \/ \E q : Canon(p) = {q}
      /\ \A q \in Canon(p) : Real(fs, q)
  BY <1>1, <1>2, ReachReal DEF Canon
<1>4. ASSUME NEW q \in Canon(p) PROVE Canon(q) = {q} /\ Landing(q) = {q}
  BY <1>3, RealIsFixed DEF Canon, Landing
<1> QED
  BY <1>3, <1>4

\* The first component and the others of a path that is put before another.
LEMMA HeadTailOfAppended ==
  ASSUME NEW p \in Paths, NEW r \in Paths, p # <<>>
  PROVE  /\ Head(p \o r) = Head(p) /\ Tail(p \o r) = Tail(p) \o r /\ p \o r # <<>>
         /\ Tail(p) \in Paths
<1>1. /\ Len(p) \in Nat /\ Len(p) > 0 /\ Len(r) \in Nat
      /\ Head(p) = p[1] /\ Tail(p) \in Paths /\ Len(Tail(p)) = Len(p) - 1
      /\ \A i \in 1 .. Len(Tail(p)) : Tail(p)[i] = p[i + 1]
  BY HeadTailProperties DEF Paths
<1>2. p \o r \in Paths /\ Len(p \o r) = Len(p) + Len(r)
      /\ \A i \in 1 .. Len(p) + Len(r) : (p \o r)[i] = IF i <= Len(p) THEN p[i] ELSE r[i - Len(p)]
  BY ConcatProperties DEF Paths
<1>3. p \o r # <<>> /\ Head(p \o r) = p[1]
  BY <1>1, <1>2, HeadTailProperties DEF Paths
<1>4. /\ Tail(p \o r) \in Paths /\ Len(Tail(p \o r)) = Len(p) + Len(r) - 1
      /\ \A i \in 1 .. Len(p) + Len(r) - 1 : Tail(p \o r)[i] = (p \o r)[i + 1]
  BY <1>2, <1>3, HeadTailProperties DEF Paths
<1>5. Tail(p) \o r \in Paths /\ Len(Tail(p) \o r) = Len(p) - 1 + Len(r)
      /\ \A i \in 1 .. Len(p) - 1 + Len(r) :
           (Tail(p) \o r)[i] = IF i <= Len(p) - 1 THEN Tail(p)[i] ELSE r[i - (Len(p) - 1)]
  BY <1>1, ConcatProperties DEF Paths
<1>6. ASSUME NEW i \in 1 .. Len(p) + Len(r) - 1 PROVE Tail(p \o r)[i] = (Tail(p) \o r)[i]
  <2>1. i + 1 \in 1 .. Len(p) + Len(r) /\ i \in 1 .. Len(p) - 1 + Len(r)
    BY <1>1
  <2>2. CASE i <= Len(p) - 1
    <3>1. i + 1 <= Len(p) /\ i \in 1 .. Len(Tail(p))
      BY <1>1, <2>2
    <3> QED
      BY <1>1, <1>2, <1>4, <1>5, <2>1, <2>2, <3>1
  <2>3. CASE ~ (i <= Len(p) - 1)
    <3>1. ~ (i + 1 <= Len(p)) /\ (i + 1) - Len(p) = i - (Len(p) - 1)
      BY <1>1, <2>3
    <3>2. Tail(p \o r)[i] = r[(i + 1) - Len(p)]
      BY <1>2, <1>4, <2>1, <3>1
    <3> QED
      BY <1>5, <2>1, <2>3, <3>1, <3>2
  <2> QED
    BY <2>2, <2>3
<1>7. Len(p) + Len(r) - 1 = Len(p) - 1 + Len(r)
  BY <1>1
<1>8. Tail(p \o r) = Tail(p) \o r
  BY <1>4, <1>5, <1>6, <1>7, SeqEqual DEF Paths
<1> QED
  BY <1>1, <1>3, <1>8

\* A walk with more components behind its own.
Longer(w, r) == [w EXCEPT !.rest = @ \o r]

\* Such a walk, field by field.
LEMMA LongerIs ==
  ASSUME NEW w \in Walks, NEW r \in Paths
  PROVE  /\ Longer(w, r) \in Walks
         /\ Longer(w, r).at = w.at /\ Longer(w, r).rest = w.rest \o r
         /\ Longer(w, r).links = w.links /\ Longer(w, r).new = w.new
<1>1. w.rest \o r \in Paths
  BY DEF Walks, Paths
<1> QED
  BY <1>1 DEF Longer, Walks

\* It does first what it does without them.
LEMMA WalksOn ==
  ASSUME NEW t \in Tree, NEW r \in Paths
  PROVE  \A w \in Walks : \A d \in Reach(t)[w] : ~ w.new =>
           \E l \in 0 .. MaxLinks :
             Reach(t)[Longer(w, r)] = Reach(t)[[at |-> d, rest |-> r, links |-> l, new |-> FALSE]]
<1> DEFINE Goal(w) == \A d \in Reach(t)[w] : ~ w.new =>
                        \E l \in 0 .. MaxLinks :
                          Reach(t)[Longer(w, r)] = Reach(t)[[at |-> d, rest |-> r, links |-> l, new |-> FALSE]]
           S == {w \in Walks : Goal(w)}
<1>1. ASSUME NEW w \in Walks, GoesOn(t, w) => Onward(t, w) \in S PROVE w \in S
  <2> HIDE DEF S
  <2>1. w.rest \in Paths /\ w.at \in Paths /\ w.links \in 0 .. MaxLinks /\ w.new \in BOOLEAN
    BY DEF Walks
  <2>2. Longer(w, r) \in Walks /\ Longer(w, r).at = w.at /\ Longer(w, r).rest = w.rest \o r
        /\ Longer(w, r).links = w.links /\ Longer(w, r).new = w.new
    BY LongerIs
  <2>3. CASE GoesOn(t, w)
    <3> DEFINE o == Onward(t, w)
    <3>1. o \in Walks /\ o.new = w.new
      BY <2>3, Shrinks
    <3>2. w.rest # <<>>
      BY <2>3 DEF GoesOn
    <3>3. Head(w.rest \o r) = Head(w.rest) /\ Tail(w.rest \o r) = Tail(w.rest) \o r /\ w.rest \o r # <<>>
          /\ Tail(w.rest) \in Paths
      BY <2>1, <3>2, HeadTailOfAppended
    <3>4. Ahead(t, Longer(w, r)) = Ahead(t, w)
      BY <2>2, <3>3 DEF Ahead
    <3>5. GoesOn(t, Longer(w, r))
      BY <2>2, <2>3, <3>3, <3>4 DEF GoesOn
    <3>6. Onward(t, Longer(w, r)) = Longer(o, r)
      <4> DEFINE name == Head(w.rest)
                 link == Ahead(t, w)
                 v == Longer(w, r)
                 u == Onward(t, v)
      <4>1. v.at = w.at /\ v.links = w.links /\ v.new = w.new /\ Head(v.rest) = name
            /\ Tail(v.rest) = Tail(w.rest) \o r /\ Ahead(t, v) = link /\ v \in Walks
        BY <2>2, <3>3, <3>4
      <4>2. Longer(o, r) \in Walks /\ u \in Walks
        BY <2>2, <3>1, <3>5, LongerIs, Shrinks
      <4>3. u.at = o.at /\ u.links = o.links /\ u.new = o.new /\ u.rest = o.rest \o r
        <5> HIDE DEF v, link, name
        <5>1. CASE name = ".."
          <6>1. u.at = Parent(w.at) /\ u.rest = Tail(w.rest) \o r /\ u.links = w.links /\ u.new = w.new
            BY <4>1, <5>1 DEF Onward, Walks
          <6>2. o.at = Parent(w.at) /\ o.rest = Tail(w.rest) /\ o.links = w.links /\ o.new = w.new
            BY <5>1 DEF Onward, Walks, name
          <6> QED
            BY <6>1, <6>2
        <5>2. CASE name # ".." /\ link.kind # "link"
          <6>1. u.at = Append(w.at, name) /\ u.rest = Tail(w.rest) \o r /\ u.links = w.links /\ u.new = w.new
            BY <4>1, <5>2 DEF Onward, Walks
          <6>2. o.at = Append(w.at, name) /\ o.rest = Tail(w.rest) /\ o.links = w.links /\ o.new = w.new
            BY <5>2 DEF Onward, Walks, name, link
          <6> QED
            BY <6>1, <6>2
        <5>3. CASE name # ".." /\ link.kind = "link"
          <6> DEFINE top == IF link.abs THEN <<>> ELSE w.at
                     text == link.parts
          <6>1. u.at = top /\ u.rest = text \o (Tail(w.rest) \o r) /\ u.links = w.links - 1 /\ u.new = w.new
            BY <4>1, <5>3 DEF Onward, Walks
          <6>2. o.at = top /\ o.rest = text \o Tail(w.rest) /\ o.links = w.links - 1 /\ o.new = w.new
            BY <5>3 DEF Onward, Walks, name, link
          <6>3. text \in Seq(STRING) /\ Tail(w.rest) \in Seq(STRING) /\ r \in Seq(STRING)
            BY <3>3, <5>3, NodeKinds DEF Ahead, Nothing, ADir, link, Paths
          <6> HIDE DEF text, top, u, o
          <6>4. (text \o Tail(w.rest)) \o r = text \o (Tail(w.rest) \o r)
            <7> DEFINE rest == Tail(w.rest)
            <7>1. rest \in Seq(STRING)
              BY <6>3
            <7> HIDE DEF rest
            <7>2. (text \o rest) \o r = text \o (rest \o r)
              BY <6>3, <7>1, ConcatAssociative
            <7> QED
              BY <7>2 DEF rest
          <6> QED
            BY <6>1, <6>2, <6>4
        <5> QED
          BY <5>1, <5>2, <5>3
      <4> HIDE DEF u, o
      <4>4. Longer(o, r).at = o.at /\ Longer(o, r).rest = o.rest \o r /\ Longer(o, r).links = o.links
            /\ Longer(o, r).new = o.new
        BY <3>1, LongerIs
      <4>5. \A x, y \in Walks :
              x.at = y.at /\ x.rest = y.rest /\ x.links = y.links /\ x.new = y.new => x = y
        BY DEF Walks
      <4>6. u = Longer(o, r)
        BY <4>2, <4>3, <4>4, <4>5
      <4> QED
        BY <4>6 DEF u, v
    <3>7. Reach(t)[w] = Reach(t)[o] /\ Reach(t)[Longer(w, r)] = Reach(t)[Longer(o, r)]
      BY <2>2, <2>3, <3>5, <3>6, ReachStep
    <3>8. Goal(o)
      BY <1>1, <2>3 DEF S
    <3> HIDE DEF o
    <3>9. Goal(w)
      BY <3>1, <3>7, <3>8
    <3> QED
      BY <3>9 DEF S
  <2>4. CASE ~ GoesOn(t, w)
    <3> SUFFICES ASSUME NEW d \in Reach(t)[w], ~ w.new
                 PROVE  \E l \in 0 .. MaxLinks :
                          Reach(t)[Longer(w, r)] = Reach(t)[[at |-> d, rest |-> r, links |-> l, new |-> FALSE]]
      BY DEF S
    <3>1. Reach(t)[w] = Arrival(t, w)
      BY <2>4, ReachStep
    <3>2. w.rest = <<>> /\ d = w.at
      BY <3>1 DEF Arrival
    <3>3. Longer(w, r) = [at |-> d, rest |-> r, links |-> w.links, new |-> FALSE]
      <4>1. w.rest \o r = r
        BY <3>2, ConcatEmptySeq DEF Paths
      <4> QED
        BY <2>1, <2>2, <3>2, <4>1 DEF Walks
    <3> QED
      BY <2>1, <3>3
  <2> QED
    BY <2>3, <2>4
<1>2. S = Walks
  <2> HIDE DEF S
  <2>1. S \in SUBSET Walks
    BY DEF S
  <2> QED
    BY <1>1, <2>1, WalkInduction
<1> QED
  BY <1>2

-----------------------------------------------------------------------------
(* What the guard computes from a text. *)

NoDots(p) == \A i \in 1 .. Len(p) : p[i] # ".."

\* normalize_lexical, one component at a time.
LexicalDef(parts, n, F) ==
  F = [i \in 0 .. n |-> IF i = 0 THEN <<>>
                        ELSE IF parts[i] = ".." THEN Parent(F[i - 1]) ELSE Append(F[i - 1], parts[i])]

\* The recursion over the components is well-founded.
LEMMA LexicalExists ==
  ASSUME NEW parts \in Paths
  PROVE  \A n \in Nat : \E F : LexicalDef(parts, n, F)
<1> DEFINE N == {n \in Nat : \E F : LexicalDef(parts, n, F)}
<1>1. 0 \in N
  <2>1. LexicalDef(parts, 0, [i \in 0 .. 0 |-> <<>>])
    BY DEF LexicalDef
  <2> QED
    BY <2>1
<1>2. ASSUME NEW n \in Nat, n \in N PROVE n + 1 \in N
  <2>1. PICK F : LexicalDef(parts, n, F)
    BY <1>2
  <2> DEFINE next(G, i) == IF i = 0 THEN <<>>
                           ELSE IF parts[i] = ".." THEN Parent(G[i - 1]) ELSE Append(G[i - 1], parts[i])
             G == [i \in 0 .. n + 1 |-> IF i \in 0 .. n THEN F[i] ELSE next(F, i)]
  <2>2. \A i \in 0 .. n : F[i] = next(F, i)
    BY <2>1 DEF LexicalDef
  <2>3. \A i \in 0 .. n : G[i] = F[i]
    OBVIOUS
  <2>4. G[n + 1] = next(F, n + 1)
    OBVIOUS
  <2>5. ASSUME NEW i \in 0 .. n + 1 PROVE G[i] = next(G, i)
    <3>1. i # 0 => i - 1 \in 0 .. n /\ G[i - 1] = F[i - 1]
      BY <2>3
    <3>2. next(G, i) = next(F, i)
      <4> HIDE DEF G
      <4> QED
        BY <3>1
    <3>3. i \in 0 .. n \/ i = n + 1
      OBVIOUS
    <3> HIDE DEF G, next
    <3> QED
      BY <2>2, <2>3, <2>4, <3>2, <3>3
  <2>6. G = [i \in 0 .. n + 1 |-> G[i]]
    OBVIOUS
  <2>7. LexicalDef(parts, n + 1, G)
    <3> HIDE DEF G
    <3> QED
      BY <2>5, <2>6 DEF LexicalDef
  <2> HIDE DEF G
  <2> QED
    BY <2>7
<1> QED
  <2> HIDE DEF N
  <2>1. \A n \in Nat : n \in N
    BY <1>1, <1>2, NatSet
  <2> QED
    BY <2>1 DEF N

\* What it does at each component.
LEMMA LexicalSteps ==
  ASSUME NEW parts \in Paths
  PROVE  \E F : /\ Lexical(parts) = F[Len(parts)] /\ F[0] = <<>>
                /\ \A i \in 1 .. Len(parts) :
                     F[i] = IF parts[i] = ".." THEN Parent(F[i - 1]) ELSE Append(F[i - 1], parts[i])
<1> DEFINE n == Len(parts)
           Def(F) == LexicalDef(parts, n, F)
           F == CHOOSE G : Def(G)
<1>1. n \in Nat /\ \A i \in 1 .. n : parts[i] \in STRING
  BY DEF Paths
<1>2. Lexical(parts) = F[n]
  BY DEF Lexical, LexicalDef
<1>3. Def(F)
  <2>1. \E G : Def(G)
    BY <1>1, LexicalExists
  <2> HIDE DEF Def
  <2> QED
    BY <2>1
<1> HIDE DEF F
<1>4. F[0] = <<>> /\ \A i \in 1 .. n : F[i] = IF parts[i] = ".." THEN Parent(F[i - 1]) ELSE Append(F[i - 1], parts[i])
  <2>1. \A i \in 0 .. n : F[i] = IF i = 0 THEN <<>>
                                 ELSE IF parts[i] = ".." THEN Parent(F[i - 1]) ELSE Append(F[i - 1], parts[i])
    BY <1>3 DEF LexicalDef
  <2>2. 0 \in 0 .. n /\ \A i \in 1 .. n : i \in 0 .. n /\ i # 0
    BY <1>1
  <2> QED
    BY <2>1, <2>2
<1> QED
  BY <1>2, <1>4

\* What is left when .. is dropped as text has no .. in it.
LEMMA LexicalHasNoDots ==
  ASSUME NEW parts \in Paths
  PROVE  Lexical(parts) \in Paths /\ NoDots(Lexical(parts))
<1> DEFINE n == Len(parts)
<1>1. n \in Nat /\ \A i \in 1 .. n : parts[i] \in STRING
  BY DEF Paths
<1>2. PICK F : /\ Lexical(parts) = F[n] /\ F[0] = <<>>
               /\ \A i \in 1 .. n : F[i] = IF parts[i] = ".." THEN Parent(F[i - 1]) ELSE Append(F[i - 1], parts[i])
  BY LexicalSteps
<1> HIDE DEF n
<1>4. F[0] = <<>> /\ \A i \in 1 .. n : F[i] = IF parts[i] = ".." THEN Parent(F[i - 1]) ELSE Append(F[i - 1], parts[i])
  BY <1>2
<1> DEFINE Fine(p) == p \in Paths /\ NoDots(p)
           I == {i \in Nat : i <= n => Fine(F[i])}
<1>5. 0 \in I
  <2>1. Fine(<<>>)
    BY DEF NoDots, Paths
  <2> HIDE DEF Fine
  <2> QED
    BY <1>4, <2>1
<1>6. ASSUME NEW i \in Nat, i \in I PROVE i + 1 \in I
  <2> SUFFICES ASSUME i + 1 <= n PROVE Fine(F[i + 1])
    OBVIOUS
  <2> DEFINE p == F[i]
             c == parts[i + 1]
  <2>1. Fine(p) /\ c \in STRING /\ F[i + 1] = IF c = ".." THEN Parent(p) ELSE Append(p, c)
    <3>1. i + 1 \in 1 .. n /\ (i + 1) - 1 = i /\ i <= n
      BY <1>1
    <3> QED
      BY <1>1, <1>4, <1>6, <3>1
  <2> HIDE DEF p, c
  <2>2. CASE c = ".."
    <3>1. p = <<>> => Parent(p) = p
      BY DEF Parent
    <3>2. ASSUME p # <<>> PROVE Fine(Parent(p))
      <4>1. Len(p) \in Nat /\ Len(p) >= 1
        BY <2>1, <3>2 DEF Paths
      <4>2. Len(p) - 1 \in 0 .. Len(p) /\ Parent(p) = SubSeq(p, 1, Len(p) - 1)
        BY <3>2, <4>1 DEF Parent, Front
      <4>3. /\ Parent(p) \in Paths /\ Len(Parent(p)) = Len(p) - 1
            /\ \A j \in 1 .. Len(p) - 1 : Parent(p)[j] = p[j]
        <5> DEFINE m == Len(p) - 1
        <5>1. m \in 0 .. Len(p)
          BY <4>2
        <5> HIDE DEF m
        <5>2. /\ SubSeq(p, 1, m) \in Paths /\ Len(SubSeq(p, 1, m)) = m
              /\ \A j \in 1 .. m : SubSeq(p, 1, m)[j] = p[j]
          BY <2>1, <5>1, Firsts
        <5> QED
          BY <4>2, <5>2 DEF m
      <4>4. \A j \in 1 .. Len(p) - 1 : j \in 1 .. Len(p)
        BY <4>1
      <4> QED
        BY <2>1, <4>3, <4>4 DEF NoDots
    <3> QED
      BY <2>1, <2>2, <3>1, <3>2
  <2>3. CASE c # ".."
    <3>1. Append(p, c) \in Paths /\ Len(Append(p, c)) = Len(p) + 1 /\ Append(p, c)[Len(p) + 1] = c
          /\ \A j \in 1 .. Len(p) : Append(p, c)[j] = p[j]
      BY <2>1, FirstOfAppend
    <3>2. Len(p) \in Nat /\ \A j \in 1 .. Len(p) + 1 : j \in 1 .. Len(p) \/ j = Len(p) + 1
      BY <2>1 DEF Paths
    <3>3. NoDots(Append(p, c))
      BY <2>1, <2>3, <3>1, <3>2 DEF NoDots
    <3> QED
      BY <2>1, <2>3, <3>1, <3>3
  <2> QED
    BY <2>2, <2>3
<1>7. \A i \in Nat : i \in I
  <2> HIDE DEF I
  <2> QED
    BY <1>5, <1>6, NatSet
<1> QED
  BY <1>1, <1>2, <1>7

\* The first components of a path without .. and one more.
LEMMA FrontIs ==
  ASSUME NEW p \in Paths, NEW k \in 1 .. Len(p)
  PROVE  LET m == SubSeq(p, 1, k)
         IN /\ m \in Paths /\ m # <<>> /\ Front(m) = SubSeq(p, 1, k - 1) /\ Front(m) \in Paths
            /\ Last(m) = p[k] /\ m = Front(m) \o <<p[k]>> /\ <<p[k]>> \in Paths
<1> DEFINE m == SubSeq(p, 1, k)
<1>1. Len(p) \in Nat /\ k \in 0 .. Len(p) /\ k \in 1 .. k /\ k - 1 \in 0 .. k /\ k - 1 \in 0 .. Len(p)
      /\ k \in Nat /\ p[k] \in STRING /\ p \in Seq(STRING)
  BY DEF Paths
<1>2. m \in Paths /\ Len(m) = k /\ m[k] = p[k]
  BY <1>1, Firsts
<1>3. SubSeq(m, 1, k - 1) = SubSeq(p, 1, k - 1)
  <2> DEFINE l == k - 1
  <2>1. l \in 0 .. k
    BY <1>1
  <2> HIDE DEF l
  <2>2. SubSeq(SubSeq(p, 1, k), 1, l) = SubSeq(p, 1, l)
    BY <1>1, <2>1, FirstsOfFirsts
  <2> QED
    BY <2>2 DEF l
<1>4. SubSeq(p, 1, k - 1) \in Paths
  BY <1>1, Firsts
<1>5. SubSeq(p, 1, k) = SubSeq(p, 1, k - 1) \o <<p[k]>>
  <2> DEFINE one == 1
  <2>1. one \in 1 .. Len(p) /\ k \in one .. Len(p)
    BY <1>1
  <2> HIDE DEF one
  <2>2. SubSeq(p, one, k) = SubSeq(p, one, k - 1) \o <<p[k]>>
    BY <1>1, <2>1, SubSeqRecursiveSecond
  <2> QED
    BY <2>2 DEF one
<1>6. m # <<>>
  <2> HIDE DEF m
  <2> QED
    BY <1>1, <1>2
<1>7. <<p[k]>> \in Paths
  BY <1>1 DEF Paths
<1>8. Front(m) = SubSeq(p, 1, k - 1) /\ Last(m) = p[k]
  <2> HIDE DEF m
  <2> QED
    BY <1>2, <1>3 DEF Front, Last, m
<1> QED
  BY <1>2, <1>4, <1>5, <1>6, <1>7, <1>8

\* A path without .. stays as it is.
LEMMA LexicalIsSame ==
  ASSUME NEW p \in Paths, NoDots(p)
  PROVE  Lexical(p) = p
<1> DEFINE n == Len(p)
<1>1. n \in Nat /\ n \in 0 .. n
  BY DEF Paths
<1>2. PICK F : /\ Lexical(p) = F[n] /\ F[0] = <<>>
               /\ \A i \in 1 .. n : F[i] = IF p[i] = ".." THEN Parent(F[i - 1]) ELSE Append(F[i - 1], p[i])
  BY LexicalSteps
<1> DEFINE I == {i \in Nat : i <= n => F[i] = SubSeq(p, 1, i)}
<1>3. 0 \in I
  <2>1. SubSeq(p, 1, 0) = <<>>
    BY SubSeqEmpty
  <2> QED
    BY <1>2, <2>1
<1>4. ASSUME NEW i \in Nat, i \in I PROVE i + 1 \in I
  <2> SUFFICES ASSUME i + 1 <= n PROVE F[i + 1] = SubSeq(p, 1, i + 1)
    OBVIOUS
  <2> DEFINE k == i + 1
             m == SubSeq(p, 1, k)
  <2>1. k \in 1 .. n /\ k - 1 = i /\ i <= n
    BY <1>1
  <2>2. F[k] = Append(F[i], p[k]) /\ F[i] = SubSeq(p, 1, i)
    BY <1>2, <1>4, <2>1 DEF NoDots
  <2> HIDE DEF k
  <2>3. m = Front(m) \o <<p[k]>> /\ Front(m) = SubSeq(p, 1, k - 1) /\ Front(m) \in Paths
    BY <2>1, FrontIs
  <2>5. p[k] \in STRING
    BY <2>1 DEF Paths
  <2>4. Append(Front(m), p[k]) = Front(m) \o <<p[k]>>
    BY <2>3, <2>5, AppendIsConcat DEF Paths
  <2> QED
    BY <2>1, <2>2, <2>3, <2>4 DEF k
<1>5. n \in I
  <2> HIDE DEF I
  <2> QED
    BY <1>1, <1>3, <1>4, NatSet
<1>6. SubSeq(p, 1, n) = p
  BY SubSeqFull DEF Paths
<1> QED
  BY <1>1, <1>2, <1>5, <1>6

\* The prefix is as long as there are entries, and the entry behind it is missing.
LEMMA PrefixIs ==
  ASSUME NEW p \in Paths
  PROVE  \E k \in 0 .. Len(p) :
           /\ Prefix(p) = SubSeq(p, 1, k)
           /\ \A j \in 1 .. k : Metadata(SubSeq(p, 1, j)) # {}
           /\ k = Len(p) \/ Metadata(SubSeq(p, 1, k + 1)) = {}
<1> DEFINE Longest(k) == /\ \A j \in 1 .. k : Metadata(SubSeq(p, 1, j)) # {}
                         /\ k = Len(p) \/ Metadata(SubSeq(p, 1, k + 1)) = {}
           T == {k \in 0 .. Len(p) : k = Len(p) \/ Metadata(SubSeq(p, 1, k + 1)) = {}}
<1>1. Len(p) \in Nat /\ T \subseteq Nat /\ Len(p) \in T
  BY DEF Paths
<1>2. PICK k \in T : \A m \in T : <<m, k>> \notin OpToRel(<, Nat)
  <2> HIDE DEF T
  <2> QED
    BY <1>1, WFMin, NatLessThanWellFounded
<1>3. \A m \in T : ~ (m < k)
  BY <1>1, <1>2 DEF OpToRel
<1>4. ASSUME NEW j \in 1 .. k PROVE Metadata(SubSeq(p, 1, j)) # {}
  <2>1. j - 1 \in 0 .. Len(p) /\ j - 1 < k /\ (j - 1) + 1 = j
    BY <1>1
  <2>2. j - 1 \notin T
    BY <1>3, <2>1
  <2> QED
    BY <2>1, <2>2
<1>5. k \in 0 .. Len(p) /\ Longest(k)
  BY <1>4
<1> HIDE DEF Longest
<1>6. PICK n \in 0 .. Len(p) : n = (CHOOSE i \in 0 .. Len(p) : Longest(i)) /\ Longest(n)
  BY <1>5
<1>7. Prefix(p) = SubSeq(p, 1, n)
  BY <1>6 DEF Prefix, Longest
<1> QED
  BY <1>6, <1>7 DEF Longest

\* A directory entry that is no link is its own canonical path.
LEMMA EntryIsFound ==
  ASSUME fs \in Tree, NEW p \in Paths, NEW c \in STRING, c # "..", NEW d \in Canon(p),
         Node(fs, d).kind = "dir", Node(fs, Append(d, c)).kind \in {"dir", "file"}
  PROVE  Canon(p \o <<c>>) = {Append(d, c)}
<1> DEFINE w == FromTop(p, FALSE)
           r == <<c>>
           x(l) == [at |-> d, rest |-> r, links |-> l, new |-> FALSE]
           y(l) == [at |-> Append(d, c), rest |-> <<>>, links |-> l, new |-> FALSE]
<1>1. d \in Paths /\ Append(d, c) \in Paths
  BY CanonIsReal DEF Real, Paths
<1>2. r \in Paths /\ r # <<>> /\ Head(r) = c /\ Tail(r) = <<>> /\ <<>> \in Paths
  BY DEF Paths
<1>3. w \in Walks /\ ~ w.new /\ d \in Reach(fs)[w]
  BY DEF FromTop, Walks, Paths, Canon
<1> DEFINE v == FromTop(p \o r, FALSE)
<1>4. Longer(w, r) = v
  <2>1. p \o r \in Paths
    BY <1>2 DEF Paths
  <2>2. v \in Walks /\ v.at = w.at /\ v.rest = w.rest \o r /\ v.links = w.links /\ v.new = w.new
    BY <1>2, <2>1 DEF FromTop, Walks
  <2>3. /\ Longer(w, r) \in Walks
        /\ Longer(w, r).at = w.at /\ Longer(w, r).rest = w.rest \o r
        /\ Longer(w, r).links = w.links /\ Longer(w, r).new = w.new
    BY <1>2, <1>3, LongerIs
  <2>4. \A a, b \in Walks :
          a.at = b.at /\ a.rest = b.rest /\ a.links = b.links /\ a.new = b.new => a = b
    BY DEF Walks
  <2> HIDE DEF v, w, r
  <2> QED
    BY <2>2, <2>3, <2>4
<1> HIDE DEF w, r
<1>5. PICK l \in 0 .. MaxLinks : Reach(fs)[Longer(w, r)] = Reach(fs)[x(l)]
  BY <1>2, <1>3, WalksOn
<1>6. x(l) \in Walks /\ GoesOn(fs, x(l)) /\ y(l) \in Walks
  BY <1>1, <1>2 DEF Walks, GoesOn, Ahead
<1>7. Onward(fs, x(l)) = y(l)
  <2>1. Onward(fs, x(l)) = [x(l) EXCEPT !.at = Append(@, c), !.rest = Tail(@)]
    BY <1>2 DEF Onward, Ahead
  <2>2. Onward(fs, x(l)) \in Walks
    BY <1>6, Shrinks
  <2>3. Onward(fs, x(l)).at = Append(d, c) /\ Onward(fs, x(l)).rest = <<>> /\ Onward(fs, x(l)).links = l
        /\ Onward(fs, x(l)).new = FALSE
    BY <1>2, <1>6, <2>1 DEF Walks
  <2> QED
    BY <2>2, <2>3 DEF Walks
<1>8. ~ GoesOn(fs, y(l)) /\ Arrival(fs, y(l)) = {Append(d, c)}
  BY DEF GoesOn, Arrival
<1>9. Reach(fs)[x(l)] = Reach(fs)[y(l)] /\ Reach(fs)[y(l)] = Arrival(fs, y(l))
  <2> HIDE DEF x, y
  <2> QED
    BY <1>6, <1>7, <1>8, ReachStep
<1> QED
  BY <1>4, <1>5, <1>8, <1>9 DEF Canon, r

\* The entries of a path that are there end in a link when they lead nowhere.
LEMMA NowhereIsLink ==
  ASSUME fs \in Tree, NEW p \in Paths, NoDots(p), Canon(Prefix(p)) = {}
  PROVE  /\ Prefix(p) \in Paths /\ Prefix(p) # <<>>
         /\ \E n : /\ Metadata(Prefix(p)) = {n} /\ n.kind = "link"
                   /\ n.abs \in BOOLEAN /\ n.parts \in Paths
<1>1. PICK k \in 0 .. Len(p) : /\ Prefix(p) = SubSeq(p, 1, k)
                               /\ \A j \in 1 .. k : Metadata(SubSeq(p, 1, j)) # {}
  BY PrefixIs
<1>2. Len(p) \in Nat /\ k \in Nat /\ k <= Len(p)
  BY DEF Paths
<1>3. k # 0
  <2>1. ASSUME k = 0 PROVE FALSE
    <3>1. Prefix(p) = <<>>
      BY <1>1, <2>1, SubSeqEmpty
    <3>2. Real(fs, <<>>)
      BY DEF Real, Paths
    <3>3. Canon(<<>>) = {<<>>}
      BY <3>2, RealIsFixed DEF Canon
    <3> QED
      BY <3>1, <3>3
  <2> QED
    BY <2>1
<1>4. k \in 1 .. Len(p) /\ k \in 1 .. k
  BY <1>2, <1>3
<1> DEFINE m == SubSeq(p, 1, k)
           c == p[k]
<1>5. m \in Paths /\ m # <<>> /\ Front(m) \in Paths /\ Last(m) = c /\ m = Front(m) \o <<c>> /\ Metadata(m) # {}
  BY <1>1, <1>4, FrontIs
<1>6. c \in STRING /\ c # ".."
  BY <1>4 DEF NoDots, Paths
<1>7. m = Prefix(p)
  BY <1>1
<1> HIDE DEF m, c
<1>8. PICK d \in Canon(Front(m)) : /\ Node(fs, d).kind = "dir" /\ Node(fs, Append(d, c)) # Nothing
  BY <1>5 DEF Metadata
<1>9. Canon(Front(m)) = {d}
  BY <1>5, CanonIsReal
<1> DEFINE n == Node(fs, Append(d, c))
<1>10. Metadata(m) = {n}
  BY <1>5, <1>8, <1>9 DEF Metadata
<1>11. n.kind \notin {"dir", "file"}
  <2>1. ASSUME n.kind \in {"dir", "file"} PROVE FALSE
    <3>1. Canon(Front(m) \o <<c>>) = {Append(d, c)}
      BY <1>5, <1>6, <1>8, <2>1, EntryIsFound
    <3>2. Canon(m) = {Append(d, c)}
      BY <1>5, <3>1
    <3> QED
      BY <1>7, <3>2
  <2> QED
    BY <2>1
<1>12. n.kind = "link" /\ n.abs \in BOOLEAN /\ n.parts \in Paths
  BY <1>8, <1>11, NodeKinds DEF ADir
<1> QED
  BY <1>5, <1>7, <1>10, <1>12

\* The prefix is determined by that.
LEMMA PrefixUnique ==
  ASSUME NEW p \in Paths, NEW k \in 0 .. Len(p),
         \A j \in 1 .. k : Metadata(SubSeq(p, 1, j)) # {},
         k = Len(p) \/ Metadata(SubSeq(p, 1, k + 1)) = {}
  PROVE  Prefix(p) = SubSeq(p, 1, k)
<1>1. PICK n \in 0 .. Len(p) : /\ Prefix(p) = SubSeq(p, 1, n)
                               /\ \A j \in 1 .. n : Metadata(SubSeq(p, 1, j)) # {}
                               /\ n = Len(p) \/ Metadata(SubSeq(p, 1, n + 1)) = {}
  BY PrefixIs
<1>2. Len(p) \in Nat /\ k \in Nat /\ n \in Nat /\ k <= Len(p) /\ n <= Len(p)
  BY DEF Paths
<1>3. ~ (k < n)
  <2> SUFFICES ASSUME k < n PROVE FALSE
    OBVIOUS
  <2>1. k + 1 \in 1 .. n /\ k # Len(p)
    BY <1>2
  <2> QED
    BY <1>1, <2>1
<1>4. ~ (n < k)
  <2> SUFFICES ASSUME n < k PROVE FALSE
    OBVIOUS
  <2>1. n + 1 \in 1 .. k /\ n # Len(p)
    BY <1>2
  <2> QED
    BY <1>1, <2>1
<1>5. n = k
  BY <1>2, <1>3, <1>4
<1> QED
  BY <1>1, <1>5

-----------------------------------------------------------------------------
(* The walk of the guard. *)

\* The two parts of a path that was put together.
LEMMA Parts ==
  ASSUME NEW q \in Paths, NEW r \in Paths
  PROVE  LET p == q \o r
         IN /\ p \in Paths /\ Len(q) \in 0 .. Len(p) /\ Len(p) = Len(q) + Len(r)
            /\ SubSeq(p, 1, Len(q)) = q /\ SubSeq(p, Len(q) + 1, Len(p)) = r
<1> DEFINE p == q \o r
<1>1. /\ p \in Paths /\ Len(p) = Len(q) + Len(r)
      /\ \A i \in 1 .. Len(p) : p[i] = IF i <= Len(q) THEN q[i] ELSE r[i - Len(q)]
  BY ConcatProperties DEF Paths
<1>2. Len(q) \in Nat /\ Len(r) \in Nat
  BY DEF Paths
<1> HIDE DEF p
<1>3. Len(q) \in 0 .. Len(p) /\ Len(q) \in 0 .. Len(q)
  BY <1>1, <1>2
<1>4. SubSeq(p, 1, Len(q)) = q
  <2>1. \A i \in 1 .. Len(q) : q[i] = p[i]
    BY <1>1, <1>2
  <2>2. SubSeq(q, 1, Len(q)) = SubSeq(p, 1, Len(q))
    BY <1>1, <1>3, <2>1, SameFirsts
  <2> QED
    BY <2>2, SubSeqFull DEF Paths
<1>5. SubSeq(p, Len(q) + 1, Len(p)) = r
  <2> DEFINE m == Len(q) + 1
             s == SubSeq(p, m, Len(p))
  <2>1. m \in Int /\ Len(p) \in Int /\ \A i \in m .. Len(p) : p[i] \in STRING
    BY <1>1, <1>2 DEF Paths
  <2> HIDE DEF m
  <2>2. /\ s \in Seq(STRING)
        /\ Len(s) = IF m <= Len(p) THEN Len(p) - m + 1 ELSE 0
        /\ \A i \in 1 .. Len(p) - m + 1 : s[i] = p[m + i - 1]
    BY <2>1, SubSeqProperties
  <2> HIDE DEF s
  <2>3. Len(s) = Len(r)
    BY <1>1, <1>2, <2>2 DEF m
  <2>4. ASSUME NEW i \in 1 .. Len(r) PROVE s[i] = r[i]
    <3>1. i \in 1 .. Len(p) - m + 1 /\ m + i - 1 = Len(q) + i /\ Len(q) + i \in 1 .. Len(p)
      BY <1>1, <1>2 DEF m
    <3>2. ~ (Len(q) + i <= Len(q)) /\ (Len(q) + i) - Len(q) = i
      BY <1>2
    <3>3. s[i] = p[Len(q) + i] /\ p[Len(q) + i] = r[(Len(q) + i) - Len(q)]
      BY <1>1, <2>2, <3>1, <3>2
    <3> QED
      BY <3>2, <3>3
  <2>5. s = r
    BY <2>2, <2>3, <2>4, SeqEqual DEF Paths
  <2> QED
    BY <2>5 DEF m, s
<1> QED
  BY <1>1, <1>3, <1>4, <1>5 DEF p

\* What follows the first components, and the first component of that.
LEMMA Behind ==
  ASSUME NEW p \in Paths, NEW k \in 0 .. Len(p), k # Len(p)
  PROVE  LET r == SubSeq(p, k + 1, Len(p))
         IN /\ r \in Paths /\ r # <<>> /\ Head(r) = p[k + 1]
            /\ Len(r) = 1 => r = <<p[k + 1]>>
<1> DEFINE m == k + 1
           r == SubSeq(p, m, Len(p))
<1>1. Len(p) \in Nat /\ m \in 1 .. Len(p) /\ Len(p) \in m .. Len(p) /\ \A i \in m .. Len(p) : p[i] \in STRING
  BY DEF Paths
<1> HIDE DEF m
<1>2. r \in Seq(STRING) /\ Len(r) = Len(p) - m + 1
  BY <1>1, SubSeqProperties
<1>3. Head(r) = p[m]
  BY <1>1, HeadTailOfSubSeq DEF Paths
<1>4. r # <<>>
  <2>1. Len(r) > 0
    BY <1>1, <1>2
  <2> HIDE DEF r
  <2> QED
    BY <2>1
<1> HIDE DEF r
<1>5. ASSUME Len(r) = 1 PROVE r = <<p[m]>>
  <2>1. r[1] = p[m]
    BY <1>3, <1>4
  <2>2. <<p[m]>> \in Seq(STRING) /\ Len(<<p[m]>>) = 1 /\ <<p[m]>>[1] = p[m]
    BY <1>1
  <2>3. \A i \in 1 .. Len(r) : r[i] = <<p[m]>>[i]
    BY <1>5, <2>1, <2>2
  <2> HIDE DEF m
  <2> QED
    BY <1>2, <1>5, <2>2, <2>3, SeqEqual
<1> QED
  BY <1>2, <1>3, <1>4, <1>5 DEF m, r, Paths

\* The first missing component of a path, and the directory before it.
LEMMA FirstMissing ==
  ASSUME fs \in Tree, NEW p \in Paths, NoDots(p), Canon(p) = {}, NEW d \in Canon(Prefix(p))
  PROVE  LET c == Head(Rest(p))
         IN /\ Rest(p) \in Paths /\ Rest(p) # <<>> /\ NoDots(Rest(p))
            /\ Len(Rest(p)) = 1 => Rest(p) = <<c>>
            /\ c \in STRING /\ c # ".."
            /\ Real(fs, d) /\ d \in Paths
            /\ Node(fs, d).kind = "dir" => Node(fs, Append(d, c)) = Nothing
<1>1. PICK k \in 0 .. Len(p) : Prefix(p) = SubSeq(p, 1, k) /\ (k = Len(p) \/ Metadata(SubSeq(p, 1, k + 1)) = {})
  BY PrefixIs
<1>2. Len(p) \in Nat /\ k \in Nat /\ k <= Len(p)
  BY DEF Paths
<1>3. k # Len(p)
  BY <1>1, SubSeqFull DEF Paths
<1>4. Prefix(p) \in Paths /\ Len(Prefix(p)) = k
  BY <1>1, Firsts
<1> DEFINE c == p[k + 1]
           r == SubSeq(p, k + 1, Len(p))
<1>5. c \in STRING /\ c # ".."
  <2>1. k + 1 \in 1 .. Len(p)
    BY <1>2, <1>3
  <2> QED
    BY <2>1 DEF NoDots, Paths
<1>6. Rest(p) = r
  BY <1>4 DEF Rest
<1>7. r \in Paths /\ r # <<>> /\ Head(r) = c /\ (Len(r) = 1 => r = <<c>>)
  BY <1>3, Behind
<1>8. Real(fs, d) /\ d \in Paths
  BY <1>4, CanonIsReal DEF Real
<1>9. Node(fs, d).kind = "dir" => Node(fs, Append(d, c)) = Nothing
  <2> DEFINE m == SubSeq(p, 1, k + 1)
  <2>1. k + 1 \in 0 .. Len(p) /\ k + 1 \in 1 .. k + 1 /\ k \in 0 .. k + 1 /\ (k + 1) - 1 = k
    BY <1>2, <1>3
  <2>2. m \in Paths /\ Len(m) = k + 1 /\ m[k + 1] = c
    BY <2>1, Firsts
  <2>3. SubSeq(m, 1, k) = SubSeq(p, 1, k)
    BY <2>1, FirstsOfFirsts
  <2> HIDE DEF m
  <2>4. m # <<>> /\ Front(m) = Prefix(p) /\ Last(m) = c
    BY <1>1, <1>2, <2>1, <2>2, <2>3 DEF Front, Last
  <2>5. Metadata(m) = {}
    BY <1>1, <1>3 DEF m
  <2> QED
    BY <2>4, <2>5 DEF Metadata
<1>10. NoDots(r)
  <2> DEFINE l == k + 1
  <2>1. l \in Int /\ Len(p) \in Int /\ \A i \in l .. Len(p) : p[i] \in STRING
    BY <1>2 DEF Paths
  <2> HIDE DEF l
  <2>2. /\ Len(SubSeq(p, l, Len(p))) = IF l <= Len(p) THEN Len(p) - l + 1 ELSE 0
        /\ \A i \in 1 .. Len(p) - l + 1 : SubSeq(p, l, Len(p))[i] = p[l + i - 1]
    BY <2>1, SubSeqProperties
  <2>3. ASSUME NEW i \in 1 .. Len(SubSeq(p, l, Len(p))) PROVE SubSeq(p, l, Len(p))[i] # ".."
    <3>1. i \in 1 .. Len(p) - l + 1 /\ l + i - 1 \in 1 .. Len(p)
      BY <1>2, <2>1, <2>2 DEF l
    <3> QED
      BY <2>2, <3>1 DEF NoDots
  <2> QED
    BY <2>3 DEF NoDots, l
<1> HIDE DEF r, c
<1> QED
  BY <1>5, <1>6, <1>7, <1>8, <1>9, <1>10

\* The walk along a path that ends there.
LEMMA MissingStops ==
  ASSUME fs \in Tree, NEW p \in Paths, NoDots(p), Canon(p) = {}, NEW d \in Canon(Prefix(p)),
         NEW new \in BOOLEAN
  PROVE  LET q == d \o Rest(p)
         IN /\ q \in Paths
            /\ Reach(fs)[FromTop(q, new)] \subseteq {q}
            /\ ~ new => Reach(fs)[FromTop(q, new)] = {}
<1> DEFINE r == Rest(p)
           c == Head(r)
           q == d \o r
           w == [at |-> d, rest |-> r, links |-> MaxLinks, new |-> new]
<1>1. /\ r \in Paths /\ r # <<>> /\ (Len(r) = 1 => r = <<c>>) /\ c \in STRING /\ c # ".."
      /\ Real(fs, d) /\ d \in Paths
      /\ Node(fs, d).kind = "dir" => Node(fs, Append(d, c)) = Nothing
  BY FirstMissing
<1> HIDE DEF r
<1>2. q \in Paths /\ Len(d) \in 0 .. Len(q) /\ SubSeq(q, 1, Len(d)) = d /\ SubSeq(q, Len(d) + 1, Len(q)) = r
  BY <1>1, Parts
<1> HIDE DEF q
<1>3. Reach(fs)[FromTop(q, new)] = Reach(fs)[w]
  <2> DEFINE n == Len(d)
  <2>1. n \in 0 .. Len(q) /\ Real(fs, SubSeq(q, 1, n))
    BY <1>1, <1>2
  <2> HIDE DEF n
  <2>2. Reach(fs)[FromTop(q, new)] =
          Reach(fs)[[at |-> SubSeq(q, 1, n), rest |-> SubSeq(q, n + 1, Len(q)), links |-> MaxLinks, new |-> new]]
    BY <1>2, <2>1, AlongReal
  <2> QED
    BY <1>2, <2>2 DEF n
<1>4. w \in Walks
  BY <1>1 DEF Walks
<1>5. ~ GoesOn(fs, w)
  BY <1>1 DEF GoesOn, Ahead, Nothing
<1>6. Reach(fs)[w] = Arrival(fs, w)
  <2> HIDE DEF w
  <2> QED
    BY <1>4, <1>5, ReachStep
<1>7. Arrival(fs, w) \subseteq {q} /\ (~ new => Arrival(fs, w) = {})
  <2>1. Append(d, c) = d \o <<c>>
    BY <1>1, AppendIsConcat DEF Paths
  <2> QED
    BY <1>1, <2>1 DEF Arrival, q
<1> QED
  BY <1>2, <1>3, <1>6, <1>7 DEF q, r

\* A path whose first missing component has a directory before it lands where
\* it says, or nowhere.
LEMMA MissingLands ==
  ASSUME fs \in Tree, NEW p \in Paths, NoDots(p), Canon(p) = {}, NEW d \in Canon(Prefix(p))
  PROVE  /\ d \o Rest(p) \in Paths
         /\ Landing(d \o Rest(p)) \subseteq {d \o Rest(p)}
         /\ Canon(d \o Rest(p)) = {}
<1>1. TRUE \in BOOLEAN /\ FALSE \in BOOLEAN
  OBVIOUS
<1>2. d \o Rest(p) \in Paths /\ Landing(d \o Rest(p)) \subseteq {d \o Rest(p)}
  BY <1>1, MissingStops DEF Landing
<1>3. Canon(d \o Rest(p)) = {}
  BY <1>1, MissingStops DEF Canon
<1> QED
  BY <1>2, <1>3

\* Every component of a real path is there.
LEMMA RealIsThere ==
  ASSUME fs \in Tree, NEW d, Real(fs, d), NEW j \in 1 .. Len(d)
  PROVE  Metadata(SubSeq(d, 1, j)) # {}
<1> DEFINE m == SubSeq(d, 1, j)
           f == SubSeq(d, 1, j - 1)
<1>1. d \in Paths /\ d[j] \in STRING
  BY DEF Real, Paths
<1>2. m # <<>> /\ Front(m) = f /\ f \in Paths /\ Last(m) = d[j] /\ m = f \o <<d[j]>>
  <2>1. /\ m # <<>> /\ Front(m) = f /\ Front(m) \in Paths /\ Last(m) = d[j] /\ m = Front(m) \o <<d[j]>>
    BY <1>1, FrontIs
  <2> QED
    BY <2>1
<1>3. Real(fs, f) /\ Node(fs, f).kind = "dir"
  <2> DEFINE l == j - 1
  <2>1. l \in 0 .. Len(d) /\ l < Len(d)
    BY <1>1 DEF Paths
  <2> HIDE DEF l
  <2>2. Real(fs, SubSeq(d, 1, l)) /\ Node(fs, SubSeq(d, 1, l)).kind = "dir"
    BY <2>1, RealFirsts
  <2> QED
    BY <2>2 DEF l
<1>4. Node(fs, m) # Nothing
  BY DEF Real, Nothing
<1> HIDE DEF m, f
<1>5. Canon(f) = {f}
  BY <1>3, RealIsFixed DEF Canon
<1>6. Append(f, d[j]) = m
  BY <1>1, <1>2, AppendIsConcat DEF Paths
<1>7. Node(fs, m) \in Metadata(m)
  BY <1>2, <1>3, <1>4, <1>5, <1>6 DEF Metadata
<1> QED
  BY <1>7 DEF m

\* Such a path has the same missing components.
LEMMA MissingAgain ==
  ASSUME fs \in Tree, NEW p \in Paths, NoDots(p), Canon(p) = {}, NEW d \in Canon(Prefix(p))
  PROVE  LET q == d \o Rest(p)
         IN Prefix(q) = d /\ Rest(q) = Rest(p) /\ Canon(d) = {d} /\ NoDots(q)
<1> DEFINE r == Rest(p)
           c == Head(r)
           q == d \o r
           k == Len(d)
<1>1. /\ r \in Paths /\ r # <<>> /\ c \in STRING /\ c # ".." /\ NoDots(r)
      /\ Real(fs, d) /\ d \in Paths
      /\ Node(fs, d).kind = "dir" => Node(fs, Append(d, c)) = Nothing
  BY FirstMissing
<1>2. Canon(d) = {d}
  BY <1>1, RealIsFixed DEF Canon
<1> HIDE DEF r
<1>3. /\ q \in Paths /\ k \in 0 .. Len(q) /\ Len(q) = k + Len(r)
      /\ SubSeq(q, 1, k) = d /\ SubSeq(q, k + 1, Len(q)) = r
  BY <1>1, Parts
<1>4. Len(r) \in Nat /\ Len(r) > 0 /\ k \in Nat /\ k # Len(q) /\ k + 1 \in 1 .. Len(q)
  <2>1. Len(r) \in Nat /\ Len(r) > 0 /\ k \in Nat
    BY <1>1 DEF Paths
  <2> HIDE DEF q, k
  <2> QED
    BY <1>3, <2>1
<1>5. NoDots(q)
  <2>1. /\ Len(q) = Len(d) + Len(r)
        /\ \A i \in 1 .. Len(d) + Len(r) : q[i] = IF i <= Len(d) THEN d[i] ELSE r[i - Len(d)]
    BY <1>1, ConcatProperties DEF Paths
  <2> HIDE DEF q
  <2>2. ASSUME NEW i \in 1 .. Len(q) PROVE q[i] # ".."
    <3>1. CASE i <= Len(d)
      BY <1>1, <1>4, <2>1, <3>1 DEF Real
    <3>2. CASE ~ (i <= Len(d))
      <4>1. i - Len(d) \in 1 .. Len(r)
        BY <1>4, <2>1, <3>2
      <4> QED
        BY <1>1, <2>1, <3>2, <4>1 DEF NoDots
    <3> QED
      BY <3>1, <3>2
  <2> QED
    BY <2>2 DEF NoDots
<1> HIDE DEF q, k
<1>6. ASSUME NEW j \in 1 .. k PROVE Metadata(SubSeq(q, 1, j)) # {}
  <2>1. j \in 0 .. k
    OBVIOUS
  <2>2. SubSeq(SubSeq(q, 1, k), 1, j) = SubSeq(q, 1, j)
    BY <1>3, <2>1, FirstsOfFirsts
  <2>3. Metadata(SubSeq(d, 1, j)) # {}
    BY <1>1, RealIsThere DEF k
  <2> QED
    BY <1>3, <2>2, <2>3
<1>7. Metadata(SubSeq(q, 1, k + 1)) = {}
  <2> DEFINE l == k + 1
             m == SubSeq(q, 1, l)
  <2>1. q[l] = c
    BY <1>3, <1>4, Behind
  <2>2. l \in 1 .. Len(q) /\ l - 1 = k
    BY <1>4
  <2> HIDE DEF l
  <2>3. m # <<>> /\ Front(m) = SubSeq(q, 1, l - 1) /\ Last(m) = q[l]
    BY <1>3, <2>2, FrontIs
  <2>4. m # <<>> /\ Front(m) = d /\ Last(m) = c
    BY <1>3, <2>1, <2>2, <2>3
  <2> HIDE DEF m
  <2>5. Metadata(m) = {}
    BY <1>1, <1>2, <2>4 DEF Metadata
  <2> QED
    BY <2>5 DEF l, m
<1>8. Prefix(q) = d
  BY <1>3, <1>6, <1>7, PrefixUnique
<1>9. Rest(q) = r
  BY <1>3, <1>8 DEF Rest, k
<1> QED
  BY <1>2, <1>5, <1>8, <1>9 DEF q, r

\* What walk_guarded accepts lands in the roots, unless the text ends in a link
\* to nowhere.
LEMMA WalkStaysInside ==
  ASSUME fs \in Tree, NEW start \in Paths, NEW R,
         Walk(start, R).kind = "ok", Canon(Prefix(Lexical(start))) # {}
  PROVE  \A q \in Landing(Walk(start, R).path) : Inside(q, R)
<1> DEFINE p == Lexical(start)
<1>1. p \in Paths /\ NoDots(p)
  BY LexicalHasNoDots
<1> HIDE DEF p
<1>2. CASE Canon(p) # {}
  <2> DEFINE q == CHOOSE x \in Canon(p) : TRUE
  <2>1. q \in Canon(p) /\ Landing(q) = {q}
    BY <1>1, <1>2, CanonIsReal
  <2>2. Walk(start, R) = IF Inside(q, R) THEN Ok(q) ELSE Deny(IF Inside(p, R) THEN "vault" ELSE "escape")
    BY <1>2 DEF Walk, Existing, p
  <2> HIDE DEF q
  <2>3. Inside(q, R) /\ Walk(start, R).path = q
    BY <2>2 DEF Ok, Deny
  <2> QED
    BY <2>1, <2>3
<1>3. CASE Canon(p) = {}
  <2> DEFINE d == CHOOSE x \in Canon(Prefix(p)) : TRUE
             q == d \o Rest(p)
  <2>1. Canon(Prefix(p)) # {}
    BY DEF p
  <2>2. d \in Canon(Prefix(p))
    BY <2>1
  <2>3. Landing(q) \subseteq {q}
    BY <1>1, <1>3, <2>2, MissingLands
  <2>4. Walk(start, R) = IF Inside(q, R) THEN Ok(q)
                         ELSE Deny(IF HasLink(Prefix(p)) /\ Inside(Prefix(p), R) THEN "vault" ELSE "escape")
    BY <1>3, <2>1 DEF Walk, Missing, p
  <2> HIDE DEF q
  <2>5. Inside(q, R) /\ Walk(start, R).path = q
    BY <2>4 DEF Ok, Deny
  <2> QED
    BY <2>3, <2>5
<1> QED
  BY <1>2, <1>3
\* What walk_guarded accepts it accepts again, as it is: the answer is the path
\* the kernel resolves, without links and .., so a second check of it is no
\* wider and no narrower than the first.  (walk_guarded)
THEOREM AcceptedAgain ==
  ASSUME fs \in Tree, NEW start \in Paths, NEW R,
         Walk(start, R).kind = "ok", Canon(Prefix(Lexical(start))) # {}
  PROVE  Walk(Walk(start, R).path, R) = Walk(start, R)
<1> DEFINE p == Lexical(start)
<1>1. p \in Paths /\ NoDots(p)
  BY LexicalHasNoDots
<1> HIDE DEF p
<1>2. CASE Canon(p) # {}
  <2> DEFINE q == CHOOSE x \in Canon(p) : TRUE
  <2>1. q \in Canon(p) /\ Real(fs, q) /\ Canon(q) = {q}
    BY <1>1, <1>2, CanonIsReal
  <2>2. Walk(start, R) = IF Inside(q, R) THEN Ok(q) ELSE Deny(IF Inside(p, R) THEN "vault" ELSE "escape")
    BY <1>2 DEF Walk, Existing, p
  <2> HIDE DEF q
  <2>3. Inside(q, R) /\ Walk(start, R) = Ok(q)
    BY <2>2 DEF Ok, Deny
  <2>4. Lexical(q) = q
    BY <2>1, LexicalIsSame DEF Real, NoDots
  <2>5. Walk(q, R) = Existing(q, R)
    BY <2>1, <2>4 DEF Walk
  <2>6. Existing(q, R) = Ok(q)
    <3>1. (CHOOSE x \in {q} : TRUE) = q
      OBVIOUS
    <3> QED
      BY <2>1, <2>3, <3>1 DEF Existing
  <2>7. Walk(start, R).path = q
    BY <2>3 DEF Ok
  <2> QED
    BY <2>3, <2>5, <2>6, <2>7
<1>3. CASE Canon(p) = {}
  <2> DEFINE d == CHOOSE x \in Canon(Prefix(p)) : TRUE
             q == d \o Rest(p)
  <2>1. Canon(Prefix(p)) # {} /\ d \in Canon(Prefix(p))
    BY DEF p
  <2>2. Walk(start, R) = IF Inside(q, R) THEN Ok(q)
                         ELSE Deny(IF HasLink(Prefix(p)) /\ Inside(Prefix(p), R) THEN "vault" ELSE "escape")
    BY <1>3, <2>1 DEF Walk, Missing, p
  <2>3. q \in Paths /\ Canon(q) = {} /\ Prefix(q) = d /\ Rest(q) = Rest(p) /\ Canon(d) = {d} /\ NoDots(q)
    BY <1>1, <1>3, <2>1, MissingLands, MissingAgain
  <2>4. q = d \o Rest(q)
    BY <2>3
  <2> HIDE DEF q, d
  <2>5. Inside(q, R) /\ Walk(start, R) = Ok(q)
    BY <2>2 DEF Ok, Deny
  <2>6. Lexical(q) = q
    BY <2>3, LexicalIsSame
  <2>7. Walk(q, R) = Missing(q, R)
    BY <2>3, <2>6 DEF Walk
  <2>8. Missing(q, R) = Ok(q)
    <3>1. (CHOOSE x \in {d} : TRUE) = d
      OBVIOUS
    <3> QED
      BY <2>3, <2>4, <2>5, <3>1 DEF Missing
  <2>9. Walk(start, R).path = q
    BY <2>5 DEF Ok
  <2> QED
    BY <2>5, <2>7, <2>8, <2>9
<1> QED
  BY <1>2, <1>3

-----------------------------------------------------------------------------
(* The verdict is one of the answers. *)

Answers == [kind : {"none", "ok", "escape", "vault", "absolute"}, path : Paths]

\* A denial is an answer.
LEMMA DenyType ==
  ASSUME NEW k \in {"escape", "vault", "absolute"}
  PROVE  Deny(k) \in Answers /\ Deny(k).kind # "ok"
BY DEF Deny, Answers, Paths

\* So is an accepted path.
LEMMA OkType ==
  ASSUME NEW p \in Paths
  PROVE  Ok(p) \in Answers /\ Ok(p).kind = "ok" /\ Ok(p).path = p
BY DEF Ok, Answers

\* The root and the text of a relative path make one path.
LEMMA JoinType ==
  ASSUME NEW p \in Paths, NEW q \in Paths
  PROVE  p \o q \in Paths
BY DEF Paths

\* The entries that are there and the missing ones are paths.
LEMMA RestType ==
  ASSUME NEW p \in Paths
  PROVE  Rest(p) \in Paths /\ Prefix(p) \in Paths
<1>1. PICK k \in 0 .. Len(p) : Prefix(p) = SubSeq(p, 1, k)
  BY PrefixIs
<1>2. Prefix(p) \in Paths /\ Len(Prefix(p)) = k
  BY <1>1, Firsts
<1>3. k + 1 \in Int /\ Len(p) \in Int /\ \A i \in k + 1 .. Len(p) : p[i] \in STRING
  BY DEF Paths
<1> DEFINE l == k + 1
<1>4. Rest(p) = SubSeq(p, l, Len(p))
  BY <1>2 DEF Rest
<1> HIDE DEF l
<1>5. SubSeq(p, l, Len(p)) \in Seq(STRING)
  BY <1>3, SubSeqProperties DEF l
<1> QED
  BY <1>2, <1>4, <1>5 DEF Paths

\* The text that a link to nowhere stands for is a path.
LEMMA TargetType ==
  ASSUME fs \in Tree, NEW p \in Paths, NoDots(p), Canon(Prefix(p)) = {}
  PROVE  Target(p) \in Paths
<1> DEFINE link == CHOOSE n \in Metadata(Prefix(p)) : TRUE
           d == Prefix(p)
<1>1. d \in Paths /\ link.abs \in BOOLEAN /\ link.parts \in Paths /\ d # <<>>
  BY NowhereIsLink
<1>2. Rest(p) \in Paths
  BY RestType
<1>3. Front(d) \in Paths
  <2>1. Parent(d) = Front(d)
    BY <1>1 DEF Parent
  <2> QED
    BY <1>1, <2>1, ParentType
<1> DEFINE text == (IF link.abs THEN link.parts ELSE Front(d) \o link.parts) \o Rest(p)
<1>4. Target(p) = Lexical(text)
  BY DEF Target
<1> HIDE DEF link, d
<1>5. text \in Paths
  BY <1>1, <1>2, <1>3, JoinType
<1> QED
  BY <1>4, <1>5, LexicalHasNoDots

\* walk_guarded answers.
LEMMA WalkType ==
  ASSUME fs \in Tree, NEW start \in Paths, NEW R
  PROVE  Walk(start, R) \in Answers
<1> DEFINE p == Lexical(start)
<1>1. p \in Paths /\ NoDots(p)
  BY LexicalHasNoDots
<1>2. Walk(start, R) = IF Canon(p) # {} THEN Existing(p, R)
                       ELSE IF Canon(Prefix(p)) = {} THEN Dangling(p, R) ELSE Missing(p, R)
  BY DEF Walk
<1> HIDE DEF p
<1>3. CASE Canon(p) # {}
  <2> DEFINE q == CHOOSE x \in Canon(p) : TRUE
  <2>1. q \in Paths
    BY <1>1, <1>3, CanonIsReal DEF Real
  <2>2. Existing(p, R) = IF Inside(q, R) THEN Ok(q) ELSE Deny(IF Inside(p, R) THEN "vault" ELSE "escape")
    BY DEF Existing
  <2> HIDE DEF q
  <2> QED
    BY <1>2, <1>3, <2>1, <2>2, OkType, DenyType
<1>4. CASE Canon(p) = {} /\ Canon(Prefix(p)) = {}
  <2>1. Target(p) \in Paths
    BY <1>1, <1>4, TargetType
  <2> QED
    BY <1>2, <1>4, <2>1, OkType, DenyType DEF Dangling
<1>5. CASE Canon(p) = {} /\ Canon(Prefix(p)) # {}
  <2> DEFINE d == CHOOSE x \in Canon(Prefix(p)) : TRUE
             q == d \o Rest(p)
  <2>1. Rest(p) \in Paths /\ Prefix(p) \in Paths
    BY <1>1, RestType
  <2>2. d \in Paths
    BY <1>5, <2>1, CanonIsReal DEF Real
  <2>3. q \in Paths
    BY <2>1, <2>2, JoinType
  <2>4. Missing(p, R) = IF Inside(q, R) THEN Ok(q)
                        ELSE Deny(IF HasLink(Prefix(p)) /\ Inside(Prefix(p), R) THEN "vault" ELSE "escape")
    BY DEF Missing
  <2> HIDE DEF q
  <2> QED
    BY <1>2, <1>5, <2>3, <2>4, OkType, DenyType
<1> QED
  BY <1>3, <1>4, <1>5

\* The directory and the last component of an entry.
LEMMA EntryParts ==
  ASSUME NEW start \in Paths, start # <<>>
  PROVE  Front(start) \in Paths /\ Last(start) \in STRING
<1>1. Parent(start) = Front(start) /\ Len(start) \in 1 .. Len(start) /\ \A i \in 1 .. Len(start) : start[i] \in STRING
  BY DEF Parent, Paths
<1> QED
  BY <1>1, ParentType DEF Last

\* The parts of a path that one component was added to.
LEMMA AppendParts ==
  ASSUME NEW p \in Paths, NEW c \in STRING
  PROVE  /\ Append(p, c) \in Paths
         /\ Front(Append(p, c)) = p /\ Last(Append(p, c)) = c
<1>1. Append(p, c) \in Paths /\ Len(Append(p, c)) = Len(p) + 1 /\ Append(p, c)[Len(p) + 1] = c
      /\ \A j \in 1 .. Len(p) : Append(p, c)[j] = p[j]
  BY FirstOfAppend
<1> DEFINE a == Append(p, c)
<1>2. Len(p) \in Nat /\ Len(p) \in 0 .. Len(a) /\ Len(p) \in 0 .. Len(p)
  BY <1>1 DEF Paths
<1>3. SubSeq(p, 1, Len(p)) = p
  BY SubSeqFull DEF Paths
<1> HIDE DEF a
<1>4. SubSeq(p, 1, Len(p)) = SubSeq(a, 1, Len(p))
  BY <1>1, <1>2, SameFirsts DEF a
<1>5. (Len(p) + 1) - 1 = Len(p)
  BY <1>2
<1> QED
  BY <1>1, <1>3, <1>4, <1>5 DEF a, Front, Last

\* resolve answers.
LEMMA ResolveType ==
  ASSUME fs \in Tree, NEW start \in Paths, NEW R, NEW follow
  PROVE  Resolve(start, R, follow) \in Answers
<1>1. CASE follow = "final"
  BY <1>1, WalkType DEF Resolve
<1>2. CASE follow # "final" /\ start = <<>>
  BY <1>2, DenyType DEF Resolve
<1>3. CASE follow # "final" /\ start # <<>>
  <2> DEFINE dir == Walk(Front(start), R)
  <2>1. Front(start) \in Paths /\ Last(start) \in STRING
    BY <1>3, EntryParts
  <2>2. dir \in Answers
    BY <2>1, WalkType
  <2>3. Resolve(start, R, follow) = IF dir.kind # "ok" \/ Last(start) = ".." THEN dir ELSE Ok(Append(dir.path, Last(start)))
    BY <1>3 DEF Resolve, Entry
  <2> HIDE DEF dir
  <2>4. Append(dir.path, Last(start)) \in Paths
    BY <2>1, <2>2, AppendParts DEF Answers
  <2> QED
    BY <2>2, <2>3, <2>4, OkType
<1> QED
  BY <1>1, <1>2, <1>3

\* check_inner answers.
LEMMA VerdictType ==
  ASSUME fs \in Tree, roots \in Seq(Paths), roots # <<>>, NEW t \in Texts, NEW follow
  PROVE  Verdict(t, follow) \in Answers
<1>1. roots[1] \in Paths /\ t.parts \in Paths
  BY DEF Texts
<1>2. roots[1] \o t.parts \in Paths
  BY <1>1, JoinType
<1> QED
  BY <1>1, <1>2, ResolveType, DenyType DEF Verdict
-----------------------------------------------------------------------------
(* The guard. *)

\* An answer is the verdict on the text that was asked about.
AnswerIsVerdict ==
  phase = "done" => asked.follow \in {"final", "parent"} /\ answer = Verdict(asked.path, asked.follow)

GuardInv == GuardTypeOK /\ RootsAreMeant /\ AnswerIsVerdict

\* On the same tree the walks, and with the same roots the verdict, stay what
\* they were.
LEMMA SameTree ==
  ASSUME fs' = fs, roots' = roots, policy' = policy, NEW t, NEW follow
  PROVE  Verdict(t, follow)' = Verdict(t, follow)
<1>1. ASSUME NEW p PROVE Canon(p)' = Canon(p)
  BY DEF Canon
<1>2. ASSUME NEW p PROVE Metadata(p)' = Metadata(p)
  BY SMT DEF Metadata, Canon
<1>3. ASSUME NEW p PROVE Prefix(p)' = Prefix(p)
  BY SMT DEF Prefix, Metadata, Canon
<1>4. ASSUME NEW p PROVE Rest(p)' = Rest(p)
  BY <1>3 DEF Rest
<1>5. ASSUME NEW p PROVE HasLink(p)' = HasLink(p)
  BY <1>2 DEF HasLink
<1>6. ASSUME NEW p PROVE Target(p)' = Target(p)
  <2>1. Prefix(p)' = Prefix(p) /\ Rest(p)' = Rest(p) /\ Metadata(Prefix(p))' = Metadata(Prefix(p))
    BY <1>2, <1>3, <1>4
  <2> QED
    BY <2>1, SMT DEF Target
<1>7. ASSUME NEW p, NEW R PROVE Existing(p, R)' = Existing(p, R)
  BY SMT DEF Existing, Canon
<1>8. ASSUME NEW p, NEW R PROVE Missing(p, R)' = Missing(p, R)
  <2>1. /\ Prefix(p)' = Prefix(p) /\ Rest(p)' = Rest(p)
        /\ Canon(Prefix(p))' = Canon(Prefix(p)) /\ HasLink(Prefix(p))' = HasLink(Prefix(p))
    BY <1>1, <1>3, <1>4, <1>5
  <2> QED
    BY <2>1, SMT DEF Missing
<1>9. ASSUME NEW p, NEW R PROVE Dangling(p, R)' = Dangling(p, R)
  BY <1>6, SMT DEF Dangling
<1>10. ASSUME NEW start, NEW R PROVE Walk(start, R)' = Walk(start, R)
  <2> DEFINE p == Lexical(start)
  <2>1. Prefix(p)' = Prefix(p) /\ Canon(p)' = Canon(p) /\ Canon(Prefix(p))' = Canon(Prefix(p))
    BY <1>1, <1>3
  <2>2. Existing(p, R)' = Existing(p, R) /\ Missing(p, R)' = Missing(p, R) /\ Dangling(p, R)' = Dangling(p, R)
    BY <1>7, <1>8, <1>9
  <2> QED
    BY <2>1, <2>2 DEF Walk
<1> QED
  BY <1>10 DEF Verdict, Resolve, Entry

\* The root that a text leads to is meant by that text.
LEMMA ResolvedIsMeant ==
  ASSUME fs \in Tree, NEW t \in Texts, NEW texts, t \in texts, NEW q \in Resolved(t)
  PROVE  q \in Paths /\ Meant(q, texts)
<1> DEFINE p == Joined(Cwd, t)
<1>1. t.parts \in Paths /\ p \in Paths
  BY JoinType DEF Joined, Texts
<1> HIDE DEF p
<1>2. /\ q \in Canon(p) /\ Node(fs, q).kind = "dir" /\ q # Home
      /\ q = <<>> => ExplicitRoot(t)
      /\ q \in TempNames => ExplicitTemp(t)
  BY DEF Resolved, p
<1>3. Canon(p) = {q} /\ Real(fs, q) /\ Canon(q) = {q}
  BY <1>1, <1>2, CanonIsReal
<1> QED
  BY <1>2, <1>3 DEF Meant, Real, p, ExplicitRoot, ExplicitTemp

\* A root stays meant when the texts grow.
LEMMA StaysMeant ==
  ASSUME fs' = fs, NEW q, NEW texts, NEW more, texts \subseteq more, Meant(q, texts)
  PROVE  Meant(q, more)'
<1>1. Meant(q, more)
  BY DEF Meant
<1> QED
  BY <1>1 DEF Meant, Canon, TempNames

\* The types, the roots and the answer together are inductive.  (PathGuard::new,
\* check_inner)
THEOREM GuardInvariant == Spec => []GuardInv
<1>1. Init => GuardInv
  BY DEF Init, GuardInv, GuardTypeOK, RootsAreMeant, AnswerIsVerdict, Text, Texts, Paths
<1>2. GuardInv /\ [Next]_vars => GuardInv'
  <2> SUFFICES ASSUME GuardInv, [Next]_vars PROVE GuardInv'
    OBVIOUS
  <2> USE DEF GuardInv
  <2>1. CASE UNCHANGED vars
    <3>1. fs' = fs /\ roots' = roots /\ policy' = policy /\ asked' = asked /\ phase' = phase /\ answer' = answer
      BY <2>1 DEF vars
    <3>2. GuardTypeOK'
      BY <3>1 DEF GuardTypeOK
    <3>3. RootsAreMeant'
      BY <3>1, StaysMeant DEF RootsAreMeant
    <3>4. AnswerIsVerdict'
      BY <3>1, SameTree DEF AnswerIsVerdict
    <3> QED
      BY <3>2, <3>3, <3>4
  <2>2. ASSUME NEW t \in RootAsked, ResolveRoot(t) PROVE GuardInv'
    <3>1. t \in Texts /\ fs' = fs /\ fs \in Tree /\ policy' = policy /\ answer' = answer /\ phase = "root"
          /\ asked' = [asked EXCEPT !.roots = {t}] /\ t \in asked'.roots
      BY <2>2 DEF ResolveRoot, GuardTypeOK
    <3>2. asked' \in [roots : SUBSET Texts, path : Texts, follow : {"none", "final", "parent"}]
      BY <3>1 DEF GuardTypeOK
    <3>3. CASE Resolved(t) = {} /\ phase' = "failed" /\ roots' = roots
      <4>1. GuardTypeOK'
        BY <3>1, <3>2, <3>3 DEF GuardTypeOK
      <4>2. RootsAreMeant'
        <5>1. asked.roots \subseteq asked'.roots \/ roots = <<>>
          BY <3>1, <3>3 DEF GuardTypeOK
        <5> QED
          BY <3>1, <3>3, <5>1, StaysMeant DEF RootsAreMeant
      <4> QED
        BY <3>3, <4>1, <4>2 DEF AnswerIsVerdict
    <3>4. CASE /\ \E q \in Resolved(t) : roots' = <<q>>
               /\ phase' = IF policy = "additional" THEN "extra" ELSE "check"
      <4>1. PICK q \in Resolved(t) : roots' = <<q>>
        BY <3>4
      <4>2. q \in Paths /\ Meant(q, asked'.roots)
        BY <3>1, <4>1, ResolvedIsMeant
      <4>3. GuardTypeOK'
        BY <3>1, <3>2, <3>4, <4>1, <4>2 DEF GuardTypeOK
      <4>4. RootsAreMeant'
        BY <3>1, <4>1, <4>2, StaysMeant DEF RootsAreMeant
      <4> QED
        BY <3>4, <4>3, <4>4 DEF AnswerIsVerdict
    <3> QED
      BY <2>2, <3>3, <3>4 DEF ResolveRoot
  <2>3. ASSUME NEW t \in ExtraAsked, ResolveExtra(t) PROVE GuardInv'
    <3>1. t \in Texts /\ fs' = fs /\ fs \in Tree /\ policy' = policy /\ answer' = answer /\ phase = "extra"
          /\ asked' = [asked EXCEPT !.roots = @ \union {t}] /\ t \in asked'.roots
          /\ asked.roots \subseteq asked'.roots
      BY <2>3 DEF ResolveExtra, GuardTypeOK
    <3>2. asked' \in [roots : SUBSET Texts, path : Texts, follow : {"none", "final", "parent"}]
      BY <3>1 DEF GuardTypeOK
    <3>3. CASE Resolved(t) = {} /\ phase' = "failed" /\ roots' = roots
      <4>1. GuardTypeOK'
        BY <3>1, <3>2, <3>3 DEF GuardTypeOK
      <4>2. RootsAreMeant'
        BY <3>1, <3>3, StaysMeant DEF RootsAreMeant
      <4> QED
        BY <3>3, <4>1, <4>2 DEF AnswerIsVerdict
    <3>4. CASE /\ \E q \in Resolved(t) : roots' = IF q \in ToSet(roots) THEN roots ELSE Append(roots, q)
               /\ phase' = phase
      <4>1. PICK q \in Resolved(t) : roots' = roots \/ roots' = Append(roots, q)
        BY <3>4
      <4>2. q \in Paths /\ Meant(q, asked'.roots)
        BY <3>1, <4>1, ResolvedIsMeant
      <4>3. roots' \in Seq(Paths) /\ roots' # <<>>
            /\ \A i \in DOMAIN roots' : (i \in DOMAIN roots /\ roots'[i] = roots[i]) \/ roots'[i] = q
        <5>1. roots \in Seq(Paths) /\ roots # <<>> /\ Len(roots) \in Nat /\ DOMAIN roots = 1 .. Len(roots)
          BY <3>1 DEF GuardTypeOK
        <5>2. CASE roots' = roots
          BY <5>1, <5>2
        <5>3. CASE roots' = Append(roots, q)
          <6>1. /\ roots' \in Seq(Paths) /\ Len(roots') = Len(roots) + 1
                /\ \A i \in 1 .. Len(roots) : roots'[i] = roots[i]
                /\ roots'[Len(roots) + 1] = q
            BY <4>2, <5>1, <5>3, AppendProperties
          <6>2. DOMAIN roots' = 1 .. Len(roots) + 1 /\ roots' # <<>>
            BY <5>1, <6>1
          <6> QED
            BY <5>1, <6>1, <6>2
        <5> QED
          BY <4>1, <5>2, <5>3
      <4>4. GuardTypeOK'
        BY <3>1, <3>2, <3>4, <4>3 DEF GuardTypeOK
      <4>5. RootsAreMeant'
        BY <3>1, <4>2, <4>3, StaysMeant DEF RootsAreMeant
      <4> QED
        BY <3>1, <3>4, <4>4, <4>5 DEF AnswerIsVerdict
    <3> QED
      BY <2>3, <3>3, <3>4 DEF ResolveExtra
  <2>4. ASSUME NEW t \in PathAsked, NEW follow \in {"final", "parent"}, Check(t, follow) PROVE GuardInv'
    <3>1. t \in Texts /\ fs' = fs /\ fs \in Tree /\ roots' = roots /\ policy' = policy
          /\ phase \in {"extra", "check"} /\ phase' = "done" /\ answer' = Verdict(t, follow)
          /\ asked' = [asked EXCEPT !.path = t, !.follow = follow]
          /\ roots \in Seq(Paths) /\ roots # <<>>
      BY <2>4 DEF Check, GuardTypeOK
    <3>2. /\ asked' \in [roots : SUBSET Texts, path : Texts, follow : {"none", "final", "parent"}]
          /\ asked'.path = t /\ asked'.follow = follow /\ asked'.roots = asked.roots
      BY <3>1 DEF GuardTypeOK
    <3>3. Verdict(t, follow) \in Answers
      BY <3>1, VerdictType
    <3>4. GuardTypeOK'
      BY <3>1, <3>2, <3>3 DEF GuardTypeOK, Answers
    <3>5. RootsAreMeant'
      BY <3>1, <3>2, StaysMeant DEF RootsAreMeant
    <3>6. AnswerIsVerdict'
      BY <3>1, <3>2, SameTree DEF AnswerIsVerdict
    <3> QED
      BY <3>4, <3>5, <3>6
  <2> QED
    BY <2>1, <2>2, <2>3, <2>4 DEF Next
<1> QED
  BY <1>1, <1>2, PTL DEF Spec

\* The types of the guard's state. (PathGuard::new, check_inner)
THEOREM GuardTypeCorrect == Spec => []GuardTypeOK
<1>1. GuardInv => GuardTypeOK
  BY DEF GuardInv
<1> QED
  BY <1>1, GuardInvariant, PTL

\* Every root is a directory, spelled as the kernel resolves it, that one of
\* the given texts leads to, and it is not wider than that text says, whatever
\* tree of directories and links there is. (resolve_workspace_root,
\* resolve_extra_root)
THEOREM RootsCorrect == Spec => []RootsAreMeant
<1>1. GuardInv => RootsAreMeant
  BY DEF GuardInv
<1> QED
  BY <1>1, GuardInvariant, PTL

\* What the guard accepts lies in the roots that were open to the text, whatever
\* tree of directories and links there is. (check_path, check_path_entry)
THEOREM StaysInsideCorrect == Spec => []StaysInside
<1>1. GuardInv => StaysInside
  <2> SUFFICES ASSUME GuardInv, Done, Accepted PROVE StaysInside
    BY DEF StaysInside, AcceptedStaysInside, EntryStaysInside
  <2> DEFINE follow == asked.follow
  <2>1. /\ fs \in Tree /\ roots[1] \in Paths /\ PathText.parts \in Paths /\ PathText.abs \in BOOLEAN
        /\ policy \in {"reject", "contained", "additional"}
    BY DEF GuardInv, GuardTypeOK, Done, PathText, Texts
  <2>2. Start \in Paths
    BY <2>1, JoinType DEF Start, Joined
  <2>3. answer = Verdict(PathText, follow) /\ answer.kind = "ok" /\ follow \in {"final", "parent"}
    BY DEF GuardInv, AnswerIsVerdict, Done, Accepted, PathText
  <2>4. answer = Resolve(Start, OpenRoots, follow)
    <3>1. \A k \in {"escape", "absolute"} : answer # Deny(k)
      BY <2>3, DenyType
    <3>2. CASE PathText.abs
      BY <2>1, <2>3, <3>1, <3>2 DEF Verdict, Start, Joined, OpenRoots
    <3>3. CASE ~ PathText.abs
      BY <2>3, <3>1, <3>3 DEF Verdict, Start, Joined, OpenRoots
    <3> QED
      BY <3>2, <3>3
  <2> HIDE DEF follow
  <2>5. AcceptedStaysInside
    <3> SUFFICES ASSUME Followed, ~ NoWhere
                 PROVE  \A q \in Landing(answer.path) : Inside(q, OpenRoots)
      BY DEF AcceptedStaysInside
    <3>1. answer = Walk(Start, OpenRoots)
      BY <2>4 DEF Followed, Resolve, follow
    <3> QED
      BY <2>1, <2>2, <2>3, <3>1, WalkStaysInside DEF NoWhere
  <2>6. EntryStaysInside
    <3> SUFFICES ASSUME ~ Followed, Len(Start) > 0, Last(Start) # ".."
                 PROVE  /\ Last(answer.path) = Last(Start)
                        /\ Canon(Prefix(Lexical(Front(Start)))) # {} =>
                             \A q \in Landing(Front(answer.path)) : Inside(q, OpenRoots)
      BY DEF EntryStaysInside
    <3> DEFINE dir == Walk(Front(Start), OpenRoots)
    <3>1. Start # <<>>
      OBVIOUS
    <3>2. Front(Start) \in Paths /\ Last(Start) \in STRING
      BY <2>2, <3>1, EntryParts
    <3>3. answer = IF dir.kind # "ok" \/ Last(Start) = ".." THEN dir ELSE Ok(Append(dir.path, Last(Start)))
      BY <2>4, <3>1 DEF Followed, Resolve, Entry, follow
    <3>4. dir \in Answers
      BY <2>1, <3>2, WalkType
    <3>5. dir.kind = "ok" => \/ Canon(Prefix(Lexical(Front(Start)))) = {}
                             \/ \A q \in Landing(dir.path) : Inside(q, OpenRoots)
      BY <2>1, <3>2, WalkStaysInside
    <3> HIDE DEF dir
    <3>6. dir.kind = "ok" /\ answer.path = Append(dir.path, Last(Start))
      BY <2>3, <3>3 DEF Ok
    <3>7. dir.path \in Paths
      BY <3>4 DEF Answers
    <3>8. Front(answer.path) = dir.path /\ Last(answer.path) = Last(Start)
      <4> DEFINE c == Last(Start)
      <4>1. c \in STRING /\ answer.path = Append(dir.path, c)
        BY <3>2, <3>6
      <4> HIDE DEF c
      <4>2. Front(Append(dir.path, c)) = dir.path /\ Last(Append(dir.path, c)) = c
        BY <3>7, <4>1, AppendParts
      <4> QED
        BY <4>1, <4>2 DEF c
    <3> QED
      BY <3>5, <3>6, <3>8
  <2> QED
    BY <2>5, <2>6 DEF StaysInside
<1> QED
  BY <1>1, GuardInvariant, PTL

-----------------------------------------------------------------------------
(* The verified read. *)

HIDE GuardAssumption DEF GuardAssumption
USE ReadAssumption DEF ReadAssumption

-----------------------------------------------------------------------------
(* Counting names. *)

\* The names of a file are finitely many.
LEMMA NamesFinite ==
  ASSUME NEW S \in SUBSET Path
  PROVE  IsFiniteSet(S) /\ Cardinality(S) \in Nat
BY FS_Subset, FS_CardinalityType

\* A file with one name has the name we know of and no other.
LEMMA OnlyName ==
  ASSUME NEW S \in SUBSET Path, NEW p \in S, Cardinality(S) <= 1
  PROVE  S = {p}
<1> SUFFICES ASSUME NEW q \in S, q # p PROVE FALSE
  OBVIOUS
<1>1. IsFiniteSet(S) /\ Cardinality(S) \in Nat
  BY NamesFinite
<1>2. IsFiniteSet({p}) /\ Cardinality({p}) = 1
  BY FS_Singleton
<1>3. Cardinality({p} \union {q}) = 2
  <2>1. q \notin {p} /\ 1 + 1 = 2
    OBVIOUS
  <2> QED
    BY <1>2, <2>1, FS_AddElement
<1>4. Cardinality({p} \union {q}) <= Cardinality(S)
  BY <1>1, FS_Subset
<1> QED
  BY <1>1, <1>3, <1>4

\* As many names as the file has links are all the names it has.
LEMMA AllSeen ==
  ASSUME NEW S \in SUBSET Path, NEW C \in SUBSET S, Cardinality(S) <= Cardinality(C)
  PROVE  C = S
<1>1. IsFiniteSet(S) /\ Cardinality(S) \in Nat
  BY NamesFinite
<1>2. IsFiniteSet(C) /\ Cardinality(C) \in Nat /\ Cardinality(C) <= Cardinality(S)
  BY <1>1, FS_Subset, FS_CardinalityType
<1>3. Cardinality(C) = Cardinality(S)
  BY <1>1, <1>2
<1> QED
  BY <1>1, <1>3, FS_Subset

\* Names of a directory that was not visited yet add up.
LEMMA CountAdds ==
  ASSUME NEW C \in SUBSET Path, NEW H \in SUBSET Path, C \cap H = {}
  PROVE  Cardinality(C \union H) = Cardinality(C) + Cardinality(H)
<1>1. IsFiniteSet(C) /\ IsFiniteSet(H) /\ Cardinality(C \cap H) = 0
  BY NamesFinite, FS_EmptySet
<1>2. Cardinality(C \union H) = Cardinality(C) + Cardinality(H) - Cardinality(C \cap H)
  BY <1>1, FS_Union
<1> QED
  BY <1>1, <1>2, NamesFinite

-----------------------------------------------------------------------------
(* Types. *)

LEMMA TypeInit == ReadInit => TypeOK
<1> SUFFICES ASSUME ReadInit PROVE TypeOK
  OBVIOUS
<1>1. changes \in 0 .. MaxChanges
  BY DEF ReadInit
<1> QED
  BY <1>1 DEF ReadInit, TypeOK, Rounds, Reasons

LEMMA LinksNat ==
  ASSUME NEW i
  PROVE  Names(i) \in SUBSET Path /\ Links(i) \in Nat
BY NamesFinite DEF Names, Links

LEMMA TypeStep == TypeOK /\ [ReadNext]_readVars => TypeOK'
<1> SUFFICES ASSUME TypeOK, [ReadNext]_readVars PROVE TypeOK'
  OBVIOUS
<1> USE DEF TypeOK, Rounds, Reasons, scanVars, openVars, worldVars
<1>1. CASE Stat
  BY <1>1, LinksNat DEF Stat, Allow, Refuse
<1>2. CASE ScanOwn
  <2>1. Cardinality(Here(DirOf[Asked])) \in Nat
    BY NamesFinite DEF Here, Names
  <2> QED
    BY <1>2, <2>1 DEF ScanOwn, Count, Refuse
<1>3. ASSUME NEW d \in LinkDirs, ScanExtra(d) PROVE TypeOK'
  <2>1. Cardinality(Here(d)) \in Nat
    BY NamesFinite DEF Here, Names
  <2> QED
    BY <1>3, <2>1 DEF ScanExtra, NewDir, Count, Refuse
<1>4. CASE Judge
  BY <1>4 DEF Judge, Allow, Refuse
<1>5. CASE Open
  BY <1>5 DEF Open, Refuse
<1>6. CASE Lstat
  BY <1>6 DEF Lstat, Refuse
<1>7. CASE Fstat
  BY <1>7 DEF Fstat, Allow, Refuse
<1>8. ASSUME NEW new \in [Path -> Inode \union {NoInode}], Change(new) PROVE TypeOK'
  BY <1>8 DEF Change
<1>9. CASE OtherStep
  BY <1>8, <1>9 DEF OtherStep, Rename, LinkTo, Unlink, Create
<1>10. CASE UNCHANGED readVars
  BY <1>10 DEF readVars
<1> QED
  BY <1>1, <1>2, <1>3, <1>4, <1>5, <1>6, <1>7, <1>9, <1>10 DEF ReadNext, ReadStep

\* Every variable of a verified read stays in its range.  (open_verified_read)
THEOREM ReadTypeCorrect == ReadSpec => []TypeOK
<1>1. ReadInit => TypeOK
  BY TypeInit
<1>2. TypeOK /\ [ReadNext]_readVars => TypeOK'
  BY TypeStep
<1> QED
  BY <1>1, <1>2, PTL DEF ReadSpec

-----------------------------------------------------------------------------
(* The inductive invariant. *)

\* The names found so far: C of the N the file had when its links were
\* counted, all of them in visited directories and none denied.
Tally(C, N) ==
  /\ C \subseteq N /\ Names(fd) \subseteq N
  /\ nlink = Cardinality(N) /\ found = Cardinality(C)
  /\ C \cap Denied = {}
  /\ \A p \in C : DirOf[p] \in parents

Verifying ==
  /\ pc \notin {"refused", "fstat"} => at[Asked] = fd
  /\ pc = "fstat" /\ seen = fd => at[Asked] = fd
  /\ pc = "own" => parents = {}
  /\ pc \in {"own", "extra"} => want = fd /\ \E C, N \in SUBSET Path : Tally(C, N)
  /\ pc = "returned" => Names(fd) \cap Denied = {}

VInv ==
  /\ TypeOK
  /\ pc \in {"open", "lstat"} => round = "resolved"
  /\ pc \in {"fstat", "returned"} => round = "verify"
  /\ pc = "lstat" \/ round = "verify" => fd # NoInode
  /\ round = "verify" /\ ~ touched => Verifying

\* A file whose only name is the asked one has no denied name.
LEMMA OneNameIsClean ==
  ASSUME TypeOK, fd # NoInode, at[Asked] = fd, Links(fd) <= 1
  PROVE  Names(fd) \cap Denied = {}
<1>1. Asked \in Names(fd) /\ Names(fd) \in SUBSET Path
  BY DEF Names
<1>2. Names(fd) = {Asked}
  BY <1>1, OnlyName DEF Links
<1> QED
  BY <1>2

\* Reading one more directory keeps the tally.
LEMMA TallyGrows ==
  ASSUME TypeOK, NEW d \in Dir, NEW C \in SUBSET Path, NEW N \in SUBSET Path, Tally(C, N),
         d \notin parents, want = fd, Count(d), Here(d) \cap Denied = {}
  PROVE  \E D, M \in SUBSET Path : Tally(D, M)'
<1>1. PICK H \in SUBSET Path : H = Here(d)
  BY DEF Here, Names
<1>2. H \subseteq N /\ C \cap H = {} /\ H \cap Denied = {}
  BY <1>1 DEF Here, Names, Tally
<1>3. Cardinality(C \union H) = Cardinality(C) + Cardinality(H)
  BY <1>2, CountAdds
<1>4. Names(fd)' = Names(fd) /\ nlink' = nlink /\ parents' = parents \union {d}
  BY DEF Count, Names, worldVars, openVars
<1>5. found' = Cardinality(C \union H)
  BY <1>1, <1>3 DEF Count, Tally
<1>6. \A p \in C \union H : DirOf[p] \in parents \union {d}
  BY <1>1 DEF Tally, Here
<1>7. Tally(C \union H, N)'
  BY <1>2, <1>4, <1>5, <1>6 DEF Tally
<1>8. C \union H \in SUBSET Path
  OBVIOUS
<1> QED
  BY <1>7, <1>8

\* When as many names were found as the file has links, none is denied.
LEMMA FullTally ==
  ASSUME NEW C \in SUBSET Path, NEW N \in SUBSET Path, Tally(C, N), ~ found < nlink
  PROVE  Names(fd) \cap Denied = {}
<1>1. Cardinality(N) \in Nat /\ Cardinality(C) \in Nat
  BY NamesFinite
<1>2. Cardinality(N) <= Cardinality(C) /\ C \in SUBSET N
  BY <1>1 DEF Tally
<1>3. C = N
  BY <1>2, AllSeen
<1> QED
  BY <1>3 DEF Tally

LEMMA VInit == ReadInit => VInv
BY TypeInit DEF ReadInit, VInv

LEMMA VStep == VInv /\ [ReadNext]_readVars => VInv'
<1> SUFFICES ASSUME VInv, [ReadNext]_readVars PROVE VInv'
  OBVIOUS
<1>0. TypeOK /\ TypeOK'
  BY TypeStep DEF VInv
<1> USE DEF scanVars, openVars, worldVars
<1>1. CASE Stat
  <2>1. /\ (pc \in {"open", "lstat"} => round = "resolved")'
        /\ (pc \in {"fstat", "returned"} => round = "verify")'
        /\ (pc = "lstat" \/ round = "verify" => fd # NoInode)'
    BY <1>0, <1>1 DEF Stat, Allow, Refuse, VInv, TypeOK, Rounds
  <2>2. ASSUME round' = "verify", ~ touched' PROVE Verifying'
    <3>1. round = "verify" /\ ~ touched /\ fd # NoInode /\ at[Asked] = fd
      BY <1>0, <1>1, <2>2 DEF Stat, Allow, Refuse, VInv, Verifying, TypeOK, Rounds
    <3>2. at' = at /\ fd' = fd /\ seen' = seen /\ Names(fd)' = Names(fd)
      BY <1>1 DEF Stat, Names
    <3>3. CASE Links(fd) <= 1 /\ Allow
      <4>1. Names(fd) \cap Denied = {} /\ pc' = "returned"
        BY <1>0, <3>1, <3>3, OneNameIsClean DEF Allow
      <4> QED
        BY <3>1, <3>2, <4>1 DEF Verifying
    <3>4. CASE pc' = "own"
      <4>1. want' = fd' /\ parents' = {} /\ found' = 0 /\ nlink' = Cardinality(Names(fd))
        BY <1>1, <3>1 DEF Stat, Links
      <4>2. PICK N \in SUBSET Path : N = Names(fd)
        BY DEF Names
      <4>3. Cardinality({}) = 0 /\ {} \in SUBSET Path
        BY FS_EmptySet
      <4>4. Tally({}, N)'
        BY <3>2, <4>1, <4>2, <4>3 DEF Tally
      <4>5. \E C, M \in SUBSET Path : Tally(C, M)'
        BY <4>3, <4>4
      <4> QED
        BY <3>1, <3>2, <3>4, <4>1, <4>5 DEF Verifying
    <3>5. CASE pc' = "refused"
      BY <3>1, <3>2, <3>5 DEF Verifying
    <3> QED
      BY <1>1, <3>1, <3>3, <3>4, <3>5 DEF Stat, Refuse
  <2> QED
    BY <1>0, <2>1, <2>2 DEF VInv
<1>2. CASE ScanOwn
  <2>1. /\ pc' \in {"refused", "extra"} /\ round' = round
        /\ at' = at /\ fd' = fd /\ touched' = touched /\ want' = want
    BY <1>2 DEF ScanOwn, Count, Refuse
  <2>2. ASSUME round = "verify", ~ touched, pc' = "extra" PROVE Verifying'
    <3>1. Count(DirOf[Asked]) /\ Here(DirOf[Asked]) \cap Denied = {}
      BY <1>2, <2>2 DEF ScanOwn, Refuse
    <3>2. /\ want = fd /\ at[Asked] = fd /\ DirOf[Asked] \notin parents
          /\ \E C, N \in SUBSET Path : Tally(C, N)
      BY <1>2, <2>2 DEF ScanOwn, VInv, Verifying
    <3>3. \E C, N \in SUBSET Path : Tally(C, N)'
      BY <1>0, <3>1, <3>2, TallyGrows
    <3> QED
      BY <2>1, <2>2, <3>2, <3>3 DEF Verifying
  <2>3. ASSUME round = "verify", ~ touched, pc' = "refused" PROVE Verifying'
    BY <2>3 DEF Verifying
  <2> QED
    BY <1>0, <2>1, <2>2, <2>3 DEF VInv
<1>3. ASSUME NEW d \in LinkDirs, ScanExtra(d) PROVE VInv'
  <2>1. /\ pc = "extra" /\ pc' \in {"refused", "extra"} /\ round' = round
        /\ at' = at /\ fd' = fd /\ touched' = touched /\ want' = want /\ nlink' = nlink
    BY <1>3 DEF ScanExtra, NewDir, Count, Refuse
  <2>2. ASSUME round = "verify", ~ touched, pc' = "extra" PROVE Verifying'
    <3>1. /\ want = fd /\ at[Asked] = fd /\ d \in Dir /\ d \notin parents
          /\ \E C, N \in SUBSET Path : Tally(C, N)
      BY <1>3, <2>1, <2>2 DEF ScanExtra, NewDir, VInv, Verifying
    <3>2. \E C, N \in SUBSET Path : Tally(C, N)'
      <4>1. \/ Count(d) /\ Here(d) \cap Denied = {}
            \/ parents' = parents \union {d} /\ found' = found
        BY <1>3, <2>2 DEF ScanExtra, Refuse
      <4>2. CASE Count(d) /\ Here(d) \cap Denied = {}
        BY <1>0, <3>1, <4>2, TallyGrows
      <4>3. CASE parents' = parents \union {d} /\ found' = found
        <5>1. Names(fd)' = Names(fd)
          BY <2>1 DEF Names
        <5>2. ASSUME NEW C \in SUBSET Path, NEW N \in SUBSET Path, Tally(C, N) PROVE Tally(C, N)'
          BY <2>1, <4>3, <5>1, <5>2 DEF Tally
        <5> QED
          BY <3>1, <5>2
      <4> QED
        BY <4>1, <4>2, <4>3
    <3> QED
      BY <2>1, <2>2, <3>1, <3>2 DEF Verifying
  <2>3. ASSUME round = "verify", ~ touched, pc' = "refused" PROVE Verifying'
    BY <2>3 DEF Verifying
  <2> QED
    BY <1>0, <2>1, <2>2, <2>3 DEF VInv
<1>4. CASE Judge
  <2>1. /\ pc = "extra" /\ at' = at /\ fd' = fd /\ touched' = touched /\ Names(fd)' = Names(fd)
        /\ (found < nlink /\ Refuse("unseen")) \/ (~ found < nlink /\ Allow)
    BY <1>4 DEF Judge, Names
  <2>2. CASE ~ (round = "verify" /\ ~ touched)
    BY <1>0, <2>1, <2>2 DEF VInv, Allow, Refuse, TypeOK, Rounds
  <2>3. CASE round = "verify" /\ ~ touched
    <3>1. at[Asked] = fd /\ \E C, N \in SUBSET Path : Tally(C, N)
      BY <2>1, <2>3 DEF VInv, Verifying
    <3>2. ~ found < nlink => Names(fd) \cap Denied = {}
      BY <3>1, FullTally
    <3> QED
      BY <1>0, <2>1, <2>3, <3>1, <3>2 DEF VInv, Verifying, Allow, Refuse
  <2> QED
    BY <2>2, <2>3
<1>5. CASE Open
  BY <1>0, <1>5 DEF Open, Refuse, VInv
<1>6. CASE Lstat
  BY <1>0, <1>6 DEF Lstat, Refuse, VInv, Verifying
<1>7. CASE Fstat
  <2>1. round = "verify" /\ round' = "verify" /\ fd # NoInode /\ fd' = fd /\ touched' = touched
    BY <1>7 DEF Fstat, VInv, Refuse, Allow
  <2>2. at' = at /\ seen' = seen /\ Names(fd)' = Names(fd) /\ pc' \in {"stat", "returned", "refused"}
    BY <1>7, <2>1 DEF Fstat, Names, Refuse, Allow
  <2>3. ASSUME ~ touched PROVE Verifying'
    <3>1. CASE seen # fd
      BY <1>7, <3>1 DEF Fstat, Refuse, Verifying
    <3>2. CASE seen = fd
      <4>1. at[Asked] = fd
        BY <1>7, <2>1, <2>3, <3>2 DEF Fstat, VInv, Verifying
      <4>2. ~ (Links(fd) > 1) => Names(fd) \cap Denied = {}
        BY <1>0, <2>1, <4>1, LinksNat, OneNameIsClean
      <4>3. pc' = "returned" => ~ (Links(fd) > 1)
        BY <1>7, <3>2 DEF Fstat
      <4> QED
        BY <2>1, <2>2, <4>1, <4>2, <4>3 DEF Verifying
    <3> QED
      BY <3>1, <3>2
  <2> QED
    BY <1>0, <2>1, <2>2, <2>3 DEF VInv
<1>8. ASSUME NEW new \in [Path -> Inode \union {NoInode}], Change(new) PROVE VInv'
  <2>1. pc' = pc /\ round' = round /\ fd' = fd /\ seen' = seen /\ pc # "returned"
    BY <1>8 DEF Change
  <2>2. ASSUME round = "verify", ~ touched' PROVE Verifying'
    <3>1. ~ touched /\ LosesOnly(new) /\ at' = new
      BY <1>8, <2>2 DEF Change
    <3>2. at'[Asked] = fd' /\ Names(fd)' \subseteq Names(fd)
      BY <2>1, <3>1 DEF LosesOnly, Names
    <3>3. ASSUME NEW C \in SUBSET Path, NEW N \in SUBSET Path, Tally(C, N) PROVE Tally(C, N)'
      BY <1>8, <2>1, <3>2, <3>3 DEF Tally, Change
    <3>4. Verifying
      BY <2>2, <3>1 DEF VInv
    <3>5. (\E C, N \in SUBSET Path : Tally(C, N)) => \E C, N \in SUBSET Path : Tally(C, N)'
      BY <3>3
    <3> QED
      BY <1>8, <2>1, <3>2, <3>4, <3>5 DEF Verifying, Change
  <2> QED
    BY <1>0, <2>1, <2>2 DEF VInv
<1>9. CASE OtherStep
  BY <1>0, <1>8, <1>9 DEF OtherStep, Rename, LinkTo, Unlink, Create, TypeOK
<1>10. CASE UNCHANGED readVars
  <2>1. Names(fd)' = Names(fd)
    BY <1>10 DEF readVars, Names
  <2>2. ASSUME NEW C \in SUBSET Path, NEW N \in SUBSET Path, Tally(C, N) PROVE Tally(C, N)'
    BY <1>10, <2>1, <2>2 DEF Tally, readVars
  <2> QED
    BY <1>0, <1>10, <2>1, <2>2 DEF VInv, Verifying, readVars
<1> QED
  BY <1>1, <1>2, <1>3, <1>4, <1>5, <1>6, <1>7, <1>9, <1>10 DEF ReadNext, ReadStep

\* A file that open_verified_read hands out has no denied name, unless it was
\* given a name or lost the asked one during the verification, for any number
\* of paths, directories and concurrent changes.  (verify_post_open)
THEOREM ReadCorrect == ReadSpec => []ReadIsClean
<1>1. ReadInit => VInv
  BY VInit
<1>2. VInv /\ [ReadNext]_readVars => VInv'
  BY VStep
<1>3. VInv => ReadIsClean
  BY DEF VInv, Verifying, ReadIsClean
<1> QED
  BY <1>1, <1>2, <1>3, PTL DEF ReadSpec
=============================================================================
