--------------------------- MODULE DmaMappingProofs ---------------------------
(***************************************************************************)
(* Proofs about DmaMapping: for any number of controllers, handles, threads *)
(* and pages, roll-backs and releases of the library's handles and of the   *)
(* programs leave nothing behind, never take away what something still held *)
(* rests on, and go wrong in the known places only.                         *)
(*                                                                          *)
(* Each constructor and each program is shown to have a trace (IsTrace): a  *)
(* set of resources for every step, from the sets for its parts.  That a    *)
(* call follows its trace is then kept by every action.                     *)
(***************************************************************************)
EXTENDS DmaMappingInv, FiniteSetTheorems, TLAPS

-----------------------------------------------------------------------------
(* Lists of releases *)

\* A release, then the releases m.
LEMMA ConsSeq ==
    ASSUME NEW a \in Res, NEW m \in Seq(Res)
    PROVE  /\ <<a>> \o m \in Seq(Res) /\ Len(<<a>> \o m) = Len(m) + 1
           /\ (<<a>> \o m)[1] = a
           /\ \A i \in 1..Len(m) : (<<a>> \o m)[i + 1] = m[i]
OBVIOUS

\* What has been released after the first i of m, when a comes before them
LEMMA ConsFirst ==
    ASSUME NEW a \in Res, NEW m \in Seq(Res), NEW i \in 0..Len(m)
    PROVE  First(<<a>> \o m, i + 1) = {a} \union First(m, i)
<1> DEFINE l == <<a>> \o m
<1>1. /\ l[1] = a /\ \A j \in 1..Len(m) : l[j + 1] = m[j]
  BY ConsSeq
<1> HIDE DEF l
<1>2. ASSUME NEW x \in First(l, i + 1) PROVE x \in {a} \union First(m, i)
  <2>1. PICK j \in 1..(i + 1) : x = l[j]
    BY <1>2 DEF First
  <2>2. CASE j = 1
    BY <2>1, <2>2, <1>1
  <2>3. CASE j # 1
    <3>1. j - 1 \in 1..i /\ j - 1 \in 1..Len(m) /\ j = (j - 1) + 1
      BY <2>3
    <3>2. x = m[j - 1]
      BY <3>1, <2>1, <1>1
    <3> QED BY <3>1, <3>2 DEF First
  <2> QED BY <2>2, <2>3
<1>3. ASSUME NEW x \in {a} \union First(m, i) PROVE x \in First(l, i + 1)
  <2>1. CASE x = a
    <3>1. 1 \in 1..(i + 1)
      OBVIOUS
    <3> QED BY <3>1, <2>1, <1>1 DEF First
  <2>2. CASE x # a
    <3>1. PICK j \in 1..i : x = m[j]
      BY <2>2, <1>3 DEF First
    <3>2. j + 1 \in 1..(i + 1) /\ j \in 1..Len(m) /\ x = l[j + 1]
      BY <3>1, <1>1
    <3> QED BY <3>2 DEF First
  <2> QED BY <2>1, <2>2
<1> QED BY <1>2, <1>3 DEF l

\* Nothing has been released at first.
LEMMA FirstZero == \A l : First(l, 0) = {}
BY DEF First

\* What a list of releases gives back, by its head
LEMMA ConsElems ==
    ASSUME NEW a \in Res, NEW m \in Seq(Res)
    PROVE  Elems(<<a>> \o m) = {a} \union Elems(m)
<1>1. Len(m) \in 0..Len(m) /\ Len(<<a>> \o m) = Len(m) + 1
  BY ConsSeq
<1> QED BY <1>1, ConsFirst DEF Elems

\* No release is harmless.
LEMMA RelNil ==
    ASSUME NEW k, NEW ph, NEW at, NEW S, Rests(k, ph = "throw", S)
    PROVE  Rel(k, ph, at, S, <<>>)
<1>1. S \ First(<<>>, 0) = S /\ Len(<<>>) = 0
  BY FirstZero
<1>2. \A i \in 0..Len(<<>>) : i = 0
  OBVIOUS
<1>3. \A i \in 0..Len(<<>>) : Rests(k, ph = "throw", S \ First(<<>>, i))
  BY <1>1, <1>2
<1>4. 1..Len(<<>>) = {}
  OBVIOUS
<1> QED BY <1>3, <1>4 DEF Rel

\* A harmless release followed by harmless releases
LEMMA RelCons ==
    ASSUME NEW k, NEW ph, NEW at, NEW S, NEW a \in Res, NEW m \in Seq(Res),
           Rests(k, ph = "throw", S),
           Harmless(k, at, a, S) \/ Known(k, ph, at, S),
           Rel(k, ph, at, S \ {a}, m)
    PROVE  Rel(k, ph, at, S, <<a>> \o m)
<1> DEFINE l == <<a>> \o m
<1>1. /\ l \in Seq(Res) /\ Len(l) = Len(m) + 1 /\ Len(m) \in Nat
      /\ l[1] = a /\ \A j \in 1..Len(m) : l[j + 1] = m[j]
  BY ConsSeq
<1>2. /\ S \ First(l, 0) = S
      /\ \A i \in 0..Len(m) : S \ First(l, i + 1) = (S \ {a}) \ First(m, i)
  BY ConsFirst, FirstZero
<1> HIDE DEF l
<1>3. ASSUME NEW i \in 1..Len(l)
      PROVE  Harmless(k, at, l[i], S \ First(l, i - 1)) \/ Known(k, ph, at, S \ First(l, i - 1))
  <2>1. CASE i = 1
    <3>1. i - 1 = 0
      BY <2>1
    <3> QED BY <2>1, <3>1, <1>1, <1>2
  <2>2. CASE i # 1
    <3>0. PICK j \in 1..Len(m) : i = j + 1
      <4>1. i - 1 \in 1..Len(m) /\ i = (i - 1) + 1
        BY <2>2, <1>1
      <4> QED BY <4>1
    <3>1. j \in 0..Len(m) /\ j - 1 \in 0..Len(m) /\ i - 1 = (j - 1) + 1
      BY <3>0, <1>1
    <3>2. l[i] = m[j] /\ S \ First(l, i - 1) = (S \ {a}) \ First(m, j - 1)
      BY <3>0, <3>1, <1>1, <1>2
    <3>3. \/ Harmless(k, at, m[j], (S \ {a}) \ First(m, j - 1))
          \/ Known(k, ph, at, (S \ {a}) \ First(m, j - 1))
      BY DEF Rel
    <3> QED BY <3>2, <3>3
  <2> QED BY <2>1, <2>2
<1>4. ASSUME NEW i \in 0..Len(l) PROVE Rests(k, ph = "throw", S \ First(l, i))
  <2>1. CASE i = 0
    BY <2>1, <1>2
  <2>2. CASE i # 0
    <3>0. PICK j \in 0..Len(m) : i = j + 1
      <4>1. i - 1 \in 0..Len(m) /\ i = (i - 1) + 1
        BY <2>2, <1>1
      <4> QED BY <4>1
    <3>1. S \ First(l, i) = (S \ {a}) \ First(m, j)
      BY <3>0, <1>2
    <3>2. Rests(k, ph = "throw", (S \ {a}) \ First(m, j))
      BY DEF Rel
    <3> QED BY <3>1, <3>2
  <2> QED BY <2>1, <2>2
<1> QED BY <1>3, <1>4 DEF Rel, l

\* What follows the first of harmless releases is harmless.
LEMMA RelTail ==
    ASSUME NEW k, NEW ph, NEW at, NEW S, NEW l \in Seq(Res), l # <<>>, Rel(k, ph, at, S, l)
    PROVE  /\ Harmless(k, at, Head(l), S) \/ Known(k, ph, at, S)
           /\ Rel(k, ph, at, S \ {Head(l)}, Tail(l))
           /\ Elems(l) = {Head(l)} \union Elems(Tail(l))
           /\ Head(l) \in Res /\ Tail(l) \in Seq(Res)
           /\ Rests(k, ph = "throw", S)
<1>1. PICK a \in Res, m \in Seq(Res) : l = <<a>> \o m /\ a = Head(l) /\ m = Tail(l)
  <2>1. Head(l) \in Res /\ Tail(l) \in Seq(Res) /\ l = <<Head(l)>> \o Tail(l)
    OBVIOUS
  <2> QED BY <2>1
<1>2. /\ Len(l) = Len(m) + 1 /\ Len(m) \in Nat
      /\ l[1] = a /\ \A j \in 1..Len(m) : l[j + 1] = m[j]
  BY <1>1, ConsSeq
<1>3. /\ S \ First(l, 0) = S
      /\ \A i \in 0..Len(m) : S \ First(l, i + 1) = (S \ {a}) \ First(m, i)
  <2>1. ASSUME NEW i \in 0..Len(m) PROVE S \ First(l, i + 1) = (S \ {a}) \ First(m, i)
    <3>1. First(<<a>> \o m, i + 1) = {a} \union First(m, i)
      BY ConsFirst
    <3> QED BY <3>1, <1>1
  <2> QED BY <2>1, FirstZero
<1>4. Harmless(k, at, a, S) \/ Known(k, ph, at, S)
  <2>1. 1 \in 1..Len(l) /\ 1 - 1 = 0
    BY <1>2
  <2>2. \/ Harmless(k, at, l[1], S \ First(l, 1 - 1)) \/ Known(k, ph, at, S \ First(l, 1 - 1))
    BY <2>1 DEF Rel
  <2> QED BY <2>1, <2>2, <1>2, <1>3
<1>5. Rel(k, ph, at, S \ {a}, m)
  <2>1. ASSUME NEW i \in 1..Len(m)
        PROVE  \/ Harmless(k, at, m[i], (S \ {a}) \ First(m, i - 1))
               \/ Known(k, ph, at, (S \ {a}) \ First(m, i - 1))
    <3>1. i + 1 \in 1..Len(l) /\ (i + 1) - 1 = (i - 1) + 1 /\ i - 1 \in 0..Len(m)
      BY <1>2
    <3>2. \/ Harmless(k, at, l[i + 1], S \ First(l, (i + 1) - 1))
          \/ Known(k, ph, at, S \ First(l, (i + 1) - 1))
      BY <3>1 DEF Rel
    <3>3. S \ First(l, (i + 1) - 1) = (S \ {a}) \ First(m, i - 1) /\ l[i + 1] = m[i]
      BY <3>1, <1>2, <1>3
    <3> QED BY <3>2, <3>3
  <2>2. ASSUME NEW i \in 0..Len(m) PROVE Rests(k, ph = "throw", (S \ {a}) \ First(m, i))
    <3>1. i + 1 \in 0..Len(l)
      BY <1>2
    <3>2. Rests(k, ph = "throw", S \ First(l, i + 1))
      BY <3>1 DEF Rel
    <3> QED BY <3>2, <1>3
  <2> QED BY <2>1, <2>2 DEF Rel
<1>6. Rests(k, ph = "throw", S)
  <2>1. 0 \in 0..Len(l)
    BY <1>2
  <2> QED BY <2>1, <1>3 DEF Rel
<1>7. Elems(l) = {a} \union Elems(m)
  BY <1>1, ConsElems
<1> QED BY <1>1, <1>4, <1>5, <1>6, <1>7

\* Nothing is to be released where only that is held which may be left.
LEMMA FreesNil ==
    ASSUME NEW k, NEW ph, NEW at, NEW S, Rests(k, ph = "throw", S),
           S \subseteq Left(k, ph = "throw")
    PROVE  Frees(k, ph, at, S, <<>>)
BY RelNil DEF Frees

\* A harmless release, after which the rest is released as it should
LEMMA FreesCons ==
    ASSUME NEW k, NEW ph, NEW at, NEW S, NEW a \in Res, NEW m \in Seq(Res),
           Rests(k, ph = "throw", S),
           Harmless(k, at, a, S) \/ Known(k, ph, at, S),
           Frees(k, ph, at, S \ {a}, m)
    PROVE  Frees(k, ph, at, S, <<a>> \o m)
<1>1. Rel(k, ph, at, S, <<a>> \o m)
  BY RelCons DEF Frees
<1>2. S \ Elems(<<a>> \o m) = (S \ {a}) \ Elems(m)
  BY ConsElems
<1> QED BY <1>1, <1>2 DEF Frees

-----------------------------------------------------------------------------
(* Steps *)

\* Fields of structures are resources.
LEMMA StructRes == \A s \in Structs, x \in Fields : R(s, x) \in Res
BY DEF Res, R

\* So are pointers.
LEMMA PointerRes == \A x \in Pointers : var(x) \in Res /\ loc(x) \in Res
BY DEF Res, R, var, loc

\* So are the optional ones, and no resource.
LEMMA NoneRes == None \in Res /\ SISCI \in Res /\ Bindings \in Res
<1>1. None \in Res
  BY DEF Res
<1>2. SISCI \in Res
  BY PointerRes DEF SISCI, Pointers
<1>3. Bindings \in Res
  BY StructRes DEF Bindings, Structs, Fields
<1> QED BY <1>1, <1>2, <1>3

\* A single step that is right
LEMMA OneStep ==
    ASSUME NEW k, NEW b, NEW S \in SUBSET Res, NEW V \in SUBSET Res, NEW s \in Steps,
           \A f : f[1] = S /\ f[2] = V => StepOk(k, b, f, s, 1, 1)
    PROVE  Good(k, b, S, <<s>>, V)
<1> DEFINE f == [i \in 1..2 |-> IF i = 1 THEN S ELSE V]
<1>1. f \in [1..2 -> SUBSET Res] /\ f[1] = S /\ f[2] = V
  OBVIOUS
<1>2. <<s>> \in Seq(Steps) /\ Len(<<s>>) = 1 /\ Len(<<s>>) + 1 = 2 /\ <<s>>[1] = s
  OBVIOUS
<1> HIDE DEF f
<1>3. \A i \in 1..Len(<<s>>) : StepOk(k, b, f, <<s>>[i], i, Len(<<s>>))
  <2>1. \A i \in 1..Len(<<s>>) : i = 1
    BY <1>2
  <2>2. StepOk(k, b, f, s, 1, 1)
    BY <1>1
  <2> QED BY <2>1, <2>2, <1>2
<1> QED BY <1>1, <1>2, <1>3 DEF Good

\* A step that takes a resource, and whose undo list fits what is held before it
LEMMA GoodGet ==
    ASSUME NEW k, NEW b, NEW S \in SUBSET Res, NEW r \in Res, NEW undo \in Seq(Res),
           TakesOk(k, r), Rests(k, FALSE, S \union Core({r})),
           r # R("ctrl", "mmap") => Frees(k, Undo(k, b), At(k, S), S, undo)
    PROVE  Good(k, b, S, Get(r, undo), S \union Core({r}))
<1> DEFINE s == [get |-> r, drop |-> <<>>, undo |-> undo, skip |-> 0]
           V == S \union Core({r})
<1>1. s \in Steps
  BY DEF Steps
<1>2. V \in SUBSET Res
  BY DEF Core
<1>3. s.get = r /\ s.drop = <<>> /\ s.undo = undo /\ s.skip = 0
  OBVIOUS
<1> HIDE DEF s
<1>4. ASSUME NEW f, f[1] = S, f[2] = V PROVE StepOk(k, b, f, s, 1, 1)
  <2>1. 1 + 1 = 2
    OBVIOUS
  <2>2. r # R("ctrl", "mmap") => FailOk(k, b, f, s, 1, 1)
    BY <1>3, <1>4 DEF FailOk
  <2> QED BY <1>3, <1>4, <2>1, <2>2 DEF StepOk
<1> HIDE DEF V
<1>5. Good(k, b, S, <<s>>, V)
  BY <1>1, <1>2, <1>4, OneStep
<1> QED BY <1>5 DEF s, V, Get

\* A step that only checks something
LEMMA GoodCheck ==
    ASSUME NEW k, NEW b, NEW S \in SUBSET Res, NEW undo \in Seq(Res),
           Rests(k, FALSE, S), Frees(k, Undo(k, b), At(k, S), S, undo)
    PROVE  Good(k, b, S, Check(undo), S)
<1>1. S \union Core({None}) = S
  BY DEF Core
<1>2. TakesOk(k, None)
  BY DEF TakesOk, None, Bindings, SISCI, R, var
<1>3. None # R("ctrl", "mmap")
  BY DEF None, R
<1>4. Rests(k, FALSE, S \union Core({None}))
  BY <1>1
<1>5. Good(k, b, S, Get(None, undo), S \union Core({None}))
  BY <1>2, <1>3, <1>4, NoneRes, GoodGet
<1> QED BY <1>1, <1>5 DEF Check

\* A step that releases something
LEMMA GoodDrop ==
    ASSUME NEW k, NEW b, NEW S \in SUBSET Res, NEW l \in Seq(Res), l # <<>>,
           k \notin KeepKinds, Rel(k, "build", {}, S, l)
    PROVE  Good(k, b, S, Drop(l), S \ Elems(l))
<1> DEFINE s == [get |-> None, drop |-> l, undo |-> <<>>, skip |-> 0]
           V == S \ Elems(l)
<1>1. s \in Steps /\ V \in SUBSET Res
  <2>1. <<>> \in Seq(Res)
    OBVIOUS
  <2> QED BY <2>1, NoneRes DEF Steps
<1>3. s.get = None /\ s.drop = l
  OBVIOUS
<1> HIDE DEF s
<1>4. ASSUME NEW f, f[1] = S, f[2] = V PROVE StepOk(k, b, f, s, 1, 1)
  <2>1. 1 + 1 = 2
    OBVIOUS
  <2> QED BY <1>3, <1>4, <2>1 DEF StepOk
<1> HIDE DEF V
<1>5. Good(k, b, S, <<s>>, V)
  BY <1>1, <1>4, OneStep
<1> QED BY <1>5 DEF s, V, Drop

\* A step is right in a longer sequence, if it is in a part of it.
LEMMA StepOkMoves ==
    ASSUME NEW k, NEW b, NEW f, NEW g, NEW s \in Steps, NEW i \in Nat, NEW n \in Nat, NEW j \in Nat,
           NEW m \in Nat, i \in 1..n, n + j <= m,
           \A p \in 1..(n + 1) : g[p + j] = f[p],
           StepOk(k, b, f, s, i, n)
    PROVE  StepOk(k, b, g, s, i + j, m)
<1>1. i \in 1..(n + 1) /\ i + 1 \in 1..(n + 1) /\ (i + j) + 1 = (i + 1) + j /\ s.skip \in Nat
  BY DEF Steps
<1>2. g[i + j] = f[i] /\ g[(i + j) + 1] = f[i + 1]
  BY <1>1
<1>3. ASSUME FailOk(k, b, f, s, i, n) PROVE FailOk(k, b, g, s, i + j, m)
  <2>1. CASE s.skip = 0
    BY <1>2, <1>3, <2>1 DEF FailOk
  <2>2. CASE s.skip # 0
    <3>1. /\ k \notin KeepKinds /\ i + s.skip <= n + 1 /\ Rel(k, "build", {}, f[i], s.undo)
          /\ f[i + s.skip] = f[i] \ Elems(s.undo)
      BY <1>3, <2>2 DEF FailOk
    <3>2. /\ i + s.skip \in 1..(n + 1) /\ (i + j) + s.skip = (i + s.skip) + j
          /\ (i + j) + s.skip <= m + 1
      BY <3>1, <1>1, <2>2
    <3>3. g[(i + j) + s.skip] = f[i + s.skip]
      BY <3>2
    <3> QED BY <3>1, <3>2, <3>3, <1>2, <2>2 DEF FailOk
  <2> QED BY <2>1, <2>2
<1> QED BY <1>2, <1>3 DEF StepOk

\* Steps that take S to V, followed by steps that take V to W
LEMMA GoodCat ==
    ASSUME NEW k, NEW b, NEW S, NEW V, NEW W, NEW s, NEW t,
           Good(k, b, S, s, V), Good(k, b, V, t, W)
    PROVE  Good(k, b, S, s \o t, W)
<1> DEFINE n == Len(s)
           m == Len(t)
           u == s \o t
<1>1. s \in Seq(Steps) /\ t \in Seq(Steps) /\ n \in Nat /\ m \in Nat
  BY DEF Good
<1>2. /\ u \in Seq(Steps) /\ Len(u) = n + m
      /\ \A i \in 1..n : u[i] = s[i]
      /\ \A i \in 1..m : u[i + n] = t[i]
  BY <1>1
<1>3. PICK f \in [1..(n + 1) -> SUBSET Res] :
         /\ f[1] = S /\ f[n + 1] = V /\ \A i \in 1..n : StepOk(k, b, f, s[i], i, n)
  BY DEF Good
<1>4. PICK g \in [1..(m + 1) -> SUBSET Res] :
         /\ g[1] = V /\ g[m + 1] = W /\ \A i \in 1..m : StepOk(k, b, g, t[i], i, m)
  BY DEF Good
<1> DEFINE h == [i \in 1..(n + m + 1) |-> IF i <= n THEN f[i] ELSE g[i - n]]
<1>5. /\ h \in [1..(n + m + 1) -> SUBSET Res]
      /\ \A i \in 1..(n + 1) : h[i] = f[i]
      /\ \A i \in 1..(m + 1) : h[i + n] = g[i]
  <2>1. ASSUME NEW i \in 1..(n + m + 1) PROVE (IF i <= n THEN f[i] ELSE g[i - n]) \in SUBSET Res
    <3>1. CASE i <= n
      <4>1. i \in 1..(n + 1)
        BY <3>1, <1>1
      <4> QED BY <3>1, <4>1, <1>3
    <3>2. CASE ~(i <= n)
      <4>1. i - n \in 1..(m + 1)
        BY <3>2, <1>1
      <4> QED BY <3>2, <4>1, <1>4
    <3> QED BY <3>1, <3>2
  <2>2. ASSUME NEW i \in 1..(n + 1) PROVE h[i] = f[i]
    <3>1. i \in 1..(n + m + 1) /\ (~(i <= n) => i = n + 1 /\ i - n = 1)
      BY <1>1
    <3> QED BY <3>1, <1>3, <1>4
  <2>3. ASSUME NEW i \in 1..(m + 1) PROVE h[i + n] = g[i]
    <3>1. i + n \in 1..(n + m + 1) /\ ~(i + n <= n) /\ (i + n) - n = i
      BY <1>1
    <3> QED BY <3>1
  <2> QED BY <2>1, <2>2, <2>3
<1> HIDE DEF h, u, n, m
<1>6. h[1] = S /\ h[n + m + 1] = W
  <2>1. 1 \in 1..(n + 1) /\ m + 1 \in 1..(m + 1) /\ n + m + 1 = (m + 1) + n
    BY <1>1
  <2> QED BY <2>1, <1>3, <1>4, <1>5
<1>7. ASSUME NEW i \in 1..(n + m) PROVE StepOk(k, b, h, u[i], i, n + m)
  <2>1. CASE i <= n
    <3>1. /\ i \in 1..n /\ i \in Nat /\ i + 0 = i /\ n + 0 <= n + m /\ n + m \in Nat /\ 0 \in Nat
          /\ \A p \in 1..(n + 1) : h[p + 0] = f[p]
      BY <2>1, <1>1, <1>5
    <3>2. StepOk(k, b, f, s[i], i, n) /\ s[i] \in Steps
      BY <3>1, <1>1, <1>3 DEF n
    <3>3. StepOk(k, b, h, s[i], i + 0, n + m)
      BY <3>1, <3>2, <1>1, StepOkMoves
    <3> QED BY <3>1, <3>3, <1>2
  <2>2. CASE ~(i <= n)
    <3>0. PICK j \in 1..m : i = j + n
      <4>1. i - n \in 1..m /\ i = (i - n) + n
        BY <2>2, <1>1
      <4> QED BY <4>1
    <3>1. j \in Nat /\ m + n <= n + m /\ n + m \in Nat
      BY <1>1
    <3>2. StepOk(k, b, g, t[j], j, m) /\ t[j] \in Steps
      BY <1>1, <1>4 DEF m
    <3>3. StepOk(k, b, h, t[j], j + n, n + m)
      BY <3>1, <3>2, <1>1, <1>5, StepOkMoves
    <3> QED BY <3>0, <3>3, <1>2
  <2> QED BY <2>1, <2>2
<1>8. \E hh \in [1..(Len(u) + 1) -> SUBSET Res] :
         /\ hh[1] = S /\ hh[Len(u) + 1] = W
         /\ \A i \in 1..Len(u) : StepOk(k, b, hh, u[i], i, Len(u))
  BY <1>2, <1>5, <1>6, <1>7
<1>9. Good(k, b, S, u, W)
  BY <1>2, <1>8 DEF Good
<1> QED BY <1>9 DEF u

\* Lists of releases may be grouped either way.
LEMMA Assoc ==
    ASSUME NEW l \in Seq(Res), NEW m \in Seq(Res), NEW n \in Seq(Res)
    PROVE  (l \o m) \o n = l \o (m \o n)
OBVIOUS

\* Lists of releases, one after the other, are one.
LEMMA CatSeq == ASSUME NEW l \in Seq(Res), NEW m \in Seq(Res) PROVE l \o m \in Seq(Res)
OBVIOUS

\* No more releases
LEMMA CatNil == ASSUME NEW l \in Seq(Res) PROVE l \o <<>> = l
OBVIOUS

\* Two releases are one after the other.
LEMMA Pairs ==
    ASSUME NEW a \in Res, NEW c \in Res
    PROVE  <<a, c>> = <<a>> \o <<c>> /\ <<a>> \in Seq(Res) /\ <<c>> \in Seq(Res)
<1> DEFINE u == <<a>> \o <<c>>
<1>1. u \in Seq(Res) /\ Len(u) = 2 /\ u[1] = a /\ u[2] = c
  OBVIOUS
<1> HIDE DEF u
<1>2. <<a, c>> \in Seq(Res) /\ Len(<<a, c>>) = 2
  OBVIOUS
<1>3. u = <<a, c>>
  BY <1>1, <1>2
<1>4. <<a>> \in Seq(Res) /\ <<c>> \in Seq(Res)
  OBVIOUS
<1> QED BY <1>3, <1>4 DEF u

\* Two releases before a list
LEMMA PairCat ==
    ASSUME NEW a \in Res, NEW c \in Res, NEW m \in Seq(Res)
    PROVE  <<a, c>> \o m = <<a>> \o (<<c>> \o m)
BY Pairs, Assoc

\* What rests on something that is held does so when the constructor has thrown, too.
LEMMA RestsThrown ==
    ASSUME NEW k, NEW S, NEW t \in BOOLEAN, Rests(k, FALSE, S)
    PROVE  Rests(k, t, S)
BY DEF Rests, ProgramRests

\* A resource that is held is released.
LEMMA FreesHeld ==
    ASSUME NEW k, NEW ph, NEW at, NEW S, NEW r \in Res, NEW l \in Seq(Res),
           r \notin S, Rests(k, FALSE, S \union {r}),
           r = R("seg", "sd") => R("seg", "mem") \in S,
           Frees(k, ph, at, S, l)
    PROVE  Frees(k, ph, at, S \union {r}, <<r>> \o l)
<1>1. Rests(k, ph = "throw", S \union {r})
  BY RestsThrown
<1>2. Harmless(k, at, r, S \union {r})
  <2>1. r[1] \in InMemory => R(r[1], "mem") \in S \union {r}
    BY DEF Rests, Stored, R
  <2> QED BY <2>1 DEF Harmless, Releasable
<1>3. (S \union {r}) \ {r} = S
  OBVIOUS
<1> QED BY <1>1, <1>2, <1>3, FreesCons

\* The release of what is not held is harmless if nothing needs to be held.
LEMMA FreesSkip ==
    ASSUME NEW k, NEW ph, NEW at, NEW S, NEW r \in Res, NEW l \in Seq(Res),
           r \notin S, r \in Conditional \/ (k \in NullKinds /\ r[1] = "var" /\ r \notin at),
           r[1] \in InMemory => R(r[1], "mem") \in S,
           Frees(k, ph, at, S, l)
    PROVE  Frees(k, ph, at, S, <<r>> \o l)
<1>1. Rests(k, ph = "throw", S)
  <2>1. S \ First(l, 0) = S /\ 0 \in 0..Len(l)
    BY FirstZero
  <2> QED BY <2>1 DEF Frees, Rel
<1>2. Harmless(k, at, r, S)
  BY DEF Harmless, Releasable
<1>3. S \ {r} = S
  OBVIOUS
<1> QED BY <1>1, <1>2, <1>3, FreesCons

Plain == Res \ (Optionals \union {None, R("ctrl", "mmap"), R("md", "pages")})

\* Resources that any constructor may take
LEMMA PlainTakes == \A k, r : r \in Plain
      => TakesOk(k, r) /\ Core({r}) = {r} /\ r # R("ctrl", "mmap")
BY DEF Plain, TakesOk, Core, Optionals

\* A resource is taken, and given back when a later step fails.
LEMMA Take ==
    ASSUME NEW k, k \notin KeepKinds, NEW b, NEW S \in SUBSET Res, NEW r \in Plain,
           NEW undo \in Seq(Res),
           r \notin S, Rests(k, FALSE, S \union {r}),
           r = R("seg", "sd") => R("seg", "mem") \in S,
           Frees(k, Undo(k, b), {}, S, undo)
    PROVE  /\ Good(k, b, S, Get(r, undo), S \union {r})
           /\ Frees(k, Undo(k, b), {}, S \union {r}, <<r>> \o undo)
           /\ <<r>> \o undo \in Seq(Res) /\ S \union {r} \in SUBSET Res
<1>1. r \in Res /\ At(k, S) = {} /\ TakesOk(k, r) /\ Core({r}) = {r}
  BY PlainTakes DEF Plain, At
<1>2. Rests(k, FALSE, S \union Core({r})) /\ Frees(k, Undo(k, b), At(k, S), S, undo)
  BY <1>1
<1>3. Good(k, b, S, Get(r, undo), S \union Core({r}))
  BY <1>1, <1>2, GoodGet
<1>4. Good(k, b, S, Get(r, undo), S \union {r})
  BY <1>1, <1>3
<1>5. Frees(k, Undo(k, b), {}, S \union {r}, <<r>> \o undo)
  BY <1>1, FreesHeld
<1> QED BY <1>1, <1>4, <1>5

\* A check, in a call that does not keep what it tried to take
LEMMA Checked ==
    ASSUME NEW k, k \notin KeepKinds, NEW b, NEW S \in SUBSET Res, NEW undo \in Seq(Res),
           Rests(k, FALSE, S), Frees(k, Undo(k, b), {}, S, undo)
    PROVE  Good(k, b, S, Check(undo), S)
<1>1. At(k, S) = {}
  BY DEF At
<1> QED BY <1>1, GoodCheck

-----------------------------------------------------------------------------
(* The library's constructors: src/ctrl.c, src/dma.c and src/dis *)

LibKinds == CtrlKinds \union DmaKinds

\* The library's constructors: their failures release, and they run once.
LEMMA LibFacts ==
    ASSUME NEW k \in LibKinds
    PROVE  /\ k \notin ProgKinds /\ k \notin KeepKinds
           /\ \A b : Undo(k, b) = "release"
           /\ \A S : At(k, S) = {}
           /\ \A S, t : Backed(k, S) /\ Stored(S) => Rests(k, t, S)
BY DEF LibKinds, CtrlKinds, DmaKinds, ProgKinds, LatKinds, Undo, At, KeepKinds,
    NullKinds,
       KernKinds, DisKinds, SegKinds, Rests

\* A constructor of the library takes something, and gives it back when a later step fails.
LEMMA TakeLib ==
    ASSUME NEW k \in LibKinds, NEW b, NEW S \in SUBSET Res, NEW r \in Plain, NEW undo \in Seq(Res),
           r \notin S, Rests(k, FALSE, S \union {r}),
           r = R("seg", "sd") => R("seg", "mem") \in S,
           Frees(k, "release", {}, S, undo)
    PROVE  /\ Good(k, b, S, Get(r, undo), S \union {r})
           /\ Frees(k, "release", {}, S \union {r}, <<r>> \o undo)
           /\ <<r>> \o undo \in Seq(Res) /\ S \union {r} \in SUBSET Res
<1>1. k \notin KeepKinds /\ Undo(k, b) = "release"
  BY LibFacts
<1>2. Frees(k, Undo(k, b), {}, S, undo)
  BY <1>1
<1>3. /\ Good(k, b, S, Get(r, undo), S \union {r})
      /\ Frees(k, Undo(k, b), {}, S \union {r}, <<r>> \o undo)
      /\ <<r>> \o undo \in Seq(Res) /\ S \union {r} \in SUBSET Res
  BY <1>1, <1>2, Take
<1> QED BY <1>1, <1>3

\* The fields of the library's handles
LEMMA PlainFields ==
    /\ \A x \in {"dev", "ref", "md", "seg"} : R(x, "sd") \in Plain /\ R(x, "device") \in Plain
    /\ \A x \in {"ref", "seg"} : R(x, "segment") \in Plain
    /\ \A x \in {"ref", "md"} : R(x, "va") \in Plain
    /\ \A x \in {"ref", "md", "seg", "dma", "tmp", "ctrl"} : R(x, "mem") \in Plain
    /\ R("md", "io") \in Plain /\ R("md", "fd") \in Plain /\ R("ctrl", "fd") \in Plain
BY DEF Plain, Res, Structs, Fields, R, Optionals, SISCI, Bindings, var, None

\* device_get borrows a device and device_put returns it.
LEMMA DeviceGet ==
    ASSUME NEW k \in LibKinds, NEW b, NEW S \in SUBSET Res, NEW undo \in Seq(Res),
           NEW x \in {"dev", "ref", "md", "seg"},
           R(x, "sd") \notin S, R(x, "device") \notin S, R(x, "segment") \notin S,
           x # "dev" => R(x, "mem") \in S,
           Rests(k, FALSE, S), Frees(k, "release", {}, S, undo)
    PROVE  /\ Good(k, b, S, device_get(x, undo), (S \union {R(x, "sd")}) \union {R(x, "device")})
           /\ Rests(k, FALSE, (S \union {R(x, "sd")}) \union {R(x, "device")})
           /\ Frees(k, "release", {}, (S \union {R(x, "sd")}) \union {R(x, "device")},
                    device_put(x) \o undo)
           /\ device_put(x) \o undo \in Seq(Res)
<1> DEFINE S1 == S \union {R(x, "sd")}
           S2 == S1 \union {R(x, "device")}
           u1 == <<R(x, "sd")>> \o undo
           u2 == <<R(x, "device")>> \o u1
<1>1. R(x, "sd") \in Plain /\ R(x, "device") \in Plain /\ R(x, "sd") \in Res
      /\ R(x, "device") \in Res
  BY PlainFields DEF Plain
<1>2. Backed(k, S) /\ Stored(S)
  BY DEF Rests
<1>3. Rests(k, FALSE, S1)
  <2>1. Backed(k, S1)
    BY <1>2 DEF Backed, R
  <2>2. Stored(S1)
    BY <1>2 DEF Stored, R, InMemory
  <2> QED BY <2>1, <2>2, LibFacts
<1>4. Rests(k, FALSE, S2)
  <2>1. Backed(k, S2)
    BY <1>2 DEF Backed, R
  <2>2. Stored(S2)
    BY <1>2 DEF Stored, R, InMemory
  <2> QED BY <2>1, <2>2, LibFacts
<1>5. /\ Good(k, b, S, Get(R(x, "sd"), undo), S1) /\ Frees(k, "release", {}, S1, u1)
      /\ u1 \in Seq(Res) /\ S1 \in SUBSET Res
  BY <1>1, <1>3, TakeLib DEF R
<1>6. R(x, "device") \notin S1
  BY DEF R
<1>7. /\ Good(k, b, S1, Get(R(x, "device"), u1), S2) /\ Frees(k, "release", {}, S2, u2)
      /\ u2 \in Seq(Res)
  <2> HIDE DEF S1, u1
  <2>1. R(x, "device") # R("seg", "sd")
    BY DEF R
  <2> QED BY <1>1, <1>4, <1>5, <1>6, <2>1, TakeLib
<1>8. Good(k, b, S, device_get(x, undo), S2)
  BY <1>5, <1>7, GoodCat DEF device_get
<1>9. device_put(x) \o undo = u2
  BY <1>1, PairCat DEF device_put
<1> QED BY <1>4, <1>7, <1>8, <1>9

\* A constructor of the library checks something.
LEMMA CheckLib ==
    ASSUME NEW k \in LibKinds, NEW b, NEW S \in SUBSET Res, NEW undo \in Seq(Res),
           Rests(k, FALSE, S), Frees(k, "release", {}, S, undo)
    PROVE  Good(k, b, S, Check(undo), S)
<1>1. k \notin KeepKinds /\ Undo(k, b) = "release"
  BY LibFacts
<1>2. Frees(k, Undo(k, b), {}, S, undo)
  BY <1>1
<1> QED BY <1>1, <1>2, Checked

\* A constructor starts with nothing.
LEMMA Nothing0 ==
    ASSUME NEW k \in LibKinds
    PROVE  /\ Rests(k, FALSE, {}) /\ Frees(k, "release", {}, {}, <<>>)
           /\ {} \in SUBSET Res /\ <<>> \in Seq(Res)
<1>1. \A t : Rests(k, t, {})
  BY LibFacts DEF Backed, Stored
<1>2. {} \in SUBSET Res /\ <<>> \in Seq(Res)
  OBVIOUS
<1> QED BY <1>1, <1>2, FreesNil

\* The first step of a constructor: the memory of a structure
LEMMA MemTaken ==
    ASSUME NEW k \in LibKinds, NEW b, NEW x \in {"md", "ctrl", "dma"}
    PROVE  /\ Good(k, b, {}, Get(R(x, "mem"), <<>>), {R(x, "mem")})
           /\ Frees(k, "release", {}, {R(x, "mem")}, Mem(x))
           /\ Rests(k, FALSE, {R(x, "mem")})
           /\ Mem(x) \in Seq(Res) /\ {R(x, "mem")} \in SUBSET Res
<1>1. R(x, "mem") \in Plain /\ R(x, "mem") \in Res /\ {} \union {R(x, "mem")} = {R(x, "mem")}
  BY PlainFields DEF Plain
<1>2. Rests(k, FALSE, {R(x, "mem")})
  <2>1. Backed(k, {R(x, "mem")}) /\ Stored({R(x, "mem")})
    BY DEF Backed, Stored, R, InMemory
  <2> QED BY <2>1, LibFacts
<1>3. R(x, "mem") # R("seg", "sd")
  BY DEF R
<1>4. /\ Good(k, b, {}, Get(R(x, "mem"), <<>>), {} \union {R(x, "mem")})
      /\ Frees(k, "release", {}, {} \union {R(x, "mem")}, <<R(x, "mem")>> \o <<>>)
  BY <1>1, <1>2, <1>3, Nothing0, TakeLib
<1>5. <<R(x, "mem")>> \in Seq(Res) /\ <<R(x, "mem")>> \o <<>> = <<R(x, "mem")>>
  BY <1>1
<1> QED BY <1>1, <1>2, <1>4, <1>5 DEF Mem

\* nvm_raw_ctrl_init and nvm_ctrl_free
LEMMA RawGood ==
    ASSUME NEW b
    PROVE  /\ Good("raw", b, {}, nvm_raw_ctrl_init, {R("ctrl", "mem")})
           /\ Frees("raw", "release", {}, {R("ctrl", "mem")}, nvm_ctrl_free("raw"))
<1>1. "raw" \in LibKinds
  BY DEF LibKinds, CtrlKinds
<1>2. Good("raw", b, {R("ctrl", "mem")}, Check(Mem("ctrl")), {R("ctrl", "mem")})
  BY <1>1, MemTaken, CheckLib
<1>3. Good("raw", b, {}, nvm_raw_ctrl_init, {R("ctrl", "mem")})
  BY <1>1, <1>2, MemTaken, GoodCat DEF nvm_raw_ctrl_init, create_container,
      initialize_handle
<1> QED BY <1>1, <1>3, MemTaken DEF nvm_ctrl_free

\* nvm_dma_map and nvm_dma_unmap
LEMMA PhysGood ==
    ASSUME NEW b
    PROVE  /\ Good("phys", b, {}, nvm_dma_map, {R("md", "mem"), R("dma", "mem")})
           /\ Frees("phys", "release", {}, {R("md", "mem"), R("dma", "mem")}, nvm_dma_unmap("phys"))
<1> DEFINE M == {R("md", "mem")}
           V == M \union {R("dma", "mem")}
<1>1. "phys" \in LibKinds
  BY DEF LibKinds, DmaKinds
<1>2. R("dma", "mem") \in Plain /\ R("md", "mem") \in Res /\ R("dma", "mem") \in Res
  BY PlainFields DEF Plain
<1>3. Rests("phys", FALSE, V)
  <2>1. Backed("phys", V) /\ Stored(V)
    BY DEF Backed, Stored, R, InMemory
  <2> QED BY <1>1, <2>1, LibFacts
<1>4. /\ R("dma", "mem") \notin M /\ R("dma", "mem") # R("seg", "sd")
         /\ R("md", "mem") # R("seg", "sd")
      /\ R("md", "mem") \notin {R("dma", "mem")}
  BY DEF R
<1>5. Good("phys", b, M, Get(R("dma", "mem"), Mem("md")), V)
  BY <1>1, <1>2, <1>3, <1>4, MemTaken, TakeLib
<1>6. Good("phys", b, {}, nvm_dma_map, V)
  BY <1>1, <1>5, MemTaken, GoodCat DEF nvm_dma_map, _nvm_dma_create
<1>7. Frees("phys", "release", {}, {R("dma", "mem")} \union {R("md", "mem")},
      Mem("md") \o Mem("dma"))
  <2>1. {R("dma", "mem")} \union {R("md", "mem")} = V
    OBVIOUS
  <2> QED BY <2>1, <1>1, <1>2, <1>3, <1>4, MemTaken, FreesHeld DEF Mem
<1>8. {R("dma", "mem")} \union {R("md", "mem")} = {R("md", "mem"), R("dma", "mem")}
  OBVIOUS
<1>9. nvm_dma_unmap("phys") = Mem("md") \o Mem("dma")
  BY DEF nvm_dma_unmap, _nvm_dma_remove, KernKinds, SegKinds
<1> QED BY <1>6, <1>7, <1>8, <1>9

Va == R("md", "va")
Io == R("md", "io")
MdDevice == {R("md", "mem"), R("md", "sd"), R("md", "device")}

\* What is released last: nothing in roll-backs, the handle's own memory in nvm_dma_unmap
Rear(Y, l) == (Y = {} /\ l = <<>>) \/ (Y = {R("dma", "mem")} /\ l = Mem("dma"))

\* What is released last: the DMA handle, or nothing
LEMMA RearFrees ==
    ASSUME NEW k \in LibKinds, NEW Y, NEW l, Rear(Y, l)
    PROVE  Y \in SUBSET Res /\ l \in Seq(Res) /\ Frees(k, "release", {}, Y, l)
BY Nothing0, MemTaken DEF Rear

\* Both unmappings, of what there is of them
LEMMA UnmapBoth ==
    ASSUME NEW k \in LibKinds, NEW S \in SUBSET Res, NEW X \in SUBSET {Va, Io}, NEW l \in Seq(Res),
           Va \notin S, Io \notin S, R("md", "mem") \in S,
           Rests(k, FALSE, S \union X),
           Frees(k, "release", {}, S, l)
    PROVE  Frees(k, "release", {}, S \union X, unmap_both \o l) /\ unmap_both \o l \in Seq(Res)
<1>1. /\ Va \in Res /\ Io \in Res /\ Va \in Conditional /\ Io \in Conditional /\ Va # Io
      /\ Va # R("seg", "sd") /\ Io # R("seg", "sd")
      /\ Va[1] = "md" /\ Io[1] = "md"
  BY PlainFields DEF Plain, Va, Io, Conditional, R
<1>2. \A Z \in SUBSET X : Rests(k, FALSE, S \union Z)
  <2> SUFFICES ASSUME NEW Z \in SUBSET X PROVE Rests(k, FALSE, S \union Z)
    OBVIOUS
  <2>1. Backed(k, S \union X) /\ Stored(S \union X)
    BY DEF Rests
  <2>2. Backed(k, S \union Z)
    BY <2>1 DEF Backed, Va, Io, R
  <2>3. Stored(S \union Z)
    BY <2>1 DEF Stored, Va, Io, R
  <2> QED BY <2>2, <2>3, LibFacts
<1> DEFINE Z == X \ {Va}
<1>3. Frees(k, "release", {}, S \union Z, <<Io>> \o l) /\ <<Io>> \o l \in Seq(Res)
  <2>1. CASE Io \in X
    <3>1. S \union Z = S \union {Io}
      BY <2>1, <1>1
    <3>2. Rests(k, FALSE, S \union {Io})
      BY <2>1, <1>2
    <3>3. Frees(k, "release", {}, S \union {Io}, <<Io>> \o l) /\ <<Io>> \o l \in Seq(Res)
      BY <3>2, <1>1, FreesHeld, ConsSeq
    <3> QED BY <3>1, <3>3
  <2>2. CASE Io \notin X
    <3>1. S \union Z = S
      BY <2>2
    <3> QED BY <3>1, <1>1, FreesSkip, ConsSeq
  <2> QED BY <2>1, <2>2
<1>4. Frees(k, "release", {}, S \union X, <<Va>> \o (<<Io>> \o l))
  <2>0. S \union Z \in SUBSET Res /\ R("md", "mem") \in S \union Z /\ Va \notin S \union Z
    BY <1>1
  <2>1. CASE Va \in X
    <3>1. S \union X = (S \union Z) \union {Va}
      BY <2>1
    <3>2. Rests(k, FALSE, (S \union Z) \union {Va})
      BY <3>1, <1>2
    <3>3. Frees(k, "release", {}, (S \union Z) \union {Va}, <<Va>> \o (<<Io>> \o l))
      BY <2>0, <3>2, <1>1, <1>3, FreesHeld
    <3> QED BY <3>1, <3>3
  <2>2. CASE Va \notin X
    <3>1. S \union X = S \union Z
      BY <2>2
    <3>3. Frees(k, "release", {}, S \union Z, <<Va>> \o (<<Io>> \o l))
      BY <2>0, <1>1, <1>3, FreesSkip
    <3> QED BY <3>1, <3>3
  <2> QED BY <2>1, <2>2
<1>5. unmap_both \o l = <<Va>> \o (<<Io>> \o l)
  <2>1. <<Va>> \in Seq(Res) /\ <<Io>> \in Seq(Res)
    BY <1>1
  <2> QED BY <2>1, Assoc DEF unmap_both, va_unmap, io_unmap, Va, Io
<1>6. <<Va>> \o (<<Io>> \o l) \in Seq(Res)
  BY <1>1, <1>3, ConsSeq
<1> QED BY <1>4, <1>5, <1>6

\* A mapping descriptor and its device
LEMMA DescriptorRests ==
    ASSUME NEW k \in LibKinds, NEW Y, NEW l, Rear(Y, l)
    PROVE  /\ Rests(k, FALSE, MdDevice \union Y)
           /\ k \notin SegKinds \union {"connect"}
                 => Rests(k, FALSE, (MdDevice \union Y) \union {Va, Io})
<1>1. Y = {} \/ Y = {R("dma", "mem")}
  BY DEF Rear
<1>2. Backed(k, MdDevice \union Y) /\ Stored(MdDevice \union Y)
  BY <1>1 DEF Backed, Stored, MdDevice, R, InMemory
<1>3. ASSUME k \notin SegKinds \union {"connect"}
      PROVE  Backed(k, (MdDevice \union Y) \union {Va, Io})
            /\ Stored((MdDevice \union Y) \union {Va, Io})
  BY <1>1, <1>3 DEF Backed, Stored, MdDevice, Va, Io, R, InMemory
<1> QED BY <1>2, <1>3, LibFacts

\* The device is returned before the descriptor is freed.
LEMMA DescriptorFrees ==
    ASSUME NEW k \in LibKinds, NEW Y, NEW l, Rear(Y, l)
    PROVE  /\ Frees(k, "release", {}, MdDevice \union Y, device_put("md") \o (Mem("md") \o l))
           /\ device_put("md") \o (Mem("md") \o l) \in Seq(Res)
<1> DEFINE S == Y \union {R("md", "mem")}
<1>1. R("md", "mem") \in Res /\ R("md", "mem") # R("seg", "sd") /\ (Y = {} \/ Y = {R("dma", "mem")})
  BY PlainFields DEF Plain, R, Rear
<1>2. Rests(k, FALSE, S)
  <2>1. Backed(k, S) /\ Stored(S)
    BY <1>1 DEF Backed, Stored, R, InMemory
  <2> QED BY <2>1, LibFacts
<1>3. R("md", "mem") \notin Y
  BY <1>1 DEF R
<1>4. Frees(k, "release", {}, S, Mem("md") \o l) /\ Mem("md") \o l \in Seq(Res) /\ S \in SUBSET Res
  BY <1>1, <1>2, <1>3, RearFrees, FreesHeld, ConsSeq DEF Mem
<1>5. R("md", "sd") \notin S /\ R("md", "device") \notin S /\ R("md", "segment") \notin S
  BY <1>1 DEF R
<1>6. /\ Frees(k, "release", {}, (S \union {R("md", "sd")}) \union {R("md", "device")},
               device_put("md") \o (Mem("md") \o l))
      /\ device_put("md") \o (Mem("md") \o l) \in Seq(Res)
  <2> HIDE DEF S
  <2>1. R("md", "mem") \in S
    BY DEF S
  <2> QED BY <1>2, <1>4, <1>5, <2>1, DeviceGet
<1>7. (S \union {R("md", "sd")}) \union {R("md", "device")} = MdDevice \union Y
  BY DEF MdDevice
<1> QED BY <1>6, <1>7

\* create_map_descriptor
LEMMA DescriptorGood ==
    ASSUME NEW k \in LibKinds, NEW b
    PROVE  Good(k, b, {}, create_map_descriptor, MdDevice)
<1> DEFINE S == {R("md", "mem")}
<1>1. R("md", "sd") \notin S /\ R("md", "device") \notin S /\ R("md", "segment") \notin S
  BY DEF R
<1>2. Good(k, b, S, device_get("md", Mem("md")),
      (S \union {R("md", "sd")}) \union {R("md", "device")})
  <2> HIDE DEF S
  <2>1. R("md", "mem") \in S /\ S \in SUBSET Res /\ Rests(k, FALSE, S)
        /\ Frees(k, "release", {}, S, Mem("md"))
        /\ Mem("md") \in Seq(Res)
    BY MemTaken DEF S
  <2> QED BY <1>1, <2>1, DeviceGet
<1>3. (S \union {R("md", "sd")}) \union {R("md", "device")} = MdDevice
  BY DEF MdDevice
<1>4. Good(k, b, {}, Get(R("md", "mem"), <<>>), S)
  BY MemTaken
<1> QED BY <1>2, <1>3, <1>4, GoodCat DEF create_map_descriptor

\* No steps
LEMMA GoodNil ==
    ASSUME NEW k, NEW b, NEW S \in SUBSET Res
    PROVE  Good(k, b, S, <<>>, S)
<1> DEFINE f == [i \in 1..1 |-> S]
<1>1. f \in [1..1 -> SUBSET Res] /\ f[1] = S
  OBVIOUS
<1>2. <<>> \in Seq(Steps) /\ Len(<<>>) = 0 /\ Len(<<>>) + 1 = 1 /\ 1..0 = {}
  OBVIOUS
<1> HIDE DEF f
<1> QED BY <1>1, <1>2 DEF Good

\* A constructor of the library takes something whose release is another matter.
LEMMA GetLib ==
    ASSUME NEW k \in LibKinds, NEW b, NEW S \in SUBSET Res, NEW r \in Plain, NEW undo \in Seq(Res),
           Rests(k, FALSE, S \union {r}), Frees(k, "release", {}, S, undo)
    PROVE  Good(k, b, S, Get(r, undo), S \union {r}) /\ S \union {r} \in SUBSET Res
<1>1. k \notin KeepKinds /\ Undo(k, b) = "release" /\ At(k, S) = {}
  BY LibFacts
<1>2. TakesOk(k, r) /\ Core({r}) = {r} /\ r \in Res
  BY PlainTakes DEF Plain
<1>3. Frees(k, Undo(k, b), At(k, S), S, undo) /\ Rests(k, FALSE, S \union Core({r}))
  BY <1>1, <1>2
<1>4. Good(k, b, S, Get(r, undo), S \union Core({r}))
  BY <1>2, <1>3, GoodGet
<1> QED BY <1>2, <1>4

MapKinds == {"local", "local_va", "remote", "remote_va"}

\* Less is mapped.
LEMMA SubRests ==
    ASSUME NEW k \in LibKinds, NEW S, NEW X \in SUBSET {Va, Io}, Va \notin S, Io \notin S,
           Rests(k, FALSE, S \union {Va, Io})
    PROVE  Rests(k, FALSE, S \union X)
<1>1. Backed(k, S \union {Va, Io}) /\ Stored(S \union {Va, Io})
  BY DEF Rests
<1>2. Backed(k, S \union X)
  BY <1>1 DEF Backed, Va, Io, R
<1>3. Stored(S \union X)
  BY <1>1 DEF Stored, Va, Io, R
<1> QED BY <1>2, <1>3, LibFacts

\* remove_map_descriptor gives back what there is.
LEMMA RemoveDescriptor ==
    ASSUME NEW k \in LibKinds, NEW Y, NEW l, Rear(Y, l), NEW X \in SUBSET {Va, Io},
           X # {} => k \notin SegKinds \union {"connect"}
    PROVE  /\ Frees(k, "release", {}, (MdDevice \union Y) \union X, remove_map_descriptor \o l)
           /\ Rests(k, FALSE, (MdDevice \union Y) \union X)
           /\ remove_map_descriptor \o l \in Seq(Res) /\ remove_map_descriptor \in Seq(Res)
           /\ (MdDevice \union Y) \union X \in SUBSET Res
<1> DEFINE S == MdDevice \union Y
           u == device_put("md") \o (Mem("md") \o l)
<1>1. Frees(k, "release", {}, S, u) /\ u \in Seq(Res)
  BY DescriptorFrees
<1>2. /\ S \in SUBSET Res /\ X \in SUBSET Res /\ Va \notin S /\ Io \notin S /\ R("md", "mem") \in S
      /\ Va \in Res /\ Io \in Res /\ R("md", "sd") \in Res /\ R("md", "device") \in Res
            /\ R("md", "mem") \in Res
  <2>1. R("md", "sd") \in Res /\ R("md", "device") \in Res /\ R("md", "mem") \in Res /\ Va \in Res
        /\ Io \in Res
    BY PlainFields DEF Plain, Va, Io
  <2>2. Y \in SUBSET Res
    BY RearFrees
  <2>3. Va \notin S /\ Io \notin S
    BY DEF Rear, MdDevice, Va, Io, R
  <2> QED BY <2>1, <2>2, <2>3 DEF MdDevice
<1>3. remove_map_descriptor \o l = unmap_both \o u /\ remove_map_descriptor \in Seq(Res)
  <2>1. unmap_both \in Seq(Res) /\ device_put("md") \in Seq(Res) /\ Mem("md") \in Seq(Res)
        /\ l \in Seq(Res)
    <3>1. <<Va>> \in Seq(Res) /\ <<Io>> \in Seq(Res) /\ Mem("md") \in Seq(Res)
      BY <1>2 DEF Mem
    <3>2. device_put("md") \in Seq(Res)
      BY <1>2, Pairs, Assoc DEF device_put
    <3>3. unmap_both \in Seq(Res)
      BY <3>1 DEF unmap_both, va_unmap, io_unmap, Va, Io
    <3> QED BY <3>1, <3>2, <3>3, RearFrees
  <2>2. /\ device_put("md") \o Mem("md") \in Seq(Res) /\ Mem("md") \o l \in Seq(Res)
        /\ unmap_both \o device_put("md") \in Seq(Res)
    BY <2>1
  <2>3. remove_map_descriptor = unmap_both \o (device_put("md") \o Mem("md"))
    BY <2>1, Assoc DEF remove_map_descriptor
  <2>4. (unmap_both \o (device_put("md") \o Mem("md"))) \o l = unmap_both
        \o ((device_put("md") \o Mem("md")) \o l)
    <3> DEFINE v == device_put("md") \o Mem("md")
    <3>1. v \in Seq(Res)
      BY <2>2
    <3> HIDE DEF v
    <3>2. (unmap_both \o v) \o l = unmap_both \o (v \o l)
      BY <3>1, <2>1, Assoc
    <3> QED BY <3>2 DEF v
  <2>5. (device_put("md") \o Mem("md")) \o l = u
    BY <2>1, Assoc
  <2>6. remove_map_descriptor \in Seq(Res)
    BY <2>1, <2>2, <2>3, Assoc
  <2> QED BY <2>3, <2>4, <2>5, <2>6
<1>4. Rests(k, FALSE, S \union X)
  <2>1. CASE X = {}
    <3>1. S \union X = S
      BY <2>1
    <3> QED BY <3>1, DescriptorRests
  <2>2. CASE X # {}
    BY <2>2, <1>2, DescriptorRests, SubRests
  <2> QED BY <2>1, <2>2
<1>5. Frees(k, "release", {}, S \union X, unmap_both \o u) /\ unmap_both \o u \in Seq(Res)
  <2> HIDE DEF S, u
  <2> QED BY <1>1, <1>2, <1>4, UnmapBoth
<1>6. S \union X \in SUBSET Res
  BY <1>2
<1> QED BY <1>3, <1>4, <1>5, <1>6

\* nvm_dis_dma_map_local and nvm_dis_dma_map_remote, with or without a virtual address
LEMMA MapGood ==
    ASSUME NEW k \in MapKinds, NEW b, NEW v \in BOOLEAN
    PROVE  LET V == (MdDevice \union {R("dma", "mem")})
          \union ({Io} \union (IF v THEN {Va} ELSE {}))
           IN /\ Good(k, b, {}, nvm_dis_dma_map_local(v), V)
              /\ Good(k, b, {}, nvm_dis_dma_map_remote(v), V)
              /\ Frees(k, "release", {}, V, nvm_dma_unmap(k))
<1> DEFINE X == {Io} \union (IF v THEN {Va} ELSE {})
           u == remove_map_descriptor
<1>1. k \in LibKinds /\ k \notin SegKinds \union {"connect"}
  BY DEF MapKinds, LibKinds, DmaKinds, DisKinds, SegKinds
<1>2. /\ Rear({}, <<>>) /\ Rear({R("dma", "mem")}, Mem("dma"))
      /\ Io \in Plain /\ Va \in Plain /\ R("dma", "mem") \in Plain
  BY PlainFields DEF Rear, Va, Io
<1>3. ASSUME NEW Z \in SUBSET {Va, Io}
      PROVE  /\ Frees(k, "release", {}, MdDevice \union Z, u) /\ u \in Seq(Res)
             /\ Rests(k, FALSE, MdDevice \union Z) /\ MdDevice \union Z \in SUBSET Res
             /\ Frees(k, "release", {}, (MdDevice \union {R("dma", "mem")}) \union Z,
                   u \o Mem("dma"))
             /\ Rests(k, FALSE, (MdDevice \union {R("dma", "mem")}) \union Z)
  <2>1. /\ Frees(k, "release", {}, (MdDevice \union {}) \union Z, u \o <<>>) /\ u \in Seq(Res)
        /\ Rests(k, FALSE, (MdDevice \union {}) \union Z)
        /\ (MdDevice \union {}) \union Z \in SUBSET Res
    BY <1>1, <1>2, RemoveDescriptor
  <2>2. /\ Frees(k, "release", {}, (MdDevice \union {R("dma", "mem")}) \union Z, u \o Mem("dma"))
        /\ Rests(k, FALSE, (MdDevice \union {R("dma", "mem")}) \union Z)
    BY <1>1, <1>2, RemoveDescriptor
  <2>3. (MdDevice \union {}) \union Z = MdDevice \union Z
    OBVIOUS
  <2>4. u \o <<>> = u
    BY <2>1
  <2> QED BY <2>1, <2>2, <2>3, <2>4
<1> HIDE DEF u
<1>4. Good(k, b, MdDevice, Check(u), MdDevice)
      /\ Good(k, b, MdDevice, Get(Io, u), MdDevice \union {Io})
  <2>1. MdDevice \union {} = MdDevice
    OBVIOUS
  <2>2. Rests(k, FALSE, MdDevice) /\ Frees(k, "release", {}, MdDevice, u)
        /\ MdDevice \in SUBSET Res /\ u \in Seq(Res)
    BY <2>1, <1>3
  <2>3. Rests(k, FALSE, MdDevice \union {Io})
    BY <1>3
  <2> QED BY <2>2, <2>3, <1>1, <1>2, CheckLib, GetLib
<1>5. Good(k, b, MdDevice \union {Io}, IF v THEN va_map("md", u) ELSE <<>>, MdDevice \union X)
  <2>1. CASE v
    <3>1. MdDevice \union X = (MdDevice \union {Io}) \union {Va}
      BY <2>1
    <3>2. /\ Rests(k, FALSE, MdDevice \union X) /\ Frees(k, "release", {}, MdDevice \union {Io}, u)
          /\ MdDevice \union {Io} \in SUBSET Res /\ u \in Seq(Res)
      BY <1>3
    <3>3. Good(k, b, MdDevice \union {Io}, Get(Va, u), (MdDevice \union {Io}) \union {Va})
      BY <3>1, <3>2, <1>1, <1>2, GetLib
    <3> QED BY <2>1, <3>1, <3>3 DEF va_map, Va
  <2>2. CASE ~v
    <3>1. MdDevice \union X = MdDevice \union {Io} /\ MdDevice \union {Io} \in SUBSET Res
      BY <2>2, <1>3
    <3> QED BY <2>2, <3>1, GoodNil
  <2> QED BY <2>1, <2>2
<1> DEFINE V == (MdDevice \union {R("dma", "mem")}) \union X
<1>6. Good(k, b, MdDevice \union X, _nvm_dma_create(u), V)
  <2>1. (MdDevice \union X) \union {R("dma", "mem")} = V
    OBVIOUS
  <2>2. /\ Rests(k, FALSE, V) /\ Frees(k, "release", {}, MdDevice \union X, u)
        /\ MdDevice \union X \in SUBSET Res /\ u \in Seq(Res)
    BY <1>3
  <2> HIDE DEF V, X
  <2>3. Good(k, b, MdDevice \union X, Get(R("dma", "mem"), u),
        (MdDevice \union X) \union {R("dma", "mem")})
    BY <2>1, <2>2, <1>1, <1>2, GetLib
  <2> QED BY <2>1, <2>3 DEF _nvm_dma_create
<1>7. Good(k, b, {}, create_map_descriptor, MdDevice)
  BY <1>1, DescriptorGood
<1> HIDE DEF V, X
<1>8. Good(k, b, MdDevice, io_map_local(u), MdDevice \union {Io})
  BY <1>4, GoodCat DEF io_map_local, Io
<1>9. Good(k, b, MdDevice, io_map_remote(u), MdDevice \union {Io})
  BY <1>4 DEF io_map_remote, Io
<1>10. Good(k, b, {}, nvm_dis_dma_map_local(v), V)
  BY <1>5, <1>6, <1>7, <1>8, GoodCat DEF nvm_dis_dma_map_local, u
<1>11. Good(k, b, {}, nvm_dis_dma_map_remote(v), V)
  BY <1>5, <1>6, <1>7, <1>9, GoodCat DEF nvm_dis_dma_map_remote, u
<1>12. Frees(k, "release", {}, V, nvm_dma_unmap(k))
  <2>1. nvm_dma_unmap(k) = u \o Mem("dma")
    BY DEF nvm_dma_unmap, _nvm_dma_remove, KernKinds, SegKinds, MapKinds, u
  <2> QED BY <2>1, <1>3 DEF V, X
<1> QED BY <1>10, <1>11, <1>12 DEF V, X

SegMem     == R("seg", "mem")
SegSd      == R("seg", "sd")
SegDevice  == R("seg", "device")
SegSegment == R("seg", "segment")

\* The fields of a segment's structure
LEMMA SegPlain == /\ SegMem \in Plain /\ SegSd \in Plain /\ SegDevice \in Plain
                     /\ SegSegment \in Plain
                  /\ SegMem \in Res /\ SegSd \in Res /\ SegDevice \in Res /\ SegSegment \in Res
BY PlainFields DEF SegMem, SegSd, SegDevice, SegSegment, Plain

\* Concatenation, with its definition hidden from the provers
Cat(l, m) == l \o m
\* It may be grouped either way.
LEMMA CatAssoc == \A l, m, n \in Seq(Res) : Cat(l, m) \in Seq(Res)
      /\ Cat(Cat(l, m), n) = Cat(l, Cat(m, n))
<1>1. ASSUME NEW l \in Seq(Res), NEW m \in Seq(Res), NEW n \in Seq(Res)
      PROVE  Cat(l, m) \in Seq(Res) /\ Cat(Cat(l, m), n) = Cat(l, Cat(m, n))
  BY DEF Cat
<1> QED BY <1>1

Regroup(l, m, n) == (l \o m) \o n = l \o (m \o n) /\ l \o m \in Seq(Res)

\* Three lists of releases
LEMMA Regroups == ASSUME NEW l \in Seq(Res), NEW m \in Seq(Res), NEW n \in Seq(Res)
      PROVE Regroup(l, m, n)
BY DEF Regroup

Flat5(a, c, d, e, f, l) ==
    /\ ((((a \o c) \o d) \o e) \o f) \o l = a \o (c \o (d \o (e \o (f \o l))))
    /\ (((a \o c) \o d) \o e) \o f \in Seq(Res)

\* Six lists of releases
LEMMA Assoc5 ==
    ASSUME NEW a \in Seq(Res), NEW c \in Seq(Res), NEW d \in Seq(Res), NEW e \in Seq(Res),
           NEW f \in Seq(Res), NEW l \in Seq(Res)
    PROVE  Flat5(a, c, d, e, f, l)
<1>1. Cat(Cat(Cat(Cat(Cat(a, c), d), e), f), l) = Cat(a, Cat(c, Cat(d, Cat(e, Cat(f, l)))))
  <2>1. /\ Cat(a, c) \in Seq(Res) /\ Cat(Cat(a, c), d) \in Seq(Res)
           /\ Cat(Cat(Cat(a, c), d), e) \in Seq(Res)
        /\ Cat(f, l) \in Seq(Res) /\ Cat(e, Cat(f, l)) \in Seq(Res)
              /\ Cat(d, Cat(e, Cat(f, l))) \in Seq(Res)
    BY CatAssoc
  <2>2. Cat(Cat(Cat(Cat(Cat(a, c), d), e), f), l) = Cat(Cat(Cat(Cat(a, c), d), e), Cat(f, l))
    BY <2>1, CatAssoc
  <2>3. Cat(Cat(Cat(Cat(a, c), d), e), Cat(f, l)) = Cat(Cat(Cat(a, c), d), Cat(e, Cat(f, l)))
    BY <2>1, CatAssoc
  <2>4. Cat(Cat(Cat(a, c), d), Cat(e, Cat(f, l))) = Cat(Cat(a, c), Cat(d, Cat(e, Cat(f, l))))
    BY <2>1, CatAssoc
  <2>5. Cat(Cat(a, c), Cat(d, Cat(e, Cat(f, l)))) = Cat(a, Cat(c, Cat(d, Cat(e, Cat(f, l)))))
    BY <2>1, CatAssoc
  <2> QED BY <2>2, <2>3, <2>4, <2>5
<1>2. Cat(Cat(Cat(Cat(a, c), d), e), f) \in Seq(Res)
  BY CatAssoc
<1> QED BY <1>1, <1>2 DEF Cat, Flat5

\* The descriptor of a segment may be left behind.
LEMMA LeaveDescriptor ==
    ASSUME NEW k \in SegKinds, NEW S, NEW l \in Seq(Res), Frees(k, "release", {}, S, l)
    PROVE  Frees(k, "release", {}, S \union {SegSd}, l)
<1> DEFINE T == S \union {SegSd}
<1>1. k \in LibKinds /\ k \notin NullKinds /\ ("release" = "throw") = FALSE
  BY DEF LibKinds, DmaKinds, DisKinds, SegKinds, NullKinds
<1>2. ASSUME NEW A, Rests(k, FALSE, A) PROVE Rests(k, FALSE, A \union {SegSd})
  <2>1. Backed(k, A \union {SegSd})
    BY <1>2 DEF Rests, Backed, SegSd, R
  <2>2. Stored(A \union {SegSd})
    BY <1>2 DEF Rests, Stored, SegSd, R
  <2> QED BY <2>1, <2>2, <1>1, LibFacts
<1>3. ASSUME NEW A, NEW r, Harmless(k, {}, r, A) PROVE Harmless(k, {}, r, A \union {SegSd})
  BY <1>1, <1>3 DEF Harmless, Releasable
<1>4. ASSUME NEW A PROVE ~Known(k, "release", {}, A)
  BY DEF Known, SegKinds, KernKinds
<1>5. \A i \in Nat : \/ T \ First(l, i) = S \ First(l, i)
                     \/ T \ First(l, i) = (S \ First(l, i)) \union {SegSd}
  OBVIOUS
<1>6. ASSUME NEW i \in 1..Len(l) PROVE Harmless(k, {}, l[i], T \ First(l, i - 1))
  <2>1. i - 1 \in Nat
    OBVIOUS
  <2>2. Harmless(k, {}, l[i], S \ First(l, i - 1))
    BY <1>4 DEF Frees, Rel
  <2> HIDE DEF T
  <2> QED BY <2>1, <2>2, <1>3, <1>5
<1>7. ASSUME NEW i \in 0..Len(l) PROVE Rests(k, "release" = "throw", T \ First(l, i))
  <2>1. Rests(k, "release" = "throw", S \ First(l, i)) /\ i \in Nat
    BY DEF Frees, Rel
  <2> HIDE DEF T
  <2> QED BY <2>1, <1>1, <1>2, <1>5
<1>8. T \ Elems(l) \subseteq Left(k, "release" = "throw")
  <2>1. S \ Elems(l) \subseteq Left(k, "release" = "throw")
    BY DEF Frees
  <2>2. SegSd \in Left(k, "release" = "throw")
    BY DEF Left, SegKinds, LatKinds, ProgKinds, SegSd
  <2> QED BY <2>1, <2>2
<1> QED BY <1>6, <1>7, <1>8 DEF Frees, Rel

SegHeld(k) == IF k = "connect" THEN {SegMem, SegSd, SegDevice, SegSegment} ELSE {SegMem, SegSd,
      SegSegment}
SegPut(k)  == IF k = "connect" THEN device_memory_put("seg") ELSE local_memory_put

\* A segment rests on its descriptor, and its mapping on both.
LEMMA SegRests ==
    ASSUME NEW k \in SegKinds \union {"connect"}, NEW Y, NEW l, Rear(Y, l),
           NEW X \in SUBSET {Va, Io}
    PROVE  /\ Rests(k, FALSE, ((MdDevice \union Y) \union SegHeld(k)) \union X)
           /\ Rests(k, FALSE, (MdDevice \union Y) \union {SegMem})
           /\ Rests(k, FALSE, ((MdDevice \union Y) \union {SegMem}) \union {SegSd})
           /\ Rests(k, FALSE,
                 (((MdDevice \union Y) \union {SegMem}) \union {SegSd}) \union {SegSegment})
<1>1. Y = {} \/ Y = {R("dma", "mem")}
  BY DEF Rear
<1>2. k \in LibKinds
  BY DEF LibKinds, DmaKinds, DisKinds, SegKinds
<1>3. Backed(k, ((MdDevice \union Y) \union SegHeld(k)) \union X)
  BY <1>1 DEF Backed, MdDevice, SegHeld, SegMem, SegSd, SegDevice, SegSegment, R, Va, Io
<1>4. Stored(((MdDevice \union Y) \union SegHeld(k)) \union X)
  BY <1>1 DEF Stored, MdDevice, SegHeld, SegMem, SegSd, SegDevice, SegSegment, R, Va,
      Io, InMemory
<1>5. Backed(k, (MdDevice \union Y) \union {SegMem}) /\ Stored((MdDevice \union Y) \union {SegMem})
  BY <1>1 DEF Backed, Stored, MdDevice, SegMem, R, InMemory
<1>6. /\ Backed(k, ((MdDevice \union Y) \union {SegMem}) \union {SegSd})
      /\ Stored(((MdDevice \union Y) \union {SegMem}) \union {SegSd})
  BY <1>1 DEF Backed, Stored, MdDevice, SegMem, SegSd, R, InMemory
<1>7. /\ Backed(k, (((MdDevice \union Y) \union {SegMem}) \union {SegSd}) \union {SegSegment})
      /\ Stored((((MdDevice \union Y) \union {SegMem}) \union {SegSd}) \union {SegSegment})
  BY <1>1 DEF Backed, Stored, MdDevice, SegMem, SegSd, SegSegment, R, InMemory
<1> QED BY <1>2, <1>3, <1>4, <1>5, <1>6, <1>7, LibFacts

\* The segment is unmapped and put, before the device and its descriptor.
LEMMA RemoveSegment ==
    ASSUME NEW k \in SegKinds \union {"connect"}, NEW Y, NEW l, Rear(Y, l),
           NEW X \in SUBSET {Va, Io}
    PROVE  LET u == (((unmap_both \o SegPut(k)) \o Mem("seg")) \o device_put("md")) \o Mem("md")
           IN /\ Frees(k, "release", {}, ((MdDevice \union Y) \union SegHeld(k)) \union X, u \o l)
              /\ u \in Seq(Res)
<1> DEFINE S == MdDevice \union Y
           w == device_put("md") \o (Mem("md") \o l)
           wm == <<SegMem>> \o w
<1>1. k \in LibKinds
  BY DEF LibKinds, DmaKinds, DisKinds, SegKinds
<1>2. Frees(k, "release", {}, S, w) /\ w \in Seq(Res) /\ l \in Seq(Res)
  BY <1>1, DescriptorFrees, RearFrees
<1>3. /\ S \in SUBSET Res /\ {SegMem, SegSd, SegDevice, SegSegment} \cap S = {} /\ Va \notin S
         /\ Io \notin S
      /\ R("md", "mem") \in S /\ Va \in Res /\ Io \in Res
      /\ R("md", "mem") \in Res /\ R("md", "device") \in Res /\ R("md", "sd") \in Res
  <2>1. R("md", "sd") \in Res /\ R("md", "device") \in Res /\ R("md", "mem") \in Res /\ Va \in Res
        /\ Io \in Res
    BY PlainFields DEF Plain, Va, Io
  <2>2. Y \in SUBSET Res
    BY <1>1, RearFrees
  <2>3. {SegMem, SegSd, SegDevice, SegSegment} \cap S = {} /\ Va \notin S /\ Io \notin S
    BY DEF Rear, MdDevice, Va, Io, R, SegMem, SegSd, SegDevice, SegSegment
  <2> QED BY <2>1, <2>2, <2>3 DEF MdDevice
<1>4. /\ SegMem # SegSd /\ SegSegment # SegSd /\ SegMem # SegSegment /\ SegDevice # SegSd
      /\ SegMem # SegDevice /\ SegSegment # SegDevice
      /\ SegSd = R("seg", "sd") /\ SegMem = R("seg", "mem") /\ SegDevice = R("seg", "device")
      /\ SegSegment = R("seg", "segment")
  BY DEF SegMem, SegSd, SegDevice, SegSegment, R
<1>5. /\ Rests(k, FALSE, S \union {SegMem})
      /\ Rests(k, FALSE, (S \union {SegMem}) \union {SegSd})
      /\ Rests(k, FALSE, ((S \union {SegMem}) \union {SegSd}) \union {SegSegment})
      /\ \A Z \in SUBSET {Va, Io} : Rests(k, FALSE, (S \union SegHeld(k)) \union Z)
  BY SegRests
<1> HIDE DEF w, S
<1>6. Frees(k, "release", {}, S \union {SegMem}, wm) /\ wm \in Seq(Res)
  BY <1>2, <1>3, <1>4, <1>5, SegPlain, FreesHeld, ConsSeq
<1> HIDE DEF wm
<1>7. Frees(k, "release", {}, S \union SegHeld(k), SegPut(k) \o wm) /\ SegPut(k) \in Seq(Res)
  <2>1. CASE k \in SegKinds
    <3>1. k # "connect" /\ SegPut(k) = <<SegSegment>> /\ SegPut(k) \in Seq(Res)
      BY <2>1, SegPlain DEF SegKinds, SegPut, local_memory_put, SegSegment
    <3>2. Frees(k, "release", {}, (S \union {SegMem}) \union {SegSd}, wm)
      BY <2>1, <1>6, LeaveDescriptor
    <3>3. SegSegment \notin (S \union {SegMem}) \union {SegSd}
      BY <1>3, <1>4
    <3>4. Frees(k, "release", {}, ((S \union {SegMem}) \union {SegSd}) \union {SegSegment},
          <<SegSegment>> \o wm)
      BY <3>2, <3>3, <1>4, <1>5, <1>6, SegPlain, FreesHeld
    <3>5. ((S \union {SegMem}) \union {SegSd}) \union {SegSegment} = S \union SegHeld(k)
      BY <3>1 DEF SegHeld
    <3> QED BY <3>1, <3>4, <3>5
  <2>2. CASE k = "connect"
    <3> DEFINE T == ((S \union {SegMem}) \union {SegSd}) \union {SegDevice}
               v == device_put("seg") \o wm
    <3>1. Frees(k, "release", {}, T, v) /\ v \in Seq(Res)
      <4>1. /\ R("seg", "sd") \notin S \union {SegMem}
               /\ R("seg", "device") \notin S \union {SegMem}
            /\ R("seg", "segment") \notin S \union {SegMem} /\ S \union {SegMem} \in SUBSET Res
            /\ R("seg", "mem") \in S \union {SegMem}
        BY <1>3, <1>4, SegPlain
      <4>2. /\ Frees(k, "release", {},
               ((S \union {SegMem}) \union {R("seg", "sd")}) \union {R("seg", "device")},
                     device_put("seg") \o wm)
            /\ device_put("seg") \o wm \in Seq(Res)
        BY <4>1, <1>1, <1>5, <1>6, DeviceGet
      <4> QED BY <4>2, <1>4
    <3> HIDE DEF v
    <3>2. T \union {SegSegment} = S \union SegHeld(k) /\ SegSegment \notin T
      BY <2>2, <1>3, <1>4 DEF SegHeld
    <3>3. Rests(k, FALSE, T \union {SegSegment})
      <4>1. (S \union SegHeld(k)) \union {} = T \union {SegSegment}
        BY <3>2
      <4> QED BY <4>1, <1>5
    <3>4. Frees(k, "release", {}, T \union {SegSegment}, <<SegSegment>> \o v)
      <4> HIDE DEF T
      <4> QED BY <3>1, <3>2, <3>3, <1>4, SegPlain, FreesHeld
    <3>5. SegPut(k) \o wm = <<SegSegment>> \o v /\ SegPut(k) \in Seq(Res)
      <4>1. <<SegSegment>> \in Seq(Res) /\ device_put("seg") \in Seq(Res)
        BY <1>4, SegPlain, Pairs DEF device_put
      <4>2. SegPut(k) = <<SegSegment>> \o device_put("seg")
        BY <2>2 DEF SegPut, device_memory_put, SegSegment
      <4>3. Regroup(<<SegSegment>>, device_put("seg"), wm)
        BY <4>1, <1>6, Regroups
      <4> QED BY <4>2, <4>3 DEF Regroup, v
    <3> QED BY <3>2, <3>4, <3>5
  <2> QED BY <2>1, <2>2
<1>8. Frees(k, "release", {}, (S \union SegHeld(k)) \union X, unmap_both \o (SegPut(k) \o wm))
  <2>1. /\ S \union SegHeld(k) \in SUBSET Res /\ Va \notin S \union SegHeld(k)
           /\ Io \notin S \union SegHeld(k)
        /\ R("md", "mem") \in S \union SegHeld(k)
    <3>1. Va \notin SegHeld(k) /\ Io \notin SegHeld(k) /\ SegHeld(k) \in SUBSET Res
      BY SegPlain DEF SegHeld, SegMem, SegSd, SegDevice, SegSegment, Va, Io, R
    <3> QED BY <3>1, <1>3
  <2>2. SegPut(k) \o wm \in Seq(Res)
    BY <1>6, <1>7, CatSeq
  <2> QED BY <2>1, <2>2, <1>1, <1>5, <1>7, UnmapBoth
<1>9. /\ ((((unmap_both \o SegPut(k)) \o Mem("seg")) \o device_put("md")) \o Mem("md")) \o l
         = unmap_both \o (SegPut(k) \o (Mem("seg") \o (device_put("md") \o (Mem("md") \o l))))
      /\ (((unmap_both \o SegPut(k)) \o Mem("seg")) \o device_put("md")) \o Mem("md") \in Seq(Res)
  <2>1. Mem("seg") \in Seq(Res) /\ Mem("md") \in Seq(Res) /\ device_put("md") \in Seq(Res)
    BY <1>3, SegPlain, Pairs DEF Mem, device_put, SegMem
  <2>2. unmap_both \in Seq(Res)
    <3>1. <<Va>> \in Seq(Res) /\ <<Io>> \in Seq(Res)
      BY <1>3
    <3> QED BY <3>1, CatSeq DEF unmap_both, va_unmap, io_unmap, Va, Io
  <2>3. Flat5(unmap_both, SegPut(k), Mem("seg"), device_put("md"), Mem("md"), l)
    BY <2>1, <2>2, <1>2, <1>7, Assoc5
  <2> QED BY <2>3 DEF Flat5
<1>10. Mem("seg") = <<SegMem>>
  BY DEF Mem, SegMem
<1> QED BY <1>8, <1>9, <1>10 DEF S, w, wm

DmaMem == R("dma", "mem")
SegRemove(k) == IF k = "connect" THEN disconnect_remote_segment ELSE remove_local_segment

\* remove_local_segment and disconnect_remote_segment give back all there is.
LEMMA SegFrees ==
    ASSUME NEW k \in SegKinds \union {"connect"}, NEW X \in SUBSET {Va, Io}
    PROVE  LET S == (MdDevice \union SegHeld(k)) \union X
           IN /\ Frees(k, "release", {}, S, SegRemove(k)) /\ SegRemove(k) \in Seq(Res)
              /\ Frees(k, "release", {}, S \union {DmaMem}, nvm_dma_unmap(k))
              /\ Rests(k, FALSE, S) /\ Rests(k, FALSE, S \union {DmaMem})
              /\ S \in SUBSET Res
<1> DEFINE S == (MdDevice \union SegHeld(k)) \union X
           u == (((unmap_both \o SegPut(k)) \o Mem("seg")) \o device_put("md")) \o Mem("md")
<1>1. SegRemove(k) = u
  BY DEF SegRemove, SegPut, disconnect_remote_segment, remove_local_segment
<1>2. Rear({}, <<>>) /\ Rear({DmaMem}, Mem("dma"))
  BY DEF Rear, DmaMem
<1>3. /\ ((MdDevice \union {}) \union SegHeld(k)) \union X = S
      /\ ((MdDevice \union {DmaMem}) \union SegHeld(k)) \union X = S \union {DmaMem}
  OBVIOUS
<1>4. /\ Frees(k, "release", {}, ((MdDevice \union {}) \union SegHeld(k)) \union X, u \o <<>>)
      /\ Frees(k, "release", {}, ((MdDevice \union {DmaMem}) \union SegHeld(k)) \union X,
            u \o Mem("dma"))
      /\ u \in Seq(Res)
  BY <1>2, RemoveSegment
<1>5. /\ Rests(k, FALSE, ((MdDevice \union {}) \union SegHeld(k)) \union X)
      /\ Rests(k, FALSE, ((MdDevice \union {DmaMem}) \union SegHeld(k)) \union X)
  BY <1>2, SegRests
<1>6. nvm_dma_unmap(k) = SegRemove(k) \o Mem("dma")
  BY DEF nvm_dma_unmap, _nvm_dma_remove, KernKinds, SegKinds, SegRemove
<1> HIDE DEF u
<1>7. u \o <<>> = u
  BY <1>4, CatNil
<1>8. S \in SUBSET Res
  BY SegPlain, PlainFields DEF Plain, MdDevice, SegHeld, Va, Io
<1> HIDE DEF S
<1> QED BY <1>1, <1>3, <1>4, <1>5, <1>6, <1>7, <1>8 DEF S

\* The segment is made, and its memory freed when that fails.
LEMMA SegmentGood ==
    ASSUME NEW k \in SegKinds \union {"connect"}, NEW b
    PROVE  LET u == remove_map_descriptor
           IN /\ k # "connect"
                 => Good(k, b, MdDevice, create_local_segment(k = "attach", u),
                       MdDevice \union SegHeld(k))
              /\ k = "connect"
                    => Good(k, b, MdDevice, connect_remote_segment(u), MdDevice \union SegHeld(k))
<1> DEFINE S1 == MdDevice \union {SegMem}
           S2 == S1 \union {SegSd}
           S3 == S2 \union {SegSegment}
           u0 == remove_map_descriptor
           u1 == <<SegMem>> \o u0
           u2 == <<SegSd>> \o u1
<1>0. Rear({}, <<>>) /\ MdDevice \union {} = MdDevice /\ (MdDevice \union {}) \union {} = MdDevice
      /\ {} \in SUBSET {Va, Io}
  BY DEF Rear
<1>1. k \in LibKinds
  BY DEF LibKinds, DmaKinds, DisKinds, SegKinds
<1>2. Frees(k, "release", {}, MdDevice, u0) /\ u0 \in Seq(Res) /\ MdDevice \in SUBSET Res
  <2>1. /\ Frees(k, "release", {}, (MdDevice \union {}) \union {}, u0 \o <<>>) /\ u0 \in Seq(Res)
        /\ (MdDevice \union {}) \union {} \in SUBSET Res
    BY <1>0, <1>1, RemoveDescriptor
  <2>2. u0 \o <<>> = u0
    BY <2>1, CatNil
  <2> QED BY <1>0, <2>1, <2>2
<1>3. Rests(k, FALSE, S1) /\ Rests(k, FALSE, S2) /\ Rests(k, FALSE, S3)
  <2>1. /\ Rests(k, FALSE, (MdDevice \union {}) \union {SegMem})
        /\ Rests(k, FALSE, ((MdDevice \union {}) \union {SegMem}) \union {SegSd})
        /\ Rests(k, FALSE,
              (((MdDevice \union {}) \union {SegMem}) \union {SegSd}) \union {SegSegment})
    BY <1>0, SegRests
  <2> QED BY <1>0, <2>1
<1>4. /\ SegMem \notin MdDevice /\ SegSd \notin S1 /\ SegSegment \notin S2 /\ SegSegment \notin S1
      /\ SegDevice \notin S1 /\ SegMem # SegSd /\ SegMem # R("seg", "sd")
            /\ SegSegment # R("seg", "sd")
      /\ SegSd = R("seg", "sd") /\ SegMem = R("seg", "mem") /\ SegDevice = R("seg", "device")
      /\ SegSegment = R("seg", "segment")
  BY DEF MdDevice, SegMem, SegSd, SegDevice, SegSegment, R
<1> HIDE DEF u0
<1>5. /\ Good(k, b, MdDevice, Get(SegMem, u0), S1) /\ Frees(k, "release", {}, S1, u1)
      /\ u1 \in Seq(Res) /\ S1 \in SUBSET Res
  BY <1>1, <1>2, <1>3, <1>4, SegPlain, TakeLib
<1>6. u1 = Mem("seg") \o u0
  BY DEF Mem, SegMem
<1>7. ASSUME k # "connect"
      PROVE  Good(k, b, MdDevice, create_local_segment(k = "attach", u0),
            MdDevice \union SegHeld(k))
  <2>0. k \in SegKinds
    BY <1>7
  <2> HIDE DEF u1
  <2>1. R("seg", "mem") \in S1
    BY <1>4
  <2>2. /\ Good(k, b, S1, Get(SegSd, u1), S2) /\ Frees(k, "release", {}, S2, u2)
        /\ u2 \in Seq(Res) /\ S2 \in SUBSET Res
    <3> HIDE DEF S1
    <3> QED BY <2>1, <1>1, <1>3, <1>4, <1>5, SegPlain, TakeLib
  <2>3. Frees(k, "release", {}, S2, u1)
    BY <2>0, <1>5, LeaveDescriptor
  <2>4. /\ Good(k, b, S2, Get(SegSegment, u2), S3) /\ S3 \in SUBSET Res
        /\ Frees(k, "release", {}, S3, <<SegSegment>> \o u1) /\ <<SegSegment>> \o u1 \in Seq(Res)
    <3> HIDE DEF S2, u2
    <3>1. Good(k, b, S2, Get(SegSegment, u2), S3) /\ S3 \in SUBSET Res
      BY <2>2, <1>1, <1>3, SegPlain, GetLib
    <3>2. Frees(k, "release", {}, S3, <<SegSegment>> \o u1) /\ <<SegSegment>> \o u1 \in Seq(Res)
      BY <2>2, <2>3, <1>1, <1>3, <1>4, <1>5, SegPlain, FreesHeld, ConsSeq
    <3> QED BY <3>1, <3>2
  <2>5. S3 = MdDevice \union SegHeld(k)
    BY <1>7 DEF SegHeld
  <2>6. Good(k, b, S1, create_segment(u1), S3)
    <3> HIDE DEF S1, S2, S3
    <3>1. Good(k, b, S1, Get(SegSd, u1) \o Get(SegSegment, u2), S3)
      BY <2>2, <2>4, GoodCat
    <3> QED BY <3>1, <1>4 DEF create_segment, u2
  <2>7. Good(k, b, S1, local_memory_get_attached(u1), S3)
    <3> HIDE DEF S1, S2, S3
    <3>1. Good(k, b, S3, Check(<<SegSegment>> \o u1), S3)
      BY <2>4, <1>1, <1>3, CheckLib
    <3>2. local_memory_get_attached(u1) = create_segment(u1) \o Check(<<SegSegment>> \o u1)
      BY <1>4 DEF local_memory_get_attached, local_memory_put
    <3> QED BY <2>6, <3>1, <3>2, GoodCat
  <2>8. Good(k, b, MdDevice, create_local_segment(k = "attach", u0), S3)
    <3> HIDE DEF S1, S2, S3
    <3>1. CASE k = "attach"
      <4>1. create_local_segment(k = "attach", u0) = Get(SegMem,
            u0) \o local_memory_get_attached(u1)
        BY <3>1, <1>4, <1>6 DEF create_local_segment
      <4>2. Good(k, b, MdDevice, Get(SegMem, u0) \o local_memory_get_attached(u1), S3)
        BY <2>7, <1>5, GoodCat
      <4> QED BY <4>1, <4>2
    <3>2. CASE k # "attach"
      <4>1. create_local_segment(k = "attach", u0) = Get(SegMem, u0) \o create_segment(u1)
        BY <3>2, <1>4, <1>6 DEF create_local_segment
      <4>2. Good(k, b, MdDevice, Get(SegMem, u0) \o create_segment(u1), S3)
        BY <2>6, <1>5, GoodCat
      <4> QED BY <4>1, <4>2
    <3> QED BY <3>1, <3>2
  <2> QED BY <2>5, <2>8
<1>8. ASSUME k = "connect"
      PROVE  Good(k, b, MdDevice, connect_remote_segment(u0), MdDevice \union SegHeld(k))
  <2> DEFINE T == (S1 \union {R("seg", "sd")}) \union {R("seg", "device")}
             v == device_put("seg") \o u1
  <2>1. /\ Good(k, b, S1, device_get("seg", u1), T)
        /\ Frees(k, "release", {}, T, v) /\ v \in Seq(Res)
    <3>1. /\ R("seg", "sd") \notin S1 /\ R("seg", "device") \notin S1
             /\ R("seg", "segment") \notin S1
          /\ R("seg", "mem") \in S1
      BY <1>4
    <3> HIDE DEF S1, u1
    <3> QED BY <3>1, <1>1, <1>3, <1>5, DeviceGet
  <2>2. T \union {SegSegment} = MdDevice \union SegHeld(k) /\ T \in SUBSET Res
    BY <1>4, <1>5, <1>8, SegPlain DEF SegHeld
  <2>3. Rests(k, FALSE, T \union {SegSegment})
    <3>1. ((MdDevice \union {}) \union SegHeld(k)) \union {} = T \union {SegSegment}
      BY <2>2
    <3> QED BY <3>1, <1>0, SegRests
  <2> HIDE DEF T, v
  <2>4. Good(k, b, T, Get(SegSegment, v), T \union {SegSegment})
    BY <2>1, <2>2, <2>3, <1>1, SegPlain, GetLib
  <2>5. Good(k, b, S1, device_get("seg", u1) \o Get(SegSegment, v), T \union {SegSegment})
    BY <2>1, <2>4, GoodCat
  <2>6. connect_remote_segment(u0) = Get(SegMem,
        u0) \o (device_get("seg", u1) \o Get(SegSegment, v))
    BY <1>4, <1>6 DEF connect_remote_segment, device_memory_get, v
  <2>7. Good(k, b, MdDevice, Get(SegMem, u0) \o (device_get("seg", u1) \o Get(SegSegment, v)),
        T \union {SegSegment})
    BY <2>5, <1>5, GoodCat
  <2> QED BY <2>2, <2>6, <2>7
<1> QED BY <1>7, <1>8 DEF u0

SegV(k) == ((MdDevice \union SegHeld(k)) \union (IF k = "attach" THEN {Io} ELSE {Va, Io}))
      \union {DmaMem}

\* nvm_dis_dma_create, nvm_dis_dma_map_device and nvm_dis_dma_connect
LEMMA SegGood ==
    ASSUME NEW k \in SegKinds \union {"connect"}, NEW b
    PROVE  /\ Good(k, b, {}, Program(k), SegV(k))
           /\ Frees(k, "release", {}, SegV(k), nvm_dma_unmap(k))
<1> DEFINE E == MdDevice \union SegHeld(k)
           u == SegRemove(k)
<1>1. k \in LibKinds
  BY DEF LibKinds, DmaKinds, DisKinds, SegKinds
<1>2. ASSUME NEW X \in SUBSET {Va, Io}
      PROVE  /\ Frees(k, "release", {}, E \union X, u) /\ u \in Seq(Res)
             /\ Frees(k, "release", {}, (E \union X) \union {DmaMem}, nvm_dma_unmap(k))
             /\ Rests(k, FALSE, E \union X) /\ Rests(k, FALSE, (E \union X) \union {DmaMem})
             /\ E \union X \in SUBSET Res
  BY SegFrees
<1>3. Io \in Plain /\ Va \in Plain /\ DmaMem \in Plain
  BY PlainFields DEF Va, Io, DmaMem
<1>4. E \union {} = E /\ (E \union {Io}) \union {Va} = E \union {Va, Io}
  OBVIOUS
<1> HIDE DEF E, u
<1>5. Good(k, b, E, Check(u), E)
  <2>1. Frees(k, "release", {}, E, u) /\ u \in Seq(Res) /\ Rests(k, FALSE, E) /\ E \in SUBSET Res
    BY <1>2, <1>4
  <2> QED BY <2>1, <1>1, CheckLib
<1>6. Good(k, b, E, Get(Io, u), E \union {Io})
  <2>1. Frees(k, "release", {}, E, u) /\ u \in Seq(Res) /\ Rests(k, FALSE, E \union {Io})
        /\ E \in SUBSET Res
    BY <1>2, <1>4
  <2> QED BY <2>1, <1>1, <1>3, GetLib
<1>7. Good(k, b, E \union {Io}, Get(Va, u), E \union {Va, Io})
  <2>1. /\ Frees(k, "release", {}, E \union {Io}, u) /\ u \in Seq(Res)
        /\ Rests(k, FALSE, (E \union {Io}) \union {Va}) /\ E \union {Io} \in SUBSET Res
    BY <1>2, <1>4
  <2>2. Good(k, b, E \union {Io}, Get(Va, u), (E \union {Io}) \union {Va})
    BY <2>1, <1>1, <1>3, GetLib
  <2> QED BY <2>2, <1>4
<1>8. ASSUME NEW X \in SUBSET {Va, Io}
      PROVE  Good(k, b, E \union X, _nvm_dma_create(u), (E \union X) \union {DmaMem})
  <2>1. Good(k, b, E \union X, Get(DmaMem, u), (E \union X) \union {DmaMem})
    BY <1>1, <1>2, <1>3, <1>8, GetLib
  <2> QED BY <2>1 DEF _nvm_dma_create, DmaMem
<1>9. Good(k, b, E, io_map_local_memory(u), E \union {Io})
  <2>1. Good(k, b, E, Check(u) \o Get(Io, u), E \union {Io})
    BY <1>5, <1>6, GoodCat
  <2>2. Good(k, b, E, Check(u) \o (Check(u) \o Get(Io, u)), E \union {Io})
    BY <1>5, <2>1, GoodCat
  <2> QED BY <2>2 DEF io_map_local_memory, io_map_local, Io
<1>10. Good(k, b, E, io_map_remote(u), E \union {Io})
  BY <1>6 DEF io_map_remote, Io
<1>11. Good(k, b, {}, create_map_descriptor, MdDevice)
  BY <1>1, DescriptorGood
<1>12. Good(k, b, E \union {Io}, va_map("md", u), E \union {Va, Io})
  BY <1>7 DEF va_map, Va
<1>13. Frees(k, "release", {}, SegV(k), nvm_dma_unmap(k))
  BY <1>2 DEF SegV, E
<1>14. CASE k = "create"
  <2>1. Good(k, b, MdDevice, create_local_segment(FALSE, remove_map_descriptor), E)
    BY <1>14, SegmentGood DEF E
  <2>2. Good(k, b, {}, nvm_dis_dma_create, (E \union {Va, Io}) \union {DmaMem})
    <3> DEFINE p1 == create_map_descriptor \o create_local_segment(FALSE, remove_map_descriptor)
               p2 == p1 \o io_map_local_memory(u)
               p3 == p2 \o va_map("md", u)
    <3>1. Good(k, b, {}, p1, E)
      BY <2>1, <1>11, GoodCat
    <3> HIDE DEF p1
    <3>2. Good(k, b, {}, p2, E \union {Io})
      BY <3>1, <1>9, GoodCat
    <3> HIDE DEF p2
    <3>3. Good(k, b, {}, p3, E \union {Va, Io})
      BY <3>2, <1>12, GoodCat
    <3> HIDE DEF p3
    <3>4. Good(k, b, {}, p3 \o _nvm_dma_create(u), (E \union {Va, Io}) \union {DmaMem})
      BY <3>3, <1>8, GoodCat
    <3> QED BY <3>4, <1>14 DEF nvm_dis_dma_create, p1, p2, p3, u, SegRemove
  <2> QED BY <2>2, <1>13, <1>14 DEF SegV, E, Program, ProgKinds, LatKinds, KernKinds
<1>15. CASE k = "attach"
  <2>1. Good(k, b, MdDevice, create_local_segment(TRUE, remove_map_descriptor), E)
    BY <1>15, SegmentGood DEF E
  <2>2. Good(k, b, {}, nvm_dis_dma_map_device, (E \union {Io}) \union {DmaMem})
    <3> DEFINE p1 == create_map_descriptor \o create_local_segment(TRUE, remove_map_descriptor)
               p2 == p1 \o io_map_local_memory(u)
    <3>1. Good(k, b, {}, p1, E)
      BY <2>1, <1>11, GoodCat
    <3> HIDE DEF p1
    <3>2. Good(k, b, {}, p2, E \union {Io})
      BY <3>1, <1>9, GoodCat
    <3> HIDE DEF p2
    <3>3. Good(k, b, {}, p2 \o _nvm_dma_create(u), (E \union {Io}) \union {DmaMem})
      BY <3>2, <1>8, GoodCat
    <3> QED BY <3>3, <1>15 DEF nvm_dis_dma_map_device, p1, p2, u, SegRemove
  <2> QED BY <2>2, <1>13, <1>15 DEF SegV, E, Program, ProgKinds, LatKinds, KernKinds
<1>16. CASE k = "connect"
  <2>1. Good(k, b, MdDevice, connect_remote_segment(remove_map_descriptor), E)
    BY <1>16, SegmentGood DEF E
  <2>2. Good(k, b, {}, nvm_dis_dma_connect, (E \union {Va, Io}) \union {DmaMem})
    <3> DEFINE p1 == create_map_descriptor \o connect_remote_segment(remove_map_descriptor)
               p2 == p1 \o io_map_remote(u)
               p3 == p2 \o va_map("md", u)
    <3>1. Good(k, b, {}, p1, E)
      BY <2>1, <1>11, GoodCat
    <3> HIDE DEF p1
    <3>2. Good(k, b, {}, p2, E \union {Io})
      BY <3>1, <1>10, GoodCat
    <3> HIDE DEF p2
    <3>3. Good(k, b, {}, p3, E \union {Va, Io})
      BY <3>2, <1>12, GoodCat
    <3> HIDE DEF p3
    <3>4. Good(k, b, {}, p3 \o _nvm_dma_create(u), (E \union {Va, Io}) \union {DmaMem})
      BY <3>3, <1>8, GoodCat
    <3> QED BY <3>4, <1>16 DEF nvm_dis_dma_connect, p1, p2, p3, u, SegRemove
  <2> QED BY <2>2, <1>13, <1>16 DEF SegV, E, Program, ProgKinds, LatKinds, KernKinds
<1> QED BY <1>14, <1>15, <1>16 DEF SegKinds

Fd    == R("md", "fd")
MdMem == R("md", "mem")
Pages == R("md", "pages")
TmpMem == R("tmp", "mem")

\* The fields of a mapping by the module
LEMMA KernRes == /\ Fd \in Plain /\ MdMem \in Plain /\ DmaMem \in Plain /\ TmpMem \in Plain
                 /\ Fd \in Res /\ MdMem \in Res /\ DmaMem \in Res /\ TmpMem \in Res /\ Pages \in Res
                 /\ Pages \in Conditional
<1>1. Fd \in Plain /\ MdMem \in Plain /\ DmaMem \in Plain /\ TmpMem \in Plain
  BY PlainFields DEF Fd, MdMem, DmaMem, TmpMem
<1>2. Pages \in Res /\ Pages \in Conditional
  BY StructRes DEF Pages, Structs, Fields, Conditional
<1> QED BY <1>1, <1>2 DEF Plain

\* Pinned pages rest on the descriptor to unpin them with.
LEMMA KernRests ==
    ASSUME NEW k \in KernKinds, NEW Y \in SUBSET {DmaMem, TmpMem}, NEW Z \in SUBSET {Pages}, NEW t
    PROVE  /\ Rests(k, t, Y) /\ Rests(k, t, Y \union {MdMem})
           /\ Rests(k, t, ((Y \union {MdMem}) \union {Fd}) \union Z)
<1>1. k \in LibKinds
  BY DEF LibKinds, DmaKinds
<1>2. Backed(k, Y) /\ Stored(Y)
  BY DEF Backed, Stored, DmaMem, TmpMem, R
<1>3. Backed(k, Y \union {MdMem}) /\ Stored(Y \union {MdMem})
  BY DEF Backed, Stored, DmaMem, TmpMem, MdMem, R
<1>4. Backed(k, ((Y \union {MdMem}) \union {Fd}) \union Z)
  BY DEF Backed, DmaMem, TmpMem, MdMem, Fd, Pages, R, KernKinds, SegKinds
<1>5. Stored(((Y \union {MdMem}) \union {Fd}) \union Z)
  BY DEF Stored, DmaMem, TmpMem, MdMem, Fd, Pages, R
<1> QED BY <1>1, <1>2, <1>3, <1>4, <1>5, LibFacts

\* What remove_mapping releases
LEMMA RemoveMappingIs ==
    ASSUME NEW l \in Seq(Res)
    PROVE  remove_mapping \o l = <<Pages>> \o (<<Fd>> \o (<<MdMem>> \o l))
          /\ remove_mapping \in Seq(Res)
<1>1. /\ <<Pages>> \in Seq(Res) /\ <<Fd>> \in Seq(Res) /\ <<MdMem>> \in Seq(Res)
      /\ <<MdMem>> \o l \in Seq(Res) /\ <<Pages, Fd>> \in Seq(Res)
  BY KernRes
<1>2. remove_mapping = <<Pages, Fd>> \o <<MdMem>>
  BY DEF remove_mapping, Pages, Fd, MdMem, Mem
<1>3. Regroup(<<Pages, Fd>>, <<MdMem>>, l)
  BY <1>1, Regroups
<1>4. <<Pages, Fd>> \o (<<MdMem>> \o l) = <<Pages>> \o (<<Fd>> \o (<<MdMem>> \o l))
  BY <1>1, KernRes, PairCat
<1> QED BY <1>2, <1>3, <1>4 DEF Regroup

\* remove_mapping unmaps, closes and frees.
LEMMA RemoveMapping ==
    ASSUME NEW k \in KernKinds, NEW Y \in SUBSET {DmaMem}, NEW Z \in SUBSET {Pages},
           NEW l \in Seq(Res),
           Frees(k, "release", {}, Y, l)
    PROVE  /\ Frees(k, "release", {}, ((Y \union {MdMem}) \union {Fd}) \union Z,
              remove_mapping \o l)
           /\ remove_mapping \o l \in Seq(Res)
<1> DEFINE S1 == Y \union {MdMem}
           S2 == S1 \union {Fd}
           u1 == <<MdMem>> \o l
           u2 == <<Fd>> \o u1
<1>1. /\ Rests(k, FALSE, S1) /\ Rests(k, FALSE, S2 \union Z) /\ Rests(k, FALSE, S2)
         /\ S2 \union {} = S2
  <2>1. Rests(k, FALSE, S2 \union {}) /\ S2 \union {} = S2
    BY KernRests
  <2> QED BY <2>1, KernRests
<1>2. /\ MdMem \notin Y /\ Fd \notin S1 /\ Pages \notin S2 /\ MdMem # R("seg", "sd")
         /\ Fd # R("seg", "sd")
      /\ Pages # R("seg", "sd") /\ Pages[1] = "md" /\ R("md", "mem") \in S2
  BY DEF MdMem, Fd, Pages, DmaMem, R
<1>3. Frees(k, "release", {}, S1, u1) /\ u1 \in Seq(Res)
  BY <1>1, <1>2, KernRes, FreesHeld, ConsSeq
<1>4. Frees(k, "release", {}, S2, u2) /\ u2 \in Seq(Res)
  <2> HIDE DEF S1, u1
  <2> QED BY <1>1, <1>2, <1>3, KernRes, FreesHeld, ConsSeq
<1>5. Frees(k, "release", {}, S2 \union Z, <<Pages>> \o u2) /\ <<Pages>> \o u2 \in Seq(Res)
  <2> HIDE DEF S2, u2
  <2>1. CASE Z = {}
    BY <2>1, <1>1, <1>2, <1>4, KernRes, FreesSkip, ConsSeq
  <2>2. CASE Z = {Pages}
    BY <2>2, <1>1, <1>2, <1>4, KernRes, FreesHeld, ConsSeq
  <2> QED BY <2>1, <2>2
<1>6. remove_mapping \o l = <<Pages>> \o u2
  BY RemoveMappingIs
<1> QED BY <1>5, <1>6

\* The second remove_mapping in the roll-back of populate_handle reads freed memory:
\* the program may stop there, and nothing is left if it does not.
LEMMA RemovedAgain ==
    ASSUME NEW k \in KernKinds
    PROVE  Frees(k, "release", {}, {}, remove_mapping)
<1>1. /\ Known(k, "release", {}, {}) /\ {} \ {MdMem} = {} /\ {} \ {Fd} = {} /\ {} \ {Pages} = {}
      /\ Rests(k, "release" = "throw", {}) /\ {} \subseteq Left(k, "release" = "throw")
            /\ <<>> \in Seq(Res)
  <2>1. {} \in SUBSET {DmaMem, TmpMem}
    OBVIOUS
  <2>2. Known(k, "release", {}, {})
    BY DEF Known
  <2>3. Rests(k, "release" = "throw", {})
    BY <2>1, KernRests
  <2> QED BY <2>2, <2>3
<1>2. Frees(k, "release", {}, {}, <<>>)
  BY <1>1, FreesNil
<1>3. Frees(k, "release", {}, {}, <<MdMem>> \o <<>>) /\ <<MdMem>> \o <<>> \in Seq(Res)
  BY <1>1, <1>2, KernRes, FreesCons, ConsSeq
<1>4. Frees(k, "release", {}, {}, <<Fd>> \o (<<MdMem>> \o <<>>))
      /\ <<Fd>> \o (<<MdMem>> \o <<>>) \in Seq(Res)
  BY <1>1, <1>3, KernRes, FreesCons, ConsSeq
<1>5. Frees(k, "release", {}, {}, <<Pages>> \o (<<Fd>> \o (<<MdMem>> \o <<>>)))
  BY <1>1, <1>4, KernRes, FreesCons
<1>6. remove_mapping \o <<>> = <<Pages>> \o (<<Fd>> \o (<<MdMem>> \o <<>>))
      /\ remove_mapping \in Seq(Res)
  BY <1>1, RemoveMappingIs
<1>7. remove_mapping \o <<>> = remove_mapping
  BY <1>6, CatNil
<1> QED BY <1>5, <1>6, <1>7

KernV == {MdMem, Fd, DmaMem, Pages}

\* nvm_dma_map_host and nvm_dma_map_device
LEMMA KernGood ==
    ASSUME NEW k \in KernKinds, NEW b
    PROVE  /\ Good(k, b, {}, nvm_dma_map_host, KernV)
           /\ Frees(k, "release", {}, KernV, nvm_dma_unmap(k))
<1> DEFINE S1 == {MdMem}
           S2 == S1 \union {Fd}
           S3 == S2 \union {DmaMem}
           S4 == S3 \union {TmpMem}
           S5 == S4 \union {Pages}
           rm == remove_mapping
           q  == (rm \o Mem("dma")) \o rm
           p  == Mem("tmp") \o q
<1>1. k \in LibKinds /\ k \notin KeepKinds /\ Undo(k, b) = "release" /\ \A S : At(k, S) = {}
  <2>1. k \in LibKinds
    BY DEF LibKinds, DmaKinds
  <2> QED BY <2>1, LibFacts
<1>2. /\ MdMem # Fd /\ MdMem # DmaMem /\ Fd # DmaMem /\ TmpMem \notin S3 /\ Pages \notin S4
         /\ Fd \notin S1
      /\ \A r \in {MdMem, Fd, DmaMem, TmpMem, Pages} : r # R("seg", "sd") /\ r # R("ctrl", "mmap")
      /\ TmpMem[1] = "tmp" /\ R("tmp", "mem") = TmpMem
  BY DEF MdMem, Fd, DmaMem, TmpMem, Pages, R
<1>3. S1 \in SUBSET Res /\ S2 \in SUBSET Res /\ S3 \in SUBSET Res /\ S4 \in SUBSET Res
      /\ S5 \in SUBSET Res
  BY KernRes
<1>4. Rests(k, FALSE, S1) /\ Rests(k, FALSE, S2) /\ Rests(k, FALSE, S3) /\ Rests(k, FALSE, S4)
      /\ Rests(k, FALSE, S5)
  <2>1. ASSUME NEW Y \in SUBSET {DmaMem, TmpMem}, NEW Z \in SUBSET {Pages}
        PROVE  Rests(k, FALSE, Y \union {MdMem})
              /\ Rests(k, FALSE, ((Y \union {MdMem}) \union {Fd}) \union Z)
    BY KernRests
  <2>2. S1 = {} \union {MdMem} /\ S2 = (({} \union {MdMem}) \union {Fd}) \union {}
    OBVIOUS
  <2>3. S3 = (({DmaMem} \union {MdMem}) \union {Fd}) \union {}
    OBVIOUS
  <2>4. S4 = (({DmaMem, TmpMem} \union {MdMem}) \union {Fd}) \union {}
    OBVIOUS
  <2>5. S5 = (({DmaMem, TmpMem} \union {MdMem}) \union {Fd}) \union {Pages}
    OBVIOUS
  <2> HIDE DEF S1, S2, S3, S4, S5
  <2>6. Rests(k, FALSE, S1) /\ Rests(k, FALSE, S2)
    BY <2>1, <2>2
  <2>7. Rests(k, FALSE, S3)
    BY <2>1, <2>3
  <2>8. Rests(k, FALSE, S4)
    BY <2>1, <2>4
  <2>9. Rests(k, FALSE, S5)
    BY <2>1, <2>5
  <2> QED BY <2>6, <2>7, <2>8, <2>9
<1>5. rm \in Seq(Res) /\ Mem("dma") \in Seq(Res) /\ Mem("tmp") = <<TmpMem>>
      /\ Mem("md") = <<MdMem>> /\ Mem("dma") = <<DmaMem>>
  <2>1. <<>> \in Seq(Res)
    OBVIOUS
  <2>2. rm \in Seq(Res)
    BY <2>1, RemoveMappingIs
  <2>3. Mem("tmp") = <<TmpMem>> /\ Mem("md") = <<MdMem>> /\ Mem("dma") = <<DmaMem>>
    BY DEF Mem, DmaMem, TmpMem, MdMem
  <2>4. <<DmaMem>> \in Seq(Res)
    BY KernRes
  <2>5. Mem("dma") \in Seq(Res)
    BY <2>3, <2>4, Zenon
  <2> QED BY <2>2, <2>3, <2>5, Zenon
<1>6. Frees(k, "release", {}, S2, rm)
  <2>1. Frees(k, "release", {}, {}, <<>>) /\ <<>> \in Seq(Res)
    BY <1>1, Nothing0
  <2>2. Frees(k, "release", {}, (({} \union {MdMem}) \union {Fd}) \union {}, rm \o <<>>)
    BY <2>1, RemoveMapping
  <2>3. (({} \union {MdMem}) \union {Fd}) \union {} = S2 /\ rm \o <<>> = rm
    BY <1>5, CatNil
  <2> QED BY <2>2, <2>3
<1>7. Frees(k, "release", {}, KernV, rm \o Mem("dma"))
  <2>1. Frees(k, "release", {}, {DmaMem}, Mem("dma")) 
    BY <1>1, MemTaken DEF DmaMem
  <2>2. Frees(k, "release", {}, (({DmaMem} \union {MdMem}) \union {Fd}) \union {Pages},
        rm \o Mem("dma"))
    BY <2>1, <1>5, RemoveMapping
  <2>3. (({DmaMem} \union {MdMem}) \union {Fd}) \union {Pages} = KernV
    BY DEF KernV
  <2> QED BY <2>2, <2>3
<1>8. Frees(k, "release", {}, S3, q) /\ q \in Seq(Res)
  <2>1. Frees(k, "release", {}, {} \union {DmaMem}, <<DmaMem>> \o rm)
        /\ <<DmaMem>> \o rm \in Seq(Res)
    <3>1. Rests(k, FALSE, {DmaMem}) /\ {} \union {DmaMem} = {DmaMem}
      BY KernRests
    <3> QED BY <3>1, <1>2, <1>5, KernRes, RemovedAgain, FreesHeld, ConsSeq
  <2>2. {} \union {DmaMem} = {DmaMem}
    OBVIOUS
  <2>3. Frees(k, "release", {}, (({DmaMem} \union {MdMem}) \union {Fd}) \union {},
        rm \o (<<DmaMem>> \o rm))
        /\ rm \o (<<DmaMem>> \o rm) \in Seq(Res)
    <3> DEFINE m == <<DmaMem>> \o rm
    <3>1. m \in Seq(Res) /\ Frees(k, "release", {}, {DmaMem}, m)
      BY <2>1, <2>2
    <3> HIDE DEF m, rm
    <3>2. /\ Frees(k, "release", {}, (({DmaMem} \union {MdMem}) \union {Fd}) \union {},
             remove_mapping \o m)
          /\ remove_mapping \o m \in Seq(Res)
      BY <3>1, RemoveMapping
    <3> QED BY <3>2 DEF m, rm
  <2>4. (({DmaMem} \union {MdMem}) \union {Fd}) \union {} = S3
    OBVIOUS
  <2>5. Regroup(rm, Mem("dma"), rm)
    BY <1>5, Regroups
  <2> QED BY <2>3, <2>4, <2>5, <1>5 DEF Regroup
<1> HIDE DEF q, rm
<1>9. /\ Good(k, b, {}, Get(MdMem, <<>>), S1)
      /\ Good(k, b, S1, Get(Fd, Mem("md")), S2)
  <2>1. /\ Good(k, b, {}, Get(MdMem, <<>>), S1) /\ Frees(k, "release", {}, S1, Mem("md"))
           /\ Mem("md") \in Seq(Res)
    BY <1>1, MemTaken DEF MdMem
  <2>2. Good(k, b, S1, Get(Fd, Mem("md")), S2)
    <3> HIDE DEF S1
    <3> QED BY <2>1, <1>1, <1>3, <1>4, KernRes, GetLib
  <2> QED BY <2>1, <2>2
<1>10. Good(k, b, S2, Get(DmaMem, rm), S3)
  <2> HIDE DEF S2
  <2> QED BY <1>1, <1>3, <1>4, <1>5, <1>6, KernRes, GetLib
<1>11. Good(k, b, S3, Get(TmpMem, q), S4) /\ Frees(k, "release", {}, S4, p) /\ p \in Seq(Res)
  <2>1. Good(k, b, S3, Get(TmpMem, q), S4)
    <3> HIDE DEF S3
    <3> QED BY <1>1, <1>3, <1>4, <1>8, KernRes, GetLib
  <2>2. Frees(k, "release", {}, S4, <<TmpMem>> \o q) /\ <<TmpMem>> \o q \in Seq(Res)
    <3>1. TmpMem \notin S3 /\ TmpMem # R("seg", "sd")
      BY <1>2
    <3> HIDE DEF S3
    <3> QED BY <3>1, <1>4, <1>8, KernRes, FreesHeld, ConsSeq
  <2> QED BY <2>1, <2>2, <1>5
<1> HIDE DEF p
<1>12. Good(k, b, S4, Get(Pages, p), S5)
  <2>1. TakesOk(k, Pages) /\ Core({Pages}) = {Pages} 
    <3>1. Pages # Bindings /\ Pages # SISCI /\ Pages # None
      BY DEF Bindings, SISCI, None, Pages, R, var
    <3> QED BY <3>1, <1>2 DEF TakesOk, Core, Optionals
  <2>2. Rests(k, FALSE, S4 \union Core({Pages})) /\ Frees(k, Undo(k, b), At(k, S4), S4, p)
    BY <2>1, <1>1, <1>4, <1>11
  <2>3. Good(k, b, S4, Get(Pages, p), S4 \union Core({Pages}))
    <3> HIDE DEF S4
    <3> QED BY <2>1, <2>2, <1>3, <1>11, KernRes, GoodGet
  <2> QED BY <2>1, <2>3
<1>13. Good(k, b, S5, Drop(Mem("tmp")), KernV)
  <2>1. <<TmpMem>> \o <<>> = <<TmpMem>> /\ <<TmpMem>> \in Seq(Res) /\ <<>> \in Seq(Res)
        /\ <<TmpMem>> # <<>>
    BY KernRes
  <2>2. S5 \ {TmpMem} = KernV
    BY <1>2 DEF KernV
  <2>3. Rests(k, "build" = "throw", KernV) /\ Rests(k, "build" = "throw", S5)
    <3>1. Rests(k, "build" = "throw", (({DmaMem} \union {MdMem}) \union {Fd}) \union {Pages})
      BY KernRests
    <3>2. (({DmaMem} \union {MdMem}) \union {Fd}) \union {Pages} = KernV
      BY DEF KernV
    <3>3. ("build" = "throw") \in BOOLEAN
      OBVIOUS
    <3> QED BY <3>1, <3>2, <3>3, <1>4, RestsThrown
  <2>4. Rel(k, "build", {}, S5 \ {TmpMem}, <<>>)
    BY <2>2, <2>3, RelNil
  <2>5. Harmless(k, {}, TmpMem, S5)
    BY <1>2 DEF Harmless, Releasable
  <2>6. Rel(k, "build", {}, S5, <<TmpMem>> \o <<>>)
    <3> HIDE DEF S5
    <3> QED BY <2>1, <2>3, <2>4, <2>5, KernRes, RelCons
  <2>7. Elems(<<TmpMem>>) = {TmpMem}
    <3>1. Elems(<<TmpMem>> \o <<>>) = {TmpMem} \union Elems(<<>>)
      BY <2>1, KernRes, ConsElems
    <3>2. Elems(<<>>) = {}
      BY FirstZero DEF Elems
    <3> QED BY <2>1, <3>1, <3>2
  <2> HIDE DEF S5
  <2>8. Good(k, b, S5, Drop(<<TmpMem>>), S5 \ Elems(<<TmpMem>>))
    BY <2>1, <2>6, <1>1, <1>3, GoodDrop
  <2> QED BY <2>2, <2>7, <2>8, <1>5
<1> HIDE DEF S1, S2, S3, S4, S5
<1>14. Good(k, b, {}, create_mapping, S2)
  BY <1>9, GoodCat DEF create_mapping, MdMem, Fd
<1>15. Good(k, b, S3, populate_handle(q), KernV)
  <2>1. Good(k, b, S3, (Get(TmpMem, q) \o Get(Pages, p)) \o Drop(Mem("tmp")), KernV)
    BY <1>11, <1>12, <1>13, GoodCat
  <2> QED BY <2>1 DEF populate_handle, TmpMem, Pages, p
<1>16. Good(k, b, {}, (create_mapping \o Get(DmaMem, rm)) \o populate_handle(q), KernV)
  BY <1>10, <1>14, <1>15, GoodCat
<1>17. Good(k, b, {}, nvm_dma_map_host, KernV)
  BY <1>16 DEF nvm_dma_map_host, _nvm_dma_create, _nvm_dma_remove, DmaMem, q, rm
<1>18. nvm_dma_unmap(k) = rm \o Mem("dma")
  BY DEF nvm_dma_unmap, _nvm_dma_remove, KernKinds, SegKinds, rm
<1> QED BY <1>7, <1>17, <1>18

CtrlFd   == R("ctrl", "fd")
CtrlMmap == R("ctrl", "mmap")
CtrlMem  == R("ctrl", "mem")

\* The fields of a controller handle
LEMMA CtrlRes == /\ CtrlFd \in Plain /\ CtrlMem \in Plain
                 /\ CtrlFd \in Res /\ CtrlMmap \in Res /\ CtrlMem \in Res
                 /\ CtrlFd # CtrlMmap /\ CtrlFd # CtrlMem /\ CtrlMmap # CtrlMem
                 /\ \A r \in {CtrlFd, CtrlMmap, CtrlMem} : r # R("seg", "sd")
<1>1. CtrlFd \in Plain /\ CtrlMem \in Plain
  BY PlainFields DEF CtrlFd, CtrlMem
<1>2. CtrlMmap \in Res
  BY StructRes DEF CtrlMmap, Structs, Fields
<1>3. /\ CtrlFd # CtrlMmap /\ CtrlFd # CtrlMem /\ CtrlMmap # CtrlMem
      /\ \A r \in {CtrlFd, CtrlMmap, CtrlMem} : r # R("seg", "sd")
  BY DEF CtrlFd, CtrlMmap, CtrlMem, R
<1> QED BY <1>1, <1>2, <1>3 DEF Plain

\* They rest on nothing.
LEMMA CtrlRests ==
    ASSUME NEW k \in LibKinds, NEW S \in SUBSET {CtrlFd, CtrlMmap, CtrlMem}
    PROVE  Rests(k, FALSE, S)
<1>1. Backed(k, S) /\ Stored(S)
  BY DEF Backed, Stored, CtrlFd, CtrlMmap, CtrlMem, R, InMemory
<1> QED BY <1>1, LibFacts

\* nvm_ctrl_init and nvm_ctrl_free
LEMMA SysfsGood ==
    ASSUME NEW b
    PROVE  /\ Good("sysfs", b, {}, nvm_ctrl_init, {CtrlFd, CtrlMmap, CtrlMem})
           /\ Frees("sysfs", "release", {}, {CtrlFd, CtrlMmap, CtrlMem}, nvm_ctrl_free("sysfs"))
<1> DEFINE k  == "sysfs"
           S1 == {CtrlFd}
           S2 == {CtrlFd, CtrlMmap}
           S3 == {CtrlFd, CtrlMmap, CtrlMem}
<1>1. k \in LibKinds /\ Undo(k, b) = "release" /\ \A S : At(k, S) = {}
  <2>1. k \in LibKinds
    BY DEF LibKinds, CtrlKinds
  <2> QED BY <2>1, LibFacts
<1>2. \A S \in SUBSET {CtrlFd, CtrlMmap, CtrlMem} : Rests(k, FALSE, S) /\ S \in SUBSET Res
  BY <1>1, CtrlRests, CtrlRes
<1> HIDE DEF k
<1>3. Frees(k, "release", {}, {}, <<>>) /\ <<>> \in Seq(Res)
  BY <1>1, Nothing0
<1>4. /\ <<CtrlFd>> \in Seq(Res) /\ <<CtrlFd>> \o <<>> = <<CtrlFd>>
      /\ <<CtrlMem>> \in Seq(Res) /\ <<CtrlMem>> \o <<>> = <<CtrlMem>>
      /\ <<CtrlMem>> \o <<CtrlFd>> \in Seq(Res) /\ <<CtrlFd>> \o <<CtrlMem>> \in Seq(Res)
  BY CtrlRes
<1>5. Frees(k, "release", {}, {CtrlFd}, <<CtrlFd>>)
  <2>1. {} \union {CtrlFd} = {CtrlFd}
    OBVIOUS
  <2>2. Rests(k, FALSE, {} \union {CtrlFd}) /\ CtrlFd \notin {}
    BY <2>1, <1>2
  <2>3. Frees(k, "release", {}, {} \union {CtrlFd}, <<CtrlFd>> \o <<>>)
    BY <2>2, <1>3, CtrlRes, FreesHeld
  <2> QED BY <2>1, <2>3, <1>4
<1>6. Frees(k, "release", {}, S2, <<CtrlMmap, CtrlFd>>) /\ <<CtrlMmap, CtrlFd>> \in Seq(Res)
  <2>1. S1 \union {CtrlMmap} = S2 /\ CtrlMmap \notin S1
    BY CtrlRes
  <2>2. Rests(k, FALSE, S1 \union {CtrlMmap})
    BY <2>1, <1>2
  <2>3. Frees(k, "release", {}, S1 \union {CtrlMmap}, <<CtrlMmap>> \o <<CtrlFd>>)
    BY <2>1, <2>2, <1>4, <1>5, CtrlRes, FreesHeld
  <2>4. <<CtrlMmap, CtrlFd>> = <<CtrlMmap>> \o <<CtrlFd>> /\ <<CtrlMmap, CtrlFd>> \in Seq(Res)
    BY CtrlRes, Pairs
  <2> QED BY <2>1, <2>3, <2>4
<1>7. /\ Frees(k, "release", {}, S3, <<CtrlMmap, CtrlMem, CtrlFd>>)
         /\ <<CtrlMmap, CtrlMem, CtrlFd>> \in Seq(Res)
  <2> DEFINE T == {CtrlFd, CtrlMem}
  <2>1. S1 \union {CtrlMem} = T /\ CtrlMem \notin S1 /\ T \union {CtrlMmap} = S3
        /\ CtrlMmap \notin T
    BY CtrlRes
  <2>2. Rests(k, FALSE, S1 \union {CtrlMem}) /\ Rests(k, FALSE, T \union {CtrlMmap})
    BY <2>1, <1>2
  <2>3. Frees(k, "release", {}, S1 \union {CtrlMem}, <<CtrlMem>> \o <<CtrlFd>>)
    BY <2>1, <2>2, <1>4, <1>5, CtrlRes, FreesHeld
  <2>4. Frees(k, "release", {}, T \union {CtrlMmap}, <<CtrlMmap>> \o (<<CtrlMem>> \o <<CtrlFd>>))
    <3>1. Frees(k, "release", {}, T, <<CtrlMem>> \o <<CtrlFd>>)
      BY <2>1, <2>3
    <3> HIDE DEF T
    <3> QED BY <2>1, <2>2, <3>1, <1>4, CtrlRes, FreesHeld
  <2>5. <<CtrlMmap, CtrlMem, CtrlFd>> = <<CtrlMmap>> \o (<<CtrlMem>> \o <<CtrlFd>>)
    <3>1. <<CtrlMem, CtrlFd>> = <<CtrlMem>> \o <<CtrlFd>>
      BY CtrlRes, Pairs
    <3>2. <<CtrlMmap, CtrlMem, CtrlFd>> = <<CtrlMmap>> \o <<CtrlMem, CtrlFd>>
      BY CtrlRes
    <3> QED BY <3>1, <3>2
  <2>6. <<CtrlMmap, CtrlMem, CtrlFd>> \in Seq(Res)
    BY CtrlRes
  <2> QED BY <2>1, <2>4, <2>5, <2>6
<1>8. Frees(k, "release", {}, S3, <<CtrlMmap, CtrlFd>> \o <<CtrlMem>>)
  <2> DEFINE T == {CtrlMem}
             U == {CtrlFd, CtrlMem}
  <2>1. {} \union {CtrlMem} = T /\ T \union {CtrlFd} = U /\ U \union {CtrlMmap} = S3
        /\ CtrlFd \notin T
        /\ CtrlMmap \notin U
    BY CtrlRes
  <2>2. Rests(k, FALSE, {} \union {CtrlMem}) /\ Rests(k, FALSE, T \union {CtrlFd})
        /\ Rests(k, FALSE, U \union {CtrlMmap})
    BY <2>1, <1>2
  <2>3. Frees(k, "release", {}, T, <<CtrlMem>>)
    <3>1. Frees(k, "release", {}, {} \union {CtrlMem}, <<CtrlMem>> \o <<>>)
      BY <2>2, <1>3, CtrlRes, FreesHeld
    <3> QED BY <3>1, <2>1, <1>4
  <2>4. Frees(k, "release", {}, U, <<CtrlFd>> \o <<CtrlMem>>)
    <3>1. Frees(k, "release", {}, T \union {CtrlFd}, <<CtrlFd>> \o <<CtrlMem>>)
      <4> HIDE DEF T
      <4> QED BY <2>1, <2>2, <2>3, <1>4, CtrlRes, FreesHeld
    <3> QED BY <3>1, <2>1
  <2>5. Frees(k, "release", {}, U \union {CtrlMmap}, <<CtrlMmap>> \o (<<CtrlFd>> \o <<CtrlMem>>))
    <3> HIDE DEF U
    <3> QED BY <2>1, <2>2, <2>4, <1>4, CtrlRes, FreesHeld
  <2>6. <<CtrlMmap, CtrlFd>> \o <<CtrlMem>> = <<CtrlMmap>> \o (<<CtrlFd>> \o <<CtrlMem>>)
    BY <1>4, CtrlRes, PairCat
  <2> QED BY <2>1, <2>5, <2>6
<1>9. Good(k, b, {}, Get(CtrlFd, <<>>), S1) /\ Good(k, b, S1, Check(<<CtrlFd>>), S1)
  <2>1. {} \union {CtrlFd} = S1 /\ S1 \in SUBSET Res /\ Rests(k, FALSE, S1) /\ {} \in SUBSET Res
    BY <1>2
  <2>2. Good(k, b, {}, Get(CtrlFd, <<>>), {} \union {CtrlFd})
    BY <2>1, <1>1, <1>3, CtrlRes, GetLib
  <2>3. Good(k, b, S1, Check(<<CtrlFd>>), S1)
    <3>1. Frees(k, "release", {}, S1, <<CtrlFd>>)
      BY <1>5
    <3> HIDE DEF S1
    <3> QED BY <2>1, <3>1, <1>1, <1>4, CheckLib
  <2> QED BY <2>1, <2>2, <2>3
<1>10. Good(k, b, S1, Get(CtrlMmap, <<>>), S2)
  <2>1. TakesOk(k, CtrlMmap) /\ Core({CtrlMmap}) = {CtrlMmap}
    <3>1. CtrlMmap # Bindings /\ CtrlMmap # SISCI /\ CtrlMmap # None /\ CtrlMmap # R("md", "pages")
      BY DEF Bindings, SISCI, None, CtrlMmap, R, var
    <3> QED BY <3>1 DEF TakesOk, Core, Optionals, k
  <2>2. S1 \union Core({CtrlMmap}) = S2 /\ CtrlMmap = R("ctrl", "mmap")
    BY <2>1 DEF CtrlMmap
  <2>3. Rests(k, FALSE, S1 \union Core({CtrlMmap})) /\ S1 \in SUBSET Res
    BY <2>2, <1>2
  <2>4. Good(k, b, S1, Get(CtrlMmap, <<>>), S1 \union Core({CtrlMmap}))
    <3> HIDE DEF S1
    <3> QED BY <2>1, <2>2, <2>3, <1>3, CtrlRes, GoodGet
  <2> QED BY <2>2, <2>4
<1>11. Good(k, b, S2, Get(CtrlMem, <<CtrlMmap, CtrlFd>>), S3)
  <2>1. S2 \union {CtrlMem} = S3 /\ S2 \in SUBSET Res /\ Rests(k, FALSE, S3)
    BY <1>2
  <2>2. Good(k, b, S2, Get(CtrlMem, <<CtrlMmap, CtrlFd>>), S2 \union {CtrlMem})
    <3> HIDE DEF S2, S3
    <3> QED BY <2>1, <1>1, <1>6, CtrlRes, GetLib
  <2> QED BY <2>1, <2>2
<1>12. Good(k, b, S3, Check(<<CtrlMmap, CtrlMem, CtrlFd>>), S3)
  <2>1. S3 \in SUBSET Res /\ Rests(k, FALSE, S3)
    BY <1>2
  <2> HIDE DEF S3
  <2> QED BY <2>1, <1>1, <1>7, CheckLib
<1> HIDE DEF S1, S2, S3
<1>13. Good(k, b, {}, Get(CtrlFd, <<>>) \o Check(<<CtrlFd>>), S1)
  BY <1>9, GoodCat
<1>14. Good(k, b, {}, (Get(CtrlFd, <<>>) \o Check(<<CtrlFd>>)) \o Get(CtrlMmap, <<>>), S2)
  BY <1>10, <1>13, GoodCat
<1>15. Good(k, b, S2, Get(CtrlMem, <<CtrlMmap, CtrlFd>>), S3)
      /\ Good(k, b, S3, Check(<<CtrlMmap, CtrlMem, CtrlFd>>), S3)
  BY <1>11, <1>12
<1>16. Good(k, b, {}, ((Get(CtrlFd, <<>>) \o Check(<<CtrlFd>>)) \o Get(CtrlMmap, <<>>))
                      \o Get(CtrlMem, <<CtrlMmap, CtrlFd>>), S3)
  BY <1>14, <1>15, GoodCat
<1>17. Good(k, b, {}, (((Get(CtrlFd, <<>>) \o Check(<<CtrlFd>>)) \o Get(CtrlMmap, <<>>))
                       \o Get(CtrlMem, <<CtrlMmap, CtrlFd>>)) \o Check(<<CtrlMmap, CtrlMem,
                             CtrlFd>>), S3)
  BY <1>15, <1>16, GoodCat
<1>18. Good(k, b, {}, nvm_ctrl_init, S3)
  BY <1>17 DEF nvm_ctrl_init, create_container, initialize_handle, CtrlFd, CtrlMem,
      CtrlMmap
<1>19. nvm_ctrl_free("sysfs") = <<CtrlMmap, CtrlFd>> \o <<CtrlMem>>
  BY DEF nvm_ctrl_free, Mem, CtrlFd, CtrlMem, CtrlMmap
<1> QED BY <1>8, <1>18, <1>19 DEF S3, k

RefMem     == R("ref", "mem")
RefSd      == R("ref", "sd")
RefDevice  == R("ref", "device")
RefSegment == R("ref", "segment")
RefVa      == R("ref", "va")
RefHeld    == {RefMem, RefSd, RefDevice, RefSegment, RefVa}
DevSd      == R("dev", "sd")
DevDevice  == R("dev", "device")

\* The fields of a controller that is reached through SmartIO
LEMMA RefPlain ==
    /\ RefHeld \subseteq Plain /\ RefHeld \subseteq Res /\ {DevSd, DevDevice} \subseteq Plain
          /\ {DevSd, DevDevice} \subseteq Res
    /\ RefMem # RefSd /\ RefMem # RefDevice /\ RefMem # RefSegment /\ RefMem # RefVa
          /\ RefSd # RefDevice
    /\ RefSd # RefSegment /\ RefSd # RefVa /\ RefDevice # RefSegment /\ RefDevice # RefVa
          /\ RefSegment # RefVa
    /\ DevSd # DevDevice /\ {DevSd, DevDevice} \cap RefHeld = {}
    /\ CtrlMem \notin RefHeld /\ CtrlMem \notin {DevSd, DevDevice}
    /\ \A r \in RefHeld \union {DevSd, DevDevice} : r # R("seg", "sd")
<1>1. RefHeld \subseteq Plain /\ {DevSd, DevDevice} \subseteq Plain
  BY PlainFields DEF RefHeld, RefMem, RefSd, RefDevice, RefSegment, RefVa, DevSd,
      DevDevice
<1>2. /\ RefMem # RefSd /\ RefMem # RefDevice /\ RefMem # RefSegment /\ RefMem # RefVa
         /\ RefSd # RefDevice
      /\ RefSd # RefSegment /\ RefSd # RefVa /\ RefDevice # RefSegment /\ RefDevice # RefVa
            /\ RefSegment # RefVa
      /\ DevSd # DevDevice /\ {DevSd, DevDevice} \cap RefHeld = {}
      /\ CtrlMem \notin RefHeld /\ CtrlMem \notin {DevSd, DevDevice}
      /\ \A r \in RefHeld \union {DevSd, DevDevice} : r # R("seg", "sd")
  BY DEF RefHeld, RefMem, RefSd, RefDevice, RefSegment, RefVa, DevSd, DevDevice,
      CtrlMem, R
<1> QED BY <1>1, <1>2 DEF Plain

\* What the descriptor of the register memory is made of, on top of S, which has nothing of it
LEMMA RefRests ==
    ASSUME NEW k \in LibKinds, NEW S, S \cap RefHeld = {}, Rests(k, FALSE, S)
    PROVE  /\ Rests(k, FALSE, S \union {RefMem})
           /\ Rests(k, FALSE, ((S \union {RefMem}) \union {RefSd}) \union {RefDevice})
           /\ Rests(k, FALSE,
                 (((S \union {RefMem}) \union {RefSd}) \union {RefDevice}) \union {RefSegment})
           /\ Rests(k, FALSE,
                 ((((S \union {RefMem}) \union {RefSd}) \union {RefDevice}) \union {RefSegment})
                       \union {RefVa})
<1>1. Backed(k, S) /\ Stored(S)
  BY DEF Rests
<1>2. Backed(k, S \union {RefMem}) /\ Stored(S \union {RefMem})
  BY <1>1 DEF Backed, Stored, RefMem, R
<1>3. Backed(k, ((S \union {RefMem}) \union {RefSd}) \union {RefDevice})
  BY <1>2 DEF Backed, RefSd, RefDevice, R
<1>4. Stored(((S \union {RefMem}) \union {RefSd}) \union {RefDevice})
  BY <1>2 DEF Stored, RefMem, RefSd, RefDevice, R
<1>5. Backed(k, (((S \union {RefMem}) \union {RefSd}) \union {RefDevice}) \union {RefSegment})
  BY <1>3 DEF Backed, RefSd, RefDevice, RefSegment, R
<1>6. Stored((((S \union {RefMem}) \union {RefSd}) \union {RefDevice}) \union {RefSegment})
  BY <1>4 DEF Stored, RefMem, RefSd, RefDevice, RefSegment, R
<1>7. Backed(k,
      ((((S \union {RefMem}) \union {RefSd}) \union {RefDevice}) \union {RefSegment})
            \union {RefVa})
  BY <1>5 DEF Backed, RefSd, RefDevice, RefSegment, RefVa, R
<1>8. Stored(((((S \union {RefMem}) \union {RefSd}) \union {RefDevice}) \union {RefSegment})
      \union {RefVa})
  BY <1>6 DEF Stored, RefMem, RefSd, RefDevice, RefSegment, RefVa, R
<1> QED BY <1>2, <1>3, <1>4, <1>5, <1>6, <1>7, <1>8, LibFacts

\* connect_register_memory and disconnect_register_memory
LEMMA RegisterMemory ==
    ASSUME NEW k \in LibKinds, NEW b, NEW S \in SUBSET Res, NEW u \in Seq(Res),
           S \cap RefHeld = {}, Rests(k, FALSE, S), Frees(k, "release", {}, S, u)
    PROVE  /\ Good(k, b, S, connect_register_memory(u), S \union RefHeld)
           /\ Rests(k, FALSE, S \union RefHeld)
           /\ Frees(k, "release", {}, S \union RefHeld, disconnect_register_memory \o u)
           /\ disconnect_register_memory \o u \in Seq(Res)
<1> DEFINE S1 == S \union {RefMem}
           S2 == (S1 \union {RefSd}) \union {RefDevice}
           S3 == S2 \union {RefSegment}
           S4 == S3 \union {RefVa}
           u1 == <<RefMem>> \o u
           u2 == device_put("ref") \o u1
           u3 == <<RefSegment>> \o u2
           u4 == <<RefVa>> \o u3
<1>1. Rests(k, FALSE, S1) /\ Rests(k, FALSE, S2) /\ Rests(k, FALSE, S3) /\ Rests(k, FALSE, S4)
  BY RefRests
<1>2. /\ RefMem \notin S /\ RefSd \notin S1 /\ RefDevice \notin S1 /\ RefSegment \notin S1
         /\ RefSegment \notin S2
      /\ RefVa \notin S3 /\ RefMem \in S1
  BY RefPlain DEF RefHeld
<1>3. /\ RefMem = R("ref", "mem") /\ RefSd = R("ref", "sd") /\ RefDevice = R("ref", "device")
      /\ RefSegment = R("ref", "segment") /\ RefVa = R("ref", "va")
      /\ {RefMem, RefSd, RefDevice, RefSegment, RefVa} \subseteq Plain
      /\ {RefMem, RefSd, RefDevice, RefSegment, RefVa} \subseteq Res
      /\ \A r \in {RefMem, RefSd, RefDevice, RefSegment, RefVa} : r # R("seg", "sd")
  BY RefPlain DEF RefMem, RefSd, RefDevice, RefSegment, RefVa, RefHeld
<1>4. /\ Good(k, b, S, Get(RefMem, u), S1) /\ Frees(k, "release", {}, S1, u1)
      /\ u1 \in Seq(Res) /\ S1 \in SUBSET Res
  BY <1>1, <1>2, <1>3, TakeLib
<1>5. /\ Good(k, b, S1, device_get("ref", u1), S2) /\ Frees(k, "release", {}, S2, u2)
         /\ u2 \in Seq(Res)
      /\ S2 \in SUBSET Res
  <2> HIDE DEF S1, u1
  <2> QED BY <1>1, <1>2, <1>3, <1>4, DeviceGet
<1>6. /\ Good(k, b, S2, Get(RefSegment, u2), S3) /\ Frees(k, "release", {}, S3, u3)
      /\ u3 \in Seq(Res) /\ S3 \in SUBSET Res
  <2> HIDE DEF S2, u2
  <2> QED BY <1>1, <1>2, <1>3, <1>5, TakeLib
<1>7. /\ Good(k, b, S3, Get(RefVa, u3), S4) /\ Frees(k, "release", {}, S4, u4) /\ u4 \in Seq(Res)
  <2> HIDE DEF S3, u3
  <2> QED BY <1>1, <1>2, <1>3, <1>6, TakeLib
<1>8. S4 = S \union RefHeld
  BY DEF RefHeld
<1>9. /\ <<RefVa>> \in Seq(Res) /\ <<RefSegment>> \in Seq(Res) /\ <<RefMem>> \in Seq(Res)
      /\ device_put("ref") \in Seq(Res) /\ device_memory_put("ref") \in Seq(Res)
      /\ device_memory_put("ref") = <<RefSegment>> \o device_put("ref")
  <2>1. <<RefVa>> \in Seq(Res) /\ <<RefSegment>> \in Seq(Res) /\ <<RefMem>> \in Seq(Res)
    BY <1>3
  <2>2. device_put("ref") \in Seq(Res)
    BY <1>3, Pairs DEF device_put
  <2>3. device_memory_put("ref") = <<RefSegment>> \o device_put("ref")
    BY DEF device_memory_put, RefSegment
  <2> QED BY <2>1, <2>2, <2>3, CatSeq
<1>10. (device_memory_put("ref") \o <<RefMem>>) \o u = u3
      /\ device_memory_put("ref") \o <<RefMem>> \in Seq(Res)
  <2>1. Regroup(device_memory_put("ref"), <<RefMem>>, u)
    BY <1>9, Regroups
  <2>2. Regroup(<<RefSegment>>, device_put("ref"), u1)
    BY <1>4, <1>9, Regroups
  <2> QED BY <2>1, <2>2, <1>9 DEF Regroup
<1>11. disconnect_register_memory \o u = u4
  <2>1. disconnect_register_memory = (<<RefVa>> \o device_memory_put("ref")) \o <<RefMem>>
    BY DEF disconnect_register_memory, va_unmap, Mem, RefVa, RefMem
  <2>2. Regroup(<<RefVa>>, device_memory_put("ref"), <<RefMem>>)
    BY <1>9, Regroups
  <2>3. Regroup(<<RefVa>>, device_memory_put("ref") \o <<RefMem>>, u)
    BY <1>9, <1>10, Regroups
  <2> QED BY <2>1, <2>2, <2>3, <1>10 DEF Regroup
<1>12. connect_register_memory(u)
      = (Get(RefMem, u) \o (device_get("ref", u1) \o Get(RefSegment, u2))) \o Get(RefVa, u3)
  BY <1>3, <1>10 DEF connect_register_memory, device_memory_get, va_map, Mem
<1> HIDE DEF S1, S2, S3, S4, u1, u2, u3, u4
<1>13. Good(k, b, S1, device_get("ref", u1) \o Get(RefSegment, u2), S3)
  BY <1>5, <1>6, GoodCat
<1>14. Good(k, b, S,
      (Get(RefMem, u) \o (device_get("ref", u1) \o Get(RefSegment, u2))) \o Get(RefVa, u3), S4)
  BY <1>4, <1>7, <1>13, GoodCat
<1> QED BY <1>1, <1>7, <1>8, <1>11, <1>12, <1>14

SmartioV == {CtrlMem} \union RefHeld

\* nvm_dis_ctrl_init and nvm_ctrl_free
LEMMA SmartioGood ==
    ASSUME NEW b
    PROVE  /\ Good("smartio", b, {}, nvm_dis_ctrl_init, SmartioV)
           /\ Frees("smartio", "release", {}, SmartioV, nvm_ctrl_free("smartio"))
<1> DEFINE k  == "smartio"
           S0 == {CtrlMem}
           S1 == (S0 \union {DevSd}) \union {DevDevice}
           S2 == S1 \union RefHeld
           u0 == Mem("ctrl")
           u1 == device_put("dev") \o u0
           rr == disconnect_register_memory \o u0
<1>1. k \in LibKinds /\ k \notin KeepKinds
  <2>1. k \in LibKinds
    BY DEF LibKinds, CtrlKinds
  <2> QED BY <2>1, LibFacts
<1> HIDE DEF k
<1>2. /\ Good(k, b, {}, Get(CtrlMem, <<>>), S0) /\ Frees(k, "release", {}, S0, u0)
         /\ Rests(k, FALSE, S0)
      /\ u0 \in Seq(Res) /\ S0 \in SUBSET Res
  BY <1>1, MemTaken DEF CtrlMem
<1>3. /\ DevSd = R("dev", "sd") /\ DevDevice = R("dev", "device") /\ R("dev", "segment") \notin S0
      /\ DevSd \notin S0 /\ DevDevice \notin S0
  BY DEF DevSd, DevDevice, CtrlMem, R
<1>4. /\ Good(k, b, S0, device_get("dev", u0), S1) /\ Rests(k, FALSE, S1)
         /\ Frees(k, "release", {}, S1, u1)
      /\ u1 \in Seq(Res) /\ S1 \in SUBSET Res
  <2>1. S1 \in SUBSET Res
    BY <1>2, RefPlain
  <2> HIDE DEF S0, u0
  <2> QED BY <2>1, <1>1, <1>2, <1>3, DeviceGet
<1>5. S0 \cap RefHeld = {} /\ S1 \cap RefHeld = {}
  BY RefPlain
<1>6. Good(k, b, S1, connect_register_memory(u1), S2) /\ Rests(k, FALSE, S2) /\ S2 \in SUBSET Res
  <2>1. S2 \in SUBSET Res
    BY <1>4, RefPlain
  <2> HIDE DEF S1, u1
  <2> QED BY <2>1, <1>1, <1>4, <1>5, RegisterMemory
<1>7. Rests(k, FALSE, SmartioV) /\ Frees(k, "release", {}, SmartioV, rr) /\ rr \in Seq(Res)
      /\ SmartioV \in SUBSET Res
  <2>1. SmartioV = S0 \union RefHeld /\ SmartioV \in SUBSET Res
    BY <1>2, RefPlain DEF SmartioV
  <2> HIDE DEF S0, u0
  <2> QED BY <2>1, <1>1, <1>2, <1>5, RegisterMemory
<1>8. Good(k, b, S2, Drop(device_put("dev")), SmartioV)
  <2> DEFINE T == S2 \ {DevDevice}
  <2>1. T \ {DevSd} = SmartioV /\ T = SmartioV \union {DevSd}
    BY RefPlain, CtrlRes DEF SmartioV
  <2>2. Rests(k, FALSE, T)
    <3>1. Backed(k, SmartioV) /\ Stored(SmartioV)
      BY <1>7 DEF Rests
    <3>2. Backed(k, SmartioV \union {DevSd})
      BY <3>1 DEF Backed, DevSd, R
    <3>3. Stored(SmartioV \union {DevSd})
      BY <3>1 DEF Stored, DevSd, R, InMemory
    <3> QED BY <2>1, <3>2, <3>3, <1>1, LibFacts
  <2>3. Harmless(k, {}, DevDevice, S2) /\ Harmless(k, {}, DevSd, T)
    <3>1. DevDevice \in S2 /\ DevSd \in T /\ DevDevice[1] \notin InMemory
          /\ DevSd[1] \notin InMemory
      BY <2>1 DEF DevDevice, DevSd, R, InMemory
    <3> QED BY <3>1 DEF Harmless, Releasable
  <2>4. ("build" = "throw") = FALSE /\ <<>> \in Seq(Res) /\ DevSd \in Res /\ DevDevice \in Res
    BY RefPlain
  <2>5. Rel(k, "build", {}, SmartioV, <<>>)
    BY <2>4, <1>7, RelNil
  <2> HIDE DEF T, S2
  <2>6. Rel(k, "build", {}, T, <<DevSd>> \o <<>>) /\ <<DevSd>> \o <<>> \in Seq(Res)
    BY <2>1, <2>2, <2>3, <2>4, <2>5, RelCons, ConsSeq
  <2>7. Rel(k, "build", {}, S2, <<DevDevice>> \o (<<DevSd>> \o <<>>))
        /\ <<DevDevice>> \o (<<DevSd>> \o <<>>) \in Seq(Res)
    BY <2>3, <2>4, <2>6, <1>6, RelCons, ConsSeq DEF T
  <2>8. device_put("dev") = <<DevDevice>> \o (<<DevSd>> \o <<>>)
    <3>1. <<DevDevice, DevSd>> = <<DevDevice>> \o <<DevSd>> /\ <<DevSd>> \in Seq(Res)
      BY <2>4, Pairs
    <3>2. <<DevSd>> \o <<>> = <<DevSd>>
      BY <3>1, CatNil
    <3> QED BY <3>1, <3>2 DEF device_put, DevDevice, DevSd
  <2>9. Elems(<<DevDevice>> \o (<<DevSd>> \o <<>>)) = {DevDevice} \union {DevSd}
    <3>1. Elems(<<>>) = {}
      BY FirstZero DEF Elems
    <3>2. Elems(<<DevSd>> \o <<>>) = {DevSd}
      BY <2>4, <3>1, ConsElems
    <3> QED BY <2>4, <2>6, <3>2, ConsElems
  <2>10. <<DevDevice>> \o (<<DevSd>> \o <<>>) # <<>>
    BY <2>4, <2>6, ConsSeq
  <2>11. S2 \ ({DevDevice} \union {DevSd}) = SmartioV
    BY <2>1 DEF T
  <2> DEFINE l == <<DevDevice>> \o (<<DevSd>> \o <<>>)
  <2> HIDE DEF l
  <2>12. Good(k, b, S2, Drop(l), S2 \ Elems(l))
    <3>1. l \in Seq(Res) /\ l # <<>> /\ Rel(k, "build", {}, S2, l)
      BY <2>7, <2>10 DEF l
    <3> QED BY <3>1, <1>1, <1>6, GoodDrop
  <2> QED BY <2>8, <2>9, <2>11, <2>12 DEF l
<1>9. Good(k, b, SmartioV, Check(rr), SmartioV)
  <2> HIDE DEF rr
  <2> QED BY <1>1, <1>7, CheckLib
<1> HIDE DEF S0, S1, S2, u1
<1>10. Good(k, b, {}, Get(CtrlMem, <<>>) \o device_get("dev", u0), S1)
  BY <1>2, <1>4, GoodCat
<1>11. Good(k, b, {}, (Get(CtrlMem, <<>>) \o device_get("dev", u0)) \o connect_register_memory(u1),
      S2)
  BY <1>6, <1>10, GoodCat
<1>12. Good(k, b, {}, ((Get(CtrlMem, <<>>) \o device_get("dev", u0)) \o connect_register_memory(u1))
                      \o Drop(device_put("dev")), SmartioV)
  BY <1>8, <1>11, GoodCat
<1>13. Good(k, b, {},
      (((Get(CtrlMem, <<>>) \o device_get("dev", u0)) \o connect_register_memory(u1))
                       \o Drop(device_put("dev"))) \o Check(rr), SmartioV)
  BY <1>9, <1>12, GoodCat
<1>14. Good(k, b, {}, nvm_dis_ctrl_init, SmartioV)
  BY <1>13 DEF nvm_dis_ctrl_init, create_container, initialize_handle, CtrlMem, u0, u1,
      rr
<1>15. nvm_ctrl_free("smartio") = rr
  BY DEF nvm_ctrl_free, rr, u0
<1> QED BY <1>7, <1>14, <1>15 DEF k

-----------------------------------------------------------------------------
(* Traces of the library's constructors *)

\* Whether the benchmark's Controller is built matters to the benchmark only.
LEMMA BuiltElsewhere ==
    ASSUME NEW k, k \notin LatKinds, NEW b, NEW c, NEW f, NEW s, NEW i, NEW n,
           StepOk(k, b, f, s, i, n)
    PROVE  StepOk(k, c, f, s, i, n)
<1>1. Undo(k, b) = "release" /\ Undo(k, c) = "release"
  BY DEF Undo
<1>2. FailOk(k, b, f, s, i, n) => FailOk(k, c, f, s, i, n)
  BY <1>1 DEF FailOk
<1> QED BY <1>2 DEF StepOk

\* A constructor whose steps and whose release are right has a trace.
LEMMA GoodTrace ==
    ASSUME NEW k \in AllKinds, k \notin LatKinds, k # "rpc_server", NEW b, NEW V,
           Good(k, b, {}, Program(k), V), Release(k) \in Seq(Res),
           Frees(k, "release", At(k, V), V, Release(k)),
           k \in DmaKinds => R("dma", "mem") \in V, k \in KernKinds => R("md", "pages") \in V
    PROVE  \E f : IsTrace(k, f)
<1> DEFINE n == Len(Program(k))
<1>1. PICK f \in [1..(n + 1) -> SUBSET Res] :
         /\ f[1] = {} /\ f[n + 1] = V
         /\ \A i \in 1..n : StepOk(k, b, f, Program(k)[i], i, n)
  BY DEF Good
<1>2. Program(k) \in Seq(Steps)
  BY DEF Good
<1>3. \A i \in 1..n : StepOk(k, Built(i), f, Program(k)[i], i, n)
  BY <1>1, BuiltElsewhere
<1>4. f \in [1..Final(k) -> SUBSET Res] /\ f[Final(k)] = V
  BY <1>1 DEF Final
<1>5. IsTrace(k, f)
  BY <1>1, <1>2, <1>3, <1>4 DEF IsTrace
<1> QED BY <1>5

\* nvm_dma_unmap is a list of releases.
LEMMA UnmapSeq == ASSUME NEW k \in DmaKinds PROVE nvm_dma_unmap(k) \in Seq(Res)
<1>1. \A s \in Structs, x \in Fields : R(s, x) \in Res
  BY StructRes
<1>2. \A x \in {"md", "dma", "seg", "tmp", "ctrl"} : Mem(x) \in Seq(Res)
  BY <1>1 DEF Mem, Structs, Fields
<1>3. device_put("md") \in Seq(Res) /\ device_put("seg") \in Seq(Res)
  BY <1>1 DEF device_put, Structs, Fields
<1>4. <<R("seg", "segment")>> \in Seq(Res) /\ <<R("md", "va")>> \in Seq(Res)
      /\ <<R("md", "io")>> \in Seq(Res)
      /\ <<R("md", "pages")>> \in Seq(Res) /\ <<R("md", "fd")>> \in Seq(Res)
  BY <1>1 DEF Structs, Fields
<1>5. device_memory_put("seg") \in Seq(Res) /\ local_memory_put \in Seq(Res)
      /\ unmap_both \in Seq(Res)
  BY <1>3, <1>4, CatSeq DEF device_memory_put, local_memory_put, unmap_both, va_unmap,
      io_unmap
<1>6. remove_map_descriptor \in Seq(Res)
  BY <1>2, <1>3, <1>5, CatSeq DEF remove_map_descriptor
<1>7. remove_local_segment \in Seq(Res)
  BY <1>2, <1>3, <1>5, <1>6, CatSeq DEF remove_local_segment
<1>8. disconnect_remote_segment \in Seq(Res)
  BY <1>2, <1>3, <1>5, <1>6, CatSeq DEF disconnect_remote_segment
<1>9. remove_mapping \in Seq(Res)
  BY <1>1, <1>2, <1>4, CatSeq, Pairs DEF remove_mapping, Structs, Fields
<1> QED BY <1>2, <1>6, <1>7, <1>8, <1>9, CatSeq DEF nvm_dma_unmap, _nvm_dma_remove

\* Every constructor of controller handles has a trace.
LEMMA CtrlSound == ASSUME NEW k \in CtrlKinds PROVE \E f : IsTrace(k, f)
<1>1. k \in LibKinds /\ k \in AllKinds /\ k \notin DmaKinds /\ k \notin KernKinds
      /\ k \notin LatKinds /\ k # "rpc_server"
      /\ k \notin ProgKinds
  BY DEF LibKinds, AllKinds, CtrlKinds, DmaKinds, KernKinds, DisKinds, SegKinds,
      LatKinds, ProgKinds
<1>2. Release(k) = nvm_ctrl_free(k) /\ \A S : At(k, S) = {}
  BY <1>1, LibFacts DEF Release
<1>3. \E V : Good(k, TRUE, {}, Program(k), V) /\ Frees(k, "release", {}, V, nvm_ctrl_free(k))
  <2>1. CASE k = "raw"
    <3>1. Program(k) = nvm_raw_ctrl_init
      BY <2>1 DEF Program, ProgKinds, LatKinds, KernKinds
    <3> QED BY <2>1, <3>1, RawGood
  <2>2. CASE k = "sysfs"
    <3>1. Program(k) = nvm_ctrl_init
      BY <2>2 DEF Program, ProgKinds, LatKinds, KernKinds
    <3> QED BY <2>2, <3>1, SysfsGood
  <2>3. CASE k = "smartio"
    <3>1. Program(k) = nvm_dis_ctrl_init
      BY <2>3 DEF Program, ProgKinds, LatKinds, KernKinds
    <3> QED BY <2>3, <3>1, SmartioGood
  <2> QED BY <2>1, <2>2, <2>3 DEF CtrlKinds
<1>4. nvm_ctrl_free(k) \in Seq(Res)
  <2>1. <<CtrlMmap, CtrlFd>> \in Seq(Res) /\ <<CtrlMem>> \in Seq(Res)
    BY CtrlRes
  <2>2. disconnect_register_memory \in Seq(Res)
    <3>1. \A s \in Structs, x \in Fields : R(s, x) \in Res
      BY StructRes
    <3>2. /\ <<R("ref", "va")>> \in Seq(Res) /\ <<R("ref", "segment")>> \in Seq(Res)
             /\ Mem("ref") \in Seq(Res)
          /\ device_put("ref") \in Seq(Res)
      BY <3>1 DEF Structs, Fields, Mem, device_put
    <3> QED BY <3>2, CatSeq DEF disconnect_register_memory, va_unmap, device_memory_put
  <2>3. Mem("ctrl") \in Seq(Res) /\ <<R("ctrl", "mmap"), R("ctrl", "fd")>> \in Seq(Res)
    BY <2>1 DEF Mem, CtrlMem, CtrlMmap, CtrlFd
  <2> QED BY <2>2, <2>3, CatSeq DEF nvm_ctrl_free, CtrlKinds
<1> QED BY <1>1, <1>2, <1>3, <1>4, GoodTrace

\* Every constructor of DMA handles has one.
LEMMA DmaSound == ASSUME NEW k \in DmaKinds PROVE \E f : IsTrace(k, f)
<1>1. k \in LibKinds /\ k \in AllKinds /\ k \notin CtrlKinds /\ k \notin LatKinds
      /\ k # "rpc_server"
      /\ k \notin ProgKinds
  BY DEF LibKinds, AllKinds, CtrlKinds, DmaKinds, KernKinds, DisKinds, SegKinds,
      LatKinds, ProgKinds
<1>2. Release(k) = nvm_dma_unmap(k) /\ \A S : At(k, S) = {}
  BY <1>1, LibFacts DEF Release
<1>3. \E V : /\ Good(k, TRUE, {}, Program(k), V) /\ Frees(k, "release", {}, V, nvm_dma_unmap(k))
             /\ R("dma", "mem") \in V /\ (k \in KernKinds => R("md", "pages") \in V)
  <2>1. CASE k = "phys"
    <3>1. Program(k) = nvm_dma_map /\ k \notin KernKinds
      BY <2>1 DEF Program, ProgKinds, LatKinds, KernKinds
    <3> QED BY <2>1, <3>1, PhysGood
  <2>2. CASE k \in KernKinds
    <3>1. Program(k) = nvm_dma_map_host
      BY <2>2 DEF Program, ProgKinds, LatKinds, KernKinds
    <3>2. R("dma", "mem") \in KernV /\ R("md", "pages") \in KernV
      BY DEF KernV, DmaMem, Pages
    <3> QED BY <2>2, <3>1, <3>2, KernGood
  <2>3. CASE k \in MapKinds
    <3>0. k \notin KernKinds
      BY <2>3 DEF MapKinds, KernKinds
    <3>1. \/ \E v \in BOOLEAN : Program(k) = nvm_dis_dma_map_local(v)
          \/ \E v \in BOOLEAN : Program(k) = nvm_dis_dma_map_remote(v)
      BY <2>3 DEF MapKinds, Program, ProgKinds, LatKinds, KernKinds
    <3>2. ASSUME NEW v \in BOOLEAN, Program(k) = nvm_dis_dma_map_local(v)
          \/ Program(k) = nvm_dis_dma_map_remote(v)
          PROVE  \E V : /\ Good(k, TRUE, {}, Program(k), V)
                           /\ Frees(k, "release", {}, V, nvm_dma_unmap(k))
                        /\ R("dma", "mem") \in V /\ (k \in KernKinds => R("md", "pages") \in V)
      <4> DEFINE V == (MdDevice \union {R("dma", "mem")})
            \union ({Io} \union (IF v THEN {Va} ELSE {}))
      <4>1. Good(k, TRUE, {}, Program(k), V) /\ Frees(k, "release", {}, V, nvm_dma_unmap(k))
        BY <2>3, <3>2, MapGood
      <4>2. R("dma", "mem") \in V
        OBVIOUS
      <4> QED BY <4>1, <4>2, <3>0
    <3> QED BY <3>1, <3>2
  <2>4. CASE k \in SegKinds \union {"connect"}
    <3>0. k \notin KernKinds /\ R("dma", "mem") \in SegV(k)
      BY <2>4 DEF KernKinds, SegKinds, SegV, DmaMem
    <3> QED BY <2>4, <3>0, SegGood
  <2> QED BY <2>1, <2>2, <2>3, <2>4 DEF DmaKinds, DisKinds, MapKinds
<1> QED BY <1>1, <1>2, <1>3, UnmapSeq, GoodTrace

-----------------------------------------------------------------------------
(* Programs: what they hold and give back *)

\* What programs hold, SISCI and the binding handles apart
SegFields == {"sd", "segment", "available", "dma"}
Own == ({"var", "local"} \X (Pointers \ {"sisci"})) \union ({"queue", "page"} \X SegFields)

\* What programs hold are resources that any constructor may take.
LEMMA OwnRes == Own \subseteq Plain /\ Own \subseteq Res /\ SISCI \notin Own /\ Bindings \notin Own
<1>1. ASSUME NEW r \in Own
      PROVE  /\ r \in Res /\ r # SISCI /\ r # Bindings /\ r # None /\ r # R("ctrl", "mmap")
                /\ r # R("md", "pages")
  <2>1. CASE r \in {"var", "local"} \X (Pointers \ {"sisci"})
    <3>1. PICK x \in {"var", "local"}, y \in Pointers \ {"sisci"} : r = <<x, y>>
      BY <2>1
    <3>2. r \in Res
      BY <3>1 DEF Res
    <3>3. x # "aq" /\ x # "" /\ x # "ctrl" /\ x # "md" /\ y # "sisci"
      BY <3>1
    <3> QED BY <3>1, <3>2, <3>3 DEF SISCI, Bindings, None, R, var
  <2>2. CASE r \in {"queue", "page"} \X SegFields
    <3>1. PICK x \in {"queue", "page"}, y \in SegFields : r = <<x, y>>
      BY <2>2
    <3>2. x \in Structs /\ y \in Fields
      BY <3>1 DEF Structs, Fields, SegFields
    <3>3. r \in Res
      BY <3>1, <3>2 DEF Res
    <3>4. x # "aq" /\ x # "" /\ x # "ctrl" /\ x # "md" /\ x # "var"
      BY <3>1
    <3> QED BY <3>1, <3>3, <3>4 DEF SISCI, Bindings, None, R, var
  <2> QED BY <2>1, <2>2 DEF Own
<1> QED BY <1>1 DEF Plain, Optionals

\* Pointers and the fields of segments are what programs hold.
LEMMA OwnIs ==
    /\ \A x \in Pointers \ {"sisci"} : var(x) \in Own /\ loc(x) \in Own
    /\ \A s \in {"queue", "page"}, x \in SegFields : R(s, x) \in Own
BY DEF Own, var, loc, R

\* What programs hold rests on what ProgramRests says.
LEMMA OwnRests ==
    ASSUME NEW k \in ProgKinds, NEW S \in SUBSET Own, NEW t, ProgramRests(k, t, S)
    PROVE  Rests(k, t, S)
<1>1. \A r \in S : r[1] \in {"var", "local", "queue", "page"}
  BY DEF Own
<1>2. Stored(S)
  BY <1>1 DEF Stored, InMemory
<1>3. \A s \in {"dev", "ref", "md", "seg"} : \A x : R(s, x) \notin S
  BY <1>1 DEF R
<1>4. Backed(k, S)
  BY <1>3 DEF Backed
<1> QED BY <1>2, <1>4 DEF Rests

\* S is held, and l releases it.
Held(k, S, l) ==
    /\ S \in SUBSET Own /\ l \in Seq(Res) /\ ProgramRests(k, FALSE, S)
    /\ \A at : Frees(k, "release", at, S, l)

\* What is held is released.
LEMMA HeldMore ==
    ASSUME NEW k \in ProgKinds, NEW S, NEW r \in Own, NEW u,
           Held(k, S, u), r \notin S, ProgramRests(k, FALSE, S \union {r})
    PROVE  Held(k, S \union {r}, <<r>> \o u)
<1>1. r \in Res /\ S \union {r} \in SUBSET Own /\ u \in Seq(Res)
  BY OwnRes DEF Held
<1>2. r # R("seg", "sd")
  BY DEF Own, R
<1>3. Rests(k, FALSE, S \union {r})
  BY <1>1, OwnRests
<1>4. \A at : Frees(k, "release", at, S \union {r}, <<r>> \o u)
  BY <1>1, <1>2, <1>3, FreesHeld DEF Held
<1>5. <<r>> \o u \in Seq(Res)
  BY <1>1, ConsSeq
<1> QED BY <1>1, <1>4, <1>5 DEF Held

\* A program takes something, and gives it back when a later step fails.
LEMMA HeldTake ==
    ASSUME NEW k \in ProgKinds, NEW b, Undo(k, b) = "release", NEW S, NEW r \in Own, NEW u,
           Held(k, S, u), r \notin S, ProgramRests(k, FALSE, S \union {r})
    PROVE  Good(k, b, S, Get(r, u), S \union {r}) /\ Held(k, S \union {r}, <<r>> \o u)
<1>1. /\ r \in Plain /\ r \in Res /\ S \in SUBSET Res /\ S \union {r} \in SUBSET Own
         /\ u \in Seq(Res)
      /\ TakesOk(k, r) /\ Core({r}) = {r}
  BY OwnRes, PlainTakes DEF Held
<1>2. Rests(k, FALSE, S \union {r})
  BY <1>1, OwnRests
<1>3. Rests(k, FALSE, S \union Core({r})) /\ Frees(k, Undo(k, b), At(k, S), S, u)
  BY <1>1, <1>2 DEF Held
<1>4. Good(k, b, S, Get(r, u), S \union Core({r}))
  BY <1>1, <1>3, GoodGet
<1> QED BY <1>1, <1>4, HeldMore

\* A program checks something.
LEMMA HeldCheck ==
    ASSUME NEW k \in ProgKinds, NEW b, Undo(k, b) = "release", NEW S, NEW u, Held(k, S, u)
    PROVE  Good(k, b, S, Check(u), S)
<1>1. S \in SUBSET Res /\ Rests(k, FALSE, S) /\ Frees(k, Undo(k, b), At(k, S), S, u)
      /\ u \in Seq(Res)
  BY OwnRes, OwnRests DEF Held
<1> QED BY <1>1, GoodCheck

\* Nothing is held, but perhaps SISCI is initialised.
LEMMA ProgBase ==
    ASSUME NEW k \in ProgKinds, NEW at
    PROVE  /\ Frees(k, "release", at, {}, <<>>) /\ Frees(k, "release", at, {}, <<SISCI>>)
           /\ ProgramRests(k, FALSE, {}) /\ Rests(k, FALSE, {}) /\ {} \in SUBSET Own
           /\ <<>> \in Seq(Res) /\ <<SISCI>> \in Seq(Res)
<1>1. ProgramRests(k, FALSE, {})
  BY DEF ProgramRests
<1>2. Rests(k, FALSE, {})
  BY <1>1, OwnRests
<1>3. ("release" = "throw") = FALSE /\ <<>> \in Seq(Res) /\ SISCI \in Res
  BY NoneRes
<1>4. Frees(k, "release", at, {}, <<>>)
  BY <1>2, <1>3, FreesNil
<1>5. SISCI \in Conditional /\ SISCI[1] \notin InMemory
  BY DEF SISCI, var, R, Conditional, InMemory
<1>6. Frees(k, "release", at, {}, <<SISCI>> \o <<>>)
  BY <1>3, <1>4, <1>5, FreesSkip
<1>7. <<SISCI>> \in Seq(Res) /\ <<SISCI>> \o <<>> = <<SISCI>>
  BY <1>3
<1> QED BY <1>1, <1>2, <1>3, <1>4, <1>6, <1>7

\* A program starts with nothing, and may end with SCITerminate.
LEMMA HeldNone ==
    ASSUME NEW k \in ProgKinds
    PROVE  Held(k, {}, <<>>) /\ Held(k, {}, <<SISCI>>)
BY ProgBase DEF Held

\* SISCI is initialised.
LEMMA SisciGood ==
    ASSUME NEW k \in ProgKinds, NEW b, Undo(k, b) = "release"
    PROVE  Good(k, b, {}, Get(SISCI, <<>>), {})
<1>1. Core({SISCI}) = {} /\ SISCI # Bindings /\ SISCI # R("md", "pages")
      /\ SISCI # R("ctrl", "mmap")
  BY DEF Core, Optionals, SISCI, Bindings, var, R
<1>2. TakesOk(k, SISCI)
  BY <1>1 DEF TakesOk
<1>3. {} \union Core({SISCI}) = {} /\ {} \in SUBSET Res /\ <<>> \in Seq(Res) /\ SISCI \in Res
  BY <1>1, NoneRes
<1>4. Rests(k, FALSE, {} \union Core({SISCI})) /\ Frees(k, Undo(k, b), At(k, {}), {}, <<>>)
  BY <1>3, ProgBase
<1>5. Good(k, b, {}, Get(SISCI, <<>>), {} \union Core({SISCI}))
  BY <1>2, <1>3, <1>4, GoodGet
<1> QED BY <1>3, <1>5

\* SISCI is initialised, or not.
LEMMA SciInitGood ==
    ASSUME NEW k \in ProgKinds, k \notin KeepKinds, NEW b, NEW S \in SUBSET Own,
           ProgramRests(k, FALSE, S)
    PROVE  Good(k, b, S, SciInit, S)
<1> DEFINE s == [get |-> SISCI, drop |-> <<>>, undo |-> <<>>, skip |-> 1]
<1>1. Core({SISCI}) = {} /\ SISCI # Bindings /\ SISCI # R("md", "pages")
      /\ SISCI # R("ctrl", "mmap")
  BY DEF Core, Optionals, SISCI, Bindings, var, R
<1>2. TakesOk(k, SISCI)
  BY <1>1 DEF TakesOk
<1>3. S \in SUBSET Res /\ Rests(k, FALSE, S)
  BY OwnRes, OwnRests
<1>4. s \in Steps
  <2>1. <<>> \in Seq(Res) /\ SISCI \in Res /\ 1 \in Nat
    BY NoneRes
  <2> QED BY <2>1 DEF Steps
<1>5. Rel(k, "build", {}, S, <<>>) /\ Elems(<<>>) = {}
  <2>1. ("build" = "throw") = FALSE
    OBVIOUS
  <2> QED BY <2>1, <1>3, RelNil, FirstZero DEF Elems
<1>6. s.get = SISCI /\ s.drop = <<>> /\ s.undo = <<>> /\ s.skip = 1
  OBVIOUS
<1>7. SciInit = <<s>>
  <2> DEFINE g == <<[get |-> SISCI, drop |-> <<>>, undo |-> <<>>, skip |-> 0]>>
  <2>1. SciInit = [i \in 1..Len(g) |-> [g[i] EXCEPT !.skip = Len(g) + 1 - i]]
    BY DEF SciInit, Optional, Get, SISCI
  <2>2. Len(g) = 1 /\ g[1] = [get |-> SISCI, drop |-> <<>>, undo |-> <<>>, skip |-> 0]
    OBVIOUS
  <2>3. [g[1] EXCEPT !.skip = Len(g) + 1 - 1] = s
    BY <2>2
  <2> HIDE DEF g, s
  <2>4. SciInit = [i \in 1..1 |-> s]
    BY <2>1, <2>2, <2>3
  <2>5. [i \in 1..1 |-> s] = <<s>>
    OBVIOUS
  <2> QED BY <2>4, <2>5
<1> HIDE DEF s
<1>8. ASSUME NEW f, f[1] = S, f[2] = S PROVE StepOk(k, b, f, s, 1, 1)
  <2>1. 1 + 1 = 2 /\ 2 <= 1 + 1 /\ 1 + s.skip = 2
    BY <1>6
  <2>2. FailOk(k, b, f, s, 1, 1)
    BY <1>5, <1>6, <1>8, <2>1 DEF FailOk
  <2>3. f[1 + 1] = f[1] \union Core({s.get}) /\ Rests(k, FALSE, f[1 + 1])
    BY <1>1, <1>3, <1>6, <1>8, <2>1
  <2> QED BY <1>2, <1>6, <2>2, <2>3 DEF StepOk
<1> QED BY <1>3, <1>4, <1>7, <1>8, OneStep

\* A single release
LEMMA LoneSeq == ASSUME NEW a \in Res PROVE <<a>> = <<a>> \o <<>> /\ <<a>> \in Seq(Res)
OBVIOUS

\* Releases in the middle of a program: l takes S to V.
Drops(k, S, l, V) ==
    S \in SUBSET Own /\ l \in Seq(Res) /\ Rel(k, "build", {}, S, l) /\ S \ Elems(l) = V

\* No releases
LEMMA DropsNone ==
    ASSUME NEW k \in ProgKinds, NEW S \in SUBSET Own, ProgramRests(k, FALSE, S)
    PROVE  Drops(k, S, <<>>, S)
<1>1. ("build" = "throw") = FALSE /\ <<>> \in Seq(Res)
  OBVIOUS
<1>0. Rests(k, FALSE, S)
  BY OwnRests
<1>2. Rel(k, "build", {}, S, <<>>)
  BY <1>0, <1>1, RelNil
<1>3. Elems(<<>>) = {}
  BY FirstZero DEF Elems
<1> QED BY <1>1, <1>2, <1>3 DEF Drops

\* A release before others
LEMMA DropsMore ==
    ASSUME NEW k \in ProgKinds, NEW S, NEW l, NEW V, NEW r \in Own, Drops(k, S, l, V), r \notin S,
           ProgramRests(k, FALSE, S \union {r})
    PROVE  Drops(k, S \union {r}, <<r>> \o l, V)
<1>1. r \in Res /\ S \union {r} \in SUBSET Own /\ l \in Seq(Res)
  BY OwnRes DEF Drops
<1>2. ("build" = "throw") = FALSE /\ Rests(k, FALSE, S \union {r})
  BY <1>1, OwnRests
<1>3. (S \union {r}) \ {r} = S
  OBVIOUS
<1>4. Harmless(k, {}, r, S \union {r})
  <2>1. r[1] \notin InMemory
    BY DEF Own, InMemory
  <2> QED BY <2>1 DEF Harmless, Releasable
<1>5. Rel(k, "build", {}, S \union {r}, <<r>> \o l)
  BY <1>1, <1>2, <1>3, <1>4, RelCons DEF Drops
<1>6. Elems(<<r>> \o l) = {r} \union Elems(l) /\ <<r>> \o l \in Seq(Res)
  BY <1>1, ConsElems, ConsSeq
<1>7. (S \union {r}) \ ({r} \union Elems(l)) = V
  BY DEF Drops
<1> QED BY <1>1, <1>5, <1>6, <1>7 DEF Drops

\* A step of a program that releases something
LEMMA DropsGood ==
    ASSUME NEW k \in ProgKinds, k \notin KeepKinds, NEW b, NEW S, NEW l, NEW V, Drops(k, S, l, V),
           l # <<>>
    PROVE  Good(k, b, S, Drop(l), V)
<1>1. S \in SUBSET Res
  BY OwnRes DEF Drops
<1> QED BY <1>1, GoodDrop DEF Drops

\* A step that releases one resource
LEMMA DropOne ==
    ASSUME NEW k \in ProgKinds, k \notin KeepKinds, NEW b, NEW S \in SUBSET Own, NEW r \in Own,
           r \notin S,
           ProgramRests(k, FALSE, S \union {r}), ProgramRests(k, FALSE, S)
    PROVE  Good(k, b, S \union {r}, Drop(<<r>>), S)
<1> DEFINE T == S \union {r}
<1>1. Drops(k, T, <<r>> \o <<>>, S)
  BY DropsNone, DropsMore
<1>2. <<r>> \o <<>> = <<r>> /\ <<r>> # <<>>
  BY OwnRes, LoneSeq
<1> HIDE DEF T
<1>3. Drops(k, T, <<r>>, S)
  BY <1>1, <1>2
<1>4. Good(k, b, T, Drop(<<r>>), S)
  BY <1>2, <1>3, DropsGood
<1> QED BY <1>4 DEF T

-----------------------------------------------------------------------------
(* examples/identify over the module and over SmartIO *)

\* Three parts of a program
LEMMA GoodCat3 ==
    ASSUME NEW k, NEW b, NEW S, NEW T, NEW U, NEW V, NEW s, NEW t, NEW u,
           Good(k, b, S, s, T), Good(k, b, T, t, U), Good(k, b, U, u, V)
    PROVE  Good(k, b, S, s \o t \o u, V)
<1>1. Good(k, b, S, s \o t, U)
  BY GoodCat
<1> QED BY <1>1, GoodCat

\* Four parts of a program
LEMMA GoodCat4 ==
    ASSUME NEW k, NEW b, NEW S, NEW T, NEW U, NEW V, NEW W, NEW s, NEW t, NEW u, NEW v,
           Good(k, b, S, s, T), Good(k, b, T, t, U), Good(k, b, U, u, V), Good(k, b, V, v, W)
    PROVE  Good(k, b, S, s \o t \o u \o v, W)
<1>1. Good(k, b, S, s \o t \o u, V)
  BY GoodCat3
<1> QED BY <1>1, GoodCat

\* execute_identify
LEMMA ExecuteIdentify ==
    ASSUME NEW k \in ProgKinds, k \notin LatKinds, NEW b, NEW S, NEW u, Held(k, S, u),
           loc("aq") \notin S,
           ProgramRests(k, FALSE, S \union {loc("aq")})
    PROVE  /\ Good(k, b, S, execute_identify(u), S \union {loc("aq")})
           /\ Held(k, S \union {loc("aq")}, <<loc("aq")>> \o u)
<1>1. Undo(k, b) = "release" /\ loc("aq") \in Own
  BY OwnIs DEF Undo, Pointers
<1>2. /\ Good(k, b, S, Get(loc("aq"), u), S \union {loc("aq")})
      /\ Held(k, S \union {loc("aq")}, <<loc("aq")>> \o u)
  BY <1>1, HeldTake
<1>3. Good(k, b, S \union {loc("aq")}, Check(<<loc("aq")>> \o u), S \union {loc("aq")})
  BY <1>1, <1>2, HeldCheck
<1> QED BY <1>2, <1>3, GoodCat DEF execute_identify

\* identify/module.c
LEMMA IdModuleGood ==
    \E V : Good("id_module", TRUE, {}, id_module.steps, V)
          /\ Held("id_module", V, id_module.release)
<1> DEFINE k  == "id_module"
           u1 == <<loc("ctrl")>>
           u2 == locs_of(<<"aq_ptr", "ctrl">>)
           u3 == locs_of(<<"aq_mem", "aq_ptr", "ctrl">>)
           u4 == locs_of(<<"aq", "aq_mem", "aq_ptr", "ctrl">>)
           F  == {loc("fd")}
           S1 == {loc("ctrl")}
           S2 == S1 \union {loc("aq_ptr")}
           S3 == S2 \union {loc("aq_mem")}
           S4 == S3 \union {loc("aq")}
<1>1. /\ k \in ProgKinds /\ k \notin LatKinds /\ k \notin KeepKinds /\ Undo(k, TRUE) = "release"
      /\ \A x \in {"fd", "ctrl", "aq_ptr", "aq_mem", "aq"} : loc(x) \in Own /\ loc(x) \in Res
  BY OwnIs, OwnRes DEF ProgKinds, LatKinds, KeepKinds, NullKinds, Undo, Pointers
<1>2. /\ ProgramRests(k, FALSE, F) /\ ProgramRests(k, FALSE, F \union {loc("ctrl")})
         /\ ProgramRests(k, FALSE, S1)
      /\ ProgramRests(k, FALSE, S2) /\ ProgramRests(k, FALSE, S3) /\ ProgramRests(k, FALSE, S4)
  BY DEF ProgramRests, var, loc, R
<1>3. /\ loc("ctrl") \notin F /\ loc("aq_ptr") \notin S1 /\ loc("aq_mem") \notin S2
         /\ loc("aq") \notin S3
      /\ F \union {loc("ctrl")} = S1 \union {loc("fd")} /\ loc("fd") \notin S1
  BY DEF loc, R
<1>4. u2 = <<loc("aq_ptr")>> \o u1 /\ u3 = <<loc("aq_mem")>> \o u2 /\ u4 = <<loc("aq")>> \o u3
  <2> DEFINE a == loc("aq")
             m == loc("aq_mem")
             p == loc("aq_ptr")
             c == loc("ctrl")
  <2>1. u1 = <<c>> /\ u2 = <<p, c>> /\ u3 = <<m, p, c>> /\ u4 = <<a, m, p, c>>
    BY DEF locs_of
  <2>2. a \in Res /\ m \in Res /\ p \in Res /\ c \in Res
    BY <1>1
  <2> HIDE DEF a, m, p, c
  <2>3. <<p, c>> = <<p>> \o <<c>>
    BY <2>2, Pairs
  <2>4. <<m, p, c>> = <<m>> \o <<p, c>>
    BY <2>2
  <2>5. <<a, m, p, c>> = <<a>> \o <<m, p, c>>
    BY <2>2
  <2> HIDE DEF u1, u2, u3, u4
  <2>6. u2 = <<p>> \o u1 /\ u3 = <<m>> \o u2 /\ u4 = <<a>> \o u3
    BY <2>1, <2>3, <2>4, <2>5
  <2> QED BY <2>6 DEF a, m, p, c
<1>5. /\ F = {} \union {loc("fd")} /\ S1 = {} \union {loc("ctrl")}
      /\ <<loc("fd")>> = <<loc("fd")>> \o <<>> /\ u1 = <<loc("ctrl")>> \o <<>>
  BY <1>1, LoneSeq
<1> HIDE DEF k, u1, u2, u3, u4, F, S1
<1>6. Good(k, TRUE, {}, Get(loc("fd"), <<>>), F) /\ Held(k, F, <<loc("fd")>>)
  BY <1>1, <1>2, <1>5, HeldNone, HeldTake
<1>7. Good(k, TRUE, F, Get(loc("ctrl"), <<loc("fd")>>), F \union {loc("ctrl")})
  BY <1>1, <1>2, <1>3, <1>6, HeldTake
<1>8. Held(k, S1, u1)
  BY <1>1, <1>2, <1>5, HeldNone, HeldMore
<1>9. Good(k, TRUE, F \union {loc("ctrl")}, Drop(<<loc("fd")>>), S1)
  BY <1>1, <1>2, <1>3, <1>8, DropOne DEF Held
<1>10. Good(k, TRUE, S1, Get(loc("aq_ptr"), u1), S2) /\ Held(k, S2, u2)
  BY <1>1, <1>2, <1>3, <1>4, <1>8, HeldTake
<1> HIDE DEF S2
<1>11. Good(k, TRUE, S2, Get(loc("aq_mem"), u2), S3) /\ Held(k, S3, u3)
  BY <1>1, <1>2, <1>3, <1>4, <1>10, HeldTake
<1> HIDE DEF S3
<1>12. Good(k, TRUE, S3, execute_identify(u3), S4) /\ Held(k, S4, u4)
  BY <1>1, <1>2, <1>3, <1>4, <1>11, ExecuteIdentify
<1> HIDE DEF S4
<1> DEFINE p == Get(loc("fd"), <<>>) \o Get(loc("ctrl"), <<loc("fd")>>) \o Drop(<<loc("fd")>>)
<1>13. Good(k, TRUE, {}, p, S1)
  BY <1>6, <1>7, <1>9, GoodCat3
<1>14. Good(k, TRUE, {},
      p \o Get(loc("aq_ptr"), u1) \o Get(loc("aq_mem"), u2) \o execute_identify(u3), S4)
  BY <1>10, <1>11, <1>12, <1>13, GoodCat4
<1>15. id_module.steps = p \o Get(loc("aq_ptr"), u1) \o Get(loc("aq_mem"),
      u2) \o execute_identify(u3) /\ id_module.release = u4
  BY DEF id_module, Prog, u1, u2, u3, u4
<1> QED BY <1>12, <1>14, <1>15 DEF k

\* identify/smartio.c
LEMMA IdSmartioGood ==
    \E V : Good("id_smartio", TRUE, {}, id_smartio.steps, V)
          /\ Held("id_smartio", V, id_smartio.release)
<1> DEFINE k  == "id_smartio"
           u1 == <<loc("ctrl")>>
           u2 == locs_of(<<"aq_mem", "ctrl">>)
           w1 == u1 \o <<SISCI>>
           w2 == <<loc("aq_mem")>> \o w1
           w3 == locs_of(<<"aq", "aq_mem", "ctrl">>) \o <<SISCI>>
           S1 == {loc("ctrl")}
           S2 == S1 \union {loc("aq_mem")}
           S3 == S2 \union {loc("aq")}
<1>1. /\ k \in ProgKinds /\ k \notin LatKinds /\ k \notin KeepKinds /\ Undo(k, TRUE) = "release"
      /\ \A x \in {"ctrl", "aq_mem", "aq"} : loc(x) \in Own /\ loc(x) \in Res
      /\ <<SISCI>> \in Seq(Res)
  BY OwnIs, OwnRes, ProgBase DEF ProgKinds, LatKinds, KeepKinds, NullKinds, Undo,
      Pointers
<1>2. ProgramRests(k, FALSE, S1) /\ ProgramRests(k, FALSE, S2) /\ ProgramRests(k, FALSE, S3)
  BY DEF ProgramRests, var, loc, R
<1>3. loc("aq_mem") \notin S1 /\ loc("aq") \notin S2 /\ S1 = {} \union {loc("ctrl")}
  BY DEF loc, R
<1>4. u2 = <<loc("aq_mem")>> \o u1 /\ w3 = <<loc("aq")>> \o w2
  <2> DEFINE a == loc("aq")
             m == loc("aq_mem")
             c == loc("ctrl")
             s == <<SISCI>>
  <2>1. u1 = <<c>> /\ u2 = <<m, c>> /\ locs_of(<<"aq", "aq_mem", "ctrl">>) = <<a, m, c>>
    BY DEF locs_of
  <2>2. a \in Res /\ m \in Res /\ c \in Res /\ s \in Seq(Res)
    BY <1>1
  <2> HIDE DEF a, m, c, s
  <2>3. <<m, c>> = <<m>> \o <<c>> /\ <<a, m, c>> = <<a>> \o <<m, c>>
    BY <2>2, Pairs
  <2>4. <<a>> \in Seq(Res) /\ <<m>> \in Seq(Res) /\ <<c>> \in Seq(Res) /\ <<m, c>> \in Seq(Res)
    BY <2>2
  <2>5. <<m, c>> \o s = <<m>> \o (<<c>> \o s) /\ (<<a>> \o <<m, c>>) \o s = <<a>> \o (<<m, c>> \o s)
    BY <2>2, <2>4, PairCat, Assoc
  <2> QED BY <2>1, <2>3, <2>5 DEF a, m, c, s
<1>5. u1 = <<loc("ctrl")>> \o <<>>
  BY <1>1, LoneSeq
<1> HIDE DEF k, u1, u2, w3, S1
<1>6. Good(k, TRUE, {}, SciInit, {})
  BY <1>1, ProgBase, SciInitGood
<1>7. Good(k, TRUE, {}, Get(loc("ctrl"), <<>>), S1) /\ Held(k, S1, u1)
  BY <1>1, <1>2, <1>3, <1>5, HeldNone, HeldTake
<1>8. Good(k, TRUE, S1, Get(loc("aq_mem"), u1), S2) /\ Held(k, S2, u2)
  BY <1>1, <1>2, <1>3, <1>4, <1>7, HeldTake
<1> HIDE DEF S2
<1>9. Good(k, TRUE, S2, Get(loc("aq"), u2), S3)
  BY <1>1, <1>2, <1>3, <1>8, HeldTake
<1>10. Held(k, S3, w3)
  <2>1. Held(k, S1, w1)
    BY <1>1, <1>2, <1>3, HeldNone, HeldMore DEF u1
  <2> HIDE DEF w1
  <2>2. Held(k, S2, w2)
    BY <1>1, <1>2, <1>3, <2>1, HeldMore DEF S2
  <2> HIDE DEF w2
  <2> QED BY <1>1, <1>2, <1>3, <1>4, <2>2, HeldMore
<1> HIDE DEF S3
<1>11. Good(k, TRUE, {},
      SciInit \o Get(loc("ctrl"), <<>>) \o Get(loc("aq_mem"), u1) \o Get(loc("aq"), u2), S3)
  BY <1>6, <1>7, <1>8, <1>9, GoodCat4
<1>12. /\ id_smartio.steps = SciInit \o Get(loc("ctrl"), <<>>) \o Get(loc("aq_mem"),
          u1) \o Get(loc("aq"), u2)
       /\ id_smartio.release = w3
  BY DEF id_smartio, Prog, u1, u2, w3, SISCI
<1> QED BY <1>10, <1>11, <1>12 DEF k

-----------------------------------------------------------------------------
(* examples/rpc *)

-----------------------------------------------------------------------------
(* Segments of the rpc examples *)

Sd(s)        == R(s, "sd")
Segment(s)   == R(s, "segment")
Available(s) == R(s, "available")
Dma(s)       == R(s, "dma")

\* A SISCI descriptor rests on nothing.
LEMMA SdRests ==
    ASSUME NEW k, NEW S, NEW s \in {"queue", "page"}, ProgramRests(k, FALSE, S), Segment(s) \notin S
    PROVE  ProgramRests(k, FALSE, S \union {Sd(s)})
BY DEF ProgramRests, var, loc, R, Sd, Segment, Available, Dma

\* A segment rests on its descriptor.
LEMMA SegmentRests ==
    ASSUME NEW k, NEW S, NEW s \in {"queue", "page"}, ProgramRests(k, FALSE, S), Sd(s) \in S
    PROVE  ProgramRests(k, FALSE, S \union {Segment(s)})
BY DEF ProgramRests, var, loc, R, Sd, Segment, Available, Dma

\* An available segment rests on being there.
LEMMA AvailableRests ==
    ASSUME NEW k, NEW S, NEW s \in {"queue", "page"}, ProgramRests(k, FALSE, S), Segment(s) \in S
    PROVE  ProgramRests(k, FALSE, S \union {Available(s)})
BY DEF ProgramRests, var, loc, R, Sd, Segment, Available, Dma

\* A DMA mapping of a segment rests on its being available.
LEMMA DmaRests ==
    ASSUME NEW k, NEW S, NEW s \in {"queue", "page"}, ProgramRests(k, FALSE, S), Available(s) \in S
    PROVE  ProgramRests(k, FALSE, S \union {Dma(s)})
BY DEF ProgramRests, var, loc, R, Sd, Segment, Available, Dma

\* The fields of a segment of the rpc examples
LEMMA SegOwn ==
    ASSUME NEW s \in {"queue", "page"}
    PROVE  /\ Sd(s) \in Own /\ Segment(s) \in Own /\ Available(s) \in Own /\ Dma(s) \in Own
           /\ Sd(s) \in Res /\ Segment(s) \in Res /\ Available(s) \in Res /\ Dma(s) \in Res
           /\ Sd(s) # Segment(s) /\ Available(s) # Dma(s) /\ Sd(s) # Available(s) /\ Sd(s) # Dma(s)
           /\ Segment(s) # Available(s) /\ Segment(s) # Dma(s)
<1>1. Sd(s) \in Own /\ Segment(s) \in Own /\ Available(s) \in Own /\ Dma(s) \in Own
  BY OwnIs DEF Sd, Segment, Available, Dma, SegFields
<1> QED BY <1>1, OwnRes DEF Sd, Segment, Available, Dma, R

\* segment_create and segment_remove
WithSegment(S, s) == (S \union {Sd(s)}) \union {Segment(s)}
WithDma(S, s)     == (S \union {Available(s)}) \union {Dma(s)}

\* segment_create and segment_remove
LEMMA SegmentCreate ==
    ASSUME NEW k \in ProgKinds, NEW b, Undo(k, b) = "release", NEW s \in {"queue", "page"},
           NEW S, NEW u, Held(k, S, u), Sd(s) \notin S, Segment(s) \notin S
    PROVE  /\ Good(k, b, S, segment_create(s, u), WithSegment(S, s))
           /\ Held(k, WithSegment(S, s), segment_remove(s) \o u)
<1> DEFINE T == S \union {Sd(s)}
           v == <<Sd(s)>> \o u
<1>1. ProgramRests(k, FALSE, T)
  BY SdRests DEF Held
<1>2. Good(k, b, S, Get(Sd(s), u), T) /\ Held(k, T, v)
  BY <1>1, SegOwn, HeldTake
<1>3. Sd(s) \in T /\ Segment(s) \notin T
  BY SegOwn
<1> HIDE DEF T, v
<1>4. ProgramRests(k, FALSE, T \union {Segment(s)})
  BY <1>1, <1>3, SegmentRests
<1>5. Good(k, b, T, Get(Segment(s), v), T \union {Segment(s)})
      /\ Held(k, T \union {Segment(s)}, <<Segment(s)>> \o v)
  BY <1>2, <1>3, <1>4, SegOwn, HeldTake
<1>6. Good(k, b, S, Get(Sd(s), u) \o Get(Segment(s), v), T \union {Segment(s)})
  BY <1>2, <1>5, GoodCat
<1>7. segment_create(s, u) = Get(Sd(s), u) \o Get(Segment(s), v)
  BY DEF segment_create, Sd, Segment, v
<1>8. segment_remove(s) \o u = <<Segment(s)>> \o v
  <2>1. segment_remove(s) = <<Segment(s), Sd(s)>>
    BY DEF segment_remove, Sd, Segment
  <2>2. u \in Seq(Res)
    BY DEF Held
  <2> QED BY <2>1, <2>2, SegOwn, PairCat DEF v
<1> QED BY <1>5, <1>6, <1>7, <1>8 DEF WithSegment, T

\* dma_create and dma_remove
LEMMA DmaCreate ==
    ASSUME NEW k \in ProgKinds, NEW b, Undo(k, b) = "release", NEW s \in {"queue", "page"},
           NEW S, NEW u, Held(k, S, u), Segment(s) \in S, Available(s) \notin S, Dma(s) \notin S
    PROVE  /\ Good(k, b, S, dma_create(s, u), WithDma(S, s))
           /\ Held(k, WithDma(S, s), dma_remove(s) \o u)
<1> DEFINE T == S \union {Available(s)}
           v == <<Available(s)>> \o u
<1>1. ProgramRests(k, FALSE, T)
  BY AvailableRests DEF Held
<1>2. Good(k, b, S, Get(Available(s), u), T) /\ Held(k, T, v)
  BY <1>1, SegOwn, HeldTake
<1>3. Available(s) \in T /\ Dma(s) \notin T
  BY SegOwn
<1> HIDE DEF T, v
<1>4. ProgramRests(k, FALSE, T \union {Dma(s)})
  BY <1>1, <1>3, DmaRests
<1>5. Good(k, b, T, Get(Dma(s), v), T \union {Dma(s)})
      /\ Held(k, T \union {Dma(s)}, <<Dma(s)>> \o v)
  BY <1>2, <1>3, <1>4, SegOwn, HeldTake
<1>6. Good(k, b, S, Check(u), S)
  BY HeldCheck
<1>7. Good(k, b, S, Check(u) \o Get(Available(s), u) \o Get(Dma(s), v), T \union {Dma(s)})
  BY <1>2, <1>5, <1>6, GoodCat3
<1>8. dma_create(s, u) = Check(u) \o Get(Available(s), u) \o Get(Dma(s), v)
  BY DEF dma_create, Available, Dma, v
<1>9. dma_remove(s) \o u = <<Dma(s)>> \o v
  <2>1. dma_remove(s) = <<Dma(s), Available(s)>>
    BY DEF dma_remove, Available, Dma
  <2>2. u \in Seq(Res)
    BY DEF Held
  <2> QED BY <2>1, <2>2, SegOwn, PairCat DEF v
<1> QED BY <1>5, <1>7, <1>8, <1>9 DEF WithDma, T

Page1(S) == S \union {Sd("page")}
Page3(S) == WithSegment(S, "page") \union {Available("page")}

\* What a page was taken with is given back, however far it got.
LEMMA PageDrops ==
    ASSUME NEW k \in ProgKinds, NEW S \in SUBSET Own, ProgramRests(k, FALSE, S),
           \A x \in {Sd("page"), Segment("page"), Available("page"), Dma("page")} : x \notin S
    PROVE  /\ Drops(k, Page1(S), <<Sd("page")>> \o <<>>, S)
           /\ Drops(k, WithSegment(S, "page"), segment_remove("page") \o <<>>, S)
           /\ Drops(k, Page3(S), <<Available("page")>> \o (segment_remove("page") \o <<>>), S)
           /\ Drops(k, WithDma(WithSegment(S, "page"), "page"),
                 dma_remove("page") \o segment_remove("page"), S)
           /\ dma_remove("page") \o segment_remove("page") # <<>>
<1> DEFINE a  == Sd("page")
           c  == Segment("page")
           d  == Available("page")
           e  == Dma("page")
           S1 == S \union {a}
           S2 == S1 \union {c}
           S3 == S2 \union {d}
           S4 == S3 \union {e}
           u1 == <<a>> \o <<>>
           u2 == <<c>> \o u1
           u3 == <<d>> \o u2
           u4 == <<e>> \o u3
<1>1. /\ a \in Own /\ c \in Own /\ d \in Own /\ e \in Own /\ a \in Res /\ c \in Res /\ d \in Res
         /\ e \in Res
      /\ a \notin S /\ c \notin S1 /\ d \notin S2 /\ e \notin S3 /\ c \notin S
  BY SegOwn
<1>2. "page" \in {"queue", "page"}
  OBVIOUS
<1>3. ProgramRests(k, FALSE, S1) /\ a \in S1
  BY <1>1, <1>2, SdRests
<1>4. Drops(k, S1, u1, S)
  BY <1>1, <1>3, DropsNone, DropsMore
<1> HIDE DEF S1, u1
<1>5. ProgramRests(k, FALSE, S2) /\ c \in S2
  BY <1>1, <1>2, <1>3, SegmentRests
<1>6. Drops(k, S2, u2, S)
  BY <1>1, <1>4, <1>5, DropsMore
<1> HIDE DEF S2, u2
<1>7. ProgramRests(k, FALSE, S3) /\ d \in S3
  BY <1>1, <1>2, <1>5, AvailableRests
<1>8. Drops(k, S3, u3, S)
  BY <1>1, <1>6, <1>7, DropsMore
<1> HIDE DEF S3, u3
<1>9. ProgramRests(k, FALSE, S4)
  BY <1>1, <1>2, <1>7, DmaRests
<1>10. Drops(k, S4, u4, S)
  BY <1>1, <1>8, <1>9, DropsMore
<1> HIDE DEF S4
<1>11. S1 = Page1(S) /\ S2 = WithSegment(S, "page") /\ S3 = Page3(S)
      /\ S4 = WithDma(WithSegment(S, "page"), "page")
  BY DEF Page1, Page3, WithSegment, WithDma, S1, S2, S3, S4
<1>12. u2 = segment_remove("page") \o <<>>
  <2>1. segment_remove("page") = <<c, a>> /\ <<>> \in Seq(Res)
    BY DEF segment_remove, Sd, Segment
  <2> HIDE DEF a, c
  <2>2. <<c, a>> \o <<>> = <<c>> \o (<<a>> \o <<>>)
    BY <1>1, <2>1, PairCat
  <2> QED BY <2>1, <2>2 DEF u2, u1
<1>13. u4 = dma_remove("page") \o segment_remove("page") /\ u4 # <<>>
  <2>1. segment_remove("page") = <<c, a>> /\ dma_remove("page") = <<e, d>>
    BY DEF segment_remove, dma_remove, Sd, Segment, Available, Dma
  <2> HIDE DEF a, c, d, e
  <2>2. <<c, a>> \in Seq(Res)
    BY <1>1
  <2>3. <<c, a>> \o <<>> = <<c, a>>
    BY <2>2, CatNil
  <2>4. <<e, d>> \o <<c, a>> = <<e>> \o (<<d>> \o <<c, a>>)
    BY <1>1, <2>2, PairCat
  <2>5. u4 = <<e>> \o (<<d>> \o (segment_remove("page") \o <<>>))
    BY <1>12 DEF u4, u3
  <2>6. u4 = dma_remove("page") \o segment_remove("page")
    BY <2>1, <2>3, <2>4, <2>5, Zenon
  <2>7. u3 \in Seq(Res)
    BY <1>8 DEF Drops
  <2>8. Len(u4) = Len(u3) + 1 /\ Len(u3) \in Nat
    BY <1>1, <2>7, ConsSeq
  <2>9. u4 # <<>>
    BY <2>8
  <2> QED BY <2>6, <2>9
<1>14. u3 = <<d>> \o (segment_remove("page") \o <<>>)
  BY <1>12 DEF u3
<1> QED BY <1>4, <1>6, <1>8, <1>10, <1>11, <1>12, <1>13, <1>14 DEF u1

\* identify_controller and show_info of the rpc examples give back the page they take.
LEMMA IdentifyPage ==
    ASSUME NEW k \in ProgKinds, k \notin KeepKinds, NEW b, Undo(k, b) = "release", NEW S, NEW u,
           Held(k, S, u),
           \A x \in {Sd("page"), Segment("page"), Available("page"), Dma("page")} : x \notin S
    PROVE  Good(k, b, S, identify_page(u), S)
<1> DEFINE T == WithSegment(S, "page")
           v == segment_remove("page") \o u
           U == WithDma(T, "page")
           l == dma_remove("page") \o segment_remove("page")
<1>1. "page" \in {"queue", "page"}
  OBVIOUS
<1>2. Good(k, b, S, segment_create("page", u), T) /\ Held(k, T, v)
  BY <1>1, SegmentCreate
<1>3. Segment("page") \in T /\ Available("page") \notin T /\ Dma("page") \notin T
  BY SegOwn DEF WithSegment
<1> HIDE DEF T, v
<1>4. Good(k, b, T, dma_create("page", v), U)
  BY <1>1, <1>2, <1>3, DmaCreate
<1>5. Drops(k, U, l, S) /\ l # <<>>
  BY PageDrops DEF T, Held
<1> HIDE DEF U, l
<1>6. Good(k, b, U, Drop(l), S)
  BY <1>5, DropsGood
<1>7. Good(k, b, S, segment_create("page", u) \o dma_create("page", v) \o Drop(l), S)
  BY <1>2, <1>4, <1>6, GoodCat3
<1> QED BY <1>7 DEF identify_page, v, l

\* rpc/rpc_client.c
LEMMA RpcClientGood ==
    \E V : Good("rpc_client", TRUE, {}, rpc_client.steps, V)
          /\ Held("rpc_client", V, rpc_client.release)
<1> DEFINE k  == "rpc_client"
           u1 == <<loc("ctrl")>>
           w1 == u1 \o <<SISCI>>
           w2 == locs_of(<<"aq", "ctrl">>) \o <<SISCI>>
           S1 == {loc("ctrl")}
           S2 == S1 \union {loc("aq")}
<1>1. /\ k \in ProgKinds /\ k \notin KeepKinds /\ Undo(k, TRUE) = "release"
      /\ \A x \in {"ctrl", "aq"} : loc(x) \in Own /\ loc(x) \in Res
      /\ <<SISCI>> \in Seq(Res)
  BY OwnIs, OwnRes, ProgBase DEF ProgKinds, LatKinds, KeepKinds, NullKinds, Undo,
      Pointers
<1>2. ProgramRests(k, FALSE, S1) /\ ProgramRests(k, FALSE, S2)
  BY DEF ProgramRests, var, loc, R
<1>3. loc("aq") \notin S1 /\ S1 = {} \union {loc("ctrl")}
  BY DEF loc, R
<1>4. w2 = <<loc("aq")>> \o w1
  <2> DEFINE a == loc("aq")
             c == loc("ctrl")
             s == <<SISCI>>
  <2>1. locs_of(<<"aq", "ctrl">>) = <<a, c>>
    BY DEF locs_of
  <2>2. a \in Res /\ c \in Res /\ s \in Seq(Res)
    BY <1>1
  <2> HIDE DEF a, c, s
  <2>3. <<a, c>> \o s = <<a>> \o (<<c>> \o s)
    BY <2>2, PairCat
  <2> QED BY <2>1, <2>3 DEF a, c, s
<1>5. u1 = <<loc("ctrl")>> \o <<>>
  BY <1>1, LoneSeq
<1>6. \A x \in {Sd("page"), Segment("page"), Available("page"), Dma("page")} : x \notin S2
  BY DEF Sd, Segment, Available, Dma, loc, R
<1> HIDE DEF k, u1, w2, S1
<1>7. Good(k, TRUE, {}, Get(SISCI, <<>>), {})
  BY <1>1, SisciGood
<1>8. Good(k, TRUE, {}, Get(loc("ctrl"), <<>>), S1) /\ Held(k, S1, u1)
  BY <1>1, <1>2, <1>3, <1>5, HeldNone, HeldTake
<1>9. Good(k, TRUE, S1, Get(loc("aq"), u1), S2)
  BY <1>1, <1>2, <1>3, <1>8, HeldTake
<1>10. Held(k, S2, w2)
  <2>1. Held(k, S1, w1)
    BY <1>1, <1>2, <1>3, HeldNone, HeldMore DEF u1
  <2> HIDE DEF w1
  <2> QED BY <1>1, <1>2, <1>3, <1>4, <2>1, HeldMore
<1> HIDE DEF S2
<1>11. Good(k, TRUE, S2, identify_page(w2), S2)
  BY <1>1, <1>6, <1>10, IdentifyPage
<1>12. Good(k, TRUE, {},
      Get(SISCI, <<>>) \o Get(loc("ctrl"), <<>>) \o Get(loc("aq"), u1) \o identify_page(w2), S2)
  BY <1>7, <1>8, <1>9, <1>11, GoodCat4
<1>13. /\ rpc_client.steps = Get(SISCI, <<>>) \o Get(loc("ctrl"), <<>>) \o Get(loc("aq"),
          u1) \o identify_page(w2)
       /\ rpc_client.release = w2
  BY DEF rpc_client, Prog, u1, w2, SISCI
<1> QED BY <1>10, <1>12, <1>13 DEF k

StepOf(r, d, u, n) == [get |-> r, drop |-> d, undo |-> u, skip |-> n]
Skips(s, n)        == [s EXCEPT !.skip = n]

\* A step is one.
LEMMA StepOfIs ==
    ASSUME NEW r \in Res, NEW d \in Seq(Res), NEW u \in Seq(Res), NEW n \in Nat
    PROVE  /\ StepOf(r, d, u, n) \in Steps
           /\ StepOf(r, d, u, n).get = r /\ StepOf(r, d, u, n).drop = d
           /\ StepOf(r, d, u, n).undo = u /\ StepOf(r, d, u, n).skip = n
BY DEF StepOf, Steps

\* The same step, with another number of steps to skip
LEMMA SkipsOf ==
    ASSUME NEW r, NEW d, NEW u, NEW n, NEW m PROVE Skips(StepOf(r, d, u, n), m) = StepOf(r, d, u, m)
BY DEF StepOf, Skips

Joins(u, s, t) ==
    /\ u \in Seq(Steps) /\ Len(u) = Len(s) + Len(t)
    /\ \A i \in 1..Len(s) : u[i] = s[i]
    /\ \A i \in 1..Len(t) : u[Len(s) + i] = t[i]

\* Two sequences of steps, one after the other
LEMMA Joined == ASSUME NEW s \in Seq(Steps), NEW t \in Seq(Steps) PROVE Joins(s \o t, s, t)
BY DEF Joins

\* A single step
LEMMA LoneStep == ASSUME NEW s \in Steps
      PROVE <<s>> \in Seq(Steps) /\ Len(<<s>>) = 1 /\ <<s>>[1] = s
OBVIOUS

Six(s1, s2, s3, s4, s5, s6) == (<<s1>> \o <<s2>>) \o ((<<s3>> \o <<s4>>) \o <<s5>>) \o <<s6>>

IsSix(q, s1, s2, s3, s4, s5, s6) ==
    /\ q \in Seq(Steps) /\ Len(q) = 6
    /\ q[1] = s1 /\ q[2] = s2 /\ q[3] = s3 /\ q[4] = s4 /\ q[5] = s5 /\ q[6] = s6

\* Six steps
LEMMA SixSteps ==
    ASSUME NEW s1 \in Steps, NEW s2 \in Steps, NEW s3 \in Steps, NEW s4 \in Steps,
           NEW s5 \in Steps, NEW s6 \in Steps,
           NEW q, q = Six(s1, s2, s3, s4, s5, s6)
    PROVE  IsSix(q, s1, s2, s3, s4, s5, s6)
<1> DEFINE a == <<s1>> \o <<s2>>
           c == <<s3>> \o <<s4>>
           d == c \o <<s5>>
           e == a \o d
           x5 == <<s5>>
           x6 == <<s6>>
<1>1. a \in Seq(Steps) /\ Len(a) = 2 /\ a[1] = s1 /\ a[2] = s2
  OBVIOUS
<1>2. c \in Seq(Steps) /\ Len(c) = 2 /\ c[1] = s3 /\ c[2] = s4
  OBVIOUS
<1>3. x5 \in Seq(Steps) /\ Len(x5) = 1 /\ x5[1] = s5 /\ x6 \in Seq(Steps) /\ Len(x6) = 1
      /\ x6[1] = s6
  BY LoneStep
<1> HIDE DEF a, c, x5, x6
<1>4. Joins(d, c, x5)
  BY <1>2, <1>3, Joined DEF x5
<1> HIDE DEF d
<1>5. d \in Seq(Steps) /\ Len(d) = 3 /\ d[1] = s3 /\ d[2] = s4 /\ d[2 + 1] = s5
  BY <1>2, <1>3, <1>4 DEF Joins
<1>6. Joins(e, a, d)
  BY <1>1, <1>5, Joined
<1> HIDE DEF e
<1>7. e \in Seq(Steps) /\ Len(e) = 5
  BY <1>1, <1>5, <1>6 DEF Joins
<1>8. e[1] = s1 /\ e[2] = s2 /\ e[2 + 1] = s3 /\ e[2 + 2] = s4 /\ e[2 + 3] = s5
  <2>1. d[1] = s3 /\ d[2] = s4 /\ d[3] = s5
    BY <1>5
  <2> QED BY <1>1, <1>5, <1>6, <2>1 DEF Joins
<1>9. Joins(e \o x6, e, x6)
  BY <1>3, <1>7, Joined
<1>10. q = e \o x6
  BY DEF Six, a, c, d, e, x6
<1>11. Joins(q, e, x6)
  BY <1>9, <1>10
<1>12. q \in Seq(Steps) /\ Len(q) = 6
  BY <1>3, <1>7, <1>11 DEF Joins
<1>13. q[1] = e[1] /\ q[2] = e[2] /\ q[3] = e[3] /\ q[4] = e[4] /\ q[5] = e[5] /\ q[5 + 1] = x6[1]
  BY <1>3, <1>7, <1>11 DEF Joins
<1>14. e[3] = s3 /\ e[4] = s4 /\ e[5] = s5
  BY <1>8
<1> QED BY <1>3, <1>8, <1>12, <1>13, <1>14 DEF IsSix

\* The steps of an optional part: each goes on behind it when it fails.
LEMMA OptionalIs ==
    ASSUME NEW q \in Seq(Steps), NEW i \in 1..Len(q)
    PROVE  /\ Optional(q) \in Seq(Steps) /\ Len(Optional(q)) = Len(q)
           /\ Optional(q)[i] = Skips(q[i], Len(q) + 1 - i)
<1>1. \A j \in 1..Len(q) : [q[j] EXCEPT !.skip = Len(q) + 1 - j] \in Steps
  <2> SUFFICES ASSUME NEW j \in 1..Len(q) PROVE [q[j] EXCEPT !.skip = Len(q) + 1 - j] \in Steps
    OBVIOUS
  <2>1. q[j] \in Steps /\ Len(q) + 1 - j \in Nat
    OBVIOUS
  <2> QED BY <2>1 DEF Steps
<1> DEFINE g(j) == [q[j] EXCEPT !.skip = Len(q) + 1 - j]
<1>2. \A j \in 1..Len(q) : g(j) \in Steps
  BY <1>1
<1>3. Optional(q) = [j \in 1..Len(q) |-> g(j)]
  BY DEF Optional
<1>4. Optional(q)[i] = g(i)
  BY <1>3
<1> HIDE DEF g
<1>5. Optional(q) \in Seq(Steps) /\ Len(Optional(q)) = Len(q)
  BY <1>2, <1>3
<1> QED BY <1>4, <1>5 DEF g, Skips

\* The lists of releases in identify_page
PageLists(u1, u2, u3, u4) ==
    /\ u1 = <<Sd("page")>> \o <<>> /\ u2 = segment_remove("page") \o <<>>
    /\ u3 = <<Available("page")>> \o u2 /\ u4 = dma_remove("page") \o segment_remove("page")

\* The steps of identify_controller when its failure is ignored
LEMMA PageSteps ==
    ASSUME NEW u1 \in Seq(Res), NEW u2 \in Seq(Res), NEW u3 \in Seq(Res), NEW u4 \in Seq(Res),
           PageLists(u1, u2, u3, u4), NEW p, p = Optional(identify_page(<<>>))
    PROVE  /\ p \in Seq(Steps) /\ Len(p) = 6
           /\ p[1] = StepOf(Sd("page"), <<>>, <<>>, 6)
                 /\ p[2] = StepOf(Segment("page"), <<>>, u1, 5)
           /\ p[3] = StepOf(None, <<>>, u2, 4) /\ p[4] = StepOf(Available("page"), <<>>, u2, 3)
           /\ p[5] = StepOf(Dma("page"), <<>>, u3, 2) /\ p[6] = StepOf(None, u4, <<>>, 1)
<1> DEFINE s1 == StepOf(Sd("page"), <<>>, <<>>, 0)
           s2 == StepOf(Segment("page"), <<>>, u1, 0)
           s3 == StepOf(None, <<>>, u2, 0)
           s4 == StepOf(Available("page"), <<>>, u2, 0)
           s5 == StepOf(Dma("page"), <<>>, u3, 0)
           s6 == StepOf(None, u4, <<>>, 0)
           q  == identify_page(<<>>)
<1>1. q = Six(s1, s2, s3, s4, s5, s6)
  BY DEF PageLists, Six, identify_page, segment_create, dma_create, Get, Check, Drop,
      StepOf, Sd, Segment, Available, Dma
<1>2. Sd("page") \in Res /\ Segment("page") \in Res /\ Available("page") \in Res
      /\ Dma("page") \in Res /\ None \in Res
      /\ <<>> \in Seq(Res) /\ 0 \in Nat
  BY SegOwn, NoneRes
<1>3. s1 \in Steps /\ s2 \in Steps /\ s3 \in Steps /\ s4 \in Steps /\ s5 \in Steps /\ s6 \in Steps
  BY <1>2, StepOfIs
<1>4. \A n : /\ Skips(s1, n) = StepOf(Sd("page"), <<>>, <<>>, n)
             /\ Skips(s2, n) = StepOf(Segment("page"), <<>>, u1, n)
             /\ Skips(s3, n) = StepOf(None, <<>>, u2, n)
             /\ Skips(s4, n) = StepOf(Available("page"), <<>>, u2, n)
             /\ Skips(s5, n) = StepOf(Dma("page"), <<>>, u3, n)
             /\ Skips(s6, n) = StepOf(None, u4, <<>>, n)
  BY SkipsOf
<1> HIDE DEF s1, s2, s3, s4, s5, s6, q
<1>5. IsSix(q, s1, s2, s3, s4, s5, s6)
  BY <1>1, <1>3, SixSteps
<1>6. p = Optional(q) /\ q \in Seq(Steps) /\ Len(q) = 6
  BY <1>5 DEF q, IsSix
<1>7. /\ p \in Seq(Steps) /\ Len(p) = 6
      /\ \A i \in 1..6 : p[i] = Skips(q[i], 6 + 1 - i)
  <2>1. \A i \in 1..6 : p \in Seq(Steps) /\ Len(p) = 6 /\ p[i] = Skips(q[i], 6 + 1 - i)
    BY <1>6, OptionalIs
  <2>2. 1 \in 1..6
    OBVIOUS
  <2> QED BY <2>1, <2>2
<1>8. /\ p[1] = Skips(q[1], 6) /\ p[2] = Skips(q[2], 5) /\ p[3] = Skips(q[3], 4)
      /\ p[4] = Skips(q[4], 3) /\ p[5] = Skips(q[5], 2) /\ p[6] = Skips(q[6], 1)
  BY <1>7
<1>9. /\ p[1] = Skips(s1, 6) /\ p[2] = Skips(s2, 5) /\ p[3] = Skips(s3, 4)
      /\ p[4] = Skips(s4, 3) /\ p[5] = Skips(s5, 2) /\ p[6] = Skips(s6, 1)
  BY <1>5, <1>8 DEF IsSix
<1> QED BY <1>4, <1>7, <1>9

\* What is about to be released in the middle of a program rests on what is held.
LEMMA DropsRests ==
    ASSUME NEW k, NEW S, NEW l, NEW V, Drops(k, S, l, V)
    PROVE  Rests(k, FALSE, S) /\ S \in SUBSET Res
<1>1. S \ First(l, 0) = S /\ 0 \in 0..Len(l) /\ ("build" = "throw") = FALSE
  <2>1. Len(l) \in Nat
    BY DEF Drops
  <2> QED BY <2>1, FirstZero
<1> QED BY <1>1, OwnRes DEF Drops, Rel

\* A check takes nothing.
LEMMA NoneTakes == \A k : TakesOk(k, None)
<1>1. None[1] = "" /\ Bindings[1] = "aq" /\ SISCI[1] = "var" /\ R("md", "pages")[1] = "md"
      /\ R("ctrl", "mmap")[1] = "ctrl"
  BY DEF None, Bindings, SISCI, var, R
<1>2. None # Bindings /\ None # SISCI /\ None # R("md", "pages") /\ None # R("ctrl", "mmap")
  BY <1>1
<1> QED BY <1>2 DEF TakesOk

\* A step that may fail without harm, in a sequence of six
LEMMA SkipStep ==
    ASSUME NEW k, k \notin KeepKinds, NEW b, NEW f, NEW r, NEW u, NEW i \in 1..6, NEW n \in 1..6,
           i + n = 7,
           r \in Own \/ r = None, NEW S, NEW T, NEW V, f[i] = S, f[i + 1] = T, f[7] = V,
           Drops(k, S, u, V), T = S \union Core({r}), Rests(k, FALSE, T)
    PROVE  StepOk(k, b, f, StepOf(r, <<>>, u, n), i, 6)
<1> DEFINE s == StepOf(r, <<>>, u, n)
<1>0. s.get = r /\ s.drop = <<>> /\ s.undo = u /\ s.skip = n
  BY DEF StepOf
<1> HIDE DEF s
<1>1. TakesOk(k, r)
  BY OwnRes, PlainTakes, NoneTakes
<1>2. FailOk(k, b, f, s, i, 6)
  <2>1. s.skip # 0 /\ i + s.skip <= 6 + 1 /\ i + s.skip = 7
    BY <1>0
  <2>2. Rel(k, "build", {}, f[i], s.undo) /\ f[7] = f[i] \ Elems(s.undo)
    BY <1>0 DEF Drops
  <2> QED BY <2>1, <2>2 DEF FailOk
<1>3. StepOk(k, b, f, s, i, 6)
  BY <1>0, <1>1, <1>2 DEF StepOk
<1> QED BY <1>3 DEF s

\* identify_controller gives back the page, whichever of its steps fails, and run_service goes on.
LEMMA OptionalPage ==
    ASSUME NEW k \in ProgKinds, k \notin KeepKinds, NEW b, NEW S \in SUBSET Own,
           ProgramRests(k, FALSE, S),
           \A x \in {Sd("page"), Segment("page"), Available("page"), Dma("page")} : x \notin S
    PROVE  Good(k, b, S, Optional(identify_page(<<>>)), S)
<1> DEFINE u1 == <<Sd("page")>> \o <<>>
           u2 == segment_remove("page") \o <<>>
           u3 == <<Available("page")>> \o u2
           u4 == dma_remove("page") \o segment_remove("page")
           S1 == Page1(S)
           S2 == WithSegment(S, "page")
           S3 == Page3(S)
           S4 == WithDma(S2, "page")
           p  == Optional(identify_page(<<>>))
           f  == [i \in 1..7 |-> CASE i = 1 -> S [] i = 2 -> S1 [] i = 3 -> S2 [] i = 4 -> S2
                                   [] i = 5 -> S3 [] i = 6 -> S4 [] i = 7 -> S]
<1>1. /\ Drops(k, S1, u1, S) /\ Drops(k, S2, u2, S) /\ Drops(k, S3, u3, S) /\ Drops(k, S4, u4, S)
         /\ u4 # <<>>
      /\ Drops(k, S, <<>>, S)
  BY PageDrops, DropsNone
<1>2. /\ S1 = S \union {Sd("page")} /\ S2 = S1 \union {Segment("page")}
         /\ S3 = S2 \union {Available("page")}
      /\ S4 = S3 \union {Dma("page")}
  BY DEF Page1, Page3, WithSegment, WithDma
<1>3. PageLists(u1, u2, u3, u4)
  BY DEF PageLists
<1> HIDE DEF u1, u2, u3, u4, S1, S2, S3, S4, p
<1>4. u1 \in Seq(Res) /\ u2 \in Seq(Res) /\ u3 \in Seq(Res) /\ u4 \in Seq(Res)
  BY <1>1 DEF Drops
<1>5. /\ p \in Seq(Steps) /\ Len(p) = 6
      /\ p[1] = StepOf(Sd("page"), <<>>, <<>>, 6) /\ p[2] = StepOf(Segment("page"), <<>>, u1, 5)
      /\ p[3] = StepOf(None, <<>>, u2, 4) /\ p[4] = StepOf(Available("page"), <<>>, u2, 3)
      /\ p[5] = StepOf(Dma("page"), <<>>, u3, 2) /\ p[6] = StepOf(None, u4, <<>>, 1)
  BY <1>3, <1>4, PageSteps DEF p
<1>6. /\ S \in SUBSET Res /\ S1 \in SUBSET Res /\ S2 \in SUBSET Res /\ S3 \in SUBSET Res
         /\ S4 \in SUBSET Res
      /\ Rests(k, FALSE, S1) /\ Rests(k, FALSE, S2) /\ Rests(k, FALSE, S3) /\ Rests(k, FALSE, S4)
  BY <1>1, DropsRests
<1>7. /\ f \in [1..7 -> SUBSET Res]
      /\ f[1] = S /\ f[2] = S1 /\ f[3] = S2 /\ f[4] = S2 /\ f[5] = S3 /\ f[6] = S4 /\ f[7] = S
  BY <1>6
<1> HIDE DEF f
<1>8. /\ Core({Sd("page")}) = {Sd("page")} /\ Core({Segment("page")}) = {Segment("page")}
      /\ Core({Available("page")}) = {Available("page")} /\ Core({Dma("page")}) = {Dma("page")}
            /\ Core({None}) = {}
      /\ Sd("page") \in Own /\ Segment("page") \in Own /\ Available("page") \in Own
            /\ Dma("page") \in Own
  BY SegOwn, OwnRes, PlainTakes DEF Core
<1>9. StepOf(None, u4, <<>>, 1).get = None /\ StepOf(None, u4, <<>>, 1).drop = u4
  BY DEF StepOf
<1>10. StepOk(k, b, f, StepOf(Sd("page"), <<>>, <<>>, 6), 1, 6)
  <2>1. f[1] = S /\ f[1 + 1] = S1 /\ f[7] = S
    BY <1>7
  <2>2. S1 = S \union Core({Sd("page")})
    BY <1>2, <1>8
  <2>3. 1 \in 1..6 /\ 6 \in 1..6 /\ 1 + 6 = 7
    OBVIOUS
  <2> QED BY <1>1, <1>6, <1>8, <2>1, <2>2, <2>3, SkipStep
<1>11. StepOk(k, b, f, StepOf(Segment("page"), <<>>, u1, 5), 2, 6)
  <2>1. f[2] = S1 /\ f[2 + 1] = S2 /\ f[7] = S
    BY <1>7
  <2>2. S2 = S1 \union Core({Segment("page")})
    BY <1>2, <1>8
  <2>3. 2 \in 1..6 /\ 5 \in 1..6 /\ 2 + 5 = 7
    OBVIOUS
  <2> QED BY <1>1, <1>6, <1>8, <2>1, <2>2, <2>3, SkipStep
<1>12. StepOk(k, b, f, StepOf(None, <<>>, u2, 4), 3, 6)
  <2>1. f[3] = S2 /\ f[3 + 1] = S2 /\ f[7] = S
    BY <1>7
  <2>2. S2 = S2 \union Core({None})
    BY <1>2, <1>8
  <2>3. 3 \in 1..6 /\ 4 \in 1..6 /\ 3 + 4 = 7
    OBVIOUS
  <2> QED BY <1>1, <1>6, <1>8, <2>1, <2>2, <2>3, SkipStep
<1>13. StepOk(k, b, f, StepOf(Available("page"), <<>>, u2, 3), 4, 6)
  <2>1. f[4] = S2 /\ f[4 + 1] = S3 /\ f[7] = S
    BY <1>7
  <2>2. S3 = S2 \union Core({Available("page")})
    BY <1>2, <1>8
  <2>3. 4 \in 1..6 /\ 3 \in 1..6 /\ 4 + 3 = 7
    OBVIOUS
  <2> QED BY <1>1, <1>6, <1>8, <2>1, <2>2, <2>3, SkipStep
<1>14. StepOk(k, b, f, StepOf(Dma("page"), <<>>, u3, 2), 5, 6)
  <2>1. f[5] = S3 /\ f[5 + 1] = S4 /\ f[7] = S
    BY <1>7
  <2>2. S4 = S3 \union Core({Dma("page")})
    BY <1>2, <1>8
  <2>3. 5 \in 1..6 /\ 2 \in 1..6 /\ 5 + 2 = 7
    OBVIOUS
  <2> QED BY <1>1, <1>6, <1>8, <2>1, <2>2, <2>3, SkipStep
<1>15. StepOk(k, b, f, p[6], 6, 6)
  <2>1. Rel(k, "build", {}, f[6], u4) /\ f[6 + 1] = f[6] \ Elems(u4)
    BY <1>1, <1>7 DEF Drops
  <2> QED BY <1>1, <1>5, <1>9, <2>1 DEF StepOk
<1>16. \A i \in 1..6 : StepOk(k, b, f, p[i], i, 6)
  BY <1>5, <1>10, <1>11, <1>12, <1>13, <1>14, <1>15
<1>17. f \in [1..(Len(p) + 1) -> SUBSET Res] /\ f[Len(p) + 1] = S
  BY <1>5, <1>7
<1>18. Good(k, b, S, p, S)
  BY <1>5, <1>7, <1>16, <1>17 DEF Good
<1> QED BY <1>18 DEF p

\* Steps may be grouped either way.
LEMMA StepsAssoc ==
    ASSUME NEW l \in Seq(Steps), NEW m \in Seq(Steps), NEW n \in Seq(Steps)
    PROVE  l \o (m \o n) = (l \o m) \o n
OBVIOUS

TakeBindings == [get |-> Bindings, drop |-> <<>>, undo |-> <<>>, skip |-> 1]

\* nvm_dis_rpc_enable, whose failure is ignored, is one step.
LEMMA TakeBindingsIs ==
    /\ TakeBindings \in Steps /\ <<TakeBindings>> \in Seq(Steps)
    /\ Optional(Get(Bindings, <<>>)) = <<TakeBindings>>
<1> DEFINE s == [get |-> Bindings, drop |-> <<>>, undo |-> <<>>, skip |-> 0]
           g == <<s>>
<1>1. TakeBindings \in Steps /\ s \in Steps
  <2>1. <<>> \in Seq(Res) /\ Bindings \in Res /\ 1 \in Nat /\ 0 \in Nat
    BY NoneRes
  <2> QED BY <2>1 DEF TakeBindings, Steps
<1>2. <<TakeBindings>> \in Seq(Steps)
  BY <1>1, LoneStep
<1>3. [s EXCEPT !.skip = 1] = TakeBindings
  BY DEF TakeBindings
<1>4. Optional(Get(Bindings, <<>>)) = [i \in 1..Len(g) |-> [g[i] EXCEPT !.skip = Len(g) + 1 - i]]
  BY DEF Optional, Get
<1>5. Len(g) = 1 /\ g[1] = s
  OBVIOUS
<1> HIDE DEF g, s
<1>6. Optional(Get(Bindings, <<>>)) = [i \in 1..1 |-> TakeBindings]
  BY <1>3, <1>4, <1>5
<1>7. [i \in 1..1 |-> TakeBindings] = <<TakeBindings>>
  OBVIOUS
<1> QED BY <1>1, <1>2, <1>6, <1>7

\* rpc/rpc_server.c, up to its last step
LEMMA ServerGood ==
    \E V, p : /\ Good("rpc_server", TRUE, {}, p, V) /\ rpc_server.steps = p \o <<TakeBindings>>
              /\ \E l \in Seq(Res) : rpc_server.release = <<Bindings>> \o l
                    /\ Held("rpc_server", V, l)
<1> DEFINE k  == "rpc_server"
           q  == "queue"
           c  == loc("ctrl")
           u  == <<c>>
           w  == <<c, SISCI>>
           ur == segment_remove(q) \o u
           wr == segment_remove(q) \o w
           S1 == {c}
           S2 == WithSegment(S1, q)
           S3 == WithDma(S2, q)
           S4 == S3 \union {loc("aq")}
           out == (dma_remove(q) \o segment_remove(q)) \o w
<1>1. /\ k \in ProgKinds /\ k \notin KeepKinds /\ Undo(k, TRUE) = "release"
         /\ q \in {"queue", "page"}
      /\ loc("aq") \in Own /\ loc("aq") \in Res /\ c \in Own /\ c \in Res /\ <<SISCI>> \in Seq(Res)
            /\ SISCI \in Res
      /\ Bindings \in Res
  BY OwnIs, OwnRes, ProgBase, NoneRes DEF ProgKinds, LatKinds, KeepKinds, NullKinds,
      Undo, Pointers
<1>2. ProgramRests(k, FALSE, S1)
  BY DEF ProgramRests, var, loc, R
<1>3. Sd(q) \notin S1 /\ Segment(q) \notin S1 /\ Available(q) \notin S1 /\ Dma(q) \notin S1
  BY DEF Sd, Segment, Available, Dma, loc, R
<1>4. Segment(q) \in S2 /\ Available(q) \notin S2 /\ Dma(q) \notin S2
  BY <1>1, <1>3, SegOwn DEF WithSegment
<1>5. /\ ProgramRests(k, FALSE, S4) /\ loc("aq") \notin S3
      /\ \A x \in {Sd("page"), Segment("page"), Available("page"), Dma("page")} : x \notin S4
  BY DEF ProgramRests, WithSegment, WithDma, Sd, Segment, Available, Dma, var, loc, R
<1>6. Held(k, S1, u) /\ Good(k, TRUE, {}, Get(c, <<>>), S1)
  <2>1. u = <<c>> \o <<>> /\ S1 = {} \union {c}
    BY <1>1, LoneSeq
  <2> HIDE DEF u, S1, c, k
  <2> QED BY <1>1, <1>2, <2>1, HeldNone, HeldTake
<1>7. Held(k, S1, w)
  <2>1. w = <<c>> \o <<SISCI>> /\ S1 = {} \union {c}
    BY <1>1, Pairs
  <2> HIDE DEF w, S1, c, k
  <2> QED BY <1>1, <1>2, <2>1, HeldNone, HeldMore
<1> HIDE DEF k, S1, u, w
<1>8. Good(k, TRUE, S1, segment_create(q, u), S2) /\ Held(k, S2, ur) /\ Held(k, S2, wr)
  BY <1>1, <1>3, <1>6, <1>7, SegmentCreate
<1> HIDE DEF S2, ur, wr
<1>9. Good(k, TRUE, S2, dma_create(q, ur), S3) /\ Held(k, S3, dma_remove(q) \o wr)
  BY <1>1, <1>4, <1>8, DmaCreate
<1>10. Held(k, S3, out)
  <2>1. dma_remove(q) \in Seq(Res) /\ segment_remove(q) \in Seq(Res) /\ w \in Seq(Res)
    <3>1. dma_remove(q) = <<Dma(q), Available(q)>> /\ segment_remove(q) = <<Segment(q), Sd(q)>>
      BY DEF dma_remove, segment_remove, Sd, Segment, Available, Dma
    <3>2. Sd(q) \in Res /\ Segment(q) \in Res /\ Available(q) \in Res /\ Dma(q) \in Res
      BY <1>1, SegOwn
    <3>3. <<Dma(q), Available(q)>> \in Seq(Res) /\ <<Segment(q), Sd(q)>> \in Seq(Res)
      BY <3>2
    <3> QED BY <1>7, <3>1, <3>3 DEF Held
  <2>2. out = dma_remove(q) \o wr
    BY <2>1, Assoc DEF wr
  <2> QED BY <1>9, <2>2
<1> HIDE DEF S3, out
<1>11. Good(k, TRUE, S3, Get(loc("aq"), out), S4) /\ Held(k, S4, <<loc("aq")>> \o out)
  BY <1>1, <1>5, <1>10, HeldTake
<1> HIDE DEF S4
<1>12. Good(k, TRUE, S4, Optional(identify_page(<<>>)), S4)
  BY <1>1, <1>5, <1>11, OptionalPage DEF Held
<1>13. Good(k, TRUE, {}, Get(SISCI, <<>>), {})
  BY <1>1, SisciGood
<1> DEFINE p4 == Get(SISCI, <<>>) \o Get(c, <<>>) \o segment_create(q, u) \o dma_create(q, ur)
           x  == Get(loc("aq"), out) \o Optional(identify_page(<<>>))
<1>14. Good(k, TRUE, {}, p4, S3)
  BY <1>6, <1>8, <1>9, <1>13, GoodCat4
<1>15. Good(k, TRUE, S3, x, S4)
  BY <1>11, <1>12, GoodCat
<1> HIDE DEF p4, x
<1>16. Good(k, TRUE, {}, p4 \o x, S4)
  BY <1>14, <1>15, GoodCat
<1>17. rpc_server.steps = p4 \o (x \o <<TakeBindings>>)
  BY TakeBindingsIs DEF rpc_server, Prog, run_service, p4, x, u, ur, w, out, SISCI,
      Bindings
<1>18. p4 \o (x \o <<TakeBindings>>) = (p4 \o x) \o <<TakeBindings>>
  <2>1. p4 \in Seq(Steps) /\ x \in Seq(Steps)
    BY <1>14, <1>15 DEF Good
  <2> QED BY <2>1, TakeBindingsIs, StepsAssoc
<1>19. rpc_server.release = <<Bindings, loc("aq")>> \o out
  BY DEF rpc_server, Prog, out, w, SISCI, Bindings
<1>20. out \in Seq(Res) /\ <<loc("aq")>> \o out \in Seq(Res)
  BY <1>10, <1>11 DEF Held
<1>21. <<Bindings, loc("aq")>> \o out = <<Bindings>> \o (<<loc("aq")>> \o out)
  BY <1>1, <1>20, PairCat
<1> QED BY <1>11, <1>16, <1>17, <1>18, <1>19, <1>20, <1>21 DEF k

\* The steps and the release of a program
LEMMA ProgramIs ==
    ASSUME NEW k \in ProgKinds
    PROVE  Program(k) = Main(k).steps /\ Release(k) = Main(k).release
<1>1. k \notin {"raw", "sysfs", "smartio", "phys", "local", "local_va", "remote", "remote_va",
                "create", "attach", "connect"}
  BY DEF ProgKinds, LatKinds
<1>2. k \notin KernKinds /\ k \notin CtrlKinds
  BY DEF ProgKinds, LatKinds, KernKinds, CtrlKinds
<1>3. Program(k) = Main(k).steps
  BY <1>1, <1>2 DEF Program
<1>4. Release(k) = Main(k).release
  BY <1>2 DEF Release
<1> QED BY <1>3, <1>4

\* rpc_server has a trace.
LEMMA ServerSound == \E f : IsTrace("rpc_server", f)
<1> DEFINE k == "rpc_server"
<1>1. PICK V, p : /\ Good(k, TRUE, {}, p, V) /\ rpc_server.steps = p \o <<TakeBindings>>
                  /\ \E l \in Seq(Res) : rpc_server.release = <<Bindings>> \o l /\ Held(k, V, l)
  BY ServerGood
<1>2. PICK l \in Seq(Res) : rpc_server.release = <<Bindings>> \o l /\ Held(k, V, l)
  BY <1>1
<1>3. /\ k \in ProgKinds /\ k \notin LatKinds /\ k \notin DmaKinds /\ k \notin KernKinds
         /\ k \notin KeepKinds
      /\ Main(k) = rpc_server
  BY DEF ProgKinds, LatKinds, DmaKinds, KernKinds, DisKinds, SegKinds, KeepKinds,
      NullKinds, Main
<1>4. Program(k) = p \o <<TakeBindings>> /\ Release(k) = <<Bindings>> \o l
  <2>1. Program(k) = Main(k).steps /\ Release(k) = Main(k).release
    BY <1>3, ProgramIs
  <2> QED BY <1>1, <1>2, <1>3, <2>1, Zenon
<1>5. p \in Seq(Steps)
  BY <1>1 DEF Good
<1> DEFINE n == Len(p)
<1>6. PICK g \in [1..(n + 1) -> SUBSET Res] :
         /\ g[1] = {} /\ g[n + 1] = V
         /\ \A i \in 1..n : StepOk(k, TRUE, g, p[i], i, n)
  BY <1>1 DEF Good
<1>7. Joins(Program(k), p, <<TakeBindings>>)
  BY <1>4, <1>5, TakeBindingsIs, Joined
<1>8. /\ n \in Nat /\ Program(k) \in Seq(Steps) /\ Len(Program(k)) = n + 1
         /\ Program(k)[n + 1] = TakeBindings
      /\ \A i \in 1..n : Program(k)[i] = p[i]
  <2>1. Len(<<TakeBindings>>) = 1 /\ <<TakeBindings>>[1] = TakeBindings
    BY TakeBindingsIs, LoneStep
  <2>2. n \in Nat
    BY <1>5
  <2> QED BY <1>7, <2>1, <2>2 DEF Joins
<1> DEFINE f == [i \in 1..(n + 2) |-> IF i <= n + 1 THEN g[i] ELSE V]
<1> HIDE DEF k
<1>9. f \in [1..(n + 2) -> SUBSET Res] /\ f[1] = {} /\ f[n + 1] = V /\ f[n + 2] = V
      /\ \A i \in 1..(n + 1) : f[i + 0] = g[i]
  <2>1. g[n + 1] \in SUBSET Res
    BY <1>6, <1>8
  <2> QED BY <1>6, <1>8, <2>1
<1> HIDE DEF f
<1>10. ASSUME NEW i \in 1..n PROVE StepOk(k, Built(i), f, Program(k)[i], i, n + 1)
  <2>1. StepOk(k, TRUE, g, p[i], i, n)
    BY <1>6
  <2>2. p[i] \in Steps /\ i \in Nat /\ n \in Nat /\ 0 \in Nat /\ n + 1 \in Nat /\ n + 0 <= n + 1
        /\ i + 0 = i
    BY <1>5, <1>8
  <2>3. StepOk(k, TRUE, f, p[i], i + 0, n + 1)
    BY <1>9, <2>1, <2>2, StepOkMoves
  <2>4. Program(k)[i] = p[i] /\ k \notin LatKinds
    BY <1>3, <1>8 DEF k
  <2>5. StepOk(k, TRUE, f, p[i], i, n + 1)
    BY <2>2, <2>3
  <2>6. StepOk(k, Built(i), f, p[i], i, n + 1)
    BY <2>4, <2>5, BuiltElsewhere
  <2> QED BY <2>4, <2>6
<1>11. TakesBindings(k, f, n + 1)
  <2>1. n + 1 + 1 = n + 2
    BY <1>8
  <2> QED BY <1>8, <1>9, <2>1 DEF TakesBindings, TakeBindings, k
<1>12. \A i \in 1..Len(Program(k)) : StepOk(k, Built(i), f, Program(k)[i], i, Len(Program(k)))
      \/ TakesBindings(k, f, i)
  <2>1. \A i \in 1..(n + 1) : i \in 1..n \/ i = n + 1
    BY <1>8
  <2> QED BY <1>8, <1>10, <1>11, <2>1
<1>13. Final(k) = n + 2
  BY <1>8 DEF Final
<1>14. Release(k) \in Seq(Res) /\ Bindings \in Elems(Release(k))
  BY <1>4, ConsSeq, ConsElems, NoneRes
<1>15. Frees(k, "release", At(k, V), V, Release(k))
  <2>1. Frees(k, "release", At(k, V), V, l)
    BY <1>2 DEF Held
  <2>2. Bindings \in Conditional /\ Bindings[1] \notin InMemory
    BY DEF Bindings, R, Conditional, InMemory
  <2>3. Bindings \notin V
    BY <1>2, OwnRes DEF Held
  <2> QED BY <1>4, <2>1, <2>2, <2>3, NoneRes, FreesSkip
<1>16. IsTrace(k, f)
  BY <1>3, <1>8, <1>9, <1>12, <1>13, <1>14, <1>15 DEF IsTrace, k
<1> QED BY <1>16 DEF k

-----------------------------------------------------------------------------
(* examples/integrity *)

Regroup4(a, b, c, d) == ((a \o b) \o c) \o d = a \o (b \o (c \o d)) /\ (a \o b) \o c \in Seq(Res)

\* Four lists of releases
LEMMA Regroups4 ==
    ASSUME NEW a \in Seq(Res), NEW b \in Seq(Res), NEW c \in Seq(Res), NEW d \in Seq(Res)
    PROVE  Regroup4(a, b, c, d)
<1> DEFINE x == a \o b
           y == c \o d
<1>1. x \in Seq(Res) /\ y \in Seq(Res)
  BY CatSeq
<1> HIDE DEF x, y
<1>2. Regroup(a, b, y) /\ Regroup(x, c, d)
  BY <1>1, Regroups
<1>3. (a \o b) \o y = a \o (b \o y) /\ (x \o c) \o d = x \o (c \o d) /\ x \o c \in Seq(Res)
  BY <1>2, Zenon DEF Regroup
<1> QED BY <1>3, Zenon DEF x, y, Regroup4

Regroup5(a, b, c, d, e) == (((a \o b) \o c) \o d) \o e = a \o (b \o (c \o (d \o e)))

\* Five lists of releases
LEMMA Regroups5 ==
    ASSUME NEW a \in Seq(Res), NEW b \in Seq(Res), NEW c \in Seq(Res), NEW d \in Seq(Res),
           NEW e \in Seq(Res)
    PROVE  Regroup5(a, b, c, d, e)
<1> DEFINE x == (a \o b) \o c
           y == d \o e
<1>1. y \in Seq(Res)
  BY CatSeq
<1> HIDE DEF y
<1>2. Regroup4(a, b, c, y)
  BY <1>1, Regroups4
<1>3. x \in Seq(Res)
  BY <1>2 DEF Regroup4
<1> HIDE DEF x
<1>4. Regroup(x, d, e)
  BY <1>3, Regroups
<1> QED BY <1>2, <1>4, Zenon DEF x, y, Regroup, Regroup4, Regroup5

\* A queue, or a window, is taken.
LEMMA PlainRests ==
    ASSUME NEW k, NEW S, NEW x \in {"queues", "q0", "q1", "q2", "window", "fp"},
           ProgramRests(k, FALSE, S)
    PROVE  ProgramRests(k, FALSE, S \union {loc(x)})
BY DEF ProgramRests, var, loc, R

\* create_queue
LEMMA CreateQueue ==
    ASSUME NEW k \in ProgKinds, NEW b, Undo(k, b) = "release", NEW x \in {"q0", "q1", "q2"},
           NEW S, NEW u, Held(k, S, u), loc(x) \notin S
    PROVE  Good(k, b, S, create_queue(x, u), S \union {loc(x)})
<1>1. loc(x) \in Own /\ ProgramRests(k, FALSE, S \union {loc(x)})
  <2>1. x \in Pointers \ {"sisci"} /\ x \in {"queues", "q0", "q1", "q2", "window", "fp"}
    BY DEF Pointers
  <2> QED BY <2>1, OwnIs, PlainRests DEF Held
<1>2. Good(k, b, S, Get(loc(x), u), S \union {loc(x)})
      /\ Held(k, S \union {loc(x)}, <<loc(x)>> \o u)
  BY <1>1, HeldTake
<1>3. Good(k, b, S \union {loc(x)}, Check(<<loc(x)>> \o u), S \union {loc(x)})
  BY <1>2, HeldCheck
<1> QED BY <1>2, <1>3, GoodCat DEF create_queue, create_buffer, remove_buffer

\* identify_controller and identify_namespace of the integrity example
LEMMA IdentifyGood ==
    ASSUME NEW k \in ProgKinds, k \notin KeepKinds, NEW b, Undo(k, b) = "release",
           NEW S, NEW u, Held(k, S, u), loc("window") \notin S
    PROVE  Good(k, b, S, identify(u), S)
<1> DEFINE T == S \union {loc("window")}
<1>1. loc("window") \in Own /\ ProgramRests(k, FALSE, T)
  <2>1. "window" \in Pointers \ {"sisci"}
        /\ "window" \in {"queues", "q0", "q1", "q2", "window", "fp"}
    BY DEF Pointers
  <2> QED BY <2>1, OwnIs, PlainRests DEF Held
<1>2. Good(k, b, S, Get(loc("window"), u), T) /\ Held(k, T, <<loc("window")>> \o u)
  BY <1>1, HeldTake
<1>3. Good(k, b, T, Drop(<<loc("window")>>), S)
  BY <1>1, DropOne DEF Held
<1> HIDE DEF T
<1>4. Good(k, b, T, Check(<<loc("window")>> \o u), T)
  BY <1>2, HeldCheck
<1> QED BY <1>2, <1>3, <1>4, GoodCat3 DEF identify, create_buffer

\* The queues of the integrity example
LEMMA RequestQueues ==
    ASSUME NEW k \in ProgKinds, NEW b, Undo(k, b) = "release", NEW S, NEW u, Held(k, S, u),
           \A x \in {"queues", "q0", "q1", "q2"} : loc(x) \notin S
    PROVE  \E V : Good(k, b, S, request_queues(u), V) /\ Held(k, V, remove_queues(2) \o u)
<1> DEFINE a  == loc("queues")
           q0 == loc("q0")
           q1 == loc("q1")
           q2 == loc("q2")
           A  == S \union {a}
           A0 == A \union {q0}
           A1 == A \union {q1}
           A2 == A \union {q2}
           A12 == A2 \union {q1}
           A01 == A0 \union {q1}
           V  == A01 \union {q2}
<1>1. /\ a \in Own /\ q0 \in Own /\ q1 \in Own /\ q2 \in Own
      /\ a \in Res /\ q0 \in Res /\ q1 \in Res /\ q2 \in Res /\ u \in Seq(Res)
  BY OwnIs, OwnRes DEF Pointers, Held
<1>2. a # q0 /\ a # q1 /\ a # q2 /\ q0 # q1 /\ q0 # q2 /\ q1 # q2
  BY DEF loc, R
<1>3. /\ a \notin S /\ q0 \notin A /\ q1 \notin A /\ q2 \notin A /\ q0 \notin A1 /\ q1 \notin A0
         /\ q1 \notin A2
      /\ q0 \notin A12 /\ q2 \notin A01
      /\ A01 = A1 \union {q0} /\ V = A12 \union {q0}
  BY <1>2
<1>4. /\ ProgramRests(k, FALSE, A) /\ ProgramRests(k, FALSE, A0) /\ ProgramRests(k, FALSE, A1)
      /\ ProgramRests(k, FALSE, A2) /\ ProgramRests(k, FALSE, A12) /\ ProgramRests(k, FALSE, A01)
      /\ ProgramRests(k, FALSE, V)
  <2>1. ProgramRests(k, FALSE, A)
    BY PlainRests DEF Held
  <2> HIDE DEF A
  <2>2. ProgramRests(k, FALSE, A0) /\ ProgramRests(k, FALSE, A1) /\ ProgramRests(k, FALSE, A2)
    BY <2>1, PlainRests
  <2> HIDE DEF A0, A2
  <2>3. ProgramRests(k, FALSE, A12) /\ ProgramRests(k, FALSE, A01)
    BY <2>2, PlainRests
  <2> HIDE DEF A01
  <2>4. ProgramRests(k, FALSE, V)
    BY <2>3, PlainRests
  <2> QED BY <2>1, <2>2, <2>3, <2>4
<1>5. Good(k, b, S, Get(a, u), A) /\ Held(k, A, <<a>> \o u)
  BY <1>1, <1>3, <1>4, HeldTake
<1> HIDE DEF A
<1> DEFINE ua == <<a>> \o u
<1>6. Held(k, A0, <<q0>> \o ua) /\ Held(k, A1, <<q1>> \o ua) /\ Held(k, A2, <<q2>> \o ua)
  BY <1>1, <1>3, <1>4, <1>5, HeldMore
<1> HIDE DEF A0, A1, A2
<1>7. Held(k, A01, <<q0>> \o (<<q1>> \o ua)) /\ Held(k, A12, <<q1>> \o (<<q2>> \o ua))
  BY <1>1, <1>3, <1>4, <1>6, HeldMore
<1> HIDE DEF A01, A12
<1>8. Held(k, V, <<q0>> \o (<<q1>> \o (<<q2>> \o ua)))
  BY <1>1, <1>3, <1>4, <1>7, HeldMore
<1>9. /\ remove_queues(0) \o u = <<q0>> \o ua /\ remove_queues(1) \o u = <<q0>> \o (<<q1>> \o ua)
      /\ remove_queues(2) \o u = <<q0>> \o (<<q1>> \o (<<q2>> \o ua))
  <2> DEFINE x0 == <<q0>>
             x1 == <<q1>>
             x2 == <<q2>>
             xa == <<a>>
  <2>1. x0 \in Seq(Res) /\ x1 \in Seq(Res) /\ x2 \in Seq(Res) /\ xa \in Seq(Res)
    BY <1>1, LoneSeq
  <2>2. /\ remove_queues(0) = ((x0 \o <<>>) \o <<>>) \o xa
        /\ remove_queues(1) = ((x0 \o x1) \o <<>>) \o xa
        /\ remove_queues(2) = ((x0 \o x1) \o x2) \o xa
    BY DEF remove_queues, remove_queue, remove_buffer
  <2> HIDE DEF x0, x1, x2, xa
  <2>3. x0 \o <<>> = x0 /\ (x0 \o x1) \o <<>> = x0 \o x1
    BY <2>1, CatSeq, CatNil
  <2>4. (x0 \o xa) \o u = x0 \o (xa \o u)
    <3>1. Regroup(x0, xa, u)
      BY <1>1, <2>1, Regroups
    <3> QED BY <3>1, Zenon DEF Regroup
  <2>5. ((x0 \o x1) \o xa) \o u = x0 \o (x1 \o (xa \o u))
    <3>1. Regroup4(x0, x1, xa, u)
      BY <1>1, <2>1, Regroups4
    <3> QED BY <3>1, Zenon DEF Regroup4
  <2>6. (((x0 \o x1) \o x2) \o xa) \o u = x0 \o (x1 \o (x2 \o (xa \o u)))
    <3>1. Regroup5(x0, x1, x2, xa, u)
      BY <1>1, <2>1, Regroups5
    <3> QED BY <3>1, Zenon DEF Regroup5
  <2>7. /\ remove_queues(0) \o u = x0 \o (xa \o u)
           /\ remove_queues(1) \o u = x0 \o (x1 \o (xa \o u))
        /\ remove_queues(2) \o u = x0 \o (x1 \o (x2 \o (xa \o u)))
    BY <2>2, <2>3, <2>4, <2>5, <2>6, Zenon
  <2> QED BY <2>7 DEF x0, x1, x2, xa
<1>10. Good(k, b, A, create_queue("q0", <<a>> \o u), A0)
  BY <1>3, <1>5, CreateQueue DEF A0
<1>11. Good(k, b, A0, create_queue("q1", remove_queues(0) \o u), A01)
  BY <1>3, <1>6, <1>9, CreateQueue DEF A01
<1>12. Good(k, b, A01, create_queue("q2", remove_queues(1) \o u), V)
  BY <1>3, <1>7, <1>9, CreateQueue
<1> HIDE DEF V, a
<1>13. Good(k, b, S, Check(u), S)
  BY HeldCheck
<1> DEFINE y == Check(u) \o Check(u) \o Get(a, u)
<1>14. Good(k, b, S, y, A)
  BY <1>5, <1>13, GoodCat3
<1> HIDE DEF y
<1>15. Good(k, b, S,
      y \o create_queue("q0", <<a>> \o u) \o create_queue("q1", remove_queues(0) \o u)
                       \o create_queue("q2", remove_queues(1) \o u), V)
  BY <1>10, <1>11, <1>12, <1>14, GoodCat4
<1>16. request_queues(u) = y \o create_queue("q0", <<a>> \o u)
                             \o create_queue("q1", remove_queues(0) \o u)
                             \o create_queue("q2", remove_queues(1) \o u)
  BY DEF request_queues, y, a
<1>17. Held(k, V, remove_queues(2) \o u)
  BY <1>8, <1>9 DEF a
<1> QED BY <1>15, <1>16, <1>17

\* integrity/integrity.c
LEMMA IntegrityGood ==
    \E V : Good("integrity", TRUE, {}, integrity.steps, V)
          /\ Held("integrity", V, integrity.release)
<1> DEFINE k == "integrity"
           f == loc("fp")
           c == loc("ctrl")
           m == loc("aq_mem")
           a == loc("aq")
           b == loc("buffer")
           F == {f}
           C == F \union {c}
           M == C \union {m}
           A == M \union {a}
           B == A \union {b}
           CB == C \union {b}
           MB == CB \union {m}
           uc == locs_of(<<"ctrl", "fp">>)
           um == locs_of(<<"aq_mem", "ctrl", "fp">>)
           ua == locs_of(<<"aq", "aq_mem", "ctrl", "fp">>)
           out == locs_of(<<"aq", "aq_mem", "buffer", "ctrl", "fp">>) \o <<SISCI>>
<1>1. /\ k \in ProgKinds /\ k \notin KeepKinds /\ Undo(k, TRUE) = "release"
      /\ f \in Own /\ c \in Own /\ m \in Own /\ a \in Own /\ b \in Own
      /\ f \in Res /\ c \in Res /\ m \in Res /\ a \in Res /\ b \in Res /\ <<SISCI>> \in Seq(Res)
  BY OwnIs, OwnRes, ProgBase DEF ProgKinds, LatKinds, KeepKinds, NullKinds, Undo,
      Pointers
<1>2. /\ ProgramRests(k, FALSE, F) /\ ProgramRests(k, FALSE, C) /\ ProgramRests(k, FALSE, M)
         /\ ProgramRests(k, FALSE, A)
      /\ ProgramRests(k, FALSE, B) /\ ProgramRests(k, FALSE, CB) /\ ProgramRests(k, FALSE, MB)
  BY DEF ProgramRests, var, loc, R
<1>3. /\ c \notin F /\ m \notin C /\ a \notin M /\ b \notin A /\ b \notin C /\ m \notin CB
         /\ a \notin MB
      /\ B = MB \union {a} /\ F = {} \union {f}
      /\ loc("window") \notin B /\ \A x \in {"queues", "q0", "q1", "q2"} : loc(x) \notin B
  BY DEF loc, R
<1>4. uc = <<c, f>> /\ um = <<m, c, f>> /\ ua = <<a, m, c, f>>
      /\ out = <<a, m, b, c, f>> \o <<SISCI>>
  BY DEF locs_of
<1> HIDE DEF k, f, c, m, a, b
<1>5. uc = <<c>> \o <<f>>
  BY <1>1, <1>4, Pairs
<1>6. um = <<m>> \o uc
  <2>1. <<m, c, f>> = <<m>> \o <<c, f>>
    BY <1>1
  <2> HIDE DEF um, uc
  <2> QED BY <2>1, <1>4
<1>7. ua = <<a>> \o um
  <2>1. <<a, m, c, f>> = <<a>> \o <<m, c, f>>
    BY <1>1
  <2> HIDE DEF um, ua
  <2> QED BY <2>1, <1>4
<1> DEFINE s  == <<SISCI>>
           w1 == <<f>> \o s
           w2 == <<c>> \o w1
           w3 == <<b>> \o w2
           w4 == <<m>> \o w3
<1>8. out = <<a>> \o w4
  <2>1. <<a, m, b, c, f>> = <<a>> \o <<m, b, c, f>>
    BY <1>1
  <2>2. <<m, b, c, f>> = <<m>> \o <<b, c, f>>
    BY <1>1
  <2>3. <<b, c, f>> = <<b>> \o <<c, f>>
    BY <1>1
  <2>4. <<a>> \in Seq(Res) /\ <<m>> \in Seq(Res) /\ <<b>> \in Seq(Res) /\ <<c, f>> \in Seq(Res)
        /\ s \in Seq(Res)
    BY <1>1
  <2>5. <<b, c, f>> \in Seq(Res) /\ <<m, b, c, f>> \in Seq(Res)
    BY <1>1
  <2> DEFINE xa == <<a>>
             xm == <<m>>
             xb == <<b>>
             t2 == <<c, f>>
             t3 == <<b, c, f>>
             t4 == <<m, b, c, f>>
  <2>6. t2 \o s = <<c>> \o (<<f>> \o s)
    BY <1>1, PairCat
  <2> HIDE DEF xa, xm, xb, t2, t3, t4, s
  <2>7. Regroup(xa, t4, s) /\ Regroup(xm, t3, s) /\ Regroup(xb, t2, s)
    BY <2>4, <2>5, Regroups DEF xa, xm, xb, t2, t3, t4
  <2>8. (xa \o t4) \o s = xa \o (t4 \o s) /\ (xm \o t3) \o s = xm \o (t3 \o s)
        /\ (xb \o t2) \o s = xb \o (t2 \o s)
    BY <2>7, Zenon DEF Regroup
  <2>9. <<a, m, b, c, f>> = xa \o t4 /\ t4 = xm \o t3 /\ t3 = xb \o t2
    BY <2>1, <2>2, <2>3 DEF xa, xm, xb, t2, t3, t4
  <2>10. <<a, m, b, c, f>> \o s = xa \o (xm \o (xb \o (t2 \o s)))
    BY <2>8, <2>9, Zenon
  <2>11. out = <<a, m, b, c, f>> \o s
    BY <1>4 DEF s
  <2> QED BY <2>6, <2>10, <2>11, Zenon DEF xa, xm, xb
<1> HIDE DEF uc, um, ua, out, F
<1>9. Good(k, TRUE, {}, Get(f, <<>>), F) /\ Held(k, F, <<f>>)
  <2>1. <<f>> = <<f>> \o <<>>
    BY <1>1, LoneSeq
  <2>2. Good(k, TRUE, {}, Get(f, <<>>), F) /\ Held(k, F, <<f>> \o <<>>)
    BY <1>1, <1>2, <1>3, HeldNone, HeldTake
  <2> QED BY <2>1, <2>2
<1>10. Good(k, TRUE, F, Check(<<f>>), F) /\ Good(k, TRUE, F, SciInit, F)
  BY <1>1, <1>2, <1>9, HeldCheck, SciInitGood DEF Held
<1>11. Held(k, F, w1)
  BY <1>1, <1>2, <1>3, HeldNone, HeldMore
<1> HIDE DEF w1
<1>12. Good(k, TRUE, F, Get(c, <<f>>), C) /\ Held(k, C, uc) /\ Held(k, C, w2)
  BY <1>1, <1>2, <1>3, <1>5, <1>9, <1>11, HeldTake, HeldMore
<1> HIDE DEF C, w2
<1>13. Good(k, TRUE, C, Get(m, uc), M) /\ Held(k, M, um)
  BY <1>1, <1>2, <1>3, <1>6, <1>12, HeldTake
<1>14. Held(k, CB, w3)
  BY <1>1, <1>2, <1>3, <1>12, HeldMore
<1> HIDE DEF CB, w3, M
<1>15. Held(k, MB, w4)
  BY <1>1, <1>2, <1>3, <1>14, HeldMore
<1>16. Good(k, TRUE, M, Get(a, um), A) /\ Held(k, A, ua)
  BY <1>1, <1>2, <1>3, <1>7, <1>13, HeldTake
<1> HIDE DEF MB, w4, A
<1>17. Good(k, TRUE, A, Get(b, ua), B)
  BY <1>1, <1>2, <1>3, <1>16, HeldTake
<1>18. Held(k, B, out)
  BY <1>1, <1>2, <1>3, <1>8, <1>15, HeldMore
<1> HIDE DEF B
<1>19. Good(k, TRUE, B, identify(out), B)
  BY <1>1, <1>3, <1>18, IdentifyGood
<1>20. PICK V : Good(k, TRUE, B, request_queues(out), V) /\ Held(k, V, remove_queues(2) \o out)
  BY <1>1, <1>3, <1>18, RequestQueues
<1> DEFINE x == Get(f, <<>>) \o Check(<<f>>) \o SciInit \o Get(c, <<f>>)
           y == x \o Get(m, uc) \o Get(a, um) \o Get(b, ua)
<1>21. Good(k, TRUE, {}, x, C)
  BY <1>9, <1>10, <1>12, GoodCat4
<1> HIDE DEF x
<1>22. Good(k, TRUE, {}, y, B)
  BY <1>13, <1>16, <1>17, <1>21, GoodCat4
<1> HIDE DEF y
<1>23. Good(k, TRUE, {}, y \o identify(out) \o identify(out) \o request_queues(out), V)
  BY <1>19, <1>20, <1>22, GoodCat4
<1>24. /\ integrity.steps = y \o identify(out) \o identify(out) \o request_queues(out)
       /\ integrity.release = remove_queues(2) \o out
  BY DEF integrity, Prog, create_buffer, x, y, f, c, m, a, b, uc, um, ua, out, SISCI
<1> QED BY <1>20, <1>23, <1>24 DEF k

-----------------------------------------------------------------------------
(* examples/identify in user space *)

\* What is released a second time when the lookup of addresses fails is a known fault.
LEMMA FreesKnown ==
    ASSUME NEW k \in ProgKinds, NEW at, NEW S \in SUBSET Own, NEW T, NEW r \in Own,
           NEW l \in Seq(Res),
           k = "id_user", loc("locked") \in at, loc("aq_mem") \notin at,
           ProgramRests(k, FALSE, S), S \ {r} = T, Frees(k, "release", at, T, l)
    PROVE  Frees(k, "release", at, S, <<r>> \o l)
<1>1. ("release" = "throw") = FALSE /\ "release" # "build"
  OBVIOUS
<1>2. Rests(k, FALSE, S)
  BY OwnRests
<1>3. Known(k, "release", at, S)
  BY <1>1 DEF Known
<1>4. r \in Res
  BY OwnRes
<1>5. Rests(k, "release" = "throw", S)
  BY <1>1, <1>2
<1> QED BY <1>3, <1>4, <1>5, FreesCons

\* identify/userspace.c: a failed look-up of addresses is a known fault.
LEMMA IdUserGood ==
    \E V : Good("id_user", TRUE, {}, id_user.steps, V) /\ Held("id_user", V, id_user.release)
<1> DEFINE k == "id_user"
           f == loc("fd")
           r == loc("registers")
           c == loc("ctrl")
           p == loc("aq_ptr")
           l == loc("locked")
           m == loc("aq_mem")
           a == loc("aq")
           F == {f}
           G == F \union {r}
           C == G \union {c}
           P == C \union {p}
           L == P \union {l}
           M == L \union {m}
           A == M \union {a}
           ur == locs_of(<<"registers", "fd">>)
           uc == locs_of(<<"ctrl", "registers", "fd">>)
           lp == locs_of(<<"locked", "aq_ptr">>)
           out == lp \o uc
           rel == locs_of(<<"aq", "aq_mem", "locked", "aq_ptr", "ctrl", "registers", "fd">>)
<1>1. /\ k \in ProgKinds /\ Undo(k, TRUE) = "release" /\ k = "id_user" /\ k \notin LatKinds
      /\ f \in Own /\ r \in Own /\ c \in Own /\ p \in Own /\ l \in Own /\ m \in Own /\ a \in Own
      /\ \A S : At(k, S) = S
  BY OwnIs DEF ProgKinds, LatKinds, KeepKinds, At, Undo, Pointers
<1>2. f \in Res /\ r \in Res /\ c \in Res /\ p \in Res /\ l \in Res /\ m \in Res /\ a \in Res
  BY <1>1, OwnRes
<1>3. /\ ProgramRests(k, FALSE, F) /\ ProgramRests(k, FALSE, G) /\ ProgramRests(k, FALSE, C)
         /\ ProgramRests(k, FALSE, P)
      /\ ProgramRests(k, FALSE, L) /\ ProgramRests(k, FALSE, M) /\ ProgramRests(k, FALSE, A)
  BY DEF ProgramRests, var, loc, R
<1>4. /\ r \notin F /\ c \notin G /\ p \notin C /\ l \notin P /\ m \notin L /\ a \notin M
         /\ l \notin C
      /\ F = {} \union {f} /\ l \in L
  BY DEF loc, R
<1>5. /\ ur = <<r, f>> /\ uc = <<c, r, f>> /\ lp = <<l, p>> /\ rel = <<a, m, l, p, c, r, f>>
  BY DEF locs_of
<1>0. k = "id_user" /\ l = loc("locked") /\ m = loc("aq_mem")
  OBVIOUS
<1> HIDE DEF k, f, r, c, p, l, m, a
<1>6. ur = <<r>> \o <<f>>
  BY <1>2, <1>5, Pairs
<1>7. uc = <<c>> \o ur
  <2>1. <<c, r, f>> = <<c>> \o <<r, f>>
    BY <1>2
  <2> HIDE DEF uc, ur
  <2> QED BY <2>1, <1>5
<1>8. uc \in Seq(Res)
  <2>1. <<c, r, f>> \in Seq(Res)
    BY <1>2
  <2> HIDE DEF uc
  <2> QED BY <2>1, <1>5
<1> HIDE DEF uc, ur
<1>9. out = <<l>> \o (<<p>> \o uc) /\ lp \o out = <<l>> \o (<<p>> \o out) /\ out \in Seq(Res)
      /\ lp \in Seq(Res)
  <2>0. <<l, p>> \in Seq(Res)
    BY <1>2
  <2>1. lp \in Seq(Res) /\ <<l, p>> \o uc = <<l>> \o (<<p>> \o uc)
    <3> HIDE DEF lp
    <3>1. lp \in Seq(Res)
      BY <1>5, <2>0
    <3>2. <<l, p>> \o uc = <<l>> \o (<<p>> \o uc)
      BY <1>2, <1>8, PairCat
    <3> QED BY <3>1, <3>2
  <2>2. out \in Seq(Res)
    BY <1>8, <2>1, CatSeq
  <2> HIDE DEF out
  <2>3. <<l, p>> \o out = <<l>> \o (<<p>> \o out)
    BY <1>2, <2>2, PairCat
  <2> HIDE DEF lp
  <2> QED BY <1>5, <2>1, <2>2, <2>3, Zenon DEF out
<1>10. rel = <<a>> \o (<<m>> \o out)
  <2>1. <<a, m, l, p, c, r, f>> = <<a>> \o <<m, l, p, c, r, f>>
    BY <1>2
  <2>2. <<m, l, p, c, r, f>> = <<m>> \o <<l, p, c, r, f>>
    BY <1>2
  <2>3. <<l, p, c, r, f>> = <<l>> \o <<p, c, r, f>>
    BY <1>2
  <2>4. <<p, c, r, f>> = <<p>> \o <<c, r, f>>
    BY <1>2
  <2> HIDE DEF out, rel, lp
  <2> QED BY <1>5, <1>9, <2>1, <2>2, <2>3, <2>4, Zenon
<1> HIDE DEF F, lp, out, rel
<1>11. Held(k, {}, <<>>)
  BY <1>1, HeldNone
<1>12. Good(k, TRUE, {}, Check(<<>>), {})
  BY <1>1, <1>11, HeldCheck
<1>13. Good(k, TRUE, {}, Get(f, <<>>), F) /\ Held(k, F, <<f>>)
  <2>1. <<f>> = <<f>> \o <<>>
    BY <1>2, LoneSeq
  <2>2. Good(k, TRUE, {}, Get(f, <<>>), F) /\ Held(k, F, <<f>> \o <<>>)
    BY <1>1, <1>3, <1>4, <1>11, HeldTake
  <2> QED BY <2>1, <2>2
<1>14. Good(k, TRUE, F, Get(r, <<f>>), G) /\ Held(k, G, ur)
  BY <1>1, <1>3, <1>4, <1>6, <1>13, HeldTake
<1> HIDE DEF G
<1>15. Good(k, TRUE, G, Get(c, ur), C) /\ Held(k, C, uc)
  BY <1>1, <1>3, <1>4, <1>7, <1>14, HeldTake
<1>16. Good(k, TRUE, C, Check(uc), C)
  BY <1>1, <1>15, HeldCheck
<1> HIDE DEF C
<1>17. Good(k, TRUE, C, Get(p, uc), P) /\ Held(k, P, <<p>> \o uc)
  BY <1>1, <1>3, <1>4, <1>15, HeldTake
<1>18. P \ {p} = C /\ C \ {p} = C /\ C \ {l} = C
  BY <1>4
<1> HIDE DEF P
<1>19. Good(k, TRUE, P, Get(l, <<p>> \o uc), L) /\ Held(k, L, out)
  BY <1>1, <1>3, <1>4, <1>9, <1>17, HeldTake
<1>20. L \ {l} = P
  BY <1>4
<1> HIDE DEF L
<1>21. Good(k, TRUE, L, lookup_ioaddrs(lp \o out), L)
  <2>1. Frees(k, "release", L, C, uc) /\ C \in SUBSET Own /\ P \in SUBSET Own /\ L \in SUBSET Own
    BY <1>15, <1>17, <1>19 DEF Held
  <2>2. loc("locked") \in L /\ loc("aq_mem") \notin L
    BY <1>0, <1>4
  <2> DEFINE v1 == <<p>> \o uc
             v2 == <<l>> \o v1
             v3 == <<p>> \o v2
             v4 == <<l>> \o v3
  <2>3. Frees(k, "release", L, C, v1) /\ v1 \in Seq(Res)
    BY <1>1, <1>2, <1>3, <1>8, <1>18, <2>1, <2>2, FreesKnown, ConsSeq
  <2> HIDE DEF v1
  <2>4. Frees(k, "release", L, C, v2) /\ v2 \in Seq(Res)
    BY <1>1, <1>2, <1>3, <1>18, <2>1, <2>2, <2>3, FreesKnown, ConsSeq
  <2> HIDE DEF v2
  <2>5. Frees(k, "release", L, P, v3) /\ v3 \in Seq(Res)
    BY <1>1, <1>2, <1>3, <1>18, <2>1, <2>2, <2>4, FreesKnown, ConsSeq
  <2> HIDE DEF v3
  <2>6. Frees(k, "release", L, L, v4) /\ v4 \in Seq(Res)
    BY <1>1, <1>2, <1>3, <1>20, <2>1, <2>2, <2>5, FreesKnown, ConsSeq
  <2>7. v4 = lp \o out
    BY <1>9, Zenon DEF v1, v2, v3, v4
  <2> HIDE DEF v4
  <2>8. Frees(k, Undo(k, TRUE), At(k, L), L, lp \o out) /\ lp \o out \in Seq(Res)
    BY <1>1, <2>6, <2>7
  <2>9. L \in SUBSET Res /\ Rests(k, FALSE, L)
    BY <1>1, <1>3, <2>1, OwnRes, OwnRests
  <2> DEFINE w == lp \o out
  <2> HIDE DEF w
  <2>10. Good(k, TRUE, L, Check(w), L)
    BY <2>8, <2>9, GoodCheck DEF w
  <2> QED BY <2>10 DEF w, lookup_ioaddrs
<1>22. Good(k, TRUE, L, Get(m, out), M) /\ Held(k, M, <<m>> \o out)
  BY <1>1, <1>3, <1>4, <1>19, HeldTake
<1> HIDE DEF M
<1> DEFINE um == <<m>> \o out
<1>23. Good(k, TRUE, M, execute_identify(um), A) /\ Held(k, A, <<a>> \o um)
  BY <1>1, <1>3, <1>4, <1>22, ExecuteIdentify DEF a
<1> HIDE DEF A
<1> DEFINE x == Check(<<>>) \o Check(<<>>) \o Get(f, <<>>) \o Get(r, <<f>>)
           y == Check(uc) \o Get(p, uc) \o Get(l, <<p>> \o uc) \o lookup_ioaddrs(lp \o out)
<1>24. Good(k, TRUE, {}, x, G)
  BY <1>12, <1>13, <1>14, GoodCat4
<1>25. Good(k, TRUE, C, y, L)
  BY <1>16, <1>17, <1>19, <1>21, GoodCat4
<1> HIDE DEF x, y, um
<1>26. Good(k, TRUE, C, y \o Get(m, out) \o execute_identify(um), A)
  BY <1>22, <1>23, <1>25, GoodCat3
<1>27. identify_ctrl(uc) = y \o Get(m, out) \o execute_identify(um)
  BY DEF identify_ctrl, y, um, out, lp, p, l, m
<1>28. Good(k, TRUE, {}, x \o Get(c, ur) \o identify_ctrl(uc), A)
  <2>1. Good(k, TRUE, C, identify_ctrl(uc), A)
    BY <1>26, <1>27
  <2> QED BY <1>15, <1>24, <2>1, GoodCat3
<1>29. id_user.steps = x \o Get(c, ur) \o identify_ctrl(uc) /\ id_user.release = rel
  BY DEF id_user, Prog, pci_enable_device, pci_set_bus_master, pci_open_bar, x, f, r, c,
      ur, uc, rel
<1> QED BY <1>10, <1>23, <1>28, <1>29 DEF k, um

-----------------------------------------------------------------------------
(* examples/read-blocks *)

-----------------------------------------------------------------------------
(* Programs with one exit *)

\* l releases what is held of Z and U; what of U is not held has not been tried for.
Leave(k, Z, U, l) ==
    /\ l \in Seq(Res) /\ U \union Z \in SUBSET Own
    /\ \A at, S : /\ S \subseteq U \union Z /\ Z \subseteq S /\ ProgramRests(k, FALSE, S)
                     /\ U \cap at \subseteq S
                  => Frees(k, "release", at, S, l)

\* S is one of the sets l releases.
Stands(k, Z, U, S) == S \subseteq U \union Z /\ Z \subseteq S /\ ProgramRests(k, FALSE, S)

\* Nothing left rests on r.
Last(k, r, X) == \A S \in SUBSET X : ProgramRests(k, FALSE, S) => ProgramRests(k, FALSE, S \ {r})

\* One more variable at the exit
LEMMA LeaveMore ==
    ASSUME NEW k \in NullKinds, NEW Z, NEW U, NEW l, NEW x \in Pointers \ {"sisci"},
           Leave(k, Z, U, l), var(x) \notin U \union Z,
                 Last(k, var(x), (U \union Z) \union {var(x)})
    PROVE  Leave(k, Z, U \union {var(x)}, <<var(x)>> \o l)
<1> DEFINE r == var(x)
           W == U \union {r}
<1>1. k \in ProgKinds
  BY DEF NullKinds, ProgKinds
<1>2. r \in Own /\ r \in Res /\ r[1] = "var" /\ l \in Seq(Res) /\ U \union Z \in SUBSET Own
      /\ r \notin U /\ r \notin Z
      /\ r # R("seg", "sd") /\ r[1] \notin InMemory
  BY OwnIs, OwnRes DEF Leave, var, R, InMemory
<1> HIDE DEF r
<1>3. <<r>> \o l \in Seq(Res) /\ W \union Z \in SUBSET Own
  BY <1>2, ConsSeq
<1>4. ASSUME NEW at, NEW S, S \subseteq W \union Z, Z \subseteq S, ProgramRests(k, FALSE, S),
      W \cap at \subseteq S
      PROVE  Frees(k, "release", at, S, <<r>> \o l)
  <2> DEFINE T == S \ {r}
  <2>1. ProgramRests(k, FALSE, T)
    BY <1>4 DEF Last, r
  <2>2. T \subseteq U \union Z /\ Z \subseteq T /\ U \cap at \subseteq T
    BY <1>2, <1>4
  <2>3. Frees(k, "release", at, T, l)
    BY <2>1, <2>2 DEF Leave
  <2>4. S \in SUBSET Own /\ Rests(k, FALSE, S)
    BY <1>1, <1>3, <1>4, OwnRests
  <2>5. CASE r \in S
    <3>1. S = T \union {r} /\ r \notin T
      BY <2>5
    <3> HIDE DEF T
    <3>2. Rests(k, FALSE, T \union {r})
      BY <2>4, <3>1
    <3>3. Frees(k, "release", at, T \union {r}, <<r>> \o l)
      BY <1>2, <2>3, <3>1, <3>2, FreesHeld
    <3> QED BY <3>1, <3>3
  <2>6. CASE r \notin S
    <3>1. S = T /\ r \notin at
      BY <1>4, <2>6
    <3> HIDE DEF T
    <3>2. Frees(k, "release", at, S, l)
      BY <2>3, <3>1
    <3> QED BY <1>2, <2>6, <3>1, <3>2, FreesSkip
  <2> QED BY <2>5, <2>6
<1> QED BY <1>3, <1>4 DEF Leave, r

\* A variable is taken, or something is checked, with one way out.
LEMMA LeaveTake ==
    ASSUME NEW k \in NullKinds, NEW b, NEW Z, NEW U, NEW l, Leave(k, Z, U, l),
           NEW S, Stands(k, Z, U, S),
           NEW r \in Own, NEW V, V = S \union {r}, ProgramRests(k, FALSE, V)
    PROVE  Good(k, b, S, Get(r, l), V)
<1>1. k \in ProgKinds /\ Undo(k, b) = "release" /\ At(k, S) = S
  BY DEF NullKinds, ProgKinds, Undo, LatKinds, KeepKinds, At
<1>2. /\ r \in Res /\ S \in SUBSET Res /\ S \in SUBSET Own /\ S \union {r} \in SUBSET Own
         /\ l \in Seq(Res)
      /\ TakesOk(k, r) /\ Core({r}) = {r}
  BY OwnRes, PlainTakes DEF Leave, Stands
<1>3. Rests(k, FALSE, S \union {r})
  BY <1>1, <1>2, OwnRests DEF Stands
<1>4. Frees(k, "release", S, S, l)
  BY DEF Leave, Stands
<1>5. Rests(k, FALSE, S \union Core({r})) /\ Frees(k, Undo(k, b), At(k, S), S, l)
  BY <1>1, <1>2, <1>3, <1>4
<1>6. Good(k, b, S, Get(r, l), S \union Core({r}))
  BY <1>2, <1>5, GoodGet
<1> QED BY <1>2, <1>6

\* Checks with one way out: get_disk_info, create_queue_pair and read_and_dump
LEMMA LeaveCheck ==
    ASSUME NEW k \in NullKinds, NEW b, NEW Z, NEW U, NEW l, Leave(k, Z, U, l),
           NEW S, Stands(k, Z, U, S)
    PROVE  Good(k, b, S, Check(l), S) /\ Good(k, b, S, get_disk_info(l), S)
          /\ Good(k, b, S, create_queue_pair(l), S)
           /\ Good(k, b, S, read_and_dump(l), S)
<1>1. k \in ProgKinds /\ Undo(k, b) = "release" /\ At(k, S) = S
  BY DEF NullKinds, ProgKinds, Undo, LatKinds, KeepKinds, At
<1>2. S \in SUBSET Res /\ S \in SUBSET Own /\ l \in Seq(Res)
  BY OwnRes DEF Leave, Stands
<1>3. Rests(k, FALSE, S)
  BY <1>1, <1>2, OwnRests DEF Stands
<1>4. Frees(k, "release", S, S, l)
  BY DEF Leave, Stands
<1>5. Frees(k, Undo(k, b), At(k, S), S, l)
  BY <1>1, <1>4
<1>6. Good(k, b, S, Check(l), S)
  BY <1>2, <1>3, <1>5, GoodCheck
<1>7. Good(k, b, S, get_disk_info(l), S)
  BY <1>6, GoodCat DEF get_disk_info
<1>8. Good(k, b, S, create_queue_pair(l), S)
  BY <1>6, GoodCat3 DEF create_queue_pair
<1> QED BY <1>6, <1>7, <1>8 DEF read_and_dump

\* What the exits of read-blocks do last
LEMMA LeaveNone ==
    ASSUME NEW k \in NullKinds
    PROVE  Leave(k, {loc("fd")}, {}, <<loc("fd")>>) /\ Leave(k, {}, {}, <<SISCI>>)
<1>1. k \in ProgKinds
  BY DEF NullKinds, ProgKinds
<1> DEFINE f == loc("fd")
<1>2. f \in Own /\ f \in Res /\ <<f>> = <<f>> \o <<>> /\ <<f>> \in Seq(Res)
      /\ <<SISCI>> \in Seq(Res) /\ ProgramRests(k, FALSE, {f})
  <2>1. f \in Own /\ f \in Res
    BY OwnIs, OwnRes DEF Pointers
  <2>2. <<f>> = <<f>> \o <<>> /\ <<f>> \in Seq(Res)
    BY <2>1, LoneSeq
  <2>3. ProgramRests(k, FALSE, {f})
    BY DEF ProgramRests, var, loc, R
  <2> QED BY <1>1, <2>1, <2>2, <2>3, ProgBase
<1> HIDE DEF f
<1>3. Held(k, {} \union {f}, <<f>> \o <<>>) /\ Held(k, {}, <<SISCI>>)
  BY <1>1, <1>2, HeldNone, HeldMore
<1>4. Held(k, {f}, <<f>>)
  <2>1. {} \union {f} = {f}
    OBVIOUS
  <2> QED BY <1>2, <1>3, <2>1
<1>5. \A S : S \subseteq {} \union {f} /\ {f} \subseteq S => S = {f}
  OBVIOUS
<1>6. Leave(k, {f}, {}, <<f>>)
  <2>1. {} \union {f} \in SUBSET Own
    BY <1>2
  <2>2. \A at, S : S \subseteq {} \union {f} /\ {f} \subseteq S => Frees(k, "release", at, S, <<f>>)
    BY <1>4, <1>5 DEF Held
  <2> QED BY <1>2, <2>1, <2>2 DEF Leave
<1>7. Leave(k, {}, {}, <<SISCI>>)
  BY <1>2, <1>3 DEF Leave, Held
<1> QED BY <1>6, <1>7 DEF f

\* Lists of four and five, one by one
FourCat(b, c, d, e, l)    == <<b, c, d, e>> \o l = <<b>> \o (<<c>> \o (<<d>> \o (<<e>> \o l)))
FiveCat(a, b, c, d, e, l) == <<a, b, c, d,
      e>> \o l = <<a>> \o (<<b>> \o (<<c>> \o (<<d>> \o (<<e>> \o l))))

\* Lists of four before another
LEMMA FourCats ==
    ASSUME NEW b \in Res, NEW c \in Res, NEW d \in Res, NEW e \in Res, NEW l \in Seq(Res)
    PROVE  FourCat(b, c, d, e, l)
<1>2. <<b, c, d, e>> = <<b>> \o <<c, d, e>>
  OBVIOUS
<1>3. <<c, d, e>> = <<c>> \o <<d, e>>
  OBVIOUS
<1>4. <<b>> \in Seq(Res) /\ <<c>> \in Seq(Res) /\ <<d, e>> \in Seq(Res)
  OBVIOUS
<1>5. <<c, d, e>> \in Seq(Res)
  OBVIOUS
<1> DEFINE xb == <<b>>
           xc == <<c>>
           t2 == <<d, e>>
           t3 == <<c, d, e>>
<1>6. t2 \o l = <<d>> \o (<<e>> \o l)
  BY PairCat
<1> HIDE DEF xb, xc, t2, t3
<1>7. Regroup(xb, t3, l) /\ Regroup(xc, t2, l)
  BY <1>4, <1>5, Regroups DEF xb, xc, t2, t3
<1>8. (xb \o t3) \o l = xb \o (t3 \o l) /\ (xc \o t2) \o l = xc \o (t2 \o l)
  BY <1>7, Zenon DEF Regroup
<1>9. <<b, c, d, e>> = xb \o t3 /\ t3 = xc \o t2
  BY <1>2, <1>3 DEF xb, xc, t2, t3
<1>10. <<b, c, d, e>> \o l = xb \o (xc \o (t2 \o l))
  BY <1>8, <1>9, Zenon
<1> QED BY <1>6, <1>10, Zenon DEF xb, xc, FourCat

\* Lists of five before another
LEMMA FiveCats ==
    ASSUME NEW a \in Res, NEW b \in Res, NEW c \in Res, NEW d \in Res, NEW e \in Res,
           NEW l \in Seq(Res)
    PROVE  FiveCat(a, b, c, d, e, l)
<1> DEFINE xa == <<a>>
           t4 == <<b, c, d, e>>
<1>1. <<a, b, c, d, e>> = xa \o t4
  OBVIOUS
<1>2. xa \in Seq(Res) /\ t4 \in Seq(Res)
  OBVIOUS
<1>3. FourCat(b, c, d, e, l)
  BY FourCats
<1>4. t4 \o l = <<b>> \o (<<c>> \o (<<d>> \o (<<e>> \o l)))
  BY <1>3, Zenon DEF FourCat
<1> HIDE DEF xa, t4
<1>5. Regroup(xa, t4, l)
  BY <1>2, Regroups
<1>6. (xa \o t4) \o l = xa \o (t4 \o l)
  BY <1>5, Zenon DEF Regroup
<1> QED BY <1>1, <1>4, <1>6, Zenon DEF xa, FiveCat

\* read-blocks/module.c
LEMMA ReadModuleGood ==
    \E V : /\ Good("read_module", TRUE, {}, read_module.steps, V)
              /\ read_module.release \in Seq(Res)
           /\ Frees("read_module", "release", V, V, read_module.release)
<1> DEFINE k  == "read_module"
           f  == loc("fd")
           c  == var("ctrl")
           p  == var("aq_ptr")
           m  == var("aq_mem")
           a  == var("aq")
           qp == var("queue_ptr")
           bp == var("buffer_ptr")
           cq == var("cq_mem")
           sq == var("sq_mem")
           b  == var("buffer")
           Z  == {f}
           l1 == <<c>> \o <<f>>
           l2 == <<p>> \o l1
           l3 == <<m>> \o l2
           l4 == <<a>> \o l3
           l5 == <<qp>> \o l4
           l6 == <<bp>> \o l5
           l7 == <<cq>> \o l6
           l8 == <<sq>> \o l7
           l9 == <<b>> \o l8
           T1 == Z \union {c}
           T2 == T1 \union {p}
           T3 == T2 \union {m}
           T4 == T3 \union {a}
           T5 == T4 \union {bp}
           T6 == T5 \union {qp}
           T7 == T6 \union {sq}
           T8 == T7 \union {cq}
           T9 == T8 \union {b}
           U1 == {} \union {c}
           U2 == U1 \union {p}
           U3 == U2 \union {m}
           U4 == U3 \union {a}
           U5 == U4 \union {qp}
           U6 == U5 \union {bp}
           U7 == U6 \union {cq}
           U8 == U7 \union {sq}
           U9 == U8 \union {b}
<1>1. k \in NullKinds /\ k \in ProgKinds /\ Undo(k, TRUE) = "release" /\ k = "read_module"
  BY DEF NullKinds, ProgKinds, Undo, LatKinds
<1>2. /\ \A x \in {"ctrl", "aq_ptr", "aq_mem", "aq", "queue_ptr", "buffer_ptr", "cq_mem",
                   "sq_mem", "buffer"} :
            x \in Pointers \ {"sisci"} /\ var(x) \in Own /\ var(x) \in Res
      /\ f \in Own /\ f \in Res
  BY OwnIs, OwnRes DEF Pointers
<1>3. /\ c \notin {} \union Z /\ p \notin U1 \union Z /\ m \notin U2 \union Z
         /\ a \notin U3 \union Z
      /\ qp \notin U4 \union Z /\ bp \notin U5 \union Z /\ cq \notin U6 \union Z
            /\ sq \notin U7 \union Z
      /\ b \notin U8 \union Z
  BY DEF var, loc, R
<1>4. Last(k, c, ({} \union Z) \union {c}) /\ Last(k, p, (U1 \union Z) \union {p})
  BY DEF Last, ProgramRests, var, loc, R
<1>5. Last(k, m, (U2 \union Z) \union {m}) /\ Last(k, a, (U3 \union Z) \union {a})
  BY DEF Last, ProgramRests, var, loc, R
<1>6. Last(k, qp, (U4 \union Z) \union {qp}) /\ Last(k, bp, (U5 \union Z) \union {bp})
  BY DEF Last, ProgramRests, var, loc, R
<1>7. Last(k, cq, (U6 \union Z) \union {cq}) /\ Last(k, sq, (U7 \union Z) \union {sq})
      /\ Last(k, b, (U8 \union Z) \union {b})
  BY DEF Last, ProgramRests, var, loc, R
<1>9. /\ ProgramRests(k, FALSE, Z) /\ ProgramRests(k, FALSE, T1) /\ ProgramRests(k, FALSE, T2)
         /\ ProgramRests(k, FALSE, T3)
      /\ ProgramRests(k, FALSE, T4)
  BY DEF ProgramRests, var, loc, R
<1>10. /\ ProgramRests(k, FALSE, T5) /\ ProgramRests(k, FALSE, T6) /\ ProgramRests(k, FALSE, T7)
          /\ ProgramRests(k, FALSE, T8)
       /\ ProgramRests(k, FALSE, T9)
  BY DEF ProgramRests, var, loc, R
<1>8. /\ Stands(k, Z, U4, Z) /\ Stands(k, Z, U4, T1) /\ Stands(k, Z, U4, T2)
         /\ Stands(k, Z, U4, T3) /\ Stands(k, Z, U4, T4)
      /\ Stands(k, Z, U9, T4) /\ Stands(k, Z, U9, T5) /\ Stands(k, Z, U9, T6)
            /\ Stands(k, Z, U9, T7)
      /\ Stands(k, Z, U9, T8) /\ Stands(k, Z, U9, T9)
  BY <1>9, <1>10 DEF Stands
<1>11. Leave(k, Z, {}, <<f>>)
  BY <1>1, LeaveNone
<1> HIDE DEF k, f, Z
<1>12. Leave(k, Z, U1, l1)
  BY <1>1, <1>2, <1>3, <1>4, <1>11, LeaveMore
<1> HIDE DEF U1, l1
<1>13. Leave(k, Z, U2, l2)
  BY <1>1, <1>2, <1>3, <1>4, <1>12, LeaveMore
<1> HIDE DEF U2, l2
<1>14. Leave(k, Z, U3, l3)
  BY <1>1, <1>2, <1>3, <1>5, <1>13, LeaveMore
<1> HIDE DEF U3, l3
<1>15. Leave(k, Z, U4, l4)
  BY <1>1, <1>2, <1>3, <1>5, <1>14, LeaveMore
<1> HIDE DEF U4, l4
<1>16. Leave(k, Z, U5, l5)
  BY <1>1, <1>2, <1>3, <1>6, <1>15, LeaveMore
<1> HIDE DEF U5, l5
<1>17. Leave(k, Z, U6, l6)
  BY <1>1, <1>2, <1>3, <1>6, <1>16, LeaveMore
<1> HIDE DEF U6, l6
<1>18. Leave(k, Z, U7, l7)
  BY <1>1, <1>2, <1>3, <1>7, <1>17, LeaveMore
<1> HIDE DEF U7, l7
<1>19. Leave(k, Z, U8, l8)
  BY <1>1, <1>2, <1>3, <1>7, <1>18, LeaveMore
<1> HIDE DEF U8, l8
<1>20. Leave(k, Z, U9, l9)
  BY <1>1, <1>2, <1>3, <1>7, <1>19, LeaveMore
<1> HIDE DEF U9, l9
<1>21. /\ vars_of(<<"aq", "aq_mem", "aq_ptr", "ctrl">>) \o <<f>> = l4
       /\ prepare_and_read_leave \o l4 = l9
  <2>1. /\ vars_of(<<"aq", "aq_mem", "aq_ptr", "ctrl">>) = <<a, m, p, c>>
        /\ prepare_and_read_leave = <<b, sq, cq, bp, qp>>
    BY DEF vars_of, prepare_and_read_leave
  <2>2. /\ a \in Res /\ m \in Res /\ p \in Res /\ c \in Res /\ b \in Res /\ sq \in Res
           /\ cq \in Res /\ bp \in Res /\ qp \in Res
        /\ <<f>> \in Seq(Res) /\ l4 \in Seq(Res)
    BY <1>2, <1>11, <1>15 DEF Leave
  <2> HIDE DEF a, m, p, c, b, sq, cq, bp, qp
  <2>3. FourCat(a, m, p, c, <<f>>) /\ FiveCat(b, sq, cq, bp, qp, l4)
    BY <2>2, FourCats, FiveCats
  <2>4. <<a, m, p, c>> \o <<f>> = l4
    BY <2>3, Zenon DEF FourCat, l1, l2, l3, l4
  <2>5. <<b, sq, cq, bp, qp>> \o l4 = l9
    BY <2>3, Zenon DEF FiveCat, l5, l6, l7, l8, l9
  <2> QED BY <2>1, <2>4, <2>5
<1>22. Good(k, TRUE, {}, Get(f, <<>>), Z)
  <2>1. Held(k, {}, <<>>) /\ Z = {} \union {f} /\ f \notin {}
    BY <1>1, HeldNone DEF Z
  <2> QED BY <1>1, <1>2, <1>9, <2>1, HeldTake
<1>23. /\ c \in Own /\ p \in Own /\ m \in Own /\ a \in Own /\ bp \in Own /\ qp \in Own
          /\ sq \in Own /\ cq \in Own /\ b \in Own
  BY <1>2
<1> HIDE DEF c, p, m, a, bp, qp, sq, cq, b
<1>0. /\ T1 = Z \union {c} /\ T2 = T1 \union {p} /\ T3 = T2 \union {m} /\ T4 = T3 \union {a}
         /\ T5 = T4 \union {bp}
      /\ T6 = T5 \union {qp} /\ T7 = T6 \union {sq} /\ T8 = T7 \union {cq} /\ T9 = T8 \union {b}
  OBVIOUS
<1> HIDE DEF T1, T2, T3, T4, T5, T6, T7, T8, T9
<1>24. Good(k, TRUE, Z, Get(c, l4), T1) /\ Good(k, TRUE, T1, Get(p, l4), T2)
  <2>1. Good(k, TRUE, Z, Get(c, l4), T1)
    BY <1>0, <1>1, <1>8, <1>9, <1>15, <1>23, LeaveTake
  <2>2. Good(k, TRUE, T1, Get(p, l4), T2)
    BY <1>0, <1>1, <1>8, <1>9, <1>15, <1>23, LeaveTake
  <2> QED BY <2>1, <2>2
<1>25. Good(k, TRUE, T2, Get(m, l4), T3) /\ Good(k, TRUE, T3, Get(a, l4), T4)
  <2>1. Good(k, TRUE, T2, Get(m, l4), T3)
    BY <1>0, <1>1, <1>8, <1>9, <1>15, <1>23, LeaveTake
  <2>2. Good(k, TRUE, T3, Get(a, l4), T4)
    BY <1>0, <1>1, <1>8, <1>9, <1>15, <1>23, LeaveTake
  <2> QED BY <2>1, <2>2
<1>26. Good(k, TRUE, T4, get_disk_info(l4), T4)
  BY <1>1, <1>8, <1>9, <1>15, LeaveCheck
<1>27. Good(k, TRUE, T4, Get(bp, l9), T5) /\ Good(k, TRUE, T5, Get(qp, l9), T6)
  <2>1. Good(k, TRUE, T4, Get(bp, l9), T5)
    BY <1>0, <1>1, <1>8, <1>9, <1>10, <1>20, <1>23, LeaveTake
  <2>2. Good(k, TRUE, T5, Get(qp, l9), T6)
    BY <1>0, <1>1, <1>8, <1>9, <1>10, <1>20, <1>23, LeaveTake
  <2> QED BY <2>1, <2>2
<1>28. Good(k, TRUE, T6, Get(sq, l9), T7) /\ Good(k, TRUE, T7, Get(cq, l9), T8)
      /\ Good(k, TRUE, T8, Get(b, l9), T9)
  <2>1. Good(k, TRUE, T6, Get(sq, l9), T7)
    BY <1>0, <1>1, <1>8, <1>10, <1>20, <1>23, LeaveTake
  <2>2. Good(k, TRUE, T7, Get(cq, l9), T8)
    BY <1>0, <1>1, <1>8, <1>10, <1>20, <1>23, LeaveTake
  <2>3. Good(k, TRUE, T8, Get(b, l9), T9)
    BY <1>0, <1>1, <1>8, <1>10, <1>20, <1>23, LeaveTake
  <2> QED BY <2>1, <2>2, <2>3
<1>29. Good(k, TRUE, T9, create_queue_pair(l9), T9) /\ Good(k, TRUE, T9, read_and_dump(l9), T9)
  BY <1>1, <1>8, <1>10, <1>20, LeaveCheck
<1>30. Frees(k, "release", T9, T9, l9) /\ l9 \in Seq(Res)
  BY <1>8, <1>20 DEF Leave, Stands
<1> DEFINE x == Get(f, <<>>) \o Get(c, l4) \o Get(p, l4) \o Get(m, l4)
           y == Get(bp, l9) \o Get(qp, l9) \o Get(sq, l9) \o Get(cq, l9)
<1>31. Good(k, TRUE, {}, x, T3)
  BY <1>22, <1>24, <1>25, GoodCat4
<1>32. Good(k, TRUE, T4, y, T8)
  BY <1>27, <1>28, GoodCat4
<1> HIDE DEF x, y
<1>33. Good(k, TRUE, T4, y \o Get(b, l9) \o create_queue_pair(l9) \o read_and_dump(l9), T9)
  BY <1>28, <1>29, <1>32, GoodCat4
<1>34. prepare_and_read(l4) = y \o Get(b, l9) \o create_queue_pair(l9) \o read_and_dump(l9)
  BY <1>21 DEF prepare_and_read, y, bp, qp, sq, cq, b
<1>35. Good(k, TRUE, T4, prepare_and_read(l4), T9)
  BY <1>33, <1>34
<1>36. Good(k, TRUE, {}, x \o Get(a, l4) \o get_disk_info(l4) \o prepare_and_read(l4), T9)
  BY <1>25, <1>26, <1>31, <1>35, GoodCat4
<1>37. /\ read_module.steps = x \o Get(a, l4) \o get_disk_info(l4) \o prepare_and_read(l4)
       /\ read_module.release = l9
  BY <1>21 DEF read_module, Prog, x, f, c, p, m, a
<1> QED BY <1>30, <1>36, <1>37 DEF k

\* read-blocks/smartio.c
LEMMA ReadSmartioGood ==
    \E V : /\ Good("read_smartio", TRUE, {}, read_smartio.steps, V)
              /\ read_smartio.release \in Seq(Res)
           /\ Frees("read_smartio", "release", V, V, read_smartio.release)
<1> DEFINE k  == "read_smartio"
           c  == var("ctrl")
           m  == var("aq_mem")
           a  == var("aq")
           b  == var("buffer")
           sq == var("sq_mem")
           cq == var("cq_mem")
           Z  == {}
           U1 == {} \union {c}
           U2 == U1 \union {m}
           U3 == U2 \union {a}
           U4 == U3 \union {b}
           U5 == U4 \union {sq}
           U6 == U5 \union {cq}
           l1 == <<c>> \o <<SISCI>>
           l2 == <<m>> \o l1
           l3 == <<a>> \o l2
           l4 == <<b>> \o l3
           l5 == <<sq>> \o l4
           l6 == <<cq>> \o l5
           T1 == Z \union {c}
           T2 == T1 \union {m}
           T3 == T2 \union {a}
           T4 == T3 \union {b}
           T5 == T4 \union {cq}
           T6 == T5 \union {sq}
<1>1. k \in NullKinds /\ k \in ProgKinds /\ Undo(k, TRUE) = "release" /\ k = "read_smartio"
  BY DEF NullKinds, ProgKinds, Undo, LatKinds
<1>2. \A x \in {"ctrl", "aq_mem", "aq", "cq_mem", "sq_mem", "buffer"} :
         x \in Pointers \ {"sisci"} /\ var(x) \in Own /\ var(x) \in Res
  BY OwnIs, OwnRes DEF Pointers
<1>3. /\ c \notin {} \union Z /\ m \notin U1 \union Z /\ a \notin U2 \union Z
         /\ b \notin U3 \union Z
      /\ sq \notin U4 \union Z /\ cq \notin U5 \union Z
  BY DEF var, loc, R
<1>4. Last(k, c, ({} \union Z) \union {c}) /\ Last(k, m, (U1 \union Z) \union {m})
      /\ Last(k, a, (U2 \union Z) \union {a})
  BY DEF Last, ProgramRests, var, loc, R
<1>5. Last(k, b, (U3 \union Z) \union {b}) /\ Last(k, sq, (U4 \union Z) \union {sq})
      /\ Last(k, cq, (U5 \union Z) \union {cq})
  BY DEF Last, ProgramRests, var, loc, R
<1>6. /\ ProgramRests(k, FALSE, Z) /\ ProgramRests(k, FALSE, T1) /\ ProgramRests(k, FALSE, T2)
         /\ ProgramRests(k, FALSE, T3)
      /\ ProgramRests(k, FALSE, T4) /\ ProgramRests(k, FALSE, T5) /\ ProgramRests(k, FALSE, T6)
  BY DEF ProgramRests, var, loc, R
<1>7. /\ Stands(k, Z, U6, Z) /\ Stands(k, Z, U6, T1) /\ Stands(k, Z, U6, T2)
         /\ Stands(k, Z, U6, T3) /\ Stands(k, Z, U6, T4)
      /\ Stands(k, Z, U6, T5) /\ Stands(k, Z, U6, T6)
  BY <1>6 DEF Stands
<1>8. Leave(k, Z, {}, <<SISCI>>)
  BY <1>1, LeaveNone
<1> HIDE DEF k, Z
<1>9. Leave(k, Z, U1, l1)
  BY <1>1, <1>2, <1>3, <1>4, <1>8, LeaveMore
<1> HIDE DEF U1, l1
<1>10. Leave(k, Z, U2, l2)
  BY <1>1, <1>2, <1>3, <1>4, <1>9, LeaveMore
<1> HIDE DEF U2, l2
<1>11. Leave(k, Z, U3, l3)
  BY <1>1, <1>2, <1>3, <1>4, <1>10, LeaveMore
<1> HIDE DEF U3, l3
<1>12. Leave(k, Z, U4, l4)
  BY <1>1, <1>2, <1>3, <1>5, <1>11, LeaveMore
<1> HIDE DEF U4, l4
<1>13. Leave(k, Z, U5, l5)
  BY <1>1, <1>2, <1>3, <1>5, <1>12, LeaveMore
<1> HIDE DEF U5, l5
<1>14. Leave(k, Z, U6, l6)
  BY <1>1, <1>2, <1>3, <1>5, <1>13, LeaveMore
<1> HIDE DEF U6, l6
<1>15. vars_of(<<"cq_mem", "sq_mem", "buffer", "aq", "aq_mem", "ctrl", "sisci">>) = l6
  <2> DEFINE s == SISCI
  <2>1. vars_of(<<"cq_mem", "sq_mem", "buffer", "aq", "aq_mem", "ctrl", "sisci">>) = <<cq, sq, b,
        a, m, c, s>>
    BY DEF vars_of, SISCI
  <2>2. cq \in Res /\ sq \in Res /\ b \in Res /\ a \in Res /\ m \in Res /\ c \in Res /\ s \in Res
    BY <1>2, NoneRes
  <2>0. l1 = <<c>> \o <<s>>
    BY DEF l1
  <2> HIDE DEF cq, sq, b, a, m, c, s
  <2>3. <<cq, sq, b, a, m, c, s>> = <<cq>> \o <<sq, b, a, m, c, s>>
    BY <2>2
  <2>4. <<sq, b, a, m, c, s>> = <<sq>> \o <<b, a, m, c, s>>
    BY <2>2
  <2>5. <<b, a, m, c, s>> = <<b>> \o <<a, m, c, s>>
    BY <2>2
  <2>6. <<a, m, c, s>> = <<a>> \o <<m, c, s>>
    BY <2>2
  <2>7. <<m, c, s>> = <<m>> \o <<c, s>>
    BY <2>2
  <2>8. <<c, s>> = <<c>> \o <<s>>
    BY <2>2, Pairs
  <2> QED BY <2>0, <2>1, <2>3, <2>4, <2>5, <2>6, <2>7, <2>8, Zenon DEF l2, l3, l4, l5,
      l6
<1>16. Good(k, TRUE, {}, Get(SISCI, <<>>), Z)
  BY <1>1, SisciGood DEF Z
<1>17. c \in Own /\ m \in Own /\ a \in Own /\ sq \in Own /\ cq \in Own /\ b \in Own
  BY <1>2
<1> HIDE DEF c, m, a, sq, cq, b
<1>18. /\ T1 = Z \union {c} /\ T2 = T1 \union {m} /\ T3 = T2 \union {a} /\ T4 = T3 \union {b}
       /\ T5 = T4 \union {cq} /\ T6 = T5 \union {sq}
  OBVIOUS
<1> HIDE DEF T1, T2, T3, T4, T5, T6
<1>19. Good(k, TRUE, Z, Get(c, l6), T1)
  BY <1>1, <1>6, <1>7, <1>14, <1>17, <1>18, LeaveTake
<1>20. Good(k, TRUE, T1, Get(m, l6), T2)
  BY <1>1, <1>6, <1>7, <1>14, <1>17, <1>18, LeaveTake
<1>21. Good(k, TRUE, T2, Get(a, l6), T3)
  BY <1>1, <1>6, <1>7, <1>14, <1>17, <1>18, LeaveTake
<1>22. Good(k, TRUE, T3, get_disk_info(l6), T3)
  BY <1>1, <1>7, <1>14, LeaveCheck
<1>23. Good(k, TRUE, T3, Get(b, l6), T4)
  BY <1>1, <1>6, <1>7, <1>14, <1>17, <1>18, LeaveTake
<1>24. Good(k, TRUE, T4, Get(cq, l6), T5)
  BY <1>1, <1>6, <1>7, <1>14, <1>17, <1>18, LeaveTake
<1>25. Good(k, TRUE, T5, Get(sq, l6), T6)
  BY <1>1, <1>6, <1>7, <1>14, <1>17, <1>18, LeaveTake
<1>26. Good(k, TRUE, T6, create_queue_pair(l6), T6) /\ Good(k, TRUE, T6, read_and_dump(l6), T6)
  BY <1>1, <1>7, <1>14, LeaveCheck
<1>27. Frees(k, "release", T6, T6, l6) /\ l6 \in Seq(Res)
  BY <1>7, <1>14 DEF Leave, Stands
<1> DEFINE x == Get(SISCI, <<>>) \o Get(c, l6) \o Get(m, l6) \o Get(a, l6)
           y == x \o get_disk_info(l6) \o Get(b, l6) \o Get(cq, l6)
<1>28. Good(k, TRUE, {}, x, T3)
  BY <1>16, <1>19, <1>20, <1>21, GoodCat4
<1> HIDE DEF x
<1>29. Good(k, TRUE, {}, y, T5)
  BY <1>22, <1>23, <1>24, <1>28, GoodCat4
<1> HIDE DEF y
<1>30. Good(k, TRUE, {}, y \o Get(sq, l6) \o create_queue_pair(l6) \o read_and_dump(l6), T6)
  BY <1>25, <1>26, <1>29, GoodCat4
<1>31. /\ read_smartio.steps = y \o Get(sq, l6) \o create_queue_pair(l6) \o read_and_dump(l6)
       /\ read_smartio.release = l6
  BY <1>15 DEF read_smartio, Prog, x, y, c, m, a, b, sq, cq, SISCI
<1> QED BY <1>27, <1>30, <1>31 DEF k

-----------------------------------------------------------------------------
(* benchmarks/latency *)

\* The benchmark's Controller is built, or its constructor throws.
Controlled == (({} \union {var("ctrl")}) \union {var("aq")}) \union {var("aq_mem")}

\* The benchmark is a program.
LEMMA LatFacts ==
    ASSUME NEW k \in LatKinds
    PROVE  /\ k \in ProgKinds /\ k \notin KeepKinds /\ k \in AllKinds /\ k \notin DmaKinds
              /\ k \notin KernKinds
           /\ k # "rpc_server" /\ Undo(k, TRUE) = "release" /\ Undo(k, FALSE) = "throw"
                 /\ \A S : At(k, S) = {}
BY DEF LatKinds, ProgKinds, KeepKinds, NullKinds, AllKinds, DmaKinds, KernKinds,
    DisKinds, SegKinds, Undo, At

\* Each of a sequence of steps is one.
LEMMA StepIn == ASSUME NEW s \in Seq(Steps), NEW i \in 1..Len(s) PROVE s[i] \in Steps
OBVIOUS

\* The constructor of the benchmark's Controller, which leaves its references when it throws
LEMMA ControllerGood ==
    ASSUME NEW k \in LatKinds
    PROVE  Good(k, FALSE, {}, Get(SISCI, <<>>), {}) /\ Good(k, FALSE, {}, Controller, Controlled)
<1> DEFINE c == var("ctrl")
           m == var("aq_mem")
           a == var("aq")
           C == {} \union {c}
           M == C \union {m}
           A == C \union {a}
           V == A \union {m}
<1>1. /\ k \in ProgKinds /\ k \notin KeepKinds /\ Undo(k, FALSE) = "throw" /\ \A S : At(k, S) = {}
      /\ c \in Own /\ m \in Own /\ a \in Own /\ c \in Plain /\ m \in Plain /\ a \in Plain
      /\ c \in Res /\ m \in Res /\ a \in Res
  BY LatFacts, OwnIs, OwnRes DEF Pointers
<1>2. /\ m \notin C /\ a \notin C /\ m \notin A /\ a # m /\ V = M \union {a} /\ m \notin V \ {m}
      /\ m # R("seg", "sd")
  BY DEF var, R
<1>3. ProgramRests(k, FALSE, C) /\ ProgramRests(k, FALSE, M) /\ ProgramRests(k, FALSE, V)
      /\ ProgramRests(k, TRUE, A)
  BY DEF ProgramRests, var, loc, R, LatKinds
<1>4. {} \subseteq Left(k, TRUE) /\ C \subseteq Left(k, TRUE) /\ A \subseteq Left(k, TRUE)
  <2>1. k \notin SegKinds
    BY DEF LatKinds, SegKinds
  <2>2. Left(k, TRUE) = {var("sisci")} \union {var("ctrl"), var("aq")}
    BY <2>1 DEF Left
  <2> QED BY <2>2
<1> HIDE DEF c, m, a
<1>5. {} \in SUBSET Own /\ C \in SUBSET Own /\ M \in SUBSET Own /\ A \in SUBSET Own
      /\ V \in SUBSET Own
  BY <1>1
<1>6. {} \in SUBSET Res /\ C \in SUBSET Res /\ M \in SUBSET Res /\ A \in SUBSET Res
      /\ V \in SUBSET Res
  BY <1>1
<1> HIDE DEF C, M, A, V
<1>7. Rests(k, FALSE, {}) /\ Rests(k, FALSE, C) /\ Rests(k, FALSE, M) /\ Rests(k, FALSE, V)
      /\ Rests(k, TRUE, A)
  BY <1>1, <1>3, <1>5, OwnRests, ProgBase
<1>8. Rests(k, TRUE, {}) /\ Rests(k, TRUE, C)
  BY <1>7, RestsThrown
<1>9. ("throw" = "throw") = TRUE /\ <<>> \in Seq(Res)
  OBVIOUS
<1>10. /\ Frees(k, "throw", {}, {}, <<>>) /\ Frees(k, "throw", {}, C, <<>>)
          /\ Frees(k, "throw", {}, A, <<>>)
  BY <1>4, <1>7, <1>8, <1>9, FreesNil
<1> DEFINE l == <<m>> \o <<>>
<1>11. Frees(k, "throw", {}, M, l) /\ Frees(k, "throw", {}, V, l)
  <2>1. M = C \union {m} /\ V = A \union {m}
    BY DEF M, V
  <2>2. Frees(k, "throw", {}, C \union {m}, <<m>> \o <<>>)
    BY <1>1, <1>2, <1>7, <1>9, <1>10, <2>1, FreesHeld
  <2>3. Frees(k, "throw", {}, A \union {m}, <<m>> \o <<>>)
    BY <1>1, <1>2, <1>7, <1>9, <1>10, <2>1, FreesHeld
  <2> QED BY <2>1, <2>2, <2>3
<1>12. l = <<m>> /\ l \in Seq(Res)
  BY <1>1, LoneSeq
<1> HIDE DEF l
<1>13. Good(k, FALSE, {}, Get(c, <<>>), C)
  <2>1. C = {} \union {c}
    BY DEF C
  <2>2. c \notin {} /\ (c = R("seg", "sd") => R("seg", "mem") \in {})
    BY DEF c, var, R
  <2> QED BY <1>1, <1>6, <1>7, <1>9, <1>10, <2>1, <2>2, Take
<1>14. Good(k, FALSE, C, Get(m, <<>>), M)
  <2>1. M = C \union {m}
    BY DEF M
  <2> QED BY <1>1, <1>2, <1>6, <1>7, <1>9, <1>10, <2>1, Take
<1>15. Good(k, FALSE, M, Get(a, l), V)
  <2>1. a \notin M /\ a # R("seg", "sd")
    BY <1>2 DEF M, a, var, R
  <2> QED BY <1>1, <1>2, <1>6, <1>7, <1>11, <1>12, <2>1, Take
<1>16. Good(k, FALSE, V, Check(l), V)
  BY <1>1, <1>6, <1>7, <1>11, <1>12, Checked
<1>17. Good(k, FALSE, {}, Get(SISCI, <<>>), {})
  <2>1. Core({SISCI}) = {} /\ SISCI # Bindings /\ SISCI # R("md", "pages")
        /\ SISCI # R("ctrl", "mmap")
    BY DEF Core, Optionals, SISCI, Bindings, var, R
  <2>2. TakesOk(k, SISCI)
    BY <1>1, <2>1 DEF TakesOk
  <2>3. {} \union Core({SISCI}) = {} /\ SISCI \in Res
    BY <2>1, NoneRes
  <2>4. Rests(k, FALSE, {} \union Core({SISCI})) /\ Frees(k, Undo(k, FALSE), At(k, {}), {}, <<>>)
    BY <1>1, <1>7, <1>10, <2>3
  <2>5. Good(k, FALSE, {}, Get(SISCI, <<>>), {} \union Core({SISCI}))
    BY <1>6, <1>9, <2>2, <2>3, <2>4, GoodGet
  <2> QED BY <2>3, <2>5
<1> DEFINE x == Get(c, <<>>) \o Get(m, <<>>) \o Get(a, l)
<1>18. Good(k, FALSE, {}, x, V)
  BY <1>13, <1>14, <1>15, GoodCat3
<1> HIDE DEF x
<1>19. Good(k, FALSE, {}, x \o Check(l) \o Check(l) \o Check(l), V)
  BY <1>16, <1>18, GoodCat4
<1>20. Controller = x \o Check(l) \o Check(l) \o Check(l)
  BY <1>12 DEF Controller, createBuffer, x, c, m, a
<1>21. Controlled = V
  BY DEF Controlled, V, A, C, c, m, a
<1> QED BY <1>17, <1>19, <1>20, <1>21

\* Its length
LEMMA ControllerLen == Len(Controller) \in Nat
<1>1. "latency" \in LatKinds
  BY DEF LatKinds
<1>2. Good("latency", FALSE, {}, Controller, Controlled)
  BY <1>1, ControllerGood
<1> QED BY <1>2 DEF Good

\* A constructor that may throw at first, and is then unwound
LEMMA LatTrace ==
    ASSUME NEW k \in LatKinds, NEW S, NEW V, NEW p, NEW q,
           Good(k, FALSE, {}, p, S), Good(k, TRUE, S, q, V), Len(p) = 1 + Len(Controller),
           Program(k) = p \o q, Release(k) \in Seq(Res), Frees(k, "release", {}, V, Release(k))
    PROVE  \E f : IsTrace(k, f)
<1> DEFINE n == Len(p)
           m == Len(q)
           u == Program(k)
<1>1. p \in Seq(Steps) /\ q \in Seq(Steps) /\ n \in Nat /\ m \in Nat
  BY DEF Good
<1>2. Joins(u, p, q)
  BY <1>1, Joined
<1>3. /\ u \in Seq(Steps) /\ Len(u) = n + m
      /\ \A i \in 1..n : u[i] = p[i]
      /\ \A i \in 1..m : u[i + n] = q[i]
  <2>1. \A i \in 1..m : i + n = n + i
    BY <1>1
  <2> QED BY <1>2, <2>1 DEF Joins
<1>4. PICK f \in [1..(n + 1) -> SUBSET Res] :
         /\ f[1] = {} /\ f[n + 1] = S /\ \A i \in 1..n : StepOk(k, FALSE, f, p[i], i, n)
  BY DEF Good
<1>5. PICK g \in [1..(m + 1) -> SUBSET Res] :
         /\ g[1] = S /\ g[m + 1] = V /\ \A i \in 1..m : StepOk(k, TRUE, g, q[i], i, m)
  BY DEF Good
<1> DEFINE h == [i \in 1..(n + m + 1) |-> IF i <= n THEN f[i] ELSE g[i - n]]
<1>6. /\ h \in [1..(n + m + 1) -> SUBSET Res]
      /\ \A i \in 1..(n + 1) : h[i] = f[i]
      /\ \A i \in 1..(m + 1) : h[i + n] = g[i]
  <2>1. ASSUME NEW i \in 1..(n + m + 1) PROVE (IF i <= n THEN f[i] ELSE g[i - n]) \in SUBSET Res
    <3>1. CASE i <= n
      <4>1. i \in 1..(n + 1)
        BY <3>1, <1>1
      <4> QED BY <3>1, <4>1, <1>4
    <3>2. CASE ~(i <= n)
      <4>1. i - n \in 1..(m + 1)
        BY <3>2, <1>1
      <4> QED BY <3>2, <4>1, <1>5
    <3> QED BY <3>1, <3>2
  <2>2. ASSUME NEW i \in 1..(n + 1) PROVE h[i] = f[i]
    <3>1. i \in 1..(n + m + 1) /\ (~(i <= n) => i = n + 1 /\ i - n = 1)
      BY <1>1
    <3> QED BY <3>1, <1>4, <1>5
  <2>3. ASSUME NEW i \in 1..(m + 1) PROVE h[i + n] = g[i]
    <3>1. i + n \in 1..(n + m + 1) /\ ~(i + n <= n) /\ (i + n) - n = i
      BY <1>1
    <3> QED BY <3>1
  <2> QED BY <2>1, <2>2, <2>3
<1>7. Built(n + m + 1) /\ (\A i \in 1..n : Built(i) = FALSE) /\ \A i \in 1..m : Built(i + n) = TRUE
  BY <1>1 DEF Built
<1>8. Final(k) = n + m + 1
  BY <1>1, <1>3 DEF Final
<1> HIDE DEF h, u, n, m
<1>9. h[1] = {} /\ h[n + m + 1] = V
  <2>1. 1 \in 1..(n + 1) /\ m + 1 \in 1..(m + 1) /\ n + m + 1 = (m + 1) + n
    BY <1>1
  <2> QED BY <2>1, <1>4, <1>5, <1>6
<1>10. ASSUME NEW i \in 1..(n + m) PROVE StepOk(k, Built(i), h, u[i], i, n + m)
  <2>1. CASE i <= n
    <3>1. /\ i \in 1..n /\ i \in Nat /\ i + 0 = i /\ n + 0 <= n + m /\ n + m \in Nat /\ 0 \in Nat
          /\ \A x \in 1..(n + 1) : h[x + 0] = f[x]
      BY <2>1, <1>1, <1>6
    <3>2. StepOk(k, FALSE, f, p[i], i, n) /\ p[i] \in Steps
      <4>1. StepOk(k, FALSE, f, p[i], i, n)
        BY <3>1, <1>4
      <4>2. i \in 1..Len(p)
        BY <3>1 DEF n
      <4> QED BY <1>1, <4>1, <4>2, StepIn
    <3>3. StepOk(k, FALSE, h, p[i], i + 0, n + m)
      BY <3>1, <3>2, <1>1, StepOkMoves
    <3> QED BY <3>1, <3>3, <1>3, <1>7
  <2>2. CASE ~(i <= n)
    <3>0. PICK j \in 1..m : i = j + n
      <4>1. i - n \in 1..m /\ i = (i - n) + n
        BY <2>2, <1>1
      <4> QED BY <4>1
    <3>1. j \in Nat /\ m + n <= n + m /\ n + m \in Nat
      BY <1>1
    <3>2. StepOk(k, TRUE, g, q[j], j, m) /\ q[j] \in Steps
      <4>1. StepOk(k, TRUE, g, q[j], j, m)
        BY <1>5
      <4>2. j \in 1..Len(q)
        BY DEF m
      <4> QED BY <1>1, <4>1, <4>2, StepIn
    <3>3. StepOk(k, TRUE, h, q[j], j + n, n + m)
      BY <3>1, <3>2, <1>1, <1>6, StepOkMoves
    <3> QED BY <3>0, <3>3, <1>3, <1>7
  <2> QED BY <2>1, <2>2
<1>11. /\ k \notin DmaKinds /\ k \notin KernKinds /\ k # "rpc_server" /\ At(k, V) = {}
  BY LatFacts
<1>12. IsTrace(k, h)
  <2>1. Program(k) = u
    BY DEF u
  <2> HIDE DEF u
  <2>2. /\ Program(k) \in Seq(Steps) /\ Len(Program(k)) = n + m
        /\ \A i \in 1..Len(Program(k)) : StepOk(k, Built(i), h, Program(k)[i], i, Len(Program(k)))
    BY <1>3, <1>10, <2>1
  <2>3. h \in [1..Final(k) -> SUBSET Res] /\ h[1] = {} /\ h[Final(k)] = V /\ Built(Final(k))
    BY <1>6, <1>7, <1>8, <1>9
  <2>4. Frees(k, "release", At(k, h[Final(k)]), h[Final(k)], Release(k))
    BY <1>11, <2>3
  <2> QED BY <1>11, <2>2, <2>3, <2>4 DEF IsTrace
<1> QED BY <1>12

\* Pointers of the benchmark that nothing rests on
Loose == {"sq_mem", "cq_mem", "sq_mem2", "cq_mem2", "ptr", "fp", "buffer_ptr"}

\* Nothing rests on those pointers being taken later.
LEMMA LooseRests ==
    ASSUME NEW k \in LatKinds, NEW S, NEW x \in Loose, ProgramRests(k, FALSE, S)
    PROVE  ProgramRests(k, FALSE, S \union {var(x)}) /\ var(x) \in Own /\ var(x) \in Res
<1>1. var(x) \in Own /\ var(x) \in Res
  BY OwnIs, OwnRes DEF Loose, Pointers
<1>2. k \notin {"id_user", "id_module", "read_module", "rpc_client"}
  BY DEF LatKinds
<1>3. ProgramRests(k, FALSE, S \union {var(x)})
  BY <1>2 DEF ProgramRests, Loose, var, loc, R
<1> QED BY <1>1, <1>3

\* What a queue of the benchmark holds
QueueSet(S, no, remote) ==
    IF remote THEN (S \union {var(QueueMem(no).sq)}) \union {var(QueueMem(no).cq)}
              ELSE S \union {var(QueueMem(no).sq)}

\* The members of a queue
LEMMA QueueMemIs == ASSUME NEW no \in {1, 2}
      PROVE QueueMem(no).sq \in Loose /\ QueueMem(no).cq \in Loose
                                                   /\ var(QueueMem(no).sq) # var(QueueMem(no).cq)
BY DEF QueueMem, Loose, var, R

\* ~Queue gives back what a queue holds.
LEMMA QueueHeld ==
    ASSUME NEW k \in LatKinds, NEW no \in {1, 2}, NEW remote \in BOOLEAN, NEW S, NEW u,
           Held(k, S, u),
           var(QueueMem(no).sq) \notin S, var(QueueMem(no).cq) \notin S
    PROVE  Held(k, QueueSet(S, no, remote), Queue_dtor(no, remote) \o u)
          /\ Queue_dtor(no, remote) \in Seq(Res)
<1> DEFINE s == var(QueueMem(no).sq)
           c == var(QueueMem(no).cq)
           T == S \union {s}
           V == T \union {c}
<1>1. k \in ProgKinds /\ s # c /\ c \notin T
  BY LatFacts, QueueMemIs
<1>2. ProgramRests(k, FALSE, T) /\ s \in Own /\ s \in Res
  BY QueueMemIs, LooseRests DEF Held
<1>3. Held(k, T, <<s>> \o u)
  BY <1>1, <1>2, HeldMore
<1>4. ProgramRests(k, FALSE, V) /\ c \in Own /\ c \in Res
  <2> HIDE DEF T
  <2> QED BY <1>2, QueueMemIs, LooseRests
<1> HIDE DEF T
<1>5. Held(k, V, <<c>> \o (<<s>> \o u))
  BY <1>1, <1>3, <1>4, HeldMore
<1>6. u \in Seq(Res) /\ <<s>> \in Seq(Res) /\ <<c>> \in Seq(Res)
  BY <1>2, <1>4, LoneSeq DEF Held
<1> HIDE DEF s, c, V
<1>7. CASE remote
  <2>1. Queue_dtor(no, remote) = <<c>> \o <<s>> /\ QueueSet(S, no, remote) = V
    BY <1>7 DEF Queue_dtor, QueueSet, V, T, s, c
  <2>2. Regroup(<<c>>, <<s>>, u)
    BY <1>6, Regroups
  <2>3. (<<c>> \o <<s>>) \o u = <<c>> \o (<<s>> \o u) /\ <<c>> \o <<s>> \in Seq(Res)
    BY <2>2, Zenon DEF Regroup
  <2> QED BY <1>5, <2>1, <2>3
<1>8. CASE ~remote
  <2>1. Queue_dtor(no, remote) = <<>> \o <<s>> /\ QueueSet(S, no, remote) = T
    BY <1>8 DEF Queue_dtor, QueueSet, T, s
  <2>2. <<>> \o <<s>> = <<s>>
    BY <1>6
  <2>3. Queue_dtor(no, remote) = <<s>>
    BY <2>1, <2>2
  <2> QED BY <1>3, <1>6, <2>1, <2>3
<1> QED BY <1>7, <1>8

\* The constructor of Queue, of a remote or a local queue
LEMMA QueueGood ==
    ASSUME NEW k \in LatKinds, NEW no \in {1, 2}, NEW remote \in BOOLEAN, NEW S, NEW u,
           Held(k, S, u),
           var(QueueMem(no).sq) \notin S, var(QueueMem(no).cq) \notin S
    PROVE  Good(k, TRUE, S, Queue(no, remote, u), QueueSet(S, no, remote))
<1> DEFINE s == var(QueueMem(no).sq)
           c == var(QueueMem(no).cq)
           V == QueueSet(S, no, remote)
           d == Queue_dtor(no, remote) \o u
<1>1. k \in ProgKinds /\ Undo(k, TRUE) = "release" /\ s # c /\ s \notin S /\ c \notin S
  BY LatFacts, QueueMemIs
<1>2. /\ ProgramRests(k, FALSE, S \union {s}) /\ s \in Own /\ ProgramRests(k, FALSE, S \union {c})
         /\ c \in Own
  BY QueueMemIs, LooseRests DEF Held
<1>3. Held(k, V, d)
  BY QueueHeld
<1>4. Good(k, TRUE, V, Check(d), V)
  <2> HIDE DEF V, d
  <2> QED BY <1>1, <1>3, HeldCheck
<1> DEFINE g == IF remote THEN Get(c, u) \o Get(s, <<c>> \o u) ELSE Get(s, u)
<1>5. Good(k, TRUE, S, g, V)
  <2> HIDE DEF s, c
  <2>1. CASE remote
    <3> DEFINE C == S \union {c}
    <3>1. Good(k, TRUE, S, Get(c, u), C) /\ Held(k, C, <<c>> \o u)
      BY <1>1, <1>2, HeldTake
    <3>2. ProgramRests(k, FALSE, C \union {s}) /\ s \notin C
      <4>1. ProgramRests(k, FALSE, C \union {s})
        <5> HIDE DEF C
        <5>1. ProgramRests(k, FALSE, C)
          BY <3>1 DEF Held
        <5> QED BY <5>1, QueueMemIs, LooseRests DEF s
      <4> QED BY <4>1, <1>1
    <3>3. V = C \union {s}
      BY <2>1 DEF QueueSet, s, c
    <3> HIDE DEF C
    <3>4. Good(k, TRUE, C, Get(s, <<c>> \o u), C \union {s})
      BY <1>1, <1>2, <3>1, <3>2, HeldTake
    <3> QED BY <2>1, <3>1, <3>3, <3>4, GoodCat
  <2>2. CASE ~remote
    <3>1. V = S \union {s}
      BY <2>2 DEF QueueSet, s
    <3>2. Good(k, TRUE, S, Get(s, u), S \union {s})
      BY <1>1, <1>2, HeldTake
    <3> QED BY <2>2, <3>1, <3>2
  <2> QED BY <2>1, <2>2
<1> HIDE DEF g, V
<1>6. Good(k, TRUE, S, g \o Check(d) \o Check(d), V)
  BY <1>4, <1>5, GoodCat3
<1>7. Queue(no, remote, u) = g \o Check(d) \o Check(d)
  BY DEF Queue, createBuffer, createRemoteBuffer, g, d, s, c
<1> QED BY <1>6, <1>7 DEF V

\* Both queues; l is what releases the Controller.
Both(S, remote) == QueueSet(QueueSet(S, 1, remote), 2, remote)

\* createQueues: whichever step fails, both queues and the Controller go.
LEMMA BothQueues ==
    ASSUME NEW k \in LatKinds, NEW remote \in BOOLEAN, NEW S, NEW u, Held(k, S, u),
           \A x \in Loose : var(x) \notin S
    PROVE  /\ Good(k, TRUE, S, createQueues(remote, u), Both(S, remote))
           /\ Held(k, Both(S, remote), Queue_dtor(1, remote) \o (Queue_dtor(2, remote) \o u))
           /\ Queue_dtor(1, remote) \in Seq(Res) /\ Queue_dtor(2, remote) \in Seq(Res)
<1> DEFINE Q1 == QueueSet(S, 1, remote)
           Q2 == QueueSet(S, 2, remote)
           V  == QueueSet(Q1, 2, remote)
           d1 == Queue_dtor(1, remote)
           d2 == Queue_dtor(2, remote)
<1>1. /\ var(QueueMem(1).sq) \notin S /\ var(QueueMem(1).cq) \notin S
         /\ var(QueueMem(2).sq) \notin S
      /\ var(QueueMem(2).cq) \notin S
  BY QueueMemIs
<1>2. /\ var(QueueMem(1).sq) # var(QueueMem(2).sq) /\ var(QueueMem(1).sq) # var(QueueMem(2).cq)
      /\ var(QueueMem(1).cq) # var(QueueMem(2).sq) /\ var(QueueMem(1).cq) # var(QueueMem(2).cq)
  BY DEF QueueMem, var, R
<1>3. /\ var(QueueMem(2).sq) \notin Q1 /\ var(QueueMem(2).cq) \notin Q1
      /\ var(QueueMem(1).sq) \notin Q2 /\ var(QueueMem(1).cq) \notin Q2
  BY <1>1, <1>2 DEF QueueSet
<1>4. V = QueueSet(Q2, 1, remote)
  BY DEF QueueSet
<1>5. Good(k, TRUE, S, Queue(1, remote, u), Q1) /\ Held(k, Q1, d1 \o u) /\ d1 \in Seq(Res)
  BY <1>1, QueueGood, QueueHeld
<1>6. Held(k, Q2, d2 \o u) /\ d2 \in Seq(Res)
  BY <1>1, QueueHeld
<1> HIDE DEF Q1, Q2
<1>7. Good(k, TRUE, Q1, Queue(2, remote, d1 \o u), V)
  BY <1>3, <1>5, QueueGood
<1>8. Held(k, V, d1 \o (d2 \o u))
  BY <1>3, <1>4, <1>6, QueueHeld
<1>9. Good(k, TRUE, S, createQueues(remote, u), V)
  BY <1>5, <1>7, GoodCat DEF createQueues
<1> QED BY <1>5, <1>6, <1>8, <1>9 DEF Both, Q1

\* ~Controller
LEMMA ControlledHeld ==
    ASSUME NEW k \in LatKinds, NEW u, Held(k, {}, u)
    PROVE  Held(k, Controlled, Controller_dtor \o u) /\ Controller_dtor \in Seq(Res)
<1> DEFINE a == var("aq")
           c == var("ctrl")
           m == var("aq_mem")
           M == {} \union {m}
           C == M \union {c}
           A == C \union {a}
<1>1. k \in ProgKinds /\ a \in Own /\ c \in Own /\ m \in Own /\ a \in Res /\ c \in Res /\ m \in Res
  BY LatFacts, OwnIs, OwnRes DEF Pointers
<1>2. ProgramRests(k, FALSE, M) /\ ProgramRests(k, FALSE, C) /\ ProgramRests(k, FALSE, A)
  BY DEF ProgramRests, var, loc, R, LatKinds
<1>3. m \notin {} /\ c \notin M /\ a \notin C /\ A = Controlled
  BY DEF var, R, Controlled
<1>4. Controller_dtor = <<a, c, m>> /\ u \in Seq(Res)
  BY DEF Controller_dtor, vars_of, Held
<1> HIDE DEF a, c, m
<1>5. Held(k, M, <<m>> \o u)
  BY <1>1, <1>2, <1>3, HeldMore
<1> HIDE DEF M
<1>6. Held(k, C, <<c>> \o (<<m>> \o u))
  BY <1>1, <1>2, <1>3, <1>5, HeldMore
<1> HIDE DEF C
<1>7. Held(k, A, <<a>> \o (<<c>> \o (<<m>> \o u)))
  BY <1>1, <1>2, <1>3, <1>6, HeldMore
<1> HIDE DEF A
<1>8. <<a, c, m>> = <<a>> \o <<c, m>> /\ <<a, c, m>> \in Seq(Res)
  BY <1>1
<1>9. <<c, m>> \in Seq(Res) /\ <<a>> \in Seq(Res)
  BY <1>1
<1>10. <<c, m>> \o u = <<c>> \o (<<m>> \o u)
  BY <1>1, <1>4, PairCat
<1> DEFINE x == <<a>>
           y == <<c, m>>
<1> HIDE DEF x, y
<1>11. Regroup(x, y, u)
  BY <1>4, <1>9, Regroups DEF x, y
<1>12. (x \o y) \o u = x \o (y \o u)
  BY <1>11, Zenon DEF Regroup
<1>13. <<a, c, m>> \o u = <<a>> \o (<<c>> \o (<<m>> \o u))
  BY <1>8, <1>10, <1>12, Zenon DEF x, y
<1> QED BY <1>3, <1>4, <1>7, <1>8, <1>13

\* The buffer is verified against a file.
LEMMA VerifyGood ==
    ASSUME NEW k \in LatKinds, NEW S, NEW u, Held(k, S, u), var("ptr") \notin S, var("fp") \notin S
    PROVE  Good(k, TRUE, S, verify(u), S)
<1> DEFINE p == var("ptr")
           f == var("fp")
           P == S \union {p}
           F == P \union {f}
           w == <<p>> \o u
<1>1. k \in ProgKinds /\ k \notin KeepKinds /\ Undo(k, TRUE) = "release" /\ "ptr" \in Loose
      /\ "fp" \in Loose
  BY LatFacts DEF Loose
<1>2. ProgramRests(k, FALSE, S) /\ S \in SUBSET Own
  BY DEF Held
<1>3. p # f /\ f \notin P /\ p \notin S
  BY DEF var, R
<1>4. ProgramRests(k, FALSE, P) /\ p \in Own /\ f \in Own
  BY <1>1, <1>2, LooseRests
<1>5. ProgramRests(k, FALSE, F)
  <2> HIDE DEF P
  <2> QED BY <1>1, <1>4, LooseRests
<1> HIDE DEF p, f
<1>6. Good(k, TRUE, S, Get(p, u), P) /\ Held(k, P, w)
  BY <1>1, <1>3, <1>4, HeldTake
<1>7. Good(k, TRUE, P, Drop(<<p>>), S)
  BY <1>1, <1>2, <1>3, <1>4, DropOne
<1>8. Good(k, TRUE, S, Check(u), S)
  BY <1>1, HeldCheck
<1> HIDE DEF P, w
<1>9. Good(k, TRUE, P, Get(f, w), F)
  BY <1>1, <1>3, <1>4, <1>5, <1>6, HeldTake
<1>10. Good(k, TRUE, F, Drop(<<f>>), P)
  <2>1. P \in SUBSET Own
    BY <1>6 DEF Held
  <2> QED BY <2>1, <1>1, <1>3, <1>4, <1>5, DropOne
<1>11. Good(k, TRUE, P, Check(w), P)
  BY <1>1, <1>6, HeldCheck
<1> HIDE DEF F
<1> DEFINE x == Check(u) \o Get(p, u) \o Get(f, w) \o Drop(<<f>>)
<1>12. Good(k, TRUE, S, x, P)
  BY <1>6, <1>8, <1>9, <1>10, GoodCat4
<1> HIDE DEF x
<1>13. Good(k, TRUE, S, x \o Check(w) \o Drop(<<p>>), S)
  BY <1>7, <1>11, <1>12, GoodCat3
<1>14. verify(u) = x \o Check(w) \o Drop(<<p>>)
  BY DEF verify, x, w, p, f
<1> QED BY <1>13, <1>14

\* The benchmark of remote queues with a buffer in host memory
LEMMA HostBuffer ==
    ASSUME NEW S, NEW u, NEW v, Held("latency", S, u), Held("latency", S, v),
           \A x \in {"buffer", "ptr", "fp"} : var(x) \notin S
    PROVE  \E V : /\ Good("latency", TRUE, S,
                     createBuffer("buffer", u) \o verify(<<var("buffer")>> \o u), V)
                  /\ Held("latency", V, <<var("buffer")>> \o v)
<1> DEFINE k == "latency"
           b == var("buffer")
           B == S \union {b}
           w == <<b>> \o u
<1>1. k \in LatKinds /\ k \in ProgKinds /\ Undo(k, TRUE) = "release" /\ b \in Own
  BY LatFacts, OwnIs DEF LatKinds, Pointers
<1>2. ProgramRests(k, FALSE, B)
  <2>1. ProgramRests(k, FALSE, S)
    BY DEF Held
  <2> QED BY <2>1 DEF ProgramRests, var, loc, R
<1>3. b \notin S /\ var("ptr") \notin B /\ var("fp") \notin B
  BY DEF var, R
<1> HIDE DEF k, b
<1>4. Held(k, S, u) /\ Held(k, S, v)
  BY DEF k
<1>5. Good(k, TRUE, S, Get(b, u), B) /\ Held(k, B, w) /\ Held(k, B, <<b>> \o v)
  BY <1>1, <1>2, <1>3, <1>4, HeldTake
<1> HIDE DEF B, w
<1>6. Good(k, TRUE, B, verify(w), B)
  BY <1>1, <1>3, <1>5, VerifyGood
<1>7. Good(k, TRUE, S, Get(b, u) \o verify(w), B)
  BY <1>5, <1>6, GoodCat
<1> QED BY <1>5, <1>7 DEF createBuffer, w, b, k

\* The benchmark of local queues with a buffer in GPU memory
LEMMA GpuBuffer ==
    ASSUME NEW S, NEW u, NEW v, Held("latency_gpu", S, u), Held("latency_gpu", S, v),
           \A x \in {"buffer", "buffer_ptr"} : var(x) \notin S
    PROVE  \E V : /\ Good("latency_gpu", TRUE, S, createBuffer_dev(u), V)
                  /\ Held("latency_gpu", V, vars_of(<<"buffer", "buffer_ptr">>) \o v)
<1> DEFINE k == "latency_gpu"
           b == var("buffer")
           p == var("buffer_ptr")
           P == S \union {p}
           B == P \union {b}
           w == <<p>> \o u
<1>1. /\ k \in LatKinds /\ k \in ProgKinds /\ Undo(k, TRUE) = "release" /\ b \in Own /\ p \in Own
         /\ b \in Res /\ p \in Res
  BY LatFacts, OwnIs, OwnRes DEF LatKinds, Pointers
<1>2. ProgramRests(k, FALSE, P) /\ ProgramRests(k, FALSE, B)
  <2>1. ProgramRests(k, FALSE, S)
    BY DEF Held
  <2>2. ProgramRests(k, FALSE, P)
    BY <2>1 DEF ProgramRests, var, loc, R
  <2>3. p \in P
    OBVIOUS
  <2> HIDE DEF P
  <2>4. ProgramRests(k, FALSE, B)
    BY <2>2, <2>3 DEF ProgramRests, var, loc, R
  <2> QED BY <2>2, <2>4
<1>3. p \notin S /\ b \notin P
  BY DEF var, R
<1>4. vars_of(<<"buffer", "buffer_ptr">>) = <<b, p>>
  BY DEF vars_of
<1> HIDE DEF k, b, p
<1>5. Held(k, S, u) /\ Held(k, S, v) /\ v \in Seq(Res)
  BY DEF k, Held
<1>6. Good(k, TRUE, S, Get(p, u), P) /\ Held(k, P, w) /\ Held(k, P, <<p>> \o v)
  BY <1>1, <1>2, <1>3, <1>5, HeldTake
<1>7. Good(k, TRUE, S, Check(u), S)
  BY <1>1, <1>5, HeldCheck
<1> HIDE DEF P, w
<1>8. Good(k, TRUE, P, Check(w), P)
  BY <1>1, <1>6, HeldCheck
<1>9. Good(k, TRUE, P, Get(b, w), B) /\ Held(k, B, <<b>> \o (<<p>> \o v))
  BY <1>1, <1>2, <1>3, <1>6, HeldTake
<1> HIDE DEF B
<1>10. Good(k, TRUE, S, Check(u) \o Get(p, u) \o Check(w) \o Get(b, w), B)
  BY <1>6, <1>7, <1>8, <1>9, GoodCat4
<1>11. createBuffer_dev(u) = Check(u) \o Get(p, u) \o Check(w) \o Get(b, w)
  BY DEF createBuffer_dev, w, b, p
<1>12. <<b, p>> \o v = <<b>> \o (<<p>> \o v)
  BY <1>1, <1>5, PairCat
<1> QED BY <1>4, <1>9, <1>10, <1>11, <1>12 DEF k

BufferDtor(remote) == IF remote THEN <<var("buffer")>> ELSE vars_of(<<"buffer", "buffer_ptr">>)
BufferSteps(remote, u) ==
    IF remote THEN createBuffer("buffer", u) \o verify(BufferDtor(remote) \o u)
              ELSE createBuffer_dev(u)

\* The release of the queues and the Controller, from either end
Lists(e, d, c, s) ==
    /\ (d \o e) \o c = d \o (e \o c) /\ (d \o e) \o c \in Seq(Res)
    /\ ((d \o e) \o c) \o s = d \o (e \o (c \o s))

\* They are the same lists.
LEMMA ListsSo ==
    ASSUME NEW d \in Seq(Res), NEW e \in Seq(Res), NEW c \in Seq(Res), NEW s \in Seq(Res)
    PROVE  Lists(e, d, c, s)
<1>1. Regroup(d, e, c) /\ Regroup4(d, e, c, s)
  BY Regroups, Regroups4
<1> QED BY <1>1, Zenon DEF Regroup, Regroup4, Lists

\* The latency benchmark has a trace, in both variants.
LEMMA LatencySound == ASSUME NEW k \in LatKinds PROVE \E f : IsTrace(k, f)
<1> DEFINE remote == (k = "latency")
           C == Controlled
           cd == Controller_dtor
           d == Queue_dtor(1, remote)
           e == Queue_dtor(2, remote)
           s == <<SISCI>>
           V == Both(C, remote)
           qs == (d \o e) \o cd
           bf == BufferDtor(remote)
           p == Get(SISCI, <<>>) \o Controller
           q == createQueues(remote, cd)
           r == BufferSteps(remote, qs)
<1>1. k \in ProgKinds /\ remote \in BOOLEAN /\ s \in Seq(Res) /\ <<>> \in Seq(Res)
      /\ Held(k, {}, <<>>) /\ Held(k, {}, s)
  <2>1. k \in ProgKinds /\ s \in Seq(Res) /\ <<>> \in Seq(Res)
    BY LatFacts, ProgBase
  <2>2. Held(k, {}, <<>>) /\ Held(k, {}, s)
    BY <2>1, HeldNone
  <2>3. remote \in BOOLEAN
    OBVIOUS
  <2> QED BY <2>1, <2>2, <2>3
<1>2. \A x \in Loose \union {"buffer"} : var(x) \notin C
  BY DEF Controlled, Loose, var, R
<1>3. Held(k, C, cd) /\ Held(k, C, cd \o s) /\ cd \in Seq(Res)
  <2>1. Held(k, C, cd \o <<>>) /\ cd \in Seq(Res)
    BY <1>1, ControlledHeld
  <2>2. cd \o <<>> = cd
    BY <2>1, CatNil
  <2>3. Held(k, C, cd \o s)
    BY <1>1, ControlledHeld
  <2> QED BY <2>1, <2>2, <2>3
<1> HIDE DEF remote, C, cd, s
<1>4. /\ Good(k, TRUE, C, q, V) /\ Held(k, V, d \o (e \o cd)) /\ Held(k, V, d \o (e \o (cd \o s)))
      /\ d \in Seq(Res) /\ e \in Seq(Res)
  BY <1>1, <1>2, <1>3, BothQueues
<1>5. \A x \in {"buffer", "ptr", "fp", "buffer_ptr"} : var(x) \notin V
  <2>1. ASSUME NEW x \in {"buffer", "ptr", "fp", "buffer_ptr"} PROVE var(x) \notin V
    <3>1. /\ var(x) # var(QueueMem(1).sq) /\ var(x) # var(QueueMem(1).cq)
          /\ var(x) # var(QueueMem(2).sq) /\ var(x) # var(QueueMem(2).cq)
      BY DEF QueueMem, var, R
    <3>2. var(x) \notin C
      BY <1>2 DEF Loose
    <3> QED BY <3>1, <3>2 DEF Both, QueueSet
  <2> QED BY <2>1
<1> HIDE DEF V, d, e, q
<1>6. Held(k, V, qs) /\ Held(k, V, qs \o s) /\ qs \in Seq(Res)
  <2>1. Lists(e, d, cd, s)
    BY <1>1, <1>3, <1>4, ListsSo
  <2>2. qs = d \o (e \o cd) /\ qs \o s = d \o (e \o (cd \o s)) /\ qs \in Seq(Res)
    BY <2>1, Zenon DEF Lists
  <2> QED BY <1>4, <2>2
<1> HIDE DEF qs
<1>7. \E B : Good(k, TRUE, V, r, B) /\ Held(k, B, bf \o (qs \o s))
  <2>1. CASE k = "latency"
    <3>1. r = createBuffer("buffer", qs) \o verify(<<var("buffer")>> \o qs)
          /\ bf = <<var("buffer")>>
      BY <2>1 DEF remote, BufferSteps, BufferDtor
    <3>2. Held("latency", V, qs) /\ Held("latency", V, qs \o s)
      BY <2>1, <1>6
    <3> HIDE DEF r, bf
    <3>3. \A x \in {"buffer", "ptr", "fp"} : var(x) \notin V
      BY <1>5
    <3> QED BY <2>1, <3>1, <3>2, <3>3, HostBuffer
  <2>2. CASE k = "latency_gpu"
    <3>1. r = createBuffer_dev(qs) /\ bf = vars_of(<<"buffer", "buffer_ptr">>)
      BY <2>2 DEF remote, BufferSteps, BufferDtor
    <3>2. Held("latency_gpu", V, qs) /\ Held("latency_gpu", V, qs \o s)
      BY <2>2, <1>6
    <3> HIDE DEF r, bf
    <3>3. \A x \in {"buffer", "buffer_ptr"} : var(x) \notin V
      BY <1>5
    <3> QED BY <2>2, <3>1, <3>2, <3>3, GpuBuffer
  <2> QED BY <2>1, <2>2 DEF LatKinds
<1>8. PICK B : Good(k, TRUE, V, r, B) /\ Held(k, B, bf \o (qs \o s))
  BY <1>7
<1>9. bf \in Seq(Res)
  <2>1. var("buffer") \in Res /\ var("buffer_ptr") \in Res
    BY PointerRes DEF Pointers
  <2>2. vars_of(<<"buffer", "buffer_ptr">>) = <<var("buffer"), var("buffer_ptr")>>
    BY DEF vars_of
  <2>3. <<var("buffer"), var("buffer_ptr")>> \in Seq(Res) /\ <<var("buffer")>> \in Seq(Res)
    BY <2>1
  <2> QED BY <2>2, <2>3 DEF BufferDtor
<1> HIDE DEF bf, r
<1>10. Good(k, FALSE, {}, Get(SISCI, <<>>), {}) /\ Good(k, FALSE, {}, Controller, C)
  BY ControllerGood DEF C
<1>11. Good(k, FALSE, {}, p, C)
  BY <1>10, GoodCat
<1>12. Len(p) = 1 + Len(Controller)
  <2>1. Get(SISCI, <<>>) \in Seq(Steps) /\ Controller \in Seq(Steps)
    BY <1>10 DEF Good
  <2>2. Joins(p, Get(SISCI, <<>>), Controller)
    BY <2>1, Joined
  <2>3. Len(Get(SISCI, <<>>)) = 1
    BY DEF Get
  <2> QED BY <2>2, <2>3 DEF Joins
<1> HIDE DEF p
<1>13. Good(k, TRUE, C, q \o r, B)
  BY <1>4, <1>8, GoodCat
<1>14. Program(k) = p \o (q \o r)
  <2>1. Program(k) = Main(k).steps /\ Main(k) = latency(k = "latency")
    <3>1. k \notin {"id_user", "id_module", "id_smartio", "read_module", "read_smartio",
                    "integrity", "rpc_server", "rpc_client"}
      BY DEF LatKinds
    <3> QED BY <1>1, <3>1, ProgramIs DEF Main
  <2>2. latency(k = "latency").steps = (p \o q) \o r
    BY DEF latency, Prog, p, q, r, BufferSteps, BufferDtor, qs, d, e, cd, SISCI, remote
  <2>3. p \in Seq(Steps) /\ q \in Seq(Steps) /\ r \in Seq(Steps)
    BY <1>4, <1>8, <1>11 DEF Good
  <2>4. p \o (q \o r) = (p \o q) \o r
    BY <2>3, StepsAssoc
  <2> QED BY <2>1, <2>2, <2>4, Zenon
<1>15. Release(k) = bf \o (qs \o s)
  <2>1. Release(k) = Main(k).release /\ Main(k) = latency(k = "latency")
    <3>1. k \notin {"id_user", "id_module", "id_smartio", "read_module", "read_smartio",
                    "integrity", "rpc_server", "rpc_client"}
      BY DEF LatKinds
    <3> QED BY <1>1, <3>1, ProgramIs DEF Main
  <2>2. latency(k = "latency").release = (bf \o qs) \o s
    BY DEF latency, Prog, bf, BufferDtor, qs, d, e, cd, s, SISCI, remote
  <2>3. Regroup(bf, qs, s)
    BY <1>1, <1>6, <1>9, Regroups
  <2>4. (bf \o qs) \o s = bf \o (qs \o s)
    BY <2>3, Zenon DEF Regroup
  <2> QED BY <2>1, <2>2, <2>4, Zenon
<1>16. Release(k) \in Seq(Res) /\ Frees(k, "release", {}, B, Release(k))
  BY <1>8, <1>15 DEF Held
<1> QED BY <1>11, <1>12, <1>13, <1>14, <1>16, LatTrace

-----------------------------------------------------------------------------
(* Calls follow their traces *)

\* What is still to be released after the first release
LEMMA ElemsTail ==
    ASSUME NEW l \in Seq(Res), l # <<>>
    PROVE  Elems(l) = {Head(l)} \union Elems(Tail(l))
<1>1. Head(l) \in Res /\ Tail(l) \in Seq(Res) /\ l = <<Head(l)>> \o Tail(l)
  OBVIOUS
<1>2. Elems(<<Head(l)>> \o Tail(l)) = {Head(l)} \union Elems(Tail(l))
  BY <1>1, ConsElems
<1> QED BY <1>1, <1>2

\* A call between two releases, or that has none to do
LEMMA Idle ==
    ASSUME NEW x \in Object(AllKinds), NEW f, Follows(x, f), x.todo = <<>>
    PROVE  /\ Core(x.held) \ Elems(x.todo) = Core(x.held)
           /\ Rests(x.kind, Phase(x) = "throw", Core(x.held))
           /\ x.st # "release" => Core(x.held) = f[x.pos]
<1>1. Elems(<<>>) = {} /\ Len(<<>>) = 0
  BY FirstZero DEF Elems
<1>2. Core(x.held) \ First(x.todo, 0) = Core(x.held) /\ 0 \in 0..Len(x.todo)
  BY <1>1, FirstZero
<1>3. Rests(x.kind, Phase(x) = "throw", Core(x.held))
  BY <1>2 DEF Follows, Rel
<1> QED BY <1>1, <1>3 DEF Follows, Holds

\* A call starts.
LEMMA StartFollows ==
    ASSUME NEW k \in AllKinds, NEW f, IsTrace(k, f), NEW x,
           x.st = "build", x.kind = k, x.pos = 1, x.held = {}, x.todo = <<>>, Rests(k, FALSE, {})
    PROVE  Follows(x, f)
<1>1. Len(Program(k)) \in Nat /\ 1 \in 1..Final(k) /\ f[1] = {}
  BY DEF IsTrace, Final
<1>2. TriedBy(x) = {} /\ Core({}) = {} /\ Elems(<<>>) = {} /\ Phase(x) = "build"
  BY FirstZero DEF TriedBy, Core, Elems, Phase
<1>3. Rel(k, "build", At(k, f[1]), {}, <<>>)
  <2>1. ("build" = "throw") = FALSE
    OBVIOUS
  <2> QED BY <2>1, RelNil
<1>4. Holds(x, f)
  BY <1>1, <1>2 DEF Holds
<1> QED BY <1>1, <1>2, <1>3, <1>4 DEF Follows, Serves

\* The step a call is at
LEMMA AtStepIs ==
    ASSUME NEW x \in Object(AllKinds), NEW f, IsTrace(x.kind, f), Follows(x, f),
           x.st = "build", x.todo = <<>>, x.pos <= Len(Program(x.kind))
    PROVE  LET p == x.pos
               s == Program(x.kind)[p]
           IN /\ p \in 1..Len(Program(x.kind)) /\ Len(Program(x.kind)) \in Nat /\ s \in Steps
              /\ \/ StepOk(x.kind, Built(p), f, s, p, Len(Program(x.kind)))
                 \/ TakesBindings(x.kind, f, p)
              /\ Core(x.held) = f[p] /\ Rests(x.kind, FALSE, f[p]) /\ Bindings \notin x.held
<1>1. Program(x.kind) \in Seq(Steps)
  BY DEF IsTrace
<1>2. x.pos \in 1..Len(Program(x.kind)) /\ Len(Program(x.kind)) \in Nat
  BY <1>1 DEF Follows, Final
<1>3. Core(x.held) = f[x.pos] /\ Rests(x.kind, FALSE, f[x.pos])
  <2>1. (Phase(x) = "throw") = FALSE
    BY DEF Phase
  <2> QED BY <2>1, Idle
<1>4. Bindings \notin x.held
  BY <1>2 DEF Follows, Serves, Final
<1>5. Program(x.kind)[x.pos] \in Steps
  BY <1>1, <1>2
<1> QED BY <1>2, <1>3, <1>4, <1>5 DEF IsTrace

\* What has been tried, one step further
LEMMA TriedNext ==
    ASSUME NEW x, NEW y, NEW p \in Nat, x.pos = p, y.pos = p + 1, p >= 1, y.kind = x.kind
    PROVE  TriedBy(y) = TriedBy(x) \union ({Program(x.kind)[p].get} \ {None})
<1>1. 1..((p + 1) - 1) = 1..(p - 1) \union {p}
  OBVIOUS
<1> QED BY <1>1 DEF TriedBy

\* A step succeeds.
LEMMA ProceedFollows ==
    ASSUME NEW x \in Object(AllKinds), NEW y \in Object(AllKinds), NEW f, IsTrace(x.kind, f),
           Follows(x, f),
           x.st = "build", x.todo = <<>>, x.pos <= Len(Program(x.kind)),
           Program(x.kind)[x.pos].drop = <<>>,
           y.st = "build", y.kind = x.kind, y.todo = <<>>, y.pos = x.pos + 1,
           y.held = x.held \union ({Program(x.kind)[x.pos].get} \ {None})
    PROVE  Follows(y, f)
<1> DEFINE p == x.pos
           s == Program(x.kind)[p]
           n == Len(Program(x.kind))
<1>1. /\ p \in 1..n /\ n \in Nat /\ s \in Steps
      /\ StepOk(x.kind, Built(p), f, s, p, n) \/ TakesBindings(x.kind, f, p)
      /\ Core(x.held) = f[p] /\ Rests(x.kind, FALSE, f[p]) /\ Bindings \notin x.held
  BY AtStepIs
<1>2. p + 1 \in 1..Final(x.kind) /\ p \in Nat /\ p >= 1
  BY <1>1 DEF Final
<1>3. TriedBy(y) = TriedBy(x) \union ({s.get} \ {None})
  BY <1>2, TriedNext
<1>4. y.held \subseteq TriedBy(y)
  BY <1>3 DEF Follows
<1>5. Core(y.held) = Core(x.held) \union Core({s.get})
      /\ Core(TriedBy(y)) = Core(TriedBy(x)) \union Core({s.get})
  BY <1>3 DEF Core
<1>6. Phase(y) = "build" /\ Elems(<<>>) = {}
  BY FirstZero DEF Phase, Elems
<1> SUFFICES /\ Core(y.held) = f[p + 1] /\ Rests(y.kind, FALSE, Core(y.held)) /\ Serves(y)
             /\ y.kind \in KeepKinds => Core(TriedBy(y)) = f[p + 1]
  <2>1. Rel(y.kind, "build", At(y.kind, f[p + 1]), Core(y.held), <<>>)
    <3>1. ("build" = "throw") = FALSE
      OBVIOUS
    <3> QED BY <3>1, RelNil
  <2>2. Holds(y, f)
    BY <1>6 DEF Holds
  <2> QED BY <1>2, <1>4, <1>6, <2>1, <2>2 DEF Follows
<1>7. CASE StepOk(x.kind, Built(p), f, s, p, n)
  <2>1. /\ TakesOk(x.kind, s.get) /\ f[p + 1] = f[p] \union Core({s.get})
        /\ Rests(x.kind, FALSE, f[p + 1])
    BY <1>7 DEF StepOk
  <2>2. Core(y.held) = f[p + 1]
    BY <1>1, <1>5, <2>1
  <2>3. Bindings \notin y.held
    BY <2>1, <1>1 DEF TakesOk
  <2>4. y.kind \in KeepKinds => Core(TriedBy(y)) = f[p + 1]
    BY <1>5, <2>1 DEF Follows
  <2> QED BY <2>1, <2>2, <2>3, <2>4 DEF Serves
<1>8. CASE TakesBindings(x.kind, f, p)
  <2>1. x.kind = "rpc_server" /\ p = n /\ s.get = Bindings /\ f[p + 1] = f[p]
    BY <1>8 DEF TakesBindings
  <2>2. Core({s.get}) = {}
    BY <2>1 DEF Core, Optionals
  <2>3. Core(y.held) = f[p + 1]
    BY <2>1, <2>2, <1>1, <1>5
  <2>4. y.kind \notin KeepKinds
    BY <2>1 DEF KeepKinds, NullKinds
  <2>5. Serves(y)
    BY <2>1 DEF Serves, Final
  <2> QED BY <2>1, <2>3, <2>4, <2>5, <1>1
<1> QED BY <1>1, <1>7, <1>8

\* What a step takes, if it is not the list of binding handles
LEMMA StepTakes ==
    ASSUME NEW x \in Object(AllKinds), NEW f, IsTrace(x.kind, f), Follows(x, f),
           x.st = "build", x.todo = <<>>, x.pos <= Len(Program(x.kind))
    PROVE  LET r == Program(x.kind)[x.pos].get
           IN r = Bindings \/ r = None \/ TakesOk(x.kind, r)
<1>1. /\ StepOk(x.kind, Built(x.pos), f, Program(x.kind)[x.pos], x.pos, Len(Program(x.kind)))
         \/ TakesBindings(x.kind, f, x.pos)
  BY AtStepIs
<1>2. TakesBindings(x.kind, f, x.pos) => Program(x.kind)[x.pos].get = Bindings
  BY DEF TakesBindings
<1> QED BY <1>1, <1>2 DEF StepOk

\* A step fails, and with it the call.
LEMMA FailFollows ==
    ASSUME NEW x \in Object(AllKinds), NEW y \in Object(AllKinds), NEW f, IsTrace(x.kind, f),
           Follows(x, f),
           x.st = "build", x.todo = <<>>, x.pos <= Len(Program(x.kind)),
           Program(x.kind)[x.pos].drop = <<>>, Program(x.kind)[x.pos].get # R("ctrl", "mmap"),
           Program(x.kind)[x.pos].skip = 0,
           y.st = "release", y.kind = x.kind, y.todo = Program(x.kind)[x.pos].undo, y.pos = x.pos,
           y.held = x.held
    PROVE  Follows(y, f)
<1> DEFINE p == x.pos
           s == Program(x.kind)[p]
           n == Len(Program(x.kind))
<1>1. /\ p \in 1..n /\ n \in Nat /\ s \in Steps
      /\ StepOk(x.kind, Built(p), f, s, p, n) \/ TakesBindings(x.kind, f, p)
      /\ Core(x.held) = f[p] /\ Bindings \notin x.held
  BY AtStepIs
<1>2. StepOk(x.kind, Built(p), f, s, p, n)
  <2>1. ASSUME TakesBindings(x.kind, f, p) PROVE FALSE
    <3>1. s.skip = 1
      BY <2>1 DEF TakesBindings
    <3> QED BY <3>1
  <2> QED BY <1>1, <2>1
<1>3. Frees(x.kind, Undo(x.kind, Built(p)), At(x.kind, f[p]), f[p], s.undo)
  BY <1>2 DEF StepOk, FailOk
<1>4. Phase(y) = Undo(x.kind, Built(p)) /\ TriedBy(y) = TriedBy(x)
  BY DEF Phase, TriedBy
<1>5. Holds(y, f) /\ Rel(y.kind, Phase(y), At(y.kind, f[y.pos]), Core(y.held), y.todo)
  BY <1>1, <1>3, <1>4 DEF Holds, Frees
<1> QED BY <1>1, <1>4, <1>5 DEF Follows, Serves

\* What has been tried only grows.
LEMMA TriedGrows ==
    ASSUME NEW x, NEW y, NEW p \in Nat, NEW q \in Nat, x.pos = p, y.pos = q, p <= q, y.kind = x.kind
    PROVE  TriedBy(x) \subseteq TriedBy(y)
<1>1. 1..(p - 1) \subseteq 1..(q - 1)
  OBVIOUS
<1> QED BY <1>1 DEF TriedBy

\* A step fails and the call goes on.
LEMMA SkipFollows ==
    ASSUME NEW x \in Object(AllKinds), NEW y \in Object(AllKinds), NEW f, IsTrace(x.kind, f),
           Follows(x, f),
           x.st = "build", x.todo = <<>>, x.pos <= Len(Program(x.kind)),
           Program(x.kind)[x.pos].drop = <<>>, Program(x.kind)[x.pos].get # R("ctrl", "mmap"),
           Program(x.kind)[x.pos].skip # 0,
           y.st = "build", y.kind = x.kind, y.todo = Program(x.kind)[x.pos].undo,
           y.pos = x.pos + Program(x.kind)[x.pos].skip, y.held = x.held
    PROVE  Follows(y, f)
<1> DEFINE p == x.pos
           s == Program(x.kind)[p]
           n == Len(Program(x.kind))
<1>1. /\ p \in 1..n /\ n \in Nat /\ s \in Steps /\ s.skip \in Nat
      /\ StepOk(x.kind, Built(p), f, s, p, n) \/ TakesBindings(x.kind, f, p)
      /\ Core(x.held) = f[p] /\ Rests(x.kind, FALSE, f[p]) /\ Bindings \notin x.held
  BY AtStepIs DEF Steps
<1>2. /\ x.kind \notin KeepKinds /\ p + s.skip <= n + 1 /\ Rel(x.kind, "build", {}, f[p], s.undo)
      /\ f[p + s.skip] = f[p] \ Elems(s.undo)
  <2>1. CASE StepOk(x.kind, Built(p), f, s, p, n)
    BY <2>1 DEF StepOk, FailOk
  <2>2. CASE TakesBindings(x.kind, f, p)
    <3>1. x.kind = "rpc_server" /\ p = n /\ s.undo = <<>> /\ s.skip = 1 /\ f[p + 1] = f[p]
      BY <2>2 DEF TakesBindings
    <3>2. Elems(<<>>) = {} /\ ("build" = "throw") = FALSE
      BY FirstZero DEF Elems
    <3>3. Rel(x.kind, "build", {}, f[p], s.undo)
      BY <3>1, <3>2, <1>1, RelNil
    <3>4. x.kind \notin KeepKinds
      BY <3>1 DEF KeepKinds, NullKinds
    <3> QED BY <3>1, <3>2, <3>3, <3>4
  <2> QED BY <1>1, <2>1, <2>2
<1>3. p + s.skip \in 1..Final(x.kind) /\ p + s.skip \in Nat /\ p \in Nat /\ p <= p + s.skip
  BY <1>1, <1>2 DEF Final
<1>4. TriedBy(x) \subseteq TriedBy(y)
  BY <1>3, TriedGrows
<1>5. Phase(y) = "build" /\ At(y.kind, f[y.pos]) = {}
  BY <1>2 DEF Phase, At
<1>6. Holds(y, f)
  BY <1>1, <1>2 DEF Holds
<1> QED BY <1>1, <1>2, <1>3, <1>4, <1>5, <1>6 DEF Follows, Serves

\* A step that releases something
LEMMA DropFollows ==
    ASSUME NEW x \in Object(AllKinds), NEW y \in Object(AllKinds), NEW f, IsTrace(x.kind, f),
           Follows(x, f),
           x.st = "build", x.todo = <<>>, x.pos <= Len(Program(x.kind)),
           Program(x.kind)[x.pos].drop # <<>>,
           y.st = "build", y.kind = x.kind, y.todo = Program(x.kind)[x.pos].drop,
           y.pos = x.pos + 1, y.held = x.held
    PROVE  Follows(y, f)
<1> DEFINE p == x.pos
           s == Program(x.kind)[p]
           n == Len(Program(x.kind))
<1>1. /\ p \in 1..n /\ n \in Nat /\ s \in Steps
      /\ StepOk(x.kind, Built(p), f, s, p, n) \/ TakesBindings(x.kind, f, p)
      /\ Core(x.held) = f[p] /\ Bindings \notin x.held
  BY AtStepIs
<1>2. StepOk(x.kind, Built(p), f, s, p, n)
  <2>1. ASSUME TakesBindings(x.kind, f, p) PROVE FALSE
    <3>1. s.drop = <<>>
      BY <2>1 DEF TakesBindings
    <3> QED BY <3>1
  <2> QED BY <1>1, <2>1
<1>3. /\ x.kind \notin KeepKinds /\ Rel(x.kind, "build", {}, f[p], s.drop)
         /\ f[p + 1] = f[p] \ Elems(s.drop)
  BY <1>2 DEF StepOk
<1>4. p + 1 \in 1..Final(x.kind) /\ p + 1 \in Nat /\ p \in Nat /\ p <= p + 1
  BY <1>1 DEF Final
<1>5. TriedBy(x) \subseteq TriedBy(y)
  BY <1>4, TriedGrows
<1>6. Phase(y) = "build" /\ At(y.kind, f[y.pos]) = {}
  BY <1>3 DEF Phase, At
<1>7. Holds(y, f)
  BY <1>1, <1>3 DEF Holds
<1> QED BY <1>1, <1>3, <1>4, <1>5, <1>6, <1>7 DEF Follows, Serves

\* A constructor returns.
LEMMA ReturnFollows ==
    ASSUME NEW x \in Object(AllKinds), NEW y \in Object(AllKinds), NEW f, IsTrace(x.kind, f),
           Follows(x, f),
           x.st = "build", x.todo = <<>>, ~(x.pos <= Len(Program(x.kind))),
           y.st = "live", y.kind = x.kind, y.todo = x.todo, y.pos = x.pos, y.held = x.held
    PROVE  Follows(y, f)
<1>1. Program(x.kind) \in Seq(Steps) /\ Len(Program(x.kind)) \in Nat
  BY DEF IsTrace
<1>2. x.pos = Final(x.kind)
  BY <1>1 DEF Final, Follows
<1>3. Phase(x) = "build" /\ Phase(y) = "build" /\ TriedBy(y) = TriedBy(x)
  BY DEF Phase, TriedBy
<1>4. Holds(y, f)
  BY DEF Follows, Holds
<1> QED BY <1>2, <1>3, <1>4 DEF Follows, Serves

\* A handle is released.
LEMMA ReleaseFollows ==
    ASSUME NEW x \in Object(AllKinds), NEW y \in Object(AllKinds), NEW f, IsTrace(x.kind, f),
           Follows(x, f),
           x.st = "live",
           y.st = "release", y.kind = x.kind, y.todo = Release(x.kind), y.pos = x.pos,
                 y.held = x.held
    PROVE  Follows(y, f)
<1>1. x.todo = <<>> /\ x.pos = Final(x.kind)
  BY DEF Follows
<1>2. Core(x.held) = f[x.pos]
  BY <1>1, Idle
<1>3. Phase(y) = "release" /\ TriedBy(y) = TriedBy(x)
  BY <1>1 DEF Phase, TriedBy, Undo, IsTrace
<1>4. Frees(x.kind, "release", At(x.kind, f[x.pos]), f[x.pos], Release(x.kind))
  BY <1>1 DEF IsTrace
<1>5. Holds(y, f) /\ Rel(y.kind, Phase(y), At(y.kind, f[y.pos]), Core(y.held), y.todo)
  BY <1>2, <1>3, <1>4 DEF Holds, Frees
<1>6. Serves(y)
  BY DEF Serves, Follows, IsTrace
<1> QED BY <1>1, <1>3, <1>5, <1>6 DEF Follows

\* One release, by a call that may do it
LEMMA NextFollows ==
    ASSUME NEW x \in Object(AllKinds), NEW y \in Object(AllKinds), NEW f, Follows(x, f),
           x.todo # <<>>,
           y.st = x.st, y.kind = x.kind, y.todo = Tail(x.todo), y.pos = x.pos,
           y.held = x.held \ {Head(x.todo)}
    PROVE  Follows(y, f)
<1> DEFINE r == Head(x.todo)
           C == Core(x.held)
<1>1. x.todo \in Seq(Res)
  BY DEF Object
<1>2. /\ Rel(x.kind, Phase(x), At(x.kind, f[x.pos]), C \ {r}, Tail(x.todo))
      /\ Elems(x.todo) = {r} \union Elems(Tail(x.todo))
  <2>1. Rel(x.kind, Phase(x), At(x.kind, f[x.pos]), C, x.todo)
    BY DEF Follows
  <2> DEFINE l == x.todo
             at == At(x.kind, f[x.pos])
  <2>2. l \in Seq(Res) /\ l # <<>> /\ Rel(x.kind, Phase(x), at, C, l)
    BY <1>1, <2>1
  <2> HIDE DEF C, l, at
  <2>3. Rel(x.kind, Phase(x), at, C \ {Head(l)}, Tail(l))
    BY <2>2, RelTail
  <2>4. Elems(l) = {Head(l)} \union Elems(Tail(l))
    BY <2>2, ElemsTail
  <2> QED BY <2>3, <2>4 DEF l, at
<1>3. Core(y.held) = C \ {r} /\ Core(y.held) \ Elems(y.todo) = C \ Elems(x.todo)
  BY <1>2 DEF Core
<1>4. Phase(y) = Phase(x) /\ TriedBy(y) = TriedBy(x)
  BY DEF Phase, TriedBy
<1>5. Holds(y, f)
  BY <1>3, <1>4 DEF Holds, Follows
<1>6. Serves(y)
  BY <1>2 DEF Serves, Follows
<1> QED BY <1>2, <1>3, <1>4, <1>5, <1>6 DEF Follows

\* A release that may not be done is one of the known ones.
LEMMA ReleaseKnown ==
    ASSUME NEW x \in Object(AllKinds), NEW f, Follows(x, f), x.todo # <<>>,
           ~Releasable(Head(x.todo), x.held, TriedBy(x))
    PROVE  /\ x.st = "release"
           /\ \/ x.kind \in KernKinds /\ R("dma", "mem") \notin x.held
              \/ x.kind = "id_user" /\ loc("locked") \in TriedBy(x)
                    /\ loc("aq_mem") \notin TriedBy(x)
<1> DEFINE r == Head(x.todo)
           C == Core(x.held)
           at == At(x.kind, f[x.pos])
<1>1. Harmless(x.kind, at, r, C) \/ Known(x.kind, Phase(x), at, C)
  <2>1. x.todo \in Seq(Res)
    BY DEF Object
  <2> QED BY <2>1, RelTail DEF Follows
<1>2. C \subseteq x.held
  BY DEF Core
<1>3. x.kind \in KeepKinds => at = Core(TriedBy(x))
  BY DEF Follows, At
<1>4. ~Harmless(x.kind, at, r, C)
  <2>1. SUFFICES ASSUME Harmless(x.kind, at, r, C) PROVE FALSE
    OBVIOUS
  <2>2. r[1] \in InMemory => R(r[1], "mem") \in x.held
    BY <2>1, <1>2 DEF Harmless, Releasable
  <2>3. r \notin x.held \union Conditional
    BY <2>2 DEF Releasable
  <2>4. x.kind \in NullKinds /\ r[1] = "var" /\ r \notin at
    BY <2>1, <2>3, <1>2 DEF Harmless, Releasable
  <2>5. r \in TriedBy(x)
    BY <2>2, <2>4 DEF Releasable
  <2>6. r \notin Optionals /\ r # None
    <3>1. SISCI \in Conditional /\ Bindings \in Conditional
      BY DEF SISCI, Bindings, var, R, Conditional
    <3>2. None[1] = ""
      BY DEF None
    <3> QED BY <2>3, <2>4, <3>1, <3>2 DEF Optionals
  <2>7. r \in Core(TriedBy(x))
    BY <2>5, <2>6 DEF Core
  <2> QED BY <2>4, <2>7, <1>3 DEF KeepKinds
<1>5. Known(x.kind, Phase(x), at, C)
  BY <1>1, <1>4
<1>6. x.st = "release"
  BY <1>5 DEF Known, Phase
<1>7. CASE x.kind \in KernKinds /\ R("dma", "mem") \notin C
  <2>1. R("dma", "mem") \notin Optionals /\ R("dma", "mem") # None
    BY DEF Optionals, SISCI, Bindings, var, R, None
  <2> QED BY <2>1, <1>6, <1>7 DEF Core
<1>8. CASE x.kind = "id_user" /\ loc("locked") \in at /\ loc("aq_mem") \notin at
  <2>1. loc("aq_mem") \notin Optionals /\ loc("aq_mem") # None
    BY DEF Optionals, SISCI, Bindings, var, loc, R, None
  <2>2. x.kind \in KeepKinds
    BY <1>8 DEF KeepKinds
  <2>3. loc("locked") \in TriedBy(x) /\ loc("aq_mem") \notin TriedBy(x)
    BY <2>1, <2>2, <1>3, <1>8 DEF Core
  <2> QED BY <2>3, <1>6, <1>8
<1> QED BY <1>5, <1>7, <1>8 DEF Known

\* Every constructor has a trace.
Sound == \A k \in AllKinds : (\E f : IsTrace(k, f)) /\ Rests(k, FALSE, {})

\* The trace of a constructor is one.
LEMMA TraceIs == ASSUME Sound, NEW k \in AllKinds PROVE IsTrace(k, Trace(k)) /\ Rests(k, FALSE, {})
BY DEF Sound, Trace

\* An object in use is not Nothing.
LEMMA NothingIs == ASSUME NEW x \in Object(AllKinds) PROVE x # Nothing /\ x.st # "none"
BY DEF Object, Nothing

\* Objects in use, and the others
LEMMA InUse ==
    ASSUME ObjTyped, NEW o \in Objects
    PROVE  /\ o \in Using => obj[o] \in Object(AllKinds) /\ obj[o].kind \in KindsOf(o)
           /\ o \notin Using => obj[o] = Nothing /\ obj[o].held = {}
<1>1. obj[o] \in {Nothing} \union Object(AllKinds)
  BY DEF ObjTyped
<1>2. Nothing.st = "none" /\ Nothing.held = {}
  BY DEF Nothing
<1>3. CASE obj[o] = Nothing
  BY <1>2, <1>3 DEF Using
<1>4. CASE obj[o] \in Object(AllKinds)
  BY <1>4, NothingIs DEF Using, ObjTyped
<1> QED BY <1>1, <1>3, <1>4

\* An object changes to y.
LEMMA OneChanges ==
    ASSUME ObjTyped, Following, NEW o \in Objects, NEW y \in {Nothing} \union Object(AllKinds),
           DOMAIN obj' = Objects, obj' = [p \in Objects |-> obj'[p]],
           obj'[o] = y, \A p \in Objects : p # o => obj'[p] = obj[p],
           y # Nothing => y.kind \in KindsOf(o) /\ Follows(y, Trace(y.kind)) /\ Described(y)
    PROVE  /\ ObjTyped' /\ Following'
           /\ \A p \in Objects : p # o => (p \in Using' <=> p \in Using)
           /\ o \in Using' <=> y # Nothing
<1>1. obj' \in [Objects -> {Nothing} \union Object(AllKinds)]
  <2>1. \A p \in Objects : obj'[p] \in {Nothing} \union Object(AllKinds)
    BY DEF ObjTyped
  <2> HIDE DEF ObjTyped
  <2> QED BY <2>1
<1>2. ObjTyped'
  BY <1>1 DEF ObjTyped, KindsOf
<1>3. Nothing.st = "none"
  BY DEF Nothing
<1>4. o \in Using' <=> y # Nothing
  BY <1>3, NothingIs DEF Using
<1>5. \A p \in Objects : p # o => (p \in Using' <=> p \in Using)
  BY DEF Using
<1>6. ASSUME NEW p \in Using' PROVE Follows(obj'[p], Trace(obj'[p].kind)) /\ Described(obj'[p])
  <2>1. CASE p = o
    BY <2>1, <1>4
  <2>2. CASE p # o
    <3>1. p \in Objects /\ p \in Using /\ obj'[p] = obj[p]
      BY <2>2, <1>5 DEF Using
    <3> QED BY <3>1 DEF Following
  <2> QED BY <2>1, <2>2
<1>7. Following'
  BY <1>6 DEF Following, Follows, Described, Holds, Serves, Phase, TriedBy
<1> QED BY <1>2, <1>4, <1>5, <1>7

\* The change leaves what the module has mapped alone.
LEMMA PinsKept ==
    ASSUME ObjTyped, Mapped, NEW o \in Using, o \in Using',
           \A p \in Objects : p # o => obj'[p] = obj[p] /\ (p \in Using' <=> p \in Using),
           obj'[o].kind = obj[o].kind, obj'[o].via = obj[o].via, obj'[o].va = obj[o].va,
           Pinned(o)' <=> Pinned(o), kmaps' = kmaps, foreign \subseteq foreign'
    PROVE  Mapped'
<1>0. o \in Objects /\ Using \subseteq Objects /\ Using' \subseteq Objects
  BY DEF Using
<1>1. \A p \in Objects : p \in Using' <=> p \in Using
  BY <1>0
<1>2. Using' = Using
  BY <1>0, <1>1
<1>3. \A p \in Using : /\ obj'[p].kind = obj[p].kind /\ obj'[p].via = obj[p].via
                          /\ obj'[p].va = obj[p].va
                       /\ Pinned(p)' <=> Pinned(p)
  BY <1>0 DEF Pinned
<1>4. Kernel' = Kernel
  BY <1>2, <1>3 DEF Kernel
<1>5. PinnedMapped'
  BY <1>2, <1>3, <1>4 DEF Mapped, PinnedMapped
<1>6. MappedPinned'
  <2>1. ASSUME NEW c \in Ctrls, NEW m \in kmaps'[c]
        PROVE  \/ m.by \in Using' /\ Pinned(m.by)' /\ obj'[m.by].via = c /\ obj'[m.by].va = m.va
               \/ <<c, m.va>> \in foreign'
    <3>1. \/ m.by \in Using /\ Pinned(m.by) /\ obj[m.by].via = c /\ obj[m.by].va = m.va
          \/ <<c, m.va>> \in foreign
      BY <2>1 DEF Mapped, MappedPinned
    <3> QED BY <3>1, <1>2, <1>3
  <2> QED BY <2>1 DEF MappedPinned
<1>7. AddressedOnce'
  BY <1>3, <1>4 DEF Mapped, AddressedOnce, Kernel
<1> QED BY <1>5, <1>6, <1>7 DEF Mapped

\* An object is made.
LEMMA PinsMade ==
    ASSUME ObjTyped, Mapped, NEW o \in Objects, o \notin Using, o \in Using',
           \A p \in Objects : p # o => obj'[p] = obj[p] /\ (p \in Using' <=> p \in Using),
           obj'[o].held = {}, kmaps' = kmaps, foreign' = foreign,
           obj'[o].kind \in KernKinds =>
               /\ obj'[o].va \in VAddrs
               /\ \A g \in Kernel : obj[g].via = obj'[o].via => obj[g].va # obj'[o].va
    PROVE  Mapped'
<1>0. Using \subseteq Objects /\ Using' \subseteq Objects
  BY DEF Using
<1>1. Using' = Using \union {o} /\ ~Pinned(o)'
  BY <1>0 DEF Pinned
<1>2. \A p \in Using : p # o /\ obj'[p] = obj[p]
  BY <1>0
<1>3. Kernel' \ {o} = Kernel /\ o \notin Kernel
  BY <1>1, <1>2 DEF Kernel
<1>4. PinnedMapped'
  <2>1. ASSUME NEW h \in Using', Pinned(h)'
        PROVE  h \in Kernel' /\ [va |-> obj'[h].va, by |-> h] \in kmaps'[obj'[h].via]
    <3>1. h \in Using /\ obj'[h] = obj[h]
      BY <2>1, <1>1, <1>2
    <3>2. Pinned(h)
      BY <2>1, <3>1 DEF Pinned
    <3> QED BY <3>1, <3>2, <1>3 DEF Mapped, PinnedMapped
  <2> QED BY <2>1 DEF PinnedMapped
<1>5. MappedPinned'
  <2>1. ASSUME NEW c \in Ctrls, NEW m \in kmaps'[c]
        PROVE  \/ m.by \in Using' /\ Pinned(m.by)' /\ obj'[m.by].via = c /\ obj'[m.by].va = m.va
               \/ <<c, m.va>> \in foreign'
    <3>1. \/ m.by \in Using /\ Pinned(m.by) /\ obj[m.by].via = c /\ obj[m.by].va = m.va
          \/ <<c, m.va>> \in foreign
      BY <2>1 DEF Mapped, MappedPinned
    <3>2. m.by \in Using => obj'[m.by] = obj[m.by] /\ (Pinned(m.by)' <=> Pinned(m.by))
      BY <1>2 DEF Pinned
    <3> QED BY <3>1, <3>2, <1>1
  <2> QED BY <2>1 DEF MappedPinned
<1>6. AddressedOnce'
  <2>1. ASSUME NEW g \in Kernel', NEW h \in Kernel', g # h, obj'[g].via = obj'[h].via
        PROVE  obj'[g].va # obj'[h].va
    <3>1. \A p \in Kernel : obj'[p] = obj[p]
      BY <1>2 DEF Kernel
    <3>2. o \in Kernel' => obj'[o].kind \in KernKinds
      BY DEF Kernel
    <3>3. CASE g = o
      BY <2>1, <3>1, <3>2, <3>3, <1>3
    <3>4. CASE h = o
      BY <2>1, <3>1, <3>2, <3>4, <1>3
    <3>5. CASE g # o /\ h # o
      BY <2>1, <3>1, <3>5, <1>3 DEF Mapped, AddressedOnce
    <3> QED BY <3>3, <3>4, <3>5
  <2>2. ASSUME NEW h \in Kernel' PROVE obj'[h].va \in VAddrs
    <3>1. CASE h = o
      BY <3>1 DEF Kernel
    <3>2. CASE h # o
      <4>1. h \in Kernel /\ obj'[h] = obj[h]
        BY <3>2, <1>2, <1>3 DEF Kernel
      <4> QED BY <4>1 DEF Mapped, AddressedOnce
    <3> QED BY <3>1, <3>2
  <2> QED BY <2>1, <2>2 DEF AddressedOnce
<1> QED BY <1>4, <1>5, <1>6 DEF Mapped

-----------------------------------------------------------------------------
(* The actions *)

Ready == ObjTyped /\ ModTyped /\ Following /\ Mapped /\ fault = Fine

\* As long as nothing is wrong
LEMMA NoFault == ASSUME fault' = Fine PROVE FaultsKnown'
BY DEF FaultsKnown

\* Kinds of controllers and of DMA handles are different.
LEMMA KindSets ==
    /\ CtrlKinds \cap ProgKinds = {} /\ CtrlKinds \cap DmaKinds = {} /\ ProgKinds \cap DmaKinds = {}
    /\ KernKinds \subseteq DmaKinds
    /\ CtrlKinds \subseteq AllKinds /\ ProgKinds \subseteq AllKinds /\ DmaKinds \subseteq AllKinds
BY DEF CtrlKinds, ProgKinds, DmaKinds, KernKinds, DisKinds, SegKinds, LatKinds, AllKinds

\* What the module maps is mapped for DMA handles.
LEMMA KernelHandles ==
    ASSUME ObjTyped, NEW h \in Kernel
    PROVE  h \in Handles /\ h \in Objects /\ obj[h] \in Object(AllKinds) /\ obj[h].st # "none"
<1>1. h \in Objects /\ h \in Using /\ obj[h].kind \in KernKinds
  BY DEF Kernel, Using
<1>2. obj[h] \in Object(AllKinds) /\ obj[h].kind \in KindsOf(h)
  BY <1>1, InUse
<1> QED BY <1>1, <1>2, KindSets DEF KindsOf, Objects, Using

\* A call starts.
LEMMA Begins ==
    ASSUME Sound, Ready, NEW o \in Objects, NEW k \in KindsOf(o), NEW t \in Threads,
           NEW c \in Ctrls,
           NEW va \in VAddrs \union {0}, NEW size \in Nat, NEW md \in [page : Nat, n : Nat],
           obj[o].st = "none", obj' = [obj EXCEPT ![o] = New(k, t, c, va, size, md)],
           k \in DmaKinds => \E page \in RawPages \union {0} : md = Descriptor(k, size, page),
           k \in KernKinds => va \in VAddrs /\ \A g \in Kernel : obj[g].via = c => obj[g].va # va,
           UNCHANGED <<kmaps, fault, foreign>>, ufd' \in [Ctrls -> BOOLEAN],
                 opener' \in [Ctrls -> Threads]
    PROVE  IInv'
<1> DEFINE y == New(k, t, c, va, size, md)
<1>1. k \in AllKinds
  BY DEF KindsOf, AllKinds
<1>2. y \in Object(AllKinds)
  <2>1. <<>> \in Seq(Res) /\ {} \in SUBSET Res /\ 1 \in Nat /\ md.n \in Nat
    OBVIOUS
  <2> QED BY <1>1, <2>1 DEF New, Object
<1>3. /\ y.st = "build" /\ y.kind = k /\ y.pos = 1 /\ y.held = {} /\ y.todo = <<>> /\ y.va = va
         /\ y.via = c
      /\ y.size = size /\ y.md = md /\ y.got = md.n
  BY DEF New
<1> HIDE DEF y
<1>4. Follows(y, Trace(y.kind))
  BY <1>1, <1>3, TraceIs, StartFollows
<1>5. Described(y)
  <2>1. md.n \in 0..md.n
    OBVIOUS
  <2> QED BY <2>1, <1>3 DEF Described
<1>6. y # Nothing
  BY <1>2, NothingIs
<1>7. /\ DOMAIN obj' = Objects /\ obj' = [p \in Objects |-> obj'[p]]
      /\ obj'[o] = y /\ \A p \in Objects : p # o => obj'[p] = obj[p]
  BY DEF y, Ready, ObjTyped
<1>8. /\ ObjTyped' /\ Following' /\ o \in Using'
      /\ \A p \in Objects : p # o => (p \in Using' <=> p \in Using)
  BY <1>2, <1>3, <1>4, <1>5, <1>6, <1>7, OneChanges DEF Ready
<1>9. o \notin Using
  BY DEF Using
<1>10. Mapped'
  BY <1>3, <1>7, <1>8, <1>9, PinsMade DEF Ready
<1>11. ModTyped'
  BY DEF Ready, ModTyped
<1> QED BY <1>8, <1>10, <1>11, NoFault DEF IInv, Ready

\* CtrlInit keeps the invariant.
LEMMA CtrlInitKeeps ==
    ASSUME Sound, Ready, NEW c \in Ctrls, NEW t \in Threads, NEW k \in CtrlKinds, CtrlInit(c, t, k)
    PROVE  IInv'
<1>1. c \in Objects /\ k \in KindsOf(c) /\ k \notin DmaKinds /\ k \notin KernKinds
  BY KindSets DEF Objects, KindsOf
<1>2. /\ obj[c].st = "none" /\ obj' = [obj EXCEPT ![c] = New(k, t, c, 0, 0, NoMd)]
      /\ UNCHANGED <<kmaps, fault, foreign>>
  BY DEF CtrlInit
<1>3. ufd' \in [Ctrls -> BOOLEAN] /\ opener' \in [Ctrls -> Threads]
  <2>1. (k = "sysfs") \in BOOLEAN
    OBVIOUS
  <2> QED BY <2>1 DEF CtrlInit, Ready, ModTyped
<1>4. NoMd \in [page : Nat, n : Nat] /\ 0 \in Nat /\ 0 \in VAddrs \union {0}
  BY DEF NoMd
<1> QED BY <1>1, <1>2, <1>3, <1>4, Begins

\* Start keeps the invariant.
LEMMA StartKeeps ==
    ASSUME Sound, Ready, NEW c \in Ctrls, NEW t \in Threads, NEW k \in ProgKinds, Start(c, t, k)
    PROVE  IInv'
<1>1. c \in Objects /\ k \in KindsOf(c) /\ k \notin DmaKinds /\ k \notin KernKinds
  BY KindSets DEF Objects, KindsOf
<1>2. /\ obj[c].st = "none" /\ obj' = [obj EXCEPT ![c] = New(k, t, c, 0, 0, NoMd)]
      /\ UNCHANGED <<kmaps, fault, foreign>>
  BY <1>1 DEF Start, Alone
<1>3. ufd' \in [Ctrls -> BOOLEAN] /\ opener' \in [Ctrls -> Threads]
  BY DEF Start, Ready, ModTyped
<1>4. NoMd \in [page : Nat, n : Nat] /\ 0 \in Nat /\ 0 \in VAddrs \union {0}
  BY DEF NoMd
<1> QED BY <1>1, <1>2, <1>3, <1>4, Begins

\* Rounding up gives a number.
LEMMA CeilNat ==
    ASSUME NEW size \in Nat, NEW page \in Nat \ {0}
    PROVE  Ceil(size, page) \in Nat /\ page * Ceil(size, page) \in Nat
<1>1. size + page - 1 \in Nat
  OBVIOUS
<1>2. (size + page - 1) \div page \in Nat
  BY <1>1
<1> DEFINE q == (size + page - 1) \div page
<1> HIDE DEF q
<1>3. q \in Nat => page * q \in Nat
  OBVIOUS
<1> QED BY <1>2, <1>3 DEF Ceil, q

\* The pages and the page size of a descriptor
LEMMA DescriptorType ==
    ASSUME NEW k \in DmaKinds, NEW size \in Nat, NEW page \in Nat
    PROVE  Descriptor(k, size, page) \in [page : Nat, n : Nat]
<1>1. CtrlPage \in Nat \ {0} /\ GpuPage \in Nat \ {0}
  BY DmaAssumption
<1>2. /\ Ceil(size, CtrlPage) \in Nat /\ Ceil(size, GpuPage) \in Nat
         /\ Align(size, CtrlPage) \in Nat
  BY <1>1, CeilNat DEF Align
<1>3. CtrlPage * (size \div CtrlPage) \in Nat
  <2>1. size \div CtrlPage \in Nat
    BY <1>1
  <2> DEFINE q == size \div CtrlPage
  <2> HIDE DEF q
  <2>2. q \in Nat => CtrlPage * q \in Nat
    BY <1>1
  <2> QED BY <2>1, <2>2 DEF q
<1>4. 1 \in Nat
  OBVIOUS
<1> HIDE DEF Ceil, Align
<1> QED BY <1>1, <1>2, <1>3, <1>4 DEF Descriptor

\* DmaInit keeps the invariant.
LEMMA DmaInitKeeps ==
    ASSUME Sound, Ready, NEW h \in Handles, NEW t \in Threads, NEW k \in DmaKinds, DmaInit(h, t, k)
    PROVE  IInv'
<1>1. h \in Objects /\ h \notin Ctrls /\ k \in KindsOf(h)
  BY DmaAssumption DEF Objects, KindsOf
<1>2. PICK c \in Ctrls, va \in IF k \in KernKinds THEN VAddrs ELSE {0}, size \in Sizes,
           page \in IF k = "phys" THEN RawPages ELSE {0} :
         /\ k \in KernKinds => \A g \in UsedBy(c) : obj[g].va # va
         /\ obj' = [obj EXCEPT ![h] = New(k, t, c, va, size, Descriptor(k, size, page))]
  BY DEF DmaInit
<1>3. page \in RawPages \union {0} /\ page \in Nat /\ size \in Nat /\ va \in VAddrs \union {0}
  <2>1. RawPages \subseteq Nat /\ Sizes \subseteq Nat
    BY DmaAssumption
  <2> QED BY <2>1
<1>4. obj[h].st = "none" /\ UNCHANGED <<ufd, opener, kmaps, fault, foreign>>
  BY DEF DmaInit
<1>5. k \in KernKinds => va \in VAddrs /\ \A g \in Kernel : obj[g].via = c => obj[g].va # va
  <2>1. ASSUME k \in KernKinds, NEW g \in Kernel, obj[g].via = c PROVE obj[g].va # va
    <3>1. g \in UsedBy(c)
      BY <2>1, KernelHandles DEF UsedBy, Ready
    <3> QED BY <3>1, <2>1, <1>2
  <2> QED BY <2>1
<1>6. ufd' \in [Ctrls -> BOOLEAN] /\ opener' \in [Ctrls -> Threads]
  BY <1>4 DEF Ready, ModTyped
<1>7. Descriptor(k, size, page) \in [page : Nat, n : Nat]
  BY <1>3, DescriptorType
<1> DEFINE md == Descriptor(k, size, page)
<1>8. \E q \in RawPages \union {0} : md = Descriptor(k, size, q)
  BY <1>3
<1> HIDE DEF md
<1>9. md \in [page : Nat, n : Nat] /\ obj' = [obj EXCEPT ![h] = New(k, t, c, va, size, md)]
  BY <1>2, <1>7 DEF md
<1> QED BY <1>1, <1>3, <1>4, <1>5, <1>6, <1>8, <1>9, Begins

\* A call goes on from x to y; what else changes is said by the lemmas that use this one.
LEMMA Continues ==
    ASSUME Sound, Ready, NEW o \in Using, NEW y \in Object(AllKinds),
           DOMAIN obj' = Objects, obj' = [p \in Objects |-> obj'[p]],
           obj'[o] = y, \A p \in Objects : p # o => obj'[p] = obj[p],
           y.kind = obj[o].kind, y.size = obj[o].size, y.md = obj[o].md,
           y.got \in 0..obj[o].md.n, Follows(y, Trace(y.kind)),
           R("dma", "mem") \in y.held => R("dma", "mem") \in obj[o].held \/ Fits(y.md)
    PROVE  /\ ObjTyped' /\ Following' /\ o \in Using'
           /\ \A p \in Objects : p # o => (p \in Using' <=> p \in Using)
<1>1. o \in Objects /\ obj[o] \in Object(AllKinds) /\ obj[o].kind \in KindsOf(o)
  BY InUse DEF Using, Ready
<1>2. Described(obj[o])
  BY DEF Ready, Following
<1>3. Described(y)
  BY <1>2 DEF Described
<1>4. y # Nothing
  BY NothingIs
<1> QED BY <1>1, <1>3, <1>4, OneChanges DEF Ready

\* A call goes on, and neither pins nor unpins.
LEMMA Continue ==
    ASSUME Sound, Ready, NEW o \in Using, NEW y \in Object(AllKinds),
           DOMAIN obj' = Objects, obj' = [p \in Objects |-> obj'[p]],
           obj'[o] = y, \A p \in Objects : p # o => obj'[p] = obj[p],
           y.kind = obj[o].kind, y.size = obj[o].size, y.md = obj[o].md, y.via = obj[o].via,
                 y.va = obj[o].va,
           y.got \in 0..obj[o].md.n, Follows(y, Trace(y.kind)),
           R("dma", "mem") \in y.held => R("dma", "mem") \in obj[o].held \/ Fits(y.md),
           R("md", "pages") \in y.held <=> R("md", "pages") \in obj[o].held,
           UNCHANGED <<ufd, opener, kmaps, fault, foreign>>
    PROVE  IInv'
<1>1. /\ ObjTyped' /\ Following' /\ o \in Using'
      /\ \A p \in Objects : p # o => (p \in Using' <=> p \in Using)
  BY Continues
<1>2. Pinned(o)' <=> Pinned(o)
  BY DEF Pinned
<1>3. Mapped'
  BY <1>1, <1>2, PinsKept DEF Ready
<1>4. ModTyped'
  BY DEF Ready, ModTyped
<1> QED BY <1>1, <1>3, <1>4, NoFault DEF IInv, Ready

\* The object of a step
LEMMA StepObject ==
    ASSUME Sound, Ready, NEW o \in Objects, obj[o].st # "none"
    PROVE  /\ o \in Using /\ obj[o] \in Object(AllKinds) /\ obj[o].kind \in AllKinds
           /\ IsTrace(obj[o].kind, Trace(obj[o].kind)) /\ Follows(obj[o], Trace(obj[o].kind))
           /\ Described(obj[o]) /\ Program(obj[o].kind) \in Seq(Steps)
           /\ obj \in [Objects -> {Nothing} \union Object(AllKinds)]
<1>1. o \in Using
  BY DEF Using
<1>2. obj[o] \in Object(AllKinds) /\ obj[o].kind \in AllKinds
  BY <1>1, InUse DEF Ready, KindsOf, AllKinds
<1>3. IsTrace(obj[o].kind, Trace(obj[o].kind))
  BY <1>2, TraceIs
<1> QED BY <1>1, <1>2, <1>3 DEF Ready, Following, ObjTyped, IsTrace

\* StepDrops keeps the invariant.
LEMMA StepDropsKeeps ==
    ASSUME Sound, Ready, NEW o \in Objects, StepDrops(o)
    PROVE  IInv'
<1> DEFINE x == obj[o]
           y == [x EXCEPT !.pos = x.pos + 1, !.todo = Program(x.kind)[x.pos].drop]
<1>1. /\ x.st = "build" /\ x.todo = <<>> /\ x.pos <= Len(Program(x.kind))
         /\ Program(x.kind)[x.pos].drop # <<>>
      /\ UNCHANGED <<ufd, opener, kmaps, fault, foreign>>
  BY DEF StepDrops, AtStep, Step
<1>2. /\ o \in Using /\ x \in Object(AllKinds) /\ IsTrace(x.kind, Trace(x.kind))
         /\ Follows(x, Trace(x.kind))
      /\ Described(x) /\ obj \in [Objects -> {Nothing} \union Object(AllKinds)]
  BY <1>1, StepObject
<1>3. /\ x.pos \in Nat /\ Program(x.kind)[x.pos].drop \in Seq(Res)
  BY <1>1, <1>2, AtStepIs DEF Object, Steps
<1>4. obj' = [obj EXCEPT ![o] = y]
  BY DEF StepDrops, Step
<1>5. /\ DOMAIN obj' = Objects /\ obj' = [p \in Objects |-> obj'[p]]
      /\ obj'[o] = y /\ \A p \in Objects : p # o => obj'[p] = obj[p]
  <2> HIDE DEF y
  <2> QED BY <1>2, <1>4
<1>6. y \in Object(AllKinds)
  <2> DEFINE d == Program(x.kind)[x.pos].drop
             q == x.pos + 1
  <2>1. d \in Seq(Res) /\ q \in Nat
    BY <1>3
  <2> HIDE DEF d, q
  <2>2. [x EXCEPT !.pos = q, !.todo = d] \in Object(AllKinds)
    BY <1>2, <2>1 DEF Object
  <2> QED BY <2>2 DEF d, q
<1>7. /\ y.st = "build" /\ y.kind = x.kind /\ y.pos = x.pos + 1 /\ y.held = x.held
      /\ y.todo = Program(x.kind)[x.pos].drop
      /\ y.size = x.size /\ y.md = x.md /\ y.got = x.got /\ y.via = x.via /\ y.va = x.va
  BY <1>1, <1>2 DEF Object
<1> HIDE DEF y
<1>8. Follows(y, Trace(y.kind))
  BY <1>1, <1>2, <1>6, <1>7, DropFollows
<1> QED BY <1>1, <1>2, <1>5, <1>6, <1>7, <1>8, Continue DEF Described

\* Return keeps the invariant.
LEMMA ReturnKeeps ==
    ASSUME Sound, Ready, NEW o \in Objects, Return(o)
    PROVE  IInv'
<1> DEFINE x == obj[o]
           y == [x EXCEPT !.st = "live"]
<1>1. /\ x.st = "build" /\ x.todo = <<>> /\ ~(x.pos <= Len(Program(x.kind)))
      /\ UNCHANGED <<ufd, opener, kmaps, fault, foreign>>
  BY DEF Return, AtStep
<1>2. /\ o \in Using /\ x \in Object(AllKinds) /\ IsTrace(x.kind, Trace(x.kind))
         /\ Follows(x, Trace(x.kind))
      /\ Described(x) /\ obj \in [Objects -> {Nothing} \union Object(AllKinds)]
  BY <1>1, StepObject
<1>4. obj' = [obj EXCEPT ![o] = y]
  BY DEF Return
<1>5. /\ DOMAIN obj' = Objects /\ obj' = [p \in Objects |-> obj'[p]]
      /\ obj'[o] = y /\ \A p \in Objects : p # o => obj'[p] = obj[p]
  <2> HIDE DEF y
  <2> QED BY <1>2, <1>4
<1>6. y \in Object(AllKinds)
  BY <1>2 DEF Object
<1>7. /\ y.st = "live" /\ y.kind = x.kind /\ y.pos = x.pos /\ y.held = x.held
      /\ y.todo = x.todo
      /\ y.size = x.size /\ y.md = x.md /\ y.got = x.got /\ y.via = x.via /\ y.va = x.va
  BY <1>2 DEF Object
<1> HIDE DEF y
<1>8. Follows(y, Trace(y.kind))
  BY <1>1, <1>2, <1>6, <1>7, ReturnFollows
<1> QED BY <1>1, <1>2, <1>5, <1>6, <1>7, <1>8, Continue DEF Described

\* A handle is released, or a program ends.
LEMMA Releases ==
    ASSUME Sound, Ready, NEW o \in Objects, NEW t \in Threads, obj[o].st = "live",
           obj' = [obj EXCEPT ![o] = [obj[o] EXCEPT !.st = "release", !.who = t, !.todo
                 = Release(obj[o].kind)]],
           UNCHANGED <<ufd, opener, kmaps, fault, foreign>>
    PROVE  IInv'
<1> DEFINE x == obj[o]
           y == [x EXCEPT !.st = "release", !.who = t, !.todo = Release(x.kind)]
<1>2. /\ o \in Using /\ x \in Object(AllKinds) /\ IsTrace(x.kind, Trace(x.kind))
         /\ Follows(x, Trace(x.kind))
      /\ Described(x) /\ obj \in [Objects -> {Nothing} \union Object(AllKinds)]
  BY StepObject
<1>3. Release(x.kind) \in Seq(Res)
  BY <1>2 DEF IsTrace
<1>4. obj' = [obj EXCEPT ![o] = y]
  OBVIOUS
<1>5. /\ DOMAIN obj' = Objects /\ obj' = [p \in Objects |-> obj'[p]]
      /\ obj'[o] = y /\ \A p \in Objects : p # o => obj'[p] = obj[p]
  <2> HIDE DEF y
  <2> QED BY <1>2, <1>4
<1>6. y \in Object(AllKinds)
  BY <1>2, <1>3 DEF Object
<1>7. /\ y.st = "release" /\ y.kind = x.kind /\ y.pos = x.pos /\ y.held = x.held
      /\ y.todo = Release(x.kind)
      /\ y.size = x.size /\ y.md = x.md /\ y.got = x.got /\ y.via = x.via /\ y.va = x.va
  BY <1>2 DEF Object
<1> HIDE DEF y
<1>8. Follows(y, Trace(y.kind))
  BY <1>2, <1>6, <1>7, ReleaseFollows
<1> QED BY <1>2, <1>5, <1>6, <1>7, <1>8, Continue DEF Described

\* CtrlFree keeps the invariant.
LEMMA CtrlFreeKeeps ==
    ASSUME Sound, Ready, NEW c \in Ctrls, NEW t \in Threads, CtrlFree(c, t)
    PROVE  IInv'
<1>1. c \in Objects /\ obj[c].st = "live" /\ UNCHANGED <<ufd, opener, kmaps, fault, foreign>>
  BY DEF Objects, CtrlFree
<1>2. obj[c].kind \in CtrlKinds \union ProgKinds
  <2>1. c \in Using
    BY <1>1 DEF Using
  <2> QED BY <1>1, <2>1, InUse DEF Ready, KindsOf
<1>3. Release(obj[c].kind) = IF obj[c].kind \in ProgKinds THEN Main(obj[c].kind).release
                             ELSE nvm_ctrl_free(obj[c].kind)
  BY <1>2, KindSets DEF Release
<1>4. obj' = [obj EXCEPT ![c] = [obj[c] EXCEPT !.st = "release", !.who = t, !.todo
      = Release(obj[c].kind)]]
  BY <1>3 DEF CtrlFree
<1> QED BY <1>1, <1>4, Releases

\* DmaUnmap keeps the invariant.
LEMMA DmaUnmapKeeps ==
    ASSUME Sound, Ready, NEW h \in Handles, NEW t \in Threads, DmaUnmap(h, t)
    PROVE  IInv'
<1>1. h \in Objects /\ h \notin Ctrls /\ obj[h].st = "live"
      /\ UNCHANGED <<ufd, opener, kmaps, fault, foreign>>
  BY DmaAssumption DEF Objects, DmaUnmap
<1>2. obj[h].kind \in DmaKinds
  <2>1. h \in Using
    BY <1>1 DEF Using
  <2> QED BY <1>1, <2>1, InUse DEF Ready, KindsOf
<1>3. Release(obj[h].kind) = nvm_dma_unmap(obj[h].kind)
  BY <1>2, KindSets DEF Release
<1>4. obj' = [obj EXCEPT ![h] = [obj[h] EXCEPT !.st = "release", !.who = t, !.todo
      = Release(obj[h].kind)]]
  <2>1. obj' = [obj EXCEPT ![h] = [obj[h] EXCEPT !.st = "release", !.todo = Release(obj[h].kind),
        !.who = t]]
    BY <1>3 DEF DmaUnmap
  <2>2. obj[h] \in Object(AllKinds)
    BY <1>1, StepObject
  <2>3. [obj[h] EXCEPT !.st = "release", !.todo = Release(obj[h].kind), !.who = t]
        = [obj[h] EXCEPT !.st = "release", !.who = t, !.todo = Release(obj[h].kind)]
    BY <2>2 DEF Object
  <2> QED BY <2>1, <2>3
<1> QED BY <1>1, <1>4, Releases

\* Calls that do not go on stay where they are.
LEMMA FollowingStays == ASSUME Following, obj' = obj PROVE Following'
<1>1. Using' = Using
  BY DEF Using
<1>2. \A p \in Using' : Follows(obj'[p], Trace(obj'[p].kind)) /\ Described(obj'[p])
  BY <1>1 DEF Following
<1> QED BY <1>2 DEF Following, Follows, Described, Holds, Serves, Phase, TriedBy

\* StepFails keeps the invariant: the fault of a failed mmap is known.
LEMMA StepFailsKeeps ==
    ASSUME Sound, Ready, NEW o \in Objects, StepFails(o)
    PROVE  IInv'
<1> DEFINE x == obj[o]
           s == Program(x.kind)[x.pos]
<1>1. /\ x.st = "build" /\ x.todo = <<>> /\ x.pos <= Len(Program(x.kind)) /\ s.drop = <<>>
      /\ UNCHANGED <<ufd, opener, kmaps, foreign>>
  BY DEF StepFails, AtStep, Step
<1>2. /\ o \in Using /\ x \in Object(AllKinds) /\ IsTrace(x.kind, Trace(x.kind))
         /\ Follows(x, Trace(x.kind))
      /\ Described(x) /\ obj \in [Objects -> {Nothing} \union Object(AllKinds)]
  BY <1>1, StepObject
<1>3. CASE s.get = R("ctrl", "mmap")
  <2>1. fault' = o /\ obj' = obj
    BY <1>3 DEF StepFails, Step
  <2>2. x.kind = "sysfs"
    <3>1. s.get = Bindings \/ s.get = None \/ TakesOk(x.kind, s.get)
      BY <1>1, <1>2, StepTakes
    <3>2. s.get # Bindings /\ s.get # None
      BY <1>3 DEF Bindings, None, R
    <3> QED BY <3>1, <3>2, <1>3 DEF TakesOk
  <2>3. FaultsKnown'
    BY <2>1, <2>2, <1>1 DEF FaultsKnown
  <2>4. ObjTyped' /\ ModTyped'
    BY <2>1, <1>1 DEF Ready, ObjTyped, ModTyped, KindsOf
  <2>5. Following'
    BY <2>1, FollowingStays DEF Ready
  <2>6. Mapped'
    BY <2>1, <1>1 DEF Ready, Mapped, PinnedMapped, MappedPinned, AddressedOnce, Using,
        Kernel, Pinned
  <2> QED BY <2>3, <2>4, <2>5, <2>6 DEF IInv
<1>4. CASE s.get # R("ctrl", "mmap")
  <2> DEFINE q == x.pos + s.skip
             st == IF s.skip = 0 THEN "release" ELSE x.st
             u == s.undo
             y == [x EXCEPT !.st = st, !.pos = q, !.todo = u]
  <2>1. obj' = [obj EXCEPT ![o] = y] /\ fault' = fault
    BY <1>4 DEF StepFails, Step
  <2>2. /\ x.pos \in Nat /\ u \in Seq(Res) /\ s.skip \in Nat /\ q \in Nat
        /\ st \in {"build", "live", "release"} /\ (s.skip = 0 => q = x.pos)
    <3>1. x.pos \in Nat /\ s \in Steps
      BY <1>1, <1>2, AtStepIs DEF Object
    <3> QED BY <3>1, <1>1 DEF Steps
  <2>3. y \in Object(AllKinds)
    <3> HIDE DEF q, st, u
    <3> QED BY <1>2, <2>2 DEF Object
  <2>4. /\ y.st = st /\ y.kind = x.kind /\ y.pos = q /\ y.held = x.held /\ y.todo = u
        /\ y.size = x.size /\ y.md = x.md /\ y.got = x.got /\ y.via = x.via /\ y.va = x.va
    <3> HIDE DEF q, st, u
    <3> QED BY <1>2 DEF Object
  <2> HIDE DEF y
  <2>5. /\ DOMAIN obj' = Objects /\ obj' = [p \in Objects |-> obj'[p]]
        /\ obj'[o] = y /\ \A p \in Objects : p # o => obj'[p] = obj[p]
    BY <1>2, <2>1
  <2>6. Follows(y, Trace(y.kind))
    <3>1. CASE s.skip = 0
      BY <1>1, <1>2, <1>4, <2>2, <2>3, <2>4, <3>1, FailFollows
    <3>2. CASE s.skip # 0
      BY <1>1, <1>2, <1>4, <2>2, <2>3, <2>4, <3>2, SkipFollows
    <3> QED BY <3>1, <3>2
  <2> QED BY <1>1, <1>2, <2>1, <2>3, <2>4, <2>5, <2>6, Continue DEF Described
<1> QED BY <1>3, <1>4

\* The module has pinned the pages of a handle.
LEMMA PinsTaken ==
    ASSUME ObjTyped, Mapped, kmaps \in [Ctrls -> SUBSET [va : VAddrs, by : Handles]],
           NEW o \in Kernel, o \in Using',
           \A p \in Objects : p # o => obj'[p] = obj[p] /\ (p \in Using' <=> p \in Using),
           obj'[o].kind = obj[o].kind, obj'[o].via = obj[o].via, obj'[o].va = obj[o].va,
           Pinned(o)', foreign' = foreign,
           kmaps' = [kmaps EXCEPT ![obj[o].via] = @ \union {[va |-> obj[o].va, by |-> o]}]
    PROVE  Mapped' /\ kmaps' \in [Ctrls -> SUBSET [va : VAddrs, by : Handles]]
<1> DEFINE w == [va |-> obj[o].va, by |-> o]
           d == obj[o].via
<1>0. o \in Objects /\ o \in Using /\ Using \subseteq Objects /\ Using' \subseteq Objects
      /\ d \in Ctrls /\ o \in Handles
  BY KernelHandles DEF Kernel, Using, Object
<1>1. \A p \in Objects : p \in Using' <=> p \in Using
  BY <1>0
<1>2. Using' = Using
  BY <1>0, <1>1
<1>3. \A p \in Using : /\ obj'[p].kind = obj[p].kind /\ obj'[p].via = obj[p].via
                          /\ obj'[p].va = obj[p].va
                       /\ p # o => (Pinned(p)' <=> Pinned(p))
  BY <1>0 DEF Pinned
<1>4. Kernel' = Kernel
  BY <1>2, <1>3 DEF Kernel
<1>5. w \in [va : VAddrs, by : Handles] /\ w.by = o /\ w.va = obj[o].va
  BY <1>0 DEF Mapped, AddressedOnce
<1>6. /\ kmaps'[d] = kmaps[d] \union {w} /\ \A c \in Ctrls : c # d => kmaps'[c] = kmaps[c]
      /\ kmaps' \in [Ctrls -> SUBSET [va : VAddrs, by : Handles]]
  BY <1>0, <1>5
<1> HIDE DEF w, d
<1>7. \A c \in Ctrls : kmaps[c] \subseteq kmaps'[c] /\ \A m \in kmaps'[c] : m \in kmaps[c]
      \/ (m = w /\ c = d)
  BY <1>6
<1>8. PinnedMapped'
  <2>1. ASSUME NEW h \in Using', Pinned(h)'
        PROVE  h \in Kernel' /\ [va |-> obj'[h].va, by |-> h] \in kmaps'[obj'[h].via]
    <3>1. CASE h = o
      BY <3>1, <1>3, <1>0, <1>2, <1>4, <1>6 DEF w, d
    <3>2. CASE h # o
      <4>1. h \in Using /\ Pinned(h) /\ obj'[h].via = obj[h].via /\ obj'[h].va = obj[h].va
        BY <2>1, <3>2, <1>2, <1>3
      <4>2. h \in Kernel /\ [va |-> obj[h].va, by |-> h] \in kmaps[obj[h].via]
        BY <4>1 DEF Mapped, PinnedMapped
      <4>3. obj[h].via \in Ctrls
        BY <4>2, KernelHandles DEF Object
      <4> QED BY <4>1, <4>2, <4>3, <1>4, <1>7
    <3> QED BY <3>1, <3>2
  <2> QED BY <2>1 DEF PinnedMapped
<1>9. MappedPinned'
  <2>1. ASSUME NEW c \in Ctrls, NEW m \in kmaps'[c]
        PROVE  \/ m.by \in Using' /\ Pinned(m.by)' /\ obj'[m.by].via = c /\ obj'[m.by].va = m.va
               \/ <<c, m.va>> \in foreign'
    <3>1. CASE m = w /\ c = d
      BY <3>1, <1>0, <1>2, <1>5, <1>3 DEF d
    <3>2. CASE m \in kmaps[c]
      <4>1. \/ m.by \in Using /\ Pinned(m.by) /\ obj[m.by].via = c /\ obj[m.by].va = m.va
            \/ <<c, m.va>> \in foreign
        BY <3>2 DEF Mapped, MappedPinned
      <4>2. m.by \in Using /\ Pinned(m.by) => Pinned(m.by)'
        BY <1>3
      <4> QED BY <4>1, <4>2, <1>2, <1>3
    <3> QED BY <3>1, <3>2, <1>7
  <2> QED BY <2>1 DEF MappedPinned
<1>10. AddressedOnce'
  BY <1>3, <1>4 DEF Mapped, AddressedOnce, Kernel
<1> QED BY <1>6, <1>8, <1>9, <1>10 DEF Mapped

\* Proceed keeps the invariant.
LEMMA ProceedKeeps ==
    ASSUME Sound, Ready, NEW o \in Objects, Proceed(o)
    PROVE  IInv'
<1> DEFINE x == obj[o]
           s == Program(x.kind)[x.pos]
<1>1. /\ x.st = "build" /\ x.todo = <<>> /\ x.pos <= Len(Program(x.kind)) /\ s.drop = <<>>
      /\ UNCHANGED <<ufd, opener, fault, foreign>>
      /\ s.get = R("dma", "mem") => Fits(x.md)
  BY DEF Proceed, AtStep, Step, Possible
<1>2. /\ o \in Using /\ x \in Object(AllKinds) /\ IsTrace(x.kind, Trace(x.kind))
         /\ Follows(x, Trace(x.kind))
      /\ Described(x) /\ obj \in [Objects -> {Nothing} \union Object(AllKinds)]
  BY <1>1, StepObject
<1>3. PICK got \in IF Maps(o) THEN 0..x.md.n ELSE {x.got} :
         obj' = [obj EXCEPT ![o].pos = @ + 1, ![o].held = @ \union ({s.get} \ {None}),
               ![o].got = got]
  BY DEF Proceed, Step
<1> DEFINE q == x.pos + 1
           g == x.held \union ({s.get} \ {None})
           y == [x EXCEPT !.pos = q, !.held = g, !.got = got]
<1>4. obj' = [obj EXCEPT ![o] = y]
  BY <1>3
<1>5. /\ q \in Nat /\ g \in SUBSET Res /\ got \in Nat /\ got \in 0..x.md.n
  <2>1. s \in Steps /\ x.pos \in Nat /\ x.held \in SUBSET Res /\ x.got \in 0..x.md.n
        /\ x.md.n \in Nat
    BY <1>1, <1>2, AtStepIs DEF Object, Described
  <2>2. s.get \in Res
    BY <2>1 DEF Steps
  <2>3. got \in 0..x.md.n
    BY <2>1
  <2> QED BY <2>1, <2>2, <2>3
<1>6. y \in Object(AllKinds)
  <2> HIDE DEF q, g
  <2> QED BY <1>2, <1>5 DEF Object
<1>7. /\ y.st = x.st /\ y.kind = x.kind /\ y.pos = q /\ y.held = g /\ y.todo = x.todo
      /\ y.size = x.size /\ y.md = x.md /\ y.got = got /\ y.via = x.via /\ y.va = x.va
  <2> HIDE DEF q, g
  <2> QED BY <1>2 DEF Object
<1> HIDE DEF y
<1>8. /\ DOMAIN obj' = Objects /\ obj' = [p \in Objects |-> obj'[p]]
      /\ obj'[o] = y /\ \A p \in Objects : p # o => obj'[p] = obj[p]
  BY <1>2, <1>4
<1>9. Follows(y, Trace(y.kind))
  BY <1>1, <1>2, <1>6, <1>7, ProceedFollows
<1>10. R("dma", "mem") \in y.held => R("dma", "mem") \in x.held \/ Fits(y.md)
  BY <1>1, <1>7
<1>11. CASE ~Maps(o)
  <2>1. kmaps' = kmaps /\ s.get # R("md", "pages")
    BY <1>11 DEF Proceed, Maps, Step
  <2>2. R("md", "pages") \in y.held <=> R("md", "pages") \in x.held
    BY <2>1, <1>7
  <2> QED BY <1>1, <1>2, <1>5, <1>6, <1>7, <1>8, <1>9, <1>10, <2>1, <2>2, Continue
<1>12. CASE Maps(o)
  <2>1. /\ s.get = R("md", "pages")
        /\ kmaps' = [kmaps EXCEPT ![x.via] = @ \union {[va |-> x.va, by |-> o]}]
    BY <1>12 DEF Proceed, Maps, Step
  <2>2. R("md", "pages") # None /\ R("md", "pages") # Bindings
    BY DEF None, Bindings, R
  <2>3. o \in Kernel
    <3>1. s.get = Bindings \/ s.get = None \/ TakesOk(x.kind, s.get)
      BY <1>1, <1>2, StepTakes
    <3>2. x.kind \in KernKinds
      BY <3>1, <2>1, <2>2 DEF TakesOk
    <3> QED BY <3>2, <1>2 DEF Kernel
  <2>4. /\ ObjTyped' /\ Following' /\ o \in Using'
        /\ \A p \in Objects : p # o => (p \in Using' <=> p \in Using)
    BY <1>2, <1>5, <1>6, <1>7, <1>8, <1>9, <1>10, Continues
  <2>5. Pinned(o)'
    BY <2>1, <2>2, <1>7, <1>8 DEF Pinned
  <2>6. Mapped' /\ kmaps' \in [Ctrls -> SUBSET [va : VAddrs, by : Handles]]
    BY <2>1, <2>3, <2>4, <2>5, <1>1, <1>7, <1>8, PinsTaken DEF Ready, ModTyped
  <2>7. ModTyped'
    BY <2>6, <1>1 DEF Ready, ModTyped
  <2> QED BY <2>4, <2>6, <2>7, <1>1, NoFault DEF IInv, Ready
<1> QED BY <1>11, <1>12

\* Nothing changes but the history and the fault.
LEMMA MappedStays ==
    ASSUME Mapped, obj' = obj, kmaps' = kmaps, foreign \subseteq foreign'
    PROVE  Mapped'
<1>1. Using' = Using /\ Kernel' = Kernel
  BY DEF Using, Kernel
<1>2. PinnedMapped'
  BY <1>1 DEF Mapped, PinnedMapped, Pinned
<1>3. MappedPinned'
  BY <1>1 DEF Mapped, MappedPinned, Pinned
<1>4. AddressedOnce'
  BY <1>1 DEF Mapped, AddressedOnce
<1> QED BY <1>2, <1>3, <1>4 DEF Mapped

\* A call that has pinned pages has a descriptor of the open file.
LEMMA PinnedOpen ==
    ASSUME NEW x \in Object(AllKinds), NEW f, Follows(x, f), R("md", "pages") \in x.held
    PROVE  R("md", "fd") \in x.held
<1>1. R("md", "pages") \in Core(x.held)
  BY DEF Core, Optionals, SISCI, Bindings, var, R, None
<1>2. Rests(x.kind, Phase(x) = "throw", Core(x.held))
  <2>1. Core(x.held) \ First(x.todo, 0) = Core(x.held) /\ 0 \in 0..Len(x.todo)
    <3>1. Len(x.todo) \in Nat
      BY DEF Object
    <3> QED BY <3>1, FirstZero
  <2> QED BY <2>1 DEF Follows, Rel
<1>3. R("md", "fd") \in Core(x.held)
  BY <1>1, <1>2 DEF Rests, Backed
<1> QED BY <1>3 DEF Core

\* Mappings go with the last close of their file: no handle has any pinned by it.
LEMMA Closes ==
    ASSUME ObjTyped, Following, PinnedMapped, MappedPinned,
           kmaps \in [Ctrls -> SUBSET [va : VAddrs, by : Handles]],
           NEW c \in Ctrls, \A g \in Objects : ~OpenBy(g, c)
    PROVE  \A h \in Using : ~(Pinned(h) /\ obj[h].via = c)
<1> SUFFICES ASSUME NEW h \in Using, Pinned(h), obj[h].via = c PROVE FALSE
  OBVIOUS
<1>1. h \in Objects /\ obj[h].st # "none"
  BY DEF Using
<1>2. obj[h] \in Object(AllKinds) /\ Follows(obj[h], Trace(obj[h].kind))
  BY <1>1, InUse DEF Following
<1>3. R("md", "fd") \in obj[h].held
  BY <1>2, PinnedOpen DEF Pinned
<1> QED BY <1>1, <1>3 DEF OpenBy

\* The module lets go of mappings that no handle stands for.
LEMMA MappingsGo ==
    ASSUME PinnedMapped, MappedPinned, kmaps \in [Ctrls -> SUBSET [va : VAddrs, by : Handles]],
           NEW km \in [Ctrls -> SUBSET [va : VAddrs, by : Handles]],
           \A c \in Ctrls : km[c] \subseteq kmaps[c],
           \A c \in Ctrls : km[c] = kmaps[c] \/ \A h \in Using : ~(Pinned(h) /\ obj[h].via = c),
           \A h \in Using : Pinned(h) => obj[h].via \in Ctrls
    PROVE  /\ \A h \in Using : Pinned(h)
              => h \in Kernel /\ [va |-> obj[h].va, by |-> h] \in km[obj[h].via]
           /\ \A c \in Ctrls : \A m \in km[c] :
                 \/ m.by \in Using /\ Pinned(m.by) /\ obj[m.by].via = c /\ obj[m.by].va = m.va
                 \/ <<c, m.va>> \in foreign
<1>1. ASSUME NEW h \in Using, Pinned(h)
      PROVE  h \in Kernel /\ [va |-> obj[h].va, by |-> h] \in km[obj[h].via]
  <2>1. h \in Kernel /\ [va |-> obj[h].va, by |-> h] \in kmaps[obj[h].via]
    BY <1>1 DEF PinnedMapped
  <2>2. km[obj[h].via] = kmaps[obj[h].via]
    BY <1>1
  <2> QED BY <2>1, <2>2
<1>2. ASSUME NEW c \in Ctrls, NEW m \in km[c]
      PROVE  \/ m.by \in Using /\ Pinned(m.by) /\ obj[m.by].via = c /\ obj[m.by].va = m.va
             \/ <<c, m.va>> \in foreign
  BY <1>2 DEF MappedPinned
<1> QED BY <1>1, <1>2

\* UserClose keeps the invariant.
LEMMA UserCloseKeeps ==
    ASSUME Sound, Ready, NEW c \in Ctrls, NEW t \in Threads, UserClose(c, t)
    PROVE  IInv'
<1>1. /\ obj' = obj /\ fault' = fault /\ foreign' = foreign /\ opener' = opener
      /\ ufd' = [ufd EXCEPT ![c] = FALSE]
      /\ kmaps' = [kmaps EXCEPT ![c] = AfterClose(c, t, \E o \in Objects : OpenBy(o, c))]
  BY DEF UserClose
<1>2. AfterClose(c, t, \E o \in Objects : OpenBy(o, c)) \in {kmaps[c], {}}
  BY DEF AfterClose
<1>3. AfterClose(c, t, \E o \in Objects : OpenBy(o, c)) = kmaps[c]
      \/ \A o \in Objects : ~OpenBy(o, c)
  BY DEF AfterClose
<1> DEFINE a == AfterClose(c, t, \E o \in Objects : OpenBy(o, c))
<1>4. kmaps \in [Ctrls -> SUBSET [va : VAddrs, by : Handles]]
  BY DEF Ready, ModTyped
<1> HIDE DEF a
<1>5. /\ kmaps'[c] = a /\ \A d \in Ctrls : d # c => kmaps'[d] = kmaps[d]
      /\ kmaps' \in [Ctrls -> SUBSET [va : VAddrs, by : Handles]]
  BY <1>1, <1>2, <1>4 DEF a
<1>6. a = kmaps[c] \/ \A h \in Using : ~(Pinned(h) /\ obj[h].via = c)
  BY <1>3, <1>4, Closes DEF a, Ready, Mapped
<1>7. /\ \A d \in Ctrls : kmaps'[d] \subseteq kmaps[d]
      /\ \A d \in Ctrls : kmaps'[d] = kmaps[d] \/ \A h \in Using : ~(Pinned(h) /\ obj[h].via = d)
  BY <1>2, <1>5, <1>6 DEF a
<1>8. \A h \in Using : Pinned(h) => obj[h].via \in Ctrls
  BY KernelHandles DEF Ready, Mapped, PinnedMapped, Object
<1>9. /\ \A h \in Using : Pinned(h)
         => h \in Kernel /\ [va |-> obj[h].va, by |-> h] \in kmaps'[obj[h].via]
      /\ \A d \in Ctrls : \A m \in kmaps'[d] :
            \/ m.by \in Using /\ Pinned(m.by) /\ obj[m.by].via = d /\ obj[m.by].va = m.va
            \/ <<d, m.va>> \in foreign
  BY <1>4, <1>5, <1>7, <1>8, MappingsGo DEF Ready, Mapped
<1>10. Using' = Using /\ Kernel' = Kernel
  BY <1>1 DEF Using, Kernel
<1>11. PinnedMapped' /\ MappedPinned'
  BY <1>1, <1>9, <1>10 DEF PinnedMapped, MappedPinned, Pinned
<1>12. AddressedOnce'
  BY <1>1, <1>10 DEF Ready, Mapped, AddressedOnce
<1>13. ObjTyped' /\ ModTyped'
  BY <1>1, <1>5 DEF Ready, ObjTyped, ModTyped, KindsOf
<1>14. Following'
  BY <1>1, FollowingStays DEF Ready
<1> QED BY <1>1, <1>11, <1>12, <1>13, <1>14, NoFault DEF IInv, Mapped, Ready

\* DeviceRemoved keeps the invariant.
LEMMA DeviceRemovedKeeps ==
    ASSUME Sound, Ready, NEW c \in Ctrls, DeviceRemoved(c)
    PROVE  IInv'
<1>1. /\ obj' = obj /\ fault' = fault /\ opener' = opener /\ ufd' = ufd /\ UsedBy(c) = {}
      /\ kmaps' = [kmaps EXCEPT ![c] = {}] /\ foreign' = {f \in foreign : f[1] # c}
  BY DEF DeviceRemoved
<1>4. kmaps \in [Ctrls -> SUBSET [va : VAddrs, by : Handles]]
  BY DEF Ready, ModTyped
<1>5. /\ kmaps'[c] = {} /\ \A d \in Ctrls : d # c => kmaps'[d] = kmaps[d]
      /\ kmaps' \in [Ctrls -> SUBSET [va : VAddrs, by : Handles]]
  BY <1>1, <1>4
<1>6. \A h \in Using : Pinned(h) => h \in Kernel /\ obj[h].via # c /\ obj[h].via \in Ctrls
  <2>1. ASSUME NEW h \in Using, Pinned(h)
        PROVE h \in Kernel /\ obj[h].via # c /\ obj[h].via \in Ctrls
    <3>1. h \in Kernel
      BY <2>1 DEF Ready, Mapped, PinnedMapped
    <3>2. h \in Handles /\ obj[h].st # "none" /\ obj[h].via \in Ctrls
      BY <3>1, KernelHandles DEF Ready, Object
    <3> QED BY <3>1, <3>2, <1>1 DEF UsedBy
  <2> QED BY <2>1
<1>10. Using' = Using /\ Kernel' = Kernel
  BY <1>1 DEF Using, Kernel
<1>11. PinnedMapped'
  <2>1. ASSUME NEW h \in Using, Pinned(h)
        PROVE h \in Kernel /\ [va |-> obj[h].va, by |-> h] \in kmaps'[obj[h].via]
    BY <2>1, <1>5, <1>6 DEF Ready, Mapped, PinnedMapped
  <2> QED BY <2>1, <1>1, <1>10 DEF PinnedMapped, Pinned
<1>12. MappedPinned'
  <2>1. ASSUME NEW d \in Ctrls, NEW m \in kmaps'[d]
        PROVE  \/ m.by \in Using /\ Pinned(m.by) /\ obj[m.by].via = d /\ obj[m.by].va = m.va
               \/ <<d, m.va>> \in foreign'
    <3>1. d # c /\ m \in kmaps[d]
      BY <2>1, <1>5
    <3>2. <<d, m.va>>[1] = d
      OBVIOUS
    <3> QED BY <3>1, <3>2, <1>1 DEF Ready, Mapped, MappedPinned
  <2> QED BY <2>1, <1>1, <1>10 DEF MappedPinned, Pinned
<1>13. AddressedOnce'
  BY <1>1, <1>10 DEF Ready, Mapped, AddressedOnce
<1>14. ObjTyped' /\ ModTyped'
  BY <1>1, <1>5 DEF Ready, ObjTyped, ModTyped, KindsOf
<1>15. Following'
  BY <1>1, FollowingStays DEF Ready
<1> QED BY <1>1, <1>11, <1>12, <1>13, <1>14, <1>15, NoFault DEF IInv, Mapped, Ready

\* What a handle of the module may leave behind is nothing.
LEMMA NothingLeft ==
    ASSUME NEW x \in Object(AllKinds), NEW f, Follows(x, f), x.st = "release", x.todo = <<>>,
           x.kind \in KernKinds
    PROVE  R("md", "pages") \notin x.held
<1>1. Core(x.held) \subseteq Left(x.kind, Phase(x) = "throw")
  <2>1. Elems(<<>>) = {}
    BY FirstZero DEF Elems
  <2> QED BY <2>1 DEF Follows, Holds
<1>2. Left(x.kind, Phase(x) = "throw") = {}
  BY DEF Left, KernKinds, SegKinds, LatKinds, ProgKinds
<1>3. R("md", "pages") \notin Optionals /\ R("md", "pages") # None
  BY DEF Optionals, SISCI, Bindings, var, R, None
<1> QED BY <1>1, <1>2, <1>3 DEF Core

\* ReleaseDone keeps the invariant.
LEMMA ReleaseDoneKeeps ==
    ASSUME Sound, Ready, NEW o \in Objects, ReleaseDone(o)
    PROVE  IInv'
<1> DEFINE x == obj[o]
<1>1. /\ x.st = "release" /\ x.todo = <<>> /\ obj' = [obj EXCEPT ![o] = Nothing]
      /\ UNCHANGED <<ufd, opener, kmaps, fault, foreign>>
  BY DEF ReleaseDone
<1>2. /\ o \in Using /\ x \in Object(AllKinds) /\ Follows(x, Trace(x.kind))
      /\ obj \in [Objects -> {Nothing} \union Object(AllKinds)]
  BY <1>1, StepObject
<1>3. /\ DOMAIN obj' = Objects /\ obj' = [p \in Objects |-> obj'[p]]
      /\ obj'[o] = Nothing /\ \A p \in Objects : p # o => obj'[p] = obj[p]
  BY <1>1, <1>2
<1>4. /\ ObjTyped' /\ Following' /\ o \notin Using'
      /\ \A p \in Objects : p # o => (p \in Using' <=> p \in Using)
  BY <1>3, OneChanges DEF Ready
<1>5. ~Pinned(o)
  <2>1. Pinned(o) => x.kind \in KernKinds
    BY <1>2 DEF Ready, Mapped, PinnedMapped, Kernel
  <2> QED BY <2>1, <1>1, <1>2, NothingLeft DEF Pinned
<1>6. Using \subseteq Objects /\ Using' \subseteq Objects
  BY DEF Using
<1>7. Using' = Using \ {o} /\ \A p \in Using' : obj'[p] = obj[p]
  BY <1>3, <1>4, <1>6
<1>8. Kernel' = Kernel \ {o}
  BY <1>7 DEF Kernel
<1>9. PinnedMapped'
  <2>1. ASSUME NEW h \in Using', Pinned(h)'
        PROVE  h \in Kernel' /\ [va |-> obj'[h].va, by |-> h] \in kmaps'[obj'[h].via]
    <3>1. h \in Using /\ h # o /\ obj'[h] = obj[h]
      BY <2>1, <1>7
    <3>2. Pinned(h)
      BY <2>1, <3>1 DEF Pinned
    <3> QED BY <3>1, <3>2, <1>1, <1>8 DEF Ready, Mapped, PinnedMapped
  <2> QED BY <2>1 DEF PinnedMapped
<1>10. MappedPinned'
  <2>1. ASSUME NEW c \in Ctrls, NEW m \in kmaps'[c]
        PROVE  \/ m.by \in Using' /\ Pinned(m.by)' /\ obj'[m.by].via = c /\ obj'[m.by].va = m.va
               \/ <<c, m.va>> \in foreign'
    <3>1. \/ m.by \in Using /\ Pinned(m.by) /\ obj[m.by].via = c /\ obj[m.by].va = m.va
          \/ <<c, m.va>> \in foreign
      BY <2>1, <1>1 DEF Ready, Mapped, MappedPinned
    <3>2. CASE m.by \in Using /\ Pinned(m.by) /\ obj[m.by].via = c /\ obj[m.by].va = m.va
      <4>1. m.by \in Using' /\ obj'[m.by] = obj[m.by]
        BY <3>2, <1>5, <1>7
      <4> QED BY <3>2, <4>1 DEF Pinned
    <3> QED BY <3>1, <3>2, <1>1
  <2> QED BY <2>1 DEF MappedPinned
<1>11. AddressedOnce'
  <2>1. \A h \in Kernel' : h \in Kernel /\ obj'[h] = obj[h]
    BY <1>7, <1>8 DEF Kernel
  <2> QED BY <2>1 DEF Ready, Mapped, AddressedOnce
<1>12. ModTyped'
  BY <1>1 DEF Ready, ModTyped
<1> QED BY <1>1, <1>4, <1>9, <1>10, <1>11, <1>12, NoFault DEF IInv, Mapped, Ready

\* The pages of a handle are unpinned, or that fails and nobody is told.
LEMMA PinsGone ==
    ASSUME ObjTyped, Mapped, kmaps \in [Ctrls -> SUBSET [va : VAddrs, by : Handles]],
           NEW o \in Kernel, o \in Using',
           \A p \in Objects : p # o => obj'[p] = obj[p] /\ (p \in Using' <=> p \in Using),
           obj'[o].kind = obj[o].kind, obj'[o].via = obj[o].via, obj'[o].va = obj[o].va,
           ~Pinned(o)',
           kmaps' = [kmaps EXCEPT ![obj[o].via] = unmap_memory(o)],
           foreign' = foreign
                 \union (IF obj[o].who # opener[obj[o].via] THEN {<<obj[o].via, obj[o].va>>}
                       ELSE {})
    PROVE  Mapped' /\ kmaps' \in [Ctrls -> SUBSET [va : VAddrs, by : Handles]]
<1> DEFINE d == obj[o].via
<1>0. o \in Objects /\ o \in Using /\ Using \subseteq Objects /\ Using' \subseteq Objects
      /\ d \in Ctrls
  BY KernelHandles DEF Kernel, Using, Object
<1>1. \A p \in Objects : p \in Using' <=> p \in Using
  BY <1>0
<1>2. Using' = Using
  BY <1>0, <1>1
<1>3. \A p \in Using : /\ obj'[p].kind = obj[p].kind /\ obj'[p].via = obj[p].via
                          /\ obj'[p].va = obj[p].va
                       /\ p # o => (Pinned(p)' <=> Pinned(p))
  BY <1>0 DEF Pinned
<1>4. Kernel' = Kernel
  BY <1>2, <1>3 DEF Kernel
<1>5. unmap_memory(o) \subseteq kmaps[d]
  BY DEF unmap_memory
<1>6. /\ kmaps'[d] = unmap_memory(o) /\ \A c \in Ctrls : c # d => kmaps'[c] = kmaps[c]
      /\ kmaps' \in [Ctrls -> SUBSET [va : VAddrs, by : Handles]]
  <2> DEFINE a == unmap_memory(o)
  <2> HIDE DEF a
  <2>1. a \subseteq kmaps[d] /\ kmaps' = [kmaps EXCEPT ![d] = a]
    BY <1>5 DEF a
  <2>2. kmaps[d] \subseteq [va : VAddrs, by : Handles]
    BY <1>0
  <2>3. a \in SUBSET [va : VAddrs, by : Handles]
    BY <2>1, <2>2
  <2> QED BY <1>0, <2>1, <2>3 DEF a
<1>7. PinnedMapped'
  <2>1. ASSUME NEW h \in Using', Pinned(h)'
        PROVE  h \in Kernel' /\ [va |-> obj'[h].va, by |-> h] \in kmaps'[obj'[h].via]
    <3>1. h # o /\ h \in Using /\ Pinned(h) /\ obj'[h].via = obj[h].via /\ obj'[h].va = obj[h].va
      BY <2>1, <1>2, <1>3
    <3>2. h \in Kernel /\ [va |-> obj[h].va, by |-> h] \in kmaps[obj[h].via]
      BY <3>1 DEF Mapped, PinnedMapped
    <3>3. obj[h].via \in Ctrls
      BY <3>2, KernelHandles DEF Object
    <3>4. [va |-> obj[h].va, by |-> h] \in kmaps'[obj[h].via]
      <4>1. CASE obj[h].via # d
        BY <4>1, <3>2, <3>3, <1>6
      <4>2. CASE obj[h].via = d
        <5>1. obj[h].va # obj[o].va
          BY <4>2, <3>1, <3>2 DEF Mapped, AddressedOnce
        <5>2. [va |-> obj[h].va, by |-> h] \in unmap_memory(o)
          BY <5>1, <4>2, <3>2 DEF unmap_memory
        <5> QED BY <5>2, <4>2, <1>6
      <4> QED BY <4>1, <4>2
    <3> QED BY <3>1, <3>2, <3>4, <1>4
  <2> QED BY <2>1 DEF PinnedMapped
<1>8. MappedPinned'
  <2>1. ASSUME NEW c \in Ctrls, NEW m \in kmaps'[c]
        PROVE  \/ m.by \in Using' /\ Pinned(m.by)' /\ obj'[m.by].via = c /\ obj'[m.by].va = m.va
               \/ <<c, m.va>> \in foreign'
    <3>1. m \in kmaps[c]
      BY <2>1, <1>5, <1>6
    <3>2. \/ m.by \in Using /\ Pinned(m.by) /\ obj[m.by].via = c /\ obj[m.by].va = m.va
          \/ <<c, m.va>> \in foreign
      BY <3>1 DEF Mapped, MappedPinned
    <3>3. CASE m.by = o /\ obj[o].via = c /\ obj[o].va = m.va
      <4>1. m \in unmap_memory(o) /\ c = d
        BY <2>1, <3>3, <1>6
      <4>2. obj[o].who # opener[d]
        BY <4>1, <3>3 DEF unmap_memory
      <4> QED BY <4>1, <4>2, <3>3
    <3>4. CASE m.by # o
      BY <3>2, <3>4, <1>2, <1>3
    <3> QED BY <3>2, <3>3, <3>4
  <2> QED BY <2>1 DEF MappedPinned
<1>9. AddressedOnce'
  BY <1>3, <1>4 DEF Mapped, AddressedOnce, Kernel
<1> QED BY <1>6, <1>7, <1>8, <1>9 DEF Mapped

\* A call goes on and with it the last descriptor of the file may be closed.
LEMMA PinsClose ==
    ASSUME ObjTyped, Mapped, kmaps \in [Ctrls -> SUBSET [va : VAddrs, by : Handles]],
           NEW o \in Using, o \in Using', ObjTyped', Following',
           \A p \in Objects : p # o => obj'[p] = obj[p] /\ (p \in Using' <=> p \in Using),
           obj'[o].kind = obj[o].kind, obj'[o].via = obj[o].via, obj'[o].va = obj[o].va,
           Pinned(o)' <=> Pinned(o), foreign \subseteq foreign',
           NEW d \in Ctrls, NEW a, kmaps' = [kmaps EXCEPT ![d] = a],
           a = kmaps[d] \/ (a = {} /\ \A g \in Objects : ~(obj'[g].st # "none" /\ obj'[g].via = d
               /\ obj'[g].held \cap {R("md", "fd"), R("ctrl", "fd"), R("ctrl", "mmap")} # {}))
    PROVE  Mapped' /\ kmaps' \in [Ctrls -> SUBSET [va : VAddrs, by : Handles]]
<1>0. o \in Objects /\ Using \subseteq Objects /\ Using' \subseteq Objects
  BY DEF Using
<1>1. \A p \in Objects : p \in Using' <=> p \in Using
  BY <1>0
<1>2. Using' = Using
  BY <1>0, <1>1
<1>3. \A p \in Using : /\ obj'[p].kind = obj[p].kind /\ obj'[p].via = obj[p].via
                          /\ obj'[p].va = obj[p].va
                       /\ Pinned(p)' <=> Pinned(p)
  BY <1>0 DEF Pinned
<1>4. Kernel' = Kernel
  BY <1>2, <1>3 DEF Kernel
<1>5. /\ kmaps'[d] = a /\ (\A c \in Ctrls : c # d => kmaps'[c] = kmaps[c]) /\ a \subseteq kmaps[d]
      /\ kmaps' \in [Ctrls -> SUBSET [va : VAddrs, by : Handles]]
  OBVIOUS
<1>6. a = kmaps[d] \/ \A h \in Using : ~(Pinned(h) /\ obj[h].via = d)
  <2>1. SUFFICES ASSUME \A g \in Objects : ~(obj'[g].st # "none" /\ obj'[g].via = d
                           /\ obj'[g].held \cap {R("md", "fd"), R("ctrl", "fd"),
                                 R("ctrl", "mmap")} # {}),
                        NEW h \in Using, Pinned(h), obj[h].via = d
                 PROVE  FALSE
    OBVIOUS
  <2>2. h \in Objects /\ h \in Using' /\ obj'[h].st # "none" /\ obj'[h].via = d
    BY <2>1, <1>0, <1>2, <1>3 DEF Using
  <2>3. obj'[h] \in Object(AllKinds) /\ Follows(obj'[h], Trace(obj'[h].kind))
        /\ R("md", "pages") \in obj'[h].held
    <3>1. obj'[h] \in {Nothing} \union Object(AllKinds)
      BY <2>2 DEF ObjTyped
    <3>2. obj'[h] \in Object(AllKinds)
      BY <3>1, <2>2 DEF Nothing
    <3>3. \A p \in Using' : Follows(obj'[p], Trace(obj'[p].kind))
      BY DEF Following, Follows, Holds, Serves, Phase, TriedBy
    <3> QED BY <3>2, <3>3, <2>1, <2>2, <1>3 DEF Pinned
  <2>4. R("md", "fd") \in obj'[h].held
    BY <2>3, PinnedOpen
  <2> QED BY <2>1, <2>2, <2>4
<1>7. PinnedMapped'
  <2>1. ASSUME NEW h \in Using', Pinned(h)'
        PROVE  h \in Kernel' /\ [va |-> obj'[h].va, by |-> h] \in kmaps'[obj'[h].via]
    <3>1. h \in Using /\ Pinned(h) /\ obj'[h].via = obj[h].via /\ obj'[h].va = obj[h].va
      BY <2>1, <1>2, <1>3
    <3>2. h \in Kernel /\ [va |-> obj[h].va, by |-> h] \in kmaps[obj[h].via]
      BY <3>1 DEF Mapped, PinnedMapped
    <3>3. obj[h].via \in Ctrls
      BY <3>2, KernelHandles DEF Object
    <3>4. kmaps'[obj[h].via] = kmaps[obj[h].via]
      BY <3>1, <3>3, <1>5, <1>6
    <3> QED BY <3>1, <3>2, <3>4, <1>4
  <2> QED BY <2>1 DEF PinnedMapped
<1>8. MappedPinned'
  <2>1. ASSUME NEW c \in Ctrls, NEW m \in kmaps'[c]
        PROVE  \/ m.by \in Using' /\ Pinned(m.by)' /\ obj'[m.by].via = c /\ obj'[m.by].va = m.va
               \/ <<c, m.va>> \in foreign'
    <3>1. m \in kmaps[c]
      BY <2>1, <1>5
    <3>2. \/ m.by \in Using /\ Pinned(m.by) /\ obj[m.by].via = c /\ obj[m.by].va = m.va
          \/ <<c, m.va>> \in foreign
      BY <3>1 DEF Mapped, MappedPinned
    <3> QED BY <3>2, <1>2, <1>3
  <2> QED BY <2>1 DEF MappedPinned
<1>9. AddressedOnce'
  BY <1>3, <1>4 DEF Mapped, AddressedOnce, Kernel
<1> QED BY <1>5, <1>7, <1>8, <1>9 DEF Mapped

\* ReleaseNext keeps the invariant: what may not be released is known.
LEMMA ReleaseNextKeeps ==
    ASSUME Sound, Ready, NEW o \in Objects, ReleaseNext(o)
    PROVE  IInv'
<1> DEFINE x == obj[o]
           r == Head(x.todo)
           c == x.via
<1>1. x.st # "none" /\ x.todo # <<>> /\ ufd' = ufd /\ opener' = opener
  BY DEF ReleaseNext
<1>2. /\ o \in Using /\ x \in Object(AllKinds) /\ Follows(x, Trace(x.kind))
      /\ Described(x) /\ obj \in [Objects -> {Nothing} \union Object(AllKinds)]
  BY <1>1, StepObject
<1>3. Tried(o) = TriedBy(x)
  BY DEF Tried, TriedBy
<1>4. kmaps \in [Ctrls -> SUBSET [va : VAddrs, by : Handles]] /\ c \in Ctrls
  BY <1>2 DEF Ready, ModTyped, Object
<1>5. foreign \subseteq foreign'
  BY DEF ReleaseNext
<1>6. CASE ~Releasable(r, x.held, Tried(o))
  <2>1. fault' = o /\ obj' = obj
    BY <1>6 DEF ReleaseNext
  <2>2. fault' # Fine
    BY <2>1, DmaAssumption DEF Fine, Objects
  <2>3. kmaps' = [kmaps EXCEPT ![c] = kmaps[c]]
    BY <2>2 DEF ReleaseNext
  <2>4. kmaps' = kmaps
    BY <2>3, <1>4
  <2>5. /\ x.st = "release"
        /\ \/ x.kind \in KernKinds /\ R("dma", "mem") \notin x.held
           \/ x.kind = "id_user" /\ loc("locked") \in Tried(o) /\ loc("aq_mem") \notin Tried(o)
    BY <1>1, <1>2, <1>3, <1>6, ReleaseKnown
  <2>6. Tried(o)' = Tried(o)
    BY <2>1 DEF Tried
  <2>7. FaultsKnown'
    BY <2>1, <2>5, <2>6 DEF FaultsKnown
  <2>8. ObjTyped' /\ ModTyped'
    BY <2>1, <2>4, <1>1 DEF Ready, ObjTyped, ModTyped, KindsOf
  <2>9. Following' /\ Mapped'
    BY <2>1, <2>4, <1>5, FollowingStays, MappedStays DEF Ready
  <2> QED BY <2>7, <2>8, <2>9 DEF IInv
<1>7. CASE Releasable(r, x.held, Tried(o))
  <2> DEFINE l == Tail(x.todo)
             g == x.held \ {r}
             y == [x EXCEPT !.todo = l, !.held = g]
  <2>1. obj' = [obj EXCEPT ![o] = y] /\ fault' = fault /\ fault' = Fine
    BY <1>7 DEF ReleaseNext, Ready
  <2>2. l \in Seq(Res) /\ g \in SUBSET Res
    BY <1>1, <1>2 DEF Object
  <2>3. y \in Object(AllKinds)
    <3> HIDE DEF l, g
    <3> QED BY <1>2, <2>2 DEF Object
  <2>4. /\ y.st = x.st /\ y.kind = x.kind /\ y.pos = x.pos /\ y.held = g /\ y.todo = l
           /\ y.who = x.who
        /\ y.size = x.size /\ y.md = x.md /\ y.got = x.got /\ y.via = x.via /\ y.va = x.va
    <3> HIDE DEF l, g
    <3> QED BY <1>2 DEF Object
  <2> HIDE DEF y
  <2>5. /\ DOMAIN obj' = Objects /\ obj' = [p \in Objects |-> obj'[p]]
        /\ obj'[o] = y /\ \A p \in Objects : p # o => obj'[p] = obj[p]
    BY <1>2, <2>1
  <2>6. Follows(y, Trace(y.kind))
    BY <1>1, <1>2, <2>3, <2>4, NextFollows
  <2>7. /\ ObjTyped' /\ Following' /\ o \in Using'
        /\ \A p \in Objects : p # o => (p \in Using' <=> p \in Using)
    <3>1. R("dma", "mem") \in y.held => R("dma", "mem") \in x.held \/ Fits(y.md)
      BY <2>4
    <3>2. y.got \in 0..x.md.n
      BY <2>4, <1>2 DEF Described
    <3> QED BY <1>2, <2>3, <2>4, <2>5, <2>6, <3>1, <3>2, Continues
  <2>8. kmaps' = [kmaps EXCEPT ![c] =
           IF r \notin x.held THEN kmaps[c]
           ELSE IF r = R("md", "pages") THEN unmap_memory(o)
           ELSE IF OpenBy(o, c) /\ ~OpenBy(o, c)'
           THEN AfterClose(c, x.who, ufd[c] \/ \E p \in Objects : OpenBy(p, c)')
           ELSE kmaps[c]]
    BY <2>1 DEF ReleaseNext
  <2>9. Mapped' /\ kmaps' \in [Ctrls -> SUBSET [va : VAddrs, by : Handles]]
    <3>1. CASE r = R("md", "pages") /\ r \in x.held
      <4>1. kmaps' = [kmaps EXCEPT ![c] = unmap_memory(o)]
        BY <3>1, <2>8
      <4>2. foreign' = foreign \union (IF x.who # opener[c] THEN {<<c, x.va>>} ELSE {})
        BY <3>1 DEF ReleaseNext
      <4>3. o \in Kernel
        BY <3>1, <1>2 DEF Ready, Mapped, PinnedMapped, Pinned
      <4>4. ~Pinned(o)'
        BY <3>1, <2>4, <2>5 DEF Pinned
      <4> QED BY <4>1, <4>2, <4>3, <4>4, <2>4, <2>5, <2>7, <1>4, PinsGone DEF Ready
    <3>2. CASE ~(r = R("md", "pages") /\ r \in x.held)
      <4> DEFINE a == kmaps'[c]
      <4>1. Pinned(o)' <=> Pinned(o)
        BY <3>2, <2>4, <2>5 DEF Pinned
      <4>2. a = kmaps[c] \/ (a = {} /\ \A p \in Objects : ~OpenBy(p, c)')
        <5>1. \/ kmaps' = [kmaps EXCEPT ![c] = kmaps[c]]
              \/ kmaps' = [kmaps EXCEPT ![c] = AfterClose(c, x.who, ufd[c]
                    \/ \E p \in Objects : OpenBy(p, c)')]
          BY <3>2, <2>8
        <5>2. CASE kmaps' = [kmaps EXCEPT ![c] = kmaps[c]]
          BY <5>2, <1>4
        <5>3. CASE kmaps'
              = [kmaps EXCEPT ![c] = AfterClose(c, x.who, ufd[c]
                    \/ \E p \in Objects : OpenBy(p, c)')]
          <6>1. a = AfterClose(c, x.who, ufd[c] \/ \E p \in Objects : OpenBy(p, c)')
            BY <5>3, <1>4
          <6> QED BY <6>1 DEF AfterClose
        <5> QED BY <5>1, <5>2, <5>3
      <4>3. kmaps' = [kmaps EXCEPT ![c] = a]
        BY <2>8, <1>4
      <4> HIDE DEF a
      <4>4. obj'[o].via = c
        BY <2>4, <2>5
      <4>5. a = {} /\ a # kmaps[c] => \A p \in Objects : ~(obj'[p].st # "none" /\ obj'[p].via = c
               /\ obj'[p].held \cap {R("md", "fd"), R("ctrl", "fd"), R("ctrl", "mmap")} # {})
        BY <4>2, <4>4 DEF OpenBy
      <4>6. a = kmaps[c] \/ (a = {} /\ \A p \in Objects : ~(obj'[p].st # "none" /\ obj'[p].via = c
               /\ obj'[p].held \cap {R("md", "fd"), R("ctrl", "fd"), R("ctrl", "mmap")} # {}))
        BY <4>2, <4>5
      <4> DEFINE d == c
      <4> QED BY <4>1, <4>3, <4>6, <2>4, <2>5, <2>7, <1>2, <1>4, <1>5, PinsClose
          DEF Ready
    <3> QED BY <3>1, <3>2
  <2>10. ModTyped'
    BY <2>1, <2>9, <1>1 DEF Ready, ModTyped
  <2> QED BY <2>1, <2>7, <2>9, <2>10, NoFault DEF IInv
<1> QED BY <1>6, <1>7

-----------------------------------------------------------------------------
(* Page arithmetic *)

\* Multiples of d
LEMMA Mults ==
    ASSUME NEW a \in Nat, NEW b \in Nat, NEW d \in Nat \ {0}
    PROVE  /\ d * a \in Nat /\ (a < b => d * a + d <= d * b) /\ d * (a + 1) = d * a + d
           /\ (a <= b => d * a <= d * b)
OBVIOUS

\* Division with remainder
LEMMA Divides ==
    ASSUME NEW x \in Nat, NEW d \in Nat \ {0}
    PROVE  x \div d \in Nat /\ x % d \in 0..(d - 1) /\ x = d * (x \div d) + (x % d)
<1>1. x \div d \in Nat
  OBVIOUS
<1>2. x % d \in 0..(d - 1)
  OBVIOUS
<1>3. x % d = x - d * (x \div d)
  OBVIOUS
<1>4. d * (x \div d) \in Nat
  BY <1>1, Mults
<1> DEFINE w == d * (x \div d)
           r == x % d
<1> HIDE DEF w, r
<1>5. r \in Nat /\ w \in Nat /\ r = x - w
  BY <1>2, <1>3, <1>4 DEF w, r
<1>6. x = w + r
  BY <1>5
<1>7. x = d * (x \div d) + (x % d)
  BY <1>6 DEF w, r
<1> QED BY <1>1, <1>2, <1>7

\* Quotient and remainder are the only ones.
LEMMA Quotient ==
    ASSUME NEW x \in Nat, NEW d \in Nat \ {0}, NEW a \in Nat, NEW r \in 0..(d - 1), x = d * a + r
    PROVE  x \div d = a /\ x % d = r
<1> DEFINE e == x \div d
           s == x % d
<1>1. e \in Nat /\ s \in 0..(d - 1) /\ x = d * e + s
  BY Divides
<1> HIDE DEF e, s
<1>2. ~(a < e)
  <2>1. a < e => d * a + d <= d * e
    BY <1>1, Mults
  <2>2. d * a \in Nat /\ d * e \in Nat
    BY <1>1, Mults
  <2> QED BY <2>1, <2>2, <1>1
<1>3. ~(e < a)
  <2>1. e < a => d * e + d <= d * a
    BY <1>1, Mults
  <2>2. d * a \in Nat /\ d * e \in Nat
    BY <1>1, Mults
  <2> QED BY <2>1, <2>2, <1>1
<1>4. e = a
  BY <1>1, <1>2, <1>3
<1>5. s = r
  <2>1. d * a \in Nat /\ x = d * a + s /\ x = d * a + r
    BY <1>1, <1>4, Mults
  <2> QED BY <2>1, <1>1
<1> QED BY <1>4, <1>5 DEF e, s

\* Rounding up covers.
LEMMA CeilCovers ==
    ASSUME NEW size \in Nat, NEW page \in Nat \ {0}
    PROVE  Ceil(size, page) \in Nat /\ page * Ceil(size, page) >= size
<1> DEFINE x == size + page - 1
           q == x \div page
           r == x % page
<1>1. x \in Nat
  OBVIOUS
<1>2. q \in Nat /\ r \in 0..(page - 1) /\ x = page * q + r
  BY <1>1, Divides
<1>3. page * q \in Nat
  BY <1>2, Mults
<1> HIDE DEF q, r
<1>4. page * q >= size
  BY <1>2, <1>3
<1> QED BY <1>2, <1>4 DEF Ceil, q

\* Products
LEMMA Products ==
    ASSUME NEW p \in Nat, NEW q \in Nat, NEW n \in Nat
    PROVE  p * q \in Nat /\ q * n \in Nat /\ (p * q) * n = p * (q * n) /\ (q * n) * p = p * (q * n)
           /\ p * q = q * p
OBVIOUS

\* A page of the controller within a page that is q of them
LEMMA PageOf ==
    ASSUME NEW P \in Nat \ {0}, NEW q \in Nat \ {0}, NEW n \in Nat \ {0}, NEW i \in Nat, i < q * n
    PROVE  LET a == (i * P) \div (P * q)
               f == (i * P) % (P * q)
           IN /\ a \in 0..(n - 1) /\ a * (P * q) + f = i * P /\ f + P <= P * q
<1> DEFINE a == i \div q
           b == i % q
<1>1. a \in Nat /\ b \in 0..(q - 1) /\ i = q * a + b
  BY Divides
<1> HIDE DEF a, b
<1>2. P * q \in Nat \ {0}
  <2>1. 0 < q => P * 0 + P <= P * q
    BY Mults
  <2> QED BY <2>1
<1>3. b \in Nat /\ P * b \in Nat /\ P * b + P <= P * q
  <2>1. b \in Nat /\ b < q
    BY <1>1
  <2> QED BY <2>1, Mults
<1>4. i * P = (P * q) * a + P * b
  <2>1. q * a \in Nat
    BY <1>1, Mults
  <2> DEFINE w == q * a
  <2>2. P * w = (P * q) * a
    BY <1>1, Products
  <2> HIDE DEF w
  <2>3. (w + b) * P = P * w + P * b
    BY <2>1, <1>3 DEF w
  <2>4. i = w + b
    BY <1>1 DEF w
  <2> QED BY <2>2, <2>3, <2>4
<1>5. i * P \in Nat /\ P * b \in 0..(P * q - 1)
  <2>1. i * P \in Nat
    OBVIOUS
  <2> QED BY <2>1, <1>2, <1>3
<1>6. (i * P) \div (P * q) = a /\ (i * P) % (P * q) = P * b
  <2> DEFINE x == i * P
             d == P * q
             r == P * b
  <2>1. x \in Nat /\ d \in Nat \ {0} /\ r \in 0..(d - 1) /\ x = d * a + r
    BY <1>2, <1>4, <1>5
  <2> HIDE DEF x, d, r
  <2>2. x \div d = a /\ x % d = r
    BY <2>1, <1>1, Quotient
  <2> QED BY <2>2 DEF x, d, r
<1>7. a < n
  <2>1. ~(a < n) => q * n <= q * a
    BY <1>1, Mults
  <2>2. q * a \in Nat /\ q * n \in Nat
    BY <1>1, Mults
  <2> QED BY <2>1, <2>2, <1>1
<1>8. a \in 0..(n - 1)
  BY <1>1, <1>7
<1>9. a * (P * q) = (P * q) * a
  BY <1>1, <1>2
<1> QED BY <1>3, <1>4, <1>6, <1>8, <1>9

\* n numbers from 0 on
LEMMA Counted == ASSUME NEW n \in Nat \ {0} PROVE Cardinality(0..(n - 1)) = n
<1>1. Cardinality(0..(n - 1)) = IF 0 > n - 1 THEN 0 ELSE (n - 1) - 0 + 1
  BY FS_Interval
<1> QED BY <1>1

\* The addresses of a descriptor
LEMMA Addresses ==
    ASSUME NEW md \in [page : Nat, n : Nat], NEW got, Fits(md), md.page % CtrlPage = 0, got = md.n
    PROVE  LET addrs == _nvm_dma_handle_populate(md, got)
           IN /\ \A i \in DOMAIN addrs : /\ addrs[i].page \in 0..(md.n - 1)
                                         /\ addrs[i].page * md.page + addrs[i].off = i * CtrlPage
                                         /\ addrs[i].off + CtrlPage <= md.page
              /\ Cardinality(DOMAIN addrs) * CtrlPage = md.page * md.n
<1> DEFINE P == CtrlPage
           n == md.n
           q == md.page \div P
           N == n_ctrl_pages(md)
           addrs == _nvm_dma_handle_populate(md, got)
<1>1. P \in Nat \ {0}
  BY DmaAssumption
<1>2. md.page \in Nat \ {0} /\ n \in Nat \ {0}
  BY DEF Fits
<1>3. q \in Nat /\ md.page = P * q
  <2>1. md.page \div P \in Nat /\ md.page = P * (md.page \div P) + (md.page % P)
    BY <1>1, <1>2, Divides
  <2>2. q \in Nat /\ P * q \in Nat /\ md.page = P * q + 0
    BY <2>1, <1>1, Mults
  <2> HIDE DEF q
  <2> QED BY <2>2
<1> HIDE DEF q
<1>4. q # 0
  BY <1>1, <1>2, <1>3
<1>5. N = q * n /\ q * n \in Nat \ {0}
  <2>1. q * n \in Nat /\ md.page * n = P * (q * n)
    BY <1>1, <1>2, <1>3, Products
  <2> DEFINE w == q * n
  <2> HIDE DEF w
  <2>2. w \in Nat /\ P * w \in Nat /\ P * w = P * w + 0 /\ 0 \in 0..(P - 1)
    BY <2>1, <1>1, Mults DEF w
  <2>3. (P * w) \div P = w
    BY <2>2, <1>1, Quotient
  <2>4. w # 0
    <3>1. 0 < n => q * 0 + q <= q * n
      BY <1>2, <1>3, <1>4, Mults
    <3> QED BY <3>1, <1>2, <1>3, <1>4 DEF w
  <2> QED BY <2>1, <2>2, <2>3, <2>4 DEF w, n_ctrl_pages
<1>6. DOMAIN addrs = 0..(N - 1)
  BY DEF _nvm_dma_handle_populate
<1>7. ASSUME NEW i \in DOMAIN addrs
      PROVE  /\ addrs[i].page \in 0..(n - 1)
             /\ addrs[i].page * md.page + addrs[i].off = i * P
             /\ addrs[i].off + P <= md.page
  <2>1. i \in Nat /\ i < q * n
    BY <1>5, <1>6
  <2>2. /\ addrs[i].page = (IF (i * P) \div md.page < got THEN (i * P) \div md.page ELSE Unknown)
        /\ addrs[i].off = (i * P) % md.page
    BY DEF _nvm_dma_handle_populate
  <2> DEFINE a == (i * P) \div (P * q)
             f == (i * P) % (P * q)
  <2>3. a \in 0..(n - 1) /\ a * (P * q) + f = i * P /\ f + P <= P * q
    BY <2>1, <1>1, <1>2, <1>3, <1>4, PageOf
  <2>4. addrs[i].off = f /\ addrs[i].page = IF a < got THEN a ELSE Unknown
    BY <2>2, <1>3
  <2> HIDE DEF a, f, addrs
  <2>5. a < got
    BY <2>3, <1>2
  <2>6. addrs[i].page = a
    BY <2>4, <2>5
  <2> QED BY <2>3, <2>4, <2>6, <1>3
<1>8. Cardinality(DOMAIN addrs) * P = md.page * n
  <2>1. Cardinality(DOMAIN addrs) = q * n
    BY <1>5, <1>6, Counted
  <2>2. (q * n) * P = P * (q * n) /\ (P * q) * n = P * (q * n)
    BY <1>1, <1>2, <1>3, Products
  <2> QED BY <2>1, <2>2, <1>3
<1> QED BY <1>7, <1>8

\* The size the addresses cover
LEMMA Covers ==
    ASSUME NEW k \in DmaKinds, NEW size \in Nat, NEW page \in Nat
    PROVE  LET md    == Descriptor(k, size, page)
               bytes == md.page * md.n
           IN CASE k = "phys" -> bytes = md.page * size
                [] k \in {"remote", "remote_va"} -> bytes <= size /\ size < bytes + CtrlPage
                [] OTHER -> bytes >= size
<1> DEFINE md    == Descriptor(k, size, page)
           bytes == md.page * md.n
<1>1. CtrlPage \in Nat \ {0} /\ GpuPage \in Nat \ {0}
  BY DmaAssumption
<1>2. CASE k = "phys"
  <2>1. md.n = size
    BY <1>2 DEF Descriptor
  <2> QED BY <2>1, <1>2
<1>3. CASE k \in {"remote", "remote_va"}
  <2> DEFINE q == size \div CtrlPage
             r == size % CtrlPage
  <2>1. q \in Nat /\ r \in 0..(CtrlPage - 1) /\ size = CtrlPage * q + r /\ CtrlPage * q \in Nat
    BY <1>1, Divides, Mults
  <2>2. md.page = CtrlPage * q /\ md.n = 1
    BY <1>3 DEF Descriptor, KernKinds
  <2> HIDE DEF q, r, md
  <2> DEFINE w == CtrlPage * q
  <2>3. w \in Nat /\ size = w + r /\ bytes = w * 1
    BY <2>1, <2>2
  <2> HIDE DEF w, bytes
  <2>4. bytes = w
    BY <2>3
  <2>5. bytes <= size /\ size < bytes + CtrlPage
    BY <2>1, <2>3, <2>4, <1>1
  <2> QED BY <2>5, <1>3 DEF bytes, md
<1>4. CASE k = "host"
  <2>1. md.page = CtrlPage /\ md.n = Ceil(size, CtrlPage)
    BY <1>4 DEF Descriptor
  <2>2. bytes >= size
    BY <2>1, <1>1, CeilCovers
  <2> QED BY <2>2, <1>4
<1>5. CASE k = "cuda"
  <2>1. md.page = GpuPage /\ md.n = Ceil(size, GpuPage)
    BY <1>5 DEF Descriptor
  <2>2. bytes >= size
    BY <2>1, <1>1, CeilCovers
  <2> QED BY <2>2, <1>5
<1>6. CASE k \notin {"phys", "host", "cuda", "remote", "remote_va"}
  <2>1. md.page = CtrlPage * Ceil(size, CtrlPage) /\ md.n = 1
    BY <1>6 DEF Descriptor, Align
  <2> DEFINE w == CtrlPage * Ceil(size, CtrlPage)
  <2>2. w >= size /\ w \in Nat
    BY <1>1, CeilCovers, Mults
  <2>3. bytes = w * 1
    BY <2>1
  <2> HIDE DEF w, bytes, md
  <2>4. bytes >= size
    BY <2>2, <2>3
  <2> QED BY <2>4, <1>6 DEF bytes, md
<1> QED BY <1>2, <1>3, <1>4, <1>5, <1>6

-----------------------------------------------------------------------------
(* The invariant and what follows from it *)

\* The invariant holds at first.
LEMMA InitInv == Init => IInv
<1> SUFFICES ASSUME Init PROVE IInv
  OBVIOUS
<1>1. obj = [o \in Objects |-> Nothing] /\ \A o \in Objects : obj[o] = Nothing
  BY DEF Init
<1>2. Nothing.st = "none"
  BY DEF Nothing
<1>3. Using = {} /\ Kernel = {}
  BY <1>1, <1>2 DEF Using, Kernel
<1>4. ObjTyped
  BY <1>1 DEF ObjTyped
<1>5. ModTyped
  <2>1. opener \in [Ctrls -> Threads]
    BY DEF Init
  <2>2. kmaps \in [Ctrls -> SUBSET [va : VAddrs, by : Handles]] /\ ufd \in [Ctrls -> BOOLEAN]
    BY DEF Init
  <2> QED BY <2>1, <2>2 DEF Init, ModTyped
<1>6. Mapped
  BY <1>3 DEF Mapped, PinnedMapped, MappedPinned, AddressedOnce, Init
<1>7. Following /\ FaultsKnown
  BY <1>3 DEF Following, FaultsKnown, Init
<1> QED BY <1>4, <1>5, <1>6, <1>7 DEF IInv

\* It is about the variables.
LEMMA IInvStays == ASSUME IInv, UNCHANGED vars PROVE IInv'
<1>1. obj' = obj /\ ufd' = ufd /\ opener' = opener /\ kmaps' = kmaps /\ fault' = fault
      /\ foreign' = foreign
  BY DEF vars
<1>2. ObjTyped' /\ ModTyped'
  BY <1>1 DEF IInv, ObjTyped, ModTyped, KindsOf
<1>3. Following' /\ Mapped'
  BY <1>1, FollowingStays, MappedStays DEF IInv
<1>4. FaultsKnown'
  BY <1>1 DEF IInv, FaultsKnown, Tried
<1> QED BY <1>2, <1>3, <1>4 DEF IInv

\* Every action keeps it.
LEMMA NextInv == ASSUME Sound, IInv, [Next]_vars PROVE IInv'
<1>1. CASE UNCHANGED vars
  BY <1>1, IInvStays
<1>2. CASE fault # Fine /\ UNCHANGED vars
  BY <1>2, IInvStays
<1>3. CASE fault = Fine /\ Next
  <2>0. Ready
    BY <1>3 DEF IInv, Ready
  <2>1. ASSUME NEW t \in Threads, NEW c \in Ctrls, NEW k \in Kinds \intersect CtrlKinds,
        CtrlInit(c, t, k) PROVE IInv'
    BY <2>0, <2>1, CtrlInitKeeps
  <2>2. ASSUME NEW t \in Threads, NEW c \in Ctrls, NEW k \in Kinds \intersect ProgKinds,
        Start(c, t, k) PROVE IInv'
    BY <2>0, <2>2, StartKeeps
  <2>3. ASSUME NEW t \in Threads, NEW c \in Ctrls, CtrlFree(c, t) PROVE IInv'
    BY <2>0, <2>3, CtrlFreeKeeps
  <2>4. ASSUME NEW t \in Threads, NEW c \in Ctrls, UserClose(c, t) PROVE IInv'
    BY <2>0, <2>4, UserCloseKeeps
  <2>5. ASSUME NEW c \in Ctrls, DeviceRemoved(c) PROVE IInv'
    BY <2>0, <2>5, DeviceRemovedKeeps
  <2>6. ASSUME NEW t \in Threads, NEW h \in Handles, NEW k \in Kinds \intersect DmaKinds,
        DmaInit(h, t, k) PROVE IInv'
    BY <2>0, <2>6, DmaInitKeeps
  <2>7. ASSUME NEW t \in Threads, NEW h \in Handles, DmaUnmap(h, t) PROVE IInv'
    BY <2>0, <2>7, DmaUnmapKeeps
  <2>8. ASSUME NEW o \in Objects, Work(o) PROVE IInv'
    <3>1. CASE Proceed(o)
      BY <2>0, <3>1, ProceedKeeps
    <3>2. CASE StepFails(o)
      BY <2>0, <3>2, StepFailsKeeps
    <3>3. CASE StepDrops(o)
      BY <2>0, <3>3, StepDropsKeeps
    <3>4. CASE Return(o)
      BY <2>0, <3>4, ReturnKeeps
    <3>5. CASE ReleaseNext(o)
      BY <2>0, <3>5, ReleaseNextKeeps
    <3>6. CASE ReleaseDone(o)
      BY <2>0, <3>6, ReleaseDoneKeeps
    <3> QED BY <2>8, <3>1, <3>2, <3>3, <3>4, <3>5, <3>6 DEF Work
  <2> QED BY <1>3, <2>1, <2>2, <2>3, <2>4, <2>5, <2>6, <2>7, <2>8 DEF Next
<1> QED BY <1>1, <1>2, <1>3 DEF Next

-----

\* Only programs initialise SISCI.
LEMMA SisciTaken ==
    ASSUME NEW x \in Object(AllKinds), NEW f, IsTrace(x.kind, f), Follows(x, f), SISCI \in x.held
    PROVE  x.kind \in ProgKinds
<1>1. SISCI \in TriedBy(x)
  BY DEF Follows
<1>2. PICK i \in 1..(x.pos - 1) : SISCI = Program(x.kind)[i].get
  BY <1>1 DEF TriedBy
<1>3. i \in 1..Len(Program(x.kind))
  <2>1. Len(Program(x.kind)) \in Nat /\ x.pos \in 1..(Len(Program(x.kind)) + 1)
    BY DEF IsTrace, Follows, Final
  <2> QED BY <2>1
<1> DEFINE s == Program(x.kind)[i]
<1>4. \/ StepOk(x.kind, Built(i), f, s, i, Len(Program(x.kind))) \/ TakesBindings(x.kind, f, i)
  BY <1>3 DEF IsTrace
<1>5. SISCI # None /\ SISCI # Bindings
  BY DEF SISCI, None, Bindings, var, R
<1>6. ~TakesBindings(x.kind, f, i)
  <2>1. TakesBindings(x.kind, f, i) => s.get = Bindings
    BY DEF TakesBindings
  <2> QED BY <2>1, <1>2, <1>5
<1>7. TakesOk(x.kind, s.get)
  BY <1>2, <1>4, <1>5, <1>6 DEF StepOk
<1> QED BY <1>2, <1>7 DEF TakesOk

\* Nothing rests on, or is one of, what may or may not be held.
LEMMA CoreRests ==
    ASSUME NEW k, NEW t \in BOOLEAN, NEW S, None \notin S, Rests(k, t, Core(S))
    PROVE  Rests(k, t, S)
<1> DEFINE C == Core(S)
<1>1. \A r \in S : r \in C \/ r = SISCI \/ r = Bindings
  BY DEF Core, Optionals
<1>2. C \subseteq S
  BY DEF Core
<1>3. \A s \in {"dev", "ref", "md", "seg", "dma", "tmp", "queue", "page"} : \A x : R(s,
      x) \in S <=> R(s, x) \in C
  <2>1. ASSUME NEW s \in {"dev", "ref", "md", "seg", "dma", "tmp", "queue", "page"}, NEW x
        PROVE R(s, x) # SISCI /\ R(s, x) # Bindings
    BY DEF SISCI, Bindings, var, R
  <2> QED BY <2>1, <1>1, <1>2
<1>4. \A x \in Pointers \ {"sisci"} : (S \cap {var(x), loc(x)} # {}) <=> (C \cap {var(x),
      loc(x)} # {})
  <2>1. ASSUME NEW x \in Pointers \ {"sisci"}
        PROVE  var(x) # SISCI /\ var(x) # Bindings /\ loc(x) # SISCI /\ loc(x) # Bindings
    BY DEF SISCI, Bindings, var, loc, R
  <2> QED BY <2>1, <1>1, <1>2
<1>5. Backed(k, C) /\ Stored(C) /\ (k \in ProgKinds => ProgramRests(k, t, C))
  BY DEF Rests
<1> HIDE DEF C
<1>6. Backed(k, S)
  BY <1>3, <1>5 DEF Backed
<1>7. Stored(S)
  <2>1. ASSUME NEW r \in S \ {R("seg", "sd")}, r[1] \in InMemory PROVE R(r[1], "mem") \in S
    <3>1. r # SISCI /\ r # Bindings
      BY <2>1 DEF SISCI, Bindings, var, R, InMemory
    <3> QED BY <3>1, <2>1, <1>1, <1>2, <1>5 DEF Stored
  <2> QED BY <2>1 DEF Stored
<1>8. ASSUME k \in ProgKinds PROVE ProgramRests(k, t, S)
  <2>1. /\ \A x \in {"aq", "ctrl", "aq_mem", "aq_ptr", "sq_mem", "cq_mem", "queue_ptr",
                     "buffer", "buffer_ptr"} :
              (S \cap {var(x), loc(x)} # {}) <=> (C \cap {var(x), loc(x)} # {})
        /\ \A s \in {"queue", "page"} : \A x : R(s, x) \in S <=> R(s, x) \in C
    BY <1>3, <1>4 DEF Pointers
  <2>2. ProgramRests(k, t, C)
    BY <1>5, <1>8
  <2> QED BY <2>1, <2>2 DEF ProgramRests
<1> QED BY <1>6, <1>7, <1>8 DEF Rests

\* The phase in which the constructor of the benchmark's Controller has thrown
LEMMA PhaseThrown ==
    ASSUME ObjTyped, NEW o \in Using, Len(Controller) \in Nat
    PROVE  (Phase(obj[o]) = "throw") = Thrown(o)
<1>1. obj[o].pos \in Nat
  BY InUse DEF Using, Object
<1>2. Built(obj[o].pos) <=> ~(obj[o].pos <= 1 + Len(Controller))
  BY <1>1 DEF Built
<1> QED BY <1>2 DEF Phase, Thrown, Undo

\* What is held, SISCI and binding handles included, has what it rests on.
LEMMA HeldRests ==
    ASSUME Sound, IInv, NEW o \in Using, Len(Controller) \in Nat
    PROVE  /\ Rests(obj[o].kind, Thrown(o), obj[o].held) /\ o \in Objects
              /\ obj[o] \in Object(AllKinds)
           /\ IsTrace(obj[o].kind, Trace(obj[o].kind)) /\ Follows(obj[o], Trace(obj[o].kind))
                 /\ Described(obj[o])
<1> DEFINE x == obj[o]
<1>1. o \in Objects /\ x \in Object(AllKinds) /\ x.kind \in AllKinds /\ Follows(x, Trace(x.kind))
      /\ Described(x)
  BY InUse DEF Using, IInv, Following, Object
<1>2. IsTrace(x.kind, Trace(x.kind))
  BY <1>1, TraceIs
<1>3. Rests(x.kind, Phase(x) = "throw", Core(x.held))
  <2>1. Core(x.held) \ First(x.todo, 0) = Core(x.held) /\ 0 \in 0..Len(x.todo)
    <3>1. Len(x.todo) \in Nat
      BY <1>1 DEF Object
    <3> QED BY <3>1, FirstZero
  <2> QED BY <1>1, <2>1 DEF Follows, Rel
<1>4. None \notin x.held
  BY <1>1 DEF Follows, TriedBy
<1>5. (Phase(x) = "throw") = Thrown(o) /\ (Phase(x) = "throw") \in BOOLEAN
  BY PhaseThrown DEF IInv
<1>6. Rests(x.kind, Phase(x) = "throw", x.held)
  BY <1>3, <1>4, <1>5, CoreRests
<1> QED BY <1>1, <1>2, <1>5, <1>6

\* Grounded follows from the invariant.
LEMMA GroundedInv == ASSUME Sound, IInv, Len(Controller) \in Nat PROVE Grounded
<1> SUFFICES ASSUME NEW o \in Objects PROVE Rests(obj[o].kind, Thrown(o), obj[o].held)
  BY DEF Grounded
<1>1. CASE o \in Using
  BY <1>1, HeldRests
<1>2. CASE o \notin Using
  <2>1. obj[o] = Nothing
    BY <1>2, InUse DEF IInv
  <2>2. obj[o].kind = "none" /\ obj[o].held = {}
    BY <2>1 DEF Nothing
  <2>3. "none" \notin ProgKinds
    BY DEF ProgKinds, LatKinds
  <2>4. Backed("none", {}) /\ Stored({})
    BY DEF Backed, Stored
  <2> QED BY <2>2, <2>3, <2>4 DEF Rests
<1> QED BY <1>1, <1>2

\* CleanAfter follows from the invariant.
LEMMA CleanInv == ASSUME Sound, IInv, Len(Controller) \in Nat PROVE CleanAfter
<1> SUFFICES ASSUME NEW o \in Objects, obj[o].st = "release", obj[o].todo = <<>>
             PROVE  obj[o].held \subseteq Left(obj[o].kind, Thrown(o))
  BY DEF CleanAfter
<1> DEFINE x == obj[o]
<1>1. o \in Using
  BY DEF Using
<1>2. x \in Object(AllKinds) /\ Follows(x, Trace(x.kind)) /\ IsTrace(x.kind, Trace(x.kind))
  BY <1>1, HeldRests
<1>3. Elems(<<>>) = {}
  BY FirstZero DEF Elems
<1>4. Core(x.held) \subseteq Left(x.kind, Thrown(o))
  BY <1>1, <1>2, <1>3, PhaseThrown DEF Follows, Holds, IInv
<1>5. Bindings \notin x.held /\ None \notin x.held
  BY <1>2, <1>3 DEF Follows, Serves, TriedBy
<1>6. SISCI \in x.held => SISCI \in Left(x.kind, Thrown(o))
  <2>1. SISCI \in x.held => x.kind \in ProgKinds
    BY <1>2, SisciTaken
  <2>2. x.kind \in ProgKinds => SISCI \in Left(x.kind, Thrown(o))
    BY DEF Left, SISCI, ProgKinds, LatKinds, SegKinds
  <2> QED BY <2>1, <2>2
<1> QED BY <1>4, <1>5, <1>6 DEF Core, Optionals

\* TypeOK follows from the invariant.
LEMMA TypeInv == ASSUME Sound, IInv, Len(Controller) \in Nat PROVE TypeOK
<1>1. ASSUME NEW o \in Objects
      PROVE  /\ obj[o].st \in {"none", "build", "live", "release"}
             /\ obj[o].st # "none"
                   => obj[o].held \subseteq Tried(o) /\ obj[o].got \in 0..obj[o].md.n
  <2>1. CASE o \in Using
    <3>1. obj[o] \in Object(AllKinds) /\ Follows(obj[o], Trace(obj[o].kind)) /\ Described(obj[o])
      BY <2>1, HeldRests
    <3> QED BY <3>1 DEF Object, Follows, Described, Tried, TriedBy
  <2>2. CASE o \notin Using
    BY <2>2 DEF Using
  <2> QED BY <2>1, <2>2
<1>2. \A c \in Ctrls : kmaps[c] \subseteq [va : VAddrs, by : Handles]
  BY DEF IInv, ModTyped
<1> QED BY <1>1, <1>2 DEF TypeOK, IInv, ModTyped

\* ModuleAgrees follows from the invariant.
LEMMA AgreesInv == ASSUME Sound, IInv, Len(Controller) \in Nat PROVE ModuleAgrees
<1>1. ASSUME NEW h \in Handles, obj[h].st = "live", obj[h].kind \in KernKinds
      PROVE  \E m \in kmaps[obj[h].via] : m.by = h
  <2>1. h \in Using
    BY <1>1 DEF Using, Objects
  <2>2. obj[h] \in Object(AllKinds) /\ Follows(obj[h], Trace(obj[h].kind))
        /\ IsTrace(obj[h].kind, Trace(obj[h].kind))
    BY <2>1, HeldRests
  <2>3. obj[h].todo = <<>> /\ obj[h].pos = Final(obj[h].kind)
    BY <1>1, <2>2 DEF Follows
  <2>4. Core(obj[h].held) = Trace(obj[h].kind)[Final(obj[h].kind)]
    BY <1>1, <2>2, <2>3, Idle
  <2>5. R("md", "pages") \in Core(obj[h].held)
    BY <1>1, <2>2, <2>4 DEF IsTrace
  <2>6. Pinned(h)
    BY <2>5 DEF Pinned, Core
  <2>7. [va |-> obj[h].va, by |-> h] \in kmaps[obj[h].via]
    BY <2>1, <2>6 DEF IInv, Mapped, PinnedMapped
  <2> QED BY <2>7
<1>2. ASSUME NEW c \in Ctrls, NEW m \in kmaps[c]
      PROVE  \/ OpenBy(m.by, c) /\ R("md", "pages") \in obj[m.by].held /\ obj[m.by].va = m.va
             \/ <<c, m.va>> \in foreign
  <2>1. \/ m.by \in Using /\ Pinned(m.by) /\ obj[m.by].via = c /\ obj[m.by].va = m.va
        \/ <<c, m.va>> \in foreign
    BY <1>2 DEF IInv, Mapped, MappedPinned
  <2>2. ASSUME m.by \in Using, Pinned(m.by), obj[m.by].via = c PROVE OpenBy(m.by, c)
    <3>1. obj[m.by] \in Object(AllKinds) /\ Follows(obj[m.by], Trace(obj[m.by].kind))
      BY <2>2, HeldRests
    <3>2. R("md", "fd") \in obj[m.by].held
      BY <2>2, <3>1, PinnedOpen DEF Pinned
    <3> QED BY <2>2, <3>2 DEF OpenBy, Using
  <2> QED BY <2>1, <2>2 DEF Pinned
<1> QED BY <1>1, <1>2 DEF ModuleAgrees

\* AddressesCover follows from the invariant.
LEMMA CoverInv == ASSUME Sound, IInv, Len(Controller) \in Nat PROVE AddressesCover
<1> SUFFICES ASSUME NEW h \in Handles, obj[h].st = "live", obj[h].md.page % CtrlPage = 0,
      obj[h].got = obj[h].md.n
             PROVE  LET md    == obj[h].md
                        addrs == _nvm_dma_handle_populate(md, obj[h].got)
                        bytes == Cardinality(DOMAIN addrs) * CtrlPage
                    IN /\ \A i \in DOMAIN addrs : /\ addrs[i].page \in 0..(md.n - 1)
                                                  /\ addrs[i].page * md.page + addrs[i].off
                                                        = i * CtrlPage
                                                  /\ addrs[i].off + CtrlPage <= md.page
                       /\ CASE obj[h].kind = "phys" -> bytes = md.page * obj[h].size
                            [] obj[h].kind \in {"remote", "remote_va"} ->
                                  bytes <= obj[h].size /\ obj[h].size < bytes + CtrlPage
                            [] OTHER -> bytes >= obj[h].size
  BY DEF AddressesCover
<1> DEFINE x == obj[h]
           md == x.md
           addrs == _nvm_dma_handle_populate(md, x.got)
           bytes == Cardinality(DOMAIN addrs) * CtrlPage
<1>1. h \in Using /\ h \notin Ctrls /\ h \in Objects
  BY DmaAssumption DEF Using, Objects
<1>2. x \in Object(AllKinds) /\ Follows(x, Trace(x.kind)) /\ IsTrace(x.kind, Trace(x.kind))
      /\ Described(x)
  BY <1>1, HeldRests
<1>3. x.kind \in DmaKinds
  BY <1>1, InUse DEF IInv, KindsOf
<1>4. R("dma", "mem") \in x.held
  <2>1. x.todo = <<>> /\ x.pos = Final(x.kind)
    BY <1>2 DEF Follows
  <2>2. Core(x.held) = Trace(x.kind)[Final(x.kind)]
    BY <1>2, <2>1, Idle
  <2>3. R("dma", "mem") \in Core(x.held)
    BY <1>2, <1>3, <2>2 DEF IsTrace
  <2> QED BY <2>3 DEF Core
<1>5. Fits(md) /\ md \in [page : Nat, n : Nat] /\ x.size \in Nat
  BY <1>2, <1>4 DEF Described, Object
<1>6. /\ \A i \in DOMAIN addrs : /\ addrs[i].page \in 0..(md.n - 1)
                                 /\ addrs[i].page * md.page + addrs[i].off = i * CtrlPage
                                 /\ addrs[i].off + CtrlPage <= md.page
      /\ bytes = md.page * md.n
  BY <1>5, Addresses
<1>7. PICK page \in RawPages \union {0} : md = Descriptor(x.kind, x.size, page)
  BY <1>2, <1>3 DEF Described
<1>8. page \in Nat
  BY DmaAssumption
<1>9. (CASE x.kind = "phys" -> md.page * md.n = md.page * x.size
        [] x.kind \in {"remote", "remote_va"} -> md.page * md.n <= x.size
              /\ x.size < md.page * md.n + CtrlPage
        [] OTHER -> md.page * md.n >= x.size)
  BY <1>3, <1>5, <1>7, <1>8, Covers
<1> HIDE DEF addrs, bytes
<1>10. (CASE x.kind = "phys" -> bytes = md.page * x.size
        [] x.kind \in {"remote", "remote_va"} -> bytes <= x.size /\ x.size < bytes + CtrlPage
        [] OTHER -> bytes >= x.size)
  BY <1>6, <1>9
<1> QED BY <1>6, <1>10 DEF addrs, bytes

\* Every program has a trace.
LEMMA ProgSound == ASSUME NEW k \in ProgKinds PROVE \E f : IsTrace(k, f)
<1>1. CASE k \in LatKinds
  BY <1>1, LatencySound
<1>2. CASE k = "rpc_server"
  BY <1>2, ServerSound
<1>3. CASE k \notin LatKinds /\ k # "rpc_server"
  <2>1. /\ k \in AllKinds /\ k \notin DmaKinds /\ k \notin KernKinds
        /\ Program(k) = Main(k).steps /\ Release(k) = Main(k).release
    BY ProgramIs DEF AllKinds, ProgKinds, LatKinds, DmaKinds, KernKinds, DisKinds,
        SegKinds
  <2>2. \E V : /\ Good(k, TRUE, {}, Main(k).steps, V) /\ Main(k).release \in Seq(Res)
               /\ Frees(k, "release", At(k, V), V, Main(k).release)
    <3>1. CASE k = "id_user"
      <4>1. Main(k) = id_user
        BY <3>1, <1>3 DEF Main
      <4> QED BY <3>1, <4>1, IdUserGood DEF Held
    <3>2. CASE k = "id_module"
      <4>1. Main(k) = id_module
        BY <3>2, <1>3 DEF Main
      <4> QED BY <3>2, <4>1, IdModuleGood DEF Held
    <3>3. CASE k = "id_smartio"
      <4>1. Main(k) = id_smartio
        BY <3>3, <1>3 DEF Main
      <4> QED BY <3>3, <4>1, IdSmartioGood DEF Held
    <3>4. CASE k = "read_module"
      <4>1. Main(k) = read_module /\ \A V : At(k, V) = V
        BY <3>4, <1>3 DEF Main, At, KeepKinds, NullKinds
      <4> QED BY <3>4, <4>1, ReadModuleGood
    <3>5. CASE k = "read_smartio"
      <4>1. Main(k) = read_smartio /\ \A V : At(k, V) = V
        BY <3>5, <1>3 DEF Main, At, KeepKinds, NullKinds
      <4> QED BY <3>5, <4>1, ReadSmartioGood
    <3>6. CASE k = "integrity"
      <4>1. Main(k) = integrity
        BY <3>6, <1>3 DEF Main
      <4> QED BY <3>6, <4>1, IntegrityGood DEF Held
    <3>7. CASE k = "rpc_client"
      <4>1. Main(k) = rpc_client
        BY <3>7, <1>3 DEF Main
      <4> QED BY <3>7, <4>1, RpcClientGood DEF Held
    <3> QED BY <1>3, <3>1, <3>2, <3>3, <3>4, <3>5, <3>6, <3>7 DEF ProgKinds
  <2> QED BY <1>3, <2>1, <2>2, GoodTrace
<1> QED BY <1>1, <1>2, <1>3

\* Every constructor and every program has a trace.
LEMMA AllSound == Sound
<1> SUFFICES ASSUME NEW k \in AllKinds PROVE (\E f : IsTrace(k, f)) /\ Rests(k, FALSE, {})
  BY DEF Sound
<1>1. CASE k \in ProgKinds
  BY <1>1, ProgSound, ProgBase
<1>2. CASE k \in CtrlKinds
  BY <1>2, CtrlSound, Nothing0 DEF LibKinds
<1>3. CASE k \in DmaKinds
  BY <1>3, DmaSound, Nothing0 DEF LibKinds
<1> QED BY <1>1, <1>2, <1>3 DEF AllKinds

\* The inductive invariant: every call in progress, finished handle and program holds
\* what its constructor says it holds at that step, or is giving back just that.
THEOREM Inductive == Spec => []IInv
<1>1. Init => IInv
  BY InitInv
<1>2. IInv /\ [Next]_vars => IInv'
  BY AllSound, NextInv
<1> QED BY <1>1, <1>2, PTL DEF Spec

\* Type correctness: what objects hold are resources their constructors take.
THEOREM TypeCorrect == Spec => []TypeOK
<1>1. IInv => TypeOK
  BY AllSound, ControllerLen, TypeInv
<1> QED BY <1>1, Inductive, PTL

\* A call that fails, and a release, leave nothing behind but what is known to be left,
\* whichever step of a constructor or of a program fails.
THEOREM NothingLeftBehind == Spec => []CleanAfter
<1>1. IInv => CleanAfter
  BY AllSound, ControllerLen, CleanInv
<1> QED BY <1>1, Inductive, PTL

\* In roll-backs and releases too, what is held has what it rests on.
THEOREM AlwaysGrounded == Spec => []Grounded
<1>1. IInv => Grounded
  BY AllSound, ControllerLen, GroundedInv
<1> QED BY <1>1, Inductive, PTL

\* The module has mapped what live handles stand for, and maps nothing else, except what
\* another thread than the opener released.
THEOREM ModuleAndHandles == Spec => []ModuleAgrees
<1>1. IInv => ModuleAgrees
  BY AllSound, ControllerLen, AgreesInv
<1> QED BY <1>1, Inductive, PTL

\* The addresses that _nvm_dma_handle_populate computes lie in the pages they are taken
\* from, one controller page after the other, and cover what was asked for.
THEOREM AddressesRight == Spec => []AddressesCover
<1>1. IInv => AddressesCover
  BY AllSound, ControllerLen, CoverInv
<1> QED BY <1>1, Inductive, PTL

\* Nothing is released twice, or read after it was freed, except in the three known places.
THEOREM OnlyKnownFaults == Spec => []FaultsKnown
<1>1. IInv => FaultsKnown
  BY DEF IInv
<1> QED BY <1>1, Inductive, PTL

=============================================================================
