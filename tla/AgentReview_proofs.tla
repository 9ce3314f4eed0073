-------------------------- MODULE AgentReview_proofs --------------------------
(***************************************************************************)
(* Proofs about AgentReview, for every change, number of agents, chunk     *)
(* limit, number of slots and set of answers, and about DiffAnchors, for   *)
(* every diff.  They share the lemmas on concatenations and ranks.         *)
(***************************************************************************)
EXTENDS AgentReview, DiffAnchors, SequenceTheorems, FiniteSetTheorems, FunctionTheorems,
        WellFoundedInduction, TLAPS

PCs == {"waiting", "first", "again", "ok", "failed", "dropped"}

Task == [pc : PCs, found : Answers \cup {<< >>}]

\* What the variables hold.
Types ==
  /\ stage \in {"chunk", "review", "finish", "complete", "done", "failed", "error"}
  /\ live \in BOOLEAN
  /\ agents \in {{}, Specialists}
  /\ change \in Seq(ChangedFile) /\ next \in 1 .. Len(change) + 1
  /\ cur \in Seq(ChangedFile) /\ curLines \in Nat
  /\ chunks \in Seq(Seq(ChangedFile))
  /\ task \in [Tasks -> Task]

\* The changed lines of a chunk.
Lines(c) == SumFunction([m \in DOMAIN c |-> c[m].lines])

Fits(c) == Len(c) = 1 \/ Lines(c) <= MaxLines

\* curLines counts the chunk that is being filled, and no chunk is too large.
ChunksFit ==
  /\ curLines = Lines(cur) /\ curLines <= MaxLines
  /\ \A n \in DOMAIN chunks : Fits(chunks[n])

\* The chunks and the one being filled hold the files ChunkFiles is past.
ChunksHold ==
  /\ stage = "chunk" => FlattenSeq(chunks) \o cur = SubSeq(change, 1, next - 1)
  /\ stage # "chunk" => FlattenSeq(chunks) = change

\* There is a goroutine for every agent and chunk, and none is left when the merge is over.
TasksKnown ==
  /\ stage = "chunk" => Tasks = {}
  /\ stage # "chunk" => Tasks = TasksOver(chunks)
  /\ stage \notin {"chunk", "review"} => Returned

\* Goroutines give up after the end of the context only, and then no run is completed.
DroppedLate ==
  /\ live => With("dropped") = {}
  /\ stage = "done" => live

\* The files are those of a listing that are not ignored, sorted.
Listed == changed \in Changes /\ \E l \in Listings(changed) : change = ByAdditions(Reviewable(l))

SlotsRespected == IsFiniteSet(Holding) /\ Cardinality(Holding) <= Slots

\* finish starts from the results in some order, or from what the lead agent made of them.
Collected ==
  /\ merged \in Seq(Finding)
  /\ stage \in {"chunk", "review"} => merged = << >>
  /\ stage \in {"finish", "complete", "done"} /\ ~ compiled => merged \in Merges

\* What is shown is what finish makes of them.
Shown == stage \in {"complete", "done"} => final = Kept(merged, muted)

IInv == Types /\ ChunksFit /\ ChunksHold /\ TasksKnown /\ DroppedLate /\ SlotsRespected
        /\ Listed /\ Collected /\ Shown

-----------------------------------------------------------------------------
(* Flattening, sums and ranks *)

\* Numbers have a least one.
LEMMA LeastExists ==
  ASSUME NEW T, T \subseteq Nat, T # {}
  PROVE  \E x \in T : \A y \in T : x <= y
<1> DEFINE Below(x) == {y \in T : y <= x}
<1> DEFINE Belows == {Below(x) : x \in T}
<1>1. Belows # {}
  OBVIOUS
<1>2. Belows \subseteq FiniteSubsetsOf(T)
  <2> SUFFICES ASSUME NEW x \in T PROVE Below(x) \in FiniteSubsetsOf(T)
    OBVIOUS
  <2>1. x \in Nat /\ Below(x) \in SUBSET Nat /\ \A y \in Below(x) : y <= x
    OBVIOUS
  <2>2. IsFiniteSet(Below(x))
    <3> HIDE DEF Below
    <3> QED
      BY <2>1, FS_BoundedSetOfNaturals
  <2> QED
    BY <2>2 DEF FiniteSubsetsOf
<1>3. PICK B \in Belows : \A C \in Belows : ~ (<<C, B>> \in StrictSubsetOrdering(T))
  <2> HIDE DEF Belows
  <2> QED
    BY <1>1, <1>2, FS_StrictSubsetOrderingWellFounded, WFMin
<1>4. PICK x \in T : B = Below(x)
  BY <1>3
<1>5. ASSUME NEW y \in T, y < x PROVE FALSE
  <2>0. x \in Nat /\ y \in Nat /\ \A z \in T : z \in Nat
    OBVIOUS
  <2>1. Below(y) \subseteq Below(x)
    <3>1. ASSUME NEW z \in T, z <= y PROVE z <= x
      BY <1>5, <2>0, <3>1
    <3> QED
      BY <3>1
  <2>2. x \in Below(x) /\ x \notin Below(y)
    BY <1>5, <2>0
  <2>3. <<Below(y), Below(x)>> \in StrictSubsetOrdering(T)
    BY <2>1, <2>2 DEF StrictSubsetOrdering
  <2> QED
    BY <1>3, <1>4, <2>3
<1> QED
  BY <1>5

\* The recursion of FlattenSeq over the first n of some sequences.
Flattens(f, s, n) == f = [i \in 1 .. n |-> IF i = 1 THEN s[i] ELSE f[i - 1] \o s[i]]

\* There is a function the recursion defines.
LEMMA FlattensExists ==
  ASSUME NEW s, NEW n \in Nat
  PROVE  \E f : Flattens(f, s, n)
<1> DEFINE T == {k \in 0 .. n : ~ \E f : Flattens(f, s, k)}
<1> SUFFICES ASSUME T # {} PROVE FALSE
  OBVIOUS
<1>0. T \subseteq Nat
  OBVIOUS
<1>1. PICK k \in T : \A y \in T : k <= y
  <2> HIDE DEF T
  <2> QED
    BY <1>0, LeastExists
<1>2. k # 0
  <2>1. Flattens([i \in 1 .. 0 |-> 0], s, 0)
    BY DEF Flattens
  <2> QED
    BY <2>1
<1>3. k \in Nat /\ k - 1 \in 0 .. n /\ k - 1 \notin T
  BY <1>1, <1>2
<1>4. PICK f : Flattens(f, s, k - 1)
  BY <1>3
<1> DEFINE g == [i \in 1 .. k |-> IF i = 1 THEN s[i] ELSE f[i - 1] \o s[i]]
<1>5. ASSUME NEW i \in 1 .. k - 1 PROVE g[i] = f[i]
  <2>1. f[i] = IF i = 1 THEN s[i] ELSE f[i - 1] \o s[i]
    BY <1>4 DEF Flattens
  <2>2. i \in 1 .. k
    BY <1>3
  <2> QED
    BY <2>1, <2>2
<1>6. g = [i \in 1 .. k |-> IF i = 1 THEN s[i] ELSE g[i - 1] \o s[i]]
  <2>1. ASSUME NEW i \in 1 .. k, i # 1 PROVE g[i - 1] = f[i - 1]
    <3>1. i - 1 \in 1 .. k - 1
      BY <1>3, <2>1
    <3> HIDE DEF g
    <3> QED
      BY <1>5, <3>1
  <2> QED
    BY <2>1
<1>7. Flattens(g, s, k)
  <2> HIDE DEF g
  <2> QED
    BY <1>6 DEF Flattens
<1> QED
  BY <1>1, <1>7

\* It depends on the sequences it runs over only.
LEMMA FlattensAgree ==
  ASSUME NEW s, NEW t, NEW n \in Nat, NEW m \in Nat, m = n + 1,
         \A i \in 1 .. n : t[i] = s[i],
         NEW f, Flattens(f, s, n), NEW g, Flattens(g, t, m)
  PROVE  \A i \in 1 .. n : g[i] = f[i]
<1> DEFINE T == {i \in 1 .. n : f[i] # g[i]}
<1> SUFFICES ASSUME T # {} PROVE FALSE
  OBVIOUS
<1>0. T \subseteq Nat
  OBVIOUS
<1>1. PICK i \in T : \A y \in T : i <= y
  <2> HIDE DEF T
  <2> QED
    BY <1>0, LeastExists
<1>2. f[i] = (IF i = 1 THEN s[i] ELSE f[i - 1] \o s[i])
  <2>1. i \in 1 .. n
    OBVIOUS
  <2> QED
    BY <2>1 DEF Flattens
<1>3. g[i] = (IF i = 1 THEN t[i] ELSE g[i - 1] \o t[i])
  <2>1. i \in 1 .. m
    OBVIOUS
  <2> QED
    BY <2>1 DEF Flattens
<1>4. i # 1 => i - 1 \in 1 .. n /\ i - 1 \notin T
  BY <1>1
<1> QED
  BY <1>2, <1>3, <1>4

\* What FlattenSeq returns.
LEMMA FlattenDef ==
  ASSUME NEW S, NEW s \in Seq(Seq(S)), s # << >>
  PROVE  \E f : Flattens(f, s, Len(s)) /\ FlattenSeq(s) = f[Len(s)]
<1>1. Len(s) \in Nat \ {0}
  BY EmptySeq
<1> DEFINE f == CHOOSE f : f = [i \in 1 .. Len(s) |-> IF i = 1 THEN s[i] ELSE f[i - 1] \o s[i]]
<1>2. FlattenSeq(s) = f[Len(s)]
  BY <1>1, Zenon DEF FlattenSeq
<1>3. \E g : g = [i \in 1 .. Len(s) |-> IF i = 1 THEN s[i] ELSE g[i - 1] \o s[i]]
  BY <1>1, FlattensExists, Zenon DEF Flattens
<1>4. f = [i \in 1 .. Len(s) |-> IF i = 1 THEN s[i] ELSE f[i - 1] \o s[i]]
  BY <1>3, Zenon
<1>5. Flattens(f, s, Len(s))
  BY <1>4, Zenon DEF Flattens
<1> QED
  BY <1>2, <1>5

\* Flattening sequences gives a sequence.
LEMMA FlattenType ==
  ASSUME NEW S, NEW s \in Seq(Seq(S))
  PROVE  FlattenSeq(s) \in Seq(S)
<1>1. CASE s = << >>
  BY <1>1 DEF FlattenSeq
<1>2. CASE s # << >>
  <2>1. PICK f : Flattens(f, s, Len(s)) /\ FlattenSeq(s) = f[Len(s)]
    BY <1>2, FlattenDef
  <2>2. Len(s) \in Nat \ {0}
    BY <1>2, EmptySeq
  <2> DEFINE T == {i \in 1 .. Len(s) : f[i] \notin Seq(S)}
  <2>3. ASSUME T # {} PROVE FALSE
    <3>0. T \subseteq Nat
      OBVIOUS
    <3>1. PICK i \in T : \A y \in T : i <= y
      <4> HIDE DEF T
      <4> QED
        BY <2>3, <3>0, LeastExists
    <3>2. f[i] = IF i = 1 THEN s[i] ELSE f[i - 1] \o s[i]
      BY <2>1, <2>2 DEF Flattens
    <3>3. s[i] \in Seq(S)
      BY <2>2, ElementOfSeq
    <3>4. i # 1 => i - 1 \in 1 .. Len(s) /\ i - 1 \notin T
      BY <2>2, <3>1
    <3>5. i # 1 => f[i - 1] \o s[i] \in Seq(S)
      BY <3>3, <3>4, ConcatProperties
    <3> QED
      BY <3>2, <3>3, <3>5
  <2> QED
    BY <2>1, <2>2, <2>3
<1> QED
  BY <1>1, <1>2

\* One more sequence is put at the end.
LEMMA FlattenAppend ==
  ASSUME NEW S, NEW s \in Seq(Seq(S)), NEW c \in Seq(S)
  PROVE  FlattenSeq(Append(s, c)) = FlattenSeq(s) \o c
<1> DEFINE t == Append(s, c)
<1>1. /\ t \in Seq(Seq(S)) /\ t # << >> /\ Len(t) = Len(s) + 1
      /\ \A i \in 1 .. Len(s) : t[i] = s[i]
      /\ t[Len(s) + 1] = c
  BY AppendProperties
<1> HIDE DEF t
<1>2. Len(s) \in Nat
  BY LenProperties
<1>3. PICK g : Flattens(g, t, Len(s) + 1) /\ FlattenSeq(t) = g[Len(s) + 1]
  BY <1>1, FlattenDef
<1>4. g[Len(s) + 1] = IF Len(s) + 1 = 1 THEN c ELSE g[Len(s)] \o c
  <2>1. Len(s) + 1 \in 1 .. Len(s) + 1 /\ Len(s) + 1 - 1 = Len(s)
    BY <1>2
  <2>2. g[Len(s) + 1] = IF Len(s) + 1 = 1 THEN t[Len(s) + 1] ELSE g[Len(s) + 1 - 1] \o t[Len(s) + 1]
    <3> DEFINE k == Len(s) + 1
    <3>1. k \in 1 .. k /\ Flattens(g, t, k)
      BY <1>3, <2>1
    <3> HIDE DEF k
    <3>2. g[k] = IF k = 1 THEN t[k] ELSE g[k - 1] \o t[k]
      BY <3>1 DEF Flattens
    <3> QED
      BY <3>2 DEF k
  <2> QED
    BY <1>1, <2>1, <2>2
<1>5. CASE s = << >>
  <2>1. FlattenSeq(s) = << >>
    BY <1>5 DEF FlattenSeq
  <2>2. << >> \o c = c
    BY ConcatEmptySeq
  <2> QED
    <3>1. Len(s) + 1 = 1
      BY <1>5
    <3> QED
      BY <1>3, <1>4, <2>1, <2>2, <3>1 DEF t
<1>6. CASE s # << >>
  <2>1. PICK f : Flattens(f, s, Len(s)) /\ FlattenSeq(s) = f[Len(s)]
    BY <1>6, FlattenDef
  <2>2. Len(s) # 0
    BY <1>6, EmptySeq
  <2>3. \A i \in 1 .. Len(s) : g[i] = f[i]
    <3> DEFINE n == Len(s)
    <3> DEFINE m == Len(s) + 1
    <3>1. /\ n \in Nat /\ m \in Nat /\ m = n + 1
          /\ \A i \in 1 .. n : t[i] = s[i]
          /\ Flattens(f, s, n) /\ Flattens(g, t, m)
      BY <1>1, <1>2, <1>3, <2>1
    <3> HIDE DEF n, m
    <3>2. \A i \in 1 .. n : g[i] = f[i]
      BY ONLY <3>1, FlattensAgree
    <3> QED
      BY <3>2 DEF n
  <2>4. g[Len(s)] = f[Len(s)]
    BY <1>2, <2>2, <2>3
  <2> QED
    <3>1. Len(s) + 1 # 1
      BY <1>2, <2>2
    <3> QED
      BY <1>3, <1>4, <2>1, <2>4, <3>1 DEF t
<1> QED
  BY <1>5, <1>6

\* The recursion of SumFunction over some of a function's arguments.
Sums(g, f, D) ==
  g = [s \in D |-> IF s = {} THEN 0 ELSE f[CHOOSE x \in s : TRUE] + g[s \ {CHOOSE x \in s : TRUE}]]

\* Finite sets of a kind have a smallest one.
LEMMA SmallestExists ==
  ASSUME NEW T, T # {}, \A s \in T : IsFiniteSet(s)
  PROVE  \E s \in T : \A t \in T : Cardinality(s) <= Cardinality(t)
<1> DEFINE N == {Cardinality(s) : s \in T}
<1>1. N \subseteq Nat /\ N # {}
  BY FS_CardinalityType
<1>2. PICK n \in N : \A m \in N : n <= m
  <2> HIDE DEF N
  <2> QED
    BY <1>1, LeastExists
<1> QED
  BY <1>2

\* The sets of at most n of some elements.
UpTo(n, S) == {s \in SUBSET S : Cardinality(s) <= n}

\* There is a function the recursion defines.
LEMMA SumsExists ==
  ASSUME NEW f, NEW S, IsFiniteSet(S)
  PROVE  \E g : Sums(g, f, SUBSET S)
<1> DEFINE T == {n \in Nat : ~ \E g : Sums(g, f, UpTo(n, S))}
<1>1. ASSUME T # {} PROVE FALSE
  <2>1. T \subseteq Nat
    OBVIOUS
  <2>2. PICK n \in T : \A m \in T : n <= m
    <3> HIDE DEF T
    <3> QED
      BY <1>1, <2>1, LeastExists
  <2>3. ASSUME NEW s \in UpTo(n, S)
        PROVE  IsFiniteSet(s) /\ Cardinality(s) \in Nat
    BY FS_Subset, FS_CardinalityType DEF UpTo
  <2>4. ASSUME n = 0 PROVE FALSE
    <3> DEFINE g == [s \in UpTo(n, S) |-> 0]
    <3>1. \A s \in UpTo(n, S) : s = {}
      BY <2>3, <2>4, FS_EmptySet DEF UpTo
    <3>2. Sums(g, f, UpTo(n, S))
      BY <3>1 DEF Sums
    <3> QED
      BY <3>2
  <2>5. n \in Nat /\ n - 1 \in Nat /\ n - 1 \notin T
    BY <2>2, <2>4
  <2>6. PICK h : Sums(h, f, UpTo(n - 1, S))
    BY <2>5
  <2> DEFINE g == [s \in UpTo(n, S) |->
                     IF s = {} THEN 0 ELSE f[CHOOSE x \in s : TRUE] + h[s \ {CHOOSE x \in s : TRUE}]]
  <2>7. ASSUME NEW s \in UpTo(n - 1, S) PROVE g[s] = h[s]
    <3>1. s \in UpTo(n, S)
      <4>1. IsFiniteSet(s) /\ Cardinality(s) \in Nat
        BY FS_Subset, FS_CardinalityType DEF UpTo
      <4> QED
        BY <2>5, <4>1 DEF UpTo
    <3>2. h[s] = IF s = {} THEN 0 ELSE f[CHOOSE x \in s : TRUE] + h[s \ {CHOOSE x \in s : TRUE}]
      BY <2>6, Zenon DEF Sums
    <3> QED
      BY <3>1, <3>2, Zenon
  <2>8. ASSUME NEW s \in UpTo(n, S), s # {}
        PROVE  s \ {CHOOSE x \in s : TRUE} \in UpTo(n - 1, S)
    <3> DEFINE x == CHOOSE x \in s : TRUE
    <3>1. x \in s
      BY <2>8
    <3> HIDE DEF x
    <3>2. Cardinality(s \ {x}) = Cardinality(s) - 1
      BY <2>3, <3>1, FS_RemoveElement
    <3>3. s \ {x} \in UpTo(n - 1, S)
      BY <2>3, <2>5, <3>2 DEF UpTo
    <3> QED
      BY <3>3 DEF x
  <2>9. g = [s \in UpTo(n, S) |->
              IF s = {} THEN 0 ELSE f[CHOOSE x \in s : TRUE] + g[s \ {CHOOSE x \in s : TRUE}]]
    <3>1. \A s \in UpTo(n, S) : s = {} \/ g[s \ {CHOOSE x \in s : TRUE}] = h[s \ {CHOOSE x \in s : TRUE}]
      <4> HIDE DEF g
      <4> QED
        BY <2>7, <2>8, Zenon
    <3> DEFINE Of(k, s) ==
                 IF s = {} THEN 0 ELSE f[CHOOSE x \in s : TRUE] + k[s \ {CHOOSE x \in s : TRUE}]
    <3>2. \A s \in UpTo(n, S) : Of(h, s) = Of(g, s)
      <4> SUFFICES ASSUME NEW s \in UpTo(n, S) PROVE Of(h, s) = Of(g, s)
        OBVIOUS
      <4> HIDE DEF g
      <4>1. CASE s = {}
        BY <4>1
      <4>2. CASE s # {}
        <5>1. g[s \ {CHOOSE x \in s : TRUE}] = h[s \ {CHOOSE x \in s : TRUE}]
          BY <3>1, <4>2
        <5> QED
          BY <5>1, Zenon
      <4> QED
        BY <4>1, <4>2
    <3>3. g = [s \in UpTo(n, S) |-> Of(h, s)]
      OBVIOUS
    <3>4. g = [s \in UpTo(n, S) |-> Of(g, s)]
      <4> HIDE DEF g, Of
      <4> QED
        BY <3>2, <3>3
    <3> HIDE DEF g
    <3> QED
      BY <3>4
  <2>10. Sums(g, f, UpTo(n, S))
    <3> HIDE DEF g
    <3> QED
      BY <2>9, Zenon DEF Sums
  <2> QED
    BY <2>2, <2>10
<1>2. Cardinality(S) \in Nat /\ UpTo(Cardinality(S), S) = SUBSET S
  BY FS_CardinalityType, FS_Subset DEF UpTo
<1>3. Cardinality(S) \notin T
  BY <1>1
<1> QED
  BY <1>2, <1>3

\* What SumFunction returns.
LEMMA SumDef ==
  ASSUME NEW f, IsFiniteSet(DOMAIN f)
  PROVE  \E g : Sums(g, f, SUBSET (DOMAIN f)) /\ SumFunction(f) = g[DOMAIN f]
<1> DEFINE g == CHOOSE g : g = [s \in SUBSET (DOMAIN f) |->
                  IF s = {} THEN 0 ELSE f[CHOOSE x \in s : TRUE] + g[s \ {CHOOSE x \in s : TRUE}]]
<1>1. SumFunction(f) = g[DOMAIN f]
  BY Zenon DEF SumFunction, SumFunctionOnSet, FoldFunctionOnSet, MapThenFoldSet
<1>2. \E h : h = [s \in SUBSET (DOMAIN f) |->
                    IF s = {} THEN 0 ELSE f[CHOOSE x \in s : TRUE] + h[s \ {CHOOSE x \in s : TRUE}]]
  <2>1. PICK h : Sums(h, f, SUBSET (DOMAIN f))
    BY SumsExists
  <2> QED
    BY <2>1, Zenon DEF Sums
<1>3. g = [s \in SUBSET (DOMAIN f) |->
             IF s = {} THEN 0 ELSE f[CHOOSE x \in s : TRUE] + g[s \ {CHOOSE x \in s : TRUE}]]
  BY <1>2, Zenon
<1>4. Sums(g, f, SUBSET (DOMAIN f))
  BY <1>3, Zenon DEF Sums
<1> QED
  BY <1>1, <1>4

\* What the recursion says of one set: some element is taken out.
Adds(g, f, D) ==
  \A s \in SUBSET D :
    /\ s = {} => g[s] = 0
    /\ s # {} => \E x \in s : g[s] = f[x] + g[s \ {x}]

\* A function the recursion defines does that.
LEMMA SumsOf ==
  ASSUME NEW g, NEW f, NEW D, Sums(g, f, SUBSET D)
  PROVE  Adds(g, f, D)
<1> SUFFICES ASSUME NEW s \in SUBSET D
             PROVE  /\ s = {} => g[s] = 0
                    /\ s # {} => \E x \in s : g[s] = f[x] + g[s \ {x}]
  BY DEF Adds
<1>1. g[s] = IF s = {} THEN 0 ELSE f[CHOOSE x \in s : TRUE] + g[s \ {CHOOSE x \in s : TRUE}]
  BY Zenon DEF Sums
<1>2. s # {} => (CHOOSE x \in s : TRUE) \in s
  OBVIOUS
<1> DEFINE x == CHOOSE x \in s : TRUE
<1>3. s = {} => g[s] = 0
  BY <1>1, Zenon
<1>4. s # {} => x \in s /\ g[s] = f[x] + g[s \ {x}]
  BY <1>1, <1>2, Zenon
<1> HIDE DEF x
<1> QED
  BY <1>3, <1>4

\* The recursion over natural numbers.
SumsOver(g, f, D) == IsFiniteSet(D) /\ Sums(g, f, SUBSET D) /\ \A x \in D : f[x] \in Nat

\* A sum of natural numbers is one.
LEMMA SumsType ==
  ASSUME NEW g, NEW f, NEW D, SumsOver(g, f, D)
  PROVE  \A s \in SUBSET D : g[s] \in Nat
<1> DEFINE T == {s \in SUBSET D : g[s] \notin Nat}
<1>1. ASSUME T # {} PROVE FALSE
  <2>0. \A s \in SUBSET D :
          /\ s = {} => g[s] = 0
          /\ s # {} => \E x \in s : g[s] = f[x] + g[s \ {x}]
    <3>1. Adds(g, f, D)
      BY SumsOf DEF SumsOver
    <3> QED
      BY <3>1 DEF Adds
  <2>1. \A s \in SUBSET D : IsFiniteSet(s) /\ Cardinality(s) \in Nat
    BY FS_Subset, FS_CardinalityType DEF SumsOver
  <2>2. \A s \in T : IsFiniteSet(s)
    BY <2>1
  <2>3. PICK s \in T : \A t \in T : Cardinality(s) <= Cardinality(t)
    <3> HIDE DEF T
    <3> QED
      BY <1>1, <2>2, SmallestExists
  <2>4. s # {}
    BY <2>0
  <2>5. PICK x \in s : g[s] = f[x] + g[s \ {x}]
    BY <2>0, <2>4
  <2>6. Cardinality(s \ {x}) = Cardinality(s) - 1
    BY <2>1, FS_RemoveElement
  <2>7. s \ {x} \notin T
    BY <2>1, <2>3, <2>6
  <2>8. g[s \ {x}] \in Nat
    BY <2>7
  <2>9. f[x] \in Nat
    BY DEF SumsOver
  <2> QED
    BY <2>5, <2>8, <2>9
<1> QED
  BY <1>1

\* Any element can be taken out first.
LEMMA SumsRemove ==
  ASSUME NEW g, NEW f, NEW D, SumsOver(g, f, D)
  PROVE  \A s \in SUBSET D : \A x \in s : g[s] = f[x] + g[s \ {x}]
<1> DEFINE T == {s \in SUBSET D : \E x \in s : g[s] # f[x] + g[s \ {x}]}
<1>1. ASSUME T # {} PROVE FALSE
  <2>0. \A s \in SUBSET D :
          /\ s = {} => g[s] = 0
          /\ s # {} => \E x \in s : g[s] = f[x] + g[s \ {x}]
    <3>1. Adds(g, f, D)
      BY SumsOf DEF SumsOver
    <3> QED
      BY <3>1 DEF Adds
  <2>1. \A s \in SUBSET D : IsFiniteSet(s) /\ Cardinality(s) \in Nat
    BY FS_Subset, FS_CardinalityType DEF SumsOver
  <2>2. \A s \in T : IsFiniteSet(s)
    BY <2>1
  <2>3. PICK s \in T : \A t \in T : Cardinality(s) <= Cardinality(t)
    <3> HIDE DEF T
    <3> QED
      BY <1>1, <2>2, SmallestExists
  <2>4. PICK x \in s : g[s] # f[x] + g[s \ {x}]
    OBVIOUS
  <2>5. PICK y \in s : g[s] = f[y] + g[s \ {y}]
    BY <2>0
  <2>6. x # y
    BY <2>4, <2>5
  <2>7. /\ Cardinality(s \ {x}) = Cardinality(s) - 1
        /\ Cardinality(s \ {y}) = Cardinality(s) - 1
    BY <2>1, FS_RemoveElement
  <2>8. s \ {x} \notin T /\ s \ {y} \notin T
    <3>1. ~ (Cardinality(s) <= Cardinality(s \ {x})) /\ ~ (Cardinality(s) <= Cardinality(s \ {y}))
      BY <2>1, <2>7
    <3> HIDE DEF T
    <3> QED
      BY <2>3, <3>1
  <2>9. /\ g[s \ {x}] = f[y] + g[(s \ {x}) \ {y}]
        /\ g[s \ {y}] = f[x] + g[(s \ {y}) \ {x}]
    BY <2>6, <2>8
  <2>10. (s \ {x}) \ {y} = (s \ {y}) \ {x}
    OBVIOUS
  <2>11. f[x] \in Nat /\ f[y] \in Nat /\ g[(s \ {y}) \ {x}] \in Nat
    <3>1. f[x] \in Nat /\ f[y] \in Nat
      BY DEF SumsOver
    <3>2. (s \ {y}) \ {x} \in SUBSET D
      OBVIOUS
    <3> QED
      BY <3>1, <3>2, SumsType
  <2>12. f[y] + (f[x] + g[(s \ {y}) \ {x}]) = f[x] + (f[y] + g[(s \ {y}) \ {x}])
    BY <2>11
  <2> QED
    BY <2>4, <2>5, <2>9, <2>10, <2>12
<1> QED
  BY <1>1

\* Two functions are the same over a set.
SameOver(f, e, D) == \A x \in D : f[x] = e[x]

\* A sum depends on the numbers added only.
LEMMA SumsAgree ==
  ASSUME NEW g, NEW f, NEW D, SumsOver(g, f, D),
         NEW h, NEW e, NEW E, SumsOver(h, e, E), D \subseteq E, SameOver(f, e, D)
  PROVE  g[D] = h[D]
<1> DEFINE T == {s \in SUBSET D : g[s] # h[s]}
<1>1. ASSUME T # {} PROVE FALSE
  <2>0. \A s \in SUBSET D :
          /\ s = {} => g[s] = 0
          /\ s # {} => \E x \in s : g[s] = f[x] + g[s \ {x}]
    <3>1. Adds(g, f, D)
      BY SumsOf DEF SumsOver
    <3> QED
      BY <3>1 DEF Adds
  <2>1. \A s \in SUBSET D : IsFiniteSet(s) /\ Cardinality(s) \in Nat
    BY FS_Subset, FS_CardinalityType DEF SumsOver
  <2>2. \A s \in T : IsFiniteSet(s)
    BY <2>1
  <2>3. PICK s \in T : \A t \in T : Cardinality(s) <= Cardinality(t)
    <3> HIDE DEF T
    <3> QED
      BY <1>1, <2>2, SmallestExists
  <2>4. s # {}
    <3>1. Adds(h, e, E)
      BY SumsOf DEF SumsOver
    <3>2. g[{}] = h[{}]
      BY <2>0, <3>1 DEF Adds
    <3> QED
      BY <3>2
  <2>5. PICK x \in s : g[s] = f[x] + g[s \ {x}]
    BY <2>0, <2>4
  <2>6. h[s] = e[x] + h[s \ {x}]
    BY SumsRemove
  <2>7. Cardinality(s \ {x}) = Cardinality(s) - 1
    BY <2>1, FS_RemoveElement
  <2>8. s \ {x} \notin T
    BY <2>1, <2>3, <2>7
  <2> QED
    BY <2>5, <2>6, <2>8 DEF SameOver
<1> QED
  BY <1>1

\* The function they are the sum of.
LEMMA LinesDef ==
  ASSUME NEW c \in Seq(ChangedFile),
         NEW f, f = [m \in DOMAIN c |-> c[m].lines]
  PROVE  /\ IsFiniteSet(1 .. Len(c)) /\ DOMAIN f = 1 .. Len(c)
         /\ \A m \in 1 .. Len(c) : f[m] = c[m].lines /\ f[m] \in Nat
         /\ \E g : Sums(g, f, SUBSET (1 .. Len(c))) /\ Lines(c) = g[1 .. Len(c)]
<1>1. DOMAIN c = 1 .. Len(c) /\ Len(c) \in Nat
  BY LenProperties
<1>2. IsFiniteSet(1 .. Len(c)) /\ DOMAIN f = 1 .. Len(c)
  BY <1>1, FS_Interval
<1>3. \A m \in 1 .. Len(c) : c[m] \in ChangedFile
  BY ElementOfSeq
<1>4. \A m \in 1 .. Len(c) : f[m] = c[m].lines /\ f[m] \in Nat
  BY <1>1, <1>3 DEF ChangedFile
<1>5. PICK g : Sums(g, f, SUBSET (DOMAIN f)) /\ SumFunction(f) = g[DOMAIN f]
  BY <1>2, SumDef
<1>6. Lines(c) = SumFunction(f)
  BY DEF Lines
<1> QED
  BY <1>2, <1>4, <1>5, <1>6

\* An empty chunk has none, a chunk a natural number of them.
LEMMA LinesType ==
  ASSUME NEW c \in Seq(ChangedFile)
  PROVE  Lines(c) \in Nat /\ (c = << >> => Lines(c) = 0)
<1> DEFINE f == [m \in DOMAIN c |-> c[m].lines]
<1>1. /\ IsFiniteSet(1 .. Len(c)) /\ DOMAIN f = 1 .. Len(c)
      /\ \A m \in 1 .. Len(c) : f[m] = c[m].lines /\ f[m] \in Nat
      /\ \E g : Sums(g, f, SUBSET (1 .. Len(c))) /\ Lines(c) = g[1 .. Len(c)]
  BY LinesDef
<1> HIDE DEF f
<1>2. PICK g : Sums(g, f, SUBSET (1 .. Len(c))) /\ Lines(c) = g[1 .. Len(c)]
  BY <1>1
<1>3. \A s \in SUBSET (1 .. Len(c)) : g[s] \in Nat
  <2>1. SumsOver(g, f, 1 .. Len(c))
    BY <1>1, <1>2 DEF SumsOver
  <2> QED
    BY <2>1, SumsType
<1>4. c = << >> => 1 .. Len(c) = {}
  OBVIOUS
<1>5. Adds(g, f, 1 .. Len(c))
  BY <1>2, SumsOf
<1> QED
  BY <1>2, <1>3, <1>4, <1>5 DEF Adds

\* A chunk with one more file has that file's lines more.
LEMMA LinesAppend ==
  ASSUME NEW c \in Seq(ChangedFile), NEW x \in ChangedFile
  PROVE  Lines(Append(c, x)) = Lines(c) + x.lines
<1> DEFINE d == Append(c, x)
<1> DEFINE D == 1 .. Len(c)
<1> DEFINE E == 1 .. Len(d)
<1> DEFINE e == [m \in DOMAIN d |-> d[m].lines]
<1> DEFINE f == [m \in DOMAIN c |-> c[m].lines]
<1>1. /\ d \in Seq(ChangedFile) /\ Len(d) = Len(c) + 1 /\ Len(c) \in Nat
      /\ \A i \in 1 .. Len(c) : d[i] = c[i]
      /\ d[Len(c) + 1] = x
  BY AppendProperties
<1>2. /\ IsFiniteSet(D) /\ DOMAIN f = D
      /\ \A m \in D : f[m] = c[m].lines /\ f[m] \in Nat
      /\ \E g : Sums(g, f, SUBSET D) /\ Lines(c) = g[D]
  BY LinesDef
<1>3. /\ IsFiniteSet(E) /\ DOMAIN e = E
      /\ \A m \in E : e[m] = d[m].lines /\ e[m] \in Nat
      /\ \E g : Sums(g, e, SUBSET E) /\ Lines(d) = g[E]
  <2> HIDE DEF d
  <2> QED
    BY <1>1, LinesDef
<1>4. D \subseteq E /\ Len(c) + 1 \in E /\ E \ {Len(c) + 1} = D
  BY <1>1
<1>5. e[Len(c) + 1] = x.lines
  BY <1>1, <1>3, <1>4
<1>6. \A m \in D : f[m] = e[m]
  BY <1>1, <1>2, <1>3, <1>4
<1>7. /\ IsFiniteSet(D) /\ \A m \in D : f[m] \in Nat
      /\ IsFiniteSet(E) /\ \A m \in E : e[m] \in Nat
  BY <1>2, <1>3
<1> HIDE DEF D, E, d, e, f
<1>8. PICK g : Sums(g, f, SUBSET D) /\ Lines(c) = g[D]
  BY <1>2
<1>9. PICK h : Sums(h, e, SUBSET E) /\ Lines(d) = h[E]
  BY <1>3
<1>10. g[D] = h[D]
  <2>1. SumsOver(g, f, D) /\ SumsOver(h, e, E) /\ D \subseteq E /\ SameOver(f, e, D)
    BY <1>4, <1>6, <1>7, <1>8, <1>9 DEF SumsOver, SameOver
  <2> QED
    BY <2>1, SumsAgree
<1>11. h[E] = e[Len(c) + 1] + h[E \ {Len(c) + 1}]
  <2>1. SumsOver(h, e, E)
    BY <1>7, <1>9 DEF SumsOver
  <2> QED
    BY <1>4, <2>1, SumsRemove
<1>12. h[D] \in Nat /\ x.lines \in Nat
  <2>1. Lines(c) \in Nat
    BY LinesType
  <2> QED
    BY <1>8, <1>10, <2>1 DEF ChangedFile
<1>13. Lines(d) = x.lines + h[D]
  BY <1>4, <1>5, <1>9, <1>11
<1>14. Lines(d) = Lines(c) + x.lines
  BY <1>8, <1>10, <1>12, <1>13
<1> QED
  BY <1>14 DEF d

\* The indices of a sequence are finitely many.
LEMMA Segment ==
  ASSUME NEW n \in Nat
  PROVE  IsFiniteSet(1 .. n) /\ Cardinality(1 .. n) = n
<1>1. 1 \in Int /\ n \in Int /\ (IF 1 > n THEN 0 ELSE n - 1 + 1) = n
  OBVIOUS
<1>2. IsFiniteSet(1 .. n) /\ Cardinality(1 .. n) = IF 1 > n THEN 0 ELSE n - 1 + 1
  BY <1>1, FS_Interval
<1> QED
  BY <1>1, <1>2

-----------------------------------------------------------------------------
(* Selections and sorts *)

\* before says for each element which ones come before it: a strict order, of any two elements.
Ranks(before) ==
  LET D == DOMAIN before IN
  /\ IsFiniteSet(D)
  /\ \A i \in D : before[i] \subseteq D /\ i \notin before[i]
  /\ \A i, j \in D : i \in before[j] => before[i] \subseteq before[j]
  /\ \A i, j \in D : i = j \/ i \in before[j] \/ j \in before[i]

\* Different elements have different ranks, and every rank is some element's.
LEMMA RankBijective ==
  ASSUME NEW before, NEW D, D = DOMAIN before, Ranks(before),
         NEW rank, rank = [i \in D |-> Cardinality(before[i]) + 1]
  PROVE  /\ Cardinality(D) \in Nat
         /\ rank \in [D -> 1 .. Cardinality(D)]
         /\ \A i, j \in D : rank[i] = rank[j] => i = j
         /\ \A n \in 1 .. Cardinality(D) : \E i \in D : rank[i] = n
         /\ \A i, j \in D : i \in before[j] <=> rank[i] < rank[j]
<1>1. IsFiniteSet(D) /\ Cardinality(D) \in Nat
  BY FS_CardinalityType DEF Ranks
<1>2. ASSUME NEW i \in D
      PROVE  /\ IsFiniteSet(before[i]) /\ Cardinality(before[i]) \in Nat
             /\ i \notin before[i] /\ before[i] \subseteq D
  BY <1>1, FS_Subset, FS_CardinalityType DEF Ranks
<1>3. ASSUME NEW i \in D PROVE rank[i] \in 1 .. Cardinality(D)
  <2>1. IsFiniteSet(D \ {i}) /\ Cardinality(D \ {i}) = Cardinality(D) - 1
    BY <1>1, FS_RemoveElement
  <2>2. Cardinality(before[i]) <= Cardinality(D) - 1
    <3>1. before[i] \in SUBSET (D \ {i})
      BY <1>2
    <3> QED
      BY <2>1, <3>1, FS_Subset
  <2> QED
    BY <1>1, <1>2, <2>2
<1>4. ASSUME NEW i \in D, NEW j \in D, i \in before[j] PROVE rank[i] < rank[j]
  <2>1. before[i] \cup {i} \in SUBSET before[j]
    BY <1>4 DEF Ranks
  <2>2. Cardinality(before[i] \cup {i}) = Cardinality(before[i]) + 1
    BY <1>2, FS_AddElement
  <2>3. Cardinality(before[i] \cup {i}) <= Cardinality(before[j])
    BY <1>2, <2>1, FS_Subset
  <2> QED
    BY <1>2, <2>2, <2>3
<1>5. \A i, j \in D : i = j \/ i \in before[j] \/ j \in before[i]
  BY DEF Ranks
<1>6. \A i \in D : rank[i] \in Nat
  BY <1>2
<1>7. \A i, j \in D : rank[i] = rank[j] => i = j
  BY <1>4, <1>5, <1>6
<1>8. \A i, j \in D : rank[i] < rank[j] => i \in before[j]
  BY <1>4, <1>5, <1>6
<1>9. rank \in [D -> 1 .. Cardinality(D)]
  BY <1>3
<1>10. \A n \in 1 .. Cardinality(D) : \E i \in D : rank[i] = n
  <2>1. rank \in Injection(D, 1 .. Cardinality(D))
    BY <1>7, <1>9, Fun_IsInj
  <2>2. IsFiniteSet(1 .. Cardinality(D)) /\ Cardinality(1 .. Cardinality(D)) = Cardinality(D)
    BY <1>1, Segment
  <2>3. rank \in Surjection(D, 1 .. Cardinality(D))
    BY <2>1, <2>2, FS_Injection
  <2> QED
    BY <2>3 DEF Surjection
<1> QED
  BY <1>1, <1>4, <1>7, <1>8, <1>9, <1>10

\* t has the elements of fs at the indices D, the n-th being p's n-th.
Picks(t, fs, D, p) ==
  /\ t = [n \in 1 .. Len(t) |-> t[n]] /\ DOMAIN t = 1 .. Len(t)
  /\ Len(t) = Cardinality(D) /\ Len(t) \in Nat
  /\ p \in [1 .. Len(t) -> D]
  /\ \A n \in 1 .. Len(t) : t[n] = fs[p[n]]
  /\ \A i \in D : \E n \in 1 .. Len(t) : p[n] = i
  /\ \A m, n \in 1 .. Len(t) : p[m] = p[n] => m = n

\* Where the elements of an arrangement come from.
Places(before) ==
  [n \in 1 .. Cardinality(DOMAIN before) |->
    CHOOSE i \in DOMAIN before : Cardinality(before[i]) + 1 = n]

\* Arranging elements leaves each of them in one place, in the order of before.
LEMMA PlacesPick ==
  ASSUME NEW fs, NEW before, Ranks(before)
  PROVE  /\ Picks(Arranged(fs, before), fs, DOMAIN before, Places(before))
         /\ \A m, n \in 1 .. Len(Arranged(fs, before)) :
              m < n <=> Places(before)[m] \in before[Places(before)[n]]
<1> DEFINE D == DOMAIN before
<1> DEFINE rank == [i \in D |-> Cardinality(before[i]) + 1]
<1> DEFINE p == [n \in 1 .. Cardinality(D) |-> CHOOSE i \in D : Cardinality(before[i]) + 1 = n]
<1> DEFINE t == Arranged(fs, before)
<1>1. /\ Cardinality(D) \in Nat
      /\ rank \in [D -> 1 .. Cardinality(D)]
      /\ \A i, j \in D : rank[i] = rank[j] => i = j
      /\ \A n \in 1 .. Cardinality(D) : \E i \in D : rank[i] = n
      /\ \A i, j \in D : i \in before[j] <=> rank[i] < rank[j]
  <2> HIDE DEF rank, D
  <2> QED
    BY RankBijective DEF rank, D
<1>2. ASSUME NEW n \in 1 .. Cardinality(D) PROVE p[n] \in D /\ rank[p[n]] = n
  <2>1. \E i \in D : Cardinality(before[i]) + 1 = n
    BY <1>1
  <2>2. p[n] \in D /\ Cardinality(before[p[n]]) + 1 = n
    BY <2>1
  <2> HIDE DEF p
  <2> QED
    BY <2>2
<1>3. t = [n \in 1 .. Cardinality(D) |-> fs[p[n]]]
  BY DEF Arranged
<1>4. p \in [1 .. Cardinality(D) -> D]
  <2>1. p = [n \in 1 .. Cardinality(D) |-> p[n]]
    OBVIOUS
  <2> HIDE DEF p
  <2> QED
    BY <1>2, <2>1
<1>11. p = Places(before)
  BY DEF Places
<1> HIDE DEF p, t
<1>5. DOMAIN t = 1 .. Len(t) /\ Len(t) = Cardinality(D)
      /\ t = [n \in 1 .. Len(t) |-> t[n]]
  <2> HIDE DEF D
  <2> QED
    BY <1>1, <1>3
<1>6. ASSUME NEW i \in D PROVE \E n \in 1 .. Cardinality(D) : p[n] = i
  <2>1. rank[i] \in 1 .. Cardinality(D)
    BY <1>1
  <2> HIDE DEF rank, D
  <2>2. p[rank[i]] = i
    BY <1>1, <1>2, <2>1
  <2> QED
    BY <2>1, <2>2
<1>7. \A m, n \in 1 .. Cardinality(D) : p[m] = p[n] => m = n
  <2> HIDE DEF rank, D
  <2> QED
    BY <1>2
<1>8. \A m, n \in 1 .. Cardinality(D) : m < n <=> p[m] \in before[p[n]]
  <2> HIDE DEF rank, D
  <2> QED
    BY <1>1, <1>2
<1>9. \A n \in 1 .. Cardinality(D) : t[n] = fs[p[n]]
  BY <1>3
<1>10. Picks(t, fs, D, p)
  <2> HIDE DEF D, rank
  <2> QED
    BY <1>1, <1>4, <1>5, <1>6, <1>7, <1>9 DEF Picks
<1> QED
  BY <1>5, <1>8, <1>10, <1>11 DEF t

\* The same without naming the places.
LEMMA ArrangedPicks ==
  ASSUME NEW fs, NEW before, Ranks(before)
  PROVE  \E p : /\ Picks(Arranged(fs, before), fs, DOMAIN before, p)
                /\ \A m, n \in 1 .. Len(Arranged(fs, before)) : m < n <=> p[m] \in before[p[n]]
BY PlacesPick

\* Numbers are ordered.
LEMMA LessRanks ==
  ASSUME NEW chosen, chosen \subseteq Nat, IsFiniteSet(chosen)
  PROVE  Ranks([i \in chosen |-> {j \in chosen : j < i}])
<1> DEFINE before == [i \in chosen |-> {j \in chosen : j < i}]
<1>0. DOMAIN before = chosen
  OBVIOUS
<1>1. ASSUME NEW i \in chosen, NEW j \in chosen, i \in before[j] PROVE before[i] \subseteq before[j]
  <2>1. i < j /\ \A k \in chosen : k < i => k < j
    BY <1>1
  <2> QED
    BY <2>1
<1>2. \A i, j \in chosen : i = j \/ i \in before[j] \/ j \in before[i]
  OBVIOUS
<1>3. \A i \in chosen : before[i] \subseteq chosen /\ i \notin before[i]
  OBVIOUS
<1> HIDE DEF before
<1>4. Ranks(before)
  BY <1>0, <1>1, <1>2, <1>3 DEF Ranks
<1> QED
  BY <1>4 DEF before

\* A selection keeps the order.
LEMMA PickPicks ==
  ASSUME NEW fs, NEW chosen, chosen \subseteq Nat, IsFiniteSet(chosen)
  PROVE  \E p : /\ Picks(Pick(fs, chosen), fs, chosen, p)
                /\ \A m, n \in 1 .. Len(Pick(fs, chosen)) : m < n <=> p[m] < p[n]
<1> DEFINE before == [i \in chosen |-> {j \in chosen : j < i}]
<1>1. Pick(fs, chosen) = Arranged(fs, before) /\ DOMAIN before = chosen
  BY DEF Pick
<1>2. Ranks(before)
  BY LessRanks
<1>3. PICK p : /\ Picks(Arranged(fs, before), fs, DOMAIN before, p)
               /\ \A m, n \in 1 .. Len(Arranged(fs, before)) : m < n <=> p[m] \in before[p[n]]
  <2> HIDE DEF before
  <2> QED
    BY <1>2, ArrangedPicks
<1>4. ASSUME NEW m \in 1 .. Len(Pick(fs, chosen)), NEW n \in 1 .. Len(Pick(fs, chosen))
      PROVE  m < n <=> p[m] < p[n]
  <2>1. p[m] \in chosen /\ p[n] \in chosen
    <3> HIDE DEF before
    <3> QED
      BY <1>1, <1>3 DEF Picks
  <2>2. p[m] \in before[p[n]] <=> p[m] < p[n]
    BY <2>1
  <2> HIDE DEF before
  <2> QED
    BY <1>1, <1>3, <2>2
<1> HIDE DEF before
<1> QED
  BY <1>1, <1>3, <1>4

\* Sorting keeps the files, and puts those with more additions first.
LEMMA ByAdditionsSorts ==
  ASSUME NEW c \in Seq(ChangedFile), NEW t, t = ByAdditions(c)
  PROVE  /\ t \in Seq(ChangedFile) /\ Len(t) = Len(c)
         /\ \E from \in Bijection(1 .. Len(c), 1 .. Len(c)) :
              /\ \A n \in 1 .. Len(c) : t[n] = c[from[n]]
              /\ \A m, n \in 1 .. Len(c) : m < n <=> MoreAdded(c, from[m], from[n])
<1> DEFINE before == [i \in DOMAIN c |-> {j \in DOMAIN c : MoreAdded(c, j, i)}]
<1> DEFINE p == Places(before)
<1>1. /\ DOMAIN c = 1 .. Len(c) /\ Len(c) \in Nat
      /\ IsFiniteSet(DOMAIN c) /\ Cardinality(DOMAIN c) = Len(c)
  BY LenProperties, Segment
<1>2. \A i \in DOMAIN c : i \in Nat /\ c[i] \in ChangedFile /\ c[i].additions \in Nat
  <2>1. \A i \in DOMAIN c : i \in Nat /\ c[i] \in ChangedFile
    BY <1>1, ElementOfSeq
  <2>2. \A f \in ChangedFile : f.additions \in Nat
    BY DEF ChangedFile
  <2> QED
    BY <2>1, <2>2
<1>3. /\ DOMAIN before = DOMAIN c
      /\ \A i \in DOMAIN c : before[i] \subseteq DOMAIN c
      /\ \A i, j \in DOMAIN c : j \in before[i] <=> MoreAdded(c, j, i)
  OBVIOUS
<1>4. t = Arranged(c, before)
  BY DEF ByAdditions
<1> HIDE DEF before
<1>5. Ranks(before)
  <2>1. \A i \in DOMAIN c : ~ MoreAdded(c, i, i)
    BY <1>2 DEF MoreAdded
  <2>2. \A i, j, k \in DOMAIN c : MoreAdded(c, i, j) /\ MoreAdded(c, j, k) => MoreAdded(c, i, k)
    BY <1>2 DEF MoreAdded
  <2>3. \A i, j \in DOMAIN c : i = j \/ MoreAdded(c, i, j) \/ MoreAdded(c, j, i)
    BY <1>2 DEF MoreAdded
  <2> QED
    BY <1>1, <1>3, <2>1, <2>2, <2>3 DEF Ranks
<1>6. /\ Picks(t, c, DOMAIN c, p)
      /\ \A m, n \in 1 .. Len(t) : m < n <=> p[m] \in before[p[n]]
  BY <1>3, <1>4, <1>5, PlacesPick
<1> HIDE DEF p
<1>7. /\ t = [n \in 1 .. Len(c) |-> t[n]] /\ Len(t) = Len(c)
      /\ p \in [1 .. Len(c) -> 1 .. Len(c)]
      /\ \A n \in 1 .. Len(c) : t[n] = c[p[n]]
      /\ \A i \in 1 .. Len(c) : \E n \in 1 .. Len(c) : p[n] = i
      /\ \A m, n \in 1 .. Len(c) : p[m] = p[n] => m = n
  BY <1>1, <1>6 DEF Picks
<1>8. t \in Seq(ChangedFile)
  <2>1. \A n \in 1 .. Len(c) : t[n] \in ChangedFile
    BY <1>1, <1>2, <1>7
  <2>2. t \in [1 .. Len(c) -> ChangedFile]
    BY <1>7, <2>1
  <2> QED
    BY <1>1, <2>2, SeqDef
<1>9. p \in Bijection(1 .. Len(c), 1 .. Len(c))
  <2>1. p \in Injection(1 .. Len(c), 1 .. Len(c))
    BY <1>7, Fun_IsInj
  <2>2. p \in Surjection(1 .. Len(c), 1 .. Len(c))
    BY <1>7 DEF Surjection
  <2> QED
    BY <2>1, <2>2 DEF Bijection
<1>10. \A m, n \in 1 .. Len(c) : m < n <=> MoreAdded(c, p[m], p[n])
  <2> SUFFICES ASSUME NEW m \in 1 .. Len(c), NEW n \in 1 .. Len(c)
               PROVE  m < n <=> MoreAdded(c, p[m], p[n])
    OBVIOUS
  <2>1. p[m] \in DOMAIN c /\ p[n] \in DOMAIN c
    BY <1>1, <1>7
  <2>2. m < n <=> p[m] \in before[p[n]]
    BY <1>6, <1>7
  <2> QED
    BY <1>3, <2>1, <2>2
<1> QED
  BY <1>7, <1>8, <1>9, <1>10

\* A listing has the changed files and no others, each in one place or, if it is on a first page
\* that is full, in two.
LEMMA ListingHolds ==
  ASSUME NEW c \in Changes, NEW l \in Listings(c)
  PROVE  /\ l \in Seq(ChangedFile)
         /\ \A m \in DOMAIN l : \E i \in DOMAIN c : l[m] = c[i]
         /\ \A i \in DOMAIN c : \E m \in DOMAIN l : l[m] = c[i]
         /\ \A i \in DOMAIN c : \E a, b :
              /\ \A m \in DOMAIN l : l[m] = c[i] => m \in {a, b}
              /\ ~ (i <= PerPage /\ PerPage <= Len(c)) => a = b
<1>1. /\ c \in Seq(ChangedFile) /\ DOMAIN c = 1 .. Len(c) /\ Len(c) \in Nat
      /\ PerPage \in Nat \ {0}
  BY AgentReviewAssumption, LenProperties
<1>2. \A i, j \in DOMAIN c : c[i] = c[j] => i = j
  BY AgentReviewAssumption
<1>3. CASE l = c
  BY <1>1, <1>2, <1>3
<1>4. CASE PerPage <= Len(c) /\ l = SubSeq(c, 1, PerPage) \o c
  <2> DEFINE s == SubSeq(c, 1, PerPage)
  <2>1. s \in Seq(ChangedFile) /\ Len(s) = PerPage /\ \A m \in 1 .. PerPage : s[m] = c[m]
    BY <1>1, <1>4
  <2> HIDE DEF s
  <2>2. l = s \o c
    BY <1>4 DEF s
  <2>3. /\ l \in Seq(ChangedFile) /\ DOMAIN l = 1 .. PerPage + Len(c)
        /\ \A m \in 1 .. PerPage : l[m] = c[m]
        /\ \A m \in PerPage + 1 .. PerPage + Len(c) : l[m] = c[m - PerPage]
    BY <1>1, <2>1, <2>2
  <2>4. ASSUME NEW m \in DOMAIN l, m <= PerPage PROVE m \in DOMAIN c /\ l[m] = c[m]
    <3>1. m \in 1 .. PerPage /\ m \in 1 .. Len(c)
      BY <1>1, <1>4, <2>3, <2>4
    <3> QED
      BY <1>1, <2>3, <3>1
  <2>8. ASSUME NEW m \in DOMAIN l, ~ (m <= PerPage)
        PROVE  m - PerPage \in DOMAIN c /\ l[m] = c[m - PerPage]
    <3>1. m \in PerPage + 1 .. PerPage + Len(c) /\ m - PerPage \in 1 .. Len(c)
      BY <1>1, <2>3, <2>8
    <3> QED
      BY <1>1, <2>3, <3>1
  <2>5. ASSUME NEW i \in DOMAIN c PROVE i + PerPage \in DOMAIN l /\ l[i + PerPage] = c[i]
    <3>1. i \in 1 .. Len(c)
      BY <1>1
    <3>2. i + PerPage \in PerPage + 1 .. PerPage + Len(c) /\ (i + PerPage) - PerPage = i
      BY <1>1, <3>1
    <3>3. l[i + PerPage] = c[(i + PerPage) - PerPage]
      BY <2>3, <3>2
    <3>4. i + PerPage \in 1 .. PerPage + Len(c)
      BY <1>1, <3>2
    <3> QED
      BY <2>3, <3>2, <3>3, <3>4
  <2>6. ASSUME NEW i \in DOMAIN c
        PROVE  \E a, b : /\ \A m \in DOMAIN l : l[m] = c[i] => m \in {a, b}
                         /\ ~ (i <= PerPage /\ PerPage <= Len(c)) => a = b
    <3>1. CASE i <= PerPage
      <4>1. \A m \in DOMAIN l : l[m] = c[i] => m \in {i, i + PerPage}
        BY <1>1, <1>2, <2>3, <2>4, <2>8
      <4> QED
        BY <1>4, <3>1, <4>1
    <3>2. CASE i > PerPage
      <4>1. \A m \in DOMAIN l : l[m] = c[i] => m \in {i + PerPage, i + PerPage}
        BY <1>1, <1>2, <2>3, <2>4, <2>8, <3>2
      <4> QED
        BY <4>1
    <3> QED
      BY <1>1, <3>1, <3>2
  <2>7. \A m \in DOMAIN l : \E i \in DOMAIN c : l[m] = c[i]
    BY <2>4, <2>8
  <2> QED
    BY <2>3, <2>5, <2>6, <2>7
<1> QED
  BY <1>1, <1>3, <1>4 DEF Listings, ListPRFiles

\* The files to be reviewed are those of the listing that are not ignored.
LEMMA ReviewablePicks ==
  ASSUME NEW l \in Seq(ChangedFile), NEW k, k = Reviewable(l)
  PROVE  /\ k \in Seq(ChangedFile)
         /\ \E p : Picks(k, l, {i \in DOMAIN l : l[i].path \notin IgnoredPaths}, p)
<1> DEFINE D == {i \in DOMAIN l : l[i].path \notin IgnoredPaths}
<1>1. D \subseteq DOMAIN l /\ D \subseteq Nat /\ IsFiniteSet(D)
  <2>1. DOMAIN l \subseteq Nat /\ IsFiniteSet(DOMAIN l) /\ D \in SUBSET (DOMAIN l)
    BY LenProperties, Segment
  <2> QED
    BY <2>1, FS_Subset
<1>2. k = Pick(l, D)
  BY DEF Reviewable
<1> HIDE DEF D
<1>3. PICK p : Picks(k, l, D, p)
  BY <1>1, <1>2, PickPicks
<1>4. k \in Seq(ChangedFile)
  <2>1. \A n \in 1 .. Len(k) : k[n] \in ChangedFile
    BY <1>1, <1>3, ElementOfSeq, LenProperties DEF Picks
  <2>2. k \in [1 .. Len(k) -> ChangedFile] /\ Len(k) \in Nat
    BY <1>3, <2>1 DEF Picks
  <2> QED
    BY <2>2, SeqDef
<1> QED
  BY <1>3, <1>4 DEF D

\* Every file that is to be reviewed is there, and twice only if ListPRFiles listed it twice.
LEMMA ListedPlaces ==
  ASSUME NEW c \in Changes, NEW l \in Listings(c), NEW t, t = ByAdditions(Reviewable(l))
  PROVE  /\ t \in Seq(ChangedFile)
         /\ ToSet(t) = {f \in ToSet(c) : f.path \notin IgnoredPaths}
         /\ \A i \in DOMAIN c :
              Cardinality({n \in DOMAIN t : t[n] = c[i]})
                <= IF i <= PerPage /\ PerPage <= Len(c) THEN 2 ELSE 1
<1> DEFINE k == Reviewable(l)
<1> DEFINE D == {i \in DOMAIN l : l[i].path \notin IgnoredPaths}
<1>1. /\ l \in Seq(ChangedFile)
      /\ \A m \in DOMAIN l : \E i \in DOMAIN c : l[m] = c[i]
      /\ \A i \in DOMAIN c : \E m \in DOMAIN l : l[m] = c[i]
      /\ \A i \in DOMAIN c : \E a, b :
           /\ \A m \in DOMAIN l : l[m] = c[i] => m \in {a, b}
           /\ ~ (i <= PerPage /\ PerPage <= Len(c)) => a = b
  BY ListingHolds
<1>2. k \in Seq(ChangedFile) /\ \E p : Picks(k, l, D, p)
  BY <1>1, ReviewablePicks
<1> HIDE DEF k
<1>3. t = ByAdditions(k)
  BY DEF k
<1>4. PICK p : Picks(k, l, D, p)
  BY <1>2
<1>5. /\ t \in Seq(ChangedFile) /\ Len(t) = Len(k) /\ Len(k) \in Nat
      /\ \E from \in Bijection(1 .. Len(k), 1 .. Len(k)) : \A n \in 1 .. Len(k) : t[n] = k[from[n]]
  BY <1>2, <1>3, ByAdditionsSorts, LenProperties
<1>6. PICK from \in Bijection(1 .. Len(k), 1 .. Len(k)) : \A n \in 1 .. Len(k) : t[n] = k[from[n]]
  BY <1>5
<1>7. DOMAIN t = 1 .. Len(k)
  BY <1>5, LenProperties
<1>8. ASSUME NEW n \in DOMAIN t
      PROVE  from[n] \in 1 .. Len(k) /\ p[from[n]] \in D /\ t[n] = l[p[from[n]]]
  <2>1. from[n] \in 1 .. Len(k)
    BY <1>7 DEF Bijection, Injection
  <2> QED
    BY <1>4, <1>6, <1>7, <2>1 DEF Picks
<1>9. \A m, n \in DOMAIN t : p[from[m]] = p[from[n]] => m = n
  <2>1. \A m, n \in DOMAIN t : from[m] = from[n] => m = n
    BY <1>7 DEF Bijection, Injection, IsInjective
  <2> QED
    BY <1>4, <1>8, <2>1 DEF Picks
<1>10. \A i \in D : \E n \in DOMAIN t : p[from[n]] = i
  <2> SUFFICES ASSUME NEW i \in D PROVE \E n \in DOMAIN t : p[from[n]] = i
    OBVIOUS
  <2>1. PICK m \in 1 .. Len(k) : p[m] = i
    BY <1>4 DEF Picks
  <2>2. PICK n \in 1 .. Len(k) : from[n] = m
    BY <1>6 DEF Bijection, Surjection
  <2> QED
    BY <1>7, <2>1, <2>2
<1>11. ToSet(t) = {f \in ToSet(c) : f.path \notin IgnoredPaths}
  <2>1. ASSUME NEW n \in DOMAIN t PROVE t[n] \in ToSet(c) /\ t[n].path \notin IgnoredPaths
    BY <1>1, <1>8 DEF ToSet
  <2>2. ASSUME NEW i \in DOMAIN c, c[i].path \notin IgnoredPaths PROVE \E n \in DOMAIN t : t[n] = c[i]
    <3>1. PICK m \in DOMAIN l : l[m] = c[i]
      BY <1>1
    <3>2. m \in D
      BY <2>2, <3>1
    <3> QED
      BY <1>8, <1>10, <3>1, <3>2
  <2> QED
    BY <2>1, <2>2 DEF ToSet
<1>12. ASSUME NEW i \in DOMAIN c
       PROVE  Cardinality({n \in DOMAIN t : t[n] = c[i]})
                <= IF i <= PerPage /\ PerPage <= Len(c) THEN 2 ELSE 1
  <2> DEFINE S == {n \in DOMAIN t : t[n] = c[i]}
  <2> DEFINE g == [n \in S |-> p[from[n]]]
  <2>1. PICK a, b : /\ \A m \in DOMAIN l : l[m] = c[i] => m \in {a, b}
                    /\ ~ (i <= PerPage /\ PerPage <= Len(c)) => a = b
    BY <1>1
  <2>2. \A n \in S : p[from[n]] \in {a, b}
    BY <1>8, <2>1
  <2>3. \A m, n \in S : g[m] = g[n] => m = n
    BY <1>9
  <2>4. g \in [S -> {a, b}]
    BY <2>2
  <2> HIDE DEF g, S
  <2>5. g \in Injection(S, {a, b})
    BY <2>3, <2>4, Fun_IsInj
  <2>6. IsFiniteSet({a, b}) /\ (Cardinality({a, b}) = 1 \/ (a # b /\ Cardinality({a, b}) = 2))
    <3>1. IsFiniteSet({a}) /\ Cardinality({a}) = 1
      BY FS_Singleton
    <3> DEFINE ab == {a, b}
    <3>2. CASE a = b
      <4>1. ab = {a}
        BY <3>2
      <4> HIDE DEF ab
      <4>2. IsFiniteSet(ab) /\ Cardinality(ab) = 1
        BY <3>1, <4>1
      <4> QED
        BY <4>2 DEF ab
    <3>3. CASE a # b
      <4>1. ab = {a} \cup {b} /\ b \notin {a}
        BY <3>3
      <4>2. IsFiniteSet({a} \cup {b}) /\ Cardinality({a} \cup {b}) = 1 + 1
        BY <3>1, <4>1, FS_AddElement
      <4> HIDE DEF ab
      <4>3. IsFiniteSet(ab) /\ Cardinality(ab) = 1 + 1
        BY <4>1, <4>2, Zenon
      <4> QED
        BY <3>3, <4>3 DEF ab
    <3> QED
      BY <3>2, <3>3
  <2>7. Cardinality(S) <= Cardinality({a, b}) /\ Cardinality(S) \in Nat /\ Cardinality({a, b}) \in Nat
    BY <2>5, <2>6, FS_Injection, FS_CardinalityType
  <2>8. Cardinality(S) <= IF i <= PerPage /\ PerPage <= Len(c) THEN 2 ELSE 1
    BY <2>1, <2>6, <2>7
  <2> QED
    BY <2>8 DEF S
<1> QED
  BY <1>5, <1>11, <1>12

-----------------------------------------------------------------------------
(* ChunkFiles *)

\* A chunk that is put at the end fits when the ones before it and itself do.
LEMMA FitsAppend ==
  ASSUME NEW s \in Seq(Seq(ChangedFile)), \A n \in DOMAIN s : Fits(s[n]),
         NEW c \in Seq(ChangedFile), Fits(c)
  PROVE  /\ Append(s, c) \in Seq(Seq(ChangedFile))
         /\ \A n \in DOMAIN Append(s, c) : Fits(Append(s, c)[n])
<1> DEFINE t == Append(s, c)
<1>1. /\ t \in Seq(Seq(ChangedFile)) /\ Len(t) = Len(s) + 1
      /\ \A i \in 1 .. Len(s) : t[i] = s[i]
      /\ t[Len(s) + 1] = c
  BY AppendProperties
<1>2. DOMAIN s = 1 .. Len(s) /\ Len(s) \in Nat
  BY LenProperties
<1> HIDE DEF t
<1>3. DOMAIN t = 1 .. Len(s) + 1
  BY <1>1, LenProperties
<1>4. ASSUME NEW n \in DOMAIN t PROVE Fits(t[n])
  <2>1. n \in 1 .. Len(s) \/ n = Len(s) + 1
    BY <1>2, <1>3
  <2> QED
    BY <1>1, <1>2, <2>1
<1> QED
  BY <1>1, <1>4 DEF t

\* flush keeps the files in their order.
LEMMA FlushedHolds ==
  ASSUME Types, ChunksFit
  PROVE  /\ Flushed \in Seq(Seq(ChangedFile))
         /\ \A n \in DOMAIN Flushed : Fits(Flushed[n])
         /\ FlattenSeq(Flushed) = FlattenSeq(chunks) \o cur
<1>1. chunks \in Seq(Seq(ChangedFile)) /\ cur \in Seq(ChangedFile) /\ Fits(cur)
      /\ \A n \in DOMAIN chunks : Fits(chunks[n])
  BY DEF Types, ChunksFit, Fits
<1>2. CASE cur = << >>
  <2>1. FlattenSeq(chunks) \in Seq(ChangedFile)
    BY <1>1, FlattenType
  <2>2. FlattenSeq(chunks) \o << >> = FlattenSeq(chunks)
    BY <2>1, ConcatEmptySeq
  <2> QED
    BY <1>1, <1>2, <2>2 DEF Flushed
<1>3. CASE cur # << >>
  <2>1. Flushed = Append(chunks, cur)
    BY <1>3 DEF Flushed
  <2>2. /\ Append(chunks, cur) \in Seq(Seq(ChangedFile))
        /\ \A n \in DOMAIN Append(chunks, cur) : Fits(Append(chunks, cur)[n])
    BY <1>1, FitsAppend
  <2>3. FlattenSeq(Append(chunks, cur)) = FlattenSeq(chunks) \o cur
    BY <1>1, FlattenAppend
  <2> QED
    BY <2>1, <2>2, <2>3
<1> QED
  BY <1>2, <1>3

\* A chunk of one file.
LEMMA OneFile ==
  ASSUME NEW f \in ChangedFile
  PROVE  <<f>> \in Seq(ChangedFile) /\ Len(<<f>>) = 1 /\ Lines(<<f>>) = f.lines
<1>1. << >> \in Seq(ChangedFile) /\ <<f>> = Append(<< >>, f)
  OBVIOUS
<1>2. Lines(Append(<< >>, f)) = Lines(<< >>) + f.lines /\ Lines(<< >>) = 0
  BY <1>1, LinesAppend, LinesType
<1>3. 0 + f.lines = f.lines
  BY DEF ChangedFile
<1> QED
  BY <1>1, <1>2, <1>3

\* ChunkFiles takes a file into the chunk that is being filled or starts a new one.
LEMMA NextFileKeeps ==
  ASSUME Types, ChunksFit, ChunksHold, NextFile
  PROVE  /\ next' \in 1 .. Len(change') + 1 /\ change' \in Seq(ChangedFile)
         /\ cur' \in Seq(ChangedFile) /\ curLines' \in Nat
         /\ chunks' \in Seq(Seq(ChangedFile))
         /\ ChunksFit' /\ ChunksHold'
<1> DEFINE f == change[next]
<1>1. /\ stage = "chunk" /\ stage' = stage /\ change' = change /\ next' = next + 1
      /\ next \in 1 .. Len(change) /\ next \in Nat /\ Len(change) \in Nat
  <2>1. Len(change) \in Nat
    BY LenProperties DEF Types
  <2> QED
    BY <2>1 DEF NextFile, Types
<1>2. f \in ChangedFile /\ f.lines \in Nat /\ change \in Seq(ChangedFile)
  <2>1. f \in ChangedFile
    BY <1>1, ElementOfSeq DEF Types
  <2> QED
    BY <2>1 DEF ChangedFile, Types
<1>3. next' \in 1 .. Len(change') + 1 /\ change' \in Seq(ChangedFile)
  BY <1>1, <1>2
<1>4. SubSeq(change, 1, next) = (FlattenSeq(chunks) \o cur) \o <<f>>
  <2>1. SubSeq(change, 1, next) = SubSeq(change, 1, next - 1) \o <<f>>
    BY <1>1, <1>2, SubSeqRecursiveSecond
  <2> QED
    BY <1>1, <2>1 DEF ChunksHold
<1>5. MaxLines \in Nat
  BY AgentReviewAssumption
<1>6. /\ cur \in Seq(ChangedFile) /\ curLines \in Nat /\ chunks \in Seq(Seq(ChangedFile))
      /\ curLines = Lines(cur) /\ \A n \in DOMAIN chunks : Fits(chunks[n])
  BY DEF Types, ChunksFit
<1>7. /\ Flushed \in Seq(Seq(ChangedFile))
      /\ \A n \in DOMAIN Flushed : Fits(Flushed[n])
      /\ FlattenSeq(Flushed) = FlattenSeq(chunks) \o cur
  BY FlushedHolds
<1>8. <<f>> \in Seq(ChangedFile) /\ Len(<<f>>) = 1 /\ Lines(<<f>>) = f.lines
  BY <1>2, OneFile
<1> HIDE DEF f
<1> DEFINE K == /\ cur' \in Seq(ChangedFile) /\ curLines' \in Nat
                /\ chunks' \in Seq(Seq(ChangedFile))
                /\ curLines' = Lines(cur') /\ curLines' <= MaxLines
                /\ \A n \in DOMAIN chunks' : Fits(chunks'[n])
                /\ FlattenSeq(chunks') \o cur' = (FlattenSeq(chunks) \o cur) \o <<f>>
<1>9. FlattenSeq(chunks) \in Seq(ChangedFile) /\ FlattenSeq(chunks) \o cur \in Seq(ChangedFile)
  BY <1>6, FlattenType, ConcatProperties
<1>10. ASSUME chunks' = Append(Flushed, <<f>>), cur' = << >>, curLines' = 0 PROVE K
  <2>1. Fits(<<f>>)
    BY <1>8 DEF Fits
  <2>2. /\ Append(Flushed, <<f>>) \in Seq(Seq(ChangedFile))
        /\ \A n \in DOMAIN Append(Flushed, <<f>>) : Fits(Append(Flushed, <<f>>)[n])
    BY <1>7, <1>8, <2>1, FitsAppend
  <2>3. FlattenSeq(Append(Flushed, <<f>>)) = (FlattenSeq(chunks) \o cur) \o <<f>>
    BY <1>7, <1>8, FlattenAppend
  <2>4. ((FlattenSeq(chunks) \o cur) \o <<f>>) \o << >> = (FlattenSeq(chunks) \o cur) \o <<f>>
    <3> DEFINE all == (FlattenSeq(chunks) \o cur) \o <<f>>
    <3>1. all \in Seq(ChangedFile)
      BY <1>8, <1>9, ConcatProperties
    <3> HIDE DEF all
    <3>2. all \o << >> = all
      BY <3>1, ConcatEmptySeq
    <3> QED
      BY <3>2 DEF all
  <2>5. << >> \in Seq(ChangedFile) /\ Lines(<< >>) = 0
    <3>1. << >> \in Seq(ChangedFile)
      OBVIOUS
    <3> QED
      BY <3>1, LinesType
  <2>6. 0 \in Nat /\ 0 <= MaxLines
    BY <1>5
  <2> QED
    BY <1>10, <2>2, <2>3, <2>4, <2>5, <2>6
<1>11. ASSUME chunks' = Flushed, cur' = <<f>>, curLines' = f.lines, f.lines <= MaxLines PROVE K
  BY <1>2, <1>7, <1>8, <1>11
<1>12. ASSUME chunks' = chunks, cur' = Append(cur, f), curLines' = curLines + f.lines,
              f.lines <= MaxLines, cur = << >> \/ ~ (curLines + f.lines > MaxLines)
       PROVE  K
  <2>1. Append(cur, f) \in Seq(ChangedFile) /\ Append(cur, f) = cur \o <<f>>
    BY <1>2, <1>6, AppendProperties, AppendIsConcat
  <2>2. Lines(Append(cur, f)) = curLines + f.lines /\ curLines + f.lines \in Nat
    BY <1>2, <1>6, LinesAppend
  <2>3. cur = << >> => curLines = 0
    BY <1>6, LinesType
  <2>4. curLines + f.lines <= MaxLines
    BY <1>2, <1>5, <1>6, <1>12, <2>3
  <2>5. FlattenSeq(chunks) \o (cur \o <<f>>) = (FlattenSeq(chunks) \o cur) \o <<f>>
    BY <1>6, <1>8, <1>9, ConcatAssociative
  <2> QED
    BY <1>6, <1>12, <2>1, <2>2, <2>4, <2>5
<1>13. K
  <2> HIDE DEF K
  <2>1. \/ chunks' = Append(Flushed, <<f>>) /\ cur' = << >> /\ curLines' = 0
        \/ chunks' = Flushed /\ cur' = <<f>> /\ curLines' = f.lines /\ f.lines <= MaxLines
        \/ /\ chunks' = chunks /\ cur' = Append(cur, f) /\ curLines' = curLines + f.lines
           /\ f.lines <= MaxLines /\ (cur = << >> \/ ~ (curLines + f.lines > MaxLines))
    BY DEF NextFile, Overflows, f
  <2> QED
    BY <1>10, <1>11, <1>12, <2>1
<1>14. ChunksFit'
  BY <1>13 DEF ChunksFit
<1>15. ChunksHold'
  <2>1. next + 1 - 1 = next
    BY <1>1
  <2> QED
    BY <1>1, <1>4, <1>13, <2>1 DEF ChunksHold
<1> QED
  BY <1>3, <1>13, <1>14, <1>15

-----------------------------------------------------------------------------
(* The goroutines *)

\* A goroutine goes on: what becomes of its record.
Moves(t, r) ==
  /\ t \in Tasks /\ r \in Task
  /\ task' = [task EXCEPT ![t] = r]
  /\ UNCHANGED <<stage, live, agents, chunking, merging>>
  /\ task[t].pc \in {"waiting", "first", "again"}
  /\ task[t].pc = "waiting" /\ r.pc # "dropped" => SlotFree /\ r.pc = "first"
  /\ r.pc \in {"first", "again"} => task[t].pc = "waiting" \/ task[t].pc = "first"
  /\ r.pc = "dropped" => ~ live

\* Every step of a goroutine is such a move.
LEMMA TaskMoves ==
  ASSUME Types, NEW t \in Tasks, TaskStep(t)
  PROVE  \E r : Moves(t, r)
<1>1. task \in [Tasks -> Task] /\ task[t] \in Task
  BY DEF Types
<1>2. \A pc \in PCs : [task[t] EXCEPT !.pc = pc] \in Task /\ [task[t] EXCEPT !.pc = pc].pc = pc
  BY <1>1 DEF Task
<1>3. CASE Acquire(t)
  <2> DEFINE r == [task[t] EXCEPT !.pc = "first"]
  <2>1. r \in Task /\ r.pc = "first"
    BY <1>2 DEF PCs
  <2>2. task' = [task EXCEPT ![t] = r]
    BY <1>3 DEF Acquire
  <2> HIDE DEF r
  <2>3. Moves(t, r)
    BY <1>3, <2>1, <2>2 DEF Moves, Acquire
  <2> QED
    BY <2>3
<1>4. CASE GiveUp(t)
  <2> DEFINE r == [task[t] EXCEPT !.pc = "dropped"]
  <2>1. r \in Task /\ r.pc = "dropped"
    BY <1>2 DEF PCs
  <2>2. task' = [task EXCEPT ![t] = r]
    BY <1>4 DEF GiveUp
  <2> HIDE DEF r
  <2>3. Moves(t, r)
    BY <1>4, <2>1, <2>2 DEF Moves, GiveUp
  <2> QED
    BY <2>3
<1>5. CASE Review(t)
  <2>1. PICK a \in Answers : task' = [task EXCEPT ![t] = [pc |-> "ok", found |-> a]]
    BY <1>5 DEF Review
  <2> DEFINE r == [pc |-> "ok", found |-> a]
  <2>2. r \in Task /\ r.pc = "ok"
    BY DEF Task, PCs
  <2>3. task' = [task EXCEPT ![t] = r]
    BY <2>1
  <2> HIDE DEF r
  <2>4. Moves(t, r)
    BY <1>5, <2>2, <2>3 DEF Moves, Review
  <2> QED
    BY <2>4
<1>6. CASE ReviewFails(t)
  <2>1. CASE task[t].pc = "first"
    <3> DEFINE r == [task[t] EXCEPT !.pc = "again"]
    <3>1. r \in Task /\ r.pc = "again"
      BY <1>2 DEF PCs
    <3>2. task' = [task EXCEPT ![t] = r]
      BY <1>6, <2>1 DEF ReviewFails
    <3> HIDE DEF r
    <3>3. Moves(t, r)
      BY <1>6, <2>1, <3>1, <3>2 DEF Moves, ReviewFails
    <3> QED
      BY <3>3
  <2>2. CASE task[t].pc = "again"
    <3> DEFINE r == [task[t] EXCEPT !.pc = "failed"]
    <3>1. r \in Task /\ r.pc = "failed"
      BY <1>2 DEF PCs
    <3>2. task' = [task EXCEPT ![t] = r]
      BY <1>6, <2>2 DEF ReviewFails
    <3> HIDE DEF r
    <3>3. Moves(t, r)
      BY <1>6, <2>2, <3>1, <3>2 DEF Moves, ReviewFails
    <3> QED
      BY <3>3
  <2> QED
    BY <1>6, <2>1, <2>2 DEF ReviewFails
<1> QED
  BY <1>3, <1>4, <1>5, <1>6 DEF TaskStep

\* A goroutine's move changes its own record only.
LEMMA MovesOne ==
  ASSUME Types, NEW t, NEW r, Moves(t, r)
  PROVE  /\ task' \in [Tasks -> Task] /\ Tasks' = Tasks
         /\ task'[t] = r /\ \A u \in Tasks \ {t} : task'[u] = task[u]
         /\ Slots' = Slots
BY DEF Moves, Types, Tasks, Slots

\* A slot is taken when it is free, and a goroutine that goes on needs no second one.
LEMMA MovesWithinSlots ==
  ASSUME Types, SlotsRespected, NEW t, NEW r, Moves(t, r)
  PROVE  SlotsRespected'
<1>1. /\ Tasks' = Tasks /\ t \in Tasks /\ r \in Task
      /\ task'[t] = r /\ \A u \in Tasks \ {t} : task'[u] = task[u]
      /\ Slots' = Slots
  BY MovesOne DEF Moves
<1>2. IsFiniteSet(Holding) /\ Cardinality(Holding) <= Slots /\ Cardinality(Holding) \in Nat
      /\ Slots \in Nat
  BY FS_CardinalityType, AgentReviewAssumption DEF SlotsRespected, Slots
<1>3. \A u \in Tasks : u \in Holding <=> task[u].pc \in {"first", "again"}
  BY DEF Holding, With
<1>4. Holding' \subseteq Tasks /\ Holding \subseteq Tasks
      /\ \A u \in Tasks : u \in Holding' <=> task'[u].pc \in {"first", "again"}
  BY <1>1 DEF Holding, With
<1>5. CASE r.pc \notin {"first", "again"} \/ t \in Holding
  <2>1. Holding' \subseteq Holding
    BY <1>1, <1>3, <1>4, <1>5
  <2>2. IsFiniteSet(Holding') /\ Cardinality(Holding') <= Cardinality(Holding)
    BY <1>2, <2>1, FS_Subset
  <2>3. Cardinality(Holding') \in Nat
    BY <2>2, FS_CardinalityType
  <2>4. Cardinality(Holding') <= Slots
    BY <1>2, <2>2, <2>3
  <2> QED
    BY <1>1, <2>2, <2>4 DEF SlotsRespected
<1>6. CASE r.pc \in {"first", "again"} /\ t \notin Holding
  <2>1. Holding' = Holding \cup {t}
    BY <1>1, <1>3, <1>4, <1>6
  <2>2. IsFiniteSet(Holding') /\ Cardinality(Holding') = Cardinality(Holding) + 1
    BY <1>2, <1>6, <2>1, FS_AddElement
  <2>3. Cardinality(Holding) < Slots
    <3>1. task[t].pc = "waiting"
      BY <1>1, <1>3, <1>6 DEF Moves
    <3> QED
      BY <1>6, <3>1 DEF Moves, SlotFree
  <2>4. Cardinality(Holding') <= Slots
    BY <1>2, <2>2, <2>3
  <2> QED
    BY <1>1, <2>2, <2>4 DEF SlotsRespected
<1> QED
  BY <1>5, <1>6

\* Only a goroutine that waited can give up, and no context has revived.
LEMMA MovesDropLate ==
  ASSUME Types, DroppedLate, NEW t, NEW r, Moves(t, r)
  PROVE  DroppedLate'
<1>1. /\ Tasks' = Tasks /\ t \in Tasks
      /\ task'[t] = r /\ \A u \in Tasks \ {t} : task'[u] = task[u]
      /\ live' = live /\ stage' = stage
  BY MovesOne DEF Moves
<1>2. ASSUME live PROVE With("dropped")' = {}
  <2>1. \A u \in Tasks : task[u].pc # "dropped"
    BY <1>2 DEF DroppedLate, With
  <2>2. \A u \in Tasks : task'[u].pc # "dropped"
    BY <1>1, <1>2, <2>1 DEF Moves
  <2> QED
    BY <1>1, <2>2 DEF With
<1> QED
  BY <1>1, <1>2 DEF DroppedLate

\* There is no goroutine before the review and none that moves after it.
LEMMA MovesKnown ==
  ASSUME Types, TasksKnown, NEW t, NEW r, Moves(t, r)
  PROVE  TasksKnown' /\ stage = "review"
<1>1. stage = "review"
  <2>1. stage # "chunk"
    BY DEF Moves, TasksKnown
  <2>2. ~ Returned
    <3>1. t \in Tasks /\ task[t].pc \notin {"ok", "failed", "dropped"}
      BY DEF Moves
    <3> QED
      BY <3>1 DEF Returned, With
  <2> QED
    BY <2>1, <2>2 DEF Types, TasksKnown
<1>2. Tasks' = Tasks /\ stage' = stage /\ chunks' = chunks /\ agents' = agents
  BY MovesOne DEF Moves, chunking
<1>3. TasksOver(chunks)' = TasksOver(chunks)
  BY <1>2 DEF TasksOver
<1> QED
  BY <1>1, <1>2, <1>3 DEF TasksKnown

-----------------------------------------------------------------------------
(* finish: dedupe *)

\* SeverityRank orders the severities, a nit last.
LEMMA RankType ==
  /\ \A s \in Severities : Rank(s) \in 1 .. 5
  /\ \A s, t \in Severities : Rank(s) = Rank(t) => s = t
  /\ \A s \in Severities : Rank(s) = 1 <=> s = "nit"
<1>1. /\ Rank("critical") = 5 /\ Rank("high") = 4 /\ Rank("medium") = 3
      /\ Rank("low") = 2 /\ Rank("nit") = 1
  BY DEF Rank
<1> QED
  BY <1>1 DEF Severities

\* No two findings have one key; the severest come first.
Distinct(fs) == \A m, n \in DOMAIN fs : Key(fs[m]) = Key(fs[n]) => m = n

Descending(fs) ==
  \A m, n \in DOMAIN fs : m < n => Rank(fs[m].severity) >= Rank(fs[n].severity)

\* A selection has the elements at D ...
LEMMA PicksHold ==
  ASSUME NEW fs, NEW D, NEW t, NEW p, Picks(t, fs, D, p),
         fs \in Seq(Finding), D \subseteq DOMAIN fs
  PROVE  /\ t \in Seq(Finding)
         /\ \A n \in DOMAIN t : t[n] = fs[p[n]] /\ p[n] \in D
         /\ \A i \in D : \E n \in DOMAIN t : t[n] = fs[i] /\ p[n] = i
<1>1. /\ t = [n \in 1 .. Len(t) |-> t[n]] /\ DOMAIN t = 1 .. Len(t) /\ Len(t) \in Nat
      /\ \A n \in 1 .. Len(t) : t[n] = fs[p[n]] /\ p[n] \in D /\ p[n] \in DOMAIN fs
      /\ \A i \in D : \E n \in 1 .. Len(t) : p[n] = i
  BY DEF Picks
<1>2. \A i \in DOMAIN fs : fs[i] \in Finding
  BY LenProperties, ElementOfSeq
<1>3. t \in Seq(Finding)
  <2>1. \A n \in 1 .. Len(t) : t[n] \in Finding
    BY <1>1, <1>2
  <2>2. t \in [1 .. Len(t) -> Finding]
    BY <1>1, <2>1
  <2> QED
    BY <1>1, <2>2, SeqDef
<1> QED
  BY <1>1, <1>3

\* ... no finding twice, if there is none in fs, and in the order of fs, if it has it.
LEMMA PicksKeep ==
  ASSUME NEW fs, NEW D, NEW t, NEW p, Picks(t, fs, D, p), D \subseteq DOMAIN fs
  PROVE  /\ Distinct(fs) => Distinct(t)
         /\ Descending(fs) /\ (\A m, n \in 1 .. Len(t) : m < n => p[m] < p[n]) => Descending(t)
<1>1. /\ DOMAIN t = 1 .. Len(t)
      /\ \A n \in 1 .. Len(t) : t[n] = fs[p[n]] /\ p[n] \in D /\ p[n] \in DOMAIN fs
      /\ \A m, n \in 1 .. Len(t) : p[m] = p[n] => m = n
  BY DEF Picks
<1>2. ASSUME Distinct(fs) PROVE Distinct(t)
  BY <1>1, <1>2 DEF Distinct
<1>3. ASSUME Descending(fs), \A m, n \in 1 .. Len(t) : m < n => p[m] < p[n] PROVE Descending(t)
  <2> SUFFICES ASSUME NEW m \in DOMAIN t, NEW n \in DOMAIN t, m < n
               PROVE  Rank(t[m].severity) >= Rank(t[n].severity)
    BY DEF Descending
  <2>1. p[m] < p[n] /\ p[m] \in DOMAIN fs /\ p[n] \in DOMAIN fs
    BY <1>1, <1>3
  <2>2. Rank(fs[p[m]].severity) >= Rank(fs[p[n]].severity)
    BY <1>3, <2>1 DEF Descending
  <2> QED
    BY <1>1, <2>2
<1> QED
  BY <1>2, <1>3

\* What Best looks for.
Counts(fs, i, j) ==
  /\ j \in Same(fs, i)
  /\ \A h \in Same(fs, i) : h < j => Replaces(fs[j], fs[h])
  /\ \A h \in Same(fs, i) : h > j => ~ Replaces(fs[h], fs[j])

\* There is one, and it is the severest.
LEMMA BestExists ==
  ASSUME NEW fs \in Seq(Finding), NEW i \in DOMAIN fs
  PROVE  Counts(fs, i, Best(fs, i))
<1> DEFINE S == Same(fs, i)
<1> DEFINE Gap(h) == 5 - Rank(fs[h].severity)
<1>1. /\ DOMAIN fs \subseteq Nat /\ i \in S /\ S \subseteq DOMAIN fs
  BY LenProperties DEF Same
<1>2. \A h \in S : Rank(fs[h].severity) \in 1 .. 5 /\ Gap(h) \in Nat
  <2>1. \A h \in DOMAIN fs : fs[h] \in Finding
    BY LenProperties, ElementOfSeq
  <2>2. \A h \in DOMAIN fs : fs[h].severity \in Severities
    BY <2>1 DEF Finding
  <2>3. \A h \in S : Rank(fs[h].severity) \in 1 .. 5
    BY <1>1, <2>2, RankType
  <2> QED
    BY <2>3
<1> DEFINE N == {Gap(h) : h \in S}
<1>3. N \subseteq Nat /\ N # {}
  <2> HIDE DEF S, Gap
  <2> QED
    BY <1>1, <1>2
<1>4. PICK g \in N : \A y \in N : g <= y
  <2> HIDE DEF N
  <2> QED
    BY <1>3, LeastExists
<1> DEFINE M == {h \in S : Gap(h) = g}
<1>5. M \subseteq Nat /\ M # {}
  BY <1>1
<1>6. PICK j \in M : \A y \in M : j <= y
  <2> HIDE DEF M
  <2> QED
    BY <1>5, LeastExists
<1>7. j \in S /\ j \in Nat /\ Gap(j) = g /\ \A h \in S : h \in Nat /\ Gap(j) <= Gap(h)
  BY <1>1, <1>4
<1>8. ASSUME NEW h \in S, h < j PROVE Replaces(fs[j], fs[h])
  <2>1. Gap(h) # g
    <3>1. h \notin M
      <4>1. h \in Nat /\ j \in Nat
        BY <1>7, <1>8
      <4> HIDE DEF M
      <4> QED
        BY <1>6, <1>8, <4>1
    <3> QED
      BY <1>8, <3>1
  <2>2. Gap(j) < Gap(h)
    <3>1. Gap(j) <= Gap(h) /\ Gap(j) # Gap(h) /\ Gap(j) \in Nat /\ Gap(h) \in Nat
      BY <1>2, <1>7, <1>8, <2>1
    <3> HIDE DEF Gap
    <3> QED
      BY <3>1
  <2>3. Rank(fs[j].severity) \in Nat /\ Rank(fs[h].severity) \in Nat
    <3>1. j \in S /\ h \in S /\ \A x \in 1 .. 5 : x \in Nat
      BY <1>7, <1>8
    <3> HIDE DEF S, Gap
    <3> QED
      BY <1>2, <3>1
  <2> QED
    BY <2>2, <2>3 DEF Replaces
<1>9. ASSUME NEW h \in S, h > j PROVE ~ Replaces(fs[h], fs[j])
  <2>1. Gap(j) <= Gap(h)
    BY <1>7
  <2>2. Rank(fs[j].severity) \in Nat /\ Rank(fs[h].severity) \in Nat
    BY <1>2, <1>7, <1>9
  <2> QED
    BY <2>1, <2>2 DEF Replaces
<1>10. Counts(fs, i, j)
  <2> HIDE DEF M, N
  <2> QED
    BY <1>7, <1>8, <1>9 DEF Counts
<1> QED
  BY <1>10 DEF Counts, Best

\* Of several reports of a finding none is severer than the best.
LEMMA BestIsSeverest ==
  ASSUME NEW fs \in Seq(Finding), NEW i \in DOMAIN fs, NEW j, Counts(fs, i, j)
  PROVE  /\ j \in DOMAIN fs /\ Key(fs[j]) = Key(fs[i])
         /\ \A h \in Same(fs, i) : Rank(fs[j].severity) >= Rank(fs[h].severity)
<1>1. \A h \in DOMAIN fs : h \in Nat /\ Rank(fs[h].severity) \in 1 .. 5
  <2>1. \A h \in DOMAIN fs : fs[h] \in Finding
    BY LenProperties, ElementOfSeq
  <2> QED
    BY <2>1, LenProperties, RankType DEF Finding
<1>2. j \in DOMAIN fs /\ Key(fs[j]) = Key(fs[i])
  BY DEF Counts, Same
<1>3. ASSUME NEW h \in Same(fs, i) PROVE Rank(fs[j].severity) >= Rank(fs[h].severity)
  <2>1. h \in DOMAIN fs
    BY DEF Same
  <2>2. h < j \/ h > j \/ h = j
    BY <1>1, <1>2, <2>1
  <2> QED
    BY <1>1, <1>2, <2>1, <2>2 DEF Counts, Replaces
<1> QED
  BY <1>2, <1>3

\* Dedupe keeps one report of every finding, the severest.
LEMMA DedupedKeeps ==
  ASSUME NEW fs \in Seq(Finding), NEW d, d = Deduped(fs)
  PROVE  /\ d \in Seq(Finding) /\ Distinct(d)
         /\ \A i \in DOMAIN fs : \E n \in DOMAIN d :
              Key(d[n]) = Key(fs[i]) /\ Rank(d[n].severity) >= Rank(fs[i].severity)
         /\ \A n \in DOMAIN d : \E j \in DOMAIN fs : d[n] = fs[j]
<1> DEFINE g == [i \in DOMAIN fs |-> fs[Best(fs, i)]]
<1> DEFINE F == {i \in DOMAIN fs : \A h \in Same(fs, i) : i <= h}
<1>1. d = Pick(g, F)
  BY DEF Deduped
<1>2. \A i \in DOMAIN fs : fs[i] \in Finding /\ i \in Nat /\ i \in Same(fs, i)
  BY LenProperties, ElementOfSeq DEF Same
<1>3. ASSUME NEW i \in DOMAIN fs
      PROVE  /\ Best(fs, i) \in DOMAIN fs /\ g[i] = fs[Best(fs, i)]
             /\ Key(g[i]) = Key(fs[i])
             /\ \A h \in Same(fs, i) : Rank(g[i].severity) >= Rank(fs[h].severity)
  <2>1. Counts(fs, i, Best(fs, i)) /\ g[i] = fs[Best(fs, i)]
    BY BestExists
  <2> HIDE DEF g
  <2> QED
    BY <2>1, BestIsSeverest
<1>4. g \in Seq(Finding) /\ DOMAIN g = DOMAIN fs
  <2>1. DOMAIN fs = 1 .. Len(fs) /\ Len(fs) \in Nat
    BY LenProperties
  <2>2. g \in [1 .. Len(fs) -> Finding]
    BY <1>2, <1>3, <2>1
  <2> HIDE DEF g
  <2> QED
    BY <2>1, <2>2, SeqDef
<1>5. F \subseteq DOMAIN fs /\ F \subseteq Nat /\ IsFiniteSet(F)
  <2>1. IsFiniteSet(DOMAIN fs)
    BY LenProperties, Segment
  <2>2. F \in SUBSET (DOMAIN fs)
    OBVIOUS
  <2> HIDE DEF F
  <2> QED
    BY <1>2, <2>1, <2>2, FS_Subset
<1>6. ASSUME NEW i \in DOMAIN fs
      PROVE  \E k \in F : k \in Same(fs, i) /\ Key(fs[k]) = Key(fs[i])
  <2>1. Same(fs, i) \subseteq Nat /\ Same(fs, i) # {}
    BY <1>2 DEF Same
  <2>2. PICK k \in Same(fs, i) : \A h \in Same(fs, i) : k <= h
    BY <2>1, LeastExists
  <2>3. Same(fs, k) = Same(fs, i) /\ k \in DOMAIN fs /\ Key(fs[k]) = Key(fs[i])
    BY DEF Same
  <2> QED
    BY <2>2, <2>3
<1>7. ASSUME NEW i \in F, NEW k \in F, Key(g[i]) = Key(g[k]) PROVE i = k
  <2>1. Key(fs[i]) = Key(fs[k])
    <3> HIDE DEF g
    <3> QED
      BY <1>3, <1>5, <1>7
  <2>2. i \in Same(fs, k) /\ k \in Same(fs, i)
    BY <2>1 DEF Same
  <2>3. i <= k /\ k <= i
    BY <2>2
  <2> HIDE DEF F
  <2> QED
    BY <1>5, <2>3
<1> HIDE DEF g, F
<1>8. PICK p : Picks(d, g, F, p)
  BY <1>1, <1>5, PickPicks
<1>9. /\ d \in Seq(Finding)
      /\ \A n \in DOMAIN d : d[n] = g[p[n]] /\ p[n] \in F
      /\ \A i \in F : \E n \in DOMAIN d : d[n] = g[i] /\ p[n] = i
  <2>1. F \subseteq DOMAIN g
    BY <1>4, <1>5
  <2> QED
    BY <1>4, <1>8, <2>1, PicksHold
<1>10. Distinct(d)
  <2> SUFFICES ASSUME NEW m \in DOMAIN d, NEW n \in DOMAIN d, Key(d[m]) = Key(d[n])
               PROVE  m = n
    BY DEF Distinct
  <2>1. p[m] = p[n]
    BY <1>7, <1>9
  <2> QED
    BY <1>8, <2>1 DEF Picks
<1>11. ASSUME NEW i \in DOMAIN fs
       PROVE  \E n \in DOMAIN d :
                Key(d[n]) = Key(fs[i]) /\ Rank(d[n].severity) >= Rank(fs[i].severity)
  <2>1. PICK k \in F : k \in Same(fs, i) /\ Key(fs[k]) = Key(fs[i])
    BY <1>6
  <2>2. i \in Same(fs, k)
    BY <2>1 DEF Same
  <2>3. PICK n \in DOMAIN d : d[n] = g[k]
    BY <1>9
  <2>4. k \in DOMAIN fs
    BY <1>5
  <2>5. Key(g[k]) = Key(fs[k]) /\ Rank(g[k].severity) >= Rank(fs[i].severity)
    BY <1>3, <2>2, <2>4
  <2> QED
    BY <2>1, <2>3, <2>5
<1>12. \A n \in DOMAIN d : \E j \in DOMAIN fs : d[n] = fs[j]
  <2> SUFFICES ASSUME NEW n \in DOMAIN d PROVE \E j \in DOMAIN fs : d[n] = fs[j]
    OBVIOUS
  <2>1. d[n] = g[p[n]] /\ p[n] \in DOMAIN fs
    BY <1>5, <1>9
  <2> QED
    BY <1>3, <2>1
<1> QED
  BY <1>9, <1>10, <1>11, <1>12

-----------------------------------------------------------------------------
(* finish: validation, suppression and caps *)

\* t has those elements of fs that are at the indices D.
Selects(t, fs, D) ==
  /\ t \in Seq(Finding)
  /\ Distinct(fs) => Distinct(t)
  /\ \A n \in DOMAIN t : \E i \in D : t[n] = fs[i]
  /\ \A i \in D : \E n \in DOMAIN t : t[n] = fs[i]

\* A selection keeps the order as well.
LEMMA PickSelects ==
  ASSUME NEW fs \in Seq(Finding), NEW D, D \subseteq DOMAIN fs
  PROVE  Selects(Pick(fs, D), fs, D) /\ (Descending(fs) => Descending(Pick(fs, D)))
<1>1. D \subseteq Nat /\ IsFiniteSet(D)
  <2>1. DOMAIN fs \subseteq Nat /\ IsFiniteSet(DOMAIN fs) /\ D \in SUBSET (DOMAIN fs)
    BY LenProperties, Segment
  <2> QED
    BY <2>1, FS_Subset
<1>2. PICK p : /\ Picks(Pick(fs, D), fs, D, p)
               /\ \A m, n \in 1 .. Len(Pick(fs, D)) : m < n <=> p[m] < p[n]
  BY <1>1, PickPicks
<1>3. /\ Pick(fs, D) \in Seq(Finding)
      /\ \A n \in DOMAIN Pick(fs, D) : Pick(fs, D)[n] = fs[p[n]] /\ p[n] \in D
      /\ \A i \in D : \E n \in DOMAIN Pick(fs, D) : Pick(fs, D)[n] = fs[i] /\ p[n] = i
  BY <1>2, PicksHold
<1>4. /\ Distinct(fs) => Distinct(Pick(fs, D))
      /\ Descending(fs) => Descending(Pick(fs, D))
  BY <1>2, PicksKeep
<1> QED
  BY <1>3, <1>4 DEF Selects

\* What the elements of a list of findings have.
LEMMA ElementTypes ==
  ASSUME NEW fs \in Seq(Finding), NEW i \in DOMAIN fs
  PROVE  /\ i \in Nat /\ fs[i] \in Finding
         /\ fs[i].file \in Nat /\ fs[i].line \in Nat
         /\ fs[i].severity \in Severities /\ Rank(fs[i].severity) \in Nat
<1>1. i \in Nat /\ fs[i] \in Finding
  BY LenProperties, ElementOfSeq
<1>2. fs[i].file \in Nat /\ fs[i].line \in Nat /\ fs[i].severity \in Severities
  BY <1>1 DEF Finding
<1>3. \A s \in Severities : Rank(s) \in Nat
  BY RankType
<1> QED
  BY <1>1, <1>2, <1>3

\* The sort of applyCaps is one: no two findings are in the same place.
LEMMA BeforeRanks ==
  ASSUME NEW fs \in Seq(Finding)
  PROVE  Ranks([i \in DOMAIN fs |-> {j \in DOMAIN fs : Before(fs, j, i)}])
<1>1. \A i \in DOMAIN fs : /\ i \in Nat
                           /\ fs[i].file \in Nat /\ fs[i].line \in Nat
                           /\ fs[i].severity \in Severities /\ Rank(fs[i].severity) \in Nat
  BY ElementTypes
<1>2. \A s, t \in Severities : Rank(s) = Rank(t) => s = t
  BY RankType
<1>3. \A i \in DOMAIN fs : ~ Before(fs, i, i)
  BY <1>1 DEF Before
<1>4. \A i, j, k \in DOMAIN fs : Before(fs, i, j) /\ Before(fs, j, k) => Before(fs, i, k)
  <2> SUFFICES ASSUME NEW i \in DOMAIN fs, NEW j \in DOMAIN fs, NEW k \in DOMAIN fs,
                      Before(fs, i, j), Before(fs, j, k)
               PROVE  Before(fs, i, k)
    OBVIOUS
  <2> QED
    BY <1>1 DEF Before
<1>5. \A i, j \in DOMAIN fs : i = j \/ Before(fs, i, j) \/ Before(fs, j, i)
  BY <1>1, <1>2 DEF Before
<1>6. IsFiniteSet(DOMAIN fs)
  BY LenProperties, Segment
<1> DEFINE before == [i \in DOMAIN fs |-> {j \in DOMAIN fs : Before(fs, j, i)}]
<1>7. DOMAIN before = DOMAIN fs
  OBVIOUS
<1>8. \A i, j \in DOMAIN fs : i \in before[j] <=> Before(fs, i, j)
  OBVIOUS
<1>9. \A i \in DOMAIN fs : before[i] \subseteq DOMAIN fs
  OBVIOUS
<1> HIDE DEF before
<1>10. Ranks(before)
  BY <1>3, <1>4, <1>5, <1>6, <1>7, <1>8, <1>9 DEF Ranks
<1> QED
  BY <1>10 DEF before

\* What a sorted list shows: severities, files and lines in their order.
Ahead(f, g) ==
  \/ Rank(f.severity) > Rank(g.severity)
  \/ /\ f.severity = g.severity
     /\ \/ f.file < g.file
        \/ f.file = g.file /\ f.line < g.line

Orderly(fs) == \A m, n \in DOMAIN fs : m < n => ~ Ahead(fs[n], fs[m])

\* It loses nothing and puts the severest first.
LEMMA SortedSelects ==
  ASSUME NEW fs \in Seq(Finding)
  PROVE  /\ Selects(Sorted(fs), fs, DOMAIN fs)
         /\ Descending(Sorted(fs)) /\ Orderly(Sorted(fs))
<1> DEFINE before == [i \in DOMAIN fs |-> {j \in DOMAIN fs : Before(fs, j, i)}]
<1> DEFINE t == Arranged(fs, before)
<1>1. t = Sorted(fs) /\ DOMAIN before = DOMAIN fs
  BY DEF Sorted
<1>2. Ranks(before)
  BY BeforeRanks
<1>3. \A i, j \in DOMAIN fs : i \in before[j] => Before(fs, i, j)
  OBVIOUS
<1> HIDE DEF before
<1>4. PICK p : /\ Picks(t, fs, DOMAIN before, p)
               /\ \A m, n \in 1 .. Len(t) : m < n <=> p[m] \in before[p[n]]
  BY <1>2, ArrangedPicks
<1> HIDE DEF t
<1>5. /\ t \in Seq(Finding)
      /\ \A n \in DOMAIN t : t[n] = fs[p[n]] /\ p[n] \in DOMAIN fs
      /\ \A i \in DOMAIN fs : \E n \in DOMAIN t : t[n] = fs[i] /\ p[n] = i
  BY <1>1, <1>4, PicksHold
<1>6. Distinct(fs) => Distinct(t)
  BY <1>1, <1>4, PicksKeep
<1>7. ASSUME NEW m \in DOMAIN t, NEW n \in DOMAIN t, m < n
      PROVE  Rank(t[m].severity) >= Rank(t[n].severity) /\ ~ Ahead(t[n], t[m])
  <2>1. DOMAIN t = 1 .. Len(t)
    BY <1>4 DEF Picks
  <2>2. Before(fs, p[m], p[n])
    BY <1>3, <1>4, <1>5, <1>7, <2>1
  <2>3. p[m] \in DOMAIN fs /\ p[n] \in DOMAIN fs
    BY <1>5
  <2> DEFINE f == fs[p[m]]
  <2> DEFINE g == fs[p[n]]
  <2>4. /\ f.file \in Nat /\ f.line \in Nat /\ Rank(f.severity) \in Nat
        /\ g.file \in Nat /\ g.line \in Nat /\ Rank(g.severity) \in Nat
    BY <2>3, ElementTypes
  <2>5. Rank(f.severity) >= Rank(g.severity) /\ ~ Ahead(g, f)
    BY <2>2, <2>4 DEF Before, Ahead
  <2>6. t[m] = f /\ t[n] = g
    BY <1>5
  <2> HIDE DEF f, g
  <2> QED
    BY <2>5, <2>6
<1>8. Descending(t) /\ Orderly(t)
  BY <1>7 DEF Descending, Orderly
<1> QED
  BY <1>1, <1>5, <1>6, <1>8 DEF Selects

\* Of elements in some order, those with fewer than m before them are m, or all.
LEMMA FirstFew ==
  ASSUME NEW before, Ranks(before), NEW m \in Nat, NEW D, D = DOMAIN before,
         NEW F, F = {i \in D : Cardinality(before[i]) < m}
  PROVE  /\ IsFiniteSet(F) /\ Cardinality(F) <= m
         /\ \A i \in D : i \notin F => Cardinality(F) = m /\ F \subseteq before[i]
<1> DEFINE rank == [i \in D |-> Cardinality(before[i]) + 1]
<1> DEFINE r == [i \in F |-> rank[i]]
<1>1. /\ Cardinality(D) \in Nat
      /\ rank \in [D -> 1 .. Cardinality(D)]
      /\ \A i, j \in D : rank[i] = rank[j] => i = j
      /\ \A n \in 1 .. Cardinality(D) : \E i \in D : rank[i] = n
      /\ \A i, j \in D : i \in before[j] <=> rank[i] < rank[j]
  <2>1. rank = [i \in D |-> Cardinality(before[i]) + 1]
    OBVIOUS
  <2> HIDE DEF rank
  <2> QED
    BY <2>1, RankBijective
<1>2. \A i \in D : Cardinality(before[i]) \in Nat /\ rank[i] = Cardinality(before[i]) + 1
  <2>1. \A i \in D : IsFiniteSet(before[i])
    BY FS_Subset DEF Ranks
  <2> QED
    BY <2>1, FS_CardinalityType
<1>3. F \subseteq D /\ \A i \in D : i \in F <=> rank[i] <= m
  <2> HIDE DEF rank
  <2> QED
    BY <1>2
<1>4. r \in Injection(F, 1 .. m)
  <2>1. \A i \in F : rank[i] \in 1 .. m
    <3> HIDE DEF rank
    <3> QED
      BY <1>1, <1>3
  <2>2. r \in [F -> 1 .. m] /\ \A i, j \in F : r[i] = r[j] => i = j
    <3> HIDE DEF rank
    <3> QED
      BY <1>1, <1>3, <2>1
  <2> HIDE DEF r
  <2> QED
    BY <2>2, Fun_IsInj
<1>5. IsFiniteSet(1 .. m) /\ Cardinality(1 .. m) = m
  BY Segment
<1>6. IsFiniteSet(F) /\ Cardinality(F) <= m
  BY <1>4, <1>5, FS_Injection
<1>7. ASSUME NEW i \in D, i \notin F PROVE Cardinality(F) = m /\ F \subseteq before[i]
  <2>1. m < rank[i] /\ rank[i] \in 1 .. Cardinality(D)
    <3> HIDE DEF rank
    <3> QED
      BY <1>1, <1>3, <1>7
  <2>2. \A n \in 1 .. m : \E j \in F : r[j] = n
    <3> SUFFICES ASSUME NEW n \in 1 .. m PROVE \E j \in F : r[j] = n
      OBVIOUS
    <3>1. n \in 1 .. Cardinality(D)
      BY <1>1, <2>1
    <3>2. PICK j \in D : rank[j] = n
      BY <1>1, <3>1
    <3>3. j \in F
      <4> HIDE DEF rank
      <4> QED
        BY <1>3, <3>2
    <3>4. r[j] = rank[j]
      BY <3>3
    <3> QED
      BY <3>2, <3>3, <3>4
  <2>3. r \in Surjection(F, 1 .. m)
    <3>1. r \in [F -> 1 .. m]
      BY <1>4 DEF Injection
    <3> HIDE DEF r
    <3> QED
      BY <2>2, <3>1 DEF Surjection
  <2>4. Cardinality(F) = m
    BY <1>4, <1>5, <2>3, FS_Injection
  <2>5. ASSUME NEW j \in F PROVE j \in before[i]
    <3> HIDE DEF rank
    <3>1. rank[j] < rank[i]
      BY <1>1, <1>3, <2>1
    <3> QED
      BY <1>1, <1>3, <3>1
  <2> QED
    BY <2>4, <2>5
<1> QED
  BY <1>6, <1>7

\* The places of a file's findings.
OfFile(fs, path) == {n \in DOMAIN fs : fs[n].file = path}

\* The cap of a file leaves as many as it says, the first ones.
LEMMA CapOfFile ==
  ASSUME NEW w \in Seq(Finding), NEW q, q = FirstOfFile(w), PerFileCap > 0, NEW path
  PROVE  /\ IsFiniteSet(OfFile(q, path)) /\ Cardinality(OfFile(q, path)) <= PerFileCap
         /\ \A i \in OfFile(w, path) :
              \/ \E n \in DOMAIN q : q[n] = w[i]
              \/ /\ Cardinality(OfFile(q, path)) = PerFileCap
                 /\ \A n \in OfFile(q, path) : \E j \in DOMAIN w : j < i /\ q[n] = w[j]
<1> DEFINE Earlier(i) == {j \in 1 .. i - 1 : w[j].file = w[i].file}
<1> DEFINE C == {i \in DOMAIN w : ~ FileFull(Cardinality(Earlier(i)))}
<1> DEFINE K == OfFile(w, path)
<1> DEFINE before == [i \in K |-> {j \in K : j < i}]
<1> DEFINE F == {i \in K : Cardinality(before[i]) < PerFileCap}
<1>0. PerFileCap \in Nat
  BY AgentReviewAssumption
<1>1. /\ DOMAIN w = 1 .. Len(w) /\ Len(w) \in Nat /\ IsFiniteSet(DOMAIN w)
      /\ K \subseteq DOMAIN w /\ K \subseteq Nat /\ IsFiniteSet(K)
  <2>1. DOMAIN w = 1 .. Len(w) /\ Len(w) \in Nat /\ IsFiniteSet(DOMAIN w)
    BY LenProperties, Segment
  <2>2. K \in SUBSET (DOMAIN w)
    BY DEF OfFile
  <2> HIDE DEF K
  <2> QED
    BY <2>1, <2>2, FS_Subset
<1>2. \A i \in K : before[i] = Earlier(i)
  <2> SUFFICES ASSUME NEW i \in K PROVE {j \in K : j < i} = Earlier(i)
    OBVIOUS
  <2>1. i \in 1 .. Len(w) /\ w[i].file = path
    BY <1>1 DEF OfFile
  <2>2. \A j \in 1 .. i - 1 : j \in 1 .. Len(w) /\ j < i
    BY <1>1, <2>1
  <2>3. \A j \in 1 .. Len(w) : j < i => j \in 1 .. i - 1
    BY <1>1, <2>1
  <2> QED
    BY <1>1, <2>1, <2>2, <2>3 DEF OfFile
<1>3. Ranks(before)
  <2>0. DOMAIN before = K /\ \A i \in K : before[i] = {j \in K : j < i}
    OBVIOUS
  <2> HIDE DEF before, K
  <2>1. \A i, j \in K : i < j => before[i] \subseteq before[j]
    <3>1. \A i, j, h \in K : i < j /\ h < i => h < j
      BY <1>1
    <3> QED
      BY <2>0, <3>1
  <2>2. \A i, j \in K : i = j \/ i < j \/ j < i
    BY <1>1
  <2>3. \A i \in K : ~ (i < i)
    BY <1>1
  <2> QED
    BY <1>1, <2>0, <2>1, <2>2, <2>3 DEF Ranks
<1>4. /\ IsFiniteSet(F) /\ Cardinality(F) <= PerFileCap
      /\ \A i \in K : i \notin F => Cardinality(F) = PerFileCap /\ F \subseteq before[i]
  <2>1. K = DOMAIN before
    OBVIOUS
  <2> HIDE DEF before, K
  <2> QED
    BY <1>0, <1>3, <2>1, FirstFew
<1>5. F = C \cap K
  <2>1. \A i \in K : Cardinality(before[i]) \in Nat
    <3>1. \A i \in K : before[i] \in SUBSET K
      OBVIOUS
    <3> HIDE DEF before, K
    <3> QED
      BY <1>1, <3>1, FS_Subset, FS_CardinalityType
  <2>2. \A i \in K : Cardinality(before[i]) < PerFileCap <=> ~ FileFull(Cardinality(Earlier(i)))
    <3> HIDE DEF before, K, Earlier
    <3> QED
      BY <1>0, <1>2, <2>1 DEF FileFull
  <2> HIDE DEF before, K, Earlier
  <2> QED
    BY <1>1, <2>2
<1>6. PICK p : Picks(q, w, C, p)
  <2>1. q = Pick(w, C)
    BY DEF FirstOfFile
  <2>2. C \in SUBSET (DOMAIN w)
    OBVIOUS
  <2> HIDE DEF C
  <2>3. C \subseteq Nat /\ IsFiniteSet(C)
    BY <1>1, <2>2, FS_Subset
  <2>4. \E p : /\ Picks(Pick(w, C), w, C, p)
               /\ \A m, n \in 1 .. Len(Pick(w, C)) : m < n <=> p[m] < p[n]
    BY <2>3, PickPicks
  <2> QED
    BY <2>1, <2>4
<1> DEFINE Q == OfFile(q, path)
<1> DEFINE r == [n \in Q |-> p[n]]
<1>7. /\ DOMAIN q = 1 .. Len(q)
      /\ \A n \in DOMAIN q : p[n] \in C /\ q[n] = w[p[n]]
      /\ \A i \in C : \E n \in DOMAIN q : p[n] = i
      /\ \A m, n \in DOMAIN q : p[m] = p[n] => m = n
  <2> HIDE DEF C
  <2> QED
    BY <1>6 DEF Picks
<1>8. C \subseteq DOMAIN w
  OBVIOUS
<1> HIDE DEF C, before, Earlier
<1>9. \A n \in Q : n \in DOMAIN q /\ p[n] \in F
  <2> SUFFICES ASSUME NEW n \in Q PROVE n \in DOMAIN q /\ p[n] \in F
    OBVIOUS
  <2>1. n \in DOMAIN q /\ q[n].file = path
    BY DEF OfFile
  <2>2. p[n] \in K
    BY <1>7, <1>8, <2>1 DEF OfFile
  <2> HIDE DEF F, K
  <2> QED
    BY <1>5, <1>7, <2>1, <2>2
<1>10. \A i \in F : \E n \in Q : p[n] = i
  <2> SUFFICES ASSUME NEW i \in F PROVE \E n \in Q : p[n] = i
    OBVIOUS
  <2>1. i \in C /\ i \in K
    BY <1>5
  <2>2. PICK n \in DOMAIN q : p[n] = i
    BY <1>7, <2>1
  <2>3. n \in Q
    BY <1>7, <2>1, <2>2 DEF OfFile
  <2> QED
    BY <2>2, <2>3
<1> HIDE DEF F, Q
<1>11. r \in Injection(Q, F) /\ r \in Surjection(Q, F)
  <2>1. r \in [Q -> F] /\ \A n \in Q : r[n] = p[n]
    BY <1>9
  <2>2. \A m, n \in Q : r[m] = r[n] => m = n
    BY <1>7, <1>9, <2>1
  <2>3. \A i \in F : \E n \in Q : r[n] = i
    BY <1>10, <2>1
  <2> HIDE DEF r
  <2>4. r \in Injection(Q, F)
    BY <2>1, <2>2, Fun_IsInj
  <2> QED
    BY <2>1, <2>3, <2>4 DEF Surjection
<1>12. IsFiniteSet(Q) /\ Cardinality(Q) = Cardinality(F)
  BY <1>4, <1>11, FS_Injection
<1>13. ASSUME NEW i \in K, \A n \in DOMAIN q : q[n] # w[i]
       PROVE  /\ Cardinality(Q) = PerFileCap
              /\ \A n \in Q : \E j \in DOMAIN w : j < i /\ q[n] = w[j]
  <2>1. i \notin F
    <3> SUFFICES ASSUME i \in F PROVE FALSE
      OBVIOUS
    <3>1. PICK n \in Q : p[n] = i
      BY <1>10
    <3> QED
      BY <1>7, <1>9, <1>13, <3>1
  <2>2. Cardinality(F) = PerFileCap /\ F \subseteq before[i]
    BY <1>4, <2>1
  <2>3. \A j \in F : j \in DOMAIN w /\ j < i
    BY <1>1, <2>2 DEF before
  <2> QED
    BY <1>7, <1>9, <1>12, <2>2, <2>3
<1> QED
  BY <1>4, <1>12, <1>13 DEF Q

\* The cut keeps the first findings, and what it takes away is no severer than any of them.
LEMMA CutKeeps ==
  ASSUME NEW q \in Seq(Finding), NEW c, c = Cut(q)
  PROVE  /\ c \in Seq(Finding)
         /\ DOMAIN c \subseteq DOMAIN q /\ \A n \in DOMAIN c : c[n] = q[n]
         /\ Len(c) = IF MaxFindings > 0 /\ Len(q) > MaxFindings THEN MaxFindings ELSE Len(q)
         /\ MaxFindings > 0 => Len(c) <= MaxFindings
         /\ \A n \in DOMAIN q : n \notin DOMAIN c =>
              MaxFindings > 0 /\ Len(c) = MaxFindings /\ \A m \in DOMAIN c : m < n
<1>0. MaxFindings \in Nat
  BY AgentReviewAssumption
<1>1. DOMAIN q = 1 .. Len(q) /\ Len(q) \in Nat
  BY LenProperties
<1>2. CASE ~ (MaxFindings > 0 /\ Len(q) > MaxFindings)
  <2>1. c = q
    BY <1>2 DEF Cut
  <2>2. MaxFindings > 0 => Len(q) <= MaxFindings
    BY <1>0, <1>1, <1>2
  <2>3. c \in Seq(Finding) /\ DOMAIN c = DOMAIN q
    BY <2>1
  <2> QED
    BY <1>2, <2>1, <2>2, <2>3
<1>3. CASE MaxFindings > 0 /\ Len(q) > MaxFindings
  <2>1. c = SubSeq(q, 1, MaxFindings)
    BY <1>3 DEF Cut
  <2>2. 1 \in Int /\ MaxFindings \in Int /\ \A n \in 1 .. MaxFindings : q[n] \in Finding
    BY <1>0, <1>1, <1>3, ElementOfSeq
  <2>3. /\ c \in Seq(Finding)
        /\ Len(c) = IF 1 <= MaxFindings THEN MaxFindings - 1 + 1 ELSE 0
        /\ \A n \in 1 .. MaxFindings - 1 + 1 : c[n] = q[1 + n - 1]
    BY <2>1, <2>2, SubSeqProperties
  <2>4. Len(c) = MaxFindings /\ DOMAIN c = 1 .. MaxFindings
    BY <1>0, <1>3, <2>3, LenProperties
  <2>5. \A n \in 1 .. MaxFindings : c[n] = q[n]
    <3>1. \A n \in 1 .. MaxFindings : n \in 1 .. MaxFindings - 1 + 1 /\ 1 + n - 1 = n
      BY <1>0
    <3> QED
      BY <2>3, <3>1
  <2> QED
    BY <1>0, <1>1, <1>3, <2>3, <2>4, <2>5
<1> QED
  BY <1>2, <1>3

\* No two findings have one key.
LEMMA KeysDiffer ==
  ASSUME NEW fs \in Seq(Finding), Distinct(fs)
  PROVE  Cardinality({Key(fs[n]) : n \in DOMAIN fs}) = Len(fs)
<1> DEFINE T == {Key(fs[n]) : n \in DOMAIN fs}
<1> DEFINE key == [n \in DOMAIN fs |-> Key(fs[n])]
<1>1. DOMAIN fs = 1 .. Len(fs) /\ IsFiniteSet(DOMAIN fs) /\ Cardinality(DOMAIN fs) = Len(fs)
  BY LenProperties, Segment
<1>2. key \in [DOMAIN fs -> T] /\ \A k \in T : \E n \in DOMAIN fs : key[n] = k
  OBVIOUS
<1>3. \A m, n \in DOMAIN fs : key[m] = key[n] => m = n
  BY DEF Distinct
<1> HIDE DEF key, T
<1>4. key \in Injection(DOMAIN fs, T)
  BY <1>2, <1>3, Fun_IsInj
<1>5. key \in Surjection(DOMAIN fs, T)
  BY <1>2 DEF Surjection
<1>6. Cardinality(T) = Cardinality(DOMAIN fs)
  BY <1>1, <1>4, <1>5, FS_Surjection
<1> QED
  BY <1>1, <1>6 DEF T

\* Dedupe, validation and sort leave each finding a report as severe as the one at i.
LEMMA WantedStay ==
  ASSUME NEW fs \in Seq(Finding), NEW keys, NEW w, w = AllWanted(Sorted(Valid(Deduped(fs), keys)))
  PROVE  /\ w \in Seq(Finding) /\ Distinct(w) /\ Descending(w)
         /\ \A i \in DOMAIN fs :
              Anchored(fs[i]) /\ Wanted(fs[i]) /\ Key(fs[i]) \notin keys =>
                \E n \in DOMAIN w :
                  Key(w[n]) = Key(fs[i]) /\ Rank(w[n].severity) >= Rank(fs[i].severity)
<1> DEFINE d == Deduped(fs)
<1> DEFINE V == {i \in DOMAIN d : Anchored(d[i]) /\ Key(d[i]) \notin keys}
<1> DEFINE v == Valid(d, keys)
<1> DEFINE s == Sorted(v)
<1> DEFINE W == {i \in DOMAIN s : Wanted(s[i])}
<1>1. /\ d \in Seq(Finding) /\ Distinct(d)
      /\ \A i \in DOMAIN fs : \E n \in DOMAIN d :
           Key(d[n]) = Key(fs[i]) /\ Rank(d[n].severity) >= Rank(fs[i].severity)
  BY DedupedKeeps
<1>2. v = Pick(d, V) /\ w = Pick(s, W)
  BY DEF Valid, AllWanted
<1>3. V \subseteq DOMAIN d /\ W \subseteq DOMAIN s
  OBVIOUS
<1>4. \A n \in DOMAIN d : Anchored(d[n]) /\ Key(d[n]) \notin keys => n \in V
  OBVIOUS
<1>5. \A n \in DOMAIN s : Wanted(s[n]) => n \in W
  OBVIOUS
<1> HIDE DEF d, V, W
<1>6. Selects(v, d, V)
  <2> HIDE DEF v
  <2> QED
    BY <1>1, <1>2, <1>3, PickSelects
<1>7. v \in Seq(Finding) /\ Distinct(v)
  BY <1>1, <1>6 DEF Selects
<1> HIDE DEF v
<1>8. Selects(s, v, DOMAIN v) /\ Descending(s)
  BY <1>7, SortedSelects
<1>9. s \in Seq(Finding) /\ Distinct(s)
  BY <1>7, <1>8 DEF Selects
<1> HIDE DEF s
<1>10. Selects(w, s, W) /\ Descending(w)
  BY <1>2, <1>3, <1>8, <1>9, PickSelects
<1>11. w \in Seq(Finding) /\ Distinct(w)
  BY <1>9, <1>10 DEF Selects
<1>12. ASSUME NEW i \in DOMAIN fs, Anchored(fs[i]), Wanted(fs[i]), Key(fs[i]) \notin keys
       PROVE  \E n \in DOMAIN w :
                Key(w[n]) = Key(fs[i]) /\ Rank(w[n].severity) >= Rank(fs[i].severity)
  <2>1. PICK k \in DOMAIN d : Key(d[k]) = Key(fs[i]) /\ Rank(d[k].severity) >= Rank(fs[i].severity)
    BY <1>1
  <2>2. d[k].file = fs[i].file /\ d[k].line = fs[i].line
    BY <2>1 DEF Key
  <2>3. Anchored(d[k])
    BY <1>12, <2>2 DEF Anchored
  <2>4. Wanted(d[k])
    <3>1. fs[i].severity \in Severities /\ d[k].severity \in Severities
      BY <1>1, ElementTypes
    <3>2. \A x \in Severities : Rank(x) \in 1 .. 5 /\ (Rank(x) = 1 <=> x = "nit")
      BY RankType
    <3> QED
      BY <1>12, <2>1, <3>1, <3>2 DEF Wanted
  <2>5. k \in V
    BY <1>4, <1>12, <2>1, <2>3
  <2>6. PICK a \in DOMAIN v : v[a] = d[k]
    BY <1>6, <2>5 DEF Selects
  <2>7. PICK b \in DOMAIN s : s[b] = v[a]
    BY <1>8, <2>6 DEF Selects
  <2>8. b \in W
    BY <1>5, <2>4, <2>6, <2>7
  <2>9. PICK n \in DOMAIN w : w[n] = s[b]
    BY <1>10, <2>8 DEF Selects
  <2> QED
    BY <2>1, <2>6, <2>7, <2>9
<1> QED
  BY <1>10, <1>11, <1>12

\* What finish shows of the findings of a run.
LEMMA KeptIsSeverest ==
  ASSUME NEW fs \in Seq(Finding), NEW keys, NEW c, c = Kept(fs, keys)
  PROVE  /\ MaxFindings > 0 => Len(c) <= MaxFindings
         /\ PerFileCap > 0 => \A n \in DOMAIN c : InFile(c, c[n].file) <= PerFileCap
         /\ Cardinality({Key(c[n]) : n \in DOMAIN c}) = Len(c)
         /\ \A i \in DOMAIN fs :
             LET f == fs[i]
                 shown == {n \in DOMAIN c : Rank(c[n].severity) >= Rank(f.severity)} IN
             Anchored(f) /\ Wanted(f) /\ Key(f) \notin keys =>
               \/ \E n \in shown : Key(c[n]) = Key(f)
               \/ PerFileCap > 0 /\ Cardinality({n \in shown : c[n].file = f.file}) = PerFileCap
               \/ MaxFindings > 0 /\ Cardinality(shown) = MaxFindings
<1> DEFINE w == AllWanted(Sorted(Valid(Deduped(fs), keys)))
<1> DEFINE q == FirstOfFile(w)
<1> DEFINE C == {i \in DOMAIN w : ~ FileFull(Cardinality({j \in 1 .. i - 1 : w[j].file = w[i].file}))}
<1>1. /\ w \in Seq(Finding) /\ Distinct(w) /\ Descending(w)
      /\ \A i \in DOMAIN fs :
           Anchored(fs[i]) /\ Wanted(fs[i]) /\ Key(fs[i]) \notin keys =>
             \E n \in DOMAIN w :
               Key(w[n]) = Key(fs[i]) /\ Rank(w[n].severity) >= Rank(fs[i].severity)
  BY WantedStay
<1>2. c = Cut(q)
  BY DEF Kept, Capped
<1> HIDE DEF w
<1>3. q = Pick(w, C) /\ C \subseteq DOMAIN w
  BY DEF FirstOfFile
<1>4. ASSUME PerFileCap = 0 PROVE C = DOMAIN w
  <2>1. \A n : ~ FileFull(n)
    BY <1>4 DEF FileFull
  <2> QED
    BY <2>1
<1> HIDE DEF C
<1>5. Selects(q, w, C) /\ Descending(q)
  <2> HIDE DEF q
  <2> QED
    BY <1>1, <1>3, PickSelects
<1>6. q \in Seq(Finding) /\ Distinct(q)
  BY <1>1, <1>5 DEF Selects
<1>7. PerFileCap \in Nat /\ MaxFindings \in Nat
  BY AgentReviewAssumption
<1>8. PerFileCap > 0 =>
        \A path : /\ IsFiniteSet(OfFile(q, path)) /\ Cardinality(OfFile(q, path)) <= PerFileCap
                  /\ \A i \in OfFile(w, path) :
                       \/ \E n \in DOMAIN q : q[n] = w[i]
                       \/ /\ Cardinality(OfFile(q, path)) = PerFileCap
                          /\ \A n \in OfFile(q, path) : \E j \in DOMAIN w : j < i /\ q[n] = w[j]
  BY <1>1, CapOfFile
<1> HIDE DEF q
<1>9. /\ c \in Seq(Finding)
      /\ DOMAIN c \subseteq DOMAIN q /\ \A n \in DOMAIN c : c[n] = q[n]
      /\ MaxFindings > 0 => Len(c) <= MaxFindings
      /\ \A n \in DOMAIN q : n \notin DOMAIN c =>
           MaxFindings > 0 /\ Len(c) = MaxFindings /\ \A m \in DOMAIN c : m < n
  BY <1>2, <1>6, CutKeeps
<1>10. ASSUME PerFileCap > 0, NEW n \in DOMAIN c PROVE InFile(c, c[n].file) <= PerFileCap
  <2> DEFINE path == c[n].file
  <2>1. OfFile(c, path) \in SUBSET OfFile(q, path)
    BY <1>9 DEF OfFile
  <2>2. IsFiniteSet(OfFile(q, path)) /\ Cardinality(OfFile(q, path)) <= PerFileCap
    BY <1>8, <1>10
  <2>3. /\ Cardinality(OfFile(c, path)) <= Cardinality(OfFile(q, path))
        /\ Cardinality(OfFile(c, path)) \in Nat /\ Cardinality(OfFile(q, path)) \in Nat
    BY <2>1, <2>2, FS_Subset, FS_CardinalityType
  <2>4. InFile(c, path) = Cardinality(OfFile(c, path))
    BY DEF InFile, OfFile
  <2> HIDE DEF path
  <2>5. InFile(c, path) <= PerFileCap
    BY <1>7, <2>2, <2>3, <2>4
  <2> QED
    BY <2>5 DEF path
<1>11. Distinct(c)
  BY <1>6, <1>9 DEF Distinct
<1>12. Cardinality({Key(c[n]) : n \in DOMAIN c}) = Len(c)
  BY <1>9, <1>11, KeysDiffer
<1>13. ASSUME NEW i \in DOMAIN fs, Anchored(fs[i]), Wanted(fs[i]), Key(fs[i]) \notin keys,
              NEW shown, shown = {n \in DOMAIN c : Rank(c[n].severity) >= Rank(fs[i].severity)}
       PROVE  \/ \E n \in shown : Key(c[n]) = Key(fs[i])
              \/ PerFileCap > 0 /\ Cardinality({n \in shown : c[n].file = fs[i].file}) = PerFileCap
              \/ MaxFindings > 0 /\ Cardinality(shown) = MaxFindings
  <2>1. PICK k \in DOMAIN w : Key(w[k]) = Key(fs[i]) /\ Rank(w[k].severity) >= Rank(fs[i].severity)
    BY <1>1, <1>13
  <2>2. w[k].file = fs[i].file
    BY <2>1 DEF Key
  <2>3. Rank(fs[i].severity) \in Nat /\ Rank(w[k].severity) \in Nat
    BY <1>1, ElementTypes
  <2>4. /\ \A n \in DOMAIN q : Rank(q[n].severity) \in Nat
        /\ \A n \in DOMAIN w : Rank(w[n].severity) \in Nat
    BY <1>1, <1>6, ElementTypes
  <2>5. ASSUME NEW n \in DOMAIN q, n \notin DOMAIN c,
               Rank(q[n].severity) >= Rank(fs[i].severity)
        PROVE  MaxFindings > 0 /\ Cardinality(shown) = MaxFindings
    <3>1. MaxFindings > 0 /\ Len(c) = MaxFindings /\ \A m \in DOMAIN c : m < n
      BY <1>9, <2>5
    <3>2. ASSUME NEW m \in DOMAIN c PROVE Rank(c[m].severity) >= Rank(fs[i].severity)
      <4>1. m \in DOMAIN q /\ m < n /\ c[m] = q[m]
        BY <1>9, <3>1
      <4>2. Rank(q[m].severity) >= Rank(q[n].severity)
        BY <1>5, <4>1 DEF Descending
      <4> QED
        BY <2>3, <2>4, <2>5, <4>1, <4>2
    <3>3. shown = DOMAIN c
      BY <1>13, <3>2
    <3>4. DOMAIN c = 1 .. MaxFindings
      BY <1>9, <3>1, LenProperties
    <3> QED
      BY <1>7, <3>1, <3>3, <3>4, Segment
  <2>6. CASE \E n \in DOMAIN q : q[n] = w[k]
    <3>1. PICK n \in DOMAIN q : q[n] = w[k]
      BY <2>6
    <3>2. CASE n \in DOMAIN c
      <4>1. c[n] = w[k]
        BY <1>9, <3>1, <3>2
      <4>2. n \in shown
        BY <1>13, <2>1, <3>2, <4>1
      <4> QED
        BY <2>1, <4>1, <4>2
    <3> QED
      BY <2>1, <2>5, <3>1, <3>2
  <2>7. CASE ~ \E n \in DOMAIN q : q[n] = w[k]
    <3> DEFINE path == fs[i].file
    <3> DEFINE Q == OfFile(q, path)
    <3>1. PerFileCap > 0
      <4>1. PerFileCap # 0
        BY <1>4, <1>5, <2>7 DEF Selects
      <4> QED
        BY <1>7, <4>1
    <3>2. k \in OfFile(w, path)
      BY <2>2 DEF OfFile
    <3>3. /\ Cardinality(Q) = PerFileCap
          /\ \A n \in Q : \E j \in DOMAIN w : j < k /\ q[n] = w[j]
      BY <1>8, <2>7, <3>1, <3>2
    <3>4. Q = {n \in DOMAIN q : q[n].file = path}
      BY DEF OfFile
    <3> HIDE DEF Q
    <3>5. ASSUME NEW n \in Q PROVE Rank(q[n].severity) >= Rank(fs[i].severity)
      <4>1. PICK j \in DOMAIN w : j < k /\ q[n] = w[j]
        BY <3>3
      <4>2. Rank(w[j].severity) >= Rank(w[k].severity)
        BY <1>1, <4>1 DEF Descending
      <4>3. Rank(w[j].severity) \in Nat
        BY <2>4
      <4> QED
        BY <2>1, <2>3, <4>1, <4>2, <4>3
    <3>6. CASE Q \subseteq DOMAIN c
      <4>1. {n \in shown : c[n].file = path} = Q
        BY <1>9, <1>13, <3>4, <3>5, <3>6
      <4> QED
        BY <3>1, <3>3, <4>1
    <3>7. CASE \E n \in Q : n \notin DOMAIN c
      <4>1. PICK n \in Q : n \notin DOMAIN c
        BY <3>7
      <4>2. n \in DOMAIN q
        BY <3>4
      <4> QED
        BY <2>5, <3>5, <4>1, <4>2
    <3> QED
      BY <3>6, <3>7
  <2> QED
    BY <2>6, <2>7
<1> QED
  BY <1>9, <1>10, <1>12, <1>13

-----------------------------------------------------------------------------
(* finish: the order of the reports *)

\* Two lists with the same findings.
Has(fs, x) == \E n \in DOMAIN fs : fs[n] = x
Alike(a, b) == \A x : Has(a, x) <=> Has(b, x)

\* A finding with the key and the severity of another is that one.
LEMMA KeyAndSeverity ==
  ASSUME NEW x \in Finding, NEW y \in Finding, Key(x) = Key(y), x.severity = y.severity
  PROVE  x = y
BY DEF Finding, Key

\* Dedupe leaves the severest of the findings with a key, wherever they are.
LEMMA DedupedHas ==
  ASSUME NEW fs \in Seq(Finding), NEW x
  PROVE  Has(Deduped(fs), x) <=>
           /\ Has(fs, x)
           /\ \A i \in DOMAIN fs : Key(fs[i]) = Key(x) => Rank(x.severity) >= Rank(fs[i].severity)
<1> DEFINE d == Deduped(fs)
<1>1. /\ d \in Seq(Finding) /\ Distinct(d)
      /\ \A i \in DOMAIN fs : \E n \in DOMAIN d :
           Key(d[n]) = Key(fs[i]) /\ Rank(d[n].severity) >= Rank(fs[i].severity)
      /\ \A n \in DOMAIN d : \E j \in DOMAIN fs : d[n] = fs[j]
  BY DedupedKeeps
<1> HIDE DEF d
<1>2. ASSUME Has(d, x)
      PROVE  /\ Has(fs, x)
             /\ \A i \in DOMAIN fs : Key(fs[i]) = Key(x) => Rank(x.severity) >= Rank(fs[i].severity)
  <2>1. PICK n \in DOMAIN d : d[n] = x
    BY <1>2 DEF Has
  <2>2. Has(fs, x)
    BY <1>1, <2>1 DEF Has
  <2>3. ASSUME NEW i \in DOMAIN fs, Key(fs[i]) = Key(x)
        PROVE  Rank(x.severity) >= Rank(fs[i].severity)
    <3>1. PICK m \in DOMAIN d : Key(d[m]) = Key(fs[i]) /\ Rank(d[m].severity) >= Rank(fs[i].severity)
      BY <1>1
    <3>2. m = n
      BY <1>1, <2>1, <2>3, <3>1 DEF Distinct
    <3> QED
      BY <2>1, <3>1, <3>2
  <2> QED
    BY <2>2, <2>3
<1>3. ASSUME Has(fs, x),
             \A i \in DOMAIN fs : Key(fs[i]) = Key(x) => Rank(x.severity) >= Rank(fs[i].severity)
      PROVE  Has(d, x)
  <2>1. PICK i \in DOMAIN fs : fs[i] = x
    BY <1>3 DEF Has
  <2>2. PICK n \in DOMAIN d : Key(d[n]) = Key(x) /\ Rank(d[n].severity) >= Rank(x.severity)
    BY <1>1, <2>1
  <2>3. PICK j \in DOMAIN fs : d[n] = fs[j]
    BY <1>1
  <2>4. Rank(x.severity) >= Rank(d[n].severity)
    BY <1>3, <2>2, <2>3
  <2>5. /\ x \in Finding /\ x.severity \in Severities /\ Rank(x.severity) \in Nat
        /\ d[n] \in Finding /\ d[n].severity \in Severities /\ Rank(d[n].severity) \in Nat
    BY <1>1, <2>1, ElementTypes
  <2>6. Rank(x.severity) = Rank(d[n].severity)
    BY <2>2, <2>4, <2>5
  <2>7. x.severity = d[n].severity
    BY <2>5, <2>6, RankType
  <2>8. d[n] = x
    BY <2>2, <2>5, <2>7, KeyAndSeverity
  <2> QED
    BY <2>8 DEF Has
<1> QED
  BY <1>2, <1>3 DEF d

\* So the order of the reports does not matter to it.
LEMMA DedupedAlike ==
  ASSUME NEW a \in Seq(Finding), NEW b \in Seq(Finding), Alike(a, b)
  PROVE  Alike(Deduped(a), Deduped(b))
<1> SUFFICES ASSUME NEW x PROVE Has(Deduped(a), x) <=> Has(Deduped(b), x)
  BY DEF Alike
<1>1. Has(a, x) <=> Has(b, x)
  BY DEF Alike
<1>2. \A i \in DOMAIN a : \E j \in DOMAIN b : b[j] = a[i]
  BY DEF Alike, Has
<1>3. \A j \in DOMAIN b : \E i \in DOMAIN a : a[i] = b[j]
  BY DEF Alike, Has
<1>4. (\A i \in DOMAIN a : Key(a[i]) = Key(x) => Rank(x.severity) >= Rank(a[i].severity))
      <=> (\A i \in DOMAIN b : Key(b[i]) = Key(x) => Rank(x.severity) >= Rank(b[i].severity))
  BY <1>2, <1>3
<1>5. /\ Has(Deduped(a), x) <=>
           /\ Has(a, x)
           /\ \A i \in DOMAIN a : Key(a[i]) = Key(x) => Rank(x.severity) >= Rank(a[i].severity)
      /\ Has(Deduped(b), x) <=>
           /\ Has(b, x)
           /\ \A i \in DOMAIN b : Key(b[i]) = Key(x) => Rank(x.severity) >= Rank(b[i].severity)
  BY DedupedHas
<1> QED
  BY <1>1, <1>4, <1>5

\* The valid findings, sorted.
LEMMA ArrangedHas ==
  ASSUME NEW fs \in Seq(Finding), NEW keys, NEW s, s = Sorted(Valid(Deduped(fs), keys))
  PROVE  /\ s \in Seq(Finding) /\ Distinct(s) /\ Orderly(s)
         /\ \A x : Has(s, x) <=> Has(Deduped(fs), x) /\ Anchored(x) /\ Key(x) \notin keys
<1> DEFINE d == Deduped(fs)
<1> DEFINE V == {i \in DOMAIN d : Anchored(d[i]) /\ Key(d[i]) \notin keys}
<1> DEFINE v == Valid(d, keys)
<1>1. d \in Seq(Finding) /\ Distinct(d)
  BY DedupedKeeps
<1>2. v = Pick(d, V) /\ V \subseteq DOMAIN d
  BY DEF Valid
<1>3. \A i \in DOMAIN d : i \in V <=> Anchored(d[i]) /\ Key(d[i]) \notin keys
  OBVIOUS
<1> HIDE DEF d, V
<1>4. Selects(v, d, V)
  <2> HIDE DEF v
  <2> QED
    BY <1>1, <1>2, PickSelects
<1>5. v \in Seq(Finding) /\ Distinct(v)
  BY <1>1, <1>4 DEF Selects
<1>6. Selects(s, v, DOMAIN v) /\ Orderly(s)
  <2>1. s = Sorted(v)
    BY DEF d
  <2> HIDE DEF v
  <2> QED
    BY <1>5, <2>1, SortedSelects
<1>7. s \in Seq(Finding) /\ Distinct(s)
  BY <1>5, <1>6 DEF Selects
<1> HIDE DEF v
<1>8. ASSUME NEW x
      PROVE  Has(s, x) <=> Has(d, x) /\ Anchored(x) /\ Key(x) \notin keys
  <2>1. Has(s, x) <=> Has(v, x)
    BY <1>6 DEF Selects, Has
  <2>2. Has(v, x) <=> \E i \in V : d[i] = x
    BY <1>4 DEF Selects, Has
  <2>3. (\E i \in V : d[i] = x) <=> Has(d, x) /\ Anchored(x) /\ Key(x) \notin keys
    BY <1>2, <1>3 DEF Has
  <2> QED
    BY <2>1, <2>2, <2>3
<1> QED
  BY <1>6, <1>7, <1>8 DEF d

\* Where a finding of one list is in another.
At(b, x) == CHOOSE m \in DOMAIN b : b[m] = x

\* Of two lists without repetitions and with the same findings none is longer.
LEMMA AlikeLength ==
  ASSUME NEW a \in Seq(Finding), NEW b \in Seq(Finding), Distinct(a), Alike(a, b),
         NEW h, h = [n \in DOMAIN a |-> At(b, a[n])]
  PROVE  /\ \A n \in DOMAIN a : h[n] \in DOMAIN b /\ b[h[n]] = a[n]
         /\ \A m, n \in DOMAIN a : h[m] = h[n] => m = n
         /\ Len(a) <= Len(b)
<1>1. ASSUME NEW n \in DOMAIN a PROVE h[n] \in DOMAIN b /\ b[h[n]] = a[n]
  <2>1. \E m \in DOMAIN b : b[m] = a[n]
    BY DEF Alike, Has
  <2> QED
    BY <2>1 DEF At
<1>2. ASSUME NEW m \in DOMAIN a, NEW n \in DOMAIN a, h[m] = h[n] PROVE m = n
  <2>1. a[m] = a[n]
    BY <1>1, <1>2
  <2> QED
    BY <2>1 DEF Distinct
<1>3. h \in Injection(DOMAIN a, DOMAIN b)
  <2>1. h \in [DOMAIN a -> DOMAIN b]
    BY <1>1
  <2> QED
    BY <1>2, <2>1, Fun_IsInj
<1>4. /\ IsFiniteSet(DOMAIN b) /\ Cardinality(DOMAIN b) = Len(b)
      /\ Cardinality(DOMAIN a) = Len(a)
  BY LenProperties, Segment
<1>5. Cardinality(DOMAIN a) <= Cardinality(DOMAIN b)
  BY <1>3, <1>4, FS_Injection
<1> QED
  BY <1>1, <1>2, <1>4, <1>5

\* What is not ahead of something is not ahead of what that is not ahead of.
LEMMA AheadWeak ==
  ASSUME NEW f \in Finding, NEW g \in Finding, NEW k \in Finding, ~ Ahead(f, g), ~ Ahead(g, k)
  PROVE  ~ Ahead(f, k)
<1>1. /\ f.file \in Nat /\ f.line \in Nat /\ f.severity \in Severities
      /\ g.file \in Nat /\ g.line \in Nat /\ g.severity \in Severities
      /\ k.file \in Nat /\ k.line \in Nat /\ k.severity \in Severities
  BY DEF Finding
<1>2. Rank(f.severity) \in Nat /\ Rank(g.severity) \in Nat /\ Rank(k.severity) \in Nat
  <2>1. \A s \in Severities : Rank(s) \in Nat
    BY RankType
  <2> QED
    BY <1>1, <2>1
<1>3. Rank(f.severity) <= Rank(g.severity) /\ Rank(g.severity) <= Rank(k.severity)
  BY <1>2 DEF Ahead
<1>4. ~ (Rank(f.severity) > Rank(k.severity))
  BY <1>2, <1>3
<1>5. ASSUME f.severity = k.severity
      PROVE  ~ (f.file < k.file \/ (f.file = k.file /\ f.line < k.line))
  <2>1. Rank(f.severity) = Rank(g.severity)
    BY <1>2, <1>3, <1>5
  <2>2. f.severity = g.severity /\ g.severity = k.severity
    BY <1>1, <1>5, <2>1, RankType
  <2>3. /\ ~ (f.file < g.file) /\ ~ (f.file = g.file /\ f.line < g.line)
        /\ ~ (g.file < k.file) /\ ~ (g.file = k.file /\ g.line < k.line)
    BY <1>1, <1>2, <2>2 DEF Ahead
  <2> QED
    BY <1>1, <2>3
<1> QED
  BY <1>4, <1>5 DEF Ahead

\* If they are sorted, none has something that belongs ahead of what the other has there.
LEMMA NoneAhead ==
  ASSUME NEW a \in Seq(Finding), NEW b \in Seq(Finding), Distinct(a), Alike(a, b),
         Orderly(a), Orderly(b), NEW n \in DOMAIN a, n \in DOMAIN b
  PROVE  ~ Ahead(a[n], b[n])
<1> SUFFICES ASSUME Ahead(a[n], b[n]) PROVE FALSE
  OBVIOUS
<1> DEFINE h == [m \in DOMAIN a |-> At(b, a[m])]
<1>1. /\ \A m \in DOMAIN a : h[m] \in DOMAIN b /\ b[h[m]] = a[m]
      /\ \A l, m \in DOMAIN a : h[l] = h[m] => l = m
  <2>1. h = [m \in DOMAIN a |-> At(b, a[m])]
    OBVIOUS
  <2> HIDE DEF h
  <2> QED
    BY <2>1, AlikeLength
<1> HIDE DEF h
<1>2. /\ DOMAIN a = 1 .. Len(a) /\ Len(a) \in Nat
      /\ DOMAIN b = 1 .. Len(b) /\ Len(b) \in Nat
  BY LenProperties
<1>3. n \in Nat \ {0} /\ \A m \in 1 .. n : m \in DOMAIN a
  BY <1>2
<1>4. ASSUME NEW m \in 1 .. n PROVE h[m] \in 1 .. n - 1
  <2>1. m \in DOMAIN a /\ h[m] \in DOMAIN b /\ b[h[m]] = a[m]
    BY <1>1, <1>3
  <2>2. ~ Ahead(a[n], a[m])
    <3>1. CASE m < n
      BY <2>1, <3>1 DEF Orderly
    <3>2. CASE m = n
      <4>1. /\ a[n].file \in Nat /\ a[n].line \in Nat /\ Rank(a[n].severity) \in Nat
        BY ElementTypes
      <4> QED
        BY <3>2, <4>1 DEF Ahead
    <3> QED
      BY <1>3, <3>1, <3>2
  <2>3. SUFFICES ASSUME h[m] \notin 1 .. n - 1 PROVE FALSE
    OBVIOUS
  <2>4. h[m] = n \/ h[m] > n
    BY <1>2, <1>3, <2>1, <2>3
  <2>5. ~ Ahead(a[m], b[n])
    <3>1. CASE h[m] > n
      BY <2>1, <3>1 DEF Orderly
    <3>2. CASE h[m] = n
      <4>1. /\ b[n].file \in Nat /\ b[n].line \in Nat /\ Rank(b[n].severity) \in Nat
        BY ElementTypes
      <4> QED
        BY <2>1, <3>2, <4>1 DEF Ahead
    <3> QED
      BY <2>4, <3>1, <3>2
  <2>6. a[n] \in Finding /\ a[m] \in Finding /\ b[n] \in Finding
    BY <2>1, ElementTypes
  <2> QED
    BY <2>2, <2>5, <2>6, AheadWeak
<1> DEFINE r == [m \in 1 .. n |-> h[m]]
<1>5. r \in Injection(1 .. n, 1 .. n - 1)
  <2>1. r \in [1 .. n -> 1 .. n - 1] /\ \A l, m \in 1 .. n : r[l] = r[m] => l = m
    BY <1>1, <1>3, <1>4
  <2> HIDE DEF r
  <2> QED
    BY <2>1, Fun_IsInj
<1>6. /\ IsFiniteSet(1 .. n - 1) /\ Cardinality(1 .. n - 1) = n - 1 /\ Cardinality(1 .. n) = n
  <2>1. n - 1 \in Nat /\ n \in Nat
    BY <1>3
  <2> QED
    BY <2>1, Segment
<1>7. Cardinality(1 .. n) <= Cardinality(1 .. n - 1)
  <2> HIDE DEF r
  <2> QED
    BY <1>5, <1>6, FS_Injection
<1> QED
  BY <1>3, <1>6, <1>7

\* What is seen of lists in Shape.
Looks(a, b) ==
  /\ DOMAIN a = DOMAIN b
  /\ \A n \in DOMAIN a :
       a[n].severity = b[n].severity /\ a[n].file = b[n].file /\ a[n].line = b[n].line

\* Sorted lists with the same findings look the same.
LEMMA SortedLook ==
  ASSUME NEW a \in Seq(Finding), NEW b \in Seq(Finding), Distinct(a), Distinct(b), Alike(a, b),
         Orderly(a), Orderly(b)
  PROVE  Looks(a, b)
<1>1. Alike(b, a)
  BY DEF Alike
<1>2. Len(a) <= Len(b) /\ Len(b) <= Len(a)
  BY <1>1, AlikeLength
<1>3. DOMAIN a = DOMAIN b
  BY <1>2, LenProperties
<1>4. ASSUME NEW n \in DOMAIN a
      PROVE  a[n].severity = b[n].severity /\ a[n].file = b[n].file /\ a[n].line = b[n].line
  <2>1. ~ Ahead(a[n], b[n]) /\ ~ Ahead(b[n], a[n])
    BY <1>1, <1>3, NoneAhead
  <2>2. /\ a[n].file \in Nat /\ a[n].line \in Nat
        /\ a[n].severity \in Severities /\ Rank(a[n].severity) \in Nat
        /\ b[n].file \in Nat /\ b[n].line \in Nat
        /\ b[n].severity \in Severities /\ Rank(b[n].severity) \in Nat
    BY <1>3, ElementTypes
  <2>3. Rank(a[n].severity) = Rank(b[n].severity) => a[n].severity = b[n].severity
    BY <2>2, RankType
  <2>4. Rank(a[n].severity) <= Rank(b[n].severity) /\ Rank(b[n].severity) <= Rank(a[n].severity)
    BY <2>1, <2>2 DEF Ahead
  <2>5. a[n].severity = b[n].severity
    BY <2>2, <2>3, <2>4
  <2>6. /\ ~ (a[n].file < b[n].file) /\ ~ (a[n].file = b[n].file /\ a[n].line < b[n].line)
        /\ ~ (b[n].file < a[n].file) /\ ~ (b[n].file = a[n].file /\ b[n].line < a[n].line)
    BY <2>1, <2>2, <2>5 DEF Ahead
  <2> QED
    BY <2>2, <2>5, <2>6
<1> QED
  BY <1>3, <1>4 DEF Looks

\* Selecting the same places keeps that.
LEMMA PickLook ==
  ASSUME NEW a \in Seq(Finding), NEW b \in Seq(Finding), Looks(a, b),
         NEW D, D \subseteq DOMAIN a
  PROVE  Looks(Pick(a, D), Pick(b, D))
<1> DEFINE before == [i \in D |-> {j \in D : j < i}]
<1> DEFINE p == Places(before)
<1>1. D \subseteq Nat /\ IsFiniteSet(D)
  <2>1. DOMAIN a \subseteq Nat /\ IsFiniteSet(DOMAIN a) /\ D \in SUBSET (DOMAIN a)
    BY LenProperties, Segment
  <2> QED
    BY <2>1, FS_Subset
<1>2. Ranks(before)
  BY <1>1, LessRanks
<1>3. Pick(a, D) = Arranged(a, before) /\ Pick(b, D) = Arranged(b, before) /\ DOMAIN before = D
  BY DEF Pick
<1> HIDE DEF before
<1>4. Picks(Pick(a, D), a, D, p) /\ Picks(Pick(b, D), b, D, p)
  BY <1>2, <1>3, PlacesPick
<1> HIDE DEF p
<1>5. /\ DOMAIN Pick(a, D) = 1 .. Cardinality(D) /\ DOMAIN Pick(b, D) = 1 .. Cardinality(D)
      /\ \A n \in 1 .. Cardinality(D) :
           p[n] \in D /\ Pick(a, D)[n] = a[p[n]] /\ Pick(b, D)[n] = b[p[n]]
  BY <1>4 DEF Picks
<1>6. ASSUME NEW n \in 1 .. Cardinality(D)
      PROVE  /\ Pick(a, D)[n].severity = Pick(b, D)[n].severity
             /\ Pick(a, D)[n].file = Pick(b, D)[n].file
             /\ Pick(a, D)[n].line = Pick(b, D)[n].line
  <2>1. p[n] \in DOMAIN a
    BY <1>5
  <2> QED
    BY <1>5, <2>1 DEF Looks
<1> QED
  BY <1>5, <1>6 DEF Looks

\* And the caps select by what is seen.
LEMMA CapsLook ==
  ASSUME NEW a \in Seq(Finding), NEW b \in Seq(Finding), Looks(a, b)
  PROVE  Looks(Cut(FirstOfFile(AllWanted(a))), Cut(FirstOfFile(AllWanted(b))))
<1> DEFINE W(fs) == {i \in DOMAIN fs : Wanted(fs[i])}
<1> DEFINE wa == AllWanted(a)
<1> DEFINE wb == AllWanted(b)
<1>1. wa = Pick(a, W(a)) /\ wb = Pick(b, W(b)) /\ W(a) \subseteq DOMAIN a /\ W(b) \subseteq DOMAIN b
  BY DEF AllWanted
<1>2. W(a) = W(b)
  BY DEF Looks, Wanted
<1> HIDE DEF W, wa, wb
<1>3. wa \in Seq(Finding) /\ wb \in Seq(Finding)
  BY <1>1, PickSelects DEF Selects
<1>4. Looks(wa, wb)
  BY <1>1, <1>2, PickLook
<1> DEFINE C(fs) == {i \in DOMAIN fs : ~ FileFull(Cardinality({j \in 1 .. i - 1 : fs[j].file = fs[i].file}))}
<1> DEFINE qa == FirstOfFile(wa)
<1> DEFINE qb == FirstOfFile(wb)
<1>5. qa = Pick(wa, C(wa)) /\ qb = Pick(wb, C(wb)) /\ C(wa) \subseteq DOMAIN wa /\ C(wb) \subseteq DOMAIN wb
  BY DEF FirstOfFile
<1>6. C(wa) = C(wb)
  <2>1. DOMAIN wa = DOMAIN wb /\ \A n \in DOMAIN wa : wa[n].file = wb[n].file
    BY <1>4 DEF Looks
  <2>2. ASSUME NEW i \in DOMAIN wa
        PROVE  {j \in 1 .. i - 1 : wa[j].file = wa[i].file} = {j \in 1 .. i - 1 : wb[j].file = wb[i].file}
    <3>1. \A j \in 1 .. i - 1 : j \in DOMAIN wa
      BY <1>3, LenProperties
    <3> QED
      BY <2>1, <3>1
  <2> QED
    BY <2>1, <2>2
<1> HIDE DEF C, qa, qb
<1>7. qa \in Seq(Finding) /\ qb \in Seq(Finding)
  BY <1>3, <1>5, PickSelects DEF Selects
<1>8. Looks(qa, qb)
  BY <1>3, <1>4, <1>5, <1>6, PickLook
<1>9. /\ Cut(qa) \in Seq(Finding) /\ Cut(qb) \in Seq(Finding)
      /\ DOMAIN Cut(qa) \subseteq DOMAIN qa /\ \A n \in DOMAIN Cut(qa) : Cut(qa)[n] = qa[n]
      /\ \A n \in DOMAIN Cut(qb) : Cut(qb)[n] = qb[n]
      /\ Len(Cut(qa)) = IF MaxFindings > 0 /\ Len(qa) > MaxFindings THEN MaxFindings ELSE Len(qa)
      /\ Len(Cut(qb)) = IF MaxFindings > 0 /\ Len(qb) > MaxFindings THEN MaxFindings ELSE Len(qb)
  BY <1>7, CutKeeps
<1>10. Len(qa) = Len(qb)
  <2>1. DOMAIN qa = DOMAIN qb
    BY <1>8 DEF Looks
  <2>2. Len(qa) \in Nat /\ DOMAIN qa = 1 .. Len(qa) /\ Len(qb) \in Nat /\ DOMAIN qb = 1 .. Len(qb)
    BY <1>7, LenProperties
  <2> DEFINE m == Len(qa)
  <2> DEFINE n == Len(qb)
  <2>3. m \in Nat /\ n \in Nat /\ 1 .. m = 1 .. n
    BY <2>1, <2>2
  <2> HIDE DEF m, n
  <2>4. m = n
    BY <2>3
  <2> QED
    BY <2>4 DEF m, n
<1>11. DOMAIN Cut(qa) = DOMAIN Cut(qb)
  BY <1>9, <1>10, LenProperties
<1>12. Looks(Cut(qa), Cut(qb))
  BY <1>8, <1>9, <1>11 DEF Looks
<1> QED
  BY <1>12 DEF qa, qb, wa, wb

\* The same reports in any order give reviews that look the same.
LEMMA KeptLook ==
  ASSUME NEW a \in Seq(Finding), NEW b \in Seq(Finding), Alike(a, b), NEW keys
  PROVE  Shape(Kept(a, keys)) = Shape(Kept(b, keys))
<1> DEFINE sa == Sorted(Valid(Deduped(a), keys))
<1> DEFINE sb == Sorted(Valid(Deduped(b), keys))
<1>1. /\ sa \in Seq(Finding) /\ Distinct(sa) /\ Orderly(sa)
      /\ \A x : Has(sa, x) <=> Has(Deduped(a), x) /\ Anchored(x) /\ Key(x) \notin keys
  BY ArrangedHas
<1>2. /\ sb \in Seq(Finding) /\ Distinct(sb) /\ Orderly(sb)
      /\ \A x : Has(sb, x) <=> Has(Deduped(b), x) /\ Anchored(x) /\ Key(x) \notin keys
  BY ArrangedHas
<1>3. Kept(a, keys) = Cut(FirstOfFile(AllWanted(sa))) /\ Kept(b, keys) = Cut(FirstOfFile(AllWanted(sb)))
  BY DEF Kept, Capped
<1>4. Alike(Deduped(a), Deduped(b))
  BY DedupedAlike
<1> HIDE DEF sa, sb
<1>5. Alike(sa, sb)
  BY <1>1, <1>2, <1>4 DEF Alike
<1>6. Looks(sa, sb)
  BY <1>1, <1>2, <1>5, SortedLook
<1>7. Looks(Kept(a, keys), Kept(b, keys))
  BY <1>1, <1>2, <1>3, <1>6, CapsLook
<1> QED
  BY <1>7 DEF Looks, Shape

-----------------------------------------------------------------------------
(* The merge *)

\* A concatenation has what either has.
LEMMA ConcatHas ==
  ASSUME NEW a \in Seq(Finding), NEW b \in Seq(Finding), NEW x
  PROVE  Has(a \o b, x) <=> Has(a, x) \/ Has(b, x)
<1> DEFINE c == a \o b
<1>1. /\ Len(c) = Len(a) + Len(b) /\ c \in Seq(Finding)
      /\ \A i \in 1 .. Len(a) : c[i] = a[i]
      /\ \A i \in 1 .. Len(b) : c[i + Len(a)] = b[i]
  <2>1. /\ c \in Seq(Finding) /\ Len(c) = Len(a) + Len(b)
        /\ \A i \in 1 .. Len(a) + Len(b) : c[i] = IF i <= Len(a) THEN a[i] ELSE b[i - Len(a)]
    BY ConcatProperties
  <2>2. Len(a) \in Nat /\ Len(b) \in Nat
    BY LenProperties
  <2> HIDE DEF c
  <2>3. ASSUME NEW i \in 1 .. Len(a) PROVE c[i] = a[i]
    BY <2>1, <2>2
  <2>4. ASSUME NEW i \in 1 .. Len(b) PROVE c[i + Len(a)] = b[i]
    <3>1. i + Len(a) \in 1 .. Len(a) + Len(b) /\ ~ (i + Len(a) <= Len(a)) /\ i + Len(a) - Len(a) = i
      BY <2>2
    <3> QED
      BY <2>1, <3>1
  <2> QED
    BY <2>1, <2>3, <2>4
<1>2. /\ DOMAIN a = 1 .. Len(a) /\ Len(a) \in Nat /\ DOMAIN b = 1 .. Len(b) /\ Len(b) \in Nat
      /\ DOMAIN c = 1 .. Len(a) + Len(b)
  BY <1>1, LenProperties
<1> HIDE DEF c
<1>3. ASSUME Has(c, x) PROVE Has(a, x) \/ Has(b, x)
  <2>1. PICK n \in DOMAIN c : c[n] = x
    BY <1>3 DEF Has
  <2>2. CASE n <= Len(a)
    <3>1. n \in 1 .. Len(a)
      BY <1>2, <2>2
    <3> QED
      BY <1>1, <1>2, <2>1, <3>1 DEF Has
  <2>3. CASE n > Len(a)
    <3>1. n - Len(a) \in 1 .. Len(b) /\ (n - Len(a)) + Len(a) = n
      BY <1>2, <2>3
    <3>2. b[n - Len(a)] = x
      BY <1>1, <2>1, <3>1
    <3> QED
      BY <1>2, <3>1, <3>2 DEF Has
  <2> QED
    BY <1>2, <2>2, <2>3
<1>4. ASSUME Has(a, x) PROVE Has(c, x)
  <2>1. PICK n \in DOMAIN a : a[n] = x
    BY <1>4 DEF Has
  <2>2. n \in DOMAIN c /\ c[n] = x
    BY <1>1, <1>2, <2>1
  <2> QED
    BY <2>2 DEF Has
<1>5. ASSUME Has(b, x) PROVE Has(c, x)
  <2>1. PICK n \in DOMAIN b : b[n] = x
    BY <1>5 DEF Has
  <2>2. n + Len(a) \in DOMAIN c /\ c[n + Len(a)] = x
    BY <1>1, <1>2, <2>1
  <2> QED
    BY <2>2 DEF Has
<1> QED
  BY <1>3, <1>4, <1>5 DEF c

\* What sequences flatten to has what one of them has.
LEMMA FlattenHas ==
  ASSUME NEW s \in Seq(Seq(Finding)), NEW x
  PROVE  Has(FlattenSeq(s), x) <=> \E m \in DOMAIN s : Has(s[m], x)
<1>1. CASE s = << >>
  <2>1. FlattenSeq(s) = << >> /\ DOMAIN s = {}
    BY <1>1 DEF FlattenSeq
  <2>2. ~ Has(<< >>, x)
    BY DEF Has
  <2> QED
    BY <2>1, <2>2
<1>2. CASE s # << >>
  <2>1. PICK f : Flattens(f, s, Len(s)) /\ FlattenSeq(s) = f[Len(s)]
    BY <1>2, FlattenDef
  <2>2. Len(s) \in Nat \ {0} /\ DOMAIN s = 1 .. Len(s)
    BY <1>2, EmptySeq, LenProperties
  <2> DEFINE Some(i) == \E m \in 1 .. i : Has(s[m], x)
  <2> DEFINE T == {i \in 1 .. Len(s) : ~ (f[i] \in Seq(Finding) /\ (Has(f[i], x) <=> Some(i)))}
  <2>3. ASSUME T # {} PROVE FALSE
    <3>0. T \subseteq Nat
      OBVIOUS
    <3>1. PICK i \in T : \A y \in T : i <= y
      <4> HIDE DEF T
      <4> QED
        BY <2>3, <3>0, LeastExists
    <3>2. i \in 1 .. Len(s) /\ i \in Nat
      BY <2>2
    <3>3. f[i] = IF i = 1 THEN s[i] ELSE f[i - 1] \o s[i]
      BY <2>1, <3>2 DEF Flattens
    <3>4. s[i] \in Seq(Finding)
      BY <3>2, ElementOfSeq
    <3>5. CASE i = 1
      <4>1. Some(i) <=> Has(s[i], x)
        <5>1. \A m \in 1 .. i : m = i
          BY <3>5
        <5>2. i \in 1 .. i
          BY <3>5
        <5> QED
          BY <5>1, <5>2
      <4>2. f[i] \in Seq(Finding) /\ (Has(f[i], x) <=> Some(i))
        <5> HIDE DEF Some
        <5> QED
          BY <3>3, <3>4, <3>5, <4>1
      <4> QED
        BY <4>2
    <3>6. CASE i # 1
      <4>1. i - 1 \in 1 .. Len(s) /\ i - 1 \notin T
        <5>1. i - 1 \in 1 .. Len(s) /\ ~ (i <= i - 1)
          BY <3>2, <3>6
        <5> HIDE DEF T
        <5> QED
          BY <3>1, <5>1
      <4>2. f[i - 1] \in Seq(Finding) /\ (Has(f[i - 1], x) <=> Some(i - 1))
        BY <4>1
      <4>3. f[i] = f[i - 1] \o s[i]
        BY <3>3, <3>6
      <4>4. f[i] \in Seq(Finding)
        BY <3>4, <4>2, <4>3, ConcatProperties
      <4>5. Has(f[i], x) <=> Has(f[i - 1], x) \/ Has(s[i], x)
        BY <3>4, <4>2, <4>3, ConcatHas
      <4>6. Some(i) <=> Some(i - 1) \/ Has(s[i], x)
        <5>1. \A m \in 1 .. i : m \in 1 .. i - 1 \/ m = i
          BY <3>2
        <5>2. \A m \in 1 .. i - 1 : m \in 1 .. i
          BY <3>2
        <5>3. i \in 1 .. i
          BY <3>2
        <5> QED
          BY <5>1, <5>2, <5>3
      <4>7. f[i] \in Seq(Finding) /\ (Has(f[i], x) <=> Some(i))
        <5> HIDE DEF Some
        <5> QED
          BY <4>2, <4>4, <4>5, <4>6
      <4> QED
        BY <4>7
    <3> QED
      BY <3>5, <3>6
  <2>4. Has(f[Len(s)], x) <=> Some(Len(s))
    <3>1. Len(s) \in 1 .. Len(s)
      BY <2>2
    <3>2. Len(s) \notin T
      BY <2>3
    <3> QED
      BY <3>1, <3>2
  <2> QED
    BY <2>1, <2>2, <2>4
<1> QED
  BY <1>1, <1>2

\* Ways to line a finite set up: what SetToSeqs lists, and SetToSeq is one of.
LEMMA SomeOrder ==
  ASSUME NEW S, IsFiniteSet(S)
  PROVE  SetToSeq(S) \in SetToSeqs(S)
<1>1. \E f \in [1 .. Cardinality(S) -> S] : IsInjective(f)
  <2>1. Cardinality(S) \in Nat /\ \E f : f \in Bijection(1 .. Cardinality(S), S)
    BY FS_CardinalityType DEF ExistsBijection
  <2>2. PICK f : f \in Bijection(1 .. Cardinality(S), S)
    BY <2>1
  <2>3. f \in [1 .. Cardinality(S) -> S] /\ IsInjective(f)
    BY <2>2 DEF Bijection, Injection, IsInjective
  <2> QED
    BY <2>3
<1>2. SetToSeq(S) \in [1 .. Cardinality(S) -> S] /\ IsInjective(SetToSeq(S))
  BY <1>1, Zenon DEF SetToSeq
<1>3. \A m, n \in 1 .. Cardinality(S) : m # n => SetToSeq(S)[m] # SetToSeq(S)[n]
  BY <1>2 DEF IsInjective
<1> QED
  BY <1>2, <1>3, Zenon DEF SetToSeqs

\* Every element has its place in each of them.
LEMMA OrderOnto ==
  ASSUME NEW S, IsFiniteSet(S), NEW o \in SetToSeqs(S)
  PROVE  /\ Cardinality(S) \in Nat /\ o \in [1 .. Cardinality(S) -> S]
         /\ \A t \in S : \E n \in 1 .. Cardinality(S) : o[n] = t
<1>1. /\ o \in [1 .. Cardinality(S) -> S]
      /\ \A m, n \in 1 .. Cardinality(S) : m # n => o[m] # o[n]
  BY Zenon DEF SetToSeqs
<1>2. Cardinality(S) \in Nat
  BY FS_CardinalityType
<1>3. o \in Injection(1 .. Cardinality(S), S)
  <2>1. \A m, n \in 1 .. Cardinality(S) : o[m] = o[n] => m = n
    BY <1>1
  <2> QED
    BY <1>1, <2>1, Fun_IsInj
<1>4. IsFiniteSet(1 .. Cardinality(S)) /\ Cardinality(1 .. Cardinality(S)) = Cardinality(S)
  BY <1>2, Segment
<1>5. o \in Surjection(1 .. Cardinality(S), S)
  BY <1>3, <1>4, FS_Injection
<1> QED
  BY <1>1, <1>2, <1>5 DEF Surjection

\* In whatever order the goroutines end, the same is merged.
LEMMA InOrderHas ==
  ASSUME Types, IsFiniteSet(With("ok")), NEW o \in SetToSeqs(With("ok"))
  PROVE  /\ InOrder(o) \in Seq(Finding)
         /\ \A x : Has(InOrder(o), x) <=> \E t \in With("ok") : Has(task[t].found, x)
<1> DEFINE k == Cardinality(With("ok"))
<1> DEFINE s == [n \in DOMAIN o |-> task[o[n]].found]
<1>1. /\ k \in Nat /\ o \in [1 .. k -> With("ok")]
      /\ \A t \in With("ok") : \E n \in 1 .. k : o[n] = t
  BY OrderOnto
<1>2. \A t \in With("ok") : task[t].found \in Seq(Finding)
  <2>1. \A t \in Tasks : task[t].found \in Answers \cup {<< >>}
    BY DEF Types, Task
  <2>2. Answers \subseteq Seq(Finding) /\ << >> \in Seq(Finding)
    <3>1. Answers \cup Compiled \subseteq Seq(Finding)
      BY AgentReviewAssumption
    <3> QED
      BY <3>1
  <2>3. With("ok") \subseteq Tasks
    BY DEF With
  <2> QED
    BY <2>1, <2>2, <2>3
<1> HIDE DEF k
<1>3. /\ DOMAIN s = 1 .. k
      /\ \A n \in 1 .. k : s[n] = task[o[n]].found
  BY <1>1
<1>4. s \in Seq(Seq(Finding))
  <2>1. \A n \in 1 .. k : task[o[n]].found \in Seq(Finding)
    BY <1>1, <1>2
  <2>2. s \in [1 .. k -> Seq(Finding)]
    BY <1>1, <2>1
  <2> QED
    BY <1>1, <2>2, SeqDef
<1>5. InOrder(o) = FlattenSeq(s)
  BY DEF InOrder
<1> HIDE DEF s
<1>6. InOrder(o) \in Seq(Finding)
  BY <1>4, <1>5, FlattenType
<1>7. ASSUME NEW x
      PROVE  Has(InOrder(o), x) <=> \E t \in With("ok") : Has(task[t].found, x)
  <2>1. Has(InOrder(o), x) <=> \E n \in DOMAIN s : Has(s[n], x)
    BY <1>4, <1>5, FlattenHas
  <2>2. (\E n \in 1 .. k : Has(s[n], x)) <=> \E t \in With("ok") : Has(task[t].found, x)
    BY <1>1, <1>3
  <2> QED
    BY <1>3, <2>1, <2>2
<1> QED
  BY <1>6, <1>7

\* There are finitely many goroutines.
LEMMA TasksFinite ==
  ASSUME Types, TasksKnown
  PROVE  IsFiniteSet(Tasks)
<1>1. CASE stage = "chunk"
  BY <1>1, FS_EmptySet DEF TasksKnown
<1>2. CASE stage # "chunk"
  <2> DEFINE A == IF agents = {} THEN {"general"} ELSE agents
  <2>1. IsFiniteSet(A)
    <3>1. IsFiniteSet({"general"})
      BY FS_Singleton
    <3> QED
      BY <3>1, AgentReviewAssumption DEF Types
  <2>2. IsFiniteSet(DOMAIN chunks)
    BY LenProperties, Segment DEF Types
  <2>3. Tasks = A \X DOMAIN chunks
    BY <1>2 DEF TasksKnown, TasksOver
  <2> HIDE DEF A
  <2> QED
    BY <2>1, <2>2, <2>3, FS_Product
<1> QED
  BY <1>1, <1>2

-----------------------------------------------------------------------------
(* The inductive invariant *)

\* The initial states satisfy it.
LEMMA InitIInv == Init => IInv
<1> SUFFICES ASSUME Init PROVE IInv
  OBVIOUS
<1>1. /\ stage = "chunk" /\ live = TRUE /\ agents \in {{}, Specialists}
      /\ next = 1 /\ cur = << >> /\ curLines = 0 /\ chunks = << >> /\ task = << >>
  BY DEF Init
<1>2. change \in Seq(ChangedFile)
  <2>1. changed \in Changes /\ \E l \in Listings(changed) : change = ByAdditions(Reviewable(l))
    BY DEF Init
  <2> QED
    BY <2>1, ListedPlaces
<1>3. Tasks = {}
  BY <1>1 DEF Tasks
<1>4. Types
  <2>1. 1 \in 1 .. Len(change) + 1
    BY <1>2, LenProperties
  <2>2. task \in [Tasks -> Task]
    BY <1>1, <1>3
  <2> QED
    BY <1>1, <1>2, <2>1, <2>2 DEF Types
<1>5. ChunksFit
  <2>1. Lines(<< >>) = 0
    <3>1. << >> \in Seq(ChangedFile)
      OBVIOUS
    <3> QED
      BY <3>1, LinesType
  <2>2. 0 <= MaxLines
    BY AgentReviewAssumption
  <2>3. DOMAIN << >> = {}
    OBVIOUS
  <2> QED
    BY <1>1, <2>1, <2>2, <2>3 DEF ChunksFit
<1>6. ChunksHold
  <2>1. FlattenSeq(<< >>) = << >>
    BY DEF FlattenSeq
  <2>2. SubSeq(change, 1, 1 - 1) = << >>
    BY <1>2, SubSeqEmpty
  <2>3. << >> \o << >> = << >>
    OBVIOUS
  <2> QED
    BY <1>1, <2>1, <2>2, <2>3 DEF ChunksHold
<1>7. TasksKnown /\ DroppedLate
  BY <1>1, <1>3 DEF TasksKnown, DroppedLate, With
<1>8. SlotsRespected
  <2>1. Holding = {}
    BY <1>3 DEF Holding, With
  <2> QED
    BY <2>1, FS_EmptySet, AgentReviewAssumption DEF SlotsRespected, Slots
<1>9. Listed /\ Collected /\ Shown
  <2>1. merged = << >> /\ << >> \in Seq(Finding)
    BY DEF Init
  <2> QED
    BY <1>1, <2>1 DEF Init, Listed, Collected, Shown
<1> QED
  BY <1>4, <1>5, <1>6, <1>7, <1>8, <1>9 DEF IInv

\* The goroutines are started for the finished chunks.
LEMMA SpawnKeeps ==
  ASSUME IInv, Spawn
  PROVE  IInv'
<1>1. /\ stage = "chunk" /\ stage' = "review" /\ chunks' = Flushed
      /\ task' = [t \in TasksOver(chunks') |-> [pc |-> "waiting", found |-> << >>]]
      /\ UNCHANGED <<live, agents, changed, change, next, cur, curLines>>
      /\ next > Len(change) /\ next \in 1 .. Len(change) + 1 /\ Len(change) \in Nat
      /\ change \in Seq(ChangedFile)
  <2>1. Len(change) \in Nat
    BY LenProperties DEF IInv, Types
  <2> QED
    BY <2>1 DEF Spawn, IInv, Types
<1>2. /\ Flushed \in Seq(Seq(ChangedFile))
      /\ \A n \in DOMAIN Flushed : Fits(Flushed[n])
      /\ FlattenSeq(Flushed) = FlattenSeq(chunks) \o cur
  BY FlushedHolds DEF IInv
<1>3. /\ Tasks' = TasksOver(chunks') /\ TasksOver(chunks)' = TasksOver(chunks')
      /\ task' \in [Tasks' -> Task]
      /\ \A t \in Tasks' : task'[t].pc = "waiting"
  BY <1>1 DEF Tasks, TasksOver, Task, PCs
<1>4. Types'
  BY <1>1, <1>2, <1>3 DEF IInv, Types
<1>5. ChunksFit'
  BY <1>1, <1>2 DEF IInv, ChunksFit
<1>6. ChunksHold'
  <2>1. next - 1 = Len(change)
    BY <1>1
  <2>2. FlattenSeq(Flushed) = SubSeq(change, 1, Len(change))
    BY <1>1, <1>2, <2>1 DEF IInv, ChunksHold
  <2>3. FlattenSeq(Flushed) = change
    BY <1>1, <2>2, SubSeqFull
  <2> QED
    BY <1>1, <2>3 DEF ChunksHold
<1>7. TasksKnown'
  BY <1>1, <1>3 DEF TasksKnown
<1>8. With("dropped")' = {} /\ Holding' = {}
  BY <1>3 DEF With, Holding
<1>9. DroppedLate'
  BY <1>1, <1>8 DEF DroppedLate
<1>10. SlotsRespected'
  <2>1. Slots' \in Nat
    BY AgentReviewAssumption DEF Slots
  <2> QED
    BY <1>8, <2>1, FS_EmptySet DEF SlotsRespected
<1>11. Listed' /\ Collected' /\ Shown'
  <2>1. UNCHANGED <<compiled, merged>>
    BY DEF Spawn, merging
  <2> QED
    BY <1>1, <2>1 DEF IInv, Listed, Collected, Shown
<1> QED
  BY <1>4, <1>5, <1>6, <1>7, <1>9, <1>10, <1>11 DEF IInv

\* Goroutines leave the chunks alone.
LEMMA MovesKeep ==
  ASSUME IInv, NEW t, NEW r, Moves(t, r)
  PROVE  IInv'
<1>1. TasksKnown' /\ stage = "review"
  BY MovesKnown DEF IInv
<1>2. Types'
  BY MovesOne DEF IInv, Types, Moves, chunking
<1>3. ChunksFit' /\ ChunksHold' /\ Listed'
  BY DEF IInv, ChunksFit, ChunksHold, Listed, Moves, chunking
<1>4. DroppedLate' /\ SlotsRespected'
  BY MovesDropLate, MovesWithinSlots DEF IInv
<1>5. Collected' /\ Shown'
  <2>1. stage' = "review" /\ merged' = merged
    BY <1>1 DEF Moves, merging
  <2> QED
    BY <1>1, <2>1 DEF IInv, Collected, Shown
<1> QED
  BY <1>1, <1>2, <1>3, <1>4, <1>5 DEF IInv

\* The steps after the goroutines, and the end of the context: what they leave alone.
LEMMA LaterKeeps ==
  ASSUME IInv, UNCHANGED <<agents, chunking, task>>,
         stage # "chunk", stage' \in {"review", "finish", "complete", "done", "failed", "error"},
         stage' # "review" => Returned,
         live' = live \/ (live' = FALSE /\ stage' # "done"),
         stage' = "done" => live,
         Collected', Shown'
  PROVE  IInv'
<1>1. /\ Tasks' = Tasks /\ \A pc : With(pc)' = With(pc)
      /\ Holding' = Holding /\ Slots' = Slots
      /\ TasksOver(chunks)' = TasksOver(chunks)
  BY DEF Tasks, With, Holding, Slots, TasksOver, chunking
<1>2. Returned' = Returned
  BY <1>1 DEF Returned
<1>3. Types'
  BY <1>1 DEF IInv, Types, chunking
<1>4. ChunksFit' /\ ChunksHold' /\ Listed'
  BY DEF IInv, ChunksFit, ChunksHold, Listed, chunking
<1>5. TasksKnown'
  BY <1>1, <1>2 DEF IInv, TasksKnown
<1>6. DroppedLate' /\ SlotsRespected'
  BY <1>1 DEF IInv, DroppedLate, SlotsRespected
<1> QED
  BY <1>3, <1>4, <1>5, <1>6 DEF IInv

\* What is collected are the results in some order, none in particular if there are none.
LEMMA ResultsCollected ==
  ASSUME IInv, NoResult \/ Merge \/ Compile
  PROVE  Collected' /\ Shown'
<1>1. /\ UNCHANGED task /\ stage = "review" /\ stage' \in {"failed", "finish"}
  BY DEF NoResult, Merge, Compile
<1>2. Shown'
  BY <1>1 DEF Shown
<1>3. /\ With("ok")' = With("ok") /\ Merges' = Merges
      /\ merged = << >> /\ << >> \in Seq(Finding)
  BY <1>1 DEF With, Tasks, Merges, InOrder, IInv, Collected
<1>4. IsFiniteSet(With("ok"))
  <2>1. IsFiniteSet(Tasks) /\ With("ok") \in SUBSET Tasks
    BY TasksFinite DEF IInv, With
  <2> QED
    BY <2>1, FS_Subset
<1>5. CASE NoResult
  <2>1. merged' = << >> /\ With("ok") = {}
    BY <1>3, <1>5 DEF NoResult, merging
  <2>2. << >> \in Merges
    <3> DEFINE o == SetToSeq(With("ok"))
    <3>1. o \in SetToSeqs(With("ok"))
      BY <1>4, SomeOrder
    <3> HIDE DEF o
    <3>2. Cardinality(With("ok")) = 0 /\ o \in [1 .. Cardinality(With("ok")) -> With("ok")]
      BY <1>4, <2>1, <3>1, OrderOnto, FS_EmptySet
    <3>3. [n \in DOMAIN o |-> task[o[n]].found] = << >>
      BY <3>2
    <3>4. InOrder(o) = << >>
      BY <3>3 DEF InOrder, FlattenSeq
    <3> QED
      BY <3>1, <3>4 DEF Merges
  <2> QED
    BY <1>1, <1>2, <1>3, <2>1, <2>2 DEF Collected
<1>6. CASE Merge
  <2>1. merged' \in Merges
    BY <1>6 DEF Merge
  <2>2. merged' \in Seq(Finding)
    <3>1. PICK o \in SetToSeqs(With("ok")) : merged' = InOrder(o)
      BY <2>1 DEF Merges
    <3> QED
      BY <1>4, <3>1, InOrderHas DEF IInv
  <2> QED
    BY <1>1, <1>2, <1>3, <2>1, <2>2 DEF Collected
<1>7. CASE Compile
  <2>1. compiled' = TRUE /\ merged' \in Compiled
    BY <1>7 DEF Compile
  <2>2. merged' \in Seq(Finding)
    <3>1. Answers \cup Compiled \subseteq Seq(Finding)
      BY AgentReviewAssumption
    <3> QED
      BY <2>1, <3>1
  <2> QED
    BY <1>1, <1>2, <2>1, <2>2 DEF Collected
<1> QED
  BY <1>5, <1>6, <1>7

\* No step breaks it.
LEMMA NextIInv == IInv /\ [Next]_vars => IInv'
<1> SUFFICES ASSUME IInv, [Next]_vars PROVE IInv'
  OBVIOUS
<1>1. CASE NextFile
  <2>1. /\ next' \in 1 .. Len(change') + 1 /\ change' \in Seq(ChangedFile)
        /\ cur' \in Seq(ChangedFile) /\ curLines' \in Nat
        /\ chunks' \in Seq(Seq(ChangedFile))
        /\ ChunksFit' /\ ChunksHold'
    BY <1>1, NextFileKeeps DEF IInv
  <2>2. UNCHANGED <<stage, live, agents, task>> /\ stage = "chunk"
    BY <1>1 DEF NextFile
  <2>3. Tasks' = Tasks /\ Holding' = Holding /\ Slots' = Slots /\ With("dropped")' = With("dropped")
    BY <2>2 DEF Tasks, Holding, With, Slots
  <2>4. Types'
    BY <2>1, <2>2, <2>3 DEF IInv, Types
  <2>5. TasksKnown' /\ DroppedLate' /\ SlotsRespected' /\ Listed'
    BY <1>1, <2>2, <2>3 DEF IInv, TasksKnown, DroppedLate, SlotsRespected, Listed, NextFile
  <2>6. Collected' /\ Shown'
    <3>1. merged' = merged
      BY <1>1 DEF NextFile, merging
    <3> QED
      BY <2>2, <3>1 DEF IInv, Collected, Shown
  <2> QED
    BY <2>1, <2>4, <2>5, <2>6 DEF IInv
<1>2. CASE Spawn
  BY <1>2, SpawnKeeps
<1>3. CASE Reviews
  <2>1. PICK t \in Tasks : TaskStep(t)
    BY <1>3 DEF Reviews
  <2>2. PICK r : Moves(t, r)
    BY <2>1, TaskMoves DEF IInv
  <2> QED
    BY <2>2, MovesKeep
<1>4. CASE NoResult \/ Merge \/ Compile
  <2>1. /\ UNCHANGED <<live, agents, chunking, task>> /\ stage = "review" /\ Returned
        /\ stage' \in {"failed", "finish"}
    BY <1>4 DEF NoResult, Merge, Compile
  <2>2. Collected' /\ Shown'
    BY <1>4, ResultsCollected
  <2> QED
    BY <2>1, <2>2, LaterKeeps
<1>5. CASE Finish \/ CompleteRun
  <2>1. /\ UNCHANGED <<live, agents, chunking, task>> /\ stage \in {"finish", "complete"}
        /\ stage' \in {"complete", "done", "error"}
        /\ stage' = "done" => live
    BY <1>5 DEF Finish, CompleteRun, MayComplete
  <2>2. Returned /\ stage # "chunk"
    BY <2>1 DEF IInv, TasksKnown
  <2>3. stage' \in {"review", "finish", "complete", "done", "failed", "error"}
    BY <2>1
  <2>4. Merges' = Merges /\ UNCHANGED <<compiled, merged>>
    BY <1>5, <2>1 DEF Merges, InOrder, With, Tasks, Finish, CompleteRun, merging
  <2>5. Collected'
    BY <2>1, <2>4 DEF IInv, Collected
  <2>6. Shown'
    <3>1. CASE Finish
      BY <3>1 DEF Finish, Shown
    <3>2. CASE CompleteRun
      BY <3>2 DEF CompleteRun, merging, IInv, Shown
    <3> QED
      BY <1>5, <3>1, <3>2
  <2> QED
    BY <2>1, <2>2, <2>3, <2>5, <2>6, LaterKeeps
<1>6. CASE Expire
  <2>1. /\ UNCHANGED <<stage, agents, chunking, task>> /\ live' = FALSE
        /\ stage \in {"review", "finish", "complete"}
    BY <1>6 DEF Expire
  <2>2. stage # "review" => Returned
    BY <2>1 DEF IInv, TasksKnown
  <2>3. Merges' = Merges /\ UNCHANGED <<compiled, merged, muted, final>>
    BY <1>6, <2>1 DEF Merges, InOrder, With, Tasks, Expire, merging
  <2>4. Collected' /\ Shown'
    BY <2>1, <2>3 DEF IInv, Collected, Shown
  <2> QED
    BY <2>1, <2>2, <2>4, LaterKeeps
<1>7. CASE UNCHANGED vars
  <2>1. UNCHANGED <<stage, live, agents, chunking, task>>
    BY <1>7 DEF vars
  <2>2. Tasks' = Tasks /\ Holding' = Holding /\ Slots' = Slots /\ With("dropped")' = With("dropped")
        /\ Returned' = Returned /\ TasksOver(chunks)' = TasksOver(chunks)
    BY <2>1 DEF Tasks, Holding, With, Slots, Returned, TasksOver, chunking
  <2>3. Types' /\ ChunksFit' /\ ChunksHold' /\ Listed'
    BY <2>1, <2>2 DEF IInv, Types, ChunksFit, ChunksHold, Listed, chunking
  <2>4. TasksKnown' /\ DroppedLate' /\ SlotsRespected'
    BY <2>1, <2>2 DEF IInv, TasksKnown, DroppedLate, SlotsRespected
  <2>5. Merges' = Merges /\ UNCHANGED <<compiled, merged, muted, final>>
    BY <1>7, <2>1 DEF Merges, InOrder, With, Tasks, vars, merging
  <2>6. Collected' /\ Shown'
    BY <2>1, <2>5 DEF IInv, Collected, Shown
  <2> QED
    BY <2>3, <2>4, <2>6 DEF IInv
<1> QED
  BY <1>1, <1>2, <1>3, <1>4, <1>5, <1>6, <1>7 DEF Next

\* It holds in every state of the specification.
LEMMA Invariant == Spec => []IInv
<1> QED
  BY InitIInv, NextIInv, PTL DEF Spec

-----------------------------------------------------------------------------
(* Theorems *)

\* Every changed file that is not ignored is in one place of one chunk, but for those that
\* ListPRFiles lists twice, which may be in two; a chunk over the limit is one file that is
\* (client.go:54-70, chunk.go:17-55).
THEOREM ChunksArePartition == Spec => []ChunksPartition
<1>1. IInv => ChunksPartition
  <2> SUFFICES ASSUME IInv, stage # "chunk" PROVE ChunksPartition
    BY DEF ChunksPartition
  <2> DEFINE t == FlattenSeq(chunks)
  <2>1. PICK l \in Listings(changed) : change = ByAdditions(Reviewable(l))
    BY DEF IInv, Listed
  <2>2. changed \in Changes /\ t = ByAdditions(Reviewable(l))
    BY <2>1 DEF IInv, Listed, ChunksHold
  <2> HIDE DEF t
  <2>3. /\ ToSet(t) = {f \in ToSet(changed) : f.path \notin IgnoredPaths}
        /\ \A i \in DOMAIN changed :
             Cardinality({n \in DOMAIN t : t[n] = changed[i]})
               <= IF i <= PerPage /\ PerPage <= Len(changed) THEN 2 ELSE 1
    BY <2>2, ListedPlaces
  <2>4. \A i \in DOMAIN changed :
          Cardinality(PlacesOf(changed[i])) <= IF i <= PerPage /\ PerPage <= Len(changed) THEN 2 ELSE 1
    BY <2>3 DEF PlacesOf, t
  <2>5. \A n \in DOMAIN chunks : Fits(chunks[n])
    BY DEF IInv, ChunksFit
  <2> QED
    BY <2>3, <2>4, <2>5 DEF ChunksPartition, Fits, Lines, t
<1> QED
  BY <1>1, Invariant, PTL

\* t has the files of c, those with more additions first and others in their order: a
\* bijection says where each file comes from.
SortOf(t, c) ==
  /\ Len(t) = Len(c)
  /\ \E from \in Bijection(1 .. Len(c), 1 .. Len(c)) :
       /\ \A n \in 1 .. Len(c) : t[n] = c[from[n]]
       /\ \A m, n \in 1 .. Len(c) : m < n <=> MoreAdded(c, from[m], from[n])

\* The chunks, one after the other, are the listed files that are not ignored, sorted
\* (chunk.go:19-24).
THEOREM NoFileLost ==
  Spec => [](stage # "chunk" =>
               \E l \in Listings(changed) : SortOf(FlattenSeq(chunks), Reviewable(l)))
<1>1. IInv /\ stage # "chunk" =>
        \E l \in Listings(changed) : SortOf(FlattenSeq(chunks), Reviewable(l))
  <2> SUFFICES ASSUME IInv, stage # "chunk"
               PROVE  \E l \in Listings(changed) : SortOf(FlattenSeq(chunks), Reviewable(l))
    OBVIOUS
  <2>1. PICK l \in Listings(changed) : change = ByAdditions(Reviewable(l))
    BY DEF IInv, Listed
  <2>2. Reviewable(l) \in Seq(ChangedFile)
    <3>1. l \in Seq(ChangedFile)
      BY ListingHolds DEF IInv, Listed
    <3> QED
      BY <3>1, ReviewablePicks
  <2>3. FlattenSeq(chunks) = ByAdditions(Reviewable(l))
    BY <2>1 DEF IInv, ChunksHold
  <2>4. SortOf(ByAdditions(Reviewable(l)), Reviewable(l))
    BY <2>2, ByAdditionsSorts DEF SortOf
  <2> QED
    BY <2>3, <2>4
<1> QED
  BY <1>1, Invariant, PTL

\* A goroutine that gave up waiting keeps its run from being completed (pipeline.go:364, 637).
THEOREM CompletedRunsAreWhole == Spec => []CompletedIsWhole
<1>1. IInv => CompletedIsWhole
  BY DEF IInv, DroppedLate, CompletedIsWhole
<1> QED
  BY <1>1, Invariant, PTL

\* More than that: in a completed run every agent has reviewed every chunk, or failed
\* twice and is named in the warning, and the chunks are the listed files that are not ignored.
THEOREM CompletedSpeaksOfAll ==
  Spec => [](stage = "done" =>
               /\ TasksOver(chunks) = With("ok") \cup With("failed")
               /\ FlattenSeq(chunks) = change)
<1>1. IInv => (stage = "done" =>
                 /\ TasksOver(chunks) = With("ok") \cup With("failed")
                 /\ FlattenSeq(chunks) = change)
  BY DEF IInv, TasksKnown, Returned, DroppedLate, ChunksHold
<1> QED
  BY <1>1, Invariant, PTL

\* The semaphores hold: never do more reviews run than there are slots, whatever fails
\* or is given up (pipeline.go:361-418).
THEOREM SlotsHold == Spec => [](Cardinality(Holding) <= Slots)
<1>1. IInv => Cardinality(Holding) <= Slots
  BY DEF IInv, SlotsRespected
<1> QED
  BY <1>1, Invariant, PTL

\* What a review shows respects the caps and repeats nothing; and a finding that was
\* reported and may be shown is shown, or gave way to findings at least as severe that
\* use a cap up (pipeline.go:584-635, 700-758).
THEOREM SeverestShown == Spec => []SeverestKept
<1>1. IInv => SeverestKept
  <2> SUFFICES ASSUME IInv, stage \in {"complete", "done"} PROVE SeverestKept
    BY DEF SeverestKept
  <2>1. final = Kept(merged, muted) /\ merged \in Seq(Finding)
    BY DEF IInv, Shown, Collected
  <2> QED
    BY <2>1, KeptIsSeverest DEF SeverestKept, Admissible
<1> QED
  BY <1>1, Invariant, PTL

\* The order in which the goroutines end does not show: the review has findings of the
\* same severities at the same places as in a fixed order (pipeline.go:361-418, 594).
THEOREM OrderDoesNotShow == Spec => []OrderIrrelevant
<1>1. IInv => OrderIrrelevant
  <2> SUFFICES ASSUME IInv, stage = "complete", ~ compiled
               PROVE  Shape(final) = Shape(Kept(InOrder(SetToSeq(With("ok"))), muted))
    BY DEF OrderIrrelevant
  <2>1. final = Kept(merged, muted) /\ merged \in Merges
    BY DEF IInv, Shown, Collected
  <2>2. IsFiniteSet(With("ok"))
    <3>1. IsFiniteSet(Tasks) /\ With("ok") \in SUBSET Tasks
      BY TasksFinite DEF IInv, With
    <3> QED
      BY <3>1, FS_Subset
  <2>3. PICK o \in SetToSeqs(With("ok")) : merged = InOrder(o)
    BY <2>1 DEF Merges
  <2> DEFINE p == SetToSeq(With("ok"))
  <2>4. p \in SetToSeqs(With("ok"))
    BY <2>2, SomeOrder
  <2> HIDE DEF p
  <2>5. /\ InOrder(o) \in Seq(Finding)
        /\ \A x : Has(InOrder(o), x) <=> \E t \in With("ok") : Has(task[t].found, x)
    BY <2>2, InOrderHas DEF IInv
  <2>6. /\ InOrder(p) \in Seq(Finding)
        /\ \A x : Has(InOrder(p), x) <=> \E t \in With("ok") : Has(task[t].found, x)
    BY <2>2, <2>4, InOrderHas DEF IInv
  <2>7. Alike(InOrder(o), InOrder(p))
    BY <2>5, <2>6 DEF Alike
  <2>8. Shape(Kept(InOrder(o), muted)) = Shape(Kept(InOrder(p), muted))
    BY <2>5, <2>6, <2>7, KeptLook
  <2> QED
    BY <2>1, <2>3, <2>8 DEF p
<1> QED
  BY <1>1, Invariant, PTL

-----------------------------------------------------------------------------
(* Places in a concatenation *)

\* off says behind how many places of the concatenation t each of the sequences s begins.
Offsets(off, s, t) ==
  /\ off \in [0 .. Len(s) -> Nat] /\ off[0] = 0 /\ off[Len(s)] = Len(t)
  /\ \A i \in 1 .. Len(s) : off[i] = off[i - 1] + Len(s[i])
  /\ \A i \in 1 .. Len(s) : \A j \in 1 .. Len(s[i]) :
       off[i - 1] + j \in 1 .. Len(t) /\ t[off[i - 1] + j] = s[i][j]
  /\ \A n \in 1 .. Len(t) : \E i \in 1 .. Len(s) : \E j \in 1 .. Len(s[i]) : n = off[i - 1] + j

\* One more sequence begins where the others end.
LEMMA OffsetsAppend ==
  ASSUME NEW S, NEW s \in Seq(Seq(S)), NEW t \in Seq(S), NEW c \in Seq(S),
         NEW off, Offsets(off, s, t)
  PROVE  \E o : Offsets(o, Append(s, c), t \o c)
<1> DEFINE k == Len(s)
<1> DEFINE u == Append(s, c)
<1> DEFINE v == t \o c
<1> DEFINE o == [i \in 0 .. k + 1 |-> IF i = k + 1 THEN Len(v) ELSE off[i]]
<1>1. /\ k \in Nat /\ Len(u) = k + 1 /\ u[k + 1] = c
      /\ \A i \in 1 .. k : u[i] = s[i]
  BY AppendProperties, LenProperties
<1>2. /\ Len(t) \in Nat /\ Len(c) \in Nat /\ Len(v) = Len(t) + Len(c)
      /\ \A n \in 1 .. Len(t) : v[n] = t[n]
      /\ \A n \in 1 .. Len(c) : v[Len(t) + n] = c[n]
  BY ConcatProperties, LenProperties
<1>3. /\ off \in [0 .. k -> Nat] /\ off[0] = 0 /\ off[k] = Len(t)
      /\ \A i \in 1 .. k : off[i] = off[i - 1] + Len(s[i])
      /\ \A i \in 1 .. k : \A j \in 1 .. Len(s[i]) :
           off[i - 1] + j \in 1 .. Len(t) /\ t[off[i - 1] + j] = s[i][j]
      /\ \A n \in 1 .. Len(t) : \E i \in 1 .. k : \E j \in 1 .. Len(s[i]) : n = off[i - 1] + j
  BY Zenon DEF Offsets
<1> HIDE DEF k, u, v
<1>4. o[k + 1] = Len(v) /\ \A i \in 0 .. k : o[i] = off[i]
  BY <1>1
<1>5. o \in [0 .. k + 1 -> Nat] /\ o[0] = 0
  BY <1>1, <1>2, <1>3
<1> HIDE DEF o
<1>6. \A i \in 1 .. k + 1 : i = k + 1 \/ i \in 1 .. k
  BY <1>1
<1>7. \A i \in 1 .. k : i - 1 \in 0 .. k /\ i \in 0 .. k /\ o[i - 1] = off[i - 1] /\ o[i] = off[i]
  BY <1>1, <1>4
<1>8. o[k + 1 - 1] = Len(t)
  BY <1>1, <1>3, <1>4
<1>9. ASSUME NEW i \in 1 .. k + 1 PROVE o[i] = o[i - 1] + Len(u[i])
  <2>1. CASE i = k + 1
    <3>1. o[i] = Len(v) /\ o[i - 1] = Len(t) /\ Len(u[i]) = Len(c)
      BY <1>1, <1>4, <1>8, <2>1
    <3> QED
      BY <1>2, <3>1
  <2>2. CASE i \in 1 .. k
    BY <1>1, <1>3, <1>7, <2>2
  <2> QED
    BY <1>6, <2>1, <2>2
<1>10. ASSUME NEW i \in 1 .. k + 1, NEW j \in 1 .. Len(u[i])
       PROVE  o[i - 1] + j \in 1 .. Len(v) /\ v[o[i - 1] + j] = u[i][j]
  <2>1. CASE i = k + 1
    <3>1. o[i - 1] = Len(t) /\ u[i] = c /\ j \in 1 .. Len(c)
      BY <1>1, <1>8, <2>1
    <3> QED
      BY <1>2, <3>1
  <2>2. CASE i \in 1 .. k
    <3>1. j \in 1 .. Len(s[i]) /\ off[i - 1] + j \in 1 .. Len(t) /\ t[off[i - 1] + j] = s[i][j]
      BY <1>1, <1>3, <2>2
    <3> QED
      BY <1>1, <1>2, <1>7, <2>2, <3>1
  <2> QED
    BY <1>6, <2>1, <2>2
<1>11. ASSUME NEW n \in 1 .. Len(v)
       PROVE  \E i \in 1 .. k + 1 : \E j \in 1 .. Len(u[i]) : n = o[i - 1] + j
  <2>1. CASE n <= Len(t)
    <3>1. n \in 1 .. Len(t)
      BY <1>2, <2>1
    <3>2. PICK i \in 1 .. k : \E j \in 1 .. Len(s[i]) : n = off[i - 1] + j
      BY <1>3, <3>1
    <3>3. i \in 1 .. k + 1 /\ u[i] = s[i] /\ o[i - 1] = off[i - 1]
      BY <1>1, <1>7
    <3> QED
      BY <3>2, <3>3
  <2>2. CASE n > Len(t)
    <3> DEFINE j == n - Len(t)
    <3>1. j \in 1 .. Len(c) /\ n = Len(t) + j
      BY <1>2, <2>2
    <3> HIDE DEF j
    <3>2. PICK i \in 1 .. k + 1 : i = k + 1
      BY <1>1
    <3>3. u[i] = c /\ o[i - 1] = Len(t)
      BY <1>1, <1>8, <3>2
    <3>4. j \in 1 .. Len(u[i]) /\ n = o[i - 1] + j
      BY <3>1, <3>3
    <3> QED
      BY <3>4
  <2> QED
    BY <1>2, <2>1, <2>2
<1>12. Offsets(o, u, v)
  BY <1>1, <1>4, <1>5, <1>9, <1>10, <1>11 DEF Offsets
<1> QED
  BY <1>12 DEF u, v

\* Where each of some sequences is found in their concatenation.
LEMMA FlattenPlaces ==
  ASSUME NEW S, NEW s \in Seq(Seq(S))
  PROVE  \E off : Offsets(off, s, FlattenSeq(s))
<1> DEFINE P(k) == SubSeq(s, 1, k)
<1> DEFINE T == {k \in 0 .. Len(s) : ~ \E off : Offsets(off, P(k), FlattenSeq(P(k)))}
<1>1. Len(s) \in Nat
  BY LenProperties
<1>2. ASSUME NEW k \in 0 .. Len(s) PROVE P(k) \in Seq(Seq(S))
  BY <1>1, SubSeqProperties
<1>3. T \subseteq Nat
  OBVIOUS
<1>4. 0 \notin T
  <2>1. P(0) = << >> /\ FlattenSeq(P(0)) = << >>
    BY DEF FlattenSeq
  <2>2. Offsets([i \in 0 .. 0 |-> 0], << >>, << >>)
    BY DEF Offsets
  <2> QED
    BY <2>1, <2>2
<1>5. ASSUME NEW k \in 1 .. Len(s), k - 1 \notin T PROVE k \notin T
  <2>1. k - 1 \in 0 .. Len(s) /\ k \in 0 .. Len(s)
    BY <1>1
  <2>2. P(k - 1) \in Seq(Seq(S)) /\ s[k] \in Seq(S)
    BY <1>1, <1>2, <2>1, ElementOfSeq
  <2>3. P(k) = Append(P(k - 1), s[k])
    BY <1>1
  <2>4. PICK off : Offsets(off, P(k - 1), FlattenSeq(P(k - 1)))
    BY <1>5, <2>1
  <2> HIDE DEF P
  <2>5. FlattenSeq(P(k - 1)) \in Seq(S) /\ FlattenSeq(P(k)) = FlattenSeq(P(k - 1)) \o s[k]
    BY <2>2, <2>3, FlattenType, FlattenAppend
  <2>6. \E o : Offsets(o, P(k), FlattenSeq(P(k)))
    BY <2>2, <2>3, <2>4, <2>5, OffsetsAppend
  <2> QED
    BY <2>6
<1>6. Len(s) \notin T
  <2> HIDE DEF P
  <2> SUFFICES ASSUME T # {} PROVE FALSE
    OBVIOUS
  <2>1. PICK k \in T : \A y \in T : k <= y
    <3> HIDE DEF T
    <3> QED
      BY <1>3, LeastExists
  <2>2. k # 0 /\ k \in 0 .. Len(s)
    BY <1>4
  <2>3. k \in 1 .. Len(s) /\ k \in Nat /\ k - 1 < k
    BY <1>1, <2>2
  <2>4. k - 1 \notin T
    <3>1. k - 1 \in T => k <= k - 1
      BY <2>1
    <3> HIDE DEF T
    <3> QED
      BY <2>3, <3>1
  <2> QED
    BY <1>5, <2>3, <2>4
<1>7. P(Len(s)) = s
  BY <1>1
<1>8. Len(s) \in 0 .. Len(s)
  BY <1>1
<1>9. \E off : Offsets(off, P(Len(s)), FlattenSeq(P(Len(s))))
  <2> HIDE DEF P
  <2> QED
    BY <1>6, <1>8
<1> QED
  BY <1>7, <1>9

-----------------------------------------------------------------------------
(* The lines of a diff *)

LineSet ==
  [kind : {"diff"}, old : Paths, path : Paths] \cup [kind : {"---", "text"}]
    \cup [kind : {"+++"}, path : Paths \cup {NoPath, Other}, quoted : BOOLEAN]
    \cup [kind : {"@@"}, start : Nat, count : Nat]

\* A hunk's header says how many lines the hunk has on the new side.
LEMMA NewCountType ==
  ASSUME NEW h \in Hunk
  PROVE  /\ DOMAIN h.ops = 1 .. Len(h.ops) /\ Len(h.ops) \in Nat
         /\ IsFiniteSet({i \in DOMAIN h.ops : h.ops[i].sign \in NewSide})
         /\ NewCount(h) \in Nat /\ h.start \in Nat
<1>1. h.ops \in Seq(Op) /\ h.start \in Nat
  BY DEF Hunk
<1>2. DOMAIN h.ops = 1 .. Len(h.ops) /\ Len(h.ops) \in Nat
  BY <1>1
<1>3. IsFiniteSet(1 .. Len(h.ops))
  BY <1>2, Segment
<1>4. IsFiniteSet({i \in DOMAIN h.ops : h.ops[i].sign \in NewSide})
  BY <1>2, <1>3, FS_Subset
<1> QED
  BY <1>1, <1>2, <1>4, FS_CardinalityType DEF NewCount

\* The lines of a hunk: its header, then one line for each of its own.
LEMMA HunkLinesAre ==
  ASSUME NEW h \in Hunk
  PROVE  /\ HunkLines(h) \in Seq(LineSet)
         /\ Len(HunkLines(h)) = 1 + Len(h.ops)
         /\ HunkLines(h)[1] = [kind |-> "@@", start |-> h.start, count |-> NewCount(h)]
         /\ \A i \in 1 .. Len(h.ops) : HunkLines(h)[1 + i] = HunkLine(h.ops[i])
         /\ \A j \in 1 .. Len(HunkLines(h)) : j = 1 \/ (\E i \in 1 .. Len(h.ops) : j = 1 + i)
<1> DEFINE l == [kind |-> "@@", start |-> h.start, count |-> NewCount(h)]
<1> DEFINE b == [i \in DOMAIN h.ops |-> HunkLine(h.ops[i])]
<1>1. DOMAIN h.ops = 1 .. Len(h.ops) /\ Len(h.ops) \in Nat /\ NewCount(h) \in Nat /\ h.start \in Nat
  BY NewCountType
<1>2. l \in LineSet
  BY <1>1 DEF LineSet
<1>3. ASSUME NEW i \in 1 .. Len(h.ops) PROVE HunkLine(h.ops[i]) \in LineSet
  <2> DEFINE o == h.ops[i]
  <2>1. o.path \in Paths \cup {NoPath, Other}
    <3>1. h.ops \in Seq(Op)
      BY DEF Hunk
    <3>2. o \in Op
      BY <1>1, <3>1
    <3> HIDE DEF o
    <3> QED
      BY <3>2 DEF Op
  <2> HIDE DEF o
  <2>2. HunkLine(o) \in LineSet
    BY <2>1 DEF HunkLine, LineSet
  <2> QED
    BY <2>2 DEF o
<1>4. b \in Seq(LineSet) /\ Len(b) = Len(h.ops) /\ \A i \in 1 .. Len(h.ops) : b[i] = HunkLine(h.ops[i])
  BY <1>1, <1>3
<1>5. HunkLines(h) = <<l>> \o b
  BY DEF HunkLines
<1> HIDE DEF l, b
<1>6. <<l>> \in Seq(LineSet) /\ Len(<<l>>) = 1 /\ <<l>>[1] = l
  BY <1>2
<1>7. /\ <<l>> \o b \in Seq(LineSet) /\ Len(<<l>> \o b) = 1 + Len(b)
      /\ (<<l>> \o b)[1] = l /\ \A i \in 1 .. Len(b) : (<<l>> \o b)[1 + i] = b[i]
  BY <1>4, <1>6, ConcatProperties
<1>8. \A j \in 1 .. 1 + Len(h.ops) : j = 1 \/ (\E i \in 1 .. Len(h.ops) : j = 1 + i)
  <2> SUFFICES ASSUME NEW j \in 1 .. 1 + Len(h.ops), j # 1 PROVE \E i \in 1 .. Len(h.ops) : j = 1 + i
    OBVIOUS
  <2>1. j - 1 \in 1 .. Len(h.ops) /\ j = 1 + (j - 1)
    BY <1>1
  <2> QED
    BY <2>1
<1> QED
  BY <1>4, <1>5, <1>7, <1>8 DEF l

\* off says behind how many lines of its patch each hunk of a file begins.
Placed(off, f) == Offsets(off, [n \in DOMAIN f.hunks |-> HunkLines(f.hunks[n])], Patch(f))

\* Where the lines of each hunk stand in a file's patch.
LEMMA PatchPlaces ==
  ASSUME NEW f \in File
  PROVE  /\ Patch(f) \in Seq(LineSet)
         /\ DOMAIN f.hunks = 1 .. Len(f.hunks) /\ Len(f.hunks) \in Nat
         /\ \E off : Placed(off, f)
<1> DEFINE s == [n \in DOMAIN f.hunks |-> HunkLines(f.hunks[n])]
<1>1. f.hunks \in Seq(Hunk)
  BY DEF File
<1>2. DOMAIN f.hunks = 1 .. Len(f.hunks) /\ Len(f.hunks) \in Nat
  BY <1>1
<1>3. \A n \in DOMAIN f.hunks : f.hunks[n] \in Hunk
  BY <1>1
<1>4. s \in Seq(Seq(LineSet))
  <2>1. \A n \in 1 .. Len(f.hunks) : HunkLines(f.hunks[n]) \in Seq(LineSet)
    BY <1>2, <1>3, HunkLinesAre
  <2> QED
    BY <1>2, <2>1
<1>5. Patch(f) = FlattenSeq(s)
  BY DEF Patch
<1> HIDE DEF s
<1>6. Patch(f) \in Seq(LineSet) /\ \E off : Offsets(off, s, Patch(f))
  BY <1>4, <1>5, FlattenType, FlattenPlaces
<1> QED
  BY <1>2, <1>6 DEF s, Placed

\* A patch has no file header, and each of its hunk headers is that of a hunk.
LEMMA PatchLines ==
  ASSUME NEW f \in File, NEW off, Placed(off, f), NEW n \in 1 .. Len(Patch(f))
  PROVE  /\ Patch(f)[n].kind \in {"@@", "---", "+++", "text"}
         /\ Patch(f)[n].kind = "@@" =>
              \E m \in DOMAIN f.hunks :
                /\ Patch(f)[n].start = f.hunks[m].start /\ Patch(f)[n].count = NewCount(f.hunks[m])
                /\ n = off[m - 1] + 1
<1> DEFINE s == [m \in DOMAIN f.hunks |-> HunkLines(f.hunks[m])]
<1>1. DOMAIN f.hunks = 1 .. Len(f.hunks) /\ Len(f.hunks) \in Nat /\ \A m \in DOMAIN f.hunks : f.hunks[m] \in Hunk
  <2>1. f.hunks \in Seq(Hunk)
    BY DEF File
  <2> QED
    BY <2>1
<1>2. Offsets(off, s, Patch(f))
  BY DEF Placed
<1>3. DOMAIN s = 1 .. Len(f.hunks) /\ Len(s) = Len(f.hunks) /\ \A m \in DOMAIN f.hunks : s[m] = HunkLines(f.hunks[m])
  BY <1>1
<1> HIDE DEF s
<1>4. PICK m \in 1 .. Len(s) : \E j \in 1 .. Len(s[m]) : n = off[m - 1] + j
  BY <1>2 DEF Offsets
<1>5. PICK j \in 1 .. Len(s[m]) : n = off[m - 1] + j
  BY <1>4
<1>6. Patch(f)[n] = s[m][j]
  BY <1>2, <1>5 DEF Offsets
<1>7. m \in DOMAIN f.hunks /\ s[m] = HunkLines(f.hunks[m]) /\ f.hunks[m] \in Hunk
  BY <1>1, <1>3
<1>8. CASE j = 1
  <2>1. Patch(f)[n] = [kind |-> "@@", start |-> f.hunks[m].start, count |-> NewCount(f.hunks[m])]
    BY <1>6, <1>7, <1>8, HunkLinesAre
  <2> QED
    BY <1>5, <1>7, <1>8, <2>1
<1>9. CASE j # 1
  <2>1. PICK i \in 1 .. Len(f.hunks[m].ops) : j = 1 + i
    BY <1>7, <1>9, HunkLinesAre
  <2>2. Patch(f)[n] = HunkLine(f.hunks[m].ops[i])
    BY <1>6, <1>7, <2>1, HunkLinesAre
  <2> QED
    BY <2>2 DEF HunkLine
<1> QED
  BY <1>8, <1>9

\* The lines of a file: its headers and then its patch.
LEMMA SectionLines ==
  ASSUME NEW f \in File
  PROVE  /\ Section(f) \in Seq(LineSet) /\ Len(Section(f)) \in Nat \ {0}
         /\ Section(f)[1].kind = "diff" /\ HeaderPath(Section(f)[1]) = HeaderPath(f)
         /\ \A j \in 2 .. Len(Section(f)) : Section(f)[j].kind # "diff"
         /\ \A j \in 1 .. Len(Section(f)) :
              Section(f)[j].kind = "@@" =>
                \E m \in DOMAIN f.hunks :
                  Section(f)[j].start = f.hunks[m].start /\ Section(f)[j].count = NewCount(f.hunks[m])
         /\ f.hunks # << >> =>
              /\ Len(Section(f)) = 3 + Len(Patch(f))
              /\ Section(f)[2] = [kind |-> "---"]
              /\ Section(f)[3] = [kind |-> "+++", path |-> IF f.removed THEN NoPath ELSE f.path,
                                  quoted |-> ~ f.removed /\ f.path \in Quoted]
              /\ \A n \in 1 .. Len(Patch(f)) : Section(f)[3 + n] = Patch(f)[n]
<1> DEFINE H == Headers(f)
<1> DEFINE P == Patch(f)
<1> DEFINE a == [kind |-> "diff", old |-> f.old, path |-> f.path]
<1> DEFINE b == [kind |-> "---"]
<1> DEFINE c == [kind |-> "+++", path |-> IF f.removed THEN NoPath ELSE f.path,
                quoted |-> ~ f.removed /\ f.path \in Quoted]
<1>1. a \in LineSet /\ b \in LineSet /\ c \in LineSet
  <2>1. f.old \in Paths /\ f.path \in Paths
    BY DEF File
  <2>2. a \in LineSet
    BY <2>1 DEF LineSet
  <2>3. b \in LineSet
    BY DEF LineSet
  <2>4. c \in LineSet
    <3>1. (IF f.removed THEN NoPath ELSE f.path) \in Paths \cup {NoPath, Other}
      BY <2>1
    <3> QED
      BY <3>1 DEF LineSet
  <2> QED
    BY <2>2, <2>3, <2>4
<1>2. a.kind = "diff" /\ b.kind = "---" /\ c.kind = "+++"
  OBVIOUS
<1>18. HeaderPath(a) = HeaderPath(f)
  BY DEF HeaderPath
<1>3. H = IF f.hunks = << >> THEN <<a>> ELSE <<a, b, c>>
  BY DEF Headers
<1>4. P \in Seq(LineSet) /\ Len(P) \in Nat
  BY PatchPlaces, LenProperties
<1>5. \A n \in 1 .. Len(P) :
        /\ P[n].kind # "diff"
        /\ P[n].kind = "@@" =>
             \E m \in DOMAIN f.hunks : P[n].start = f.hunks[m].start /\ P[n].count = NewCount(f.hunks[m])
  <2>1. PICK off : Placed(off, f)
    BY PatchPlaces
  <2> QED
    BY <2>1, PatchLines
<1>6. Section(f) = H \o P
  BY DEF Section
<1> HIDE DEF H, P, a, b, c
<1>7. /\ H \in Seq(LineSet) /\ Len(H) \in {1, 3} /\ H[1] = a
      /\ f.hunks # << >> => Len(H) = 3
      /\ Len(H) = 3 => H[2] = b /\ H[3] = c
  BY <1>1, <1>3
<1>8. /\ H \o P \in Seq(LineSet) /\ Len(H \o P) = Len(H) + Len(P)
      /\ \A i \in 1 .. Len(H) : (H \o P)[i] = H[i]
      /\ \A i \in 1 .. Len(P) : (H \o P)[Len(H) + i] = P[i]
  BY <1>4, <1>7, ConcatProperties
<1>9. /\ Len(H \o P) \in Nat \ {0} /\ 1 \in 1 .. Len(H)
      /\ Len(H) = 3 => 2 \in 1 .. Len(H) /\ 3 \in 1 .. Len(H)
  BY <1>4, <1>7, <1>8
<1>10. (H \o P)[1] = a /\ (Len(H) = 3 => (H \o P)[2] = b /\ (H \o P)[3] = c)
  BY <1>7, <1>8, <1>9
<1>11. ASSUME NEW j \in 2 .. Len(H \o P)
       PROVE  \/ Len(H) = 3 /\ (j = 2 \/ j = 3)
              \/ \E n \in 1 .. Len(P) : (H \o P)[j] = P[n]
  <2>1. CASE j <= Len(H)
    BY <1>7, <1>9, <2>1
  <2>2. CASE j > Len(H)
    <3> DEFINE n == j - Len(H)
    <3>1. n \in 1 .. Len(P) /\ j = Len(H) + n
      BY <1>4, <1>7, <1>8, <2>2
    <3> QED
      BY <1>8, <3>1
  <2> QED
    BY <1>7, <2>1, <2>2
<1>12. \A j \in 2 .. Len(H \o P) :
         /\ (H \o P)[j].kind # "diff"
         /\ (H \o P)[j].kind = "@@" =>
              \E m \in DOMAIN f.hunks :
                (H \o P)[j].start = f.hunks[m].start /\ (H \o P)[j].count = NewCount(f.hunks[m])
  <2> TAKE j \in 2 .. Len(H \o P)
  <2>1. CASE Len(H) = 3 /\ (j = 2 \/ j = 3)
    BY <1>2, <1>10, <2>1
  <2>2. CASE \E n \in 1 .. Len(P) : (H \o P)[j] = P[n]
    BY <1>5, <2>2
  <2> QED
    BY <1>11, <2>1, <2>2
<1>13. \A j \in 1 .. Len(H \o P) : j = 1 \/ j \in 2 .. Len(H \o P)
  BY <1>9
<1>14. \A j \in 1 .. Len(H \o P) :
         (H \o P)[j].kind = "@@" =>
           \E m \in DOMAIN f.hunks :
             (H \o P)[j].start = f.hunks[m].start /\ (H \o P)[j].count = NewCount(f.hunks[m])
  BY <1>2, <1>10, <1>12, <1>13
<1>15. f.hunks # << >> =>
         /\ Len(H \o P) = 3 + Len(P) /\ (H \o P)[2] = b /\ (H \o P)[3] = c
         /\ \A n \in 1 .. Len(P) : (H \o P)[3 + n] = P[n]
  BY <1>7, <1>8, <1>10
<1>16. /\ Section(f) \in Seq(LineSet) /\ Len(Section(f)) \in Nat \ {0}
       /\ Section(f)[1] = a
       /\ \A j \in 2 .. Len(Section(f)) : Section(f)[j].kind # "diff"
  BY <1>6, <1>8, <1>9, <1>10, <1>12
<1>17. f.hunks # << >> =>
         /\ Len(Section(f)) = 3 + Len(P) /\ Section(f)[2] = b /\ Section(f)[3] = c
         /\ \A n \in 1 .. Len(P) : Section(f)[3 + n] = P[n]
  BY <1>6, <1>15
<1> QED
  <2>1. Section(f)[1].kind = "diff" /\ HeaderPath(Section(f)[1]) = HeaderPath(f)
    BY <1>2, <1>16, <1>18
  <2>2. f.hunks # << >> =>
          /\ Len(Section(f)) = 3 + Len(Patch(f))
          /\ Section(f)[2] = [kind |-> "---"]
          /\ Section(f)[3] = [kind |-> "+++", path |-> IF f.removed THEN NoPath ELSE f.path,
                              quoted |-> ~ f.removed /\ f.path \in Quoted]
          /\ \A n \in 1 .. Len(Patch(f)) : Section(f)[3 + n] = Patch(f)[n]
    BY <1>17, Zenon DEF b, c, P
  <2>3. \A j \in 1 .. Len(Section(f)) :
          Section(f)[j].kind = "@@" =>
            \E m \in DOMAIN f.hunks :
              Section(f)[j].start = f.hunks[m].start /\ Section(f)[j].count = NewCount(f.hunks[m])
    BY <1>6, <1>14
  <2> QED
    BY <1>16, <2>1, <2>2, <2>3, Zenon

-----------------------------------------------------------------------------
(* Cutting the raw diff *)

\* The recursion of SplitDiffByFile over the first n lines.
Splits(g, raw, n) ==
  g = [k \in 0 .. n |-> IF k = 0 THEN EmptySplit ELSE SplitLine(g[k - 1], raw[k])]

\* There is a function the recursion defines.
LEMMA SplitsExists ==
  ASSUME NEW raw, NEW n \in Nat
  PROVE  \E g : Splits(g, raw, n)
<1> DEFINE T == {k \in 0 .. n : ~ \E g : Splits(g, raw, k)}
<1> SUFFICES ASSUME T # {} PROVE FALSE
  OBVIOUS
<1>1. T \subseteq Nat
  OBVIOUS
<1>2. PICK k \in T : \A y \in T : k <= y
  <2> HIDE DEF T
  <2> QED
    BY <1>1, LeastExists
<1>3. k # 0
  <2>1. Splits([i \in 0 .. 0 |-> EmptySplit], raw, 0)
    BY DEF Splits
  <2> QED
    BY <2>1
<1>4. k \in Nat /\ k - 1 \in 0 .. n /\ k - 1 \notin T
  BY <1>2, <1>3
<1>5. PICK f : Splits(f, raw, k - 1)
  BY <1>4
<1> DEFINE g == [i \in 0 .. k |-> IF i = 0 THEN EmptySplit ELSE SplitLine(f[i - 1], raw[i])]
<1>6. ASSUME NEW i \in 0 .. k - 1 PROVE g[i] = f[i]
  <2>1. f[i] = IF i = 0 THEN EmptySplit ELSE SplitLine(f[i - 1], raw[i])
    BY <1>5 DEF Splits
  <2>2. i \in 0 .. k
    BY <1>4
  <2> QED
    BY <2>1, <2>2
<1>7. g = [i \in 0 .. k |-> IF i = 0 THEN EmptySplit ELSE SplitLine(g[i - 1], raw[i])]
  <2>1. ASSUME NEW i \in 0 .. k, i # 0 PROVE g[i - 1] = f[i - 1]
    <3>1. i - 1 \in 0 .. k - 1
      BY <1>4, <2>1
    <3> HIDE DEF g
    <3> QED
      BY <1>6, <3>1
  <2> QED
    BY <2>1
<1>8. Splits(g, raw, k)
  <2> HIDE DEF g
  <2> QED
    BY <1>7 DEF Splits
<1> QED
  BY <1>2, <1>8

\* What SplitDiffByFile returns.
LEMMA SplitDef ==
  ASSUME NEW raw, Len(raw) \in Nat
  PROVE  \E g : /\ g[0] = EmptySplit
                /\ \A n \in 1 .. Len(raw) : g[n] = SplitLine(g[n - 1], raw[n])
                /\ SplitDiffByFile(raw) = Closed(g[Len(raw)]).out
<1> DEFINE g == CHOOSE g : g = [k \in 0 .. Len(raw) |-> IF k = 0 THEN EmptySplit ELSE SplitLine(g[k - 1], raw[k])]
<1>1. SplitDiffByFile(raw) = Closed(g[Len(raw)]).out
  BY Zenon DEF SplitDiffByFile
<1>2. \E f : f = [k \in 0 .. Len(raw) |-> IF k = 0 THEN EmptySplit ELSE SplitLine(f[k - 1], raw[k])]
  BY SplitsExists, Zenon DEF Splits
<1>3. g = [k \in 0 .. Len(raw) |-> IF k = 0 THEN EmptySplit ELSE SplitLine(g[k - 1], raw[k])]
  BY <1>2, Zenon
<1> HIDE DEF g
<1>4. \A n \in 1 .. Len(raw) : n \in 0 .. Len(raw) /\ n # 0
  OBVIOUS
<1>5. 0 \in 0 .. Len(raw)
  OBVIOUS
<1>6. g[0] = EmptySplit
  BY <1>3, <1>5, Zenon
<1>7. ASSUME NEW n \in 1 .. Len(raw) PROVE g[n] = SplitLine(g[n - 1], raw[n])
  BY <1>3, <1>4, Zenon
<1> QED
  BY <1>1, <1>6, <1>7

\* The parts of a state of the cutting loop.
IsSplit(s) == s = [current |-> s.current, buf |-> s.buf, out |-> s.out]

\* What flush leaves, and what a line does.
LEMMA SplitParts ==
  ASSUME NEW s, IsSplit(s)
  PROVE  /\ Closed(s) =
              IF s.current = NoPath
                THEN s
                ELSE [current |-> s.current, buf |-> << >>,
                      out |-> [p \in DOMAIN s.out \cup {s.current} |->
                                 IF p = s.current THEN s.buf ELSE s.out[p]]]
         /\ IsSplit(Closed(s))
         /\ \A l : l.kind = "diff" =>
              SplitLine(s, l) = [current |-> HeaderPath(l), buf |-> Append(Closed(s).buf, l), out |-> Closed(s).out]
         /\ \A l : l.kind # "diff" =>
              SplitLine(s, l) = [current |-> s.current, out |-> s.out,
                                 buf |-> IF s.current = NoPath THEN s.buf ELSE Append(s.buf, l)]
<1> DEFINE c == s.current
<1> DEFINE b == s.buf
<1> DEFINE o == s.out
<1>1. s = [current |-> c, buf |-> b, out |-> o]
  BY DEF IsSplit
<1> HIDE DEF c, b, o
<1>2. s.current = c /\ s.buf = b /\ s.out = o
  BY <1>1
<1> DEFINE m == [p \in DOMAIN o \cup {c} |-> IF p = c THEN b ELSE o[p]]
<1>3. Closed(s) = IF c = NoPath THEN s ELSE [current |-> c, buf |-> << >>, out |-> m]
  BY <1>2 DEF Closed
<1> HIDE DEF m
<1>4. IsSplit(Closed(s))
  BY <1>1, <1>3 DEF IsSplit
<1>5. ASSUME NEW l, l.kind = "diff"
      PROVE  SplitLine(s, l) = [current |-> HeaderPath(l), buf |-> Append(Closed(s).buf, l), out |-> Closed(s).out]
  BY <1>5 DEF SplitLine
<1>6. ASSUME NEW l, l.kind # "diff"
      PROVE  SplitLine(s, l) = [current |-> c, out |-> o, buf |-> IF c = NoPath THEN b ELSE Append(b, l)]
  <2> DEFINE ab == IF c = NoPath THEN b ELSE Append(b, l)
  <2>1. SplitLine(s, l) = [s EXCEPT !.buf = ab]
    BY <1>2, <1>6 DEF SplitLine
  <2> HIDE DEF ab
  <2>2. [s EXCEPT !.buf = ab] = [current |-> c, out |-> o, buf |-> ab]
    BY <1>1
  <2> QED
    BY <2>1, <2>2 DEF ab
<1> QED
  BY <1>2, <1>3, <1>4, <1>5, <1>6 DEF m

\* From h[0] to h[Len(sec)] the loop reads the lines of a file of name p.
Cuts(h, sec, p, t) ==
  /\ sec \in Seq(LineSet) /\ Len(sec) \in Nat \ {0}
  /\ sec[1].kind = "diff" /\ HeaderPath(sec[1]) = p /\ \A j \in 2 .. Len(sec) : sec[j].kind # "diff"
  /\ IsSplit(h[0]) /\ t = Closed(h[0]) /\ t.buf \in Seq(LineSet)
  /\ \A j \in 1 .. Len(sec) : h[j] = SplitLine(h[j - 1], sec[j])

\* What a file's lines do: a file with a name begins a buffer of its own, which flush
\* will put under that name.
LEMMA SplitSection ==
  ASSUME NEW h, NEW sec, NEW p, NEW t, Cuts(h, sec, p, t)
  PROVE  h[Len(sec)] = [current |-> p, out |-> t.out,
                        buf |-> IF p = NoPath THEN Append(t.buf, sec[1]) ELSE t.buf \o sec]
<1> DEFINE B(j) == IF p = NoPath THEN Append(t.buf, sec[1]) ELSE t.buf \o SubSeq(sec, 1, j)
<1> DEFINE R(j) == [current |-> p, out |-> t.out, buf |-> B(j)]
<1> DEFINE T == {j \in 1 .. Len(sec) : h[j] # R(j)}
<1> USE DEF Cuts
<1>1. T \subseteq Nat
  OBVIOUS
<1>2. sec[1].kind = "diff" /\ HeaderPath(sec[1]) = p /\ 1 \in 1 .. Len(sec)
  OBVIOUS
<1>3. ASSUME NEW j \in 1 .. Len(sec)
      PROVE  /\ SubSeq(sec, 1, j) \in Seq(LineSet) /\ sec[j] \in LineSet
             /\ j # 1 => SubSeq(sec, 1, j) = Append(SubSeq(sec, 1, j - 1), sec[j])
  BY ElementOfSeq, SubSeqProperties
<1>4. SubSeq(sec, 1, 1) = <<sec[1]>>
  <2>1. sec[1] \in LineSet
    BY <1>2, <1>3
  <2>2. <<sec[1]>> \in Seq(LineSet) /\ Len(<<sec[1]>>) = 1 /\ <<sec[1]>>[1] = sec[1]
    BY <2>1
  <2>3. SubSeq(sec, 1, 1) \in Seq(LineSet) /\ Len(SubSeq(sec, 1, 1)) = 1 /\ SubSeq(sec, 1, 1)[1] = sec[1]
    BY <1>2, SubSeqProperties
  <2>4. \A k \in 1 .. 1 : k = 1
    OBVIOUS
  <2> QED
    <3> DEFINE u == SubSeq(sec, 1, 1)
    <3> DEFINE v == <<sec[1]>>
    <3>1. u \in Seq(LineSet) /\ v \in Seq(LineSet) /\ Len(u) = Len(v) /\ Len(u) = 1 /\ u[1] = v[1]
      BY <2>2, <2>3
    <3> HIDE DEF u, v
    <3>2. \A i \in 1 .. Len(u) : u[i] = v[i]
      BY <2>4, <3>1
    <3>3. u = v
      BY <3>1, <3>2, SeqEqual
    <3> QED
      BY <3>3 DEF u, v
<1>5. t.buf \o <<sec[1]>> = Append(t.buf, sec[1])
  <2>1. sec[1] \in LineSet
    BY <1>2, <1>3
  <2> QED
    BY <2>1, AppendIsConcat
<1>6. h[1] = R(1)
  <2>1. h[1] = SplitLine(h[0], sec[1])
    BY <1>2
  <2>2. h[1] = [current |-> p, buf |-> Append(t.buf, sec[1]), out |-> t.out]
    <3> DEFINE r == h[0]
    <3> DEFINE l == sec[1]
    <3>1. IsSplit(r) /\ l.kind = "diff" /\ HeaderPath(l) = p /\ t = Closed(r)
      BY <1>2
    <3>2. h[1] = SplitLine(r, l)
      BY <2>1
    <3> HIDE DEF r, l
    <3>3. SplitLine(r, l) = [current |-> HeaderPath(l), buf |-> Append(Closed(r).buf, l), out |-> Closed(r).out]
      BY <3>1, SplitParts
    <3>4. h[1] = [current |-> p, buf |-> Append(t.buf, l), out |-> t.out]
      BY <3>1, <3>2, <3>3
    <3> QED
      BY <3>4 DEF l
  <2>3. B(1) = Append(t.buf, sec[1])
    BY <1>4, <1>5
  <2> QED
    BY <2>2, <2>3
<1>7. ASSUME NEW j \in 2 .. Len(sec), h[j - 1] = R(j - 1) PROVE h[j] = R(j)
  <2>1. j \in 1 .. Len(sec) /\ j # 1 /\ j - 1 \in 1 .. Len(sec)
    OBVIOUS
  <2>2. h[j] = SplitLine(R(j - 1), sec[j]) /\ sec[j].kind # "diff"
    BY <1>7, <2>1
  <2>3. B(j) = IF p = NoPath THEN B(j - 1) ELSE Append(B(j - 1), sec[j])
    <3>1. CASE p = NoPath
      BY <3>1
    <3>2. CASE p # NoPath
      <4>1. /\ B(j) = t.buf \o Append(SubSeq(sec, 1, j - 1), sec[j])
            /\ B(j - 1) = t.buf \o SubSeq(sec, 1, j - 1)
        BY <1>3, <2>1, <3>2
      <4>2. SubSeq(sec, 1, j - 1) \in Seq(LineSet) /\ sec[j] \in LineSet
        BY <1>3, <2>1
      <4> DEFINE w == SubSeq(sec, 1, j - 1)
      <4> DEFINE x == sec[j]
      <4>3. w \in Seq(LineSet) /\ <<x>> \in Seq(LineSet) /\ x \in LineSet /\ t.buf \o w \in Seq(LineSet)
        BY <4>2, ConcatProperties
      <4> HIDE DEF w, x
      <4>4. Append(w, x) = w \o <<x>> /\ Append(t.buf \o w, x) = (t.buf \o w) \o <<x>>
        BY <4>3, AppendIsConcat
      <4>5. t.buf \o Append(w, x) = Append(t.buf \o w, x)
        <5> DEFINE y == <<x>>
        <5> DEFINE b == t.buf
        <5>1. (b \o w) \o y = b \o (w \o y)
          <6>1. b \in Seq(LineSet) /\ w \in Seq(LineSet) /\ y \in Seq(LineSet)
            BY <4>3
          <6> HIDE DEF b, y
          <6> QED
            BY ONLY <6>1, ConcatAssociative
        <5> QED
          BY <4>4, <5>1
      <4> QED
        BY <3>2, <4>1, <4>5 DEF w, x
    <3> QED
      BY <3>1, <3>2
  <2> HIDE DEF B
  <2>4. IsSplit(R(j - 1)) /\ R(j - 1).current = p /\ R(j - 1).out = t.out /\ R(j - 1).buf = B(j - 1)
    BY DEF IsSplit
  <2> HIDE DEF R
  <2>5. SplitLine(R(j - 1), sec[j]) =
          [current |-> p, out |-> t.out,
           buf |-> IF p = NoPath THEN B(j - 1) ELSE Append(B(j - 1), sec[j])]
    <3> DEFINE r == R(j - 1)
    <3>1. IsSplit(r) /\ r.current = p /\ r.out = t.out /\ r.buf = B(j - 1)
      BY <2>4
    <3> HIDE DEF r
    <3>2. SplitLine(r, sec[j]) = [current |-> r.current, out |-> r.out,
                                  buf |-> IF r.current = NoPath THEN r.buf ELSE Append(r.buf, sec[j])]
      BY <2>2, <3>1, SplitParts
    <3> QED
      BY <3>1, <3>2 DEF r
  <2> QED
    BY <2>2, <2>3, <2>5 DEF R
<1> HIDE DEF B, R
<1>8. ASSUME T # {} PROVE FALSE
  <2>1. PICK j \in T : \A y \in T : j <= y
    <3> HIDE DEF T
    <3> QED
      BY <1>1, <1>8, LeastExists
  <2>2. j \in 2 .. Len(sec) /\ j - 1 \in 1 .. Len(sec) /\ j - 1 \notin T
    <3>1. j # 1
      BY <1>6
    <3>2. j \in Nat /\ j \in 1 .. Len(sec)
      OBVIOUS
    <3>3. j - 1 \notin T
      <4> HIDE DEF T
      <4>1. j - 1 \in T => j <= j - 1
        BY <2>1
      <4> QED
        BY <3>2, <4>1
    <3> QED
      BY <3>1, <3>2, <3>3
  <2> QED
    BY <1>7, <2>2
<1>9. Len(sec) \in 1 .. Len(sec)
  OBVIOUS
<1>10. h[Len(sec)] = R(Len(sec))
  BY <1>8, <1>9
<1>11. SubSeq(sec, 1, Len(sec)) = sec
  OBVIOUS
<1> QED
  BY <1>10, <1>11 DEF R, B

\* What is left in the buffer by files whose name is not found: their headers alone.
Blind(q) == q \in Seq(LineSet) /\ \A n \in 1 .. Len(q) : q[n].kind = "diff"

\* A file's section, perhaps behind such headers.
OwnSection(lines, f) == \E q : Blind(q) /\ lines = q \o Section(f)

\* No later one of the first i files reads like the j-th.
Unfollowed(c, j, i) == \A k \in j + 1 .. i : HeaderPath(c[k]) # HeaderPath(c[j])

\* After the first i files: each name is that of one of them, and holds the section of the
\* last file that reads so.
Held(t, c, i) ==
  /\ Blind(t.buf)
  /\ \A p \in DOMAIN t.out : \E k \in 1 .. i : p = HeaderPath(c[k])
  /\ \A j \in 1 .. i :
       HeaderPath(c[j]) # NoPath /\ Unfollowed(c, j, i) =>
         HeaderPath(c[j]) \in DOMAIN t.out /\ OwnSection(t.out[HeaderPath(c[j])], c[j])

\* One more file keeps this.
LEMMA HeldStep ==
  ASSUME NEW c, NEW i \in Nat \ {0}, c[i] \in File,
         NEW t, Held(t, c, i - 1),
         NEW s, s = [current |-> HeaderPath(c[i]), out |-> t.out,
                     buf |-> IF HeaderPath(c[i]) = NoPath
                               THEN Append(t.buf, Section(c[i])[1]) ELSE t.buf \o Section(c[i])]
  PROVE  IsSplit(s) /\ Held(Closed(s), c, i)
<1> DEFINE hp == HeaderPath(c[i])
<1>1. /\ s.current = hp /\ s.out = t.out
      /\ s.buf = IF hp = NoPath THEN Append(t.buf, Section(c[i])[1]) ELSE t.buf \o Section(c[i])
      /\ IsSplit(s)
  BY DEF IsSplit
<1>2. /\ Section(c[i]) \in Seq(LineSet) /\ Len(Section(c[i])) \in Nat \ {0}
      /\ Section(c[i])[1].kind = "diff"
  <2> DEFINE f == c[i]
  <2>1. f \in File
    OBVIOUS
  <2> HIDE DEF f
  <2>2. /\ Section(f) \in Seq(LineSet) /\ Len(Section(f)) \in Nat \ {0}
        /\ Section(f)[1].kind = "diff"
    BY <2>1, SectionLines
  <2> QED
    BY <2>2 DEF f
<1>3. Section(c[i])[1] \in LineSet
  BY <1>2, ElementOfSeq
<1>4. Blind(t.buf)
  BY DEF Held
<1>5. \A j \in 1 .. i : j = i \/ j \in 1 .. i - 1
  OBVIOUS
<1>6. \A j \in 1 .. i - 1 : j \in 1 .. i /\ (Unfollowed(c, j, i) => Unfollowed(c, j, i - 1) /\ hp # HeaderPath(c[j]))
  <2> TAKE j \in 1 .. i - 1
  <2>1. i \in j + 1 .. i /\ (\A k \in j + 1 .. i - 1 : k \in j + 1 .. i) /\ j \in 1 .. i
    OBVIOUS
  <2> QED
    BY <2>1 DEF Unfollowed
<1>7. CASE hp = NoPath
  <2>1. Closed(s) = s /\ s.buf = Append(t.buf, Section(c[i])[1])
    BY <1>1, <1>7, SplitParts
  <2>2. Blind(Append(t.buf, Section(c[i])[1]))
    <3> DEFINE b == t.buf
    <3> DEFINE l == Section(c[i])[1]
    <3>1. b \in Seq(LineSet) /\ l \in LineSet /\ l.kind = "diff" /\ \A n \in 1 .. Len(b) : b[n].kind = "diff"
      BY <1>2, <1>3, <1>4 DEF Blind
    <3> HIDE DEF b, l
    <3>2. /\ Append(b, l) \in Seq(LineSet) /\ Len(Append(b, l)) = Len(b) + 1 /\ Len(b) \in Nat
          /\ \A n \in 1 .. Len(b) : Append(b, l)[n] = b[n]
          /\ Append(b, l)[Len(b) + 1] = l
      BY <3>1, AppendProperties, LenProperties
    <3>3. \A n \in 1 .. Len(b) + 1 : n \in 1 .. Len(b) \/ n = Len(b) + 1
      BY <3>2
    <3>4. Blind(Append(b, l))
      BY <3>1, <3>2, <3>3 DEF Blind
    <3> QED
      BY <3>4 DEF b, l
  <2>3. \A p \in DOMAIN t.out : \E k \in 1 .. i : p = HeaderPath(c[k])
    BY <1>6 DEF Held
  <2>4. ASSUME NEW j \in 1 .. i, HeaderPath(c[j]) # NoPath, Unfollowed(c, j, i)
        PROVE  HeaderPath(c[j]) \in DOMAIN t.out /\ OwnSection(t.out[HeaderPath(c[j])], c[j])
    <3>1. j \in 1 .. i - 1
      BY <1>5, <1>7, <2>4
    <3> QED
      BY <1>6, <2>4, <3>1 DEF Held
  <2> QED
    BY <1>1, <2>1, <2>2, <2>3, <2>4 DEF Held
<1>8. CASE hp # NoPath
  <2> DEFINE m == [p \in DOMAIN t.out \cup {hp} |-> IF p = hp THEN t.buf \o Section(c[i]) ELSE t.out[p]]
  <2>1. Closed(s) = [current |-> hp, buf |-> << >>, out |-> m]
    BY <1>1, <1>8, SplitParts
  <2>2. Closed(s).buf = << >> /\ Closed(s).out = m
    <3> HIDE DEF m
    <3> QED
      BY <2>1
  <2>3. Blind(<< >>)
    BY DEF Blind
  <2>4. \A p \in DOMAIN m : \E k \in 1 .. i : p = HeaderPath(c[k])
    <3> TAKE p \in DOMAIN m
    <3>1. CASE p = hp
      BY <3>1
    <3>2. CASE p \in DOMAIN t.out
      BY <1>6, <3>2 DEF Held
    <3> QED
      BY <3>1, <3>2
  <2>5. ASSUME NEW j \in 1 .. i, HeaderPath(c[j]) # NoPath, Unfollowed(c, j, i)
        PROVE  HeaderPath(c[j]) \in DOMAIN m /\ OwnSection(m[HeaderPath(c[j])], c[j])
    <3>1. CASE j = i
      <4>1. m[hp] = t.buf \o Section(c[i])
        OBVIOUS
      <4>2. OwnSection(m[hp], c[i])
        BY <1>4, <4>1 DEF OwnSection
      <4> QED
        BY <3>1, <4>2
    <3>2. CASE j \in 1 .. i - 1
      <4>1. HeaderPath(c[j]) # hp /\ HeaderPath(c[j]) \in DOMAIN t.out
            /\ OwnSection(t.out[HeaderPath(c[j])], c[j])
        BY <1>6, <2>5, <3>2 DEF Held
      <4> QED
        BY <4>1
    <3> QED
      BY <1>5, <3>1, <3>2
  <2> HIDE DEF m
  <2> QED
    BY <1>1, <2>2, <2>3, <2>4, <2>5 DEF Held
<1> QED
  BY <1>7, <1>8

\* What SplitDiffByFile finds: names of changed files, and under a name the section of the
\* last file that reads so.
LEMMA SplitFinds ==
  ASSUME NEW c \in Seq(File), NEW d,
         d = SplitDiffByFile(FlattenSeq([i \in DOMAIN c |-> Section(c[i])]))
  PROVE  /\ \A p \in DOMAIN d : \E k \in DOMAIN c : p = HeaderPath(c[k])
         /\ \A j \in DOMAIN c :
              HeaderPath(c[j]) # NoPath /\ Unfollowed(c, j, Len(c)) =>
                HeaderPath(c[j]) \in DOMAIN d /\ OwnSection(d[HeaderPath(c[j])], c[j])
<1> DEFINE s == [i \in DOMAIN c |-> Section(c[i])]
<1> DEFINE raw == FlattenSeq(s)
<1>1. DOMAIN c = 1 .. Len(c) /\ Len(c) \in Nat /\ \A i \in 1 .. Len(c) : c[i] \in File
  OBVIOUS
<1>2. s \in Seq(Seq(LineSet)) /\ Len(s) = Len(c) /\ \A i \in 1 .. Len(c) : s[i] = Section(c[i])
  <2>1. \A i \in 1 .. Len(c) : Section(c[i]) \in Seq(LineSet)
    BY <1>1, SectionLines
  <2> QED
    BY <1>1, <2>1
<1> HIDE DEF s
<1>3. raw \in Seq(LineSet) /\ \E off : Offsets(off, s, raw)
  BY <1>2, FlattenType, FlattenPlaces
<1>4. PICK off : Offsets(off, s, raw)
  BY <1>3
<1>5. Len(raw) \in Nat
  BY <1>3, LenProperties
<1>6. PICK g : /\ g[0] = EmptySplit
               /\ \A n \in 1 .. Len(raw) : g[n] = SplitLine(g[n - 1], raw[n])
               /\ SplitDiffByFile(raw) = Closed(g[Len(raw)]).out
  BY <1>5, SplitDef
<1>7. d = Closed(g[Len(raw)]).out
  BY <1>6 DEF s
<1> HIDE DEF raw
<1>8. /\ off[0] = 0 /\ off[Len(c)] = Len(raw) /\ \A i \in 0 .. Len(c) : off[i] \in Nat
      /\ \A i \in 1 .. Len(c) : off[i] = off[i - 1] + Len(s[i])
      /\ \A i \in 1 .. Len(c) : \A j \in 1 .. Len(s[i]) :
           off[i - 1] + j \in 1 .. Len(raw) /\ raw[off[i - 1] + j] = s[i][j]
  BY <1>2, <1>4 DEF Offsets
<1> DEFINE Fine(i) == IsSplit(g[off[i]]) /\ Held(Closed(g[off[i]]), c, i)
<1>9. Fine(0)
  <2>1. g[off[0]] = EmptySplit /\ IsSplit(EmptySplit) /\ EmptySplit.current = NoPath
    BY <1>6, <1>8 DEF EmptySplit, IsSplit
  <2>2. Closed(EmptySplit) = EmptySplit /\ EmptySplit.buf = << >> /\ EmptySplit.out = << >>
    BY <2>1, SplitParts DEF EmptySplit
  <2>3. Held(EmptySplit, c, 0)
    BY <2>2 DEF Held, Blind
  <2> QED
    BY <2>1, <2>2, <2>3
<1>10. ASSUME NEW i \in 1 .. Len(c), Fine(i - 1) PROVE Fine(i)
  <2> DEFINE sec == Section(c[i])
  <2> DEFINE a == off[i - 1]
  <2> DEFINE h == [j \in 0 .. Len(sec) |-> g[a + j]]
  <2> DEFINE t == Closed(h[0])
  <2>1. /\ sec \in Seq(LineSet) /\ Len(sec) \in Nat \ {0}
        /\ sec[1].kind = "diff" /\ HeaderPath(sec[1]) = HeaderPath(c[i])
        /\ \A j \in 2 .. Len(sec) : sec[j].kind # "diff"
    <3> DEFINE f == c[i]
    <3>1. f \in File
      BY <1>1
    <3> HIDE DEF f
    <3>2. /\ Section(f) \in Seq(LineSet) /\ Len(Section(f)) \in Nat \ {0}
          /\ Section(f)[1].kind = "diff" /\ HeaderPath(Section(f)[1]) = HeaderPath(f)
          /\ \A j \in 2 .. Len(Section(f)) : Section(f)[j].kind # "diff"
      BY <3>1, SectionLines
    <3> QED
      BY <3>2 DEF f
  <2>2. i \in Nat \ {0} /\ i - 1 \in 0 .. Len(c) /\ a \in Nat /\ c[i] \in File /\ s[i] = sec
    <3>1. i \in Nat \ {0} /\ i - 1 \in 0 .. Len(c)
      BY <1>1
    <3>2. off[i - 1] \in Nat
      BY <1>8, <3>1
    <3>3. c[i] \in File /\ s[i] = Section(c[i])
      BY <1>1, <1>2
    <3> QED
      BY <3>1, <3>2, <3>3
  <2>3. off[i] = a + Len(sec)
    BY <1>8, <2>2
  <2> HIDE DEF sec
  <2>4. h[0] = g[a] /\ h[Len(sec)] = g[off[i]]
    BY <2>1, <2>2, <2>3
  <2>5. ASSUME NEW j \in 1 .. Len(sec) PROVE h[j] = SplitLine(h[j - 1], sec[j])
    <3>1. a + j \in 1 .. Len(raw) /\ raw[a + j] = sec[j] /\ a + j - 1 = a + (j - 1)
      BY <1>8, <2>1, <2>2
    <3>2. j \in 0 .. Len(sec) /\ j - 1 \in 0 .. Len(sec)
      BY <2>1
    <3> HIDE DEF a
    <3>3. h[j] = g[a + j] /\ h[j - 1] = g[a + (j - 1)]
      BY <3>2
    <3> DEFINE n == a + j
    <3>4. g[n] = SplitLine(g[n - 1], raw[n])
      <4>1. n \in 1 .. Len(raw)
        BY <3>1
      <4> HIDE DEF n
      <4> QED
        BY <1>6, <4>1
    <3> HIDE DEF h
    <3> QED
      BY <2>2, <3>1, <3>3, <3>4
  <2>6. IsSplit(h[0]) /\ Held(t, c, i - 1) /\ t.buf \in Seq(LineSet)
    BY <1>10, <2>4 DEF Held, Blind
  <2> DEFINE p == HeaderPath(c[i])
  <2>7. t = Closed(h[0]) /\ sec[1].kind = "diff" /\ HeaderPath(sec[1]) = p
    BY <2>1
  <2> HIDE DEF h, a, t, p
  <2>8. h[Len(sec)] = [current |-> p, out |-> t.out,
                       buf |-> IF p = NoPath THEN Append(t.buf, sec[1]) ELSE t.buf \o sec]
    <3>1. /\ sec \in Seq(LineSet) /\ Len(sec) \in Nat \ {0}
          /\ sec[1].kind = "diff" /\ HeaderPath(sec[1]) = p
          /\ \A j \in 2 .. Len(sec) : sec[j].kind # "diff"
          /\ IsSplit(h[0]) /\ t = Closed(h[0]) /\ t.buf \in Seq(LineSet)
          /\ \A j \in 1 .. Len(sec) : h[j] = SplitLine(h[j - 1], sec[j])
      BY <2>1, <2>5, <2>6, <2>7
    <3>2. Cuts(h, sec, p, t)
      BY <3>1 DEF Cuts
    <3> QED
      BY <3>2, SplitSection
  <2>9. IsSplit(h[Len(sec)]) /\ Held(Closed(h[Len(sec)]), c, i)
    BY <2>2, <2>6, <2>8, HeldStep DEF sec, p
  <2> QED
    BY <2>4, <2>9, <2>7
<1> HIDE DEF Fine
<1>11. Fine(Len(c))
  <2> DEFINE T == {i \in 0 .. Len(c) : ~ Fine(i)}
  <2>1. T \subseteq Nat
    OBVIOUS
  <2>2. ASSUME T # {} PROVE FALSE
    <3>1. PICK i \in T : \A y \in T : i <= y
      <4> HIDE DEF T
      <4> QED
        BY <2>1, <2>2, LeastExists
    <3>2. i \in 0 .. Len(c) /\ ~ Fine(i) /\ i # 0
      BY <1>9
    <3>3. i \in 1 .. Len(c) /\ i - 1 \in 0 .. Len(c) /\ i - 1 < i
      BY <1>1, <3>2
    <3>4. i - 1 \notin T
      <4>1. i - 1 \in T => i <= i - 1
        BY <3>1
      <4> HIDE DEF T
      <4> QED
        BY <3>3, <4>1
    <3> QED
      BY <1>10, <3>2, <3>3, <3>4
  <2>3. Len(c) \in 0 .. Len(c)
    BY <1>1
  <2> QED
    BY <2>2, <2>3
<1> QED
  BY <1>1, <1>7, <1>8, <1>11 DEF Fine, Held

-----------------------------------------------------------------------------
(* Reading hunks *)

\* The recursion of ParseHunks over the first n lines.
Parses(g, patch, n) ==
  g = [k \in 0 .. n |-> IF k = 0 THEN EmptyParse ELSE ParseLine(g[k - 1], patch[k])]

\* There is a function the recursion defines.
LEMMA ParsesExists ==
  ASSUME NEW patch, NEW n \in Nat
  PROVE  \E g : Parses(g, patch, n)
<1> DEFINE T == {k \in 0 .. n : ~ \E g : Parses(g, patch, k)}
<1> SUFFICES ASSUME T # {} PROVE FALSE
  OBVIOUS
<1>1. T \subseteq Nat
  OBVIOUS
<1>2. PICK k \in T : \A y \in T : k <= y
  <2> HIDE DEF T
  <2> QED
    BY <1>1, LeastExists
<1>3. k # 0
  <2>1. Parses([i \in 0 .. 0 |-> EmptyParse], patch, 0)
    BY DEF Parses
  <2> QED
    BY <2>1
<1>4. k \in Nat /\ k - 1 \in 0 .. n /\ k - 1 \notin T
  BY <1>2, <1>3
<1>5. PICK f : Parses(f, patch, k - 1)
  BY <1>4
<1> DEFINE g == [i \in 0 .. k |-> IF i = 0 THEN EmptyParse ELSE ParseLine(f[i - 1], patch[i])]
<1>6. ASSUME NEW i \in 0 .. k - 1 PROVE g[i] = f[i]
  <2>1. f[i] = IF i = 0 THEN EmptyParse ELSE ParseLine(f[i - 1], patch[i])
    BY <1>5 DEF Parses
  <2>2. i \in 0 .. k
    BY <1>4
  <2> QED
    BY <2>1, <2>2
<1>7. g = [i \in 0 .. k |-> IF i = 0 THEN EmptyParse ELSE ParseLine(g[i - 1], patch[i])]
  <2>1. ASSUME NEW i \in 0 .. k, i # 0 PROVE g[i - 1] = f[i - 1]
    <3>1. i - 1 \in 0 .. k - 1
      BY <1>4, <2>1
    <3> HIDE DEF g
    <3> QED
      BY <1>6, <3>1
  <2> QED
    BY <2>1
<1>8. Parses(g, patch, k)
  <2> HIDE DEF g
  <2> QED
    BY <1>7 DEF Parses
<1> QED
  BY <1>2, <1>8

\* What ParseHunks returns.
LEMMA ParseDef ==
  ASSUME NEW patch, Len(patch) \in Nat
  PROVE  \E g : /\ g[0] = EmptyParse
                /\ \A n \in 1 .. Len(patch) : g[n] = ParseLine(g[n - 1], patch[n])
                /\ ParseHunks(patch) = g[Len(patch)].hunks
<1> DEFINE g == CHOOSE g : g = [k \in 0 .. Len(patch) |-> IF k = 0 THEN EmptyParse ELSE ParseLine(g[k - 1], patch[k])]
<1>1. ParseHunks(patch) = g[Len(patch)].hunks
  BY Zenon DEF ParseHunks
<1>2. \E f : f = [k \in 0 .. Len(patch) |-> IF k = 0 THEN EmptyParse ELSE ParseLine(f[k - 1], patch[k])]
  BY ParsesExists, Zenon DEF Parses
<1>3. g = [k \in 0 .. Len(patch) |-> IF k = 0 THEN EmptyParse ELSE ParseLine(g[k - 1], patch[k])]
  BY <1>2, Zenon
<1> HIDE DEF g
<1>4. \A n \in 1 .. Len(patch) : n \in 0 .. Len(patch) /\ n # 0
  OBVIOUS
<1>5. 0 \in 0 .. Len(patch)
  OBVIOUS
<1>6. g[0] = EmptyParse
  BY <1>3, <1>5, Zenon
<1>7. ASSUME NEW n \in 1 .. Len(patch) PROVE g[n] = ParseLine(g[n - 1], patch[n])
  BY <1>3, <1>4, Zenon
<1> QED
  BY <1>1, <1>6, <1>7


\* The parts of a state of the reading loop.
IsParse(s) == s = [current |-> s.current, hunks |-> s.hunks]

\* A hunk's range: ParseHunks gives a hunk that says 0 lines one line.
Stretch(n) == IF n = 0 THEN 1 ELSE n

\* What a line does.
LEMMA ParseParts ==
  ASSUME NEW s, IsParse(s), NEW l
  PROVE  /\ IsParse(ParseLine(s, l))
         /\ ParseLine(s, l).current =
              CASE l.kind = "diff" -> HeaderPath(l)
                [] l.kind = "---"  -> IF s.current = NoPath THEN Other ELSE s.current
                [] l.kind = "+++"  -> IF TriplePath(l) = NoPath THEN s.current ELSE TriplePath(l)
                [] OTHER -> s.current
         /\ ParseLine(s, l).hunks =
              IF l.kind = "@@" /\ s.current # NoPath
                THEN s.hunks \cup {[path |-> s.current, start |-> l.start, count |-> Stretch(l.count)]}
                ELSE s.hunks
<1> DEFINE c == s.current
<1> DEFINE h == s.hunks
<1>1. s = [current |-> c, hunks |-> h]
  BY DEF IsParse
<1> HIDE DEF c, h
<1>2. s.current = c /\ s.hunks = h
  BY <1>1
<1>3. CASE l.kind = "diff"
  <2> DEFINE x == HeaderPath(l)
  <2>1. ParseLine(s, l) = [s EXCEPT !.current = x]
    BY <1>3 DEF ParseLine
  <2> HIDE DEF x
  <2>2. ParseLine(s, l) = [current |-> x, hunks |-> h]
    BY <1>1, <2>1
  <2> QED
    BY <1>2, <1>3, <2>2 DEF IsParse, x
<1>4. CASE l.kind = "---"
  <2> DEFINE x == IF c = NoPath THEN Other ELSE c
  <2>1. ParseLine(s, l) = [s EXCEPT !.current = x]
    BY <1>2, <1>4 DEF ParseLine
  <2> HIDE DEF x
  <2>2. ParseLine(s, l) = [current |-> x, hunks |-> h]
    BY <1>1, <2>1
  <2> QED
    BY <1>2, <1>4, <2>2 DEF IsParse, x
<1>5. CASE l.kind = "+++"
  <2> DEFINE x == IF TriplePath(l) = NoPath THEN c ELSE TriplePath(l)
  <2>1. ParseLine(s, l) = [s EXCEPT !.current = x]
    BY <1>2, <1>5 DEF ParseLine
  <2> HIDE DEF x
  <2>2. ParseLine(s, l) = [current |-> x, hunks |-> h]
    BY <1>1, <2>1
  <2> QED
    BY <1>2, <1>5, <2>2 DEF IsParse, x
<1>6. CASE l.kind = "@@"
  <2> DEFINE x == h \cup {[path |-> c, start |-> l.start, count |-> Stretch(l.count)]}
  <2>1. ParseLine(s, l) = IF c = NoPath THEN s ELSE [s EXCEPT !.hunks = x]
    BY <1>2, <1>6 DEF ParseLine, Stretch
  <2> HIDE DEF x
  <2>2. ParseLine(s, l) = [current |-> c, hunks |-> IF c = NoPath THEN h ELSE x]
    BY <1>1, <2>1
  <2> QED
    BY <1>2, <1>6, <2>2 DEF IsParse, x
<1>7. CASE l.kind \notin {"diff", "---", "+++", "@@"}
  <2>1. ParseLine(s, l) = s
    BY <1>7 DEF ParseLine
  <2> QED
    BY <1>7, <2>1
<1> QED
  BY <1>3, <1>4, <1>5, <1>6, <1>7

\* g tells the states of the loop over some lines.
Reads(g, lines) ==
  /\ Len(lines) \in Nat
  /\ g[0] = EmptyParse
  /\ \A n \in 0 .. Len(lines) : IsParse(g[n])
  /\ \A n \in 1 .. Len(lines) : g[n] = ParseLine(g[n - 1], lines[n])
  /\ ParseHunks(lines) = g[Len(lines)].hunks

\* There are such states.
LEMMA ReadsExists ==
  ASSUME NEW lines, Len(lines) \in Nat
  PROVE  \E g : Reads(g, lines)
<1>1. PICK g : /\ g[0] = EmptyParse
               /\ \A n \in 1 .. Len(lines) : g[n] = ParseLine(g[n - 1], lines[n])
               /\ ParseHunks(lines) = g[Len(lines)].hunks
  BY ParseDef
<1> DEFINE T == {n \in 0 .. Len(lines) : ~ IsParse(g[n])}
<1>2. T \subseteq Nat
  OBVIOUS
<1>3. ASSUME T # {} PROVE FALSE
  <2>1. PICK n \in T : \A y \in T : n <= y
    <3> HIDE DEF T
    <3> QED
      BY <1>2, <1>3, LeastExists
  <2>2. n \in 0 .. Len(lines) /\ ~ IsParse(g[n])
    OBVIOUS
  <2>3. n # 0
    BY <1>1, <2>2 DEF IsParse, EmptyParse
  <2>4. n \in 1 .. Len(lines) /\ n - 1 \in 0 .. Len(lines) /\ n - 1 < n
    BY <2>2, <2>3
  <2>5. IsParse(g[n - 1])
    <3>1. n - 1 \in T => n <= n - 1
      BY <2>1
    <3>2. n - 1 \notin T
      <4> HIDE DEF T
      <4> QED
        BY <2>4, <3>1
    <3> QED
      BY <2>4, <3>2
  <2> DEFINE s == g[n - 1]
  <2> DEFINE l == lines[n]
  <2>6. g[n] = ParseLine(s, l) /\ IsParse(s)
    BY <1>1, <2>4, <2>5
  <2> HIDE DEF s, l
  <2> QED
    BY <2>2, <2>6, ParseParts
<1> QED
  BY <1>1, <1>3 DEF Reads

\* Line l takes state s to state r.
Turns(s, l, r) ==
  /\ l.kind = "diff" => r.current = HeaderPath(l)
  /\ l.kind = "---"  => r.current = IF s.current = NoPath THEN Other ELSE s.current
  /\ l.kind = "+++"  => r.current = IF TriplePath(l) = NoPath THEN s.current ELSE TriplePath(l)
  /\ l.kind \notin {"diff", "---", "+++"} => r.current = s.current
  /\ r.hunks = IF l.kind = "@@" /\ s.current # NoPath
                 THEN s.hunks \cup {[path |-> s.current, start |-> l.start, count |-> Stretch(l.count)]}
                 ELSE s.hunks

\* What one of the lines does.
LEMMA ReadsStep ==
  ASSUME NEW g, NEW lines, Reads(g, lines), NEW n \in 1 .. Len(lines)
  PROVE  Turns(g[n - 1], lines[n], g[n])
<1> DEFINE s == g[n - 1]
<1> DEFINE l == lines[n]
<1> DEFINE r == ParseLine(s, l)
<1>1. n - 1 \in 0 .. Len(lines)
  BY DEF Reads
<1>2. g[n] = r /\ IsParse(s)
  BY <1>1 DEF Reads
<1>3. Turns(s, l, r)
  <2> HIDE DEF s, l
  <2>1. /\ r.current =
             CASE l.kind = "diff" -> HeaderPath(l)
               [] l.kind = "---"  -> IF s.current = NoPath THEN Other ELSE s.current
               [] l.kind = "+++"  -> IF TriplePath(l) = NoPath THEN s.current ELSE TriplePath(l)
               [] OTHER -> s.current
        /\ r.hunks =
             IF l.kind = "@@" /\ s.current # NoPath
               THEN s.hunks \cup {[path |-> s.current, start |-> l.start, count |-> Stretch(l.count)]}
               ELSE s.hunks
    BY <1>2, ParseParts
  <2> HIDE DEF r
  <2> QED
    BY <2>1 DEF Turns
<1> HIDE DEF r
<1> QED
  BY <1>2, <1>3

\* Every range is read from a hunk's header.
LEMMA RangesAreRead ==
  ASSUME NEW g, NEW lines, Reads(g, lines), NEW h \in ParseHunks(lines)
  PROVE  \E n \in 1 .. Len(lines) :
           /\ lines[n].kind = "@@" /\ g[n - 1].current # NoPath
           /\ h = [path |-> g[n - 1].current, start |-> lines[n].start, count |-> Stretch(lines[n].count)]
<1> DEFINE T == {n \in 0 .. Len(lines) : h \in g[n].hunks}
<1>1. Len(lines) \in Nat /\ T \subseteq Nat /\ Len(lines) \in T
  BY DEF Reads
<1>2. PICK n \in T : \A y \in T : n <= y
  <2> HIDE DEF T
  <2> QED
    BY <1>1, LeastExists
<1>3. n \in 0 .. Len(lines) /\ h \in g[n].hunks
  OBVIOUS
<1>4. n # 0
  BY <1>3 DEF Reads, EmptyParse
<1>5. n \in 1 .. Len(lines) /\ n - 1 \in 0 .. Len(lines) /\ n - 1 < n
  BY <1>1, <1>3, <1>4
<1>6. h \notin g[n - 1].hunks
  <2>1. n - 1 \in T => n <= n - 1
    BY <1>2
  <2>2. n - 1 \notin T
    <3> HIDE DEF T
    <3> QED
      BY <1>5, <2>1
  <2> QED
    BY <1>5, <2>2
<1>7. Turns(g[n - 1], lines[n], g[n])
  BY <1>5, ReadsStep
<1> QED
  BY <1>3, <1>5, <1>6, <1>7 DEF Turns

\* No range is forgotten.
LEMMA RangesStay ==
  ASSUME NEW g, NEW lines, Reads(g, lines), NEW a \in 0 .. Len(lines), NEW h \in g[a].hunks
  PROVE  h \in ParseHunks(lines)
<1> DEFINE T == {n \in a .. Len(lines) : h \notin g[n].hunks}
<1>1. Len(lines) \in Nat /\ a \in Nat /\ T \subseteq Nat
  BY DEF Reads
<1>2. ASSUME T # {} PROVE FALSE
  <2>1. PICK n \in T : \A y \in T : n <= y
    <3> HIDE DEF T
    <3> QED
      BY <1>1, <1>2, LeastExists
  <2>2. n \in a .. Len(lines) /\ h \notin g[n].hunks /\ n # a
    OBVIOUS
  <2>3. n \in 1 .. Len(lines) /\ n - 1 \in 0 .. Len(lines) /\ n - 1 \in a .. Len(lines) /\ n - 1 < n
    BY <1>1, <2>2
  <2>4. h \in g[n - 1].hunks
    <3>1. n - 1 \in T => n <= n - 1
      BY <2>1
    <3>2. n - 1 \notin T
      <4> HIDE DEF T
      <4> QED
        BY <2>3, <3>1
    <3> QED
      BY <2>3, <3>2
  <2>5. Turns(g[n - 1], lines[n], g[n])
    BY <2>3, ReadsStep
  <2> QED
    BY <2>2, <2>4, <2>5 DEF Turns
<1>3. Len(lines) \in a .. Len(lines)
  BY <1>1
<1> QED
  BY <1>2, <1>3 DEF Reads

\* A name stays until a line that looks like the header of another file.
LEMMA NameStays ==
  ASSUME NEW g, NEW lines, Reads(g, lines), NEW a \in 0 .. Len(lines), NEW b \in a .. Len(lines),
         g[a].current # NoPath,
         \A n \in a + 1 .. b :
           /\ lines[n].kind # "diff"
           /\ lines[n].kind = "+++" => TriplePath(lines[n]) \in {NoPath, g[a].current}
  PROVE  g[b].current = g[a].current
<1> DEFINE T == {n \in a .. b : g[n].current # g[a].current}
<1>1. Len(lines) \in Nat /\ a \in Nat /\ b \in Nat /\ T \subseteq Nat
  BY DEF Reads
<1>2. ASSUME T # {} PROVE FALSE
  <2>1. PICK n \in T : \A y \in T : n <= y
    <3> HIDE DEF T
    <3> QED
      BY <1>1, <1>2, LeastExists
  <2>2. n \in a .. b /\ g[n].current # g[a].current /\ n # a
    OBVIOUS
  <2>3. n \in 1 .. Len(lines) /\ n \in a + 1 .. b /\ n - 1 \in 0 .. Len(lines) /\ n - 1 \in a .. b /\ n - 1 < n
    BY <1>1, <2>2
  <2>4. g[n - 1].current = g[a].current
    <3>1. n - 1 \in T => n <= n - 1
      BY <2>1
    <3>2. n - 1 \notin T
      <4> HIDE DEF T
      <4> QED
        BY <2>3, <3>1
    <3> QED
      BY <2>3, <3>2
  <2>5. Turns(g[n - 1], lines[n], g[n])
    BY <2>3, ReadsStep
  <2>6. lines[n].kind # "diff" /\ (lines[n].kind = "+++" => TriplePath(lines[n]) \in {NoPath, g[a].current})
    BY <2>3
  <2> QED
    BY <2>2, <2>4, <2>5, <2>6 DEF Turns
<1>3. b \in a .. b
  BY <1>1
<1> QED
  BY <1>2, <1>3

\* What is known of the name of a file that the diff names by its path.
LEMMA OrdinaryPath ==
  ASSUME NEW f \in File, Ordinary(f)
  PROVE  HeaderPath(f) = f.path /\ f.path \notin Quoted /\ f.path # NoPath /\ f.path # Other
<1>1. f.path \in Paths
  BY DEF File
<1> QED
  BY <1>1, DiffAnchorsAssumption DEF Ordinary

\* The lines of a file's own section, behind the headers that are left in the buffer.
LEMMA OwnLines ==
  ASSUME NEW f \in File, NEW q, Blind(q), NEW lines, lines = q \o Section(f)
  PROVE  /\ Len(q) \in Nat /\ Len(lines) = Len(q) + Len(Section(f))
         /\ \A n \in 1 .. Len(q) : lines[n].kind = "diff"
         /\ \A n \in 1 .. Len(Section(f)) : lines[Len(q) + n] = Section(f)[n]
         /\ \A n \in 1 .. Len(lines) : n \in 1 .. Len(q) \/ (\E j \in 1 .. Len(Section(f)) : n = Len(q) + j)
<1> DEFINE sec == Section(f)
<1>1. sec \in Seq(LineSet) /\ Len(sec) \in Nat
  BY SectionLines
<1> HIDE DEF sec
<1>2. q \in Seq(LineSet) /\ Len(q) \in Nat /\ \A n \in 1 .. Len(q) : q[n].kind = "diff"
  BY LenProperties DEF Blind
<1>3. /\ Len(q \o sec) = Len(q) + Len(sec)
      /\ \A n \in 1 .. Len(q) : (q \o sec)[n] = q[n]
      /\ \A n \in 1 .. Len(sec) : (q \o sec)[Len(q) + n] = sec[n]
  BY <1>1, <1>2, ConcatProperties
<1>4. lines = q \o sec
  BY DEF sec
<1>5. ASSUME NEW n \in 1 .. Len(q) + Len(sec), n \notin 1 .. Len(q)
      PROVE  \E j \in 1 .. Len(sec) : n = Len(q) + j
  <2>1. n - Len(q) \in 1 .. Len(sec) /\ n = Len(q) + (n - Len(q))
    BY <1>1, <1>2, <1>5
  <2> QED
    BY <2>1
<1> QED
  BY <1>2, <1>3, <1>4, <1>5 DEF sec

\* The ranges read from a file's own section are those of its hunks.
LEMMA OwnRangesOnly ==
  ASSUME NEW f \in File, NEW lines, OwnSection(lines, f), NEW h \in ParseHunks(lines)
  PROVE  \E m \in DOMAIN f.hunks :
           h.start = f.hunks[m].start /\ h.count = Stretch(NewCount(f.hunks[m]))
<1>1. PICK q : Blind(q) /\ lines = q \o Section(f)
  BY DEF OwnSection
<1>2. Len(q) \in Nat /\ Len(lines) \in Nat
  BY <1>1, OwnLines, SectionLines
<1>3. PICK g : Reads(g, lines)
  BY <1>2, ReadsExists
<1>4. PICK n \in 1 .. Len(lines) :
           /\ lines[n].kind = "@@" /\ g[n - 1].current # NoPath
           /\ h = [path |-> g[n - 1].current, start |-> lines[n].start, count |-> Stretch(lines[n].count)]
  BY <1>3, RangesAreRead
<1>5. n \notin 1 .. Len(q)
  BY <1>1, <1>4, OwnLines
<1>6. PICK j \in 1 .. Len(Section(f)) : n = Len(q) + j
  BY <1>1, <1>5, OwnLines
<1>7. lines[n] = Section(f)[j]
  BY <1>1, <1>6, OwnLines
<1>8. PICK m \in DOMAIN f.hunks :
        Section(f)[j].start = f.hunks[m].start /\ Section(f)[j].count = NewCount(f.hunks[m])
  <2>1. Section(f)[j].kind = "@@"
    BY <1>4, <1>7
  <2>2. \A k \in 1 .. Len(Section(f)) :
          Section(f)[k].kind = "@@" =>
            \E m \in DOMAIN f.hunks :
              Section(f)[k].start = f.hunks[m].start /\ Section(f)[k].count = NewCount(f.hunks[m])
    BY SectionLines
  <2> QED
    BY <2>1, <2>2
<1>9. h.start = lines[n].start /\ h.count = Stretch(lines[n].count)
  BY <1>4
<1> QED
  BY <1>7, <1>8, <1>9

\* The names that added lines which look like headers give in front of a hunk.
NamedBefore(f, m) ==
  {o.path : o \in UNION {{x \in ToSet(f.hunks[k].ops) : x.sign = "++"} : k \in 1 .. m - 1}}

\* Those in front of any hunk.
LEMMA NamedIsMisnamed ==
  ASSUME NEW f \in File, NEW m \in 1 .. Len(f.hunks)
  PROVE  NamedBefore(f, m) \subseteq Misnamed(f) \cup {NoPath}
<1>1. Len(f.hunks) \in Nat
  BY PatchPlaces
<1>2. \A k \in 1 .. m - 1 : k \in 1 .. Len(f.hunks) - 1
  BY <1>1
<1> QED
  BY <1>2 DEF NamedBefore, Misnamed

\* In front of a hunk, the patch has the lines of the hunks before it.
LEMMA PatchBefore ==
  ASSUME NEW f \in File, NEW off, Placed(off, f), NEW m \in 1 .. Len(f.hunks)
  PROVE  /\ off[m - 1] \in 0 .. Len(Patch(f)) - 1
         /\ Patch(f)[off[m - 1] + 1] =
              [kind |-> "@@", start |-> f.hunks[m].start, count |-> NewCount(f.hunks[m])]
         /\ \A n \in 1 .. off[m - 1] :
              /\ Patch(f)[n].kind # "diff"
              /\ Patch(f)[n].kind = "+++" => TriplePath(Patch(f)[n]) \in NamedBefore(f, m)
<1> DEFINE s == [k \in DOMAIN f.hunks |-> HunkLines(f.hunks[k])]
<1>1. DOMAIN f.hunks = 1 .. Len(f.hunks) /\ Len(f.hunks) \in Nat /\ \A k \in DOMAIN f.hunks : f.hunks[k] \in Hunk
  <2>1. f.hunks \in Seq(Hunk)
    BY DEF File
  <2> QED
    BY <2>1
<1>2. Offsets(off, s, Patch(f))
  BY DEF Placed
<1>3. DOMAIN s = 1 .. Len(f.hunks) /\ Len(s) = Len(f.hunks) /\ \A k \in DOMAIN f.hunks : s[k] = HunkLines(f.hunks[k])
  BY <1>1
<1> HIDE DEF s
<1>4. /\ \A k \in 0 .. Len(f.hunks) : off[k] \in Nat
      /\ \A k \in 1 .. Len(f.hunks) : off[k] = off[k - 1] + Len(s[k])
      /\ \A k \in 1 .. Len(f.hunks) : \A j \in 1 .. Len(s[k]) :
           off[k - 1] + j \in 1 .. Len(Patch(f)) /\ Patch(f)[off[k - 1] + j] = s[k][j]
      /\ \A n \in 1 .. Len(Patch(f)) :
           \E k \in 1 .. Len(f.hunks) : \E j \in 1 .. Len(s[k]) : n = off[k - 1] + j
  <2>1. /\ off \in [0 .. Len(s) -> Nat]
        /\ \A k \in 1 .. Len(s) : off[k] = off[k - 1] + Len(s[k])
        /\ \A k \in 1 .. Len(s) : \A j \in 1 .. Len(s[k]) :
             off[k - 1] + j \in 1 .. Len(Patch(f)) /\ Patch(f)[off[k - 1] + j] = s[k][j]
        /\ \A n \in 1 .. Len(Patch(f)) :
             \E k \in 1 .. Len(s) : \E j \in 1 .. Len(s[k]) : n = off[k - 1] + j
    BY <1>2, Zenon DEF Offsets
  <2> QED
    BY <1>3, <2>1
<1>5. ASSUME NEW k \in 1 .. Len(f.hunks)
      PROVE  /\ Len(s[k]) = 1 + Len(f.hunks[k].ops) /\ Len(f.hunks[k].ops) \in Nat
             /\ DOMAIN f.hunks[k].ops = 1 .. Len(f.hunks[k].ops)
             /\ s[k][1] = [kind |-> "@@", start |-> f.hunks[k].start, count |-> NewCount(f.hunks[k])]
             /\ \A i \in 1 .. Len(f.hunks[k].ops) : s[k][1 + i] = HunkLine(f.hunks[k].ops[i])
             /\ \A j \in 1 .. Len(s[k]) : j = 1 \/ (\E i \in 1 .. Len(f.hunks[k].ops) : j = 1 + i)
  <2> DEFINE h == f.hunks[k]
  <2>1. h \in Hunk /\ s[k] = HunkLines(h)
    BY <1>1, <1>3
  <2> HIDE DEF h
  <2>2. /\ Len(s[k]) = 1 + Len(h.ops) /\ Len(h.ops) \in Nat /\ DOMAIN h.ops = 1 .. Len(h.ops)
        /\ s[k][1] = [kind |-> "@@", start |-> h.start, count |-> NewCount(h)]
        /\ \A i \in 1 .. Len(h.ops) : s[k][1 + i] = HunkLine(h.ops[i])
        /\ \A j \in 1 .. Len(s[k]) : j = 1 \/ (\E i \in 1 .. Len(h.ops) : j = 1 + i)
    BY <2>1, HunkLinesAre, NewCountType
  <2> QED
    BY <2>2 DEF h
<1> DEFINE a == off[m - 1]
<1>6. a \in Nat /\ a + 1 \in 1 .. Len(Patch(f)) /\ Patch(f)[a + 1] = s[m][1]
  <2>1. 1 \in 1 .. Len(s[m])
    <3>1. Len(s[m]) = 1 + Len(f.hunks[m].ops) /\ Len(f.hunks[m].ops) \in Nat
      BY <1>5
    <3> QED
      BY <3>1
  <2>2. m - 1 \in 0 .. Len(f.hunks)
    BY <1>1
  <2> QED
    BY <1>4, <2>1, <2>2
<1>7. Len(Patch(f)) \in Nat
  BY PatchPlaces, LenProperties
<1>8. a \in 0 .. Len(Patch(f)) - 1
  <2> HIDE DEF a
  <2> QED
    BY <1>6, <1>7
<1>9. ASSUME NEW k \in m .. Len(f.hunks) PROVE off[k - 1] >= a
  <2> DEFINE T == {x \in m .. Len(f.hunks) : ~ (off[x - 1] >= a)}
  <2>1. T \subseteq Nat
    OBVIOUS
  <2>2. ASSUME T # {} PROVE FALSE
    <3>1. PICK x \in T : \A y \in T : x <= y
      <4> HIDE DEF T
      <4> QED
        BY <2>1, <2>2, LeastExists
    <3>2. x \in m .. Len(f.hunks) /\ ~ (off[x - 1] >= a)
      OBVIOUS
    <3>3. x # m
      <4>1. x = m => off[x - 1] = a
        OBVIOUS
      <4> HIDE DEF a
      <4> QED
        BY <1>6, <3>2, <4>1
    <3>4. x - 1 \in m .. Len(f.hunks) /\ x - 1 \in 1 .. Len(f.hunks) /\ x - 1 < x
          /\ x - 1 - 1 \in 0 .. Len(f.hunks) /\ x - 1 \in 0 .. Len(f.hunks)
      BY <1>1, <3>2, <3>3
    <3>5. off[x - 1] = off[x - 1 - 1] + Len(s[x - 1]) /\ off[x - 1 - 1] \in Nat /\ Len(s[x - 1]) \in Nat
      <4>1. Len(s[x - 1]) \in Nat
        BY <1>5, <3>4
      <4> QED
        BY <1>4, <3>4, <4>1
    <3>6. off[x - 1 - 1] >= a
      <4>1. x - 1 \in T => x <= x - 1
        BY <3>1
      <4>2. x - 1 \notin T
        <5>1. x \in Nat
          BY <2>1
        <5> HIDE DEF T
        <5> QED
          BY <4>1, <5>1
      <4> QED
        BY <3>4, <4>2
    <3> DEFINE o == off[x - 1]
    <3> DEFINE o1 == off[x - 1 - 1]
    <3> DEFINE d == Len(s[x - 1])
    <3>7. o = o1 + d /\ o1 \in Nat /\ d \in Nat /\ o1 >= a /\ ~ (o >= a)
      BY <3>2, <3>5, <3>6
    <3> HIDE DEF a, o, o1, d
    <3> QED
      BY <1>6, <3>7
  <2> QED
    BY <2>2
<1>10. ASSUME NEW n \in 1 .. a
       PROVE  /\ Patch(f)[n].kind # "diff"
              /\ Patch(f)[n].kind = "+++" => TriplePath(Patch(f)[n]) \in NamedBefore(f, m)
  <2> DEFINE L == Len(Patch(f))
  <2>1. n \in 1 .. Len(Patch(f))
    <3> HIDE DEF a
    <3> QED
      BY <1>7, <1>8
  <2>2. PICK k \in 1 .. Len(f.hunks) : \E j \in 1 .. Len(s[k]) : n = off[k - 1] + j
    BY <1>4, <2>1
  <2>3. PICK j \in 1 .. Len(s[k]) : n = off[k - 1] + j
    BY <2>2
  <2>4. Patch(f)[n] = s[k][j]
    BY <1>4, <2>3
  <2>5. k \in 1 .. m - 1
    <3>1. ASSUME k \in m .. Len(f.hunks) PROVE FALSE
      <4>1. off[k - 1] >= a /\ off[k - 1] \in Nat
        <5>1. k - 1 \in 0 .. Len(f.hunks)
          BY <1>1
        <5> QED
          BY <1>4, <1>9, <3>1, <5>1
      <4> DEFINE o == off[k - 1]
      <4>2. o >= a /\ o \in Nat /\ n = o + j /\ j \in Nat /\ j >= 1
        BY <1>5, <2>3, <4>1
      <4> HIDE DEF a, o
      <4> QED
        BY <1>6, <4>2
    <3> QED
      BY <1>1, <3>1
  <2>6. CASE j = 1
    <3>1. Patch(f)[n] = [kind |-> "@@", start |-> f.hunks[k].start, count |-> NewCount(f.hunks[k])]
      BY <1>5, <2>4, <2>6
    <3> QED
      BY <3>1
  <2>7. CASE j # 1
    <3>1. PICK i \in 1 .. Len(f.hunks[k].ops) : j = 1 + i
      BY <1>5, <2>7
    <3>2. Patch(f)[n] = HunkLine(f.hunks[k].ops[i])
      BY <1>5, <2>4, <3>1
    <3> DEFINE o == f.hunks[k].ops[i]
    <3>3. o \in ToSet(f.hunks[k].ops)
      <4>1. i \in DOMAIN f.hunks[k].ops
        BY <1>5
      <4> QED
        BY <4>1 DEF ToSet
    <3>4. o.sign = "++" => o.path \in NamedBefore(f, m)
      BY <2>5, <3>3 DEF NamedBefore
    <3>5. Patch(f)[n] = HunkLine(o)
      BY <3>2
    <3> HIDE DEF o
    <3> QED
      BY <3>4, <3>5 DEF HunkLine, TriplePath
  <2> QED
    BY <2>6, <2>7
<1> QED
  BY <1>1, <1>5, <1>6, <1>8, <1>10

\* A hunk behind no line that looks like a header is read under the file's name.
LEMMA OwnRangesRead ==
  ASSUME NEW f \in File, Ordinary(f), NEW lines, OwnSection(lines, f),
         NEW m \in 1 .. Len(f.hunks), NamedBefore(f, m) \subseteq {NoPath, f.path}
  PROVE  [path |-> f.path, start |-> f.hunks[m].start, count |-> Stretch(NewCount(f.hunks[m]))]
           \in ParseHunks(lines)
<1> DEFINE p == f.path
<1> DEFINE r == [path |-> p, start |-> f.hunks[m].start, count |-> Stretch(NewCount(f.hunks[m]))]
<1>1. PICK q : Blind(q) /\ lines = q \o Section(f)
  BY DEF OwnSection
<1>2. HeaderPath(f) = p /\ p \notin Quoted /\ p # NoPath /\ p # Other
  BY OrdinaryPath
<1>3. f.hunks # << >>
  OBVIOUS
<1> DEFINE b == Len(q)
<1>4. /\ Len(Section(f)) = 3 + Len(Patch(f)) /\ Len(Patch(f)) \in Nat
      /\ Section(f)[1].kind = "diff" /\ HeaderPath(Section(f)[1]) = HeaderPath(f)
      /\ Section(f)[2] = [kind |-> "---"]
      /\ Section(f)[3] = [kind |-> "+++", path |-> IF f.removed THEN NoPath ELSE p,
                          quoted |-> ~ f.removed /\ p \in Quoted]
      /\ \A n \in 1 .. Len(Patch(f)) : Section(f)[3 + n] = Patch(f)[n]
  BY <1>3, SectionLines, PatchPlaces, LenProperties
<1>5. /\ b \in Nat /\ Len(lines) = b + Len(Section(f))
      /\ \A n \in 1 .. Len(Section(f)) : lines[b + n] = Section(f)[n]
  BY <1>1, OwnLines
<1> HIDE DEF b
<1>6. /\ b + 1 \in 1 .. Len(lines) /\ b + 2 \in 1 .. Len(lines) /\ b + 3 \in 1 .. Len(lines)
      /\ lines[b + 1].kind = "diff" /\ HeaderPath(lines[b + 1]) = p
      /\ lines[b + 2] = [kind |-> "---"]
      /\ lines[b + 3].kind = "+++" /\ TriplePath(lines[b + 3]) \in {NoPath, p}
  <2>1. 1 \in 1 .. Len(Section(f)) /\ 2 \in 1 .. Len(Section(f)) /\ 3 \in 1 .. Len(Section(f))
    BY <1>4
  <2>2. lines[b + 1] = Section(f)[1] /\ lines[b + 2] = Section(f)[2] /\ lines[b + 3] = Section(f)[3]
    BY <1>5, <2>1
  <2>3. b + 1 \in 1 .. Len(lines) /\ b + 2 \in 1 .. Len(lines) /\ b + 3 \in 1 .. Len(lines)
    BY <1>4, <1>5
  <2>4. Section(f)[3].kind = "+++" /\ TriplePath(Section(f)[3]) \in {NoPath, p}
    <3>1. /\ Section(f)[3].path = (IF f.removed THEN NoPath ELSE p) /\ ~ Section(f)[3].quoted
          /\ Section(f)[3].kind = "+++"
      <4> DEFINE q3 == ~ f.removed /\ p \in Quoted
      <4> DEFINE p3 == IF f.removed THEN NoPath ELSE p
      <4>1. Section(f)[3] = [kind |-> "+++", path |-> p3, quoted |-> q3] /\ ~ q3
        BY <1>2, <1>4, Zenon
      <4> HIDE DEF q3, p3
      <4>2. Section(f)[3].quoted = q3 /\ Section(f)[3].path = p3 /\ Section(f)[3].kind = "+++"
        BY <4>1
      <4>3. ~ Section(f)[3].quoted
        BY <4>1, <4>2, Zenon
      <4> QED
        BY <4>2, <4>3, Zenon DEF p3
    <3> QED
      BY <3>1 DEF TriplePath
  <2> QED
    BY <1>2, <1>4, <2>2, <2>3, <2>4
<1>7. \A n \in 1 .. Len(Patch(f)) : b + 3 + n \in 1 .. Len(lines) /\ lines[b + 3 + n] = Patch(f)[n]
  <2> TAKE n \in 1 .. Len(Patch(f))
  <2>1. n \in Nat /\ n >= 1 /\ n <= Len(Patch(f))
    BY <1>4
  <2>2. 3 + n \in 1 .. Len(Section(f)) /\ b + 3 + n = b + (3 + n)
    <3> DEFINE c == Len(Patch(f))
    <3> DEFINE d == Len(Section(f))
    <3>1. d = 3 + c /\ c \in Nat /\ b \in Nat /\ n \in Nat /\ n >= 1 /\ n <= c
      BY <1>4, <1>5, <2>1
    <3> HIDE DEF c, d
    <3>2. 3 + n \in 1 .. d
      BY ONLY <3>1
    <3>3. b + 3 + n = b + (3 + n)
      BY ONLY <3>1
    <3> QED
      BY <3>2, <3>3 DEF d
  <2>3. lines[b + (3 + n)] = Section(f)[3 + n] /\ Section(f)[3 + n] = Patch(f)[n]
    BY <1>4, <1>5, <2>2
  <2>4. b + 3 + n \in 1 .. Len(lines)
    BY <1>4, <1>5, <2>1
  <2> QED
    BY <2>2, <2>3, <2>4
<1>8. PICK a \in 0 .. Len(Patch(f)) - 1 :
           /\ Patch(f)[a + 1] = [kind |-> "@@", start |-> f.hunks[m].start, count |-> NewCount(f.hunks[m])]
           /\ \A n \in 1 .. a :
                /\ Patch(f)[n].kind # "diff"
                /\ Patch(f)[n].kind = "+++" => TriplePath(Patch(f)[n]) \in {NoPath, p}
  <2>1. PICK off : Placed(off, f)
    BY PatchPlaces
  <2>2. /\ off[m - 1] \in 0 .. Len(Patch(f)) - 1
        /\ Patch(f)[off[m - 1] + 1] =
             [kind |-> "@@", start |-> f.hunks[m].start, count |-> NewCount(f.hunks[m])]
        /\ \A n \in 1 .. off[m - 1] :
             /\ Patch(f)[n].kind # "diff"
             /\ Patch(f)[n].kind = "+++" => TriplePath(Patch(f)[n]) \in NamedBefore(f, m)
    BY <2>1, PatchBefore
  <2> QED
    BY <2>2
<1>9. PICK g : Reads(g, lines)
  <2>1. Len(lines) \in Nat
    BY <1>4, <1>5
  <2> QED
    BY <2>1, ReadsExists
<1> HIDE DEF p
<1>10. g[b + 3].current = p
  <2> DEFINE n1 == b + 1
  <2> DEFINE n2 == b + 2
  <2> DEFINE n3 == b + 3
  <2>1. n1 \in 1 .. Len(lines) /\ n2 \in 1 .. Len(lines) /\ n3 \in 1 .. Len(lines) /\ n2 - 1 = n1 /\ n3 - 1 = n2
    BY <1>5, <1>6
  <2>2. /\ lines[n1].kind = "diff" /\ HeaderPath(lines[n1]) = p
        /\ lines[n2].kind = "---"
        /\ lines[n3].kind = "+++" /\ TriplePath(lines[n3]) \in {NoPath, p}
    BY <1>6
  <2> HIDE DEF n1, n2, n3
  <2>3. g[n1].current = p
    <3>1. Turns(g[n1 - 1], lines[n1], g[n1])
      BY <1>9, <2>1, ReadsStep
    <3> QED
      BY <1>2, <2>2, <3>1 DEF Turns
  <2>4. g[n2].current = p
    <3>1. Turns(g[n2 - 1], lines[n2], g[n2])
      BY <1>9, <2>1, ReadsStep
    <3> QED
      BY <1>2, <2>1, <2>2, <2>3, <3>1 DEF Turns
  <2>5. g[n3].current = p
    <3>1. Turns(g[n3 - 1], lines[n3], g[n3])
      BY <1>9, <2>1, ReadsStep
    <3> QED
      BY <1>2, <2>1, <2>2, <2>4, <3>1 DEF Turns
  <2> QED
    BY <2>5 DEF n3
<1> DEFINE e == b + 3 + a
<1>11. g[e].current = p
  <2> DEFINE x == b + 3
  <2>1. x \in 0 .. Len(lines) /\ e \in x .. Len(lines)
    BY <1>4, <1>5, <1>8
  <2>2. ASSUME NEW n \in x + 1 .. e
        PROVE  /\ lines[n].kind # "diff"
               /\ lines[n].kind = "+++" => TriplePath(lines[n]) \in {NoPath, p}
    <3> DEFINE k == n - x
    <3>1. k \in 1 .. a /\ k \in 1 .. Len(Patch(f)) /\ n = b + 3 + k
      BY <1>4, <1>5, <1>8
    <3> HIDE DEF k
    <3>2. lines[n] = Patch(f)[k]
      BY <1>7, <3>1
    <3> QED
      BY <1>8, <3>1, <3>2
  <2>3. g[x].current = p
    BY <1>10
  <2> HIDE DEF x, e
  <2> QED
    BY <1>2, <1>9, <2>1, <2>2, <2>3, NameStays
<1>12. /\ e + 1 \in 1 .. Len(lines) /\ e \in Nat
       /\ lines[e + 1] = [kind |-> "@@", start |-> f.hunks[m].start, count |-> NewCount(f.hunks[m])]
  <2>1. a + 1 \in 1 .. Len(Patch(f)) /\ b + 3 + (a + 1) = e + 1 /\ e \in Nat
    BY <1>4, <1>5, <1>8
  <2> HIDE DEF e
  <2> QED
    BY <1>7, <1>8, <2>1
<1> HIDE DEF e
<1>13. r \in g[e + 1].hunks
  <2> DEFINE n == e + 1
  <2>1. n \in 1 .. Len(lines) /\ n - 1 = e
    BY <1>12
  <2>2. lines[n] = [kind |-> "@@", start |-> f.hunks[m].start, count |-> NewCount(f.hunks[m])]
    BY <1>12
  <2>3. /\ n \in 1 .. Len(lines) /\ n - 1 = e /\ lines[n].kind = "@@"
        /\ lines[n].start = f.hunks[m].start /\ lines[n].count = NewCount(f.hunks[m])
    BY <2>1, <2>2
  <2> HIDE DEF n
  <2>4. g[n].hunks = g[e].hunks \cup {[path |-> g[e].current, start |-> lines[n].start, count |-> Stretch(lines[n].count)]}
    <3>1. Turns(g[n - 1], lines[n], g[n])
      BY <1>9, <2>3, ReadsStep
    <3> QED
      BY <1>2, <1>11, <2>3, <3>1 DEF Turns
  <2>5. r \in g[n].hunks
    BY <1>11, <2>3, <2>4
  <2> QED
    BY <2>5 DEF n
<1>14. r \in ParseHunks(lines)
  <2> DEFINE n == e + 1
  <2>1. n \in 0 .. Len(lines) /\ r \in g[n].hunks
    BY <1>12, <1>13
  <2> HIDE DEF n, r
  <2> QED
    BY <1>9, <2>1, RangesStay
<1> QED
  BY <1>14 DEF p

\* In the patch of a push, which has no headers, no hunk is read under the file's name,
\* unless an added line in front of it names the file.
LEMMA PatchUnread ==
  ASSUME NEW f \in File, f.path \notin Misnamed(f), NEW h \in ParseHunks(Patch(f))
  PROVE  h.path # f.path
<1> DEFINE lines == Patch(f)
<1> DEFINE p == f.path
<1>1. Len(lines) \in Nat
  BY PatchPlaces, LenProperties
<1>2. p # NoPath /\ p # Other
  BY DiffAnchorsAssumption DEF File
<1>3. PICK off : Placed(off, f)
  BY PatchPlaces
<1>4. PICK g : Reads(g, lines)
  BY <1>1, ReadsExists
<1>5. PICK n \in 1 .. Len(lines) : lines[n].kind = "@@" /\ h.path = g[n - 1].current
  <2>1. h \in ParseHunks(lines)
    OBVIOUS
  <2> HIDE DEF lines
  <2>2. PICK n \in 1 .. Len(lines) :
          /\ lines[n].kind = "@@" /\ g[n - 1].current # NoPath
          /\ h = [path |-> g[n - 1].current, start |-> lines[n].start, count |-> Stretch(lines[n].count)]
    BY <1>4, <2>1, RangesAreRead
  <2>3. h.path = g[n - 1].current
    BY <2>2
  <2> QED
    BY <2>2, <2>3
<1>6. PICK m \in 1 .. Len(f.hunks) : n = off[m - 1] + 1
  <2>1. DOMAIN f.hunks = 1 .. Len(f.hunks)
    BY PatchPlaces
  <2> QED
    BY <1>3, <1>5, <2>1, PatchLines
<1>7. /\ off[m - 1] \in 0 .. Len(lines) - 1
      /\ \A k \in 1 .. off[m - 1] :
           /\ lines[k].kind # "diff"
           /\ lines[k].kind = "+++" => TriplePath(lines[k]) \in NamedBefore(f, m)
  BY <1>3, PatchBefore
<1>8. n - 1 = off[m - 1] /\ n - 1 \in Nat /\ n - 1 <= Len(lines)
  <2> DEFINE o == off[m - 1]
  <2> DEFINE L == Len(lines)
  <2>1. o \in 0 .. L - 1 /\ n = o + 1 /\ L \in Nat
    BY <1>1, <1>6, <1>7
  <2> HIDE DEF o, L
  <2>2. n - 1 = o /\ n - 1 \in Nat /\ n - 1 <= L
    BY <2>1
  <2> QED
    BY <2>2 DEF o, L
<1>9. p \notin NamedBefore(f, m)
  BY <1>2, NamedIsMisnamed
<1> DEFINE e == n - 1
<1>10. /\ e \in Nat /\ e <= Len(lines)
       /\ \A k \in 1 .. e :
            /\ lines[k].kind # "diff"
            /\ lines[k].kind = "+++" => TriplePath(lines[k]) # p
  BY <1>1, <1>7, <1>8, <1>9
<1> HIDE DEF lines, p, e
<1> DEFINE T == {k \in 0 .. e : g[k].current = p}
<1>11. T \subseteq Nat
  OBVIOUS
<1>12. ASSUME T # {} PROVE FALSE
  <2>1. PICK k \in T : \A y \in T : k <= y
    <3> HIDE DEF T
    <3> QED
      BY <1>11, <1>12, LeastExists
  <2>2. k \in 0 .. e /\ g[k].current = p
    OBVIOUS
  <2>3. k # 0
    BY <1>2, <1>4, <2>2 DEF Reads, EmptyParse
  <2>4. k \in 1 .. e /\ k \in 1 .. Len(lines) /\ k - 1 \in 0 .. e /\ k - 1 < k
    BY <1>1, <1>10, <2>2, <2>3
  <2>5. g[k - 1].current # p
    <3>1. k - 1 \in T => k <= k - 1
      BY <2>1
    <3>2. k - 1 \notin T
      <4> HIDE DEF T
      <4> QED
        BY <2>4, <3>1
    <3> QED
      BY <2>4, <3>2
  <2>6. Turns(g[k - 1], lines[k], g[k])
    BY <1>4, <2>4, ReadsStep
  <2>7. lines[k].kind # "diff" /\ (lines[k].kind = "+++" => TriplePath(lines[k]) # p)
    BY <1>10, <2>4
  <2> QED
    BY <1>2, <2>2, <2>5, <2>6, <2>7 DEF Turns
<1>13. e \in 0 .. e
  BY <1>10
<1> QED
  BY <1>5, <1>12, <1>13 DEF e, p

-----------------------------------------------------------------------------
(* Findings and the diff *)

\* The new-side lines of a hunk.
ShownIn(h) ==
  {h.start + Cardinality({j \in 1 .. i - 1 : h.ops[j].sign \in NewSide}) :
     i \in {j \in DOMAIN h.ops : h.ops[j].sign \in NewSide}}

\* They are as many as the hunk's header says, one after the other from its start.
LEMMA ShownIsRange ==
  ASSUME NEW h \in Hunk, NEW x \in Int
  PROVE  x \in ShownIn(h) <=> x >= h.start /\ x < h.start + NewCount(h)
<1> DEFINE D == {i \in DOMAIN h.ops : h.ops[i].sign \in NewSide}
<1> DEFINE before == [i \in D |-> {j \in D : j < i}]
<1> DEFINE rank == [i \in D |-> Cardinality(before[i]) + 1]
<1>1. /\ DOMAIN h.ops = 1 .. Len(h.ops) /\ Len(h.ops) \in Nat /\ IsFiniteSet(D)
      /\ NewCount(h) = Cardinality(D) /\ NewCount(h) \in Nat /\ h.start \in Nat
  BY NewCountType DEF NewCount
<1>2. D \subseteq Nat
  BY <1>1
<1>3. ASSUME NEW i \in D PROVE {j \in 1 .. i - 1 : h.ops[j].sign \in NewSide} = before[i]
  <2>1. i \in 1 .. Len(h.ops) /\ i \in Nat
    BY <1>1
  <2>2. \A j : j \in 1 .. i - 1 <=> j \in 1 .. Len(h.ops) /\ j < i
    BY <1>1, <2>1
  <2> QED
    BY <1>1, <2>2
<1>4. ShownIn(h) = {h.start + Cardinality(before[i]) : i \in D}
  BY <1>3 DEF ShownIn
<1>5. DOMAIN before = D
  OBVIOUS
<1>6. Ranks(before)
  <2> HIDE DEF D
  <2> QED
    BY <1>1, <1>2, LessRanks
<1> HIDE DEF D, before
<1>7. /\ rank \in [D -> 1 .. Cardinality(D)]
      /\ \A n \in 1 .. Cardinality(D) : \E i \in D : rank[i] = n
  <2>1. rank = [i \in D |-> Cardinality(before[i]) + 1]
    OBVIOUS
  <2> HIDE DEF rank
  <2> QED
    BY <1>5, <1>6, <2>1, RankBijective
<1>8. \A i \in D : Cardinality(before[i]) \in Nat
  <2> TAKE i \in D
  <2>1. IsFiniteSet(before[i])
    BY <1>1, <1>5, <1>6, FS_Subset DEF Ranks
  <2> QED
    BY <2>1, FS_CardinalityType
<1>9. \A i \in D : rank[i] = Cardinality(before[i]) + 1
  OBVIOUS
<1> HIDE DEF rank
<1>10. ASSUME x \in ShownIn(h) PROVE x >= h.start /\ x < h.start + NewCount(h)
  <2>1. PICK i \in D : x = h.start + Cardinality(before[i])
    BY <1>4, <1>10
  <2>2. rank[i] \in 1 .. Cardinality(D) /\ rank[i] = Cardinality(before[i]) + 1 /\ Cardinality(before[i]) \in Nat
    BY <1>7, <1>8, <1>9
  <2> QED
    BY <1>1, <2>1, <2>2
<1>11. ASSUME x >= h.start, x < h.start + NewCount(h) PROVE x \in ShownIn(h)
  <2> DEFINE n == x - h.start + 1
  <2>1. n \in 1 .. Cardinality(D)
    BY <1>1, <1>11
  <2>2. PICK i \in D : rank[i] = n
    BY <1>7, <2>1
  <2>3. x = h.start + Cardinality(before[i])
    BY <1>1, <1>8, <1>9, <2>2
  <2> QED
    BY <1>4, <2>3
<1> QED
  BY <1>10, <1>11

\* A line is shown when a hunk shows it.
LEMMA ShownByHunk ==
  ASSUME NEW f \in File, NEW x
  PROVE  /\ x \in ShownLines(f) <=> \E m \in DOMAIN f.hunks : x \in ShownIn(f.hunks[m])
         /\ \A m \in DOMAIN f.hunks : f.hunks[m] \in Hunk
         /\ DOMAIN f.hunks = 1 .. Len(f.hunks) /\ Len(f.hunks) \in Nat
<1>1. f.hunks \in Seq(Hunk)
  BY DEF File
<1>2. ShownLines(f) = UNION {ShownIn(f.hunks[n]) : n \in DOMAIN f.hunks}
  BY DEF ShownLines, ShownIn
<1> QED
  BY <1>1, <1>2

\* The lines that the ranges read from a file's own section admit are shown.
LEMMA AdmittedIsShown ==
  ASSUME NEW f \in File, NEW lines, OwnSection(lines, f),
         \A m \in DOMAIN f.hunks : NewCount(f.hunks[m]) = 0 => f.hunks[m].start = 0,
         NEW hs, hs \subseteq ParseHunks(lines),
         NEW x \in Nat \ {0}, NewLineInDiff(hs, x)
  PROVE  x \in ShownLines(f)
<1>1. PICK h \in hs : x >= h.start /\ x < h.start + h.count
  BY DEF NewLineInDiff, Begins, Ends
<1>2. h \in ParseHunks(lines)
  OBVIOUS
<1>3. PICK m \in DOMAIN f.hunks : h.start = f.hunks[m].start /\ h.count = Stretch(NewCount(f.hunks[m]))
  BY <1>2, OwnRangesOnly
<1>4. f.hunks[m] \in Hunk
  BY ShownByHunk
<1>5. NewCount(f.hunks[m]) \in Nat /\ f.hunks[m].start \in Nat
  BY <1>4, NewCountType
<1>6. NewCount(f.hunks[m]) # 0
  BY <1>1, <1>3, <1>5 DEF Stretch
<1>7. x >= f.hunks[m].start /\ x < f.hunks[m].start + NewCount(f.hunks[m])
  BY <1>1, <1>3, <1>6 DEF Stretch
<1>8. x \in ShownIn(f.hunks[m])
  BY <1>4, <1>7, ShownIsRange
<1> QED
  BY <1>8, ShownByHunk

\* The other way round, when no line hides a hunk.
LEMMA ShownIsAdmitted ==
  ASSUME NEW f \in File, Ordinary(f), Misnamed(f) \subseteq {f.path},
         NEW lines, OwnSection(lines, f),
         NEW hs, hs = {h \in ParseHunks(lines) : h.path = f.path},
         NEW x \in Nat, x \in ShownLines(f)
  PROVE  NewLineInDiff(hs, x)
<1>1. PICK m \in DOMAIN f.hunks : x \in ShownIn(f.hunks[m])
  BY ShownByHunk
<1>2. f.hunks[m] \in Hunk /\ m \in 1 .. Len(f.hunks) /\ Len(f.hunks) \in Nat
  BY ShownByHunk
<1>3. NewCount(f.hunks[m]) \in Nat /\ f.hunks[m].start \in Nat
  BY <1>2, NewCountType
<1>4. x >= f.hunks[m].start /\ x < f.hunks[m].start + NewCount(f.hunks[m])
  BY <1>1, <1>2, ShownIsRange
<1>5. NamedBefore(f, m) \subseteq {NoPath, f.path}
  BY <1>2, NamedIsMisnamed
<1> DEFINE r == [path |-> f.path, start |-> f.hunks[m].start, count |-> Stretch(NewCount(f.hunks[m]))]
<1>6. r \in ParseHunks(lines)
  BY <1>2, <1>5, OwnRangesRead
<1>7. r.path = f.path /\ r.start = f.hunks[m].start /\ r.count = Stretch(NewCount(f.hunks[m]))
  OBVIOUS
<1> HIDE DEF r
<1>8. r \in hs
  BY <1>6, <1>7
<1>9. Begins(r, x) /\ Ends(r, x)
  BY <1>3, <1>4, <1>7 DEF Begins, Ends, Stretch
<1> QED
  BY <1>8, <1>9 DEF NewLineInDiff

\* A file with hunks has one that is read under its name.
LEMMA OwnRangeExists ==
  ASSUME NEW f \in File, Ordinary(f), f.hunks # << >>, NEW lines, OwnSection(lines, f)
  PROVE  {h \in ParseHunks(lines) : h.path = f.path} # {}
<1>1. f.hunks \in Seq(Hunk)
  BY DEF File
<1>2. 1 \in 1 .. Len(f.hunks) /\ NamedBefore(f, 1) = {}
  <2>1. 1 \in 1 .. Len(f.hunks) /\ \A k \in 1 .. 1 - 1 : FALSE
    BY <1>1, EmptySeq
  <2> QED
    BY <2>1 DEF NamedBefore
<1>3. [path |-> f.path, start |-> f.hunks[1].start, count |-> Stretch(NewCount(f.hunks[1]))] \in ParseHunks(lines)
  BY <1>2, OwnRangesRead
<1> QED
  BY <1>3

\* What is known once the diff is cut, and once a finding is judged.
DiffInv ==
  /\ mode \in {"pr", "push"} /\ files \in Diffs
  /\ phase \in {"filter", "skipped", "judge", "judged"}
  /\ phase \in {"judge", "judged"} =>
       diffByFile = IF mode = "pr" THEN SplitDiffByFile(RawDiff) ELSE Patches
  /\ phase = "judged" => finding \in Findings /\ (kept <=> Validated(finding))

\* The initial states have it, and every step keeps it.
LEMMA DiffInvHolds == DiffSpec => []DiffInv
<1>1. DiffInit => DiffInv
  BY DEF DiffInit, DiffInv
<1>2. DiffInv /\ [DiffNext]_diffVars => DiffInv'
  <2> SUFFICES ASSUME DiffInv, [DiffNext]_diffVars PROVE DiffInv'
    OBVIOUS
  <2>1. CASE Skip
    BY <2>1 DEF Skip, DiffInv
  <2>2. CASE Split
    <3>1. files' = files /\ mode' = mode /\ phase' = "judge"
      BY <2>2 DEF Split
    <3>2. RawDiff' = RawDiff /\ Patches' = Patches
      BY <3>1 DEF RawDiff, Patches, FilterFiles
    <3>3. diffByFile' = (IF mode = "pr" THEN SplitDiffByFile(RawDiff) ELSE Patches)
      BY <2>2 DEF Split
    <3> QED
      BY <3>1, <3>2, <3>3 DEF DiffInv
  <2>3. CASE Judge
    <3>1. files' = files /\ mode' = mode /\ diffByFile' = diffByFile /\ phase = "judge" /\ phase' = "judged"
      BY <2>3 DEF Judge
    <3>2. RawDiff' = RawDiff /\ Patches' = Patches
      BY <3>1 DEF RawDiff, Patches, FilterFiles
    <3>3. PICK f \in Findings : finding' = f /\ kept' = Validated(f)
      BY <2>3 DEF Judge
    <3>4. Validated(finding)' <=> Validated(f)
      BY <3>1, <3>3 DEF Validated, HunksOf
    <3> QED
      BY <3>1, <3>2, <3>3, <3>4 DEF DiffInv
  <2>4. CASE UNCHANGED diffVars
    <3>1. mode' = mode /\ files' = files /\ phase' = phase /\ diffByFile' = diffByFile /\ finding' = finding /\ kept' = kept
      BY <2>4 DEF diffVars
    <3>2. RawDiff' = RawDiff /\ Patches' = Patches /\ (Validated(finding)' <=> Validated(finding))
      BY <3>1 DEF RawDiff, Patches, FilterFiles, Validated, HunksOf
    <3> QED
      BY <3>1, <3>2 DEF DiffInv
  <2> QED
    BY <2>1, <2>2, <2>3, <2>4 DEF DiffNext
<1> QED
  BY <1>1, <1>2, PTL DEF DiffSpec

\* The diff of a pull request by path.
LEMMA PullRequestDiff ==
  ASSUME DiffInv, phase = "judged", mode = "pr"
  PROVE  /\ \A p \in DOMAIN diffByFile : \E i \in DOMAIN files : p = HeaderPath(files[i])
         /\ \A i \in Readable :
              /\ files[i] \in File /\ files[i].path \in DOMAIN diffByFile
              /\ OwnSection(diffByFile[files[i].path], files[i])
<1>1. files \in Seq(File)
  BY DiffAnchorsAssumption DEF DiffInv
<1>2. diffByFile = SplitDiffByFile(FlattenSeq([i \in DOMAIN files |-> Section(files[i])]))
  BY DEF DiffInv, RawDiff
<1>3. /\ \A p \in DOMAIN diffByFile : \E i \in DOMAIN files : p = HeaderPath(files[i])
      /\ \A i \in DOMAIN files :
           HeaderPath(files[i]) # NoPath /\ Unfollowed(files, i, Len(files)) =>
             /\ HeaderPath(files[i]) \in DOMAIN diffByFile
             /\ OwnSection(diffByFile[HeaderPath(files[i])], files[i])
  BY <1>1, <1>2, SplitFinds
<1>4. ASSUME NEW i \in Readable
      PROVE  /\ files[i] \in File /\ files[i].path \in DOMAIN diffByFile
             /\ OwnSection(diffByFile[files[i].path], files[i])
  <2>1. i \in DOMAIN files /\ Ordinary(files[i]) /\ ~ Clobbered(i)
    BY DEF Readable
  <2>2. files[i] \in File /\ files[i].path \in Paths
    <3>1. files[i] \in File
      BY <1>1, <2>1
    <3> QED
      BY <3>1 DEF File
  <2>3. HeaderPath(files[i]) = files[i].path /\ files[i].path # NoPath
    BY <2>1, <2>2, OrdinaryPath
  <2>4. Unfollowed(files, i, Len(files))
    <3>1. \A k \in i + 1 .. Len(files) : k \in DOMAIN files /\ k > i
      BY <1>1, <2>1
    <3> QED
      BY <2>1, <2>3, <3>1 DEF Unfollowed, Clobbered
  <2> QED
    BY <1>3, <2>1, <2>2, <2>3, <2>4
<1> QED
  BY <1>3, <1>4

\* The patches of a push by path, of which no hunk is read unless an added line names the file.
LEMMA PushDiff ==
  ASSUME DiffInv, phase = "judged", mode = "push"
  PROVE  /\ DOMAIN diffByFile = {files[i].path : i \in FilterFiles}
         /\ \A i \in FilterFiles : files[i].path \notin Misnamed(files[i]) => HunksOf(files[i].path) = {}
<1>1. files \in Seq(File)
  BY DiffAnchorsAssumption DEF DiffInv
<1>2. diffByFile = Patches
  BY DEF DiffInv
<1>3. DOMAIN diffByFile = {files[i].path : i \in FilterFiles}
  BY <1>2 DEF Patches
<1>4. ASSUME NEW i \in FilterFiles, files[i].path \notin Misnamed(files[i]) PROVE HunksOf(files[i].path) = {}
  <2> DEFINE p == files[i].path
  <2> DEFINE k == CHOOSE k \in FilterFiles : files[k].path = p
  <2>1. k \in FilterFiles /\ files[k].path = p
    OBVIOUS
  <2> HIDE DEF k
  <2>2. i \in DOMAIN files /\ k \in DOMAIN files /\ files[k].path = files[i].path
    BY <2>1 DEF FilterFiles
  <2>3. k = i
    <3>1. files \in Diffs
      BY DEF DiffInv
    <3> QED
      BY <2>2, <3>1, DiffAnchorsAssumption
  <2>4. diffByFile[p] = Patch(files[i])
    <3>1. diffByFile[p] = Patch(files[CHOOSE x \in FilterFiles : files[x].path = p])
      BY <1>2, <1>3 DEF Patches
    <3> QED
      BY <2>3, <3>1 DEF k
  <2>5. files[i] \in File
    BY <1>1, <2>2
  <2>6. \A h \in ParseHunks(diffByFile[p]) : h.path # p
    BY <1>4, <2>4, <2>5, PatchUnread
  <2> QED
    BY <2>6 DEF HunksOf
<1> QED
  BY <1>3, <1>4

\* A finding on a line that the diff shows is never lost, for a file that is not ignored and
\* whose text is not misread: in a pull request, whose header can be read and whose added lines
\* look like no other file's header; of a push, whose added lines do not look like its own
\* (finish, SplitDiffByFile, ParseHunks, NewLineInDiff): for all diffs, whatever their number
\* of files, hunks and lines.
THEOREM AnchoredFindingsKept == DiffSpec => []AnchoredKept
<1>1. DiffInv => AnchoredKept
  <2> SUFFICES ASSUME DiffInv, phase = "judged", NEW i \in DOMAIN files,
                      finding.file = files[i].path, files[i].path \notin Ignored,
                      finding.line = 0 \/ finding.line \in ShownLines(files[i]),
                      IF mode = "pr"
                        THEN i \in Readable /\ Misnamed(files[i]) \subseteq {files[i].path}
                        ELSE files[i].path \notin Misnamed(files[i])
               PROVE  kept
    BY DEF AnchoredKept
  <2>1. finding \in Findings /\ finding.line \in Nat /\ (kept <=> Validated(finding))
    <3>1. finding \in Findings /\ (kept <=> Validated(finding)) /\ MaxLine \in Nat
      BY DiffAnchorsAssumption DEF DiffInv
    <3> QED
      BY <3>1 DEF Findings
  <2>2. CASE mode = "push"
    <3>1. i \in FilterFiles
      BY DEF FilterFiles
    <3>2. finding.file \in DOMAIN diffByFile /\ HunksOf(finding.file) = {}
      BY <2>2, <3>1, PushDiff
    <3> QED
      BY <2>1, <3>2 DEF Validated
  <2>3. CASE mode = "pr" /\ i \in Readable /\ Misnamed(files[i]) \subseteq {files[i].path}
    <3>1. /\ files[i] \in File /\ files[i].path \in DOMAIN diffByFile
          /\ OwnSection(diffByFile[files[i].path], files[i]) /\ Ordinary(files[i])
      BY <2>3, PullRequestDiff DEF Readable
    <3>2. CASE finding.line = 0
      BY <2>1, <3>1, <3>2 DEF Validated
    <3>3. CASE finding.line \in ShownLines(files[i])
      <4>1. NewLineInDiff(HunksOf(finding.file), finding.line)
        <5> DEFINE f == files[i]
        <5> DEFINE x == finding.line
        <5> DEFINE lines == diffByFile[f.path]
        <5> DEFINE hs == HunksOf(f.path)
        <5>1. /\ f \in File /\ Ordinary(f) /\ Misnamed(f) \subseteq {f.path} /\ OwnSection(lines, f)
              /\ x \in Nat /\ x \in ShownLines(f)
          BY <2>1, <2>3, <3>1, <3>3
        <5>2. hs = {h \in ParseHunks(lines) : h.path = f.path}
          BY DEF HunksOf
        <5> HIDE DEF f, x, lines, hs
        <5>3. NewLineInDiff(hs, x)
          BY <5>1, <5>2, ShownIsAdmitted
        <5> QED
          BY <5>3 DEF f, x, hs
      <4> QED
        BY <2>1, <3>1, <4>1 DEF Validated
    <3> QED
      BY <3>2, <3>3
  <2> QED
    BY <2>2, <2>3 DEF DiffInv
<1> QED
  BY <1>1, DiffInvHolds, PTL

\* A finding of a push that stays names a changed file that is not ignored, on any line.  One of
\* a pull request names a changed file, or what the diff's text leaves of the name of one whose
\* header is misread, and it points at a line that the diff shows whenever it has a line, the
\* file has hunks and its section is its own (finish, pipeline.go:591-612).
THEOREM StrayFindingsDropped == DiffSpec => []StrayDropped
<1>1. DiffInv => StrayDropped
  <2> SUFFICES ASSUME DiffInv, phase = "judged", kept PROVE StrayDropped
    BY DEF StrayDropped
  <2>1. finding \in Findings /\ finding.line \in Nat /\ Validated(finding)
    <3>1. finding \in Findings /\ Validated(finding) /\ MaxLine \in Nat
      BY DiffAnchorsAssumption DEF DiffInv
    <3> QED
      BY <3>1 DEF Findings
  <2>2. finding.file \in DOMAIN diffByFile
    BY <2>1 DEF Validated
  <2>3. CASE mode = "push"
    <3>1. PICK i \in FilterFiles : finding.file = files[i].path
      BY <2>2, <2>3, PushDiff
    <3>2. i \in DOMAIN files /\ files[i].path \notin Ignored
      BY DEF FilterFiles
    <3> QED
      BY <2>3, <3>1, <3>2 DEF StrayDropped
  <2>4. CASE mode = "pr"
    <3>1. \E i \in DOMAIN files :
            \/ finding.file = files[i].path
            \/ ~ Ordinary(files[i]) /\ finding.file = HeaderPath(files[i])
      <4>1. PICK i \in DOMAIN files : finding.file = HeaderPath(files[i])
        BY <2>2, <2>4, PullRequestDiff
      <4>2. Ordinary(files[i]) => finding.file = files[i].path
        BY <4>1 DEF Ordinary
      <4> QED
        BY <4>1, <4>2
    <3>2. ASSUME NEW i \in Readable, finding.file = files[i].path, files[i].hunks # << >>, finding.line > 0
          PROVE  finding.line \in ShownLines(files[i])
      <4> DEFINE f == files[i]
      <4> DEFINE x == finding.line
      <4> DEFINE lines == diffByFile[f.path]
      <4> DEFINE hs == HunksOf(f.path)
      <4>1. f \in File /\ Ordinary(f) /\ OwnSection(lines, f) /\ f.hunks # << >> /\ x \in Nat \ {0}
        BY <2>1, <2>4, <3>2, PullRequestDiff DEF Readable
      <4>2. hs = {h \in ParseHunks(lines) : h.path = f.path}
        BY DEF HunksOf
      <4>3. \A m \in DOMAIN f.hunks : NewCount(f.hunks[m]) = 0 => f.hunks[m].start = 0
        <5>1. files \in Diffs /\ i \in DOMAIN files
          BY DEF DiffInv, Readable
        <5> QED
          BY <5>1, DiffAnchorsAssumption
      <4>4. x > 0 /\ hs # {} => NewLineInDiff(hs, x)
        BY <2>1, <3>2 DEF Validated
      <4> HIDE DEF f, x, lines, hs
      <4>5. hs # {}
        BY <4>1, <4>2, OwnRangeExists
      <4>6. NewLineInDiff(hs, x) /\ hs \subseteq ParseHunks(lines)
        BY <4>1, <4>2, <4>4, <4>5
      <4>7. x \in ShownLines(f)
        BY <4>1, <4>3, <4>6, AdmittedIsShown
      <4> QED
        BY <4>7 DEF f, x
    <3> QED
      BY <2>4, <3>1, <3>2 DEF StrayDropped
  <2> QED
    BY <2>3, <2>4 DEF DiffInv
<1> QED
  BY <1>1, DiffInvHolds, PTL

=============================================================================
