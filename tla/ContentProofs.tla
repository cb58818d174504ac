---------------------------- MODULE ContentProofs ----------------------------
(***************************************************************************)
(* Theorems about what Services computes from a site or a document: the    *)
(* answer of a map, the chunks.  Both are folds over sequences, so the     *)
(* module begins with the laws of FoldLeft and FlattenSeq: a fold is a     *)
(* walk, one step at each position, and a flattened sequence has every     *)
(* element in one place.  What a walk has done so far is a predicate of    *)
(* the position (MapUpTo, ParsedTo, CutTo, PackedTo, SectionsTo), and one  *)
(* step keeps it.                                                          *)
(***************************************************************************)
EXTENDS Services, Sums, SequenceTheorems

-----------------------------------------------------------------------------
(* Folds of sequences *)

\* What holds at zero and is kept by a step of one holds up to n.
LEMMA Climb ==
    ASSUME NEW n \in Nat, NEW T, 0 \in T, \A k \in 1..n : k - 1 \in T => k \in T
    PROVE  \A k \in 0..n : k \in T
<1> DEFINE bad == {k \in 0..n : k \notin T}
<1>1. SUFFICES ASSUME bad # {} PROVE FALSE
  OBVIOUS
<1>2. bad \subseteq Nat
  OBVIOUS
<1>3. PICK m \in bad : \A k \in bad : m <= k
  BY <1>1, <1>2, LeastNumber, Zenon
<1>4. m \in 1..n /\ m \notin T
  BY <1>3
<1>5. m - 1 \notin bad
  BY <1>3, <1>4
<1> QED
  BY <1>4, <1>5

\* A set of positions that is not empty has a first one.
LEMMA FirstPosition ==
    ASSUME NEW s, s \subseteq Nat, s # {}
    PROVE  Min(s) \in s /\ \A i \in s : Min(s) <= i
<1>1. \E x \in s : \A y \in s : x <= y
  BY LeastNumber
<1> QED
  BY <1>1 DEF Min

\* A set of positions that is not empty has a last one, and the rest are fewer.
LEMMA LastPosition ==
    ASSUME NEW n \in Nat, NEW s \in SUBSET (1..n), s # {}
    PROVE  Max(s) \in s /\ \A i \in s : i <= Max(s)
<1> DEFINE above == {m \in 0..n : \A i \in s : i <= m}
<1>1. above \subseteq Nat /\ n \in above
  OBVIOUS
<1>2. PICK m \in above : \A k \in above : m <= k
  BY <1>1, LeastNumber, Zenon
<1>3. m \in s
  <2>1. SUFFICES ASSUME m \notin s PROVE FALSE
    OBVIOUS
  <2>2. m \in 0..n /\ \A i \in s : i \in 1..n /\ i <= m /\ i # m
    BY <1>2, <2>1
  <2> HIDE DEF above
  <2>3. m \in 1..n
    <3>1. PICK i \in s : TRUE
      OBVIOUS
    <3> QED
      BY <2>2, <3>1
  <2> USE DEF above
  <2>4. \A i \in s : i <= m - 1
    BY <2>2
  <2>5. m - 1 \in above
    BY <2>3, <2>4
  <2> QED
    BY <1>2, <2>3, <2>5
<1>4. \E x \in s : \A y \in s : x >= y
  BY <1>2, <1>3
<1>5. Max(s) \in s /\ \A y \in s : Max(s) >= y
  BY <1>4 DEF Max
<1> QED
  BY <1>5

\* The last of the first k positions is k.
LEMMA LastOfFirst ==
    ASSUME NEW k \in Nat, k # 0
    PROVE  Max(1..k) = k /\ (1..k) \ {k} = 1..(k - 1) /\ 1..k # {}
<1>1. 1..k \in SUBSET (1..k) /\ 1 \in 1..k
  OBVIOUS
<1>2. Max(1..k) \in 1..k /\ \A i \in 1..k : i <= Max(1..k)
  BY <1>1, LastPosition
<1> QED
  BY <1>1, <1>2

\* Without its last position, a set of the first k is one of the first k - 1.
LEMMA WithoutLast ==
    ASSUME NEW n \in Nat, NEW k \in 1..n, NEW s \in SUBSET (1..k), s # {}
    PROVE  /\ Max(s) \in 1..n /\ s \ {Max(s)} \in SUBSET (1..(k - 1))
           /\ s \ {Max(s)} \in SUBSET (1..k)
<1>1. PICK m : m = Max(s)
  OBVIOUS
<1>2. k \in Nat /\ k <= n
  OBVIOUS
<1>3. m \in s /\ \A i \in s : i <= m
  BY <1>1, <1>2, LastPosition
<1>4. m \in 1..n /\ \A i \in s \ {m} : i \in 1..(k - 1)
  BY <1>2, <1>3
<1> QED
  BY <1>1, <1>4

\* The recursion a fold over n positions stands for, o giving one step of it.
FoldFun(o, base, n, g) ==
    g = [s \in SUBSET (1..n) |-> IF s = {} THEN base ELSE o[<<g[s \ {Max(s)}], Max(s)>>]]

\* Its value at positions that are not none, from the one without the last of them.
LEMMA FoldFunAt ==
    ASSUME NEW n \in Nat, NEW base, NEW o, NEW g, FoldFun(o, base, n, g), NEW s \in SUBSET (1..n), s # {}
    PROVE  /\ g[s] = o[<<g[s \ {Max(s)}], Max(s)>>]
           /\ Max(s) \in 1..n /\ s \ {Max(s)} \in SUBSET (1..n)
<1>1. Max(s) \in s
  BY LastPosition
<1>2. g[s] = IF s = {} THEN base ELSE o[<<g[s \ {Max(s)}], Max(s)>>]
  BY Zenon DEF FoldFun
<1> QED
  BY <1>1, <1>2

\* There is a function that satisfies it: for the first k positions, from the first k - 1.
LEMMA FoldExists ==
    ASSUME NEW n \in Nat, NEW A, NEW base \in A, NEW o \in [A \X (1..n) -> A]
    PROVE  \E g \in [SUBSET (1..n) -> A] : FoldFun(o, base, n, g)
<1> DEFINE StepOf(g, s) == IF s = {} THEN base ELSE o[<<g[s \ {Max(s)}], Max(s)>>]
           Solves(k) == \E g \in [SUBSET (1..k) -> A] : \A s \in SUBSET (1..k) : g[s] = StepOf(g, s)
           good == {k \in 0..n : Solves(k)}
<1>1. 0 \in good
  <2>1. [s \in SUBSET (1..0) |-> base] \in [SUBSET (1..0) -> A]
    OBVIOUS
  <2>2. \A s \in SUBSET (1..0) : s = {}
    OBVIOUS
  <2>3. Solves(0)
    <3> DEFINE g == [s \in SUBSET (1..0) |-> base]
    <3>1. g \in [SUBSET (1..0) -> A] /\ \A s \in SUBSET (1..0) : g[s] = StepOf(g, s)
      BY <2>1, <2>2
    <3> QED
      BY <3>1
  <2> HIDE DEF Solves
  <2> QED
    BY <2>3
<1>2. \A k \in 1..n : k - 1 \in good => k \in good
  <2> HIDE DEF Solves
  <2>1. SUFFICES ASSUME NEW k \in 1..n, Solves(k - 1) PROVE Solves(k)
    OBVIOUS
  <2> USE DEF Solves
  <2>2. PICK g \in [SUBSET (1..(k - 1)) -> A] : \A s \in SUBSET (1..(k - 1)) : g[s] = StepOf(g, s)
    BY <2>1
  <2> DEFINE low == SUBSET (1..(k - 1))
             h == [s \in SUBSET (1..k) |-> IF s \in low THEN g[s] ELSE StepOf(g, s)]
  <2>3. \A s \in SUBSET (1..k) : s # {} =>
           Max(s) \in 1..n /\ s \ {Max(s)} \in low /\ s \ {Max(s)} \in SUBSET (1..k)
    BY WithoutLast
  <2>4. \A s \in SUBSET (1..k) : StepOf(g, s) \in A
    BY <2>3
  <2>5. h \in [SUBSET (1..k) -> A]
    BY <2>4
  <2>6. \A s \in SUBSET (1..k) : h[s] = StepOf(g, s)
    BY <2>2
  <2>7. \A s \in SUBSET (1..k) : StepOf(h, s) = StepOf(g, s)
    BY <2>3
  <2> QED
    BY <2>5, <2>6, <2>7
<1>3. n \in good
  <2> HIDE DEF good
  <2> QED
    BY <1>1, <1>2, Climb
<1>4. PICK g \in [SUBSET (1..n) -> A] : \A s \in SUBSET (1..n) : g[s] = StepOf(g, s)
  BY <1>3
<1>5. FoldFun(o, base, n, g)
  BY <1>4 DEF FoldFun
<1> QED
  BY <1>4, <1>5

\* The recursion FlattenSeq stands for.
FlatFun(seqs, n, g) == g = [i \in 1..n |-> IF i = 1 THEN seqs[i] ELSE g[i - 1] \o seqs[i]]

\* There is a function that satisfies it.
LEMMA FlatExists ==
    ASSUME NEW n \in Nat, NEW A, NEW seqs \in [1..n -> Seq(A)]
    PROVE  \E g \in [1..n -> Seq(A)] : FlatFun(seqs, n, g)
<1> DEFINE Next1(g, i) == IF i = 1 THEN seqs[i] ELSE g[i - 1] \o seqs[i]
           Solves(k) == \E g \in [1..k -> Seq(A)] : \A i \in 1..k : g[i] = Next1(g, i)
           good == {k \in 0..n : Solves(k)}
<1>1. Solves(0)
  <2> DEFINE g == [i \in 1..0 |-> <<>>]
  <2>1. g \in [1..0 -> Seq(A)] /\ \A i \in 1..0 : g[i] = Next1(g, i)
    OBVIOUS
  <2> QED
    BY <2>1
<1>2. ASSUME NEW k \in 1..n, Solves(k - 1) PROVE Solves(k)
  <2>1. PICK g \in [1..(k - 1) -> Seq(A)] : \A i \in 1..(k - 1) : g[i] = Next1(g, i)
    BY <1>2
  <2> DEFINE h == [i \in 1..k |-> IF i \in 1..(k - 1) THEN g[i] ELSE Next1(g, i)]
  <2>2. \A i \in 1..k : i = 1 \/ i - 1 \in 1..(k - 1)
    OBVIOUS
  <2>3. \A i \in 1..k : Next1(g, i) \in Seq(A)
    <3>1. SUFFICES ASSUME NEW i \in 1..k PROVE Next1(g, i) \in Seq(A)
      OBVIOUS
    <3>2. seqs[i] \in Seq(A)
      OBVIOUS
    <3>3. CASE i = 1
      BY <3>2, <3>3
    <3>4. CASE i # 1
      <4>1. g[i - 1] \in Seq(A)
        BY <2>2, <3>4
      <4> QED
        BY <3>2, <3>4, <4>1, ConcatProperties
    <3> QED
      BY <3>3, <3>4
  <2>4. h \in [1..k -> Seq(A)]
    BY <2>3
  <2>5. \A i \in 1..k : h[i] = Next1(g, i)
    BY <2>1
  <2>6. \A i \in 1..k : Next1(h, i) = Next1(g, i)
    BY <2>2
  <2> QED
    BY <2>4, <2>5, <2>6
<1>3. n \in good
  <2> HIDE DEF Solves
  <2>1. 0 \in good
    BY <1>1
  <2>2. \A k \in 1..n : k - 1 \in good => k \in good
    BY <1>2
  <2> HIDE DEF good
  <2>3. \A k \in 0..n : k \in good
    BY <2>1, <2>2, Climb
  <2> QED
    BY <2>3
<1>4. PICK g \in [1..n -> Seq(A)] : \A i \in 1..n : g[i] = Next1(g, i)
  BY <1>3
<1> QED
  BY <1>4 DEF FlatFun

\* FlattenSeq puts the sequences one after the other.
LEMMA FlatRuns ==
    ASSUME NEW A, NEW seqs \in Seq(Seq(A))
    PROVE  \E v \in [0..Len(seqs) -> Seq(A)] :
              /\ v[0] = <<>> /\ \A k \in 1..Len(seqs) : v[k] = v[k - 1] \o seqs[k]
              /\ FlattenSeq(seqs) = v[Len(seqs)]
<1> DEFINE n == Len(seqs)
           g == CHOOSE f : FlatFun(seqs, n, f)
           v == [k \in 0..n |-> IF k = 0 THEN <<>> ELSE g[k]]
<1>1. n \in Nat /\ seqs \in [1..n -> Seq(A)]
  BY LenProperties
<1>2. FlatFun(seqs, n, g)
  BY <1>1, FlatExists
<1>3. FlattenSeq(seqs) = IF n = 0 THEN seqs ELSE g[n]
  BY Zenon DEF FlattenSeq, FlatFun
<1> HIDE DEF g, n
<1>4. v[0] = <<>> /\ \A k \in 1..n : v[k] = g[k]
  BY <1>1
<1>5. g = [i \in 1..n |-> IF i = 1 THEN seqs[i] ELSE g[i - 1] \o seqs[i]]
  BY <1>2 DEF FlatFun
<1>6. \A k \in 1..n : v[k] = v[k - 1] \o seqs[k]
  <2>1. SUFFICES ASSUME NEW k \in 1..n PROVE v[k] = v[k - 1] \o seqs[k]
    OBVIOUS
  <2> HIDE DEF v
  <2>2. v[k] = g[k]
    BY <1>4
  <2>3. v[k] = IF k = 1 THEN seqs[k] ELSE g[k - 1] \o seqs[k]
    BY <1>5, <2>2
  <2>4. seqs[k] \in Seq(A)
    BY <1>1
  <2>5. CASE k = 1
    <3>1. <<>> \o seqs[k] = seqs[k]
      BY <2>4, ConcatEmptySeq
    <3>2. k - 1 = 0 /\ v[0] = <<>>
      BY <1>4, <2>5
    <3> QED
      BY <2>3, <2>5, <3>1, <3>2, Zenon
  <2>6. CASE k # 1
    <3>1. k - 1 \in 1..n
      BY <1>1, <2>6
    <3> QED
      BY <1>4, <2>3, <2>6, <3>1
  <2> QED
    BY <2>5, <2>6
<1>7. \A k \in 0..n : v[k] \in Seq(A)
  <2> DEFINE typed == {k \in 0..n : v[k] \in Seq(A)}
  <2> HIDE DEF v
  <2>1. 0 \in typed
    <3>1. v[0] \in Seq(A) /\ 0 \in 0..n
      BY <1>1, <1>4, EmptySeq
    <3> QED
      BY <3>1
  <2>2. \A k \in 1..n : k - 1 \in typed => k \in typed
    <3>1. SUFFICES ASSUME NEW k \in 1..n, v[k - 1] \in Seq(A) PROVE v[k] \in Seq(A)
      BY <1>1
    <3> QED
      BY <1>1, <1>6, <3>1, ConcatProperties
  <2>3. \A k \in 0..n : k \in typed
    <3> HIDE DEF typed
    <3> QED
      BY <1>1, <2>1, <2>2, Climb
  <2> QED
    BY <2>3
<1>8. v \in [0..n -> Seq(A)]
  BY <1>7
<1>9. FlattenSeq(seqs) = v[n]
  <2>1. CASE n = 0
    BY <1>3, <1>4, <2>1, EmptySeq DEF n
  <2>2. CASE n # 0
    BY <1>1, <1>3, <1>4, <2>2
  <2> QED
    BY <2>1, <2>2
<1> QED
  BY <1>4, <1>6, <1>8, <1>9 DEF n

\* A fold is a walk over the sequence, one step at each position.
LEMMA FlatTyped ==
    ASSUME NEW A, NEW seqs \in Seq(Seq(A))
    PROVE  FlattenSeq(seqs) \in Seq(A)
<1>1. Len(seqs) \in 0..Len(seqs)
  BY LenProperties
<1>2. PICK v \in [0..Len(seqs) -> Seq(A)] : FlattenSeq(seqs) = v[Len(seqs)]
  BY FlatRuns, Zenon
<1> QED
  BY <1>1, <1>2

\* What a fold is at the first k positions is one step from what it is at the first k - 1.
FoldSteps(n, A, base, o, g) ==
    /\ n \in Nat /\ base \in A /\ o \in [A \X (1..n) -> A]
    /\ g[{}] = base
    /\ \A k \in 1..n : g[1..(k - 1)] \in A => g[1..k] = o[<<g[1..(k - 1)], k>>]
FoldTrace(n, A, base, o, v) ==
    v[0] = base /\ \A k \in 1..n : v[k] = o[<<v[k - 1], k>>]

\* So it is a walk over the sequence, one step at each position.
LEMMA FoldWalk ==
    ASSUME NEW n, NEW A, NEW base, NEW o, NEW g, FoldSteps(n, A, base, o, g)
    PROVE  \E v \in [0..n -> A] : FoldTrace(n, A, base, o, v) /\ v[n] = g[1..n]
<1> USE DEF FoldSteps, FoldTrace
<1> DEFINE v == [k \in 0..n |-> g[1..k]]
           typed == {k \in 0..n : v[k] \in A}
<1>1. v[0] = base /\ v[n] = g[1..n]
  <2>1. 1..0 = {} /\ 0 \in 0..n /\ n \in 0..n
    OBVIOUS
  <2> QED
    BY <2>1
<1>2. \A k \in 1..n : v[k - 1] \in A => v[k] = o[<<v[k - 1], k>>] /\ v[k] \in A
  <2>1. SUFFICES ASSUME NEW k \in 1..n, v[k - 1] \in A
                 PROVE  v[k] = o[<<v[k - 1], k>>] /\ v[k] \in A
    OBVIOUS
  <2>2. v[k - 1] = g[1..(k - 1)] /\ v[k] = g[1..k]
    OBVIOUS
  <2>3. v[k] = o[<<v[k - 1], k>>]
    BY <2>1, <2>2
  <2> HIDE DEF v
  <2> QED
    BY <2>1, <2>3
<1>3. \A k \in 0..n : k \in typed
  <2> HIDE DEF v
  <2>1. 0 \in typed
    BY <1>1
  <2>2. \A k \in 1..n : k - 1 \in typed => k \in typed
    <3>1. \A k \in 1..n : k \in 0..n
      OBVIOUS
    <3> QED
      BY <1>2, <3>1
  <2> HIDE DEF typed
  <2> QED
    BY <2>1, <2>2, Climb
<1>4. v \in [0..n -> A]
  BY <1>3
<1>5. \A k \in 1..n : v[k] = o[<<v[k - 1], k>>]
  <2> HIDE DEF v
  <2>1. \A k \in 1..n : v[k - 1] \in A
    BY <1>3
  <2> QED
    BY <1>2, <2>1
<1> QED
  BY <1>1, <1>4, <1>5

-----------------------------------------------------------------------------
(* The map of a site: what the sitemaps give *)

FileRow == [ok : BOOLEAN, urls : Seq(Hrefs)]

\* What _parse_sitemap makes of a file, given g for the files it names.
FileOf(dead, g, f) ==
    [ok |-> f \notin dead /\ \A i \in DOMAIN Children[f] : g[Children[f][i]].ok,
     urls |-> Listed[f] \o FlattenSeq([i \in DOMAIN Children[f] |-> g[Children[f][i]].urls])]

\* The children of an index are files, in a sequence.
LEMMA ChildrenAre ==
    \A f \in Files : /\ Len(Children[f]) \in Nat /\ DOMAIN Children[f] = 1..Len(Children[f])
                     /\ \A i \in DOMAIN Children[f] : Children[f][i] \in Files
BY SitemapAssumption

\* A file whose children are rows is a row.
LEMMA FileTyped ==
    ASSUME NEW dead, NEW f \in Files, NEW g, \A i \in DOMAIN Children[f] : g[Children[f][i]] \in FileRow
    PROVE  FileOf(dead, g, f) \in FileRow
<1> DEFINE n == Len(Children[f])
           parts == [i \in DOMAIN Children[f] |-> g[Children[f][i]].urls]
<1>1. n \in Nat /\ DOMAIN Children[f] = 1..n
  BY ChildrenAre
<1>2. parts \in Seq(Seq(Hrefs))
  BY <1>1 DEF FileRow
<1>3. FlattenSeq(parts) \in Seq(Hrefs)
  BY <1>2, FlatTyped
<1>4. Listed[f] \in Seq(Hrefs)
  BY SitemapAssumption
<1> HIDE DEF parts
<1>5. Listed[f] \o FlattenSeq(parts) \in Seq(Hrefs)
  BY <1>3, <1>4, ConcatProperties
<1> QED
  BY <1>5 DEF FileOf, FileRow, parts

\* Files that agree on the children give the same row.
LEMMA FileSame ==
    ASSUME NEW dead, NEW f \in Files, NEW g, NEW h,
           \A i \in DOMAIN Children[f] : g[Children[f][i]] = h[Children[f][i]]
    PROVE  FileOf(dead, g, f) = FileOf(dead, h, f)
<1>1. [i \in DOMAIN Children[f] |-> g[Children[f][i]].urls]
        = [i \in DOMAIN Children[f] |-> h[Children[f][i]].urls]
  OBVIOUS
<1>2. (\A i \in DOMAIN Children[f] : g[Children[f][i]].ok)
        <=> (\A i \in DOMAIN Children[f] : h[Children[f][i]].ok)
  OBVIOUS
<1> QED
  BY <1>1, <1>2 DEF FileOf

\* ParseSitemap is a function that satisfies its equation, if there is one.
LEMMA ParseUnfold ==
    ASSUME NEW dead
    PROVE  ParseSitemap(dead) = CHOOSE g : g = [f \in Files |-> FileOf(dead, g, f)]
BY Zenon DEF ParseSitemap, FileOf

\* Every file is parsed: an index after its children, which are less deep.
LEMMA ParseTyped ==
    ASSUME NEW dead
    PROVE  \A f \in Files : ParseSitemap(dead)[f] \in FileRow
<1>1. PICK depth \in [Files -> 0..Cardinality(Files)] :
          \A f \in Files : \A i \in DOMAIN Children[f] : depth[Children[f][i]] < depth[f]
  BY SitemapAssumption
<1>2. PICK n \in Nat : n = Cardinality(Files) + 1 /\ depth \in [Files -> 0..(n - 1)]
  <2>1. PICK c \in Nat : c = Cardinality(Files)
    BY SitemapAssumption, FS_CardinalityType
  <2>2. c + 1 \in Nat /\ (c + 1) - 1 = c
    OBVIOUS
  <2> QED
    BY <2>1, <2>2
<1> DEFINE Low(k) == {f \in Files : depth[f] < k}
           Solves(k) == \E g \in [Low(k) -> FileRow] : \A f \in Low(k) : g[f] = FileOf(dead, g, f)
           good == {k \in 0..n : Solves(k)}
<1>3. Solves(0)
  <2>1. Low(0) = {}
    BY <1>2
  <2> DEFINE g == [f \in {} |-> 0]
  <2>2. g \in [{} -> FileRow] /\ \A f \in {} : g[f] = FileOf(dead, g, f)
    OBVIOUS
  <2> QED
    BY <2>1, <2>2, Zenon
<1>4. ASSUME NEW k \in 1..n, Solves(k - 1) PROVE Solves(k)
  <2>1. PICK g \in [Low(k - 1) -> FileRow] : \A f \in Low(k - 1) : g[f] = FileOf(dead, g, f)
    BY <1>4
  <2> DEFINE h == [f \in Low(k) |-> IF f \in Low(k - 1) THEN g[f] ELSE FileOf(dead, g, f)]
  <2>2. \A f \in Low(k) : \A i \in DOMAIN Children[f] : Children[f][i] \in Low(k - 1) \cap Low(k)
    BY <1>1, <1>2, ChildrenAre
  <2>3. \A f \in Low(k) : FileOf(dead, g, f) \in FileRow
    <3>1. SUFFICES ASSUME NEW f \in Low(k) PROVE FileOf(dead, g, f) \in FileRow
      OBVIOUS
    <3>2. f \in Files /\ \A i \in DOMAIN Children[f] : g[Children[f][i]] \in FileRow
      BY <2>2
    <3> QED
      BY <3>2, FileTyped
  <2> HIDE DEF Low
  <2>4. h \in [Low(k) -> FileRow]
    BY <2>3
  <2>5. \A f \in Low(k) : h[f] = FileOf(dead, g, f)
    BY <2>1
  <2>6. \A f \in Low(k - 1) \cap Low(k) : h[f] = g[f]
    OBVIOUS
  <2>7. \A f \in Low(k) : FileOf(dead, h, f) = FileOf(dead, g, f)
    <3> HIDE DEF h
    <3>1. SUFFICES ASSUME NEW f \in Low(k) PROVE FileOf(dead, h, f) = FileOf(dead, g, f)
      OBVIOUS
    <3>2. f \in Files /\ \A i \in DOMAIN Children[f] : h[Children[f][i]] = g[Children[f][i]]
      BY <2>2, <2>6 DEF Low
    <3> QED
      BY <3>2, FileSame
  <2> HIDE DEF h
  <2> QED
    BY <2>4, <2>5, <2>7
<1>5. Solves(n)
  <2> HIDE DEF Solves
  <2>1. 0 \in good
    BY <1>3
  <2>2. \A k \in 1..n : k - 1 \in good => k \in good
    BY <1>4
  <2> HIDE DEF good
  <2>3. \A k \in 0..n : k \in good
    BY <2>1, <2>2, Climb
  <2> QED
    BY <2>3 DEF good
<1>6. Low(n) = Files
  BY <1>2
<1>7. PICK g \in [Files -> FileRow] : \A f \in Files : g[f] = FileOf(dead, g, f)
  BY <1>5, <1>6
<1> DEFINE parse == ParseSitemap(dead)
<1>8. parse = [f \in Files |-> FileOf(dead, parse, f)]
  <2>1. g = [f \in Files |-> FileOf(dead, g, f)]
    BY <1>7
  <2> QED
    BY <2>1, ParseUnfold, Zenon
<1> HIDE DEF parse
<1> DEFINE bad == {f \in Files : parse[f] \notin FileRow}
           depths == {depth[f] : f \in bad}
<1>9. bad = {}
  <2>1. SUFFICES ASSUME bad # {} PROVE FALSE
    OBVIOUS
  <2>2. depths \subseteq Nat /\ depths # {}
    BY <1>2, <2>1
  <2>3. PICK m \in depths : \A d \in depths : m <= d
    BY <2>2, LeastNumber, Zenon
  <2>4. PICK f \in bad : m = depth[f]
    BY <2>3
  <2>5. \A i \in DOMAIN Children[f] : Children[f][i] \in Files /\ Children[f][i] \notin bad
    <3>1. \A i \in DOMAIN Children[f] : Children[f][i] \in Files /\ depth[Children[f][i]] < depth[f]
      BY <1>1, <2>4, ChildrenAre
    <3>2. \A c \in bad : depth[c] \in depths /\ depth[c] \in Nat /\ depth[f] \in Nat
      BY <2>2, <2>4
    <3> HIDE DEF bad, depths
    <3>3. \A c \in bad : ~(depth[c] < depth[f])
      BY <2>3, <2>4, <3>2
    <3> QED
      BY <3>1, <3>3
  <2>6. \A i \in DOMAIN Children[f] : parse[Children[f][i]] \in FileRow
    BY <2>5
  <2>7. f \in Files /\ parse[f] \notin FileRow
    BY <2>4
  <2>8. parse[f] = FileOf(dead, parse, f)
    BY <1>8, <2>7
  <2> QED
    BY <2>6, <2>7, <2>8, FileTyped
<1> QED
  BY <1>9 DEF parse
\* The files looked at are files.
LEMMA FilesAre ==
    ASSUME NEW dead
    PROVE  SitemapFiles(dead) \in Seq(Files)
<1> DEFINE standard == IF StandardMap \in ToSet(RobotsMaps) \cup dead THEN <<>> ELSE <<StandardMap>>
           named == RobotsMaps \o standard
           live == {i \in DOMAIN CommonMaps : CommonMaps[i] \notin dead}
           probed == IF live = {} THEN <<>> ELSE <<CommonMaps[Min(live)]>>
<1>1. RobotsMaps \in Seq(Files) /\ CommonMaps \in Seq(Files) /\ StandardMap \in Files
  BY SitemapAssumption
<1>2. standard \in Seq(Files)
  BY <1>1, EmptySeq
<1>3. named \in Seq(Files)
  BY <1>1, <1>2, ConcatProperties
<1>4. probed \in Seq(Files)
  <2>1. CASE live = {}
    BY <2>1, EmptySeq
  <2>2. CASE live # {}
    <3>1. live \subseteq 1..Len(CommonMaps) /\ live \subseteq Nat
      BY <1>1
    <3>2. Min(live) \in live
      BY <2>2, <3>1, FirstPosition
    <3>3. CommonMaps[Min(live)] \in Files
      BY <1>1, <3>1, <3>2
    <3> QED
      BY <2>2, <3>3
  <2> QED
    BY <2>1, <2>2
<1>5. SitemapFiles(dead) = IF named # <<>> THEN named ELSE probed
  BY Zenon DEF SitemapFiles
<1> QED
  BY <1>3, <1>4, <1>5

\* What they name is a sequence of URLs.
LEMMA UrlsGathered ==
    ASSUME NEW dead, NEW feeds
    PROVE  SitemapUrls(dead, feeds) \in Seq(Hrefs)
<1> DEFINE files == SitemapFiles(dead)
           page(i) == IF ParseSitemap(dead)[files[i]].ok THEN ParseSitemap(dead)[files[i]].urls ELSE <<>>
           pages == [i \in DOMAIN files |-> page(i)]
           first == IF feeds THEN FeedPages ELSE <<>>
<1>1. PICK n \in Nat : DOMAIN files = 1..n /\ \A i \in 1..n : files[i] \in Files
  BY FilesAre
<1> HIDE DEF files
<1>2. \A i \in 1..n : page(i) \in Seq(Hrefs)
  <2>1. SUFFICES ASSUME NEW i \in 1..n PROVE page(i) \in Seq(Hrefs)
    OBVIOUS
  <2>2. ParseSitemap(dead)[files[i]] \in FileRow
    BY <1>1, ParseTyped
  <2> QED
    BY <2>2, EmptySeq DEF FileRow
<1> HIDE DEF page
<1>3. pages \in Seq(Seq(Hrefs))
  BY <1>1, <1>2
<1>4. FlattenSeq(pages) \in Seq(Hrefs)
  BY <1>3, FlatTyped
<1>5. first \in Seq(Hrefs)
  BY SitemapAssumption, EmptySeq
<1> HIDE DEF pages, first
<1>6. first \o FlattenSeq(pages) \in Seq(Hrefs)
  BY <1>4, <1>5, ConcatProperties
<1>7. SitemapUrls(dead, feeds) = first \o FlattenSeq(pages)
  BY Zenon DEF SitemapUrls, first, pages, page, files
<1> QED
  BY <1>6, <1>7

-----------------------------------------------------------------------------
(* The map of a site: the search in the browser *)

JsBound == MaxJsPages * FrontierFactor

\* One link of a rendered page is enqueued or not.
LinkQueued(seen, acc, href) ==
    IF /\ Cardinality(seen) + Len(acc) < JsBound
       /\ href \in SameSite /\ KeyOf[href] \notin seen
    THEN Append(acc, href) ELSE acc

\* The bound is at least one.
LEMMA BoundIs == JsBound \in Nat /\ JsBound >= 1
<1>1. MaxJsPages \in Nat \ {0} /\ FrontierFactor \in Nat \ {0}
  BY DiscoverAssumption
<1>2. \A m, n \in Nat \ {0} : m * n \in Nat /\ m * n >= 1
  OBVIOUS
<1> QED
  BY <1>1, <1>2 DEF JsBound

\* The links of a page keep the frontier within the bound.
LEMMA EnqueuedBound ==
    ASSUME NEW seen, Cardinality(seen) \in Nat, NEW queue \in Seq(Hrefs), NEW links \in Seq(Hrefs),
           Cardinality(seen) + Len(queue) <= JsBound
    PROVE  /\ Enqueued(seen, queue, links) \in Seq(Hrefs)
           /\ Cardinality(seen) + Len(Enqueued(seen, queue, links)) <= JsBound
<1> DEFINE n == Len(links)
           fits == {q \in Seq(Hrefs) : Cardinality(seen) + Len(q) <= JsBound}
           o == [p \in fits \X (1..n) |-> LinkQueued(seen, p[1], links[p[2]])]
           Solves(g) == g = [s \in SUBSET DOMAIN links |-> IF s = {} THEN queue
                               ELSE LinkQueued(seen, g[s \ {Max(s)}], links[Max(s)])]
           chosen == CHOOSE g : Solves(g)
<1>1. n \in Nat /\ DOMAIN links = 1..n /\ \A i \in 1..n : links[i] \in Hrefs
  BY LenProperties
<1>2. \A q \in fits, i \in 1..n : LinkQueued(seen, q, links[i]) \in fits
  <2>1. SUFFICES ASSUME NEW q \in fits, NEW i \in 1..n PROVE LinkQueued(seen, q, links[i]) \in fits
    OBVIOUS
  <2>2. q \in Seq(Hrefs) /\ Len(q) \in Nat /\ links[i] \in Hrefs
    BY <1>1, LenProperties
  <2>3. Append(q, links[i]) \in Seq(Hrefs) /\ Len(Append(q, links[i])) = Len(q) + 1
    BY <2>2, AppendProperties
  <2> QED
    BY <2>2, <2>3, BoundIs DEF LinkQueued
<1> HIDE DEF fits, n
<1>3. o \in [fits \X (1..n) -> fits]
  BY <1>2
<1>4. queue \in fits
  BY DEF fits
<1>5. PICK g \in [SUBSET (1..n) -> fits] : FoldFun(o, queue, n, g)
  BY <1>1, <1>3, <1>4, FoldExists
<1>6. Solves(g)
  <2>1. \A s \in SUBSET (1..n) : g[s] = IF s = {} THEN queue ELSE LinkQueued(seen, g[s \ {Max(s)}], links[Max(s)])
    <3>1. SUFFICES ASSUME NEW s \in SUBSET (1..n), s # {}
                   PROVE  g[s] = LinkQueued(seen, g[s \ {Max(s)}], links[Max(s)])
      BY <1>5 DEF FoldFun
    <3> HIDE DEF o
    <3>2. Max(s) \in 1..n /\ s \ {Max(s)} \in SUBSET (1..n)
      BY <1>1, <1>5, <3>1, FoldFunAt
    <3>3. g[s] = o[<<g[s \ {Max(s)}], Max(s)>>]
      BY <1>5, <3>1, Zenon DEF FoldFun
    <3> USE DEF o
    <3>4. <<g[s \ {Max(s)}], Max(s)>> \in fits \X (1..n)
      BY <1>5, <3>2
    <3> QED
      BY <3>3, <3>4
  <2> QED
    BY <1>1, <2>1
<1>7. Solves(chosen)
  BY <1>6, Zenon
<1>8. Enqueued(seen, queue, links) = chosen[DOMAIN links]
  BY Zenon DEF Enqueued, FoldLeft, MapThenFoldSet, LinkQueued, JsBound
<1>9. chosen[{}] = queue
  BY <1>1, <1>7
<1>10. \A k \in 1..n : chosen[1..(k - 1)] \in fits => chosen[1..k] = o[<<chosen[1..(k - 1)], k>>]
  <2> HIDE DEF chosen
  <2>1. SUFFICES ASSUME NEW k \in 1..n, chosen[1..(k - 1)] \in fits
                 PROVE  chosen[1..k] = o[<<chosen[1..(k - 1)], k>>]
    OBVIOUS
  <2>2. k \in Nat /\ k # 0 /\ 1..k \in SUBSET (1..n)
    BY <1>1
  <2>3. Max(1..k) = k /\ (1..k) \ {k} = 1..(k - 1) /\ 1..k # {} /\ 1..k \in SUBSET (1..n)
    BY <2>2, LastOfFirst
  <2>4. chosen[1..k] = LinkQueued(seen, chosen[(1..k) \ {Max(1..k)}], links[Max(1..k)])
    BY <1>1, <1>7, <2>3
  <2>5. chosen[1..k] = LinkQueued(seen, chosen[1..(k - 1)], links[k])
    BY <2>3, <2>4, Zenon
  <2>6. <<chosen[1..(k - 1)], k>> \in fits \X (1..n)
    BY <2>1
  <2> QED
    BY <2>5, <2>6
<1> HIDE DEF chosen, o
<1>11. PICK v \in [0..n -> fits] : v[n] = chosen[1..n]
  <2>1. n \in Nat
    BY <1>1
  <2>2. FoldSteps(n, fits, queue, o, chosen)
    BY <1>3, <1>4, <1>9, <1>10, <2>1 DEF FoldSteps
  <2> QED
    BY <2>2, FoldWalk
<1>12. chosen[1..n] \in fits
  BY <1>1, <1>11
<1> QED
  BY <1>1, <1>8, <1>12 DEF fits
-----------------------------------------------------------------------------
(* The map of a site: one pass over what was gathered *)

CanonUrls == {CanonOf[h] : h \in Hrefs}
MapRow == [urls : Seq(CanonUrls), truncated : BOOLEAN]

\* One URL is kept, left out, or the one too many.
UrlKept(acc, href) ==
    IF acc.truncated \/ CanonOf[href] \notin Wanted \/ CanonOf[href] \in ToSet(acc.urls) THEN acc
    ELSE IF Len(acc.urls) >= MaxUrls THEN [acc EXCEPT !.truncated = TRUE]
    ELSE [acc EXCEPT !.urls = Append(@, CanonOf[href])]

\* What a step does to a row.
LEMMA UrlStep ==
    ASSUME NEW acc \in MapRow, NEW href \in Hrefs
    PROVE  UrlKept(acc, href) \in MapRow
<1>1. acc.urls \in Seq(CanonUrls) /\ CanonOf[href] \in CanonUrls
  BY DEF MapRow, CanonUrls
<1>2. Append(acc.urls, CanonOf[href]) \in Seq(CanonUrls)
  BY <1>1, AppendProperties
<1> QED
  BY <1>2 DEF UrlKept, MapRow

\* Finalize is a walk over the URLs gathered.
LEMMA FinalizeWalk ==
    ASSUME NEW all \in Seq(Hrefs)
    PROVE  \E v \in [0..Len(all) -> MapRow] :
              /\ v[0] = NoMap /\ \A k \in 1..Len(all) : v[k] = UrlKept(v[k - 1], all[k])
              /\ Finalize(all) = v[Len(all)]
<1> DEFINE n == Len(all)
           o == [p \in MapRow \X (1..n) |-> UrlKept(p[1], all[p[2]])]
           Solves(g) == g = [s \in SUBSET DOMAIN all |-> IF s = {} THEN NoMap
                               ELSE UrlKept(g[s \ {Max(s)}], all[Max(s)])]
           chosen == CHOOSE g : Solves(g)
<1>1. n \in Nat /\ DOMAIN all = 1..n /\ \A i \in 1..n : all[i] \in Hrefs
  BY LenProperties
<1>2. \A q \in MapRow, i \in 1..n : UrlKept(q, all[i]) \in MapRow
  BY <1>1, UrlStep
<1> HIDE DEF n
<1>3. o \in [MapRow \X (1..n) -> MapRow]
  BY <1>2
<1>4. NoMap \in MapRow
  BY EmptySeq DEF NoMap, MapRow
<1>5. PICK g \in [SUBSET (1..n) -> MapRow] : FoldFun(o, NoMap, n, g)
  BY <1>1, <1>3, <1>4, FoldExists
<1>6. Solves(g)
  <2>1. \A s \in SUBSET (1..n) : g[s] = IF s = {} THEN NoMap ELSE UrlKept(g[s \ {Max(s)}], all[Max(s)])
    <3>1. SUFFICES ASSUME NEW s \in SUBSET (1..n), s # {}
                   PROVE  g[s] = UrlKept(g[s \ {Max(s)}], all[Max(s)])
      BY <1>5 DEF FoldFun
    <3> HIDE DEF o
    <3>2. Max(s) \in 1..n /\ s \ {Max(s)} \in SUBSET (1..n)
      BY <1>1, <1>5, <3>1, FoldFunAt
    <3>3. g[s] = o[<<g[s \ {Max(s)}], Max(s)>>]
      BY <1>5, <3>1, Zenon DEF FoldFun
    <3> USE DEF o
    <3>4. <<g[s \ {Max(s)}], Max(s)>> \in MapRow \X (1..n)
      BY <1>5, <3>2
    <3> QED
      BY <3>3, <3>4
  <2> QED
    BY <1>1, <2>1
<1>7. Solves(chosen)
  BY <1>6, Zenon
<1>8. Finalize(all) = chosen[DOMAIN all]
  BY Zenon DEF Finalize, FoldLeft, MapThenFoldSet, UrlKept
<1>9. chosen[{}] = NoMap
  BY <1>1, <1>7
<1>10. \A k \in 1..n : chosen[1..(k - 1)] \in MapRow => chosen[1..k] = o[<<chosen[1..(k - 1)], k>>]
  <2> HIDE DEF chosen
  <2>1. SUFFICES ASSUME NEW k \in 1..n, chosen[1..(k - 1)] \in MapRow
                 PROVE  chosen[1..k] = o[<<chosen[1..(k - 1)], k>>]
    OBVIOUS
  <2>2. k \in Nat /\ k # 0 /\ 1..k \in SUBSET (1..n)
    BY <1>1
  <2>3. Max(1..k) = k /\ (1..k) \ {k} = 1..(k - 1) /\ 1..k # {} /\ 1..k \in SUBSET (1..n)
    BY <2>2, LastOfFirst
  <2>4. chosen[1..k] = UrlKept(chosen[(1..k) \ {Max(1..k)}], all[Max(1..k)])
    BY <1>1, <1>7, <2>3
  <2>5. chosen[1..k] = UrlKept(chosen[1..(k - 1)], all[k])
    BY <2>3, <2>4, Zenon
  <2>6. <<chosen[1..(k - 1)], k>> \in MapRow \X (1..n)
    BY <2>1
  <2> QED
    BY <2>5, <2>6
<1>11. \A p \in MapRow, k \in 1..n : o[<<p, k>>] = UrlKept(p, all[k])
  OBVIOUS
<1> HIDE DEF chosen, o
<1>12. FoldSteps(n, MapRow, NoMap, o, chosen)
  BY <1>1, <1>3, <1>4, <1>9, <1>10 DEF FoldSteps
<1>13. PICK v \in [0..n -> MapRow] : FoldTrace(n, MapRow, NoMap, o, v) /\ v[n] = chosen[1..n]
  BY <1>12, FoldWalk
<1>14. v[0] = NoMap /\ \A k \in 1..n : v[k] = UrlKept(v[k - 1], all[k])
  <2>1. \A k \in 1..n : k - 1 \in 0..n
    BY <1>1
  <2> QED
    BY <1>11, <1>13, <2>1 DEF FoldTrace
<1>15. Finalize(all) = v[n]
  BY <1>1, <1>8, <1>13
<1> QED
  BY <1>14, <1>15 DEF n
\* Where a canonical URL is first met, and the wanted ones among the first k.
FirstAt(all, url) == Min({i \in DOMAIN all : CanonOf[all[i]] = url})
Met(all, k) == {CanonOf[all[i]] : i \in 1..k} \cap Wanted

\* A URL met among the first k is first met there, and one first met there is among them.
LEMMA FirstMet ==
    ASSUME NEW all \in Seq(Hrefs), NEW k \in 0..Len(all)
    PROVE  /\ \A url \in Met(all, k) : FirstAt(all, url) \in 1..k /\ CanonOf[all[FirstAt(all, url)]] = url
           /\ \A url \in Met(all, Len(all)) : FirstAt(all, url) <= k => url \in Met(all, k)
           /\ Met(all, k) \subseteq Met(all, Len(all))
<1> DEFINE n == Len(all)
           at(url) == {i \in DOMAIN all : CanonOf[all[i]] = url}
<1>1. n \in Nat /\ DOMAIN all = 1..n /\ k \in Nat /\ k <= n
  BY LenProperties
<1>2. \A url : at(url) # {} => Min(at(url)) \in at(url) /\ \A i \in at(url) : Min(at(url)) <= i
  <2>1. SUFFICES ASSUME NEW url, at(url) # {}
                 PROVE  Min(at(url)) \in at(url) /\ \A i \in at(url) : Min(at(url)) <= i
    OBVIOUS
  <2>2. at(url) \subseteq Nat
    BY <1>1
  <2> HIDE DEF at
  <2> QED
    BY <2>1, <2>2, FirstPosition
<1>3. \A url : FirstAt(all, url) = Min(at(url))
  BY DEF FirstAt
<1>4. \A m \in 0..n : \A url \in Met(all, m) :
         /\ FirstAt(all, url) \in 1..m /\ CanonOf[all[FirstAt(all, url)]] = url
         /\ url \in Wanted
  <2>1. SUFFICES ASSUME NEW m \in 0..n, NEW url \in Met(all, m)
                 PROVE  /\ FirstAt(all, url) \in 1..m /\ CanonOf[all[FirstAt(all, url)]] = url
                        /\ url \in Wanted
    OBVIOUS
  <2>2. PICK i \in 1..m : CanonOf[all[i]] = url
    BY DEF Met
  <2>3. i \in at(url)
    BY <1>1, <2>2
  <2>4. Min(at(url)) \in at(url) /\ Min(at(url)) <= i
    BY <1>2, <2>3
  <2> QED
    BY <1>1, <1>3, <2>2, <2>4 DEF Met
<1>5. n \in 0..n
  BY <1>1
<1>6. \A url \in Met(all, n) : FirstAt(all, url) <= k => url \in Met(all, k)
  <2>1. SUFFICES ASSUME NEW url \in Met(all, n), FirstAt(all, url) <= k PROVE url \in Met(all, k)
    OBVIOUS
  <2>2. FirstAt(all, url) \in 1..n /\ CanonOf[all[FirstAt(all, url)]] = url /\ url \in Wanted
    BY <1>4, <1>5
  <2>3. FirstAt(all, url) \in 1..k
    BY <1>1, <2>1, <2>2
  <2> QED
    BY <2>2, <2>3 DEF Met
<1>7. Met(all, k) \subseteq Met(all, n)
  BY <1>1 DEF Met
<1> QED
  BY <1>4, <1>6, <1>7 DEF n

\* The row after k of them: the wanted URLs met, in order, up to the cap.
MapUpTo(all, k, a) ==
    /\ a \in MapRow /\ Len(a.urls) <= MaxUrls /\ ToSet(a.urls) \subseteq Met(all, k)
    /\ \A i, j \in DOMAIN a.urls : i < j => FirstAt(all, a.urls[i]) < FirstAt(all, a.urls[j])
    /\ ~a.truncated => ToSet(a.urls) = Met(all, k)
    /\ a.truncated =>
          /\ Len(a.urls) = MaxUrls /\ Met(all, k) \ ToSet(a.urls) # {}
          /\ \A url \in Met(all, Len(all)) \ ToSet(a.urls), i \in DOMAIN a.urls :
                FirstAt(all, a.urls[i]) < FirstAt(all, url)

\* One more URL keeps it so.
LEMMA MapUpToNext ==
    ASSUME NEW all \in Seq(Hrefs), NEW k \in 1..Len(all), NEW a, MapUpTo(all, k - 1, a)
    PROVE  MapUpTo(all, k, UrlKept(a, all[k]))
<1> DEFINE n == Len(all)
           url == CanonOf[all[k]]
           urls == a.urls
           first(u) == FirstAt(all, u)
<1>1. /\ n \in Nat /\ DOMAIN all = 1..n /\ k \in Nat /\ k - 1 \in 0..n /\ k \in 0..n
      /\ all[k] \in Hrefs /\ n \in 0..n
  BY LenProperties
<1>2. /\ urls \in Seq(CanonUrls) /\ a.truncated \in BOOLEAN /\ a \in MapRow
      /\ a = [urls |-> urls, truncated |-> a.truncated]
      /\ Len(urls) \in Nat /\ DOMAIN urls = 1..Len(urls) /\ Len(urls) <= MaxUrls
      /\ ToSet(urls) = {urls[i] : i \in 1..Len(urls)}
  BY LenProperties DEF MapUpTo, MapRow, ToSet
<1>3. Met(all, k) = IF url \in Wanted THEN Met(all, k - 1) \cup {url} ELSE Met(all, k - 1)
  <2>1. 1..k = 1..(k - 1) \cup {k}
    BY <1>1
  <2> QED
    BY <2>1 DEF Met
<1>4. /\ \A u \in Met(all, k - 1) : first(u) \in 1..(k - 1)
      /\ \A u \in Met(all, k) : first(u) \in 1..k
      /\ \A u \in Met(all, n) : first(u) \in 1..n
      /\ \A u \in Met(all, n) : first(u) <= k - 1 => u \in Met(all, k - 1)
      /\ Met(all, k) \subseteq Met(all, n)
  BY <1>1, FirstMet
<1>5. \A u \in ToSet(urls) : u \in Met(all, k - 1)
  BY DEF MapUpTo
<1>6. CASE UrlKept(a, all[k]) = a
  <2>1. a.truncated \/ url \notin Wanted \/ url \in ToSet(urls)
    <3>1. SUFFICES ASSUME ~a.truncated, url \in Wanted, url \notin ToSet(urls) PROVE FALSE
      OBVIOUS
    <3>2. CASE Len(urls) >= MaxUrls
      <4>1. UrlKept(a, all[k]) = [a EXCEPT !.truncated = TRUE]
        BY <3>1, <3>2 DEF UrlKept
      <4> QED
        BY <1>2, <1>6, <3>1, <4>1
    <3>3. CASE ~(Len(urls) >= MaxUrls)
      <4>1. UrlKept(a, all[k]).urls = Append(urls, url)
        BY <1>2, <3>1, <3>3 DEF UrlKept
      <4>2. Len(Append(urls, url)) = Len(urls) + 1
        BY <1>1, <1>2, AppendProperties DEF CanonUrls
      <4> QED
        BY <1>2, <1>6, <4>1, <4>2
    <3> QED
      BY <3>2, <3>3
  <2>2. ~a.truncated => Met(all, k) = Met(all, k - 1)
    <3>1. ~a.truncated => ToSet(urls) = Met(all, k - 1)
      BY DEF MapUpTo
    <3> QED
      BY <1>3, <2>1, <3>1
  <2>3. Met(all, k - 1) \subseteq Met(all, k)
    BY <1>3
  <2> QED
    BY <1>6, <2>2, <2>3 DEF MapUpTo
<1>7. CASE UrlKept(a, all[k]) # a
  <2>1. ~a.truncated /\ url \in Wanted /\ url \notin ToSet(urls)
    BY <1>7 DEF UrlKept
  <2>2. ToSet(urls) = Met(all, k - 1) /\ Met(all, k) = ToSet(urls) \cup {url}
    BY <1>3, <2>1 DEF MapUpTo
  <2>3. \A u \in Met(all, n) \ ToSet(urls) : \A i \in 1..Len(urls) : first(urls[i]) < first(u)
    <3>1. SUFFICES ASSUME NEW u \in Met(all, n) \ ToSet(urls), NEW i \in 1..Len(urls)
                   PROVE  first(urls[i]) < first(u)
      OBVIOUS
    <3>2. urls[i] \in Met(all, k - 1) /\ u \notin Met(all, k - 1)
      BY <1>2, <1>5, <2>2
    <3>3. first(urls[i]) \in 1..(k - 1) /\ first(u) \in 1..n /\ ~(first(u) <= k - 1)
      BY <1>4, <3>2
    <3> HIDE DEF first
    <3> QED
      BY <1>1, <3>3
  <2>4. CASE Len(urls) >= MaxUrls
    <3> DEFINE b == [urls |-> urls, truncated |-> TRUE]
    <3>1. UrlKept(a, all[k]) = b
      BY <1>2, <2>1, <2>4 DEF UrlKept
    <3>2. b \in MapRow /\ b.urls = urls /\ b.truncated
      BY <1>2 DEF MapRow
    <3>3. Len(urls) = MaxUrls
      BY <1>2, <2>4, DiscoverAssumption
    <3>4. \A i, j \in DOMAIN urls : i < j => FirstAt(all, urls[i]) < FirstAt(all, urls[j])
      BY DEF MapUpTo
    <3> HIDE DEF b
    <3> QED
      BY <1>2, <2>1, <2>2, <2>3, <3>1, <3>2, <3>3, <3>4 DEF MapUpTo
  <2>5. CASE ~(Len(urls) >= MaxUrls)
    <3> DEFINE longer == Append(urls, url)
               b == [urls |-> longer, truncated |-> FALSE]
    <3>1. UrlKept(a, all[k]) = b
      BY <1>2, <2>1, <2>5 DEF UrlKept
    <3>2. /\ longer \in Seq(CanonUrls) /\ Len(longer) = Len(urls) + 1
          /\ \A i \in 1..Len(urls) : longer[i] = urls[i]
          /\ longer[Len(urls) + 1] = url
      BY <1>1, <1>2, AppendProperties DEF CanonUrls
    <3> HIDE DEF longer
    <3>3. DOMAIN longer = 1..(Len(urls) + 1)
      BY <3>2, LenProperties
    <3>4. ToSet(longer) = ToSet(urls) \cup {url}
      <4>1. ToSet(longer) = {longer[i] : i \in 1..(Len(urls) + 1)}
        BY <3>3 DEF ToSet
      <4>2. 1..(Len(urls) + 1) = 1..Len(urls) \cup {Len(urls) + 1}
        BY <1>2
      <4>3. {longer[i] : i \in 1..Len(urls)} = {urls[i] : i \in 1..Len(urls)}
        BY <3>2
      <4>4. ToSet(longer) = {longer[i] : i \in 1..Len(urls)} \cup {longer[Len(urls) + 1]}
        BY <4>1, <4>2
      <4>5. longer[Len(urls) + 1] = url /\ ToSet(urls) = {urls[i] : i \in 1..Len(urls)}
        BY <1>2, <3>2
      <4> HIDE DEF url
      <4> QED
        BY <4>3, <4>4, <4>5, Zenon
    <3>5. \A i, j \in DOMAIN longer : i < j => FirstAt(all, longer[i]) < FirstAt(all, longer[j])
      <4>1. SUFFICES ASSUME NEW i \in 1..(Len(urls) + 1), NEW j \in 1..(Len(urls) + 1), i < j
                     PROVE  FirstAt(all, longer[i]) < FirstAt(all, longer[j])
        BY <3>3
      <4>2. i \in 1..Len(urls) /\ longer[i] = urls[i]
        BY <1>2, <3>2, <4>1
      <4>3. CASE j \in 1..Len(urls)
        BY <1>2, <3>2, <4>1, <4>2, <4>3 DEF MapUpTo
      <4>4. CASE j = Len(urls) + 1
        BY <1>4, <2>1, <2>2, <2>3, <3>2, <4>2, <4>4
      <4> QED
        BY <1>2, <4>3, <4>4
    <3>6. b \in MapRow /\ b.urls = longer /\ b.truncated = FALSE
      BY <3>2 DEF MapRow
    <3>7. Len(longer) <= MaxUrls
      BY <1>2, <2>5, <3>2, DiscoverAssumption
    <3> HIDE DEF b
    <3> QED
      BY <2>2, <3>1, <3>4, <3>5, <3>6, <3>7 DEF MapUpTo
  <2> QED
    BY <2>4, <2>5
<1> QED
  BY <1>6, <1>7
\* Elements in order of their places are as many as they are.
LEMMA OrderedCount ==
    ASSUME NEW U, NEW s \in Seq(U), NEW p,
           \A i \in DOMAIN s : p[s[i]] \in Nat,
           \A i, j \in DOMAIN s : i < j => p[s[i]] < p[s[j]]
    PROVE  IsFiniteSet(ToSet(s)) /\ Cardinality(ToSet(s)) = Len(s)
<1> DEFINE n == Len(s)
<1>1. n \in Nat /\ DOMAIN s = 1..n
  BY LenProperties
<1>2. s \in [1..n -> ToSet(s)] /\ \A u \in ToSet(s) : \E i \in 1..n : s[i] = u
  BY <1>1, LenProperties DEF ToSet
<1>3. \A i, j \in 1..n : s[i] = s[j] => i = j
  <2>1. SUFFICES ASSUME NEW i \in 1..n, NEW j \in 1..n, s[i] = s[j], i # j PROVE FALSE
    OBVIOUS
  <2>2. p[s[i]] \in Nat /\ p[s[i]] = p[s[j]] /\ (i < j \/ j < i)
    BY <1>1, <2>1
  <2>3. p[s[i]] < p[s[j]] \/ p[s[j]] < p[s[i]]
    BY <1>1, <2>2
  <2> QED
    BY <2>2, <2>3
<1>4. s \in Bijection(1..n, ToSet(s))
  BY <1>2, <1>3 DEF Bijection, Injection, Surjection, IsInjective
<1>5. ExistsBijection(1..n, ToSet(s))
  BY <1>4 DEF ExistsBijection
<1> QED
  BY <1>1, <1>5, FS_CountingElements, FS_NatBijection
\* The one pass gives the wanted URLs, each once, earliest first, and says what is missing.
LEMMA FinalizeExact ==
    ASSUME NEW all \in Seq(Hrefs)
    PROVE  ExactlyMaps(Finalize(all), all)
<1> DEFINE n == Len(all)
           wanted == Met(all, n)
           a == Finalize(all)
           urls == a.urls
<1>1. n \in Nat /\ n \in 0..n
  BY LenProperties
<1>2. PICK v \in [0..n -> MapRow] :
          /\ v[0] = NoMap /\ \A k \in 1..n : v[k] = UrlKept(v[k - 1], all[k])
          /\ a = v[n]
  BY FinalizeWalk
<1> DEFINE good == {k \in 0..n : MapUpTo(all, k, v[k])}
<1>3. 0 \in good
  <2>1. Met(all, 0) = {}
    BY DEF Met
  <2>2. NoMap.urls = <<>> /\ NoMap.truncated = FALSE /\ NoMap \in MapRow
    BY EmptySeq DEF NoMap, MapRow
  <2>3. Len(<<>>) = 0 /\ DOMAIN <<>> = {} /\ ToSet(<<>>) = {}
    BY DEF ToSet
  <2>4. MapUpTo(all, 0, NoMap)
    <3>1. /\ Len(NoMap.urls) = 0 /\ DOMAIN NoMap.urls = {} /\ ToSet(NoMap.urls) = {}
          /\ ~NoMap.truncated /\ NoMap \in MapRow
      BY <2>2, <2>3
    <3> QED
      BY <2>1, <3>1, DiscoverAssumption DEF MapUpTo
  <2> QED
    BY <1>1, <1>2, <2>4
<1>4. \A k \in 1..n : k - 1 \in good => k \in good
  <2>1. SUFFICES ASSUME NEW k \in 1..n, MapUpTo(all, k - 1, v[k - 1]) PROVE MapUpTo(all, k, v[k])
    BY <1>1
  <2>2. v[k] = UrlKept(v[k - 1], all[k])
    BY <1>2
  <2> QED
    BY <2>1, <2>2, MapUpToNext
<1>5. MapUpTo(all, n, a)
  <2> HIDE DEF good
  <2>1. \A k \in 0..n : k \in good
    BY <1>1, <1>3, <1>4, Climb
  <2> QED
    BY <1>1, <1>2, <2>1 DEF good
<1> DEFINE p == [url \in wanted |-> FirstAt(all, url)]
<1> HIDE DEF a
<1>6. /\ urls \in Seq(CanonUrls) /\ Len(urls) \in Nat /\ DOMAIN urls = 1..Len(urls)
      /\ ToSet(urls) \subseteq wanted /\ a.truncated \in BOOLEAN
      /\ \A i \in DOMAIN urls : urls[i] \in wanted
  BY <1>5, LenProperties DEF MapUpTo, MapRow, ToSet
<1>7. \A url \in wanted : FirstAt(all, url) \in 1..n
  BY <1>1, FirstMet
<1>8. \A i, j \in DOMAIN urls : i < j => FirstAt(all, urls[i]) < FirstAt(all, urls[j])
  BY <1>5 DEF MapUpTo
<1>9. \A i, j \in DOMAIN urls : i < j => p[urls[i]] < p[urls[j]]
  BY <1>6, <1>8
<1>10. \A i \in DOMAIN urls : p[urls[i]] \in Nat
  BY <1>6, <1>7
<1>11. IsFiniteSet(ToSet(urls)) /\ Cardinality(ToSet(urls)) = Len(urls)
  <2> HIDE DEF p
  <2> QED
    BY <1>6, <1>9, <1>10, OrderedCount
<1>12. IsFiniteSet(wanted) /\ Cardinality(wanted) \in Nat
  <2>1. IsFiniteSet(1..n)
    BY <1>1, FS_Interval
  <2>2. IsFiniteSet({CanonOf[all[i]] : i \in 1..n})
    <3> DEFINE c == [i \in 1..n |-> CanonOf[all[i]]]
               image == {CanonOf[all[i]] : i \in 1..n}
    <3>1. c \in Surjection(1..n, image)
      BY DEF Surjection
    <3>2. ExistsSurjection(1..n, image)
      BY <3>1 DEF ExistsSurjection
    <3> QED
      BY <1>1, <3>2, FS_NatSurjection
  <2>3. wanted \subseteq {CanonOf[all[i]] : i \in 1..n}
    BY DEF Met
  <2> QED
    BY <2>2, <2>3, FS_Subset, FS_CardinalityType
<1>13. ExactlyMaps(a, all) <=>
         /\ a.truncated <=> Cardinality(wanted) > MaxUrls
         /\ Len(urls) = Least(MaxUrls, Cardinality(wanted))
         /\ ToSet(urls) \subseteq wanted
         /\ \A i, j \in DOMAIN urls : i < j => FirstAt(all, urls[i]) < FirstAt(all, urls[j])
         /\ \A url \in wanted \ ToSet(urls), i \in DOMAIN urls : FirstAt(all, urls[i]) < FirstAt(all, url)
  <2>1. wanted = {CanonOf[all[i]] : i \in DOMAIN all} \cap Wanted
    BY LenProperties DEF Met
  <2> HIDE DEF wanted
  <2> QED
    BY <2>1, Zenon DEF ExactlyMaps, FirstAt
<1>14. CASE ~a.truncated
  <2>1. ToSet(urls) = wanted /\ Len(urls) <= MaxUrls
    BY <1>5, <1>14 DEF MapUpTo
  <2>2. Cardinality(wanted) = Len(urls)
    BY <1>11, <2>1
  <2>3. ~(Cardinality(wanted) > MaxUrls) /\ Len(urls) = Least(MaxUrls, Cardinality(wanted))
    BY <1>6, <2>1, <2>2, DiscoverAssumption DEF Least
  <2>4. \A url \in wanted \ ToSet(urls), i \in DOMAIN urls : FirstAt(all, urls[i]) < FirstAt(all, url)
    BY <2>1
  <2>5. a.truncated <=> Cardinality(wanted) > MaxUrls
    BY <1>6, <1>14, <2>3
  <2>6. ToSet(urls) \subseteq wanted
    BY <1>6
  <2> HIDE DEF wanted
  <2> QED
    BY <1>8, <1>13, <2>3, <2>4, <2>5, <2>6, Zenon DEF a
<1>15. CASE a.truncated
  <2>1. /\ Len(urls) = MaxUrls /\ wanted \ ToSet(urls) # {}
        /\ \A url \in wanted \ ToSet(urls), i \in DOMAIN urls : FirstAt(all, urls[i]) < FirstAt(all, url)
    BY <1>5, <1>15 DEF MapUpTo
  <2>2. Cardinality(ToSet(urls)) < Cardinality(wanted)
    <3>1. ToSet(urls) # wanted
      BY <2>1
    <3> QED
      BY <1>6, <1>11, <1>12, <3>1, FS_Subset
  <2>3. Cardinality(wanted) > MaxUrls /\ Len(urls) = Least(MaxUrls, Cardinality(wanted))
    BY <1>11, <1>12, <2>1, <2>2, DiscoverAssumption DEF Least
  <2>4. a.truncated <=> Cardinality(wanted) > MaxUrls
    BY <1>6, <1>15, <2>3
  <2>5. ToSet(urls) \subseteq wanted
    BY <1>6
  <2> HIDE DEF wanted
  <2> QED
    BY <1>8, <1>13, <2>1, <2>3, <2>4, <2>5, Zenon DEF a
<1> QED
  BY <1>6, <1>14, <1>15 DEF a

-----------------------------------------------------------------------------
(* The map of a site: its run *)

\* What has been gathered is a list of URLs, the search stays within its bounds, and the
\* answer is made of what was gathered.
MapInv ==
    /\ raw \in Seq(Hrefs) /\ frontier \in Seq(Hrefs)
    /\ IsFiniteSet(visited) /\ rendered \in Nat
    /\ rendered <= MaxJsPages /\ rendered <= Cardinality(visited)
    /\ Cardinality(visited) + Len(frontier) <= JsBound
    /\ phase = "done" => siteMap = Finalize(raw)

\* MapInv holds at first.
LEMMA MapStarts ==
    ASSUME DiscoverInit PROVE MapInv
<1>1. <<Seed>> \in Seq(Hrefs) /\ Len(<<Seed>>) = 1
  BY DiscoverAssumption
<1>2. IsFiniteSet({}) /\ Cardinality({}) = 0
  BY FS_EmptySet
<1> QED
  BY <1>1, <1>2, BoundIs, DiscoverAssumption DEF DiscoverInit, MapInv

\* MapInv is kept.
LEMMA MapSteps ==
    ASSUME MapInv, [DiscoverNext]_discoverVars PROVE MapInv'
<1>1. /\ raw \in Seq(Hrefs) /\ frontier \in Seq(Hrefs) /\ rendered \in Nat
      /\ IsFiniteSet(visited) /\ Cardinality(visited) \in Nat /\ Len(frontier) \in Nat
  BY FS_CardinalityType, LenProperties DEF MapInv
<1>2. CASE GatherSitemaps
  <2>1. raw' \in Seq(Hrefs)
    <3>1. CASE raw' = raw
      BY <1>1, <3>1
    <3>2. ASSUME NEW dead \in SUBSET Files, NEW feeds \in BOOLEAN, raw' = raw \o SitemapUrls(dead, feeds)
          PROVE  raw' \in Seq(Hrefs)
      BY <1>1, <3>2, UrlsGathered, ConcatProperties
    <3> QED
      BY <1>2, <3>1, <3>2 DEF GatherSitemaps
  <2> QED
    BY <1>2, <2>1 DEF GatherSitemaps, MapInv
<1>3. CASE GatherCrawl
  <2>1. raw' \in Seq(Hrefs)
    <3>1. CASE raw' = raw
      BY <1>1, <3>1
    <3>2. ASSUME NEW found \in {<<>>, <<Seed>>} \cup {<<Seed>> \o LinksOf[Seed]}, raw' = raw \o found
          PROVE  raw' \in Seq(Hrefs)
      <4>1. <<>> \in Seq(Hrefs) /\ <<Seed>> \in Seq(Hrefs) /\ LinksOf[Seed] \in Seq(Hrefs)
        BY DiscoverAssumption, EmptySeq
      <4>2. <<Seed>> \o LinksOf[Seed] \in Seq(Hrefs)
        BY <4>1, ConcatProperties
      <4> QED
        BY <1>1, <3>2, <4>1, <4>2, ConcatProperties
    <3> QED
      BY <1>3, <3>1, <3>2 DEF GatherCrawl
  <2>2. phase' # "done"
    BY <1>3 DEF GatherCrawl
  <2> QED
    BY <1>3, <2>1, <2>2 DEF GatherCrawl, MapInv
<1>4. ASSUME NEW ok \in BOOLEAN, VisitJs(ok) PROVE MapInv'
  <2>1. PICK href, seen : href = Head(frontier) /\ seen = visited \cup {KeyOf[href]}
    OBVIOUS
  <2>2. /\ frontier # <<>> /\ rendered < MaxJsPages /\ phase = "js" /\ phase' = phase
        /\ visited' = seen /\ UNCHANGED siteMap
    BY <1>4, <2>1 DEF VisitJs, Searching
  <2>3. href \in Hrefs /\ Tail(frontier) \in Seq(Hrefs) /\ Len(Tail(frontier)) = Len(frontier) - 1
    BY <1>1, <2>1, <2>2, HeadTailProperties
  <2>4. /\ IsFiniteSet(seen) /\ Cardinality(seen) \in Nat
        /\ Cardinality(seen) = Cardinality(visited) + IF KeyOf[href] \in visited THEN 0 ELSE 1
    <3>1. CASE KeyOf[href] \in visited
      <4>1. seen = visited
        BY <2>1, <3>1
      <4> QED
        BY <1>1, <3>1, <4>1
    <3>2. CASE KeyOf[href] \notin visited
      <4>1. Cardinality(visited \cup {KeyOf[href]}) = Cardinality(visited) + 1
        BY <1>1, <3>2, FS_AddElement
      <4>2. IsFiniteSet(visited \cup {KeyOf[href]})
        BY <1>1, FS_AddElement
      <4> QED
        BY <1>1, <2>1, <3>2, <4>1, <4>2
    <3> QED
      BY <3>1, <3>2
  <2>5. Cardinality(seen) + Len(Tail(frontier)) <= JsBound /\ rendered <= Cardinality(visited)
    BY <1>1, <2>3, <2>4, BoundIs DEF MapInv
  <2>6. CASE frontier' = Tail(frontier) /\ UNCHANGED <<raw, rendered>>
    <3>1. rendered <= Cardinality(seen) /\ rendered <= MaxJsPages
      BY <1>1, <2>2, <2>4, <2>5, DiscoverAssumption
    <3> QED
      BY <1>1, <2>2, <2>3, <2>4, <2>5, <2>6, <3>1 DEF MapInv
  <2>7. CASE /\ KeyOf[href] \notin visited /\ rendered' = rendered + 1
             /\ raw' = raw \o <<href>> \o LinksOf[href]
             /\ frontier' = Enqueued(seen, Tail(frontier), LinksOf[href])
    <3>1. LinksOf[href] \in Seq(Hrefs) /\ <<href>> \in Seq(Hrefs)
      BY <2>3, DiscoverAssumption
    <3>2. raw' \in Seq(Hrefs)
      <4>1. raw \o <<href>> \in Seq(Hrefs)
        BY <1>1, <3>1, ConcatProperties
      <4> QED
        BY <2>7, <3>1, <4>1, ConcatProperties
    <3>3. frontier' \in Seq(Hrefs) /\ Cardinality(seen) + Len(frontier') <= JsBound
      BY <2>3, <2>4, <2>5, <2>7, <3>1, EnqueuedBound
    <3>4. rendered' \in Nat /\ rendered' <= MaxJsPages /\ rendered' <= Cardinality(seen)
      BY <1>1, <2>2, <2>4, <2>5, <2>7, DiscoverAssumption
    <3> QED
      BY <2>2, <2>4, <3>2, <3>3, <3>4 DEF MapInv
  <2> QED
    BY <1>4, <2>1, <2>6, <2>7 DEF VisitJs
<1>5. CASE EndJs
  BY <1>5 DEF EndJs, MapInv
<1>6. CASE Finish
  BY <1>6 DEF Finish, MapInv
<1>7. CASE UNCHANGED discoverVars
  BY <1>7 DEF discoverVars, MapInv
<1> QED
  BY <1>2, <1>3, <1>4, <1>5, <1>6, <1>7 DEF DiscoverNext

\* A state of MapInv has an exact map.
LEMMA MapInvExact ==
    ASSUME MapInv PROVE MapExact
<1>1. raw \in Seq(Hrefs) /\ DOMAIN raw = 1..Len(raw)
  BY LenProperties DEF MapInv
<1>2. phase = "done" => ExactlyMaps(siteMap, raw)
  BY <1>1, FinalizeExact DEF MapInv
<1> QED
  BY <1>2 DEF MapInv, MapExact, JsBound

\* Whatever the site, its sitemaps and its links: the map is the wanted URLs, each once,
\* earliest first, its flag is true exactly if some are missing, and the search in the browser
\* stays within its bounds (discover_flow._finalize_urls, _gather_crawl_urls_js).
THEOREM MapIsExact == ServicesSpec => []MapExact
<1>1. ServicesInit => MapInv
  BY MapStarts DEF ServicesInit
<1>2. MapInv /\ [ServicesNext]_serviceVars => MapInv'
  <2>1. SUFFICES ASSUME MapInv, [ServicesNext]_serviceVars PROVE MapInv'
    OBVIOUS
  <2>2. [DiscoverNext]_discoverVars
    BY <2>1 DEF ServicesNext, serviceVars
  <2> QED
    BY <2>1, <2>2, MapSteps
<1>3. MapInv => MapExact
  BY MapInvExact
<1> QED
  BY <1>1, <1>2, <1>3, PTL DEF ServicesSpec

-----------------------------------------------------------------------------
(* Where the elements of a flattened sequence come from *)

\* flat is the first m sequences one after the other: its k-th element is the col[k]-th of
\* the row[k]-th.
FlatAt(seqs, m, flat, row, col) ==
    /\ row \in [1..Len(flat) -> 1..m] /\ col \in [1..Len(flat) -> Nat \ {0}]
    /\ \A k \in 1..Len(flat) : col[k] <= Len(seqs[row[k]]) /\ flat[k] = seqs[row[k]][col[k]]
    /\ \A j, k \in 1..Len(flat) : j < k => row[j] < row[k] \/ (row[j] = row[k] /\ col[j] < col[k])
    /\ \A n \in 1..m : \A i \in 1..Len(seqs[n]) : \E k \in 1..Len(flat) : row[k] = n /\ col[k] = i

\* One more sequence is put after the first m - 1.
LEMMA FlatAtNext ==
    ASSUME NEW A, NEW seqs \in Seq(Seq(A)), NEW m \in 1..Len(seqs), NEW flat \in Seq(A),
           NEW row, NEW col, FlatAt(seqs, m - 1, flat, row, col)
    PROVE  \E r, c : FlatAt(seqs, m, flat \o seqs[m], r, c)
<1> DEFINE old == Len(flat)
           new == Len(seqs[m])
           longer == flat \o seqs[m]
           r == [k \in 1..old + new |-> IF k <= old THEN row[k] ELSE m]
           c == [k \in 1..old + new |-> IF k <= old THEN col[k] ELSE k - old]
<1>1. /\ seqs[m] \in Seq(A) /\ old \in Nat /\ new \in Nat /\ m \in Nat
      /\ \A n \in 1..m : seqs[n] \in Seq(A) /\ Len(seqs[n]) \in Nat
  BY LenProperties
<1>2. /\ Len(longer) = old + new
      /\ \A k \in 1..old + new : longer[k] = IF k <= old THEN flat[k] ELSE seqs[m][k - old]
  BY <1>1, ConcatProperties
<1>3. /\ row \in [1..old -> 1..(m - 1)] /\ col \in [1..old -> Nat \ {0}]
      /\ \A k \in 1..old : col[k] <= Len(seqs[row[k]]) /\ flat[k] = seqs[row[k]][col[k]]
      /\ \A j, k \in 1..old : j < k => row[j] < row[k] \/ (row[j] = row[k] /\ col[j] < col[k])
      /\ \A n \in 1..(m - 1) : \A i \in 1..Len(seqs[n]) : \E k \in 1..old : row[k] = n /\ col[k] = i
  BY DEF FlatAt
<1> HIDE DEF old, new, longer
<1>4. r \in [1..old + new -> 1..m] /\ c \in [1..old + new -> Nat \ {0}]
  <2>1. ASSUME NEW k \in 1..old + new
        PROVE  r[k] \in 1..m /\ c[k] \in Nat \ {0}
    <3>1. CASE k <= old
      <4>1. k \in 1..old
        BY <1>1, <3>1
      <4>2. row[k] \in 1..(m - 1) /\ col[k] \in Nat \ {0}
        BY <1>3, <4>1
      <4>3. row[k] \in 1..m
        BY <1>1, <4>2
      <4> QED
        BY <3>1, <4>2, <4>3
    <3>2. CASE ~(k <= old)
      <4>1. k - old \in Nat \ {0} /\ m \in 1..m
        BY <1>1, <3>2
      <4> QED
        BY <3>2, <4>1
    <3> QED
      BY <3>1, <3>2
  <2> QED
    BY <2>1
<1>5. \A k \in 1..old + new :
         \/ k \in 1..old /\ r[k] = row[k] /\ c[k] = col[k] /\ longer[k] = flat[k]
         \/ k - old \in 1..new /\ ~(k <= old) /\ r[k] = m /\ c[k] = k - old /\ longer[k] = seqs[m][k - old]
  BY <1>1, <1>2
<1> HIDE DEF r, c
<1>6. \A k \in 1..old + new : c[k] <= Len(seqs[r[k]]) /\ longer[k] = seqs[r[k]][c[k]]
  <2>1. SUFFICES ASSUME NEW k \in 1..old + new
                 PROVE  c[k] <= Len(seqs[r[k]]) /\ longer[k] = seqs[r[k]][c[k]]
    OBVIOUS
  <2>2. CASE k \in 1..old /\ r[k] = row[k] /\ c[k] = col[k] /\ longer[k] = flat[k]
    BY <1>3, <2>2
  <2>3. CASE k - old \in 1..new /\ r[k] = m /\ c[k] = k - old /\ longer[k] = seqs[m][k - old]
    BY <1>1, <2>3 DEF new
  <2> QED
    BY <1>5, <2>2, <2>3
<1>7. \A j, k \in 1..old + new : j < k => r[j] < r[k] \/ (r[j] = r[k] /\ c[j] < c[k])
  <2>1. SUFFICES ASSUME NEW j \in 1..old + new, NEW k \in 1..old + new, j < k
                 PROVE  r[j] < r[k] \/ (r[j] = r[k] /\ c[j] < c[k])
    OBVIOUS
  <2>2. CASE k <= old
    BY <1>1, <1>3, <1>5, <2>1, <2>2
  <2>3. CASE ~(k <= old) /\ j <= old
    <3>1. j \in 1..old /\ r[j] = row[j] /\ r[k] = m
      BY <1>1, <1>5, <2>3
    <3>2. row[j] \in 1..(m - 1)
      BY <1>3, <3>1
    <3> QED
      BY <1>1, <3>1, <3>2
  <2>4. CASE ~(j <= old)
    <3>1. r[j] = m /\ c[j] = j - old /\ r[k] = m /\ c[k] = k - old
      BY <1>1, <1>5, <2>1, <2>4
    <3> QED
      BY <1>1, <2>1, <3>1
  <2> QED
    BY <2>2, <2>3, <2>4
<1>8. \A n \in 1..m : \A i \in 1..Len(seqs[n]) : \E k \in 1..old + new : r[k] = n /\ c[k] = i
  <2>1. SUFFICES ASSUME NEW n \in 1..m, NEW i \in 1..Len(seqs[n])
                 PROVE  \E k \in 1..old + new : r[k] = n /\ c[k] = i
    OBVIOUS
  <2>2. CASE n = m
    <3>1. i + old \in 1..old + new /\ (i + old) - old = i /\ ~(i + old <= old)
      BY <1>1, <2>2 DEF new
    <3>2. r[i + old] = m /\ c[i + old] = i
      BY <1>1, <1>5, <3>1
    <3> QED
      BY <2>2, <3>1, <3>2
  <2>3. CASE n # m
    <3>1. n \in 1..(m - 1)
      BY <1>1, <2>3
    <3>2. PICK k \in 1..old : row[k] = n /\ col[k] = i
      BY <1>3, <3>1
    <3>3. k \in 1..old + new /\ r[k] = row[k] /\ c[k] = col[k]
      BY <1>1, <1>5, <3>2
    <3> QED
      BY <3>2, <3>3
  <2> QED
    BY <2>2, <2>3
<1>9. FlatAt(seqs, m, longer, r, c)
  BY <1>2, <1>4, <1>6, <1>7, <1>8 DEF FlatAt
<1> QED
  BY <1>9 DEF longer

\* FlattenSeq puts every element at one place, in order.
LEMMA FlatIndex ==
    ASSUME NEW A, NEW seqs \in Seq(Seq(A))
    PROVE  FlattenSeq(seqs) \in Seq(A) /\ \E row, col : FlatAt(seqs, Len(seqs), FlattenSeq(seqs), row, col)
<1> DEFINE n == Len(seqs)
<1>1. PICK v \in [0..n -> Seq(A)] :
          /\ v[0] = <<>> /\ \A k \in 1..n : v[k] = v[k - 1] \o seqs[k]
          /\ FlattenSeq(seqs) = v[n]
  BY FlatRuns
<1>2. n \in Nat
  BY LenProperties
<1> DEFINE good == {k \in 0..n : \E row, col : FlatAt(seqs, k, v[k], row, col)}
<1>3. 0 \in good
  <2> DEFINE none == [k \in 1..0 |-> 1]
  <2>1. Len(v[0]) = 0
    BY <1>1
  <2>2. none \in [1..0 -> 1..0] /\ none \in [1..0 -> Nat \ {0}]
    OBVIOUS
  <2>3. FlatAt(seqs, 0, v[0], none, none)
    BY <2>1, <2>2 DEF FlatAt
  <2> QED
    BY <1>2, <2>3
<1>4. \A k \in 1..n : k - 1 \in good => k \in good
  <2>1. SUFFICES ASSUME NEW k \in 1..n, k - 1 \in good PROVE k \in good
    OBVIOUS
  <2>2. PICK row, col : FlatAt(seqs, k - 1, v[k - 1], row, col)
    BY <2>1
  <2>3. v[k - 1] \in Seq(A) /\ v[k] = v[k - 1] \o seqs[k]
    <3>1. k - 1 \in 0..n
      BY <1>2
    <3> QED
      BY <1>1, <3>1
  <2>4. \E r, c : FlatAt(seqs, k, v[k], r, c)
    BY <2>2, <2>3, FlatAtNext
  <2> QED
    BY <1>2, <2>4
<1>5. n \in good
  <2> HIDE DEF good
  <2>1. n \in 0..n
    BY <1>2
  <2> QED
    BY <1>2, <1>3, <1>4, <2>1, Climb
<1> QED
  BY <1>1, <1>2, <1>5
-----------------------------------------------------------------------------
(* Runs of line numbers *)

\* Sequences of lines one after the other: none is empty, each is in order, and so are they.
Tidy(f) ==
    /\ f \in Seq(Seq(Nat))
    /\ \A n \in DOMAIN f : f[n] # <<>> /\ InOrder(f[n])
    /\ \A m, n \in DOMAIN f : m < n => \A x \in ToSet(f[m]), y \in ToSet(f[n]) : x < y

\* Put together they are in order.
LEMMA TidyFlat ==
    ASSUME NEW f, Tidy(f)
    PROVE  /\ FlattenSeq(f) \in Seq(Nat) /\ InOrder(FlattenSeq(f))
           /\ \A l : l \in ToSet(FlattenSeq(f)) <=> \E n \in DOMAIN f : l \in ToSet(f[n])
<1> DEFINE flat == FlattenSeq(f)
<1>1. /\ f \in Seq(Seq(Nat)) /\ Len(f) \in Nat /\ DOMAIN f = 1..Len(f)
      /\ \A n \in 1..Len(f) : Len(f[n]) \in Nat /\ DOMAIN f[n] = 1..Len(f[n])
  BY LenProperties DEF Tidy
<1>2. flat \in Seq(Nat) /\ \E row, col : FlatAt(f, Len(f), flat, row, col)
  BY <1>1, FlatIndex
<1> HIDE DEF flat
<1>3. PICK row, col : FlatAt(f, Len(f), flat, row, col)
  BY <1>2
<1>4. Len(flat) \in Nat /\ DOMAIN flat = 1..Len(flat)
  BY <1>2, LenProperties
<1>5. \A k \in 1..Len(flat) : /\ row[k] \in 1..Len(f) /\ col[k] \in 1..Len(f[row[k]])
                              /\ flat[k] = f[row[k]][col[k]]
  <2>1. SUFFICES ASSUME NEW k \in 1..Len(flat)
                 PROVE  /\ row[k] \in 1..Len(f) /\ col[k] \in 1..Len(f[row[k]])
                        /\ flat[k] = f[row[k]][col[k]]
    OBVIOUS
  <2>2. /\ row[k] \in 1..Len(f) /\ col[k] \in Nat \ {0} /\ col[k] <= Len(f[row[k]])
        /\ flat[k] = f[row[k]][col[k]]
    BY <1>3 DEF FlatAt
  <2>3. Len(f[row[k]]) \in Nat
    BY <1>1, <2>2
  <2> QED
    BY <2>2, <2>3
<1>6. /\ \A m, n \in 1..Len(f) : m < n =>
            \A i \in 1..Len(f[m]), j \in 1..Len(f[n]) : f[m][i] < f[n][j]
      /\ \A n \in 1..Len(f) : \A i, j \in 1..Len(f[n]) : i < j => f[n][i] < f[n][j]
  <2>1. \A n \in 1..Len(f) : \A i \in 1..Len(f[n]) : f[n][i] \in ToSet(f[n])
    BY <1>1 DEF ToSet
  <2>2. \A m, n \in 1..Len(f) : m < n => \A x \in ToSet(f[m]), y \in ToSet(f[n]) : x < y
    BY <1>1 DEF Tidy
  <2>3. \A n \in 1..Len(f) : \A i, j \in 1..Len(f[n]) : i < j => f[n][i] < f[n][j]
    BY <1>1 DEF Tidy, InOrder
  <2> QED
    BY <2>1, <2>2, <2>3
<1>7. InOrder(flat)
  <2>1. SUFFICES ASSUME NEW j \in 1..Len(flat), NEW k \in 1..Len(flat), j < k PROVE flat[j] < flat[k]
    BY <1>4 DEF InOrder
  <2>2. row[j] < row[k] \/ (row[j] = row[k] /\ col[j] < col[k])
    BY <1>3, <2>1 DEF FlatAt
  <2>3. CASE row[j] < row[k]
    <3>1. PICK m \in 1..Len(f) : m = row[j] /\ col[j] \in 1..Len(f[m]) /\ flat[j] = f[m][col[j]]
      BY <1>5
    <3>2. PICK n \in 1..Len(f) : n = row[k] /\ col[k] \in 1..Len(f[n]) /\ flat[k] = f[n][col[k]]
      BY <1>5
    <3>3. m < n
      BY <2>3, <3>1, <3>2
    <3> QED
      BY <1>6, <3>1, <3>2, <3>3
  <2>4. CASE row[j] = row[k] /\ col[j] < col[k]
    <3>1. PICK n \in 1..Len(f) : n = row[j] /\ n = row[k]
      BY <1>5, <2>4
    <3>2. /\ col[j] \in 1..Len(f[n]) /\ col[k] \in 1..Len(f[n])
          /\ flat[j] = f[n][col[j]] /\ flat[k] = f[n][col[k]]
      BY <1>5, <3>1
    <3> QED
      BY <1>6, <2>4, <3>2
  <2> QED
    BY <2>2, <2>3, <2>4
<1>8. \A l : l \in ToSet(flat) => \E n \in DOMAIN f : l \in ToSet(f[n])
  <2>1. SUFFICES ASSUME NEW k \in 1..Len(flat) PROVE \E n \in DOMAIN f : flat[k] \in ToSet(f[n])
    BY <1>4 DEF ToSet
  <2>2. f[row[k]][col[k]] \in ToSet(f[row[k]])
    BY <1>1, <1>5 DEF ToSet
  <2> QED
    BY <1>1, <1>5, <2>2
<1>9. \A n \in DOMAIN f : \A i \in 1..Len(f[n]) : f[n][i] \in ToSet(flat)
  <2>1. SUFFICES ASSUME NEW n \in 1..Len(f), NEW i \in 1..Len(f[n]) PROVE f[n][i] \in ToSet(flat)
    BY <1>1
  <2>2. PICK k \in 1..Len(flat) : row[k] = n /\ col[k] = i
    BY <1>3 DEF FlatAt
  <2> QED
    BY <1>4, <1>5, <2>2 DEF ToSet
<1>10. \A l : (\E n \in DOMAIN f : l \in ToSet(f[n])) => l \in ToSet(flat)
  BY <1>1, <1>9 DEF ToSet
<1> QED
  BY <1>2, <1>7, <1>8, <1>10 DEF flat

\* The numbers from i to j.
LEMMA NumbersAre ==
    ASSUME NEW i \in Nat, NEW j \in Nat, i <= j
    PROVE  /\ Numbers(i, j) \in Seq(i..j) /\ Numbers(i, j) \in Seq(Nat)
           /\ Len(Numbers(i, j)) = j - i + 1 /\ Numbers(i, j) # <<>>
           /\ DOMAIN Numbers(i, j) = 1..(j - i + 1)
           /\ \A n \in 1..(j - i + 1) : Numbers(i, j)[n] = i + n - 1
           /\ Numbers(i, j)[1] = i /\ Last(Numbers(i, j)) = j
           /\ ToSet(Numbers(i, j)) = i..j /\ InOrder(Numbers(i, j))
<1> DEFINE s == Numbers(i, j)
           len == j - i + 1
<1>1. len \in Nat \ {0} /\ s = [n \in 1..len |-> i + n - 1]
  BY DEF Numbers
<1>2. DOMAIN s = 1..len /\ \A n \in 1..len : s[n] = i + n - 1 /\ s[n] \in i..j /\ s[n] \in Nat
  BY <1>1
<1>3. s \in [1..len -> i..j] /\ s \in [1..len -> Nat]
  BY <1>1, <1>2
<1> HIDE DEF s
<1>4. s \in Seq(i..j) /\ s \in Seq(Nat) /\ Len(s) = len
  BY <1>1, <1>3
<1> HIDE DEF len
<1>5. s # <<>>
  BY <1>1, <1>4, EmptySeq
<1>6. s[1] = i /\ Last(s) = j
  BY <1>1, <1>2, <1>4 DEF Last, len
<1>7. ToSet(s) = i..j
  <2>1. \A l \in i..j : l - i + 1 \in 1..len /\ l = i + (l - i + 1) - 1
    BY DEF len
  <2>2. ASSUME NEW l \in i..j
        PROVE  l \in ToSet(s)
    <3>1. PICK n \in 1..len : l = i + n - 1
      BY <2>1
    <3>2. n \in DOMAIN s /\ s[n] = l
      BY <1>2, <3>1
    <3> QED
      BY <3>2 DEF ToSet
  <2>3. \A l \in ToSet(s) : l \in i..j
    BY <1>2 DEF ToSet
  <2> QED
    BY <2>2, <2>3
<1>8. InOrder(s)
  BY <1>1, <1>2 DEF InOrder
<1> QED
  BY <1>2, <1>4, <1>5, <1>6, <1>7, <1>8 DEF s, len
-----------------------------------------------------------------------------
(* parse_blocks *)

\* blocks
BlockKinds == {"code", "heading", "table", "list", "paragraph"}
BlockRow == [kind : BlockKinds, lines : Seq(Nat)]

\* A fence that is closed begins a block of code, a heading one of its own.
LEMMA FenceAt ==
    ASSUME NEW doc, NEW i, doc[i] \in Fences, Closers(doc, i) # {}
    PROVE  BlockAt(doc, i) = Block("code", i, Min(Closers(doc, i)))
<1>1. doc[i] \notin DOMAIN Headings /\ doc[i] \notin Piped /\ doc[i] \notin {"item", "sub"}
  BY DEF Fences, Headings, FenceLength, Piped, Seps
<1> QED
  BY <1>1 DEF BlockAt

\* A heading is a block by itself.
LEMMA HeadingAt ==
    ASSUME NEW doc, NEW i, doc[i] \in DOMAIN Headings
    PROVE  BlockAt(doc, i) = Block("heading", i, i)
<1>1. doc[i] \notin Fences /\ doc[i] \notin Piped /\ doc[i] \notin {"item", "sub"}
  BY DEF Fences, Headings, FenceLength, Piped, Seps
<1> QED
  BY <1>1 DEF BlockAt

\* A run of lines of the given kinds.
LEMMA RunEndIs ==
    ASSUME NEW doc \in Seq(LineKinds), NEW i \in 1..Len(doc), NEW kinds
    PROVE  /\ RunEnd(doc, i, kinds) \in i..Len(doc)
           /\ \A k \in i + 1..RunEnd(doc, i, kinds) : doc[k] \in kinds
<1>1. Len(doc) \in Nat /\ i \in Nat /\ i \in i..Len(doc)
  BY LenProperties
<1> DEFINE s == {j \in i..Len(doc) : \A k \in i + 1..j : doc[k] \in kinds}
<1>2. i \in s /\ s \in SUBSET (1..Len(doc)) /\ s \subseteq i..Len(doc)
  BY <1>1
<1>3. RunEnd(doc, i, kinds) = Max(s)
  BY DEF RunEnd
<1>4. \A j \in s : \A k \in i + 1..j : doc[k] \in kinds
  OBVIOUS
<1> HIDE DEF s
<1>5. Max(s) \in s
  BY <1>1, <1>2, LastPosition
<1> QED
  BY <1>2, <1>3, <1>4, <1>5

\* A block of its own begins at a line that has none: it is a run of lines, a heading one.
LEMMA BlockAtIs ==
    ASSUME NEW doc \in Seq(LineKinds), NEW i \in 1..Len(doc)
    PROVE  \E kind \in BlockKinds, z \in i..Len(doc) :
              /\ BlockAt(doc, i) = Block(kind, i, z)
              /\ kind = "heading" => z = i /\ doc[i] \in DOMAIN Headings
<1>1. Len(doc) \in Nat /\ i \in Nat /\ i \in i..Len(doc)
  BY LenProperties
<1>2. CASE doc[i] \in Fences /\ Closers(doc, i) # {}
  <2>1. BlockAt(doc, i) = Block("code", i, Min(Closers(doc, i)))
    BY <1>2, FenceAt
  <2>2. Closers(doc, i) \subseteq Nat /\ \A j \in Closers(doc, i) : j \in i..Len(doc)
    BY <1>1 DEF Closers
  <2>3. Min(Closers(doc, i)) \in i..Len(doc)
    BY <1>2, <2>2, FirstPosition
  <2> QED
    BY <2>1, <2>3 DEF BlockKinds
<1>3. CASE doc[i] \in DOMAIN Headings
  <2>1. BlockAt(doc, i) = Block("heading", i, i)
    BY <1>3, HeadingAt
  <2> QED
    BY <1>1, <1>3, <2>1 DEF BlockKinds
<1>4. \A kinds : RunEnd(doc, i, kinds) \in i..Len(doc)
  BY RunEndIs
<1>5. CASE /\ ~(doc[i] \in Fences /\ Closers(doc, i) # {}) /\ doc[i] \notin DOMAIN Headings
  <2>1. \/ BlockAt(doc, i) = Block("table", i, RunEnd(doc, i, Piped))
        \/ BlockAt(doc, i) = Block("list", i, RunEnd(doc, i, {"item"} \cup Indented))
        \/ BlockAt(doc, i) = Block("paragraph", i, i)
    BY <1>5 DEF BlockAt
  <2>2. \A kind \in {"table", "list", "paragraph"} : kind \in BlockKinds /\ kind # "heading"
    BY DEF BlockKinds
  <2> QED
    BY <1>1, <1>4, <2>1, <2>2
<1> QED
  BY <1>2, <1>3, <1>5

\* The numbers of a document's lines.
LEMMA LineNumbers ==
    ASSUME NEW n \in Nat
    PROVE  DOMAIN Numbers(1, n) = 1..n /\ \A k \in 1..n : Numbers(1, n)[k] = k
BY DEF Numbers

\* One line of the pass.
LastLine(blocks) == IF blocks = <<>> THEN 0 ELSE Last(Last(blocks).lines)
LineRead(doc, blocks, i) ==
    IF i <= LastLine(blocks) \/ doc[i] = "blank" THEN blocks
    ELSE IF /\ BlockAt(doc, i).kind = "paragraph" /\ i = LastLine(blocks) + 1
            /\ blocks # <<>> /\ Last(blocks).kind = "paragraph"
    THEN [blocks EXCEPT ![Len(blocks)].lines = Append(@, i)]
    ELSE Append(blocks, BlockAt(doc, i))

\* A block begun is a row.
LEMMA BlockTyped ==
    ASSUME NEW doc \in Seq(LineKinds), NEW i \in 1..Len(doc)
    PROVE  BlockAt(doc, i) \in BlockRow
<1>1. PICK kind \in BlockKinds, z \in i..Len(doc) : BlockAt(doc, i) = Block(kind, i, z)
  BY BlockAtIs
<1>2. i \in Nat /\ z \in Nat /\ i <= z
  BY LenProperties
<1>3. Numbers(i, z) \in Seq(Nat)
  BY <1>2, NumbersAre
<1> QED
  BY <1>1, <1>3 DEF Block, BlockRow

\* The last block takes one more line.
LEMMA LineGrows ==
    ASSUME NEW blocks \in Seq(BlockRow), blocks # <<>>, NEW i \in Nat
    PROVE  LET longer == [blocks EXCEPT ![Len(blocks)].lines = Append(@, i)]
           IN  /\ longer \in Seq(BlockRow) /\ Len(longer) = Len(blocks) /\ Len(blocks) \in Nat \ {0}
               /\ \A n \in 1..Len(blocks) :
                     longer[n] = IF n = Len(blocks)
                                 THEN [kind |-> blocks[n].kind, lines |-> Append(blocks[n].lines, i)]
                                 ELSE blocks[n]
<1> DEFINE len == Len(blocks)
           row == [kind |-> blocks[len].kind, lines |-> Append(blocks[len].lines, i)]
<1>1. len \in Nat \ {0} /\ blocks \in [1..len -> BlockRow] /\ len \in 1..len
  BY LenProperties, EmptySeq
<1>2. blocks[len] \in BlockRow /\ blocks[len].kind \in BlockKinds /\ blocks[len].lines \in Seq(Nat)
  BY <1>1 DEF BlockRow
<1>3. row \in BlockRow
  <2>1. Append(blocks[len].lines, i) \in Seq(Nat)
    BY <1>2, AppendProperties
  <2> QED
    BY <1>2, <2>1 DEF BlockRow
<1>4. [blocks EXCEPT ![len].lines = Append(@, i)] = [blocks EXCEPT ![len] = row]
  <2>1. \A r \in BlockRow : [r EXCEPT !.lines = Append(@, i)] = [kind |-> r.kind, lines |-> Append(r.lines, i)]
    <3>1. \A r \in BlockRow : \A x : [r EXCEPT !.lines = x] = [kind |-> r.kind, lines |-> x]
      BY DEF BlockRow
    <3> QED
      BY <3>1, Zenon
  <2>2. [blocks[len] EXCEPT !.lines = Append(@, i)] = row
    BY <1>2, <2>1
  <2>3. [blocks EXCEPT ![len].lines = Append(@, i)] = [blocks EXCEPT ![len] = [blocks[len] EXCEPT !.lines = Append(@, i)]]
    OBVIOUS
  <2> QED
    BY <2>2, <2>3, Zenon
<1> HIDE DEF row
<1>5. /\ [blocks EXCEPT ![len] = row] \in Seq(BlockRow)
      /\ Len([blocks EXCEPT ![len] = row]) = len
      /\ \A j \in 1..len : [blocks EXCEPT ![len] = row][j] = IF j = len THEN row ELSE blocks[j]
  BY <1>1, <1>3, ExceptSeq
<1> QED
  BY <1>1, <1>4, <1>5 DEF row

\* A line leaves rows.
LEMMA LineTyped ==
    ASSUME NEW doc \in Seq(LineKinds), NEW blocks \in Seq(BlockRow), NEW i \in 1..Len(doc)
    PROVE  LineRead(doc, blocks, i) \in Seq(BlockRow)
<1>1. Append(blocks, BlockAt(doc, i)) \in Seq(BlockRow)
  BY BlockTyped, AppendProperties
<1>2. i \in Nat
  OBVIOUS
<1>3. blocks # <<>> => [blocks EXCEPT ![Len(blocks)].lines = Append(@, i)] \in Seq(BlockRow)
  BY <1>2, LineGrows
<1> QED
  BY <1>1, <1>3 DEF LineRead

\* ParseBlocks is a walk over the lines.
LEMMA ParseWalk ==
    ASSUME NEW doc \in Seq(LineKinds)
    PROVE  \E v \in [0..Len(doc) -> Seq(BlockRow)] :
              /\ v[0] = <<>> /\ \A k \in 1..Len(doc) : v[k] = LineRead(doc, v[k - 1], Numbers(1, Len(doc))[k])
              /\ ParseBlocks(doc) = v[Len(doc)]
<1> DEFINE n == Len(doc)
           o == [p \in Seq(BlockRow) \X (1..n) |-> LineRead(doc, p[1], Numbers(1, Len(doc))[p[2]])]
           Solves(g) == g = [s \in SUBSET DOMAIN Numbers(1, Len(doc)) |-> IF s = {} THEN <<>>
                               ELSE LineRead(doc, g[s \ {Max(s)}], Numbers(1, Len(doc))[Max(s)])]
           chosen == CHOOSE g : Solves(g)
<1>1. n \in Nat /\ DOMAIN Numbers(1, Len(doc)) = 1..n
  BY LenProperties, LineNumbers
<1>2. \A q \in Seq(BlockRow), i \in 1..n : LineRead(doc, q, Numbers(1, Len(doc))[i]) \in Seq(BlockRow)
  BY <1>1, LenProperties, LineNumbers, LineTyped
<1>3. <<>> \in Seq(BlockRow)
  BY EmptySeq
<1> HIDE DEF n
<1>4. o \in [Seq(BlockRow) \X (1..n) -> Seq(BlockRow)]
  BY <1>2
<1>5. PICK g \in [SUBSET (1..n) -> Seq(BlockRow)] : FoldFun(o, <<>>, n, g)
  BY <1>1, <1>3, <1>4, FoldExists
<1>6. Solves(g)
  <2>1. \A s \in SUBSET (1..n) :
           g[s] = IF s = {} THEN <<>> ELSE LineRead(doc, g[s \ {Max(s)}], Numbers(1, Len(doc))[Max(s)])
    <3>1. SUFFICES ASSUME NEW s \in SUBSET (1..n), s # {}
                   PROVE  g[s] = LineRead(doc, g[s \ {Max(s)}], Numbers(1, Len(doc))[Max(s)])
      BY <1>5 DEF FoldFun
    <3> HIDE DEF o
    <3>2. Max(s) \in 1..n /\ s \ {Max(s)} \in SUBSET (1..n)
      BY <1>1, <1>5, <3>1, FoldFunAt
    <3>3. g[s] = o[<<g[s \ {Max(s)}], Max(s)>>]
      BY <1>5, <3>1, Zenon DEF FoldFun
    <3> USE DEF o
    <3>4. <<g[s \ {Max(s)}], Max(s)>> \in Seq(BlockRow) \X (1..n)
      BY <1>5, <3>2
    <3> QED
      BY <3>3, <3>4
  <2> QED
    BY <1>1, <2>1
<1>7. Solves(chosen)
  BY <1>6, Zenon
<1>8. ParseBlocks(doc) = chosen[DOMAIN Numbers(1, Len(doc))]
  BY Zenon DEF ParseBlocks, FoldLeft, MapThenFoldSet, LineRead, LastLine
<1>9. chosen[{}] = <<>>
  BY <1>1, <1>7
<1>10. \A k \in 1..n : chosen[1..(k - 1)] \in Seq(BlockRow) => chosen[1..k] = o[<<chosen[1..(k - 1)], k>>]
  <2> HIDE DEF chosen
  <2>1. SUFFICES ASSUME NEW k \in 1..n, chosen[1..(k - 1)] \in Seq(BlockRow)
                 PROVE  chosen[1..k] = o[<<chosen[1..(k - 1)], k>>]
    OBVIOUS
  <2>2. k \in Nat /\ k # 0 /\ 1..k \in SUBSET (1..n)
    BY <1>1
  <2>3. Max(1..k) = k /\ (1..k) \ {k} = 1..(k - 1) /\ 1..k # {} /\ 1..k \in SUBSET (1..n)
    BY <2>2, LastOfFirst
  <2>4. chosen[1..k] = LineRead(doc, chosen[(1..k) \ {Max(1..k)}], Numbers(1, Len(doc))[Max(1..k)])
    BY <1>1, <1>7, <2>3
  <2>5. chosen[1..k] = LineRead(doc, chosen[1..(k - 1)], Numbers(1, Len(doc))[k])
    BY <2>3, <2>4, Zenon
  <2>6. <<chosen[1..(k - 1)], k>> \in Seq(BlockRow) \X (1..n)
    BY <2>1
  <2> QED
    BY <2>5, <2>6
<1>11. \A p \in Seq(BlockRow), k \in 1..n : o[<<p, k>>] = LineRead(doc, p, Numbers(1, Len(doc))[k])
  OBVIOUS
<1> HIDE DEF chosen, o
<1>12. FoldSteps(n, Seq(BlockRow), <<>>, o, chosen)
  BY <1>1, <1>3, <1>4, <1>9, <1>10 DEF FoldSteps
<1>13. PICK v \in [0..n -> Seq(BlockRow)] : FoldTrace(n, Seq(BlockRow), <<>>, o, v) /\ v[n] = chosen[1..n]
  BY <1>12, FoldWalk
<1>14. v[0] = <<>> /\ \A k \in 1..n : v[k] = LineRead(doc, v[k - 1], Numbers(1, Len(doc))[k])
  <2>1. \A k \in 1..n : k - 1 \in 0..n
    BY <1>1
  <2> QED
    BY <1>11, <1>13, <2>1 DEF FoldTrace
<1>15. ParseBlocks(doc) = v[n]
  BY <1>1, <1>8, <1>13
<1> QED
  BY <1>14, <1>15 DEF n

\* Where a block begins and ends, and what it is.
From(b) == b.lines[1]
To(b) == Last(b.lines)
IsBlock(doc, b) ==
    /\ b \in BlockRow /\ From(b) \in 1..Len(doc) /\ To(b) \in From(b)..Len(doc)
    /\ b.lines = Numbers(From(b), To(b)) /\ doc[From(b)] # "blank"
    /\ b.kind = "heading" => To(b) = From(b) /\ doc[From(b)] \in DOMAIN Headings

\* A block is the run of its lines.
LEMMA BlockSpan ==
    ASSUME NEW doc \in Seq(LineKinds), NEW b, IsBlock(doc, b)
    PROVE  /\ From(b) \in Nat \ {0} /\ To(b) \in Nat /\ From(b) <= To(b) /\ To(b) <= Len(doc)
           /\ b.lines \in Seq(Nat) /\ b.lines # <<>> /\ InOrder(b.lines)
           /\ ToSet(b.lines) = From(b)..To(b) /\ b.kind \in BlockKinds
<1>1. /\ From(b) \in Nat \ {0} /\ To(b) \in Nat /\ From(b) <= To(b) /\ To(b) <= Len(doc)
      /\ b.lines = Numbers(From(b), To(b)) /\ b.kind \in BlockKinds
  BY LenProperties DEF IsBlock, BlockRow
<1>2. PICK a, z : a = From(b) /\ z = To(b)
  OBVIOUS
<1>3. a \in Nat /\ z \in Nat /\ a <= z
  BY <1>1, <1>2
<1>4. /\ Numbers(a, z) \in Seq(Nat) /\ Numbers(a, z) # <<>> /\ InOrder(Numbers(a, z))
      /\ ToSet(Numbers(a, z)) = a..z
  BY <1>3, NumbersAre
<1>5. b.lines \in Seq(Nat) /\ b.lines # <<>> /\ InOrder(b.lines) /\ ToSet(b.lines) = From(b)..To(b)
  BY <1>1, <1>2, <1>4, Zenon
<1> QED
  BY <1>1, <1>5

\* A run of lines is a block.
LEMMA BlockMade ==
    ASSUME NEW doc \in Seq(LineKinds), NEW kind \in BlockKinds, NEW i \in 1..Len(doc),
           NEW z \in i..Len(doc), doc[i] # "blank",
           kind = "heading" => z = i /\ doc[i] \in DOMAIN Headings
    PROVE  /\ IsBlock(doc, [kind |-> kind, lines |-> Numbers(i, z)])
           /\ From([kind |-> kind, lines |-> Numbers(i, z)]) = i
           /\ To([kind |-> kind, lines |-> Numbers(i, z)]) = z
<1> DEFINE b == [kind |-> kind, lines |-> Numbers(i, z)]
<1>1. i \in Nat /\ z \in Nat /\ i <= z
  BY LenProperties
<1>2. b.kind = kind /\ b.lines = Numbers(i, z) /\ b \in BlockRow
  BY <1>1, NumbersAre DEF BlockRow
<1>3. From(b) = i /\ To(b) = z
  BY <1>1, <1>2, NumbersAre DEF From, To
<1> HIDE DEF b
<1>4. IsBlock(doc, b)
  BY <1>2, <1>3 DEF IsBlock
<1> QED
  BY <1>3, <1>4 DEF b

\* A run takes the next line.
LEMMA NumbersGrow ==
    ASSUME NEW a \in Nat, NEW i \in Nat, a <= i
    PROVE  Append(Numbers(a, i), i + 1) = Numbers(a, i + 1)
<1>1. Numbers(a, i) \in Seq(Nat) /\ Len(Numbers(a, i)) = i - a + 1
      /\ \A n \in 1..(i - a + 1) : Numbers(a, i)[n] = a + n - 1
  BY NumbersAre
<1>2. Numbers(a, i + 1) \in Seq(Nat) /\ Len(Numbers(a, i + 1)) = (i + 1) - a + 1
      /\ \A n \in 1..((i + 1) - a + 1) : Numbers(a, i + 1)[n] = a + n - 1
  <2>1. i + 1 \in Nat /\ a <= i + 1
    OBVIOUS
  <2> QED
    BY <2>1, NumbersAre
<1> DEFINE s == Numbers(a, i)
           t == Numbers(a, i + 1)
           u == Append(s, i + 1)
<1>3. /\ u \in Seq(Nat) /\ Len(u) = Len(s) + 1
      /\ \A n \in 1..Len(s) : u[n] = s[n]
      /\ u[Len(s) + 1] = i + 1
  BY <1>1, AppendProperties
<1> HIDE DEF s, t, u
<1>4. /\ t \in Seq(Nat) /\ Len(u) = Len(t) /\ Len(t) = (i - a + 1) + 1 /\ Len(s) = i - a + 1
      /\ \A n \in 1..Len(t) : t[n] = a + n - 1
  BY <1>1, <1>2, <1>3 DEF s, t
<1>5. \A n \in 1..Len(s) : u[n] = t[n]
  BY <1>1, <1>3, <1>4 DEF s
<1>6. u[Len(s) + 1] = t[Len(s) + 1]
  BY <1>3, <1>4
<1>7. \A n \in 1..Len(u) : n \in 1..Len(s) \/ n = Len(s) + 1
  BY <1>4
<1>8. \A n \in 1..Len(u) : u[n] = t[n]
  BY <1>5, <1>6, <1>7
<1>9. u = t
  BY <1>3, <1>4, <1>8, SeqEqual
<1> QED
  BY <1>9 DEF s, t, u

\* What the first i lines have become.
ParsedTo(doc, i, blocks) ==
    /\ blocks \in Seq(BlockRow)
    /\ \A n \in 1..Len(blocks) : IsBlock(doc, blocks[n]) /\ From(blocks[n]) <= i
    /\ \A m, n \in 1..Len(blocks) : m < n => To(blocks[m]) < From(blocks[n])
    /\ \A l \in 1..i : doc[l] # "blank" => \E n \in 1..Len(blocks) : From(blocks[n]) <= l /\ l <= To(blocks[n])

\* The last block ends last.
LEMMA LastLineIs ==
    ASSUME NEW doc \in Seq(LineKinds), NEW i \in Nat, NEW blocks, ParsedTo(doc, i, blocks)
    PROVE  /\ Len(blocks) \in Nat /\ LastLine(blocks) \in Nat
           /\ blocks = <<>> <=> Len(blocks) = 0
           /\ blocks # <<>> => LastLine(blocks) = To(blocks[Len(blocks)]) /\ Last(blocks) = blocks[Len(blocks)]
           /\ \A n \in 1..Len(blocks) : To(blocks[n]) <= LastLine(blocks)
<1> DEFINE len == Len(blocks)
<1>1. len \in Nat /\ (blocks = <<>> <=> len = 0)
  BY LenProperties, EmptySeq DEF ParsedTo
<1>2. \A n \in 1..len : To(blocks[n]) \in Nat /\ From(blocks[n]) \in Nat /\ From(blocks[n]) <= To(blocks[n])
  BY BlockSpan DEF ParsedTo
<1>3. Last(blocks) = blocks[len]
  BY DEF Last
<1>4. CASE blocks = <<>>
  BY <1>1, <1>4 DEF LastLine
<1>5. CASE blocks # <<>>
  <2>1. len \in 1..len
    BY <1>1, <1>5
  <2>2. LastLine(blocks) = To(blocks[len])
    BY <1>3, <1>5 DEF LastLine, To
  <2>3. \A n \in 1..len : To(blocks[n]) <= To(blocks[len])
    <3>1. SUFFICES ASSUME NEW n \in 1..len, n # len PROVE To(blocks[n]) <= To(blocks[len])
      BY <1>2
    <3>2. To(blocks[n]) < From(blocks[len])
      BY <1>1, <2>1, <3>1 DEF ParsedTo
    <3> QED
      BY <1>2, <2>1, <3>2
  <2> QED
    BY <1>1, <1>2, <1>3, <1>5, <2>1, <2>2, <2>3
<1> QED
  BY <1>4, <1>5

\* One more line is read.
LEMMA LineReads ==
    ASSUME NEW doc \in Seq(LineKinds), NEW i \in 1..Len(doc), NEW blocks, ParsedTo(doc, i - 1, blocks)
    PROVE  ParsedTo(doc, i, LineRead(doc, blocks, i))
<1> DEFINE len == Len(blocks)
           last == LastLine(blocks)
<1>1. i \in Nat /\ i - 1 \in Nat /\ Len(doc) \in Nat
  BY LenProperties
<1>2. /\ len \in Nat /\ last \in Nat /\ (blocks = <<>> <=> len = 0)
      /\ blocks # <<>> => last = To(blocks[len]) /\ Last(blocks) = blocks[len]
      /\ \A n \in 1..len : To(blocks[n]) <= last
  BY <1>1, LastLineIs
<1>3. /\ blocks \in Seq(BlockRow)
      /\ \A n \in 1..len : IsBlock(doc, blocks[n]) /\ From(blocks[n]) <= i - 1
      /\ \A m, n \in 1..len : m < n => To(blocks[m]) < From(blocks[n])
      /\ \A l \in 1..(i - 1) : doc[l] # "blank" => \E n \in 1..len : From(blocks[n]) <= l /\ l <= To(blocks[n])
  BY DEF ParsedTo
<1>4. \A n \in 1..len : /\ From(blocks[n]) \in Nat \ {0} /\ To(blocks[n]) \in Nat
                        /\ From(blocks[n]) <= To(blocks[n]) /\ From(blocks[n]) <= i
  BY <1>1, <1>3, BlockSpan
<1>5. CASE i <= last \/ doc[i] = "blank"
  <2>1. LineRead(doc, blocks, i) = blocks
    BY <1>5 DEF LineRead
  <2>2. ASSUME NEW l \in 1..i, doc[l] # "blank"
        PROVE  \E n \in 1..len : From(blocks[n]) <= l /\ l <= To(blocks[n])
    <3>1. CASE l # i
      <4>1. l \in 1..(i - 1)
        BY <1>1, <3>1
      <4> QED
        BY <1>3, <2>2, <4>1
    <3>2. CASE l = i
      <4>1. i <= last /\ blocks # <<>>
        BY <1>1, <1>5, <2>2, <3>2 DEF LastLine
      <4>2. len \in 1..len /\ last = To(blocks[len])
        BY <1>2, <4>1
      <4> QED
        BY <1>4, <3>2, <4>1, <4>2
    <3> QED
      BY <3>1, <3>2
  <2> QED
    BY <1>3, <1>4, <2>1, <2>2 DEF ParsedTo
<1>6. CASE /\ ~(i <= last) /\ doc[i] # "blank"
           /\ ~(/\ BlockAt(doc, i).kind = "paragraph" /\ i = last + 1
                /\ blocks # <<>> /\ Last(blocks).kind = "paragraph")
  <2> DEFINE b == BlockAt(doc, i)
             longer == Append(blocks, b)
  <2>1. LineRead(doc, blocks, i) = longer
    BY <1>6 DEF LineRead
  <2>2. IsBlock(doc, b) /\ From(b) = i /\ To(b) \in Nat /\ i <= To(b) /\ b \in BlockRow
    <3>1. PICK kind \in BlockKinds, z \in i..Len(doc) :
              /\ b = Block(kind, i, z)
              /\ kind = "heading" => z = i /\ doc[i] \in DOMAIN Headings
      BY BlockAtIs
    <3>2. b = [kind |-> kind, lines |-> Numbers(i, z)]
      BY <3>1 DEF Block
    <3>3. IsBlock(doc, b) /\ From(b) = i /\ To(b) = z
      BY <1>6, <3>1, <3>2, BlockMade
    <3> QED
      BY <1>1, <3>3, BlockTyped
  <2> HIDE DEF b
  <2>3. /\ longer \in Seq(BlockRow) /\ Len(longer) = len + 1
        /\ \A n \in 1..len : longer[n] = blocks[n]
        /\ longer[len + 1] = b
    BY <1>3, <2>2, AppendProperties
  <2> HIDE DEF longer
  <2>4. \A n \in 1..(len + 1) : (n \in 1..len /\ longer[n] = blocks[n]) \/ (n = len + 1 /\ longer[n] = b)
    BY <1>2, <2>3
  <2>5. \A n \in 1..(len + 1) : IsBlock(doc, longer[n]) /\ From(longer[n]) <= i
    <3>1. SUFFICES ASSUME NEW n \in 1..(len + 1) PROVE IsBlock(doc, longer[n]) /\ From(longer[n]) <= i
      OBVIOUS
    <3>2. CASE n \in 1..len /\ longer[n] = blocks[n]
      BY <1>3, <1>4, <3>2
    <3>3. CASE longer[n] = b
      BY <1>1, <2>2, <3>3
    <3> QED
      BY <2>4, <3>2, <3>3
  <2>6. \A m, n \in 1..(len + 1) : m < n => To(longer[m]) < From(longer[n])
    <3>1. SUFFICES ASSUME NEW m \in 1..(len + 1), NEW n \in 1..(len + 1), m < n
                   PROVE  To(longer[m]) < From(longer[n])
      OBVIOUS
    <3>2. m \in 1..len /\ longer[m] = blocks[m]
      BY <1>2, <2>4, <3>1
    <3>3. CASE n \in 1..len /\ longer[n] = blocks[n]
      BY <1>3, <3>1, <3>2, <3>3
    <3>4. CASE longer[n] = b
      BY <1>1, <1>2, <1>4, <1>6, <2>2, <3>2, <3>4
    <3> QED
      BY <2>4, <3>3, <3>4
  <2>7. ASSUME NEW l \in 1..i, doc[l] # "blank"
        PROVE  \E n \in 1..(len + 1) : From(longer[n]) <= l /\ l <= To(longer[n])
    <3>1. CASE l # i
      <4>1. l \in 1..(i - 1)
        BY <1>1, <3>1
      <4>2. PICK n \in 1..len : From(blocks[n]) <= l /\ l <= To(blocks[n])
        BY <1>3, <2>7, <4>1
      <4> QED
        BY <1>2, <2>3, <4>2
    <3>2. CASE l = i
      <4>1. len + 1 \in 1..(len + 1)
        BY <1>2
      <4> QED
        BY <1>1, <2>2, <2>3, <3>2, <4>1
    <3> QED
      BY <3>1, <3>2
  <2> QED
    BY <2>1, <2>3, <2>5, <2>6, <2>7 DEF ParsedTo
<1>7. CASE /\ ~(i <= last) /\ doc[i] # "blank"
           /\ BlockAt(doc, i).kind = "paragraph" /\ i = last + 1
           /\ blocks # <<>> /\ Last(blocks).kind = "paragraph"
  <2> DEFINE longer == [blocks EXCEPT ![len].lines = Append(@, i)]
             a == From(blocks[len])
             b == [kind |-> blocks[len].kind, lines |-> Numbers(a, i)]
  <2>1. LineRead(doc, blocks, i) = longer
    BY <1>7 DEF LineRead
  <2>2. len \in 1..len /\ last = To(blocks[len]) /\ blocks[len].kind = "paragraph"
    BY <1>2, <1>7
  <2>3. IsBlock(doc, blocks[len]) /\ blocks[len].lines = Numbers(a, last) /\ blocks[len].kind \in BlockKinds
        /\ a \in Nat \ {0} /\ a <= last /\ a \in 1..Len(doc) /\ doc[a] # "blank"
    <3>1. IsBlock(doc, blocks[len])
      BY <1>3, <2>2
    <3> QED
      BY <2>2, <3>1, BlockSpan DEF IsBlock
  <2>4. Append(blocks[len].lines, i) = Numbers(a, i)
    BY <1>2, <1>7, <2>3, NumbersGrow
  <2>5. IsBlock(doc, b) /\ From(b) = a /\ To(b) = i
    <3>1. i \in a..Len(doc)
      BY <1>1, <1>2, <1>7, <2>3
    <3> QED
      BY <2>2, <2>3, <3>1, BlockMade
  <2>6. /\ longer \in Seq(BlockRow) /\ Len(longer) = len
        /\ \A n \in 1..len : longer[n] = IF n = len THEN b ELSE blocks[n]
    <3>1. /\ longer \in Seq(BlockRow) /\ Len(longer) = len
          /\ \A n \in 1..len :
                longer[n] = IF n = len
                            THEN [kind |-> blocks[n].kind, lines |-> Append(blocks[n].lines, i)]
                            ELSE blocks[n]
      BY <1>1, <1>3, <1>7, LineGrows
    <3>2. b = [kind |-> blocks[len].kind, lines |-> Append(blocks[len].lines, i)]
      BY <2>4
    <3> HIDE DEF longer, b
    <3> QED
      BY <3>1, <3>2
  <2> HIDE DEF longer, b
  <2>7. \A n \in 1..len : From(longer[n]) = From(blocks[n])
    BY <2>5, <2>6
  <2>8. \A n \in 1..len : IsBlock(doc, longer[n]) /\ From(longer[n]) <= i
    BY <1>3, <1>4, <2>5, <2>6, <2>7
  <2>9. \A m, n \in 1..len : m < n => To(longer[m]) < From(longer[n])
    <3>1. SUFFICES ASSUME NEW m \in 1..len, NEW n \in 1..len, m < n
                   PROVE  To(longer[m]) < From(longer[n])
      OBVIOUS
    <3>2. longer[m] = blocks[m]
      BY <1>2, <2>6, <3>1
    <3> QED
      BY <1>3, <2>7, <3>1, <3>2
  <2>10. ASSUME NEW l \in 1..i, doc[l] # "blank"
         PROVE  \E n \in 1..len : From(longer[n]) <= l /\ l <= To(longer[n])
    <3>1. CASE l # i
      <4>1. l \in 1..(i - 1)
        BY <1>1, <3>1
      <4>2. PICK n \in 1..len : From(blocks[n]) <= l /\ l <= To(blocks[n])
        BY <1>3, <2>10, <4>1
      <4>3. l <= To(longer[n])
        BY <1>1, <2>5, <2>6, <4>1, <4>2
      <4> QED
        BY <2>7, <4>2, <4>3
    <3>2. CASE l = i
      BY <1>4, <2>2, <2>5, <2>6, <2>7, <3>2
    <3> QED
      BY <3>1, <3>2
  <2> QED
    BY <2>1, <2>6, <2>8, <2>9, <2>10 DEF ParsedTo
<1> QED
  BY <1>5, <1>6, <1>7

\* The blocks of a document are runs of its lines, in order, and no written line is outside.
LEMMA BlocksAre ==
    ASSUME NEW doc \in Seq(LineKinds)
    PROVE  ParsedTo(doc, Len(doc), ParseBlocks(doc))
<1>1. PICK v \in [0..Len(doc) -> Seq(BlockRow)] :
          /\ v[0] = <<>> /\ \A k \in 1..Len(doc) : v[k] = LineRead(doc, v[k - 1], Numbers(1, Len(doc))[k])
          /\ ParseBlocks(doc) = v[Len(doc)]
  BY ParseWalk
<1>2. Len(doc) \in Nat
  BY LenProperties
<1> DEFINE good == {k \in 0..Len(doc) : ParsedTo(doc, k, v[k])}
<1>3. 0 \in good
  <2>1. ParsedTo(doc, 0, <<>>)
    BY EmptySeq DEF ParsedTo
  <2> QED
    BY <1>1, <1>2, <2>1
<1>4. \A k \in 1..Len(doc) : k - 1 \in good => k \in good
  <2>1. SUFFICES ASSUME NEW k \in 1..Len(doc), ParsedTo(doc, k - 1, v[k - 1]) PROVE ParsedTo(doc, k, v[k])
    BY <1>2
  <2>2. v[k] = LineRead(doc, v[k - 1], k)
    BY <1>1, <1>2, LineNumbers
  <2> QED
    BY <2>1, <2>2, LineReads
<1>5. Len(doc) \in good
  <2>1. Len(doc) \in 0..Len(doc)
    BY <1>2
  <2> HIDE DEF good
  <2> QED
    BY <1>2, <1>3, <1>4, <2>1, Climb
<1> QED
  BY <1>1, <1>5

-----------------------------------------------------------------------------
(* The first fenced block *)

\* f is the first fence, some later line closes it, and it is in no list.
FirstFence(doc, f) ==
    /\ f \in 1..Len(doc) /\ doc[f] \in Fences /\ Closers(doc, f) # {}
    /\ \A k \in 1..f - 1 : doc[k] \notin Fences
    /\ ~MayBeInList(doc, f)

\* No block that begins before it reaches it.
LEMMA BlockBefore ==
    ASSUME NEW doc \in Seq(LineKinds), NEW f, FirstFence(doc, f), NEW i \in 1..f - 1
    PROVE  \E kind \in BlockKinds, z \in i..f - 1 : BlockAt(doc, i) = Block(kind, i, z)
<1>1. Len(doc) \in Nat /\ f \in Nat /\ i \in Nat /\ f <= Len(doc) /\ i < f /\ i \in 1..Len(doc)
  BY LenProperties DEF FirstFence
<1>2. doc[i] \notin Fences /\ doc[f] \in Fences
  BY DEF FirstFence
<1>3. ASSUME NEW kinds, doc[f] \notin kinds
      PROVE  RunEnd(doc, i, kinds) \in i..f - 1
  <2>1. /\ RunEnd(doc, i, kinds) \in i..Len(doc)
        /\ \A k \in i + 1..RunEnd(doc, i, kinds) : doc[k] \in kinds
    BY <1>1, RunEndIs
  <2>2. PICK z : z = RunEnd(doc, i, kinds)
    OBVIOUS
  <2>3. ~(f <= z)
    BY <1>1, <1>3, <2>1, <2>2
  <2> QED
    BY <1>1, <2>1, <2>2, <2>3
<1>4. i \in i..f - 1
  BY <1>1
<1>5. {"heading", "table", "list", "paragraph"} \subseteq BlockKinds
  BY DEF BlockKinds
<1>6. CASE doc[i] \in DOMAIN Headings
  BY <1>4, <1>5, <1>6, HeadingAt
<1>7. CASE doc[i] \in {"item", "sub"}
  <2>1. doc[f] \notin {"item"} \cup Indented
    <3>1. doc[f] \notin Indented
      BY <1>7 DEF FirstFence, MayBeInList
    <3> QED
      BY <1>2, <3>1 DEF Fences, FenceLength
  <2>2. RunEnd(doc, i, {"item"} \cup Indented) \in i..f - 1
    BY <1>3, <2>1
  <2>3. BlockAt(doc, i) = Block("list", i, RunEnd(doc, i, {"item"} \cup Indented))
    <3>1. doc[i] \notin DOMAIN Headings /\ doc[i] \notin Piped
      BY <1>7 DEF Headings, Piped, Seps
    <3> QED
      BY <1>2, <1>7, <3>1 DEF BlockAt
  <2> QED
    BY <1>5, <2>2, <2>3
<1>8. CASE doc[i] \notin DOMAIN Headings /\ doc[i] \notin {"item", "sub"}
  <2>1. doc[f] \notin Piped
    BY <1>2 DEF Fences, FenceLength, Piped, Seps
  <2>2. RunEnd(doc, i, Piped) \in i..f - 1
    BY <1>3, <2>1
  <2>3. \/ BlockAt(doc, i) = Block("table", i, RunEnd(doc, i, Piped))
        \/ BlockAt(doc, i) = Block("paragraph", i, i)
    BY <1>2, <1>8 DEF BlockAt
  <2> QED
    BY <1>4, <1>5, <2>2, <2>3
<1> QED
  BY <1>6, <1>7, <1>8

\* Before it is read no block reaches it, and then its block stays.
FenceRead(doc, f, k, blocks) ==
    /\ k < f => LastLine(blocks) \in 0..f - 1
    /\ k >= f => \E n \in 1..Len(blocks) : blocks[n] = BlockAt(doc, f)

\* One line more leaves that so.
LEMMA FenceReads ==
    ASSUME NEW doc \in Seq(LineKinds), NEW f, FirstFence(doc, f), NEW k \in 1..Len(doc),
           NEW blocks \in Seq(BlockRow), FenceRead(doc, f, k - 1, blocks)
    PROVE  FenceRead(doc, f, k, LineRead(doc, blocks, k))
<1>1. Len(doc) \in Nat /\ f \in Nat /\ k \in Nat /\ f \in 1..Len(doc) /\ k - 1 \in Nat
  BY LenProperties DEF FirstFence
<1>2. Len(blocks) \in Nat /\ (blocks = <<>> <=> Len(blocks) = 0)
  BY LenProperties, EmptySeq
<1>3. BlockAt(doc, k) \in BlockRow
  BY BlockTyped
<1> DEFINE put == Append(blocks, BlockAt(doc, k))
           longer == [blocks EXCEPT ![Len(blocks)].lines = Append(@, k)]
<1>4. /\ put \in Seq(BlockRow) /\ Len(put) = Len(blocks) + 1
      /\ \A n \in 1..Len(blocks) : put[n] = blocks[n]
      /\ put[Len(blocks) + 1] = BlockAt(doc, k)
  BY <1>3, AppendProperties
<1>5. blocks # <<>> =>
         /\ longer \in Seq(BlockRow) /\ Len(longer) = Len(blocks) /\ Len(blocks) \in Nat \ {0}
         /\ \A n \in 1..Len(blocks) :
               longer[n] = IF n = Len(blocks)
                           THEN [kind |-> blocks[n].kind, lines |-> Append(blocks[n].lines, k)]
                           ELSE blocks[n]
  BY <1>1, LineGrows
<1>6. \/ LineRead(doc, blocks, k) = blocks /\ (k <= LastLine(blocks) \/ doc[k] = "blank")
      \/ LineRead(doc, blocks, k) = put
      \/ /\ LineRead(doc, blocks, k) = longer /\ blocks # <<>> /\ Last(blocks).kind = "paragraph"
         /\ BlockAt(doc, k).kind = "paragraph"
  BY DEF LineRead
<1>7. BlockAt(doc, f).kind = "code" /\ doc[f] # "blank"
  <2>1. BlockAt(doc, f) = Block("code", f, Min(Closers(doc, f)))
    BY FenceAt DEF FirstFence
  <2> QED
    BY <2>1 DEF Block, FirstFence, Fences, FenceLength
<1> HIDE DEF put, longer
<1>8. CASE k < f
  <2>1. LastLine(blocks) \in 0..f - 1
    BY <1>1, <1>8 DEF FenceRead
  <2>2. CASE LineRead(doc, blocks, k) = put
    <3>1. PICK kind \in BlockKinds, z \in k..f - 1 : BlockAt(doc, k) = Block(kind, k, z)
      BY <1>1, <1>8, BlockBefore
    <3>2. Last(Numbers(k, z)) = z
      BY <1>1, NumbersAre
    <3>3. put # <<>> /\ Last(put) = BlockAt(doc, k)
      BY <1>2, <1>4, EmptySeq DEF Last
    <3>4. LastLine(put) = z
      BY <3>1, <3>2, <3>3 DEF LastLine, Block
    <3> QED
      BY <1>1, <1>8, <2>2, <3>4 DEF FenceRead
  <2>3. CASE LineRead(doc, blocks, k) = longer /\ blocks # <<>>
    <3>1. Len(blocks) \in 1..Len(blocks) /\ blocks[Len(blocks)] \in BlockRow
      BY <1>2, <2>3, LenProperties
    <3>2. blocks[Len(blocks)].lines \in Seq(Nat)
      BY <3>1 DEF BlockRow
    <3>3. longer # <<>> /\ Last(longer).lines = Append(blocks[Len(blocks)].lines, k)
      <4>1. /\ longer \in Seq(BlockRow) /\ Len(longer) = Len(blocks) /\ Len(blocks) # 0
            /\ longer[Len(blocks)] = [kind |-> blocks[Len(blocks)].kind,
                                      lines |-> Append(blocks[Len(blocks)].lines, k)]
        BY <1>5, <2>3, <3>1
      <4>2. longer # <<>>
        BY <4>1, EmptySeq
      <4>3. Last(longer) = longer[Len(blocks)]
        BY <4>1 DEF Last
      <4> QED
        BY <4>1, <4>2, <4>3
    <3>4. Last(Append(blocks[Len(blocks)].lines, k)) = k
      BY <1>1, <3>2, AppendProperties DEF Last
    <3>5. LastLine(longer) = k
      BY <3>3, <3>4 DEF LastLine
    <3> QED
      BY <1>1, <1>8, <2>3, <3>5 DEF FenceRead
  <2> QED
    BY <1>1, <1>6, <1>8, <2>1, <2>2, <2>3 DEF FenceRead
<1>9. CASE k = f
  <2>1. LastLine(blocks) \in 0..f - 1
    BY <1>1, <1>9 DEF FenceRead
  <2>2. LineRead(doc, blocks, k) = put
    <3>1. ~(k <= LastLine(blocks)) /\ doc[k] # "blank"
      BY <1>1, <1>7, <1>9, <2>1
    <3>2. BlockAt(doc, k).kind # "paragraph"
      BY <1>7, <1>9
    <3> QED
      BY <1>6, <3>1, <3>2
  <2>3. Len(blocks) + 1 \in 1..Len(put)
    BY <1>2, <1>4
  <2> QED
    BY <1>1, <1>4, <1>9, <2>2, <2>3 DEF FenceRead
<1>10. CASE k > f
  <2>1. PICK n \in 1..Len(blocks) : blocks[n] = BlockAt(doc, f)
    BY <1>1, <1>10 DEF FenceRead
  <2>2. CASE LineRead(doc, blocks, k) = put
    BY <1>1, <1>2, <1>4, <1>10, <2>1, <2>2 DEF FenceRead
  <2>3. CASE LineRead(doc, blocks, k) = longer /\ blocks # <<>> /\ Last(blocks).kind = "paragraph"
    <3>1. n # Len(blocks)
      BY <1>7, <2>1, <2>3 DEF Last
    <3>2. n \in 1..Len(longer) /\ longer[n] = BlockAt(doc, f)
      BY <1>5, <2>1, <2>3, <3>1
    <3>3. ~(k < f)
      BY <1>1, <1>10
    <3> QED
      BY <2>3, <3>2, <3>3 DEF FenceRead
  <2>4. CASE LineRead(doc, blocks, k) = blocks
    BY <1>1, <1>10, <2>1, <2>4 DEF FenceRead
  <2> QED
    BY <1>6, <2>2, <2>3, <2>4
<1> QED
  BY <1>1, <1>8, <1>9, <1>10

\* The first fenced block is one of the document's blocks.
LEMMA FenceParsed ==
    ASSUME NEW doc \in Seq(LineKinds), NEW f, FirstFence(doc, f)
    PROVE  \E n \in 1..Len(ParseBlocks(doc)) : ParseBlocks(doc)[n] = BlockAt(doc, f)
<1>1. PICK v \in [0..Len(doc) -> Seq(BlockRow)] :
          /\ v[0] = <<>> /\ \A k \in 1..Len(doc) : v[k] = LineRead(doc, v[k - 1], Numbers(1, Len(doc))[k])
          /\ ParseBlocks(doc) = v[Len(doc)]
  BY ParseWalk
<1>2. Len(doc) \in Nat /\ f \in Nat /\ f <= Len(doc) /\ 0 < f
  BY LenProperties DEF FirstFence
<1> DEFINE good == {k \in 0..Len(doc) : FenceRead(doc, f, k, v[k])}
<1>3. 0 \in good
  BY <1>1, <1>2 DEF FenceRead, LastLine
<1>4. \A k \in 1..Len(doc) : k - 1 \in good => k \in good
  <2>1. SUFFICES ASSUME NEW k \in 1..Len(doc), FenceRead(doc, f, k - 1, v[k - 1])
                 PROVE  FenceRead(doc, f, k, v[k])
    BY <1>2
  <2>2. Numbers(1, Len(doc))[k] = k
    BY <1>2, LineNumbers
  <2>3. v[k] = LineRead(doc, v[k - 1], k)
    BY <1>1, <2>2
  <2>4. k - 1 \in 0..Len(doc)
    BY <1>2
  <2>5. v[k - 1] \in Seq(BlockRow)
    BY <1>1, <2>4
  <2> QED
    BY <2>1, <2>3, <2>5, FenceReads
<1>5. Len(doc) \in good
  <2>1. Len(doc) \in 0..Len(doc)
    BY <1>2
  <2> HIDE DEF good
  <2> QED
    BY <1>2, <1>3, <1>4, <2>1, Climb
<1>6. FenceRead(doc, f, Len(doc), v[Len(doc)]) /\ Len(doc) >= f
  BY <1>2, <1>5
<1> QED
  BY <1>1, <1>6 DEF FenceRead

-----------------------------------------------------------------------------
(* The atoms of a block *)

\* One more line in order.
LEMMA InOrderPut ==
    ASSUME NEW s \in Seq(Nat), InOrder(s), NEW l \in Nat, \A x \in ToSet(s) : x < l
    PROVE  /\ Append(s, l) \in Seq(Nat) /\ Append(s, l) # <<>> /\ InOrder(Append(s, l))
           /\ ToSet(Append(s, l)) = ToSet(s) \cup {l}
<1> DEFINE len == Len(s)
           t == Append(s, l)
<1>1. /\ len \in Nat /\ DOMAIN s = 1..len /\ t \in Seq(Nat) /\ Len(t) = len + 1
      /\ \A n \in 1..len : t[n] = s[n]
      /\ t[len + 1] = l
  BY AppendProperties, LenProperties
<1> HIDE DEF t
<1>2. DOMAIN t = 1..(len + 1) /\ t # <<>>
  BY <1>1, LenProperties, EmptySeq
<1>3. \A n \in 1..len : s[n] \in ToSet(s) /\ s[n] \in Nat
  <2>1. \A n \in 1..len : s[n] \in ToSet(s)
    BY <1>1 DEF ToSet
  <2>2. \A n \in 1..len : s[n] \in Nat
    OBVIOUS
  <2> QED
    BY <2>1, <2>2
<1>4. \A n \in 1..(len + 1) : (n \in 1..len /\ t[n] = s[n]) \/ (n = len + 1 /\ t[n] = l)
  BY <1>1
<1>5. InOrder(t)
  <2>1. SUFFICES ASSUME NEW i \in 1..(len + 1), NEW j \in 1..(len + 1), i < j PROVE t[i] < t[j]
    BY <1>2 DEF InOrder
  <2>2. i \in 1..len /\ t[i] = s[i]
    BY <1>1, <1>4, <2>1
  <2>3. CASE j \in 1..len /\ t[j] = s[j]
    BY <1>1, <2>1, <2>2, <2>3 DEF InOrder
  <2>4. CASE t[j] = l
    BY <1>3, <2>2, <2>4
  <2> QED
    BY <1>4, <2>3, <2>4
<1>6. ToSet(t) = ToSet(s) \cup {l}
  <2>1. \A x \in ToSet(t) : x \in ToSet(s) \cup {l}
    BY <1>2, <1>3, <1>4 DEF ToSet
  <2>2. \A x \in ToSet(s) : x \in ToSet(t)
    <3>1. \A n \in 1..len : n \in 1..(len + 1)
      BY <1>1
    <3> QED
      BY <1>1, <1>2, <3>1 DEF ToSet
  <2>3. l \in ToSet(t)
    <3>1. len + 1 \in 1..(len + 1)
      BY <1>1
    <3> QED
      BY <1>1, <1>2, <3>1 DEF ToSet
  <2> QED
    BY <2>1, <2>2, <2>3
<1> QED
  BY <1>1, <1>2, <1>5, <1>6 DEF t

\* One line by itself.
LEMMA OneLine ==
    ASSUME NEW l \in Nat
    PROVE  <<l>> \in Seq(Nat) /\ <<l>> # <<>> /\ InOrder(<<l>>) /\ ToSet(<<l>>) = {l}
<1>1. <<l>> \in Seq(Nat) /\ Len(<<l>>) = 1 /\ <<l>>[1] = l /\ DOMAIN <<l>> = 1..1
  OBVIOUS
<1>2. InOrder(<<l>>)
  <2>1. \A i, j \in 1..1 : ~(i < j)
    OBVIOUS
  <2> QED
    BY <1>1, <2>1 DEF InOrder
<1>3. ToSet(<<l>>) = {l}
  BY <1>1 DEF ToSet
<1> QED
  BY <1>1, <1>2, <1>3, EmptySeq

\* The lines of f are those of old, and l.
Takes(old, f, l) ==
    \A x : (\E n \in DOMAIN f : x \in ToSet(f[n])) <=> (x = l \/ \E n \in DOMAIN old : x \in ToSet(old[n]))

\* A line that follows all begins a piece.
LEMMA TidyPut ==
    ASSUME NEW f, Tidy(f), NEW l \in Nat, \A n \in DOMAIN f : \A x \in ToSet(f[n]) : x < l
    PROVE  Tidy(Append(f, <<l>>)) /\ Append(f, <<l>>) # <<>> /\ Takes(f, Append(f, <<l>>), l)
<1> DEFINE len == Len(f)
           g == Append(f, <<l>>)
<1>1. f \in Seq(Seq(Nat)) /\ len \in Nat /\ DOMAIN f = 1..len
  BY LenProperties DEF Tidy
<1>2. <<l>> \in Seq(Nat) /\ <<l>> # <<>> /\ InOrder(<<l>>) /\ ToSet(<<l>>) = {l}
  BY OneLine
<1>3. /\ g \in Seq(Seq(Nat)) /\ Len(g) = len + 1
      /\ \A n \in 1..len : g[n] = f[n]
      /\ g[len + 1] = <<l>>
  BY <1>1, <1>2, AppendProperties
<1> HIDE DEF g
<1>4. DOMAIN g = 1..(len + 1) /\ g # <<>>
  BY <1>1, <1>3, LenProperties, EmptySeq
<1>5. \A n \in 1..(len + 1) : (n \in 1..len /\ g[n] = f[n]) \/ (n = len + 1 /\ g[n] = <<l>>)
  BY <1>1, <1>3
<1>6. Tidy(g)
  <2>1. \A n \in DOMAIN g : g[n] # <<>> /\ InOrder(g[n])
    BY <1>1, <1>2, <1>4, <1>5 DEF Tidy
  <2>2. ASSUME NEW m \in DOMAIN g, NEW n \in DOMAIN g, m < n, NEW x \in ToSet(g[m]), NEW y \in ToSet(g[n])
        PROVE  x < y
    <3>1. m \in 1..len /\ g[m] = f[m]
      BY <1>1, <1>4, <1>5, <2>2
    <3>2. CASE n \in 1..len /\ g[n] = f[n]
      BY <1>1, <2>2, <3>1, <3>2 DEF Tidy
    <3>3. CASE g[n] = <<l>>
      BY <1>1, <1>2, <2>2, <3>1, <3>3
    <3> QED
      BY <1>4, <1>5, <3>2, <3>3
  <2> QED
    BY <1>3, <2>1, <2>2 DEF Tidy
<1>7. Takes(f, g, l)
  <2>1. \A n \in 1..len : n \in 1..(len + 1)
    BY <1>1
  <2>2. len + 1 \in 1..(len + 1)
    BY <1>1
  <2>3. ASSUME NEW x, NEW n \in DOMAIN g, x \in ToSet(g[n])
        PROVE  x = l \/ \E k \in DOMAIN f : x \in ToSet(f[k])
    BY <1>1, <1>2, <1>4, <1>5, <2>3
  <2>4. ASSUME NEW x, x = l \/ \E k \in DOMAIN f : x \in ToSet(f[k])
        PROVE  \E n \in DOMAIN g : x \in ToSet(g[n])
    BY <1>1, <1>2, <1>3, <1>4, <2>1, <2>2, <2>4
  <2> QED
    BY <2>3, <2>4 DEF Takes
<1> QED
  BY <1>4, <1>6, <1>7 DEF g

\* Or goes into the last one.
LEMMA TidyGrow ==
    ASSUME NEW f, Tidy(f), f # <<>>, NEW l \in Nat, \A n \in DOMAIN f : \A x \in ToSet(f[n]) : x < l
    PROVE  LET g == [f EXCEPT ![Len(f)] = Append(@, l)]
           IN  Tidy(g) /\ g # <<>> /\ Takes(f, g, l)
<1> DEFINE len == Len(f)
           piece == Append(f[len], l)
           g == [f EXCEPT ![len] = Append(@, l)]
<1>1. f \in Seq(Seq(Nat)) /\ len \in Nat \ {0} /\ DOMAIN f = 1..len /\ len \in 1..len /\ f \in [1..len -> Seq(Nat)]
  <2>1. f \in Seq(Seq(Nat))
    BY DEF Tidy
  <2>2. len \in Nat /\ DOMAIN f = 1..len /\ f \in [1..len -> Seq(Nat)] /\ len # 0
    BY <2>1, LenProperties, EmptySeq
  <2> QED
    BY <2>1, <2>2
<1>2. f[len] \in Seq(Nat) /\ InOrder(f[len])
  BY <1>1 DEF Tidy
<1>3. piece \in Seq(Nat) /\ piece # <<>> /\ InOrder(piece) /\ ToSet(piece) = ToSet(f[len]) \cup {l}
  BY <1>1, <1>2, InOrderPut
<1>4. g = [f EXCEPT ![len] = piece]
  OBVIOUS
<1>5. \A n \in 1..len : g[n] = IF n = len THEN piece ELSE f[n]
  BY <1>1
<1>6. g \in Seq(Seq(Nat)) /\ Len(g) = len
  BY <1>1, <1>3, <1>4, ExceptSeq
<1> HIDE DEF g, piece
<1>7. DOMAIN g = 1..len /\ g # <<>>
  BY <1>1, <1>6, LenProperties, EmptySeq
<1>8. Tidy(g)
  <2>1. \A n \in DOMAIN g : g[n] # <<>> /\ InOrder(g[n])
    <3>1. SUFFICES ASSUME NEW n \in 1..len PROVE g[n] # <<>> /\ InOrder(g[n])
      BY <1>7
    <3>2. f[n] # <<>> /\ InOrder(f[n])
      BY <1>1 DEF Tidy
    <3> QED
      BY <1>3, <1>5, <3>2
  <2>2. ASSUME NEW m \in DOMAIN g, NEW n \in DOMAIN g, m < n, NEW x \in ToSet(g[m]), NEW y \in ToSet(g[n])
        PROVE  x < y
    <3>1. m \in 1..len /\ g[m] = f[m] /\ n \in 1..len
      <4>1. m \in 1..len /\ n \in 1..len
        BY <1>7
      <4>2. m # len
        BY <1>1, <2>2, <4>1
      <4> QED
        BY <1>5, <4>1, <4>2
    <3>2. CASE y \in ToSet(f[n])
      BY <1>1, <2>2, <3>1, <3>2 DEF Tidy
    <3>3. CASE y = l
      BY <1>1, <2>2, <3>1, <3>3
    <3> QED
      BY <1>3, <1>5, <2>2, <3>1, <3>2, <3>3
  <2> QED
    BY <1>6, <2>1, <2>2 DEF Tidy
<1>9. Takes(f, g, l)
  <2>1. ASSUME NEW x, NEW n \in DOMAIN g, x \in ToSet(g[n])
        PROVE  x = l \/ \E k \in DOMAIN f : x \in ToSet(f[k])
    <3>1. n \in 1..len /\ n \in DOMAIN f
      BY <1>1, <1>7, <2>1
    <3>2. x \in ToSet(f[n]) \/ x = l
      BY <1>3, <1>5, <2>1, <3>1
    <3> QED
      BY <3>1, <3>2
  <2>2. ASSUME NEW x, x = l \/ \E k \in DOMAIN f : x \in ToSet(f[k])
        PROVE  \E n \in DOMAIN g : x \in ToSet(g[n])
    <3>1. CASE x = l
      <4>1. len \in DOMAIN g /\ x \in ToSet(g[len])
        BY <1>1, <1>3, <1>5, <1>7, <3>1
      <4> QED
        BY <4>1
    <3>2. CASE \E k \in DOMAIN f : x \in ToSet(f[k])
      <4>1. PICK k \in 1..len : x \in ToSet(f[k])
        BY <1>1, <3>2
      <4>2. k \in DOMAIN g /\ x \in ToSet(g[k])
        BY <1>3, <1>5, <1>7, <4>1
      <4> QED
        BY <4>2
    <3> QED
      BY <2>2, <3>1, <3>2
  <2> QED
    BY <2>1, <2>2 DEF Takes
<1> QED
  BY <1>7, <1>8, <1>9 DEF g

\* One line of the cut.
CutNext(begins, acc, l) ==
    IF acc = <<>> \/ l \in begins THEN Append(acc, <<l>>) ELSE [acc EXCEPT ![Len(acc)] = Append(@, l)]

\* It leaves sequences of lines.
LEMMA CutTyped ==
    ASSUME NEW begins, NEW acc \in Seq(Seq(Nat)), NEW l \in Nat
    PROVE  CutNext(begins, acc, l) \in Seq(Seq(Nat))
<1>1. <<l>> \in Seq(Nat)
  OBVIOUS
<1>2. Append(acc, <<l>>) \in Seq(Seq(Nat))
  BY <1>1, AppendProperties
<1>3. acc # <<>> => [acc EXCEPT ![Len(acc)] = Append(@, l)] \in Seq(Seq(Nat))
  <2>1. SUFFICES ASSUME acc # <<>> PROVE [acc EXCEPT ![Len(acc)] = Append(@, l)] \in Seq(Seq(Nat))
    OBVIOUS
  <2>2. acc \in [1..Len(acc) -> Seq(Nat)] /\ Len(acc) \in 1..Len(acc)
    BY <2>1, LenProperties, EmptySeq
  <2>3. Append(acc[Len(acc)], l) \in Seq(Nat)
    BY <2>2, AppendProperties
  <2>4. [acc EXCEPT ![Len(acc)] = Append(acc[Len(acc)], l)] \in Seq(Seq(Nat))
    BY <2>2, <2>3, ExceptSeq
  <2> QED
    BY <2>4
<1> QED
  BY <1>2, <1>3 DEF CutNext

\* Cut is a walk over the lines.
LEMMA CutWalk ==
    ASSUME NEW lines \in Seq(Nat), NEW begins
    PROVE  \E v \in [0..Len(lines) -> Seq(Seq(Nat))] :
              /\ v[0] = <<>> /\ \A k \in 1..Len(lines) : v[k] = CutNext(begins, v[k - 1], lines[k])
              /\ Cut(lines, begins) = v[Len(lines)]
<1> DEFINE n == Len(lines)
           o == [p \in Seq(Seq(Nat)) \X (1..n) |-> CutNext(begins, p[1], lines[p[2]])]
           Solves(g) == g = [s \in SUBSET DOMAIN lines |-> IF s = {} THEN <<>>
                               ELSE CutNext(begins, g[s \ {Max(s)}], lines[Max(s)])]
           chosen == CHOOSE g : Solves(g)
<1>1. n \in Nat /\ DOMAIN lines = 1..n
  BY LenProperties
<1>2. \A q \in Seq(Seq(Nat)), i \in 1..n : CutNext(begins, q, lines[i]) \in Seq(Seq(Nat))
  <2>1. \A i \in 1..n : lines[i] \in Nat
    OBVIOUS
  <2> QED
    BY <2>1, CutTyped
<1>3. <<>> \in Seq(Seq(Nat))
  BY EmptySeq
<1> HIDE DEF n
<1>4. o \in [Seq(Seq(Nat)) \X (1..n) -> Seq(Seq(Nat))]
  BY <1>2
<1>5. PICK g \in [SUBSET (1..n) -> Seq(Seq(Nat))] : FoldFun(o, <<>>, n, g)
  BY <1>1, <1>3, <1>4, FoldExists
<1>6. Solves(g)
  <2>1. \A s \in SUBSET (1..n) :
           g[s] = IF s = {} THEN <<>> ELSE CutNext(begins, g[s \ {Max(s)}], lines[Max(s)])
    <3>1. SUFFICES ASSUME NEW s \in SUBSET (1..n), s # {}
                   PROVE  g[s] = CutNext(begins, g[s \ {Max(s)}], lines[Max(s)])
      BY <1>5 DEF FoldFun
    <3> HIDE DEF o
    <3>2. Max(s) \in 1..n /\ s \ {Max(s)} \in SUBSET (1..n)
      BY <1>1, <1>5, <3>1, FoldFunAt
    <3>3. g[s] = o[<<g[s \ {Max(s)}], Max(s)>>]
      BY <1>5, <3>1, Zenon DEF FoldFun
    <3> USE DEF o
    <3>4. <<g[s \ {Max(s)}], Max(s)>> \in Seq(Seq(Nat)) \X (1..n)
      BY <1>5, <3>2
    <3> QED
      BY <3>3, <3>4
  <2> QED
    BY <1>1, <2>1
<1>7. Solves(chosen)
  BY <1>6, Zenon
<1>8. Cut(lines, begins) = chosen[DOMAIN lines]
  BY Zenon DEF Cut, FoldLeft, MapThenFoldSet, CutNext
<1>9. chosen[{}] = <<>>
  BY <1>1, <1>7
<1>10. \A k \in 1..n : chosen[1..(k - 1)] \in Seq(Seq(Nat)) => chosen[1..k] = o[<<chosen[1..(k - 1)], k>>]
  <2> HIDE DEF chosen
  <2>1. SUFFICES ASSUME NEW k \in 1..n, chosen[1..(k - 1)] \in Seq(Seq(Nat))
                 PROVE  chosen[1..k] = o[<<chosen[1..(k - 1)], k>>]
    OBVIOUS
  <2>2. k \in Nat /\ k # 0 /\ 1..k \in SUBSET (1..n)
    BY <1>1
  <2>3. Max(1..k) = k /\ (1..k) \ {k} = 1..(k - 1) /\ 1..k # {} /\ 1..k \in SUBSET (1..n)
    BY <2>2, LastOfFirst
  <2>4. chosen[1..k] = CutNext(begins, chosen[(1..k) \ {Max(1..k)}], lines[Max(1..k)])
    BY <1>1, <1>7, <2>3
  <2>5. chosen[1..k] = CutNext(begins, chosen[1..(k - 1)], lines[k])
    BY <2>3, <2>4, Zenon
  <2>6. <<chosen[1..(k - 1)], k>> \in Seq(Seq(Nat)) \X (1..n)
    BY <2>1
  <2> QED
    BY <2>5, <2>6
<1>11. \A p \in Seq(Seq(Nat)), k \in 1..n : o[<<p, k>>] = CutNext(begins, p, lines[k])
  OBVIOUS
<1> HIDE DEF chosen, o
<1>12. FoldSteps(n, Seq(Seq(Nat)), <<>>, o, chosen)
  BY <1>1, <1>3, <1>4, <1>9, <1>10 DEF FoldSteps
<1>13. PICK v \in [0..n -> Seq(Seq(Nat))] : FoldTrace(n, Seq(Seq(Nat)), <<>>, o, v) /\ v[n] = chosen[1..n]
  BY <1>12, FoldWalk
<1>14. v[0] = <<>> /\ \A k \in 1..n : v[k] = CutNext(begins, v[k - 1], lines[k])
  <2>1. \A k \in 1..n : k - 1 \in 0..n
    BY <1>1
  <2> QED
    BY <1>11, <1>13, <2>1 DEF FoldTrace
<1>15. Cut(lines, begins) = v[n]
  BY <1>1, <1>8, <1>13
<1> QED
  BY <1>14, <1>15 DEF n

\* The pieces of the first k lines.
CutTo(lines, k, acc) ==
    /\ Tidy(acc) /\ (k > 0 => acc # <<>>)
    /\ \A x : (\E n \in DOMAIN acc : x \in ToSet(acc[n])) <=> \E i \in 1..k : lines[i] = x

\* Cutting leaves the lines, in pieces.
LEMMA CutIs ==
    ASSUME NEW lines \in Seq(Nat), lines # <<>>, InOrder(lines), NEW begins
    PROVE  /\ Tidy(Cut(lines, begins))
           /\ \A x : (\E n \in DOMAIN Cut(lines, begins) : x \in ToSet(Cut(lines, begins)[n])) <=> x \in ToSet(lines)
<1>1. PICK v \in [0..Len(lines) -> Seq(Seq(Nat))] :
          /\ v[0] = <<>> /\ \A k \in 1..Len(lines) : v[k] = CutNext(begins, v[k - 1], lines[k])
          /\ Cut(lines, begins) = v[Len(lines)]
  BY CutWalk
<1>2. Len(lines) \in Nat /\ DOMAIN lines = 1..Len(lines)
  BY LenProperties
<1> DEFINE good == {k \in 0..Len(lines) : CutTo(lines, k, v[k])}
<1>3. 0 \in good
  <2>1. Tidy(<<>>) /\ DOMAIN <<>> = {}
    BY EmptySeq DEF Tidy
  <2>2. CutTo(lines, 0, <<>>)
    BY <2>1 DEF CutTo
  <2> QED
    BY <1>1, <1>2, <2>2
<1>4. \A k \in 1..Len(lines) : k - 1 \in good => k \in good
  <2>1. SUFFICES ASSUME NEW k \in 1..Len(lines), CutTo(lines, k - 1, v[k - 1]) PROVE CutTo(lines, k, v[k])
    BY <1>2
  <2>2. PICK acc, l : acc = v[k - 1] /\ l = lines[k]
    OBVIOUS
  <2>3. v[k] = CutNext(begins, acc, l) /\ l \in Nat /\ CutTo(lines, k - 1, acc)
    BY <1>1, <2>1, <2>2
  <2>4. \A n \in DOMAIN acc : \A x \in ToSet(acc[n]) : x < l
    <3>1. SUFFICES ASSUME NEW n \in DOMAIN acc, NEW x \in ToSet(acc[n]) PROVE x < l
      OBVIOUS
    <3>2. PICK i \in 1..(k - 1) : lines[i] = x
      BY <2>3 DEF CutTo
    <3>3. i \in DOMAIN lines /\ k \in DOMAIN lines /\ i < k
      BY <1>2
    <3> QED
      BY <2>2, <3>2, <3>3 DEF InOrder
  <2>5. Tidy(acc)
    BY <2>3 DEF CutTo
  <2>6. Tidy(v[k]) /\ v[k] # <<>> /\ Takes(acc, v[k], l)
    <3>1. CASE acc = <<>> \/ l \in begins
      <4>1. v[k] = Append(acc, <<l>>)
        BY <2>3, <3>1 DEF CutNext
      <4> QED
        BY <2>3, <2>4, <2>5, <4>1, TidyPut
    <3>2. CASE ~(acc = <<>> \/ l \in begins)
      <4>1. v[k] = [acc EXCEPT ![Len(acc)] = Append(@, l)]
        BY <2>3, <3>2 DEF CutNext
      <4> QED
        BY <2>3, <2>4, <2>5, <3>2, <4>1, TidyGrow
    <3> QED
      BY <3>1, <3>2
  <2>7. \A x : (\E i \in 1..k : lines[i] = x) <=> (x = l \/ \E i \in 1..(k - 1) : lines[i] = x)
    <3>1. \A i \in 1..k : i = k \/ i \in 1..(k - 1)
      OBVIOUS
    <3>2. k \in 1..k /\ \A i \in 1..(k - 1) : i \in 1..k
      OBVIOUS
    <3> QED
      BY <2>2, <3>1, <3>2
  <2>8. \A x : (\E n \in DOMAIN v[k] : x \in ToSet(v[k][n])) <=> \E i \in 1..k : lines[i] = x
    BY <2>3, <2>6, <2>7 DEF CutTo, Takes
  <2> QED
    BY <2>6, <2>8 DEF CutTo
<1>5. Len(lines) \in good
  <2>1. Len(lines) \in 0..Len(lines)
    BY <1>2
  <2> HIDE DEF good
  <2> QED
    BY <1>2, <1>3, <1>4, <2>1, Climb
<1>6. CutTo(lines, Len(lines), Cut(lines, begins))
  BY <1>1, <1>5
<1> QED
  BY <1>2, <1>6 DEF CutTo, ToSet

\* atoms, and their lines
AtomRow == [kind : {"atomic", "list_item", "line", "sentence"}, lines : Seq(Nat)]
LinesOf(atoms) == [n \in DOMAIN atoms |-> atoms[n].lines]

\* The atoms say what is in these lines: each some of them, in order, none lost.
AtomsFor(atoms, lines) ==
    /\ atoms \in Seq(AtomRow) /\ Tidy(LinesOf(atoms))
    /\ \A n \in DOMAIN atoms : ToSet(atoms[n].lines) \subseteq lines
    /\ \A l \in lines : \E n \in DOMAIN atoms : l \in ToSet(atoms[n].lines)

\* Pieces of lines as atoms of one kind.
LEMMA PiecesAre ==
    ASSUME NEW f, Tidy(f), NEW kind \in {"atomic", "list_item", "line", "sentence"}
    PROVE  LET atoms == [n \in DOMAIN f |-> [kind |-> kind, lines |-> f[n]]]
           IN  /\ atoms \in Seq(AtomRow) /\ Tidy(LinesOf(atoms))
               /\ DOMAIN atoms = DOMAIN f /\ \A n \in DOMAIN f : atoms[n].lines = f[n]
<1> DEFINE atoms == [n \in DOMAIN f |-> [kind |-> kind, lines |-> f[n]]]
<1>1. f \in Seq(Seq(Nat)) /\ Len(f) \in Nat /\ DOMAIN f = 1..Len(f) /\ f \in [1..Len(f) -> Seq(Nat)]
  BY LenProperties DEF Tidy
<1>2. \A n \in 1..Len(f) : [kind |-> kind, lines |-> f[n]] \in AtomRow
  BY <1>1 DEF AtomRow
<1>3. atoms \in [1..Len(f) -> AtomRow]
  BY <1>1, <1>2
<1>4. DOMAIN atoms = DOMAIN f /\ \A n \in DOMAIN f : atoms[n].lines = f[n]
  OBVIOUS
<1> HIDE DEF atoms
<1>5. atoms \in Seq(AtomRow)
  <2>1. PICK len \in Nat : len = Len(f)
    BY <1>1
  <2>2. PICK R : R = AtomRow
    OBVIOUS
  <2>3. atoms \in [1..len -> R]
    BY <1>3, <2>1, <2>2
  <2>4. atoms \in Seq(R)
    BY <2>3
  <2> QED
    BY <2>2, <2>4
<1>6. LinesOf(atoms) = f
  BY <1>1, <1>4 DEF LinesOf
<1> QED
  BY <1>4, <1>5, <1>6 DEF atoms

\* All lines as one piece.
LEMMA OnePiece ==
    ASSUME NEW lines \in Seq(Nat), lines # <<>>, InOrder(lines)
    PROVE  Tidy(<<lines>>) /\ DOMAIN <<lines>> = {1} /\ <<lines>>[1] = lines
<1>1. <<lines>> \in Seq(Seq(Nat)) /\ DOMAIN <<lines>> = {1} /\ <<lines>>[1] = lines
  OBVIOUS
<1>2. \A m, n \in {1} : ~(m < n)
  OBVIOUS
<1> QED
  BY <1>1, <1>2 DEF Tidy

\* The atoms of a block are its lines; code and tables are one.
LEMMA AtomsAre ==
    ASSUME NEW doc \in Seq(LineKinds), NEW b, IsBlock(doc, b)
    PROVE  /\ AtomsFor(AtomsOf(doc, b), ToSet(b.lines))
           /\ b.kind \in {"code", "table"} => \E n \in DOMAIN AtomsOf(doc, b) : AtomsOf(doc, b)[n].lines = b.lines
<1> DEFINE made(kind, f) == [n \in DOMAIN f |-> [kind |-> kind, lines |-> f[n]]]
           kinds == {"atomic", "list_item", "line", "sentence"}
           lines == b.lines
<1>1. lines \in Seq(Nat) /\ lines # <<>> /\ InOrder(lines) /\ b.kind \in BlockKinds
  BY BlockSpan
<1>2. \A f, kind : Tidy(f) /\ kind \in kinds
                   /\ (\A x : (\E n \in DOMAIN f : x \in ToSet(f[n])) <=> x \in ToSet(lines))
                   => AtomsFor(made(kind, f), ToSet(lines)) /\ DOMAIN made(kind, f) = DOMAIN f
                      /\ \A n \in DOMAIN f : made(kind, f)[n].lines = f[n]
  <2>1. SUFFICES ASSUME NEW f, NEW kind \in kinds, Tidy(f),
                        \A x : (\E n \in DOMAIN f : x \in ToSet(f[n])) <=> x \in ToSet(lines)
                 PROVE  AtomsFor(made(kind, f), ToSet(lines)) /\ DOMAIN made(kind, f) = DOMAIN f
                        /\ \A n \in DOMAIN f : made(kind, f)[n].lines = f[n]
    BY Zenon
  <2>2. /\ made(kind, f) \in Seq(AtomRow) /\ Tidy(LinesOf(made(kind, f)))
        /\ DOMAIN made(kind, f) = DOMAIN f /\ \A n \in DOMAIN f : made(kind, f)[n].lines = f[n]
    BY <2>1, PiecesAre
  <2> HIDE DEF made, lines
  <2> QED
    BY <2>1, <2>2 DEF AtomsFor
<1>3. Tidy(<<lines>>) /\ DOMAIN <<lines>> = {1} /\ <<lines>>[1] = lines
  BY <1>1, OnePiece
<1>4. \A begins : Tidy(Cut(lines, begins))
                  /\ \A x : (\E n \in DOMAIN Cut(lines, begins) : x \in ToSet(Cut(lines, begins)[n])) <=> x \in ToSet(lines)
  BY <1>1, CutIs
<1>5. \/ b.kind \in {"code", "table"} /\ AtomsOf(doc, b) = made("atomic", <<lines>>)
      \/ b.kind = "heading" /\ AtomsOf(doc, b) = made("line", <<lines>>)
      \/ b.kind = "list" /\ \E begins : AtomsOf(doc, b) = made("list_item", Cut(lines, begins))
      \/ b.kind = "paragraph" /\ \E begins : AtomsOf(doc, b) = made("sentence", Cut(lines, begins))
  <2>1. CASE b.kind \in {"code", "table"}
    BY <2>1 DEF AtomsOf
  <2>2. CASE b.kind = "heading"
    BY <2>2 DEF AtomsOf
  <2>3. CASE b.kind = "list"
    BY <2>3 DEF AtomsOf
  <2>4. CASE b.kind = "paragraph"
    BY <2>4 DEF AtomsOf
  <2> QED
    BY <1>1, <2>1, <2>2, <2>3, <2>4 DEF BlockKinds
<1>6. \A kind \in kinds : AtomsFor(made(kind, <<lines>>), ToSet(lines))
                         /\ \E n \in DOMAIN made(kind, <<lines>>) : made(kind, <<lines>>)[n].lines = lines
  <2> HIDE DEF made, lines
  <2>1. PICK f : f = <<lines>>
    OBVIOUS
  <2>2. Tidy(f) /\ DOMAIN f = {1} /\ f[1] = lines
    BY <1>3, <2>1
  <2>3. \A x : (\E n \in DOMAIN f : x \in ToSet(f[n])) <=> x \in ToSet(lines)
    BY <2>2
  <2>4. \A kind \in kinds : AtomsFor(made(kind, f), ToSet(lines))
                            /\ \E n \in DOMAIN made(kind, f) : made(kind, f)[n].lines = lines
    <3> SUFFICES ASSUME NEW kind \in kinds
                 PROVE  AtomsFor(made(kind, f), ToSet(lines))
                        /\ \E n \in DOMAIN made(kind, f) : made(kind, f)[n].lines = lines
      OBVIOUS
    <3>1. AtomsFor(made(kind, f), ToSet(lines)) /\ DOMAIN made(kind, f) = DOMAIN f
          /\ \A n \in DOMAIN f : made(kind, f)[n].lines = f[n]
      BY <1>2, <2>2, <2>3
    <3>2. 1 \in DOMAIN f
      BY <2>2
    <3> QED
      BY <2>2, <3>1, <3>2
  <2> QED
    BY <2>1, <2>4
<1>7. \A kind \in kinds : \A begins : AtomsFor(made(kind, Cut(lines, begins)), ToSet(lines))
  <2> HIDE DEF made, lines
  <2> QED
    BY <1>2, <1>4
<1>8. \A kind \in {"heading", "list", "paragraph"} : kind \notin {"code", "table"}
  OBVIOUS
<1> HIDE DEF made
<1> QED
  BY <1>5, <1>6, <1>7, <1>8

\* What Tidy says of atoms.
LEMMA TidyAtoms ==
    ASSUME NEW atoms \in Seq(AtomRow)
    PROVE  Tidy(LinesOf(atoms)) <=>
              /\ \A n \in DOMAIN atoms : atoms[n].lines # <<>> /\ InOrder(atoms[n].lines)
              /\ \A m, n \in DOMAIN atoms : m < n =>
                    \A x \in ToSet(atoms[m].lines), y \in ToSet(atoms[n].lines) : x < y
<1> DEFINE f == LinesOf(atoms)
<1>1. DOMAIN f = DOMAIN atoms /\ \A n \in DOMAIN atoms : f[n] = atoms[n].lines
  BY DEF LinesOf
<1>2. f \in Seq(Seq(Nat))
  <2>1. PICK len \in Nat : len = Len(atoms) /\ DOMAIN atoms = 1..len /\ atoms \in [1..len -> AtomRow]
    BY LenProperties
  <2>2. \A n \in 1..len : atoms[n].lines \in Seq(Nat)
    BY <2>1 DEF AtomRow
  <2>3. f \in [1..len -> Seq(Nat)]
    BY <2>1, <2>2 DEF LinesOf
  <2> HIDE DEF f
  <2> QED
    BY <2>3
<1> HIDE DEF f
<1>3. Tidy(f) <=> /\ \A n \in DOMAIN atoms : f[n] # <<>> /\ InOrder(f[n])
                  /\ \A m, n \in DOMAIN atoms : m < n => \A x \in ToSet(f[m]), y \in ToSet(f[n]) : x < y
  BY <1>1, <1>2 DEF Tidy
<1>4. Tidy(f) <=> /\ \A n \in DOMAIN atoms : atoms[n].lines # <<>> /\ InOrder(atoms[n].lines)
                  /\ \A m, n \in DOMAIN atoms : m < n =>
                        \A x \in ToSet(atoms[m].lines), y \in ToSet(atoms[n].lines) : x < y
  BY <1>1, <1>3
<1> QED
  BY <1>4 DEF f

\* Atoms of sequences of lines that follow each other, put together.
LEMMA AtomsJoined ==
    ASSUME NEW seqs \in Seq(Seq(AtomRow)), NEW L,
           \A n \in 1..Len(seqs) : AtomsFor(seqs[n], L[n]),
           \A m, n \in 1..Len(seqs) : m < n => \A x \in L[m], y \in L[n] : x < y
    PROVE  /\ AtomsFor(FlattenSeq(seqs), UNION {L[n] : n \in 1..Len(seqs)})
           /\ \A n \in 1..Len(seqs) : \A i \in DOMAIN seqs[n] :
                 \E k \in DOMAIN FlattenSeq(seqs) : FlattenSeq(seqs)[k] = seqs[n][i]
<1> DEFINE flat == FlattenSeq(seqs)
<1>1. /\ Len(seqs) \in Nat
      /\ \A n \in 1..Len(seqs) : seqs[n] \in Seq(AtomRow) /\ Len(seqs[n]) \in Nat /\ DOMAIN seqs[n] = 1..Len(seqs[n])
  BY LenProperties
<1>2. flat \in Seq(AtomRow) /\ \E row, col : FlatAt(seqs, Len(seqs), flat, row, col)
  BY FlatIndex
<1> HIDE DEF flat
<1>3. PICK row, col : FlatAt(seqs, Len(seqs), flat, row, col)
  BY <1>2
<1>4. DOMAIN flat = 1..Len(flat) /\ Len(flat) \in Nat
  BY <1>2, LenProperties
<1>5. \A k \in DOMAIN flat : row[k] \in 1..Len(seqs) /\ col[k] \in DOMAIN seqs[row[k]] /\ flat[k] = seqs[row[k]][col[k]]
  <2>1. SUFFICES ASSUME NEW k \in 1..Len(flat)
                 PROVE  row[k] \in 1..Len(seqs) /\ col[k] \in DOMAIN seqs[row[k]] /\ flat[k] = seqs[row[k]][col[k]]
    BY <1>4
  <2>2. row[k] \in 1..Len(seqs) /\ col[k] \in Nat \ {0} /\ col[k] <= Len(seqs[row[k]]) /\ flat[k] = seqs[row[k]][col[k]]
    BY <1>3 DEF FlatAt
  <2> QED
    BY <1>1, <2>2
<1>6. \A n \in 1..Len(seqs) : /\ \A i \in DOMAIN seqs[n] : seqs[n][i].lines # <<>> /\ InOrder(seqs[n][i].lines)
                              /\ \A i, j \in DOMAIN seqs[n] : i < j =>
                                    \A x \in ToSet(seqs[n][i].lines), y \in ToSet(seqs[n][j].lines) : x < y
                              /\ \A i \in DOMAIN seqs[n] : ToSet(seqs[n][i].lines) \subseteq L[n]
                              /\ \A l \in L[n] : \E i \in DOMAIN seqs[n] : l \in ToSet(seqs[n][i].lines)
  BY <1>1, TidyAtoms DEF AtomsFor
<1>7. \A n \in 1..Len(seqs) : \A i \in DOMAIN seqs[n] : \E k \in DOMAIN flat : flat[k] = seqs[n][i]
  <2>1. SUFFICES ASSUME NEW n \in 1..Len(seqs), NEW i \in 1..Len(seqs[n])
                 PROVE  \E k \in DOMAIN flat : flat[k] = seqs[n][i]
    BY <1>1
  <2>2. PICK k \in 1..Len(flat) : row[k] = n /\ col[k] = i
    BY <1>3 DEF FlatAt
  <2> QED
    BY <1>4, <1>5, <2>2
<1>8. Tidy(LinesOf(flat))
  <2>1. ASSUME NEW k \in DOMAIN flat PROVE flat[k].lines # <<>> /\ InOrder(flat[k].lines)
    <3>1. PICK n \in 1..Len(seqs), i \in DOMAIN seqs[row[k]] : n = row[k] /\ flat[k] = seqs[n][i]
      BY <1>5
    <3> QED
      BY <1>6, <3>1
  <2>2. ASSUME NEW j \in DOMAIN flat, NEW k \in DOMAIN flat, j < k,
               NEW x \in ToSet(flat[j].lines), NEW y \in ToSet(flat[k].lines)
        PROVE  x < y
    <3>1. row[j] < row[k] \/ (row[j] = row[k] /\ col[j] < col[k])
      BY <1>3, <1>4, <2>2 DEF FlatAt
    <3>2. CASE row[j] < row[k]
      <4>1. x \in L[row[j]] /\ y \in L[row[k]] /\ row[j] \in 1..Len(seqs) /\ row[k] \in 1..Len(seqs)
        BY <1>5, <1>6
      <4> QED
        BY <3>2, <4>1
    <3>3. CASE row[j] = row[k] /\ col[j] < col[k]
      <4>1. PICK n \in 1..Len(seqs) : n = row[j] /\ n = row[k]
        BY <1>5, <3>3
      <4>2. /\ col[j] \in DOMAIN seqs[n] /\ col[k] \in DOMAIN seqs[n]
            /\ flat[j] = seqs[n][col[j]] /\ flat[k] = seqs[n][col[k]]
        BY <1>5, <4>1
      <4> QED
        BY <1>6, <2>2, <3>3, <4>2
    <3> QED
      BY <3>1, <3>2, <3>3
  <2> QED
    BY <1>2, <2>1, <2>2, TidyAtoms
<1>9. \A k \in DOMAIN flat : ToSet(flat[k].lines) \subseteq UNION {L[n] : n \in 1..Len(seqs)}
  <2>1. SUFFICES ASSUME NEW k \in DOMAIN flat PROVE ToSet(flat[k].lines) \subseteq UNION {L[n] : n \in 1..Len(seqs)}
    OBVIOUS
  <2>2. PICK n \in 1..Len(seqs), i \in DOMAIN seqs[row[k]] : n = row[k] /\ flat[k] = seqs[n][i]
    BY <1>5
  <2>3. ToSet(flat[k].lines) \subseteq L[n]
    BY <1>6, <2>2
  <2> QED
    BY <2>3
<1>10. \A l \in UNION {L[n] : n \in 1..Len(seqs)} : \E k \in DOMAIN flat : l \in ToSet(flat[k].lines)
  <2>1. SUFFICES ASSUME NEW n \in 1..Len(seqs), NEW l \in L[n] PROVE \E k \in DOMAIN flat : l \in ToSet(flat[k].lines)
    OBVIOUS
  <2>2. PICK i \in DOMAIN seqs[n] : l \in ToSet(seqs[n][i].lines)
    BY <1>6
  <2> QED
    BY <1>7, <2>2
<1>11. AtomsFor(flat, UNION {L[n] : n \in 1..Len(seqs)})
  BY <1>2, <1>8, <1>9, <1>10 DEF AtomsFor
<1> QED
  BY <1>7, <1>11 DEF flat

\* Blocks of a document one after the other.
Sorted(doc, body) ==
    /\ body \in Seq(BlockRow) /\ \A n \in DOMAIN body : IsBlock(doc, body[n])
    /\ \A m, n \in DOMAIN body : m < n => To(body[m]) < From(body[n])
BodyLines(body) == UNION {ToSet(body[n].lines) : n \in DOMAIN body}
BodyAtoms(doc, body) == FlattenSeq([n \in DOMAIN body |-> AtomsOf(doc, body[n])])

\* Their atoms are their lines; a code block or a table is one of them.
LEMMA BodyAtomsAre ==
    ASSUME NEW doc \in Seq(LineKinds), NEW body, Sorted(doc, body)
    PROVE  /\ AtomsFor(BodyAtoms(doc, body), BodyLines(body))
           /\ \A n \in DOMAIN body : body[n].kind \in {"code", "table"} =>
                 \E k \in DOMAIN BodyAtoms(doc, body) : BodyAtoms(doc, body)[k].lines = body[n].lines
           /\ body # <<>> => BodyAtoms(doc, body) # <<>>
<1> DEFINE seqs == [n \in DOMAIN body |-> AtomsOf(doc, body[n])]
           L == [n \in DOMAIN body |-> ToSet(body[n].lines)]
<1>1. PICK len \in Nat : len = Len(body) /\ DOMAIN body = 1..len
  BY LenProperties DEF Sorted
<1>2. \A n \in 1..len : /\ AtomsFor(AtomsOf(doc, body[n]), ToSet(body[n].lines))
                        /\ body[n].kind \in {"code", "table"} =>
                              \E i \in DOMAIN AtomsOf(doc, body[n]) : AtomsOf(doc, body[n])[i].lines = body[n].lines
                        /\ From(body[n]) \in Nat /\ To(body[n]) \in Nat /\ From(body[n]) <= To(body[n])
                        /\ ToSet(body[n].lines) = From(body[n])..To(body[n])
  BY <1>1, AtomsAre, BlockSpan DEF Sorted
<1>3. DOMAIN seqs = 1..len /\ \A n \in 1..len : seqs[n] = AtomsOf(doc, body[n]) /\ L[n] = ToSet(body[n].lines)
  BY <1>1
<1>4. seqs \in [1..len -> Seq(AtomRow)]
  BY <1>1, <1>2 DEF AtomsFor
<1>5. BodyAtoms(doc, body) = FlattenSeq(seqs)
  BY DEF BodyAtoms
<1>6. BodyLines(body) = UNION {L[n] : n \in 1..len}
  BY <1>1, <1>3 DEF BodyLines
<1> HIDE DEF seqs, L
<1>7. seqs \in Seq(Seq(AtomRow)) /\ Len(seqs) = len
  BY <1>4
<1>8. \A n \in 1..Len(seqs) : AtomsFor(seqs[n], L[n])
  BY <1>2, <1>3, <1>7
<1>9. \A m, n \in 1..Len(seqs) : m < n => \A x \in L[m], y \in L[n] : x < y
  <2>1. SUFFICES ASSUME NEW m \in 1..len, NEW n \in 1..len, m < n, NEW x \in L[m], NEW y \in L[n] PROVE x < y
    BY <1>7
  <2>2. To(body[m]) < From(body[n])
    BY <1>1, <2>1 DEF Sorted
  <2>3. x \in From(body[m])..To(body[m]) /\ y \in From(body[n])..To(body[n])
    BY <1>2, <1>3
  <2> QED
    BY <1>2, <2>2, <2>3
<1>10. /\ AtomsFor(FlattenSeq(seqs), UNION {L[n] : n \in 1..Len(seqs)})
       /\ \A n \in 1..Len(seqs) : \A i \in DOMAIN seqs[n] :
             \E k \in DOMAIN FlattenSeq(seqs) : FlattenSeq(seqs)[k] = seqs[n][i]
  BY <1>7, <1>8, <1>9, AtomsJoined
<1>11. AtomsFor(BodyAtoms(doc, body), BodyLines(body))
  BY <1>5, <1>6, <1>7, <1>10
<1>12. ASSUME NEW n \in DOMAIN body, body[n].kind \in {"code", "table"}
       PROVE  \E k \in DOMAIN BodyAtoms(doc, body) : BodyAtoms(doc, body)[k].lines = body[n].lines
  <2>1. PICK i \in DOMAIN seqs[n] : seqs[n][i].lines = body[n].lines
    BY <1>1, <1>2, <1>3, <1>12
  <2> QED
    BY <1>1, <1>5, <1>7, <1>10, <2>1
<1>13. ASSUME body # <<>> PROVE BodyAtoms(doc, body) # <<>>
  <2>1. 1 \in 1..len
    BY <1>1, <1>13, EmptySeq DEF Sorted
  <2>2. From(body[1]) \in BodyLines(body)
    BY <1>1, <1>2, <2>1 DEF BodyLines
  <2>3. \E k \in DOMAIN BodyAtoms(doc, body) : TRUE
    BY <1>11, <2>2 DEF AtomsFor
  <2> QED
    BY <2>3
<1> QED
  BY <1>11, <1>12, <1>13

-----------------------------------------------------------------------------
(* Words *)

\* The words of a line are a number.
LEMMA LineWordsAre ==
    ASSUME NEW kind
    PROVE  LineWords(kind) \in Nat
<1>1. MaxWords + 1 \in Nat
  BY ChunkAssumption
<1>2. CASE kind = "blank"
  BY <1>2 DEF LineWords
<1>3. CASE kind = "over"
  BY <1>1, <1>3 DEF LineWords
<1>4. CASE kind # "blank" /\ kind # "over"
  BY <1>4 DEF LineWords
<1> QED
  BY <1>2, <1>3, <1>4


\* Counting the words of an atom is a walk over its lines.
LEMMA AtomWordsWalk ==
    ASSUME NEW doc, NEW atom, NEW lines \in Seq(Nat), lines = atom.lines
    PROVE  \E v \in [0..Len(lines) -> Nat] :
              /\ v[0] = 0 /\ \A k \in 1..Len(lines) : v[k] = v[k - 1] + LineWords(doc[lines[k]])
              /\ AtomWords(doc, atom) = v[Len(lines)]
<1> DEFINE n == Len(lines)
           o == [p \in Nat \X (1..n) |-> p[1] + LineWords(doc[lines[p[2]]])]
           Solves(g) == g = [s \in SUBSET DOMAIN lines |-> IF s = {} THEN 0
                               ELSE g[s \ {Max(s)}] + LineWords(doc[lines[Max(s)]])]
           chosen == CHOOSE g : Solves(g)
<1>1. n \in Nat /\ DOMAIN lines = 1..n
  BY LenProperties
<1>2. \A q \in Nat, i \in 1..n : q + LineWords(doc[lines[i]]) \in Nat
  <2>1. \A i \in 1..n : LineWords(doc[lines[i]]) \in Nat
    BY LineWordsAre
  <2> QED
    BY <2>1
<1>3. 0 \in Nat
  OBVIOUS
<1> HIDE DEF n
<1>4. o \in [Nat \X (1..n) -> Nat]
  BY <1>2
<1>5. PICK g \in [SUBSET (1..n) -> Nat] : FoldFun(o, 0, n, g)
  BY <1>1, <1>3, <1>4, FoldExists
<1>6. Solves(g)
  <2>1. \A s \in SUBSET (1..n) :
           g[s] = IF s = {} THEN 0 ELSE g[s \ {Max(s)}] + LineWords(doc[lines[Max(s)]])
    <3>1. SUFFICES ASSUME NEW s \in SUBSET (1..n), s # {}
                   PROVE  g[s] = g[s \ {Max(s)}] + LineWords(doc[lines[Max(s)]])
      BY <1>5 DEF FoldFun
    <3> HIDE DEF o
    <3>2. Max(s) \in 1..n /\ s \ {Max(s)} \in SUBSET (1..n)
      BY <1>1, <1>5, <3>1, FoldFunAt
    <3>3. g[s] = o[<<g[s \ {Max(s)}], Max(s)>>]
      BY <1>5, <3>1, Zenon DEF FoldFun
    <3> USE DEF o
    <3>4. <<g[s \ {Max(s)}], Max(s)>> \in Nat \X (1..n)
      BY <1>5, <3>2
    <3> QED
      BY <3>3, <3>4
  <2> QED
    BY <1>1, <2>1
<1>7. Solves(chosen)
  BY <1>6, Zenon
<1>8. AtomWords(doc, atom) = chosen[DOMAIN lines]
  BY lines = atom.lines, Zenon DEF AtomWords, FoldLeft, MapThenFoldSet
<1>9. chosen[{}] = 0
  BY <1>1, <1>7
<1>10. \A k \in 1..n : chosen[1..(k - 1)] \in Nat => chosen[1..k] = o[<<chosen[1..(k - 1)], k>>]
  <2> HIDE DEF chosen
  <2>1. SUFFICES ASSUME NEW k \in 1..n, chosen[1..(k - 1)] \in Nat
                 PROVE  chosen[1..k] = o[<<chosen[1..(k - 1)], k>>]
    OBVIOUS
  <2>2. k \in Nat /\ k # 0 /\ 1..k \in SUBSET (1..n)
    BY <1>1
  <2>3. Max(1..k) = k /\ (1..k) \ {k} = 1..(k - 1) /\ 1..k # {} /\ 1..k \in SUBSET (1..n)
    BY <2>2, LastOfFirst
  <2>4. chosen[1..k] = chosen[(1..k) \ {Max(1..k)}] + LineWords(doc[lines[Max(1..k)]])
    BY <1>1, <1>7, <2>3
  <2>5. chosen[1..k] = chosen[1..(k - 1)] + LineWords(doc[lines[k]])
    BY <2>3, <2>4, Zenon
  <2>6. <<chosen[1..(k - 1)], k>> \in Nat \X (1..n)
    BY <2>1
  <2> QED
    BY <2>5, <2>6
<1>11. \A p \in Nat, k \in 1..n : o[<<p, k>>] = p + LineWords(doc[lines[k]])
  OBVIOUS
<1> HIDE DEF chosen, o
<1>12. FoldSteps(n, Nat, 0, o, chosen)
  BY <1>1, <1>3, <1>4, <1>9, <1>10 DEF FoldSteps
<1>13. PICK v \in [0..n -> Nat] : FoldTrace(n, Nat, 0, o, v) /\ v[n] = chosen[1..n]
  BY <1>12, FoldWalk
<1>14. v[0] = 0 /\ \A k \in 1..Len(lines) : v[k] = v[k - 1] + LineWords(doc[lines[k]])
  <2>1. v[0] = 0 /\ \A k \in 1..n : v[k] = o[<<v[k - 1], k>>]
    BY <1>13 DEF FoldTrace
  <2>2. ASSUME NEW k \in 1..n PROVE v[k] = v[k - 1] + LineWords(doc[lines[k]])
    <3>1. k - 1 \in 0..n
      BY <1>1
    <3>2. PICK q \in Nat : q = v[k - 1]
      BY <1>13, <3>1
    <3>3. v[k] = o[<<q, k>>]
      BY <2>1, <3>2
    <3>4. v[k] = q + LineWords(doc[lines[k]])
      BY <1>11, <3>3
    <3> QED
      BY <3>2, <3>4
  <2> QED
    BY <2>1, <2>2 DEF n
<1>15. AtomWords(doc, atom) = v[n]
  BY <1>1, <1>8, <1>13
<1> QED
  BY <1>14, <1>15 DEF n

\* The words of an atom are a number.
LEMMA AtomWordsAre ==
    ASSUME NEW doc, NEW atom \in AtomRow
    PROVE  AtomWords(doc, atom) \in Nat
<1>1. atom.lines \in Seq(Nat)
  BY DEF AtomRow
<1>2. PICK v \in [0..Len(atom.lines) -> Nat] : AtomWords(doc, atom) = v[Len(atom.lines)]
  BY <1>1, AtomWordsWalk
<1>3. Len(atom.lines) \in 0..Len(atom.lines)
  BY <1>1, LenProperties
<1> QED
  BY <1>2, <1>3

\* Counting the words of atoms is a walk over them.
LEMMA WordsWalk ==
    ASSUME NEW doc, NEW atoms \in Seq(AtomRow)
    PROVE  \E v \in [0..Len(atoms) -> Nat] :
              /\ v[0] = 0 /\ \A k \in 1..Len(atoms) : v[k] = v[k - 1] + AtomWords(doc, atoms[k])
              /\ WordsIn(doc, atoms) = v[Len(atoms)]
<1> DEFINE n == Len(atoms)
           o == [p \in Nat \X (1..n) |-> p[1] + AtomWords(doc, atoms[p[2]])]
           Solves(g) == g = [s \in SUBSET DOMAIN atoms |-> IF s = {} THEN 0
                               ELSE g[s \ {Max(s)}] + AtomWords(doc, atoms[Max(s)])]
           chosen == CHOOSE g : Solves(g)
<1>1. n \in Nat /\ DOMAIN atoms = 1..n
  BY LenProperties
<1>2. \A q \in Nat, i \in 1..n : q + AtomWords(doc, atoms[i]) \in Nat
  <2>1. \A i \in 1..n : AtomWords(doc, atoms[i]) \in Nat
    BY AtomWordsAre
  <2> QED
    BY <2>1
<1>3. 0 \in Nat
  OBVIOUS
<1> HIDE DEF n
<1>4. o \in [Nat \X (1..n) -> Nat]
  BY <1>2
<1>5. PICK g \in [SUBSET (1..n) -> Nat] : FoldFun(o, 0, n, g)
  BY <1>1, <1>3, <1>4, FoldExists
<1>6. Solves(g)
  <2>1. \A s \in SUBSET (1..n) :
           g[s] = IF s = {} THEN 0 ELSE g[s \ {Max(s)}] + AtomWords(doc, atoms[Max(s)])
    <3>1. SUFFICES ASSUME NEW s \in SUBSET (1..n), s # {}
                   PROVE  g[s] = g[s \ {Max(s)}] + AtomWords(doc, atoms[Max(s)])
      BY <1>5 DEF FoldFun
    <3> HIDE DEF o
    <3>2. Max(s) \in 1..n /\ s \ {Max(s)} \in SUBSET (1..n)
      BY <1>1, <1>5, <3>1, FoldFunAt
    <3>3. g[s] = o[<<g[s \ {Max(s)}], Max(s)>>]
      BY <1>5, <3>1, Zenon DEF FoldFun
    <3> USE DEF o
    <3>4. <<g[s \ {Max(s)}], Max(s)>> \in Nat \X (1..n)
      BY <1>5, <3>2
    <3> QED
      BY <3>3, <3>4
  <2> QED
    BY <1>1, <2>1
<1>7. Solves(chosen)
  BY <1>6, Zenon
<1>8. WordsIn(doc, atoms) = chosen[DOMAIN atoms]
  BY Zenon DEF WordsIn, FoldLeft, MapThenFoldSet
<1>9. chosen[{}] = 0
  BY <1>1, <1>7
<1>10. \A k \in 1..n : chosen[1..(k - 1)] \in Nat => chosen[1..k] = o[<<chosen[1..(k - 1)], k>>]
  <2> HIDE DEF chosen
  <2>1. SUFFICES ASSUME NEW k \in 1..n, chosen[1..(k - 1)] \in Nat
                 PROVE  chosen[1..k] = o[<<chosen[1..(k - 1)], k>>]
    OBVIOUS
  <2>2. k \in Nat /\ k # 0 /\ 1..k \in SUBSET (1..n)
    BY <1>1
  <2>3. Max(1..k) = k /\ (1..k) \ {k} = 1..(k - 1) /\ 1..k # {} /\ 1..k \in SUBSET (1..n)
    BY <2>2, LastOfFirst
  <2>4. chosen[1..k] = chosen[(1..k) \ {Max(1..k)}] + AtomWords(doc, atoms[Max(1..k)])
    BY <1>1, <1>7, <2>3
  <2>5. chosen[1..k] = chosen[1..(k - 1)] + AtomWords(doc, atoms[k])
    BY <2>3, <2>4, Zenon
  <2>6. <<chosen[1..(k - 1)], k>> \in Nat \X (1..n)
    BY <2>1
  <2> QED
    BY <2>5, <2>6
<1>11. \A p \in Nat, k \in 1..n : o[<<p, k>>] = p + AtomWords(doc, atoms[k])
  OBVIOUS
<1> HIDE DEF chosen, o
<1>12. FoldSteps(n, Nat, 0, o, chosen)
  BY <1>1, <1>3, <1>4, <1>9, <1>10 DEF FoldSteps
<1>13. PICK v \in [0..n -> Nat] : FoldTrace(n, Nat, 0, o, v) /\ v[n] = chosen[1..n]
  BY <1>12, FoldWalk
<1>14. v[0] = 0 /\ \A k \in 1..Len(atoms) : v[k] = v[k - 1] + AtomWords(doc, atoms[k])
  <2>1. v[0] = 0 /\ \A k \in 1..n : v[k] = o[<<v[k - 1], k>>]
    BY <1>13 DEF FoldTrace
  <2>2. ASSUME NEW k \in 1..n PROVE v[k] = v[k - 1] + AtomWords(doc, atoms[k])
    <3>1. k - 1 \in 0..n
      BY <1>1
    <3>2. PICK q \in Nat : q = v[k - 1]
      BY <1>13, <3>1
    <3>3. v[k] = o[<<q, k>>]
      BY <2>1, <3>2
    <3>4. v[k] = q + AtomWords(doc, atoms[k])
      BY <1>11, <3>3
    <3> QED
      BY <3>2, <3>4
  <2> QED
    BY <2>1, <2>2 DEF n
<1>15. WordsIn(doc, atoms) = v[n]
  BY <1>1, <1>8, <1>13
<1> QED
  BY <1>14, <1>15 DEF n

\* No atoms have no words, and one more atom adds its own.
LEMMA WordsAppend ==
    ASSUME NEW doc, NEW atoms \in Seq(AtomRow), NEW atom \in AtomRow
    PROVE  /\ WordsIn(doc, atoms) \in Nat /\ WordsIn(doc, <<>>) = 0
           /\ WordsIn(doc, Append(atoms, atom)) = WordsIn(doc, atoms) + AtomWords(doc, atom)
<1> DEFINE len == Len(atoms)
           more == Append(atoms, atom)
<1>1. PICK u \in [0..len -> Nat] :
          /\ u[0] = 0 /\ \A k \in 1..len : u[k] = u[k - 1] + AtomWords(doc, atoms[k])
          /\ WordsIn(doc, atoms) = u[len]
  BY WordsWalk
<1>2. /\ len \in Nat /\ more \in Seq(AtomRow) /\ Len(more) = len + 1
      /\ \A n \in 1..len : more[n] = atoms[n]
      /\ more[len + 1] = atom
  BY LenProperties, AppendProperties
<1> HIDE DEF more
<1>3. PICK v \in [0..Len(more) -> Nat] :
          /\ v[0] = 0 /\ \A k \in 1..Len(more) : v[k] = v[k - 1] + AtomWords(doc, more[k])
          /\ WordsIn(doc, more) = v[Len(more)]
  BY <1>2, WordsWalk
<1>4. /\ v \in [0..(len + 1) -> Nat]
      /\ v[0] = 0 /\ \A k \in 1..(len + 1) : v[k] = v[k - 1] + AtomWords(doc, more[k])
      /\ WordsIn(doc, more) = v[len + 1]
  BY <1>2, <1>3
<1> HIDE DEF len
<1>5. \A k \in 0..len : v[k] = u[k]
  <2> DEFINE same == {k \in 0..len : v[k] = u[k]}
  <2>1. 0 \in same
    BY <1>1, <1>2, <1>4
  <2>2. \A k \in 1..len : k - 1 \in same => k \in same
    <3>1. SUFFICES ASSUME NEW k \in 1..len, v[k - 1] = u[k - 1] PROVE v[k] = u[k]
      BY <1>2
    <3>2. k \in 1..(len + 1) /\ more[k] = atoms[k]
      BY <1>2
    <3> QED
      BY <1>1, <1>4, <3>1, <3>2
  <2> HIDE DEF same
  <2>3. \A k \in 0..len : k \in same
    BY <1>2, <2>1, <2>2, Climb
  <2> QED
    BY <2>3 DEF same
<1>6. len \in 0..len /\ len + 1 \in 1..(len + 1) /\ (len + 1) - 1 = len
  BY <1>2
<1>7. WordsIn(doc, more) = WordsIn(doc, atoms) + AtomWords(doc, atom) /\ WordsIn(doc, atoms) \in Nat
  <2>1. v[len + 1] = v[len] + AtomWords(doc, more[len + 1])
    BY <1>4, <1>6
  <2> QED
    BY <1>1, <1>2, <1>4, <1>5, <1>6, <2>1
<1>8. WordsIn(doc, <<>>) = 0
  <2>1. PICK none \in Seq(AtomRow) : none = <<>> /\ Len(none) = 0
    BY EmptySeq
  <2>2. PICK w : w[0] = 0 /\ WordsIn(doc, none) = w[Len(none)]
    BY WordsWalk
  <2> QED
    BY <2>1, <2>2
<1> QED
  BY <1>7, <1>8 DEF more

\* The words of atoms that differ are the sum over the set of them.
LEMMA WordsSum ==
    ASSUME NEW doc, NEW atoms \in Seq(AtomRow), \A i, j \in DOMAIN atoms : atoms[i] = atoms[j] => i = j
    PROVE  WordsIn(doc, atoms) = SumOf([a \in ToSet(atoms) |-> AtomWords(doc, a)], ToSet(atoms))
<1> DEFINE w == [a \in AtomRow |-> AtomWords(doc, a)]
           first(k) == {atoms[i] : i \in 1..k}
<1>1. PICK len \in Nat : len = Len(atoms) /\ DOMAIN atoms = 1..len
  BY LenProperties
<1>2. \E v \in [0..Len(atoms) -> Nat] :
         /\ v[0] = 0 /\ \A k \in 1..Len(atoms) : v[k] = v[k - 1] + AtomWords(doc, atoms[k])
         /\ WordsIn(doc, atoms) = v[Len(atoms)]
  BY WordsWalk
<1>3. PICK v \in [0..len -> Nat] :
          /\ v[0] = 0 /\ \A k \in 1..len : v[k] = v[k - 1] + AtomWords(doc, atoms[k])
          /\ WordsIn(doc, atoms) = v[len]
  BY <1>1, <1>2
<1>4. \A a \in AtomRow : w[a] = AtomWords(doc, a) /\ w[a] \in Int
  BY AtomWordsAre
<1> HIDE DEF w
<1>5. \A k \in 0..len : first(k) \subseteq AtomRow /\ IsFiniteSet(first(k))
  <2>1. SUFFICES ASSUME NEW k \in 0..len PROVE first(k) \subseteq AtomRow /\ IsFiniteSet(first(k))
    OBVIOUS
  <2>2. \A i \in 1..k : i \in DOMAIN atoms /\ atoms[i] \in AtomRow
    BY <1>1
  <2>3. IsFiniteSet(1..k)
    BY FS_Interval
  <2>4. IsFiniteSet(first(k))
    BY <2>3, FS_Image
  <2> QED
    BY <2>2, <2>4
<1> DEFINE good == {k \in 0..len : v[k] = SumOf(w, first(k))}
<1>6. 0 \in good
  <2>1. first(0) = {}
    OBVIOUS
  <2> HIDE DEF first
  <2>2. SumOf(w, {}) = 0
    <3>1. IsFiniteSet({}) /\ \A a \in {} : w[a] \in Int
      BY FS_EmptySet
    <3> QED
      BY <3>1, SumFirst
  <2>3. v[0] = SumOf(w, first(0))
    BY <1>3, <2>1, <2>2
  <2> QED
    BY <2>3
<1>7. \A k \in 1..len : k - 1 \in good => k \in good
  <2> HIDE DEF first
  <2>1. SUFFICES ASSUME NEW k \in 1..len, v[k - 1] = SumOf(w, first(k - 1)) PROVE v[k] = SumOf(w, first(k))
    OBVIOUS
  <2> USE DEF first
  <2>2. first(k) = first(k - 1) \cup {atoms[k]}
    <3>1. \A i \in 1..k : i = k \/ i \in 1..(k - 1)
      OBVIOUS
    <3>2. k \in 1..k /\ \A i \in 1..(k - 1) : i \in 1..k
      OBVIOUS
    <3> QED
      BY <3>1, <3>2
  <2>3. atoms[k] \notin first(k - 1) /\ atoms[k] \in AtomRow
    <3>1. \A i \in 1..(k - 1) : i \in 1..len /\ i # k
      BY <1>1
    <3> QED
      BY <1>1, <3>1
  <2>4. k - 1 \in 0..len
    OBVIOUS
  <2>5. IsFiniteSet(first(k - 1)) /\ \A a \in first(k - 1) \cup {atoms[k]} : w[a] \in Int
    BY <1>4, <1>5, <2>3, <2>4
  <2> HIDE DEF first
  <2>6. SumOf(w, first(k)) = SumOf(w, first(k - 1)) + w[atoms[k]]
    <3>1. PICK S, x : S = first(k - 1) /\ x = atoms[k]
      OBVIOUS
    <3>2. IsFiniteSet(S) /\ x \notin S /\ \A y \in S \cup {x} : w[y] \in Int
      BY <2>3, <2>5, <3>1
    <3>3. SumOf(w, S \cup {x}) = SumOf(w, S) + w[x]
      BY <3>2, SumPut
    <3> QED
      BY <2>2, <3>1, <3>3
  <2> QED
    BY <1>3, <1>4, <2>1, <2>3, <2>6
<1>8. WordsIn(doc, atoms) = SumOf(w, first(len)) /\ first(len) = ToSet(atoms)
  <2>1. len \in 0..len
    OBVIOUS
  <2> HIDE DEF good
  <2>2. len \in good
    BY <1>6, <1>7, <2>1, Climb
  <2> USE DEF good
  <2>3. first(len) = ToSet(atoms)
    BY <1>1 DEF ToSet
  <2> QED
    BY <1>3, <2>2, <2>3
<1>9. PICK S : S = ToSet(atoms) /\ S \subseteq AtomRow /\ IsFiniteSet(S)
  <2>1. len \in 0..len
    OBVIOUS
  <2> HIDE DEF first
  <2> QED
    BY <1>5, <1>8, <2>1
<1>10. \A a \in S : w[a] \in Int /\ [b \in S |-> AtomWords(doc, b)][a] = w[a]
  BY <1>4, <1>9
<1>11. SumOf(w, S) = SumOf([a \in S |-> AtomWords(doc, a)], S)
  <2> DEFINE u == [a \in S |-> AtomWords(doc, a)]
  <2>1. \A a \in S : w[a] \in Int /\ u[a] = w[a]
    BY <1>10
  <2> HIDE DEF u
  <2>2. SumOf(w, S) = SumOf(u, S)
    BY <1>9, <2>1, SumSame
  <2> QED
    BY <2>2 DEF u
<1> QED
  BY <1>8, <1>9, <1>11

-----------------------------------------------------------------------------
(* Packing atoms into chunks *)

\* A part of a sequence.
LEMMA PartIs ==
    ASSUME NEW A, NEW s \in Seq(A), NEW i \in Nat \ {0}, NEW j \in Nat, j <= Len(s)
    PROVE  /\ SubSeq(s, i, j) \in Seq(A) /\ DOMAIN SubSeq(s, i, j) = 1..Len(SubSeq(s, i, j))
           /\ i <= j + 1 => Len(SubSeq(s, i, j)) = j - i + 1
           /\ i <= j + 1 => \A n \in 1..(j - i + 1) : SubSeq(s, i, j)[n] = s[i + n - 1]
           /\ i = j + 1 => SubSeq(s, i, j) = <<>>
<1> DEFINE t == SubSeq(s, i, j)
<1>1. Len(s) \in Nat
  BY LenProperties
<1>2. t \in Seq(A) /\ Len(t) = (IF i <= j THEN j - i + 1 ELSE 0) /\ \A n \in 1..(j - i + 1) : t[n] = s[i + n - 1]
  BY <1>1, SubSeqProperties
<1>3. DOMAIN t = 1..Len(t)
  BY <1>2, LenProperties
<1>4. i = j + 1 => t = <<>>
  BY <1>2, EmptySeq
<1> QED
  BY <1>1, <1>2, <1>3, <1>4

\* A part takes the next element.
LEMMA PartGrows ==
    ASSUME NEW A, NEW s \in Seq(A), NEW i \in Nat \ {0}, NEW j \in Nat, i <= j + 1, j + 1 <= Len(s)
    PROVE  Append(SubSeq(s, i, j), s[j + 1]) = SubSeq(s, i, j + 1)
<1> DEFINE t == SubSeq(s, i, j)
           u == SubSeq(s, i, j + 1)
           x == s[j + 1]
           v == Append(t, x)
           len == j - i + 1
<1>1. Len(s) \in Nat /\ len \in Nat /\ j <= Len(s) /\ j + 1 \in Nat /\ i <= (j + 1) + 1
  BY LenProperties
<1>2. t \in Seq(A) /\ Len(t) = len /\ \A n \in 1..len : t[n] = s[i + n - 1]
  BY <1>1, PartIs
<1>3. u \in Seq(A) /\ Len(u) = len + 1 /\ \A n \in 1..(len + 1) : u[n] = s[i + n - 1]
  <2>1. /\ u \in Seq(A) /\ Len(u) = (j + 1) - i + 1
        /\ \A n \in 1..((j + 1) - i + 1) : u[n] = s[i + n - 1]
    BY <1>1, PartIs
  <2>2. (j + 1) - i + 1 = len + 1
    OBVIOUS
  <2> QED
    BY <2>1, <2>2
<1>4. x \in A
  BY <1>1
<1>5. v \in Seq(A) /\ Len(v) = len + 1 /\ (\A n \in 1..len : v[n] = t[n]) /\ v[len + 1] = x
  BY <1>2, <1>4, AppendProperties
<1>6. i + (len + 1) - 1 = j + 1
  OBVIOUS
<1> HIDE DEF t, u, v, len
<1>7. \A n \in 1..(len + 1) : v[n] = u[n]
  <2>1. SUFFICES ASSUME NEW n \in 1..(len + 1) PROVE v[n] = u[n]
    OBVIOUS
  <2>2. CASE n \in 1..len
    BY <1>2, <1>3, <1>5, <2>2
  <2>3. CASE n = len + 1
    BY <1>3, <1>5, <1>6, <2>3
  <2> QED
    BY <1>1, <2>2, <2>3
<1>8. v = u
  BY <1>3, <1>5, <1>7, SeqEqual
<1> QED
  BY <1>8 DEF t, u, v

\* A part of a part.
InPart(A, s, i, j, n) ==
    s \in Seq(A) /\ i \in Nat \ {0} /\ j \in Nat /\ i <= j + 1 /\ j <= Len(s) /\ n \in 1..(j - i + 2)

\* what is left of the part from its n-th element on
RestOfPart(s, i, j, n) == SubSeq(SubSeq(s, i, j), n, Len(SubSeq(s, i, j))) = SubSeq(s, i + n - 1, j)

\* A part of a part, to its end, is a part of the whole.
LEMMA PartOfPart ==
    ASSUME NEW A, NEW s, NEW i, NEW j, NEW n, InPart(A, s, i, j, n)
    PROVE  RestOfPart(s, i, j, n)
<1> DEFINE t == SubSeq(s, i, j)
           u == SubSeq(t, n, Len(t))
           v == SubSeq(s, i + n - 1, j)
           len == j - i + 1
           rest == j - (i + n - 1) + 1
<1>1. s \in Seq(A) /\ i \in Nat \ {0} /\ j \in Nat /\ i <= j + 1 /\ j <= Len(s) /\ n \in 1..(j - i + 2)
  BY DEF InPart
<1>2. Len(s) \in Nat /\ len \in Nat /\ n \in Nat \ {0} /\ n <= len + 1
  BY <1>1, LenProperties
<1>3. t \in Seq(A) /\ Len(t) = len /\ \A k \in 1..len : t[k] = s[i + k - 1]
  BY <1>1, PartIs
<1>4. i + n - 1 \in Nat \ {0} /\ i + n - 1 <= j + 1 /\ rest \in Nat /\ rest = len - n + 1
  BY <1>1, <1>2
<1>5. v \in Seq(A) /\ Len(v) = rest /\ \A k \in 1..rest : v[k] = s[(i + n - 1) + k - 1]
  BY <1>1, <1>4, PartIs
<1>6. u \in Seq(A) /\ Len(u) = len - n + 1 /\ \A k \in 1..(len - n + 1) : u[k] = t[n + k - 1]
  <2> HIDE DEF t, len
  <2>1. len <= Len(t)
    BY <1>2, <1>3
  <2>2. /\ SubSeq(t, n, len) \in Seq(A) /\ Len(SubSeq(t, n, len)) = len - n + 1
        /\ \A k \in 1..(len - n + 1) : SubSeq(t, n, len)[k] = t[n + k - 1]
    BY <1>2, <1>3, <2>1, PartIs
  <2> QED
    BY <1>3, <2>2
<1> HIDE DEF t, u, v, len, rest
<1>7. \A k \in 1..rest : u[k] = v[k]
  <2>1. SUFFICES ASSUME NEW k \in 1..rest PROVE u[k] = v[k]
    OBVIOUS
  <2>2. k \in 1..(len - n + 1) /\ n + k - 1 \in 1..len /\ i + (n + k - 1) - 1 = (i + n - 1) + k - 1
    BY <1>1, <1>2, <1>4
  <2>3. u[k] = t[n + k - 1]
    BY <1>6, <2>2
  <2>4. t[n + k - 1] = s[i + (n + k - 1) - 1]
    BY <1>3, <2>2
  <2>5. v[k] = s[(i + n - 1) + k - 1]
    BY <1>5
  <2> QED
    BY <2>2, <2>3, <2>4, <2>5
<1>8. u = v
  <2>1. Len(u) = rest /\ Len(v) = rest /\ u \in Seq(A) /\ v \in Seq(A)
    BY <1>4, <1>5, <1>6
  <2>2. \A k \in 1..Len(u) : u[k] = v[k]
    BY <1>7, <2>1
  <2> QED
    BY <2>1, <2>2, SeqEqual
<1> QED
  BY <1>8 DEF t, u, v, RestOfPart

\* The tail that is carried over: so many sentences at the end.
LEMMA OverlapTailIs ==
    ASSUME NEW atoms \in Seq(AtomRow)
    PROVE  \E n \in 1..(Len(atoms) + 1) :
              /\ OverlapTail(atoms) = SubSeq(atoms, n, Len(atoms)) /\ Len(atoms) - n + 1 <= Overlap
              /\ \A k \in n..Len(atoms) : atoms[k].kind = "sentence"
<1> DEFINE len == Len(atoms)
           low == Most(1, len - Overlap + 1)
           starts == {n \in low..len + 1 : \A k \in n..len : atoms[k].kind = "sentence"}
<1>1. len \in Nat /\ Overlap \in Nat
  BY ChunkAssumption, LenProperties
<1>2. low \in 1..(len + 1) /\ low >= len - Overlap + 1
  BY <1>1 DEF Most
<1> HIDE DEF low
<1>3. len + 1 \in starts /\ starts \subseteq Nat
  BY <1>1, <1>2
<1>4. OverlapTail(atoms) = SubSeq(atoms, Min(starts), len)
  BY DEF OverlapTail, low
<1> HIDE DEF starts
<1>5. Min(starts) \in starts
  BY <1>3, FirstPosition
<1>6. PICK n : n = Min(starts)
  OBVIOUS
<1>7. n \in low..len + 1 /\ \A k \in n..len : atoms[k].kind = "sentence"
  BY <1>5, <1>6 DEF starts
<1>8. n \in 1..(len + 1) /\ len - n + 1 <= Overlap
  BY <1>1, <1>2, <1>7
<1> HIDE DEF len
<1>9. OverlapTail(atoms) = SubSeq(atoms, n, len)
  BY <1>4, <1>6
<1> QED
  BY <1>7, <1>8, <1>9 DEF len

\* The overlap is atoms.
LEMMA TailTyped ==
    ASSUME NEW atoms \in Seq(AtomRow)
    PROVE  OverlapTail(atoms) \in Seq(AtomRow)
<1>1. PICK n \in 1..(Len(atoms) + 1) : OverlapTail(atoms) = SubSeq(atoms, n, Len(atoms))
  BY OverlapTailIs
<1>2. Len(atoms) \in Nat /\ n \in Nat \ {0}
  BY LenProperties
<1> QED
  BY <1>1, <1>2, PartIs

\* A chunk is the atoms from .. to, of which those up to past repeat the chunk before.
CutRow == [from : Nat, past : Nat, to : Nat]
Fits(doc, atoms, c) ==
    /\ c \in CutRow /\ c.from # 0 /\ c.from <= c.past + 1 /\ c.past < c.to /\ c.to <= Len(atoms)
    /\ c.past - c.from + 1 <= Overlap
    /\ \A k \in c.from..c.past : atoms[k].kind = "sentence"
    /\ \/ c.from = c.to
       \/ WordsIn(doc, SubSeq(atoms, c.from, c.to)) <= MaxWords + WordsIn(doc, SubSeq(atoms, c.from, c.past))

\* where the cuts end, and one that goes on from there
End(cuts) == IF cuts = <<>> THEN 0 ELSE cuts[Len(cuts)].to
Follows(cuts, c) == c.past = End(cuts) /\ (cuts # <<>> => cuts[Len(cuts)].from <= c.from)

\* The chunks are the atoms between these cuts, each from where the one before ends.
Chained(doc, atoms, chunks, cuts) ==
    /\ chunks \in Seq(Seq(AtomRow)) /\ cuts \in Seq(CutRow) /\ Len(cuts) = Len(chunks)
    /\ \A n \in 1..Len(cuts) : Fits(doc, atoms, cuts[n]) /\ chunks[n] = SubSeq(atoms, cuts[n].from, cuts[n].to)
    /\ cuts # <<>> => cuts[1].past = 0
    /\ \A n \in 2..Len(cuts) : cuts[n].past = cuts[n - 1].to /\ cuts[n - 1].from <= cuts[n].from

\* One more chunk.
Extends(doc, atoms, chunks, cuts, c) ==
    /\ atoms \in Seq(AtomRow) /\ Chained(doc, atoms, chunks, cuts) /\ Fits(doc, atoms, c) /\ Follows(cuts, c)

\* A cut that follows makes a longer chain.
LEMMA ChainPut ==
    ASSUME NEW doc, NEW atoms, NEW chunks, NEW cuts, NEW c, Extends(doc, atoms, chunks, cuts, c)
    PROVE  /\ Chained(doc, atoms, Append(chunks, SubSeq(atoms, c.from, c.to)), Append(cuts, c))
           /\ End(Append(cuts, c)) = c.to
           /\ Append(cuts, c) # <<>> /\ Append(cuts, c)[Len(Append(cuts, c))] = c
<1> DEFINE len == Len(cuts)
           chunk == SubSeq(atoms, c.from, c.to)
           more == Append(chunks, chunk)
           longer == Append(cuts, c)
<1>1. /\ atoms \in Seq(AtomRow) /\ Chained(doc, atoms, chunks, cuts) /\ Fits(doc, atoms, c) /\ Follows(cuts, c)
  BY DEF Extends
<1>2. /\ chunks \in Seq(Seq(AtomRow)) /\ cuts \in Seq(CutRow) /\ Len(chunks) = len /\ len \in Nat
      /\ (cuts = <<>> <=> len = 0)
  BY <1>1, LenProperties, EmptySeq DEF Chained
<1>3. c \in CutRow /\ c.from \in Nat \ {0} /\ c.to \in Nat /\ c.to <= Len(atoms)
  BY <1>1 DEF Fits, CutRow
<1>4. chunk \in Seq(AtomRow)
  BY <1>1, <1>3, PartIs
<1> HIDE DEF chunk
<1>5. more \in Seq(Seq(AtomRow)) /\ Len(more) = len + 1 /\ (\A n \in 1..len : more[n] = chunks[n]) /\ more[len + 1] = chunk
  <2>1. /\ more \in Seq(Seq(AtomRow)) /\ Len(more) = Len(chunks) + 1
        /\ \A n \in 1..Len(chunks) : more[n] = chunks[n]
        /\ more[Len(chunks) + 1] = chunk
    <3>1. PICK T : T = Seq(AtomRow)
      OBVIOUS
    <3>2. chunks \in Seq(T) /\ chunk \in T
      BY <1>2, <1>4, <3>1
    <3>3. /\ more \in Seq(T) /\ Len(more) = Len(chunks) + 1
          /\ \A n \in 1..Len(chunks) : more[n] = chunks[n]
          /\ more[Len(chunks) + 1] = chunk
      BY <3>2, AppendProperties
    <3> QED
      BY <3>1, <3>3
  <2> HIDE DEF more, len
  <2> QED
    BY <1>2, <2>1
<1>6. longer \in Seq(CutRow) /\ Len(longer) = len + 1 /\ (\A n \in 1..len : longer[n] = cuts[n]) /\ longer[len + 1] = c
  BY <1>2, <1>3, AppendProperties
<1> HIDE DEF more, longer
<1>7. longer # <<>>
  BY <1>2, <1>6, EmptySeq
<1>8. \A n \in 1..(len + 1) : Fits(doc, atoms, longer[n]) /\ more[n] = SubSeq(atoms, longer[n].from, longer[n].to)
  <2>1. SUFFICES ASSUME NEW n \in 1..(len + 1)
                 PROVE  Fits(doc, atoms, longer[n]) /\ more[n] = SubSeq(atoms, longer[n].from, longer[n].to)
    OBVIOUS
  <2>2. CASE n \in 1..len
    BY <1>1, <1>5, <1>6, <2>2 DEF Chained
  <2>3. CASE n = len + 1
    BY <1>1, <1>5, <1>6, <2>3 DEF chunk
  <2> QED
    BY <1>2, <2>2, <2>3
<1>9. longer[1].past = 0
  <2>1. CASE len = 0
    <3>1. longer[1] = c /\ End(cuts) = 0
      BY <1>2, <1>6, <2>1 DEF End
    <3> QED
      BY <1>1, <3>1 DEF Follows
  <2>2. CASE len # 0
    <3>1. longer[1] = cuts[1] /\ cuts # <<>>
      BY <1>2, <1>6, <2>2
    <3> QED
      BY <1>1, <3>1 DEF Chained
  <2> QED
    BY <2>1, <2>2
<1>10. \A n \in 2..(len + 1) : longer[n].past = longer[n - 1].to /\ longer[n - 1].from <= longer[n].from
  <2>1. SUFFICES ASSUME NEW n \in 2..(len + 1)
                 PROVE  longer[n].past = longer[n - 1].to /\ longer[n - 1].from <= longer[n].from
    OBVIOUS
  <2>2. longer[n - 1] = cuts[n - 1] /\ n - 1 \in 1..len
    <3>1. n - 1 \in 1..len
      BY <1>2
    <3> QED
      BY <1>6, <3>1
  <2>3. CASE n \in 2..len
    <3>1. longer[n] = cuts[n]
      BY <1>6, <2>3
    <3> QED
      BY <1>1, <2>2, <2>3, <3>1 DEF Chained
  <2>4. CASE n = len + 1
    <3>1. longer[n] = c /\ n - 1 = len /\ cuts # <<>>
      BY <1>2, <1>6, <2>2, <2>4
    <3> QED
      BY <1>1, <2>2, <3>1 DEF Follows, End
  <2> QED
    BY <1>2, <2>3, <2>4
<1>11. Chained(doc, atoms, more, longer)
  BY <1>5, <1>6, <1>8, <1>9, <1>10 DEF Chained
<1>12. End(longer) = c.to /\ longer[Len(longer)] = c
  BY <1>6, <1>7 DEF End
<1> QED
  BY <1>7, <1>11, <1>12 DEF more, longer, chunk

\* what _pack_atoms keeps: the chunks done, and the one being packed
AccRow == [chunks : Seq(Seq(AtomRow)), current : Seq(AtomRow)]

\* What the first k atoms have become, those being packed included.
PackedTo(doc, atoms, k, acc) ==
    /\ acc \in AccRow
    /\ \E cuts :
          /\ Chained(doc, atoms, acc.chunks, cuts)
          /\ acc.current = <<>> => End(cuts) = k
          /\ acc.current # <<>> => \E c : /\ Fits(doc, atoms, c) /\ Follows(cuts, c) /\ c.to = k
                                          /\ acc.current = SubSeq(atoms, c.from, c.to)

\* Flushed, they are a chain.
LEMMA FlushedChain ==
    ASSUME NEW doc, NEW atoms \in Seq(AtomRow), NEW k, NEW acc, PackedTo(doc, atoms, k, acc)
    PROVE  \E cuts : /\ Chained(doc, atoms, Flushed(acc), cuts) /\ End(cuts) = k
                     /\ acc.current # <<>> => /\ cuts # <<>>
                                              /\ acc.current = SubSeq(atoms, cuts[Len(cuts)].from, k)
                                              /\ cuts[Len(cuts)].to = k
                                              /\ Fits(doc, atoms, cuts[Len(cuts)])
<1>1. PICK cuts : /\ Chained(doc, atoms, acc.chunks, cuts)
                  /\ acc.current = <<>> => End(cuts) = k
                  /\ acc.current # <<>> => \E c : /\ Fits(doc, atoms, c) /\ Follows(cuts, c) /\ c.to = k
                                                  /\ acc.current = SubSeq(atoms, c.from, c.to)
  BY DEF PackedTo
<1>2. CASE acc.current = <<>>
  BY <1>1, <1>2 DEF Flushed
<1>3. CASE acc.current # <<>>
  <2>1. PICK c : /\ Fits(doc, atoms, c) /\ Follows(cuts, c) /\ c.to = k
                 /\ acc.current = SubSeq(atoms, c.from, c.to)
    BY <1>1, <1>3
  <2> DEFINE longer == Append(cuts, c)
  <2>2. /\ Chained(doc, atoms, Append(acc.chunks, acc.current), longer) /\ End(longer) = c.to
        /\ longer # <<>> /\ longer[Len(longer)] = c
    <3>1. PICK chunks : chunks = acc.chunks
      OBVIOUS
    <3>2. Extends(doc, atoms, chunks, cuts, c)
      BY <1>1, <2>1, <3>1 DEF Extends
    <3>3. /\ Chained(doc, atoms, Append(chunks, SubSeq(atoms, c.from, c.to)), Append(cuts, c))
          /\ End(Append(cuts, c)) = c.to
          /\ Append(cuts, c) # <<>> /\ Append(cuts, c)[Len(Append(cuts, c))] = c
      BY <3>2, ChainPut
    <3> QED
      BY <2>1, <3>1, <3>3
  <2>3. Flushed(acc) = Append(acc.chunks, acc.current)
    BY <1>3 DEF Flushed
  <2> HIDE DEF longer
  <2> QED
    BY <2>1, <2>2, <2>3
<1> QED
  BY <1>2, <1>3

\* What the EXCEPT of PackAtom makes.
LEMMA CurrentPut ==
    ASSUME NEW acc \in AccRow, NEW x
    PROVE  [acc EXCEPT !.current = x] = [chunks |-> acc.chunks, current |-> x]
<1>1. PICK a, b : acc = [chunks |-> a, current |-> b]
  BY DEF AccRow
<1>2. [[chunks |-> a, current |-> b] EXCEPT !.current = x] = [chunks |-> a, current |-> x]
  OBVIOUS
<1>3. acc.chunks = a
  BY <1>1
<1> QED
  BY <1>1, <1>2, <1>3, Zenon

\* One step of packing leaves a row.
LEMMA PackTyped ==
    ASSUME NEW doc, NEW acc \in AccRow, NEW atom \in AtomRow
    PROVE  PackAtom(doc, acc, atom) \in AccRow
<1>1. acc.chunks \in Seq(Seq(AtomRow)) /\ acc.current \in Seq(AtomRow)
  BY DEF AccRow
<1>2. Flushed(acc) \in Seq(Seq(AtomRow))
  BY <1>1, AppendProperties DEF Flushed
<1>3. <<atom>> \in Seq(AtomRow)
  OBVIOUS
<1>4. Append(OverlapTail(acc.current), atom) \in Seq(AtomRow) /\ Append(acc.current, atom) \in Seq(AtomRow)
  <2>1. PICK n \in 1..(Len(acc.current) + 1) : OverlapTail(acc.current) = SubSeq(acc.current, n, Len(acc.current))
    BY <1>1, OverlapTailIs
  <2>2. Len(acc.current) \in Nat /\ n \in Nat \ {0}
    BY <1>1, LenProperties
  <2>3. OverlapTail(acc.current) \in Seq(AtomRow)
    BY <1>1, <2>1, <2>2, PartIs
  <2> QED
    BY <1>1, <2>3, AppendProperties
<1>5. Append(Flushed(acc), <<atom>>) \in Seq(Seq(AtomRow))
  BY <1>2, <1>3, AppendProperties
<1>6. [acc EXCEPT !.current = Append(@, atom)] = [chunks |-> acc.chunks, current |-> Append(acc.current, atom)]
  <2>1. PICK x : x = Append(acc.current, atom)
    OBVIOUS
  <2>2. [acc EXCEPT !.current = x] = [chunks |-> acc.chunks, current |-> x]
    BY CurrentPut
  <2> QED
    BY <2>1, <2>2
<1>7. <<>> \in Seq(AtomRow)
  BY EmptySeq
<1> QED
  BY <1>1, <1>2, <1>4, <1>5, <1>6, <1>7 DEF PackAtom, AccRow


\* Packing is a walk over the atoms.
LEMMA PackWalk ==
    ASSUME NEW doc, NEW atoms \in Seq(AtomRow)
    PROVE  \E v \in [0..Len(atoms) -> AccRow] :
              /\ v[0] = [chunks |-> <<>>, current |-> <<>>] /\ \A k \in 1..Len(atoms) : v[k] = PackAtom(doc, v[k - 1], atoms[k])
              /\ PackAtoms(doc, atoms) = Flushed(v[Len(atoms)])
<1> DEFINE n == Len(atoms)
           o == [p \in AccRow \X (1..n) |-> PackAtom(doc, p[1], atoms[p[2]])]
           Solves(g) == g = [s \in SUBSET DOMAIN atoms |-> IF s = {} THEN [chunks |-> <<>>, current |-> <<>>]
                               ELSE PackAtom(doc, g[s \ {Max(s)}], atoms[Max(s)])]
           chosen == CHOOSE g : Solves(g)
<1>1. n \in Nat /\ DOMAIN atoms = 1..n
  BY LenProperties
<1>2. \A q \in AccRow, i \in 1..n : PackAtom(doc, q, atoms[i]) \in AccRow
  <2>1. \A i \in 1..n : atoms[i] \in AtomRow
    OBVIOUS
  <2> QED
    BY <2>1, PackTyped
<1>3. [chunks |-> <<>>, current |-> <<>>] \in AccRow
  BY EmptySeq DEF AccRow
<1> HIDE DEF n
<1>4. o \in [AccRow \X (1..n) -> AccRow]
  BY <1>2
<1>5. PICK g \in [SUBSET (1..n) -> AccRow] : FoldFun(o, [chunks |-> <<>>, current |-> <<>>], n, g)
  BY <1>1, <1>3, <1>4, FoldExists
<1>6. Solves(g)
  <2>1. \A s \in SUBSET (1..n) :
           g[s] = IF s = {} THEN [chunks |-> <<>>, current |-> <<>>] ELSE PackAtom(doc, g[s \ {Max(s)}], atoms[Max(s)])
    <3>1. SUFFICES ASSUME NEW s \in SUBSET (1..n), s # {}
                   PROVE  g[s] = PackAtom(doc, g[s \ {Max(s)}], atoms[Max(s)])
      BY <1>5 DEF FoldFun
    <3> HIDE DEF o
    <3>2. Max(s) \in 1..n /\ s \ {Max(s)} \in SUBSET (1..n)
      BY <1>1, <1>5, <3>1, FoldFunAt
    <3>3. g[s] = o[<<g[s \ {Max(s)}], Max(s)>>]
      BY <1>5, <3>1, Zenon DEF FoldFun
    <3> USE DEF o
    <3>4. <<g[s \ {Max(s)}], Max(s)>> \in AccRow \X (1..n)
      BY <1>5, <3>2
    <3> QED
      BY <3>3, <3>4
  <2> QED
    BY <1>1, <2>1
<1>7. Solves(chosen)
  BY <1>6, Zenon
<1>8. PackAtoms(doc, atoms) = Flushed(chosen[DOMAIN atoms])
  BY Zenon DEF PackAtoms, FoldLeft, MapThenFoldSet
<1>9. chosen[{}] = [chunks |-> <<>>, current |-> <<>>]
  BY <1>1, <1>7
<1>10. \A k \in 1..n : chosen[1..(k - 1)] \in AccRow => chosen[1..k] = o[<<chosen[1..(k - 1)], k>>]
  <2> HIDE DEF chosen
  <2>1. SUFFICES ASSUME NEW k \in 1..n, chosen[1..(k - 1)] \in AccRow
                 PROVE  chosen[1..k] = o[<<chosen[1..(k - 1)], k>>]
    OBVIOUS
  <2>2. k \in Nat /\ k # 0 /\ 1..k \in SUBSET (1..n)
    BY <1>1
  <2>3. Max(1..k) = k /\ (1..k) \ {k} = 1..(k - 1) /\ 1..k # {} /\ 1..k \in SUBSET (1..n)
    BY <2>2, LastOfFirst
  <2>4. chosen[1..k] = PackAtom(doc, chosen[(1..k) \ {Max(1..k)}], atoms[Max(1..k)])
    BY <1>1, <1>7, <2>3
  <2>5. chosen[1..k] = PackAtom(doc, chosen[1..(k - 1)], atoms[k])
    BY <2>3, <2>4, Zenon
  <2>6. <<chosen[1..(k - 1)], k>> \in AccRow \X (1..n)
    BY <2>1
  <2> QED
    BY <2>5, <2>6
<1>11. \A p \in AccRow, k \in 1..n : o[<<p, k>>] = PackAtom(doc, p, atoms[k])
  OBVIOUS
<1> HIDE DEF chosen, o
<1>12. FoldSteps(n, AccRow, [chunks |-> <<>>, current |-> <<>>], o, chosen)
  BY <1>1, <1>3, <1>4, <1>9, <1>10 DEF FoldSteps
<1>13. PICK v \in [0..n -> AccRow] : FoldTrace(n, AccRow, [chunks |-> <<>>, current |-> <<>>], o, v) /\ v[n] = chosen[1..n]
  BY <1>12, FoldWalk
<1>14. v[0] = [chunks |-> <<>>, current |-> <<>>] /\ \A k \in 1..Len(atoms) : v[k] = PackAtom(doc, v[k - 1], atoms[k])
  <2>1. v[0] = [chunks |-> <<>>, current |-> <<>>] /\ \A k \in 1..n : v[k] = o[<<v[k - 1], k>>]
    BY <1>13 DEF FoldTrace
  <2>2. ASSUME NEW k \in 1..n PROVE v[k] = PackAtom(doc, v[k - 1], atoms[k])
    <3>1. k - 1 \in 0..n
      BY <1>1
    <3>2. PICK q \in AccRow : q = v[k - 1]
      BY <1>13, <3>1
    <3>3. v[k] = o[<<q, k>>]
      BY <2>1, <3>2
    <3>4. v[k] = PackAtom(doc, q, atoms[k])
      BY <1>11, <3>3
    <3> QED
      BY <3>2, <3>4
  <2> QED
    BY <2>1, <2>2 DEF n
<1>15. PackAtoms(doc, atoms) = Flushed(v[n])
  BY <1>1, <1>8, <1>13
<1> QED
  BY <1>14, <1>15 DEF n

\* Some chunk is this text, and follows.
CutNow(doc, atoms, j, cuts, text) ==
    \E c : /\ Fits(doc, atoms, c) /\ Follows(cuts, c) /\ c.to = j + 1
           /\ text = SubSeq(atoms, c.from, c.to)

\* An atom that begins a chunk, whatever has been cut before.
CanBegin(doc, atoms, j, chunks, cuts) ==
    /\ atoms \in Seq(AtomRow) /\ j \in Nat /\ j + 1 <= Len(atoms)
    /\ Chained(doc, atoms, chunks, cuts) /\ End(cuts) = j

\* Such an atom is a chunk that follows.
LEMMA BeginsChunk ==
    ASSUME NEW doc, NEW atoms, NEW j, NEW chunks, NEW cuts, CanBegin(doc, atoms, j, chunks, cuts)
    PROVE  CutNow(doc, atoms, j, cuts, <<atoms[j + 1]>>)
<1>1. /\ atoms \in Seq(AtomRow) /\ j \in Nat /\ j + 1 <= Len(atoms)
      /\ Chained(doc, atoms, chunks, cuts) /\ End(cuts) = j
  BY DEF CanBegin
<1>2. Len(atoms) \in Nat /\ j <= Len(atoms) /\ j + 1 \in 1..Len(atoms) /\ Overlap \in Nat
  BY <1>1, ChunkAssumption, LenProperties
<1>3. PICK c \in CutRow : c.from = j + 1 /\ c.past = j /\ c.to = j + 1
  <2>1. \A x, y, z \in Nat : [from |-> x, past |-> y, to |-> z] \in CutRow
    BY DEF CutRow
  <2>2. j \in Nat /\ j + 1 \in Nat
    BY <1>1
  <2> QED
    BY <2>1, <2>2
<1>4. Fits(doc, atoms, c)
  <2>1. c.from # 0 /\ c.from <= c.past + 1 /\ c.past < c.to /\ c.to <= Len(atoms) /\ c.past - c.from + 1 <= Overlap
    BY <1>1, <1>2, <1>3
  <2>2. c.from = c.to /\ \A k \in c.from..c.past : FALSE
    BY <1>1, <1>3
  <2> QED
    BY <2>1, <2>2 DEF Fits
<1>5. Follows(cuts, c)
  <2>1. ASSUME cuts # <<>> PROVE cuts[Len(cuts)].from <= j + 1
    <3>1. cuts \in Seq(CutRow) /\ Len(cuts) \in 1..Len(cuts)
      BY <1>1, <2>1, LenProperties, EmptySeq DEF Chained
    <3>2. PICK last \in CutRow : last = cuts[Len(cuts)]
      BY <3>1
    <3>3. Fits(doc, atoms, last) /\ last.to = j
      BY <1>1, <2>1, <3>1, <3>2 DEF Chained, End
    <3> QED
      BY <1>1, <1>2, <3>2, <3>3 DEF Fits, CutRow
  <2> QED
    BY <1>1, <1>3, <2>1 DEF Follows
<1>6. <<atoms[j + 1]>> = SubSeq(atoms, j + 1, j + 1)
  <2>1. j + 1 \in Nat \ {0} /\ j + 1 <= j + 1
    BY <1>1
  <2>2. SubSeq(atoms, j + 1, j) = <<>>
    BY <1>1, <1>2, <2>1, PartIs
  <2>3. Append(SubSeq(atoms, j + 1, j), atoms[j + 1]) = SubSeq(atoms, j + 1, j + 1)
    BY <1>1, <1>2, <2>1, PartGrows
  <2>4. Append(<<>>, atoms[j + 1]) = <<atoms[j + 1]>>
    OBVIOUS
  <2> QED
    BY <2>2, <2>3, <2>4
<1> QED
  BY <1>3, <1>4, <1>5, <1>6 DEF CutNow

\* What packing one atom makes: alone, after the overlap, or with those being packed.
Packs(doc, acc, atom, new) ==
    \/ new.chunks = Append(Flushed(acc), <<atom>>) /\ new.current = <<>>
    \/ /\ ~(AtomWords(doc, atom) > MaxWords) /\ acc.current # <<>>
       /\ new.chunks = Flushed(acc) /\ new.current = Append(OverlapTail(acc.current), atom)
    \/ /\ ~(AtomWords(doc, atom) > MaxWords)
       /\ acc.current # <<>> => ~(WordsIn(doc, acc.current) + AtomWords(doc, atom) > MaxWords)
       /\ new.chunks = acc.chunks /\ new.current = Append(acc.current, atom)

\* Packing an atom is one of the three.
LEMMA PackCases ==
    ASSUME NEW doc, NEW acc \in AccRow, NEW atom
    PROVE  Packs(doc, acc, atom, PackAtom(doc, acc, atom))
<1> DEFINE new == PackAtom(doc, acc, atom)
<1>1. PICK x : x = Append(acc.current, atom)
  OBVIOUS
<1>2. PICK grown : /\ grown = [acc EXCEPT !.current = Append(@, atom)]
                   /\ grown.chunks = acc.chunks /\ grown.current = Append(acc.current, atom)
  <2>1. [acc EXCEPT !.current = x] = [chunks |-> acc.chunks, current |-> x]
    BY CurrentPut
  <2>2. PICK row : row = [chunks |-> acc.chunks, current |-> x]
    OBVIOUS
  <2>3. row.chunks = acc.chunks /\ row.current = Append(acc.current, atom)
    BY <1>1, <2>2
  <2>4. row = [acc EXCEPT !.current = Append(@, atom)]
    BY <1>1, <2>1, <2>2
  <2> QED
    BY <2>3, <2>4
<1>3. CASE AtomWords(doc, atom) > MaxWords
  <2>1. new = [chunks |-> Append(Flushed(acc), <<atom>>), current |-> <<>>]
    BY <1>3 DEF PackAtom
  <2> QED
    BY <2>1 DEF Packs
<1>4. CASE /\ ~(AtomWords(doc, atom) > MaxWords)
           /\ acc.current # <<>> /\ WordsIn(doc, acc.current) + AtomWords(doc, atom) > MaxWords
  <2>1. new = [chunks |-> Flushed(acc), current |-> Append(OverlapTail(acc.current), atom)]
    BY <1>4 DEF PackAtom
  <2> QED
    BY <1>4, <2>1 DEF Packs
<1>5. CASE /\ ~(AtomWords(doc, atom) > MaxWords)
           /\ ~(acc.current # <<>> /\ WordsIn(doc, acc.current) + AtomWords(doc, atom) > MaxWords)
  <2>1. PackAtom(doc, acc, atom) = grown
    BY <1>2, <1>5 DEF PackAtom
  <2>2. new.chunks = acc.chunks /\ new.current = Append(acc.current, atom)
    BY <1>2, <2>1, Zenon
  <2> QED
    BY <1>5, <2>2 DEF Packs
<1> HIDE DEF new
<1> QED
  BY <1>3, <1>4, <1>5 DEF Packs, new

\* Where the tail begins.
IsTail(j, from, n, len, few, start) ==
    /\ j \in Nat /\ from \in Nat \ {0} /\ from <= j /\ len = j - from + 1
    /\ n \in Nat \ {0} /\ n <= len + 1 /\ few \in Nat /\ len - n + 1 <= few /\ start = from + n - 1

\* It begins past the chunk it repeats, and repeats few enough of its atoms.
LEMMA TailBegins ==
    ASSUME NEW j, NEW from, NEW n, NEW len, NEW few, NEW start, IsTail(j, from, n, len, few, start)
    PROVE  /\ start \in Nat \ {0} /\ from <= start /\ start <= j + 1 /\ j - start + 1 <= few
           /\ n \in 1..(j - from + 2)
           /\ \A i \in start..j : \E m \in n..len : m \in 1..len /\ from + m - 1 = i
<1>1. start \in Nat \ {0} /\ from <= start /\ start <= j + 1 /\ j - start + 1 <= few /\ n \in 1..(j - from + 2)
  BY DEF IsTail
<1>2. \A i \in start..j : \E m \in n..len : m \in 1..len /\ from + m - 1 = i
  <2>1. SUFFICES ASSUME NEW i \in start..j PROVE \E m \in n..len : m \in 1..len /\ from + m - 1 = i
    OBVIOUS
  <2>2. PICK m : m = i - from + 1
    OBVIOUS
  <2>3. m \in n..len /\ m \in 1..len /\ from + m - 1 = i
    BY <2>2 DEF IsTail
  <2> QED
    BY <2>3
<1> QED
  BY <1>1, <1>2

\* The chunk that carries the tail of the last one over.
CanCarry(doc, atoms, j, cuts, old, current) ==
    /\ atoms \in Seq(AtomRow) /\ j \in Nat /\ j + 1 <= Len(atoms)
    /\ cuts # <<>> /\ old = cuts[Len(cuts)] /\ Fits(doc, atoms, old) /\ old.to = j /\ End(cuts) = j
    /\ current = SubSeq(atoms, old.from, j) /\ ~(AtomWords(doc, atoms[j + 1]) > MaxWords)

\* It follows the last one and repeats no more than the overlap.
LEMMA CarriesOver ==
    ASSUME NEW doc, NEW atoms, NEW j, NEW cuts, NEW old, NEW current, CanCarry(doc, atoms, j, cuts, old, current)
    PROVE  CutNow(doc, atoms, j, cuts, Append(OverlapTail(current), atoms[j + 1]))
<1>1. /\ atoms \in Seq(AtomRow) /\ j \in Nat /\ j + 1 <= Len(atoms)
      /\ cuts # <<>> /\ old = cuts[Len(cuts)] /\ Fits(doc, atoms, old) /\ old.to = j /\ End(cuts) = j
      /\ current = SubSeq(atoms, old.from, j) /\ ~(AtomWords(doc, atoms[j + 1]) > MaxWords)
  BY DEF CanCarry
<1>2. Len(atoms) \in Nat /\ j <= Len(atoms) /\ j + 1 \in 1..Len(atoms) /\ Overlap \in Nat /\ MaxWords \in Nat
  BY <1>1, ChunkAssumption, LenProperties
<1>3. PICK from : from = old.from /\ from \in Nat \ {0} /\ from <= j /\ from <= j + 1
  BY <1>1, <1>2 DEF Fits, CutRow
<1>4. PICK len \in Nat : len = j - from + 1
  BY <1>1, <1>3
<1>5. current = SubSeq(atoms, from, j)
  BY <1>1, <1>3
<1>6. current \in Seq(AtomRow) /\ Len(current) = len /\ \A i \in 1..len : current[i] = atoms[from + i - 1]
  <2>1. /\ SubSeq(atoms, from, j) \in Seq(AtomRow) /\ Len(SubSeq(atoms, from, j)) = j - from + 1
        /\ \A i \in 1..(j - from + 1) : SubSeq(atoms, from, j)[i] = atoms[from + i - 1]
    <3>1. atoms \in Seq(AtomRow) /\ from \in Nat \ {0} /\ j \in Nat /\ j <= Len(atoms) /\ from <= j + 1
      BY <1>1, <1>2, <1>3
    <3> QED
      BY <3>1, PartIs
  <2> QED
    BY <1>1, <1>4, <1>5, <2>1
<1>7. \E n \in 1..(Len(current) + 1) :
         /\ OverlapTail(current) = SubSeq(current, n, Len(current)) /\ Len(current) - n + 1 <= Overlap
         /\ \A i \in n..Len(current) : current[i].kind = "sentence"
  BY <1>1, <1>6, OverlapTailIs
<1>8. PICK n : /\ n \in Nat \ {0} /\ n <= len + 1 /\ len - n + 1 <= Overlap
               /\ OverlapTail(current) = SubSeq(current, n, Len(current))
               /\ \A i \in n..len : current[i].kind = "sentence"
  <2>1. PICK size : size = Len(current)
    OBVIOUS
  <2>2. size = len
    BY <1>1, <1>6, <2>1
  <2>3. PICK n \in 1..(size + 1) :
            /\ OverlapTail(current) = SubSeq(current, n, size) /\ size - n + 1 <= Overlap
            /\ \A i \in n..size : current[i].kind = "sentence"
    BY <1>1, <1>7, <2>1
  <2>4. n \in Nat \ {0} /\ n <= len + 1 /\ len - n + 1 <= Overlap
    BY <1>1, <1>4, <2>2, <2>3
  <2> QED
    BY <1>1, <2>1, <2>2, <2>3, <2>4
<1>9. PICK tail : tail = OverlapTail(current)
  OBVIOUS
<1>10. PICK start : start = from + n - 1
  OBVIOUS
<1>11. /\ start \in Nat \ {0} /\ from <= start /\ start <= j + 1 /\ j - start + 1 <= Overlap
       /\ n \in 1..(j - from + 2)
       /\ \A i \in start..j : \E m \in n..len : m \in 1..len /\ from + m - 1 = i
  <2>1. IsTail(j, from, n, len, Overlap, start)
    BY <1>1, <1>2, <1>3, <1>4, <1>8, <1>10 DEF IsTail
  <2> QED
    BY <2>1, TailBegins
<1>12. tail = SubSeq(atoms, start, j)
  <2>1. RestOfPart(atoms, from, j, n)
    <3>1. InPart(AtomRow, atoms, from, j, n)
      BY <1>1, <1>2, <1>3, <1>11 DEF InPart
    <3> QED
      BY <3>1, PartOfPart
  <2>2. SubSeq(SubSeq(atoms, from, j), n, Len(SubSeq(atoms, from, j))) = SubSeq(atoms, from + n - 1, j)
    BY <2>1 DEF RestOfPart
  <2> QED
    BY <1>5, <1>8, <1>9, <1>10, <2>2
<1>13. tail \in Seq(AtomRow)
  BY <1>1, <1>2, <1>11, <1>12, PartIs
<1>14. Append(tail, atoms[j + 1]) = SubSeq(atoms, start, j + 1)
  BY <1>1, <1>2, <1>11, <1>12, PartGrows
<1>15. \A i \in start..j : atoms[i].kind = "sentence"
  <2>1. SUFFICES ASSUME NEW i \in start..j PROVE atoms[i].kind = "sentence"
    OBVIOUS
  <2>2. PICK m \in n..len : m \in 1..len /\ from + m - 1 = i
    BY <1>1, <1>11
  <2>3. current[m] = atoms[i]
    BY <1>1, <1>6, <2>2
  <2> QED
    BY <1>1, <1>8, <2>2, <2>3
<1>16. WordsIn(doc, SubSeq(atoms, start, j + 1)) <= MaxWords + WordsIn(doc, SubSeq(atoms, start, j))
  <2>1. atoms[j + 1] \in AtomRow
    BY <1>1, <1>2
  <2>2. WordsIn(doc, tail) \in Nat /\ WordsIn(doc, Append(tail, atoms[j + 1])) = WordsIn(doc, tail) + AtomWords(doc, atoms[j + 1])
    BY <1>1, <1>13, <2>1, WordsAppend
  <2>3. AtomWords(doc, atoms[j + 1]) \in Nat
    BY <1>1, <2>1, AtomWordsAre
  <2>4. PICK a, w : a = AtomWords(doc, atoms[j + 1]) /\ w = WordsIn(doc, tail)
    OBVIOUS
  <2>5. a <= MaxWords /\ a \in Nat /\ w \in Nat
    BY <1>1, <1>2, <2>2, <2>3, <2>4
  <2>6. w + a <= MaxWords + w
    BY <1>1, <1>2, <2>5
  <2> QED
    BY <1>1, <1>12, <1>14, <2>2, <2>4, <2>6
<1>17. PICK c \in CutRow : c.from = start /\ c.past = j /\ c.to = j + 1
  <2>1. \A x, y, z \in Nat : [from |-> x, past |-> y, to |-> z] \in CutRow
    BY DEF CutRow
  <2>2. start \in Nat /\ j + 1 \in Nat
    BY <1>1, <1>11
  <2> QED
    BY <1>1, <2>1, <2>2
<1>18. Fits(doc, atoms, c)
  <2>1. c.from # 0 /\ c.from <= c.past + 1 /\ c.past < c.to /\ c.to <= Len(atoms) /\ c.past - c.from + 1 <= Overlap
    BY <1>1, <1>2, <1>11, <1>17
  <2> QED
    BY <1>1, <1>15, <1>16, <1>17, <2>1 DEF Fits
<1>19. Follows(cuts, c)
  BY <1>1, <1>3, <1>11, <1>17 DEF Follows
<1> QED
  BY <1>9, <1>14, <1>17, <1>18, <1>19 DEF CutNow

\* The chunk that grows by an atom.
CanTake(doc, atoms, j, cuts, old, current) ==
    /\ atoms \in Seq(AtomRow) /\ j \in Nat /\ j + 1 <= Len(atoms)
    /\ Fits(doc, atoms, old) /\ Follows(cuts, old) /\ old.to = j
    /\ current = SubSeq(atoms, old.from, j)
    /\ ~(WordsIn(doc, current) + AtomWords(doc, atoms[j + 1]) > MaxWords)

\* It stays within its words.
LEMMA TakesMore ==
    ASSUME NEW doc, NEW atoms, NEW j, NEW cuts, NEW old, NEW current, CanTake(doc, atoms, j, cuts, old, current)
    PROVE  CutNow(doc, atoms, j, cuts, Append(current, atoms[j + 1]))
<1>1. /\ atoms \in Seq(AtomRow) /\ j \in Nat /\ j + 1 <= Len(atoms)
      /\ Fits(doc, atoms, old) /\ Follows(cuts, old) /\ old.to = j
      /\ current = SubSeq(atoms, old.from, j)
      /\ ~(WordsIn(doc, current) + AtomWords(doc, atoms[j + 1]) > MaxWords)
  BY DEF CanTake
<1>2. Len(atoms) \in Nat /\ j <= Len(atoms) /\ j + 1 \in 1..Len(atoms) /\ Overlap \in Nat /\ MaxWords \in Nat
  BY <1>1, ChunkAssumption, LenProperties
<1>3. PICK start, past : start = old.from /\ past = old.past
  OBVIOUS
<1>4. /\ start \in Nat \ {0} /\ past \in Nat /\ past < j /\ start <= past + 1 /\ past - start + 1 <= Overlap
  BY <1>1, <1>2, <1>3 DEF Fits, CutRow
<1>5. \A i \in start..past : atoms[i].kind = "sentence"
  BY <1>1, <1>2, <1>3 DEF Fits
<1>6. start <= j /\ start <= j + 1 /\ past <= Len(atoms)
  BY <1>1, <1>2, <1>4
<1>7. current \in Seq(AtomRow)
  BY <1>1, <1>2, <1>3, <1>6, <1>4, PartIs
<1>8. Append(current, atoms[j + 1]) = SubSeq(atoms, start, j + 1)
  BY <1>1, <1>2, <1>3, <1>6, <1>4, PartGrows
<1>9. WordsIn(doc, SubSeq(atoms, start, j + 1)) <= MaxWords + WordsIn(doc, SubSeq(atoms, start, past))
  <2>1. atoms[j + 1] \in AtomRow
    BY <1>1, <1>2
  <2>2. WordsIn(doc, current) \in Nat /\ WordsIn(doc, Append(current, atoms[j + 1])) = WordsIn(doc, current) + AtomWords(doc, atoms[j + 1])
    BY <1>1, <1>7, <2>1, WordsAppend
  <2>3. AtomWords(doc, atoms[j + 1]) \in Nat
    BY <1>1, <2>1, AtomWordsAre
  <2>4. SubSeq(atoms, start, past) \in Seq(AtomRow)
    BY <1>1, <1>6, <1>4, PartIs
  <2>5. WordsIn(doc, SubSeq(atoms, start, past)) \in Nat
    BY <1>1, <2>1, <2>4, WordsAppend
  <2>6. PICK a, w, v : a = AtomWords(doc, atoms[j + 1]) /\ w = WordsIn(doc, current) /\ v = WordsIn(doc, SubSeq(atoms, start, past))
    OBVIOUS
  <2>7. a \in Nat /\ w \in Nat /\ v \in Nat /\ ~(w + a > MaxWords)
    BY <1>1, <2>2, <2>3, <2>5, <2>6
  <2>8. w + a <= MaxWords + v
    BY <1>1, <1>2, <2>7
  <2> QED
    BY <1>1, <1>8, <2>2, <2>6, <2>8
<1>10. PICK c \in CutRow : c.from = start /\ c.past = past /\ c.to = j + 1
  <2>1. \A x, y, z \in Nat : [from |-> x, past |-> y, to |-> z] \in CutRow
    BY DEF CutRow
  <2>2. start \in Nat /\ j + 1 \in Nat
    BY <1>1, <1>4
  <2> QED
    BY <1>1, <1>4, <2>1, <2>2
<1>11. Fits(doc, atoms, c)
  <2>1. c.from # 0 /\ c.from <= c.past + 1 /\ c.past < c.to /\ c.to <= Len(atoms) /\ c.past - c.from + 1 <= Overlap
    BY <1>1, <1>2, <1>6, <1>4, <1>10
  <2> QED
    BY <1>1, <1>5, <1>9, <1>10, <2>1 DEF Fits
<1>12. Follows(cuts, c)
  BY <1>1, <1>3, <1>10 DEF Follows
<1> QED
  BY <1>8, <1>10, <1>11, <1>12 DEF CutNow

\* Packing the next atom.
LEMMA PackStep ==
    ASSUME NEW doc, NEW atoms \in Seq(AtomRow), NEW j \in Nat, j + 1 <= Len(atoms), NEW acc,
           PackedTo(doc, atoms, j, acc)
    PROVE  PackedTo(doc, atoms, j + 1, PackAtom(doc, acc, atoms[j + 1]))
<1>1. /\ j + 1 \in 1..Len(atoms) /\ atoms[j + 1] \in AtomRow /\ acc \in AccRow /\ acc.chunks \in Seq(Seq(AtomRow)) /\ acc.current \in Seq(AtomRow)
  <2>1. j + 1 \in 1..Len(atoms)
    BY LenProperties
  <2> QED
    BY <2>1 DEF PackedTo, AccRow
<1>2. PICK atom \in AtomRow : atom = atoms[j + 1]
  BY <1>1
<1>3. PICK new \in AccRow : new = PackAtom(doc, acc, atom)
  BY <1>1, PackTyped
<1>4. PICK cuts : /\ Chained(doc, atoms, Flushed(acc), cuts) /\ End(cuts) = j
                  /\ acc.current # <<>> => /\ cuts # <<>>
                                           /\ acc.current = SubSeq(atoms, cuts[Len(cuts)].from, j)
                                           /\ cuts[Len(cuts)].to = j
                                           /\ Fits(doc, atoms, cuts[Len(cuts)])
  BY FlushedChain
<1>5. PICK chunks : chunks = Flushed(acc)
  OBVIOUS
<1>6. PICK c : /\ Fits(doc, atoms, c) /\ Follows(cuts, c) /\ <<atom>> = SubSeq(atoms, c.from, c.to) /\ c.to = j + 1
  <2>1. CanBegin(doc, atoms, j, chunks, cuts)
    BY <1>4, <1>5 DEF CanBegin
  <2>2. CutNow(doc, atoms, j, cuts, <<atoms[j + 1]>>)
    BY <2>1, BeginsChunk
  <2> QED
    BY <1>2, <2>2 DEF CutNow
<1>7. \/ new.chunks = Append(chunks, <<atom>>) /\ new.current = <<>>
      \/ /\ ~(AtomWords(doc, atom) > MaxWords) /\ acc.current # <<>>
         /\ new.chunks = chunks /\ new.current = Append(OverlapTail(acc.current), atom)
      \/ /\ ~(AtomWords(doc, atom) > MaxWords)
         /\ acc.current # <<>> => ~(WordsIn(doc, acc.current) + AtomWords(doc, atom) > MaxWords)
         /\ new.chunks = acc.chunks /\ new.current = Append(acc.current, atom)
  <2>1. Packs(doc, acc, atom, new)
    BY <1>1, <1>3, PackCases
  <2> QED
    BY <1>5, <2>1 DEF Packs
<1>8. PICK cur \in Seq(AtomRow) : cur = acc.current
  BY <1>1
<1>9. ASSUME NEW cs, NEW d, Chained(doc, atoms, new.chunks, cs), Fits(doc, atoms, d), Follows(cs, d), d.to = j + 1,
             NEW s \in Seq(AtomRow), new.current = Append(s, atom), new.current = SubSeq(atoms, d.from, d.to)
      PROVE  PackedTo(doc, atoms, j + 1, new)
  <2>1. new.current # <<>>
    <3>1. PICK t : t = Append(s, atom)
      OBVIOUS
    <3>2. t \in Seq(AtomRow) /\ Len(t) = Len(s) + 1 /\ Len(s) \in Nat
      BY <1>2, <1>9, <3>1, AppendProperties, LenProperties
    <3>3. t # <<>>
      BY <3>2, EmptySeq
    <3>4. new.current = t
      BY <1>9, <3>1
    <3> QED
      BY <3>3, <3>4, Zenon
  <2> QED
    BY <1>3, <1>9, <2>1 DEF PackedTo
<1>10. CASE new.chunks = Append(chunks, <<atom>>) /\ new.current = <<>>
  <2>1. Extends(doc, atoms, chunks, cuts, c)
    BY <1>4, <1>5, <1>6 DEF Extends
  <2>2. /\ Chained(doc, atoms, Append(chunks, SubSeq(atoms, c.from, c.to)), Append(cuts, c))
        /\ End(Append(cuts, c)) = c.to
    BY <2>1, ChainPut
  <2>3. PICK longer : longer = Append(cuts, c)
    OBVIOUS
  <2>4. Chained(doc, atoms, new.chunks, longer) /\ End(longer) = j + 1
    BY <1>6, <1>10, <2>2, <2>3
  <2>5. PackedTo(doc, atoms, j + 1, new)
    BY <1>10, <2>4 DEF PackedTo
  <2> QED
    BY <1>2, <1>3, <2>5
<1>11. CASE /\ ~(AtomWords(doc, atom) > MaxWords) /\ acc.current # <<>>
            /\ new.chunks = chunks /\ new.current = Append(OverlapTail(acc.current), atom)
  <2>1. PICK old : old = cuts[Len(cuts)]
    OBVIOUS
  <2>2. /\ cuts # <<>> /\ cur = SubSeq(atoms, old.from, j) /\ old.to = j /\ Fits(doc, atoms, old)
    BY <1>4, <1>8, <1>11, <2>1
  <2>3. CutNow(doc, atoms, j, cuts, Append(OverlapTail(cur), atoms[j + 1]))
    <3>1. CanCarry(doc, atoms, j, cuts, old, cur)
      BY <1>2, <1>4, <1>11, <2>1, <2>2 DEF CanCarry
    <3> QED
      BY <3>1, CarriesOver
  <2>4. PICK d : /\ Fits(doc, atoms, d) /\ Follows(cuts, d) /\ d.to = j + 1
                 /\ Append(OverlapTail(cur), atoms[j + 1]) = SubSeq(atoms, d.from, d.to)
    BY <2>3 DEF CutNow
  <2>5. PICK tail \in Seq(AtomRow) : tail = OverlapTail(cur)
    BY TailTyped
  <2>6. new.current = Append(tail, atom) /\ new.current = SubSeq(atoms, d.from, d.to)
    BY <1>2, <1>8, <1>11, <2>4, <2>5
  <2>7. Chained(doc, atoms, new.chunks, cuts)
    BY <1>4, <1>5, <1>11
  <2>8. PackedTo(doc, atoms, j + 1, new)
    BY <1>9, <2>4, <2>5, <2>6, <2>7
  <2> QED
    BY <1>2, <1>3, <2>8
<1>12. CASE /\ ~(AtomWords(doc, atom) > MaxWords)
            /\ acc.current # <<>> => ~(WordsIn(doc, acc.current) + AtomWords(doc, atom) > MaxWords)
            /\ new.chunks = acc.chunks /\ new.current = Append(acc.current, atom)
  <2>1. CASE acc.current = <<>>
    <3>1. new.chunks = Flushed(acc) /\ new.current = <<atom>> /\ new.current = Append(cur, atom)
      BY <1>8, <1>12, <2>1 DEF Flushed
    <3>2. PackedTo(doc, atoms, j + 1, new)
      BY <1>4, <1>6, <1>8, <1>9, <3>1
    <3> QED
      BY <1>2, <1>3, <3>2
  <2>2. CASE acc.current # <<>>
    <3>1. PICK cs : /\ Chained(doc, atoms, acc.chunks, cs)
                    /\ \E e : /\ Fits(doc, atoms, e) /\ Follows(cs, e) /\ e.to = j
                              /\ acc.current = SubSeq(atoms, e.from, e.to)
      BY <2>2 DEF PackedTo
    <3>2. PICK old : /\ Fits(doc, atoms, old) /\ Follows(cs, old) /\ old.to = j
                     /\ acc.current = SubSeq(atoms, old.from, old.to)
      BY <3>1
    <3>3. cur = SubSeq(atoms, old.from, j) /\ ~(WordsIn(doc, cur) + AtomWords(doc, atoms[j + 1]) > MaxWords)
      BY <1>2, <1>8, <1>12, <2>2, <3>2
    <3>4. CutNow(doc, atoms, j, cs, Append(cur, atoms[j + 1]))
      <4>1. CanTake(doc, atoms, j, cs, old, cur)
        BY <3>2, <3>3 DEF CanTake
      <4> QED
        BY <4>1, TakesMore
    <3>5. PICK d : /\ Fits(doc, atoms, d) /\ Follows(cs, d) /\ d.to = j + 1
                   /\ Append(cur, atoms[j + 1]) = SubSeq(atoms, d.from, d.to)
      BY <3>4 DEF CutNow
    <3>6. Chained(doc, atoms, new.chunks, cs) /\ new.current = Append(cur, atom) /\ new.current = SubSeq(atoms, d.from, d.to)
      BY <1>2, <1>8, <1>12, <3>1, <3>5
    <3>7. PackedTo(doc, atoms, j + 1, new)
      BY <1>8, <1>9, <3>5, <3>6
    <3> QED
      BY <1>2, <1>3, <3>7
  <2> QED
    BY <2>1, <2>2
<1> QED
  BY <1>7, <1>10, <1>11, <1>12

\* Packing cuts all the atoms.
LEMMA PackIs ==
    ASSUME NEW doc, NEW atoms \in Seq(AtomRow)
    PROVE  \E cuts : Chained(doc, atoms, PackAtoms(doc, atoms), cuts) /\ End(cuts) = Len(atoms)
<1>1. PICK v \in [0..Len(atoms) -> AccRow] :
          /\ v[0] = [chunks |-> <<>>, current |-> <<>>]
          /\ \A k \in 1..Len(atoms) : v[k] = PackAtom(doc, v[k - 1], atoms[k])
          /\ PackAtoms(doc, atoms) = Flushed(v[Len(atoms)])
  BY PackWalk
<1> DEFINE T == {k \in 0..Len(atoms) : PackedTo(doc, atoms, k, v[k])}
<1>2. Len(atoms) \in Nat
  BY LenProperties
<1>3. 0 \in T
  <2>1. v[0] \in AccRow /\ v[0].chunks = <<>> /\ v[0].current = <<>>
    BY <1>1, <1>2
  <2>2. PICK none : none = <<>>
    OBVIOUS
  <2>3. none \in Seq(CutRow) /\ none \in Seq(Seq(AtomRow)) /\ Len(none) = 0
    BY <2>2, EmptySeq
  <2>4. Chained(doc, atoms, none, none)
    BY <2>2, <2>3 DEF Chained
  <2>5. End(none) = 0
    BY <2>2 DEF End
  <2>6. PackedTo(doc, atoms, 0, v[0])
    BY <2>1, <2>2, <2>4, <2>5 DEF PackedTo
  <2> QED
    BY <1>2, <2>6
<1>4. ASSUME NEW k \in 1..Len(atoms), k - 1 \in T PROVE k \in T
  <2>1. PICK acc : acc = v[k - 1]
    OBVIOUS
  <2>2. PackedTo(doc, atoms, k - 1, acc)
    BY <1>4, <2>1
  <2>3. PackedTo(doc, atoms, k, PackAtom(doc, acc, atoms[k]))
    BY <2>2, PackStep
  <2>4. v[k] = PackAtom(doc, acc, atoms[k])
    BY <1>1, <2>1
  <2> QED
    BY <1>2, <2>3, <2>4
<1> HIDE DEF T
<1>5. Len(atoms) \in T
  <2>1. Len(atoms) \in 0..Len(atoms)
    BY <1>2
  <2> QED
    BY <1>2, <1>3, <1>4, <2>1, Climb
<1>6. PICK acc : acc = v[Len(atoms)]
  OBVIOUS
<1>7. PackedTo(doc, atoms, Len(atoms), acc)
  BY <1>5, <1>6 DEF T
<1>8. \E cuts : Chained(doc, atoms, Flushed(acc), cuts) /\ End(cuts) = Len(atoms)
  BY <1>7, FlushedChain
<1> QED
  BY <1>1, <1>6, <1>8

-----------------------------------------------------------------------------
(* The chunks of a section *)

\* the lines of a text
TextLines(text) == FlattenSeq(LinesOf(text))

\* A part of atoms in order is in order, and has their lines.
LEMMA PartTidy ==
    ASSUME NEW atoms \in Seq(AtomRow), Tidy(LinesOf(atoms)),
           NEW i \in Nat \ {0}, NEW j \in Nat, i <= j + 1, j <= Len(atoms)
    PROVE  LET text == SubSeq(atoms, i, j)
           IN  /\ text \in Seq(AtomRow) /\ Tidy(LinesOf(text)) /\ Len(text) = j - i + 1
               /\ ToSet(text) = {atoms[k] : k \in i..j}
               /\ \A m, n \in DOMAIN text : text[m] = text[n] => m = n
<1> DEFINE text == SubSeq(atoms, i, j)
           len == j - i + 1
<1>1. Len(atoms) \in Nat /\ DOMAIN atoms = 1..Len(atoms) /\ len \in Nat
  BY LenProperties
<1>2. /\ text \in Seq(AtomRow) /\ DOMAIN text = 1..len /\ Len(text) = len
      /\ \A n \in 1..len : text[n] = atoms[i + n - 1]
  BY <1>1, PartIs
<1> HIDE DEF text
<1>3. \A n \in 1..len : i + n - 1 \in DOMAIN atoms /\ i + n - 1 \in i..j
  BY <1>1
<1>4. /\ \A n \in DOMAIN atoms : atoms[n].lines # <<>> /\ InOrder(atoms[n].lines)
      /\ \A m, n \in DOMAIN atoms : m < n =>
            \A x \in ToSet(atoms[m].lines), y \in ToSet(atoms[n].lines) : x < y
  BY TidyAtoms
<1>5. \A n \in DOMAIN text : text[n].lines # <<>> /\ InOrder(text[n].lines)
  BY <1>2, <1>3, <1>4
<1>6. \A m, n \in DOMAIN text : m < n => \A x \in ToSet(text[m].lines), y \in ToSet(text[n].lines) : x < y
  <2>1. SUFFICES ASSUME NEW m \in 1..len, NEW n \in 1..len, m < n
                 PROVE  \A x \in ToSet(text[m].lines), y \in ToSet(text[n].lines) : x < y
    BY <1>2
  <2>2. PICK a, b : a = i + m - 1 /\ b = i + n - 1
    OBVIOUS
  <2>3. a \in DOMAIN atoms /\ b \in DOMAIN atoms /\ a < b /\ text[m] = atoms[a] /\ text[n] = atoms[b]
    BY <1>1, <1>2, <1>3, <2>1, <2>2
  <2> QED
    BY <1>4, <2>3
<1>7. Tidy(LinesOf(text))
  BY <1>2, <1>5, <1>6, TidyAtoms
<1>8. ToSet(text) = {atoms[k] : k \in i..j}
  <2>1. ASSUME NEW n \in 1..len PROVE text[n] \in {atoms[k] : k \in i..j}
    BY <1>2, <1>3
  <2>2. ASSUME NEW k \in i..j PROVE atoms[k] \in ToSet(text)
    <3>1. PICK n : n = k - i + 1
      OBVIOUS
    <3>2. n \in 1..len /\ i + n - 1 = k
      BY <3>1
    <3> QED
      BY <1>2, <3>2 DEF ToSet
  <2>3. ToSet(text) \subseteq {atoms[k] : k \in i..j}
    BY <1>2, <2>1 DEF ToSet
  <2> QED
    BY <2>2, <2>3
<1>9. \A m, n \in DOMAIN text : text[m] = text[n] => m = n
  <2>1. ASSUME NEW m \in DOMAIN text, NEW n \in DOMAIN text, m < n PROVE text[m] # text[n]
    <3>1. m \in 1..Len(text)
      BY <1>2
    <3>2. PICK row \in AtomRow : row = text[m]
      BY <1>2, <3>1
    <3>3. row.lines \in Seq(Nat)
      BY DEF AtomRow
    <3>4. text[m].lines \in Seq(Nat) /\ text[m].lines # <<>>
      BY <1>5, <3>2, <3>3
    <3>5. Len(text[m].lines) \in Nat /\ Len(text[m].lines) # 0 /\ DOMAIN text[m].lines = 1..Len(text[m].lines)
      BY <3>4, LenProperties, EmptySeq
    <3>6. PICK x : x = text[m].lines[1]
      OBVIOUS
    <3>7. x \in ToSet(text[m].lines) /\ x \in Nat
      BY <3>4, <3>5, <3>6 DEF ToSet
    <3>8. ASSUME text[m] = text[n] PROVE FALSE
      <4>1. x \in ToSet(text[n].lines)
        BY <3>7, <3>8
      <4>2. x < x
        BY <1>6, <2>1, <3>7, <4>1
      <4> QED
        BY <3>7, <4>2
    <3> QED
      BY <3>8
  <2>2. ASSUME NEW m \in DOMAIN text, NEW n \in DOMAIN text, text[m] = text[n] PROVE m = n
    <3>1. m \in 1..len /\ n \in 1..len
      BY <1>2
    <3>2. ~(m < n) /\ ~(n < m)
      BY <2>1, <2>2
    <3> QED
      BY <1>1, <3>1, <3>2
  <2> QED
    BY <2>2
<1> QED
  BY <1>2, <1>7, <1>8, <1>9 DEF text

\* The lines of a text.
LEMMA TextIs ==
    ASSUME NEW text, Tidy(LinesOf(text))
    PROVE  /\ TextLines(text) \in Seq(Nat) /\ InOrder(TextLines(text))
           /\ \A l : l \in ToSet(TextLines(text)) <=> \E n \in DOMAIN text : l \in ToSet(text[n].lines)
<1>1. DOMAIN LinesOf(text) = DOMAIN text /\ \A n \in DOMAIN text : LinesOf(text)[n] = text[n].lines
  BY DEF LinesOf
<1>2. /\ FlattenSeq(LinesOf(text)) \in Seq(Nat) /\ InOrder(FlattenSeq(LinesOf(text)))
      /\ \A l : l \in ToSet(FlattenSeq(LinesOf(text))) <=> \E n \in DOMAIN LinesOf(text) : l \in ToSet(LinesOf(text)[n])
  BY TidyFlat
<1> QED
  BY <1>1, <1>2 DEF TextLines

\* The set of a sequence has no more elements than the sequence.
LEMMA FewElements ==
    ASSUME NEW A, NEW s \in Seq(A)
    PROVE  IsFiniteSet(ToSet(s)) /\ Cardinality(ToSet(s)) \in Nat /\ Cardinality(ToSet(s)) <= Len(s)
<1>1. PICK len \in Nat : len = Len(s) /\ DOMAIN s = 1..len
  BY LenProperties
<1>2. PICK I : I = 1..len /\ IsFiniteSet(I) /\ Cardinality(I) = len
  <2>1. IsFiniteSet(1..len) /\ Cardinality(1..len) = (IF 1 > len THEN 0 ELSE len - 1 + 1)
    BY FS_Interval
  <2> QED
    BY <1>1, <2>1
<1>3. s \in Surjection(I, ToSet(s))
  <2>1. s \in [I -> ToSet(s)]
    <3>1. s \in [1..Len(s) -> A]
      BY LenProperties
    <3>2. \A i \in I : s[i] \in ToSet(s)
      BY <1>1, <1>2 DEF ToSet
    <3> QED
      BY <1>1, <1>2, <3>1, <3>2
  <2>2. \A x \in ToSet(s) : \E i \in I : s[i] = x
    BY <1>1, <1>2 DEF ToSet
  <2> QED
    BY <2>1, <2>2 DEF Surjection
<1>4. IsFiniteSet(ToSet(s)) /\ Cardinality(ToSet(s)) <= Cardinality(I)
  BY <1>2, <1>3, FS_Surjection
<1>5. Cardinality(ToSet(s)) \in Nat
  BY <1>4, FS_CardinalityType
<1> QED
  BY <1>1, <1>2, <1>4, <1>5

\* what a text repeats of the one before
Shared(old, text) == ToSet(text) \cap ToSet(old)

\* A text that goes on where another ends.
GoesOn(doc, old, text) ==
    /\ \E x \in ToSet(TextLines(text)) : \A y \in ToSet(TextLines(old)) : y < x
    /\ Cardinality(Shared(old, text)) <= Overlap
    /\ \A atom \in Shared(old, text) : atom.kind = "sentence"
    /\ \/ Len(text) = 1
       \/ WordsIn(doc, text) <= MaxWords + SumOf([a \in Shared(old, text) |-> AtomWords(doc, a)], Shared(old, text))

\* The texts of a section with these lines.
TextsFor(doc, texts, lines) ==
    /\ texts \in Seq(Seq(AtomRow))
    /\ \A n \in 1..Len(texts) : texts[n] # <<>> /\ Tidy(LinesOf(texts[n])) /\ ToSet(TextLines(texts[n])) \subseteq lines
    /\ texts # <<>> => Len(texts[1]) = 1 \/ WordsIn(doc, texts[1]) <= MaxWords
    /\ \A n \in 2..Len(texts) : GoesOn(doc, texts[n - 1], texts[n])
    /\ \A l \in lines : \E n \in 1..Len(texts) : l \in ToSet(TextLines(texts[n]))

\* One chunk after the other.
LEMMA ChunkGoesOn ==
    ASSUME NEW doc, NEW atoms \in Seq(AtomRow), Tidy(LinesOf(atoms)), NEW p, NEW c,
           Fits(doc, atoms, p), Fits(doc, atoms, c), c.past = p.to, p.from <= c.from
    PROVE  GoesOn(doc, SubSeq(atoms, p.from, p.to), SubSeq(atoms, c.from, c.to))
<1> DEFINE old == SubSeq(atoms, p.from, p.to)
           text == SubSeq(atoms, c.from, c.to)
           tail == SubSeq(atoms, c.from, c.past)
<1>1. Len(atoms) \in Nat /\ DOMAIN atoms = 1..Len(atoms) /\ Overlap \in Nat /\ MaxWords \in Nat
  BY ChunkAssumption, LenProperties
<1>2. PICK a, b, z : a = c.from /\ b = c.past /\ z = c.to
  OBVIOUS
<1>3. /\ a \in Nat \ {0} /\ b \in Nat /\ z \in Nat /\ a <= b + 1 /\ b < z /\ z <= Len(atoms) /\ b - a + 1 <= Overlap
      /\ \A k \in a..b : atoms[k].kind = "sentence"
      /\ a = z \/ WordsIn(doc, SubSeq(atoms, a, z)) <= MaxWords + WordsIn(doc, SubSeq(atoms, a, b))
  BY <1>2 DEF Fits, CutRow
<1>4. PICK o : o = p.from /\ o \in Nat \ {0} /\ o <= b /\ o <= a /\ p.to = b
  BY <1>2, <1>3 DEF Fits, CutRow
<1>5. /\ text \in Seq(AtomRow) /\ Tidy(LinesOf(text)) /\ Len(text) = z - a + 1
      /\ ToSet(text) = {atoms[k] : k \in a..z}
  <2>1. a <= z + 1
    BY <1>3
  <2> QED
    BY <1>2, <1>3, <2>1, PartTidy
<1>6. /\ old \in Seq(AtomRow) /\ Tidy(LinesOf(old)) /\ ToSet(old) = {atoms[k] : k \in o..b}
  <2>1. o <= b + 1 /\ b <= Len(atoms)
    BY <1>3, <1>4
  <2> QED
    BY <1>3, <1>4, <2>1, PartTidy
<1>7. /\ tail \in Seq(AtomRow) /\ Len(tail) = b - a + 1
      /\ ToSet(tail) = {atoms[k] : k \in a..b}
      /\ \A m, n \in DOMAIN tail : tail[m] = tail[n] => m = n
  <2>1. b <= Len(atoms)
    BY <1>3
  <2> QED
    BY <1>2, <1>3, <2>1, PartTidy
<1> HIDE DEF old, text, tail
<1>8. \A j, k \in DOMAIN atoms : atoms[j] = atoms[k] => j = k
  <2>1. 1 \in Nat \ {0} /\ 1 <= Len(atoms) + 1 /\ Len(atoms) <= Len(atoms)
    BY <1>1
  <2>2. \A m, n \in DOMAIN SubSeq(atoms, 1, Len(atoms)) : SubSeq(atoms, 1, Len(atoms))[m] = SubSeq(atoms, 1, Len(atoms))[n] => m = n
    BY <1>1, <2>1, PartTidy
  <2>3. /\ DOMAIN SubSeq(atoms, 1, Len(atoms)) = 1..Len(SubSeq(atoms, 1, Len(atoms)))
        /\ Len(SubSeq(atoms, 1, Len(atoms))) = Len(atoms) - 1 + 1
        /\ \A n \in 1..(Len(atoms) - 1 + 1) : SubSeq(atoms, 1, Len(atoms))[n] = atoms[1 + n - 1]
    BY <1>1, <2>1, PartIs
  <2>4. \A n \in DOMAIN atoms : n \in DOMAIN SubSeq(atoms, 1, Len(atoms)) /\ SubSeq(atoms, 1, Len(atoms))[n] = atoms[n]
    <3>1. SUFFICES ASSUME NEW n \in DOMAIN atoms PROVE n \in DOMAIN SubSeq(atoms, 1, Len(atoms)) /\ SubSeq(atoms, 1, Len(atoms))[n] = atoms[n]
      OBVIOUS
    <3>2. n \in 1..(Len(atoms) - 1 + 1) /\ 1 + n - 1 = n /\ Len(atoms) - 1 + 1 = Len(atoms)
      BY <1>1
    <3> QED
      BY <1>1, <2>3, <3>2
  <2> QED
    BY <2>2, <2>4
<1>9. Shared(old, text) = ToSet(tail)
  <2>1. ASSUME NEW k \in a..b PROVE k \in a..z /\ k \in o..b
    BY <1>3, <1>4
  <2>2. ASSUME NEW j \in a..z, NEW k \in o..b, atoms[j] = atoms[k] PROVE j \in a..b
    <3>1. j \in DOMAIN atoms /\ k \in DOMAIN atoms
      BY <1>1, <1>3, <1>4
    <3>2. j = k
      BY <1>8, <2>2, <3>1
    <3> QED
      BY <1>3, <1>4, <3>2
  <2>3. ToSet(tail) \subseteq Shared(old, text)
    BY <1>5, <1>6, <1>7, <2>1 DEF Shared
  <2>4. ASSUME NEW atom \in Shared(old, text) PROVE atom \in ToSet(tail)
    <3>1. PICK j \in a..z, k \in o..b : atom = atoms[j] /\ atom = atoms[k]
      BY <1>5, <1>6 DEF Shared
    <3>2. j \in a..b
      BY <2>2, <3>1
    <3> QED
      BY <1>7, <3>1, <3>2
  <2> QED
    BY <2>3, <2>4
<1>10. Cardinality(Shared(old, text)) <= Overlap
  <2>1. Cardinality(ToSet(tail)) \in Nat /\ Cardinality(ToSet(tail)) <= b - a + 1
    BY <1>7, FewElements
  <2> QED
    BY <1>1, <1>3, <1>9, <2>1
<1>11. \A atom \in Shared(old, text) : atom.kind = "sentence"
  BY <1>3, <1>7, <1>9
<1>12. \/ Len(text) = 1
       \/ WordsIn(doc, text) <= MaxWords + SumOf([x \in Shared(old, text) |-> AtomWords(doc, x)], Shared(old, text))
  <2>1. CASE a = z
    BY <1>3, <1>5, <2>1
  <2>2. CASE WordsIn(doc, SubSeq(atoms, a, z)) <= MaxWords + WordsIn(doc, SubSeq(atoms, a, b))
    <3>1. WordsIn(doc, text) <= MaxWords + WordsIn(doc, tail)
      BY <1>2, <2>2 DEF text, tail
    <3>2. WordsIn(doc, tail) = SumOf([x \in ToSet(tail) |-> AtomWords(doc, x)], ToSet(tail))
      BY <1>7, WordsSum
    <3> QED
      BY <1>9, <3>1, <3>2
  <2> QED
    BY <1>3, <2>1, <2>2
<1>13. \E x \in ToSet(TextLines(text)) : \A y \in ToSet(TextLines(old)) : y < x
  <2>1. PICK last \in DOMAIN text : text[last] = atoms[z]
    <3>1. z \in a..z
      BY <1>3
    <3>2. atoms[z] \in ToSet(text)
      BY <1>5, <3>1
    <3> QED
      BY <3>2 DEF ToSet
  <2>2. z \in DOMAIN atoms /\ atoms[z] \in AtomRow
    BY <1>1, <1>3
  <2>3. /\ \A n \in DOMAIN atoms : atoms[n].lines # <<>> /\ InOrder(atoms[n].lines)
        /\ \A m, n \in DOMAIN atoms : m < n =>
              \A x \in ToSet(atoms[m].lines), y \in ToSet(atoms[n].lines) : x < y
    BY TidyAtoms
  <2>4. atoms[z].lines \in Seq(Nat) /\ atoms[z].lines # <<>>
    BY <2>2, <2>3 DEF AtomRow
  <2>5. Len(atoms[z].lines) \in Nat /\ Len(atoms[z].lines) # 0 /\ DOMAIN atoms[z].lines = 1..Len(atoms[z].lines)
    BY <2>4, LenProperties, EmptySeq
  <2>6. PICK x : x \in ToSet(atoms[z].lines)
    <3>1. 1 \in DOMAIN atoms[z].lines
      BY <2>5
    <3> QED
      BY <3>1 DEF ToSet
  <2>7. x \in ToSet(TextLines(text))
    BY <1>5, <2>1, <2>6, TextIs
  <2>8. ASSUME NEW y \in ToSet(TextLines(old)) PROVE y < x
    <3>1. PICK n \in DOMAIN old : y \in ToSet(old[n].lines)
      BY <1>6, TextIs
    <3>2. PICK k \in o..b : old[n] = atoms[k]
      BY <1>6 DEF ToSet
    <3>3. k \in DOMAIN atoms /\ k < z
      BY <1>1, <1>3, <1>4
    <3> QED
      BY <2>2, <2>3, <2>6, <3>1, <3>2, <3>3
  <2> QED
    BY <2>7, <2>8
<1> QED
  BY <1>10, <1>11, <1>12, <1>13 DEF GoesOn, old, text

\* Each atom is in some chunk.
LEMMA AllCut ==
    ASSUME NEW doc, NEW atoms \in Seq(AtomRow), NEW chunks, NEW cuts, Chained(doc, atoms, chunks, cuts),
           End(cuts) = Len(atoms)
    PROVE  \A k \in DOMAIN atoms : \E n \in 1..Len(cuts) : k \in cuts[n].from..cuts[n].to
<1>1. Len(atoms) \in Nat /\ DOMAIN atoms = 1..Len(atoms) /\ cuts \in Seq(CutRow) /\ Len(cuts) \in Nat
  BY LenProperties DEF Chained
<1>2. \A n \in 1..Len(cuts) : /\ cuts[n].from \in Nat /\ cuts[n].past \in Nat /\ cuts[n].to \in Nat
                              /\ cuts[n].from <= cuts[n].past + 1 /\ cuts[n].past < cuts[n].to
  BY DEF Chained, Fits, CutRow
<1> DEFINE upto(n) == IF n = 0 THEN 0 ELSE cuts[n].to
           T == {n \in 0..Len(cuts) : \A k \in 1..upto(n) : \E m \in 1..Len(cuts) : k \in cuts[m].from..cuts[m].to}
<1>3. 0 \in T
  BY <1>1
<1>4. ASSUME NEW n \in 1..Len(cuts), n - 1 \in T PROVE n \in T
  <2>1. SUFFICES ASSUME NEW k \in 1..cuts[n].to PROVE \E m \in 1..Len(cuts) : k \in cuts[m].from..cuts[m].to
    BY <1>1
  <2>2. cuts[n].past = upto(n - 1)
    <3>1. CASE n = 1
      <4>1. cuts # <<>>
        BY <1>1, EmptySeq
      <4> QED
        BY <3>1, <4>1 DEF Chained
    <3>2. CASE n # 1
      <4>1. n \in 2..Len(cuts) /\ n - 1 # 0
        BY <1>1, <3>2
      <4> QED
        BY <4>1 DEF Chained
    <3> QED
      BY <3>1, <3>2
  <2>3. CASE k <= cuts[n].past
    <3>1. PICK past : past = upto(n - 1) /\ past = cuts[n].past
      BY <2>2
    <3>2. k \in 1..past
      BY <1>2, <2>3, <3>1
    <3> QED
      BY <1>4, <3>1, <3>2
  <2>4. CASE k > cuts[n].past
    <3>1. k \in cuts[n].from..cuts[n].to
      BY <1>2, <2>4
    <3> QED
      BY <3>1
  <2> QED
    BY <1>2, <2>3, <2>4
<1> HIDE DEF T
<1>5. Len(cuts) \in T
  <2>1. Len(cuts) \in 0..Len(cuts)
    BY <1>1
  <2> QED
    BY <1>1, <1>3, <1>4, <2>1, Climb
<1>6. upto(Len(cuts)) = Len(atoms)
  <2>1. CASE Len(cuts) = 0
    <3>1. cuts = <<>>
      BY <1>1, <2>1, EmptySeq
    <3> QED
      BY <2>1, <3>1 DEF End
  <2>2. CASE Len(cuts) # 0
    <3>1. cuts # <<>>
      BY <2>2, EmptySeq
    <3> QED
      BY <2>2, <3>1 DEF End
  <2> QED
    BY <2>1, <2>2
<1> QED
  BY <1>1, <1>5, <1>6 DEF T

\* The chunks of atoms in order.
LEMMA TextsAre ==
    ASSUME NEW doc, NEW atoms, NEW lines, AtomsFor(atoms, lines)
    PROVE  /\ TextsFor(doc, PackAtoms(doc, atoms), lines)
           /\ \A k \in DOMAIN atoms : \E n \in 1..Len(PackAtoms(doc, atoms)) :
                 ToSet(atoms[k].lines) \subseteq ToSet(TextLines(PackAtoms(doc, atoms)[n]))
<1>1. /\ atoms \in Seq(AtomRow) /\ Tidy(LinesOf(atoms)) /\ Len(atoms) \in Nat /\ DOMAIN atoms = 1..Len(atoms)
      /\ \A n \in DOMAIN atoms : ToSet(atoms[n].lines) \subseteq lines
      /\ \A l \in lines : \E n \in DOMAIN atoms : l \in ToSet(atoms[n].lines)
  BY LenProperties DEF AtomsFor
<1>2. PICK cuts : Chained(doc, atoms, PackAtoms(doc, atoms), cuts) /\ End(cuts) = Len(atoms)
  BY <1>1, PackIs
<1>3. PICK texts : texts = PackAtoms(doc, atoms)
  OBVIOUS
<1>4. /\ texts \in Seq(Seq(AtomRow)) /\ cuts \in Seq(CutRow) /\ Len(cuts) = Len(texts) /\ Len(texts) \in Nat
      /\ \A n \in 1..Len(texts) : Fits(doc, atoms, cuts[n]) /\ texts[n] = SubSeq(atoms, cuts[n].from, cuts[n].to)
      /\ cuts # <<>> => cuts[1].past = 0
      /\ \A n \in 2..Len(texts) : cuts[n].past = cuts[n - 1].to /\ cuts[n - 1].from <= cuts[n].from
  BY <1>2, <1>3, LenProperties DEF Chained
<1>5. ASSUME NEW n \in 1..Len(texts)
      PROVE  /\ texts[n] # <<>> /\ texts[n] \in Seq(AtomRow) /\ Tidy(LinesOf(texts[n]))
             /\ ToSet(texts[n]) = {atoms[k] : k \in cuts[n].from..cuts[n].to}
             /\ ToSet(TextLines(texts[n])) \subseteq lines
  <2>1. PICK from, to : from = cuts[n].from /\ to = cuts[n].to
    OBVIOUS
  <2>2. PICK c \in CutRow : c = cuts[n] /\ Fits(doc, atoms, c)
    BY <1>4 DEF Fits
  <2>3. from = c.from /\ to = c.to /\ texts[n] = SubSeq(atoms, from, to)
    BY <1>4, <2>1, <2>2
  <2>4. c.from \in Nat /\ c.past \in Nat /\ c.to \in Nat
    BY DEF CutRow
  <2>5. c.from # 0 /\ c.from <= c.past + 1 /\ c.past < c.to /\ c.to <= Len(atoms)
    BY <2>2 DEF Fits
  <2>6. from \in Nat \ {0} /\ to \in Nat /\ from <= to + 1 /\ from <= to /\ to <= Len(atoms) /\ texts[n] = SubSeq(atoms, from, to)
    BY <2>3, <2>4, <2>5
  <2>7. PICK text : text = texts[n]
    OBVIOUS
  <2>8. /\ text \in Seq(AtomRow) /\ Tidy(LinesOf(text)) /\ Len(text) = to - from + 1
        /\ ToSet(text) = {atoms[k] : k \in from..to}
    BY <1>1, <2>6, <2>7, PartTidy
  <2>9. text # <<>>
    BY <2>6, <2>8, EmptySeq
  <2>10. ToSet(TextLines(text)) \subseteq lines
    <3>1. SUFFICES ASSUME NEW l \in ToSet(TextLines(text)) PROVE l \in lines
      OBVIOUS
    <3>2. PICK m \in DOMAIN text : l \in ToSet(text[m].lines)
      BY <2>8, TextIs
    <3>3. PICK k \in from..to : text[m] = atoms[k]
      BY <2>8 DEF ToSet
    <3>4. k \in DOMAIN atoms
      BY <1>1, <2>6
    <3> QED
      BY <1>1, <3>2, <3>3, <3>4
  <2> QED
    BY <2>1, <2>7, <2>8, <2>9, <2>10
<1>6. \A k \in DOMAIN atoms : \E n \in 1..Len(texts) : ToSet(atoms[k].lines) \subseteq ToSet(TextLines(texts[n]))
  <2>1. SUFFICES ASSUME NEW k \in DOMAIN atoms
                 PROVE  \E n \in 1..Len(texts) : ToSet(atoms[k].lines) \subseteq ToSet(TextLines(texts[n]))
    OBVIOUS
  <2>2. PICK n \in 1..Len(texts) : k \in cuts[n].from..cuts[n].to
    BY <1>1, <1>2, <1>4, AllCut
  <2>3. atoms[k] \in ToSet(texts[n])
    BY <1>5, <2>2
  <2>4. PICK m \in DOMAIN texts[n] : texts[n][m] = atoms[k]
    BY <2>3 DEF ToSet
  <2>5. \A l \in ToSet(atoms[k].lines) : l \in ToSet(TextLines(texts[n]))
    BY <1>5, <2>4, TextIs
  <2> QED
    BY <2>5
<1>7. texts # <<>> => Len(texts[1]) = 1 \/ WordsIn(doc, texts[1]) <= MaxWords
  <2>1. SUFFICES ASSUME texts # <<>> PROVE Len(texts[1]) = 1 \/ WordsIn(doc, texts[1]) <= MaxWords
    OBVIOUS
  <2>2. 1 \in 1..Len(texts) /\ cuts # <<>>
    BY <1>4, <2>1, EmptySeq
  <2>3. PICK z : z = cuts[1].to
    OBVIOUS
  <2>4. /\ cuts[1].from = 1 /\ cuts[1].past = 0 /\ z \in Nat \ {0} /\ z <= Len(atoms)
        /\ z = 1 \/ WordsIn(doc, SubSeq(atoms, 1, z)) <= MaxWords + WordsIn(doc, SubSeq(atoms, 1, 0))
    <3>1. PICK c : c = cuts[1]
      OBVIOUS
    <3>2. Fits(doc, atoms, c) /\ c.past = 0 /\ c.to = z
      BY <1>4, <2>2, <2>3, <3>1
    <3>3. c.from \in Nat \ {0} /\ c.from <= 1 /\ z \in Nat /\ 0 < z /\ z <= Len(atoms)
      BY <3>2 DEF Fits, CutRow
    <3>4. c.from = 1
      BY <3>3
    <3>5. z = 1 \/ WordsIn(doc, SubSeq(atoms, 1, z)) <= MaxWords + WordsIn(doc, SubSeq(atoms, 1, 0))
      BY <3>2, <3>4 DEF Fits
    <3> QED
      BY <3>1, <3>2, <3>3, <3>4, <3>5
  <2>5. texts[1] = SubSeq(atoms, 1, z)
    BY <1>4, <2>2, <2>3, <2>4
  <2>6. SubSeq(atoms, 1, 0) = <<>> /\ Len(SubSeq(atoms, 1, z)) = z - 1 + 1
    <3>1. 0 \in Nat /\ 1 \in Nat \ {0} /\ 0 <= Len(atoms) /\ 1 <= z + 1
      BY <1>1, <2>4
    <3>2. SubSeq(atoms, 1, 0) = <<>>
      BY <1>1, <3>1, PartIs
    <3>3. Len(SubSeq(atoms, 1, z)) = z - 1 + 1
      BY <1>1, <2>4, <3>1, PartIs
    <3> QED
      BY <3>2, <3>3
  <2>7. WordsIn(doc, <<>>) = 0 /\ MaxWords \in Nat
    <3>1. PICK k : k = 1
      OBVIOUS
    <3>2. atoms[k] \in AtomRow
      BY <1>1, <2>4, <3>1
    <3> QED
      BY <1>1, <3>2, WordsAppend, ChunkAssumption
  <2>8. CASE z = 1
    BY <2>5, <2>6, <2>8
  <2>9. CASE WordsIn(doc, SubSeq(atoms, 1, z)) <= MaxWords + WordsIn(doc, SubSeq(atoms, 1, 0))
    <3>1. WordsIn(doc, texts[1]) <= MaxWords + 0
      BY <2>5, <2>6, <2>7, <2>9
    <3>2. MaxWords + 0 = MaxWords
      BY <2>7
    <3> QED
      BY <3>1, <3>2
  <2> QED
    BY <2>4, <2>8, <2>9
<1>8. \A n \in 2..Len(texts) : GoesOn(doc, texts[n - 1], texts[n])
  <2>1. SUFFICES ASSUME NEW n \in 2..Len(texts) PROVE GoesOn(doc, texts[n - 1], texts[n])
    OBVIOUS
  <2>2. n \in 1..Len(texts) /\ n - 1 \in 1..Len(texts)
    BY <1>4
  <2>3. PICK p, c : p = cuts[n - 1] /\ c = cuts[n]
    OBVIOUS
  <2>4. /\ Fits(doc, atoms, p) /\ Fits(doc, atoms, c) /\ c.past = p.to /\ p.from <= c.from
        /\ texts[n - 1] = SubSeq(atoms, p.from, p.to) /\ texts[n] = SubSeq(atoms, c.from, c.to)
    BY <1>4, <2>2, <2>3
  <2> QED
    BY <1>1, <2>4, ChunkGoesOn
<1>9. \A l \in lines : \E n \in 1..Len(texts) : l \in ToSet(TextLines(texts[n]))
  BY <1>1, <1>6
<1>10. TextsFor(doc, texts, lines)
  BY <1>4, <1>5, <1>7, <1>8, <1>9 DEF TextsFor
<1> QED
  BY <1>3, <1>6, <1>10

-----------------------------------------------------------------------------
(* Sections *)

\* sections, the lines of the boundaries among the first k blocks, the level of a heading
SectionRow == [path : Seq(Nat), body : Seq(BlockRow)]
Boundaries(doc, blocks, k) == {From(blocks[m]) : m \in {j \in 1..k : IsBoundary(doc, blocks[j])}}
Level(doc, l) == Headings[doc[l]]

\* The headings in force after these.
InForce(doc, bs) == {h \in bs : \A x \in bs : h < x => Headings[doc[x]] > Headings[doc[h]]}

\* A level is a number.
LEMMA LevelIs ==
    ASSUME NEW kind \in DOMAIN Headings
    PROVE  Headings[kind] \in {1, 2, 4} /\ Headings[kind] \in Nat
BY DEF Headings

\* The last of some positions, 0 if there is none.
LEMMA TopIs ==
    ASSUME NEW n \in Nat, NEW s \in SUBSET (1..n)
    PROVE  /\ Max({0} \cup s) \in 0..n /\ (Max({0} \cup s) = 0 \/ Max({0} \cup s) \in s)
           /\ \A i \in s : i <= Max({0} \cup s)
<1> DEFINE all == {0} \cup s
<1>1. \E m \in all : \A y \in all : m >= y
  <2>1. CASE s = {}
    BY <2>1
  <2>2. CASE s # {}
    <3>1. Max(s) \in s /\ \A i \in s : i <= Max(s)
      BY <2>2, LastPosition
    <3>2. PICK m : m = Max(s)
      OBVIOUS
    <3>3. \A y \in s : y \in Nat
      OBVIOUS
    <3>4. m \in s /\ \A y \in s : y <= m
      BY <3>1, <3>2, Zenon
    <3>5. m \in s /\ m \in Nat /\ \A y \in s : y \in Nat /\ y <= m
      BY <3>3, <3>4
    <3>6. m \in all /\ \A y \in all : m >= y
      BY <3>5
    <3> QED
      BY <3>6
  <2> QED
    BY <2>1, <2>2
<1>2. Max(all) = CHOOSE m \in all : \A y \in all : m >= y
  BY DEF Max
<1> HIDE DEF all
<1>3. Max(all) \in all /\ \A y \in all : Max(all) >= y
  BY <1>1, <1>2
<1>4. PICK m : m = Max(all)
  OBVIOUS
<1>5. m \in {0} \cup s /\ \A i \in s : i <= m
  BY <1>3, <1>4 DEF all
<1>6. m \in 0..n /\ (m = 0 \/ m \in s)
  BY <1>5
<1> QED
  BY <1>4, <1>5, <1>6 DEF all

\* The stack of headings after the next one: those in force.
NextHeading(doc, bs, path, l) ==
    /\ bs \in SUBSET Nat /\ \A h \in bs : doc[h] \in DOMAIN Headings /\ h < l
    /\ path \in Seq(Nat) /\ InOrder(path) /\ ToSet(path) = InForce(doc, bs)
    /\ l \in Nat /\ doc[l] \in DOMAIN Headings

\* It is in order, and holds just the headings in force.
LEMMA PathIs ==
    ASSUME NEW doc, NEW bs, NEW path, NEW l, NextHeading(doc, bs, path, l)
    PROVE  /\ PathAfter(doc, path, l) \in Seq(Nat) /\ InOrder(PathAfter(doc, path, l))
           /\ ToSet(PathAfter(doc, path, l)) = InForce(doc, bs \cup {l})
<1> DEFINE above == {i \in DOMAIN path : Headings[doc[path[i]]] < Headings[doc[l]]}
           top == Max({0} \cup above)
           kept == SubSeq(path, 1, top)
<1>1. /\ bs \in SUBSET Nat /\ \A h \in bs : doc[h] \in DOMAIN Headings /\ h < l
      /\ path \in Seq(Nat) /\ InOrder(path) /\ ToSet(path) = InForce(doc, bs)
      /\ l \in Nat /\ doc[l] \in DOMAIN Headings
  BY DEF NextHeading
<1>2. PICK n \in Nat : n = Len(path) /\ DOMAIN path = 1..n
  BY <1>1, LenProperties
<1>3. \A h \in bs \cup {l} : Level(doc, h) \in Nat
  BY <1>1, LevelIs DEF Level
<1>4. \A i \in 1..n : path[i] \in InForce(doc, bs) /\ path[i] \in bs
  BY <1>1, <1>2 DEF ToSet, InForce
<1>5. \A i, j \in 1..n : i < j => Level(doc, path[i]) < Level(doc, path[j])
  <2>1. SUFFICES ASSUME NEW i \in 1..n, NEW j \in 1..n, i < j PROVE Level(doc, path[i]) < Level(doc, path[j])
    OBVIOUS
  <2>2. path[i] < path[j]
    BY <1>1, <1>2, <2>1 DEF InOrder
  <2>3. Level(doc, path[j]) > Level(doc, path[i])
    BY <1>4, <2>2 DEF InForce, Level
  <2>4. Level(doc, path[i]) \in Nat /\ Level(doc, path[j]) \in Nat
    BY <1>3, <1>4
  <2> QED
    BY <2>3, <2>4
<1>6. above \in SUBSET (1..n) /\ \A i \in 1..n : i \in above <=> Level(doc, path[i]) < Level(doc, l)
  BY <1>2 DEF Level
<1>7. PathAfter(doc, path, l) = Append(kept, l)
  BY DEF PathAfter
<1> HIDE DEF above
<1>8. top \in 0..n /\ (top = 0 \/ top \in above) /\ \A i \in above : i <= top
  BY <1>6, TopIs
<1> HIDE DEF top
<1>9. \A i \in 1..n : i <= top <=> i \in above
  <2>1. SUFFICES ASSUME NEW i \in 1..n, i <= top PROVE i \in above
    BY <1>8
  <2>2. top \in above /\ top \in 1..n
    BY <1>8, <2>1
  <2>3. CASE i = top
    BY <2>2, <2>3
  <2>4. CASE i < top
    <3>1. Level(doc, path[i]) < Level(doc, path[top]) /\ Level(doc, path[top]) < Level(doc, l)
      BY <1>5, <1>6, <2>2, <2>4
    <3>2. Level(doc, path[i]) \in Nat /\ Level(doc, path[top]) \in Nat /\ Level(doc, l) \in Nat
      BY <1>3, <1>4, <2>2
    <3>3. Level(doc, path[i]) < Level(doc, l)
      BY <3>1, <3>2
    <3> QED
      BY <1>6, <3>3
  <2> QED
    BY <1>8, <2>1, <2>3, <2>4
<1>10. kept \in Seq(Nat) /\ DOMAIN kept = 1..top /\ \A i \in 1..top : kept[i] = path[i]
  <2>1. 1 \in Nat \ {0} /\ top \in Nat /\ top <= Len(path) /\ 1 <= top + 1
    BY <1>2, <1>8
  <2>2. /\ kept \in Seq(Nat) /\ DOMAIN kept = 1..Len(kept) /\ Len(kept) = top - 1 + 1
        /\ \A i \in 1..(top - 1 + 1) : kept[i] = path[1 + i - 1]
    BY <1>1, <2>1, PartIs
  <2>3. top - 1 + 1 = top /\ \A i \in 1..top : 1 + i - 1 = i
    BY <1>8
  <2> QED
    BY <2>2, <2>3
<1> HIDE DEF kept
<1>11. InOrder(kept)
  <2>1. ASSUME NEW i \in 1..top, NEW j \in 1..top, i < j PROVE kept[i] < kept[j]
    <3>1. i \in 1..n /\ j \in 1..n
      BY <1>8
    <3>2. path[i] < path[j]
      BY <1>1, <1>2, <2>1, <3>1 DEF InOrder
    <3> QED
      BY <1>10, <3>2
  <2> QED
    BY <1>10, <2>1 DEF InOrder
<1>12. \A h : h \in ToSet(kept) <=> h \in InForce(doc, bs) /\ Level(doc, h) < Level(doc, l)
  <2>1. ASSUME NEW i \in 1..top PROVE kept[i] \in InForce(doc, bs) /\ Level(doc, kept[i]) < Level(doc, l)
    <3>1. i \in 1..n /\ i \in above
      BY <1>8, <1>9
    <3> QED
      BY <1>4, <1>6, <1>10, <3>1
  <2>2. ASSUME NEW h \in InForce(doc, bs), Level(doc, h) < Level(doc, l) PROVE h \in ToSet(kept)
    <3>1. PICK i \in 1..n : path[i] = h
      BY <1>1, <1>2 DEF ToSet
    <3>2. i \in 1..top
      BY <1>6, <1>8, <1>9, <2>2, <3>1
    <3> QED
      BY <1>10, <3>1, <3>2 DEF ToSet
  <2> QED
    BY <1>10, <2>1, <2>2 DEF ToSet
<1>13. \A h \in ToSet(kept) : h < l
  BY <1>1, <1>12 DEF InForce
<1>14. /\ Append(kept, l) \in Seq(Nat) /\ InOrder(Append(kept, l))
       /\ ToSet(Append(kept, l)) = ToSet(kept) \cup {l}
  BY <1>1, <1>10, <1>11, <1>13, InOrderPut
<1>15. \A h : h \in InForce(doc, bs \cup {l}) <=> h = l \/ (h \in InForce(doc, bs) /\ Level(doc, h) < Level(doc, l))
  <2>1. l \in InForce(doc, bs \cup {l})
    <3>1. ASSUME NEW x \in bs \cup {l}, l < x PROVE FALSE
      <4>1. x \in Nat /\ l \in Nat /\ (x = l \/ x < l)
        BY <1>1
      <4> QED
        BY <3>1, <4>1
    <3> QED
      BY <3>1 DEF InForce
  <2>2. ASSUME NEW h \in bs
        PROVE  h \in InForce(doc, bs \cup {l}) <=> (h \in InForce(doc, bs) /\ Level(doc, h) < Level(doc, l))
    <3>1. h < l /\ Level(doc, h) \in Nat /\ Level(doc, l) \in Nat
      BY <1>1, <1>3
    <3>2. (Level(doc, l) > Level(doc, h)) <=> (Level(doc, h) < Level(doc, l))
      BY <3>1
    <3>3. h \in InForce(doc, bs \cup {l}) <=> \A x \in bs \cup {l} : h < x => Level(doc, x) > Level(doc, h)
      BY DEF InForce, Level
    <3>4. h \in InForce(doc, bs) <=> \A x \in bs : h < x => Level(doc, x) > Level(doc, h)
      BY DEF InForce, Level
    <3>5. (\A x \in bs \cup {l} : h < x => Level(doc, x) > Level(doc, h))
             <=> (\A x \in bs : h < x => Level(doc, x) > Level(doc, h)) /\ Level(doc, l) > Level(doc, h)
      BY <3>1
    <3> QED
      BY <3>2, <3>3, <3>4, <3>5
  <2>3. \A h : h \in InForce(doc, bs \cup {l}) => h \in bs \/ h = l
    BY DEF InForce
  <2>4. \A h : h \in InForce(doc, bs) => h \in bs
    BY DEF InForce
  <2> QED
    BY <2>1, <2>2, <2>3, <2>4
<1>16. ToSet(kept) \cup {l} = InForce(doc, bs \cup {l})
  BY <1>12, <1>15
<1> QED
  BY <1>7, <1>14, <1>16

\* chunk_markdown's loop over the blocks.
SectionNext(doc, acc, block) ==
    IF IsBoundary(doc, block)
    THEN Append(acc, [path |-> PathAfter(doc, Last(acc).path, block.lines[1]), body |-> <<>>])
    ELSE [acc EXCEPT ![Len(acc)].body = Append(@, block)]

\* The stack is made of line numbers.
LEMMA PathTyped ==
    ASSUME NEW doc, NEW path \in Seq(Nat), NEW l \in Nat
    PROVE  PathAfter(doc, path, l) \in Seq(Nat)
<1> DEFINE above == {i \in DOMAIN path : Headings[doc[path[i]]] < Headings[doc[l]]}
           top == Max({0} \cup above)
<1>1. PICK n \in Nat : n = Len(path) /\ DOMAIN path = 1..n
  BY LenProperties
<1>2. PathAfter(doc, path, l) = Append(SubSeq(path, 1, top), l)
  BY DEF PathAfter
<1>3. above \in SUBSET (1..n)
  BY <1>1
<1> HIDE DEF above
<1>4. top \in 0..n
  BY <1>3, TopIs
<1> HIDE DEF top
<1>5. 1 \in Nat \ {0} /\ top \in Nat /\ top <= Len(path)
  BY <1>1, <1>4
<1>6. SubSeq(path, 1, top) \in Seq(Nat)
  BY <1>5, PartIs
<1> QED
  BY <1>2, <1>6, AppendProperties

\* A block put into the last section.
BodyGrown(acc, block, longer) ==
    /\ longer \in Seq(SectionRow) /\ Len(longer) = Len(acc) /\ Len(acc) \in Nat \ {0}
    /\ \A n \in 1..Len(acc) :
          longer[n] = IF n = Len(acc)
                      THEN [path |-> acc[n].path, body |-> Append(acc[n].body, block)]
                      ELSE acc[n]

\* What the EXCEPT of Sections makes is that.
LEMMA BodyGrows ==
    ASSUME NEW acc \in Seq(SectionRow), acc # <<>>, NEW block \in BlockRow
    PROVE  BodyGrown(acc, block, [acc EXCEPT ![Len(acc)].body = Append(@, block)])
<1> DEFINE len == Len(acc)
           row == [path |-> acc[len].path, body |-> Append(acc[len].body, block)]
<1>1. len \in Nat \ {0} /\ acc \in [1..len -> SectionRow] /\ len \in 1..len
  BY LenProperties, EmptySeq
<1>2. acc[len] \in SectionRow /\ acc[len].path \in Seq(Nat) /\ acc[len].body \in Seq(BlockRow)
  BY <1>1 DEF SectionRow
<1>3. row \in SectionRow
  <2>1. Append(acc[len].body, block) \in Seq(BlockRow)
    BY <1>2, AppendProperties
  <2> QED
    BY <1>2, <2>1 DEF SectionRow
<1>4. [acc EXCEPT ![len].body = Append(@, block)] = [acc EXCEPT ![len] = row]
  <2>1. \A r \in SectionRow : [r EXCEPT !.body = Append(@, block)] = [path |-> r.path, body |-> Append(r.body, block)]
    <3>1. \A r \in SectionRow : \A x : [r EXCEPT !.body = x] = [path |-> r.path, body |-> x]
      <4>1. \A r \in SectionRow : r = [path |-> r.path, body |-> r.body]
        BY DEF SectionRow
      <4>2. \A p, c, x : [[path |-> p, body |-> c] EXCEPT !.body = x] = [path |-> p, body |-> x]
        OBVIOUS
      <4> QED
        BY <4>1, <4>2, Zenon
    <3> QED
      BY <3>1, Zenon
  <2>2. [acc[len] EXCEPT !.body = Append(@, block)] = row
    BY <1>2, <2>1
  <2>3. [acc EXCEPT ![len].body = Append(@, block)] = [acc EXCEPT ![len] = [acc[len] EXCEPT !.body = Append(@, block)]]
    OBVIOUS
  <2> QED
    BY <2>2, <2>3, Zenon
<1> HIDE DEF row
<1>5. /\ [acc EXCEPT ![len] = row] \in Seq(SectionRow)
      /\ Len([acc EXCEPT ![len] = row]) = len
      /\ \A j \in 1..len : [acc EXCEPT ![len] = row][j] = IF j = len THEN row ELSE acc[j]
  BY <1>1, <1>3, ExceptSeq
<1>6. [acc EXCEPT ![Len(acc)].body = Append(@, block)] = [acc EXCEPT ![len] = row]
  BY <1>4
<1>7. BodyGrown(acc, block, [acc EXCEPT ![len] = row])
  BY <1>1, <1>5 DEF row, BodyGrown
<1> QED
  BY <1>6, <1>7, Zenon

\* sections begun, and the one there is to begin with
Stacks == Seq(SectionRow) \ {<<>>}
Start == <<[path |-> <<>>, body |-> <<>>]>>

\* A section that begins.
LEMMA SectionPut ==
    ASSUME NEW acc \in Seq(SectionRow), NEW s \in SectionRow
    PROVE  /\ Append(acc, s) \in Seq(SectionRow) /\ Append(acc, s) # <<>> /\ Len(Append(acc, s)) = Len(acc) + 1
           /\ Len(acc) \in Nat /\ Append(acc, s)[Len(acc) + 1] = s
           /\ \A n \in 1..Len(acc) : Append(acc, s)[n] = acc[n]
<1>1. /\ Append(acc, s) \in Seq(SectionRow) /\ Len(Append(acc, s)) = Len(acc) + 1 /\ Len(acc) \in Nat
      /\ Append(acc, s)[Len(acc) + 1] = s /\ \A n \in 1..Len(acc) : Append(acc, s)[n] = acc[n]
  BY AppendProperties, LenProperties
<1>2. Append(acc, s) # <<>>
  BY <1>1, EmptySeq
<1> QED
  BY <1>1, <1>2

\* Sections stay sections, one at least.
LEMMA SectionTyped ==
    ASSUME NEW doc \in Seq(LineKinds), NEW acc \in Stacks, NEW block, IsBlock(doc, block)
    PROVE  SectionNext(doc, acc, block) \in Stacks
<1>1. acc \in Seq(SectionRow) /\ acc # <<>> /\ Len(acc) \in 1..Len(acc) /\ Last(acc) = acc[Len(acc)]
  BY LenProperties, EmptySeq DEF Stacks, Last
<1>2. Last(acc).path \in Seq(Nat)
  <2>1. acc[Len(acc)] \in SectionRow
    BY <1>1
  <2> QED
    BY <1>1, <2>1 DEF SectionRow
<1>3. block \in BlockRow /\ From(block) \in Nat
  BY BlockSpan DEF IsBlock
<1>4. [path |-> PathAfter(doc, Last(acc).path, block.lines[1]), body |-> <<>>] \in SectionRow
  BY <1>2, <1>3, PathTyped, EmptySeq DEF SectionRow, From
<1>5. Append(acc, [path |-> PathAfter(doc, Last(acc).path, block.lines[1]), body |-> <<>>]) \in Stacks
  BY <1>1, <1>4, SectionPut DEF Stacks
<1>6. [acc EXCEPT ![Len(acc)].body = Append(@, block)] \in Stacks
  <2>1. /\ [acc EXCEPT ![Len(acc)].body = Append(@, block)] \in Seq(SectionRow)
        /\ Len([acc EXCEPT ![Len(acc)].body = Append(@, block)]) = Len(acc) /\ Len(acc) \in Nat \ {0}
    BY <1>1, <1>3, BodyGrows DEF BodyGrown
  <2>2. [acc EXCEPT ![Len(acc)].body = Append(@, block)] # <<>>
    BY <2>1, EmptySeq
  <2> QED
    BY <2>1, <2>2 DEF Stacks
<1> QED
  BY <1>5, <1>6 DEF SectionNext

\* There is one section to begin with.
LEMMA StartTyped == Start \in Stacks /\ Start \in Seq(SectionRow) /\ Len(Start) = 1 /\ Start[1] = [path |-> <<>>, body |-> <<>>]
<1>1. [path |-> <<>>, body |-> <<>>] \in SectionRow
  BY EmptySeq DEF SectionRow
<1>2. PICK s \in SectionRow : s = [path |-> <<>>, body |-> <<>>]
  BY <1>1
<1>3. <<s>> \in Seq(SectionRow) /\ Len(<<s>>) = 1 /\ <<s>>[1] = s /\ <<s>> # <<>>
  OBVIOUS
<1> QED
  BY <1>2, <1>3 DEF Start, Stacks

\* The sections are a walk over the blocks.
LEMMA SectionWalk ==
    ASSUME NEW doc \in Seq(LineKinds), NEW blocks, blocks = ParseBlocks(doc), Sorted(doc, blocks)
    PROVE  \E v \in [0..Len(blocks) -> Stacks] :
              /\ v[0] = Start /\ \A k \in 1..Len(blocks) : v[k] = SectionNext(doc, v[k - 1], blocks[k])
              /\ Sections(doc) = v[Len(blocks)]
<1> DEFINE n == Len(blocks)
           o == [p \in Stacks \X (1..n) |-> SectionNext(doc, p[1], blocks[p[2]])]
           Solves(g) == g = [s \in SUBSET DOMAIN blocks |-> IF s = {} THEN Start
                               ELSE SectionNext(doc, g[s \ {Max(s)}], blocks[Max(s)])]
           chosen == CHOOSE g : Solves(g)
<1>1. n \in Nat /\ DOMAIN blocks = 1..n
  BY LenProperties DEF Sorted
<1>2. \A q \in Stacks, i \in 1..n : SectionNext(doc, q, blocks[i]) \in Stacks
  <2>1. \A i \in 1..n : IsBlock(doc, blocks[i])
    BY <1>1 DEF Sorted
  <2> QED
    BY <2>1, SectionTyped
<1>3. Start \in Stacks
  BY StartTyped
<1> HIDE DEF n
<1>4. o \in [Stacks \X (1..n) -> Stacks]
  BY <1>2
<1>5. PICK g \in [SUBSET (1..n) -> Stacks] : FoldFun(o, Start, n, g)
  BY <1>1, <1>3, <1>4, FoldExists
<1>6. Solves(g)
  <2>1. \A s \in SUBSET (1..n) :
           g[s] = IF s = {} THEN Start ELSE SectionNext(doc, g[s \ {Max(s)}], blocks[Max(s)])
    <3>1. SUFFICES ASSUME NEW s \in SUBSET (1..n), s # {}
                   PROVE  g[s] = SectionNext(doc, g[s \ {Max(s)}], blocks[Max(s)])
      BY <1>5 DEF FoldFun
    <3> HIDE DEF o
    <3>2. Max(s) \in 1..n /\ s \ {Max(s)} \in SUBSET (1..n)
      BY <1>1, <1>5, <3>1, FoldFunAt
    <3>3. g[s] = o[<<g[s \ {Max(s)}], Max(s)>>]
      BY <1>5, <3>1, Zenon DEF FoldFun
    <3> USE DEF o
    <3>4. <<g[s \ {Max(s)}], Max(s)>> \in Stacks \X (1..n)
      BY <1>5, <3>2
    <3> QED
      BY <3>3, <3>4
  <2> QED
    BY <1>1, <2>1
<1>7. Solves(chosen)
  BY <1>6, Zenon
<1>8. Sections(doc) = chosen[DOMAIN blocks]
  BY blocks = ParseBlocks(doc), ZenonT(40) DEF Sections, FoldLeft, MapThenFoldSet, SectionNext, Start
<1>9. chosen[{}] = Start
  BY <1>1, <1>7
<1>10. \A k \in 1..n : chosen[1..(k - 1)] \in Stacks => chosen[1..k] = o[<<chosen[1..(k - 1)], k>>]
  <2> HIDE DEF chosen
  <2>1. SUFFICES ASSUME NEW k \in 1..n, chosen[1..(k - 1)] \in Stacks
                 PROVE  chosen[1..k] = o[<<chosen[1..(k - 1)], k>>]
    OBVIOUS
  <2>2. k \in Nat /\ k # 0 /\ 1..k \in SUBSET (1..n)
    BY <1>1
  <2>3. Max(1..k) = k /\ (1..k) \ {k} = 1..(k - 1) /\ 1..k # {} /\ 1..k \in SUBSET (1..n)
    BY <2>2, LastOfFirst
  <2>4. chosen[1..k] = SectionNext(doc, chosen[(1..k) \ {Max(1..k)}], blocks[Max(1..k)])
    BY <1>1, <1>7, <2>3
  <2>5. chosen[1..k] = SectionNext(doc, chosen[1..(k - 1)], blocks[k])
    BY <2>3, <2>4, Zenon
  <2>6. <<chosen[1..(k - 1)], k>> \in Stacks \X (1..n)
    BY <2>1
  <2> QED
    BY <2>5, <2>6
<1>11. \A p \in Stacks, k \in 1..n : o[<<p, k>>] = SectionNext(doc, p, blocks[k])
  OBVIOUS
<1> HIDE DEF chosen, o
<1>12. FoldSteps(n, Stacks, Start, o, chosen)
  BY <1>1, <1>3, <1>4, <1>9, <1>10 DEF FoldSteps
<1>13. PICK v \in [0..n -> Stacks] : FoldTrace(n, Stacks, Start, o, v) /\ v[n] = chosen[1..n]
  BY <1>12, FoldWalk
<1>14. v[0] = Start /\ \A k \in 1..Len(blocks) : v[k] = SectionNext(doc, v[k - 1], blocks[k])
  <2>1. v[0] = Start /\ \A k \in 1..n : v[k] = o[<<v[k - 1], k>>]
    BY <1>13 DEF FoldTrace
  <2>2. ASSUME NEW k \in 1..n PROVE v[k] = SectionNext(doc, v[k - 1], blocks[k])
    <3>1. k - 1 \in 0..n
      BY <1>1
    <3>2. PICK q \in Stacks : q = v[k - 1]
      BY <1>13, <3>1
    <3>3. v[k] = o[<<q, k>>]
      BY <2>1, <3>2
    <3>4. v[k] = SectionNext(doc, q, blocks[k])
      BY <1>11, <3>3
    <3> QED
      BY <3>2, <3>4
  <2> QED
    BY <2>1, <2>2 DEF n
<1>15. Sections(doc) = v[n]
  BY <1>1, <1>8, <1>13
<1> QED
  BY <1>14, <1>15 DEF n

\* A section of the first k blocks: its body in order, each line under its headings.
SectionOf(doc, blocks, k, s) ==
    /\ s \in SectionRow /\ InOrder(s.path) /\ Sorted(doc, s.body)
    /\ \A i \in DOMAIN s.body : \E m \in 1..k : s.body[i] = blocks[m] /\ ~IsBoundary(doc, blocks[m])
    /\ \A l \in BodyLines(s.body) : ToSet(s.path) = Enclosing(doc, Boundaries(doc, blocks, k), l)

\* The sections the first k blocks have become: none is lost, and the path is the headings in force.
SectionsTo(doc, blocks, k, acc) ==
    /\ acc \in Stacks
    /\ \A n \in 1..Len(acc) : SectionOf(doc, blocks, k, acc[n])
    /\ \A m, n \in 1..Len(acc) : m < n => \A x \in BodyLines(acc[m].body), y \in BodyLines(acc[n].body) : x < y
    /\ \A m \in 1..k : ~IsBoundary(doc, blocks[m]) =>
          \E n \in 1..Len(acc) : \E i \in DOMAIN acc[n].body : acc[n].body[i] = blocks[m]
    /\ ToSet(acc[Len(acc)].path) = InForce(doc, Boundaries(doc, blocks, k))

\* The blocks before are above the next one, and so are their boundaries.
LEMMA BlocksAbove ==
    ASSUME NEW doc \in Seq(LineKinds), NEW blocks, Sorted(doc, blocks), NEW k \in 1..Len(blocks)
    PROVE  /\ Len(blocks) \in Nat /\ IsBlock(doc, blocks[k]) /\ From(blocks[k]) \in Nat
           /\ \A m \in 1..(k - 1) : \A x \in ToSet(blocks[m].lines) : x \in Nat /\ x < From(blocks[k])
           /\ \A h \in Boundaries(doc, blocks, k - 1) : h \in Nat /\ h < From(blocks[k]) /\ doc[h] \in DOMAIN Headings
           /\ Boundaries(doc, blocks, k) =
                 IF IsBoundary(doc, blocks[k]) THEN Boundaries(doc, blocks, k - 1) \cup {From(blocks[k])}
                 ELSE Boundaries(doc, blocks, k - 1)
           /\ IsBoundary(doc, blocks[k]) => doc[From(blocks[k])] \in DOMAIN Headings
<1>1. /\ Len(blocks) \in Nat /\ DOMAIN blocks = 1..Len(blocks)
      /\ \A n \in 1..Len(blocks) : IsBlock(doc, blocks[n])
      /\ \A m, n \in 1..Len(blocks) : m < n => To(blocks[m]) < From(blocks[n])
  BY LenProperties DEF Sorted
<1>2. \A n \in 1..Len(blocks) :
         /\ From(blocks[n]) \in Nat \ {0} /\ To(blocks[n]) \in Nat /\ From(blocks[n]) <= To(blocks[n])
         /\ ToSet(blocks[n].lines) = From(blocks[n])..To(blocks[n])
  BY <1>1, BlockSpan
<1>3. \A m \in 1..(k - 1) : m \in 1..Len(blocks) /\ m < k
  BY <1>1
<1>4. \A m \in 1..(k - 1) : \A x \in ToSet(blocks[m].lines) : x \in Nat /\ x < From(blocks[k])
  <2>1. SUFFICES ASSUME NEW m \in 1..(k - 1), NEW x \in ToSet(blocks[m].lines)
                 PROVE  x \in Nat /\ x < From(blocks[k])
    OBVIOUS
  <2>2. PICK a, b, c : a = From(blocks[m]) /\ b = To(blocks[m]) /\ c = From(blocks[k])
    OBVIOUS
  <2>3. a \in Nat /\ b \in Nat /\ c \in Nat /\ x \in a..b /\ b < c
    BY <1>1, <1>2, <1>3, <2>2
  <2> QED
    BY <2>2, <2>3
<1>5. \A n \in 1..Len(blocks) : IsBoundary(doc, blocks[n]) => doc[From(blocks[n])] \in DOMAIN Headings
  BY <1>1 DEF IsBoundary, IsBlock
<1>6. \A h \in Boundaries(doc, blocks, k - 1) : h \in Nat /\ h < From(blocks[k]) /\ doc[h] \in DOMAIN Headings
  <2>1. SUFFICES ASSUME NEW m \in 1..(k - 1), IsBoundary(doc, blocks[m])
                 PROVE  From(blocks[m]) \in Nat /\ From(blocks[m]) < From(blocks[k]) /\ doc[From(blocks[m])] \in DOMAIN Headings
    BY DEF Boundaries
  <2>2. From(blocks[m]) \in ToSet(blocks[m].lines)
    BY <1>2, <1>3
  <2> QED
    BY <1>3, <1>4, <1>5, <2>1, <2>2
<1>7. Boundaries(doc, blocks, k) =
         IF IsBoundary(doc, blocks[k]) THEN Boundaries(doc, blocks, k - 1) \cup {From(blocks[k])}
         ELSE Boundaries(doc, blocks, k - 1)
  <2>1. \A j : j \in 1..k <=> j \in 1..(k - 1) \/ j = k
    OBVIOUS
  <2>2. \A h : h \in Boundaries(doc, blocks, k) <=> \E j \in 1..k : IsBoundary(doc, blocks[j]) /\ h = From(blocks[j])
    BY DEF Boundaries
  <2>3. \A h : h \in Boundaries(doc, blocks, k - 1) <=> \E j \in 1..(k - 1) : IsBoundary(doc, blocks[j]) /\ h = From(blocks[j])
    BY DEF Boundaries
  <2>4. \A h : h \in Boundaries(doc, blocks, k) <=>
           h \in Boundaries(doc, blocks, k - 1) \/ (IsBoundary(doc, blocks[k]) /\ h = From(blocks[k]))
    BY <2>1, <2>2, <2>3
  <2> QED
    BY <2>4
<1> QED
  BY <1>1, <1>2, <1>4, <1>5, <1>6, <1>7

\* The lines of a body that takes a block.
LEMMA BodyPut ==
    ASSUME NEW doc \in Seq(LineKinds), NEW body, Sorted(doc, body), NEW b, IsBlock(doc, b),
           \A x \in BodyLines(body) : x < From(b)
    PROVE  /\ Sorted(doc, Append(body, b)) /\ BodyLines(Append(body, b)) = BodyLines(body) \cup ToSet(b.lines)
           /\ DOMAIN Append(body, b) = 1..(Len(body) + 1) /\ Len(body) \in Nat /\ DOMAIN body = 1..Len(body)
           /\ Append(body, b)[Len(body) + 1] = b
           /\ \A n \in 1..Len(body) : Append(body, b)[n] = body[n]
<1> DEFINE more == Append(body, b)
<1>1. PICK len \in Nat : len = Len(body) /\ DOMAIN body = 1..len
  BY LenProperties DEF Sorted
<1>2. /\ body \in Seq(BlockRow) /\ \A n \in 1..len : IsBlock(doc, body[n])
      /\ \A m, n \in 1..len : m < n => To(body[m]) < From(body[n])
  BY <1>1 DEF Sorted
<1>3. b \in BlockRow
  BY DEF IsBlock
<1>4. more \in Seq(BlockRow) /\ Len(more) = len + 1 /\ (\A n \in 1..len : more[n] = body[n]) /\ more[len + 1] = b
  BY <1>1, <1>2, <1>3, AppendProperties
<1>5. DOMAIN more = 1..(len + 1)
  BY <1>4, LenProperties
<1> HIDE DEF more
<1>6. \A n : n \in 1..(len + 1) <=> n \in 1..len \/ n = len + 1
  BY <1>1
<1>7. \A m \in 1..len : To(body[m]) < From(b)
  <2>1. SUFFICES ASSUME NEW m \in 1..len PROVE To(body[m]) < From(b)
    OBVIOUS
  <2>2. To(body[m]) \in ToSet(body[m].lines)
    BY <1>2, BlockSpan
  <2>3. To(body[m]) \in BodyLines(body)
    BY <1>1, <2>2 DEF BodyLines
  <2> QED
    BY <2>3
<1>8. \A m, n \in 1..(len + 1) : m < n => To(more[m]) < From(more[n])
  <2>1. SUFFICES ASSUME NEW m \in 1..(len + 1), NEW n \in 1..(len + 1), m < n PROVE To(more[m]) < From(more[n])
    OBVIOUS
  <2>2. m \in 1..len /\ more[m] = body[m]
    BY <1>4, <2>1
  <2>3. CASE n \in 1..len
    BY <1>2, <1>4, <2>1, <2>2, <2>3
  <2>4. CASE n = len + 1
    BY <1>4, <1>7, <2>2, <2>4
  <2> QED
    BY <1>6, <2>3, <2>4
<1>9. \A n \in 1..(len + 1) : IsBlock(doc, more[n])
  BY <1>2, <1>4, <1>6
<1>10. Sorted(doc, more)
  BY <1>4, <1>5, <1>8, <1>9 DEF Sorted
<1>11. \A x : x \in BodyLines(more) <=> x \in BodyLines(body) \/ x \in ToSet(b.lines)
  <2>1. \A x : x \in BodyLines(more) <=> \E n \in 1..(len + 1) : x \in ToSet(more[n].lines)
    BY <1>5 DEF BodyLines
  <2>2. \A x : x \in BodyLines(body) <=> \E n \in 1..len : x \in ToSet(body[n].lines)
    BY <1>1 DEF BodyLines
  <2> QED
    BY <1>4, <1>6, <2>1, <2>2
<1>12. BodyLines(more) = BodyLines(body) \cup ToSet(b.lines)
  BY <1>11
<1> QED
  BY <1>1, <1>4, <1>5, <1>10, <1>12 DEF more

\* What is in a section is above the next block, and keeps its headings when one more is known.
LEMMA SectionKeeps ==
    ASSUME NEW doc \in Seq(LineKinds), NEW blocks, Sorted(doc, blocks), NEW k \in 1..Len(blocks),
           NEW s, SectionOf(doc, blocks, k - 1, s)
    PROVE  /\ \A x \in BodyLines(s.body) : x \in Nat /\ x < From(blocks[k])
           /\ SectionOf(doc, blocks, k, s)
<1>1. /\ Len(blocks) \in Nat /\ From(blocks[k]) \in Nat
      /\ \A m \in 1..(k - 1) : \A x \in ToSet(blocks[m].lines) : x \in Nat /\ x < From(blocks[k])
      /\ \A h \in Boundaries(doc, blocks, k - 1) : h \in Nat /\ h < From(blocks[k])
      /\ Boundaries(doc, blocks, k) =
            IF IsBoundary(doc, blocks[k]) THEN Boundaries(doc, blocks, k - 1) \cup {From(blocks[k])}
            ELSE Boundaries(doc, blocks, k - 1)
  BY BlocksAbove
<1>2. /\ \A i \in DOMAIN s.body : \E m \in 1..(k - 1) : s.body[i] = blocks[m] /\ ~IsBoundary(doc, blocks[m])
      /\ \A l \in BodyLines(s.body) : ToSet(s.path) = Enclosing(doc, Boundaries(doc, blocks, k - 1), l)
      /\ s \in SectionRow /\ InOrder(s.path) /\ Sorted(doc, s.body)
  BY DEF SectionOf
<1>3. \A x \in BodyLines(s.body) : x \in Nat /\ x < From(blocks[k])
  BY <1>1, <1>2 DEF BodyLines
<1>4. \A i \in DOMAIN s.body : \E m \in 1..k : s.body[i] = blocks[m] /\ ~IsBoundary(doc, blocks[m])
  <2>1. \A m \in 1..(k - 1) : m \in 1..k
    OBVIOUS
  <2> QED
    BY <1>2, <2>1
<1>5. \A l \in BodyLines(s.body) : Enclosing(doc, Boundaries(doc, blocks, k), l) = Enclosing(doc, Boundaries(doc, blocks, k - 1), l)
  <2>1. SUFFICES ASSUME NEW l \in BodyLines(s.body), IsBoundary(doc, blocks[k])
                 PROVE  Enclosing(doc, Boundaries(doc, blocks, k), l) = Enclosing(doc, Boundaries(doc, blocks, k - 1), l)
    BY <1>1
  <2>2. PICK bs, b : bs = Boundaries(doc, blocks, k - 1) /\ b = From(blocks[k])
    OBVIOUS
  <2>3. Boundaries(doc, blocks, k) = bs \cup {b} /\ l \in Nat /\ b \in Nat /\ l < b
    BY <1>1, <1>3, <2>1, <2>2
  <2>4. ~(b < l)
    BY <2>3
  <2>5. Enclosing(doc, bs \cup {b}, l) = Enclosing(doc, bs, l)
    BY <2>4 DEF Enclosing
  <2> QED
    BY <2>2, <2>3, <2>5
<1> QED
  BY <1>2, <1>3, <1>4, <1>5 DEF SectionOf

\* The next block.
LEMMA SectionStep ==
    ASSUME NEW doc \in Seq(LineKinds), NEW blocks, Sorted(doc, blocks), NEW k \in 1..Len(blocks),
           NEW acc, SectionsTo(doc, blocks, k - 1, acc)
    PROVE  SectionsTo(doc, blocks, k, SectionNext(doc, acc, blocks[k]))
<1>1. PICK b, bs : b = blocks[k] /\ bs = Boundaries(doc, blocks, k - 1)
  OBVIOUS
<1>2. /\ Len(blocks) \in Nat /\ IsBlock(doc, b) /\ From(b) \in Nat
      /\ \A h \in bs : h \in Nat /\ h < From(b) /\ doc[h] \in DOMAIN Headings
      /\ Boundaries(doc, blocks, k) = (IF IsBoundary(doc, b) THEN bs \cup {From(b)} ELSE bs)
      /\ IsBoundary(doc, b) => doc[From(b)] \in DOMAIN Headings
  BY <1>1, BlocksAbove
<1>3. PICK len : len = Len(acc)
  OBVIOUS
<1>4. /\ acc \in Stacks /\ acc \in Seq(SectionRow) /\ acc # <<>> /\ len \in Nat \ {0} /\ len \in 1..len
      /\ \A n \in 1..len : SectionOf(doc, blocks, k - 1, acc[n])
      /\ \A m, n \in 1..len : m < n => \A x \in BodyLines(acc[m].body), y \in BodyLines(acc[n].body) : x < y
      /\ \A m \in 1..(k - 1) : ~IsBoundary(doc, blocks[m]) =>
            \E n \in 1..len : \E i \in DOMAIN acc[n].body : acc[n].body[i] = blocks[m]
      /\ ToSet(acc[len].path) = InForce(doc, bs)
  BY <1>1, <1>3, LenProperties, EmptySeq DEF SectionsTo, Stacks
<1>5. \A n \in 1..len : /\ \A x \in BodyLines(acc[n].body) : x \in Nat /\ x < From(b)
                        /\ SectionOf(doc, blocks, k, acc[n])
  BY <1>1, <1>4, SectionKeeps
<1>6. PICK path \in Seq(Nat) : path = acc[len].path /\ InOrder(path) /\ path = Last(acc).path
  <2>1. acc[len] \in SectionRow /\ InOrder(acc[len].path) /\ Last(acc) = acc[len]
    BY <1>3, <1>4 DEF SectionOf, Last
  <2> QED
    BY <2>1 DEF SectionRow
<1>7. PICK new \in Stacks : new = SectionNext(doc, acc, b)
  BY <1>2, <1>4, SectionTyped
<1>8. CASE IsBoundary(doc, b)
  <2>1. PICK p : p = PathAfter(doc, path, From(b))
    OBVIOUS
  <2>2. p \in Seq(Nat) /\ InOrder(p) /\ ToSet(p) = InForce(doc, bs \cup {From(b)})
    <3>1. PICK l : l = From(b)
      OBVIOUS
    <3>2. NextHeading(doc, bs, path, l)
      BY <1>2, <1>4, <1>6, <1>8, <3>1 DEF NextHeading
    <3>3. /\ PathAfter(doc, path, l) \in Seq(Nat) /\ InOrder(PathAfter(doc, path, l))
          /\ ToSet(PathAfter(doc, path, l)) = InForce(doc, bs \cup {l})
      BY <3>2, PathIs
    <3> QED
      BY <2>1, <3>1, <3>3
  <2>3. PICK s \in SectionRow : s = [path |-> p, body |-> <<>>] /\ s.path = p /\ s.body = <<>>
    <3>1. [path |-> p, body |-> <<>>] \in SectionRow
      BY <2>2, EmptySeq DEF SectionRow
    <3> QED
      BY <3>1
  <2>4. new = Append(acc, s)
    BY <1>6, <1>7, <1>8, <2>1, <2>3 DEF SectionNext, From
  <2>5. Len(new) = len + 1 /\ new[len + 1] = s /\ \A n \in 1..len : new[n] = acc[n]
    BY <1>3, <1>4, <2>4, SectionPut
  <2>6. \A n : n \in 1..(len + 1) <=> n \in 1..len \/ n = len + 1
    BY <1>4
  <2>7. BodyLines(s.body) = {} /\ DOMAIN s.body = {}
    BY <2>3 DEF BodyLines
  <2>8. SectionOf(doc, blocks, k, s)
    <3>1. Sorted(doc, s.body)
      BY <2>3, <2>7, EmptySeq DEF Sorted
    <3> QED
      BY <2>2, <2>3, <2>7, <3>1 DEF SectionOf
  <2>9. \A n \in 1..(len + 1) : SectionOf(doc, blocks, k, new[n])
    BY <1>5, <2>5, <2>6, <2>8
  <2>10. \A m, n \in 1..(len + 1) : m < n => \A x \in BodyLines(new[m].body), y \in BodyLines(new[n].body) : x < y
    <3>1. SUFFICES ASSUME NEW m \in 1..(len + 1), NEW n \in 1..(len + 1), m < n,
                          NEW x \in BodyLines(new[m].body), NEW y \in BodyLines(new[n].body)
                   PROVE  x < y
      OBVIOUS
    <3>2. n \in 1..len
      BY <2>5, <2>6, <2>7
    <3>3. m \in 1..len
      BY <1>4, <3>1, <3>2
    <3> QED
      BY <1>4, <2>5, <3>1, <3>2, <3>3
  <2>11. \A m \in 1..k : ~IsBoundary(doc, blocks[m]) =>
            \E n \in 1..(len + 1) : \E i \in DOMAIN new[n].body : new[n].body[i] = blocks[m]
    <3>1. SUFFICES ASSUME NEW m \in 1..k, ~IsBoundary(doc, blocks[m])
                   PROVE  \E n \in 1..(len + 1) : \E i \in DOMAIN new[n].body : new[n].body[i] = blocks[m]
      OBVIOUS
    <3>2. m # k
      BY <1>1, <1>8, <3>1
    <3>3. m \in 1..(k - 1)
      BY <3>2
    <3>4. PICK n \in 1..len : \E i \in DOMAIN acc[n].body : acc[n].body[i] = blocks[m]
      BY <1>4, <3>1, <3>3
    <3> QED
      BY <2>5, <2>6, <3>4
  <2>12. ToSet(new[len + 1].path) = InForce(doc, Boundaries(doc, blocks, k))
    BY <1>2, <1>8, <2>2, <2>3, <2>5
  <2>13. SectionsTo(doc, blocks, k, new)
    <3>1. PICK size : size = len + 1 /\ size = Len(new)
      BY <2>5
    <3> QED
      BY <2>9, <2>10, <2>11, <2>12, <3>1 DEF SectionsTo
  <2> QED
    BY <1>1, <1>7, <2>13
<1>9. CASE ~IsBoundary(doc, b)
  <2>1. b \in BlockRow
    BY <1>2 DEF IsBlock
  <2>2. PICK old : old = acc[len]
    OBVIOUS
  <2>3. PICK s : s = [path |-> path, body |-> Append(old.body, b)]
    OBVIOUS
  <2>4. s = [path |-> path, body |-> Append(old.body, b)] /\ s.path = path /\ s.body = Append(old.body, b)
    BY <2>3
  <2>5. Len(new) = len /\ new[len] = s /\ \A n \in 1..len : n # len => new[n] = acc[n]
    <3>1. new = [acc EXCEPT ![Len(acc)].body = Append(@, b)]
      BY <1>7, <1>9 DEF SectionNext
    <3>2. BodyGrown(acc, b, [acc EXCEPT ![Len(acc)].body = Append(@, b)])
      BY <1>4, <2>1, BodyGrows
    <3>3. BodyGrown(acc, b, new)
      BY <3>1, <3>2, Zenon
    <3> QED
      BY <1>3, <1>4, <1>6, <2>2, <2>4, <3>3 DEF BodyGrown
  <2>6. /\ old \in SectionRow /\ Sorted(doc, old.body) /\ SectionOf(doc, blocks, k, old)
        /\ \A x \in BodyLines(old.body) : x \in Nat /\ x < From(b)
    BY <1>4, <1>5, <2>2 DEF SectionOf
  <2>7. PICK body : body = old.body
    OBVIOUS
  <2>8. /\ Sorted(doc, Append(body, b)) /\ BodyLines(Append(body, b)) = BodyLines(body) \cup ToSet(b.lines)
        /\ DOMAIN Append(body, b) = 1..(Len(body) + 1) /\ Len(body) \in Nat /\ DOMAIN body = 1..Len(body)
        /\ Append(body, b)[Len(body) + 1] = b
        /\ \A n \in 1..Len(body) : Append(body, b)[n] = body[n]
    BY <1>2, <2>6, <2>7, BodyPut
  <2>9. Boundaries(doc, blocks, k) = bs
    BY <1>2, <1>9
  <2>10. s \in SectionRow
    <3>1. Append(body, b) \in Seq(BlockRow)
      BY <2>8 DEF Sorted
    <3> QED
      BY <2>4, <2>7, <3>1 DEF SectionRow
  <2>11. \A i \in DOMAIN s.body : \E m \in 1..k : s.body[i] = blocks[m] /\ ~IsBoundary(doc, blocks[m])
    <3>1. PICK size \in Nat : size = Len(body)
      BY <2>8
    <3>2. SUFFICES ASSUME NEW i \in 1..(size + 1)
                   PROVE  \E m \in 1..k : Append(body, b)[i] = blocks[m] /\ ~IsBoundary(doc, blocks[m])
      BY <2>4, <2>7, <2>8, <3>1
    <3>3. CASE i \in 1..size
      <4>1. i \in DOMAIN old.body /\ Append(body, b)[i] = old.body[i]
        BY <2>7, <2>8, <3>1, <3>3
      <4>2. \E m \in 1..k : old.body[i] = blocks[m] /\ ~IsBoundary(doc, blocks[m])
        BY <2>6, <4>1 DEF SectionOf
      <4> QED
        BY <4>1, <4>2
    <3>4. CASE i = size + 1
      <4>1. k \in 1..k
        OBVIOUS
      <4> QED
        BY <1>1, <1>9, <2>8, <3>1, <3>4, <4>1
    <3>5. i \in 1..size \/ i = size + 1
      BY <3>1, <3>2
    <3> QED
      BY <3>3, <3>4, <3>5
  <2>12. \A l \in BodyLines(s.body) : ToSet(s.path) = Enclosing(doc, Boundaries(doc, blocks, k), l)
    <3>1. SUFFICES ASSUME NEW l \in BodyLines(body) \cup ToSet(b.lines)
                   PROVE  ToSet(path) = Enclosing(doc, bs, l)
      BY <2>4, <2>7, <2>8, <2>9
    <3>2. CASE l \in BodyLines(body)
      BY <1>6, <2>2, <2>6, <2>7, <2>9, <3>2 DEF SectionOf
    <3>3. CASE l \in ToSet(b.lines)
      <4>1. l \in Nat /\ From(b) <= l
        BY <1>2, <3>3, BlockSpan
      <4>2. \A h \in bs : h < l
        BY <1>2, <4>1
      <4>3. Enclosing(doc, bs, l) = InForce(doc, bs)
        BY <4>2 DEF Enclosing, InForce
      <4> QED
        BY <1>4, <1>6, <4>3
    <3> QED
      BY <3>1, <3>2, <3>3
  <2>13. SectionOf(doc, blocks, k, s)
    BY <1>6, <2>4, <2>7, <2>8, <2>10, <2>11, <2>12 DEF SectionOf
  <2>14. \A n \in 1..len : SectionOf(doc, blocks, k, new[n])
    BY <1>5, <2>5, <2>13
  <2>15. \A n \in 1..len : \A x \in BodyLines(new[n].body) :
            x \in BodyLines(acc[n].body) \/ (n = len /\ x \in ToSet(b.lines))
    <3>1. BodyLines(new[len].body) = BodyLines(acc[len].body) \cup ToSet(b.lines)
      BY <2>2, <2>4, <2>5, <2>7, <2>8
    <3> QED
      BY <2>5, <3>1
  <2>16. \A m, n \in 1..len : m < n => \A x \in BodyLines(new[m].body), y \in BodyLines(new[n].body) : x < y
    <3>1. SUFFICES ASSUME NEW m \in 1..len, NEW n \in 1..len, m < n,
                          NEW x \in BodyLines(new[m].body), NEW y \in BodyLines(new[n].body)
                   PROVE  x < y
      OBVIOUS
    <3>2. x \in BodyLines(acc[m].body) /\ x \in Nat /\ x < From(b)
      <4>1. m # len
        BY <1>4, <3>1
      <4>2. x \in BodyLines(acc[m].body)
        BY <2>15, <4>1
      <4> QED
        BY <1>5, <4>2
    <3>3. CASE y \in BodyLines(acc[n].body)
      BY <1>4, <3>1, <3>2, <3>3
    <3>4. CASE y \in ToSet(b.lines)
      <4>1. ToSet(b.lines) = From(b)..To(b) /\ From(b) \in Nat /\ To(b) \in Nat
        BY <1>2, BlockSpan
      <4>2. y \in Nat /\ From(b) <= y
        BY <3>4, <4>1
      <4> QED
        BY <1>2, <3>2, <4>2
    <3> QED
      BY <2>15, <3>3, <3>4
  <2>17. \A m \in 1..k : ~IsBoundary(doc, blocks[m]) =>
            \E n \in 1..len : \E i \in DOMAIN new[n].body : new[n].body[i] = blocks[m]
    <3>1. SUFFICES ASSUME NEW m \in 1..k, ~IsBoundary(doc, blocks[m])
                   PROVE  \E n \in 1..len : \E i \in DOMAIN new[n].body : new[n].body[i] = blocks[m]
      OBVIOUS
    <3>2. CASE m = k
      <4>1. new[len].body = Append(body, b) /\ Len(body) + 1 \in DOMAIN Append(body, b)
        BY <2>4, <2>5, <2>7, <2>8
      <4> QED
        BY <1>1, <1>4, <2>8, <3>2, <4>1
    <3>3. CASE m # k
      <4>1. m \in 1..(k - 1)
        BY <3>3
      <4>2. PICK n \in 1..len : \E i \in DOMAIN acc[n].body : acc[n].body[i] = blocks[m]
        BY <1>4, <3>1, <4>1
      <4>3. PICK i \in DOMAIN acc[n].body : acc[n].body[i] = blocks[m]
        BY <4>2
      <4>4. CASE n # len
        BY <2>5, <4>3, <4>4
      <4>5. CASE n = len
        <5>1. new[len].body = Append(body, b) /\ i \in 1..Len(body) /\ body[i] = blocks[m]
          BY <2>2, <2>4, <2>5, <2>7, <2>8, <4>3, <4>5
        <5>2. i \in DOMAIN Append(body, b) /\ Append(body, b)[i] = blocks[m]
          BY <2>8, <5>1
        <5> QED
          BY <1>4, <5>1, <5>2
      <4> QED
        BY <4>4, <4>5
    <3> QED
      BY <3>2, <3>3
  <2>18. ToSet(new[len].path) = InForce(doc, Boundaries(doc, blocks, k))
    BY <1>4, <1>6, <2>4, <2>5, <2>9
  <2>19. SectionsTo(doc, blocks, k, new)
    BY <2>5, <2>14, <2>16, <2>17, <2>18 DEF SectionsTo
  <2> QED
    BY <1>1, <1>7, <2>19
<1> QED
  BY <1>8, <1>9

\* The sections of a document.
LEMMA SectionsAre ==
    ASSUME NEW doc \in Seq(LineKinds)
    PROVE  /\ Sorted(doc, ParseBlocks(doc))
           /\ SectionsTo(doc, ParseBlocks(doc), Len(ParseBlocks(doc)), Sections(doc))
<1>1. PICK blocks : blocks = ParseBlocks(doc)
  OBVIOUS
<1>2. Sorted(doc, blocks) /\ Len(blocks) \in Nat
  <2>1. ParsedTo(doc, Len(doc), blocks)
    BY <1>1, BlocksAre
  <2>2. blocks \in Seq(BlockRow) /\ DOMAIN blocks = 1..Len(blocks) /\ Len(blocks) \in Nat
    BY <2>1, LenProperties DEF ParsedTo
  <2> QED
    BY <2>1, <2>2 DEF ParsedTo, Sorted
<1>3. PICK v \in [0..Len(blocks) -> Stacks] :
          /\ v[0] = Start /\ \A k \in 1..Len(blocks) : v[k] = SectionNext(doc, v[k - 1], blocks[k])
          /\ Sections(doc) = v[Len(blocks)]
  BY <1>1, <1>2, SectionWalk
<1> DEFINE T == {k \in 0..Len(blocks) : SectionsTo(doc, blocks, k, v[k])}
<1>4. 0 \in T
  <2>1. Start \in Stacks /\ Len(Start) = 1 /\ Start[1].path = <<>> /\ Start[1].body = <<>> /\ Start[1] \in SectionRow
    <3>1. Start \in Stacks /\ Len(Start) = 1 /\ Start[1] = [path |-> <<>>, body |-> <<>>]
      BY StartTyped, Zenon
    <3>2. [path |-> <<>>, body |-> <<>>] \in SectionRow
      BY EmptySeq DEF SectionRow
    <3> QED
      BY <3>1, <3>2
  <2>2. PICK s : s = Start[1]
    OBVIOUS
  <2>3. s \in SectionRow /\ DOMAIN s.body = {} /\ BodyLines(s.body) = {} /\ ToSet(s.path) = {} /\ DOMAIN s.path = {}
    BY <2>1, <2>2 DEF BodyLines, ToSet
  <2>4. Sorted(doc, s.body) /\ InOrder(s.path)
    BY <2>1, <2>2, <2>3, EmptySeq DEF Sorted, InOrder
  <2>5. SectionOf(doc, blocks, 0, s)
    BY <2>3, <2>4 DEF SectionOf
  <2>6. Boundaries(doc, blocks, 0) = {} /\ InForce(doc, {}) = {}
    BY DEF Boundaries, InForce
  <2>7. \A n \in 1..1 : n = 1
    OBVIOUS
  <2>8. SectionsTo(doc, blocks, 0, Start)
    <3>1. \A m \in 1..0 : FALSE
      OBVIOUS
    <3>2. \A m, n \in 1..1 : ~(m < n)
      OBVIOUS
    <3> HIDE DEF Start
    <3> QED
      BY <2>1, <2>2, <2>3, <2>5, <2>6, <2>7, <3>1, <3>2 DEF SectionsTo
  <2> QED
    BY <1>2, <1>3, <2>8
<1>5. ASSUME NEW k \in 1..Len(blocks), k - 1 \in T PROVE k \in T
  <2>1. PICK acc : acc = v[k - 1]
    OBVIOUS
  <2>2. SectionsTo(doc, blocks, k - 1, acc)
    BY <1>5, <2>1
  <2>3. SectionsTo(doc, blocks, k, SectionNext(doc, acc, blocks[k]))
    BY <1>2, <2>2, SectionStep
  <2> QED
    BY <1>2, <1>3, <2>1, <2>3
<1> HIDE DEF T
<1>6. Len(blocks) \in T
  <2>1. Len(blocks) \in 0..Len(blocks)
    BY <1>2
  <2> QED
    BY <1>2, <1>4, <1>5, <2>1, Climb
<1> QED
  BY <1>1, <1>2, <1>3, <1>6 DEF T

-----------------------------------------------------------------------------
(* The chunks of some sections *)

\* What FlatAt is asked about: two neighbours of a flattened sequence.
Neighbours(seqs, m, flat, row, col, k) ==
    /\ FlatAt(seqs, m, flat, row, col) /\ m \in Nat /\ Len(flat) \in Nat
    /\ \A n \in 1..m : Len(seqs[n]) \in Nat
    /\ k \in 1..Len(flat)

\* The first element begins its sequence; each other one follows the one before it in the same
\* sequence, or begins a later one.
LEMMA FlatNeighbours ==
    ASSUME NEW seqs, NEW m, NEW flat, NEW row, NEW col, NEW k, Neighbours(seqs, m, flat, row, col, k)
    PROVE  /\ k = 1 => col[k] = 1
           /\ k # 1 => \/ row[k] = row[k - 1] /\ col[k] = col[k - 1] + 1
                       \/ row[k - 1] < row[k] /\ col[k] = 1
<1>1. PICK size \in Nat : size = Len(flat)
  BY DEF Neighbours
<1>2. /\ \A i \in 1..size : row[i] \in Nat /\ row[i] \in 1..m /\ col[i] \in Nat \ {0} /\ col[i] <= Len(seqs[row[i]])
      /\ \A n \in 1..m : Len(seqs[n]) \in Nat
      /\ k \in 1..size
  BY <1>1 DEF Neighbours, FlatAt
<1>3. \A i, j \in 1..size : i < j => row[i] < row[j] \/ (row[i] = row[j] /\ col[i] < col[j])
  BY <1>1 DEF Neighbours, FlatAt
<1>4. \A n \in 1..m : \A i \in 1..Len(seqs[n]) : \E j \in 1..size : row[j] = n /\ col[j] = i
  BY <1>1 DEF Neighbours, FlatAt
<1>5. \A i \in 1..col[k] : \E j \in 1..size : row[j] = row[k] /\ col[j] = i
  <2>1. SUFFICES ASSUME NEW i \in 1..col[k]
                 PROVE  \E j \in 1..size : row[j] = row[k] /\ col[j] = i
    OBVIOUS
  <2>2. i \in 1..Len(seqs[row[k]])
    BY <1>2
  <2> QED
    BY <1>2, <1>4, <2>2
<1>6. ASSUME col[k] # 1
      PROVE  \E j \in 1..size : j < k /\ row[j] = row[k]
  <2>1. 1 \in 1..col[k]
    BY <1>2
  <2>2. PICK j \in 1..size : row[j] = row[k] /\ col[j] = 1
    BY <1>5, <2>1
  <2>3. j = k \/ j < k \/ k < j
    BY <1>2
  <2>4. ~(k < j)
    BY <1>2, <1>3, <2>2
  <2>5. j # k
    BY <1>6, <2>2
  <2> QED
    BY <2>2, <2>3, <2>4, <2>5
<1>7. k = 1 => col[k] = 1
  BY <1>6
<1>8. ASSUME k # 1
      PROVE  \/ row[k] = row[k - 1] /\ col[k] = col[k - 1] + 1
             \/ row[k - 1] < row[k] /\ col[k] = 1
  <2>1. PICK p \in 1..size : p = k - 1
    BY <1>2, <1>8
  <2>2. p < k /\ \A j \in 1..size : j < k => j <= p
    BY <1>2, <2>1
  <2>3. row[p] < row[k] \/ (row[p] = row[k] /\ col[p] < col[k])
    BY <1>2, <1>3, <2>2
  <2>4. CASE row[p] < row[k]
    <3>1. \A j \in 1..size : j < k => row[j] # row[k]
      <4>1. SUFFICES ASSUME NEW j \in 1..size, j < k
                     PROVE  row[j] # row[k]
        OBVIOUS
      <4>2. j = p \/ j < p
        BY <2>2, <4>1
      <4>3. j < p => row[j] <= row[p]
        BY <1>2, <1>3, <2>1
      <4> QED
        BY <1>2, <2>4, <4>2, <4>3
    <3> QED
      BY <1>6, <2>1, <2>4, <3>1
  <2>5. CASE row[p] = row[k] /\ col[p] < col[k]
    <3>1. col[p] + 1 \in 1..col[k]
      BY <1>2, <2>5
    <3>2. PICK j \in 1..size : row[j] = row[k] /\ col[j] = col[p] + 1
      BY <1>5, <3>1
    <3>3. ~(k < j)
      BY <1>2, <1>3, <2>5, <3>1, <3>2
    <3>4. ~(j < p) /\ j # p
      BY <1>2, <1>3, <2>5, <3>2
    <3>5. j = k
      BY <1>2, <2>1, <3>3, <3>4
    <3> QED
      BY <2>1, <2>5, <3>2, <3>5
  <2> QED
    BY <2>3, <2>4, <2>5
<1> QED
  BY <1>7, <1>8

\* a chunk, and the texts a body is packed into
ChunkRow == [path : Seq(Nat), atoms : Seq(AtomRow)]
BodyTexts(doc, body) == PackAtoms(doc, BodyAtoms(doc, body))

\* chunks are the texts of a body, under its path
ChunksUnder(path, texts, chunks) ==
    /\ chunks \in Seq(ChunkRow) /\ Len(chunks) = Len(texts) /\ Len(texts) \in Nat
    /\ \A i \in 1..Len(texts) : chunks[i] = [path |-> path, atoms |-> texts[i]]

\* The chunks of a section are the texts its atoms are packed into.
LEMMA SectionChunksAre ==
    ASSUME NEW doc \in Seq(LineKinds), NEW path \in Seq(Nat), NEW body, Sorted(doc, body)
    PROVE  /\ ChunksUnder(path, BodyTexts(doc, body), SectionChunks(doc, path, body))
           /\ TextsFor(doc, BodyTexts(doc, body), BodyLines(body))
           /\ \A n \in DOMAIN body : body[n].kind \in {"code", "table"} =>
                 \E i \in 1..Len(BodyTexts(doc, body)) :
                    ToSet(body[n].lines) \subseteq ToSet(TextLines(BodyTexts(doc, body)[i]))
           /\ body # <<>> => BodyTexts(doc, body) # <<>>
<1>1. PICK atoms : atoms = BodyAtoms(doc, body)
  OBVIOUS
<1>2. PICK texts : texts = PackAtoms(doc, atoms)
  OBVIOUS
<1>3. AtomsFor(atoms, BodyLines(body)) /\ (body # <<>> => atoms # <<>>)
  BY <1>1, BodyAtomsAre
<1>4. TextsFor(doc, texts, BodyLines(body))
  BY <1>2, <1>3, TextsAre
<1>5. \A k \in DOMAIN atoms : \E n \in 1..Len(texts) : ToSet(atoms[k].lines) \subseteq ToSet(TextLines(texts[n]))
  BY <1>2, <1>3, TextsAre
<1>6. \A n \in DOMAIN body : body[n].kind \in {"code", "table"} =>
         \E k \in DOMAIN atoms : atoms[k].lines = body[n].lines
  BY <1>1, BodyAtomsAre
<1>7. \A n \in DOMAIN body : body[n].kind \in {"code", "table"} =>
         \E i \in 1..Len(texts) : ToSet(body[n].lines) \subseteq ToSet(TextLines(texts[i]))
  BY <1>5, <1>6
<1>8. texts = BodyTexts(doc, body)
  BY <1>1, <1>2 DEF BodyTexts
<1>9. texts \in Seq(Seq(AtomRow))
  BY <1>4 DEF TextsFor
<1>10. ChunksUnder(path, texts, SectionChunks(doc, path, body))
  <2>1. SectionChunks(doc, path, body) = Under(path, texts)
    BY <1>1, <1>2 DEF SectionChunks, BodyAtoms
  <2>2. Len(texts) \in Nat /\ DOMAIN texts = 1..Len(texts)
    <3>1. PICK T : T = Seq(AtomRow)
      OBVIOUS
    <3>2. texts \in Seq(T)
      BY <1>9, <3>1
    <3> QED
      BY <3>2, LenProperties
  <2>3. PICK size \in Nat : size = Len(texts) /\ DOMAIN texts = 1..size
    BY <2>2
  <2>4. \A i \in 1..size : texts[i] \in Seq(AtomRow)
    BY <1>9, <2>3
  <2>5. \A i \in 1..size : [path |-> path, atoms |-> texts[i]] \in ChunkRow
    BY <2>4 DEF ChunkRow
  <2>6. Under(path, texts) = [i \in 1..size |-> [path |-> path, atoms |-> texts[i]]]
    BY <2>3 DEF Under
  <2>7. Under(path, texts) \in [1..size -> ChunkRow]
    BY <2>5, <2>6
  <2>8. Under(path, texts) \in Seq(ChunkRow) /\ Len(Under(path, texts)) = size
    BY <2>7, <2>3
  <2> QED
    BY <2>1, <2>3, <2>6, <2>8 DEF ChunksUnder
<1>11. body # <<>> => texts # <<>>
  <2>1. ASSUME body # <<>>
        PROVE  texts # <<>>
    <3>1. atoms # <<>> /\ atoms \in Seq(AtomRow)
      BY <1>3, <2>1 DEF AtomsFor
    <3>2. 1 \in DOMAIN atoms
      BY <3>1
    <3>3. PICK n \in 1..Len(texts) : ToSet(atoms[1].lines) \subseteq ToSet(TextLines(texts[n]))
      BY <1>5, <3>2
    <3> QED
      BY <1>9, <3>3
  <2> QED
    BY <2>1
<1> QED
  BY <1>4, <1>7, <1>8, <1>10, <1>11

\* A text that is not empty has a line.
LEMMA TextHasLine ==
    ASSUME NEW text \in Seq(AtomRow), text # <<>>, Tidy(LinesOf(text))
    PROVE  \E x : x \in ToSet(TextLines(text))
<1>1. Len(text) \in Nat /\ Len(text) # 0 /\ DOMAIN text = 1..Len(text)
  BY LenProperties, EmptySeq
<1>2. 1 \in DOMAIN text
  BY <1>1
<1>3. text[1].lines # <<>> /\ text[1].lines \in Seq(Nat)
  <2>1. text[1] \in AtomRow
    BY <1>2
  <2>2. text[1].lines # <<>>
    BY <1>2, TidyAtoms
  <2> QED
    BY <2>1, <2>2 DEF AtomRow
<1>4. Len(text[1].lines) \in Nat /\ Len(text[1].lines) # 0 /\ DOMAIN text[1].lines = 1..Len(text[1].lines)
  BY <1>3, LenProperties, EmptySeq
<1>5. 1 \in DOMAIN text[1].lines
  BY <1>4
<1>6. text[1].lines[1] \in ToSet(text[1].lines)
  BY <1>5 DEF ToSet
<1> QED
  BY <1>2, <1>6, TextIs

\* Nothing shared is no atom and no words.
LEMMA NothingShared ==
    ASSUME NEW doc
    PROVE  /\ Cardinality({}) = 0 /\ IsFiniteSet({})
           /\ SumOf([a \in {} |-> AtomWords(doc, a)], {}) = 0
<1>1. Cardinality({}) = 0 /\ IsFiniteSet({})
  BY FS_EmptySet
<1> DEFINE words == [a \in {} |-> AtomWords(doc, a)]
<1>2. \A x \in {} : words[x] \in Int
  OBVIOUS
<1> HIDE DEF words
<1>3. SumOf(words, {}) = 0
  BY <1>1, <1>2, SumFirst
<1> QED
  BY <1>1, <1>3 DEF words

\* a text that fits, all of it past another
Fresh(doc, old, text) ==
    /\ old \in Seq(AtomRow) /\ Tidy(LinesOf(old)) /\ text \in Seq(AtomRow) /\ text # <<>> /\ Tidy(LinesOf(text))
    /\ \A y \in ToSet(TextLines(old)), x \in ToSet(TextLines(text)) : y < x
    /\ Len(text) = 1 \/ WordsIn(doc, text) <= MaxWords

\* The first text of a section shares nothing with the one before it.
LEMMA FreshGoesOn ==
    ASSUME NEW doc, NEW old, NEW text, Fresh(doc, old, text)
    PROVE  GoesOn(doc, old, text)
<1>1. \E x \in ToSet(TextLines(text)) : \A y \in ToSet(TextLines(old)) : y < x
  <2>1. PICK x : x \in ToSet(TextLines(text))
    BY TextHasLine DEF Fresh
  <2> QED
    BY <2>1 DEF Fresh
<1>2. Shared(old, text) = {}
  <2>1. SUFFICES ASSUME NEW atom \in Shared(old, text) PROVE FALSE
    OBVIOUS
  <2>2. PICK i \in DOMAIN text : atom = text[i]
    BY <2>1 DEF Shared, ToSet
  <2>3. PICK j \in DOMAIN old : atom = old[j]
    BY <2>1 DEF Shared, ToSet
  <2>4. text[i].lines # <<>> /\ text[i].lines \in Seq(Nat)
    <3>1. text[i] \in AtomRow
      BY <2>2 DEF Fresh
    <3>2. text[i].lines # <<>>
      BY <2>2, TidyAtoms DEF Fresh
    <3> QED
      BY <3>1, <3>2 DEF AtomRow
  <2>5. Len(text[i].lines) \in Nat /\ Len(text[i].lines) # 0 /\ DOMAIN text[i].lines = 1..Len(text[i].lines)
    BY <2>4, LenProperties, EmptySeq
  <2>6. PICK x : x \in ToSet(atom.lines)
    <3>1. 1 \in DOMAIN text[i].lines
      BY <2>5
    <3> QED
      BY <2>2, <3>1 DEF ToSet
  <2>7. x \in ToSet(TextLines(text)) /\ x \in ToSet(TextLines(old)) /\ TextLines(text) \in Seq(Nat)
    BY <2>2, <2>3, <2>6, TextIs DEF Fresh
  <2>8. x \in Nat
    BY <2>7 DEF ToSet
  <2>9. x < x
    BY <2>7 DEF Fresh
  <2> QED
    BY <2>8, <2>9
<1>3. /\ Cardinality({}) = 0 /\ IsFiniteSet({})
      /\ SumOf([a \in {} |-> AtomWords(doc, a)], {}) = 0
  BY NothingShared
<1>4. MaxWords + SumOf([a \in {} |-> AtomWords(doc, a)], {}) = MaxWords /\ 0 <= Overlap
  BY <1>3, ChunkAssumption
<1>5. Cardinality(Shared(old, text)) <= Overlap /\ \A atom \in Shared(old, text) : atom.kind = "sentence"
  BY <1>2, <1>3, <1>4
<1>6. \/ Len(text) = 1
      \/ WordsIn(doc, text) <= MaxWords + SumOf([a \in Shared(old, text) |-> AtomWords(doc, a)], Shared(old, text))
  BY <1>2, <1>4 DEF Fresh
<1> QED
  BY <1>1, <1>5, <1>6 DEF GoesOn

\* sections whose bodies are in order, one after the other
SectionsFor(doc, sections) ==
    /\ doc \in Seq(LineKinds) /\ sections \in Seq(SectionRow)
    /\ \A n \in 1..Len(sections) : Sorted(doc, sections[n].body)
    /\ \A m, n \in 1..Len(sections) : m < n =>
          \A x \in BodyLines(sections[m].body), y \in BodyLines(sections[n].body) : x < y

\* chunk k is text col[k] of section row[k]
Placed(doc, sections, chunks, row, col) ==
    /\ chunks \in Seq(ChunkRow)
    /\ \A k \in 1..Len(chunks) :
          /\ row[k] \in 1..Len(sections) /\ col[k] \in 1..Len(BodyTexts(doc, sections[row[k]].body))
          /\ chunks[k].path = sections[row[k]].path
          /\ chunks[k].atoms = BodyTexts(doc, sections[row[k]].body)[col[k]]
          /\ k = 1 => col[k] = 1
          /\ k # 1 => \/ row[k] = row[k - 1] /\ col[k] = col[k - 1] + 1
                      \/ row[k - 1] < row[k] /\ col[k] = 1
    /\ \A n \in 1..Len(sections) : \A i \in 1..Len(BodyTexts(doc, sections[n].body)) :
          \E k \in 1..Len(chunks) : row[k] = n /\ col[k] = i

\* The chunks are the texts of the sections, one section after the other.
LEMMA ChunksPlaced ==
    ASSUME NEW doc, NEW sections, SectionsFor(doc, sections)
    PROVE  \E row, col : Placed(doc, sections, AllChunks(doc, sections), row, col)
<1>1. PICK size \in Nat : size = Len(sections) /\ DOMAIN sections = 1..size
  BY DEF SectionsFor
<1>2. PICK seqs : seqs = [n \in 1..size |-> SectionChunks(doc, sections[n].path, sections[n].body)]
  OBVIOUS
<1>3. PICK chunks : chunks = AllChunks(doc, sections)
  OBVIOUS
<1>4. chunks = FlattenSeq(seqs)
  BY <1>1, <1>2, <1>3 DEF AllChunks
<1>5. \A n \in 1..size : ChunksUnder(sections[n].path, BodyTexts(doc, sections[n].body), seqs[n])
  <2>1. SUFFICES ASSUME NEW n \in 1..size
                 PROVE  ChunksUnder(sections[n].path, BodyTexts(doc, sections[n].body), seqs[n])
    OBVIOUS
  <2>2. sections[n].path \in Seq(Nat) /\ Sorted(doc, sections[n].body) /\ doc \in Seq(LineKinds)
    <3>1. sections[n] \in SectionRow /\ Sorted(doc, sections[n].body) /\ doc \in Seq(LineKinds)
      BY <1>1 DEF SectionsFor
    <3> QED
      BY <3>1 DEF SectionRow
  <2>3. seqs[n] = SectionChunks(doc, sections[n].path, sections[n].body)
    BY <1>2
  <2> QED
    BY <2>2, <2>3, SectionChunksAre
<1>6. seqs \in Seq(Seq(ChunkRow)) /\ Len(seqs) = size
  <2>1. seqs \in [1..size -> Seq(ChunkRow)]
    BY <1>2, <1>5 DEF ChunksUnder
  <2> QED
    BY <2>1
<1>7. chunks \in Seq(ChunkRow) /\ \E row, col : FlatAt(seqs, size, chunks, row, col)
  BY <1>4, <1>6, FlatIndex
<1>8. PICK row, col : FlatAt(seqs, size, chunks, row, col)
  BY <1>7
<1>9. PICK len \in Nat : len = Len(chunks)
  BY <1>7
<1>10. \A n \in 1..size : Len(seqs[n]) \in Nat /\ Len(seqs[n]) = Len(BodyTexts(doc, sections[n].body))
  BY <1>5 DEF ChunksUnder
<1>11. ASSUME NEW k \in 1..len
       PROVE  /\ row[k] \in 1..size /\ col[k] \in 1..Len(BodyTexts(doc, sections[row[k]].body))
              /\ chunks[k].path = sections[row[k]].path
              /\ chunks[k].atoms = BodyTexts(doc, sections[row[k]].body)[col[k]]
              /\ k = 1 => col[k] = 1
              /\ k # 1 => \/ row[k] = row[k - 1] /\ col[k] = col[k - 1] + 1
                          \/ row[k - 1] < row[k] /\ col[k] = 1
  <2>1. row[k] \in 1..size /\ col[k] \in Nat \ {0} /\ col[k] <= Len(seqs[row[k]]) /\ chunks[k] = seqs[row[k]][col[k]]
    BY <1>8, <1>9 DEF FlatAt
  <2>2. PICK n \in 1..size : n = row[k]
    BY <2>1
  <2>3. PICK i : i = col[k] /\ i \in 1..Len(BodyTexts(doc, sections[n].body))
    BY <1>10, <2>1, <2>2
  <2>4. seqs[n][i] = [path |-> sections[n].path, atoms |-> BodyTexts(doc, sections[n].body)[i]]
    BY <1>5, <2>3 DEF ChunksUnder
  <2>5. /\ chunks[k].path = sections[row[k]].path
        /\ chunks[k].atoms = BodyTexts(doc, sections[row[k]].body)[col[k]]
    BY <2>1, <2>2, <2>3, <2>4
  <2>6. Neighbours(seqs, size, chunks, row, col, k)
    BY <1>8, <1>9, <1>10 DEF Neighbours
  <2>7. /\ k = 1 => col[k] = 1
        /\ k # 1 => \/ row[k] = row[k - 1] /\ col[k] = col[k - 1] + 1
                    \/ row[k - 1] < row[k] /\ col[k] = 1
    BY <2>6, FlatNeighbours
  <2> QED
    BY <2>2, <2>3, <2>5, <2>7
<1>12. \A n \in 1..size : \A i \in 1..Len(BodyTexts(doc, sections[n].body)) :
          \E k \in 1..len : row[k] = n /\ col[k] = i
  BY <1>8, <1>9, <1>10 DEF FlatAt
<1>13. Placed(doc, sections, chunks, row, col)
  BY <1>1, <1>7, <1>9, <1>11, <1>12 DEF Placed
<1> QED
  BY <1>3, <1>13

\* what is said of the chunks of some sections
ChunksFor(doc, sections, chunks) ==
    /\ chunks \in Seq(ChunkRow)
    /\ \A k \in 1..Len(chunks) :
          /\ chunks[k].atoms # <<>> /\ Tidy(LinesOf(chunks[k].atoms))
          /\ \E n \in 1..Len(sections) :
                /\ chunks[k].path = sections[n].path
                /\ ToSet(TextLines(chunks[k].atoms)) \subseteq BodyLines(sections[n].body)
    /\ chunks # <<>> => Len(chunks[1].atoms) = 1 \/ WordsIn(doc, chunks[1].atoms) <= MaxWords
    /\ \A k \in 2..Len(chunks) : GoesOn(doc, chunks[k - 1].atoms, chunks[k].atoms)
    /\ \A n \in 1..Len(sections) : \A l \in BodyLines(sections[n].body) :
          \E k \in 1..Len(chunks) : chunks[k].path = sections[n].path /\ l \in ToSet(TextLines(chunks[k].atoms))
    /\ \A n \in 1..Len(sections) : \A i \in DOMAIN sections[n].body : sections[n].body[i].kind \in {"code", "table"} =>
          \E k \in 1..Len(chunks) : ToSet(sections[n].body[i].lines) \subseteq ToSet(TextLines(chunks[k].atoms))
    /\ chunks = <<>> <=> \A n \in 1..Len(sections) : sections[n].body = <<>>

\* So each is in order and goes on from the one before it, and nothing of a body is lost.
LEMMA ChunksAre ==
    ASSUME NEW doc, NEW sections, SectionsFor(doc, sections)
    PROVE  ChunksFor(doc, sections, AllChunks(doc, sections))
<1>1. PICK size \in Nat : size = Len(sections) /\ DOMAIN sections = 1..size
  BY DEF SectionsFor
<1>2. PICK chunks : chunks = AllChunks(doc, sections)
  OBVIOUS
<1>3. PICK row, col : Placed(doc, sections, chunks, row, col)
  BY <1>2, ChunksPlaced
<1>4. PICK len \in Nat : len = Len(chunks) /\ DOMAIN chunks = 1..len
  BY <1>3 DEF Placed
<1>5. PICK texts : texts = [n \in 1..size |-> BodyTexts(doc, sections[n].body)]
  OBVIOUS
<1>6. ASSUME NEW n \in 1..size
      PROVE  /\ TextsFor(doc, texts[n], BodyLines(sections[n].body))
             /\ \A i \in DOMAIN sections[n].body : sections[n].body[i].kind \in {"code", "table"} =>
                   \E j \in 1..Len(texts[n]) : ToSet(sections[n].body[i].lines) \subseteq ToSet(TextLines(texts[n][j]))
             /\ sections[n].body # <<>> => texts[n] # <<>>
  <2>1. sections[n].path \in Seq(Nat) /\ Sorted(doc, sections[n].body) /\ doc \in Seq(LineKinds)
    <3>1. sections[n] \in SectionRow /\ Sorted(doc, sections[n].body) /\ doc \in Seq(LineKinds)
      BY <1>1 DEF SectionsFor
    <3> QED
      BY <3>1 DEF SectionRow
  <2>2. texts[n] = BodyTexts(doc, sections[n].body)
    BY <1>5
  <2> QED
    BY <2>1, <2>2, SectionChunksAre
<1>7. \A k \in 1..len : /\ row[k] \in 1..size /\ col[k] \in 1..Len(texts[row[k]])
                        /\ chunks[k].path = sections[row[k]].path
                        /\ chunks[k].atoms = texts[row[k]][col[k]]
                        /\ k = 1 => col[k] = 1
                        /\ k # 1 => \/ row[k] = row[k - 1] /\ col[k] = col[k - 1] + 1
                                    \/ row[k - 1] < row[k] /\ col[k] = 1
  <2>1. SUFFICES ASSUME NEW k \in 1..len
                 PROVE  /\ row[k] \in 1..size /\ col[k] \in 1..Len(texts[row[k]])
                        /\ chunks[k].path = sections[row[k]].path
                        /\ chunks[k].atoms = texts[row[k]][col[k]]
                        /\ k = 1 => col[k] = 1
                        /\ k # 1 => \/ row[k] = row[k - 1] /\ col[k] = col[k - 1] + 1
                                    \/ row[k - 1] < row[k] /\ col[k] = 1
    OBVIOUS
  <2>2. /\ row[k] \in 1..size /\ col[k] \in 1..Len(BodyTexts(doc, sections[row[k]].body))
        /\ chunks[k].path = sections[row[k]].path
        /\ chunks[k].atoms = BodyTexts(doc, sections[row[k]].body)[col[k]]
        /\ k = 1 => col[k] = 1
        /\ k # 1 => \/ row[k] = row[k - 1] /\ col[k] = col[k - 1] + 1
                    \/ row[k - 1] < row[k] /\ col[k] = 1
    BY <1>1, <1>3, <1>4 DEF Placed
  <2>3. texts[row[k]] = BodyTexts(doc, sections[row[k]].body)
    BY <1>5, <2>2
  <2> QED
    BY <2>2, <2>3
<1>8. \A n \in 1..size : \A i \in 1..Len(texts[n]) : \E k \in 1..len : row[k] = n /\ col[k] = i
  BY <1>1, <1>3, <1>4, <1>5 DEF Placed
<1>9. \A n \in 1..size : \A j \in 1..Len(texts[n]) :
         /\ texts[n][j] \in Seq(AtomRow) /\ texts[n][j] # <<>> /\ Tidy(LinesOf(texts[n][j]))
         /\ ToSet(TextLines(texts[n][j])) \subseteq BodyLines(sections[n].body)
  <2>1. SUFFICES ASSUME NEW n \in 1..size, NEW j \in 1..Len(texts[n])
                 PROVE  /\ texts[n][j] \in Seq(AtomRow) /\ texts[n][j] # <<>> /\ Tidy(LinesOf(texts[n][j]))
                        /\ ToSet(TextLines(texts[n][j])) \subseteq BodyLines(sections[n].body)
    OBVIOUS
  <2>2. TextsFor(doc, texts[n], BodyLines(sections[n].body))
    BY <1>6
  <2>3. PICK T : T = Seq(AtomRow)
    OBVIOUS
  <2>4. texts[n] \in Seq(T)
    BY <2>2, <2>3 DEF TextsFor
  <2>5. texts[n][j] \in T
    BY <2>1, <2>4
  <2> QED
    BY <2>2, <2>3, <2>5 DEF TextsFor
<1>10. ASSUME NEW k \in 1..len
       PROVE  /\ chunks[k].atoms # <<>> /\ Tidy(LinesOf(chunks[k].atoms)) /\ chunks[k].atoms \in Seq(AtomRow)
              /\ ToSet(TextLines(chunks[k].atoms)) \subseteq BodyLines(sections[row[k]].body)
  <2>1. PICK n \in 1..size : n = row[k]
    BY <1>7
  <2>2. PICK j \in 1..Len(texts[n]) : chunks[k].atoms = texts[n][j]
    BY <1>7, <2>1
  <2> QED
    BY <1>9, <2>1, <2>2
<1>11. ASSUME NEW k \in 1..len, col[k] = 1
       PROVE  Len(chunks[k].atoms) = 1 \/ WordsIn(doc, chunks[k].atoms) <= MaxWords
  <2>1. PICK n \in 1..size : n = row[k] /\ 1 \in 1..Len(texts[n]) /\ chunks[k].atoms = texts[n][1]
    BY <1>7, <1>11
  <2>2. TextsFor(doc, texts[n], BodyLines(sections[n].body))
    BY <1>6
  <2>3. texts[n] # <<>>
    BY <2>1
  <2> QED
    BY <2>1, <2>2, <2>3 DEF TextsFor
<1>12. ASSUME NEW k \in 1..len, k # 1
       PROVE  GoesOn(doc, chunks[k - 1].atoms, chunks[k].atoms)
  <2>1. PICK p \in 1..len : p = k - 1
    BY <1>12
  <2>2. CASE row[k] = row[p] /\ col[k] = col[p] + 1
    <3>1. PICK n \in 1..size : n = row[k]
      BY <1>7
    <3>2. PICK j : j = col[k]
      OBVIOUS
    <3>3. /\ TextsFor(doc, texts[n], BodyLines(sections[n].body))
          /\ chunks[k].atoms = texts[n][j] /\ chunks[p].atoms = texts[n][col[p]]
          /\ j \in 1..Len(texts[n]) /\ col[p] \in 1..Len(texts[n])
      BY <1>6, <1>7, <2>2, <3>1, <3>2
    <3>4. j \in 2..Len(texts[n]) /\ j - 1 = col[p]
      BY <2>2, <3>2, <3>3
    <3>5. GoesOn(doc, texts[n][j - 1], texts[n][j])
      BY <3>3, <3>4 DEF TextsFor
    <3> QED
      BY <2>1, <3>3, <3>4, <3>5
  <2>3. CASE row[p] < row[k] /\ col[k] = 1
    <3>1. \A y \in BodyLines(sections[row[p]].body), x \in BodyLines(sections[row[k]].body) : y < x
      BY <1>1, <1>7, <2>3 DEF SectionsFor
    <3>2. Fresh(doc, chunks[p].atoms, chunks[k].atoms)
      BY <1>10, <1>11, <2>3, <3>1 DEF Fresh
    <3> QED
      BY <2>1, <3>2, FreshGoesOn
  <2> QED
    BY <1>7, <1>12, <2>1, <2>2, <2>3
<1>13. \A n \in 1..size : \A l \in BodyLines(sections[n].body) :
          \E k \in 1..len : chunks[k].path = sections[n].path /\ l \in ToSet(TextLines(chunks[k].atoms))
  <2>1. SUFFICES ASSUME NEW n \in 1..size, NEW l \in BodyLines(sections[n].body)
                 PROVE  \E k \in 1..len : chunks[k].path = sections[n].path /\ l \in ToSet(TextLines(chunks[k].atoms))
    OBVIOUS
  <2>2. TextsFor(doc, texts[n], BodyLines(sections[n].body))
    BY <1>6
  <2>3. PICK j \in 1..Len(texts[n]) : l \in ToSet(TextLines(texts[n][j]))
    BY <2>1, <2>2 DEF TextsFor
  <2>4. PICK k \in 1..len : row[k] = n /\ col[k] = j
    BY <1>8, <2>3
  <2> QED
    BY <1>7, <2>3, <2>4
<1>14. \A n \in 1..size : \A i \in DOMAIN sections[n].body : sections[n].body[i].kind \in {"code", "table"} =>
          \E k \in 1..len : ToSet(sections[n].body[i].lines) \subseteq ToSet(TextLines(chunks[k].atoms))
  <2>1. SUFFICES ASSUME NEW n \in 1..size, NEW i \in DOMAIN sections[n].body,
                        sections[n].body[i].kind \in {"code", "table"}
                 PROVE  \E k \in 1..len : ToSet(sections[n].body[i].lines) \subseteq ToSet(TextLines(chunks[k].atoms))
    OBVIOUS
  <2>2. PICK j \in 1..Len(texts[n]) : ToSet(sections[n].body[i].lines) \subseteq ToSet(TextLines(texts[n][j]))
    BY <1>6, <2>1
  <2>3. PICK k \in 1..len : row[k] = n /\ col[k] = j
    BY <1>8, <2>2
  <2> QED
    BY <1>7, <2>2, <2>3
<1>15. chunks = <<>> <=> \A n \in 1..size : sections[n].body = <<>>
  <2>1. chunks \in Seq(ChunkRow)
    BY <1>3 DEF Placed
  <2>2. ASSUME chunks = <<>>, NEW n \in 1..size
        PROVE  sections[n].body = <<>>
    <3>1. len = 0
      BY <1>4, <2>2
    <3>2. Len(texts[n]) \in Nat /\ (texts[n] # <<>> => Len(texts[n]) # 0)
      BY <1>6 DEF TextsFor
    <3>3. texts[n] # <<>> => 1 \in 1..Len(texts[n])
      BY <3>2
    <3> QED
      BY <1>6, <1>8, <3>1, <3>3
  <2>3. ASSUME \A n \in 1..size : sections[n].body = <<>>, chunks # <<>>
        PROVE  FALSE
    <3>1. 1 \in 1..len
      BY <1>4, <2>1, <2>3
    <3>2. PICK x : x \in ToSet(TextLines(chunks[1].atoms))
      BY <1>10, <3>1, TextHasLine
    <3>3. x \in BodyLines(sections[row[1]].body) /\ sections[row[1]].body = <<>>
      BY <1>7, <1>10, <2>3, <3>1, <3>2
    <3> QED
      BY <3>3 DEF BodyLines
  <2> QED
    BY <2>2, <2>3
<1>16. /\ \A k \in 1..len :
             /\ chunks[k].atoms # <<>> /\ Tidy(LinesOf(chunks[k].atoms))
             /\ \E n \in 1..size :
                   /\ chunks[k].path = sections[n].path
                   /\ ToSet(TextLines(chunks[k].atoms)) \subseteq BodyLines(sections[n].body)
  BY <1>7, <1>10
<1>17. chunks # <<>> => Len(chunks[1].atoms) = 1 \/ WordsIn(doc, chunks[1].atoms) <= MaxWords
  <2>1. ASSUME chunks # <<>> PROVE 1 \in 1..len
    BY <1>3, <1>4, <2>1 DEF Placed
  <2> QED
    BY <1>7, <1>11, <2>1
<1>18. \A k \in 2..len : GoesOn(doc, chunks[k - 1].atoms, chunks[k].atoms)
  BY <1>12
<1>19. chunks \in Seq(ChunkRow)
  BY <1>3 DEF Placed
<1>20. ChunksFor(doc, sections, chunks)
  <2>1. Len(chunks) = len /\ Len(sections) = size
    BY <1>1, <1>4
  <2> QED
    BY <1>13, <1>14, <1>15, <1>16, <1>17, <1>18, <1>19, <2>1, Zenon DEF ChunksFor
<1> QED
  BY <1>2, <1>20

-----------------------------------------------------------------------------
(* The document and its chunks *)

\* The last line of lines in order is the greatest.
LEMMA LastIsTop ==
    ASSUME NEW s \in Seq(Nat), InOrder(s), NEW x \in ToSet(s)
    PROVE  Last(s) \in ToSet(s) /\ Last(s) \in Nat /\ x \in Nat /\ x <= Last(s)
<1>1. PICK len \in Nat : len = Len(s) /\ DOMAIN s = 1..len
  BY LenProperties
<1>2. PICK i \in 1..len : x = s[i]
  BY <1>1 DEF ToSet
<1>3. len \in 1..len /\ Last(s) = s[len]
  BY <1>1, <1>2 DEF Last
<1>4. i = len \/ i < len
  BY <1>2
<1>5. s[i] \in Nat /\ s[len] \in Nat
  BY <1>1, <1>2, <1>3
<1>6. i < len => s[i] < s[len]
  BY <1>1, <1>2, <1>3 DEF InOrder
<1>7. s[len] \in ToSet(s)
  BY <1>1, <1>3 DEF ToSet
<1>8. s[i] <= s[len]
  BY <1>4, <1>5, <1>6
<1> QED
  BY <1>2, <1>3, <1>5, <1>7, <1>8

\* the written lines of a document
Written(doc) == {l \in DOMAIN doc : doc[l] # "blank"}
AllBoundaries(doc, blocks) == Boundaries(doc, blocks, Len(blocks))
Outline(doc, blocks) == AllBoundaries(doc, blocks) = Written(doc)
\* the lines that are to be in a chunk
WantedLines(doc, blocks) == IF Outline(doc, blocks) THEN Written(doc) ELSE Written(doc) \ AllBoundaries(doc, blocks)
\* the headings a line is to be under
PathAt(doc, blocks, l) == IF Outline(doc, blocks) THEN {} ELSE Enclosing(doc, AllBoundaries(doc, blocks), l)

\* the sections hold the blocks of a document, each line under its headings
Holds(doc, blocks, sections) ==
    /\ SectionsFor(doc, sections)
    /\ \A n \in 1..Len(sections) :
          /\ InOrder(sections[n].path)
          /\ \A l \in BodyLines(sections[n].body) : ToSet(sections[n].path) = PathAt(doc, blocks, l)
    /\ \A l \in WantedLines(doc, blocks) : \E n \in 1..Len(sections) : l \in BodyLines(sections[n].body)
    /\ \A m \in 1..Len(blocks) : blocks[m].kind \in {"code", "table"} =>
          \E n \in 1..Len(sections) : \E i \in DOMAIN sections[n].body : sections[n].body[i] = blocks[m]

\* the blocks are a reading of the document
Reads(doc, blocks) ==
    /\ doc \in Seq(LineKinds) /\ Sorted(doc, blocks)
    /\ \A l \in Written(doc) : \E n \in 1..Len(blocks) : l \in ToSet(blocks[n].lines)

\* The blocks of a document, one after the other, are its lines in order, none left out.
LEMMA BlocksInOrder ==
    ASSUME NEW doc, NEW blocks, Reads(doc, blocks)
    PROVE  LET parsed == FlattenSeq([n \in DOMAIN blocks |-> blocks[n].lines])
           IN  InOrder(parsed) /\ Written(doc) \subseteq ToSet(parsed)
<1>1. PICK size \in Nat : size = Len(blocks) /\ DOMAIN blocks = 1..size
  BY DEF Reads, Sorted
<1>2. PICK f : f = [n \in 1..size |-> blocks[n].lines]
  OBVIOUS
<1>3. \A n \in 1..size : /\ f[n] \in Seq(Nat) /\ f[n] # <<>> /\ InOrder(f[n])
                         /\ ToSet(f[n]) = From(blocks[n])..To(blocks[n])
                         /\ From(blocks[n]) \in Nat /\ To(blocks[n]) \in Nat
  <2>1. SUFFICES ASSUME NEW n \in 1..size
                 PROVE  /\ f[n] \in Seq(Nat) /\ f[n] # <<>> /\ InOrder(f[n])
                        /\ ToSet(f[n]) = From(blocks[n])..To(blocks[n])
                        /\ From(blocks[n]) \in Nat /\ To(blocks[n]) \in Nat
    OBVIOUS
  <2>2. IsBlock(doc, blocks[n]) /\ doc \in Seq(LineKinds)
    BY <1>1 DEF Reads, Sorted
  <2>3. f[n] = blocks[n].lines
    BY <1>2
  <2> QED
    BY <2>2, <2>3, BlockSpan
<1>4. \A m, n \in 1..size : m < n => To(blocks[m]) < From(blocks[n])
  BY <1>1 DEF Reads, Sorted
<1>5. \A m, n \in 1..size : m < n => \A x \in ToSet(f[m]), y \in ToSet(f[n]) : x < y
  <2>1. SUFFICES ASSUME NEW m \in 1..size, NEW n \in 1..size, m < n,
                        NEW x \in ToSet(f[m]), NEW y \in ToSet(f[n])
                 PROVE  x < y
    OBVIOUS
  <2>2. x \in Nat /\ y \in Nat /\ x <= To(blocks[m]) /\ From(blocks[n]) <= y
    <3>1. x \in From(blocks[m])..To(blocks[m]) /\ From(blocks[m]) \in Nat /\ To(blocks[m]) \in Nat
      BY <1>3, <2>1
    <3>2. y \in From(blocks[n])..To(blocks[n]) /\ From(blocks[n]) \in Nat /\ To(blocks[n]) \in Nat
      BY <1>3, <2>1
    <3> QED
      BY <3>1, <3>2
  <2>3. To(blocks[m]) < From(blocks[n]) /\ To(blocks[m]) \in Nat /\ From(blocks[n]) \in Nat
    BY <1>3, <1>4, <2>1
  <2> QED
    BY <2>2, <2>3
<1>6. Tidy(f)
  <2>1. f \in [1..size -> Seq(Nat)] /\ DOMAIN f = 1..size
    BY <1>2, <1>3
  <2>2. f \in Seq(Seq(Nat))
    BY <2>1
  <2> QED
    BY <1>3, <1>5, <2>1, <2>2 DEF Tidy
<1>7. /\ InOrder(FlattenSeq(f))
      /\ \A l : l \in ToSet(FlattenSeq(f)) <=> \E n \in DOMAIN f : l \in ToSet(f[n])
  BY <1>6, TidyFlat
<1>8. Written(doc) \subseteq ToSet(FlattenSeq(f))
  <2>1. SUFFICES ASSUME NEW l \in Written(doc) PROVE l \in ToSet(FlattenSeq(f))
    OBVIOUS
  <2>2. PICK n \in 1..size : l \in ToSet(blocks[n].lines)
    BY <1>1 DEF Reads
  <2>3. n \in DOMAIN f /\ l \in ToSet(f[n])
    BY <1>2, <2>2
  <2> QED
    BY <1>7, <2>3
<1>9. f = [n \in DOMAIN blocks |-> blocks[n].lines]
  BY <1>1, <1>2
<1> QED
  BY <1>7, <1>8, <1>9

\* Each line asked for is in a chunk under its headings.
LEMMA LinesCovered ==
    ASSUME NEW doc, NEW blocks, NEW sections, Holds(doc, blocks, sections),
           NEW chunks, ChunksFor(doc, sections, chunks), NEW l \in WantedLines(doc, blocks)
    PROVE  \E n \in DOMAIN chunks :
              /\ l \in ToSet(LinesIn(chunks[n]))
              /\ InOrder(chunks[n].path) /\ ToSet(chunks[n].path) = PathAt(doc, blocks, l)
<1>1. PICK n \in 1..Len(sections) : l \in BodyLines(sections[n].body)
  BY DEF Holds
<1>2. PICK k \in 1..Len(chunks) : chunks[k].path = sections[n].path /\ l \in ToSet(TextLines(chunks[k].atoms))
  BY <1>1 DEF ChunksFor
<1>3. InOrder(sections[n].path) /\ ToSet(sections[n].path) = PathAt(doc, blocks, l)
  BY <1>1 DEF Holds
<1>4. k \in DOMAIN chunks
  BY <1>2 DEF ChunksFor
<1>5. LinesIn(chunks[k]) = TextLines(chunks[k].atoms)
  BY DEF LinesIn, TextLines, LinesOf
<1> QED
  BY <1>2, <1>3, <1>4, <1>5

\* what two neighbouring chunks have in common
SharedAt(chunks, n) == IF n = 1 THEN {} ELSE ToSet(chunks[n].atoms) \cap ToSet(chunks[n - 1].atoms)

\* Each chunk is in order, goes on from the one before it, repeats few sentences and keeps to
\* its words.
LEMMA ChunkKeeps ==
    ASSUME NEW doc, NEW sections, SectionsFor(doc, sections), NEW chunks, ChunksFor(doc, sections, chunks),
           NEW n \in DOMAIN chunks
    PROVE  /\ InOrder(LinesIn(chunks[n]))
           /\ n > 1 => Last(LinesIn(chunks[n - 1])) < Last(LinesIn(chunks[n]))
           /\ Cardinality(SharedAt(chunks, n)) <= Overlap
           /\ \A atom \in SharedAt(chunks, n) : atom.kind = "sentence"
           /\ \/ Len(chunks[n].atoms) = 1
              \/ WordsIn(doc, chunks[n].atoms)
                     <= MaxWords + SumOf([a \in SharedAt(chunks, n) |-> AtomWords(doc, a)], SharedAt(chunks, n))
<1>1. PICK len \in Nat : len = Len(chunks) /\ DOMAIN chunks = 1..len
  BY DEF ChunksFor
<1>2. ASSUME NEW k \in 1..len
      PROVE  /\ LinesIn(chunks[k]) = TextLines(chunks[k].atoms)
             /\ chunks[k].atoms \in Seq(AtomRow) /\ chunks[k].atoms # <<>> /\ Tidy(LinesOf(chunks[k].atoms))
             /\ TextLines(chunks[k].atoms) \in Seq(Nat) /\ InOrder(TextLines(chunks[k].atoms))
  <2>1. chunks[k] \in ChunkRow /\ chunks[k].atoms # <<>> /\ Tidy(LinesOf(chunks[k].atoms))
    BY <1>1, <1>2 DEF ChunksFor
  <2>2. chunks[k].atoms \in Seq(AtomRow)
    BY <2>1 DEF ChunkRow
  <2>3. LinesIn(chunks[k]) = TextLines(chunks[k].atoms)
    BY DEF LinesIn, TextLines, LinesOf
  <2> QED
    BY <2>1, <2>2, <2>3, TextIs
<1>3. n \in 1..len
  BY <1>1
<1>4. InOrder(LinesIn(chunks[n]))
  BY <1>2, <1>3
<1>5. CASE n = 1
  <2>1. SharedAt(chunks, n) = {}
    BY <1>5 DEF SharedAt
  <2>2. chunks # <<>>
    BY <1>2, <1>3, <1>1
  <2>3. Len(chunks[n].atoms) = 1 \/ WordsIn(doc, chunks[n].atoms) <= MaxWords
    BY <1>5, <2>2 DEF ChunksFor
  <2>4. MaxWords + SumOf([a \in {} |-> AtomWords(doc, a)], {}) = MaxWords /\ Cardinality({}) <= Overlap
    BY NothingShared, ChunkAssumption
  <2> QED
    BY <1>4, <1>5, <2>1, <2>3, <2>4
<1>6. CASE n # 1
  <2>1. PICK p \in 1..len : p = n - 1
    BY <1>3, <1>6
  <2>2. n \in 2..len
    BY <1>3, <1>6
  <2>3. GoesOn(doc, chunks[p].atoms, chunks[n].atoms)
    BY <1>1, <2>1, <2>2 DEF ChunksFor
  <2>4. SharedAt(chunks, n) = Shared(chunks[p].atoms, chunks[n].atoms)
    BY <1>6, <2>1 DEF SharedAt, Shared
  <2>5. PICK x \in ToSet(TextLines(chunks[n].atoms)) : \A y \in ToSet(TextLines(chunks[p].atoms)) : y < x
    BY <2>3 DEF GoesOn
  <2>6. PICK z : z \in ToSet(TextLines(chunks[p].atoms))
    BY <1>2, <2>1, TextHasLine
  <2>7. /\ Last(TextLines(chunks[p].atoms)) \in ToSet(TextLines(chunks[p].atoms))
        /\ Last(TextLines(chunks[p].atoms)) \in Nat
    BY <1>2, <2>1, <2>6, LastIsTop
  <2>8. x \in Nat /\ x <= Last(TextLines(chunks[n].atoms)) /\ Last(TextLines(chunks[n].atoms)) \in Nat
    BY <1>2, <1>3, <2>5, LastIsTop
  <2>9. Last(TextLines(chunks[p].atoms)) < Last(TextLines(chunks[n].atoms))
    BY <2>5, <2>7, <2>8
  <2>10. Last(LinesIn(chunks[n - 1])) < Last(LinesIn(chunks[n]))
    BY <1>2, <1>3, <2>1, <2>9
  <2>11. /\ Cardinality(SharedAt(chunks, n)) <= Overlap
         /\ \A atom \in SharedAt(chunks, n) : atom.kind = "sentence"
         /\ \/ Len(chunks[n].atoms) = 1
            \/ WordsIn(doc, chunks[n].atoms)
                   <= MaxWords + SumOf([a \in SharedAt(chunks, n) |-> AtomWords(doc, a)], SharedAt(chunks, n))
    BY <2>3, <2>4, Zenon DEF GoesOn
  <2> QED
    BY <1>4, <2>10, <2>11
<1> QED
  BY <1>5, <1>6

\* A block that may not be split is in one chunk.
LEMMA BlocksWhole ==
    ASSUME NEW doc, NEW blocks, NEW sections, Holds(doc, blocks, sections),
           NEW chunks, ChunksFor(doc, sections, chunks),
           NEW m \in 1..Len(blocks), blocks[m].kind \in {"code", "table"}
    PROVE  \E n \in DOMAIN chunks : ToSet(blocks[m].lines) \subseteq ToSet(LinesIn(chunks[n]))
<1>1. PICK n \in 1..Len(sections) : \E i \in DOMAIN sections[n].body : sections[n].body[i] = blocks[m]
  BY DEF Holds
<1>2. PICK i \in DOMAIN sections[n].body : sections[n].body[i] = blocks[m]
  BY <1>1
<1>3. PICK k \in 1..Len(chunks) : ToSet(sections[n].body[i].lines) \subseteq ToSet(TextLines(chunks[k].atoms))
  BY <1>2 DEF ChunksFor
<1>4. k \in DOMAIN chunks
  BY <1>3 DEF ChunksFor
<1>5. LinesIn(chunks[k]) = TextLines(chunks[k].atoms)
  BY DEF LinesIn, TextLines, LinesOf
<1> QED
  BY <1>2, <1>3, <1>4, <1>5

\* So chunks of sections that hold the blocks are a faithful reading of the document.
LEMMA FaithfulFrom ==
    ASSUME NEW doc, NEW blocks, Reads(doc, blocks), NEW sections, Holds(doc, blocks, sections),
           NEW chunks, ChunksFor(doc, sections, chunks)
    PROVE  Faithful(doc, blocks, chunks)
<1>1. DOMAIN blocks = 1..Len(blocks)
  BY DEF Reads, Sorted
<1>2. {blocks[n].lines[1] : n \in {m \in DOMAIN blocks : IsBoundary(doc, blocks[m])}} = AllBoundaries(doc, blocks)
  BY <1>1 DEF AllBoundaries, Boundaries, From
<1>3. {l \in DOMAIN doc : doc[l] # "blank"} = Written(doc)
  BY DEF Written
<1>4. /\ InOrder(FlattenSeq([n \in DOMAIN blocks |-> blocks[n].lines]))
      /\ Written(doc) \subseteq ToSet(FlattenSeq([n \in DOMAIN blocks |-> blocks[n].lines]))
  BY BlocksInOrder
<1>5. \A l \in IF AllBoundaries(doc, blocks) = Written(doc) THEN Written(doc)
               ELSE Written(doc) \ AllBoundaries(doc, blocks) :
         \E n \in DOMAIN chunks :
            /\ l \in ToSet(LinesIn(chunks[n]))
            /\ InOrder(chunks[n].path)
            /\ ToSet(chunks[n].path) = IF AllBoundaries(doc, blocks) = Written(doc) THEN {}
                                       ELSE Enclosing(doc, AllBoundaries(doc, blocks), l)
  BY LinesCovered DEF WantedLines, PathAt, Outline
<1>6. \A n \in DOMAIN chunks :
         /\ InOrder(LinesIn(chunks[n]))
         /\ n > 1 => Last(LinesIn(chunks[n - 1])) < Last(LinesIn(chunks[n]))
         /\ Cardinality(SharedAt(chunks, n)) <= Overlap
         /\ \A atom \in SharedAt(chunks, n) : atom.kind = "sentence"
         /\ \/ Len(chunks[n].atoms) = 1
            \/ WordsIn(doc, chunks[n].atoms)
                   <= MaxWords + SumOf([a \in SharedAt(chunks, n) |-> AtomWords(doc, a)], SharedAt(chunks, n))
  <2>1. SectionsFor(doc, sections)
    BY DEF Holds
  <2> QED
    BY <2>1, ChunkKeeps
<1>7. \A n \in DOMAIN blocks : blocks[n].kind \in {"code", "table"} =>
         \E m \in DOMAIN chunks : ToSet(blocks[n].lines) \subseteq ToSet(LinesIn(chunks[m]))
  BY <1>1, BlocksWhole
<1> QED
  BY <1>2, <1>3, <1>4, <1>5, <1>6, <1>7, Zenon DEF Faithful, SharedAt

\* The blocks of a document read it.
LEMMA BlocksRead ==
    ASSUME NEW doc \in Seq(LineKinds)
    PROVE  Reads(doc, ParseBlocks(doc))
<1>1. PICK blocks : blocks = ParseBlocks(doc)
  OBVIOUS
<1>2. Sorted(doc, blocks)
  BY <1>1, SectionsAre
<1>3. ParsedTo(doc, Len(doc), blocks)
  BY <1>1, BlocksAre
<1>4. PICK size \in Nat : size = Len(blocks) /\ DOMAIN blocks = 1..size
  BY <1>2 DEF Sorted
<1>5. ASSUME NEW l \in Written(doc)
      PROVE  \E n \in 1..size : l \in ToSet(blocks[n].lines)
  <2>1. l \in 1..Len(doc) /\ doc[l] # "blank" /\ l \in Nat
    BY <1>5 DEF Written
  <2>2. PICK n \in 1..size : From(blocks[n]) <= l /\ l <= To(blocks[n])
    BY <1>3, <1>4, <2>1 DEF ParsedTo
  <2>3. IsBlock(doc, blocks[n])
    BY <1>2, <1>4 DEF Sorted
  <2>4. /\ ToSet(blocks[n].lines) = From(blocks[n])..To(blocks[n])
        /\ From(blocks[n]) \in Nat /\ To(blocks[n]) \in Nat
    BY <2>3, BlockSpan
  <2>5. l \in From(blocks[n])..To(blocks[n])
    BY <2>1, <2>2, <2>4
  <2> QED
    BY <2>4, <2>5
<1> QED
  BY <1>1, <1>2, <1>4, <1>5 DEF Reads

\* Where the blocks of a reading begin: at a written line, each at one of its own; a boundary
\* is that line alone.
LEMMA BlockBegins ==
    ASSUME NEW doc, NEW blocks, Reads(doc, blocks), NEW m \in 1..Len(blocks)
    PROVE  /\ IsBlock(doc, blocks[m]) /\ From(blocks[m]) \in Written(doc) /\ From(blocks[m]) \in ToSet(blocks[m].lines)
           /\ IsBoundary(doc, blocks[m]) => ToSet(blocks[m].lines) = {From(blocks[m])}
           /\ \A n \in 1..Len(blocks) : From(blocks[m]) = From(blocks[n]) => m = n
<1>1. PICK size \in Nat : size = Len(blocks) /\ DOMAIN blocks = 1..size
  BY DEF Reads, Sorted
<1>2. \A n \in 1..size : IsBlock(doc, blocks[n])
  BY <1>1 DEF Reads, Sorted
<1>3. \A n \in 1..size : /\ From(blocks[n]) \in Nat /\ To(blocks[n]) \in Nat /\ From(blocks[n]) <= To(blocks[n])
                         /\ ToSet(blocks[n].lines) = From(blocks[n])..To(blocks[n])
  BY <1>2, BlockSpan DEF Reads
<1>4. \A i, n \in 1..size : i < n => To(blocks[i]) < From(blocks[n])
  BY <1>1 DEF Reads, Sorted
<1>5. From(blocks[m]) \in 1..Len(doc) /\ doc[From(blocks[m])] # "blank"
  BY <1>1, <1>2 DEF IsBlock
<1>6. From(blocks[m]) \in Written(doc)
  <2>1. DOMAIN doc = 1..Len(doc)
    BY DEF Reads
  <2> QED
    BY <1>5, <2>1 DEF Written
<1>7. From(blocks[m]) \in ToSet(blocks[m].lines)
  <2>1. From(blocks[m]) \in From(blocks[m])..To(blocks[m])
    BY <1>1, <1>3
  <2> QED
    BY <1>1, <1>3, <2>1
<1>8. ASSUME IsBoundary(doc, blocks[m])
      PROVE  ToSet(blocks[m].lines) = {From(blocks[m])}
  <2>1. To(blocks[m]) = From(blocks[m])
    BY <1>1, <1>2, <1>8 DEF IsBoundary, IsBlock
  <2>2. PICK a \in Nat : a = From(blocks[m]) /\ a = To(blocks[m])
    BY <1>1, <1>3, <2>1
  <2>3. a..a = {a}
    OBVIOUS
  <2> QED
    BY <1>1, <1>3, <2>2, <2>3
<1>9. ASSUME NEW n \in 1..size, From(blocks[m]) = From(blocks[n])
      PROVE  m = n
  <2>1. PICK p \in 1..size : p = m
    BY <1>1
  <2>2. ~(p < n)
    <3>1. ASSUME p < n PROVE FALSE
      <4>1. To(blocks[p]) < From(blocks[n]) /\ From(blocks[p]) <= To(blocks[p])
        BY <1>3, <1>4, <3>1
      <4>2. From(blocks[p]) \in Nat /\ To(blocks[p]) \in Nat /\ From(blocks[n]) = From(blocks[p])
        BY <1>3, <1>9, <2>1
      <4> QED
        BY <4>1, <4>2
    <3> QED
      BY <3>1
  <2>3. ~(n < p)
    <3>1. ASSUME n < p PROVE FALSE
      <4>1. To(blocks[n]) < From(blocks[p]) /\ From(blocks[n]) <= To(blocks[n])
        BY <1>3, <1>4, <3>1
      <4>2. From(blocks[n]) \in Nat /\ To(blocks[n]) \in Nat /\ From(blocks[n]) = From(blocks[p])
        BY <1>3, <1>9, <2>1
      <4> QED
        BY <4>1, <4>2
    <3> QED
      BY <3>1
  <2>4. p \in Nat /\ n \in Nat
    OBVIOUS
  <2>5. p < n \/ n < p \/ p = n
    BY <2>4
  <2> QED
    BY <2>1, <2>2, <2>3, <2>5
<1> QED
  BY <1>1, <1>2, <1>6, <1>7, <1>8, <1>9

\* Each section's body is blocks that are no boundaries, and each such block is in a body: what
\* SectionsTo says of them.
BodiesOf(doc, blocks, sections) ==
    /\ \A n \in 1..Len(sections) : \A i \in DOMAIN sections[n].body :
          \E m \in 1..Len(blocks) : sections[n].body[i] = blocks[m] /\ ~IsBoundary(doc, blocks[m])
    /\ \A m \in 1..Len(blocks) : ~IsBoundary(doc, blocks[m]) =>
          \E n \in 1..Len(sections) : \E i \in DOMAIN sections[n].body : sections[n].body[i] = blocks[m]

\* No section has a body just if the headings are all that is written.
LEMMA OnlyHeadings ==
    ASSUME NEW doc, NEW blocks, Reads(doc, blocks), NEW sections, SectionsFor(doc, sections),
           BodiesOf(doc, blocks, sections)
    PROVE  (\A n \in 1..Len(sections) : sections[n].body = <<>>) <=> Outline(doc, blocks)
<1>1. AllBoundaries(doc, blocks) = {From(blocks[m]) : m \in {j \in 1..Len(blocks) : IsBoundary(doc, blocks[j])}}
  BY DEF AllBoundaries, Boundaries
<1>2. AllBoundaries(doc, blocks) \subseteq Written(doc)
  BY <1>1, BlockBegins
<1>3. ASSUME \A n \in 1..Len(sections) : sections[n].body = <<>>
      PROVE  Outline(doc, blocks)
  <2>1. \A m \in 1..Len(blocks) : IsBoundary(doc, blocks[m])
    <3>1. SUFFICES ASSUME NEW m \in 1..Len(blocks), ~IsBoundary(doc, blocks[m]) PROVE FALSE
      OBVIOUS
    <3>2. PICK n \in 1..Len(sections) : \E i \in DOMAIN sections[n].body : sections[n].body[i] = blocks[m]
      BY <3>1 DEF BodiesOf
    <3>3. sections[n].body = <<>>
      BY <1>3
    <3> QED
      BY <3>2, <3>3
  <2>2. ASSUME NEW l \in Written(doc)
        PROVE  l \in AllBoundaries(doc, blocks)
    <3>1. PICK m \in 1..Len(blocks) : l \in ToSet(blocks[m].lines)
      BY <2>2 DEF Reads
    <3>2. IsBoundary(doc, blocks[m])
      BY <2>1
    <3>3. ToSet(blocks[m].lines) = {From(blocks[m])}
      BY <3>2, BlockBegins
    <3>4. l = From(blocks[m])
      BY <3>1, <3>3
    <3> QED
      BY <1>1, <2>1, <3>4
  <2> QED
    BY <1>2, <2>2 DEF Outline
<1>4. ASSUME Outline(doc, blocks), NEW n \in 1..Len(sections)
      PROVE  sections[n].body = <<>>
  <2>1. SUFFICES ASSUME sections[n].body # <<>> PROVE FALSE
    OBVIOUS
  <2>2. sections[n].body \in Seq(BlockRow)
    BY DEF SectionsFor, Sorted
  <2>3. 1 \in DOMAIN sections[n].body
    BY <2>1, <2>2
  <2>4. PICK m \in 1..Len(blocks) : sections[n].body[1] = blocks[m] /\ ~IsBoundary(doc, blocks[m])
    BY <2>3 DEF BodiesOf
  <2>5. From(blocks[m]) \in AllBoundaries(doc, blocks)
    BY <1>4, BlockBegins DEF Outline
  <2>6. PICK j \in 1..Len(blocks) : IsBoundary(doc, blocks[j]) /\ From(blocks[m]) = From(blocks[j])
    BY <1>1, <2>5
  <2>7. m = j
    BY <2>6, BlockBegins
  <2> QED
    BY <2>4, <2>6, <2>7
<1> QED
  BY <1>3, <1>4

\* The sections of a document hold its blocks, if more is written than headings.
LEMMA SectionsHold ==
    ASSUME NEW doc, NEW blocks, Reads(doc, blocks), NEW sections,
           SectionsTo(doc, blocks, Len(blocks), sections)
    PROVE  /\ SectionsFor(doc, sections) /\ BodiesOf(doc, blocks, sections)
           /\ ~Outline(doc, blocks) => Holds(doc, blocks, sections)
<1>1. sections \in Seq(SectionRow) /\ doc \in Seq(LineKinds)
  BY DEF SectionsTo, Stacks, Reads
<1>2. \A n \in 1..Len(sections) : SectionOf(doc, blocks, Len(blocks), sections[n])
  BY DEF SectionsTo
<1>3. SectionsFor(doc, sections)
  BY <1>1, <1>2 DEF SectionsFor, SectionsTo, SectionOf
<1>4. BodiesOf(doc, blocks, sections)
  BY <1>2 DEF BodiesOf, SectionsTo, SectionOf
<1>5. ASSUME ~Outline(doc, blocks)
      PROVE  Holds(doc, blocks, sections)
  <2>1. \A n \in 1..Len(sections) :
           /\ InOrder(sections[n].path)
           /\ \A l \in BodyLines(sections[n].body) : ToSet(sections[n].path) = PathAt(doc, blocks, l)
    BY <1>2, <1>5 DEF SectionOf, PathAt, AllBoundaries
  <2>2. ASSUME NEW m \in 1..Len(blocks), ~IsBoundary(doc, blocks[m])
        PROVE  \E n \in 1..Len(sections) : \E i \in DOMAIN sections[n].body : sections[n].body[i] = blocks[m]
    BY <1>4, <2>2 DEF BodiesOf
  <2>3. ASSUME NEW l \in WantedLines(doc, blocks)
        PROVE  \E n \in 1..Len(sections) : l \in BodyLines(sections[n].body)
    <3>1. l \in Written(doc) /\ l \notin AllBoundaries(doc, blocks)
      BY <1>5, <2>3 DEF WantedLines
    <3>2. PICK m \in 1..Len(blocks) : l \in ToSet(blocks[m].lines)
      BY <3>1 DEF Reads
    <3>3. ~IsBoundary(doc, blocks[m])
      <4>1. SUFFICES ASSUME IsBoundary(doc, blocks[m]) PROVE FALSE
        OBVIOUS
      <4>2. ToSet(blocks[m].lines) = {From(blocks[m])}
        BY <4>1, BlockBegins
      <4>3. l = From(blocks[m])
        BY <3>2, <4>2
      <4>4. l \in AllBoundaries(doc, blocks)
        BY <4>1, <4>3 DEF AllBoundaries, Boundaries
      <4> QED
        BY <3>1, <4>4
    <3>4. PICK n \in 1..Len(sections) : \E i \in DOMAIN sections[n].body : sections[n].body[i] = blocks[m]
      BY <2>2, <3>3
    <3> QED
      BY <3>2, <3>4 DEF BodyLines
  <2>4. \A m \in 1..Len(blocks) : blocks[m].kind \in {"code", "table"} =>
           \E n \in 1..Len(sections) : \E i \in DOMAIN sections[n].body : sections[n].body[i] = blocks[m]
    BY <2>2 DEF IsBoundary
  <2> QED
    BY <1>3, <2>1, <2>3, <2>4 DEF Holds
<1> QED
  BY <1>3, <1>4, <1>5

\* all the blocks as one section without a heading
Whole(blocks) == <<[path |-> <<>>, body |-> blocks]>>

\* A section by itself gives its own chunks.
LEMMA OneSection ==
    ASSUME NEW doc, NEW blocks, Reads(doc, blocks)
    PROVE  /\ Whole(blocks) \in Seq(SectionRow) /\ Len(Whole(blocks)) = 1
           /\ Whole(blocks)[1].path = <<>> /\ Whole(blocks)[1].body = blocks
           /\ AllChunks(doc, Whole(blocks)) = SectionChunks(doc, <<>>, blocks)
<1>1. PICK s : s = [path |-> <<>>, body |-> blocks]
  OBVIOUS
<1>2. s \in SectionRow /\ s.path = <<>> /\ s.body = blocks /\ <<>> \in Seq(Nat)
  <2>1. blocks \in Seq(BlockRow) /\ <<>> \in Seq(Nat)
    BY DEF Reads, Sorted
  <2> QED
    BY <1>1, <2>1 DEF SectionRow
<1>3. Whole(blocks) = <<s>>
  BY <1>1 DEF Whole
<1>4. <<s>> \in Seq(SectionRow) /\ Len(<<s>>) = 1 /\ <<s>>[1] = s /\ DOMAIN <<s>> = 1..1
  BY <1>2
<1>5. PICK chunks : chunks = SectionChunks(doc, <<>>, blocks)
  OBVIOUS
<1>6. chunks \in Seq(ChunkRow)
  <2>1. doc \in Seq(LineKinds) /\ Sorted(doc, blocks)
    BY DEF Reads
  <2> QED
    BY <1>2, <1>5, <2>1, SectionChunksAre DEF ChunksUnder
<1>7. PICK seqs : seqs = [n \in 1..1 |-> chunks]
  OBVIOUS
<1>8. AllChunks(doc, <<s>>) = FlattenSeq(seqs)
  <2>1. \A n \in 1..1 : <<s>>[n].path = <<>> /\ <<s>>[n].body = blocks
    BY <1>2, <1>4
  <2>2. [n \in DOMAIN <<s>> |-> SectionChunks(doc, <<s>>[n].path, <<s>>[n].body)] = seqs
    BY <1>4, <1>5, <1>7, <2>1
  <2> QED
    BY <2>2 DEF AllChunks
<1>9. seqs \in Seq(Seq(ChunkRow)) /\ Len(seqs) = 1
  <2>1. PICK T : T = Seq(ChunkRow)
    OBVIOUS
  <2>2. PICK n \in Nat : n = 1
    OBVIOUS
  <2>3. seqs \in [1..n -> T]
    BY <1>6, <1>7, <2>1, <2>2
  <2>4. seqs \in Seq(T) /\ Len(seqs) = n
    BY <2>3
  <2> QED
    BY <2>1, <2>2, <2>4
<1>10. FlattenSeq(seqs) = chunks
  <2>1. PICK v \in [0..Len(seqs) -> Seq(ChunkRow)] :
            /\ v[0] = <<>> /\ \A k \in 1..Len(seqs) : v[k] = v[k - 1] \o seqs[k]
            /\ FlattenSeq(seqs) = v[Len(seqs)]
    BY <1>9, FlatRuns
  <2>2. 1 \in 1..Len(seqs) /\ 1 - 1 = 0 /\ seqs[1] = chunks
    BY <1>7, <1>9
  <2>3. v[1] = <<>> \o chunks
    BY <2>1, <2>2
  <2> QED
    BY <1>6, <1>9, <2>1, <2>3
<1> QED
  BY <1>2, <1>3, <1>4, <1>5, <1>8, <1>10

\* If only headings are written, one section holds them all.
LEMMA WholeHolds ==
    ASSUME NEW doc, NEW blocks, Reads(doc, blocks)
    PROVE  /\ SectionsFor(doc, Whole(blocks))
           /\ Outline(doc, blocks) => Holds(doc, blocks, Whole(blocks))
<1>1. PICK sections : sections = Whole(blocks)
  OBVIOUS
<1>2. /\ sections \in Seq(SectionRow) /\ Len(sections) = 1
      /\ sections[1].path = <<>> /\ sections[1].body = blocks
  BY <1>1, OneSection
<1>3. \A n \in 1..1 : n = 1
  OBVIOUS
<1>4. Sorted(doc, blocks) /\ doc \in Seq(LineKinds)
  BY DEF Reads
<1>5. SectionsFor(doc, sections)
  BY <1>2, <1>3, <1>4 DEF SectionsFor
<1>6. ASSUME Outline(doc, blocks)
      PROVE  Holds(doc, blocks, sections)
  <2>1. InOrder(sections[1].path) /\ ToSet(sections[1].path) = {}
    BY <1>2 DEF InOrder, ToSet
  <2>2. \A l \in BodyLines(sections[1].body) : ToSet(sections[1].path) = PathAt(doc, blocks, l)
    BY <1>6, <2>1 DEF PathAt
  <2>3. DOMAIN blocks = 1..Len(blocks)
    BY <1>4 DEF Sorted
  <2>4. \A l \in WantedLines(doc, blocks) : l \in BodyLines(sections[1].body)
    <3>1. SUFFICES ASSUME NEW l \in WantedLines(doc, blocks) PROVE l \in BodyLines(blocks)
      BY <1>2
    <3>2. l \in Written(doc)
      BY <1>6, <3>1 DEF WantedLines
    <3>3. PICK m \in 1..Len(blocks) : l \in ToSet(blocks[m].lines)
      BY <3>2 DEF Reads
    <3> QED
      BY <2>3, <3>3 DEF BodyLines
  <2>5. \A m \in 1..Len(blocks) : \E i \in DOMAIN sections[1].body : sections[1].body[i] = blocks[m]
    BY <1>2, <2>3
  <2>6. 1 \in 1..Len(sections)
    BY <1>2
  <2> QED
    BY <1>2, <1>3, <1>5, <2>1, <2>2, <2>4, <2>5, <2>6 DEF Holds
<1> QED
  BY <1>1, <1>5, <1>6

\* What chunk_markdown makes of any document is a faithful reading of it.
LEMMA ChunkMarkdownReads ==
    ASSUME NEW doc \in Seq(LineKinds)
    PROVE  Faithful(doc, ParseBlocks(doc), ChunkMarkdown(doc))
<1>1. PICK blocks : blocks = ParseBlocks(doc)
  OBVIOUS
<1>2. PICK sections : sections = Sections(doc)
  OBVIOUS
<1>3. Reads(doc, blocks)
  BY <1>1, BlocksRead
<1>4. SectionsTo(doc, blocks, Len(blocks), sections)
  BY <1>1, <1>2, SectionsAre
<1>5. SectionsFor(doc, sections) /\ BodiesOf(doc, blocks, sections) /\ (~Outline(doc, blocks) => Holds(doc, blocks, sections))
  BY <1>3, <1>4, SectionsHold
<1>6. ChunksFor(doc, sections, AllChunks(doc, sections))
  BY <1>5, ChunksAre
<1>7. AllChunks(doc, sections) = <<>> <=> Outline(doc, blocks)
  <2>1. AllChunks(doc, sections) = <<>> <=> \A n \in 1..Len(sections) : sections[n].body = <<>>
    BY <1>6 DEF ChunksFor
  <2>2. (\A n \in 1..Len(sections) : sections[n].body = <<>>) <=> Outline(doc, blocks)
    BY <1>3, <1>5, OnlyHeadings
  <2> QED
    BY <2>1, <2>2
<1>8. CASE Outline(doc, blocks)
  <2>1. ChunkMarkdown(doc) = AllChunks(doc, Whole(blocks))
    <3>1. ChunkMarkdown(doc) = SectionChunks(doc, <<>>, blocks)
      BY <1>1, <1>2, <1>7, <1>8 DEF ChunkMarkdown
    <3> QED
      BY <1>3, <3>1, OneSection
  <2>2. SectionsFor(doc, Whole(blocks)) /\ Holds(doc, blocks, Whole(blocks))
    BY <1>3, <1>8, WholeHolds
  <2>3. ChunksFor(doc, Whole(blocks), ChunkMarkdown(doc))
    BY <2>1, <2>2, ChunksAre
  <2>4. Faithful(doc, blocks, ChunkMarkdown(doc))
    BY <1>3, <2>2, <2>3, FaithfulFrom
  <2> QED
    BY <1>1, <2>4
<1>9. CASE ~Outline(doc, blocks)
  <2>1. ChunkMarkdown(doc) = AllChunks(doc, sections)
    BY <1>2, <1>7, <1>9 DEF ChunkMarkdown
  <2>2. Faithful(doc, blocks, ChunkMarkdown(doc))
    BY <1>3, <1>5, <1>6, <1>9, <2>1, FaithfulFrom
  <2> QED
    BY <1>1, <2>2
<1> QED
  BY <1>8, <1>9

\* So does the first fenced block of the document stay whole, outside of lists: it is a block
\* of code, and those are in one chunk.
LEMMA FencesKept ==
    ASSUME NEW doc \in Seq(LineKinds)
    PROVE  FenceKept(doc, ChunkMarkdown(doc))
<1>1. Len(doc) \in Nat /\ DOMAIN doc = 1..Len(doc)
  BY LenProperties
<1> DEFINE fences == {l \in DOMAIN doc : doc[l] \in Fences}
<1>2. SUFFICES ASSUME FirstFenced(doc) # {}, ~MayBeInList(doc, Min(FirstFenced(doc)))
               PROVE  InOneChunk(FirstFenced(doc), ChunkMarkdown(doc))
  BY DEF FenceKept
<1>3. fences # {} /\ Closers(doc, Min(fences)) # {}
      /\ FirstFenced(doc) = Min(fences)..Min(Closers(doc, Min(fences)))
  BY <1>2 DEF FirstFenced
<1>4. PICK f : f = Min(fences)
  OBVIOUS
<1>5. f \in fences /\ \A l \in fences : f <= l
  <2>1. fences \subseteq Nat /\ fences # {}
    BY <1>1, <1>3
  <2> HIDE DEF fences
  <2> QED
    BY <1>4, <2>1, FirstPosition
<1>6. PICK z : z = Min(Closers(doc, f))
  OBVIOUS
<1>7. f \in 1..Len(doc) /\ z \in f + 1..Len(doc) /\ FirstFenced(doc) = f..z
  <2>1. f \in 1..Len(doc)
    BY <1>1, <1>5
  <2>2. Closers(doc, f) \subseteq Nat /\ Closers(doc, f) \subseteq f + 1..Len(doc)
    BY <1>1, <2>1 DEF Closers
  <2>3. z \in Closers(doc, f)
    BY <1>3, <1>4, <1>6, <2>2, FirstPosition
  <2> QED
    BY <1>3, <1>4, <1>6, <2>1, <2>2, <2>3
<1>8. Min(FirstFenced(doc)) = f
  <2>1. f..z \subseteq Nat /\ f..z # {} /\ f \in f..z
    BY <1>1, <1>7
  <2>2. Min(f..z) \in f..z /\ Min(f..z) <= f
    BY <2>1, FirstPosition
  <2> QED
    BY <1>1, <1>7, <2>2
<1>9. FirstFence(doc, f)
  <2>1. \A k \in 1..f - 1 : doc[k] \notin Fences
    <3>1. TAKE k \in 1..f - 1
    <3>2. k \in DOMAIN doc /\ ~(f <= k)
      BY <1>1, <1>7
    <3> QED
      BY <1>5, <3>2
  <2>2. ~MayBeInList(doc, f) /\ doc[f] \in Fences /\ Closers(doc, f) # {}
    BY <1>2, <1>3, <1>4, <1>5, <1>8
  <2> QED
    BY <1>7, <2>1, <2>2 DEF FirstFence
<1> HIDE DEF fences
<1>10. PICK blocks : blocks = ParseBlocks(doc)
  OBVIOUS
<1>11. PICK chunks : chunks = ChunkMarkdown(doc)
  OBVIOUS
<1>12. PICK n \in 1..Len(blocks) : blocks[n] = BlockAt(doc, f)
  BY <1>9, <1>10, FenceParsed
<1>13. blocks[n].kind = "code" /\ ToSet(blocks[n].lines) = f..z
  <2>1. BlockAt(doc, f) = Block("code", f, z)
    BY <1>6, <1>9, FenceAt DEF FirstFence
  <2>2. ToSet(Numbers(f, z)) = f..z
    BY <1>1, <1>7, NumbersAre
  <2> QED
    BY <1>12, <2>1, <2>2 DEF Block
<1>14. DOMAIN blocks = 1..Len(blocks)
  <2>1. PICK v \in [0..Len(doc) -> Seq(BlockRow)] : blocks = v[Len(doc)]
    BY <1>10, ParseWalk
  <2>2. Len(doc) \in 0..Len(doc)
    BY <1>1
  <2>3. blocks \in Seq(BlockRow)
    BY <2>1, <2>2
  <2> QED
    BY <2>3, LenProperties
<1>15. \A b \in DOMAIN blocks : blocks[b].kind \in {"code", "table"} =>
          \E m \in DOMAIN chunks : ToSet(blocks[b].lines) \subseteq ToSet(LinesIn(chunks[m]))
  BY <1>10, <1>11, ChunkMarkdownReads DEF Faithful
<1>16. \E m \in DOMAIN chunks : f..z \subseteq ToSet(LinesIn(chunks[m]))
  BY <1>12, <1>13, <1>14, <1>15
<1> QED
  BY <1>7, <1>11, <1>16 DEF InOneChunk

\* What chunk_markdown makes of any sequence of lines is faithful to it: nothing is lost,
\* reordered or filed under other headings than those the parser found, what it took for code
\* or a table is whole, and the first fenced block too unless it may be nested in a list.
THEOREM ChunkMarkdownFaithful ==
    ASSUME NEW doc \in Seq(LineKinds)
    PROVE  /\ Faithful(doc, ParseBlocks(doc), ChunkMarkdown(doc))
           /\ FenceKept(doc, ChunkMarkdown(doc))
BY ChunkMarkdownReads, FencesKept

-----------------------------------------------------------------------------
(* The chunks of the document being written *)

\* A document is lines.
LEMMA DocumentStarts ==
    ASSUME ChunkInit
    PROVE  document \in Seq(LineKinds)
BY DEF ChunkInit

\* A line more is still a document.
LEMMA DocumentGrows ==
    ASSUME document \in Seq(LineKinds), ChunkNext \/ UNCHANGED document
    PROVE  document' \in Seq(LineKinds)
BY AppendProperties DEF ChunkNext, WriteLine

\* ChunksFaithful holds of every document that can be written, however long, for every cap on
\* the words of a chunk and every overlap (semantic.chunk_markdown).
THEOREM ChunksAreFaithful == ServicesSpec => []ChunksFaithful
<1>1. ServicesInit => document \in Seq(LineKinds)
  BY DocumentStarts DEF ServicesInit
<1>2. document \in Seq(LineKinds) /\ [ServicesNext]_serviceVars => (document \in Seq(LineKinds))'
  <2>1. SUFFICES ASSUME document \in Seq(LineKinds), [ServicesNext]_serviceVars
                 PROVE  document' \in Seq(LineKinds)
    OBVIOUS
  <2>2. ChunkNext \/ UNCHANGED document
    BY <2>1 DEF ServicesNext, serviceVars
  <2> QED
    BY <2>1, <2>2, DocumentGrows
<1>3. document \in Seq(LineKinds) => ChunksFaithful
  BY ChunkMarkdownFaithful DEF ChunksFaithful
<1> QED
  BY <1>1, <1>2, <1>3, PTL DEF ServicesSpec
=============================================================================
