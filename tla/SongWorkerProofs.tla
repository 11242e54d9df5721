--------------------------- MODULE SongWorkerProofs ---------------------------
(***************************************************************************)
(* Proofs about the caches of the GPU worker, for any songs and lengths,   *)
(* hop, overlap and history, radius, quotas and bounds.  What is played    *)
(* from a cache is the separation of the very frames in the window, but    *)
(* for frames garbled where the worker was not aware of a new host: an     *)
(* entry holds the separation of its source, and a lookup takes frames at  *)
(* a place where they are the window's.  That the entries do so rests on   *)
(* how songs are put together, from the anchors of the timeline through    *)
(* segments, hops, the crossfade and the builders, which is most of this   *)
(* module.  The number of songs the page shows is the true one.  And a     *)
(* replay of songs that are stored needs no separation: where the timeline *)
(* is true, its segments cover the window, and each of them is found.  The *)
(* last sections say what the loop over the segments of a hop does to the  *)
(* builder, which WholePlayProofs needs.                                   *)
(***************************************************************************)
EXTENDS SongWorker, TLAPS, FiniteSetTheorems, SequenceTheorems, WellFoundedInduction

-----------------------------------------------------------------------------
(* The inductive invariant of ServedIsOwnSeparation.                       *)

\* A frame of audio, of any place in any song.
Heard == [song : Songs, pos : Nat]

\* What a separation of frames by a profile yields.
SeparationOf(source, p) == [i \in 1..Len(source) |-> <<source[i], p>>]
Stems == Seq((Heard \X Profiles) \cup {Garbled})

\* What songs are made of: frames separated by a profile, or garbled ones where the worker
\* was not aware of a new host.
Imprints == Profiles \X {{}, {Garbled}}
Garble == IF missed THEN {Garbled} ELSE {}
Imprint == <<profile, Garble>>

Separates(stems, source, p) ==
    /\ Len(stems) = Len(source)
    /\ \A i \in 1..Len(source) : stems[i] = <<source[i], p[1]>> \/ stems[i] \in p[2]

Anchors == [frame : Nat, pos : Nat, length : Nat, rtp : Nat, revision : Nat, titled : BOOLEAN]
Sorted(list) == \A i, j \in 1..Len(list) : i <= j => list[i].frame <= list[j].frame

Hops(p) == {h \in [from : Nat, source : Seq(Heard), stems : Stems] :
               Len(h.source) = Hop /\ Separates(h.stems, h.source, p)}

Builders(p) == {b \in [rtp : Nat, revision : Nat, length : Nat, first : Int, trackEnd : Int,
                       streamEnd : Int, source : Seq(Heard), stems : Stems] :
                   Separates(b.stems, b.source, p)}

Assemblies(p) == [builder : Builders(p) \cup {None}, completed : SUBSET Nat, tail : Stems,
                  history : Seq(Hops(p)), last : Nat, start : Nat \cup {None}]

SongOps(p) == [op : {"song"}, builder : Builders(p)]
WindowOps == [op : {"window", "complete"}, source : Seq(Heard), profile : Profiles]
PlainOps == [op : {"prune", "sweep"}]
Ops(p) == SongOps(p) \cup WindowOps \cup PlainOps

States == {"building", "complete", "damaged", "husk"}

SongEntries(g) ==
    {e \in [source : Seq(Heard), stems : Stems, length : Nat, profile : Profiles,
            state : States, used : Nat] :
        Len(e.source) = e.length /\ Separates(e.stems, e.source, <<e.profile, g>>)}

WindowEntries ==
    {w \in [source : Seq(Heard), stems : Stems, profile : Profiles, state : States,
            used : Nat] :
        Len(w.source) = Window /\ w.stems = SeparationOf(w.source, w.profile)}

HostOK ==
    /\ head \in Heard /\ stream \in Seq(Heard) /\ Len(stream) <= Window
    /\ at \in Nat /\ revision \in Nat /\ seq \in Nat \ {0} /\ profile \in Profiles
    /\ named \in BOOLEAN
    /\ anchors \in Seq(Anchors) /\ Sorted(anchors)
    /\ \A i \in 1..Len(anchors) : anchors[i].frame <= Now

AssemblyOK ==
    /\ assembly \in Assemblies(Imprint)
    /\ assembly.last < seq
    /\ assembly.last = 0 \/ assembly.history = <<>> => assembly.tail = <<>>

\* A crossfade that a next window would take is with that window's own stems, or the window
\* is seen to be of another stream.
TailOK ==
    assembly.tail # <<>> /\ assembly.last = seq - 1 =>
        \/ missed
        \/ /\ assembly.start = at - Hop
           /\ Len(stream) >= Overlap /\ Len(assembly.tail) = Overlap
           /\ \A i \in 1..Overlap : assembly.tail[i] = <<stream[i], profile>>
        \/ assembly.start \in Nat \ {0} /\ at = 0

TodoOK == todo \in Seq(Ops(Imprint))

StoresOut ==
    \A i \in 1..Len(todo) : todo[i].op = "window" =>
        /\ todo[i].source = out.source /\ todo[i].profile = out.profile
        /\ Len(out.source) = Window
        /\ out.stems = SeparationOf(out.source, out.profile)

CachesOK == songs \subseteq SongEntries(Garble) /\ windows \subseteq WindowEntries

ServeInv ==
    /\ HostOK /\ AssemblyOK /\ TailOK /\ TodoOK /\ StoresOut /\ CachesOK
    /\ missed \in BOOLEAN /\ ServedIsOwnSeparation

-----------------------------------------------------------------------------
(* Sequences, folds and separations.                                       *)

LEMMA LeastIsThere ==
    ASSUME NEW A \in SUBSET Nat, A # {}
    PROVE  \E n \in A : \A m \in A : n <= m
<1> DEFINE R == {p \in Nat \X Nat : p[1] < p[2]}
<1>1. IsWellFoundedOn(R, Nat)
  BY NatLessThanWellFounded DEF OpToRel
<1>2. PICK n \in A : \A m \in A : <<m, n>> \notin R
  <2> HIDE DEF R
  <2> QED  BY <1>1, WFMin
<1>3. \A m \in A : ~(m < n)
  BY <1>2
<1> QED  BY <1>3

LEMMA UpTo ==
    ASSUME NEW N \in Nat, NEW A, 0 \in A, \A n \in 0..(N - 1) : n \in A => n + 1 \in A
    PROVE  0..N \subseteq A
<1> DEFINE Without == {n \in 0..N : n \notin A}
<1>1. SUFFICES ASSUME Without # {} PROVE FALSE
  OBVIOUS
<1>2. PICK n \in Without : \A m \in Without : n <= m
  <2>1. Without \in SUBSET Nat
    OBVIOUS
  <2> HIDE DEF Without
  <2> QED  BY <1>1, <2>1, LeastIsThere
<1>3. n \in 0..N /\ n \notin A /\ n # 0
  BY <1>2
<1>4. n - 1 \in 0..(N - 1) /\ n - 1 \in A
  BY <1>2, <1>3
<1> QED  BY <1>3, <1>4

\* Min and Max of a set of numbers, the latter bounded.
LEMMA MinIsThere ==
    ASSUME NEW A \in SUBSET Nat, A # {}
    PROVE  Min(A) \in A /\ \A m \in A : Min(A) <= m
BY LeastIsThere DEF Min

LEMMA MaxIsThere ==
    ASSUME NEW A \in SUBSET Nat, A # {}, NEW N \in Nat, \A m \in A : m <= N
    PROVE  Max(A) \in A /\ \A m \in A : m <= Max(A)
<1> DEFINE B == {k \in Nat : N - k \in A}
<1>1. PICK n \in A : TRUE
  OBVIOUS
<1>2. N - n \in B
  BY <1>1
<1>3. PICK k \in B : \A m \in B : k <= m
  BY <1>2, LeastIsThere
<1>4. \A m \in A : N - m \in B
  OBVIOUS
<1>5. N - k \in A /\ \A m \in A : m <= N - k
  BY <1>3, <1>4
<1>6. \E x \in A : \A m \in A : x >= m
  BY <1>5
<1> QED  BY <1>6 DEF Max

\* A function given step by step exists.
StepsOn(V, N) == [1..N -> [V -> V]]
Goes(f, v, step, V, N) ==
    f \in [0..N -> V] /\ f[0] = v /\ \A n \in 1..N : f[n] = step[n][f[n - 1]]

LEMMA Iterated ==
    ASSUME NEW N \in Nat, NEW V, NEW v \in V, NEW step \in StepsOn(V, N)
    PROVE  \E f : Goes(f, v, step, V, N)
<1> DEFINE A == {M \in 0..N : \E f : Goes(f, v, step, V, M)}
<1>1. 0 \in A
  <2> DEFINE f == [n \in 0..0 |-> v]
  <2>1. Goes(f, v, step, V, 0)
    BY DEF Goes
  <2> HIDE DEF f
  <2> QED  BY <2>1
<1>2. ASSUME NEW M \in 0..(N - 1), M \in A
      PROVE  M + 1 \in A
  <2>1. PICK f : Goes(f, v, step, V, M)
    BY <1>2
  <2> DEFINE g == [n \in 0..(M + 1) |-> IF n <= M THEN f[n] ELSE step[M + 1][f[M]]]
  <2>2. step[M + 1][f[M]] \in V
    <3>1. M + 1 \in 1..N /\ f[M] \in V
      BY <2>1 DEF Goes
    <3> QED  BY <3>1 DEF StepsOn
  <2>3. g \in [0..(M + 1) -> V]
    BY <2>1, <2>2 DEF Goes
  <2>4. g[0] = v
    BY <2>1 DEF Goes
  <2>5. ASSUME NEW n \in 1..(M + 1) PROVE g[n] = step[n][g[n - 1]]
    <3>1. CASE n \in 1..M
      <4>1. g[n] = f[n] /\ g[n - 1] = f[n - 1]
        BY <3>1
      <4> QED  BY <2>1, <3>1, <4>1 DEF Goes
    <3>2. CASE n = M + 1
      <4>1. g[n] = step[M + 1][f[M]] /\ g[n - 1] = f[M]
        BY <3>2
      <4> QED  BY <3>2, <4>1
    <3> QED  BY <3>1, <3>2
  <2>6. Goes(g, v, step, V, M + 1)
    <3> HIDE DEF g
    <3> QED  BY <2>3, <2>4, <2>5 DEF Goes
  <2> HIDE DEF g
  <2> QED  BY <2>6
<1>3. N \in A
  <2> HIDE DEF A
  <2>1. 0..N \subseteq A
    BY <1>1, <1>2, UpTo
  <2> QED  BY <2>1
<1> QED  BY <1>3

\* The pieces are put together one by one.
LEMMA FlattenSteps ==
    ASSUME NEW S, NEW seqs \in Seq(Seq(S)), Len(seqs) # 0
    PROVE  \E flat :
                /\ FlattenSeq(seqs) = flat[Len(seqs)] /\ flat[1] = seqs[1]
                /\ \A i \in 2..Len(seqs) : flat[i] = flat[i - 1] \o seqs[i]
<1> DEFINE n == Len(seqs)
<1>1. n \in Nat \ {0} /\ \A i \in 1..n : seqs[i] \in Seq(S)
  OBVIOUS
<1> HIDE DEF n
<1> DEFINE Flat(f) == f = [i \in 1..n |-> IF i = 1 THEN seqs[i] ELSE f[i - 1] \o seqs[i]]
           flat == CHOOSE f : Flat(f)
<1>2. FlattenSeq(seqs) = flat[n]
  BY Zenon DEF FlattenSeq, n
<1>3. PICK f : Flat(f)
  <2> DEFINE V == Seq(S)
             step == [k \in 1..(n - 1) |-> [s \in V |-> s \o seqs[k + 1]]]
  <2>1. step \in StepsOn(V, n - 1)
    <3>1. \A k \in 1..(n - 1) : k + 1 \in 1..n
      BY <1>1
    <3>2. \A k \in 1..(n - 1), s \in V : s \o seqs[k + 1] \in V
      BY <1>1, <3>1, ConcatProperties
    <3> HIDE DEF V
    <3> QED  BY <3>2 DEF StepsOn
  <2>2. n - 1 \in Nat /\ seqs[1] \in V
    BY <1>1
  <2>3. PICK g : Goes(g, seqs[1], step, V, n - 1)
    <3> HIDE DEF step, V
    <3> QED  BY <2>1, <2>2, Iterated
  <2> DEFINE h == [i \in 1..n |-> g[i - 1]]
  <2>4. \A i \in 1..n : h[i] = IF i = 1 THEN seqs[i] ELSE h[i - 1] \o seqs[i]
    <3> SUFFICES ASSUME NEW i \in 1..n
                 PROVE  h[i] = IF i = 1 THEN seqs[i] ELSE h[i - 1] \o seqs[i]
      OBVIOUS
    <3>1. CASE i = 1
      BY <1>1, <2>3, <3>1 DEF Goes
    <3>2. CASE i # 1
      <4>1. i - 1 \in 1..(n - 1) /\ i - 1 \in 1..n /\ i - 1 - 1 \in 0..(n - 1)
            /\ i - 1 + 1 = i
        BY <1>1, <3>2
      <4>2. h[i] = g[i - 1] /\ h[i - 1] = g[i - 1 - 1] /\ g[i - 1 - 1] \in V
        BY <2>3, <4>1 DEF Goes
      <4>3. g[i - 1] = step[i - 1][g[i - 1 - 1]]
        BY <2>3, <4>1 DEF Goes
      <4>4. step[i - 1][g[i - 1 - 1]] = g[i - 1 - 1] \o seqs[i - 1 + 1]
        BY <4>1, <4>2
      <4> HIDE DEF h
      <4> QED  BY <3>2, <4>1, <4>2, <4>3, <4>4
    <3> QED  BY <3>1, <3>2
  <2>5. h = [i \in 1..n |-> h[i]]
    OBVIOUS
  <2>6. Flat(h)
    <3> HIDE DEF h
    <3> QED  BY <2>4, <2>5
  <2> HIDE DEF Flat, h
  <2> QED  BY <2>6
<1>4. Flat(flat)
  <2> HIDE DEF Flat
  <2> QED  BY <1>3
<1>5. ASSUME NEW i \in 1..n
      PROVE  flat[i] = IF i = 1 THEN seqs[i] ELSE flat[i - 1] \o seqs[i]
  <2> HIDE DEF flat
  <2> QED  BY <1>4
<1> HIDE DEF flat
<1>6. flat[1] = seqs[1]
  BY <1>1, <1>5
<1>7. ASSUME NEW i \in 2..n PROVE flat[i] = flat[i - 1] \o seqs[i]
  <2>1. i \in 1..n /\ i # 1
    BY <1>1
  <2> QED  BY <1>5, <2>1
<1> QED  BY <1>2, <1>6, <1>7 DEF n

\* The pieces of a sequence of sequences are of its set.
LEMMA FlattenTyped ==
    ASSUME NEW S, NEW seqs \in Seq(Seq(S))
    PROVE  FlattenSeq(seqs) \in Seq(S)
<1> DEFINE n == Len(seqs)
<1>1. CASE n = 0
  <2>1. FlattenSeq(seqs) = seqs /\ seqs = <<>>
    BY <1>1, EmptySeq DEF FlattenSeq
  <2> QED  BY <2>1
<1>2. CASE n # 0
  <2>1. n \in Nat \ {0} /\ \A i \in 1..n : seqs[i] \in Seq(S)
    BY <1>2
  <2>2. PICK flat :
            /\ FlattenSeq(seqs) = flat[n] /\ flat[1] = seqs[1]
            /\ \A i \in 2..n : flat[i] = flat[i - 1] \o seqs[i]
    BY <1>2, FlattenSteps
  <2> HIDE DEF n
  <2> DEFINE A == {k \in Nat : k < n => flat[k + 1] \in Seq(S)}
             m == n - 1
  <2>3. 0 \in A
    BY <2>1, <2>2
  <2>4. ASSUME NEW k \in 0..(m - 1), k \in A
        PROVE  k + 1 \in A
    <3> DEFINE j == k + 2
    <3>1. j \in 2..n /\ j \in 1..n /\ j - 1 = k + 1 /\ k < n
      BY <2>1
    <3> HIDE DEF j
    <3>2. flat[j] = flat[k + 1] \o seqs[j]
      BY <2>2, <3>1
    <3>3. flat[j] \in Seq(S)
      BY <2>1, <2>4, <3>1, <3>2, ConcatProperties
    <3>4. k + 1 + 1 = j
      BY <3>1
    <3> QED  BY <3>3, <3>4
  <2>5. m \in Nat
    BY <2>1
  <2>6. m \in A
    <3> HIDE DEF A, m
    <3>1. \A k \in 0..(m - 1) : k \in A => k + 1 \in A
      BY <2>4
    <3>2. 0..m \subseteq A
      BY <2>3, <2>5, <3>1, UpTo
    <3> QED  BY <2>5, <3>2
  <2> QED  BY <2>1, <2>2, <2>6
<1> QED  BY <1>1, <1>2

-----------------------------------------------------------------------------
LEMMA SeparationTyped ==
    ASSUME NEW source \in Seq(Heard), NEW p \in Profiles
    PROVE  /\ SeparationOf(source, p) \in Stems
           /\ Len(SeparationOf(source, p)) = Len(source)
           /\ \A i \in 1..Len(source) : SeparationOf(source, p)[i] = <<source[i], p>>
BY DEF SeparationOf, Stems

LEMMA ImprintsAre ==
    ASSUME NEW p \in Imprints
    PROVE  p[1] \in Profiles /\ p[2] \in {{}, {Garbled}}
BY DEF Imprints

\* The start of what is separated is separated.
LEMMA SeparatesPart ==
    ASSUME NEW source \in Seq(Heard), NEW stems \in Stems, NEW p, Separates(stems, source, p),
           NEW n \in 0..Len(source)
    PROVE  /\ SubSeq(source, 1, n) \in Seq(Heard)
           /\ Len(SubSeq(source, 1, n)) = n
           /\ SubSeq(stems, 1, n) \in Stems
           /\ Separates(SubSeq(stems, 1, n), SubSeq(source, 1, n), p)
<1> DEFINE S == (Heard \X Profiles) \cup {Garbled}
           a == SubSeq(source, 1, n)
           b == SubSeq(stems, 1, n)
<1>1. /\ stems \in Seq(S) /\ Len(stems) = Len(source) /\ Len(source) \in Nat
      /\ \A i \in 1..Len(source) : stems[i] = <<source[i], p[1]>> \/ stems[i] \in p[2]
  BY DEF Stems, Separates
<1> HIDE DEF S
<1>2. n \in Nat /\ (\A i \in 1..n : source[i] \in Heard /\ stems[i] \in S)
  BY <1>1
<1>3. a \in Seq(Heard) /\ Len(a) = n /\ \A i \in 1..n : a[i] = source[i]
  BY <1>2, SubSeqProperties
<1>4. b \in Seq(S) /\ Len(b) = n /\ \A i \in 1..n : b[i] = stems[i]
  BY <1>2, SubSeqProperties
<1> HIDE DEF a, b
<1>5. ASSUME NEW i \in 1..n PROVE b[i] = <<a[i], p[1]>> \/ b[i] \in p[2]
  <2>1. i \in 1..Len(source)
    BY <1>1
  <2>2. stems[i] = <<source[i], p[1]>> \/ stems[i] \in p[2]
    BY <1>1, <2>1
  <2>3. a[i] = source[i] /\ b[i] = stems[i]
    BY <1>3, <1>4
  <2> QED  BY <2>2, <2>3
<1>6. Separates(b, a, p)
  BY <1>3, <1>4, <1>5 DEF Separates
<1> QED  BY <1>3, <1>4, <1>6 DEF a, b, S, Stems

\* What is put together of two that are separated is separated.
LEMMA SeparatesBoth ==
    ASSUME NEW s \in Seq(Heard), NEW t \in Seq(Heard), NEW a \in Stems, NEW b \in Stems, NEW p,
           Separates(a, s, p), Separates(b, t, p)
    PROVE  /\ s \o t \in Seq(Heard) /\ a \o b \in Stems
           /\ Separates(a \o b, s \o t, p)
<1> DEFINE S == (Heard \X Profiles) \cup {Garbled}
<1>1. /\ a \in Seq(S) /\ Len(a) = Len(s)
      /\ \A i \in 1..Len(s) : a[i] = <<s[i], p[1]>> \/ a[i] \in p[2]
  BY DEF Stems, Separates
<1>2. /\ b \in Seq(S) /\ Len(b) = Len(t)
      /\ \A i \in 1..Len(t) : b[i] = <<t[i], p[1]>> \/ b[i] \in p[2]
  BY DEF Stems, Separates
<1> HIDE DEF S
<1>3. /\ s \o t \in Seq(Heard) /\ Len(s \o t) = Len(s) + Len(t)
      /\ \A i \in 1..(Len(s) + Len(t)) :
            (s \o t)[i] = IF i <= Len(s) THEN s[i] ELSE t[i - Len(s)]
  BY ConcatProperties
<1>4. /\ a \o b \in Seq(S) /\ Len(a \o b) = Len(s) + Len(t)
      /\ \A i \in 1..(Len(s) + Len(t)) :
            (a \o b)[i] = IF i <= Len(s) THEN a[i] ELSE b[i - Len(s)]
  <2>1. /\ a \o b \in Seq(S) /\ Len(a \o b) = Len(a) + Len(b)
        /\ \A i \in 1..(Len(a) + Len(b)) :
              (a \o b)[i] = IF i <= Len(a) THEN a[i] ELSE b[i - Len(a)]
    BY <1>1, <1>2, ConcatProperties
  <2> QED  BY <1>1, <1>2, <2>1
<1>5. Len(s) \in Nat /\ Len(t) \in Nat
  OBVIOUS
<1>6. ASSUME NEW i \in 1..(Len(s) + Len(t))
      PROVE  (a \o b)[i] = <<(s \o t)[i], p[1]>> \/ (a \o b)[i] \in p[2]
  <2>1. CASE i <= Len(s)
    <3>1. i \in 1..Len(s)
      BY <1>5, <2>1
    <3> QED  BY <1>1, <1>3, <1>4, <2>1, <3>1
  <2>2. CASE ~(i <= Len(s))
    <3>1. i - Len(s) \in 1..Len(t)
      BY <1>5, <2>2
    <3> QED  BY <1>2, <1>3, <1>4, <2>2, <3>1
  <2> QED  BY <2>1, <2>2
<1>7. Separates(a \o b, s \o t, p)
  BY <1>3, <1>4, <1>6 DEF Separates
<1> QED  BY <1>3, <1>4, <1>7 DEF S, Stems

-----------------------------------------------------------------------------
(* The timeline.                                                           *)

LEMMA AnchorIs ==
    ASSUME NEW list \in Seq(Anchors)
    PROVE  Len(list) \in Nat /\ \A i \in 1..Len(list) : list[i] \in Anchors /\ list[i].frame \in Nat
<1>1. Len(list) \in Nat /\ \A i \in 1..Len(list) : list[i] \in Anchors
  OBVIOUS
<1> QED  BY <1>1 DEF Anchors

LEMMA ToldByIs ==
    ASSUME NEW list \in Seq(Anchors), NEW f \in Int
    PROVE  /\ ToldBy(list, f) \in 0..Len(list)
           /\ ToldBy(list, f) # 0 => list[ToldBy(list, f)].frame <= f
           /\ \A i \in 1..Len(list) : i > ToldBy(list, f) => list[i].frame > f
<1> DEFINE A == {0} \cup {i \in 1..Len(list) : list[i].frame <= f}
<1>1. Len(list) \in Nat /\ \A i \in 1..Len(list) : list[i].frame \in Nat
  BY AnchorIs
<1>2. A \in SUBSET Nat /\ A # {} /\ \A m \in A : m <= Len(list)
  BY <1>1
<1>3. Max(A) \in A /\ \A m \in A : m <= Max(A)
  <2> HIDE DEF A
  <2> QED  BY <1>1, <1>2, MaxIsThere
<1>4. ToldBy(list, f) = Max(A)
  BY DEF ToldBy
<1> DEFINE t == Max(A)
<1>5. t = 0 \/ (t \in 1..Len(list) /\ list[t].frame <= f)
  <2> HIDE DEF t
  <2>1. t \in A
    BY <1>3 DEF t
  <2> QED  BY <2>1
<1>6. \A i \in 1..Len(list) : list[i].frame <= f => i <= t
  <2> HIDE DEF t
  <2>1. \A m \in A : m <= t
    BY <1>3 DEF t
  <2> QED  BY <2>1
<1> HIDE DEF t, A
<1>7. t \in 0..Len(list)
  BY <1>1, <1>5
<1>8. \A i \in 1..Len(list) : i > t => list[i].frame > f
  BY <1>1, <1>6, <1>7
<1>9. ToldBy(list, f) = t
  BY <1>4 DEF t
<1> QED  BY <1>5, <1>7, <1>8, <1>9

\* The anchor that is looked at first.
FirstOf(list, from) == Max({1, ToldBy(list, from)})

LEMMA FirstOfIs ==
    ASSUME NEW list \in Seq(Anchors), NEW from \in Int
    PROVE  FirstOf(list, from) \in Nat \ {0} /\ FirstOf(list, from) >= ToldBy(list, from)
<1> DEFINE t == ToldBy(list, from)
<1>1. t \in Nat
  BY ToldByIs
<1> HIDE DEF t
<1>2. {1, t} \in SUBSET Nat /\ \A m \in {1, t} : m <= t + 1
  BY <1>1
<1>3. Max({1, t}) \in {1, t} /\ \A m \in {1, t} : m <= Max({1, t})
  <2>1. t + 1 \in Nat
    BY <1>1
  <2> QED  BY <1>2, <2>1, MaxIsThere
<1> QED  BY <1>1, <1>3 DEF t, FirstOf

\* The anchors written beside a window are some of those there are, in their order.
LEMMA AnchorsKept ==
    ASSUME NEW list \in Seq(Anchors), Sorted(list), NEW from \in Int, NEW to \in Int
    PROVE  /\ AnchorsForWindow(list, from, to) \in Seq(Anchors)
           /\ Sorted(AnchorsForWindow(list, from, to))
           /\ \A i \in 1..Len(AnchorsForWindow(list, from, to)) :
                \E j \in 1..Len(list) : AnchorsForWindow(list, from, to)[i] = list[j]
<1> DEFINE m == FirstOf(list, from)
           n == ToldBy(list, to)
           r == SubSeq(list, m, n)
<1>1. m \in Nat \ {0} /\ n \in 0..Len(list) /\ Len(list) \in Nat
  <2>1. m \in Nat \ {0}
    BY FirstOfIs
  <2>2. n \in 0..Len(list)
    BY ToldByIs
  <2> QED  BY <2>1, <2>2, AnchorIs
<1>2. AnchorsForWindow(list, from, to) = r
  BY DEF AnchorsForWindow, FirstOf
<1> HIDE DEF m, n
<1>3. \A i \in m..n : list[i] \in Anchors
  BY <1>1
<1>4. /\ r \in Seq(Anchors) /\ Len(r) = (IF m <= n THEN n - m + 1 ELSE 0)
      /\ \A i \in 1..(n - m + 1) : r[i] = list[m + i - 1]
  BY <1>1, <1>3, SubSeqProperties
<1> HIDE DEF r
<1>5. \A i \in 1..Len(r) : r[i] = list[m + i - 1] /\ m + i - 1 \in 1..Len(list)
  BY <1>1, <1>4
<1>6. Sorted(r)
  <2> SUFFICES ASSUME NEW i \in 1..Len(r), NEW j \in 1..Len(r), i <= j
               PROVE  r[i].frame <= r[j].frame
    BY DEF Sorted
  <2> DEFINE a == m + i - 1
             b == m + j - 1
  <2>1. r[i] = list[a] /\ r[j] = list[b]
    BY <1>5
  <2>2. a \in 1..Len(list) /\ b \in 1..Len(list) /\ a <= b
    BY <1>1, <1>4, <1>5
  <2> HIDE DEF a, b
  <2> QED  BY <2>1, <2>2 DEF Sorted
<1> QED  BY <1>2, <1>4, <1>5, <1>6

SegmentsIn(lo, hi) ==
    {s \in [from : Nat, to : Nat, track : Nat, length : Nat, revision : Nat, rtp : Nat,
            titled : BOOLEAN] :
        lo <= s.from /\ s.from < s.to /\ s.to <= hi}

LEMMA SegmentTyped ==
    ASSUME NEW a \in Anchors, NEW lo \in Nat, NEW hi \in Int, NEW from \in Int, NEW to \in Int,
           lo <= from, to <= hi
    PROVE  Segment(a, from, to) \in Seq(SegmentsIn(lo, hi))
<1> DEFINE track == a.pos + from - a.frame
           end == Min({to, from + a.length - track})
           s == [from |-> from, to |-> end, track |-> track, length |-> a.length,
                 revision |-> a.revision, rtp |-> a.rtp, titled |-> a.titled]
<1>1. /\ a.frame \in Nat /\ a.pos \in Nat /\ a.length \in Nat
      /\ a.revision \in Nat /\ a.rtp \in Nat /\ a.titled \in BOOLEAN
  BY DEF Anchors
<1>2. CASE to <= from \/ track \notin 0..(a.length - 1)
  BY <1>2 DEF Segment
<1>3. CASE ~(to <= from \/ track \notin 0..(a.length - 1))
  <2>1. Segment(a, from, to) = <<s>>
    BY <1>3 DEF Segment
  <2>2. from \in Nat /\ track \in Nat /\ to > from /\ from + a.length - track > from
    BY <1>1, <1>3
  <2> DEFINE e == from + a.length - track
  <2>3. e \in Nat /\ to \in Nat /\ e > from /\ to > from
    BY <1>1, <2>2
  <2>4. end = Min({to, e})
    OBVIOUS
  <2> HIDE DEF end, e, track
  <2>5. Min({to, e}) \in {to, e} /\ \A m \in {to, e} : Min({to, e}) <= m
    BY <2>3, MinIsThere
  <2>6. end \in Nat /\ from < end /\ end <= hi
    BY <2>3, <2>4, <2>5
  <2>7. s \in SegmentsIn(lo, hi)
    BY <1>1, <2>2, <2>6 DEF SegmentsIn
  <2> HIDE DEF s
  <2> QED  BY <2>1, <2>7
<1> QED  BY <1>2, <1>3

\* Segments are runs of frames of the range, and none is empty.
LEMMA SegmentsInside ==
    ASSUME NEW list \in Seq(Anchors), Sorted(list), NEW from \in Nat, NEW to \in Nat
    PROVE  OutputSegments(list, from, to) \in Seq(SegmentsIn(from, to))
<1> DEFINE first == FirstOf(list, from)
           last == ToldBy(list, to - 1)
           Begin(i) == IF i > first \/ (list[i].frame > from /\ list[i].pos < list[i].frame - from)
                       THEN list[i].frame ELSE from
           End(i) == IF i = last THEN to ELSE list[i + 1].frame
           Piece(i) == Segment(list[first + i - 1], Begin(first + i - 1), End(first + i - 1))
           V == Seq(SegmentsIn(from, to))
<1>1. OutputSegments(list, from, to) = FlattenSeq([i \in 1..(last - first + 1) |-> Piece(i)])
  BY DEF OutputSegments, FirstOf
<1>2. /\ first \in Nat \ {0} /\ first >= ToldBy(list, from) /\ last \in 0..Len(list)
      /\ Len(list) \in Nat
      /\ last # 0 => list[last].frame <= to - 1
      /\ \A i \in 1..Len(list) : i > first => list[i].frame > from
  <2> DEFINE t == ToldBy(list, from)
             e == to - 1
  <2>1. first \in Nat \ {0} /\ first >= t
    BY FirstOfIs
  <2>2. t \in 0..Len(list) /\ \A i \in 1..Len(list) : i > t => list[i].frame > from
    <3>1. from \in Int
      OBVIOUS
    <3> QED  BY <3>1, ToldByIs, Zenon
  <2>3. e \in Int
    OBVIOUS
  <2>4. last \in 0..Len(list) /\ (last # 0 => list[last].frame <= e)
    <3> HIDE DEF e
    <3>1. ToldBy(list, e) \in 0..Len(list)
          /\ (ToldBy(list, e) # 0 => list[ToldBy(list, e)].frame <= e)
      BY <2>3, ToldByIs, Zenon
    <3> QED  BY <3>1, Zenon DEF e
  <2> HIDE DEF t, first, last
  <2>5. \A i \in 1..Len(list) : i > first => list[i].frame > from
    BY <2>1, <2>2, AnchorIs
  <2> QED  BY <2>1, <2>4, <2>5, AnchorIs DEF t
<1>3. \A i \in 1..Len(list) : list[i] \in Anchors /\ list[i].frame \in Nat
  BY AnchorIs
<1> HIDE DEF first, last
<1>4. ASSUME NEW j \in first..last
      PROVE  Segment(list[j], Begin(j), End(j)) \in V
  <2>1. j \in 1..Len(list) /\ last \in 1..Len(list)
    BY <1>2
  <2>2. Begin(j) \in Int /\ from <= Begin(j)
    BY <1>2, <1>3, <2>1
  <2>3. End(j) \in Int /\ End(j) <= to
    <3>1. CASE j = last
      BY <3>1
    <3>2. CASE j # last
      <4>1. j + 1 \in 1..Len(list) /\ j + 1 <= last
        BY <1>2, <2>1, <3>2
      <4>2. list[j + 1].frame <= list[last].frame
        BY <2>1, <4>1 DEF Sorted
      <4> QED  BY <1>2, <1>3, <2>1, <3>2, <4>1, <4>2
    <3> QED  BY <3>1, <3>2
  <2> DEFINE b == Begin(j)
             e == End(j)
  <2>4. b \in Int /\ from <= b /\ e \in Int /\ e <= to /\ list[j] \in Anchors /\ to \in Int
    BY <1>3, <2>1, <2>2, <2>3
  <2> HIDE DEF b, e
  <2>5. Segment(list[j], b, e) \in V
    BY <2>4, SegmentTyped
  <2> QED  BY <2>5 DEF b, e
<1>5. ASSUME NEW i \in 1..(last - first + 1)
      PROVE  Piece(i) \in V
  <2> DEFINE j == first + i - 1
  <2>1. j \in first..last
    BY <1>2
  <2> HIDE DEF j, V, Begin, End
  <2>2. Segment(list[j], Begin(j), End(j)) \in V
    BY <1>4, <2>1
  <2> QED  BY <2>2 DEF j
<1> HIDE DEF Piece, V
<1>6. [i \in 1..(last - first + 1) |-> Piece(i)] \in Seq(V)
  <2>1. CASE last - first + 1 \in Nat
    BY <1>5, <2>1
  <2>2. CASE last - first + 1 \notin Nat
    <3>1. 1..(last - first + 1) = 1..0
      BY <1>2, <2>2
    <3>2. [i \in 1..0 |-> Piece(i)] = <<>>
      OBVIOUS
    <3>3. <<>> \in Seq(V)
      BY EmptySeq
    <3> QED  BY <3>1, <3>2, <3>3
  <2> QED  BY <2>1, <2>2
<1> QED  BY <1>1, <1>6, FlattenTyped DEF V

-----------------------------------------------------------------------------
(* Serving a song.                                                         *)

\* Segments of which each begins where the one before it ends.
LEMMA SegmentIs ==
    ASSUME NEW lo \in Nat, NEW hi \in Nat, NEW segments \in Seq(SegmentsIn(lo, hi)),
           NEW j \in 1..Len(segments)
    PROVE  /\ segments[j].from \in Nat /\ segments[j].to \in Nat /\ segments[j].track \in Nat
           /\ lo <= segments[j].from /\ segments[j].from < segments[j].to
           /\ segments[j].to <= hi
<1>1. segments[j] \in SegmentsIn(lo, hi)
  OBVIOUS
<1> QED  BY <1>1 DEF SegmentsIn

Chained(segments) ==
    \A i \in 2..Len(segments) : segments[i - 1].to = segments[i].from

LEMMA ChainOrdered ==
    ASSUME NEW lo \in Nat, NEW hi \in Nat, NEW segments \in Seq(SegmentsIn(lo, hi)),
           Chained(segments), NEW k \in 1..Len(segments), NEW i \in 1..k
    PROVE  segments[i].from <= segments[k].from /\ segments[i].to <= segments[k].to
<1> DEFINE A == {d \in Nat : \A j \in 1..k : k - j = d =>
                    segments[j].from <= segments[k].from /\ segments[j].to <= segments[k].to}
<1>1. \A j \in 1..Len(segments) :
        segments[j].from \in Nat /\ segments[j].to \in Nat /\ segments[j].from < segments[j].to
  BY SegmentIs
<1>2. Len(segments) \in Nat
  OBVIOUS
<1>3. 0 \in A
  <2>1. \A j \in 1..k : k - j = 0 => j = k
    OBVIOUS
  <2> QED  BY <1>1, <2>1
<1>4. ASSUME NEW d \in 0..(k - 1), d \in A
      PROVE  d + 1 \in A
  <2> SUFFICES ASSUME NEW j \in 1..k, k - j = d + 1
               PROVE  segments[j].from <= segments[k].from /\ segments[j].to <= segments[k].to
    OBVIOUS
  <2> DEFINE n == j + 1
  <2>1. n \in 1..k /\ k - n = d /\ n \in 2..Len(segments) /\ n - 1 = j
        /\ j \in 1..Len(segments) /\ k \in 1..Len(segments) /\ n \in 1..Len(segments)
    BY <1>2
  <2> HIDE DEF n
  <2>2. segments[n].from <= segments[k].from /\ segments[n].to <= segments[k].to
    BY <1>4, <2>1
  <2>3. segments[n - 1].to = segments[n].from
    BY <2>1 DEF Chained
  <2> DEFINE a == segments[j].from
             b == segments[j].to
             c == segments[n].to
             x == segments[k].from
             y == segments[k].to
  <2>4. a \in Int /\ b \in Int /\ c \in Int /\ x \in Int /\ y \in Int /\ a < b
    BY <1>1, <2>1
  <2>5. b < c
    BY <1>1, <2>1, <2>3
  <2>6. b <= x /\ c <= y
    BY <2>1, <2>2, <2>3
  <2> HIDE DEF a, b, c, x, y
  <2>7. a <= x /\ b <= y
    BY <2>4, <2>5, <2>6
  <2> QED  BY <2>7 DEF a, b, x, y
<1>5. k - i \in A
  <2>1. 0..k \subseteq A
    <3>1. k \in Nat
      BY <1>2
    <3> HIDE DEF A
    <3> QED  BY <3>1, <1>3, <1>4, UpTo
  <2>2. k - i \in 0..k
    BY <1>2
  <2> QED  BY <2>1, <2>2
<1> QED  BY <1>5

\* Every frame is in a segment.
LEMMA ChainReaches ==
    ASSUME NEW lo \in Nat, NEW hi \in Nat, NEW segments \in Seq(SegmentsIn(lo, hi)),
           Covers(segments, lo, hi), NEW f \in lo..(hi - 1)
    PROVE  \E k \in 1..Len(segments) : f \in segments[k].from..(segments[k].to - 1)
<1> DEFINE A == {k \in 1..Len(segments) : segments[k].to > f}
           n == Len(segments)
<1>1. /\ n \in Nat \ {0} /\ segments[1].from = lo /\ segments[n].to = hi
      /\ Chained(segments)
  BY DEF Covers, Spans, Last, Chained
<1>2. \A j \in 1..n : segments[j].from \in Nat /\ segments[j].to \in Nat
  BY SegmentIs
<1>3. n \in A
  BY <1>1
<1>4. PICK k \in A : \A m \in A : k <= m
  <2>1. A \in SUBSET Nat /\ A # {}
    BY <1>3
  <2> HIDE DEF A
  <2> QED  BY <2>1, LeastIsThere
<1>5. segments[k].from <= f
  <2>1. CASE k = 1
    BY <1>1, <2>1
  <2>2. CASE k # 1
    <3>1. k \in 2..n /\ k - 1 \in 1..n /\ k - 1 \notin A
      BY <1>1, <1>4, <2>2
    <3>2. segments[k - 1].to <= f
      BY <1>2, <3>1
    <3> QED  BY <3>1, <3>2, <1>1 DEF Chained
  <2> QED  BY <2>1, <2>2
<1> QED  BY <1>2, <1>4, <1>5

\* Every frame is in a group, and a group is a run of frames of the range.
LEMMA GroupsReach ==
    ASSUME NEW lo \in Nat, NEW hi \in Nat, NEW segments \in Seq(SegmentsIn(lo, hi)),
           Covers(segments, lo, hi)
    PROVE  /\ \A g \in Groups(segments) :
                /\ g.from \in Nat /\ g.to \in Nat /\ g.track \in Nat
                /\ lo <= g.from /\ g.from < g.to /\ g.to <= hi
           /\ \A f \in lo..(hi - 1) : \E g \in Groups(segments) : f \in g.from..(g.to - 1)
<1> DEFINE n == Len(segments)
           Joined(i) ==
                /\ segments[i - 1].revision = segments[i].revision
                /\ segments[i - 1].length = segments[i].length
                /\ TrackEnd(segments[i - 1]) = segments[i].track
           Firsts == {i \in 1..n : i = 1 \/ ~Joined(i)}
           Candidate(i) == {j \in i..n : j = n \/ j + 1 \in Firsts}
           Ends(i) == Min(Candidate(i))
           Group(i) == [from |-> segments[i].from, to |-> segments[Ends(i)].to,
                        track |-> segments[i].track,
                        titled |-> \E k \in i..Ends(i) : segments[k].titled]
<1>1. Groups(segments) = {Group(i) : i \in Firsts}
  BY DEF Groups
<1>2. Firsts \subseteq 1..n
  OBVIOUS
<1>3. n \in Nat /\ n # 0 => 1 \in Firsts
  OBVIOUS
<1> HIDE DEF Firsts
<1>4. n \in Nat \ {0} /\ 1 \in Firsts /\ Chained(segments)
  BY <1>3 DEF Covers, Spans, Chained
<1>5. \A j \in 1..n : /\ segments[j].from \in Nat /\ segments[j].to \in Nat
                      /\ segments[j].from < segments[j].to /\ segments[j].track \in Nat
                      /\ lo <= segments[j].from /\ segments[j].to <= hi
  BY SegmentIs
<1>6. ASSUME NEW i \in 1..n
      PROVE  Ends(i) \in Candidate(i) /\ \A j \in Candidate(i) : Ends(i) <= j
  <2>1. n \in Candidate(i)
    BY <1>4
  <2>2. Candidate(i) \in SUBSET Nat
    BY <1>4
  <2> HIDE DEF Candidate
  <2> QED  BY <2>1, <2>2, MinIsThere
<1>7. ASSUME NEW i \in 1..n, NEW k \in i..Ends(i)
      PROVE  /\ Ends(i) \in 1..n /\ k \in 1..n
             /\ segments[i].from <= segments[k].from /\ segments[k].to <= segments[Ends(i)].to
  <2> DEFINE e == Ends(i)
  <2>1. e \in Candidate(i)
    BY <1>6
  <2>2. e \in i..n
    BY <2>1
  <2> HIDE DEF e, Candidate
  <2>3. k \in i..e
    BY DEF e
  <2>4. e \in 1..n /\ k \in 1..n /\ i \in 1..k /\ k \in 1..e
    BY <1>4, <2>2, <2>3
  <2>5. segments[i].from <= segments[k].from /\ segments[k].to <= segments[e].to
    BY <1>4, <2>4, ChainOrdered
  <2> QED  BY <2>4, <2>5 DEF e
<1> HIDE DEF Ends
<1>8. ASSUME NEW i \in Firsts
      PROVE  /\ Group(i).from \in Nat /\ Group(i).to \in Nat /\ Group(i).track \in Nat
             /\ lo <= Group(i).from /\ Group(i).from < Group(i).to /\ Group(i).to <= hi
  <2> DEFINE e == Ends(i)
  <2>1. i \in 1..n
    BY <1>2
  <2>2. e \in i..n
    BY <1>6, <2>1
  <2>3. i \in i..e
    BY <2>1, <2>2, <1>4
  <2>4. e \in 1..n /\ segments[i].to <= segments[e].to
    BY <1>7, <2>1, <2>3
  <2> HIDE DEF e
  <2>5. segments[i].from < segments[e].to
    BY <1>5, <2>1, <2>4
  <2>6. Group(i).from = segments[i].from /\ Group(i).to = segments[e].to
        /\ Group(i).track = segments[i].track
    BY DEF e
  <2> HIDE DEF Group
  <2> QED  BY <1>5, <2>1, <2>4, <2>5, <2>6
<1>9. ASSUME NEW f \in lo..(hi - 1)
      PROVE  \E i \in Firsts : f \in Group(i).from..(Group(i).to - 1)
  <2>1. PICK k \in 1..n : f \in segments[k].from..(segments[k].to - 1)
    BY ChainReaches
  <2> DEFINE D == {d \in Nat : k - d \in Firsts}
  <2>2. PICK d \in D : \A m \in D : d <= m
    <3>1. k - 1 \in Nat /\ k - (k - 1) = 1
      BY <1>4
    <3>2. k - 1 \in D
      BY <1>4, <3>1
    <3>3. D \in SUBSET Nat /\ D # {}
      BY <3>2
    <3> HIDE DEF D
    <3> QED  BY <3>3, LeastIsThere
  <2> DEFINE i == k - d
             e == Ends(i)
  <2>3. i \in Firsts /\ i \in 1..k /\ i \in 1..n
    BY <1>2, <1>4, <2>2
  <2>4. \A j \in (i + 1)..k : j \notin Firsts
    <3> SUFFICES ASSUME NEW j \in (i + 1)..k, j \in Firsts PROVE FALSE
      OBVIOUS
    <3>1. k - j \in Nat /\ k - (k - j) = j /\ k - j < d
      BY <1>4, <2>2, <2>3
    <3>2. k - j \in D
      BY <3>1
    <3> QED  BY <2>2, <3>1, <3>2
  <2>5. e \in Candidate(i)
    BY <1>6, <2>3
  <2> HIDE DEF i, e
  <2>6. e \in i..n /\ (e = n \/ e + 1 \in Firsts)
    BY <2>5
  <2>7. k <= e
    <3> SUFFICES ASSUME e < k PROVE FALSE
      BY <1>4, <2>3, <2>6
    <3>1. e # n /\ e + 1 \in (i + 1)..k
      BY <1>4, <2>3, <2>6
    <3> QED  BY <2>4, <2>6, <3>1
  <2>8. k \in i..e
    BY <1>4, <2>3, <2>6, <2>7
  <2>9. e \in 1..n /\ segments[i].from <= segments[k].from /\ segments[k].to <= segments[e].to
    BY <1>7, <2>3, <2>8 DEF e
  <2>10. f \in segments[i].from..(segments[e].to - 1)
    <3>1. /\ segments[i].from \in Int /\ segments[k].from \in Int
          /\ segments[k].to \in Int /\ segments[e].to \in Int
      <4>1. i \in 1..n /\ k \in 1..n /\ e \in 1..n
        BY <2>1, <2>3, <2>9
      <4> QED  BY <1>5, <4>1
    <3>2. f \in Int /\ segments[k].from <= f /\ f <= segments[k].to - 1
      BY <2>1, <3>1
    <3>3. segments[i].from <= f
      BY <2>9, <3>1, <3>2
    <3>4. f <= segments[e].to - 1
      BY <2>9, <3>1, <3>2
    <3> QED  BY <3>1, <3>2, <3>3, <3>4
  <2>11. Group(i).from = segments[i].from /\ Group(i).to = segments[e].to
    BY DEF e
  <2> HIDE DEF Group
  <2> QED  BY <2>3, <2>10, <2>11
<1> HIDE DEF Group
<1> QED  BY <1>1, <1>8, <1>9

\* An alignment that is found is a place where the frames are.
LEMMA NearestIsPlace ==
    ASSUME NEW e, e.length \in Nat, NEW pcm, Len(pcm) \in Nat, NEW track \in Int,
           Places(e, pcm, track) # {}
    PROVE  Nearest(e, pcm, track) \in Places(e, pcm, track)
<1> DEFINE P == Places(e, pcm, track)
           D == {Apart(p, track) : p \in P}
<1>1. \A p \in P : p \in Nat /\ Apart(p, track) \in Nat
  BY DEF Places, Apart
<1> HIDE DEF P
<1>2. D \in SUBSET Nat /\ D # {}
  BY <1>1 DEF P
<1>3. PICK d \in D : \A m \in D : d <= m
  <2> HIDE DEF D
  <2> QED  BY <1>2, LeastIsThere
<1> DEFINE Q == {p \in P : Apart(p, track) = d}
<1>4. Q \in SUBSET Nat /\ Q # {}
  BY <1>1, <1>3
<1>5. PICK p \in Q : \A q \in Q : p <= q
  <2> HIDE DEF Q
  <2> QED  BY <1>4, LeastIsThere
<1>6. p \in P /\ Apart(p, track) = d
  BY <1>5
<1>7. ASSUME NEW q \in P
      PROVE  \/ Apart(p, track) < Apart(q, track)
             \/ Apart(p, track) = Apart(q, track) /\ p <= q
  <2>1. d <= Apart(q, track) /\ d \in Nat /\ Apart(q, track) \in Nat
    BY <1>1, <1>2, <1>3
  <2>2. CASE Apart(q, track) = d
    BY <1>5, <1>6, <2>2
  <2>3. CASE Apart(q, track) # d
    BY <1>6, <2>1, <2>3
  <2> QED  BY <2>2, <2>3
<1>8. \E x \in P : \A q \in P : \/ Apart(x, track) < Apart(q, track)
                                \/ Apart(x, track) = Apart(q, track) /\ x <= q
  BY <1>6, <1>7
<1> QED  BY <1>8, Zenon DEF Nearest, P

LEMMA Geometry ==
    /\ Hop \in Nat \ {0} /\ Overlap \in Nat \ {0} /\ HistoryHops \in Nat \ {0}
    /\ Prefix \in Nat /\ Resync \in Nat /\ Overlap <= Hop
    /\ Window = Hop + Overlap /\ Window \in Nat \ {0}
BY GeometryAssumption DEF Window

\* What the worker reads beside a window.
LEMMA AnnotationOK ==
    ASSUME HostOK
    PROVE  /\ Annotation \in Seq(Anchors) /\ Sorted(Annotation)
           /\ Now \in Nat /\ Segments \in Seq(SegmentsIn(at, Now))
<1>1. Now \in Nat /\ at \in Nat
  BY DEF HostOK, Now
<1>2. at \in Int /\ Now \in Int /\ anchors \in Seq(Anchors) /\ Sorted(anchors)
  BY <1>1 DEF HostOK
<1>3. Annotation \in Seq(Anchors) /\ Sorted(Annotation)
  BY <1>2, AnchorsKept DEF Annotation
<1>4. Segments \in Seq(SegmentsIn(at, Now))
  BY <1>1, <1>3, SegmentsInside DEF Segments
<1> QED  BY <1>1, <1>3, <1>4

\* A window is cut out of songs where their frames are the window's.
LEMMA CutFrames ==
    ASSUME HostOK, CachesOK, Captured, Covers(Segments, at, Now), NEW choice \in Matches
    PROVE  \A i \in 1..Window : \E e \in Candidates : \E n \in 1..e.length :
                /\ Cut(choice)[i] = e.stems[n] /\ e.source[n] = stream[i]
                /\ e.stems[n] = <<stream[i], profile>> \/ e.stems[n] \in Garble
<1>1. /\ at \in Nat /\ Len(stream) = Window /\ Now = at + Window /\ Now \in Nat
      /\ stream \in Seq(Heard) /\ Window \in Nat
  BY Geometry DEF HostOK, Captured, Now
<1>2. /\ \A g \in Groups(Segments) :
            /\ g.from \in Nat /\ g.to \in Nat /\ g.track \in Nat
            /\ at <= g.from /\ g.from < g.to /\ g.to <= Now
      /\ \A f \in at..(Now - 1) : \E g \in Groups(Segments) : f \in g.from..(g.to - 1)
  <2>1. Segments \in Seq(SegmentsIn(at, Now))
    BY AnnotationOK
  <2>2. at \in Nat /\ Now \in Nat
    BY <1>1
  <2> QED  BY <2>1, <2>2, GroupsReach
<1>3. /\ DOMAIN choice = Groups(Segments)
      /\ \A g \in Groups(Segments) :
            choice[g] \in Candidates /\ Places(choice[g], Pcm(g), g.track) # {}
  BY DEF Matches
<1>4. ASSUME NEW i \in 1..Window
      PROVE  \E e \in Candidates : \E n \in 1..e.length :
                /\ Cut(choice)[i] = e.stems[n] /\ e.source[n] = stream[i]
                /\ e.stems[n] = <<stream[i], profile>> \/ e.stems[n] \in Garble
  <2> DEFINE f == at + i - 1
             Holds(g) == at + i - 1 \in g.from..(g.to - 1)
             g == CHOOSE g \in DOMAIN choice : Holds(g)
             e == choice[g]
             pcm == Pcm(g)
             p == Nearest(e, pcm, g.track)
             k == f + 1 - g.from
  <2>1. g \in Groups(Segments) /\ f \in g.from..(g.to - 1)
    <3>1. f \in at..(Now - 1)
      BY <1>1
    <3>2. \E h \in DOMAIN choice : Holds(h)
      BY <1>2, <1>3, <3>1
    <3> HIDE DEF Holds
    <3>3. g \in DOMAIN choice /\ Holds(g)
      BY <3>2
    <3> QED  BY <1>3, <3>3 DEF Holds
  <2>2. Cut(choice)[i] = e.stems[p + at + i - g.from]
    BY DEF Cut
  <2> HIDE DEF g, Holds
  <2>3. /\ g.from \in Nat /\ g.to \in Nat /\ g.track \in Nat
        /\ at <= g.from /\ g.from < g.to /\ g.to <= Now
    BY <1>2, <2>1
  <2>4. e \in Candidates /\ e \in SongEntries(Garble) /\ e.profile = profile /\ Places(e, pcm, g.track) # {}
    BY <1>3, <2>1 DEF Candidates, CachesOK
  <2> HIDE DEF e
  <2>5. /\ e.source \in Seq(Heard) /\ e.length \in Nat /\ Len(e.source) = e.length
        /\ e.profile \in Profiles /\ Separates(e.stems, e.source, <<profile, Garble>>)
    BY <2>4 DEF SongEntries
  <2>6. \A j \in 1..e.length : e.stems[j] = <<e.source[j], profile>> \/ e.stems[j] \in Garble
    BY <2>5 DEF Separates
  <2>7. /\ Len(pcm) = g.to - g.from
        /\ \A j \in 1..(g.to - g.from) : pcm[j] = stream[g.from - at + j]
    <3> DEFINE m == g.from - at + 1
               n == g.to - at
    <3>0. /\ at \in Int /\ g.from \in Int /\ g.to \in Int /\ Window \in Int
          /\ at <= g.from /\ g.from < g.to /\ g.to <= at + Window /\ Len(stream) = Window
      BY <1>1, <2>3
    <3>1. m \in Int /\ n \in Int /\ m <= n /\ n - m + 1 = g.to - g.from
          /\ \A j \in m..n : j \in 1..Len(stream)
      <4>1. m \in Int /\ n \in Int /\ 1 <= m /\ m <= n /\ n <= Window
        BY <3>0
      <4>2. n - m + 1 = g.to - g.from
        BY <3>0
      <4> HIDE DEF m, n
      <4> QED  BY <3>0, <4>1, <4>2
    <3>2. \A j \in m..n : stream[j] \in Heard
      BY <1>1, <3>1
    <3>3. pcm = SubSeq(stream, m, n)
      BY DEF Pcm
    <3> HIDE DEF m, n, pcm
    <3>4. /\ Len(pcm) = n - m + 1
          /\ \A j \in 1..(n - m + 1) : pcm[j] = stream[m + j - 1]
      BY <3>1, <3>2, <3>3, SubSeqProperties
    <3>5. \A j \in 1..(n - m + 1) : m + j - 1 = g.from - at + j
      BY <1>1, <2>3 DEF m
    <3> QED  BY <3>1, <3>4, <3>5
  <2>8. p \in Places(e, pcm, g.track)
    <3>1. e.length \in Nat /\ Len(pcm) \in Nat /\ g.track \in Int
      BY <2>3, <2>5, <2>7
    <3> HIDE DEF pcm
    <3> QED  BY <2>4, <3>1, NearestIsPlace
  <2> HIDE DEF pcm, p
  <2>9. p \in 0..(e.length - Len(pcm)) /\ SubSeq(e.source, p + 1, p + Len(pcm)) = pcm
    BY <2>8 DEF Places
  <2>0. /\ at \in Int /\ g.from \in Int /\ g.to \in Int /\ i \in Int /\ Len(pcm) \in Int
        /\ e.length \in Int /\ p \in Int /\ Len(pcm) = g.to - g.from
        /\ 0 <= p /\ p <= e.length - Len(pcm) /\ g.from < g.to
    <3>1. /\ at \in Int /\ g.from \in Int /\ g.to \in Int /\ i \in Int /\ Len(pcm) \in Int
          /\ e.length \in Int /\ Len(pcm) = g.to - g.from /\ g.from < g.to
      BY <1>1, <2>3, <2>5, <2>7
    <3>2. p \in 0..(e.length - Len(pcm))
      BY <2>9
    <3> QED  BY <3>1, <3>2
  <2>10. k \in 1..Len(pcm) /\ k \in Int /\ g.from - at + k = i /\ p + at + i - g.from = p + k
    <3>1. f \in Int /\ g.from <= f /\ f <= g.to - 1
      BY <2>0, <2>1
    <3>2. k \in Int /\ 1 <= k
      BY <2>0, <3>1
    <3>3. k <= Len(pcm)
      BY <2>0, <3>1
    <3>4. g.from - at + k = i
      BY <2>0
    <3>5. p + at + i - g.from = p + k
      BY <2>0
    <3> QED  BY <2>0, <3>2, <3>3, <3>4, <3>5
  <2> HIDE DEF k
  <2>11. p + k \in 1..e.length
    <3>1. 1 <= k /\ k <= Len(pcm) /\ k \in Int
      BY <2>10
    <3>2. p + k \in Int /\ 1 <= p + k
      BY <2>0, <3>1
    <3>3. p + k <= e.length
      BY <2>0, <3>1
    <3> QED  BY <2>0, <3>2, <3>3
  <2>12. pcm[k] = e.source[p + k]
    <3> DEFINE m == p + 1
               n == p + Len(pcm)
    <3>1. m \in Int /\ n \in Int /\ n - m + 1 = Len(pcm) /\ \A j \in m..n : j \in 1..Len(e.source)
      <4>1. m \in Int /\ n \in Int /\ 1 <= m /\ n <= e.length /\ n - m + 1 = Len(pcm)
        <5>1. m \in Int /\ n \in Int /\ 1 <= m
          BY <2>0
        <5>2. n <= e.length
          BY <2>0
        <5>3. n - m + 1 = Len(pcm)
          BY <2>0
        <5> QED  BY <5>1, <5>2, <5>3
      <4>2. Len(e.source) = e.length /\ e.length \in Int
        BY <2>5
      <4> HIDE DEF m, n
      <4> QED  BY <4>1, <4>2
    <3>2. \A j \in m..n : e.source[j] \in Heard
      BY <2>5, <3>1
    <3>3. \A j \in 1..(n - m + 1) : SubSeq(e.source, m, n)[j] = e.source[m + j - 1]
      <4> HIDE DEF m, n
      <4> QED  BY <3>1, <3>2, SubSeqProperties
    <3>4. SubSeq(e.source, m, n)[k] = e.source[m + k - 1]
      BY <2>10, <3>1, <3>3
    <3>5. m + k - 1 = p + k
      BY <2>10, <2>0
    <3> QED  BY <2>9, <3>4, <3>5
  <2>13. pcm[k] = stream[i]
    BY <2>0, <2>7, <2>10
  <2>14. e.stems[p + k] = <<e.source[p + k], profile>> \/ e.stems[p + k] \in Garble
    BY <2>6, <2>11
  <2> QED  BY <2>2, <2>4, <2>10, <2>11, <2>12, <2>13, <2>14
<1> QED  BY <1>4

\* Out of songs whose frames are those of the window, the worker cuts their separation.
LEMMA CutIsSeparation ==
    ASSUME HostOK, CachesOK, Captured, Covers(Segments, at, Now), NEW choice \in Matches
    PROVE  /\ Len(Cut(choice)) = Window
           /\ \A i \in 1..Window :
                Cut(choice)[i] = <<stream[i], profile>> \/ (missed /\ Cut(choice)[i] = Garbled)
<1>1. ASSUME NEW i \in 1..Window
      PROVE  Cut(choice)[i] = <<stream[i], profile>> \/ (missed /\ Cut(choice)[i] = Garbled)
  <2>1. \E e \in Candidates : \E n \in 1..e.length :
            /\ Cut(choice)[i] = e.stems[n] /\ e.source[n] = stream[i]
            /\ e.stems[n] = <<stream[i], profile>> \/ e.stems[n] \in Garble
    BY CutFrames
  <2> QED  BY <2>1 DEF Garble
<1>2. Len(Cut(choice)) = Window
  BY Geometry DEF Cut
<1> QED  BY <1>1, <1>2

-----------------------------------------------------------------------------
(* The assembly of songs. A builder holds the separation of its frames,    *)
(* and so does what is taken out of the history of hops.                   *)

\* The work on a hop, with the given history.
Works(p, hops) ==
    [builder : Builders(p) \cup {None}, completed : SUBSET Nat, tail : Stems,
     history : {hops}, finalized : Seq(Builders(p)), failed : BOOLEAN]

\* The first hop that has a frame.
LEMMA FirstWithin ==
    ASSUME NEW S, NEW hops \in Seq(S), NEW f, \E k \in DOMAIN hops : Within(f, hops[k])
    PROVE  LET k == CHOOSE k \in DOMAIN hops :
                        Within(f, hops[k]) /\ \A j \in 1..(k - 1) : ~Within(f, hops[j]) IN
           /\ k \in 1..Len(hops) /\ Within(f, hops[k])
           /\ \A j \in 1..(k - 1) : ~Within(f, hops[j])
<1> DEFINE A == {k \in 1..Len(hops) : Within(f, hops[k])}
           First(k) == Within(f, hops[k]) /\ \A j \in 1..(k - 1) : ~Within(f, hops[j])
           k == CHOOSE k \in DOMAIN hops : First(k)
<1>1. DOMAIN hops = 1..Len(hops) /\ Len(hops) \in Nat
  OBVIOUS
<1>2. A \in SUBSET Nat /\ A # {}
  BY <1>1
<1>3. PICK n \in A : \A m \in A : n <= m
  <2> HIDE DEF A
  <2> QED  BY <1>2, LeastIsThere
<1>4. n \in DOMAIN hops /\ First(n)
  <2>1. n \in 1..Len(hops) /\ Within(f, hops[n])
    BY <1>3
  <2>2. ASSUME NEW j \in 1..(n - 1), Within(f, hops[j])
        PROVE  FALSE
    <3>1. j \in 1..Len(hops) /\ j < n
      BY <1>1, <2>1
    <3>2. j \in A
      BY <2>2, <3>1
    <3>3. n <= j
      BY <1>3, <3>2
    <3> QED  BY <2>1, <3>1, <3>3
  <2> QED  BY <1>1, <2>1, <2>2
<1>5. k \in DOMAIN hops /\ First(k)
  <2> HIDE DEF First
  <2> QED  BY <1>4
<1> QED  BY <1>1, <1>5

LEMMA SliceOK ==
    ASSUME NEW p \in Imprints, NEW hops \in Seq(Hops(p)), NEW from \in Int, NEW to \in Int,
           from <= to, \A f \in from..(to - 1) : \E k \in DOMAIN hops : Within(f, hops[k])
    PROVE  /\ Slice(hops, "source", from, to) \in Seq(Heard)
           /\ Slice(hops, "stems", from, to) \in Stems
           /\ Separates(Slice(hops, "stems", from, to), Slice(hops, "source", from, to), p)
<1> DEFINE n == to - from
           a == Slice(hops, "source", from, to)
           b == Slice(hops, "stems", from, to)
           First(f) == CHOOSE k \in DOMAIN hops :
                            Within(f, hops[k]) /\ \A j \in 1..(k - 1) : ~Within(f, hops[j])
           At(i) == hops[First(from + i - 1)]
           S(i) == At(i).source[from + i - 1 + 1 - At(i).from]
           T(i) == At(i).stems[from + i - 1 + 1 - At(i).from]
<1>1. a = [i \in 1..n |-> S(i)]
  BY DEF Slice
<1>2. b = [i \in 1..n |-> T(i)]
  BY DEF Slice
<1>3. n \in Nat
  OBVIOUS
<1>4. p[1] \in Profiles /\ p[2] \in {{}, {Garbled}}
  BY ImprintsAre
<1>5. ASSUME NEW i \in 1..n
      PROVE  /\ S(i) \in Heard /\ (T(i) = <<S(i), p[1]>> \/ T(i) \in p[2])
  <2> DEFINE f == from + i - 1
             h == At(i)
             m == f + 1 - h.from
  <2>1. f \in from..(to - 1) /\ f \in Int
    BY <1>3
  <2>2. \E k \in DOMAIN hops : Within(f, hops[k])
    BY <2>1
  <2>3. First(f) \in 1..Len(hops) /\ Within(f, hops[First(f)])
    <3> HIDE DEF f
    <3> QED  BY <2>2, FirstWithin
  <2>4. h \in Hops(p) /\ f \in h.from..(h.from + Hop - 1)
    <3> HIDE DEF First
    <3> QED  BY <2>3 DEF Within
  <2> HIDE DEF h, At, First
  <2>5. /\ h.from \in Nat /\ h.source \in Seq(Heard) /\ Len(h.source) = Hop
        /\ Separates(h.stems, h.source, p)
    BY <2>4 DEF Hops
  <2>6. m \in 1..Hop
    BY <2>1, <2>4, <2>5, Geometry
  <2> HIDE DEF m
  <2>7. h.source[m] \in Heard /\ (h.stems[m] = <<h.source[m], p[1]>> \/ h.stems[m] \in p[2])
    BY <2>5, <2>6 DEF Separates
  <2> QED  BY <2>7 DEF m, h
<1> HIDE DEF S, T, n, a, b
<1>6. a \in Seq(Heard) /\ Len(a) = n /\ \A i \in 1..n : b[i] = <<a[i], p[1]>> \/ b[i] \in p[2]
  BY <1>1, <1>2, <1>3, <1>5
<1>7. b \in Stems /\ Len(b) = n
  <2>1. \A i \in 1..n : T(i) \in (Heard \X Profiles) \cup {Garbled}
    BY <1>4, <1>5
  <2> QED  BY <1>2, <1>3, <2>1 DEF Stems
<1>8. Separates(b, a, p)
  BY <1>6, <1>7 DEF Separates
<1> QED  BY <1>6, <1>7, <1>8 DEF a, b

\* The last of the hops is the one at hand.
HopAt(hops, lo) == hops # <<>> /\ Last(hops).from = lo

LEMMA HopAtHand ==
    ASSUME NEW p, NEW hops \in Seq(Hops(p)), NEW lo \in Nat, HopAt(hops, lo),
           NEW from \in Int, NEW to \in Int, lo <= from, to <= lo + Hop
    PROVE  /\ <<Last(hops)>> \in Seq(Hops(p)) /\ Last(hops) \in Hops(p)
           /\ \A f \in from..(to - 1) :
                \E k \in DOMAIN <<Last(hops)>> : Within(f, <<Last(hops)>>[k])
<1>1. Len(hops) \in Nat \ {0}
  BY EmptySeq DEF HopAt
<1>2. Last(hops) \in Hops(p) /\ Last(hops).from = lo
  BY <1>1 DEF HopAt, Last
<1>3. ASSUME NEW f \in from..(to - 1)
      PROVE  \E k \in DOMAIN <<Last(hops)>> : Within(f, <<Last(hops)>>[k])
  <2>1. f \in lo..(lo + Hop - 1)
    BY Geometry
  <2>2. Within(f, <<Last(hops)>>[1]) /\ 1 \in DOMAIN <<Last(hops)>>
    BY <1>2, <2>1 DEF Within
  <2> QED  BY <2>2
<1> QED  BY <1>2, <1>3

LEMMA NothingSeparated ==
    ASSUME NEW p
    PROVE  <<>> \in Seq(Heard) /\ <<>> \in Stems /\ Separates(<<>>, <<>>, p)
BY DEF Stems, Separates

LEMMA FinalizedOK ==
    ASSUME NEW p \in Imprints, NEW hops, NEW w \in Works(p, hops)
    PROVE  Finalized(w) \in Works(p, hops) /\ (Finalized(w).builder = None)
<1>1. CASE w.builder = None
  BY <1>1 DEF Finalized
<1>2. CASE w.builder # None
  <2>1. w.builder \in Builders(p)
    BY <1>2 DEF Works
  <2>2. w.builder.rtp \in Nat
    BY <2>1 DEF Builders
  <2>3. w.completed \cup {w.builder.rtp} \in SUBSET Nat
    BY <2>2 DEF Works
  <2>4. Append(w.finalized, w.builder) \in Seq(Builders(p))
    BY <2>1, AppendProperties DEF Works
  <2> QED  BY <1>2, <2>3, <2>4 DEF Works, Finalized
<1> QED  BY <1>1, <1>2

LEMMA FailedOK ==
    ASSUME NEW p \in Imprints, NEW hops, NEW w \in Works(p, hops)
    PROVE  Failed(w) \in Works(p, hops)
BY DEF Works, Failed

\* A song's start is recovered from the history only where that has all of it.
LEMMA NewBuilderOK ==
    ASSUME NEW p \in Imprints, NEW hops \in Seq(Hops(p)), NEW w \in Works(p, hops),
           NEW lo \in Nat, NEW hi \in Nat, NEW s \in SegmentsIn(lo, hi)
    PROVE  NewBuilder(w, s) \in Builders(p)
<1> DEFINE from == s.from - s.track
           new == [rtp |-> s.rtp, revision |-> s.revision, length |-> s.length,
                   first |-> s.track, trackEnd |-> s.track, streamEnd |-> s.from,
                   source |-> <<>>, stems |-> <<>>]
           a == Slice(hops, "source", from, s.from)
           b == Slice(hops, "stems", from, s.from)
<1>1. /\ s.rtp \in Nat /\ s.revision \in Nat /\ s.length \in Nat /\ s.track \in Nat
      /\ s.from \in Nat
  BY DEF SegmentsIn
<1>2. w.history = hops
  BY DEF Works
<1>3. new \in Builders(p)
  BY <1>1, NothingSeparated DEF Builders
<1>4. CASE Remembered(hops, from, s.from)
  <2>1. from \in Int /\ s.from \in Int /\ from <= s.from
        /\ \A f \in from..(s.from - 1) : \E k \in DOMAIN hops : Within(f, hops[k])
    BY <1>1, <1>4 DEF Remembered
  <2> HIDE DEF from
  <2>2. a \in Seq(Heard) /\ b \in Stems /\ Separates(b, a, p)
    BY <2>1, SliceOK
  <2>3. NewBuilder(w, s) = [new EXCEPT !.first = 0, !.source = a, !.stems = b]
    BY <1>2, <1>4 DEF NewBuilder, from
  <2> HIDE DEF a, b
  <2>4. NewBuilder(w, s) = [rtp |-> s.rtp, revision |-> s.revision, length |-> s.length,
                            first |-> 0, trackEnd |-> s.track, streamEnd |-> s.from,
                            source |-> a, stems |-> b]
    BY <2>3
  <2> QED  BY <1>1, <2>2, <2>4 DEF Builders
<1>5. CASE ~Remembered(hops, from, s.from)
  BY <1>2, <1>3, <1>5 DEF NewBuilder
<1> QED  BY <1>4, <1>5

\* The frames of a segment are out of the hop at hand.
LEMMA AppendedOK ==
    ASSUME NEW p \in Imprints, NEW hops \in Seq(Hops(p)), NEW w \in Works(p, hops),
           w.builder \in Builders(p), NEW lo \in Nat, HopAt(hops, lo),
           NEW s \in SegmentsIn(lo, lo + Hop)
    PROVE  Appended(w, s) \in Works(p, hops)
<1> DEFINE b == w.builder
           current == <<Last(hops)>>
           x == Slice(current, "source", s.from, s.to)
           y == Slice(current, "stems", s.from, s.to)
           longer == [b EXCEPT !.source = @ \o x, !.stems = @ \o y,
                               !.streamEnd = s.to, !.trackEnd = TrackEnd(s),
                               !.revision = s.revision]
           v == [w EXCEPT !.builder = longer]
<1>1. /\ s.revision \in Nat /\ s.from \in Nat /\ s.to \in Nat /\ s.track \in Nat
      /\ lo <= s.from /\ s.from < s.to /\ s.to <= lo + Hop
  BY DEF SegmentsIn
<1>2. w.history = hops
  BY DEF Works
<1>3. x \in Seq(Heard) /\ y \in Stems /\ Separates(y, x, p)
  <2>1. s.from \in Int /\ s.to \in Int /\ s.from <= s.to
    BY <1>1
  <2>2. /\ current \in Seq(Hops(p))
        /\ \A f \in s.from..(s.to - 1) : \E k \in DOMAIN current : Within(f, current[k])
    BY <1>1, <2>1, HopAtHand
  <2> HIDE DEF current
  <2> QED  BY <2>1, <2>2, SliceOK
<1>4. Appended(w, s) = CASE s.from # b.streamEnd -> Failed(w)
                         [] s.from = b.streamEnd /\ Len(longer.source) >= b.length -> Finalized(v)
                         [] OTHER -> v
  BY <1>2 DEF Appended
<1> HIDE DEF current, x, y
<1>5. longer \in Builders(p)
  <2>1. /\ b.source \in Seq(Heard) /\ b.stems \in Stems /\ Separates(b.stems, b.source, p)
        /\ b \in [rtp : Nat, revision : Nat, length : Nat, first : Int, trackEnd : Int,
                  streamEnd : Int, source : Seq(Heard), stems : Stems]
    BY DEF Builders
  <2> DEFINE source == b.source \o x
             stems == b.stems \o y
             end == TrackEnd(s)
  <2>2. source \in Seq(Heard) /\ stems \in Stems /\ Separates(stems, source, p)
    BY <1>3, <2>1, SeparatesBoth
  <2>3. end \in Int
    BY <1>1 DEF TrackEnd
  <2> HIDE DEF source, stems, end
  <2>4. longer = [b EXCEPT !.source = source, !.stems = stems, !.streamEnd = s.to,
                           !.trackEnd = end, !.revision = s.revision]
    BY <2>1 DEF source, stems, end
  <2>5. longer = [rtp |-> b.rtp, revision |-> s.revision, length |-> b.length,
                  first |-> b.first, trackEnd |-> end, streamEnd |-> s.to,
                  source |-> source, stems |-> stems]
    <3>1. b = [rtp |-> b.rtp, revision |-> b.revision, length |-> b.length,
               first |-> b.first, trackEnd |-> b.trackEnd, streamEnd |-> b.streamEnd,
               source |-> b.source, stems |-> b.stems]
      BY <2>1
    <3> HIDE DEF longer, b
    <3> QED  BY <2>4, <3>1
  <2> HIDE DEF longer
  <2> QED  BY <1>1, <2>1, <2>2, <2>3, <2>5 DEF Builders
<1> HIDE DEF longer
<1>6. v \in Works(p, hops)
  BY <1>5 DEF Works
<1> HIDE DEF v
<1> QED  BY <1>4, <1>6, FinalizedOK, FailedOK

LEMMA TakeSegmentOK ==
    ASSUME NEW p \in Imprints, NEW hops \in Seq(Hops(p)), NEW w \in Works(p, hops),
           NEW lo \in Nat, HopAt(hops, lo), NEW s \in SegmentsIn(lo, lo + Hop)
    PROVE  TakeSegment(w, s) \in Works(p, hops)
<1> DEFINE same == w.builder # None /\ w.builder.rtp = s.rtp
           v == CASE same /\ Continues(w.builder, s) -> w
                  [] same /\ ~Continues(w.builder, s) -> [Finalized(w) EXCEPT !.completed = {}]
                  [] OTHER -> Finalized(w)
           u == [v EXCEPT !.builder = NewBuilder(v, s)]
<1>1. Finalized(w) \in Works(p, hops)
  BY FinalizedOK
<1>2. [Finalized(w) EXCEPT !.completed = {}] \in Works(p, hops)
  BY <1>1 DEF Works
<1>3. v \in Works(p, hops)
  BY <1>1, <1>2
<1>4. TakeSegment(w, s) =
        CASE w.failed -> w
          [] ~w.failed /\ ~s.titled -> Failed(w)
          [] ~w.failed /\ s.titled /\ v.builder # None -> Appended(v, s)
          [] ~w.failed /\ s.titled /\ v.builder = None ->
                IF s.rtp \in v.completed THEN v ELSE Appended(u, s)
  BY DEF TakeSegment
<1>5. w.failed \in BOOLEAN /\ s.titled \in BOOLEAN
  BY DEF Works, SegmentsIn
<1> HIDE DEF v
<1>6. lo + Hop \in Nat
  BY Geometry
<1>7. NewBuilder(v, s) \in Builders(p)
  BY <1>3, <1>6, NewBuilderOK
<1>8. u \in Works(p, hops) /\ u.builder \in Builders(p)
  BY <1>3, <1>7 DEF Works
<1> HIDE DEF u
<1>9. v.builder # None => v.builder \in Builders(p)
  BY <1>3 DEF Works
<1>10. Appended(u, s) \in Works(p, hops)
  BY <1>8, AppendedOK
<1>11. v.builder # None => Appended(v, s) \in Works(p, hops)
  BY <1>3, <1>9, AppendedOK
<1>12. Failed(w) \in Works(p, hops)
  BY FailedOK
<1> QED  BY <1>3, <1>4, <1>5, <1>10, <1>11, <1>12

\* The work on the segments of a hop, one after the other.
WorkOn(start, segments) ==
    CHOOSE work : work = [n \in 0..Len(segments) |->
        IF n = 0 THEN start ELSE TakeSegment(work[n - 1], segments[n])]

LEMMA WorkOK ==
    ASSUME NEW p \in Imprints, NEW hops \in Seq(Hops(p)), NEW start \in Works(p, hops),
           NEW lo \in Nat, HopAt(hops, lo),
           NEW segments \in Seq(SegmentsIn(lo, lo + Hop))
    PROVE  WorkOn(start, segments)[Len(segments)] \in Works(p, hops)
<1> DEFINE N == Len(segments)
           V == Works(p, hops)
           Work(f) == f = [n \in 0..N |->
                              IF n = 0 THEN start ELSE TakeSegment(f[n - 1], segments[n])]
           work == WorkOn(start, segments)
<1>1. N \in Nat /\ \A n \in 1..N : segments[n] \in SegmentsIn(lo, lo + Hop)
  OBVIOUS
<1>2. ASSUME NEW n \in 1..N, NEW w \in V
      PROVE  TakeSegment(w, segments[n]) \in V
  BY <1>1, TakeSegmentOK
<1>3. work = CHOOSE f : Work(f)
  BY DEF WorkOn
<1> HIDE DEF N, V, work
<1>4. start \in V
  BY DEF V
<1>5. PICK f : Work(f)
  <2> DEFINE step == [n \in 1..N |-> [w \in V |-> TakeSegment(w, segments[n])]]
  <2>1. step \in StepsOn(V, N)
    BY <1>2 DEF StepsOn
  <2>2. PICK g : Goes(g, start, step, V, N)
    <3> HIDE DEF step
    <3> QED  BY <1>1, <1>4, <2>1, Iterated
  <2>3. \A n \in 0..N : g[n] = IF n = 0 THEN start ELSE TakeSegment(g[n - 1], segments[n])
    <3> SUFFICES ASSUME NEW n \in 0..N
                 PROVE  g[n] = IF n = 0 THEN start ELSE TakeSegment(g[n - 1], segments[n])
      OBVIOUS
    <3>1. CASE n = 0
      BY <2>2, <3>1 DEF Goes
    <3>2. CASE n # 0
      <4>1. n \in 1..N /\ n - 1 \in 0..N
        BY <1>1, <3>2
      <4>2. g[n] = step[n][g[n - 1]] /\ g[n - 1] \in V
        BY <2>2, <4>1 DEF Goes
      <4>3. step[n][g[n - 1]] = TakeSegment(g[n - 1], segments[n])
        BY <4>1, <4>2
      <4> QED  BY <3>2, <4>2, <4>3
    <3> QED  BY <3>1, <3>2
  <2>4. g = [n \in 0..N |-> g[n]]
    BY <2>2 DEF Goes
  <2>5. Work(g)
    BY <2>3, <2>4
  <2> HIDE DEF Work
  <2> QED  BY <2>5
<1>6. Work(work)
  <2> HIDE DEF Work
  <2> QED  BY <1>3, <1>5
<1>7. ASSUME NEW n \in 0..N
      PROVE  work[n] = IF n = 0 THEN start ELSE TakeSegment(work[n - 1], segments[n])
  BY <1>6
<1> HIDE DEF Work
<1> DEFINE A == {n \in 0..N : work[n] \in V}
<1>8. 0 \in A
  BY <1>1, <1>4, <1>7
<1>9. ASSUME NEW n \in 0..(N - 1), n \in A
      PROVE  n + 1 \in A
  <2> DEFINE m == n + 1
  <2>1. m \in 1..N /\ m \in 0..N /\ m # 0 /\ m - 1 = n
    BY <1>1
  <2> HIDE DEF m
  <2>2. work[m] = TakeSegment(work[n], segments[m])
    BY <1>7, <2>1
  <2>3. work[m] \in V
    BY <1>2, <1>9, <2>1, <2>2
  <2>4. m \in A
    BY <2>1, <2>3
  <2> QED  BY <2>4 DEF m
<1>10. 0..N \subseteq A
  <2> HIDE DEF A
  <2> QED  BY <1>1, <1>8, <1>9, UpTo
<1>11. N \in A
  BY <1>1, <1>10
<1> QED  BY <1>11 DEF work, N, V

LEMMA MaxOfTwo ==
    ASSUME NEW x \in Int, NEW y \in Int
    PROVE  Max({x, y}) \in {x, y} /\ Max({x, y}) >= x /\ Max({x, y}) >= y
<1>1. \E m \in {x, y} : \A n \in {x, y} : m >= n
  OBVIOUS
<1> QED  BY <1>1 DEF Max

LEMMA BeyondOK ==
    ASSUME NEW stems \in Stems, Len(stems) = Window
    PROVE  /\ Beyond(stems) \in Stems /\ Len(Beyond(stems)) = Overlap
           /\ \A i \in 1..Overlap : Beyond(stems)[i] = stems[Hop + i]
<1> DEFINE m == Hop + 1
           n == Hop + Overlap
<1>1. /\ m \in Int /\ n \in Int /\ m <= n /\ n - m + 1 = Overlap
      /\ \A i \in m..n : i \in 1..Len(stems)
      /\ \A i \in 1..Overlap : m + i - 1 = Hop + i
  BY Geometry
<1>2. \A i \in m..n : stems[i] \in (Heard \X Profiles) \cup {Garbled}
  BY <1>1 DEF Stems
<1>3. Beyond(stems) = SubSeq(stems, m, n)
  BY DEF Beyond
<1> HIDE DEF m, n
<1>4. /\ SubSeq(stems, m, n) \in Seq((Heard \X Profiles) \cup {Garbled})
      /\ Len(SubSeq(stems, m, n)) = n - m + 1
      /\ \A i \in 1..(n - m + 1) : SubSeq(stems, m, n)[i] = stems[m + i - 1]
  BY <1>1, <1>2, SubSeqProperties
<1> QED  BY <1>1, <1>3, <1>4 DEF Stems

\* The crossfade with what is left of the window before is one of equal stems, or it may be
\* garbled.
Crossfades(tail, stems, p) ==
    \A i \in 1..Hop : i > Len(tail) \/ tail[i] = stems[i] \/ Garbled \in p[2]

\* A hop of a window that was separated is separated then.
LEMMA StitchedOK ==
    ASSUME NEW p \in Imprints, NEW from \in Nat, NEW source \in Seq(Heard),
           Len(source) = Window, NEW stems, stems = SeparationOf(source, p[1]), NEW tail,
           Crossfades(tail, stems, p)
    PROVE  [from |-> from, source |-> SubSeq(source, 1, Hop), stems |-> Stitched(tail, stems)]
                \in Hops(p)
<1> DEFINE x == SubSeq(source, 1, Hop)
           y == Stitched(tail, stems)
<1>1. /\ Hop \in Nat \ {0} /\ \A i \in 1..Hop : i \in 1..Len(source) /\ source[i] \in Heard
      /\ p[1] \in Profiles /\ p[2] \in {{}, {Garbled}}
  BY Geometry, ImprintsAre
<1>2. x \in Seq(Heard) /\ Len(x) = Hop /\ \A i \in 1..Hop : x[i] = source[i]
  <2>1. 1 \in Int /\ Hop \in Int /\ Hop - 1 + 1 = Hop /\ \A i \in 1..Hop : 1 + i - 1 = i
    BY <1>1
  <2> QED  BY <1>1, <2>1, SubSeqProperties
<1>3. \A i \in 1..Hop : stems[i] = <<source[i], p[1]>>
  BY <1>1, SeparationTyped
<1>4. ASSUME NEW i \in 1..Hop
      PROVE  /\ y[i] = <<x[i], p[1]>> \/ y[i] \in p[2]
             /\ y[i] \in (Heard \X Profiles) \cup {Garbled}
  <2>1. y[i] = IF i > Len(tail) \/ tail[i] = stems[i] THEN stems[i] ELSE Garbled
    BY DEF Stitched
  <2>2. i > Len(tail) \/ tail[i] = stems[i] \/ Garbled \in p[2]
    BY DEF Crossfades
  <2>3. stems[i] = <<x[i], p[1]>> /\ x[i] \in Heard
    BY <1>1, <1>2, <1>3
  <2> HIDE DEF x, y
  <2>4. y[i] = stems[i] \/ (y[i] = Garbled /\ Garbled \in p[2])
    BY <2>1, <2>2
  <2>5. <<x[i], p[1]>> \in Heard \X Profiles
    BY <1>1, <2>3
  <2> QED  BY <2>3, <2>4, <2>5
<1>5. y \in Stems /\ Len(y) = Hop
  <2>1. y = [i \in 1..Hop |-> y[i]]
    BY DEF Stitched
  <2> HIDE DEF y
  <2> QED  BY <1>1, <1>4, <2>1 DEF Stems
<1> HIDE DEF x, y
<1>6. Separates(y, x, p)
  BY <1>2, <1>4, <1>5 DEF Separates
<1> QED  BY <1>2, <1>5, <1>6 DEF Hops, x, y

LEMMA AssembledOK ==
    ASSUME NEW p \in Imprints, NEW a \in Assemblies(p), NEW number \in Nat, NEW from \in Nat,
           NEW source \in Seq(Heard), Len(source) = Window,
           NEW stems, stems = SeparationOf(source, p[1]),
           NEW list \in Seq(Anchors), Sorted(list),
           \/ Regressed(a, from) \/ Gapped(a, number)
           \/ Crossfades(a.tail, stems, p)
    PROVE  LET r == Assembled(a, number, from, source, stems, list) IN
           /\ r.assembly \in Assemblies(p) /\ r.finalized \in Seq(Builders(p))
           /\ r.assembly.last = number /\ r.assembly.start = from
           /\ \/ r.assembly.tail = <<>>
              \/ r.assembly.tail = Beyond(stems) /\ r.assembly.history # <<>>
<1> DEFINE opened == [builder |-> a.builder, completed |-> a.completed, tail |-> a.tail,
                      history |-> a.history, finalized |-> <<>>, failed |-> FALSE]
           fresh == CASE Regressed(a, from) -> [Dropped(Finalized(opened)) EXCEPT !.completed = {}]
                      [] ~Regressed(a, from) /\ Gapped(a, number) -> Dropped(opened)
                      [] OTHER -> opened
           hop == [from |-> from, source |-> SubSeq(source, 1, Hop),
                   stems |-> Stitched(fresh.tail, stems)]
           segments == OutputSegments(list, from, from + Hop)
           start == [fresh EXCEPT !.history = Append(@, hop)]
           w == WorkOn(start, segments)[Len(segments)]
           kept == Max({1, Len(w.history) - HistoryHops + 1})
           r == Assembled(a, number, from, source, stems, list)
           builder == IF segments = <<>> THEN None ELSE w.builder
           tail == IF w.failed THEN <<>> ELSE Beyond(stems)
           history == IF w.failed THEN <<>> ELSE SubSeq(w.history, kept, Len(w.history))
<1>1. r = [assembly |-> [builder |-> builder, completed |-> w.completed, tail |-> tail,
                         history |-> history, last |-> number, start |-> from],
           finalized |-> w.finalized]
  BY Zenon DEF Assembled, WorkOn
<1>2. /\ a.builder \in Builders(p) \cup {None} /\ a.completed \in SUBSET Nat
      /\ a.tail \in Stems /\ a.history \in Seq(Hops(p))
  BY DEF Assemblies
<1>3. opened \in Works(p, a.history) /\ opened.tail = a.tail
  BY <1>2 DEF Works
<1> HIDE DEF opened
<1>4. \E h \in {a.history, <<>>} : fresh \in Works(p, h)
  <2>1. Finalized(opened) \in Works(p, a.history)
    BY <1>3, FinalizedOK
  <2>2. \A x \in Works(p, a.history) : Dropped(x) \in Works(p, <<>>)
    BY NothingSeparated DEF Works, Dropped
  <2>3. [Dropped(Finalized(opened)) EXCEPT !.completed = {}] \in Works(p, <<>>)
    BY <2>1, <2>2 DEF Works
  <2> QED  BY <1>3, <2>2, <2>3
<1>5. Crossfades(fresh.tail, stems, p)
  <2>1. ASSUME NEW x \in Works(p, a.history)
        PROVE  Dropped(x).tail = <<>> /\ [Dropped(x) EXCEPT !.completed = {}].tail = <<>>
    BY DEF Works, Dropped
  <2>2. Finalized(opened) \in Works(p, a.history)
    BY <1>3, FinalizedOK
  <2>3. fresh.tail = <<>> \/ (~Regressed(a, from) /\ ~Gapped(a, number) /\ fresh.tail = a.tail)
    BY <1>3, <2>1, <2>2
  <2>4. CASE fresh.tail = <<>>
    <3>1. Len(fresh.tail) = 0
      BY <2>4
    <3> QED  BY <3>1, Geometry DEF Crossfades
  <2> HIDE DEF fresh
  <2> QED  BY <2>3, <2>4
<1>6. hop \in Hops(p)
  BY <1>5, StitchedOK
<1> HIDE DEF hop, fresh
<1>7. PICK past \in Seq(Hops(p)) : fresh \in Works(p, past)
  BY <1>2, <1>4, EmptySeq
<1> DEFINE hops == Append(past, hop)
<1>8. /\ hops \in Seq(Hops(p)) /\ Len(hops) \in Nat \ {0}
      /\ hops[Len(hops)] = hop /\ start \in Works(p, hops)
  <2>1. hops \in Seq(Hops(p)) /\ Len(hops) = Len(past) + 1 /\ hops[Len(past) + 1] = hop
    BY <1>6, AppendProperties
  <2>2. start \in Works(p, hops)
    BY <1>7 DEF Works
  <2>3. Len(past) \in Nat
    OBVIOUS
  <2> QED  BY <2>1, <2>2, <2>3
<1> HIDE DEF hops, start
<1>9. HopAt(hops, from)
  <2>1. hop.from = from
    BY DEF hop
  <2>2. hops # <<>> /\ Last(hops) = hop
    BY <1>8 DEF Last
  <2> QED  BY <2>1, <2>2 DEF HopAt
<1>10. segments \in Seq(SegmentsIn(from, from + Hop))
  <2>1. from + Hop \in Nat
    BY Geometry
  <2> QED  BY <2>1, SegmentsInside
<1> HIDE DEF segments
<1>11. w \in Works(p, hops)
  BY <1>8, <1>9, <1>10, WorkOK
<1> HIDE DEF w
<1>12. /\ w.builder \in Builders(p) \cup {None} /\ w.completed \in SUBSET Nat
       /\ w.history = hops /\ w.finalized \in Seq(Builders(p)) /\ w.failed \in BOOLEAN
  BY <1>11 DEF Works
<1>13. history \in Seq(Hops(p)) /\ (~w.failed => history # <<>>)
  <2> DEFINE n == Len(hops)
             k == Max({1, n - HistoryHops + 1})
  <2>1. n \in Nat
    BY <1>8
  <2> HIDE DEF n
  <2>2. 1 \in Int /\ n - HistoryHops + 1 \in Int
    BY <2>1, Geometry
  <2>3. k \in Int /\ k >= 1
    BY <2>2, MaxOfTwo
  <2> HIDE DEF k
  <2>4. \A i \in k..n : hops[i] \in Hops(p)
    BY <1>8, <2>1, <2>3 DEF n
  <2>5. SubSeq(hops, k, n) \in Seq(Hops(p)) /\ Len(SubSeq(hops, k, n)) # 0
    <3>1. k = 1 \/ k = n - HistoryHops + 1
      BY <2>2, MaxOfTwo DEF k
    <3>2. n \in Nat \ {0} /\ HistoryHops \in Nat \ {0}
      BY <1>8, Geometry DEF n
    <3>3. k <= n /\ n - k + 1 # 0
      BY <2>3, <3>1, <3>2
    <3> QED  BY <2>1, <2>3, <2>4, <3>3, SubSeqProperties
  <2>6. history = IF w.failed THEN <<>> ELSE SubSeq(hops, k, n)
    BY <1>12 DEF k, n
  <2>7. <<>> \in Seq(Hops(p)) /\ Len(<<>>) = 0
    BY EmptySeq
  <2>8. PICK part : part = SubSeq(hops, k, n)
    OBVIOUS
  <2>9. part \in Seq(Hops(p)) /\ part # <<>> /\ history = IF w.failed THEN <<>> ELSE part
    BY <2>5, <2>6, <2>7, <2>8
  <2> HIDE DEF history
  <2> QED  BY <1>12, <2>7, <2>9
<1>14. tail \in Stems /\ (tail = <<>> \/ (tail = Beyond(stems) /\ ~w.failed))
  <2>1. stems \in Stems /\ Len(stems) = Window
    BY ImprintsAre, SeparationTyped
  <2>2. Beyond(stems) \in Stems
    BY <2>1, BeyondOK
  <2> QED  BY <2>2, NothingSeparated
<1>15. builder \in Builders(p) \cup {None}
  BY <1>12
<1> HIDE DEF builder, tail, history, r
<1>16. /\ r.finalized = w.finalized
       /\ r.assembly = [builder |-> builder, completed |-> w.completed, tail |-> tail,
                        history |-> history, last |-> number, start |-> from]
  BY <1>1
<1>17. r.assembly \in Assemblies(p)
  BY <1>12, <1>13, <1>14, <1>15, <1>16 DEF Assemblies
<1>18. /\ r.assembly.last = number /\ r.assembly.start = from /\ r.assembly.tail = tail
       /\ r.assembly.history = history
  BY <1>16
<1> QED  BY <1>12, <1>13, <1>14, <1>16, <1>17, <1>18 DEF r

-----------------------------------------------------------------------------
(* The steps.                                                              *)

\* An empty assembly continues nothing.
LEMMA EmptyOK ==
    ASSUME NEW p
    PROVE  Empty \in Assemblies(p) /\ Empty.last = 0 /\ Empty.tail = <<>>
<1>1. <<>> \in Seq(Hops(p)) /\ <<>> \in Stems
  BY NothingSeparated
<1> QED  BY <1>1 DEF Empty, Assemblies

LEMMA ServeInit == Init => ServeInv
<1> SUFFICES ASSUME Init PROVE ServeInv
  OBVIOUS
<1>1. HostOK
  <2>1. head \in Heard
    BY DEF Init, Starts, Heard
  <2>2. Len(<<>>) = 0 /\ <<>> \in Seq(Heard) /\ <<>> \in Seq(Anchors)
    OBVIOUS
  <2> QED  BY <2>1, <2>2, Geometry DEF Init, HostOK, Sorted
<1>2. AssemblyOK /\ TailOK
  BY EmptyOK DEF Init, AssemblyOK, TailOK
<1>3. todo = <<>> /\ Len(<<>>) = 0
  BY DEF Init
<1>4. TodoOK /\ StoresOut
  BY <1>3, EmptySeq DEF TodoOK, StoresOut
<1>5. missed \in BOOLEAN /\ CachesOK /\ ServedIsOwnSeparation
  BY DEF Init, CachesOK, ServedIsOwnSeparation
<1> QED  BY <1>1, <1>2, <1>4, <1>5 DEF ServeInv

LEMMA SameImprint ==
    ASSUME UNCHANGED <<profile, missed>>
    PROVE  Imprint' = Imprint /\ Garble' = Garble
BY DEF Imprint, Garble

LEMMA ImprintOK ==
    ASSUME ServeInv
    PROVE  /\ Imprint \in Imprints /\ Imprint[1] = profile /\ Imprint[2] = Garble
           /\ Garble \in {{}, {Garbled}} /\ (missed = (Garbled \in Garble))
           /\ profile \in Profiles /\ missed \in BOOLEAN
<1>1. profile \in Profiles /\ missed \in BOOLEAN
  BY DEF ServeInv, HostOK
<1> QED  BY <1>1 DEF Imprint, Imprints, Garble

\* The phone plays a frame, or its host learns something.
LEMMA HostStep ==
    ASSUME ServeInv, UNCHANGED <<at, profile, missed, assembly, todo, disk, count, seq, out>>,
           stream' = stream \/ (stream' = Append(stream, head) /\ Len(stream) < Window),
           head' \in Heard, revision' \in Nat, named' \in BOOLEAN,
           anchors' \in Seq(Anchors), Sorted(anchors'),
           \A i \in 1..Len(anchors') : anchors'[i].frame <= Now
    PROVE  ServeInv'
<1>1. /\ stream \in Seq(Heard) /\ head \in Heard /\ at \in Nat /\ Len(stream) \in Nat
      /\ Len(stream) <= Window
  BY DEF ServeInv, HostOK
<1>2. /\ stream' \in Seq(Heard) /\ Len(stream') \in Nat /\ Len(stream') >= Len(stream)
      /\ Len(stream') <= Window /\ \A i \in 1..Len(stream) : stream'[i] = stream[i]
  <2>1. CASE stream' = stream
    BY <1>1, <2>1
  <2>2. CASE stream' = Append(stream, head) /\ Len(stream) < Window
    <3>1. /\ stream' \in Seq(Heard) /\ Len(stream') = Len(stream) + 1
          /\ \A i \in 1..Len(stream) : stream'[i] = stream[i]
      BY <1>1, <2>2, AppendProperties
    <3> QED  BY <1>1, <2>2, <3>1, Geometry
  <2> QED  BY <2>1, <2>2
<1>3. HostOK'
  <2>1. \A i \in 1..Len(anchors') : anchors'[i].frame <= Now'
    <3>1. Now \in Nat /\ Now' \in Nat /\ Now <= Now'
      BY <1>1, <1>2 DEF Now
    <3>2. \A i \in 1..Len(anchors') : anchors'[i].frame \in Nat
      BY AnchorIs
    <3> QED  BY <3>1, <3>2
  <2> QED  BY <1>1, <1>2, <2>1 DEF ServeInv, HostOK, Sorted
<1>0. Imprint' = Imprint /\ Garble' = Garble
  BY SameImprint
<1>4. AssemblyOK'
  BY <1>0 DEF ServeInv, AssemblyOK
<1>5. TailOK'
  <2> SUFFICES ASSUME assembly.tail # <<>>, assembly.last = seq - 1, ~missed
               PROVE  \/ /\ assembly.start = at - Hop
                         /\ Len(stream') >= Overlap /\ Len(assembly.tail) = Overlap
                         /\ \A i \in 1..Overlap : assembly.tail[i] = <<stream'[i], profile>>
                      \/ assembly.start \in Nat \ {0} /\ at = 0
    BY DEF TailOK
  <2>1. CASE /\ assembly.start = at - Hop
             /\ Len(stream) >= Overlap /\ Len(assembly.tail) = Overlap
             /\ \A i \in 1..Overlap : assembly.tail[i] = <<stream[i], profile>>
    <3>1. \A i \in 1..Overlap : i \in 1..Len(stream)
      BY <1>1, <2>1, Geometry
    <3>2. Len(stream') >= Overlap
      BY <1>1, <1>2, <2>1, Geometry
    <3> QED  BY <1>2, <2>1, <3>1, <3>2
  <2>2. CASE assembly.start \in Nat \ {0} /\ at = 0
    BY <2>2
  <2> QED  BY <2>1, <2>2 DEF ServeInv, TailOK
<1>6. TodoOK'
  BY <1>0 DEF ServeInv, TodoOK
<1>7. StoresOut' /\ CachesOK' /\ missed' \in BOOLEAN /\ ServedIsOwnSeparation'
  BY <1>0 DEF ServeInv, StoresOut, CachesOK, ServedIsOwnSeparation, disk
<1> QED  BY <1>3, <1>4, <1>5, <1>6, <1>7 DEF ServeInv

\* One more anchor, for the frame that is next.
LEMMA AnchorTold ==
    ASSUME HostOK, NEW x \in Anchors, x.frame = Now
    PROVE  /\ Append(anchors, x) \in Seq(Anchors) /\ Sorted(Append(anchors, x))
           /\ \A i \in 1..Len(Append(anchors, x)) : Append(anchors, x)[i].frame <= Now
<1> DEFINE list == Append(anchors, x)
           n == Len(anchors)
<1>1. /\ anchors \in Seq(Anchors) /\ n \in Nat /\ Sorted(anchors)
      /\ \A i \in 1..n : anchors[i].frame \in Nat /\ anchors[i].frame <= Now
  BY AnchorIs DEF HostOK
<1>2. Now \in Nat
  BY DEF HostOK, Now
<1>3. /\ list \in Seq(Anchors) /\ Len(list) = n + 1
      /\ \A i \in 1..n : list[i] = anchors[i]
      /\ list[n + 1] = x
  BY <1>1, AppendProperties
<1> HIDE DEF list, n
<1>4. \A i \in 1..Len(list) : i \in 1..n \/ i = n + 1
  BY <1>1, <1>3
<1>5. \A i \in 1..Len(list) : list[i].frame <= Now
  BY <1>1, <1>2, <1>3, <1>4
<1>6. Sorted(list)
  <2> SUFFICES ASSUME NEW i \in 1..Len(list), NEW j \in 1..Len(list), i <= j
               PROVE  list[i].frame <= list[j].frame
    BY DEF Sorted
  <2>1. CASE j = n + 1
    BY <1>3, <1>5, <2>1
  <2>2. CASE j \in 1..n
    <3>1. i \in 1..n
      BY <1>1, <1>4, <2>2
    <3> QED  BY <1>1, <1>3, <2>2, <3>1 DEF Sorted, n
  <2> QED  BY <1>4, <2>1, <2>2
<1> QED  BY <1>3, <1>5, <1>6 DEF list

\* The anchor of update_progress.
LEMMA AnchorTyped ==
    ASSUME HostOK, NEW pos \in Nat, NEW length \in Nat, NEW rtp \in Nat, NEW rev \in Nat
    PROVE  Anchor(pos, length, rtp, rev) \in Anchors /\ Anchor(pos, length, rtp, rev).frame = Now
<1>1. Now \in Nat /\ named \in BOOLEAN
  BY DEF HostOK, Now
<1> QED  BY <1>1 DEF Anchor, Anchors

LEMMA SoundsTyped ==
    ASSUME HostOK, Sounds
    PROVE  stream' = Append(stream, head) /\ head' \in Heard
<1>1. head \in Heard
  BY DEF HostOK
<1>2. CASE head.pos + 1 < LengthOf[head.song]
  <2>1. head' = [head EXCEPT !.pos = @ + 1]
    BY <1>2 DEF Sounds
  <2> QED  BY <1>1, <2>1 DEF Heard, Sounds
<1>3. CASE ~(head.pos + 1 < LengthOf[head.song])
  <2>1. head' \in Starts
    BY <1>3 DEF Sounds
  <2> QED  BY <2>1 DEF Heard, Starts, Sounds
<1> QED  BY <1>2, <1>3

LEMMA ServePhone ==
    ServeInv /\ (PlayFrame \/ PlayUnannounced \/ PlayMistold \/ Correct \/ Skip \/ Metadata)
        => ServeInv'
<1> SUFFICES ASSUME ServeInv,
                    PlayFrame \/ PlayUnannounced \/ PlayMistold \/ Correct \/ Skip \/ Metadata
             PROVE  ServeInv'
  OBVIOUS
<1>1. /\ HostOK /\ head \in Heard /\ head.song \in Songs /\ head.pos \in Nat /\ revision \in Nat
      /\ named \in BOOLEAN
      /\ anchors \in Seq(Anchors) /\ Sorted(anchors)
      /\ \A i \in 1..Len(anchors) : anchors[i].frame <= Now
      /\ \A song \in Songs : LengthOf[song] \in Nat
  BY SongsAssumption DEF ServeInv, HostOK, Heard
<1>2. Len(stream) < Window
  BY <1>1 DEF PlayFrame, PlayUnannounced, PlayMistold, Correct, Skip, Metadata, Captures
<1>3. ASSUME NEW length \in Nat, Progress(length)
      PROVE  /\ anchors' \in Seq(Anchors) /\ Sorted(anchors') /\ revision' \in Nat
             /\ \A i \in 1..Len(anchors') : anchors'[i].frame <= Now
  <2> DEFINE next == revision + 1
             x == Anchor(head.pos, length, next, next)
  <2>1. anchors' = Append(anchors, x) /\ revision' = next
    BY <1>3 DEF Progress
  <2>2. next \in Nat
    BY <1>1
  <2> HIDE DEF next
  <2>3. x \in Anchors /\ x.frame = Now
    BY <1>1, <2>2, AnchorTyped
  <2> HIDE DEF x
  <2> QED  BY <1>1, <2>1, <2>2, <2>3, AnchorTold
<1>4. CASE PlayFrame
  <2>1. UNCHANGED <<at, profile, missed, assembly, todo, disk, count, seq, out, named>>
    BY <1>4 DEF PlayFrame
  <2>2. stream' = Append(stream, head) /\ head' \in Heard
    BY <1>1, <1>4, SoundsTyped DEF PlayFrame
  <2>3. UNCHANGED <<anchors, revision>> \/ Progress(LengthOf[head.song])
    BY <1>4 DEF PlayFrame
  <2> QED  BY <1>1, <1>2, <1>3, <2>1, <2>2, <2>3, HostStep
<1>5. CASE PlayUnannounced
  <2>1. UNCHANGED <<at, profile, missed, assembly, todo, disk, count, seq, out, named, anchors, revision>>
    BY <1>5 DEF PlayUnannounced
  <2>2. stream' = Append(stream, head) /\ head' \in Heard
    BY <1>1, <1>5, SoundsTyped DEF PlayUnannounced
  <2> QED  BY <1>1, <1>2, <2>1, <2>2, HostStep
<1>6. CASE PlayMistold
  <2>1. UNCHANGED <<at, profile, missed, assembly, todo, disk, count, seq, out, named>>
    BY <1>6 DEF PlayMistold
  <2>2. stream' = Append(stream, head) /\ head' \in Heard
    BY <1>1, <1>6, SoundsTyped DEF PlayMistold
  <2>3. \E song \in Songs : Progress(LengthOf[song])
    BY <1>6 DEF PlayMistold
  <2> QED  BY <1>1, <1>2, <1>3, <2>1, <2>2, <2>3, HostStep
<1>7. CASE Correct
  <2>1. UNCHANGED <<at, profile, missed, assembly, todo, disk, count, seq, out, named, stream, head>>
    BY <1>7 DEF Correct
  <2>2. PICK pos \in 0..(head.pos + 1), length \in {LengthOf[s] : s \in Songs} :
            LET rev == IF length = Last(anchors).length THEN revision ELSE revision + 1 IN
            /\ anchors' = Append(anchors, Anchor(pos, length, Last(anchors).rtp, rev))
            /\ revision' = rev
    BY <1>7 DEF Correct
  <2> DEFINE rev == IF length = Last(anchors).length THEN revision ELSE revision + 1
             rtp == Last(anchors).rtp
             x == Anchor(pos, length, rtp, rev)
  <2>3. rtp \in Nat
    <3>1. anchors # <<>>
      BY <1>7 DEF Correct
    <3>2. Len(anchors) \in 1..Len(anchors)
      BY <1>1, <3>1, EmptySeq
    <3>3. Last(anchors) \in Anchors
      BY <1>1, <3>2, AnchorIs DEF Last
    <3> QED  BY <3>3 DEF Anchors
  <2>4. anchors' = Append(anchors, x) /\ revision' = rev
    BY <2>2
  <2>5. pos \in Nat /\ length \in Nat /\ rev \in Nat
    BY <1>1
  <2> HIDE DEF rev, rtp
  <2>6. x \in Anchors /\ x.frame = Now
    BY <1>1, <2>3, <2>5, AnchorTyped
  <2> HIDE DEF x
  <2>7. /\ anchors' \in Seq(Anchors) /\ Sorted(anchors') /\ revision' \in Nat
        /\ \A i \in 1..Len(anchors') : anchors'[i].frame <= Now
    BY <1>1, <2>4, <2>5, <2>6, AnchorTold
  <2> QED  BY <1>1, <2>1, <2>7, HostStep
<1>8. CASE Skip
  <2>1. UNCHANGED <<at, profile, missed, assembly, todo, disk, count, seq, out, named, stream, anchors,
                    revision>>
    BY <1>8 DEF Skip
  <2>2. head' \in Heard
    <3>1. PICK song \in Songs : \E pos \in 0..(LengthOf[song] - 1) :
                head' = [song |-> song, pos |-> pos]
      BY <1>8 DEF Skip
    <3> QED  BY <1>1, <3>1 DEF Heard
  <2> QED  BY <1>1, <2>1, <2>2, HostStep
<1>9. CASE Metadata
  <2>1. /\ UNCHANGED <<at, profile, missed, assembly, todo, disk, count, seq, out, stream, head, revision>>
        /\ named' = TRUE
    BY <1>9 DEF Metadata
  <2> DEFINE Named(i) == [anchors[i] EXCEPT !.titled = @ \/ anchors[i].revision = revision]
  <2>2. \/ anchors' = anchors
        \/ anchors' = [i \in 1..Len(anchors) |-> Named(i)]
    BY <1>9 DEF Metadata
  <2>3. CASE anchors' = anchors
    BY <1>1, <2>1, <2>3, HostStep
  <2>4. CASE anchors' = [i \in 1..Len(anchors) |-> Named(i)]
    <3>1. Len(anchors) \in Nat /\ \A i \in 1..Len(anchors) : anchors[i] \in Anchors
      BY <1>1, AnchorIs
    <3>2. ASSUME NEW i \in 1..Len(anchors)
          PROVE  Named(i) \in Anchors /\ Named(i).frame = anchors[i].frame
      BY <3>1 DEF Anchors
    <3> HIDE DEF Named
    <3>3. /\ anchors' \in Seq(Anchors) /\ Len(anchors') = Len(anchors)
          /\ \A i \in 1..Len(anchors) : anchors'[i].frame = anchors[i].frame
      BY <2>4, <3>1, <3>2
    <3>4. Sorted(anchors') /\ \A i \in 1..Len(anchors') : anchors'[i].frame <= Now
      BY <1>1, <3>3 DEF Sorted
    <3> QED  BY <1>1, <2>1, <3>3, <3>4, HostStep
  <2> QED  BY <2>2, <2>3, <2>4
<1> QED  BY <1>4, <1>5, <1>6, <1>7, <1>8, <1>9

-----------------------------------------------------------------------------
(* A window is done with.                                                  *)

\* What follows the hop is the beginning of the next window.
LEMMA WindowTaken ==
    ASSUME HostOK, Captured, NextWindow, UNCHANGED profile
    PROVE  /\ HostOK'
           /\ at' = at + Hop /\ seq' = seq + 1 /\ Len(stream') = Overlap
           /\ \A i \in 1..Overlap : stream'[i] = stream[Hop + i]
<1>1. /\ stream \in Seq(Heard) /\ Len(stream) = Window /\ at \in Nat /\ seq \in Nat \ {0}
      /\ anchors \in Seq(Anchors) /\ Sorted(anchors)
      /\ \A i \in 1..Len(anchors) : anchors[i].frame <= Now
  BY DEF HostOK, Captured
<1>2. Overlap \in Nat \ {0} /\ Hop \in Nat \ {0} /\ Window = Hop + Overlap
  BY Geometry
<1>3. /\ stream' = SubSeq(stream, Hop + 1, Window) /\ at' = at + Hop /\ seq' = seq + 1
      /\ anchors' = AnchorsForWindow(anchors, at + Hop, Now)
      /\ UNCHANGED <<head, named, revision, profile>>
  BY DEF NextWindow
<1>4. /\ stream' \in Seq(Heard) /\ Len(stream') = Overlap
      /\ \A i \in 1..Overlap : stream'[i] = stream[Hop + i]
  <2> DEFINE m == Hop + 1
  <2>1. /\ m \in Int /\ Window \in Int /\ m <= Window /\ Window - m + 1 = Overlap
        /\ \A i \in m..Window : i \in 1..Len(stream)
        /\ \A i \in 1..Overlap : m + i - 1 = Hop + i
    BY <1>1, <1>2
  <2>2. \A i \in m..Window : stream[i] \in Heard
    BY <1>1, <2>1
  <2>3. stream' = SubSeq(stream, m, Window)
    BY <1>3
  <2> HIDE DEF m
  <2> QED  BY <2>1, <2>2, <2>3, SubSeqProperties
<1>5. Now \in Nat /\ Now' = Now
  <2>1. Now = at + Len(stream) /\ Now' = at' + Len(stream')
    BY DEF Now
  <2>2. Now = at + (Hop + Overlap) /\ Now' = at + Hop + Overlap
    BY <1>1, <1>2, <1>3, <1>4, <2>1
  <2> QED  BY <1>1, <1>2, <2>2
<1>6. /\ anchors' \in Seq(Anchors) /\ Sorted(anchors')
      /\ \A i \in 1..Len(anchors') : \E j \in 1..Len(anchors) : anchors'[i] = anchors[j]
  <2> DEFINE from == at + Hop
  <2>1. from \in Int /\ Now \in Int
    BY <1>1, <1>2, <1>5
  <2>2. anchors' = AnchorsForWindow(anchors, from, Now)
    BY <1>3
  <2> HIDE DEF from
  <2>3. /\ AnchorsForWindow(anchors, from, Now) \in Seq(Anchors)
        /\ Sorted(AnchorsForWindow(anchors, from, Now))
        /\ \A i \in 1..Len(AnchorsForWindow(anchors, from, Now)) :
                \E j \in 1..Len(anchors) : AnchorsForWindow(anchors, from, Now)[i] = anchors[j]
    BY <1>1, <2>1, AnchorsKept
  <2>4. Sorted(anchors') = Sorted(AnchorsForWindow(anchors, from, Now))
    BY <2>2
  <2> QED  BY <2>2, <2>3, <2>4
<1>7. \A i \in 1..Len(anchors') : anchors'[i].frame <= Now'
  BY <1>1, <1>5, <1>6
<1>8. at' \in Nat /\ seq' \in Nat \ {0} /\ Len(stream') <= Window
  BY <1>1, <1>2, <1>3, <1>4
<1> QED  BY <1>3, <1>4, <1>6, <1>7, <1>8 DEF HostOK, Sorted

\* A lookup changes no entry but for when it was last used.
LEMMA LookedUpOK ==
    ASSUME NEW touched, NEW served, CachesOK, seq \in Nat
    PROVE  LookedUp(touched, served) \subseteq SongEntries(Garble)
<1>1. \A e \in songs : e \in SongEntries(Garble)
  BY DEF CachesOK
<1>2. 2 * seq \in Nat /\ 2 * seq + 1 \in Nat
  OBVIOUS
<1>3. ASSUME NEW e \in SongEntries(Garble), NEW n \in Nat
      PROVE  [e EXCEPT !.used = n] \in SongEntries(Garble)
  BY DEF SongEntries
<1> QED  BY <1>1, <1>2, <1>3 DEF LookedUp

LEMMA ServeServeSong == ServeInv /\ ServeSong => ServeInv'
<1> SUFFICES ASSUME ServeInv, ServeSong PROVE ServeInv'
  OBVIOUS
<1>1. /\ HostOK /\ CachesOK /\ AssemblyOK /\ Captured /\ NextWindow
      /\ UNCHANGED <<profile, assembly, todo, windows>>
      /\ Covers(Segments, at, Now)
  BY DEF ServeInv, ServeSong, NextWindow
<1>2. PICK choice \in Matches :
        /\ Publish(Cut(choice), "song")
        /\ songs' = LookedUp(Candidates, Range(choice))
  BY DEF ServeSong
<1>0. missed' = missed /\ Imprint' = Imprint /\ Garble' = Garble
  BY <1>1, SameImprint DEF NextWindow
<1>3. /\ Len(Cut(choice)) = Window
      /\ \A i \in 1..Window :
                Cut(choice)[i] = <<stream[i], profile>> \/ (missed /\ Cut(choice)[i] = Garbled)
  BY <1>1, CutIsSeparation
<1>4. ServedIsOwnSeparation' /\ missed' \in BOOLEAN
  BY <1>0, <1>2, <1>3 DEF Publish, ServedIsOwnSeparation, ServeInv
<1>5. HostOK' /\ seq' = seq + 1
  BY <1>1, WindowTaken
<1>6. CachesOK'
  <2>1. seq \in Nat
    BY <1>1 DEF HostOK
  <2>2. songs' \subseteq SongEntries(Garble)
    BY <1>1, <1>2, <2>1, LookedUpOK
  <2> QED  BY <1>0, <1>1, <2>2 DEF CachesOK
<1>7. seq \in Nat /\ assembly.last \in Nat /\ assembly.last < seq
  BY <1>1 DEF HostOK, AssemblyOK, Assemblies
<1>8. AssemblyOK'
  <2>1. assembly.last < seq'
    BY <1>5, <1>7
  <2> QED  BY <1>0, <1>1, <2>1 DEF AssemblyOK
<1>9. TailOK'
  <2>1. assembly'.last # seq' - 1
    BY <1>1, <1>5, <1>7
  <2> QED  BY <2>1 DEF TailOK
<1>10. TodoOK' /\ StoresOut'
  <2>1. todo' = <<>>
    BY <1>1 DEF Captured
  <2> QED  BY <2>1 DEF TodoOK, StoresOut
<1> QED  BY <1>4, <1>5, <1>6, <1>8, <1>9, <1>10 DEF ServeInv

\* The window goes on where the crossfade was left, or is seen not to.
LEMMA TailGoesOn ==
    ASSUME ServeInv, Captured, NEW stems, stems = SeparationOf(stream, profile)
    PROVE  \/ Regressed(assembly, at) \/ Gapped(assembly, seq)
           \/ Crossfades(assembly.tail, stems, Imprint)
<1>1. /\ stream \in Seq(Heard) /\ Len(stream) = Window /\ at \in Nat
      /\ seq \in Nat \ {0} /\ profile \in Profiles
      /\ assembly \in Assemblies(Imprint) /\ assembly.last < seq
      /\ assembly.last = 0 => assembly.tail = <<>>
  BY DEF ServeInv, HostOK, AssemblyOK, Captured
<1>3. \A i \in 1..Window : stems[i] = <<stream[i], profile>>
  BY <1>1, SeparationTyped
<1>5. \/ Regressed(assembly, at) \/ Gapped(assembly, seq)
      \/ Crossfades(assembly.tail, stems, Imprint)
  <2>0. assembly.last \in Nat /\ assembly.start \in Nat \cup {None}
    BY <1>1 DEF Assemblies
  <2>1. CASE assembly.tail = <<>>
    <3>1. Len(assembly.tail) = 0
      BY <2>1
    <3> QED  BY <3>1, Geometry DEF Crossfades
  <2>4. CASE missed
    BY <2>4, ImprintOK DEF Crossfades
  <2>2. CASE assembly.tail # <<>> /\ assembly.last # seq - 1
    <3>1. assembly.last # 0 /\ seq # assembly.last + 1
      BY <1>1, <2>0, <2>2
    <3> QED  BY <3>1 DEF Gapped
  <2>3. CASE assembly.tail # <<>> /\ assembly.last = seq - 1 /\ ~missed
    <3>1. \/ /\ Len(assembly.tail) = Overlap
             /\ \A i \in 1..Overlap : assembly.tail[i] = <<stream[i], profile>>
          \/ assembly.start \in Nat \ {0} /\ at = 0
      BY <2>3 DEF ServeInv, TailOK
    <3>2. CASE /\ Len(assembly.tail) = Overlap
               /\ \A i \in 1..Overlap : assembly.tail[i] = <<stream[i], profile>>
      <4>1. \A i \in 1..Hop : i > Overlap \/ (i \in 1..Overlap /\ i \in 1..Window)
        BY Geometry
      <4> QED  BY <1>3, <3>2, <4>1 DEF Crossfades
    <3>3. CASE assembly.start \in Nat \ {0} /\ at = 0
      <4>1. assembly.start # None
        BY <3>3, NoneAssumption
      <4>2. at < assembly.start
        BY <3>3
      <4> QED  BY <4>1, <4>2 DEF Regressed
    <3> QED  BY <3>1, <3>2, <3>3
  <2> QED  BY <2>1, <2>2, <2>3, <2>4
<1> QED  BY <1>5

\* A window's stems, which are its separation, are assembled.
LEMMA AssembleStep ==
    ASSUME ServeInv, Captured, NextWindow, UNCHANGED profile, NEW annotated \in BOOLEAN,
           NEW stems, stems = SeparationOf(stream, profile), NEW stores,
           stores = <<>> \/ stores = <<StoreWindow>>,
           Assemble(annotated, stems, stores), CachesOK',
           out'.source = stream, out'.profile = profile, out'.stems = stems
    PROVE  ServeInv'
<1> DEFINE a == Assembled(assembly, seq, at, stream, stems, Annotation)
<1>1. /\ HostOK /\ stream \in Seq(Heard) /\ Len(stream) = Window /\ at \in Nat
      /\ seq \in Nat \ {0} /\ profile \in Profiles
      /\ assembly \in Assemblies(Imprint) /\ assembly.last < seq
      /\ assembly.last = 0 => assembly.tail = <<>>
      /\ todo = <<>> /\ Imprint \in Imprints /\ Imprint[1] = profile
  BY ImprintOK DEF ServeInv, HostOK, AssemblyOK, Captured
<1>0. missed' = missed /\ missed' \in BOOLEAN /\ Imprint' = Imprint /\ Garble' = Garble
  BY SameImprint, ImprintOK DEF NextWindow
<1>2. /\ HostOK' /\ at' = at + Hop /\ seq' = seq + 1 /\ Len(stream') = Overlap
      /\ \A i \in 1..Overlap : stream'[i] = stream[Hop + i]
  BY <1>1, WindowTaken
<1>3. /\ stems \in Stems /\ Len(stems) = Window
      /\ \A i \in 1..Window : stems[i] = <<stream[i], profile>>
  BY <1>1, SeparationTyped
<1>4. /\ Beyond(stems) \in Stems /\ Len(Beyond(stems)) = Overlap
      /\ \A i \in 1..Overlap : Beyond(stems)[i] = <<stream[Hop + i], profile>>
  <2>1. \A i \in 1..Overlap : Hop + i \in 1..Window
    BY Geometry
  <2>2. /\ Beyond(stems) \in Stems /\ Len(Beyond(stems)) = Overlap
        /\ \A i \in 1..Overlap : Beyond(stems)[i] = stems[Hop + i]
    BY <1>3, BeyondOK
  <2> QED  BY <1>3, <2>1, <2>2
<1>5. \/ Regressed(assembly, at) \/ Gapped(assembly, seq)
      \/ Crossfades(assembly.tail, stems, Imprint)
  BY TailGoesOn
<1>6. Annotation \in Seq(Anchors) /\ Sorted(Annotation)
  BY <1>1, AnnotationOK
<1>7. /\ a.assembly \in Assemblies(Imprint) /\ a.finalized \in Seq(Builders(Imprint))
      /\ a.assembly.last = seq /\ a.assembly.start = at
      /\ \/ a.assembly.tail = <<>>
         \/ a.assembly.tail = Beyond(stems) /\ a.assembly.history # <<>>
  <2>1. seq \in Nat
    BY <1>1
  <2> QED  BY <1>1, <1>5, <1>6, <2>1, AssembledOK
<1> HIDE DEF a
<1>8. /\ assembly' \in Assemblies(Imprint) /\ assembly'.last = seq
      /\ \/ assembly'.tail = <<>>
         \/ /\ assembly'.tail = Beyond(stems) /\ assembly'.start = at
            /\ assembly'.history # <<>>
  <2>1. CASE annotated
    <3>1. assembly' = a.assembly
      BY <2>1 DEF Assemble, a
    <3> QED  BY <1>7, <3>1
  <2>2. CASE ~annotated
    <3>1. assembly' = [assembly EXCEPT !.builder = None, !.tail = <<>>, !.history = <<>>,
                                       !.last = seq]
      BY <1>1, <2>2 DEF Assemble, Unannotated, Dropped, Assemblies
    <3>2. <<>> \in Seq(Hops(Imprint)) /\ <<>> \in Stems /\ seq \in Nat
      BY <1>1, NothingSeparated
    <3> QED  BY <1>1, <3>1, <3>2 DEF Assemblies
  <2> QED  BY <2>1, <2>2
<1>9. /\ stores \in Seq(Ops(Imprint)) /\ Len(stores) \in 0..1
      /\ Len(stores) = 1 => stores[1] = StoreWindow
  <2>1. StoreWindow \in Ops(Imprint)
    BY <1>1 DEF StoreWindow, Ops, WindowOps
  <2>2. CASE stores = <<>>
    BY <2>2
  <2>3. CASE stores = <<StoreWindow>>
    BY <2>1, <2>3
  <2> QED  BY <2>2, <2>3
<1>10. PICK list \in Seq(SongOps(Imprint)) : todo' = stores \o list
  <2>1. CASE annotated
    <3> DEFINE ops == [i \in 1..Len(a.finalized) |->
                            [op |-> "song", builder |-> a.finalized[i]]]
    <3>1. todo' = stores \o ops
      BY <2>1 DEF Assemble, a
    <3>2. Len(a.finalized) \in Nat
          /\ \A i \in 1..Len(a.finalized) : a.finalized[i] \in Builders(Imprint)
      BY <1>7
    <3>3. \A i \in 1..Len(a.finalized) :
            [op |-> "song", builder |-> a.finalized[i]] \in SongOps(Imprint)
      BY <3>2 DEF SongOps
    <3>4. ops \in Seq(SongOps(Imprint))
      BY <3>2, <3>3
    <3> QED  BY <3>1, <3>4
  <2>2. CASE ~annotated
    <3>1. todo' = stores
      BY <2>2 DEF Assemble
    <3>2. <<>> \in Seq(SongOps(Imprint)) /\ stores \o <<>> = stores
      BY <1>9
    <3> QED  BY <3>1, <3>2
  <2> QED  BY <2>1, <2>2
<1>11. todo' \in Seq(Ops(Imprint))
       /\ \A i \in 1..Len(todo') : todo'[i] = StoreWindow \/ todo'[i] \in SongOps(Imprint)
  <2>1. list \in Seq(Ops(Imprint)) /\ Len(list) \in Nat
        /\ \A i \in 1..Len(list) : list[i] \in SongOps(Imprint)
    BY DEF Ops
  <2> HIDE DEF Ops
  <2>2. /\ Len(todo') = Len(stores) + Len(list)
        /\ \A i \in 1..(Len(stores) + Len(list)) :
              todo'[i] = IF i <= Len(stores) THEN stores[i] ELSE list[i - Len(stores)]
        /\ todo' \in Seq(Ops(Imprint))
    BY <1>9, <1>10, <2>1, ConcatProperties
  <2> SUFFICES ASSUME NEW i \in 1..Len(todo')
               PROVE  todo'[i] = StoreWindow \/ todo'[i] \in SongOps(Imprint)
    BY <2>2
  <2>3. CASE i <= Len(stores)
    <3>1. i = 1 /\ Len(stores) = 1
      BY <1>9, <2>1, <2>2, <2>3
    <3> QED  BY <1>9, <2>2, <2>3, <3>1
  <2>4. CASE ~(i <= Len(stores))
    <3>1. i - Len(stores) \in 1..Len(list)
      BY <1>9, <2>1, <2>2, <2>4
    <3> QED  BY <1>9, <2>1, <2>2, <2>4, <3>1
  <2> QED  BY <2>3, <2>4
<1>12. AssemblyOK'
  <2>1. seq < seq' /\ seq # 0
    BY <1>1, <1>2
  <2> QED  BY <1>0, <1>8, <2>1 DEF AssemblyOK
<1>13. TailOK'
  <2>1. CASE assembly'.tail = <<>>
    BY <2>1 DEF TailOK
  <2>2. CASE assembly'.tail = Beyond(stems) /\ assembly'.start = at
    <3>1. at = at' - Hop /\ Len(stream') >= Overlap
      BY <1>1, <1>2, Geometry
    <3> QED  BY <1>2, <1>4, <2>2, <3>1 DEF TailOK
  <2> QED  BY <1>8, <2>1, <2>2
<1>14. TodoOK'
  BY <1>0, <1>11 DEF TodoOK
<1>15. StoresOut'
  <2>1. \A o \in SongOps(Imprint) : o.op = "song"
    BY DEF SongOps
  <2>2. ASSUME NEW i \in 1..Len(todo'), todo'[i].op = "window"
        PROVE  todo'[i] = StoreWindow
    BY <1>11, <2>1, <2>2
  <2> QED  BY <1>1, <2>2 DEF StoresOut, StoreWindow
<1>16. ServedIsOwnSeparation'
  BY <1>1, <1>3 DEF ServedIsOwnSeparation
<1> QED  BY <1>0, <1>2, <1>12, <1>13, <1>14, <1>15, <1>16 DEF ServeInv

LEMMA ServeServeWindow == ServeInv /\ ServeWindow => ServeInv'
<1> SUFFICES ASSUME ServeInv, ServeWindow PROVE ServeInv'
  OBVIOUS
<1>1. PICK annotated \in BOOLEAN, w \in Hits :
        /\ Captured /\ NoSong(annotated)
        /\ Publish(w.stems, "window")
        /\ windows' = (windows \ {w}) \cup {[w EXCEPT !.used = seq]}
        /\ Assemble(annotated, w.stems, <<>>)
        /\ NextWindow
  BY DEF ServeWindow
<1>2. HostOK /\ CachesOK /\ seq \in Nat
  BY DEF ServeInv, HostOK
<1>0. Garble' = Garble
  BY <1>1, SameImprint DEF NextWindow
<1>3. w \in WindowEntries /\ w.stems = SeparationOf(stream, profile)
  BY <1>1, <1>2 DEF Hits, SameWindow, CachesOK, WindowEntries
<1>4. CachesOK'
  <2>1. [w EXCEPT !.used = seq] \in WindowEntries
    BY <1>2, <1>3 DEF WindowEntries
  <2>2. songs' \subseteq SongEntries(Garble)
    BY <1>1, <1>2, LookedUpOK DEF NoSong, CachesOK
  <2> QED  BY <1>0, <1>1, <1>2, <2>1, <2>2 DEF CachesOK
<1>5. /\ UNCHANGED profile /\ out'.source = stream /\ out'.profile = profile
      /\ out'.stems = w.stems
  BY <1>1 DEF NextWindow, Publish
<1>6. <<>> = <<>> \/ <<>> = <<StoreWindow>>
  OBVIOUS
<1> DEFINE stems == w.stems
<1>7. /\ Assemble(annotated, stems, <<>>) /\ stems = SeparationOf(stream, profile)
      /\ out'.stems = stems
  BY <1>1, <1>3, <1>5
<1> HIDE DEF stems
<1> QED  BY <1>1, <1>4, <1>5, <1>7, AssembleStep

LEMMA ServeSeparate == ServeInv /\ Separate => ServeInv'
<1> SUFFICES ASSUME ServeInv, Separate PROVE ServeInv'
  OBVIOUS
<1> DEFINE stores(annotated) == IF annotated /\ Supported THEN <<>> ELSE <<StoreWindow>>
<1>1. PICK annotated \in BOOLEAN :
        /\ Captured /\ NoSong(annotated)
        /\ Publish(Separated, "separated")
        /\ windows' = windows \ Invalid
        /\ Assemble(annotated, Separated, stores(annotated))
        /\ NextWindow
  BY DEF Separate
<1>2. HostOK /\ CachesOK /\ seq \in Nat
  BY DEF ServeInv, HostOK
<1>0. Garble' = Garble
  BY <1>1, SameImprint DEF NextWindow
<1>3. Separated = SeparationOf(stream, profile)
  BY <1>1 DEF Separated, SeparationOf, Captured
<1>4. CachesOK'
  <2>1. songs' \subseteq SongEntries(Garble)
    BY <1>1, <1>2, LookedUpOK DEF NoSong, CachesOK
  <2> QED  BY <1>0, <1>1, <1>2, <2>1 DEF CachesOK
<1>5. /\ UNCHANGED profile /\ out'.source = stream /\ out'.profile = profile
      /\ out'.stems = Separated
  BY <1>1 DEF NextWindow, Publish
<1>6. stores(annotated) = <<>> \/ stores(annotated) = <<StoreWindow>>
  OBVIOUS
<1> HIDE DEF stores
<1> QED  BY <1>1, <1>3, <1>4, <1>5, <1>6, AssembleStep

LEMMA ServeFallBack == ServeInv /\ FallBack => ServeInv'
<1> SUFFICES ASSUME ServeInv, FallBack PROVE ServeInv'
  OBVIOUS
<1>1. /\ HostOK /\ CachesOK /\ seq \in Nat /\ Captured /\ NextWindow /\ UNCHANGED profile
      /\ assembly \in Assemblies(Imprint) /\ assembly.last \in Nat /\ assembly.last < seq
      /\ todo = <<>> /\ todo' = todo
      /\ assembly' = [assembly EXCEPT !.builder = None, !.tail = <<>>]
  BY DEF ServeInv, HostOK, AssemblyOK, Assemblies, FallBack, NextWindow, Captured
<1>0. missed' = missed /\ missed' \in BOOLEAN /\ Imprint' = Imprint /\ Garble' = Garble
  BY <1>1, SameImprint, ImprintOK DEF NextWindow
<1>2. HostOK' /\ seq' = seq + 1
  BY <1>1, WindowTaken
<1>3. CachesOK'
  <2>1. songs' \subseteq SongEntries(Garble)
    BY <1>1, LookedUpOK DEF FallBack, NoSong, CachesOK
  <2> QED  BY <1>0, <1>1, <2>1 DEF FallBack, CachesOK
<1>4. AssemblyOK' /\ TailOK'
  <2>1. <<>> \in Stems
    BY NothingSeparated
  <2>2. assembly' \in Assemblies(Imprint) /\ assembly'.tail = <<>> /\ assembly'.last = assembly.last
    BY <1>1, <2>1 DEF Assemblies
  <2>3. assembly.last < seq'
    BY <1>1, <1>2
  <2> QED  BY <1>0, <1>1, <2>2, <2>3 DEF AssemblyOK, TailOK
<1>5. TodoOK' /\ StoresOut'
  BY <1>0, <1>1 DEF TodoOK, StoresOut
<1>6. ServedIsOwnSeparation'
  BY DEF FallBack, Publish, ServedIsOwnSeparation
<1> QED  BY <1>0, <1>2, <1>3, <1>4, <1>5, <1>6 DEF ServeInv

-----------------------------------------------------------------------------
(* The disk. What is left to do was left to do before.                     *)

LEMMA DiskStep ==
    ASSUME ServeInv, UNCHANGED <<host, profile, missed, assembly, seq, out>>,
           todo' \in Seq(Ops(Imprint)), CachesOK',
           \A i \in 1..Len(todo') : todo'[i].op = "window" =>
                \E j \in 1..Len(todo) : todo'[i] = todo[j]
    PROVE  ServeInv'
<1>1. UNCHANGED <<stream, at, anchors, head, named, revision, profile, assembly, seq, out>>
  BY DEF host
<1>0. missed' = missed /\ missed' \in BOOLEAN /\ Imprint' = Imprint /\ Garble' = Garble
  BY SameImprint, ImprintOK
<1>2. HostOK'
  BY <1>1 DEF ServeInv, HostOK, Now, Sorted
<1>3. AssemblyOK' /\ TailOK'
  BY <1>0, <1>1 DEF ServeInv, AssemblyOK, TailOK
<1>4. TodoOK'
  BY <1>0, <1>1 DEF TodoOK
<1>5. StoresOut'
  BY <1>1 DEF ServeInv, StoresOut
<1>6. ServedIsOwnSeparation'
  BY <1>0, <1>1 DEF ServeInv, ServedIsOwnSeparation
<1> QED  BY <1>0, <1>2, <1>3, <1>4, <1>5, <1>6 DEF ServeInv

LEMMA FirstDone ==
    ASSUME TodoOK, todo # <<>>
    PROVE  /\ Head(todo) = todo[1] /\ 1 \in 1..Len(todo) /\ todo[1] \in Ops(Imprint)
           /\ Tail(todo) \in Seq(Ops(Imprint))
           /\ \A i \in 1..Len(Tail(todo)) : \E j \in 1..Len(todo) : Tail(todo)[i] = todo[j]
           /\ <<[op |-> "prune"]>> \o Tail(todo) \in Seq(Ops(Imprint))
           /\ \A i \in 1..Len(<<[op |-> "prune"]>> \o Tail(todo)) :
                \/ (<<[op |-> "prune"]>> \o Tail(todo))[i] = [op |-> "prune"]
                \/ \E j \in 1..Len(todo) : (<<[op |-> "prune"]>> \o Tail(todo))[i] = todo[j]
<1> DEFINE prune == [op |-> "prune"]
           rest == Tail(todo)
           list == <<prune>> \o rest
<1>1. todo \in Seq(Ops(Imprint))
  BY DEF TodoOK
<1>2. prune \in Ops(Imprint)
  BY DEF Ops, PlainOps
<1> HIDE DEF prune
<1>3. /\ Head(todo) = todo[1] /\ Len(todo) \in Nat /\ Len(todo) >= 1 /\ rest \in Seq(Ops(Imprint))
      /\ Len(rest) = Len(todo) - 1 /\ \A i \in 1..Len(rest) : rest[i] = todo[i + 1]
  BY <1>1, HeadTailProperties, EmptySeq
<1>4. 1 \in 1..Len(todo) /\ todo[1] \in Ops(Imprint)
  BY <1>1, <1>3
<1> HIDE DEF rest
<1>5. \A i \in 1..Len(rest) : i + 1 \in 1..Len(todo)
  BY <1>3
<1>6. /\ list \in Seq(Ops(Imprint)) /\ Len(list) = 1 + Len(rest) /\ list[1] = prune
      /\ \A i \in 1..Len(list) : i # 1 => i - 1 \in 1..Len(rest) /\ list[i] = rest[i - 1]
  <2>1. /\ <<prune>> \in Seq(Ops(Imprint)) /\ Len(<<prune>>) = 1 /\ <<prune>>[1] = prune
        /\ Len(rest) \in Nat
    BY <1>2, <1>3
  <2>2. /\ list \in Seq(Ops(Imprint)) /\ Len(list) = 1 + Len(rest)
        /\ \A i \in 1..(1 + Len(rest)) :
              list[i] = IF i <= 1 THEN <<prune>>[i] ELSE rest[i - 1]
    BY <1>3, <2>1, ConcatProperties
  <2> HIDE DEF list
  <2>3. list[1] = prune
    BY <2>1, <2>2
  <2> QED  BY <2>1, <2>2, <2>3
<1> HIDE DEF list
<1>7. \A i \in 1..Len(list) : list[i] = prune \/ \E j \in 1..Len(todo) : list[i] = todo[j]
  BY <1>3, <1>5, <1>6
<1> QED  BY <1>3, <1>4, <1>5, <1>6, <1>7 DEF list, rest, prune

\* A song that is stored is the separation of its frames.
LEMMA EntryOK ==
    ASSUME NEW b \in Builders(Imprint), profile \in Profiles, seq \in Nat, Whole(b)
    PROVE  Entry(b) \in SongEntries(Garble)
<1> DEFINE x == SubSeq(b.source, 1, b.length)
           y == SubSeq(b.stems, 1, b.length)
<1>1. b.length \in 0..Len(b.source) /\ b.source \in Seq(Heard) /\ b.length \in Nat
      /\ b.stems \in Stems /\ Separates(b.stems, b.source, Imprint)
  BY DEF Builders, Whole
<1>2. /\ x \in Seq(Heard) /\ Len(x) = b.length /\ y \in Stems
      /\ Separates(y, x, <<profile, Garble>>)
  BY <1>1, SeparatesPart DEF Imprint
<1>3. 2 * seq + 1 \in Nat
  OBVIOUS
<1>4. Entry(b) = [source |-> x, stems |-> y, length |-> b.length, profile |-> profile,
                  state |-> "complete", used |-> 2 * seq + 1]
  BY DEF Entry
<1> HIDE DEF x, y
<1> QED  BY <1>1, <1>2, <1>3, <1>4 DEF SongEntries, States

LEMMA ServeDisk ==
    ServeInv /\ (StoreSong \/ Prune \/ Count \/ StoreChunk \/ CompleteWindow \/ SweepWindows)
        => ServeInv'
<1> SUFFICES ASSUME ServeInv,
                    StoreSong \/ Prune \/ Count \/ StoreChunk \/ CompleteWindow \/ SweepWindows
             PROVE  ServeInv'
  OBVIOUS
<1>1. /\ TodoOK /\ CachesOK /\ StoresOut /\ todo \in Seq(Ops(Imprint)) /\ profile \in Profiles
      /\ seq \in Nat
      /\ songs \subseteq SongEntries(Garble) /\ windows \subseteq WindowEntries
  BY DEF ServeInv, TodoOK, CachesOK, HostOK
<1>2. todo # <<>> /\ UNCHANGED <<host, profile, missed, assembly, seq, out>>
  BY DEF StoreSong, Prune, Count, StoreChunk, CompleteWindow, SweepWindows, Doing, DiskOnly
<1>3. /\ Head(todo) = todo[1] /\ 1 \in 1..Len(todo) /\ todo[1] \in Ops(Imprint)
      /\ Tail(todo) \in Seq(Ops(Imprint))
      /\ \A i \in 1..Len(Tail(todo)) : \E j \in 1..Len(todo) : Tail(todo)[i] = todo[j]
  BY <1>1, <1>2, FirstDone
<1>0. Garble' = Garble
  BY <1>2, SameImprint
\* Nothing is added to what is to be done but a pruning.
<1>4. ASSUME todo' \in {todo, Tail(todo), <<[op |-> "prune"]>> \o Tail(todo)}, CachesOK'
      PROVE  ServeInv'
  <2>1. \A i \in 1..Len(todo') : todo'[i].op = "window" =>
            \E j \in 1..Len(todo) : todo'[i] = todo[j]
    <3>1. CASE todo' = todo
      BY <3>1
    <3>2. CASE todo' = Tail(todo)
      BY <1>3, <3>2
    <3>3. CASE todo' = <<[op |-> "prune"]>> \o Tail(todo)
      <4>1. \A i \in 1..Len(todo') :
                todo'[i] = [op |-> "prune"] \/ \E j \in 1..Len(todo) : todo'[i] = todo[j]
        BY <1>1, <1>2, <3>3, FirstDone
      <4>2. [op |-> "prune"].op # "window"
        OBVIOUS
      <4> QED  BY <4>1, <4>2
    <3> QED  BY <1>4, <3>1, <3>2, <3>3
  <2>2. todo' \in Seq(Ops(Imprint))
    BY <1>1, <1>2, <1>4, FirstDone
  <2> QED  BY <1>2, <1>4, <2>1, <2>2, DiskStep
<1>5. CASE StoreSong
  <2> DEFINE b == Head(todo).builder
             same == {e \in songs : SameSong(e, Entry(b))}
  <2>1. b \in Builders(Imprint)
    BY <1>3, <1>5 DEF StoreSong, Doing, Ops, SongOps, WindowOps, PlainOps
  <2>2. /\ songs' \subseteq songs \/ (Whole(b) /\ songs' = songs \cup {Entry(b)})
        /\ UNCHANGED windows
        /\ todo' \in {Tail(todo), <<[op |-> "prune"]>> \o Tail(todo)}
    BY <1>5 DEF StoreSong, Finish
  <2> HIDE DEF b, same
  <2>3. CachesOK'
    BY <1>0, <1>1, <2>1, <2>2, EntryOK DEF CachesOK
  <2> QED  BY <1>4, <2>2, <2>3
<1>6. CASE Prune
  <2>1. songs' \subseteq songs /\ UNCHANGED <<todo, windows>>
    BY <1>6 DEF Prune
  <2> QED  BY <1>0, <1>1, <1>4, <2>1 DEF CachesOK
<1>7. CASE Count
  <2>1. UNCHANGED <<songs, windows>> /\ todo' = Tail(todo)
    BY <1>7 DEF Count, Finish
  <2> QED  BY <1>0, <1>1, <1>4, <2>1 DEF CachesOK
<1>8. CASE StoreChunk
  <2> DEFINE o == Head(todo)
             w == [source |-> o.source, profile |-> o.profile, stems |-> out.stems,
                   state |-> "building", used |-> seq]
             done == [o EXCEPT !.op = "complete"]
  <2>1. /\ windows' \subseteq windows \cup {w} /\ UNCHANGED songs
        /\ todo' = [todo EXCEPT ![1].op = "complete"] /\ o.op = "window"
    BY <1>8 DEF StoreChunk, Doing
  <2>2. o \in WindowOps /\ o = todo[1]
    BY <1>3, <2>1 DEF Ops, SongOps, WindowOps, PlainOps
  <2>3. w \in WindowEntries
    <3>1. /\ o.source = out.source /\ o.profile = out.profile /\ Len(out.source) = Window
          /\ out.stems = SeparationOf(out.source, out.profile)
      BY <1>1, <1>3, <2>1, <2>2 DEF StoresOut
    <3>2. o.source \in Seq(Heard) /\ o.profile \in Profiles
      BY <2>2 DEF WindowOps
    <3>3. out.stems \in Stems
      BY <3>1, <3>2, SeparationTyped
    <3> HIDE DEF o
    <3> QED  BY <1>1, <3>1, <3>2, <3>3 DEF WindowEntries, States
  <2>4. CachesOK'
    BY <1>0, <1>1, <2>1, <2>3 DEF CachesOK
  <2>5. done \in Ops(Imprint) /\ done.op = "complete"
    BY <2>2 DEF Ops, WindowOps
  <2>6. todo' = [todo EXCEPT ![1] = done]
    BY <2>1, <2>2
  <2> HIDE DEF done
  <2>7. todo' \in Seq(Ops(Imprint)) /\ Len(todo') = Len(todo)
        /\ \A i \in 1..Len(todo) : todo'[i] = IF i = 1 THEN done ELSE todo[i]
    BY <1>1, <1>3, <2>5, <2>6
  <2>8. \A i \in 1..Len(todo') : todo'[i].op = "window" =>
            \E j \in 1..Len(todo) : todo'[i] = todo[j]
    BY <2>5, <2>7
  <2> QED  BY <1>2, <2>4, <2>7, <2>8, DiskStep
<1>9. CASE CompleteWindow
  <2>1. \A w \in windows' : w \in windows \/ \E v \in windows : w = [v EXCEPT !.state = "complete"]
    BY <1>9 DEF CompleteWindow
  <2>2. ASSUME NEW v \in WindowEntries
        PROVE  [v EXCEPT !.state = "complete"] \in WindowEntries
    BY DEF WindowEntries, States
  <2>3. UNCHANGED songs /\ todo' = Tail(todo)
    BY <1>9 DEF CompleteWindow, Finish
  <2>4. CachesOK'
    BY <1>0, <1>1, <2>1, <2>2, <2>3 DEF CachesOK
  <2> QED  BY <1>4, <2>3, <2>4
<1>10. CASE SweepWindows
  <2>1. windows' \subseteq windows /\ UNCHANGED songs /\ todo' \in {todo, Tail(todo)}
    BY <1>10 DEF SweepWindows, Finish
  <2> QED  BY <1>0, <1>1, <1>4, <2>1 DEF CachesOK
<1> QED  BY <1>5, <1>6, <1>7, <1>8, <1>9, <1>10

-----------------------------------------------------------------------------
(* Commands, ends and restarts.                                            *)

\* A host that is new has written nothing, and has no timeline.
LEMMA NewHostOK ==
    ASSUME HostOK, NewHost, UNCHANGED profile
    PROVE  HostOK' /\ at' = 0 /\ stream' = <<>>
<1>1. /\ stream' = <<>> /\ at' = 0 /\ anchors' = <<>> /\ named' \in BOOLEAN
      /\ UNCHANGED <<head, revision, seq>>
  BY DEF NewHost
<1>2. Len(<<>>) = 0 /\ <<>> \in Seq(Heard) /\ <<>> \in Seq(Anchors)
  OBVIOUS
<1> QED  BY <1>1, <1>2, Geometry DEF HostOK, Sorted

\* The assembly is empty, and there is nothing to do that came from a window.
LEMMA Reset ==
    ASSUME ServeInv, HostOK', assembly' = Empty, CachesOK', UNCHANGED <<seq, out, missed>>,
           todo' \in {<<>>, <<[op |-> "sweep"]>>}
    PROVE  ServeInv'
<1>1. profile' \in Profiles /\ seq' \in Nat \ {0}
  BY DEF HostOK
<1>2. AssemblyOK' /\ TailOK'
  BY <1>1, EmptyOK DEF AssemblyOK, TailOK
<1>3. TodoOK' /\ StoresOut'
  <2>1. CASE todo' = <<>>
    BY <2>1 DEF TodoOK, StoresOut
  <2>2. CASE todo' = <<[op |-> "sweep"]>>
    <3>1. [op |-> "sweep"] \in Ops(Imprint') /\ [op |-> "sweep"].op # "window"
      BY DEF Ops, PlainOps
    <3>2. todo' \in Seq(Ops(Imprint')) /\ \A i \in 1..Len(todo') : todo'[i].op # "window"
      BY <2>2, <3>1
    <3> QED  BY <3>2 DEF TodoOK, StoresOut
  <2> QED  BY <2>1, <2>2
<1>4. ServedIsOwnSeparation' /\ missed' \in BOOLEAN
  BY DEF ServeInv, ServedIsOwnSeparation
<1> QED  BY <1>2, <1>3, <1>4 DEF ServeInv

\* What is separated is so still when more of it may be garbled.
LEMMA MoreGarble ==
    ASSUME NEW p, NEW g, NEW more, g \subseteq more
    PROVE  Assemblies(<<p, g>>) \subseteq Assemblies(<<p, more>>)
<1>1. /\ Builders(<<p, g>>) \subseteq Builders(<<p, more>>)
      /\ Hops(<<p, g>>) \subseteq Hops(<<p, more>>)
  BY DEF Builders, Hops, Separates
<1>2. Seq(Hops(<<p, g>>)) \subseteq Seq(Hops(<<p, more>>))
  BY <1>1
<1> QED  BY <1>1, <1>2 DEF Assemblies

LEMMA ServeCommands ==
    ASSUME ServeInv, HostRestarts \/ Stop \/ SwitchProfile \/ Crash
    PROVE  ServeInv'
<1>1. /\ HostOK /\ CachesOK /\ songs \subseteq SongEntries(Garble) /\ windows \subseteq WindowEntries
      /\ assembly \in Assemblies(Imprint) /\ at \in Nat
  BY DEF ServeInv, HostOK, CachesOK, AssemblyOK
<1>2. CASE HostRestarts
  <2>1. /\ todo = <<>> /\ NewHost /\ missed' = (missed \/ Unaware)
        /\ UNCHANGED <<profile, assembly, todo, songs, windows, seq, out>>
    BY <1>2 DEF HostRestarts, NewHost, disk
  <2>2. HostOK' /\ at' = 0
    BY <1>1, <2>1, NewHostOK
  <2>3. (missed => missed') /\ missed \in BOOLEAN /\ missed' \in BOOLEAN
    BY <2>1 DEF ServeInv, Unaware
  <2>4. Garble \subseteq Garble'
    BY <2>3 DEF Garble
  <2>5. AssemblyOK'
    <3>1. assembly \in Assemblies(Imprint')
      BY <1>1, <2>1, <2>4, MoreGarble DEF Imprint
    <3> QED  BY <2>1, <3>1 DEF ServeInv, AssemblyOK
  <2>6. CachesOK'
    <3>1. SongEntries(Garble) \subseteq SongEntries(Garble')
      BY <2>4 DEF SongEntries, Separates
    <3> QED  BY <1>1, <2>1, <3>1 DEF CachesOK
  <2>7. TailOK'
    <3> SUFFICES ASSUME assembly.tail # <<>>, assembly.last = seq - 1, ~missed'
                 PROVE  assembly.start \in Nat \ {0} /\ at' = 0
      BY <2>1 DEF TailOK
    <3>1. assembly.last # 0 /\ assembly.history # <<>>
      BY DEF ServeInv, AssemblyOK
    <3>2. assembly.last \in Nat /\ seq \in Nat /\ assembly.start \in Nat \cup {None}
      BY <1>1 DEF Assemblies, HostOK
    <3>3. ~Gapped(assembly, seq)
      BY <3>1, <3>2 DEF Gapped
    <3>4. Regressed(assembly, 0)
      BY <2>1, <3>1, <3>3 DEF Unaware
    <3> QED  BY <2>2, <3>2, <3>4 DEF Regressed
  <2>8. TodoOK' /\ StoresOut'
    BY <2>1 DEF TodoOK, StoresOut
  <2>9. ServedIsOwnSeparation'
    BY <2>1, <2>3 DEF ServeInv, ServedIsOwnSeparation
  <2> QED  BY <2>2, <2>3, <2>5, <2>6, <2>7, <2>8, <2>9 DEF ServeInv
<1>3. CASE Stop
  <2>1. /\ NewHost /\ UNCHANGED <<profile, missed, songs, windows, seq, out>> /\ assembly' = Empty
        /\ todo' = <<[op |-> "sweep"]>>
    BY <1>3 DEF Stop, NewHost, disk
  <2>2. HostOK' /\ CachesOK'
    BY <1>1, <2>1, NewHostOK, SameImprint DEF CachesOK
  <2> QED  BY <2>1, <2>2, Reset
<1>4. CASE SwitchProfile
  <2>1. /\ UNCHANGED <<stream, at, anchors, head, named, revision, missed, songs, windows, seq, out>>
        /\ profile' \in Profiles /\ assembly' = Empty /\ todo' = <<>>
    BY <1>4 DEF SwitchProfile, host, disk
  <2>2. HostOK' /\ CachesOK'
    BY <1>1, <2>1 DEF CachesOK, HostOK, Now, Sorted, Garble
  <2> QED  BY <2>1, <2>2, Reset
<1>5. CASE Crash
  <2>1. /\ UNCHANGED <<stream, at, anchors, head, named, revision, profile, missed, seq, out>>
        /\ assembly' = Empty /\ todo' = <<>>
    BY <1>5 DEF Crash, host
  <2>2. ASSUME NEW e \in SongEntries(Garble), NEW r \in Remains(e)
        PROVE  r \in SongEntries(Garble)
    BY DEF Remains, SongEntries, States
  <2>3. ASSUME NEW w \in WindowEntries
        PROVE  [w EXCEPT !.state = "damaged"] \in WindowEntries
    BY DEF WindowEntries, States
  <2>4. /\ \/ UNCHANGED songs
           \/ \E e \in songs : \E r \in Remains(e) : songs' = (songs \ {e}) \cup {r}
        /\ \/ UNCHANGED windows
           \/ \E w \in windows :
                windows' = (windows \ {w}) \cup {[w EXCEPT !.state = "damaged"]}
    BY <1>5 DEF Crash, disk, Oldest
  <2>5. songs' \subseteq SongEntries(Garble)
    BY <1>1, <2>2, <2>4
  <2>6. windows' \subseteq WindowEntries
    BY <1>1, <2>3, <2>4
  <2>7. HostOK'
    BY <1>1, <2>1 DEF HostOK, Now, Sorted
  <2>8. CachesOK'
    BY <2>1, <2>5, <2>6, SameImprint DEF CachesOK
  <2> QED  BY <2>1, <2>7, <2>8, Reset
<1> QED  BY <1>2, <1>3, <1>4, <1>5

LEMMA ServeNext == ServeInv /\ [Next]_vars => ServeInv'
<1> SUFFICES ASSUME ServeInv, [Next]_vars PROVE ServeInv'
  OBVIOUS
<1>1. CASE PlayFrame \/ PlayUnannounced \/ PlayMistold \/ Correct \/ Skip \/ Metadata
  BY <1>1, ServePhone
<1>2. CASE ServeSong
  BY <1>2, ServeServeSong
<1>3. CASE ServeWindow
  BY <1>3, ServeServeWindow
<1>4. CASE Separate
  BY <1>4, ServeSeparate
<1>5. CASE FallBack
  BY <1>5, ServeFallBack
<1>6. CASE StoreSong \/ Prune \/ Count \/ StoreChunk \/ CompleteWindow \/ SweepWindows
  BY <1>6, ServeDisk
<1>7. CASE HostRestarts \/ Stop \/ SwitchProfile \/ Crash
  BY <1>7, ServeCommands
<1>8. CASE UNCHANGED vars
  <2>1. UNCHANGED <<host, profile, missed, assembly, todo, songs, windows, seq, out>>
    BY <1>8 DEF vars, disk
  <2>2. todo' \in Seq(Ops(Imprint)) /\ CachesOK'
    BY <2>1, SameImprint DEF ServeInv, TodoOK, CachesOK
  <2> QED  BY <2>1, <2>2, DiskStep
<1> QED  BY <1>1, <1>2, <1>3, <1>4, <1>5, <1>6, <1>7, <1>8 DEF Next

\* What is played from a cache is the separation, by the profile of the window, of the very
\* frames in it, for every song, geometry, quota and phase of the windows, through corrected
\* announcements, failures, pruning, crashes, commands and hosts replaced at any time.  Once
\* the worker was not aware of such a host, which it tells by a frame number that fell, songs
\* may hold frames of a crossfade of two: those and no others.
THEOREM CachesServeSeparations == Spec => []ServedIsOwnSeparation
<1>1. ServeInv /\ [Next]_vars => ServeInv'
  BY ServeNext
<1>2. ServeInv => ServedIsOwnSeparation
  BY DEF ServeInv
<1> QED  BY <1>1, <1>2, ServeInit, PTL DEF Spec

-----------------------------------------------------------------------------
(* The number of songs.                                                    *)

\* An entry of the song cache has the fields of its manifest, and no others.
Shaped(e) == e = [source |-> e.source, stems |-> e.stems, length |-> e.length,
                  profile |-> e.profile, state |-> e.state, used |-> e.used]

\* A song is stored under its content: no two entries are the same song.  What no interrupted
\* deletion has touched is complete.
Catalogue ==
    /\ IsFiniteSet(songs)
    /\ \A e \in songs : Shaped(e)
    /\ \A e, f \in songs : SameSong(e, f) => e = f
    /\ ~torn => \A e \in songs : Complete(e)

\* The number is behind the cache only while a song that was stored is being pruned for.
Pruning == todo # <<>> /\ Head(todo).op = "prune"
Counted == torn \/ Pruning \/ count = Cardinality(songs)

CountInv == Catalogue /\ Counted

LEMMA SameSet ==
    ASSUME Catalogue, ~torn
    PROVE  {e \in songs : Listed(e)} = songs /\ {e \in songs : Complete(e)} = songs
BY DEF Catalogue, Listed, Complete

\* A lookup changes when entries were last used, and removes damaged ones.
LEMMA LookedUpKeeps ==
    ASSUME NEW touched, NEW served, Catalogue
    PROVE  /\ IsFiniteSet(LookedUp(touched, served))
           /\ \A e \in LookedUp(touched, served) : Shaped(e)
           /\ \A e, f \in LookedUp(touched, served) : SameSong(e, f) => e = f
           /\ ~torn => /\ \A e \in LookedUp(touched, served) : Complete(e)
                       /\ Cardinality(LookedUp(touched, served)) = Cardinality(songs)
<1> DEFINE kept == {f \in songs : ~(Listed(f) /\ ~Complete(f) /\ f.profile = profile)}
           Touch(e) == IF e \in served THEN [e EXCEPT !.used = 2 * seq + 1]
                       ELSE IF e \in touched THEN [e EXCEPT !.used = 2 * seq] ELSE e
           touch == [e \in kept |-> Touch(e)]
           T == LookedUp(touched, served)
<1>1. T = {Touch(e) : e \in kept}
  BY DEF LookedUp
<1>2. IsFiniteSet(kept)
  BY FS_Subset DEF Catalogue
<1>3. \A e \in kept : e \in songs /\ Shaped(e)
  BY DEF Catalogue
<1>4. ASSUME NEW e \in kept
      PROVE  /\ Shaped(Touch(e)) /\ Touch(e).state = e.state
             /\ Touch(e).source = e.source /\ Touch(e).length = e.length
             /\ Touch(e).profile = e.profile
  BY <1>3 DEF Shaped
<1>5. ASSUME NEW e \in kept, NEW f \in kept, SameSong(Touch(e), Touch(f))
      PROVE  e = f
  <2>1. SameSong(e, f)
    BY <1>4, <1>5 DEF SameSong
  <2> QED  BY <2>1 DEF Catalogue
<1> HIDE DEF Touch, kept
<1>6. touch \in Bijection(kept, T)
  <2>1. touch \in Surjection(kept, T)
    BY <1>1 DEF Surjection
  <2>2. \A e, f \in kept : touch[e] = touch[f] => e = f
    BY <1>5 DEF SameSong
  <2>3. touch \in Injection(kept, T)
    BY <2>1, <2>2 DEF Injection, IsInjective, Surjection
  <2> QED  BY <2>1, <2>3 DEF Bijection
<1>7. IsFiniteSet(T) /\ Cardinality(T) = Cardinality(kept)
  BY <1>2, <1>6, FS_Bijection DEF ExistsBijection
<1>8. ASSUME ~torn
      PROVE  kept = songs /\ \A e \in T : Complete(e)
  <2>1. kept = songs
    BY <1>8 DEF kept, Catalogue
  <2> QED  BY <1>1, <1>4, <1>8, <2>1 DEF Catalogue, Complete
<1>9. \A e \in T : Shaped(e)
  BY <1>1, <1>4
<1>10. \A e, f \in T : SameSong(e, f) => e = f
  BY <1>1, <1>5
<1> QED  BY <1>7, <1>8, <1>9, <1>10

LEMMA CountInit == Init => CountInv
BY FS_EmptySet DEF Init, CountInv, Catalogue, Counted

\* Commands, and windows that are looked up.
LEMMA CountLookup ==
    ASSUME CountInv, todo = <<>>, UNCHANGED <<count, torn>>,
           songs' = songs \/ \E touched, served : songs' = LookedUp(touched, served)
    PROVE  CountInv'
<1>1. Catalogue'
  <2>1. CASE songs' = songs
    BY <2>1 DEF CountInv, Catalogue, Complete, Shaped, SameSong
  <2>2. ASSUME NEW touched, NEW served, songs' = LookedUp(touched, served)
        PROVE  Catalogue'
    BY <2>2, LookedUpKeeps DEF CountInv, Catalogue, Complete, Shaped, SameSong
  <2> QED  BY <2>1, <2>2
<1>2. torn \/ count' = Cardinality(songs')
  BY LookedUpKeeps DEF CountInv, Counted, Pruning
<1> QED  BY <1>1, <1>2 DEF CountInv, Counted

LEMMA CountSame ==
    ASSUME CountInv, UNCHANGED <<count, torn, songs>>, ~Pruning \/ todo' = todo
    PROVE  CountInv'
BY DEF CountInv, Catalogue, Counted, Pruning, Complete, Shaped, SameSong

LEMMA CountStore == CountInv /\ StoreSong => CountInv'
<1> SUFFICES ASSUME CountInv, StoreSong PROVE CountInv'
  OBVIOUS
<1> DEFINE b == Head(todo).builder
           same == {e \in songs : SameSong(e, Entry(b))}
<1>1. ~Pruning /\ UNCHANGED <<count, torn>>
  BY DEF StoreSong, DiskOnly, Doing, Pruning
<1>2. CASE songs' = songs
  BY <1>1, <1>2, CountSame
<1>3. CASE same = {} /\ songs' = songs \cup {Entry(b)} /\ todo' = <<[op |-> "prune"]>> \o Tail(todo)
  <2> DEFINE x == Entry(b)
  <2>1. Shaped(x) /\ Complete(x)
    BY DEF Shaped, Complete, Entry
  <2> HIDE DEF x
  <2>2. IsFiniteSet(songs')
    BY <1>3, FS_AddElement DEF CountInv, Catalogue, x
  <2>3. \A e \in songs : ~SameSong(e, x) /\ ~SameSong(x, e)
    BY <1>3 DEF SameSong, x
  <2>4. songs' = songs \cup {x}
    BY <1>3 DEF x
  <2>5. Catalogue'
    BY <1>1, <2>1, <2>2, <2>3, <2>4 DEF CountInv, Catalogue, SameSong, Shaped, Complete
  <2>6. Pruning'
    BY <1>3 DEF Pruning
  <2> QED  BY <2>5, <2>6 DEF CountInv, Counted
<1>4. CASE (\E e \in same : ~Complete(e)) /\ songs' = {e \in songs : e \in same => ~Listed(e)}
  <2>1. torn
    BY <1>4 DEF CountInv, Catalogue
  <2>2. IsFiniteSet(songs')
    BY <1>4, FS_Subset DEF CountInv, Catalogue
  <2>3. Catalogue'
    BY <1>1, <1>4, <2>1, <2>2 DEF CountInv, Catalogue, SameSong, Shaped
  <2> QED  BY <1>1, <2>1, <2>3 DEF CountInv, Counted
<1> QED  BY <1>2, <1>3, <1>4 DEF StoreSong

LEMMA CountPrune == CountInv /\ (Prune \/ Count) => CountInv'
<1> SUFFICES ASSUME CountInv, Prune \/ Count PROVE CountInv'
  OBVIOUS
<1>1. CASE Prune
  <2>1. PICK e \in Oldest(songs) : songs' = songs \ {e}
    BY <1>1 DEF Prune
  <2>2. UNCHANGED <<todo, torn>> /\ Pruning
    BY <1>1 DEF Prune, DiskOnly, Doing, Pruning
  <2>3. IsFiniteSet(songs')
    BY <2>1, FS_RemoveElement DEF CountInv, Catalogue
  <2>4. Catalogue'
    BY <2>1, <2>2, <2>3 DEF CountInv, Catalogue, SameSong, Shaped, Complete
  <2> QED  BY <2>2, <2>4 DEF CountInv, Counted, Pruning
<1>2. CASE Count
  <2>1. UNCHANGED <<songs, torn>> /\ count' = Cardinality({e \in songs : Listed(e)})
    BY <1>2 DEF Count, DiskOnly
  <2>2. Catalogue'
    BY <2>1 DEF CountInv, Catalogue, SameSong, Shaped, Complete
  <2> QED  BY <2>1, <2>2, SameSet DEF CountInv, Counted
<1> QED  BY <1>1, <1>2

LEMMA CountCrash == CountInv /\ Crash => CountInv'
<1> SUFFICES ASSUME CountInv, Crash PROVE CountInv'
  OBVIOUS
<1>1. count' = Cardinality({e \in songs' : Listed(e)})
  BY DEF Crash
<1>2. CASE UNCHANGED <<songs, torn>>
  <2>1. Catalogue'
    BY <1>2 DEF CountInv, Catalogue, SameSong, Shaped, Complete
  <2> QED  BY <1>1, <1>2, <2>1, SameSet DEF CountInv, Counted
<1>3. CASE torn' = TRUE /\ songs' = songs
  BY <1>3 DEF CountInv, Catalogue, Counted, SameSong, Shaped, Complete
<1>4. ASSUME NEW e \in songs, NEW r \in Remains(e), torn' = TRUE, songs' = (songs \ {e}) \cup {r}
      PROVE  CountInv'
  <2>1. Shaped(e)
    BY DEF CountInv, Catalogue
  <2>2. Shaped(r) /\ r.source = e.source /\ r.length = e.length /\ r.profile = e.profile
    BY <2>1 DEF Shaped, Remains
  <2>3. \A f \in songs \ {e} : ~SameSong(f, r) /\ ~SameSong(r, f)
    BY <2>2 DEF CountInv, Catalogue, SameSong
  <2>4. IsFiniteSet(songs')
    BY <1>4, FS_AddElement, FS_RemoveElement DEF CountInv, Catalogue
  <2>5. Catalogue'
    BY <1>4, <2>2, <2>3, <2>4 DEF CountInv, Catalogue, SameSong, Shaped
  <2> QED  BY <1>4, <2>5 DEF CountInv, Counted
<1>5. Oldest(songs) \subseteq songs
  BY DEF Oldest
<1> QED  BY <1>2, <1>3, <1>4, <1>5 DEF Crash, disk

LEMMA CountNext == CountInv /\ [Next]_vars => CountInv'
<1> SUFFICES ASSUME CountInv, [Next]_vars PROVE CountInv'
  OBVIOUS
<1> USE DEF disk, host, ghosts
<1>1. CASE UNCHANGED vars
  BY <1>1, CountSame DEF vars
<1>2. CASE PlayFrame \/ PlayUnannounced \/ PlayMistold \/ Correct \/ Skip \/ Metadata
  BY <1>2, CountSame
     DEF PlayFrame, PlayUnannounced, PlayMistold, Correct, Skip, Metadata
<1>3. CASE ServeSong \/ ServeWindow \/ Separate \/ FallBack
  <2>1. todo = <<>> /\ UNCHANGED <<count, torn>>
    BY <1>3 DEF ServeSong, ServeWindow, Separate, FallBack, Captured, NextWindow
  <2>2. songs' = songs \/ \E touched, served : songs' = LookedUp(touched, served)
    BY <1>3 DEF ServeSong, ServeWindow, Separate, FallBack, NoSong
  <2> QED  BY <2>1, <2>2, CountLookup
<1>4. CASE StoreSong
  BY <1>4, CountStore
<1>5. CASE Prune \/ Count
  BY <1>5, CountPrune
<1>6. CASE StoreChunk \/ CompleteWindow \/ SweepWindows
  BY <1>6, CountSame DEF StoreChunk, CompleteWindow, SweepWindows, DiskOnly, Doing, Pruning
<1>7. CASE HostRestarts \/ Stop \/ SwitchProfile
  BY <1>7, CountSame DEF HostRestarts, Stop, SwitchProfile, NewHost, Pruning
<1>8. CASE Crash
  BY <1>8, CountCrash
<1> QED  BY <1>1, <1>2, <1>3, <1>4, <1>5, <1>6, <1>7, <1>8 DEF Next

\* The page's number of songs is what the cache holds, also after a restart, whatever was
\* stored, evicted and looked up, unless a deletion was cut short.
THEOREM NumberIsTrue == Spec => []CountIsTrue
<1>1. CountInv => CountIsTrue
  BY SameSet DEF CountInv, Counted, Pruning, CountIsTrue
<1> QED  BY <1>1, CountInit, CountNext, PTL DEF Spec

-----------------------------------------------------------------------------
(* Who tells a frame, when the anchors change.                             *)

\* The anchor that tells a frame is the last one that is not after it.
LEMMA ToldByUnique ==
    ASSUME NEW list \in Seq(Anchors), NEW f \in Int, NEW k \in 0..Len(list),
           k # 0 => list[k].frame <= f,
           \A i \in 1..Len(list) : i > k => list[i].frame > f
    PROVE  ToldBy(list, f) = k
<1> DEFINE t == ToldBy(list, f)
<1>1. /\ t \in 0..Len(list) /\ (t # 0 => list[t].frame <= f)
      /\ \A i \in 1..Len(list) : i > t => list[i].frame > f
  BY ToldByIs
<1>2. Len(list) \in Nat /\ \A i \in 1..Len(list) : list[i].frame \in Nat
  BY AnchorIs
<1> HIDE DEF t
<1>3. ~(t > k)
  <2> SUFFICES ASSUME t > k PROVE FALSE
    OBVIOUS
  <2>1. t \in 1..Len(list) /\ t # 0
    BY <1>1, <1>2
  <2> QED  BY <1>1, <1>2, <2>1
<1>4. ~(k > t)
  <2> SUFFICES ASSUME k > t PROVE FALSE
    OBVIOUS
  <2>1. k \in 1..Len(list) /\ k # 0
    BY <1>1, <1>2
  <2> QED  BY <1>1, <1>2, <2>1
<1>5. t = k
  BY <1>1, <1>2, <1>3, <1>4
<1> QED  BY <1>5 DEF t

\* A new last anchor tells the frames from its own on, and no other.
LEMMA ToldByNew ==
    ASSUME NEW list \in Seq(Anchors), NEW x \in Anchors, NEW f \in Int
    PROVE  /\ f >= x.frame => ToldBy(Append(list, x), f) = Len(list) + 1
           /\ f < x.frame => ToldBy(Append(list, x), f) = ToldBy(list, f)
<1> DEFINE longer == Append(list, x)
           n == Len(list)
           t == ToldBy(list, f)
<1>1. /\ n \in Nat /\ longer \in Seq(Anchors) /\ Len(longer) = n + 1
      /\ \A i \in 1..n : longer[i] = list[i]
      /\ longer[n + 1] = x
  BY AppendProperties
<1>2. /\ t \in 0..n /\ (t # 0 => list[t].frame <= f)
      /\ \A i \in 1..n : i > t => list[i].frame > f
  BY ToldByIs
<1> HIDE DEF t, longer, n
<1>3. ASSUME f >= x.frame PROVE ToldBy(longer, f) = n + 1
  <2>1. n + 1 \in 0..Len(longer) /\ longer[n + 1].frame <= f
    BY <1>1, <1>3 DEF Anchors
  <2>2. \A i \in 1..Len(longer) : i > n + 1 => longer[i].frame > f
    BY <1>1
  <2>3. n + 1 # 0
    BY <1>1
  <2> QED  BY <1>1, <2>1, <2>2, ToldByUnique
<1>4. ASSUME f < x.frame PROVE ToldBy(longer, f) = t
  <2>1. t \in 0..Len(longer) /\ (t # 0 => longer[t].frame <= f)
    BY <1>1, <1>2
  <2>2. ASSUME NEW i \in 1..Len(longer), i > t PROVE longer[i].frame > f
    <3>1. CASE i = n + 1
      BY <1>1, <1>4, <3>1 DEF Anchors
    <3>2. CASE i \in 1..n
      BY <1>1, <1>2, <2>2, <3>2
    <3> QED  BY <1>1, <3>1, <3>2
  <2> QED  BY <1>1, <2>1, <2>2, ToldByUnique
<1> QED  BY <1>3, <1>4 DEF longer, t, n

\* The last anchor tells what is played next.
LEMMA ToldByLast ==
    ASSUME NEW list \in Seq(Anchors), NEW f \in Int, \A i \in 1..Len(list) : list[i].frame <= f
    PROVE  ToldBy(list, f) = Len(list)
<1>1. Len(list) \in Nat
  OBVIOUS
<1>2. Len(list) \in 0..Len(list)
  BY <1>1
<1>3. \A i \in 1..Len(list) : ~(i > Len(list))
  BY <1>1
<1>4. Len(list) # 0 => list[Len(list)].frame <= f
  BY <1>1
<1> QED  BY <1>2, <1>3, <1>4, ToldByUnique

\* The anchors written beside a window tell its frames as all of them do.
LEMMA ToldByKept ==
    ASSUME NEW list \in Seq(Anchors), Sorted(list), NEW from \in Int, NEW to \in Int,
           NEW f \in Int, from <= f, f <= to, ToldBy(list, f) # 0
    PROVE  LET kept == AnchorsForWindow(list, from, to) IN
           ToldBy(kept, f) # 0 /\ kept[ToldBy(kept, f)] = list[ToldBy(list, f)]
<1> DEFINE m == FirstOf(list, from)
           n == ToldBy(list, to)
           t == ToldBy(list, f)
           u == ToldBy(list, from)
           r == SubSeq(list, m, n)
           k == t - m + 1
<1>1. Len(list) \in Nat /\ \A i \in 1..Len(list) : list[i] \in Anchors /\ list[i].frame \in Nat
  BY AnchorIs
<1>2. t \in 1..Len(list) /\ list[t].frame <= f
      /\ \A i \in 1..Len(list) : i > t => list[i].frame > f
  <2>1. t \in 0..Len(list) /\ (t # 0 => list[t].frame <= f)
        /\ \A i \in 1..Len(list) : i > t => list[i].frame > f
    BY ToldByIs
  <2> QED  BY <1>1, <2>1
<1>3. n \in 0..Len(list) /\ \A i \in 1..Len(list) : i > n => list[i].frame > to
  BY ToldByIs
<1>4. u \in 0..Len(list) /\ (u # 0 => list[u].frame <= from)
  BY ToldByIs
<1>5. m = IF u = 0 THEN 1 ELSE u
  <2>1. u \in Int /\ u >= 0
    BY <1>1, <1>4
  <2> HIDE DEF u
  <2>2. Max({1, u}) \in {1, u} /\ Max({1, u}) >= 1 /\ Max({1, u}) >= u
    <3>1. 1 \in Int /\ u \in Int
      BY <2>1
    <3> QED  BY <3>1, MaxOfTwo, Zenon
  <2>3. m = Max({1, u})
    BY DEF u, FirstOf
  <2> QED  BY <2>1, <2>2, <2>3
<1>6. AnchorsForWindow(list, from, to) = r
  BY DEF AnchorsForWindow, FirstOf
<1> HIDE DEF m, n, t, u
<1>7. m \in 1..Len(list) /\ m <= t /\ t <= n /\ n \in 1..Len(list)
  <2>1. t <= n
    <3> SUFFICES ASSUME t > n PROVE FALSE
      BY <1>1, <1>2, <1>3
    <3>1. list[t].frame > to
      BY <1>2, <1>3
    <3> QED  BY <1>1, <1>2, <3>1
  <2>2. u <= t
    <3> SUFFICES ASSUME u > t PROVE FALSE
      BY <1>1, <1>2, <1>4
    <3>1. u \in 1..Len(list) /\ u # 0
      BY <1>1, <1>2, <1>4
    <3>2. list[u].frame > f
      BY <1>2, <3>1
    <3> QED  BY <1>1, <1>4, <3>1, <3>2
  <2> QED  BY <1>1, <1>2, <1>3, <1>4, <1>5, <2>1, <2>2
<1> DEFINE size == Len(list)
<1>0. /\ m \in Int /\ n \in Int /\ t \in Int /\ size \in Int
      /\ 1 <= m /\ m <= t /\ t <= n /\ n <= size
  <2>1. size \in Nat
    BY <1>1
  <2> HIDE DEF size
  <2>2. m \in 1..size /\ m <= t /\ t <= n /\ n \in 1..size /\ t \in 1..size
    BY <1>2, <1>7 DEF size
  <2> QED  BY <2>1, <2>2
<1> HIDE DEF size
<1>8. /\ r \in Seq(Anchors) /\ Len(r) = n - m + 1
      /\ \A i \in 1..(n - m + 1) : r[i] = list[m + i - 1]
  <2>1. \A i \in m..n : list[i] \in Anchors
    BY <1>1, <1>7
  <2>2. m \in Int /\ n \in Int /\ m <= n
    BY <1>0
  <2> QED  BY <2>1, <2>2, SubSeqProperties
<1> HIDE DEF r
<1>9. k \in 1..Len(r) /\ m + k - 1 = t
  BY <1>0, <1>8
<1> HIDE DEF k
<1>10. r[k] = list[t]
  BY <1>8, <1>9
<1>11. ASSUME NEW i \in 1..Len(r), i > k PROVE r[i].frame > f
  <2>1. m + i - 1 \in 1..Len(list) /\ m + i - 1 > t
    BY <1>1, <1>7, <1>8, <1>9, <1>11
  <2>2. r[i] = list[m + i - 1]
    BY <1>8
  <2> QED  BY <1>2, <2>1, <2>2
<1>12. ToldBy(r, f) = k
  <2>1. k \in 0..Len(r)
    BY <1>9
  <2> QED  BY <1>2, <1>8, <1>10, <1>11, <2>1, ToldByUnique
<1> QED  BY <1>6, <1>9, <1>10, <1>12 DEF t

-----------------------------------------------------------------------------
(* The inductive invariant of ReplaysNeedNoGpu.                            *)

Played == {x \in Heard : x.pos < LengthOf[x.song]}

\* What is heard at a frame of the window or the next one.
FrameAt(f) == IF f < Now THEN stream[f - at + 1] ELSE head

\* The frames the timeline is true of.
TrueFrames == {f \in at..Now : right <= f /\ (f < Now \/ told)}

\* The anchor that tells a frame, and what it says of it.
Teller(f) == anchors[ToldBy(anchors, f)]
Tells(a, f, x) == a.titled /\ a.length = LengthOf[x.song] /\ a.pos + f - a.frame = x.pos

TimelineTrue ==
    \A f \in TrueFrames : ToldBy(anchors, f) # 0 /\ Tells(Teller(f), f, FrameAt(f))

OneSong ==
    \A f, g \in TrueFrames :
        Teller(f).revision = Teller(g).revision => FrameAt(f).song = FrameAt(g).song

RevisionsOK ==
    /\ \A i \in 1..Len(anchors) : anchors[i].revision <= revision
    /\ anchors # <<>> => anchors[Len(anchors)].revision = revision

\* Windows end, and so do their frames.
BoundsOK ==
    /\ right = Never \/ right \in 0..Now
    /\ at <= (seq - 1) * Hop /\ seq <= MaxWindows + 1
    /\ seq = MaxWindows + 1 => Len(stream) <= Overlap

PlayInv ==
    /\ head \in Played /\ stream \in Seq(Played)
    /\ BoundsOK /\ RevisionsOK /\ TimelineTrue /\ OneSong

\* No frame is as late as Never.
LEMMA NowIsBeforeNever ==
    ASSUME HostOK, BoundsOK
    PROVE  Never \in Nat /\ Now \in Nat /\ Now < Never
<1>1. MaxWindows \in Nat /\ Hop \in Nat \ {0} /\ Overlap \in Nat /\ Overlap <= Hop
      /\ Window = Hop + Overlap
  BY BoundsAssumption, Geometry
<1>2. /\ seq \in Nat \ {0} /\ at \in Nat /\ Len(stream) \in Nat /\ Len(stream) <= Window
      /\ Now = at + Len(stream)
  BY DEF HostOK, Now
<1>3. Never = MaxWindows * Hop + 2 * Hop /\ MaxWindows * Hop \in Nat
  BY <1>1 DEF Never
<1>4. CASE seq = MaxWindows + 1
  <2>1. at <= MaxWindows * Hop /\ Len(stream) <= Hop
    BY <1>1, <1>2, <1>4 DEF BoundsOK
  <2> QED  BY <1>1, <1>2, <1>3, <2>1
<1>5. CASE seq # MaxWindows + 1
  <2>1. PICK k \in Nat : MaxWindows = seq + k
    <3>1. MaxWindows - seq \in Nat /\ MaxWindows = seq + (MaxWindows - seq)
      BY <1>1, <1>2, <1>5 DEF BoundsOK
    <3> QED  BY <3>1
  <2>2. MaxWindows * Hop = (seq - 1) * Hop + Hop + k * Hop /\ k * Hop \in Nat
    BY <1>1, <1>2, <2>1
  <2>3. at <= (seq - 1) * Hop /\ (seq - 1) * Hop \in Nat
    BY <1>1, <1>2 DEF BoundsOK
  <2> DEFINE x == (seq - 1) * Hop
             y == k * Hop
             z == MaxWindows * Hop
  <2>4. x \in Nat /\ y \in Nat /\ z = x + Hop + y /\ at <= x /\ Never = z + 2 * Hop
    BY <1>3, <2>2, <2>3
  <2> HIDE DEF x, y, z
  <2> QED  BY <1>1, <1>2, <2>4
<1> QED  BY <1>4, <1>5

\* Where the timeline is true of nothing, nothing is claimed.
LEMMA NothingTrue ==
    ASSUME HostOK', BoundsOK', right' = Never
    PROVE  TimelineTrue' /\ OneSong'
<1>1. Never' \in Nat /\ Now' \in Nat /\ Now' < Never'
  <2>1. (HostOK /\ BoundsOK => Never \in Nat /\ Now \in Nat /\ Now < Never)'
    BY NowIsBeforeNever, PTL
  <2> QED  BY <2>1
<1>2. Never' = Never
  BY DEF Never
<1>3. at' \in Nat
  BY DEF HostOK
<1>4. TrueFrames' = {}
  BY <1>1, <1>2, <1>3 DEF TrueFrames
<1> QED  BY <1>4 DEF TimelineTrue, OneSong

\* The phone plays or not; the frames that were there stay.
LEMMA FrameKept ==
    ASSUME HostOK, UNCHANGED at,
           stream' = stream \/ stream' = Append(stream, head), NEW f \in at..(Now - 1)
    PROVE  FrameAt(f)' = FrameAt(f) /\ f < Now'
<1>1. /\ at \in Nat /\ stream \in Seq(Heard) /\ head \in Heard /\ Len(stream) \in Nat
      /\ Now = at + Len(stream) /\ Now' = at + Len(stream')
  BY DEF HostOK, Now
<1>2. f - at + 1 \in 1..Len(stream)
  BY <1>1
<1>3. Len(stream') \in Nat /\ Len(stream') >= Len(stream)
      /\ stream'[f - at + 1] = stream[f - at + 1]
  <2>1. CASE stream' = stream
    BY <1>1, <2>1
  <2>2. CASE stream' = Append(stream, head)
    BY <1>1, <1>2, <2>2, AppendProperties
  <2> QED  BY <2>1, <2>2
<1>4. f < Now /\ f < Now'
  BY <1>1, <1>3
<1>5. FrameAt(f) = stream[f - at + 1]
  BY <1>4 DEF FrameAt
<1>6. FrameAt(f)' = stream'[f - at' + 1]
  BY <1>4 DEF FrameAt
<1> QED  BY <1>3, <1>4, <1>5, <1>6

\* The frame that is played.
LEMMA FramePlayed ==
    ASSUME HostOK, UNCHANGED at, stream' = Append(stream, head), NEW n, n = Now
    PROVE  Now' = n + 1 /\ FrameAt(n) = head /\ FrameAt(n)' = head /\ FrameAt(n + 1)' = head'
<1>1. /\ at \in Nat /\ stream \in Seq(Heard) /\ head \in Heard /\ Len(stream) \in Nat
      /\ n = at + Len(stream) /\ Now' = at + Len(stream')
  BY DEF HostOK, Now
<1>2. Len(stream') = Len(stream) + 1 /\ stream'[Len(stream) + 1] = head
  BY <1>1, AppendProperties
<1>3. Now' = n + 1 /\ n < Now' /\ ~(n < Now) /\ ~(n + 1 < Now') /\ n - at + 1 = Len(stream) + 1
  BY <1>1, <1>2
<1>4. FrameAt(n) = head
  BY <1>3 DEF FrameAt
<1>5. FrameAt(n)' = stream'[n - at' + 1]
  BY <1>3 DEF FrameAt
<1>6. FrameAt(n + 1)' = head'
  BY <1>3 DEF FrameAt
<1> QED  BY <1>2, <1>3, <1>4, <1>5, <1>6

\* What HostOK says of the frames and the anchors.
LEMMA HostIs ==
    ASSUME HostOK
    PROVE  /\ at \in Nat /\ Len(stream) \in Nat /\ Now \in Nat /\ at <= Now
           /\ Now = at + Len(stream) /\ revision \in Nat /\ seq \in Nat \ {0}
           /\ anchors \in Seq(Anchors) /\ Len(anchors) \in Nat
           /\ \A i \in 1..Len(anchors) : /\ anchors[i] \in Anchors /\ anchors[i].frame <= Now
                                         /\ anchors[i].revision \in Nat
<1>1. /\ at \in Nat /\ Len(stream) \in Nat /\ Now = at + Len(stream)
      /\ revision \in Nat /\ seq \in Nat \ {0}
      /\ anchors \in Seq(Anchors) /\ \A i \in 1..Len(anchors) : anchors[i].frame <= Now
  BY DEF HostOK, Now
<1>2. Len(anchors) \in Nat /\ \A i \in 1..Len(anchors) : anchors[i] \in Anchors
  BY <1>1, AnchorIs
<1>3. \A i \in 1..Len(anchors) : anchors[i].revision \in Nat
  BY <1>2 DEF Anchors
<1> QED  BY <1>1, <1>2, <1>3

\* The teller of a frame that the timeline is true of is one of the anchors.
LEMMA TellerIs ==
    ASSUME HostOK, RevisionsOK, TimelineTrue, NEW f \in TrueFrames
    PROVE  /\ f \in Nat /\ ToldBy(anchors, f) \in 1..Len(anchors)
           /\ Teller(f).revision \in Nat /\ Teller(f).revision <= revision
           /\ Tells(Teller(f), f, FrameAt(f))
<1>1. f \in Nat
  BY HostIs DEF TrueFrames
<1>2. ToldBy(anchors, f) \in 0..Len(anchors) /\ ToldBy(anchors, f) # 0
  BY <1>1, HostIs, ToldByIs DEF TimelineTrue
<1> DEFINE k == ToldBy(anchors, f)
<1> HIDE DEF k
<1>3. k \in 1..Len(anchors)
  BY <1>2, HostIs DEF k
<1>4. Teller(f) = anchors[k]
  BY DEF Teller, k
<1> QED  BY <1>1, <1>3, <1>4, HostIs DEF RevisionsOK, TimelineTrue, k

\* The frame that is next is told by the last anchor.
LEMMA TellerOfNow ==
    ASSUME HostOK, NEW n, n = Now
    PROVE  ToldBy(anchors, n) = Len(anchors) /\ Teller(n) = anchors[Len(anchors)]
           /\ FrameAt(n) = head
<1>1. n \in Int /\ \A i \in 1..Len(anchors) : anchors[i].frame <= n
  BY HostIs
<1>2. ToldBy(anchors, n) = Len(anchors)
  BY <1>1, HostIs, ToldByLast
<1>3. ~(n < Now)
  BY <1>1
<1> QED  BY <1>2, <1>3 DEF Teller, FrameAt

\* An anchor that is right is added for the frame at head.
LEMMA Announced ==
    ASSUME HostOK, HostOK', PlayInv, UNCHANGED at,
           NEW x \in Anchors, x.frame = Now, x.titled, x.length = LengthOf[head.song],
           x.pos = head.pos, x.revision = revision', anchors' = Append(anchors, x),
           right' = Min({right, Now}),
           revision' = revision + 1 \/ (revision' = revision /\ told /\ anchors # <<>>),
           \/ stream' = stream /\ head' = head
           \/ /\ stream' = Append(stream, head)
              /\ told' => head'.song = head.song /\ head'.pos = head.pos + 1
    PROVE  TimelineTrue' /\ OneSong' /\ right' \in 0..Now
<1> DEFINE n == Now
<1>1. PICK m : m = Now
  OBVIOUS
<1>2. m \in Nat /\ at \in Nat /\ at <= m
  BY <1>1, HostIs
<1>3. right' \in 0..m /\ (right' = right \/ right' = m)
  <2>1. right \in Nat
    BY <1>1, <1>2, NowIsBeforeNever DEF PlayInv, BoundsOK
  <2>2. {right, m} \in SUBSET Nat /\ {right, m} # {}
    BY <1>2, <2>1
  <2>3. right' = Min({right, m})
    BY <1>1
  <2>4. Min({right, m}) \in {right, m} /\ \A k \in {right, m} : Min({right, m}) <= k
    BY <2>2, MinIsThere
  <2> QED  BY <1>2, <2>1, <2>3, <2>4
<1>4. ASSUME NEW f \in TrueFrames', f < m
      PROVE  /\ f \in TrueFrames /\ FrameAt(f)' = FrameAt(f)
             /\ ToldBy(anchors', f) = ToldBy(anchors, f) /\ Teller(f)' = Teller(f)
  <2>1. f \in Int /\ at <= f /\ right' <= f
    BY <1>2, HostIs DEF TrueFrames, HostOK
  <2>2. right <= f
    BY <1>2, <1>3, <1>4, <2>1
  <2>3. f \in at..(Now - 1)
    BY <1>1, <1>2, <1>4, <2>1
  <2>4. f \in TrueFrames
    BY <1>1, <1>2, <1>4, <2>1, <2>2, <2>3 DEF TrueFrames
  <2>5. FrameAt(f)' = FrameAt(f)
    BY <2>3, FrameKept
  <2>6. ToldBy(anchors', f) = ToldBy(anchors, f)
    <3>1. f < x.frame /\ anchors \in Seq(Anchors)
      BY <1>1, <1>4, HostIs
    <3> QED  BY <2>1, <3>1, ToldByNew
  <2>7. Teller(f) = anchors[ToldBy(anchors, f)] /\ Teller(f)' = anchors'[ToldBy(anchors', f)]
    BY DEF Teller
  <2>8. ToldBy(anchors, f) \in 1..Len(anchors)
    BY <2>4, TellerIs DEF PlayInv
  <2>9. \A i \in 1..Len(anchors) : anchors'[i] = anchors[i]
    BY HostIs, AppendProperties
  <2> QED  BY <2>4, <2>5, <2>6, <2>7, <2>8, <2>9
<1>5. ASSUME NEW f \in TrueFrames', ~(f < m)
      PROVE  /\ ToldBy(anchors', f) # 0 /\ Teller(f)' = x
             /\ Tells(x, f, FrameAt(f)') /\ FrameAt(f)'.song = head.song
  <2>1. f \in Int /\ f >= m /\ f <= Now'
    BY <1>2, <1>5, HostIs DEF TrueFrames, HostOK
  <2>2. ToldBy(anchors', f) = Len(anchors) + 1
    <3>1. f >= x.frame /\ anchors \in Seq(Anchors)
      BY <1>1, <2>1, HostIs
    <3> QED  BY <2>1, <3>1, ToldByNew
  <2>3. Teller(f)' = anchors'[ToldBy(anchors', f)]
    BY DEF Teller
  <2>4. Teller(f)' = x /\ ToldBy(anchors', f) # 0
    BY <2>2, <2>3, HostIs, AppendProperties
  <2>5. FrameAt(f)'.song = head.song /\ FrameAt(f)'.pos = head.pos + f - m
    <3>0. head.pos \in Nat
      BY DEF HostOK, Heard
    <3>1. CASE stream' = stream /\ head' = head
      <4>1. Now' = m /\ f = m
        BY <1>1, <1>2, <2>1, <3>1 DEF Now
      <4>2. FrameAt(f)' = head'
        BY <4>1, <1>2 DEF FrameAt
      <4> QED  BY <1>2, <3>0, <3>1, <4>1, <4>2
    <3>2. CASE /\ stream' = Append(stream, head)
               /\ told' => head'.song = head.song /\ head'.pos = head.pos + 1
      <4>1. Now' = m + 1 /\ FrameAt(m)' = head /\ FrameAt(m + 1)' = head'
        BY <1>1, <3>2, FramePlayed
      <4>2. CASE f = m
        BY <1>2, <3>0, <4>1, <4>2
      <4>3. CASE f = m + 1
        <5>1. told'
          BY <4>1, <4>3, <1>2 DEF TrueFrames
        <5> QED  BY <1>2, <3>0, <3>2, <4>1, <4>3, <5>1
      <4> QED  BY <1>2, <2>1, <4>1, <4>2, <4>3
    <3> QED  BY <3>1, <3>2
  <2>6. Tells(x, f, FrameAt(f)')
    <3>1. head.pos \in Nat
      BY DEF HostOK, Heard
    <3> QED  BY <1>1, <1>2, <2>1, <2>5, <3>1 DEF Tells
  <2> QED  BY <2>4, <2>5, <2>6
<1>6. TimelineTrue'
  <2> SUFFICES ASSUME NEW f \in TrueFrames'
               PROVE  ToldBy(anchors', f) # 0 /\ Tells(Teller(f)', f, FrameAt(f)')
    BY DEF TimelineTrue
  <2>1. CASE f < m
    BY <1>4, <2>1 DEF PlayInv, TimelineTrue
  <2>2. CASE ~(f < m)
    BY <1>5, <2>2
  <2> QED  BY <2>1, <2>2
<1>7. ASSUME NEW f \in TrueFrames', f < m, Teller(f)'.revision = x.revision
      PROVE  FrameAt(f)'.song = head.song
  <2>1. f \in TrueFrames /\ FrameAt(f)' = FrameAt(f) /\ Teller(f)' = Teller(f)
    BY <1>4, <1>7
  <2>2. Teller(f).revision <= revision /\ Teller(f).revision \in Nat /\ revision \in Nat
    BY <2>1, TellerIs, HostIs DEF PlayInv
  <2>3. revision' = revision /\ told /\ anchors # <<>>
    BY <1>7, <2>1, <2>2
  <2>4. m \in TrueFrames
    <3>1. right \in Nat
      BY NowIsBeforeNever, <1>1, <1>2 DEF PlayInv, BoundsOK
    <3>2. right <= f /\ f \in Int
      BY <2>1, <1>2, HostIs DEF TrueFrames
    <3> QED  BY <1>1, <1>2, <1>7, <2>3, <3>1, <3>2 DEF TrueFrames
  <2>5. Teller(m) = anchors[Len(anchors)] /\ FrameAt(m) = head
    BY <1>1, TellerOfNow
  <2>6. Teller(m).revision = revision
    BY <2>3, <2>5 DEF PlayInv, RevisionsOK
  <2> QED  BY <1>7, <2>1, <2>3, <2>4, <2>5, <2>6 DEF PlayInv, OneSong
<1>8. OneSong'
  <2> SUFFICES ASSUME NEW f \in TrueFrames', NEW g \in TrueFrames',
                      Teller(f)'.revision = Teller(g)'.revision
               PROVE  FrameAt(f)'.song = FrameAt(g)'.song
    BY DEF OneSong
  <2>1. CASE f < m /\ g < m
    BY <1>4, <2>1 DEF PlayInv, OneSong
  <2>2. CASE f < m /\ ~(g < m)
    BY <1>5, <1>7, <2>2
  <2>3. CASE ~(f < m) /\ g < m
    BY <1>5, <1>7, <2>3
  <2>4. CASE ~(f < m) /\ ~(g < m)
    BY <1>5, <2>4
  <2> QED  BY <2>1, <2>2, <2>3, <2>4
<1> QED  BY <1>1, <1>3, <1>6, <1>8

\* The next frame of a song the host knows.
LEMMA Followed ==
    ASSUME HostOK, HostOK', PlayInv, BoundsOK', UNCHANGED <<at, anchors, right, revision>>, told,
           stream' = Append(stream, head),
           told' => head'.song = head.song /\ head'.pos = head.pos + 1
    PROVE  TimelineTrue' /\ OneSong'
<1>1. PICK m : m = Now
  OBVIOUS
<1>2. m \in Nat /\ at \in Nat /\ at <= m /\ head.pos \in Nat
  BY <1>1, HostIs DEF HostOK, Heard
<1>3. Now' = m + 1 /\ FrameAt(m) = head /\ FrameAt(m)' = head /\ FrameAt(m + 1)' = head'
  BY <1>1, FramePlayed
<1>4. right = Never \/ right \in 0..m
  BY <1>1 DEF PlayInv, BoundsOK
<1>5. Never \in Nat /\ m + 1 < Never
  <2>1. (HostOK /\ BoundsOK => Never \in Nat /\ Now \in Nat /\ Now < Never)'
    BY NowIsBeforeNever, PTL
  <2>2. Never' = Never
    BY DEF Never
  <2> QED  BY <1>3, <2>1, <2>2
<1> DEFINE Before(f) == IF f = m + 1 THEN m ELSE f
<1>6. ASSUME NEW f \in TrueFrames'
      PROVE  /\ f \in Nat /\ Before(f) \in TrueFrames /\ Teller(f)' = Teller(Before(f))
             /\ ToldBy(anchors', f) = ToldBy(anchors, Before(f))
             /\ FrameAt(f)'.song = FrameAt(Before(f)).song
             /\ FrameAt(f)'.pos = FrameAt(Before(f)).pos + f - Before(f)
  <2>1. f \in at..(m + 1) /\ right <= f /\ (f < m + 1 \/ told')
    BY <1>3 DEF TrueFrames
  <2>2. Teller(f)' = Teller(f) /\ ToldBy(anchors', f) = ToldBy(anchors, f)
    BY DEF Teller
  <2>3. CASE f = m + 1
    <3>1. right <= m
      BY <1>2, <1>4, <1>5, <2>1, <2>3
    <3>2. m \in TrueFrames
      BY <1>1, <1>2, <3>1 DEF TrueFrames
    <3>3. ToldBy(anchors, m) = Len(anchors)
      BY <1>1, TellerOfNow
    <3>4. ToldBy(anchors, f) = Len(anchors)
      <4>1. f \in Int /\ \A i \in 1..Len(anchors) : anchors[i].frame <= f
        <5>1. \A i \in 1..Len(anchors) : anchors[i].frame <= m /\ anchors[i].frame \in Nat
          BY <1>1, HostIs, AnchorIs
        <5> QED  BY <1>2, <2>3, <5>1
      <4> QED  BY <4>1, HostIs, ToldByLast
    <3>5. Teller(f) = Teller(m)
      BY <3>3, <3>4 DEF Teller
    <3>6. FrameAt(f)'.song = FrameAt(m).song /\ FrameAt(f)'.pos = FrameAt(m).pos + 1
      BY <1>3, <2>1, <2>3, <1>2
    <3>7. Before(f) = m /\ FrameAt(m).pos + 1 = FrameAt(m).pos + f - m
      BY <1>2, <1>3, <2>3
    <3> QED  BY <1>2, <2>2, <2>3, <3>2, <3>3, <3>4, <3>5, <3>6, <3>7
  <2>4. CASE f # m + 1
    <3>1. f \in at..m /\ f \in Nat
      BY <1>2, <2>1, <2>4
    <3>2. f \in TrueFrames
      BY <1>1, <1>2, <2>1, <3>1 DEF TrueFrames
    <3>3. FrameAt(f)' = FrameAt(f) /\ FrameAt(f).pos \in Nat
      <4>1. CASE f = m
        BY <1>2, <1>3, <4>1
      <4>2. CASE f # m
        <5>1. f \in at..(Now - 1)
          BY <1>1, <1>2, <3>1, <4>2
        <5>2. FrameAt(f) = stream[f - at + 1] /\ f - at + 1 \in 1..Len(stream)
          BY <5>1, HostIs DEF FrameAt
        <5>3. FrameAt(f).pos \in Nat
          <6>1. FrameAt(f) \in Heard
            BY <5>2 DEF HostOK
          <6> QED  BY <6>1 DEF Heard
        <5> QED  BY <5>1, <5>3, FrameKept
      <4> QED  BY <4>1, <4>2
    <3> QED  BY <2>2, <2>4, <3>1, <3>2, <3>3
  <2> QED  BY <2>3, <2>4
<1> HIDE DEF Before
<1>7. TimelineTrue'
  <2> SUFFICES ASSUME NEW f \in TrueFrames'
               PROVE  ToldBy(anchors', f) # 0 /\ Tells(Teller(f)', f, FrameAt(f)')
    BY DEF TimelineTrue
  <2> DEFINE b == Before(f)
             a == Teller(b)
  <2>1. b \in TrueFrames /\ ToldBy(anchors, b) \in 1..Len(anchors) /\ b \in Nat
        /\ Tells(a, b, FrameAt(b))
    BY <1>6, TellerIs DEF PlayInv
  <2>2. a.pos \in Nat /\ a.frame \in Nat
    BY <2>1, HostIs DEF Teller, Anchors
  <2>3. f \in Nat /\ FrameAt(f)'.song = FrameAt(b).song /\ FrameAt(f)'.pos = FrameAt(b).pos + f - b
        /\ Teller(f)' = a /\ ToldBy(anchors', f) # 0
    <3>1. ToldBy(anchors', f) # 0
      BY <1>6, <2>1, HostIs
    <3> QED  BY <1>6, <3>1
  <2> HIDE DEF a, b
  <2>4. Tells(a, f, FrameAt(f)')
    BY <2>1, <2>2, <2>3 DEF Tells
  <2> QED  BY <2>3, <2>4
<1>8. OneSong'
  <2> SUFFICES ASSUME NEW f \in TrueFrames', NEW g \in TrueFrames',
                      Teller(f)'.revision = Teller(g)'.revision
               PROVE  FrameAt(f)'.song = FrameAt(g)'.song
    BY DEF OneSong
  <2> QED  BY <1>6 DEF PlayInv, OneSong
<1> QED  BY <1>7, <1>8

\* The frames and the anchors stay as they are, and nothing more is told.
LEMMA Unmoved ==
    ASSUME HostOK, PlayInv, UNCHANGED <<stream, at, anchors, right>>, told' => told /\ head' = head
    PROVE  TimelineTrue' /\ OneSong'
<1>1. ASSUME NEW f \in TrueFrames'
      PROVE  /\ f \in TrueFrames /\ Teller(f)' = Teller(f) /\ FrameAt(f)' = FrameAt(f)
             /\ ToldBy(anchors', f) = ToldBy(anchors, f)
  <2>1. Now' = Now /\ Now \in Nat /\ at \in Nat
    BY HostIs DEF Now
  <2>2. f \in at..Now /\ right <= f /\ (f < Now \/ told')
    BY <2>1 DEF TrueFrames
  <2>3. f \in TrueFrames
    BY <2>2 DEF TrueFrames
  <2>4. FrameAt(f)' = FrameAt(f)
    BY <2>1, <2>2 DEF FrameAt
  <2>5. Teller(f)' = Teller(f) /\ ToldBy(anchors', f) = ToldBy(anchors, f)
    BY DEF Teller
  <2> QED  BY <2>3, <2>4, <2>5
<1>2. TimelineTrue'
  BY <1>1 DEF PlayInv, TimelineTrue
<1>3. OneSong'
  BY <1>1 DEF PlayInv, OneSong
<1> QED  BY <1>2, <1>3

\* The timeline is true of what was played since right: at the start, of nothing.
LEMMA PlayInit == Init => PlayInv
<1> SUFFICES ASSUME Init PROVE PlayInv
  OBVIOUS
<1>1. head \in Played /\ stream \in Seq(Played)
  BY SongsAssumption DEF Init, Starts, Played, Heard
<1>2. at = 0 /\ seq = 1 /\ right = Never /\ stream = <<>> /\ anchors = <<>> /\ told = FALSE
  BY DEF Init
<1>3. (seq - 1) * Hop = 0 /\ seq <= MaxWindows + 1
  BY <1>2, Geometry, BoundsAssumption
<1>4. Len(stream) <= Overlap
  BY <1>2, Geometry
<1>5. BoundsOK
  BY <1>2, <1>3, <1>4 DEF BoundsOK
<1>6. RevisionsOK
  BY <1>2 DEF RevisionsOK
<1>7. TrueFrames = {}
  BY <1>2 DEF TrueFrames, Now
<1>8. TimelineTrue /\ OneSong
  BY <1>7 DEF TimelineTrue, OneSong
<1> QED  BY <1>1, <1>5, <1>6, <1>8 DEF PlayInv

\* The phone plays the frame at head.
LEMMA SoundsPlays ==
    ASSUME HostOK, PlayInv, Sounds
    PROVE  /\ stream' = Append(stream, head) /\ stream' \in Seq(Played) /\ head' \in Played
           /\ head'.pos # 0 => head'.song = head.song /\ head'.pos = head.pos + 1
<1>1. stream' = Append(stream, head) /\ head \in Played /\ stream \in Seq(Played)
      /\ head.pos \in Nat /\ head \in Heard
  BY DEF Sounds, PlayInv, Played, Heard
<1>2. stream' \in Seq(Played)
  BY <1>1, AppendProperties
<1>3. CASE head.pos + 1 < LengthOf[head.song]
  <2>1. head' = [head EXCEPT !.pos = @ + 1]
    BY <1>3 DEF Sounds
  <2>2. head' \in Heard /\ head'.song = head.song /\ head'.pos = head.pos + 1
    BY <1>1, <2>1 DEF Heard
  <2> QED  BY <1>1, <1>2, <1>3, <2>2 DEF Played
<1>4. CASE ~(head.pos + 1 < LengthOf[head.song])
  <2>1. head' \in Starts
    BY <1>4 DEF Sounds
  <2>2. head' \in Played /\ head'.pos = 0
    BY <2>1, SongsAssumption DEF Starts, Played, Heard
  <2> QED  BY <1>1, <1>2, <2>2
<1> QED  BY <1>3, <1>4

\* A new anchor of the newest revision.
LEMMA RevisionsGrow ==
    ASSUME HostOK, RevisionsOK, NEW x \in Anchors, anchors' = Append(anchors, x),
           x.revision = revision', revision' \in Nat, revision <= revision'
    PROVE  RevisionsOK'
<1>1. /\ Len(anchors') = Len(anchors) + 1 /\ anchors'[Len(anchors) + 1] = x
      /\ \A i \in 1..Len(anchors) : anchors'[i] = anchors[i]
  BY HostIs, AppendProperties
<1>2. \A i \in 1..Len(anchors) : anchors[i].revision <= revision /\ anchors[i].revision \in Nat
  BY HostIs DEF RevisionsOK
<1>3. \A i \in 1..Len(anchors') : anchors'[i].revision <= revision'
  <2> SUFFICES ASSUME NEW i \in 1..Len(anchors') PROVE anchors'[i].revision <= revision'
    OBVIOUS
  <2>1. CASE i = Len(anchors) + 1
    BY <1>1, <2>1
  <2>2. CASE i \in 1..Len(anchors)
    BY <1>1, <1>2, <2>2, HostIs
  <2> QED  BY <1>1, <2>1, <2>2, HostIs
<1>4. anchors'[Len(anchors')].revision = revision'
  BY <1>1
<1> QED  BY <1>3, <1>4 DEF RevisionsOK

\* A frame is captured only for a window that may still be written.
LEMMA BoundsOfPhone ==
    ASSUME HostOK, BoundsOK, Captures, UNCHANGED <<at, seq>>, right' = Never \/ right' \in 0..Now'
    PROVE  BoundsOK'
<1>1. seq <= MaxWindows /\ seq \in Nat /\ MaxWindows \in Nat
  BY HostIs, BoundsAssumption DEF Captures
<1>2. seq' # MaxWindows + 1 /\ Never' = Never
  BY <1>1 DEF Never
<1> QED  BY <1>2 DEF BoundsOK

\* update_progress of the frame at head.
LEMMA ProgressIs ==
    ASSUME HostOK, NEW length \in Nat, Progress(length)
    PROVE  \E x \in Anchors :
                /\ anchors' = Append(anchors, x) /\ revision' = revision + 1
                /\ x.frame = Now /\ x.pos = head.pos /\ x.length = length
                /\ x.revision = revision + 1 /\ x.titled = named
<1> DEFINE next == revision + 1
           x == Anchor(head.pos, length, next, next)
<1>1. anchors' = Append(anchors, x) /\ revision' = next
  BY DEF Progress
<1>2. next \in Nat /\ head.pos \in Nat
  BY HostIs DEF HostOK, Heard
<1>3. x \in Anchors /\ x.frame = Now /\ x.pos = head.pos /\ x.length = length
      /\ x.revision = next /\ x.titled = named
  <2>1. x \in Anchors
    BY <1>2, AnchorTyped
  <2> QED  BY <2>1 DEF Anchor
<1> HIDE DEF x
<1> QED  BY <1>1, <1>3

\* A frame is played as the anchors have it, or a song begins with its anchor.
LEMMA PlayPlayFrame == HostOK /\ HostOK' /\ PlayInv /\ PlayFrame => PlayInv'
<1> SUFFICES ASSUME HostOK, HostOK', PlayInv, PlayFrame PROVE PlayInv'
  OBVIOUS
<1>1. /\ stream' = Append(stream, head) /\ stream' \in Seq(Played) /\ head' \in Played
      /\ head'.pos # 0 => head'.song = head.song /\ head'.pos = head.pos + 1
  BY SoundsPlays DEF PlayFrame
<1>2. /\ UNCHANGED <<at, seq, named>> /\ told' = (head'.pos # 0) /\ Captures
      /\ BoundsOK /\ RevisionsOK /\ named \in BOOLEAN
  BY DEF PlayFrame, PlayInv, HostOK
<1>3. PICK m : m = Now
  OBVIOUS
<1>4. Now' = m + 1 /\ m \in Nat
  BY <1>1, <1>2, <1>3, FramePlayed, HostIs
<1>5. CASE told
  <2>1. UNCHANGED <<anchors, revision, right>>
    BY <1>5 DEF PlayFrame
  <2>2. BoundsOK'
    <3>1. right' = Never \/ right' \in 0..Now'
      BY <1>2, <1>3, <1>4, <2>1 DEF BoundsOK
    <3> QED  BY <1>2, <3>1, BoundsOfPhone
  <2>3. TimelineTrue' /\ OneSong'
    BY <1>1, <1>2, <1>5, <2>1, <2>2, Followed
  <2>4. RevisionsOK'
    BY <1>2, <2>1 DEF RevisionsOK
  <2> QED  BY <1>1, <2>2, <2>3, <2>4 DEF PlayInv
<1>6. CASE ~told
  <2>1. /\ Progress(LengthOf[head.song])
        /\ right' = IF named THEN Min({right, Now}) ELSE Never
    BY <1>6 DEF PlayFrame
  <2>2. LengthOf[head.song] \in Nat
    BY SongsAssumption DEF HostOK, Heard
  <2>3. PICK x \in Anchors :
            /\ anchors' = Append(anchors, x) /\ revision' = revision + 1
            /\ x.frame = Now /\ x.pos = head.pos /\ x.length = LengthOf[head.song]
            /\ x.revision = revision + 1 /\ x.titled = named
    BY <2>1, <2>2, ProgressIs
  <2>4. RevisionsOK'
    <3>1. revision' \in Nat /\ revision <= revision' /\ x.revision = revision'
      BY <2>3, HostIs
    <3> QED  BY <1>2, <2>3, <3>1, RevisionsGrow
  <2>5. CASE named
    <3>1. TimelineTrue' /\ OneSong' /\ right' \in 0..Now
      <4>1. right' = Min({right, Now}) /\ x.titled
        BY <2>1, <2>3, <2>5
      <4> QED  BY <1>1, <1>2, <2>3, <4>1, Announced
    <3>2. right' \in 0..Now'
      BY <1>3, <1>4, <3>1
    <3> QED  BY <1>1, <1>2, <2>4, <3>1, <3>2, BoundsOfPhone DEF PlayInv
  <2>6. CASE ~named
    <3>1. right' = Never
      BY <2>1, <2>6
    <3>2. BoundsOK'
      BY <1>2, <3>1, BoundsOfPhone
    <3> QED  BY <1>1, <2>4, <3>1, <3>2, NothingTrue DEF PlayInv
  <2> QED  BY <2>5, <2>6
<1> QED  BY <1>5, <1>6

\* A song that begins without its anchor ends what is known to be true.
LEMMA PlayPlayUnannounced == HostOK /\ HostOK' /\ PlayInv /\ PlayUnannounced => PlayInv'
<1> SUFFICES ASSUME HostOK, HostOK', PlayInv, PlayUnannounced PROVE PlayInv'
  OBVIOUS
<1>1. stream' \in Seq(Played) /\ head' \in Played
  BY SoundsPlays DEF PlayUnannounced
<1>2. /\ UNCHANGED <<at, seq, anchors, revision>> /\ right' = Never /\ Captures
      /\ BoundsOK /\ RevisionsOK
  BY DEF PlayUnannounced, PlayInv
<1>3. BoundsOK' /\ RevisionsOK'
  BY <1>2, BoundsOfPhone DEF RevisionsOK
<1> QED  BY <1>1, <1>2, <1>3, NothingTrue DEF PlayInv

\* So does a song that is announced wrongly.
LEMMA PlayPlayMistold == HostOK /\ HostOK' /\ PlayInv /\ PlayMistold => PlayInv'
<1> SUFFICES ASSUME HostOK, HostOK', PlayInv, PlayMistold PROVE PlayInv'
  OBVIOUS
<1>1. stream' \in Seq(Played) /\ head' \in Played
  BY SoundsPlays DEF PlayMistold
<1>2. UNCHANGED <<at, seq>> /\ right' = Never /\ Captures /\ BoundsOK /\ RevisionsOK
  BY DEF PlayMistold, PlayInv
<1>3. PICK song \in Songs : Progress(LengthOf[song])
  BY DEF PlayMistold
<1>4. LengthOf[song] \in Nat
  BY SongsAssumption
<1>5. PICK x \in Anchors :
            /\ anchors' = Append(anchors, x) /\ revision' = revision + 1
            /\ x.revision = revision + 1
  BY <1>3, <1>4, ProgressIs
<1>6. RevisionsOK'
  <2>1. revision' \in Nat /\ revision <= revision' /\ x.revision = revision'
    BY <1>5, HostIs
  <2> QED  BY <1>2, <1>5, <2>1, RevisionsGrow
<1>7. BoundsOK'
  BY <1>2, BoundsOfPhone
<1> QED  BY <1>1, <1>2, <1>6, <1>7, NothingTrue DEF PlayInv

\* A correction makes the timeline true from now on, or ends it.
LEMMA PlayCorrect == HostOK /\ HostOK' /\ PlayInv /\ Correct => PlayInv'
<1> SUFFICES ASSUME HostOK, HostOK', PlayInv, Correct PROVE PlayInv'
  OBVIOUS
<1>1. /\ UNCHANGED <<stream, at, head, told, named, seq>> /\ Captures /\ told /\ anchors # <<>>
      /\ BoundsOK /\ RevisionsOK /\ stream' \in Seq(Played) /\ head' \in Played
      /\ named \in BOOLEAN /\ Now' = Now
  BY DEF Correct, PlayInv, HostOK, Now
<1>2. PICK pos \in 0..(head.pos + 1), length \in {LengthOf[s] : s \in Songs} :
        LET rev == IF length = Last(anchors).length THEN revision ELSE revision + 1 IN
        /\ anchors' = Append(anchors, Anchor(pos, length, Last(anchors).rtp, rev))
        /\ revision' = rev
        /\ IF pos = head.pos /\ length = LengthOf[head.song]
           THEN right' = IF named THEN Min({right, Now}) ELSE Never
           ELSE right' = Never
  BY DEF Correct
<1> DEFINE rtp == Last(anchors).rtp
           x == Anchor(pos, length, rtp, revision')
<1>3. /\ anchors' = Append(anchors, x) /\ revision' \in Nat
      /\ revision' = revision + 1 \/ revision' = revision
  BY <1>2, HostIs
<1>4. /\ x \in Anchors /\ x.frame = Now /\ x.pos = pos /\ x.length = length
      /\ x.revision = revision' /\ x.titled = named
  <2>1. rtp \in Nat
    <3>1. Len(anchors) \in 1..Len(anchors)
      BY <1>1, HostIs, EmptySeq
    <3>2. Last(anchors) \in Anchors
      BY <3>1, HostIs DEF Last
    <3> QED  BY <3>2 DEF Anchors
  <2>2. pos \in Nat /\ length \in Nat
    BY SongsAssumption DEF HostOK, Heard
  <2> HIDE DEF rtp
  <2>3. x \in Anchors
    BY <1>3, <2>1, <2>2, AnchorTyped
  <2> QED  BY <2>3 DEF Anchor
<1> HIDE DEF x, rtp
<1>5. RevisionsOK'
  <2>1. revision <= revision'
    BY <1>3, HostIs
  <2> QED  BY <1>1, <1>3, <1>4, <2>1, RevisionsGrow
<1>6. CASE pos = head.pos /\ length = LengthOf[head.song] /\ named
  <2>1. right' = Min({right, Now})
    BY <1>2, <1>6
  <2>2. TimelineTrue' /\ OneSong' /\ right' \in 0..Now
    BY <1>1, <1>3, <1>4, <1>6, <2>1, Announced
  <2> QED  BY <1>1, <1>5, <2>2, BoundsOfPhone DEF PlayInv
<1>7. CASE ~(pos = head.pos /\ length = LengthOf[head.song] /\ named)
  <2>1. right' = Never
    BY <1>2, <1>7
  <2>2. BoundsOK'
    BY <1>1, <2>1, BoundsOfPhone
  <2> QED  BY <1>1, <1>5, <2>1, <2>2, NothingTrue DEF PlayInv
<1> QED  BY <1>6, <1>7

\* After a skip nothing is told of the next frame.
LEMMA PlaySkip == HostOK /\ HostOK' /\ PlayInv /\ Skip => PlayInv'
<1> SUFFICES ASSUME HostOK, HostOK', PlayInv, Skip PROVE PlayInv'
  OBVIOUS
<1>1. /\ UNCHANGED <<stream, at, anchors, revision, seq, right>> /\ told' = FALSE /\ Captures
      /\ BoundsOK /\ RevisionsOK /\ stream' \in Seq(Played) /\ Now' = Now
  BY DEF Skip, PlayInv, Now
<1>2. head' \in Played
  <2>1. PICK song \in Songs : \E pos \in 0..(LengthOf[song] - 1) :
            head' = [song |-> song, pos |-> pos]
    BY DEF Skip
  <2>2. PICK pos \in 0..(LengthOf[song] - 1) : head' = [song |-> song, pos |-> pos]
    BY <2>1
  <2>3. LengthOf[song] \in Nat
    BY SongsAssumption
  <2>4. pos \in Nat /\ pos < LengthOf[song]
    BY <2>2, <2>3
  <2> QED  BY <2>2, <2>4 DEF Played, Heard
<1>3. BoundsOK' /\ RevisionsOK'
  BY <1>1 DEF BoundsOK, RevisionsOK, Never
<1>4. TimelineTrue' /\ OneSong'
  BY <1>1, Unmoved
<1> QED  BY <1>1, <1>2, <1>3, <1>4 DEF PlayInv

\* A title makes an anchor count, which is true if the anchor is.
LEMMA PlayMetadata == HostOK /\ HostOK' /\ PlayInv /\ Metadata => PlayInv'
<1> SUFFICES ASSUME HostOK, HostOK', PlayInv, Metadata PROVE PlayInv'
  OBVIOUS
<1>1. /\ UNCHANGED <<stream, at, head, told, revision, seq>> /\ Captures
      /\ BoundsOK /\ RevisionsOK /\ stream' \in Seq(Played) /\ head' \in Played
      /\ Now' = Now
  BY DEF Metadata, PlayInv, Now
<1>2. CASE UNCHANGED <<anchors, right>>
  <2>1. BoundsOK' /\ RevisionsOK'
    BY <1>1, <1>2 DEF BoundsOK, RevisionsOK, Never
  <2>2. TimelineTrue' /\ OneSong'
    BY <1>1, <1>2, Unmoved
  <2> QED  BY <1>1, <2>1, <2>2 DEF PlayInv
<1>3. CASE /\ anchors # <<>>
           /\ anchors' = [i \in 1..Len(anchors) |->
                            [anchors[i] EXCEPT !.titled = @ \/ anchors[i].revision = revision]]
           /\ right' = IF Truthful(Last(anchors)) THEN Now ELSE Never
  <2> DEFINE n == Len(anchors)
             a == anchors[n]
             b == anchors'[n]
  <2>1. n \in Nat /\ n \in 1..n /\ a \in Anchors /\ a = Last(anchors)
    BY <1>3, HostIs, EmptySeq DEF Last
  <2>2. /\ Len(anchors') = n
        /\ \A i \in 1..n : anchors'[i].revision = anchors[i].revision
    <3> DEFINE Named(i) == [anchors[i] EXCEPT !.titled = @ \/ anchors[i].revision = revision]
    <3>1. \A i \in 1..n : anchors[i] \in Anchors
      BY HostIs
    <3>2. \A i \in 1..n : Named(i).revision = anchors[i].revision
      BY <3>1 DEF Anchors
    <3>3. anchors' = [i \in 1..n |-> Named(i)]
      BY <1>3
    <3> HIDE DEF Named
    <3> QED  BY <2>1, <3>2, <3>3
  <2>3. b.titled /\ b.frame = a.frame /\ b.pos = a.pos /\ b.length = a.length
    <3>1. a.revision = revision
      BY <1>1, <1>3 DEF RevisionsOK
    <3>2. b = [a EXCEPT !.titled = @ \/ a.revision = revision]
      BY <1>3, <2>1
    <3> HIDE DEF a, b
    <3> QED  BY <2>1, <3>1, <3>2 DEF Anchors
  <2>4. RevisionsOK'
    <3>1. \A i \in 1..Len(anchors') : anchors'[i].revision <= revision'
      BY <1>1, <2>2 DEF RevisionsOK
    <3>2. anchors'[Len(anchors')].revision = revision'
      BY <1>1, <1>3, <2>1, <2>2 DEF RevisionsOK
    <3> QED  BY <3>1, <3>2 DEF RevisionsOK
  <2>5. CASE ~Truthful(Last(anchors))
    <3>1. right' = Never
      BY <1>3, <2>5
    <3>2. BoundsOK'
      BY <1>1, <3>1, BoundsOfPhone
    <3> QED  BY <1>1, <2>4, <3>1, <3>2, NothingTrue DEF PlayInv
  <2>6. CASE Truthful(Last(anchors))
    <3>1. PICK m : m = Now
      OBVIOUS
    <3>2. right' = m /\ m \in Nat /\ at \in Nat /\ at <= m /\ Now' = m
      BY <1>1, <1>3, <2>6, <3>1, HostIs
    <3>3. BoundsOK'
      <4>1. right' \in 0..Now'
        BY <3>2
      <4> QED  BY <1>1, <4>1, BoundsOfPhone
    <3>4. TrueFrames' \subseteq {m}
      BY <3>2 DEF TrueFrames
    <3>5. (ToldBy(anchors, m) = Len(anchors))' /\ Teller(m)' = anchors'[Len(anchors')]
          /\ FrameAt(m)' = head'
      <4>1. anchors' \in Seq(Anchors) /\ \A i \in 1..Len(anchors') : anchors'[i].frame <= m
        BY <3>2 DEF HostOK
      <4>2. ToldBy(anchors', m) = Len(anchors')
        BY <3>2, <4>1, ToldByLast
      <4>3. ~(m < Now')
        BY <3>2
      <4> QED  BY <4>2, <4>3 DEF Teller, FrameAt
    <3>6. Tells(Teller(m)', m, FrameAt(m)') /\ ToldBy(anchors', m) # 0
      <4>1. Teller(m)' = b /\ FrameAt(m)' = head
        BY <1>1, <2>2, <3>5
      <4>2. a.pos + m - a.frame = head.pos /\ a.length = LengthOf[head.song]
        BY <2>1, <2>6, <3>1 DEF Truthful
      <4>3. ToldBy(anchors', m) # 0
        BY <2>1, <2>2, <3>5
      <4> HIDE DEF a, b
      <4> QED  BY <2>3, <4>1, <4>2, <4>3 DEF Tells
    <3>7. TimelineTrue'
      BY <3>4, <3>6 DEF TimelineTrue
    <3>8. OneSong'
      BY <3>4 DEF OneSong
    <3> QED  BY <1>1, <2>4, <3>3, <3>7, <3>8 DEF PlayInv
  <2> QED  BY <2>5, <2>6
<1> QED  BY <1>2, <1>3 DEF Metadata

\* The anchors that are kept for the next window tell its frames as before.
LEMMA PlayNextWindow ==
    ASSUME HostOK, HostOK', PlayInv, Captured, NextWindow, UNCHANGED <<right, profile>>
    PROVE  PlayInv'
<1>1. /\ at' = at + Hop /\ seq' = seq + 1 /\ Len(stream') = Overlap
      /\ \A i \in 1..Overlap : stream'[i] = stream[Hop + i]
  BY WindowTaken
<1>2. /\ anchors' = AnchorsForWindow(anchors, at + Hop, Now)
      /\ UNCHANGED <<head, told, revision>> /\ stream' = SubSeq(stream, Hop + 1, Window)
      /\ Len(stream) = Window
  BY DEF NextWindow, Captured
<1>3. /\ Hop \in Nat \ {0} /\ Overlap \in Nat /\ Window = Hop + Overlap /\ MaxWindows \in Nat
      /\ at \in Nat /\ seq \in Nat \ {0} /\ Now = at + Len(stream) /\ Now \in Nat
      /\ Overlap # 0 /\ Sorted(anchors) /\ anchors \in Seq(Anchors)
  BY HostIs, Geometry, BoundsAssumption DEF HostOK
<1>4. Now' = Now /\ Now = at + Hop + Overlap
  <2>1. Now' = at + Hop + Overlap
    BY <1>1 DEF Now
  <2>2. Now = at + (Hop + Overlap)
    BY <1>2, <1>3
  <2> QED  BY <1>3, <2>1, <2>2
<1>5. BoundsOK'
  <2>1. seq <= MaxWindows
    BY <1>2, <1>3 DEF PlayInv, BoundsOK
  <2>2. at' <= (seq' - 1) * Hop
    <3>1. (seq' - 1) * Hop = (seq - 1) * Hop + Hop /\ (seq - 1) * Hop \in Nat
      BY <1>1, <1>3
    <3> DEFINE x == (seq - 1) * Hop
    <3>2. x \in Nat /\ at <= x /\ (seq' - 1) * Hop = x + Hop
      BY <3>1 DEF PlayInv, BoundsOK
    <3> HIDE DEF x
    <3> QED  BY <1>1, <1>3, <3>2
  <2>3. right' = Never' \/ right' \in 0..Now'
    BY <1>4 DEF PlayInv, BoundsOK, Never
  <2> QED  BY <1>1, <1>3, <2>1, <2>2, <2>3 DEF BoundsOK
<1>6. stream' \in Seq(Played) /\ head' \in Played
  <2>1. \A i \in 1..Overlap : Hop + i \in 1..Len(stream)
    BY <1>2, <1>3
  <2>2. \A i \in 1..Len(stream') : stream'[i] \in Played
    BY <1>1, <2>1 DEF PlayInv
  <2>3. stream' \in Seq(Heard)
    BY DEF HostOK
  <2> DEFINE s == stream'
  <2>4. s \in Seq(Heard) /\ \A i \in 1..Len(s) : s[i] \in Played
    BY <2>2, <2>3
  <2> HIDE DEF s
  <2>5. s \in Seq(Played)
    BY <2>4
  <2> QED  BY <1>2, <2>5 DEF PlayInv, s
<1>7. ASSUME NEW f \in TrueFrames'
      PROVE  /\ f \in TrueFrames /\ Teller(f)' = Teller(f) /\ FrameAt(f)' = FrameAt(f)
             /\ ToldBy(anchors', f) # 0
  <2>1. f \in Int /\ at + Hop <= f /\ f <= Now /\ right <= f /\ (f < Now \/ told)
    BY <1>1, <1>2, <1>3, <1>4 DEF TrueFrames
  <2>2. f \in TrueFrames
    BY <1>3, <2>1 DEF TrueFrames
  <2>3. FrameAt(f)' = FrameAt(f)
    <3>1. CASE f < Now
      <4>1. FrameAt(f) = stream[f - at + 1]
        BY <3>1 DEF FrameAt
      <4>2. FrameAt(f)' = stream'[f - at' + 1]
        BY <1>4, <3>1 DEF FrameAt
      <4>3. f - at' + 1 \in 1..Overlap /\ Hop + (f - at' + 1) = f - at + 1
        BY <1>1, <1>3, <1>4, <2>1, <3>1
      <4> QED  BY <1>1, <4>1, <4>2, <4>3
    <3>2. CASE ~(f < Now)
      BY <1>2, <1>4, <3>2 DEF FrameAt
    <3> QED  BY <3>1, <3>2
  <2> DEFINE from == at + Hop
  <2>4. from \in Int /\ Now \in Int /\ from <= f /\ f <= Now
    BY <1>3, <2>1
  <2>5. ToldBy(anchors, f) # 0
    BY <2>2 DEF PlayInv, TimelineTrue
  <2>6. anchors' = AnchorsForWindow(anchors, from, Now)
    BY <1>2
  <2> HIDE DEF from
  <2>7. ToldBy(anchors', f) # 0 /\ anchors'[ToldBy(anchors', f)] = anchors[ToldBy(anchors, f)]
    BY <1>3, <2>1, <2>4, <2>5, <2>6, ToldByKept
  <2>8. Teller(f) = anchors[ToldBy(anchors, f)] /\ Teller(f)' = anchors'[ToldBy(anchors', f)]
    BY DEF Teller
  <2> QED  BY <2>2, <2>3, <2>7, <2>8
<1>8. TimelineTrue'
  BY <1>7 DEF PlayInv, TimelineTrue
<1>9. OneSong'
  BY <1>7 DEF PlayInv, OneSong
<1>10. RevisionsOK'
  <2> DEFINE from == at + Hop
  <2>1. from \in Int /\ Now \in Int /\ from <= Now
    BY <1>3, <1>4
  <2>2. anchors' = AnchorsForWindow(anchors, from, Now)
    BY <1>2
  <2> HIDE DEF from
  <2>3. \A i \in 1..Len(anchors') : \E j \in 1..Len(anchors) : anchors'[i] = anchors[j]
    BY <1>3, <2>1, <2>2, AnchorsKept
  <2>4. \A i \in 1..Len(anchors') : anchors'[i].revision <= revision'
    BY <1>2, <2>3 DEF PlayInv, RevisionsOK
  <2>5. ASSUME anchors' # <<>> PROVE anchors'[Len(anchors')].revision = revision'
    <3>1. PICK m : m = Now
      OBVIOUS
    <3>2. m \in Int /\ from <= m /\ m <= Now /\ m = Now'
      BY <1>4, <2>1, <3>1
    <3>3. ToldBy(anchors, m) = Len(anchors)
      BY <3>1, TellerOfNow
    <3>4. Len(anchors) # 0
      <4>1. 1 \in 1..Len(anchors')
        <5>1. anchors' \in Seq(Anchors)
          BY DEF HostOK
        <5> QED  BY <2>5, <5>1, EmptySeq
      <4> QED  BY <2>3, <4>1
    <3>5. anchors'[ToldBy(anchors', m)] = anchors[ToldBy(anchors, m)]
      BY <1>3, <2>1, <2>2, <3>2, <3>3, <3>4, ToldByKept
    <3>6. ToldBy(anchors', m) = Len(anchors')
      <4>1. anchors' \in Seq(Anchors) /\ \A i \in 1..Len(anchors') : anchors'[i].frame <= m
        BY <3>2 DEF HostOK
      <4> QED  BY <3>2, <4>1, ToldByLast
    <3>7. anchors[Len(anchors)].revision = revision
      BY <3>4, HostIs, EmptySeq DEF PlayInv, RevisionsOK
    <3> QED  BY <1>2, <3>3, <3>5, <3>6, <3>7
  <2> QED  BY <2>4, <2>5 DEF RevisionsOK
<1> QED  BY <1>5, <1>6, <1>8, <1>9, <1>10 DEF PlayInv

\* The worker, the disk and the page leave the phone alone.
LEMMA PlayAlone ==
    ASSUME HostOK, PlayInv, UNCHANGED <<host, right, seq>>
    PROVE  PlayInv'
<1>1. UNCHANGED <<stream, at, anchors, head, told, revision, right, seq>>
  BY DEF host
<1>2. TimelineTrue' /\ OneSong'
  BY <1>1, Unmoved
<1>3. BoundsOK' /\ RevisionsOK'
  BY <1>1 DEF PlayInv, BoundsOK, RevisionsOK, Never, Now
<1> QED  BY <1>1, <1>2, <1>3 DEF PlayInv

\* A host that is replaced begins a timeline without anchors.
LEMMA PlayNewHost ==
    ASSUME HostOK, HostOK', PlayInv, NewHost
    PROVE  PlayInv'
<1>1. /\ stream' = <<>> /\ at' = 0 /\ anchors' = <<>> /\ right' = Never
      /\ UNCHANGED <<head, seq>>
  BY DEF NewHost
<1>2. BoundsOK'
  <2>1. seq - 1 \in Nat /\ Hop \in Nat /\ Overlap \in Nat
    BY HostIs, Geometry
  <2>2. 0 <= (seq - 1) * Hop
    BY <2>1
  <2> QED  BY <1>1, <2>1, <2>2 DEF PlayInv, BoundsOK, Never
<1>3. RevisionsOK' /\ stream' \in Seq(Played) /\ head' \in Played
  BY <1>1 DEF RevisionsOK, PlayInv
<1>4. TimelineTrue' /\ OneSong'
  BY <1>1, <1>2, NothingTrue
<1> QED  BY <1>2, <1>3, <1>4 DEF PlayInv

\* What is known of the timeline holds after every step.
LEMMA PlayNext == HostOK /\ HostOK' /\ PlayInv /\ [Next]_vars => PlayInv'
<1> SUFFICES ASSUME HostOK, HostOK', PlayInv, [Next]_vars PROVE PlayInv'
  OBVIOUS
<1>1. CASE PlayFrame \/ PlayUnannounced \/ PlayMistold \/ Correct \/ Skip \/ Metadata
  BY <1>1, PlayPlayFrame, PlayPlayUnannounced, PlayPlayMistold, PlayCorrect, PlaySkip,
     PlayMetadata
<1>2. CASE ServeSong
  <2>1. Captured /\ NextWindow /\ UNCHANGED right
    BY <1>2 DEF ServeSong
  <2>2. UNCHANGED profile
    BY <1>2 DEF ServeSong, NextWindow
  <2> QED  BY <2>1, <2>2, PlayNextWindow
<1>3. CASE ServeWindow
  BY <1>3, PlayNextWindow DEF ServeWindow, Assemble, NextWindow
<1>4. CASE Separate
  BY <1>4, PlayNextWindow DEF Separate, Assemble, NextWindow
<1>5. CASE FallBack
  BY <1>5, PlayNextWindow DEF FallBack, NextWindow
<1>6. CASE StoreSong \/ Prune \/ Count \/ StoreChunk \/ CompleteWindow \/ SweepWindows
  BY <1>6, PlayAlone
     DEF StoreSong, Prune, Count, StoreChunk, CompleteWindow, SweepWindows, DiskOnly
<1>7. CASE HostRestarts \/ Stop
  BY <1>7, PlayNewHost DEF HostRestarts, Stop
<1>8. CASE SwitchProfile \/ Crash
  BY <1>8, PlayAlone DEF SwitchProfile, Crash
<1>9. CASE UNCHANGED vars
  BY <1>9, PlayAlone DEF vars, ghosts
<1> QED  BY <1>1, <1>2, <1>3, <1>4, <1>5, <1>6, <1>7, <1>8, <1>9 DEF Next

-----------------------------------------------------------------------------
(* A timeline that is true of a window covers it.                          *)

\* Segments that lead from one frame to another.
Leads(s, from, to) == IF s = <<>> THEN from = to ELSE Covers(s, from, to)

\* Segments that lead on from one another are a chain.
LEMMA LeadsOn ==
    ASSUME NEW S, NEW s \in Seq(S), NEW t \in Seq(S), NEW a, NEW b, NEW c,
           Leads(s, a, b), Leads(t, b, c)
    PROVE  Leads(s \o t, a, c)
<1>1. CASE s = <<>>
  BY <1>1 DEF Leads
<1>2. CASE t = <<>>
  BY <1>2 DEF Leads
<1>3. CASE s # <<>> /\ t # <<>>
  <2> DEFINE u == s \o t
             n == Len(s)
             m == Len(t)
  <2>1. /\ n \in Nat \ {0} /\ m \in Nat \ {0} /\ u \in Seq(S) /\ Len(u) = n + m
        /\ \A i \in 1..n : u[i] = s[i]
        /\ \A i \in 1..m : u[n + i] = t[i]
    BY <1>3, EmptySeq, ConcatProperties
  <2>2. /\ s[1].from = a /\ s[n].to = b /\ t[1].from = b /\ t[m].to = c
        /\ \A i \in 2..n : s[i - 1].to = s[i].from
        /\ \A i \in 2..m : t[i - 1].to = t[i].from
    BY <1>3 DEF Leads, Covers, Spans, Last
  <2> HIDE DEF u, n, m
  <2>3. u # <<>> /\ Head(u) = u[1] /\ Last(u) = u[n + m]
    BY <2>1, EmptySeq DEF Last
  <2>4. u[1].from = a /\ u[n + m].to = c
    BY <2>1, <2>2
  <2>5. ASSUME NEW i \in 2..Len(u) PROVE u[i - 1].to = u[i].from
    <3>1. CASE i \in 2..n
      <4>1. i \in 1..n /\ i - 1 \in 1..n
        BY <2>1, <3>1
      <4> QED  BY <2>1, <2>2, <3>1, <4>1
    <3>2. CASE i = n + 1
      <4>1. n \in 1..n /\ 1 \in 1..m /\ i - 1 = n
        BY <2>1, <3>2
      <4>2. u[n] = s[n] /\ u[n + 1] = t[1]
        BY <2>1, <4>1
      <4> QED  BY <2>2, <3>2, <4>1, <4>2
    <3>3. CASE i > n + 1
      <4> DEFINE j == i - n
      <4>1. j \in 2..m /\ j \in 1..m /\ j - 1 \in 1..m /\ i = n + j /\ i - 1 = n + (j - 1)
        BY <2>1, <3>3
      <4> HIDE DEF j
      <4>2. u[n + j] = t[j] /\ u[n + (j - 1)] = t[j - 1]
        BY <2>1, <4>1
      <4> QED  BY <2>2, <4>1, <4>2
    <3> QED  BY <2>1, <3>1, <3>2, <3>3
  <2>6. Covers(u, a, c)
    BY <2>3, <2>4, <2>5 DEF Covers, Spans
  <2> QED  BY <2>3, <2>6 DEF Leads, u
<1> QED  BY <1>1, <1>2, <1>3

\* Sequences of segments that lead on from one another are a chain when flattened.
LEMMA FlattenLeads ==
    ASSUME NEW S, NEW seqs \in Seq(Seq(S)), NEW bounds, Len(seqs) # 0,
           \A i \in 1..Len(seqs) : Leads(seqs[i], bounds[i - 1], bounds[i])
    PROVE  Leads(FlattenSeq(seqs), bounds[0], bounds[Len(seqs)])
<1> DEFINE n == Len(seqs)
<1>1. n \in Nat \ {0} /\ \A i \in 1..n : seqs[i] \in Seq(S)
  OBVIOUS
<1>2. PICK flat :
          /\ FlattenSeq(seqs) = flat[n] /\ flat[1] = seqs[1]
          /\ \A i \in 2..n : flat[i] = flat[i - 1] \o seqs[i]
  BY FlattenSteps
<1>3. \A i \in 1..n : Leads(seqs[i], bounds[i - 1], bounds[i])
  OBVIOUS
<1> HIDE DEF n
<1> DEFINE A == {k \in Nat : k < n =>
                    flat[k + 1] \in Seq(S) /\ Leads(flat[k + 1], bounds[0], bounds[k + 1])}
           m == n - 1
<1>4. 0 \in A
  <2>1. 1 \in 1..n /\ 1 - 1 = 0 /\ 0 + 1 = 1
    BY <1>1
  <2>2. flat[1] \in Seq(S) /\ Leads(flat[1], bounds[0], bounds[1])
    BY <1>1, <1>2, <1>3, <2>1
  <2> QED  BY <2>1, <2>2
<1>5. ASSUME NEW k \in 0..(m - 1), k \in A
      PROVE  k + 1 \in A
  <2> DEFINE j == k + 2
  <2>1. j \in 2..n /\ j \in 1..n /\ j - 1 = k + 1 /\ k < n /\ k + 1 + 1 = j
    BY <1>1
  <2> HIDE DEF j
  <2>2. flat[k + 1] \in Seq(S) /\ Leads(flat[k + 1], bounds[0], bounds[k + 1])
    BY <1>5, <2>1
  <2>3. flat[j] = flat[k + 1] \o seqs[j] /\ seqs[j] \in Seq(S)
        /\ Leads(seqs[j], bounds[k + 1], bounds[j])
    BY <1>1, <1>2, <1>3, <2>1
  <2>4. flat[j] \in Seq(S) /\ Leads(flat[j], bounds[0], bounds[j])
    BY <2>2, <2>3, LeadsOn, ConcatProperties
  <2> QED  BY <2>1, <2>4
<1>6. m \in A
  <2>1. m \in Nat
    BY <1>1
  <2> HIDE DEF A, m
  <2>2. \A k \in 0..(m - 1) : k \in A => k + 1 \in A
    BY <1>5
  <2>3. 0..m \subseteq A
    BY <1>4, <2>1, <2>2, UpTo
  <2> QED  BY <2>1, <2>3
<1> QED  BY <1>1, <1>2, <1>6 DEF n

\* Runs of frames of which a segment says what their tellers say.
ToldSegments(list, lo, hi) ==
    {s \in SegmentsIn(lo, hi) : \A f \in s.from..(s.to - 1) :
        LET a == list[ToldBy(list, f)] IN
        /\ s.track + f - s.from = a.pos + f - a.frame
        /\ s.length = a.length /\ s.revision = a.revision /\ s.titled = a.titled}

\* One anchor, and the frames it tells.
LEMMA SegmentLeads ==
    ASSUME NEW list \in Seq(Anchors), NEW j \in 1..Len(list), NEW lo \in Nat, NEW hi \in Nat,
           NEW b \in Nat, NEW e \in Nat, lo <= b, b <= e, e <= hi,
           \A f \in b..(e - 1) : /\ ToldBy(list, f) = j
                                 /\ list[j].pos + f - list[j].frame \in 0..(list[j].length - 1)
    PROVE  /\ Segment(list[j], b, e) \in Seq(ToldSegments(list, lo, hi))
           /\ Leads(Segment(list[j], b, e), b, e)
<1> DEFINE a == list[j]
           track == a.pos + b - a.frame
           end == Min({e, b + a.length - track})
           s == [from |-> b, to |-> end, track |-> track, length |-> a.length,
                 revision |-> a.revision, rtp |-> a.rtp, titled |-> a.titled]
<1>1. /\ a.frame \in Nat /\ a.pos \in Nat /\ a.length \in Nat
      /\ a.revision \in Nat /\ a.rtp \in Nat /\ a.titled \in BOOLEAN
  BY AnchorIs DEF Anchors
<1>2. CASE e <= b
  <2>1. Segment(a, b, e) = <<>> /\ b = e
    BY <1>2 DEF Segment
  <2> QED  BY <2>1 DEF Leads
<1>3. CASE ~(e <= b)
  <2>1. track \in 0..(a.length - 1)
    <3>1. b \in b..(e - 1)
      BY <1>3
    <3> QED  BY <3>1
  <2>2. Segment(a, b, e) = <<s>>
    BY <1>3, <2>1 DEF Segment
  <2>3. b + a.length - track >= e
    <3>1. e - 1 \in b..(e - 1)
      BY <1>3
    <3>2. a.pos + (e - 1) - a.frame \in 0..(a.length - 1)
      BY <3>1
    <3> DEFINE x == a.pos
               y == a.frame
               z == a.length
    <3>3. x \in Int /\ y \in Int /\ z \in Int /\ x + (e - 1) - y <= z - 1
      BY <1>1, <3>2
    <3>4. b + z - (x + b - y) >= e
      <4> HIDE DEF x, y, z
      <4> QED  BY <3>3
    <3> QED  BY <3>4
  <2>4. end = e
    <3> DEFINE x == b + a.length - track
    <3>1. x \in Int /\ x >= e
      BY <1>1, <2>3
    <3> HIDE DEF x
    <3>2. {e, x} \in SUBSET Nat
      BY <3>1
    <3>3. Min({e, x}) \in {e, x} /\ \A m \in {e, x} : Min({e, x}) <= m
      BY <3>2, MinIsThere
    <3>4. Min({e, x}) = e
      BY <3>1, <3>3
    <3> QED  BY <3>4 DEF x
  <2> HIDE DEF end
  <2>5. s \in SegmentsIn(lo, hi)
    <3> HIDE DEF track, a
    <3>1. track \in Nat
      BY <1>1, <2>1
    <3> QED  BY <1>1, <1>3, <2>4, <3>1 DEF SegmentsIn
  <2>6. ASSUME NEW f \in s.from..(s.to - 1)
        PROVE  /\ list[ToldBy(list, f)] = a
               /\ s.track + f - s.from = a.pos + f - a.frame
               /\ s.length = a.length /\ s.revision = a.revision /\ s.titled = a.titled
    <3>1. s.from = b /\ s.to = e /\ s.track = track
      BY <2>4
    <3>2. f \in b..(e - 1)
      BY <2>6, <3>1
    <3>3. ToldBy(list, f) = j
      BY <3>2
    <3>4. f \in Int
      BY <3>2
    <3>5. track + f - b = a.pos + f - a.frame
      <4> HIDE DEF a
      <4> QED  BY <1>1, <3>4
    <3> QED  BY <3>1, <3>3, <3>5
  <2>7. s \in ToldSegments(list, lo, hi)
    <3> HIDE DEF s, a
    <3> QED  BY <2>5, <2>6 DEF ToldSegments
  <2>8. s.from = b /\ s.to = e
    BY <2>4
  <2> HIDE DEF s
  <2>9. Covers(<<s>>, b, e)
    BY <2>8 DEF Covers, Spans, Last
  <2>10. <<s>> # <<>> /\ <<s>> \in Seq(ToldSegments(list, lo, hi))
    BY <2>7
  <2> QED  BY <2>2, <2>9, <2>10 DEF Leads
<1> QED  BY <1>2, <1>3

\* Where every frame of a window has its anchor and lies in the song it names, the
\* segments of the window are chained and cover it, so the lookup looks at all of it.
LEMMA SegmentsCover ==
    ASSUME NEW list \in Seq(Anchors), Sorted(list), NEW from \in Nat, NEW to \in Nat, from < to,
           \A f \in from..(to - 1) :
                LET a == list[ToldBy(list, f)] IN
                ToldBy(list, f) # 0 /\ a.pos + f - a.frame \in 0..(a.length - 1)
    PROVE  /\ OutputSegments(list, from, to) \in Seq(ToldSegments(list, from, to))
           /\ Covers(OutputSegments(list, from, to), from, to)
<1> DEFINE first == FirstOf(list, from)
           last == ToldBy(list, to - 1)
           Begin(i) == IF i > first \/ (list[i].frame > from /\ list[i].pos < list[i].frame - from)
                       THEN list[i].frame ELSE from
           End(i) == IF i = last THEN to ELSE list[i + 1].frame
           Piece(i) == Segment(list[first + i - 1], Begin(first + i - 1), End(first + i - 1))
           Bound(i) == IF i = first THEN from ELSE IF i = last + 1 THEN to ELSE list[i].frame
           V == ToldSegments(list, from, to)
<1>1. OutputSegments(list, from, to) = FlattenSeq([i \in 1..(last - first + 1) |-> Piece(i)])
  BY DEF OutputSegments, FirstOf
<1>2. Len(list) \in Nat /\ \A i \in 1..Len(list) : list[i] \in Anchors /\ list[i].frame \in Nat
  BY AnchorIs
<1>3. /\ first = ToldBy(list, from) /\ first \in 1..Len(list) /\ list[first].frame <= from
      /\ \A i \in 1..Len(list) : i > first => list[i].frame > from
  <2> DEFINE t == ToldBy(list, from)
  <2>1. t \in 0..Len(list) /\ (t # 0 => list[t].frame <= from)
        /\ \A i \in 1..Len(list) : i > t => list[i].frame > from
    BY ToldByIs
  <2>2. t # 0
    BY from \in from..(to - 1)
  <2>3. t \in Int /\ t >= 1
    BY <1>2, <2>1, <2>2
  <2>4. first = t
    <3> HIDE DEF t
    <3>1. 1 \in Int /\ t \in Int
      BY <2>3
    <3>2. Max({1, t}) \in {1, t} /\ Max({1, t}) >= 1 /\ Max({1, t}) >= t
      BY <3>1, MaxOfTwo, Zenon
    <3>3. Max({1, t}) = t
      BY <2>3, <3>2
    <3> QED  BY <3>3 DEF t, FirstOf
  <2> QED  BY <1>2, <2>1, <2>3, <2>4
<1>4. /\ last \in 0..Len(list) /\ (last # 0 => list[last].frame <= to - 1)
      /\ \A i \in 1..Len(list) : i > last => list[i].frame > to - 1
  <2> DEFINE e == to - 1
  <2>1. e \in Int
    OBVIOUS
  <2> HIDE DEF e
  <2>2. /\ ToldBy(list, e) \in 0..Len(list)
        /\ (ToldBy(list, e) # 0 => list[ToldBy(list, e)].frame <= e)
        /\ \A i \in 1..Len(list) : i > ToldBy(list, e) => list[i].frame > e
    BY <2>1, ToldByIs, Zenon
  <2> QED  BY <2>2 DEF e
<1> HIDE DEF first, last
<1>5. first <= last /\ last \in 1..Len(list)
  <2> SUFFICES ASSUME last < first PROVE FALSE
    BY <1>2, <1>3, <1>4
  <2>1. list[first].frame > to - 1
    BY <1>2, <1>3, <1>4
  <2> QED  BY <1>2, <1>3, <2>1
<1>6. \A j \in first..(last + 1) :
        /\ Bound(j) \in Nat /\ from <= Bound(j) /\ Bound(j) <= to
        /\ j <= last /\ j # first => Bound(j) = list[j].frame
  <2> SUFFICES ASSUME NEW j \in first..(last + 1)
               PROVE  /\ Bound(j) \in Nat /\ from <= Bound(j) /\ Bound(j) <= to
                      /\ j <= last /\ j # first => Bound(j) = list[j].frame
    OBVIOUS
  <2>1. CASE j = first
    BY <2>1
  <2>2. CASE j = last + 1
    BY <1>2, <1>3, <1>5, <2>2
  <2>3. CASE j # first /\ j # last + 1
    <3>1. j \in 1..Len(list) /\ j > first /\ j <= last
      BY <1>2, <1>3, <1>5, <2>3
    <3>2. list[j].frame <= list[last].frame
      BY <1>5, <3>1 DEF Sorted
    <3>3. list[j].frame > from /\ list[j].frame \in Nat /\ list[last].frame \in Nat
          /\ list[last].frame <= to - 1
      <4>1. list[j].frame > from /\ list[j].frame \in Nat
        BY <1>2, <1>3, <3>1
      <4>2. last # 0 /\ list[last].frame \in Nat
        BY <1>2, <1>5
      <4> QED  BY <1>4, <4>1, <4>2
    <3>4. Bound(j) = list[j].frame
      BY <2>3
    <3> HIDE DEF Bound
    <3> QED  BY <3>2, <3>3, <3>4
  <2> QED  BY <2>1, <2>2, <2>3
<1>7. \A j \in first..last : Begin(j) = Bound(j) /\ End(j) = Bound(j + 1)
  <2> SUFFICES ASSUME NEW j \in first..last
               PROVE  Begin(j) = Bound(j) /\ End(j) = Bound(j + 1)
    OBVIOUS
  <2>1. j \in Int /\ first \in Int /\ last \in Int /\ first <= j /\ j <= last
    BY <1>2, <1>3, <1>5
  <2>2. Begin(j) = Bound(j)
    BY <1>2, <1>3, <2>1
  <2>3. End(j) = Bound(j + 1)
    BY <2>1
  <2> QED  BY <2>2, <2>3
<1>8. ASSUME NEW j \in first..last, NEW f \in Bound(j)..(Bound(j + 1) - 1)
      PROVE  ToldBy(list, f) = j /\ f \in from..(to - 1)
  <2>1. j \in 1..Len(list) /\ j + 1 \in first..(last + 1) /\ j \in first..(last + 1)
        /\ j \in Int /\ first \in Int /\ last \in Int /\ first <= j /\ j <= last
    BY <1>2, <1>3, <1>5
  <2> DEFINE b == Bound(j)
             c == Bound(j + 1)
  <2>2. b \in Nat /\ c \in Nat /\ from <= b /\ c <= to
    BY <1>6, <2>1
  <2>3. list[j].frame <= b
    BY <1>2, <1>3, <2>1
  <2>4. j # last => j + 1 \in 1..Len(list) /\ list[j + 1].frame = c
    BY <1>2, <1>5, <2>1
  <2>5. j = last => c = to
    BY <2>1
  <2> HIDE DEF b, c
  <2>6. f \in Int /\ b <= f /\ f <= c - 1
    BY <2>2 DEF b, c
  <2>7. list[j].frame <= f /\ f \in from..(to - 1)
    BY <1>2, <2>1, <2>2, <2>3, <2>6
  <2>8. ASSUME NEW i \in 1..Len(list), i > j PROVE list[i].frame > f
    <3>1. CASE j = last
      BY <1>2, <1>4, <2>2, <2>5, <2>6, <2>8, <3>1
    <3>2. CASE j # last
      <4>1. j + 1 \in 1..Len(list) /\ list[j + 1].frame = c /\ j + 1 <= i
        BY <2>1, <2>4, <2>8, <3>2
      <4>2. list[j + 1].frame <= list[i].frame
        BY <4>1 DEF Sorted
      <4> QED  BY <1>2, <2>2, <2>6, <4>1, <4>2
    <3> QED  BY <3>1, <3>2
  <2>9. j \in 0..Len(list)
    BY <1>2, <2>1
  <2>10. ToldBy(list, f) = j
    BY <2>6, <2>7, <2>8, <2>9, ToldByUnique
  <2> QED  BY <2>7, <2>10
<1>9. \A j \in first..last : Bound(j) <= Bound(j + 1)
  <2> SUFFICES ASSUME NEW j \in first..last PROVE Bound(j) <= Bound(j + 1)
    OBVIOUS
  <2>1. j \in 1..Len(list) /\ j + 1 \in first..(last + 1) /\ j \in first..(last + 1)
        /\ j \in Int /\ first \in Int /\ last \in Int /\ first <= j /\ j <= last
    BY <1>2, <1>3, <1>5
  <2>2. CASE j = first
    <3>1. Bound(j) = from
      BY <2>2
    <3> QED  BY <1>6, <2>1, <3>1
  <2>3. CASE j = last
    <3>1. Bound(j + 1) = to
      BY <2>1, <2>3
    <3> QED  BY <1>6, <2>1, <3>1
  <2>4. CASE j # first /\ j # last
    <3>1. Bound(j) = list[j].frame /\ Bound(j + 1) = list[j + 1].frame /\ j + 1 \in 1..Len(list)
      BY <1>2, <1>5, <2>1, <2>4
    <3>2. list[j].frame <= list[j + 1].frame
      BY <2>1, <3>1 DEF Sorted
    <3> QED  BY <3>1, <3>2
  <2> QED  BY <2>2, <2>3, <2>4
<1> HIDE DEF Bound, Begin, End
<1>10. ASSUME NEW j \in first..last
       PROVE  /\ Segment(list[j], Begin(j), End(j)) \in Seq(V)
              /\ Leads(Segment(list[j], Begin(j), End(j)), Bound(j), Bound(j + 1))
  <2> DEFINE b == Bound(j)
             e == Bound(j + 1)
  <2>1. j \in 1..Len(list) /\ j + 1 \in first..(last + 1) /\ j \in first..(last + 1)
    BY <1>2, <1>3, <1>5
  <2>2. b \in Nat /\ e \in Nat /\ from <= b /\ e <= to /\ b <= e
    BY <1>6, <1>9, <2>1
  <2>3. Begin(j) = b /\ End(j) = e
    BY <1>7
  <2>4. \A f \in b..(e - 1) : /\ ToldBy(list, f) = j
                              /\ list[j].pos + f - list[j].frame \in 0..(list[j].length - 1)
    <3> SUFFICES ASSUME NEW f \in b..(e - 1)
                 PROVE  /\ ToldBy(list, f) = j
                        /\ list[j].pos + f - list[j].frame \in 0..(list[j].length - 1)
      OBVIOUS
    <3>1. ToldBy(list, f) = j /\ f \in from..(to - 1)
      BY <1>8
    <3> QED  BY <3>1
  <2> HIDE DEF b, e, V
  <2>5. /\ Segment(list[j], b, e) \in Seq(ToldSegments(list, from, to))
        /\ Leads(Segment(list[j], b, e), b, e)
    BY <2>1, <2>2, <2>4, SegmentLeads
  <2> QED  BY <2>3, <2>5 DEF b, e, V
<1> DEFINE n == last - first + 1
           seqs == [i \in 1..n |-> Piece(i)]
           bounds == [i \in 0..n |-> Bound(first + i)]
<1>11. n \in Nat \ {0}
  BY <1>2, <1>3, <1>5
<1>12. ASSUME NEW i \in 1..n
       PROVE  Piece(i) \in Seq(V) /\ Leads(Piece(i), bounds[i - 1], bounds[i])
  <2> DEFINE j == first + i - 1
  <2>1. j \in first..last /\ j + 1 = first + i /\ i - 1 \in 0..n /\ i \in 0..n
        /\ first + (i - 1) = j
    <3>1. first \in Int /\ last \in Int /\ n = last - first + 1 /\ i \in Int /\ 1 <= i /\ i <= n
      BY <1>2, <1>3, <1>5
    <3> HIDE DEF n
    <3> QED  BY <3>1
  <2>2. bounds[i - 1] = Bound(j) /\ bounds[i] = Bound(j + 1)
    BY <2>1
  <2> HIDE DEF j, bounds, V, n
  <2>3. /\ Segment(list[j], Begin(j), End(j)) \in Seq(V)
        /\ Leads(Segment(list[j], Begin(j), End(j)), Bound(j), Bound(j + 1))
    BY <1>10, <2>1
  <2> QED  BY <2>2, <2>3 DEF j
<1>13. bounds[0] = from /\ bounds[n] = to
  <2>1. bounds[0] = Bound(first) /\ bounds[n] = Bound(last + 1)
    <3>1. first + 0 = first /\ first + n = last + 1 /\ 0 \in 0..n /\ n \in 0..n
      BY <1>2, <1>3, <1>5, <1>11
    <3> HIDE DEF n
    <3> QED  BY <3>1
  <2> QED  BY <1>2, <1>3, <1>5, <2>1 DEF Bound
<1> HIDE DEF Piece, V, bounds, n
<1>14. seqs \in Seq(Seq(V)) /\ Len(seqs) = n /\ \A i \in 1..n : seqs[i] = Piece(i)
  BY <1>11, <1>12
<1> HIDE DEF seqs
<1>15. FlattenSeq(seqs) \in Seq(V)
  BY <1>14, FlattenTyped
<1>16. Leads(FlattenSeq(seqs), from, to)
  <2>1. \A i \in 1..Len(seqs) : Leads(seqs[i], bounds[i - 1], bounds[i])
    BY <1>12, <1>14
  <2>2. Len(seqs) # 0
    BY <1>11, <1>14
  <2>3. Leads(FlattenSeq(seqs), bounds[0], bounds[Len(seqs)])
    BY <1>14, <2>1, <2>2, FlattenLeads
  <2> QED  BY <1>13, <1>14, <2>3
<1>17. OutputSegments(list, from, to) = FlattenSeq(seqs)
  BY <1>1 DEF seqs, n
<1> QED  BY <1>15, <1>16, <1>17 DEF Leads, V

\* The segments joined in a group go on in one song as its first begins.
LEMMA GroupGoesOn ==
    ASSUME NEW lo \in Nat, NEW hi \in Nat, NEW segments \in Seq(SegmentsIn(lo, hi)),
           Covers(segments, lo, hi), NEW g \in Groups(segments)
    PROVE  \E i \in 1..Len(segments) :
              /\ g.from = segments[i].from /\ g.track = segments[i].track
              /\ segments[i].titled => g.titled
              /\ \A f \in g.from..(g.to - 1) : \E k \in 1..Len(segments) :
                    /\ f \in segments[k].from..(segments[k].to - 1)
                    /\ segments[k].revision = segments[i].revision
                    /\ segments[k].track - segments[k].from = g.track - g.from
<1> DEFINE n == Len(segments)
           Joined(i) ==
                /\ segments[i - 1].revision = segments[i].revision
                /\ segments[i - 1].length = segments[i].length
                /\ TrackEnd(segments[i - 1]) = segments[i].track
           Firsts == {i \in 1..n : i = 1 \/ ~Joined(i)}
           Candidate(i) == {j \in i..n : j = n \/ j + 1 \in Firsts}
           Ends(i) == Min(Candidate(i))
           Group(i) == [from |-> segments[i].from, to |-> segments[Ends(i)].to,
                        track |-> segments[i].track,
                        titled |-> \E k \in i..Ends(i) : segments[k].titled]
<1>1. Groups(segments) = {Group(i) : i \in Firsts}
  BY DEF Groups
<1>2. PICK i \in Firsts : g = Group(i)
  BY <1>1
<1>3. n \in Nat \ {0} /\ Chained(segments) /\ i \in 1..n
  <2>1. n \in Nat /\ i \in 1..n
    OBVIOUS
  <2> QED  BY <2>1 DEF Covers, Chained
<1>4. \A j \in 1..n : /\ segments[j].from \in Nat /\ segments[j].to \in Nat
                      /\ segments[j].from < segments[j].to /\ segments[j].track \in Nat
                      /\ lo <= segments[j].from /\ segments[j].to <= hi
  BY SegmentIs
<1>5. \A j \in 1..n : j # 1 /\ j \notin Firsts => Joined(j)
  OBVIOUS
<1> DEFINE e == Ends(i)
<1>6. e \in Candidate(i) /\ \A j \in Candidate(i) : e <= j
  <2>1. n \in Candidate(i) /\ Candidate(i) \in SUBSET Nat
    BY <1>3
  <2> HIDE DEF Candidate
  <2> QED  BY <2>1, MinIsThere
<1>7. /\ g.from = segments[i].from /\ g.to = segments[e].to /\ g.track = segments[i].track
      /\ g.titled = (\E k \in i..e : segments[k].titled)
  BY <1>2
<1> HIDE DEF e, Firsts, Joined, n
<1>8. e \in i..n
  BY <1>6
<1>9. \A j \in (i + 1)..e : j \in 1..n /\ j - 1 \in 1..n /\ j \in 2..n /\ Joined(j)
  <2> SUFFICES ASSUME NEW j \in (i + 1)..e
               PROVE  j \in 1..n /\ j - 1 \in 1..n /\ j \in 2..n /\ Joined(j)
    OBVIOUS
  <2>0. j \in Int /\ i \in Int /\ e \in Int /\ n \in Int /\ 1 <= i /\ i + 1 <= j /\ j <= e /\ e <= n
    BY <1>3, <1>8
  <2>1. j \in 1..n /\ j - 1 \in 1..n /\ j \in 2..n /\ j # 1 /\ j - 1 \in i..n /\ j - 1 < e
    BY <2>0
  <2>2. j \notin Firsts
    <3> SUFFICES ASSUME j \in Firsts PROVE FALSE
      OBVIOUS
    <3>1. j - 1 + 1 = j
      BY <2>0
    <3>2. j - 1 \in Candidate(i)
      BY <2>1, <3>1
    <3>3. e <= j - 1
      BY <1>6, <3>2
    <3> QED  BY <2>0, <2>1, <3>3
  <2> QED  BY <1>5, <2>1, <2>2
<1> HIDE DEF Candidate
<1> DEFINE Same(k) == /\ segments[k].revision = segments[i].revision
                      /\ segments[k].track - segments[k].from = segments[i].track - segments[i].from
           A == {d \in Nat : d <= e - i => Same(i + d)}
           m == e - i
<1>10. 0 \in A
  <2>1. i + 0 = i
    BY <1>3
  <2> QED  BY <2>1
<1>11. ASSUME NEW d \in 0..(m - 1), d \in A
       PROVE  d + 1 \in A
  <2> DEFINE k == i + d
             j == i + (d + 1)
  <2>0. i \in Int /\ e \in Int /\ d \in Int /\ 0 <= d /\ d <= e - i - 1
    BY <1>3, <1>8
  <2>1. j \in (i + 1)..e /\ j - 1 = k /\ d <= e - i /\ d \in Nat
    BY <2>0
  <2>2. Same(k)
    BY <1>11, <2>1
  <2> HIDE DEF k, j
  <2>3. Joined(j) /\ j \in 2..n /\ j \in 1..n /\ k \in 1..n
    BY <1>9, <2>1
  <2>4. /\ segments[k].revision = segments[j].revision
        /\ segments[k].track + segments[k].to - segments[k].from = segments[j].track
        /\ segments[k].to = segments[j].from
    BY <1>3, <2>1, <2>3 DEF Joined, Chained, TrackEnd, n
  <2>5. segments[j].track - segments[j].from = segments[k].track - segments[k].from
    BY <1>4, <2>3, <2>4
  <2>6. Same(j)
    BY <2>2, <2>4, <2>5
  <2> QED  BY <2>1, <2>6 DEF j
<1>12. \A k \in i..e : Same(k)
  <2>1. m \in Nat
    BY <1>3, <1>8
  <2>2. \A d \in 0..(m - 1) : d \in A => d + 1 \in A
    BY <1>11
  <2>3. 0..m \subseteq A
    <3> HIDE DEF A, m
    <3> QED  BY <1>10, <2>1, <2>2, UpTo
  <2> SUFFICES ASSUME NEW k \in i..e PROVE Same(k)
    OBVIOUS
  <2>4. k - i \in 0..m /\ i + (k - i) = k /\ k - i \in Nat /\ k - i <= e - i
    BY <1>3, <1>8
  <2>5. k - i \in A
    BY <2>3, <2>4
  <2> HIDE DEF Same
  <2> QED  BY <2>4, <2>5
<1> HIDE DEF A, m
<1>13. ASSUME NEW f \in g.from..(g.to - 1)
       PROVE  \E k \in i..e : f \in segments[k].from..(segments[k].to - 1)
  <2>1. e \in 1..n /\ i \in 1..n /\ segments[i].from \in Nat /\ segments[e].to \in Nat
        /\ lo <= segments[i].from /\ segments[e].to <= hi
    BY <1>3, <1>4, <1>8
  <2>2. f \in Int /\ segments[i].from <= f /\ f < segments[e].to /\ f \in lo..(hi - 1)
    BY <1>7, <2>1
  <2>3. PICK k \in 1..n : f \in segments[k].from..(segments[k].to - 1)
    BY <2>2, ChainReaches DEF n
  <2>4. segments[k].from \in Nat /\ segments[k].to \in Nat /\ segments[k].from <= f
        /\ f < segments[k].to
    BY <1>4, <2>2, <2>3
  <2>5. ~(k < i)
    <3> SUFFICES ASSUME k < i PROVE FALSE
      OBVIOUS
    <3>1. i \in 2..n /\ i - 1 \in 1..n /\ k \in 1..(i - 1)
      BY <1>3
    <3>2. segments[i - 1].to = segments[i].from
      BY <1>3, <3>1 DEF Chained, n
    <3>3. segments[k].to <= segments[i - 1].to
      BY <1>3, <3>1, ChainOrdered DEF n
    <3> QED  BY <2>1, <2>2, <2>4, <3>2, <3>3
  <2>6. ~(k > e)
    <3> SUFFICES ASSUME k > e PROVE FALSE
      OBVIOUS
    <3> DEFINE j == e + 1
    <3>1. j \in 2..n /\ j \in 1..k /\ j - 1 = e
      BY <1>3, <1>8
    <3> HIDE DEF j
    <3>2. segments[e].to = segments[j].from
      BY <1>3, <3>1 DEF Chained, n
    <3>3. segments[j].from <= segments[k].from
      BY <1>3, <3>1, ChainOrdered DEF n
    <3> QED  BY <2>1, <2>2, <2>4, <3>2, <3>3
  <2>7. k \in i..e
    BY <1>3, <1>8, <2>5, <2>6
  <2> QED  BY <2>3, <2>7
<1>14. segments[i].titled => g.titled
  <2>1. i \in i..e
    BY <1>3, <1>8
  <2> QED  BY <1>7, <2>1
<1>15. \A f \in g.from..(g.to - 1) : \E k \in 1..n :
          /\ f \in segments[k].from..(segments[k].to - 1)
          /\ segments[k].revision = segments[i].revision
          /\ segments[k].track - segments[k].from = g.track - g.from
  <2> SUFFICES ASSUME NEW f \in g.from..(g.to - 1)
               PROVE  \E k \in 1..n :
                        /\ f \in segments[k].from..(segments[k].to - 1)
                        /\ segments[k].revision = segments[i].revision
                        /\ segments[k].track - segments[k].from = g.track - g.from
    OBVIOUS
  <2>1. PICK k \in i..e : f \in segments[k].from..(segments[k].to - 1)
    BY <1>13
  <2>2. k \in 1..n /\ Same(k)
    <3>1. k \in 1..n
      BY <1>3, <1>8
    <3> HIDE DEF Same
    <3> QED  BY <1>12, <3>1
  <2> QED  BY <1>7, <2>1, <2>2
<1> QED  BY <1>3, <1>7, <1>14, <1>15 DEF n

\* A window of frames the timeline is true of: its groups are runs of single songs, and say
\* where in them they are.
LEMMA TrueWindow ==
    ASSUME HostOK, PlayInv, Captured, right <= at
    PROVE  /\ Covers(Segments, at, Now)
           /\ \A g \in Groups(Segments) : g.titled /\ \A f \in g.from..(g.to - 1) :
                /\ FrameAt(f).song = FrameAt(g.from).song
                /\ FrameAt(f).pos = g.track + f - g.from
<1>1. /\ at \in Nat /\ Len(stream) = Window /\ Now = at + Window /\ Now \in Nat
      /\ Window \in Nat \ {0} /\ at < Now
      /\ anchors \in Seq(Anchors) /\ Sorted(anchors) /\ Annotation \in Seq(Anchors)
      /\ Sorted(Annotation)
  <2>1. at \in Nat /\ Len(stream) = Window /\ Window \in Nat \ {0} /\ Now = at + Window
        /\ anchors \in Seq(Anchors) /\ Sorted(anchors)
    BY Geometry DEF HostOK, Captured, Now
  <2> QED  BY <2>1, AnnotationOK
<1>2. right \in Nat
  BY NowIsBeforeNever DEF PlayInv, BoundsOK
<1> DEFINE list == Annotation
<1>3. ASSUME NEW f \in at..(Now - 1)
      PROVE  /\ f \in TrueFrames /\ ToldBy(list, f) # 0 /\ list[ToldBy(list, f)] = Teller(f)
             /\ Tells(Teller(f), f, FrameAt(f)) /\ FrameAt(f) \in Played
             /\ FrameAt(f) = stream[f - at + 1] /\ f - at + 1 \in 1..Len(stream)
  <2>1. f \in Int /\ at <= f /\ f <= Now /\ f < Now /\ right <= f
    BY <1>1, <1>2
  <2>2. f \in TrueFrames
    BY <1>1, <2>1 DEF TrueFrames
  <2>3. ToldBy(anchors, f) # 0 /\ Tells(Teller(f), f, FrameAt(f))
    BY <2>2 DEF PlayInv, TimelineTrue
  <2>4. at \in Int /\ Now \in Int
    BY <1>1
  <2>5. ToldBy(list, f) # 0 /\ list[ToldBy(list, f)] = anchors[ToldBy(anchors, f)]
    BY <1>1, <2>1, <2>3, <2>4, ToldByKept DEF Annotation
  <2>6. FrameAt(f) = stream[f - at + 1] /\ f - at + 1 \in 1..Len(stream)
    BY <1>1, <2>1 DEF FrameAt
  <2>7. FrameAt(f) \in Played
    BY <2>6 DEF PlayInv
  <2> QED  BY <2>2, <2>3, <2>5, <2>6, <2>7 DEF Teller
<1> HIDE DEF list
<1>4. /\ Segments \in Seq(ToldSegments(list, at, Now)) /\ Covers(Segments, at, Now)
  <2>1. \A f \in at..(Now - 1) :
            LET a == list[ToldBy(list, f)] IN
            ToldBy(list, f) # 0 /\ a.pos + f - a.frame \in 0..(a.length - 1)
    <3> SUFFICES ASSUME NEW f \in at..(Now - 1)
                 PROVE  /\ ToldBy(list, f) # 0
                        /\ list[ToldBy(list, f)].pos + f - list[ToldBy(list, f)].frame
                                \in 0..(list[ToldBy(list, f)].length - 1)
      OBVIOUS
    <3>1. /\ ToldBy(list, f) # 0 /\ list[ToldBy(list, f)] = Teller(f)
          /\ Teller(f).length = LengthOf[FrameAt(f).song]
          /\ Teller(f).pos + f - Teller(f).frame = FrameAt(f).pos
      BY <1>3 DEF Tells
    <3>2. FrameAt(f).pos \in Nat /\ FrameAt(f).pos < LengthOf[FrameAt(f).song]
          /\ LengthOf[FrameAt(f).song] \in Nat
      BY <1>3, SongsAssumption DEF Played, Heard
    <3> QED  BY <3>1, <3>2
  <2>2. list \in Seq(Anchors) /\ Sorted(list)
    BY <1>1 DEF list
  <2>3. at \in Nat /\ Now \in Nat /\ at < Now
    BY <1>1
  <2>4. /\ OutputSegments(list, at, Now) \in Seq(ToldSegments(list, at, Now))
        /\ Covers(OutputSegments(list, at, Now), at, Now)
    BY <2>1, <2>2, <2>3, SegmentsCover
  <2> QED  BY <2>4 DEF Segments, list
<1> DEFINE segments == Segments
<1>5. segments \in Seq(SegmentsIn(at, Now)) /\ Covers(segments, at, Now)
      /\ at \in Nat /\ Now \in Nat
  BY <1>1, <1>4, AnnotationOK
<1>6. ASSUME NEW k \in 1..Len(segments), NEW f \in segments[k].from..(segments[k].to - 1)
      PROVE  /\ f \in at..(Now - 1) /\ FrameAt(f).pos = segments[k].track + f - segments[k].from
             /\ Teller(f).revision = segments[k].revision /\ segments[k].titled
  <2>1. segments[k] \in ToldSegments(list, at, Now) /\ segments[k] \in SegmentsIn(at, Now)
    BY <1>4 DEF ToldSegments
  <2>2. f \in at..(Now - 1)
    BY <1>1, <2>1 DEF SegmentsIn
  <2>3. LET a == list[ToldBy(list, f)] IN
        /\ segments[k].track + f - segments[k].from = a.pos + f - a.frame
        /\ segments[k].revision = a.revision /\ segments[k].titled = a.titled
    BY <2>1 DEF ToldSegments
  <2> QED  BY <1>3, <2>2, <2>3 DEF Tells
<1> HIDE DEF segments
<1>7. ASSUME NEW g \in Groups(segments)
      PROVE  /\ g.titled
             /\ \A f \in g.from..(g.to - 1) :
                  /\ FrameAt(f).song = FrameAt(g.from).song
                  /\ FrameAt(f).pos = g.track + f - g.from
  <2>1. PICK i \in 1..Len(segments) :
              /\ g.from = segments[i].from /\ g.track = segments[i].track
              /\ segments[i].titled => g.titled
              /\ \A f \in g.from..(g.to - 1) : \E k \in 1..Len(segments) :
                    /\ f \in segments[k].from..(segments[k].to - 1)
                    /\ segments[k].revision = segments[i].revision
                    /\ segments[k].track - segments[k].from = g.track - g.from
    BY <1>5, GroupGoesOn
  <2>2. /\ segments[i].from \in Nat /\ segments[i].to \in Nat
        /\ segments[i].from < segments[i].to /\ segments[i].track \in Nat
    BY <1>5, SegmentIs
  <2>3. g.from \in segments[i].from..(segments[i].to - 1)
    BY <2>1, <2>2
  <2>4. g.titled /\ g.from \in at..(Now - 1) /\ Teller(g.from).revision = segments[i].revision
    BY <1>6, <2>1, <2>3
  <2>5. ASSUME NEW f \in g.from..(g.to - 1)
        PROVE  FrameAt(f).song = FrameAt(g.from).song /\ FrameAt(f).pos = g.track + f - g.from
    <3>1. PICK k \in 1..Len(segments) :
                    /\ f \in segments[k].from..(segments[k].to - 1)
                    /\ segments[k].revision = segments[i].revision
                    /\ segments[k].track - segments[k].from = g.track - g.from
      BY <2>1
    <3>2. /\ f \in at..(Now - 1) /\ FrameAt(f).pos = segments[k].track + f - segments[k].from
          /\ Teller(f).revision = segments[k].revision
      BY <1>6, <3>1
    <3>3. segments[k].from \in Nat /\ segments[k].track \in Nat
      BY <1>5, SegmentIs
    <3>4. FrameAt(f).pos = g.track + f - g.from
      <4>1. f \in Int /\ g.from \in Int /\ g.track \in Int
        BY <1>1, <2>1, <2>2, <3>2
      <4> DEFINE x == segments[k].track
                 y == segments[k].from
      <4>2. x \in Int /\ y \in Int /\ x - y = g.track - g.from /\ FrameAt(f).pos = x + f - y
        BY <3>1, <3>2, <3>3
      <4> HIDE DEF x, y
      <4> QED  BY <4>1, <4>2
    <3>5. FrameAt(f).song = FrameAt(g.from).song
      <4>1. f \in TrueFrames /\ g.from \in TrueFrames
        BY <1>3, <2>4, <3>2
      <4>2. Teller(f).revision = Teller(g.from).revision
        BY <2>4, <3>1, <3>2
      <4> QED  BY <4>1, <4>2 DEF PlayInv, OneSong
    <3> QED  BY <3>4, <3>5
  <2> QED  BY <2>4, <2>5
<1> QED  BY <1>4, <1>7 DEF segments

\* Of such a window whose songs are stored every group is found.
LEMMA HeldIsFound ==
    ASSUME HostOK, PlayInv, CachesOK, Captured, right <= at,
           \A f \in Range(stream) : Held(f.song)
    PROVE  Covers(Segments, at, Now) /\ Matches # {}
<1>1. /\ at \in Nat /\ Len(stream) = Window /\ Now = at + Window /\ Now \in Nat
      /\ stream \in Seq(Heard) /\ Window \in Nat /\ stream \in Seq(Played)
  BY Geometry DEF HostOK, Captured, Now, PlayInv
<1>2. /\ Covers(Segments, at, Now)
      /\ \A g \in Groups(Segments) : g.titled /\ \A f \in g.from..(g.to - 1) :
            /\ FrameAt(f).song = FrameAt(g.from).song
            /\ FrameAt(f).pos = g.track + f - g.from
  BY TrueWindow
<1>3. \A g \in Groups(Segments) :
            /\ g.from \in Nat /\ g.to \in Nat /\ g.track \in Nat
            /\ at <= g.from /\ g.from < g.to /\ g.to <= Now
  <2>1. Segments \in Seq(SegmentsIn(at, Now))
    BY AnnotationOK
  <2> QED  BY <1>1, <1>2, <2>1, GroupsReach
<1> DEFINE Finds(g, e) == e \in Candidates /\ Places(e, Pcm(g), g.track) # {}
<1>4. ASSUME NEW g \in Groups(Segments) PROVE \E e : Finds(g, e)
  <2> DEFINE song == FrameAt(g.from).song
             size == g.to - g.from
             track == g.track
             pcm == Pcm(g)
             first == g.from - at + 1
             last == g.to - at
  <2>1. /\ g.from \in Int /\ g.to \in Int /\ at \in Int /\ track \in Nat /\ Window \in Int
        /\ at <= g.from /\ g.from < g.to /\ g.to <= at + Window
    BY <1>1, <1>3
  <2>2. size \in Nat \ {0} /\ first \in Int /\ last \in Int /\ 1 <= first /\ first <= last
        /\ last <= Window /\ last - first + 1 = size
    BY <2>1
  <2>3. \A j \in 1..size : /\ g.from + j - 1 \in g.from..(g.to - 1)
                           /\ first + j - 1 \in 1..Window
                           /\ g.from + j - 1 - at + 1 = first + j - 1
                           /\ g.from + j - 1 < Now
    <3> SUFFICES ASSUME NEW j \in 1..size
                 PROVE  /\ g.from + j - 1 \in g.from..(g.to - 1)
                        /\ first + j - 1 \in 1..Window
                        /\ g.from + j - 1 - at + 1 = first + j - 1
                        /\ g.from + j - 1 < Now
      OBVIOUS
    <3>1. j \in Int /\ 1 <= j /\ j <= g.to - g.from
      BY <2>1
    <3>2. Now = at + Window
      BY <1>1
    <3> QED  BY <2>1, <3>1, <3>2
  <2>4. \A j \in 1..size : /\ stream[first + j - 1] \in Played
                           /\ stream[first + j - 1].song = song
                           /\ stream[first + j - 1].pos = track + j - 1
    <3> SUFFICES ASSUME NEW j \in 1..size
                 PROVE  /\ stream[first + j - 1] \in Played
                        /\ stream[first + j - 1].song = song
                        /\ stream[first + j - 1].pos = track + j - 1
      OBVIOUS
    <3> DEFINE f == g.from + j - 1
               i == first + j - 1
    <3>1. f \in g.from..(g.to - 1) /\ i \in 1..Window /\ f - at + 1 = i /\ f < Now
      <4>1. j \in Int /\ 1 <= j /\ j <= g.to - g.from /\ Now = at + Window
        BY <1>1, <2>1
      <4> QED  BY <2>1, <4>1
    <3>2. track + f - g.from = track + j - 1
      <4>1. j \in Int
        OBVIOUS
      <4> QED  BY <2>1, <4>1
    <3> HIDE DEF f, i
    <3>3. FrameAt(f) = stream[i]
      BY <3>1 DEF FrameAt
    <3>4. FrameAt(f).song = song /\ FrameAt(f).pos = track + f - g.from
      BY <1>2, <3>1
    <3>5. stream[i] \in Played
      BY <1>1, <3>1
    <3> QED  BY <3>2, <3>3, <3>4, <3>5 DEF i
  <2>5. /\ Len(pcm) = size /\ pcm \in Seq(Heard)
        /\ \A j \in 1..size : pcm[j] = stream[first + j - 1]
    <3>1. \A j \in first..last : j \in 1..Len(stream)
      <4> HIDE DEF first, last
      <4> QED  BY <1>1, <2>2
    <3>2. \A j \in first..last : stream[j] \in Heard
      BY <1>1, <3>1
    <3>3. pcm = SubSeq(stream, first, last)
      BY DEF Pcm
    <3> HIDE DEF first, last, pcm, size
    <3>4. /\ Len(pcm) = last - first + 1 /\ pcm \in Seq(Heard)
          /\ \A j \in 1..(last - first + 1) : pcm[j] = stream[first + j - 1]
      BY <2>2, <3>2, <3>3, SubSeqProperties
    <3> QED  BY <2>2, <3>4
  <2>6. song \in Songs /\ Held(song) /\ LengthOf[song] \in Nat /\ track + size <= LengthOf[song]
    <3>1. 1 \in 1..size /\ size \in 1..size /\ size \in Int /\ track \in Int
      <4> HIDE DEF size
      <4> QED  BY <2>1, <2>2
    <3>2. stream[first + 1 - 1].song = song /\ first + 1 - 1 \in 1..Len(stream)
      BY <1>1, <2>3, <2>4, <3>1
    <3>3. stream[first + 1 - 1] \in Range(stream)
      BY <1>1, <3>2 DEF Range
    <3>4. stream[first + size - 1] \in Played /\ stream[first + size - 1].song = song
          /\ stream[first + size - 1].pos = track + size - 1
      BY <2>4, <3>1
    <3> HIDE DEF song, size
    <3>5. track + size - 1 < LengthOf[song] /\ song \in Songs
      BY <3>4 DEF Played, Heard
    <3>6. LengthOf[song] \in Nat
      BY <3>5, SongsAssumption
    <3>7. Held(song)
      BY <3>2, <3>3
    <3> QED  BY <3>1, <3>5, <3>6, <3>7
  <2> HIDE DEF song, size
  <2>7. PICK e \in Candidates : e.source = Content(song)
    BY <2>6 DEF Held
  <2>8. e \in SongEntries(Garble)
    BY <2>7 DEF Candidates, CachesOK
  <2>9. /\ e.source \in Seq(Heard) /\ Len(e.source) = LengthOf[song] /\ e.length = LengthOf[song]
        /\ \A i \in 1..LengthOf[song] : e.source[i] = [song |-> song, pos |-> i - 1]
    <3>1. e.source \in Seq(Heard) /\ Len(e.source) = e.length
      BY <2>8 DEF SongEntries
    <3>2. Len(Content(song)) = LengthOf[song]
          /\ \A i \in 1..LengthOf[song] : Content(song)[i] = [song |-> song, pos |-> i - 1]
      BY <2>6 DEF Content
    <3> QED  BY <2>7, <3>1, <3>2
  <2> HIDE DEF first, last, pcm
  <2>10. SubSeq(e.source, track + 1, track + size) = pcm
    <3> DEFINE m == track + 1
               n == track + size
               s == SubSeq(e.source, m, n)
    <3>1. m \in Int /\ n \in Int /\ m <= n /\ n - m + 1 = size /\ size \in Nat
          /\ \A j \in m..n : j \in 1..Len(e.source)
      <4>1. m \in Int /\ n \in Int /\ 1 <= m /\ m <= n /\ n <= LengthOf[song] /\ n - m + 1 = size
        BY <2>1, <2>2, <2>6
      <4> HIDE DEF m, n
      <4> QED  BY <2>2, <2>6, <2>9, <4>1
    <3>2. \A j \in m..n : e.source[j] \in Heard
      BY <2>9, <3>1
    <3>3. /\ s \in Seq(Heard) /\ Len(s) = n - m + 1
          /\ \A j \in 1..(n - m + 1) : s[j] = e.source[m + j - 1]
      <4> HIDE DEF m, n
      <4> QED  BY <3>1, <3>2, SubSeqProperties
    <3> HIDE DEF s
    <3>4. ASSUME NEW j \in 1..size PROVE s[j] = pcm[j]
      <4>1. m + j - 1 = track + j /\ track + j \in 1..LengthOf[song]
        <5>1. j \in Int /\ 1 <= j /\ j <= size /\ track \in Int /\ 0 <= track
          BY <2>1, <2>2
        <5> QED  BY <2>2, <2>6, <5>1
      <4>2. s[j] = [song |-> song, pos |-> track + j - 1]
        <5>1. s[j] = e.source[track + j]
          BY <3>1, <3>3, <4>1
        <5> DEFINE i == track + j
        <5>2. i \in 1..LengthOf[song]
          BY <4>1
        <5> HIDE DEF i
        <5>3. e.source[i] = [song |-> song, pos |-> i - 1]
          BY <2>9, <5>2
        <5>4. s[j] = e.source[i]
          BY <5>1 DEF i
        <5>5. i - 1 = track + j - 1
          <6>1. track \in Int /\ j \in Int
            BY <2>1, <2>2
          <6> QED  BY <6>1 DEF i
        <5> HIDE DEF track
        <5> QED  BY <5>3, <5>4, <5>5
      <4>3. pcm[j] = stream[first + j - 1]
        BY <2>5
      <4> DEFINE x == stream[first + j - 1]
      <4>4. x \in Heard /\ x.song = song /\ x.pos = track + j - 1
        BY <2>4 DEF Played
      <4> HIDE DEF x
      <4>5. x = [song |-> song, pos |-> track + j - 1]
        BY <4>4 DEF Heard
      <4> QED  BY <4>2, <4>3, <4>5 DEF x
    <3>5. s = pcm
      BY <2>5, <3>1, <3>3, <3>4, SeqEqual
    <3> QED  BY <3>5 DEF s
  <2>11. track \in 0..(e.length - Len(pcm))
    BY <2>1, <2>2, <2>5, <2>6, <2>9
  <2>12. Apart(track, track) <= Radius
    BY <2>1, QuotaAssumption DEF Apart
  <2>13. track \in Places(e, pcm, track)
    BY <2>5, <2>10, <2>11, <2>12 DEF Places
  <2> QED  BY <2>7, <2>13 DEF pcm
<1> DEFINE choice == [g \in Groups(Segments) |-> CHOOSE e : Finds(g, e)]
<1>5. \A g \in Groups(Segments) : Finds(g, choice[g])
  <2> SUFFICES ASSUME NEW g \in Groups(Segments) PROVE Finds(g, choice[g])
    OBVIOUS
  <2> HIDE DEF Finds
  <2> QED  BY <1>4
<1>6. choice \in [Groups(Segments) -> Candidates] /\ DOMAIN choice = Groups(Segments)
  BY <1>5
<1> HIDE DEF choice
<1>7. choice \in Matches
  BY <1>2, <1>5, <1>6 DEF Matches
<1> QED  BY <1>2, <1>7

\* Surprises are counted.
LEMMA SurprisesCounted == surprises \in Nat /\ [Next]_vars => surprises' \in Nat
<1> SUFFICES ASSUME surprises \in Nat, [Next]_vars, surprises' # surprises PROVE Surprise
  BY DEF Surprise
<1>1. CASE PlayFrame \/ PlayUnannounced \/ PlayMistold \/ Correct \/ Skip \/ Metadata
  BY <1>1 DEF PlayFrame, PlayUnannounced, PlayMistold, Correct, Skip, Metadata
<1>2. CASE ServeSong \/ ServeWindow \/ Separate \/ FallBack
  <2>1. CASE ServeSong
    BY <2>1 DEF ServeSong
  <2>2. CASE ServeWindow
    BY <2>2 DEF ServeWindow, Assemble
  <2>3. CASE Separate
    BY <2>3 DEF Separate, Assemble
  <2>4. CASE FallBack
    BY <2>4 DEF FallBack
  <2> QED  BY <1>2, <2>1, <2>2, <2>3, <2>4
<1>3. CASE StoreSong \/ Prune \/ Count \/ StoreChunk \/ CompleteWindow \/ SweepWindows
  BY <1>3 DEF StoreSong, Prune, Count, StoreChunk, CompleteWindow, SweepWindows, DiskOnly
<1>4. CASE HostRestarts \/ Stop \/ SwitchProfile \/ Crash
  BY <1>4 DEF HostRestarts, Stop, SwitchProfile, Crash
<1>5. CASE UNCHANGED vars
  BY <1>5 DEF vars
<1> QED  BY <1>1, <1>2, <1>3, <1>4, <1>5 DEF Next

\* A window that is written is played from the cache, if the timeline is true of it and all
\* its songs are held: the segments cover it, their groups are runs of one song, and each is
\* found at the place that was announced.
LEMMA ReplayServed ==
    ServeInv /\ PlayInv /\ surprises \in Nat /\ [Next]_vars =>
        (seq' # seq /\ surprises' = surprises /\ right <= at =>
            out'.scope = "song" \/ \E f \in Range(stream) : ~Held(f.song))
<1> SUFFICES ASSUME ServeInv, PlayInv, surprises \in Nat, [Next]_vars,
                    seq' # seq, surprises' = surprises, right <= at,
                    \A f \in Range(stream) : Held(f.song)
             PROVE  out'.scope = "song"
  OBVIOUS
<1>1. HostOK /\ CachesOK
  BY DEF ServeInv
<1>2. Captured => ~NoSong(TRUE)
  BY <1>1, HeldIsFound DEF NoSong
<1>3. ~Surprise
  BY DEF Surprise
<1>4. CASE ServeSong
  BY <1>4 DEF ServeSong, Publish
<1>5. CASE ServeWindow
  BY <1>2, <1>3, <1>5 DEF ServeWindow, Assemble
<1>6. CASE Separate
  BY <1>2, <1>3, <1>6 DEF Separate, Assemble
<1>7. CASE FallBack
  BY <1>3, <1>7 DEF FallBack
<1>8. CASE PlayFrame \/ PlayUnannounced \/ PlayMistold \/ Correct \/ Skip \/ Metadata
  BY <1>8 DEF PlayFrame, PlayUnannounced, PlayMistold, Correct, Skip, Metadata
<1>9. CASE StoreSong \/ Prune \/ Count \/ StoreChunk \/ CompleteWindow \/ SweepWindows
  BY <1>9 DEF StoreSong, Prune, Count, StoreChunk, CompleteWindow, SweepWindows, DiskOnly
<1>10. CASE HostRestarts \/ Stop \/ SwitchProfile \/ Crash
  BY <1>10 DEF HostRestarts, Stop, SwitchProfile, Crash, NewHost
<1>11. CASE UNCHANGED vars
  BY <1>11 DEF vars
<1> QED  BY <1>4, <1>5, <1>6, <1>7, <1>8, <1>9, <1>10, <1>11 DEF Next

\* Songs that are stored are not separated again, at whatever phase they are played and
\* across their borders, by a restarted worker too (docs/product-audio-acceptance.md:25).
THEOREM ReplaysAreServed == Spec => ReplaysNeedNoGpu
<1> DEFINE Inv == ServeInv /\ PlayInv /\ surprises \in Nat
<1>1. Init => Inv
  BY ServeInit, PlayInit DEF Init
<1>2. Inv /\ [Next]_vars => Inv'
  <2>1. Inv /\ [Next]_vars => ServeInv' /\ HostOK /\ HostOK'
    BY ServeNext DEF ServeInv
  <2> QED  BY <2>1, PlayNext, SurprisesCounted
<1>3. Inv /\ [Next]_vars =>
        [seq' # seq /\ surprises' = surprises /\ right <= at =>
            out'.scope = "song" \/ \E f \in Range(stream) : ~Held(f.song)]_vars
  BY ReplayServed
<1> HIDE DEF Inv
<1> QED  BY <1>1, <1>2, <1>3, PTL DEF Spec, ReplaysNeedNoGpu

-----------------------------------------------------------------------------
(* Segments are the pieces of the anchors that tell the frames of a range. *)
\* A sequence of at most one element.
LEMMA OneLong ==
    ASSUME NEW S, NEW s \in Seq(S), Len(s) <= 1, s # <<>>
    PROVE  Len(s) = 1 /\ s[1] \in S /\ s = <<s[1]>>
<1>1. Len(s) \in Nat /\ Len(s) # 0
  BY LenProperties, EmptySeq
<1>2. Len(s) = 1
  BY <1>1
<1>3. s[1] \in S
  BY <1>2, ElementOfSeq
<1> DEFINE x == s[1]
           t == <<x>>
<1> HIDE DEF x
<1>4. t \in Seq(S) /\ Len(t) = 1 /\ t[1] = x
  BY <1>3 DEF x
<1> HIDE DEF t
<1>5. \A i \in 1..Len(s) : s[i] = t[i]
  BY <1>2, <1>4 DEF x
<1>6. s = t
  BY <1>2, <1>4, <1>5, SeqEqual
<1> QED  BY <1>2, <1>3, <1>6 DEF t, x

\* Of pieces of at most one element each, the flat sequence has those that are not empty, in
\* their order.
Indexes(k, flat, seqs, n) ==
    /\ k \in [1..Len(flat) -> 1..n]
    /\ \A i \in 1..Len(flat) : seqs[k[i]] = <<flat[i]>>
    /\ \A i, j \in 1..Len(flat) : i < j => k[i] < k[j]
    /\ \A i \in 1..n : seqs[i] # <<>> => \E j \in 1..Len(flat) : k[j] = i

\* The indexes exist.
LEMMA FlattenIndexed ==
    ASSUME NEW S, NEW seqs \in Seq(Seq(S)), \A i \in 1..Len(seqs) : Len(seqs[i]) <= 1
    PROVE  \E k : Indexes(k, FlattenSeq(seqs), seqs, Len(seqs))
<1> DEFINE n == Len(seqs)
<1>0. n \in Nat /\ \A i \in 1..n : seqs[i] \in Seq(S) /\ Len(seqs[i]) <= 1
  OBVIOUS
<1>1. CASE n = 0
  <2>1. FlattenSeq(seqs) = seqs /\ seqs = <<>>
    BY <1>1, EmptySeq DEF FlattenSeq
  <2>2. Indexes(<<>>, <<>>, seqs, 0)
    BY DEF Indexes
  <2> QED  BY <1>1, <2>1, <2>2
<1>2. CASE n # 0
  <2>1. PICK flat :
            /\ FlattenSeq(seqs) = flat[n] /\ flat[1] = seqs[1]
            /\ \A i \in 2..n : flat[i] = flat[i - 1] \o seqs[i]
    BY <1>2, FlattenSteps
  <2> HIDE DEF n
  <2> DEFINE P(j) == flat[j] \in Seq(S) /\ \E k : Indexes(k, flat[j], seqs, j)
             A == {d \in Nat : d < n => P(d + 1)}
             m == n - 1
  <2>2. 0 \in A
    <3>1. 1 \in 1..n
      BY <1>0, <1>2
    <3>2. flat[1] \in Seq(S) /\ Len(flat[1]) <= 1 /\ Len(flat[1]) \in Nat
      BY <1>0, <2>1, <3>1
    <3>3. CASE flat[1] = <<>>
      <4> DEFINE k == [i \in 1..0 |-> 1]
      <4>1. Len(flat[1]) = 0 /\ seqs[1] = <<>> /\ k \in [1..0 -> 1..1]
        BY <2>1, <3>3
      <4> HIDE DEF k
      <4>2. Indexes(k, flat[1], seqs, 1)
        BY <4>1 DEF Indexes
      <4> QED  BY <3>2, <4>2
    <3>4. CASE flat[1] # <<>>
      <4>1. Len(flat[1]) = 1 /\ flat[1] = <<flat[1][1]>>
        BY <3>2, <3>4, OneLong
      <4>2. Indexes([i \in 1..1 |-> 1], flat[1], seqs, 1)
        BY <2>1, <4>1 DEF Indexes
      <4> QED  BY <3>2, <4>2
    <3> QED  BY <3>3, <3>4
  <2>3. ASSUME NEW d \in 0..(m - 1), d \in A
        PROVE  d + 1 \in A
    <3> DEFINE j == d + 1
               i == d + 2
    <3>1. j \in Nat \ {0} /\ i = j + 1 /\ i \in 2..n /\ i \in 1..n /\ i - 1 = j /\ d < n
      BY <1>0
    <3>2. P(j)
      BY <2>3, <3>1
    <3> HIDE DEF j, i
    <3>3. PICK k : Indexes(k, flat[j], seqs, j)
      BY <3>2
    <3> DEFINE old == flat[j]
               new == flat[i]
               l == Len(old)
    <3>4. new = old \o seqs[i] /\ old \in Seq(S) /\ seqs[i] \in Seq(S) /\ Len(seqs[i]) <= 1
      BY <1>0, <2>1, <3>1, <3>2
    <3>5. new \in Seq(S) /\ l \in Nat
      BY <3>4, ConcatProperties
    <3>6. /\ k \in [1..l -> 1..j] /\ \A a \in 1..l : seqs[k[a]] = <<old[a]>>
          /\ \A a, b \in 1..l : a < b => k[a] < k[b]
          /\ \A a \in 1..j : seqs[a] # <<>> => \E b \in 1..l : k[b] = a
      BY <3>3 DEF Indexes
    <3>7. ASSUME seqs[i] = <<>> PROVE P(i)
      <4>1. new = old
        BY <3>4, <3>7
      <4>2. Indexes(k, new, seqs, i)
        <5> HIDE DEF new, old
        <5>1. k \in [1..l -> 1..i]
          BY <3>1, <3>6
        <5>2. \A a \in 1..i : seqs[a] # <<>> => \E b \in 1..l : k[b] = a
          <6>1. \A a \in 1..i : a # i => a \in 1..j
            BY <3>1
          <6> QED  BY <3>6, <3>7, <6>1
        <5> QED  BY <3>6, <4>1, <5>1, <5>2 DEF Indexes
      <4> QED  BY <3>5, <4>2
    <3>8. ASSUME seqs[i] # <<>> PROVE P(i)
      <4> DEFINE x == seqs[i][1]
                 h == [a \in 1..(l + 1) |-> IF a <= l THEN k[a] ELSE i]
      <4>1. seqs[i] = <<x>> /\ x \in S
        BY <3>4, <3>8
      <4> HIDE DEF x
      <4>2. Len(new) = l + 1 /\ new[l + 1] = x /\ \A a \in 1..l : new[a] = old[a]
        BY <3>4, <3>5, <4>1
      <4> HIDE DEF new, old, l
      <4>3. h \in [1..(l + 1) -> 1..i]
        <5>1. \A a \in 1..l : k[a] \in 1..i
          BY <3>1, <3>6
        <5> QED  BY <3>1, <3>5, <5>1
      <4>4. h[l + 1] = i /\ \A a \in 1..l : h[a] = k[a] /\ h[a] < i
        <5>1. \A a \in 1..l : k[a] \in 1..j
          BY <3>6
        <5> QED  BY <3>1, <3>5, <5>1
      <4>5. \A a \in 1..(l + 1) : a = l + 1 \/ a \in 1..l
        BY <3>5
      <4> HIDE DEF h
      <4>6. \A a \in 1..(l + 1) : seqs[h[a]] = <<new[a]>>
        BY <3>6, <4>1, <4>2, <4>4, <4>5
      <4>7. \A a, b \in 1..(l + 1) : a < b => h[a] < h[b]
        <5> SUFFICES ASSUME NEW a \in 1..(l + 1), NEW b \in 1..(l + 1), a < b
                     PROVE  h[a] < h[b]
          OBVIOUS
        <5>1. a \in 1..l
          BY <3>5
        <5> QED  BY <3>6, <4>4, <4>5, <5>1
      <4>8. \A a \in 1..i : seqs[a] # <<>> => \E b \in 1..(l + 1) : h[b] = a
        <5>1. \A a \in 1..i : a # i => a \in 1..j
          BY <3>1
        <5>2. \A b \in 1..l : b \in 1..(l + 1)
          BY <3>5
        <5>3. l + 1 \in 1..(l + 1)
          BY <3>5
        <5> QED  BY <3>6, <4>4, <5>1, <5>2, <5>3
      <4>9. Indexes(h, new, seqs, i)
        BY <4>2, <4>3, <4>6, <4>7, <4>8 DEF Indexes
      <4> QED  BY <3>5, <4>9 DEF new
    <3>9. P(i)
      BY <3>7, <3>8
    <3> QED  BY <3>1, <3>9 DEF j, i
  <2>4. m \in A
    <3>1. m \in Nat
      BY <1>0, <1>2
    <3> HIDE DEF A, m
    <3>2. 0..m \subseteq A
      BY <3>1, <2>2, <2>3, UpTo
    <3> QED  BY <3>1, <3>2
  <2>5. P(n)
    <3>1. m + 1 = n /\ m < n
      BY <1>0
    <3> QED  BY <2>4, <3>1
  <2> QED  BY <2>1, <2>5 DEF n
<1> QED  BY <1>1, <1>2

\* The segment of an anchor, if its song is in the range.
Pieces(a, from, to) ==
    {s \in SegmentsIn(from, to) :
        /\ s.from = from /\ s.track = a.pos + from - a.frame
        /\ s.length = a.length /\ s.revision = a.revision /\ s.rtp = a.rtp
        /\ s.titled = a.titled
        /\ TrackEnd(s) <= a.length
        /\ s.to = to \/ TrackEnd(s) = a.length}

\* _segment_for_range is the piece of an anchor, or nothing.
LEMMA PieceIs ==
    ASSUME NEW a \in Anchors, NEW from \in Nat, NEW to \in Int
    PROVE  IF from < to /\ a.pos + from - a.frame \in 0..(a.length - 1)
           THEN \E s \in Pieces(a, from, to) : Segment(a, from, to) = <<s>>
           ELSE Segment(a, from, to) = <<>>
<1> DEFINE track == a.pos + from - a.frame
           rest == from + a.length - track
           end == Min({to, rest})
           s == [from |-> from, to |-> end, track |-> track, length |-> a.length,
                 revision |-> a.revision, rtp |-> a.rtp, titled |-> a.titled]
<1>1. /\ a.frame \in Nat /\ a.pos \in Nat /\ a.length \in Nat
      /\ a.revision \in Nat /\ a.rtp \in Nat /\ a.titled \in BOOLEAN
  BY DEF Anchors
<1>2. CASE ~(from < to /\ track \in 0..(a.length - 1))
  BY <1>2 DEF Segment
<1>3. CASE from < to /\ track \in 0..(a.length - 1)
  <2>1. Segment(a, from, to) = <<s>>
    BY <1>3 DEF Segment
  <2>2. to \in Nat /\ rest \in Nat /\ rest > from /\ rest - from = a.length - track
        /\ track \in Nat
    BY <1>1, <1>3
  <2> HIDE DEF track, rest
  <2>3. end \in {to, rest} /\ end <= to /\ end <= rest
    BY <2>2, MinIsThere
  <2> HIDE DEF end
  <2>4. s.from = from /\ s.to = end /\ s.track = track /\ s.length = a.length
        /\ s.revision = a.revision /\ s.rtp = a.rtp /\ s.titled = a.titled
    OBVIOUS
  <2>5. s \in SegmentsIn(from, to)
    BY <1>1, <1>3, <2>2, <2>3 DEF SegmentsIn
  <2> HIDE DEF s
  <2>6. TrackEnd(s) = track + end - from
    BY <2>4 DEF TrackEnd
  <2>7. TrackEnd(s) <= a.length /\ (s.to = to \/ TrackEnd(s) = a.length)
    BY <1>1, <2>2, <2>3, <2>4, <2>6
  <2>8. s \in Pieces(a, from, to)
    BY <2>4, <2>5, <2>7 DEF Pieces, track
  <2> QED  BY <1>3, <2>1, <2>8 DEF track
<1> QED  BY <1>2, <1>3

\* Whom the frames [lo, hi) are told by, and where the tellers speak from and to.
Tellers(list, lo, hi) == FirstOf(list, lo)..ToldBy(list, hi - 1)
BeginsAt(list, lo, i) ==
    IF \/ i > FirstOf(list, lo)
       \/ list[i].frame > lo /\ list[i].pos < list[i].frame - lo
    THEN list[i].frame ELSE lo
EndsAt(list, hi, i) == IF i = ToldBy(list, hi - 1) THEN hi ELSE list[i + 1].frame

\* The segments of a range, each of an anchor: in the order of the anchors, as long as the
\* anchor speaks or its song lasts, and without the frames of no song.
Told(k, segments, list, lo, hi) ==
    /\ segments \in Seq(SegmentsIn(lo, hi))
    /\ k \in [1..Len(segments) -> Tellers(list, lo, hi) \cap 1..Len(list)]
    /\ \A i, j \in 1..Len(segments) : i < j => k[i] < k[j] /\ segments[i].to <= segments[j].from
    /\ \A i \in 1..Len(segments) :
        segments[i] \in Pieces(list[k[i]], BeginsAt(list, lo, k[i]), EndsAt(list, hi, k[i]))
    /\ \A f \in lo..(hi - 1) :
        LET t == ToldBy(list, f) IN
        t # 0 /\ list[t].pos + f - list[t].frame < list[t].length =>
            \E i \in 1..Len(segments) :
                k[i] = t /\ segments[i].from <= f /\ f < segments[i].to

\* Where the anchors that tell of a range begin and end in it.
LEMMA TellersAre ==
    ASSUME NEW list \in Seq(Anchors), Sorted(list), NEW lo \in Nat, NEW hi \in Nat, lo < hi,
           NEW i \in Tellers(list, lo, hi)
    PROVE  /\ i \in 1..Len(list) /\ list[i] \in Anchors /\ list[i].frame < hi
           /\ BeginsAt(list, lo, i) \in Nat /\ lo <= BeginsAt(list, lo, i)
           /\ EndsAt(list, hi, i) \in Nat /\ EndsAt(list, hi, i) <= hi
           /\ list[i].frame <= EndsAt(list, hi, i)
           /\ \A j \in Tellers(list, lo, hi) : i < j =>
                EndsAt(list, hi, i) <= BeginsAt(list, lo, j)
<1> DEFINE n == Len(list)
           first == FirstOf(list, lo)
           last == ToldBy(list, hi - 1)
           t == ToldBy(list, lo)
<1>1. n \in Nat /\ \A j \in 1..n : list[j] \in Anchors /\ list[j].frame \in Nat
  BY AnchorIs
<1>2. /\ last \in 0..n /\ (last # 0 => list[last].frame <= hi - 1)
      /\ \A j \in 1..n : j > last => list[j].frame > hi - 1
  <2> DEFINE f == hi - 1
  <2>1. f \in Int
    OBVIOUS
  <2> HIDE DEF f
  <2>2. /\ ToldBy(list, f) \in 0..Len(list)
        /\ ToldBy(list, f) # 0 => list[ToldBy(list, f)].frame <= f
        /\ \A j \in 1..Len(list) : j > ToldBy(list, f) => list[j].frame > f
    BY <2>1, ToldByIs
  <2> QED  BY <2>2 DEF f
<1>3. t \in 0..n /\ \A j \in 1..n : j > t => list[j].frame > lo
  BY ToldByIs
<1>4. first \in Nat \ {0} /\ first >= t
  BY FirstOfIs
<1>5. i \in first..last
  BY DEF Tellers
<1> HIDE DEF n, first, last, t
<1>6. i \in 1..n /\ last \in 1..n /\ i <= last /\ first <= i
  BY <1>1, <1>2, <1>4, <1>5
<1>7. \A j, m \in 1..n : j <= m => list[j].frame <= list[m].frame
  BY DEF Sorted, n
<1>8. list[i].frame < hi
  BY <1>1, <1>2, <1>6, <1>7
<1>9. BeginsAt(list, lo, i) \in Nat /\ lo <= BeginsAt(list, lo, i)
  <2>1. BeginsAt(list, lo, i) =
            IF i > first \/ (list[i].frame > lo /\ list[i].pos < list[i].frame - lo)
            THEN list[i].frame ELSE lo
    BY DEF BeginsAt, first
  <2> QED  BY <1>1, <1>3, <1>4, <1>6, <2>1
<1>10. EndsAt(list, hi, i) = IF i = last THEN hi ELSE list[i + 1].frame
  BY DEF EndsAt, last
<1>11. i # last => i + 1 \in 1..n /\ i + 1 <= last
  BY <1>1, <1>6
<1>12. /\ EndsAt(list, hi, i) \in Nat /\ EndsAt(list, hi, i) <= hi
       /\ list[i].frame <= EndsAt(list, hi, i)
  BY <1>1, <1>2, <1>6, <1>7, <1>8, <1>10, <1>11
<1>13. ASSUME NEW j \in Tellers(list, lo, hi), i < j
       PROVE  EndsAt(list, hi, i) <= BeginsAt(list, lo, j)
  <2>1. j \in 1..n /\ j <= last /\ j > first /\ i # last /\ i + 1 <= j
    BY <1>1, <1>2, <1>4, <1>6, <1>13 DEF Tellers, first, last
  <2>2. BeginsAt(list, lo, j) = list[j].frame
    BY <2>1 DEF BeginsAt, first
  <2>3. list[i + 1].frame <= list[j].frame
    BY <1>7, <1>11, <2>1
  <2> QED  BY <1>10, <2>1, <2>2, <2>3
<1> QED  BY <1>1, <1>6, <1>8, <1>9, <1>12, <1>13 DEF n

\* The segments of a range are pieces of its anchors, in their order.
LEMMA SegmentsTold ==
    ASSUME NEW list \in Seq(Anchors), Sorted(list), NEW lo \in Nat, NEW hi \in Nat, lo < hi,
           \A i \in 1..Len(list) : list[i].pos < list[i].length
    PROVE  \E k : Told(k, OutputSegments(list, lo, hi), list, lo, hi)
<1> DEFINE first == FirstOf(list, lo)
           last == ToldBy(list, hi - 1)
           n == last - first + 1
           Piece(i) == Segment(list[i], BeginsAt(list, lo, i), EndsAt(list, hi, i))
           pieces == [i \in 1..n |-> Piece(first + i - 1)]
           V == SegmentsIn(lo, hi)
           segments == OutputSegments(list, lo, hi)
<1>1. segments = FlattenSeq(pieces)
  BY DEF OutputSegments, FirstOf, BeginsAt, EndsAt
<1>2. first \in Nat \ {0} /\ last \in 0..Len(list) /\ Len(list) \in Nat
  <2>1. hi - 1 \in Int
    OBVIOUS
  <2>2. first \in Nat \ {0}
    BY FirstOfIs
  <2>3. last \in 0..Len(list)
    BY <2>1, ToldByIs
  <2> QED  BY <2>2, <2>3
<1>3. Tellers(list, lo, hi) = first..last
  BY DEF Tellers
<1>4. ASSUME NEW i \in first..last
      PROVE  LET a == list[i]
                 b == BeginsAt(list, lo, i)
                 e == EndsAt(list, hi, i)
             IN  /\ a \in Anchors /\ b \in Nat /\ lo <= b /\ e \in Nat /\ e <= hi
                 /\ IF b < e /\ a.pos + b - a.frame \in 0..(a.length - 1)
                    THEN \E s \in Pieces(a, b, e) : Piece(i) = <<s>>
                    ELSE Piece(i) = <<>>
  <2> DEFINE a == list[i]
             b == BeginsAt(list, lo, i)
             e == EndsAt(list, hi, i)
  <2>1. a \in Anchors /\ b \in Nat /\ lo <= b /\ e \in Nat /\ e <= hi
    BY <1>3, TellersAre
  <2> HIDE DEF a, b, e
  <2>2. IF b < e /\ a.pos + b - a.frame \in 0..(a.length - 1)
        THEN \E s \in Pieces(a, b, e) : Segment(a, b, e) = <<s>>
        ELSE Segment(a, b, e) = <<>>
    BY <2>1, PieceIs
  <2> QED  BY <2>1, <2>2 DEF a, b, e
<1> HIDE DEF first, last, Piece
<1>5. \A i \in first..last : Piece(i) \in Seq(V) /\ Len(Piece(i)) <= 1
  <2> SUFFICES ASSUME NEW i \in first..last
               PROVE  Piece(i) \in Seq(V) /\ Len(Piece(i)) <= 1
    OBVIOUS
  <2> DEFINE a == list[i]
             b == BeginsAt(list, lo, i)
             e == EndsAt(list, hi, i)
  <2>1. b \in Nat /\ lo <= b /\ e \in Nat /\ e <= hi
        /\ (Piece(i) = <<>> \/ \E s \in Pieces(a, b, e) : Piece(i) = <<s>>)
    BY <1>4
  <2> HIDE DEF a, b, e
  <2>2. \A s \in Pieces(a, b, e) : s \in V
    BY <2>1 DEF Pieces, SegmentsIn
  <2> HIDE DEF V
  <2>3. CASE Piece(i) = <<>>
    BY <2>3, EmptySeq
  <2>4. CASE \E s \in Pieces(a, b, e) : Piece(i) = <<s>>
    <3>1. PICK s \in V : Piece(i) = <<s>>
      BY <2>2, <2>4
    <3> QED  BY <3>1
  <2> QED  BY <2>1, <2>3, <2>4
<1> HIDE DEF V, segments
<1>6. pieces \in Seq(Seq(V)) /\ Len(pieces) = (IF n > 0 THEN n ELSE 0)
      /\ \A i \in 1..n : pieces[i] = Piece(first + i - 1) /\ first + i - 1 \in first..last
  <2>1. \A i \in 1..n : first + i - 1 \in first..last
    BY <1>2
  <2>2. CASE n \in Nat
    BY <1>5, <2>1, <2>2
  <2>3. CASE n \notin Nat
    <3>1. n \in Int /\ n < 0 /\ 1..n = 1..0
      BY <1>2, <2>3
    <3>2. pieces = <<>>
      BY <3>1
    <3> HIDE DEF pieces
    <3> QED  BY <2>1, <3>1, <3>2, EmptySeq
  <2> QED  BY <2>2, <2>3
<1>7. \A i \in 1..Len(pieces) : Len(pieces[i]) <= 1
  <2>0. n \in Int
    BY <1>2
  <2> HIDE DEF n, pieces
  <2>1. \A i \in 1..Len(pieces) : i \in 1..n
    BY <1>6, <2>0
  <2> QED  BY <1>5, <1>6, <2>1
<1> HIDE DEF pieces
<1>8. PICK h : Indexes(h, segments, pieces, Len(pieces))
  BY <1>1, <1>6, <1>7, FlattenIndexed
<1>9. segments \in Seq(V) /\ Len(segments) \in Nat
  <2>1. segments \in Seq(V)
    BY <1>1, <1>6, FlattenTyped
  <2> QED  BY <2>1
<1> DEFINE N == Len(segments)
           k == [i \in 1..N |-> first + h[i] - 1]
<1>10. /\ \A i \in 1..N : h[i] \in 1..n /\ pieces[h[i]] = <<segments[i]>>
       /\ \A i, j \in 1..N : i < j => h[i] < h[j]
       /\ \A i \in 1..n : pieces[i] # <<>> => \E j \in 1..N : h[j] = i
  <2>1. n \in Int
    BY <1>2
  <2> HIDE DEF n
  <2>2. \A i \in 1..n : i \in 1..Len(pieces)
    BY <1>6, <2>1
  <2>3. \A i \in 1..Len(pieces) : i \in 1..n
    BY <1>6, <2>1
  <2> QED  BY <1>8, <2>2, <2>3 DEF Indexes
<1> HIDE DEF N
<1>11. ASSUME NEW i \in 1..N
       PROVE  /\ k[i] \in first..last /\ k[i] \in 1..Len(list)
              /\ segments[i] \in
                    Pieces(list[k[i]], BeginsAt(list, lo, k[i]), EndsAt(list, hi, k[i]))
  <2>1. k[i] = first + h[i] - 1 /\ k[i] \in first..last /\ Piece(k[i]) = <<segments[i]>>
    BY <1>6, <1>10
  <2>2. k[i] \in 1..Len(list)
    BY <1>2, <2>1
  <2> HIDE DEF k
  <2>3. \E s \in Pieces(list[k[i]], BeginsAt(list, lo, k[i]), EndsAt(list, hi, k[i])) :
            Piece(k[i]) = <<s>>
    <3>0. \A x : <<x>> # <<>>
      OBVIOUS
    <3>1. Piece(k[i]) # <<>>
      BY <2>1, <3>0, Zenon
    <3> QED  BY <1>4, <2>1, <3>1
  <2> QED  BY <2>1, <2>2, <2>3
<1>12. ASSUME NEW i \in 1..N, NEW j \in 1..N, i < j
       PROVE  k[i] < k[j] /\ segments[i].to <= segments[j].from
  <2>1. k[i] < k[j]
    <3>1. h[i] < h[j] /\ h[i] \in Int /\ h[j] \in Int
      BY <1>10, <1>12
    <3> QED  BY <1>2, <3>1
  <2>2. k[i] \in Tellers(list, lo, hi) /\ k[j] \in Tellers(list, lo, hi)
    BY <1>3, <1>11
  <2> DEFINE x == EndsAt(list, hi, k[i])
             y == BeginsAt(list, lo, k[j])
  <2>3. x \in Nat /\ y \in Nat /\ x <= y
    BY <2>1, <2>2, TellersAre
  <2>4. segments[i].to <= x /\ segments[j].from = y /\ segments[i].to \in Nat
    BY <1>11 DEF Pieces, SegmentsIn
  <2> HIDE DEF x, y
  <2> QED  BY <2>1, <2>3, <2>4
<1>13. ASSUME NEW f \in lo..(hi - 1), ToldBy(list, f) # 0,
              list[ToldBy(list, f)].pos + f - list[ToldBy(list, f)].frame
                    < list[ToldBy(list, f)].length
       PROVE  \E i \in 1..N : k[i] = ToldBy(list, f) /\ segments[i].from <= f /\ f < segments[i].to
  <2> DEFINE t == ToldBy(list, f)
             a == list[t]
  <2>1. /\ t \in 1..Len(list) /\ a.frame <= f
        /\ \A i \in 1..Len(list) : i > t => list[i].frame > f
    <3>1. t \in 0..Len(list) /\ (t # 0 => list[t].frame <= f)
          /\ \A i \in 1..Len(list) : i > t => list[i].frame > f
      BY ToldByIs
    <3>2. t # 0
      BY <1>13
    <3> HIDE DEF t
    <3> QED  BY <1>2, <3>1, <3>2
  <2>2. first <= t
    <3> DEFINE u == ToldBy(list, lo)
    <3>1. u \in 0..Len(list) /\ (u # 0 => list[u].frame <= lo)
      BY ToldByIs
    <3>2. first = Max({1, u}) /\ Max({1, u}) \in {1, u}
      <4>1. u \in Int
        BY <3>1
      <4> HIDE DEF u
      <4>2. Max({1, u}) \in {1, u}
        <5>1. 1 \in Int
          OBVIOUS
        <5> QED  BY <4>1, <5>1, MaxOfTwo, Zenon
      <4> QED  BY <4>2 DEF first, FirstOf, u
    <3> HIDE DEF u, t
    <3>3. u <= t
      <4> SUFFICES ASSUME u > t PROVE FALSE
        BY <1>2, <2>1, <3>1
      <4>1. u \in 1..Len(list) /\ u # 0
        BY <1>2, <2>1, <3>1
      <4>2. list[u].frame > f /\ list[u].frame \in Nat
        BY <2>1, <4>1, AnchorIs
      <4> QED  BY <3>1, <4>1, <4>2
    <3> QED  BY <2>1, <3>2, <3>3
  <2>3. t <= last
    <3> DEFINE e == hi - 1
    <3>1. e \in Int /\ f <= e
      OBVIOUS
    <3> HIDE DEF e
    <3>2. \A i \in 1..Len(list) : i > ToldBy(list, e) => list[i].frame > e
      BY <3>1, ToldByIs
    <3>3. last = ToldBy(list, e)
      BY DEF last, e
    <3> HIDE DEF t
    <3> SUFFICES ASSUME t > last PROVE FALSE
      BY <1>2, <2>1
    <3>4. list[t].frame > e /\ list[t].frame \in Nat
      BY <2>1, <3>2, <3>3, AnchorIs
    <3> QED  BY <2>1, <3>1, <3>4
  <2>4. t \in first..last /\ a \in Anchors
    BY <1>2, <2>1, <2>2, <2>3, AnchorIs
  <2> DEFINE b == BeginsAt(list, lo, t)
             e == EndsAt(list, hi, t)
             track == a.pos + b - a.frame
  <2>5. /\ a.frame \in Nat /\ a.pos \in Nat /\ a.length \in Nat
        /\ a.pos + f - a.frame < a.length /\ a.pos < a.length
    BY <1>13, <2>1, <2>4 DEF Anchors
  <2>6. b = a.frame \/ (b = lo /\ (a.frame <= lo \/ a.pos >= a.frame - lo))
    <3>1. b = IF t > first \/ (a.frame > lo /\ a.pos < a.frame - lo) THEN a.frame ELSE lo
      BY DEF BeginsAt, first
    <3> HIDE DEF a, b
    <3> QED  BY <2>5, <3>1
  <2>7. f < e
    <3>1. e = IF t = last THEN hi ELSE list[t + 1].frame
      BY DEF EndsAt, last
    <3> HIDE DEF t, e
    <3>2. t # last => t + 1 \in 1..Len(list) /\ t + 1 > t
      BY <1>2, <2>1, <2>4
    <3> QED  BY <2>1, <3>1, <3>2
  <2>8. b \in Nat /\ b <= f /\ track \in 0..(a.length - 1) /\ e \in Nat /\ b < e
    <3>1. b \in Nat /\ e \in Nat
      BY <1>4, <2>4
    <3> HIDE DEF a, b, e
    <3>2. b <= f
      BY <2>1, <2>6
    <3>3. track \in 0..(a.length - 1)
      <4> DEFINE x == a.frame
                 y == a.pos
                 z == a.length
      <4>1. /\ x \in Nat /\ y \in Nat /\ z \in Nat /\ y + f - x < z /\ y < z /\ f \in Nat
            /\ x <= f /\ (b = x \/ (b = lo /\ (x <= lo \/ y >= x - lo)))
        BY <2>1, <2>5, <2>6
      <4>2. track = y + b - x
        OBVIOUS
      <4> HIDE DEF x, y, z, track
      <4>3. track \in Int /\ track >= 0 /\ track < z
        BY <3>1, <3>2, <4>1, <4>2
      <4> QED  BY <4>1, <4>3 DEF z
    <3> QED  BY <2>7, <3>1, <3>2, <3>3
  <2>9. PICK s \in Pieces(a, b, e) : Piece(t) = <<s>>
    BY <1>4, <2>4, <2>8
  <2> HIDE DEF t
  <2>10. PICK i \in 1..N : k[i] = t
    <3> DEFINE j == t - first + 1
    <3>1. j \in 1..n /\ first + j - 1 = t
      BY <1>2, <2>4
    <3> HIDE DEF j, n
    <3>2. pieces[j] = Piece(t) /\ pieces[j] # <<>>
      <4>1. pieces[j] = Piece(t)
        BY <1>6, <3>1
      <4> QED  BY <2>9, <4>1
    <3>3. PICK i \in 1..N : h[i] = j
      BY <1>10, <3>1, <3>2
    <3> QED  BY <3>1, <3>3
  <2>11. segments[i] \in Pieces(a, b, e)
    BY <1>11, <2>10
  <2> HIDE DEF a, b, e
  <2> DEFINE z == segments[i]
  <2>12. z.from = b /\ z.to \in Nat /\ (z.to = e \/ track + z.to - b = a.length)
    BY <2>11 DEF Pieces, SegmentsIn, TrackEnd
  <2> HIDE DEF z
  <2>13. f < z.to
    <3> DEFINE x == a.frame
               y == a.pos
               c == a.length
               g == z.to
    <3>1. /\ x \in Nat /\ y \in Nat /\ c \in Nat /\ y + f - x < c /\ f \in Nat
          /\ b \in Nat /\ e \in Nat /\ f < e /\ g \in Nat
          /\ (g = e \/ y + b - x + g - b = c)
      BY <2>5, <2>7, <2>8, <2>12
    <3> HIDE DEF x, y, c, g
    <3>2. f < g
      BY <3>1
    <3> QED  BY <3>2 DEF g
  <2> QED  BY <2>8, <2>10, <2>12, <2>13 DEF z, t
<1>14. k \in [1..N -> Tellers(list, lo, hi) \cap 1..Len(list)]
  BY <1>3, <1>11
<1> HIDE DEF k
<1>15. Told(k, segments, list, lo, hi)
  BY <1>9, <1>11, <1>12, <1>13, <1>14 DEF Told, N, V
<1> QED  BY <1>15 DEF segments

\* What is known of the anchors that cut a range.
Cuts(list, lo, hi) ==
    /\ list \in Seq(Anchors) /\ Sorted(list) /\ lo \in Nat /\ hi \in Nat /\ lo < hi
    /\ \A i \in 1..Len(list) : list[i].pos < list[i].length

\* What a segment has of its anchor.
LEMMA ToldIs ==
    ASSUME NEW list, NEW lo, NEW hi, Cuts(list, lo, hi), NEW k, NEW segments,
           Told(k, segments, list, lo, hi), NEW n \in 1..Len(segments)
    PROVE  LET s == segments[n]
               a == list[k[n]]
           IN  /\ Len(segments) \in Nat /\ s \in SegmentsIn(lo, hi)
               /\ s.from \in Nat /\ s.to \in Nat /\ s.track \in Nat /\ s.length \in Nat
               /\ lo <= s.from /\ s.from < s.to /\ s.to <= hi
               /\ k[n] \in 1..Len(list) /\ a \in Anchors
               /\ a.frame \in Nat /\ a.frame < hi /\ a.frame <= s.to
               /\ s.track = a.pos + s.from - a.frame /\ a.pos \in Nat
               /\ s.length = a.length /\ s.revision = a.revision /\ s.rtp = a.rtp
               /\ s.titled = a.titled /\ s.track < s.length
               /\ TrackEnd(s) = s.track + s.to - s.from /\ TrackEnd(s) <= s.length
               /\ s.to <= EndsAt(list, hi, k[n])
               /\ s.to = EndsAt(list, hi, k[n]) \/ TrackEnd(s) = s.length
               /\ s.rtp \in Nat /\ s.revision \in Nat /\ s.titled \in BOOLEAN
               /\ s.from = a.frame \/ s.from = lo
<1> DEFINE s == segments[n]
           a == list[k[n]]
           b == BeginsAt(list, lo, k[n])
           e == EndsAt(list, hi, k[n])
<1>1. list \in Seq(Anchors) /\ Sorted(list) /\ lo \in Nat /\ hi \in Nat /\ lo < hi
      /\ \A i \in 1..Len(list) : list[i].pos < list[i].length
  BY DEF Cuts
<1>2. /\ segments \in Seq(SegmentsIn(lo, hi)) /\ s \in SegmentsIn(lo, hi)
      /\ k[n] \in Tellers(list, lo, hi) /\ k[n] \in 1..Len(list) /\ s \in Pieces(a, b, e)
  BY DEF Told
<1>3. /\ a \in Anchors /\ a.frame < hi /\ a.frame <= e /\ b \in Nat /\ e \in Nat
      /\ lo <= b /\ (b = a.frame \/ b = lo)
  <2>1. b = a.frame \/ b = lo
    BY DEF BeginsAt
  <2> QED  BY <1>1, <1>2, <2>1, TellersAre
<1>4. a.frame \in Nat /\ a.pos \in Nat /\ a.length \in Nat /\ a.pos < a.length
      /\ a.rtp \in Nat /\ a.revision \in Nat /\ a.titled \in BOOLEAN
  BY <1>1, <1>2, <1>3 DEF Anchors
<1>5. Len(segments) \in Nat
  BY <1>2
<1> HIDE DEF a, b, e, s
<1>6. /\ s.from \in Nat /\ s.to \in Nat /\ s.track \in Nat /\ s.length \in Nat
      /\ lo <= s.from /\ s.from < s.to /\ s.to <= hi /\ s.to <= e
      /\ s.from = b /\ s.track = a.pos + b - a.frame
      /\ s.length = a.length /\ s.revision = a.revision /\ s.rtp = a.rtp
      /\ s.titled = a.titled
      /\ TrackEnd(s) <= a.length /\ (s.to = e \/ TrackEnd(s) = a.length)
  BY <1>2 DEF Pieces, SegmentsIn
<1>7. TrackEnd(s) = s.track + s.to - s.from
  BY DEF TrackEnd
<1>8. s.track < s.length /\ a.frame <= s.to
  <2>1. s.track < s.length
    BY <1>4, <1>6, <1>7
  <2>2. s.to = e => a.frame <= s.to
    BY <1>3
  <2>3. TrackEnd(s) = a.length => a.frame <= s.to
    <3> DEFINE x == a.frame
               y == a.pos
               z == a.length
               u == s.to
               v == s.track
               w == TrackEnd(s)
    <3>1. /\ x \in Nat /\ y \in Nat /\ z \in Nat /\ u \in Nat /\ v \in Nat /\ b \in Nat
          /\ y < z /\ v = y + b - x /\ w = v + u - b
      BY <1>3, <1>4, <1>6, <1>7
    <3> HIDE DEF x, y, z, u, v, w
    <3>2. w = z => x <= u
      BY <3>1
    <3> QED  BY <3>2 DEF x, z, u, w
  <2> QED  BY <1>6, <2>1, <2>2, <2>3
<1> QED  BY <1>2, <1>3, <1>4, <1>5, <1>6, <1>7, <1>8 DEF s, a, b, e

\* Where the segments have come to after n of them.
Reached(segments, lo, n) == IF n = 0 THEN lo ELSE segments[n].to

\* A frame of a song is in the next segment.
LEMMA ToldNext ==
    ASSUME NEW list, NEW lo, NEW hi, Cuts(list, lo, hi), NEW k, NEW segments,
           Told(k, segments, list, lo, hi), NEW n \in 0..Len(segments),
           NEW f, f = Reached(segments, lo, n), f < hi, NEW t, t = ToldBy(list, f), t # 0,
           list[t].pos + f - list[t].frame < list[t].length
    PROVE  n + 1 \in 1..Len(segments) /\ segments[n + 1].from = f /\ k[n + 1] = t
<1> DEFINE N == Len(segments)
<1>1. /\ N \in Nat /\ lo \in Nat /\ hi \in Nat
      /\ \A i \in 1..N : /\ segments[i].from \in Nat /\ segments[i].to \in Nat
                         /\ lo <= segments[i].from /\ segments[i].from < segments[i].to
  <2>1. segments \in Seq(SegmentsIn(lo, hi)) /\ lo \in Nat /\ hi \in Nat
    BY DEF Told, Cuts
  <2>2. N \in Nat
    BY <2>1
  <2> QED  BY <2>1, <2>2, SegmentIs
<1>2. \A i, j \in 1..N : i < j => segments[i].to <= segments[j].from
  BY DEF Told
<1> HIDE DEF N
<1>3. f \in lo..(hi - 1) /\ f \in Nat
  <2>1. CASE n = 0
    BY <1>1, <2>1 DEF Reached
  <2>2. CASE n # 0
    <3>1. n \in 1..N /\ f = segments[n].to
      BY <1>1, <2>2 DEF Reached, N
    <3> QED  BY <1>1, <3>1
  <2> QED  BY <2>1, <2>2
<1>4. PICK m \in 1..N : k[m] = t /\ segments[m].from <= f /\ f < segments[m].to
  BY <1>3 DEF Told, N
<1>5. m >= n + 1
  <2> SUFFICES ASSUME m <= n PROVE FALSE
    BY <1>1 DEF N
  <2>1. n \in 1..N /\ f = segments[n].to
    BY <1>1, <1>4 DEF Reached, N
  <2>2. CASE m = n
    BY <1>1, <1>4, <2>1, <2>2
  <2>3. CASE m < n
    <3>1. segments[m].to <= segments[n].from
      BY <1>2, <2>1, <2>3
    <3> QED  BY <1>1, <1>3, <1>4, <2>1, <3>1
  <2> QED  BY <1>1, <2>1, <2>2, <2>3
<1>6. n + 1 \in 1..N
  BY <1>1, <1>5 DEF N
<1>7. f <= segments[n + 1].from
  <2>1. CASE n = 0
    BY <1>1, <1>6, <2>1 DEF Reached
  <2>2. CASE n # 0
    <3>1. n \in 1..N /\ n < n + 1 /\ f = segments[n].to
      BY <1>1, <2>2 DEF Reached, N
    <3> QED  BY <1>2, <1>6, <3>1
  <2> QED  BY <2>1, <2>2
<1>8. m = n + 1
  <2> SUFFICES ASSUME m > n + 1 PROVE FALSE
    BY <1>1, <1>5, <1>6
  <2>1. segments[n + 1].to <= segments[m].from
    BY <1>2, <1>6
  <2> QED  BY <1>1, <1>3, <1>4, <1>6, <1>7, <2>1
<1>9. segments[n + 1].from = f /\ k[n + 1] = t
  BY <1>1, <1>3, <1>4, <1>6, <1>7, <1>8
<1> QED  BY <1>6, <1>9 DEF N

\* Before a gap a song is at its end.
LEMMA GapEnds ==
    ASSUME NEW list, NEW lo, NEW hi, Cuts(list, lo, hi), NEW k, NEW segments,
           Told(k, segments, list, lo, hi), NEW n \in 1..Len(segments), segments[n].to < hi,
           ~(n + 1 \in 1..Len(segments) /\ segments[n + 1].from = segments[n].to)
    PROVE  TrackEnd(segments[n]) = segments[n].length
<1> DEFINE s == segments[n]
           f == s.to
           j == k[n] + 1
           t == ToldBy(list, f)
<1>1. list \in Seq(Anchors) /\ Sorted(list)
      /\ \A i \in 1..Len(list) : list[i].pos < list[i].length
  BY DEF Cuts
<1>2. Len(list) \in Nat /\ \A i \in 1..Len(list) : /\ list[i].frame \in Nat /\ list[i].pos \in Nat
                                                   /\ list[i].length \in Nat
  BY <1>1, AnchorIs DEF Anchors
<1>3. f \in Nat /\ k[n] \in 1..Len(list) /\ (f = EndsAt(list, hi, k[n]) \/ TrackEnd(s) = s.length)
      /\ hi \in Nat /\ k[n] <= ToldBy(list, hi - 1) /\ ToldBy(list, hi - 1) \in 0..Len(list)
  <2>1. f \in Nat /\ k[n] \in 1..Len(list) /\ (f = EndsAt(list, hi, k[n]) \/ TrackEnd(s) = s.length)
    BY ToldIs
  <2>2. k[n] \in Tellers(list, lo, hi)
    BY DEF Told
  <2>3. hi \in Nat
    BY DEF Cuts
  <2>4. hi - 1 \in Int
    BY <2>3
  <2>5. ToldBy(list, hi - 1) \in 0..Len(list)
    BY <1>1, <2>4, ToldByIs
  <2> QED  BY <2>1, <2>2, <2>3, <2>5, FirstOfIs DEF Tellers
<1> SUFFICES ASSUME TrackEnd(s) # s.length PROVE FALSE
  OBVIOUS
<1>4. f = list[j].frame /\ j \in 1..Len(list)
  BY <1>2, <1>3 DEF EndsAt
<1>5. t \in 0..Len(list) /\ (t # 0 => list[t].frame <= f)
      /\ \A i \in 1..Len(list) : i > t => list[i].frame > f
  <2> HIDE DEF f
  <2>1. f \in Int
    BY <1>3
  <2>2. ToldBy(list, f) \in 0..Len(list)
        /\ (ToldBy(list, f) # 0 => list[ToldBy(list, f)].frame <= f)
        /\ \A i \in 1..Len(list) : i > ToldBy(list, f) => list[i].frame > f
    BY <1>1, <2>1, ToldByIs
  <2> QED  BY <2>2
<1> HIDE DEF t, j
<1>6. j <= t
  <2> SUFFICES ASSUME j > t PROVE FALSE
    BY <1>2, <1>4, <1>5
  <2>1. list[j].frame > f
    BY <1>4, <1>5
  <2> QED  BY <1>2, <1>4, <2>1
<1>7. t \in 1..Len(list) /\ t # 0 /\ list[j].frame <= list[t].frame
  BY <1>1, <1>2, <1>4, <1>5, <1>6 DEF Sorted
<1>8. list[t].frame = f
  BY <1>2, <1>3, <1>4, <1>5, <1>7
<1>9. list[t].pos + f - list[t].frame < list[t].length
  BY <1>1, <1>2, <1>3, <1>7, <1>8
<1>10. n \in 0..Len(segments) /\ f = Reached(segments, lo, n)
  BY DEF Reached
<1>11. n + 1 \in 1..Len(segments) /\ segments[n + 1].from = f
  <2>1. f < hi /\ t = ToldBy(list, f)
    BY DEF t
  <2> HIDE DEF f
  <2> QED  BY <1>7, <1>9, <1>10, <2>1, ToldNext
<1> QED  BY <1>11

\* The segment at the end of the range is told by who tells its last frame.
LEMMA EndTold ==
    ASSUME NEW list, NEW lo, NEW hi, Cuts(list, lo, hi), NEW k, NEW segments,
           Told(k, segments, list, lo, hi), NEW n \in 1..Len(segments), segments[n].to = hi
    PROVE  k[n] = ToldBy(list, hi - 1)
<1> DEFINE g == hi - 1
           t == ToldBy(list, g)
<1>1. list \in Seq(Anchors) /\ Sorted(list) /\ hi \in Nat /\ g \in Int
  BY DEF Cuts
<1>2. Len(list) \in Nat /\ \A i \in 1..Len(list) : list[i].frame \in Nat
  BY <1>1, AnchorIs
<1>3. k[n] \in 1..Len(list) /\ hi <= EndsAt(list, hi, k[n])
  BY ToldIs
<1>4. t \in 0..Len(list) /\ (t # 0 => list[t].frame <= g)
  <2> HIDE DEF g
  <2> QED  BY <1>1, ToldByIs
<1>5. k[n] \in Int /\ k[n] <= t
  <2>1. k[n] \in Tellers(list, lo, hi)
    BY DEF Told
  <2> QED  BY <1>2, <1>3, <1>4, <2>1 DEF Tellers
<1> HIDE DEF t
<1>6. SUFFICES ASSUME k[n] # t PROVE FALSE
  BY DEF t
<1> DEFINE j == k[n] + 1
<1>7. j \in 1..Len(list) /\ j <= t /\ t \in 1..Len(list) /\ t # 0
  BY <1>2, <1>3, <1>4, <1>5, <1>6
<1>8. list[j].frame <= list[t].frame
  BY <1>1, <1>7 DEF Sorted
<1>9. EndsAt(list, hi, k[n]) = list[j].frame
  BY <1>6 DEF EndsAt, t
<1> QED  BY <1>1, <1>2, <1>3, <1>4, <1>7, <1>8, <1>9

-----------------------------------------------------------------------------
(* The work on the segments of a hop, and what each leaves of the builder. *)
\* The work on the segments of a hop is done one segment after the other.
LEMMA WorkSteps ==
    ASSUME NEW p \in Imprints, NEW hops \in Seq(Hops(p)), NEW start \in Works(p, hops),
           NEW lo \in Nat, HopAt(hops, lo),
           NEW segments \in Seq(SegmentsIn(lo, lo + Hop))
    PROVE  LET work == WorkOn(start, segments) IN
           /\ \A n \in 0..Len(segments) : work[n] \in Works(p, hops)
           /\ work[0] = start
           /\ \A n \in 1..Len(segments) : work[n] = TakeSegment(work[n - 1], segments[n])
<1> DEFINE N == Len(segments)
           V == Works(p, hops)
           Work(f) == f = [n \in 0..N |->
                              IF n = 0 THEN start ELSE TakeSegment(f[n - 1], segments[n])]
           work == WorkOn(start, segments)
<1>1. N \in Nat /\ \A n \in 1..N : segments[n] \in SegmentsIn(lo, lo + Hop)
  OBVIOUS
<1>2. ASSUME NEW n \in 1..N, NEW w \in V
      PROVE  TakeSegment(w, segments[n]) \in V
  BY <1>1, TakeSegmentOK
<1>3. work = CHOOSE f : Work(f)
  BY DEF WorkOn
<1> HIDE DEF N, V, work
<1>4. start \in V
  BY DEF V
<1>5. PICK f : Work(f)
  <2> DEFINE step == [n \in 1..N |-> [w \in V |-> TakeSegment(w, segments[n])]]
  <2>1. step \in StepsOn(V, N)
    BY <1>2 DEF StepsOn
  <2>2. PICK g : Goes(g, start, step, V, N)
    <3> HIDE DEF step
    <3> QED  BY <1>1, <1>4, <2>1, Iterated
  <2>3. \A n \in 0..N : g[n] = IF n = 0 THEN start ELSE TakeSegment(g[n - 1], segments[n])
    <3> SUFFICES ASSUME NEW n \in 0..N
                 PROVE  g[n] = IF n = 0 THEN start ELSE TakeSegment(g[n - 1], segments[n])
      OBVIOUS
    <3>1. CASE n = 0
      BY <2>2, <3>1 DEF Goes
    <3>2. CASE n # 0
      <4>1. n \in 1..N /\ n - 1 \in 0..N
        BY <1>1, <3>2
      <4>2. g[n] = step[n][g[n - 1]] /\ g[n - 1] \in V
        BY <2>2, <4>1 DEF Goes
      <4>3. step[n][g[n - 1]] = TakeSegment(g[n - 1], segments[n])
        BY <4>1, <4>2
      <4> QED  BY <3>2, <4>2, <4>3
    <3> QED  BY <3>1, <3>2
  <2>4. g = [n \in 0..N |-> g[n]]
    BY <2>2 DEF Goes
  <2>5. Work(g)
    BY <2>3, <2>4
  <2> HIDE DEF Work
  <2> QED  BY <2>5
<1>6. Work(work)
  <2> HIDE DEF Work
  <2> QED  BY <1>3, <1>5
<1>7. ASSUME NEW n \in 0..N
      PROVE  work[n] = IF n = 0 THEN start ELSE TakeSegment(work[n - 1], segments[n])
  BY <1>6
<1> HIDE DEF Work
<1> DEFINE A == {n \in 0..N : work[n] \in V}
<1>8. 0 \in A
  BY <1>1, <1>4, <1>7
<1>9. ASSUME NEW n \in 0..(N - 1), n \in A
      PROVE  n + 1 \in A
  <2> DEFINE m == n + 1
  <2>1. m \in 1..N /\ m \in 0..N /\ m # 0 /\ m - 1 = n
    BY <1>1
  <2> HIDE DEF m
  <2>2. work[m] = TakeSegment(work[n], segments[m])
    BY <1>7, <2>1
  <2>3. work[m] \in V
    BY <1>2, <1>9, <2>1, <2>2
  <2>4. m \in A
    BY <2>1, <2>3
  <2> QED  BY <2>4 DEF m
<1>10. 0..N \subseteq A
  <2> HIDE DEF A
  <2> QED  BY <1>1, <1>8, <1>9, UpTo
<1>11. \A n \in 0..N : work[n] \in V
  BY <1>1, <1>10
<1>12. work[0] = start
  BY <1>1, <1>7
<1>13. ASSUME NEW n \in 1..N PROVE work[n] = TakeSegment(work[n - 1], segments[n])
  <2>1. n \in 0..N /\ n # 0
    BY <1>1
  <2> QED  BY <1>7, <2>1
<1> QED  BY <1>11, <1>12, <1>13 DEF work, N, V

\* The work of an assembly: what it begins with, its steps, and what it leaves.
Stales(a, from, number) == Regressed(a, from) \/ Gapped(a, number)
WorkOf(work, segments, p, past, hop, a, number, from) ==
    LET hops == Append(past, hop)
        N == Len(segments)
    IN  /\ past \in Seq(Hops(p)) /\ hop \in Hops(p) /\ hop.from = from
        /\ past = IF Stales(a, from, number) THEN <<>> ELSE a.history
        /\ \A n \in 0..N : work[n] \in Works(p, hops)
        /\ \A n \in 1..N : work[n] = TakeSegment(work[n - 1], segments[n])
        /\ ~work[0].failed
        /\ work[0].builder = IF Stales(a, from, number) THEN None ELSE a.builder
        /\ work[0].completed = IF Regressed(a, from) THEN {} ELSE a.completed
        /\ work[0].finalized = IF Regressed(a, from) /\ a.builder # None
                               THEN <<a.builder>> ELSE <<>>
\* What the work leaves.
WorkLeaves(w, segments, r, hops) ==
    /\ r.finalized = w.finalized
    /\ r.assembly.builder = IF segments = <<>> THEN None ELSE w.builder
    /\ r.assembly.completed = w.completed
    /\ r.assembly.history =
            IF w.failed THEN <<>>
            ELSE SubSeq(hops, Max({1, Len(hops) - HistoryHops + 1}), Len(hops))

\* Such work is done on a window with these anchors, and r comes of it.
WorkDone(p, a, number, from, source, list, r) ==
    LET segments == OutputSegments(list, from, from + Hop) IN
    \E work, past, hop :
        /\ WorkOf(work, segments, p, past, hop, a, number, from)
        /\ hop.source = SubSeq(source, 1, Hop)
        /\ WorkLeaves(work[Len(segments)], segments, r, Append(past, hop))

\* process works on a window so, if the crossfade goes on or is dropped.
LEMMA AssembledBy ==
    ASSUME NEW p \in Imprints, NEW a \in Assemblies(p), NEW number \in Nat, NEW from \in Nat,
           NEW source \in Seq(Heard), Len(source) = Window,
           NEW stems, stems = SeparationOf(source, p[1]),
           NEW list \in Seq(Anchors), Sorted(list),
           \/ Regressed(a, from) \/ Gapped(a, number)
           \/ Crossfades(a.tail, stems, p)
    PROVE  WorkDone(p, a, number, from, source, list,
                    Assembled(a, number, from, source, stems, list))
<1> DEFINE opened == [builder |-> a.builder, completed |-> a.completed, tail |-> a.tail,
                      history |-> a.history, finalized |-> <<>>, failed |-> FALSE]
           fresh == CASE Regressed(a, from) -> [Dropped(Finalized(opened)) EXCEPT !.completed = {}]
                      [] ~Regressed(a, from) /\ Gapped(a, number) -> Dropped(opened)
                      [] OTHER -> opened
           hop == [from |-> from, source |-> SubSeq(source, 1, Hop),
                   stems |-> Stitched(fresh.tail, stems)]
           segments == OutputSegments(list, from, from + Hop)
           start == [fresh EXCEPT !.history = Append(@, hop)]
           w == WorkOn(start, segments)[Len(segments)]
           kept == Max({1, Len(w.history) - HistoryHops + 1})
           r == Assembled(a, number, from, source, stems, list)
           builder == IF segments = <<>> THEN None ELSE w.builder
           tail == IF w.failed THEN <<>> ELSE Beyond(stems)
           history == IF w.failed THEN <<>> ELSE SubSeq(w.history, kept, Len(w.history))
<1>1. r = [assembly |-> [builder |-> builder, completed |-> w.completed, tail |-> tail,
                         history |-> history, last |-> number, start |-> from],
           finalized |-> w.finalized]
  BY Zenon DEF Assembled, WorkOn
<1>2. /\ a.builder \in Builders(p) \cup {None} /\ a.completed \in SUBSET Nat
      /\ a.tail \in Stems /\ a.history \in Seq(Hops(p))
  BY DEF Assemblies
<1>3. opened \in Works(p, a.history) /\ opened.tail = a.tail /\ ~opened.failed
      /\ opened.builder = a.builder /\ opened.completed = a.completed
      /\ opened.finalized = <<>> /\ opened.history = a.history
  BY <1>2 DEF Works
<1> HIDE DEF opened
<1> DEFINE past == IF Stales(a, from, number) THEN <<>> ELSE a.history
           done == Finalized(opened)
<1>4. /\ fresh \in Works(p, past) /\ ~fresh.failed
      /\ fresh.builder = IF Stales(a, from, number) THEN None ELSE a.builder
      /\ fresh.completed = IF Regressed(a, from) THEN {} ELSE a.completed
      /\ fresh.finalized = IF Regressed(a, from) /\ a.builder # None
                           THEN <<a.builder>> ELSE <<>>
      /\ fresh.tail = IF Stales(a, from, number) THEN <<>> ELSE a.tail
  <2>1. done \in Works(p, a.history) /\ ~done.failed
        /\ done.finalized = IF a.builder # None THEN <<a.builder>> ELSE <<>>
    <3>1. done \in Works(p, a.history)
      BY <1>3, FinalizedOK
    <3>2. CASE a.builder = None
      BY <1>3, <3>1, <3>2 DEF Finalized
    <3>3. CASE a.builder # None
      <4>1. done = [opened EXCEPT !.builder = None, !.completed = @ \cup {opened.builder.rtp},
                                  !.finalized = Append(@, opened.builder)]
        BY <1>3, <3>3 DEF Finalized
      <4>2. done.finalized = Append(<<>>, a.builder) /\ ~done.failed
        BY <1>3, <4>1 DEF Works
      <4> QED  BY <3>1, <3>3, <4>2
    <3> QED  BY <3>2, <3>3
  <2> HIDE DEF done
  <2>2. ASSUME NEW x \in Works(p, a.history)
        PROVE  /\ Dropped(x) \in Works(p, <<>>) /\ Dropped(x).builder = None
               /\ Dropped(x).completed = x.completed /\ Dropped(x).finalized = x.finalized
               /\ Dropped(x).failed = x.failed /\ Dropped(x).tail = <<>>
    BY NothingSeparated DEF Works, Dropped
  <2> DEFINE d == [Dropped(done) EXCEPT !.completed = {}]
  <2>3. /\ d \in Works(p, <<>>) /\ d.builder = None /\ d.completed = {}
        /\ d.finalized = done.finalized /\ ~d.failed /\ d.tail = <<>>
    BY <2>1, <2>2 DEF Works
  <2> HIDE DEF d
  <2>4. CASE Regressed(a, from)
    <3>1. fresh = d /\ Stales(a, from, number)
      BY <2>4 DEF d, Stales, done
    <3> HIDE DEF fresh
    <3> QED  BY <2>1, <2>3, <2>4, <3>1
  <2>5. CASE ~Regressed(a, from) /\ Gapped(a, number)
    <3>1. fresh = Dropped(opened) /\ Stales(a, from, number)
      BY <2>5 DEF Stales
    <3> HIDE DEF fresh
    <3> QED  BY <1>3, <2>2, <2>5, <3>1
  <2>6. CASE ~Regressed(a, from) /\ ~Gapped(a, number)
    <3>1. fresh = opened /\ ~Stales(a, from, number)
      BY <2>6 DEF Stales
    <3> HIDE DEF fresh
    <3> QED  BY <1>3, <2>6, <3>1
  <2> QED  BY <2>4, <2>5, <2>6
<1>5. Crossfades(fresh.tail, stems, p)
  <2>1. CASE fresh.tail = <<>>
    <3>1. Len(fresh.tail) = 0
      BY <2>1
    <3> QED  BY <3>1, Geometry DEF Crossfades
  <2> HIDE DEF fresh
  <2>2. CASE ~Stales(a, from, number)
    BY <1>4, <2>2 DEF Stales
  <2> QED  BY <1>4, <2>1, <2>2
<1>6. hop \in Hops(p)
  BY <1>5, StitchedOK
<1>7. hop.from = from /\ hop.source = SubSeq(source, 1, Hop)
  OBVIOUS
<1> HIDE DEF hop, fresh
<1>8. past \in Seq(Hops(p)) /\ fresh \in Works(p, past)
  BY <1>2, <1>4, EmptySeq
<1> DEFINE hops == Append(past, hop)
<1>9. /\ hops \in Seq(Hops(p)) /\ Len(hops) \in Nat \ {0}
      /\ hops[Len(hops)] = hop /\ start \in Works(p, hops)
      /\ ~start.failed /\ start.builder = fresh.builder /\ start.completed = fresh.completed
      /\ start.finalized = fresh.finalized
  <2> HIDE DEF past
  <2>1. hops \in Seq(Hops(p)) /\ Len(hops) = Len(past) + 1 /\ hops[Len(past) + 1] = hop
    BY <1>6, <1>8, AppendProperties
  <2>2. start \in Works(p, hops)
      /\ ~start.failed /\ start.builder = fresh.builder /\ start.completed = fresh.completed
      /\ start.finalized = fresh.finalized
    BY <1>4, <1>8 DEF Works
  <2>3. Len(past) \in Nat
    BY <1>8
  <2> QED  BY <2>1, <2>2, <2>3
<1> HIDE DEF hops, start
<1>10. HopAt(hops, from)
  <2>1. hops # <<>> /\ Last(hops) = hop
    BY <1>9 DEF Last
  <2> QED  BY <1>7, <2>1 DEF HopAt
<1>11. segments \in Seq(SegmentsIn(from, from + Hop))
  <2>1. from + Hop \in Nat
    BY Geometry
  <2> QED  BY <2>1, SegmentsInside
<1> DEFINE work == WorkOn(start, segments)
<1> HIDE DEF segments
<1>12. /\ \A n \in 0..Len(segments) : work[n] \in Works(p, hops)
       /\ work[0] = start
       /\ \A n \in 1..Len(segments) : work[n] = TakeSegment(work[n - 1], segments[n])
  <2>1. hops \in Seq(Hops(p)) /\ start \in Works(p, hops)
    BY <1>9
  <2> QED  BY <1>10, <1>11, <2>1, WorkSteps, Zenon
<1>13. w = work[Len(segments)] /\ Len(segments) \in 0..Len(segments)
  BY <1>11
<1> HIDE DEF work, w
<1>14. w.history = hops
  BY <1>12, <1>13 DEF Works
<1> HIDE DEF r, past
<1>15. WorkOf(work, segments, p, past, hop, a, number, from)
  BY <1>4, <1>6, <1>7, <1>8, <1>9, <1>12 DEF WorkOf, hops, past
<1>16. WorkLeaves(w, segments, r, hops)
  <2>1. /\ r.finalized = w.finalized /\ r.assembly.builder = builder
        /\ r.assembly.completed = w.completed /\ r.assembly.history = history
    BY <1>1
  <2> QED  BY <1>14, <2>1 DEF WorkLeaves
<1>17. WorkDone(p, a, number, from, source, list, r)
  BY <1>7, <1>13, <1>15, <1>16 DEF WorkDone, segments, hops
<1> QED  BY <1>17 DEF r

\* No builder is the lack of one.
LEMMA NoBuilder ==
    ASSUME NEW p \in Imprints
    PROVE  None \notin Builders(p)
<1>1. \A b \in Builders(p) :
        b \in [rtp : Nat, revision : Nat, length : Nat, first : Int, trackEnd : Int,
               streamEnd : Int, source : Seq(Heard),
               stems : Seq((Heard \X Profiles) \cup {Garbled})]
  BY DEF Builders, Stems
<1> QED  BY <1>1, NoBuilderAssumption DEF Heard

\* The builder c is b and the frames of segment s.
Grown(c, b, s, hops) ==
    /\ c.rtp = b.rtp /\ c.revision = s.revision /\ c.length = b.length /\ c.first = b.first
    /\ c.trackEnd = TrackEnd(s) /\ c.streamEnd = s.to
    /\ c.source = b.source \o Slice(<<Last(hops)>>, "source", s.from, s.to)
    /\ Len(c.source) = Len(b.source) + s.to - s.from

\* The work t after w, whose builder was b, when s is appended.
Extended(t, w, b, s, p, hops) ==
    IF s.from # b.streamEnd
    THEN /\ t.failed /\ t.builder = None
         /\ t.completed = w.completed /\ t.finalized = w.finalized
    ELSE /\ ~t.failed
         /\ \E c \in Builders(p) :
                /\ Grown(c, b, s, hops)
                /\ IF Len(c.source) >= c.length
                   THEN /\ t.builder = None
                        /\ t.completed = w.completed \cup {c.rtp}
                        /\ t.finalized = Append(w.finalized, c)
                   ELSE /\ t.builder = c
                        /\ t.completed = w.completed /\ t.finalized = w.finalized

\* _append_segment extends a builder, or fails.
LEMMA AppendedIs ==
    ASSUME NEW p \in Imprints, NEW hops \in Seq(Hops(p)), NEW w \in Works(p, hops),
           w.builder \in Builders(p), ~w.failed,
           NEW lo \in Nat, HopAt(hops, lo),
           NEW s \in SegmentsIn(lo, lo + Hop)
    PROVE  Extended(Appended(w, s), w, w.builder, s, p, hops)
<1> DEFINE b == w.builder
           current == <<Last(hops)>>
           x == Slice(current, "source", s.from, s.to)
           y == Slice(current, "stems", s.from, s.to)
           longer == [b EXCEPT !.source = @ \o x, !.stems = @ \o y,
                               !.streamEnd = s.to, !.trackEnd = TrackEnd(s),
                               !.revision = s.revision]
           v == [w EXCEPT !.builder = longer]
           t == Appended(w, s)
<1>1. /\ s.revision \in Nat /\ s.from \in Nat /\ s.to \in Nat /\ s.track \in Nat
      /\ lo <= s.from /\ s.from < s.to /\ s.to <= lo + Hop
  BY DEF SegmentsIn
<1>2. w.history = hops
  BY DEF Works
<1>3. x \in Seq(Heard) /\ y \in Stems /\ Separates(y, x, p) /\ Len(x) = s.to - s.from
  <2>1. s.from \in Int /\ s.to \in Int /\ s.from <= s.to
    BY <1>1
  <2>2. /\ current \in Seq(Hops(p))
        /\ \A f \in s.from..(s.to - 1) : \E k \in DOMAIN current : Within(f, current[k])
    BY <1>1, <2>1, HopAtHand
  <2> HIDE DEF current
  <2>3. x \in Seq(Heard) /\ y \in Stems /\ Separates(y, x, p)
    BY <2>1, <2>2, SliceOK
  <2>4. s.to - s.from \in Nat
    BY <1>1
  <2>5. Len(x) = s.to - s.from
    BY <2>4 DEF Slice
  <2> QED  BY <2>3, <2>5
<1>4. t = CASE s.from # b.streamEnd -> Failed(w)
            [] s.from = b.streamEnd /\ Len(longer.source) >= b.length -> Finalized(v)
            [] OTHER -> v
  BY <1>2 DEF Appended
<1> HIDE DEF current, x, y, t
<1>5. longer \in Builders(p) /\ Grown(longer, b, s, hops)
  <2>1. /\ b.source \in Seq(Heard) /\ b.stems \in Stems /\ Separates(b.stems, b.source, p)
        /\ b \in [rtp : Nat, revision : Nat, length : Nat, first : Int, trackEnd : Int,
                  streamEnd : Int, source : Seq(Heard), stems : Stems]
    BY DEF Builders
  <2> DEFINE source == b.source \o x
             stems == b.stems \o y
             end == TrackEnd(s)
  <2>2. source \in Seq(Heard) /\ stems \in Stems /\ Separates(stems, source, p)
        /\ Len(source) = Len(b.source) + s.to - s.from
    <3>1. source \in Seq(Heard) /\ stems \in Stems /\ Separates(stems, source, p)
      BY <1>3, <2>1, SeparatesBoth
    <3>3. Len(source) = Len(b.source) + Len(x) /\ Len(b.source) \in Nat /\ Len(x) \in Nat
      BY <1>3, <2>1, ConcatProperties, LenProperties
    <3>4. Len(b.source) + Len(x) = Len(b.source) + s.to - s.from
      BY <1>1, <1>3, <3>3
    <3> HIDE DEF source, stems
    <3> QED  BY <3>1, <3>3, <3>4
  <2>3. end \in Int
    BY <1>1 DEF TrackEnd
  <2> HIDE DEF source, stems, end
  <2>4. longer = [b EXCEPT !.source = source, !.stems = stems, !.streamEnd = s.to,
                           !.trackEnd = end, !.revision = s.revision]
    BY <2>1 DEF source, stems, end
  <2>5. longer = [rtp |-> b.rtp, revision |-> s.revision, length |-> b.length,
                  first |-> b.first, trackEnd |-> end, streamEnd |-> s.to,
                  source |-> source, stems |-> stems]
    <3>1. b = [rtp |-> b.rtp, revision |-> b.revision, length |-> b.length,
               first |-> b.first, trackEnd |-> b.trackEnd, streamEnd |-> b.streamEnd,
               source |-> b.source, stems |-> b.stems]
      BY <2>1
    <3> HIDE DEF longer, b
    <3> QED  BY <2>4, <3>1
  <2> HIDE DEF longer
  <2>6. longer \in Builders(p)
    BY <1>1, <2>1, <2>2, <2>3, <2>5 DEF Builders
  <2>7. Grown(longer, b, s, hops)
    BY <2>2, <2>5 DEF Grown, end, source, x, current
  <2> QED  BY <2>6, <2>7
<1> HIDE DEF longer
<1>6. v \in Works(p, hops) /\ v.builder = longer /\ v.failed = w.failed
      /\ v.completed = w.completed /\ v.finalized = w.finalized
  BY <1>5 DEF Works
<1> HIDE DEF v
<1>7. longer # None
  BY <1>5, NoBuilder
<1>8. CASE s.from # b.streamEnd
  <2>1. t = Failed(w)
    BY <1>4, <1>8
  <2>2. /\ t.failed /\ t.builder = None
        /\ t.completed = w.completed /\ t.finalized = w.finalized
    BY <2>1 DEF Works, Failed
  <2> QED  BY <1>8, <2>2 DEF Extended, t
<1>9. CASE s.from = b.streamEnd /\ Len(longer.source) >= b.length
  <2>1. t = [v EXCEPT !.builder = None, !.completed = @ \cup {v.builder.rtp},
                      !.finalized = Append(@, v.builder)]
    BY <1>4, <1>6, <1>7, <1>9 DEF Finalized
  <2>2. /\ t.builder = None /\ t.failed = w.failed /\ t.completed = w.completed \cup {longer.rtp}
        /\ t.finalized = Append(w.finalized, longer)
    BY <1>6, <2>1 DEF Works
  <2>3. longer.length = b.length
    BY <1>5 DEF Grown
  <2> QED  BY <1>5, <1>9, <2>2, <2>3 DEF Extended, t
<1>10. CASE s.from = b.streamEnd /\ ~(Len(longer.source) >= b.length)
  <2>1. t = v
    BY <1>4, <1>10
  <2>2. longer.length = b.length
    BY <1>5 DEF Grown
  <2> QED  BY <1>5, <1>6, <1>10, <2>1, <2>2 DEF Extended, t
<1> QED  BY <1>8, <1>9, <1>10 DEF t

\* What a new builder starts with.
Fresh(b, s) ==
    /\ b.rtp = s.rtp /\ b.revision = s.revision /\ b.length = s.length
    /\ b.trackEnd = s.track /\ b.streamEnd = s.from

\* A new builder starts with what the history has of the song before the segment.
LEMMA NewBuilderIs ==
    ASSUME NEW w, NEW s
    PROVE  LET b == NewBuilder(w, s) IN
           /\ Fresh(b, s)
           /\ IF Remembered(w.history, s.from - s.track, s.from)
              THEN /\ b.first = 0
                   /\ b.source = Slice(w.history, "source", s.from - s.track, s.from)
              ELSE b.first = s.track /\ b.source = <<>>
<1> DEFINE new == [rtp |-> s.rtp, revision |-> s.revision, length |-> s.length,
                   first |-> s.track, trackEnd |-> s.track, streamEnd |-> s.from,
                   source |-> <<>>, stems |-> <<>>]
           from == s.from - s.track
           b == NewBuilder(w, s)
<1>1. CASE Remembered(w.history, from, s.from)
  <2>1. b = [new EXCEPT !.first = 0,
                        !.source = Slice(w.history, "source", from, s.from),
                        !.stems = Slice(w.history, "stems", from, s.from)]
    BY <1>1 DEF NewBuilder
  <2> DEFINE x == Slice(w.history, "source", from, s.from)
             y == Slice(w.history, "stems", from, s.from)
  <2> HIDE DEF x, y
  <2>2. b = [rtp |-> s.rtp, revision |-> s.revision, length |-> s.length,
             first |-> 0, trackEnd |-> s.track, streamEnd |-> s.from,
             source |-> x, stems |-> y]
    BY <2>1 DEF x, y
  <2> QED  BY <1>1, <2>2 DEF Fresh, x
<1>2. CASE ~Remembered(w.history, from, s.from)
  <2>1. b = new
    BY <1>2 DEF NewBuilder
  <2> QED  BY <1>2, <2>1 DEF Fresh
<1> QED  BY <1>1, <1>2

\* The builder at hand.
Same(w, s) == w.builder # None /\ w.builder.rtp = s.rtp
\* The builder at hand is finished.
Closed(w, v, p) ==
    IF w.builder = None THEN v.completed = w.completed /\ v.finalized = w.finalized
    ELSE /\ w.builder \in Builders(p)
         /\ v.completed = w.completed \cup {w.builder.rtp}
         /\ v.finalized = Append(w.finalized, w.builder)

\* The ways a segment is taken.
Taken(t, w, s, p, hops) ==
    \/ w.failed /\ t = w
    \/ ~w.failed /\ ~s.titled /\ t.failed /\ t.builder = None
       /\ t.completed = w.completed /\ t.finalized = w.finalized
    \/ /\ ~w.failed /\ s.titled /\ Same(w, s) /\ Continues(w.builder, s)
       /\ w.builder \in Builders(p)
       /\ Extended(t, w, w.builder, s, p, hops)
    \/ /\ ~w.failed /\ s.titled /\ ~(Same(w, s) /\ Continues(w.builder, s))
       /\ \E v \in Works(p, hops) :
            /\ ~v.failed /\ v.builder = None
            /\ IF Same(w, s)
               THEN v.completed = {} /\ v.finalized = Append(w.finalized, w.builder)
                    /\ w.builder \in Builders(p)
               ELSE Closed(w, v, p)
            /\ IF s.rtp \in v.completed THEN t = v
               ELSE /\ NewBuilder(v, s) \in Builders(p)
                    /\ Extended(t, v, NewBuilder(v, s), s, p, hops)

\* A segment is taken in one of these ways.
LEMMA TakenBy ==
    ASSUME NEW p \in Imprints, NEW hops \in Seq(Hops(p)), NEW w \in Works(p, hops),
           NEW lo \in Nat, HopAt(hops, lo), NEW s \in SegmentsIn(lo, lo + Hop)
    PROVE  Taken(TakeSegment(w, s), w, s, p, hops)
<1> DEFINE same == w.builder # None /\ w.builder.rtp = s.rtp
           done == Finalized(w)
           forgot == [done EXCEPT !.completed = {}]
           v == CASE same /\ Continues(w.builder, s) -> w
                  [] same /\ ~Continues(w.builder, s) -> forgot
                  [] OTHER -> done
           u == [v EXCEPT !.builder = NewBuilder(v, s)]
           t == TakeSegment(w, s)
<1>1. done \in Works(p, hops) /\ done.builder = None
  BY FinalizedOK
<1>2. Closed(w, done, p) /\ done.failed = w.failed
  <2>1. CASE w.builder = None
    BY <2>1 DEF Finalized, Closed
  <2>2. CASE w.builder # None
    <3>1. done = [w EXCEPT !.builder = None, !.completed = @ \cup {w.builder.rtp},
                           !.finalized = Append(@, w.builder)]
      BY <2>2 DEF Finalized
    <3>2. w.builder \in Builders(p)
      BY <2>2 DEF Works
    <3>3. done.completed = w.completed \cup {w.builder.rtp} /\ done.failed = w.failed
          /\ done.finalized = Append(w.finalized, w.builder)
      BY <3>1 DEF Works
    <3> QED  BY <2>2, <3>2, <3>3 DEF Closed
  <2> QED  BY <2>1, <2>2
<1> HIDE DEF done
<1>3. /\ forgot \in Works(p, hops) /\ forgot.completed = {} /\ forgot.builder = None
      /\ forgot.failed = w.failed /\ forgot.finalized = done.finalized
  BY <1>1, <1>2 DEF Works
<1> HIDE DEF forgot
<1>4. v \in Works(p, hops)
  BY <1>1, <1>3
<1>5. t =
        CASE w.failed -> w
          [] ~w.failed /\ ~s.titled -> Failed(w)
          [] ~w.failed /\ s.titled /\ v.builder # None -> Appended(v, s)
          [] ~w.failed /\ s.titled /\ v.builder = None ->
                IF s.rtp \in v.completed THEN v ELSE Appended(u, s)
  BY DEF TakeSegment, done, forgot
<1>6. w.failed \in BOOLEAN /\ s.titled \in BOOLEAN
  BY DEF Works, SegmentsIn
<1> HIDE DEF t
<1>7. CASE w.failed
  BY <1>5, <1>7 DEF Taken, t
<1>8. CASE ~w.failed /\ ~s.titled
  <2>1. t = Failed(w)
    BY <1>5, <1>8
  <2> QED  BY <1>8, <2>1 DEF Taken, t, Failed, Works
<1>9. CASE ~w.failed /\ s.titled /\ Same(w, s) /\ Continues(w.builder, s)
  <2>1. v = w /\ w.builder # None
    BY <1>9 DEF Same
  <2>2. w.builder \in Builders(p)
    BY <2>1 DEF Works
  <2>3. t = Appended(w, s)
    BY <1>5, <1>9, <2>1
  <2>4. Extended(t, w, w.builder, s, p, hops)
    BY <1>9, <2>2, <2>3, AppendedIs
  <2> QED  BY <1>9, <2>2, <2>4 DEF Taken, t
<1>10. CASE ~w.failed /\ s.titled /\ ~(Same(w, s) /\ Continues(w.builder, s))
  <2>1. v.builder = None /\ ~v.failed
        /\ IF Same(w, s)
           THEN v.completed = {} /\ v.finalized = Append(w.finalized, w.builder)
                /\ w.builder \in Builders(p)
           ELSE Closed(w, v, p)
    <3>1. CASE Same(w, s)
      <4>1. v = forgot
        BY <1>10, <3>1 DEF Same
      <4>2. w.builder \in Builders(p) /\ done.finalized = Append(w.finalized, w.builder)
        BY <1>2, <3>1 DEF Closed, Same
      <4> QED  BY <1>3, <1>10, <3>1, <4>1, <4>2
    <3>2. CASE ~Same(w, s)
      <4>1. v = done
        BY <3>2 DEF Same
      <4> QED  BY <1>1, <1>2, <1>10, <3>2, <4>1
    <3> QED  BY <3>1, <3>2
  <2> HIDE DEF v
  <2>2. t = IF s.rtp \in v.completed THEN v ELSE Appended(u, s)
    BY <1>5, <1>10, <2>1
  <2>3. NewBuilder(v, s) \in Builders(p)
    <3>1. lo + Hop \in Nat
      BY Geometry
    <3> QED  BY <1>4, <3>1, NewBuilderOK
  <2>4. u \in Works(p, hops) /\ u.builder = NewBuilder(v, s) /\ ~u.failed
        /\ u.completed = v.completed /\ u.finalized = v.finalized
    BY <1>4, <2>1, <2>3 DEF Works
  <2> HIDE DEF u
  <2>5. Extended(Appended(u, s), u, u.builder, s, p, hops)
    BY <2>3, <2>4, AppendedIs
  <2>6. Extended(Appended(u, s), v, NewBuilder(v, s), s, p, hops)
    BY <2>4, <2>5 DEF Extended
  <2>7. CASE s.rtp \in v.completed
    BY <1>4, <1>10, <2>1, <2>2, <2>7 DEF Taken, t
  <2>8. CASE s.rtp \notin v.completed
    <3>1. Extended(t, v, NewBuilder(v, s), s, p, hops)
      BY <2>2, <2>6, <2>8
    <3> QED  BY <1>4, <1>10, <2>1, <2>3, <2>8, <3>1 DEF Taken, t
  <2> QED  BY <2>7, <2>8
<1> QED  BY <1>6, <1>7, <1>8, <1>9, <1>10 DEF t

\* The work on the segments of a hop.
LoopOf(work, k, segments, list, lo, hops, p) ==
    /\ p \in Imprints /\ hops \in Seq(Hops(p)) /\ HopAt(hops, lo)
    /\ Cuts(list, lo, lo + Hop) /\ Told(k, segments, list, lo, lo + Hop)
    /\ \A n \in 0..Len(segments) : work[n] \in Works(p, hops)
    /\ \A n \in 1..Len(segments) : work[n] = TakeSegment(work[n - 1], segments[n])

\* One turn of the loop.
LEMMA LoopStep ==
    ASSUME NEW work, NEW k, NEW segments, NEW list, NEW lo, NEW hops, NEW p,
           LoopOf(work, k, segments, list, lo, hops, p)
    PROVE  /\ Len(segments) \in Nat
           /\ \A n \in 1..Len(segments) :
                /\ n - 1 \in 0..Len(segments)
                /\ work[n] \in Works(p, hops) /\ work[n - 1] \in Works(p, hops)
                /\ segments[n] \in SegmentsIn(lo, lo + Hop)
                /\ Taken(work[n], work[n - 1], segments[n], p, hops)
<1>1. Len(segments) \in Nat /\ segments \in Seq(SegmentsIn(lo, lo + Hop)) /\ lo \in Nat
  <2>1. segments \in Seq(SegmentsIn(lo, lo + Hop)) /\ lo \in Nat
    BY DEF LoopOf, Told, Cuts
  <2> QED  BY <2>1
<1>2. ASSUME NEW n \in 1..Len(segments)
      PROVE  /\ n - 1 \in 0..Len(segments)
             /\ work[n] \in Works(p, hops) /\ work[n - 1] \in Works(p, hops)
             /\ segments[n] \in SegmentsIn(lo, lo + Hop)
             /\ Taken(work[n], work[n - 1], segments[n], p, hops)
  <2>1. n - 1 \in 0..Len(segments) /\ n \in 0..Len(segments)
    BY <1>1
  <2>2. work[n] \in Works(p, hops) /\ work[n - 1] \in Works(p, hops)
    BY <2>1 DEF LoopOf
  <2>3. segments[n] \in SegmentsIn(lo, lo + Hop)
    BY <1>1
  <2>4. work[n] = TakeSegment(work[n - 1], segments[n])
    BY DEF LoopOf
  <2> DEFINE w == work[n - 1]
             s == segments[n]
  <2>5. p \in Imprints /\ hops \in Seq(Hops(p)) /\ HopAt(hops, lo)
    BY DEF LoopOf
  <2> HIDE DEF w, s
  <2>6. Taken(TakeSegment(w, s), w, s, p, hops)
    <3>1. w \in Works(p, hops) /\ s \in SegmentsIn(lo, lo + Hop)
      BY <2>2, <2>3 DEF w, s
    <3> QED  BY <1>1, <2>5, <3>1, TakenBy
  <2> QED  BY <2>1, <2>2, <2>3, <2>4, <2>6 DEF w, s
<1> QED  BY <1>1, <1>2

\* What holds at the start and is kept by every step holds at the end.
LEMMA LoopInduction ==
    ASSUME NEW N \in Nat, NEW A, 0 \in A, \A n \in 1..N : n - 1 \in A => n \in A
    PROVE  0..N \subseteq A
<1>1. ASSUME NEW n \in 0..(N - 1), n \in A
      PROVE  n + 1 \in A
  <2> DEFINE m == n + 1
  <2>1. m \in 1..N /\ m - 1 = n
    OBVIOUS
  <2> HIDE DEF m
  <2>2. m \in A
    BY <1>1, <2>1
  <2> QED  BY <2>2 DEF m
<1> QED  BY <1>1, UpTo

\* A builder has come as far as the last segment, and is not complete.
Follows(b, s) ==
    /\ b.rtp = s.rtp /\ b.revision = s.revision
    /\ b.trackEnd = TrackEnd(s) /\ b.streamEnd = s.to /\ Len(b.source) < b.length

\* A builder that took a segment ends where the segment does.
LEMMA ExtendedFollows ==
    ASSUME NEW t, NEW v, NEW b, NEW s, NEW p \in Imprints, NEW hops,
           Extended(t, v, b, s, p, hops), b.rtp = s.rtp
    PROVE  /\ t.failed => t.builder = None
           /\ t.builder # None => Follows(t.builder, s)
<1>1. CASE s.from # b.streamEnd
  BY <1>1 DEF Extended
<1>2. CASE s.from = b.streamEnd
  <2>1. ~t.failed
    BY <1>2 DEF Extended
  <2>2. PICK c \in Builders(p) :
            /\ Grown(c, b, s, hops)
            /\ IF Len(c.source) >= c.length
               THEN t.builder = None
               ELSE t.builder = c
    BY <1>2 DEF Extended
  <2>3. Len(c.source) \in Nat /\ c.length \in Nat
    <3>1. c.source \in Seq(Heard) /\ c.length \in Nat
      BY DEF Builders
    <3> QED  BY <3>1, LenProperties
  <2>4. ~(Len(c.source) >= c.length) => Len(c.source) < c.length
    BY <2>3
  <2> QED  BY <2>1, <2>2, <2>4 DEF Grown, Follows
<1> QED  BY <1>1, <1>2

\* So after each turn, unless the loop has failed.
LEMMA LoopFollows ==
    ASSUME NEW work, NEW k, NEW segments, NEW list, NEW lo, NEW hops, NEW p,
           LoopOf(work, k, segments, list, lo, hops, p), ~work[0].failed
    PROVE  \A n \in 1..Len(segments) :
                /\ work[n].failed => work[n].builder = None
                /\ work[n].builder # None => Follows(work[n].builder, segments[n])
<1> DEFINE N == Len(segments)
           P(n) == /\ work[n].failed => work[n].builder = None
                   /\ n # 0 /\ work[n].builder # None => Follows(work[n].builder, segments[n])
           A == {n \in 0..N : P(n)}
<1>1. N \in Nat /\ p \in Imprints
  BY LoopStep DEF LoopOf
<1>2. 0 \in A
  BY <1>1
<1>3. ASSUME NEW n \in 1..N, n - 1 \in A
      PROVE  n \in A
  <2> DEFINE w == work[n - 1]
             t == work[n]
             s == segments[n]
  <2>1. Taken(t, w, s, p, hops)
    BY LoopStep
  <2>2. w.failed => w.builder = None
    BY <1>3
  <2> HIDE DEF w, t, s, N
  <2>3. (t.failed => t.builder = None) /\ (t.builder # None => Follows(t.builder, s))
    <3>1. CASE w.failed /\ t = w
      BY <2>2, <3>1
    <3>2. CASE t.failed /\ t.builder = None
      BY <3>2
    <3>3. CASE Same(w, s) /\ Extended(t, w, w.builder, s, p, hops)
      BY <1>1, <3>3, ExtendedFollows DEF Same
    <3>4. CASE \E v \in Works(p, hops) :
                    ~v.failed /\ v.builder = None
                    /\ (t = v \/ Extended(t, v, NewBuilder(v, s), s, p, hops))
      <4>1. PICK v \in Works(p, hops) :
                    ~v.failed /\ v.builder = None
                    /\ (t = v \/ Extended(t, v, NewBuilder(v, s), s, p, hops))
        BY <3>4
      <4>2. CASE t = v
        BY <4>1, <4>2
      <4>3. CASE Extended(t, v, NewBuilder(v, s), s, p, hops)
        <5>1. NewBuilder(v, s).rtp = s.rtp
          BY NewBuilderIs DEF Fresh
        <5> QED  BY <1>1, <4>3, <5>1, ExtendedFollows
      <4> QED  BY <4>1, <4>2, <4>3
    <3> QED  BY <2>1, <3>1, <3>2, <3>3, <3>4 DEF Taken
  <2> QED  BY <2>3 DEF w, t, s, N
<1>4. 0..N \subseteq A
  <2> HIDE DEF A, N
  <2> QED  BY <1>1, <1>2, <1>3, LoopInduction
<1>5. \A n \in 1..N : n \in 0..N /\ n # 0
  BY <1>1
<1> QED  BY <1>4, <1>5

\* What is finalized stays so.
Longer(g, f) == \A j \in 1..Len(f) : j \in 1..Len(g) /\ g[j] = f[j]

\* A sequence is shorter than one with an element appended.
LEMMA LongerOnce ==
    ASSUME NEW S, NEW f \in Seq(S), NEW x \in S
    PROVE  Longer(f, f) /\ Longer(Append(f, x), f)
           /\ Len(f) + 1 \in 1..Len(Append(f, x)) /\ Append(f, x)[Len(f) + 1] = x
           /\ \A j \in 1..Len(Append(f, x)) : j \in 1..Len(f) \/ (j = Len(f) + 1)
<1>1. Len(f) \in Nat /\ Len(Append(f, x)) = Len(f) + 1
      /\ \A j \in 1..Len(f) : Append(f, x)[j] = f[j]
      /\ Append(f, x)[Len(f) + 1] = x
  BY AppendProperties
<1> QED  BY <1>1 DEF Longer

\* What becomes of the finalized ones in one step: the old ones, and the builder there was,
\* and the new one.
LEMMA TakenFinalizes ==
    ASSUME NEW p \in Imprints, NEW hops, NEW w \in Works(p, hops), NEW t, NEW s,
           Taken(t, w, s, p, hops)
    PROVE  Longer(t.finalized, w.finalized)
<1>1. w.finalized \in Seq(Builders(p))
  BY DEF Works
<1>2. Longer(w.finalized, w.finalized)
  BY DEF Longer
<1>3. ASSUME NEW v \in Works(p, hops), NEW b, Extended(t, v, b, s, p, hops)
      PROVE  Longer(t.finalized, v.finalized)
  <2>1. v.finalized \in Seq(Builders(p)) /\ Longer(v.finalized, v.finalized)
    BY DEF Works, Longer
  <2>2. t.finalized = v.finalized \/ \E c \in Builders(p) : t.finalized = Append(v.finalized, c)
    BY <1>3 DEF Extended
  <2> QED  BY <2>1, <2>2, LongerOnce
<1>4. ASSUME NEW v, v.finalized = w.finalized
             \/ \E b \in Builders(p) : v.finalized = Append(w.finalized, b)
      PROVE  Longer(v.finalized, w.finalized)
  BY <1>1, <1>2, <1>4, LongerOnce
<1>5. CASE t.finalized = w.finalized
  BY <1>2, <1>5
<1>6. CASE Extended(t, w, w.builder, s, p, hops)
  BY <1>3, <1>6
<1>7. CASE \E v \in Works(p, hops) :
                /\ IF Same(w, s)
                   THEN v.completed = {} /\ v.finalized = Append(w.finalized, w.builder)
                        /\ w.builder \in Builders(p)
                   ELSE Closed(w, v, p)
                /\ (t = v \/ Extended(t, v, NewBuilder(v, s), s, p, hops))
  <2>1. PICK v \in Works(p, hops) :
                /\ IF Same(w, s)
                   THEN v.completed = {} /\ v.finalized = Append(w.finalized, w.builder)
                        /\ w.builder \in Builders(p)
                   ELSE Closed(w, v, p)
                /\ (t = v \/ Extended(t, v, NewBuilder(v, s), s, p, hops))
    BY <1>7
  <2>2. Longer(v.finalized, w.finalized)
    BY <1>4, <2>1 DEF Closed
  <2>3. t = v \/ Longer(t.finalized, v.finalized)
    BY <1>3, <2>1
  <2> QED  BY <2>2, <2>3 DEF Longer
<1> QED  BY <1>5, <1>6, <1>7 DEF Taken

\* The songs done with are those there were, and those of the builders.
LEMMA TakenCloses ==
    ASSUME NEW p \in Imprints, NEW hops, NEW w \in Works(p, hops), NEW t, NEW s,
           Taken(t, w, s, p, hops),
           NEW R, w.completed \subseteq R, w.builder # None => w.builder.rtp \in R, s.rtp \in R
    PROVE  t.completed \subseteq R /\ (t.builder # None => t.builder.rtp \in R)
<1>1. ASSUME NEW v, v.completed \subseteq R, NEW b, b.rtp \in R, Extended(t, v, b, s, p, hops)
      PROVE  t.completed \subseteq R /\ (t.builder # None => t.builder.rtp \in R)
  <2>1. CASE s.from # b.streamEnd
    BY <1>1, <2>1 DEF Extended
  <2>2. CASE s.from = b.streamEnd
    <3>1. PICK c \in Builders(p) :
                /\ Grown(c, b, s, hops)
                /\ IF Len(c.source) >= c.length
                   THEN /\ t.builder = None
                        /\ t.completed = v.completed \cup {c.rtp}
                   ELSE /\ t.builder = c /\ t.completed = v.completed
      BY <2>2, <1>1 DEF Extended
    <3>2. c.rtp \in R
      BY <1>1, <3>1 DEF Grown
    <3> QED  BY <1>1, <3>1, <3>2
  <2> QED  BY <2>1, <2>2
<1>2. CASE t = w
  BY <1>2
<1>3. CASE t.builder = None /\ t.completed = w.completed
  BY <1>3
<1>4. CASE Same(w, s) /\ Extended(t, w, w.builder, s, p, hops)
  BY <1>1, <1>4 DEF Same
<1>5. CASE \E v \in Works(p, hops) :
                /\ v.builder = None
                /\ v.completed = {} \/ Closed(w, v, p)
                /\ (t = v \/ Extended(t, v, NewBuilder(v, s), s, p, hops))
  <2>1. PICK v \in Works(p, hops) :
                /\ v.builder = None
                /\ v.completed = {} \/ Closed(w, v, p)
                /\ (t = v \/ Extended(t, v, NewBuilder(v, s), s, p, hops))
    BY <1>5
  <2>2. v.completed \subseteq R
    BY <2>1 DEF Closed
  <2>3. NewBuilder(v, s).rtp \in R
    BY NewBuilderIs DEF Fresh
  <2> QED  BY <1>1, <2>1, <2>2, <2>3
<1> QED  BY <1>2, <1>3, <1>4, <1>5 DEF Taken

\* Songs that are completed or built were so before or have a segment.
LEMMA LoopCloses ==
    ASSUME NEW work, NEW k, NEW segments, NEW list, NEW lo, NEW hops, NEW p,
           LoopOf(work, k, segments, list, lo, hops, p),
           NEW R, work[0].completed \subseteq R,
           work[0].builder # None => work[0].builder.rtp \in R,
           \A n \in 1..Len(segments) : segments[n].rtp \in R
    PROVE  \A n \in 0..Len(segments) :
                /\ work[n].completed \subseteq R
                /\ work[n].builder # None => work[n].builder.rtp \in R
<1> DEFINE N == Len(segments)
           P(n) == /\ work[n].completed \subseteq R
                   /\ work[n].builder # None => work[n].builder.rtp \in R
           A == {n \in 0..N : P(n)}
<1>1. N \in Nat /\ p \in Imprints
  BY LoopStep DEF LoopOf
<1>2. 0 \in A
  BY <1>1
<1>3. ASSUME NEW n \in 1..N, n - 1 \in A
      PROVE  n \in A
  <2>1. Taken(work[n], work[n - 1], segments[n], p, hops) /\ work[n - 1] \in Works(p, hops)
    BY LoopStep
  <2>2. P(n - 1) /\ segments[n].rtp \in R
    BY <1>3
  <2>3. P(n)
    BY <1>1, <2>1, <2>2, TakenCloses
  <2> QED  BY <2>3
<1>4. 0..N \subseteq A
  <2> HIDE DEF A, N
  <2> QED  BY <1>1, <1>2, <1>3, LoopInduction
<1> QED  BY <1>4

=============================================================================
