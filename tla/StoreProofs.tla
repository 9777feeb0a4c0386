---------------------------- MODULE StoreProofs ----------------------------
(***************************************************************************)
(* What the SQLite store keeps.  First the memories in it (MemoryIndex),   *)
(* for any number of memories, categories, texts and curators; then the    *)
(* file itself (SchemaMigration), for any number of processes, builds and  *)
(* migrations that open it.                                                *)
(***************************************************************************)
EXTENDS MemoryIndex, SchemaMigration, FiniteSetTheorems, WellFoundedInduction, TLAPS

RecordSet == [id : Ids, text : Texts, cat : Categories]

\* The records of the memories there are.
Current == {RecordOf(i) : i \in Active}

-----------------------------------------------------------------------------
(* What a curator may have decided to do, by the phase it goes to next *)

AddOps == [do : {"add"}, text : Texts, cat : Categories]
UpdateOps == [do : {"update"}, id : Ids, text : Texts, cat : Categories]
RewriteOps == [do : {"update"}, id : Ids, text : Texts, cat : {Null}]
DeleteOps == [do : {"delete"}, id : Ids, keeps : Ids]
MoveOps == [do : {"move"}, id : Ids, cat : Categories]
VectorOps == [do : {"vectors"}, rows : SUBSET RecordSet]
NodeOps == [do : {"node"}, node : Nodes, shows : (SUBSET RecordSet) \union [Categories -> Nat]]
MarkerOps == [do : {"marker"}, count : 0 .. Cardinality(Ids)]

\* What capture decides on for one memory.
CaptureOps == VectorOps \union AddOps \union UpdateOps

\* The calls of one decision, by the phase that comes after it.
Decided(p, calls) ==
  CASE p = "vectors" -> calls \in Seq(DeleteOps)
    [] p = "merge" -> calls \in Seq(VectorOps)
    [] p \in {"contradictions", "reclassify"} -> calls \in Seq(RewriteOps \union DeleteOps)
    [] p = "nodes" -> calls \in Seq(MoveOps)
    [] p = "final" -> calls \in Seq(NodeOps)
    [] p = "refresh" -> calls \in Seq(MarkerOps)
    [] p = "items" -> calls \in Seq(CaptureOps)
    [] p = "end" -> calls \in Seq(VectorOps) \/ calls \in Seq(NodeOps) \/ calls \in Seq(MarkerOps)
    [] OTHER -> calls = << >>

Phases == {"wait", "recall", "recalled", "capture", "items", "count", "due", "read", "vectors", "merge", "contradictions",
           "reclassify", "nodes", "summaries", "final", "refresh", "refresh_summaries", "end"}

\* Where the records are what the store has.
Holding == {"recalled", "items", "vectors", "merge", "contradictions", "reclassify"}

\* A call leaves the calls that come after it right.
Writes == {"update", "move"}
Compatible(a, b) ==
  /\ a.do \in Writes /\ b.do \in Writes => a.id # b.id
  /\ a.do = "delete" /\ b.do = "delete" => b.keeps # a.id
  /\ a.do = "update" /\ b.do = "delete" /\ a.id = b.id => a.text \notin ConstraintTexts
  /\ a.do # "add"
  /\ a.do = "update" => b.do # "vectors"

-----------------------------------------------------------------------------
(* The inductive invariant *)

StoreTyped ==
  /\ mem \in [Ids -> [active : BOOLEAN, text : Texts \union {Null},
                      cat : Categories \union {Null}, vec : Texts \union {Null}]]
  /\ \A i \in Active : mem[i].text \in Texts /\ mem[i].cat \in Categories
  /\ node = [n \in Nodes |-> node[n]]
  /\ \A n \in Nodes : node[n].dirty => node[n].known
  /\ marker \in 0 .. Cardinality(Ids) \union {Null}
  /\ writes \in 0 .. MaxWrites

Occurs(s, x) == \E k \in 1 .. Len(s) : s[k] = x
Distinct(s) == \A j, k \in 1 .. Len(s) : s[j] = s[k] => j = k

\* The active memories are in the order once each.
OrderExact ==
  /\ order \in Seq(Ids)
  /\ Distinct(order)
  /\ \A i \in Ids : mem[i].active <=> Occurs(order, i)

CuratorsTyped ==
  /\ guard \in Curators \union {Null}
  /\ job \in [Curators -> Jobs]
  /\ llm \in [Curators -> BOOLEAN]
  /\ phase \in [Curators -> Phases]
  /\ todo = [c \in Curators |-> todo[c]]
  /\ snap = [c \in Curators |-> snap[c]]
  /\ found = [c \in Curators |-> found[c]]
  /\ touched = [c \in Curators |-> touched[c]]

SnapTyped(c) ==
  /\ snap[c] \in Seq(RecordSet)
  /\ \A j, k \in 1 .. Len(snap[c]) : snap[c][j].id = snap[c][k].id => j = k
  /\ \A k \in 1 .. Len(snap[c]) : mem[snap[c][k].id].text # Null

CuratorTyped(c) ==
  /\ Decided(phase[c], todo[c])
  /\ job[c] \in {"idle", "over"} => phase[c] = "end" /\ todo[c] = << >>
  /\ SnapTyped(c)
  /\ phase[c] = "due" => found[c] \in 0 .. Cardinality(Ids)
  /\ phase[c] = "items" => found[c] \in Seq(Texts \X Categories)
  /\ phase[c] \in {"summaries", "refresh_summaries"} => found[c] \subseteq Nodes

\* Whoever is past waiting holds the guard.
GuardHeld ==
  \A c \in Curators : job[c] \in Guarded /\ phase[c] # "wait" => guard = c

\* A record that no one else wrote to is what the store has.
SnapTrue(c) ==
  phase[c] \in Holding =>
    \A k \in 1 .. Len(snap[c]) :
      LET r == snap[c][k]
      IN  r.id \notin touched[c] =>
            mem[r.id].active /\ mem[r.id].text = r.text /\ mem[r.id].cat = r.cat

\* So is what a call was decided on.
CallTrue(c, op) ==
  /\ op.do \in Writes /\ op.id \notin touched[c] => ~IsProtected(mem[op.id])
  /\ op.do = "delete" =>
       /\ op.id # op.keeps
       /\ op.id \notin touched[c] /\ op.keeps \notin touched[c] =>
            /\ mem[op.keeps].active
            /\ phase[c] = "vectors" => mem[op.id].text = mem[op.keeps].text
       /\ op.id \notin touched[c] /\ phase[c] # "vectors" => ~IsProtected(mem[op.id])
  /\ op.do = "vectors" => \A r \in op.rows : r.id \notin touched[c] => mem[r.id].text = r.text
  /\ op.do = "node" /\ op.node \notin touched[c] =>
       op.shows = Shows(op.node, Current)

TodoTrue(c) ==
  /\ \A p \in 1 .. Len(todo[c]) : CallTrue(c, todo[c][p])
  /\ \A p, q \in 1 .. Len(todo[c]) : p < q => Compatible(todo[c][p], todo[c][q])

CuratorInv(c) == CuratorTyped(c) /\ SnapTrue(c) /\ TodoTrue(c)

StoreInv == StoreTyped /\ OrderExact /\ CleanMeansCurrent

IndexInv ==
  /\ StoreInv
  /\ CuratorsTyped
  /\ GuardHeld
  /\ \A c \in Curators : CuratorInv(c)

-----------------------------------------------------------------------------
(* Numbers and sequences *)

\* Every set of natural numbers has a least element.
LEMMA Least ==
  ASSUME NEW T, T \subseteq Nat, T # {}
  PROVE  \E m \in T : \A k \in T : m <= k
<1> DEFINE Below == {0 .. n : n \in T}
<1>1. Below \subseteq FiniteSubsetsOf(Nat)
  <2>1. ASSUME NEW n \in T PROVE 0 .. n \subseteq Nat /\ IsFiniteSet(0 .. n)
    BY FS_Interval
  <2> QED BY <2>1 DEF FiniteSubsetsOf
<1>2. \E x \in Below : \A y \in Below : <<y, x>> \notin StrictSubsetOrdering(Nat)
  <2> Below # {} OBVIOUS
  <2> HIDE DEF Below
  <2> QED BY <1>1, WFMin, FS_StrictSubsetOrderingWellFounded, Zenon
<1>3. PICK m \in T : \A k \in T : <<0 .. k, 0 .. m>> \notin StrictSubsetOrdering(Nat)
  BY <1>2
<1>4. ASSUME NEW k \in T, ~ m <= k PROVE FALSE
  <2>1. m \in Nat /\ k \in Nat /\ k < m
    BY <1>4
  <2>2. 0 .. k \subseteq 0 .. m /\ m \in 0 .. m /\ m \notin 0 .. k
    BY <2>1
  <2>3. 0 .. k \in SUBSET Nat /\ 0 .. m \in SUBSET Nat
    BY <2>1
  <2> QED BY <1>3, <2>2, <2>3 DEF StrictSubsetOrdering
<1> QED BY <1>4

\* Induction, for a set of numbers instead of a predicate.
LEMMA Induct ==
  ASSUME NEW S, 0 \in S, \A n \in Nat : n \in S => n + 1 \in S
  PROVE  \A n \in Nat : n \in S
<1> DEFINE Bad == {n \in Nat : n \notin S}
<1> SUFFICES ASSUME Bad # {} PROVE FALSE
  OBVIOUS
<1>1. PICK m \in Bad : \A k \in Bad : m <= k
  <2>1. Bad \subseteq Nat
    OBVIOUS
  <2> HIDE DEF Bad
  <2> QED BY <2>1, Least
<1>2. m # 0 /\ m - 1 \in Nat
  BY <1>1
<1>3. m - 1 \in S
  BY <1>1, <1>2
<1> QED BY <1>1, <1>2, <1>3

\* What FlattenSeq has put together after each of the sequences.
Flattens(f, ss, n) ==
  \A i \in 1 .. n : f[i] = IF i = 1 THEN ss[i] ELSE f[i - 1] \o ss[i]

LEMMA FlattenUnfolds ==
  ASSUME NEW E, NEW ss \in Seq(Seq(E)), ss # << >>
  PROVE  \E f \in [1 .. Len(ss) -> Seq(E)] :
           Flattens(f, ss, Len(ss)) /\ FlattenSeq(ss) = f[Len(ss)]
<1> DEFINE N == Len(ss)
           Good(f) == f = [i \in 1 .. N |-> IF i = 1 THEN ss[i] ELSE f[i - 1] \o ss[i]]
           S == {n \in Nat : 1 <= n /\ n <= N => \E f \in [1 .. n -> Seq(E)] : Flattens(f, ss, n)}
<1>1. ASSUME NEW n \in Nat, n \in S PROVE n + 1 \in S
  <2>1. CASE n = 0
    <3> [i \in 1 .. 1 |-> ss[1]] \in [1 .. 1 -> Seq(E)] \/ ~ 1 <= N
      OBVIOUS
    <3> Flattens([i \in 1 .. 1 |-> ss[1]], ss, 1)
      BY DEF Flattens
    <3> QED BY <2>1
  <2>2. ASSUME 1 <= n, n + 1 <= N
        PROVE  \E f \in [1 .. n + 1 -> Seq(E)] : Flattens(f, ss, n + 1)
    <3>1. PICK f \in [1 .. n -> Seq(E)] : Flattens(f, ss, n)
      BY <1>1, <2>2
    <3> DEFINE g == [i \in 1 .. n + 1 |-> IF i = n + 1 THEN f[n] \o ss[n + 1] ELSE f[i]]
    <3>2. f[n] \in Seq(E) /\ ss[n + 1] \in Seq(E)
      BY <2>2
    <3>3. f[n] \o ss[n + 1] \in Seq(E)
      BY <3>2
    <3>4. g \in [1 .. n + 1 -> Seq(E)]
      BY <3>3
    <3>5. Flattens(g, ss, n + 1)
      <4>1. ASSUME NEW i \in 1 .. n + 1
            PROVE  g[i] = IF i = 1 THEN ss[i] ELSE g[i - 1] \o ss[i]
        <5>1. CASE i = n + 1
          <6>1. i # 1 /\ i - 1 = n /\ n \in 1 .. n + 1 /\ n # n + 1
            BY <2>2, <5>1
          <6>2. g[i - 1] = f[n] /\ g[i] = f[n] \o ss[n + 1]
            BY <5>1, <6>1
          <6> QED BY <5>1, <6>1, <6>2
        <5>2. CASE i # n + 1
          <6>1. i \in 1 .. n /\ (i # 1 => i - 1 \in 1 .. n)
            BY <5>2
          <6>a. \A j \in 1 .. n : j \in 1 .. n + 1 /\ j # n + 1
            OBVIOUS
          <6>b. \A j \in 1 .. n : g[j] = f[j]
            BY <6>a
          <6>2. g[i] = f[i] /\ (i # 1 => g[i - 1] = f[i - 1])
            <7> HIDE DEF g
            <7> QED BY <6>1, <6>b
          <6>3. f[i] = IF i = 1 THEN ss[i] ELSE f[i - 1] \o ss[i]
            BY <3>1, <6>1 DEF Flattens
          <6> QED BY <6>2, <6>3
        <5> QED BY <5>1, <5>2
      <4> HIDE DEF g
      <4> QED BY <4>1 DEF Flattens
    <3> HIDE DEF g
    <3> QED BY <3>4, <3>5
  <2> QED BY <2>1, <2>2
<1>2. N \in S
  <2>1. 0 \in S
    OBVIOUS
  <2> HIDE DEF S
  <2> QED BY <1>1, <2>1, Induct
<1>3. PICK f \in [1 .. N -> Seq(E)] : Flattens(f, ss, N)
  BY <1>2
<1>4. Good(f)
  BY <1>3 DEF Flattens
<1>5. Good(CHOOSE g : Good(g))
  BY <1>4
<1>6. FlattenSeq(ss) = (CHOOSE g : Good(g))[Len(ss)]
  BY DEF FlattenSeq
<1> DEFINE h == CHOOSE g : Good(g)
<1>7. \A i \in 1 .. N : h[i] = IF i = 1 THEN ss[i] ELSE h[i - 1] \o ss[i]
  BY <1>5
<1>8. h \in [1 .. N -> Seq(E)]
  <2> DEFINE T == {n \in Nat : 1 <= n /\ n <= N => h[n] \in Seq(E)}
  <2>1. h = [i \in 1 .. N |-> IF i = 1 THEN ss[i] ELSE h[i - 1] \o ss[i]]
    BY <1>5
  <2> HIDE DEF h
  <2>2. ASSUME NEW n \in Nat, n \in T PROVE n + 1 \in T
    <3>1. CASE n = 0
      BY <1>7, <3>1
    <3>2. ASSUME 1 <= n, n + 1 <= N PROVE h[n + 1] \in Seq(E)
      <4>1. h[n] \in Seq(E) /\ ss[n + 1] \in Seq(E)
        BY <2>2, <3>2
      <4>2. n + 1 \in 1 .. N /\ n + 1 # 1 /\ (n + 1) - 1 = n
        BY <3>2
      <4>3. h[n + 1] = h[n] \o ss[n + 1]
        BY <1>7, <4>2
      <4> QED BY <4>1, <4>3
    <3> QED BY <3>1, <3>2
  <2>3. \A n \in Nat : n \in T
    <3>1. 0 \in T
      OBVIOUS
    <3> HIDE DEF T
    <3> QED BY <2>2, <3>1, Induct
  <2>4. \A n \in 1 .. N : h[n] \in Seq(E)
    BY <2>3
  <2> QED BY <2>1, <2>4
<1> QED BY <1>6, <1>7, <1>8 DEF Flattens

\* Every pair of elements, in the order they come in, is in R.
Pairwise(s, R) == \A p, q \in 1 .. Len(s) : p < q => <<s[p], s[q]>> \in R

Across(s, t, R) == \A p \in 1 .. Len(s), q \in 1 .. Len(t) : <<s[p], t[q]>> \in R

LEMMA ConcatPairwise ==
  ASSUME NEW E, NEW R, NEW s \in Seq(E), NEW t \in Seq(E),
         Pairwise(s, R), Pairwise(t, R), Across(s, t, R)
  PROVE  s \o t \in Seq(E) /\ Pairwise(s \o t, R)
<1>1. /\ s \o t \in Seq(E)
      /\ Len(s \o t) = Len(s) + Len(t)
      /\ \A i \in 1 .. Len(s) + Len(t) :
           (s \o t)[i] = IF i <= Len(s) THEN s[i] ELSE t[i - Len(s)]
  OBVIOUS
<1>2. ASSUME NEW p \in 1 .. Len(s \o t), NEW q \in 1 .. Len(s \o t), p < q
      PROVE  <<(s \o t)[p], (s \o t)[q]>> \in R
  <2>1. CASE q <= Len(s)
    BY <1>1, <1>2, <2>1 DEF Pairwise
  <2>2. CASE p <= Len(s) /\ ~ q <= Len(s)
    <3>1. q - Len(s) \in 1 .. Len(t) /\ p \in 1 .. Len(s)
      BY <1>1, <1>2, <2>2
    <3> QED BY <1>1, <1>2, <2>2, <3>1 DEF Across
  <2>3. CASE ~ p <= Len(s)
    <3>1. /\ q - Len(s) \in 1 .. Len(t) /\ p - Len(s) \in 1 .. Len(t)
          /\ p - Len(s) < q - Len(s) /\ ~ q <= Len(s)
      BY <1>1, <1>2, <2>3
    <3> QED BY <1>1, <1>2, <2>3, <3>1 DEF Pairwise
  <2> QED BY <1>1, <2>1, <2>2, <2>3
<1> QED BY <1>1, <1>2 DEF Pairwise

LEMMA ConcatAcross ==
  ASSUME NEW E, NEW R, NEW s \in Seq(E), NEW t \in Seq(E), NEW u,
         Across(s, u, R), Across(t, u, R)
  PROVE  Across(s \o t, u, R)
<1>1. ASSUME NEW p \in 1 .. Len(s \o t), NEW q \in 1 .. Len(u)
      PROVE  <<(s \o t)[p], u[q]>> \in R
  <2>1. Len(s \o t) = Len(s) + Len(t)
    OBVIOUS
  <2>2. (s \o t)[p] = IF p <= Len(s) THEN s[p] ELSE t[p - Len(s)]
    BY <2>1
  <2>3. CASE p <= Len(s)
    BY <2>1, <2>2, <2>3 DEF Across
  <2>4. CASE ~ p <= Len(s)
    <3>1. p - Len(s) \in 1 .. Len(t)
      BY <2>1, <2>4
    <3> QED BY <2>2, <2>4, <3>1 DEF Across
  <2> QED BY <2>3, <2>4
<1> QED BY <1>1 DEF Across

\* What is put together from sequences of elements of E is one, and what holds
\* of every pair within one of them and across two of them holds of it.
LEMMA FlattenPairwise ==
  ASSUME NEW E, NEW R, NEW ss \in Seq(Seq(E)),
         \A k \in 1 .. Len(ss) : Pairwise(ss[k], R),
         \A k, l \in 1 .. Len(ss) : k < l => Across(ss[k], ss[l], R)
  PROVE  FlattenSeq(ss) \in Seq(E) /\ Pairwise(FlattenSeq(ss), R)
<1>1. CASE ss = << >>
  <2>1. FlattenSeq(ss) = << >>
    BY <1>1 DEF FlattenSeq
  <2> QED BY <2>1 DEF Pairwise
<1>2. CASE ss # << >>
  <2> DEFINE N == Len(ss)
  <2>1. PICK f \in [1 .. N -> Seq(E)] : Flattens(f, ss, N) /\ FlattenSeq(ss) = f[N]
    BY <1>2, FlattenUnfolds
  <2> DEFINE S == {n \in Nat : n \in 1 .. N =>
                     /\ Pairwise(f[n], R)
                     /\ \A l \in n + 1 .. N : Across(f[n], ss[l], R)}
  <2>2. ASSUME NEW n \in Nat, n \in S PROVE n + 1 \in S
    <3>1. CASE n = 0
      <4>1. 1 \in 1 .. N => f[1] = ss[1]
        BY <2>1 DEF Flattens
      <4> QED BY <3>1, <4>1
    <3>2. CASE n # 0 /\ n + 1 \in 1 .. N
      <4>1. n \in 1 .. N /\ n + 1 \in n + 1 .. N /\ (n + 1) - 1 = n /\ n + 1 # 1
        BY <3>2
      <4>2. f[n + 1] = f[n] \o ss[n + 1]
        BY <2>1, <3>2, <4>1 DEF Flattens
      <4>3. f[n] \in Seq(E) /\ ss[n + 1] \in Seq(E)
        <5>1. \A i \in 1 .. Len(ss) : ss[i] \in Seq(E)
          OBVIOUS
        <5> QED BY <4>1, <3>2, <5>1
      <4>4. Pairwise(f[n + 1], R)
        <5>1. Pairwise(f[n], R) /\ Pairwise(ss[n + 1], R) /\ Across(f[n], ss[n + 1], R)
          BY <2>2, <3>2, <4>1
        <5> QED BY <4>2, <4>3, <5>1, ConcatPairwise
      <4>5. ASSUME NEW l \in (n + 1) + 1 .. N PROVE Across(f[n + 1], ss[l], R)
        <5>1. Across(f[n], ss[l], R) /\ Across(ss[n + 1], ss[l], R)
          BY <2>2, <3>2, <4>1
        <5> QED BY <4>2, <4>3, <5>1, ConcatAcross
      <4> QED BY <4>4, <4>5
    <3> QED BY <3>1, <3>2
  <2>3. N \in Nat /\ N \in 1 .. N
    BY <1>2
  <2>4. N \in S
    <3>1. 0 \in S
      OBVIOUS
    <3> HIDE DEF S
    <3> QED BY <2>2, <2>3, <3>1, Induct
  <2> QED BY <2>1, <2>3, <2>4
<1> QED BY <1>1, <1>2

LEMMA RemoveAtProperties ==
  ASSUME NEW E, NEW s \in Seq(E), NEW k \in 1 .. Len(s)
  PROVE  /\ RemoveAt(s, k) \in Seq(E)
         /\ Len(RemoveAt(s, k)) = Len(s) - 1
         /\ \A j \in 1 .. Len(s) - 1 :
              RemoveAt(s, k)[j] = IF j < k THEN s[j] ELSE s[j + 1]
<1> DEFINE a == SubSeq(s, 1, k - 1)
           b == SubSeq(s, k + 1, Len(s))
<1>1. /\ a \in Seq(E) /\ Len(a) = k - 1
      /\ \A i \in 1 .. k - 1 : a[i] = s[i]
  OBVIOUS
<1>2. /\ b \in Seq(E) /\ Len(b) = Len(s) - k
      /\ \A i \in 1 .. Len(s) - k : b[i] = s[k + i]
  OBVIOUS
<1> HIDE DEF a, b
<1>0. a \in Seq(E) /\ b \in Seq(E)
  BY <1>1, <1>2
<1>3. /\ a \o b \in Seq(E) /\ Len(a \o b) = Len(a) + Len(b)
      /\ \A i \in 1 .. Len(a) + Len(b) :
           (a \o b)[i] = IF i <= Len(a) THEN a[i] ELSE b[i - Len(a)]
  BY <1>0
<1>4. RemoveAt(s, k) = a \o b
  BY DEF RemoveAt, a, b
<1>5. ASSUME NEW j \in 1 .. Len(s) - 1
      PROVE  (a \o b)[j] = IF j < k THEN s[j] ELSE s[j + 1]
  <2>1. Len(a) + Len(b) = Len(s) - 1
    BY <1>1, <1>2
  <2>2. (a \o b)[j] = IF j <= Len(a) THEN a[j] ELSE b[j - Len(a)]
    BY <1>3, <2>1
  <2>3. CASE j < k
    BY <1>1, <2>2, <2>3
  <2>4. CASE ~ j < k
    <3>1. j - (k - 1) \in 1 .. Len(s) - k /\ k + (j - (k - 1)) = j + 1
      BY <2>4
    <3>2. b[j - (k - 1)] = s[j + 1]
      BY <1>2, <3>1
    <3> QED BY <1>1, <2>2, <2>4, <3>2
  <2> QED BY <2>3, <2>4
<1>6. Len(a \o b) = Len(s) - 1
  BY <1>1, <1>2, <1>3
<1> QED BY <1>3, <1>4, <1>5, <1>6

\* The first of the elements that e is.
LEMMA RemoveFirstProperties ==
  ASSUME NEW E, NEW s \in Seq(E), NEW e, \E k \in 1 .. Len(s) : s[k] = e
  PROVE  \E k \in 1 .. Len(s) : s[k] = e /\ RemoveFirst(s, e) = RemoveAt(s, k)
<1> DEFINE I == {k \in 1 .. Len(s) : s[k] = e}
<1>1. \E m \in I : \A k \in I : m <= k
  <2>1. I # {} /\ I \subseteq Nat
    OBVIOUS
  <2> HIDE DEF I
  <2> QED BY <2>1, Least
<1>2. Min(I) \in I
  BY <1>1 DEF Min
<1>3. SelectInSeq(s, LAMBDA v : v = e) = Min(I)
  BY DEF SelectInSeq
<1>4. RemoveFirst(s, e) = RemoveAt(s, Min(I))
  BY <1>3 DEF RemoveFirst
<1> QED BY <1>2, <1>4

-----------------------------------------------------------------------------
(* The order and the records *)

LEMMA RemovedExact ==
  ASSUME NEW E, NEW s \in Seq(E), Distinct(s), NEW e, Occurs(s, e)
  PROVE  /\ RemoveFirst(s, e) \in Seq(E)
         /\ Distinct(RemoveFirst(s, e))
         /\ \A x : Occurs(RemoveFirst(s, e), x) <=> x # e /\ Occurs(s, x)
<1> DEFINE t == RemoveFirst(s, e)
<1>1. PICK k \in 1 .. Len(s) : s[k] = e /\ t = RemoveAt(s, k)
  BY RemoveFirstProperties DEF Occurs
<1>2. /\ t \in Seq(E) /\ Len(t) = Len(s) - 1
      /\ \A j \in 1 .. Len(s) - 1 : t[j] = IF j < k THEN s[j] ELSE s[j + 1]
  BY <1>1, RemoveAtProperties
<1> HIDE DEF t
<1>3. ASSUME NEW x, Occurs(t, x) PROVE x # e /\ Occurs(s, x)
  <2>1. PICK j \in 1 .. Len(s) - 1 : t[j] = x
    BY <1>2, <1>3 DEF Occurs
  <2>2. PICK m \in 1 .. Len(s) : m # k /\ s[m] = x
    <3>1. CASE j < k
      BY <1>2, <2>1, <3>1
    <3>2. CASE ~ j < k
      <4>1. j + 1 \in 1 .. Len(s) /\ j + 1 # k
        BY <3>2
      <4> QED BY <1>2, <2>1, <3>2, <4>1
    <3> QED BY <3>1, <3>2
  <2> QED BY <1>1, <2>2 DEF Distinct, Occurs
<1>4. ASSUME NEW x, x # e, Occurs(s, x) PROVE Occurs(t, x)
  <2>1. PICK m \in 1 .. Len(s) : s[m] = x
    BY <1>4 DEF Occurs
  <2>2. m # k
    BY <1>1, <1>4, <2>1
  <2>3. CASE m < k
    BY <1>2, <2>1, <2>3 DEF Occurs
  <2>4. CASE m > k
    <3>1. m - 1 \in 1 .. Len(s) - 1 /\ ~ m - 1 < k /\ (m - 1) + 1 = m
      BY <2>4
    <3> QED BY <1>2, <2>1, <3>1 DEF Occurs
  <2> QED BY <2>2, <2>3, <2>4
<1>5. Distinct(t)
  <2> SUFFICES ASSUME NEW i \in 1 .. Len(s) - 1, NEW j \in 1 .. Len(s) - 1, t[i] = t[j]
               PROVE  i = j
    BY <1>2 DEF Distinct
  <2> DEFINE a == IF i < k THEN i ELSE i + 1
             b == IF j < k THEN j ELSE j + 1
  <2>1. a \in 1 .. Len(s) /\ b \in 1 .. Len(s) /\ t[i] = s[a] /\ t[j] = s[b]
    BY <1>2
  <2>2. a = b
    BY <2>1 DEF Distinct
  <2> QED BY <2>2
<1> QED BY <1>2, <1>3, <1>4, <1>5 DEF t

LEMMA AppendedExact ==
  ASSUME NEW E, NEW s \in Seq(E), Distinct(s), NEW e \in E, ~Occurs(s, e)
  PROVE  /\ Append(s, e) \in Seq(E)
         /\ Distinct(Append(s, e))
         /\ \A x : Occurs(Append(s, e), x) <=> x = e \/ Occurs(s, x)
<1>1. /\ Append(s, e) \in Seq(E) /\ Len(Append(s, e)) = Len(s) + 1
      /\ \A k \in 1 .. Len(s) : Append(s, e)[k] = s[k]
      /\ Append(s, e)[Len(s) + 1] = e
  OBVIOUS
<1> QED BY <1>1 DEF Distinct, Occurs

\* get_user_memory_records returns the active memories, each once.
LEMMA RecordsAreCurrent ==
  ASSUME StoreTyped, OrderExact
  PROVE  /\ Records \in Seq(RecordSet)
         /\ \A j, k \in 1 .. Len(Records) : Records[j].id = Records[k].id => j = k
         /\ \A k \in 1 .. Len(Records) :
              Records[k].id \in Active /\ Records[k] = RecordOf(Records[k].id)
         /\ ToSet(Records) = Current
<1> DEFINE fromEnd(k) == Len(order) - k + 1
<1>1. /\ \A k \in 1 .. Len(order) : fromEnd(k) \in 1 .. Len(order) /\ fromEnd(fromEnd(k)) = k
      /\ \A j, k \in 1 .. Len(order) : fromEnd(j) = fromEnd(k) => j = k
  BY DEF OrderExact
<1>2. \A k \in 1 .. Len(order) : order[k] \in Active
  BY DEF OrderExact, Occurs, Active
<1>3. \A i \in Active : RecordOf(i) \in RecordSet /\ RecordOf(i).id = i
  BY DEF StoreTyped, RecordOf, RecordSet, Active
<1>4. /\ Records = [k \in 1 .. Len(order) |-> RecordOf(order[fromEnd(k)])]
      /\ Len(order) \in Nat
  BY DEF Records, Reverse, OrderExact
<1>5. Records \in Seq(RecordSet) /\ Len(Records) = Len(order)
  BY <1>1, <1>2, <1>3, <1>4
<1>6. \A k \in 1 .. Len(order) :
        Records[k] = RecordOf(order[fromEnd(k)]) /\ Records[k].id = order[fromEnd(k)]
  BY <1>1, <1>2, <1>3, <1>4
<1> HIDE DEF fromEnd
<1>7. \A j, k \in 1 .. Len(Records) : Records[j].id = Records[k].id => j = k
  BY <1>1, <1>5, <1>6 DEF OrderExact, Distinct
<1>8. \A k \in 1 .. Len(Records) :
        Records[k].id \in Active /\ Records[k] = RecordOf(Records[k].id)
  BY <1>1, <1>2, <1>5, <1>6
<1>9. \A i \in Active : \E k \in 1 .. Len(Records) : Records[k] = RecordOf(i)
  BY <1>1, <1>5, <1>6 DEF OrderExact, Occurs, Active
<1>10. ToSet(Records) = Current
  BY <1>5, <1>8, <1>9 DEF ToSet, Current
<1> QED BY <1>5, <1>7, <1>8, <1>10

-----------------------------------------------------------------------------
(* The store's methods *)

MemRecord == [active : BOOLEAN, text : Texts \union {Null},
              cat : Categories \union {Null}, vec : Texts \union {Null}]

\* What adding, updating, deleting or moving memory i comes to: no other one
\* changes, and the categories it was and is in are marked and remembered.
Wrote(by, i, cats) ==
  /\ i \in Ids /\ cats \subseteq Categories
  /\ mem' \in [Ids -> MemRecord]
  /\ mem'[i].active => mem'[i].text \in Texts
  /\ mem'[i].text # Null
  /\ \A j \in Ids \ {i} : mem'[j] = mem[j]
  /\ mem[i].active => mem[i].cat \in cats
  /\ mem'[i].active => mem'[i].cat \in cats
  /\ MarkDirty(cats)
  /\ Touch(by, {i, Root} \union cats)

Quiet == UNCHANGED <<mem, order, node, touched>>

LEMMA OrderWithout ==
  ASSUME OrderExact, NEW i \in Active
  PROVE  /\ RemoveFirst(order, i) \in Seq(Ids)
         /\ Distinct(RemoveFirst(order, i))
         /\ \A x : Occurs(RemoveFirst(order, i), x) <=> x # i /\ Occurs(order, x)
BY RemovedExact DEF OrderExact, Active

LEMMA OrderMoved ==
  ASSUME OrderExact, NEW i \in Active
  PROVE  /\ Append(RemoveFirst(order, i), i) \in Seq(Ids)
         /\ Distinct(Append(RemoveFirst(order, i), i))
         /\ \A x : Occurs(Append(RemoveFirst(order, i), i), x) <=> Occurs(order, x)
<1>1. i \in Ids /\ Occurs(order, i)
  BY DEF OrderExact, Active
<1>2. ~Occurs(RemoveFirst(order, i), i)
  BY OrderWithout
<1>3. RemoveFirst(order, i) \in Seq(Ids) /\ Distinct(RemoveFirst(order, i))
  BY OrderWithout
<1>4. /\ Append(RemoveFirst(order, i), i) \in Seq(Ids)
      /\ Distinct(Append(RemoveFirst(order, i), i))
      /\ \A x : Occurs(Append(RemoveFirst(order, i), i), x)
                  <=> x = i \/ Occurs(RemoveFirst(order, i), x)
  BY <1>1, <1>2, <1>3, AppendedExact
<1> QED BY <1>1, <1>4, OrderWithout

LEMMA AddWrote ==
  ASSUME StoreTyped, OrderExact, NEW by, NEW i, NEW text \in Texts, NEW cat \in Categories,
         Add(by, i, text, cat)
  PROVE  Wrote(by, i, {cat}) /\ OrderExact'
<1>1. i \in Ids /\ ~mem[i].active /\ ~Occurs(order, i)
  BY NullAssumption DEF StoreTyped, Active, Add, Free, OrderExact
<1>2. /\ order' \in Seq(Ids) /\ Distinct(order')
      /\ \A x : Occurs(order', x) <=> x = i \/ Occurs(order, x)
  BY <1>1, AppendedExact DEF Add, OrderExact
<1>3. /\ mem' \in [Ids -> MemRecord]
      /\ mem'[i] = [active |-> TRUE, text |-> text, cat |-> cat, vec |-> Null]
      /\ \A j \in Ids \ {i} : mem'[j] = mem[j]
  BY <1>1 DEF StoreTyped, MemRecord, Add
<1>4. {i, cat, Root} = {i, Root} \union {cat}
  OBVIOUS
<1>5. Touch(by, {i, Root} \union {cat})
  BY <1>4 DEF Add
<1>6. Wrote(by, i, {cat})
  BY <1>1, <1>3, <1>5, NullAssumption DEF Wrote, Add
<1> QED BY <1>2, <1>3, <1>6 DEF OrderExact

LEMMA UpdateWrote ==
  ASSUME StoreTyped, OrderExact, NEW by, NEW i \in Active, NEW text \in Texts,
         NEW cat \in Categories \union {Null}, Update(by, i, text, cat),
         NEW new, new = IF cat = Null THEN mem[i].cat ELSE cat
  PROVE  /\ Wrote(by, i, {mem[i].cat, new})
         /\ mem'[i] = [active |-> TRUE, text |-> text, cat |-> new, vec |-> Null]
         /\ OrderExact'
<1>1. i \in Ids /\ mem[i].active /\ mem[i].cat \in Categories /\ new \in Categories
  BY NullAssumption DEF StoreTyped, Active
<1>a. /\ mem' = [mem EXCEPT ![i] = [active |-> TRUE, text |-> text, cat |-> new, vec |-> Null]]
      /\ order' = Append(RemoveFirst(order, i), i)
      /\ MarkDirty({mem[i].cat, new})
      /\ Touch(by, {i, mem[i].cat, new, Root})
  BY DEF Update
<1>2. /\ order' \in Seq(Ids) /\ Distinct(order')
      /\ \A x : Occurs(order', x) <=> Occurs(order, x)
  BY <1>a, OrderMoved
<1>3. /\ mem' \in [Ids -> MemRecord]
      /\ mem'[i] = [active |-> TRUE, text |-> text, cat |-> new, vec |-> Null]
      /\ \A j \in Ids \ {i} : mem'[j] = mem[j]
  BY <1>1, <1>a DEF StoreTyped, MemRecord
<1>4. {i, mem[i].cat, new, Root} = {i, Root} \union {mem[i].cat, new}
  OBVIOUS
<1>5. Touch(by, {i, Root} \union {mem[i].cat, new})
  BY <1>4, <1>a
<1>6. Wrote(by, i, {mem[i].cat, new})
  BY <1>1, <1>3, <1>5, <1>a, NullAssumption DEF Wrote
<1>7. OrderExact'
  BY <1>1, <1>2, <1>3 DEF OrderExact
<1> QED BY <1>3, <1>6, <1>7

LEMMA DeleteWrote ==
  ASSUME StoreTyped, OrderExact, NEW by, NEW i \in Active, Delete(by, i)
  PROVE  /\ Wrote(by, i, {mem[i].cat})
         /\ mem'[i] = [mem[i] EXCEPT !.active = FALSE]
         /\ OrderExact'
<1>1. i \in Ids /\ mem[i].active /\ mem[i].cat \in Categories
  BY DEF StoreTyped, Active
<1>2. /\ order' \in Seq(Ids) /\ Distinct(order')
      /\ \A x : Occurs(order', x) <=> x # i /\ Occurs(order, x)
  BY OrderWithout DEF Delete
<1>3. /\ mem' \in [Ids -> MemRecord]
      /\ mem'[i] = [mem[i] EXCEPT !.active = FALSE]
      /\ \A j \in Ids \ {i} : mem'[j] = mem[j]
  BY <1>1 DEF StoreTyped, MemRecord, Delete
<1>a. ~mem'[i].active /\ mem'[i].text # Null
  BY <1>1, <1>3, NullAssumption DEF StoreTyped, Active
<1>4. {i, mem[i].cat, Root} = {i, Root} \union {mem[i].cat}
  OBVIOUS
<1>5. Touch(by, {i, Root} \union {mem[i].cat})
  BY <1>4 DEF Delete
<1>6. Wrote(by, i, {mem[i].cat})
  BY <1>1, <1>3, <1>5, <1>a DEF Wrote, Delete
<1> QED BY <1>1, <1>2, <1>3, <1>6, <1>a DEF OrderExact

LEMMA MoveWrote ==
  ASSUME StoreTyped, OrderExact, NEW by, NEW i \in Active, NEW cat \in Categories,
         Move(by, i, cat)
  PROVE  /\ Wrote(by, i, {mem[i].cat, cat})
         /\ mem'[i] = [mem[i] EXCEPT !.cat = cat]
         /\ OrderExact'
<1>1. i \in Ids /\ mem[i].active /\ mem[i].cat \in Categories /\ mem[i].text \in Texts
  BY DEF StoreTyped, Active
<1>2. /\ order' \in Seq(Ids) /\ Distinct(order')
      /\ \A x : Occurs(order', x) <=> Occurs(order, x)
  BY OrderMoved DEF Move
<1>3. /\ mem' \in [Ids -> MemRecord]
      /\ mem'[i] = [mem[i] EXCEPT !.cat = cat]
      /\ \A j \in Ids \ {i} : mem'[j] = mem[j]
  BY <1>1 DEF StoreTyped, MemRecord, Move
<1>a. mem'[i].active /\ mem'[i].cat = cat /\ mem'[i].text = mem[i].text
  BY <1>1, <1>3 DEF StoreTyped
<1>4. {i, mem[i].cat, cat, Root} = {i, Root} \union {mem[i].cat, cat}
  OBVIOUS
<1>5. Touch(by, {i, Root} \union {mem[i].cat, cat})
  BY <1>4 DEF Move
<1>6. Wrote(by, i, {mem[i].cat, cat})
  BY <1>1, <1>3, <1>5, <1>a, NullAssumption DEF Wrote, Move
<1> QED BY <1>1, <1>2, <1>3, <1>6, <1>a DEF OrderExact

\* A summary of a category that a write did not mark shows the same memories.
LEMMA ShowsUntouched ==
  ASSUME NEW by, NEW i, NEW cats, Wrote(by, i, cats), NEW n, n \notin cats \union {Root}
  PROVE  Shows(n, Current)' = Shows(n, Current)
<1>1. \A j \in Ids \ {i} : RecordOf(j)' = RecordOf(j) /\ (mem'[j].active <=> mem[j].active)
  BY DEF RecordOf, Wrote
<1>2. mem[i].active => RecordOf(i).cat # n
  BY DEF RecordOf, Wrote
<1>3. mem'[i].active => RecordOf(i)'.cat # n
  BY DEF RecordOf, Wrote
<1> HIDE DEF RecordOf
<1>4. {r \in Current : r.cat = n}' = {r \in Current : r.cat = n}
  BY <1>1, <1>2, <1>3 DEF Current, Active
<1> QED BY <1>4 DEF Shows

\* What a write does to the store.
LEMMA WroteStore ==
  ASSUME StoreInv, NEW by, NEW i, NEW cats, Wrote(by, i, cats), OrderExact',
         marker' = marker, writes' \in 0 .. MaxWrites
  PROVE  StoreInv'
<1>1. node' = [n \in Nodes |->
                 IF n \in cats \union {Root}
                 THEN [known |-> TRUE, dirty |-> TRUE, shows |-> Null, outrun |-> FALSE]
                 ELSE node[n]]
  BY DEF Wrote, MarkDirty
<1>2. StoreTyped'
  <2>1. \A j \in Ids : mem'[j].active => mem'[j].text \in Texts /\ mem'[j].cat \in Categories
    BY DEF StoreInv, StoreTyped, Wrote, Active
  <2> QED BY <1>1, <2>1 DEF StoreInv, StoreTyped, Wrote, Active, MemRecord
<1>3. CleanMeansCurrent'
  <2> SUFFICES ASSUME NEW n \in Nodes, (node[n].known /\ ~node[n].dirty /\ ~node[n].outrun)'
               PROVE  node'[n].shows = Shows(n, Current)'
    BY DEF CleanMeansCurrent, Current
  <2>1. n \notin cats \union {Root} /\ node'[n] = node[n]
    BY <1>1
  <2>2. node[n].shows = Shows(n, Current)
    BY <2>1 DEF StoreInv, CleanMeansCurrent, Current
  <2> QED BY <2>1, <2>2, ShowsUntouched
<1> QED BY <1>2, <1>3 DEF StoreInv

-----------------------------------------------------------------------------
(* What others write *)

Same(i) ==
  /\ mem'[i].active = mem[i].active
  /\ mem'[i].text = mem[i].text
  /\ mem'[i].cat = mem[i].cat

\* What curator c does not know about in this step has not changed, if it
\* still has records or calls that rest on it.
Tracks(c) ==
  \/ todo[c] = << >> /\ snap[c] = << >>
  \/ /\ touched[c] \subseteq touched'[c]
     /\ \A i \in Ids : mem[i].text # Null => mem'[i].text # Null
     /\ \A i \in Ids \ touched'[c] : Same(i)
     /\ \A n \in Nodes \ touched'[c] : Shows(n, Current)' = Shows(n, Current)

\* Records stay distinct, and of memories that were added once.
LEMMA SnapKept ==
  ASSUME NEW c \in Curators, SnapTyped(c), snap'[c] = snap[c],
         \A i \in Ids : mem[i].text # Null => mem'[i].text # Null
  PROVE  SnapTyped(c)'
<1>1. \A k \in 1 .. Len(snap[c]) : snap[c][k] \in RecordSet
  BY DEF SnapTyped
<1>2. \A k \in 1 .. Len(snap[c]) : snap[c][k].id \in Ids
  BY <1>1 DEF RecordSet
<1> QED BY <1>2 DEF SnapTyped

LEMMA WroteTracks ==
  ASSUME CuratorsTyped, NEW by, NEW i, NEW cats, Wrote(by, i, cats),
         NEW c \in Curators, c # by
  PROVE  Tracks(c)
<1> SUFFICES ASSUME ~(todo[c] = << >> /\ snap[c] = << >>)
             PROVE  /\ touched[c] \subseteq touched'[c]
                    /\ \A j \in Ids : mem[j].text # Null => mem'[j].text # Null
                    /\ \A j \in Ids \ touched'[c] : Same(j)
                    /\ \A n \in Nodes \ touched'[c] : Shows(n, Current)' = Shows(n, Current)
  BY DEF Tracks
<1>1. touched'[c] = touched[c] \union {i, Root} \union cats
  BY DEF Wrote, Touch
<1>2. \A j \in Ids \ touched'[c] : Same(j)
  BY <1>1 DEF Wrote, Same
<1>3. \A n \in Nodes \ touched'[c] : n \notin cats \union {Root}
  BY <1>1
<1>4. \A j \in Ids : mem[j].text # Null => mem'[j].text # Null
  BY DEF Wrote
<1> QED BY <1>1, <1>2, <1>3, <1>4, ShowsUntouched

LEMMA QuietTracks ==
  ASSUME NEW c \in Curators, UNCHANGED <<mem, touched[c]>>
  PROVE  Tracks(c)
BY DEF Tracks, Same, Current, Active, RecordOf

AnyOps == AddOps \union UpdateOps \union RewriteOps \union DeleteOps \union MoveOps
            \union VectorOps \union NodeOps \union MarkerOps

LEMMA CallTyped ==
  ASSUME NEW p, NEW calls, Decided(p, calls)
  PROVE  calls \in Seq(AnyOps)
<1>1. \A E \in {CaptureOps, DeleteOps, RewriteOps \union DeleteOps, MoveOps, VectorOps,
                NodeOps, MarkerOps} : E \subseteq AnyOps
  BY Zenon DEF AnyOps, CaptureOps
<1>2. \A E \in {CaptureOps, DeleteOps, RewriteOps \union DeleteOps, MoveOps, VectorOps,
                NodeOps, MarkerOps} : calls \in Seq(E) => calls \in Seq(AnyOps)
  <2>1. ASSUME NEW E, E \subseteq AnyOps, calls \in Seq(E) PROVE calls \in Seq(AnyOps)
    BY <2>1
  <2> QED BY <1>1, <2>1, Zenon
<1>3. << >> \in Seq(AnyOps)
  OBVIOUS
<1> HIDE DEF AnyOps
<1>4. \/ calls = << >>
      \/ \E E \in {CaptureOps, DeleteOps, RewriteOps \union DeleteOps, MoveOps, VectorOps,
                  NodeOps, MarkerOps} : calls \in Seq(E)
  BY Zenon DEF Decided
<1> QED BY <1>2, <1>3, <1>4, Zenon

\* The fields that a call of each kind has.
LEMMA CallFields ==
  ASSUME NEW op \in AnyOps
  PROVE  /\ op.do \in Writes => op.id \in Ids
         /\ op.do = "delete" => op.id \in Ids /\ op.keeps \in Ids
         /\ op.do = "vectors" => op.rows \subseteq RecordSet
         /\ op.do = "node" => op.node \in Nodes
BY DEF AnyOps, AddOps, UpdateOps, RewriteOps, DeleteOps, MoveOps, VectorOps, NodeOps,
       MarkerOps, Writes

LEMMA SameProtected ==
  ASSUME NEW i, Same(i)
  PROVE  IsProtected(mem'[i]) <=> IsProtected(mem[i])
BY DEF Same, IsProtected

\* What a curator knows stays true while another one or the user acts.
LEMMA OthersKeep ==
  ASSUME NEW c \in Curators, CuratorInv(c), Tracks(c),
         UNCHANGED <<phase[c], job[c], todo[c], snap[c], found[c]>>
  PROVE  CuratorInv(c)'
<1>a. CuratorTyped(c) /\ SnapTrue(c) /\ TodoTrue(c)
  BY DEF CuratorInv
<1>0. SnapTyped(c)'
  <2>1. CASE snap[c] = << >>
    BY <2>1 DEF SnapTyped
  <2>2. CASE \A i \in Ids : mem[i].text # Null => mem'[i].text # Null
    BY <1>a, <2>2, SnapKept DEF CuratorTyped
  <2> QED BY <2>1, <2>2 DEF Tracks
<1>1. CuratorTyped(c)'
  BY <1>0, <1>a DEF CuratorTyped, Decided
<1>2. CASE todo[c] = << >> /\ snap[c] = << >>
  BY <1>1, <1>2 DEF CuratorInv, SnapTrue, TodoTrue
<1>3. CASE /\ touched[c] \subseteq touched'[c]
           /\ \A i \in Ids \ touched'[c] : Same(i)
           /\ \A n \in Nodes \ touched'[c] : Shows(n, Current)' = Shows(n, Current)
  <2>1. SnapTrue(c)'
    <3> SUFFICES ASSUME phase[c] \in Holding, NEW k \in 1 .. Len(snap[c]),
                        snap[c][k].id \notin touched'[c]
                 PROVE  /\ mem'[snap[c][k].id].active
                        /\ mem'[snap[c][k].id].text = snap[c][k].text
                        /\ mem'[snap[c][k].id].cat = snap[c][k].cat
      BY DEF SnapTrue
    <3>1. snap[c][k] \in RecordSet
      BY <1>a DEF CuratorTyped, SnapTyped
    <3>2. snap[c][k].id \in Ids
      BY <3>1 DEF RecordSet
    <3>3. snap[c][k].id \notin touched[c] /\ Same(snap[c][k].id)
      BY <1>3, <3>2
    <3> QED BY <1>a, <3>3 DEF SnapTrue, Same
  <2>2. ASSUME NEW p \in 1 .. Len(todo[c]) PROVE CallTrue(c, todo[c][p])'
    <3>0. PICK op : op = todo[c][p]
      OBVIOUS
    <3>1. op \in AnyOps /\ CallTrue(c, op)
      <4>1. todo[c] \in Seq(AnyOps)
        BY <1>a, CallTyped DEF CuratorTyped
      <4> QED BY <1>a, <3>0, <4>1 DEF TodoTrue
    <3>2. /\ op.do \in Writes => op.id \in Ids
          /\ op.do = "delete" => op.id \in Ids /\ op.keeps \in Ids
          /\ op.do = "vectors" => op.rows \subseteq RecordSet
          /\ op.do = "node" => op.node \in Nodes
      BY <3>1, CallFields
    <3>3. \A i \in Ids : i \notin touched'[c] => i \notin touched[c] /\ Same(i)
      BY <1>3
    <3>4. ASSUME op.do \in Writes, op.id \notin touched'[c] PROVE ~IsProtected(mem'[op.id])
      <4>1. op.id \notin touched[c] /\ Same(op.id)
        BY <3>2, <3>3, <3>4
      <4> QED BY <3>1, <3>4, <4>1, SameProtected DEF CallTrue
    <3>5. ASSUME op.do = "delete"
          PROVE  /\ op.id # op.keeps
                 /\ op.id \notin touched'[c] /\ op.keeps \notin touched'[c] =>
                      /\ mem'[op.keeps].active
                      /\ phase[c] = "vectors" => mem'[op.id].text = mem'[op.keeps].text
                 /\ op.id \notin touched'[c] /\ phase[c] # "vectors" => ~IsProtected(mem'[op.id])
      <4>1. op.id # op.keeps
        BY <3>1, <3>5 DEF CallTrue
      <4>2. ASSUME op.id \notin touched'[c], op.keeps \notin touched'[c]
            PROVE  /\ mem'[op.keeps].active
                   /\ phase[c] = "vectors" => mem'[op.id].text = mem'[op.keeps].text
        <5>1. /\ op.id \notin touched[c] /\ Same(op.id)
              /\ op.keeps \notin touched[c] /\ Same(op.keeps)
          BY <3>2, <3>3, <3>5, <4>2
        <5> QED BY <3>1, <3>5, <5>1 DEF CallTrue, Same
      <4>3. ASSUME op.id \notin touched'[c], phase[c] # "vectors" PROVE ~IsProtected(mem'[op.id])
        <5>1. op.id \notin touched[c] /\ Same(op.id)
          BY <3>2, <3>3, <3>5, <4>3
        <5> QED BY <3>1, <3>5, <4>3, <5>1, SameProtected DEF CallTrue
      <4> QED BY <4>1, <4>2, <4>3
    <3>6. ASSUME op.do = "vectors", NEW r \in op.rows, r.id \notin touched'[c]
          PROVE  mem'[r.id].text = r.text
      <4>1. r.id \in Ids
        BY <3>2, <3>6 DEF RecordSet
      <4>2. r.id \notin touched[c] /\ Same(r.id)
        BY <3>3, <3>6, <4>1
      <4> QED BY <3>1, <3>6, <4>2 DEF CallTrue, Same
    <3>7. ASSUME op.do = "node", op.node \notin touched'[c]
          PROVE  op.shows = Shows(op.node, Current)'
      <4>1. op.node \notin touched[c] /\ Shows(op.node, Current)' = Shows(op.node, Current)
        BY <1>3, <3>2, <3>7
      <4> QED BY <3>1, <3>7, <4>1 DEF CallTrue
    <3>8. CallTrue(c, op)'
      BY <3>4, <3>5, <3>6, <3>7 DEF CallTrue
    <3> QED BY <3>0, <3>8
  <2>3. TodoTrue(c)'
    BY <1>a, <2>2 DEF TodoTrue, Compatible
  <2> QED BY <1>1, <2>1, <2>3 DEF CuratorInv
<1> QED BY <1>2, <1>3 DEF Tracks

-----------------------------------------------------------------------------
(* What one curator decides *)

\* Only curator c goes on.
OnlyMoves(c) ==
  \A d \in Curators \ {c} :
    UNCHANGED <<phase[d], job[d], todo[d], snap[d], found[d], touched[d]>>

LEMMA Moves ==
  ASSUME IndexInv, NEW c \in Curators, UNCHANGED <<mem, order, node, marker, writes>>,
         OnlyMoves(c), CuratorsTyped', GuardHeld', CuratorInv(c)'
  PROVE  IndexInv'
<1>1. ASSUME NEW d \in Curators PROVE CuratorInv(d)'
  <2>1. CASE d = c
    BY <2>1
  <2>2. CASE d # c
    <3>1. UNCHANGED <<phase[d], job[d], todo[d], snap[d], found[d], touched[d]>>
      BY <2>2 DEF OnlyMoves
    <3>2. Tracks(d)
      BY <3>1, QuietTracks
    <3> QED BY <3>1, <3>2, OthersKeep DEF IndexInv
  <2> QED BY <2>1, <2>2
<1>2. StoreInv'
  BY DEF IndexInv, StoreInv, StoreTyped, OrderExact, CleanMeansCurrent, Active, RecordOf
<1> QED BY <1>1, <1>2 DEF IndexInv

LEMMA Begins ==
  ASSUME IndexInv, NEW c \in Curators, Begin(c)
  PROVE  IndexInv'
<1>1. CuratorsTyped /\ CuratorInv(c) /\ GuardHeld
  BY DEF IndexInv
<1>2. PICK j \in JobsOf[c], has \in BOOLEAN :
        /\ job' = [job EXCEPT ![c] = j]
        /\ llm' = [llm EXCEPT ![c] = has]
        /\ phase' = [phase EXCEPT ![c] = IF j \in Guarded THEN "wait"
                                         ELSE IF j = "recall" THEN "recall" ELSE "read"]
  BY DEF Begin
<1>3. job[c] = "idle" /\ UNCHANGED <<guard, found, snap, todo, touched>> /\ Unchanged
  BY DEF Begin
<1>4. j \in Jobs \ {"idle", "over"}
  BY JobsAssumption DEF Jobs
<1>5. CuratorsTyped'
  BY <1>1, <1>2, <1>3, <1>4 DEF CuratorsTyped, Phases
<1>6. /\ job'[c] = j
      /\ phase'[c] = IF j \in Guarded THEN "wait" ELSE IF j = "recall" THEN "recall" ELSE "read"
      /\ OnlyMoves(c)
  BY <1>1, <1>2, <1>3 DEF CuratorsTyped, OnlyMoves
<1>7. GuardHeld'
  <2> SUFFICES ASSUME NEW d \in Curators, job'[d] \in Guarded, phase'[d] # "wait"
               PROVE  guard' = d
    BY DEF GuardHeld
  <2>1. d # c
    BY <1>6
  <2> QED BY <1>1, <1>3, <1>6, <2>1 DEF GuardHeld, OnlyMoves
<1>8. CuratorInv(c)'
  <2>1. todo'[c] = << >> /\ snap'[c] = snap[c]
    BY <1>1, <1>3 DEF CuratorInv, CuratorTyped
  <2>2. CuratorTyped(c)'
    BY <1>1, <1>3, <1>4, <1>6, <2>1 DEF CuratorInv, CuratorTyped, SnapTyped, Decided, Unchanged
  <2> QED BY <1>6, <2>1, <2>2 DEF CuratorInv, SnapTrue, TodoTrue, Holding
<1> QED BY <1>3, <1>5, <1>6, <1>7, <1>8, Moves DEF Unchanged

LEMMA Acquires ==
  ASSUME IndexInv, NEW c \in Curators, Acquire(c)
  PROVE  IndexInv'
<1>1. CuratorsTyped /\ CuratorInv(c) /\ GuardHeld
  BY DEF IndexInv
<1>2. /\ phase[c] = "wait" /\ guard = Null /\ guard' = c
      /\ phase' = [phase EXCEPT ![c] = IF job[c] = "capture" THEN "capture" ELSE "count"]
      /\ UNCHANGED <<job, llm, found, snap, todo, touched>> /\ Unchanged
  BY DEF Acquire
<1>3. CuratorsTyped'
  BY <1>1, <1>2 DEF CuratorsTyped, Phases
<1>4. phase'[c] \in {"capture", "count"} /\ OnlyMoves(c)
  BY <1>1, <1>2 DEF CuratorsTyped, OnlyMoves
<1>5. GuardHeld'
  <2> SUFFICES ASSUME NEW d \in Curators \ {c}, job'[d] \in Guarded, phase'[d] # "wait"
               PROVE  FALSE
    BY <1>2 DEF GuardHeld
  <2>1. guard = d
    BY <1>1, <1>4 DEF GuardHeld, OnlyMoves
  <2> QED BY <1>2, <2>1, NullAssumption
<1>6. CuratorInv(c)'
  <2>1. todo'[c] = << >> /\ snap'[c] = snap[c] /\ job'[c] = job[c] /\ job[c] \notin {"idle", "over"}
    BY <1>1, <1>2 DEF CuratorInv, CuratorTyped, Decided
  <2>2. CuratorTyped(c)'
    BY <1>1, <1>2, <1>4, <2>1 DEF CuratorInv, CuratorTyped, SnapTyped, Decided, Unchanged
  <2> QED BY <1>4, <2>1, <2>2 DEF CuratorInv, SnapTrue, TodoTrue, Holding
<1> QED BY <1>2, <1>3, <1>4, <1>5, <1>6, Moves DEF Unchanged

LEMMA Leaves ==
  ASSUME IndexInv, NEW c \in Curators, Leave(c)
  PROVE  IndexInv'
<1>1. CuratorsTyped /\ GuardHeld
  BY DEF IndexInv
<1>2. CuratorsTyped'
  BY <1>1 DEF CuratorsTyped, Leave, Phases, Jobs
<1>3. /\ phase'[c] = "end" /\ job'[c] = "over" /\ todo'[c] = << >> /\ snap'[c] = << >>
      /\ OnlyMoves(c)
  BY <1>1 DEF CuratorsTyped, OnlyMoves, Leave
<1>4. GuardHeld'
  <2> SUFFICES ASSUME NEW d \in Curators, job'[d] \in Guarded, phase'[d] # "wait"
               PROVE  guard' = d
    BY DEF GuardHeld
  <2>1. d # c
    BY <1>3 DEF Guarded
  <2>2. guard = d
    BY <1>1, <1>3, <2>1 DEF GuardHeld, OnlyMoves
  <2> QED BY <2>1, <2>2 DEF Leave
<1>5. CuratorInv(c)'
  <2>1. CuratorTyped(c)'
    BY <1>3 DEF CuratorTyped, SnapTyped, Decided
  <2> QED BY <1>3, <2>1 DEF CuratorInv, SnapTrue, TodoTrue, Holding
<1> QED BY <1>2, <1>3, <1>4, <1>5, Moves DEF Leave, Unchanged

\* A curator that goes to its next phase and changes what is its own only.
OwnOnly(c) ==
  /\ \E s : snap' = [snap EXCEPT ![c] = s]
  /\ \E s : todo' = [todo EXCEPT ![c] = s]
  /\ \E s : found' = [found EXCEPT ![c] = s]
  /\ \E s : touched' = [touched EXCEPT ![c] = s]

LEMMA TurnsKeep ==
  ASSUME IndexInv, NEW c \in Curators, NEW from \in Phases \ {"wait", "end"}, NEW to \in Phases,
         Turns(c, from, to), OwnOnly(c),
         SnapTyped(c)', SnapTrue(c)', Decided(to, todo'[c]), TodoTrue(c)',
         to = "due" => found'[c] \in 0 .. Cardinality(Ids),
         to = "items" => found'[c] \in Seq(Texts \X Categories),
         to \in {"summaries", "refresh_summaries"} => found'[c] \subseteq Nodes
  PROVE  IndexInv'
<1>1. CuratorsTyped /\ CuratorInv(c) /\ GuardHeld
  BY DEF IndexInv
<1>2. CuratorsTyped'
  BY <1>1 DEF CuratorsTyped, OwnOnly, Turns
<1>3. phase[c] = from /\ phase'[c] = to /\ OnlyMoves(c)
  BY <1>1 DEF CuratorsTyped, OnlyMoves, OwnOnly, Turns
<1>4. GuardHeld'
  <2> SUFFICES ASSUME NEW d \in Curators, job'[d] \in Guarded, phase'[d] # "wait"
               PROVE  guard' = d
    BY DEF GuardHeld
  <2>1. job[d] \in Guarded /\ phase[d] # "wait"
    BY <1>3 DEF OnlyMoves, Turns
  <2> QED BY <1>1, <2>1 DEF GuardHeld, Turns
<1>5. CuratorTyped(c)'
  <2>1. job'[c] = job[c] /\ job[c] \notin {"idle", "over"}
    BY <1>1, <1>3 DEF CuratorInv, CuratorTyped, Turns
  <2>2. Decided(phase[c], todo[c])'
    BY <1>3 DEF Decided
  <2> QED BY <1>3, <2>1, <2>2 DEF CuratorTyped
<1>6. CuratorInv(c)'
  BY <1>5 DEF CuratorInv
<1> QED BY <1>2, <1>3, <1>4, <1>6, Moves DEF Turns, Unchanged

\* Records that are read now are what the store has.
LEMMA ReadsTrue ==
  ASSUME StoreInv, CuratorsTyped, NEW c \in Curators, UNCHANGED mem, ReadsRecords(c)
  PROVE  SnapTyped(c)' /\ SnapTrue(c)' /\ snap'[c] = Records /\ touched'[c] = {}
<1>1. snap'[c] = Records /\ touched'[c] = {}
  BY DEF ReadsRecords, CuratorsTyped
<1>2. /\ Records \in Seq(RecordSet)
      /\ \A j, k \in 1 .. Len(Records) : Records[j].id = Records[k].id => j = k
      /\ \A k \in 1 .. Len(Records) :
           Records[k].id \in Active /\ Records[k] = RecordOf(Records[k].id)
  BY RecordsAreCurrent DEF StoreInv
<1>3. SnapTyped(c)'
  <2>1. \A k \in 1 .. Len(Records) : mem[Records[k].id].text # Null
    BY <1>2, NullAssumption DEF StoreInv, StoreTyped
  <2> QED BY <1>1, <1>2, <2>1 DEF SnapTyped
<1>4. ASSUME NEW k \in 1 .. Len(Records)
      PROVE  LET r == Records[k]
             IN  mem[r.id].active /\ mem[r.id].text = r.text /\ mem[r.id].cat = r.cat
  <2>1. PICK i : i = Records[k].id
    OBVIOUS
  <2>2. i \in Active /\ Records[k] = [id |-> i, text |-> mem[i].text, cat |-> mem[i].cat]
    BY <1>2, <2>1 DEF RecordOf
  <2>3. mem[i].active /\ Records[k].text = mem[i].text /\ Records[k].cat = mem[i].cat
    BY <2>2 DEF Active
  <2> QED BY <2>1, <2>3
<1>5. SnapTrue(c)'
  BY <1>1, <1>4 DEF SnapTrue
<1> QED BY <1>1, <1>3, <1>5

LEMMA KeepsTrue ==
  ASSUME NEW c \in Curators, CuratorInv(c), UNCHANGED <<mem, snap[c], touched[c]>>,
         phase'[c] \in Holding => phase[c] \in Holding
  PROVE  SnapTyped(c)' /\ SnapTrue(c)'
BY DEF CuratorInv, CuratorTyped, SnapTyped, SnapTrue

\* Calls that are each true and compatible in their order are what a curator
\* may decide on.
LEMMA CallsTrue ==
  ASSUME NEW c \in Curators, NEW E, NEW R, todo'[c] \in Seq(E), Pairwise(todo'[c], R),
         \A op \in E : CallTrue(c, op)',
         \A a, b : <<a, b>> \in R => Compatible(a, b)
  PROVE  TodoTrue(c)'
<1>1. PICK calls : calls = todo'[c]
  OBVIOUS
<1>2. \A p \in 1 .. Len(calls) : CallTrue(c, calls[p])'
  <2>1. \A p \in 1 .. Len(calls) : calls[p] \in E
    BY <1>1
  <2> QED BY <2>1
<1>3. \A p, q \in 1 .. Len(calls) : p < q => Compatible(calls[p], calls[q])
  BY <1>1 DEF Pairwise
<1> QED BY <1>1, <1>2, <1>3 DEF TodoTrue

LEMMA OneCall ==
  ASSUME NEW c \in Curators, NEW op, todo'[c] = <<op>>, CallTrue(c, op)'
  PROVE  TodoTrue(c)'
BY DEF TodoTrue

LEMMA NoCall ==
  ASSUME NEW c \in Curators, todo'[c] = << >>
  PROVE  TodoTrue(c)'
BY DEF TodoTrue

\* A variable that is left alone is one whose value at c is put back.
LEMMA PutBack ==
  ASSUME CuratorsTyped, NEW c \in Curators
  PROVE  /\ snap = [snap EXCEPT ![c] = snap[c]]
         /\ todo = [todo EXCEPT ![c] = todo[c]]
         /\ found = [found EXCEPT ![c] = found[c]]
         /\ touched = [touched EXCEPT ![c] = touched[c]]
BY DEF CuratorsTyped

\* Vectors are of the texts as they were read.
LEMMA EmbedTrue ==
  ASSUME NEW c \in Curators, CuratorInv(c), phase[c] \in Holding, NEW records,
         records \subseteq ToSet(snap[c]), UNCHANGED <<mem, touched[c]>>
  PROVE  \/ EmbedCalls(records) = << >>
         \/ \E op \in VectorOps : EmbedCalls(records) = <<op>> /\ CallTrue(c, op)'
<1>1. PICK rows : rows = {r \in records : r.id \in Active => mem[r.id].vec = Null}
  OBVIOUS
<1>2. rows \subseteq records
  BY <1>1
<1>3. EmbedCalls(records) = IF rows = {} THEN << >> ELSE <<[do |-> "vectors", rows |-> rows]>>
  BY <1>1 DEF EmbedCalls
<1>4. PICK op : op = [do |-> "vectors", rows |-> rows]
  OBVIOUS
<1>5. \A r \in rows : \E k \in 1 .. Len(snap[c]) : r = snap[c][k]
  BY <1>2 DEF CuratorInv, CuratorTyped, SnapTyped, ToSet
<1>6. rows \subseteq RecordSet
  BY <1>5 DEF CuratorInv, CuratorTyped, SnapTyped
<1>7. op \in VectorOps
  BY <1>4, <1>6 DEF VectorOps
<1>8. ASSUME NEW r \in rows, r.id \notin touched[c] PROVE mem[r.id].text = r.text
  <2>1. PICK k \in 1 .. Len(snap[c]) : r = snap[c][k]
    BY <1>5
  <2> QED BY <1>8, <2>1 DEF CuratorInv, SnapTrue
<1>9. CallTrue(c, op)'
  BY <1>4, <1>8 DEF CallTrue, Writes
<1> QED BY <1>3, <1>4, <1>7, <1>9

\* Recall reads the records, and writes the vectors that are missing.
LEMMA Recalls ==
  ASSUME IndexInv, NEW c \in Curators, Recall(c)
  PROVE  IndexInv'
<1>1. CuratorsTyped /\ CuratorInv(c) /\ StoreInv
  BY DEF IndexInv
<1>2. Turns(c, "recall", "recalled") /\ ReadsRecords(c) /\ UNCHANGED <<mem, todo, found>>
  BY DEF Recall, Turns, Unchanged
<1>3. SnapTyped(c)' /\ SnapTrue(c)'
  BY <1>1, <1>2, ReadsTrue
<1>4. todo'[c] = << >>
  BY <1>2 DEF Turns
<1>5. OwnOnly(c)
  BY <1>1, <1>2, PutBack DEF OwnOnly, ReadsRecords
<1>6. Decided("recalled", todo'[c])
  BY <1>4 DEF Decided
<1> QED BY <1>2, <1>3, <1>4, <1>5, <1>6, NoCall, TurnsKeep DEF Phases

LEMMA EmbedsRecalled ==
  ASSUME IndexInv, NEW c \in Curators, EmbedRecalled(c)
  PROVE  IndexInv'
<1>1. CuratorsTyped /\ CuratorInv(c)
  BY DEF IndexInv
<1>2. /\ Turns(c, "recalled", "end") /\ UNCHANGED <<mem, found, snap, touched>>
      /\ todo' = [todo EXCEPT ![c] = EmbedCalls(ToSet(snap[c]))]
  BY DEF EmbedRecalled, Turns, Unchanged, Decides
<1>3. phase[c] = "recalled" /\ phase'[c] = "end" /\ todo'[c] = EmbedCalls(ToSet(snap[c]))
  BY <1>1, <1>2 DEF Turns, CuratorsTyped
<1>4. SnapTyped(c)' /\ SnapTrue(c)'
  BY <1>1, <1>2, <1>3, KeepsTrue DEF Holding
<1>5. OwnOnly(c)
  BY <1>1, <1>2, PutBack DEF OwnOnly
<1>6. Decided("end", todo'[c]) /\ TodoTrue(c)'
  <2>1. \/ todo'[c] = << >>
        \/ \E op \in VectorOps : todo'[c] = <<op>> /\ CallTrue(c, op)'
    BY <1>1, <1>2, <1>3, EmbedTrue DEF Holding
  <2>2. CASE todo'[c] = << >>
    <3>1. << >> \in Seq(VectorOps)
      OBVIOUS
    <3> QED BY <2>2, <3>1, NoCall DEF Decided
  <2>3. ASSUME NEW op \in VectorOps, todo'[c] = <<op>>, CallTrue(c, op)'
        PROVE  Decided("end", todo'[c]) /\ TodoTrue(c)'
    <3>1. todo'[c] \in Seq(VectorOps)
      BY <2>3
    <3> QED BY <2>3, <3>1, OneCall DEF Decided
  <2> QED BY <2>1, <2>2, <2>3
<1> QED BY <1>2, <1>4, <1>5, <1>6, TurnsKeep DEF Phases

\* Capture reads the records once, then reconciles what was extracted.
LEMMA Captures ==
  ASSUME IndexInv, NEW c \in Curators, Capture(c)
  PROVE  IndexInv'
<1>1. CuratorsTyped /\ CuratorInv(c) /\ StoreInv
  BY DEF IndexInv
<1>2. PICK items \in Extractions :
        /\ Turns(c, "capture", "items") /\ ReadsRecords(c) /\ UNCHANGED <<mem, todo>>
        /\ found' = [found EXCEPT ![c] = items]
  BY DEF Capture, Turns, Unchanged
<1>3. SnapTyped(c)' /\ SnapTrue(c)'
  BY <1>1, <1>2, ReadsTrue
<1>4. todo'[c] = << >> /\ found'[c] = items /\ items \in Seq(Texts \X Categories)
  BY <1>1, <1>2, ExtractionsAssumption DEF Turns, CuratorsTyped
<1>5. OwnOnly(c)
  BY <1>1, <1>2, PutBack DEF OwnOnly, ReadsRecords
<1>6. Decided("items", todo'[c])
  <2>1. << >> \in Seq(CaptureOps)
    OBVIOUS
  <2> QED BY <1>4, <2>1 DEF Decided
<1> QED BY <1>2, <1>3, <1>4, <1>5, <1>6, NoCall, TurnsKeep DEF Phases

LEMMA TwoCalls ==
  ASSUME NEW c \in Curators, NEW a, NEW b, NEW calls, todo'[c] = calls,
         Len(calls) = 2, calls[1] = a, calls[2] = b,
         CallTrue(c, a)', CallTrue(c, b)', Compatible(a, b)
  PROVE  TodoTrue(c)'
BY DEF TodoTrue

\* What capture decides on for one memory: vectors, then one add or one update
\* of a memory that is no constraint.
LEMMA ItemCalls ==
  ASSUME IndexInv, NEW c \in Curators, Item(c)
  PROVE  \E calls, vectors, ws :
           /\ todo' = [todo EXCEPT ![c] = calls] /\ calls = vectors \o ws
           /\ \/ vectors = << >>
              \/ \E op \in VectorOps : vectors = <<op>> /\ CallTrue(c, op)'
           /\ \/ ws = << >>
              \/ \E op \in AddOps : ws = <<op>>
              \/ \E r \in ToSet(snap[c]), op \in UpdateOps :
                   ws = <<op>> /\ ~IsProtected(r) /\ op.id = r.id
<1> DEFINE Outcome ==
             \E calls, vectors, ws :
               /\ todo' = [todo EXCEPT ![c] = calls] /\ calls = vectors \o ws
               /\ \/ vectors = << >>
                  \/ \E op \in VectorOps : vectors = <<op>> /\ CallTrue(c, op)'
               /\ \/ ws = << >>
                  \/ \E op \in AddOps : ws = <<op>>
                  \/ \E r \in ToSet(snap[c]), op \in UpdateOps :
                       ws = <<op>> /\ ~IsProtected(r) /\ op.id = r.id
<1> SUFFICES Outcome
  OBVIOUS
<1>1. CuratorsTyped /\ CuratorInv(c) /\ StoreInv
  BY DEF IndexInv
<1>2. phase[c] = "items" /\ UNCHANGED <<mem, touched[c]>> /\ found[c] # << >>
  BY DEF Item, Turns, Unchanged
<1>3. PICK item : item = Head(found[c]) /\ item \in Texts \X Categories
  BY <1>1, <1>2 DEF CuratorInv, CuratorTyped
<1>4. PICK text \in Texts, cat \in Categories :
        text = item[1] /\ cat = IF text \in ConstraintTexts THEN Protected ELSE item[2]
  BY <1>3, CategoriesAssumption
<1>5. PICK add : add = [do |-> "add", text |-> text, cat |-> cat]
  OBVIOUS
<1>6. PICK pool : pool = {r \in ToSet(snap[c]) : ~IsProtected(r) /\ Fact[r.text] = Fact[text]}
  OBVIOUS
<1>7. PICK encodes \in BOOLEAN :
        LET embed == IF encodes THEN EmbedCalls(pool) ELSE << >>
        IN  \/ Decides(c, <<add>>)
            \/ Decides(c, << >>)
            \/ Decides(c, embed \o <<add>>)
            \/ \E r \in pool :
                 Decides(c, embed \o IF r.text = text THEN << >>
                                    ELSE <<[do |-> "update", id |-> r.id, text |-> text,
                                            cat |-> cat]>>)
  BY <1>3, <1>4, <1>5, <1>6 DEF Item
<1>8. PICK embed : embed = IF encodes THEN EmbedCalls(pool) ELSE << >>
  OBVIOUS
<1>9. \/ embed = << >>
      \/ \E op \in VectorOps : embed = <<op>> /\ CallTrue(c, op)'
  BY <1>1, <1>2, <1>6, <1>8, EmbedTrue DEF Holding
<1>10. add \in AddOps
  BY <1>5 DEF AddOps
<1>11. /\ embed \o << >> = embed /\ << >> \o << >> = << >>
       /\ << >> \o <<add>> = <<add>>
  BY <1>9
<1>15. ASSUME NEW r \in pool, Decides(c, embed \o << >>)
       PROVE  todo' = [todo EXCEPT ![c] = embed \o << >>]
  BY <1>15 DEF Decides
<1>16. ASSUME NEW r \in pool,
              Decides(c, embed \o <<[do |-> "update", id |-> r.id, text |-> text, cat |-> cat]>>)
       PROVE  \E op \in UpdateOps : /\ todo' = [todo EXCEPT ![c] = embed \o <<op>>]
                                    /\ op.id = r.id /\ r \in ToSet(snap[c]) /\ ~IsProtected(r)
  <2>1. r \in RecordSet
    BY <1>1, <1>6 DEF CuratorInv, CuratorTyped, SnapTyped, ToSet
  <2>2. PICK op : op = [do |-> "update", id |-> r.id, text |-> text, cat |-> cat]
    OBVIOUS
  <2>3. op \in UpdateOps /\ op.id = r.id
    BY <2>1, <2>2 DEF UpdateOps, RecordSet
  <2> QED BY <1>6, <1>16, <2>2, <2>3 DEF Decides
<1>17. \/ Decides(c, <<add>>)
       \/ Decides(c, << >>)
       \/ Decides(c, embed \o <<add>>)
       \/ \E r \in pool :
            \/ Decides(c, embed \o << >>)
            \/ Decides(c, embed \o <<[do |-> "update", id |-> r.id, text |-> text, cat |-> cat]>>)
  BY <1>7, <1>8
<1>19. ASSUME NEW ws, todo' = [todo EXCEPT ![c] = embed \o ws],
              \/ ws = << >>
              \/ \E op \in AddOps : ws = <<op>>
              \/ \E r \in ToSet(snap[c]), op \in UpdateOps :
                   ws = <<op>> /\ ~IsProtected(r) /\ op.id = r.id
       PROVE  Outcome
  BY <1>9, <1>19, Zenon
<1>20. ASSUME NEW r \in pool, Decides(c, embed \o << >>) PROVE Outcome
  BY <1>15, <1>19, <1>20
<1>21. ASSUME NEW r \in pool,
              Decides(c, embed \o <<[do |-> "update", id |-> r.id, text |-> text, cat |-> cat]>>)
       PROVE  Outcome
  <2>1. PICK op \in UpdateOps : /\ todo' = [todo EXCEPT ![c] = embed \o <<op>>]
                                /\ op.id = r.id /\ r \in ToSet(snap[c]) /\ ~IsProtected(r)
    BY <1>16, <1>21
  <2>2. \E q \in ToSet(snap[c]), o \in UpdateOps : <<op>> = <<o>> /\ ~IsProtected(q) /\ o.id = q.id
    BY <2>1
  <2> HIDE DEF Outcome
  <2> QED BY <1>19, <2>1, <2>2
<1>22. CASE Decides(c, embed \o <<add>>)
  <2>1. todo' = [todo EXCEPT ![c] = embed \o <<add>>] /\ \E op \in AddOps : <<add>> = <<op>>
    BY <1>10, <1>22 DEF Decides
  <2> QED BY <1>9, <2>1, Zenon
<1>23. CASE Decides(c, <<add>>)
  <2>1. /\ todo' = [todo EXCEPT ![c] = <<add>>] /\ <<add>> = << >> \o <<add>>
        /\ \E op \in AddOps : <<add>> = <<op>>
    BY <1>10, <1>11, <1>23 DEF Decides
  <2> QED BY <2>1, Zenon
<1>24. CASE Decides(c, << >>)
  <2>1. todo' = [todo EXCEPT ![c] = << >>] /\ << >> = << >> \o << >>
    BY <1>11, <1>24 DEF Decides
  <2> QED BY <2>1, Zenon
<1> HIDE DEF Outcome
<1>25. CASE \E r \in pool :
              \/ Decides(c, embed \o << >>)
              \/ Decides(c, embed \o <<[do |-> "update", id |-> r.id, text |-> text, cat |-> cat]>>)
  BY <1>20, <1>21, <1>25, Zenon
<1> QED BY <1>17, <1>22, <1>23, <1>24, <1>25, Zenon

LEMMA Items ==
  ASSUME IndexInv, NEW c \in Curators, Item(c)
  PROVE  IndexInv'
<1>1. CuratorsTyped /\ CuratorInv(c) /\ StoreInv
  BY DEF IndexInv
<1>2. /\ Turns(c, "items", "items") /\ UNCHANGED <<mem, snap, touched>>
      /\ found[c] # << >> /\ found' = [found EXCEPT ![c] = Tail(@)]
  BY DEF Item, Turns, Unchanged
<1>3. PICK calls, vectors, ws :
        /\ todo' = [todo EXCEPT ![c] = calls] /\ calls = vectors \o ws
        /\ \/ vectors = << >>
           \/ \E op \in VectorOps : vectors = <<op>> /\ CallTrue(c, op)'
        /\ \/ ws = << >>
           \/ \E op \in AddOps : ws = <<op>>
           \/ \E r \in ToSet(snap[c]), op \in UpdateOps :
                ws = <<op>> /\ ~IsProtected(r) /\ op.id = r.id
  BY ItemCalls
<1>4. phase[c] = "items" /\ phase'[c] = "items" /\ todo'[c] = calls /\ found'[c] = Tail(found[c])
  BY <1>1, <1>2, <1>3 DEF Turns, CuratorsTyped
<1>5. SnapTyped(c)' /\ SnapTrue(c)'
  BY <1>1, <1>2, <1>4, KeepsTrue
<1>6. found'[c] \in Seq(Texts \X Categories)
  BY <1>1, <1>2, <1>4 DEF CuratorInv, CuratorTyped
<1>7. OwnOnly(c)
  BY <1>1, <1>2, <1>3, PutBack DEF OwnOnly
<1>8. \/ ws = << >>
      \/ \E op \in AddOps \union UpdateOps : ws = <<op>> /\ CallTrue(c, op)'
  <2>1. ASSUME NEW op \in AddOps PROVE CallTrue(c, op)'
    BY DEF CallTrue, AddOps, Writes
  <2>2. ASSUME NEW r \in ToSet(snap[c]), NEW op \in UpdateOps, ~IsProtected(r), op.id = r.id
        PROVE  CallTrue(c, op)'
    <3>1. PICK k \in 1 .. Len(snap[c]) : r = snap[c][k]
      BY <1>1 DEF CuratorInv, CuratorTyped, SnapTyped, ToSet
    <3>2. r.id \notin touched[c] => ~IsProtected(mem[r.id])
      BY <1>1, <1>4, <2>2, <3>1 DEF CuratorInv, SnapTrue, Holding, IsProtected
    <3> QED BY <1>2, <2>2, <3>2 DEF CallTrue, UpdateOps, Writes
  <2> QED BY <1>3, <2>1, <2>2
<1>9. Decided("items", todo'[c]) /\ TodoTrue(c)'
  <2>0. /\ << >> \o << >> = << >>
        /\ \A a \in CaptureOps : << >> \o <<a>> = <<a>> /\ <<a>> \o << >> = <<a>>
    OBVIOUS
  <2>1. CASE vectors = << >> /\ ws = << >>
    <3>1. calls = << >> /\ calls \in Seq(CaptureOps)
      BY <1>3, <2>0, <2>1
    <3> QED BY <1>4, <3>1, NoCall DEF Decided
  <2>2. ASSUME NEW a \in CaptureOps, calls = <<a>>, CallTrue(c, a)'
        PROVE  Decided("items", todo'[c]) /\ TodoTrue(c)'
    <3>1. calls \in Seq(CaptureOps)
      BY <2>2
    <3> QED BY <1>4, <2>2, <3>1, OneCall DEF Decided
  <2>3. ASSUME NEW a \in VectorOps, NEW b \in AddOps \union UpdateOps, calls = <<a>> \o <<b>>,
               CallTrue(c, a)', CallTrue(c, b)'
        PROVE  Decided("items", todo'[c]) /\ TodoTrue(c)'
    <3>0. a \in CaptureOps /\ b \in CaptureOps
      BY DEF CaptureOps
    <3>1. calls \in Seq(CaptureOps) /\ Len(calls) = 2 /\ calls[1] = a /\ calls[2] = b
      BY <2>3, <3>0
    <3>2. Compatible(a, b)
      BY DEF VectorOps, Compatible, Writes
    <3> QED BY <1>4, <2>3, <3>1, <3>2, TwoCalls DEF Decided
  <2>4. VectorOps \subseteq CaptureOps /\ AddOps \union UpdateOps \subseteq CaptureOps
    BY DEF CaptureOps
  <2>5. ASSUME NEW a \in VectorOps, vectors = <<a>>, CallTrue(c, a)'
        PROVE  Decided("items", todo'[c]) /\ TodoTrue(c)'
    <3>1. CASE ws = << >>
      <4>1. calls = <<a>> /\ a \in CaptureOps
        BY <1>3, <2>0, <2>4, <2>5, <3>1
      <4> QED BY <2>2, <2>5, <4>1
    <3>2. ASSUME NEW b \in AddOps \union UpdateOps, ws = <<b>>, CallTrue(c, b)'
          PROVE  Decided("items", todo'[c]) /\ TodoTrue(c)'
      <4>1. calls = <<a>> \o <<b>>
        BY <1>3, <2>5, <3>2
      <4> QED BY <2>3, <2>5, <3>2, <4>1
    <3> QED BY <1>8, <3>1, <3>2
  <2>6. ASSUME vectors = << >>, NEW b \in AddOps \union UpdateOps, ws = <<b>>, CallTrue(c, b)'
        PROVE  Decided("items", todo'[c]) /\ TodoTrue(c)'
    <3>1. calls = <<b>> /\ b \in CaptureOps
      BY <1>3, <2>0, <2>4, <2>6
    <3> QED BY <2>2, <2>6, <3>1
  <2> QED BY <1>3, <1>8, <2>1, <2>5, <2>6
<1> QED BY <1>2, <1>4, <1>5, <1>6, <1>7, <1>9, TurnsKeep DEF Phases

LEMMA CaptureDone ==
  ASSUME IndexInv, NEW c \in Curators, CaptureEnds(c)
  PROVE  IndexInv'
<1>1. CuratorsTyped /\ CuratorInv(c)
  BY DEF IndexInv
<1>2. /\ Turns(c, "items", "end") /\ UNCHANGED <<mem, snap, todo, touched>>
      /\ found' = [found EXCEPT ![c] = {}]
  BY DEF CaptureEnds, Turns, Unchanged
<1>3. phase'[c] = "end" /\ todo'[c] = << >>
  BY <1>1, <1>2 DEF Turns, CuratorsTyped
<1>4. SnapTyped(c)' /\ SnapTrue(c)'
  BY <1>1, <1>2, <1>3, KeepsTrue DEF Holding
<1>5. OwnOnly(c)
  BY <1>1, <1>2, PutBack DEF OwnOnly
<1>6. Decided("end", todo'[c])
  <2>1. << >> \in Seq(VectorOps)
    OBVIOUS
  <2> QED BY <1>3, <2>1 DEF Decided
<1> QED BY <1>2, <1>3, <1>4, <1>5, <1>6, NoCall, TurnsKeep DEF Phases

\* Of a set of memories there are no more than there are memories.
LEMMA ActiveCount ==
  Cardinality(Active) \in 0 .. Cardinality(Ids)
<1>1. Active \subseteq Ids
  BY DEF Active
<1>2. IsFiniteSet(Active) /\ Cardinality(Active) <= Cardinality(Ids)
  BY <1>1, FiniteAssumption, FS_Subset
<1>3. Cardinality(Active) \in Nat /\ Cardinality(Ids) \in Nat
  BY <1>2, FiniteAssumption, FS_CardinalityType
<1> QED BY <1>2, <1>3

LEMMA Counts ==
  ASSUME IndexInv, NEW c \in Curators, CountActive(c)
  PROVE  IndexInv'
<1>1. CuratorsTyped /\ CuratorInv(c)
  BY DEF IndexInv
<1>2. /\ Turns(c, "count", "due") /\ UNCHANGED <<mem, snap, todo, touched>>
      /\ found' = [found EXCEPT ![c] = Cardinality(Active)]
  BY DEF CountActive, Turns, Unchanged
<1>3. phase[c] = "count" /\ phase'[c] = "due" /\ todo'[c] = << >>
  BY <1>1, <1>2 DEF Turns, CuratorsTyped
<1>4. SnapTyped(c)' /\ SnapTrue(c)'
  BY <1>1, <1>2, <1>3, KeepsTrue DEF Holding
<1>5. found'[c] \in 0 .. Cardinality(Ids)
  BY <1>1, <1>2, ActiveCount DEF CuratorsTyped
<1>6. OwnOnly(c)
  BY <1>1, <1>2, PutBack DEF OwnOnly
<1>7. Decided("due", todo'[c])
  BY <1>3 DEF Decided
<1> QED BY <1>2, <1>3, <1>4, <1>5, <1>6, <1>7, NoCall, TurnsKeep DEF Phases

\* A marker that is not there is put, from a count that was taken.
LEMMA IsDue ==
  ASSUME IndexInv, NEW c \in Curators, Due(c)
  PROVE  IndexInv'
<1>1. CuratorsTyped /\ CuratorInv(c)
  BY DEF IndexInv
<1>a. PICK to \in {"read", "refresh", "end"} :
        \E calls :
          /\ Turns(c, "due", to)
          /\ todo' = [todo EXCEPT ![c] = calls]
          /\ \/ calls = << >>
             \/ to # "read" /\ calls = <<[do |-> "marker", count |-> found[c]]>>
  <2>1. CASE /\ Turns(c, "due", IF AnyDirty THEN "refresh" ELSE "end")
             /\ Decides(c, <<[do |-> "marker", count |-> found[c]]>>)
    <3>1. PICK to \in {"refresh", "end"} : Turns(c, "due", to)
      BY <2>1, Zenon
    <3> QED BY <2>1, <3>1 DEF Decides
  <2>2. CASE /\ Turns(c, "due", IF found[c] - marker >= Every THEN "read"
                                ELSE IF AnyDirty THEN "refresh" ELSE "end")
             /\ UNCHANGED todo
    <3>1. PICK to \in {"read", "refresh", "end"} : Turns(c, "due", to)
      BY <2>2, Zenon
    <3>2. todo[c] = << >>
      BY <2>2 DEF Turns
    <3> QED BY <1>1, <2>2, <3>1, <3>2, PutBack
  <2> QED BY <2>1, <2>2 DEF Due
<1>2. PICK calls :
        /\ Turns(c, "due", to)
        /\ todo' = [todo EXCEPT ![c] = calls]
        /\ \/ calls = << >>
           \/ to # "read" /\ calls = <<[do |-> "marker", count |-> found[c]]>>
  BY <1>a
<1>3. phase[c] = "due" /\ phase'[c] = to /\ todo'[c] = calls /\ UNCHANGED <<mem, snap, touched>>
  BY <1>1, <1>2 DEF Turns, Unchanged, CuratorsTyped, Due
<1>4. SnapTyped(c)' /\ SnapTrue(c)'
  BY <1>1, <1>3, KeepsTrue DEF Holding
<1>5. OwnOnly(c)
  BY <1>1, <1>2, PutBack DEF OwnOnly, Due
<1>6. Decided(to, todo'[c]) /\ TodoTrue(c)'
  <2>1. CASE calls = << >>
    BY <1>3, <2>1, NoCall DEF Decided
  <2>2. CASE to # "read" /\ calls = <<[do |-> "marker", count |-> found[c]]>>
    <3>1. PICK op : op = [do |-> "marker", count |-> found[c]]
      OBVIOUS
    <3>2. op \in MarkerOps
      BY <1>1, <1>3, <3>1 DEF CuratorInv, CuratorTyped, MarkerOps
    <3>3. CallTrue(c, op)'
      BY <3>2 DEF CallTrue, MarkerOps, Writes
    <3>4. calls \in Seq(MarkerOps)
      BY <2>2, <3>1, <3>2
    <3>5. Decided(to, calls)
      BY <2>2, <3>4 DEF Decided
    <3> QED BY <1>3, <2>2, <3>1, <3>3, <3>5, OneCall
  <2> QED BY <1>2, <2>1, <2>2
<1> QED BY <1>2, <1>4, <1>5, <1>6, TurnsKeep DEF Phases

LEMMA NodesRead ==
  ASSUME IndexInv, NEW c \in Curators, ReadNodes(c)
  PROVE  IndexInv'
<1>1. CuratorsTyped /\ CuratorInv(c)
  BY DEF IndexInv
<1>2. PICK from \in {"nodes", "refresh"}, to \in {"summaries", "refresh_summaries"} :
        Turns(c, from, to)
  BY DEF ReadNodes
<1>3. /\ phase'[c] = to /\ todo'[c] = << >> /\ snap'[c] = << >>
      /\ found'[c] \subseteq Nodes
  BY <1>1, <1>2 DEF Turns, CuratorsTyped, ReadNodes
<1>4. SnapTyped(c)' /\ SnapTrue(c)'
  BY <1>3 DEF SnapTyped, SnapTrue
<1>5. OwnOnly(c)
  BY <1>1, PutBack DEF OwnOnly, ReadNodes
<1>6. Decided(to, todo'[c])
  BY <1>3 DEF Decided
<1> QED BY <1>2, <1>3, <1>4, <1>5, <1>6, NoCall, TurnsKeep DEF Phases

LEMMA Finals ==
  ASSUME IndexInv, NEW c \in Curators, Final(c)
  PROVE  IndexInv'
<1>1. CuratorsTyped /\ CuratorInv(c)
  BY DEF IndexInv
<1>2. /\ Turns(c, "final", "end") /\ UNCHANGED <<mem, found, snap, touched>>
      /\ todo' = [todo EXCEPT ![c] = <<[do |-> "marker", count |-> Cardinality(Active)]>>]
  BY DEF Final, Turns, Unchanged, Decides
<1>3. PICK op : op = [do |-> "marker", count |-> Cardinality(Active)]
  OBVIOUS
<1>4. phase'[c] = "end" /\ todo'[c] = <<op>>
  BY <1>1, <1>2, <1>3 DEF Turns, CuratorsTyped
<1>5. SnapTyped(c)' /\ SnapTrue(c)'
  BY <1>1, <1>2, <1>4, KeepsTrue DEF Holding
<1>6. OwnOnly(c)
  BY <1>1, <1>2, PutBack DEF OwnOnly
<1>7. op \in MarkerOps
  BY <1>3, ActiveCount DEF MarkerOps
<1>8. Decided("end", todo'[c])
  <2>1. todo'[c] \in Seq(MarkerOps)
    BY <1>4, <1>7
  <2> QED BY <2>1 DEF Decided
<1>9. CallTrue(c, op)'
  BY <1>7 DEF CallTrue, MarkerOps, Writes
<1> QED BY <1>2, <1>4, <1>5, <1>6, <1>8, <1>9, OneCall, TurnsKeep DEF Phases

LEMMA Embeds ==
  ASSUME IndexInv, NEW c \in Curators, Embed(c)
  PROVE  IndexInv'
<1>1. CuratorsTyped /\ CuratorInv(c)
  BY DEF IndexInv
<1>2. PICK records : /\ records \subseteq ToSet(snap[c])
                     /\ todo' = [todo EXCEPT ![c] = EmbedCalls(records)]
  BY DEF Embed, Decides
<1>3. Turns(c, "vectors", "merge") /\ UNCHANGED <<mem, found, snap, touched>>
  BY DEF Embed, Turns, Unchanged
<1>4. phase[c] = "vectors" /\ phase'[c] = "merge" /\ todo'[c] = EmbedCalls(records)
  BY <1>1, <1>2, <1>3 DEF Turns, CuratorsTyped
<1>5. SnapTyped(c)' /\ SnapTrue(c)'
  BY <1>1, <1>3, <1>4, KeepsTrue DEF Holding
<1>6. OwnOnly(c)
  BY <1>1, <1>2, <1>3, PutBack DEF OwnOnly
<1>7. Decided("merge", todo'[c]) /\ TodoTrue(c)'
  <2>1. \/ todo'[c] = << >>
        \/ \E op \in VectorOps : todo'[c] = <<op>> /\ CallTrue(c, op)'
    BY <1>1, <1>2, <1>3, <1>4, EmbedTrue DEF Holding
  <2>2. CASE todo'[c] = << >>
    <3>1. << >> \in Seq(VectorOps)
      OBVIOUS
    <3> QED BY <2>2, <3>1, NoCall DEF Decided
  <2>3. ASSUME NEW op \in VectorOps, todo'[c] = <<op>>, CallTrue(c, op)'
        PROVE  Decided("merge", todo'[c]) /\ TodoTrue(c)'
    <3>1. todo'[c] \in Seq(VectorOps)
      BY <2>3
    <3> QED BY <2>3, <3>1, OneCall DEF Decided
  <2> QED BY <2>1, <2>2, <2>3
<1> QED BY <1>3, <1>5, <1>6, <1>7, TurnsKeep DEF Phases

-----------------------------------------------------------------------------
(* Calls for many records *)

\* Some position of a sequence is the least of a set of them.
LEMMA NewestIsFirst ==
  ASSUME NEW n \in Nat, NEW T, T \subseteq 1 .. n, T # {}
  PROVE  Newest(T) \in T /\ \A k \in T : Newest(T) <= k
<1>1. T \subseteq Nat
  OBVIOUS
<1>2. \E m \in T : \A k \in T : m <= k
  BY <1>1, Least
<1> QED BY <1>2 DEF Newest, Min

\* A sequence of one or no element.
LEMMA Single ==
  ASSUME NEW E, NEW R, NEW s, s = << >> \/ \E e \in E : s = <<e>>
  PROVE  s \in Seq(E) /\ Pairwise(s, R)
<1>1. CASE s = << >>
  BY <1>1 DEF Pairwise
<1>2. ASSUME NEW e \in E, s = <<e>> PROVE s \in Seq(E) /\ Pairwise(s, R)
  <2>1. Len(s) = 1 /\ s \in Seq(E)
    BY <1>2
  <2> QED BY <2>1 DEF Pairwise
<1> QED BY <1>1, <1>2

\* Calls of which there is at most one for each position.
LEMMA EachPosition ==
  ASSUME NEW E, NEW R, NEW ss, NEW n \in Nat, DOMAIN ss = 1 .. n, ss = [k \in 1 .. n |-> ss[k]],
         \A k \in 1 .. n : ss[k] = << >> \/ \E e \in E : ss[k] = <<e>>,
         \A k, l \in 1 .. n : k < l /\ ss[k] # << >> /\ ss[l] # << >> => <<ss[k][1], ss[l][1]>> \in R
  PROVE  FlattenSeq(ss) \in Seq(E) /\ Pairwise(FlattenSeq(ss), R)
<1>1. \A k \in 1 .. n : ss[k] \in Seq(E) /\ Pairwise(ss[k], R)
  BY Single
<1>2. ss \in Seq(Seq(E)) /\ Len(ss) = n
  BY <1>1
<1>3. ASSUME NEW k \in 1 .. n, NEW l \in 1 .. n, k < l PROVE Across(ss[k], ss[l], R)
  <2>1. CASE ss[k] = << >> \/ ss[l] = << >>
    BY <2>1 DEF Across
  <2>2. CASE ss[k] # << >> /\ ss[l] # << >>
    <3>1. PICK e \in E, f \in E : ss[k] = <<e>> /\ ss[l] = <<f>>
      BY <2>2
    <3>2. <<e, f>> \in R
      BY <1>3, <2>2, <3>1
    <3> QED BY <3>1, <3>2 DEF Across
  <2> QED BY <2>1, <2>2
<1> QED BY <1>1, <1>2, <1>3, FlattenPairwise

\* Pairs of calls that may come one before the other.
Fits(E) == {x \in E \X E : Compatible(x[1], x[2])}

LEMMA FitsCompatible ==
  ASSUME NEW E
  PROVE  \A a, b : <<a, b>> \in Fits(E) => Compatible(a, b)
BY DEF Fits

\* Exact duplicates go, each for the newest of them.
LEMMA Dedups ==
  ASSUME IndexInv, NEW c \in Curators, Dedup(c)
  PROVE  IndexInv'
<1>1. CuratorsTyped /\ CuratorInv(c) /\ StoreInv
  BY DEF IndexInv
<1>2. Turns(c, "read", "vectors") /\ ReadsRecords(c) /\ UNCHANGED <<mem, found>>
  BY DEF Dedup, Turns, Unchanged
<1>3. SnapTyped(c)' /\ SnapTrue(c)' /\ snap'[c] = Records /\ touched'[c] = {}
  BY <1>1, <1>2, ReadsTrue
<1>4. PICK s : s = Records
  OBVIOUS
<1>5. /\ s \in Seq(RecordSet) /\ DOMAIN s = 1 .. Len(s) /\ Len(s) \in Nat
      /\ \A j, k \in 1 .. Len(s) : s[j].id = s[k].id => j = k
      /\ \A k \in 1 .. Len(s) : s[k] \in RecordSet /\ s[k].id \in Active /\ s[k] = RecordOf(s[k].id)
  BY <1>1, <1>4, RecordsAreCurrent DEF StoreInv
<1> DEFINE ss == [k \in DOMAIN s |-> IF First(s, k) = k THEN << >> ELSE <<Drop(s[k], s[First(s, k)])>>]
           E == {op \in DeleteOps : /\ op.id # op.keeps
                                    /\ mem[op.keeps].active /\ mem[op.id].text = mem[op.keeps].text}
<1>6. todo' = [todo EXCEPT ![c] = FlattenSeq(ss)]
  BY <1>4 DEF Dedup, Decides
<1>7. ASSUME NEW k \in 1 .. Len(s)
      PROVE  /\ First(s, k) \in 1 .. Len(s)
             /\ s[First(s, k)].text = s[k].text
             /\ First(s, First(s, k)) = First(s, k)
  <2> DEFINE T(j) == {i \in DOMAIN s : s[i].cat = s[j].cat /\ s[i].text = s[j].text}
  <2>1. T(k) \subseteq 1 .. Len(s) /\ k \in T(k)
    BY <1>5
  <2>2. PICK j : j = First(s, k)
    OBVIOUS
  <2>3. j \in T(k)
    <3>1. First(s, k) = Newest(T(k))
      BY DEF First
    <3> HIDE DEF T
    <3> QED BY <1>5, <2>1, <2>2, <3>1, NewestIsFirst
  <2>4. T(j) = T(k)
    BY <2>3
  <2> QED BY <2>2, <2>3, <2>4, <1>5 DEF First
<1> HIDE DEF ss
<1>8. ASSUME NEW k \in 1 .. Len(s), First(s, k) # k
      PROVE  Drop(s[k], s[First(s, k)]) \in E
  <2>1. PICK j : j = First(s, k)
    OBVIOUS
  <2>2. j \in 1 .. Len(s) /\ j # k /\ s[j].text = s[k].text
    BY <1>7, <1>8, <2>1
  <2>3. /\ s[j].id # s[k].id /\ s[j].id \in Ids /\ s[k].id \in Ids
        /\ mem[s[j].id].active
    BY <1>5, <2>2 DEF RecordSet, Active
  <2>4. \A i \in 1 .. Len(s) : s[i].text = mem[s[i].id].text
    <3> TAKE i \in 1 .. Len(s)
    <3>1. s[i] = RecordOf(s[i].id)
      BY <1>5
    <3> QED BY <3>1 DEF RecordOf
  <2>5. Drop(s[k], s[j]) \in DeleteOps
    BY <2>3 DEF Drop, DeleteOps
  <2>6. Drop(s[k], s[j]).id = s[k].id /\ Drop(s[k], s[j]).keeps = s[j].id
    BY DEF Drop
  <2> QED BY <2>1, <2>2, <2>3, <2>4, <2>5, <2>6
<1>9. FlattenSeq(ss) \in Seq(E) /\ Pairwise(FlattenSeq(ss), Fits(E))
  <2>1. DOMAIN ss = 1 .. Len(s) /\ ss = [k \in 1 .. Len(s) |-> ss[k]]
    BY <1>5 DEF ss
  <2>2. \A k \in 1 .. Len(s) :
          ss[k] = IF First(s, k) = k THEN << >> ELSE <<Drop(s[k], s[First(s, k)])>>
    BY <1>5 DEF ss
  <2>3. \A k \in 1 .. Len(s) : ss[k] = << >> \/ \E e \in E : ss[k] = <<e>>
    <3> HIDE DEF E
    <3> QED BY <1>8, <2>2
  <2>4. ASSUME NEW k \in 1 .. Len(s), NEW l \in 1 .. Len(s), k < l, ss[k] # << >>, ss[l] # << >>
        PROVE  <<ss[k][1], ss[l][1]>> \in Fits(E)
    <3>1. PICK j : j = First(s, l)
      OBVIOUS
    <3>2. First(s, k) # k /\ First(s, l) # l
      BY <2>2, <2>4
    <3>3. j \in 1 .. Len(s) /\ First(s, j) = j
      BY <1>7, <3>1
    <3>4. s[j].id # s[k].id
      BY <1>5, <3>2, <3>3
    <3>5. /\ ss[k][1] = Drop(s[k], s[First(s, k)]) /\ ss[k][1] \in E
          /\ ss[l][1] = Drop(s[l], s[j]) /\ ss[l][1] \in E
      <4>1. ss[k] = <<Drop(s[k], s[First(s, k)])>> /\ ss[l] = <<Drop(s[l], s[j])>>
        BY <2>2, <3>1, <3>2, Zenon
      <4>2. Drop(s[k], s[First(s, k)]) \in E /\ Drop(s[l], s[j]) \in E
        BY <1>8, <3>1, <3>2, Zenon
      <4> HIDE DEF E
      <4> QED BY <4>1, <4>2
    <3>6. ss[k][1].id = s[k].id /\ ss[l][1].keeps = s[j].id /\ ss[k][1].do = "delete"
           /\ ss[l][1].do = "delete"
      BY <3>5 DEF Drop
    <3>7. Compatible(ss[k][1], ss[l][1])
      BY <3>4, <3>6 DEF Compatible, Writes
    <3> HIDE DEF E
    <3> QED BY <3>5, <3>7 DEF Fits
  <2> HIDE DEF E
  <2> QED BY <1>5, <2>1, <2>3, <2>4, EachPosition
<1>10. todo'[c] = FlattenSeq(ss)
  BY <1>1, <1>6 DEF CuratorsTyped
<1>11. phase'[c] = "vectors"
  BY <1>1, <1>2 DEF CuratorsTyped, Turns
<1>12. \A op \in E : CallTrue(c, op)'
  BY <1>2, <1>11 DEF CallTrue, DeleteOps, Writes
<1>13. Decided("vectors", todo'[c])
  <2>1. FlattenSeq(ss) \in Seq(DeleteOps)
    <3>1. E \subseteq DeleteOps
      OBVIOUS
    <3> HIDE DEF E
    <3> QED BY <1>9, <3>1
  <2> QED BY <1>10, <2>1 DEF Decided
<1>14. TodoTrue(c)'
  <2> HIDE DEF E
  <2> QED BY <1>9, <1>10, <1>12, FitsCompatible, CallsTrue
<1>15. OwnOnly(c)
  BY <1>1, <1>2, <1>6, PutBack DEF OwnOnly, ReadsRecords
<1> QED BY <1>2, <1>3, <1>13, <1>14, <1>15, TurnsKeep DEF Phases

\* A curator's records while it merges them: each memory once, and as the store
\* has it unless another wrote to it.
LEMMA RecordsHeld ==
  ASSUME NEW c \in Curators, CuratorInv(c), phase[c] \in Holding
  PROVE  \E s : /\ s = snap[c] /\ s \in Seq(RecordSet)
                /\ DOMAIN s = 1 .. Len(s) /\ Len(s) \in Nat
                /\ \A j, k \in 1 .. Len(s) : s[j].id = s[k].id => j = k
                /\ \A k \in 1 .. Len(s) :
                     /\ s[k].id \in Ids /\ s[k].text \in Texts /\ s[k].cat \in Categories
                     /\ s[k].id \notin touched[c] =>
                          /\ mem[s[k].id].active
                          /\ IsProtected(mem[s[k].id]) <=> IsProtected(s[k])
<1>1. PICK s : s = snap[c]
  OBVIOUS
<1>2. /\ s \in Seq(RecordSet)
      /\ \A j, k \in 1 .. Len(s) : s[j].id = s[k].id => j = k
  BY <1>1 DEF CuratorInv, CuratorTyped, SnapTyped
<1>3. ASSUME NEW k \in 1 .. Len(s)
      PROVE  /\ s[k].id \in Ids /\ s[k].text \in Texts /\ s[k].cat \in Categories
             /\ s[k].id \notin touched[c] =>
                  /\ mem[s[k].id].active
                  /\ IsProtected(mem[s[k].id]) <=> IsProtected(s[k])
  <2>1. s[k] \in RecordSet
    BY <1>2
  <2>2. s[k].id \notin touched[c] =>
          /\ mem[s[k].id].active
          /\ mem[s[k].id].text = s[k].text
          /\ mem[s[k].id].cat = s[k].cat
    BY <1>1 DEF CuratorInv, SnapTrue
  <2> QED BY <2>1, <2>2 DEF RecordSet, IsProtected
<1> QED BY <1>1, <1>2, <1>3

\* General memories that are no constraints move, each once.
LEMMA Reclassifies ==
  ASSUME IndexInv, NEW c \in Curators, Reclassify(c)
  PROVE  IndexInv'
<1>1. CuratorsTyped /\ CuratorInv(c)
  BY DEF IndexInv
<1>2. Turns(c, "reclassify", "nodes") /\ UNCHANGED <<mem, found, snap, touched>>
  BY DEF Reclassify, Turns, Unchanged
<1>3. phase[c] = "reclassify" /\ phase'[c] = "nodes"
  BY <1>1, <1>2 DEF Turns, CuratorsTyped
<1> DEFINE s == snap[c]
<1>4. /\ s \in Seq(RecordSet) /\ DOMAIN s = 1 .. Len(s) /\ Len(s) \in Nat
      /\ \A j, k \in 1 .. Len(s) : s[j].id = s[k].id => j = k
      /\ \A k \in 1 .. Len(s) :
           /\ s[k].id \in Ids /\ s[k].text \in Texts /\ s[k].cat \in Categories
           /\ s[k].id \notin touched[c] =>
                /\ mem[s[k].id].active
                /\ IsProtected(mem[s[k].id]) <=> IsProtected(s[k])
  BY <1>1, <1>3, RecordsHeld DEF Holding
<1> DEFINE open == {k \in DOMAIN s : ~IsProtected(s[k]) /\ s[k].cat = General}
<1>5. PICK to \in [open -> Categories] :
        todo' = [todo EXCEPT ![c] =
                   FlattenSeq([k \in DOMAIN s |->
                                 IF k \in open /\ to[k] # General
                                 THEN <<[do |-> "move", id |-> s[k].id, cat |-> to[k]]>>
                                 ELSE << >>])]
  <2>1. General \in Categories
    BY CategoriesAssumption
  <2>2. PICK to \in [open -> IF llm[c] THEN Categories ELSE {General}] :
          Decides(c, FlattenSeq([k \in DOMAIN s |->
                                    IF k \in open /\ to[k] # General
                                    THEN <<[do |-> "move", id |-> s[k].id, cat |-> to[k]]>>
                                    ELSE << >>]))
    BY DEF Reclassify
  <2>3. to \in [open -> Categories]
    BY <2>1
  <2> QED BY <2>2, <2>3 DEF Decides
<1> HIDE DEF s
<1> DEFINE move(k) == [do |-> "move", id |-> s[k].id, cat |-> to[k]]
           ss == [k \in DOMAIN s |-> IF k \in open /\ to[k] # General THEN <<move(k)>> ELSE << >>]
           E == {op \in MoveOps : op.id \notin touched[c] => ~IsProtected(mem[op.id])}
<1>6. todo'[c] = FlattenSeq(ss)
  BY <1>1, <1>5 DEF CuratorsTyped
<1>7. ASSUME NEW k \in open PROVE move(k) \in E
  BY <1>4 DEF MoveOps
<1>8. \A k, l \in 1 .. Len(s) : k # l => move(k).id # move(l).id
  BY <1>4
<1>9. FlattenSeq(ss) \in Seq(E) /\ Pairwise(FlattenSeq(ss), Fits(E))
  <2>1. DOMAIN ss = 1 .. Len(s) /\ ss = [k \in 1 .. Len(s) |-> ss[k]]
    BY <1>4
  <2>2. \A k \in 1 .. Len(s) : ss[k] = << >> \/ (k \in open /\ ss[k] = <<move(k)>>)
    <3> HIDE DEF open, move
    <3> QED BY <1>4
  <2> HIDE DEF ss, open
  <2>3. \A k \in 1 .. Len(s) : ss[k] = << >> \/ \E e \in E : ss[k] = <<e>>
    <3> HIDE DEF E, move
    <3> QED BY <1>7, <2>2
  <2>4. ASSUME NEW k \in 1 .. Len(s), NEW l \in 1 .. Len(s), k < l, ss[k] # << >>, ss[l] # << >>
        PROVE  <<ss[k][1], ss[l][1]>> \in Fits(E)
    <3>1. ss[k] = <<move(k)>> /\ ss[l] = <<move(l)>> /\ move(k) \in E /\ move(l) \in E
      BY <1>7, <2>2, <2>4, Zenon
    <3>2. move(k).id # move(l).id
      BY <1>8, <2>4
    <3>3. Compatible(move(k), move(l))
      BY <3>1, <3>2 DEF Compatible, Writes, MoveOps
    <3> HIDE DEF E, move
    <3> QED BY <3>1, <3>3 DEF Fits
  <2> HIDE DEF E
  <2> QED BY <1>4, <2>1, <2>3, <2>4, EachPosition
<1> HIDE DEF ss
<1>10. \A op \in E : CallTrue(c, op)'
  BY <1>2 DEF CallTrue, MoveOps, Writes
<1>11. FlattenSeq(ss) \in Seq(MoveOps)
  <2>1. E \subseteq MoveOps
    OBVIOUS
  <2> HIDE DEF E
  <2> QED BY <1>9, <2>1
<1>12. Decided("nodes", todo'[c])
  BY <1>6, <1>11 DEF Decided
<1>13. TodoTrue(c)'
  <2> HIDE DEF E
  <2> QED BY <1>6, <1>9, <1>10, FitsCompatible, CallsTrue
<1>14. SnapTyped(c)' /\ SnapTrue(c)'
  BY <1>1, <1>2, <1>3, KeepsTrue DEF Holding
<1>15. OwnOnly(c)
  BY <1>1, <1>2, <1>5, PutBack DEF OwnOnly
<1> QED BY <1>2, <1>12, <1>13, <1>14, <1>15, TurnsKeep DEF Phases

LEMMA AcrossSets ==
  ASSUME NEW R, NEW A, NEW B, NEW s \in Seq(A), NEW t \in Seq(B),
         \A a \in A, b \in B : <<a, b>> \in R
  PROVE  Across(s, t, R)
BY DEF Across

\* Calls of which there are several for a position.
LEMMA ManyEach ==
  ASSUME NEW E, NEW R, NEW ss, NEW n \in Nat, ss = [k \in 1 .. n |-> ss[k]],
         NEW Of \in [1 .. n -> SUBSET E],
         \A k \in 1 .. n : ss[k] \in Seq(Of[k]) /\ Pairwise(ss[k], R),
         \A k, l \in 1 .. n : k < l => \A a \in Of[k], b \in Of[l] : <<a, b>> \in R
  PROVE  FlattenSeq(ss) \in Seq(E) /\ Pairwise(FlattenSeq(ss), R)
<1>1. ASSUME NEW k \in 1 .. n PROVE ss[k] \in Seq(E)
  <2>1. PICK A \in SUBSET E : ss[k] \in Seq(A)
    OBVIOUS
  <2> QED BY <2>1
<1>2. ss \in Seq(Seq(E)) /\ Len(ss) = n
  BY <1>1
<1>3. ASSUME NEW k \in 1 .. n, NEW l \in 1 .. n, k < l PROVE Across(ss[k], ss[l], R)
  BY <1>3, AcrossSets
<1> QED BY <1>2, <1>3, FlattenPairwise

Rewrite(r, text) == [do |-> "update", id |-> r.id, text |-> text, cat |-> Null]

\* What may be decided on while records are merged, for records in s.
MergeCalls(c) ==
  {op \in RewriteOps \union DeleteOps :
     /\ op.id \notin touched[c] => ~IsProtected(mem[op.id])
     /\ op.do = "delete" =>
          /\ op.id # op.keeps
          /\ op.keeps \notin touched[c] => mem[op.keeps].active}

LEMMA MergeCallsTrue ==
  ASSUME NEW c \in Curators, UNCHANGED <<mem, touched>>, NEW p \in {"contradictions", "reclassify"},
         phase'[c] = p
  PROVE  \A op \in MergeCalls(c) : CallTrue(c, op)'
BY DEF MergeCalls, CallTrue, RewriteOps, DeleteOps, Writes

LEMMA MergeCallsDecided ==
  ASSUME NEW c, NEW p \in {"contradictions", "reclassify"}, NEW calls \in Seq(MergeCalls(c))
  PROVE  Decided(p, calls)
<1>1. MergeCalls(c) \subseteq RewriteOps \union DeleteOps
  BY DEF MergeCalls
<1>2. calls \in Seq(RewriteOps \union DeleteOps)
  BY <1>1
<1> QED BY <1>2 DEF Decided

\* A loser is rewritten as it is and goes, in favour of a memory that is no
\* loser.
LEMMA Contradicts ==
  ASSUME IndexInv, NEW c \in Curators, Contradictions(c)
  PROVE  IndexInv'
<1>1. CuratorsTyped /\ CuratorInv(c)
  BY DEF IndexInv
<1>2. Turns(c, "contradictions", "reclassify") /\ UNCHANGED <<mem, found, snap, touched>>
  BY DEF Contradictions, Turns, Unchanged
<1>3. phase[c] = "contradictions" /\ phase'[c] = "reclassify"
  BY <1>1, <1>2 DEF Turns, CuratorsTyped
<1> DEFINE s == snap[c]
           has == llm[c]
<1>4. /\ s \in Seq(RecordSet) /\ DOMAIN s = 1 .. Len(s) /\ Len(s) \in Nat
      /\ \A j, k \in 1 .. Len(s) : s[j].id = s[k].id => j = k
      /\ \A k \in 1 .. Len(s) :
           /\ s[k].id \in Ids /\ s[k].text \in Texts /\ s[k].cat \in Categories
           /\ s[k].id \notin touched[c] =>
                /\ mem[s[k].id].active
                /\ IsProtected(mem[s[k].id]) <=> IsProtected(s[k])
  BY <1>1, <1>3, RecordsHeld DEF Holding
<1> DEFINE losers == {k \in DOMAIN s : /\ ~IsProtected(s[k])
                                       /\ Winner(s, k, has) # k
                                       /\ has \/ Tag[s[k].text] # Null}
<1>5. PICK named \in SUBSET losers :
        todo' = [todo EXCEPT ![c] =
                   FlattenSeq([k \in DOMAIN s |->
                                 IF k \in named THEN Supersede(s[k], s[Winner(s, k, has)])
                                 ELSE << >>])]
  <2>1. PICK named \in IF has THEN SUBSET losers ELSE {losers} :
          Decides(c, FlattenSeq([k \in DOMAIN s |->
                                   IF k \in named THEN Supersede(s[k], s[Winner(s, k, has)])
                                   ELSE << >>]))
    BY DEF Contradictions
  <2>2. named \in SUBSET losers
    OBVIOUS
  <2> QED BY <2>1, <2>2 DEF Decides
<1> HIDE DEF s, has
<1> DEFINE ss == [k \in DOMAIN s |-> IF k \in named THEN Supersede(s[k], s[Winner(s, k, has)])
                                     ELSE << >>]
           keep == [k \in 1 .. Len(s) |-> s[Winner(s, k, has)]]
           E == MergeCalls(c)
           Of == [k \in 1 .. Len(s) |->
                    IF k \in named THEN {Rewrite(s[k], s[k].text), Drop(s[k], keep[k])} ELSE {}]
<1>6. todo'[c] = FlattenSeq(ss)
  BY <1>1, <1>5 DEF CuratorsTyped
<1>7. ASSUME NEW k \in named
      PROVE  \E w \in 1 .. Len(s) : /\ w = Winner(s, k, has) /\ w \notin named
                                    /\ k \in 1 .. Len(s) /\ ~IsProtected(s[k])
  <2> DEFINE T(j) == {i \in DOMAIN s : /\ ~IsProtected(s[i])
                                       /\ IF has THEN s[i].cat = s[j].cat
                                          ELSE Tag[s[i].text] = Tag[s[j].text]}
  <2>0. k \in losers
    OBVIOUS
  <2>1. T(k) \subseteq 1 .. Len(s) /\ k \in T(k) /\ k \in 1 .. Len(s) /\ ~IsProtected(s[k])
    BY <1>4, <2>0
  <2>2. PICK w : w = Winner(s, k, has)
    OBVIOUS
  <2>3. w \in T(k)
    <3>1. Winner(s, k, has) = Newest(T(k))
      BY DEF Winner
    <3> HIDE DEF T
    <3> QED BY <1>4, <2>1, <2>2, <3>1, NewestIsFirst
  <2>4. T(w) = T(k)
    BY <2>3
  <2>5. Winner(s, w, has) = Newest(T(w)) /\ Winner(s, k, has) = Newest(T(k))
    BY DEF Winner
  <2>6. w \notin losers
    BY <2>2, <2>4, <2>5
  <2> QED BY <1>4, <2>1, <2>2, <2>3, <2>6
<1> HIDE DEF losers
<1>8. ASSUME NEW k \in named
      PROVE  /\ Supersede(s[k], s[Winner(s, k, has)])
                  = <<Rewrite(s[k], s[k].text), Drop(s[k], keep[k])>>
             /\ Rewrite(s[k], s[k].text) \in E
             /\ Drop(s[k], keep[k]) \in E
             /\ Compatible(Rewrite(s[k], s[k].text), Drop(s[k], keep[k]))
             /\ k \in 1 .. Len(s)
             /\ \E w \in 1 .. Len(s) : w \notin named /\ keep[k] = s[w]
  <2>1. PICK w \in 1 .. Len(s) : /\ w = Winner(s, k, has) /\ w \notin named
                                 /\ k \in 1 .. Len(s) /\ ~IsProtected(s[k])
    BY <1>7
  <2>2. keep[k] = s[w]
    BY <2>1
  <2> HIDE DEF keep
  <2>3. Supersede(s[k], s[Winner(s, k, has)]) = <<Rewrite(s[k], s[k].text), Drop(s[k], keep[k])>>
    BY <2>1, <2>2 DEF Supersede, Rewrite
  <2>4. /\ s[k].id \in Ids /\ s[w].id \in Ids /\ s[k].text \in Texts /\ s[w].id # s[k].id
        /\ s[k].id \notin touched[c] => ~IsProtected(mem[s[k].id])
        /\ s[w].id \notin touched[c] => mem[s[w].id].active
    BY <1>4, <2>1
  <2>5. Rewrite(s[k], s[k].text) \in E
    BY <2>4 DEF Rewrite, MergeCalls, RewriteOps
  <2>6. Drop(s[k], keep[k]) \in E
    BY <2>2, <2>4 DEF Drop, MergeCalls, DeleteOps
  <2>7. s[k].text \notin ConstraintTexts
    BY <2>1 DEF IsProtected
  <2>8. Compatible(Rewrite(s[k], s[k].text), Drop(s[k], keep[k]))
    BY <2>7 DEF Compatible, Rewrite, Drop, Writes
  <2> QED BY <2>1, <2>2, <2>3, <2>5, <2>6, <2>8
<1> HIDE DEF E, keep
<1>9. FlattenSeq(ss) \in Seq(E) /\ Pairwise(FlattenSeq(ss), Fits(E))
  <2>1. ss = [k \in 1 .. Len(s) |-> ss[k]]
    BY <1>4
  <2>2. \A k \in 1 .. Len(s) :
          ss[k] = IF k \in named THEN <<Rewrite(s[k], s[k].text), Drop(s[k], keep[k])>>
                  ELSE << >>
    BY <1>4, <1>8
  <2> HIDE DEF ss
  <2>3. Of \in [1 .. Len(s) -> SUBSET E]
    BY <1>8
  <2>4. ASSUME NEW k \in 1 .. Len(s) PROVE ss[k] \in Seq(Of[k]) /\ Pairwise(ss[k], Fits(E))
    <3>1. CASE k \notin named
      <4>1. ss[k] = << >>
        BY <2>2, <3>1
      <4> QED BY <4>1 DEF Pairwise
    <3>2. CASE k \in named
      <4>1. PICK a, b : a = Rewrite(s[k], s[k].text) /\ b = Drop(s[k], keep[k])
        OBVIOUS
      <4>2. ss[k] = <<a, b>> /\ Of[k] = {a, b}
        BY <2>2, <3>2, <4>1
      <4>3. <<a, b>> \in Fits(E)
        BY <1>8, <3>2, <4>1 DEF Fits
      <4> HIDE DEF Of
      <4> QED BY <4>2, <4>3 DEF Pairwise
    <3> QED BY <3>1, <3>2
  <2>5. ASSUME NEW k \in 1 .. Len(s), NEW l \in 1 .. Len(s), k < l,
               NEW a \in Of[k], NEW b \in Of[l]
        PROVE  <<a, b>> \in Fits(E)
    <3>1. k \in named /\ l \in named
      BY <2>5
    <3>2. a \in {Rewrite(s[k], s[k].text), Drop(s[k], keep[k])} /\ a \in E
      BY <1>8, <3>1
    <3>3. b \in {Rewrite(s[l], s[l].text), Drop(s[l], keep[l])} /\ b \in E
      BY <1>8, <3>1
    <3>4. PICK w \in 1 .. Len(s) : w \notin named /\ keep[l] = s[w]
      BY <1>8, <3>1
    <3>5. s[k].id # s[l].id /\ keep[l].id # s[k].id
      BY <1>4, <2>5, <3>1, <3>4
    <3>6. Compatible(a, b)
      BY <3>2, <3>3, <3>5 DEF Compatible, Rewrite, Drop, Writes
    <3> QED BY <3>2, <3>3, <3>6 DEF Fits
  <2> HIDE DEF Of
  <2> QED BY <1>4, <2>1, <2>3, <2>4, <2>5, ManyEach
<1> HIDE DEF ss
<1>10. Decided("reclassify", todo'[c])
  BY <1>6, <1>9, MergeCallsDecided DEF E
<1>11. TodoTrue(c)'
  <2>1. \A op \in E : CallTrue(c, op)'
    BY <1>2, <1>3, MergeCallsTrue DEF E
  <2> QED BY <1>6, <1>9, <2>1, FitsCompatible, CallsTrue
<1>12. SnapTyped(c)' /\ SnapTrue(c)'
  BY <1>1, <1>2, <1>3, KeepsTrue DEF Holding
<1>13. OwnOnly(c)
  BY <1>1, <1>2, <1>5, PutBack DEF OwnOnly
<1> QED BY <1>2, <1>10, <1>11, <1>12, <1>13, TurnsKeep DEF Phases

\* A seed of a cluster may be rewritten, and the others of it go in its favour.
LEMMA Merges ==
  ASSUME IndexInv, NEW c \in Curators, Merge(c)
  PROVE  IndexInv'
<1>1. CuratorsTyped /\ CuratorInv(c)
  BY DEF IndexInv
<1>2. Turns(c, "merge", "contradictions") /\ UNCHANGED <<mem, found, snap, touched>>
  BY DEF Merge, Turns, Unchanged
<1>3. phase[c] = "merge" /\ phase'[c] = "contradictions"
  BY <1>1, <1>2 DEF Turns, CuratorsTyped
<1> DEFINE s == snap[c]
           seeds == {Seed(s, k) : k \in {j \in DOMAIN s : Seed(s, j) # j}}
<1>4. /\ s \in Seq(RecordSet) /\ DOMAIN s = 1 .. Len(s) /\ Len(s) \in Nat
      /\ \A j, k \in 1 .. Len(s) : s[j].id = s[k].id => j = k
      /\ \A k \in 1 .. Len(s) :
           /\ s[k].id \in Ids /\ s[k].text \in Texts /\ s[k].cat \in Categories
           /\ s[k].id \notin touched[c] =>
                /\ mem[s[k].id].active
                /\ IsProtected(mem[s[k].id]) <=> IsProtected(s[k])
  BY <1>1, <1>3, RecordsHeld DEF Holding
<1>5. PICK reply \in [seeds -> Texts \union {Null}] :
        todo' = [todo EXCEPT ![c] =
                   FlattenSeq([k \in DOMAIN s |->
                                 IF k \in seeds THEN MergeInto(s, k, reply[k]) ELSE << >>])]
  <2>1. PICK reply \in [seeds -> IF llm[c] THEN Texts \union {Null} ELSE {Null}] :
          Decides(c, FlattenSeq([k \in DOMAIN s |->
                                   IF k \in seeds THEN MergeInto(s, k, reply[k]) ELSE << >>]))
    BY DEF Merge
  <2>2. reply \in [seeds -> Texts \union {Null}]
    <3> HIDE DEF seeds
    <3> QED OBVIOUS
  <2> QED BY <2>1, <2>2 DEF Decides
<1> HIDE DEF s
<1> DEFINE ss == [k \in DOMAIN s |-> IF k \in seeds THEN MergeInto(s, k, reply[k]) ELSE << >>]
           E == MergeCalls(c)
           Others(k) == {j \in 1 .. Len(s) : j # k /\ Seed(s, j) = k}
           Mine(k) == {Rewrite(s[k], text) : text \in Texts} \union {Drop(s[j], s[k]) : j \in Others(k)}
           Of == [k \in 1 .. Len(s) |-> IF k \in seeds THEN Mine(k) ELSE {}]
<1>6. todo'[c] = FlattenSeq(ss)
  BY <1>1, <1>5 DEF CuratorsTyped
\* Whatever has another seed is no constraint, and neither is the seed, which
\* is its own.
<1>7. ASSUME NEW j \in 1 .. Len(s), Seed(s, j) # j
      PROVE  \E k \in 1 .. Len(s) :
               k = Seed(s, j) /\ Seed(s, k) = k /\ ~IsProtected(s[j]) /\ ~IsProtected(s[k])
  <2> DEFINE T(k) == {i \in DOMAIN s : /\ ~IsProtected(s[i])
                                       /\ s[i].cat = s[k].cat
                                       /\ Fact[s[i].text] = Fact[s[k].text]}
  <2>1. ~IsProtected(s[j])
    BY <1>7 DEF Seed
  <2>2. T(j) \subseteq 1 .. Len(s) /\ j \in T(j)
    BY <1>4, <2>1
  <2>3. PICK k : k = Seed(s, j)
    OBVIOUS
  <2>4. k \in T(j)
    <3>1. Seed(s, j) = Newest(T(j))
      BY <2>1 DEF Seed
    <3> HIDE DEF T
    <3> QED BY <1>4, <2>2, <2>3, <3>1, NewestIsFirst
  <2>5. T(k) = T(j) /\ ~IsProtected(s[k])
    BY <2>4
  <2>6. Seed(s, k) = Newest(T(k)) /\ Seed(s, j) = Newest(T(j))
    BY <2>1, <2>5 DEF Seed
  <2> QED BY <1>4, <2>1, <2>3, <2>4, <2>5, <2>6
<1>8. ASSUME NEW k \in seeds
      PROVE  k \in 1 .. Len(s) /\ Seed(s, k) = k /\ ~IsProtected(s[k])
  <2>1. PICK j \in 1 .. Len(s) : Seed(s, j) # j /\ k = Seed(s, j)
    BY <1>4
  <2> QED BY <1>7, <2>1
<1> HIDE DEF seeds
<1>9. ASSUME NEW k \in seeds
      PROVE  /\ \A text \in Texts : Rewrite(s[k], text) \in E
             /\ \A j \in Others(k) : Drop(s[j], s[k]) \in E
  <2>1. /\ k \in 1 .. Len(s) /\ s[k].id \in Ids
        /\ s[k].id \notin touched[c] => mem[s[k].id].active /\ ~IsProtected(mem[s[k].id])
    BY <1>4, <1>8
  <2>2. ASSUME NEW text \in Texts PROVE Rewrite(s[k], text) \in E
    BY <2>1 DEF Rewrite, MergeCalls, RewriteOps
  <2>3. ASSUME NEW j \in Others(k) PROVE Drop(s[j], s[k]) \in E
    <3>1. j \in 1 .. Len(s) /\ j # k /\ ~IsProtected(s[j])
      BY <1>7
    <3>2. /\ s[j].id \in Ids /\ s[j].id # s[k].id
          /\ s[j].id \notin touched[c] => ~IsProtected(mem[s[j].id])
      BY <1>4, <2>1, <3>1
    <3> QED BY <2>1, <3>2 DEF Drop, MergeCalls, DeleteOps
  <2> QED BY <2>2, <2>3
\* Within one cluster the rewriting of the seed comes first.
<1>10. ASSUME NEW k \in seeds
       PROVE  /\ MergeInto(s, k, reply[k]) \in Seq(Mine(k))
              /\ Pairwise(MergeInto(s, k, reply[k]), Fits(E))
  <2> DEFINE drops == {Drop(s[j], s[k]) : j \in Others(k)}
             ds == [j \in DOMAIN s |-> IF j # k /\ Seed(s, j) = k THEN <<Drop(s[j], s[k])>> ELSE << >>]
             first == IF reply[k] = Null THEN << >> ELSE <<Rewrite(s[k], reply[k])>>
  <2>1. MergeInto(s, k, reply[k]) = first \o FlattenSeq(ds)
    BY DEF MergeInto, Rewrite
  <2>2. \A j, l \in Others(k) : Compatible(Drop(s[j], s[k]), Drop(s[l], s[k]))
    BY <1>4, <1>8 DEF Compatible, Drop, Writes
  <2>3. FlattenSeq(ds) \in Seq(drops) /\ Pairwise(FlattenSeq(ds), Fits(E))
    <3>1. DOMAIN ds = 1 .. Len(s) /\ ds = [j \in 1 .. Len(s) |-> ds[j]]
      BY <1>4
    <3>2. \A j \in 1 .. Len(s) : ds[j] = << >> \/ (j \in Others(k) /\ ds[j] = <<Drop(s[j], s[k])>>)
      BY <1>4
    <3> HIDE DEF ds, Others
    <3>3. \A j \in 1 .. Len(s) : ds[j] = << >> \/ \E e \in drops : ds[j] = <<e>>
      BY <3>2
    <3>4. ASSUME NEW j \in 1 .. Len(s), NEW l \in 1 .. Len(s), j < l, ds[j] # << >>, ds[l] # << >>
          PROVE  <<ds[j][1], ds[l][1]>> \in Fits(E)
      <4>1. /\ j \in Others(k) /\ ds[j] = <<Drop(s[j], s[k])>>
            /\ l \in Others(k) /\ ds[l] = <<Drop(s[l], s[k])>>
        BY <3>2, <3>4, Zenon
      <4>2. Drop(s[j], s[k]) \in E /\ Drop(s[l], s[k]) \in E
        BY <1>9, <4>1, Zenon
      <4>3. Compatible(Drop(s[j], s[k]), Drop(s[l], s[k]))
        BY <2>2, <4>1, Zenon
      <4> HIDE DEF E
      <4> QED BY <4>1, <4>2, <4>3 DEF Fits
    <3> HIDE DEF drops, E
    <3> QED BY <1>4, <3>1, <3>3, <3>4, EachPosition
  <2> HIDE DEF ds, first, drops, E, Others
  <2>4. /\ first \in Seq(Mine(k)) /\ Pairwise(first, Fits(E))
        /\ Across(first, FlattenSeq(ds), Fits(E))
    <3>1. CASE first = << >>
      BY <3>1 DEF Pairwise, Across
    <3>2. ASSUME NEW text \in Texts, first = <<Rewrite(s[k], text)>>
          PROVE  /\ first \in Seq(Mine(k)) /\ Pairwise(first, Fits(E))
                 /\ Across(first, FlattenSeq(ds), Fits(E))
      <4>1. PICK a : a = Rewrite(s[k], text)
        OBVIOUS
      <4>2. a \in Mine(k) /\ a \in E
        BY <1>9, <4>1
      <4>3. ASSUME NEW j \in Others(k) PROVE <<a, Drop(s[j], s[k])>> \in Fits(E)
        <5>1. j \in 1 .. Len(s) /\ k \in 1 .. Len(s) /\ j # k
          BY <1>8 DEF Others
        <5>2. s[j].id # s[k].id
          BY <1>4, <5>1
        <5>3. Compatible(a, Drop(s[j], s[k]))
          BY <4>1, <5>2 DEF Compatible, Drop, Rewrite, Writes
        <5>4. Drop(s[j], s[k]) \in E
          BY <1>9
        <5> QED BY <4>2, <5>3, <5>4 DEF Fits
      <4>4. \A e \in drops : <<a, e>> \in Fits(E)
        BY <4>3 DEF drops
      <4>5. first \in Seq({a})
        BY <3>2, <4>1
      <4>6. Across(first, FlattenSeq(ds), Fits(E))
        BY <2>3, <4>4, <4>5, AcrossSets
      <4>7. first \in Seq(Mine(k)) /\ Pairwise(first, Fits(E))
        <5> HIDE DEF Mine
        <5> QED BY <3>2, <4>1, <4>2, Single
      <4> QED BY <4>6, <4>7
    <3>3. reply[k] \in Texts \union {Null}
      OBVIOUS
    <3> QED BY <3>1, <3>2, <3>3 DEF first
  <2>5. FlattenSeq(ds) \in Seq(Mine(k))
    <3>1. drops \subseteq Mine(k)
      BY DEF drops
    <3> HIDE DEF Mine
    <3> QED BY <2>3, <3>1
  <2> HIDE DEF Mine
  <2> QED BY <2>1, <2>3, <2>4, <2>5, ConcatPairwise
<1>11. FlattenSeq(ss) \in Seq(E) /\ Pairwise(FlattenSeq(ss), Fits(E))
  <2>1. ss = [k \in 1 .. Len(s) |-> ss[k]]
    BY <1>4
  <2>2. \A k \in 1 .. Len(s) :
          ss[k] = IF k \in seeds THEN MergeInto(s, k, reply[k]) ELSE << >>
    BY <1>4
  <2> HIDE DEF ss
  <2>3. Of \in [1 .. Len(s) -> SUBSET E]
    <3>1. \A k \in seeds : Mine(k) \subseteq E
      <4> HIDE DEF E, Others
      <4> QED BY <1>9
    <3> HIDE DEF Mine, E
    <3> QED BY <3>1
  <2>4. ASSUME NEW k \in 1 .. Len(s) PROVE ss[k] \in Seq(Of[k]) /\ Pairwise(ss[k], Fits(E))
    <3>1. CASE k \notin seeds
      <4>1. ss[k] = << >>
        BY <2>2, <3>1
      <4> QED BY <4>1 DEF Pairwise
    <3>2. CASE k \in seeds
      <4>1. ss[k] = MergeInto(s, k, reply[k]) /\ Of[k] = Mine(k)
        BY <2>2, <3>2
      <4> HIDE DEF Of, Mine, E
      <4> QED BY <1>10, <3>2, <4>1
    <3> QED BY <3>1, <3>2
  <2>5. ASSUME NEW k \in 1 .. Len(s), NEW l \in 1 .. Len(s), k < l,
               NEW a \in Of[k], NEW b \in Of[l]
        PROVE  <<a, b>> \in Fits(E)
    <3>1. k \in seeds /\ l \in seeds /\ a \in Mine(k) /\ b \in Mine(l)
      <4> HIDE DEF Mine
      <4> QED BY <2>5
    <3>2. a \in E /\ b \in E
      <4> HIDE DEF E, Others
      <4> QED BY <1>9, <3>1
    <3>3. PICK i \in 1 .. Len(s) :
            /\ Seed(s, i) = k
            /\ \/ \E text \in Texts : a = Rewrite(s[k], text) /\ i = k
               \/ a = Drop(s[i], s[k])
      <4>1. Seed(s, k) = k
        BY <1>8, <3>1
      <4> QED BY <3>1, <4>1
    <3>4. PICK j \in 1 .. Len(s) :
            /\ Seed(s, j) = l
            /\ \/ \E text \in Texts : b = Rewrite(s[l], text) /\ j = l
               \/ b = Drop(s[j], s[l])
      <4>1. Seed(s, l) = l
        BY <1>8, <3>1
      <4> QED BY <3>1, <4>1
    <3>5. s[i].id # s[j].id /\ s[i].id # s[l].id
      <4>1. i # j /\ i # l
        BY <1>8, <2>5, <3>1, <3>3, <3>4
      <4> QED BY <1>4, <4>1
    <3>6. Compatible(a, b)
      BY <3>3, <3>4, <3>5 DEF Compatible, Rewrite, Drop, Writes
    <3> HIDE DEF E
    <3> QED BY <3>2, <3>6 DEF Fits
  <2> HIDE DEF Of, E
  <2> QED BY <1>4, <2>1, <2>3, <2>4, <2>5, ManyEach
<1> HIDE DEF ss
<1>12. Decided("contradictions", todo'[c])
  BY <1>6, <1>11, MergeCallsDecided
<1>13. TodoTrue(c)'
  <2>1. \A op \in E : CallTrue(c, op)'
    BY <1>2, <1>3, MergeCallsTrue
  <2> HIDE DEF E
  <2> QED BY <1>6, <1>11, <2>1, FitsCompatible, CallsTrue
<1>14. SnapTyped(c)' /\ SnapTrue(c)'
  BY <1>1, <1>2, <1>3, KeepsTrue DEF Holding
<1>15. OwnOnly(c)
  BY <1>1, <1>2, <1>5, PutBack DEF OwnOnly
<1> QED BY <1>2, <1>12, <1>13, <1>14, <1>15, TurnsKeep DEF Phases

-----------------------------------------------------------------------------
(* Summaries *)

\* SetToSeq lists a finite set, each element once.
LEMMA Listed ==
  ASSUME NEW S, IsFiniteSet(S)
  PROVE  /\ Cardinality(S) \in Nat
         /\ SetToSeq(S) \in [1 .. Cardinality(S) -> S]
         /\ \A j, k \in 1 .. Cardinality(S) : SetToSeq(S)[j] = SetToSeq(S)[k] => j = k
         /\ \A x \in S : \E k \in 1 .. Cardinality(S) : SetToSeq(S)[k] = x
<1> DEFINE n == Cardinality(S)
<1>1. n \in Nat /\ ExistsBijection(1 .. n, S)
  BY FS_CardinalityType
<1> HIDE DEF n
<1>2. \E f \in [1 .. n -> S] : IsInjective(f)
  BY <1>1 DEF ExistsBijection, Bijection, Injection
<1>3. SetToSeq(S) \in Injection(1 .. n, S)
  BY <1>2 DEF SetToSeq, Injection, n
<1>4. IsFiniteSet(1 .. n) /\ Cardinality(1 .. n) = n
  BY <1>1, FS_Interval
<1>5. SetToSeq(S) \in Surjection(1 .. n, S)
  <2>1. Cardinality(1 .. n) = Cardinality(S)
    BY <1>4 DEF n
  <2> QED BY <1>3, <2>1, FS_Injection
<1> QED BY <1>1, <1>3, <1>5 DEF Injection, Surjection, IsInjective, n

LEMMA CurrentTyped ==
  ASSUME StoreTyped
  PROVE  Current \subseteq RecordSet /\ IsFiniteSet(Current)
<1>1. IsFiniteSet(Active)
  <2>1. Active \subseteq Ids
    BY DEF Active
  <2> QED BY <2>1, FiniteAssumption, FS_Subset
<1> DEFINE f == [i \in Active |-> RecordOf(i)]
<1>2. f \in Surjection(Active, Current)
  BY DEF Surjection, Current
<1>3. Current \subseteq RecordSet
  BY DEF Current, RecordOf, RecordSet, StoreTyped, Active
<1> HIDE DEF f
<1> QED BY <1>1, <1>2, <1>3, FS_Surjection

LEMMA ShowsTyped ==
  ASSUME StoreTyped, NEW n \in Nodes
  PROVE  Shows(n, Current) \in (SUBSET RecordSet) \union [Categories -> Nat]
<1>1. CASE n = Root
  <2>1. ASSUME NEW x \in Categories PROVE Cardinality({r \in Current : r.cat = x}) \in Nat
    <3> DEFINE T == {r \in Current : r.cat = x}
    <3>1. T \subseteq Current
      OBVIOUS
    <3> HIDE DEF T
    <3>2. IsFiniteSet(T)
      BY <3>1, CurrentTyped, FS_Subset
    <3>3. Cardinality(T) \in Nat
      BY <3>2, FS_CardinalityType
    <3> QED BY <3>3 DEF T
  <2>2. Shows(n, Current) = [x \in Categories |-> Cardinality({r \in Current : r.cat = x})]
    BY <1>1, Zenon DEF Shows
  <2>3. [x \in Categories |-> Cardinality({r \in Current : r.cat = x})] \in [Categories -> Nat]
    BY <2>1, Zenon
  <2>4. Shows(n, Current) \in [Categories -> Nat]
    BY <2>2, <2>3, Zenon
  <2> QED BY <2>4
<1>2. CASE n # Root
  BY <1>2, CurrentTyped DEF Shows
<1> QED BY <1>1, <1>2

LEMMA NodesFinite == IsFiniteSet(Nodes)
BY FiniteAssumption, FS_AddElement DEF Nodes

\* What is written to a node is what the records show as they are read.
LEMMA Summarizes ==
  ASSUME IndexInv, NEW c \in Curators, Summarize(c)
  PROVE  IndexInv'
<1>1. CuratorsTyped /\ CuratorInv(c) /\ StoreInv
  BY DEF IndexInv
<1>2. PICK from \in {"summaries", "refresh_summaries"} :
        \E to \in {"final", "end"} : Turns(c, from, to)
  BY DEF Summarize
<1>3. PICK to \in {"final", "end"} : Turns(c, from, to)
  BY <1>2
<1>4. phase[c] = from /\ phase'[c] = to /\ UNCHANGED <<mem, snap, touched>>
  BY <1>1, <1>3 DEF Turns, CuratorsTyped, Unchanged, Summarize
<1> DEFINE D == found[c] \ {Root}
           write(n) == [do |-> "node", node |-> n, shows |-> Shows(n, ToSet(Records))]
           cats == [k \in 1 .. Cardinality(D) |-> write(SetToSeq(D)[k])]
           root == IF found[c] = {} THEN << >> ELSE <<write(Root)>>
           E == {op \in NodeOps : op.shows = Shows(op.node, Current)}
<1>5. todo' = [todo EXCEPT ![c] = cats \o root]
  BY DEF Summarize, Decides
<1>6. found[c] \subseteq Nodes
  BY <1>1, <1>4 DEF CuratorInv, CuratorTyped
<1>7. ASSUME NEW n \in Nodes PROVE write(n) \in E
  <2>1. ToSet(Records) = Current
    BY <1>1, RecordsAreCurrent DEF StoreInv
  <2>2. Shows(n, Current) \in (SUBSET RecordSet) \union [Categories -> Nat]
    BY <1>1, ShowsTyped DEF StoreInv
  <2> QED BY <2>1, <2>2 DEF NodeOps
<1>8. cats \o root \in Seq(E)
  <2>1. IsFiniteSet(D) /\ D \subseteq Nodes /\ Root \in Nodes
    BY <1>6, NodesFinite, FS_Subset DEF Nodes
  <2>2. Cardinality(D) \in Nat /\ SetToSeq(D) \in [1 .. Cardinality(D) -> D]
    <3> HIDE DEF D
    <3> QED BY <2>1, Listed
  <2> HIDE DEF D
  <2>3. \A k \in 1 .. Cardinality(D) : SetToSeq(D)[k] \in Nodes
    BY <2>1, <2>2
  <2> HIDE DEF E, write
  <2>4. cats \in Seq(E)
    BY <1>7, <2>2, <2>3
  <2>5. root \in Seq(E)
    BY <1>7, <2>1
  <2> HIDE DEF cats, root
  <2> QED BY <2>4, <2>5
<1>9. todo'[c] = cats \o root
  BY <1>1, <1>5 DEF CuratorsTyped
<1> DEFINE calls == cats \o root
<1>10. calls \in Seq(E) /\ todo'[c] = calls
  BY <1>8, <1>9
<1> HIDE DEF calls, D, write, cats, root
<1>11. Pairwise(calls, Fits(E))
  <2>1. ASSUME NEW p \in 1 .. Len(calls), NEW q \in 1 .. Len(calls)
        PROVE  <<calls[p], calls[q]>> \in Fits(E)
    <3>1. calls[p] \in E /\ calls[q] \in E
      BY <1>10
    <3>2. Compatible(calls[p], calls[q])
      BY <3>1 DEF Compatible, NodeOps, Writes
    <3> QED BY <3>1, <3>2 DEF Fits
  <2> QED BY <2>1 DEF Pairwise
<1>12. \A op \in E : CallTrue(c, op)'
  BY <1>4 DEF CallTrue, NodeOps, Writes, Current, Active, RecordOf
<1>13. TodoTrue(c)'
  <2> HIDE DEF E
  <2> QED BY <1>10, <1>11, <1>12, FitsCompatible, CallsTrue
<1>14. Decided(to, todo'[c])
  <2>1. E \subseteq NodeOps
    OBVIOUS
  <2>2. calls \in Seq(NodeOps)
    BY <1>10, <2>1
  <2> QED BY <1>10, <2>2 DEF Decided
<1>15. SnapTyped(c)' /\ SnapTrue(c)'
  BY <1>1, <1>4, KeepsTrue DEF Holding
<1>16. OwnOnly(c)
  BY <1>1, <1>5, PutBack DEF OwnOnly, Summarize
<1> QED BY <1>3, <1>13, <1>14, <1>15, <1>16, TurnsKeep DEF Phases

-----------------------------------------------------------------------------
(* A curator makes a call *)

\* The records without the one that was deleted.
LEMMA RecordGone ==
  ASSUME NEW s \in Seq(RecordSet), \A j, k \in 1 .. Len(s) : s[j].id = s[k].id => j = k, NEW i
  PROVE  \E t :
           /\ t = Without(s, i)
           /\ t \in Seq(RecordSet)
           /\ \A j, k \in 1 .. Len(t) : t[j].id = t[k].id => j = k
           /\ \A p \in 1 .. Len(t) : t[p].id # i /\ \E k \in 1 .. Len(s) : t[p] = s[k]
<1>0. PICK t : t = Without(s, i)
  OBVIOUS
<1> DEFINE P(u) == /\ u \in Seq(RecordSet)
                   /\ \A j, k \in 1 .. Len(u) : u[j].id = u[k].id => j = k
                   /\ \A p \in 1 .. Len(u) : u[p].id # i /\ \E k \in 1 .. Len(s) : u[p] = s[k]
           I == {k \in 1 .. Len(s) : s[k].id = i}
<1>1. ASSUME I = {} PROVE P(t)
  <2>1. ~ \E k \in 1 .. Len(s) : s[k].id = i
    BY <1>1
  <2>2. t = s
    BY <1>0, <2>1 DEF Without, RemoveFirstMatch
  <2>3. P(s)
    BY <2>1
  <2> HIDE DEF P
  <2> QED BY <2>2, <2>3, Zenon
<1>2. ASSUME I # {} PROVE P(t)
  <2>1. PICK m \in I : \A k \in I : m <= k
    <3>1. I \subseteq Nat
      OBVIOUS
    <3> HIDE DEF I
    <3> QED BY <1>2, <3>1, Least
  <2>2. Min(I) = m
    BY <2>1 DEF Min
  <2>3. SelectInSeq(s, LAMBDA r : r.id = i) = m
    BY <1>2, <2>2 DEF SelectInSeq
  <2>4. m \in 1 .. Len(s) /\ s[m].id = i /\ t = RemoveAt(s, m)
    BY <1>0, <2>3 DEF Without, RemoveFirstMatch
  <2>5. /\ t \in Seq(RecordSet) /\ Len(t) = Len(s) - 1
        /\ \A j \in 1 .. Len(s) - 1 : t[j] = IF j < m THEN s[j] ELSE s[j + 1]
    BY <2>4, RemoveAtProperties
  <2>6. \A j \in 1 .. Len(t) : \E k \in 1 .. Len(s) :
          t[j] = s[k] /\ k # m /\ k = IF j < m THEN j ELSE j + 1
    BY <2>4, <2>5
  <2>7. \A p \in 1 .. Len(t) : t[p].id # i /\ \E k \in 1 .. Len(s) : t[p] = s[k]
    BY <2>4, <2>6
  <2>8. \A j, k \in 1 .. Len(t) : t[j].id = t[k].id => j = k
    <3> SUFFICES ASSUME NEW j \in 1 .. Len(t), NEW k \in 1 .. Len(t), t[j].id = t[k].id
                 PROVE  j = k
      OBVIOUS
    <3>1. PICK a \in 1 .. Len(s) : t[j] = s[a] /\ a = IF j < m THEN j ELSE j + 1
      BY <2>6
    <3>2. PICK b \in 1 .. Len(s) : t[k] = s[b] /\ b = IF k < m THEN k ELSE k + 1
      BY <2>6
    <3>3. a = b
      BY <3>1, <3>2
    <3>4. j \in Nat /\ k \in Nat /\ m \in Nat
      BY <2>4, <2>5
    <3> QED BY <3>1, <3>2, <3>3, <3>4
  <2> QED BY <2>5, <2>7, <2>8
<1>3. P(t)
  BY <1>1, <1>2, Zenon
<1> QED BY <1>0, <1>3

\* The record of a memory that is written once more.
Renewed(i, text, cat) == [id |-> i, text |-> text, cat |-> IF cat = Null THEN mem[i].cat ELSE cat]

\* The records with the one that was rewritten first.
RewrittenIn(s, i, text, cat, t) ==
  /\ t \in Seq(RecordSet)
  /\ \A j, k \in 1 .. Len(t) : t[j].id = t[k].id => j = k
  /\ i \notin Active => t = s
  /\ i \in Active =>
       \A p \in 1 .. Len(t) :
         \E k \in 1 .. Len(s) : \/ t[p].id # i /\ t[p] = s[k]
                                \/ s[k].id = i /\ t[p] = Renewed(i, text, cat)

LEMMA RecordRewritten ==
  ASSUME NEW s \in Seq(RecordSet), \A j, k \in 1 .. Len(s) : s[j].id = s[k].id => j = k,
         StoreTyped, NEW i, NEW text \in Texts, NEW cat \in Categories \union {Null}, NEW t, t = Rewritten(s, i, text, cat)
  PROVE  RewrittenIn(s, i, text, cat, t)
<1> DEFINE I == {k \in 1 .. Len(s) : s[k].id = i}
<1>0. DOMAIN s = 1 .. Len(s) /\ Len(s) \in Nat
  OBVIOUS
<1>1. CASE I = {} \/ i \notin Active
  <2>1. t = s
    BY <1>0, <1>1 DEF Rewritten
  <2> QED BY <1>1, <2>1 DEF RewrittenIn
<1>2. CASE I # {} /\ i \in Active
  <2>1. PICK m \in I : t = <<Renewed(i, text, cat)>> \o RemoveAt(s, m)
    <3>1. I # {} /\ (CHOOSE k \in I : TRUE) \in I
      BY <1>2
    <3> QED BY <1>0, <1>2, <3>1 DEF Rewritten, Renewed
  <2> DEFINE u == RemoveAt(s, m)
             r == Renewed(i, text, cat)
  <2>2. m \in 1 .. Len(s) /\ s[m].id = i
    OBVIOUS
  <2>3. /\ u \in Seq(RecordSet) /\ Len(u) = Len(s) - 1
        /\ \A j \in 1 .. Len(s) - 1 : u[j] = IF j < m THEN s[j] ELSE s[j + 1]
    BY <2>2, RemoveAtProperties
  <2>4. s[m] \in RecordSet
    BY <2>2
  <2>5. r \in RecordSet /\ r.id = i
    BY <1>2, <2>2, <2>4 DEF RecordSet, Renewed, StoreTyped, Active
  <2> HIDE DEF u, r
  <2>6. /\ t \in Seq(RecordSet) /\ Len(t) = Len(s)
        /\ t[1] = r /\ \A j \in 2 .. Len(s) : t[j] = u[j - 1]
    <3>1. <<r>> \in Seq(RecordSet) /\ Len(<<r>>) = 1 /\ <<r>>[1] = r
      BY <2>5
    <3>2. t = <<r>> \o u
      BY <2>1 DEF r, u
    <3>3. /\ t \in Seq(RecordSet) /\ Len(t) = Len(u) + 1
          /\ \A j \in 1 .. Len(u) + 1 : t[j] = IF j <= 1 THEN <<r>>[j] ELSE u[j - 1]
      BY <2>3, <3>1, <3>2
    <3>4. t[1] = r
      BY <2>3, <3>1, <3>3
    <3>5. \A j \in 2 .. Len(s) : t[j] = u[j - 1]
      BY <2>3, <3>3
    <3> QED BY <2>2, <2>3, <3>3, <3>4, <3>5
  <2>7. \A j \in 2 .. Len(t) : \E k \in 1 .. Len(s) :
          t[j] = s[k] /\ k # m /\ k = IF j - 1 < m THEN j - 1 ELSE j
    <3> TAKE j \in 2 .. Len(t)
    <3>1. j - 1 \in 1 .. Len(s) - 1 /\ t[j] = u[j - 1] /\ (j - 1) + 1 = j
      BY <2>6
    <3>2. t[j] = IF j - 1 < m THEN s[j - 1] ELSE s[j]
      BY <2>3, <3>1
    <3>3. CASE j - 1 < m
      BY <2>2, <3>1, <3>2, <3>3
    <3>4. CASE ~ j - 1 < m
      BY <2>2, <2>6, <3>1, <3>2, <3>4
    <3> QED BY <3>3, <3>4
  <2>8. \A j \in 2 .. Len(t) : t[j].id # i /\ \E k \in 1 .. Len(s) : t[j] = s[k]
    BY <2>2, <2>7
  <2>9. \A j, k \in 1 .. Len(t) : t[j].id = t[k].id => j = k
    <3> SUFFICES ASSUME NEW j \in 1 .. Len(t), NEW k \in 1 .. Len(t), t[j].id = t[k].id
                 PROVE  j = k
      OBVIOUS
    <3>1. CASE j = 1 \/ k = 1
      BY <2>5, <2>6, <2>8, <3>1
    <3>2. CASE j # 1 /\ k # 1
      <4>1. j \in 2 .. Len(t) /\ k \in 2 .. Len(t)
        BY <2>6, <3>2
      <4>2. PICK x \in 1 .. Len(s) : t[j] = s[x] /\ x # m /\ x = IF j - 1 < m THEN j - 1 ELSE j
        BY <2>7, <4>1
      <4>3. PICK y \in 1 .. Len(s) : t[k] = s[y] /\ y # m /\ y = IF k - 1 < m THEN k - 1 ELSE k
        BY <2>7, <4>1
      <4>4. x = y
        BY <2>2, <4>2, <4>3
      <4> QED BY <2>2, <4>1, <4>2, <4>3, <4>4
    <3> QED BY <3>1, <3>2
  <2>10. ASSUME NEW p \in 1 .. Len(t)
         PROVE  \E k \in 1 .. Len(s) : \/ t[p].id # i /\ t[p] = s[k]
                                       \/ s[k].id = i /\ t[p] = Renewed(i, text, cat)
    <3>1. CASE p = 1
      BY <2>2, <2>6, <3>1 DEF r
    <3>2. CASE p # 1
      BY <2>8, <3>2
    <3> QED BY <3>1, <3>2
  <2> QED BY <1>2, <2>6, <2>9, <2>10 DEF RewrittenIn
<1> QED BY <1>1, <1>2

LEMMA SameTracks ==
  ASSUME NEW d \in Curators, touched'[d] = touched[d], \A i \in Ids : Same(i)
  PROVE  Tracks(d)
<1>1. Current' = Current
  BY DEF Current, Active, RecordOf, Same
<1>2. \A n \in Nodes : Shows(n, Current)' = Shows(n, Current)
  BY <1>1 DEF Shows
<1> QED BY <1>2 DEF Tracks, Same

\* The call made, and those that are left.
LEMMA CallAndRest ==
  ASSUME NEW c \in Curators, CuratorInv(c), todo[c] # << >>
  PROVE  \E op, rest :
           /\ op = Head(todo[c]) /\ rest = Tail(todo[c])
           /\ op \in AnyOps /\ CallTrue(c, op)
           /\ Decided(phase[c], <<op>>)
           /\ Decided(phase[c], rest)
           /\ rest \in Seq(AnyOps)
           /\ \A p \in 1 .. Len(rest) :
                CallTrue(c, rest[p]) /\ Compatible(op, rest[p]) /\ Decided(phase[c], <<op, rest[p]>>)
           /\ \A p, q \in 1 .. Len(rest) : p < q => Compatible(rest[p], rest[q])
<1>1. PICK calls : calls = todo[c]
  OBVIOUS
<1>2. /\ Decided(phase[c], calls) /\ calls # << >>
      /\ \A p \in 1 .. Len(calls) : CallTrue(c, calls[p])
      /\ \A p, q \in 1 .. Len(calls) : p < q => Compatible(calls[p], calls[q])
  BY <1>1 DEF CuratorInv, CuratorTyped, TodoTrue
<1>3. ASSUME NEW E, calls \in Seq(E)
      PROVE  /\ Head(calls) \in E /\ Tail(calls) \in Seq(E) /\ <<Head(calls)>> \in Seq(E)
             /\ \A p \in 1 .. Len(Tail(calls)) : <<Head(calls), Tail(calls)[p]>> \in Seq(E)
  <2>1. Head(calls) \in E /\ Tail(calls) \in Seq(E)
    BY <1>2, <1>3
  <2>2. \A e, f \in E : <<e>> \in Seq(E) /\ <<e, f>> \in Seq(E)
    OBVIOUS
  <2> QED BY <2>1, <2>2
<1>4. calls \in Seq(AnyOps)
  BY <1>2, CallTyped
<1> DEFINE op == Head(calls)
           rest == Tail(calls)
<1>5. /\ op = calls[1] /\ 1 \in 1 .. Len(calls)
      /\ \A p \in 1 .. Len(rest) : rest[p] = calls[p + 1] /\ p + 1 \in 2 .. Len(calls)
  BY <1>2, <1>4
<1>6. op \in AnyOps /\ rest \in Seq(AnyOps)
  BY <1>3, <1>4
<1>7. /\ Decided(phase[c], <<op>>) /\ Decided(phase[c], rest)
      /\ \A p \in 1 .. Len(rest) : Decided(phase[c], <<op, rest[p]>>)
  <2> HIDE DEF op, rest
  <2>1. ASSUME NEW E, calls \in Seq(E)
        PROVE  /\ <<op>> \in Seq(E) /\ rest \in Seq(E)
               /\ \A p \in 1 .. Len(rest) : <<op, rest[p]>> \in Seq(E)
    BY <1>3, <2>1 DEF op, rest
  <2> QED BY <1>2, <2>1, Zenon DEF Decided
<1>8. CallTrue(c, op)
  BY <1>2, <1>5
<1>9. ASSUME NEW p \in 1 .. Len(rest) PROVE CallTrue(c, rest[p]) /\ Compatible(op, rest[p])
  BY <1>2, <1>5
<1>10. \A p, q \in 1 .. Len(rest) : p < q => Compatible(rest[p], rest[q])
  BY <1>2, <1>5
<1> HIDE DEF op, rest
<1> QED BY <1>1, <1>6, <1>7, <1>8, <1>9, <1>10 DEF op, rest

\* The calls of one decision, in a few kinds.
LEMMA Kinds ==
  ASSUME NEW p, NEW a, NEW b, Decided(p, <<a, b>>)
  PROVE  \/ a \in CaptureOps /\ b \in CaptureOps /\ p = "items"
         \/ a \in DeleteOps /\ b \in DeleteOps /\ p = "vectors"
         \/ a \in VectorOps /\ b \in VectorOps /\ p \in {"merge", "end"}
         \/ /\ p \in {"contradictions", "reclassify"}
            /\ a \in RewriteOps \union DeleteOps /\ b \in RewriteOps \union DeleteOps
         \/ a \in MoveOps /\ b \in MoveOps /\ p = "nodes"
         \/ a \in NodeOps /\ b \in NodeOps /\ p \in {"final", "end"}
         \/ a \in MarkerOps /\ b \in MarkerOps /\ p \in {"refresh", "end"}
<1>1. \A E : <<a, b>> \in Seq(E) => a \in E /\ b \in E
  <2>1. ASSUME NEW E, <<a, b>> \in Seq(E) PROVE a \in E /\ b \in E
    BY <2>1
  <2> QED BY <2>1
<1>2. <<a, b>> # << >>
  OBVIOUS
<1> QED BY <1>1, <1>2, Zenon DEF Decided

\* A step of curator c that makes a call and leaves the rest for later.
LEMMA Calls ==
  ASSUME IndexInv, NEW c \in Curators, StoreInv', todo[c] # << >>,
         todo' = [todo EXCEPT ![c] = Tail(@)], UNCHANGED <<guard, job, phase, llm, found>>,
         snap' = [d \in Curators |-> IF d = c THEN snap'[c] ELSE snap[d]],
         touched' = [d \in Curators |-> touched'[d]], touched'[c] = touched[c],
         \A d \in Curators \ {c} : Tracks(d),
         SnapTyped(c)', SnapTrue(c)', TodoTrue(c)', Decided(phase[c], Tail(todo[c]))
  PROVE  IndexInv'
<1>1. CuratorsTyped /\ CuratorInv(c) /\ GuardHeld
  BY DEF IndexInv
<1>2. CuratorsTyped'
  BY <1>1 DEF CuratorsTyped
<1>3. GuardHeld'
  BY <1>1 DEF GuardHeld
<1>4. ASSUME NEW d \in Curators PROVE CuratorInv(d)'
  <2>1. CASE d = c
    <3>1. todo'[c] = Tail(todo[c])
      BY <1>1 DEF CuratorsTyped
    <3>2. Decided(phase[c], todo[c])'
      BY <3>1 DEF Decided
    <3>3. CuratorTyped(c)'
      <4>1. job[c] \in {"idle", "over"} => phase[c] = "end" /\ todo[c] = << >>
        BY <1>1 DEF CuratorInv, CuratorTyped
      <4> QED BY <1>1, <3>1, <3>2, <4>1 DEF CuratorInv, CuratorTyped
    <3> QED BY <2>1, <3>3 DEF CuratorInv
  <2>2. CASE d # c
    <3>1. UNCHANGED <<phase[d], job[d], todo[d], snap[d], found[d]>>
      BY <1>1, <2>2 DEF CuratorsTyped
    <3> QED BY <2>2, <3>1, OthersKeep DEF IndexInv
  <2> QED BY <2>1, <2>2
<1> QED BY <1>2, <1>3, <1>4 DEF IndexInv

\* The kind of a call, by the phase it is made in.
LEMMA Kind ==
  ASSUME NEW p, NEW a, Decided(p, <<a>>)
  PROVE  \/ a \in CaptureOps /\ p = "items"
         \/ a \in DeleteOps /\ p = "vectors"
         \/ a \in VectorOps /\ p \in {"merge", "end"}
         \/ a \in RewriteOps \union DeleteOps /\ p \in {"contradictions", "reclassify"}
         \/ a \in MoveOps /\ p = "nodes"
         \/ a \in NodeOps /\ p \in {"final", "end"}
         \/ a \in MarkerOps /\ p \in {"refresh", "end"}
<1>1. \A E : <<a>> \in Seq(E) => a \in E
  OBVIOUS
<1>2. <<a>> # << >>
  OBVIOUS
<1> QED BY <1>1, <1>2, Zenon DEF Decided

\* What is left to do stays right when every call that may come after the one
\* made does.
LEMMA RestTrue ==
  ASSUME NEW c \in Curators, CuratorsTyped, CuratorInv(c), todo[c] # << >>,
         todo' = [todo EXCEPT ![c] = Tail(@)],
         \A b \in AnyOps :
           CallTrue(c, b) /\ Compatible(Head(todo[c]), b) /\ Decided(phase[c], <<Head(todo[c]), b>>)
             => CallTrue(c, b)'
  PROVE  TodoTrue(c)' /\ Decided(phase[c], Tail(todo[c]))
<1>1. PICK op, rest :
        /\ op = Head(todo[c]) /\ rest = Tail(todo[c])
        /\ Decided(phase[c], rest)
        /\ rest \in Seq(AnyOps)
        /\ \A p \in 1 .. Len(rest) :
             CallTrue(c, rest[p]) /\ Compatible(op, rest[p]) /\ Decided(phase[c], <<op, rest[p]>>)
        /\ \A p, q \in 1 .. Len(rest) : p < q => Compatible(rest[p], rest[q])
  BY CallAndRest
<1>2. todo'[c] = rest
  BY <1>1 DEF CuratorsTyped
<1>3. \A p \in 1 .. Len(rest) : CallTrue(c, rest[p])'
  <2> TAKE p \in 1 .. Len(rest)
  <2>1. PICK b : b = rest[p]
    OBVIOUS
  <2>2. b \in AnyOps /\ CallTrue(c, b) /\ Compatible(op, b) /\ Decided(phase[c], <<op, b>>)
    BY <1>1, <2>1
  <2>3. CallTrue(c, b)'
    BY <1>1, <2>2
  <2> QED BY <2>1, <2>3
<1>4. TodoTrue(c)'
  BY <1>1, <1>2, <1>3 DEF TodoTrue
<1> QED BY <1>1, <1>4

\* Which call is made.
LEMMA Made ==
  ASSUME NEW c \in Curators, CuratorInv(c), Do(c)
  PROVE  \E op : /\ op = Head(todo[c]) /\ Carry(c, op) /\ CallTrue(c, op)
                 /\ op \in AnyOps /\ Decided(phase[c], <<op>>)
                 /\ todo[c] # << >> /\ todo' = [todo EXCEPT ![c] = Tail(@)]
                 /\ UNCHANGED <<guard, job, phase, llm, found, writes>>
<1>1. /\ Carry(c, Head(todo[c])) /\ todo[c] # << >> /\ todo' = [todo EXCEPT ![c] = Tail(@)]
      /\ UNCHANGED <<guard, job, phase, llm, found, writes>>
  BY DEF Do, curation
<1> QED BY <1>1, CallAndRest

\* A call that only sets vectors, a node or the marker, or that comes too late.
LEMMA MadeQuietly ==
  ASSUME IndexInv, NEW c \in Curators, StoreInv', todo[c] # << >>,
         todo' = [todo EXCEPT ![c] = Tail(@)], UNCHANGED <<guard, job, phase, llm, found, touched>>,
         snap' = [d \in Curators |-> IF d = c THEN snap'[c] ELSE snap[d]],
         \A i \in Ids : Same(i),
         SnapTyped(c)', \A k \in 1 .. Len(snap'[c]) : \E j \in 1 .. Len(snap[c]) : snap'[c][k] = snap[c][j]
  PROVE  IndexInv'
<1>1. CuratorsTyped /\ CuratorInv(c)
  BY DEF IndexInv
<1>2. Current' = Current
  BY DEF Current, Active, RecordOf, Same
<1>3. ASSUME NEW b \in AnyOps, CallTrue(c, b) PROVE CallTrue(c, b)'
  <2>1. /\ b.do \in Writes => b.id \in Ids
        /\ b.do = "delete" => b.id \in Ids /\ b.keeps \in Ids
        /\ b.do = "vectors" => b.rows \subseteq RecordSet
    BY CallFields
  <2>2. \A i \in Ids : IsProtected(mem'[i]) <=> IsProtected(mem[i])
    BY SameProtected
  <2>3. b.do \in Writes /\ b.id \notin touched'[c] => ~IsProtected(mem'[b.id])
    BY <1>3, <2>1, <2>2 DEF CallTrue
  <2>4. b.do = "delete" =>
          /\ b.id # b.keeps
          /\ b.id \notin touched'[c] /\ b.keeps \notin touched'[c] =>
               /\ mem'[b.keeps].active
               /\ phase[c] = "vectors" => mem'[b.id].text = mem'[b.keeps].text
          /\ b.id \notin touched'[c] /\ phase[c] # "vectors" => ~IsProtected(mem'[b.id])
    <3> HAVE b.do = "delete"
    <3>1. Same(b.id) /\ Same(b.keeps)
      BY <2>1
    <3> QED BY <1>3, <2>1, <2>2, <3>1 DEF CallTrue, Same
  <2>5. ASSUME b.do = "vectors", NEW r \in b.rows, r.id \notin touched'[c]
        PROVE  mem'[r.id].text = r.text
    <3>1. r.id \in Ids
      BY <2>1, <2>5 DEF RecordSet
    <3> QED BY <1>3, <2>5, <3>1 DEF CallTrue, Same
  <2>6. b.do = "node" /\ b.node \notin touched'[c] => b.shows = Shows(b.node, Current)'
    BY <1>2, <1>3 DEF CallTrue, Shows
  <2> QED BY <2>3, <2>4, <2>5, <2>6 DEF CallTrue
<1>4. TodoTrue(c)' /\ Decided(phase[c], Tail(todo[c]))
  BY <1>1, <1>3, RestTrue
<1>5. SnapTrue(c)'
  <2> SUFFICES ASSUME phase[c] \in Holding, NEW k \in 1 .. Len(snap'[c]),
                      snap'[c][k].id \notin touched[c]
               PROVE  /\ mem'[snap'[c][k].id].active
                      /\ mem'[snap'[c][k].id].text = snap'[c][k].text
                      /\ mem'[snap'[c][k].id].cat = snap'[c][k].cat
    BY DEF SnapTrue
  <2>1. PICK j \in 1 .. Len(snap[c]) : snap'[c][k] = snap[c][j]
    OBVIOUS
  <2>2. snap[c][j] \in RecordSet
    BY <1>1 DEF CuratorInv, CuratorTyped, SnapTyped
  <2>3. Same(snap[c][j].id)
    BY <2>2 DEF RecordSet
  <2> QED BY <1>1, <2>1, <2>3 DEF CuratorInv, SnapTrue, Same
<1>6. \A d \in Curators \ {c} : Tracks(d)
  BY SameTracks
<1> QED BY <1>1, <1>4, <1>5, <1>6, Calls DEF CuratorsTyped

LEMMA MakesVectors ==
  ASSUME IndexInv, NEW c \in Curators, NEW op, op \in VectorOps, todo[c] # << >>,
         todo' = [todo EXCEPT ![c] = Tail(@)], UNCHANGED <<guard, job, phase, llm, found, writes>>,
         SetVectors(op.rows), UNCHANGED <<order, node, touched, marker, snap>>
  PROVE  IndexInv'
<1>1. CuratorsTyped /\ CuratorInv(c) /\ StoreInv
  BY DEF IndexInv
<1>2. ASSUME NEW i \in Ids PROVE Same(i) /\ mem'[i] \in MemRecord
  <2>1. mem[i] \in MemRecord
    BY <1>1 DEF StoreInv, StoreTyped, MemRecord
  <2>2. CASE \E r \in op.rows : r.id = i
    <3>1. PICK r \in RecordSet : mem'[i] = [mem[i] EXCEPT !.vec = r.text]
      <4>1. (CHOOSE r \in op.rows : r.id = i) \in op.rows
        BY <2>2
      <4>2. (CHOOSE r \in op.rows : r.id = i) \in RecordSet
        BY <4>1 DEF VectorOps
      <4>3. mem'[i] = [mem[i] EXCEPT !.vec = (CHOOSE r \in op.rows : r.id = i).text]
        BY <2>2 DEF SetVectors
      <4> QED BY <4>2, <4>3
    <3> QED BY <2>1, <3>1 DEF Same, MemRecord, RecordSet
  <2>3. CASE ~ \E r \in op.rows : r.id = i
    BY <2>1, <2>3 DEF SetVectors, Same
  <2> QED BY <2>2, <2>3
<1>3. mem' \in [Ids -> MemRecord]
  <2>1. mem' = [i \in Ids |-> mem'[i]]
    BY DEF SetVectors
  <2> QED BY <1>2, <2>1
<1>4. StoreInv'
  <2>1. Active' = Active /\ \A i \in Active : RecordOf(i)' = RecordOf(i)
    BY <1>2 DEF Active, RecordOf, Same
  <2>2. StoreTyped'
    BY <1>1, <1>2, <1>3, <2>1 DEF StoreInv, StoreTyped, MemRecord, Same, Active
  <2>3. OrderExact'
    BY <1>1, <1>2 DEF StoreInv, OrderExact, Same
  <2>4. CleanMeansCurrent'
    <3>1. {RecordOf(i) : i \in Active}' = {RecordOf(i) : i \in Active}
      BY <2>1
    <3> QED BY <1>1, <3>1 DEF StoreInv, CleanMeansCurrent, Shows
  <2> QED BY <2>2, <2>3, <2>4 DEF StoreInv
<1>5. SnapTyped(c)'
  BY <1>1, <1>2, SnapKept DEF CuratorInv, CuratorTyped, Same
<1> QED BY <1>1, <1>2, <1>4, <1>5, MadeQuietly DEF CuratorsTyped

LEMMA MakesMarker ==
  ASSUME IndexInv, NEW c \in Curators, NEW op, op \in MarkerOps, todo[c] # << >>,
         todo' = [todo EXCEPT ![c] = Tail(@)], UNCHANGED <<guard, job, phase, llm, found, writes>>,
         marker' = op.count, UNCHANGED <<mem, order, node, touched, snap>>
  PROVE  IndexInv'
<1>1. CuratorsTyped /\ CuratorInv(c) /\ StoreInv
  BY DEF IndexInv
<1>2. \A i \in Ids : Same(i)
  BY DEF Same
<1>3. StoreInv'
  <2>1. marker' \in 0 .. Cardinality(Ids)
    BY DEF MarkerOps
  <2> QED BY <1>1, <2>1 DEF StoreInv, StoreTyped, OrderExact, CleanMeansCurrent, Active, RecordOf
<1>4. SnapTyped(c)'
  BY <1>1 DEF CuratorInv, CuratorTyped, SnapTyped
<1> QED BY <1>1, <1>2, <1>3, <1>4, MadeQuietly DEF CuratorsTyped

\* A summary is what the memories are, if nobody wrote since they were read.
LEMMA MakesNode ==
  ASSUME IndexInv, NEW c \in Curators, NEW op, op \in NodeOps, CallTrue(c, op), todo[c] # << >>,
         todo' = [todo EXCEPT ![c] = Tail(@)], UNCHANGED <<guard, job, phase, llm, found, writes>>,
         Upsert(c, op.node, op.shows), UNCHANGED <<mem, order, touched, marker, snap>>
  PROVE  IndexInv'
<1>1. CuratorsTyped /\ CuratorInv(c) /\ StoreInv
  BY DEF IndexInv
<1>2. \A i \in Ids : Same(i)
  BY DEF Same
<1>3. op.node \in Nodes /\ op.do = "node"
  BY DEF NodeOps
<1>4. node' = [n \in Nodes |->
                 IF n = op.node
                 THEN [known |-> TRUE, dirty |-> FALSE, shows |-> op.shows,
                       outrun |-> op.node \in touched[c]]
                 ELSE node[n]]
  BY <1>1, <1>3 DEF Upsert, StoreInv, StoreTyped
<1>5. StoreInv'
  <2>1. StoreTyped'
    BY <1>1, <1>4 DEF StoreInv, StoreTyped, Active
  <2>2. OrderExact'
    BY <1>1 DEF StoreInv, OrderExact
  <2>3. CleanMeansCurrent'
    <3> SUFFICES ASSUME NEW n \in Nodes, (node[n].known /\ ~node[n].dirty /\ ~node[n].outrun)'
                 PROVE  node'[n].shows = Shows(n, Current)
      BY DEF CleanMeansCurrent, Current, Active, RecordOf
    <3>1. CASE n = op.node
      BY <1>3, <1>4, <3>1 DEF CallTrue
    <3>2. CASE n # op.node
      BY <1>1, <1>4, <3>2 DEF StoreInv, CleanMeansCurrent, Current
    <3> QED BY <3>1, <3>2
  <2> QED BY <2>1, <2>2, <2>3 DEF StoreInv
<1>6. SnapTyped(c)'
  BY <1>1 DEF CuratorInv, CuratorTyped, SnapTyped
<1> QED BY <1>1, <1>2, <1>5, <1>6, MadeQuietly DEF CuratorsTyped

\* A call that writes a memory, from what it leaves right for its curator.
LEMMA MadeWriting ==
  ASSUME IndexInv, NEW c \in Curators, NEW i, NEW cats, Wrote(c, i, cats), OrderExact',
         todo[c] # << >>, todo' = [todo EXCEPT ![c] = Tail(@)],
         UNCHANGED <<guard, job, phase, llm, found, writes, marker>>,
         snap' = [d \in Curators |-> IF d = c THEN snap'[c] ELSE snap[d]],
         SnapTyped(c)', SnapTrue(c)',
         \A b \in AnyOps :
           CallTrue(c, b) /\ Compatible(Head(todo[c]), b) /\ Decided(phase[c], <<Head(todo[c]), b>>)
             => CallTrue(c, b)'
  PROVE  IndexInv'
<1>1. CuratorsTyped /\ CuratorInv(c) /\ StoreInv
  BY DEF IndexInv
<1>2. StoreInv'
  <2>1. writes' \in 0 .. MaxWrites
    BY <1>1 DEF StoreInv, StoreTyped
  <2> QED BY <1>1, <2>1, WroteStore
<1>3. TodoTrue(c)' /\ Decided(phase[c], Tail(todo[c]))
  BY <1>1, RestTrue
<1>4. touched' = [d \in Curators |-> touched'[d]] /\ touched'[c] = touched[c]
  BY <1>1 DEF Wrote, Touch
<1>5. \A d \in Curators \ {c} : Tracks(d)
  BY <1>1, WroteTracks
<1> QED BY <1>2, <1>3, <1>4, <1>5, Calls

LEMMA MakesAdd ==
  ASSUME IndexInv, NEW c \in Curators, NEW op, op \in AddOps, op = Head(todo[c]),
         Decided(phase[c], <<op>>), todo[c] # << >>,
         todo' = [todo EXCEPT ![c] = Tail(@)], UNCHANGED <<guard, job, phase, llm, found, writes>>,
         NEW i, Add(c, i, op.text, op.cat), UNCHANGED marker,
         snap' = [snap EXCEPT ![c] = Append(@, [id |-> i, text |-> op.text, cat |-> op.cat])]
  PROVE  IndexInv'
<1>1. CuratorsTyped /\ CuratorInv(c) /\ StoreInv
  BY DEF IndexInv
<1>2. op.text \in Texts /\ op.cat \in Categories /\ op.do = "add"
  BY DEF AddOps
<1>3. Wrote(c, i, {op.cat}) /\ OrderExact'
  BY <1>1, <1>2, AddWrote DEF StoreInv
<1>4. i \in Ids /\ mem[i].text = Null
  BY DEF Add, Free
<1>5. mem'[i] = [active |-> TRUE, text |-> op.text, cat |-> op.cat, vec |-> Null]
  BY <1>1, <1>4 DEF Add, StoreInv, StoreTyped
<1>6. touched'[c] = touched[c] /\ \A j \in Ids \ {i} : mem'[j] = mem[j]
  BY <1>1, <1>3 DEF Wrote, Touch, CuratorsTyped
<1>7. PICK s, r : s = snap[c] /\ r = [id |-> i, text |-> op.text, cat |-> op.cat]
  OBVIOUS
<1>8. /\ s \in Seq(RecordSet) /\ \A j, k \in 1 .. Len(s) : s[j].id = s[k].id => j = k
      /\ \A k \in 1 .. Len(s) : mem[s[k].id].text # Null
  BY <1>1, <1>7 DEF CuratorInv, CuratorTyped, SnapTyped
<1>9. \A k \in 1 .. Len(s) : s[k].id \in Ids /\ s[k].id # i
  <2>1. \A k \in 1 .. Len(s) : s[k] \in RecordSet /\ s[k].id # i
    BY <1>4, <1>8
  <2> QED BY <2>1 DEF RecordSet
<1>10. r \in RecordSet /\ r.id = i
  BY <1>2, <1>4, <1>7 DEF RecordSet
<1>11. PICK t : t = Append(s, r)
  OBVIOUS
<1>12. /\ t \in Seq(RecordSet) /\ Len(t) = Len(s) + 1 /\ t[Len(s) + 1] = r
       /\ \A k \in 1 .. Len(s) : t[k] = s[k]
  BY <1>8, <1>10, <1>11
<1>a. Len(s) \in Nat
  BY <1>8
<1>13. snap' = [d \in Curators |-> IF d = c THEN t ELSE snap[d]] /\ snap'[c] = t
  BY <1>1, <1>7, <1>11 DEF CuratorsTyped
<1>14. \A k \in 1 .. Len(t) : \/ k \in 1 .. Len(s) /\ t[k] = s[k]
                              \/ k = Len(s) + 1 /\ t[k] = r
  BY <1>12, <1>a
<1>15. SnapTyped(c)'
  <2>1. \A j, k \in 1 .. Len(t) : t[j].id = t[k].id => j = k
    BY <1>8, <1>9, <1>10, <1>14
  <2>2. \A k \in 1 .. Len(t) : mem'[t[k].id].text # Null
    BY <1>2, <1>5, <1>6, <1>8, <1>9, <1>10, <1>14, NullAssumption
  <2> QED BY <1>12, <1>13, <2>1, <2>2 DEF SnapTyped
<1>16. SnapTrue(c)'
  <2> SUFFICES ASSUME phase[c] \in Holding, NEW k \in 1 .. Len(t), t[k].id \notin touched[c]
               PROVE  /\ mem'[t[k].id].active
                      /\ mem'[t[k].id].text = t[k].text
                      /\ mem'[t[k].id].cat = t[k].cat
    BY <1>6, <1>13 DEF SnapTrue
  <2>1. CASE t[k] = r
    BY <1>5, <1>7, <1>10, <2>1
  <2>2. CASE k \in 1 .. Len(s) /\ t[k] = s[k]
    <3>1. mem'[s[k].id] = mem[s[k].id]
      BY <1>6, <1>9, <2>2
    <3> QED BY <1>1, <1>7, <2>2, <3>1 DEF CuratorInv, SnapTrue
  <2> QED BY <1>14, <2>1, <2>2
<1>17. ASSUME NEW b, Compatible(op, b) PROVE CallTrue(c, b)'
  BY <1>2, <1>17 DEF Compatible
<1>18. snap' = [d \in Curators |-> IF d = c THEN snap'[c] ELSE snap[d]]
  BY <1>13
<1> QED BY <1>1, <1>3, <1>15, <1>16, <1>17, <1>18, MadeWriting

LEMMA MakesMove ==
  ASSUME IndexInv, NEW c \in Curators, NEW op, op \in MoveOps, op = Head(todo[c]),
         Decided(phase[c], <<op>>), todo[c] # << >>,
         todo' = [todo EXCEPT ![c] = Tail(@)], UNCHANGED <<guard, job, phase, llm, found, writes>>,
         Move(c, op.id, op.cat), UNCHANGED <<marker, snap>>
  PROVE  IndexInv'
<1>1. CuratorsTyped /\ CuratorInv(c) /\ StoreInv
  BY DEF IndexInv
<1>2. op.id \in Ids /\ op.cat \in Categories /\ op.do = "move"
  BY DEF MoveOps
<1>3. CASE op.id \notin Active
  <2>1. UNCHANGED <<mem, order, node, touched>>
    BY <1>3 DEF Move
  <2>2. StoreInv'
    BY <1>1, <2>1 DEF StoreInv, StoreTyped, OrderExact, CleanMeansCurrent, Active, RecordOf
  <2>3. \A j \in Ids : Same(j)
    BY <2>1 DEF Same
  <2>4. SnapTyped(c)'
    BY <1>1, <2>3, SnapKept DEF CuratorInv, CuratorTyped, Same
  <2> QED BY <1>1, <2>1, <2>2, <2>3, <2>4, MadeQuietly DEF CuratorsTyped
<1>4. CASE op.id \in Active
  <2>1. /\ Wrote(c, op.id, {mem[op.id].cat, op.cat}) /\ OrderExact'
    BY <1>1, <1>2, <1>4, MoveWrote DEF StoreInv
  <2>2. phase[c] = "nodes"
    BY Kind, <1>2 DEF CaptureOps, AddOps, UpdateOps, DeleteOps, VectorOps, RewriteOps, MoveOps, NodeOps, MarkerOps
  <2>3. SnapTyped(c)' /\ SnapTrue(c)'
    <3>1. \A j \in Ids : mem[j].text # Null => mem'[j].text # Null
      BY <2>1 DEF Wrote
    <3> QED BY <1>1, <2>2, <3>1, SnapKept DEF CuratorInv, CuratorTyped, SnapTrue, Holding
  <2>4. ASSUME NEW b, CallTrue(c, b), Compatible(op, b), Decided(phase[c], <<op, b>>)
        PROVE  CallTrue(c, b)'
    <3>1. b \in MoveOps
      BY <1>2, <2>4, Kinds DEF CaptureOps, AddOps, UpdateOps, DeleteOps, VectorOps, RewriteOps, NodeOps,
                               MarkerOps
    <3>2. b.do = "move" /\ b.id \in Ids /\ b.id # op.id
      BY <1>2, <2>4, <3>1 DEF MoveOps, Compatible, Writes
    <3>3. mem'[b.id] = mem[b.id] /\ touched'[c] = touched[c]
      BY <2>1, <3>2 DEF Wrote, Touch
    <3> QED BY <2>4, <3>2, <3>3 DEF CallTrue, IsProtected, Writes
  <2> QED BY <1>1, <2>1, <2>3, <2>4, MadeWriting DEF CuratorsTyped
<1> QED BY <1>3, <1>4

LEMMA MakesDelete ==
  ASSUME IndexInv, NEW c \in Curators, NEW op, op \in DeleteOps, op = Head(todo[c]),
         Decided(phase[c], <<op>>), todo[c] # << >>,
         todo' = [todo EXCEPT ![c] = Tail(@)], UNCHANGED <<guard, job, phase, llm, found, writes>>,
         Delete(c, op.id), snap' = [snap EXCEPT ![c] = Without(@, op.id)], UNCHANGED marker
  PROVE  IndexInv'
<1>1. CuratorsTyped /\ CuratorInv(c) /\ StoreInv
  BY DEF IndexInv
<1>2. op.id \in Ids /\ op.do = "delete"
  BY DEF DeleteOps
<1>3. PICK s : s = snap[c]
  OBVIOUS
<1>4. s \in Seq(RecordSet) /\ \A j, k \in 1 .. Len(s) : s[j].id = s[k].id => j = k
  BY <1>1, <1>3 DEF CuratorInv, CuratorTyped, SnapTyped
<1>5. PICK t :
        /\ t = Without(s, op.id)
        /\ t \in Seq(RecordSet)
        /\ \A j, k \in 1 .. Len(t) : t[j].id = t[k].id => j = k
        /\ \A p \in 1 .. Len(t) : t[p].id # op.id /\ \E k \in 1 .. Len(s) : t[p] = s[k]
  BY <1>4, RecordGone
<1>6. snap' = [d \in Curators |-> IF d = c THEN t ELSE snap[d]] /\ snap'[c] = t
  BY <1>1, <1>3, <1>5 DEF CuratorsTyped
<1>7. SnapTyped(c)'
  <2>1. \A k \in 1 .. Len(s) : s[k] \in RecordSet /\ mem[s[k].id].text # Null
    BY <1>1, <1>3 DEF CuratorInv, CuratorTyped, SnapTyped
  <2>2. \A k \in 1 .. Len(s) : s[k].id \in Ids
    BY <2>1 DEF RecordSet
  <2>3. \A j \in Ids : mem[j].text # Null => mem'[j].text # Null
    BY <1>1, <1>2, NullAssumption DEF Delete, StoreInv, StoreTyped
  <2>4. \A p \in 1 .. Len(t) : mem'[t[p].id].text # Null
    BY <1>5, <2>1, <2>2, <2>3
  <2> QED BY <1>5, <1>6, <2>4 DEF SnapTyped
<1>8. CASE op.id \notin Active
  <2>1. UNCHANGED <<mem, order, node, touched>>
    BY <1>8 DEF Delete
  <2>2. StoreInv'
    BY <1>1, <2>1 DEF StoreInv, StoreTyped, OrderExact, CleanMeansCurrent, Active, RecordOf
  <2>3. \A j \in Ids : Same(j)
    BY <2>1 DEF Same
  <2>4. \A k \in 1 .. Len(snap'[c]) : \E j \in 1 .. Len(snap[c]) : snap'[c][k] = snap[c][j]
    BY <1>3, <1>5, <1>6
  <2>5. snap' = [d \in Curators |-> IF d = c THEN snap'[c] ELSE snap[d]]
    BY <1>6
  <2> QED BY <1>7, <2>1, <2>2, <2>3, <2>4, <2>5, MadeQuietly
<1>9. CASE op.id \in Active
  <2>1. /\ Wrote(c, op.id, {mem[op.id].cat}) /\ OrderExact'
        /\ mem'[op.id] = [mem[op.id] EXCEPT !.active = FALSE]
    BY <1>1, <1>9, DeleteWrote DEF StoreInv
  <2>2. phase[c] \in {"vectors", "contradictions", "reclassify"}
    BY Kind, <1>2 DEF CaptureOps, AddOps, UpdateOps, DeleteOps, VectorOps, RewriteOps, MoveOps, NodeOps, MarkerOps
  <2>3. touched'[c] = touched[c] /\ \A j \in Ids \ {op.id} : mem'[j] = mem[j]
    BY <2>1 DEF Wrote, Touch
  <2>4. \A j \in Ids : mem'[j].text = mem[j].text /\ mem'[j].cat = mem[j].cat
    <3>1. mem[op.id] \in MemRecord
      BY <1>1, <1>2 DEF StoreInv, StoreTyped, MemRecord
    <3>2. mem'[op.id].text = mem[op.id].text /\ mem'[op.id].cat = mem[op.id].cat
      BY <2>1, <3>1 DEF MemRecord
    <3> QED BY <2>3, <3>2
  <2>5. SnapTrue(c)'
    <3> SUFFICES ASSUME phase[c] \in Holding, NEW p \in 1 .. Len(t), t[p].id \notin touched[c]
                 PROVE  /\ mem'[t[p].id].active
                        /\ mem'[t[p].id].text = t[p].text
                        /\ mem'[t[p].id].cat = t[p].cat
      BY <1>6, <2>3 DEF SnapTrue
    <3>1. PICK k \in 1 .. Len(s) : t[p] = s[k] /\ t[p].id # op.id
      BY <1>5
    <3>a. t[p] \in RecordSet
      BY <1>5
    <3>2. t[p].id \in Ids
      BY <3>a DEF RecordSet
    <3>3. mem'[t[p].id] = mem[t[p].id]
      BY <2>3, <3>1, <3>2
    <3> QED BY <1>1, <1>3, <3>1, <3>3 DEF CuratorInv, SnapTrue
  <2>6. ASSUME NEW b, CallTrue(c, b), Compatible(op, b), Decided(phase[c], <<op, b>>)
        PROVE  CallTrue(c, b)'
    <3>1. b \in RewriteOps \union DeleteOps
      BY <1>2, <2>6, Kinds DEF CaptureOps, AddOps, UpdateOps, DeleteOps, VectorOps, RewriteOps, MoveOps, NodeOps,
                               MarkerOps
    <3>2. /\ b.id \in Ids /\ b.do \in {"update", "delete"}
          /\ b.do = "delete" => b.keeps \in Ids /\ b.keeps # op.id
      BY <1>2, <2>6, <3>1 DEF RewriteOps, DeleteOps, Compatible
    <3>3. IsProtected(mem'[b.id]) <=> IsProtected(mem[b.id])
      BY <2>4, <3>2 DEF IsProtected
    <3>4. CASE b.do = "update"
      BY <2>3, <2>6, <3>3, <3>4 DEF CallTrue, Writes
    <3>5. CASE b.do = "delete"
      <4>1. mem'[b.keeps] = mem[b.keeps] /\ mem'[b.id].text = mem[b.id].text
        BY <2>3, <2>4, <3>2, <3>5
      <4> QED BY <2>3, <2>6, <3>3, <3>5, <4>1 DEF CallTrue, Writes
    <3> QED BY <3>2, <3>4, <3>5
  <2>7. snap' = [d \in Curators |-> IF d = c THEN snap'[c] ELSE snap[d]]
    BY <1>6
  <2> QED BY <1>7, <2>1, <2>5, <2>6, <2>7, MadeWriting
<1> QED BY <1>8, <1>9

LEMMA MakesUpdate ==
  ASSUME IndexInv, NEW c \in Curators, NEW op, op \in UpdateOps \union RewriteOps,
         op = Head(todo[c]), CallTrue(c, op), Decided(phase[c], <<op>>), todo[c] # << >>,
         todo' = [todo EXCEPT ![c] = Tail(@)], UNCHANGED <<guard, job, phase, llm, found, writes>>,
         Update(c, op.id, op.text, op.cat),
         snap' = [snap EXCEPT ![c] = Rewritten(@, op.id, op.text, op.cat)], UNCHANGED marker
  PROVE  IndexInv'
<1>1. CuratorsTyped /\ CuratorInv(c) /\ StoreInv
  BY DEF IndexInv
<1>2. /\ op.id \in Ids /\ op.do = "update" /\ op.text \in Texts
      /\ op.cat \in Categories \union {Null}
  BY DEF UpdateOps, RewriteOps
<1>3. PICK s : s = snap[c]
  OBVIOUS
<1>4. s \in Seq(RecordSet) /\ \A j, k \in 1 .. Len(s) : s[j].id = s[k].id => j = k
  BY <1>1, <1>3 DEF CuratorInv, CuratorTyped, SnapTyped
<1>5. PICK t : t = Rewritten(s, op.id, op.text, op.cat)
  OBVIOUS
<1>6. RewrittenIn(s, op.id, op.text, op.cat, t)
  <2>1. PICK cat : cat = op.cat
    OBVIOUS
  <2>2. cat \in Categories \union {Null} /\ t = Rewritten(s, op.id, op.text, cat) /\ StoreTyped
    BY <1>1, <1>2, <1>5, <2>1 DEF StoreInv
  <2>3. RewrittenIn(s, op.id, op.text, cat, t)
    BY <1>2, <1>4, <2>2, RecordRewritten
  <2> QED BY <2>1, <2>3
<1>7. snap' = [d \in Curators |-> IF d = c THEN t ELSE snap[d]] /\ snap'[c] = t
  BY <1>1, <1>3, <1>5 DEF CuratorsTyped
<1>8. SnapTyped(c)'
  <2>0. \A k \in 1 .. Len(s) : s[k] \in RecordSet /\ mem[s[k].id].text # Null
    BY <1>1, <1>3 DEF CuratorInv, CuratorTyped, SnapTyped
  <2>1. \A k \in 1 .. Len(s) : mem[s[k].id].text # Null /\ s[k].id \in Ids
    BY <2>0 DEF RecordSet
  <2>2. CASE op.id \notin Active
    BY <1>6, <1>7, <2>1, <2>2 DEF SnapTyped, RewrittenIn, Update
  <2>3. CASE op.id \in Active
    <3>1. \A j \in Ids : mem[j].text # Null => mem'[j].text # Null
      BY <1>1, <1>2, <2>3, NullAssumption DEF Update, StoreInv, StoreTyped
    <3>2. mem'[op.id].text # Null
      BY <1>1, <1>2, <2>3, NullAssumption DEF Update, StoreInv, StoreTyped
    <3>3. \A p \in 1 .. Len(t) : \E k \in 1 .. Len(s) :
            t[p] = s[k] \/ t[p] = Renewed(op.id, op.text, op.cat)
      BY <1>6, <2>3 DEF RewrittenIn
    <3>4. \A p \in 1 .. Len(t) : mem'[t[p].id].text # Null
      BY <2>1, <3>1, <3>2, <3>3 DEF Renewed
    <3> QED BY <1>6, <1>7, <3>4 DEF SnapTyped, RewrittenIn
  <2> QED BY <2>2, <2>3
<1>9. snap' = [d \in Curators |-> IF d = c THEN snap'[c] ELSE snap[d]]
  BY <1>7
<1>10. CASE op.id \notin Active
  <2>1. UNCHANGED <<mem, order, node, touched>>
    BY <1>10 DEF Update
  <2>2. StoreInv'
    BY <1>1, <2>1 DEF StoreInv, StoreTyped, OrderExact, CleanMeansCurrent, Active, RecordOf
  <2>3. \A j \in Ids : Same(j)
    BY <2>1 DEF Same
  <2>4. \A k \in 1 .. Len(snap'[c]) : \E j \in 1 .. Len(snap[c]) : snap'[c][k] = snap[c][j]
    BY <1>3, <1>6, <1>7, <1>10 DEF RewrittenIn
  <2> QED BY <1>8, <1>9, <2>1, <2>2, <2>3, <2>4, MadeQuietly
<1>11. CASE op.id \in Active
  <2>0. PICK new : new = IF op.cat = Null THEN mem[op.id].cat ELSE op.cat
    OBVIOUS
  <2>1. /\ Wrote(c, op.id, {mem[op.id].cat, new}) /\ OrderExact'
        /\ mem'[op.id] = [active |-> TRUE, text |-> op.text, cat |-> new, vec |-> Null]
    <3>1. StoreTyped /\ OrderExact
      BY <1>1 DEF StoreInv
    <3>2. PICK i, text, cat : i = op.id /\ text = op.text /\ cat = op.cat
      OBVIOUS
    <3>3. Update(c, i, text, cat)
      BY <3>2
    <3>4. i \in Active /\ text \in Texts /\ cat \in Categories \union {Null}
      BY <1>2, <1>11, <3>2
    <3>5. new = IF cat = Null THEN mem[i].cat ELSE cat
      BY <2>0, <3>2
    <3>6. /\ Wrote(c, i, {mem[i].cat, new}) /\ OrderExact'
          /\ mem'[i] = [active |-> TRUE, text |-> text, cat |-> new, vec |-> Null]
      BY <3>1, <3>3, <3>4, <3>5, UpdateWrote
    <3> QED BY <3>2, <3>6
  <2>2. \/ phase[c] = "items" /\ op \in UpdateOps
        \/ phase[c] \in {"contradictions", "reclassify"} /\ op \in RewriteOps
    BY Kind, <1>2 DEF CaptureOps, AddOps, UpdateOps, DeleteOps, VectorOps, RewriteOps, MoveOps, NodeOps, MarkerOps
  <2>3. touched'[c] = touched[c] /\ \A j \in Ids \ {op.id} : mem'[j] = mem[j]
    BY <2>1 DEF Wrote, Touch
  <2>4. op \in RewriteOps => mem'[op.id].cat = mem[op.id].cat
    BY <2>0, <2>1 DEF RewriteOps
  <2>a. mem'[op.id].active /\ mem'[op.id].text = op.text
    BY <2>1
  <2>5. SnapTrue(c)'
    <3> SUFFICES ASSUME phase[c] \in Holding, NEW p \in 1 .. Len(t), t[p].id \notin touched[c]
                 PROVE  /\ mem'[t[p].id].active
                        /\ mem'[t[p].id].text = t[p].text
                        /\ mem'[t[p].id].cat = t[p].cat
      BY <1>7, <2>3 DEF SnapTrue
    <3>1. PICK k \in 1 .. Len(s) : \/ t[p].id # op.id /\ t[p] = s[k]
                                   \/ s[k].id = op.id /\ t[p] = Renewed(op.id, op.text, op.cat)
      BY <1>6, <1>11 DEF RewrittenIn
    <3>a. t[p] \in RecordSet /\ s[k] \in RecordSet
      BY <1>4, <1>6 DEF RewrittenIn
    <3>2. t[p].id \in Ids
      BY <3>a DEF RecordSet
    <3>3. CASE t[p].id # op.id /\ t[p] = s[k]
      <4>1. mem'[t[p].id] = mem[t[p].id]
        BY <2>3, <3>2, <3>3
      <4> QED BY <1>1, <1>3, <3>3, <4>1 DEF CuratorInv, SnapTrue
    <3>4. CASE t[p] = Renewed(op.id, op.text, op.cat)
      <4>1. t[p].id = op.id /\ t[p].text = op.text /\ t[p].cat = new
        BY <2>0, <3>4 DEF Renewed
      <4> QED BY <2>1, <4>1
    <3> QED BY <3>1, <3>3, <3>4
  <2>6. ASSUME NEW b, CallTrue(c, b), Compatible(op, b), Decided(phase[c], <<op, b>>)
        PROVE  CallTrue(c, b)'
    <3>1. \/ b \in AddOps \union UpdateOps
          \/ b \in RewriteOps \union DeleteOps /\ op \in RewriteOps /\ phase[c] # "vectors"
      <4>1. b.do = "vectors" => b \notin CaptureOps \/ phase[c] # "items"
        BY <1>2, <2>6 DEF Compatible
      <4> QED BY <1>2, <2>2, <2>6, <4>1, Kinds DEF CaptureOps, VectorOps, DeleteOps, MoveOps, NodeOps,
                                                  MarkerOps
    <3>b. CASE b \in AddOps
      BY <3>b DEF CallTrue, AddOps, Writes
    <3> SUFFICES ASSUME b \notin AddOps PROVE CallTrue(c, b)'
      BY <3>b
    <3>2. /\ b.id \in Ids /\ b.do \in {"update", "delete"}
          /\ b.do = "update" => b.id # op.id
          /\ b.do = "delete" => /\ b.keeps \in Ids /\ op \in RewriteOps /\ phase[c] # "vectors"
                                /\ b.id = op.id => op.text \notin ConstraintTexts
      BY <1>2, <2>6, <3>1 DEF UpdateOps, RewriteOps, DeleteOps, Compatible, Writes
    <3>3. CASE b.do = "update"
      <4>1. mem'[b.id] = mem[b.id]
        BY <2>3, <3>2, <3>3
      <4> QED BY <2>3, <2>6, <3>3, <4>1 DEF CallTrue, IsProtected, Writes
    <3>4. CASE b.do = "delete"
      <4>1. b.id # b.keeps
        BY <2>6, <3>4 DEF CallTrue
      <4>2. b.id \notin touched[c] /\ b.keeps \notin touched[c] => mem'[b.keeps].active
        <5>1. b.keeps # op.id => mem'[b.keeps] = mem[b.keeps]
          BY <2>3, <3>2, <3>4
        <5> QED BY <2>6, <2>a, <3>4, <5>1 DEF CallTrue
      <4>3. b.id \notin touched[c] => ~IsProtected(mem'[b.id])
        <5>1. b.id \notin touched[c] => ~IsProtected(mem[b.id])
          BY <2>6, <3>2, <3>4 DEF CallTrue
        <5>2. CASE b.id # op.id
          BY <2>3, <3>2, <5>1, <5>2
        <5>3. CASE b.id = op.id
          BY <2>4, <2>a, <3>2, <3>4, <5>1, <5>3 DEF IsProtected
        <5> QED BY <5>2, <5>3
      <4> QED BY <2>3, <3>2, <3>4, <4>1, <4>2, <4>3 DEF CallTrue, IsProtected, Writes
    <3> QED BY <3>2, <3>3, <3>4
  <2> QED BY <1>8, <1>9, <2>1, <2>5, <2>6, MadeWriting
<1> QED BY <1>10, <1>11

LEMMA Does ==
  ASSUME IndexInv, NEW c \in Curators, Do(c)
  PROVE  IndexInv'
<1>1. PICK op : /\ op = Head(todo[c]) /\ Carry(c, op) /\ CallTrue(c, op)
                /\ op \in AnyOps /\ Decided(phase[c], <<op>>)
                /\ todo[c] # << >> /\ todo' = [todo EXCEPT ![c] = Tail(@)]
                /\ UNCHANGED <<guard, job, phase, llm, found, writes>>
  BY Made DEF IndexInv
<1>2. /\ op.do = "add" => op \in AddOps
      /\ op.do = "update" => op \in UpdateOps \union RewriteOps
      /\ op.do = "delete" => op \in DeleteOps
      /\ op.do = "move" => op \in MoveOps
      /\ op.do = "vectors" => op \in VectorOps
      /\ op.do = "node" => op \in NodeOps
      /\ op.do = "marker" => op \in MarkerOps
  BY <1>1 DEF AnyOps, AddOps, UpdateOps, RewriteOps, DeleteOps, MoveOps, VectorOps, NodeOps, MarkerOps
<1>3. CASE op.do = "add"
  <2>1. PICK i : /\ Add(c, i, op.text, op.cat) /\ UNCHANGED marker
                 /\ snap' = [snap EXCEPT ![c] = Append(@, [id |-> i, text |-> op.text, cat |-> op.cat])]
    BY <1>1, <1>3 DEF Carry
  <2> QED BY <1>1, <1>2, <1>3, <2>1, MakesAdd
<1>4. CASE op.do = "update"
  <2>1. /\ Update(c, op.id, op.text, op.cat)
        /\ snap' = [snap EXCEPT ![c] = Rewritten(@, op.id, op.text, op.cat)]
        /\ UNCHANGED marker
    BY <1>1, <1>4 DEF Carry
  <2> QED BY <1>1, <1>2, <1>4, <2>1, MakesUpdate
<1>5. CASE op.do = "delete"
  <2>1. /\ Delete(c, op.id)
        /\ snap' = [snap EXCEPT ![c] = Without(@, op.id)]
        /\ UNCHANGED marker
    BY <1>1, <1>5 DEF Carry
  <2> QED BY <1>1, <1>2, <1>5, <2>1, MakesDelete
<1>6. CASE op.do = "move"
  <2>1. Move(c, op.id, op.cat) /\ UNCHANGED <<marker, snap>>
    BY <1>1, <1>6 DEF Carry
  <2> QED BY <1>1, <1>2, <1>6, <2>1, MakesMove
<1>7. CASE op.do = "vectors"
  <2>1. SetVectors(op.rows) /\ UNCHANGED <<order, node, touched, marker, snap>>
    BY <1>1, <1>7 DEF Carry
  <2> QED BY <1>1, <1>2, <1>7, <2>1, MakesVectors
<1>8. CASE op.do = "node"
  <2>1. Upsert(c, op.node, op.shows) /\ UNCHANGED <<mem, order, touched, marker, snap>>
    BY <1>1, <1>8 DEF Carry
  <2> QED BY <1>1, <1>2, <1>8, <2>1, MakesNode
<1>9. CASE op.do = "marker"
  <2>1. marker' = op.count /\ UNCHANGED <<mem, order, node, touched, snap>>
    BY <1>1, <1>9 DEF Carry
  <2> QED BY <1>1, <1>2, <1>9, <2>1, MakesMarker
<1> QED BY <1>1, <1>3, <1>4, <1>5, <1>6, <1>7, <1>8, <1>9 DEF Carry

-----------------------------------------------------------------------------
(* The invariant *)

LEMMA UserKeeps ==
  ASSUME IndexInv, NEW i, NEW cats, Wrote(Null, i, cats), OrderExact', writes' \in 0 .. MaxWrites,
         UNCHANGED <<marker, guard, job, phase, llm, found, snap, todo>>
  PROVE  IndexInv'
<1>1. CuratorsTyped /\ StoreInv /\ GuardHeld
  BY DEF IndexInv
<1>2. StoreInv'
  BY <1>1, WroteStore
<1>3. CuratorsTyped'
  BY <1>1 DEF CuratorsTyped, Wrote, Touch
<1>4. GuardHeld'
  BY <1>1 DEF GuardHeld
<1>5. ASSUME NEW c \in Curators PROVE CuratorInv(c)'
  <2>1. Tracks(c)
    BY <1>1, WroteTracks, NullAssumption
  <2> QED BY <2>1, OthersKeep DEF IndexInv
<1> QED BY <1>2, <1>3, <1>4, <1>5 DEF IndexInv

LEMMA Users ==
  ASSUME IndexInv, User
  PROVE  IndexInv'
<1>1. StoreTyped /\ OrderExact
  BY DEF IndexInv, StoreInv
<1>2. ASSUME NEW write, UserWrites(write)
      PROVE  /\ writes' \in 0 .. MaxWrites
             /\ UNCHANGED <<marker, guard, job, phase, llm, found, snap, todo>>
  BY <1>1, <1>2, NumbersAssumption DEF StoreTyped, UserWrites, curation
<1>3. ASSUME NEW i \in Ids, NEW text \in Texts, NEW cat \in Said \union {Null},
             Save(i, text, cat)
      PROVE  IndexInv'
  <2>0. PICK kept : kept = IF cat = Null THEN Classify(text) ELSE cat
    OBVIOUS
  <2>1. kept \in Categories
    BY <2>0, CategoriesAssumption DEF Classify
  <2>2. Add(Null, i, text, kept)
    BY <1>3, <2>0 DEF Save, UserWrites
  <2>3. Wrote(Null, i, {kept}) /\ OrderExact'
    BY <1>1, <2>1, <2>2, AddWrote
  <2>4. /\ writes' \in 0 .. MaxWrites
        /\ UNCHANGED <<marker, guard, job, phase, llm, found, snap, todo>>
    BY <1>1, <1>3, NumbersAssumption DEF StoreTyped, Save, UserWrites, curation
  <2> QED BY <2>3, <2>4, UserKeeps
<1>4. ASSUME NEW i \in Ids, NEW text \in Texts, Edit(i, text)
      PROVE  IndexInv'
  <2>1. i \in Active /\ Update(Null, i, text, Null)
    BY <1>4 DEF Edit, UserWrites
  <2>2. PICK new : new = IF Null = Null THEN mem[i].cat ELSE Null
    OBVIOUS
  <2>a. Null \in Categories \union {Null}
    OBVIOUS
  <2>3. Wrote(Null, i, {mem[i].cat, new}) /\ OrderExact'
    BY <1>1, <2>1, <2>2, <2>a, UpdateWrote
  <2>4. /\ writes' \in 0 .. MaxWrites
        /\ UNCHANGED <<marker, guard, job, phase, llm, found, snap, todo>>
    BY <1>1, <1>4, NumbersAssumption DEF StoreTyped, Edit, UserWrites, curation
  <2> QED BY <2>3, <2>4, UserKeeps
<1>5. ASSUME NEW i \in Ids, Forget(i)
      PROVE  IndexInv'
  <2>1. i \in Active /\ Delete(Null, i)
    BY <1>5 DEF Forget, UserWrites
  <2>2. Wrote(Null, i, {mem[i].cat}) /\ OrderExact'
    BY <1>1, <2>1, DeleteWrote
  <2>3. /\ writes' \in 0 .. MaxWrites
        /\ UNCHANGED <<marker, guard, job, phase, llm, found, snap, todo>>
    BY <1>1, <1>5, NumbersAssumption DEF StoreTyped, Forget, UserWrites, curation
  <2> QED BY <2>2, <2>3, UserKeeps
<1> QED BY <1>3, <1>4, <1>5 DEF User

LEMMA Starts ==
  ASSUME Init
  PROVE  IndexInv
<1>1. PICK first \in Beginnings :
        /\ mem = [i \in Ids |->
                    IF i \in DOMAIN first
                    THEN [active |-> TRUE, text |-> first[i].text, cat |-> first[i].cat, vec |-> Null]
                    ELSE [active |-> FALSE, text |-> Null, cat |-> Null, vec |-> Null]]
        /\ order = SetToSeq(DOMAIN first)
        /\ marker \in {Cardinality(DOMAIN first), Null}
  BY DEF Init
<1>2. PICK S : S = DOMAIN first
  OBVIOUS
<1>3. /\ S \subseteq Ids
      /\ \A i \in S : first[i].text \in Texts /\ first[i].cat \in Categories
  BY <1>2, BeginningsAssumption
<1>4. IsFiniteSet(S) /\ Cardinality(S) <= Cardinality(Ids)
  BY <1>3, FiniteAssumption, FS_Subset
<1>5. \A i \in Ids :
        /\ i \in S => mem[i] = [active |-> TRUE, text |-> first[i].text, cat |-> first[i].cat,
                                vec |-> Null]
        /\ i \notin S => mem[i] = [active |-> FALSE, text |-> Null, cat |-> Null, vec |-> Null]
  BY <1>1, <1>2
<1>a. ASSUME NEW i \in Ids
      PROVE  /\ mem[i] \in MemRecord
             /\ mem[i].active <=> i \in S
             /\ i \in S => mem[i].text \in Texts /\ mem[i].cat \in Categories
  <2>1. CASE i \in S
    <3>1. PICK x \in Texts, z \in Categories :
            mem[i] = [active |-> TRUE, text |-> x, cat |-> z, vec |-> Null]
      BY <1>3, <1>5, <2>1
    <3> QED BY <2>1, <3>1 DEF MemRecord
  <2>2. CASE i \notin S
    <3>1. mem[i] = [active |-> FALSE, text |-> Null, cat |-> Null, vec |-> Null]
      BY <1>5, <2>2
    <3> QED BY <2>2, <3>1 DEF MemRecord
  <2> QED BY <2>1, <2>2
<1>6. mem \in [Ids -> MemRecord]
  <2>1. \A i \in Ids : mem[i] \in MemRecord
    BY <1>a
  <2>2. mem = [i \in Ids |-> mem[i]]
    BY <1>1
  <2> QED BY <2>1, <2>2
<1>7. Active = S
  BY <1>3, <1>a DEF Active
<1>8. marker \in 0 .. Cardinality(Ids) \union {Null}
  BY <1>1, <1>2, <1>4, FiniteAssumption, FS_CardinalityType
<1>9. OrderExact
  <2>1. order = SetToSeq(S)
    BY <1>1, <1>2
  <2>2. PICK n : n = Cardinality(S)
    OBVIOUS
  <2>3. /\ n \in Nat
        /\ order \in [1 .. n -> S]
        /\ \A j, k \in 1 .. n : order[j] = order[k] => j = k
        /\ \A x \in S : \E k \in 1 .. n : order[k] = x
    BY <1>4, <2>1, <2>2, Listed
  <2>4. order \in Seq(S) /\ Len(order) = n
    BY <2>3
  <2>5. order \in Seq(Ids)
    BY <1>3, <2>4
  <2>6. \A i \in Ids : mem[i].active <=> i \in S
    BY <1>a
  <2>7. \A i \in Ids : i \in S <=> Occurs(order, i)
    BY <2>3, <2>4 DEF Occurs
  <2> QED BY <2>3, <2>4, <2>5, <2>6, <2>7 DEF OrderExact, Distinct
<1>10. StoreTyped
  <2>1. \A i \in Active : mem[i].text \in Texts /\ mem[i].cat \in Categories
    BY <1>3, <1>7, <1>a
  <2>2. writes \in 0 .. MaxWrites
    BY NumbersAssumption DEF Init
  <2>3. node = [n \in Nodes |-> node[n]] /\ \A n \in Nodes : node[n].dirty => node[n].known
    BY DEF Init
  <2> QED BY <1>6, <1>8, <2>1, <2>2, <2>3 DEF StoreTyped, MemRecord
<1>11. CleanMeansCurrent
  <2>1. \A n \in Nodes : node[n].shows = Shows(n, ToSet(Records))
    BY DEF Init
  <2>2. ToSet(Records) = {RecordOf(i) : i \in Active}
    BY <1>9, <1>10, RecordsAreCurrent DEF Current
  <2> QED BY <2>1, <2>2 DEF CleanMeansCurrent
<1>12. CuratorsTyped /\ GuardHeld
  BY DEF Init, CuratorsTyped, GuardHeld, Jobs, Phases, Guarded
<1>13. ASSUME NEW c \in Curators PROVE CuratorInv(c)
  <2>1. job[c] = "idle" /\ phase[c] = "end" /\ snap[c] = << >> /\ todo[c] = << >>
    BY DEF Init
  <2> QED BY <2>1 DEF CuratorInv, CuratorTyped, SnapTyped, Decided, SnapTrue, TodoTrue, Holding
<1> QED BY <1>9, <1>10, <1>11, <1>12, <1>13 DEF IndexInv, StoreInv

\* Every step keeps what the store and the curators' decisions rest on.
LEMMA Steps ==
  ASSUME IndexInv, [Next]_vars
  PROVE  IndexInv'
<1>1. ASSUME NEW c \in Curators, Begin(c) \/ Proceed(c) PROVE IndexInv'
  <2>1. GiveUp(c) \/ Finish(c) => Leave(c)
    BY DEF GiveUp, Finish
  <2> QED BY <1>1, <2>1, Begins, Acquires, Leaves, Recalls, EmbedsRecalled, Captures,
             Items, CaptureDone, Counts, IsDue, Dedups, Embeds, Merges,
             Contradicts, Reclassifies, NodesRead, Summarizes, Finals, Does, Zenon DEF Proceed
<1>2. CASE User
  BY <1>2, Users
<1>3. CASE UNCHANGED vars
  <2>1. UNCHANGED <<mem, order, node, marker, guard, job, phase, llm, found, snap, todo, touched, writes>>
    BY <1>3 DEF vars, curation
  <2>2. StoreInv' /\ CuratorsTyped' /\ GuardHeld'
    BY <2>1 DEF IndexInv, StoreInv, StoreTyped, OrderExact, CleanMeansCurrent, Active, RecordOf,
                CuratorsTyped, GuardHeld
  <2>3. ASSUME NEW c \in Curators PROVE CuratorInv(c)'
    BY <2>1, QuietTracks, OthersKeep DEF IndexInv
  <2> QED BY <2>2, <2>3 DEF IndexInv
<1> QED BY <1>1, <1>2, <1>3 DEF Next

\* What the store and the curators' decisions rest on holds in every state.
THEOREM IndexInvariant == Spec => []IndexInv
<1>1. Init => IndexInv
  BY Starts
<1>2. IndexInv /\ [Next]_vars => IndexInv'
  BY Steps
<1> QED BY <1>1, <1>2, PTL DEF Spec

-----------------------------------------------------------------------------
(* Theorems *)

\* The order of get_user_memory_records has every active memory once, and every
\* variable a value of its type.
THEOREM IndexTypes == Spec => []TypeOK
<1>1. ASSUME IndexInv PROVE TypeOK
  <2>1. StoreTyped /\ OrderExact /\ CuratorsTyped
    BY <1>1 DEF IndexInv, StoreInv
  <2>2. ToSet(order) = Active
    <3>1. \A i \in ToSet(order) : i \in Ids /\ Occurs(order, i)
      BY <2>1 DEF OrderExact, ToSet, Occurs
    <3>2. \A i \in Active : i \in ToSet(order)
      BY <2>1 DEF OrderExact, ToSet, Occurs, Active
    <3> QED BY <2>1, <3>1, <3>2 DEF OrderExact, Active
  <2>3. Len(order) = Cardinality(Active)
    <3>1. PICK n \in Nat : n = Len(order)
      BY <2>1 DEF OrderExact
    <3>2. order \in [1 .. n -> Active]
      BY <2>1, <2>2, <3>1 DEF OrderExact, ToSet
    <3>3. order \in Injection(1 .. n, Active)
      BY <2>1, <3>1, <3>2 DEF OrderExact, Distinct, Injection, IsInjective
    <3>4. order \in Surjection(1 .. n, Active)
      BY <2>1, <3>1, <3>2 DEF OrderExact, Occurs, Surjection, Active
    <3>5. ExistsBijection(1 .. n, Active)
      BY <3>3, <3>4 DEF ExistsBijection, Bijection
    <3>6. IsFiniteSet(1 .. n) /\ Cardinality(1 .. n) = n
      BY FS_Interval
    <3> QED BY <3>1, <3>5, <3>6, FS_Bijection
  <2>4. DOMAIN node = Nodes
    BY <2>1 DEF StoreTyped
  <2> QED BY <2>1, <2>2, <2>3, <2>4 DEF TypeOK, StoreTyped, CuratorsTyped
<1> QED BY <1>1, IndexInvariant, PTL

\* A summary that is marked clean shows the memories there are, unless a write
\* outran it, whoever rebuilds and writes in whatever order.
THEOREM CleanNodesAreCurrent == Spec => []CleanMeansCurrent
<1>1. IndexInv => CleanMeansCurrent
  BY DEF IndexInv, StoreInv
<1> QED BY <1>1, IndexInvariant, PTL

\* The per-user guard of lifecycle.py keeps capture and consolidation apart.
THEOREM HandlersAreSerial == Spec => []HandlersTakeTurns
<1>1. IndexInv => HandlersTakeTurns
  BY DEF IndexInv, GuardHeld, HandlersTakeTurns
<1> QED BY <1>1, IndexInvariant, PTL

LEMMA MakesTrue ==
  ASSUME IndexInv, NEW c \in Curators, todo[c] # << >>
  PROVE  CallTrue(c, Head(todo[c])) /\ Head(todo[c]) \in AnyOps
BY CallAndRest DEF IndexInv

\* What capture or consolidation deletes has another memory in its place, one of
\* the same text if it was a constraint.
THEOREM NothingIsLost == Spec => DeletedForAnother
<1> DEFINE Kept(c) == LET op == Head(todo[c])
                      IN  Makes(c) /\ op.do = "delete" /\ op.id \in Active
                            /\ ~Foreign(c, op.id) /\ ~Foreign(c, op.keeps) =>
                              /\ mem[op.keeps].active /\ op.keeps # op.id
                              /\ IsProtected(mem[op.id]) => mem[op.keeps].text = mem[op.id].text
           Stable == \A c \in Curators : Kept(c)
<1>1. ASSUME IndexInv, NEW c \in Curators PROVE Kept(c)
  <2>1. PICK op : op = Head(todo[c])
    OBVIOUS
  <2> SUFFICES ASSUME todo[c] # << >>, op.do = "delete", op.id \notin touched[c],
                      op.keeps \notin touched[c]
               PROVE  /\ mem[op.keeps].active /\ op.keeps # op.id
                      /\ IsProtected(mem[op.id]) => mem[op.keeps].text = mem[op.id].text
    BY <2>1 DEF Makes, Foreign
  <2>2. CallTrue(c, op)
    BY <1>1, <2>1, MakesTrue
  <2> QED BY <2>2 DEF CallTrue
<1>2. IndexInv => Stable
  BY <1>1
<1>3. Spec => [][Stable]_vars
  <2> HIDE DEF Stable
  <2> QED BY <1>2, IndexInvariant, PTL
<1> QED BY <1>3, PTL DEF DeletedForAnother

\* Near-duplicates, contradictions and replies never move or rewrite a
\* constraint.
THEOREM ConstraintsAreKept == Spec => ConstraintsStay
<1> DEFINE Kept(c) == LET op == Head(todo[c])
                      IN  Makes(c) /\ op.do \in {"update", "move"} /\ op.id \in Active
                            /\ ~Foreign(c, op.id) => ~IsProtected(mem[op.id])
           Stable == \A c \in Curators : Kept(c)
<1>1. ASSUME IndexInv, NEW c \in Curators PROVE Kept(c)
  <2>1. PICK op : op = Head(todo[c])
    OBVIOUS
  <2> SUFFICES ASSUME todo[c] # << >>, op.do \in {"update", "move"}, op.id \notin touched[c]
               PROVE  ~IsProtected(mem[op.id])
    BY <2>1 DEF Makes, Foreign
  <2>2. CallTrue(c, op)
    BY <1>1, <2>1, MakesTrue
  <2> QED BY <2>2 DEF CallTrue, Writes
<1>2. IndexInv => Stable
  BY <1>1
<1>3. Spec => [][Stable]_vars
  <2> HIDE DEF Stable
  <2> QED BY <1>2, IndexInvariant, PTL
<1> QED BY <1>3, PTL DEF ConstraintsStay

\* A write of the store drops the embedding of memory i, or leaves it and the
\* text alone.
Follows(i) == mem'[i].vec = Null \/ (mem'[i].vec = mem[i].vec /\ mem'[i].text = mem[i].text)

LEMMA WritesFollow ==
  ASSUME StoreTyped, NEW by, NEW i, NEW text, NEW cat, NEW j \in Ids,
         Add(by, i, text, cat) \/ Update(by, i, text, cat) \/ Delete(by, i) \/ Move(by, i, cat)
  PROVE  Follows(j)
<1>1. mem \in [Ids -> MemRecord]
  BY DEF StoreTyped, MemRecord
<1>2. CASE mem' = mem
  BY <1>2 DEF Follows
<1>3. ASSUME NEW new, mem' = [mem EXCEPT ![i] = new], i \in Ids,
             new.vec = Null \/ (new.vec = mem[i].vec /\ new.text = mem[i].text)
      PROVE  Follows(j)
  BY <1>1, <1>3 DEF Follows
<1>4. CASE Add(by, i, text, cat)
  <2>1. i \in Ids /\ mem' = [mem EXCEPT ![i] = [active |-> TRUE, text |-> text, cat |-> cat,
                                                vec |-> Null]]
    BY <1>4 DEF Add, Free
  <2> QED BY <1>3, <2>1
<1>5. CASE i \in Active /\ Update(by, i, text, cat)
  <2>1. PICK new : mem' = [mem EXCEPT ![i] = [active |-> TRUE, text |-> text, cat |-> new,
                                              vec |-> Null]]
    BY <1>5 DEF Update
  <2> QED BY <1>3, <1>5, <2>1 DEF Active
<1>6. CASE i \in Active /\ Delete(by, i)
  <2>1. i \in Ids /\ mem' = [mem EXCEPT ![i] = [mem[i] EXCEPT !.active = FALSE]]
    BY <1>6 DEF Delete, Active
  <2>2. mem[i] \in MemRecord
    BY <1>1, <2>1
  <2> QED BY <1>3, <2>1, <2>2 DEF MemRecord
<1>7. CASE i \in Active /\ Move(by, i, cat)
  <2>1. i \in Ids /\ mem' = [mem EXCEPT ![i] = [mem[i] EXCEPT !.cat = cat]]
    BY <1>7 DEF Move, Active
  <2>2. mem[i] \in MemRecord
    BY <1>1, <2>1
  <2> QED BY <1>3, <2>1, <2>2 DEF MemRecord
<1>8. i \notin Active => mem' = mem \/ Add(by, i, text, cat)
  BY DEF Update, Delete, Move
<1> QED BY <1>2, <1>4, <1>5, <1>6, <1>7, <1>8

\* An embedding goes stale only where a curator writes one for a memory that
\* another wrote to since it was read.
LEMMA StaleByVectors ==
  ASSUME IndexInv, Next, NEW i \in Ids, Stale(i)', ~Stale(i)
  PROVE  \E c \in Curators : Makes(c) /\ Head(todo[c]).do = "vectors" /\ Foreign(c, i)
<1>1. StoreTyped /\ mem \in [Ids -> MemRecord]
  BY DEF IndexInv, StoreInv, StoreTyped, MemRecord
<1>2. ~Follows(i)
  BY DEF Follows, Stale
<1>3. mem' # mem
  BY <1>2 DEF Follows
<1>4. ~User
  BY <1>1, <1>2, WritesFollow DEF User, Save, Edit, Forget, UserWrites
<1>5. PICK c \in Curators : Do(c)
  BY <1>3, <1>4
  DEF Next, Begin, Proceed, Acquire, GiveUp, Finish, Leave, Recall, EmbedRecalled, Capture, Item, CaptureEnds, CountActive, Due, Dedup, Embed,
      Merge, Contradictions, Reclassify, ReadNodes, Summarize, Final, Turns, Unchanged
<1>6. PICK op : op = Head(todo[c])
  OBVIOUS
<1>7. Makes(c) /\ CallTrue(c, op) /\ op \in AnyOps
  BY <1>5, <1>6, MakesTrue DEF Do, Makes, IndexInv, CuratorsTyped
<1>8. op.do = "vectors" /\ SetVectors(op.rows)
  <2>1. Carry(c, op)
    BY <1>5, <1>6 DEF Do
  <2> QED BY <1>1, <1>2, <1>3, <2>1, WritesFollow DEF Carry
<1>9. i \in touched[c]
  <2> SUFFICES ASSUME i \notin touched[c] PROVE FALSE
    OBVIOUS
  <2>1. \E r \in op.rows : r.id = i
    BY <1>2, <1>8 DEF SetVectors, Follows
  <2>2. PICK r \in op.rows : r.id = i /\ mem'[i] = [mem[i] EXCEPT !.vec = r.text]
    BY <1>8, <2>1 DEF SetVectors
  <2>3. mem[i].text = r.text
    BY <1>7, <1>8, <2>2 DEF CallTrue
  <2>4. mem[i] \in MemRecord
    BY <1>1
  <2>5. mem'[i].vec = mem'[i].text
    BY <2>2, <2>3, <2>4 DEF MemRecord
  <2> QED BY <2>5 DEF Stale
<1> QED BY <1>6, <1>7, <1>8, <1>9 DEF Foreign

\* The embedding of a memory goes stale only where a capture, a consolidation or a
\* recall stores one for a memory that another wrote to since it was read.
THEOREM VectorsAreOutrun == Spec => OnlyOutrunVectorsAreStale
<1> DEFINE Outrun == \A i \in Ids :
                       Stale(i)' /\ ~Stale(i) =>
                         \E c \in Curators :
                           Makes(c) /\ Head(todo[c]).do = "vectors" /\ Foreign(c, i)
<1>1. IndexInv /\ [Next]_vars => [Outrun]_vars
  BY StaleByVectors
<1>2. Spec => [][Outrun]_vars
  <2> HIDE DEF Outrun
  <2> QED BY <1>1, IndexInvariant, PTL DEF Spec
<1> QED BY <1>2, PTL DEF OnlyOutrunVectorsAreStale

-----------------------------------------------------------------------------
(* The file *)

\* A process in flight runs a build, and the migrations up to the version it
\* has read or written are in the file.
InFlightIsBehind ==
  \A p \in Openers : pc[p] \in InFlight =>
    /\ target[p] \in Targets
    /\ \A k \in Migrations : k <= at[p] => k \in applied

\* The file went through the baseline.
BroughtUp == tables = "made" /\ Lacking \subseteq swallowed

\* A file past version 1, or read as such, was brought up.
StampedIsUsable ==
  /\ version >= 2 => BroughtUp
  /\ \A p \in Openers : pc[p] \in InFlight /\ at[p] >= 2 => BroughtUp

\* A process that applies steps has the tables and every migration it needs.
StepsAreReady ==
  \A p \in Openers : pc[p] \in {"backfill", "steps"} =>
    BroughtUp /\ Missing(p) = {} /\ at[p] <= target[p]

\* What a process found in a versioned file is not ahead of what it believes of it.
SeenIsBehind ==
  origin = 1 => \A p \in Openers : pc[p] \in InFlight => \A k \in seen[p] : k <= at[p]

\* In a file that was versioned at first nobody reads version 0.
VersionedStaysVersioned ==
  origin = 1 => version >= 1 /\ \A p \in Openers : pc[p] \in InFlight => at[p] >= 1

MinReaderIsPast == minReader <= version

SchemaInv ==
  /\ SchemaTypeOK
  /\ StampedStepsApplied
  /\ InFlightIsBehind
  /\ StampedIsUsable
  /\ StepsAreReady
  /\ ServedSchemaIsComplete
  /\ VersionedStaysVersioned
  /\ MinReaderIsPast
  /\ NoStepLeftBehind
  /\ BreakingStepsGuarded
  /\ SeenIsBehind

USE TargetsAssumption, MigrationsAssumption

-----------------------------------------------------------------------------

LEMMA InitSchemaInv == SchemaInit => SchemaInv
BY DEF SchemaInit, SchemaInv, SchemaTypeOK, Tables, Columns, Lacking, BroughtUp, InFlight, StampedStepsApplied,
       InFlightIsBehind, StampedIsUsable, StepsAreReady, ServedSchemaIsComplete,
       VersionedStaysVersioned, MinReaderIsPast, NoStepLeftBehind,
       BreakingStepsGuarded, SeenIsBehind

\* What the actions of one process do, in the terms of the invariant.
LEMMA NextCases ==
  ASSUME SchemaNext
  PROVE  \E p \in Openers :
           \/ \E build \in Targets : Read(p, build)
           \/ OpenNewer(p) \/ RefuseGap(p) \/ Baseline(p) \/ BaselineFails(p) \/ Backfill(p)
           \/ ApplyStep(p) \/ FailStep(p) \/ Opened(p) \/ Exit(p)
BY DEF SchemaNext

\* A step past the first goes beyond the version in the file: the statements
\* of a step at or below it have been applied, and would fail.
LEMMA StepIsAhead ==
  ASSUME SchemaInv, NEW p \in Openers, ApplyStep(p), at[p] >= 1
  PROVE  /\ version < NextStep(p)
         /\ NextStep(p) \in Migrations
         /\ minReader' >= minReader
<1>1. /\ at[p] \in Nat
      /\ version \in Nat
      /\ minReader \in Nat
      /\ minReader <= version
      /\ pc[p] = "steps"
      /\ at[p] < target[p]
      /\ target[p] \in Nat
  BY DEF SchemaInv, SchemaTypeOK, InFlightIsBehind, InFlight, ApplyStep, MinReaderIsPast
<1>2. NextStep(p) \in Migrations
  BY <1>1 DEF NextStep, SchemaInv, StepsAreReady, Missing
<1>3. version < NextStep(p)
  BY <1>1, <1>2 DEF ApplyStep, NextStep, SchemaInv, StampedStepsApplied
<1>4. minReader' >= minReader
  BY <1>1, <1>3 DEF ApplyStep, MinReaderAfter, NextStep
<1> QED BY <1>2, <1>3, <1>4

\* Every step keeps the types.
LEMMA TypeStep ==
  ASSUME SchemaInv, SchemaNext
  PROVE  SchemaTypeOK'
<1>1. PICK p \in Openers :
           \/ \E build \in Targets : Read(p, build)
           \/ OpenNewer(p) \/ RefuseGap(p) \/ Baseline(p) \/ BaselineFails(p) \/ Backfill(p)
           \/ ApplyStep(p) \/ FailStep(p) \/ Opened(p) \/ Exit(p)
  BY NextCases
<1> USE DEF SchemaInv, SchemaTypeOK, InFlight, Tables, Columns, Lacking, Goto, fileVars, baseVars
<1>2. CASE \E build \in Targets : Read(p, build)
  BY <1>2 DEF Read
<1>3. CASE OpenNewer(p)
  BY <1>3 DEF OpenNewer
<1>7. CASE RefuseGap(p) \/ Opened(p)
  BY <1>7 DEF RefuseGap, Opened
<1>8. CASE Exit(p)
  BY <1>8 DEF Exit
<1>4. CASE Baseline(p) \/ BaselineFails(p) \/ Backfill(p)
  BY <1>4 DEF Baseline, BaselineFails, Backfill
<1>5. CASE ApplyStep(p)
  <2>1. NextStep(p) \in Nat /\ MinReaderAfter(NextStep(p)) \in Nat
    BY <1>5 DEF NextStep, MinReaderAfter
  <2> QED BY <1>5, <2>1 DEF ApplyStep
<1>6. CASE FailStep(p)
  BY <1>6 DEF FailStep, LeftByFailure
<1> QED BY <1>1, <1>2, <1>3, <1>4, <1>5, <1>6, <1>7, <1>8

\* The version never names a migration that is not in the file, for the file
\* and for what each process believes of it.
LEMMA AppliedStep ==
  ASSUME SchemaInv, SchemaNext
  PROVE  StampedStepsApplied' /\ InFlightIsBehind'
<1>1. PICK p \in Openers :
           \/ \E build \in Targets : Read(p, build)
           \/ OpenNewer(p) \/ RefuseGap(p) \/ Baseline(p) \/ BaselineFails(p) \/ Backfill(p)
           \/ ApplyStep(p) \/ FailStep(p) \/ Opened(p) \/ Exit(p)
  BY NextCases
<1> USE DEF SchemaInv, SchemaTypeOK, InFlight, Goto, fileVars, baseVars, StampedStepsApplied,
            InFlightIsBehind
<1>2. CASE \E build \in Targets : Read(p, build)
  BY <1>2 DEF Read
<1>3. CASE OpenNewer(p) \/ RefuseGap(p) \/ Opened(p) \/ Exit(p)
  BY <1>3 DEF OpenNewer, RefuseGap, Opened, Exit
<1>4. CASE Baseline(p) \/ BaselineFails(p) \/ Backfill(p)
  BY <1>4 DEF Baseline, BaselineFails, Completes, Backfill
<1>5. CASE ApplyStep(p)
  BY <1>5 DEF ApplyStep, NextStep
<1>6. CASE FailStep(p)
  BY <1>6 DEF FailStep, LeftByFailure
<1> QED BY <1>1, <1>2, <1>3, <1>4, <1>5, <1>6

\* The tables are usable from the baseline on.
LEMMA UsableStep ==
  ASSUME SchemaInv, SchemaNext
  PROVE  StampedIsUsable' /\ StepsAreReady' /\ ServedSchemaIsComplete'
<1>1. PICK p \in Openers :
           \/ \E build \in Targets : Read(p, build)
           \/ OpenNewer(p) \/ RefuseGap(p) \/ Baseline(p) \/ BaselineFails(p) \/ Backfill(p)
           \/ ApplyStep(p) \/ FailStep(p) \/ Opened(p) \/ Exit(p)
  BY NextCases
<1> USE DEF SchemaInv, SchemaTypeOK, InFlight, Goto, Tables, Columns, Lacking, BroughtUp, Missing,
            fileVars, baseVars,
            StampedStepsApplied, InFlightIsBehind, StampedIsUsable,
            StepsAreReady, ServedSchemaIsComplete
<1>2. CASE \E build \in Targets : Read(p, build)
  BY <1>2 DEF Read
<1>3. CASE OpenNewer(p)
  <2>1. /\ pc[p] = "read" /\ at[p] > target[p]
        /\ \A q \in Openers : pc'[q] = pc[q] \/ (q = p /\ pc'[q] \in {"refused", "open"})
        /\ UNCHANGED <<fileVars, baseVars, target, at>>
    BY <1>3 DEF OpenNewer
  <2>2. target[p] \in Nat \ {0} /\ at[p] \in Nat
    BY <2>1
  <2>3. BroughtUp /\ \A k \in Migrations : k <= target[p] => k \in applied
    BY <2>1, <2>2
  <2> QED BY <2>1, <2>3
<1>4. CASE RefuseGap(p) \/ BaselineFails(p) \/ Exit(p)
  BY <1>4 DEF RefuseGap, BaselineFails, Exit
<1>5. CASE Baseline(p)
  BY <1>5 DEF Baseline, Completes
<1>6. CASE Backfill(p)
  BY <1>6 DEF Backfill
<1>7. CASE ApplyStep(p)
  <2>1. /\ pc[p] = "steps" /\ at[p] \in Nat /\ target[p] \in Nat /\ at[p] + 1 <= target[p]
        /\ at' = [at EXCEPT ![p] = at[p] + 1]
        /\ UNCHANGED <<baseVars, pc, target>>
        /\ applied \subseteq applied'
    <3>1. pc[p] = "steps" /\ target[p] \in Targets /\ at[p] \in Nat /\ at[p] < target[p]
      BY <1>7 DEF ApplyStep
    <3>2. target[p] \in Nat
      BY <3>1 DEF TargetsAssumption
    <3>3. at[p] + 1 <= target[p]
      BY <3>1, <3>2
    <3> QED BY <1>7, <3>1, <3>2, <3>3 DEF ApplyStep, NextStep
  <2>2. BroughtUp /\ BroughtUp'
    BY <2>1
  <2>3. StampedIsUsable' /\ ServedSchemaIsComplete'
    BY <2>1, <2>2
  <2>4. ASSUME NEW q \in Openers, pc'[q] \in {"backfill", "steps"}
        PROVE  Missing(q)' = {} /\ at'[q] <= target'[q]
    BY <2>1, <2>4
  <2> QED BY <2>2, <2>3, <2>4
<1>8. CASE FailStep(p)
  BY <1>8 DEF FailStep, LeftByFailure
<1>9. CASE Opened(p)
  <2>1. /\ pc[p] = "steps" /\ at[p] >= target[p]
        /\ \A q \in Openers : pc'[q] = pc[q] \/ (q = p /\ pc'[q] = "open")
        /\ UNCHANGED <<fileVars, baseVars, target, at>>
    BY <1>9 DEF Opened, Finished
  <2>2. target[p] \in Nat /\ at[p] \in Nat
    BY <2>1
  <2>3. BroughtUp /\ \A k \in Migrations : k <= target[p] => k \in applied
    BY <2>1, <2>2
  <2> QED BY <2>1, <2>3
<1> QED BY <1>1, <1>2, <1>3, <1>4, <1>5, <1>6, <1>7, <1>8, <1>9

\* What only holds of a file that was versioned at first, and MinReaderIsPast.
LEMMA OriginStep ==
  ASSUME SchemaInv, SchemaNext
  PROVE  /\ VersionedStaysVersioned'
         /\ MinReaderIsPast'
         /\ NoStepLeftBehind'
         /\ BreakingStepsGuarded'
<1>1. PICK p \in Openers :
           \/ \E build \in Targets : Read(p, build)
           \/ OpenNewer(p) \/ RefuseGap(p) \/ Baseline(p) \/ BaselineFails(p) \/ Backfill(p)
           \/ ApplyStep(p) \/ FailStep(p) \/ Opened(p) \/ Exit(p)
  BY NextCases
<1>2. CASE ApplyStep(p)
  <2>1. /\ at[p] \in Nat /\ version \in Nat /\ minReader \in Nat
        /\ applied \subseteq Migrations /\ pc[p] = "steps"
        /\ minReader <= version
    BY <1>2 DEF SchemaInv, SchemaTypeOK, ApplyStep, MinReaderIsPast
  <2>2. CASE at[p] = 0
    BY <1>2, <2>1, <2>2 DEF ApplyStep, NextStep, MinReaderAfter, SchemaInv, InFlight,
         VersionedStaysVersioned, MinReaderIsPast, NoStepLeftBehind, BreakingStepsGuarded
  <2>3. CASE at[p] >= 1
    <3>1. version < NextStep(p) /\ NextStep(p) \in Migrations
      BY <1>2, <2>3, StepIsAhead
    <3>2. VersionedStaysVersioned'
      BY <1>2, <2>1, <2>3 DEF ApplyStep, NextStep, SchemaInv, SchemaTypeOK, InFlight,
           VersionedStaysVersioned
    <3>3. MinReaderIsPast'
      BY <1>2, <2>1, <3>1 DEF ApplyStep, NextStep, MinReaderAfter, MinReaderIsPast
    <3>4. NoStepLeftBehind'
      BY <1>2, <2>1, <3>1 DEF ApplyStep, NextStep, SchemaInv, NoStepLeftBehind
    <3>5. BreakingStepsGuarded'
      BY <1>2, <2>1, <2>3, <3>1 DEF ApplyStep, NextStep, MinReaderAfter, SchemaInv,
           NoStepLeftBehind, BreakingStepsGuarded
    <3> QED BY <3>2, <3>3, <3>4, <3>5
  <2> QED BY <2>1, <2>2, <2>3
<1>3. CASE /\ UNCHANGED <<version, minReader, applied, origin>>
           /\ \A q \in Openers :
                pc'[q] \in InFlight => at'[q] = version \/ (pc[q] \in InFlight /\ at'[q] = at[q])
  BY <1>3 DEF SchemaInv, VersionedStaysVersioned, MinReaderIsPast, NoStepLeftBehind,
              BreakingStepsGuarded
<1>4. ASSUME ~ApplyStep(p)
      PROVE  /\ UNCHANGED <<version, minReader, applied, origin>>
             /\ \A q \in Openers :
                  pc'[q] \in InFlight => at'[q] = version \/ (pc[q] \in InFlight /\ at'[q] = at[q])
  BY <1>1, <1>4 DEF Read, OpenNewer, RefuseGap, Baseline, BaselineFails, Completes, Backfill,
       FailStep, LeftByFailure, Opened, Exit, Goto, fileVars, SchemaInv, SchemaTypeOK, InFlight
<1> QED BY <1>2, <1>3, <1>4

\* What a process has seen stays behind what it believes.
LEMMA SeenStep ==
  ASSUME SchemaInv, SchemaNext
  PROVE  SeenIsBehind'
<1>1. PICK p \in Openers :
           \/ \E build \in Targets : Read(p, build)
           \/ OpenNewer(p) \/ RefuseGap(p) \/ Baseline(p) \/ BaselineFails(p) \/ Backfill(p)
           \/ ApplyStep(p) \/ FailStep(p) \/ Opened(p) \/ Exit(p)
  BY NextCases
<1>2. /\ pc \in [Openers -> {"closed", "open", "refused", "failed"} \union InFlight]
      /\ at \in [Openers -> Nat]
      /\ seen \in [Openers -> SUBSET Migrations]
      /\ version \in Nat
      /\ SeenIsBehind /\ NoStepLeftBehind
  BY DEF SchemaInv, SchemaTypeOK
<1>3. CASE \E build \in Targets : Read(p, build)
  BY <1>2, <1>3 DEF Read, Goto, fileVars, SeenIsBehind, NoStepLeftBehind
<1>4. CASE ApplyStep(p)
  <2>1. at'[p] = at[p] + 1 /\ UNCHANGED <<origin, pc, seen>> /\ at' = [at EXCEPT ![p] = at[p] + 1]
    BY <1>2, <1>4 DEF ApplyStep, NextStep
  <2>2. seen[p] \subseteq Nat
    BY <1>2
  <2> QED BY <1>2, <2>1, <2>2 DEF SeenIsBehind
<1>5. CASE Exit(p)
  BY <1>2, <1>5 DEF Exit, Goto, fileVars, InFlight, SeenIsBehind
<1>6. ASSUME OpenNewer(p) \/ RefuseGap(p) \/ Baseline(p) \/ BaselineFails(p) \/ Backfill(p)
             \/ FailStep(p) \/ Opened(p)
      PROVE  SeenIsBehind'
  <2>1. /\ UNCHANGED <<origin, at, seen>>
        /\ \A q \in Openers : pc'[q] \in InFlight => pc[q] \in InFlight
    BY <1>2, <1>6 DEF OpenNewer, RefuseGap, Baseline, BaselineFails, Completes, Backfill,
         FailStep, Opened, Goto, fileVars, InFlight
  <2> QED BY <1>2, <2>1 DEF SeenIsBehind
<1> QED BY <1>1, <1>3, <1>4, <1>5, <1>6

LEMMA SchemaInvStep == SchemaInv /\ [SchemaNext]_schemaVars => SchemaInv'
<1> SUFFICES ASSUME SchemaInv, [SchemaNext]_schemaVars PROVE SchemaInv'
  OBVIOUS
<1>1. CASE SchemaNext
  BY <1>1, TypeStep, AppliedStep, UsableStep, OriginStep, SeenStep DEF SchemaInv
<1>2. CASE UNCHANGED schemaVars
  BY <1>2 DEF schemaVars, fileVars, baseVars, SchemaInv, SchemaTypeOK, StampedStepsApplied,
       InFlightIsBehind, Lacking, BroughtUp, StampedIsUsable, StepsAreReady, Missing,
       ServedSchemaIsComplete, VersionedStaysVersioned, MinReaderIsPast, NoStepLeftBehind,
       BreakingStepsGuarded, SeenIsBehind
<1> QED BY <1>1, <1>2

LEMMA SchemaInvariant == SchemaSpec => []SchemaInv
BY InitSchemaInv, SchemaInvStep, PTL DEF SchemaSpec

-----------------------------------------------------------------------------
(* The theorems *)

\* Every variable keeps its type.
THEOREM SchemaTypes == SchemaSpec => []SchemaTypeOK
BY SchemaInvariant, PTL DEF SchemaInv

\* user_version is never ahead of the migrations committed to the file,
\* however many builds race over it and wherever they die.
THEOREM VersionsAreEarned == SchemaSpec => []StampedStepsApplied
BY SchemaInvariant, PTL DEF SchemaInv

\* A build that serves a file finds in it every table and migration it relies
\* on, and every column but those whose last ALTER was passed over.
THEOREM ServedFilesAreComplete == SchemaSpec => []ServedSchemaIsComplete
BY SchemaInvariant, PTL DEF SchemaInv

\* In a file versioned before the race, no step is applied and not stamped,
\* and the min-reader row covers every breaking migration.
THEOREM VersionedFilesStaySound == SchemaSpec => [](NoStepLeftBehind /\ BreakingStepsGuarded)
<1>1. SchemaInv => NoStepLeftBehind /\ BreakingStepsGuarded
  BY DEF SchemaInv
<1> QED BY <1>1, SchemaInvariant, PTL

\* Once a file is stamped and nobody still believes it is not, no process
\* writes its version or its min reader back.
THEOREM SettledFilesOnlyGrow == SchemaSpec => SettledOnlyGrows
<1>1. SchemaInv /\ [SchemaNext]_schemaVars
        => [Settled => Settled' /\ version' >= version /\ minReader' >= minReader]_schemaVars
  <2> SUFFICES ASSUME SchemaInv, SchemaNext, Settled
               PROVE  Settled' /\ version' >= version /\ minReader' >= minReader
    BY DEF schemaVars
  <2>1. PICK p \in Openers :
             \/ \E build \in Targets : Read(p, build)
             \/ OpenNewer(p) \/ RefuseGap(p) \/ Baseline(p) \/ BaselineFails(p) \/ Backfill(p)
             \/ ApplyStep(p) \/ FailStep(p) \/ Opened(p) \/ Exit(p)
    BY NextCases
  <2>2. CASE ApplyStep(p)
    <3>1. at[p] >= 1 /\ at[p] \in Nat /\ version \in Nat
      BY <2>2 DEF Settled, ApplyStep, InFlight, SchemaInv, SchemaTypeOK
    <3>2. version < NextStep(p) /\ minReader' >= minReader
      BY <2>2, <3>1, StepIsAhead
    <3> QED BY <2>2, <3>1, <3>2 DEF ApplyStep, NextStep, Settled, SchemaInv, SchemaTypeOK
  <2>3. CASE \E build \in Targets : Read(p, build)
    BY <2>3 DEF Read, Goto, fileVars, Settled, SchemaInv, SchemaTypeOK
  <2>4. CASE OpenNewer(p) \/ RefuseGap(p) \/ BaselineFails(p) \/ Opened(p) \/ FailStep(p)
    <3>1. /\ UNCHANGED <<version, minReader, at>>
          /\ \A q \in Openers : pc'[q] \in InFlight => pc[q] \in InFlight
      BY <2>4 DEF OpenNewer, RefuseGap, BaselineFails, Completes, Opened, FailStep, Goto,
           InFlight, fileVars, SchemaInv, SchemaTypeOK
    <3> QED BY <3>1 DEF Settled, SchemaInv, SchemaTypeOK
  <2>6. CASE Exit(p)
    <3>1. /\ UNCHANGED <<version, minReader>>
          /\ \A q \in Openers : pc'[q] \in InFlight => pc[q] \in InFlight /\ at'[q] = at[q]
      BY <2>6 DEF Exit, Goto, fileVars, InFlight, SchemaInv, SchemaTypeOK
    <3> QED BY <3>1 DEF Settled, SchemaInv, SchemaTypeOK
  <2>5. CASE Baseline(p) \/ Backfill(p)
    <3>1. /\ UNCHANGED <<version, minReader, at>>
          /\ \A q \in Openers : pc'[q] \in InFlight => pc[q] \in InFlight
      BY <2>5 DEF Baseline, Completes, Backfill, Goto, fileVars, InFlight, SchemaInv, SchemaTypeOK
    <3> QED BY <3>1 DEF Settled, SchemaInv, SchemaTypeOK
  <2> QED BY <2>1, <2>2, <2>3, <2>4, <2>5, <2>6
<1> QED BY <1>1, SchemaInvariant, PTL DEF SchemaSpec, SettledOnlyGrows

\* However many builds race, and wherever they die, a build is let in on a file
\* that it cannot read only where the breaking migration was committed after it
\* had found the file readable; one that finds it unreadable is refused.
THEOREM UnreadableFilesAreRaced == SchemaSpec => UnreadableOnlyByRace
<1> DEFINE Raced == \A p \in Openers : origin = 1 /\ LetIn(p) =>
                      \A k \in applied \intersect Breaking : k > target[p] =>
                        k \notin seen[p] /\ at[p] <= target[p]
<1>1. SchemaInv /\ [SchemaNext]_schemaVars => [Raced]_schemaVars
  <2> SUFFICES ASSUME SchemaInv, SchemaNext, NEW p \in Openers, origin = 1, LetIn(p),
                      NEW k \in applied \intersect Breaking, k > target[p]
               PROVE  k \notin seen[p] /\ at[p] <= target[p]
    BY DEF schemaVars
  <2>1. /\ pc \in [Openers -> {"closed", "open", "refused", "failed"} \union InFlight]
        /\ k \in Nat /\ minReader \in Nat /\ target[p] \in Nat /\ at[p] \in Nat
    <3>1. /\ pc \in [Openers -> {"closed", "open", "refused", "failed"} \union InFlight]
          /\ applied \subseteq Nat /\ target[p] \in Targets \union {0}
          /\ minReader \in Nat /\ at[p] \in Nat
      BY DEF SchemaInv, SchemaTypeOK
    <3>2. k \in Nat
      BY <3>1
    <3>3. target[p] \in Nat
      <4>1. Targets \union {0} \subseteq Nat
        BY DEF TargetsAssumption
      <4> QED BY <3>1, <4>1
    <3> QED BY <3>1, <3>2, <3>3
  <2>2. OpenNewer(p) \/ Opened(p)
    <3>1. PICK q \in Openers :
             \/ \E build \in Targets : Read(q, build)
             \/ OpenNewer(q) \/ RefuseGap(q) \/ Baseline(q) \/ BaselineFails(q) \/ Backfill(q)
             \/ ApplyStep(q) \/ FailStep(q) \/ Opened(q) \/ Exit(q)
      BY NextCases
    <3>2. CASE \E build \in Targets : Read(q, build)
      BY <2>1, <3>2 DEF Read, Goto, LetIn
    <3>3. CASE RefuseGap(q) \/ BaselineFails(q) \/ Backfill(q) \/ FailStep(q) \/ Exit(q)
      BY <2>1, <3>3 DEF RefuseGap, BaselineFails, Backfill, FailStep, Exit, Goto, LetIn
    <3>4. CASE Baseline(q)
      BY <2>1, <3>4 DEF Baseline, Goto, LetIn
    <3>5. CASE ApplyStep(q)
      BY <3>5 DEF ApplyStep, LetIn
    <3>6. CASE OpenNewer(q) \/ Opened(q)
      BY <2>1, <3>6 DEF OpenNewer, Opened, Goto, LetIn
    <3> QED BY <3>1, <3>2, <3>3, <3>4, <3>5, <3>6
  <2>3. CASE OpenNewer(p)
    <3>1. pc'[p] = IF target[p] < minReader THEN "refused" ELSE "open"
      BY <2>1, <2>3 DEF OpenNewer, Goto
    <3>2. k <= minReader
      BY DEF SchemaInv, BreakingStepsGuarded
    <3> QED BY <2>1, <3>1, <3>2 DEF LetIn
  <2>4. CASE Opened(p)
    <3>1. pc[p] = "steps" /\ at[p] <= target[p] /\ \A m \in seen[p] : m <= at[p]
      BY <2>4 DEF Opened, SchemaInv, StepsAreReady, SeenIsBehind, InFlight
    <3> QED BY <2>1, <3>1
  <2> QED BY <2>2, <2>3, <2>4
<1>2. SchemaSpec => [][Raced]_schemaVars
  <2> HIDE DEF Raced
  <2> QED BY <1>1, SchemaInvariant, PTL DEF SchemaSpec
<1> QED BY <1>2, PTL DEF UnreadableOnlyByRace
=============================================================================
