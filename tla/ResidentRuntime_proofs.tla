------------------------ MODULE ResidentRuntime_proofs ------------------------
(***************************************************************************)
(* The warm model cache, for any number of requests, models, slots and     *)
(* sizes of batch and queue.                                               *)
(*                                                                         *)
(* That no request loses its model rests on a count: in_flight is the      *)
(* number of callers between _acquire and the end of predict or warm, so a *)
(* model whose count is zero is nobody's.  That max_loaded_models is never *)
(* exceeded rests on the mark a load leaves in its entry before it starts. *)
(* That an answer belongs to its caller rests on two facts: the slices     *)
(* that _execute cuts out of the joined results start where the items of   *)
(* each request do, and whoever is in a lane waits there once, for that    *)
(* model.                                                                  *)
(*                                                                         *)
(* The first fact is about a sequence of sequences of any length, joined   *)
(* by a fold, and the second about a queue with marks in it; both take     *)
(* induction.  LeastNumber does it: of the lengths at which a statement    *)
(* fails the least one is refuted.                                         *)
(***************************************************************************)
EXTENDS ResidentRuntime, FiniteSetTheorems, SequenceTheorems, WellFoundedInduction, TLAPS

(* A set of natural numbers that is not empty has a least element: what    *)
(* the inductions of this module are made of.                              *)
Below == {p \in Nat \X Nat : p[1] < p[2]}

LEMMA LeastNumber ==
  ASSUME NEW T, T \subseteq Nat, T # {}
  PROVE  \E n \in T : \A k \in T : n <= k
<1>1. OpToRel(<, Nat) = Below
  BY Zenon DEF OpToRel, Below
<1>2. IsWellFoundedOn(Below, Nat)
  BY <1>1, NatLessThanWellFounded, Zenon
<1>3. \E n \in T : \A k \in T : <<k, n>> \notin Below
  BY <1>2, WFMin, Zenon
<1>4. PICK n \in T : \A k \in T : <<k, n>> \notin Below
  BY <1>3
<1>5. ASSUME NEW k \in T
      PROVE  n <= k
  <2>1. k \in Nat /\ n \in Nat
    OBVIOUS
  <2>2. <<k, n>> \notin Below
    BY <1>4
  <2> QED
    BY <2>1, <2>2 DEF Below
<1> QED
  BY <1>5

-----------------------------------------------------------------------------
(* Joining sequences.                                                      *)

(* What FlattenSeq computes with: f[i] joins the first i sequences of s.   *)
Joins(f, s, n) ==
  f = [i \in 1 .. n |-> IF i = 1 THEN s[i] ELSE f[i - 1] \o s[i]]

LEMMA JoinsValue ==
  ASSUME NEW f, NEW s, NEW n, Joins(f, s, n), NEW i \in 1 .. n
  PROVE  f[i] = IF i = 1 THEN s[i] ELSE f[i - 1] \o s[i]
<1> DEFINE e(j) == IF j = 1 THEN s[j] ELSE f[j - 1] \o s[j]
<1>1. f = [j \in 1 .. n |-> e(j)]
  BY DEF Joins
<1> HIDE DEF e
<1>2. f[i] = e(i)
  BY <1>1
<1> QED
  BY <1>2 DEF e

(* Such a function exists for every length ...                             *)
LEMMA JoinsExist ==
  ASSUME NEW s, NEW n \in Nat \ {0}
  PROVE  \E f : Joins(f, s, n)
<1> DEFINE T == {k \in Nat \ {0} : ~ \E f : Joins(f, s, k)}
<1>1. ASSUME T # {}
      PROVE  FALSE
  <2>1. PICK k \in T : \A j \in T : k <= j
    <3>1. T \subseteq Nat
      OBVIOUS
    <3> HIDE DEF T
    <3> QED
      BY <1>1, <3>1, LeastNumber
  <2>2. k # 1
    <3> SUFFICES \E f : Joins(f, s, 1)
      BY <2>1
    <3>1. Joins([i \in 1 .. 1 |-> s[i]], s, 1)
      BY DEF Joins
    <3> QED
      BY <3>1
  <2>3. PICK g : Joins(g, s, k - 1)
    BY <2>1, <2>2
  <2> DEFINE h == [i \in 1 .. k |-> IF i = k THEN g[k - 1] \o s[k] ELSE g[i]]
  <2>4. Joins(h, s, k)
    <3>1. ASSUME NEW i \in 1 .. k
          PROVE  h[i] = IF i = 1 THEN s[i] ELSE h[i - 1] \o s[i]
      <4>1. CASE i = k
        <5>1. i # 1 /\ i - 1 \in 1 .. k /\ i - 1 # k
          BY <2>1, <2>2, <4>1
        <5>2. h[i] = g[k - 1] \o s[k] /\ h[i - 1] = g[i - 1]
          BY <4>1, <5>1
        <5> QED
          BY <4>1, <5>1, <5>2
      <4>2. CASE i # k
        <5>1. i \in 1 .. k - 1 /\ h[i] = g[i] /\ (i # 1 => h[i - 1] = g[i - 1])
          BY <2>1, <4>2
        <5> QED
          BY <2>3, <5>1, JoinsValue
      <4> QED
        BY <4>1, <4>2
    <3> QED
      BY <3>1 DEF Joins
  <2> QED
    BY <2>1, <2>4
<1> QED
  BY <1>1

(* ... and depends on the sequences it joins only.                         *)
LEMMA JoinsAgree ==
  ASSUME NEW f, NEW g, NEW s, NEW t, NEW n \in Nat, NEW m \in Nat,
         Joins(f, s, n), Joins(g, t, m),
         NEW k \in 1 .. n, k <= m, \A i \in 1 .. k : s[i] = t[i]
  PROVE  f[k] = g[k]
<1> DEFINE T == {i \in 1 .. k : f[i] # g[i]}
<1>1. ASSUME T # {}
      PROVE  FALSE
  <2>1. PICK i \in T : \A j \in T : i <= j
    <3>1. T \subseteq Nat
      OBVIOUS
    <3> HIDE DEF T
    <3> QED
      BY <1>1, <3>1, LeastNumber
  <2>2. CASE i = 1
    BY <2>1, <2>2 DEF Joins
  <2>3. CASE i # 1
    <3>1. i - 1 \in 1 .. k /\ i - 1 \notin T
      BY <2>1, <2>3
    <3>2. f[i - 1] = g[i - 1]
      BY <3>1
    <3>3. f[i] = f[i - 1] \o s[i] /\ g[i] = g[i - 1] \o t[i]
      BY <2>1, <2>3, JoinsValue
    <3> QED
      BY <2>1, <3>2, <3>3
  <2> QED
    BY <2>2, <2>3
<1> QED
  BY <1>1

LEMMA FlattenJoins ==
  ASSUME NEW s, Len(s) \in Nat \ {0}
  PROVE  \E f : Joins(f, s, Len(s)) /\ FlattenSeq(s) = f[Len(s)]
<1>1. \E f : Joins(f, s, Len(s))
  BY JoinsExist
<1> DEFINE f == CHOOSE f : Joins(f, s, Len(s))
<1>2. Joins(f, s, Len(s))
  BY <1>1
<1>3. FlattenSeq(s) = f[Len(s)]
  BY Zenon DEF FlattenSeq, Joins
<1> QED
  BY <1>2, <1>3

-----------------------------------------------------------------------------
(* The slice a request gets of the results of its batch.                   *)

(* The items of the first k requests of a batch.                           *)
Part(batch, k) == AllItems(SubSeq(batch, 1, k))

LEMMA ItemsOfType ==
  ASSUME NEW c \in Requests
  PROVE  /\ Size[c] \in Nat \ {0}
         /\ ItemsOf(c) \in Seq(Item)
         /\ Len(ItemsOf(c)) = Size[c]
BY RequestsAssumption DEF ItemsOf, Item

LEMMA PartEmpty ==
  ASSUME NEW batch \in Seq(Requests)
  PROVE  Part(batch, 0) = <<>>
<1>1. SubSeq(batch, 1, 0) = <<>>
  BY SubSeqEmpty
<1> DEFINE s == [i \in DOMAIN <<>> |-> ItemsOf((<<>>)[i])]
<1>2. s = <<>>
  OBVIOUS
<1>3. Part(batch, 0) = FlattenSeq(s)
  BY <1>1 DEF Part, AllItems
<1>4. FlattenSeq(s) = s
  BY <1>2 DEF FlattenSeq
<1> QED
  BY <1>2, <1>3, <1>4

(* The items of k requests are joined as a function of the items of each.  *)
LEMMA PartJoins ==
  ASSUME NEW batch \in Seq(Requests), NEW k \in 1 .. Len(batch)
  PROVE  \E f : /\ Joins(f, [i \in 1 .. k |-> ItemsOf(batch[i])], k)
                /\ Part(batch, k) = f[k]
<1> DEFINE b == SubSeq(batch, 1, k)
           s == [i \in 1 .. k |-> ItemsOf(batch[i])]
<1>1. DOMAIN b = 1 .. k /\ \A i \in 1 .. k : b[i] = batch[i]
  OBVIOUS
<1>2. Part(batch, k) = FlattenSeq([i \in DOMAIN b |-> ItemsOf(b[i])])
  BY DEF Part, AllItems
<1>3. [i \in DOMAIN b |-> ItemsOf(b[i])] = s
  BY <1>1
<1>4. Len(s) = k
  OBVIOUS
<1>5. Part(batch, k) = FlattenSeq(s)
  BY <1>2, <1>3
<1> HIDE DEF s
<1>6. \E f : Joins(f, s, Len(s)) /\ FlattenSeq(s) = f[Len(s)]
  BY <1>4, FlattenJoins
<1>7. \E f : Joins(f, s, k) /\ Part(batch, k) = f[k]
  BY <1>4, <1>5, <1>6
<1> QED
  BY <1>7 DEF s

LEMMA PartNext ==
  ASSUME NEW batch \in Seq(Requests), NEW k \in 1 .. Len(batch)
  PROVE  Part(batch, k) =
           IF k = 1 THEN ItemsOf(batch[k]) ELSE Part(batch, k - 1) \o ItemsOf(batch[k])
<1> DEFINE s(j) == [i \in 1 .. j |-> ItemsOf(batch[i])]
<1>1. PICK f : Joins(f, s(k), k) /\ Part(batch, k) = f[k]
  BY PartJoins
<1>2. s(k)[k] = ItemsOf(batch[k])
  OBVIOUS
<1>3. f[k] = IF k = 1 THEN s(k)[k] ELSE f[k - 1] \o s(k)[k]
  <2> HIDE DEF s
  <2> QED
    BY <1>1, JoinsValue
<1>4. ASSUME k # 1
      PROVE  f[k - 1] = Part(batch, k - 1)
  <2>1. k - 1 \in 1 .. Len(batch)
    BY <1>4
  <2>2. PICK g : Joins(g, s(k - 1), k - 1) /\ Part(batch, k - 1) = g[k - 1]
    BY <2>1, PartJoins
  <2>3. \A i \in 1 .. k - 1 : s(k - 1)[i] = s(k)[i]
    OBVIOUS
  <2>4. k \in Nat /\ k - 1 \in Nat /\ k - 1 \in 1 .. k - 1 /\ k - 1 <= k
    BY <2>1
  <2> HIDE DEF s
  <2>5. g[k - 1] = f[k - 1]
    BY <1>1, <2>2, <2>3, <2>4, JoinsAgree
  <2> QED
    BY <2>2, <2>5
<1> QED
  BY <1>1, <1>2, <1>3, <1>4

LEMMA PartType ==
  ASSUME NEW batch \in Seq(Requests), NEW k \in 0 .. Len(batch)
  PROVE  Part(batch, k) \in Seq(Item)
<1> DEFINE T == {j \in 0 .. Len(batch) : Part(batch, j) \notin Seq(Item)}
<1>1. ASSUME T # {}
      PROVE  FALSE
  <2>1. PICK j \in T : \A i \in T : j <= i
    <3>1. T \subseteq Nat
      OBVIOUS
    <3> HIDE DEF T
    <3> QED
      BY <1>1, <3>1, LeastNumber
  <2>2. j # 0
    BY <2>1, PartEmpty, EmptySeq
  <2>3. j \in 1 .. Len(batch) /\ batch[j] \in Requests
    BY <2>1, <2>2
  <2>4. ItemsOf(batch[j]) \in Seq(Item)
    BY <2>3, ItemsOfType
  <2>5. j # 1 => Part(batch, j - 1) \in Seq(Item)
    BY <2>1, <2>3
  <2>6. Part(batch, j) \in Seq(Item)
    BY <2>3, <2>4, <2>5, PartNext, ConcatProperties
  <2> QED
    BY <2>1, <2>6
<1> QED
  BY <1>1

(* The items of a request come after those of the requests before it, and  *)
(* stay there whatever request is joined after it.                         *)
Placed(batch, k, n) ==
  LET o == Len(Part(batch, k - 1)) IN
  /\ o \in Nat
  /\ Len(Part(batch, n)) >= o + Size[batch[k]]
  /\ \A i \in 1 .. Size[batch[k]] : Part(batch, n)[o + i] = ItemsOf(batch[k])[i]

LEMMA PlacedFirst ==
  ASSUME NEW batch \in Seq(Requests), NEW k \in 1 .. Len(batch)
  PROVE  Placed(batch, k, k)
<1> DEFINE p == Part(batch, k - 1)
           q == ItemsOf(batch[k])
<1>1. p \in Seq(Item)
  BY PartType
<1>2. q \in Seq(Item) /\ Len(q) = Size[batch[k]] /\ Size[batch[k]] \in Nat \ {0}
  BY ItemsOfType
<1>3. k = 1 => p = <<>>
  BY PartEmpty
<1>4. Part(batch, k) = p \o q
  BY <1>1, <1>2, <1>3, PartNext, ConcatEmptySeq
<1> HIDE DEF p, q
<1>5. /\ Len(p) \in Nat
      /\ Len(p \o q) = Len(p) + Len(q)
      /\ \A i \in 1 .. Len(q) : (p \o q)[Len(p) + i] = q[i]
  <2>1. Len(p) \in Nat /\ Len(q) \in Nat
    BY <1>1, <1>2
  <2>2. Len(p \o q) = Len(p) + Len(q)
    BY <1>1, <1>2, ConcatProperties
  <2>3. ASSUME NEW i \in 1 .. Len(q)
        PROVE  (p \o q)[Len(p) + i] = q[i]
    <3> DEFINE j == Len(p) + i
    <3>1. j \in 1 .. Len(p) + Len(q) /\ ~(j <= Len(p)) /\ j - Len(p) = i
      BY <2>1
    <3>2. (p \o q)[j] = IF j <= Len(p) THEN p[j] ELSE q[j - Len(p)]
      <4> HIDE DEF j
      <4> QED
        BY <1>1, <1>2, <3>1, ConcatProperties
    <3> QED
      BY <3>1, <3>2
  <2> QED
    BY <2>1, <2>2, <2>3
<1> QED
  BY <1>2, <1>4, <1>5 DEF Placed, p, q

LEMMA PlacedNext ==
  ASSUME NEW batch \in Seq(Requests), NEW k \in 1 .. Len(batch),
         NEW n \in k + 1 .. Len(batch), Placed(batch, k, n - 1)
  PROVE  Placed(batch, k, n)
<1> DEFINE o == Len(Part(batch, k - 1))
           p == Part(batch, n - 1)
           q == ItemsOf(batch[n])
<1>1. p \in Seq(Item)
  BY PartType
<1>2. q \in Seq(Item) /\ Size[batch[k]] \in Nat \ {0}
  BY ItemsOfType
<1>3. Part(batch, n) = p \o q
  BY PartNext
<1>4. /\ o \in Nat
      /\ Len(p) >= o + Size[batch[k]]
      /\ \A i \in 1 .. Size[batch[k]] : p[o + i] = ItemsOf(batch[k])[i]
  BY DEF Placed
<1>5. Len(p \o q) >= o + Size[batch[k]]
  BY <1>1, <1>2, <1>4, ConcatProperties
<1>6. ASSUME NEW i \in 1 .. Size[batch[k]]
      PROVE  (p \o q)[o + i] = ItemsOf(batch[k])[i]
  <2>1. o + i \in 1 .. Len(p) /\ Len(p) \in Nat
    BY <1>1, <1>2, <1>4
  <2>2. (p \o q)[o + i] = p[o + i]
    BY <1>1, <1>2, <2>1, ConcatProperties
  <2> QED
    BY <1>4, <2>2
<1> QED
  BY <1>3, <1>4, <1>5, <1>6 DEF Placed

LEMMA PlacedInAll ==
  ASSUME NEW batch \in Seq(Requests), NEW k \in 1 .. Len(batch)
  PROVE  Placed(batch, k, Len(batch))
<1> DEFINE T == {n \in k .. Len(batch) : ~Placed(batch, k, n)}
<1>1. ASSUME T # {}
      PROVE  FALSE
  <2>1. PICK n \in T : \A i \in T : n <= i
    <3>1. T \subseteq Nat
      OBVIOUS
    <3> HIDE DEF T
    <3> QED
      BY <1>1, <3>1, LeastNumber
  <2>2. n # k
    BY <2>1, PlacedFirst
  <2>3. n \in k + 1 .. Len(batch) /\ n - 1 \in k .. Len(batch) /\ n - 1 \notin T
    BY <2>1, <2>2
  <2>4. Placed(batch, k, n)
    BY <2>3, PlacedNext
  <2> QED
    BY <2>1, <2>4
<1> QED
  BY <1>1

(* The slice of a request holds exactly its own items.                     *)
THEOREM SliceIsOwn ==
  ASSUME NEW batch \in Seq(Requests), NEW k \in 1 .. Len(batch)
  PROVE  Slice(batch, k) = ItemsOf(batch[k])
<1> DEFINE all == AllItems(batch)
           o == Offset(batch, k)
           n == Size[batch[k]]
<1>1. SubSeq(batch, 1, Len(batch)) = batch
  BY SubSeqFull
<1>2. all = Part(batch, Len(batch)) /\ o = Len(Part(batch, k - 1))
  BY <1>1 DEF Part, Offset
<1>3. /\ o \in Nat
      /\ Len(all) >= o + n
      /\ \A i \in 1 .. n : all[o + i] = ItemsOf(batch[k])[i]
  BY <1>2, PlacedInAll DEF Placed
<1>4. all \in Seq(Item)
  BY <1>2, PartType
<1>5. /\ n \in Nat \ {0}
      /\ ItemsOf(batch[k]) \in Seq(Item)
      /\ Len(ItemsOf(batch[k])) = n
  BY ItemsOfType
<1>6. Slice(batch, k) = SubSeq(all, o + 1, o + n)
  BY DEF Slice
<1> HIDE DEF all, o, n
<1>7. /\ SubSeq(all, o + 1, o + n) \in Seq(Item)
      /\ Len(SubSeq(all, o + 1, o + n)) = n
      /\ \A i \in 1 .. n : SubSeq(all, o + 1, o + n)[i] = all[o + i]
  BY <1>3, <1>4, <1>5
<1> QED
  BY <1>3, <1>5, <1>6, <1>7, SeqEqual

-----------------------------------------------------------------------------
(* The requests of a queue.                                                *)

Queue == Seq(Requests \cup {Stop})

(* What Accepted computes with: f[i] holds the requests among the first i  *)
(* entries of the queue.                                                   *)
Sifts(f, q, n) ==
  f = [i \in 0 .. n |->
        IF i = 0 THEN <<>>
        ELSE IF q[i] = Stop THEN f[i - 1]
        ELSE Append(f[i - 1], q[i])]

LEMMA SiftsValue ==
  ASSUME NEW f, NEW q, NEW n \in Nat, Sifts(f, q, n)
  PROVE  /\ f[0] = <<>>
         /\ \A i \in 1 .. n :
              f[i] = IF q[i] = Stop THEN f[i - 1] ELSE Append(f[i - 1], q[i])
<1> DEFINE e(i) == IF i = 0 THEN <<>>
                   ELSE IF q[i] = Stop THEN f[i - 1]
                   ELSE Append(f[i - 1], q[i])
<1>1. f = [i \in 0 .. n |-> e(i)]
  BY DEF Sifts
<1> HIDE DEF e
<1>2. \A i \in 0 .. n : f[i] = e(i)
  BY <1>1
<1>3. f[0] = e(0) /\ \A i \in 1 .. n : f[i] = e(i) /\ i # 0
  BY <1>2
<1> QED
  BY <1>3 DEF e

LEMMA SiftsExist ==
  ASSUME NEW q, NEW n \in Nat
  PROVE  \E f : Sifts(f, q, n)
<1> DEFINE T == {k \in Nat : ~ \E f : Sifts(f, q, k)}
<1>1. ASSUME T # {}
      PROVE  FALSE
  <2>1. PICK k \in T : \A j \in T : k <= j
    <3>1. T \subseteq Nat
      OBVIOUS
    <3> HIDE DEF T
    <3> QED
      BY <1>1, <3>1, LeastNumber
  <2>2. k # 0
    <3> SUFFICES \E f : Sifts(f, q, 0)
      BY <2>1
    <3>1. Sifts([i \in 0 .. 0 |-> <<>>], q, 0)
      BY DEF Sifts
    <3> QED
      BY <3>1
  <2>3. k - 1 \in Nat
    BY <2>1, <2>2
  <2>4. PICK g : Sifts(g, q, k - 1)
    BY <2>1, <2>3
  <2> DEFINE last == IF q[k] = Stop THEN g[k - 1] ELSE Append(g[k - 1], q[k])
             h == [i \in 0 .. k |-> IF i = k THEN last ELSE g[i]]
  <2>5. ASSUME NEW i \in 0 .. k
        PROVE  h[i] = IF i = 0 THEN <<>>
                      ELSE IF q[i] = Stop THEN h[i - 1]
                      ELSE Append(h[i - 1], q[i])
    <3>1. CASE i = k
      <4>1. i # 0 /\ i - 1 \in 0 .. k /\ i - 1 # k
        BY <2>2, <2>3, <3>1
      <4>2. h[i] = last /\ h[i - 1] = g[i - 1]
        BY <3>1, <4>1
      <4> QED
        BY <3>1, <4>1, <4>2
    <3>2. CASE i # k
      <4>1. i \in 0 .. k - 1 /\ h[i] = g[i] /\ (i # 0 => h[i - 1] = g[i - 1])
        BY <2>3, <3>2
      <4>2. i # 0 => i \in 1 .. k - 1
        BY <4>1
      <4> QED
        BY <2>3, <2>4, <4>1, <4>2, SiftsValue
    <3> QED
      BY <3>1, <3>2
  <2>6. Sifts(h, q, k)
    BY <2>5 DEF Sifts
  <2> QED
    BY <2>1, <2>6
<1> QED
  BY <1>1

LEMMA AcceptedSifts ==
  ASSUME NEW q, Len(q) \in Nat
  PROVE  \E f : Sifts(f, q, Len(q)) /\ Accepted(q) = f[Len(q)]
<1>1. \E f : Sifts(f, q, Len(q))
  BY SiftsExist
<1> DEFINE f == CHOOSE f : Sifts(f, q, Len(q))
<1>2. Sifts(f, q, Len(q))
  BY <1>1
<1>3. Accepted(q) = f[Len(q)]
  BY Zenon DEF Accepted, Sifts
<1> QED
  BY <1>2, <1>3

(* Every entry of f is a sequence of requests.                             *)
LEMMA SiftsType ==
  ASSUME NEW q \in Queue, NEW f, Sifts(f, q, Len(q)), NEW k \in 0 .. Len(q)
  PROVE  f[k] \in Seq(Requests)
<1> DEFINE T == {i \in 0 .. Len(q) : f[i] \notin Seq(Requests)}
<1>0. Len(q) \in Nat /\ \A i \in 1 .. Len(q) : q[i] \in Requests \cup {Stop}
  BY DEF Queue
<1>1. ASSUME T # {}
      PROVE  FALSE
  <2>1. PICK i \in T : \A j \in T : i <= j
    <3>1. T \subseteq Nat
      OBVIOUS
    <3> HIDE DEF T
    <3> QED
      BY <1>1, <3>1, LeastNumber
  <2>2. f[0] = <<>>
    BY <1>0, SiftsValue
  <2>3. i \in 1 .. Len(q) /\ i - 1 \in 0 .. Len(q) /\ i - 1 \notin T
    <3>1. i # 0
      BY <2>1, <2>2, EmptySeq
    <3> QED
      BY <1>0, <2>1, <3>1
  <2>4. f[i] = IF q[i] = Stop THEN f[i - 1] ELSE Append(f[i - 1], q[i])
    BY <1>0, <2>3, SiftsValue
  <2>5. f[i - 1] \in Seq(Requests) /\ (q[i] # Stop => q[i] \in Requests)
    BY <1>0, <2>3
  <2>6. f[i] \in Seq(Requests)
    BY <2>4, <2>5
  <2> QED
    BY <2>1, <2>6
<1> QED
  BY <1>1

LEMMA AcceptedType ==
  ASSUME NEW q \in Queue
  PROVE  Accepted(q) \in Seq(Requests)
<1>1. Len(q) \in Nat
  BY DEF Queue
<1> QED
  BY <1>1, AcceptedSifts, SiftsType

LEMMA AcceptedEmpty == Accepted(<<>>) = <<>>
<1>1. Len(<<>>) = 0
  OBVIOUS
<1> QED
  BY <1>1, AcceptedSifts, SiftsValue

LEMMA SiftsAgree ==
  ASSUME NEW f, NEW g, NEW q, NEW t, NEW n \in Nat, NEW m \in Nat,
         Sifts(f, q, n), Sifts(g, t, m),
         NEW k \in 0 .. n, k <= m, \A i \in 1 .. k : q[i] = t[i]
  PROVE  f[k] = g[k]
<1> DEFINE T == {i \in 0 .. k : f[i] # g[i]}
<1>1. ASSUME T # {}
      PROVE  FALSE
  <2>1. PICK i \in T : \A j \in T : i <= j
    <3>1. T \subseteq Nat
      OBVIOUS
    <3> HIDE DEF T
    <3> QED
      BY <1>1, <3>1, LeastNumber
  <2>2. f[0] = <<>> /\ g[0] = <<>>
    BY SiftsValue
  <2>3. i # 0 /\ i \in 1 .. n /\ i \in 1 .. m /\ i - 1 \in 0 .. k /\ i - 1 \notin T
    BY <2>1, <2>2
  <2>4. f[i - 1] = g[i - 1] /\ q[i] = t[i]
    BY <2>1, <2>3
  <2>5. f[i] = IF q[i] = Stop THEN f[i - 1] ELSE Append(f[i - 1], q[i])
    BY <2>3, SiftsValue
  <2>6. g[i] = IF t[i] = Stop THEN g[i - 1] ELSE Append(g[i - 1], t[i])
    BY <2>3, SiftsValue
  <2> QED
    BY <2>1, <2>4, <2>5, <2>6
<1> QED
  BY <1>1

(* What joins the queue is accepted last ...                               *)
LEMMA AcceptedAppend ==
  ASSUME NEW q \in Queue, NEW x \in Requests \cup {Stop}
  PROVE  Accepted(Append(q, x)) =
           IF x = Stop THEN Accepted(q) ELSE Append(Accepted(q), x)
<1> DEFINE p == Append(q, x)
           n == Len(q)
<1>1. n \in Nat /\ Len(p) = n + 1 /\ p[n + 1] = x /\ \A i \in 1 .. n : q[i] = p[i]
  BY AppendProperties DEF Queue
<1> HIDE DEF p
<1>2. PICK f : Sifts(f, p, n + 1) /\ Accepted(p) = f[n + 1]
  BY <1>1, AcceptedSifts
<1>3. PICK g : Sifts(g, q, n) /\ Accepted(q) = g[n]
  BY <1>1, AcceptedSifts
<1> HIDE DEF n
<1>4. g[n] = f[n]
  BY <1>1, <1>2, <1>3, SiftsAgree
<1>5. n + 1 \in 1 .. n + 1 /\ (n + 1) - 1 = n /\ n + 1 \in Nat
  BY <1>1
<1>6. f[n + 1] = IF p[n + 1] = Stop THEN f[n] ELSE Append(f[n], p[n + 1])
  BY <1>2, <1>5, SiftsValue
<1> QED
  BY <1>1, <1>2, <1>3, <1>4, <1>6 DEF p

(* ... and what leaves the front of the queue was accepted first.          *)
LEMMA AcceptedHead ==
  ASSUME NEW q \in Queue, q # <<>>
  PROVE  Accepted(q) =
           (IF Head(q) = Stop THEN <<>> ELSE <<Head(q)>>) \o Accepted(Tail(q))
<1> DEFINE t == Tail(q)
           n == Len(t)
           first == IF Head(q) = Stop THEN <<>> ELSE <<Head(q)>>
<1>1. /\ t \in Queue /\ n \in Nat /\ Len(q) = n + 1
      /\ Head(q) = q[1] /\ q[1] \in Requests \cup {Stop}
      /\ \A i \in 1 .. n : t[i] = q[i + 1] /\ t[i] \in Requests \cup {Stop}
  BY HeadTailProperties DEF Queue
<1> HIDE DEF t, n
<1>2. PICK f : Sifts(f, q, n + 1) /\ Accepted(q) = f[n + 1]
  BY <1>1, AcceptedSifts
<1>3. PICK g : Sifts(g, t, n) /\ Accepted(t) = g[n]
  BY <1>1, AcceptedSifts DEF n
<1>4. first \in Seq(Requests)
  BY <1>1
<1>5. \A i \in 0 .. n : g[i] \in Seq(Requests)
  BY <1>1, <1>3, SiftsType DEF n
<1>7. first = IF q[1] = Stop THEN <<>> ELSE <<q[1]>>
  BY <1>1
<1> HIDE DEF first
<1> DEFINE T == {i \in 0 .. n : f[i + 1] # first \o g[i]}
<1>6. ASSUME T # {}
      PROVE  FALSE
  <2>1. PICK i \in T : \A j \in T : i <= j
    <3>1. T \subseteq Nat
      BY <1>1
    <3> HIDE DEF T
    <3> QED
      BY <1>6, <3>1, LeastNumber
  <2>2. f[1] = first \o g[0]
    <3>1. f[0] = <<>> /\ g[0] = <<>>
      BY <1>1, <1>2, <1>3, SiftsValue
    <3>2. f[1] = IF q[1] = Stop THEN f[0] ELSE Append(f[0], q[1])
      <4>1. n + 1 \in Nat /\ 1 \in 1 .. n + 1 /\ 1 - 1 = 0
        BY <1>1
      <4> QED
        BY <1>2, <4>1, SiftsValue
    <3>3. first \o g[0] = first
      BY <1>4, <3>1
    <3>4. f[1] = first
      BY <1>1, <1>7, <3>1, <3>2
    <3> QED
      BY <3>3, <3>4
  <2>3. /\ i \in 1 .. n /\ i - 1 \in 0 .. n /\ i - 1 \notin T
        /\ i + 1 \in 1 .. n + 1 /\ (i + 1) - 1 = i /\ n + 1 \in Nat
    <3>1. i \in 0 .. n /\ f[i + 1] # first \o g[i]
      BY <2>1
    <3>2. i # 0
      BY <2>2, <3>1
    <3>3. i \in 1 .. n
      BY <1>1, <3>1, <3>2
    <3>4. i - 1 \notin T
      BY <1>1, <2>1, <3>3
    <3> QED
      BY <1>1, <3>3, <3>4
  <2>4. f[i] = first \o g[i - 1]
    BY <2>3
  <2>5. f[i + 1] = IF q[i + 1] = Stop THEN f[i] ELSE Append(f[i], q[i + 1])
    <3> DEFINE j == i + 1
    <3>1. j \in 1 .. n + 1 /\ j - 1 = i /\ n + 1 \in Nat
      BY <2>3
    <3> HIDE DEF j
    <3>2. f[j] = IF q[j] = Stop THEN f[j - 1] ELSE Append(f[j - 1], q[j])
      BY <1>2, <3>1, SiftsValue
    <3>3. f[j] = IF q[j] = Stop THEN f[i] ELSE Append(f[i], q[j])
      BY <3>1, <3>2
    <3> QED
      BY <3>3 DEF j
  <2>6. g[i] = IF t[i] = Stop THEN g[i - 1] ELSE Append(g[i - 1], t[i])
    BY <1>1, <1>3, <2>3, SiftsValue
  <2>7. t[i] = q[i + 1] /\ t[i] \in Requests \cup {Stop} /\ g[i - 1] \in Seq(Requests)
    BY <1>1, <1>5, <2>3
  <2> HIDE DEF T
  <2>8. ASSUME t[i] # Stop
        PROVE  Append(first \o g[i - 1], t[i]) = first \o Append(g[i - 1], t[i])
    <3>1. t[i] \in Requests
      BY <2>7, <2>8
    <3> DEFINE u == g[i - 1]
               x == t[i]
    <3>2. u \in Seq(Requests) /\ x \in Requests /\ <<x>> \in Seq(Requests)
      BY <2>7, <3>1
    <3> HIDE DEF u, x
    <3>3. Append(u, x) = u \o <<x>> /\ Append(first \o u, x) = (first \o u) \o <<x>>
      BY <1>4, <3>2, AppendIsConcat, ConcatProperties
    <3>4. Append(first \o u, x) = first \o Append(u, x)
      BY <1>4, <3>2, <3>3, ConcatAssociative
    <3> QED
      BY <3>4 DEF u, x
  <2>9. f[i + 1] = first \o g[i]
    BY <2>4, <2>5, <2>6, <2>7, <2>8
  <2> QED
    BY <2>1, <2>9 DEF T
<1>8. f[n + 1] = first \o g[n]
  BY <1>1, <1>6
<1> QED
  BY <1>2, <1>3, <1>8 DEF t, first

-----------------------------------------------------------------------------
(* A lane by itself.                                                       *)

(* A lane that is not closed holds no mark, one that collects has no carry,*)
(* and only one that collects or executes has a batch.                     *)
LaneGood(l) ==
  /\ l \in LaneRecord
  /\ Len(l.queue) <= Capacity
  /\ ~l.closed => \A i \in 1 .. Len(l.queue) : l.queue[i] # Stop
  /\ l.thread = "collecting" => l.carry = Nobody
  /\ l.thread \notin {"collecting", "executing"} => l.batch = <<>>

Serves(l) == ~l.closed /\ l.thread # "exited"

(* A step of a lane that answers nobody: it keeps whom it has accepted, in *)
(* order, and an open lane stays open.                                     *)
Rearranged(l, k) ==
  /\ LaneGood(k)
  /\ Backlog(k) = Backlog(l)
  /\ Serves(l) => Serves(k)

LEMMA LaneFields ==
  ASSUME NEW l, LaneGood(l)
  PROVE  /\ l \in LaneRecord
         /\ l.queue \in Queue /\ Len(l.queue) \in Nat
         /\ l.closed \in BOOLEAN
         /\ l.carry \in Requests \cup {Nobody}
         /\ l.batch \in Seq(Requests)
         /\ l.count \in Nat
         /\ l.thread \in ThreadStates
BY DEF LaneGood, LaneRecord, Queue

LEMMA EmptyLaneGood ==
  /\ LaneGood(EmptyLane) /\ Backlog(EmptyLane) = <<>>
  /\ LaneGood([EmptyLane EXCEPT !.thread = "idle"])
  /\ Backlog([EmptyLane EXCEPT !.thread = "idle"]) = <<>>
  /\ Serves([EmptyLane EXCEPT !.thread = "idle"])
<1> DEFINE idle == [EmptyLane EXCEPT !.thread = "idle"]
<1>1. Capacity \in Nat
  BY LimitsAssumption
<1>2. EmptyLane \in LaneRecord /\ idle \in LaneRecord
  <2>1. <<>> \in Seq(Requests \cup {Stop}) /\ <<>> \in Seq(Requests)
    BY EmptySeq
  <2>2. EmptyLane \in LaneRecord
    BY <2>1 DEF EmptyLane, LaneRecord, ThreadStates
  <2>3. [EmptyLane EXCEPT !.thread = "idle"] \in LaneRecord
    BY <2>2 DEF LaneRecord, ThreadStates
  <2> QED
    BY <2>2, <2>3
<1>3. LaneGood(EmptyLane) /\ LaneGood(idle) /\ Serves(idle)
  BY <1>1, <1>2 DEF LaneGood, EmptyLane, Serves
<1>4. Backlog(EmptyLane) = <<>> /\ Backlog(idle) = <<>>
  BY AcceptedEmpty DEF Backlog, EmptyLane
<1> QED
  BY <1>3, <1>4

LEMMA ClosedLaneGood ==
  ASSUME NEW l, LaneGood(l)
  PROVE  LaneGood(ClosedLane(l)) /\ Backlog(ClosedLane(l)) = Backlog(l)
<1>1. CASE l.closed
  BY <1>1 DEF ClosedLane
<1>2. CASE ~l.closed
  <2> DEFINE q == IF Len(l.queue) < Capacity THEN Append(l.queue, Stop) ELSE l.queue
             k == [l EXCEPT !.closed = TRUE, !.queue = q]
  <2>1. ClosedLane(l) = k
    BY <1>2 DEF ClosedLane
  <2>2. Capacity \in Nat
    BY LimitsAssumption
  <2>3. q \in Queue /\ Len(q) <= Capacity /\ Accepted(q) = Accepted(l.queue)
    BY <2>2, LaneFields, AcceptedAppend, AppendProperties DEF LaneGood, Queue
  <2> HIDE DEF q
  <2>4. /\ k \in LaneRecord /\ k.queue = q /\ k.closed
        /\ k.carry = l.carry /\ k.batch = l.batch /\ k.thread = l.thread
    BY <2>3 DEF LaneGood, LaneRecord, Queue
  <2> HIDE DEF k
  <2>5. LaneGood(k)
    BY <2>3, <2>4 DEF LaneGood
  <2>6. Backlog(k) = Backlog(l)
    BY <2>3, <2>4 DEF Backlog
  <2> QED
    BY <2>1, <2>5, <2>6
<1> QED
  BY <1>1, <1>2

LEMMA AcceptedByLane ==
  ASSUME NEW l, LaneGood(l), Len(l.queue) < Capacity, NEW c \in Requests
  PROVE  LET k == [l EXCEPT !.queue = Append(@, c)] IN
         /\ LaneGood(k)
         /\ Backlog(k) = Append(Backlog(l), c)
         /\ Serves(l) => Serves(k)
<1> DEFINE q == Append(l.queue, c)
           k == [l EXCEPT !.queue = q]
           a == Accepted(l.queue)
           front == l.batch \o (IF l.carry = Nobody THEN <<>> ELSE <<l.carry>>)
<1>1. Capacity \in Nat /\ c # Stop
  BY LimitsAssumption, MarksAssumption
<1>2. /\ q \in Queue /\ Len(q) <= Capacity
      /\ (\A i \in 1 .. Len(l.queue) : l.queue[i] # Stop)
           => \A i \in 1 .. Len(q) : q[i] # Stop
  BY <1>1, LaneFields, AppendProperties DEF Queue
<1>3. Accepted(q) = Append(a, c) /\ a \in Seq(Requests)
  BY <1>1, LaneFields, AcceptedAppend, AcceptedType
<1>4. front \in Seq(Requests)
  BY LaneFields
<1> HIDE DEF q, a, front
<1>5. /\ k \in LaneRecord /\ k.queue = q /\ k.closed = l.closed
      /\ k.carry = l.carry /\ k.batch = l.batch /\ k.thread = l.thread
  BY <1>2 DEF LaneGood, LaneRecord, Queue
<1>6. Backlog(k) = front \o Append(a, c) /\ Backlog(l) = front \o a
  <2> HIDE DEF k
  <2>1. Backlog(l) = front \o a
    BY DEF Backlog, a, front
  <2>2. Backlog(k) = front \o Accepted(q)
    BY <1>5 DEF Backlog, front
  <2> QED
    BY <1>3, <2>1, <2>2
<1>7. front \o Append(a, c) = Append(front \o a, c)
  <2>1. Append(a, c) = a \o <<c>> /\ Append(front \o a, c) = (front \o a) \o <<c>>
    BY <1>3, <1>4, AppendIsConcat, ConcatProperties
  <2>2. <<c>> \in Seq(Requests)
    OBVIOUS
  <2> QED
    BY <1>3, <1>4, <2>1, <2>2, ConcatAssociative
<1>8. LaneGood(k) /\ (Serves(l) => Serves(k))
  BY <1>2, <1>5 DEF LaneGood, Serves
<1> QED
  BY <1>6, <1>7, <1>8 DEF q

(* What opens a batch, joins one or is carried over was first in line.     *)
LEMMA HeadOfBacklog ==
  ASSUME NEW q \in Queue, q # <<>>
  PROVE  /\ Tail(q) \in Queue /\ Len(Tail(q)) = Len(q) - 1 /\ Len(q) \in Nat
         /\ Head(q) \in Requests \cup {Stop}
         /\ (\A i \in 1 .. Len(q) : q[i] # Stop)
              => /\ Head(q) # Stop
                 /\ \A i \in 1 .. Len(Tail(q)) : Tail(q)[i] # Stop
         /\ Accepted(Tail(q)) \in Seq(Requests)
         /\ Head(q) = Stop => Accepted(q) = Accepted(Tail(q))
         /\ Head(q) # Stop => /\ Head(q) \in Requests
                              /\ Accepted(q) = <<Head(q)>> \o Accepted(Tail(q))
<1>1. /\ Tail(q) \in Queue /\ Len(Tail(q)) = Len(q) - 1 /\ Len(q) \in Nat \ {0}
      /\ Head(q) = q[1] /\ Head(q) \in Requests \cup {Stop}
      /\ \A i \in 1 .. Len(Tail(q)) : Tail(q)[i] = q[i + 1]
  BY HeadTailProperties DEF Queue
<1>2. Accepted(Tail(q)) \in Seq(Requests)
  BY <1>1, AcceptedType
<1>3. Accepted(q) = (IF Head(q) = Stop THEN <<>> ELSE <<Head(q)>>) \o Accepted(Tail(q))
  BY AcceptedHead
<1>4. Head(q) = Stop => Accepted(q) = Accepted(Tail(q))
  BY <1>2, <1>3, ConcatEmptySeq
<1>5. ASSUME \A i \in 1 .. Len(q) : q[i] # Stop
      PROVE  /\ Head(q) # Stop
             /\ \A i \in 1 .. Len(Tail(q)) : Tail(q)[i] # Stop
  BY <1>1, <1>5
<1> QED
  BY <1>1, <1>2, <1>3, <1>4, <1>5

LEMMA FirstInLine ==
  ASSUME NEW l, LaneGood(l), l.queue # <<>>
  PROVE  LET c == Head(l.queue)
             q == Tail(l.queue) IN
         /\ q \in Queue /\ Len(q) <= Capacity
         /\ ~l.closed => c # Stop
         /\ ~l.closed => \A i \in 1 .. Len(q) : q[i] # Stop
         /\ Accepted(q) \in Seq(Requests)
         /\ c = Stop => Accepted(l.queue) = Accepted(q)
         /\ c # Stop => /\ c \in Requests /\ Size[c] \in Nat \ {0}
                        /\ <<c>> \in Seq(Requests)
                        /\ Accepted(l.queue) = <<c>> \o Accepted(q)
<1> DEFINE q == l.queue
<1>1. q \in Queue /\ q # <<>>
  BY LaneFields
<1>2. /\ Len(q) <= Capacity /\ Capacity \in Nat
      /\ ~l.closed => \A i \in 1 .. Len(q) : q[i] # Stop
  BY LimitsAssumption DEF LaneGood
<1> HIDE DEF q
<1>3. /\ Tail(q) \in Queue /\ Len(Tail(q)) = Len(q) - 1 /\ Len(q) \in Nat
      /\ (\A i \in 1 .. Len(q) : q[i] # Stop)
           => Head(q) # Stop /\ \A i \in 1 .. Len(Tail(q)) : Tail(q)[i] # Stop
      /\ Accepted(Tail(q)) \in Seq(Requests)
      /\ Head(q) = Stop => Accepted(q) = Accepted(Tail(q))
      /\ Head(q) # Stop => /\ Head(q) \in Requests
                           /\ Accepted(q) = <<Head(q)>> \o Accepted(Tail(q))
  BY <1>1, HeadOfBacklog
<1>4. Len(Tail(q)) <= Capacity
  BY <1>2, <1>3
<1>5. \A c \in Requests : Size[c] \in Nat \ {0} /\ <<c>> \in Seq(Requests)
  BY ItemsOfType
<1>6. /\ ~l.closed => Head(q) # Stop
      /\ ~l.closed => \A i \in 1 .. Len(Tail(q)) : Tail(q)[i] # Stop
  BY <1>2, <1>3
<1> QED
  BY <1>3, <1>4, <1>5, <1>6 DEF q

LEMMA TakesFirst ==
  ASSUME NEW m \in Models, LaneGood(lane[m]), TakeFirst(m),
         lane \in [Models -> LaneRecord]
  PROVE  \E k : lane' = [lane EXCEPT ![m] = k] /\ Rearranged(lane[m], k)
<1> DEFINE l == lane[m]
<1>1. /\ l \in LaneRecord /\ l.queue \in Queue /\ l.batch = <<>> /\ l.thread = "idle"
  BY LaneFields DEF LaneGood, TakeFirst, Thread
<1>2. CASE l.carry # Nobody
  <2> DEFINE k == [Opened(l, l.carry) EXCEPT !.carry = Nobody]
  <2>1. lane' = [lane EXCEPT ![m] = k]
    BY <1>2 DEF TakeFirst, LaneMoves
  <2>2. l.carry \in Requests /\ Size[l.carry] \in Nat /\ <<l.carry>> \in Seq(Requests)
    BY <1>2, LaneFields, ItemsOfType
  <2>3. /\ k \in LaneRecord /\ k.queue = l.queue /\ k.closed = l.closed
        /\ k.carry = Nobody /\ k.batch = <<l.carry>> /\ k.thread = "collecting"
    BY <1>1, <2>2 DEF Opened, LaneRecord, ThreadStates
  <2> HIDE DEF k
  <2>4. LaneGood(k) /\ (Serves(l) => Serves(k))
    BY <1>1, <2>3 DEF LaneGood, Serves
  <2>5. Backlog(k) = (<<l.carry>> \o <<>>) \o Accepted(l.queue)
    BY <2>3 DEF Backlog
  <2>6. Backlog(l) = (<<>> \o <<l.carry>>) \o Accepted(l.queue)
    BY <1>1, <1>2 DEF Backlog
  <2>7. Backlog(k) = Backlog(l)
    BY <2>2, <2>5, <2>6, ConcatEmptySeq
  <2> QED
    BY <2>1, <2>4, <2>7 DEF Rearranged
<1>3. CASE l.carry = Nobody /\ Head(l.queue) # Stop
  <2> DEFINE c == Head(l.queue)
             k == [Opened(l, c) EXCEPT !.queue = Tail(l.queue)]
  <2>1. l.queue # <<>> /\ lane' = [lane EXCEPT ![m] = [Opened(l, c) EXCEPT !.queue = Tail(@)]]
    BY <1>3 DEF TakeFirst, LaneMoves
  <2>2. [Opened(l, c) EXCEPT !.queue = Tail(@)] = k
    BY DEF Opened
  <2>3. c \in Requests /\ Size[c] \in Nat /\ <<c>> \in Seq(Requests)
    BY <1>3, <2>1, FirstInLine
  <2>4. /\ Tail(l.queue) \in Queue /\ Len(Tail(l.queue)) <= Capacity
        /\ ~l.closed => \A i \in 1 .. Len(Tail(l.queue)) : Tail(l.queue)[i] # Stop
    BY <2>1, FirstInLine
  <2>5. /\ k \in LaneRecord /\ k.queue = Tail(l.queue) /\ k.closed = l.closed
        /\ k.carry = Nobody /\ k.batch = <<c>> /\ k.thread = "collecting"
    BY <1>1, <1>3, <2>3, <2>4 DEF Opened, LaneRecord, ThreadStates, Queue
  <2> HIDE DEF k
  <2>6. LaneGood(k) /\ (Serves(l) => Serves(k))
    BY <1>1, <2>4, <2>5 DEF LaneGood, Serves
  <2>7. Backlog(k) = (<<c>> \o <<>>) \o Accepted(Tail(l.queue))
    BY <2>5 DEF Backlog
  <2>8. Backlog(l) = (<<>> \o <<>>) \o Accepted(l.queue)
    BY <1>1, <1>3 DEF Backlog
  <2>9. /\ Accepted(l.queue) = <<c>> \o Accepted(Tail(l.queue))
        /\ Accepted(l.queue) \in Seq(Requests)
    BY <1>1, <1>3, <2>1, FirstInLine, AcceptedType
  <2>10. Backlog(k) = Backlog(l)
    BY <2>3, <2>7, <2>8, <2>9, ConcatEmptySeq, EmptySeq
  <2> QED
    BY <2>1, <2>2, <2>6, <2>10 DEF Rearranged
<1>4. CASE l.carry = Nobody /\ Head(l.queue) = Stop
  <2> DEFINE k == [l EXCEPT !.queue = Tail(l.queue), !.thread = "exited"]
  <2>1. l.queue # <<>> /\ lane' = [lane EXCEPT ![m] = k]
    BY <1>4 DEF TakeFirst, LaneMoves
  <2>2. l.closed
    BY <1>4, <2>1, LaneFields, FirstInLine
  <2>3. /\ Tail(l.queue) \in Queue /\ Len(Tail(l.queue)) <= Capacity
        /\ Accepted(Tail(l.queue)) = Accepted(l.queue)
    BY <1>4, <2>1, FirstInLine
  <2>4. /\ k \in LaneRecord /\ k.queue = Tail(l.queue) /\ k.closed
        /\ k.carry = l.carry /\ k.batch = l.batch /\ k.thread = "exited"
    BY <1>1, <2>2, <2>3 DEF LaneRecord, ThreadStates, Queue
  <2> HIDE DEF k
  <2>5. LaneGood(k) /\ (Serves(l) => Serves(k)) /\ Backlog(k) = Backlog(l)
    BY <1>1, <2>2, <2>3, <2>4 DEF LaneGood, Serves, Backlog
  <2> QED
    BY <2>1, <2>5 DEF Rearranged
<1> QED
  BY <1>2, <1>3, <1>4

LEMMA JoinThree ==
  ASSUME NEW s \in Seq(Requests), NEW t \in Seq(Requests), NEW u \in Seq(Requests)
  PROVE  /\ (s \o t) \o u = s \o (t \o u)
         /\ s \o <<>> = s
BY ConcatAssociative, ConcatEmptySeq

LEMMA Collects ==
  ASSUME NEW m \in Models, LaneGood(lane[m]), Collect(m),
         lane \in [Models -> LaneRecord]
  PROVE  \E k : lane' = [lane EXCEPT ![m] = k] /\ Rearranged(lane[m], k)
<1> DEFINE l == lane[m]
           c == Head(l.queue)
           q == Tail(l.queue)
           a == Accepted(q)
<1>1. /\ l \in LaneRecord /\ l.thread = "collecting" /\ l.carry = Nobody
      /\ l.batch \in Seq(Requests) /\ l.count \in Nat /\ l.queue # <<>>
  BY LaneFields DEF LaneGood, Collect, MayCollect, Thread
<1>2. /\ q \in Queue /\ Len(q) <= Capacity
      /\ ~l.closed => c # Stop
      /\ ~l.closed => \A i \in 1 .. Len(q) : q[i] # Stop
      /\ a \in Seq(Requests)
      /\ c = Stop => Accepted(l.queue) = a
      /\ c # Stop => /\ c \in Requests /\ Size[c] \in Nat \ {0}
                     /\ <<c>> \in Seq(Requests)
                     /\ Accepted(l.queue) = <<c>> \o a
  BY <1>1, FirstInLine
<1>3. Backlog(l) = (l.batch \o <<>>) \o Accepted(l.queue)
  BY <1>1 DEF Backlog
<1>4. Backlog(l) = l.batch \o Accepted(l.queue)
  BY <1>1, <1>3, ConcatEmptySeq
<1>5. CASE c = Stop
  <2> DEFINE k == [l EXCEPT !.queue = q, !.closed = TRUE, !.thread = "executing"]
  <2>1. lane' = [lane EXCEPT ![m] = k]
    BY <1>5, MarksAssumption, <1>2 DEF Collect, LaneMoves
  <2>2. /\ k \in LaneRecord /\ k.queue = q /\ k.closed
        /\ k.carry = Nobody /\ k.batch = l.batch /\ k.thread = "executing"
    BY <1>1, <1>2 DEF LaneRecord, ThreadStates, Queue
  <2> HIDE DEF k, l, c, q
  <2>3. LaneGood(k)
    BY <1>2, <2>2 DEF LaneGood
  <2>4. Serves(l) => Serves(k)
    BY <1>2, <1>5 DEF Serves
  <2>5. Backlog(k) = (l.batch \o <<>>) \o a
    BY <2>2 DEF Backlog
  <2>6. Backlog(k) = Backlog(l)
    BY <1>2, <1>3, <1>5, <2>5
  <2> QED
    BY <2>1, <2>3, <2>4, <2>6 DEF Rearranged, l
<1>6. CASE c # Stop /\ l.count + Size[c] > MaxBatch
  <2> DEFINE k == [l EXCEPT !.queue = q, !.carry = c, !.thread = "executing"]
  <2>1. lane' = [lane EXCEPT ![m] = k]
    <3>1. ~(l.count + Size[c] <= MaxBatch)
      BY <1>1, <1>2, <1>6, LimitsAssumption
    <3> QED
      BY <1>6, <3>1 DEF Collect, LaneMoves
  <2>2. c # Nobody
    BY <1>2, <1>6, MarksAssumption
  <2>3. /\ k \in LaneRecord /\ k.queue = q /\ k.closed = l.closed
        /\ k.carry = c /\ k.batch = l.batch /\ k.thread = "executing"
    BY <1>1, <1>2, <1>6 DEF LaneRecord, ThreadStates, Queue
  <2> HIDE DEF k, l, c, q, a
  <2>4. LaneGood(k) /\ (Serves(l) => Serves(k))
    BY <1>1, <1>2, <2>3 DEF LaneGood, Serves
  <2>5. Backlog(k) = (l.batch \o <<c>>) \o a
    BY <2>2, <2>3 DEF Backlog, a
  <2>6. Backlog(k) = Backlog(l)
    <3>1. <<c>> \in Seq(Requests) /\ a \in Seq(Requests) /\ l.batch \in Seq(Requests)
      BY <1>1, <1>2, <1>6
    <3>2. (l.batch \o <<c>>) \o a = l.batch \o (<<c>> \o a)
      BY <3>1, JoinThree
    <3>3. Accepted(l.queue) = <<c>> \o a
      BY <1>2, <1>6
    <3> QED
      BY <1>4, <2>5, <3>2, <3>3, Zenon
  <2> QED
    BY <2>1, <2>4, <2>6 DEF Rearranged, l
<1>7. CASE c # Stop /\ ~(l.count + Size[c] > MaxBatch)
  <2> DEFINE b == Append(l.batch, c)
             n == l.count + Size[c]
             k == [l EXCEPT !.queue = q, !.batch = b, !.count = n]
  <2>1. lane' = [lane EXCEPT ![m] = k]
    BY <1>7 DEF Collect, LaneMoves
  <2>2. b \in Seq(Requests) /\ n \in Nat /\ b = l.batch \o <<c>>
    BY <1>1, <1>2, <1>7, AppendIsConcat
  <2> HIDE DEF b, n
  <2>3. /\ k \in LaneRecord /\ k.queue = q /\ k.closed = l.closed
        /\ k.carry = Nobody /\ k.batch = b /\ k.thread = "collecting"
    BY <1>1, <1>2, <2>2 DEF LaneRecord, ThreadStates, Queue
  <2> HIDE DEF k, l, c, q, a
  <2>4. LaneGood(k) /\ (Serves(l) => Serves(k))
    BY <1>1, <1>2, <2>3 DEF LaneGood, Serves
  <2>5. Backlog(k) = (b \o <<>>) \o a
    BY <2>3 DEF Backlog, a
  <2>6. Backlog(k) = Backlog(l)
    <3>1. <<c>> \in Seq(Requests) /\ a \in Seq(Requests) /\ l.batch \in Seq(Requests)
      BY <1>1, <1>2, <1>7
    <3>2. (l.batch \o <<c>>) \o a = l.batch \o (<<c>> \o a)
      BY <3>1, JoinThree
    <3>3. Accepted(l.queue) = <<c>> \o a
      BY <1>2, <1>7
    <3>4. b \o <<>> = b
      BY <2>2, <3>1, JoinThree
    <3> QED
      BY <1>4, <2>2, <2>5, <3>2, <3>3, <3>4, Zenon
  <2> QED
    BY <2>1, <2>4, <2>6 DEF Rearranged, l
<1> QED
  BY <1>5, <1>6, <1>7

(* The steps that only move the thread of a lane.                          *)
LEMMA MovesThread ==
  ASSUME NEW m \in Models, LaneGood(lane[m]), lane \in [Models -> LaneRecord],
         \/ PollEmpty(m) \/ AfterPoll(m) \/ StopCollecting(m) \/ AfterExecute(m)
  PROVE  \E k : lane' = [lane EXCEPT ![m] = k] /\ Rearranged(lane[m], k)
<1> DEFINE l == lane[m]
           k(t) == [l EXCEPT !.thread = t]
<1>1. ASSUME NEW t \in {"idle", "polled", "executing", "exited"},
             t = "executing" \/ l.thread \notin {"executing", "collecting"},
             t = "exited" => l.closed
      PROVE  Rearranged(l, k(t))
  <2>1. /\ k(t) \in LaneRecord /\ k(t).queue = l.queue /\ k(t).closed = l.closed
        /\ k(t).carry = l.carry /\ k(t).batch = l.batch /\ k(t).thread = t
    BY <1>1 DEF LaneGood, LaneRecord, ThreadStates
  <2> HIDE DEF k, l
  <2>2. LaneGood(k(t))
    BY <1>1, <2>1 DEF LaneGood, l
  <2>3. Backlog(k(t)) = Backlog(l)
    BY <2>1 DEF Backlog
  <2>4. Serves(l) => Serves(k(t))
    BY <1>1, <2>1 DEF Serves
  <2> QED
    BY <2>2, <2>3, <2>4 DEF Rearranged
<1>2. CASE PollEmpty(m)
  <2>1. lane' = [lane EXCEPT ![m] = k("polled")] /\ l.thread = "idle"
    BY <1>2 DEF PollEmpty, LaneMoves, Thread
  <2> QED
    BY <1>1, <2>1
<1>3. CASE AfterPoll(m)
  <2> DEFINE t == IF l.closed THEN "exited" ELSE "idle"
  <2>1. lane' = [lane EXCEPT ![m] = k(t)] /\ l.thread = "polled"
    BY <1>3 DEF AfterPoll, LaneMoves, Thread
  <2>2. t \in {"idle", "exited"} /\ (t = "exited" => l.closed)
    OBVIOUS
  <2> HIDE DEF t
  <2> QED
    BY <1>1, <2>1, <2>2
<1>4. CASE StopCollecting(m)
  <2>1. lane' = [lane EXCEPT ![m] = k("executing")]
    BY <1>4 DEF StopCollecting, LaneMoves, Thread
  <2>2. Rearranged(l, k("executing"))
    BY <1>1
  <2> QED
    BY <2>1, <2>2
<1>5. CASE AfterExecute(m)
  <2> DEFINE t == IF Drained(l) THEN "exited" ELSE "idle"
  <2>1. lane' = [lane EXCEPT ![m] = k(t)] /\ l.thread = "executed"
    BY <1>5 DEF AfterExecute, LaneMoves, Thread
  <2>2. t = "exited" => l.closed
    BY DEF Drained
  <2> QED
    BY <1>1, <2>1, <2>2
<1> QED
  BY <1>2, <1>3, <1>4, <1>5

-----------------------------------------------------------------------------
(* The invariant.                                                          *)

EntryRecord == [state : EntryStates, loaded : BOOLEAN, inflight : Nat]
CallRecord == [at : CallSteps, model : Models, answer : Seq(Item)]

CacheTypes ==
  /\ entry \in [Models -> EntryRecord]
  /\ call \in [Requests -> CallRecord]
  /\ runtime \in [closed : BOOLEAN, closing : SUBSET Models]

(* in_flight counts the callers that hold a model, no more and no fewer.   *)
HeldBy(m) == {c \in Requests : call[c].at \in Held /\ call[c].model = m}

CountsHeld == \A m \in Models : entry[m].inflight = Cardinality(HeldBy(m))

(* While the runtime is open, a model is loaded by one caller at a time,   *)
(* its entry says so, and it holds a slot.                                 *)
LoadsMarked ==
  ~runtime.closed =>
    /\ \A c \in Requests : At(c, "loading") =>
         /\ entry[call[c].model].state = "loading"
         /\ ~entry[call[c].model].loaded
    /\ \A c, d \in Requests :
         At(c, "loading") /\ At(d, "loading") /\ call[c].model = call[d].model => c = d

(* A model is in memory or being loaded, not both.                         *)
LoadsFresh ==
  ~runtime.closed => \A m \in Models : entry[m].state = "loading" => ~entry[m].loaded

SlotsBounded == ~runtime.closed => Cardinality(Occupied) <= MaxLoaded

HeldIsLoaded ==
  ~runtime.closed =>
    \A c \in Requests : call[c].at \in Held => entry[call[c].model].loaded

CallInv ==
  /\ CacheTypes /\ CountsHeld /\ LoadsMarked /\ LoadsFresh
  /\ SlotsBounded /\ HeldIsLoaded /\ AnswersMatch

(* Nobody waits twice in a lane, and whoever does waits for its answer.    *)
Orderly(m) ==
  LET b == Backlog(lane[m]) IN
  /\ \A i, j \in 1 .. Len(b) : b[i] = b[j] => i = j
  /\ \A i \in 1 .. Len(b) : call[b[i]].at = "queued" /\ call[b[i]].model = m

(* Only close leaves lanes to close one by one.                            *)
LoadedServes ==
  ~runtime.closed =>
    /\ \A m \in Models : entry[m].loaded => Serves(lane[m])
    /\ runtime.closing = {}

(* Whoever waits for an answer is in the lane of its model.                *)
QueuedWaits ==
  \A c \in Requests : At(c, "queued") => c \in ToSet(Backlog(lane[call[c].model]))

LaneInv ==
  /\ lane \in [Models -> LaneRecord]
  /\ \A m \in Models : LaneGood(lane[m]) /\ Orderly(m)
  /\ LoadedServes /\ QueuedWaits

IInv == CallInv /\ LaneInv

LEMMA BacklogType ==
  ASSUME NEW l, LaneGood(l)
  PROVE  Backlog(l) \in Seq(Requests)
BY LaneFields, AcceptedType DEF Backlog

LEMMA InitInv == Init => IInv
<1> SUFFICES ASSUME Init
             PROVE  IInv
  OBVIOUS
<1>1. CacheTypes
  <2>1. (CHOOSE m \in Models : TRUE) \in Models
    BY RequestsAssumption
  <2>2. <<>> \in Seq(Item)
    BY EmptySeq
  <2>3. entry \in [Models -> EntryRecord]
    BY DEF Init, EntryRecord, EntryStates
  <2>4. call \in [Requests -> CallRecord]
    BY <2>1, <2>2 DEF Init, CallRecord, CallSteps
  <2>5. runtime \in [closed : BOOLEAN, closing : SUBSET Models]
    BY DEF Init
  <2> QED
    BY <2>3, <2>4, <2>5 DEF CacheTypes
<1>2. /\ \A c \in Requests : call[c].at = "new"
      /\ runtime.closing = {}
      /\ \A m \in Models : /\ entry[m].state = "absent" /\ ~entry[m].loaded
                           /\ entry[m].inflight = 0
      /\ lane = [m \in Models |-> EmptyLane]
  BY DEF Init
<1>3. \A m \in Models : HeldBy(m) = {}
  BY <1>2 DEF HeldBy, Held
<1>4. CountsHeld
  BY <1>2, <1>3, FS_EmptySet DEF CountsHeld
<1>5. Occupied = {}
  BY <1>2 DEF Occupied
<1>6. SlotsBounded
  BY <1>5, FS_EmptySet, LimitsAssumption DEF SlotsBounded
<1>7. LoadsMarked /\ LoadsFresh /\ HeldIsLoaded /\ AnswersMatch
  BY <1>2 DEF LoadsMarked, LoadsFresh, HeldIsLoaded, AnswersMatch, At, Held
<1>8. lane \in [Models -> LaneRecord] /\ \A m \in Models : LaneGood(lane[m])
  BY <1>2, EmptyLaneGood, LaneFields
<1>9. \A m \in Models : Orderly(m)
  BY <1>2, EmptyLaneGood DEF Orderly
<1>10. LoadedServes /\ QueuedWaits
  BY <1>2 DEF LoadedServes, QueuedWaits, At
<1> QED
  BY <1>1, <1>4, <1>6, <1>7, <1>8, <1>9, <1>10 DEF IInv, CallInv, LaneInv

-----------------------------------------------------------------------------
(* A step of one caller; the others are woken at most.                     *)

Woken(d) == call[d].at = "waiting" /\ call'[d].at = "woken"

OthersRest(c) ==
  \A d \in Requests \ {c} :
    /\ call'[d].model = call[d].model /\ call'[d].answer = call[d].answer
    /\ call'[d].at = call[d].at \/ Woken(d)

LEMMA HeldFinite ==
  \A m : IsFiniteSet(HeldBy(m)) /\ IsFiniteSet(HeldBy(m)')
<1>1. \A m : HeldBy(m) \in SUBSET Requests /\ HeldBy(m)' \in SUBSET Requests
  BY DEF HeldBy
<1> QED
  BY <1>1, RequestsAssumption, FS_Subset

LEMMA HeldStays ==
  ASSUME NEW c \in Requests, OthersRest(c),
         call'[c].at \in Held <=> call[c].at \in Held,
         call[c].at \in Held => call'[c].model = call[c].model
  PROVE  \A m \in Models : HeldBy(m)' = HeldBy(m)
BY DEF HeldBy, OthersRest, Woken, Held

LEMMA HeldEnters ==
  ASSUME NEW c \in Requests, OthersRest(c),
         call[c].at \notin Held, call'[c].at \in Held
  PROVE  \A m \in Models :
           Cardinality(HeldBy(m)') =
             IF m = call'[c].model THEN Cardinality(HeldBy(m)) + 1
             ELSE Cardinality(HeldBy(m))
<1> SUFFICES ASSUME NEW m \in Models
             PROVE  Cardinality(HeldBy(m)') =
                      IF m = call'[c].model THEN Cardinality(HeldBy(m)) + 1
                      ELSE Cardinality(HeldBy(m))
  OBVIOUS
<1>1. c \notin HeldBy(m)
  BY DEF HeldBy
<1>2. HeldBy(m)' = IF m = call'[c].model THEN HeldBy(m) \cup {c} ELSE HeldBy(m)
  BY DEF HeldBy, OthersRest, Woken, Held
<1> QED
  BY <1>1, <1>2, HeldFinite, FS_AddElement

LEMMA HeldLeaves ==
  ASSUME NEW c \in Requests, OthersRest(c),
         call[c].at \in Held, call'[c].at \notin Held
  PROVE  \A m \in Models :
           /\ Cardinality(HeldBy(m)') =
                IF m = call[c].model THEN Cardinality(HeldBy(m)) - 1
                ELSE Cardinality(HeldBy(m))
           /\ m = call[c].model => Cardinality(HeldBy(m)) # 0
<1> SUFFICES ASSUME NEW m \in Models
             PROVE  /\ Cardinality(HeldBy(m)') =
                         IF m = call[c].model THEN Cardinality(HeldBy(m)) - 1
                         ELSE Cardinality(HeldBy(m))
                    /\ m = call[c].model => Cardinality(HeldBy(m)) # 0
  OBVIOUS
<1>1. m = call[c].model => c \in HeldBy(m)
  BY DEF HeldBy
<1>2. HeldBy(m)' = IF m = call[c].model THEN HeldBy(m) \ {c} ELSE HeldBy(m)
  BY DEF HeldBy, OthersRest, Woken, Held
<1>3. m = call[c].model => Cardinality(HeldBy(m)) # 0
  BY <1>1, HeldFinite, FS_EmptySet
<1> QED
  BY <1>1, <1>2, <1>3, HeldFinite, FS_RemoveElement

(* The caller itself goes on to another step, for the model m.             *)
Moved(c, step, m) ==
  /\ call' \in [Requests -> CallRecord]
  /\ OthersRest(c)
  /\ call'[c].at = step /\ call'[c].model = m

LEMMA GoesMoves ==
  ASSUME call \in [Requests -> CallRecord], NEW c \in Requests,
         NEW step \in CallSteps, NEW m \in Models,
         call' = [call EXCEPT ![c] = [@ EXCEPT !.at = step, !.model = m]]
  PROVE  Moved(c, step, m)
<1> DEFINE r == [call[c] EXCEPT !.at = step, !.model = m]
<1>1. r \in CallRecord /\ r.at = step /\ r.model = m
  BY DEF CallRecord
<1>2. call' = [call EXCEPT ![c] = r]
  OBVIOUS
<1> HIDE DEF r
<1>3. call'[c] = r /\ \A d \in Requests \ {c} : call'[d] = call[d]
  BY <1>2
<1> QED
  BY <1>1, <1>2, <1>3 DEF Moved, OthersRest

LEMMA GoesOn ==
  ASSUME call \in [Requests -> CallRecord], NEW c \in Requests,
         NEW step \in CallSteps, call' = Goes(c, step)
  PROVE  Moved(c, step, call[c].model)
<1> DEFINE r == [call[c] EXCEPT !.at = step]
<1>1. r \in CallRecord /\ r.at = step /\ r.model = call[c].model
  BY DEF CallRecord
<1>2. call' = [call EXCEPT ![c] = r]
  BY DEF Goes
<1> HIDE DEF r
<1>3. call'[c] = r /\ \A d \in Requests \ {c} : call'[d] = call[d]
  BY <1>2
<1> QED
  BY <1>1, <1>2, <1>3 DEF Moved, OthersRest

(* notify_all after the caller has got to r.                               *)
LEMMA NotifyMoves ==
  ASSUME call \in [Requests -> CallRecord], NEW c \in Requests,
         NEW r \in CallRecord, r.at # "waiting",
         call' = Notify([call EXCEPT ![c] = r])
  PROVE  Moved(c, r.at, r.model)
<1> DEFINE w(d) == [call[d] EXCEPT !.at = "woken"]
           calls == [call EXCEPT ![c] = r]
<1>1. \A d \in Requests : /\ w(d) \in CallRecord /\ w(d).at = "woken"
                          /\ w(d).model = call[d].model /\ w(d).answer = call[d].answer
  BY DEF CallRecord, CallSteps
<1>2. calls[c] = r /\ \A d \in Requests \ {c} : calls[d] = call[d]
  OBVIOUS
<1> HIDE DEF calls
<1>3. \A d \in Requests :
        call'[d] = IF calls[d].at = "waiting" THEN [calls[d] EXCEPT !.at = "woken"]
                   ELSE calls[d]
  BY DEF Notify, calls
<1>4. call'[c] = r
  BY <1>2, <1>3
<1>5. \A d \in Requests \ {c} :
        call'[d] = IF call[d].at = "waiting" THEN w(d) ELSE call[d]
  BY <1>2, <1>3
<1>6. call' = [d \in Requests |-> call'[d]]
  BY DEF Notify
<1> HIDE DEF w
<1>7. \A d \in Requests : call'[d] \in CallRecord
  BY <1>1, <1>4, <1>5
<1>8. OthersRest(c)
  BY <1>1, <1>5 DEF OthersRest, Woken
<1> QED
  BY <1>4, <1>6, <1>7, <1>8 DEF Moved

LEMMA AnswersStay ==
  ASSUME AnswersMatch, NEW c \in Requests, OthersRest(c), call'[c].at # "answered"
  PROVE  AnswersMatch'
BY DEF AnswersMatch, OthersRest, Woken, At

(* A caller that does not load goes on; the cache stays as it is.          *)
LEMMA CacheRests ==
  ASSUME CallInv, NEW c \in Requests, NEW step, NEW n \in Models, Moved(c, step, n),
         step \in Held <=> call[c].at \in Held,
         step \in Held => n = call[c].model,
         step \notin {"loading", "answered"},
         UNCHANGED <<entry, runtime>>
  PROVE  CallInv'
<1>1. OthersRest(c) /\ call'[c].at = step /\ call'[c].model = n
  BY DEF Moved
<1>2. CacheTypes'
  BY DEF CallInv, CacheTypes, Moved
<1>3. CountsHeld'
  <2>1. \A m \in Models : HeldBy(m)' = HeldBy(m)
    BY <1>1, HeldStays
  <2> QED
    BY <2>1 DEF CallInv, CountsHeld
<1>4. LoadsMarked'
  BY <1>1 DEF CallInv, LoadsMarked, OthersRest, Woken, At
<1>5. (LoadsFresh /\ SlotsBounded)'
  BY DEF CallInv, LoadsFresh, SlotsBounded, Occupied
<1>6. HeldIsLoaded'
  BY <1>1 DEF CallInv, HeldIsLoaded, OthersRest, Woken, Held
<1>7. AnswersMatch'
  BY <1>1, AnswersStay DEF CallInv
<1> QED
  BY <1>2, <1>3, <1>4, <1>5, <1>6, <1>7 DEF CallInv

(* The caller asks for a loaded model and is counted.                      *)
LEMMA CacheUsed ==
  ASSUME CallInv, NEW c \in Requests, NEW m \in Models,
         call[c].at \in {"new", "woken"}, UseLoaded(c, m), UNCHANGED runtime
  PROVE  CallInv'
<1>1. CacheTypes
  BY DEF CallInv
<1>2. Moved(c, "acquired", m)
  BY <1>1, GoesMoves DEF UseLoaded, CacheTypes, CallSteps, Held
<1>3. OthersRest(c) /\ call'[c].at = "acquired" /\ call'[c].model = m
  BY <1>2 DEF Moved
<1> DEFINE e == [entry[m] EXCEPT !.inflight = @ + 1]
<1>4. entry' = [entry EXCEPT ![m] = e] /\ entry[m].state # "loading" /\ entry[m].loaded
  BY DEF UseLoaded
<1>5. /\ e \in EntryRecord /\ e.state = entry[m].state /\ e.loaded = entry[m].loaded
      /\ e.inflight = entry[m].inflight + 1
  BY <1>1 DEF CacheTypes, EntryRecord
<1> HIDE DEF e
<1>6. entry' \in [Models -> EntryRecord]
  BY <1>1, <1>4, <1>5 DEF CacheTypes
<1>7. \A n \in Models :
        /\ entry'[n].state = entry[n].state /\ (entry'[n].loaded <=> entry[n].loaded)
        /\ entry'[n].inflight = IF n = m THEN entry[n].inflight + 1 ELSE entry[n].inflight
  BY <1>1, <1>4, <1>5 DEF CacheTypes
<1>8. CacheTypes'
  BY <1>1, <1>2, <1>6 DEF CacheTypes, Moved
<1>9. CountsHeld'
  <2>1. \A n \in Models :
          Cardinality(HeldBy(n)') =
            IF n = m THEN Cardinality(HeldBy(n)) + 1 ELSE Cardinality(HeldBy(n))
    BY <1>3, HeldEnters DEF Held
  <2>2. \A n \in Models : entry[n].inflight = Cardinality(HeldBy(n))
    BY DEF CallInv, CountsHeld
  <2> QED
    BY <1>7, <2>1, <2>2 DEF CountsHeld
<1>10. LoadsMarked'
  <2>1. CacheTypes /\ LoadsMarked
    BY DEF CallInv
  <2>2. \A d \in Requests : At(d, "loading")' =>
          /\ At(d, "loading") /\ call'[d].model = call[d].model
          /\ call[d].model \in Models
    BY <1>3, <2>1 DEF CacheTypes, CallRecord, OthersRest, Woken, At
  <2> QED
    BY <1>7, <2>1, <2>2 DEF LoadsMarked
<1>11. LoadsFresh'
  BY <1>7 DEF CallInv, LoadsFresh
<1>12. SlotsBounded'
  <2>1. Occupied' = Occupied
    BY <1>7 DEF Occupied
  <2> QED
    BY <2>1 DEF CallInv, SlotsBounded
<1>13. HeldIsLoaded'
  <2>1. CacheTypes /\ HeldIsLoaded
    BY DEF CallInv
  <2>2. \A d \in Requests : call'[d].at \in Held =>
          /\ call'[d].model \in Models
          /\ \/ d = c
             \/ call[d].at \in Held /\ call'[d].model = call[d].model
    BY <1>3, <2>1 DEF CacheTypes, CallRecord, OthersRest, Woken, Held
  <2> QED
    BY <1>3, <1>4, <1>7, <2>1, <2>2 DEF HeldIsLoaded
<1>14. AnswersMatch'
  BY <1>3, AnswersStay DEF CallInv
<1> QED
  BY <1>8, <1>9, <1>10, <1>11, <1>12, <1>13, <1>14 DEF CallInv

(* A slot is free: the load takes it.  Or an idle model gives its slot up. *)
LEMMA CacheLoads ==
  ASSUME CallInv, NEW c \in Requests, NEW m \in Models,
         call[c].at \in {"new", "woken"}, StartLoad(c, m), UNCHANGED runtime
  PROVE  CallInv'
<1>1. CacheTypes /\ CountsHeld /\ LoadsMarked /\ LoadsFresh /\ SlotsBounded /\ HeldIsLoaded
  BY DEF CallInv
<1>2. Moved(c, "loading", m)
  BY <1>1, GoesMoves DEF StartLoad, CacheTypes, CallSteps
<1>3. OthersRest(c) /\ call'[c].at = "loading" /\ call'[c].model = m
  BY <1>2 DEF Moved
<1>4. entry[m].state # "loading" /\ ~entry[m].loaded
  BY DEF StartLoad
<1> DEFINE Fields(gone) ==
      \A n \in Models :
        /\ entry'[n].inflight = entry[n].inflight
        /\ entry'[n].loaded <=> (entry[n].loaded /\ n \notin gone)
        /\ entry'[n].state = IF n = m THEN "loading"
                             ELSE IF n \in gone THEN "registered" ELSE entry[n].state
<1>5. \E gone \in SUBSET Models :
        /\ entry' \in [Models -> EntryRecord] /\ Fields(gone)
        /\ m \notin gone
        /\ \A v \in gone : entry[v].loaded /\ entry[v].inflight = 0
        /\ \/ gone = {} /\ ~Full
           \/ \E v \in Occupied : gone = {v}
  <2>1. CASE ~Full /\ entry' = [entry EXCEPT ![m].state = "loading"]
    <3> DEFINE e == [entry[m] EXCEPT !.state = "loading"]
    <3>1. e \in EntryRecord /\ e.state = "loading" /\ e.loaded = entry[m].loaded
          /\ e.inflight = entry[m].inflight
      BY <1>1 DEF CacheTypes, EntryRecord, EntryStates
    <3>2. entry' = [entry EXCEPT ![m] = e]
      BY <2>1
    <3> HIDE DEF e
    <3>3. entry' \in [Models -> EntryRecord] /\ Fields({})
      BY <1>1, <1>4, <3>1, <3>2 DEF CacheTypes
    <3> QED
      BY <2>1, <3>3
  <2>2. ASSUME NEW v \in Victims(m),
               entry' = [entry EXCEPT
                 ![v] = [@ EXCEPT !.state = "registered", !.loaded = FALSE],
                 ![m].state = "loading"]
        PROVE  \E gone \in SUBSET Models :
                 /\ entry' \in [Models -> EntryRecord] /\ Fields(gone)
                 /\ m \notin gone
                 /\ \A u \in gone : entry[u].loaded /\ entry[u].inflight = 0
                 /\ \E u \in Occupied : gone = {u}
    <3> DEFINE e == [entry[m] EXCEPT !.state = "loading"]
               f == [entry[v] EXCEPT !.state = "registered", !.loaded = FALSE]
    <3>0. v \in Models /\ v # m /\ v \in Occupied /\ entry[v].loaded /\ entry[v].inflight = 0
      BY DEF Victims, Occupied
    <3>1. /\ e \in EntryRecord /\ e.state = "loading" /\ e.loaded = entry[m].loaded
          /\ e.inflight = entry[m].inflight
      BY <1>1 DEF CacheTypes, EntryRecord, EntryStates
    <3>2. /\ f \in EntryRecord /\ f.state = "registered" /\ f.loaded = FALSE
          /\ f.inflight = entry[v].inflight
      BY <1>1, <3>0 DEF CacheTypes, EntryRecord, EntryStates
    <3>3. entry' = [entry EXCEPT ![v] = f, ![m] = e]
      BY <1>1, <2>2, <3>0 DEF CacheTypes
    <3> HIDE DEF e, f
    <3>4. entry' \in [Models -> EntryRecord] /\ Fields({v})
      BY <1>1, <1>4, <3>0, <3>1, <3>2, <3>3 DEF CacheTypes
    <3> QED
      BY <3>0, <3>4
  <2> QED
    BY <2>1, <2>2 DEF StartLoad
<1>6. PICK gone \in SUBSET Models :
        /\ entry' \in [Models -> EntryRecord] /\ Fields(gone)
        /\ m \notin gone
        /\ \A v \in gone : entry[v].loaded /\ entry[v].inflight = 0
        /\ \/ gone = {} /\ ~Full
           \/ \E v \in Occupied : gone = {v}
  BY <1>5
<1>7. CacheTypes'
  BY <1>1, <1>2, <1>6 DEF CacheTypes, Moved
<1>8. CountsHeld'
  <2>1. \A n \in Models : HeldBy(n)' = HeldBy(n)
    BY <1>3, HeldStays DEF Held
  <2> QED
    BY <1>1, <1>6, <2>1 DEF CountsHeld
<1>9. LoadsMarked'
  <2>1. \A d \in Requests \ {c} : At(d, "loading")' =>
          /\ At(d, "loading") /\ call'[d].model = call[d].model
          /\ call[d].model \in Models
    BY <1>1, <1>3 DEF OthersRest, Woken, At, CacheTypes, CallRecord
  <2>2. ~runtime.closed => \A d \in Requests \ {c} : At(d, "loading")' =>
          /\ call'[d].model # m
          /\ entry'[call'[d].model].state = "loading"
          /\ ~entry'[call'[d].model].loaded
    BY <1>1, <1>4, <1>6, <2>1 DEF LoadsMarked
  <2>3. entry'[m].state = "loading" /\ ~entry'[m].loaded
    BY <1>4, <1>6
  <2>4. ~runtime.closed => \A d \in Requests : At(d, "loading")' =>
          /\ entry'[call'[d].model].state = "loading"
          /\ ~entry'[call'[d].model].loaded
    BY <1>3, <2>2, <2>3
  <2>5. ~runtime.closed => \A d, e \in Requests :
          At(d, "loading")' /\ At(e, "loading")' /\ call'[d].model = call'[e].model => d = e
    BY <1>1, <1>3, <2>1, <2>2 DEF LoadsMarked
  <2> QED
    BY <2>4, <2>5 DEF LoadsMarked
<1>10. LoadsFresh'
  BY <1>1, <1>4, <1>6 DEF LoadsFresh
<1>11. SlotsBounded'
  <2>1. Occupied' = (Occupied \ gone) \cup {m} /\ m \notin Occupied
    <3>1. ~runtime.closed => \A v \in gone : entry[v].state # "loading"
      BY <1>1, <1>6 DEF LoadsFresh
    <3> QED
      BY <1>4, <1>6 DEF Occupied
  <2>2. IsFiniteSet(Occupied)
    BY RequestsAssumption, FS_Subset DEF Occupied
  <2>3. CASE gone = {} /\ ~Full
    <3>1. Occupied' = Occupied \cup {m}
      BY <2>1, <2>3
    <3>2. Cardinality(Occupied') = Cardinality(Occupied) + 1 /\ Cardinality(Occupied) \in Nat
      BY <2>1, <2>2, <3>1, FS_AddElement, FS_CardinalityType
    <3> QED
      BY <2>3, <3>2, LimitsAssumption DEF SlotsBounded, Full
  <2>4. ASSUME NEW v \in Occupied, gone = {v}
        PROVE  SlotsBounded'
    <3>1. IsFiniteSet(Occupied \ {v}) /\ Cardinality(Occupied \ {v}) = Cardinality(Occupied) - 1
      BY <2>2, FS_RemoveElement
    <3>2. Cardinality((Occupied \ {v}) \cup {m}) = Cardinality(Occupied) - 1 + 1
      BY <2>1, <3>1, FS_AddElement
    <3>3. Cardinality(Occupied) \in Nat
      BY <2>2, FS_CardinalityType
    <3>4. Cardinality(Occupied') = Cardinality(Occupied)
      BY <2>1, <2>4, <3>2, <3>3
    <3> QED
      BY <1>1, <3>4 DEF SlotsBounded
  <2> QED
    BY <1>6, <2>3, <2>4
<1>12. HeldIsLoaded'
  <2>1. \A d \in Requests : call'[d].at \in Held =>
          /\ call[d].at \in Held /\ call'[d].model = call[d].model
          /\ call[d].model \in Models
    BY <1>1, <1>3 DEF OthersRest, Woken, Held, CacheTypes, CallRecord
  <2>2. \A d \in Requests : call[d].at \in Held => call[d].model \notin gone
    <3> SUFFICES ASSUME NEW d \in Requests, call[d].at \in Held, call[d].model \in gone
                 PROVE  FALSE
      OBVIOUS
    <3>1. Cardinality(HeldBy(call[d].model)) = 0
      BY <1>1, <1>6 DEF CountsHeld
    <3>2. d \in HeldBy(call[d].model)
      BY DEF HeldBy
    <3> QED
      BY <3>1, <3>2, HeldFinite, FS_EmptySet
  <2> QED
    BY <1>1, <1>6, <2>1, <2>2 DEF HeldIsLoaded
<1>13. AnswersMatch'
  BY <1>3, AnswersStay DEF CallInv
<1> QED
  BY <1>7, <1>8, <1>9, <1>10, <1>11, <1>12, <1>13 DEF CallInv

LEMMA CacheRegisters ==
  ASSUME CallInv, NEW m \in Models, Register(m)
  PROVE  CallInv'
<1>1. CacheTypes /\ CountsHeld /\ LoadsMarked /\ LoadsFresh /\ SlotsBounded /\ HeldIsLoaded
  BY DEF CallInv
<1> DEFINE e == [entry[m] EXCEPT !.state = "registered"]
<1>2. entry' = [entry EXCEPT ![m] = e] /\ entry[m].state = "absent"
      /\ call' = call /\ runtime' = runtime
  BY DEF Register
<1>3. /\ e \in EntryRecord /\ e.state = "registered" /\ e.loaded = entry[m].loaded
      /\ e.inflight = entry[m].inflight
  BY <1>1 DEF CacheTypes, EntryRecord, EntryStates
<1> HIDE DEF e
<1>4. CacheTypes'
  BY <1>1, <1>2, <1>3 DEF CacheTypes
<1>5. \A n \in Models :
        /\ entry'[n].inflight = entry[n].inflight
        /\ entry'[n].loaded <=> entry[n].loaded
        /\ entry'[n].state = IF n = m THEN "registered" ELSE entry[n].state
  BY <1>1, <1>2, <1>3 DEF CacheTypes
<1>6. CountsHeld'
  BY <1>1, <1>2, <1>5 DEF CountsHeld, HeldBy
<1>7. \A c \in Requests : call[c].model \in Models
  BY <1>1 DEF CacheTypes, CallRecord
<1>8. LoadsMarked'
  BY <1>1, <1>2, <1>5, <1>7 DEF LoadsMarked, At
<1>9. LoadsFresh' /\ HeldIsLoaded' /\ AnswersMatch'
  BY <1>1, <1>2, <1>5, <1>7 DEF CallInv, LoadsFresh, HeldIsLoaded, AnswersMatch, At
<1>10. SlotsBounded'
  <2>1. Occupied' = Occupied
    BY <1>2, <1>5 DEF Occupied
  <2> QED
    BY <1>1, <1>2, <2>1 DEF SlotsBounded
<1> QED
  BY <1>4, <1>6, <1>8, <1>9, <1>10 DEF CallInv

LEMMA CacheLoadFails ==
  ASSUME CallInv, NEW c \in Requests, LoadFails(c)
  PROVE  CallInv' /\ Moved(c, "returned", call[c].model)
<1>1. CacheTypes /\ CountsHeld /\ LoadsMarked /\ LoadsFresh /\ SlotsBounded /\ HeldIsLoaded
  BY DEF CallInv
<1> DEFINE m == call[c].model
           e == [entry[m] EXCEPT !.state = "failed"]
           r == [call[c] EXCEPT !.at = "returned"]
<1>2. /\ entry' = [entry EXCEPT ![m] = e] /\ call[c].at = "loading"
      /\ call' = Notify([call EXCEPT ![c] = r]) /\ runtime' = runtime
  BY <1>1 DEF LoadFails, At, Goes, CacheTypes
<1>3. r \in CallRecord /\ r.at = "returned" /\ r.model = m
  BY <1>1 DEF CacheTypes, CallRecord, CallSteps
<1> HIDE DEF r
<1>4. Moved(c, "returned", m)
  BY <1>1, <1>2, <1>3, NotifyMoves DEF CacheTypes
<1>5. OthersRest(c) /\ call'[c].at = "returned"
  BY <1>4 DEF Moved
<1>6. m \in Models
  BY <1>1 DEF CacheTypes, CallRecord
<1>7. /\ e \in EntryRecord /\ e.state = "failed" /\ e.loaded = entry[m].loaded
      /\ e.inflight = entry[m].inflight
  BY <1>1, <1>6 DEF CacheTypes, EntryRecord, EntryStates
<1> HIDE DEF e
<1>8. CacheTypes'
  BY <1>1, <1>2, <1>4, <1>6, <1>7 DEF CacheTypes, Moved
<1>9. \A n \in Models :
        /\ entry'[n].inflight = entry[n].inflight
        /\ entry'[n].loaded <=> entry[n].loaded
        /\ entry'[n].state = IF n = m THEN "failed" ELSE entry[n].state
  BY <1>1, <1>2, <1>6, <1>7 DEF CacheTypes
<1>10. CountsHeld'
  <2>1. \A n \in Models : HeldBy(n)' = HeldBy(n)
    BY <1>2, <1>5, HeldStays DEF Held
  <2> QED
    BY <1>1, <1>9, <2>1 DEF CountsHeld
<1>11. LoadsMarked'
  <2>1. \A d \in Requests : At(d, "loading")' =>
          /\ At(d, "loading") /\ d # c /\ call'[d].model = call[d].model
          /\ call[d].model \in Models
    BY <1>1, <1>5 DEF CacheTypes, CallRecord, OthersRest, Woken, At
  <2>2. ~runtime.closed => \A d \in Requests : At(d, "loading")' => call[d].model # m
    BY <1>1, <1>2, <2>1 DEF LoadsMarked, At
  <2> QED
    BY <1>1, <1>2, <1>9, <2>1, <2>2 DEF LoadsMarked
<1>12. LoadsFresh'
  BY <1>1, <1>2, <1>9 DEF LoadsFresh
<1>13. SlotsBounded'
  <2>1. Occupied' \in SUBSET Occupied
    BY <1>9 DEF Occupied
  <2>2. IsFiniteSet(Occupied)
    BY RequestsAssumption, FS_Subset DEF Occupied
  <2>3. /\ Cardinality(Occupied') <= Cardinality(Occupied)
        /\ Cardinality(Occupied') \in Nat /\ Cardinality(Occupied) \in Nat
    BY <2>1, <2>2, FS_Subset, FS_CardinalityType
  <2> QED
    BY <1>1, <1>2, <2>3, LimitsAssumption DEF SlotsBounded
<1>14. HeldIsLoaded'
  <2>1. \A d \in Requests : call'[d].at \in Held =>
          /\ call[d].at \in Held /\ call'[d].model = call[d].model
          /\ call[d].model \in Models
    BY <1>1, <1>5 DEF CacheTypes, CallRecord, OthersRest, Woken, Held
  <2> QED
    BY <1>1, <1>2, <1>9, <2>1 DEF HeldIsLoaded
<1>15. AnswersMatch'
  BY <1>5, AnswersStay DEF CallInv
<1> QED
  BY <1>4, <1>8, <1>10, <1>11, <1>12, <1>13, <1>14, <1>15 DEF CallInv

(* The load is done while the runtime is open.                             *)
LEMMA CacheLoaded ==
  ASSUME CallInv, NEW c \in Requests, LoadCompletes(c), ~runtime.closed
  PROVE  /\ CallInv'
         /\ Moved(c, "acquired", call[c].model)
         /\ \A n \in Models : entry'[n].loaded =>
              entry[n].loaded \/ n = call[c].model
<1>1. CacheTypes /\ CountsHeld /\ LoadsMarked /\ LoadsFresh /\ SlotsBounded /\ HeldIsLoaded
  BY DEF CallInv
<1> DEFINE m == call[c].model
           e == [state |-> "ready", loaded |-> TRUE, inflight |-> entry[m].inflight + 1]
           r == [call[c] EXCEPT !.at = "acquired"]
<1>2. /\ entry' = [entry EXCEPT ![m] = e] /\ call[c].at = "loading"
      /\ call' = Notify([call EXCEPT ![c] = r]) /\ runtime' = runtime
  BY <1>1 DEF LoadCompletes, At, Goes, CacheTypes
<1>3. r \in CallRecord /\ r.at = "acquired" /\ r.model = m
  BY <1>1 DEF CacheTypes, CallRecord, CallSteps, Held
<1> HIDE DEF r
<1>4. Moved(c, "acquired", m)
  BY <1>1, <1>2, <1>3, NotifyMoves DEF CacheTypes
<1>5. OthersRest(c) /\ call'[c].at = "acquired" /\ call'[c].model = m
  BY <1>4 DEF Moved
<1>6. m \in Models
  BY <1>1 DEF CacheTypes, CallRecord
<1>7. /\ e \in EntryRecord /\ e.state = "ready" /\ e.loaded
      /\ e.inflight = entry[m].inflight + 1
  BY <1>1, <1>6 DEF CacheTypes, EntryRecord, EntryStates
<1> HIDE DEF e
<1>8. CacheTypes'
  BY <1>1, <1>2, <1>4, <1>6, <1>7 DEF CacheTypes, Moved
<1>9. \A n \in Models :
        /\ entry'[n].inflight = IF n = m THEN entry[n].inflight + 1 ELSE entry[n].inflight
        /\ entry'[n].loaded <=> (n = m \/ entry[n].loaded)
        /\ entry'[n].state = IF n = m THEN "ready" ELSE entry[n].state
  BY <1>1, <1>2, <1>6, <1>7 DEF CacheTypes
<1>10. CountsHeld'
  <2>1. \A n \in Models :
          Cardinality(HeldBy(n)') =
            IF n = m THEN Cardinality(HeldBy(n)) + 1 ELSE Cardinality(HeldBy(n))
    BY <1>2, <1>5, HeldEnters DEF Held
  <2> QED
    BY <1>1, <1>9, <2>1 DEF CountsHeld
<1>11. LoadsMarked'
  <2>1. \A d \in Requests : At(d, "loading")' =>
          /\ At(d, "loading") /\ d # c /\ call'[d].model = call[d].model
          /\ call[d].model \in Models
    BY <1>1, <1>5 DEF CacheTypes, CallRecord, OthersRest, Woken, At
  <2>2. \A d \in Requests : At(d, "loading")' => call[d].model # m
    BY <1>1, <1>2, <2>1 DEF LoadsMarked, At
  <2> QED
    BY <1>1, <1>2, <1>9, <2>1, <2>2 DEF LoadsMarked
<1>12. LoadsFresh'
  BY <1>1, <1>2, <1>9 DEF LoadsFresh
<1>13. SlotsBounded'
  <2>1. entry[m].state = "loading"
    BY <1>1, <1>2 DEF LoadsMarked, At
  <2>2. Occupied' = Occupied
    BY <1>6, <1>9, <2>1 DEF Occupied
  <2> QED
    BY <1>1, <1>2, <2>2 DEF SlotsBounded
<1>14. HeldIsLoaded'
  <2>1. \A d \in Requests : call'[d].at \in Held =>
          /\ call'[d].model \in Models
          /\ \/ d = c
             \/ call[d].at \in Held /\ call'[d].model = call[d].model
    BY <1>1, <1>5, <1>6 DEF CacheTypes, CallRecord, OthersRest, Woken, Held
  <2> QED
    BY <1>1, <1>2, <1>5, <1>9, <2>1 DEF HeldIsLoaded
<1>15. AnswersMatch'
  BY <1>5, AnswersStay DEF CallInv
<1> QED
  BY <1>4, <1>8, <1>9, <1>10, <1>11, <1>12, <1>13, <1>14, <1>15 DEF CallInv

(* A caller gives back what it holds.                                      *)
LEMMA CacheReleased ==
  ASSUME CallInv, NEW c \in Requests, Release(c)
  PROVE  /\ CallInv'
         /\ Moved(c, "returned", call[c].model)
         /\ \A n \in Models : entry'[n].loaded <=> entry[n].loaded
<1>1. CacheTypes /\ CountsHeld /\ LoadsMarked /\ LoadsFresh /\ SlotsBounded /\ HeldIsLoaded
  BY DEF CallInv
<1> DEFINE m == call[c].model
           e == [entry[m] EXCEPT !.inflight = IF @ = 0 THEN 0 ELSE @ - 1]
           r == [call[c] EXCEPT !.at = "returned", !.answer = <<>>]
<1>2. /\ entry' = [entry EXCEPT ![m] = e] /\ call[c].at \in {"answered", "raised", "acquired"}
      /\ call' = Notify([call EXCEPT ![c] = r]) /\ runtime' = runtime
  BY <1>1 DEF Release, At, CacheTypes
<1>3. r \in CallRecord /\ r.at = "returned" /\ r.model = m
  <2>1. <<>> \in Seq(Item)
    BY EmptySeq
  <2> QED
    BY <1>1, <2>1 DEF CacheTypes, CallRecord, CallSteps
<1> HIDE DEF r
<1>4. Moved(c, "returned", m)
  BY <1>1, <1>2, <1>3, NotifyMoves DEF CacheTypes
<1>5. OthersRest(c) /\ call'[c].at = "returned"
  BY <1>4 DEF Moved
<1>6. m \in Models
  BY <1>1 DEF CacheTypes, CallRecord
<1>7. /\ e \in EntryRecord /\ e.state = entry[m].state /\ e.loaded = entry[m].loaded
      /\ e.inflight = IF entry[m].inflight = 0 THEN 0 ELSE entry[m].inflight - 1
  BY <1>1, <1>6 DEF CacheTypes, EntryRecord, EntryStates
<1> HIDE DEF e
<1>8. CacheTypes'
  BY <1>1, <1>2, <1>4, <1>6, <1>7 DEF CacheTypes, Moved
<1>9. \A n \in Models :
        /\ entry'[n].inflight =
             IF n # m THEN entry[n].inflight
             ELSE IF entry[n].inflight = 0 THEN 0 ELSE entry[n].inflight - 1
        /\ entry'[n].loaded <=> entry[n].loaded
        /\ entry'[n].state = entry[n].state
  BY <1>1, <1>2, <1>6, <1>7 DEF CacheTypes
<1>10. CountsHeld'
  <2>1. \A n \in Models :
          /\ Cardinality(HeldBy(n)') =
               IF n = m THEN Cardinality(HeldBy(n)) - 1 ELSE Cardinality(HeldBy(n))
          /\ n = m => Cardinality(HeldBy(n)) # 0
    BY <1>2, <1>5, HeldLeaves DEF Held
  <2> QED
    BY <1>1, <1>9, <2>1 DEF CountsHeld
<1>11. \A d \in Requests :
         /\ At(d, "loading")' => At(d, "loading") /\ call'[d].model = call[d].model
         /\ call'[d].at \in Held => call[d].at \in Held /\ call'[d].model = call[d].model
         /\ call[d].model \in Models
  BY <1>1, <1>5 DEF CacheTypes, CallRecord, OthersRest, Woken, At, Held
<1>12. LoadsMarked' /\ HeldIsLoaded'
  <2>1. ~runtime'.closed => \A d \in Requests : At(d, "loading")' =>
          /\ entry'[call'[d].model].state = "loading"
          /\ ~entry'[call'[d].model].loaded
    BY <1>1, <1>2, <1>9, <1>11 DEF LoadsMarked
  <2>2. ~runtime'.closed => \A d, f \in Requests :
          At(d, "loading")' /\ At(f, "loading")' /\ call'[d].model = call'[f].model => d = f
    BY <1>1, <1>2, <1>11 DEF LoadsMarked
  <2>3. HeldIsLoaded'
    BY <1>1, <1>2, <1>9, <1>11 DEF HeldIsLoaded
  <2> QED
    BY <2>1, <2>2, <2>3 DEF LoadsMarked
<1>13. LoadsFresh'
  BY <1>1, <1>2, <1>9 DEF LoadsFresh
<1>14. SlotsBounded'
  <2>1. Occupied' = Occupied
    BY <1>9 DEF Occupied
  <2> QED
    BY <1>1, <1>2, <2>1 DEF SlotsBounded
<1>15. AnswersMatch'
  BY <1>5, AnswersStay DEF CallInv
<1> QED
  BY <1>4, <1>8, <1>9, <1>10, <1>12, <1>13, <1>14, <1>15 DEF CallInv

(* The runtime closes: every waiter is woken, every model is let go.       *)
LEMMA CacheCloses ==
  ASSUME CallInv, Close
  PROVE  /\ CallInv' /\ runtime'.closed
         /\ \A d \in Requests :
              /\ call'[d].model = call[d].model
              /\ call'[d].at = call[d].at \/ Woken(d)
<1>1. CacheTypes /\ CountsHeld /\ AnswersMatch
  BY DEF CallInv
<1> DEFINE w(d) == [call[d] EXCEPT !.at = "woken"]
           e(m) == [entry[m] EXCEPT !.state = "closed", !.loaded = FALSE]
<1>2. \A d \in Requests : /\ w(d) \in CallRecord /\ w(d).at = "woken"
                          /\ w(d).model = call[d].model /\ w(d).answer = call[d].answer
  BY <1>1 DEF CacheTypes, CallRecord, CallSteps
<1>3. \A m \in Models : e(m) \in EntryRecord /\ e(m).inflight = entry[m].inflight
  BY <1>1 DEF CacheTypes, EntryRecord, EntryStates
<1>4. /\ call' = [d \in Requests |-> IF call[d].at = "waiting" THEN w(d) ELSE call[d]]
      /\ entry' = [m \in Models |-> IF entry[m].state = "absent" THEN entry[m] ELSE e(m)]
      /\ runtime' = [closed |-> TRUE, closing |-> {m \in Models : entry[m].loaded}]
  BY DEF Close, Notify
<1> HIDE DEF w, e
<1>5. CacheTypes' /\ runtime'.closed
  BY <1>1, <1>2, <1>3, <1>4 DEF CacheTypes
<1>6. \A d \in Requests : /\ call'[d].model = call[d].model
                          /\ call'[d].answer = call[d].answer
                          /\ call'[d].at = call[d].at \/ Woken(d)
  BY <1>2, <1>4 DEF Woken
<1>7. CountsHeld'
  <2>1. \A m : HeldBy(m)' = HeldBy(m)
    BY <1>6 DEF HeldBy, Woken, Held
  <2>2. \A m \in Models : entry'[m].inflight = entry[m].inflight
    BY <1>3, <1>4
  <2> QED
    BY <1>1, <2>1, <2>2 DEF CountsHeld
<1>8. AnswersMatch'
  BY <1>1, <1>6 DEF AnswersMatch, At, Woken
<1>9. (LoadsMarked /\ LoadsFresh /\ SlotsBounded /\ HeldIsLoaded)'
  BY <1>5 DEF LoadsMarked, LoadsFresh, SlotsBounded, HeldIsLoaded
<1> QED
  BY <1>5, <1>6, <1>7, <1>8, <1>9 DEF CallInv

(* Neither the cache nor a caller is touched.                              *)
LEMMA CacheUntouched ==
  ASSUME CallInv, UNCHANGED <<entry, call>>,
         runtime' \in [closed : BOOLEAN, closing : SUBSET Models],
         runtime'.closed <=> runtime.closed
  PROVE  CallInv'
<1>1. CacheTypes' /\ CountsHeld' /\ AnswersMatch'
  BY DEF CallInv, CacheTypes, CountsHeld, HeldBy, AnswersMatch, At
<1>2. LoadsMarked' /\ LoadsFresh' /\ HeldIsLoaded'
  BY DEF CallInv, LoadsMarked, LoadsFresh, HeldIsLoaded, At
<1>3. SlotsBounded'
  <2>1. Occupied' = Occupied
    BY DEF Occupied
  <2> QED
    BY <2>1 DEF CallInv, SlotsBounded
<1> QED
  BY <1>1, <1>2, <1>3 DEF CallInv

-----------------------------------------------------------------------------
(* A batch is answered: its requests were the first of the backlog.        *)

LEMMA BatchIsFirst ==
  ASSUME NEW l, LaneGood(l)
  PROVE  \E rest \in Seq(Requests) :
           /\ Backlog(l) = l.batch \o rest
           /\ \A k : k.batch = <<>> /\ k.carry = l.carry /\ k.queue = l.queue
                       => Backlog(k) = rest
<1> DEFINE carried == IF l.carry = Nobody THEN <<>> ELSE <<l.carry>>
           a == Accepted(l.queue)
           rest == carried \o a
<1>1. l.batch \in Seq(Requests) /\ a \in Seq(Requests)
  BY LaneFields, AcceptedType
<1>2. carried \in Seq(Requests)
  <2>1. <<>> \in Seq(Requests)
    BY EmptySeq
  <2>2. l.carry # Nobody => <<l.carry>> \in Seq(Requests)
    BY LaneFields
  <2> QED
    BY <2>1, <2>2
<1>3. Backlog(l) = (l.batch \o carried) \o a
  BY DEF Backlog
<1>4. rest \in Seq(Requests)
  BY <1>1, <1>2, ConcatProperties
<1>5. Backlog(l) = l.batch \o rest
  <2> HIDE DEF carried, a
  <2> QED
    BY <1>1, <1>2, <1>3, JoinThree
<1>6. ASSUME NEW k, k.batch = <<>>, k.carry = l.carry, k.queue = l.queue
      PROVE  Backlog(k) = rest
  <2>1. Backlog(k) = (<<>> \o carried) \o a
    BY <1>6 DEF Backlog
  <2> HIDE DEF carried, a
  <2>2. <<>> \o carried = carried
    BY <1>2, ConcatEmptySeq
  <2> QED
    BY <2>1, <2>2
<1> HIDE DEF rest
<1> QED
  BY <1>4, <1>5, <1>6

(* What the lane holds once it has answered its batch.                     *)
Answered(l) == [l EXCEPT !.batch = <<>>, !.count = 0, !.thread = "executed"]

LEMMA ExecutedLane ==
  ASSUME NEW l, LaneGood(l)
  PROVE  /\ LaneGood(Answered(l))
         /\ Serves(l) => Serves(Answered(l))
         /\ Backlog(Answered(l)) \in Seq(Requests)
         /\ Backlog(l) = l.batch \o Backlog(Answered(l))
<1> DEFINE k == Answered(l)
<1>1. l \in LaneRecord /\ <<>> \in Seq(Requests)
  BY EmptySeq DEF LaneGood
<1>2. /\ k \in LaneRecord /\ k.queue = l.queue /\ k.closed = l.closed
      /\ k.carry = l.carry /\ k.batch = <<>> /\ k.thread = "executed"
  BY <1>1 DEF Answered, LaneRecord, ThreadStates
<1> HIDE DEF k
<1>3. LaneGood(k)
  BY <1>2 DEF LaneGood
<1>4. Serves(l) => Serves(k)
  BY <1>2 DEF Serves
<1>5. Backlog(k) \in Seq(Requests) /\ Backlog(l) = l.batch \o Backlog(k)
  BY <1>2, BatchIsFirst
<1> QED
  BY <1>3, <1>4, <1>5 DEF k

(* Every request of a batch waits for the model of the lane.               *)
LEMMA BatchWaits ==
  ASSUME NEW m \in Models, LaneGood(lane[m]), Orderly(m)
  PROVE  /\ ToSet(lane[m].batch) \subseteq Requests
         /\ \A c \in ToSet(lane[m].batch) :
              /\ call[c].at = "queued" /\ call[c].model = m
              /\ \E k \in DOMAIN lane[m].batch : lane[m].batch[k] = c
<1> DEFINE batch == lane[m].batch
           rest == Backlog(Answered(lane[m]))
<1>1. batch \in Seq(Requests) /\ rest \in Seq(Requests) /\ Backlog(lane[m]) = batch \o rest
  BY LaneFields, ExecutedLane
<1> HIDE DEF batch, rest
<1>2. /\ Len(batch) \in Nat /\ Len(rest) \in Nat /\ DOMAIN batch = 1 .. Len(batch)
      /\ Len(batch \o rest) = Len(batch) + Len(rest)
      /\ \A i \in 1 .. Len(batch) : (batch \o rest)[i] = batch[i] /\ batch[i] \in Requests
  BY <1>1, ConcatProperties, LenProperties, ElementOfSeq
<1>3. \A i \in 1 .. Len(batch) : call[batch[i]].at = "queued" /\ call[batch[i]].model = m
  BY <1>1, <1>2 DEF Orderly
<1>4. ToSet(batch) = {batch[i] : i \in 1 .. Len(batch)}
  BY <1>2 DEF ToSet
<1> QED
  BY <1>2, <1>3, <1>4 DEF batch

LEMMA CacheExecutes ==
  ASSUME CallInv, NEW m \in Models, LaneGood(lane[m]), Orderly(m), Execute(m)
  PROVE  /\ CallInv'
         /\ \A c \in Requests : call'[c].model = call[c].model
         /\ \A c \in Requests \ ToSet(lane[m].batch) : call'[c] = call[c]
         /\ \A c \in ToSet(lane[m].batch) : call'[c].at \in {"answered", "raised"}
<1>1. CacheTypes /\ CountsHeld /\ LoadsMarked /\ LoadsFresh /\ SlotsBounded
      /\ HeldIsLoaded /\ AnswersMatch
  BY DEF CallInv
<1> DEFINE batch == lane[m].batch
           place(c) == CHOOSE k \in DOMAIN batch : batch[k] = c
           a(c) == [call[c] EXCEPT !.at = "answered", !.answer = Slice(batch, place(c))]
           b(c) == [call[c] EXCEPT !.at = "raised"]
<1>2. /\ entry' = entry /\ runtime' = runtime
      /\ \/ call' = [c \in Requests |-> IF c \in ToSet(batch) THEN a(c) ELSE call[c]]
         \/ call' = [c \in Requests |-> IF c \in ToSet(batch) THEN b(c) ELSE call[c]]
  BY DEF Execute, LaneMoves
<1>3. \A c \in ToSet(batch) :
        c \in Requests /\ call[c].at = "queued" /\ Slice(batch, place(c)) = ItemsOf(c)
  <2>1. \A c \in ToSet(batch) :
          /\ c \in Requests /\ call[c].at = "queued"
          /\ place(c) \in DOMAIN batch /\ batch[place(c)] = c
    BY BatchWaits
  <2>2. batch \in Seq(Requests)
    BY LaneFields
  <2>3. \A k \in DOMAIN batch : Slice(batch, k) = ItemsOf(batch[k])
    BY <2>2, SliceIsOwn
  <2> HIDE DEF place, batch
  <2> QED
    BY <2>1, <2>3
<1>4. \A c \in ToSet(batch) :
        /\ a(c) \in CallRecord /\ a(c).at = "answered" /\ a(c).model = call[c].model
        /\ a(c).answer = ItemsOf(c)
        /\ b(c) \in CallRecord /\ b(c).at = "raised" /\ b(c).model = call[c].model
  <2>1. \A c \in ToSet(batch) : ItemsOf(c) \in Seq(Item) /\ call[c] \in CallRecord
    BY <1>1, <1>3, ItemsOfType DEF CacheTypes
  <2>2. {"answered", "raised"} \subseteq CallSteps
    BY DEF CallSteps, Held
  <2> HIDE DEF place, batch
  <2> QED
    BY <1>3, <2>1, <2>2 DEF CallRecord
<1> HIDE DEF a, b, batch
<1>5. call' \in [Requests -> CallRecord]
  BY <1>1, <1>2, <1>4 DEF CacheTypes
<1>6. \A c \in Requests :
        /\ call'[c].model = call[c].model
        /\ c \notin ToSet(batch) => call'[c] = call[c]
        /\ c \in ToSet(batch) =>
             \/ call'[c].at = "answered" /\ call'[c].answer = ItemsOf(c)
             \/ call'[c].at = "raised"
  BY <1>2, <1>4
<1>7. \A c \in Requests :
        /\ call'[c].at \in Held <=> call[c].at \in Held
        /\ call'[c].at = "loading" <=> call[c].at = "loading"
  BY <1>3, <1>6 DEF Held
<1>8. CacheTypes'
  BY <1>1, <1>2, <1>5 DEF CacheTypes
<1>9. CountsHeld'
  <2>1. \A n : HeldBy(n)' = HeldBy(n)
    BY <1>6, <1>7 DEF HeldBy
  <2> QED
    BY <1>1, <1>2, <2>1 DEF CountsHeld
<1>10. LoadsMarked' /\ HeldIsLoaded'
  BY <1>1, <1>2, <1>6, <1>7 DEF LoadsMarked, HeldIsLoaded, At
<1>11. LoadsFresh' /\ SlotsBounded'
  BY <1>1, <1>2 DEF LoadsFresh, SlotsBounded, Occupied
<1>12. AnswersMatch'
  BY <1>1, <1>6 DEF AnswersMatch, At
<1>13. \A c \in ToSet(batch) : call'[c].at \in {"answered", "raised"}
  BY <1>3, <1>6
<1> QED
  BY <1>6, <1>8, <1>9, <1>10, <1>11, <1>12, <1>13 DEF CallInv, batch

-----------------------------------------------------------------------------
(* The lanes after a step.  b is the backlog before, c the one after it.   *)

InOrder(b, c) == IsPrefix(b, c) \/ IsSuffix(c, b)

AllInOrder == \A n \in Models : InOrder(Backlog(lane[n]), Backlog(lane'[n]))

(* Who waits for an answer before the step does so after it, and no other. *)
WaitOn ==
  \A d \in Requests :
    /\ call'[d].at = "queued" <=> call[d].at = "queued"
    /\ call[d].at = "queued" => call'[d].model = call[d].model

(* No model is loaded by the step, and a closed runtime stays closed.      *)
NothingLoaded ==
  /\ runtime.closed => runtime'.closed
  /\ \A n \in Models : entry'[n].loaded => entry[n].loaded

LEMMA SameInOrder ==
  ASSUME NEW S, NEW b \in Seq(S)
  PROVE  InOrder(b, b)
BY DEF InOrder, IsPrefix

LEMMA AppendInOrder ==
  ASSUME NEW S, NEW b \in Seq(S), NEW x \in S
  PROVE  InOrder(b, Append(b, x))
<1>1. /\ Len(b) \in Nat /\ Append(b, x) \in Seq(S) /\ Len(Append(b, x)) = Len(b) + 1
      /\ \A i \in 1 .. Len(b) : Append(b, x)[i] = b[i]
  BY AppendProperties
<1>2. SubSeq(b, 1, Len(b)) = SubSeq(Append(b, x), 1, Len(b))
  BY <1>1, SubSeqProperties
<1> QED
  BY <1>1, <1>2 DEF InOrder, IsPrefix

LEMMA RestInOrder ==
  ASSUME NEW S, NEW s \in Seq(S), NEW t \in Seq(S)
  PROVE  InOrder(s \o t, t)
<1> DEFINE n == Len(t)
           whole == s \o t
<1>1. /\ n \in Nat /\ Len(s) \in Nat /\ whole \in Seq(S) /\ Len(whole) = Len(s) + n
      /\ \A i \in 1 .. n : whole[Len(s) + i] = t[i]
  BY ConcatProperties, LenProperties
<1> DEFINE T == Reverse(t)
           W == Reverse(whole)
<1> HIDE DEF whole
<1>2. /\ T \in Seq(S) /\ Len(T) = n /\ \A i \in 1 .. n : T[i] = t[n - i + 1]
  BY <1>1, ElementOfSeq DEF Reverse
<1>3. /\ W \in Seq(S) /\ Len(W) = Len(s) + n
      /\ \A i \in 1 .. Len(s) + n : W[i] = whole[Len(s) + n - i + 1]
  BY <1>1, ElementOfSeq DEF Reverse
<1>4. \A i \in 1 .. n : W[i] = T[i]
  <2> SUFFICES ASSUME NEW i \in 1 .. n
               PROVE  W[i] = T[i]
    OBVIOUS
  <2> DEFINE j == n - i + 1
  <2>1. j \in 1 .. n /\ Len(s) + n - i + 1 = Len(s) + j /\ i \in 1 .. Len(s) + n
    BY <1>1
  <2> HIDE DEF j, T, W
  <2>2. W[i] = whole[Len(s) + j]
    BY <1>3, <2>1
  <2>3. whole[Len(s) + j] = t[j]
    BY <1>1, <2>1
  <2>4. T[i] = t[j]
    BY <1>2 DEF j
  <2> QED
    BY <2>2, <2>3, <2>4
<1> HIDE DEF T, W, n
<1>5. SubSeq(T, 1, n) = SubSeq(W, 1, n) /\ Len(T) <= Len(W)
  BY <1>1, <1>2, <1>3, <1>4, SubSeqProperties
<1>6. IsPrefix(T, W)
  BY <1>2, <1>5 DEF IsPrefix
<1> QED
  BY <1>6 DEF InOrder, IsSuffix, T, W, whole

LEMMA AppendedSet ==
  ASSUME NEW S, NEW b \in Seq(S), NEW x \in S
  PROVE  ToSet(Append(b, x)) = ToSet(b) \cup {x}
<1>1. /\ Len(b) \in Nat /\ DOMAIN b = 1 .. Len(b)
      /\ DOMAIN Append(b, x) = 1 .. Len(b) + 1
      /\ \A i \in 1 .. Len(b) : Append(b, x)[i] = b[i]
      /\ Append(b, x)[Len(b) + 1] = x
  BY AppendProperties, LenProperties
<1> HIDE DEF ToSet
<1>2. \A y : y \in ToSet(Append(b, x)) <=> y \in ToSet(b) \/ y = x
  BY <1>1 DEF ToSet
<1> QED
  BY <1>2

LEMMA JoinedSet ==
  ASSUME NEW S, NEW s \in Seq(S), NEW t \in Seq(S)
  PROVE  ToSet(s \o t) \subseteq ToSet(s) \cup ToSet(t)
<1>1. /\ Len(s) \in Nat /\ Len(t) \in Nat
      /\ DOMAIN s = 1 .. Len(s) /\ DOMAIN t = 1 .. Len(t)
      /\ DOMAIN (s \o t) = 1 .. Len(s) + Len(t)
      /\ \A i \in 1 .. Len(s) : (s \o t)[i] = s[i]
      /\ \A i \in 1 .. Len(t) : (s \o t)[Len(s) + i] = t[i]
  BY ConcatProperties, LenProperties
<1>2. \A i \in 1 .. Len(s) + Len(t) : i \in 1 .. Len(s) \/ \E j \in 1 .. Len(t) : i = Len(s) + j
  <2> SUFFICES ASSUME NEW i \in 1 .. Len(s) + Len(t), i \notin 1 .. Len(s)
               PROVE  \E j \in 1 .. Len(t) : i = Len(s) + j
    OBVIOUS
  <2>1. i - Len(s) \in 1 .. Len(t) /\ i = Len(s) + (i - Len(s))
    BY <1>1
  <2> QED
    BY <2>1
<1> QED
  BY <1>1, <1>2 DEF ToSet

(* No lane is touched.                                                     *)
LEMMA LanesRest ==
  ASSUME LaneInv, lane' = lane, WaitOn, NothingLoaded,
         runtime'.closed \/ runtime' = runtime
  PROVE  LaneInv' /\ AllInOrder
<1>1. \A m \in Models : Backlog(lane[m]) \in Seq(Requests)
  BY BacklogType DEF LaneInv
<1>2. \A m \in Models : Orderly(m)'
  <2> SUFFICES ASSUME NEW m \in Models
               PROVE  Orderly(m)'
    OBVIOUS
  <2> DEFINE b == Backlog(lane[m])
  <2>1. b \in Seq(Requests) /\ Backlog(lane'[m]) = b
    BY <1>1
  <2>2. /\ \A i, j \in 1 .. Len(b) : b[i] = b[j] => i = j
        /\ \A i \in 1 .. Len(b) : call[b[i]].at = "queued" /\ call[b[i]].model = m
    BY DEF LaneInv, Orderly
  <2> HIDE DEF b
  <2>3. \A i \in 1 .. Len(b) : b[i] \in Requests
    BY <2>1, ElementOfSeq
  <2>4. \A i \in 1 .. Len(b) : call'[b[i]].at = "queued" /\ call'[b[i]].model = m
    BY <2>2, <2>3 DEF WaitOn
  <2> QED
    BY <2>1, <2>2, <2>4 DEF Orderly
<1>3. LoadedServes' /\ QueuedWaits'
  BY DEF LaneInv, LoadedServes, QueuedWaits, NothingLoaded, Serves, WaitOn, At
<1>4. LaneInv'
  BY <1>2, <1>3 DEF LaneInv
<1>5. AllInOrder
  BY <1>1, SameInOrder DEF AllInOrder
<1> QED
  BY <1>4, <1>5

(* The lane of m is changed to k, and answers nobody.                      *)
LEMMA LaneChanges ==
  ASSUME LaneInv, CacheTypes, NEW m \in Models, NEW k, LaneGood(k),
         lane' = [lane EXCEPT ![m] = k],
         Backlog(k) = Backlog(lane[m]), WaitOn,
         ~runtime'.closed =>
           /\ runtime' = runtime
           /\ \A n \in Models \ {m} : entry'[n].loaded => entry[n].loaded
           /\ entry'[m].loaded => Serves(k)
  PROVE  LaneInv' /\ AllInOrder
<1>1. \A n \in Models : Backlog(lane[n]) \in Seq(Requests)
  BY BacklogType DEF LaneInv
<1>2. /\ lane' \in [Models -> LaneRecord]
      /\ \A n \in Models : lane'[n] = IF n = m THEN k ELSE lane[n]
  BY DEF LaneInv, LaneGood
<1>3. \A n \in Models : LaneGood(lane'[n])
  BY <1>2 DEF LaneInv
<1>4. \A n \in Models : Orderly(n)'
  <2> SUFFICES ASSUME NEW n \in Models
               PROVE  Orderly(n)'
    OBVIOUS
  <2> DEFINE b == Backlog(lane[n])
             c == Backlog(lane'[n])
  <2>1. b \in Seq(Requests) /\ c = b
    BY <1>1, <1>2
  <2>2. /\ \A i, j \in 1 .. Len(b) : b[i] = b[j] => i = j
        /\ \A i \in 1 .. Len(b) : call[b[i]].at = "queued" /\ call[b[i]].model = n
    BY DEF LaneInv, Orderly
  <2> HIDE DEF b, c
  <2>3. \A i \in 1 .. Len(b) : b[i] \in Requests
    BY <2>1, ElementOfSeq
  <2>4. \A i \in 1 .. Len(b) : call'[b[i]].at = "queued" /\ call'[b[i]].model = n
    BY <2>2, <2>3 DEF WaitOn
  <2>5. /\ \A i, j \in 1 .. Len(c) : c[i] = c[j] => i = j
        /\ \A i \in 1 .. Len(c) : call'[c[i]].at = "queued" /\ call'[c[i]].model = n
    BY <2>1, <2>2, <2>4
  <2> QED
    BY <2>5 DEF Orderly, c
<1>5. LoadedServes' /\ QueuedWaits'
  <2>1. \A n \in Models : Backlog(lane'[n]) = Backlog(lane[n])
    BY <1>2
  <2>2. \A d \in Requests : call[d].model \in Models
    BY DEF CacheTypes, CallRecord
  <2>3. QueuedWaits'
    BY <2>1, <2>2 DEF LaneInv, QueuedWaits, WaitOn, At
  <2> QED
    BY <1>2, <2>3 DEF LaneInv, LoadedServes
<1>6. LaneInv'
  BY <1>2, <1>3, <1>4, <1>5 DEF LaneInv
<1>7. AllInOrder
  BY <1>1, <1>2, SameInOrder DEF AllInOrder
<1> QED
  BY <1>6, <1>7

(* A lane accepts a request that waits nowhere else.                       *)
LEMMA LaneAccepts ==
  ASSUME LaneInv, CacheTypes, NEW m \in Models, NEW c \in Requests,
         Len(lane[m].queue) < Capacity,
         lane' = [lane EXCEPT ![m].queue = Append(@, c)],
         Moved(c, "queued", m), call[c].at # "queued",
         UNCHANGED <<entry, runtime>>
  PROVE  LaneInv' /\ AllInOrder
<1> DEFINE l == lane[m]
           k == [l EXCEPT !.queue = Append(l.queue, c)]
<1>1. \A n \in Models : LaneGood(lane[n]) /\ Backlog(lane[n]) \in Seq(Requests)
  BY BacklogType DEF LaneInv
<1>2. LaneGood(k) /\ Backlog(k) = Append(Backlog(l), c) /\ (Serves(l) => Serves(k))
  BY <1>1, AcceptedByLane
<1>3. lane' = [lane EXCEPT ![m] = k]
  OBVIOUS
<1> HIDE DEF k
<1>4. /\ lane' \in [Models -> LaneRecord]
      /\ \A n \in Models : lane'[n] = IF n = m THEN k ELSE lane[n]
  BY <1>2, <1>3 DEF LaneInv, LaneGood
<1>5. \A n \in Models : LaneGood(lane'[n])
  BY <1>1, <1>2, <1>4
<1>6. /\ call'[c].at = "queued" /\ call'[c].model = m
      /\ \A d \in Requests \ {c} :
           /\ call'[d].at = "queued" <=> call[d].at = "queued"
           /\ call'[d].model = call[d].model /\ call[d].model \in Models
  BY DEF Moved, OthersRest, Woken, CacheTypes, CallRecord
<1>7. \A n \in Models : Orderly(n)'
  <2> SUFFICES ASSUME NEW n \in Models
               PROVE  Orderly(n)'
    OBVIOUS
  <2> DEFINE b == Backlog(lane[n])
             a == Backlog(lane'[n])
  <2>1. b \in Seq(Requests) /\ (a = IF n = m THEN Append(b, c) ELSE b)
    BY <1>1, <1>2, <1>4
  <2>2. /\ \A i, j \in 1 .. Len(b) : b[i] = b[j] => i = j
        /\ \A i \in 1 .. Len(b) : call[b[i]].at = "queued" /\ call[b[i]].model = n
    BY DEF LaneInv, Orderly
  <2> HIDE DEF b, a
  <2>3. Len(b) \in Nat /\ \A i \in 1 .. Len(b) : b[i] \in Requests
    BY <2>1, ElementOfSeq
  <2>4. \A i \in 1 .. Len(b) :
          b[i] # c /\ call'[b[i]].at = "queued" /\ call'[b[i]].model = n
    BY <1>6, <2>2, <2>3
  <2>5. CASE n # m
    BY <2>1, <2>2, <2>4, <2>5 DEF Orderly, a
  <2>6. CASE n = m
    <3>1. /\ a = Append(b, c) /\ Len(a) = Len(b) + 1 /\ a[Len(b) + 1] = c
          /\ \A i \in 1 .. Len(b) : a[i] = b[i]
      BY <2>1, <2>6, AppendProperties
    <3>2. \A i \in 1 .. Len(a) : i \in 1 .. Len(b) \/ i = Len(b) + 1
      BY <2>3, <3>1
    <3>3. \A i, j \in 1 .. Len(a) : a[i] = a[j] => i = j
      BY <2>2, <2>4, <3>1, <3>2
    <3>4. \A i \in 1 .. Len(a) : call'[a[i]].at = "queued" /\ call'[a[i]].model = n
      BY <1>6, <2>4, <2>6, <3>1, <3>2
    <3> QED
      BY <3>3, <3>4 DEF Orderly, a
  <2> QED
    BY <2>5, <2>6
<1>8. LoadedServes' /\ QueuedWaits'
  <2>1. \A n \in Models :
          ToSet(Backlog(lane'[n])) =
            IF n = m THEN ToSet(Backlog(lane[n])) \cup {c} ELSE ToSet(Backlog(lane[n]))
    <3>1. ToSet(Append(Backlog(l), c)) = ToSet(Backlog(l)) \cup {c}
      BY <1>1, AppendedSet
    <3> QED
      BY <1>2, <1>4, <3>1
  <2>2. QueuedWaits'
    BY <1>6, <2>1 DEF LaneInv, QueuedWaits, At
  <2> QED
    BY <1>2, <1>4, <2>2 DEF LaneInv, LoadedServes
<1>9. LaneInv'
  BY <1>4, <1>5, <1>7, <1>8 DEF LaneInv
<1>10. AllInOrder
  <2>1. \A n \in Models :
          Backlog(lane'[n]) = IF n = m THEN Append(Backlog(lane[n]), c) ELSE Backlog(lane[n])
    BY <1>2, <1>4
  <2> QED
    BY <1>1, <2>1, SameInOrder, AppendInOrder DEF AllInOrder
<1> QED
  BY <1>9, <1>10

(* A lane answers its batch: the rest of its backlog still waits.          *)
LEMMA LaneExecutes ==
  ASSUME LaneInv, CacheTypes, NEW m \in Models, Execute(m),
         \A c \in Requests \ ToSet(lane[m].batch) : call'[c] = call[c],
         \A c \in ToSet(lane[m].batch) : call'[c].at # "queued"
  PROVE  LaneInv' /\ AllInOrder
<1> DEFINE l == lane[m]
           k == Answered(l)
<1>1. \A n \in Models : /\ LaneGood(lane[n]) /\ Orderly(n)
                        /\ Backlog(lane[n]) \in Seq(Requests)
  BY BacklogType DEF LaneInv
<1>2. /\ LaneGood(k) /\ (Serves(l) => Serves(k))
      /\ l.batch \in Seq(Requests) /\ Backlog(k) \in Seq(Requests)
      /\ Backlog(l) = l.batch \o Backlog(k)
  BY <1>1, ExecutedLane, LaneFields
<1>3. lane' = [lane EXCEPT ![m] = k] /\ entry' = entry /\ runtime' = runtime
  BY DEF Execute, LaneMoves, Answered
<1> HIDE DEF k
<1>4. /\ lane' \in [Models -> LaneRecord]
      /\ \A n \in Models : lane'[n] = IF n = m THEN k ELSE lane[n]
  BY <1>2, <1>3 DEF LaneInv, LaneGood
<1>5. \A n \in Models : LaneGood(lane'[n])
  BY <1>1, <1>2, <1>4
<1>6. \A c \in ToSet(l.batch) : call[c].at = "queued" /\ call[c].model = m
  BY <1>1, BatchWaits
<1>7. \A n \in Models : Orderly(n)'
  <2> SUFFICES ASSUME NEW n \in Models
               PROVE  Orderly(n)'
    OBVIOUS
  <2> DEFINE b == Backlog(lane[n])
  <2>1. b \in Seq(Requests)
    BY <1>1
  <2>2. /\ \A i, j \in 1 .. Len(b) : b[i] = b[j] => i = j
        /\ \A i \in 1 .. Len(b) : call[b[i]].at = "queued" /\ call[b[i]].model = n
    BY <1>1 DEF Orderly
  <2>3. CASE n # m
    <3>1. lane'[n] = lane[n]
      BY <1>4, <2>3
    <3> HIDE DEF b
    <3>2. \A i \in 1 .. Len(b) : b[i] \in Requests \ ToSet(l.batch)
      BY <1>6, <2>1, <2>2, <2>3, ElementOfSeq
    <3>3. \A i \in 1 .. Len(b) : call'[b[i]].at = "queued" /\ call'[b[i]].model = n
      BY <2>2, <3>2
    <3> QED
      BY <2>2, <3>1, <3>3 DEF Orderly, b
  <2>4. CASE n = m
    <3> DEFINE s == l.batch
               t == Backlog(k)
    <3>1. s \in Seq(Requests) /\ t \in Seq(Requests) /\ b = s \o t
      BY <1>2, <2>4
    <3>2. lane'[n] = k
      BY <1>4, <2>4
    <3> HIDE DEF b, s, t
    <3>3. /\ Len(s) \in Nat /\ Len(t) \in Nat /\ Len(b) = Len(s) + Len(t)
          /\ DOMAIN s = 1 .. Len(s)
          /\ \A i \in 1 .. Len(s) : b[i] = s[i]
          /\ \A i \in 1 .. Len(t) : b[Len(s) + i] = t[i]
      BY <3>1, ConcatProperties, LenProperties
    <3>4. \A i \in 1 .. Len(t) :
            /\ t[i] \in Requests /\ b[Len(s) + i] = t[i]
            /\ Len(s) + i \in 1 .. Len(b) /\ Len(s) + i \notin 1 .. Len(s)
      BY <3>1, <3>3, ElementOfSeq
    <3>5. \A i \in 1 .. Len(s) : i \in 1 .. Len(b)
      BY <3>3
    <3>6. \A i \in 1 .. Len(t) : t[i] \notin ToSet(s)
      BY <2>2, <3>3, <3>4, <3>5 DEF ToSet
    <3>7. \A i \in 1 .. Len(t) : call'[t[i]].at = "queued" /\ call'[t[i]].model = n
      <4>1. \A i \in 1 .. Len(t) : call[t[i]].at = "queued" /\ call[t[i]].model = n
        BY <2>2, <3>4
      <4>2. \A i \in 1 .. Len(t) : call'[t[i]] = call[t[i]]
        BY <3>4, <3>6 DEF s
      <4> QED
        BY <4>1, <4>2
    <3>8. \A i, j \in 1 .. Len(t) : t[i] = t[j] => i = j
      <4> SUFFICES ASSUME NEW i \in 1 .. Len(t), NEW j \in 1 .. Len(t), t[i] = t[j]
                   PROVE  i = j
        OBVIOUS
      <4>1. Len(s) + i = Len(s) + j
        BY <2>2, <3>4
      <4> QED
        BY <3>3, <4>1
    <3> QED
      BY <3>2, <3>7, <3>8 DEF Orderly, t
  <2> QED
    BY <2>3, <2>4
<1>8. LoadedServes' /\ QueuedWaits'
  <2>1. \A n \in Models :
          ToSet(Backlog(lane[n])) \subseteq ToSet(Backlog(lane'[n])) \cup ToSet(l.batch)
    BY <1>2, <1>4, JoinedSet
  <2>2. QueuedWaits'
    BY <2>1 DEF LaneInv, QueuedWaits, At, CacheTypes, CallRecord
  <2> QED
    BY <1>2, <1>3, <1>4, <2>2 DEF LaneInv, LoadedServes
<1>9. LaneInv'
  BY <1>4, <1>5, <1>7, <1>8 DEF LaneInv
<1>10. AllInOrder
  <2> SUFFICES ASSUME NEW n \in Models
               PROVE  InOrder(Backlog(lane[n]), Backlog(lane'[n]))
    BY DEF AllInOrder
  <2>1. CASE n # m
    BY <1>1, <1>4, <2>1, SameInOrder
  <2>2. CASE n = m
    <3>1. Backlog(lane'[n]) = Backlog(k) /\ Backlog(lane[n]) = l.batch \o Backlog(k)
      BY <1>2, <1>4, <2>2
    <3>2. InOrder(l.batch \o Backlog(k), Backlog(k))
      BY <1>2, RestInOrder
    <3> QED
      BY <3>1, <3>2
  <2> QED
    BY <2>1, <2>2
<1> QED
  BY <1>9, <1>10

-----------------------------------------------------------------------------
(* Every step keeps the invariant, and every lane's order.                 *)

LEMMA OthersWaitOn ==
  ASSUME NEW c \in Requests, OthersRest(c), call[c].at # "queued", call'[c].at # "queued"
  PROVE  WaitOn
BY DEF OthersRest, Woken, WaitOn

(* A step of a caller that does not load and touches no lane.              *)
LEMMA CallerGoesOn ==
  ASSUME IInv, NEW c \in Requests, NEW step, NEW n \in Models, Moved(c, step, n),
         step \in Held <=> call[c].at \in Held,
         step \in Held => n = call[c].model,
         step \notin {"loading", "answered", "queued"}, call[c].at # "queued",
         UNCHANGED <<entry, lane, runtime>>
  PROVE  IInv' /\ AllInOrder
<1>1. CallInv /\ LaneInv
  BY DEF IInv
<1>2. CallInv'
  BY <1>1, CacheRests
<1>3. WaitOn
  BY OthersWaitOn DEF Moved
<1>4. NothingLoaded
  BY DEF NothingLoaded
<1>5. LaneInv' /\ AllInOrder
  BY <1>1, <1>3, <1>4, LanesRest
<1> QED
  BY <1>2, <1>5 DEF IInv

LEMMA AcquireKeeps ==
  ASSUME IInv, NEW c \in Requests, NEW m \in Models,
         call[c].at \in {"new", "woken"}, Acquire(c, m)
  PROVE  IInv' /\ AllInOrder
<1>1. CallInv /\ LaneInv /\ CacheTypes /\ runtime' = runtime
  BY DEF IInv, CallInv, Acquire
<1>2. call \in [Requests -> CallRecord] /\ entry \in [Models -> EntryRecord]
      /\ call[c].model \in Models
  BY <1>1 DEF CacheTypes, CallRecord
<1>3. {"waiting", "loading", "acquired", "returned"} \subseteq CallSteps
      /\ {"waiting", "loading", "returned", "new", "woken"} \cap Held = {}
  BY DEF CallSteps, Held
<1>4. CASE WaitForLoad(c, m)
  <2>1. Moved(c, "waiting", m)
    BY <1>2, <1>3, <1>4, GoesMoves DEF WaitForLoad
  <2>2. entry' = entry /\ lane' = lane
    BY <1>4 DEF WaitForLoad
  <2> QED
    BY <1>1, <1>3, <2>1, <2>2, CallerGoesOn
<1>5. CASE NoSlot(c, m)
  <2>1. Moved(c, "returned", call[c].model)
    BY <1>2, <1>3, <1>5, GoesOn DEF NoSlot
  <2>2. entry' = entry /\ lane' = lane
    BY <1>5 DEF NoSlot
  <2> QED
    BY <1>1, <1>2, <1>3, <2>1, <2>2, CallerGoesOn
<1>6. CASE UseLoaded(c, m)
  <2>1. CallInv'
    BY <1>1, <1>6, CacheUsed
  <2>2. Moved(c, "acquired", m)
    BY <1>2, <1>3, <1>6, GoesMoves DEF UseLoaded
  <2>3. WaitOn
    BY <2>2, OthersWaitOn DEF Moved
  <2>4. lane' = lane /\ entry[m].loaded /\ entry' = [entry EXCEPT ![m].inflight = @ + 1]
    BY <1>6 DEF UseLoaded
  <2>5. NothingLoaded
    <3>1. \A n \in Models : entry'[n].loaded <=> entry[n].loaded
      BY <1>2, <2>4 DEF EntryRecord
    <3> QED
      BY <1>1, <3>1 DEF NothingLoaded
  <2> QED
    BY <1>1, <2>1, <2>3, <2>4, <2>5, LanesRest DEF IInv
<1>7. CASE StartLoad(c, m)
  <2>1. CallInv'
    BY <1>1, <1>7, CacheLoads
  <2>2. Moved(c, "loading", m)
    BY <1>2, <1>3, <1>7, GoesMoves DEF StartLoad
  <2>3. WaitOn
    BY <2>2, OthersWaitOn DEF Moved
  <2>4. CASE lane' = lane /\ entry' = [entry EXCEPT ![m].state = "loading"]
    <3>1. \A n \in Models : entry'[n].loaded <=> entry[n].loaded
      BY <1>2, <2>4 DEF EntryRecord
    <3>2. NothingLoaded
      BY <1>1, <3>1 DEF NothingLoaded
    <3> QED
      BY <1>1, <2>1, <2>3, <2>4, <3>2, LanesRest DEF IInv
  <2>5. ASSUME NEW v \in Victims(m),
               entry' = [entry EXCEPT
                 ![v] = [@ EXCEPT !.state = "registered", !.loaded = FALSE],
                 ![m].state = "loading"],
               lane' = [lane EXCEPT ![v] = ClosedLane(@)]
        PROVE  IInv' /\ AllInOrder
    <3>1. v \in Models /\ v # m
      BY DEF Victims, Occupied
    <3>2. /\ ~entry'[v].loaded
          /\ \A n \in Models \ {v} : entry'[n].loaded => entry[n].loaded
      BY <1>2, <2>5, <3>1 DEF EntryRecord
    <3>3. LaneGood(lane[v])
      BY <1>1, <3>1 DEF LaneInv
    <3>4. LaneGood(ClosedLane(lane[v])) /\ Backlog(ClosedLane(lane[v])) = Backlog(lane[v])
      BY <3>3, ClosedLaneGood
    <3>5. lane' = [lane EXCEPT ![v] = ClosedLane(lane[v])]
      BY <2>5
    <3> QED
      BY <1>1, <2>1, <2>3, <3>1, <3>2, <3>4, <3>5, LaneChanges DEF IInv
  <2> QED
    BY <1>7, <2>4, <2>5 DEF StartLoad
<1> QED
  BY <1>4, <1>5, <1>6, <1>7 DEF Acquire

LEMMA LoadCompletesKeeps ==
  ASSUME IInv, NEW c \in Requests, LoadCompletes(c)
  PROVE  IInv' /\ AllInOrder
<1>1. CallInv /\ LaneInv /\ CacheTypes /\ runtime' = runtime /\ call[c].at = "loading"
  BY DEF IInv, CallInv, LoadCompletes, At
<1>2. call \in [Requests -> CallRecord] /\ call[c].model \in Models
  BY <1>1 DEF CacheTypes, CallRecord
<1>3. CASE runtime.closed
  <2>1. call' = Goes(c, "returned") /\ entry' = entry /\ lane' = lane
    BY <1>3 DEF LoadCompletes
  <2>2. Moved(c, "returned", call[c].model)
    BY <1>2, <2>1, GoesOn DEF CallSteps
  <2> QED
    BY <1>1, <1>2, <2>1, <2>2, CallerGoesOn DEF Held
<1>4. CASE ~runtime.closed
  <2> DEFINE m == call[c].model
             k == [EmptyLane EXCEPT !.thread = "idle"]
  <2>1. /\ CallInv' /\ Moved(c, "acquired", m)
        /\ \A n \in Models : entry'[n].loaded => entry[n].loaded \/ n = m
    BY <1>1, <1>4, CacheLoaded
  <2>2. lane' = [lane EXCEPT ![m] = k]
    BY <1>4 DEF LoadCompletes
  <2>3. LaneGood(k) /\ Backlog(k) = <<>> /\ Serves(k)
    BY EmptyLaneGood
  <2>4. WaitOn
    BY <1>1, <2>1, OthersWaitOn DEF Moved
  <2> HIDE DEF k
  <2>5. Backlog(lane[m]) = <<>>
    <3> DEFINE b == Backlog(lane[m])
    <3>1. b \in Seq(Requests)
      BY <1>1, <1>2, BacklogType DEF LaneInv
    <3>2. \A i \in 1 .. Len(b) : call[b[i]].at = "queued" /\ call[b[i]].model = m
      BY <1>1, <1>2 DEF LaneInv, Orderly
    <3>3. \A d \in Requests : call[d].at = "queued" => call[d].model # m
      BY <1>1, <1>4 DEF CallInv, HeldIsLoaded, LoadsMarked, At, Held
    <3> HIDE DEF b
    <3>4. Len(b) = 0
      <4>1. Len(b) \in Nat /\ \A i \in 1 .. Len(b) : b[i] \in Requests
        BY <3>1, LenProperties, ElementOfSeq
      <4>2. 1 \notin 1 .. Len(b)
        BY <3>2, <3>3, <4>1
      <4> QED
        BY <4>1, <4>2
    <3> QED
      BY <3>1, <3>4, EmptySeq DEF b
  <2>6. LaneInv' /\ AllInOrder
    BY <1>1, <1>2, <2>1, <2>2, <2>3, <2>4, <2>5, LaneChanges
  <2> QED
    BY <2>1, <2>6 DEF IInv
<1> QED
  BY <1>3, <1>4

LEMMA EnqueueKeeps ==
  ASSUME IInv, NEW c \in Requests, Enqueue(c)
  PROVE  IInv' /\ AllInOrder
<1> DEFINE m == call[c].model
<1>1. CallInv /\ LaneInv /\ CacheTypes /\ call[c].at = "checked"
      /\ entry' = entry /\ runtime' = runtime
  BY DEF IInv, CallInv, Enqueue, At
<1>2. call \in [Requests -> CallRecord] /\ m \in Models
  BY <1>1 DEF CacheTypes, CallRecord
<1>3. {"queued", "raised"} \subseteq CallSteps /\ {"queued", "raised", "checked"} \subseteq Held
  BY DEF CallSteps, Held
<1>4. CASE call' = Goes(c, "raised") /\ lane' = lane
  <2>1. Moved(c, "raised", m)
    BY <1>2, <1>3, <1>4, GoesOn
  <2> QED
    BY <1>1, <1>2, <1>3, <1>4, <2>1, CallerGoesOn
<1>5. CASE /\ Len(lane[m].queue) < Capacity /\ call' = Goes(c, "queued")
           /\ lane' = [lane EXCEPT ![m].queue = Append(@, c)]
  <2>1. Moved(c, "queued", m)
    BY <1>2, <1>3, <1>5, GoesOn
  <2>2. CallInv'
    BY <1>1, <1>2, <1>3, <2>1, CacheRests
  <2>3. LaneInv' /\ AllInOrder
    BY <1>1, <1>2, <1>5, <2>1, LaneAccepts
  <2> QED
    BY <2>2, <2>3 DEF IInv
<1> QED
  BY <1>4, <1>5 DEF Enqueue

LEMMA CallerKeeps ==
  ASSUME IInv, NEW c \in Requests, CallerStep(c)
  PROVE  IInv' /\ AllInOrder
<1>1. CallInv /\ LaneInv /\ CacheTypes
  BY DEF IInv, CallInv
<1>2. call \in [Requests -> CallRecord] /\ call[c].model \in Models
  BY <1>1 DEF CacheTypes, CallRecord
<1>3. CASE Wake(c)
  BY <1>2, <1>3, AcquireKeeps DEF Wake, At
<1>4. CASE LoadFails(c)
  <2>1. CallInv' /\ Moved(c, "returned", call[c].model)
    BY <1>1, <1>4, CacheLoadFails
  <2>2. /\ call[c].at = "loading" /\ lane' = lane /\ runtime' = runtime
        /\ entry' = [entry EXCEPT ![call[c].model].state = "failed"]
    BY <1>4 DEF LoadFails, At
  <2>3. WaitOn
    BY <2>1, <2>2, OthersWaitOn DEF Moved
  <2>4. \A n \in Models : entry'[n].loaded <=> entry[n].loaded
    BY <1>1, <1>2, <2>2 DEF CacheTypes, EntryRecord
  <2>5. NothingLoaded
    BY <2>2, <2>4 DEF NothingLoaded
  <2> QED
    BY <1>1, <2>1, <2>2, <2>3, <2>5, LanesRest DEF IInv
<1>5. CASE LoadCompletes(c)
  BY <1>5, LoadCompletesKeeps
<1>6. CASE CheckOpen(c)
  <2>1. call[c].at = "acquired" /\ UNCHANGED <<entry, lane, runtime>>
    BY <1>6 DEF CheckOpen, At
  <2>2. \E step \in {"checked", "raised"} : call' = Goes(c, step)
    BY <1>6 DEF CheckOpen
  <2>3. PICK step \in {"checked", "raised"} : call' = Goes(c, step)
    BY <2>2
  <2>4. step \in CallSteps /\ step \in Held /\ call[c].at \in Held
    BY <2>1 DEF CallSteps, Held
  <2>5. Moved(c, step, call[c].model)
    BY <1>2, <2>3, <2>4, GoesOn
  <2> QED
    BY <1>2, <2>1, <2>4, <2>5, CallerGoesOn
<1>7. CASE Enqueue(c)
  BY <1>7, EnqueueKeeps
<1>8. CASE Release(c)
  <2>1. /\ CallInv' /\ Moved(c, "returned", call[c].model)
        /\ \A n \in Models : entry'[n].loaded <=> entry[n].loaded
    BY <1>1, <1>8, CacheReleased
  <2>2. call[c].at # "queued" /\ lane' = lane /\ runtime' = runtime
    BY <1>8 DEF Release, At
  <2>3. WaitOn
    BY <2>1, <2>2, OthersWaitOn DEF Moved
  <2>4. NothingLoaded
    BY <2>1, <2>2 DEF NothingLoaded
  <2> QED
    BY <1>1, <2>1, <2>2, <2>3, <2>4, LanesRest DEF IInv
<1> QED
  BY <1>3, <1>4, <1>5, <1>6, <1>7, <1>8 DEF CallerStep

LEMMA LaneKeeps ==
  ASSUME IInv, NEW m \in Models, LaneStep(m)
  PROVE  IInv' /\ AllInOrder
<1>1. /\ CallInv /\ LaneInv /\ CacheTypes /\ LaneGood(lane[m]) /\ Orderly(m)
      /\ lane \in [Models -> LaneRecord]
  BY DEF IInv, CallInv, LaneInv
<1>2. ASSUME NEW k, lane' = [lane EXCEPT ![m] = k], Rearranged(lane[m], k),
             UNCHANGED <<entry, call, runtime>>
      PROVE  IInv' /\ AllInOrder
  <2>1. CallInv'
    BY <1>1, <1>2, CacheUntouched DEF CacheTypes
  <2>2. WaitOn
    BY <1>2 DEF WaitOn
  <2>3. ~runtime.closed /\ entry[m].loaded => Serves(k)
    BY <1>1, <1>2 DEF LaneInv, LoadedServes, Rearranged
  <2>4. LaneGood(k) /\ Backlog(k) = Backlog(lane[m])
    BY <1>2 DEF Rearranged
  <2> QED
    BY <1>1, <1>2, <2>1, <2>2, <2>3, <2>4, LaneChanges DEF IInv
<1>3. CASE TakeFirst(m)
  <2>1. UNCHANGED <<entry, call, runtime>>
    BY <1>3 DEF TakeFirst, LaneMoves
  <2> QED
    BY <1>1, <1>2, <1>3, <2>1, TakesFirst
<1>4. CASE Collect(m)
  <2>1. UNCHANGED <<entry, call, runtime>>
    BY <1>4 DEF Collect, LaneMoves
  <2> QED
    BY <1>1, <1>2, <1>4, <2>1, Collects
<1>5. CASE PollEmpty(m) \/ AfterPoll(m) \/ StopCollecting(m) \/ AfterExecute(m)
  <2>1. UNCHANGED <<entry, call, runtime>>
    BY <1>5 DEF PollEmpty, AfterPoll, StopCollecting, AfterExecute, LaneMoves
  <2> QED
    BY <1>1, <1>2, <1>5, <2>1, MovesThread
<1>6. CASE Execute(m)
  <2>1. /\ CallInv'
        /\ \A c \in Requests \ ToSet(lane[m].batch) : call'[c] = call[c]
        /\ \A c \in ToSet(lane[m].batch) : call'[c].at # "queued"
    BY <1>1, <1>6, CacheExecutes
  <2> QED
    BY <1>1, <1>6, <2>1, LaneExecutes DEF IInv
<1> QED
  BY <1>3, <1>4, <1>5, <1>6 DEF LaneStep

LEMMA StepKeeps ==
  ASSUME IInv, [Next]_vars
  PROVE  IInv' /\ AllInOrder
<1>1. CallInv /\ LaneInv /\ CacheTypes
  BY DEF IInv, CallInv
<1>2. ASSUME NEW m \in Models, Register(m)
      PROVE  IInv' /\ AllInOrder
  <2>1. CallInv'
    BY <1>1, <1>2, CacheRegisters
  <2>2. /\ lane' = lane /\ call' = call /\ runtime' = runtime
        /\ entry' = [entry EXCEPT ![m].state = "registered"]
    BY <1>2 DEF Register
  <2>3. \A n \in Models : entry'[n].loaded <=> entry[n].loaded
    BY <1>1, <2>2 DEF CacheTypes, EntryRecord
  <2>4. WaitOn /\ NothingLoaded
    BY <2>2, <2>3 DEF WaitOn, NothingLoaded
  <2> QED
    BY <1>1, <2>1, <2>2, <2>4, LanesRest DEF IInv
<1>3. ASSUME NEW m \in Models, CloseLane(m)
      PROVE  IInv' /\ AllInOrder
  <2>1. /\ entry' = entry /\ call' = call /\ m \in runtime.closing
        /\ runtime' = [runtime EXCEPT !.closing = @ \ {m}]
        /\ lane' = [lane EXCEPT ![m] = ClosedLane(lane[m])]
    BY <1>3 DEF CloseLane
  <2>2. /\ runtime' \in [closed : BOOLEAN, closing : SUBSET Models]
        /\ runtime'.closed <=> runtime.closed
    BY <1>1, <2>1 DEF CacheTypes
  <2>3. runtime.closed
    BY <1>1, <2>1 DEF LaneInv, LoadedServes
  <2>4. CallInv'
    BY <1>1, <2>1, <2>2, CacheUntouched
  <2>5. LaneGood(lane[m])
    BY <1>1 DEF LaneInv
  <2>6. LaneGood(ClosedLane(lane[m])) /\ Backlog(ClosedLane(lane[m])) = Backlog(lane[m])
    BY <2>5, ClosedLaneGood
  <2>7. WaitOn
    BY <2>1 DEF WaitOn
  <2> QED
    BY <1>1, <2>1, <2>2, <2>3, <2>4, <2>6, <2>7, LaneChanges DEF IInv
<1>4. ASSUME NEW m \in Models, LaneStep(m)
      PROVE  IInv' /\ AllInOrder
  BY <1>4, LaneKeeps
<1>5. ASSUME NEW c \in Requests, CallerStep(c)
      PROVE  IInv' /\ AllInOrder
  BY <1>5, CallerKeeps
<1>6. ASSUME NEW c \in Requests, NEW m \in Models, Call(c, m)
      PROVE  IInv' /\ AllInOrder
  BY <1>6, AcquireKeeps DEF Call, At
<1>7. CASE Close
  <2>1. /\ CallInv' /\ runtime'.closed
        /\ \A d \in Requests :
             call'[d].model = call[d].model /\ (call'[d].at = call[d].at \/ Woken(d))
    BY <1>1, <1>7, CacheCloses
  <2>2. WaitOn
    BY <2>1 DEF WaitOn, Woken
  <2>3. NothingLoaded
    <3>1. \A n \in Models : entry'[n].loaded => entry[n].loaded
      <4> SUFFICES ASSUME NEW n \in Models, ~entry[n].loaded
                   PROVE  ~entry'[n].loaded
        OBVIOUS
      <4>1. entry'[n] = IF entry[n].state = "absent" THEN entry[n]
                        ELSE [entry[n] EXCEPT !.state = "closed", !.loaded = FALSE]
        BY <1>7 DEF Close
      <4> QED
        BY <1>1, <4>1 DEF CacheTypes, EntryRecord
    <3> QED
      BY <2>1, <3>1 DEF NothingLoaded
  <2>4. lane' = lane
    BY <1>7 DEF Close
  <2> QED
    BY <1>1, <2>1, <2>2, <2>3, <2>4, LanesRest DEF IInv
<1>8. CASE UNCHANGED vars
  <2>1. UNCHANGED <<entry, lane, call, runtime>>
    BY <1>8 DEF vars
  <2>2. CallInv'
    BY <1>1, <2>1, CacheUntouched DEF CacheTypes
  <2>3. WaitOn /\ NothingLoaded
    BY <2>1 DEF WaitOn, NothingLoaded
  <2> QED
    BY <1>1, <2>1, <2>2, <2>3, LanesRest DEF IInv
<1> QED
  BY <1>2, <1>3, <1>4, <1>5, <1>6, <1>7, <1>8 DEF Next

-----------------------------------------------------------------------------
(* What is promised, for any requests, models and limits.                  *)

(* The counts, the loads under way and the lanes agree in every reachable  *)
(* state: in_flight counts who holds a model, a load has marked its entry  *)
(* and its slot, and who waits in a lane waits there once.                 *)
THEOREM ResidentInductive == Spec => []IInv
<1>1. IInv /\ [Next]_vars => IInv'
  BY StepKeeps
<1> QED
  BY InitInv, <1>1, PTL DEF Spec

(* A load under way has a slot of its own: two loads never share one.      *)
LEMMA LoadsHaveSlots ==
  ASSUME CallInv, ~runtime.closed
  PROVE  Cardinality({m \in Models : entry[m].loaded})
           + Cardinality({c \in Requests : At(c, "loading")}) <= MaxLoaded
<1> DEFINE A == {m \in Models : entry[m].loaded}
           B == {m \in Models : entry[m].state = "loading"}
           L == {c \in Requests : At(c, "loading")}
           f == [c \in L |-> call[c].model]
<1>1. CacheTypes /\ LoadsMarked /\ LoadsFresh /\ SlotsBounded
  BY DEF CallInv
<1>2. IsFiniteSet(A) /\ IsFiniteSet(B) /\ IsFiniteSet(L)
  BY RequestsAssumption, FS_Subset
<1>3. Cardinality(A) \in Nat /\ Cardinality(B) \in Nat /\ Cardinality(L) \in Nat
  BY <1>2, FS_CardinalityType
<1>4. Cardinality(A) + Cardinality(B) <= MaxLoaded
  <2>1. A \cap B = {} /\ A \cup B = Occupied
    BY <1>1 DEF LoadsFresh, Occupied
  <2>2. Cardinality(A \cup B) = Cardinality(A) + Cardinality(B) - Cardinality(A \cap B)
    BY <1>2, FS_Union
  <2>3. Cardinality(A \cap B) = 0
    BY <2>1, FS_EmptySet
  <2>4. Cardinality(Occupied) <= MaxLoaded
    BY <1>1 DEF SlotsBounded
  <2> HIDE DEF A, B
  <2> QED
    BY <1>3, <2>1, <2>2, <2>3, <2>4, LimitsAssumption
<1>5. Cardinality(L) <= Cardinality(B)
  <2>1. f \in [L -> B]
    BY <1>1 DEF LoadsMarked, CacheTypes, CallRecord
  <2>2. \A c, d \in L : f[c] = f[d] => c = d
    BY <1>1 DEF LoadsMarked
  <2> HIDE DEF f, L, B
  <2>3. ~(Cardinality(B) < Cardinality(L))
    BY <1>2, <2>1, <2>2, FS_PigeonHole
  <2> QED
    BY <1>3, <2>3
<1> HIDE DEF A, B, L
<1>6. Cardinality(A) + Cardinality(L) <= MaxLoaded
  BY <1>3, <1>4, <1>5, LimitsAssumption
<1> QED
  BY <1>6 DEF A, L

(* Types and limits: no queue outgrows its capacity, and models in memory  *)
(* and loads under way together never exceed max_loaded_models, however    *)
(* many threads call.                                                      *)
THEOREM ResidentTypeCorrect == Spec => []CacheTypeOK
<1>1. IInv => CacheTypeOK
  <2> SUFFICES ASSUME IInv
               PROVE  CacheTypeOK
    OBVIOUS
  <2>1. CallInv /\ LaneInv
    BY DEF IInv
  <2>2. /\ entry \in [Models -> [state : EntryStates, loaded : BOOLEAN, inflight : Nat]]
        /\ call \in [Requests -> [at : CallSteps, model : Models, answer : Seq(Item)]]
        /\ runtime \in [closed : BOOLEAN, closing : SUBSET Models]
    BY <2>1 DEF CallInv, CacheTypes, EntryRecord, CallRecord
  <2>3. /\ lane \in [Models -> LaneRecord]
        /\ \A m \in Models : Len(lane[m].queue) <= Capacity
    BY <2>1 DEF LaneInv, LaneGood
  <2> QED
    BY <2>1, <2>2, <2>3, LoadsHaveSlots DEF CacheTypeOK
<1> QED
  BY <1>1, ResidentInductive, PTL

(* No eviction and no load touches a model, or the lane of a model, that a *)
(* request holds; and whoever was accepted is in its lane until answered,  *)
(* whatever happens to the lane, once and in its place.                    *)
THEOREM WorkSpared == Spec => []EvictionSparesWork
<1>1. IInv => EvictionSparesWork
  <2> SUFFICES ASSUME IInv
               PROVE  EvictionSparesWork
    OBVIOUS
  <2>1. ASSUME ~runtime.closed, NEW c \in Requests, call[c].at \in Held
        PROVE  entry[call[c].model].loaded /\ Serves(lane[call[c].model])
    <3>1. entry[call[c].model].loaded /\ call[c].model \in Models
      BY <2>1 DEF IInv, CallInv, HeldIsLoaded, CacheTypes, CallRecord
    <3> QED
      BY <2>1, <3>1 DEF IInv, LaneInv, LoadedServes
  <2>2. QueuedWaits
    BY DEF IInv, LaneInv
  <2> QED
    BY <2>1, <2>2 DEF EvictionSparesWork, Serves, QueuedWaits
<1> QED
  BY <1>1, ResidentInductive, PTL

(* Whatever requests share a batch, and whatever their sizes, each gets    *)
(* the results of its own items, in order.                                 *)
THEOREM AnswersAreOwn == Spec => []AnswersMatch
<1>1. IInv => AnswersMatch
  BY DEF IInv, CallInv
<1> QED
  BY <1>1, ResidentInductive, PTL

(* No lane ever reorders the requests it has accepted.                     *)
THEOREM OrderIsKept == Spec => ServedInOrder
<1>1. IInv /\ [Next]_vars =>
        [\A m \in Models :
           LET b == Backlog(lane[m])
               c == Backlog(lane[m])' IN
           \/ IsPrefix(b, c) \/ IsSuffix(c, b)]_vars
  BY StepKeeps DEF AllInOrder, InOrder
<1> QED
  BY <1>1, ResidentInductive, PTL DEF Spec, ServedInOrder

-----------------------------------------------------------------------------
(* No caller waits for a load that nobody makes.                           *)

(* While the runtime is open, a caller waits on the condition only for a   *)
(* model that is being loaded, and whoever loads it has yet to notify.     *)
WaitersWatched ==
  ~runtime.closed =>
    /\ \A c \in Requests : At(c, "waiting") => entry[call[c].model].state = "loading"
    /\ \A m \in Models : entry[m].state = "loading" =>
         \E d \in Requests : At(d, "loading") /\ call[d].model = m

(* Steps that neither start nor end a load or a wait.                      *)
LEMMA WatchGoesOn ==
  ASSUME WaitersWatched, CacheTypes,
         runtime.closed => runtime'.closed,
         \A n \in Models : entry'[n].state = "loading" <=> entry[n].state = "loading",
         \A d \in Requests :
           /\ call'[d].at = "waiting" => call[d].at = "waiting" /\ call'[d].model = call[d].model
           /\ call[d].at = "loading" => call'[d].at = "loading" /\ call'[d].model = call[d].model
  PROVE  WaitersWatched'
<1>1. \A d \in Requests : call[d].model \in Models
  BY DEF CacheTypes, CallRecord
<1>2. ~runtime'.closed => \A d \in Requests : call'[d].at = "waiting" =>
        entry'[call'[d].model].state = "loading"
  BY <1>1 DEF WaitersWatched, At
<1>3. ~runtime'.closed => \A m \in Models : entry'[m].state = "loading" =>
        \E d \in Requests : call'[d].at = "loading" /\ call'[d].model = m
  BY DEF WaitersWatched, At
<1> QED
  BY <1>2, <1>3 DEF WaitersWatched, At

(* The caller c stops waiting or goes on to a step that does not wait.     *)
LEMMA WatchPasses ==
  ASSUME WaitersWatched, CacheTypes, NEW c \in Requests, NEW step, NEW n, Moved(c, step, n),
         step # "waiting", call[c].at # "loading", runtime' = runtime,
         \A m \in Models : entry'[m].state = "loading" <=> entry[m].state = "loading"
  PROVE  WaitersWatched'
<1>1. \A d \in Requests :
        /\ call'[d].at = "waiting" => call[d].at = "waiting" /\ call'[d].model = call[d].model
        /\ call[d].at = "loading" => call'[d].at = "loading" /\ call'[d].model = call[d].model
  BY DEF Moved, OthersRest, Woken
<1> QED
  BY <1>1, WatchGoesOn

LEMMA WatchAcquires ==
  ASSUME WaitersWatched, CallInv, NEW c \in Requests, NEW m \in Models,
         call[c].at \in {"new", "woken"}, Acquire(c, m)
  PROVE  WaitersWatched'
<1>1. CacheTypes /\ LoadsFresh /\ runtime' = runtime
  BY DEF CallInv, Acquire
<1>2. call \in [Requests -> CallRecord] /\ entry \in [Models -> EntryRecord]
      /\ \A d \in Requests : call[d].model \in Models
  BY <1>1 DEF CacheTypes, CallRecord
<1>3. {"waiting", "loading", "acquired", "returned"} \subseteq CallSteps
  BY DEF CallSteps, Held
<1>4. CASE WaitForLoad(c, m)
  <2>1. Moved(c, "waiting", m) /\ entry' = entry /\ entry[m].state = "loading"
    BY <1>2, <1>3, <1>4, GoesMoves DEF WaitForLoad
  <2>2. \A d \in Requests \ {c} :
          /\ call'[d].model = call[d].model
          /\ call'[d].at = "waiting" => call[d].at = "waiting"
          /\ call[d].at = "loading" => call'[d].at = "loading"
    BY <2>1 DEF Moved, OthersRest, Woken
  <2>3. ~runtime.closed => \A d \in Requests : call'[d].at = "waiting" =>
          entry'[call'[d].model].state = "loading"
    BY <2>1, <2>2 DEF Moved, WaitersWatched, At
  <2>4. ~runtime.closed => \A n \in Models : entry'[n].state = "loading" =>
          \E d \in Requests : call'[d].at = "loading" /\ call'[d].model = n
    BY <2>1, <2>2 DEF WaitersWatched, At
  <2> QED
    BY <1>1, <2>3, <2>4 DEF WaitersWatched, At
<1>5. CASE UseLoaded(c, m)
  <2>1. Moved(c, "acquired", m)
    BY <1>2, <1>3, <1>5, GoesMoves DEF UseLoaded
  <2>2. entry' = [entry EXCEPT ![m].inflight = @ + 1]
    BY <1>5 DEF UseLoaded
  <2>3. \A n \in Models : entry'[n].state = entry[n].state
    BY <1>2, <2>2 DEF EntryRecord
  <2> QED
    BY <1>1, <2>1, <2>3, WatchPasses
<1>6. CASE NoSlot(c, m)
  <2>1. Moved(c, "returned", call[c].model)
    BY <1>2, <1>3, <1>6, GoesOn DEF NoSlot
  <2>2. entry' = entry
    BY <1>6 DEF NoSlot
  <2> QED
    BY <1>1, <2>1, <2>2, WatchPasses
<1>7. CASE StartLoad(c, m)
  <2>1. Moved(c, "loading", m)
    BY <1>2, <1>3, <1>7, GoesMoves DEF StartLoad
  <2>2. \A d \in Requests \ {c} :
          /\ call'[d].model = call[d].model
          /\ call'[d].at = "waiting" => call[d].at = "waiting"
          /\ call[d].at = "loading" => call'[d].at = "loading"
    BY <2>1 DEF Moved, OthersRest, Woken
  <2>3. ~runtime.closed => /\ entry'[m].state = "loading"
                           /\ \A n \in Models \ {m} :
                                entry'[n].state = "loading" <=> entry[n].state = "loading"
    <3>1. CASE entry' = [entry EXCEPT ![m].state = "loading"]
      BY <1>2, <3>1 DEF EntryRecord
    <3>2. ASSUME NEW v \in Victims(m),
                 entry' = [entry EXCEPT
                   ![v] = [@ EXCEPT !.state = "registered", !.loaded = FALSE],
                   ![m].state = "loading"]
          PROVE  ~runtime.closed =>
                   /\ entry'[m].state = "loading"
                   /\ \A n \in Models \ {m} :
                        entry'[n].state = "loading" <=> entry[n].state = "loading"
      <4>1. v \in Models /\ v # m /\ entry[v].loaded
        BY DEF Victims, Occupied
      <4>2. ~runtime.closed => entry[v].state # "loading"
        BY <1>1, <4>1 DEF LoadsFresh
      <4>3. /\ entry'[m].state = "loading" /\ entry'[v].state = "registered"
            /\ \A n \in Models \ {m, v} : entry'[n] = entry[n]
        BY <1>2, <3>2, <4>1 DEF EntryRecord
      <4> QED
        BY <4>2, <4>3
    <3> QED
      BY <1>7, <3>1, <3>2 DEF StartLoad
  <2>4. ~runtime.closed => \A d \in Requests : call'[d].at = "waiting" =>
          entry'[call'[d].model].state = "loading"
    BY <1>2, <2>1, <2>2, <2>3 DEF Moved, WaitersWatched, At
  <2>5. ~runtime.closed => \A n \in Models : entry'[n].state = "loading" =>
          \E d \in Requests : call'[d].at = "loading" /\ call'[d].model = n
    BY <2>1, <2>2, <2>3 DEF Moved, WaitersWatched, At
  <2> QED
    BY <1>1, <2>4, <2>5 DEF WaitersWatched, At
<1> QED
  BY <1>4, <1>5, <1>6, <1>7 DEF Acquire

(* A load ends, one way or the other, and wakes everybody.                 *)
LEMMA WatchEnds ==
  ASSUME WaitersWatched, CacheTypes, NEW c \in Requests, call[c].at = "loading",
         NEW step \in {"returned", "acquired"}, Moved(c, step, call[c].model),
         call' = Notify(Goes(c, step)), runtime' = runtime,
         entry'[call[c].model].state # "loading",
         \A n \in Models : n # call[c].model => entry'[n].state = entry[n].state
  PROVE  WaitersWatched'
<1>1. \A d \in Requests : call'[d].at # "waiting"
  <2> SUFFICES ASSUME NEW d \in Requests
               PROVE  call'[d].at # "waiting"
    OBVIOUS
  <2> DEFINE r == Goes(c, step)[d]
  <2>1. r \in CallRecord
    BY DEF Goes, CacheTypes, CallRecord, CallSteps, Held
  <2>2. call'[d] = IF r.at = "waiting" THEN [r EXCEPT !.at = "woken"] ELSE r
    BY DEF Notify
  <2> HIDE DEF r
  <2> QED
    BY <2>1, <2>2 DEF CallRecord
<1>2. \A d \in Requests \ {c} :
        call[d].at = "loading" => call'[d].at = "loading" /\ call'[d].model = call[d].model
  BY DEF Moved, OthersRest, Woken
<1>3. ~runtime.closed => \A n \in Models : entry'[n].state = "loading" =>
        \E d \in Requests : call'[d].at = "loading" /\ call'[d].model = n
  <2> SUFFICES ASSUME ~runtime.closed, NEW n \in Models, entry'[n].state = "loading"
               PROVE  \E d \in Requests : call'[d].at = "loading" /\ call'[d].model = n
    OBVIOUS
  <2>1. n # call[c].model /\ entry[n].state = "loading"
    OBVIOUS
  <2>2. PICK d \in Requests : call[d].at = "loading" /\ call[d].model = n
    BY <2>1 DEF WaitersWatched, At
  <2> QED
    BY <1>2, <2>1, <2>2
<1> QED
  BY <1>1, <1>3 DEF WaitersWatched, At

LEMMA WatchKept ==
  ASSUME WaitersWatched, IInv, [Next]_vars
  PROVE  WaitersWatched'
<1>1. CallInv /\ LaneInv /\ CacheTypes
  BY DEF IInv, CallInv
<1>2. /\ call \in [Requests -> CallRecord] /\ entry \in [Models -> EntryRecord]
      /\ \A d \in Requests : call[d].model \in Models
  BY <1>1 DEF CacheTypes, CallRecord
<1>3. ASSUME NEW m \in Models, Register(m) \/ CloseLane(m)
      PROVE  WaitersWatched'
  <2>1. call' = call /\ (runtime'.closed <=> runtime.closed)
    BY <1>1, <1>3 DEF Register, CloseLane, CacheTypes
  <2>2. \A n \in Models : entry'[n].state = "loading" <=> entry[n].state = "loading"
    <3>1. CASE entry' = entry
      BY <3>1
    <3>2. CASE entry' = [entry EXCEPT ![m].state = "registered"] /\ entry[m].state = "absent"
      BY <1>2, <3>2 DEF EntryRecord
    <3> QED
      BY <1>3, <3>1, <3>2 DEF Register, CloseLane
  <2> QED
    BY <1>1, <2>1, <2>2, WatchGoesOn
<1>4. ASSUME NEW m \in Models, LaneStep(m)
      PROVE  WaitersWatched'
  <2>1. entry' = entry /\ runtime' = runtime
    BY <1>4 DEF LaneStep, TakeFirst, PollEmpty, AfterPoll, Collect, StopCollecting,
                Execute, AfterExecute, LaneMoves
  <2>2. CASE call' = call
    BY <1>1, <2>1, <2>2, WatchGoesOn
  <2>3. CASE Execute(m)
    <3>1. LaneGood(lane[m]) /\ Orderly(m)
      BY <1>1 DEF LaneInv
    <3>2. /\ \A d \in Requests : call'[d].model = call[d].model
          /\ \A d \in Requests \ ToSet(lane[m].batch) : call'[d] = call[d]
      BY <1>1, <2>3, <3>1, CacheExecutes
    <3>3. \A d \in ToSet(lane[m].batch) :
            call[d].at = "queued" /\ call'[d].at \in {"answered", "raised"}
      <4>1. \A d \in ToSet(lane[m].batch) : d \in Requests /\ call[d].at = "queued"
        BY <3>1, BatchWaits
      <4> QED
        BY <1>1, <2>3, <3>1, <4>1, CacheExecutes
    <3> QED
      BY <1>1, <2>1, <3>2, <3>3, WatchGoesOn
  <2> QED
    BY <1>4, <2>2, <2>3 DEF LaneStep, TakeFirst, PollEmpty, AfterPoll, Collect,
                            StopCollecting, AfterExecute
<1>5. ASSUME NEW c \in Requests, NEW m \in Models, Call(c, m)
      PROVE  WaitersWatched'
  BY <1>1, <1>5, WatchAcquires DEF Call, At
<1>6. ASSUME NEW c \in Requests, CallerStep(c)
      PROVE  WaitersWatched'
  <2>1. CASE Wake(c)
    BY <1>1, <1>2, <2>1, WatchAcquires DEF Wake, At
  <2>2. CASE LoadFails(c)
    <3>1. Moved(c, "returned", call[c].model)
      BY <1>1, <2>2, CacheLoadFails
    <3>2. /\ call[c].at = "loading" /\ runtime' = runtime
          /\ call' = Notify(Goes(c, "returned"))
          /\ entry' = [entry EXCEPT ![call[c].model].state = "failed"]
      BY <2>2 DEF LoadFails, At
    <3>3. /\ entry'[call[c].model].state # "loading"
          /\ \A n \in Models : n # call[c].model => entry'[n].state = entry[n].state
      BY <1>2, <3>2 DEF EntryRecord
    <3> QED
      BY <1>1, <3>1, <3>2, <3>3, WatchEnds
  <2>3. CASE LoadCompletes(c)
    <3>1. CASE runtime.closed
      BY <2>3, <3>1 DEF LoadCompletes, WaitersWatched
    <3>2. CASE ~runtime.closed
      <4> DEFINE e == [state |-> "ready", loaded |-> TRUE,
                       inflight |-> entry[call[c].model].inflight + 1]
      <4>1. Moved(c, "acquired", call[c].model)
        BY <1>1, <2>3, <3>2, CacheLoaded
      <4>2. /\ call[c].at = "loading" /\ runtime' = runtime
            /\ call' = Notify(Goes(c, "acquired"))
            /\ entry' = [entry EXCEPT ![call[c].model] = e]
        BY <2>3, <3>2 DEF LoadCompletes, At
      <4>3. /\ entry'[call[c].model].state # "loading"
            /\ \A n \in Models : n # call[c].model => entry'[n].state = entry[n].state
        BY <1>2, <4>2
      <4> QED
        BY <1>1, <4>1, <4>2, <4>3, WatchEnds
    <3> QED
      BY <3>1, <3>2
  <2>4. CASE CheckOpen(c)
    <3>1. call[c].at = "acquired" /\ UNCHANGED <<entry, runtime>>
      BY <2>4 DEF CheckOpen, At
    <3>2. PICK step \in {"checked", "raised"} : call' = Goes(c, step)
      BY <2>4 DEF CheckOpen
    <3>3. Moved(c, step, call[c].model)
      BY <1>2, <3>2, GoesOn DEF CallSteps, Held
    <3> QED
      BY <1>1, <3>1, <3>3, WatchPasses
  <2>5. CASE Enqueue(c)
    <3>1. call[c].at = "checked" /\ UNCHANGED <<entry, runtime>>
      BY <2>5 DEF Enqueue, At
    <3>2. PICK step \in {"queued", "raised"} : call' = Goes(c, step)
      BY <2>5 DEF Enqueue
    <3>3. Moved(c, step, call[c].model)
      BY <1>2, <3>2, GoesOn DEF CallSteps, Held
    <3> QED
      BY <1>1, <3>1, <3>3, WatchPasses
  <2>6. CASE Release(c)
    <3>1. Moved(c, "returned", call[c].model)
      BY <1>1, <2>6, CacheReleased
    <3>2. /\ call[c].at # "loading" /\ runtime' = runtime
          /\ entry' = [entry EXCEPT ![call[c].model].inflight = IF @ = 0 THEN 0 ELSE @ - 1]
      BY <2>6 DEF Release, At
    <3>3. \A n \in Models : entry'[n].state = entry[n].state
      BY <1>2, <3>2 DEF EntryRecord
    <3> QED
      BY <1>1, <3>1, <3>2, <3>3, WatchPasses
  <2> QED
    BY <1>6, <2>1, <2>2, <2>3, <2>4, <2>5, <2>6 DEF CallerStep
<1>7. CASE Close
  BY <1>1, <1>7, CacheCloses DEF WaitersWatched
<1>8. CASE UNCHANGED vars
  BY <1>8 DEF vars, WaitersWatched, At
<1> QED
  BY <1>3, <1>4, <1>5, <1>6, <1>7, <1>8 DEF Next

(* No wake-up is lost while the runtime is open: what a caller waits for   *)
(* is always under way on another thread.  With EvictionSparesWork, which  *)
(* does the same for those who wait in a lane, it is the part of           *)
(* CallsReturn that needs no fairness.                                     *)
THEOREM NoLostWakeup == Spec => []WaitersWatched
<1>1. Init => WaitersWatched
  BY DEF Init, WaitersWatched, At
<1>2. WaitersWatched /\ IInv /\ [Next]_vars => WaitersWatched'
  BY WatchKept
<1> QED
  BY <1>1, <1>2, ResidentInductive, PTL DEF Spec
=============================================================================
