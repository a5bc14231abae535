----------------------------- MODULE FilesProofs -----------------------------
(***************************************************************************)
(* Proofs about the modules that MCFiles checks together, one part each:   *)
(*   Filtering        what Filter keeps, of any sequence;                  *)
(*   Restore          the scopes of what is restored, and that it composes *)
(*                    as before;                                           *)
(*   Merge            that an overlay does what is documented;             *)
(*   ClashProxy       who gets to the kernel;                              *)
(*   ActiveFile       what the kernel reads in active.yaml;                *)
(*   GeoAssets        when a database is whole;                            *)
(* and ConnectionsPage, the terminal client's page on the same kernel.     *)
(* What a file loads to is not expanded in the part on ClashProxy: it      *)
(* holds whatever the kernel reads.                                        *)
(***************************************************************************)
EXTENDS Restore, Merge, ClashProxy, ConnectionsPage, GeoAssets, FiniteSetTheorems,
        SequenceTheorems, WellFoundedInduction, TLAPS

-----------------------------------------------------------------------------
(* Filtering *)

\* Induction with a set of numbers for the predicate.
LEMMA SetInduction ==
  ASSUME NEW S, 0 \in S, \A n \in Nat : n \in S => n + 1 \in S
  PROVE  Nat \subseteq S
<1> DEFINE R == {ss \in Nat \X Nat : ss[1] < ss[2]}
<1> SUFFICES ASSUME Nat \ S # {} PROVE FALSE
  OBVIOUS
<1>1. OpToRel(<, Nat) = R
  BY Zenon DEF OpToRel
<1>2. IsWellFoundedOn(R, Nat)
  BY <1>1, NatLessThanWellFounded
<1> HIDE DEF R
<1>3. PICK n \in Nat \ S : \A m \in Nat \ S : <<m, n>> \notin R
  BY <1>2, WFMin, Zenon
<1>4. n - 1 \in Nat /\ (n - 1) + 1 = n
  BY <1>3
<1>5. <<n - 1, n>> \in R
  BY <1>4 DEF R
<1>6. n - 1 \in S
  BY <1>3, <1>4, <1>5
<1>7. (n - 1) + 1 \in S
  BY <1>4, <1>6
<1> QED
  BY <1>3, <1>4, <1>7

\* Induction over sequences, with a set of them for the predicate.
LEMMA SequenceInduction ==
  ASSUME NEW T, NEW P, <<>> \in P,
         \A s \in Seq(T) : \A x \in T : s \in P => Append(s, x) \in P
  PROVE  Seq(T) \subseteq P
<1> DEFINE N == {n \in Nat : \A s \in Seq(T) : Len(s) = n => s \in P}
<1>1. 0 \in N
  BY EmptySeq
<1>2. ASSUME NEW n \in Nat, n \in N PROVE n + 1 \in N
  <2> SUFFICES ASSUME NEW s \in Seq(T), Len(s) = n + 1 PROVE s \in P
    OBVIOUS
  <2> DEFINE t == SubSeq(s, 1, n)
             x == s[n + 1]
  <2>1. t \in Seq(T) /\ Len(t) = n /\ x \in T /\ s = Append(t, x)
    OBVIOUS
  <2>2. t \in P
    BY <1>2, <2>1
  <2> QED
    BY <2>1, <2>2
<1>3. Nat \subseteq N
  <2> HIDE DEF N
  <2> QED
    BY <1>1, <1>2, SetInduction
<1> QED
  BY <1>3, LenProperties

\* What Filter keeps of the first n elements.
Keeping(f, n, s, S) ==
  f = [i \in 0 .. n |->
         IF i = 0 THEN <<>>
         ELSE IF s[i] \in S THEN Append(f[i - 1], s[i]) ELSE f[i - 1]]

LEMMA KeepingExists ==
  ASSUME NEW s, NEW S, NEW n \in Nat
  PROVE  \E f : Keeping(f, n, s, S)
<1> DEFINE N == {m \in Nat : \E f : Keeping(f, m, s, S)}
<1>1. 0 \in N
  <2>1. Keeping([i \in 0 .. 0 |-> <<>>], 0, s, S)
    BY DEF Keeping
  <2> QED
    BY <2>1
<1>2. ASSUME NEW m \in Nat, m \in N PROVE m + 1 \in N
  <2>1. PICK f : Keeping(f, m, s, S)
    BY <1>2
  <2> DEFINE v == IF s[m + 1] \in S THEN Append(f[m], s[m + 1]) ELSE f[m]
             g == [i \in 0 .. m + 1 |-> IF i = m + 1 THEN v ELSE f[i]]
  <2>2. \A i \in 0 .. m : g[i] = f[i]
    OBVIOUS
  <2>3. ASSUME NEW i \in 0 .. m + 1
        PROVE  g[i] = IF i = 0 THEN <<>>
                      ELSE IF s[i] \in S THEN Append(g[i - 1], s[i]) ELSE g[i - 1]
    <3>1. CASE i = m + 1
      <4>1. g[i] = v /\ i # 0 /\ i - 1 = m /\ m \in 0 .. m
        BY <3>1
      <4>2. g[i - 1] = f[m]
        BY <2>2, <4>1
      <4> QED
        BY <3>1, <4>1, <4>2
    <3>2. CASE i \in 0 .. m
      <4>1. f[i] = IF i = 0 THEN <<>>
                   ELSE IF s[i] \in S THEN Append(f[i - 1], s[i]) ELSE f[i - 1]
        BY <2>1, <3>2 DEF Keeping
      <4>2. i # 0 => i - 1 \in 0 .. m
        BY <3>2
      <4>3. i # 0 => g[i - 1] = f[i - 1]
        BY <2>2, <4>2
      <4>4. g[i] = f[i]
        BY <2>2, <3>2
      <4> HIDE DEF g
      <4> QED
        BY <4>1, <4>3, <4>4
    <3> QED
      BY <3>1, <3>2
  <2>4. g = [i \in 0 .. m + 1 |-> g[i]]
    OBVIOUS
  <2> HIDE DEF g
  <2>5. Keeping(g, m + 1, s, S)
    BY <2>3, <2>4 DEF Keeping
  <2> QED
    BY <2>5
<1>3. n \in N
  <2> HIDE DEF N
  <2> QED
    BY <1>1, <1>2, SetInduction
<1> QED
  BY <1>3

LEMMA KeepingOnce ==
  ASSUME NEW s, NEW t, NEW S, NEW m \in Nat, NEW n \in Nat, m <= n,
         \A i \in 1 .. m : s[i] = t[i],
         NEW f, Keeping(f, m, s, S), NEW g, Keeping(g, n, t, S)
  PROVE  f[m] = g[m]
<1> DEFINE N == {i \in Nat : i <= m => f[i] = g[i]}
<1>1. 0 \in N
  BY DEF Keeping
<1>2. ASSUME NEW i \in Nat, i \in N PROVE i + 1 \in N
  <2> SUFFICES ASSUME i + 1 <= m PROVE f[i + 1] = g[i + 1]
    OBVIOUS
  <2>1. /\ i + 1 \in 0 .. m /\ i + 1 \in 0 .. n /\ i + 1 # 0 /\ i + 1 \in 1 .. m
        /\ (i + 1) - 1 = i
    OBVIOUS
  <2>2. f[i + 1] = IF s[i + 1] \in S THEN Append(f[i], s[i + 1]) ELSE f[i]
    BY <2>1 DEF Keeping
  <2>3. g[i + 1] = IF t[i + 1] \in S THEN Append(g[i], t[i + 1]) ELSE g[i]
    BY <2>1 DEF Keeping
  <2>4. f[i] = g[i]
    BY <1>2, <2>1
  <2> QED
    BY <2>1, <2>2, <2>3, <2>4
<1>3. m \in N
  <2> HIDE DEF N
  <2> QED
    BY <1>1, <1>2, SetInduction
<1> QED
  BY <1>3

LEMMA Filtered ==
  ASSUME NEW s, NEW S, Len(s) \in Nat
  PROVE  \E f : Keeping(f, Len(s), s, S) /\ Filter(s, S) = f[Len(s)]
<1> DEFINE found == CHOOSE f : Keeping(f, Len(s), s, S)
<1>1. Keeping(found, Len(s), s, S)
  BY KeepingExists, Zenon
<1>2. Filter(s, S) = found[Len(s)]
  BY Zenon DEF Filter, Keeping
<1> QED
  BY <1>1, <1>2, Zenon

LEMMA FilterEmpty == \A S : Filter(<<>>, S) = <<>>
<1> TAKE S
<1>1. PICK f : Keeping(f, Len(<<>>), <<>>, S) /\ Filter(<<>>, S) = f[Len(<<>>)]
  BY Filtered
<1> QED
  BY <1>1 DEF Keeping

LEMMA FilterAppend ==
  ASSUME NEW T, NEW s \in Seq(T), NEW x \in T, NEW S
  PROVE  Filter(Append(s, x), S) =
           IF x \in S THEN Append(Filter(s, S), x) ELSE Filter(s, S)
<1> DEFINE t == Append(s, x)
           n == Len(s)
<1>1. /\ n \in Nat /\ Len(t) = n + 1 /\ t[n + 1] = x
      /\ \A i \in 1 .. n : s[i] = t[i]
  OBVIOUS
<1>2. PICK f : Keeping(f, n, s, S) /\ Filter(s, S) = f[n]
  BY <1>1, Filtered
<1> HIDE DEF t, n
<1>3. PICK g : Keeping(g, n + 1, t, S) /\ Filter(t, S) = g[n + 1]
  <2>1. Len(t) \in Nat
    BY <1>1
  <2>2. \E g : Keeping(g, Len(t), t, S) /\ Filter(t, S) = g[Len(t)]
    BY <2>1, Filtered
  <2> QED
    BY <1>1, <2>2
<1>4. f[n] = g[n]
  BY <1>1, <1>2, <1>3, KeepingOnce
<1>5. n + 1 \in 0 .. n + 1 /\ n + 1 # 0 /\ (n + 1) - 1 = n
  BY <1>1
<1>6. g[n + 1] = IF t[n + 1] \in S THEN Append(g[n], t[n + 1]) ELSE g[n]
  BY <1>3, <1>5 DEF Keeping
<1>7. Filter(t, S) = IF x \in S THEN Append(Filter(s, S), x) ELSE Filter(s, S)
  BY <1>1, <1>2, <1>3, <1>4, <1>6
<1> QED
  BY <1>7 DEF t

LEMMA FilterType ==
  ASSUME NEW T, NEW S, NEW s \in Seq(T)
  PROVE  Filter(s, S) \in Seq(T)
<1> DEFINE P == {t \in Seq(T) : Filter(t, S) \in Seq(T)}
<1>1. <<>> \in P
  BY FilterEmpty, EmptySeq
<1>2. ASSUME NEW t \in Seq(T), NEW x \in T, t \in P PROVE Append(t, x) \in P
  <2> DEFINE u == Append(t, x)
             v == Append(Filter(t, S), x)
  <2>1. Filter(u, S) = IF x \in S THEN v ELSE Filter(t, S)
    BY FilterAppend
  <2>2. Filter(t, S) \in Seq(T)
    BY <1>2
  <2>3. u \in Seq(T) /\ v \in Seq(T)
    BY <2>2
  <2> HIDE DEF u, v
  <2>4. u \in P
    BY <2>1, <2>2, <2>3
  <2> QED
    BY <2>4 DEF u
<1>3. Seq(T) \subseteq P
  <2> HIDE DEF P
  <2> QED
    BY <1>1, <1>2, SequenceInduction
<1> QED
  BY <1>3

LEMMA FilterConcat ==
  ASSUME NEW T, NEW S, NEW s \in Seq(T), NEW t \in Seq(T)
  PROVE  Filter(s \o t, S) = Filter(s, S) \o Filter(t, S)
<1> DEFINE P == {u \in Seq(T) : Filter(s \o u, S) = Filter(s, S) \o Filter(u, S)}
<1>1. <<>> \in P
  <2>1. Filter(s, S) \in Seq(T)
    BY FilterType
  <2>2. s \o <<>> = s /\ Filter(s, S) \o <<>> = Filter(s, S)
    BY <2>1
  <2> QED
    BY <2>2, FilterEmpty, EmptySeq
<1>2. ASSUME NEW u \in Seq(T), NEW x \in T, u \in P PROVE Append(u, x) \in P
  <2>1. s \o Append(u, x) = Append(s \o u, x) /\ s \o u \in Seq(T)
    OBVIOUS
  <2>2. Filter(s \o Append(u, x), S) =
          IF x \in S THEN Append(Filter(s \o u, S), x) ELSE Filter(s \o u, S)
    BY <2>1, FilterAppend
  <2>3. Filter(Append(u, x), S) =
          IF x \in S THEN Append(Filter(u, S), x) ELSE Filter(u, S)
    BY FilterAppend
  <2>4. Filter(s, S) \in Seq(T) /\ Filter(u, S) \in Seq(T)
    BY FilterType
  <2> DEFINE a == Filter(s, S)
             b == Filter(u, S)
  <2>5. Append(a \o b, x) = a \o Append(b, x)
    <3> HIDE DEF a, b
    <3>1. a \in Seq(T) /\ b \in Seq(T) /\ <<x>> \in Seq(T)
      BY <2>4 DEF a, b
    <3>2. Append(a \o b, x) = (a \o b) \o <<x>>
      BY <3>1, AppendIsConcat, ConcatProperties
    <3>3. Append(b, x) = b \o <<x>>
      BY <3>1, AppendIsConcat
    <3>4. (a \o b) \o <<x>> = a \o (b \o <<x>>)
      BY <3>1, ConcatAssociative
    <3> QED
      BY <3>2, <3>3, <3>4
  <2>6. Filter(s \o u, S) = a \o b /\ Append(u, x) \in Seq(T)
    BY <1>2
  <2>7. Filter(s \o Append(u, x), S) = a \o Filter(Append(u, x), S)
    BY <2>2, <2>3, <2>5, <2>6
  <2> QED
    BY <2>6, <2>7
<1>3. Seq(T) \subseteq P
  <2> HIDE DEF P
  <2> QED
    BY <1>1, <1>2, SequenceInduction
<1> QED
  BY <1>3

LEMMA FilterTwice ==
  ASSUME NEW T, NEW A, NEW B, NEW s \in Seq(T)
  PROVE  Filter(Filter(s, A), B) = Filter(s, A \cap B)
<1> DEFINE P == {t \in Seq(T) : Filter(Filter(t, A), B) = Filter(t, A \cap B)}
<1>1. <<>> \in P
  BY FilterEmpty
<1>2. ASSUME NEW t \in Seq(T), NEW x \in T, t \in P PROVE Append(t, x) \in P
  <2> DEFINE u == Append(t, x)
             r == Filter(t, A)
             v == Append(r, x)
  <2>1. r \in Seq(T) /\ u \in Seq(T)
    BY FilterType
  <2>2. Filter(u, A) = IF x \in A THEN v ELSE r
    BY FilterAppend
  <2>3. Filter(v, B) = IF x \in B THEN Append(Filter(r, B), x) ELSE Filter(r, B)
    BY <2>1, FilterAppend
  <2>4. Filter(u, A \cap B) =
          IF x \in A \cap B THEN Append(Filter(t, A \cap B), x) ELSE Filter(t, A \cap B)
    BY FilterAppend
  <2>5. Filter(r, B) = Filter(t, A \cap B)
    BY <1>2
  <2> HIDE DEF u, r, v
  <2>6. CASE x \in A
    <3>1. Filter(Filter(u, A), B) = Filter(v, B)
      BY <2>2, <2>6
    <3> QED
      BY <2>1, <2>3, <2>4, <2>5, <2>6, <3>1 DEF u
  <2>7. CASE x \notin A
    <3>1. Filter(Filter(u, A), B) = Filter(r, B)
      BY <2>2, <2>7
    <3> QED
      BY <2>1, <2>4, <2>5, <2>7, <3>1 DEF u
  <2> QED
    BY <2>6, <2>7
<1>3. Seq(T) \subseteq P
  <2> HIDE DEF P
  <2> QED
    BY <1>1, <1>2, SequenceInduction
<1> QED
  BY <1>3

LEMMA FilterSame ==
  ASSUME NEW T, NEW A, NEW B, NEW s \in Seq(T),
         \A i \in 1 .. Len(s) : s[i] \in A <=> s[i] \in B
  PROVE  Filter(s, A) = Filter(s, B)
<1> DEFINE Same(t) == \A i \in 1 .. Len(t) : t[i] \in A <=> t[i] \in B
           P == {t \in Seq(T) : Same(t) => Filter(t, A) = Filter(t, B)}
<1>1. <<>> \in P
  BY FilterEmpty, EmptySeq
<1>2. ASSUME NEW t \in Seq(T), NEW x \in T, t \in P PROVE Append(t, x) \in P
  <2>0. Append(t, x) \in Seq(T)
    OBVIOUS
  <2> SUFFICES ASSUME Same(Append(t, x))
               PROVE  Filter(Append(t, x), A) = Filter(Append(t, x), B)
    BY <2>0
  <2>1. Same(t)
    <3> TAKE i \in 1 .. Len(t)
    <3>1. i \in 1 .. Len(Append(t, x)) /\ Append(t, x)[i] = t[i]
      OBVIOUS
    <3> QED
      BY <3>1
  <2>2. x \in A <=> x \in B
    <3>1. Len(t) + 1 \in 1 .. Len(Append(t, x)) /\ Append(t, x)[Len(t) + 1] = x
      OBVIOUS
    <3> QED
      BY <3>1
  <2>3. Filter(t, A) = Filter(t, B)
    <3> HIDE DEF Same
    <3> QED
      BY <1>2, <2>1
  <2>4. Filter(Append(t, x), A) = IF x \in A THEN Append(Filter(t, A), x) ELSE Filter(t, A)
    BY FilterAppend
  <2>5. Filter(Append(t, x), B) = IF x \in B THEN Append(Filter(t, B), x) ELSE Filter(t, B)
    BY FilterAppend
  <2> QED
    BY <2>2, <2>3, <2>4, <2>5
<1>3. Seq(T) \subseteq P
  <2> HIDE DEF P
  <2> QED
    BY <1>1, <1>2, SequenceInduction
<1> QED
  BY <1>3

\* What Filter keeps, it keeps in its order.
LEMMA FilterOrder ==
  ASSUME NEW T, NEW S, NEW s \in Seq(T)
  PROVE  LET r == Filter(s, S)
         IN \A i, j \in 1 .. Len(r) : i < j =>
              \E k, l \in 1 .. Len(s) : k < l /\ s[k] = r[i] /\ s[l] = r[j]
<1> DEFINE Embeds(r, t) ==
             /\ \A i \in 1 .. Len(r) : \E k \in 1 .. Len(t) : t[k] = r[i]
             /\ \A i, j \in 1 .. Len(r) : i < j =>
                  \E k, l \in 1 .. Len(t) : k < l /\ t[k] = r[i] /\ t[l] = r[j]
           P == {t \in Seq(T) : Embeds(Filter(t, S), t)}
<1>1. <<>> \in P
  BY FilterEmpty, EmptySeq
<1>2. ASSUME NEW t \in Seq(T), NEW x \in T, t \in P PROVE Append(t, x) \in P
  <2> DEFINE r == Filter(t, S)
             u == Append(t, x)
  <2>1. r \in Seq(T) /\ Embeds(r, t)
    BY <1>2, FilterType
  <2>2. /\ u \in Seq(T) /\ Len(t) \in Nat /\ Len(u) = Len(t) + 1 /\ u[Len(u)] = x
        /\ \A k \in 1 .. Len(t) : k \in 1 .. Len(u) /\ u[k] = t[k] /\ k < Len(u)
        /\ Len(u) \in 1 .. Len(u)
    OBVIOUS
  <2> HIDE DEF r, u
  <2>3. CASE x \in S
    <3>1. Filter(u, S) = Append(r, x)
      BY <2>3, FilterAppend DEF r, u
    <3> DEFINE v == Append(r, x)
    <3>2. /\ Len(r) \in Nat /\ Len(v) = Len(r) + 1 /\ v[Len(v)] = x
          /\ \A k \in 1 .. Len(r) : v[k] = r[k]
      BY <2>1
    <3> HIDE DEF v
    <3>3. \A i \in 1 .. Len(v) : i = Len(v) \/ i \in 1 .. Len(r)
      BY <3>2
    <3>4. ASSUME NEW i \in 1 .. Len(v) PROVE \E k \in 1 .. Len(u) : u[k] = v[i]
      <4>1. CASE i \in 1 .. Len(r)
        <5>1. PICK k \in 1 .. Len(t) : t[k] = r[i]
          BY <2>1, <4>1
        <5> QED
          BY <2>2, <3>2, <4>1, <5>1
      <4>2. CASE i = Len(v)
        BY <2>2, <3>2, <4>2
      <4> QED
        BY <3>3, <4>1, <4>2
    <3>5. ASSUME NEW i \in 1 .. Len(v), NEW j \in 1 .. Len(v), i < j
          PROVE  \E k, l \in 1 .. Len(u) : k < l /\ u[k] = v[i] /\ u[l] = v[j]
      <4>1. i \in 1 .. Len(r)
        BY <3>2, <3>5
      <4>2. CASE j \in 1 .. Len(r)
        <5>1. PICK k \in 1 .. Len(t), l \in 1 .. Len(t) :
                k < l /\ t[k] = r[i] /\ t[l] = r[j]
          BY <2>1, <3>5, <4>1, <4>2
        <5> QED
          BY <2>2, <3>2, <4>1, <4>2, <5>1
      <4>3. CASE j = Len(v)
        <5>1. PICK k \in 1 .. Len(t) : t[k] = r[i]
          BY <2>1, <4>1
        <5> QED
          BY <2>2, <3>2, <4>1, <4>3, <5>1
      <4> QED
        BY <3>3, <4>2, <4>3
    <3>6. Embeds(v, u)
      BY <3>4, <3>5
    <3> HIDE DEF Embeds
    <3> QED
      BY <2>2, <3>1, <3>6 DEF u, v
  <2>4. CASE x \notin S
    <3>1. Filter(u, S) = r
      BY <2>4, FilterAppend DEF r, u
    <3>2. Embeds(r, u)
      <4>1. ASSUME NEW i \in 1 .. Len(r) PROVE \E k \in 1 .. Len(u) : u[k] = r[i]
        BY <2>1, <2>2
      <4>2. ASSUME NEW i \in 1 .. Len(r), NEW j \in 1 .. Len(r), i < j
            PROVE  \E k, l \in 1 .. Len(u) : k < l /\ u[k] = r[i] /\ u[l] = r[j]
        <5>1. PICK k \in 1 .. Len(t), l \in 1 .. Len(t) :
                k < l /\ t[k] = r[i] /\ t[l] = r[j]
          BY <2>1, <4>2
        <5> QED
          BY <2>2, <5>1
      <4> QED
        BY <4>1, <4>2
    <3> HIDE DEF Embeds
    <3> QED
      BY <2>2, <3>1, <3>2 DEF u
  <2> QED
    BY <2>3, <2>4
<1>3. Seq(T) \subseteq P
  <2> HIDE DEF P
  <2> QED
    BY <1>1, <1>2, SequenceInduction
<1> QED
  BY <1>3

LEMMA SetOfAppend ==
  ASSUME NEW T, NEW t \in Seq(T), NEW x \in T
  PROVE  ToSet(Append(t, x)) = ToSet(t) \cup {x}
<1> DEFINE u == Append(t, x)
<1>1. /\ DOMAIN t = 1 .. Len(t) /\ DOMAIN u = 1 .. Len(t) + 1 /\ Len(t) \in Nat
      /\ u[Len(t) + 1] = x /\ \A k \in 1 .. Len(t) : u[k] = t[k]
  OBVIOUS
<1> HIDE DEF u
<1>2. \A k \in 1 .. Len(t) + 1 : k = Len(t) + 1 \/ k \in 1 .. Len(t)
  BY <1>1
<1>3. ToSet(u) = ToSet(t) \cup {x}
  <2>1. \A y \in ToSet(u) : y \in ToSet(t) \cup {x}
    BY <1>1, <1>2 DEF ToSet
  <2>2. \A y \in ToSet(t) : y \in ToSet(u)
    BY <1>1 DEF ToSet
  <2>3. x \in ToSet(u)
    BY <1>1 DEF ToSet
  <2> QED
    BY <2>1, <2>2, <2>3
<1> QED
  BY <1>3 DEF u

LEMMA FilterRange ==
  ASSUME NEW T, NEW S, NEW s \in Seq(T)
  PROVE  ToSet(Filter(s, S)) = ToSet(s) \cap S
<1> DEFINE P == {t \in Seq(T) : ToSet(Filter(t, S)) = ToSet(t) \cap S}
<1>1. <<>> \in P
  <2>1. ToSet(<<>>) = {}
    BY DEF ToSet
  <2> QED
    BY <2>1, FilterEmpty, EmptySeq
<1>2. ASSUME NEW t \in Seq(T), NEW x \in T, t \in P PROVE Append(t, x) \in P
  <2> DEFINE u == Append(t, x)
             r == Filter(t, S)
  <2>1. r \in Seq(T) /\ u \in Seq(T)
    BY FilterType
  <2>2. Filter(u, S) = IF x \in S THEN Append(r, x) ELSE r
    BY FilterAppend
  <2>3. ToSet(u) = ToSet(t) \cup {x}
    BY SetOfAppend
  <2>4. ToSet(Append(r, x)) = ToSet(r) \cup {x}
    BY <2>1, SetOfAppend
  <2>5. ToSet(r) = ToSet(t) \cap S
    BY <1>2
  <2> HIDE DEF u, r
  <2>6. u \in P
    BY <2>1, <2>2, <2>3, <2>4, <2>5
  <2> QED
    BY <2>6 DEF u
<1>3. Seq(T) \subseteq P
  <2> HIDE DEF P
  <2> QED
    BY <1>1, <1>2, SequenceInduction
<1> QED
  BY <1>3

LEMMA FilterNone ==
  ASSUME NEW T, NEW S, NEW s \in Seq(T), ToSet(s) \cap S = {}
  PROVE  Filter(s, S) = <<>>
<1> DEFINE r == Filter(s, S)
<1>1. r \in Seq(T) /\ ToSet(r) = {}
  BY FilterType, FilterRange
<1> HIDE DEF r
<1>2. Len(r) = 0
  <2>1. Len(r) \in Nat /\ DOMAIN r = 1 .. Len(r)
    BY <1>1
  <2>2. Len(r) # 0 => r[1] \in ToSet(r)
    BY <2>1 DEF ToSet
  <2> QED
    BY <1>1, <2>1, <2>2
<1>3. r = <<>>
  BY <1>1, <1>2, EmptySeq
<1> QED
  BY <1>3 DEF r

\* Two sequences that agree on what is kept, and on its texts.
Agree(v, A, w, B) ==
  /\ Len(v) = Len(w)
  /\ \A i \in 1 .. Len(v) : v[i] \in A <=> w[i] \in B
  /\ \A i \in 1 .. Len(v) : v[i].text = w[i].text

LEMMA FilterAlike ==
  ASSUME NEW T, NEW U, NEW A, NEW B, NEW s \in Seq(T), NEW t \in Seq(U),
         Agree(s, A, t, B)
  PROVE  Texts(Filter(s, A)) = Texts(Filter(t, B))
<1> DEFINE Good(v, w) == /\ Len(Filter(v, A)) = Len(Filter(w, B))
                         /\ \A i \in 1 .. Len(Filter(v, A)) :
                              Filter(v, A)[i].text = Filter(w, B)[i].text
           P == {v \in Seq(T) : \A w \in Seq(U) : Agree(v, A, w, B) => Good(v, w)}
<1>1. <<>> \in P
  <2> SUFFICES ASSUME NEW w \in Seq(U), Agree(<<>>, A, w, B) PROVE Good(<<>>, w)
    BY EmptySeq
  <2>1. w = <<>>
    BY EmptySeq DEF Agree
  <2> QED
    BY <2>1, FilterEmpty
<1>2. ASSUME NEW v \in Seq(T), NEW x \in T, v \in P PROVE Append(v, x) \in P
  <2>0. Append(v, x) \in Seq(T)
    OBVIOUS
  <2> SUFFICES ASSUME NEW w \in Seq(U), Agree(Append(v, x), A, w, B) PROVE Good(Append(v, x), w)
    BY <2>0
  <2> DEFINE n == Len(v)
             w0 == SubSeq(w, 1, n)
             y == w[n + 1]
  <2>1. /\ n \in Nat /\ Len(Append(v, x)) = n + 1 /\ Append(v, x)[n + 1] = x
        /\ \A i \in 1 .. n : Append(v, x)[i] = v[i]
    OBVIOUS
  <2>2. Len(w) = n + 1
    BY <2>1 DEF Agree
  <2>3. /\ w0 \in Seq(U) /\ y \in U /\ w = Append(w0, y) /\ Len(w0) = n
        /\ \A i \in 1 .. n : w0[i] = w[i]
    BY <2>1, <2>2
  <2> HIDE DEF n, w0, y
  <2>4. Agree(v, A, w0, B)
    <3>1. Len(v) = n
      BY DEF n
    <3>2. ASSUME NEW i \in 1 .. n
          PROVE  (v[i] \in A <=> w0[i] \in B) /\ v[i].text = w0[i].text
      <4>1. i \in 1 .. Len(Append(v, x))
        BY <2>1
      <4> QED
        BY <2>1, <2>3, <4>1 DEF Agree
    <3> QED
      BY <2>3, <3>1, <3>2 DEF Agree
  <2>5. (x \in A <=> y \in B) /\ x.text = y.text
    <3>1. n + 1 \in 1 .. Len(Append(v, x))
      BY <2>1
    <3> QED
      BY <2>1, <3>1 DEF y, Agree
  <2> DEFINE fv == Filter(v, A)
             fw == Filter(w0, B)
  <2>6. fv \in Seq(T) /\ fw \in Seq(U)
    BY <2>3, FilterType
  <2>7. Len(fv) = Len(fw) /\ \A i \in 1 .. Len(fv) : fv[i].text = fw[i].text
    BY <1>2, <2>3, <2>4
  <2>8. Filter(Append(v, x), A) = IF x \in A THEN Append(fv, x) ELSE fv
    BY FilterAppend
  <2>9. Filter(w, B) = IF y \in B THEN Append(fw, y) ELSE fw
    BY <2>3, FilterAppend
  <2> HIDE DEF fv, fw
  <2> DEFINE av == Append(fv, x)
             aw == Append(fw, y)
  <2>10. Len(av) = Len(aw) /\ \A i \in 1 .. Len(av) : av[i].text = aw[i].text
    <3>1. /\ Len(av) = Len(fv) + 1 /\ Len(fv) \in Nat /\ av[Len(fv) + 1] = x
          /\ \A i \in 1 .. Len(fv) : av[i] = fv[i]
      BY <2>6
    <3>2. /\ Len(aw) = Len(fw) + 1 /\ aw[Len(fw) + 1] = y
          /\ \A i \in 1 .. Len(fw) : aw[i] = fw[i]
      BY <2>3, <2>6
    <3> HIDE DEF av, aw
    <3>3. \A i \in 1 .. Len(fv) + 1 : i = Len(fv) + 1 \/ i \in 1 .. Len(fv)
      BY <3>1
    <3> QED
      BY <2>5, <2>7, <3>1, <3>2, <3>3
  <2> HIDE DEF av, aw
  <2>11. CASE x \in A
    BY <2>5, <2>8, <2>9, <2>10, <2>11 DEF av, aw
  <2>12. CASE x \notin A
    BY <2>5, <2>7, <2>8, <2>9, <2>12
  <2> QED
    BY <2>11, <2>12
<1>3. Seq(T) \subseteq P
  <2> HIDE DEF P
  <2> QED
    BY <1>1, <1>2, SequenceInduction
<1>4. Good(s, t)
  <2> HIDE DEF Good
  <2> QED
    BY <1>3
<1>5. /\ Filter(s, A) \in Seq(T) /\ Filter(t, B) \in Seq(U)
  BY FilterType
<1>6. DOMAIN Filter(s, A) = 1 .. Len(Filter(s, A)) /\ DOMAIN Filter(t, B) = 1 .. Len(Filter(t, B))
  BY <1>5
<1> QED
  BY <1>4, <1>6 DEF Texts

\* What is in M comes after all that is in N: to put it last changes nothing.
ComesLast(t, M, N) ==
  \A i, j \in 1 .. Len(t) : i < j => ~(t[i] \in M /\ t[j] \in N)

LEMMA FilterParts ==
  ASSUME NEW T, NEW M, NEW N, NEW O, NEW s \in Seq(T),
         O = M \cup N, M \cap N = {}, ComesLast(s, M, N)
  PROVE  Filter(s, N) \o Filter(s, M) = Filter(s, O)
<1> DEFINE P == {t \in Seq(T) : ComesLast(t, M, N) =>
                   Filter(t, N) \o Filter(t, M) = Filter(t, O)}
<1>1. <<>> \in P
  <2>1. <<>> \o <<>> = <<>>
    OBVIOUS
  <2> QED
    BY <2>1, FilterEmpty, EmptySeq
<1>2. ASSUME NEW t \in Seq(T), NEW x \in T, t \in P PROVE Append(t, x) \in P
  <2> DEFINE u == Append(t, x)
             a == Filter(t, N)
             b == Filter(t, M)
             c == Filter(t, O)
  <2>0. u \in Seq(T)
    OBVIOUS
  <2> SUFFICES ASSUME ComesLast(u, M, N) PROVE Filter(u, N) \o Filter(u, M) = Filter(u, O)
    BY <2>0
  <2>1. /\ Len(u) = Len(t) + 1 /\ Len(t) \in Nat /\ u[Len(u)] = x
        /\ \A i \in 1 .. Len(t) : i \in 1 .. Len(u) /\ u[i] = t[i] /\ i < Len(u)
        /\ Len(u) \in 1 .. Len(u)
    OBVIOUS
  <2> HIDE DEF u
  <2>2. ComesLast(t, M, N)
    BY <2>1 DEF ComesLast
  <2>3. x \in N => \A i \in 1 .. Len(t) : t[i] \notin M
    BY <2>1 DEF ComesLast
  <2>4. a \o b = c
    BY <1>2, <2>2
  <2>5. /\ Filter(u, N) = IF x \in N THEN Append(a, x) ELSE a
        /\ Filter(u, M) = IF x \in M THEN Append(b, x) ELSE b
        /\ Filter(u, O) = IF x \in O THEN Append(c, x) ELSE c
    BY FilterAppend DEF u
  <2>6. a \in Seq(T) /\ b \in Seq(T) /\ c \in Seq(T)
    BY FilterType
  <2>7. CASE x \in N
    <3>1. ToSet(t) \cap M = {}
      BY <2>3, <2>7 DEF ToSet
    <3>2. b = <<>>
      BY <3>1, FilterNone
    <3>3. a \o b = a /\ Append(a, x) \o b = Append(a, x)
      <4> HIDE DEF a, b
      <4> QED
        BY <2>6, <3>2, ConcatEmptySeq
    <3> QED
      BY <2>4, <2>5, <2>7, <3>3
  <2>8. CASE x \in M
    <3>1. Append(a \o b, x) = a \o Append(b, x)
      <4> HIDE DEF a, b
      <4>1. Append(a \o b, x) = (a \o b) \o <<x>>
        BY <2>6, AppendIsConcat, ConcatProperties
      <4>2. Append(b, x) = b \o <<x>>
        BY <2>6, AppendIsConcat
      <4>3. a \in Seq(T) /\ b \in Seq(T) /\ <<x>> \in Seq(T)
        BY <2>6
      <4>4. (a \o b) \o <<x>> = a \o (b \o <<x>>)
        BY <4>3, ConcatAssociative
      <4> QED
        BY <4>1, <4>2, <4>4
    <3> QED
      BY <2>4, <2>5, <2>8, <3>1
  <2>9. CASE x \notin O
    BY <2>4, <2>5, <2>9
  <2> QED
    BY <2>7, <2>8, <2>9
<1>3. Seq(T) \subseteq P
  <2> HIDE DEF P
  <2> QED
    BY <1>1, <1>2, SequenceInduction
<1> QED
  BY <1>3

LEMMA FilterAll ==
  ASSUME NEW T, NEW S, NEW s \in Seq(T), ToSet(s) \subseteq S
  PROVE  Filter(s, S) = s
<1> DEFINE P == {t \in Seq(T) : ToSet(t) \subseteq S => Filter(t, S) = t}
<1>1. <<>> \in P
  BY FilterEmpty, EmptySeq
<1>2. ASSUME NEW t \in Seq(T), NEW x \in T, t \in P PROVE Append(t, x) \in P
  <2> DEFINE u == Append(t, x)
  <2>1. u \in Seq(T) /\ ToSet(u) = ToSet(t) \cup {x}
    BY SetOfAppend
  <2>2. Filter(u, S) = IF x \in S THEN Append(Filter(t, S), x) ELSE Filter(t, S)
    BY FilterAppend
  <2> HIDE DEF u
  <2>3. ToSet(u) \subseteq S => Filter(u, S) = u
    BY <1>2, <2>1, <2>2 DEF u
  <2> QED
    BY <2>1, <2>3 DEF u
<1>3. Seq(T) \subseteq P
  <2> HIDE DEF P
  <2> QED
    BY <1>1, <1>2, SequenceInduction
<1> QED
  BY <1>3

\* Every element of u is one of s or, further on, one of t.
Follows(u, s, t) ==
  \A i \in DOMAIN u : \/ i \in DOMAIN s /\ u[i] = s[i]
                      \/ \E k \in DOMAIN t : i = Len(s) + k /\ u[i] = t[k]

LEMMA SetOfConcat ==
  ASSUME NEW T, NEW s \in Seq(T), NEW t \in Seq(T)
  PROVE  /\ s \o t \in Seq(T) /\ ToSet(s \o t) = ToSet(s) \cup ToSet(t)
         /\ Follows(s \o t, s, t)
<1> DEFINE u == s \o t
<1>1. /\ u \in Seq(T) /\ DOMAIN u = 1 .. Len(u) /\ Len(u) = Len(s) + Len(t)
      /\ DOMAIN s = 1 .. Len(s) /\ DOMAIN t = 1 .. Len(t)
      /\ Len(s) \in Nat /\ Len(t) \in Nat
      /\ \A i \in 1 .. Len(s) : u[i] = s[i]
      /\ \A i \in 1 .. Len(t) : u[Len(s) + i] = t[i]
  OBVIOUS
<1> HIDE DEF u
<1>2. \A i \in DOMAIN u : \/ i \in DOMAIN s /\ u[i] = s[i]
                          \/ \E k \in DOMAIN t : i = Len(s) + k /\ u[i] = t[k]
  <2> TAKE i \in DOMAIN u
  <2>1. CASE i > Len(s)
    <3>1. i - Len(s) \in 1 .. Len(t) /\ i = Len(s) + (i - Len(s))
      BY <1>1, <2>1
    <3> QED
      BY <1>1, <3>1
  <2> QED
    BY <1>1, <2>1
<1>3. \A y \in ToSet(u) : y \in ToSet(s) \cup ToSet(t)
  BY <1>2 DEF ToSet
<1>4. \A i \in 1 .. Len(s) : s[i] \in ToSet(u)
  <2> TAKE i \in 1 .. Len(s)
  <2>1. i \in DOMAIN u /\ u[i] = s[i]
    BY <1>1
  <2> QED
    BY <2>1 DEF ToSet
<1>5. \A i \in 1 .. Len(t) : t[i] \in ToSet(u)
  <2> TAKE i \in 1 .. Len(t)
  <2>1. Len(s) + i \in DOMAIN u /\ u[Len(s) + i] = t[i]
    BY <1>1
  <2> QED
    BY <2>1 DEF ToSet
<1>6. ToSet(u) = ToSet(s) \cup ToSet(t)
  BY <1>1, <1>3, <1>4, <1>5 DEF ToSet
<1> QED
  BY <1>1, <1>2, <1>6 DEF u, Follows

-----------------------------------------------------------------------------
(* Restore *)

\* What can be said of an entry whoever created it.
Sound(m) ==
  /\ m \in Metas
  /\ m.base \in {NoId, Gone} \cup 1 .. m.id - 1
  /\ m.managed => m.base # NoId /\ m.type = "merge"

Ordered(entries) ==
  /\ entries \in Seq(Metas)
  /\ \A m \in ToSet(entries) : Sound(m)
  /\ \A i, j \in DOMAIN entries : i < j => entries[i].id < entries[j].id

OneEditor(entries) ==
  \A m, e \in ToSet(entries) :
    m.managed /\ e.managed /\ m.base = e.base => m = e

Indexed ==
  /\ Ordered(index) /\ OneEditor(index)
  /\ nextId \in Nat \ {0}
  /\ \A m \in ToSet(index) :
       /\ m.id \in 1 .. nextId - 1
       /\ m.id \in mine => m.type \in {"local", "merge"}
       /\ m.id \notin mine => m.text = m.id

\* The bases that cannot go without what is scoped to them: all, as long as
\* nothing was deleted, and those that are scoped to nothing themselves.
Steady == IF changed THEN Roots(source) ELSE Bases(source)

\* What /backup listed: what is still there is as it was, and with the base that
\* is no longer there what was scoped to it has gone.
Listed ==
  /\ Ordered(source) /\ OneEditor(source)
  /\ \A e \in ToSet(source) :
       /\ e.id \in 1 .. nextId - 1 /\ e.text = e.id
       /\ \A n \in mine : e.id < n
       /\ \A m \in ToSet(index) : m.id = e.id =>
            /\ m.base = e.base
            /\ e.base \in Steady => e.base \in Ids(index)

\* A bundle comes with the bases of what is in it.
Bundle(entries, listed, bases, bad) ==
  /\ Ordered(entries)
  /\ ToSet(entries) \subseteq ToSet(listed)
  /\ ~bad => \A e \in ToSet(entries) :
               e.base \in bases => e.base \in Ids(entries)

Untouched == ~changed /\ ~failed

Reading ==
  /\ backup \in [at : {"idle", "read"}, metas : Seq(Metas), bundle : Seq(Metas)]
  /\ backup.at = "read" =>
       /\ archive = Nothing
       /\ Bundle(backup.bundle, source, Steady, failed)
       /\ Ordered(backup.metas)
       /\ ToSet(backup.metas) \subseteq ToSet(source)
       /\ \A e \in ToSet(backup.bundle), m \in ToSet(backup.metas) : e.id < m.id
       /\ ~failed => \A e \in ToSet(source) :
                       \/ e \in ToSet(backup.bundle) \cup ToSet(backup.metas)
                       \/ e.id \notin Ids(index)
       /\ Untouched => index = source /\ source = backup.bundle \o backup.metas

Stored ==
  /\ ~failed => broken = {}
  /\ archive = Nothing => restore.at = "idle"
  /\ archive # Nothing =>
       /\ Bundle(archive, source, Steady, failed)
       /\ Untouched => archive = source /\ (restore.at = "idle" => index = source)

Restoring ==
  /\ restore = [at |-> restore.at, todo |-> restore.todo, restored |-> restore.restored]
  /\ restore.at \in {"idle", "create", "done"}
  /\ restore.at = "idle" => restore.todo = <<>> /\ restore.restored = NoRestored /\ mine = {}
  /\ restore.at = "done" => restore.todo = <<>>
  /\ restore.todo \in Seq(Metas)
  /\ ToSet(restore.todo) \subseteq ToSet(source)
  /\ \A i, j \in DOMAIN restore.todo :
       restore.todo[i].id = restore.todo[j].id => i = j
  /\ ~failed => \A j \in DOMAIN restore.todo :
       LET b == restore.todo[j].base
       IN b \in Steady =>
            \/ b \in DOMAIN restore.restored
            \/ \E i \in DOMAIN restore.todo : i < j /\ restore.todo[i].id = b

\* Who has got which new id.
Renamed ==
  LET new == restore.restored
  IN /\ DOMAIN new \subseteq Ids(source)
     /\ \A i \in DOMAIN restore.todo : restore.todo[i].id \notin DOMAIN new
     /\ \A i, j \in DOMAIN new : new[i] = new[j] => i = j
     /\ {new[i] : i \in DOMAIN new} = mine
     /\ mine \subseteq 1 .. nextId - 1
     /\ \A m \in ToSet(index) : m.id \in mine =>
          /\ m.base \in {NoId} \cup mine
          /\ \E e \in ToSet(source) :
               /\ e.id = m.text
               /\ ~failed /\ e.base \in Steady =>
                    e.base \in DOMAIN new /\ m.base = new[e.base]

Inert == {e \in Metas : e.type # "script"}

\* m is what became of the entry e of what was listed.
Paired(e, m, listed, new, made) ==
  /\ e \in ToSet(listed) /\ e.id \in DOMAIN new
  /\ m.id = new[e.id] /\ m.id \in made
  /\ m.text = e.text /\ m.enabled = TRUE /\ m.managed = e.managed
  /\ m.type = "merge" <=> e.type = "merge"
  /\ e.base = NoId => m.base = NoId
  /\ e.base \in Bases(listed) => e.base \in DOMAIN new /\ m.base = new[e.base]

\* created[j] is what became of done[j], and rest is what is left.
Became(done, created, entries, listed, rest, new, made) ==
  /\ entries = listed \o created
  /\ Len(done) = Len(created)
  /\ Filter(Split(listed), Inert) = done \o Filter(rest, Inert)
  /\ \A j \in 1 .. Len(done) : Paired(done[j], created[j], listed, new, made)

\* As long as nobody interferes, everything listed gets its counterpart.
Mirrored ==
  restore.at \in {"create", "done"} /\ Untouched /\ ~Unscoped(source) =>
    \E done, created \in Seq(Metas) :
      Became(done, created, index, source, restore.todo, restore.restored, mine)

RInv ==
  /\ Indexed /\ Listed /\ Reading /\ Stored /\ Restoring /\ Renamed
  /\ changes \in 0 .. MaxChanges


LEMMA SetOf ==
  ASSUME NEW T, NEW s \in Seq(T)
  PROVE  /\ DOMAIN s = 1 .. Len(s) /\ Len(s) \in Nat
         /\ ToSet(s) \subseteq T
         /\ \A i \in 1 .. Len(s) : s[i] \in ToSet(s)
         /\ \A y \in ToSet(s) : \E i \in 1 .. Len(s) : s[i] = y
BY DEF ToSet

LEMMA SetOfNone == ToSet(<<>>) = {}
BY DEF ToSet

LEMMA FirstAndRest ==
  ASSUME NEW T, NEW s \in Seq(T), s # <<>>
  PROVE  /\ Head(s) \in T /\ Tail(s) \in Seq(T) /\ Head(s) = s[1]
         /\ Len(Tail(s)) = Len(s) - 1 /\ Len(Tail(s)) \in Nat
         /\ \A i \in 1 .. Len(Tail(s)) : Tail(s)[i] = s[i + 1]
         /\ s = <<Head(s)>> \o Tail(s)
         /\ ToSet(s) = {Head(s)} \cup ToSet(Tail(s))
<1>1. Len(s) \in Nat /\ Len(s) # 0 /\ DOMAIN s = 1 .. Len(s)
  BY EmptySeq
<1>2. /\ Head(s) \in T /\ Tail(s) \in Seq(T) /\ Head(s) = s[1]
      /\ Len(Tail(s)) = Len(s) - 1 /\ Len(Tail(s)) \in Nat
      /\ \A i \in 1 .. Len(Tail(s)) : Tail(s)[i] = s[i + 1]
      /\ DOMAIN Tail(s) = 1 .. Len(Tail(s))
  BY <1>1
<1>3. s = <<Head(s)>> \o Tail(s)
  BY <1>1, <1>2
<1>4. ToSet(s) = {Head(s)} \cup ToSet(Tail(s))
  <2> DEFINE r == Tail(s)
             h == Head(s)
  <2>1. /\ h = s[1] /\ Len(r) = Len(s) - 1 /\ DOMAIN r = 1 .. Len(r)
        /\ \A i \in 1 .. Len(r) : r[i] = s[i + 1]
    BY <1>2
  <2> HIDE DEF r, h
  <2>2. \A y \in ToSet(s) : y = h \/ y \in ToSet(r)
    <3> SUFFICES ASSUME NEW i \in 1 .. Len(s), s[i] # h PROVE s[i] \in ToSet(r)
      BY <1>1 DEF ToSet
    <3>1. i - 1 \in 1 .. Len(r) /\ r[i - 1] = s[i]
      BY <1>1, <2>1
    <3> QED
      BY <2>1, <3>1 DEF ToSet
  <2>3. h \in ToSet(s)
    BY <1>1, <2>1 DEF ToSet
  <2>4. \A y \in ToSet(r) : y \in ToSet(s)
    <3> SUFFICES ASSUME NEW i \in 1 .. Len(r) PROVE r[i] \in ToSet(s)
      BY <2>1 DEF ToSet
    <3>1. i + 1 \in 1 .. Len(s) /\ r[i] = s[i + 1]
      BY <1>1, <2>1
    <3> QED
      BY <1>1, <3>1 DEF ToSet
  <2>5. ToSet(s) = {h} \cup ToSet(r)
    BY <2>2, <2>3, <2>4
  <2> QED
    BY <2>5 DEF h, r
<1> QED
  BY <1>2, <1>3, <1>4

LEMMA IdsOf ==
  ASSUME NEW T, NEW s \in Seq(T)
  PROVE  /\ \A m \in ToSet(s) : m.id \in Ids(s)
         /\ \A i \in Ids(s) : \E m \in ToSet(s) : m.id = i
BY SetOf DEF Ids

LEMMA OrderedFacts ==
  ASSUME NEW s, Ordered(s)
  PROVE  /\ s \in Seq(Metas) /\ DOMAIN s = 1 .. Len(s) /\ Len(s) \in Nat
         /\ \A i \in 1 .. Len(s) : s[i] \in ToSet(s) /\ s[i] \in Metas /\ s[i].id \in Nat
         /\ \A i, j \in 1 .. Len(s) : i < j => s[i].id < s[j].id
         /\ \A i, j \in 1 .. Len(s) : s[i].id = s[j].id => i = j
         /\ \A m \in ToSet(s) : m \in Metas /\ m.id \in Nat /\ Sound(m)
         /\ \A m \in ToSet(s) : \E i \in 1 .. Len(s) : s[i] = m
<1>1. s \in Seq(Metas)
  BY DEF Ordered
<1>2. /\ DOMAIN s = 1 .. Len(s) /\ Len(s) \in Nat /\ ToSet(s) \subseteq Metas
      /\ \A i \in 1 .. Len(s) : s[i] \in ToSet(s)
      /\ \A m \in ToSet(s) : \E i \in 1 .. Len(s) : s[i] = m
  BY <1>1, SetOf
<1>3. \A m \in Metas : m.id \in Nat
  BY DEF Metas
<1>4. \A i, j \in 1 .. Len(s) : i < j => s[i].id < s[j].id
  BY <1>2 DEF Ordered
<1>5. \A i \in 1 .. Len(s) : s[i] \in Metas /\ s[i].id \in Nat
  BY <1>2, <1>3
<1>6. \A i, j \in 1 .. Len(s) : s[i].id = s[j].id => i = j
  <2> TAKE i, j \in 1 .. Len(s)
  <2>1. i < j => s[i].id < s[j].id
    BY <1>4
  <2>2. j < i => s[j].id < s[i].id
    BY <1>4
  <2> QED
    BY <1>2, <1>5, <2>1, <2>2
<1>7. \A m \in ToSet(s) : Sound(m)
  BY DEF Ordered
<1> QED
  BY <1>1, <1>2, <1>3, <1>4, <1>5, <1>6, <1>7

LEMMA Unique ==
  ASSUME NEW s, Ordered(s), NEW m \in ToSet(s), NEW e \in ToSet(s), m.id = e.id
  PROVE  m = e
  BY OrderedFacts

LEMMA OrderedFilter ==
  ASSUME NEW s, Ordered(s), NEW S
  PROVE  Ordered(Filter(s, S)) /\ ToSet(Filter(s, S)) = ToSet(s) \cap S
<1> DEFINE r == Filter(s, S)
<1>1. s \in Seq(Metas) /\ r \in Seq(Metas) /\ ToSet(r) = ToSet(s) \cap S
  BY OrderedFacts, FilterType, FilterRange
<1>2. \A i, j \in 1 .. Len(r) : i < j =>
        \E k, l \in 1 .. Len(s) : k < l /\ s[k] = r[i] /\ s[l] = r[j]
  BY <1>1, FilterOrder
<1> HIDE DEF r
<1>3. ASSUME NEW i \in DOMAIN r, NEW j \in DOMAIN r, i < j
      PROVE  r[i].id < r[j].id
  <2>1. DOMAIN r = 1 .. Len(r)
    BY <1>1
  <2>2. i \in 1 .. Len(r) /\ j \in 1 .. Len(r)
    BY <2>1
  <2>3. PICK k \in 1 .. Len(s), l \in 1 .. Len(s) : k < l /\ s[k] = r[i] /\ s[l] = r[j]
    BY <1>2, <1>3, <2>2, Zenon
  <2>4. s[k].id < s[l].id
    BY <2>3, OrderedFacts
  <2> QED
    BY <2>3, <2>4
<1>4. Ordered(r)
  BY <1>1, <1>3, OrderedFacts DEF Ordered
<1> QED
  BY <1>1, <1>4 DEF r

LEMMA OrderedAppend ==
  ASSUME NEW s, Ordered(s), NEW m, Sound(m), \A e \in ToSet(s) : e.id < m.id
  PROVE  Ordered(Append(s, m)) /\ ToSet(Append(s, m)) = ToSet(s) \cup {m}
<1> DEFINE r == Append(s, m)
<1>1. s \in Seq(Metas) /\ m \in Metas /\ r \in Seq(Metas)
  BY DEF Ordered, Sound
<1>2. ToSet(r) = ToSet(s) \cup {m}
  BY <1>1, SetOfAppend
<1>3. /\ DOMAIN r = 1 .. Len(s) + 1 /\ Len(s) \in Nat /\ DOMAIN s = 1 .. Len(s)
      /\ r[Len(s) + 1] = m /\ \A i \in 1 .. Len(s) : r[i] = s[i]
  BY <1>1
<1> HIDE DEF r
<1>4. ASSUME NEW i \in DOMAIN r, NEW j \in DOMAIN r, i < j
      PROVE  r[i].id < r[j].id
  <2>1. i \in 1 .. Len(s)
    BY <1>3, <1>4
  <2>2. s[i] \in ToSet(s)
    BY <1>1, <2>1, SetOf
  <2>3. CASE j \in 1 .. Len(s)
    BY <1>3, <1>4, <2>1, <2>3, OrderedFacts
  <2>4. CASE j = Len(s) + 1
    BY <1>3, <2>1, <2>2, <2>4
  <2> QED
    BY <1>3, <2>3, <2>4
<1>5. Ordered(r)
  BY <1>1, <1>2, <1>4, OrderedFacts DEF Ordered
<1> QED
  BY <1>2, <1>5 DEF r

LEMMA OrderedTail ==
  ASSUME NEW s, Ordered(s), s # <<>>
  PROVE  /\ Ordered(Tail(s))
         /\ \A e \in ToSet(Tail(s)) : Head(s).id < e.id
         /\ Head(s) \in ToSet(s) /\ Head(s) \in Metas
         /\ ToSet(s) = {Head(s)} \cup ToSet(Tail(s))
<1> DEFINE r == Tail(s)
           h == Head(s)
<1>1. /\ s \in Seq(Metas) /\ r \in Seq(Metas) /\ h = s[1] /\ h \in Metas
      /\ Len(r) = Len(s) - 1 /\ Len(r) \in Nat /\ Len(s) \in Nat
      /\ \A i \in 1 .. Len(r) : r[i] = s[i + 1]
      /\ ToSet(s) = {h} \cup ToSet(r)
  <2>1. s \in Seq(Metas) /\ Len(s) \in Nat
    BY OrderedFacts
  <2> QED
    BY <2>1, FirstAndRest
<1> HIDE DEF r, h
<1>2. Ordered(r)
  <2>1. DOMAIN r = 1 .. Len(r)
    BY <1>1
  <2>2. ASSUME NEW i \in DOMAIN r, NEW j \in DOMAIN r, i < j
        PROVE  r[i].id < r[j].id
    <3>1. i + 1 \in 1 .. Len(s) /\ j + 1 \in 1 .. Len(s) /\ i + 1 < j + 1
      BY <1>1, <2>1, <2>2
    <3>2. s[i + 1].id < s[j + 1].id
      BY <3>1, OrderedFacts
    <3> QED
      BY <1>1, <2>1, <3>2
  <2> QED
    BY <1>1, <2>2, OrderedFacts DEF Ordered
<1>3. ASSUME NEW e \in ToSet(r) PROVE h.id < e.id
  <2>1. PICK i \in 1 .. Len(r) : r[i] = e
    BY <1>1, SetOf
  <2>2. 1 \in 1 .. Len(s) /\ i + 1 \in 1 .. Len(s) /\ 1 < i + 1
    BY <1>1
  <2> QED
    BY <1>1, <2>1, <2>2, OrderedFacts
<1> QED
  BY <1>1, <1>2, <1>3 DEF r, h

\* Everything is there once, a base before the overlays scoped to it.
LEMMA SplitOrder ==
  ASSUME NEW s, Ordered(s)
  PROVE  LET r == Split(s)
         IN /\ r \in Seq(Metas) /\ ToSet(r) = ToSet(s)
            /\ \A i, j \in 1 .. Len(r) : r[i].id = r[j].id => i = j
            /\ \A j \in 1 .. Len(r) : \A b \in ToSet(s) :
                 b.id = r[j].base /\ ~b.managed =>
                   \E i \in 1 .. Len(r) : i < j /\ r[i] = b
<1> DEFINE M == {e \in ToSet(s) : e.managed}
           u == Filter(s, ToSet(s) \ M)
           v == Filter(s, M)
           r == u \o v
<1>1. Split(s) = r
  BY DEF Split
<1>2. /\ Ordered(u) /\ Ordered(v) /\ ToSet(u) = ToSet(s) \ M /\ ToSet(v) = M
  BY OrderedFilter
<1>3. u \in Seq(Metas) /\ v \in Seq(Metas)
  BY <1>2, OrderedFacts
<1> HIDE DEF u, v, M
<1>4. /\ r \in Seq(Metas) /\ Len(r) = Len(u) + Len(v)
      /\ Len(u) \in Nat /\ Len(v) \in Nat
      /\ \A i \in 1 .. Len(u) : i \in 1 .. Len(r) /\ r[i] = u[i]
      /\ \A i \in 1 .. Len(v) : Len(u) + i \in 1 .. Len(r) /\ r[Len(u) + i] = v[i]
      /\ DOMAIN u = 1 .. Len(u) /\ DOMAIN v = 1 .. Len(v) /\ DOMAIN r = 1 .. Len(r)
  BY <1>3
<1> HIDE DEF r
<1>5. \A i \in 1 .. Len(r) :
        \/ i \in 1 .. Len(u) /\ r[i] = u[i]
        \/ \E k \in 1 .. Len(v) : i = Len(u) + k /\ r[i] = v[k]
  <2> TAKE i \in 1 .. Len(r)
  <2>1. CASE i > Len(u)
    <3>1. i - Len(u) \in 1 .. Len(v) /\ i = Len(u) + (i - Len(u))
      BY <1>4, <2>1
    <3> QED
      BY <1>4, <3>1
  <2> QED
    BY <1>4, <2>1
<1>6. /\ \A i \in 1 .. Len(u) : u[i] \in ToSet(s) /\ u[i] \notin M
      /\ \A i \in 1 .. Len(v) : v[i] \in ToSet(s) /\ v[i] \in M
  <2>1. M \subseteq ToSet(s)
    BY DEF M
  <2>2. \A i \in 1 .. Len(u) : u[i] \in ToSet(u)
    BY <1>3, SetOf
  <2>3. \A i \in 1 .. Len(v) : v[i] \in ToSet(v)
    BY <1>3, SetOf
  <2> QED
    BY <1>2, <2>1, <2>2, <2>3
<1>7. ToSet(r) = ToSet(s)
  <2>1. ASSUME NEW y \in ToSet(r) PROVE y \in ToSet(s)
    <3>1. PICK i \in 1 .. Len(r) : r[i] = y
      BY <1>4, SetOf
    <3> QED
      BY <1>5, <1>6, <3>1
  <2>2. ASSUME NEW y \in ToSet(s) PROVE y \in ToSet(r)
    <3>1. CASE y \in M
      <4>1. PICK k \in 1 .. Len(v) : v[k] = y
        BY <1>2, <1>3, <3>1, SetOf
      <4> QED
        BY <1>4, <4>1 DEF ToSet
    <3>2. CASE y \notin M
      <4>1. PICK k \in 1 .. Len(u) : u[k] = y
        BY <1>2, <1>3, <3>2, SetOf
      <4> QED
        BY <1>4, <4>1 DEF ToSet
    <3> QED
      BY <3>1, <3>2
  <2> QED
    BY <2>1, <2>2
<1>8. \A k, l \in 1 .. Len(u) : u[k].id = u[l].id => k = l
  BY <1>2, OrderedFacts
<1>9. \A k, l \in 1 .. Len(v) : v[k].id = v[l].id => k = l
  BY <1>2, OrderedFacts
<1>10. \A k \in 1 .. Len(u), l \in 1 .. Len(v) : u[k].id # v[l].id
  BY <1>6, Unique
<1>11. ASSUME NEW i \in 1 .. Len(r), NEW j \in 1 .. Len(r), r[i].id = r[j].id
       PROVE  i = j
  <2>1. CASE i \in 1 .. Len(u) /\ r[i] = u[i]
    BY <1>5, <1>8, <1>10, <1>11, <2>1
  <2>2. ASSUME NEW k \in 1 .. Len(v), i = Len(u) + k, r[i] = v[k]
        PROVE  i = j
    BY <1>5, <1>9, <1>10, <1>11, <2>2
  <2> QED
    BY <1>5, <2>1, <2>2
<1>12. ASSUME NEW j \in 1 .. Len(r), NEW b \in ToSet(s), b.id = r[j].base, ~b.managed
       PROVE  \E i \in 1 .. Len(r) : i < j /\ r[i] = b
  <2>1. b \in ToSet(u)
    BY <1>2, <1>12 DEF M
  <2>2. PICK i \in 1 .. Len(u) : u[i] = b
    BY <1>3, <2>1, SetOf
  <2>3. i \in 1 .. Len(r) /\ r[i] = b
    BY <1>4, <2>2
  <2>4. i < j
    <3>1. CASE j \in 1 .. Len(u) /\ r[j] = u[j]
      <4>1. u[j] \in ToSet(u) /\ Sound(u[j])
        BY <1>2, <3>1, OrderedFacts
      <4>2. b.id \in Nat /\ u[j].id \in Nat
        BY <1>2, <2>1, <3>1, OrderedFacts
      <4>3. b.id < u[j].id
        BY <1>12, <3>1, <4>1, <4>2, RestoreAssumption DEF Sound
      <4>4. ~(j < i) /\ i # j
        <5>1. j < i => u[j].id < u[i].id
          BY <1>2, <3>1, OrderedFacts
        <5> QED
          BY <2>2, <4>2, <4>3, <5>1
      <4> QED
        BY <3>1, <4>4
    <3>2. CASE \E k \in 1 .. Len(v) : j = Len(u) + k
      BY <1>4, <3>2
    <3> QED
      BY <1>5, <3>1, <3>2
  <2> QED
    BY <2>3, <2>4
<1>13. /\ r \in Seq(Metas) /\ ToSet(r) = ToSet(s)
       /\ \A i, j \in 1 .. Len(r) : r[i].id = r[j].id => i = j
       /\ \A j \in 1 .. Len(r) : \A b \in ToSet(s) :
            b.id = r[j].base /\ ~b.managed =>
              \E i \in 1 .. Len(r) : i < j /\ r[i] = b
  BY <1>4, <1>7, <1>11, <1>12
<1> QED
  BY <1>1, <1>13

-----------------------------------------------------------------------------
LEMMA SteadyBases ==
  /\ Roots(source) \subseteq Steady /\ Steady \subseteq Bases(source)
  /\ ~changed => Steady = Bases(source)
BY DEF Steady, Roots, Bases

LEMMA RestoreInitInv == RestoreInit => RInv
<1> SUFFICES ASSUME RestoreInit PROVE RInv
  OBVIOUS
<1>1. /\ index \in Registries /\ nextId = Len(index) + 1 /\ broken = {}
      /\ archive = Nothing /\ changes = 0 /\ source = <<>> /\ mine = {}
      /\ backup = [at |-> "idle", metas |-> <<>>, bundle |-> <<>>]
      /\ restore = [at |-> "idle", todo |-> <<>>, restored |-> NoRestored]
  BY DEF RestoreInit, IdleBackup, IdleRestore
<1>2. /\ index \in Seq(Metas) /\ DOMAIN index = 1 .. Len(index) /\ Len(index) \in Nat
      /\ \A i \in 1 .. Len(index) :
           /\ index[i] \in Metas /\ index[i].id = i /\ index[i].text = i
           /\ index[i].base \in {NoId, Gone} \cup 1 .. i - 1
           /\ index[i].managed =>
                index[i].base # NoId /\ index[i].type = "merge"
      /\ \A i, j \in 1 .. Len(index) :
           index[i].managed /\ index[j].managed /\ index[i].base = index[j].base => i = j
  <2>1. index \in Seq(Metas)
    BY <1>1, RestoreAssumption
  <2>2. DOMAIN index = 1 .. Len(index) /\ Len(index) \in Nat
        /\ \A i \in 1 .. Len(index) : index[i] \in Metas
    BY <2>1
  <2> QED
    BY <1>1, <2>1, <2>2, RestoreAssumption
<1>3. \A m \in ToSet(index) : \E i \in 1 .. Len(index) : index[i] = m
  BY <1>2, SetOf
<1>4. \A m \in ToSet(index) : Sound(m)
  BY <1>2, <1>3 DEF Sound
<1>5. Ordered(index)
  <2>1. \A i, j \in DOMAIN index : i < j => index[i].id < index[j].id
    BY <1>2
  <2> QED
    BY <1>2, <1>4, <2>1 DEF Ordered
<1>6. OneEditor(index)
  BY <1>2, <1>3 DEF OneEditor
<1>7. Indexed
  <2>1. \A m \in ToSet(index) : m.id \in 1 .. nextId - 1 /\ m.text = m.id
    BY <1>1, <1>2, <1>3
  <2>2. nextId \in Nat \ {0}
    BY <1>1, <1>2
  <2> QED
    BY <1>1, <1>5, <1>6, <2>1, <2>2 DEF Indexed
<1>8. Ordered(<<>>) /\ OneEditor(<<>>)
  BY SetOfNone, EmptySeq DEF Ordered, OneEditor
<1>9. Listed
  BY <1>1, <1>8, SetOfNone DEF Listed
<1>10. Reading
  BY <1>1, EmptySeq DEF Reading
<1>11. Stored
  BY <1>1 DEF Stored
<1>12. Restoring
  BY <1>1, SetOfNone, EmptySeq DEF Restoring
<1>13. Renamed
  <2>1. DOMAIN NoRestored = {}
    BY DEF NoRestored
  <2>2. DOMAIN <<>> = {}
    OBVIOUS
  <2>3. nextId \in Nat
    BY <1>1, <1>2
  <2> QED
    BY <1>1, <2>1, <2>2, <2>3 DEF Renamed
<1> QED
  BY <1>1, <1>7, <1>9, <1>10, <1>11, <1>12, <1>13, RestoreAssumption DEF RInv

LEMMA ListStep == RInv /\ ListAll => RInv'
<1> SUFFICES ASSUME RInv, ListAll PROVE RInv'
  OBVIOUS
<1>1. /\ backup.at = "idle" /\ archive = Nothing
      /\ backup' = [at |-> "read", metas |-> index, bundle |-> <<>>]
      /\ source' = index /\ changed' = FALSE
      /\ UNCHANGED <<index, broken, nextId, archive, restore, changes, mine>>
  BY DEF ListAll
<1>2. failed' = (broken # {})
  BY DEF ListAll
<1>3. /\ restore.at = "idle" /\ mine = {} /\ restore.todo = <<>>
      /\ restore.restored = NoRestored
  BY <1>1 DEF RInv, Stored, Restoring
<1>4. Indexed'
  BY <1>1 DEF RInv, Indexed
<1>5. Listed'
  <2>1. Ordered(index) /\ OneEditor(index)
    BY DEF RInv, Indexed
  <2>2. \A e \in ToSet(index) : e.id \in 1 .. nextId - 1 /\ e.text = e.id
    BY <1>3 DEF RInv, Indexed
  <2>3. \A e, m \in ToSet(index) : m.id = e.id => m = e
    BY <2>1, Unique
  <2>4. \A b \in Steady' : b \in Ids(index)
    BY <1>1, <2>1, OrderedFacts, IdsOf DEF Bases, Steady
  <2> QED
    BY <1>1, <1>3, <2>1, <2>2, <2>3, <2>4 DEF Listed
<1>6. Reading'
  <2>1. Ordered(<<>>) /\ ToSet(<<>>) = {}
    BY SetOfNone, EmptySeq DEF Ordered
  <2>2. Bundle(<<>>, index, Steady', failed')
    BY <2>1 DEF Bundle
  <2>3. index \in Seq(Metas) /\ Ordered(index)
    BY OrderedFacts DEF RInv, Indexed
  <2>4. index = <<>> \o index
    BY <2>3, ConcatEmptySeq
  <2>5. backup' \in [at : {"idle", "read"}, metas : Seq(Metas), bundle : Seq(Metas)]
    BY <1>1, <2>3, EmptySeq
  <2>6. backup'.at = "read" /\ backup'.metas = index /\ backup'.bundle = <<>>
    BY <1>1
  <2> QED
    BY <1>1, <2>1, <2>2, <2>3, <2>4, <2>5, <2>6 DEF Reading
<1>7. Stored'
  BY <1>1, <1>2, <1>3 DEF RInv, Stored
<1>8. Restoring'
  <2>1. DOMAIN <<>> = {} /\ ToSet(<<>>) = {} /\ <<>> \in Seq(Metas)
    BY SetOfNone, EmptySeq
  <2>2. restore = [at |-> restore.at, todo |-> restore.todo, restored |-> restore.restored]
    BY DEF RInv, Restoring
  <2> QED
    BY <1>1, <1>3, <2>1, <2>2 DEF Restoring
<1>9. Renamed'
  <2>1. DOMAIN NoRestored = {} /\ DOMAIN <<>> = {}
    BY DEF NoRestored
  <2> QED
    BY <1>1, <1>3, <2>1 DEF RInv, Renamed
<1> QED
  BY <1>1, <1>4, <1>5, <1>6, <1>7, <1>8, <1>9 DEF RInv

LEMMA ReadStep == RInv /\ Read => RInv'
<1> SUFFICES ASSUME RInv, Read PROVE RInv'
  OBVIOUS
<1> DEFINE h == Head(backup.metas)
           rest == Tail(backup.metas)
           grown == IF Readable(h.id) THEN Append(backup.bundle, h) ELSE backup.bundle
<1>1. /\ backup.at = "read" /\ backup.metas # <<>>
      /\ backup' = [backup EXCEPT !.metas = rest, !.bundle = grown]
      /\ UNCHANGED <<index, broken, nextId, archive, restore, changes, source,
                     mine, changed, failed>>
  BY DEF Read
<1>s. Steady' = Steady
  BY <1>1 DEF Steady
<1>2. /\ backup \in [at : {"idle", "read"}, metas : Seq(Metas), bundle : Seq(Metas)]
      /\ archive = Nothing
      /\ Bundle(backup.bundle, source, Steady, failed)
      /\ Ordered(backup.metas)
      /\ ToSet(backup.metas) \subseteq ToSet(source)
      /\ \A e \in ToSet(backup.bundle), m \in ToSet(backup.metas) : e.id < m.id
      /\ ~failed => \A e \in ToSet(source) :
                      \/ e \in ToSet(backup.bundle) \cup ToSet(backup.metas)
                      \/ e.id \notin Ids(index)
      /\ Untouched => index = source /\ source = backup.bundle \o backup.metas
  BY <1>1, <1>s DEF RInv, Reading
<1>3. Indexed' /\ Listed' /\ Stored' /\ Restoring' /\ Renamed'
  BY <1>1, <1>s DEF RInv, Indexed, Listed, Stored, Restoring, Renamed, Untouched, Bundle
<1>4. /\ backup'.at = "read" /\ backup'.metas = rest /\ backup'.bundle = grown
      /\ backup' = [at |-> "read", metas |-> rest, bundle |-> grown]
  BY <1>1, <1>2
<1>5. /\ Ordered(rest) /\ \A e \in ToSet(rest) : h.id < e.id
      /\ h \in ToSet(backup.metas) /\ h \in Metas
      /\ ToSet(backup.metas) = {h} \cup ToSet(rest)
  BY <1>1, <1>2, OrderedTail
<1>6. /\ Ordered(backup.bundle) /\ ToSet(backup.bundle) \subseteq ToSet(source)
      /\ ~failed => \A e \in ToSet(backup.bundle) :
                      e.base \in Steady => e.base \in Ids(backup.bundle)
  BY <1>2 DEF Bundle
<1>7. h \in ToSet(source) /\ Sound(h)
  BY <1>2, <1>5, OrderedFacts
<1>8. /\ Ordered(Append(backup.bundle, h))
      /\ ToSet(Append(backup.bundle, h)) = ToSet(backup.bundle) \cup {h}
  BY <1>2, <1>5, <1>6, <1>7, OrderedAppend
<1>9. /\ Ordered(grown)
      /\ ToSet(grown) = IF Readable(h.id) THEN ToSet(backup.bundle) \cup {h}
                        ELSE ToSet(backup.bundle)
  BY <1>6, <1>8
<1>10. grown \in Seq(Metas) /\ rest \in Seq(Metas)
  BY <1>5, <1>9, OrderedFacts
<1>11. ~failed => (Readable(h.id) <=> h.id \in Ids(index))
  BY DEF Readable, RInv, Stored
<1> HIDE DEF h, rest, grown
\* the base has been read before, and has been readable
<1>12. ASSUME ~failed, NEW e \in ToSet(grown), e.base \in Steady
       PROVE  e.base \in Ids(grown)
  <2>1. CASE e \in ToSet(backup.bundle)
    <3>1. PICK b \in ToSet(backup.bundle) : b.id = e.base
      BY <1>2, <1>6, <1>12, <2>1, IdsOf
    <3>2. b \in ToSet(grown)
      BY <1>9, <3>1
    <3> QED
      BY <1>10, <3>1, <3>2, IdsOf
  <2>2. CASE e = h /\ Readable(h.id)
    <3>1. h.id \in Ids(index)
      BY <1>11, <1>12, <2>2
    <3>2. PICK m \in ToSet(index) : m.id = h.id
      BY <3>1, IdsOf, OrderedFacts DEF RInv, Indexed
    <3>3. h.base \in Ids(index)
      BY <1>s, <1>7, <1>12, <2>2, <3>2 DEF RInv, Listed
    <3>4. PICK b \in ToSet(source) : b.id = h.base
      BY <1>12, <2>2, SteadyBases DEF Bases
    <3>5. b.id < h.id /\ b.id \in Nat /\ h.id \in Nat
      <4>1. b.id \in Nat
        BY <3>4, OrderedFacts DEF RInv, Listed
      <4>2. h.id \in Nat
        BY <1>s, <1>7, OrderedFacts DEF RInv, Listed
      <4> QED
        BY <1>7, <3>4, <4>1, <4>2, RestoreAssumption DEF Sound
    <3>6. b \notin ToSet(backup.metas)
      BY <1>5, <3>5
    <3>7. b \in ToSet(backup.bundle)
      BY <1>2, <1>12, <3>3, <3>4, <3>6
    <3>8. b \in ToSet(grown)
      BY <1>9, <3>7
    <3> QED
      BY <1>10, <2>2, <3>4, <3>8, IdsOf
  <2> QED
    BY <1>9, <2>1, <2>2
<1>13. Bundle(grown, source, Steady, failed)
  BY <1>6, <1>7, <1>9, <1>12 DEF Bundle
<1>14. \A e \in ToSet(grown), m \in ToSet(rest) : e.id < m.id
  BY <1>2, <1>5, <1>9
<1>15. ~failed => \A e \in ToSet(source) :
         e \in ToSet(grown) \cup ToSet(rest) \/ e.id \notin Ids(index)
  BY <1>2, <1>5, <1>9, <1>11
<1>16. Untouched => index = source /\ source = grown \o rest
  <2> SUFFICES ASSUME Untouched PROVE source = grown \o rest
    BY <1>2
  <2>1. h.id \in Ids(index)
    BY <1>s, <1>2, <1>7, IdsOf, OrderedFacts DEF RInv, Listed
  <2>2. grown = Append(backup.bundle, h)
    BY <1>11, <2>1 DEF Untouched, grown
  <2>3. backup.metas = <<h>> \o rest
    BY <1>1, <1>2, FirstAndRest DEF h, rest
  <2>4. grown = backup.bundle \o <<h>>
    BY <1>2, <1>5, <2>2, AppendIsConcat
  <2>5. (backup.bundle \o <<h>>) \o rest = backup.bundle \o (<<h>> \o rest)
    <3>1. <<h>> \in Seq(Metas)
      BY <1>5
    <3> QED
      BY <1>2, <1>10, <3>1, ConcatAssociative
  <2> QED
    BY <1>2, <2>3, <2>4, <2>5
<1>17. Untouched' <=> Untouched
  BY <1>1 DEF Untouched
<1>18. Reading'
  <2>1. backup' \in [at : {"idle", "read"}, metas : Seq(Metas), bundle : Seq(Metas)]
    BY <1>4, <1>10
  <2>2. ToSet(rest) \subseteq ToSet(source)
    BY <1>2, <1>5
  <2>3. failed' = failed
    BY <1>1
  <2> QED
    BY <1>1, <1>s, <1>2, <1>4, <1>5, <1>13, <1>14, <1>15, <1>16, <1>17, <2>1, <2>2, <2>3
    DEF Reading
<1> QED
  BY <1>1, <1>3, <1>18 DEF RInv

LEMMA PutStep == RInv /\ Put => RInv'
<1> SUFFICES ASSUME RInv, Put PROVE RInv'
  OBVIOUS
<1>1. /\ backup.at = "read" /\ backup.metas = <<>>
      /\ archive' = backup.bundle
      /\ backup' = [at |-> "idle", metas |-> <<>>, bundle |-> <<>>]
      /\ UNCHANGED <<index, broken, nextId, restore, changes, source, mine,
                     changed, failed>>
  BY DEF Put, IdleBackup
<1>s. Steady' = Steady
  BY <1>1 DEF Steady
<1>2. /\ backup \in [at : {"idle", "read"}, metas : Seq(Metas), bundle : Seq(Metas)]
      /\ archive = Nothing
      /\ Bundle(backup.bundle, source, Steady, failed)
      /\ Untouched => index = source /\ source = backup.bundle \o backup.metas
  BY <1>1, <1>s DEF RInv, Reading
<1>3. Indexed' /\ Listed' /\ Restoring' /\ Renamed'
  BY <1>1, <1>s DEF RInv, Indexed, Listed, Restoring, Renamed
<1>4. Reading'
  BY <1>1, <1>s, EmptySeq DEF Reading
<1>5. Stored'
  <2>1. Untouched => backup.bundle = source /\ index = source
    BY <1>1, <1>2, ConcatEmptySeq
  <2>2. Untouched' <=> Untouched
    BY <1>1 DEF Untouched
  <2>3. restore.at = "idle" /\ (~failed => broken = {})
    BY <1>s, <1>2 DEF RInv, Stored
  <2> QED
    BY <1>1, <1>s, <1>2, <2>1, <2>2, <2>3 DEF Stored
<1> QED
  BY <1>1, <1>3, <1>4, <1>5 DEF RInv

LEMMA GetBundleStep == RInv /\ GetBundle => RInv'
<1> SUFFICES ASSUME RInv, GetBundle PROVE RInv'
  OBVIOUS
<1> DEFINE r == Split(archive)
<1>1. /\ restore.at = "idle" /\ mine = {} /\ archive # Nothing
      /\ restore' = [at |-> "create", todo |-> r, restored |-> NoRestored]
      /\ UNCHANGED <<index, broken, nextId, archive, backup, changes, source, mine,
                     changed, failed>>
  BY DEF GetBundle
<1>s. Steady' = Steady
  BY <1>1 DEF Steady
<1>2. /\ Ordered(archive) /\ ToSet(archive) \subseteq ToSet(source)
      /\ ~failed => \A e \in ToSet(archive) :
                      e.base \in Steady => e.base \in Ids(archive)
  BY <1>1, <1>s DEF RInv, Stored, Bundle
<1>3. /\ r \in Seq(Metas) /\ ToSet(r) = ToSet(archive)
      /\ \A i, j \in 1 .. Len(r) : r[i].id = r[j].id => i = j
      /\ \A j \in 1 .. Len(r) : \A b \in ToSet(archive) :
           b.id = r[j].base /\ ~b.managed =>
             \E i \in 1 .. Len(r) : i < j /\ r[i] = b
  BY <1>2, SplitOrder
<1> HIDE DEF r
<1>4. /\ DOMAIN r = 1 .. Len(r)
      /\ \A j \in 1 .. Len(r) : r[j] \in ToSet(r)
  BY <1>3, SetOf
<1>5. Indexed' /\ Listed' /\ Reading' /\ Stored'
  BY <1>1, <1>s DEF RInv, Indexed, Listed, Reading, Stored, Bundle, Untouched
<1>6. restore'.at = "create" /\ restore'.todo = r /\ restore'.restored = NoRestored
  BY <1>1
<1>7. ASSUME ~failed, NEW j \in 1 .. Len(r), r[j].base \in Steady
      PROVE  \E i \in 1 .. Len(r) : i < j /\ r[i].id = r[j].base
  <2>0. r[j].base \in Ids(archive)
    BY <1>2, <1>3, <1>4, <1>7
  <2>1. PICK b \in ToSet(archive) : b.id = r[j].base
    <3>1. archive \in Seq(Metas)
      BY <1>2, OrderedFacts
    <3> QED
      BY <2>0, <3>1, IdsOf
  <2>2. PICK e \in ToSet(source) : e.id = r[j].base /\ e.type \in {"local", "remote"}
    BY <1>7, SteadyBases DEF Bases
  <2>3. b = e /\ Sound(b)
    BY <1>s, <1>2, <2>1, <2>2, Unique, OrderedFacts DEF RInv, Listed
  <2>4. ~b.managed
    BY <2>2, <2>3 DEF Sound
  <2> QED
    BY <1>3, <2>1, <2>4
<1>8. Restoring'
  BY <1>1, <1>s, <1>2, <1>3, <1>4, <1>6, <1>7 DEF Restoring
<1>9. Renamed'
  <2>1. DOMAIN NoRestored = {}
    BY DEF NoRestored
  <2> QED
    BY <1>1, <1>s, <1>6, <2>1 DEF RInv, Renamed
<1> QED
  BY <1>1, <1>5, <1>8, <1>9 DEF RInv

LEMMA ReplyStep == RInv /\ Reply => RInv'
<1> SUFFICES ASSUME RInv, Reply PROVE RInv'
  OBVIOUS
<1>1. /\ restore.at = "create" /\ restore.todo = <<>>
      /\ restore' = [restore EXCEPT !.at = "done"]
      /\ UNCHANGED <<index, broken, nextId, archive, backup, changes, source, mine,
                     changed, failed>>
  BY DEF Reply
<1>s. Steady' = Steady
  BY <1>1 DEF Steady
<1>2. restore = [at |-> restore.at, todo |-> restore.todo, restored |-> restore.restored]
  BY DEF RInv, Restoring
<1>3. restore' = [at |-> "done", todo |-> restore.todo, restored |-> restore.restored]
  BY <1>1, <1>2
<1>4. /\ restore'.at = "done" /\ restore'.todo = restore.todo
      /\ restore'.restored = restore.restored
  BY <1>3
<1>5. Indexed' /\ Listed' /\ Reading'
  BY <1>1, <1>s DEF RInv, Indexed, Listed, Reading, Untouched
<1>6. Stored'
  BY <1>1, <1>s, <1>4 DEF RInv, Stored, Untouched
<1>7. Restoring'
  <2>1. restore.todo = <<>> /\ DOMAIN restore.todo = {}
    BY <1>1
  <2>2. restore.todo \in Seq(Metas) /\ ToSet(restore.todo) \subseteq ToSet(source)
    BY DEF RInv, Restoring
  <2> QED
    BY <1>1, <1>s, <1>3, <1>4, <2>1, <2>2 DEF Restoring
<1>8. Renamed'
  BY <1>1, <1>s, <1>4 DEF RInv, Renamed
<1> QED
  BY <1>1, <1>5, <1>6, <1>7, <1>8 DEF RInv

\* Once something has failed, less is claimed of what has been read.
LEMMA BadBundle ==
  ASSUME NEW entries, NEW listed, NEW bases, NEW bad, Bundle(entries, listed, bases, bad)
  PROVE  Bundle(entries, listed, bases, TRUE)
BY DEF Bundle

LEMMA FewerBases ==
  ASSUME NEW entries, NEW listed, NEW bases, NEW bad, Bundle(entries, listed, bases, bad),
         NEW fewer, fewer \subseteq bases
  PROVE  Bundle(entries, listed, fewer, bad)
BY DEF Bundle

LEMMA FailureStep == RInv /\ (FileBreaks \/ CreateFails \/ PutFails) => RInv'
<1> SUFFICES ASSUME RInv, FileBreaks \/ CreateFails \/ PutFails PROVE RInv'
  OBVIOUS
<1>1. /\ changes < MaxChanges /\ changes' = changes + 1 /\ failed' = TRUE
      /\ UNCHANGED <<changed, index, nextId, archive, source, mine>>
  BY DEF FileBreaks, CreateFails, PutFails, Failure
<1>s. Steady' = Steady
  BY <1>1 DEF Steady
<1>2. changes' \in 0 .. MaxChanges
  BY <1>1, RestoreAssumption DEF RInv
<1>3. Indexed' /\ Listed'
  BY <1>1, <1>s DEF RInv, Indexed, Listed
<1>4. ~Untouched'
  BY <1>1 DEF Untouched
<1>5. restore = [at |-> restore.at, todo |-> restore.todo, restored |-> restore.restored]
  BY DEF RInv, Restoring
<1>6. CASE UNCHANGED restore
  <2>1. Restoring' /\ Renamed'
    BY <1>1, <1>s, <1>6 DEF RInv, Restoring, Renamed
  <2>2. Stored'
    BY <1>1, <1>s, <1>4, <1>6, BadBundle DEF RInv, Stored
  <2>3. Reading'
    <3>1. CASE UNCHANGED backup
      BY <1>1, <1>s, <1>4, <3>1, BadBundle DEF RInv, Reading
    <3>2. CASE backup' = [at |-> "idle", metas |-> <<>>, bundle |-> <<>>]
      BY <3>2, EmptySeq DEF Reading
    <3> QED
      BY <3>1, <3>2 DEF FileBreaks, CreateFails, PutFails, IdleBackup
  <2> QED
    BY <1>2, <1>3, <2>1, <2>2, <2>3 DEF RInv
<1>7. CASE CreateFails
  <2> DEFINE rest == Tail(restore.todo)
  <2>1. /\ restore.at = "create" /\ restore.todo # <<>>
        /\ restore' = [restore EXCEPT !.todo = rest]
        /\ UNCHANGED backup
    BY <1>7 DEF CreateFails
  <2>2. restore.todo \in Seq(Metas)
    BY DEF RInv, Restoring
  <2>3. /\ rest \in Seq(Metas) /\ DOMAIN rest = 1 .. Len(rest)
        /\ Len(rest) = Len(restore.todo) - 1 /\ Len(rest) \in Nat
        /\ DOMAIN restore.todo = 1 .. Len(restore.todo)
        /\ \A i \in 1 .. Len(rest) : rest[i] = restore.todo[i + 1]
        /\ ToSet(rest) \subseteq ToSet(restore.todo)
    <3>1. /\ rest \in Seq(Metas) /\ Len(rest) = Len(restore.todo) - 1
          /\ \A i \in 1 .. Len(rest) : rest[i] = restore.todo[i + 1]
          /\ ToSet(restore.todo) = {Head(restore.todo)} \cup ToSet(rest)
      BY <2>1, <2>2, FirstAndRest
    <3> HIDE DEF rest
    <3> QED
      BY <2>2, <3>1, SetOf
  <2> HIDE DEF rest
  <2>4. restore' = [at |-> "create", todo |-> rest, restored |-> restore.restored]
    BY <1>5, <2>1
  <2>5. restore'.at = "create" /\ restore'.todo = rest /\ restore'.restored = restore.restored
    BY <2>4
  <2>6. Restoring'
    <3>1. \A i, j \in DOMAIN rest : rest[i].id = rest[j].id => i = j
      <4> TAKE i, j \in DOMAIN rest
      <4>1. i + 1 \in DOMAIN restore.todo /\ j + 1 \in DOMAIN restore.todo
        BY <2>3
      <4>2. restore.todo[i + 1].id = restore.todo[j + 1].id => i + 1 = j + 1
        BY <4>1 DEF RInv, Restoring
      <4> QED
        BY <2>3, <4>2
    <3>2. ToSet(rest) \subseteq ToSet(source)
      BY <2>3 DEF RInv, Restoring
    <3> QED
      BY <1>1, <1>s, <2>3, <2>4, <2>5, <3>1, <3>2 DEF Restoring
  <2>7. Renamed'
    <3>1. \A i \in DOMAIN rest : rest[i].id \notin DOMAIN restore.restored
      <4> TAKE i \in DOMAIN rest
      <4>1. i + 1 \in DOMAIN restore.todo /\ rest[i] = restore.todo[i + 1]
        BY <2>3
      <4> QED
        BY <4>1 DEF RInv, Renamed
    <3> QED
      BY <1>1, <1>s, <2>5, <3>1 DEF RInv, Renamed
  <2>8. Stored'
    BY <1>1, <1>s, <1>4, <2>1, <2>5, BadBundle DEF RInv, Stored
  <2>9. Reading'
    BY <1>1, <1>s, <1>4, <2>1, BadBundle DEF RInv, Reading
  <2> QED
    BY <1>2, <1>3, <2>6, <2>7, <2>8, <2>9 DEF RInv
<1> QED
  BY <1>6, <1>7 DEF FileBreaks, CreateFails, PutFails

-----------------------------------------------------------------------------
(* What others do to the registry *)

Alike(m, e) ==
  /\ m.id = e.id /\ m.base = e.base /\ m.type = e.type
  /\ m.managed = e.managed /\ m.text = e.text

LEMMA OthersKeep ==
  ASSUME RInv, Change,
         UNCHANGED <<broken, archive, backup, restore, source, mine>>,
         Ordered(index'), OneEditor(index'),
         NEW n \in Nat, nextId' = n, nextId <= n,
         \A m \in ToSet(index') :
           \/ \E e \in ToSet(index) : Alike(m, e)
           \/ m.id = nextId /\ nextId < n /\ m.text = m.id,
         \A e \in ToSet(source) :
           e.id \in Ids(index') /\ e.base \in Roots(source) => e.base \in Ids(index')
  PROVE  RInv'
<1>1. changes' \in 0 .. MaxChanges /\ ~Untouched' /\ failed' = failed
  BY RestoreAssumption DEF RInv, Change, Untouched
<1>s. Steady' = Roots(source) /\ Steady' \subseteq Steady
  BY SteadyBases DEF Change, Steady
<1>2. /\ \A m \in ToSet(index) : m.id \in 1 .. nextId - 1
      /\ nextId \in Nat \ {0} /\ mine \subseteq 1 .. nextId - 1
      /\ \A e \in ToSet(source) : e.id \in 1 .. nextId - 1
  BY DEF RInv, Indexed, Renamed, Listed
<1>a. \A k \in 1 .. nextId - 1 : k \in 1 .. n - 1
  BY <1>2
<1>3. ASSUME NEW m \in ToSet(index')
      PROVE  /\ m.id \in 1 .. n - 1
             /\ m.id \in 1 .. nextId - 1 => \E e \in ToSet(index) : Alike(m, e)
             /\ m.id \notin 1 .. nextId - 1 => m.text = m.id
  <2>1. CASE \E e \in ToSet(index) : Alike(m, e)
    BY <1>2, <1>a, <2>1 DEF Alike
  <2>2. CASE m.id = nextId /\ nextId < n /\ m.text = m.id
    <3>1. nextId \in 1 .. n - 1 /\ nextId \notin 1 .. nextId - 1
      BY <1>2, <2>2
    <3> QED
      BY <2>2, <3>1
  <2> QED
    BY <2>1, <2>2
<1>4. \A k \in mine : k \in 1 .. nextId - 1 /\ k \in 1 .. n - 1
  BY <1>2, <1>a
<1>5. Indexed'
  <2>1. ASSUME NEW m \in ToSet(index')
        PROVE  /\ m.id \in mine => m.type \in {"local", "merge"}
               /\ m.id \notin mine => m.text = m.id
    <3>1. CASE m.id \in 1 .. nextId - 1
      <4>1. PICK e \in ToSet(index) : Alike(m, e)
        BY <1>3, <3>1
      <4>2. /\ e.id \in mine => e.type \in {"local", "merge"}
            /\ e.id \notin mine => e.text = e.id
        BY DEF RInv, Indexed
      <4> QED
        BY <4>1, <4>2 DEF Alike
    <3>2. CASE m.id \notin 1 .. nextId - 1
      BY <1>3, <1>4, <3>2
    <3> QED
      BY <3>1, <3>2
  <2>2. n \in Nat \ {0}
    BY <1>2
  <2> QED
    BY <1>3, <2>1, <2>2 DEF Indexed
<1>6. Listed'
  <2>1. ASSUME NEW e \in ToSet(source), NEW m \in ToSet(index'), m.id = e.id
        PROVE  /\ m.base = e.base
               /\ e.base \in Steady' => e.base \in Ids(index')
    <3>1. PICK o \in ToSet(index) : Alike(m, o)
      BY <1>2, <1>3, <2>1
    <3>2. o.base = e.base
      BY <2>1, <3>1 DEF RInv, Listed, Alike
    <3>3. e.id \in Ids(index')
      BY <2>1, OrderedFacts, IdsOf
    <3> QED
      BY <1>s, <3>1, <3>2, <3>3 DEF Alike
  <2>2. \A e \in ToSet(source) :
          e.id \in 1 .. n - 1 /\ e.text = e.id /\ \A k \in mine : e.id < k
    BY <1>2, <1>a DEF RInv, Listed
  <2> QED
    BY <2>1, <2>2 DEF RInv, Listed
<1>7. ASSUME NEW e \in ToSet(source), e.id \in Ids(index') PROVE e.id \in Ids(index)
  <2>1. index \in Seq(Metas) /\ index' \in Seq(Metas)
    BY OrderedFacts DEF RInv, Indexed
  <2>2. PICK m \in ToSet(index') : m.id = e.id
    BY <1>7, <2>1, IdsOf
  <2>3. PICK o \in ToSet(index) : Alike(m, o)
    BY <1>2, <1>3, <2>2
  <2> QED
    BY <2>1, <2>2, <2>3, IdsOf DEF Alike
<1>8. Reading'
  <2>1. /\ backup' = backup /\ source' = source /\ archive' = archive
    OBVIOUS
  <2> QED
    BY <1>1, <1>7, <1>s, <2>1, FewerBases DEF RInv, Reading
<1>9. Stored'
  BY <1>1, <1>s, FewerBases DEF RInv, Stored
<1>10. Restoring'
  BY <1>1, <1>s DEF RInv, Restoring
<1>11. Renamed'
  <2>1. ASSUME NEW m \in ToSet(index'), m.id \in mine
        PROVE  /\ m.base \in {NoId} \cup mine
               /\ \E e \in ToSet(source) :
                    /\ e.id = m.text
                    /\ ~failed /\ e.base \in Steady' =>
                         /\ e.base \in DOMAIN restore.restored
                         /\ m.base = restore.restored[e.base]
    <3>1. PICK o \in ToSet(index) : Alike(m, o)
      BY <1>3, <1>4, <2>1
    <3>2. o.id \in mine /\ o.base = m.base /\ o.text = m.text
      BY <2>1, <3>1 DEF Alike
    <3> QED
      BY <1>s, <3>2 DEF RInv, Renamed
  <2>2. mine \subseteq 1 .. n - 1
    BY <1>4
  <2>3. UNCHANGED <<restore, source, mine, failed>>
    BY <1>1
  <2>4. /\ DOMAIN restore.restored \subseteq Ids(source)
        /\ \A i \in DOMAIN restore.todo : restore.todo[i].id \notin DOMAIN restore.restored
        /\ \A i, j \in DOMAIN restore.restored :
             restore.restored[i] = restore.restored[j] => i = j
        /\ {restore.restored[i] : i \in DOMAIN restore.restored} = mine
    BY DEF RInv, Renamed
  <2> QED
    BY <2>1, <2>2, <2>3, <2>4 DEF Renamed
<1> QED
  BY <1>1, <1>5, <1>6, <1>8, <1>9, <1>10, <1>11 DEF RInv

\* Every base that is in the registry stays.
LEMMA BasesStay ==
  ASSUME RInv, NEW s, Ordered(s),
         \A i \in Ids(s) : i \in Ids(index) \/ i \notin Ids(source),
         \A i \in Ids(index) : i \in Ids(s)
  PROVE  \A e \in ToSet(source) :
           e.id \in Ids(s) /\ e.base \in Roots(source) => e.base \in Ids(s)
<1> SUFFICES ASSUME NEW e \in ToSet(source), e.id \in Ids(s), e.base \in Roots(source)
             PROVE  e.base \in Ids(s)
  OBVIOUS
<1>1. source \in Seq(Metas) /\ index \in Seq(Metas)
  BY OrderedFacts DEF RInv, Listed, Indexed
<1>2. e.id \in Ids(source)
  BY <1>1, IdsOf
<1>3. PICK m \in ToSet(index) : m.id = e.id
  BY <1>1, <1>2, IdsOf
<1>4. e.base \in Ids(index)
  BY <1>3, SteadyBases DEF RInv, Listed
<1> QED
  BY <1>4

LEMMA SwitchStep == RInv /\ OthersSwitch => RInv'
<1> SUFFICES ASSUME RInv, OthersSwitch PROVE RInv'
  OBVIOUS
<1>1. Change /\ UNCHANGED <<broken, nextId, archive, backup, restore, source, mine>>
  BY DEF OthersSwitch
<1>2. PICK i \in DOMAIN index : index' = [index EXCEPT ![i].enabled = ~@]
  BY DEF OthersSwitch
<1>3. Ordered(index) /\ OneEditor(index) /\ nextId \in Nat
  BY DEF RInv, Indexed
<1>4. /\ index \in Seq(Metas) /\ DOMAIN index = 1 .. Len(index) /\ Len(index) \in Nat
      /\ \A k \in 1 .. Len(index) : index[k] \in Metas /\ index[k] \in ToSet(index)
  BY <1>3, OrderedFacts
<1> DEFINE flipped == [index[i] EXCEPT !.enabled = ~index[i].enabled]
           s == [index EXCEPT ![i] = flipped]
<1>5. index' = s
  BY <1>2
<1>6. /\ flipped \in Metas /\ Alike(flipped, index[i])
      /\ Alike(index[i], index[i])
  <2>1. index[i] \in Metas
    BY <1>4
  <2>2. index[i].enabled \in BOOLEAN
    BY <2>1 DEF Metas
  <2>3. (~index[i].enabled) \in BOOLEAN
    OBVIOUS
  <2> QED
    BY <2>1, <2>3 DEF Metas, Alike
<1> HIDE DEF flipped
<1>7. /\ s \in Seq(Metas) /\ DOMAIN s = 1 .. Len(index) /\ Len(s) = Len(index)
      /\ \A k \in 1 .. Len(index) : s[k] \in Metas /\ Alike(s[k], index[k])
  BY <1>4, <1>6 DEF Alike
<1> HIDE DEF s
<1>8. \A m \in ToSet(s) : m \in Metas /\ \E k \in 1 .. Len(index) : m = s[k]
  BY <1>7, SetOf
<1>9. \A m \in ToSet(s) : \E e \in ToSet(index) : Alike(m, e)
  BY <1>4, <1>7, <1>8
<1>10. Ordered(s)
  <2>1. \A m \in ToSet(s) : Sound(m)
    <3> TAKE m \in ToSet(s)
    <3>1. PICK e \in ToSet(index) : Alike(m, e)
      BY <1>9
    <3>2. Sound(e)
      BY <1>3, OrderedFacts
    <3> QED
      BY <1>8, <3>1, <3>2 DEF Sound, Alike
  <2>2. ASSUME NEW k \in DOMAIN s, NEW l \in DOMAIN s, k < l PROVE s[k].id < s[l].id
    <3>1. index[k].id < index[l].id
      BY <1>3, <1>7, <2>2, OrderedFacts
    <3> QED
      BY <1>7, <3>1 DEF Alike
  <2> QED
    BY <1>7, <2>1, <2>2 DEF Ordered
<1>11. OneEditor(s)
  <2> SUFFICES ASSUME NEW m \in ToSet(s), NEW e \in ToSet(s),
                      m.managed, e.managed, m.base = e.base
               PROVE  m = e
    BY DEF OneEditor
  <2>1. PICK k \in 1 .. Len(index), l \in 1 .. Len(index) : m = s[k] /\ e = s[l]
    BY <1>8
  <2>2. Alike(m, index[k]) /\ Alike(e, index[l])
    BY <1>7, <2>1
  <2>3. index[k] = index[l]
    BY <1>3, <1>4, <2>2 DEF OneEditor, Alike
  <2>4. k = l
    BY <1>3, <2>3, OrderedFacts
  <2> QED
    BY <2>1, <2>4
<1>12. Ids(s) = Ids(index)
  BY <1>4, <1>7 DEF Ids, Alike
<1>13. \A e \in ToSet(source) : e.id \in Ids(s) /\ e.base \in Roots(source) => e.base \in Ids(s)
  BY <1>10, <1>12, BasesStay
<1>14. nextId' = nextId /\ nextId <= nextId
  BY <1>1, <1>3
<1> QED
  BY <1>1, <1>3, <1>5, <1>9, <1>10, <1>11, <1>13, <1>14, OthersKeep

LEMMA OthersCreateStep == RInv /\ OthersCreate => RInv'
<1> SUFFICES ASSUME RInv, OthersCreate PROVE RInv'
  OBVIOUS
<1>1. /\ Change /\ nextId' = nextId + 1
      /\ UNCHANGED <<broken, archive, backup, restore, source, mine>>
  BY DEF OthersCreate
<1>2. PICK base \in Ids(index) \cup {NoId}, managed \in BOOLEAN :
        /\ CreateAllowed(Entry(nextId, "merge", base, managed, TRUE))
        /\ index' = Append(index, Entry(nextId, "merge", base, managed, TRUE))
  BY DEF OthersCreate
<1> DEFINE m == Entry(nextId, "merge", base, managed, TRUE)
           s == Append(index, m)
<1>3. Ordered(index) /\ OneEditor(index) /\ nextId \in Nat \ {0}
  BY DEF RInv, Indexed
<1>4. /\ \A e \in ToSet(index) : e.id \in 1 .. nextId - 1
      /\ \A e \in ToSet(source) : e.id \in 1 .. nextId - 1
  BY DEF RInv, Indexed, Listed
<1>5. /\ m.id = nextId /\ m.type = "merge" /\ m.base = base /\ m.managed = managed
      /\ m.text = nextId /\ m.enabled = TRUE
      /\ m = [id |-> nextId, type |-> "merge", base |-> base, managed |-> managed,
              enabled |-> TRUE, text |-> nextId]
  BY DEF Entry
<1>6. base \in {NoId} \cup 1 .. nextId - 1
  <2>1. index \in Seq(Metas)
    BY <1>3, OrderedFacts
  <2> QED
    BY <1>4, <2>1, IdsOf
<1> HIDE DEF m
<1>7. Sound(m)
  <2>1. m \in Metas
    BY <1>3, <1>5, <1>6 DEF Metas, Types
  <2> QED
    BY <1>2, <1>5, <1>6, <2>1 DEF Sound, CreateAllowed, m
<1>8. Ordered(s) /\ ToSet(s) = ToSet(index) \cup {m}
  <2>1. \A e \in ToSet(index) : e.id < m.id
    BY <1>3, <1>4, <1>5
  <2> QED
    BY <1>3, <1>7, <2>1, OrderedAppend
<1>9. OneEditor(s)
  <2>1. ASSUME NEW e \in ToSet(index), e.managed, m.managed PROVE e.base # m.base
    <3>1. PICK i \in DOMAIN index : index[i] = e
      BY <1>3, OrderedFacts
    <3> QED
      BY <1>2, <2>1, <3>1 DEF CreateAllowed, m
  <2> QED
    BY <1>3, <1>8, <2>1 DEF OneEditor
<1>10. \A e \in ToSet(s) : \/ \E o \in ToSet(index) : Alike(e, o)
                           \/ e.id = nextId /\ nextId < nextId + 1 /\ e.text = e.id
  <2>1. \A e \in ToSet(index) : Alike(e, e)
    BY DEF Alike
  <2>2. nextId < nextId + 1
    BY <1>3
  <2> QED
    BY <1>5, <1>8, <2>1, <2>2
<1> HIDE DEF s
<1>11. index \in Seq(Metas) /\ s \in Seq(Metas) /\ source \in Seq(Metas)
  BY <1>3, <1>8, OrderedFacts DEF RInv, Listed
<1>12. \A i \in Ids(index) : i \in Ids(s)
  BY <1>8, <1>11, IdsOf
<1>13. \A i \in Ids(s) : i \in Ids(index) \/ i \notin Ids(source)
  <2> TAKE i \in Ids(s)
  <2>1. PICK e \in ToSet(s) : e.id = i
    BY <1>11, IdsOf
  <2>2. CASE e = m
    <3>1. \A o \in ToSet(source) : o.id # nextId
      BY <1>3, <1>4
    <3> QED
      BY <1>5, <1>11, <2>1, <2>2, <3>1, IdsOf
  <2> QED
    BY <1>8, <1>11, <2>1, <2>2, IdsOf
<1>14. \A e \in ToSet(source) : e.id \in Ids(s) /\ e.base \in Roots(source) => e.base \in Ids(s)
  BY <1>8, <1>12, <1>13, BasesStay
<1>15. nextId + 1 \in Nat /\ nextId <= nextId + 1 /\ index' = s
  BY <1>2, <1>3 DEF s, m
<1> QED
  BY <1>1, <1>8, <1>9, <1>10, <1>14, <1>15, OthersKeep

LEMMA DeleteStep == RInv /\ OthersDelete => RInv'
<1> SUFFICES ASSUME RInv, OthersDelete PROVE RInv'
  OBVIOUS
<1>1. Change /\ UNCHANGED <<broken, nextId, archive, backup, restore, source, mine>>
  BY DEF OthersDelete
<1>2. PICK id \in Ids(index) :
        index' = Filter(index, {m \in ToSet(index) : m.id \notin Doomed(id)})
  BY DEF OthersDelete
<1> DEFINE s == Filter(index, {m \in ToSet(index) : m.id \notin Doomed(id)})
<1>3. Ordered(index) /\ OneEditor(index) /\ nextId \in Nat
  BY DEF RInv, Indexed
<1>4. Ordered(s) /\ ToSet(s) = {m \in ToSet(index) : m.id \notin Doomed(id)}
  BY <1>3, OrderedFilter
<1> HIDE DEF s
<1>5. /\ index \in Seq(Metas) /\ s \in Seq(Metas) /\ source \in Seq(Metas)
      /\ DOMAIN index = 1 .. Len(index)
  BY <1>3, <1>4, OrderedFacts DEF RInv, Listed
<1>6. OneEditor(s)
  BY <1>3, <1>4 DEF OneEditor
<1>7. \A m \in ToSet(s) : \E e \in ToSet(index) : Alike(m, e)
  BY <1>4 DEF Alike
<1>8. id \in Nat
  BY <1>3, <1>5, IdsOf, OrderedFacts
<1>9. \A i \in Doomed(id) : i = id \/ \E m \in ToSet(index) : m.id = i /\ m.base = id
  BY <1>5, SetOf DEF Doomed
<1>10. \A m \in ToSet(index) : m.base = id => m.id \in Doomed(id)
  BY <1>5, SetOf DEF Doomed
<1>11. ASSUME NEW e \in ToSet(source), e.id \in Ids(s), e.base \in Roots(source)
       PROVE  e.base \in Ids(s)
  <2>1. PICK m \in ToSet(s) : m.id = e.id
    BY <1>5, <1>11, IdsOf
  <2>2. m \in ToSet(index) /\ m.id \notin Doomed(id)
    BY <1>4, <2>1
  <2>3. m.base = e.base /\ e.base \in Ids(index)
    BY <1>11, <2>1, <2>2, SteadyBases DEF RInv, Listed
  <2>4. PICK b \in ToSet(index) : b.id = e.base
    BY <1>5, <2>3, IdsOf
  <2>5. PICK o \in ToSet(source) : o.id = e.base /\ o.base = NoId
    BY <1>11 DEF Roots
  <2>7. b.base = NoId
    BY <2>4, <2>5 DEF RInv, Listed
  <2>8. b.id # id
    BY <1>10, <2>2, <2>3, <2>4
  <2>9. b.id \notin Doomed(id)
    <3> SUFFICES ASSUME b.id \in Doomed(id) PROVE FALSE
      OBVIOUS
    <3>1. PICK x \in ToSet(index) : x.id = b.id /\ x.base = id
      BY <1>9, <2>8
    <3>2. x = b
      BY <1>3, <3>1, Unique
    <3> QED
      BY <1>8, <2>7, <3>1, <3>2, RestoreAssumption
  <2>10. b \in ToSet(s)
    BY <1>4, <2>9
  <2> QED
    BY <1>5, <2>4, <2>10, IdsOf
<1>12. index' = s /\ nextId' = nextId /\ nextId <= nextId
  BY <1>1, <1>2, <1>3 DEF s
<1> QED
  BY <1>1, <1>3, <1>4, <1>6, <1>7, <1>11, <1>12, OthersKeep

-----------------------------------------------------------------------------
(* One turn of the restore *)

\* A profile that can be activated is never refused.
LEMMA BaseAllowed ==
  ASSUME RInv, NEW e \in ToSet(source), e.id \in Bases(source)
  PROVE  /\ e.type \in {"local", "remote"} /\ ~e.managed
         /\ CreateAllowed(Recreated(e))
<1>1. PICK b \in ToSet(source) : b.id = e.id /\ b.type \in {"local", "remote"}
  BY DEF Bases
<1>2. b = e
  BY <1>1, Unique DEF RInv, Listed
<1>3. Sound(e) /\ e \in Metas
  BY OrderedFacts DEF RInv, Listed
<1>4. ~e.managed
  BY <1>1, <1>2, <1>3 DEF Sound
<1>5. Recreated(e).managed = e.managed
  BY DEF Recreated
<1> QED
  BY <1>1, <1>2, <1>4, <1>5 DEF CreateAllowed

\* What stays to be done.
LEMMA TurnTaken ==
  ASSUME RInv, restore.todo # <<>>
  PROVE  LET h == Head(restore.todo)
             rest == Tail(restore.todo)
         IN /\ h \in ToSet(source) /\ h \in Metas /\ Sound(h)
            /\ h = restore.todo[1] /\ 1 \in DOMAIN restore.todo
            /\ restore.todo \in Seq(Metas)
            /\ rest \in Seq(Metas) /\ DOMAIN rest = 1 .. Len(rest) /\ Len(rest) \in Nat
            /\ ToSet(rest) \subseteq ToSet(source)
            /\ DOMAIN restore.todo = 1 .. Len(rest) + 1
            /\ \A i \in DOMAIN rest : rest[i] = restore.todo[i + 1]
            /\ \A i, j \in DOMAIN rest : rest[i].id = rest[j].id => i = j
            /\ \A i \in DOMAIN rest : rest[i].id # h.id
<1> DEFINE h == Head(restore.todo)
           rest == Tail(restore.todo)
<1>1. /\ restore.todo \in Seq(Metas) /\ ToSet(restore.todo) \subseteq ToSet(source)
      /\ \A i, j \in DOMAIN restore.todo :
           restore.todo[i].id = restore.todo[j].id => i = j
  BY DEF RInv, Restoring
<1>2. /\ h \in Metas /\ rest \in Seq(Metas) /\ h = restore.todo[1]
      /\ Len(rest) = Len(restore.todo) - 1 /\ Len(rest) \in Nat
      /\ \A i \in 1 .. Len(rest) : rest[i] = restore.todo[i + 1]
      /\ ToSet(restore.todo) = {h} \cup ToSet(rest)
  BY <1>1, FirstAndRest
<1> HIDE DEF h, rest
<1>3. /\ DOMAIN rest = 1 .. Len(rest) /\ Len(restore.todo) = Len(rest) + 1
      /\ DOMAIN restore.todo = 1 .. Len(rest) + 1
  BY <1>1, <1>2
<1>4. h \in ToSet(source) /\ ToSet(rest) \subseteq ToSet(source)
  BY <1>1, <1>2
<1>5. Sound(h)
  BY <1>4, OrderedFacts DEF RInv, Listed
<1>6. \A i \in DOMAIN rest : i + 1 \in DOMAIN restore.todo /\ i + 1 # 1
  BY <1>2, <1>3
<1>7. 1 \in DOMAIN restore.todo
  BY <1>2, <1>3
<1>8. \A i \in DOMAIN rest : rest[i].id # h.id
  BY <1>1, <1>2, <1>3, <1>6, <1>7
<1>9. ASSUME NEW i \in DOMAIN rest, NEW j \in DOMAIN rest, rest[i].id = rest[j].id
      PROVE  i = j
  <2>1. i + 1 = j + 1
    BY <1>1, <1>2, <1>3, <1>6, <1>9
  <2> QED
    BY <1>2, <1>3, <2>1
<1> QED
  BY <1>1, <1>2, <1>3, <1>4, <1>5, <1>7, <1>8, <1>9 DEF h, rest

\* A base is still among what stays to be done, or is being created.
LEMMA BaseFirst ==
  ASSUME RInv, restore.todo # <<>>, ~failed,
         NEW j \in DOMAIN Tail(restore.todo),
         Tail(restore.todo)[j].base \in Steady
  PROVE  LET h == Head(restore.todo)
             rest == Tail(restore.todo)
             b == rest[j].base
         IN \/ b \in DOMAIN restore.restored
            \/ b = h.id
            \/ \E i \in DOMAIN rest : i < j /\ rest[i].id = b
<1> DEFINE h == Head(restore.todo)
           rest == Tail(restore.todo)
           b == rest[j].base
<1>1. /\ h = restore.todo[1]
      /\ DOMAIN rest = 1 .. Len(rest) /\ Len(rest) \in Nat
      /\ DOMAIN restore.todo = 1 .. Len(rest) + 1
      /\ \A i \in DOMAIN rest : rest[i] = restore.todo[i + 1]
  BY TurnTaken
<1>2. b \in Steady /\ j \in DOMAIN rest
  OBVIOUS
<1> HIDE DEF h, rest
<1>3. j + 1 \in DOMAIN restore.todo /\ restore.todo[j + 1].base = b
  BY <1>1, <1>2
<1>4. \/ b \in DOMAIN restore.restored
      \/ \E i \in DOMAIN restore.todo : i < j + 1 /\ restore.todo[i].id = b
  BY <1>2, <1>3 DEF RInv, Restoring
<1>5. ASSUME NEW i \in DOMAIN restore.todo, i < j + 1, restore.todo[i].id = b
      PROVE  b = h.id \/ \E k \in DOMAIN rest : k < j /\ rest[k].id = b
  <2>1. CASE i = 1
    BY <1>1, <1>5, <2>1
  <2>2. CASE i # 1
    <3>1. i - 1 \in DOMAIN rest /\ i - 1 < j /\ (i - 1) + 1 = i
      BY <1>1, <1>2, <1>5, <2>2
    <3>2. rest[i - 1].id = b
      BY <1>1, <1>5, <3>1
    <3> QED
      BY <3>1, <3>2
  <2> QED
    BY <2>1, <2>2
<1> QED
  BY <1>4, <1>5 DEF h, rest

LEMMA CreateStep == RInv /\ Create => RInv'
<1> SUFFICES ASSUME RInv, Create PROVE RInv'
  OBVIOUS
<1> DEFINE h == Head(restore.todo)
           rest == Tail(restore.todo)
           m == Recreated(h)
           new == restore.restored
<1>1. /\ restore.at = "create" /\ restore.todo # <<>>
      /\ UNCHANGED <<broken, archive, backup, changes, source, changed, failed>>
  BY DEF Create
<1>s. Steady' = Steady
  BY <1>1 DEF Steady
<1>2. \/ /\ h.type # "script" /\ CreateAllowed(m)
         /\ index' = Append(index, m) /\ nextId' = nextId + 1
         /\ mine' = mine \cup {nextId}
         /\ restore' = [at |-> "create", todo |-> rest,
                        restored |-> [i \in DOMAIN new \cup {h.id} |->
                                        IF i = h.id THEN nextId ELSE new[i]]]
      \/ /\ ~(h.type # "script" /\ CreateAllowed(m))
         /\ restore' = [restore EXCEPT !.todo = rest]
         /\ UNCHANGED <<index, nextId, mine>>
  BY DEF Create
<1>3. /\ h \in ToSet(source) /\ h \in Metas /\ Sound(h)
      /\ h = restore.todo[1] /\ 1 \in DOMAIN restore.todo
      /\ rest \in Seq(Metas) /\ DOMAIN rest = 1 .. Len(rest) /\ Len(rest) \in Nat
      /\ ToSet(rest) \subseteq ToSet(source)
      /\ DOMAIN restore.todo = 1 .. Len(rest) + 1
      /\ \A i \in DOMAIN rest : rest[i] = restore.todo[i + 1]
      /\ \A i, j \in DOMAIN rest : rest[i].id = rest[j].id => i = j
      /\ \A i \in DOMAIN rest : rest[i].id # h.id
  BY <1>1, TurnTaken
<1>4. ASSUME ~failed, NEW j \in DOMAIN rest, rest[j].base \in Steady
      PROVE  \/ rest[j].base \in DOMAIN new
             \/ rest[j].base = h.id
             \/ \E i \in DOMAIN rest : i < j /\ rest[i].id = rest[j].base
  BY <1>1, <1>4, BaseFirst
<1>5. h.id \in Steady => h.type # "script" /\ CreateAllowed(m)
  BY <1>3, BaseAllowed, SteadyBases
<1>6. restore = [at |-> "create", todo |-> restore.todo, restored |-> new]
  BY <1>1, <1>s DEF RInv, Restoring
<1>7. \A i \in DOMAIN rest : rest[i].id \notin DOMAIN new
  <2> TAKE i \in DOMAIN rest
  <2>1. i + 1 \in DOMAIN restore.todo /\ rest[i] = restore.todo[i + 1]
    BY <1>3
  <2> QED
    BY <2>1 DEF RInv, Renamed
<1>8. h.id \notin DOMAIN new
  BY <1>s, <1>3 DEF RInv, Renamed
<1>9. /\ DOMAIN new \subseteq Ids(source)
      /\ \A i, j \in DOMAIN new : new[i] = new[j] => i = j
      /\ {new[i] : i \in DOMAIN new} = mine
      /\ mine \subseteq 1 .. nextId - 1
  BY DEF RInv, Renamed
<1>10. /\ m.id = nextId /\ m.base = Remap(h.base) /\ m.managed = h.managed
       /\ m.type = IF h.type = "merge" THEN "merge" ELSE "local"
       /\ m.enabled = TRUE /\ m.text = h.text
       /\ m = [id |-> nextId, type |-> IF h.type = "merge" THEN "merge" ELSE "local",
               base |-> Remap(h.base), managed |-> h.managed, enabled |-> TRUE,
               text |-> h.text]
  <2>1. m = [id |-> nextId, type |-> IF h.type = "merge" THEN "merge" ELSE "local",
             base |-> Remap(h.base), managed |-> h.managed, enabled |-> TRUE,
             text |-> h.text]
    BY DEF Recreated
  <2> HIDE DEF m
  <2> QED
    BY <2>1
<1>11. Remap(h.base) = IF h.base \in DOMAIN new THEN new[h.base] ELSE NoId
  BY DEF Remap
<1> HIDE DEF m, h, rest
<1>12. backup.at = "idle" /\ archive # Nothing
  BY <1>1, <1>s DEF RInv, Reading, Stored
<1>13. Reading'
  <2>1. backup' = backup
    BY <1>1
  <2> QED
    BY <1>s, <1>12, <2>1 DEF RInv, Reading
<1>14. ASSUME restore'.at = "create" PROVE Stored'
  <2>1. restore'.at # "idle" /\ UNCHANGED <<broken, archive, source, changed, failed>>
    BY <1>1, <1>14
  <2>2. Untouched' <=> Untouched
    BY <2>1 DEF Untouched
  <2> QED
    BY <1>s, <1>12, <2>1, <2>2 DEF RInv, Stored
<1>15. CASE ~(h.type # "script" /\ CreateAllowed(m))
  <2>1. /\ restore' = [at |-> "create", todo |-> rest, restored |-> new]
        /\ UNCHANGED <<index, nextId, mine>>
    BY <1>2, <1>6, <1>15
  <2>2. restore'.at = "create" /\ restore'.todo = rest /\ restore'.restored = new
    BY <2>1
  <2>3. Indexed' /\ Listed'
    BY <1>1, <1>s, <2>1 DEF RInv, Indexed, Listed
  <2>4. Restoring'
    BY <1>1, <1>s, <1>3, <1>4, <1>5, <1>15, <2>1, <2>2 DEF Restoring
  <2>5. Renamed'
    BY <1>1, <1>s, <1>7, <2>1, <2>2 DEF RInv, Renamed
  <2> QED
    BY <1>1, <1>13, <1>14, <2>2, <2>3, <2>4, <2>5 DEF RInv
<1>16. CASE h.type # "script" /\ CreateAllowed(m)
  <2> DEFINE new2 == [i \in DOMAIN new \cup {h.id} |-> IF i = h.id THEN nextId ELSE new[i]]
  <2>1. /\ restore' = [at |-> "create", todo |-> rest, restored |-> new2]
        /\ index' = Append(index, m) /\ nextId' = nextId + 1
        /\ mine' = mine \cup {nextId}
    BY <1>2, <1>16
  <2>2. restore'.at = "create" /\ restore'.todo = rest /\ restore'.restored = new2
    BY <2>1
  <2>3. /\ DOMAIN new2 = DOMAIN new \cup {h.id} /\ new2[h.id] = nextId
        /\ \A i \in DOMAIN new : new2[i] = new[i]
    BY <1>8
  <2> HIDE DEF new2
  <2>4. /\ Ordered(index) /\ OneEditor(index) /\ nextId \in Nat \ {0}
        /\ index \in Seq(Metas) /\ source \in Seq(Metas)
        /\ DOMAIN index = 1 .. Len(index)
    BY OrderedFacts DEF RInv, Indexed, Listed
  <2>5. /\ \A e \in ToSet(index) : e.id \in 1 .. nextId - 1
        /\ \A e \in ToSet(source) : e.id \in 1 .. nextId - 1
    BY DEF RInv, Indexed, Listed
  <2>6. /\ nextId \notin 1 .. nextId - 1 /\ nextId \in 1 .. (nextId + 1) - 1
        /\ \A k \in 1 .. nextId - 1 : k \in 1 .. (nextId + 1) - 1 /\ k < nextId
        /\ nextId + 1 \in Nat \ {0}
    BY <2>4
  <2>7. m.base \in {NoId} \cup mine
    BY <1>9, <1>10, <1>11
  <2>9. Sound(m)
    <3>1. h.managed \in BOOLEAN /\ h.text \in Nat
      BY <1>3 DEF Metas
    <3>2. m.base \in {NoId, Gone} \cup 1 .. nextId - 1
      BY <1>9, <2>7
    <3>3. m.base \in {NoId, Gone} \cup Nat
      BY <2>4, <3>2
    <3>4. m \in Metas
      BY <1>10, <2>4, <3>1, <3>3 DEF Metas, Types
    <3>5. m.managed => m.base # NoId /\ m.type = "merge"
      BY <1>16 DEF CreateAllowed
    <3> QED
      BY <1>10, <3>2, <3>4, <3>5 DEF Sound
  <2>10. Ordered(index') /\ ToSet(index') = ToSet(index) \cup {m}
    <3>1. \A e \in ToSet(index) : e.id < m.id
      BY <1>10, <2>5, <2>6
    <3> QED
      BY <2>1, <2>4, <2>9, <3>1, OrderedAppend
  <2>11. OneEditor(index')
    <3>1. ASSUME NEW e \in ToSet(index), e.managed, m.managed PROVE e.base # m.base
      <4>1. PICK i \in DOMAIN index : index[i] = e
        BY <2>4, OrderedFacts
      <4> QED
        BY <1>16, <3>1, <4>1 DEF CreateAllowed
    <3> QED
      BY <2>4, <2>10, <3>1 DEF OneEditor
  <2>12. Indexed'
    <3>1. \A e \in ToSet(index) : /\ e.id \in mine => e.type \in {"local", "merge"}
                                  /\ e.id \notin mine => e.text = e.id
      BY DEF RInv, Indexed
    <3>2. m.type \in {"local", "merge"}
      BY <1>10
    <3>3. ASSUME NEW e \in ToSet(index')
          PROVE  /\ e.id \in 1 .. nextId' - 1
                 /\ e.id \in mine' => e.type \in {"local", "merge"}
                 /\ e.id \notin mine' => e.text = e.id
      <4>1. CASE e = m
        BY <1>10, <2>1, <2>6, <3>2, <4>1
      <4>2. CASE e \in ToSet(index)
        BY <2>1, <2>5, <2>6, <3>1, <4>2
      <4> QED
        BY <2>10, <4>1, <4>2
    <3> QED
      BY <2>1, <2>6, <2>10, <2>11, <3>3 DEF Indexed
  <2>13. index' \in Seq(Metas)
    BY <2>10, OrderedFacts
  <2>14. \A i \in Ids(index) : i \in Ids(index')
    BY <2>4, <2>10, <2>13, IdsOf
  <2>15. Listed'
    <3>1. ASSUME NEW e \in ToSet(source), NEW o \in ToSet(index'), o.id = e.id
          PROVE  /\ o.base = e.base
                 /\ e.base \in Steady => e.base \in Ids(index')
      <4>1. o \in ToSet(index)
        BY <1>10, <2>5, <2>6, <2>10, <3>1
      <4> QED
        BY <2>14, <3>1, <4>1 DEF RInv, Listed
    <3>2. \A e \in ToSet(source) : e.text = e.id /\ \A k \in mine : e.id < k
      BY DEF RInv, Listed
    <3>3. Ordered(source) /\ OneEditor(source)
      BY DEF RInv, Listed
    <3> QED
      BY <1>1, <1>s, <2>1, <2>5, <2>6, <3>1, <3>2, <3>3 DEF Listed
  <2>16. Restoring'
    <3>1. ASSUME ~failed, NEW j \in DOMAIN rest, rest[j].base \in Steady
          PROVE  \/ rest[j].base \in DOMAIN new2
                 \/ \E i \in DOMAIN rest : i < j /\ rest[i].id = rest[j].base
      BY <1>4, <2>3, <3>1
    <3> QED
      BY <1>1, <1>s, <1>3, <2>1, <2>2, <3>1 DEF Restoring
  <2>17. Renamed'
    <3>1. DOMAIN new2 \subseteq Ids(source)
      BY <1>3, <1>9, <2>3, <2>4, IdsOf
    <3>2. \A i \in DOMAIN rest : rest[i].id \notin DOMAIN new2
      BY <1>3, <1>7, <2>3
    <3>3. \A i \in DOMAIN new : new[i] \in mine /\ new[i] # nextId
      BY <1>9, <2>6
    <3>4. \A i, j \in DOMAIN new2 : new2[i] = new2[j] => i = j
      BY <1>9, <2>3, <3>3
    <3>5. {new2[i] : i \in DOMAIN new2} = mine \cup {nextId}
      <4>1. \A i \in DOMAIN new2 : new2[i] \in mine \cup {nextId}
        BY <2>3, <3>3
      <4>2. ASSUME NEW k \in mine \cup {nextId} PROVE \E i \in DOMAIN new2 : new2[i] = k
        <5>1. CASE k \in mine
          <6>1. PICK i \in DOMAIN new : new[i] = k
            BY <1>9, <5>1
          <6> QED
            BY <2>3, <6>1
        <5> QED
          BY <2>3, <5>1
      <4> QED
        BY <4>1, <4>2
    <3>6. mine \cup {nextId} \subseteq 1 .. (nextId + 1) - 1
      BY <1>9, <2>6
    <3>7. ASSUME NEW o \in ToSet(index'), o.id \in mine \cup {nextId}
          PROVE  /\ o.base \in {NoId} \cup (mine \cup {nextId})
                 /\ \E e \in ToSet(source) :
                      /\ e.id = o.text
                      /\ ~failed /\ e.base \in Steady =>
                           e.base \in DOMAIN new2 /\ o.base = new2[e.base]
      <4>1. CASE o \in ToSet(index)
        <5>1. o.id \in mine
          BY <2>5, <2>6, <3>7, <4>1
        <5>2. /\ o.base \in {NoId} \cup mine
              /\ \E e \in ToSet(source) :
                   /\ e.id = o.text
                   /\ ~failed /\ e.base \in Steady =>
                        e.base \in DOMAIN new /\ o.base = new[e.base]
          BY <4>1, <5>1 DEF RInv, Renamed
        <5>3. PICK e \in ToSet(source) :
                /\ e.id = o.text
                /\ ~failed /\ e.base \in Steady =>
                     e.base \in DOMAIN new /\ o.base = new[e.base]
          BY <5>2
        <5>4. ~failed /\ e.base \in Steady =>
                e.base \in DOMAIN new2 /\ o.base = new2[e.base]
          BY <2>3, <5>3
        <5> QED
          BY <5>2, <5>3, <5>4
      <4>2. CASE o = m
        <5>1. h.id = m.text
          BY <1>s, <1>3, <1>10 DEF RInv, Listed
        <5>2. ASSUME ~failed, h.base \in Steady
              PROVE  h.base \in DOMAIN new2 /\ m.base = new2[h.base]
          <6>1. \/ h.base \in DOMAIN new
                \/ \E i \in DOMAIN restore.todo : i < 1 /\ restore.todo[i].id = h.base
            BY <1>s, <1>3, <5>2 DEF RInv, Restoring
          <6>2. h.base \in DOMAIN new
            BY <1>3, <6>1
          <6> QED
            BY <1>10, <1>11, <2>3, <6>2
        <5> QED
          BY <1>3, <2>7, <4>2, <5>1, <5>2
      <4> QED
        BY <2>10, <4>1, <4>2
    <3> QED
      BY <1>1, <1>s, <2>1, <2>2, <3>1, <3>2, <3>4, <3>5, <3>6, <3>7 DEF Renamed
  <2> QED
    BY <1>1, <1>13, <1>14, <2>2, <2>12, <2>15, <2>16, <2>17 DEF RInv
<1> QED
  BY <1>15, <1>16

LEMMA RestoreStepInv == RInv /\ [RestoreNext]_restoreVars => RInv'
<1>1. RInv /\ UNCHANGED restoreVars => RInv'
  BY DEF RInv, restoreVars, Indexed, Listed, Reading, Stored, Restoring, Renamed, Untouched,
         Steady
<1> QED
  BY <1>1, ListStep, ReadStep, PutStep, GetBundleStep, CreateStep, ReplyStep, FailureStep,
     SwitchStep, OthersCreateStep, DeleteStep DEF RestoreNext

LEMMA RestoreInvariance == RestoreSpec => []RInv
<1>1. RestoreInit => RInv
  BY RestoreInitInv
<1> QED
  BY <1>1, RestoreStepInv, PTL DEF RestoreSpec

LEMMA RestoreTyped == RInv => RestoreTypeOK
<1> SUFFICES ASSUME RInv PROVE RestoreTypeOK
  OBVIOUS
<1>1. /\ Ordered(index) /\ DOMAIN index = 1 .. Len(index)
      /\ \A i \in DOMAIN index : index[i] \in ToSet(index)
  BY OrderedFacts DEF RInv, Indexed
<1>2. \A m \in ToSet(index) :
        /\ m.id \in 1 .. nextId - 1 /\ m.type \in Types
        /\ m.id \in mine => m.type \in {"local", "merge"}
        /\ m.base \in {NoId, Gone} \cup 1 .. m.id - 1
  <2> TAKE m \in ToSet(index)
  <2>1. Sound(m) /\ m \in Metas
    BY <1>1, OrderedFacts
  <2> QED
    BY <2>1 DEF RInv, Indexed, Sound, Metas
<1>3. \A i, j \in DOMAIN index : i < j => index[i].id < index[j].id
  BY <1>1 DEF Ordered
<1>4. /\ mine \subseteq 1 .. nextId - 1
      /\ {restore.restored[i] : i \in DOMAIN restore.restored} = mine
  BY DEF RInv, Renamed
<1>5. backup.at \in {"idle", "read"} /\ restore.at \in {"idle", "create", "done"}
  BY DEF RInv, Reading, Restoring
<1>6. changes \in 0 .. MaxChanges
  BY DEF RInv
<1> QED
  BY <1>1, <1>2, <1>3, <1>4, <1>5, <1>6 DEF RestoreTypeOK

LEMMA ScopesFit == RInv => ScopesKept
<1> SUFFICES ASSUME RInv, NEW m \in Overlaying(index), m.id \in mine
             PROVE  LET old == CHOOSE e \in ToSet(source) : e.id = m.text
                    IN /\ m.base \in {NoId} \cup mine
                       /\ ~failed /\ old.base \in Roots(source) =>
                            /\ old.base \in DOMAIN restore.restored
                            /\ m.base = restore.restored[old.base]
  BY RestoreTyped, Zenon DEF ScopesKept
<1> DEFINE old == CHOOSE e \in ToSet(source) : e.id = m.text
<1>1. m \in ToSet(index)
  BY DEF Overlaying
<1>2. m.base \in {NoId} \cup mine
  BY <1>1 DEF RInv, Renamed
<1>3. PICK e \in ToSet(source) :
        /\ e.id = m.text
        /\ ~failed /\ e.base \in Roots(source) =>
             /\ e.base \in DOMAIN restore.restored
             /\ m.base = restore.restored[e.base]
  BY <1>1, SteadyBases DEF RInv, Renamed
<1>4. old \in ToSet(source) /\ old.id = m.text
  BY <1>3, Zenon
<1>5. old = e
  <2> HIDE DEF old
  <2> QED
    BY <1>3, <1>4, Unique DEF RInv, Listed
<1> HIDE DEF old
<1>6. ~failed /\ old.base \in Roots(source) =>
        /\ old.base \in DOMAIN restore.restored
        /\ m.base = restore.restored[old.base]
  BY <1>3, <1>5
<1> QED
  BY <1>2, <1>6, Zenon DEF old

\* A restored overlay is never scoped to a profile that was there before, and if
\* nothing failed and its base is not itself scoped it is scoped to the restored
\* copy of that base, whatever is created, deleted and switched meanwhile, for any
\* registry that was backed up.
THEOREM ScopesHeld == RestoreSpec => []ScopesKept
BY RestoreInvariance, ScopesFit, PTL

-----------------------------------------------------------------------------
(* What is composed after a restore *)

LEMMA MirrorBegins == RInv /\ GetBundle => Mirrored'
<1> SUFFICES ASSUME RInv, GetBundle, Untouched', ~Unscoped(source)'
             PROVE  \E done, created \in Seq(Metas) :
                      Became(done, created, index, source, restore.todo,
                             restore.restored, mine)'
  BY DEF Mirrored
<1> DEFINE r == Split(archive)
<1>1. /\ restore.at = "idle" /\ mine = {} /\ archive # Nothing
      /\ restore' = [at |-> "create", todo |-> r, restored |-> NoRestored]
      /\ UNCHANGED <<index, source, mine, changed, failed>>
  BY DEF GetBundle
<1>2. Untouched
  BY <1>1 DEF Untouched
<1>3. index = source /\ archive = source
  BY <1>1, <1>2 DEF RInv, Stored
<1>4. source \in Seq(Metas) /\ Ordered(source)
  BY OrderedFacts DEF RInv, Listed
<1>5. r = Split(source) /\ r \in Seq(Metas) /\ restore'.todo = r
  BY <1>1, <1>3, <1>4, SplitOrder
<1> HIDE DEF r
<1>6. Filter(r, Inert) \in Seq(Metas)
  BY <1>5, FilterType
<1> DEFINE f == Filter(r, Inert)
<1> HIDE DEF f
<1>7. <<>> \o f = f /\ source \o <<>> = source /\ Len(<<>>) = 0
  BY <1>4, <1>6 DEF f
<1>8. index' = source' \o <<>>
  BY <1>1, <1>3, <1>7
<1>9. Filter(Split(source'), Inert) = <<>> \o Filter(restore'.todo, Inert)
  BY <1>1, <1>5, <1>7 DEF f
<1>10. Became(<<>>, <<>>, index', source', restore'.todo, restore'.restored, mine')
  <2>1. \A j \in 1 .. Len(<<>>) :
          Paired(<<>>[j], <<>>[j], source', restore'.restored, mine')
    BY <1>7
  <2> QED
    BY <1>8, <1>9, <2>1, Zenon DEF Became
<1> QED
  BY <1>10, EmptySeq

LEMMA MirrorStays ==
  ASSUME Mirrored, restore.at \in {"create", "done"},
         restore'.todo = restore.todo, restore'.restored = restore.restored,
         UNCHANGED <<index, mine, source, changed, failed>>
  PROVE  Mirrored'
<1>1. Untouched' <=> Untouched
  BY DEF Untouched
<1> QED
  BY <1>1 DEF Mirrored

\* Nothing that does something is refused.
LEMMA NoneRefused ==
  ASSUME RInv, Untouched, ~Unscoped(source), restore.todo # <<>>,
         NEW done \in Seq(Metas), NEW created \in Seq(Metas),
         Became(done, created, index, source, restore.todo, restore.restored, mine)
  PROVE  CreateAllowed(Recreated(Head(restore.todo)))
<1> DEFINE h == Head(restore.todo)
           m == Recreated(h)
           new == restore.restored
<1>1. /\ h \in ToSet(source) /\ h \in Metas /\ Sound(h)
      /\ h = restore.todo[1] /\ 1 \in DOMAIN restore.todo
  BY TurnTaken
<1>2. /\ m.base = IF h.base \in DOMAIN new THEN new[h.base] ELSE NoId
      /\ m.managed = h.managed
      /\ m.type = IF h.type = "merge" THEN "merge" ELSE "local"
  BY DEF Recreated, Remap
<1>3. h.id \notin DOMAIN new
  BY <1>1 DEF RInv, Renamed
<1> SUFFICES ASSUME m.managed
             PROVE  /\ m.type = "merge" /\ m.base # NoId
                    /\ \A i \in DOMAIN index :
                         ~(index[i].managed /\ index[i].base = m.base)
  BY DEF CreateAllowed
<1> HIDE DEF m, h
<1>4. h.managed /\ h.base # NoId /\ h.type = "merge"
  BY <1>1, <1>2 DEF Sound
<1>5. h.base \in Bases(source)
  BY <1>1, <1>4 DEF Unscoped, Overlaying
<1>6. h.base \in DOMAIN new
  <2>1. \/ h.base \in DOMAIN new
        \/ \E i \in DOMAIN restore.todo : i < 1 /\ restore.todo[i].id = h.base
    BY <1>1, <1>5, SteadyBases DEF RInv, Restoring, Untouched
  <2>2. restore.todo \in Seq(Metas) /\ \A i \in DOMAIN restore.todo : ~(i < 1)
    BY DEF RInv, Restoring
  <2> QED
    BY <2>1, <2>2
<1>7. /\ \A i, j \in DOMAIN new : new[i] = new[j] => i = j
      /\ \A i \in DOMAIN new : new[i] \in mine
      /\ mine \subseteq 1 .. nextId - 1
      /\ nextId \in Nat
  BY DEF RInv, Renamed, Indexed
<1>8. m.base = new[h.base] /\ m.base \in mine /\ m.base \in Nat
  <2>1. m.base = new[h.base] /\ m.base \in mine
    BY <1>2, <1>6, <1>7
  <2>2. \A k \in 1 .. nextId - 1 : k \in Nat
    BY <1>7
  <2> QED
    BY <1>7, <2>1, <2>2
<1>9. m.base # NoId
  BY <1>8, RestoreAssumption
<1>10. ASSUME NEW i \in DOMAIN index, index[i].managed, index[i].base = m.base
       PROVE  FALSE
  <2>1. source \in Seq(Metas) /\ Ordered(source) /\ OneEditor(source)
    BY OrderedFacts DEF RInv, Listed
  <2>2. /\ index = source \o created /\ Len(done) = Len(created)
        /\ \A j \in 1 .. Len(done) : Paired(done[j], created[j], source, new, mine)
    BY DEF Became
  <2>3. \/ i \in 1 .. Len(source) /\ index[i] = source[i]
        \/ \E k \in 1 .. Len(created) : index[i] = created[k]
    <3>1. /\ Len(source) \in Nat /\ Len(created) \in Nat
          /\ DOMAIN index = 1 .. Len(source) + Len(created)
          /\ \A k \in 1 .. Len(source) : index[k] = source[k]
          /\ \A k \in 1 .. Len(created) : index[Len(source) + k] = created[k]
      BY <2>1, <2>2
    <3>2. i \notin 1 .. Len(source) =>
            i - Len(source) \in 1 .. Len(created) /\ Len(source) + (i - Len(source)) = i
      BY <3>1
    <3> QED
      BY <3>1, <3>2
  <2>4. ASSUME i \in 1 .. Len(source), index[i] = source[i] PROVE FALSE
    <3>1. source[i] \in ToSet(source) /\ Sound(source[i]) /\ source[i].id \in Nat
      BY <2>1, <2>4, OrderedFacts
    <3>2. source[i].base \in {NoId, Gone} \cup 1 .. source[i].id - 1
      BY <3>1 DEF Sound
    <3>3. source[i].id < m.base
      BY <1>8, <3>1 DEF RInv, Listed
    <3>4. source[i].base = m.base
      BY <1>10, <2>4
    <3> QED
      BY <1>8, <3>1, <3>2, <3>3, <3>4, RestoreAssumption
  <2>5. ASSUME NEW k \in 1 .. Len(created), index[i] = created[k] PROVE FALSE
    <3>1. Paired(done[k], created[k], source, new, mine)
      BY <2>2
    <3>2. created[k].managed /\ created[k].base = new[h.base]
      BY <1>8, <1>10, <2>5
    <3> DEFINE e == done[k]
    <3>3. /\ e \in ToSet(source) /\ e.id \in DOMAIN new /\ e.managed
          /\ e.base \in Bases(source) => e.base \in DOMAIN new /\ new[h.base] = new[e.base]
      BY <3>1, <3>2 DEF Paired
    <3> HIDE DEF e
    <3>4. Sound(e)
      BY <2>1, <3>3, OrderedFacts
    <3>5. e.base \in Bases(source)
      BY <3>3, <3>4 DEF Unscoped, Overlaying, Sound
    <3>6. e.base = h.base
      BY <1>6, <1>7, <3>3, <3>5
    <3>7. e = h
      BY <1>1, <1>4, <2>1, <3>3, <3>6 DEF OneEditor
    <3> QED
      BY <1>3, <3>3, <3>7
  <2> QED
    BY <2>3, <2>4, <2>5
<1> QED
  BY <1>2, <1>4, <1>9, <1>10

LEMMA FilterFirst ==
  ASSUME NEW T, NEW S, NEW s \in Seq(T), s # <<>>
  PROVE  Filter(s, S) = IF Head(s) \in S THEN <<Head(s)>> \o Filter(Tail(s), S)
                                         ELSE Filter(Tail(s), S)
<1> DEFINE h == Head(s)
           r == Tail(s)
           f == Filter(r, S)
<1>1. h \in T /\ r \in Seq(T) /\ s = <<h>> \o r
  BY FirstAndRest
<1> HIDE DEF h, r
<1>2. f \in Seq(T)
  BY <1>1, FilterType
<1>3. <<h>> = Append(<<>>, h) /\ <<>> \in Seq(T) /\ <<h>> \in Seq(T)
  BY <1>1, EmptySeq
<1>4. Filter(<<h>>, S) = IF h \in S THEN <<h>> ELSE <<>>
  <2>1. Filter(Append(<<>>, h), S) =
          IF h \in S THEN Append(Filter(<<>>, S), h) ELSE Filter(<<>>, S)
    BY <1>1, <1>3, FilterAppend
  <2> QED
    BY <1>3, <2>1, FilterEmpty
<1>5. Filter(s, S) = Filter(<<h>>, S) \o f
  BY <1>1, <1>3, FilterConcat
<1> HIDE DEF f
<1>6. <<>> \o f = f
  BY <1>2
<1>7. Filter(s, S) = IF h \in S THEN <<h>> \o f ELSE f
  BY <1>4, <1>5, <1>6
<1> QED
  BY <1>7 DEF h, r, f

LEMMA MirrorGrows == RInv /\ Mirrored /\ Create => Mirrored'
<1> SUFFICES ASSUME RInv, Mirrored, Create, Untouched', ~Unscoped(source)'
             PROVE  \E done, created \in Seq(Metas) :
                      Became(done, created, index, source, restore.todo,
                             restore.restored, mine)'
  BY DEF Mirrored
<1> DEFINE h == Head(restore.todo)
           rest == Tail(restore.todo)
           m == Recreated(h)
           new == restore.restored
           new2 == [i \in DOMAIN new \cup {h.id} |-> IF i = h.id THEN nextId ELSE new[i]]
<1>1. /\ restore.at = "create" /\ restore.todo # <<>>
      /\ UNCHANGED <<source, changed, failed>>
  BY DEF Create
<1>2. \/ /\ h.type # "script" /\ CreateAllowed(m)
         /\ index' = Append(index, m)
         /\ mine' = mine \cup {nextId}
         /\ restore' = [at |-> "create", todo |-> rest, restored |-> new2]
      \/ /\ ~(h.type # "script" /\ CreateAllowed(m))
         /\ restore' = [restore EXCEPT !.todo = rest]
         /\ UNCHANGED <<index, mine>>
  BY DEF Create
<1>3. Untouched /\ ~Unscoped(source)
  BY <1>1 DEF Untouched
<1>4. PICK done \in Seq(Metas), created \in Seq(Metas) :
        Became(done, created, index, source, restore.todo, new, mine)
  BY <1>1, <1>3 DEF Mirrored
<1>5. CreateAllowed(m)
  BY <1>1, <1>3, <1>4, NoneRefused
<1>6. /\ h \in ToSet(source) /\ h \in Metas /\ Sound(h) /\ h = restore.todo[1]
      /\ 1 \in DOMAIN restore.todo /\ restore.todo \in Seq(Metas) /\ rest \in Seq(Metas)
  BY <1>1, TurnTaken
<1>7. restore = [at |-> restore.at, todo |-> restore.todo, restored |-> new]
  BY DEF RInv, Restoring
<1>8. /\ index = source \o created /\ Len(done) = Len(created)
      /\ Filter(Split(source), Inert) = done \o Filter(restore.todo, Inert)
      /\ \A j \in 1 .. Len(done) : Paired(done[j], created[j], source, new, mine)
  BY <1>4 DEF Became
<1>9. Filter(restore.todo, Inert) =
        IF h \in Inert THEN <<h>> \o Filter(rest, Inert) ELSE Filter(rest, Inert)
  BY <1>1, <1>6, FilterFirst
<1>10. m = [id |-> nextId, type |-> IF h.type = "merge" THEN "merge" ELSE "local",
            base |-> Remap(h.base), managed |-> h.managed, enabled |-> TRUE,
            text |-> h.text]
  BY DEF Recreated
<1>11. Remap(h.base) = IF h.base \in DOMAIN new THEN new[h.base] ELSE NoId
  BY DEF Remap
<1>12. source \in Seq(Metas) /\ Ordered(source) /\ index \in Seq(Metas)
  BY OrderedFacts DEF RInv, Listed, Indexed
<1>13. h.id \notin DOMAIN new
  BY <1>6 DEF RInv, Renamed
<1>14. /\ h.base \in Bases(source) => h.base \in DOMAIN new
       /\ NoId \notin DOMAIN new
  <2>1. h.base \in Bases(source) =>
          \/ h.base \in DOMAIN new
          \/ \E i \in DOMAIN restore.todo : i < 1 /\ restore.todo[i].id = h.base
    BY <1>3, <1>6, SteadyBases DEF RInv, Restoring, Untouched
  <2>2. \A i \in DOMAIN restore.todo : ~(i < 1)
    BY <1>6
  <2>3. DOMAIN new \subseteq Ids(source)
    BY DEF RInv, Renamed
  <2>4. Ids(source) \subseteq Nat
    BY <1>12, IdsOf, OrderedFacts
  <2> QED
    BY <2>1, <2>2, <2>3, <2>4, RestoreAssumption
<1> HIDE DEF m, h, rest, new2
<1>15. CASE h.type = "script"
  <2>1. /\ restore' = [restore EXCEPT !.todo = rest]
        /\ UNCHANGED <<index, mine>>
    BY <1>2, <1>15
  <2>2. restore' = [at |-> restore.at, todo |-> rest, restored |-> new]
    BY <1>7, <2>1
  <2>3. restore'.todo = rest /\ restore'.restored = new
    BY <2>2
  <2>4. Filter(restore.todo, Inert) = Filter(rest, Inert)
    BY <1>9, <1>15 DEF Inert
  <2>5. Became(done, created, index', source', restore'.todo, restore'.restored, mine')
    BY <1>1, <1>8, <2>1, <2>3, <2>4 DEF Became
  <2> QED
    BY <2>5
<1>16. CASE h.type # "script"
  <2>1. /\ index' = Append(index, m) /\ mine' = mine \cup {nextId}
        /\ restore' = [at |-> "create", todo |-> rest, restored |-> new2]
    BY <1>2, <1>5, <1>16
  <2>2. restore'.todo = rest /\ restore'.restored = new2
    BY <2>1
  <2>3. Ordered(index') /\ index' \in Seq(Metas)
    BY CreateStep, OrderedFacts DEF RInv, Indexed
  <2>4. m \in Metas
    <3>1. Len(index) + 1 \in DOMAIN index' /\ index'[Len(index) + 1] = m
      BY <1>12, <2>1
    <3> QED
      BY <2>3, <3>1
  <2> DEFINE done2 == Append(done, h)
             created2 == Append(created, m)
  <2>5. /\ done2 \in Seq(Metas) /\ created2 \in Seq(Metas)
        /\ Len(done2) = Len(done) + 1 /\ Len(created2) = Len(done) + 1 /\ Len(done) \in Nat
        /\ done2[Len(done) + 1] = h /\ created2[Len(done) + 1] = m
        /\ \A j \in 1 .. Len(done) : done2[j] = done[j] /\ created2[j] = created[j]
    BY <1>6, <1>8, <2>4
  <2>6. index' = source' \o created2
    <3>1. source \o Append(created, m) = Append(source \o created, m)
      BY <1>12, <2>4, AppendIsConcat, ConcatAssociative
    <3> QED
      BY <1>1, <1>8, <2>1, <3>1
  <2>7. Filter(Split(source), Inert) = done2 \o Filter(rest, Inert)
    <3> DEFINE f == Filter(rest, Inert)
    <3>1. f \in Seq(Metas)
      BY <1>6, FilterType
    <3>2. h \in Inert
      BY <1>6, <1>16 DEF Inert
    <3>3. Filter(Split(source), Inert) = done \o (<<h>> \o f)
      BY <1>8, <1>9, <3>2
    <3> HIDE DEF f
    <3>4. done \o (<<h>> \o f) = Append(done, h) \o f
      <4>1. <<h>> \in Seq(Metas) /\ done \in Seq(Metas)
        BY <1>6
      <4>2. done \o (<<h>> \o f) = (done \o <<h>>) \o f
        BY <3>1, <4>1, ConcatAssociative
      <4>3. Append(done, h) = done \o <<h>>
        BY <1>6, <4>1, AppendIsConcat
      <4> QED
        BY <4>2, <4>3
    <3>5. Filter(Split(source), Inert) = done2 \o f
      BY <3>3, <3>4
    <3> QED
      BY <3>5 DEF f
  <2> HIDE DEF done2, created2
  <2>8. /\ DOMAIN new2 = DOMAIN new \cup {h.id} /\ new2[h.id] = nextId
        /\ \A i \in DOMAIN new : new2[i] = new[i]
    BY <1>13 DEF new2
  <2>9. ASSUME NEW j \in 1 .. Len(done2)
        PROVE  Paired(done2[j], created2[j], source, new2, mine')
    <3>1. CASE j \in 1 .. Len(done)
      <4>1. Paired(done[j], created[j], source, new, mine)
        BY <1>8, <3>1
      <4>2. Paired(done[j], created[j], source, new2, mine')
        BY <2>1, <2>8, <4>1 DEF Paired
      <4> QED
        BY <2>5, <3>1, <4>2
    <3>2. CASE j = Len(done) + 1
      <4>1. /\ m.id = nextId /\ m.base = Remap(h.base) /\ m.managed = h.managed
            /\ m.type = IF h.type = "merge" THEN "merge" ELSE "local"
            /\ m.enabled = TRUE /\ m.text = h.text
        BY <1>10
      <4>2. m.type = "merge" <=> h.type = "merge"
        BY <4>1
      <4>3. h.base = NoId => m.base = NoId
        BY <1>11, <1>14, <4>1
      <4>4. h.base \in Bases(source) => h.base \in DOMAIN new2 /\ m.base = new2[h.base]
        BY <1>11, <1>14, <2>8, <4>1
      <4>5. Paired(h, m, source, new2, mine')
        BY <1>6, <2>1, <2>8, <4>1, <4>2, <4>3, <4>4 DEF Paired
      <4> QED
        BY <2>5, <3>2, <4>5
    <3> QED
      BY <2>5, <3>1, <3>2
  <2>10. Became(done2, created2, index', source', restore'.todo, restore'.restored, mine')
    BY <1>1, <2>2, <2>5, <2>6, <2>7, <2>9 DEF Became
  <2> QED
    BY <2>5, <2>10
<1> QED
  BY <1>15, <1>16

LEMMA MirrorKept == RInv /\ Mirrored /\ [RestoreNext]_restoreVars => Mirrored'
<1> SUFFICES ASSUME RInv, Mirrored, [RestoreNext]_restoreVars PROVE Mirrored'
  OBVIOUS
<1>1. CASE restore'.at \notin {"create", "done"}
  BY <1>1 DEF Mirrored
<1>2. CASE changed' = TRUE \/ failed' = TRUE
  BY <1>2 DEF Mirrored, Untouched
<1>3. CASE ListAll \/ Read \/ Put
  <2>1. archive = Nothing /\ UNCHANGED restore
    BY <1>3 DEF RInv, Reading, ListAll, Read, Put
  <2>2. restore.at = "idle"
    BY <2>1 DEF RInv, Stored
  <2> QED
    BY <1>1, <2>1, <2>2
<1>4. CASE GetBundle
  BY <1>4, MirrorBegins
<1>5. CASE Create
  BY <1>5, MirrorGrows
<1>6. CASE Reply
  <2>1. /\ restore.at = "create" /\ restore' = [restore EXCEPT !.at = "done"]
        /\ UNCHANGED <<index, mine, source, changed, failed>>
    BY <1>6 DEF Reply
  <2>2. restore = [at |-> restore.at, todo |-> restore.todo, restored |-> restore.restored]
    BY DEF RInv, Restoring
  <2>3. restore' = [at |-> "done", todo |-> restore.todo, restored |-> restore.restored]
    BY <2>1, <2>2
  <2>4. restore'.todo = restore.todo /\ restore'.restored = restore.restored
    BY <2>3
  <2> QED
    BY <2>1, <2>4, MirrorStays
<1>7. CASE OthersDelete \/ OthersCreate \/ OthersSwitch \/ FileBreaks \/ CreateFails \/ PutFails
  <2>1. changed' = TRUE \/ failed' = TRUE
    BY <1>7 DEF OthersDelete, OthersCreate, OthersSwitch, FileBreaks, CreateFails,
                PutFails, Change, Failure
  <2> QED
    BY <1>2, <2>1
<1>8. CASE UNCHANGED restoreVars
  BY <1>8 DEF restoreVars, Mirrored, Untouched
<1> QED
  BY <1>3, <1>4, <1>5, <1>6, <1>7, <1>8 DEF RestoreNext

LEMMA MirrorInvariance == RestoreSpec => []Mirrored
<1>1. RestoreInit => Mirrored
  BY DEF RestoreInit, IdleRestore, Mirrored
<1> QED
  BY <1>1, RestoreInvariance, MirrorKept, PTL DEF RestoreSpec

LEMMA TextsSet ==
  ASSUME NEW T, NEW s \in Seq(T)
  PROVE  ToSet(Texts(s)) = {m.text : m \in ToSet(s)}
<1>1. DOMAIN s = 1 .. Len(s) /\ Len(s) \in Nat
  OBVIOUS
<1>2. Texts(s) = [i \in 1 .. Len(s) |-> s[i].text]
  BY <1>1 DEF Texts
<1> DEFINE t == Texts(s)
<1>3. DOMAIN t = 1 .. Len(s) /\ \A i \in 1 .. Len(s) : t[i] = s[i].text
  BY <1>2
<1> HIDE DEF t
<1>4. ToSet(t) = {m.text : m \in ToSet(s)}
  BY <1>1, <1>3 DEF ToSet
<1> QED
  BY <1>4 DEF t

\* Splitting moves nothing but the overlays of the visual editor.
LEMMA SplitFilter ==
  ASSUME NEW s, Ordered(s), NEW O, O \subseteq Overlaying(s)
  PROVE  /\ Filter(Split(s), O) \in Seq(Metas)
         /\ ToSet(Filter(Split(s), O)) = ToSet(Filter(s, O))
         /\ ~Reordered(s) => Filter(Split(s), O) = Filter(s, O)
<1> DEFINE M == {e \in ToSet(s) : e.managed}
           u == Filter(s, ToSet(s) \ M)
           v == Filter(s, M)
<1>1. Split(s) = u \o v
  BY DEF Split
<1>2. s \in Seq(Metas) /\ DOMAIN s = 1 .. Len(s)
  BY OrderedFacts
<1>3. u \in Seq(Metas) /\ v \in Seq(Metas)
  BY <1>2, FilterType
<1>4. O \subseteq ToSet(s)
  BY DEF Overlaying
<1>5. (ToSet(s) \ M) \cap O = O \ M /\ M \cap O = O \cap M
  BY <1>4
<1>6. Filter(u, O) = Filter(s, O \ M) /\ Filter(v, O) = Filter(s, O \cap M)
  <2>1. Filter(u, O) = Filter(s, (ToSet(s) \ M) \cap O)
    BY <1>2, FilterTwice
  <2>2. Filter(v, O) = Filter(s, M \cap O)
    BY <1>2, FilterTwice
  <2> QED
    BY <1>5, <2>1, <2>2
<1>7. Filter(Split(s), O) = Filter(s, O \ M) \o Filter(s, O \cap M)
  <2> HIDE DEF u, v, M
  <2>1. Filter(u \o v, O) = Filter(u, O) \o Filter(v, O)
    BY <1>3, FilterConcat
  <2> QED
    BY <1>1, <1>6, <2>1
<1>8. Split(s) \in Seq(Metas) /\ ToSet(Split(s)) = ToSet(s)
  BY SplitOrder
<1>9. /\ Filter(Split(s), O) \in Seq(Metas)
      /\ ToSet(Filter(Split(s), O)) = ToSet(s) \cap O
      /\ ToSet(Filter(s, O)) = ToSet(s) \cap O
  BY <1>2, <1>8, FilterType, FilterRange
<1>10. ASSUME ~Reordered(s) PROVE Filter(Split(s), O) = Filter(s, O)
  <2>1. ASSUME NEW i \in 1 .. Len(s), NEW j \in 1 .. Len(s), i < j,
               s[i] \in M, s[j] \in O \ M
        PROVE  FALSE
    <3>1. s[i].managed /\ s[j].type = "merge" /\ s[j] \in ToSet(s) /\ ~s[j].managed
      BY <2>1 DEF Overlaying
    <3> QED
      BY <1>2, <1>10, <2>1, <3>1 DEF Reordered
  <2> HIDE DEF M, u, v
  <2> DEFINE A == O \cap M
             B == O \ M
  <2>2. ComesLast(s, A, B) /\ O = A \cup B /\ A \cap B = {}
    BY <2>1 DEF ComesLast
  <2> HIDE DEF A, B
  <2>3. Filter(s, B) \o Filter(s, A) = Filter(s, O)
    BY <1>2, <2>2, FilterParts
  <2> QED
    BY <1>7, <2>3 DEF A, B
<1> QED
  BY <1>9, <1>10

LEMMA ComposedAlikeAtEnd ==
  ASSUME RInv, Mirrored, restore.at = "done", ~changed, ~failed,
         ~Reenabled(source), ~Unscoped(source), NEW b \in Bases(source)
  PROVE  LET was == Texts(Overlays(source, b))
             is  == Texts(Filter(Overlays(index, restore.restored[b]),
                                 {m \in ToSet(index) : m.id \in mine}))
         IN IF Reordered(source) THEN ToSet(is) = ToSet(was) ELSE is = was
<1> DEFINE new == restore.restored
           O == {m \in ToSet(source) : /\ m.type = "merge" /\ m.enabled
                                       /\ m.base \in {NoId, b}}
           N == {m \in ToSet(index) : /\ m.type = "merge" /\ m.enabled
                                      /\ m.base \in {NoId, new[b]}}
           M == {m \in ToSet(index) : m.id \in mine}
<1>1. PICK done \in Seq(Metas), created \in Seq(Metas) :
        Became(done, created, index, source, restore.todo, new, mine)
  BY DEF Mirrored, Untouched
<1>2. /\ index = source \o created /\ Len(done) = Len(created)
      /\ Filter(Split(source), Inert) = done \o Filter(restore.todo, Inert)
      /\ \A j \in 1 .. Len(done) : Paired(done[j], created[j], source, new, mine)
  BY <1>1 DEF Became
<1>3. /\ Ordered(source) /\ source \in Seq(Metas) /\ index \in Seq(Metas)
      /\ \A e \in ToSet(source) : e.id \in Nat
  BY OrderedFacts DEF RInv, Listed, Indexed
<1>4. Filter(Split(source), Inert) = done
  <2>1. restore.todo = <<>>
    BY DEF RInv, Restoring
  <2>2. done \o <<>> = done
    OBVIOUS
  <2> QED
    BY <1>2, <2>1, <2>2, FilterEmpty
<1>5. Split(source) \in Seq(Metas) /\ ToSet(Split(source)) = ToSet(source)
  BY <1>3, SplitOrder
<1>6. b \in DOMAIN new /\ b \in Nat
  <2>1. PICK e \in ToSet(source) : e.id = b /\ e.type \in {"local", "remote"}
    BY DEF Bases
  <2>2. e \in Inert
    BY <1>3, <2>1, OrderedFacts DEF Inert
  <2>3. e \in ToSet(done)
    BY <1>4, <1>5, <2>1, <2>2, FilterRange
  <2>4. PICK j \in 1 .. Len(done) : done[j] = e
    BY <2>3, SetOf
  <2>5. Paired(e, created[j], source, new, mine)
    BY <1>2, <2>4
  <2> QED
    BY <1>3, <2>1, <2>5 DEF Paired
<1>7. /\ \A i, j \in DOMAIN new : new[i] = new[j] => i = j
      /\ \A i \in DOMAIN new : new[i] \in mine
      /\ \A k \in mine : k \in Nat /\ k # NoId
  <2>1. mine \subseteq 1 .. nextId - 1 /\ nextId \in Nat
    BY DEF RInv, Renamed, Indexed
  <2>2. \A k \in 1 .. nextId - 1 : k \in Nat
    BY <2>1
  <2> QED
    BY <2>1, <2>2, RestoreAssumption DEF RInv, Renamed
<1>8. Overlays(source, b) = Filter(source, O)
  BY DEF Overlays
<1>9. Overlays(index, new[b]) = Filter(index, N)
  BY DEF Overlays
<1>10. /\ \A m \in O : m \in Overlaying(source)
       /\ \A m \in Overlaying(source) : /\ m \in ToSet(source) /\ m.type = "merge" /\ m.enabled
                                         /\ m.base \in {NoId} \cup Bases(source)
  BY DEF Overlaying, Reenabled, Unscoped
<1>11. \A e \in ToSet(source) : e.type = "merge" =>
         (e \in O <=> e.base \in {NoId, b})
  BY <1>10 DEF Overlaying
<1>12. ASSUME NEW j \in 1 .. Len(done)
       PROVE  /\ done[j] \in O <=> created[j] \in N \cap M
              /\ done[j].text = created[j].text
  <2>1. Paired(done[j], created[j], source, new, mine)
    BY <1>2
  <2>2. created[j] \in ToSet(index)
    <3>1. Len(source) + j \in 1 .. Len(index) /\ index[Len(source) + j] = created[j]
      BY <1>2, <1>3
    <3> QED
      BY <1>3, <3>1, SetOf
  <2> DEFINE e == done[j]
             m == created[j]
  <2>3. /\ e \in ToSet(source) /\ e.id \in DOMAIN new /\ m.id \in mine
        /\ m.text = e.text /\ m.enabled = TRUE
        /\ m.type = "merge" <=> e.type = "merge"
        /\ e.base = NoId => m.base = NoId
        /\ e.base \in Bases(source) => e.base \in DOMAIN new /\ m.base = new[e.base]
    BY <2>1 DEF Paired
  <2>4. m \in ToSet(index)
    BY <2>2
  <2> HIDE DEF e, m
  <2>5. CASE e.type # "merge"
    <3>1. e \notin O
      BY <2>5
    <3>2. m \notin N
      BY <2>3, <2>5
    <3> QED
      BY <2>3, <3>1, <3>2 DEF e, m
  <2>6. CASE e.type = "merge"
    <3>1. e.base \in {NoId} \cup Bases(source)
      BY <1>10, <2>3, <2>6 DEF Overlaying
    <3>2. b # NoId
      BY <1>6, RestoreAssumption
    <3>3. e.base \in {NoId, b} <=> m.base \in {NoId, new[b]}
      <4>1. CASE e.base = NoId
        BY <2>3, <4>1
      <4>2. CASE e.base # NoId
        <5>1. e.base \in DOMAIN new /\ m.base = new[e.base] /\ m.base \in mine
          BY <1>7, <2>3, <3>1, <4>2
        <5>2. m.base # NoId
          BY <1>7, <5>1
        <5>3. m.base = new[b] <=> e.base = b
          BY <1>6, <1>7, <5>1
        <5> QED
          BY <4>2, <5>2, <5>3
      <4> QED
        BY <4>1, <4>2
    <3>4. e \in O <=> e.base \in {NoId, b}
      BY <1>11, <2>3, <2>6
    <3>5. m \in N \cap M <=> m.base \in {NoId, new[b]}
      BY <2>3, <2>4, <2>6
    <3>6. (e \in O <=> m \in N \cap M) /\ e.text = m.text
      BY <2>3, <3>3, <3>4, <3>5
    <3> QED
      BY <3>6 DEF e, m
  <2> QED
    BY <2>5, <2>6
<1>13. O \subseteq Overlaying(source) /\ O \subseteq Inert
  BY <1>3, <1>10, OrderedFacts DEF Inert
<1>14. ToSet(source) \cap (N \cap M) = {}
  <2>1. ASSUME NEW e \in ToSet(source), e.id \in mine PROVE FALSE
    <3>1. e.id < e.id
      BY <2>1 DEF RInv, Listed
    <3> QED
      BY <1>3, <3>1
  <2> QED
    BY <2>1
<1> DEFINE A == N \cap M
<1>24. Agree(done, O, created, A)
  BY <1>2, <1>12 DEF Agree
<1>25. ToSet(source) \cap A = {}
  BY <1>14
<1> HIDE DEF O, N, M, A, new
<1>15. Filter(Filter(index, N), M) = Filter(created, A)
  <2>1. Filter(Filter(index, N), M) = Filter(index, A)
    BY <1>3, FilterTwice DEF A
  <2>2. Filter(index, A) = Filter(source, A) \o Filter(created, A)
    <3>1. Filter(source \o created, A) = Filter(source, A) \o Filter(created, A)
      BY <1>3, FilterConcat
    <3> QED
      BY <1>2, <3>1
  <2>3. Filter(source, A) = <<>>
    BY <1>3, <1>25, FilterNone
  <2>4. Filter(created, A) \in Seq(Metas)
    BY FilterType
  <2>5. <<>> \o Filter(created, A) = Filter(created, A)
    BY <2>4
  <2> QED
    BY <2>1, <2>2, <2>3, <2>5
<1>16. Texts(Filter(done, O)) = Texts(Filter(created, A))
  BY <1>24, FilterAlike
<1>17. Filter(done, O) = Filter(Split(source), O)
  <2>1. Inert \cap O = O
    BY <1>13
  <2> QED
    BY <1>4, <1>5, <2>1, FilterTwice
<1>18. /\ Filter(Split(source), O) \in Seq(Metas)
       /\ ToSet(Filter(Split(source), O)) = ToSet(Filter(source, O))
       /\ ~Reordered(source) => Filter(Split(source), O) = Filter(source, O)
  BY <1>3, <1>13, SplitFilter
<1> DEFINE was == Texts(Filter(source, O))
           is  == Texts(Filter(Filter(index, N), M))
<1>19. is = Texts(Filter(Split(source), O))
  BY <1>15, <1>16, <1>17
<1>20. Filter(source, O) \in Seq(Metas)
  BY <1>3, FilterType
<1>21. ToSet(is) = ToSet(was)
  BY <1>18, <1>19, <1>20, TextsSet
<1>22. ~Reordered(source) => is = was
  BY <1>18, <1>19
<1> HIDE DEF is, was
<1>23. IF Reordered(source) THEN ToSet(is) = ToSet(was) ELSE is = was
  BY <1>21, <1>22
<1> QED
  BY <1>8, <1>9, <1>23, Zenon DEF is, was, M, new

\* Restored profiles compose as those that were backed up did, on a registry of
\* any size, when nothing was changed meanwhile and nothing failed.
THEOREM ComposedAlike == RestoreSpec => []RestoredComposesAlike
<1>1. RInv /\ Mirrored => RestoredComposesAlike
  BY ComposedAlikeAtEnd, Zenon DEF RestoredComposesAlike
<1> QED
  BY <1>1, RestoreInvariance, MirrorInvariance, PTL

-----------------------------------------------------------------------------
(* ClashProxy *)

Words == Secrets \cup {None} \cup 1 .. boots

\* Where the supervisor is: no start is under way once a kernel is said to run, and
\* a server that is gone has left nothing under way.
Starting ==
  /\ up \in BOOLEAN /\ boots \in 1 .. MaxBoots /\ spawns \in Nat
  /\ opts.secret \in Secrets \cup 1 .. boots
  /\ opts.mixedPort \in Ports \cup {None}
  /\ status \in {"down", "starting", "running"}
  /\ start.step \in {"none", "read", "write", "spawn", "poll"}
  /\ status = "running" => start.step = "none"
  /\ ~up => status = "down" /\ start.step = "none" /\ kernel = Down

\* Who has the address takes the managed secret: the kernel, if nobody had it
\* before, else the one that had, for as long as it lives.
Answering ==
  IF kernel.alone
    THEN /\ Loads(kernel.file) /\ Value(kernel.file, "external-controller") = Address
         /\ Value(kernel.file, "secret") \in {None, opts.secret}
    ELSE \A asked \in orphans : asked \in {None, opts.secret}

KernelFields == {"nr", "file", "alive", "alone", "text", "calm"}

\* Kernels are numbered, at most one listens that is not tracked, and none beside
\* one that came alone.  When one is said to run the poll was answered.
Polled ==
  /\ \A a, b \in orphans : a = b
  /\ kernel # Down =>
       /\ DOMAIN kernel = KernelFields
       /\ kernel.nr \in Nat /\ kernel.nr = spawns /\ spawns # 0
       /\ kernel.alone => orphans = {}
  /\ status = "running" /\ kernel # Down => Answering

\* A call that was let through bears the secret of this run of the server, and
\* what it saw running is the one whose start was polled.
Calling(k) ==
  /\ DOMAIN k = {"at", "word", "nr", "answer"}
  /\ k.at \in {"idle", "sent", "checked", "answered"}
  /\ k.nr \in Nat /\ k.nr <= spawns
  /\ k.at = "sent" => k.answer = "ok"
  /\ k.at = "checked" =>
       /\ k.word = opts.secret
       /\ kernel # Down /\ kernel.nr = k.nr => Answering

PInv ==
  /\ Starting /\ Polled
  /\ noted \in Words
  /\ DOMAIN calls = {Panel, Dashboard}
  /\ \A c \in {Panel, Dashboard} : Calling(calls[c])

-----------------------------------------------------------------------------
LEMMA InitInv == ProxyInit => PInv
<1> SUFFICES ASSUME ProxyInit PROVE PInv
  OBVIOUS
<1>1. /\ up = TRUE /\ boots = 1 /\ spawns = 0
      /\ start = [step |-> "none", read |-> <<>>]
      /\ kernel = Down /\ orphans = {} /\ status = "down" /\ noted = None
      /\ calls = [c \in {Panel, Dashboard} |-> Idle]
  BY DEF ProxyInit, FileInit
<1>2. opts.secret \in Secrets \cup 1 .. 1 /\ opts.mixedPort \in Ports \cup {None}
  BY DEF ProxyInit, FileInit, EffectiveSecret
<1>3. Starting /\ Polled
  BY <1>1, <1>2, ActiveFileAssumption DEF Starting, Polled
<1>4. Calling(Idle)
  BY <1>1 DEF Calling, Idle
<1> QED
  BY <1>1, <1>3, <1>4 DEF PInv, Words

\* The kernel is the one it was, dead or alive, and no other one came.
Stays ==
  /\ kernel # Down
  /\ kernel'.nr = kernel.nr /\ kernel'.file = kernel.file /\ kernel'.alone = kernel.alone
  /\ orphans' \subseteq orphans

LEMMA KeepsAnswering ==
  ASSUME Answering, Stays, opts'.secret = opts.secret
  PROVE  Answering'
<1>1. CASE kernel.alone
  <2>1. kernel'.alone /\ kernel'.file = kernel.file
    BY <1>1 DEF Stays
  <2> QED
    BY <1>1, <2>1 DEF Answering
<1>2. CASE ~kernel.alone
  <2>1. ~kernel'.alone /\ orphans' \subseteq orphans
    BY <1>2 DEF Stays
  <2> QED
    BY <1>2, <2>1 DEF Answering
<1> QED
  BY <1>1, <1>2

\* What the steps of file and kernel do to a call under way.
LEMMA KeepsCalling ==
  ASSUME PInv, NEW c \in {Panel, Dashboard}, spawns' \in Nat, spawns' >= spawns,
         opts'.secret = opts.secret,
         Stays \/ kernel' = Down \/ kernel'.nr = spawns + 1,
         UNCHANGED calls
  PROVE  Calling(calls[c])'
<1>1. Calling(calls[c]) /\ spawns \in Nat /\ calls'[c] = calls[c]
  BY DEF PInv, Starting
<1>2. /\ DOMAIN calls'[c] = {"at", "word", "nr", "answer"}
      /\ calls'[c].at \in {"idle", "sent", "checked", "answered"}
      /\ calls'[c].nr \in Nat /\ calls'[c].nr <= spawns'
      /\ calls'[c].at = "sent" => calls'[c].answer = "ok"
  BY <1>1 DEF Calling
<1>3. ASSUME calls'[c].at = "checked"
      PROVE  /\ calls'[c].word = opts'.secret
             /\ kernel' # Down /\ kernel'.nr = calls'[c].nr => Answering'
  <2>1. /\ calls[c].at = "checked" /\ calls[c].nr \in Nat /\ calls[c].nr <= spawns
        /\ calls[c].word = opts.secret
        /\ kernel # Down /\ kernel.nr = calls[c].nr => Answering
    BY <1>1, <1>3 DEF Calling
  <2>2. CASE Stays
    <3>1. kernel # Down /\ kernel'.nr = kernel.nr
      BY <2>2 DEF Stays
    <3> QED
      BY <1>1, <2>1, <2>2, <3>1, KeepsAnswering
  <2>3. CASE kernel'.nr = spawns + 1
    BY <1>1, <2>1, <2>3
  <2> QED
    BY <1>1, <2>1, <2>2, <2>3
<1> QED
  BY <1>2, <1>3 DEF Calling

\* A step that leaves the kernel, or kills it, changes nothing about the poll
\* unless it says that a kernel runs.
LEMMA KeepsPolled ==
  ASSUME PInv, opts'.secret = opts.secret, spawns' = spawns,
         kernel' = kernel \/ kernel' = Down, orphans' \subseteq orphans,
         status' = "running" => status = "running"
  PROVE  Polled'
<1>1. \A a, b \in orphans' : a = b
  BY DEF PInv, Polled
<1>2. CASE kernel' = Down
  BY <1>1, <1>2 DEF Polled
<1>3. CASE kernel' = kernel /\ kernel # Down
  <2>1. Stays
    BY <1>3 DEF Stays
  <2>2. status' = "running" => Answering'
    BY <1>3, <2>1, KeepsAnswering DEF PInv, Polled
  <2>3. /\ DOMAIN kernel' = KernelFields
        /\ kernel'.nr \in Nat /\ kernel'.nr = spawns' /\ spawns' # 0
        /\ kernel'.alone => orphans' = {}
    BY <1>3 DEF PInv, Polled
  <2> QED
    BY <1>1, <2>2, <2>3 DEF Polled, KernelFields
<1> QED
  BY <1>2, <1>3

\* The steps of ActiveFile.
LEMMA FileStep ==
  ASSUME PInv, FileNext, UNCHANGED <<noted, calls>>,
         up' /\ ~up => \A c \in DOMAIN calls : calls[c] = Idle
  PROVE  PInv'
<1> USE DEF PInv
<1>0. /\ kernel' = kernel /\ orphans' \subseteq orphans => Stays \/ kernel' = Down
      /\ spawns \in Nat
  BY DEF Stays, Starting
<1>1. CASE Compose \/ ReadFile \/ WriteFile \/ BeginStart
  <2>1. UNCHANGED <<opts, boots, spawns, up, kernel, orphans>>
    BY <1>1 DEF Compose, ReadFile, WriteFile, BeginStart
  <2>2. \/ Compose /\ start' = start /\ status' = status
        \/ /\ start.step # "none" /\ start'.step \in {"write", "spawn"}
           /\ status' = status
        \/ up /\ start'.step = "read" /\ status' = "starting"
    BY <1>1 DEF Compose, ReadFile, WriteFile, BeginStart
  <2>3. Starting'
    BY <2>1, <2>2 DEF Starting
  <2>4. Polled' /\ noted' \in Words'
    BY <2>1, <2>2, KeepsPolled DEF Words
  <2>5. \A c \in {Panel, Dashboard} : Calling(calls[c])'
    BY <1>0, <2>1, KeepsCalling
  <2> QED
    BY <2>3, <2>4, <2>5
<1>2. CASE Ready
  <2>1. /\ start.step = "poll" /\ status = "starting" /\ status' = "running"
        /\ start' = [start EXCEPT !.step = "none"]
        /\ UNCHANGED <<opts, boots, spawns, up, kernel, orphans>> /\ Accepts(opts.secret)
    BY <1>2 DEF Ready, pollReady
  <2>2. start'.step = "none"
    BY <2>1
  <2>3. Starting'
    BY <2>1, <2>2 DEF Starting
  <2>4. PICK asked \in Listening : asked \in {None, opts.secret}
    BY <2>1 DEF Accepts
  <2>5. ASSUME kernel # Down PROVE Answering
    <3>1. CASE kernel.alone
      <4>1. orphans = {} /\ Listens(kernel) /\ Listening = {Value(kernel.file, "secret")}
        BY <2>4, <2>5, <3>1 DEF Listening, Polled
      <4> QED
        BY <2>4, <3>1, <4>1 DEF Answering, Listens
    <3>2. CASE ~kernel.alone
      <4>1. Listening = orphans
        BY <3>2 DEF Listening, Listens
      <4>2. \A a \in orphans : a = asked
        BY <2>4, <4>1 DEF Polled
      <4> QED
        BY <2>4, <3>2, <4>2 DEF Answering
    <3> QED
      BY <3>1, <3>2
  <2>6. kernel # Down => Answering'
    BY <2>1, <2>5 DEF Answering
  <2>7. Polled' /\ noted' \in Words'
    BY <2>1, <2>6 DEF Polled, Words, KernelFields
  <2>8. \A c \in {Panel, Dashboard} : Calling(calls[c])'
    BY <1>0, <2>1, KeepsCalling
  <2> QED
    BY <2>3, <2>7, <2>8
<1>3. CASE NotReady \/ WatchExit \/ StopKernel
  <2>1. /\ UNCHANGED <<opts, boots, spawns, up, orphans>>
        /\ kernel' = Down /\ status' = "down"
        /\ start' = start \/ start' = [start EXCEPT !.step = "none"]
    BY <1>3 DEF NotReady, WatchExit, StopKernel
  <2>2. start'.step = start.step \/ start'.step = "none"
    <3>1. CASE start' = start
      BY <3>1
    <3>2. CASE start' = [start EXCEPT !.step = "none"]
      BY <3>2
    <3> QED
      BY <2>1, <3>1, <3>2
  <2>3. Starting'
    BY <2>1, <2>2 DEF Starting
  <2>4. Polled' /\ noted' \in Words'
    BY <2>1, KeepsPolled DEF Words
  <2>5. \A c \in {Panel, Dashboard} : Calling(calls[c])'
    BY <1>0, <2>1, KeepsCalling
  <2> QED
    BY <2>3, <2>4, <2>5
<1>4. CASE Exit
  <2>1. UNCHANGED <<opts, boots, spawns, up, start, status>>
    BY <1>4 DEF Exit
  <2>2. CASE orphans' = {} /\ kernel' = kernel
    <3>1. Starting'
      BY <2>1, <2>2 DEF Starting
    <3>2. Polled' /\ noted' \in Words'
      BY <2>1, <2>2, KeepsPolled DEF Words
    <3>3. \A c \in {Panel, Dashboard} : Calling(calls[c])'
      BY <1>0, <2>1, <2>2, KeepsCalling
    <3> QED
      BY <3>1, <3>2, <3>3
  <2>3. CASE /\ kernel # Down /\ kernel' = [kernel EXCEPT !.alive = FALSE]
             /\ orphans' = orphans
    <3>1. /\ kernel'.nr = kernel.nr /\ kernel'.file = kernel.file
          /\ kernel'.alone = kernel.alone /\ DOMAIN kernel' = KernelFields
      BY <2>3 DEF Polled, KernelFields
    <3>2. Stays
      BY <2>3, <3>1 DEF Stays
    <3>3. Starting'
      BY <2>1, <2>3 DEF Starting
    <3>4. status' = "running" => Answering'
      BY <2>1, <2>3, <3>2, KeepsAnswering DEF Polled
    <3>5. Polled' /\ noted' \in Words'
      BY <2>1, <2>3, <3>1, <3>4 DEF Polled, Words, KernelFields
    <3>6. \A c \in {Panel, Dashboard} : Calling(calls[c])'
      BY <1>0, <2>1, <3>2, KeepsCalling
    <3> QED
      BY <3>3, <3>5, <3>6
  <2> QED
    BY <1>4, <2>2, <2>3 DEF Exit
<1>5. CASE Spawn
  <2>1. /\ start.step = "spawn" /\ spawns' = spawns + 1
        /\ kernel' = [nr |-> spawns + 1, file |-> file, alive |-> TRUE,
                      alone |-> Listening = {}, text |-> text, calm |-> calm /\ kept]
        /\ orphans' = Listening /\ start'.step = "poll"
        /\ UNCHANGED <<opts, boots, up, status>>
    BY <1>5 DEF Spawn
  <2>2. kernel'.nr = spawns + 1 /\ DOMAIN kernel' = KernelFields
    BY <2>1 DEF KernelFields
  <2>3. kernel'.alone => orphans' = {}
    BY <2>1
  <2>4. \A a, b \in orphans' : a = b
    BY <2>1 DEF Listening, Polled
  <2>5. Starting'
    BY <2>1 DEF Starting
  <2>6. Polled' /\ noted' \in Words'
    BY <1>0, <2>1, <2>2, <2>3, <2>4 DEF Polled, Words, Starting, KernelFields
  <2>7. \A c \in {Panel, Dashboard} : Calling(calls[c])'
    BY <1>0, <2>1, <2>2, KeepsCalling
  <2> QED
    BY <2>5, <2>6, <2>7
<1>6. CASE ServerDown
  <2>1. /\ up' = FALSE /\ kernel' = Down /\ status' = "down"
        /\ start'.step = "none" /\ orphans' \in {orphans, Listening}
        /\ UNCHANGED <<opts, boots, spawns>>
    BY <1>6 DEF ServerDown
  <2>2. Starting'
    BY <2>1 DEF Starting
  <2>3. \A a, b \in orphans' : a = b
    BY <2>1 DEF Listening, Polled
  <2>4. Polled' /\ noted' \in Words'
    BY <2>1, <2>3 DEF Polled, Words
  <2>5. \A c \in {Panel, Dashboard} : Calling(calls[c])'
    BY <1>0, <2>1, KeepsCalling
  <2> QED
    BY <2>2, <2>4, <2>5
<1>7. CASE ServerUp
  <2>1. /\ ~up /\ up' = TRUE /\ boots < MaxBoots /\ boots' = boots + 1
        /\ UNCHANGED <<spawns, start, kernel, orphans, status>>
    BY <1>7 DEF ServerUp
  <2>2. opts'.secret \in Secrets \cup {boots + 1} /\ opts'.mixedPort \in Ports \cup {None}
    BY <1>7 DEF ServerUp, Boot, EffectiveSecret
  <2>3. Starting'
    BY <2>1, <2>2, ActiveFileAssumption DEF Starting
  <2>4. Polled' /\ noted' \in Words'
    BY <2>1 DEF Starting, Polled, Words
  <2>5. ASSUME NEW c \in {Panel, Dashboard} PROVE Calling(calls[c])'
    <3>1. calls'[c] = Idle
      BY <2>1
    <3> QED
      BY <2>1, <3>1 DEF Calling, Idle, Starting
  <2> QED
    BY <2>3, <2>4, <2>5
<1> QED
  BY <1>1, <1>2, <1>3, <1>4, <1>5, <1>6, <1>7 DEF FileNext

\* A call goes on, the rest stays.
LEMMA CallStep ==
  ASSUME PInv, NEW c \in {Panel, Dashboard}, NEW k, Calling(k),
         calls' = [calls EXCEPT ![c] = k], UNCHANGED <<fileVars, noted>>
  PROVE  PInv'
<1> USE DEF PInv
<1>1. /\ DOMAIN calls' = {Panel, Dashboard} /\ calls'[c] = k
      /\ \A d \in {Panel, Dashboard} \ {c} : calls'[d] = calls[d]
  OBVIOUS
<1>2. UNCHANGED <<opts, boots, spawns, up, kernel, orphans, status, start>>
  BY DEF fileVars
<1>3. Starting' /\ Polled' /\ noted' \in Words'
  BY <1>2 DEF Starting, Polled, Words, Answering, KernelFields
<1>4. ASSUME NEW d \in {Panel, Dashboard} PROVE Calling(calls[d])'
  <2>1. Calling(calls'[d])
    BY <1>1
  <2> QED
    BY <1>2, <2>1 DEF Calling, Answering
<1> QED
  BY <1>1, <1>3, <1>4

LEMMA SendStep ==
  ASSUME PInv, NEW c \in {Panel, Dashboard}, Send(c)
  PROVE  PInv'
<1> DEFINE k == [[calls[c] EXCEPT !.at = "sent"]
                   EXCEPT !.word = IF c = Panel THEN noted ELSE None]
<1>1. /\ calls[c] = Idle /\ UNCHANGED <<fileVars, noted>>
      /\ calls' = [calls EXCEPT ![c].at = "sent",
                              ![c].word = IF c = Panel THEN noted ELSE None]
  BY DEF Send
<1>2. calls' = [calls EXCEPT ![c] = k]
  BY <1>1 DEF PInv
<1>3. k.at = "sent" /\ k.nr = 0 /\ k.answer = "ok"
  BY <1>1 DEF Idle
<1>4. Calling(k)
  BY <1>3 DEF Calling, PInv, Starting
<1> HIDE DEF k
<1> QED
  BY <1>1, <1>2, <1>4, CallStep

LEMMA CheckStep ==
  ASSUME PInv, NEW c \in {Panel, Dashboard}, Check(c)
  PROVE  PInv'
<1> DEFINE k == IF c = Panel /\ ~validClashSecret(calls[c].word)
                  THEN Answered(c, "unauthorized")
                ELSE IF status # "running" THEN Answered(c, "unavailable")
                ELSE [calls[c] EXCEPT !.at = "checked", !.word = opts.secret,
                        !.nr = IF kernel = Down THEN 0 ELSE kernel.nr]
<1>1. /\ calls[c].at = "sent" /\ UNCHANGED <<fileVars, noted>>
      /\ calls' = [calls EXCEPT ![c] = k]
  BY DEF Check
<1>2. Calling(calls[c]) /\ spawns \in Nat
  BY DEF PInv, Starting
<1>3. CASE c = Panel /\ ~validClashSecret(calls[c].word)
  <2>1. k = [calls[c] EXCEPT !.at = "answered", !.answer = "unauthorized"]
    BY <1>3 DEF Answered
  <2> HIDE DEF k
  <2> QED
    BY <1>1, <1>2, <2>1, CallStep DEF Calling
<1>4. CASE ~(c = Panel /\ ~validClashSecret(calls[c].word)) /\ status # "running"
  <2>1. k = [calls[c] EXCEPT !.at = "answered", !.answer = "unavailable"]
    BY <1>4 DEF Answered
  <2> HIDE DEF k
  <2> QED
    BY <1>1, <1>2, <2>1, CallStep DEF Calling
<1>5. CASE ~(c = Panel /\ ~validClashSecret(calls[c].word)) /\ status = "running"
  <2> DEFINE n == IF kernel = Down THEN 0 ELSE kernel.nr
  <2>1. k = [calls[c] EXCEPT !.at = "checked", !.word = opts.secret, !.nr = n]
    BY <1>5
  <2>2. /\ n \in Nat /\ n <= spawns
        /\ kernel # Down => Answering
    BY <1>2, <1>5 DEF PInv, Polled
  <2> HIDE DEF k, n
  <2>3. Calling(k)
    BY <1>2, <2>1, <2>2 DEF Calling
  <2> QED
    BY <1>1, <2>3, CallStep
<1> QED
  BY <1>3, <1>4, <1>5

LEMMA ForwardStep ==
  ASSUME PInv, NEW c \in {Panel, Dashboard}, Forward(c)
  PROVE  PInv'
<1> PICK a : calls' = [calls EXCEPT ![c] = Answered(c, a)]
  BY DEF Forward
<1> DEFINE k == [calls[c] EXCEPT !.at = "answered", !.answer = a]
<1>1. UNCHANGED <<fileVars, noted>> /\ calls' = [calls EXCEPT ![c] = k]
  BY DEF Forward, Answered
<1>2. Calling(calls[c])
  BY DEF PInv
<1> HIDE DEF k
<1>3. k = [calls[c] EXCEPT !.at = "answered", !.answer = a]
  BY DEF k
<1>4. Calling(k)
  BY <1>2, <1>3 DEF Calling
<1> QED
  BY <1>1, <1>4, CallStep

LEMMA ReturnStep ==
  ASSUME PInv, NEW c \in {Panel, Dashboard}, Return(c)
  PROVE  PInv'
<1>1. UNCHANGED <<fileVars, noted>> /\ calls' = [calls EXCEPT ![c] = Idle]
  BY DEF Return
<1>2. Calling(Idle)
  BY DEF Calling, Idle, PInv, Starting
<1> QED
  BY <1>1, <1>2, CallStep

LEMMA StepInv == PInv /\ [ProxyNext]_proxyVars => PInv'
<1> SUFFICES ASSUME PInv, [ProxyNext]_proxyVars PROVE PInv'
  OBVIOUS
<1>1. DOMAIN calls = {Panel, Dashboard}
  BY DEF PInv
<1>2. CASE UNCHANGED proxyVars
  BY <1>2 DEF proxyVars, fileVars, PInv, Starting, Polled, Calling, Words, Answering,
              KernelFields
<1>3. CASE ReadLog
  <2>1. /\ noted' = opts.secret /\ UNCHANGED fileVars /\ calls' = calls
    BY <1>3 DEF ReadLog
  <2> QED
    BY <2>1 DEF fileVars, PInv, Starting, Polled, Calling, Words, Answering, KernelFields
<1>4. ASSUME NEW c \in DOMAIN calls, Send(c) \/ Check(c) \/ Forward(c) \/ Return(c)
      PROVE  PInv'
  BY <1>1, <1>4, SendStep, CheckStep, ForwardStep, ReturnStep
<1>5. CASE FileNext /\ (up' /\ ~up => \A c \in DOMAIN calls : calls[c] = Idle)
             /\ UNCHANGED <<noted, calls>>
  BY <1>5, FileStep
<1> QED
  BY <1>2, <1>3, <1>4, <1>5 DEF ProxyNext

LEMMA Invariance == ProxySpec => []PInv
  BY InitInv, StepInv, PTL DEF ProxySpec

-----------------------------------------------------------------------------
\* The parts of a start, the numbers of kernels and the calls keep their types.
THEOREM ProxyTypes == ProxySpec => []ProxyTypeOK
<1>1. PInv => ProxyTypeOK
  <2> SUFFICES ASSUME PInv PROVE ProxyTypeOK
    OBVIOUS
  <2>1. opts.secret \in Secrets \cup 1 .. MaxBoots
    BY ActiveFileAssumption DEF PInv, Starting
  <2> QED
    BY <2>1 DEF PInv, Starting, Polled, Calling, Words, ProxyTypeOK
<1> QED
  BY <1>1, Invariance, PTL

\* Who answers a call that is under way, and lets it through.
LEMMA OnlyServed ==
  ASSUME PInv, [ProxyNext]_proxyVars, NEW c \in {Panel, Dashboard},
         calls[c].at \in {"sent", "checked"}
  PROVE  \/ calls'[c] = calls[c]
         \/ calls'[c] = Idle
         \/ Check(c) \/ Forward(c)
<1>1. DOMAIN calls = {Panel, Dashboard} /\ calls[c] # Idle
  BY DEF PInv, Idle
<1>2. ASSUME UNCHANGED calls PROVE calls'[c] = calls[c]
  BY <1>2
<1>3. ASSUME NEW d \in {Panel, Dashboard}, Send(d) PROVE calls'[c] = calls[c]
  <2>1. PICK k : calls' = [calls EXCEPT ![d] = k]
    BY <1>3 DEF Send
  <2>2. d # c
    BY <1>1, <1>3 DEF Send
  <2> QED
    BY <1>1, <2>1, <2>2
<1>4. ASSUME NEW d \in {Panel, Dashboard}, Check(d) \/ Forward(d), d # c
      PROVE  calls'[c] = calls[c]
  <2>1. PICK k : calls' = [calls EXCEPT ![d] = k]
    BY <1>4 DEF Check, Forward
  <2> QED
    BY <1>1, <1>4, <2>1
<1>5. ASSUME NEW d \in {Panel, Dashboard}, Return(d)
      PROVE  calls'[c] = calls[c] \/ calls'[c] = Idle
  BY <1>1, <1>5 DEF Return
<1> QED
  BY <1>1, <1>2, <1>3, <1>4, <1>5 DEF ProxyNext, ReadLog, proxyVars

\* A kernel that a call found running answers it, for any files and any number of
\* starts, of kernels that outlived their server and of kernels nobody tracks: but
\* for one that found the address taken, which the other one answers for while it
\* lives, and then nobody.
THEOREM KernelReached == ProxySpec => RunningKernelAnswers
<1> DEFINE answer == IF kernel.alone \/ orphans # {} THEN "ok" ELSE "badGateway"
<1>1. ASSUME PInv, [ProxyNext]_proxyVars, NEW c \in DOMAIN calls,
             calls[c].at = "checked", calls'[c].at = "answered",
             kernel # Down, kernel.alive, kernel.nr = calls[c].nr
      PROVE  calls'[c].answer = answer
  <2> DEFINE said == IF Listening = {} THEN "badGateway"
                     ELSE IF Accepts(calls[c].word) THEN "ok" ELSE "refused"
  <2>1. /\ DOMAIN calls = {Panel, Dashboard} /\ c \in {Panel, Dashboard}
        /\ DOMAIN calls[c] = {"at", "word", "nr", "answer"}
        /\ Answering /\ calls[c].word = opts.secret
        /\ kernel.alone => orphans = {}
    BY <1>1 DEF PInv, Calling, Polled
  <2>2. Forward(c)
    BY <1>1, <2>1, OnlyServed DEF Check, Idle
  <2>3. calls' = [calls EXCEPT ![c] = [calls[c] EXCEPT !.at = "answered", !.answer = said]]
    BY <2>2 DEF Forward, Answered
  <2>4. calls'[c].answer = said
    BY <2>1, <2>3
  <2>5. CASE kernel.alone
    <3>1. Listens(kernel)
      BY <1>1, <2>1, <2>5 DEF Listens, Answering
    <3>2. Listening = {Value(kernel.file, "secret")} /\ Accepts(opts.secret)
      BY <2>1, <2>5, <3>1 DEF Listening, Accepts, Answering
    <3> QED
      BY <2>1, <2>4, <2>5, <3>2
  <2>6. CASE ~kernel.alone
    <3>1. Listening = orphans
      BY <2>6 DEF Listening, Listens
    <3>2. orphans # {} => Accepts(opts.secret)
      BY <2>1, <2>6, <3>1 DEF Accepts, Answering
    <3> QED
      BY <2>1, <2>4, <2>6, <3>1, <3>2
  <2> QED
    BY <2>5, <2>6
<1>2. PInv /\ [ProxyNext]_proxyVars =>
        [\A c \in DOMAIN calls :
           /\ calls[c].at = "checked" /\ calls'[c].at = "answered"
           /\ kernel # Down /\ kernel.alive /\ kernel.nr = calls[c].nr
           => calls'[c].answer = answer]_proxyVars
  BY <1>1
<1> QED
  BY <1>2, Invariance, PTL DEF ProxySpec, RunningKernelAnswers

\* The gate opens to the secret of the log and to no other, in every run of the
\* server, whether the secret was set or generated.
THEOREM GateOpens == ProxySpec => SecretOpens
<1>1. ASSUME PInv, [ProxyNext]_proxyVars, NEW c \in DOMAIN calls,
             c = Panel, calls[c].at = "sent", calls'[c].at \in {"checked", "answered"}
      PROVE  calls'[c].answer = "unauthorized" <=> calls[c].word # opts.secret
  <2>1. /\ DOMAIN calls = {Panel, Dashboard} /\ c \in {Panel, Dashboard}
        /\ DOMAIN calls[c] = {"at", "word", "nr", "answer"}
        /\ calls[c].answer = "ok"
    BY <1>1 DEF PInv, Calling
  <2>2. Check(c)
    BY <1>1, <2>1, OnlyServed DEF Forward, Idle
  <2>3. validClashSecret(calls[c].word) <=> calls[c].word = opts.secret
    BY <1>1, ActiveFileAssumption
      DEF PInv, Starting, validClashSecret, ClashSecret
  <2>4. CASE calls[c].word # opts.secret
    <3>1. calls' = [calls EXCEPT ![c] =
                     [calls[c] EXCEPT !.at = "answered", !.answer = "unauthorized"]]
      BY <1>1, <2>1, <2>2, <2>3, <2>4 DEF Check, Answered
    <3> QED
      BY <2>1, <2>4, <3>1
  <2>5. CASE calls[c].word = opts.secret /\ status # "running"
    <3>1. calls' = [calls EXCEPT ![c] =
                     [calls[c] EXCEPT !.at = "answered", !.answer = "unavailable"]]
      BY <1>1, <2>1, <2>2, <2>3, <2>5 DEF Check, Answered
    <3> QED
      BY <2>1, <2>5, <3>1
  <2>6. CASE calls[c].word = opts.secret /\ status = "running"
    <3> DEFINE n == IF kernel = Down THEN 0 ELSE kernel.nr
    <3>1. calls' = [calls EXCEPT ![c] =
                     [calls[c] EXCEPT !.at = "checked", !.word = opts.secret, !.nr = n]]
      BY <1>1, <2>1, <2>2, <2>3, <2>6 DEF Check
    <3> HIDE DEF n
    <3> QED
      BY <2>1, <2>6, <3>1
  <2> QED
    BY <2>4, <2>5, <2>6
<1>2. PInv /\ [ProxyNext]_proxyVars =>
        [\A c \in DOMAIN calls :
           c = Panel /\ calls[c].at = "sent" /\ calls'[c].at \in {"checked", "answered"}
           => (calls'[c].answer = "unauthorized" <=> calls[c].word # opts.secret)]_proxyVars
  BY <1>1
<1> QED
  BY <1>2, Invariance, PTL DEF ProxySpec, SecretOpens
-----------------------------------------------------------------------------
(* ActiveFile *)

Openers == Secrets \cup Nat

\* The lines there can be.
AllLines ==
  (UNION {ToSet(t) : t \in Compositions})
    \cup {Line("external-controller", Address)}
    \cup {Line("secret", s) : s \in Openers}
    \cup {Line("mixed-port", p) : p \in Ports}

Stripped(l, port) ==
  /\ ~l.quoted
  /\ \/ l.key \in {"external-controller", "secret"}
     \/ l.key = "mixed-port" /\ port # None
     \/ l.key \in ListenerPorts /\ port # None /\ l.value = port

Rest(port) == {l \in AllLines : ~Stripped(l, port)}

Managed(secret, port) ==
  <<Line("external-controller", Address), Line("secret", secret)>>
    \o (IF port # None THEN <<Line("mixed-port", port)>> ELSE <<>>)

Injected(t, secret, port) == Managed(secret, port) \o Filter(t, Rest(port))

\* The text, as it was composed or edited once for this MIXED_PORT.
Edited(f, t, port) ==
  f = t \/ \E secret \in Openers : f = Injected(t, secret, port)

FileInv ==
  /\ file \in Seq(AllLines) /\ text \in Seq(AllLines)
  /\ start \in [step : {"none", "read", "write", "spawn", "poll"}, read : Seq(AllLines)]
  /\ kept => Edited(file, text, opts.mixedPort)
  /\ start.step = "write" /\ calm => start.read = file
  /\ start.step = "spawn" /\ calm /\ kept =>
       file = Injected(text, opts.secret, opts.mixedPort)
  /\ kernel # Down => up /\ kernel.text \in Seq(AllLines)
  /\ kernel # Down /\ kernel.calm =>
       kernel.file = Injected(kernel.text, opts.secret, opts.mixedPort)

LEMMA Composed == \A t \in Compositions : t \in Seq(AllLines)
<1> SUFFICES ASSUME NEW t \in Compositions PROVE t \in Seq(AllLines)
  OBVIOUS
<1>1. t \in Seq(ToSet(t))
  BY ActiveFileAssumption
<1>2. ToSet(t) \subseteq AllLines
  BY DEF AllLines
<1> QED
  BY <1>1, <1>2

LEMMA ManagedLines ==
  ASSUME NEW secret \in Openers, NEW port \in Ports \cup {None}
  PROVE  LET h == Managed(secret, port)
             e == Line("external-controller", Address)
             s == Line("secret", secret)
             m == Line("mixed-port", port)
         IN /\ h \in Seq(AllLines) /\ DOMAIN h = 1 .. Len(h)
            /\ h[1] = e /\ h[2] = s /\ 1 \in DOMAIN h /\ 2 \in DOMAIN h
            /\ port # None => Len(h) = 3 /\ h[3] = m
            /\ port = None => Len(h) = 2
<1> DEFINE e == Line("external-controller", Address)
           s == Line("secret", secret)
           m == Line("mixed-port", port)
           two == <<e, s>>
<1>1. e \in AllLines /\ s \in AllLines
  <2>1. e \in {Line("external-controller", Address)}
    OBVIOUS
  <2>2. s \in {Line("secret", o) : o \in Openers}
    OBVIOUS
  <2> HIDE DEF e, s
  <2> QED
    BY <2>1, <2>2 DEF AllLines
<1>2. port # None => m \in AllLines
  <2> SUFFICES ASSUME port # None PROVE m \in AllLines
    OBVIOUS
  <2>1. m \in {Line("mixed-port", p) : p \in Ports}
    OBVIOUS
  <2> HIDE DEF m
  <2> QED
    BY <2>1 DEF AllLines
<1>3. Managed(secret, port) = two \o (IF port # None THEN <<m>> ELSE <<>>)
  BY DEF Managed
<1> HIDE DEF e, s, m
<1>4. two \in Seq(AllLines) /\ Len(two) = 2 /\ two[1] = e /\ two[2] = s
  BY <1>1
<1> HIDE DEF two
<1>5. CASE port = None
  <2>1. two \o <<>> = two
    BY <1>4
  <2> DEFINE h == Managed(secret, port)
  <2>2. h = two
    BY <1>3, <1>5, <2>1
  <2> HIDE DEF h
  <2>3. /\ h \in Seq(AllLines) /\ DOMAIN h = 1 .. Len(h) /\ Len(h) = 2
        /\ h[1] = e /\ h[2] = s
    <3>1. h \in Seq(AllLines) /\ Len(h) = 2
      BY <1>4, <2>2
    <3>2. h[1] = e /\ h[2] = s
      BY <1>4, <2>2
    <3> QED
      BY <3>1, <3>2
  <2> QED
    BY <1>5, <2>3 DEF h, e, s, m
<1>6. CASE port # None
  <2> DEFINE h == Managed(secret, port)
  <2>1. h = two \o <<m>>
    BY <1>3, <1>6
  <2> HIDE DEF h
  <2> DEFINE one == <<m>>
  <2>2. one \in Seq(AllLines) /\ Len(one) = 1 /\ one[1] = m /\ h = two \o one
    BY <1>2, <1>6, <2>1
  <2> HIDE DEF one
  <2>3. /\ h \in Seq(AllLines) /\ DOMAIN h = 1 .. Len(h) /\ Len(h) = 3
        /\ h[1] = e /\ h[2] = s /\ h[3] = m
    <3>1. h \in Seq(AllLines) /\ Len(h) = 3
      <4>1. two \o one \in Seq(AllLines) /\ Len(two \o one) = Len(two) + Len(one)
        BY <1>4, <2>2, ConcatProperties
      <4> QED
        BY <1>4, <2>2, <4>1
    <3>2. h[1] = e /\ h[2] = s
      <4>1. 1 \in 1 .. Len(two) + Len(one) /\ 2 \in 1 .. Len(two) + Len(one)
        BY <1>4, <2>2
      <4>2. (two \o one)[1] = two[1] /\ (two \o one)[2] = two[2]
        BY <1>4, <2>2, <4>1, ConcatProperties
      <4> QED
        BY <1>4, <2>2, <4>2
    <3>3. h[3] = m
      <4>1. /\ 3 \in 1 .. Len(two) + Len(one)
            /\ ~(3 <= Len(two)) /\ 3 - Len(two) = 1
        BY <1>4, <2>2
      <4>2. (two \o one)[3] = IF 3 <= Len(two) THEN two[3] ELSE one[3 - Len(two)]
        BY <1>4, <2>2, <4>1, ConcatProperties
      <4>3. one[3 - Len(two)] = one[1]
        BY <4>1
      <4> QED
        BY <2>2, <4>1, <4>2, <4>3
    <3> QED
      BY <3>1, <3>2, <3>3
  <2> QED
    BY <1>6, <2>3 DEF h, e, s, m
<1> QED
  BY <1>5, <1>6

\* The managed lines are stripped the next time.
LEMMA ManagedGo ==
  ASSUME NEW secret \in Openers, NEW port \in Ports \cup {None}
  PROVE  Filter(Managed(secret, port), Rest(port)) = <<>>
<1> DEFINE h == Managed(secret, port)
           e == Line("external-controller", Address)
           s == Line("secret", secret)
           m == Line("mixed-port", port)
<1>1. /\ h \in Seq(AllLines) /\ DOMAIN h = 1 .. Len(h)
      /\ h[1] = e /\ h[2] = s
      /\ port # None => Len(h) = 3 /\ h[3] = m
      /\ port = None => Len(h) = 2
  BY ManagedLines
<1>2. Stripped(e, port) /\ Stripped(s, port) /\ (port # None => Stripped(m, port))
  BY DEF Stripped, Line
<1> HIDE DEF h, e, s, m
<1>3. \A i \in 1 .. Len(h) : h[i] \notin Rest(port)
  BY <1>1, <1>2 DEF Rest
<1>4. ToSet(h) \cap Rest(port) = {}
  BY <1>1, <1>3 DEF ToSet
<1> QED
  BY <1>1, <1>4, FilterNone DEF h

LEMMA InjectIs ==
  ASSUME NEW f \in Seq(AllLines)
  PROVE  Inject(f) = Injected(f, opts.secret, opts.mixedPort)
<1> DEFINE S == {l \in ToSet(f) : ~shouldStripTopLevelKey(l)}
           R == Rest(opts.mixedPort)
<1>1. \A l \in AllLines : shouldStripTopLevelKey(l) <=> Stripped(l, opts.mixedPort)
  BY DEF shouldStripTopLevelKey, hasMixed, Stripped
<1>2. \A i \in 1 .. Len(f) : f[i] \in AllLines /\ f[i] \in ToSet(f)
  BY SetOf
<1>3. \A i \in 1 .. Len(f) : f[i] \in S <=> f[i] \in R
  BY <1>1, <1>2 DEF Rest
<1> HIDE DEF S, R
<1>4. Filter(f, S) = Filter(f, R)
  BY <1>3, FilterSame
<1>5. header = Managed(opts.secret, opts.mixedPort)
  BY DEF header, Managed, hasMixed
<1> QED
  BY <1>4, <1>5 DEF Inject, Injected, S, R

\* Editing a text again makes no difference but in the secret.
LEMMA EditedAgain ==
  ASSUME NEW t \in Seq(AllLines), NEW port \in Ports \cup {None}, NEW f, Edited(f, t, port)
  PROVE  \A secret : Injected(f, secret, port) = Injected(t, secret, port)
<1> DEFINE R == Rest(port)
           g == Filter(t, R)
<1>1. CASE f = t
  BY <1>1
<1>2. ASSUME NEW old \in Openers, f = Injected(t, old, port)
      PROVE  Filter(f, R) = g
  <2> DEFINE h == Managed(old, port)
  <2>1. f = h \o g
    BY <1>2 DEF Injected
  <2>2. h \in Seq(AllLines) /\ Filter(h, R) = <<>>
    BY ManagedLines, ManagedGo
  <2>3. g \in Seq(AllLines)
    BY FilterType
  <2>4. Filter(g, R) = Filter(t, R \cap R) /\ R \cap R = R
    BY FilterTwice
  <2> HIDE DEF h, R
  <2>5. Filter(g, R) = g
    BY <2>4
  <2> HIDE DEF g
  <2>6. Filter(h \o g, R) = Filter(h, R) \o Filter(g, R)
    BY <2>2, <2>3, FilterConcat
  <2>7. <<>> \o g = g
    BY <2>3
  <2> QED
    BY <2>1, <2>2, <2>5, <2>6, <2>7
<1>3. Filter(f, R) = Filter(t, R)
  BY <1>1, <1>2 DEF Edited
<1> QED
  BY <1>3 DEF Injected

LEMMA InjectedType ==
  ASSUME NEW t \in Seq(AllLines), NEW secret \in Openers, NEW port \in Ports \cup {None}
  PROVE  Injected(t, secret, port) \in Seq(AllLines)
<1>1. Managed(secret, port) \in Seq(AllLines) /\ Filter(t, Rest(port)) \in Seq(AllLines)
  BY ManagedLines, FilterType
<1> QED
  BY <1>1 DEF Injected

LEMMA FileInvInit == ProxyInit => FileInv
<1> SUFFICES ASSUME ProxyInit PROVE FileInv
  OBVIOUS
<1>1. /\ file = <<>> /\ text = <<>> /\ start = [step |-> "none", read |-> <<>>]
      /\ kernel = Down
  BY DEF ProxyInit, FileInit
<1>2. <<>> \in Seq(AllLines)
  BY EmptySeq
<1> QED
  BY <1>1, <1>2 DEF FileInv, Edited

\* What the supervisor has got to work with.
LEMMA Options ==
  PInv => opts.secret \in Openers /\ opts.mixedPort \in Ports \cup {None}
<1> SUFFICES ASSUME PInv PROVE opts.secret \in Openers /\ opts.mixedPort \in Ports \cup {None}
  OBVIOUS
<1>1. /\ opts.secret \in Secrets \cup 1 .. boots /\ opts.mixedPort \in Ports \cup {None}
      /\ boots \in 1 .. MaxBoots
  BY DEF PInv, Starting
<1>2. 1 .. boots \subseteq Nat
  BY <1>1, ActiveFileAssumption
<1> QED
  BY <1>1, <1>2 DEF Openers

LEMMA WriteKeeps == PInv /\ FileInv /\ WriteFile => FileInv'
<1> SUFFICES ASSUME PInv, FileInv, WriteFile PROVE FileInv'
  OBVIOUS
<1>1. /\ start.step = "write" /\ file' = Inject(start.read)
      /\ start' = [step |-> "spawn", read |-> <<>>]
      /\ UNCHANGED <<opts, up, kernel, text, calm>>
  BY DEF WriteFile
<1>2. kept' => kept /\ calm
  BY DEF WriteFile
<1>3. start.read \in Seq(AllLines) /\ text \in Seq(AllLines)
  BY DEF FileInv
<1>4. file' = Injected(start.read, opts.secret, opts.mixedPort)
  BY <1>1, <1>3, InjectIs
<1>5. opts.secret \in Openers /\ opts.mixedPort \in Ports \cup {None}
  BY Options
<1>6. file' \in Seq(AllLines)
  BY <1>3, <1>4, <1>5, InjectedType
<1>7. ASSUME kept' PROVE file' = Injected(text, opts.secret, opts.mixedPort)
  <2>1. start.read = file /\ Edited(file, text, opts.mixedPort)
    BY <1>1, <1>2, <1>7 DEF FileInv
  <2>2. Injected(file, opts.secret, opts.mixedPort) =
          Injected(text, opts.secret, opts.mixedPort)
    BY <1>3, <1>5, <2>1, EditedAgain
  <2> QED
    BY <1>4, <2>1, <2>2
<1>8. kept' => Edited(file', text', opts'.mixedPort)
  BY <1>1, <1>5, <1>7 DEF Edited
<1>9. start' \in [step : {"none", "read", "write", "spawn", "poll"}, read : Seq(AllLines)]
  BY <1>1, EmptySeq
<1>10. start'.step = "spawn"
  BY <1>1
<1>11. kept' => file' = Injected(text', opts'.secret, opts'.mixedPort)
  BY <1>1, <1>7
<1> QED
  BY <1>1, <1>6, <1>8, <1>9, <1>10, <1>11 DEF FileInv

LEMMA FileKeeps == PInv /\ FileInv /\ FileNext => FileInv'
<1> SUFFICES ASSUME PInv, FileInv, FileNext PROVE FileInv'
  OBVIOUS
<1> DEFINE Starts == [step : {"none", "read", "write", "spawn", "poll"}, read : Seq(AllLines)]
<1>1. <<>> \in Seq(AllLines)
  BY EmptySeq
<1>2. start \in Starts /\ start.step \in {"none", "read", "write", "spawn", "poll"}
  BY DEF FileInv
<1>3. CASE Compose
  <2>1. PICK t \in Compositions : file' = t /\ text' = t
    BY <1>3 DEF Compose
  <2>2. calm' = FALSE /\ UNCHANGED <<opts, up, start, kernel>>
    BY <1>3 DEF Compose
  <2>3. t \in Seq(AllLines) /\ Edited(t, t, opts.mixedPort)
    BY Composed DEF Edited
  <2> QED
    BY <2>1, <2>2, <2>3 DEF FileInv
<1>4. CASE BeginStart
  <2>1. /\ start' = [step |-> "read", read |-> <<>>]
        /\ UNCHANGED <<opts, up, file, kernel, text, kept, calm>>
    BY <1>4 DEF BeginStart
  <2>2. start' \in Starts /\ start'.step = "read"
    BY <1>1, <2>1
  <2> QED
    BY <2>1, <2>2 DEF FileInv
<1>5. CASE ReadFile
  <2>1. /\ start' = [step |-> "write", read |-> file]
        /\ UNCHANGED <<opts, up, file, kernel, text, kept>>
    BY <1>5 DEF ReadFile
  <2>2. start' \in Starts /\ start'.step = "write" /\ start'.read = file
    BY <2>1 DEF FileInv
  <2> QED
    BY <2>1, <2>2 DEF FileInv
<1>6. CASE WriteFile
  BY <1>6, WriteKeeps
<1>7. CASE Spawn
  <2>1. /\ start.step = "spawn"
        /\ start' = [step |-> "poll", read |-> <<>>]
        /\ UNCHANGED <<opts, up, file, text, kept, calm>>
        /\ kernel' = [nr |-> spawns + 1, file |-> file, alive |-> TRUE,
                      alone |-> Listening = {}, text |-> text, calm |-> calm /\ kept]
    BY <1>7 DEF Spawn
  <2>2. start' \in Starts /\ start'.step = "poll"
    BY <1>1, <2>1
  <2>3. /\ kernel'.file = file /\ kernel'.text = text
        /\ kernel'.calm => calm /\ kept
    BY <2>1
  <2>4. up
    BY <2>1 DEF PInv, Starting
  <2>5. kernel'.calm =>
          kernel'.file = Injected(kernel'.text, opts'.secret, opts'.mixedPort)
    BY <2>1, <2>3 DEF FileInv
  <2>6. up' /\ kernel'.text \in Seq(AllLines)
    BY <2>1, <2>3, <2>4 DEF FileInv
  <2>7. /\ file' \in Seq(AllLines) /\ text' \in Seq(AllLines)
        /\ kept' => Edited(file', text', opts'.mixedPort)
    BY <2>1 DEF FileInv
  <2> QED
    BY <2>2, <2>5, <2>6, <2>7 DEF FileInv
<1>8. CASE Ready \/ NotReady
  <2>1. /\ start' = [start EXCEPT !.step = "none"]
        /\ kernel' = kernel \/ kernel' = Down
        /\ UNCHANGED <<opts, up, file, text, kept, calm>>
    BY <1>8 DEF Ready, NotReady
  <2>2. start' \in Starts /\ start'.step = "none"
    BY <1>2, <2>1
  <2> QED
    BY <2>1, <2>2 DEF FileInv
<1>9. CASE WatchExit \/ StopKernel
  <2>1. /\ kernel' = Down
        /\ UNCHANGED <<opts, up, file, start, text, kept, calm>>
    BY <1>9 DEF WatchExit, StopKernel
  <2> QED
    BY <2>1 DEF FileInv
<1>12. CASE Exit
  <2>1. /\ kernel' = kernel \/ (kernel # Down /\ kernel' = [kernel EXCEPT !.alive = FALSE])
        /\ UNCHANGED <<opts, up, file, start, text, kept, calm>>
    BY <1>12 DEF Exit
  <2>2. kernel' # Down =>
          /\ kernel # Down /\ kernel'.file = kernel.file
          /\ kernel'.text = kernel.text /\ kernel'.calm = kernel.calm
    BY <2>1 DEF PInv, Polled, KernelFields
  <2> QED
    BY <2>1, <2>2 DEF FileInv
<1>10. CASE ServerDown
  <2>1. /\ kernel' = Down /\ start' = [step |-> "none", read |-> <<>>]
        /\ UNCHANGED <<opts, text, calm>>
    BY <1>10 DEF ServerDown
  <2>2. \/ UNCHANGED <<file, kept>>
        \/ file' = <<>> /\ kept' = FALSE
    BY <1>10 DEF ServerDown
  <2>3. start' \in Starts /\ start'.step = "none"
    BY <1>1, <2>1
  <2>4. file' \in Seq(AllLines) /\ text' \in Seq(AllLines)
    BY <1>1, <2>1, <2>2 DEF FileInv
  <2>5. kept' => Edited(file', text', opts'.mixedPort)
    BY <2>1, <2>2 DEF FileInv
  <2> QED
    BY <2>1, <2>3, <2>4, <2>5 DEF FileInv
<1>11. CASE ServerUp
  <2>1. ~up /\ UNCHANGED <<file, start, kernel, text, calm>>
    BY <1>11 DEF ServerUp
  <2>2. kept' => kept /\ opts'.mixedPort = opts.mixedPort
    BY <1>11 DEF ServerUp
  <2>3. kernel = Down
    BY <2>1 DEF FileInv
  <2>4. start.step = "none"
    BY <2>1 DEF PInv, Starting
  <2>5. kept' => Edited(file', text', opts'.mixedPort)
    BY <2>1, <2>2 DEF FileInv
  <2> QED
    BY <2>1, <2>3, <2>4, <2>5 DEF FileInv
<1> QED
  BY <1>3, <1>4, <1>5, <1>6, <1>7, <1>8, <1>9, <1>10, <1>11, <1>12 DEF FileNext

LEMMA FileInvariance == ProxySpec => []FileInv
<1>1. PInv /\ FileInv /\ [ProxyNext]_proxyVars => FileInv'
  <2> SUFFICES ASSUME PInv, FileInv, [ProxyNext]_proxyVars PROVE FileInv'
    OBVIOUS
  <2>1. CASE FileNext
    BY <2>1, FileKeeps
  <2>2. CASE UNCHANGED fileVars
    BY <2>2 DEF fileVars, FileInv
  <2>3. FileNext \/ UNCHANGED fileVars
    BY DEF ProxyNext, proxyVars, ReadLog, Send, Check, Forward, Return
  <2> QED
    BY <2>1, <2>2, <2>3
<1> QED
  BY <1>1, FileInvInit, Invariance, PTL DEF ProxySpec

-----------------------------------------------------------------------------
KeysOnce(f) == \A i, j \in DOMAIN f : f[i].key = f[j].key => i = j

\* A file of one document.
LEMMA OneDocument ==
  ASSUME NEW f \in Seq(AllLines), Marker \notin ToSet(f)
  PROVE  /\ Document(f) = f
         /\ Loads(f) <=> KeysOnce(f)
         /\ Meaning(f) = [k \in DOMAIN Meaning(f) |-> Meaning(f)[k]]
         /\ Loads(f) =>
              /\ DOMAIN Meaning(f) = {l.key : l \in ToSet(f)}
              /\ \A l \in ToSet(f) : Meaning(f)[l.key] = l.value
<1>1. DOMAIN f = 1 .. Len(f) /\ Len(f) \in Nat /\ \A i \in 1 .. Len(f) : f[i] \in ToSet(f)
  BY SetOf
<1>2. {i \in 2 .. Len(f) : f[i] = Marker} = {}
  BY <1>1
<1>3. SubSeq(f, 1, Len(f)) = f
  BY <1>1
<1>4. Filter(f, ToSet(f) \ {Marker}) = f
  <2> DEFINE S == ToSet(f) \ {Marker}
  <2>1. ToSet(f) \subseteq S
    OBVIOUS
  <2> HIDE DEF S
  <2>2. Filter(f, S) = f
    BY <2>1, FilterAll
  <2> QED
    BY <2>2 DEF S
<1>5. Document(f) = f
  BY <1>2, <1>3, <1>4, Zenon DEF Document
<1>6. Loads(f) <=> KeysOnce(f)
  BY <1>5, Zenon DEF Loads, KeysOnce
<1>7. Meaning(f) = [k \in {f[i].key : i \in DOMAIN f} |->
                      f[CHOOSE i \in DOMAIN f : f[i].key = k].value]
  <2> DEFINE M(d) == [k \in {d[i].key : i \in DOMAIN d} |->
                        d[CHOOSE i \in DOMAIN d : d[i].key = k].value]
  <2>1. Meaning(f) = M(Document(f))
    BY Zenon DEF Meaning
  <2>2. M(Document(f)) = M(f)
    <3> HIDE DEF M
    <3> QED
      BY <1>5
  <2> QED
    BY <2>1, <2>2
<1>8. DOMAIN Meaning(f) = {f[i].key : i \in DOMAIN f}
  BY <1>7, Zenon
<1>9. DOMAIN Meaning(f) = {l.key : l \in ToSet(f)}
  BY <1>1, <1>8 DEF ToSet
<1>10. ASSUME KeysOnce(f), NEW l \in ToSet(f) PROVE Meaning(f)[l.key] = l.value
  <2>1. PICK n \in DOMAIN f : f[n] = l
    BY DEF ToSet
  <2> DEFINE i == CHOOSE i \in DOMAIN f : f[i].key = l.key
  <2>2. Meaning(f)[l.key] = f[i].value
    <3>1. l.key \in {f[j].key : j \in DOMAIN f}
      BY <2>1
    <3> QED
      BY <1>7, <3>1, Zenon
  <2>3. i \in DOMAIN f /\ f[i].key = l.key
    BY <2>1, Zenon
  <2> HIDE DEF i
  <2>4. i = n
    BY <1>10, <2>1, <2>3 DEF KeysOnce
  <2> QED
    BY <2>1, <2>2, <2>4
<1>11. Meaning(f) = [k \in DOMAIN Meaning(f) |-> Meaning(f)[k]]
  <2> DEFINE D == {f[i].key : i \in DOMAIN f}
             V(k) == f[CHOOSE i \in DOMAIN f : f[i].key = k].value
             m == Meaning(f)
  <2>1. m = [k \in D |-> V(k)]
    BY <1>7
  <2> HIDE DEF D, V, m
  <2>2. m = [k \in DOMAIN m |-> m[k]]
    BY <2>1
  <2> QED
    BY <2>2 DEF m
<1> QED
  BY <1>5, <1>6, <1>9, <1>10, <1>11

\* What the kernel reads in a text that was edited once.
LEMMA InjectedReads ==
  ASSUME NEW t \in Seq(AllLines), ~Awkward(t), Loads(t),
         opts.secret \in Openers, opts.mixedPort \in Ports \cup {None}
  PROVE  LET F == Injected(t, opts.secret, opts.mixedPort)
         IN Loads(F) /\ Meaning(F) = Expected(t)
<1> DEFINE port == opts.mixedPort
           h == Managed(opts.secret, port)
           R == Rest(port)
           g == Filter(t, R)
           F == Injected(t, opts.secret, port)
           e == Line("external-controller", Address)
           s == Line("secret", opts.secret)
           m == Line("mixed-port", port)
<1>1. /\ h \in Seq(AllLines) /\ DOMAIN h = 1 .. Len(h)
      /\ h[1] = e /\ h[2] = s /\ 1 \in DOMAIN h /\ 2 \in DOMAIN h
      /\ port # None => Len(h) = 3 /\ h[3] = m
      /\ port = None => Len(h) = 2
  BY ManagedLines
<1>2. F = h \o g
  BY DEF Injected
<1>3. /\ e.key = "external-controller" /\ s.key = "secret" /\ m.key = "mixed-port"
      /\ e.value = Address /\ s.value = opts.secret /\ m.value = port
      /\ Marker.key = "---"
  BY DEF Line, Marker
<1>4. hasMixed <=> port # None
  BY DEF hasMixed
<1>5. g \in Seq(AllLines) /\ ToSet(g) = ToSet(t) \cap R
  BY FilterType, FilterRange
<1>6. ToSet(t) \subseteq AllLines /\ \A l \in ToSet(t) : \E i \in DOMAIN t : t[i] = l
  BY SetOf
<1>7. \A l \in ToSet(t) :
        l # Marker /\ (l.quoted => l.key \notin Owned \cup ListenerPorts)
  BY <1>6 DEF Awkward
<1>8. \A l \in AllLines : l \in R <=> ~Stripped(l, port)
  BY DEF Rest
<1>9. \A l \in ToSet(g) : l.key \notin Owned
  BY <1>4, <1>5, <1>6, <1>7, <1>8 DEF Stripped, Owned
<1>10. \A l \in ToSet(t) :
         l \in ToSet(g) <=>
           /\ l.key \notin Owned
           /\ ~(hasMixed /\ l.key \in ListenerPorts /\ l.value = port)
  BY <1>4, <1>5, <1>6, <1>7, <1>8 DEF Stripped, Owned
<1> HIDE DEF e, s, m, h, R, g, F
<1>11. /\ F \in Seq(AllLines) /\ ToSet(F) = ToSet(h) \cup ToSet(g)
       /\ \A i \in DOMAIN F :
            \/ i \in DOMAIN h /\ F[i] = h[i]
            \/ \E k \in DOMAIN g : i = Len(h) + k /\ F[i] = g[k]
  <2> DEFINE u == h \o g
  <2>1. h \in Seq(AllLines) /\ g \in Seq(AllLines)
    BY <1>1, <1>5
  <2>2. u \in Seq(AllLines) /\ ToSet(u) = ToSet(h) \cup ToSet(g)
    BY <2>1, SetOfConcat
  <2>3. Follows(u, h, g)
    BY <2>1, SetOfConcat
  <2>4. u = F
    BY <1>2
  <2> HIDE DEF u
  <2> QED
    BY <2>2, <2>3, <2>4 DEF Follows
<1>12. ToSet(h) = {e, s} \cup (IF port # None THEN {m} ELSE {})
  <2>1. CASE port = None
    <3>1. DOMAIN h = {1, 2}
      BY <1>1, <2>1
    <3> QED
      BY <1>1, <2>1, <3>1 DEF ToSet
  <2>2. CASE port # None
    <3>1. DOMAIN h = {1, 2, 3}
      BY <1>1, <2>2
    <3> QED
      BY <1>1, <2>2, <3>1 DEF ToSet
  <2> QED
    BY <2>1, <2>2
<1>13. {l.key : l \in ToSet(h)} = Owned
  BY <1>3, <1>4, <1>12 DEF Owned
<1>14. \A i, j \in DOMAIN h : h[i].key = h[j].key => i = j
  <2>1. CASE port = None
    <3>1. DOMAIN h = {1, 2}
      BY <1>1, <2>1
    <3> QED
      BY <1>1, <1>3, <3>1
  <2>2. CASE port # None
    <3>1. DOMAIN h = {1, 2, 3}
      BY <1>1, <2>2
    <3> QED
      BY <1>1, <1>3, <2>2, <3>1
  <2> QED
    BY <2>1, <2>2
<1>15. Marker \notin ToSet(t) /\ Marker \notin ToSet(F)
  BY <1>3, <1>5, <1>7, <1>11, <1>12
<1>16. KeysOnce(t)
  BY <1>15, OneDocument
<1>17. KeysOnce(g)
  <2> SUFFICES ASSUME NEW i \in DOMAIN g, NEW j \in DOMAIN g, i # j
               PROVE  g[i].key # g[j].key
    BY DEF KeysOnce
  <2>1. i \in 1 .. Len(g) /\ j \in 1 .. Len(g) /\ (i < j \/ j < i)
    BY <1>5
  <2>2. \A x, y \in 1 .. Len(g) : x < y =>
           \E k, l \in 1 .. Len(t) : k < l /\ t[k] = g[x] /\ t[l] = g[y]
    BY FilterOrder DEF g
  <2>3. \E k, l \in 1 .. Len(t) : k # l /\ t[k] = g[i] /\ t[l] = g[j]
    <3> DEFINE N == 1 .. Len(t)
    <3>1. \A k, l \in N : k < l => k # l
      OBVIOUS
    <3>2. CASE i < j
      <4>1. PICK k, l \in N : k < l /\ t[k] = g[i] /\ t[l] = g[j]
        BY <2>1, <2>2, <3>2
      <4> QED
        BY <3>1, <4>1
    <3>3. CASE j < i
      <4>1. PICK k, l \in N : k < l /\ t[k] = g[j] /\ t[l] = g[i]
        BY <2>1, <2>2, <3>3
      <4> QED
        BY <3>1, <4>1
    <3> QED
      BY <2>1, <3>2, <3>3
  <2>4. DOMAIN t = 1 .. Len(t)
    OBVIOUS
  <2> QED
    BY <1>16, <2>3, <2>4 DEF KeysOnce
<1>18. KeysOnce(F)
  <2> SUFFICES ASSUME NEW i \in DOMAIN F, NEW j \in DOMAIN F, F[i].key = F[j].key
               PROVE  i = j
    BY DEF KeysOnce
  <2>1. \A k \in DOMAIN h : h[k].key \in Owned
    BY <1>13 DEF ToSet
  <2>2. \A k \in DOMAIN g : g[k].key \notin Owned
    BY <1>9 DEF ToSet
  <2>3. CASE i \in DOMAIN h /\ F[i] = h[i]
    BY <1>11, <1>14, <2>1, <2>2, <2>3
  <2>4. CASE \E k \in DOMAIN g : i = Len(h) + k /\ F[i] = g[k]
    BY <1>11, <1>17, <2>1, <2>2, <2>4 DEF KeysOnce
  <2> QED
    BY <1>11, <2>3, <2>4
<1>19. Loads(F)
  BY <1>11, <1>15, <1>18, OneDocument
<1>20. /\ DOMAIN Meaning(t) = {l.key : l \in ToSet(t)}
       /\ \A l \in ToSet(t) : Meaning(t)[l.key] = l.value
  BY <1>15, OneDocument
<1>21. /\ DOMAIN Meaning(F) = {l.key : l \in ToSet(F)}
       /\ \A l \in ToSet(F) : Meaning(F)[l.key] = l.value
       /\ Meaning(F) = [k \in DOMAIN Meaning(F) |-> Meaning(F)[k]]
  BY <1>11, <1>15, <1>19, OneDocument
<1> DEFINE keys == {k \in DOMAIN Meaning(t) \ Owned :
                      ~(hasMixed /\ k \in ListenerPorts /\ Meaning(t)[k] = opts.mixedPort)}
<1>22. {l.key : l \in ToSet(g)} = keys
  <2>1. \A l \in ToSet(g) : l.key \in keys
    BY <1>5, <1>10, <1>20
  <2>2. \A k \in keys : \E l \in ToSet(g) : l.key = k
    BY <1>10, <1>20
  <2> QED
    BY <2>1, <2>2
<1> HIDE DEF keys, port
<1>23. DOMAIN Meaning(F) = Owned \cup keys
  BY <1>11, <1>13, <1>21, <1>22
<1> DEFINE W(k) == CASE k = "external-controller" -> Address
                     [] k = "secret" -> opts.secret
                     [] k = "mixed-port" /\ hasMixed -> opts.mixedPort
                     [] OTHER -> Meaning(t)[k]
<1>24. Expected(t) = [k \in Owned \cup keys |-> W(k)]
  BY DEF Expected, keys
<1>25. \A k \in Owned : Meaning(F)[k] = W(k)
  <2>1. Meaning(F)["external-controller"] = Address /\ Meaning(F)["secret"] = opts.secret
    BY <1>3, <1>11, <1>12, <1>21
  <2>2. hasMixed => Meaning(F)["mixed-port"] = opts.mixedPort
    BY <1>3, <1>4, <1>11, <1>12, <1>21 DEF port
  <2> QED
    BY <2>1, <2>2 DEF Owned
<1>26. \A k \in keys : Meaning(F)[k] = W(k)
  <2> TAKE k \in keys
  <2>1. PICK l \in ToSet(g) : l.key = k
    BY <1>22
  <2>2. Meaning(F)[k] = l.value /\ Meaning(t)[k] = l.value
    BY <1>5, <1>11, <1>20, <1>21, <2>1
  <2>3. k \notin Owned
    BY <1>9, <2>1
  <2>4. W(k) = Meaning(t)[k]
    BY <2>3 DEF Owned
  <2> QED
    BY <2>2, <2>4
<1>27. Meaning(F) = Expected(t)
  <2> HIDE DEF W
  <2>1. \A k \in DOMAIN Meaning(F) : Meaning(F)[k] = W(k)
    BY <1>23, <1>25, <1>26
  <2>2. Meaning(F) = [k \in Owned \cup keys |-> W(k)]
    BY <1>21, <1>23, <2>1
  <2> QED
    BY <1>24, <2>2
<1> QED
  BY <1>19, <1>27 DEF F, port

LEMMA FileReads == PInv /\ FileInv => KernelReadsConfig
<1> SUFFICES ASSUME PInv, FileInv, kernel # Down, kernel.calm,
                    ~Awkward(kernel.text), Loads(kernel.text)
             PROVE  Loads(kernel.file) /\ Meaning(kernel.file) = Expected(kernel.text)
  BY DEF KernelReadsConfig
<1>1. /\ kernel.text \in Seq(AllLines)
      /\ kernel.file = Injected(kernel.text, opts.secret, opts.mixedPort)
  BY DEF FileInv
<1>2. opts.secret \in Openers /\ opts.mixedPort \in Ports \cup {None}
  BY Options
<1> DEFINE t == kernel.text
<1>3. t \in Seq(AllLines) /\ ~Awkward(t) /\ Loads(t)
  BY <1>1
<1> HIDE DEF t
<1>4. LET F == Injected(t, opts.secret, opts.mixedPort)
      IN Loads(F) /\ Meaning(F) = Expected(t)
  BY <1>2, <1>3, InjectedReads
<1> QED
  BY <1>1, <1>4 DEF t

\* A kernel reads the composed configuration with the managed keys, for any text
\* that lines can edit and a kernel loads, after any number of starts and runs of
\* the server since it was composed.
THEOREM ReadsComposed == ProxySpec => []KernelReadsConfig
BY FileReads, FileInvariance, Invariance, PTL

-----------------------------------------------------------------------------
(* GeoAssets *)

GeoTypeOK ==
  /\ dst \in [Names -> SUBSET Blocks]
  /\ tmp \in [Names -> (SUBSET Blocks) \cup {NoFile}]
  /\ update \in [Updates -> [nr : DOMAIN GeoFiles \cup {0},
                             fd : {"none", "tmp", "dst", "gone"}, pos : 0 .. 2]]
  /\ crashes \in Nat /\ shared \subseteq Names

\* A descriptor belongs to an update that is running, its offset to it; one that
\* refers to the temporary name finds a file there.
Opened ==
  \A u \in Updates :
    /\ update[u].fd # "none" => Running(u)
    /\ update[u].fd = "none" => update[u].pos = 0
    /\ update[u].fd = "tmp" => tmp[Name(u)] # NoFile

\* Of a name that was never shared, one update at most writes the temporary
\* file, in which everything up to its offset is written, and the file is whole.
Unshared(n) ==
  /\ dst[n] = Blocks
  /\ \A u \in Updates : Running(u) /\ Name(u) = n /\ update[u].fd # "none" =>
       /\ update[u].fd = "tmp"
       /\ tmp[n] = 1 .. update[u].pos
       /\ \A v \in Updates \ {u} :
            Running(v) /\ Name(v) = n => update[v].fd = "none"

GeoInv == GeoTypeOK /\ Opened /\ \A n \in Names \ shared : Unshared(n)

-----------------------------------------------------------------------------
\* A file is two blocks long.
LEMMA TwoBlocks == Cardinality(Blocks) = 2
<1>1. IsFiniteSet({2}) /\ Cardinality({2}) = 1
  BY FS_Singleton
<1>2. Blocks = {2} \cup {1} /\ 1 \notin {2}
  BY DEF Blocks
<1> QED
  BY <1>1, <1>2, FS_AddElement

\* An update that is running has a name.
LEMMA Named ==
  ASSUME GeoTypeOK, NEW u \in Updates, Running(u)
  PROVE  Name(u) \in Names
BY DEF GeoTypeOK, Running, Name, Names

LEMMA GeoInitInv == GeoInit => GeoInv
<1> SUFFICES ASSUME GeoInit PROVE GeoInv
  OBVIOUS
<1>1. update \in [Updates -> [nr : DOMAIN GeoFiles \cup {0},
                     fd : {"none", "tmp", "dst", "gone"}, pos : 0 .. 2]]
  BY DEF GeoInit, NotUpdating
<1>2. dst \in [Names -> SUBSET Blocks] /\ tmp \in [Names -> (SUBSET Blocks) \cup {NoFile}]
  BY DEF GeoInit
<1>3. GeoTypeOK
  BY <1>1, <1>2 DEF GeoInit, GeoTypeOK
<1>4. Opened
  BY DEF GeoInit, Opened, NotUpdating
<1>5. \A n \in Names \ shared : Unshared(n)
  BY DEF GeoInit, Unshared, Running, NotUpdating
<1> QED
  BY <1>3, <1>4, <1>5 DEF GeoInv

\* A descriptor of another update is moved only if the file was shared.
LEMMA MovedKeeps ==
  ASSUME GeoInv, NEW u \in Updates, update[u].fd # "none", NEW to \in {"dst", "gone"}
  PROVE  /\ Moved(u, to) \in [Updates -> [nr : DOMAIN GeoFiles \cup {0},
                               fd : {"none", "tmp", "dst", "gone"}, pos : 0 .. 2]]
         /\ \A v \in Updates :
              /\ Moved(u, to)[v].nr = update[v].nr
              /\ Moved(u, to)[v].pos = update[v].pos
              /\ Moved(u, to)[v].fd = "none" <=> update[v].fd = "none"
              /\ Moved(u, to)[v].fd = "tmp"
                   => update[v].fd = "tmp" /\ Name(v) # Name(u)
              /\ v # u /\ (Running(v) => Name(v) \notin shared)
                   => Moved(u, to)[v] = update[v]
<1>1. Running(u) /\ Name(u) \in Names
  BY Named DEF GeoInv, Opened
<1>2. ASSUME NEW v \in Updates, v # u, Running(v), Name(v) \notin shared,
             Name(v) = Name(u)
      PROVE  update[v].fd = "none"
  BY <1>1, <1>2 DEF GeoInv, Unshared
<1>3. ASSUME NEW v \in Updates
      PROVE  /\ Moved(u, to)[v] \in [nr : DOMAIN GeoFiles \cup {0},
                               fd : {"none", "tmp", "dst", "gone"}, pos : 0 .. 2]
             /\ Moved(u, to)[v].nr = update[v].nr
             /\ Moved(u, to)[v].pos = update[v].pos
             /\ Moved(u, to)[v].fd = "none" <=> update[v].fd = "none"
             /\ Moved(u, to)[v].fd = "tmp"
                  => update[v].fd = "tmp" /\ Name(v) # Name(u)
  BY DEF Moved, GeoInv, GeoTypeOK, Opened
<1>4. ASSUME NEW v \in Updates, v # u, Running(v) => Name(v) \notin shared
      PROVE  Moved(u, to)[v] = update[v]
  BY <1>2, <1>4 DEF Moved
<1>5. Moved(u, to) \in [Updates -> [nr : DOMAIN GeoFiles \cup {0},
                               fd : {"none", "tmp", "dst", "gone"}, pos : 0 .. 2]]
  BY <1>3 DEF Moved
<1> QED
  BY <1>3, <1>4, <1>5

-----------------------------------------------------------------------------
(* One lemma per step *)

\* Steps that leave the files alone and open nothing.
LEMMA KeepsFiles ==
  ASSUME GeoInv, NEW u \in Updates,
         NEW w \in [nr : DOMAIN GeoFiles \cup {0}, fd : {"none"}, pos : {0}],
         update' = [update EXCEPT ![u] = w], UNCHANGED <<dst, tmp, crashes, shared>>
  PROVE  GeoInv'
<1>1. GeoTypeOK'
  BY DEF GeoInv, GeoTypeOK
<1>2. Opened'
  BY DEF GeoInv, GeoTypeOK, Opened, Running, Name
<1>3. ASSUME NEW n \in Names \ shared PROVE Unshared(n)'
  BY <1>3 DEF GeoInv, GeoTypeOK, Unshared, Running, Name
<1> QED
  BY <1>1, <1>2, <1>3 DEF GeoInv

LEMMA OpenStep ==
  ASSUME GeoInv, NEW u \in Updates, Open(u)
  PROVE  GeoInv'
<1> USE DEF GeoInv
<1>1. /\ Running(u) /\ Name(u) \in Names /\ update[u].fd = "none" /\ update[u].pos = 0
      /\ tmp' = [tmp EXCEPT ![Name(u)] = {}] /\ dst' = dst
      /\ update' = [update EXCEPT ![u].fd = "tmp"] /\ crashes' = crashes
  BY Named DEF Open, Opened
<1>2. /\ shared' = shared \cup
           {Name(v) : v \in {w \in Updates \ {u} :
                               Running(w) /\ Name(w) = Name(u) /\ update[w].fd = "tmp"}}
      /\ shared \subseteq shared' /\ shared' \subseteq Names
  BY <1>1 DEF Open, GeoTypeOK
<1>3. update'[u] = [nr |-> update[u].nr, fd |-> "tmp", pos |-> 0]
  BY <1>1 DEF GeoTypeOK
<1>4. \A v \in Updates \ {u} : update'[v] = update[v]
  BY <1>1 DEF GeoTypeOK
<1>5. GeoTypeOK'
  <2>1. update' \in [Updates -> [nr : DOMAIN GeoFiles \cup {0},
                      fd : {"none", "tmp", "dst", "gone"}, pos : 0 .. 2]]
    BY <1>1 DEF GeoTypeOK
  <2> QED
    BY <1>1, <1>2, <2>1 DEF GeoTypeOK
<1>6. Opened'
  <2>1. tmp'[Name(u)] # NoFile /\ \A n \in Names : tmp[n] # NoFile => tmp'[n] # NoFile
    BY <1>1, GeoAssumption DEF GeoTypeOK
  <2> QED
    BY <1>1, <1>3, <1>4, <2>1, Named DEF Opened, Running, Name
<1>7. ASSUME NEW n \in Names \ shared' PROVE Unshared(n)'
  <2>1. n \notin shared /\ Unshared(n)
    BY <1>2, <1>7
  <2>2. CASE n # Name(u)
    BY <1>1, <1>3, <1>4, <2>1, <2>2 DEF Unshared, Running, Name, GeoTypeOK
  <2>3. CASE n = Name(u)
    <3>1. \A v \in Updates \ {u} : Running(v) /\ Name(v) = n => update[v].fd = "none"
      BY <1>2, <1>7, <2>1, <2>3 DEF Unshared
    <3>2. tmp'[n] = 1 .. 0
      BY <1>1, <2>3 DEF GeoTypeOK
    <3>3. update'[u].fd = "tmp" /\ update'[u].pos = 0
      BY <1>3
    <3>4. \A v \in Updates \ {u} : Running(v)' /\ Name(v)' = n => update'[v].fd = "none"
      BY <1>4, <3>1 DEF Running, Name
    <3>5. dst'[n] = Blocks
      BY <1>1, <2>1 DEF Unshared
    <3> QED
      BY <3>2, <3>3, <3>4, <3>5 DEF Unshared
  <2> QED
    BY <2>2, <2>3
<1> QED
  BY <1>5, <1>6, <1>7

LEMMA CopyStep ==
  ASSUME GeoInv, NEW u \in Updates, CopyBlock(u)
  PROVE  GeoInv'
<1> USE DEF GeoInv
<1>1. /\ Running(u) /\ Name(u) \in Names /\ update[u].fd # "none"
      /\ update[u].pos \in {0, 1} /\ UNCHANGED <<crashes, shared>>
      /\ update' = [update EXCEPT ![u].pos = @ + 1]
      /\ tmp' = IF update[u].fd = "tmp"
                  THEN [tmp EXCEPT ![Name(u)] = @ \cup {update[u].pos + 1}] ELSE tmp
      /\ dst' = IF update[u].fd = "dst"
                  THEN [dst EXCEPT ![Name(u)] = @ \cup {update[u].pos + 1}] ELSE dst
  BY Named, TwoBlocks DEF CopyBlock, Opened, GeoTypeOK
<1>2. update'[u] = [nr |-> update[u].nr, fd |-> update[u].fd, pos |-> update[u].pos + 1]
  BY <1>1 DEF GeoTypeOK
<1>3. \A v \in Updates \ {u} : update'[v] = update[v]
  BY <1>1 DEF GeoTypeOK
<1>4. update[u].pos + 1 \in Blocks
  BY <1>1 DEF Blocks
<1>5. update[u].fd = "tmp" => tmp[Name(u)] \in SUBSET Blocks
  <2>1. Name(u) \in Names /\ (update[u].fd = "tmp" => tmp[Name(u)] # NoFile)
    BY <1>1 DEF Opened
  <2>2. tmp[Name(u)] \in (SUBSET Blocks) \cup {NoFile}
    BY <2>1 DEF GeoTypeOK
  <2> QED
    BY <2>1, <2>2
<1>6. GeoTypeOK'
  <2>1. update' \in [Updates -> [nr : DOMAIN GeoFiles \cup {0},
                      fd : {"none", "tmp", "dst", "gone"}, pos : 0 .. 2]]
    BY <1>1 DEF GeoTypeOK
  <2>2. tmp' \in [Names -> (SUBSET Blocks) \cup {NoFile}]
    BY <1>1, <1>4, <1>5 DEF GeoTypeOK
  <2>3. dst' \in [Names -> SUBSET Blocks]
    BY <1>1, <1>4 DEF GeoTypeOK
  <2> QED
    BY <1>1, <2>1, <2>2, <2>3 DEF GeoTypeOK
<1>7. \A n \in Names : tmp'[n] = NoFile => tmp[n] = NoFile
  BY <1>1, <1>4, <1>5, GeoAssumption DEF GeoTypeOK, Blocks
<1>8. Opened'
  BY <1>1, <1>2, <1>3, <1>7, Named DEF Opened, Running, Name
<1>9. ASSUME NEW n \in Names \ shared PROVE Unshared(n)'
  <2>1. Unshared(n)
    BY <1>9
  <2>2. CASE n # Name(u)
    BY <1>1, <1>2, <1>3, <2>1, <2>2 DEF Unshared, Running, Name, GeoTypeOK
  <2>3. CASE n = Name(u)
    <3>1. update[u].fd = "tmp" /\ tmp[n] = 1 .. update[u].pos
      BY <1>1, <2>1, <2>3 DEF Unshared
    <3>2. tmp'[n] = 1 .. update'[u].pos /\ dst' = dst
      BY <1>1, <1>2, <2>3, <3>1 DEF GeoTypeOK
    <3> QED
      BY <1>1, <1>2, <1>3, <2>1, <2>3, <3>1, <3>2 DEF Unshared, Running, Name
  <2> QED
    BY <2>2, <2>3
<1> QED
  BY <1>1, <1>6, <1>8, <1>9

LEMMA CopyFailsStep ==
  ASSUME GeoInv, NEW u \in Updates, CopyFails(u)
  PROVE  GeoInv'
<1> USE DEF GeoInv
<1>1. /\ Running(u) /\ Name(u) \in Names /\ update[u].fd # "none"
      /\ tmp' = [tmp EXCEPT ![Name(u)] = NoFile] /\ UNCHANGED <<dst, crashes, shared>>
      /\ update' = [Moved(u, "gone") EXCEPT ![u] = NotUpdating]
  BY Named DEF CopyFails, Opened
<1>2. update'[u] = NotUpdating
  BY <1>1, MovedKeeps
<1>3. \A v \in Updates \ {u} : update'[v] = Moved(u, "gone")[v]
  BY <1>1, MovedKeeps
<1>4. GeoTypeOK'
  <2>1. update' \in [Updates -> [nr : DOMAIN GeoFiles \cup {0},
                      fd : {"none", "tmp", "dst", "gone"}, pos : 0 .. 2]]
    BY <1>1, MovedKeeps DEF NotUpdating
  <2>2. tmp' \in [Names -> (SUBSET Blocks) \cup {NoFile}]
    BY <1>1 DEF GeoTypeOK
  <2> QED
    BY <1>1, <2>1, <2>2 DEF GeoTypeOK
<1>5. Opened'
  <2>1. \A v \in Updates \ {u} :
          /\ update'[v].nr = update[v].nr /\ update'[v].pos = update[v].pos
          /\ update'[v].fd = "none" <=> update[v].fd = "none"
          /\ update'[v].fd = "tmp" => update[v].fd = "tmp" /\ Name(v) # Name(u)
    BY <1>1, <1>3, MovedKeeps
  <2> QED
    BY <1>1, <1>2, <2>1, Named DEF Opened, Running, Name, NotUpdating, GeoTypeOK
<1>6. ASSUME NEW n \in Names \ shared PROVE Unshared(n)'
  BY <1>1, <1>2, <1>3, <1>6, MovedKeeps
    DEF Unshared, Running, Name, NotUpdating, GeoTypeOK
<1> QED
  BY <1>1, <1>4, <1>5, <1>6

LEMMA RenameStep ==
  ASSUME GeoInv, NEW u \in Updates, Rename(u)
  PROVE  GeoInv'
<1> USE DEF GeoInv
<1> DEFINE next == IF update[u].nr + 1 \in DOMAIN GeoFiles
                     THEN [NotUpdating EXCEPT !.nr = update[u].nr + 1]
                     ELSE NotUpdating
<1>1. /\ update[u].pos = 2 /\ update[u].fd # "none"
      /\ Running(u) /\ Name(u) \in Names /\ tmp[Name(u)] \in SUBSET Blocks
      /\ dst' = [dst EXCEPT ![Name(u)] = tmp[Name(u)]]
      /\ tmp' = [tmp EXCEPT ![Name(u)] = NoFile] /\ UNCHANGED <<crashes, shared>>
      /\ update' = [Moved(u, "dst") EXCEPT ![u] = next]
  <2>1. /\ update[u].pos = 2 /\ tmp[Name(u)] # NoFile
        /\ update[u].fd # "none" /\ Running(u)
    BY TwoBlocks DEF Rename, Opened
  <2>2. Name(u) \in Names /\ tmp[Name(u)] \in SUBSET Blocks
    BY <2>1, Named DEF GeoTypeOK
  <2> QED
    BY <2>1, <2>2 DEF Rename
<1>2. /\ next \in [nr : DOMAIN GeoFiles \cup {0}, fd : {"none"}, pos : {0}]
      /\ next.fd = "none" /\ next.pos = 0
  BY DEF NotUpdating
<1> HIDE DEF next
<1>3. update'[u] = next
  BY <1>1, MovedKeeps
<1>4. \A v \in Updates \ {u} : update'[v] = Moved(u, "dst")[v]
  BY <1>1, MovedKeeps
<1>5. GeoTypeOK'
  <2>1. update' \in [Updates -> [nr : DOMAIN GeoFiles \cup {0},
                      fd : {"none", "tmp", "dst", "gone"}, pos : 0 .. 2]]
    BY <1>1, <1>2, MovedKeeps
  <2>2. tmp' \in [Names -> (SUBSET Blocks) \cup {NoFile}]
    BY <1>1 DEF GeoTypeOK
  <2>3. dst' \in [Names -> SUBSET Blocks]
    BY <1>1 DEF GeoTypeOK
  <2> QED
    BY <1>1, <2>1, <2>2, <2>3 DEF GeoTypeOK
<1>6. Opened'
  <2>1. \A v \in Updates \ {u} :
          /\ update'[v].nr = update[v].nr /\ update'[v].pos = update[v].pos
          /\ update'[v].fd = "none" <=> update[v].fd = "none"
          /\ update'[v].fd = "tmp" => update[v].fd = "tmp" /\ Name(v) # Name(u)
    BY <1>1, <1>4, MovedKeeps
  <2> QED
    BY <1>1, <1>2, <1>3, <2>1, Named DEF Opened, Running, Name, GeoTypeOK
<1>7. ASSUME NEW n \in Names \ shared PROVE Unshared(n)'
  <2>1. n = Name(u) => tmp[n] = Blocks
    BY <1>1, <1>7 DEF Unshared, Blocks
  <2>2. dst'[n] = Blocks
    BY <1>1, <1>7, <2>1 DEF Unshared, GeoTypeOK
  <2>3. n # Name(u) => tmp'[n] = tmp[n]
    BY <1>1 DEF GeoTypeOK
  <2>4. ASSUME NEW v \in Updates, v # u,
               Running(v)', Name(v)' = n
        PROVE  Running(v) /\ Name(v) = n /\ update'[v] = update[v]
    BY <1>1, <1>4, <1>7, <2>4, MovedKeeps DEF Running, Name
  <2> QED
    BY <1>1, <1>2, <1>3, <1>7, <2>2, <2>3, <2>4 DEF Unshared
<1> QED
  BY <1>1, <1>5, <1>6, <1>7

LEMMA CrashStep ==
  ASSUME GeoInv, GeoCrash
  PROVE  GeoInv'
<1> USE DEF GeoInv
<1>1. /\ update' = [u \in Updates |-> NotUpdating]
      /\ crashes' \in Nat /\ UNCHANGED <<dst, tmp, shared>>
  BY DEF GeoCrash, GeoTypeOK
<1>2. GeoTypeOK' /\ Opened'
  BY <1>1 DEF GeoTypeOK, Opened, NotUpdating
<1>3. ASSUME NEW n \in Names \ shared PROVE Unshared(n)'
  BY <1>1, <1>3 DEF Unshared, Running, NotUpdating
<1> QED
  BY <1>1, <1>2, <1>3

-----------------------------------------------------------------------------
LEMMA GeoStepInv == GeoInv /\ [GeoNext]_geoVars => GeoInv'
<1> SUFFICES ASSUME GeoInv, [GeoNext]_geoVars PROVE GeoInv'
  OBVIOUS
<1>1. CASE UNCHANGED geoVars
  <2>1. GeoTypeOK' /\ Opened'
    BY <1>1 DEF geoVars, GeoInv, GeoTypeOK, Opened, Running, Name
  <2>2. \A n \in Names \ shared' : Unshared(n)'
    BY <1>1 DEF geoVars, GeoInv, Unshared, Running, Name
  <2> QED
    BY <2>1, <2>2 DEF GeoInv
<1>2. ASSUME NEW u \in Updates, BeginUpdate(u) PROVE GeoInv'
  <2>1. update[u].fd = "none" /\ update[u].pos = 0
    BY <1>2 DEF BeginUpdate, GeoInv, Opened
  <2>2. 1 \in DOMAIN GeoFiles
    BY GeoAssumption
  <2>3. update' = [update EXCEPT ![u] = [nr |-> 1, fd |-> "none", pos |-> 0]]
    <3>1. update[u] = [nr |-> 0, fd |-> "none", pos |-> 0]
      BY <1>2, <2>1 DEF BeginUpdate, Running, GeoInv, GeoTypeOK
    <3>2. [update[u] EXCEPT !.nr = 1] = [nr |-> 1, fd |-> "none", pos |-> 0]
      BY <3>1
    <3> QED
      BY <1>2, <3>2 DEF BeginUpdate
  <2> QED
    BY <1>2, <2>2, <2>3, KeepsFiles DEF BeginUpdate
<1>3. ASSUME NEW u \in Updates, DownloadFails(u) \/ RenameFails(u) PROVE GeoInv'
  <2>1. /\ update' = [update EXCEPT ![u] = [nr |-> 0, fd |-> "none", pos |-> 0]]
        /\ UNCHANGED <<dst, tmp, crashes, shared>>
    BY <1>3 DEF DownloadFails, RenameFails, NotUpdating
  <2> QED
    BY <2>1, KeepsFiles
<1>4. CASE GeoCrash
  BY <1>4, CrashStep
<1> QED
  BY <1>1, <1>2, <1>3, <1>4, OpenStep, CopyStep, CopyFailsStep, RenameStep DEF GeoNext

\* A file that no two updates ever wrote at once is whole at every moment, for
\* any number of files, updates, crashes and broken downloads.
THEOREM WholeUnlessShared == GeoSpec => []GeoWholeUnlessShared
<1>1. GeoInv => GeoWholeUnlessShared
  BY DEF GeoInv, Unshared, GeoWholeUnlessShared
<1> QED
  BY GeoInitInv, GeoStepInv, <1>1, PTL DEF GeoSpec

-----------------------------------------------------------------------------
(***************************************************************************)
(* ConnectionsPage                                                         *)
(***************************************************************************)

Shape    == [op : {"none", "fetch", "close", "closeAll"}, conn : Conns \cup {NoConn},
             at : {"sent", "done", "orphan"}, list : Listings]
Requests == {c \in Shape : c.op = "close" <=> c.conn \in Conns}

\* The module's types, and the shape that access to fields takes for granted.
PageTypes == TypeOK /\ call \in [Slots -> Requests]

PageInv == PageTypes /\ CursorOnARow /\ PromptInSight

-----------------------------------------------------------------------------
(* Listings and requests *)

LEMMA Rows ==
  ASSUME NEW l \in Listings
  PROVE  l \in Seq(Conns)
<1>1. PICK s \in SUBSET Conns : l \in SetToSeqs(s)
  BY DEF Listings
<1>2. Cardinality(s) \in Nat
  BY ConnectionsAssumption, FS_Subset, FS_CardinalityType
<1>3. l \in [1 .. Cardinality(s) -> s]
  BY <1>1 DEF SetToSeqs
<1> QED
  BY <1>2, <1>3

LEMMA NoRows == <<>> \in Listings
<1>1. Cardinality({}) = 0
  BY FS_EmptySet
<1>2. 1 .. Cardinality({}) = {}
  BY <1>1
<1>3. <<>> \in [{} -> {}]
  OBVIOUS
<1>4. <<>> \in SetToSeqs({})
  BY <1>2, <1>3 DEF SetToSeqs
<1> QED
  BY <1>4 DEF Listings

LEMMA Sent ==
  /\ Free \in Requests /\ Fetch \in Requests /\ CloseAll \in Requests
  /\ \A c \in Conns : Close(c) \in Requests
<1>1. Free \in Shape /\ Free.op = "none" /\ Free.conn = NoConn
  BY NoRows DEF Free, Shape
<1>2. Free \in Requests
  BY <1>1, ConnectionsAssumption DEF Requests
<1>3. Fetch \in Requests /\ CloseAll \in Requests
  BY <1>1, ConnectionsAssumption DEF Fetch, CloseAll, Shape, Requests
<1>4. ASSUME NEW c \in Conns PROVE Close(c) \in Requests
  BY <1>1, <1>4 DEF Close, Shape, Requests
<1> QED
  BY <1>2, <1>3, <1>4

LEMMA Issued ==
  ASSUME call \in [Slots -> Requests], NEW r \in Requests, Issue(r)
  PROVE  call' \in [Slots -> Requests]
BY DEF Issue

LEMMA PageInitInv == Init => PageInv
<1> SUFFICES ASSUME Init PROVE PageInv
  OBVIOUS
<1>1. call \in [Slots -> Requests]
  BY Sent DEF Init
<1>2. TypeOK
  <2>1. ticks \in 0 .. MaxTicks
    BY ConnectionsAssumption DEF Init
  <2>2. live \subseteq Conns /\ shown \in Listings /\ cursor \in Nat
    BY NoRows DEF Init
  <2>3. \A k \in Slots :
          /\ call[k].op \in {"none", "fetch", "close", "closeAll"}
          /\ call[k].op = "close" <=> call[k].conn \in Conns
          /\ call[k].at \in {"sent", "done", "orphan"}
          /\ call[k].list \in Listings
    BY <1>1 DEF Requests, Shape
  <2> QED
    BY <2>1, <2>2, <2>3 DEF Init, TypeOK
<1> QED
  BY <1>1, <1>2 DEF Init, PageInv, PageTypes, CursorOnARow, PromptInSight

\* What leaves the rows and the cursor alone.
LEMMA Keeps ==
  ASSUME PageInv, live' \subseteq Conns, call' \in [Slots -> Requests],
         UNCHANGED <<shown, cursor>>, tab' \in {"connections", "other"},
         confirmAll' \in BOOLEAN, visited' \in BOOLEAN, ticks' \in 0 .. MaxTicks,
         confirmAll' => tab' = "connections"
  PROVE  PageInv'
<1>1. PageTypes'
  BY DEF PageInv, PageTypes, TypeOK, Requests, Shape
<1>2. CursorOnARow' /\ PromptInSight'
  BY DEF PageInv, CursorOnARow, PromptInSight
<1> QED
  BY <1>1, <1>2 DEF PageInv

-----------------------------------------------------------------------------
(* One step of every kind *)

LEMMA KeyStep ==
  ASSUME PageInv, Key
  PROVE  PageInv'
<1>0. /\ live \subseteq Conns /\ call \in [Slots -> Requests]
      /\ tab \in {"connections", "other"} /\ shown \in Seq(Conns) /\ cursor \in Nat
      /\ confirmAll \in BOOLEAN /\ visited \in BOOLEAN /\ ticks \in 0 .. MaxTicks
      /\ confirmAll => tab = "connections"
      /\ MaxTicks \in Nat
  BY Rows, ConnectionsAssumption DEF PageInv, PageTypes, TypeOK, PromptInSight
<1>1. ASSUME NEW delta \in {-1, 1}, MoveCursor(delta) PROVE PageInv'
  <2>1. /\ UNCHANGED <<live, tab, shown, confirmAll, ticks, visited, call>>
        /\ cursor' = IF cursor + delta \in 0 .. Len(shown) - 1 THEN cursor + delta
                                                               ELSE cursor
    BY <1>1 DEF MoveCursor
  <2>2. cursor' \in Nat
    BY <1>0, <2>1
  <2>3. PageTypes'
    BY <1>0, <2>1, <2>2 DEF PageInv, PageTypes, TypeOK
  <2>4. shown = <<>> => Len(shown) = 0
    OBVIOUS
  <2>5. CursorOnARow'
    <3>1. CASE shown = <<>>
      BY <2>1, <2>4, <3>1 DEF PageInv, CursorOnARow
    <3>2. CASE shown # <<>>
      BY <1>0, <2>1, <3>2, LenProperties DEF PageInv, CursorOnARow
    <3> QED
      BY <3>1, <3>2
  <2> QED
    BY <2>1, <2>3, <2>5 DEF PageInv, PromptInSight
<1>2. CASE CloseCurrent
  <2>1. cursor + 1 \in 1 .. Len(shown)
    BY <1>0, <1>2, LenProperties DEF CloseCurrent, PageInv, CursorOnARow
  <2>2. shown[cursor + 1] \in Conns
    BY <1>0, <2>1, ElementOfSeq
  <2>3. call' \in [Slots -> Requests]
    BY <1>0, <1>2, <2>2, Sent, Issued DEF CloseCurrent
  <2> QED
    BY <1>0, <1>2, <2>3, Keeps DEF CloseCurrent, page
<1>3. CASE AskCloseAll
  BY <1>0, <1>3, Keeps DEF AskCloseAll, OnTab
<1>4. CASE Confirm
  <2>1. call' \in [Slots -> Requests]
    BY <1>0, <1>4, Sent, Issued DEF Confirm
  <2> QED
    BY <1>0, <1>4, <2>1, Keeps DEF Confirm
<1>5. CASE Refresh
  <2>1. call' \in [Slots -> Requests]
    BY <1>0, <1>5, Sent, Issued DEF Refresh
  <2> QED
    BY <1>0, <1>5, <2>1, Keeps DEF Refresh, page
<1>6. CASE Visit
  BY <1>0, <1>6, Keeps DEF Visit
<1>7. CASE Leave
  BY <1>0, <1>7, Keeps DEF Leave, GlobalKey
<1> QED
  BY <1>1, <1>2, <1>3, <1>4, <1>5, <1>6, <1>7 DEF Key

LEMMA TickStep ==
  ASSUME PageInv, Tick
  PROVE  PageInv'
<1>0. /\ live \subseteq Conns /\ call \in [Slots -> Requests]
      /\ tab \in {"connections", "other"}
      /\ confirmAll \in BOOLEAN /\ visited \in BOOLEAN /\ ticks \in 0 .. MaxTicks
      /\ confirmAll => tab = "connections"
      /\ MaxTicks \in Nat
  BY ConnectionsAssumption DEF PageInv, PageTypes, TypeOK, PromptInSight
<1>1. call' \in [Slots -> Requests] /\ ticks' \in 0 .. MaxTicks
  BY <1>0, Sent, Issued DEF Tick
<1> QED
  BY <1>0, <1>1, Keeps DEF Tick

\* The kernel answers, the client gives up: only the request changes, and what
\* there is.
LEMMA RequestStep ==
  ASSUME PageInv, NEW k \in Slots,
         \/ List(k) \/ Serve(k) \/ Fail(k) \/ ServeOrphan(k)
         \/ ConnectionOp(k) \/ TimeOut(k)
  PROVE  PageInv'
<1>0. /\ live \subseteq Conns /\ call \in [Slots -> Requests] /\ call[k] \in Requests
      /\ tab \in {"connections", "other"}
      /\ confirmAll \in BOOLEAN /\ visited \in BOOLEAN /\ ticks \in 0 .. MaxTicks
      /\ confirmAll => tab = "connections"
  BY DEF PageInv, PageTypes, TypeOK, PromptInSight
<1>1. UNCHANGED page
  BY DEF List, Serve, Fail, ServeOrphan, ConnectionOp, TimeOut
<1>2. live' \subseteq Conns
  BY <1>0 DEF List, Serve, Fail, ServeOrphan, ConnectionOp, TimeOut, Obeys
<1>3. call' \in [Slots -> Requests]
  <2>1. CASE List(k)
    <3>1. PICK l \in SetToSeqs(live) :
            call' = [call EXCEPT ![k] = [call[k] EXCEPT !.at = "done", !.list = l]]
      BY <2>1 DEF List
    <3>2. l \in Listings
      BY <1>0 DEF Listings
    <3>3. [call[k] EXCEPT !.at = "done", !.list = l] \in Requests
      BY <1>0, <3>2 DEF Requests, Shape
    <3> QED
      BY <1>0, <3>1, <3>3
  <2>2. CASE Serve(k)
    <3>1. call' = [call EXCEPT ![k] = [call[k] EXCEPT !.at = "done"]]
      BY <2>2 DEF Serve
    <3>2. [call[k] EXCEPT !.at = "done"] \in Requests
      BY <1>0 DEF Requests, Shape
    <3> QED
      BY <1>0, <3>1, <3>2
  <2>3. CASE Fail(k) \/ ServeOrphan(k)
    BY <1>0, <2>3, Sent DEF Fail, ServeOrphan
  <2>4. CASE ConnectionOp(k)
    BY <1>0, <2>4, Sent DEF ConnectionOp
  <2>5. CASE TimeOut(k)
    <3>1. [call[k] EXCEPT !.at = "orphan"] \in Requests
      BY <1>0 DEF Requests, Shape
    <3> QED
      BY <1>0, <2>5, <3>1, Sent DEF TimeOut
  <2> QED
    BY <2>1, <2>2, <2>3, <2>4, <2>5
<1> QED
  BY <1>0, <1>1, <1>2, <1>3, Keeps DEF page

\* A shorter list takes the cursor along.
LEMMA LoadedStep ==
  ASSUME PageInv, NEW k \in Slots, ConnectionsLoaded(k)
  PROVE  PageInv'
<1>1. /\ call[k] \in Requests /\ call[k].list \in Listings
      /\ UNCHANGED <<live, tab, confirmAll, ticks, visited>>
      /\ shown' = call[k].list /\ call' = [call EXCEPT ![k] = Free]
      /\ cursor \in Nat
  BY DEF ConnectionsLoaded, PageInv, PageTypes, TypeOK, Requests, Shape
<1>2. call' \in [Slots -> Requests]
  BY <1>1, Sent DEF PageInv, PageTypes
<1>3. Len(shown') \in Nat /\ (shown' = <<>> <=> Len(shown') = 0)
  BY <1>1, Rows, EmptySeq, LenProperties
<1>4. cursor' = IF cursor < Len(shown') THEN cursor ELSE Max({0, Len(shown') - 1})
  BY DEF ConnectionsLoaded
<1>5. Max({0, Len(shown') - 1}) = IF shown' = <<>> THEN 0 ELSE Len(shown') - 1
  BY <1>3 DEF Max
<1>6. cursor' \in Nat /\ CursorOnARow'
  BY <1>1, <1>3, <1>4, <1>5 DEF CursorOnARow
<1>7. TypeOK'
  BY <1>1, <1>2, <1>6 DEF PageInv, PageTypes, TypeOK, Requests, Shape
<1> QED
  BY <1>1, <1>2, <1>6, <1>7 DEF PageInv, PageTypes, PromptInSight

LEMMA PageStepInv == PageInv /\ [Next]_vars => PageInv'
<1> SUFFICES ASSUME PageInv, [Next]_vars PROVE PageInv'
  OBVIOUS
<1>1. CASE Traffic \/ UNCHANGED vars
  BY <1>1, Keeps DEF Traffic, vars, page, PageInv, PageTypes, TypeOK, PromptInSight
<1> QED
  BY <1>1, KeyStep, TickStep, RequestStep, LoadedStep DEF Next, Kernel, Answer

\* The row under the cursor exists whenever there is one, so that "x" finds an id,
\* and the prompt to close everything never waits out of sight, for any
\* connections, requests and chains of ticks.
THEOREM PartsFit == Spec => []PageOK
<1>1. PageInv => PageOK
  BY DEF PageInv, PageTypes, PageOK
<1> QED
  BY <1>1, PageInitInv, PageStepInv, PTL DEF Spec

-----------------------------------------------------------------------------
(* Merge *)

\* The invariant of a merge, of any four of: what came out so far, the base, the
\* overlay and the paths that are left.

\* Nothing is left further on.
Settled(left, p) == \A t \in left : ~IsStrictPrefix(p, t)

\* A mapping whose keys are among those that are left, or were.
Entered(left, level) == \A t \in left : ~IsPrefix(t, level)

Offspring(level) == {p \in Paths \ {<<>>} : Front(p) = level}

KeyStatus(out, base, overlay, left, level, p) ==
  IF /\ p \in Own(overlay, level) \ left
     /\ IsPlainObject(base, p) /\ IsPlainObject(overlay, p)
  THEN IsPlainObject(out, p)
  ELSE /\ Settled(left, p)
       /\ p \in Own(overlay, level) \ left => Part(out, p) = Part(overlay, p)
       /\ p \notin Own(overlay, level) \ left => Part(out, p) = Part(base, p)

\* The directives for a target that were obeyed.
Obeyed(overlay, left, level) ==
  {d \in Used(overlay, level) : Append(level, d) \notin left}

\* The target as the base has it.
AsBase(out, base, overlay, left, level, target, obeyed) ==
  /\ target \notin Own(overlay, level) \ left
  /\ Settled(left, target)
  /\ obeyed = {} => Part(out, target) = Part(base, target)
  /\ obeyed # {} =>
       Part(out, target) =
         OnlyArray(target, Spliced(obeyed, overlay, level, asArray(base, target)))

\* The target as the overlay has it.
AsOverlay(out, overlay, left, level, target, obeyed) ==
  /\ target \in Own(overlay, level) \ left
  /\ Settled(left, target)
  /\ \/ Part(out, target) = Part(overlay, target)
     \/ \E late \in (SUBSET obeyed) \ {{}} :
          Part(out, target) =
            OnlyArray(target, Spliced(late, overlay, level, asArray(overlay, target)))

\* The target is a mapping that is being merged, until a directive replaces it.
AsMapping(out, overlay, left, level, target, obeyed) ==
  /\ target \in Own(overlay, level) \ left
  /\ obeyed = {} /\ IsPlainObject(out, target) /\ IsPlainObject(overlay, target)

TargetStatus(out, base, overlay, left, level, target, obeyed) ==
  \/ AsBase(out, base, overlay, left, level, target, obeyed)
  \/ AsOverlay(out, overlay, left, level, target, obeyed)
  \/ AsMapping(out, overlay, left, level, target, obeyed)

LevelStatus(out, base, overlay, left, level) ==
  /\ IsPlainObject(out, level)
  /\ \A p \in Offspring(level) :
       p # Append(level, Target) \/ Used(overlay, level) = {} =>
         KeyStatus(out, base, overlay, left, level, p)
  /\ Used(overlay, level) # {} =>
       TargetStatus(out, base, overlay, left, level, Append(level, Target),
                    Obeyed(overlay, left, level))

Pending(out, overlay, left) ==
  /\ left \subseteq DOMAIN overlay \ {<<>>}
  /\ \A s, t \in left : IsPrefix(s, t) => s = t
  /\ \A t \in left : IsPlainObject(out, Front(t))

Merging(out, base, overlay, left) ==
  /\ IsPlainObject(out, <<>>)
  /\ Pending(out, overlay, left)
  /\ \A level \in Shared(base, overlay) :
       Entered(left, level) => LevelStatus(out, base, overlay, left, level)

Given == UNION {ToSet(job.overlays) : job \in Jobs}

MergeInv ==
  /\ IsDocument(acc) /\ IsDocument(before)
  /\ overlays \in Seq(Given)
  /\ stage \in {"next", "merging", "done", "error"}
  /\ stage = "next" => IsPlainObject(acc, <<>>)
  /\ stage = "merging" => /\ overlays # <<>> /\ IsPlainObject(Head(overlays), <<>>)
                          /\ IsPlainObject(before, <<>>)
                          /\ Merging(acc, before, Head(overlays), todo)

-----------------------------------------------------------------------------
(* Merge: paths *)

LEMMA PrefixIs ==
  ASSUME NEW s \in Paths, NEW t \in Paths
  PROVE  IsPrefix(s, t) <=> Len(s) <= Len(t) /\ \A i \in 1 .. Len(s) : s[i] = t[i]
<1>1. CASE Len(s) <= Len(t)
  <2>1. SubSeq(s, 1, Len(s)) \in Seq(Keys) /\ SubSeq(t, 1, Len(s)) \in Seq(Keys)
    BY <1>1 DEF Paths
  <2>2. Len(SubSeq(s, 1, Len(s))) = Len(s) /\ Len(SubSeq(t, 1, Len(s))) = Len(s)
    BY <1>1 DEF Paths
  <2>3. \A i \in 1 .. Len(s) : /\ SubSeq(s, 1, Len(s))[i] = s[i]
                               /\ SubSeq(t, 1, Len(s))[i] = t[i]
    BY <1>1 DEF Paths
  <2> QED
    BY <1>1, <2>1, <2>2, <2>3, SeqEqual DEF IsPrefix
<1> QED
  BY <1>1 DEF IsPrefix

LEMMA SamePath ==
  ASSUME NEW s \in Paths, NEW t \in Paths, Len(s) = Len(t),
         \A i \in 1 .. Len(s) : s[i] = t[i]
  PROVE  s = t
BY SeqEqual DEF Paths

\* Prefixes are ordered, and those of one path are so among one another.
LEMMA PrefixOrder ==
  /\ \A s \in Paths : IsPrefix(s, s) /\ IsPrefix(<<>>, s)
  /\ \A s, t \in Paths : IsPrefix(s, t) =>
       Len(s) <= Len(t) /\ (Len(s) = Len(t) => s = t)
  /\ \A r, s, t \in Paths : IsPrefix(r, s) /\ IsPrefix(s, t) => IsPrefix(r, t)
  /\ \A r, s, t \in Paths :
       IsPrefix(r, t) /\ IsPrefix(s, t) => IsPrefix(r, s) \/ IsPrefix(s, r)
<1>0. <<>> \in Paths /\ \A s \in Paths : Len(s) \in Nat
  BY DEF Paths
<1>1. \A s \in Paths : IsPrefix(s, s) /\ IsPrefix(<<>>, s)
  BY <1>0, PrefixIs
<1>2. ASSUME NEW s \in Paths, NEW t \in Paths, IsPrefix(s, t)
      PROVE  Len(s) <= Len(t) /\ (Len(s) = Len(t) => s = t)
  BY <1>2, PrefixIs, SamePath
<1>3. ASSUME NEW r \in Paths, NEW s \in Paths, NEW t \in Paths,
             IsPrefix(r, s), IsPrefix(s, t)
      PROVE  IsPrefix(r, t)
  BY <1>0, <1>3, PrefixIs
<1>4. ASSUME NEW r \in Paths, NEW s \in Paths, NEW t \in Paths,
             IsPrefix(r, t), IsPrefix(s, t)
      PROVE  IsPrefix(r, s) \/ IsPrefix(s, r)
  <2>1. /\ Len(r) <= Len(t) /\ \A i \in 1 .. Len(r) : r[i] = t[i]
        /\ Len(s) <= Len(t) /\ \A i \in 1 .. Len(s) : s[i] = t[i]
    BY <1>4, PrefixIs
  <2>2. CASE Len(r) <= Len(s)
    BY <1>0, <2>1, <2>2, PrefixIs
  <2>3. CASE Len(s) <= Len(r)
    BY <1>0, <2>1, <2>3, PrefixIs
  <2> QED
    BY <1>0, <2>2, <2>3
<1> QED
  BY <1>1, <1>2, <1>3, <1>4

LEMMA FrontOf ==
  ASSUME NEW s \in Paths, s # <<>>
  PROVE  /\ Front(s) \in Paths /\ Len(Front(s)) + 1 = Len(s) /\ Last(s) \in Keys
         /\ IsPrefix(Front(s), s) /\ s = Append(Front(s), Last(s))
         /\ \A t \in Paths : IsPrefix(t, s) /\ t # s => IsPrefix(t, Front(s))
<1>1. Len(s) \in Nat \ {0} /\ s \in Seq(Keys)
  BY DEF Paths
<1>2. /\ Front(s) \in Paths /\ Len(Front(s)) = Len(s) - 1
      /\ \A i \in 1 .. Len(s) - 1 : Front(s)[i] = s[i]
  <2>1. \A i \in 1 .. Len(s) - 1 : s[i] \in Keys
    BY <1>1
  <2>2. 1 \in Int /\ Len(s) - 1 \in Int
    BY <1>1
  <2>3. /\ SubSeq(s, 1, Len(s) - 1) \in Seq(Keys)
        /\ Len(SubSeq(s, 1, Len(s) - 1)) =
             IF 1 <= Len(s) - 1 THEN (Len(s) - 1) - 1 + 1 ELSE 0
        /\ \A i \in 1 .. (Len(s) - 1) - 1 + 1 :
             SubSeq(s, 1, Len(s) - 1)[i] = s[1 + i - 1]
    BY <2>1, <2>2, SubSeqProperties
  <2>4. Front(s) = SubSeq(s, 1, Len(s) - 1)
    BY DEF Front
  <2>5. Len(Front(s)) = Len(s) - 1
    <3>1. Len(Front(s)) = IF 1 <= Len(s) - 1 THEN (Len(s) - 1) - 1 + 1 ELSE 0
      BY <2>3, <2>4, Zenon
    <3> QED
      BY <1>1, <3>1
  <2>6. \A i \in 1 .. Len(s) - 1 : Front(s)[i] = s[i]
    BY <1>1, <2>3, <2>4
  <2> QED
    BY <2>3, <2>4, <2>5, <2>6 DEF Paths
<1>3. Last(s) \in Keys
  BY <1>1 DEF Last
<1>4. s = Append(Front(s), Last(s))
  <2>1. Append(Front(s), Last(s)) \in Paths
    BY <1>2, <1>3 DEF Paths
  <2>2. Len(Append(Front(s), Last(s))) = Len(s)
    BY <1>1, <1>2, <1>3 DEF Paths
  <2>3. \A i \in 1 .. Len(s) : Append(Front(s), Last(s))[i] = s[i]
    BY <1>1, <1>2, <1>3 DEF Paths, Last
  <2> QED
    BY <2>1, <2>2, <2>3, SamePath
<1>5. IsPrefix(Front(s), s)
  BY <1>1, <1>2, PrefixIs
<1>6. ASSUME NEW t \in Paths, IsPrefix(t, s), t # s
      PROVE  IsPrefix(t, Front(s))
  <2>1. Len(t) <= Len(s) /\ Len(t) # Len(s) /\ Len(t) \in Nat
    BY <1>6, PrefixOrder DEF Paths
  <2>2. \A i \in 1 .. Len(t) : t[i] = s[i]
    BY <1>6, PrefixIs
  <2> QED
    BY <1>1, <1>2, <2>1, <2>2, PrefixIs
<1> QED
  BY <1>1, <1>2, <1>3, <1>4, <1>5, <1>6

LEMMA OneFurther ==
  ASSUME NEW s \in Paths, NEW k \in Keys
  PROVE  /\ Append(s, k) \in Paths \ {<<>>}
         /\ Front(Append(s, k)) = s /\ Last(Append(s, k)) = k
         /\ IsPrefix(s, Append(s, k)) /\ Len(Append(s, k)) = Len(s) + 1
<1>1. /\ Append(s, k) \in Paths /\ Len(Append(s, k)) = Len(s) + 1 /\ Len(s) \in Nat
      /\ Append(s, k) # <<>>
      /\ \A i \in 1 .. Len(s) : Append(s, k)[i] = s[i]
      /\ Append(s, k)[Len(s) + 1] = k
  BY AppendProperties DEF Paths
<1>2. Last(Append(s, k)) = k
  BY <1>1 DEF Last
<1> DEFINE t == Append(s, k)
<1>a. t \in Paths /\ Len(t) = Len(s) + 1 /\ t # <<>> /\ \A i \in 1 .. Len(s) : t[i] = s[i]
  BY <1>1
<1> HIDE DEF t
<1>3. IsPrefix(s, t)
  BY <1>1, <1>a, PrefixIs
<1>4. Front(t) = s
  <2>1. IsPrefix(s, Front(t)) /\ Front(t) \in Paths /\ Len(Front(t)) + 1 = Len(t)
    <3>1. s # t
      BY <1>1, <1>a
    <3> QED
      BY <1>a, <1>3, <3>1, FrontOf
  <2>2. Len(Front(t)) \in Nat
    BY <2>1 DEF Paths
  <2>3. Len(s) = Len(Front(t))
    BY <1>1, <1>a, <2>1, <2>2
  <2> QED
    BY <2>1, <2>3, PrefixOrder
<1> QED
  BY <1>1, <1>2, <1>3, <1>4 DEF t

\* Keys of one mapping lead to different places.
LEMMA Siblings ==
  ASSUME NEW s \in Paths \ {<<>>}, NEW t \in Paths \ {<<>>}, Front(s) = Front(t)
  PROVE  /\ Len(s) = Len(t)
         /\ IsPrefix(s, t) => s = t
         /\ Last(s) = Last(t) => s = t
<1>1. Len(Front(s)) + 1 = Len(s) /\ Len(Front(t)) + 1 = Len(t)
  BY FrontOf
<1> QED
  BY <1>1, FrontOf, PrefixOrder

\* The first key on the way from one place to another.
LEMMA OnTheWay ==
  ASSUME NEW s \in Paths, NEW t \in Paths, IsPrefix(s, t), s # t
  PROVE  \E c \in Paths \ {<<>>} : Front(c) = s /\ IsPrefix(c, t)
<1>1. /\ Len(s) \in Nat /\ Len(t) \in Nat /\ Len(s) < Len(t)
      /\ \A i \in 1 .. Len(s) : s[i] = t[i]
  BY PrefixIs, PrefixOrder DEF Paths
<1> DEFINE c == Append(s, t[Len(s) + 1])
<1>2. t[Len(s) + 1] \in Keys
  BY <1>1 DEF Paths
<1>3. /\ c \in Paths \ {<<>>} /\ Front(c) = s /\ Last(c) = t[Len(s) + 1]
      /\ Len(c) = Len(s) + 1
  BY <1>2, OneFurther
<1>4. \A i \in 1 .. Len(s) : c[i] = s[i]
  BY <1>2 DEF Paths
<1>5. c[Len(s) + 1] = t[Len(s) + 1]
  BY <1>3 DEF Last
<1> HIDE DEF c
<1>6. IsPrefix(c, t)
  BY <1>1, <1>3, <1>4, <1>5, PrefixIs
<1> QED
  BY <1>3, <1>6

-----------------------------------------------------------------------------
(* Merge: documents *)

\* Whatever is on the way to something is a mapping.
LEMMA Closed ==
  ASSUME NEW doc, IsDocument(doc), NEW p \in DOMAIN doc, NEW q \in Paths,
         IsPrefix(q, p)
  PROVE  q \in DOMAIN doc /\ (q # p => IsPlainObject(doc, q))
<1> DEFINE S == {n \in Nat : \A r \in DOMAIN doc : IsPrefix(q, r) /\ Len(r) = Len(q) + n
                              => q \in DOMAIN doc /\ (q # r => IsPlainObject(doc, q))}
<1>0. \A r \in DOMAIN doc : r \in Paths /\ Len(r) \in Nat
  BY DEF IsDocument, Paths
<1>1. Len(q) \in Nat
  BY DEF Paths
<1>2. 0 \in S
  BY <1>0, <1>1, PrefixOrder
<1>3. ASSUME NEW n \in Nat, n \in S
      PROVE  n + 1 \in S
  <2> SUFFICES ASSUME NEW r \in DOMAIN doc, IsPrefix(q, r), Len(r) = Len(q) + (n + 1)
               PROVE  q \in DOMAIN doc /\ (q # r => IsPlainObject(doc, q))
    OBVIOUS
  <2>1. r # q /\ r # <<>>
    <3>1. Len(r) # Len(q) /\ Len(r) # 0
      BY <1>1
    <3> QED
      BY <3>1
  <2>2. /\ Front(r) \in DOMAIN doc /\ IsPlainObject(doc, Front(r))
        /\ IsPrefix(q, Front(r)) /\ Len(Front(r)) + 1 = Len(r)
    <3>1. IsPlainObject(doc, Front(r))
      BY <2>1 DEF IsDocument
    <3> QED
      BY <1>0, <2>1, <3>1, FrontOf DEF IsPlainObject
  <2>3. Len(Front(r)) = Len(q) + n
    BY <1>0, <1>1, <2>2
  <2>4. q \in DOMAIN doc /\ (q # Front(r) => IsPlainObject(doc, q))
    BY <1>3, <2>2, <2>3
  <2> QED
    BY <2>2, <2>4
<1> HIDE DEF S
<1>4. Nat \subseteq S
  BY <1>2, <1>3, SetInduction
<1>5. Len(p) - Len(q) \in Nat /\ Len(p) = Len(q) + (Len(p) - Len(q))
  BY <1>0, <1>1, PrefixOrder
<1> QED
  BY <1>4, <1>5 DEF S

\* What two documents have in common at a path.
LEMMA SameFurther ==
  ASSUME NEW d, NEW e, NEW p, Part(d, p) = Part(e, p), NEW q, IsPrefix(p, q)
  PROVE  /\ q \in DOMAIN d <=> q \in DOMAIN e
         /\ q \in DOMAIN d => d[q] = e[q]
         /\ IsPlainObject(d, q) <=> IsPlainObject(e, q)
         /\ asArray(d, q) = asArray(e, q)
<1>1. Below(d, p) = Below(e, p)
  BY DEF Part
<1>2. q \in DOMAIN d <=> q \in DOMAIN e
  BY <1>1 DEF Below
<1>3. ASSUME q \in DOMAIN d PROVE d[q] = e[q]
  <2>1. q \in Below(d, p) /\ q \in Below(e, p)
    BY <1>1, <1>3 DEF Below
  <2>2. Part(d, p)[q] = d[q] /\ Part(e, p)[q] = e[q]
    BY <2>1 DEF Part
  <2> QED
    BY <2>2
<1>4. asArray(d, q) = asArray(e, q)
  BY <1>2, <1>3, Zenon DEF asArray
<1> QED
  BY <1>2, <1>3, <1>4 DEF IsPlainObject

LEMMA PartSame ==
  ASSUME NEW d, NEW e, NEW p,
         \A q \in DOMAIN d : IsPrefix(p, q) => q \in DOMAIN e /\ d[q] = e[q],
         \A q \in DOMAIN e : IsPrefix(p, q) => q \in DOMAIN d
  PROVE  Part(d, p) = Part(e, p)
<1>1. Below(d, p) = Below(e, p)
  BY DEF Below
<1> QED
  BY <1>1 DEF Part, Below

LEMMA PartFurther ==
  ASSUME NEW d, NEW e, IsDocument(d), IsDocument(e), NEW p \in Paths, NEW q \in Paths,
         Part(d, p) = Part(e, p), IsPrefix(p, q)
  PROVE  Part(d, q) = Part(e, q)
<1>1. \A r \in DOMAIN d \cup DOMAIN e : IsPrefix(q, r) => IsPrefix(p, r)
  BY PrefixOrder DEF IsDocument
<1> QED
  BY <1>1, SameFurther, PartSame

\* What can be put at a path.
IsPart(part, path) ==
  /\ part \in [DOMAIN part -> Node]
  /\ DOMAIN part \subseteq {q \in Paths : IsPrefix(path, q)}
  /\ path \in DOMAIN part
  /\ \A q \in DOMAIN part \ {path} : IsPlainObject(part, Front(q))

LEMMA ArrayPart ==
  ASSUME NEW path \in Paths, NEW items \in Seq(Items)
  PROVE  /\ IsPart(OnlyArray(path, items), path)
         /\ asArray(OnlyArray(path, items), path) = items
         /\ ~IsPlainObject(OnlyArray(path, items), path)
<1>1. Array(items) \in Node /\ Array(items).kind = "array" /\ Array(items).items = items
  BY DEF Array, Node
<1>2. /\ DOMAIN OnlyArray(path, items) = {path}
      /\ OnlyArray(path, items)[path] = Array(items)
      /\ OnlyArray(path, items) \in [{path} -> Node]
  BY <1>1 DEF OnlyArray
<1> QED
  BY <1>1, <1>2, PrefixOrder DEF IsPart, asArray, IsPlainObject

LEMMA OverlayPart ==
  ASSUME NEW doc, IsDocument(doc), NEW path \in DOMAIN doc
  PROVE  IsPart(Part(doc, path), path)
<1>1. path \in Paths /\ DOMAIN doc \subseteq Paths /\ doc \in [DOMAIN doc -> Node]
  BY DEF IsDocument
<1>2. /\ DOMAIN Part(doc, path) = Below(doc, path)
      /\ \A q \in Below(doc, path) : Part(doc, path)[q] = doc[q] /\ doc[q] \in Node
      /\ Part(doc, path) \in [Below(doc, path) -> Node]
  BY <1>1 DEF Part, Below
<1>3. path \in Below(doc, path)
  BY <1>1, PrefixOrder DEF Below
<1>4. ASSUME NEW q \in Below(doc, path) \ {path}
      PROVE  IsPlainObject(Part(doc, path), Front(q))
  <2>1. q \in Paths /\ q \in DOMAIN doc /\ IsPrefix(path, q)
    BY <1>1 DEF Below
  <2>2. q # <<>>
    BY <1>1, <2>1, PrefixOrder, EmptySeq DEF Paths
  <2>3. Front(q) \in Paths /\ IsPrefix(path, Front(q))
    BY <1>1, <2>1, <2>2, FrontOf
  <2>4. IsPlainObject(doc, Front(q))
    BY <2>1, <2>2 DEF IsDocument
  <2> QED
    BY <1>2, <2>3, <2>4 DEF IsPlainObject, Below
<1> QED
  BY <1>1, <1>2, <1>3, <1>4 DEF IsPart, Below

\* A change at one path leaves what is elsewhere alone.
ChangedAt(out, out2, at) ==
  \A q \in Paths : ~IsPrefix(at, q) =>
    /\ IsPlainObject(out2, q) <=> IsPlainObject(out, q)
    /\ ~IsPrefix(q, at) => Part(out2, q) = Part(out, q)

\* Putting something at a path changes what is there and further on.
LEMMA PutPart ==
  ASSUME NEW doc, IsDocument(doc), NEW path \in Paths \ {<<>>}, NEW part,
         IsPart(part, path), IsPlainObject(doc, Front(path)),
         NEW new, new = With(doc, path, part)
  PROVE  /\ IsDocument(new)
         /\ Part(new, path) = part
         /\ ChangedAt(doc, new, path)
<1>1. /\ DOMAIN doc \subseteq Paths /\ doc \in [DOMAIN doc -> Node] /\ <<>> \in DOMAIN doc
      /\ part \in [DOMAIN part -> Node] /\ path \in DOMAIN part
      /\ \A q \in DOMAIN part : q \in Paths /\ IsPrefix(path, q)
      /\ \A q \in DOMAIN part \ {path} : IsPlainObject(part, Front(q))
      /\ \A q \in DOMAIN doc \ {<<>>} : IsPlainObject(doc, Front(q))
  BY DEF IsDocument, IsPart
<1>2. /\ DOMAIN new = (DOMAIN doc \ Below(doc, path)) \cup DOMAIN part
      /\ \A q \in DOMAIN new : new[q] = IF q \in DOMAIN part THEN part[q] ELSE doc[q]
      /\ new = [q \in DOMAIN new |-> IF q \in DOMAIN part THEN part[q] ELSE doc[q]]
  BY DEF With
<1>3. \A q : q \in DOMAIN new <=> \/ q \in DOMAIN doc /\ ~IsPrefix(path, q)
                                  \/ q \in DOMAIN part
  BY <1>2 DEF Below
<1>4. new \in [DOMAIN new -> Node] /\ DOMAIN new \subseteq Paths
  BY <1>1, <1>2, <1>3
<1>5. \A q : ~IsPrefix(path, q) => /\ q \in DOMAIN new <=> q \in DOMAIN doc
                                   /\ q \in DOMAIN new => new[q] = doc[q]
  BY <1>1, <1>2, <1>3
<1>6. \A q : IsPrefix(path, q) => /\ q \in DOMAIN new <=> q \in DOMAIN part
                                  /\ q \in DOMAIN new => new[q] = part[q]
  BY <1>1, <1>2, <1>3
<1>7. \A q : ~IsPrefix(path, q) => (IsPlainObject(new, q) <=> IsPlainObject(doc, q))
  BY <1>5 DEF IsPlainObject
<1>8. ASSUME NEW q \in Paths, ~IsPrefix(path, q), ~IsPrefix(q, path)
      PROVE  Part(new, q) = Part(doc, q)
  <2>1. \A r \in Paths : IsPrefix(q, r) => ~IsPrefix(path, r)
    BY <1>8, PrefixOrder
  <2> QED
    BY <1>1, <1>4, <1>5, <2>1, PartSame
<1>9. Part(new, path) = part
  <2>1. Below(new, path) = DOMAIN part
    BY <1>1, <1>3 DEF Below
  <2>2. \A q \in DOMAIN part : new[q] = part[q]
    BY <1>1, <1>6
  <2> QED
    BY <1>1, <2>1, <2>2 DEF Part
<1>10. ~IsPrefix(path, <<>>)
  <2>1. <<>> \in Paths
    BY EmptySeq DEF Paths
  <2> QED
    <3>0. Len(<<>>) = 0
      OBVIOUS
    <3>1. IsPrefix(path, <<>>) => Len(path) <= 0 /\ Len(path) \in Nat
      <4>1. IsPrefix(path, <<>>) => Len(path) <= Len(<<>>)
        BY <2>1, PrefixOrder
      <4> QED
        BY <3>0, <4>1 DEF Paths
    <3>2. Len(path) # 0
      BY DEF Paths
    <3> QED
      BY <3>1, <3>2
<1>11. ASSUME NEW q \in DOMAIN new \ {<<>>} PROVE IsPlainObject(new, Front(q))
  <2>1. q \in Paths
    BY <1>4
  <2>2. Front(q) \in Paths /\ IsPrefix(Front(q), q) /\ Len(Front(q)) + 1 = Len(q)
    BY <2>1, FrontOf
  <2>3. CASE q \in DOMAIN doc /\ ~IsPrefix(path, q)
    <3>1. ~IsPrefix(path, Front(q))
      BY <2>1, <2>2, <2>3, PrefixOrder
    <3> QED
      BY <1>1, <1>7, <2>3, <3>1
  <2>4. CASE q = path
    <3>1. ~IsPrefix(path, Front(path))
      <4>1. Len(Front(path)) \in Nat /\ Len(path) \in Nat /\ Len(Front(path)) + 1 = Len(path)
        BY <2>1, <2>2, <2>4 DEF Paths
      <4> QED
        BY <2>2, <2>4, <4>1, PrefixOrder
    <3> QED
      BY <1>7, <2>4, <3>1
  <2>5. CASE q \in DOMAIN part /\ q # path
    <3>1. IsPrefix(path, Front(q))
      BY <1>1, <2>1, <2>5, FrontOf
    <3>2. IsPlainObject(part, Front(q))
      BY <1>1, <2>5
    <3> QED
      BY <1>6, <3>1, <3>2 DEF IsPlainObject
  <2> QED
    BY <1>3, <2>3, <2>4, <2>5
<1> QED
  BY <1>1, <1>4, <1>5, <1>7, <1>8, <1>9, <1>10, <1>11 DEF IsDocument, ChangedAt

-----------------------------------------------------------------------------
(* Merge: levels *)

LEMMA KeyNames ==
  /\ Target \in Keys /\ Prepend \in Keys /\ Append_ \in Keys
  /\ Target \notin directives \cup {VisualPatchKey}
  /\ VisualPatchKey \notin directives /\ Prepend # Append_
<1>1. Target \in Keys /\ Prepend \in Keys /\ Append_ \in Keys
  BY MergeAssumption DEF directives
<1>2. /\ Target \notin directives \cup {VisualPatchKey}
      /\ VisualPatchKey \notin directives /\ Prepend # Append_
  BY DEF Target, Prepend, Append_, directives, VisualPatchKey
<1> QED
  BY <1>1, <1>2

LEMMA Spring ==
  ASSUME NEW level \in Paths
  PROVE  /\ \A k \in Keys : Append(level, k) \in Offspring(level)
                            /\ Last(Append(level, k)) = k
         /\ \A p \in Offspring(level) :
              /\ p \in Paths /\ p # <<>> /\ p # level /\ IsPrefix(level, p)
              /\ Last(p) \in Keys /\ p = Append(level, Last(p))
              /\ \A q \in Paths : IsPrefix(q, p) /\ q # p => IsPrefix(q, level)
              /\ ~IsPrefix(p, level) /\ Len(p) = Len(level) + 1
              /\ \A q \in Offspring(level) : IsPrefix(p, q) => p = q
<1>1. \A k \in Keys : Append(level, k) \in Offspring(level) /\ Last(Append(level, k)) = k
  BY OneFurther DEF Offspring
<1>2. ASSUME NEW p \in Offspring(level)
      PROVE  /\ p \in Paths /\ p # <<>> /\ p # level /\ IsPrefix(level, p)
             /\ Last(p) \in Keys /\ p = Append(level, Last(p))
             /\ \A q \in Paths : IsPrefix(q, p) /\ q # p => IsPrefix(q, level)
             /\ ~IsPrefix(p, level) /\ Len(p) = Len(level) + 1
             /\ \A q \in Offspring(level) : IsPrefix(p, q) => p = q
  <2>1. p \in Paths /\ p # <<>> /\ Front(p) = level
    BY DEF Offspring
  <2>2. Len(level) + 1 = Len(p) /\ Len(level) \in Nat
    BY <2>1, FrontOf DEF Paths
  <2>3. p # level
    BY <2>2
  <2>4. ~IsPrefix(p, level)
    BY <2>1, <2>2, PrefixOrder
  <2>5. \A q \in Offspring(level) : IsPrefix(p, q) => p = q
    BY <2>1, Siblings DEF Offspring
  <2> QED
    BY <2>1, <2>2, <2>3, <2>4, <2>5, FrontOf
<1> QED
  BY <1>1, <1>2

LEMMA SharedLevel ==
  ASSUME NEW base, NEW overlay, IsDocument(overlay),
         NEW level \in Shared(base, overlay)
  PROVE  /\ level \in Paths /\ level \in DOMAIN overlay
         /\ IsPlainObject(base, level) /\ IsPlainObject(overlay, level)
         /\ \A p \in Paths : IsPrefix(p, level) =>
              /\ p \in Shared(base, overlay)
              /\ p \in DOMAIN overlay
              /\ IsPlainObject(base, p) /\ IsPlainObject(overlay, p)
              /\ p # <<>> => /\ Last(p) \notin directives \cup {VisualPatchKey}
                             /\ Last(p) = Target => Used(overlay, Front(p)) = {}
<1>1. level \in Paths /\ level \in DOMAIN overlay /\ DOMAIN overlay \subseteq Paths
  BY DEF Shared, IsDocument
<1>2. ASSUME NEW p \in Paths, IsPrefix(p, level)
      PROVE  /\ p \in Shared(base, overlay)
             /\ p \in DOMAIN overlay
             /\ IsPlainObject(base, p) /\ IsPlainObject(overlay, p)
             /\ p # <<>> => /\ Last(p) \notin directives \cup {VisualPatchKey}
                            /\ Last(p) = Target => Used(overlay, Front(p)) = {}
  <2>1. p \in DOMAIN overlay
    BY <1>1, <1>2, Closed
  <2>2. \A q \in DOMAIN overlay : IsPrefix(q, p) => IsPrefix(q, level)
    BY <1>1, <1>2, PrefixOrder
  <2> QED
    BY <1>2, <2>1, <2>2 DEF Shared
<1>3. IsPlainObject(base, level) /\ IsPlainObject(overlay, level)
  BY <1>1, <1>2, PrefixOrder
<1> QED
  BY <1>1, <1>2, <1>3

LEMMA OwnKeys ==
  ASSUME NEW overlay, IsDocument(overlay), NEW level \in Paths
  PROVE  /\ Own(overlay, level) =
              {p \in Offspring(level) : /\ p \in DOMAIN overlay
                                        /\ Last(p) \notin directives \cup {VisualPatchKey}}
         /\ Children(overlay, level) = Offspring(level) \cap DOMAIN overlay
         /\ Used(overlay, level) \subseteq directives
BY DEF Own, Children, Offspring, Used, IsDocument

LEMMA Directive ==
  ASSUME NEW overlay, NEW level \in Paths
  PROVE  \A d \in Used(overlay, level) :
           /\ d \in directives /\ d \in Keys
           /\ Append(level, d) \in DOMAIN overlay
           /\ Append(level, d) \in Offspring(level) /\ Last(Append(level, d)) = d
<1>1. \A d \in directives : d \in Keys
  BY KeyNames DEF directives
<1> QED
  BY <1>1, Spring DEF Used

\* Keys that a step leaves alone keep their status.
LEMMA Same ==
  ASSUME NEW out, NEW base, NEW overlay, NEW left, NEW level, NEW p, NEW out2, NEW left2,
         p \in Own(overlay, level) \ left2 <=> p \in Own(overlay, level) \ left,
         Settled(left, p) => Settled(left2, p),
         IsPlainObject(out2, p) <=> IsPlainObject(out, p),
         Part(out2, p) = Part(out, p)
  PROVE  /\ KeyStatus(out, base, overlay, left, level, p)
              => KeyStatus(out2, base, overlay, left2, level, p)
         /\ \A obeyed : TargetStatus(out, base, overlay, left, level, p, obeyed)
              => TargetStatus(out2, base, overlay, left2, level, p, obeyed)
<1>1. KeyStatus(out, base, overlay, left, level, p)
        => KeyStatus(out2, base, overlay, left2, level, p)
  BY DEF KeyStatus
<1>2. ASSUME NEW obeyed
      PROVE  TargetStatus(out, base, overlay, left, level, p, obeyed)
               => TargetStatus(out2, base, overlay, left2, level, p, obeyed)
  <2>1. AsBase(out, base, overlay, left, level, p, obeyed)
          => AsBase(out2, base, overlay, left2, level, p, obeyed)
    BY DEF AsBase
  <2>2. AsOverlay(out, overlay, left, level, p, obeyed)
          => AsOverlay(out2, overlay, left2, level, p, obeyed)
    BY DEF AsOverlay
  <2>3. AsMapping(out, overlay, left, level, p, obeyed)
          => AsMapping(out2, overlay, left2, level, p, obeyed)
    BY DEF AsMapping
  <2> QED
    BY <2>1, <2>2, <2>3 DEF TargetStatus
<1> QED
  BY <1>1, <1>2

\* A key is taken, and keys further on take its place.
Taken(left, left2, path) ==
  left \ {path} \subseteq left2 /\ left2 \subseteq (left \ {path}) \cup Offspring(path)

\* What mergeOne does to one level does nothing to the others: to those that
\* are not below what changes, and whose keys are not among the new ones left.
LEMMA Elsewhere ==
  ASSUME NEW base, NEW overlay, IsDocument(overlay),
         NEW level \in Paths, NEW from \in Paths, level # from,
         NEW path \in Offspring(from), NEW at \in Offspring(from),
         NEW left, path \in left, Entered(left, level), ~IsPrefix(at, level),
         NEW left2, Taken(left, left2, path),
         NEW out, NEW out2, ChangedAt(out, out2, at),
         LevelStatus(out, base, overlay, left, level)
  PROVE  LevelStatus(out2, base, overlay, left2, level)
<1>1. /\ path \in Paths /\ at \in Paths /\ IsPrefix(from, path)
      /\ ~IsPrefix(path, level)
  BY Spring DEF Entered
<1>2. ASSUME NEW p \in Offspring(level)
      PROVE  /\ p \in Paths
             /\ p \in left2 <=> p \in left
             /\ ~IsPrefix(at, p)
             /\ IsPlainObject(out2, p) <=> IsPlainObject(out, p)
             /\ Settled(left, p) => Settled(left2, p) /\ Part(out2, p) = Part(out, p)
  <2>1. p \in Paths /\ \A q \in Paths : IsPrefix(q, p) /\ q # p => IsPrefix(q, level)
    BY Spring
  <2>2. p # path /\ p # at
    BY DEF Offspring
  <2>3. ~IsPrefix(path, p) /\ ~IsPrefix(at, p)
    BY <1>1, <2>1, <2>2
  <2>4. /\ \A t \in left2 : t \in left \/ (t \in Paths /\ IsPrefix(path, t))
        /\ \A t \in left : t # path => t \in left2
    <3>1. \A t \in left2 : t \in left \/ t \in Offspring(path)
      BY DEF Taken
    <3>2. \A t \in Offspring(path) : t \in Paths /\ IsPrefix(path, t)
      BY <1>1, Spring
    <3>3. \A t \in left : t # path => t \in left2
      BY DEF Taken
    <3> QED
      BY <3>1, <3>2, <3>3
  <2>5. p \in left2 <=> p \in left
    BY <2>2, <2>3, <2>4
  <2>6. ASSUME Settled(left, p)
        PROVE  Settled(left2, p) /\ ~IsPrefix(p, at)
    <3>1. ~IsPrefix(p, path)
      BY <2>2, <2>6 DEF Settled, IsStrictPrefix
    <3>2. ~IsPrefix(p, at)
      <4>1. IsPrefix(p, at) => IsPrefix(p, from)
        BY <2>1, <2>2, Spring
      <4> QED
        BY <1>1, <2>1, <3>1, <4>1, PrefixOrder
    <3>3. \A t \in left2 : t \in left \/ ~IsPrefix(p, t)
      BY <1>1, <2>1, <2>3, <2>4, <3>1, PrefixOrder
    <3> QED
      BY <2>6, <3>2, <3>3 DEF Settled, IsStrictPrefix
  <2> QED
    BY <2>1, <2>3, <2>5, <2>6 DEF ChangedAt
<1>3. IsPlainObject(out2, level)
  BY DEF LevelStatus, ChangedAt
<1>4. \A p \in Offspring(level) :
        /\ KeyStatus(out, base, overlay, left, level, p)
             => KeyStatus(out2, base, overlay, left2, level, p)
        /\ \A obeyed : TargetStatus(out, base, overlay, left, level, p, obeyed)
             => TargetStatus(out2, base, overlay, left2, level, p, obeyed)
  <2> SUFFICES ASSUME NEW p \in Offspring(level)
               PROVE  /\ KeyStatus(out, base, overlay, left, level, p)
                           => KeyStatus(out2, base, overlay, left2, level, p)
                      /\ \A obeyed :
                           TargetStatus(out, base, overlay, left, level, p, obeyed)
                             => TargetStatus(out2, base, overlay, left2, level, p, obeyed)
    OBVIOUS
  <2>1. CASE Settled(left, p)
    <3>1. /\ p \in Own(overlay, level) \ left2 <=> p \in Own(overlay, level) \ left
          /\ Settled(left2, p)
          /\ IsPlainObject(out2, p) <=> IsPlainObject(out, p)
          /\ Part(out2, p) = Part(out, p)
      BY <1>2, <2>1
    <3> QED
      BY <3>1, Same
  <2>2. CASE ~Settled(left, p)
    BY <1>2, <2>2 DEF KeyStatus, TargetStatus, AsBase, AsOverlay, AsMapping
  <2> QED
    BY <2>1, <2>2
<1>5. Append(level, Target) \in Offspring(level)
  BY Spring, KeyNames
<1>6. Obeyed(overlay, left2, level) = Obeyed(overlay, left, level)
  BY <1>2, Directive DEF Obeyed
<1> QED
  BY <1>3, <1>4, <1>5, <1>6 DEF LevelStatus

LEMMA ElementsOf ==
  ASSUME NEW doc, IsDocument(doc), NEW p
  PROVE  asArray(doc, p) \in Seq(Items)
<1>1. <<>> \in Seq(Items)
  BY EmptySeq
<1>2. ASSUME p \in DOMAIN doc PROVE doc[p].items \in Seq(Items)
  BY <1>2 DEF IsDocument, Node
<1> QED
  BY <1>1, <1>2 DEF asArray

SplicedInto(d, new, old) == IF d = Prepend THEN new \o old ELSE old \o new

LEMMA Splicing ==
  ASSUME NEW overlay, IsDocument(overlay), NEW level \in Paths,
         NEW items \in Seq(Items), NEW late
  PROVE  /\ Spliced(late, overlay, level, items) \in Seq(Items)
         /\ Spliced({}, overlay, level, items) = items
         /\ \A d \in directives \ late :
              SplicedInto(d, asArray(overlay, Append(level, d)),
                          Spliced(late, overlay, level, items))
                = Spliced(late \cup {d}, overlay, level, items)
<1> DEFINE first == asArray(overlay, Append(level, Prepend))
           last  == asArray(overlay, Append(level, Append_))
           front(e) == IF Prepend \in e THEN first ELSE <<>>
           back(e)  == IF Append_ \in e THEN last ELSE <<>>
<1>1. first \in Seq(Items) /\ last \in Seq(Items) /\ <<>> \in Seq(Items)
  BY ElementsOf, EmptySeq
<1>2. \A e : Spliced(e, overlay, level, items) = front(e) \o items \o back(e)
  BY Zenon DEF Spliced
<1> HIDE DEF first, last
<1>3. \A e : /\ Prepend \in e => front(e) = first
             /\ Prepend \notin e => front(e) = <<>>
             /\ Append_ \in e => back(e) = last
             /\ Append_ \notin e => back(e) = <<>>
  BY Zenon
<1>4. \A e : front(e) \in Seq(Items) /\ back(e) \in Seq(Items)
  BY <1>1, Zenon
<1> HIDE DEF front, back
<1>5. \A s \in Seq(Items) : <<>> \o s = s /\ s \o <<>> = s
  BY ConcatEmptySeq
<1>6. \A r, s, t \in Seq(Items) : r \o s \in Seq(Items) /\ (r \o s) \o t = r \o (s \o t)
  BY ConcatProperties, ConcatAssociative
<1>7. Prepend # Append_
  BY KeyNames
<1>8. Spliced(late, overlay, level, items) \in Seq(Items)
  <2>1. (front(late) \o items) \o back(late) \in Seq(Items)
    BY <1>4, <1>6
  <2> QED
    BY <1>2, <2>1
<1>9. Spliced({}, overlay, level, items) = items
  <2>1. front({}) = <<>> /\ back({}) = <<>>
    BY <1>3
  <2>2. Spliced({}, overlay, level, items) = (<<>> \o items) \o <<>>
    BY <1>2, <2>1
  <2> QED
    BY <1>5, <2>2
<1>10. ASSUME Prepend \notin late
       PROVE  first \o Spliced(late, overlay, level, items)
                = Spliced(late \cup {Prepend}, overlay, level, items)
  <2> DEFINE more == late \cup {Prepend}
  <2>1. /\ Prepend \in more
        /\ Append_ \in more <=> Append_ \in late
    BY <1>7
  <2> HIDE DEF more
  <2>2. front(late) = <<>> /\ front(more) = first /\ back(more) = back(late)
    BY <1>3, <1>10, <2>1
  <2>3. /\ Spliced(late, overlay, level, items) = (<<>> \o items) \o back(late)
        /\ Spliced(more, overlay, level, items) = (first \o items) \o back(late)
    BY <1>2, <2>2
  <2>4. /\ <<>> \o items = items
        /\ (first \o items) \o back(late) = first \o (items \o back(late))
    BY <1>1, <1>4, <1>5, <1>6
  <2> QED
    BY <2>3, <2>4 DEF more
<1>11. ASSUME Append_ \notin late
       PROVE  Spliced(late, overlay, level, items) \o last
                = Spliced(late \cup {Append_}, overlay, level, items)
  <2> DEFINE more == late \cup {Append_}
  <2>1. /\ Append_ \in more
        /\ Prepend \in more <=> Prepend \in late
    BY <1>7
  <2> HIDE DEF more
  <2>2. back(late) = <<>> /\ back(more) = last /\ front(more) = front(late)
    BY <1>3, <1>11, <2>1
  <2>3. /\ Spliced(late, overlay, level, items) = (front(late) \o items) \o <<>>
        /\ Spliced(more, overlay, level, items) = (front(late) \o items) \o last
    BY <1>2, <2>2
  <2>4. (front(late) \o items) \o <<>> = front(late) \o items
    BY <1>4, <1>5, <1>6
  <2> QED
    BY <2>3, <2>4 DEF more
<1>12. ASSUME NEW d \in directives \ late
       PROVE  SplicedInto(d, asArray(overlay, Append(level, d)),
                          Spliced(late, overlay, level, items))
                = Spliced(late \cup {d}, overlay, level, items)
  <2>1. d = Prepend \/ d = Append_
    BY DEF directives
  <2>2. CASE d = Prepend
    <3>1. Prepend \notin late
      BY <2>2
    <3>2. SplicedInto(Prepend, first, Spliced(late, overlay, level, items))
            = first \o Spliced(late, overlay, level, items)
      BY Zenon DEF SplicedInto
    <3>3. SplicedInto(Prepend, first, Spliced(late, overlay, level, items))
            = Spliced(late \cup {Prepend}, overlay, level, items)
      BY <1>10, <3>1, <3>2, Zenon
    <3> QED
      BY <2>2, <3>3 DEF first
  <2>3. CASE d = Append_
    <3>1. Append_ \notin late
      BY <2>3
    <3>2. SplicedInto(Append_, last, Spliced(late, overlay, level, items))
            = Spliced(late, overlay, level, items) \o last
      BY <1>7, Zenon DEF SplicedInto
    <3>3. SplicedInto(Append_, last, Spliced(late, overlay, level, items))
            = Spliced(late \cup {Append_}, overlay, level, items)
      BY <1>11, <3>1, <3>2, Zenon
    <3> QED
      BY <2>3, <3>3 DEF last
  <2> QED
    BY <2>1, <2>2, <2>3
<1> QED
  BY <1>8, <1>9, <1>12

-----------------------------------------------------------------------------
(* Merge: one turn of mergeOne *)

LEMMA Turn ==
  ASSUME NEW out, NEW base, NEW overlay, NEW left, NEW path \in left,
         IsDocument(out), IsDocument(overlay), Merging(out, base, overlay, left)
  PROVE  /\ left \subseteq Paths /\ path \in DOMAIN overlay
         /\ Front(path) \in Paths /\ path \in Offspring(Front(path))
         /\ IsPlainObject(out, Front(path)) /\ Front(path) \in DOMAIN out
         /\ Settled(left, path) /\ Entered(left, Front(path))
         /\ Front(path) \in Shared(base, overlay) =>
              LevelStatus(out, base, overlay, left, Front(path))
<1>1. /\ left \subseteq Paths /\ path \in Paths \ {<<>>} /\ path \in DOMAIN overlay
      /\ IsPlainObject(out, Front(path))
      /\ \A s, t \in left : IsPrefix(s, t) => s = t
  BY DEF Merging, Pending, IsDocument
<1>2. /\ Front(path) \in Paths /\ path \in Offspring(Front(path))
      /\ IsPrefix(Front(path), path) /\ Front(path) # path
      /\ ~IsPrefix(path, Front(path))
  BY <1>1, FrontOf, Spring DEF Offspring
<1>3. Settled(left, path)
  BY <1>1 DEF Settled, IsStrictPrefix
<1>4. Entered(left, Front(path))
  <2> SUFFICES ASSUME NEW t \in left, IsPrefix(t, Front(path)) PROVE FALSE
    BY DEF Entered
  <2>1. IsPrefix(t, path)
    BY <1>1, <1>2, PrefixOrder
  <2> QED
    BY <1>1, <1>2, <2>1
<1> QED
  BY <1>1, <1>2, <1>3, <1>4 DEF Merging, IsPlainObject

\* What is left is in the base still, but for a target with directives.
LEMMA NotYet ==
  ASSUME NEW out, NEW base, NEW overlay, NEW left, NEW path \in left,
         IsDocument(out), IsDocument(overlay), Merging(out, base, overlay, left),
         Front(path) \in Shared(base, overlay),
         Last(path) # Target \/ Used(overlay, Front(path)) = {}
  PROVE  Part(out, path) = Part(base, path)
<1>1. /\ path \in Offspring(Front(path)) /\ Front(path) \in Paths
      /\ LevelStatus(out, base, overlay, left, Front(path))
  BY Turn
<1>2. Last(Append(Front(path), Target)) = Target
  BY <1>1, Spring, KeyNames
<1>3. KeyStatus(out, base, overlay, left, Front(path), path)
  BY <1>1, <1>2 DEF LevelStatus
<1> QED
  BY <1>3 DEF KeyStatus

\* The levels below what is put in its place, or stripped, are not shared.
LEMMA NotShared ==
  ASSUME NEW out, NEW base, NEW overlay, NEW left, NEW path \in left,
         IsDocument(out), IsDocument(overlay), Merging(out, base, overlay, left),
         \/ Last(path) \in directives \cup {VisualPatchKey}
         \/ ~IsPlainObject(out, path) \/ ~IsPlainObject(overlay, path),
         NEW level \in Shared(base, overlay), IsPrefix(path, level)
  PROVE  FALSE
<1>0. Front(path) \in Paths /\ path \in Offspring(Front(path))
  BY Turn
<1>1. /\ path \in Paths /\ path # <<>> /\ Front(path) \in Paths
      /\ IsPrefix(Front(path), path)
  BY <1>0, Spring
<1>2. /\ level \in Paths
      /\ path \in Shared(base, overlay) /\ IsPlainObject(base, path)
      /\ IsPlainObject(overlay, path)
      /\ Last(path) \notin directives \cup {VisualPatchKey}
      /\ Last(path) = Target => Used(overlay, Front(path)) = {}
  BY <1>1, SharedLevel
<1>3. Front(path) \in Shared(base, overlay)
  BY <1>1, <1>2, SharedLevel
<1>4. Part(out, path) = Part(base, path)
  BY <1>2, <1>3, NotYet
<1>5. IsPlainObject(out, path)
  BY <1>1, <1>2, <1>4, SameFurther, PrefixOrder
<1> QED
  BY <1>2, <1>5

LEMMA StillPending ==
  ASSUME NEW out, NEW base, NEW overlay, NEW left, NEW path \in left,
         IsDocument(out), IsDocument(overlay), Merging(out, base, overlay, left),
         \A other \in left : Len(other) <= Len(path),
         NEW at \in Offspring(Front(path)), NEW out2,
         \A q \in Paths : ~IsPrefix(at, q) =>
           (IsPlainObject(out2, q) <=> IsPlainObject(out, q))
  PROVE  IsPlainObject(out2, <<>>) /\ Pending(out2, overlay, left \ {path})
<1>1. /\ left \subseteq Paths /\ left \subseteq DOMAIN overlay \ {<<>>}
      /\ \A s, t \in left : IsPrefix(s, t) => s = t
      /\ \A t \in left : IsPlainObject(out, Front(t))
      /\ IsPlainObject(out, <<>>)
  BY Turn DEF Merging, Pending
<1>2. Front(path) \in Paths /\ path \in Offspring(Front(path))
  BY Turn
<1>3. at \in Paths /\ Len(at) = Len(path) /\ at # <<>> /\ Len(at) \in Nat
  BY <1>2, Spring DEF Paths
<1>4. ASSUME NEW t \in left PROVE IsPlainObject(out2, Front(t))
  <2>1. Front(t) \in Paths /\ Len(Front(t)) + 1 = Len(t) /\ Len(Front(t)) \in Nat
    BY <1>1, FrontOf DEF Paths
  <2>2. Len(t) <= Len(path)
    OBVIOUS
  <2>3. ~IsPrefix(at, Front(t))
    BY <1>3, <2>1, <2>2, PrefixOrder
  <2> QED
    BY <1>1, <2>1, <2>3
<1>5. IsPlainObject(out2, <<>>)
  <2>1. <<>> \in Paths /\ Len(<<>>) = 0
    BY EmptySeq DEF Paths
  <2>2. Len(at) # 0
    BY <1>3 DEF Paths
  <2>3. ~IsPrefix(at, <<>>)
    BY <1>3, <2>1, <2>2, PrefixOrder
  <2> QED
    BY <1>1, <2>1, <2>3
<1> QED
  BY <1>1, <1>4, <1>5 DEF Pending

\* What an overlay says of the levels above and beside the present key.
LEMMA OtherLevel ==
  ASSUME NEW out, NEW base, NEW overlay, NEW left, NEW path \in left,
         IsDocument(out), IsDocument(overlay), Merging(out, base, overlay, left),
         NEW at \in Offspring(Front(path)), NEW out2, ChangedAt(out, out2, at),
         NEW left2, Taken(left, left2, path),
         NEW level \in Shared(base, overlay), Entered(left2, level),
         level # Front(path), ~IsPrefix(path, level), ~IsPrefix(at, level)
  PROVE  LevelStatus(out2, base, overlay, left2, level)
<1>1. /\ left \subseteq Paths /\ Front(path) \in Paths /\ path \in Offspring(Front(path))
  BY Turn
<1>2. level \in Paths
  BY SharedLevel
<1>3. Entered(left, level)
  <2>1. \A t \in left : t = path \/ t \in left2
    BY DEF Taken
  <2> QED
    BY <2>1 DEF Entered
<1>4. LevelStatus(out, base, overlay, left, level)
  BY <1>3 DEF Merging
<1> DEFINE from == Front(path)
<1>5. from \in Paths /\ level # from /\ path \in Offspring(from) /\ at \in Offspring(from)
  BY <1>1
<1> HIDE DEF from
<1> QED
  BY <1>1, <1>2, <1>3, <1>4, <1>5, Elsewhere

LEMMA Beside ==
  ASSUME NEW level \in Paths, NEW path \in Offspring(level), NEW at \in Offspring(level),
         NEW left, NEW left2, Taken(left, left2, path),
         NEW out, NEW out2, ChangedAt(out, out2, at)
  PROVE  /\ path \notin left2
         /\ ~IsPrefix(at, level)
         /\ \A p \in Offspring(level) :
              /\ p # path \/ left2 = left \ {path} => (Settled(left, p) => Settled(left2, p))
              /\ p # path => (p \in left2 <=> p \in left)
              /\ p # at => /\ IsPlainObject(out2, p) <=> IsPlainObject(out, p)
                           /\ Part(out2, p) = Part(out, p)
<1>1. path \in Paths /\ at \in Paths /\ ~IsPrefix(at, level)
  BY Spring
<1>2. /\ \A t \in left2 : \/ t \in left \ {path}
                         \/ /\ t \in Paths /\ t # path /\ Len(t) = Len(path) + 1
                            /\ \A q \in Paths : IsPrefix(q, t) /\ q # t => IsPrefix(q, path)
      /\ \A t \in left : t # path => t \in left2
  BY <1>1, Spring DEF Taken
<1>3. path \notin left2
  BY <1>2
<1>4. ASSUME NEW p \in Offspring(level)
      PROVE  /\ p # path \/ left2 = left \ {path} => (Settled(left, p) => Settled(left2, p))
             /\ p # path => (p \in left2 <=> p \in left)
             /\ p # at => /\ IsPlainObject(out2, p) <=> IsPlainObject(out, p)
                          /\ Part(out2, p) = Part(out, p)
  <2>1. p \in Paths /\ Len(p) = Len(path) /\ Len(p) \in Nat
    <3>1. /\ p \in Paths /\ Len(p) = Len(level) + 1 /\ Len(path) = Len(level) + 1
      BY Spring
    <3> QED
      BY <3>1 DEF Paths
  <2>2. p # path => (p \in left2 <=> p \in left)
    BY <1>2, <2>1
  <2>3. p # path => \A t \in left2 : t \in left \/ ~IsPrefix(p, t)
    <3> SUFFICES ASSUME p # path, NEW t \in left2, t \notin left, IsPrefix(p, t)
                 PROVE  FALSE
      OBVIOUS
    <3>1. p # t
      BY <1>2, <2>1
    <3>2. IsPrefix(p, path)
      BY <1>2, <2>1, <3>1
    <3> QED
      BY <3>2, Spring
  <2>4. p # path \/ left2 = left \ {path} => (Settled(left, p) => Settled(left2, p))
    BY <2>3 DEF Settled, IsStrictPrefix
  <2>5. p # at => ~IsPrefix(at, p) /\ ~IsPrefix(p, at)
    BY Spring
  <2> QED
    BY <2>1, <2>2, <2>4, <2>5 DEF ChangedAt
<1> QED
  BY <1>1, <1>3, <1>4

\* A key that is stripped.
LEMMA StrippedKey ==
  ASSUME NEW out, NEW base, NEW overlay, NEW left, NEW path \in left,
         IsDocument(out), IsDocument(overlay), Merging(out, base, overlay, left),
         \A other \in left : Len(other) <= Len(path),
         Last(path) = VisualPatchKey
  PROVE  Merging(out, base, overlay, left \ {path})
<1> DEFINE from == Front(path)
           left2 == left \ {path}
<1>1. /\ left \subseteq Paths /\ from \in Paths /\ path \in Offspring(from)
      /\ from \in Shared(base, overlay) => LevelStatus(out, base, overlay, left, from)
  BY Turn
<1>2. Taken(left, left2, path) /\ ChangedAt(out, out, path)
  BY DEF Taken, ChangedAt
<1>3. IsPlainObject(out, <<>>) /\ Pending(out, overlay, left2)
  BY <1>1, StillPending
<1>4. path \notin Own(overlay, from)
  BY DEF Own
<1> HIDE DEF from, left2
<1>5. ASSUME from \in Shared(base, overlay)
      PROVE  LevelStatus(out, base, overlay, left2, from)
  <2>1. LevelStatus(out, base, overlay, left, from)
    BY <1>1, <1>5
  <2>2. \A p \in Offspring(from) :
          /\ Settled(left, p) => Settled(left2, p)
          /\ p # path => (p \in left2 <=> p \in left)
    <3>1. left2 = left \ {path}
      BY DEF left2
    <3> QED
      BY <1>1, <1>2, <3>1, Beside
  <2>3. \A p \in Offspring(from) :
          p \in Own(overlay, from) \ left2 <=> p \in Own(overlay, from) \ left
    BY <1>4, <2>2
  <2>4. Obeyed(overlay, left2, from) = Obeyed(overlay, left, from)
    <3>1. \A d \in Used(overlay, from) : /\ Append(from, d) \in Offspring(from)
                                         /\ Append(from, d) # path
      <4> SUFFICES ASSUME NEW d \in Used(overlay, from)
                   PROVE  Append(from, d) \in Offspring(from) /\ Append(from, d) # path
        OBVIOUS
      <4>1. /\ d \in directives /\ Append(from, d) \in Offspring(from)
            /\ Last(Append(from, d)) = d
        BY <1>1, Directive
      <4>2. d # VisualPatchKey
        BY <4>1, KeyNames
      <4> QED
        BY <4>1, <4>2
    <3> QED
      BY <2>2, <3>1 DEF Obeyed
  <2>5. Append(from, Target) \in Offspring(from)
    BY <1>1, Spring, KeyNames
  <2> QED
    BY <2>1, <2>2, <2>3, <2>4, <2>5, Same DEF LevelStatus
<1>6. ASSUME NEW level \in Shared(base, overlay), Entered(left2, level), level # from
      PROVE  LevelStatus(out, base, overlay, left2, level)
  <2>1. ~IsPrefix(path, level)
    BY NotShared
  <2> QED
    BY <1>1, <1>2, <1>6, <2>1, OtherLevel DEF from
<1> QED
  BY <1>3, <1>5, <1>6 DEF Merging, left2

\* A directive's target, before and after it is obeyed.
LEMMA TargetObeys ==
  ASSUME NEW out, NEW base, NEW overlay, IsDocument(overlay), IsDocument(base),
         NEW level \in Paths, NEW left, NEW left2, NEW target \in Paths, NEW obeyed,
         obeyed \subseteq directives,
         TargetStatus(out, base, overlay, left, level, target, obeyed),
         NEW d \in directives, d \notin obeyed,
         target \in Own(overlay, level) \ left2 <=> target \in Own(overlay, level) \ left,
         Settled(left2, target),
         NEW out2,
         Part(out2, target) =
           OnlyArray(target, SplicedInto(d, asArray(overlay, Append(level, d)),
                                            asArray(out, target)))
  PROVE  TargetStatus(out2, base, overlay, left2, level, target, obeyed \cup {d})
<1> DEFINE new == asArray(overlay, Append(level, d))
<1>0. /\ asArray(base, target) \in Seq(Items) /\ asArray(overlay, target) \in Seq(Items)
      /\ IsPrefix(target, target)
  BY ElementsOf, PrefixOrder
<1>2. ASSUME NEW items \in Seq(Items), NEW late \in SUBSET obeyed,
             asArray(out, target) = Spliced(late, overlay, level, items)
      PROVE  Part(out2, target) =
               OnlyArray(target, Spliced(late \cup {d}, overlay, level, items))
  <2>1. d \notin late
    OBVIOUS
  <2>2. SplicedInto(d, new, Spliced(late, overlay, level, items))
          = Spliced(late \cup {d}, overlay, level, items)
    BY <2>1, Splicing
  <2> QED
    BY <1>2, <2>2
<1>3. \A items \in Seq(Items) : Spliced({}, overlay, level, items) = items
  BY Splicing
<1>4. \A items \in Seq(Items) : Part(out, target) = OnlyArray(target, items)
        => asArray(out, target) = items
  <2> SUFFICES ASSUME NEW items \in Seq(Items), Part(out, target) = OnlyArray(target, items)
               PROVE  asArray(out, target) = items
    OBVIOUS
  <2>1. Part(OnlyArray(target, items), target) = OnlyArray(target, items)
    BY <1>0 DEF OnlyArray, Part, Below
  <2>2. asArray(out, target) = asArray(OnlyArray(target, items), target)
    BY <1>0, <2>1, SameFurther
  <2> QED
    BY <2>2, ArrayPart
<1>5. ASSUME NEW items \in Seq(Items), NEW late,
             Part(out, target) = OnlyArray(target, Spliced(late, overlay, level, items))
      PROVE  asArray(out, target) = Spliced(late, overlay, level, items)
  BY <1>4, <1>5, Splicing
<1>6. CASE AsBase(out, base, overlay, left, level, target, obeyed)
  <2>1. asArray(out, target) = Spliced(obeyed, overlay, level, asArray(base, target))
    <3>1. CASE obeyed = {}
      <4>1. Part(out, target) = Part(base, target)
        BY <1>6, <3>1 DEF AsBase
      <4> QED
        BY <1>0, <1>3, <3>1, <4>1, SameFurther
    <3>2. CASE obeyed # {}
      BY <1>0, <1>5, <1>6, <3>2 DEF AsBase
    <3> QED
      BY <3>1, <3>2
  <2>2. Part(out2, target) =
          OnlyArray(target, Spliced(obeyed \cup {d}, overlay, level, asArray(base, target)))
    BY <1>0, <1>2, <2>1
  <2>3. obeyed \cup {d} # {}
    OBVIOUS
  <2>4. target \notin Own(overlay, level) \ left2
    BY <1>6 DEF AsBase
  <2>5. AsBase(out2, base, overlay, left2, level, target, obeyed \cup {d})
    BY <2>2, <2>3, <2>4 DEF AsBase
  <2> QED
    BY <2>5 DEF TargetStatus
<1>7. ASSUME \/ AsOverlay(out, overlay, left, level, target, obeyed)
             \/ AsMapping(out, overlay, left, level, target, obeyed)
      PROVE  AsOverlay(out2, overlay, left2, level, target, obeyed \cup {d})
  <2>1. \E late \in SUBSET obeyed :
          asArray(out, target) = Spliced(late, overlay, level, asArray(overlay, target))
    <3>1. ASSUME Part(out, target) = Part(overlay, target)
          PROVE  asArray(out, target)
                   = Spliced({}, overlay, level, asArray(overlay, target))
      BY <1>0, <1>3, <3>1, SameFurther
    <3>2. ASSUME NEW late \in (SUBSET obeyed) \ {{}},
                 Part(out, target) =
                   OnlyArray(target, Spliced(late, overlay, level, asArray(overlay, target)))
          PROVE  asArray(out, target)
                   = Spliced(late, overlay, level, asArray(overlay, target))
      BY <1>0, <1>5, <3>2
    <3>3. ASSUME AsMapping(out, overlay, left, level, target, obeyed)
          PROVE  asArray(out, target)
                   = Spliced({}, overlay, level, asArray(overlay, target))
      <4>1. asArray(out, target) = <<>> /\ asArray(overlay, target) = <<>>
        BY <3>3 DEF AsMapping, IsPlainObject, asArray
      <4> QED
        BY <1>0, <1>3, <4>1
    <3>4. AsOverlay(out, overlay, left, level, target, obeyed) =>
            \/ Part(out, target) = Part(overlay, target)
            \/ \E late \in (SUBSET obeyed) \ {{}} :
                 Part(out, target) =
                   OnlyArray(target, Spliced(late, overlay, level, asArray(overlay, target)))
      BY DEF AsOverlay
    <3> QED
      BY <1>7, <3>1, <3>2, <3>3, <3>4
  <2>2. PICK late \in SUBSET obeyed :
          asArray(out, target) = Spliced(late, overlay, level, asArray(overlay, target))
    BY <2>1
  <2>3. Part(out2, target) =
          OnlyArray(target, Spliced(late \cup {d}, overlay, level, asArray(overlay, target)))
    BY <1>0, <1>2, <2>2
  <2>4. late \cup {d} \in (SUBSET (obeyed \cup {d})) \ {{}}
    OBVIOUS
  <2>5. target \in Own(overlay, level) \ left2
    BY <1>7 DEF AsOverlay, AsMapping
  <2> QED
    BY <2>3, <2>4, <2>5 DEF AsOverlay
<1> QED
  BY <1>6, <1>7 DEF TargetStatus

\* A directive that is obeyed.
LEMMA Directed ==
  ASSUME NEW out, NEW base, NEW overlay, NEW left, NEW path \in left,
         IsDocument(out), IsDocument(overlay), IsDocument(base),
         Merging(out, base, overlay, left),
         \A other \in left : Len(other) <= Len(path),
         NEW d \in directives, Last(path) = d,
         NEW target \in Offspring(Front(path)), Last(target) = Target,
         NEW out2,
         out2 = With(out, target, OnlyArray(target, SplicedInto(d, asArray(overlay, path),
                                                                   asArray(out, target))))
  PROVE  IsDocument(out2) /\ Merging(out2, base, overlay, left \ {path})
<1> DEFINE from == Front(path)
           left2 == left \ {path}
           items == SplicedInto(d, asArray(overlay, path), asArray(out, target))
<1>1. /\ left \subseteq Paths /\ from \in Paths /\ path \in Offspring(from)
      /\ path \in DOMAIN overlay
      /\ IsPlainObject(out, from) /\ Settled(left, path)
      /\ from \in Shared(base, overlay) => LevelStatus(out, base, overlay, left, from)
  BY Turn
<1>2. /\ target \in Offspring(from) /\ target \in Paths \ {<<>>} /\ Front(target) = from
      /\ Last(target) = Target /\ target # path
  <2>1. target \in Paths \ {<<>>} /\ Front(target) = from
    BY DEF Offspring
  <2>2. d # Target
    BY KeyNames
  <2> QED
    BY <2>1, <2>2
<1>3. items \in Seq(Items)
  <2>1. asArray(overlay, path) \in Seq(Items) /\ asArray(out, target) \in Seq(Items)
    BY ElementsOf
  <2>2. \A s, t \in Seq(Items) : s \o t \in Seq(Items)
    BY ConcatProperties
  <2> QED
    BY <2>1, <2>2, Zenon DEF SplicedInto
<1> HIDE DEF from, left2, items
<1>4. out2 = With(out, target, OnlyArray(target, items))
  BY DEF items
<1>5. IsPart(OnlyArray(target, items), target)
  BY <1>2, <1>3, ArrayPart
<1>6. /\ IsDocument(out2)
      /\ Part(out2, target) = OnlyArray(target, items)
      /\ ChangedAt(out, out2, target)
  <2> DEFINE part == OnlyArray(target, items)
  <2>1. IsPart(part, target) /\ out2 = With(out, target, part)
    BY <1>4, <1>5
  <2>2. IsPlainObject(out, Front(target))
    BY <1>1, <1>2
  <2> HIDE DEF part
  <2>3. target \in Paths \ {<<>>}
    BY <1>2
  <2>4. IsDocument(out2) /\ Part(out2, target) = part /\ ChangedAt(out, out2, target)
    BY <2>1, <2>2, <2>3, PutPart
  <2> QED
    BY <2>4 DEF part
<1>7. Taken(left, left2, path) /\ left2 = left \ {path}
  BY DEF Taken, left2
<1>8. IsPlainObject(out2, <<>>) /\ Pending(out2, overlay, left2)
  <2>1. \A q \in Paths : ~IsPrefix(target, q) =>
          (IsPlainObject(out2, q) <=> IsPlainObject(out, q))
    BY <1>6 DEF ChangedAt
  <2> QED
    BY <1>2, <1>7, <2>1, StillPending DEF from
<1>9. /\ d \in Used(overlay, from) /\ path = Append(from, d)
      /\ target = Append(from, Target)
  <2>1. path = Append(from, Last(path)) /\ target = Append(from, Last(target))
    BY <1>1, <1>2, Spring
  <2>2. path = Append(from, d) /\ target = Append(from, Target)
    BY <1>2, <2>1, Zenon
  <2>3. Append(from, d) \in DOMAIN overlay
    BY <1>1, <2>2, Zenon
  <2> QED
    BY <2>2, <2>3 DEF Used
<1>10. ASSUME from \in Shared(base, overlay)
       PROVE  LevelStatus(out2, base, overlay, left2, from)
  <2>1. LevelStatus(out, base, overlay, left, from)
    BY <1>1, <1>10
  <2>2. /\ ~IsPrefix(target, from)
        /\ \A p \in Offspring(from) :
             /\ Settled(left, p) => Settled(left2, p)
             /\ p # path => (p \in left2 <=> p \in left)
             /\ p # target => /\ IsPlainObject(out2, p) <=> IsPlainObject(out, p)
                              /\ Part(out2, p) = Part(out, p)
    <3>1. /\ ~IsPrefix(target, from)
          /\ \A p \in Offspring(from) :
               /\ p # path \/ left2 = left \ {path} =>
                    (Settled(left, p) => Settled(left2, p))
               /\ p # path => (p \in left2 <=> p \in left)
               /\ p # target => /\ IsPlainObject(out2, p) <=> IsPlainObject(out, p)
                                /\ Part(out2, p) = Part(out, p)
      <4>1. /\ from \in Paths /\ path \in Offspring(from) /\ target \in Offspring(from)
            /\ ChangedAt(out, out2, target) /\ Taken(left, left2, path)
        BY <1>1, <1>2, <1>6, <1>7
      <4> QED
        BY <4>1, Beside
    <3> QED
      BY <1>7, <3>1
  <2>3. path \notin Own(overlay, from)
    BY DEF Own
  <2>4. \A p \in Offspring(from) :
          p \in Own(overlay, from) \ left2 <=> p \in Own(overlay, from) \ left
    BY <2>2, <2>3
  <2>5. IsPlainObject(out2, from)
    BY <1>1, <1>6, <2>2 DEF ChangedAt
  <2>6. ASSUME NEW p \in Offspring(from), p # target \/ Used(overlay, from) = {}
        PROVE  KeyStatus(out2, base, overlay, left2, from, p)
    <3>1. p # target
      BY <1>9, <2>6
    <3>2. KeyStatus(out, base, overlay, left, from, p)
      BY <1>9, <2>1, <2>6 DEF LevelStatus
    <3> QED
      BY <2>2, <2>4, <3>1, <3>2, Same
  <2>7. Obeyed(overlay, left2, from) = Obeyed(overlay, left, from) \cup {d}
    <3>1. \A e \in Used(overlay, from) :
            /\ Append(from, e) \in Offspring(from)
            /\ Append(from, e) = path <=> e = d
      BY <1>1, <1>9, Directive
    <3>2. \A e \in Used(overlay, from) : Append(from, e) \notin left2
            <=> Append(from, e) \notin left \/ e = d
      BY <1>7, <3>1
    <3> QED
      BY <1>9, <3>2 DEF Obeyed
  <2>8. TargetStatus(out2, base, overlay, left2, from, target, Obeyed(overlay, left2, from))
    <3> DEFINE obeyed == Obeyed(overlay, left, from)
    <3>1. obeyed \subseteq directives
      BY DEF Obeyed, Used
    <3>2. d \notin obeyed
      BY <1>9 DEF Obeyed
    <3>3. TargetStatus(out, base, overlay, left, from, target, obeyed)
      BY <1>9, <2>1 DEF LevelStatus
    <3> HIDE DEF obeyed
    <3>4. Settled(left2, target)
      <4>1. Len(target) = Len(path) /\ Len(path) \in Nat
        <5>1. /\ Len(target) = Len(from) + 1 /\ Len(path) = Len(from) + 1
              /\ path \in Paths
          BY <1>1, <1>2, Spring
        <5> QED
          BY <5>1 DEF Paths
      <4> SUFFICES ASSUME NEW t \in left2, IsStrictPrefix(target, t) PROVE FALSE
        BY DEF Settled
      <4>2. t \in Paths /\ Len(t) <= Len(path) /\ Len(t) \in Nat
        BY <1>1, <1>7 DEF Paths
      <4>3. IsPrefix(target, t) /\ target # t
        BY DEF IsStrictPrefix
      <4>4. Len(target) <= Len(t) /\ Len(target) # Len(t)
        <5>1. target \in Paths
          BY <1>2
        <5> QED
          BY <4>2, <4>3, <5>1, PrefixOrder
      <4> QED
        BY <4>1, <4>2, <4>4
    <3>5. Part(out2, target) =
            OnlyArray(target, SplicedInto(d, asArray(overlay, Append(from, d)),
                                             asArray(out, target)))
      BY <1>6, <1>9 DEF items
    <3>6. target \in Own(overlay, from) \ left2 <=> target \in Own(overlay, from) \ left
      BY <1>2, <2>4
    <3>7. TargetStatus(out2, base, overlay, left2, from, target, obeyed \cup {d})
      BY <1>1, <1>2, <3>1, <3>2, <3>3, <3>4, <3>5, <3>6, TargetObeys
    <3> QED
      BY <2>7, <3>7 DEF obeyed
  <2> QED
    BY <1>9, <2>5, <2>6, <2>8 DEF LevelStatus
<1>11. ASSUME NEW level \in Shared(base, overlay), Entered(left2, level), level # from
       PROVE  LevelStatus(out2, base, overlay, left2, level)
  <2>1. ~IsPrefix(path, level)
    BY NotShared
  <2>2. ~IsPrefix(target, level)
    BY <1>2, <1>9, SharedLevel
  <2> QED
    BY <1>1, <1>2, <1>6, <1>7, <1>11, <2>1, <2>2, OtherLevel DEF from
<1> QED
  BY <1>6, <1>8, <1>10, <1>11 DEF Merging, left2

\* What putting it there does.
LEMMA PutThere ==
  ASSUME NEW out, NEW overlay, IsDocument(out), IsDocument(overlay),
         NEW path \in DOMAIN overlay \ {<<>>}, IsPlainObject(out, Front(path)),
         NEW out2, out2 = With(out, path, Part(overlay, path))
  PROVE  /\ IsDocument(out2) /\ ChangedAt(out, out2, path)
         /\ Part(out2, path) = Part(overlay, path)
<1> DEFINE part == Part(overlay, path)
<1>1. IsPart(part, path) /\ out2 = With(out, path, part)
  BY OverlayPart
<1>2. path \in Paths \ {<<>>}
  BY DEF IsDocument
<1> HIDE DEF part
<1>3. IsDocument(out2) /\ Part(out2, path) = part /\ ChangedAt(out, out2, path)
  BY <1>1, <1>2, PutPart
<1> QED
  BY <1>3 DEF part

\* A key that is put where it is in the overlay.
LEMMA Replaced ==
  ASSUME NEW out, NEW base, NEW overlay, NEW left, NEW path \in left,
         IsDocument(out), IsDocument(overlay), Merging(out, base, overlay, left),
         \A other \in left : Len(other) <= Len(path),
         Last(path) \notin directives \cup {VisualPatchKey},
         ~IsPlainObject(out, path) \/ ~IsPlainObject(overlay, path),
         NEW out2, ChangedAt(out, out2, path), Part(out2, path) = Part(overlay, path)
  PROVE  Merging(out2, base, overlay, left \ {path})
<1> DEFINE from == Front(path)
           left2 == left \ {path}
<1>1. /\ left \subseteq Paths /\ from \in Paths /\ path \in Offspring(from)
      /\ path \in DOMAIN overlay
      /\ IsPlainObject(out, from) /\ Settled(left, path)
      /\ from \in Shared(base, overlay) => LevelStatus(out, base, overlay, left, from)
  BY Turn
<1>2. path \in Paths \ {<<>>} /\ Front(path) = from
  BY <1>1 DEF Offspring
<1> HIDE DEF from, left2
<1>3. Part(out2, path) = Part(overlay, path) /\ ChangedAt(out, out2, path)
  OBVIOUS
<1>4. Taken(left, left2, path) /\ left2 = left \ {path}
  BY DEF Taken, left2
<1>5. IsPlainObject(out2, <<>>) /\ Pending(out2, overlay, left2)
  <2>1. \A q \in Paths : ~IsPrefix(path, q) =>
          (IsPlainObject(out2, q) <=> IsPlainObject(out, q))
    BY <1>3 DEF ChangedAt
  <2> QED
    BY <1>1, <1>4, <2>1, StillPending DEF from
<1>6. path \in Own(overlay, from)
  BY <1>1, OwnKeys
<1>7. ASSUME from \in Shared(base, overlay)
      PROVE  LevelStatus(out2, base, overlay, left2, from)
  <2>1. LevelStatus(out, base, overlay, left, from)
    BY <1>1, <1>7
  <2>2. /\ ~IsPrefix(path, from) /\ path \notin left2
        /\ \A p \in Offspring(from) :
             /\ Settled(left, p) => Settled(left2, p)
             /\ p # path => /\ p \in left2 <=> p \in left
                            /\ IsPlainObject(out2, p) <=> IsPlainObject(out, p)
                            /\ Part(out2, p) = Part(out, p)
    BY <1>1, <1>3, <1>4, Beside
  <2>3. IsPlainObject(out2, from)
    BY <1>1, <1>3, <2>2 DEF ChangedAt
  <2>4. Settled(left2, path) /\ path \in Own(overlay, from) \ left2
    BY <1>1, <1>6, <2>2
  <2>5. ASSUME NEW p \in Offspring(from),
               p # Append(from, Target) \/ Used(overlay, from) = {}
        PROVE  KeyStatus(out2, base, overlay, left2, from, p)
    <3>1. KeyStatus(out, base, overlay, left, from, p)
      BY <2>1, <2>5 DEF LevelStatus
    <3>2. CASE p # path
      BY <2>2, <3>1, <3>2, Same
    <3>3. CASE p = path
      <4>1. Part(out, path) = Part(base, path)
        BY <3>1, <3>3 DEF KeyStatus
      <4>2. IsPlainObject(base, path) <=> IsPlainObject(out, path)
        BY <1>2, <4>1, SameFurther, PrefixOrder
      <4> QED
        BY <1>3, <2>4, <3>3, <4>2 DEF KeyStatus
    <3> QED
      BY <3>2, <3>3
  <2>6. Obeyed(overlay, left2, from) = Obeyed(overlay, left, from)
    <3>1. \A d \in Used(overlay, from) : /\ Append(from, d) \in Offspring(from)
                                         /\ Append(from, d) # path
      <4>1. \A d \in Used(overlay, from) :
              /\ d \in directives /\ Append(from, d) \in Offspring(from)
              /\ Last(Append(from, d)) = d
        BY <1>1, Directive
      <4>2. \A d \in directives : d # Last(path)
        OBVIOUS
      <4> QED
        BY <4>1, <4>2
    <3> QED
      BY <2>2, <3>1 DEF Obeyed
  <2>7. ASSUME NEW obeyed,
               TargetStatus(out, base, overlay, left, from, Append(from, Target), obeyed)
        PROVE  TargetStatus(out2, base, overlay, left2, from, Append(from, Target), obeyed)
    <3> DEFINE target == Append(from, Target)
    <3>1. TargetStatus(out, base, overlay, left, from, target, obeyed)
      BY <2>7
    <3>2. target \in Offspring(from)
      BY <1>1, Spring, KeyNames
    <3> HIDE DEF target
    <3>3. CASE target # path
      <4>1. /\ target \in Own(overlay, from) \ left2 <=> target \in Own(overlay, from) \ left
            /\ Settled(left, target) => Settled(left2, target)
            /\ IsPlainObject(out2, target) <=> IsPlainObject(out, target)
            /\ Part(out2, target) = Part(out, target)
        BY <2>2, <3>2, <3>3
      <4>2. \A e : TargetStatus(out, base, overlay, left, from, target, e)
                    => TargetStatus(out2, base, overlay, left2, from, target, e)
        BY <4>1, Same
      <4> QED
        BY <3>1, <4>2 DEF target
    <3>4. CASE target = path
      <4>1. AsOverlay(out2, overlay, left2, from, target, obeyed)
        BY <1>3, <2>4, <3>4 DEF AsOverlay
      <4> QED
        BY <4>1 DEF TargetStatus, target
    <3> QED
      BY <3>3, <3>4
  <2> QED
    BY <2>1, <2>3, <2>5, <2>6, <2>7 DEF LevelStatus
<1>8. ASSUME NEW level \in Shared(base, overlay), Entered(left2, level), level # from
      PROVE  LevelStatus(out2, base, overlay, left2, level)
  <2>1. ~IsPrefix(path, level)
    BY NotShared
  <2> QED
    BY <1>1, <1>3, <1>4, <1>8, <2>1, OtherLevel DEF from
<1> QED
  BY <1>3, <1>5, <1>7, <1>8 DEF Merging, left2

\* A mapping of which nothing is handled yet.
LEMMA NewLevel ==
  ASSUME NEW out, NEW base, NEW overlay, IsDocument(out), IsDocument(base),
         IsDocument(overlay), NEW level \in Paths, IsPlainObject(out, level),
         Part(out, level) = Part(base, level),
         NEW left, left \subseteq Paths, Children(overlay, level) \subseteq left,
         \A t \in left : Len(t) <= Len(level) + 1
  PROVE  LevelStatus(out, base, overlay, left, level)
<1>1. ASSUME NEW p \in Offspring(level)
      PROVE  /\ p \notin Own(overlay, level) \ left
             /\ Settled(left, p) /\ Part(out, p) = Part(base, p)
  <2>1. p \in Paths /\ IsPrefix(level, p) /\ Len(p) = Len(level) + 1
    BY Spring
  <2>2. p \notin Own(overlay, level) \ left
    BY DEF Own
  <2>3. Settled(left, p)
    <3> SUFFICES ASSUME NEW t \in left, IsPrefix(p, t), p # t PROVE FALSE
      BY DEF Settled, IsStrictPrefix
    <3>1. t \in Paths /\ Len(t) \in Nat /\ Len(p) \in Nat /\ Len(t) <= Len(p)
      BY <2>1 DEF Paths
    <3> QED
      BY <2>1, <3>1, PrefixOrder
  <2> QED
    BY <2>1, <2>2, <2>3, PartFurther
<1>2. Obeyed(overlay, left, level) = {}
  <2>1. \A d \in Used(overlay, level) : Append(level, d) \in Children(overlay, level)
    BY Directive, OwnKeys
  <2> QED
    BY <2>1 DEF Obeyed
<1>3. Append(level, Target) \in Offspring(level)
  BY Spring, KeyNames
<1>4. \A p \in Offspring(level) : KeyStatus(out, base, overlay, left, level, p)
  BY <1>1 DEF KeyStatus
<1>5. \A p \in Offspring(level) : TargetStatus(out, base, overlay, left, level, p, {})
  BY <1>1 DEF TargetStatus, AsBase
<1> QED
  BY <1>2, <1>3, <1>4, <1>5 DEF LevelStatus

\* A key whose mapping is to be merged.
LEMMA WentIn ==
  ASSUME NEW out, NEW base, NEW overlay, NEW left, NEW path \in left,
         IsDocument(out), IsDocument(overlay), IsDocument(base),
         Merging(out, base, overlay, left),
         \A other \in left : Len(other) <= Len(path),
         Last(path) \notin directives \cup {VisualPatchKey},
         IsPlainObject(out, path), IsPlainObject(overlay, path),
         NEW left2, Children(overlay, path) \subseteq left2, left \ {path} \subseteq left2,
         left2 \subseteq (left \ {path}) \cup Children(overlay, path)
  PROVE  Merging(out, base, overlay, left2)
<1> DEFINE from == Front(path)
<1>1. /\ left \subseteq Paths /\ from \in Paths /\ path \in Offspring(from)
      /\ path \in DOMAIN overlay
      /\ from \in Shared(base, overlay) => LevelStatus(out, base, overlay, left, from)
  BY Turn
<1>2. path \in Paths \ {<<>>} /\ Front(path) = from
  BY <1>1 DEF Offspring
<1> HIDE DEF from
<1>3. /\ Children(overlay, path) = Offspring(path) \cap DOMAIN overlay
      /\ Children(overlay, path) \subseteq Offspring(path)
  BY <1>2, OwnKeys
<1>4. Taken(left, left2, path) /\ ChangedAt(out, out, path)
  BY <1>3 DEF Taken, ChangedAt
<1>5. /\ \A t \in left2 : t \in left \ {path} \/ t \in Offspring(path)
      /\ \A t \in left2 : t \in Paths \ {<<>>} /\ Len(t) <= Len(path) + 1
  <2>1. \A t \in left2 : t \in left \ {path} \/ t \in Offspring(path)
    BY <1>3
  <2>2. \A t \in Offspring(path) : t \in Paths \ {<<>>} /\ Len(t) = Len(path) + 1
    BY <1>2, Spring
  <2>3. \A t \in left : t \in Paths \ {<<>>} /\ Len(t) <= Len(path)
    BY <1>1 DEF Merging, Pending
  <2>4. \A t \in Paths : Len(t) \in Nat
    BY DEF Paths
  <2> QED
    BY <1>2, <2>1, <2>2, <2>3, <2>4
<1>6. Pending(out, overlay, left2)
  <2>1. left2 \subseteq DOMAIN overlay \ {<<>>}
    <3>1. left \subseteq DOMAIN overlay \ {<<>>}
      BY DEF Merging, Pending
    <3>2. \A t \in left2 : t \in left \/ t \in DOMAIN overlay
      BY <1>3
    <3> QED
      BY <1>5, <3>1, <3>2
  <2>2. ASSUME NEW s \in left2, NEW t \in left2, IsPrefix(s, t)
        PROVE  s = t
    <3>1. CASE s \in left \ {path} /\ t \in left \ {path}
      BY <2>2, <3>1 DEF Merging, Pending
    <3>2. CASE s \in left \ {path} /\ t \in Offspring(path)
      <4>1. s # t => IsPrefix(s, path)
        BY <1>2, <1>5, <2>2, <3>2, Spring
      <4>2. ~IsPrefix(s, path)
        BY <3>2 DEF Merging, Pending
      <4> QED
        BY <4>1, <4>2
    <3>3. CASE s \in Offspring(path) /\ t \in left \ {path}
      <4>1. IsPrefix(path, t)
        BY <1>2, <1>5, <2>2, <3>3, Spring, PrefixOrder
      <4> QED
        BY <3>3, <4>1 DEF Merging, Pending
    <3>4. CASE s \in Offspring(path) /\ t \in Offspring(path)
      BY <1>2, <2>2, <3>4, Spring
    <3> QED
      BY <1>5, <3>1, <3>2, <3>3, <3>4
  <2>3. ASSUME NEW t \in left2 PROVE IsPlainObject(out, Front(t))
    <3>1. CASE t \in left
      BY <3>1 DEF Merging, Pending
    <3>2. CASE t \in Offspring(path)
      BY <3>2 DEF Offspring
    <3> QED
      BY <1>5, <3>1, <3>2
  <2> QED
    BY <2>1, <2>2, <2>3 DEF Pending
<1>7. path \in Own(overlay, from)
  BY <1>1, OwnKeys
<1>8. ASSUME from \in Shared(base, overlay)
      PROVE  LevelStatus(out, base, overlay, left2, from)
  <2>1. LevelStatus(out, base, overlay, left, from)
    BY <1>1, <1>8
  <2>2. /\ path \notin left2
        /\ \A p \in Offspring(from) : p # path =>
             /\ Settled(left, p) => Settled(left2, p)
             /\ p \in left2 <=> p \in left
    BY <1>1, <1>4, Beside
  <2>3. path \in Own(overlay, from) \ left2 /\ path \notin Own(overlay, from) \ left
    BY <1>7, <2>2
  <2>4. ASSUME NEW p \in Offspring(from),
               p # Append(from, Target) \/ Used(overlay, from) = {}
        PROVE  KeyStatus(out, base, overlay, left2, from, p)
    <3>1. KeyStatus(out, base, overlay, left, from, p)
      BY <2>1, <2>4 DEF LevelStatus
    <3>2. CASE p # path
      BY <2>2, <3>1, <3>2, Same
    <3>3. CASE p = path
      <4>1. Part(out, path) = Part(base, path)
        BY <3>1, <3>3 DEF KeyStatus
      <4>2. IsPlainObject(base, path)
        BY <1>2, <4>1, SameFurther, PrefixOrder
      <4> QED
        BY <2>3, <3>3, <4>2 DEF KeyStatus
    <3> QED
      BY <3>2, <3>3
  <2>5. Obeyed(overlay, left2, from) = Obeyed(overlay, left, from)
    <3>1. \A d \in Used(overlay, from) : /\ Append(from, d) \in Offspring(from)
                                         /\ Append(from, d) # path
      <4>1. \A d \in Used(overlay, from) :
              /\ d \in directives /\ Append(from, d) \in Offspring(from)
              /\ Last(Append(from, d)) = d
        BY <1>1, Directive
      <4>2. \A d \in directives : d # Last(path)
        OBVIOUS
      <4> QED
        BY <4>1, <4>2
    <3> QED
      BY <2>2, <3>1 DEF Obeyed
  <2>6. ASSUME NEW obeyed,
               TargetStatus(out, base, overlay, left, from, Append(from, Target), obeyed)
        PROVE  TargetStatus(out, base, overlay, left2, from, Append(from, Target), obeyed)
    <3> DEFINE target == Append(from, Target)
    <3>1. TargetStatus(out, base, overlay, left, from, target, obeyed)
      BY <2>6
    <3>2. target \in Offspring(from)
      BY <1>1, Spring, KeyNames
    <3> HIDE DEF target
    <3>3. CASE target # path
      <4>1. /\ target \in Own(overlay, from) \ left2 <=> target \in Own(overlay, from) \ left
            /\ Settled(left, target) => Settled(left2, target)
        BY <2>2, <3>2, <3>3
      <4>2. TargetStatus(out, base, overlay, left2, from, target, obeyed)
        BY <3>1, <4>1, Same
      <4> QED
        BY <4>2 DEF target
    <3>4. CASE target = path
      <4>1. AsBase(out, base, overlay, left, from, path, obeyed)
        BY <2>3, <3>1, <3>4 DEF TargetStatus, AsOverlay, AsMapping
      <4>2. obeyed = {}
        <5> SUFFICES ASSUME obeyed # {} PROVE FALSE
          OBVIOUS
        <5> DEFINE items == Spliced(obeyed, overlay, from, asArray(base, path))
        <5>1. Part(out, path) = OnlyArray(path, items)
          BY <4>1 DEF AsBase
        <5>2. items \in Seq(Items)
          BY <1>1, ElementsOf, Splicing
        <5> HIDE DEF items
        <5>3. Part(OnlyArray(path, items), path) = OnlyArray(path, items) /\ IsPrefix(path, path)
          BY <1>2, PrefixOrder DEF OnlyArray, Part, Below
        <5>4. IsPlainObject(OnlyArray(path, items), path)
          BY <5>1, <5>3, SameFurther
        <5> QED
          BY <1>2, <5>2, <5>4, ArrayPart
      <4>3. AsMapping(out, overlay, left2, from, path, obeyed)
        BY <2>3, <4>2 DEF AsMapping
      <4> QED
        BY <3>4, <4>3 DEF TargetStatus, target
    <3> QED
      BY <3>3, <3>4
  <2> QED
    BY <2>1, <2>4, <2>5, <2>6 DEF LevelStatus
<1>9. ASSUME path \in Shared(base, overlay)
      PROVE  LevelStatus(out, base, overlay, left2, path)
  <2>1. from \in Shared(base, overlay) /\ (Last(path) = Target => Used(overlay, from) = {})
    <3>1. from \in Paths /\ IsPrefix(from, path) /\ IsPrefix(path, path) /\ path # <<>>
      BY <1>1, <1>2, FrontOf, PrefixOrder
    <3> QED
      BY <1>2, <1>9, <3>1, SharedLevel
  <2>2. Part(out, path) = Part(base, path)
    BY <1>2, <2>1, NotYet
  <2>3. left2 \subseteq Paths
    BY <1>5
  <2> QED
    BY <1>2, <1>5, <2>2, <2>3, NewLevel
<1>10. ASSUME NEW level \in Shared(base, overlay), Entered(left2, level)
       PROVE  LevelStatus(out, base, overlay, left2, level)
  <2>1. level \in Paths /\ level \in DOMAIN overlay
    BY SharedLevel
  <2>2. CASE level = from
    BY <1>8, <2>2
  <2>3. CASE level = path
    BY <1>9, <2>3
  <2>4. CASE level # from /\ ~IsPrefix(path, level)
    BY <1>1, <1>4, <1>10, <2>4, OtherLevel DEF from
  <2>5. CASE level # path /\ IsPrefix(path, level)
    <3>1. PICK c \in Paths \ {<<>>} : Front(c) = path /\ IsPrefix(c, level)
      BY <1>2, <2>1, <2>5, OnTheWay
    <3>2. c \in DOMAIN overlay
      BY <2>1, <3>1, Closed
    <3>3. c \in left2
      BY <1>3, <3>1, <3>2 DEF Offspring
    <3> QED
      BY <1>10, <3>1, <3>3 DEF Entered
  <2> QED
    BY <2>2, <2>3, <2>4, <2>5
<1> QED
  BY <1>6, <1>10 DEF Merging

\* An overlay that is begun.
LEMMA Begun ==
  ASSUME NEW base, NEW overlay, IsDocument(base), IsDocument(overlay),
         IsPlainObject(base, <<>>)
  PROVE  Merging(base, base, overlay, Children(overlay, <<>>))
<1> DEFINE left == Children(overlay, <<>>)
           root == <<>>
<1>0. root \in Paths /\ Len(root) = 0
  BY EmptySeq DEF Paths
<1> HIDE DEF left, root
<1>1. left = Offspring(root) \cap DOMAIN overlay
  BY <1>0, OwnKeys DEF left, root
<1>2. \A t \in left : /\ t \in Paths \ {<<>>} /\ t \in DOMAIN overlay /\ Front(t) = root
                      /\ Len(t) <= Len(root) + 1
                      /\ \A s \in left : IsPrefix(s, t) => s = t
  <2>1. \A t \in left : /\ t \in Offspring(root) /\ t \in DOMAIN overlay
                        /\ t \in Paths \ {<<>>} /\ Front(t) = root
    <3>1. \A t \in left : t \in Offspring(root) /\ t \in DOMAIN overlay
      BY <1>1
    <3>2. \A t \in Offspring(root) : t \in Paths \ {<<>>} /\ Front(t) = root
      BY DEF Offspring
    <3> QED
      BY <3>1, <3>2
  <2>2. \A t \in Offspring(root) : Len(t) <= Len(root) + 1
    <3>1. \A t \in Offspring(root) : Len(t) = Len(root) + 1
      BY <1>0, Spring
    <3>2. Len(root) + 1 <= Len(root) + 1
      BY <1>0
    <3> QED
      BY <3>1, <3>2, Zenon
  <2>3. \A s, t \in left : IsPrefix(s, t) => s = t
    BY <2>1, Siblings
  <2> QED
    BY <2>1, <2>2, <2>3, Zenon
<1>3. IsPlainObject(base, root)
  BY DEF root
<1>4. Pending(base, overlay, left)
  BY <1>2, <1>3 DEF Pending
<1>5. ASSUME NEW level \in Shared(base, overlay), Entered(left, level)
      PROVE  LevelStatus(base, base, overlay, left, level)
  <2>1. level \in Paths /\ level \in DOMAIN overlay /\ IsPrefix(root, level)
    BY SharedLevel, PrefixOrder DEF root
  <2>2. CASE level = root
    <3>1. Children(overlay, root) \subseteq left /\ left \subseteq Paths
      BY <1>2 DEF left, root
    <3> QED
      BY <1>0, <1>2, <1>3, <2>2, <3>1, NewLevel
  <2>3. CASE level # root
    <3>1. PICK c \in Paths \ {<<>>} : Front(c) = root /\ IsPrefix(c, level)
      BY <1>0, <2>1, <2>3, OnTheWay
    <3>2. c \in DOMAIN overlay
      BY <2>1, <3>1, Closed
    <3>3. c \in left
      BY <1>1, <3>1, <3>2 DEF Offspring
    <3> QED
      BY <1>5, <3>1, <3>3 DEF Entered
  <2> QED
    BY <2>2, <2>3
<1> QED
  BY <1>4, <1>5 DEF Merging, left

\* When nothing is left, a mapping is what is documented.
LEMMA AllHandled ==
  ASSUME NEW out, NEW base, NEW overlay, IsDocument(out), IsDocument(base),
         IsDocument(overlay), NEW level \in Paths,
         LevelStatus(out, base, overlay, {}, level)
  PROVE  Agrees(out, base, overlay, level)
<1> DEFINE target == Append(level, Target)
           used   == Used(overlay, level)
<1>1. IsPlainObject(out, level)
  BY DEF LevelStatus
<1>2. ASSUME NEW p \in UNION {Children(doc, level) : doc \in {out, base, overlay}},
             p # target \/ used = {}
      PROVE  KeyAgrees(out, base, overlay, level, p)
  <2>1. p \in Offspring(level)
    BY OwnKeys
  <2>2. KeyStatus(out, base, overlay, {}, level, p)
    BY <1>2, <2>1 DEF LevelStatus
  <2> QED
    BY <2>2 DEF KeyStatus, KeyAgrees
<1>3. ASSUME used # {}
      PROVE  TargetAgrees(out, base, overlay, level, target, used)
  <2>1. Obeyed(overlay, {}, level) = used
    BY DEF Obeyed
  <2>2. TargetStatus(out, base, overlay, {}, level, target, Obeyed(overlay, {}, level))
    BY <1>3 DEF LevelStatus
  <2> HIDE DEF target, used
  <2>3. TargetStatus(out, base, overlay, {}, level, target, used)
    BY <2>1, <2>2
  <2>4. AsBase(out, base, overlay, {}, level, target, used)
          => TargetAgrees(out, base, overlay, level, target, used)
    BY <1>3 DEF AsBase, TargetAgrees
  <2>5. AsOverlay(out, overlay, {}, level, target, used)
          => TargetAgrees(out, base, overlay, level, target, used)
    BY DEF AsOverlay, TargetAgrees
  <2>6. ~AsMapping(out, overlay, {}, level, target, used)
    BY <1>3 DEF AsMapping
  <2> QED
    BY <2>3, <2>4, <2>5, <2>6 DEF TargetStatus
<1> QED
  BY <1>1, <1>2, <1>3, Zenon DEF Agrees

-----------------------------------------------------------------------------
(* Merge: the specification *)

LEMMA GivenDocuments == \A overlay \in Given : IsDocument(overlay)
BY MergeAssumption DEF Given

LEMMA HandledIs ==
  ASSUME NEW path, NEW target, target = Append(Front(path), Target)
  PROVE  /\ Last(path) = VisualPatchKey => Handled(path) = acc
         /\ \A d \in directives : Last(path) = d =>
              Handled(path) =
                With(acc, target,
                     OnlyArray(target, SplicedInto(d, asArray(Head(overlays), path),
                                                      asArray(acc, target))))
         /\ Last(path) \notin directives \cup {VisualPatchKey} =>
              Handled(path) = IF Nested(path) THEN acc
                              ELSE With(acc, path, Part(Head(overlays), path))
<1>1. VisualPatchKey # Prepend /\ VisualPatchKey # Append_ /\ Prepend # Append_
  BY KeyNames DEF directives
<1>2. Last(path) = VisualPatchKey => Handled(path) = acc
  BY <1>1 DEF Handled
<1>3. Last(path) = Prepend =>
        Handled(path) =
          With(acc, target, OnlyArray(target, asArray(Head(overlays), path)
                                                \o asArray(acc, target)))
  BY <1>1 DEF Handled, Nested, directives
<1>4. Last(path) = Append_ =>
        Handled(path) =
          With(acc, target, OnlyArray(target, asArray(acc, target)
                                                \o asArray(Head(overlays), path)))
  BY <1>1 DEF Handled, Nested, directives
<1>5. Last(path) \notin directives \cup {VisualPatchKey} =>
        Handled(path) = IF Nested(path) THEN acc
                        ELSE With(acc, path, Part(Head(overlays), path))
  BY DEF Handled, directives
<1> QED
  BY <1>1, <1>2, <1>3, <1>4, <1>5, Zenon DEF directives, SplicedInto

LEMMA MergeStarts == MergeInit => MergeInv
<1> SUFFICES ASSUME MergeInit PROVE MergeInv
  OBVIOUS
<1>1. PICK job \in Jobs : /\ acc = job.base /\ before = job.base
                          /\ overlays = job.overlays /\ stage = Parsed(job.base)
  BY DEF MergeInit
<1>2. /\ IsDocument(job.base) /\ job.overlays \in Seq(ToSet(job.overlays))
      /\ ToSet(job.overlays) \subseteq Given
  BY MergeAssumption DEF Given
<1>3. overlays \in Seq(Given)
  BY <1>1, <1>2
<1>4. (stage = "next" /\ IsPlainObject(acc, <<>>)) \/ stage = "error"
  BY <1>1 DEF Parsed
<1> QED
  BY <1>1, <1>2, <1>3, <1>4 DEF MergeInv

LEMMA MergeKeeps ==
  ASSUME MergeInv, [MergeNext]_mergeVars
  PROVE  MergeInv'
<1>1. ASSUME BeginOverlay PROVE MergeInv'
  <2> DEFINE overlay == Head(overlays)
  <2>1. overlays \in Seq(Given) /\ overlays # <<>> /\ overlay \in Given
    BY <1>1 DEF MergeInv, BeginOverlay
  <2>2. IsDocument(overlay)
    BY <2>1, GivenDocuments
  <2>3. IsDocument(acc) /\ IsPlainObject(acc, <<>>)
    BY <1>1 DEF MergeInv, BeginOverlay
  <2>4. Merging(acc, acc, overlay, Children(overlay, <<>>))
    BY <2>2, <2>3, Begun
  <2>5. /\ acc' = acc /\ before' = acc /\ overlays' = overlays
        /\ \/ /\ IsPlainObject(overlay, <<>>)
              /\ stage' = "merging" /\ todo' = Children(overlay, <<>>)
           \/ stage' = "error"
    BY <1>1 DEF BeginOverlay
  <2>6. Head(overlays') = overlay
    BY <2>5
  <2> HIDE DEF overlay
  <2>7. stage' = "merging" =>
          /\ IsPlainObject(overlay, <<>>) /\ Merging(acc', before', overlay, todo')
    BY <2>4, <2>5
  <2> QED
    BY <2>1, <2>3, <2>5, <2>6, <2>7 DEF MergeInv
<1>2. ASSUME mergeOne PROVE MergeInv'
  <2>1. PICK path \in todo :
          /\ \A other \in todo : Len(other) <= Len(path)
          /\ acc' = Handled(path)
          /\ todo' = (todo \ {path}) \cup
                       (IF Nested(path) THEN Children(Head(overlays), path) ELSE {})
    BY <1>2 DEF mergeOne
  <2>2. stage = "merging" /\ stage' = stage /\ overlays' = overlays /\ before' = before
    BY <1>2 DEF mergeOne
  <2> DEFINE overlay == Head(overlays)
             target == Append(Front(path), Target)
  <2>3. /\ overlays \in Seq(Given) /\ overlays # <<>> /\ IsPlainObject(overlay, <<>>)
        /\ IsDocument(acc) /\ IsDocument(before) /\ IsPlainObject(before, <<>>)
        /\ Merging(acc, before, overlay, todo)
    BY <2>2 DEF MergeInv
  <2>4. IsDocument(overlay)
    <3>1. overlay \in Given
      BY <2>3
    <3> QED
      BY <3>1, GivenDocuments
  <2>5. Nested(path) <=> /\ Last(path) \notin directives \cup {VisualPatchKey}
                         /\ IsPlainObject(acc, path) /\ IsPlainObject(overlay, path)
    BY DEF Nested
  <2>6. /\ Last(path) = VisualPatchKey => acc' = acc
        /\ \A d \in directives : Last(path) = d =>
             acc' = With(acc, target,
                         OnlyArray(target, SplicedInto(d, asArray(overlay, path),
                                                          asArray(acc, target))))
        /\ Last(path) \notin directives \cup {VisualPatchKey} =>
             acc' = IF Nested(path) THEN acc ELSE With(acc, path, Part(overlay, path))
    BY <2>1, HandledIs, Zenon
  <2>7. /\ ~Nested(path) => todo' = todo \ {path}
        /\ Nested(path) => todo' = (todo \ {path}) \cup Children(overlay, path)
    BY <2>1
  <2>8. Front(path) \in Paths /\ path \in DOMAIN overlay \ {<<>>}
        /\ IsPlainObject(acc, Front(path))
    <3>1. path \in Offspring(Front(path))
      BY <2>3, <2>4, Turn
    <3> QED
      BY <2>3, <2>4, <3>1, Turn DEF Offspring
  <2>9. target \in Offspring(Front(path)) /\ Last(target) = Target
    BY <2>8, Spring, KeyNames
  <2> HIDE DEF overlay, target
  <2>10. IsDocument(acc') /\ Merging(acc', before, overlay, todo')
    <3>1. CASE Last(path) = VisualPatchKey
      <4>1. Merging(acc, before, overlay, todo \ {path})
        BY <2>1, <2>3, <2>4, <3>1, StrippedKey
      <4> QED
        BY <2>3, <2>5, <2>6, <2>7, <3>1, <4>1
    <3>2. CASE Last(path) \in directives
      <4>1. PICK d \in directives : Last(path) = d
        BY <3>2
      <4> DEFINE out2 == With(acc, target,
                              OnlyArray(target, SplicedInto(d, asArray(overlay, path),
                                                               asArray(acc, target))))
      <4>2. acc' = out2 /\ todo' = todo \ {path}
        BY <2>5, <2>6, <2>7, <4>1, Zenon
      <4>3. IsDocument(out2) /\ Merging(out2, before, overlay, todo \ {path})
        BY <2>1, <2>3, <2>4, <2>9, <4>1, Directed
      <4> HIDE DEF out2
      <4> QED
        BY <4>2, <4>3
    <3>3. CASE Last(path) \notin directives \cup {VisualPatchKey} /\ ~Nested(path)
      <4> DEFINE out2 == With(acc, path, Part(overlay, path))
      <4>1. acc' = out2 /\ todo' = todo \ {path}
        BY <2>6, <2>7, <3>3
      <4>2. /\ IsDocument(out2) /\ ChangedAt(acc, out2, path)
            /\ Part(out2, path) = Part(overlay, path)
        BY <2>3, <2>4, <2>8, PutThere
      <4> HIDE DEF out2
      <4>3. Merging(out2, before, overlay, todo \ {path})
        BY <2>1, <2>3, <2>4, <2>5, <3>3, <4>2, Replaced
      <4> QED
        BY <4>1, <4>2, <4>3
    <3>4. CASE Nested(path)
      <4>1. acc' = acc
        BY <2>5, <2>6, <3>4
      <4>2. /\ Children(overlay, path) \subseteq todo' /\ todo \ {path} \subseteq todo'
            /\ todo' \subseteq (todo \ {path}) \cup Children(overlay, path)
        BY <2>7, <3>4
      <4>3. Merging(acc, before, overlay, todo')
        BY <2>1, <2>3, <2>4, <2>5, <3>4, <4>2, WentIn
      <4> QED
        BY <2>3, <4>1, <4>3
    <3> QED
      BY <3>1, <3>2, <3>3, <3>4
  <2>11. Head(overlays') = overlay
    BY <2>2 DEF overlay
  <2> QED
    BY <2>2, <2>3, <2>10, <2>11 DEF MergeInv
<1>3. ASSUME EndOverlay PROVE MergeInv'
  <2>1. Tail(overlays) \in Seq(Given)
    BY <1>3 DEF MergeInv, EndOverlay
  <2>2. IsPlainObject(acc, <<>>)
    BY <1>3 DEF MergeInv, EndOverlay, Merging
  <2> QED
    BY <1>3, <2>1, <2>2 DEF MergeInv, EndOverlay
<1>4. ASSUME Marshal PROVE MergeInv'
  BY <1>4 DEF MergeInv, Marshal
<1>5. ASSUME UNCHANGED mergeVars PROVE MergeInv'
  BY <1>5 DEF MergeInv, mergeVars
<1> QED
  BY <1>1, <1>2, <1>3, <1>4, <1>5 DEF MergeNext

LEMMA MergedSo == MergeInv => MergesAsDocumented
<1> SUFFICES ASSUME MergeInv PROVE MergesAsDocumented
  OBVIOUS
<1>1. IsDocument(acc) /\ IsDocument(before)
  BY DEF MergeInv
<1>2. ASSUME stage = "merging", todo = {}, NEW level \in Shared(before, Head(overlays))
      PROVE  Agrees(acc, before, Head(overlays), level)
  <2> DEFINE overlay == Head(overlays)
  <2>1. IsDocument(overlay) /\ Merging(acc, before, overlay, {})
    <3>1. overlay \in Given /\ Merging(acc, before, overlay, todo)
      BY <1>2 DEF MergeInv
    <3> QED
      BY <1>2, <3>1, GivenDocuments
  <2>2. level \in Shared(before, overlay)
    BY <1>2
  <2> HIDE DEF overlay
  <2>3. Entered({}, level)
    BY DEF Entered
  <2>4. LevelStatus(acc, before, overlay, {}, level)
    BY <2>1, <2>2, <2>3 DEF Merging
  <2>5. level \in Paths
    BY <2>1, <2>2, SharedLevel
  <2>6. Agrees(acc, before, overlay, level)
    BY <1>1, <2>1, <2>4, <2>5, AllHandled
  <2> QED
    BY <2>6 DEF overlay
<1>3. ASSUME stage = "merging", todo = {}
      PROVE  DirectivesStayOut(acc, before, Head(overlays))
  <2> DEFINE overlay == Head(overlays)
  <2> HIDE DEF overlay
  <2> SUFFICES ASSUME NEW p \in DOMAIN acc \ (DOMAIN before \cup {<<>>}),
                      Last(p) \in directives \cup {VisualPatchKey},
                      Front(p) \in Shared(before, overlay)
               PROVE  FALSE
    BY DEF DirectivesStayOut, overlay
  <2> DEFINE level == Front(p)
             target == Append(level, Target)
  <2>1. p \in Paths /\ p # <<>>
    BY <1>1 DEF IsDocument
  <2>2. level \in Paths
    BY <2>1, FrontOf
  <2>3. p # target
    BY <2>2, KeyNames, OneFurther
  <2>4. p \in Children(acc, level) /\ p \notin Own(overlay, level)
    BY <2>1 DEF Children, Own
  <2>5. Agrees(acc, before, overlay, level)
    BY <1>2, <1>3 DEF overlay
  <2>6. KeyAgrees(acc, before, overlay, level, p)
    BY <2>3, <2>4, <2>5 DEF Agrees
  <2>7. Part(acc, p) = Part(before, p)
    BY <2>4, <2>6 DEF KeyAgrees
  <2>8. p \in DOMAIN Part(acc, p)
    <3>1. IsPrefix(p, p)
      BY <2>1, PrefixIs DEF Paths
    <3> QED
      BY <3>1 DEF Part, Below
  <2>9. p \in DOMAIN Part(before, p)
    BY <2>7, <2>8
  <2> QED
    BY <2>9 DEF Part, Below
<1> QED
  BY <1>1, <1>2, <1>3 DEF MergesAsDocumented

\* Whatever the order of the keys, an overlay does what is documented, and lets a
\* directive out only inside of a mapping that is put as a whole (merge.go 112-141).
THEOREM MergedAsDocumented == MergeSpec => []MergesAsDocumented
<1>1. MergeInv /\ [MergeNext]_mergeVars => MergeInv'
  BY MergeKeeps
<1> QED
  BY MergeStarts, <1>1, MergedSo, PTL DEF MergeSpec
=============================================================================
