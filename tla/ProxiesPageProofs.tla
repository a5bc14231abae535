-------------------------- MODULE ProxiesPageProofs --------------------------
(* Proofs about ProxiesPage, for any groups and members, any heights of the *)
(* terminal and any number of requests under way.                           *)
EXTENDS ProxiesPage, SequenceTheorems, WellFoundedInduction, TLAPS

-----------------------------------------------------------------------------
(* Rows: where the elements of a flattened sequence are                     *)

\* Induction with a set of numbers for the predicate.
LEMMA SetInduction ==
  ASSUME NEW S, 0 \in S, \A n \in Nat : n \in S => n + 1 \in S
  PROVE  Nat \subseteq S
<1> DEFINE R == {ss \in Nat \X Nat : ss[1] < ss[2]}
<1> SUFFICES ASSUME Nat \ S # {} PROVE FALSE
  OBVIOUS
<1>1. OpToRel(<, Nat) = R
  BY Zenon DEF OpToRel
<1>2. IsWellFoundedOn(R, Nat)
  BY <1>1, NatLessThanWellFounded
<1> HIDE DEF R
<1>3. PICK n \in Nat \ S : \A m \in Nat \ S : <<m, n>> \notin R
  BY <1>2, WFMin, Zenon
<1>4. n - 1 \in Nat /\ (n - 1) + 1 = n
  BY <1>3
<1>5. <<n - 1, n>> \in R
  BY <1>4 DEF R
<1>6. n - 1 \in S
  BY <1>3, <1>4, <1>5
<1>7. (n - 1) + 1 \in S
  BY <1>4, <1>6
<1> QED
  BY <1>3, <1>4, <1>7

\* The recursive function of FlattenSeq exists: its value at i is the first i
\* sequences, one after the other.
LEMMA Partial ==
  ASSUME NEW s, NEW n \in Nat
  PROVE  \E f : f = [i \in 1 .. n |-> IF i = 1 THEN s[i] ELSE f[i - 1] \o s[i]]
<1> DEFINE Is(f, m) == f = [i \in 1 .. m |-> IF i = 1 THEN s[i] ELSE f[i - 1] \o s[i]]
           S == {m \in Nat : \E f : Is(f, m)}
<1>1. 0 \in S
  <2>1. Is([i \in 1 .. 0 |-> s[i]], 0)
    OBVIOUS
  <2> QED
    BY <2>1
<1>2. ASSUME NEW m \in Nat, m \in S PROVE m + 1 \in S
  <2>1. PICK f : Is(f, m)
    BY <1>2
  <2> DEFINE g == [i \in 1 .. m + 1 |->
                     IF i <= m THEN f[i] ELSE IF i = 1 THEN s[i] ELSE f[m] \o s[i]]
  <2>2. \A i \in 1 .. m : g[i] = f[i]
    OBVIOUS
  <2>3. ASSUME NEW i \in 1 .. m + 1
        PROVE  g[i] = IF i = 1 THEN s[i] ELSE g[i - 1] \o s[i]
    <3>1. CASE i <= m
      <4>1. i \in 1 .. m /\ g[i] = f[i]
        BY <2>2, <3>1
      <4>2. f[i] = IF i = 1 THEN s[i] ELSE f[i - 1] \o s[i]
        BY <2>1, <4>1
      <4>3. i # 1 => i - 1 \in 1 .. m
        BY <4>1
      <4>4. i # 1 => g[i - 1] = f[i - 1]
        BY <2>2, <4>3
      <4> QED
        BY <4>1, <4>2, <4>4
    <3>2. CASE i = m + 1
      <4>1. g[i] = IF i = 1 THEN s[i] ELSE f[m] \o s[i]
        BY <3>2
      <4>2. i # 1 => m \in 1 .. m /\ i - 1 = m
        BY <3>2
      <4>3. i # 1 => g[i - 1] = f[m]
        BY <2>2, <4>2
      <4> QED
        BY <4>1, <4>3
    <3> QED
      BY <3>1, <3>2
  <2>4. Is(g, m + 1)
    <3>1. g = [i \in 1 .. m + 1 |-> g[i]]
      OBVIOUS
    <3> HIDE DEF g
    <3> QED
      BY <2>3, <3>1
  <2> HIDE DEF g, Is
  <2> QED
    BY <2>4
<1>3. n \in S
  <2> HIDE DEF S
  <2> QED
    BY <1>1, <1>2, SetInduction
<1> QED
  BY <1>3

\* at[m]: the number of elements in the first m sequences.
Offsets(at, s, r) ==
  /\ at \in [0 .. Len(s) -> Nat]
  /\ at[0] = 0
  /\ \A m \in 1 .. Len(s) : at[m] = at[m - 1] + Len(s[m])
  /\ \A m \in 1 .. Len(s) : \A j \in 1 .. Len(s[m]) :
       at[m - 1] + j \in 1 .. Len(r) /\ r[at[m - 1] + j] = s[m][j]
  /\ \A i \in 1 .. Len(r) :
       \E m \in 1 .. Len(s) : \E j \in 1 .. Len(s[m]) : i = at[m - 1] + j

LEMMA Flattened ==
  ASSUME NEW S, NEW s \in Seq(Seq(S))
  PROVE  FlattenSeq(s) \in Seq(S) /\ \E at : Offsets(at, s, FlattenSeq(s))
<1> DEFINE N == Len(s)
           f == CHOOSE g : g = [i \in 1 .. N |-> IF i = 1 THEN s[i] ELSE g[i - 1] \o s[i]]
           F == [n \in 0 .. N |-> IF n = 0 THEN <<>> ELSE f[n]]
           at == [n \in 0 .. N |-> Len(F[n])]
<1>1. N \in Nat /\ \A m \in 1 .. N : s[m] \in Seq(S)
  BY LenProperties, ElementOfSeq
<1>2. f = [i \in 1 .. N |-> IF i = 1 THEN s[i] ELSE f[i - 1] \o s[i]]
  <2> DEFINE Is(g) == g = [i \in 1 .. N |-> IF i = 1 THEN s[i] ELSE g[i - 1] \o s[i]]
  <2>1. \E g : Is(g)
    BY <1>1, Partial
  <2> HIDE DEF N, Is
  <2>2. Is(CHOOSE g : Is(g))
    BY <2>1, Zenon
  <2> QED
    BY <2>2 DEF Is
<1>3. FlattenSeq(s) = F[N]
  <2>1. CASE N = 0
    <3>1. s = <<>>
      BY <1>1, <2>1, EmptySeq
    <3>2. FlattenSeq(s) = s
      BY <2>1, Zenon DEF FlattenSeq
    <3> QED
      BY <2>1, <3>1, <3>2
  <2>2. CASE N # 0
    <3>1. FlattenSeq(s) = f[N]
      BY <2>2, Zenon DEF FlattenSeq
    <3> QED
      BY <1>1, <2>2, <3>1
  <2> QED
    BY <2>1, <2>2
<1> HIDE DEF f
<1>4. F[0] = <<>>
  BY <1>1
<1>5. ASSUME NEW n \in 1 .. N PROVE F[n] = F[n - 1] \o s[n]
  <2>1. n \in 0 .. N /\ n # 0 /\ n - 1 \in 0 .. N /\ (n = 1 <=> n - 1 = 0)
    BY <1>1
  <2>2. F[n] = f[n] /\ F[n - 1] = IF n = 1 THEN <<>> ELSE f[n - 1]
    BY <2>1
  <2> HIDE DEF F
  <2>3. f[n] = IF n = 1 THEN s[n] ELSE f[n - 1] \o s[n]
    BY <1>2
  <2>4. <<>> \o s[n] = s[n]
    BY <1>1, ConcatEmptySeq
  <2> QED
    BY <2>2, <2>3, <2>4
<1>6. at = [n \in 0 .. N |-> Len(F[n])]
  OBVIOUS
<1> HIDE DEF F, at
<1> DEFINE Good(n) ==
      /\ F[n] \in Seq(S)
      /\ \A m \in 1 .. n : \A j \in 1 .. Len(s[m]) :
           at[m - 1] + j \in 1 .. at[n] /\ F[n][at[m - 1] + j] = s[m][j]
      /\ \A i \in 1 .. at[n] :
           \E m \in 1 .. n : \E j \in 1 .. Len(s[m]) : i = at[m - 1] + j
           T == {n \in Nat : n <= N => Good(n)}
<1>7. 0 \in T
  <2>1. at[0] = 0 /\ F[0] \in Seq(S)
    BY <1>1, <1>4, <1>6, EmptySeq
  <2> QED
    BY <2>1
<1>8. ASSUME NEW n \in Nat, n \in T PROVE n + 1 \in T
  <2> HIDE DEF Good, N
  <2> SUFFICES ASSUME n + 1 <= N PROVE Good(n + 1)
    OBVIOUS
  <2>1. /\ n \in 0 .. N /\ n + 1 \in 1 .. N /\ n + 1 \in 0 .. N /\ (n + 1) - 1 = n
        /\ Good(n)
    BY <1>1, <1>8
  <2> DEFINE t == s[n + 1]
  <2>2. /\ F[n] \in Seq(S) /\ t \in Seq(S)
        /\ F[n + 1] = F[n] \o t
    BY <1>1, <1>5, <2>1 DEF Good
  <2>3. at[n] = Len(F[n]) /\ at[n + 1] = Len(F[n + 1])
    BY <1>6, <2>1
  <2> HIDE DEF t
  <2>4. /\ F[n + 1] \in Seq(S)
        /\ at[n] \in Nat /\ Len(t) \in Nat /\ at[n + 1] = at[n] + Len(t)
        /\ \A i \in 1 .. at[n] + Len(t) :
             F[n + 1][i] = IF i <= at[n] THEN F[n][i] ELSE t[i - at[n]]
    BY <2>2, <2>3, ConcatProperties, LenProperties
  <2>5. ASSUME NEW m \in 1 .. n + 1, NEW j \in 1 .. Len(s[m])
        PROVE  at[m - 1] + j \in 1 .. at[n + 1] /\ F[n + 1][at[m - 1] + j] = s[m][j]
    <3>1. CASE m = n + 1
      <4>1. m - 1 = n /\ s[m] = t
        BY <2>1, <3>1 DEF t
      <4>2. /\ at[n] + j \in 1 .. at[n] + Len(t)
            /\ ~(at[n] + j <= at[n]) /\ (at[n] + j) - at[n] = j
        BY <2>4, <4>1
      <4> QED
        BY <2>4, <4>1, <4>2
    <3>2. CASE m # n + 1
      <4>1. m \in 1 .. n
        BY <2>1, <3>2
      <4>2. at[m - 1] + j \in 1 .. at[n] /\ F[n][at[m - 1] + j] = s[m][j]
        BY <2>1, <4>1 DEF Good
      <4> DEFINE i == at[m - 1] + j
      <4> HIDE DEF i
      <4>3. i \in 1 .. at[n] /\ F[n][i] = s[m][j]
        BY <4>2 DEF i
      <4>4. i <= at[n] /\ i \in 1 .. at[n] + Len(t)
        BY <2>4, <4>3
      <4>5. F[n + 1][i] = F[n][i]
        BY <2>4, <4>4
      <4> QED
        BY <2>4, <4>3, <4>4, <4>5 DEF i
    <3> QED
      BY <3>1, <3>2
  <2>6. ASSUME NEW i \in 1 .. at[n + 1]
        PROVE  \E m \in 1 .. n + 1 : \E j \in 1 .. Len(s[m]) : i = at[m - 1] + j
    <3>1. CASE i <= at[n]
      <4>1. i \in 1 .. at[n]
        BY <2>4, <3>1
      <4>2. PICK m \in 1 .. n : \E j \in 1 .. Len(s[m]) : i = at[m - 1] + j
        BY <2>1, <4>1 DEF Good
      <4>3. m \in 1 .. n + 1
        BY <2>1
      <4> QED
        BY <4>2, <4>3
    <3>2. CASE ~(i <= at[n])
      <4>1. i - at[n] \in 1 .. Len(t) /\ i = at[n] + (i - at[n])
        BY <2>4, <3>2
      <4>2. n + 1 \in 1 .. n + 1 /\ t = s[n + 1]
        BY <2>1 DEF t
      <4> QED
        BY <2>1, <4>1, <4>2
    <3> QED
      BY <3>1, <3>2
  <2> QED
    BY <2>4, <2>5, <2>6 DEF Good
<1>9. \A n \in 0 .. N : Good(n)
  <2> HIDE DEF Good
  <2>1. Nat \subseteq T
    <3> HIDE DEF T
    <3> QED
      BY <1>7, <1>8, SetInduction
  <2> QED
    BY <1>1, <2>1
<1>10. N \in 0 .. N /\ Good(N) /\ at[N] = Len(FlattenSeq(s))
  <2> HIDE DEF Good
  <2> QED
    BY <1>1, <1>3, <1>6, <1>9
<1>11. at \in [0 .. N -> Nat]
  <2>1. \A n \in 0 .. N : F[n] \in Seq(S)
    BY <1>9
  <2>2. \A n \in 0 .. N : Len(F[n]) \in Nat
    BY <2>1, LenProperties
  <2> QED
    BY <1>6, <2>2
<1>12. at[0] = 0
  BY <1>1, <1>4, <1>6
<1>13. ASSUME NEW m \in 1 .. N PROVE at[m] = at[m - 1] + Len(s[m])
  <2>1. m - 1 \in 0 .. N /\ m \in 0 .. N
    BY <1>1, <1>13
  <2>2. F[m - 1] \in Seq(S) /\ s[m] \in Seq(S) /\ F[m] = F[m - 1] \o s[m]
    BY <1>1, <1>5, <1>9, <1>13, <2>1
  <2>3. Len(F[m]) = Len(F[m - 1]) + Len(s[m])
    BY <2>2, ConcatProperties
  <2> QED
    BY <1>6, <2>1, <2>3
<1>14. /\ FlattenSeq(s) \in Seq(S)
       /\ \A m \in 1 .. N : \A j \in 1 .. Len(s[m]) :
            /\ at[m - 1] + j \in 1 .. Len(FlattenSeq(s))
            /\ FlattenSeq(s)[at[m - 1] + j] = s[m][j]
       /\ \A i \in 1 .. Len(FlattenSeq(s)) :
            \E m \in 1 .. N : \E j \in 1 .. Len(s[m]) : i = at[m - 1] + j
  <2> HIDE DEF N
  <2> QED
    BY <1>3, <1>10
<1>15. Offsets(at, s, FlattenSeq(s))
  BY <1>11, <1>12, <1>13, <1>14 DEF Offsets
<1> QED
  BY <1>14, <1>15

-----------------------------------------------------------------------------
(* Rows: a group's are next to one another, its own comes first             *)

Orders == Layouts \cup {<<>>}
RowSet == [group : Groups, member : Nodes \cup {Nothing}]

Top(g) == [group |-> g, member |-> Nothing]

\* The rows of one group.
Block(g, ex) ==
  <<Top(g)>> \o IF g \in ex
                  THEN [j \in DOMAIN All[g] |-> [group |-> g, member |-> All[g][j]]]
                  ELSE <<>>

LEMMA Ordered ==
  ASSUME NEW gs \in Orders
  PROVE  gs \in Seq(Groups) /\ IsInjective(gs)
<1>1. CASE gs \in Layouts
  BY <1>1, ProxiesAssumption
<1>2. CASE gs = <<>>
  BY <1>2, EmptySeq DEF IsInjective
<1> QED
  BY <1>1, <1>2 DEF Orders

LEMMA OneGroup ==
  ASSUME NEW g \in Groups, NEW ex
  PROVE  /\ Block(g, ex) \in Seq(RowSet)
         /\ 1 \in 1 .. Len(Block(g, ex)) /\ Block(g, ex)[1] = Top(g)
         /\ \A j \in 1 .. Len(Block(g, ex)) :
              /\ Block(g, ex)[j].group = g
              /\ j # 1 => Block(g, ex)[j].member # Nothing
<1> DEFINE h == <<Top(g)>>
           t == IF g \in ex
                  THEN [j \in DOMAIN All[g] |-> [group |-> g, member |-> All[g][j]]]
                  ELSE <<>>
<1>1. /\ All[g] \in Seq(Nodes) /\ DOMAIN All[g] = 1 .. Len(All[g]) /\ Len(All[g]) \in Nat
      /\ \A j \in 1 .. Len(All[g]) : All[g][j] \in Nodes /\ All[g][j] # Nothing
  <2>1. All[g] \in Seq(Nodes)
    BY ProxiesAssumption
  <2> QED
    BY <2>1, LenProperties, ElementOfSeq, ProxiesAssumption
<1>2. /\ t \in Seq(RowSet)
      /\ \A j \in 1 .. Len(t) : t[j].group = g /\ t[j].member # Nothing
  <2>1. CASE g \in ex
    <3>1. t = [j \in 1 .. Len(All[g]) |-> [group |-> g, member |-> All[g][j]]]
      BY <1>1, <2>1
    <3>2. \A j \in 1 .. Len(All[g]) :
            /\ [group |-> g, member |-> All[g][j]] \in RowSet
            /\ [group |-> g, member |-> All[g][j]].group = g
            /\ [group |-> g, member |-> All[g][j]].member # Nothing
      BY <1>1 DEF RowSet
    <3>3. t \in [1 .. Len(All[g]) -> RowSet]
      BY <3>1, <3>2
    <3>4. t \in Seq(RowSet) /\ Len(t) = Len(All[g])
      BY <1>1, <3>3
    <3> QED
      BY <3>1, <3>2, <3>4
  <2>2. CASE g \notin ex
    BY <2>2, EmptySeq
  <2> QED
    BY <2>1, <2>2
<1>3. h \in Seq(RowSet) /\ Len(h) = 1 /\ h[1] = Top(g)
  BY DEF Top, RowSet
<1>4. Block(g, ex) = h \o t
  BY DEF Block
<1> HIDE DEF h, t
<1>5. /\ Block(g, ex) \in Seq(RowSet) /\ Len(Block(g, ex)) = 1 + Len(t) /\ Len(t) \in Nat
      /\ \A j \in 1 .. 1 + Len(t) :
           Block(g, ex)[j] = IF j <= 1 THEN h[j] ELSE t[j - 1]
  BY <1>2, <1>3, <1>4, ConcatProperties, LenProperties
<1>6. Block(g, ex)[1] = Top(g)
  BY <1>3, <1>5
<1>7. ASSUME NEW j \in 1 .. Len(Block(g, ex))
      PROVE  Block(g, ex)[j].group = g /\ (j # 1 => Block(g, ex)[j].member # Nothing)
  <2>1. CASE j = 1
    BY <1>6, <2>1 DEF Top
  <2>2. CASE j # 1
    <3>1. j - 1 \in 1 .. Len(t) /\ Block(g, ex)[j] = t[j - 1]
      BY <1>5, <2>2
    <3> QED
      BY <1>2, <3>1
  <2> QED
    BY <2>1, <2>2
<1> QED
  BY <1>5, <1>6, <1>7

LEMMA RowsOf ==
  ASSUME NEW gs \in Seq(Groups), NEW ex
  PROVE  /\ Rows(gs, ex) = FlattenSeq([i \in 1 .. Len(gs) |-> Block(gs[i], ex)])
         /\ [i \in 1 .. Len(gs) |-> Block(gs[i], ex)] \in Seq(Seq(RowSet))
         /\ Len([i \in 1 .. Len(gs) |-> Block(gs[i], ex)]) = Len(gs)
<1> DEFINE b == [i \in 1 .. Len(gs) |-> Block(gs[i], ex)]
<1>1. DOMAIN gs = 1 .. Len(gs) /\ Len(gs) \in Nat
  BY LenProperties
<1>2. Rows(gs, ex) = FlattenSeq(b)
  BY <1>1 DEF Rows, Block, Top
<1>3. \A i \in 1 .. Len(gs) : Block(gs[i], ex) \in Seq(RowSet)
  BY ElementOfSeq, OneGroup
<1>4. b \in [1 .. Len(gs) -> Seq(RowSet)]
  BY <1>3
<1> QED
  BY <1>1, <1>2, <1>4

LEMMA RowsTyped ==
  ASSUME NEW gs \in Orders, NEW ex
  PROVE  /\ Rows(gs, ex) \in Seq(RowSet) /\ Len(Rows(gs, ex)) \in Nat
         /\ DOMAIN Rows(gs, ex) = 1 .. Len(Rows(gs, ex))
         /\ \A i \in 1 .. Len(Rows(gs, ex)) : Rows(gs, ex)[i] \in RowSet
         /\ Rows(gs, ex) = <<>> <=> Len(Rows(gs, ex)) = 0
<1> DEFINE b == [i \in 1 .. Len(gs) |-> Block(gs[i], ex)]
<1>0. Rows(gs, ex) = FlattenSeq(b) /\ b \in Seq(Seq(RowSet))
  BY Ordered, RowsOf
<1> HIDE DEF b
<1>1. Rows(gs, ex) \in Seq(RowSet)
  BY <1>0, Flattened
<1> QED
  BY <1>1, LenProperties, ElementOfSeq, EmptySeq

\* A group's own row stays where it is when the group is expanded or collapsed.
LEMMA TopStays ==
  ASSUME NEW gs \in Orders, NEW ex, NEW ex2, NEW g, ex \ {g} = ex2 \ {g},
         NEW i \in 1 .. Len(Rows(gs, ex)), Rows(gs, ex)[i] = Top(g)
  PROVE  i \in 1 .. Len(Rows(gs, ex2)) /\ Rows(gs, ex2)[i] = Top(g)
<1> DEFINE N == Len(gs)
           b == [k \in 1 .. N |-> Block(gs[k], ex)]
           c == [k \in 1 .. N |-> Block(gs[k], ex2)]
<1>1. /\ gs \in Seq(Groups) /\ IsInjective(gs) /\ N \in Nat
      /\ DOMAIN gs = 1 .. N /\ \A k \in 1 .. N : gs[k] \in Groups
  BY Ordered, LenProperties, ElementOfSeq
<1>2. /\ Rows(gs, ex) = FlattenSeq(b) /\ b \in Seq(Seq(RowSet)) /\ Len(b) = N
      /\ Rows(gs, ex2) = FlattenSeq(c) /\ c \in Seq(Seq(RowSet)) /\ Len(c) = N
  BY <1>1, RowsOf
<1>3. \A k \in 1 .. N : b[k] = Block(gs[k], ex) /\ c[k] = Block(gs[k], ex2)
  OBVIOUS
<1> HIDE DEF b, c, N
<1>a. PICK at : Offsets(at, b, Rows(gs, ex))
  BY <1>2, Flattened
<1>c. PICK to : Offsets(to, c, Rows(gs, ex2))
  BY <1>2, Flattened
<1>4. /\ at \in [0 .. N -> Nat] /\ at[0] = 0
      /\ \A m \in 1 .. N : at[m] = at[m - 1] + Len(b[m])
      /\ \A m \in 1 .. N : \A j \in 1 .. Len(b[m]) :
           Rows(gs, ex)[at[m - 1] + j] = b[m][j]
      /\ \A k \in 1 .. Len(Rows(gs, ex)) :
           \E m \in 1 .. N : \E j \in 1 .. Len(b[m]) : k = at[m - 1] + j
  <2>1. Len(b) = N
    BY <1>2
  <2>2. at \in [0 .. N -> Nat] /\ at[0] = 0
    BY <1>a, <2>1, Zenon DEF Offsets
  <2>3. \A m \in 1 .. N : at[m] = at[m - 1] + Len(b[m])
    BY <1>a, <2>1, Zenon DEF Offsets
  <2>4. \A m \in 1 .. N : \A j \in 1 .. Len(b[m]) :
          Rows(gs, ex)[at[m - 1] + j] = b[m][j]
    BY <1>a, <2>1, Zenon DEF Offsets
  <2>5. \A k \in 1 .. Len(Rows(gs, ex)) :
          \E m \in 1 .. N : \E j \in 1 .. Len(b[m]) : k = at[m - 1] + j
    BY <1>a, <2>1, Zenon DEF Offsets
  <2> QED
    BY <2>2, <2>3, <2>4, <2>5
<1>5. /\ to \in [0 .. N -> Nat] /\ to[0] = 0
      /\ \A m \in 1 .. N : to[m] = to[m - 1] + Len(c[m])
      /\ \A m \in 1 .. N : \A j \in 1 .. Len(c[m]) :
           /\ to[m - 1] + j \in 1 .. Len(Rows(gs, ex2))
           /\ Rows(gs, ex2)[to[m - 1] + j] = c[m][j]
  <2>1. Len(c) = N
    BY <1>2
  <2>2. to \in [0 .. N -> Nat] /\ to[0] = 0
    BY <1>c, <2>1, Zenon DEF Offsets
  <2>3. \A m \in 1 .. N : to[m] = to[m - 1] + Len(c[m])
    BY <1>c, <2>1, Zenon DEF Offsets
  <2>4. \A m \in 1 .. N : \A j \in 1 .. Len(c[m]) :
          /\ to[m - 1] + j \in 1 .. Len(Rows(gs, ex2))
          /\ Rows(gs, ex2)[to[m - 1] + j] = c[m][j]
    BY <1>c, <2>1, Zenon DEF Offsets
  <2> QED
    BY <2>2, <2>3, <2>4
<1>6. PICK m \in 1 .. N : \E j \in 1 .. Len(b[m]) : i = at[m - 1] + j
  BY <1>4
<1>7. PICK j \in 1 .. Len(b[m]) : i = at[m - 1] + j
  BY <1>6
<1>8. b[m][j] = Top(g)
  BY <1>4, <1>7
<1>9. gs[m] = g /\ j = 1
  <2>1. gs[m] \in Groups /\ b[m] = Block(gs[m], ex)
    BY <1>1, <1>3
  <2>2. \A n \in 1 .. Len(Block(gs[m], ex)) :
          /\ Block(gs[m], ex)[n].group = gs[m]
          /\ n # 1 => Block(gs[m], ex)[n].member # Nothing
    BY <2>1, OneGroup
  <2>3. \A n \in 1 .. Len(b[m]) :
          b[m][n].group = gs[m] /\ (n # 1 => b[m][n].member # Nothing)
    BY <2>1, <2>2
  <2>4. b[m][j].group = gs[m] /\ (j # 1 => b[m][j].member # Nothing)
    BY <2>3
  <2> QED
    BY <1>8, <2>4 DEF Top
<1>10. \A n \in 1 .. m - 1 : b[n] = c[n]
  <2> SUFFICES ASSUME NEW n \in 1 .. m - 1 PROVE b[n] = c[n]
    OBVIOUS
  <2>1. n \in 1 .. N /\ n # m
    BY <1>1
  <2>2. gs[n] # g
    BY <1>1, <1>9, <2>1 DEF IsInjective
  <2>3. gs[n] \in ex <=> gs[n] \in ex2
    BY <2>2
  <2> QED
    BY <1>3, <2>1, <2>3 DEF Block
<1> DEFINE S == {n \in Nat : n <= m - 1 => at[n] = to[n]}
<1>11. 0 \in S
  BY <1>4, <1>5
<1>12. ASSUME NEW n \in Nat, n \in S PROVE n + 1 \in S
  <2> SUFFICES ASSUME n + 1 <= m - 1 PROVE at[n + 1] = to[n + 1]
    OBVIOUS
  <2>1. n + 1 \in 1 .. m - 1 /\ n + 1 \in 1 .. N /\ (n + 1) - 1 = n /\ n <= m - 1
    BY <1>1
  <2>2. at[n] = to[n] /\ b[n + 1] = c[n + 1]
    BY <1>10, <1>12, <2>1
  <2> QED
    BY <1>4, <1>5, <2>1, <2>2
<1>13. at[m - 1] = to[m - 1]
  <2>1. Nat \subseteq S
    <3> HIDE DEF S
    <3> QED
      BY <1>11, <1>12, SetInduction
  <2>2. m - 1 \in Nat
    BY <1>1
  <2> QED
    BY <2>1, <2>2
<1> HIDE DEF S
<1>14. 1 \in 1 .. Len(c[m]) /\ c[m][1] = Top(g)
  BY <1>1, <1>3, <1>9, OneGroup
<1> QED
  BY <1>5, <1>7, <1>9, <1>13, <1>14

-----------------------------------------------------------------------------
(***************************************************************************)
(* The inductive invariant, in named parts.                                *)
(***************************************************************************)

Shape == [op : {"none", "list", "select", "delay"},
          group : Groups \cup {Nothing}, arg : Nodes \cup {Nothing},
          at : {"sent", "done", "orphan"}, groups : Orders, now : Selections,
          old : BOOLEAN]

Requests == {c \in Shape : /\ c.op \in {"select", "delay"} => c.group \in Groups
                           /\ c.op = "delay" => c.at # "orphan"
                           /\ c.at = "sent" => ~c.old}

Types ==
  /\ order \in Layouts /\ now \in Selections
  /\ groups \in Orders /\ shown \in Selections
  /\ expanded \subseteq Groups /\ testing \subseteq Groups
  /\ cursor \in Nat /\ scrollTop \in Nat /\ vh \in Heights
  /\ call \in [Slots -> Requests]
  /\ resized \in BOOLEAN /\ outdated \in BOOLEAN

\* Its answer makes the page fetch the groups once more, or is yet to be read.
Renewing(c) == \/ c.op = "select" /\ c.at = "done"
               \/ c.op = "list" /\ c.at = "sent"

\* The newest listing.
Fresh(c) == c.op = "list" /\ c.at = "done" /\ ~c.old

\* The newest listing is what the kernel has, or is not the last one.
ListingsTrue ==
  \A k \in Slots : Fresh(call[k]) =>
    \/ \E j \in Slots : Renewing(call[j])
    \/ call[k].groups = order /\ call[k].now = now

\* The page shows what the kernel has, or will.
PageTrue ==
  \/ outdated
  \/ \E k \in Slots : Renewing(call[k]) \/ Fresh(call[k])
  \/ groups = order /\ shown = now

\* MarkedWhileTested, without a set of requests.
MarksTrue ==
  /\ \A k \in Slots : call[k].op = "delay" => call[k].group \in testing
  /\ \A g \in testing : \E k \in Slots : call[k].op = "delay" /\ call[k].group = g
  /\ \A j, k \in Slots : /\ call[j].op = "delay" /\ call[k].op = "delay"
                         /\ call[j].group = call[k].group
                         => j = k

IInv == Types /\ ListingsTrue /\ PageTrue /\ MarksTrue /\ CursorInSight

-----------------------------------------------------------------------------
(* Requests *)

LEMMA Sent ==
  /\ Free \in Requests /\ Free.op = "none" /\ ~Fresh(Free) /\ ~Renewing(Free)
  /\ \A op \in {"list", "select", "delay"}, g \in Groups \cup {Nothing},
        x \in Nodes \cup {Nothing} :
       LET r == Request(op, g, x)
       IN  /\ r.op = op /\ r.group = g /\ r.at = "sent" /\ ~Fresh(r)
           /\ (op # "list" => g \in Groups) => r \in Requests
<1>1. Free \in Shape
  <2>1. <<>> \in Orders /\ [g \in Groups |-> Nothing] \in Selections
    BY DEF Orders, Selections
  <2> QED
    BY <2>1 DEF Free, Shape
<1>2. Free.op = "none" /\ Free.at = "sent" /\ ~Free.old
  BY DEF Free
<1>3. Free \in Requests
  BY <1>1, <1>2 DEF Requests
<1>4. ASSUME NEW op \in {"list", "select", "delay"}, NEW g \in Groups \cup {Nothing},
             NEW x \in Nodes \cup {Nothing}
      PROVE  LET r == Request(op, g, x)
             IN  /\ r.op = op /\ r.group = g /\ r.at = "sent" /\ ~Fresh(r)
                 /\ (op # "list" => g \in Groups) => r \in Requests
  <2> DEFINE r == Request(op, g, x)
  <2>1. r = [Free EXCEPT !.op = op, !.group = g, !.arg = x]
    BY DEF Request
  <2>2. r \in Shape /\ r.op = op /\ r.group = g /\ r.at = "sent"
    BY <1>1, <1>2, <2>1 DEF Shape
  <2>3. r.old = Free.old
    BY <1>1, <2>1 DEF Shape
  <2> QED
    BY <1>2, <2>2, <2>3 DEF Requests, Fresh
<1> QED
  BY <1>2, <1>3, <1>4 DEF Fresh, Renewing

\* Other parts of the invariant do not see a request that is new.
LEMMA Issued ==
  ASSUME Types, NEW r \in Requests, ~Fresh(r), Issue(r)
  PROVE  \E k \in Slots :
           /\ call[k] = Free /\ call' = [call EXCEPT ![k] = r]
           /\ call' \in [Slots -> Requests]
           /\ call'[k] = r /\ \A j \in Slots \ {k} : call'[j] = call[j]
           /\ \A j \in Slots : /\ Fresh(call'[j]) <=> Fresh(call[j])
                               /\ Fresh(call[j]) => call'[j] = call[j]
                               /\ Renewing(call[j]) => Renewing(call'[j])
<1>1. PICK k \in Slots : call[k] = Free /\ call' = [call EXCEPT ![k] = r]
  BY DEF Issue
<1>2. /\ call' \in [Slots -> Requests]
      /\ call'[k] = r /\ \A j \in Slots \ {k} : call'[j] = call[j]
  BY <1>1 DEF Types
<1>3. \A j \in Slots : /\ Fresh(call'[j]) <=> Fresh(call[j])
                       /\ Fresh(call[j]) => call'[j] = call[j]
                       /\ Renewing(call[j]) => Renewing(call'[j])
  BY <1>1, <1>2, Sent
<1> QED
  BY <1>1, <1>2, <1>3

LEMMA Ages ==
  ASSUME call \in [Slots -> Requests]
  PROVE  /\ Aged \in [Slots -> Requests]
         /\ \A k \in Slots : /\ ~Fresh(Aged[k])
                             /\ Aged[k].op = call[k].op
                             /\ Aged[k].group = call[k].group
                             /\ Aged[k].at = call[k].at
                             /\ call[k].at = "sent" => Aged[k] = call[k]
<1> SUFFICES ASSUME NEW k \in Slots
             PROVE  /\ Aged[k] \in Requests /\ ~Fresh(Aged[k])
                    /\ Aged[k].op = call[k].op
                    /\ Aged[k].group = call[k].group
                    /\ Aged[k].at = call[k].at
                    /\ call[k].at = "sent" => Aged[k] = call[k]
  BY DEF Aged
<1> DEFINE c == call[k]
<1>1. c \in Requests
  OBVIOUS
<1>2. CASE c.op = "list" /\ c.at = "done"
  <2>1. Aged[k] = [c EXCEPT !.old = TRUE]
    BY <1>2 DEF Aged
  <2> QED
    BY <1>1, <1>2, <2>1 DEF Requests, Shape, Fresh
<1>3. CASE ~(c.op = "list" /\ c.at = "done")
  <2>1. Aged[k] = c
    BY <1>3 DEF Aged
  <2> QED
    BY <1>1, <1>3, <2>1 DEF Fresh
<1> QED
  BY <1>2, <1>3

-----------------------------------------------------------------------------
(* The window *)

LEMMA Adjusts ==
  ASSUME NEW c \in Nat, NEW n \in Nat, n # 0 => c < n,
         scrollTop \in Nat, vh \in Nat \ {0}
  PROVE  LET t == Adjusted(scrollTop, c, n)
         IN  /\ t \in Nat /\ t <= n
             /\ n # 0 => c \in t .. t + vh - 1 /\ (t = 0 \/ t + vh <= n)
<1> DEFINE fit == IF scrollTop + vh <= n THEN scrollTop
                  ELSE IF n < vh THEN 0 ELSE n - vh
           low == IF c < fit THEN c ELSE fit
           t == IF n = 0 THEN 0 ELSE IF c >= low + vh THEN c - vh + 1 ELSE low
<1>1. Adjusted(scrollTop, c, n) = t
  BY DEF Adjusted
<1>2. fit \in Nat /\ (fit = 0 \/ fit + vh <= n)
  OBVIOUS
<1> HIDE DEF fit
<1>3. low \in Nat /\ low <= c /\ (low = 0 \/ low + vh <= n)
  BY <1>2
<1> HIDE DEF low
<1>4. t \in Nat /\ t <= n /\ (n # 0 => c \in t .. t + vh - 1 /\ (t = 0 \/ t + vh <= n))
  BY <1>3
<1> QED
  BY <1>1, <1>4

LEMMA InWindow ==
  ASSUME Types, NEW gs \in Orders, NEW ex \in SUBSET Groups, NEW c \in Nat,
         Len(Rows(gs, ex)) # 0 => c < Len(Rows(gs, ex)), Shows(gs, ex, c)
  PROVE  /\ groups' \in Orders /\ expanded' \subseteq Groups /\ cursor' \in Nat
         /\ scrollTop' \in Nat /\ vh' \in Heights /\ resized' \in BOOLEAN
         /\ CursorInSight'
<1> DEFINE n == Len(Rows(gs, ex))
<1>1. n \in Nat /\ (Rows(gs, ex) = <<>> <=> n = 0)
  BY RowsTyped
<1>2. vh \in Nat \ {0} /\ scrollTop \in Nat
  BY ProxiesAssumption DEF Types
<1>3. /\ groups' = gs /\ expanded' = ex /\ cursor' = c /\ vh' = vh
      /\ scrollTop' = Adjusted(scrollTop, c, n) /\ resized' = FALSE
  BY DEF Shows
<1>4. rows' = Rows(gs, ex)
  BY <1>3 DEF rows
<1> HIDE DEF n
<1>5. /\ scrollTop' \in Nat /\ scrollTop' <= n
      /\ n # 0 => /\ c \in scrollTop' .. scrollTop' + vh - 1
                  /\ scrollTop' = 0 \/ scrollTop' + vh <= n
  BY <1>1, <1>2, <1>3, Adjusts DEF n
<1>6. CursorInSight'
  <2>1. Len(rows') = n /\ (rows' # <<>> => n # 0)
    BY <1>1, <1>4 DEF n
  <2>2. scrollTop' <= Len(rows')
    BY <1>5, <2>1
  <2>3. rows' # <<>> => cursor' < Len(rows')
    BY <1>3, <2>1 DEF n
  <2>4. rows' # <<>> => /\ cursor' \in scrollTop' .. scrollTop' + vh' - 1
                        /\ scrollTop' = 0 \/ scrollTop' + vh' <= Len(rows')
    BY <1>3, <1>5, <2>1
  <2> QED
    BY <2>2, <2>3, <2>4 DEF CursorInSight
<1> QED
  BY <1>3, <1>5, <1>6 DEF Types

LEMMA WindowKeeps ==
  ASSUME IInv, UNCHANGED <<groups, window, resized>>
  PROVE  CursorInSight'
BY DEF IInv, CursorInSight, rows, window

\* The row the cursor is on.
LEMMA OnRow ==
  ASSUME Types, cursor < Len(rows)
  PROVE  /\ Len(rows) \in Nat /\ DOMAIN rows = 1 .. Len(rows)
         /\ cursor + 1 \in 1 .. Len(rows)
         /\ Here.group \in Groups /\ Here.member \in Nodes \cup {Nothing}
         /\ Here.member = Nothing => Here = Top(Here.group)
<1>1. /\ Len(rows) \in Nat /\ DOMAIN rows = 1 .. Len(rows)
      /\ \A i \in 1 .. Len(rows) : rows[i] \in RowSet
  BY RowsTyped DEF Types, rows
<1>2. cursor + 1 \in 1 .. Len(rows)
  BY <1>1 DEF Types
<1>3. Here \in RowSet
  BY <1>1, <1>2 DEF Here
<1> HIDE DEF Here
<1> QED
  BY <1>1, <1>2, <1>3 DEF RowSet, Top

-----------------------------------------------------------------------------
(* What steps have in common *)

\* The marks, when no test begins or ends.
LEMMA MarksKeep ==
  ASSUME MarksTrue, UNCHANGED testing,
         \A k \in Slots : /\ call'[k].op = "delay" <=> call[k].op = "delay"
                          /\ call[k].op = "delay" => call'[k].group = call[k].group
  PROVE  MarksTrue'
<1>1. \A k \in Slots : call'[k].op = "delay" => call'[k].group \in testing'
  BY DEF MarksTrue
<1>2. \A g \in testing' : \E k \in Slots : call'[k].op = "delay" /\ call'[k].group = g
  BY DEF MarksTrue
<1>3. \A j, k \in Slots : /\ call'[j].op = "delay" /\ call'[k].op = "delay"
                          /\ call'[j].group = call'[k].group
                          => j = k
  BY DEF MarksTrue
<1> QED
  BY <1>1, <1>2, <1>3 DEF MarksTrue

\* The marks, when the test in slot k ends.
LEMMA MarksEnd ==
  ASSUME MarksTrue, NEW k \in Slots, call[k].op = "delay", Told(call[k]),
         call'[k].op = "none",
         \A j \in Slots \ {k} : /\ call'[j].op = call[j].op
                                /\ call'[j].group = call[j].group
  PROVE  MarksTrue'
<1>1. testing' = testing \ {call[k].group}
  BY DEF Told
<1>2. \A j \in Slots : call'[j].op = "delay" => call'[j].group \in testing'
  <2> SUFFICES ASSUME NEW j \in Slots, call'[j].op = "delay"
               PROVE  call'[j].group \in testing'
    OBVIOUS
  <2>1. j # k /\ call[j].op = "delay" /\ call'[j].group = call[j].group
    OBVIOUS
  <2>2. call[j].group \in testing /\ call[j].group # call[k].group
    BY <2>1 DEF MarksTrue
  <2> QED
    BY <1>1, <2>1, <2>2
<1>3. \A g \in testing' : \E j \in Slots : call'[j].op = "delay" /\ call'[j].group = g
  <2> SUFFICES ASSUME NEW g \in testing'
               PROVE  \E j \in Slots : call'[j].op = "delay" /\ call'[j].group = g
    OBVIOUS
  <2>1. g \in testing /\ g # call[k].group
    BY <1>1
  <2>2. PICK j \in Slots : call[j].op = "delay" /\ call[j].group = g
    BY <2>1 DEF MarksTrue
  <2> QED
    BY <2>1, <2>2
<1>4. \A i, j \in Slots : /\ call'[i].op = "delay" /\ call'[j].op = "delay"
                          /\ call'[i].group = call'[j].group
                          => i = j
  BY DEF MarksTrue
<1> QED
  BY <1>2, <1>3, <1>4 DEF MarksTrue

\* A step of the page that neither fetches nor shows a listing.
LEMMA ListingsKeep ==
  ASSUME ListingsTrue, PageTrue, UNCHANGED <<kernel, data, outdated>>,
         \A k \in Slots : /\ Fresh(call'[k]) <=> Fresh(call[k])
                          /\ Fresh(call[k]) => call'[k] = call[k]
                          /\ Renewing(call[k]) => Renewing(call'[k])
  PROVE  ListingsTrue' /\ PageTrue'
<1>1. ListingsTrue'
  BY DEF ListingsTrue, kernel
<1>2. PageTrue'
  BY DEF PageTrue, kernel, data
<1> QED
  BY <1>1, <1>2

\* Whoever changes the kernel behind the page, and every request that is given
\* up, leaves no listing that is the newest and the page outdated.
LEMMA Interferes ==
  ASSUME IInv, order' \in Layouts, now' \in Selections,
         call' \in [Slots -> Requests], \A k \in Slots : ~Fresh(call'[k]),
         outdated' = TRUE, UNCHANGED <<data, window, resized>>,
         testing' \subseteq Groups, MarksTrue'
  PROVE  IInv'
<1>1. Types'
  BY DEF IInv, Types, data, window
<1>2. ListingsTrue' /\ PageTrue'
  BY DEF ListingsTrue, PageTrue
<1>3. CursorInSight'
  BY WindowKeeps DEF data
<1> QED
  BY <1>1, <1>2, <1>3 DEF IInv

\* A request is sent, and nothing else happens to the page.
LEMMA Asks ==
  ASSUME IInv, NEW r \in Requests, ~Fresh(r), r.op # "delay", Issue(r),
         UNCHANGED <<kernel, data, window, testing, resized, outdated>>
  PROVE  IInv'
<1>1. PICK k \in Slots :
           /\ call[k] = Free
           /\ call' \in [Slots -> Requests]
           /\ call'[k] = r /\ \A j \in Slots \ {k} : call'[j] = call[j]
           /\ \A j \in Slots : /\ Fresh(call'[j]) <=> Fresh(call[j])
                               /\ Fresh(call[j]) => call'[j] = call[j]
                               /\ Renewing(call[j]) => Renewing(call'[j])
  BY Issued DEF IInv
<1>2. Types'
  BY <1>1 DEF IInv, Types, kernel, data, window
<1>3. ListingsTrue' /\ PageTrue'
  BY <1>1, ListingsKeep DEF IInv
<1>4. MarksTrue'
  BY <1>1, MarksKeep, Sent DEF IInv
<1>5. CursorInSight'
  BY WindowKeeps DEF data
<1> QED
  BY <1>2, <1>3, <1>4, <1>5 DEF IInv

\* The rows or the cursor change, and nothing else.
LEMMA Moves ==
  ASSUME IInv, NEW ex \in SUBSET Groups, NEW c \in Nat,
         Len(Rows(groups, ex)) # 0 => c < Len(Rows(groups, ex)),
         Shows(groups, ex, c), UNCHANGED <<kernel, shown, testing, call, outdated>>
  PROVE  IInv'
<1>0. Types /\ groups \in Orders
  BY DEF IInv, Types
<1>1. /\ groups' = groups /\ expanded' \subseteq Groups /\ cursor' \in Nat
      /\ scrollTop' \in Nat /\ vh' \in Heights /\ resized' \in BOOLEAN
      /\ CursorInSight'
  BY <1>0, InWindow DEF Shows
<1>2. Types'
  BY <1>1 DEF IInv, Types, kernel
<1>3. ListingsTrue' /\ PageTrue'
  BY <1>1, ListingsKeep DEF IInv, data
<1>4. MarksTrue'
  BY MarksKeep DEF IInv
<1> QED
  BY <1>1, <1>2, <1>3, <1>4 DEF IInv

-----------------------------------------------------------------------------
(* The initial state *)

LEMMA InitInv == Init => IInv
<1> SUFFICES ASSUME Init PROVE IInv
  OBVIOUS
<1>1. call \in [Slots -> Requests] /\ \A k \in Slots : call[k] = Free
  BY Sent DEF Init
<1>2. now \in Selections /\ shown \in Selections
  <2>1. \A g \in Groups : All[g][1] \in Nodes
    <3> SUFFICES ASSUME NEW g \in Groups PROVE All[g][1] \in Nodes
      OBVIOUS
    <3>1. All[g] \in Seq(Nodes) /\ All[g] # <<>>
      BY ProxiesAssumption
    <3>2. 1 \in 1 .. Len(All[g])
      BY <3>1, EmptySeq, LenProperties
    <3> QED
      BY <3>1, <3>2, ElementOfSeq
  <2> QED
    BY <2>1 DEF Init, Selections
<1>3. groups \in Orders /\ order \in Layouts /\ vh \in Heights
  BY DEF Init, Orders
<1>4. Types
  BY <1>1, <1>2, <1>3 DEF Init, Types
<1>5. ListingsTrue /\ PageTrue
  BY <1>1, Sent DEF Init, ListingsTrue, PageTrue
<1>6. MarksTrue
  BY <1>1, Sent DEF Init, MarksTrue
<1>7. CursorInSight
  <2>1. rows = <<>> /\ Len(rows) = 0
    <3>1. DOMAIN groups = {}
      BY DEF Init
    <3>2. rows = FlattenSeq(<<>>)
      BY <3>1 DEF rows, Rows
    <3>3. FlattenSeq(<<>>) = <<>>
      BY Zenon DEF FlattenSeq
    <3> QED
      BY <3>2, <3>3
  <2> QED
    BY <2>1 DEF Init, CursorInSight
<1> QED
  BY <1>4, <1>5, <1>6, <1>7 DEF IInv

-----------------------------------------------------------------------------
(* Keys *)

\* Where the cursor can be, and where it goes.
LEMMA CursorStep ==
  ASSUME IInv, NEW delta \in {-1, 1}, rows # <<>>
  PROVE  (CHOOSE c \in 0 .. Len(rows) - 1 :
            \/ c = cursor + delta
            \/ c = cursor /\ cursor + delta \notin 0 .. Len(rows) - 1)
         \in 0 .. Len(rows) - 1
<1> DEFINE Is(c) == \/ c = cursor + delta
                    \/ c = cursor /\ cursor + delta \notin 0 .. Len(rows) - 1
<1>1. Len(rows) \in Nat /\ cursor \in Nat /\ cursor < Len(rows)
  BY RowsTyped DEF IInv, Types, CursorInSight, rows
<1>2. \E c \in 0 .. Len(rows) - 1 : Is(c)
  <2>1. CASE cursor + delta \in 0 .. Len(rows) - 1
    BY <2>1
  <2>2. CASE cursor + delta \notin 0 .. Len(rows) - 1
    <3>1. cursor \in 0 .. Len(rows) - 1 /\ Is(cursor)
      BY <1>1, <2>2
    <3> QED
      BY <3>1
  <2> QED
    BY <2>1, <2>2
<1> HIDE DEF Is
<1>3. (CHOOSE c \in 0 .. Len(rows) - 1 : Is(c)) \in 0 .. Len(rows) - 1
  BY <1>2, Zenon
<1> QED
  BY <1>3 DEF Is

LEMMA MoveStep ==
  ASSUME IInv, NEW delta \in {-1, 1}, MoveCursor(delta)
  PROVE  IInv'
<1>0. Types /\ groups \in Orders /\ expanded \in SUBSET Groups
  BY DEF IInv, Types
<1>1. rows = Rows(groups, expanded) /\ Len(rows) \in Nat
      /\ (rows = <<>> <=> Len(rows) = 0)
  BY <1>0, RowsTyped DEF rows
<1>2. PICK c \in Nat : /\ Len(rows) # 0 => c < Len(rows)
                       /\ Shows(groups, expanded, c)
  <2>1. CASE rows = <<>>
    BY <1>1, <2>1 DEF MoveCursor
  <2>2. CASE rows # <<>>
    <3> DEFINE d == CHOOSE c \in 0 .. Len(rows) - 1 :
                      \/ c = cursor + delta
                      \/ c = cursor /\ cursor + delta \notin 0 .. Len(rows) - 1
    <3>1. Shows(groups, expanded, d)
      BY <2>2 DEF MoveCursor
    <3>2. d \in 0 .. Len(rows) - 1
      BY <2>2, CursorStep
    <3> HIDE DEF d
    <3> QED
      BY <1>1, <3>1, <3>2
  <2> QED
    BY <2>1, <2>2
<1> QED
  BY <1>0, <1>1, <1>2, Moves DEF MoveCursor

\* The group that "enter" expands or collapses stays where it is.
LEMMA Toggles ==
  ASSUME IInv, Toggle
  PROVE  \E ex \in SUBSET Groups :
           /\ Shows(groups, ex, cursor)
           /\ cursor < Len(Rows(groups, ex))
           /\ Rows(groups, ex)[cursor + 1].group = Here.group
<1> DEFINE ex == (expanded \cup {Here.group}) \ (expanded \cap {Here.group})
<1>0. Types /\ groups \in Orders /\ expanded \subseteq Groups /\ cursor \in Nat
  BY DEF IInv, Types
<1>1. cursor < Len(rows) /\ Here.member = Nothing /\ Shows(groups, ex, cursor)
  BY DEF Toggle
<1>2. /\ Here.group \in Groups /\ Here = Top(Here.group)
      /\ cursor + 1 \in 1 .. Len(rows)
  BY <1>0, <1>1, OnRow
<1>3. ex \in SUBSET Groups /\ expanded \ {Here.group} = ex \ {Here.group}
  BY <1>0, <1>2
<1>4. rows = Rows(groups, expanded) /\ Here = rows[cursor + 1]
  BY DEF rows, Here
<1> HIDE DEF ex
<1>5. /\ cursor + 1 \in 1 .. Len(Rows(groups, ex))
      /\ Rows(groups, ex)[cursor + 1] = Top(Here.group)
  BY <1>0, <1>2, <1>3, <1>4, TopStays
<1>6. Len(Rows(groups, ex)) \in Nat
  BY <1>0, RowsTyped
<1>7. cursor < Len(Rows(groups, ex))
  BY <1>0, <1>5, <1>6
<1>8. Rows(groups, ex)[cursor + 1].group = Here.group
  BY <1>5 DEF Top
<1> QED
  BY <1>1, <1>3, <1>7, <1>8

\* "left" puts the cursor on the row of the group, which stays where it is.
LEMMA Collapses ==
  ASSUME IInv, Collapse
  PROVE  \E ex \in SUBSET Groups, c \in Nat :
           /\ Shows(groups, ex, c)
           /\ c < Len(Rows(groups, ex))
           /\ Rows(groups, ex)[c + 1].group = Here.group
<1> DEFINE ex == expanded \ {Here.group}
<1>0. Types /\ groups \in Orders /\ expanded \subseteq Groups
  BY DEF IInv, Types
<1>1. PICK i \in DOMAIN rows : /\ rows[i] = Top(Here.group)
                               /\ Shows(groups, ex, i - 1)
  BY DEF Collapse, Top
<1>2. Len(rows) \in Nat /\ i \in 1 .. Len(rows)
  BY <1>0, RowsTyped DEF rows
<1>3. ex \in SUBSET Groups /\ expanded \ {Here.group} = ex \ {Here.group}
  BY <1>0
<1>4. rows = Rows(groups, expanded)
  BY DEF rows
<1> HIDE DEF ex
<1>5. /\ i \in 1 .. Len(Rows(groups, ex))
      /\ Rows(groups, ex)[i] = Top(Here.group)
  BY <1>0, <1>1, <1>2, <1>3, <1>4, TopStays
<1>6. Len(Rows(groups, ex)) \in Nat
  BY <1>0, RowsTyped
<1>7. i - 1 \in Nat /\ i - 1 < Len(Rows(groups, ex)) /\ (i - 1) + 1 = i
  BY <1>2, <1>5, <1>6
<1>8. Rows(groups, ex)[i].group = Here.group
  BY <1>5 DEF Top
<1> QED
  BY <1>1, <1>3, <1>7, <1>8

LEMMA TestStep ==
  ASSUME IInv, TestDelay
  PROVE  IInv'
<1> DEFINE g == Here.group
           r == Request("delay", g, Nothing)
<1>0. Types
  BY DEF IInv
<1>1. /\ g \in Groups /\ g \notin testing /\ testing' = testing \cup {g}
      /\ Issue(r) /\ UNCHANGED <<kernel, data, window, resized, outdated>>
  BY <1>0, OnRow DEF TestDelay
<1>2. r \in Requests /\ r.op = "delay" /\ r.group = g /\ ~Fresh(r)
  BY <1>1, Sent
<1> HIDE DEF g, r
<1>3. PICK k \in Slots :
           /\ call[k] = Free
           /\ call' \in [Slots -> Requests]
           /\ call'[k] = r /\ \A j \in Slots \ {k} : call'[j] = call[j]
           /\ \A j \in Slots : /\ Fresh(call'[j]) <=> Fresh(call[j])
                               /\ Fresh(call[j]) => call'[j] = call[j]
                               /\ Renewing(call[j]) => Renewing(call'[j])
  BY <1>0, <1>1, <1>2, Issued
<1>4. Types'
  BY <1>0, <1>1, <1>3 DEF Types, kernel, data, window
<1>5. ListingsTrue' /\ PageTrue'
  BY <1>1, <1>3, ListingsKeep DEF IInv
<1>6. MarksTrue'
  <2>1. \A j \in Slots \ {k} : call[j].op = "delay" => call[j].group \in testing
    BY DEF IInv, MarksTrue
  <2>2. \A j \in Slots : call'[j].op = "delay" => call'[j].group \in testing'
    BY <1>1, <1>2, <1>3, <2>1
  <2>3. ASSUME NEW h \in testing'
        PROVE  \E j \in Slots : call'[j].op = "delay" /\ call'[j].group = h
    <3>1. CASE h = g
      BY <1>2, <1>3, <3>1
    <3>2. CASE h # g
      <4>1. PICK j \in Slots : call[j].op = "delay" /\ call[j].group = h
        BY <1>1, <3>2 DEF IInv, MarksTrue
      <4>2. j # k
        BY <1>3, <4>1, Sent
      <4> QED
        BY <1>3, <4>1, <4>2
    <3> QED
      BY <3>1, <3>2
  <2>4. ASSUME NEW i \in Slots, NEW j \in Slots, i # j,
               call'[i].op = "delay", call'[j].op = "delay",
               call'[i].group = call'[j].group
        PROVE  FALSE
    <3>1. CASE i = k
      BY <1>1, <1>2, <1>3, <2>1, <2>4, <3>1
    <3>2. CASE j = k
      BY <1>1, <1>2, <1>3, <2>1, <2>4, <3>2
    <3>3. CASE i # k /\ j # k
      BY <1>3, <2>4, <3>3 DEF IInv, MarksTrue
    <3> QED
      BY <3>1, <3>2, <3>3
  <2> QED
    BY <2>2, <2>3, <2>4 DEF MarksTrue
<1>7. CursorInSight'
  BY <1>1, WindowKeeps DEF data
<1> QED
  BY <1>4, <1>5, <1>6, <1>7 DEF IInv

LEMMA KeyStep ==
  ASSUME IInv, Key
  PROVE  IInv'
<1>0. Types
  BY DEF IInv
<1>1. CASE Toggle
  <2>1. PICK ex \in SUBSET Groups :
           Shows(groups, ex, cursor) /\ cursor < Len(Rows(groups, ex))
    BY <1>1, Toggles
  <2> QED
    BY <1>0, <1>1, <2>1, Moves DEF Toggle, Types
<1>2. CASE Collapse
  <2>1. PICK ex \in SUBSET Groups, c \in Nat :
           Shows(groups, ex, c) /\ c < Len(Rows(groups, ex))
    BY <1>2, Collapses
  <2> QED
    BY <1>2, <2>1, Moves DEF Collapse
<1>3. CASE Switch
  <2>1. Here.group \in Groups /\ Here.member \in Nodes \cup {Nothing}
    BY <1>0, <1>3, OnRow DEF Switch
  <2> DEFINE r == Request("select", Here.group, Here.member)
  <2>2. r \in Requests /\ r.op = "select" /\ ~Fresh(r)
    BY <2>1, Sent
  <2>3. Issue(r) /\ UNCHANGED <<kernel, data, window, testing, resized, outdated>>
    BY <1>3 DEF Switch
  <2> HIDE DEF r
  <2> QED
    BY <2>2, <2>3, Asks
<1>4. CASE Refresh
  <2>1. List \in Requests /\ List.op = "list" /\ ~Fresh(List)
    BY Sent DEF List
  <2> QED
    BY <1>4, <2>1, Asks DEF Refresh
<1>5. CASE Resize
  <2>1. Types'
    BY <1>0, <1>5 DEF Resize, Types, kernel, data
  <2>2. ListingsTrue' /\ PageTrue' /\ MarksTrue'
    BY <1>5, ListingsKeep, MarksKeep DEF IInv, Resize
  <2>3. CursorInSight'
    BY <1>5 DEF IInv, Resize, CursorInSight, rows, data
  <2> QED
    BY <2>1, <2>2, <2>3 DEF IInv
<1> QED
  BY <1>1, <1>2, <1>3, <1>4, <1>5, MoveStep, TestStep DEF Key

-----------------------------------------------------------------------------
(* The kernel *)

LEMMA ReadStep ==
  ASSUME IInv, NEW k \in Slots, Read(k)
  PROVE  IInv'
<1> DEFINE c == call'[k]
<1>0. Types
  BY DEF IInv
<1>1. /\ call[k] \in Requests /\ call[k].op = "list" /\ call[k].at = "sent"
      /\ UNCHANGED <<kernel, data, window, testing, resized, outdated>>
  BY <1>0 DEF Read, Types
<1>2. Aged \in [Slots -> Requests] /\ Aged[k] = call[k]
  BY <1>0, <1>1, Ages DEF Types
<1>3. call' = [Aged EXCEPT ![k] =
                 [call[k] EXCEPT !.at = "done", !.groups = order, !.now = now]]
  BY <1>2 DEF Read
<1>4. /\ c = [call[k] EXCEPT !.at = "done", !.groups = order, !.now = now]
      /\ \A j \in Slots \ {k} : call'[j] = Aged[j]
  BY <1>2, <1>3
<1>5. /\ c \in Requests /\ c.op = "list" /\ c.at = "done" /\ ~c.old
      /\ c.groups = order /\ c.now = now
  <2>1. order \in Orders /\ now \in Selections
    BY <1>0 DEF Types, Orders
  <2>2. /\ c \in Shape /\ c.op = "list" /\ c.at = "done"
        /\ c.groups = order /\ c.now = now
    BY <1>1, <1>4, <2>1 DEF Requests, Shape
  <2>3. c.old = call[k].old /\ ~call[k].old
    BY <1>1, <1>4 DEF Requests, Shape
  <2> QED
    BY <2>2, <2>3 DEF Requests
<1>6. call' \in [Slots -> Requests]
  BY <1>2, <1>3, <1>4, <1>5
<1> HIDE DEF c
<1>7. Types'
  BY <1>0, <1>1, <1>6 DEF Types, kernel, data, window
<1>8. \A j \in Slots \ {k} : ~Fresh(call'[j])
  BY <1>0, <1>4, Ages DEF Types
<1>9. order' = order /\ now' = now
  BY <1>1 DEF kernel
<1>10. ListingsTrue'
  BY <1>5, <1>8, <1>9 DEF ListingsTrue, c
<1>11. PageTrue'
  BY <1>5 DEF PageTrue, Fresh, c
<1>12. MarksTrue'
  <2>1. \A j \in Slots : /\ call'[j].op = "delay" <=> call[j].op = "delay"
                         /\ call[j].op = "delay" => call'[j].group = call[j].group
    BY <1>0, <1>1, <1>4, <1>5, Ages DEF Types, c
  <2> QED
    BY <1>1, <2>1, MarksKeep DEF IInv
<1>13. CursorInSight'
  BY <1>1, WindowKeeps DEF data
<1> QED
  BY <1>7, <1>10, <1>11, <1>12, <1>13 DEF IInv

LEMMA Obeyed ==
  ASSUME Types, NEW c \in Requests, Obeys(c) \/ UNCHANGED kernel
  PROVE  order' \in Layouts /\ now' \in Selections
<1>1. CASE Obeys(c)
  <2>1. now' = [now EXCEPT ![c.group] = c.arg] /\ order' = order
    BY <1>1 DEF Obeys
  <2>2. c.arg \in Nodes \cup {Nothing}
    BY DEF Requests, Shape
  <2> QED
    BY <2>1, <2>2 DEF Types, Selections
<1>2. CASE UNCHANGED kernel
  BY <1>2 DEF kernel, Types
<1> QED
  BY <1>1, <1>2

\* A selection is answered when the listings read before it are still about.
LEMMA ServeStep ==
  ASSUME IInv, NEW k \in Slots, Serve(k)
  PROVE  IInv'
<1> DEFINE c == call'[k]
<1>0. Types
  BY DEF IInv
<1>1. /\ call[k] \in Requests /\ call[k].at = "sent"
      /\ Obeys(call[k]) \/ (call[k].op = "delay" /\ UNCHANGED kernel)
      /\ UNCHANGED <<data, window, testing, resized, outdated>>
  BY <1>0 DEF Serve, Types
<1>2. call' = [call EXCEPT ![k] = [call[k] EXCEPT !.at = "done"]]
  BY DEF Serve
<1>3. /\ c = [call[k] EXCEPT !.at = "done"]
      /\ \A j \in Slots \ {k} : call'[j] = call[j]
  BY <1>0, <1>2 DEF Types
<1>4. /\ c \in Shape /\ c.op = call[k].op /\ c.at = "done"
      /\ c.group = call[k].group
  BY <1>1, <1>3 DEF Requests, Shape
<1>5. c \in Requests
  BY <1>1, <1>4 DEF Requests
<1>6. call' \in [Slots -> Requests]
  BY <1>0, <1>2, <1>3, <1>5 DEF Types
<1>7. order' \in Layouts /\ now' \in Selections
  BY <1>0, <1>1, Obeyed
<1> HIDE DEF c
<1>8. Types'
  BY <1>0, <1>1, <1>6, <1>7 DEF Types, data, window
<1>9. ListingsTrue' /\ PageTrue'
  <2>1. CASE Obeys(call[k])
    <3>1. Renewing(call'[k])
      BY <1>4, <2>1 DEF Obeys, Renewing, c
    <3> QED
      BY <3>1 DEF ListingsTrue, PageTrue
  <2>2. CASE call[k].op = "delay" /\ UNCHANGED kernel
    <3>1. \A j \in Slots : /\ Fresh(call'[j]) <=> Fresh(call[j])
                           /\ Fresh(call[j]) => call'[j] = call[j]
                           /\ Renewing(call[j]) => Renewing(call'[j])
      BY <1>3, <1>4, <2>2 DEF Fresh, Renewing, c
    <3> QED
      BY <1>1, <2>2, <3>1, ListingsKeep DEF IInv
  <2> QED
    BY <1>1, <2>1, <2>2
<1>10. MarksTrue'
  BY <1>1, <1>3, <1>4, MarksKeep DEF IInv, c
<1>11. CursorInSight'
  BY <1>1, WindowKeeps DEF data
<1> QED
  BY <1>8, <1>9, <1>10, <1>11 DEF IInv

LEMMA OthersStep ==
  ASSUME IInv, OthersChange
  PROVE  IInv'
<1>1. Types /\ Aged \in [Slots -> Requests] /\ \A j \in Slots : ~Fresh(Aged[j])
  BY Ages DEF IInv, Types
<1>2. /\ order' \in Layouts /\ now' \in Selections /\ call' = Aged
      /\ testing' = testing /\ testing \subseteq Groups
  <2>1. order \in Layouts /\ now \in Selections
    BY <1>1 DEF Types
  <2>2. ToSet(order) \subseteq Groups
    BY <2>1, ProxiesAssumption DEF ToSet
  <2>3. \A g \in Groups : ToSet(All[g]) \subseteq Nodes
    BY DEF Nodes
  <2>4. ASSUME NEW g \in ToSet(order), NEW n \in ToSet(All[g]),
               now' = [now EXCEPT ![g] = n]
        PROVE  now' \in Selections
    BY <2>1, <2>2, <2>3, <2>4 DEF Selections
  <2> QED
    BY <1>1, <2>1, <2>4 DEF OthersChange, Types
<1>3. MarksTrue'
  BY <1>1, <1>2, MarksKeep, Ages DEF IInv, Types
<1> QED
  BY <1>1, <1>2, <1>3, Interferes DEF OthersChange

\* Refused, given up, or served when it had been given up: slot k is free, or
\* holds an orphan.
LEMMA LostStep ==
  ASSUME IInv, NEW k \in Slots, Fail(k) \/ ServeOrphan(k) \/ TimeOut(k)
  PROVE  IInv'
<1> DEFINE c == call'[k]
<1>0. Types
  BY DEF IInv
<1>1. /\ call[k] \in Requests
      /\ Aged \in [Slots -> Requests] /\ \A j \in Slots : ~Fresh(Aged[j])
  BY <1>0, Ages DEF Types
<1>2. /\ c \in Requests /\ ~Fresh(c) /\ c.op # "delay"
      /\ \A j \in Slots \ {k} : call'[j] = Aged[j]
      /\ call' = [Aged EXCEPT ![k] = c]
      /\ call[k].op = "delay" => c.op = "none"
  <2>1. CASE call' = [Aged EXCEPT ![k] = Free]
    <3>1. c = Free
      BY <1>1, <2>1
    <3> QED
      BY <1>1, <2>1, <3>1, Sent
  <2>2. CASE /\ call' = [Aged EXCEPT ![k] = [call[k] EXCEPT !.at = "orphan"]]
             /\ call[k].op = "select"
    <3>1. c = [call[k] EXCEPT !.at = "orphan"]
      BY <1>1, <2>2
    <3>2. c \in Requests /\ c.op = "select"
      BY <1>1, <2>2, <3>1 DEF Requests, Shape
    <3> QED
      BY <1>1, <2>2, <3>1, <3>2 DEF Fresh
  <2> QED
    BY <2>1, <2>2 DEF Fail, ServeOrphan, TimeOut
<1>3. /\ order' \in Layouts /\ now' \in Selections
      /\ outdated' = TRUE /\ UNCHANGED <<data, window, resized>>
  BY <1>0, <1>1, Obeyed DEF Fail, ServeOrphan, TimeOut
<1>4. \/ call[k].op = "delay" /\ Told(call[k])
      \/ call[k].op # "delay" /\ UNCHANGED testing
  BY <1>1 DEF Fail, ServeOrphan, TimeOut, Requests
<1> HIDE DEF c
<1>5. testing' \subseteq Groups
  BY <1>0, <1>4 DEF Told, Types
<1>6. call' \in [Slots -> Requests] /\ \A j \in Slots : ~Fresh(call'[j])
  BY <1>1, <1>2 DEF c
<1>7. \A j \in Slots \ {k} : call'[j].op = call[j].op /\ call'[j].group = call[j].group
  BY <1>0, <1>2, Ages DEF Types
<1>8. MarksTrue'
  <2>1. CASE call[k].op = "delay"
    BY <1>2, <1>4, <1>7, <2>1, MarksEnd DEF IInv, c
  <2>2. CASE call[k].op # "delay"
    BY <1>2, <1>4, <1>7, <2>2, MarksKeep DEF IInv, c
  <2> QED
    BY <2>1, <2>2
<1> QED
  BY <1>3, <1>5, <1>6, <1>8, Interferes

-----------------------------------------------------------------------------
(* Answers *)

LEMMA LoadedStep ==
  ASSUME IInv, NEW k \in Slots, ProxiesLoaded(k)
  PROVE  IInv'
<1> DEFINE c == call[k]
           n == Len(Rows(c.groups, expanded))
           to == IF cursor < n THEN cursor ELSE 0
<1>0. Types
  BY DEF IInv
<1>1. /\ c \in Requests /\ c.op = "list" /\ c.at = "done"
      /\ Shows(c.groups, expanded, to)
      /\ call' = [call EXCEPT ![k] = Free]
      /\ shown' = c.now /\ UNCHANGED <<kernel, testing>>
  BY <1>0 DEF ProxiesLoaded, Types
<1>2. outdated' = c.old
  BY DEF ProxiesLoaded
<1>3. /\ c.groups \in Orders /\ c.now \in Selections
      /\ expanded \in SUBSET Groups
  BY <1>0, <1>1 DEF Requests, Shape, Types
<1>4. c.old \in BOOLEAN
  BY <1>1 DEF Requests, Shape
<1>5. n \in Nat
  BY <1>3, RowsTyped
<1>6. to \in Nat /\ (n # 0 => to < n)
  BY <1>0, <1>5 DEF Types
<1>7. /\ call' \in [Slots -> Requests]
      /\ call'[k] = Free /\ \A j \in Slots \ {k} : call'[j] = call[j]
  BY <1>0, <1>1, Sent DEF Types
<1> HIDE DEF to, c
<1>8. /\ groups' = c.groups /\ groups' \in Orders /\ expanded' \subseteq Groups
      /\ cursor' \in Nat /\ scrollTop' \in Nat /\ vh' \in Heights
      /\ resized' \in BOOLEAN /\ CursorInSight'
  BY <1>0, <1>1, <1>3, <1>6, InWindow DEF Shows
<1>9. outdated' \in BOOLEAN
  BY <1>2, <1>4
<1>10. Types'
  BY <1>0, <1>1, <1>3, <1>7, <1>8, <1>9 DEF Types, kernel
<1>11. /\ \A j \in Slots : Fresh(call'[j]) => Fresh(call[j]) /\ call'[j] = call[j]
       /\ \A j \in Slots : Renewing(call[j]) => Renewing(call'[j])
  <2>1. ~Renewing(call[k])
    BY <1>1 DEF Renewing, c
  <2> QED
    BY <1>7, <2>1, Sent
<1>12. order' = order /\ now' = now
  BY <1>1 DEF kernel
<1>13. ListingsTrue'
  BY <1>11, <1>12 DEF IInv, ListingsTrue
<1>14. PageTrue'
  <2>1. CASE c.old
    BY <1>2, <2>1 DEF PageTrue
  <2>2. CASE \E j \in Slots : Renewing(call[j])
    BY <1>11, <2>2 DEF PageTrue
  <2>3. CASE ~c.old /\ ~ \E j \in Slots : Renewing(call[j])
    <3>1. Fresh(call[k])
      BY <1>1, <2>3 DEF Fresh, c
    <3>2. c.groups = order /\ c.now = now
      BY <2>3, <3>1 DEF IInv, ListingsTrue, c
    <3> QED
      BY <1>1, <1>8, <1>12, <3>2 DEF PageTrue
  <2> QED
    BY <2>1, <2>2, <2>3
<1>15. MarksTrue'
  <2>1. \A j \in Slots : /\ call'[j].op = "delay" <=> call[j].op = "delay"
                         /\ call[j].op = "delay" => call'[j].group = call[j].group
    BY <1>1, <1>7, Sent DEF c
  <2> QED
    BY <1>1, <2>1, MarksKeep DEF IInv
<1> QED
  BY <1>8, <1>10, <1>13, <1>14, <1>15 DEF IInv

LEMMA OpStep ==
  ASSUME IInv, NEW k \in Slots, OpDone(k)
  PROVE  IInv'
<1>0. Types
  BY DEF IInv
<1>1. /\ List \in Requests /\ List.op = "list" /\ Renewing(List) /\ ~Fresh(List)
  BY Sent DEF List, Renewing
<1>2. /\ call[k].op = "select" /\ call' = [call EXCEPT ![k] = List]
      /\ UNCHANGED <<kernel, data, window, testing, resized, outdated>>
  BY DEF OpDone
<1>3. /\ call' \in [Slots -> Requests]
      /\ call'[k] = List /\ \A j \in Slots \ {k} : call'[j] = call[j]
  BY <1>0, <1>1, <1>2 DEF Types
<1>4. Types'
  BY <1>0, <1>2, <1>3 DEF Types, kernel, data, window
<1>5. ListingsTrue' /\ PageTrue'
  BY <1>1, <1>3 DEF ListingsTrue, PageTrue
<1>6. MarksTrue'
  BY <1>1, <1>2, <1>3, MarksKeep DEF IInv
<1>7. CursorInSight'
  BY <1>2, WindowKeeps DEF data
<1> QED
  BY <1>4, <1>5, <1>6, <1>7 DEF IInv

LEMMA DelayStep ==
  ASSUME IInv, NEW k \in Slots, GroupDelay(k)
  PROVE  IInv'
<1>0. Types
  BY DEF IInv
<1>1. /\ call[k].op = "delay" /\ call[k].at = "done" /\ Told(call[k])
      /\ call' = [call EXCEPT ![k] = Free]
      /\ UNCHANGED <<kernel, data, window, resized, outdated>>
  BY DEF GroupDelay
<1>2. /\ call' \in [Slots -> Requests]
      /\ call'[k] = Free /\ \A j \in Slots \ {k} : call'[j] = call[j]
  BY <1>0, <1>1, Sent DEF Types
<1>3. Types'
  BY <1>0, <1>1, <1>2 DEF Types, kernel, data, window, Told
<1>4. ListingsTrue' /\ PageTrue'
  <2>1. ~Fresh(call[k]) /\ ~Renewing(call[k])
    BY <1>1 DEF Fresh, Renewing
  <2>2. \A j \in Slots : /\ Fresh(call'[j]) <=> Fresh(call[j])
                         /\ Fresh(call[j]) => call'[j] = call[j]
                         /\ Renewing(call[j]) => Renewing(call'[j])
    BY <1>2, <2>1, Sent
  <2> QED
    BY <1>1, <2>2, ListingsKeep DEF IInv
<1>5. MarksTrue'
  BY <1>1, <1>2, MarksEnd, Sent DEF IInv
<1>6. CursorInSight'
  BY <1>1, WindowKeeps DEF data
<1> QED
  BY <1>3, <1>4, <1>5, <1>6 DEF IInv

-----------------------------------------------------------------------------

LEMMA StepInv == IInv /\ [Next]_vars => IInv'
<1> SUFFICES ASSUME IInv, [Next]_vars PROVE IInv'
  OBVIOUS
<1>1. CASE Key
  BY <1>1, KeyStep
<1>2. CASE Server
  BY <1>2, ReadStep, ServeStep, LostStep, OthersStep DEF Server
<1>3. CASE Answer
  BY <1>3, LoadedStep, OpStep, DelayStep, LostStep DEF Answer
<1>4. CASE UNCHANGED vars
  <2>1. UNCHANGED <<kernel, data, window, testing, call, resized, outdated>>
    BY <1>4 DEF vars
  <2>2. Types'
    BY <2>1 DEF IInv, Types, kernel, data, window
  <2>3. ListingsTrue' /\ PageTrue' /\ MarksTrue'
    BY <2>1, ListingsKeep, MarksKeep DEF IInv
  <2>4. CursorInSight'
    BY <2>1, WindowKeeps DEF data
  <2> QED
    BY <2>2, <2>3, <2>4 DEF IInv
<1> QED
  BY <1>1, <1>2, <1>3, <1>4 DEF Next

LEMMA Invariance == Spec => []IInv
BY InitInv, StepInv, PTL DEF Spec

-----------------------------------------------------------------------------

\* The parts of the page fit together, for any groups, heights and number of
\* requests: the cursor is on a row and in sight (adjustScroll), and a group is
\* marked exactly while one test of it is under way (the "d" key, GroupDelayMsg).
THEOREM PartsFit == Spec => []PageOK
<1>1. IInv => TypeOK
  <2> SUFFICES ASSUME IInv PROVE TypeOK
    OBVIOUS
  <2>1. \A k \in Slots : call[k] \in Requests
    BY DEF IInv, Types
  <2>2. \A k \in Slots :
          /\ call[k].op \in {"none", "list", "select", "delay"}
          /\ call[k].at \in {"sent", "done", "orphan"}
          /\ call[k].op \in {"select", "delay"} => call[k].group \in Groups
          /\ call[k].groups \in Layouts \cup {<<>>}
    BY <2>1 DEF Requests, Shape, Orders
  <2> QED
    BY <2>2 DEF IInv, Types, TypeOK, Orders
<1>2. IInv => MarkedWhileTested
  BY DEF IInv, Types, MarksTrue, MarkedWhileTested
<1>3. IInv => PageOK
  BY <1>1, <1>2 DEF IInv, PageOK
<1> QED
  BY <1>3, Invariance, PTL

\* Once every request is answered the tab shows the kernel's groups and what is
\* selected in them (ProxiesLoadedMsg, the ProxyOpMsg of route_msg.go), in
\* whatever order requests were served and answered.
THEOREM AnswersShowTheKernel == Spec => []ShowsTheKernel
<1>1. IInv => ShowsTheKernel
  BY Sent DEF IInv, PageTrue, ShowsTheKernel
<1> QED
  BY <1>1, Invariance, PTL

\* Expanding and collapsing leave the cursor on the same group (the "enter" and
\* "left" keys of tui/pages/proxies), wherever among the rows that group is.
THEOREM KeysKeepTheGroup == Spec => KeepsTheGroup
<1> DEFINE Keeps == expanded' # expanded =>
                      cursor' < Len(rows') /\ Here'.group = Here.group
<1>1. IInv /\ [Next]_vars => [Keeps]_vars
  <2> SUFFICES ASSUME IInv, Next, expanded' # expanded
               PROVE  cursor' < Len(rows') /\ Here'.group = Here.group
    OBVIOUS
  <2>1. ASSUME NEW ex \in SUBSET Groups, NEW c \in Nat, Shows(groups, ex, c),
               c < Len(Rows(groups, ex)),
               Rows(groups, ex)[c + 1].group = Here.group
        PROVE  cursor' < Len(rows') /\ Here'.group = Here.group
    <3>1. groups' = groups /\ expanded' = ex /\ cursor' = c
      BY <2>1 DEF Shows
    <3>2. rows' = Rows(groups, ex)
      BY <3>1 DEF rows
    <3>3. Here' = Rows(groups, ex)[c + 1]
      BY <3>1, <3>2 DEF Here
    <3> QED
      BY <2>1, <3>1, <3>2, <3>3
  <2>2. CASE Toggle
    BY <2>1, <2>2, Toggles DEF IInv, Types
  <2>3. CASE Collapse
    BY <2>1, <2>3, Collapses
  <2>4. CASE Server \/ Answer \/ Switch \/ TestDelay \/ Refresh \/ Resize
    BY <2>4 DEF Server, Answer, Switch, TestDelay, Refresh, Resize, OthersChange,
                Read, Serve, Fail, ServeOrphan, ProxiesLoaded, OpDone, GroupDelay,
                TimeOut, Shows, window
  <2>5. CASE \E delta \in {-1, 1} : MoveCursor(delta)
    BY <2>5 DEF MoveCursor, Shows
  <2> QED
    BY <2>2, <2>3, <2>4, <2>5 DEF Next, Key
<1> QED
  BY <1>1, Invariance, PTL DEF Spec, KeepsTheGroup
=============================================================================
