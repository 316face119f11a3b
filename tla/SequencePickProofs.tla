------------------------- MODULE SequencePickProofs -------------------------
(* What taking entries out of a queue leaves, for every queue.               *)
EXTENDS SequencePick, FiniteSetTheorems, SequenceTheorems, TLAPS

\* Positions of a sequence are finitely many.
LEMMA PositionsFinite ==
  ASSUME NEW n \in Nat, NEW K \in SUBSET (1 .. n)
  PROVE  /\ IsFiniteSet(K) /\ Cardinality(K) \in Nat /\ Cardinality(K) <= n
         /\ (Cardinality(K) = 0 <=> K = {})
         /\ (Cardinality(K) = n <=> K = 1 .. n)
<1>1. IsFiniteSet(1 .. n) /\ Cardinality(1 .. n) = n
  BY FS_Interval
<1>2. /\ IsFiniteSet(K) /\ Cardinality(K) <= n
      /\ (Cardinality(1 .. n) = Cardinality(K) => K = 1 .. n)
  BY <1>1, FS_Subset
<1> QED BY <1>1, <1>2, FS_CardinalityType, FS_EmptySet

\* Different positions have different ranks, from 1 on and in their order.
LEMMA RankFacts ==
  ASSUME NEW n \in Nat, NEW K \in SUBSET (1 .. n)
  PROVE  /\ \A k \in K : Rank(K, k) \in 1 .. Cardinality(K)
         /\ \A j, k \in K : j < k => Rank(K, j) < Rank(K, k)
<1>1. /\ IsFiniteSet(K) /\ Cardinality(K) \in Nat
  BY PositionsFinite
<1>2. ASSUME NEW k \in K PROVE Rank(K, k) \in 1 .. Cardinality(K)
  <2> DEFINE S == { j \in K : j <= k }
  <2>1. S \in SUBSET K /\ k \in S
    BY <1>2
  <2>2. IsFiniteSet(S) /\ Cardinality(S) \in Nat /\ Cardinality(S) <= Cardinality(K)
    BY <2>1, <1>1, FS_Subset, FS_CardinalityType
  <2>3. Cardinality(S) # 0
    BY <2>1, <2>2, FS_EmptySet
  <2>4. Rank(K, k) = Cardinality(S)
    BY DEF Rank
  <2> HIDE DEF S
  <2> QED BY <2>2, <2>3, <2>4, <1>1
<1>3. ASSUME NEW j \in K, NEW k \in K, j < k PROVE Rank(K, j) < Rank(K, k)
  <2> DEFINE S == { i \in K : i <= j }
             T == { i \in K : i <= k }
  <2>1. S \in SUBSET T /\ T \in SUBSET K /\ k \in T /\ k \notin S
    <3>1. \A i \in K : i \in Int
      OBVIOUS
    <3>2. \A i \in K : i <= j => i <= k
      BY <1>3, <3>1
    <3>3. k <= k /\ ~ (k <= j)
      BY <1>3, <3>1
    <3> QED BY <3>2, <3>3, Zenon
  <2>2. IsFiniteSet(T) /\ IsFiniteSet(S)
    BY <2>1, <1>1, FS_Subset
  <2>3. /\ Cardinality(S) <= Cardinality(T) /\ Cardinality(S) # Cardinality(T)
        /\ Cardinality(S) \in Nat /\ Cardinality(T) \in Nat
    BY <2>1, <2>2, FS_Subset, FS_CardinalityType
  <2>4. Rank(K, j) = Cardinality(S) /\ Rank(K, k) = Cardinality(T)
    BY DEF Rank
  <2> HIDE DEF S, T
  <2> QED BY <2>3, <2>4
<1> QED BY <1>2, <1>3

\* The positions that are picked, first to last.
Order(K) == [i \in 1 .. Cardinality(K) |-> CHOOSE k \in K : Rank(K, k) = i]

\* Every rank up to the number of positions is the rank of one.
LEMMA OrderFacts ==
  ASSUME NEW n \in Nat, NEW K \in SUBSET (1 .. n)
  PROVE  /\ Order(K) \in Bijection(1 .. Cardinality(K), K)
         /\ \A i \in 1 .. Cardinality(K) : Rank(K, Order(K)[i]) = i
         /\ \A i, j \in 1 .. Cardinality(K) : i < j => Order(K)[i] < Order(K)[j]
<1> DEFINE c == Cardinality(K)
           r == [k \in K |-> Rank(K, k)]
<1>1. IsFiniteSet(K) /\ c \in Nat
  BY PositionsFinite
<1>2. IsFiniteSet(1 .. c) /\ Cardinality(1 .. c) = c
  BY <1>1, FS_Interval
<1>3. r \in [K -> 1 .. c]
  BY RankFacts
<1>4. \A j, k \in K : j # k => Rank(K, j) # Rank(K, k)
  <2> TAKE j, k \in K
  <2>1. /\ Rank(K, j) \in 1 .. c /\ Rank(K, k) \in 1 .. c
        /\ (j < k => Rank(K, j) < Rank(K, k)) /\ (k < j => Rank(K, k) < Rank(K, j))
    BY RankFacts, Zenon
  <2>2. j \in Int /\ k \in Int
    OBVIOUS
  <2> HIDE DEF c
  <2> QED BY <2>1, <2>2, <1>1
<1>5. r \in Injection(K, 1 .. c)
  BY <1>3, <1>4 DEF Injection, IsInjective
<1>6. r \in Surjection(K, 1 .. c)
  BY <1>5, <1>2, FS_Injection, Zenon
<1>7. \A i \in 1 .. c : \E k \in K : Rank(K, k) = i
  BY <1>6 DEF Surjection
<1>8. \A i \in 1 .. c : Order(K)[i] \in K /\ Rank(K, Order(K)[i]) = i
  BY <1>7 DEF Order
<1>9. Order(K) \in [1 .. c -> K]
  BY <1>8 DEF Order
<1>10. \A k \in K : Rank(K, k) \in 1 .. c /\ Order(K)[Rank(K, k)] = k
  <2> TAKE k \in K
  <2>1. Rank(K, k) \in 1 .. c
    BY RankFacts
  <2>2. Order(K)[Rank(K, k)] \in K /\ Rank(K, Order(K)[Rank(K, k)]) = Rank(K, k)
    BY <2>1, <1>8
  <2> QED BY <2>1, <2>2, <1>4
<1> HIDE DEF c
<1>11. \A i, j \in 1 .. c : i # j => Order(K)[i] # Order(K)[j]
  BY <1>8
<1>12. Order(K) \in Bijection(1 .. c, K)
  BY <1>9, <1>10, <1>11 DEF Bijection, Injection, IsInjective, Surjection
<1>13. \A i, j \in 1 .. c : i < j => Order(K)[i] < Order(K)[j]
  <2> TAKE i, j \in 1 .. c
  <2>1. Order(K)[i] \in K /\ Order(K)[j] \in K /\ Rank(K, Order(K)[i]) = i /\ Rank(K, Order(K)[j]) = j
    BY <1>8
  <2>2. ASSUME i < j PROVE Order(K)[i] < Order(K)[j]
    <3>1. Order(K)[j] < Order(K)[i] => j < i
      BY <2>1, RankFacts
    <3>2. Order(K)[i] # Order(K)[j]
      BY <2>2, <1>11, <1>1
    <3>3. \A k \in K : k \in Int
      OBVIOUS
    <3>4. Order(K)[i] \in Int /\ Order(K)[j] \in Int
      BY <2>1, <3>3, Zenon
    <3> QED BY <3>1, <3>2, <3>4, <2>2, <1>1
  <2> QED BY <2>2
<1> QED BY <1>8, <1>12, <1>13 DEF c
\* What is picked, and from where.
LEMMA PickFacts ==
  ASSUME NEW S, NEW q \in Seq(S), NEW K \in SUBSET (1 .. Len(q))
  PROVE  /\ Cardinality(K) \in Nat /\ Cardinality(K) <= Len(q)
         /\ Pick(q, K) \in Seq(S) /\ Len(Pick(q, K)) = Cardinality(K)
         /\ \A i \in 1 .. Cardinality(K) : /\ Order(K)[i] \in K
                                           /\ Pick(q, K)[i] = q[Order(K)[i]]
<1>1. Len(q) \in Nat /\ \A k \in K : q[k] \in S
  OBVIOUS
<1>2. Cardinality(K) \in Nat /\ Cardinality(K) <= Len(q)
  BY <1>1, PositionsFinite
<1>3. Order(K) \in [1 .. Cardinality(K) -> K]
  BY <1>1, OrderFacts DEF Bijection, Injection
<1>4. Pick(q, K) = [i \in 1 .. Cardinality(K) |-> q[Order(K)[i]]]
  BY DEF Pick, Order
<1> HIDE DEF Order
<1>5. \A i \in 1 .. Cardinality(K) : Order(K)[i] \in K
  BY <1>3
<1>6. Pick(q, K) \in [1 .. Cardinality(K) -> S]
  BY <1>1, <1>4, <1>5
<1> QED BY <1>2, <1>4, <1>5, <1>6

\* How many entries of a queue are of a kind.
Tally(q, V) == Cardinality({ i \in 1 .. Len(q) : q[i] \in V })

\* A count is a number, and 0 when there is no such entry.
LEMMA TallyType ==
  ASSUME NEW S, NEW q \in Seq(S), NEW V
  PROVE  /\ Tally(q, V) \in Nat /\ Tally(q, V) <= Len(q)
         /\ (Tally(q, V) = 0 <=> \A i \in 1 .. Len(q) : q[i] \notin V)
         /\ (Tally(q, V) = Len(q) <=> \A i \in 1 .. Len(q) : q[i] \in V)
<1> DEFINE K == { i \in 1 .. Len(q) : q[i] \in V }
<1>1. Len(q) \in Nat /\ K \in SUBSET (1 .. Len(q))
  OBVIOUS
<1>2. /\ Cardinality(K) \in Nat /\ Cardinality(K) <= Len(q)
      /\ (Cardinality(K) = 0 <=> K = {}) /\ (Cardinality(K) = Len(q) <=> K = 1 .. Len(q))
  <2> HIDE DEF K
  <2> QED BY <1>1, PositionsFinite
<1>3. K = {} <=> \A i \in 1 .. Len(q) : q[i] \notin V
  OBVIOUS
<1>4. K = 1 .. Len(q) <=> \A i \in 1 .. Len(q) : q[i] \in V
  OBVIOUS
<1> HIDE DEF K
<1>5. Tally(q, V) = Cardinality(K)
  BY DEF Tally, K
<1> QED BY <1>2, <1>3, <1>4, <1>5

\* Two different entries of a kind count twice.
LEMMA TallyTwo ==
  ASSUME NEW S, NEW q \in Seq(S), NEW V, Tally(q, V) <= 1,
         NEW i \in 1 .. Len(q), NEW j \in 1 .. Len(q), q[i] \in V, q[j] \in V
  PROVE  i = j
<1> DEFINE K == { k \in 1 .. Len(q) : q[k] \in V }
<1>1. Len(q) \in Nat /\ K \in SUBSET (1 .. Len(q)) /\ i \in K /\ j \in K
  OBVIOUS
<1>2. IsFiniteSet(K) /\ Cardinality(K) \in Nat /\ Cardinality(K) # 0
  BY <1>1, PositionsFinite
<1>3. Cardinality(K) = 1
  BY <1>2 DEF Tally
<1>4. \E x : K = {x}
  BY <1>2, <1>3, FS_Singleton
<1> HIDE DEF K
<1> QED BY <1>1, <1>4

\* The members of A that f takes to P.
Preimage(f, A, P) == { a \in A : f[a] \in P }
PartOf(P, B) == P \subseteq B

\* Positions that correspond are as many.
LEMMA TallyMapped ==
  ASSUME NEW A, NEW B, NEW f \in Bijection(A, B), IsFiniteSet(A), NEW P, PartOf(P, B)
  PROVE  IsFiniteSet(P) /\ Cardinality(Preimage(f, A, P)) = Cardinality(P)
<1> DEFINE D == Preimage(f, A, P)
           g == [a \in D |-> f[a]]
<1>1. f \in [A -> B] /\ (\A a, b \in A : f[a] = f[b] => a = b) /\ (\A b \in B : \E a \in A : f[a] = b)
  BY DEF Bijection, Injection, Surjection, IsInjective
<1> USE DEF Preimage, PartOf
<1>2. D \in SUBSET A /\ g \in [D -> P]
  BY <1>1
<1>3. \A b \in P : \E a \in D : g[a] = b
  BY <1>1
<1>4. \A a, b \in D : g[a] = g[b] => a = b
  BY <1>1
<1>5. g \in Bijection(D, P)
  BY <1>2, <1>3, <1>4 DEF Bijection, Injection, Surjection, IsInjective
<1>6. IsFiniteSet(D)
  BY <1>2, FS_Subset
<1>7. ExistsBijection(D, P)
  BY <1>5 DEF ExistsBijection
<1> HIDE DEF D, g
<1>8. IsFiniteSet(P) /\ Cardinality(P) = Cardinality(D)
  BY <1>6, <1>7, FS_Bijection
<1> QED BY <1>8 DEF D

\* What is picked of a kind is what was at those positions.
LEMMA PickTally ==
  ASSUME NEW S, NEW q \in Seq(S), NEW K \in SUBSET (1 .. Len(q)), NEW V
  PROVE  Tally(Pick(q, K), V) = Cardinality({ k \in K : q[k] \in V })
<1> DEFINE c == Cardinality(K)
           P == { k \in K : q[k] \in V }
           f == Order(K)
<1>1. Len(q) \in Nat /\ c \in Nat
  BY PickFacts
<1>2. f \in Bijection(1 .. c, K)
  BY <1>1, OrderFacts
<1>3. IsFiniteSet(1 .. c)
  BY <1>1, FS_Interval
<1>4. Cardinality({ a \in 1 .. c : f[a] \in P }) = Cardinality(P)
  <2>1. PartOf(P, K)
    BY Zenon DEF PartOf
  <2> HIDE DEF P, f, c
  <2>2. Cardinality(Preimage(f, 1 .. c, P)) = Cardinality(P)
    BY <2>1, <1>2, <1>3, TallyMapped
  <2> QED BY <2>2, Zenon DEF Preimage
<1>5. \A a \in 1 .. c : f[a] \in P <=> Pick(q, K)[a] \in V
  BY PickFacts
<1>6. { a \in 1 .. c : f[a] \in P } = { a \in 1 .. c : Pick(q, K)[a] \in V }
  BY <1>5
<1>7. Len(Pick(q, K)) = c
  BY PickFacts
<1> QED BY <1>4, <1>6, <1>7 DEF Tally

\* What is picked and what is left make up the queue.
LEMMA PickSplits ==
  ASSUME NEW S, NEW q \in Seq(S), NEW K \in SUBSET (1 .. Len(q)), NEW V
  PROVE  Tally(q, V) = Tally(Pick(q, K), V) + Cardinality({ k \in (1 .. Len(q)) \ K : q[k] \in V })
<1> DEFINE A == { k \in 1 .. Len(q) : q[k] \in V }
           B == { k \in K : q[k] \in V }
           C == { k \in (1 .. Len(q)) \ K : q[k] \in V }
<1>1. Len(q) \in Nat /\ B \in SUBSET (1 .. Len(q)) /\ C \in SUBSET (1 .. Len(q))
  <2>1. Len(q) \in Nat
    OBVIOUS
  <2>2. B \in SUBSET (1 .. Len(q))
    BY Zenon
  <2>3. C \in SUBSET (1 .. Len(q))
    BY Zenon
  <2> QED BY <2>1, <2>2, <2>3
<1>2. IsFiniteSet(B) /\ IsFiniteSet(C) /\ Cardinality(B) \in Nat /\ Cardinality(C) \in Nat
  BY <1>1, PositionsFinite
<1>3. B \cup C = A /\ B \cap C = {}
  OBVIOUS
<1>4. Tally(q, V) = Cardinality(A) /\ Tally(Pick(q, K), V) = Cardinality(B)
  <2>1. Tally(q, V) = Cardinality(A)
    BY Zenon DEF Tally
  <2>2. Tally(Pick(q, K), V) = Cardinality(B)
    BY PickTally
  <2> QED BY <2>1, <2>2
<1> HIDE DEF A, B, C
<1>5. Cardinality(A) = Cardinality(B) + Cardinality(C) - 0
  BY <1>2, <1>3, FS_Union, FS_EmptySet
<1>6. Tally(q, V) = Tally(Pick(q, K), V) + Cardinality(C)
  BY <1>2, <1>4, <1>5
<1> QED BY <1>6 DEF C
\* The entries of two queues put together.
LEMMA ConcatTally ==
  ASSUME NEW S, NEW q \in Seq(S), NEW r \in Seq(S), NEW V
  PROVE  q \o r \in Seq(S) /\ Tally(q \o r, V) = Tally(q, V) + Tally(r, V)
<1> DEFINE m == Len(q)
           n == Len(r)
           t == q \o r
           A == { i \in 1 .. m : q[i] \in V }
           B == { i \in 1 .. n : r[i] \in V }
           C == { i \in m + 1 .. m + n : t[i] \in V }
           f == [i \in m + 1 .. m + n |-> i - m]
<1>1. m \in Nat /\ n \in Nat
  OBVIOUS
<1>2. /\ t \in Seq(S) /\ Len(t) = m + n
      /\ \A i \in 1 .. m + n : t[i] = IF i <= m THEN q[i] ELSE r[i - m]
  BY ConcatProperties, Zenon
<1> HIDE DEF m, n, t
<1>3. /\ f \in [m + 1 .. m + n -> 1 .. n]
      /\ \A i, j \in m + 1 .. m + n : f[i] = f[j] => i = j
  BY <1>1
<1>4. ASSUME NEW j \in 1 .. n PROVE \E i \in m + 1 .. m + n : f[i] = j
  <2>1. m + j \in m + 1 .. m + n /\ f[m + j] = j
    BY <1>1, <1>4
  <2> QED BY <2>1
<1>5. f \in Bijection(m + 1 .. m + n, 1 .. n)
  BY <1>3, <1>4 DEF Bijection, Injection, Surjection, IsInjective
<1>6. /\ IsFiniteSet(m + 1 .. m + n)
      /\ A \in SUBSET (1 .. m)
      /\ C \in SUBSET (1 .. m + n)
  BY <1>1, FS_Interval
<1>7. PartOf(B, 1 .. n)
  BY DEF PartOf
<1>8. Preimage(f, m + 1 .. m + n, B) = C
  <2>1. ASSUME NEW i \in m + 1 .. m + n PROVE f[i] \in B <=> t[i] \in V
    <3>1. f[i] = i - m /\ f[i] \in 1 .. n /\ t[i] = r[i - m]
      BY <2>1, <1>1, <1>2
    <3> QED BY <3>1
  <2> HIDE DEF f, B
  <2> QED BY <2>1, Zenon DEF Preimage
<1>9. Cardinality(C) = Cardinality(B)
  <2> HIDE DEF f, B, C
  <2> QED BY <1>5, <1>6, <1>7, <1>8, TallyMapped
<1>10. { i \in 1 .. m + n : t[i] \in V } = A \cup C /\ A \cap C = {}
  <2>1. \A i : i \in 1 .. m + n <=> i \in 1 .. m \/ i \in m + 1 .. m + n
    BY <1>1
  <2>2. \A i : ~ (i \in 1 .. m /\ i \in m + 1 .. m + n)
    BY <1>1
  <2>3. \A i \in 1 .. m : t[i] = q[i]
    BY <1>1, <1>2
  <2> QED BY <2>1, <2>2, <2>3, Zenon
<1>11. IsFiniteSet(A) /\ IsFiniteSet(C) /\ Cardinality(A) \in Nat /\ Cardinality(C) \in Nat
  <2> HIDE DEF A, C
  <2> QED BY <1>1, <1>6, PositionsFinite
<1> HIDE DEF A, B, C, f
<1>12. Cardinality(A \cup C) = Cardinality(A) + Cardinality(C)
  <2>1. Cardinality(A \cup C) = Cardinality(A) + Cardinality(C) - Cardinality(A \cap C)
    BY <1>11, FS_Union
  <2>2. Cardinality(A \cap C) = 0
    BY <1>10, FS_EmptySet, Zenon
  <2> QED BY <2>1, <2>2, <1>11
<1>13. /\ Tally(q, V) = Cardinality(A) /\ Tally(r, V) = Cardinality(B)
       /\ Tally(t, V) = Cardinality(A \cup C)
  BY <1>2, <1>10, Zenon DEF Tally, A, B, m, n
<1> QED BY <1>2, <1>9, <1>12, <1>13 DEF t

\* One entry counts 1 or 0.
LEMMA OneTally ==
  ASSUME NEW e, NEW V
  PROVE  Tally(<<e>>, V) = IF e \in V THEN 1 ELSE 0
<1>1. <<e>> \in Seq({e}) /\ Len(<<e>>) = 1 /\ <<e>>[1] = e /\ 1 .. 1 = {1}
  OBVIOUS
<1>2. Tally(<<e>>, V) \in Nat /\ Tally(<<e>>, V) <= 1
      /\ (Tally(<<e>>, V) = 0 <=> \A i \in {1} : <<e>>[i] \notin V)
  BY <1>1, TallyType
<1> QED BY <1>1, <1>2

\* No entry, no count.
LEMMA NoTally == ASSUME NEW V PROVE Tally(<<>>, V) = 0
<1>1. <<>> \in Seq({}) /\ Len(<<>>) = 0 /\ 1 .. 0 = {}
  OBVIOUS
<1>2. { i \in 1 .. Len(<<>>) : <<>>[i] \in V } = {}
  BY <1>1
<1> QED BY <1>2, FS_EmptySet DEF Tally

\* An entry at the end, at the head, and taken from the head or the end.
LEMMA AppendTally ==
  ASSUME NEW S, NEW q \in Seq(S), NEW e \in S, NEW V
  PROVE  /\ Append(q, e) \in Seq(S) /\ Len(Append(q, e)) = Len(q) + 1
         /\ Tally(Append(q, e), V) = Tally(q, V) + IF e \in V THEN 1 ELSE 0
<1> DEFINE o == <<e>>
<1>1. Append(q, e) = q \o o /\ o \in Seq(S) /\ Len(Append(q, e)) = Len(q) + 1
  OBVIOUS
<1>2. Tally(o, V) = IF e \in V THEN 1 ELSE 0
  BY OneTally
<1> HIDE DEF o
<1>3. q \o o \in Seq(S) /\ Tally(q \o o, V) = Tally(q, V) + Tally(o, V)
  BY <1>1, ConcatTally
<1> QED BY <1>1, <1>2, <1>3

\* Taking the head off a sequence takes it off the tally.
LEMMA TailTally ==
  ASSUME NEW S, NEW q \in Seq(S), q # <<>>, NEW V
  PROVE  /\ Head(q) \in S /\ Tail(q) \in Seq(S) /\ Len(Tail(q)) = Len(q) - 1
         /\ Tally(q, V) = Tally(Tail(q), V) + IF Head(q) \in V THEN 1 ELSE 0
<1> DEFINE o == <<Head(q)>>
           t == Tail(q)
<1>1. /\ q = o \o t /\ o \in Seq(S) /\ Head(q) \in S
      /\ t \in Seq(S) /\ Len(t) = Len(q) - 1
  OBVIOUS
<1>2. Tally(o, V) = IF Head(q) \in V THEN 1 ELSE 0
  BY OneTally
<1> HIDE DEF o, t
<1>3. Tally(o \o t, V) = Tally(o, V) + Tally(t, V)
  BY <1>1, ConcatTally
<1>4. Tally(t, V) \in Nat
  BY <1>1, TallyType
<1> DEFINE h == Head(q) \in V
<1>5. h \in BOOLEAN
  OBVIOUS
<1> HIDE DEF h
<1>6. Tally(q, V) = Tally(t, V) + IF h THEN 1 ELSE 0
  BY <1>1, <1>2, <1>3, <1>4 DEF h
<1> QED BY <1>1, <1>6 DEF t, h

\* Taking the last entry off a sequence takes it off the tally.
LEMMA FrontTally ==
  ASSUME NEW S, NEW q \in Seq(S), q # <<>>, NEW V
  PROVE  /\ q[Len(q)] \in S /\ SubSeq(q, 1, Len(q) - 1) \in Seq(S)
         /\ Len(SubSeq(q, 1, Len(q) - 1)) = Len(q) - 1
         /\ \A i \in 1 .. Len(q) - 1 : SubSeq(q, 1, Len(q) - 1)[i] = q[i]
         /\ Tally(q, V) = Tally(SubSeq(q, 1, Len(q) - 1), V) + IF q[Len(q)] \in V THEN 1 ELSE 0
<1> DEFINE f == SubSeq(q, 1, Len(q) - 1)
<1>1. /\ q[Len(q)] \in S /\ Len(q) \in Nat \ {0}
  OBVIOUS
<1>2. /\ f \in Seq(S) /\ Len(f) = Len(q) - 1
      /\ \A i \in 1 .. Len(q) - 1 : f[i] = q[i]
  <2>1. \A i \in 1 .. Len(q) - 1 : i \in 1 .. Len(q)
    BY <1>1
  <2>2. f \in Seq(S) /\ Len(f) = Len(q) - 1
    <3> DEFINE n == Len(q) - 1
    <3>1. n \in Int /\ n >= 0 /\ \A i \in 1 .. n : q[i] \in S
      BY <1>1, <2>1
    <3> HIDE DEF n
    <3>2. SubSeq(q, 1, n) \in Seq(S) /\ Len(SubSeq(q, 1, n)) = IF 1 <= n THEN n - 1 + 1 ELSE 0
      BY <3>1, SubSeqProperties
    <3>3. Len(SubSeq(q, 1, n)) = n
      BY <3>1, <3>2
    <3> QED BY <3>2, <3>3, Zenon DEF n
  <2>3. \A i \in 1 .. Len(q) - 1 : f[i] = q[i]
    BY <1>1
  <2> QED BY <2>2, <2>3
<1> HIDE DEF f
<1>3. q = Append(f, q[Len(q)])
  <2> DEFINE g == Append(f, q[Len(q)])
  <2>1. g \in Seq(S) /\ Len(g) = Len(q) /\ g[Len(q)] = q[Len(q)]
        /\ \A i \in 1 .. Len(q) - 1 : g[i] = f[i]
    BY <1>1, <1>2
  <2>2. \A i \in 1 .. Len(q) : i \in 1 .. Len(q) - 1 \/ i = Len(q)
    BY <1>1
  <2> HIDE DEF g
  <2>3. \A i \in 1 .. Len(q) : g[i] = q[i]
    BY <1>2, <2>1, <2>2
  <2>4. g = q
    BY <2>1, <2>3, SeqEqual
  <2> QED BY <2>4 DEF g
<1>4. Tally(Append(f, q[Len(q)]), V) = Tally(f, V) + IF q[Len(q)] \in V THEN 1 ELSE 0
  BY <1>1, <1>2, AppendTally
<1> QED BY <1>1, <1>2, <1>3, <1>4 DEF f

\* One entry is replaced.
LEMMA ExceptTally ==
  ASSUME NEW S, NEW q \in Seq(S), NEW i \in 1 .. Len(q), NEW e \in S, NEW V
  PROVE  /\ [q EXCEPT ![i] = e] \in Seq(S) /\ Len([q EXCEPT ![i] = e]) = Len(q)
         /\ Tally([q EXCEPT ![i] = e], V)
               = Tally(q, V) - (IF q[i] \in V THEN 1 ELSE 0) + IF e \in V THEN 1 ELSE 0
<1> DEFINE r == [q EXCEPT ![i] = e]
           A == { k \in 1 .. Len(q) : q[k] \in V }
           B == { k \in 1 .. Len(q) : r[k] \in V }
<1>1. Len(q) \in Nat /\ r \in Seq(S) /\ Len(r) = Len(q) /\ r[i] = e
      /\ \A k \in 1 .. Len(q) : k # i => r[k] = q[k]
  OBVIOUS
<1> HIDE DEF r
<1>2. A \in SUBSET (1 .. Len(q)) /\ B \in SUBSET (1 .. Len(q)) /\ A \ {i} = B \ {i}
  BY <1>1
<1>3. (i \in A <=> q[i] \in V) /\ (i \in B <=> e \in V)
  BY <1>1
<1>4. Tally(q, V) = Cardinality(A) /\ Tally(r, V) = Cardinality(B)
  BY <1>1, Zenon DEF Tally
<1> HIDE DEF A, B
<1>5. IsFiniteSet(A) /\ IsFiniteSet(B) /\ Cardinality(A) \in Nat /\ Cardinality(B) \in Nat
  BY <1>1, <1>2, PositionsFinite
<1>6. /\ Cardinality(A \ {i}) = IF i \in A THEN Cardinality(A) - 1 ELSE Cardinality(A)
      /\ Cardinality(B \ {i}) = IF i \in B THEN Cardinality(B) - 1 ELSE Cardinality(B)
  BY <1>5, FS_RemoveElement
<1>7. Tally(r, V) = Tally(q, V) - (IF q[i] \in V THEN 1 ELSE 0) + IF e \in V THEN 1 ELSE 0
  <2> DEFINE a == i \in A
             b == i \in B
  <2>1. (IF q[i] \in V THEN 1 ELSE 0) = (IF a THEN 1 ELSE 0)
    BY <1>3
  <2>2. (IF e \in V THEN 1 ELSE 0) = (IF b THEN 1 ELSE 0)
    BY <1>3
  <2>3. (IF a THEN Cardinality(A) - 1 ELSE Cardinality(A)) = (IF b THEN Cardinality(B) - 1 ELSE Cardinality(B))
    BY <1>2, <1>6
  <2> HIDE DEF a, b
  <2>4. Cardinality(B) = Cardinality(A) - (IF a THEN 1 ELSE 0) + IF b THEN 1 ELSE 0
    BY <1>5, <2>3
  <2> QED BY <1>4, <2>1, <2>2, <2>4
<1> QED BY <1>1, <1>7 DEF r
\* The last entry stays the last if it is picked.
LEMMA PickLast ==
  ASSUME NEW S, NEW q \in Seq(S), NEW K \in SUBSET (1 .. Len(q)), Len(q) \in K
  PROVE  Pick(q, K) # <<>> /\ Pick(q, K)[Len(Pick(q, K))] = q[Len(q)]
<1> DEFINE c == Cardinality(K)
           n == Len(q)
           o == Order(K)
<1>1. n \in Nat /\ c \in Nat /\ n \in K
  BY PickFacts
<1>2. /\ \A i \in 1 .. c : o[i] \in K
      /\ \A k \in K : \E i \in 1 .. c : o[i] = k
      /\ \A i, j \in 1 .. c : i < j => o[i] < o[j]
  <2>1. o \in Bijection(1 .. c, K) /\ \A i, j \in 1 .. c : i < j => o[i] < o[j]
    BY <1>1, OrderFacts
  <2> HIDE DEF o, c
  <2> QED BY <2>1 DEF Bijection, Injection, Surjection
<1>3. \A k \in K : k <= n /\ k \in Int
  BY <1>1
<1> HIDE DEF o, n, c
<1>4. PICK i \in 1 .. c : o[i] = n
  BY <1>1, <1>2
<1>5. c \in 1 .. c /\ i <= c
  BY <1>1, <1>4
<1>6. i = c
  <2>1. CASE i < c
    <3>1. o[i] < o[c] /\ o[c] \in K
      BY <2>1, <1>2, <1>5
    <3>2. o[c] <= n /\ o[c] \in Int
      BY <3>1, <1>3
    <3> QED BY <3>1, <3>2, <1>1, <1>4
  <2> QED BY <2>1, <1>1, <1>4, <1>5
<1>7. Len(Pick(q, K)) = c /\ Pick(q, K)[c] = q[o[c]] /\ Pick(q, K) \in Seq(S)
  BY <1>5, PickFacts DEF c, o
<1>8. Pick(q, K) # <<>>
  BY <1>1, <1>5, <1>7
<1> QED BY <1>4, <1>6, <1>7, <1>8 DEF n
\* How many entries of a kind are at these positions.
CountAt(q, F, V) == Cardinality({ k \in F : q[k] \in V })

\* Taking entries out at F leaves as many fewer of a kind as were at F.
LEMMA LeftTally ==
  ASSUME NEW S, NEW q \in Seq(S), NEW F \in SUBSET (1 .. Len(q)), NEW V
  PROVE  /\ Pick(q, (1 .. Len(q)) \ F) \in Seq(S)
         /\ CountAt(q, F, V) \in Nat
         /\ Tally(Pick(q, (1 .. Len(q)) \ F), V)
               = Tally(q, V) - CountAt(q, F, V)
<1> DEFINE K == (1 .. Len(q)) \ F
           C == { k \in F : q[k] \in V }
           p == Pick(q, K)
<1>1. K \in SUBSET (1 .. Len(q)) /\ (1 .. Len(q)) \ K = F /\ Len(q) \in Nat
      /\ C \in SUBSET (1 .. Len(q))
  BY Zenon, LenProperties
<1>2. p \in Seq(S)
  <2> HIDE DEF K
  <2> QED BY <1>1, PickFacts
<1>3. Cardinality(C) \in Nat
  <2> HIDE DEF C
  <2> QED BY <1>1, PositionsFinite
<1>4. Tally(q, V) = Tally(p, V) + Cardinality(C)
  <2>1. Tally(q, V) = Tally(p, V) + Cardinality({ k \in (1 .. Len(q)) \ K : q[k] \in V })
    <3> HIDE DEF K
    <3> QED BY <1>1, PickSplits
  <2> QED BY <1>1, <2>1
<1>5. Tally(p, V) \in Nat /\ Tally(q, V) \in Nat
  <2> HIDE DEF p
  <2> QED BY <1>2, TallyType
<1> HIDE DEF K, C, p
<1>6. p \in Seq(S) /\ Cardinality(C) \in Nat /\ Tally(p, V) = Tally(q, V) - Cardinality(C)
  BY <1>2, <1>3, <1>4, <1>5
<1> QED BY <1>6 DEF K, C, p, CountAt

\* A queue cut before a position: both parts have together what is picked.
LEMMA CutTally ==
  ASSUME NEW S, NEW q \in Seq(S), NEW K \in SUBSET (1 .. Len(q)), NEW at \in Int, NEW V
  PROVE  /\ { k \in K : k < at } \in SUBSET (1 .. Len(q))
         /\ { k \in K : k >= at } \in SUBSET (1 .. Len(q))
         /\ Tally(Pick(q, { k \in K : k < at }), V) + Tally(Pick(q, { k \in K : k >= at }), V)
               = Tally(Pick(q, K), V)
<1> DEFINE A == { k \in K : k < at }
           B == { k \in K : k >= at }
           a == { k \in A : q[k] \in V }
           b == { k \in B : q[k] \in V }
           c == { k \in K : q[k] \in V }
<1>1. A \in SUBSET (1 .. Len(q)) /\ B \in SUBSET (1 .. Len(q)) /\ Len(q) \in Nat
      /\ a \in SUBSET (1 .. Len(q)) /\ b \in SUBSET (1 .. Len(q)) 
  BY Zenon, LenProperties
<1>2. a \cup b = c /\ a \cap b = {}
  <2>1. \A k \in K : k < at <=> ~ k >= at
    OBVIOUS
  <2> QED BY <2>1, Zenon
<1>3. /\ IsFiniteSet(a) /\ IsFiniteSet(b) /\ Cardinality(a) \in Nat /\ Cardinality(b) \in Nat
  <2> HIDE DEF a, b
  <2> QED BY <1>1, PositionsFinite
<1>4. /\ Tally(Pick(q, A), V) = Cardinality(a) /\ Tally(Pick(q, B), V) = Cardinality(b)
      /\ Tally(Pick(q, K), V) = Cardinality(c)
  <2> HIDE DEF A, B
  <2> QED BY <1>1, PickTally
<1> HIDE DEF a, b, c, A, B
<1>5. Cardinality(c) = Cardinality(a) + Cardinality(b)
  <2>1. Cardinality(c) = Cardinality(a) + Cardinality(b) - Cardinality(a \cap b)
    BY <1>2, <1>3, FS_Union
  <2>2. Cardinality(a \cap b) = 0
    BY <1>2, FS_EmptySet, Zenon
  <2> QED BY <1>3, <2>1, <2>2
<1>6. A \in SUBSET (1 .. Len(q)) /\ B \in SUBSET (1 .. Len(q))
      /\ Tally(Pick(q, A), V) + Tally(Pick(q, B), V) = Tally(Pick(q, K), V)
  BY <1>1, <1>4, <1>5
<1> QED BY <1>6 DEF A, B

\* Each entry stands to every later one as R says.
Chain(q, R) == \A i, j \in 1 .. Len(q) : i < j => <<q[i], q[j]>> \in R

\* What is picked is in the order of the queue, and from the positions given.
LEMMA PickChain ==
  ASSUME NEW S, NEW q \in Seq(S), NEW K \in SUBSET (1 .. Len(q)), NEW R,
         \A i, j \in K : i < j => <<q[i], q[j]>> \in R
  PROVE  Chain(Pick(q, K), R)
<1> DEFINE p == Pick(q, K)
           o == Order(K)
<1>1. /\ Len(p) = Cardinality(K) /\ Len(p) \in Nat /\ Len(q) \in Nat
      /\ \A i \in 1 .. Len(p) : o[i] \in K /\ p[i] = q[o[i]]
  <2> HIDE DEF o
  <2> QED BY PickFacts, LenProperties DEF o
<1>2. \A i, j \in 1 .. Len(p) : i < j => o[i] < o[j]
  <2>1. \A i, j \in 1 .. Cardinality(K) : i < j => Order(K)[i] < Order(K)[j]
    BY OrderFacts, LenProperties
  <2> QED BY <1>1, <2>1
<1> HIDE DEF p, o
<1>3. Chain(p, R)
  BY <1>1, <1>2 DEF Chain
<1> QED BY <1>3 DEF p

\* Two queues put together, when each entry of the one stands so to the other's.
LEMMA ConcatChain ==
  ASSUME NEW S, NEW q \in Seq(S), NEW r \in Seq(S), NEW R, Chain(q, R), Chain(r, R),
         \A i \in 1 .. Len(q), j \in 1 .. Len(r) : <<q[i], r[j]>> \in R
  PROVE  Chain(q \o r, R)
<1> DEFINE m == Len(q)
           n == Len(r)
           t == q \o r
<1>1. /\ t \in Seq(S) /\ Len(t) = m + n /\ m \in Nat /\ n \in Nat
      /\ \A i \in 1 .. m + n : t[i] = IF i <= m THEN q[i] ELSE r[i - m]
  BY ConcatProperties, LenProperties, Zenon
<1>2. /\ \A i, j \in 1 .. m : i < j => <<q[i], q[j]>> \in R
      /\ \A i, j \in 1 .. n : i < j => <<r[i], r[j]>> \in R
      /\ \A i \in 1 .. m, j \in 1 .. n : <<q[i], r[j]>> \in R
  BY DEF Chain
<1> HIDE DEF m, n, t
<1>3. ASSUME NEW i \in 1 .. m + n, NEW j \in 1 .. m + n, i < j PROVE <<t[i], t[j]>> \in R
  <2>1. CASE j <= m
    <3>1. i \in 1 .. m /\ j \in 1 .. m /\ t[i] = q[i] /\ t[j] = q[j]
      BY <1>1, <1>3, <2>1
    <3> QED BY <1>2, <1>3, <3>1
  <2>2. CASE i > m
    <3>1. i - m \in 1 .. n /\ j - m \in 1 .. n /\ i - m < j - m /\ t[i] = r[i - m] /\ t[j] = r[j - m]
      BY <1>1, <1>3, <2>2
    <3> QED BY <1>2, <3>1
  <2>3. CASE i <= m /\ j > m
    <3>1. i \in 1 .. m /\ j - m \in 1 .. n /\ t[i] = q[i] /\ t[j] = r[j - m]
      BY <1>1, <1>3, <2>3
    <3> QED BY <1>2, <3>1
  <2> QED BY <1>1, <1>3, <2>1, <2>2, <2>3
<1>4. Chain(t, R)
  BY <1>1, <1>3 DEF Chain
<1> QED BY <1>4 DEF t

\* Where an entry of the pick was, and what it was.
LEMMA PickedFrom ==
  ASSUME NEW S, NEW q \in Seq(S), NEW K \in SUBSET (1 .. Len(q)),
         NEW i \in 1 .. Len(Pick(q, K))
  PROVE  \E k \in K : Pick(q, K)[i] = q[k]
<1>1. /\ Len(Pick(q, K)) = Cardinality(K)
      /\ \A j \in 1 .. Cardinality(K) : Order(K)[j] \in K /\ Pick(q, K)[j] = q[Order(K)[j]]
  BY PickFacts
<1> QED BY <1>1

\* Every position that is picked has its entry in the pick.
LEMMA PickedAll ==
  ASSUME NEW S, NEW q \in Seq(S), NEW K \in SUBSET (1 .. Len(q)), NEW k \in K
  PROVE  \E i \in 1 .. Len(Pick(q, K)) : Pick(q, K)[i] = q[k]
<1>1. Len(q) \in Nat
  BY LenProperties
<1>2. /\ Len(Pick(q, K)) = Cardinality(K)
      /\ \A j \in 1 .. Cardinality(K) : Pick(q, K)[j] = q[Order(K)[j]]
  BY PickFacts
<1>3. PICK j \in 1 .. Cardinality(K) : Order(K)[j] = k
  BY <1>1, OrderFacts DEF Bijection, Surjection
<1> QED BY <1>2, <1>3
\* The tail of a queue is in the queue's order.
LEMMA TailChain ==
  ASSUME NEW S, NEW q \in Seq(S), q # <<>>, NEW R, Chain(q, R)
  PROVE  Chain(Tail(q), R)
<1>1. /\ Len(Tail(q)) = Len(q) - 1 /\ Len(q) \in Nat
      /\ \A i \in 1 .. Len(q) - 1 : Tail(q)[i] = q[i + 1]
  BY HeadTailProperties, LenProperties
<1>2. \A i \in 1 .. Len(q) - 1 : i \in Int /\ i + 1 \in 1 .. Len(q)
  BY <1>1
<1> QED BY <1>1, <1>2 DEF Chain

\* Marked entries that come before all others, as many as m, are the first m.
LEMMA PrefixCount ==
  ASSUME NEW n \in Nat, NEW K \in SUBSET (1 .. n), \A k \in K, j \in 1 .. n : j < k => j \in K
  PROVE  K = 1 .. Cardinality(K)
<1> DEFINE m == Cardinality(K)
<1>1. m \in Nat /\ m <= n
  BY PositionsFinite
<1>2. ASSUME NEW j \in 1 .. m, j \notin K PROVE FALSE
  <2>1. j \in 1 .. n /\ j - 1 \in Nat /\ j <= m
    BY <1>1
  <2>2. \A k \in K : k \in 1 .. n /\ k < j
    BY <1>2, <2>1
  <2>3. K \in SUBSET (1 .. (j - 1))
    BY <2>1, <2>2
  <2>4. m <= j - 1
    BY <2>1, <2>3, PositionsFinite
  <2> QED BY <1>1, <2>1, <2>4
<1>3. 1 .. m \subseteq K
  BY <1>2
<1>4. ASSUME NEW k \in K, k > m PROVE FALSE
  <2>1. k \in 1 .. n
    OBVIOUS
  <2>2. \A j \in 1 .. k : j \in K
    <3> TAKE j \in 1 .. k
    <3>1. j \in 1 .. n /\ (j < k \/ j = k)
      BY <2>1
    <3> QED BY <3>1
  <2>3. 1 .. k \in SUBSET K /\ IsFiniteSet(1 .. k) /\ Cardinality(1 .. k) = k
    BY <2>1, <2>2, FS_Interval
  <2>4. k <= m
    <3>1. IsFiniteSet(K)
      BY PositionsFinite
    <3> QED BY <2>3, <3>1, FS_Subset
  <2> QED BY <1>1, <1>4, <2>1, <2>4
<1>5. K \subseteq 1 .. m
  <2>1. \A k \in K : k \in 1 .. n /\ ~(k > m)
    BY <1>4
  <2> QED BY <1>1, <2>1
<1> QED BY <1>3, <1>5
\* Two queues put together have the entries of both.
LEMMA ConcatEntries ==
  ASSUME NEW S, NEW q \in Seq(S), NEW r \in Seq(S)
  PROVE  /\ q \o r \in Seq(S)
         /\ \A i \in 1 .. Len(q) : \E n \in 1 .. Len(q \o r) : (q \o r)[n] = q[i]
         /\ \A i \in 1 .. Len(r) : \E n \in 1 .. Len(q \o r) : (q \o r)[n] = r[i]
<1> DEFINE m == Len(q)
           n == Len(r)
           t == q \o r
<1>1. /\ t \in Seq(S) /\ Len(t) = m + n /\ m \in Nat /\ n \in Nat
      /\ \A i \in 1 .. m + n : t[i] = IF i <= m THEN q[i] ELSE r[i - m]
  BY ConcatProperties, LenProperties, Zenon
<1> HIDE DEF m, n, t
<1>2. ASSUME NEW i \in 1 .. m PROVE i \in 1 .. m + n /\ t[i] = q[i]
  BY <1>1
<1>3. ASSUME NEW i \in 1 .. n PROVE m + i \in 1 .. m + n /\ t[m + i] = r[i]
  <2>1. m + i \in 1 .. m + n /\ ~(m + i <= m) /\ (m + i) - m = i
    BY <1>1
  <2> QED BY <1>1, <2>1
<1> QED BY <1>1, <1>2, <1>3 DEF m, n, t
\* What is left of a queue when its i-th entry is taken out.
DropAt(q, i) == SubSeq(q, 1, i - 1) \o SubSeq(q, i + 1, Len(q))

\* The other entries stay, and each is counted as before.
LEMMA DropAtFacts ==
  ASSUME NEW S, NEW q \in Seq(S), NEW i \in 1 .. Len(q)
  PROVE  /\ q[i] \in S /\ DropAt(q, i) \in Seq(S)
         /\ \A j \in 1 .. Len(DropAt(q, i)) : \E k \in 1 .. Len(q) : DropAt(q, i)[j] = q[k]
         /\ \A V : Tally(q, V) = Tally(DropAt(q, i), V) + IF q[i] \in V THEN 1 ELSE 0
<1> DEFINE n == Len(q)
           a == SubSeq(q, 1, i - 1)
           b == SubSeq(q, i + 1, n)
<1>1. n \in Nat /\ i \in Nat /\ i <= n /\ 1 <= i /\ q[i] \in S /\ \A j \in 1 .. n : q[j] \in S
  BY LenProperties, ElementOfSeq
<1>2. \A j \in 1 .. i - 1 : q[j] \in S
  BY <1>1
<1>3. \A j \in i + 1 .. n : q[j] \in S
  BY <1>1
<1>4. a \in Seq(S) /\ Len(a) = i - 1 /\ \A j \in 1 .. i - 1 : a[j] = q[j]
  <2>1. /\ a \in Seq(S) /\ Len(a) = IF 1 <= i - 1 THEN (i - 1) - 1 + 1 ELSE 0
        /\ \A j \in 1 .. (i - 1) - 1 + 1 : a[j] = q[1 + j - 1]
    BY <1>1, <1>2, SubSeqProperties
  <2> HIDE DEF a
  <2> QED BY <1>1, <2>1
<1>5. b \in Seq(S) /\ Len(b) = n - i /\ \A j \in 1 .. n - i : b[j] = q[i + j]
  <2>1. /\ b \in Seq(S) /\ Len(b) = IF i + 1 <= n THEN n - (i + 1) + 1 ELSE 0
        /\ \A j \in 1 .. n - (i + 1) + 1 : b[j] = q[(i + 1) + j - 1]
    BY <1>1, <1>3, SubSeqProperties
  <2> HIDE DEF b
  <2>2. \A j \in 1 .. n - i : j \in 1 .. n - (i + 1) + 1 /\ (i + 1) + j - 1 = i + j
    BY <1>1
  <2> HIDE DEF n
  <2> QED BY <1>1, <2>1, <2>2
<1>6. q = a \o (<<q[i]>> \o b)
  <2>1. SubSeq(q, i, n) = <<q[i]>> \o b
    BY <1>1, SubSeqRecursiveFirst
  <2>2. 1 \in 1 .. n + 1 /\ i - 1 \in 1 - 1 .. n /\ n \in i - 1 .. n /\ (i - 1) + 1 = i
    BY <1>1
  <2>3. SubSeq(q, 1, i - 1) \o SubSeq(q, (i - 1) + 1, n) = SubSeq(q, 1, n)
    BY <2>2, ConcatAdjacentSubSeq
  <2>4. SubSeq(q, 1, n) = q
    BY SubSeqFull
  <2> QED BY <2>1, <2>2, <2>3, <2>4
<1>7. <<q[i]>> \in Seq(S) /\ DropAt(q, i) = a \o b
  BY <1>1 DEF DropAt
<1> HIDE DEF a, b, n
<1> DEFINE x == <<q[i]>>
<1>8. ASSUME NEW V PROVE Tally(q, V) = Tally(DropAt(q, i), V) + IF q[i] \in V THEN 1 ELSE 0
  <2>1. Tally(x, V) = IF q[i] \in V THEN 1 ELSE 0
    BY OneTally
  <2>2. q = a \o (x \o b) /\ x \in Seq(S) /\ a \in Seq(S) /\ b \in Seq(S)
    BY <1>4, <1>5, <1>6, <1>7, Zenon
  <2> HIDE DEF x
  <2>3. x \o b \in Seq(S) /\ Tally(x \o b, V) = Tally(x, V) + Tally(b, V)
    BY <2>2, ConcatTally
  <2>4. Tally(a \o (x \o b), V) = Tally(a, V) + Tally(x \o b, V)
    <3> DEFINE y == x \o b
    <3>1. y \in Seq(S)
      BY <2>3
    <3> HIDE DEF y
    <3>2. Tally(a \o y, V) = Tally(a, V) + Tally(y, V)
      BY <2>2, <3>1, ConcatTally
    <3> QED BY <3>2 DEF y
  <2>5. Tally(a \o b, V) = Tally(a, V) + Tally(b, V)
    BY <2>2, ConcatTally
  <2>6. Tally(a, V) \in Nat /\ Tally(b, V) \in Nat
    BY <2>2, TallyType
  <2>7. Tally(q, V) = Tally(a \o (x \o b), V) /\ Tally(DropAt(q, i), V) = Tally(a \o b, V)
    BY <1>7, <2>2, Zenon
  <2> QED BY <2>1, <2>3, <2>4, <2>5, <2>6, <2>7
<1>9. /\ a \o b \in Seq(S) /\ Len(a \o b) = (i - 1) + (n - i)
      /\ \A j \in 1 .. (i - 1) + (n - i) : (a \o b)[j] = IF j <= i - 1 THEN a[j] ELSE b[j - (i - 1)]
  <2>1. /\ a \o b \in Seq(S) /\ Len(a \o b) = Len(a) + Len(b)
        /\ \A j \in 1 .. Len(a) + Len(b) : (a \o b)[j] = IF j <= Len(a) THEN a[j] ELSE b[j - Len(a)]
    BY <1>4, <1>5, ConcatProperties, Zenon
  <2> QED BY <1>4, <1>5, <2>1, Zenon
<1>10. ASSUME NEW j \in 1 .. Len(DropAt(q, i))
       PROVE  \E k \in 1 .. n : DropAt(q, i)[j] = q[k]
  <2>1. j \in 1 .. (i - 1) + (n - i) /\ j \in Nat /\ 1 <= j /\ j <= n - 1
    BY <1>1, <1>7, <1>9, <1>10
  <2>2. CASE j <= i - 1
    BY <1>1, <1>4, <1>7, <1>9, <2>1, <2>2
  <2>3. CASE ~(j <= i - 1)
    <3>1. j - (i - 1) \in 1 .. n - i /\ i + (j - (i - 1)) = j + 1 /\ j + 1 \in 1 .. n
      BY <1>1, <2>1, <2>3
    <3>2. (a \o b)[j] = b[j - (i - 1)]
      BY <1>9, <2>1, <2>3
    <3>3. b[j - (i - 1)] = q[i + (j - (i - 1))]
      BY <1>5, <3>1
    <3> QED BY <1>7, <3>1, <3>2, <3>3
  <2> QED BY <2>2, <2>3
<1> QED BY <1>1, <1>7, <1>8, <1>9, <1>10 DEF n
=============================================================================
