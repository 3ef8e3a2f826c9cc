---------------------------- MODULE RecursionProofs ----------------------------
(***************************************************************************)
(* Lemmas about recursive functions on the first natural numbers, and what *)
(* the operators of Recursion return.  SetInduction is induction for a set *)
(* in the place of a predicate; what is shown for the members of a set of  *)
(* numbers with 0 that is closed under the successor is shown for all.     *)
(***************************************************************************)
EXTENDS Recursion, SequenceTheorems, WellFoundedInduction, TLAPS

\* A set with 0 and with the successor of each of its numbers has all numbers.
LEMMA SetInduction ==
    ASSUME NEW P, 0 \in P, \A n \in Nat : n \in P => n + 1 \in P
    PROVE  Nat \subseteq P
<1> DEFINE Less == {pair \in Nat \X Nat : pair[1] < pair[2]}
           missing == Nat \ P
<1> SUFFICES ASSUME missing # {}
             PROVE  FALSE
    OBVIOUS
<1>1. IsWellFoundedOn(Less, Nat)
    BY NatLessThanWellFounded DEF OpToRel
<1>2. PICK m \in missing : \A n \in missing : <<n, m>> \notin Less
    <2> HIDE DEF Less
    <2> QED
        BY <1>1, WFMin
<1>3. m - 1 \in Nat /\ m - 1 \in P
    <2>1. m \in Nat /\ m # 0
        BY <1>2
    <2>2. m - 1 \in Nat /\ <<m - 1, m>> \in Less
        BY <2>1
    <2> QED
        BY <1>2, <2>2
<1>4. (m - 1) + 1 = m
    BY <1>2
<1> QED
    BY <1>2, <1>3, <1>4

Unfolds(f, a, G, n) == f[0] = a /\ \A i \in 0..(n - 1) : f[i + 1] = G[<<i + 1, f[i]>>]

LEMMA UnfoldsOnce ==
    ASSUME NEW a, NEW G, NEW n \in Nat, NEW f, NEW g, Unfolds(f, a, G, n), Unfolds(g, a, G, n)
    PROVE  \A i \in 0..n : f[i] = g[i]
<1> DEFINE P == {i \in Nat : i <= n => f[i] = g[i]}
<1>1. 0 \in P
    BY DEF Unfolds
<1>2. ASSUME NEW i \in Nat, i \in P PROVE i + 1 \in P
    <2>1. i + 1 <= n => i \in 0..(n - 1) /\ i <= n
        OBVIOUS
    <2>2. i + 1 <= n => f[i + 1] = g[i + 1]
        BY <1>2, <2>1 DEF Unfolds
    <2> QED
        BY <2>2
<1> HIDE DEF P
<1>3. Nat \subseteq P
    BY <1>1, <1>2, SetInduction
<1> QED
    BY <1>3 DEF P

LEMMA UnfoldsSome ==
    ASSUME NEW V, NEW a \in V, NEW G \in [Nat \X V -> V], NEW n \in Nat
    PROVE  \E f \in [0..n -> V] : Unfolds(f, a, G, n)
<1> DEFINE P == {m \in Nat : \E f \in [0..m -> V] : Unfolds(f, a, G, m)}
<1>1. 0 \in P
    <2> DEFINE f == [i \in 0..0 |-> a]
    <2>1. f \in [0..0 -> V] /\ Unfolds(f, a, G, 0)
        BY DEF Unfolds
    <2> HIDE DEF f
    <2> QED
        BY <2>1
<1>2. ASSUME NEW m \in Nat, m \in P PROVE m + 1 \in P
    <2>1. PICK f \in [0..m -> V] : Unfolds(f, a, G, m)
        BY <1>2
    <2> DEFINE g == [i \in 0..(m + 1) |-> IF i <= m THEN f[i] ELSE G[<<m + 1, f[m]>>]]
    <2>2. g \in [0..(m + 1) -> V]
        OBVIOUS
    <2>3. g[0] = a
        BY <2>1 DEF Unfolds
    <2>4. ASSUME NEW i \in 0..((m + 1) - 1) PROVE g[i + 1] = G[<<i + 1, g[i]>>]
        <3>1. CASE i = m
            BY <3>1
        <3>2. CASE i # m
            <4>1. i \in 0..(m - 1) /\ i + 1 <= m /\ i <= m
                BY <3>2
            <4>2. f[i + 1] = G[<<i + 1, f[i]>>]
                BY <2>1, <4>1 DEF Unfolds
            <4>3. i \in 0..(m + 1) /\ i + 1 \in 0..(m + 1)
                OBVIOUS
            <4>4. g[i] = f[i] /\ g[i + 1] = f[i + 1]
                BY <4>1, <4>3
            <4> QED
                BY <4>2, <4>4
        <3> QED
            BY <3>1, <3>2
    <2> HIDE DEF g
    <2>5. Unfolds(g, a, G, m + 1)
        BY <2>3, <2>4 DEF Unfolds
    <2>6. m + 1 \in Nat
        OBVIOUS
    <2> QED
        BY <2>2, <2>5, <2>6
<1> HIDE DEF P
<1>3. Nat \subseteq P
    BY <1>1, <1>2, SetInduction
<1> QED
    BY <1>3 DEF P

\* What is built from a by G stays in V, as long as the function is built so
\* from members of V.
LEMMA UnfoldsTyped ==
    ASSUME NEW V, NEW a \in V, NEW G \in [Nat \X V -> V], NEW n \in Nat,
           NEW f, f[0] = a, \A i \in 1..n : f[i - 1] \in V => f[i] = G[<<i, f[i - 1]>>]
    PROVE  Unfolds(f, a, G, n) /\ \A i \in 0..n : f[i] \in V
<1> DEFINE P == {i \in Nat : i <= n => f[i] \in V}
<1>1. 0 \in P
    OBVIOUS
<1>2. ASSUME NEW i \in Nat, i \in P PROVE i + 1 \in P
    <2>1. i + 1 <= n => i + 1 \in 1..n /\ (i + 1) - 1 = i /\ i <= n
        OBVIOUS
    <2>2. i + 1 \in Nat
        OBVIOUS
    <2>3. i + 1 <= n => f[i] \in V /\ f[i + 1] = G[<<i + 1, f[i]>>]
        BY <1>2, <2>1
    <2>4. i + 1 <= n => f[i + 1] \in V
        BY <2>2, <2>3
    <2> QED
        BY <2>2, <2>4
<1> HIDE DEF P
<1>3. Nat \subseteq P
    BY <1>1, <1>2, SetInduction
<1>4. \A i \in 0..n : f[i] \in V
    BY <1>3 DEF P
<1>5. ASSUME NEW i \in 0..(n - 1) PROVE f[i + 1] = G[<<i + 1, f[i]>>]
    <2>1. i + 1 \in 1..n /\ (i + 1) - 1 = i /\ i \in 0..n
        OBVIOUS
    <2> QED
        BY <1>4, <2>1
<1> QED
    BY <1>4, <1>5 DEF Unfolds

-----------------------------------------------------------------------------
(* Concat                                                                  *)

\* What is joined is a sequence, and the last part comes last.
LEMMA ConcatNext ==
    ASSUME NEW V, NEW n \in Nat, NEW f, \A i \in 1..n : f[i] \in Seq(V)
    PROVE  /\ Concat(f, 0) = <<>>
           /\ Concat(f, n) \in Seq(V)
           /\ n # 0 => Concat(f, n) = Concat(f, n - 1) \o f[n]
<1> DEFINE U == Seq(V)
           G == [p \in Nat \X U |-> p[2] \o (IF p[1] \in 1..n THEN f[p[1]] ELSE <<>>)]
           Rec(g, m) == g = [i \in 0..m |-> IF i = 0 THEN <<>> ELSE g[i - 1] \o f[i]]
           F(m) == CHOOSE g : Rec(g, m)
<1>1. \A m : Concat(f, m) = F(m)[m]
    BY DEF Concat
<1>2. <<>> \in U /\ G \in [Nat \X U -> U]
    <2>1. <<>> \in U /\ \A s, t \in U : s \o t \in U
        OBVIOUS
    <2> HIDE DEF U
    <2> QED
        BY <2>1 DEF U
<1>3. \A i \in 1..n : \A v \in U : G[<<i, v>>] = v \o f[i]
    <2> HIDE DEF U
    <2>1. \A i \in 1..n : i \in Nat
        OBVIOUS
    <2> QED
        BY <2>1
<1> HIDE DEF G, U
<1>4. ASSUME NEW m \in 0..n
      PROVE  Unfolds(F(m), <<>>, G, m) /\ \A i \in 0..m : F(m)[i] \in U
    <2> m \in Nat
        OBVIOUS
    <2>1. PICK g \in [0..m -> U] : Unfolds(g, <<>>, G, m)
        BY <1>2, UnfoldsSome
    <2>2. \A i \in 0..m : g[i] = IF i = 0 THEN <<>> ELSE g[i - 1] \o f[i]
        <3>1. \A i \in 0..m : i # 0 => i - 1 \in 0..(m - 1) /\ (i - 1) + 1 = i /\ i \in 1..n
            OBVIOUS
        <3>2. \A i \in 0..m : i # 0 => g[i] = G[<<i, g[i - 1]>>] /\ g[i - 1] \in U
            BY <2>1, <3>1 DEF Unfolds
        <3> QED
            BY <1>3, <2>1, <3>1, <3>2 DEF Unfolds
    <2>3. Rec(g, m)
        BY <2>2
    <2>4. Rec(F(m), m)
        BY <2>3
    <2>5. \A i \in 0..m : F(m)[i] = IF i = 0 THEN <<>> ELSE F(m)[i - 1] \o f[i]
        <3> HIDE DEF F
        <3> QED
            BY <2>4
    <2> HIDE DEF F, Rec
    <2>6. F(m)[0] = <<>>
        BY <2>5
    <2>7. \A i \in 1..m : F(m)[i - 1] \in U => F(m)[i] = G[<<i, F(m)[i - 1]>>]
        <3>1. \A i \in 1..m : i \in 0..m /\ i # 0 /\ i \in 1..n
            OBVIOUS
        <3> QED
            BY <1>3, <2>5, <3>1
    <2> DEFINE h == F(m)
    <2>8. h[0] = <<>> /\ \A i \in 1..m : h[i - 1] \in U => h[i] = G[<<i, h[i - 1]>>]
        BY <2>6, <2>7
    <2> HIDE DEF h
    <2>9. Unfolds(h, <<>>, G, m) /\ \A i \in 0..m : h[i] \in U
        BY <1>2, <2>8, UnfoldsTyped
    <2> QED
        BY <2>9 DEF h
<1> HIDE DEF F
<1>5. Concat(f, 0) = <<>>
    BY <1>1, <1>4 DEF Unfolds
<1>6. Concat(f, n) \in U
    BY <1>1, <1>4
<1>7. ASSUME n # 0 PROVE Concat(f, n) = Concat(f, n - 1) \o f[n]
    <2>1. n - 1 \in Nat /\ n - 1 \in 0..n /\ n - 1 \in 0..(n - 1) /\ (n - 1) + 1 = n /\ n \in 1..n
        BY <1>7
    <2>2. Unfolds(F(n), <<>>, G, n - 1)
        <3>1. \A i \in 0..((n - 1) - 1) : i \in 0..(n - 1)
            BY <2>1
        <3> QED
            BY <1>4, <3>1 DEF Unfolds
    <2>3. F(n)[n - 1] = F(n - 1)[n - 1]
        BY <1>4, <2>1, <2>2, UnfoldsOnce
    <2>4. F(n)[n] = G[<<n, F(n)[n - 1]>>] /\ F(n)[n - 1] \in U
        BY <1>4, <2>1 DEF Unfolds
    <2> QED
        BY <1>1, <1>3, <2>1, <2>3, <2>4
<1> QED
    BY <1>5, <1>6, <1>7 DEF U

\* What is joined depends on the parts alone.
LEMMA ConcatSame ==
    ASSUME NEW V, NEW n \in Nat, NEW f, NEW g,
           \A i \in 1..n : f[i] \in Seq(V) /\ g[i] = f[i]
    PROVE  Concat(f, n) = Concat(g, n)
<1> DEFINE P == {m \in Nat : m <= n => Concat(f, m) = Concat(g, m)}
<1>1. 0 \in P
    <2>1. \A i \in 1..0 : f[i] \in Seq(V) /\ g[i] \in Seq(V)
        OBVIOUS
    <2>2. Concat(f, 0) = <<>> /\ Concat(g, 0) = <<>>
        BY <2>1, ConcatNext
    <2> QED
        BY <2>2
<1>2. ASSUME NEW m \in Nat, m \in P PROVE m + 1 \in P
    <2>1. m + 1 \in Nat /\ m + 1 # 0 /\ (m + 1) - 1 = m /\ (m + 1 <= n => m <= n)
        OBVIOUS
    <2>2. ASSUME m + 1 <= n PROVE Concat(f, m + 1) = Concat(g, m + 1)
        <3>1. \A i \in 1..(m + 1) : f[i] \in Seq(V) /\ g[i] \in Seq(V) /\ g[i] = f[i]
            BY <2>2
        <3>2. Concat(f, m + 1) = Concat(f, (m + 1) - 1) \o f[m + 1]
            BY <2>1, <3>1, ConcatNext
        <3>3. Concat(g, m + 1) = Concat(g, (m + 1) - 1) \o g[m + 1]
            BY <2>1, <3>1, ConcatNext
        <3>4. m + 1 \in 1..(m + 1)
            OBVIOUS
        <3> QED
            BY <1>2, <2>1, <2>2, <3>1, <3>2, <3>3, <3>4
    <2> QED
        BY <2>1, <2>2
<1> HIDE DEF P
<1>3. Nat \subseteq P
    BY <1>1, <1>2, SetInduction
<1> QED
    BY <1>3 DEF P

-----------------------------------------------------------------------------
(* Filtered                                                                *)

\* What Filtered takes from a sequence are its elements at the positions, and
\* all of them if it takes every position.
LEMMA FilteredPart ==
    ASSUME NEW V, NEW s \in Seq(V), NEW where
    PROVE  /\ Filtered(s, where) \in Seq({s[i] : i \in (DOMAIN s) \cap where})
           /\ DOMAIN s \subseteq where => Filtered(s, where) = s
<1> DEFINE n == Len(s)
           W == {s[i] : i \in (DOMAIN s) \cap where}
           U == Seq(W)
           G == [p \in Nat \X U |-> IF p[1] \in where /\ p[1] \in DOMAIN s
                                    THEN Append(p[2], s[p[1]]) ELSE p[2]]
           Rec(g) == g = [i \in 0..n |-> IF i = 0 THEN <<>>
                                         ELSE IF i \in where THEN Append(g[i - 1], s[i])
                                                             ELSE g[i - 1]]
           F == CHOOSE g : Rec(g)
<1>1. Filtered(s, where) = F[n]
    BY DEF Filtered
<1>2. n \in Nat /\ DOMAIN s = 1..n
    OBVIOUS
<1>3. <<>> \in U /\ \A i \in (DOMAIN s) \cap where : \A v \in U : Append(v, s[i]) \in U
    <2>1. \A i \in (DOMAIN s) \cap where : s[i] \in W
        OBVIOUS
    <2> HIDE DEF W
    <2> QED
        BY <2>1
<1> HIDE DEF U, W, n
<1>4. G \in [Nat \X U -> U]
    BY <1>3
<1>5. \A i \in 1..n : \A v \in U : G[<<i, v>>] = IF i \in where THEN Append(v, s[i]) ELSE v
    BY <1>2
<1> HIDE DEF G
<1>6. PICK g \in [0..n -> U] : Unfolds(g, <<>>, G, n)
    BY <1>2, <1>3, <1>4, UnfoldsSome
<1>7. \A i \in 0..n : g[i] = IF i = 0 THEN <<>> ELSE IF i \in where THEN Append(g[i - 1], s[i])
                                                                    ELSE g[i - 1]
    <2>1. \A i \in 0..n : i # 0 => /\ i - 1 \in 0..(n - 1) /\ i - 1 \in 0..n
                                   /\ (i - 1) + 1 = i /\ i \in 1..n
        BY <1>2
    <2>2. \A i \in 0..n : i # 0 => g[i] = G[<<i, g[i - 1]>>] /\ g[i - 1] \in U
        BY <1>6, <2>1 DEF Unfolds
    <2> QED
        BY <1>5, <1>6, <2>1, <2>2 DEF Unfolds
<1>8. Rec(g)
    BY <1>7
<1>9. Rec(F)
    BY <1>8
<1> HIDE DEF F
<1>10. \A i \in 0..n : F[i] = IF i = 0 THEN <<>> ELSE IF i \in where THEN Append(F[i - 1], s[i])
                                                                     ELSE F[i - 1]
    BY <1>9
<1> HIDE DEF Rec
<1>11. Unfolds(F, <<>>, G, n) /\ \A i \in 0..n : F[i] \in U
    <2>1. 0 \in 0..n /\ \A i \in 1..n : i \in 0..n /\ i # 0
        BY <1>2
    <2>2. F[0] = <<>>
        BY <1>10, <2>1
    <2>3. \A i \in 1..n : F[i - 1] \in U => F[i] = G[<<i, F[i - 1]>>]
        BY <1>5, <1>10, <2>1
    <2> QED
        BY <1>2, <1>3, <1>4, <2>2, <2>3, UnfoldsTyped
<1>12. F[n] \in U
    BY <1>2, <1>11
<1>13. ASSUME DOMAIN s \subseteq where PROVE F[n] = s
    <2> DEFINE P == {m \in Nat : m <= n => F[m] = [i \in 1..m |-> s[i]]}
    <2>1. 0 \in P
        <3>1. F[0] = <<>>
            BY <1>11 DEF Unfolds
        <3>2. <<>> = [i \in 1..0 |-> s[i]]
            OBVIOUS
        <3> QED
            BY <3>1, <3>2
    <2>2. ASSUME NEW m \in Nat, m \in P PROVE m + 1 \in P
        <3>1. m + 1 \in Nat /\ (m + 1) - 1 = m /\ (m + 1 <= n => m <= n /\ m + 1 \in 1..n)
            BY <1>2
        <3>2. ASSUME m + 1 <= n PROVE F[m + 1] = [i \in 1..(m + 1) |-> s[i]]
            <4>1. F[m + 1] = Append(F[m], s[m + 1])
                BY <1>2, <1>10, <1>13, <3>1, <3>2
            <4>2. F[m] = [i \in 1..m |-> s[i]]
                BY <2>2, <3>1, <3>2
            <4>3. \A i \in 1..(m + 1) : i \in 1..n
                BY <1>2, <3>2
            <4>4. \A i \in 1..(m + 1) : s[i] \in V
                BY <1>2, <4>3
            <4>5. Append([i \in 1..m |-> s[i]], s[m + 1]) = [i \in 1..(m + 1) |-> s[i]]
                <5> DEFINE part == [i \in 1..m |-> s[i]]
                           whole == [i \in 1..(m + 1) |-> s[i]]
                <5>1. /\ part \in Seq(V) /\ whole \in Seq(V) /\ s[m + 1] \in V
                      /\ Len(part) = m /\ Len(whole) = m + 1 /\ whole[m + 1] = s[m + 1]
                      /\ \A i \in 1..m : part[i] = s[i] /\ whole[i] = s[i]
                    BY <4>4
                <5> HIDE DEF part, whole
                <5> DEFINE longer == Append(part, s[m + 1])
                <5>2. /\ longer \in Seq(V) /\ Len(longer) = m + 1
                      /\ longer[m + 1] = s[m + 1] /\ \A i \in 1..m : longer[i] = s[i]
                    BY <5>1, AppendProperties
                <5>3. \A i \in 1..(m + 1) : i = m + 1 \/ i \in 1..m
                    OBVIOUS
                <5> HIDE DEF longer
                <5>4. \A i \in 1..(m + 1) : longer[i] = whole[i]
                    BY <5>1, <5>2, <5>3
                <5>5. longer = whole
                    BY <5>1, <5>2, <5>4, SeqEqual
                <5> QED
                    BY <5>5 DEF part, whole, longer
            <4> QED
                BY <4>1, <4>2, <4>5
        <3> QED
            BY <3>1, <3>2
    <2> HIDE DEF P
    <2>3. Nat \subseteq P
        BY <2>1, <2>2, SetInduction
    <2>4. F[n] = [i \in 1..n |-> s[i]]
        BY <1>2, <2>3 DEF P
    <2>5. s = [i \in 1..n |-> s[i]]
        BY <1>2
    <2> QED
        BY <2>4, <2>5
<1> QED
    BY <1>1, <1>12, <1>13 DEF U, W
=============================================================================
