--------------------------- MODULE DecodersProofs ---------------------------
(***************************************************************************)
(* Theorems about Decoders: the compact integers (Varint), the plaintext   *)
(* codec (PlaintextCodec) and the wire format (WireFormat), for every      *)
(* alphabet of bytes, every size and limit, every structure that is        *)
(* encoded and every sequence of bytes that is parsed.                     *)
(*                                                                         *)
(* In order: bytes and integers; the codec with its three theorems; where  *)
(* the parts of an encoded backup lie; the parsers' type correctness and   *)
(* the agreement of decode_v1 with the walk of inspect; what decode_v1     *)
(* makes of an encoded backup that is cut or followed by other bytes.      *)
(***************************************************************************)
EXTENDS Decoders, RecursionProofs, FiniteSetTheorems

(******************************* Bytes and integers *************************)

-----------------------------------------------------------------------------
(* Compact integers                                                        *)

\* Multiplication by a natural number keeps the order.
LEMMA Products ==
    ASSUME NEW a \in Nat, NEW b \in Nat, NEW c \in Nat
    PROVE  /\ a * b \in Nat /\ a * b = b * a
           /\ b <= c => a * b <= a * c
           /\ a # 0 /\ b < c => a * b < a * c
<1>1. a * b \in Nat /\ a * b = b * a
    OBVIOUS
<1>2. ASSUME b <= c PROVE a * b <= a * c
    <2>1. c - b \in Nat /\ c = b + (c - b)
        BY <1>2
    <2>2. a * c = a * b + a * (c - b) /\ a * (c - b) \in Nat
        BY <2>1
    <2> QED
        BY <2>2
<1>3. ASSUME a # 0, b < c PROVE a * b < a * c
    <2>1. c - b \in Nat /\ c - b >= 1 /\ c = b + (c - b)
        BY <1>3
    <2>2. a * c = a * b + a * (c - b) /\ a * (c - b) >= 1
        BY <1>3, <2>1
    <2> QED
        BY <2>2
<1> QED
    BY <1>1, <1>2, <1>3

\* Quotient and remainder.
LEMMA Division ==
    ASSUME NEW n \in Nat, NEW b \in Nat, b # 0
    PROVE  /\ n \div b \in Nat /\ n % b \in 0..(b - 1)
           /\ n = (n \div b) * b + (n % b)
<1>1. n \div b \in Int /\ n % b \in 0..(b - 1)
    OBVIOUS
<1>2. n = b * (n \div b) + (n % b)
    OBVIOUS
<1>3. n \div b >= 0
    OBVIOUS
<1> QED
    BY <1>1, <1>2, <1>3

LEMMA DivisionOnce ==
    ASSUME NEW b \in Nat, NEW v \in Nat, NEW r \in 0..(b - 1)
    PROVE  /\ v * b + r \in Nat
           /\ (v * b + r) \div b = v
           /\ (v * b + r) % b = r
<1> DEFINE n == v * b + r
           q == n \div b
           m == n % b
<1>1. n \in Nat /\ b # 0
    OBVIOUS
<1>2. q \in Nat /\ m \in 0..(b - 1) /\ n = q * b + m
    <2> HIDE DEF n
    <2> QED
        BY <1>1, Division
<1>3. q * b + m = v * b + r
    BY <1>2
<1> HIDE DEF q, m
<1>4. ~(q < v)
    <2> SUFFICES ASSUME q < v PROVE FALSE
        OBVIOUS
    <2>1. b * (q + 1) <= b * v
        BY <1>2, Products
    <2> QED
        BY <1>2, <1>3, <2>1
<1>5. ~(v < q)
    <2> SUFFICES ASSUME v < q PROVE FALSE
        OBVIOUS
    <2>1. b * (v + 1) <= b * q
        BY <1>2, Products
    <2> QED
        BY <1>2, <1>3, <2>1
<1>6. q = v /\ m = r
    BY <1>2, <1>3, <1>4, <1>5
<1> QED
    BY <1>1, <1>6 DEF q, m

LEMMA QuotientBelow ==
    ASSUME NEW n \in Nat, NEW b \in Nat, b # 0, NEW c \in Nat
    PROVE  n \div b < c <=> n < b * c
<1> DEFINE q == n \div b
<1>1. q \in Nat /\ q * b <= n /\ n < q * b + b
    <2>1. q \in Nat /\ n % b \in 0..(b - 1) /\ n = q * b + (n % b)
        BY Division
    <2> HIDE DEF q
    <2>2. q * b \in Nat
        BY <2>1
    <2> QED
        BY <2>1, <2>2
<1> HIDE DEF q
<1>2. ASSUME c <= q PROVE ~(n < b * c)
    <2>1. b * c <= b * q /\ b * q = q * b
        BY <1>1, <1>2, Products
    <2> QED
        BY <1>1, <2>1
<1>3. ASSUME q < c PROVE n < b * c
    <2>1. q + 1 \in Nat /\ q + 1 <= c
        BY <1>1, <1>3
    <2>2. b * (q + 1) <= b * c
        BY <2>1, Products
    <2>3. b * (q + 1) = q * b + b
        BY <1>1
    <2> QED
        BY <1>1, <2>2, <2>3
<1>4. q < c <=> n < b * c
    BY <1>1, <1>2, <1>3
<1> QED
    BY <1>4 DEF q

LEMMA BaseIs == Base \in Nat /\ Base > 8 /\ Base # 0 /\ Byte = 0..(Base - 1) /\ 0 \in Byte
<1> DEFINE wide == UsizeMax < Smallest(8) * Smallest(8)
<1>1. Base \in Nat /\ Base > 8 /\ UsizeMax \in Nat /\ wide
    BY VarintAssumption
<1> HIDE DEF wide
<1> QED
    BY <1>1 DEF Byte

LEMMA NumbersUnfold ==
    ASSUME NEW a \in Nat, NEW G \in [Nat \X Nat -> Nat], NEW n \in Nat,
           NEW f, f[0] = a, \A i \in 1..n : f[i - 1] \in Nat => f[i] = G[<<i, f[i - 1]>>]
    PROVE  Unfolds(f, a, G, n) /\ \A i \in 0..n : f[i] \in Nat
<1> DEFINE V == Nat
<1>1. a \in V /\ G \in [Nat \X V -> V]
    OBVIOUS
<1>2. f[0] = a /\ \A i \in 1..n : f[i - 1] \in V => f[i] = G[<<i, f[i - 1]>>]
    OBVIOUS
<1> HIDE DEF V
<1>3. Unfolds(f, a, G, n) /\ \A i \in 0..n : f[i] \in V
    BY SMTT(30), <1>1, <1>2, UnfoldsTyped
<1> QED
    BY <1>3 DEF V

\* Shifted is what its recursion says.
LEMMA ShiftedNext ==
    ASSUME NEW n \in Nat, NEW i \in Nat
    PROVE  /\ Shifted(n, 0) = n /\ Shifted(n, i) \in Nat
           /\ Shifted(n, i + 1) = Shifted(n, i) \div Base
<1> DEFINE G == [p \in Nat \X Nat |-> p[2] \div Base]
           Rec(g, m) == g = [j \in 0..m |-> IF j = 0 THEN n ELSE g[j - 1] \div Base]
           F(m) == CHOOSE g : Rec(g, m)
<1>1. \A m : Shifted(n, m) = F(m)[m]
    BY DEF Shifted
<1>2. G \in [Nat \X Nat -> Nat] /\ \A j, v \in Nat : G[<<j, v>>] = v \div Base
    <2>1. \A v \in Nat : v \div Base \in Nat
        BY BaseIs, Division
    <2> QED
        BY <2>1
<1> HIDE DEF G
<1>3. ASSUME NEW m \in Nat
      PROVE  Unfolds(F(m), n, G, m) /\ \A j \in 0..m : F(m)[j] \in Nat
    <2>1. PICK g \in [0..m -> Nat] : Unfolds(g, n, G, m)
        BY <1>2, UnfoldsSome
    <2>2. \A j \in 0..m : g[j] = IF j = 0 THEN n ELSE g[j - 1] \div Base
        <3>1. \A j \in 0..m : j # 0 => /\ j - 1 \in 0..(m - 1) /\ j - 1 \in 0..m
                                       /\ (j - 1) + 1 = j /\ j \in Nat
            OBVIOUS
        <3>2. \A j \in 0..m : j # 0 => g[j] = G[<<j, g[j - 1]>>] /\ g[j - 1] \in Nat
            BY <2>1, <3>1 DEF Unfolds
        <3> QED
            BY <1>2, <2>1, <3>1, <3>2 DEF Unfolds
    <2>3. Rec(g, m)
        BY <2>2
    <2>4. Rec(F(m), m)
        BY <2>3
    <2>5. \A j \in 0..m : F(m)[j] = IF j = 0 THEN n ELSE F(m)[j - 1] \div Base
        <3> HIDE DEF F
        <3> QED
            BY <2>4
    <2> HIDE DEF Rec
    <2> DEFINE h == F(m)
    <2>6. h[0] = n /\ \A j \in 1..m : h[j - 1] \in Nat => h[j] = G[<<j, h[j - 1]>>]
        <3> HIDE DEF F
        <3>1. \A j \in 1..m : j \in 0..m /\ j # 0 /\ j \in Nat
            OBVIOUS
        <3> QED
            BY SMTT(30), <1>2, <2>5, <3>1
    <2> HIDE DEF h
    <2>7. Unfolds(h, n, G, m) /\ \A j \in 0..m : h[j] \in Nat
        BY <1>2, <2>6, NumbersUnfold
    <2> QED
        BY <2>7 DEF h
<1> HIDE DEF F, Rec
<1>4. Shifted(n, 0) = n
    BY <1>1, <1>3 DEF Unfolds
<1>5. Shifted(n, i) \in Nat
    BY <1>1, <1>3
<1>6. i + 1 \in Nat /\ i \in 0..((i + 1) - 1) /\ \A j \in 0..(i - 1) : j \in 0..((i + 1) - 1)
    OBVIOUS
<1>7. Unfolds(F(i + 1), n, G, i)
    BY <1>3, <1>6 DEF Unfolds
<1>8. F(i + 1)[i] = F(i)[i]
    BY <1>3, <1>7, UnfoldsOnce
<1>9. F(i + 1)[i + 1] = G[<<i + 1, F(i + 1)[i]>>] /\ F(i)[i] \in Nat
    BY <1>3, <1>6 DEF Unfolds
<1> QED
    BY <1>1, <1>2, <1>4, <1>5, <1>6, <1>8, <1>9

\* The bytes are added from the last to the first.
LEMMA FromLittleEndianNext ==
    ASSUME NEW s \in Seq(Byte)
    PROVE  \E v \in [0..Len(s) -> Nat] :
              /\ v[0] = 0 /\ FromLittleEndian(s) = v[Len(s)]
              /\ \A i \in 1..Len(s) : v[i] = v[i - 1] * Base + s[Len(s) + 1 - i]
<1> DEFINE n == Len(s)
           At1(i) == s[n + 1 - i]
           G == [p \in Nat \X Nat |-> IF p[1] \in 1..n THEN p[2] * Base + At1(p[1]) ELSE 0]
           Rec(g) == g = [i \in 0..n |-> IF i = 0 THEN 0 ELSE g[i - 1] * Base + At1(i)]
           F == CHOOSE g : Rec(g)
<1>1. FromLittleEndian(s) = F[n]
    BY DEF FromLittleEndian
<1>2. n \in Nat /\ \A i \in 1..n : At1(i) \in Nat
    BY BaseIs
<1>3. Base \in Nat /\ \A v \in Nat : v * Base \in Nat
    BY BaseIs
<1> HIDE DEF At1, n
<1>4. /\ G \in [Nat \X Nat -> Nat]
      /\ \A i \in 1..n : \A v \in Nat : G[<<i, v>>] = v * Base + At1(i)
    <2>1. \A i \in 1..n : \A v \in Nat : v * Base + At1(i) \in Nat
        <3>1. \A u \in Nat : \A r \in Nat : u + r \in Nat
            OBVIOUS
        <3> QED
            BY <1>2, <1>3, <3>1
    <2>2. \A p \in Nat \X Nat : (IF p[1] \in 1..n THEN p[2] * Base + At1(p[1]) ELSE 0) \in Nat
        BY <2>1
    <2>3. \A i \in 1..n : i \in Nat
        OBVIOUS
    <2> QED
        BY <2>2, <2>3
<1> HIDE DEF G
<1>5. PICK g \in [0..n -> Nat] : Unfolds(g, 0, G, n)
    BY <1>2, <1>4, UnfoldsSome
<1>6. \A i \in 0..n : i # 0 => /\ i - 1 \in 0..(n - 1) /\ i - 1 \in 0..n
                               /\ (i - 1) + 1 = i /\ i \in 1..n
    BY <1>2
<1>7. \A i \in 0..n : g[i] = IF i = 0 THEN 0 ELSE g[i - 1] * Base + At1(i)
    <2>1. \A i \in 0..n : i # 0 => g[i] = G[<<i, g[i - 1]>>] /\ g[i - 1] \in Nat
        BY <1>5, <1>6 DEF Unfolds
    <2> QED
        BY <1>4, <1>5, <1>6, <2>1 DEF Unfolds
<1>8. Rec(g)
    BY <1>7
<1>9. Rec(F)
    BY <1>8
<1> HIDE DEF F
<1>10. F = [i \in 0..n |-> IF i = 0 THEN 0 ELSE F[i - 1] * Base + At1(i)]
    BY <1>9
<1> HIDE DEF Rec
<1>11. \A i \in 0..n : F[i] = IF i = 0 THEN 0 ELSE F[i - 1] * Base + At1(i)
    BY <1>10
<1>12. 0 \in 0..n /\ \A i \in 1..n : i \in 0..n /\ i # 0
    BY <1>2
<1>13. Unfolds(F, 0, G, n) /\ \A i \in 0..n : F[i] \in Nat
    <2>1. F[0] = 0 /\ \A i \in 1..n : F[i - 1] \in Nat => F[i] = G[<<i, F[i - 1]>>]
        BY <1>4, <1>11, <1>12
    <2> QED
        BY SMTT(30), <1>2, <1>4, <2>1, NumbersUnfold
<1>14. F \in [0..n -> Nat]
    BY <1>10, <1>13
<1>15. F[0] = 0 /\ \A i \in 1..n : F[i] = F[i - 1] * Base + At1(i)
    BY <1>11, <1>12
<1> QED
    BY <1>1, <1>14, <1>15 DEF n, At1

LEMMA LittleEndianTyped ==
    ASSUME NEW n \in Nat, NEW w \in Nat
    PROVE  /\ LittleEndian(n, w) \in Seq(Byte) /\ Len(LittleEndian(n, w)) = w
           /\ DOMAIN LittleEndian(n, w) = 1..w
           /\ \A i \in 1..w : LittleEndian(n, w)[i] = Shifted(n, i - 1) % Base
<1>1. \A i \in 1..w : i - 1 \in Nat
    OBVIOUS
<1>2. \A i \in 1..w : Shifted(n, i - 1) \in Nat
    BY <1>1, ShiftedNext
<1>3. \A i \in 1..w : Shifted(n, i - 1) % Base \in Byte
    BY <1>2, Division, BaseIs
<1> QED
    BY <1>3 DEF LittleEndian

\* The bytes of the number that some bytes make are these bytes.
LEMMA BytesBack ==
    ASSUME NEW s \in Seq(Byte)
    PROVE  /\ FromLittleEndian(s) \in Nat
           /\ LittleEndian(FromLittleEndian(s), Len(s)) = s
           /\ Shifted(FromLittleEndian(s), Len(s)) = 0
<1> DEFINE n == Len(s)
           x == FromLittleEndian(s)
<1>1. PICK v \in [0..n -> Nat] :
              /\ v[0] = 0 /\ x = v[n]
              /\ \A i \in 1..n : v[i] = v[i - 1] * Base + s[n + 1 - i]
    BY FromLittleEndianNext
<1>2. n \in Nat /\ n \in 0..n /\ \A i \in 1..n : s[i] \in Byte
    OBVIOUS
<1>3. x \in Nat
    BY <1>1, <1>2
<1> HIDE DEF n, x
<1>4. ASSUME NEW j \in 1..n
      PROVE  v[j] \div Base = v[j - 1] /\ v[j] % Base = s[n + 1 - j]
    <2>1. j - 1 \in 0..n /\ n + 1 - j \in 1..n
        BY <1>2
    <2>2. v[j - 1] \in Nat /\ s[n + 1 - j] \in 0..(Base - 1)
        BY <1>1, <1>2, <2>1, BaseIs
    <2>3. v[j] = v[j - 1] * Base + s[n + 1 - j]
        BY <1>1
    <2>4. PICK q \in Nat, r \in 0..(Base - 1) : q = v[j - 1] /\ r = s[n + 1 - j]
        BY <2>2
    <2>5. (q * Base + r) \div Base = q /\ (q * Base + r) % Base = r
        BY DivisionOnce, BaseIs
    <2>6. v[j] = q * Base + r
        BY <2>3, <2>4
    <2> QED
        BY <2>4, <2>5, <2>6
<1> DEFINE P == {i \in Nat : i <= n => Shifted(x, i) = v[n - i]}
<1>5. 0 \in P
    BY <1>1, <1>2, <1>3, ShiftedNext
<1>6. ASSUME NEW i \in Nat, i \in P PROVE i + 1 \in P
    <2>1. Shifted(x, i + 1) = Shifted(x, i) \div Base
        BY <1>3, ShiftedNext
    <2>2. i + 1 \in Nat /\ (i + 1 <= n => i <= n /\ n - i \in 1..n /\ (n - i) - 1 = n - (i + 1))
        BY <1>2
    <2>3. i + 1 <= n => v[n - i] \div Base = v[n - (i + 1)]
        BY <1>4, <2>2
    <2> QED
        BY <1>6, <2>1, <2>2, <2>3
<1> HIDE DEF P
<1>7. Nat \subseteq P
    BY <1>5, <1>6, SetInduction
<1>8. ASSUME NEW i \in 1..n PROVE LittleEndian(x, n)[i] = s[i]
    <2>1. /\ i - 1 \in Nat /\ i - 1 <= n /\ n - (i - 1) \in 1..n
          /\ n + 1 - (n - (i - 1)) = i
        BY <1>2
    <2>2. Shifted(x, i - 1) = v[n - (i - 1)]
        BY <1>7, <2>1 DEF P
    <2>3. v[n - (i - 1)] % Base = s[i]
        BY <1>4, <2>1
    <2> QED
        BY <1>2, <1>3, <2>2, <2>3, LittleEndianTyped
<1>9. LittleEndian(x, n) \in Seq(Byte) /\ Len(LittleEndian(x, n)) = n
    BY <1>2, <1>3, LittleEndianTyped
<1>10. LittleEndian(x, n) = s
    <2> DEFINE t == LittleEndian(x, n)
    <2>1. t \in Seq(Byte) /\ Len(t) = n /\ \A i \in 1..n : t[i] = s[i]
        BY <1>8, <1>9
    <2> HIDE DEF t
    <2>2. t = s
        BY <2>1, SeqEqual DEF n
    <2> QED
        BY <2>2 DEF t
<1>11. Shifted(x, n) = v[n - n] /\ n - n = 0
    BY <1>2, <1>7 DEF P
<1> QED
    BY <1>1, <1>3, <1>10, <1>11 DEF n, x

\* A number that w bytes have room for is the number its w bytes make.
LEMMA NumberBack ==
    ASSUME NEW n \in Nat, NEW w \in Nat, Shifted(n, w) = 0
    PROVE  FromLittleEndian(LittleEndian(n, w)) = n
<1> DEFINE s == LittleEndian(n, w)
<1>1. s \in Seq(Byte) /\ Len(s) = w /\ \A i \in 1..w : s[i] = Shifted(n, i - 1) % Base
    BY LittleEndianTyped
<1> HIDE DEF s
<1>2. PICK v \in [0..w -> Nat] :
              /\ v[0] = 0 /\ FromLittleEndian(s) = v[w]
              /\ \A i \in 1..w : v[i] = v[i - 1] * Base + s[w + 1 - i]
    BY <1>1, FromLittleEndianNext
<1> DEFINE P == {i \in Nat : i <= w => v[i] = Shifted(n, w - i)}
<1>3. 0 \in P
    BY <1>2
<1>4. ASSUME NEW i \in Nat, i \in P PROVE i + 1 \in P
    <2> SUFFICES ASSUME i + 1 <= w PROVE v[i + 1] = Shifted(n, w - (i + 1))
        <3>1. i + 1 \in Nat
            OBVIOUS
        <3> QED
            BY <3>1
    <2> DEFINE k == w - (i + 1)
    <2>1. /\ k \in Nat /\ k + 1 = w - i /\ (k + 1) - 1 = k /\ k + 1 \in 1..w
          /\ i + 1 \in 1..w /\ (i + 1) - 1 = i /\ (w + 1) - (i + 1) = k + 1 /\ i <= w
        OBVIOUS
    <2> HIDE DEF k
    <2> DEFINE j == i + 1
    <2>2. v[j] = v[j - 1] * Base + s[(w + 1) - j]
        <3>1. j \in 1..w
            BY <2>1
        <3> HIDE DEF j
        <3> QED
            BY <1>2, <3>1
    <2>3. v[i] = Shifted(n, k) \div Base
        <3>1. v[i] = Shifted(n, w - i)
            BY <1>4, <2>1
        <3>2. Shifted(n, k + 1) = Shifted(n, k) \div Base
            BY <2>1, ShiftedNext
        <3> QED
            BY <2>1, <3>1, <3>2
    <2>4. s[k + 1] = Shifted(n, k) % Base
        <3>1. s[k + 1] = Shifted(n, (k + 1) - 1) % Base
            BY <1>1, <2>1
        <3> QED
            BY <2>1, <3>1
    <2>5. v[j] = (Shifted(n, k) \div Base) * Base + (Shifted(n, k) % Base)
        BY <2>1, <2>2, <2>3, <2>4
    <2>6. v[i + 1] = Shifted(n, k)
        <3> DEFINE x == Shifted(n, k)
        <3>1. x \in Nat
            BY <2>1, ShiftedNext
        <3>2. v[j] = (x \div Base) * Base + (x % Base)
            BY <2>5
        <3> HIDE DEF x
        <3>3. x = (x \div Base) * Base + (x % Base)
            BY <3>1, BaseIs, Division
        <3> QED
            BY <3>2, <3>3 DEF x
    <2> QED
        BY <2>6 DEF k
<1> HIDE DEF P
<1>5. Nat \subseteq P
    BY <1>3, <1>4, SetInduction
<1>6. v[w] = Shifted(n, w - w) /\ w - w = 0
    BY <1>5 DEF P
<1>7. FromLittleEndian(s) = n
    BY <1>2, <1>6, ShiftedNext
<1> QED
    BY <1>7 DEF s

\* What w bytes have room for.
LEMMA Room ==
    ASSUME NEW n \in Nat
    PROVE  /\ Shifted(n, 2) = 0 <=> n < Smallest(4)
           /\ Shifted(n, 4) = 0 <=> n < Smallest(8)
           /\ Shifted(n, 8) = 0 <=> n < Smallest(8) * Smallest(8)
<1>1. ASSUME NEW i \in Nat, NEW c \in Nat
      PROVE  Shifted(n, i + 1) < c <=> Shifted(n, i) < Base * c
    <2>1. PICK m \in Nat : m = Shifted(n, i)
        BY ShiftedNext
    <2>2. Shifted(n, i + 1) = m \div Base
        BY <2>1, ShiftedNext
    <2> QED
        BY <2>1, <2>2, BaseIs, QuotientBelow
<1>2. \A i \in Nat : Shifted(n, i) \in Nat
    BY ShiftedNext
<1>3. Shifted(n, 0) = n
    BY ShiftedNext
<1>4. \A i \in Nat : Shifted(n, i) = 0 <=> Shifted(n, i) < 1
    BY <1>2
<1>5. ASSUME NEW i \in Nat, NEW c \in Nat
      PROVE  Shifted(n, i + 2) < c <=> Shifted(n, i) < Base * (Base * c)
    <2>1. Base * c \in Nat /\ i + 1 \in Nat /\ (i + 1) + 1 = i + 2
        BY BaseIs
    <2> QED
        BY <1>1, <2>1
<1>6. ASSUME NEW i \in Nat, NEW c \in Nat
      PROVE  Shifted(n, i + 4) < c <=> Shifted(n, i) < Base * (Base * (Base * (Base * c)))
    <2>1. Base * (Base * c) \in Nat /\ i + 2 \in Nat /\ (i + 2) + 2 = i + 4
        BY BaseIs
    <2> QED
        BY <1>5, <2>1
<1>7. Shifted(n, 2) = 0 <=> n < Base * Base
    <2>1. Base * (Base * 1) = Base * Base /\ 0 + 2 = 2 /\ 2 \in Nat
        BY BaseIs
    <2> QED
        BY <1>3, <1>4, <1>5, <2>1
<1>8. Shifted(n, 4) = 0 <=> n < Base * Base * Base * Base
    <2>1. Base * (Base * (Base * (Base * 1))) = Base * Base * Base * Base /\ 0 + 4 = 4 /\ 4 \in Nat
        BY BaseIs
    <2> QED
        BY <1>3, <1>4, <1>6, <2>1
<1>9. Shifted(n, 8) = 0 <=> n < (Base * Base * Base * Base) * (Base * Base * Base * Base)
    <2> DEFINE p == Base * Base * Base * Base
    <2>1. p \in Nat /\ 4 + 4 = 8 /\ 0 + 4 = 4 /\ 8 \in Nat
        BY BaseIs
    <2>2. Base * (Base * (Base * (Base * 1))) = p
        BY BaseIs
    <2>3. \A c \in Nat : Base * (Base * (Base * (Base * c))) = p * c
        BY BaseIs
    <2> HIDE DEF p
    <2>4. Shifted(n, 8) = 0 <=> Shifted(n, 4) < p
        BY <1>4, <1>6, <2>1, <2>2
    <2>5. Shifted(n, 4) < p <=> n < p * p
        BY <1>3, <1>6, <2>1, <2>3
    <2> QED
        BY <2>4, <2>5 DEF p
<1> QED
    BY <1>7, <1>8, <1>9 DEF Smallest

Widths == {2, 4, 8}

LEMMA Widening ==
    /\ \A w \in Widths : /\ Smallest(w) \in Nat /\ Marker(w) \in Byte /\ Marker(w) >= Base - 3
                         /\ w \in Nat /\ w # 0
    /\ \A w, x \in Widths : /\ Marker(w) = Marker(x) => w = x
                            /\ w < x <=> Smallest(w) < Smallest(x)
    /\ Smallest(2) = Base - 3 /\ Marker(2) = Base - 3
    /\ \A m \in Byte : m >= Base - 3 => \E w \in Widths : m = Marker(w)
<1> DEFINE p == Base * Base
           q == p * Base * Base
<1>1. p \in Nat /\ Base - 3 < p
    <2>1. Base * 1 <= Base * Base
        BY BaseIs, Products
    <2> QED
        BY <2>1, BaseIs
<1>2. q \in Nat /\ p < q
    <2> HIDE DEF p
    <2>1. p * Base \in Nat /\ p * 1 < p * Base
        BY <1>1, BaseIs, Products
    <2>2. PICK r \in Nat : r = p * Base
        BY <2>1
    <2>3. r * Base \in Nat /\ r * 1 < r * Base
        BY <1>1, <2>1, <2>2, BaseIs, Products
    <2> QED
        BY <1>1, <2>1, <2>2, <2>3
<1>3. Smallest(2) = Base - 3 /\ Smallest(4) = p /\ Smallest(8) = q
    BY DEF Smallest
<1> HIDE DEF p, q
<1>4. Marker(2) = Base - 3 /\ Marker(4) = Base - 2 /\ Marker(8) = Base - 1
    BY DEF Marker
<1>5. \A w \in Widths : /\ Smallest(w) \in Nat /\ Marker(w) \in Byte /\ Marker(w) >= Base - 3
                         /\ w \in Nat /\ w # 0
    BY <1>1, <1>2, <1>3, <1>4, BaseIs DEF Widths
<1>6. \A w, x \in Widths : Marker(w) = Marker(x) => w = x
    BY <1>4, BaseIs DEF Widths
<1>7. \A w, x \in Widths : w < x <=> Smallest(w) < Smallest(x)
    BY <1>1, <1>2, <1>3, BaseIs DEF Widths
<1>8. \A m \in Byte : m >= Base - 3 => \E w \in Widths : m = Marker(w)
    BY <1>4, BaseIs DEF Widths
<1> QED
    BY <1>3, <1>4, <1>5, <1>6, <1>7, <1>8

\* w is the width of an integer n that does not fit a byte.
Width(n, w) == w \in Widths /\ Smallest(w) <= n /\ \A x \in Widths : Smallest(x) <= n => x <= w

LEMMA EncodeForm ==
    ASSUME NEW n \in Nat
    PROVE  /\ n < Base - 3 => EncodeVarint(n) = <<n>>
           /\ n >= Base - 3 => \E w \in Widths : Width(n, w)
           /\ \A w \in Widths : n >= Base - 3 /\ Width(n, w)
                 => EncodeVarint(n) = <<Marker(w)>> \o LittleEndian(n, w)
<1>1. n < Base - 3 => EncodeVarint(n) = <<n>>
    BY Widening DEF EncodeVarint
<1>2. ASSUME n >= Base - 3 PROVE \E w \in Widths : Width(n, w)
    <2>1. \A w \in Widths : Smallest(w) \in Nat
        BY Widening
    <2>2. Smallest(2) <= n
        BY <1>2, Widening
    <2>3. CASE Smallest(8) <= n
        BY <2>3 DEF Widths, Width
    <2>4. CASE ~(Smallest(8) <= n) /\ Smallest(4) <= n
        BY <2>4 DEF Widths, Width
    <2>5. CASE ~(Smallest(8) <= n) /\ ~(Smallest(4) <= n)
        BY <2>2, <2>5 DEF Widths, Width
    <2> QED
        BY <2>3, <2>4, <2>5
<1>3. ASSUME NEW w \in Widths, n >= Base - 3, Width(n, w)
      PROVE  EncodeVarint(n) = <<Marker(w)>> \o LittleEndian(n, w)
    <2> DEFINE W(x) == x \in Widths /\ Smallest(x) <= n
                       /\ \A y \in Widths : Smallest(y) <= n => y <= x
               z == CHOOSE x \in {2, 4, 8} :
                        Smallest(x) <= n /\ \A y \in {2, 4, 8} : Smallest(y) <= n => y <= x
    <2>1. z \in Widths /\ Smallest(z) <= n /\ \A y \in Widths : Smallest(y) <= n => y <= z
        BY <1>3 DEF Width, Widths
    <2>2. EncodeVarint(n) = <<Marker(z)>> \o LittleEndian(n, z)
        BY <1>3, Widening, BaseIs DEF EncodeVarint
    <2> HIDE DEF z
    <2>3. z = w
        <3>1. \A y \in Widths : y \in Nat
            BY Widening
        <3>2. w <= z /\ z <= w
            BY <1>3, <2>1 DEF Width
        <3> QED
            BY <1>3, <2>1, <3>1, <3>2
    <2> QED
        BY <2>2, <2>3
<1> QED
    BY <1>1, <1>2, <1>3

LEMMA EncodeTyped ==
    ASSUME NEW n \in Nat
    PROVE  EncodeVarint(n) \in Seq(Byte) /\ EncodeVarint(n) # <<>> /\ Len(EncodeVarint(n)) \in Nat \ {0}
<1>1. CASE n < Base - 3
    <2>1. n \in Byte
        BY <1>1, BaseIs
    <2>2. <<n>> \in Seq(Byte) /\ <<n>> # <<>> /\ Len(<<n>>) = 1
        BY <2>1
    <2>3. EncodeVarint(n) = <<n>>
        BY <1>1, EncodeForm
    <2> QED
        BY <2>2, <2>3
<1>2. CASE n >= Base - 3
    <2>1. PICK w \in Widths : Width(n, w)
        BY <1>2, EncodeForm
    <2>2. EncodeVarint(n) = <<Marker(w)>> \o LittleEndian(n, w)
        BY <1>2, <2>1, EncodeForm
    <2>3. Marker(w) \in Byte /\ w \in Nat
        BY Widening
    <2>4. LittleEndian(n, w) \in Seq(Byte) /\ <<Marker(w)>> \in Seq(Byte) /\ Len(<<Marker(w)>>) = 1
        BY <2>3, LittleEndianTyped
    <2> HIDE DEF Width
    <2> DEFINE a == <<Marker(w)>>
               b == LittleEndian(n, w)
    <2>5. a \in Seq(Byte) /\ b \in Seq(Byte) /\ Len(a) = 1 /\ EncodeVarint(n) = a \o b
        BY <2>2, <2>4
    <2> HIDE DEF a, b
    <2>6. a \o b \in Seq(Byte) /\ Len(a \o b) = Len(a) + Len(b) /\ Len(b) \in Nat
        BY <2>5, ConcatProperties
    <2> QED
        BY <2>5, <2>6
<1> QED
    BY <1>1, <1>2, BaseIs

\* A marker and the bytes after it.
LEMMA ParseWide ==
    ASSUME NEW s \in Seq(Byte), s # <<>>, NEW w \in Widths, s[1] = Marker(w)
    PROVE  LET x == FromLittleEndian(SubSeq(s, 2, 1 + w))
           IN  ParseVarint(s) = IF Len(s) < 1 + w \/ x < Smallest(w) THEN NoVarint
                                ELSE [ok |-> TRUE, value |-> x, used |-> 1 + w]
<1> DEFINE z == CHOOSE x \in {2, 4, 8} : s[1] = Marker(x)
<1>1. z \in Widths /\ s[1] = Marker(z)
    BY DEF Widths
<1>2. z = w
    <2> HIDE DEF z
    <2> QED
        BY <1>1, Widening
<1>3. ~(s[1] < Marker(2))
    BY Widening, BaseIs
<1> DEFINE value == FromLittleEndian(SubSeq(s, 2, 1 + z))
<1>4. ParseVarint(s) = IF Len(s) < 1 + z \/ value < Smallest(z) THEN NoVarint
                       ELSE [ok |-> TRUE, value |-> value, used |-> 1 + z]
    BY <1>3 DEF ParseVarint
<1> HIDE DEF z
<1> QED
    BY <1>2, <1>4

-----------------------------------------------------------------------------
(* Parts of a sequence                                                     *)

\* The sequence p stands in s after its first o elements.
Has(s, o, p) == o + Len(p) <= Len(s) /\ \A i \in 1..Len(p) : s[o + i] = p[i]

LEMMA Sliced ==
    ASSUME NEW V, NEW s \in Seq(V), NEW o \in Nat, NEW n \in Nat, o + n <= Len(s)
    PROVE  /\ SubSeq(s, o + 1, o + n) \in Seq(V)
           /\ Len(SubSeq(s, o + 1, o + n)) = n
           /\ \A i \in 1..n : SubSeq(s, o + 1, o + n)[i] = s[o + i]
           /\ Has(s, o, SubSeq(s, o + 1, o + n))
<1>1. \A i \in (o + 1)..(o + n) : i \in 1..Len(s) /\ s[i] \in V
    OBVIOUS
<1>2. o + 1 \in Int /\ o + n \in Int
    OBVIOUS
<1> DEFINE t == SubSeq(s, o + 1, o + n)
           m == (o + n) - (o + 1) + 1
<1>3. t \in Seq(V) /\ Len(t) = (IF o + 1 <= o + n THEN m ELSE 0)
      /\ \A i \in 1..m : t[i] = s[(o + 1) + i - 1]
    BY <1>1, <1>2, SubSeqProperties
<1>4. m = n /\ (o + 1 <= o + n <=> n # 0) /\ \A i \in 1..n : (o + 1) + i - 1 = o + i
    OBVIOUS
<1> HIDE DEF t, m
<1>5. Len(t) = n /\ \A i \in 1..n : t[i] = s[o + i]
    BY <1>3, <1>4
<1> QED
    BY <1>3, <1>5 DEF Has, t

\* A part is the slice of its length.
LEMMA HasSlice ==
    ASSUME NEW V, NEW s \in Seq(V), NEW o \in Nat, NEW p \in Seq(V)
    PROVE  Has(s, o, p) <=> o + Len(p) <= Len(s) /\ SubSeq(s, o + 1, o + Len(p)) = p
<1>1. Len(p) \in Nat
    OBVIOUS
<1>2. ASSUME Has(s, o, p) PROVE SubSeq(s, o + 1, o + Len(p)) = p
    <2>1. o + Len(p) <= Len(s) /\ \A i \in 1..Len(p) : s[o + i] = p[i]
        BY <1>2 DEF Has
    <2> DEFINE t == SubSeq(s, o + 1, o + Len(p))
    <2>2. t \in Seq(V) /\ Len(t) = Len(p) /\ \A i \in 1..Len(p) : t[i] = s[o + i]
        BY <1>1, <2>1, Sliced
    <2> HIDE DEF t
    <2>3. t = p
        BY <2>1, <2>2, SeqEqual
    <2> QED
        BY <2>3 DEF t
<1>3. o + Len(p) <= Len(s) /\ SubSeq(s, o + 1, o + Len(p)) = p => Has(s, o, p)
    BY ZenonT(60), <1>1, Sliced
<1> QED
    BY <1>2, <1>3 DEF Has

\* Parts at the same place with the same length are the same.
LEMMA HasOne ==
    ASSUME NEW V, NEW s, NEW o, NEW p \in Seq(V), NEW q \in Seq(V),
           Has(s, o, p), Has(s, o, q), Len(p) = Len(q)
    PROVE  p = q
<1>1. \A i \in 1..Len(p) : p[i] = q[i]
    BY DEF Has
<1> QED
    BY <1>1, SeqEqual

LEMMA HasJoined ==
    ASSUME NEW V, NEW s \in Seq(V), NEW o \in Nat, NEW p \in Seq(V), NEW q \in Seq(V)
    PROVE  Has(s, o, p \o q) <=> Has(s, o, p) /\ Has(s, o + Len(p), q)
<1> DEFINE r == p \o q
           m == Len(p)
           n == Len(q)
<1>1. Len(r) = m + n /\ m \in Nat /\ n \in Nat /\ Len(s) \in Nat
    BY ConcatProperties
<1>2. \A i \in 1..(m + n) : r[i] = IF i <= m THEN p[i] ELSE q[i - m]
    BY ConcatProperties
<1> HIDE DEF r
<1>3. ASSUME Has(s, o, r) PROVE Has(s, o, p) /\ Has(s, o + m, q)
    <2> HIDE DEF m, n
    <2>1. o + (m + n) <= Len(s) /\ \A i \in 1..(m + n) : s[o + i] = r[i]
        BY <1>1, <1>3 DEF Has
    <2>2. ASSUME NEW i \in 1..m PROVE s[o + i] = p[i]
        BY <1>1, <1>2, <2>1
    <2>3. ASSUME NEW i \in 1..n PROVE s[(o + m) + i] = q[i]
        <3>1. m + i \in 1..(m + n) /\ ~(m + i <= m) /\ (m + i) - m = i /\ o + (m + i) = (o + m) + i
            BY <1>1
        <3>2. s[o + (m + i)] = r[m + i] /\ r[m + i] = q[(m + i) - m]
            BY <1>2, <2>1, <3>1
        <3> QED
            BY <3>1, <3>2
    <2> QED
        BY <1>1, <2>1, <2>2, <2>3 DEF Has, m, n
<1>4. ASSUME Has(s, o, p), Has(s, o + m, q) PROVE Has(s, o, r)
    <2>1. /\ o + m <= Len(s) /\ \A i \in 1..m : s[o + i] = p[i]
          /\ (o + m) + n <= Len(s) /\ \A i \in 1..n : s[(o + m) + i] = q[i]
        BY <1>4 DEF Has
    <2> HIDE DEF m, n
    <2>2. ASSUME NEW i \in 1..(m + n) PROVE s[o + i] = r[i]
        <3>1. CASE i <= m
            <4>1. i \in 1..m /\ r[i] = p[i]
                BY <1>1, <1>2, <3>1
            <4> QED
                BY <2>1, <4>1
        <3>2. CASE ~(i <= m)
            <4>1. i - m \in 1..n /\ (o + m) + (i - m) = o + i
                BY <1>1, <3>2
            <4>2. s[(o + m) + (i - m)] = q[i - m] /\ r[i] = q[i - m]
                BY <1>2, <2>1, <3>2, <4>1
            <4> QED
                BY <4>1, <4>2
        <3> QED
            BY <3>1, <3>2
    <2> QED
        BY <1>1, <2>1, <2>2 DEF Has
<1> QED
    BY <1>3, <1>4 DEF r

\* What stands in the rest of a sequence stands in the sequence.
LEMMA HasRest ==
    ASSUME NEW V, NEW s \in Seq(V), NEW o \in Nat, o <= Len(s)
    PROVE  LET t == SubSeq(s, o + 1, Len(s))
           IN  /\ t \in Seq(V) /\ Len(t) = Len(s) - o
               /\ \A i \in 1..(Len(s) - o) : t[i] = s[o + i]
               /\ \A k \in Nat, p \in Seq(V) : Has(t, k, p) <=> Has(s, o + k, p)
<1> DEFINE n == Len(s) - o
           t == SubSeq(s, o + 1, Len(s))
<1>1. n \in Nat /\ o + n = Len(s) /\ Len(s) \in Nat
    OBVIOUS
<1>2. t = SubSeq(s, o + 1, o + n)
    BY <1>1
<1> HIDE DEF n
<1>3. t \in Seq(V) /\ Len(t) = n /\ \A i \in 1..n : t[i] = s[o + i]
    <2> HIDE DEF t
    <2> QED
        BY <1>1, <1>2, Sliced
<1> HIDE DEF t
<1>4. ASSUME NEW k \in Nat, NEW p \in Seq(V) PROVE Has(t, k, p) <=> Has(s, o + k, p)
    <2>1. Len(p) \in Nat
        OBVIOUS
    <2>2. k + Len(p) <= n <=> (o + k) + Len(p) <= Len(s)
        BY <1>1, <2>1
    <2>3. ASSUME k + Len(p) <= n, NEW i \in 1..Len(p) PROVE t[k + i] = s[(o + k) + i]
        <3>1. k + i \in 1..n /\ o + (k + i) = (o + k) + i
            BY <1>1, <2>1, <2>3
        <3> QED
            BY <1>3, <3>1
    <2> QED
        BY <1>3, <2>2, <2>3 DEF Has
<1> QED
    BY <1>3, <1>4 DEF t, n

\* Of f[1] \o f[2] \o ..., which stands in s after o elements, the i-th part.
Placed(s, o, f, i) ==
    /\ Len(Concat(f, i - 1)) \in Nat
    /\ Has(s, o + Len(Concat(f, i - 1)), f[i])
    /\ Len(Concat(f, i)) = Len(Concat(f, i - 1)) + Len(f[i])

LEMMA HasConcat ==
    ASSUME NEW V, NEW s \in Seq(V), NEW o \in Nat, NEW n \in Nat, NEW f,
           \A i \in 1..n : f[i] \in Seq(V), Has(s, o, Concat(f, n))
    PROVE  \A i \in 1..n : Placed(s, o, f, i)
<1>1. ASSUME NEW m \in Nat, m <= n
      PROVE  /\ Concat(f, m) \in Seq(V) /\ Len(Concat(f, m)) \in Nat
             /\ m # 0 => Concat(f, m) = Concat(f, m - 1) \o f[m] /\ f[m] \in Seq(V)
    <2>1. \A i \in 1..m : f[i] \in Seq(V)
        BY <1>1
    <2>2. Concat(f, m) \in Seq(V) /\ (m # 0 => Concat(f, m) = Concat(f, m - 1) \o f[m])
        BY <2>1, ConcatNext
    <2>3. m # 0 => m \in 1..n
        BY <1>1
    <2> DEFINE c == Concat(f, m)
    <2>4. c \in Seq(V)
        BY <2>2
    <2> HIDE DEF c
    <2>5. Len(c) \in Nat
        BY <2>4
    <2> QED
        BY <2>2, <2>3, <2>5 DEF c
<1> DEFINE P == {k \in Nat : k <= n => Has(s, o, Concat(f, n - k))}
<1>2. 0 \in P
    <2>1. n - 0 = n
        OBVIOUS
    <2> QED
        BY <2>1
<1>3. ASSUME NEW k \in Nat, k \in P PROVE k + 1 \in P
    <2>1. k + 1 \in Nat /\ (k + 1 <= n => /\ k <= n /\ n - k \in Nat /\ n - k # 0 /\ n - k <= n
                                          /\ (n - k) - 1 = n - (k + 1) /\ n - (k + 1) \in Nat
                                          /\ n - (k + 1) <= n)
        OBVIOUS
    <2>2. ASSUME k + 1 <= n PROVE Has(s, o, Concat(f, n - (k + 1)))
        <3> DEFINE c == Concat(f, n - (k + 1))
                   d == f[n - k]
        <3>1. c \in Seq(V) /\ d \in Seq(V) /\ Concat(f, n - k) = c \o d
            BY <1>1, <2>1, <2>2
        <3>2. Has(s, o, Concat(f, n - k))
            BY <1>3, <2>1, <2>2
        <3> HIDE DEF c, d
        <3>3. Has(s, o, c)
            BY <3>1, <3>2, HasJoined
        <3> QED
            BY <3>3 DEF c
    <2> QED
        BY <2>1, <2>2
<1> HIDE DEF P
<1>4. Nat \subseteq P
    BY <1>2, <1>3, SetInduction
<1> SUFFICES ASSUME NEW i \in 1..n
             PROVE  /\ Len(Concat(f, i - 1)) \in Nat
                    /\ Has(s, o + Len(Concat(f, i - 1)), f[i])
                    /\ Len(Concat(f, i)) = Len(Concat(f, i - 1)) + Len(f[i])
    BY DEF Placed
<1>5. i \in Nat /\ i <= n /\ i # 0 /\ i - 1 \in Nat /\ i - 1 <= n /\ n - i \in Nat /\ n - (n - i) = i
      /\ n - i <= n
    OBVIOUS
<1> DEFINE c == Concat(f, i - 1)
           d == f[i]
<1>6. c \in Seq(V) /\ Len(c) \in Nat /\ d \in Seq(V) /\ Concat(f, i) = c \o d
    BY <1>1, <1>5
<1>7. Has(s, o, Concat(f, i))
    BY <1>4, <1>5 DEF P
<1> HIDE DEF c, d
<1>8. Has(s, o + Len(c), d) /\ Len(c \o d) = Len(c) + Len(d)
    BY <1>6, <1>7, HasJoined, ConcatProperties
<1> QED
    BY <1>6, <1>8 DEF c, d

\* n fits eight bytes.
Encodable(n) == n \in Nat /\ Shifted(n, 8) = 0

LEMMA UsizeEncodable ==
    UsizeMax \in Nat /\ \A n \in Nat : n <= UsizeMax => Encodable(n)
<1> DEFINE wide == Smallest(8) * Smallest(8)
<1>1. UsizeMax \in Nat /\ UsizeMax < wide
    BY VarintAssumption
<1>2. wide \in Nat
    <2>1. 8 \in Widths
        BY DEF Widths
    <2>2. Smallest(8) \in Nat
        BY <2>1, Widening
    <2> QED
        BY <2>2
<1>3. \A n \in Nat : n < wide => Shifted(n, 8) = 0
    BY Room
<1> HIDE DEF wide
<1>4. \A n \in Nat : n <= UsizeMax => n < wide
    BY <1>1, <1>2
<1> QED
    BY <1>1, <1>3, <1>4 DEF Encodable

\* An integer of width w fits its bytes, and one that fits w bytes is no wider.
LEMMA WidthFits ==
    ASSUME NEW n \in Nat, NEW w \in Widths
    PROVE  /\ Width(n, w) /\ Encodable(n) => Shifted(n, w) = 0
           /\ Smallest(w) <= n /\ Shifted(n, w) = 0 => Width(n, w)
           /\ Shifted(n, w) = 0 => Encodable(n)
<1>1. /\ Shifted(n, 2) = 0 <=> n < Smallest(4)
      /\ Shifted(n, 4) = 0 <=> n < Smallest(8)
    BY Room
<1>2. Smallest(2) \in Nat /\ Smallest(4) \in Nat /\ Smallest(8) \in Nat
      /\ Smallest(2) < Smallest(4) /\ Smallest(4) < Smallest(8)
    <2>1. 2 \in Widths /\ 4 \in Widths /\ 8 \in Widths
        BY DEF Widths
    <2> QED
        BY <2>1, Widening
<1>3. ASSUME Width(n, w), Encodable(n) PROVE Shifted(n, w) = 0
    <2>1. CASE w = 2
        <3>1. ~(Smallest(4) <= n)
            BY <1>3, <2>1 DEF Width, Widths
        <3> QED
            BY <1>1, <1>2, <2>1, <3>1
    <2>2. CASE w = 4
        <3>1. ~(Smallest(8) <= n)
            BY <1>3, <2>2 DEF Width, Widths
        <3> QED
            BY <1>1, <1>2, <2>2, <3>1
    <2>3. CASE w = 8
        BY <1>3, <2>3 DEF Encodable
    <2> QED
        BY <2>1, <2>2, <2>3 DEF Widths
<1>4. ASSUME Smallest(w) <= n, Shifted(n, w) = 0 PROVE Width(n, w)
    BY <1>1, <1>2, <1>4 DEF Width, Widths
<1>5. ASSUME Shifted(n, w) = 0 PROVE Encodable(n)
    <2>1. \A i \in Nat : Shifted(n, i) = 0 => Shifted(n, i + 1) = 0
        <3>1. 0 \div Base = 0
            BY BaseIs, QuotientBelow, Division
        <3> QED
            BY <3>1, ShiftedNext
    <2>2. Shifted(n, 2) = 0 => Shifted(n, 4) = 0
        BY <1>1, <1>2
    <2>3. Shifted(n, 4) = 0 => Shifted(n, 8) = 0
        <3>1. /\ Shifted(n, 4) = 0 => Shifted(n, 4 + 1) = 0
              /\ Shifted(n, 5) = 0 => Shifted(n, 5 + 1) = 0
              /\ Shifted(n, 6) = 0 => Shifted(n, 6 + 1) = 0
              /\ Shifted(n, 7) = 0 => Shifted(n, 7 + 1) = 0
            BY <2>1
        <3>2. 4 + 1 = 5 /\ 5 + 1 = 6 /\ 6 + 1 = 7 /\ 7 + 1 = 8
            OBVIOUS
        <3> QED
            BY <3>1, <3>2
    <2> QED
        BY <1>5, <2>2, <2>3 DEF Widths, Encodable
<1> QED
    BY <1>3, <1>4, <1>5

\* What is parsed is the encoding of the value.
LEMMA ParseSound ==
    ASSUME NEW s \in Seq(Byte)
    PROVE  /\ ParseVarint(s).ok \in BOOLEAN
           /\ ParseVarint(s).value \in Nat /\ ParseVarint(s).used \in Nat
           /\ ParseVarint(s).ok =>
                 /\ Encodable(ParseVarint(s).value)
                 /\ ParseVarint(s).used = Len(EncodeVarint(ParseVarint(s).value))
                 /\ Has(s, 0, EncodeVarint(ParseVarint(s).value))
<1> DEFINE r == ParseVarint(s)
           Right == /\ r.ok \in BOOLEAN /\ r.value \in Nat /\ r.used \in Nat
                    /\ r.ok => /\ Encodable(r.value)
                               /\ r.used = Len(EncodeVarint(r.value))
                               /\ Has(s, 0, EncodeVarint(r.value))
<1>1. r = NoVarint => Right
    <2>1. NoVarint.ok = FALSE /\ NoVarint.value = 0 /\ NoVarint.used = 0
        BY DEF NoVarint
    <2> HIDE DEF r
    <2>2. ASSUME r = NoVarint PROVE ~r.ok /\ r.ok \in BOOLEAN /\ r.value \in Nat /\ r.used \in Nat
        <3>1. r.ok = FALSE /\ r.value = 0 /\ r.used = 0
            BY <2>1, <2>2
        <3>2. ~r.ok /\ r.ok \in BOOLEAN
            BY <3>1, Zenon
        <3> QED
            BY <3>1, <3>2
    <2> QED
        BY <2>2
<1>2. s = <<>> => r = NoVarint
    BY DEF ParseVarint
<1>3. ASSUME s # <<>>, s[1] < Base - 3 PROVE Right
    <2>1. s[1] \in Byte /\ Len(s) >= 1
        BY <1>3
    <2>2. PICK m \in Nat : m = s[1] /\ m < Base - 3
        BY <1>3, <2>1, BaseIs
    <2>3. r = [ok |-> TRUE, value |-> m, used |-> 1]
        BY <1>3, <2>2, Widening, BaseIs DEF ParseVarint
    <2> HIDE DEF r
    <2>4. r.ok = TRUE /\ r.value = m /\ r.used = 1
        BY <2>3
    <2>5. EncodeVarint(m) = <<m>>
        BY <2>2, EncodeForm
    <2>6. Has(s, 0, <<m>>) /\ Len(<<m>>) = 1
        BY <2>1, <2>2 DEF Has
    <2>7. Encodable(m)
        <3>1. Shifted(m, 2) = 0
            <4>1. 2 \in Widths /\ 4 \in Widths
                BY DEF Widths
            <4>2. Base - 3 < Smallest(4) /\ Smallest(4) \in Nat
                BY <4>1, Widening
            <4> QED
                BY <2>2, <4>2, Room, BaseIs
        <3> QED
            BY <3>1, WidthFits DEF Widths
    <2>8. Len(EncodeVarint(m)) = 1 /\ Has(s, 0, EncodeVarint(m))
        BY <2>5, <2>6
    <2>9. /\ Encodable(r.value) /\ Len(EncodeVarint(r.value)) = 1
          /\ Has(s, 0, EncodeVarint(r.value))
        BY <2>4, <2>7, <2>8
    <2>10. r.ok \in BOOLEAN
        BY <2>4, Zenon
    <2>11. r.value \in Nat /\ r.used \in Nat /\ r.used = 1
        BY <2>4
    <2> QED
        BY <2>9, <2>10, <2>11
<1>4. ASSUME s # <<>>, ~(s[1] < Base - 3) PROVE Right
    <2>1. s[1] \in Byte /\ Len(s) \in Nat
        BY <1>4
    <2>2. PICK w \in Widths : s[1] = Marker(w)
        BY <1>4, <2>1, Widening, BaseIs
    <2> DEFINE t == SubSeq(s, 2, 1 + w)
               x == FromLittleEndian(t)
    <2>3. r = IF Len(s) < 1 + w \/ x < Smallest(w) THEN NoVarint
              ELSE [ok |-> TRUE, value |-> x, used |-> 1 + w]
        BY <1>4, <2>2, ParseWide
    <2> SUFFICES ASSUME ~(Len(s) < 1 + w), ~(x < Smallest(w)) PROVE Right
        BY <1>1, <2>3
    <2>4. w \in Nat /\ 1 + w <= Len(s) /\ Marker(w) \in Byte /\ Smallest(w) \in Nat
        BY <2>1, <2>2, Widening
    <2>5. t \in Seq(Byte) /\ Len(t) = w /\ Has(s, 1, t)
        <3>1. 1 + 1 = 2
            OBVIOUS
        <3> QED
            BY <2>4, <3>1, Sliced
    <2> HIDE DEF t
    <2>6. x \in Nat /\ LittleEndian(x, w) = t /\ Shifted(x, w) = 0
        BY <2>5, BytesBack
    <2>7. r = [ok |-> TRUE, value |-> x, used |-> 1 + w]
        BY <2>3
    <2> HIDE DEF r, x
    <2>8. Smallest(w) <= x
        BY <2>4, <2>6
    <2>9. Width(x, w) /\ Encodable(x)
        BY <2>6, <2>8, WidthFits
    <2>10. x >= Base - 3
        <3>1. Smallest(2) <= Smallest(w) /\ Smallest(2) = Base - 3
            <4>1. 2 \in Widths /\ (w = 2 \/ 2 < w)
                BY DEF Widths
            <4> QED
                BY <4>1, Widening
        <3> QED
            BY <2>4, <2>6, <2>8, <3>1, BaseIs
    <2> DEFINE a == <<Marker(w)>>
    <2>11. EncodeVarint(x) = a \o t
        BY <2>6, <2>9, <2>10, EncodeForm
    <2>12. a \in Seq(Byte) /\ Len(a) = 1 /\ Has(s, 0, a)
        BY <2>2, <2>4 DEF Has
    <2> HIDE DEF a
    <2>13. Has(s, 0, a \o t) /\ Len(a \o t) = 1 + w
        <3>1. Has(s, 0 + Len(a), t) /\ 0 \in Nat
            BY <2>5, <2>12
        <3> QED
            BY ZenonT(60), <2>5, <2>12, <3>1, HasJoined, ConcatProperties
    <2>14. r.ok = TRUE /\ r.value = x /\ r.used = 1 + w /\ 1 + w \in Nat
        BY <2>4, <2>7
    <2> QED
        BY <2>6, <2>9, <2>11, <2>13, <2>14
<1>5. Right
    BY <1>1, <1>2, <1>3, <1>4
<1> QED
    BY <1>5

\* An integer that was encoded is parsed, whatever follows it.
LEMMA ParseComplete ==
    ASSUME NEW s \in Seq(Byte), NEW n, Encodable(n), Has(s, 0, EncodeVarint(n))
    PROVE  ParseVarint(s) = [ok |-> TRUE, value |-> n, used |-> Len(EncodeVarint(n))]
<1>1. n \in Nat
    BY DEF Encodable
<1>2. CASE n < Base - 3
    <2>1. EncodeVarint(n) = <<n>> /\ Len(<<n>>) = 1 /\ <<n>>[1] = n
        BY <1>1, <1>2, EncodeForm
    <2>2. Len(EncodeVarint(n)) = 1
        BY <2>1
    <2>3. Len(s) >= 1 /\ s[0 + 1] = n
        BY <2>1 DEF Has
    <2>4. s # <<>> /\ s[1] = n
        BY <2>3
    <2> QED
        BY <1>1, <1>2, <2>2, <2>4, Widening, BaseIs DEF ParseVarint
<1>3. CASE n >= Base - 3
    <2>1. PICK w \in Widths : Width(n, w)
        BY <1>1, <1>3, EncodeForm
    <2> DEFINE a == <<Marker(w)>>
               t == LittleEndian(n, w)
    <2>2. EncodeVarint(n) = a \o t
        BY <1>1, <1>3, <2>1, EncodeForm
    <2>3. w \in Nat /\ Marker(w) \in Byte /\ Smallest(w) \in Nat
        BY Widening
    <2>4. t \in Seq(Byte) /\ Len(t) = w
        BY <1>1, <2>3, LittleEndianTyped
    <2>5. a \in Seq(Byte) /\ Len(a) = 1 /\ a[1] = Marker(w)
        BY <2>3
    <2> HIDE DEF a
    <2>6. FromLittleEndian(t) = n
        <3>1. Shifted(n, w) = 0
            BY <1>1, <2>1, WidthFits
        <3> QED
            BY <1>1, <2>3, <3>1, NumberBack
    <2> HIDE DEF t
    <2>7. Has(s, 0, a) /\ Has(s, 1, t) /\ Len(a \o t) = 1 + w
        <3>1. 0 + Len(a) = 1 /\ 0 \in Nat
            BY <2>5
        <3>2. Has(s, 0, a \o t)
            BY <2>2
        <3>3. Has(s, 0, a) /\ Has(s, 0 + Len(a), t)
            BY <2>4, <2>5, <3>1, <3>2, HasJoined
        <3>4. Len(a \o t) = Len(a) + Len(t)
            BY <2>4, <2>5, ConcatProperties
        <3> QED
            BY <2>4, <2>5, <3>1, <3>3, <3>4
    <2>8. s # <<>> /\ s[1] = Marker(w) /\ 1 + w <= Len(s)
        <3>1. s[0 + 1] = a[1] /\ 1 + Len(t) <= Len(s)
            BY <2>5, <2>7 DEF Has
        <3> QED
            BY <2>3, <2>4, <2>5, <3>1
    <2>9. SubSeq(s, 2, 1 + w) = t
        <3>1. SubSeq(s, 1 + 1, 1 + Len(t)) = t
            BY <2>4, <2>7, HasSlice
        <3> QED
            BY <2>4, <3>1
    <2>10. ParseVarint(s) = IF Len(s) < 1 + w \/ n < Smallest(w) THEN NoVarint
                            ELSE [ok |-> TRUE, value |-> n, used |-> 1 + w]
        BY <2>6, <2>8, <2>9, ParseWide
    <2>11. ~(Len(s) < 1 + w) /\ ~(n < Smallest(w))
        BY <1>1, <2>1, <2>3, <2>8 DEF Width
    <2> QED
        BY <2>2, <2>7, <2>10, <2>11
<1> QED
    BY <1>1, <1>2, <1>3, BaseIs

-----------------------------------------------------------------------------
(* What the encoders write                                                 *)

ItemType == [content : ContentType, data : Seq(Byte)]

\* Two joined sequences, by their names.
LEMMA Joined ==
    ASSUME NEW V, NEW p \in Seq(V), NEW q \in Seq(V)
    PROVE  /\ p \o q \in Seq(V) /\ Len(p \o q) = Len(p) + Len(q)
           /\ Len(p) \in Nat /\ Len(q) \in Nat
           /\ p # <<>> => p \o q # <<>> /\ (p \o q)[1] = p[1]
<1>1. p \o q \in Seq(V) /\ Len(p \o q) = Len(p) + Len(q) /\ Len(p) \in Nat /\ Len(q) \in Nat
    BY ConcatProperties
<1>2. ASSUME p # <<>> PROVE p \o q # <<>> /\ (p \o q)[1] = p[1]
    <2>1. Len(p) >= 1
        BY <1>2
    <2>2. \A i \in 1..(Len(p) + Len(q)) : (p \o q)[i] = IF i <= Len(p) THEN p[i] ELSE q[i - Len(p)]
        BY ConcatProperties
    <2>3. 1 \in 1..(Len(p) + Len(q)) /\ 1 <= Len(p)
        BY <1>1, <2>1
    <2> DEFINE r == p \o q
    <2>4. r[1] = p[1] /\ Len(r) >= 1
        BY <1>1, <2>1, <2>2, <2>3
    <2> HIDE DEF r
    <2>5. r # <<>>
        BY <2>4
    <2> QED
        BY <2>4, <2>5 DEF r
<1> QED
    BY <1>1, <1>2

\* The CONTENT of an item; its TYPE is not that of padding.
LEMMA ContentTyped ==
    ASSUME NEW c \in ContentType
    PROVE  /\ EncodeContent(c) \in Seq(Byte) /\ EncodeContent(c) # <<>>
           /\ EncodeContent(c)[1] \in Byte \ {CONTENT_END}
<1> DEFINE Right(s) == s \in Seq(Byte) /\ s # <<>> /\ s[1] \in Byte \ {CONTENT_END}
<1>1. {0, 1, 2, 3} \subseteq Byte
    BY BaseIs
<1>2. Upgrade - 1 \in Byte /\ Upgrade \in Int
    BY CodecAssumption, BaseIs
<1>3. ASSUME NEW t \in Byte, t # 0, NEW s \in Seq(Byte)
      PROVE  Right(<<t>> \o EncodeVarint(Len(s)) \o s)
    <2> DEFINE e == EncodeVarint(Len(s))
               a == <<t>>
    <2>1. e \in Seq(Byte)
        BY EncodeTyped
    <2>2. a \in Seq(Byte) /\ a # <<>> /\ a[1] = t
        OBVIOUS
    <2> HIDE DEF a, e
    <2>3. a \o e \in Seq(Byte) /\ a \o e # <<>> /\ (a \o e)[1] = t
        BY <2>1, <2>2, Joined
    <2> DEFINE f == a \o e
    <2> HIDE DEF f
    <2>4. f \o s \in Seq(Byte) /\ f \o s # <<>> /\ (f \o s)[1] = t
        BY <2>3, Joined DEF f
    <2> QED
        BY <1>1, <1>3, <2>4 DEF f, a, e, CONTENT_END
<1>4. CASE c \in {Bip(n) : n \in NamedBips} \cup {OtherBip(n) : n \in 0..(Base * Base - 1)}
    <2>1. PICK n \in 0..(Base * Base - 1) : c.type \in {"Bip", "BIP"} /\ c.number = n
        BY <1>4, CodecAssumption DEF Bip, OtherBip
    <2>2. n \div Base \in Byte /\ n % Base \in Byte
        <3>1. n \in Nat /\ n < Base * Base
            BY <2>1, BaseIs
        <3>2. n \div Base \in Nat /\ n % Base \in 0..(Base - 1) /\ n \div Base < Base
            BY <3>1, BaseIs, Division, QuotientBelow
        <3> QED
            BY <3>2, BaseIs
    <2>3. EncodeContent(c) = <<1, n \div Base, n % Base>>
        BY <2>1 DEF EncodeContent, CONTENT_BIP
    <2>4. PICK q \in Byte, r \in Byte : q = n \div Base /\ r = n % Base
        BY <2>2
    <2>5. Right(<<1, q, r>>)
        BY <1>1 DEF CONTENT_END
    <2> QED
        BY <2>3, <2>4, <2>5
<1>5. CASE c \in [type : {"Proprietary"}, tag : Seq(Byte)]
    <2>1. EncodeContent(c) = <<2>> \o EncodeVarint(Len(c.tag)) \o c.tag
        BY <1>5 DEF EncodeContent, CONTENT_PROPRIETARY
    <2>2. c.tag \in Seq(Byte) /\ 2 \in Byte /\ 2 # 0
        BY <1>1, <1>5
    <2>3. Right(<<2>> \o EncodeVarint(Len(c.tag)) \o c.tag)
        <3> HIDE DEF Right
        <3> QED
            BY <1>3, <2>2
    <2> QED
        BY <2>1, <2>3
<1>6. CASE c = String
    <2> DEFINE e == EncodeVarint(0)
    <2>1. EncodeContent(c) = <<3>> \o e
        BY <1>6 DEF EncodeContent, CONTENT_STRING, String
    <2>2. e \in Seq(Byte)
        BY EncodeTyped
    <2> DEFINE a == <<3>>
    <2>3. a \in Seq(Byte) /\ a # <<>> /\ a[1] = 3
        BY <1>1
    <2> HIDE DEF a, e
    <2>4. a \o e \in Seq(Byte) /\ a \o e # <<>> /\ (a \o e)[1] = 3
        BY <2>2, <2>3, Joined
    <2> QED
        BY <1>1, <2>1, <2>4 DEF a, CONTENT_END
<1>7. CASE c \in [type : {"Foreign"}, of : 4..(Upgrade - 1), data : Seq(Byte)]
    <2>1. EncodeContent(c) = <<c.of>> \o EncodeVarint(Len(c.data)) \o c.data
        BY <1>7 DEF EncodeContent
    <2>2. c.of \in Byte /\ c.of # 0 /\ c.data \in Seq(Byte)
        BY <1>2, <1>7, BaseIs
    <2>3. Right(<<c.of>> \o EncodeVarint(Len(c.data)) \o c.data)
        BY <1>3, <2>2
    <2> QED
        BY <2>1, <2>3
<1> QED
    BY <1>4, <1>5, <1>6, <1>7 DEF ContentType

LEMMA ItemTyped ==
    ASSUME NEW x \in ItemType
    PROVE  /\ EncodeItem(x) \in Seq(Byte) /\ EncodeItem(x) # <<>>
           /\ EncodeItem(x)[1] \in Byte \ {CONTENT_END}
           /\ x.data \in Seq(Byte) /\ x.content \in ContentType
           /\ Len(EncodeItem(x)) = Len(EncodeContent(x.content)) + Len(EncodeVarint(Len(x.data)))
                                   + Len(x.data)
<1>1. x.content \in ContentType /\ x.data \in Seq(Byte) /\ Len(x.data) \in Nat
    BY DEF ItemType
<1> DEFINE c == EncodeContent(x.content)
           e == EncodeVarint(Len(x.data))
           d == x.data
<1>2. c \in Seq(Byte) /\ c # <<>> /\ c[1] \in Byte \ {CONTENT_END} /\ e \in Seq(Byte)
      /\ d \in Seq(Byte) /\ EncodeItem(x) = c \o e \o d
    BY <1>1, ContentTyped, EncodeTyped DEF EncodeItem
<1> HIDE DEF c, e, d
<1> DEFINE f == c \o e
<1>3. f \in Seq(Byte) /\ f # <<>> /\ f[1] = c[1] /\ Len(f) = Len(c) + Len(e)
    BY <1>2, Joined
<1>4. EncodeItem(x) = f \o d
    BY <1>2
<1> HIDE DEF f
<1>5. f \o d \in Seq(Byte) /\ f \o d # <<>> /\ (f \o d)[1] = f[1] /\ Len(f \o d) = Len(f) + Len(d)
    BY ZenonT(60), <1>2, <1>3, Joined
<1> QED
    BY <1>1, <1>2, <1>3, <1>4, <1>5 DEF c, e, d

\* The items one after the other.
LEMMA ItemsTyped ==
    ASSUME NEW l \in Seq(ItemType)
    PROVE  /\ EncodeItems(l) \in Seq(Byte) /\ Len(EncodeItems(l)) \in Nat
           /\ EncodeItems(l) = Concat([i \in DOMAIN l |-> EncodeItem(l[i])], Len(l))
           /\ \A i \in DOMAIN l : EncodeItem(l[i]) \in Seq(Byte)
<1> DEFINE f == [i \in DOMAIN l |-> EncodeItem(l[i])]
           n == Len(l)
<1>1. n \in Nat /\ DOMAIN l = 1..n /\ \A i \in 1..n : l[i] \in ItemType
    OBVIOUS
<1>2. \A i \in 1..n : EncodeItem(l[i]) \in Seq(Byte) /\ f[i] = EncodeItem(l[i])
    BY <1>1, ItemTyped
<1>3. EncodeItems(l) = Concat(f, n)
    BY DEF EncodeItems
<1>4. \A i \in 1..n : f[i] \in Seq(Byte)
    BY <1>2
<1> HIDE DEF f, n
<1>5. Concat(f, n) \in Seq(Byte)
    BY <1>1, <1>4, ConcatNext
<1>6. Len(EncodeItems(l)) \in Nat
    BY <1>3, <1>5
<1> QED
    BY <1>1, <1>2, <1>3, <1>5, <1>6 DEF f, n

\* The members of a finite set, each at least once.
LEMMA ListedIs ==
    ASSUME NEW S, IsFiniteSet(S)
    PROVE  /\ Cardinality(S) \in Nat
           /\ Listed(S) \in [1..Cardinality(S) -> S]
           /\ {Listed(S)[i] : i \in 1..Cardinality(S)} = S
<1> DEFINE n == Cardinality(S)
           Right(f) == f \in [1..n -> S] /\ {f[i] : i \in DOMAIN f} = S
<1>1. n \in Nat /\ \E f : Right(f)
    <2>1. n \in Nat /\ ExistsBijection(1..n, S)
        BY FS_CardinalityType
    <2>2. PICK f \in [1..n -> S] : \A x \in S : \E i \in 1..n : f[i] = x
        BY <2>1 DEF ExistsBijection, Bijection, Surjection
    <2>3. Right(f)
        BY <2>2
    <2> QED
        BY <2>1, <2>3
<1>2. Right(Listed(S))
    BY <1>1 DEF Listed
<1> QED
    BY <1>1, <1>2

PathParts(s) == [i \in 1..Cardinality(s.paths) |-> EncodePath(Listed(s.paths)[i])]
PayloadParts(s) == [i \in DOMAIN s.payloads |-> EncodePayload(s.payloads[i])]

LEMMA PathTyped ==
    ASSUME NEW p \in Path, Len(p) \in 1..(Base - 1)
    PROVE  /\ EncodePath(p) \in Seq(Byte)
           /\ Concat(p, Len(p)) \in Seq(Byte) /\ <<Len(p)>> \in Seq(Byte)
           /\ \A i \in 1..Len(p) : p[i] \in Seq(Byte) /\ Len(p[i]) = ChildSize
           /\ EncodePath(p) = <<Len(p)>> \o Concat(p, Len(p))
<1>1. /\ Len(p) \in Nat /\ DOMAIN p = 1..Len(p) /\ ChildSize \in Nat
      /\ \A i \in 1..Len(p) : p[i] \in [1..ChildSize -> Byte]
    BY WireAssumption DEF Path
<1>2. \A i \in 1..Len(p) : p[i] \in Seq(Byte) /\ Len(p[i]) = ChildSize
    BY <1>1
<1>3. Concat(p, Len(p)) \in Seq(Byte)
    BY <1>1, <1>2, ConcatNext
<1>4. Len(p) \in Byte
    BY BaseIs
<1>5. <<Len(p)>> \in Seq(Byte)
    BY <1>4
<1> DEFINE a == <<Len(p)>>
           c == Concat(p, Len(p))
<1>6. EncodePath(p) = a \o c
    BY DEF EncodePath
<1>7. a \in Seq(Byte) /\ c \in Seq(Byte)
    BY <1>3, <1>5
<1> HIDE DEF a, c
<1>8. a \o c \in Seq(Byte)
    BY <1>7, Joined
<1> QED
    BY <1>2, <1>6, <1>7, <1>8 DEF a, c

\* The parts of what encode_v1 writes.
LEMMA SourceParts ==
    ASSUME NEW s \in Sources, CanEncode(s)
    PROVE  /\ Cardinality(s.paths) \in Byte /\ Cardinality(s.secrets) \in Byte \ {0}
           /\ \A i \in 1..Cardinality(s.paths) :
                 /\ Listed(s.paths)[i] \in s.paths /\ s.paths \subseteq Path
                 /\ Len(Listed(s.paths)[i]) \in 1..(Base - 1)
                 /\ PathParts(s)[i] = EncodePath(Listed(s.paths)[i])
                 /\ PathParts(s)[i] \in Seq(Byte)
           /\ \A i \in 1..Cardinality(s.secrets) : /\ Listed(s.secrets)[i] \in s.secrets
                                                   /\ Listed(s.secrets)[i] \in Seq(Byte)
                                                   /\ Len(Listed(s.secrets)[i]) = SecretSize
           /\ {Listed(s.paths)[i] : i \in 1..Cardinality(s.paths)} = s.paths
           /\ {Listed(s.secrets)[i] : i \in 1..Cardinality(s.secrets)} = s.secrets
           /\ s.encryption \in Byte \ {0}
           /\ Len(s.payloads) \in Nat \ {0} /\ DOMAIN s.payloads = 1..Len(s.payloads)
           /\ \A i \in 1..Len(s.payloads) :
                 /\ s.payloads[i].nonce \in Seq(Byte) /\ Len(s.payloads[i].nonce) = NonceSize
                 /\ s.payloads[i].nonce # ZeroNonce
                 /\ s.payloads[i].text \in Seq(Byte) /\ s.payloads[i].text # <<>>
                 /\ PayloadParts(s)[i] = EncodePayload(s.payloads[i])
                 /\ PayloadParts(s)[i] \in Seq(Byte)
<1> DEFINE Payload1 == [nonce : [1..NonceSize -> Byte], text : Seq(Byte)]
<1>1. /\ s.paths \subseteq Path /\ s.secrets \subseteq [1..SecretSize -> Byte]
      /\ s.encryption \in Byte \ {0} /\ s.payloads \in Seq(Payload1)
      /\ IsFiniteSet(s.paths) /\ IsFiniteSet(s.secrets)
      /\ s.payloads # <<>>
      /\ \A i \in DOMAIN s.payloads : s.payloads[i].nonce # ZeroNonce
      /\ SecretSize \in Nat /\ NonceSize \in Nat
    <2>1. s \in SourceType
        BY WireAssumption
    <2> HIDE DEF Path, Byte
    <2>2. /\ s.paths \subseteq Path /\ s.secrets \subseteq [1..SecretSize -> Byte]
          /\ s.encryption \in Byte \ {0} /\ s.payloads \in Seq(Payload1)
        BY <2>1 DEF SourceType
    <2>3. /\ IsFiniteSet(s.paths) /\ IsFiniteSet(s.secrets)
          /\ s.payloads # <<>>
          /\ \A i \in DOMAIN s.payloads : s.payloads[i].nonce # ZeroNonce
        BY WireAssumption
    <2>4. SecretSize \in Nat /\ NonceSize \in Nat
        BY WireAssumption
    <2> QED
        BY <2>2, <2>3, <2>4
<1>2. /\ Cardinality(s.paths) < Base
      /\ \A p \in s.paths : Len(p) \in 1..(Base - 1)
      /\ Cardinality(s.secrets) \in 1..(Base - 1)
      /\ \A i \in DOMAIN s.payloads : s.payloads[i].text # <<>>
    BY DEF CanEncode
<1>3. /\ Cardinality(s.paths) \in Nat
      /\ Listed(s.paths) \in [1..Cardinality(s.paths) -> s.paths]
      /\ {Listed(s.paths)[i] : i \in 1..Cardinality(s.paths)} = s.paths
    BY <1>1, ListedIs
<1>4. /\ Listed(s.secrets) \in [1..Cardinality(s.secrets) -> s.secrets]
      /\ {Listed(s.secrets)[i] : i \in 1..Cardinality(s.secrets)} = s.secrets
    BY <1>1, ListedIs
<1>5. Cardinality(s.paths) \in Byte /\ Cardinality(s.secrets) \in Byte \ {0}
    BY <1>2, <1>3, BaseIs
<1>6. ASSUME NEW i \in 1..Cardinality(s.paths)
      PROVE  /\ Listed(s.paths)[i] \in s.paths
             /\ Len(Listed(s.paths)[i]) \in 1..(Base - 1)
             /\ PathParts(s)[i] = EncodePath(Listed(s.paths)[i])
             /\ PathParts(s)[i] \in Seq(Byte)
    <2>1. Listed(s.paths)[i] \in s.paths
        BY <1>3
    <2>2. Len(Listed(s.paths)[i]) \in 1..(Base - 1) /\ Listed(s.paths)[i] \in Path
        BY <1>1, <1>2, <2>1
    <2>3. PathParts(s)[i] = EncodePath(Listed(s.paths)[i])
        BY DEF PathParts
    <2> QED
        BY <2>1, <2>2, <2>3, PathTyped
<1>7. ASSUME NEW i \in 1..Cardinality(s.secrets)
      PROVE  /\ Listed(s.secrets)[i] \in s.secrets /\ Listed(s.secrets)[i] \in Seq(Byte)
             /\ Len(Listed(s.secrets)[i]) = SecretSize
    <2>1. Listed(s.secrets)[i] \in [1..SecretSize -> Byte] /\ Listed(s.secrets)[i] \in s.secrets
        BY <1>1, <1>4
    <2>2. PICK c \in [1..SecretSize -> Byte] : c = Listed(s.secrets)[i]
        BY <2>1
    <2>3. c \in Seq(Byte) /\ Len(c) = SecretSize
        BY <1>1
    <2> QED
        BY <2>1, <2>2, <2>3
<1>8. Len(s.payloads) \in Nat \ {0} /\ DOMAIN s.payloads = 1..Len(s.payloads)
    <2> HIDE DEF Payload1
    <2> QED
        BY <1>1
<1>9. ASSUME NEW i \in 1..Len(s.payloads)
      PROVE  /\ s.payloads[i].nonce \in Seq(Byte) /\ Len(s.payloads[i].nonce) = NonceSize
             /\ s.payloads[i].nonce # ZeroNonce
             /\ s.payloads[i].text \in Seq(Byte) /\ s.payloads[i].text # <<>>
             /\ PayloadParts(s)[i] = EncodePayload(s.payloads[i])
             /\ PayloadParts(s)[i] \in Seq(Byte)
    <2>1. s.payloads[i] \in Payload1
        <3> HIDE DEF Payload1
        <3> QED
            BY <1>1
    <2> DEFINE nonce == s.payloads[i].nonce
               text == s.payloads[i].text
    <2>2. nonce \in [1..NonceSize -> Byte] /\ text \in Seq(Byte)
        BY <2>1
    <2>3. nonce \in Seq(Byte) /\ Len(nonce) = NonceSize
        <3>1. PICK c \in [1..NonceSize -> Byte] : c = nonce
            BY <2>2
        <3>2. c \in Seq(Byte) /\ Len(c) = NonceSize
            BY <1>1
        <3> HIDE DEF nonce
        <3> QED
            BY <3>1, <3>2
    <2>4. nonce # ZeroNonce /\ text # <<>>
        BY <1>1, <1>2, <1>8
    <2>5. PayloadParts(s)[i] = EncodePayload(s.payloads[i])
        BY <1>8 DEF PayloadParts
    <2> DEFINE e == EncodeVarint(Len(text))
    <2>6. EncodePayload(s.payloads[i]) = nonce \o e \o text
        BY DEF EncodePayload
    <2>7. e \in Seq(Byte)
        <3>1. Len(text) \in Nat
            BY <2>2
        <3> QED
            BY <3>1, EncodeTyped
    <2> HIDE DEF nonce, text, e
    <2> DEFINE f == nonce \o e
    <2>8. f \in Seq(Byte)
        BY <2>3, <2>7, Joined
    <2> HIDE DEF f
    <2>9. f \o text \in Seq(Byte)
        BY <2>2, <2>8, Joined
    <2> QED
        BY <2>2, <2>3, <2>4, <2>5, <2>6, <2>9 DEF nonce, text, e, f
<1> QED
    BY <1>1, <1>3, <1>4, <1>5, <1>6, <1>7, <1>8, <1>9

(****************************** The plaintext codec *************************)

-----------------------------------------------------------------------------
(* A length and as many bytes                                              *)

\* n elements of s after the first o, and all of those
Part(s, o, n) == SubSeq(s, o + 1, o + n)
RestAt(s, o) == SubSeq(s, o + 1, Len(s))

LEMMA PartIs ==
    ASSUME NEW V, NEW s \in Seq(V), NEW o \in Nat, NEW n \in Nat, o + n <= Len(s)
    PROVE  Part(s, o, n) \in Seq(V) /\ Len(Part(s, o, n)) = n /\ Has(s, o, Part(s, o, n))
<1> DEFINE d == SubSeq(s, o + 1, o + n)
<1>1. d \in Seq(V) /\ Len(d) = n /\ Has(s, o, d)
    BY Sliced
<1>2. Part(s, o, n) = d
    BY Zenon DEF Part
<1> HIDE DEF d
<1> QED
    BY <1>1, <1>2

LEMMA RestAtIs ==
    ASSUME NEW V, NEW s \in Seq(V), NEW o \in Nat, o <= Len(s)
    PROVE  /\ RestAt(s, o) \in Seq(V) /\ Len(RestAt(s, o)) = Len(s) - o
           /\ \A i \in 1..(Len(s) - o) : RestAt(s, o)[i] = s[o + i]
           /\ \A k \in Nat, p \in Seq(V) : Has(RestAt(s, o), k, p) <=> Has(s, o + k, p)
<1> DEFINE t == SubSeq(s, o + 1, Len(s))
<1>1. /\ t \in Seq(V) /\ Len(t) = Len(s) - o
      /\ \A i \in 1..(Len(s) - o) : t[i] = s[o + i]
      /\ \A k \in Nat, p \in Seq(V) : Has(t, k, p) <=> Has(s, o + k, p)
    BY HasRest
<1>2. RestAt(s, o) = t
    BY Zenon DEF RestAt
<1> HIDE DEF t
<1> QED
    BY <1>1, <1>2

\* What is read as a length and its data is their encoding.
LEMMA SizedRead ==
    ASSUME NEW s \in Seq(Byte), NEW o \in Nat, o <= Len(s),
           NEW v, v = ParseVarint(RestAt(s, o)), v.ok,
           NEW d, d = Part(s, o + v.used, v.value),
           o + v.used + v.value <= Len(s)
    PROVE  /\ v.used \in Nat /\ v.value \in Nat
           /\ d \in Seq(Byte) /\ Len(d) = v.value
           /\ v.used = Len(EncodeVarint(Len(d)))
           /\ Has(s, o, EncodeVarint(Len(d))) /\ Has(s, o + v.used, d)
<1> DEFINE t == RestAt(s, o)
<1>1. t \in Seq(Byte) /\ \A k \in Nat, p \in Seq(Byte) : Has(t, k, p) <=> Has(s, o + k, p)
    BY RestAtIs
<1>2. v = ParseVarint(t)
    OBVIOUS
<1> HIDE DEF t
<1>3. /\ v.value \in Nat /\ v.used \in Nat
      /\ v.used = Len(EncodeVarint(v.value)) /\ Has(t, 0, EncodeVarint(v.value))
    BY <1>1, <1>2, ParseSound
<1>4. d \in Seq(Byte) /\ Len(d) = v.value /\ Has(s, o + v.used, d)
    <2>1. o + v.used \in Nat
        BY <1>3
    <2> QED
        BY <1>3, <2>1, PartIs
<1>5. Has(s, o, EncodeVarint(v.value))
    <2>1. PICK n \in Nat : n = v.value
        BY <1>3
    <2>2. EncodeVarint(n) \in Seq(Byte) /\ o + 0 = o
        BY EncodeTyped
    <2> QED
        BY <1>1, <1>3, <2>1, <2>2
<1> QED
    BY <1>3, <1>4, <1>5

\* Where a length and its data stand, they are what is read.
LEMMA SizedBack ==
    ASSUME NEW s \in Seq(Byte), NEW o \in Nat, NEW d \in Seq(Byte), Encodable(Len(d)),
           NEW e, e = EncodeVarint(Len(d)), Has(s, o, e), Has(s, o + Len(e), d),
           NEW v, v = ParseVarint(RestAt(s, o))
    PROVE  /\ v = [ok |-> TRUE, value |-> Len(d), used |-> Len(e)]
           /\ Len(e) \in Nat \ {0}
           /\ o < Len(s) /\ o + Len(e) + Len(d) <= Len(s)
           /\ d = Part(s, o + Len(e), Len(d))
<1> DEFINE n == Len(d)
           t == RestAt(s, o)
<1>1. e \in Seq(Byte) /\ Len(e) \in Nat \ {0} /\ n \in Nat
    BY EncodeTyped
<1>2. o + Len(e) <= Len(s) /\ (o + Len(e)) + n <= Len(s)
    BY DEF Has
<1>3. t \in Seq(Byte) /\ \A k \in Nat, p \in Seq(Byte) : Has(t, k, p) <=> Has(s, o + k, p)
    <2>1. o <= Len(s)
        BY <1>1, <1>2
    <2> QED
        BY <2>1, RestAtIs
<1>4. Has(t, 0, e)
    <2>1. o + 0 = o
        OBVIOUS
    <2> HIDE DEF t
    <2> QED
        BY <1>1, <1>3, <2>1
<1>5. v = [ok |-> TRUE, value |-> n, used |-> Len(e)]
    <2>1. v = ParseVarint(t) /\ Has(t, 0, EncodeVarint(n)) /\ Encodable(n)
        BY <1>4
    <2> HIDE DEF t, n
    <2>2. v = [ok |-> TRUE, value |-> n, used |-> Len(EncodeVarint(n))]
        BY <1>3, <2>1, ParseComplete
    <2> QED
        BY <2>2 DEF n
<1>6. d = Part(s, o + Len(e), n)
    <2>1. o + Len(e) \in Nat
        BY <1>1
    <2>2. Part(s, o + Len(e), n) \in Seq(Byte) /\ Len(Part(s, o + Len(e), n)) = n
          /\ Has(s, o + Len(e), Part(s, o + Len(e), n))
        BY <1>1, <1>2, <2>1, PartIs
    <2> QED
        BY <2>2, HasOne
<1> HIDE DEF n
<1>7. o < Len(s) /\ o + Len(e) + n <= Len(s)
    BY <1>1, <1>2
<1> QED
    BY <1>1, <1>5, <1>6, <1>7 DEF n

\* A TYPE, a LENGTH and DATA stand where each of them stands.
LEMMA Tagged ==
    ASSUME NEW s \in Seq(Byte), NEW t \in Byte, NEW d \in Seq(Byte),
           NEW e, e = EncodeVarint(Len(d))
    PROVE  /\ <<t>> \o e \in Seq(Byte) /\ Len(<<t>> \o e) = 1 + Len(e)
           /\ Has(s, 0, <<t>> \o e) <=> s # <<>> /\ s[1] = t /\ Has(s, 1, e)
           /\ <<t>> \o e \o d \in Seq(Byte) /\ Len(<<t>> \o e \o d) = 1 + Len(e) + Len(d)
           /\ Has(s, 0, <<t>> \o e \o d) <=>
                 s # <<>> /\ s[1] = t /\ Has(s, 1, e) /\ Has(s, 1 + Len(e), d)
<1> DEFINE a == <<t>>
           f == a \o e
           x == f \o d
<1>1. e \in Seq(Byte) /\ Len(e) \in Nat
    BY EncodeTyped
<1>2. a \in Seq(Byte) /\ Len(a) = 1 /\ (Has(s, 0, a) <=> s # <<>> /\ s[1] = t)
    BY DEF Has
<1> HIDE DEF a
<1>3. f \in Seq(Byte) /\ Len(f) = 1 + Len(e)
    BY <1>1, <1>2, Joined
<1>4. Has(s, 0, f) <=> s # <<>> /\ s[1] = t /\ Has(s, 1, e)
    <2>1. Has(s, 0, a \o e) <=> Has(s, 0, a) /\ Has(s, 0 + Len(a), e)
        BY <1>1, <1>2, HasJoined
    <2>2. 0 + Len(a) = 1
        BY <1>2
    <2> QED
        BY <1>2, <2>1, <2>2
<1> HIDE DEF f
<1>5. x \in Seq(Byte) /\ Len(x) = 1 + Len(e) + Len(d)
    BY <1>1, <1>3, Joined
<1>6. Has(s, 0, x) <=> s # <<>> /\ s[1] = t /\ Has(s, 1, e) /\ Has(s, 1 + Len(e), d)
    <2>1. Has(s, 0, f \o d) <=> Has(s, 0, f) /\ Has(s, 0 + Len(f), d)
        BY <1>3, HasJoined
    <2>2. 0 + Len(f) = 1 + Len(e)
        BY <1>1, <1>3
    <2> QED
        BY <1>4, <2>1, <2>2
<1> QED
    BY <1>3, <1>4, <1>5, <1>6 DEF x, f, a

LEMMA TailIs ==
    ASSUME NEW s \in Seq(Byte), s # <<>>
    PROVE  Tail(s) = RestAt(s, 1) /\ Tail(s) \in Seq(Byte) /\ Len(s) >= 1
<1>1. Len(s) >= 1
    OBVIOUS
<1> DEFINE t == RestAt(s, 1)
<1>2. t \in Seq(Byte) /\ Len(t) = Len(s) - 1 /\ \A i \in 1..(Len(s) - 1) : t[i] = s[1 + i]
    BY <1>1, RestAtIs
<1>3. Tail(s) \in Seq(Byte) /\ Len(Tail(s)) = Len(s) - 1
      /\ \A i \in 1..(Len(s) - 1) : Tail(s)[i] = s[1 + i]
    <2>1. Tail(s) \in Seq(Byte) /\ Len(Tail(s)) = Len(s) - 1
          /\ \A i \in 1..Len(Tail(s)) : Tail(s)[i] = s[i + 1]
        BY HeadTailProperties
    <2> QED
        BY <2>1
<1> HIDE DEF t
<1>4. Tail(s) = t
    BY <1>2, <1>3, SeqEqual
<1> QED
    BY <1>1, <1>3, <1>4 DEF t

-----------------------------------------------------------------------------
(* What parse_content accepts                                              *)

Decoded == ContentType \cup {Unknown}
ParseErrors == {"ContentMetadata", "Increment", "Corrupted"}

\* r is a right answer for s: an error, or the CONTENT that s begins with.
ContentRight(s, r) ==
    /\ r.error \in {"none"} \cup ParseErrors
    /\ r.used \in Nat
    /\ r.content \in Decoded
    /\ r.error = "none" =>
          /\ r.used >= 1 /\ r.used <= Len(s)
          /\ r.content # Unknown => /\ Has(s, 0, EncodeContent(r.content))
                                    /\ r.used = Len(EncodeContent(r.content))

LEMMA RefusedRight ==
    ASSUME NEW s, NEW e \in ParseErrors
    PROVE  ContentRight(s, RefusedContent(e))
<1> DEFINE r == RefusedContent(e)
<1>1. r.error = e /\ r.used = 0 /\ r.content = Unknown /\ e # "none"
    BY DEF RefusedContent, ParseErrors
<1> HIDE DEF r
<1> QED
    BY <1>1 DEF ContentRight, Decoded, r

LEMMA ParsedRight ==
    ASSUME NEW s, NEW n \in Nat, NEW c \in Decoded, n >= 1, n <= Len(s),
           c # Unknown => Has(s, 0, EncodeContent(c)) /\ n = Len(EncodeContent(c))
    PROVE  ContentRight(s, ParsedContent(n, c))
<1> DEFINE r == ParsedContent(n, c)
<1>1. r.error = "none" /\ r.used = n /\ r.content = c
    BY DEF ParsedContent
<1> HIDE DEF r
<1> QED
    BY <1>1 DEF ContentRight, r

\* A TYPE with a LENGTH.
LEMMA SizedContentRight ==
    ASSUME NEW s \in Seq(Byte), s # <<>>, s[1] \in Byte
    PROVE  ContentRight(s, ParseSized(s))
<1> DEFINE v == ParseVarint(Tail(s))
           start == 1 + v.used
           end == start + v.value
           Case(r) == ParseSized(s) = r
<1>1. UsizeMax \in Nat /\ Len(s) \in Nat /\ Len(s) >= 1
    BY UsizeEncodable, TailIs
<1>2. v.ok \in BOOLEAN /\ v.value \in Nat /\ v.used \in Nat
    BY TailIs, ParseSound
<1>3. CASE ~v.ok \/ v.value > UsizeMax
    <2>1. ~(v.ok /\ v.value <= UsizeMax)
        BY <1>1, <1>2, <1>3
    <2>2. ParseSized(s) = RefusedContent("ContentMetadata")
        BY <1>3, <2>1 DEF ParseSized
    <2> QED
        BY <2>2, RefusedRight DEF ParseErrors
<1>4. CASE v.ok /\ v.value <= UsizeMax /\ end > UsizeMax
    <2>1. ~(~v.ok \/ v.value > UsizeMax) /\ ~(end <= UsizeMax)
        BY <1>1, <1>2, <1>4
    <2>2. ParseSized(s) = RefusedContent("Increment")
        BY <1>4, <2>1 DEF ParseSized
    <2> QED
        BY <2>2, RefusedRight DEF ParseErrors
<1>5. CASE v.ok /\ v.value <= UsizeMax /\ end <= UsizeMax /\ end > Len(s)
    <2>1. ~(~v.ok \/ v.value > UsizeMax) /\ ~(end > UsizeMax) /\ ~(end <= Len(s))
        BY <1>1, <1>2, <1>5
    <2>2. ParseSized(s) = RefusedContent("Corrupted")
        BY <1>5, <2>1 DEF ParseSized
    <2> QED
        BY <2>2, RefusedRight DEF ParseErrors
<1>6. CASE v.ok /\ v.value <= UsizeMax /\ end <= UsizeMax /\ end <= Len(s)
    <2>1. ~(~v.ok \/ v.value > UsizeMax) /\ ~(end > UsizeMax) /\ ~(end > Len(s))
        BY <1>1, <1>2, <1>6
    <2> DEFINE d == SubSeq(s, start + 1, end)
               e == EncodeVarint(Len(d))
    <2>2. ParseSized(s) = CASE s[1] = CONTENT_PROPRIETARY ->
                                  ParsedContent(end, Proprietary(d))
                            [] s[1] = CONTENT_STRING /\ v.value = 0 -> ParsedContent(end, String)
                            [] s[1] = CONTENT_STRING /\ v.value # 0 ->
                                  RefusedContent("ContentMetadata")
                            [] OTHER -> ParsedContent(end, Unknown)
        BY <1>6, <2>1 DEF ParseSized
    <2>3. /\ d \in Seq(Byte) /\ Len(d) = v.value /\ v.used = Len(e)
          /\ Has(s, 1, e) /\ Has(s, 1 + v.used, d)
        <3>1. v = ParseVarint(RestAt(s, 1)) /\ 1 <= Len(s) /\ v.ok /\ 1 + v.used + v.value <= Len(s)
            BY <1>6, TailIs
        <3>2. d = Part(s, 1 + v.used, v.value)
            BY Zenon DEF Part
        <3> HIDE DEF v, d
        <3> QED
            BY <3>1, <3>2, SizedRead
    <2>4. end \in Nat /\ end >= 1 /\ end <= Len(s) /\ end = 1 + Len(e) + Len(d)
        <3> DEFINE le == Len(e)
                   ld == Len(d)
        <3>1. end = (1 + v.used) + v.value /\ v.used = le /\ v.value = ld /\ end <= Len(s)
            BY <1>6, <2>3
        <3>2. PICK x \in Nat, y \in Nat : x = v.used /\ y = v.value
            BY <1>2
        <3> HIDE DEF end, v, le, ld
        <3>3. end = (1 + x) + y /\ x = le /\ y = ld /\ end <= Len(s)
            BY <3>1, <3>2
        <3>4. end \in Nat /\ end >= 1 /\ end <= Len(s) /\ end = 1 + le + ld
            BY <3>3
        <3> QED
            BY <3>4 DEF le, ld
    <2>5. CASE s[1] = CONTENT_PROPRIETARY
        <3>1. ParseSized(s) = ParsedContent(end, Proprietary(d))
            BY <2>2, <2>5 DEF CONTENT_PROPRIETARY, CONTENT_STRING
        <3>2. Proprietary(d) \in Decoded
            BY <2>3 DEF Decoded, ContentType, Proprietary
        <3>3. EncodeContent(Proprietary(d)) = <<2>> \o e \o d
            BY DEF EncodeContent, Proprietary, CONTENT_PROPRIETARY
        <3>4. PICK t \in Byte : t = 2 /\ s[1] = t
            BY <2>5, BaseIs DEF CONTENT_PROPRIETARY
        <3> HIDE DEF d, end
        <3>5. Has(s, 0, <<2>> \o e \o d) /\ Len(<<2>> \o e \o d) = 1 + Len(e) + Len(d)
            <4>1. s # <<>> /\ s[1] = t /\ Has(s, 1, e) /\ Has(s, 1 + Len(e), d)
                BY <2>3, <3>4
            <4>2. d \in Seq(Byte) /\ e = EncodeVarint(Len(d))
                BY <2>3
            <4> HIDE DEF e
            <4>3. Has(s, 0, <<t>> \o e \o d) /\ Len(<<t>> \o e \o d) = 1 + Len(e) + Len(d)
                BY <4>1, <4>2, Tagged
            <4> QED
                BY <3>4, <4>3
        <3> HIDE DEF e
        <3> QED
            BY <2>4, <3>1, <3>2, <3>3, <3>5, ParsedRight
    <2>6. CASE s[1] = CONTENT_STRING /\ v.value = 0
        <3>1. ParseSized(s) = ParsedContent(end, String)
            BY <2>2, <2>6 DEF CONTENT_PROPRIETARY, CONTENT_STRING
        <3>2. String \in Decoded
            BY DEF Decoded, ContentType
        <3>3. EncodeContent(String) = <<3>> \o e
            <4>1. EncodeContent(String) = <<3>> \o EncodeVarint(0)
                BY DEF EncodeContent, String, CONTENT_STRING
            <4> QED
                BY <2>3, <2>6, <4>1
        <3>4. s[1] = 3 /\ 3 \in Byte
            BY <2>6, BaseIs DEF CONTENT_STRING
        <3>5. end = 1 + Len(e)
            BY <1>2, <2>3, <2>6
        <3> HIDE DEF d, end
        <3>6. Has(s, 0, <<3>> \o e) /\ Len(<<3>> \o e) = 1 + Len(e)
            BY SMTT(30), <2>3, <3>4, Tagged
        <3> HIDE DEF e
        <3> QED
            BY <2>4, <3>1, <3>2, <3>3, <3>5, <3>6, ParsedRight
    <2>7. CASE s[1] = CONTENT_STRING /\ v.value # 0
        <3>1. ParseSized(s) = RefusedContent("ContentMetadata")
            BY <2>2, <2>7 DEF CONTENT_PROPRIETARY, CONTENT_STRING
        <3> QED
            BY <3>1, RefusedRight DEF ParseErrors
    <2>8. CASE s[1] \notin {CONTENT_PROPRIETARY, CONTENT_STRING}
        <3>1. ParseSized(s) = ParsedContent(end, Unknown)
            BY <2>2, <2>8
        <3>2. Unknown \in Decoded
            BY DEF Decoded
        <3> HIDE DEF end
        <3> QED
            BY <2>4, <3>1, <3>2, ParsedRight
    <2> QED
        BY <2>5, <2>6, <2>7, <2>8
<1> QED
    BY <1>1, <1>2, <1>3, <1>4, <1>5, <1>6

LEMMA ContentRead ==
    ASSUME NEW s \in Seq(Byte), s # <<>>, s[1] # CONTENT_END
    PROVE  ContentRight(s, ParseContent(s))
<1>1. s[1] \in Byte /\ Len(s) \in Nat /\ Len(s) >= 1 /\ Upgrade \in 4..(Base - 1)
    BY CodecAssumption
<1>2. CASE s[1] = CONTENT_BIP /\ Len(s) < 3
    <2>1. ParseContent(s) = RefusedContent("ContentMetadata")
        BY <1>2 DEF ParseContent, CONTENT_BIP, CONTENT_END
    <2> QED
        BY <2>1, RefusedRight DEF ParseErrors
<1>3. CASE s[1] = CONTENT_BIP /\ ~(Len(s) < 3)
    <2> DEFINE n == s[2] * Base + s[3]
               c == BipOfNumber(n)
    <2>1. ParseContent(s) = ParsedContent(3, c)
        BY <1>3 DEF ParseContent, CONTENT_BIP, CONTENT_END
    <2>2. PICK q \in Byte, r \in Byte : s[2] = q /\ s[3] = r
        BY <1>1, <1>3
    <2>3. n = q * Base + r /\ n \in Nat /\ n \div Base = q /\ n % Base = r
        <3>1. n = q * Base + r
            BY <2>2
        <3>2. Base \in Nat /\ q \in Nat /\ r \in 0..(Base - 1)
            BY BaseIs
        <3>3. q * Base + r \in Nat /\ (q * Base + r) \div Base = q /\ (q * Base + r) % Base = r
            BY <3>2, DivisionOnce
        <3> QED
            BY <3>1, <3>3
    <2>4. n \in 0..(Base * Base - 1)
        <3>1. n \div Base < Base
            BY <2>2, <2>3, BaseIs
        <3>2. n < Base * Base
            BY <2>3, <3>1, BaseIs, QuotientBelow
        <3>3. Base * Base \in Nat
            BY BaseIs, Products
        <3> QED
            BY <2>3, <3>2, <3>3
    <2>5. c \in Decoded /\ EncodeContent(c) = <<1, q, r>>
        <3>1. CASE n \in NamedBips
            BY <2>3, <3>1 DEF BipOfNumber, Decoded, ContentType, EncodeContent, Bip, CONTENT_BIP
        <3>2. CASE n \notin NamedBips
            BY <2>3, <2>4, <3>2 DEF BipOfNumber, Decoded, ContentType, EncodeContent, OtherBip, CONTENT_BIP
        <3> QED
            BY <3>1, <3>2
    <2>6. Has(s, 0, <<1, q, r>>) /\ Len(<<1, q, r>>) = 3
        BY <1>1, <1>3, <2>2 DEF Has, CONTENT_BIP
    <2> HIDE DEF c
    <2>7. PICK m \in Nat : m = 3
        OBVIOUS
    <2>8. c \in Decoded /\ m >= 1 /\ m <= Len(s) /\ Has(s, 0, EncodeContent(c))
          /\ m = Len(EncodeContent(c))
        BY <1>1, <1>3, <2>5, <2>6, <2>7
    <2>9. ContentRight(s, ParsedContent(m, c))
        BY <2>8, ParsedRight
    <2> QED
        BY <2>1, <2>7, <2>9
<1>4. CASE s[1] \in 2..(Upgrade - 1)
    <2>1. ParseContent(s) = ParseSized(s)
        BY <1>4 DEF ParseContent, CONTENT_BIP, CONTENT_END
    <2> QED
        BY <1>1, <2>1, SizedContentRight
<1>5. CASE s[1] # CONTENT_BIP /\ s[1] \notin 2..(Upgrade - 1)
    <2>1. ParseContent(s) = RefusedContent("ContentMetadata")
        BY <1>5 DEF ParseContent
    <2> QED
        BY <2>1, RefusedRight DEF ParseErrors
<1> QED
    BY <1>2, <1>3, <1>4, <1>5

-----------------------------------------------------------------------------
(* One turn of the decoder's loop, at o in s                               *)

ContentAt(s, o) == ParseContent(RestAt(s, o))
LengthAt(s, o) == ParseVarint(RestAt(s, o + ContentAt(s, o).used))
DataStart(s, o) == o + ContentAt(s, o).used + LengthAt(s, o).used
DataEnd(s, o) == DataStart(s, o) + LengthAt(s, o).value
ItemAt(s, o) == [content |-> ContentAt(s, o).content,
                 data |-> Part(s, DataStart(s, o), LengthAt(s, o).value)]
ErrorAt(s, o) ==
    CASE ContentAt(s, o).error # "none" -> ContentAt(s, o).error
      [] ContentAt(s, o).error = "none" /\ (~LengthAt(s, o).ok \/ LengthAt(s, o).value > UsizeMax) ->
            "DataLength"
      [] OTHER -> IF DataEnd(s, o) > UsizeMax THEN "OffsetOverflow"
                  ELSE IF DataEnd(s, o) > Len(s) THEN "Corrupted" ELSE "none"

DecodedItem == [content : Decoded, data : Seq(Byte)]

LEMMA DecodeItemIs ==
    ASSUME DecodeItem
    PROVE  /\ outcome = "running" /\ ~AtEnd
           /\ list' = list /\ padding' = padding /\ fraction' = fraction /\ plaintext' = plaintext
           /\ \/ /\ ErrorAt(plaintext, position) # "none"
                 /\ outcome' = ErrorAt(plaintext, position)
                 /\ items' = items /\ position' = position
              \/ /\ ErrorAt(plaintext, position) = "none"
                 /\ items' = Append(items, ItemAt(plaintext, position))
                 /\ position' = DataEnd(plaintext, position)
                 /\ outcome' = outcome
BY Zenon DEF DecodeItem, RestOf, ContentAt, LengthAt, DataStart, DataEnd, ItemAt, ErrorAt, RestAt, Part

\* A turn fails with an error of its own or reads one item.
LEMMA ItemRead ==
    ASSUME NEW s \in Seq(Byte), NEW o \in Nat, o < Len(s), s[o + 1] # CONTENT_END
    PROVE  /\ ErrorAt(s, o) \in {"none", "DataLength", "OffsetOverflow"} \cup ParseErrors
           /\ ErrorAt(s, o) = "none" =>
                 /\ ItemAt(s, o) \in DecodedItem
                 /\ DataEnd(s, o) \in Nat /\ DataEnd(s, o) <= Len(s)
                 /\ ItemAt(s, o).content # Unknown =>
                       /\ Has(s, o, EncodeItem(ItemAt(s, o)))
                       /\ DataEnd(s, o) = o + Len(EncodeItem(ItemAt(s, o)))
<1> DEFINE t == RestAt(s, o)
           c == ContentAt(s, o)
           v == LengthAt(s, o)
           end == DataEnd(s, o)
<1>1. t \in Seq(Byte) /\ Len(t) = Len(s) - o /\ t # <<>> /\ t[1] # CONTENT_END
      /\ \A k \in Nat, p \in Seq(Byte) : Has(t, k, p) <=> Has(s, o + k, p)
    <2>1. t \in Seq(Byte) /\ Len(t) = Len(s) - o /\ (\A i \in 1..(Len(s) - o) : t[i] = s[o + i])
          /\ \A k \in Nat, p \in Seq(Byte) : Has(t, k, p) <=> Has(s, o + k, p)
        <3>1. o <= Len(s)
            OBVIOUS
        <3> QED
            BY <3>1, RestAtIs
    <2>2. 1 \in 1..(Len(s) - o) /\ Len(t) >= 1
        BY <2>1
    <2> HIDE DEF t
    <2>3. t # <<>>
        BY <2>1, <2>2
    <2> QED
        BY <2>1, <2>2, <2>3
<1>2. ContentRight(t, c)
    <2> HIDE DEF t
    <2>1. ContentRight(t, ParseContent(t))
        BY <1>1, ContentRead
    <2> QED
        BY <2>1 DEF t, ContentAt
<1>3. v = ParseVarint(RestAt(s, o + c.used)) /\ end = (o + c.used + v.used) + v.value
    BY DEF LengthAt, DataEnd, DataStart
<1>4. ErrorAt(s, o) = CASE c.error # "none" -> c.error
                        [] c.error = "none" /\ (~v.ok \/ v.value > UsizeMax) -> "DataLength"
                        [] OTHER -> IF end > UsizeMax THEN "OffsetOverflow"
                                    ELSE IF end > Len(s) THEN "Corrupted" ELSE "none"
    BY Zenon DEF ErrorAt
<1>5. ItemAt(s, o) = [content |-> c.content, data |-> Part(s, o + c.used + v.used, v.value)]
    BY Zenon DEF ItemAt, DataStart
<1> HIDE DEF t, c, v, end
<1>6. CASE c.error # "none"
    <2>1. ErrorAt(s, o) = c.error
        BY <1>4, <1>6
    <2>2. c.error \in ParseErrors
        BY <1>2, <1>6 DEF ContentRight
    <2> QED
        BY <1>6, <2>1, <2>2
<1>7. CASE c.error = "none" /\ (~v.ok \/ v.value > UsizeMax)
    <2>1. ErrorAt(s, o) = "DataLength"
        BY <1>4, <1>7
    <2> QED
        BY <2>1
<1>8. CASE c.error = "none" /\ v.ok /\ ~(v.value > UsizeMax)
    <2>1. ErrorAt(s, o) = IF end > UsizeMax THEN "OffsetOverflow"
                          ELSE IF end > Len(s) THEN "Corrupted" ELSE "none"
        <3>1. ~(c.error = "none" /\ (~v.ok \/ v.value > UsizeMax)) /\ ~(c.error # "none")
            BY <1>8
        <3> QED
            BY <1>4, <3>1
    <2>2. ErrorAt(s, o) \in {"none", "DataLength", "OffsetOverflow"} \cup ParseErrors
        BY <2>1 DEF ParseErrors
    <2>3. ASSUME ErrorAt(s, o) = "none"
          PROVE  /\ ItemAt(s, o) \in DecodedItem
                 /\ end \in Nat /\ end <= Len(s)
                 /\ ItemAt(s, o).content # Unknown =>
                       /\ Has(s, o, EncodeItem(ItemAt(s, o)))
                       /\ end = o + Len(EncodeItem(ItemAt(s, o)))
        <3>1. ~(end > Len(s))
            BY <2>1, <2>3
        <3>2. /\ c.used \in Nat /\ c.used >= 1 /\ c.used <= Len(t) /\ c.content \in Decoded
              /\ c.content # Unknown => /\ Has(t, 0, EncodeContent(c.content))
                                        /\ c.used = Len(EncodeContent(c.content))
            BY <1>2, <1>8 DEF ContentRight
        <3>3. PICK u \in Nat : u = c.used
            BY <3>2
        <3>4. PICK p \in Nat : p = o + c.used /\ p = o + u /\ p <= Len(s)
            <4>1. u <= Len(s) - o /\ Len(s) \in Nat
                BY <1>1, <3>2, <3>3
            <4>2. o + u \in Nat /\ o + u <= Len(s)
                BY <4>1
            <4> QED
                BY <3>3, <4>2
        <3>5. RestAt(s, p) \in Seq(Byte)
            BY <3>4, RestAtIs
        <3>6. v.value \in Nat /\ v.used \in Nat /\ v = ParseVarint(RestAt(s, p))
            BY <1>3, <3>4, <3>5, ParseSound
        <3>7. end \in Nat /\ end <= Len(s) /\ end = p + v.used + v.value
            <4>1. PICK x \in Nat, y \in Nat : x = v.used /\ y = v.value
                BY <3>6
            <4>2. end = (p + x) + y
                BY <1>3, <3>4, <4>1
            <4>3. Len(s) \in Nat
                OBVIOUS
            <4>4. end \in Nat /\ end <= Len(s) /\ end = p + x + y
                BY <3>1, <4>2, <4>3
            <4> QED
                BY <4>1, <4>4
        <3> DEFINE d == Part(s, p + v.used, v.value)
                   e == EncodeVarint(Len(d))
        <3>8. /\ d \in Seq(Byte) /\ Len(d) = v.value /\ v.used = Len(e)
              /\ Has(s, p, e) /\ Has(s, p + v.used, d)
            <4>1. p + v.used + v.value <= Len(s) /\ v.ok
                BY <1>8, <3>7
            <4> HIDE DEF d
            <4>2. d = Part(s, p + v.used, v.value)
                BY DEF d
            <4> QED
                BY <3>4, <3>6, <4>1, <4>2, SizedRead
        <3>9. ItemAt(s, o) = [content |-> c.content, data |-> d]
            BY <1>5, <3>4
        <3> HIDE DEF d
        <3>10. ItemAt(s, o) \in DecodedItem /\ ItemAt(s, o).content = c.content /\ ItemAt(s, o).data = d
            BY <3>2, <3>8, <3>9 DEF DecodedItem
        <3>11. ASSUME c.content # Unknown
               PROVE  /\ Has(s, o, EncodeItem(ItemAt(s, o)))
                      /\ end = o + Len(EncodeItem(ItemAt(s, o)))
            <4> DEFINE b == EncodeContent(c.content)
            <4>1. c.content \in ContentType
                BY <3>2, <3>11 DEF Decoded
            <4>2. b \in Seq(Byte) /\ Has(t, 0, b) /\ c.used = Len(b)
                BY <3>2, <3>11, <4>1, ContentTyped
            <4>3. EncodeItem(ItemAt(s, o)) = b \o e \o d /\ e \in Seq(Byte) /\ Len(e) \in Nat
                <5>1. EncodeItem(ItemAt(s, o)) = b \o e \o d
                    BY <3>10, Zenon DEF EncodeItem
                <5>2. Len(d) \in Nat
                    BY <3>8
                <5> QED
                    BY <5>1, <5>2, EncodeTyped
            <4> HIDE DEF b, e
            <4>4. Has(s, o, b) /\ Len(b) \in Nat
                <5>1. o + 0 = o
                    OBVIOUS
                <5> QED
                    BY <1>1, <4>2, <5>1
            <4> DEFINE f == b \o e
            <4>5. f \in Seq(Byte) /\ Len(f) = Len(b) + Len(e)
                BY <4>2, <4>3, Joined
            <4>6. Has(s, o, f)
                <5>1. p = o + Len(b)
                    BY <3>4, <4>2
                <5> QED
                    BY <3>8, <4>2, <4>3, <4>4, <5>1, HasJoined
            <4> HIDE DEF f
            <4>7. f \o d \in Seq(Byte) /\ Len(f \o d) = Len(f) + Len(d)
                BY <3>8, <4>5, Joined
            <4>8. Has(s, o, f \o d)
                <5>1. p + v.used = o + Len(f)
                    BY <3>3, <3>4, <3>8, <4>2, <4>3, <4>4, <4>5
                <5> QED
                    BY <3>8, <4>5, <4>6, <5>1, HasJoined
            <4>9. EncodeItem(ItemAt(s, o)) = f \o d
                BY <4>3 DEF f
            <4>10. end = o + Len(f \o d)
                <5>1. PICK x \in Nat : x = Len(e) /\ x = v.used
                    BY <3>8, <4>3
                <5>2. PICK y \in Nat : y = Len(d) /\ y = v.value
                    BY <3>8
                <5>3. Len(f \o d) = (u + x) + y
                    BY <3>3, <4>2, <4>5, <4>7, <5>1, <5>2
                <5>4. end = p + x + y
                    BY <3>7, <5>1, <5>2
                <5> QED
                    BY <3>4, <5>3, <5>4
            <4> QED
                BY <4>8, <4>9, <4>10
        <3> QED
            BY <3>7, <3>10, <3>11
    <2> QED
        BY <2>2, <2>3 DEF end
<1> QED
    BY <1>6, <1>7, <1>8

\* The encoding of one item more.
LEMMA EncodeAppended ==
    ASSUME NEW l \in Seq(ItemType), NEW x \in ItemType
    PROVE  EncodeItems(Append(l, x)) = EncodeItems(l) \o EncodeItem(x)
<1> DEFINE n == Len(l)
           m == Append(l, x)
           f == [i \in DOMAIN l |-> EncodeItem(l[i])]
           g == [i \in DOMAIN m |-> EncodeItem(m[i])]
<1>1. n \in Nat /\ DOMAIN l = 1..n
    OBVIOUS
<1>2. Len(m) = n + 1 /\ DOMAIN m = 1..(n + 1) /\ m[n + 1] = x /\ (\A i \in 1..n : m[i] = l[i])
      /\ m \in Seq(ItemType)
    BY <1>1
<1>3. \A i \in 1..n : f[i] \in Seq(Byte) /\ g[i] = f[i]
    <2> SUFFICES ASSUME NEW i \in 1..n PROVE f[i] \in Seq(Byte) /\ g[i] = f[i]
        OBVIOUS
    <2>1. l[i] \in ItemType
        OBVIOUS
    <2>2. f[i] = EncodeItem(l[i]) /\ EncodeItem(l[i]) \in Seq(Byte)
        BY <1>1, <2>1, ItemTyped
    <2>3. i \in 1..(n + 1)
        BY <1>1
    <2>4. g[i] = EncodeItem(m[i]) /\ m[i] = l[i]
        <3>1. i \in DOMAIN m /\ m[i] = l[i]
            BY <1>2, <2>3
        <3> HIDE DEF m
        <3> QED
            BY <3>1
    <2> QED
        BY <2>2, <2>4
<1>4. g[n + 1] = EncodeItem(x) /\ EncodeItem(x) \in Seq(Byte)
    <2>1. n + 1 \in DOMAIN m
        BY <1>1, <1>2
    <2>2. m[n + 1] = x
        BY <1>2
    <2> HIDE DEF m, n
    <2>3. g[n + 1] = EncodeItem(x)
        BY <2>1, <2>2
    <2> QED
        BY <2>3, ItemTyped
<1>5. EncodeItems(l) = Concat(f, n) /\ EncodeItems(m) = Concat(g, n + 1)
    <2>1. EncodeItems(l) = Concat(f, n) /\ EncodeItems(m) = Concat(g, Len(m))
        BY Zenon DEF EncodeItems
    <2> QED
        BY <1>2, <2>1
<1> HIDE DEF f, g, m, n
<1>6. Concat(g, n) = Concat(f, n)
    BY <1>1, <1>3, ConcatSame
<1>7. Concat(g, n + 1) = Concat(g, n) \o g[n + 1]
    <2>1. \A i \in 1..(n + 1) : g[i] \in Seq(Byte)
        <3>1. \A i \in 1..(n + 1) : i \in 1..n \/ i = n + 1
            BY <1>1
        <3> QED
            BY <1>3, <1>4, <3>1
    <2>2. PICK k \in Nat : k = n + 1
        BY <1>1
    <2>3. k # 0 /\ k - 1 = n /\ \A i \in 1..k : g[i] \in Seq(Byte)
        BY <1>1, <2>1, <2>2
    <2>4. Concat(g, k) = Concat(g, k - 1) \o g[k]
        BY <2>3, ConcatNext
    <2> QED
        BY <2>2, <2>3, <2>4
<1> QED
    BY <1>4, <1>5, <1>6, <1>7 DEF m

-----------------------------------------------------------------------------
(* The plaintext decoder never stands beyond the end, and what it has read *)
(* is the encoding of what it has decoded.                                 *)

AllKnown == \A i \in DOMAIN items : Known(items[i].content)
Outcomes == {"idle", "padding", "running", "ok", "Padding", "EmptyBytes",
             "ContentMetadata", "Increment", "Corrupted", "DataLength", "OffsetOverflow"}

CodecInv ==
    /\ plaintext \in Seq(Byte)
    /\ fraction \in (1..WideMax) \X (1..WideMax)
    /\ position \in Nat /\ position <= Len(plaintext)
    /\ items \in Seq(DecodedItem)
    /\ outcome \in Outcomes
    /\ outcome = "padding" => items = <<>> /\ position = 0
    /\ AllKnown => /\ Len(EncodeItems(items)) = position
                   /\ Has(plaintext, 0, EncodeItems(items))

\* Content that is known is content that can be encoded.
LEMMA KnownItems ==
    ASSUME items \in Seq(DecodedItem), AllKnown
    PROVE  items \in Seq(ItemType)
<1>1. ASSUME NEW x \in DecodedItem, Known(x.content) PROVE x \in ItemType
    <2>1. x.content # Unknown
        BY <1>1 DEF Known, Unknown
    <2> QED
        BY <1>1, <2>1 DEF DecodedItem, Decoded, ItemType
<1>2. \A i \in 1..Len(items) : items[i] \in DecodedItem /\ Known(items[i].content)
    <2> HIDE DEF DecodedItem
    <2> QED
        BY DEF AllKnown
<1>3. \A i \in 1..Len(items) : items[i] \in ItemType
    BY <1>1, <1>2
<1> QED
    <2> HIDE DEF DecodedItem, ItemType
    <2> QED
        BY <1>3

LEMMA NothingDecoded ==
    ASSUME NEW s \in Seq(Byte), items = <<>>
    PROVE  EncodeItems(items) = <<>> /\ Len(EncodeItems(items)) = 0 /\ Has(s, 0, EncodeItems(items))
<1>1. EncodeItems(items) = <<>>
    <2> DEFINE f == [i \in DOMAIN items |-> EncodeItem(items[i])]
    <2>1. EncodeItems(items) = Concat(f, Len(items)) /\ Len(items) = 0
        BY DEF EncodeItems
    <2> HIDE DEF f
    <2>2. \A i \in 1..0 : f[i] \in Seq(Byte)
        OBVIOUS
    <2>3. Concat(f, 0) = <<>>
        BY <2>2, ConcatNext
    <2> QED
        BY <2>1, <2>3
<1> QED
    BY <1>1 DEF Has

LEMMA CodecInvStart ==
    ASSUME CodecInit \/ CodecIdle
    PROVE  CodecInv
<1>1. plaintext \in Seq(Byte)
    <2>1. CASE list \in Lists /\ plaintext = EncodeItems(list)
        <3>1. list \in Seq(ItemType)
            BY <2>1, CodecAssumption DEF ItemType
        <3> QED
            BY <2>1, <3>1, ItemsTyped
    <2>2. CASE plaintext \in Plaintexts
        BY <2>2, CodecAssumption
    <2>3. CASE plaintext = <<>>
        BY <2>3
    <2> QED
        BY <2>1, <2>2, <2>3 DEF CodecInit, CodecIdle
<1>2. fraction = <<MinSize, 1>> /\ position = 0 /\ items = <<>> /\ outcome \in Outcomes
    BY DEF CodecInit, CodecIdle, Outcomes
<1>3. fraction \in (1..WideMax) \X (1..WideMax)
    BY <1>2, CodecAssumption
<1>4. Len(plaintext) \in Nat /\ items \in Seq(DecodedItem)
    BY <1>1, <1>2
<1> QED
    BY <1>1, <1>2, <1>3, <1>4, NothingDecoded DEF CodecInv

LEMMA CodecInvKept ==
    ASSUME CodecInv, CodecStep \/ UNCHANGED codecVars
    PROVE  CodecInv'
<1>1. /\ plaintext \in Seq(Byte) /\ fraction \in (1..WideMax) \X (1..WideMax)
      /\ position \in Nat /\ position <= Len(plaintext) /\ Len(plaintext) \in Nat
      /\ items \in Seq(DecodedItem) /\ outcome \in Outcomes
    <2> HIDE DEF DecodedItem
    <2> QED
        BY DEF CodecInv
<1>2. CASE UNCHANGED codecVars
    BY <1>2 DEF CodecInv, codecVars, AllKnown
<1>3. CASE Grow
    <2>1. /\ outcome = "padding" /\ plaintext' = plaintext /\ position' = position /\ items' = items
          /\ outcome' \in {"Padding", "padding"}
        BY <1>3 DEF Grow
    <2>2. fraction' \in (1..WideMax) \X (1..WideMax)
        <3>1. CASE Overflows(fraction)
            BY <1>1, <1>3, <3>1 DEF Grow
        <3>2. CASE ~Overflows(fraction)
            <4>1. PICK p \in 1..WideMax, q \in 1..WideMax : fraction = <<p, q>>
                BY <1>1
            <4>2. fraction' = <<p * 5, q * 4>> /\ ~(p * 5 > WideMax) /\ ~(q * 4 > WideMax)
                BY <1>3, <3>2, <4>1 DEF Grow, Grown, Overflows, GROWTH_NUMERATOR, GROWTH_DENOMINATOR
            <4>3. p * 5 \in 1..WideMax /\ q * 4 \in 1..WideMax
                BY <4>2, CodecAssumption
            <4> QED
                BY <4>2, <4>3
        <3> QED
            BY <3>1, <3>2
    <2> QED
        BY <2>1, <2>2 DEF CodecInv, AllKnown, Outcomes
<1>4. CASE Pad
    <2>1. items = <<>> /\ position = 0 /\ outcome = "padding"
        BY <1>4 DEF Pad, CodecInv
    <2>2. items' = items /\ position' = position /\ fraction' = fraction
          /\ outcome' \in {"Padding", "running"}
        BY <1>4 DEF Pad
    <2>3. plaintext' \in Seq(Byte)
        <3> DEFINE z == [i \in 1..Filling |-> CONTENT_END]
        <3>1. plaintext' = plaintext \/ plaintext' = plaintext \o z
            BY <1>4 DEF Pad
        <3>2. Filling \in Nat
            <4>1. PICK p \in 1..WideMax, q \in 1..WideMax : fraction = <<p, q>>
                BY <1>1
            <4>2. Target = p \div q /\ p \div q \in Nat
                <5>1. p \in Nat /\ q \in Nat /\ q # 0
                    BY CodecAssumption
                <5>2. p \div q \in Nat
                    BY <5>1, Division
                <5> QED
                    BY <4>1, <5>2 DEF Target
            <4>3. padding = "Geometric" => ~(Target < Len(plaintext))
                BY <1>4 DEF Pad, TooSmall
            <4> QED
                BY <1>1, <4>2, <4>3 DEF Filling
        <3>3. z \in Seq(Byte)
            BY <3>2, BaseIs DEF CONTENT_END
        <3> HIDE DEF z
        <3> QED
            BY <1>1, <3>1, <3>3, Joined
    <2>4. Len(plaintext') \in Nat /\ 0 \in Nat
        BY <2>3
    <2>5. Len(EncodeItems(items)) = 0 /\ Has(plaintext', 0, EncodeItems(items))
        BY <2>1, <2>3, NothingDecoded
    <2>6. /\ Len(EncodeItems(items')) = position' /\ Has(plaintext', 0, EncodeItems(items'))
          /\ items' \in Seq(DecodedItem) /\ position' \in Nat /\ position' <= Len(plaintext')
        BY <1>1, <2>1, <2>2, <2>4, <2>5
    <2> QED
        BY <1>1, <2>1, <2>2, <2>3, <2>6 DEF CodecInv, Outcomes
<1>5. CASE DecodeItem
    <2> DEFINE s == plaintext
               x == ItemAt(s, position)
               end == DataEnd(s, position)
               e == ErrorAt(s, position)
    <2>1. position < Len(s) /\ s[position + 1] # CONTENT_END
        BY <1>5 DEF DecodeItem, AtEnd
    <2>2. /\ e \in {"none", "DataLength", "OffsetOverflow"} \cup ParseErrors
          /\ e = "none" => /\ x \in DecodedItem /\ end \in Nat /\ end <= Len(s)
                           /\ x.content # Unknown => /\ Has(s, position, EncodeItem(x))
                                                     /\ end = position + Len(EncodeItem(x))
        BY <1>1, <2>1, ItemRead
    <2>3. /\ outcome = "running" /\ fraction' = fraction /\ plaintext' = plaintext
          /\ \/ e # "none" /\ outcome' = e /\ items' = items /\ position' = position
             \/ e = "none" /\ items' = Append(items, x) /\ position' = end /\ outcome' = outcome
        BY <1>5, DecodeItemIs
    <2> HIDE DEF x, end, e
    <2>4. CASE e # "none"
        <3>1. outcome' \in Outcomes /\ outcome' # "padding" /\ items' = items /\ position' = position
            BY <2>2, <2>3, <2>4 DEF Outcomes, ParseErrors
        <3> QED
            BY <2>3, <3>1 DEF CodecInv, AllKnown
    <2>5. CASE e = "none"
        <3>1. items' = Append(items, x) /\ position' = end /\ outcome' = "running" /\ x \in DecodedItem
              /\ end \in Nat /\ end <= Len(s)
            BY <2>2, <2>3, <2>5
        <3> DEFINE n == Len(items)
        <3>2. items' \in Seq(DecodedItem) /\ n \in Nat /\ DOMAIN items = 1..n
              /\ DOMAIN items' = 1..(n + 1) /\ items'[n + 1] = x /\ \A i \in 1..n : items'[i] = items[i]
            <4> HIDE DEF DecodedItem
            <4> QED
                BY <1>1, <3>1
        <3>3. ASSUME AllKnown'
              PROVE  Len(EncodeItems(items')) = end /\ Has(s, 0, EncodeItems(items'))
            <4>1. n + 1 \in DOMAIN items' /\ \A i \in 1..n : i \in DOMAIN items'
                BY <3>2
            <4>2. Known(x.content) /\ AllKnown
                BY <3>2, <3>3, <4>1 DEF AllKnown
            <4>3. items \in Seq(ItemType)
                BY <1>1, <4>2, KnownItems
            <4>4. x.content # Unknown
                BY <4>2 DEF Known, Unknown
            <4>5. x \in ItemType
                BY <3>1, <4>4 DEF DecodedItem, Decoded, ItemType
            <4> DEFINE a == EncodeItems(items)
                       b == EncodeItem(x)
            <4>6. a \in Seq(Byte) /\ b \in Seq(Byte)
                BY <4>3, <4>5, ItemsTyped, ItemTyped
            <4>7. EncodeItems(items') = a \o b
                BY <3>1, <4>3, <4>5, EncodeAppended
            <4>8. Len(a) = position /\ Has(s, 0, a) /\ Has(s, position, b) /\ end = position + Len(b)
                BY <2>2, <2>5, <4>2, <4>4 DEF CodecInv
            <4> HIDE DEF a, b
            <4>9. Len(a \o b) = end
                BY <4>6, <4>8, Joined
            <4>10. Has(s, 0, a \o b)
                <5>1. 0 + Len(a) = position
                    BY <1>1, <4>8
                <5> QED
                    BY <1>1, <4>6, <4>8, <5>1, HasJoined
            <4> QED
                BY <4>7, <4>9, <4>10
        <3> QED
            BY <1>1, <2>3, <3>1, <3>2, <3>3 DEF CodecInv, Outcomes
    <2> QED
        BY <2>4, <2>5
<1>6. CASE DecodeEnds
    <2>1. /\ plaintext' = plaintext /\ fraction' = fraction /\ position' = position /\ items' = items
          /\ outcome' \in {"EmptyBytes", "ok"}
        BY <1>6 DEF DecodeEnds
    <2> QED
        BY <2>1 DEF CodecInv, AllKnown, Outcomes
<1> QED
    BY <1>2, <1>3, <1>4, <1>5, <1>6 DEF CodecStep

LEMMA CodecInvWhole ==
    ASSUME CodecInv
    PROVE  CodecTypeOK /\ OneEncoding
<1>1. CodecTypeOK
    <2>1. \A i \in DOMAIN items : items[i].data \in Seq(Byte)
        <3>1. \A i \in DOMAIN items : items[i] \in DecodedItem
            <4> HIDE DEF DecodedItem
            <4> QED
                BY DEF CodecInv
        <3> QED
            BY <3>1 DEF DecodedItem
    <2>2. position \in 0..Len(plaintext)
        BY DEF CodecInv
    <2> QED
        BY <2>1, <2>2 DEF CodecInv, CodecTypeOK, Outcomes
<1>2. ASSUME AllKnown PROVE EncodeItems(items) = SubSeq(plaintext, 1, position)
    <2> DEFINE a == EncodeItems(items)
    <2>1. a \in Seq(Byte) /\ Len(a) = position /\ Has(plaintext, 0, a) /\ plaintext \in Seq(Byte)
        BY <1>2, KnownItems, ItemsTyped DEF CodecInv
    <2> HIDE DEF a
    <2>2. SubSeq(plaintext, 0 + 1, 0 + Len(a)) = a
        BY <2>1, HasSlice
    <2>3. 0 + 1 = 1 /\ 0 + Len(a) = position
        BY <2>1
    <2> QED
        BY <2>2, <2>3 DEF a
<1> QED
    BY <1>1, <1>2 DEF OneEncoding, AllKnown

-----------------------------------------------------------------------------
(* What encode_plaintext writes is read back                               *)

LEMMA SizedContentBack ==
    ASSUME NEW s \in Seq(Byte), NEW t \in 2..(Upgrade - 1), s # <<>>, s[1] = t,
           NEW d \in Seq(Byte), NEW e, e = EncodeVarint(Len(d)),
           Has(s, 1, e), Has(s, 1 + Len(e), d), Len(s) <= UsizeMax
    PROVE  /\ t = CONTENT_PROPRIETARY => ParseContent(s) = ParsedContent(1 + Len(e) + Len(d), Proprietary(d))
           /\ t = CONTENT_STRING /\ Len(d) = 0 =>
                 ParseContent(s) = ParsedContent(1 + Len(e) + Len(d), String)
           /\ t \notin {CONTENT_PROPRIETARY, CONTENT_STRING} =>
                 ParseContent(s) = ParsedContent(1 + Len(e) + Len(d), Unknown)
<1>1. Upgrade \in 4..(Base - 1) /\ Len(s) \in Nat /\ UsizeMax \in Nat /\ Len(d) \in Nat
    BY CodecAssumption, UsizeEncodable
<1>2. ParseContent(s) = ParseSized(s)
    BY <1>1 DEF ParseContent, CONTENT_BIP, CONTENT_END
<1> DEFINE v == ParseVarint(Tail(s))
           start == 1 + v.used
           end == start + v.value
<1>3. /\ v.ok /\ v.value = Len(d) /\ v.used = Len(e) /\ Len(e) \in Nat
      /\ 1 + Len(e) + Len(d) <= Len(s) /\ d = Part(s, 1 + Len(e), Len(d))
    <2>1. Encodable(Len(d))
        <3>1. 1 + Len(e) + Len(d) <= Len(s) /\ Len(e) \in Nat
            BY <1>1, EncodeTyped DEF Has
        <3>2. Len(d) <= UsizeMax
            BY <1>1, <3>1
        <3> QED
            BY <1>1, <3>2, UsizeEncodable
    <2>2. v = ParseVarint(RestAt(s, 1))
        BY TailIs
    <2> HIDE DEF v
    <2>3. v = [ok |-> TRUE, value |-> Len(d), used |-> Len(e)]
          /\ Len(e) \in Nat \ {0}
          /\ 1 + Len(e) + Len(d) <= Len(s)
          /\ d = Part(s, 1 + Len(e), Len(d))
        BY <2>1, <2>2, SizedBack
    <2> QED
        BY <2>3
<1>4. end \in Nat /\ end <= Len(s) /\ end <= UsizeMax /\ v.value <= UsizeMax /\ v.value \in Nat
      /\ end = 1 + Len(e) + Len(d)
    <2>1. PICK x \in Nat : x = Len(e) /\ x = v.used
        BY <1>3
    <2>2. PICK y \in Nat : y = Len(d) /\ y = v.value
        BY <1>1, <1>3
    <2>3. end = 1 + x + y /\ 1 + x + y <= Len(s)
        BY <1>3, <2>1, <2>2
    <2>4. end \in Nat /\ end <= Len(s) /\ end <= UsizeMax /\ y <= UsizeMax
        BY <1>1, <2>3
    <2> QED
        BY <2>1, <2>2, <2>3, <2>4
<1>5. SubSeq(s, start + 1, end) = d
    <2>1. d = SubSeq(s, 1 + Len(e) + 1, 1 + Len(e) + Len(d))
        BY <1>3, Zenon DEF Part
    <2> QED
        BY <1>3, <2>1, Zenon
<1>6. ParseSized(s) = CASE s[1] = CONTENT_PROPRIETARY -> ParsedContent(end, Proprietary(d))
                        [] s[1] = CONTENT_STRING /\ v.value = 0 -> ParsedContent(end, String)
                        [] s[1] = CONTENT_STRING /\ v.value # 0 -> RefusedContent("ContentMetadata")
                        [] OTHER -> ParsedContent(end, Unknown)
    <2>1. ~(~v.ok \/ v.value > UsizeMax) /\ ~(end > UsizeMax) /\ ~(end > Len(s))
        BY SMTT(30), <1>1, <1>3, <1>4
    <2> QED
        BY <1>3, <1>4, <1>5, <2>1 DEF ParseSized
<1> HIDE DEF start, end, v
<1>7. CASE t = CONTENT_PROPRIETARY
    BY <1>2, <1>4, <1>6, <1>7 DEF CONTENT_PROPRIETARY, CONTENT_STRING
<1>8. CASE t = CONTENT_STRING /\ Len(d) = 0
    BY <1>2, <1>3, <1>4, <1>6, <1>8 DEF CONTENT_PROPRIETARY, CONTENT_STRING
<1>9. CASE t \notin {CONTENT_PROPRIETARY, CONTENT_STRING}
    BY <1>2, <1>4, <1>6, <1>9
<1> QED
    BY <1>7, <1>8, <1>9 DEF CONTENT_PROPRIETARY, CONTENT_STRING

\* CONTENT that was written is read, under its canonical name.
LEMMA ContentBack ==
    ASSUME NEW s \in Seq(Byte), NEW c \in ContentType, Has(s, 0, EncodeContent(c)),
           Len(s) <= UsizeMax
    PROVE  ParseContent(s) = ParsedContent(Len(EncodeContent(c)), Canonical(c))
<1>1. Upgrade \in 4..(Base - 1)
    BY CodecAssumption
<1>2. CASE c \in {Bip(n) : n \in NamedBips} \cup {OtherBip(n) : n \in 0..(Base * Base - 1)}
    <2>1. PICK n \in 0..(Base * Base - 1) : \/ n \in NamedBips /\ c = Bip(n)
                                            \/ c = OtherBip(n)
        BY <1>2, CodecAssumption
    <2>2. n \in Nat
        BY <2>1, BaseIs
    <2>3. EncodeContent(c) = <<1, n \div Base, n % Base>>
        <3>1. c.type \in {"Bip", "BIP"} /\ c.number = n
            BY <2>1 DEF Bip, OtherBip
        <3> QED
            BY <3>1 DEF EncodeContent, CONTENT_BIP
    <2>4. n \div Base \in Nat /\ n % Base \in 0..(Base - 1) /\ n = (n \div Base) * Base + (n % Base)
        BY <2>2, BaseIs, Division
    <2>5. PICK q \in Nat : q = n \div Base
        BY <2>4
    <2>6. PICK r \in Nat : r = n % Base
        BY <2>4, BaseIs
    <2>7. EncodeContent(c) = <<1, q, r>> /\ n = q * Base + r
        BY <2>3, <2>4, <2>5, <2>6
    <2>8. Len(s) >= 3 /\ s[1] = 1 /\ s[2] = q /\ s[3] = r
        <3>1. Len(<<1, q, r>>) = 3
            OBVIOUS
        <3>2. 0 + 3 <= Len(s) /\ \A i \in 1..3 : s[0 + i] = <<1, q, r>>[i]
            BY <2>7, <3>1 DEF Has
        <3> QED
            BY <3>2
    <2>9. ParseContent(s) = ParsedContent(3, BipOfNumber(n))
        <3>1. ~(Len(s) < 3) /\ s[2] * Base + s[3] = n
            BY <2>7, <2>8
        <3> QED
            BY <2>8, <3>1 DEF ParseContent, CONTENT_BIP, CONTENT_END
    <2>10. Canonical(c) = BipOfNumber(n)
        BY <2>1 DEF Canonical, BipOfNumber, Bip, OtherBip
    <2> QED
        BY <2>7, <2>9, <2>10
<1>3. CASE c \in [type : {"Proprietary"}, tag : Seq(Byte)]
    <2> DEFINE d == c.tag
               e == EncodeVarint(Len(d))
    <2>1. EncodeContent(c) = <<2>> \o e \o d /\ d \in Seq(Byte) /\ c = Proprietary(d)
        BY <1>3 DEF EncodeContent, CONTENT_PROPRIETARY, Proprietary
    <2>2. Canonical(c) = c
        BY <1>3 DEF Canonical
    <2> HIDE DEF d
    <2>3. PICK t \in 2..(Upgrade - 1) : t = 2
        BY <1>1
    <2>4. t \in Byte
        BY <1>1, <2>3, BaseIs
    <2>5. Len(EncodeContent(c)) = 1 + Len(e) + Len(d) /\ s # <<>> /\ s[1] = t
          /\ Has(s, 1, e) /\ Has(s, 1 + Len(e), d)
        <3>1. PICK b \in Byte : b = t
            BY <2>4
        <3>2. e = EncodeVarint(Len(d)) /\ EncodeContent(c) = <<b>> \o e \o d
            BY <2>1, <2>3, <3>1
        <3> HIDE DEF e
        <3> DEFINE x == <<b>> \o e \o d
        <3>3. /\ Len(x) = 1 + Len(e) + Len(d)
              /\ Has(s, 0, x) <=> s # <<>> /\ s[1] = b /\ Has(s, 1, e) /\ Has(s, 1 + Len(e), d)
            BY SMTT(30), <2>1, <3>2, Tagged
        <3>4. EncodeContent(c) = x
            BY <3>2
        <3> HIDE DEF x
        <3> QED
            BY <3>1, <3>3, <3>4
    <2>6. t = CONTENT_PROPRIETARY
        BY <2>3 DEF CONTENT_PROPRIETARY
    <2>7. ParseContent(s) = ParsedContent(1 + Len(e) + Len(d), Proprietary(d))
        BY <2>1, <2>5, <2>6, SizedContentBack
    <2> QED
        BY <2>1, <2>2, <2>5, <2>7
<1>4. CASE c = String
    <2> DEFINE e == EncodeVarint(0)
    <2>1. EncodeContent(c) = <<3>> \o e
        BY <1>4 DEF EncodeContent, String, CONTENT_STRING
    <2>2. Canonical(c) = String
        BY <1>4 DEF Canonical, String
    <2>3. PICK t \in 2..(Upgrade - 1) : t = 3
        BY <1>1
    <2>4. t \in Byte
        BY <1>1, <2>3, BaseIs
    <2>5. PICK d \in Seq(Byte) : d = <<>>
        <3>1. <<>> \in Seq(Byte)
            OBVIOUS
        <3> QED
            BY <3>1, Zenon
    <2>6. Len(d) = 0 /\ e = EncodeVarint(Len(d))
        BY <2>5
    <2>7. Len(EncodeContent(c)) = 1 + Len(e) /\ s # <<>> /\ s[1] = t /\ Has(s, 1, e)
        <3>1. PICK b \in Byte : b = t
            BY <2>4
        <3>2. EncodeContent(c) = <<b>> \o e
            BY <2>1, <2>3, <3>1
        <3> HIDE DEF e
        <3> DEFINE x == <<b>> \o e
        <3>3. Len(x) = 1 + Len(e) /\ (Has(s, 0, x) <=> s # <<>> /\ s[1] = b /\ Has(s, 1, e))
            <4>1. e = EncodeVarint(Len(d))
                BY <2>6
            <4> QED
                BY <4>1, Tagged
        <3>4. EncodeContent(c) = x
            BY <3>2
        <3> HIDE DEF x
        <3> QED
            BY <3>1, <3>3, <3>4
    <2>8. Has(s, 1 + Len(e), d) /\ Len(e) \in Nat
        <3>1. Len(e) \in Nat /\ Has(s, 1, e)
            BY <2>7, EncodeTyped
        <3> HIDE DEF e
        <3>2. 1 + Len(e) <= Len(s)
            BY <3>1 DEF Has
        <3>3. (1 + Len(e)) + Len(d) <= Len(s) /\ \A i \in 1..Len(d) : FALSE
            BY <2>6, <3>1, <3>2
        <3> QED
            BY <3>1, <3>3 DEF Has
    <2>9. t = CONTENT_STRING
        BY <2>3 DEF CONTENT_STRING
    <2> HIDE DEF e
    <2>10. ParseContent(s) = ParsedContent(1 + Len(e) + Len(d), String)
        <3>1. e = EncodeVarint(Len(d))
            BY <2>6
        <3>2. PICK n \in Nat : n = Len(d) /\ n = 0
            BY <2>6
        <3>3. /\ t = CONTENT_STRING /\ n = 0 =>
                    ParseContent(s) = ParsedContent(1 + Len(e) + Len(d), String)
            BY <2>7, <2>8, <3>1, <3>2, SizedContentBack
        <3> QED
            BY <2>9, <3>2, <3>3
    <2>11. 1 + Len(e) + Len(d) = 1 + Len(e)
        BY <2>6, <2>8
    <2> QED
        BY <2>2, <2>7, <2>10, <2>11
<1>5. CASE c \in [type : {"Foreign"}, of : 4..(Upgrade - 1), data : Seq(Byte)]
    <2> DEFINE d == c.data
               e == EncodeVarint(Len(d))
    <2>1. EncodeContent(c) = <<c.of>> \o e \o d /\ d \in Seq(Byte) /\ c.of \in 4..(Upgrade - 1)
        BY <1>5 DEF EncodeContent
    <2>2. Canonical(c) = Unknown
        BY <1>5 DEF Canonical
    <2> HIDE DEF d
    <2>3. PICK t \in 2..(Upgrade - 1) : t = c.of /\ t >= 4
        BY <1>1, <2>1
    <2>4. t \in Byte
        BY <1>1, <2>3, BaseIs
    <2>5. Len(EncodeContent(c)) = 1 + Len(e) + Len(d) /\ s # <<>> /\ s[1] = t
          /\ Has(s, 1, e) /\ Has(s, 1 + Len(e), d)
        <3>1. PICK b \in Byte : b = t
            BY <2>4
        <3>2. e = EncodeVarint(Len(d)) /\ EncodeContent(c) = <<b>> \o e \o d
            BY <2>1, <2>3, <3>1
        <3> HIDE DEF e
        <3> DEFINE x == <<b>> \o e \o d
        <3>3. /\ Len(x) = 1 + Len(e) + Len(d)
              /\ Has(s, 0, x) <=> s # <<>> /\ s[1] = b /\ Has(s, 1, e) /\ Has(s, 1 + Len(e), d)
            BY SMTT(30), <2>1, <3>2, Tagged
        <3>4. EncodeContent(c) = x
            BY <3>2
        <3> HIDE DEF x
        <3> QED
            BY <3>1, <3>3, <3>4
    <2>6. t \notin {CONTENT_PROPRIETARY, CONTENT_STRING}
        BY <2>3 DEF CONTENT_PROPRIETARY, CONTENT_STRING
    <2>7. ParseContent(s) = ParsedContent(1 + Len(e) + Len(d), Unknown)
        BY <2>1, <2>5, <2>6, SizedContentBack
    <2> QED
        BY <2>2, <2>5, <2>7
<1> QED
    BY <1>2, <1>3, <1>4, <1>5 DEF ContentType

CanonicalItem(x) == [content |-> Canonical(x.content), data |-> x.data]

\* A turn at an item that was written reads it.
LEMMA ItemBack ==
    ASSUME NEW s \in Seq(Byte), NEW o \in Nat, NEW x \in ItemType, Has(s, o, EncodeItem(x)),
           Len(s) <= UsizeMax
    PROVE  /\ o < Len(s) /\ s[o + 1] # CONTENT_END
           /\ ErrorAt(s, o) = "none"
           /\ ItemAt(s, o) = CanonicalItem(x)
           /\ DataEnd(s, o) = o + Len(EncodeItem(x))
<1> DEFINE b == EncodeContent(x.content)
           d == x.data
           e == EncodeVarint(Len(d))
           f == b \o e
<1>1. x.content \in ContentType /\ d \in Seq(Byte) /\ EncodeItem(x) \in Seq(Byte)
      /\ EncodeItem(x) # <<>> /\ EncodeItem(x)[1] # CONTENT_END
    BY ItemTyped
<1>2. b \in Seq(Byte) /\ e \in Seq(Byte) /\ EncodeItem(x) = b \o e \o d
      /\ Len(d) \in Nat /\ Len(e) \in Nat /\ Len(b) \in Nat
    <2>1. Len(d) \in Nat
        BY <1>1
    <2>2. b \in Seq(Byte) /\ e \in Seq(Byte)
        BY <1>1, <2>1, ContentTyped, EncodeTyped
    <2>3. EncodeItem(x) = b \o e \o d
        BY Zenon DEF EncodeItem
    <2> HIDE DEF b, e
    <2> QED
        BY <2>1, <2>2, <2>3
<1>3. o < Len(s) /\ s[o + 1] # CONTENT_END
    <2> DEFINE y == EncodeItem(x)
    <2>1. y \in Seq(Byte) /\ y # <<>> /\ y[1] # CONTENT_END /\ Has(s, o, y)
        BY <1>1
    <2> HIDE DEF y
    <2>2. Len(y) >= 1 /\ Len(y) \in Nat
        BY <2>1
    <2>3. o + Len(y) <= Len(s) /\ s[o + 1] = y[1]
        BY <2>1, <2>2 DEF Has
    <2> QED
        BY <2>1, <2>2, <2>3
<1> HIDE DEF b, e, d
<1>4. f \in Seq(Byte) /\ Len(f) = Len(b) + Len(e)
    BY <1>2, Joined
<1>5. EncodeItem(x) = f \o d
    BY <1>2
<1> HIDE DEF f
<1>6. Has(s, o, f) /\ Has(s, o + Len(f), d)
    BY <1>1, <1>4, <1>5, HasJoined
<1>7. Has(s, o, b) /\ Has(s, o + Len(b), e)
    BY <1>2, <1>6, HasJoined DEF f
<1>8. Len(f \o d) = Len(f) + Len(d)
    BY <1>1, <1>4, Joined
<1>9. PICK i \in Nat : i = Len(b)
    BY <1>2
<1>10. PICK j \in Nat : j = Len(e)
    BY <1>2
<1>11. PICK k \in Nat : k = Len(d)
    BY <1>2
<1>12. PICK p \in Nat : p = o + i
    OBVIOUS
<1>13. /\ o + Len(f) = p + j /\ Has(s, p, e) /\ Has(s, p + Len(e), d)
       /\ p <= Len(s) /\ p + j + k <= Len(s) /\ Len(s) \in Nat
    <2>1. Len(f) = i + j
        BY <1>4, <1>9, <1>10
    <2>2. o + Len(f) = p + j
        BY <1>12, <2>1
    <2>3. Has(s, p, e) /\ Has(s, p + Len(e), d)
        BY <1>6, <1>7, <1>9, <1>10, <1>12, <2>2
    <2>4. p + j <= Len(s) /\ (p + j) + k <= Len(s)
        BY <1>10, <1>11, <2>3 DEF Has
    <2>5. Len(s) \in Nat
        OBVIOUS
    <2> QED
        BY <2>2, <2>3, <2>4, <2>5
<1>14. ContentAt(s, o) = ParsedContent(i, Canonical(x.content))
    <2> DEFINE t == RestAt(s, o)
    <2>1. t \in Seq(Byte) /\ Len(t) = Len(s) - o
          /\ \A n \in Nat, q \in Seq(Byte) : Has(t, n, q) <=> Has(s, o + n, q)
        <3>1. o <= Len(s)
            BY <1>3
        <3> QED
            BY <3>1, RestAtIs
    <2>2. ContentAt(s, o) = ParseContent(t)
        BY Zenon DEF ContentAt
    <2> HIDE DEF t
    <2>3. o + 0 = o
        OBVIOUS
    <2>4. Has(t, 0, b)
        BY <1>2, <1>7, <2>1, <2>3
    <2>5. Len(t) <= UsizeMax
        <3>1. Len(s) \in Nat /\ UsizeMax \in Nat
            BY UsizeEncodable
        <3> QED
            BY <2>1, <3>1
    <2>6. ParseContent(t) = ParsedContent(Len(b), Canonical(x.content))
        BY <1>1, <2>1, <2>4, <2>5, ContentBack DEF b
    <2> QED
        BY <1>9, <2>2, <2>6
<1>15. /\ ContentAt(s, o).error = "none" /\ ContentAt(s, o).used = i
       /\ ContentAt(s, o).content = Canonical(x.content)
    BY <1>14 DEF ParsedContent
<1>16. /\ LengthAt(s, o) = [ok |-> TRUE, value |-> k, used |-> j]
       /\ d = Part(s, p + Len(e), k) /\ k <= UsizeMax /\ UsizeMax \in Nat
    <2>1. LengthAt(s, o) = ParseVarint(RestAt(s, p))
        BY <1>12, <1>15 DEF LengthAt
    <2>2. k <= UsizeMax /\ UsizeMax \in Nat
        BY <1>13, UsizeEncodable
    <2>3. Encodable(Len(d))
        BY <1>11, <2>2, UsizeEncodable
    <2>4. e = EncodeVarint(Len(d))
        BY DEF e
    <2>5. LengthAt(s, o) = [ok |-> TRUE, value |-> Len(d), used |-> Len(e)]
          /\ d = Part(s, p + Len(e), Len(d))
        <3>1. PICK v : v = LengthAt(s, o)
            OBVIOUS
        <3>2. v = ParseVarint(RestAt(s, p))
            BY <2>1, <3>1
        <3>3. Has(s, p, e) /\ Has(s, p + Len(e), d) /\ d \in Seq(Byte)
            BY <1>1, <1>13
        <3>4. v = [ok |-> TRUE, value |-> Len(d), used |-> Len(e)]
              /\ d = Part(s, p + Len(e), Len(d))
            BY <2>3, <2>4, <3>2, <3>3, SizedBack
        <3> QED
            BY <3>1, <3>4
    <2> QED
        BY <1>10, <1>11, <2>2, <2>5
<1>17. LengthAt(s, o).ok /\ LengthAt(s, o).value = k /\ LengthAt(s, o).used = j
    BY <1>16
<1>18. DataStart(s, o) = p + j /\ DataEnd(s, o) = p + j + k
    BY <1>12, <1>15, <1>17 DEF DataStart, DataEnd
<1>19. ErrorAt(s, o) = "none"
    <2>1. ~(ContentAt(s, o).error # "none")
          /\ ~(ContentAt(s, o).error = "none" /\ (~LengthAt(s, o).ok \/ LengthAt(s, o).value > UsizeMax))
        BY <1>15, <1>16, <1>17
    <2>2. ErrorAt(s, o) = IF DataEnd(s, o) > UsizeMax THEN "OffsetOverflow"
                          ELSE IF DataEnd(s, o) > Len(s) THEN "Corrupted" ELSE "none"
        BY <2>1 DEF ErrorAt
    <2>3. ~(DataEnd(s, o) > UsizeMax) /\ ~(DataEnd(s, o) > Len(s))
        BY <1>13, <1>16, <1>18
    <2> QED
        BY <2>2, <2>3
<1>20. ItemAt(s, o) = CanonicalItem(x)
    <2>1. Part(s, DataStart(s, o), LengthAt(s, o).value) = d
        BY <1>10, <1>16, <1>17, <1>18
    <2> QED
        BY <1>15, <2>1 DEF ItemAt, CanonicalItem, d
<1>21. DataEnd(s, o) = o + Len(EncodeItem(x))
    <2>1. Len(EncodeItem(x)) = i + j + k
        BY <1>4, <1>5, <1>8, <1>9, <1>10, <1>11
    <2> QED
        BY <1>12, <1>18, <2>1
<1> QED
    BY <1>3, <1>19, <1>20, <1>21

ItemParts(l) == [i \in DOMAIN l |-> EncodeItem(l[i])]

\* Where the items of an encoded list stand.
LEMMA ItemPlaces ==
    ASSUME NEW s \in Seq(Byte), NEW l \in Seq(ItemType), Has(s, 0, EncodeItems(l))
    PROVE  /\ Len(Concat(ItemParts(l), 0)) = 0
           /\ Len(Concat(ItemParts(l), Len(l))) = Len(EncodeItems(l))
           /\ \A i \in 1..Len(l) :
                 /\ Has(s, Len(Concat(ItemParts(l), i - 1)), EncodeItem(l[i]))
                 /\ Len(Concat(ItemParts(l), i)) =
                       Len(Concat(ItemParts(l), i - 1)) + Len(EncodeItem(l[i]))
<1> DEFINE f == ItemParts(l)
           n == Len(l)
<1>1. n \in Nat /\ EncodeItems(l) = Concat(f, n)
    BY DEF EncodeItems, ItemParts
<1>2. \A i \in 1..n : f[i] = EncodeItem(l[i]) /\ f[i] \in Seq(Byte)
    <2>1. \A i \in DOMAIN l : EncodeItem(l[i]) \in Seq(Byte)
        BY ItemsTyped
    <2>2. DOMAIN l = 1..n
        OBVIOUS
    <2> QED
        BY <2>1, <2>2 DEF ItemParts
<1> HIDE DEF f, n
<1>3. \A i \in 1..n : /\ Len(Concat(f, i - 1)) \in Nat
                      /\ Has(s, 0 + Len(Concat(f, i - 1)), f[i])
                      /\ Len(Concat(f, i)) = Len(Concat(f, i - 1)) + Len(f[i])
    <2>1. PICK m \in Nat : m = n
        BY <1>1
    <2>2. PICK o \in Nat : o = 0
        OBVIOUS
    <2>3. Has(s, o, Concat(f, m)) /\ \A i \in 1..m : f[i] \in Seq(Byte)
        BY <1>1, <1>2, <2>1, <2>2
    <2>4. \A i \in 1..m : /\ Len(Concat(f, i - 1)) \in Nat
                          /\ Has(s, o + Len(Concat(f, i - 1)), f[i])
                          /\ Len(Concat(f, i)) = Len(Concat(f, i - 1)) + Len(f[i])
        <3>1. \A i \in 1..m : Placed(s, o, f, i)
            BY <2>3, HasConcat
        <3> QED
            BY <3>1 DEF Placed
    <2> QED
        BY <2>1, <2>2, <2>4
<1>4. ASSUME NEW i \in 1..n
      PROVE  /\ Has(s, Len(Concat(f, i - 1)), EncodeItem(l[i]))
             /\ Len(Concat(f, i)) = Len(Concat(f, i - 1)) + Len(EncodeItem(l[i]))
    <2>1. PICK m \in Nat : m = Len(Concat(f, i - 1))
        BY <1>3
    <2>2. 0 + m = m
        OBVIOUS
    <2> QED
        BY <1>2, <1>3, <2>1, <2>2
<1>5. Len(Concat(f, 0)) = 0
    <2>1. \A i \in 1..0 : f[i] \in Seq(Byte)
        OBVIOUS
    <2>2. Concat(f, 0) = <<>>
        BY <2>1, ConcatNext
    <2> QED
        BY <2>2
<1> QED
    BY <1>1, <1>4, <1>5 DEF f, n

\* Where the decoder stands in a plaintext that was encoded, and what it has
\* decoded so far.
ReadBackInv ==
    list # <<>> =>
        /\ list \in Seq(ItemType)
        /\ outcome \in {"padding", "Padding", "running", "ok"}
        /\ Len(plaintext) <= UsizeMax
        /\ outcome = "padding" => plaintext = EncodeItems(list)
        /\ outcome \in {"running", "ok"} =>
              /\ Has(plaintext, 0, EncodeItems(list))
              /\ \A i \in 1..Len(plaintext) :
                    i > Len(EncodeItems(list)) => plaintext[i] = CONTENT_END
              /\ Len(items) <= Len(list)
              /\ position = Len(Concat(ItemParts(list), Len(items)))
              /\ \A i \in 1..Len(items) : items[i] = CanonicalItem(list[i])
        /\ outcome = "ok" => Len(items) = Len(list)

LEMMA ReadBackStart ==
    ASSUME CodecInit \/ CodecIdle
    PROVE  ReadBackInv
<1>1. CASE list = <<>>
    BY <1>1 DEF ReadBackInv
<1>2. CASE list # <<>>
    <2>1. list \in Lists /\ plaintext = EncodeItems(list) /\ Len(plaintext) <= UsizeMax /\ outcome = "padding"
        BY <1>2 DEF CodecInit, CodecIdle
    <2>2. list \in Seq(ItemType)
        BY <2>1, CodecAssumption DEF ItemType
    <2> QED
        BY <2>1, <2>2 DEF ReadBackInv
<1> QED
    BY <1>1, <1>2

\* Items are left where the decoder does not stand at padding.
LEMMA NextItem ==
    ASSUME CodecInv, ReadBackInv, list # <<>>, outcome = "running"
    PROVE  /\ ~AtEnd => Len(items) < Len(list)
           /\ Len(items) < Len(list) =>
                 /\ ~AtEnd
                 /\ ErrorAt(plaintext, position) = "none"
                 /\ ItemAt(plaintext, position) = CanonicalItem(list[Len(items) + 1])
                 /\ DataEnd(plaintext, position) = Len(Concat(ItemParts(list), Len(items) + 1))
<1> DEFINE s == plaintext
           n == Len(items)
           f == ItemParts(list)
<1>1. /\ s \in Seq(Byte) /\ Len(s) <= UsizeMax /\ list \in Seq(ItemType) /\ Has(s, 0, EncodeItems(list))
      /\ \A i \in 1..Len(s) : i > Len(EncodeItems(list)) => s[i] = CONTENT_END
      /\ n \in Nat /\ n <= Len(list) /\ Len(list) \in Nat /\ position = Len(Concat(f, n))
      /\ position \in Nat /\ position <= Len(s) /\ Len(s) \in Nat
    <2>1. items \in Seq(DecodedItem) /\ list \in Seq(ItemType)
        BY DEF CodecInv, ReadBackInv
    <2>2. n \in Nat /\ Len(list) \in Nat
        <3> HIDE DEF DecodedItem, ItemType
        <3> QED
            BY <2>1
    <2> HIDE DEF f, n
    <2> QED
        BY <2>1, <2>2 DEF CodecInv, ReadBackInv, f, n
<1>2. /\ Len(Concat(f, Len(list))) = Len(EncodeItems(list))
      /\ \A i \in 1..Len(list) : /\ Has(s, Len(Concat(f, i - 1)), EncodeItem(list[i]))
                                 /\ Len(Concat(f, i)) = Len(Concat(f, i - 1)) + Len(EncodeItem(list[i]))
    BY <1>1, ItemPlaces
<1> HIDE DEF f, n
<1>3. ASSUME ~AtEnd PROVE n < Len(list)
    <2>1. position < Len(s) /\ s[position + 1] # CONTENT_END
        BY <1>3 DEF AtEnd
    <2>2. position + 1 \in 1..Len(s)
        BY <1>1, <2>1
    <2>3. ~(position + 1 > Len(EncodeItems(list)))
        BY <1>1, <2>1, <2>2
    <2>4. n # Len(list)
        <3>1. ASSUME n = Len(list) PROVE FALSE
            <4>1. position = Len(EncodeItems(list))
                BY <1>1, <1>2, <3>1
            <4> QED
                BY <1>1, <2>3, <4>1
        <3> QED
            BY <3>1
    <2> QED
        BY <1>1, <2>4
<1>4. ASSUME n < Len(list)
      PROVE  /\ ~AtEnd
             /\ ErrorAt(s, position) = "none"
             /\ ItemAt(s, position) = CanonicalItem(list[n + 1])
             /\ DataEnd(s, position) = Len(Concat(f, n + 1))
    <2>1. PICK m \in 1..Len(list) : m = n + 1 /\ m - 1 = n
        BY <1>1, <1>4
    <2>2. Has(s, position, EncodeItem(list[m]))
          /\ Len(Concat(f, m)) = position + Len(EncodeItem(list[m]))
        BY <1>1, <1>2, <2>1
    <2>3. list[m] \in ItemType
        <3> HIDE DEF ItemType
        <3> QED
            BY <1>1
    <2>4. /\ position < Len(s) /\ s[position + 1] # CONTENT_END
          /\ ErrorAt(s, position) = "none"
          /\ ItemAt(s, position) = CanonicalItem(list[m])
          /\ DataEnd(s, position) = position + Len(EncodeItem(list[m]))
        BY <1>1, <2>2, <2>3, ItemBack
    <2> QED
        BY <2>1, <2>2, <2>4 DEF AtEnd
<1> QED
    BY <1>3, <1>4 DEF n, f

\* Zeros do not change what stands before them.
LEMMA PaddedHas ==
    ASSUME NEW x \in Seq(Byte), NEW n \in Nat, NEW z, z = [i \in 1..n |-> CONTENT_END]
    PROVE  /\ x \o z \in Seq(Byte) /\ Len(x \o z) = Len(x) + n
           /\ Has(x \o z, 0, x)
           /\ \A i \in 1..Len(x \o z) : i > Len(x) => (x \o z)[i] = CONTENT_END
<1>1. z \in Seq(Byte) /\ Len(z) = n /\ \A i \in 1..n : z[i] = CONTENT_END
    BY BaseIs DEF CONTENT_END
<1> DEFINE y == x \o z
<1>2. y \in Seq(Byte) /\ Len(y) = Len(x) + n /\ Len(x) \in Nat
      /\ \A i \in 1..(Len(x) + n) : y[i] = IF i <= Len(x) THEN x[i] ELSE z[i - Len(x)]
    BY <1>1, ConcatProperties
<1> HIDE DEF y
<1>3. \A i \in 1..Len(x) : y[i] = x[i]
    BY <1>2
<1>4. \A i \in 1..Len(y) : i > Len(x) => y[i] = CONTENT_END
    <2> SUFFICES ASSUME NEW i \in 1..Len(y), i > Len(x) PROVE y[i] = CONTENT_END
        OBVIOUS
    <2>1. y[i] = z[i - Len(x)] /\ i - Len(x) \in 1..n
        BY <1>2
    <2> QED
        BY <1>1, <2>1
<1>5. Has(y, 0, x)
    <2>1. 0 + Len(x) <= Len(y) /\ \A i \in 1..Len(x) : 0 + i = i
        BY <1>2
    <2> QED
        BY <1>3, <2>1 DEF Has
<1> QED
    BY <1>2, <1>4, <1>5 DEF y

LEMMA ReadBackKept ==
    ASSUME CodecInv, ReadBackInv, CodecStep \/ UNCHANGED codecVars
    PROVE  ReadBackInv'
<1> SUFFICES ASSUME list # <<>> PROVE ReadBackInv'
    <2>1. list' = list
        BY DEF CodecStep, Grow, Pad, DecodeItem, DecodeEnds, codecVars
    <2> QED
        BY <2>1 DEF ReadBackInv
<1> DEFINE X == EncodeItems(list)
           n == Len(items)
<1>1. /\ list \in Seq(ItemType) /\ outcome \in {"padding", "Padding", "running", "ok"}
      /\ plaintext \in Seq(Byte) /\ Len(plaintext) <= UsizeMax /\ Len(plaintext) \in Nat
      /\ items \in Seq(DecodedItem) /\ n \in Nat /\ Len(list) \in Nat
    <2>1. items \in Seq(DecodedItem) /\ list \in Seq(ItemType)
        BY DEF CodecInv, ReadBackInv
    <2>2. n \in Nat /\ Len(list) \in Nat
        <3> HIDE DEF DecodedItem, ItemType
        <3> QED
            BY <2>1
    <2>3. plaintext \in Seq(Byte)
        BY DEF CodecInv
    <2> QED
        BY <2>1, <2>2, <2>3 DEF ReadBackInv
<1>2. CASE UNCHANGED codecVars
    <2>1. list' = list /\ outcome' = outcome /\ plaintext' = plaintext /\ items' = items
          /\ position' = position
        BY <1>2 DEF codecVars
    <2> QED
        BY <2>1 DEF ReadBackInv
<1>3. CASE Grow
    <2>1. /\ list' = list /\ plaintext' = plaintext /\ outcome = "padding"
          /\ outcome' \in {"Padding", "padding"}
        BY <1>3 DEF Grow
    <2> QED
        BY <1>1, <2>1 DEF ReadBackInv
<1>4. CASE Pad
    <2>1. /\ list' = list /\ outcome = "padding" /\ items = <<>> /\ position = 0
          /\ items' = items /\ position' = position /\ plaintext = X
        BY <1>4 DEF Pad, CodecInv, ReadBackInv
    <2>2. CASE outcome' = "Padding" /\ plaintext' = plaintext
        BY <1>1, <2>1, <2>2 DEF ReadBackInv
    <2>3. CASE ~(padding = "Geometric" /\ Target > UsizeMax)
        <3> DEFINE z == [i \in 1..Filling |-> CONTENT_END]
        <3>1. plaintext' = plaintext \o z /\ outcome' = "running"
            BY <1>4, <2>3 DEF Pad
        <3>2. Filling \in Nat /\ Len(plaintext) + Filling <= UsizeMax
            <4>1. PICK p \in 1..WideMax, q \in 1..WideMax : fraction = <<p, q>>
                BY DEF CodecInv
            <4>2. Target = p \div q /\ p \div q \in Nat
                <5>1. p \in Nat /\ q \in Nat /\ q # 0
                    BY CodecAssumption
                <5>2. p \div q \in Nat
                    BY <5>1, Division
                <5> QED
                    BY <4>1, <5>2 DEF Target
            <4>3. padding = "Geometric" => ~(Target < Len(plaintext))
                BY <1>4 DEF Pad, TooSmall
            <4> QED
                BY <1>1, <2>3, <4>2, <4>3, UsizeEncodable DEF Filling
        <3>3. z = [i \in 1..Filling |-> CONTENT_END]
            OBVIOUS
        <3> HIDE DEF z
        <3> DEFINE y == plaintext \o z
        <3>4. /\ y \in Seq(Byte) /\ Len(y) = Len(plaintext) + Filling
              /\ Has(y, 0, plaintext)
              /\ \A i \in 1..Len(y) : i > Len(plaintext) => y[i] = CONTENT_END
            BY <1>1, <3>2, <3>3, PaddedHas
        <3> HIDE DEF y
        <3>5. Len(Concat(ItemParts(list), 0)) = 0
            <4>1. Has(y, 0, EncodeItems(list))
                BY <2>1, <3>4
            <4> QED
                BY <1>1, <3>4, <4>1, ItemPlaces
        <3>6. /\ Len(plaintext') <= UsizeMax
              /\ Has(plaintext', 0, X)
              /\ \A i \in 1..Len(plaintext') : i > Len(X) => plaintext'[i] = CONTENT_END
            BY <2>1, <3>1, <3>2, <3>4 DEF y
        <3>7. Len(items') <= Len(list) /\ position' = Len(Concat(ItemParts(list), Len(items')))
              /\ \A i \in 1..Len(items') : items'[i] = CanonicalItem(list[i])
            BY <1>1, <2>1, <3>5
        <3> QED
            BY <1>1, <2>1, <3>1, <3>6, <3>7 DEF ReadBackInv
    <2> QED
        BY <1>4, <2>2, <2>3 DEF Pad
<1>5. CASE DecodeItem
    <2>1. outcome = "running" /\ ~AtEnd /\ list' = list /\ plaintext' = plaintext
        BY <1>5, DecodeItemIs
    <2>2. n < Len(list) /\ ErrorAt(plaintext, position) = "none"
          /\ ItemAt(plaintext, position) = CanonicalItem(list[n + 1])
          /\ DataEnd(plaintext, position) = Len(Concat(ItemParts(list), n + 1))
        BY <2>1, NextItem
    <2>3. items' = Append(items, CanonicalItem(list[n + 1])) /\ outcome' = outcome
          /\ position' = Len(Concat(ItemParts(list), n + 1))
        BY <1>5, <2>2, DecodeItemIs
    <2>4. Len(items') = n + 1 /\ items'[n + 1] = CanonicalItem(list[n + 1])
          /\ \A i \in 1..n : items'[i] = items[i]
        <3> DEFINE x == CanonicalItem(list[n + 1])
        <3>1. items' = Append(items, x)
            BY <2>3
        <3> HIDE DEF x
        <3>2. Len(items') = n + 1 /\ items'[n + 1] = x /\ \A i \in 1..n : items'[i] = items[i]
            <4> HIDE DEF DecodedItem
            <4> QED
                BY <1>1, <3>1
        <3> QED
            BY <3>2 DEF x
    <2>5. Len(items') <= Len(list) /\ position' = Len(Concat(ItemParts(list), Len(items')))
        BY <1>1, <2>2, <2>3, <2>4
    <2>6. \A i \in 1..Len(items') : items'[i] = CanonicalItem(list[i])
        <3>1. \A i \in 1..n : items[i] = CanonicalItem(list[i])
            BY <2>1 DEF ReadBackInv
        <3>2. \A i \in 1..(n + 1) : i \in 1..n \/ i = n + 1
            BY <1>1
        <3> HIDE DEF n
        <3> QED
            BY <2>4, <3>1, <3>2
    <2> QED
        BY <2>1, <2>3, <2>5, <2>6 DEF ReadBackInv
<1>6. CASE DecodeEnds
    <2>1. /\ list' = list /\ plaintext' = plaintext /\ items' = items /\ position' = position
          /\ outcome = "running" /\ AtEnd /\ outcome' = IF items = <<>> THEN "EmptyBytes" ELSE "ok"
        BY <1>6 DEF DecodeEnds
    <2>2. ~(n < Len(list))
        BY <2>1, NextItem
    <2>3. n = Len(list)
        BY <1>1, <2>1, <2>2 DEF ReadBackInv
    <2>4. Len(list) # 0
        <3> HIDE DEF ItemType
        <3> QED
            BY <1>1
    <2>5. items # <<>>
        BY <2>3, <2>4
    <2>6. outcome' = "ok"
        BY <2>1, <2>5
    <2> QED
        BY <2>1, <2>3, <2>6 DEF ReadBackInv
<1> QED
    BY <1>2, <1>3, <1>4, <1>5, <1>6 DEF CodecStep

LEMMA ReadBackWhole ==
    ASSUME CodecInv, ReadBackInv
    PROVE  ItemsReadBack
<1> SUFFICES ASSUME Encoded, outcome # "running"
             PROVE  outcome = "ok" /\ items = [i \in DOMAIN list |-> CanonicalItem(list[i])]
    BY DEF ItemsReadBack, CanonicalItem
<1>1. outcome = "ok" /\ list \in Seq(ItemType) /\ items \in Seq(DecodedItem)
    BY DEF ReadBackInv, Encoded, CodecInv
<1>2. Len(items) = Len(list) /\ \A i \in 1..Len(items) : items[i] = CanonicalItem(list[i])
    BY <1>1 DEF ReadBackInv, Encoded
<1>3. items = [i \in DOMAIN list |-> CanonicalItem(list[i])]
    <2> HIDE DEF ItemType, DecodedItem
    <2>1. DOMAIN items = 1..Len(items) /\ DOMAIN list = 1..Len(list)
          /\ items = [i \in 1..Len(items) |-> items[i]]
        BY <1>1
    <2>2. DOMAIN items = DOMAIN list /\ \A i \in DOMAIN list : items[i] = CanonicalItem(list[i])
        BY <1>2, <2>1
    <2> QED
        BY <2>1, <2>2
<1> QED
    BY <1>1, <1>3

-----------------------------------------------------------------------------
(* Theorems about the plaintext codec                                      *)

LEMMA CodecSteps ==
    ASSUME [DecodersNext]_decodersVars
    PROVE  CodecStep \/ UNCHANGED codecVars
BY DEF DecodersNext, decodersVars

LEMMA CodecStarts ==
    ASSUME DecodersInit
    PROVE  CodecInit \/ CodecIdle
BY DEF DecodersInit

LEMMA CodecInvAlways == DecodersSpec => [](CodecInv /\ ReadBackInv)
<1>1. DecodersInit => CodecInv /\ ReadBackInv
    BY CodecStarts, CodecInvStart, ReadBackStart
<1>2. CodecInv /\ ReadBackInv /\ [DecodersNext]_decodersVars => (CodecInv /\ ReadBackInv)'
    BY CodecSteps, CodecInvKept, ReadBackKept
<1> QED
    BY <1>1, <1>2, PTL DEF DecodersSpec

\* The decoder accepts one encoding of each list of items only: what
\* decode_plaintext has read is what encode_plaintext would have written for
\* what it has decoded.
THEOREM OneEncodingCorrect == DecodersSpec => []OneEncoding
BY CodecInvAlways, CodecInvWhole, PTL

\* What encode_plaintext wrote is what decode_plaintext returns, with any
\* padding and whatever the items are.
THEOREM ItemsReadBackCorrect == DecodersSpec => []ItemsReadBack
BY CodecInvAlways, ReadBackWhole, PTL

-----------------------------------------------------------------------------
(* The sizes of padded payloads                                            *)

Fractions == (1..WideMax) \X (1..WideMax)
SmallestBucket == <<MinSize, 1>>
NextBucket(f) == IF Overflows(f) THEN f ELSE <<5 * f[1], 4 * f[2]>>
SizeOf(f) == f[1] \div f[2]
Buckets == [p \in Nat \X Fractions |-> NextBucket(p[2])]
\* the k-th fraction of the geometric sequence
Bucket(k) == (CHOOSE f : f \in [0..k -> Fractions] /\ Unfolds(f, SmallestBucket, Buckets, k))[k]

LEMMA Fraction ==
    ASSUME NEW f \in Fractions
    PROVE  \E p, q \in Nat : f = <<p, q>> /\ f[1] = p /\ f[2] = q /\ p # 0 /\ q # 0 /\ SizeOf(f) = p \div q
                             /\ SizeOf(f) \in Nat
<1>1. PICK p \in 1..WideMax, q \in 1..WideMax : f = <<p, q>>
    BY DEF Fractions
<1>2. p \in Nat /\ q \in Nat /\ p # 0 /\ q # 0
    BY CodecAssumption
<1>3. p \div q \in Nat
    BY <1>2, Division
<1>4. f[1] = p /\ f[2] = q /\ SizeOf(f) = p \div q
    BY <1>1 DEF SizeOf
<1> QED
    BY <1>1, <1>2, <1>3, <1>4

\* The fractions grow, and so do the sizes they are rounded down to.
LEMMA FractionGrows ==
    ASSUME NEW f \in Fractions
    PROVE  /\ NextBucket(f) \in Fractions /\ SizeOf(f) <= SizeOf(NextBucket(f))
           /\ ~Overflows(f) => NextBucket(f) = Grown(f)
<1>1. PICK p \in 1..WideMax, q \in 1..WideMax : f = <<p, q>>
    BY DEF Fractions
<1>2. p \in Nat /\ q \in Nat /\ p # 0 /\ q # 0
    BY CodecAssumption
<1>3. CASE Overflows(f)
    <2>1. NextBucket(f) = f
        BY <1>3 DEF NextBucket
    <2>2. SizeOf(f) \in Nat
        BY Fraction
    <2> QED
        BY <1>3, <2>1, <2>2
<1>4. CASE ~Overflows(f)
    <2>1. NextBucket(f) = <<5 * p, 4 * q>> /\ Grown(f) = <<p * 5, q * 4>>
          /\ ~(p * 5 > WideMax) /\ ~(q * 4 > WideMax)
        BY <1>1, <1>4 DEF NextBucket, Grown, Overflows, GROWTH_NUMERATOR, GROWTH_DENOMINATOR
    <2>2. 5 * p \in 1..WideMax /\ 4 * q \in 1..WideMax /\ 5 * p = p * 5 /\ 4 * q = q * 4
        BY <1>2, <2>1, CodecAssumption
    <2>3. NextBucket(f) \in Fractions /\ NextBucket(f) = Grown(f)
        BY <2>1, <2>2 DEF Fractions
    <2>4. p \div q <= (5 * p) \div (4 * q)
        <3> DEFINE s == p \div q
                   t == (5 * p) \div (4 * q)
        <3>1. s \in Nat /\ t \in Nat /\ ~(p < q * s)
            <4>1. s \in Nat
                BY <1>2, Division
            <4>2. 5 * p \in Nat /\ 4 * q \in Nat /\ 4 * q # 0
                BY <1>2
            <4>3. t \in Nat
                BY <4>2, Division
            <4>4. s < s <=> p < q * s
                BY <1>2, <4>1, QuotientBelow
            <4> QED
                BY <4>1, <4>3, <4>4
        <3>2. t < s <=> 5 * p < (4 * q) * s
            <4>1. 5 * p \in Nat /\ 4 * q \in Nat /\ 4 * q # 0
                BY <1>2
            <4> HIDE DEF s
            <4> QED
                BY <3>1, <4>1, QuotientBelow
        <3> HIDE DEF s, t
        <3>3. q * s \in Nat /\ (4 * q) * s = 4 * (q * s)
            BY <1>2, <3>1
        <3>4. ~(5 * p < (4 * q) * s)
            BY <1>2, <3>1, <3>3
        <3> QED
            BY <3>1, <3>2, <3>4 DEF s, t
    <2>5. SizeOf(f) = p \div q /\ SizeOf(NextBucket(f)) = (5 * p) \div (4 * q)
        BY <1>1, <2>1 DEF SizeOf
    <2> QED
        BY <2>3, <2>4, <2>5
<1> QED
    BY <1>3, <1>4

LEMMA BucketsTyped ==
    /\ SmallestBucket \in Fractions /\ Buckets \in [Nat \X Fractions -> Fractions]
    /\ \A k \in Nat : \A f \in Fractions : Buckets[<<k, f>>] = NextBucket(f)
<1>1. SmallestBucket \in Fractions
    BY CodecAssumption DEF SmallestBucket, Fractions
<1>2. \A p \in Nat \X Fractions : NextBucket(p[2]) \in Fractions
    BY FractionGrows
<1> QED
    BY <1>1, <1>2 DEF Buckets

LEMMA BucketNext ==
    ASSUME NEW k \in Nat
    PROVE  /\ Bucket(k) \in Fractions /\ Bucket(0) = SmallestBucket
           /\ Bucket(k + 1) = NextBucket(Bucket(k))
<1> DEFINE Right(f, n) == f \in [0..n -> Fractions] /\ Unfolds(f, SmallestBucket, Buckets, n)
           F(n) == CHOOSE f : Right(f, n)
<1>1. \A n : Bucket(n) = F(n)[n]
    BY DEF Bucket
<1>2. ASSUME NEW n \in Nat PROVE Right(F(n), n)
    <2>1. \E f \in [0..n -> Fractions] : Unfolds(f, SmallestBucket, Buckets, n)
        BY BucketsTyped, UnfoldsSome
    <2>2. \E f : Right(f, n)
        BY <2>1
    <2> HIDE DEF Right
    <2> QED
        BY <2>2
<1> HIDE DEF F
<1>3. k + 1 \in Nat /\ 0 \in Nat /\ k \in 0..((k + 1) - 1) /\ (\A j \in 0..(k - 1) : j \in 0..((k + 1) - 1))
      /\ k \in 0..k /\ k \in 0..(k + 1)
    OBVIOUS
<1>4. Bucket(k) \in Fractions
    BY <1>1, <1>2, <1>3
<1>5. Bucket(0) = SmallestBucket
    BY <1>1, <1>2, <1>3 DEF Unfolds
<1>6. Unfolds(F(k + 1), SmallestBucket, Buckets, k)
    BY <1>2, <1>3 DEF Unfolds
<1>7. F(k + 1)[k] = F(k)[k]
    BY <1>2, <1>3, <1>6, UnfoldsOnce
<1>8. F(k + 1)[k + 1] = Buckets[<<k + 1, F(k + 1)[k]>>] /\ F(k + 1)[k] \in Fractions
    BY <1>2, <1>3 DEF Unfolds
<1>9. F(k + 1)[k + 1] = NextBucket(F(k + 1)[k])
    BY <1>3, <1>8, BucketsTyped
<1> QED
    BY <1>1, <1>3, <1>4, <1>5, <1>7, <1>9

\* The sizes are those of the fractions.
LEMMA BucketSizesAre ==
    ASSUME NEW n \in Nat
    PROVE  BucketSizes(n) = {SizeOf(Bucket(k)) : k \in 0..n}
<1> DEFINE Rec(g) == g = [k \in 0..n |-> IF k = 0 THEN SmallestBucket ELSE NextBucket(g[k - 1])]
           F == CHOOSE g : Rec(g)
<1>1. BucketSizes(n) = {SizeOf(F[k]) : k \in 0..n}
    BY Zenon DEF BucketSizes, SizeOf, NextBucket, SmallestBucket
<1>2. \A i \in 0..n : i # 0 => /\ i - 1 \in 0..(n - 1) /\ i - 1 \in 0..n
                               /\ (i - 1) + 1 = i /\ i \in 1..n /\ i \in Nat
    OBVIOUS
<1>3. PICK g \in [0..n -> Fractions] : Unfolds(g, SmallestBucket, Buckets, n)
    BY BucketsTyped, UnfoldsSome
<1>4. Rec(g)
    <2>1. \A i \in 0..n : i # 0 => g[i] = Buckets[<<i, g[i - 1]>>] /\ g[i - 1] \in Fractions
        BY <1>2, <1>3 DEF Unfolds
    <2>2. \A i \in 0..n : g[i] = IF i = 0 THEN SmallestBucket ELSE NextBucket(g[i - 1])
        BY <1>2, <1>3, <2>1, BucketsTyped DEF Unfolds
    <2> QED
        BY <2>2
<1>5. Rec(F)
    BY <1>4
<1> HIDE DEF F
<1>6. F = [i \in 0..n |-> IF i = 0 THEN SmallestBucket ELSE NextBucket(F[i - 1])]
    BY <1>5
<1> HIDE DEF Rec
<1>7. \A i \in 0..n : F[i] = IF i = 0 THEN SmallestBucket ELSE NextBucket(F[i - 1])
    BY <1>6
<1>8. F[0] = SmallestBucket /\ \A i \in 1..n : F[i] = NextBucket(F[i - 1])
    <2>1. 0 \in 0..n /\ \A i \in 1..n : i \in 0..n /\ i # 0
        OBVIOUS
    <2> QED
        BY <1>7, <2>1
<1> DEFINE P == {k \in Nat : k <= n => F[k] = Bucket(k)}
<1>9. 0 \in P
    BY <1>8, BucketNext
<1>10. ASSUME NEW k \in Nat, k \in P PROVE k + 1 \in P
    <2>1. k + 1 \in Nat /\ (k + 1 <= n => k <= n /\ k + 1 \in 1..n /\ (k + 1) - 1 = k)
        OBVIOUS
    <2>2. Bucket(k + 1) = NextBucket(Bucket(k))
        BY BucketNext
    <2> QED
        BY <1>8, <1>10, <2>1, <2>2
<1> HIDE DEF P
<1>11. Nat \subseteq P
    BY <1>9, <1>10, SetInduction
<1>12. \A k \in 0..n : F[k] = Bucket(k)
    BY <1>11 DEF P
<1> QED
    BY <1>1, <1>12

\* What holds of the fractions before the loop ends.
LEMMA GrowthIs ==
    ASSUME NEW p \in Nat, NEW q \in Nat, q # 0, NEW k \in Nat, NEW size \in Nat
    PROVE  /\ MinSize >= 4 /\ MinSize \in Nat
           /\ p >= q * (MinSize + k) =>
                 k <= p \div q /\ 5 * p >= (4 * q) * (MinSize + (k + 1))
           /\ p \div q < size => 4 * ((5 * p) \div (4 * q)) < 5 * size
<1>1. MinSize \in Nat /\ MinSize >= 4
    BY CodecAssumption
<1> DEFINE m == MinSize + k
<1>2. m \in Nat /\ m >= 4 /\ m >= k /\ MinSize + (k + 1) = m + 1
    BY <1>1
<1> HIDE DEF m
<1>3. ASSUME p >= q * m PROVE k <= p \div q /\ 5 * p >= (4 * q) * (m + 1)
    <2>1. p \div q \in Nat /\ (p \div q < m <=> p < q * m)
        BY <1>2, Division, QuotientBelow
    <2>2. q * m \in Nat /\ q * 4 <= q * m
        BY <1>2, Products
    <2>3. ~(p \div q < m)
        BY <1>3, <2>1, <2>2
    <2>4. (4 * q) * (m + 1) = 4 * (q * m) + 4 * q
        BY <1>2
    <2>5. 5 * p >= 5 * (q * m)
        BY <1>3, <2>2
    <2>6. 5 * (q * m) >= 4 * (q * m) + 4 * q
        BY <2>2
    <2>7. k <= p \div q
        <3> DEFINE t == p \div q
        <3>1. t \in Nat /\ ~(t < m)
            BY <2>1, <2>3
        <3> HIDE DEF t
        <3>2. k <= t
            BY <1>2, <3>1
        <3> QED
            BY <3>2 DEF t
    <2>8. 5 * p >= (4 * q) * (m + 1)
        <3>1. PICK x \in Nat : x = q * m
            BY <2>2
        <3>2. 5 * p >= 5 * x /\ 5 * x >= 4 * x + 4 * q /\ (4 * q) * (m + 1) = 4 * x + 4 * q
            BY <2>4, <2>5, <2>6, <3>1
        <3>3. 5 * p >= 4 * x + 4 * q
            BY <3>2
        <3> QED
            BY <3>2, <3>3
    <2> QED
        BY <2>7, <2>8
<1>4. ASSUME p \div q < size PROVE 4 * ((5 * p) \div (4 * q)) < 5 * size
    <2> DEFINE t == (5 * p) \div (4 * q)
               r == (5 * p) % (4 * q)
    <2>1. p < q * size
        BY <1>4, QuotientBelow
    <2>2. t \in Nat /\ r \in Nat /\ 5 * p = t * (4 * q) + r
        <3>1. 5 * p \in Nat /\ 4 * q \in Nat /\ 4 * q # 0
            BY DEF t
        <3>2. t \in Nat /\ r \in 0..(4 * q - 1) /\ 5 * p = t * (4 * q) + r
            BY <3>1, Division
        <3> HIDE DEF t, r
        <3> QED
            BY <3>1, <3>2
    <2> HIDE DEF t, r
    <2>3. ASSUME 5 * size <= 4 * t PROVE FALSE
        <3>1. q * (5 * size) <= q * (4 * t)
            <4>1. 5 * size \in Nat /\ 4 * t \in Nat
                BY <2>2
            <4> QED
                BY <2>3, <4>1, Products
        <3>2. q * (5 * size) = 5 * (q * size) /\ q * (4 * t) = t * (4 * q) /\ q * size \in Nat
              /\ t * (4 * q) \in Nat
            BY <2>2
        <3>3. PICK x \in Nat : x = q * size
            BY <3>2
        <3>4. PICK y \in Nat : y = t * (4 * q)
            BY <3>2
        <3>5. 5 * x <= y /\ p < x /\ 5 * p = y + r
            BY <2>1, <2>2, <3>1, <3>2, <3>3, <3>4
        <3> QED
            BY <2>2, <3>5
    <2>4. 4 * t < 5 * size
        BY <2>2, <2>3
    <2> QED
        BY <2>4 DEF t
<1> QED
    BY <1>1, <1>2, <1>3, <1>4 DEF m

\* The fraction of the loop, and what its last comparison was.
BucketInv ==
    LET size == Len(EncodeItems(list))
    IN  padding = "Geometric" =>
            /\ list # <<>>
            /\ \E k \in Nat : /\ fraction = Bucket(k)
                              /\ fraction[1] >= fraction[2] * (MinSize + k)
                              /\ \A j \in 0..(k - 1) : SizeOf(Bucket(j)) < size
            /\ fraction = SmallestBucket \/ 4 * SizeOf(fraction) < 5 * size
            /\ outcome = "Padding" => \/ SizeOf(fraction) < size /\ Overflows(fraction)
                                      \/ SizeOf(fraction) >= size /\ SizeOf(fraction) > UsizeMax
            /\ outcome \notin {"padding", "Padding"} => Len(plaintext) = SizeOf(fraction)

LEMMA BucketStart ==
    ASSUME CodecInit \/ CodecIdle
    PROVE  BucketInv
<1> SUFFICES ASSUME padding = "Geometric" PROVE BucketInv
    BY DEF BucketInv
<1>1. list \in Lists /\ outcome = "padding" /\ fraction = <<MinSize, 1>>
    BY DEF CodecInit, CodecIdle
<1>2. list # <<>>
    BY <1>1, CodecAssumption
<1>3. fraction = Bucket(0) /\ fraction = SmallestBucket
    BY <1>1, BucketNext DEF SmallestBucket
<1>4. fraction[1] >= fraction[2] * (MinSize + 0) /\ 0 \in Nat /\ \A j \in 0..(0 - 1) : FALSE
    BY <1>1, CodecAssumption
<1> QED
    BY <1>1, <1>2, <1>3, <1>4 DEF BucketInv

LEMMA BucketKept ==
    ASSUME CodecInv, ReadBackInv, BucketInv, CodecStep \/ UNCHANGED codecVars
    PROVE  BucketInv'
<1> SUFFICES ASSUME padding = "Geometric" PROVE BucketInv'
    <2>1. padding' = padding
        BY DEF CodecStep, Grow, Pad, DecodeItem, DecodeEnds, codecVars
    <2> QED
        BY <2>1 DEF BucketInv
<1> DEFINE size == Len(EncodeItems(list))
<1>1. list # <<>> /\ list \in Seq(ItemType) /\ size \in Nat
    <2>1. list # <<>> /\ list \in Seq(ItemType)
        BY DEF BucketInv, ReadBackInv
    <2> QED
        BY <2>1, ItemsTyped
<1>2. fraction \in Fractions /\ Target = SizeOf(fraction) /\ SizeOf(fraction) \in Nat
    <2>1. fraction \in Fractions
        BY DEF CodecInv, Fractions
    <2> QED
        BY <2>1, Fraction DEF Target, SizeOf
<1>3. ASSUME outcome = "padding" PROVE TooSmall <=> SizeOf(fraction) < size
    BY <1>1, <1>2, <1>3 DEF ReadBackInv, TooSmall
<1>4. CASE UNCHANGED codecVars
    <2>1. list' = list /\ padding' = padding /\ fraction' = fraction /\ outcome' = outcome
          /\ plaintext' = plaintext
        BY <1>4 DEF codecVars
    <2> QED
        BY <2>1 DEF BucketInv
<1>5. CASE Grow
    <2>1. outcome = "padding" /\ SizeOf(fraction) < size /\ list' = list /\ padding' = padding
          /\ plaintext' = plaintext
        BY <1>3, <1>5 DEF Grow
    <2>2. CASE Overflows(fraction)
        <3>1. fraction' = fraction /\ outcome' = "Padding"
            BY <1>5, <2>2 DEF Grow
        <3> QED
            BY <2>1, <2>2, <3>1 DEF BucketInv
    <2>3. CASE ~Overflows(fraction)
        <3>1. fraction' = Grown(fraction) /\ outcome' = "padding"
            BY <1>5, <2>1, <2>3 DEF Grow
        <3>2. PICK k \in Nat : /\ fraction = Bucket(k)
                               /\ fraction[1] >= fraction[2] * (MinSize + k)
                               /\ \A j \in 0..(k - 1) : SizeOf(Bucket(j)) < size
            BY DEF BucketInv
        <3>3. fraction' = Bucket(k + 1) /\ k + 1 \in Nat
            BY <1>2, <2>3, <3>1, <3>2, BucketNext, FractionGrows
        <3>4. \A j \in 0..((k + 1) - 1) : SizeOf(Bucket(j)) < size
            <4>1. \A j \in 0..((k + 1) - 1) : j \in 0..(k - 1) \/ j = k
                OBVIOUS
            <4> QED
                BY <2>1, <3>2, <4>1
        <3>5. PICK p \in Nat : \E q \in Nat : /\ fraction = <<p, q>> /\ fraction[1] = p /\ fraction[2] = q
                                              /\ q # 0 /\ SizeOf(fraction) = p \div q
            BY <1>2, Fraction
        <3>6. PICK q \in Nat : /\ fraction = <<p, q>> /\ fraction[1] = p /\ fraction[2] = q
                               /\ q # 0 /\ SizeOf(fraction) = p \div q
            BY <3>5
        <3>7. fraction' = <<5 * p, 4 * q>>
            BY <3>1, <3>6 DEF Grown, GROWTH_NUMERATOR, GROWTH_DENOMINATOR
        <3>8. 5 * p >= (4 * q) * (MinSize + (k + 1)) /\ 4 * ((5 * p) \div (4 * q)) < 5 * size
            <4>1. p >= q * (MinSize + k) /\ p \div q < size
                BY <2>1, <3>2, <3>6
            <4> HIDE DEF size
            <4> QED
                BY <1>1, <3>6, <4>1, GrowthIs
        <3>9. fraction'[1] >= fraction'[2] * (MinSize + (k + 1)) /\ 4 * SizeOf(fraction') < 5 * size
            BY <3>7, <3>8 DEF SizeOf
        <3> QED
            BY <1>1, <2>1, <3>1, <3>3, <3>4, <3>9 DEF BucketInv
    <2> QED
        BY <2>2, <2>3
<1>6. CASE Pad
    <2>1. /\ outcome = "padding" /\ ~(SizeOf(fraction) < size) /\ list' = list /\ padding' = padding
          /\ fraction' = fraction
        BY <1>3, <1>6 DEF Pad
    <2>2. CASE Target > UsizeMax
        <3>1. outcome' = "Padding"
            BY <1>6, <2>2 DEF Pad
        <3>2. SizeOf(fraction) >= size /\ SizeOf(fraction) > UsizeMax
            BY <1>1, <1>2, <2>1, <2>2
        <3> QED
            BY <2>1, <3>1, <3>2 DEF BucketInv
    <2>3. CASE ~(Target > UsizeMax)
        <3> DEFINE z == [i \in 1..Filling |-> CONTENT_END]
        <3>1. plaintext' = plaintext \o z /\ outcome' = "running"
            BY <1>6, <2>3 DEF Pad
        <3>2. plaintext \in Seq(Byte) /\ Len(plaintext) = size
            BY <1>1, <2>1 DEF CodecInv, ReadBackInv
        <3>3. Filling = SizeOf(fraction) - size /\ Filling \in Nat
            BY <1>1, <1>2, <2>1, <3>2 DEF Filling
        <3>4. z = [i \in 1..Filling |-> CONTENT_END]
            OBVIOUS
        <3> HIDE DEF z
        <3>5. Len(plaintext \o z) = Len(plaintext) + Filling
            BY <3>2, <3>3, <3>4, PaddedHas
        <3>6. Len(plaintext') = SizeOf(fraction)
            BY <1>1, <1>2, <3>1, <3>2, <3>3, <3>5
        <3> QED
            BY <2>1, <3>1, <3>6 DEF BucketInv
    <2> QED
        BY <2>2, <2>3
<1>7. CASE DecodeItem
    <2>1. /\ list' = list /\ padding' = padding /\ fraction' = fraction /\ plaintext' = plaintext
          /\ outcome = "running"
        BY <1>7, DecodeItemIs
    <2>2. outcome' \notin {"padding", "Padding"}
        <3>1. ErrorAt(plaintext, position) = "none"
            BY <1>1, <1>7, <2>1, DecodeItemIs, NextItem
        <3>2. outcome' = outcome
            BY <1>7, <3>1, DecodeItemIs
        <3> QED
            BY <2>1, <3>2
    <2> QED
        BY <2>1, <2>2 DEF BucketInv
<1>8. CASE DecodeEnds
    <2>1. /\ list' = list /\ padding' = padding /\ fraction' = fraction /\ plaintext' = plaintext
          /\ outcome = "running" /\ outcome' \in {"EmptyBytes", "ok"}
        BY <1>8 DEF DecodeEnds
    <2> QED
        BY <2>1 DEF BucketInv
<1> QED
    BY <1>4, <1>5, <1>6, <1>7, <1>8 DEF CodecStep

LEMMA BucketWhole ==
    ASSUME CodecInv, ReadBackInv, BucketInv
    PROVE  PaddedSizes
<1> SUFFICES ASSUME padding = "Geometric" PROVE PaddedSizes
    BY DEF PaddedSizes
<1> DEFINE size == Len(EncodeItems(list))
           length == Len(plaintext)
<1>1. list # <<>> /\ size \in Nat
    <2>1. list # <<>> /\ list \in Seq(ItemType)
        BY DEF BucketInv, ReadBackInv
    <2> QED
        BY <2>1, ItemsTyped
<1>2. fraction \in Fractions /\ SizeOf(fraction) \in Nat
    <2>1. fraction \in Fractions
        BY DEF CodecInv, Fractions
    <2> QED
        BY <2>1, Fraction
<1>3. PICK k \in Nat : /\ fraction = Bucket(k)
                       /\ fraction[1] >= fraction[2] * (MinSize + k)
                       /\ \A j \in 0..(k - 1) : SizeOf(Bucket(j)) < size
    BY DEF BucketInv
<1>4. k <= SizeOf(fraction)
    <2>1. PICK p \in Nat : \E q \in Nat : /\ fraction[1] = p /\ fraction[2] = q
                                          /\ q # 0 /\ SizeOf(fraction) = p \div q
        BY <1>2, Fraction
    <2>2. PICK q \in Nat : /\ fraction[1] = p /\ fraction[2] = q
                           /\ q # 0 /\ SizeOf(fraction) = p \div q
        BY <2>1
    <2>3. p >= q * (MinSize + k)
        BY <1>3, <2>2
    <2>4. k <= p \div q
        BY <2>2, <2>3, GrowthIs
    <2> QED
        BY <2>2, <2>4
<1>5. ASSUME Encoded
      PROVE  /\ length \in BucketSizes(length)
             /\ length = MinSize \/ 4 * length < 5 * size
    <2>1. length = SizeOf(fraction) /\ length \in Nat
        BY <1>2, <1>5 DEF BucketInv, Encoded
    <2> HIDE DEF length
    <2>2. k \in 0..length
        BY <1>4, <2>1
    <2>3. BucketSizes(length) = {SizeOf(Bucket(j)) : j \in 0..length}
        BY <2>1, BucketSizesAre
    <2>4. length \in BucketSizes(length)
        BY <1>3, <2>1, <2>2, <2>3
    <2>5. fraction = SmallestBucket => SizeOf(fraction) = MinSize
        BY CodecAssumption DEF SmallestBucket, SizeOf
    <2>6. fraction = SmallestBucket \/ 4 * SizeOf(fraction) < 5 * size
        BY DEF BucketInv
    <2> QED
        BY <2>1, <2>4, <2>5, <2>6
<1>6. ASSUME outcome = "Padding", NEW n \in BucketSizes(size)
      PROVE  n < size \/ n > UsizeMax
    <2> HIDE DEF size
    <2>1. BucketSizes(size) = {SizeOf(Bucket(j)) : j \in 0..size}
        BY <1>1, BucketSizesAre
    <2>2. PICK j \in 0..size : n = SizeOf(Bucket(j))
        BY <1>6, <2>1
    <2>3. j \in Nat
        BY <1>1
    <2>4. CASE j < k
        <3>1. j \in 0..(k - 1)
            BY <2>3, <2>4
        <3> QED
            BY <1>3, <2>2, <3>1
    <2>5. CASE ~(j < k)
        <3>1. PICK d \in Nat : j = k + d
            <4>1. j - k \in Nat /\ j = k + (j - k)
                BY <2>3, <2>5
            <4> QED
                BY <4>1
        <3> DEFINE P == {i \in Nat : /\ SizeOf(Bucket(k)) <= SizeOf(Bucket(k + i))
                                     /\ Overflows(fraction) => Bucket(k + i) = fraction}
        <3>2. 0 \in P
            <4>1. k + 0 = k
                OBVIOUS
            <4> QED
                BY <1>2, <1>3, <4>1
        <3>3. ASSUME NEW i \in Nat, i \in P PROVE i + 1 \in P
            <4>1. PICK m \in Nat : m = k + i /\ m + 1 = k + (i + 1) /\ i + 1 \in Nat
                OBVIOUS
            <4>2. Bucket(m) \in Fractions /\ Bucket(m + 1) = NextBucket(Bucket(m))
                BY BucketNext
            <4>3. SizeOf(Bucket(m)) <= SizeOf(Bucket(m + 1)) /\ Bucket(m + 1) \in Fractions
                BY <4>2, FractionGrows
            <4>4. SizeOf(Bucket(m)) \in Nat /\ SizeOf(Bucket(m + 1)) \in Nat
                BY <4>2, <4>3, Fraction
            <4>5. SizeOf(Bucket(k)) <= SizeOf(Bucket(m + 1))
                BY <1>2, <1>3, <3>3, <4>1, <4>3, <4>4
            <4>6. Overflows(fraction) => Bucket(m + 1) = fraction
                BY <3>3, <4>1, <4>2 DEF NextBucket
            <4> QED
                BY <4>1, <4>5, <4>6
        <3> HIDE DEF P
        <3>4. Nat \subseteq P
            BY <3>2, <3>3, SetInduction
        <3>5. SizeOf(fraction) <= n /\ (Overflows(fraction) => n = SizeOf(fraction))
            BY <1>3, <2>2, <3>1, <3>4 DEF P
        <3>6. \/ SizeOf(fraction) < size /\ Overflows(fraction)
              \/ SizeOf(fraction) >= size /\ SizeOf(fraction) > UsizeMax
            BY <1>6 DEF BucketInv, size
        <3>7. n \in Nat
            BY <2>2, <2>3, BucketNext, Fraction
        <3> QED
            BY <1>1, <1>2, <3>5, <3>6, <3>7, UsizeEncodable
    <2> QED
        BY <2>4, <2>5
<1> QED
    BY <1>5, <1>6 DEF PaddedSizes

LEMMA BucketInvAlways == DecodersSpec => [](CodecInv /\ ReadBackInv /\ BucketInv)
<1>1. DecodersInit => BucketInv
    BY CodecStarts, BucketStart
<1>2. CodecInv /\ ReadBackInv /\ BucketInv /\ [DecodersNext]_decodersVars => BucketInv'
    BY CodecSteps, BucketKept
<1> QED
    BY <1>1, <1>2, CodecInvAlways, PTL DEF DecodersSpec

\* The size of a padded payload is one of the geometric sequence, less than a
\* quarter longer than what was encoded unless that is small, and a payload is
\* refused only if none of those sizes holds it.
THEOREM PaddedSizesCorrect == DecodersSpec => []PaddedSizes
BY BucketInvAlways, BucketWhole, PTL

(************************* The parts of an encoded backup *******************)

-----------------------------------------------------------------------------
(* The parser of a backup                                                  *)

\* Eight parts one after the other, as encode_v1 joins them.
EightJoined(x, a, b, c1, c2, d1, d2, e, f) ==
    x = a \o b \o (c1 \o c2) \o (d1 \o d2) \o e \o f
EightEnds(a, b, c1, c2, d1, d2, e, o1, o2, o3, o4, o5, o6, o7) ==
    /\ o1 = Len(a) /\ o2 = o1 + Len(b) /\ o3 = o2 + Len(c1) /\ o4 = o3 + Len(c2)
    /\ o5 = o4 + Len(d1) /\ o6 = o5 + Len(d2) /\ o7 = o6 + Len(e)
EightPlaced(x, a, b, c1, c2, d1, d2, e, f, o1, o2, o3, o4, o5, o6, o7) ==
    /\ Len(x) = o7 + Len(f)
    /\ Has(x, 0, a) /\ Has(x, o1, b) /\ Has(x, o2, c1) /\ Has(x, o3, c2) /\ Has(x, o4, d1)
    /\ Has(x, o5, d2) /\ Has(x, o6, e) /\ Has(x, o7, f)

LEMMA EightParts ==
    ASSUME NEW V, NEW a \in Seq(V), NEW b \in Seq(V), NEW c1 \in Seq(V), NEW c2 \in Seq(V),
           NEW d1 \in Seq(V), NEW d2 \in Seq(V), NEW e \in Seq(V), NEW f \in Seq(V),
           NEW o1 \in Nat, NEW o2 \in Nat, NEW o3 \in Nat, NEW o4 \in Nat, NEW o5 \in Nat,
           NEW o6 \in Nat, NEW o7 \in Nat,
           EightEnds(a, b, c1, c2, d1, d2, e, o1, o2, o3, o4, o5, o6, o7),
           NEW x, EightJoined(x, a, b, c1, c2, d1, d2, e, f)
    PROVE  x \in Seq(V) /\ EightPlaced(x, a, b, c1, c2, d1, d2, e, f, o1, o2, o3, o4, o5, o6, o7)
<1> DEFINE c == c1 \o c2
           d == d1 \o d2
           p2 == a \o b
           p3 == p2 \o c
           p4 == p3 \o d
           p5 == p4 \o e
<1>0. /\ o1 = Len(a) /\ o2 = o1 + Len(b) /\ o3 = o2 + Len(c1) /\ o4 = o3 + Len(c2)
      /\ o5 = o4 + Len(d1) /\ o6 = o5 + Len(d2) /\ o7 = o6 + Len(e)
    BY DEF EightEnds
<1>1. c \in Seq(V) /\ Len(c) = Len(c1) + Len(c2) /\ Len(c1) \in Nat /\ Len(c2) \in Nat
    BY Joined
<1>2. d \in Seq(V) /\ Len(d) = Len(d1) + Len(d2) /\ Len(d1) \in Nat /\ Len(d2) \in Nat
    BY Joined
<1>3. x = p5 \o f
    BY DEF EightJoined
<1> HIDE DEF c, d
<1>4. p2 \in Seq(V) /\ Len(p2) = Len(a) + Len(b) /\ Len(a) \in Nat /\ Len(b) \in Nat
    BY Joined
<1> HIDE DEF p2
<1>5. p3 \in Seq(V) /\ Len(p3) = Len(p2) + Len(c)
    BY <1>1, <1>4, Joined
<1> HIDE DEF p3
<1>6. p4 \in Seq(V) /\ Len(p4) = Len(p3) + Len(d)
    BY <1>2, <1>5, Joined
<1> HIDE DEF p4
<1>7. p5 \in Seq(V) /\ Len(p5) = Len(p4) + Len(e) /\ Len(e) \in Nat
    BY <1>6, Joined
<1> HIDE DEF p5
<1>8. x \in Seq(V) /\ Len(x) = Len(p5) + Len(f) /\ Len(f) \in Nat
    BY <1>3, <1>7, Joined
<1>9. /\ 0 + Len(a) = o1 /\ 0 + Len(p2) = o2 /\ 0 + Len(p3) = o4 /\ 0 + Len(p4) = o6 /\ 0 + Len(p5) = o7
    BY <1>0, <1>1, <1>2, <1>4, <1>5, <1>6, <1>7
<1>10. Has(x, 0, x)
    BY <1>8 DEF Has
<1>11. Has(x, 0, p5) /\ Has(x, 0 + Len(p5), f)
    BY <1>3, <1>7, <1>8, <1>10, HasJoined
<1>12. Has(x, 0, p4) /\ Has(x, 0 + Len(p4), e)
    BY <1>6, <1>8, <1>11, HasJoined DEF p5
<1>13. Has(x, 0, p3) /\ Has(x, 0 + Len(p3), d)
    BY <1>2, <1>5, <1>8, <1>12, HasJoined DEF p4
<1>14. Has(x, 0, p2) /\ Has(x, 0 + Len(p2), c)
    BY <1>1, <1>4, <1>8, <1>13, HasJoined DEF p3
<1>15. Has(x, 0, a) /\ Has(x, 0 + Len(a), b)
    BY <1>8, <1>14, HasJoined DEF p2
<1>16. Has(x, o1, b) /\ Has(x, o2, c) /\ Has(x, o4, d) /\ Has(x, o6, e) /\ Has(x, o7, f)
    BY <1>9, <1>11, <1>12, <1>13, <1>14, <1>15
<1>17. Has(x, o2, c1) /\ Has(x, o3, c2)
    <2>1. Has(x, o2, c1 \o c2)
        BY <1>16 DEF c
    <2>2. Has(x, o2, c1) /\ Has(x, o2 + Len(c1), c2)
        BY <1>8, <2>1, HasJoined
    <2> QED
        BY <1>0, <2>2
<1>18. Has(x, o4, d1) /\ Has(x, o5, d2)
    <2>1. Has(x, o4, d1 \o d2)
        BY <1>16 DEF d
    <2>2. Has(x, o4, d1) /\ Has(x, o4 + Len(d1), d2)
        BY <1>8, <2>1, HasJoined
    <2> QED
        BY <1>0, <2>2
<1>19. Len(x) = o7 + Len(f)
    <2>1. PICK n \in Nat : n = Len(p5)
        BY <1>7
    <2>2. n = o7
        BY <1>9, <2>1
    <2> QED
        BY <1>8, <2>1, <2>2
<1> QED
    BY <1>8, <1>15, <1>16, <1>17, <1>18, <1>19 DEF EightPlaced

\* Where the fields of what encode_v1 writes are.
PathStart(s, i) == Len(Magic) + 2 + Len(Concat(PathParts(s), i))
SecretStart(s, i) == PathStart(s, Cardinality(s.paths)) + 1 + Len(Concat(Listed(s.secrets), i))
PayloadStart(s, i) ==
    SecretStart(s, Cardinality(s.secrets)) + 1 + Len(Concat(PayloadParts(s), i))

V1Right(s, x) ==
    /\ x \in Seq(Byte)
    /\ Has(x, 0, Magic)
    /\ Len(Magic) \in Nat
    /\ x[Len(Magic) + 1] = VERSION_MAX
    /\ x[Len(Magic) + 2] = Cardinality(s.paths)
    /\ PathStart(s, 0) = Len(Magic) + 2
    /\ PathStart(s, Cardinality(s.paths)) \in Nat
    /\ x[PathStart(s, Cardinality(s.paths)) + 1] = Cardinality(s.secrets)
    /\ SecretStart(s, 0) = PathStart(s, Cardinality(s.paths)) + 1
    /\ SecretStart(s, Cardinality(s.secrets)) \in Nat
    /\ x[SecretStart(s, Cardinality(s.secrets)) + 1] = s.encryption
    /\ PayloadStart(s, 0) = SecretStart(s, Cardinality(s.secrets)) + 1
    /\ PayloadStart(s, Len(s.payloads)) = Len(x)

PathRight(s, x, i) ==
    /\ PathStart(s, i - 1) \in Nat /\ Has(x, PathStart(s, i - 1), EncodePath(Listed(s.paths)[i]))
    /\ PathStart(s, i) = PathStart(s, i - 1) + Len(EncodePath(Listed(s.paths)[i]))
SecretRight(s, x, i) ==
    /\ SecretStart(s, i - 1) \in Nat /\ Has(x, SecretStart(s, i - 1), Listed(s.secrets)[i])
    /\ SecretStart(s, i) = SecretStart(s, i - 1) + SecretSize
PayloadRight(s, x, i) ==
    /\ PayloadStart(s, i - 1) \in Nat
    /\ Has(x, PayloadStart(s, i - 1), EncodePayload(s.payloads[i]))
    /\ PayloadStart(s, i) = PayloadStart(s, i - 1) + Len(EncodePayload(s.payloads[i]))

\* Joined parts after o elements, wherever the last of them ends.
PlacedAt(x, o, f, i) ==
    /\ o + Len(Concat(f, i - 1)) \in Nat
    /\ Has(x, o + Len(Concat(f, i - 1)), f[i])
    /\ o + Len(Concat(f, i)) = (o + Len(Concat(f, i - 1))) + Len(f[i])
LEMMA PartPlaces ==
    ASSUME NEW V, NEW x \in Seq(V), NEW o \in Nat, NEW n \in Nat, NEW f,
           \A i \in 1..n : f[i] \in Seq(V), Has(x, o, Concat(f, n)), NEW i \in 1..n
    PROVE  PlacedAt(x, o, f, i)
<1>1. Placed(x, o, f, i)
    BY HasConcat
<1>2. PICK m \in Nat : m = Len(Concat(f, i - 1))
    BY <1>1 DEF Placed
<1>3. Has(x, o + m, f[i]) /\ Len(Concat(f, i)) = m + Len(f[i])
    BY <1>1, <1>2 DEF Placed
<1>4. PICK k \in Nat : k = Len(f[i])
    <2>1. f[i] \in Seq(V)
        OBVIOUS
    <2> DEFINE p == f[i]
    <2> HIDE DEF p
    <2>2. Len(p) \in Nat
        BY <2>1 DEF p
    <2> QED
        BY <2>2 DEF p
<1>5. Len(Concat(f, i)) = m + k /\ o + (m + k) = (o + m) + k /\ o + m \in Nat
    <2>1. Len(Concat(f, i)) = m + k
        BY <1>3, <1>4, Zenon
    <2>2. o + (m + k) = (o + m) + k /\ o + m \in Nat
        OBVIOUS
    <2> QED
        BY <2>1, <2>2
<1> QED
    BY <1>2, <1>3, <1>4, <1>5 DEF PlacedAt

\* Where encode_v1 puts what.
LEMMA V1Parts ==
    ASSUME NEW s \in Sources, CanEncode(s)
    PROVE  /\ V1Right(s, EncodeV1(s))
           /\ \A i \in 1..Cardinality(s.paths) : PathRight(s, EncodeV1(s), i)
           /\ \A i \in 1..Cardinality(s.secrets) : SecretRight(s, EncodeV1(s), i)
           /\ \A i \in 1..Len(s.payloads) : PayloadRight(s, EncodeV1(s), i)
<1> DEFINE np == Cardinality(s.paths)
           ns == Cardinality(s.secrets)
           m == Len(s.payloads)
           x == EncodeV1(s)
           a == Magic
           b == <<VERSION_MAX>>
           c1 == <<np>>
           c2 == Concat(PathParts(s), np)
           d1 == <<ns>>
           d2 == Concat(Listed(s.secrets), ns)
           e == <<s.encryption>>
           f == Concat(PayloadParts(s), m)
           o1 == Len(a)
           o2 == o1 + Len(b)
           o3 == o2 + Len(c1)
           o4 == o3 + Len(c2)
           o5 == o4 + Len(d1)
           o6 == o5 + Len(d2)
           o7 == o6 + Len(e)
<1>1. /\ np \in Byte /\ ns \in Byte /\ s.encryption \in Byte /\ VERSION_MAX \in Byte /\ m \in Nat
      /\ np \in Nat /\ ns \in Nat
      /\ \A i \in 1..np : PathParts(s)[i] \in Seq(Byte) /\ PathParts(s)[i] = EncodePath(Listed(s.paths)[i])
      /\ \A i \in 1..ns : Listed(s.secrets)[i] \in Seq(Byte) /\ Len(Listed(s.secrets)[i]) = SecretSize
      /\ \A i \in 1..m : /\ PayloadParts(s)[i] \in Seq(Byte)
                         /\ PayloadParts(s)[i] = EncodePayload(s.payloads[i])
    <2>1. np \in Byte /\ ns \in Byte /\ s.encryption \in Byte /\ m \in Nat
        BY SourceParts
    <2>2. VERSION_MAX \in Byte /\ np \in Nat /\ ns \in Nat
        BY <2>1, BaseIs DEF VERSION_MAX
    <2> QED
        BY <2>1, <2>2, SourceParts
<1>2. a \in Seq(Byte) /\ b \in Seq(Byte) /\ c1 \in Seq(Byte) /\ d1 \in Seq(Byte) /\ e \in Seq(Byte)
      /\ Len(b) = 1 /\ Len(c1) = 1 /\ Len(d1) = 1 /\ Len(e) = 1
      /\ b[1] = VERSION_MAX /\ c1[1] = np /\ d1[1] = ns /\ e[1] = s.encryption
    BY <1>1, WireAssumption
<1>3. c2 \in Seq(Byte) /\ d2 \in Seq(Byte) /\ f \in Seq(Byte)
    BY <1>1, ConcatNext
<1>4. EightJoined(x, a, b, c1, c2, d1, d2, e, f)
    BY Zenon DEF EightJoined, EncodeV1, EncodePaths, EncodeSecrets, PathParts, PayloadParts
<1> HIDE DEF np, ns, m, x, a, b, c1, c2, d1, d2, e, f
<1>5. PICK l1 \in Nat : l1 = Len(a)
    BY <1>2
<1>6. PICK l2 \in Nat : l2 = Len(c2)
    BY <1>3
<1>7. PICK l3 \in Nat : l3 = Len(d2)
    BY <1>3
<1>8. PICK l4 \in Nat : l4 = Len(f)
    BY <1>3
<1>9. /\ o1 = l1 /\ o2 = l1 + 1 /\ o3 = l1 + 2 /\ o4 = l1 + 2 + l2 /\ o5 = l1 + 2 + l2 + 1
      /\ o6 = l1 + 2 + l2 + 1 + l3 /\ o7 = l1 + 2 + l2 + 1 + l3 + 1
      /\ o1 \in Nat /\ o2 \in Nat /\ o3 \in Nat /\ o4 \in Nat /\ o5 \in Nat /\ o6 \in Nat /\ o7 \in Nat
    BY <1>2, <1>5, <1>6, <1>7
<1>10. /\ x \in Seq(Byte) /\ Len(x) = o7 + Len(f)
       /\ Has(x, 0, a) /\ Has(x, o1, b) /\ Has(x, o2, c1) /\ Has(x, o3, c2) /\ Has(x, o4, d1)
       /\ Has(x, o5, d2) /\ Has(x, o6, e) /\ Has(x, o7, f)
    <2>1. EightEnds(a, b, c1, c2, d1, d2, e, o1, o2, o3, o4, o5, o6, o7)
        BY DEF EightEnds
    <2> HIDE DEF o1, o2, o3, o4, o5, o6, o7
    <2>2. x \in Seq(Byte) /\ EightPlaced(x, a, b, c1, c2, d1, d2, e, f, o1, o2, o3, o4, o5, o6, o7)
        BY <1>2, <1>3, <1>4, <1>9, <2>1, EightParts
    <2> QED
        BY <2>2 DEF EightPlaced
<1> HIDE DEF o1, o2, o3, o4, o5, o6, o7
<1>11. /\ \A i : PathStart(s, i) = l1 + 2 + Len(Concat(PathParts(s), i))
       /\ PathStart(s, np) = o4
    BY <1>5, <1>6, <1>9 DEF PathStart, a, c2
<1>12. /\ \A i : SecretStart(s, i) = o4 + 1 + Len(Concat(Listed(s.secrets), i))
       /\ SecretStart(s, ns) = o6
    BY <1>7, <1>9, <1>11 DEF SecretStart, np, d2
<1>13. /\ \A i : PayloadStart(s, i) = o6 + 1 + Len(Concat(PayloadParts(s), i))
       /\ PayloadStart(s, m) = Len(x)
    BY <1>8, <1>9, <1>10, <1>12 DEF PayloadStart, ns, f
<1>14. x[o1 + 1] = VERSION_MAX /\ x[o2 + 1] = np /\ x[o4 + 1] = ns /\ x[o6 + 1] = s.encryption
    BY <1>2, <1>10 DEF Has
<1>15. /\ Len(Concat(PathParts(s), 0)) = 0 /\ Len(Concat(Listed(s.secrets), 0)) = 0
       /\ Len(Concat(PayloadParts(s), 0)) = 0
    <2>1. \A g : Len(Concat(g, 0)) = 0
        <3> SUFFICES ASSUME NEW g PROVE Len(Concat(g, 0)) = 0
            OBVIOUS
        <3>1. \A i \in 1..0 : g[i] \in Seq(Byte)
            OBVIOUS
        <3>2. Concat(g, 0) = <<>>
            BY <3>1, ConcatNext
        <3> QED
            BY <3>2
    <2> QED
        BY <2>1
<1>16. V1Right(s, x)
    <2>1. PathStart(s, 0) = l1 + 2 /\ SecretStart(s, 0) = o4 + 1 /\ PayloadStart(s, 0) = o6 + 1
        BY <1>9, <1>11, <1>12, <1>13, <1>15
    <2>2. o1 = Len(Magic) /\ l1 = Len(Magic) /\ o2 + 1 = l1 + 2
        BY <1>5, <1>9 DEF a
    <2> QED
        BY <1>9, <1>10, <1>11, <1>12, <1>13, <1>14, <2>1, <2>2 DEF V1Right, np, ns, m, a
<1>17. ASSUME NEW i \in 1..np PROVE PathRight(s, x, i)
    <2>1. PICK n \in Nat : n = np
        BY <1>1
    <2>2. PICK o \in Nat : o = o3 /\ o = l1 + 2
        BY <1>9
    <2>3. Has(x, o, Concat(PathParts(s), n)) /\ i \in 1..n /\ \A j \in 1..n : PathParts(s)[j] \in Seq(Byte)
        BY <1>1, <1>10, <2>1, <2>2 DEF c2
    <2>0. PlacedAt(x, o, PathParts(s), i)
        BY <1>10, <2>3, PartPlaces
    <2>4. /\ o + Len(Concat(PathParts(s), i - 1)) \in Nat
          /\ Has(x, o + Len(Concat(PathParts(s), i - 1)), PathParts(s)[i])
          /\ o + Len(Concat(PathParts(s), i)) =
                (o + Len(Concat(PathParts(s), i - 1))) + Len(PathParts(s)[i])
        BY <2>0 DEF PlacedAt
    <2>5. /\ PathStart(s, i) = o + Len(Concat(PathParts(s), i))
          /\ PathStart(s, i - 1) = o + Len(Concat(PathParts(s), i - 1))
        BY <1>11, <2>2
    <2>6. PathParts(s)[i] = EncodePath(Listed(s.paths)[i])
        BY <1>1
    <2> QED
        BY <2>4, <2>5, <2>6 DEF PathRight
<1>18. ASSUME NEW i \in 1..ns PROVE SecretRight(s, x, i)
    <2>1. PICK n \in Nat : n = ns
        BY <1>1
    <2>2. PICK o \in Nat : o = o5 /\ o = o4 + 1
        BY <1>9
    <2> DEFINE g == Listed(s.secrets)
    <2>3. Has(x, o, Concat(g, n)) /\ i \in 1..n /\ \A j \in 1..n : g[j] \in Seq(Byte)
        BY <1>1, <1>10, <2>1, <2>2 DEF d2
    <2>0. PlacedAt(x, o, g, i)
        <3> HIDE DEF g
        <3> QED
            BY <1>10, <2>3, PartPlaces
    <2>4. /\ o + Len(Concat(g, i - 1)) \in Nat
          /\ Has(x, o + Len(Concat(g, i - 1)), g[i])
          /\ o + Len(Concat(g, i)) = (o + Len(Concat(g, i - 1))) + Len(g[i])
        BY <2>0 DEF PlacedAt
    <2>5. /\ SecretStart(s, i) = o + Len(Concat(g, i))
          /\ SecretStart(s, i - 1) = o + Len(Concat(g, i - 1))
        BY <1>12, <2>2
    <2>6. Len(g[i]) = SecretSize
        BY <1>1
    <2> QED
        BY <2>4, <2>5, <2>6 DEF SecretRight
<1>19. ASSUME NEW i \in 1..m PROVE PayloadRight(s, x, i)
    <2>1. PICK n \in Nat : n = m
        BY <1>1
    <2>2. PICK o \in Nat : o = o7 /\ o = o6 + 1
        BY <1>9
    <2> DEFINE g == PayloadParts(s)
    <2>3. Has(x, o, Concat(g, n)) /\ i \in 1..n /\ \A j \in 1..n : g[j] \in Seq(Byte)
        BY <1>1, <1>10, <2>1, <2>2 DEF f
    <2>0. PlacedAt(x, o, g, i)
        <3> HIDE DEF g
        <3> QED
            BY <1>10, <2>3, PartPlaces
    <2>4. /\ o + Len(Concat(g, i - 1)) \in Nat
          /\ Has(x, o + Len(Concat(g, i - 1)), g[i])
          /\ o + Len(Concat(g, i)) = (o + Len(Concat(g, i - 1))) + Len(g[i])
        BY <2>0 DEF PlacedAt
    <2>5. /\ PayloadStart(s, i) = o + Len(Concat(g, i))
          /\ PayloadStart(s, i - 1) = o + Len(Concat(g, i - 1))
        BY <1>13, <2>2
    <2>6. g[i] = EncodePayload(s.payloads[i])
        BY <1>1
    <2> QED
        BY <2>4, <2>5, <2>6 DEF PayloadRight
<1> QED
    BY <1>16, <1>17, <1>18, <1>19 DEF np, ns, m, x

(******************************* The wire parsers ***************************)

WireStages == {"idle", "magic", "version", "path count", "paths", "secret count", "secrets",
               "encryption", "payload", "lengths", "done", "refused"}
Headers == {"version", "path count", "secret count", "encryption", "payload"}
ParsedType == [paths : SUBSET (Path \ {<<>>}), secrets : SUBSET [1..SecretSize -> Byte],
               encryption : Byte, nonce : Seq(Byte), text : Seq(Byte)]

\* Where the parser stands; the length of the cyphertext it returned is the
\* first one of the walk, and until the walk has counted it it is the one the
\* walk will read.
WireInv ==
    /\ bytes \in Seq(Byte) /\ Len(bytes) <= UsizeMax
    /\ stage \in WireStages
    /\ offset \in Nat /\ offset <= Len(bytes)
    /\ stage \in Headers => offset < Len(bytes)
    /\ left \in Byte
    /\ stage \in {"paths", "secrets"} => left # 0
    /\ parsed \in ParsedType
    /\ \A i \in DOMAIN lengths : lengths[i] \in 0..Len(bytes)
    /\ lengths \in Seq(Nat)
    /\ error = "none" <=> stage # "refused"
    /\ stage \notin {"lengths", "done"} => parsed.nonce = <<>> /\ lengths = <<>>
    /\ stage = "lengths" /\ lengths = <<>> =>
          PayloadError(offset) = "none" /\ Len(parsed.text) = Length(offset).value
    /\ lengths # <<>> => lengths[1] = Len(parsed.text)
    /\ stage = "done" => lengths # <<>>

\* A payload that decode_v1 accepts is one that the walk counts.
LEMMA PayloadIs ==
    ASSUME bytes \in Seq(Byte), Len(bytes) <= UsizeMax, NEW o \in Nat
    PROVE  /\ PayloadError(o) = "none" => CountsAsPayload(o) /\ o < Len(bytes)
           /\ CountsAsPayload(o) =>
                 /\ Length(o).used \in Nat /\ Length(o).value \in Nat /\ Length(o).ok
                 /\ o + NonceSize \in Nat /\ o + NonceSize <= Len(bytes)
                 /\ TextStart(o) \in Nat /\ TextEnd(o) \in Nat
                 /\ TextEnd(o) = TextStart(o) + Length(o).value
                 /\ TextEnd(o) <= Len(bytes) /\ Length(o).value <= Len(bytes)
                 /\ Length(o) = ParseVarint(RestAt(bytes, o + NonceSize))
<1>1. NonceSize \in Nat \ {0} /\ Len(bytes) \in Nat /\ UsizeMax \in Nat /\ Size = Len(bytes)
    BY WireAssumption, VarintAssumption DEF Size
<1>2. Length(o) = ParseVarint(RestAt(bytes, o + NonceSize))
    BY DEF Length, Rest, RestAt, Size
<1>3. ASSUME o + NonceSize <= Len(bytes)
      PROVE  Length(o).ok \in BOOLEAN /\ Length(o).value \in Nat /\ Length(o).used \in Nat
    <2>1. PICK p \in Nat : p = o + NonceSize
        BY <1>1
    <2>2. RestAt(bytes, p) \in Seq(Byte)
        BY <1>3, <2>1, RestAtIs
    <2>3. PICK t \in Seq(Byte) : t = RestAt(bytes, o + NonceSize)
        BY <2>1, <2>2
    <2>4. Length(o) = ParseVarint(t)
        BY <1>2, <2>3
    <2> QED
        BY <2>4, ParseSound
<1>4. ASSUME CountsAsPayload(o)
      PROVE  /\ Length(o).used \in Nat /\ Length(o).value \in Nat /\ Length(o).ok
             /\ o + NonceSize \in Nat /\ o + NonceSize <= Len(bytes)
             /\ TextStart(o) \in Nat /\ TextEnd(o) \in Nat
             /\ TextEnd(o) = TextStart(o) + Length(o).value
             /\ TextEnd(o) <= Len(bytes) /\ Length(o).value <= Len(bytes)
    <2>1. o + NonceSize <= Len(bytes) /\ TextEnd(o) <= Len(bytes) /\ Length(o).ok
        BY <1>1, <1>4 DEF CountsAsPayload
    <2>2. Length(o).value \in Nat /\ Length(o).used \in Nat
        BY <1>3, <2>1
    <2>3. TextStart(o) = o + NonceSize + Length(o).used /\ TextEnd(o) = TextStart(o) + Length(o).value
        BY DEF TextStart, TextEnd
    <2> QED
        BY <1>1, <2>1, <2>2, <2>3
<1>5. ASSUME PayloadError(o) = "none" PROVE CountsAsPayload(o) /\ o < Len(bytes)
    <2>1. ~(Size < o + NonceSize)
        BY <1>5 DEF PayloadError
    <2>2. Size >= o + NonceSize
        BY <1>1, <2>1
    <2>3. Slice(o, NonceSize) # ZeroNonce
        BY <1>5, <2>1, <2>2 DEF PayloadError
    <2>4. Size # o + NonceSize
        BY <1>5, <2>1, <2>2, <2>3 DEF PayloadError
    <2>5. PayloadError(o) = CASE ~Length(o).ok -> "VarInt"
                    [] Length(o).ok /\ Length(o).value > UsizeMax -> "DataLength"
                    [] OTHER -> IF TextEnd(o) - o > UsizeMax THEN "Increment"
                                ELSE IF Size < TextEnd(o) THEN "Corrupted" ELSE "none"
        BY <2>1, <2>2, <2>3, <2>4 DEF PayloadError
    <2>6. Length(o).ok
        BY <1>5, <2>5
    <2>7. ~(Length(o).value > UsizeMax)
        BY <1>5, <2>5, <2>6
    <2>8. ~(Size < TextEnd(o))
        BY <1>5, <2>5, <2>6, <2>7
    <2>9. Length(o).value \in Nat /\ Length(o).used \in Nat
        BY <1>1, <1>3, <2>2
    <2>10. TextEnd(o) \in Nat
        BY <1>1, <2>9 DEF TextEnd, TextStart
    <2>11. Length(o).value <= UsizeMax /\ TextEnd(o) <= Size /\ TextEnd(o) <= UsizeMax
        BY <1>1, <2>7, <2>8, <2>9, <2>10
    <2>12. o < Len(bytes)
        BY <1>1, <2>2
    <2> QED
        BY <2>2, <2>3, <2>6, <2>11, <2>12 DEF CountsAsPayload
<1> QED
    BY <1>2, <1>4, <1>5

LEMMA WireInvStart ==
    ASSUME WireInit \/ WireIdle
    PROVE  WireInv
<1>1. 0 \in Byte /\ UsizeMax \in Nat
    BY BaseIs, VarintAssumption
<1>2. NothingParsed \in ParsedType /\ NothingParsed.nonce = <<>>
    BY <1>1 DEF NothingParsed, ParsedType
<1>3. bytes \in Seq(Byte) /\ Len(bytes) <= UsizeMax
    <2>1. CASE WireIdle
        BY <1>1, <2>1 DEF WireIdle
    <2>2. CASE WireInit
        <3>1. Len(bytes) <= UsizeMax
            BY <2>2 DEF WireInit, Size
        <3>2. CASE bytes \in Strings
            BY <3>1, <3>2, WireAssumption
        <3>3. CASE ~(bytes \in Strings)
            <4>1. PICK s \in Sources, t \in Trailers :
                      /\ CanEncode(s)
                      /\ \E n \in 0..Len(EncodeV1(s)) :
                            bytes = SubSeq(EncodeV1(s), 1, Len(EncodeV1(s)) - n) \o t
                BY <2>2, <3>3 DEF WireInit
            <4> DEFINE x == EncodeV1(s)
            <4>2. x \in Seq(Byte) /\ t \in Seq(Byte)
                BY <4>1, V1Parts, WireAssumption DEF V1Right
            <4> HIDE DEF x
            <4>3. PICK n \in 0..Len(x) : bytes = SubSeq(x, 1, Len(x) - n) \o t
                BY <4>1 DEF x
            <4>6. PICK k \in Nat : k = Len(x)
                BY <4>2
            <4>7. n \in Nat /\ n <= k /\ k - n \in Nat /\ k - n <= k
                BY <4>3, <4>6
            <4>4. PICK m \in Nat : m = Len(x) - n /\ m <= Len(x)
                BY <4>6, <4>7
            <4>5. SubSeq(x, 1, m) \in Seq(Byte)
                BY <4>2, <4>4
            <4> QED
                BY <3>1, <4>2, <4>3, <4>4, <4>5
        <3> QED
            BY <3>2, <3>3
    <2> QED
        BY <2>1, <2>2
<1>4. /\ offset = 0 /\ left = 0 /\ parsed = NothingParsed /\ lengths = <<>> /\ error = "none"
      /\ stage \in {"idle", "magic"}
    BY DEF WireInit, WireIdle
<1>5. Len(bytes) \in Nat /\ lengths \in Seq(Nat) /\ DOMAIN lengths = {}
    BY <1>3, <1>4
<1>6. /\ stage \in WireStages /\ stage \notin Headers /\ stage # "refused" /\ stage # "lengths"
      /\ stage # "done" /\ stage \notin {"paths", "secrets"}
    BY <1>4 DEF WireStages, Headers
<1>7. /\ left \in Byte /\ parsed \in ParsedType /\ parsed.nonce = <<>>
      /\ offset \in Nat /\ offset <= Len(bytes)
    <2>1. offset \in Nat /\ left \in Byte
        BY <1>1, <1>4
    <2>2. offset <= Len(bytes)
        BY <1>4, <1>5
    <2> QED
        BY <1>2, <1>4, <2>1, <2>2
<1> QED
    BY <1>3, <1>4, <1>5, <1>6, <1>7 DEF WireInv

-----------------------------------------------------------------------------
(* One field                                                               *)

Early == WireStages \ {"lengths", "done"}

LEMMA SizesAre ==
    ASSUME WireInv
    PROVE  Len(bytes) \in Nat /\ offset \in Nat /\ offset <= Len(bytes) /\ Size = Len(bytes)
BY DEF WireInv, Size

LEMMA EndIsLess ==
    ASSUME NEW a \in Nat, NEW b \in Nat, ~(a <= b + 1)
    PROVE  b + 1 < a /\ b + 1 <= a /\ b + 1 \in Nat
OBVIOUS

LEMMA RefuseKeeps ==
    ASSUME WireInv, stage \in Early, NEW e, e # "none", Refuse(e), Unread
    PROVE  WireInv'
<1>1. /\ stage' = "refused" /\ error' = e /\ offset' = offset /\ left' = left /\ parsed' = parsed
      /\ bytes' = bytes /\ lengths' = lengths
    BY DEF Refuse, Unread
<1> QED
    BY <1>1 DEF WireInv, WireStages, Headers, Early

LEMMA ContinueKeeps ==
    ASSUME WireInv, stage \in Early, stage # "refused", NEW next \in Headers, NEW o \in Nat,
           NEW fields \in ParsedType, fields.nonce = <<>>, Continue(next, o, fields), Unread
    PROVE  WireInv'
<1>1. bytes' = bytes /\ lengths' = lengths
    BY DEF Unread
<1>2. CASE Size <= o
    <2>1. Refuse("Corrupted")
        BY <1>2 DEF Continue
    <2> QED
        BY <2>1, RefuseKeeps
<1>3. CASE ~(Size <= o)
    <2>1. stage' = next /\ offset' = o /\ left' = 0 /\ parsed' = fields /\ error' = error
        BY <1>3 DEF Continue
    <2>2. o < Len(bytes) /\ o <= Len(bytes)
        <3>1. Len(bytes) \in Nat
            BY DEF WireInv
        <3> QED
            BY <1>3, <3>1 DEF Size
    <2>3. next \in WireStages /\ next \notin {"paths", "secrets", "lengths", "done", "refused"}
        BY DEF Headers, WireStages
    <2> QED
        BY <1>1, <2>1, <2>2, <2>3, BaseIs DEF WireInv, Early
<1> QED
    BY <1>2, <1>3

LEMMA EnterKeeps ==
    ASSUME WireInv, stage \in Headers, NEW next \in {"secret count", "paths", "secrets"},
           NEW count \in Byte, next = "secret count" \/ count # 0, Enter(next, count), Unread
    PROVE  WireInv'
<1>1. bytes' = bytes /\ lengths' = lengths
    BY DEF Unread
<1>2. CASE Size <= offset + 1
    <2>1. Refuse("Corrupted")
        BY <1>2 DEF Enter
    <2>2. stage \in Early
        BY DEF Headers, Early, WireStages
    <2> QED
        BY <2>1, <2>2, RefuseKeeps
<1>3. CASE ~(Size <= offset + 1)
    <2>1. stage' = next /\ offset' = offset + 1 /\ left' = count /\ parsed' = parsed /\ error' = error
        BY <1>3 DEF Enter
    <2>2. offset + 1 < Len(bytes) /\ offset + 1 <= Len(bytes) /\ offset + 1 \in Nat
        BY <1>3, EndIsLess, SizesAre DEF Size
    <2>3. next \in WireStages /\ next \notin {"lengths", "done", "refused"}
          /\ stage \notin {"lengths", "done", "refused"}
          /\ (next \in {"paths", "secrets"} => count # 0)
        BY DEF Headers, WireStages
    <2> QED
        BY <1>1, <2>1, <2>2, <2>3 DEF WireInv
<1> QED
    BY <1>2, <1>3

LEMMA TurnKeeps ==
    ASSUME WireInv, stage \in {"paths", "secrets"}, NEW next \in Headers, NEW o \in Nat,
           o <= Len(bytes), NEW fields \in ParsedType, fields.nonce = <<>>,
           Turn(next, o, fields), Unread
    PROVE  WireInv'
<1>1. stage \in Early /\ stage # "refused"
    BY DEF Early, WireStages
<1>2. CASE left = 1
    BY <1>1, <1>2, ContinueKeeps DEF Turn
<1>3. CASE left # 1
    <2>1. left' = left - 1 /\ offset' = o /\ parsed' = fields /\ stage' = stage /\ error' = error
          /\ bytes' = bytes /\ lengths' = lengths
        BY <1>3 DEF Turn, Unread
    <2>2. left - 1 \in Byte /\ left - 1 # 0
        BY <1>3, BaseIs DEF WireInv
    <2>3. stage \notin Headers
        BY DEF Headers
    <2> QED
        BY <1>1, <2>1, <2>2, <2>3 DEF WireInv
<1> QED
    BY <1>2, <1>3

-----------------------------------------------------------------------------
(* Every step                                                              *)

LEMMA ByteAt ==
    ASSUME WireInv, offset < Len(bytes)
    PROVE  At(offset) \in Byte
<1>1. bytes \in Seq(Byte) /\ offset + 1 \in 1..Len(bytes)
    BY SizesAre DEF WireInv
<1> QED
    BY <1>1 DEF At

\* A path that is read: its end, its children.
PathAt(x, o) == [i \in 1..x[o + 1] |-> Part(x, o + 1 + (i - 1) * ChildSize, ChildSize)]
PathEnd(x, o) == o + 1 + x[o + 1] * ChildSize

LEMMA ChildIs ==
    ASSUME NEW x \in Seq(Byte), NEW o \in Nat, o < Len(x), PathEnd(x, o) <= Len(x),
           NEW i \in 1..x[o + 1]
    PROVE  /\ o + 1 + (i - 1) * ChildSize \in Nat
           /\ Part(x, o + 1 + (i - 1) * ChildSize, ChildSize) \in Seq(Byte)
           /\ Len(Part(x, o + 1 + (i - 1) * ChildSize, ChildSize)) = ChildSize
           /\ Has(x, o + 1 + (i - 1) * ChildSize, Part(x, o + 1 + (i - 1) * ChildSize, ChildSize))
<1>1. PICK c \in Nat : c = ChildSize
    BY WireAssumption
<1>2. x[o + 1] \in Byte
    <2>1. o + 1 \in 1..Len(x)
        OBVIOUS
    <2> QED
        BY <2>1
<1>3. PICK n \in Nat : n = x[o + 1]
    BY <1>2, BaseIs
<1>4. i \in Nat /\ i <= n /\ i - 1 \in Nat /\ (i - 1) + 1 = i
    BY <1>3
<1>5. PICK j \in Nat : j = i - 1 /\ j + 1 = i
    BY <1>4
<1>6. j * c \in Nat /\ c * (j + 1) <= c * n /\ c * n = n * c /\ c * (j + 1) = j * c + c /\ n * c \in Nat
    BY <1>4, <1>5, Products
<1>7. PICK a \in Nat : a = j * c
    BY <1>6
<1>8. PICK b \in Nat : b = n * c
    BY <1>6
<1>9. a + c <= b /\ o + 1 + b <= Len(x)
    BY <1>1, <1>3, <1>6, <1>7, <1>8 DEF PathEnd
<1>10. PICK p \in Nat : p = o + 1 + (i - 1) * ChildSize /\ p = o + 1 + a
    BY <1>1, <1>5, <1>7
<1>11. p + c <= Len(x)
    BY <1>9, <1>10
<1>12. Part(x, p, c) \in Seq(Byte) /\ Len(Part(x, p, c)) = c /\ Has(x, p, Part(x, p, c))
    BY <1>11, PartIs
<1> QED
    BY <1>1, <1>10, <1>12

LEMMA FixedSize ==
    ASSUME NEW s \in Seq(Byte), NEW n, Len(s) = n
    PROVE  s \in [1..n -> Byte]
OBVIOUS

LEMMA PathRead ==
    ASSUME NEW x \in Seq(Byte), NEW o \in Nat, o < Len(x), PathEnd(x, o) <= Len(x), x[o + 1] # 0
    PROVE  PathAt(x, o) \in Path \ {<<>>} /\ PathEnd(x, o) \in Nat
<1>1. x[o + 1] \in Byte
    <2>1. o + 1 \in 1..Len(x)
        OBVIOUS
    <2> QED
        BY <2>1
<1>2. PICK n \in Nat : n = x[o + 1] /\ n # 0
    BY <1>1, BaseIs
<1>3. ASSUME NEW i \in 1..n PROVE PathAt(x, o)[i] \in [1..ChildSize -> Byte]
    <2>1. PICK d \in Seq(Byte) : d = Part(x, o + 1 + (i - 1) * ChildSize, ChildSize)
        BY <1>2, ChildIs
    <2>2. Len(d) = ChildSize
        BY <1>2, <2>1, ChildIs
    <2>3. d \in [1..ChildSize -> Byte]
        BY <2>2, FixedSize
    <2>4. PathAt(x, o)[i] = d
        BY <1>2, <2>1 DEF PathAt
    <2> QED
        BY <2>3, <2>4
<1> DEFINE p == PathAt(x, o)
           Child == [1..ChildSize -> Byte]
<1>4. p = [i \in 1..n |-> p[i]] /\ \A i \in 1..n : p[i] \in Child
    <2>1. p = [i \in 1..n |-> p[i]]
        BY <1>2 DEF PathAt
    <2> QED
        BY <1>3, <2>1
<1> HIDE DEF p, Child
<1>5. p \in Seq(Child) /\ Len(p) = n
    <2>1. p \in [1..n -> Child]
        BY <1>4
    <2> QED
        BY <2>1
<1>6. p # <<>>
    BY <1>2, <1>5
<1>7. PathEnd(x, o) \in Nat
    <2>1. n * ChildSize \in Nat
        BY WireAssumption
    <2> QED
        BY <1>2, <2>1 DEF PathEnd
<1> QED
    BY <1>5, <1>6, <1>7 DEF p, Child, Path

LEMMA HeaderKeeps ==
    ASSUME WireInv, ParseMagic \/ ParseVersion \/ ParsePathCount \/ ParseSecretCount \/ ParseEncryption
    PROVE  WireInv'
<1>1. CASE ParseMagic
    <2>1. stage = "magic" /\ Unread
        BY <1>1 DEF ParseMagic
    <2>2. stage \in Early /\ stage # "refused" /\ "version" \in Headers
        BY <2>1 DEF Early, WireStages, Headers
    <2>3. parsed \in ParsedType /\ parsed.nonce = <<>> /\ Len(Magic) \in Nat
        BY <2>1, WireAssumption DEF WireInv
    <2>4. Refuse("Magic") \/ Continue("version", Len(Magic), parsed)
        BY <1>1 DEF ParseMagic
    <2> QED
        BY <2>1, <2>2, <2>3, <2>4, RefuseKeeps, ContinueKeeps
<1>2. CASE ParseVersion
    <2>1. stage = "version" /\ Unread
        BY <1>2 DEF ParseVersion
    <2>2. stage \in Early /\ stage # "refused" /\ "path count" \in Headers
        BY <2>1 DEF Early, WireStages, Headers
    <2>3. parsed \in ParsedType /\ parsed.nonce = <<>> /\ offset + 1 \in Nat
        BY <2>1 DEF WireInv
    <2>4. Refuse("Version") \/ Continue("path count", offset + 1, parsed)
        BY <1>2 DEF ParseVersion
    <2> QED
        BY <2>1, <2>2, <2>3, <2>4, RefuseKeeps, ContinueKeeps
<1>3. CASE ParsePathCount
    <2>1. stage = "path count" /\ Unread /\ stage \in Headers
        BY <1>3 DEF ParsePathCount, Headers
    <2>2. At(offset) \in Byte
        BY <2>1, ByteAt DEF WireInv
    <2>3. CASE At(offset) = 0
        <3>1. Enter("secret count", At(offset))
            BY <1>3, <2>3 DEF ParsePathCount
        <3> QED
            BY <2>1, <2>2, <3>1, EnterKeeps
    <2>4. CASE At(offset) # 0
        <3>1. Enter("paths", At(offset))
            BY <1>3, <2>4 DEF ParsePathCount
        <3> QED
            BY <2>1, <2>2, <2>4, <3>1, EnterKeeps
    <2> QED
        BY <2>3, <2>4
<1>4. CASE ParseSecretCount
    <2>1. stage = "secret count" /\ Unread /\ stage \in Headers /\ stage \in Early
        BY <1>4 DEF ParseSecretCount, Headers, Early, WireStages
    <2>2. At(offset) \in Byte
        BY <2>1, ByteAt DEF WireInv
    <2>3. CASE At(offset) = 0
        <3>1. Refuse("IndividualSecretsEmpty")
            BY <1>4, <2>3 DEF ParseSecretCount
        <3> QED
            BY <2>1, <3>1, RefuseKeeps
    <2>4. CASE At(offset) # 0
        <3>1. Enter("secrets", At(offset))
            BY <1>4, <2>4 DEF ParseSecretCount
        <3> QED
            BY <2>1, <2>2, <2>4, <3>1, EnterKeeps
    <2> QED
        BY <2>3, <2>4
<1>5. CASE ParseEncryption
    <2>1. stage = "encryption" /\ Unread
        BY <1>5 DEF ParseEncryption
    <2>2. stage \in Early /\ stage # "refused" /\ "payload" \in Headers /\ stage \in Headers
        BY <2>1 DEF Early, WireStages, Headers
    <2>3. At(offset) \in Byte
        BY <2>2, ByteAt DEF WireInv
    <2> DEFINE fields == [parsed EXCEPT !.encryption = At(offset)]
    <2>6. parsed \in ParsedType /\ parsed.nonce = <<>> /\ offset \in Nat
        BY <2>1 DEF WireInv
    <2>4. fields \in ParsedType /\ fields.nonce = <<>> /\ offset + 1 \in Nat
        BY <2>3, <2>6 DEF ParsedType
    <2>5. Refuse("EncryptionReserved") \/ Continue("payload", offset + 1, fields)
        BY <1>5 DEF ParseEncryption
    <2> HIDE DEF fields
    <2> QED
        BY <2>1, <2>2, <2>4, <2>5, RefuseKeeps, ContinueKeeps
<1> QED
    BY <1>1, <1>2, <1>3, <1>4, <1>5

\* What a turn of the loop over the paths does.
LEMMA ParsePathIs ==
    ASSUME WireInv, ParsePath
    PROVE  /\ stage = "paths" /\ Unread
           /\ \/ \E e \in {"Corrupted", "DerivPathEmpty"} :
                     /\ Refuse(e)
                     /\ \/ Len(bytes) <= offset \/ bytes[offset + 1] = 0
                        \/ Len(bytes) < PathEnd(bytes, offset)
              \/ /\ offset < Len(bytes) /\ bytes[offset + 1] # 0 /\ bytes[offset + 1] \in Byte
                 /\ PathEnd(bytes, offset) <= Len(bytes)
                 /\ Turn("secret count", PathEnd(bytes, offset),
                         [parsed EXCEPT !.paths = @ \cup {PathAt(bytes, offset)}])
<1> DEFINE count == At(offset)
           end == offset + 1 + count * ChildSize
           path == [i \in 1..count |-> Slice(offset + 1 + (i - 1) * ChildSize, ChildSize)]
<1>1. path = PathAt(bytes, offset) /\ end = PathEnd(bytes, offset) /\ count = bytes[offset + 1]
    BY Zenon DEF PathAt, PathEnd, At, Slice, Part
<1>2. stage = "paths" /\ Unread
    BY DEF ParsePath
<1>3. CASE Size <= offset
    <2>1. Refuse("Corrupted")
        BY <1>3 DEF ParsePath
    <2>2. Len(bytes) <= offset
        BY <1>3 DEF Size
    <2> QED
        BY <1>2, <2>1, <2>2
<1>4. CASE ~(Size <= offset)
    <2>0. offset < Len(bytes) /\ bytes \in Seq(Byte)
        BY <1>4, SizesAre DEF WireInv
    <2>1. (CASE count = 0 -> Refuse("DerivPathEmpty")
             [] count # 0 /\ Size < end -> Refuse("Corrupted")
             [] OTHER -> Turn("secret count", end, [parsed EXCEPT !.paths = @ \cup {path}]))
        BY <1>4, Zenon DEF ParsePath
    <2> HIDE DEF count, end, path
    <2>2. CASE count = 0
        <3>1. Refuse("DerivPathEmpty")
            BY <2>1, <2>2
        <3> QED
            BY <1>1, <1>2, <2>2, <3>1
    <2>3. CASE count # 0 /\ Size < end
        <3>1. Refuse("Corrupted")
            BY <2>1, <2>3
        <3>2. Len(bytes) < PathEnd(bytes, offset)
            BY <1>1, <2>3 DEF Size
        <3> QED
            BY <1>2, <3>1, <3>2
    <2>4. CASE count # 0 /\ ~(Size < end)
        <3>1. Turn("secret count", end, [parsed EXCEPT !.paths = @ \cup {path}])
            BY <2>1, <2>4
        <3>2. count \in Byte /\ end \in Nat
            <4>1. count \in Byte
                BY <2>0, ByteAt DEF count
            <4>2. PICK n \in Nat : n = count
                BY <4>1, BaseIs
            <4>3. n * ChildSize \in Nat
                BY WireAssumption
            <4>4. end = offset + 1 + n * ChildSize
                BY <4>2 DEF end
            <4>5. end \in Nat
                BY <4>3, <4>4, SizesAre
            <4> QED
                BY <4>1, <4>5
        <3>3. end <= Len(bytes)
            BY <2>4, <3>2, SizesAre
        <3> QED
            BY <1>1, <1>2, <2>0, <2>4, <3>1, <3>2, <3>3
    <2> QED
        BY <2>2, <2>3, <2>4
<1> QED
    BY <1>3, <1>4

LEMMA PathKeeps ==
    ASSUME WireInv, ParsePath
    PROVE  WireInv'
<1>1. stage = "paths" /\ Unread /\ stage \in Early /\ stage \in {"paths", "secrets"}
      /\ "secret count" \in Headers
    BY ParsePathIs DEF Early, WireStages, Headers
<1>2. CASE \E e \in {"Corrupted", "DerivPathEmpty"} : Refuse(e)
    BY <1>1, <1>2, RefuseKeeps
<1>3. CASE ~(\E e \in {"Corrupted", "DerivPathEmpty"} : Refuse(e))
    <2> DEFINE fields == [parsed EXCEPT !.paths = @ \cup {PathAt(bytes, offset)}]
               end == PathEnd(bytes, offset)
    <2>1. /\ offset < Len(bytes) /\ bytes[offset + 1] # 0 /\ end <= Len(bytes)
          /\ Turn("secret count", end, fields)
        BY <1>3, ParsePathIs
    <2>2. bytes \in Seq(Byte) /\ offset \in Nat /\ parsed \in ParsedType /\ parsed.nonce = <<>>
        BY <1>1 DEF WireInv
    <2>3. PathAt(bytes, offset) \in Path \ {<<>>} /\ end \in Nat
        BY <2>1, <2>2, PathRead
    <2>4. fields \in ParsedType /\ fields.nonce = <<>>
        BY <2>2, <2>3 DEF ParsedType
    <2> HIDE DEF fields, end
    <2> QED
        BY <1>1, <2>1, <2>3, <2>4, TurnKeeps
<1> QED
    BY <1>2, <1>3

LEMMA SecretKeeps ==
    ASSUME WireInv, ParseSecret
    PROVE  WireInv'
<1>1. stage = "secrets" /\ Unread /\ stage \in Early /\ stage \in {"paths", "secrets"}
      /\ "encryption" \in Headers
    BY DEF ParseSecret, Early, WireStages, Headers
<1>2. CASE Refuse("Corrupted")
    BY <1>1, <1>2, RefuseKeeps
<1>3. CASE ~Refuse("Corrupted")
    <2> DEFINE d == Slice(offset, SecretSize)
               fields == [parsed EXCEPT !.secrets = @ \cup {d}]
    <2>1. ~(Size < offset + SecretSize) /\ Turn("encryption", offset + SecretSize, fields)
        BY <1>3 DEF ParseSecret
    <2>2. bytes \in Seq(Byte) /\ offset \in Nat /\ parsed \in ParsedType /\ parsed.nonce = <<>>
          /\ SecretSize \in Nat
        BY <1>1, WireAssumption DEF WireInv
    <2>3. PICK o \in Nat : o = offset + SecretSize
        BY <2>2
    <2>4. o <= Len(bytes)
        BY <2>1, <2>3, SizesAre
    <2>5. d = Part(bytes, offset, SecretSize)
        BY DEF Part, Slice
    <2>6. d \in Seq(Byte) /\ Len(d) = SecretSize
        BY <2>2, <2>3, <2>4, <2>5, PartIs
    <2>7. d \in [1..SecretSize -> Byte]
        BY <2>6, FixedSize
    <2> HIDE DEF d
    <2>8. fields \in ParsedType /\ fields.nonce = <<>>
        BY <2>2, <2>7 DEF ParsedType
    <2>9. Turn("encryption", o, fields)
        BY <2>1, <2>3
    <2> HIDE DEF fields
    <2> QED
        BY <1>1, <2>4, <2>8, <2>9, TurnKeeps
<1> QED
    BY <1>2, <1>3

\* What decode_v1 returns, and the end of what it refuses.
LEMMA ParsePayloadIs ==
    ASSUME WireInv, ParsePayload
    PROVE  /\ stage = "payload" /\ Unread
           /\ \/ PayloadError(offset) # "none" /\ Refuse(PayloadError(offset))
              \/ /\ PayloadError(offset) = "none" /\ CountsAsPayload(offset)
                 /\ stage' = "lengths" /\ offset' = offset /\ left' = left /\ error' = error
                 /\ parsed' = [parsed EXCEPT !.nonce = Part(bytes, offset, NonceSize),
                                             !.text = Part(bytes, TextStart(offset), Length(offset).value)]
<1>1. stage = "payload" /\ Unread
    BY DEF ParsePayload
<1>2. CASE PayloadError(offset) # "none"
    BY <1>1, <1>2 DEF ParsePayload
<1>3. CASE PayloadError(offset) = "none"
    <2>1. CountsAsPayload(offset)
        BY <1>3, PayloadIs DEF WireInv
    <2>2. /\ stage' = "lengths" /\ offset' = offset /\ left' = left /\ error' = error
          /\ parsed' = [parsed EXCEPT !.nonce = Slice(offset, NonceSize),
                                      !.text = SubSeq(bytes, TextStart(offset) + 1, TextEnd(offset))]
        BY <1>3 DEF ParsePayload
    <2>3. Slice(offset, NonceSize) = Part(bytes, offset, NonceSize)
        BY DEF Slice, Part
    <2>4. SubSeq(bytes, TextStart(offset) + 1, TextEnd(offset))
             = Part(bytes, TextStart(offset), Length(offset).value)
        BY Zenon DEF TextEnd, Part
    <2> QED
        BY <1>1, <1>3, <2>1, <2>2, <2>3, <2>4
<1> QED
    BY <1>2, <1>3

LEMMA PayloadParts2 ==
    ASSUME WireInv, CountsAsPayload(offset)
    PROVE  /\ Part(bytes, offset, NonceSize) \in Seq(Byte)
           /\ Part(bytes, TextStart(offset), Length(offset).value) \in Seq(Byte)
           /\ Len(Part(bytes, TextStart(offset), Length(offset).value)) = Length(offset).value
<1>1. bytes \in Seq(Byte) /\ offset \in Nat /\ Len(bytes) <= UsizeMax /\ NonceSize \in Nat
    BY WireAssumption DEF WireInv
<1>2. /\ Length(offset).value \in Nat /\ offset + NonceSize <= Len(bytes)
      /\ TextStart(offset) \in Nat /\ TextStart(offset) + Length(offset).value <= Len(bytes)
    BY <1>1, PayloadIs
<1>3. PICK n \in Nat : n = Length(offset).value
    BY <1>2
<1>4. PICK o \in Nat : o = TextStart(offset)
    BY <1>2
<1>5. o + n <= Len(bytes)
    BY <1>2, <1>3, <1>4
<1>6. Part(bytes, o, n) \in Seq(Byte) /\ Len(Part(bytes, o, n)) = n
    BY <1>1, <1>5, PartIs
<1>7. Part(bytes, offset, NonceSize) \in Seq(Byte)
    BY <1>1, <1>2, PartIs
<1> QED
    BY <1>3, <1>4, <1>6, <1>7

LEMMA PayloadKeeps ==
    ASSUME WireInv, ParsePayload
    PROVE  WireInv'
<1>1. stage = "payload" /\ Unread /\ stage \in Early
    BY ParsePayloadIs DEF Early, WireStages
<1>2. CASE PayloadError(offset) # "none"
    BY <1>1, <1>2, ParsePayloadIs, RefuseKeeps
<1>3. CASE PayloadError(offset) = "none"
    <2> DEFINE n == Part(bytes, offset, NonceSize)
               t == Part(bytes, TextStart(offset), Length(offset).value)
    <2>1. /\ stage' = "lengths" /\ offset' = offset /\ left' = left /\ error' = error
          /\ parsed' = [parsed EXCEPT !.nonce = n, !.text = t] /\ CountsAsPayload(offset)
          /\ bytes' = bytes /\ lengths' = lengths
        BY <1>1, <1>3, ParsePayloadIs DEF Unread
    <2>2. n \in Seq(Byte) /\ t \in Seq(Byte) /\ Len(t) = Length(offset).value
        BY <2>1, PayloadParts2
    <2> HIDE DEF n, t
    <2>3. parsed \in ParsedType /\ lengths = <<>> /\ error = "none" /\ left \in Byte
          /\ bytes \in Seq(Byte) /\ Len(bytes) <= UsizeMax /\ offset \in Nat /\ offset <= Len(bytes)
        BY <1>1 DEF WireInv
    <2>4. parsed' \in ParsedType /\ parsed'.text = t
        BY <2>1, <2>2, <2>3 DEF ParsedType
    <2>5. PayloadError(offset)' = "none" /\ Length(offset)' = Length(offset)
        <3>1. PayloadError(offset)' = PayloadError(offset)
            BY <2>1 DEF PayloadError, Size, Slice, Length, TextEnd, TextStart, Rest
        <3>2. Length(offset)' = Length(offset)
            BY <2>1 DEF Length, Rest, Size
        <3> QED
            BY <1>3, <3>1, <3>2
    <2>6. lengths' \in Seq(Nat) /\ DOMAIN lengths' = {} /\ "lengths" \in WireStages
          /\ "lengths" \notin Headers
        BY <2>1, <2>3 DEF WireStages, Headers
    <2> QED
        BY <2>1, <2>2, <2>3, <2>4, <2>5, <2>6 DEF WireInv
<1> QED
    BY <1>2, <1>3

LEMMA WalkKeeps ==
    ASSUME WireInv, WalkPayload \/ WalkEnds
    PROVE  WireInv'
<1>1. /\ bytes' = bytes /\ left' = left /\ parsed' = parsed /\ stage = "lengths"
    BY DEF WalkPayload, WalkEnds
<1>2. /\ bytes \in Seq(Byte) /\ Len(bytes) <= UsizeMax /\ offset \in Nat /\ offset <= Len(bytes)
      /\ left \in Byte /\ parsed \in ParsedType /\ lengths \in Seq(Nat) /\ error = "none"
      /\ (\A i \in DOMAIN lengths : lengths[i] \in 0..Len(bytes))
      /\ (lengths # <<>> => lengths[1] = Len(parsed.text))
      /\ (lengths = <<>> => PayloadError(offset) = "none" /\ Len(parsed.text) = Length(offset).value)
    BY <1>1 DEF WireInv
<1>3. CASE WalkPayload
    <2>1. /\ lengths' = Append(lengths, Length(offset).value) /\ offset' = TextEnd(offset)
          /\ stage' = stage /\ error' = error /\ CountsAsPayload(offset)
        BY <1>3 DEF WalkPayload
    <2>2. /\ Length(offset).value \in Nat /\ TextEnd(offset) \in Nat
          /\ TextEnd(offset) <= Len(bytes) /\ Length(offset).value <= Len(bytes)
        BY <1>2, <2>1, PayloadIs
    <2>3. PICK n \in Nat : n = Length(offset).value /\ n <= Len(bytes) /\ n \in 0..Len(bytes)
        BY <1>2, <2>2
    <2>4. lengths' = Append(lengths, n)
        BY <2>1, <2>3
    <2>5. lengths' \in Seq(Nat) /\ lengths' # <<>>
          /\ \A i \in DOMAIN lengths' : lengths'[i] = n \/ (i \in DOMAIN lengths /\ lengths'[i] = lengths[i])
        BY <1>2, <2>4
    <2>6. \A i \in DOMAIN lengths' : lengths'[i] \in 0..Len(bytes)
        BY <1>2, <2>3, <2>5
    <2>7. lengths'[1] = Len(parsed.text)
        <3>1. CASE lengths = <<>>
            BY <1>2, <2>3, <2>4, <3>1
        <3>2. CASE lengths # <<>>
            <4>1. lengths'[1] = lengths[1]
                BY <1>2, <2>4, <3>2
            <4> QED
                BY <1>2, <3>2, <4>1
        <3> QED
            BY <3>1, <3>2
    <2>8. stage' = "lengths" /\ "lengths" \in WireStages /\ "lengths" \notin Headers
        BY <1>1, <2>1 DEF WireStages, Headers
    <2> QED
        BY <1>1, <1>2, <2>1, <2>2, <2>5, <2>6, <2>7, <2>8 DEF WireInv
<1>4. CASE WalkEnds
    <2>1. offset' = offset /\ lengths' = lengths
        BY <1>4 DEF WalkEnds
    <2>2. lengths # <<>>
        <3>1. SUFFICES ASSUME lengths = <<>> PROVE FALSE
            OBVIOUS
        <3>2. CountsAsPayload(offset) /\ offset < Size
            BY <1>2, <3>1, PayloadIs DEF Size
        <3> QED
            BY <1>4, <3>2 DEF WalkEnds
    <2>3. stage' = "done" /\ error' = error
        BY <1>4, <2>2 DEF WalkEnds
    <2>4. "done" \in WireStages /\ "done" \notin Headers
        BY DEF WireStages, Headers
    <2> QED
        BY <1>1, <1>2, <2>1, <2>2, <2>3, <2>4 DEF WireInv
<1> QED
    BY <1>3, <1>4

LEMMA WireInvKept ==
    ASSUME WireInv, WireStep \/ UNCHANGED wireVars
    PROVE  WireInv'
<1>1. CASE UNCHANGED wireVars
    <2>1. /\ bytes' = bytes /\ stage' = stage /\ offset' = offset /\ left' = left
          /\ parsed' = parsed /\ lengths' = lengths /\ error' = error
        BY <1>1 DEF wireVars
    <2>2. PayloadError(offset)' = PayloadError(offset)
        BY <2>1 DEF PayloadError, Size, Slice, Length, TextEnd, TextStart, Rest
    <2>3. Length(offset)' = Length(offset)
        BY <2>1 DEF Length, Rest, Size
    <2> QED
        BY <2>1, <2>2, <2>3 DEF WireInv
<1>2. CASE WireStep
    BY <1>2, HeaderKeeps, PathKeeps, SecretKeeps, PayloadKeeps, WalkKeeps DEF WireStep
<1> QED
    BY <1>1, <1>2

LEMMA WireInvWhole ==
    ASSUME WireInv
    PROVE  WireTypeOK /\ InspectAgrees
<1>1. /\ bytes \in Seq(Byte) /\ offset \in 0..Size /\ left \in Byte /\ Size = Len(bytes)
      /\ parsed \in ParsedType
    <2>1. Len(bytes) \in Nat /\ offset \in Nat /\ offset <= Len(bytes)
        BY SizesAre
    <2> QED
        BY <2>1 DEF WireInv, Size
<1>2. parsed.paths \subseteq Path \ {<<>>}
    BY <1>1 DEF ParsedType
<1>3. WireTypeOK
    BY <1>1, <1>2, BaseIs DEF WireInv, WireTypeOK, Headers
<1>4. InspectAgrees
    BY DEF WireInv, InspectAgrees
<1> QED
    BY <1>3, <1>4

LEMMA WireSteps ==
    ASSUME [DecodersNext]_decodersVars
    PROVE  WireStep \/ UNCHANGED wireVars
BY DEF DecodersNext, decodersVars

LEMMA WireStarts ==
    ASSUME DecodersInit
    PROVE  WireInit \/ WireIdle
BY DEF DecodersInit

LEMMA WireInvAlways == DecodersSpec => []WireInv
<1>1. DecodersInit => WireInv
    BY WireStarts, WireInvStart
<1>2. WireInv /\ [DecodersNext]_decodersVars => WireInv'
    BY WireSteps, WireInvKept
<1> QED
    BY <1>1, <1>2, PTL DEF DecodersSpec

\* Type correctness of both decoders; the parser of a backup never stands
\* beyond its input, and there is a byte wherever it reads one unasked.
THEOREM DecodersTypeOKCorrect == DecodersSpec => []TypeOK
<1>1. WireInv /\ CodecInv => TypeOK
    BY WireInvWhole, CodecInvWhole DEF TypeOK
<1> QED
    BY <1>1, WireInvAlways, CodecInvAlways, PTL

\* What decode_v1 returns, the walk of inspect shows, with the length of the
\* same cyphertext first.
THEOREM InspectAgreesCorrect == DecodersSpec => []InspectAgrees
BY WireInvAlways, WireInvWhole, PTL

(************************* A backup cut or followed *************************)

-----------------------------------------------------------------------------
(* A field that is there is read                                           *)

Alike(a, b) == \A i \in 1..Len(a) : i \in 1..Len(b) => a[i] = b[i]

LEMMA AlikeHas ==
    ASSUME NEW V, NEW a \in Seq(V), NEW b \in Seq(V), Alike(a, b), NEW o \in Nat, NEW p \in Seq(V)
    PROVE  /\ Has(a, o, p) /\ o + Len(p) <= Len(b) => Has(b, o, p)
           /\ Has(b, o, p) /\ o + Len(p) <= Len(a) => Has(a, o, p)
<1>1. Len(a) \in Nat /\ Len(b) \in Nat /\ Len(p) \in Nat
    OBVIOUS
<1>2. ASSUME o + Len(p) <= Len(a), o + Len(p) <= Len(b), NEW i \in 1..Len(p)
      PROVE  a[o + i] = b[o + i]
    <2>1. o + i \in 1..Len(a) /\ o + i \in 1..Len(b)
        BY <1>1, <1>2
    <2> QED
        BY <2>1 DEF Alike
<1>3. ASSUME Has(a, o, p), o + Len(p) <= Len(b) PROVE Has(b, o, p)
    <2>1. o + Len(p) <= Len(a) /\ \A i \in 1..Len(p) : a[o + i] = p[i]
        BY <1>3 DEF Has
    <2>2. \A i \in 1..Len(p) : b[o + i] = p[i]
        BY <1>2, <1>3, <2>1
    <2> QED
        BY <1>3, <2>2 DEF Has
<1>4. ASSUME Has(b, o, p), o + Len(p) <= Len(a) PROVE Has(a, o, p)
    <2>1. o + Len(p) <= Len(b) /\ \A i \in 1..Len(p) : b[o + i] = p[i]
        BY <1>4 DEF Has
    <2>2. \A i \in 1..Len(p) : a[o + i] = p[i]
        BY <1>2, <1>4, <2>1
    <2> QED
        BY <1>4, <2>2 DEF Has
<1> QED
    BY <1>3, <1>4

\* f[1], ..., f[n] have the size c.
Spaced(f, n, c) == \A k \in 0..n : Len(Concat(f, k)) = k * c
LEMMA ConcatSize ==
    ASSUME NEW V, NEW n \in Nat, NEW f, NEW c \in Nat,
           \A i \in 1..n : f[i] \in Seq(V) /\ Len(f[i]) = c
    PROVE  Spaced(f, n, c)
<1> DEFINE P == {k \in Nat : k <= n => Len(Concat(f, k)) = k * c}
<1>1. 0 \in P
    <2>1. Concat(f, 0) = <<>>
        BY ConcatNext
    <2>2. Len(Concat(f, 0)) = 0
        BY <2>1
    <2> QED
        BY <2>2
<1>2. ASSUME NEW k \in Nat, k \in P PROVE k + 1 \in P
    <2> SUFFICES ASSUME k + 1 <= n PROVE Len(Concat(f, k + 1)) = (k + 1) * c
        OBVIOUS
    <2>1. PICK m \in Nat : m = k + 1 /\ m # 0 /\ m - 1 = k /\ m \in 1..n
        OBVIOUS
    <2>2. (\A i \in 1..m : f[i] \in Seq(V)) /\ (\A i \in 1..k : f[i] \in Seq(V))
        BY <2>1
    <2>3. Concat(f, m) = Concat(f, m - 1) \o f[m]
        BY <2>1, <2>2, ConcatNext
    <2>4. Concat(f, k) \in Seq(V)
        BY <2>2, ConcatNext
    <2> DEFINE a == Concat(f, k)
               b == f[m]
    <2>5. a \in Seq(V) /\ b \in Seq(V) /\ Len(b) = c /\ Concat(f, m) = a \o b /\ Len(a) = k * c
        BY <1>2, <2>1, <2>3, <2>4
    <2> HIDE DEF a, b
    <2>6. Len(a \o b) = Len(a) + Len(b)
        BY <2>5, Joined
    <2>7. (k + 1) * c = k * c + c
        OBVIOUS
    <2> QED
        BY <2>1, <2>5, <2>6, <2>7
<1> HIDE DEF P
<1>3. Nat \subseteq P
    BY <1>1, <1>2, SetInduction
<1> QED
    BY <1>3 DEF P, Spaced

\* What encode_derivation_paths wrote for a path is the path.
LEMMA PathBack ==
    ASSUME NEW x \in Seq(Byte), NEW o \in Nat, NEW p \in Path, Len(p) \in 1..(Base - 1),
           Has(x, o, EncodePath(p))
    PROVE  /\ o < Len(x) /\ x[o + 1] = Len(p) /\ PathAt(x, o) = p
           /\ PathEnd(x, o) = o + Len(EncodePath(p)) /\ PathEnd(x, o) <= Len(x)
<1> DEFINE a == <<Len(p)>>
           c == Concat(p, Len(p))
<1>1. /\ a \in Seq(Byte) /\ c \in Seq(Byte) /\ EncodePath(p) = a \o c /\ Len(a) = 1 /\ a[1] = Len(p)
      /\ \A i \in 1..Len(p) : p[i] \in Seq(Byte) /\ Len(p[i]) = ChildSize
    BY PathTyped
<1>2. PICK n \in Nat : n = Len(p) /\ n # 0
    BY BaseIs
<1>3. PICK w \in Nat : w = ChildSize
    BY WireAssumption
<1>4. \A k \in 0..n : Len(Concat(p, k)) = k * w
    <2>1. \A i \in 1..n : p[i] \in Seq(Byte) /\ Len(p[i]) = w
        BY <1>1, <1>2, <1>3
    <2>2. Spaced(p, n, w)
        BY <2>1, ConcatSize
    <2> QED
        BY <2>2 DEF Spaced
<1>5. Len(c) = n * w /\ n * w \in Nat
    <2>1. n \in 0..n /\ n * w \in Nat
        OBVIOUS
    <2> QED
        BY <1>2, <1>4, <2>1
<1> HIDE DEF a, c
<1>6. Has(x, o, a) /\ Has(x, o + Len(a), c)
    <2>1. Has(x, o, a \o c)
        BY <1>1
    <2> QED
        BY <1>1, <2>1, HasJoined
<1>7. PICK q \in Nat : q = o + 1
    OBVIOUS
<1>8. Has(x, q, c) /\ x[o + 1] = n /\ q <= Len(x) /\ q + Len(c) <= Len(x)
    <2>1. o + Len(a) = q
        BY <1>1, <1>7
    <2>2. x[o + 1] = a[1]
        BY <1>1, <1>6 DEF Has
    <2> QED
        BY <1>1, <1>2, <1>5, <1>6, <2>1, <2>2 DEF Has
<1>9. Len(EncodePath(p)) = 1 + n * w
    BY <1>1, <1>5, Joined
<1>10. PathEnd(x, o) = o + 1 + n * w
    BY <1>3, <1>8 DEF PathEnd
<1>11. PathEnd(x, o) = o + Len(EncodePath(p)) /\ PathEnd(x, o) <= Len(x)
    BY <1>5, <1>7, <1>8, <1>9, <1>10
<1>12. o < Len(x)
    BY <1>7, <1>8
<1>13. ASSUME NEW i \in 1..n
       PROVE  Part(x, o + 1 + (i - 1) * ChildSize, ChildSize) = p[i]
    <2>1. PlacedAt(x, q, p, i)
        <3>1. Has(x, q, Concat(p, n)) /\ \A j \in 1..n : p[j] \in Seq(Byte)
            BY <1>1, <1>2, <1>8 DEF c
        <3> QED
            BY <3>1, PartPlaces
    <2>2. Len(Concat(p, i - 1)) = (i - 1) * w
        <3>1. i - 1 \in 0..n
            OBVIOUS
        <3> QED
            BY <1>4, <3>1
    <2>3. PICK r \in Nat : r = q + Len(Concat(p, i - 1))
        BY <2>1 DEF PlacedAt
    <2>4. r = o + 1 + (i - 1) * ChildSize
        BY <1>3, <1>7, <2>2, <2>3
    <2>5. Has(x, r, p[i])
        BY <2>1, <2>3 DEF PlacedAt
    <2>6. PICK d \in Seq(Byte) : d = p[i] /\ Len(d) = w
        BY <1>1, <1>2, <1>3
    <2>7. Has(x, r, d) /\ r + w <= Len(x)
        BY <2>5, <2>6 DEF Has
    <2>8. Has(x, r, Part(x, r, w)) /\ Part(x, r, w) \in Seq(Byte) /\ Len(Part(x, r, w)) = w
        BY <2>7, PartIs
    <2>9. Part(x, r, w) = d
        BY <2>6, <2>7, <2>8, HasOne
    <2> QED
        BY <1>3, <2>4, <2>6, <2>9
<1>14. PathAt(x, o) = p
    <2>1. PathAt(x, o) = [i \in 1..n |-> p[i]]
        BY <1>8, <1>13 DEF PathAt
    <2>2. p = [i \in 1..n |-> p[i]]
        BY <1>2 DEF Path
    <2> QED
        BY <2>1, <2>2
<1> QED
    BY <1>2, <1>8, <1>11, <1>12, <1>14

\* What encode_encrypted_payload wrote is a payload to both parsers.
LEMMA PayloadBack ==
    ASSUME bytes \in Seq(Byte), Len(bytes) <= UsizeMax, NEW o \in Nat,
           NEW n \in Seq(Byte), Len(n) = NonceSize, n # ZeroNonce, NEW t \in Seq(Byte), t # <<>>,
           NEW p, p = [nonce |-> n, text |-> t], Has(bytes, o, EncodePayload(p))
    PROVE  /\ PayloadError(o) = "none" /\ CountsAsPayload(o) /\ o < Len(bytes)
           /\ Part(bytes, o, NonceSize) = n
           /\ Length(o).value = Len(t) /\ Part(bytes, TextStart(o), Length(o).value) = t
           /\ TextEnd(o) = o + Len(EncodePayload(p))
<1> DEFINE e == EncodeVarint(Len(t))
<1>0. PICK nt \in Nat : nt = Len(t)
    OBVIOUS
<1>1. e \in Seq(Byte) /\ e = EncodeVarint(nt) /\ EncodePayload(p) = (n \o e) \o t
    <2>1. EncodeVarint(nt) \in Seq(Byte)
        BY EncodeTyped
    <2> QED
        BY <1>0, <2>1 DEF EncodePayload
<1>2. e = EncodeVarint(Len(t))
    OBVIOUS
<1> HIDE DEF e
<1>3. PICK w \in Nat : w = NonceSize /\ w # 0
    BY WireAssumption
<1>4. n \o e \in Seq(Byte) /\ Len(n \o e) = w + Len(e) /\ Len(e) \in Nat
    BY <1>1, <1>3, Joined
<1> DEFINE h == n \o e
<1>5. Len(EncodePayload(p)) = w + Len(e) + nt
    <2>1. h \in Seq(Byte) /\ Len(h) = w + Len(e) /\ EncodePayload(p) = h \o t
        BY <1>1, <1>4
    <2> HIDE DEF h
    <2>2. Len(h \o t) = Len(h) + Len(t)
        BY <2>1, Joined
    <2> QED
        BY <1>0, <1>4, <2>1, <2>2
<1>6. Has(bytes, o, n) /\ Has(bytes, o + w, e) /\ Has(bytes, o + w + Len(e), t)
    <2>1. h \in Seq(Byte) /\ Len(h) = w + Len(e) /\ Has(bytes, o, h \o t) /\ h = n \o e
        BY <1>1, <1>4
    <2> HIDE DEF h
    <2>2. Has(bytes, o, h) /\ Has(bytes, o + Len(h), t)
        BY <2>1, HasJoined
    <2>3. Has(bytes, o, n \o e)
        BY <2>1, <2>2
    <2>4. Has(bytes, o, n) /\ Has(bytes, o + Len(n), e)
        BY <1>1, <2>3, HasJoined
    <2>5. o + Len(h) = o + w + Len(e) /\ o + Len(n) = o + w
        BY <1>3, <1>4, <2>1
    <2> QED
        BY <2>2, <2>4, <2>5
<1>7. PICK q \in Nat : q = o + w
    OBVIOUS
<1>8. PICK k \in Nat : k = Len(e)
    BY <1>4
<1>9. Has(bytes, q, e) /\ Has(bytes, q + Len(e), t) /\ q <= Len(bytes)
    <2>1. q + Len(e) = o + w + Len(e)
        BY <1>7
    <2>2. q + Len(e) <= Len(bytes)
        BY <1>6, <1>7 DEF Has
    <2> QED
        BY <1>4, <1>6, <1>7, <2>1, <2>2
<1>10. Encodable(Len(t))
    <2>1. Len(t) <= UsizeMax
        BY <1>0, <1>4, <1>9, UsizeEncodable DEF Has
    <2> QED
        BY <1>0, <2>1, UsizeEncodable
<1>11. PICK v : v = ParseVarint(RestAt(bytes, q))
    OBVIOUS
<1>12. /\ v = [ok |-> TRUE, value |-> Len(t), used |-> Len(e)] /\ Len(e) \in Nat \ {0}
       /\ q < Len(bytes) /\ q + Len(e) + Len(t) <= Len(bytes)
       /\ t = Part(bytes, q + Len(e), Len(t))
    BY <1>2, <1>9, <1>10, <1>11, SizedBack
<1>13. Length(o) = v
    BY <1>3, <1>7, <1>11 DEF Length, Rest, RestAt, Size
<1>14. Length(o).ok = TRUE /\ Length(o).value = nt /\ Length(o).used = k
    BY <1>0, <1>8, <1>12, <1>13
<1>15. TextStart(o) = q + k /\ TextEnd(o) = q + k + nt
    BY <1>3, <1>7, <1>14 DEF TextStart, TextEnd
<1>16. Part(bytes, TextStart(o), Length(o).value) = t /\ Length(o).value = Len(t)
       /\ TextEnd(o) = o + Len(EncodePayload(p))
    <2>1. q + k + nt = o + (w + k + nt)
        BY <1>7
    <2> QED
        BY <1>0, <1>5, <1>7, <1>8, <1>12, <1>14, <1>15, <2>1
<1>17. Slice(o, NonceSize) = n /\ Part(bytes, o, NonceSize) = n
    <2>1. SubSeq(bytes, o + 1, o + Len(n)) = n
        BY <1>6, HasSlice
    <2> QED
        BY <2>1 DEF Slice, Part
<1>18. PICK b \in Nat : b = Len(bytes) /\ b <= UsizeMax /\ Size = b
    BY DEF Size
<1>19. q < b /\ q + k + nt <= b
    BY <1>0, <1>8, <1>12, <1>18
<1>20. CountsAsPayload(o)
    <2>1. Size >= o + NonceSize /\ Length(o).value <= UsizeMax /\ TextEnd(o) <= UsizeMax
          /\ TextEnd(o) <= Size
        BY <1>3, <1>7, <1>14, <1>15, <1>18, <1>19, UsizeEncodable
    <2> QED
        BY <1>14, <1>17, <2>1 DEF CountsAsPayload
<1>21. PayloadError(o) = "none"
    <2>1. /\ ~(Size < o + NonceSize) /\ Slice(o, NonceSize) # ZeroNonce /\ Size # o + NonceSize
          /\ Length(o).ok /\ ~(Length(o).value > UsizeMax) /\ ~(TextEnd(o) - o > UsizeMax)
          /\ ~(Size < TextEnd(o))
        BY <1>3, <1>7, <1>14, <1>15, <1>17, <1>18, <1>19, UsizeEncodable
    <2> QED
        BY <2>1 DEF PayloadError
<1> QED
    BY <1>7, <1>16, <1>17, <1>18, <1>19, <1>20, <1>21

-----------------------------------------------------------------------------
(* Where the fields end                                                    *)

Inside(s, x) ==
    /\ Len(Magic) < Len(x) /\ Len(Magic) + 1 < Len(x)
    /\ \A k \in 0..Cardinality(s.paths) : PathStart(s, k) \in Nat /\ PathStart(s, k) < Len(x)
    /\ \A k \in 0..Cardinality(s.secrets) : SecretStart(s, k) \in Nat /\ SecretStart(s, k) < Len(x)
    /\ \A k \in 0..(Len(s.payloads) - 1) : PayloadStart(s, k) \in Nat /\ PayloadStart(s, k) < Len(x)

LEMMA HasSome ==
    ASSUME NEW x \in Seq(Byte), NEW o \in Nat, NEW p \in Seq(Byte), p # <<>>, Has(x, o, p)
    PROVE  o < Len(x) /\ x[o + 1] = p[1] /\ o + Len(p) <= Len(x)
BY DEF Has

LEMMA EncodedSome ==
    ASSUME NEW s \in Sources, CanEncode(s)
    PROVE  /\ \A i \in 1..Cardinality(s.paths) :
                 EncodePath(Listed(s.paths)[i]) \in Seq(Byte) /\ EncodePath(Listed(s.paths)[i]) # <<>>
           /\ \A i \in 1..Cardinality(s.secrets) :
                 Listed(s.secrets)[i] \in Seq(Byte) /\ Listed(s.secrets)[i] # <<>>
           /\ \A i \in 1..Len(s.payloads) :
                 EncodePayload(s.payloads[i]) \in Seq(Byte) /\ EncodePayload(s.payloads[i]) # <<>>
<1>1. ASSUME NEW i \in 1..Cardinality(s.paths)
      PROVE  EncodePath(Listed(s.paths)[i]) \in Seq(Byte) /\ EncodePath(Listed(s.paths)[i]) # <<>>
    <2>1. PICK p \in Path : p = Listed(s.paths)[i] /\ Len(p) \in 1..(Base - 1)
        BY SourceParts
    <2> DEFINE a == <<Len(p)>>
               c == Concat(p, Len(p))
    <2>2. a \in Seq(Byte) /\ a # <<>> /\ c \in Seq(Byte) /\ EncodePath(p) = a \o c
        BY <2>1, PathTyped
    <2> HIDE DEF a, c
    <2>3. a \o c \in Seq(Byte) /\ a \o c # <<>>
        BY <2>2, Joined
    <2> QED
        BY <2>1, <2>2, <2>3
<1>2. ASSUME NEW i \in 1..Cardinality(s.secrets)
      PROVE  Listed(s.secrets)[i] \in Seq(Byte) /\ Listed(s.secrets)[i] # <<>>
    <2>1. PICK d \in Seq(Byte) : d = Listed(s.secrets)[i] /\ Len(d) = SecretSize
        BY SourceParts
    <2>2. d # <<>>
        BY <2>1, WireAssumption
    <2> QED
        BY <2>1, <2>2
<1>3. ASSUME NEW i \in 1..Len(s.payloads)
      PROVE  EncodePayload(s.payloads[i]) \in Seq(Byte) /\ EncodePayload(s.payloads[i]) # <<>>
    <2>1. PICK n \in Seq(Byte) : n = s.payloads[i].nonce /\ Len(n) = NonceSize
        BY SourceParts
    <2>2. PICK t \in Seq(Byte) : t = s.payloads[i].text
        BY SourceParts
    <2>3. PICK l \in Nat : l = Len(t)
        OBVIOUS
    <2>4. PICK e \in Seq(Byte) : e = EncodeVarint(l)
        BY EncodeTyped
    <2>5. EncodePayload(s.payloads[i]) = n \o e \o t
        BY <2>1, <2>2, <2>3, <2>4 DEF EncodePayload
    <2>6. n # <<>>
        BY <2>1, WireAssumption
    <2>7. PICK h \in Seq(Byte) : h = n \o e /\ h # <<>>
        BY <2>6, Joined
    <2>8. h \o t \in Seq(Byte) /\ h \o t # <<>>
        BY <2>7, Joined
    <2> QED
        BY <2>5, <2>7, <2>8
<1> QED
    BY <1>1, <1>2, <1>3

LEMMA V1Inside ==
    ASSUME NEW s \in Sources, CanEncode(s)
    PROVE  Inside(s, EncodeV1(s))
<1> DEFINE x == EncodeV1(s)
           np == Cardinality(s.paths)
           ns == Cardinality(s.secrets)
           m == Len(s.payloads)
<1>1. V1Right(s, x) /\ x \in Seq(Byte)
    BY V1Parts DEF V1Right
<1>2. /\ \A i \in 1..np : PathRight(s, x, i)
      /\ \A i \in 1..ns : SecretRight(s, x, i)
      /\ \A i \in 1..m : PayloadRight(s, x, i)
    BY V1Parts
<1>3. np \in Nat /\ ns \in Nat \ {0} /\ m \in Nat \ {0}
    <2>1. np \in Byte /\ ns \in Byte \ {0} /\ m \in Nat \ {0}
        BY SourceParts
    <2> QED
        BY <2>1, BaseIs
<1> HIDE DEF x, np, ns, m
<1>4. ASSUME NEW k \in 0..(m - 1)
      PROVE  PayloadStart(s, k) \in Nat /\ PayloadStart(s, k) < Len(x)
    <2>1. PICK i \in 1..m : i - 1 = k
        <3>1. k + 1 \in 1..m /\ (k + 1) - 1 = k
            BY <1>3
        <3> QED
            BY <3>1
    <2>2. PayloadRight(s, x, i)
        BY <1>2
    <2>3. PICK o \in Nat : o = PayloadStart(s, k) /\ Has(x, o, EncodePayload(s.payloads[i]))
        BY <2>1, <2>2 DEF PayloadRight
    <2>4. o < Len(x)
        BY <1>1, <2>3, EncodedSome, HasSome DEF m
    <2> QED
        BY <2>3, <2>4
<1>5. ASSUME NEW k \in 0..ns
      PROVE  SecretStart(s, k) \in Nat /\ SecretStart(s, k) < Len(x)
    <2>1. CASE k = ns
        <3>1. PICK o \in Nat : o = SecretStart(s, ns) /\ PayloadStart(s, 0) = o + 1
            BY <1>1 DEF V1Right, ns
        <3>2. PayloadStart(s, 0) < Len(x)
            BY <1>3, <1>4
        <3> QED
            BY <1>1, <2>1, <3>1, <3>2
    <2>2. CASE k # ns
        <3>1. PICK i \in 1..ns : i - 1 = k
            <4>1. k + 1 \in 1..ns /\ (k + 1) - 1 = k
                BY <1>3, <2>2
            <4> QED
                BY <4>1
        <3>2. SecretRight(s, x, i)
            BY <1>2
        <3>3. PICK o \in Nat : o = SecretStart(s, k) /\ Has(x, o, Listed(s.secrets)[i])
            BY <3>1, <3>2 DEF SecretRight
        <3>4. o < Len(x)
            BY <1>1, <3>3, EncodedSome, HasSome DEF ns
        <3> QED
            BY <3>3, <3>4
    <2> QED
        BY <2>1, <2>2
<1>6. ASSUME NEW k \in 0..np
      PROVE  PathStart(s, k) \in Nat /\ PathStart(s, k) < Len(x)
    <2>1. CASE k = np
        <3>1. PICK o \in Nat : o = PathStart(s, np) /\ SecretStart(s, 0) = o + 1
            BY <1>1 DEF V1Right, np
        <3>2. SecretStart(s, 0) < Len(x)
            BY <1>3, <1>5
        <3> QED
            BY <1>1, <2>1, <3>1, <3>2
    <2>2. CASE k # np
        <3>1. PICK i \in 1..np : i - 1 = k
            <4>1. k + 1 \in 1..np /\ (k + 1) - 1 = k
                BY <1>3, <2>2
            <4> QED
                BY <4>1
        <3>2. PathRight(s, x, i)
            BY <1>2
        <3>3. PICK o \in Nat : o = PathStart(s, k) /\ Has(x, o, EncodePath(Listed(s.paths)[i]))
            BY <3>1, <3>2 DEF PathRight
        <3>4. o < Len(x)
            BY <1>1, <3>3, EncodedSome, HasSome DEF np
        <3> QED
            BY <3>3, <3>4
    <2> QED
        BY <2>1, <2>2
<1>7. Len(Magic) < Len(x) /\ Len(Magic) + 1 < Len(x)
    <2>1. Len(Magic) \in Nat /\ PathStart(s, 0) = Len(Magic) + 2 /\ Len(x) \in Nat
        BY <1>1 DEF V1Right
    <2>2. PathStart(s, 0) < Len(x)
        BY <1>3, <1>6
    <2> QED
        BY <2>1, <2>2
<1> QED
    BY <1>4, <1>5, <1>6, <1>7 DEF Inside, x, np, ns, m

\* The payloads after the first one.
LEMMA AppendedIs ==
    ASSUME NEW s \in Sources, CanEncode(s)
    PROVE  AppendedSize(s) = Len(EncodeV1(s)) - PayloadStart(s, 1)
<1> DEFINE f == PayloadParts(s)
           m == Len(s.payloads)
           n == m - 1
           g == [i \in 1..n |-> EncodePayload(s.payloads[i + 1])]
<1>1. m \in Nat \ {0} /\ \A i \in 1..m : f[i] \in Seq(Byte) /\ f[i] = EncodePayload(s.payloads[i])
    BY SourceParts
<1>2. n \in Nat /\ \A i \in 1..n : i + 1 \in 1..m /\ g[i] = EncodePayload(s.payloads[i + 1])
    BY <1>1
<1>3. \A i \in 1..n : g[i] = f[i + 1] /\ g[i] \in Seq(Byte)
    BY <1>1, <1>2
<1>4. AppendedSize(s) = Len(Concat(g, n))
    BY DEF AppendedSize
<1> HIDE DEF f, g
<1> DEFINE P == {k \in Nat : k <= n => Len(Concat(f, k + 1)) = Len(Concat(f, 1)) + Len(Concat(g, k))}
<1>5. \A k \in Nat : /\ k <= m => Concat(f, k) \in Seq(Byte) /\ Len(Concat(f, k)) \in Nat
                     /\ k <= n => Concat(g, k) \in Seq(Byte) /\ Len(Concat(g, k)) \in Nat
    <2>1. ASSUME NEW k \in Nat, k <= m PROVE Concat(f, k) \in Seq(Byte)
        <3>1. \A i \in 1..k : f[i] \in Seq(Byte)
            BY <1>1, <2>1
        <3> QED
            BY <3>1, ConcatNext
    <2>2. ASSUME NEW k \in Nat, k <= n PROVE Concat(g, k) \in Seq(Byte)
        <3>1. \A i \in 1..k : g[i] \in Seq(Byte)
            BY <1>2, <1>3, <2>2
        <3> QED
            BY <3>1, ConcatNext
    <2> QED
        BY <2>1, <2>2
<1>6. 0 \in P
    <2>1. Concat(g, 0) = <<>>
        <3>1. \A i \in 1..0 : g[i] \in Seq(Byte)
            OBVIOUS
        <3> QED
            BY <3>1, ConcatNext
    <2>2. PICK l \in Nat : l = Len(Concat(f, 1))
        BY <1>1, <1>5
    <2>3. Len(Concat(g, 0)) = 0 /\ 0 + 1 = 1
        BY <2>1
    <2> QED
        BY <2>2, <2>3
<1>7. ASSUME NEW k \in Nat, k \in P PROVE k + 1 \in P
    <2> SUFFICES ASSUME k + 1 <= n
                 PROVE  Len(Concat(f, (k + 1) + 1)) = Len(Concat(f, 1)) + Len(Concat(g, k + 1))
        OBVIOUS
    <2>1. PICK j \in Nat : j = k + 1 /\ j # 0 /\ j - 1 = k /\ j \in 1..n /\ j <= m /\ k <= n
        BY <1>2
    <2>2. PICK i \in Nat : i = j + 1 /\ i # 0 /\ i - 1 = j /\ i \in 1..m
        BY <1>2, <2>1
    <2>3. (\A q \in 1..i : f[q] \in Seq(Byte)) /\ (\A q \in 1..j : g[q] \in Seq(Byte))
        BY <1>1, <1>2, <1>3, <2>1, <2>2
    <2>4. Concat(f, i) = Concat(f, i - 1) \o f[i] /\ Concat(g, j) = Concat(g, j - 1) \o g[j]
        BY <2>1, <2>2, <2>3, ConcatNext
    <2>5. PICK a \in Seq(Byte) : a = Concat(f, j)
        BY <1>5, <2>1
    <2>6. PICK b \in Seq(Byte) : b = Concat(g, k)
        BY <1>5, <2>1
    <2>7. PICK c \in Seq(Byte) : c = g[j] /\ c = f[i]
        BY <1>3, <2>1, <2>2
    <2>8. Len(a \o c) = Len(a) + Len(c) /\ Len(b \o c) = Len(b) + Len(c) /\ Len(c) \in Nat /\ Len(b) \in Nat
        BY Joined
    <2>9. PICK l \in Nat : l = Len(Concat(f, 1))
        BY <1>1, <1>5
    <2>10. Len(a) = l + Len(b)
        BY <1>7, <2>1, <2>5, <2>6, <2>9
    <2>11. Len(a \o c) = l + Len(b \o c)
        BY <2>8, <2>10
    <2> QED
        BY <2>1, <2>2, <2>4, <2>5, <2>6, <2>7, <2>9, <2>11
<1> HIDE DEF P
<1>8. Nat \subseteq P
    BY <1>6, <1>7, SetInduction
<1>9. Len(Concat(f, m)) = Len(Concat(f, 1)) + Len(Concat(g, n))
    <2>1. n \in P /\ n + 1 = m
        BY <1>1, <1>2, <1>8
    <2> QED
        BY <1>2, <2>1 DEF P
<1>10. PICK c \in Nat : c = SecretStart(s, Cardinality(s.secrets))
    BY V1Parts DEF V1Right
<1>11. PayloadStart(s, m) = c + 1 + Len(Concat(f, m)) /\ PayloadStart(s, 1) = c + 1 + Len(Concat(f, 1))
    BY <1>10 DEF PayloadStart, f
<1>12. PayloadStart(s, m) = Len(EncodeV1(s))
    BY V1Parts DEF V1Right
<1>13. PICK l \in Nat : l = Len(Concat(f, 1))
    BY <1>1, <1>5
<1>14. PICK d \in Nat : d = Len(Concat(g, n))
    BY <1>2, <1>5
<1> QED
    BY <1>4, <1>9, <1>11, <1>12, <1>13, <1>14

-----------------------------------------------------------------------------
(* What is read of what was encoded                                        *)

HeaderOf(ps, cs, e) ==
    [paths |-> ps, secrets |-> cs, encryption |-> e, nonce |-> <<>>, text |-> <<>>]
First(f, k) == {f[i] : i \in 1..k}

\* The input is s encoded: with something after it, or with its end cut off.
InputOf(s) ==
    /\ s \in Sources /\ CanEncode(s) /\ Len(EncodeV1(s)) <= UsizeMax
    /\ Alike(bytes, EncodeV1(s))
    /\ cut \in Nat
    /\ cut = 0 => Len(EncodeV1(s)) <= Len(bytes)
    /\ cut # 0 => Len(bytes) + cut = Len(EncodeV1(s))

\* The fields that are read are those of s, each where it was put, and what is
\* not cut is not refused.
HeaderRead(s) ==
    /\ stage # "idle"
    /\ stage = "refused" => cut # 0
    /\ stage = "magic" => parsed = HeaderOf({}, {}, 0)
    /\ stage = "version" => offset = Len(Magic) /\ parsed = HeaderOf({}, {}, 0)
    /\ stage = "path count" => offset = Len(Magic) + 1 /\ parsed = HeaderOf({}, {}, 0)
    /\ stage = "paths" =>
          \E k \in Nat : /\ k + left = Cardinality(s.paths) /\ offset = PathStart(s, k)
                         /\ parsed = HeaderOf(First(Listed(s.paths), k), {}, 0)
    /\ stage = "secret count" =>
          /\ offset = PathStart(s, Cardinality(s.paths)) /\ parsed = HeaderOf(s.paths, {}, 0)
    /\ stage = "secrets" =>
          \E k \in Nat : /\ k + left = Cardinality(s.secrets) /\ offset = SecretStart(s, k)
                         /\ parsed = HeaderOf(s.paths, First(Listed(s.secrets), k), 0)
    /\ stage = "encryption" =>
          /\ offset = SecretStart(s, Cardinality(s.secrets))
          /\ parsed = HeaderOf(s.paths, s.secrets, 0)
    /\ stage = "payload" =>
          offset = PayloadStart(s, 0) /\ parsed = HeaderOf(s.paths, s.secrets, s.encryption)

\* The payloads that are walked are those of s until there are no more.
PayloadsRead(s) ==
    stage \in {"lengths", "done"} =>
        /\ cut <= AppendedSize(s)
        /\ cut = 0 =>
              /\ parsed = [paths |-> s.paths, secrets |-> s.secrets, encryption |-> s.encryption,
                           nonce |-> s.payloads[1].nonce, text |-> s.payloads[1].text]
              /\ Len(lengths) <= Len(s.payloads) => offset = PayloadStart(s, Len(lengths))
              /\ \A i \in 1..Len(s.payloads) :
                    i <= Len(lengths) => lengths[i] = Len(s.payloads[i].text)
              /\ stage = "done" => Len(lengths) >= Len(s.payloads)

BackupInv == source # NoSource => InputOf(source) /\ HeaderRead(source) /\ PayloadsRead(source)

LEMMA InputIs ==
    ASSUME NEW s, InputOf(s), WireInv
    PROVE  /\ EncodeV1(s) \in Seq(Byte) /\ Len(EncodeV1(s)) \in Nat
           /\ bytes \in Seq(Byte) /\ Len(bytes) \in Nat
           /\ s \in Sources /\ CanEncode(s)
           /\ cut # 0 => Len(bytes) <= Len(EncodeV1(s))
           /\ \A o \in Nat : o < Len(bytes) /\ o < Len(EncodeV1(s)) => bytes[o + 1] = EncodeV1(s)[o + 1]
<1>1. s \in Sources /\ CanEncode(s) /\ Alike(bytes, EncodeV1(s))
    BY DEF InputOf
<1>2. EncodeV1(s) \in Seq(Byte)
    BY <1>1, V1Parts DEF V1Right
<1> DEFINE x == EncodeV1(s)
<1>3. x \in Seq(Byte) /\ Alike(bytes, x) /\ cut \in Nat /\ (cut # 0 => Len(bytes) + cut = Len(x))
    BY <1>1, <1>2 DEF InputOf
<1>4. bytes \in Seq(Byte)
    BY DEF WireInv
<1> HIDE DEF x
<1>5. Len(x) \in Nat /\ Len(bytes) \in Nat
    BY <1>3, <1>4
<1>6. cut # 0 => Len(bytes) <= Len(x)
    BY <1>3, <1>5
<1>7. ASSUME NEW o \in Nat, o < Len(bytes), o < Len(x) PROVE bytes[o + 1] = x[o + 1]
    <2>1. o + 1 \in 1..Len(bytes) /\ o + 1 \in 1..Len(x)
        BY <1>5, <1>7
    <2> QED
        BY <1>3, <2>1 DEF Alike
<1> QED
    BY <1>1, <1>3, <1>4, <1>5, <1>6, <1>7 DEF x

\* What a field is followed by is there, unless the end was cut off.
LEMMA StepRead ==
    ASSUME NEW s, InputOf(s), WireInv, NEW o \in Nat, o < Len(EncodeV1(s)), NEW next, NEW fields,
           NEW count
    PROVE  /\ Continue(next, o, fields) =>
                 \/ stage' = "refused" /\ cut # 0
                 \/ stage' = next /\ offset' = o /\ left' = 0 /\ parsed' = fields
           /\ Enter(next, count) /\ o = offset + 1 =>
                 \/ stage' = "refused" /\ cut # 0
                 \/ stage' = next /\ offset' = o /\ left' = count /\ parsed' = parsed
<1>1. Len(EncodeV1(s)) \in Nat /\ Len(bytes) \in Nat /\ Size = Len(bytes)
    BY InputIs DEF Size
<1>2. Size <= o => cut # 0
    BY <1>1 DEF InputOf
<1>3. ASSUME Continue(next, o, fields)
      PROVE  \/ stage' = "refused" /\ cut # 0
             \/ stage' = next /\ offset' = o /\ left' = 0 /\ parsed' = fields
    BY <1>2, <1>3 DEF Continue, Refuse
<1>4. ASSUME Enter(next, count), o = offset + 1
      PROVE  \/ stage' = "refused" /\ cut # 0
             \/ stage' = next /\ offset' = o /\ left' = count /\ parsed' = parsed
    BY <1>2, <1>4 DEF Enter, Refuse
<1> QED
    BY <1>3, <1>4

LEMMA CutRefused ==
    ASSUME NEW s, stage' = "refused", cut # 0, cut' = cut
    PROVE  HeaderRead(s)' /\ PayloadsRead(s)'
BY DEF HeaderRead, PayloadsRead

LEMMA MagicRead ==
    ASSUME NEW s, InputOf(s), WireInv, HeaderRead(s), ParseMagic
    PROVE  HeaderRead(s)' /\ PayloadsRead(s)'
<1> DEFINE x == EncodeV1(s)
<1>1. stage = "magic" /\ cut' = cut /\ parsed = HeaderOf({}, {}, 0)
    BY DEF ParseMagic, Unread, HeaderRead
<1>2. x \in Seq(Byte) /\ bytes \in Seq(Byte) /\ s \in Sources /\ CanEncode(s) /\ Alike(bytes, x)
    BY InputIs DEF InputOf
<1>3. Has(x, 0, Magic) /\ Len(Magic) < Len(x) /\ Magic \in Seq(Byte) /\ Len(Magic) \in Nat
    BY <1>2, V1Parts, V1Inside, WireAssumption DEF V1Right, Inside
<1> HIDE DEF x
<1>4. CASE cut = 0
    <2>1. Len(x) <= Len(bytes) /\ Len(x) \in Nat /\ Len(bytes) \in Nat
        BY <1>2, <1>4 DEF InputOf, x
    <2>2. 0 + Len(Magic) <= Len(x) /\ 0 + Len(Magic) <= Len(bytes)
        BY <1>3, <2>1
    <2>3. Alike(x, bytes)
        BY <1>2 DEF Alike
    <2>4. Has(bytes, 0, Magic)
        BY <1>2, <1>3, <2>2, <2>3, AlikeHas
    <2>5. SubSeq(bytes, 0 + 1, 0 + Len(Magic)) = Magic
        BY <1>2, <1>3, <2>4, HasSlice
    <2>6. ~(Size < Len(Magic)) /\ Slice(0, Len(Magic)) = Magic
        BY <1>3, <2>1, <2>2, <2>5 DEF Slice, Size
    <2>7. Continue("version", Len(Magic), parsed)
        BY <2>6 DEF ParseMagic
    <2>8. stage' = "version" /\ offset' = Len(Magic) /\ parsed' = parsed
        BY <1>3, <1>4, <2>7, StepRead DEF x
    <2> QED
        BY <1>1, <2>8 DEF HeaderRead, PayloadsRead
<1>5. CASE cut # 0
    <2>1. Refuse("Magic") \/ Continue("version", Len(Magic), parsed)
        BY DEF ParseMagic
    <2>2. CASE stage' = "refused"
        BY <1>1, <1>5, <2>2, CutRefused
    <2>3. CASE stage' # "refused"
        <3>1. stage' = "version" /\ offset' = Len(Magic) /\ parsed' = parsed
            BY <1>3, <2>1, <2>3, StepRead DEF Refuse, x
        <3> QED
            BY <1>1, <3>1 DEF HeaderRead, PayloadsRead
    <2> QED
        BY <2>2, <2>3
<1> QED
    BY <1>2, <1>4, <1>5 DEF InputOf

Plus(S, x) == S \cup {x}
LEMMA FirstIs ==
    ASSUME NEW f, NEW k \in Nat
    PROVE  First(f, 0) = {} /\ First(f, k + 1) = Plus(First(f, k), f[k + 1])
<1>1. 1..(k + 1) = (1..k) \cup {k + 1} /\ 1..0 = {}
    OBVIOUS
<1> QED
    BY <1>1 DEF First, Plus

WithPath(r, b) == [r EXCEPT !.paths = @ \cup {b}]
WithSecret(r, b) == [r EXCEPT !.secrets = @ \cup {b}]
WithEncryption(r, b) == [r EXCEPT !.encryption = b]
LEMMA HeaderMore ==
    ASSUME NEW a, NEW c, NEW e, NEW b
    PROVE  /\ WithPath(HeaderOf(a, c, e), b) = HeaderOf(Plus(a, b), c, e)
           /\ WithSecret(HeaderOf(a, c, e), b) = HeaderOf(a, Plus(c, b), e)
           /\ WithEncryption(HeaderOf(a, c, e), b) = HeaderOf(a, c, b)
<1> DEFINE r == HeaderOf(a, c, e)
           t == [paths |-> a, secrets |-> c, encryption |-> e, nonce |-> <<>>, text |-> <<>>]
<1>1. r = t
    BY DEF HeaderOf
<1>2. [t EXCEPT !.paths = @ \cup {b}] = HeaderOf(a \cup {b}, c, e)
    <2>1. PICK d : d = a \cup {b} /\ d = t.paths \cup {b}
        OBVIOUS
    <2>2. [t EXCEPT !.paths = d] = HeaderOf(d, c, e)
        BY DEF HeaderOf
    <2> HIDE DEF t
    <2>3. [t EXCEPT !.paths = @ \cup {b}] = [t EXCEPT !.paths = d]
        BY <2>1, Zenon
    <2> QED
        BY <2>1, <2>2, <2>3, Zenon
<1>3. [t EXCEPT !.secrets = @ \cup {b}] = HeaderOf(a, c \cup {b}, e)
    <2>1. PICK d : d = c \cup {b} /\ d = t.secrets \cup {b}
        OBVIOUS
    <2>2. [t EXCEPT !.secrets = d] = HeaderOf(a, d, e)
        BY DEF HeaderOf
    <2> HIDE DEF t
    <2>3. [t EXCEPT !.secrets = @ \cup {b}] = [t EXCEPT !.secrets = d]
        BY <2>1, Zenon
    <2> QED
        BY <2>1, <2>2, <2>3, Zenon
<1>4. [t EXCEPT !.encryption = b] = HeaderOf(a, c, b)
    BY DEF HeaderOf
<1> HIDE DEF t
<1> QED
    BY <1>1, <1>2, <1>3, <1>4, Zenon DEF WithPath, WithSecret, WithEncryption, Plus

LEMMA TurnRead ==
    ASSUME NEW s, InputOf(s), WireInv, stage \in {"paths", "secrets"}, NEW o \in Nat,
           o < Len(EncodeV1(s)), NEW next, NEW fields, Turn(next, o, fields)
    PROVE  \/ stage' = "refused" /\ cut # 0
           \/ left = 1 /\ stage' = next /\ offset' = o /\ parsed' = fields
           \/ left # 1 /\ stage' = stage /\ left' = left - 1 /\ offset' = o /\ parsed' = fields
<1>1. CASE left = 1
    <2>1. Continue(next, o, fields)
        BY <1>1 DEF Turn
    <2> QED
        BY <1>1, <2>1, StepRead
<1>2. CASE left # 1
    BY <1>2 DEF Turn
<1> QED
    BY <1>1, <1>2

LEMMA VersionRead ==
    ASSUME NEW s, InputOf(s), WireInv, HeaderRead(s), ParseVersion
    PROVE  HeaderRead(s)' /\ PayloadsRead(s)'
<1> DEFINE x == EncodeV1(s)
<1>1. stage = "version" /\ cut' = cut /\ offset = Len(Magic) /\ parsed = HeaderOf({}, {}, 0)
    BY DEF ParseVersion, Unread, HeaderRead
<1>2. s \in Sources /\ CanEncode(s)
    BY InputIs
<1>3. /\ Len(Magic) \in Nat /\ x[Len(Magic) + 1] = 1 /\ Len(Magic) < Len(x) /\ Len(Magic) + 1 < Len(x)
    BY <1>2, V1Parts, V1Inside DEF V1Right, Inside, VERSION_MAX
<1>4. offset < Len(bytes)
    BY <1>1 DEF WireInv, Headers
<1>5. At(offset) = 1
    BY <1>1, <1>3, <1>4, InputIs DEF At
<1>6. Continue("path count", offset + 1, parsed)
    <2>1. VERSION_0 = 0 /\ VERSION_MAX = 1
        BY DEF VERSION_0, VERSION_MAX
    <2>2. ~(At(offset) = VERSION_0 \/ At(offset) > VERSION_MAX)
        BY <1>5, <2>1
    <2> QED
        BY <2>2, Zenon DEF ParseVersion
<1>7. PICK o \in Nat : o = Len(Magic) + 1 /\ o = offset + 1
    BY <1>1, <1>3
<1>8. Continue("path count", o, parsed) /\ o < Len(x)
    BY <1>3, <1>6, <1>7
<1>9. \/ stage' = "refused" /\ cut # 0
      \/ stage' = "path count" /\ offset' = o /\ parsed' = parsed
    BY <1>8, StepRead
<1>10. CASE stage' = "refused"
    BY <1>1, <1>9, <1>10, CutRefused
<1>11. CASE stage' # "refused"
    <2>1. stage' = "path count" /\ offset' = Len(Magic) + 1 /\ parsed' = parsed
        BY <1>7, <1>9, <1>11
    <2> QED
        BY <1>1, <2>1 DEF HeaderRead, PayloadsRead
<1> QED
    BY <1>10, <1>11

LEMMA PathCountRead ==
    ASSUME NEW s, InputOf(s), WireInv, HeaderRead(s), ParsePathCount
    PROVE  HeaderRead(s)' /\ PayloadsRead(s)'
<1> DEFINE x == EncodeV1(s)
           np == Cardinality(s.paths)
           f == Listed(s.paths)
<1>1. stage = "path count" /\ cut' = cut /\ offset = Len(Magic) + 1 /\ parsed = HeaderOf({}, {}, 0)
    BY DEF ParsePathCount, Unread, HeaderRead
<1>2. s \in Sources /\ CanEncode(s)
    BY InputIs
<1>3. np \in Nat /\ First(f, np) = s.paths
    <2>1. np \in Byte /\ {f[i] : i \in 1..np} = s.paths
        BY <1>2, SourceParts
    <2> QED
        BY <2>1, BaseIs DEF First
<1>4. /\ Len(Magic) \in Nat /\ x[Len(Magic) + 2] = np /\ Len(Magic) + 1 < Len(x)
      /\ PathStart(s, 0) = Len(Magic) + 2 /\ PathStart(s, 0) < Len(x)
    <2>1. 0 \in 0..np
        BY <1>3
    <2> QED
        BY <1>2, <2>1, V1Parts, V1Inside DEF V1Right, Inside
<1>5. offset < Len(bytes)
    BY <1>1 DEF WireInv, Headers
<1>6. PICK q \in Nat : q = offset /\ q + 1 = Len(Magic) + 2 /\ q < Len(x)
    <2>1. PICK l \in Nat : l = Len(Magic)
        BY <1>4
    <2> HIDE DEF x
    <2>2. offset = l + 1
        BY <1>1, <2>1
    <2>3. l + 1 + 1 = Len(Magic) + 2
        BY <2>1
    <2>4. l + 1 < Len(x)
        BY <1>4, <2>1
    <2> QED
        BY <2>2, <2>3, <2>4
<1>7. At(offset) = np
    BY <1>4, <1>5, <1>6, InputIs DEF At
<1>8. PICK o \in Nat : o = PathStart(s, 0) /\ o = offset + 1 /\ o < Len(x)
    BY <1>4, <1>6
<1> HIDE DEF x, np, f
<1>9. CASE np = 0
    <2>1. Enter("secret count", np)
        BY <1>7, <1>9 DEF ParsePathCount
    <2>2. \/ stage' = "refused" /\ cut # 0
          \/ stage' = "secret count" /\ offset' = o /\ left' = np /\ parsed' = parsed
        BY <1>8, <2>1, StepRead DEF x
    <2>3. CASE stage' = "refused"
        BY <1>1, <2>2, <2>3, CutRefused
    <2>4. CASE stage' # "refused"
        <3>1. stage' = "secret count" /\ offset' = PathStart(s, np) /\ parsed' = HeaderOf({}, {}, 0)
            BY <1>1, <1>8, <1>9, <2>2, <2>4
        <3>2. s.paths = {}
            BY <1>3, <1>9, FirstIs
        <3> QED
            BY <3>1, <3>2 DEF HeaderRead, PayloadsRead, np
    <2> QED
        BY <2>3, <2>4
<1>10. CASE np # 0
    <2>1. Enter("paths", np)
        BY <1>7, <1>10 DEF ParsePathCount
    <2>2. \/ stage' = "refused" /\ cut # 0
          \/ stage' = "paths" /\ offset' = o /\ left' = np /\ parsed' = parsed
        BY <1>8, <2>1, StepRead DEF x
    <2>3. CASE stage' = "refused"
        BY <1>1, <2>2, <2>3, CutRefused
    <2>4. CASE stage' # "refused"
        <3>1. /\ stage' = "paths" /\ offset' = PathStart(s, 0) /\ 0 + left' = np
              /\ parsed' = HeaderOf(First(f, 0), {}, 0) /\ 0 \in Nat
            <4>1. First(f, 0) = {} /\ 0 \in Nat
                BY FirstIs
            <4>2. stage' = "paths" /\ offset' = o /\ left' = np /\ parsed' = parsed
                BY <2>2, <2>4
            <4>3. 0 + left' = np
                BY <1>3, <4>2
            <4>4. parsed' = HeaderOf(First(f, 0), {}, 0)
                BY <1>1, <4>1, <4>2
            <4> QED
                BY <1>8, <4>1, <4>2, <4>3, <4>4
        <3> QED
            BY <3>1 DEF HeaderRead, PayloadsRead, np, f
    <2> QED
        BY <2>3, <2>4
<1> QED
    BY <1>9, <1>10

LEMMA PathTurnRead ==
    ASSUME NEW s, InputOf(s), WireInv, HeaderRead(s), ParsePath
    PROVE  HeaderRead(s)' /\ PayloadsRead(s)'
<1> DEFINE x == EncodeV1(s)
           np == Cardinality(s.paths)
           f == Listed(s.paths)
<1>1. stage = "paths" /\ cut' = cut /\ Unread
    BY ParsePathIs DEF Unread
<1>2. PICK k \in Nat : /\ k + left = np /\ offset = PathStart(s, k)
                       /\ parsed = HeaderOf(First(f, k), {}, 0)
    BY <1>1 DEF HeaderRead
<1>3. s \in Sources /\ CanEncode(s) /\ x \in Seq(Byte) /\ bytes \in Seq(Byte) /\ Alike(bytes, x)
      /\ Len(x) \in Nat /\ Len(bytes) \in Nat
    BY InputIs DEF InputOf
<1>4. np \in Nat /\ First(f, np) = s.paths
    <2>1. np \in Byte /\ {f[j] : j \in 1..np} = s.paths
        BY <1>3, SourceParts
    <2> QED
        BY <2>1, BaseIs DEF First
<1>5. left \in Nat /\ left # 0
    BY <1>1, BaseIs DEF WireInv
<1>6. PICK i \in 1..np : i = k + 1 /\ i - 1 = k /\ i \in Nat
    <2>1. k + 1 \in 1..np /\ (k + 1) - 1 = k
        BY <1>2, <1>4, <1>5
    <2> QED
        BY <2>1
<1>7. PICK p \in Path : p = f[i] /\ Len(p) \in 1..(Base - 1)
    BY <1>3, SourceParts
<1>8. PICK d \in Seq(Byte) : d = EncodePath(p)
    BY <1>7, PathTyped
<1>9. PICK o \in Nat : /\ o = offset /\ o = PathStart(s, k) /\ Has(x, o, d)
                       /\ PathStart(s, i) = o + Len(d) /\ PathStart(s, i) < Len(x)
    <2>1. PathRight(s, x, i)
        BY <1>3, V1Parts
    <2>2. PathStart(s, i) < Len(x)
        <3>1. i \in 0..np
            BY <1>4
        <3> QED
            BY <1>3, <3>1, V1Inside DEF Inside
    <2> QED
        BY <1>2, <1>6, <1>7, <1>8, <2>1, <2>2 DEF PathRight
<1> HIDE DEF x, np, f
<1>10. o < Len(x) /\ x[o + 1] = Len(p) /\ PathEnd(x, o) = o + Len(d)
    BY <1>3, <1>7, <1>8, <1>9, PathBack
<1>11. Alike(x, bytes)
    BY <1>3 DEF Alike
<1>12. ASSUME o + Len(d) <= Len(bytes)
       PROVE  o < Len(bytes) /\ bytes[o + 1] = Len(p) /\ PathAt(bytes, o) = p
              /\ PathEnd(bytes, o) = o + Len(d) /\ PathEnd(bytes, o) <= Len(bytes)
    <2>1. Has(bytes, o, d)
        BY <1>3, <1>9, <1>11, <1>12, AlikeHas
    <2> QED
        BY <1>3, <1>7, <1>8, <2>1, PathBack
<1>13. CASE stage' = "refused"
    <2>1. cut # 0
        <3> SUFFICES ASSUME cut = 0 PROVE FALSE
            OBVIOUS
        <3>1. Len(x) <= Len(bytes)
            BY DEF InputOf, x
        <3>2. o + Len(d) <= Len(bytes)
            BY <1>3, <1>9, <3>1
        <3>3. /\ ~(Len(bytes) <= offset) /\ bytes[offset + 1] # 0
              /\ ~(Len(bytes) < PathEnd(bytes, offset))
            BY <1>3, <1>7, <1>9, <1>12, <3>2
        <3>4. Turn("secret count", PathEnd(bytes, offset),
                   [parsed EXCEPT !.paths = @ \cup {PathAt(bytes, offset)}])
            BY <3>3, ParsePathIs
        <3>5. PathEnd(bytes, offset) = PathStart(s, i)
            BY <1>9, <1>12, <3>2
        <3>6. PathEnd(bytes, offset) \in Nat /\ PathEnd(bytes, offset) < Len(EncodeV1(s))
            BY <1>8, <1>9, <3>5 DEF x
        <3>7. stage \in {"paths", "secrets"}
            BY <1>1
        <3>8. stage' # "refused"
            BY <1>1, <3>4, <3>6, <3>7, TurnRead
        <3> QED
            BY <1>13, <3>8
    <2> QED
        BY <1>1, <1>13, <2>1, CutRefused
<1>14. CASE stage' # "refused"
    <2>1. /\ offset < Len(bytes) /\ PathEnd(bytes, offset) <= Len(bytes)
          /\ Turn("secret count", PathEnd(bytes, offset),
                  [parsed EXCEPT !.paths = @ \cup {PathAt(bytes, offset)}])
        BY <1>14, ParsePathIs DEF Refuse
    <2>2. bytes[o + 1] = x[o + 1]
        BY <1>9, <1>10, <2>1, InputIs DEF x
    <2>3. PathEnd(bytes, o) = PathEnd(x, o)
        BY <2>2 DEF PathEnd
    <2>4. o + Len(d) <= Len(bytes)
        BY <1>9, <1>10, <2>1, <2>3
    <2>5. PathAt(bytes, offset) = f[k + 1] /\ PathEnd(bytes, offset) = PathStart(s, i)
        BY <1>6, <1>7, <1>9, <1>12, <2>4
    <2>6. PICK e \in Nat : e = PathStart(s, i) /\ e < Len(x)
        BY <1>8, <1>9
    <2> DEFINE fields == [parsed EXCEPT !.paths = @ \cup {PathAt(bytes, offset)}]
    <2>7. fields = HeaderOf(First(f, k + 1), {}, 0)
        <3>1. First(f, k + 1) = Plus(First(f, k), f[k + 1])
            BY FirstIs
        <3>2. PICK b : b = PathAt(bytes, offset)
            OBVIOUS
        <3>3. WithPath(parsed, b) = HeaderOf(Plus(First(f, k), b), {}, 0)
            BY <1>2, HeaderMore
        <3>4. b = f[k + 1]
            BY <2>5, <3>2
        <3> QED
            BY <3>1, <3>2, <3>3, <3>4 DEF WithPath
    <2>8. Turn("secret count", e, fields)
        BY <2>1, <2>5, <2>6
    <2> HIDE DEF fields
    <2>9. \/ left = 1 /\ stage' = "secret count" /\ offset' = e /\ parsed' = fields
          \/ left # 1 /\ stage' = stage /\ left' = left - 1 /\ offset' = e /\ parsed' = fields
        <3>1. stage \in {"paths", "secrets"}
            BY <1>1
        <3> QED
            BY <1>14, <2>6, <2>8, <3>1, TurnRead DEF x
    <2>10. CASE left = 1
        <3>1. i = np
            BY <1>2, <1>4, <1>5, <1>6, <2>10
        <3>2. /\ stage' = "secret count" /\ offset' = PathStart(s, np)
              /\ parsed' = HeaderOf(s.paths, {}, 0)
            BY <1>4, <1>6, <2>6, <2>7, <2>9, <2>10, <3>1
        <3> QED
            BY <3>2 DEF HeaderRead, PayloadsRead, np
    <2>11. CASE left # 1
        <3>1. /\ stage' = "paths" /\ offset' = PathStart(s, i) /\ i + left' = np
              /\ parsed' = HeaderOf(First(f, i), {}, 0)
            <4>1. stage' = "paths" /\ left' = left - 1 /\ offset' = e /\ parsed' = fields
                BY <1>1, <2>9, <2>11
            <4>2. i + (left - 1) = np
                BY <1>2, <1>4, <1>5, <1>6
            <4>3. fields = HeaderOf(First(f, i), {}, 0)
                BY <1>6, <2>7
            <4> QED
                BY <2>6, <4>1, <4>2, <4>3
        <3> QED
            BY <1>6, <3>1 DEF HeaderRead, PayloadsRead, np, f
    <2> QED
        BY <2>10, <2>11
<1> QED
    BY <1>13, <1>14

LEMMA SecretCountRead ==
    ASSUME NEW s, InputOf(s), WireInv, HeaderRead(s), ParseSecretCount
    PROVE  HeaderRead(s)' /\ PayloadsRead(s)'
<1> DEFINE x == EncodeV1(s)
           np == Cardinality(s.paths)
           ns == Cardinality(s.secrets)
           f == Listed(s.secrets)
<1>1. stage = "secret count" /\ cut' = cut /\ offset = PathStart(s, np)
      /\ parsed = HeaderOf(s.paths, {}, 0)
    BY DEF ParseSecretCount, Unread, HeaderRead
<1>2. s \in Sources /\ CanEncode(s)
    BY InputIs
<1>3. np \in Nat /\ ns \in Nat /\ ns # 0
    <2>1. np \in Byte /\ ns \in Byte \ {0}
        BY <1>2, SourceParts
    <2> QED
        BY <2>1, BaseIs
<1>4. /\ PathStart(s, np) \in Nat /\ PathStart(s, np) < Len(x) /\ x[PathStart(s, np) + 1] = ns
      /\ SecretStart(s, 0) = PathStart(s, np) + 1 /\ SecretStart(s, 0) < Len(x)
    <2>1. 0 \in 0..ns /\ np \in 0..np
        BY <1>3
    <2> QED
        BY <1>2, <2>1, V1Parts, V1Inside DEF V1Right, Inside
<1>5. offset < Len(bytes)
    BY <1>1 DEF WireInv, Headers
<1>6. PICK q \in Nat : q = offset /\ q = PathStart(s, np) /\ q < Len(x)
    BY <1>1, <1>4
<1>7. At(offset) = ns
    BY <1>4, <1>5, <1>6, InputIs DEF At
<1>8. PICK o \in Nat : o = SecretStart(s, 0) /\ o = offset + 1 /\ o < Len(x)
    BY <1>4, <1>6
<1> HIDE DEF x, np, ns, f
<1>9. Enter("secrets", ns)
    BY <1>3, <1>7 DEF ParseSecretCount
<1>10. \/ stage' = "refused" /\ cut # 0
       \/ stage' = "secrets" /\ offset' = o /\ left' = ns /\ parsed' = parsed
    BY <1>8, <1>9, StepRead DEF x
<1>11. CASE stage' = "refused"
    BY <1>1, <1>10, <1>11, CutRefused
<1>12. CASE stage' # "refused"
    <2>1. First(f, 0) = {} /\ 0 \in Nat
        BY FirstIs
    <2>2. stage' = "secrets" /\ offset' = SecretStart(s, 0) /\ left' = ns /\ parsed' = parsed
        BY <1>8, <1>10, <1>12
    <2>3. 0 + left' = ns
        BY <1>3, <2>2
    <2>4. parsed' = HeaderOf(s.paths, First(f, 0), 0)
        BY <1>1, <2>1, <2>2
    <2> QED
        BY <2>1, <2>2, <2>3, <2>4 DEF HeaderRead, PayloadsRead, ns, f
<1> QED
    BY <1>11, <1>12

LEMMA SecretTurnRead ==
    ASSUME NEW s, InputOf(s), WireInv, HeaderRead(s), ParseSecret
    PROVE  HeaderRead(s)' /\ PayloadsRead(s)'
<1> DEFINE x == EncodeV1(s)
           ns == Cardinality(s.secrets)
           f == Listed(s.secrets)
<1>1. stage = "secrets" /\ cut' = cut
    BY DEF ParseSecret, Unread
<1>2. PICK k \in Nat : /\ k + left = ns /\ offset = SecretStart(s, k)
                       /\ parsed = HeaderOf(s.paths, First(f, k), 0)
    BY <1>1 DEF HeaderRead
<1>3. s \in Sources /\ CanEncode(s) /\ x \in Seq(Byte) /\ bytes \in Seq(Byte) /\ Alike(bytes, x)
      /\ Len(x) \in Nat /\ Len(bytes) \in Nat
    BY InputIs DEF InputOf
<1>4. ns \in Nat /\ First(f, ns) = s.secrets
    <2>1. ns \in Byte /\ {f[j] : j \in 1..ns} = s.secrets
        BY <1>3, SourceParts
    <2> QED
        BY <2>1, BaseIs DEF First
<1>5. left \in Nat /\ left # 0
    BY <1>1, BaseIs DEF WireInv
<1>6. PICK i \in 1..ns : i = k + 1 /\ i - 1 = k /\ i \in Nat
    <2>1. k + 1 \in 1..ns /\ (k + 1) - 1 = k
        BY <1>2, <1>4, <1>5
    <2> QED
        BY <2>1
<1>7. PICK d \in Seq(Byte) : d = f[i] /\ Len(d) = SecretSize
    BY <1>3, SourceParts
<1>8. PICK w \in Nat : w = SecretSize
    BY WireAssumption
<1>9. PICK o \in Nat : /\ o = offset /\ o = SecretStart(s, k) /\ Has(x, o, d)
                       /\ SecretStart(s, i) = o + w /\ SecretStart(s, i) < Len(x)
    <2>1. SecretRight(s, x, i)
        BY <1>3, V1Parts
    <2>2. SecretStart(s, i) < Len(x)
        <3>1. i \in 0..ns
            BY <1>4
        <3> QED
            BY <1>3, <3>1, V1Inside DEF Inside
    <2> QED
        BY <1>2, <1>6, <1>7, <1>8, <2>1, <2>2 DEF SecretRight
<1>10. Alike(x, bytes)
    BY <1>3 DEF Alike
<1>11. PICK e \in Nat : e = o + w /\ e = SecretStart(s, i) /\ e < Len(x)
    BY <1>9
<1> HIDE DEF x, ns, f
<1>12. ASSUME e <= Len(bytes) PROVE Slice(offset, SecretSize) = f[k + 1]
    <2>1. Has(bytes, o, d)
        BY <1>3, <1>7, <1>8, <1>9, <1>10, <1>11, <1>12, AlikeHas
    <2>2. SubSeq(bytes, o + 1, o + Len(d)) = d
        BY <1>3, <2>1, HasSlice
    <2> QED
        BY <1>6, <1>7, <1>9, <2>2 DEF Slice
<1>13. ~(Size < offset + SecretSize) <=> e <= Len(bytes)
    BY <1>3, <1>8, <1>9, <1>11 DEF Size
<1> DEFINE fields == [parsed EXCEPT !.secrets = @ \cup {Slice(offset, SecretSize)}]
<1>14. CASE ~(e <= Len(bytes))
    <2>1. stage' = "refused"
        BY <1>13, <1>14 DEF ParseSecret, Refuse
    <2>2. cut # 0
        BY <1>3, <1>11, <1>14 DEF InputOf, x
    <2> QED
        BY <1>1, <2>1, <2>2, CutRefused
<1>15. CASE e <= Len(bytes)
    <2>1. Turn("encryption", offset + SecretSize, fields)
        BY <1>13, <1>15 DEF ParseSecret
    <2>2. fields = HeaderOf(s.paths, First(f, k + 1), 0)
        <3>1. First(f, k + 1) = Plus(First(f, k), f[k + 1])
            BY FirstIs
        <3>2. PICK b : b = Slice(offset, SecretSize)
            OBVIOUS
        <3>3. WithSecret(parsed, b) = HeaderOf(s.paths, Plus(First(f, k), b), 0)
            BY <1>2, HeaderMore
        <3>4. b = f[k + 1]
            BY <1>12, <1>15, <3>2
        <3> QED
            BY <3>1, <3>2, <3>3, <3>4 DEF WithSecret
    <2> HIDE DEF fields
    <2>3. Turn("encryption", e, fields)
        BY <1>8, <1>9, <1>11, <2>1
    <2>4. \/ stage' = "refused" /\ cut # 0
          \/ left = 1 /\ stage' = "encryption" /\ offset' = e /\ parsed' = fields
          \/ left # 1 /\ stage' = stage /\ left' = left - 1 /\ offset' = e /\ parsed' = fields
        <3>1. stage \in {"paths", "secrets"}
            BY <1>1
        <3> QED
            BY <1>11, <2>3, <3>1, TurnRead DEF x
    <2>5. CASE stage' = "refused"
        BY <1>1, <2>4, <2>5, CutRefused
    <2>6. CASE stage' # "refused" /\ left = 1
        <3>1. i = ns
            BY <1>2, <1>4, <1>5, <1>6, <2>6
        <3>2. /\ stage' = "encryption" /\ offset' = SecretStart(s, ns)
              /\ parsed' = HeaderOf(s.paths, s.secrets, 0)
            BY <1>4, <1>6, <1>11, <2>2, <2>4, <2>6, <3>1
        <3> QED
            BY <3>2 DEF HeaderRead, PayloadsRead, ns
    <2>7. CASE stage' # "refused" /\ left # 1
        <3>1. stage' = "secrets" /\ left' = left - 1 /\ offset' = e /\ parsed' = fields
            BY <1>1, <2>4, <2>7
        <3>2. i + (left - 1) = ns
            BY <1>2, <1>4, <1>5, <1>6
        <3>3. fields = HeaderOf(s.paths, First(f, i), 0)
            BY <1>6, <2>2
        <3>4. /\ stage' = "secrets" /\ offset' = SecretStart(s, i) /\ i + left' = ns
              /\ parsed' = HeaderOf(s.paths, First(f, i), 0)
            BY <1>11, <3>1, <3>2, <3>3
        <3> QED
            BY <1>6, <3>4 DEF HeaderRead, PayloadsRead, ns, f
    <2> QED
        BY <2>5, <2>6, <2>7
<1> QED
    BY <1>14, <1>15

LEMMA EncryptionRead ==
    ASSUME NEW s, InputOf(s), WireInv, HeaderRead(s), ParseEncryption
    PROVE  HeaderRead(s)' /\ PayloadsRead(s)'
<1> DEFINE x == EncodeV1(s)
           ns == Cardinality(s.secrets)
<1>1. stage = "encryption" /\ cut' = cut /\ offset = SecretStart(s, ns)
      /\ parsed = HeaderOf(s.paths, s.secrets, 0)
    BY DEF ParseEncryption, Unread, HeaderRead
<1>2. s \in Sources /\ CanEncode(s)
    BY InputIs
<1>3. ns \in Nat /\ Len(s.payloads) \in Nat \ {0} /\ s.encryption \in Byte \ {0}
    <2>1. ns \in Byte \ {0} /\ Len(s.payloads) \in Nat \ {0} /\ s.encryption \in Byte \ {0}
        BY <1>2, SourceParts
    <2> QED
        BY <2>1, BaseIs
<1>4. /\ SecretStart(s, ns) \in Nat /\ SecretStart(s, ns) < Len(x)
      /\ x[SecretStart(s, ns) + 1] = s.encryption
      /\ PayloadStart(s, 0) = SecretStart(s, ns) + 1 /\ PayloadStart(s, 0) < Len(x)
    <2>1. 0 \in 0..(Len(s.payloads) - 1) /\ ns \in 0..ns
        BY <1>3
    <2> QED
        BY <1>2, <2>1, V1Parts, V1Inside DEF V1Right, Inside
<1>5. offset < Len(bytes)
    BY <1>1 DEF WireInv, Headers
<1>6. PICK q \in Nat : q = offset /\ q = SecretStart(s, ns) /\ q < Len(x)
    BY <1>1, <1>4
<1>7. At(offset) = s.encryption
    BY <1>4, <1>5, <1>6, InputIs DEF At
<1>8. PICK o \in Nat : o = PayloadStart(s, 0) /\ o = offset + 1 /\ o < Len(x)
    BY <1>4, <1>6
<1> DEFINE fields == [parsed EXCEPT !.encryption = At(offset)]
<1>9. fields = HeaderOf(s.paths, s.secrets, s.encryption)
    <2>1. WithEncryption(parsed, At(offset)) = HeaderOf(s.paths, s.secrets, At(offset))
        BY <1>1, HeaderMore
    <2> QED
        BY <1>7, <2>1 DEF WithEncryption
<1>10. At(offset) # 0
    BY <1>3, <1>7
<1>11. Continue("payload", o, fields)
    BY <1>8, <1>10 DEF ParseEncryption
<1> HIDE DEF x, ns, fields
<1>12. \/ stage' = "refused" /\ cut # 0
       \/ stage' = "payload" /\ offset' = o /\ parsed' = fields
    BY <1>8, <1>11, StepRead DEF x
<1>13. CASE stage' = "refused"
    BY <1>1, <1>12, <1>13, CutRefused
<1>14. CASE stage' # "refused"
    <2>1. stage' = "payload" /\ offset' = PayloadStart(s, 0)
          /\ parsed' = HeaderOf(s.paths, s.secrets, s.encryption)
        BY <1>8, <1>9, <1>12, <1>14
    <2> QED
        BY <2>1 DEF HeaderRead, PayloadsRead
<1> QED
    BY <1>13, <1>14

\* Payload i, wherever all of it is in the input.
PayloadThere(s, i, o) ==
    /\ PayloadError(o) = "none" /\ CountsAsPayload(o) /\ o < Len(bytes)
    /\ Part(bytes, o, NonceSize) = s.payloads[i].nonce
    /\ Length(o).value = Len(s.payloads[i].text)
    /\ Part(bytes, TextStart(o), Length(o).value) = s.payloads[i].text
    /\ TextEnd(o) = PayloadStart(s, i)

LEMMA PayloadRead ==
    ASSUME NEW s, InputOf(s), WireInv, cut = 0, NEW i \in 1..Len(s.payloads)
    PROVE  PayloadStart(s, i - 1) \in Nat /\ PayloadThere(s, i, PayloadStart(s, i - 1))
<1> DEFINE x == EncodeV1(s)
           q == s.payloads[i]
<1>1. /\ s \in Sources /\ CanEncode(s) /\ x \in Seq(Byte) /\ bytes \in Seq(Byte) /\ Alike(x, bytes)
      /\ Len(x) \in Nat /\ Len(bytes) \in Nat /\ Len(x) <= Len(bytes) /\ Len(bytes) <= UsizeMax
    BY InputIs DEF InputOf, Alike, WireInv
<1>2. PICK n \in Seq(Byte) : n = q.nonce /\ Len(n) = NonceSize /\ n # ZeroNonce
    BY <1>1, SourceParts
<1>3. PICK t \in Seq(Byte) : t = q.text /\ t # <<>>
    BY <1>1, SourceParts
<1>4. PICK p : p = [nonce |-> n, text |-> t]
    OBVIOUS
<1>5. PICK d \in Seq(Byte) : d = EncodePayload(p) /\ d = EncodePayload(q)
    <2>1. EncodePayload(q) \in Seq(Byte)
        BY <1>1, EncodedSome
    <2>2. EncodePayload(p) = EncodePayload(q)
        BY <1>2, <1>3, <1>4 DEF EncodePayload
    <2> QED
        BY <2>1, <2>2
<1>6. PICK o \in Nat : o = PayloadStart(s, i - 1) /\ Has(x, o, d) /\ PayloadStart(s, i) = o + Len(d)
    <2>1. PayloadRight(s, x, i)
        BY <1>1, V1Parts
    <2> QED
        BY <1>5, <2>1 DEF PayloadRight
<1> HIDE DEF x
<1>7. Has(bytes, o, d)
    <2>1. o + Len(d) <= Len(x)
        BY <1>6 DEF Has
    <2>2. o + Len(d) <= Len(bytes)
        BY <1>1, <1>6, <2>1
    <2> QED
        BY <1>1, <1>6, <2>2, AlikeHas
<1>8. /\ PayloadError(o) = "none" /\ CountsAsPayload(o) /\ o < Len(bytes)
      /\ Part(bytes, o, NonceSize) = n
      /\ Length(o).value = Len(t) /\ Part(bytes, TextStart(o), Length(o).value) = t
      /\ TextEnd(o) = o + Len(EncodePayload(p))
    <2>1. Has(bytes, o, EncodePayload(p))
        BY <1>5, <1>7
    <2> QED
        BY ZenonT(60), <1>1, <1>2, <1>3, <1>4, <2>1, PayloadBack
<1> QED
    BY <1>2, <1>3, <1>5, <1>6, <1>8 DEF PayloadThere

\* Of an input whose end was cut off, decode_v1 accepts what still has the
\* whole of the first payload.
LEMMA CutPayload ==
    ASSUME NEW s, InputOf(s), WireInv, cut # 0, CountsAsPayload(PayloadStart(s, 0))
    PROVE  cut <= AppendedSize(s)
<1> DEFINE x == EncodeV1(s)
           q == s.payloads[1]
<1>1. /\ s \in Sources /\ CanEncode(s) /\ x \in Seq(Byte) /\ bytes \in Seq(Byte) /\ Alike(bytes, x)
      /\ Len(x) \in Nat /\ Len(bytes) \in Nat /\ Len(bytes) <= UsizeMax /\ Len(x) <= UsizeMax
      /\ cut \in Nat /\ Len(bytes) + cut = Len(x)
    BY InputIs DEF InputOf, WireInv
<1>2. 1 \in 1..Len(s.payloads)
    <2>1. Len(s.payloads) \in Nat \ {0}
        BY <1>1, SourceParts
    <2> QED
        BY <2>1
<1>3. PICK n \in Seq(Byte) : n = q.nonce /\ Len(n) = NonceSize
    BY <1>1, <1>2, SourceParts
<1>4. PICK t \in Seq(Byte) : t = q.text
    BY <1>1, <1>2, SourceParts
<1>5. PICK l \in Nat : l = Len(t)
    OBVIOUS
<1>6. PICK e \in Seq(Byte) : e = EncodeVarint(l)
    BY EncodeTyped
<1>7. PICK h \in Seq(Byte) : h = n \o e /\ Len(h) = NonceSize + Len(e)
    BY <1>3, Joined
<1>8. PICK d \in Seq(Byte) : d = h \o t /\ d = EncodePayload(q) /\ Len(d) = Len(h) + Len(t)
    <2>1. h \o t \in Seq(Byte) /\ Len(h \o t) = Len(h) + Len(t)
        BY Joined
    <2>2. EncodePayload(q) = n \o e \o t
        BY <1>3, <1>4, <1>5, <1>6 DEF EncodePayload
    <2>3. EncodePayload(q) = h \o t
        BY <1>7, <2>2
    <2> QED
        BY <2>1, <2>3
<1>9. PICK o \in Nat : o = PayloadStart(s, 0) /\ Has(x, o, d) /\ PayloadStart(s, 1) = o + Len(d)
    <2>1. PayloadRight(s, x, 1) /\ 1 - 1 = 0
        BY <1>1, <1>2, V1Parts
    <2> QED
        BY <1>8, <2>1 DEF PayloadRight
<1> HIDE DEF x
<1>10. PICK w \in Nat : w = NonceSize
    BY WireAssumption
<1>11. PICK p \in Nat : p = o + w
    OBVIOUS
<1>12. Has(x, p, e)
    <2>1. Has(x, o, h)
        <3>1. Has(x, o, h \o t)
            BY <1>8, <1>9
        <3>2. Has(x, o, h) /\ Has(x, o + Len(h), t)
            BY <1>1, <3>1, HasJoined
        <3> QED
            BY <3>2
    <2>2. Has(x, o, n) /\ Has(x, o + Len(n), e)
        BY <1>1, <1>7, <2>1, HasJoined
    <2> QED
        BY <1>3, <1>10, <1>11, <2>2
<1>13. l <= UsizeMax /\ Encodable(l)
    <2>1. o + Len(d) <= Len(x)
        BY <1>9 DEF Has
    <2>2. PICK a \in Nat : a = Len(h)
        OBVIOUS
    <2>3. Len(d) = a + l
        BY <1>5, <1>8, <2>2
    <2>4. l <= UsizeMax
        BY <1>1, <2>1, <2>3, UsizeEncodable
    <2> QED
        BY <2>4, UsizeEncodable
<1> DEFINE v == ParseVarint(RestAt(bytes, p))
<1>14. /\ p <= Len(bytes) /\ v = Length(o) /\ v.ok /\ v.value \in Nat /\ v.used \in Nat
       /\ TextEnd(o) = TextStart(o) + v.value /\ TextEnd(o) <= Len(bytes)
       /\ TextStart(o) = p + v.used
    <2>1. /\ Length(o).used \in Nat /\ Length(o).value \in Nat /\ Length(o).ok
          /\ o + NonceSize <= Len(bytes)
          /\ TextEnd(o) = TextStart(o) + Length(o).value
          /\ TextEnd(o) <= Len(bytes)
          /\ Length(o) = ParseVarint(RestAt(bytes, o + NonceSize))
        BY <1>1, <1>9, PayloadIs
    <2>2. o + NonceSize = p
        BY <1>10, <1>11
    <2>3. TextStart(o) = p + Length(o).used
        BY <1>10, <1>11 DEF TextStart
    <2> QED
        BY <2>1, <2>2, <2>3
<1>15. v.value = l /\ v.used = Len(e)
    <2>1. PICK b \in Seq(Byte) : b = RestAt(bytes, p)
        BY <1>1, <1>14, RestAtIs
    <2>2. v = ParseVarint(b)
        BY <2>1
    <2> HIDE DEF v
    <2>3. PICK k \in Nat : k = v.value
        BY <1>14
    <2>4. PICK c \in Seq(Byte) : c = EncodeVarint(k)
        BY EncodeTyped
    <2>5. Encodable(k) /\ v.used = Len(c) /\ Has(b, 0, c)
        BY <1>14, <2>2, <2>3, <2>4, ParseSound
    <2>6. Has(bytes, p, c)
        <3>1. Has(b, 0, c) <=> Has(bytes, p + 0, c)
            BY <1>1, <1>14, <2>1, RestAtIs
        <3> QED
            BY <2>5, <3>1
    <2>7. Has(x, p, c)
        <3>1. p + Len(c) <= Len(bytes)
            BY <2>6 DEF Has
        <3>2. p + Len(c) <= Len(x)
            BY <1>1, <3>1
        <3> QED
            BY <1>1, <2>6, <3>2, AlikeHas
    <2>8. p <= Len(x)
        BY <1>1, <1>14
    <2>9. PICK z \in Seq(Byte) : z = RestAt(x, p)
        BY <1>1, <2>8, RestAtIs
    <2>10. Has(z, 0, c) /\ Has(z, 0, e)
        <3>1. (Has(z, 0, c) <=> Has(x, p + 0, c)) /\ (Has(z, 0, e) <=> Has(x, p + 0, e))
            BY <1>1, <2>8, <2>9, RestAtIs
        <3> QED
            BY <1>12, <2>7, <3>1
    <2>11. ParseVarint(z) = [ok |-> TRUE, value |-> k, used |-> Len(EncodeVarint(k))]
        BY <2>4, <2>5, <2>10, ParseComplete
    <2>12. ParseVarint(z) = [ok |-> TRUE, value |-> l, used |-> Len(EncodeVarint(l))]
        BY <1>6, <1>13, <2>10, ParseComplete
    <2>13. k = l
        <3>1. ParseVarint(z).value = k
            BY <2>11
        <3>2. ParseVarint(z).value = l
            BY <2>12
        <3> QED
            BY <3>1, <3>2
    <2> QED
        BY <1>6, <2>3, <2>4, <2>5, <2>13
<1>16. TextEnd(o) = PayloadStart(s, 1)
    <2> HIDE DEF v
    <2>1. PICK a \in Nat : a = Len(e)
        OBVIOUS
    <2>2. TextEnd(o) = o + w + a + l
        BY <1>11, <1>14, <1>15, <2>1
    <2>3. PayloadStart(s, 1) = o + (w + a + l)
        BY <1>5, <1>7, <1>8, <1>9, <1>10, <2>1
    <2> QED
        BY <2>2, <2>3
<1>17. AppendedSize(s) = Len(x) - PayloadStart(s, 1)
    BY <1>1, AppendedIs DEF x
<1>18. PICK y \in Nat : y = PayloadStart(s, 1) /\ y <= Len(bytes)
    BY <1>8, <1>9, <1>14, <1>16
<1> QED
    BY <1>1, <1>17, <1>18

LEMMA ParsePayloadRead ==
    ASSUME NEW s, InputOf(s), WireInv, HeaderRead(s), ParsePayload
    PROVE  HeaderRead(s)' /\ PayloadsRead(s)'
<1>1. /\ stage = "payload" /\ cut' = cut /\ lengths' = lengths /\ offset = PayloadStart(s, 0)
      /\ parsed = HeaderOf(s.paths, s.secrets, s.encryption) /\ lengths = <<>>
    BY ParsePayloadIs DEF HeaderRead, Unread, WireInv
<1>2. 1 \in 1..Len(s.payloads) /\ Len(s.payloads) \in Nat /\ cut \in Nat /\ 1 - 1 = 0
    <2>1. Len(s.payloads) \in Nat \ {0}
        BY InputIs, SourceParts
    <2> QED
        BY <2>1 DEF InputOf
<1>3. AppendedSize(s) \in Nat
    <2>1. s \in Sources /\ CanEncode(s) /\ Len(EncodeV1(s)) \in Nat
        BY InputIs
    <2>2. PICK c \in Nat : c = PayloadStart(s, 1) /\ c <= Len(EncodeV1(s))
        <3>1. PICK d \in Seq(Byte) : d = EncodePayload(s.payloads[1])
            BY <1>2, <2>1, EncodedSome
        <3>2. PayloadRight(s, EncodeV1(s), 1)
            BY <1>2, <2>1, V1Parts
        <3>3. PICK o \in Nat : /\ o = PayloadStart(s, 0) /\ Has(EncodeV1(s), o, d)
                               /\ PayloadStart(s, 1) = o + Len(d)
            BY <1>2, <3>1, <3>2 DEF PayloadRight
        <3>4. o + Len(d) <= Len(EncodeV1(s))
            BY <3>3 DEF Has
        <3> QED
            BY <3>3, <3>4
    <2>3. AppendedSize(s) = Len(EncodeV1(s)) - c
        BY <2>1, <2>2, AppendedIs
    <2> QED
        BY <2>1, <2>2, <2>3
<1>4. CASE PayloadError(offset) # "none"
    <2>1. stage' = "refused"
        BY <1>4, ParsePayloadIs DEF Refuse
    <2>2. cut # 0
        <3> SUFFICES ASSUME cut = 0 PROVE FALSE
            OBVIOUS
        <3>1. PayloadThere(s, 1, PayloadStart(s, 1 - 1))
            BY <1>2, PayloadRead
        <3>2. PayloadStart(s, 1 - 1) = offset
            BY <1>1, <1>2
        <3> QED
            BY <1>4, <3>1, <3>2 DEF PayloadThere
    <2> QED
        BY <1>1, <2>1, <2>2, CutRefused
<1>5. CASE PayloadError(offset) = "none"
    <2>1. /\ stage' = "lengths" /\ offset' = offset /\ CountsAsPayload(offset)
          /\ parsed' = [parsed EXCEPT !.nonce = Part(bytes, offset, NonceSize),
                                      !.text = Part(bytes, TextStart(offset), Length(offset).value)]
        BY <1>5, ParsePayloadIs
    <2>2. HeaderRead(s)'
        BY <2>1 DEF HeaderRead
    <2>3. CASE cut # 0
        <3>1. cut <= AppendedSize(s)
            BY <1>1, <2>1, <2>3, CutPayload
        <3> QED
            BY <1>1, <2>1, <2>2, <2>3, <3>1 DEF PayloadsRead
    <2>4. CASE cut = 0
        <3>1. PayloadThere(s, 1, offset)
            <4>1. PayloadThere(s, 1, PayloadStart(s, 1 - 1))
                BY <1>2, <2>4, PayloadRead
            <4>2. PayloadStart(s, 1 - 1) = offset
                BY <1>1, <1>2
            <4> QED
                BY <4>1, <4>2
        <3>2. parsed' = [parsed EXCEPT !.nonce = s.payloads[1].nonce, !.text = s.payloads[1].text]
            BY <2>1, <3>1 DEF PayloadThere
        <3>3. parsed' = [paths |-> s.paths, secrets |-> s.secrets, encryption |-> s.encryption,
                         nonce |-> s.payloads[1].nonce, text |-> s.payloads[1].text]
            BY <1>1, <3>2 DEF HeaderOf
        <3>4. lengths' = <<>> /\ Len(lengths') = 0 /\ offset' = PayloadStart(s, 0) /\ cut' = 0
              /\ stage' # "done"
            BY <1>1, <2>1, <2>4
        <3>5. cut' <= AppendedSize(s)
            BY <1>3, <3>4
        <3>6. offset' = PayloadStart(s, Len(lengths'))
            BY <3>4
        <3>7. \A i \in 1..Len(s.payloads) : ~(i <= Len(lengths'))
            BY <3>4
        <3> QED
            BY <2>2, <3>3, <3>4, <3>5, <3>6, <3>7 DEF PayloadsRead
    <2> QED
        BY <2>3, <2>4
<1> QED
    BY <1>4, <1>5

LEMMA WalkRead ==
    ASSUME NEW s, InputOf(s), WireInv, PayloadsRead(s), WalkPayload \/ WalkEnds
    PROVE  HeaderRead(s)' /\ PayloadsRead(s)'
<1>1. /\ stage = "lengths" /\ cut' = cut /\ parsed' = parsed /\ cut <= AppendedSize(s)
      /\ lengths \in Seq(Nat) /\ cut \in Nat
    BY DEF WalkPayload, WalkEnds, PayloadsRead, WireInv, InputOf
<1>2. PICK m \in Nat : m = Len(s.payloads)
    <2>1. Len(s.payloads) \in Nat
        BY InputIs, SourceParts
    <2> QED
        BY <2>1
<1>3. PICK k \in Nat : k = Len(lengths)
    BY <1>1
<1>4. cut = 0 =>
          /\ parsed = [paths |-> s.paths, secrets |-> s.secrets, encryption |-> s.encryption,
                       nonce |-> s.payloads[1].nonce, text |-> s.payloads[1].text]
          /\ k <= m => offset = PayloadStart(s, k)
          /\ \A i \in 1..m : i <= k => lengths[i] = Len(s.payloads[i].text)
    BY <1>1, <1>2, <1>3 DEF PayloadsRead
<1>5. ASSUME cut = 0, k < m
      PROVE  PayloadThere(s, k + 1, offset)
    <2>1. PICK i \in 1..m : i = k + 1 /\ i - 1 = k
        <3>1. k + 1 \in 1..m /\ (k + 1) - 1 = k
            BY <1>5
        <3> QED
            BY <3>1
    <2>2. PayloadThere(s, i, PayloadStart(s, i - 1))
        BY <1>2, <1>5, <2>1, PayloadRead
    <2>3. offset = PayloadStart(s, i - 1)
        BY <1>4, <1>5, <2>1
    <2> QED
        BY <2>1, <2>2, <2>3
<1>6. CASE WalkPayload
    <2>1. /\ lengths' = Append(lengths, Length(offset).value) /\ offset' = TextEnd(offset)
          /\ stage' = "lengths" /\ CountsAsPayload(offset)
        BY <1>1, <1>6 DEF WalkPayload
    <2>2. PICK n \in Nat : n = Length(offset).value
        BY <2>1, PayloadIs DEF WireInv
    <2>3. /\ Len(lengths') = k + 1 /\ lengths'[k + 1] = n
          /\ \A i \in 1..k : lengths'[i] = lengths[i]
        BY <1>1, <1>3, <2>1, <2>2
    <2>4. HeaderRead(s)'
        BY <2>1 DEF HeaderRead
    <2>5. CASE cut # 0
        BY <1>1, <2>1, <2>4, <2>5 DEF PayloadsRead
    <2>6. CASE cut = 0
        <3>1. k + 1 <= m => offset' = PayloadStart(s, k + 1)
            BY <1>5, <2>1, <2>6 DEF PayloadThere
        <3>2. ASSUME NEW i \in 1..m, i <= k + 1 PROVE lengths'[i] = Len(s.payloads[i].text)
            <4>1. CASE i = k + 1
                <5>1. PayloadThere(s, k + 1, offset)
                    BY <1>5, <2>6, <4>1
                <5> QED
                    BY <2>2, <2>3, <4>1, <5>1 DEF PayloadThere
            <4>2. CASE i # k + 1
                <5>1. i <= k /\ i \in 1..k
                    BY <3>2, <4>2
                <5> QED
                    BY <1>4, <2>3, <2>6, <5>1
            <4> QED
                BY <4>1, <4>2
        <3> QED
            BY <1>1, <1>2, <1>4, <2>1, <2>3, <2>4, <2>6, <3>1, <3>2 DEF PayloadsRead
    <2> QED
        BY <2>5, <2>6
<1>7. CASE WalkEnds
    <2>1. offset' = offset /\ lengths' = lengths
        BY <1>7 DEF WalkEnds
    <2>2. lengths # <<>>
        <3>1. SUFFICES ASSUME lengths = <<>> PROVE FALSE
            OBVIOUS
        <3>2. PayloadError(offset) = "none"
            BY <1>1, <3>1 DEF WireInv
        <3>3. CountsAsPayload(offset) /\ offset < Size
            BY <3>2, PayloadIs DEF Size, WireInv
        <3> QED
            BY <1>7, <3>3 DEF WalkEnds
    <2>3. stage' = "done"
        BY <1>7, <2>2 DEF WalkEnds
    <2>4. HeaderRead(s)'
        BY <2>3 DEF HeaderRead
    <2>5. cut = 0 => k >= m
        <3> SUFFICES ASSUME cut = 0, k < m PROVE FALSE
            BY <1>2, <1>3
        <3>1. CountsAsPayload(offset) /\ offset < Size
            BY <1>5 DEF PayloadThere, Size
        <3> QED
            BY <1>7, <3>1 DEF WalkEnds
    <2> QED
        BY <1>1, <1>2, <1>3, <1>4, <2>1, <2>3, <2>4, <2>5 DEF PayloadsRead
<1> QED
    BY <1>6, <1>7

LEMMA AlikeStart ==
    ASSUME NEW x \in Seq(Byte), NEW t \in Seq(Byte), NEW m \in Nat, m <= Len(x),
           t # <<>> => m = Len(x)
    PROVE  /\ SubSeq(x, 1, m) \o t \in Seq(Byte) /\ Len(SubSeq(x, 1, m) \o t) = m + Len(t)
           /\ Alike(SubSeq(x, 1, m) \o t, x)
<1>1. PICK a \in Seq(Byte) : a = SubSeq(x, 1, m) /\ Len(a) = m /\ \A i \in 1..m : a[i] = x[i]
    <2>1. SubSeq(x, 0 + 1, 0 + m) \in Seq(Byte) /\ Len(SubSeq(x, 0 + 1, 0 + m)) = m
          /\ \A i \in 1..m : SubSeq(x, 0 + 1, 0 + m)[i] = x[0 + i]
        BY Sliced
    <2>2. 0 + 1 = 1 /\ 0 + m = m /\ \A i \in 1..m : 0 + i = i
        OBVIOUS
    <2> QED
        BY <2>1, <2>2
<1>2. a \o t \in Seq(Byte) /\ Len(a \o t) = m + Len(t) /\ \A i \in 1..m : (a \o t)[i] = a[i]
    BY <1>1
<1>3. ASSUME NEW i \in 1..Len(a \o t), i \in 1..Len(x) PROVE (a \o t)[i] = x[i]
    <2>1. i \in 1..m
        <3>1. CASE t = <<>>
            BY <1>2, <1>3, <3>1
        <3>2. CASE t # <<>>
            BY <1>3, <3>2
        <3> QED
            BY <3>1, <3>2
    <2> QED
        BY <1>1, <1>2, <2>1
<1> QED
    BY <1>1, <1>2, <1>3 DEF Alike

LEMMA BackupInvStart ==
    ASSUME WireInit \/ WireIdle
    PROVE  BackupInv
<1> SUFFICES ASSUME source # NoSource PROVE BackupInv
    BY DEF BackupInv
<1>1. PICK s \in Sources, t \in Trailers :
          /\ CanEncode(s) /\ Len(EncodeV1(s)) <= UsizeMax
          /\ \E n \in 0..Len(EncodeV1(s)) :
                /\ n # 0 => t = <<>>
                /\ source = s /\ cut = n
                /\ bytes = SubSeq(EncodeV1(s), 1, Len(EncodeV1(s)) - n) \o t
    BY DEF WireInit, WireIdle
<1> DEFINE x == EncodeV1(s)
<1>2. x \in Seq(Byte) /\ t \in Seq(Byte)
    BY <1>1, V1Parts, WireAssumption DEF V1Right
<1>3. stage = "magic" /\ parsed = NothingParsed
    BY DEF WireInit, WireIdle
<1> HIDE DEF x
<1>4. PICK n \in 0..Len(x) : /\ n # 0 => t = <<>>
                             /\ source = s /\ cut = n
                             /\ bytes = SubSeq(x, 1, Len(x) - n) \o t
    BY <1>1 DEF x
<1>5. PICK l \in Nat : l = Len(x)
    BY <1>2
<1>6. n \in Nat /\ n <= l
    BY <1>4, <1>5
<1>7. PICK m \in Nat : m = Len(x) - n /\ m + n = l /\ m <= l /\ (n = 0 => m = l)
    <2>1. PICK c \in Nat : c = n
        BY <1>6
    <2>2. l - c \in Nat /\ (l - c) + c = l /\ l - c <= l /\ (c = 0 => l - c = l)
        BY <1>6, <2>1
    <2> QED
        BY <1>5, <2>1, <2>2
<1>8. /\ Len(bytes) = m + Len(t) /\ Alike(bytes, x)
    <2>1. t # <<>> => m = Len(x)
        BY <1>4, <1>5, <1>7
    <2>2. m <= Len(x)
        BY <1>5, <1>7
    <2>3. bytes = SubSeq(x, 1, m) \o t
        BY <1>4, <1>7
    <2> QED
        BY <1>2, <2>1, <2>2, <2>3, AlikeStart
<1>9. cut \in Nat /\ (cut = 0 => Len(x) <= Len(bytes)) /\ (cut # 0 => Len(bytes) + cut = Len(x))
    <2>1. PICK k \in Nat : k = Len(t)
        BY <1>2
    <2>2. n # 0 => k = 0
        BY <1>4, <2>1
    <2>3. PICK c \in Nat : c = n
        BY <1>6
    <2>4. Len(x) = l /\ Len(bytes) = m + k /\ cut = c
        BY <1>4, <1>5, <1>8, <2>1, <2>3
    <2>5. m + c = l /\ (c = 0 => m = l) /\ (c # 0 => k = 0)
        BY <1>7, <2>2, <2>3
    <2>6. (c = 0 => l <= m + k) /\ (c # 0 => (m + k) + c = l)
        BY <2>5
    <2> QED
        BY <2>4, <2>6
<1>10. InputOf(s)
    BY <1>1, <1>8, <1>9 DEF InputOf, x
<1>11. HeaderRead(s) /\ PayloadsRead(s)
    <2>1. parsed = HeaderOf({}, {}, 0)
        BY <1>3 DEF NothingParsed, HeaderOf
    <2> QED
        BY <1>3, <2>1 DEF HeaderRead, PayloadsRead
<1> QED
    BY <1>4, <1>10, <1>11 DEF BackupInv

LEMMA BackupInvKept ==
    ASSUME WireInv, BackupInv, WireStep \/ UNCHANGED wireVars
    PROVE  BackupInv'
<1>1. bytes' = bytes /\ source' = source /\ cut' = cut
    <2>1. CASE UNCHANGED wireVars
        BY <2>1 DEF wireVars
    <2>2. CASE WireStep
        <3>1. ASSUME Unread PROVE bytes' = bytes /\ source' = source /\ cut' = cut
            BY <3>1 DEF Unread
        <3>2. Unread \/ WalkPayload \/ WalkEnds
            BY <2>2 DEF WireStep, ParseMagic, ParseVersion, ParsePathCount, ParsePath,
                        ParseSecretCount, ParseSecret, ParseEncryption, ParsePayload
        <3> QED
            BY <3>1, <3>2 DEF WalkPayload, WalkEnds
    <2> QED
        BY <2>1, <2>2
<1> SUFFICES ASSUME source # NoSource PROVE BackupInv'
    BY <1>1 DEF BackupInv
<1>2. PICK s : s = source
    OBVIOUS
<1>3. InputOf(s) /\ HeaderRead(s) /\ PayloadsRead(s)
    BY <1>2 DEF BackupInv
<1>4. InputOf(s)'
    BY <1>1, <1>3 DEF InputOf
<1>5. HeaderRead(s)' /\ PayloadsRead(s)'
    <2>1. CASE UNCHANGED wireVars
        <3>1. /\ stage' = stage /\ offset' = offset /\ left' = left /\ parsed' = parsed
              /\ lengths' = lengths
            BY <2>1 DEF wireVars
        <3>2. cut' = cut
            BY <1>1
        <3>3. HeaderRead(s)'
            BY <1>3, <3>1, <3>2 DEF HeaderRead
        <3>4. PayloadsRead(s)'
            BY <1>3, <3>1, <3>2 DEF PayloadsRead
        <3> QED
            BY <3>3, <3>4
    <2>2. CASE WireStep
        BY <1>3, <2>2, MagicRead, VersionRead, PathCountRead, PathTurnRead, SecretCountRead,
           SecretTurnRead, EncryptionRead, ParsePayloadRead, WalkRead DEF WireStep
    <2> QED
        BY <2>1, <2>2
<1> QED
    BY <1>1, <1>2, <1>4, <1>5 DEF BackupInv

LEMMA BackupWhole ==
    ASSUME WireInv, BackupInv
    PROVE  BackupOrRefusal
<1> SUFFICES ASSUME source # NoSource PROVE BackupOrRefusal
    BY DEF BackupOrRefusal
<1>1. PICK s : s = source
    OBVIOUS
<1>2. InputOf(s) /\ HeaderRead(s) /\ PayloadsRead(s)
    BY <1>1 DEF BackupInv
<1>3. stage \in {"lengths", "done"} => cut <= AppendedSize(s)
    BY <1>2 DEF PayloadsRead
<1>4. ASSUME cut = 0 PROVE ReadsBack
    <2>1. stage # "refused"
        BY <1>2, <1>4 DEF HeaderRead
    <2>2. ASSUME stage = "done"
          PROVE  /\ parsed = [paths |-> s.paths, secrets |-> s.secrets, encryption |-> s.encryption,
                              nonce |-> s.payloads[1].nonce, text |-> s.payloads[1].text]
                 /\ Len(lengths) >= Len(s.payloads)
                 /\ \A i \in DOMAIN s.payloads : lengths[i] = Len(s.payloads[i].text)
        <3>1. DOMAIN s.payloads = 1..Len(s.payloads)
            BY <1>2, InputIs, SourceParts
        <3>2. PICK m \in Nat : m = Len(s.payloads)
            BY <1>2, InputIs, SourceParts
        <3>3. PICK k \in Nat : k = Len(lengths)
            BY DEF WireInv
        <3>4. k >= m /\ \A i \in 1..m : i <= k => lengths[i] = Len(s.payloads[i].text)
            BY <1>2, <1>4, <2>2, <3>2, <3>3 DEF PayloadsRead
        <3>5. \A i \in 1..m : lengths[i] = Len(s.payloads[i].text)
            <4>1. \A i \in 1..m : i <= k
                BY <3>4
            <4> QED
                BY <3>4, <4>1
        <3> QED
            BY <1>2, <1>4, <2>2, <3>1, <3>2, <3>3, <3>4, <3>5 DEF PayloadsRead
    <2> QED
        BY <1>1, <2>1, <2>2 DEF ReadsBack
<1> QED
    BY <1>1, <1>3, <1>4 DEF BackupOrRefusal

LEMMA BackupInvAlways == DecodersSpec => [](WireInv /\ BackupInv)
<1>1. DecodersInit => BackupInv
    BY WireStarts, BackupInvStart
<1>2. WireInv /\ BackupInv /\ [DecodersNext]_decodersVars => BackupInv'
    BY WireSteps, BackupInvKept
<1> QED
    BY <1>1, <1>2, WireInvAlways, PTL DEF DecodersSpec

\* What encode_v1 wrote, decode_v1 reads back whatever bytes follow it, and the
\* walk of inspect counts every payload that is there; a backup that lost its
\* end is refused, unless only appended payloads are affected.
THEOREM BackupOrRefusalCorrect == DecodersSpec => []BackupOrRefusal
BY BackupInvAlways, BackupWhole, PTL
=============================================================================
