-------------------------------- MODULE Varint --------------------------------
(***************************************************************************)
(* Compact integers (bip138-ll/src/varint.rs) over a scaled alphabet: a    *)
(* byte is a number below Base and the last three mark wider integers, as  *)
(* 0xFD, 0xFE and 0xFF do with Base = 256.                                 *)
(***************************************************************************)
EXTENDS Recursion

CONSTANTS
    Base,         \* number of byte values
    UsizeMax      \* largest usize

Byte == 0..(Base - 1)

\* marker byte of an integer of w bytes
Marker(w) == CASE w = 2 -> Base - 3 [] w = 4 -> Base - 2 [] w = 8 -> Base - 1
\* the smallest integer that needs w bytes after the marker
Smallest(w) == CASE w = 2 -> Base - 3 [] w = 4 -> Base * Base [] w = 8 -> Base * Base * Base * Base

\* a usize has at most eight bytes
ASSUME VarintAssumption ==
    /\ Base \in Nat /\ Base > 8
    /\ UsizeMax \in Nat /\ UsizeMax < Smallest(8) * Smallest(8)

\* n without its i lowest bytes
Shifted(n, i) == LET f[j \in 0..i] == IF j = 0 THEN n ELSE f[j - 1] \div Base IN f[i]
LittleEndian(n, w) == [i \in 1..w |-> Shifted(n, i - 1) % Base]
\* from the last byte to the first
FromLittleEndian(s) ==
    LET value[i \in 0..Len(s)] ==
            IF i = 0 THEN 0 ELSE value[i - 1] * Base + s[Len(s) + 1 - i]
    IN  value[Len(s)]

EncodeVarint(n) ==
    IF n < Smallest(2) THEN <<n>>
    ELSE LET w == CHOOSE x \in {2, 4, 8} :
                     Smallest(x) <= n /\ \A y \in {2, 4, 8} : Smallest(y) <= n => y <= x
         IN  <<Marker(w)>> \o LittleEndian(n, w)

NoVarint == [ok |-> FALSE, value |-> 0, used |-> 0]

\* mutant: an integer may be longer than it need be
ParseAnyVarint(s) ==
    IF s = <<>> THEN NoVarint
    ELSE IF s[1] < Marker(2) THEN [ok |-> TRUE, value |-> s[1], used |-> 1]
    ELSE LET w == CHOOSE x \in {2, 4, 8} : s[1] = Marker(x)
         IN  IF Len(s) < 1 + w THEN NoVarint
             ELSE [ok |-> TRUE, value |-> FromLittleEndian(SubSeq(s, 2, 1 + w)), used |-> 1 + w]
\* a short buffer and an integer that is longer than it need be are refused
ParseVarint(s) ==
    IF s = <<>> THEN NoVarint
    ELSE IF s[1] < Marker(2) THEN [ok |-> TRUE, value |-> s[1], used |-> 1]
    ELSE LET w == CHOOSE x \in {2, 4, 8} : s[1] = Marker(x)
             value == FromLittleEndian(SubSeq(s, 2, 1 + w))
         IN  IF Len(s) < 1 + w \/ value < Smallest(w) THEN NoVarint
             ELSE [ok |-> TRUE, value |-> value, used |-> 1 + w]
=============================================================================
