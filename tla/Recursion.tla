------------------------------- MODULE Recursion -------------------------------
(***************************************************************************)
(* The recursive functions on sequences that several modules use.  The     *)
(* code has loops in their place, which append to a vector.                *)
(***************************************************************************)
EXTENDS Naturals, Sequences

\* f[1] \o ... \o f[n]
Concat(f, n) == LET join[i \in 0..n] == IF i = 0 THEN <<>> ELSE join[i - 1] \o f[i]
                IN  join[n]

\* the part of s at the positions in where
Filtered(s, where) ==
    LET part[i \in 0..Len(s)] ==
            IF i = 0 THEN <<>>
            ELSE IF i \in where THEN Append(part[i - 1], s[i]) ELSE part[i - 1]
    IN  part[Len(s)]
=============================================================================
