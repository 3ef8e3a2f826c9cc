-------------------------- MODULE MCEncryptedBackup --------------------------
(* Small instance of EncryptedBackup: a and a2 share an x coordinate, one     *)
(* descriptor puts a's other parity and c on chain, one payload has no        *)
(* content type.                                                              *)
EXTENDS EncryptedBackup

CONSTANTS a, a2, b, c, nums, p, q, r

MCPublicKeys == {a, a2, b, c, nums}
MCXOnly == [k \in MCPublicKeys |-> CASE k \in {a, a2} -> "xa" [] k = b -> "xb" [] k = c -> "xc"
                                        [] k = nums -> "xn"]
MCOriginPath == [k \in MCPublicKeys |-> IF k \in {c, nums} THEN q ELSE p]
MCContents == {"Unknown", "Bip380", "Bip329", "String"}
MCParsed == [x \in MCContents |-> CASE x = "Bip329" -> "none" [] x = "String" -> "error"
                                    [] OTHER -> "value"]

Expr(is, k, derived, o) == [is |-> is, root |-> k, derived |-> derived, origin |-> o]
Derived(k, o) == Expr("xpub", k, TRUE, o)

both == [content |-> "Bip380", data |-> "a/*,c/*,nums/*",
         expressions |-> {Derived(a, p), Derived(c, q), Derived(nums, r)}]
bare == [content |-> "Bip380", data |-> "a2,a/*,c",
         expressions |-> {Expr("literal", a2, FALSE, NoOrigin), Derived(a, p),
                          Expr("xpub", c, FALSE, r)}]
labels == [content |-> "Bip329", data |-> "labels", expressions |-> {Derived(b, p)}]
raw == [content |-> "Unknown", data |-> "raw", expressions |-> {}]

MCPayloads == {both, bare, labels, raw}
\* of version 0; sealed to a, but not what this crate writes; in another encryption
Other(format, encryption, decodes, to, ps) ==
    [format |-> format, encryption |-> encryption, decodes |-> decodes, padding |-> "None", to |-> to,
     paths |-> ps, items |-> <<<<"Bip380", "other">>>>, warnings |-> {}]
MCForeign == {Other("V0", "AesGcm256", TRUE, {"xb"}, {}), Other("V0", "AesGcm256", FALSE, {"xa"}, {}),
              Other("V1", "ChaCha20Poly1305", FALSE, {"xa", "xb"}, {r}),
              Other("V1", "AesGcm256", TRUE, {"xb"}, {r})}
MCKeySets == {{a2, b}, {nums}, {b}}
MCPathSets == {{p}}
=============================================================================
