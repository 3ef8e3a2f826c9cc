----------------------------- MODULE MCDocuments -----------------------------
(* Small instance of BackupDocuments: three keys, one of them NUMS, and one   *)
(* more that shares a's x coordinate; descriptors of up to three expressions, *)
(* with suffixes that BIP388 writes in each of its ways and two that it       *)
(* cannot write; hand-made documents that validate refuses or does not see.   *)
EXTENDS BackupDocuments

CONSTANTS a, a2, b, nums, p, q, archived, none

MCPublicKeys == {a, a2, b, nums}
MCXOnly == [k \in MCPublicKeys |-> CASE k \in {a, a2} -> "xa" [] k = b -> "xb" [] k = nums -> "xn"]
MCContents == {"Unknown", "String", "Bip380", "Bip388", "Bip329"}
MCParsed == [c \in MCContents |-> IF c = "Bip329" THEN "none" ELSE "value"]

A == [key |-> a, origin |-> p]
A2 == [key |-> a2, origin |-> NoOrigin]
B == [key |-> b, origin |-> q]
Nums == [key |-> nums, origin |-> NoOrigin]
MCRoots == {A, A2, B, Nums}

S(ps, w) == [paths |-> ps, wildcard |-> w]
Both == S(<<<<0>>, <<1>>>>, "unhardened")
BothHard == S(<<<<0>>, <<1>>>>, "hardened")
Swapped == S(<<<<1>>, <<0>>>>, "unhardened")
One == S(<<<<1, 0>>>>, "unhardened")
Any == S(<<<<>>>>, "unhardened")
Prefixed == S(<<<<0, 0>>, <<0, 1>>>>, "unhardened")
Fixed == S(<<<<0>>>>, "none")

X(root, s) == [is |-> "xpub", root |-> root, suffix |-> s]
Literal(root) == [is |-> "literal", root |-> root, suffix |-> NoSuffix]

MCDescriptors == {
    <<X(A, Both), X(B, Both), X(A, Swapped)>>, <<X(Nums, Both), X(A, BothHard)>>,
    <<X(B, One), X(A2, One), X(A, One)>>, <<X(A, Any)>>, <<X(B, Prefixed)>>,
    <<X(B, One), X(A, Fixed)>>, <<X(A, One), Literal(B)>>}

Holder(i, s) == [index |-> i, suffix |-> s]
Set(ks, t, meta) == [keys |-> ks, policy |-> TemplateText(t), meta |-> meta]
Entries == <<X(A, NoSuffix), X(B, NoSuffix)>>
WithChange(d, cs) == [descriptor |-> d, change |-> cs]

MCHandMade == {
    \* an entry that no placeholder uses and one with a suffix, which is ignored
    PolicyBackup(1, <<Set(<<X(A, Fixed), X(B, NoSuffix)>>, <<Holder(0, One)>>, none)>>),
    \* refused: no wildcard, wrong order, a literal entry, wrong version
    PolicyBackup(1, <<Set(Entries, <<Holder(0, One), Holder(1, NoSuffix)>>, archived)>>),
    PolicyBackup(1, <<Set(Entries, <<Holder(1, Both), Holder(0, Both)>>, none)>>),
    PolicyBackup(1, <<Set(<<X(A, NoSuffix), Literal(B)>>, <<Holder(0, Both)>>, none)>>),
    PolicyBackup(2, <<Set(Entries, <<Holder(0, Both)>>, none)>>),
    DescriptorBackup(1, <<WithChange(<<X(A, One), X(B, Fixed)>>, <<<<X(A, Fixed), X(B, One)>>>>),
                          WithChange(<<X(Nums, Both), X(A, Both)>>, <<>>)>>),
    \* does not parse again
    DescriptorBackup(1, <<WithChange(<<X(A, Both)>>, <<<<X(B, One)>>>>)>>),
    BareDescriptor(<<X(A2, NoSuffix), X(B, Both)>>),
    BareDescriptor(<<Literal(B), X(A, Any)>>)}
=============================================================================
