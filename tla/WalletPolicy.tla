----------------------------- MODULE WalletPolicy -----------------------------
(***************************************************************************)
(* A descriptor as a BIP388 wallet policy and back                         *)
(* (src/backend/rust_miniscript/wallet_policy.rs).  A policy is a template *)
(* with a placeholder @i for each key expression and the vector of the     *)
(* roots that the placeholders stand for.                                  *)
(*                                                                         *)
(* A descriptor is the sequence of its key expressions as for_each_key     *)
(* visits them; what stands around them does not change.  from_descriptor  *)
(* is a state machine with one key expression per step, since it numbers   *)
(* the roots in one pass and translates in another, which miniscript 12    *)
(* makes from left to right and miniscript 13 from right to left.          *)
(***************************************************************************)
EXTENDS Integers, Sequences

CONSTANTS
    Roots,        \* an origin and an extended key
    Steps,        \* the steps of a derivation path
    Receive, Change,   \* the two steps of the default multipath
    Descriptors   \* the descriptors that are converted

VARIABLES
    backwards,    \* miniscript 13: translate_pk goes from right to left
    descriptor,   \* what is converted
    stage,        \* control state of from_descriptor
    at,           \* position in the descriptor
    keys,         \* the key information vector so far
    template      \* the placeholders so far

convertVars == <<backwards, descriptor, stage, at, keys, template>>

Wildcards == {"none", "unhardened", "hardened"}
Path == Seq(Steps)
\* one path, or several for a multipath expression, and what follows them
Suffix == [paths : Seq(Path) \ {<<>>}, wildcard : Wildcards]
KeyExpression == [is : {"xpub", "literal"}, root : Roots, suffix : Suffix]
Placeholder == [index : Nat, suffix : Suffix]

ASSUME PolicyAssumption ==
    /\ Receive \in Steps /\ Change \in Steps /\ Receive # Change
    /\ Descriptors \subseteq Seq(KeyExpression)

NoSuffix == [paths |-> <<<<>>>>, wildcard |-> "none"]
Untranslated == [index |-> -1, suffix |-> NoSuffix]

-----------------------------------------------------------------------------
(* The key information vector                                              *)

\* key_root: a literal key has none
HasRoot(e) == e.is = "xpub"
KeyRoot(e) == [is |-> "xpub", root |-> e.root, suffix |-> NoSuffix]

InVector(ks, k) == \E i \in DOMAIN ks : ks[i] = k
PositionOf(ks, k) == CHOOSE i \in DOMAIN ks : ks[i] = k /\ \A j \in 1..(i - 1) : ks[j] # k
WithRoot(ks, k) == IF InVector(ks, k) THEN ks ELSE Append(ks, k)

\* mutant: the roots are only found while translating
RootNotIndexed(ks, e) == ks
\* the first pass skips what has no root
RootIndexed(ks, e) == IF HasRoot(e) THEN WithRoot(ks, KeyRoot(e)) ELSE ks

\* KeySet::placeholder and key_suffix
HasPlaceholder(e) == HasRoot(e) /\ e.suffix.wildcard # "none"
PlaceholderOf(ks, e) == [index |-> PositionOf(ks, KeyRoot(e)) - 1, suffix |-> e.suffix]

\* check_key_order: @0 comes first, and each index is one that has been or the
\* next one
KeyOrder(t) ==
    \A i \in DOMAIN t : t[i].index = 0 \/ \E j \in 1..(i - 1) : t[j].index >= t[i].index - 1

\* KeySet::resolve: only the root of an entry counts
Resolves(ks, p) == p.index + 1 \in DOMAIN ks /\ HasRoot(ks[p.index + 1])
Resolved(ks, p) == [is |-> "xpub", root |-> ks[p.index + 1].root, suffix |-> p.suffix]

\* into_descriptor
CanRebuild(t, ks) == KeyOrder(t) /\ \A i \in DOMAIN t : Resolves(ks, t[i])
Rebuilt(t, ks) == [i \in DOMAIN t |-> Resolved(ks, t[i])]

-----------------------------------------------------------------------------
(* from_descriptor                                                         *)

ConvertInit ==
    /\ backwards \in BOOLEAN
    /\ descriptor = <<>>
    /\ stage = "idle"
    /\ at = 0
    /\ keys = <<>>
    /\ template = <<>>

Begin(d) ==
    /\ stage \in {"idle", "done", "failed"}
    /\ descriptor' = d
    /\ stage' = "index"
    /\ at' = 1
    /\ keys' = <<>>
    /\ template' = [i \in DOMAIN d |-> Untranslated]
    /\ UNCHANGED backwards

\* for_each_key, to the end
IndexRoot ==
    /\ stage = "index"
    /\ at \in DOMAIN descriptor
    /\ keys' = RootIndexed(keys, descriptor[at])
    /\ at' = at + 1
    /\ UNCHANGED <<backwards, descriptor, stage, template>>

Indexed ==
    /\ stage = "index"
    /\ at \notin DOMAIN descriptor
    /\ stage' = "translate"
    /\ at' = IF backwards THEN Len(descriptor) ELSE 1
    /\ UNCHANGED <<backwards, descriptor, keys, template>>

\* translate_pk, which stops at the first error
TranslateKey ==
    /\ stage = "translate"
    /\ at \in DOMAIN descriptor
    /\ HasPlaceholder(descriptor[at])
    /\ keys' = WithRoot(keys, KeyRoot(descriptor[at]))
    /\ template' = [template EXCEPT ![at] = PlaceholderOf(keys', descriptor[at])]
    /\ at' = IF backwards THEN at - 1 ELSE at + 1
    /\ UNCHANGED <<backwards, descriptor, stage>>

RefuseKey ==
    /\ stage = "translate"
    /\ at \in DOMAIN descriptor
    /\ ~HasPlaceholder(descriptor[at])
    /\ stage' = "failed"
    /\ UNCHANGED <<backwards, descriptor, at, keys, template>>

CheckKeyOrder ==
    /\ stage = "translate"
    /\ at \notin DOMAIN descriptor
    /\ stage' = IF KeyOrder(template) THEN "done" ELSE "failed"
    /\ UNCHANGED <<backwards, descriptor, at, keys, template>>

ConvertStep == IndexRoot \/ Indexed \/ TranslateKey \/ RefuseKey \/ CheckKeyOrder

\* the conversions on their own
ConvertNext == (\E d \in Descriptors : Begin(d)) \/ ConvertStep
ConvertSpec == ConvertInit /\ [][ConvertNext]_convertVars

-----------------------------------------------------------------------------
(* The template as text                                                    *)

DefaultMultipath == <<<<Receive>>, <<Change>>>>

\* mutant: the wildcard is not looked at
IsDefaultAnyWildcard(s) == s.paths = DefaultMultipath
\* is_default_multipath
IsDefault(s) == s.paths = DefaultMultipath /\ s.wildcard = "unhardened"

\* Display: /** for the default, /<a;b>/* or /path/* for the others, with what
\* each path holds written in its place
SuffixText(s) == [stars |-> IsDefault(s), written |-> IF IsDefault(s) THEN NoSuffix ELSE s]
TemplateText(t) == [i \in DOMAIN t |-> [index |-> t[i].index, suffix |-> SuffixText(t[i].suffix)]]

\* mutant: a placeholder without wildcard will do
ReadableAnyWildcard(x) ==
    \/ x.stars
    \/ IF Len(x.written.paths) = 1 THEN TRUE
       ELSE \A i \in DOMAIN x.written.paths : Len(x.written.paths[i]) = 1
\* parse_suffix: the parser of miniscript wants a number for each step, also
\* between the bars of a multipath, and none may be missing
Readable(x) ==
    \/ x.stars
    \/ /\ x.written.wildcard # "none"
       /\ IF Len(x.written.paths) = 1 THEN x.written.paths[1] # <<>>
          ELSE \A i \in DOMAIN x.written.paths : Len(x.written.paths[i]) = 1
SuffixRead(x) == IF x.stars THEN [paths |-> DefaultMultipath, wildcard |-> "unhardened"]
                            ELSE x.written
TemplateRead(text) ==
    [i \in DOMAIN text |-> [index |-> text[i].index, suffix |-> SuffixRead(text[i].suffix)]]

\* Backend::from_wallet_policy
CanRebuildText(text, ks) ==
    /\ \A i \in DOMAIN text : Readable(text[i].suffix)
    /\ CanRebuild(TemplateRead(text), ks)
RebuiltText(text, ks) == Rebuilt(TemplateRead(text), ks)

-----------------------------------------------------------------------------
(* Properties                                                              *)

\* Type invariant of a conversion.
ConvertTypeOK ==
    /\ backwards \in BOOLEAN
    /\ descriptor \in Seq(KeyExpression)
    /\ stage \in {"idle", "index", "translate", "done", "failed"}
    /\ at \in 0..(Len(descriptor) + 1)
    /\ keys \in Seq(KeyExpression)
    /\ template \in [DOMAIN descriptor -> Placeholder \cup {Untranslated}]

\* A policy stands for the descriptor it was made from: its placeholders are
\* numbered in the order BIP388 asks for and resolve to the expressions of the
\* descriptor, whichever way the miniscript release translates.  A descriptor
\* is refused only for a key that BIP388 has no placeholder for
\* (WalletPolicy::from_descriptor, into_descriptor).
PolicyStandsForIt ==
    /\ stage = "done" =>
          /\ CanRebuild(template, keys)
          /\ Rebuilt(template, keys) = descriptor
    /\ stage = "failed" => \E i \in DOMAIN descriptor : ~HasPlaceholder(descriptor[i])
=============================================================================
