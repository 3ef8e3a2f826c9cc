---------------------------- MODULE DescriptorKeys ----------------------------
(***************************************************************************)
(* Which key expressions of a descriptor become recipients of its backup,  *)
(* and what is told about the others (src/descriptor.rs, ToPayload for     *)
(* Descriptor in src/lib.rs).                                              *)
(*                                                                         *)
(* A descriptor is the set of its key expressions.  The backend classifies *)
(* each (Backend::classify): a literal key, or an xpub which has a         *)
(* derivation after it or not.  Both kinds name a key, the root.           *)
(***************************************************************************)
EXTENDS Builder

CONSTANT NoOrigin     \* the expression has no origin

ASSUME NoOriginAssumption == NoOrigin \notin Paths

KeyExpr == {e \in [is : {"literal", "xpub"}, root : PublicKeys, derived : BOOLEAN,
                   origin : Paths \cup {NoOrigin}] : e.is = "literal" => ~e.derived}

\* dpk_to_pk succeeds: an xpub with a derivation or a wildcard after it
MayEncrypt(e) == e.is = "xpub" /\ e.derived

DescrToDpks(d) == {e \in d : MayEncrypt(e) /\ XOnly[e.root] # NumsX}

\* a multipath expression always has a derivation
DescrExposedKeys(d) == {XOnly[e.root] : e \in {x \in d : x.is = "literal" \/ ~x.derived}}

\* mutant: the rule on expressions wins over NUMS
DisallowedFirst(d) == {<<"DisallowedKeyExpression", e>> : e \in {x \in d : ~MayEncrypt(x)}}
DescrWarnings(d) ==
    {<<"NumsKey", e>> : e \in {x \in d : XOnly[x.root] = NumsX}}
    \cup {<<"DisallowedKeyExpression", e>> :
             e \in {x \in d : XOnly[x.root] # NumsX /\ ~MayEncrypt(x)}}

KeyPaths(d) == {<<e.root, e.origin>> : e \in {x \in DescrToDpks(d) : x.origin # NoOrigin}}

\* what the methods of a payload with the key expressions d return
AsPayload(content, data, d) ==
    [content |-> content, data |-> data, keys |-> {e.root : e \in DescrToDpks(d)},
     keyPaths |-> KeyPaths(d), warnings |-> DescrWarnings(d), exposed |-> DescrExposedKeys(d)]
=============================================================================
