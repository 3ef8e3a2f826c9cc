----------------------------- MODULE LibraryProofs -----------------------------
(***************************************************************************)
(* Theorems about the library bip138: about EncryptedBackup, for any       *)
(* sequence of calls and every set of keys, paths, content types and       *)
(* payloads; and about WalletPolicy and BackupDocuments, which extends it, *)
(* for descriptors of any length over any roots, in the order of either    *)
(* miniscript release, and any hand-made documents.  The two have their    *)
(* own variables and specifications (Spec, ConvertSpec, DocumentsSpec);    *)
(* they are together because they use the same builder.                    *)
(*                                                                         *)
(* The invariant of a builder ties its pools to the expressions and the    *)
(* keys that its caller gave (Consistent).  A setter that pools or         *)
(* replaces keys first leaves a builder that is only Pooled, which         *)
(* DropExposedKeys makes Consistent again.                                 *)
(*                                                                         *)
(* The first pass of a conversion leaves a vector without duplicates that  *)
(* holds the roots in the order of their first appearance (Vector).  The   *)
(* second finds each root in it and leaves it alone, so the way it goes    *)
(* does not matter.                                                        *)
(*                                                                         *)
(* Conversions run between the steps on documents and leave these alone,   *)
(* so what is shown of a conversion holds under both specifications, and a *)
(* set that is taken from one that is done stands for its descriptor.      *)
(***************************************************************************)
EXTENDS EncryptedBackup, BackupDocuments, RecursionProofs

(************************* EncryptedBackup: the builder ********************)

\* a warning is about an expression of es, or a key that es puts on chain
TrueWarning(w, es) ==
    \/ w[1] = "ExposedRoot" /\ XOnly[w[2]] \in DescrExposedKeys(es)
    \/ w[1] = "NumsKey" /\ XOnly[w[2].root] = NumsX
    \/ w[1] = "DisallowedKeyExpression" /\ w[2] \in es /\ ~MayEncrypt(w[2])

\* the holder of k is told why he is not a recipient
Told(b, k, es) ==
    \E w \in b.warnings :
        /\ WarnedOf(w, k)
        /\ w[1] = "NumsKey" <=> XOnly[k] = NumsX /\ w[1] # "ExposedRoot"
        /\ w[1] = "ExposedRoot" => XOnly[k] \in DescrExposedKeys(es)

KeptPaths(b) == {kp[2] : kp \in {q \in b.keyPaths : XOnly[q[1]] \notin b.exposed}}

Pooled(b, es, gs, byHand) ==
    /\ b \in BuilderType
    /\ b.exposed = DescrExposedKeys(es)
    /\ b.keyPaths = KeyPaths(es)
    /\ b.keys \subseteq gs
    /\ \A k \in gs \ b.keys : Told(b, k, es)
    /\ \A w \in b.warnings : TrueWarning(w, es)
    /\ ~byHand => /\ KeptPaths(b) \subseteq b.paths
                  /\ b.paths \subseteq {kp[2] : kp \in b.keyPaths}

Consistent(b, es, gs, byHand) ==
    /\ Pooled(b, es, gs, byHand)
    /\ \A k \in b.keys : XOnly[k] \notin b.exposed
    /\ ~byHand => b.paths = KeptPaths(b)

BlobReads(bl, sf) ==
    \A k \in sf :
        IF (\E w \in bl.warnings : WarnedOf(w, k)) \/ XOnly[k] = NumsX
        THEN XOnly[k] \notin bl.to
        ELSE XOnly[k] \in bl.to

\* what encrypt writes, whatever its builder
MadeHere(bl) == bl.format = "V1" /\ bl.encryption = "ChaCha20Poly1305" /\ bl.decodes

\* The inductive invariant.
IInv ==
    /\ TypeOK
    /\ MadeHere(blob)
    /\ Consistent(builder, expressions, given, pathsSet)
    /\ blob # NoBlob => BlobReads(blob, sealedFor)

-----------------------------------------------------------------------------
(* Types                                                                   *)

\* A fresh builder is one.
LEMMA NewBuilderType == NewBuilder \in BuilderType
    BY BuilderAssumption
    DEF NewBuilder, BuilderType, Versions, Encryptions, Paddings, PayloadTypes, NoPayload

\* drop_exposed_keys returns a builder.
LEMMA DropType ==
    ASSUME NEW b \in BuilderType
    PROVE  DropExposedKeys(b) \in BuilderType
<1>1. Dropped(b) \subseteq Warning
    BY DEF Dropped, ExposedRoots, Warning, BuilderType
<1>2. QED
    BY <1>1 DEF DropExposedKeys, ExposedRoots, BuilderType

\* what DropExposedKeys does to each field that matters
LEMMA DropFields ==
    ASSUME NEW b \in BuilderType
    PROVE  LET d == DropExposedKeys(b)
           IN  /\ d.keys = b.keys \ ExposedRoots(b)
               /\ d.warnings = b.warnings \cup Dropped(b)
               /\ d.exposed = b.exposed
               /\ d.keyPaths = b.keyPaths
               /\ d.paths = {p \in b.paths :
                     \/ \E kp \in b.keyPaths : XOnly[kp[1]] \notin b.exposed /\ kp[2] = p
                     \/ ~\E kp \in b.keyPaths : XOnly[kp[1]] \in b.exposed /\ kp[2] = p}
    BY DEF DropExposedKeys, BuilderType

\* drop_exposed_keys restores what a setter has disturbed.
LEMMA DropConsistent ==
    ASSUME NEW b, NEW es, NEW gs, NEW byHand \in BOOLEAN,
           Pooled(b, es, gs, byHand)
    PROVE  Consistent(DropExposedKeys(b), es, gs, byHand)
<1> DEFINE d == DropExposedKeys(b)
<1>1. b \in BuilderType
    BY DEF Pooled
<1>2. d \in BuilderType
    BY <1>1, DropType
<1>3. /\ d.keys = b.keys \ ExposedRoots(b)
      /\ d.warnings = b.warnings \cup Dropped(b)
      /\ d.exposed = b.exposed
      /\ d.keyPaths = b.keyPaths
      /\ d.paths = {p \in b.paths :
            \/ \E kp \in b.keyPaths : XOnly[kp[1]] \notin b.exposed /\ kp[2] = p
            \/ ~\E kp \in b.keyPaths : XOnly[kp[1]] \in b.exposed /\ kp[2] = p}
    BY <1>1, DropFields
<1> HIDE DEF d
<1>4. ASSUME NEW k \in gs \ d.keys
      PROVE  Told(d, k, es)
    <2>1. CASE k \in ExposedRoots(b)
        <3> DEFINE w == <<"ExposedRoot", k>>
        <3>1. w \in d.warnings
            BY <1>3, <2>1 DEF Dropped
        <3>2. XOnly[k] \in DescrExposedKeys(es)
            BY <2>1 DEF ExposedRoots, Pooled
        <3>3. WarnedOf(w, k) /\ w[1] = "ExposedRoot"
            BY DEF WarnedOf
        <3>4. QED
            BY <3>1, <3>2, <3>3 DEF Told
    <2>2. CASE k \notin ExposedRoots(b)
        BY <1>3, <1>4, <2>2 DEF Pooled, Told
    <2>3. QED
        BY <2>1, <2>2
<1>5. ASSUME NEW w \in d.warnings
      PROVE  TrueWarning(w, es)
    <2>1. CASE w \in b.warnings
        BY <2>1 DEF Pooled
    <2>2. CASE w \in Dropped(b)
        BY <2>2 DEF Dropped, ExposedRoots, Pooled, TrueWarning
    <2>3. QED
        BY <1>3, <1>5, <2>1, <2>2
<1>6. \A k \in d.keys : XOnly[k] \notin d.exposed
    BY <1>3 DEF ExposedRoots
<1>7. KeptPaths(d) = KeptPaths(b)
    BY <1>3 DEF KeptPaths
<1>8. ~byHand => d.paths = KeptPaths(d)
    BY <1>3, <1>7 DEF KeptPaths, Pooled
<1>9. KeptPaths(d) \subseteq {kp[2] : kp \in d.keyPaths}
    BY DEF KeptPaths
<1>10. Pooled(d, es, gs, byHand)
    BY <1>2, <1>3, <1>4, <1>5, <1>8, <1>9 DEF Pooled
<1>11. QED
    BY <1>6, <1>8, <1>10 DEF Consistent, d

-----------------------------------------------------------------------------
(* Pooling                                                                 *)

\* What the methods of a payload return has the types of the builder's fields.
LEMMA PayloadTyped ==
    ASSUME NEW p \in PayloadType
    PROVE  LET item == ToPayload(p)
           IN  /\ item.content = p.content /\ item.content \in Contents
               /\ item.data = p.data /\ item.data \in STRING
               /\ item.keys = {e.root : e \in DescrToDpks(p.expressions)}
               /\ item.keyPaths = KeyPaths(p.expressions)
               /\ item.warnings = DescrWarnings(p.expressions)
               /\ item.exposed = DescrExposedKeys(p.expressions)
               /\ item.keys \subseteq RootsIn(p)
               /\ item.keyPaths \subseteq PublicKeys \X Paths
               /\ item.warnings \subseteq Warning
               /\ item.exposed \subseteq {XOnly[k] : k \in PublicKeys}
               /\ RootsIn(p) \subseteq PublicKeys
<1>1. /\ p.content \in Contents /\ p.data \in STRING /\ p.expressions \subseteq KeyExpr
    BY DEF PayloadType
<1>2. \A e \in KeyExpr : e.root \in PublicKeys /\ e.origin \in Paths \cup {NoOrigin}
    BY DEF KeyExpr
<1>3. KeyPaths(p.expressions) \subseteq PublicKeys \X Paths
    BY <1>1, <1>2 DEF KeyPaths, DescrToDpks
<1>4. DescrWarnings(p.expressions) \subseteq Warning
    BY <1>1 DEF DescrWarnings, Warning
<1>5. DescrExposedKeys(p.expressions) \subseteq {XOnly[k] : k \in PublicKeys}
    BY <1>1, <1>2 DEF DescrExposedKeys
<1>6. {e.root : e \in DescrToDpks(p.expressions)} \subseteq RootsIn(p)
    BY DEF DescrToDpks, RootsIn
<1>7. RootsIn(p) \subseteq PublicKeys
    BY <1>1, <1>2 DEF RootsIn
<1>8. QED
    BY <1>1, <1>3, <1>4, <1>5, <1>6, <1>7 DEF ToPayload, AsPayload

\* The filters say the same of payloads together and of each for itself.
LEMMA FiltersDistribute ==
    ASSUME NEW D \in SUBSET PayloadType, NEW es \in SUBSET KeyExpr
    PROVE  LET items == {ToPayload(p) : p \in D}
               all == es \cup UNION {p.expressions : p \in D}
           IN  /\ DescrExposedKeys(all)
                    = DescrExposedKeys(es) \cup UNION {x.exposed : x \in items}
               /\ KeyPaths(all) = KeyPaths(es) \cup UNION {x.keyPaths : x \in items}
<1> DEFINE items == {ToPayload(p) : p \in D}
           all == es \cup UNION {p.expressions : p \in D}
<1>1. \A p \in D : /\ ToPayload(p).exposed = DescrExposedKeys(p.expressions)
                   /\ ToPayload(p).keyPaths = KeyPaths(p.expressions)
    BY PayloadTyped
<1>2. UNION {x.exposed : x \in items} = UNION {DescrExposedKeys(p.expressions) : p \in D}
    BY <1>1
<1>3. UNION {x.keyPaths : x \in items} = UNION {KeyPaths(p.expressions) : p \in D}
    BY <1>1
<1>4. DescrExposedKeys(all)
        = DescrExposedKeys(es) \cup UNION {DescrExposedKeys(p.expressions) : p \in D}
    BY DEF DescrExposedKeys
<1>5. KeyPaths(all) = KeyPaths(es) \cup UNION {KeyPaths(p.expressions) : p \in D}
    BY DEF KeyPaths, DescrToDpks
<1>6. QED
    BY <1>2, <1>3, <1>4, <1>5

\* The fields of a builder that has pooled items.
LEMMA PoolFields ==
    ASSUME NEW b \in BuilderType, NEW items
    PROVE  LET d == Pool(b, items)
           IN  /\ d.keys = b.keys \cup UNION {x.keys : x \in items}
               /\ d.warnings = b.warnings \cup UNION {x.warnings : x \in items}
               /\ d.exposed = b.exposed \cup UNION {x.exposed : x \in items}
               /\ d.keyPaths = b.keyPaths \cup UNION {x.keyPaths : x \in items}
               /\ d.paths = b.paths \cup {kp[2] : kp \in UNION {x.keyPaths : x \in items}}
    BY DEF Pool, BuilderType

\* the expression of a payload whose root is no key of it is warned about
LEMMA FilteredTold ==
    ASSUME NEW p \in PayloadType, NEW e \in p.expressions,
           e.root \notin ToPayload(p).keys
    PROVE  \E w \in ToPayload(p).warnings :
              /\ WarnedOf(w, e.root) /\ w[1] # "ExposedRoot"
              /\ w[1] = "NumsKey" <=> XOnly[e.root] = NumsX
<1>1. ~MayEncrypt(e) \/ XOnly[e.root] = NumsX
    BY PayloadTyped DEF DescrToDpks
<1>2. CASE XOnly[e.root] = NumsX
    <2>1. <<"NumsKey", e>> \in ToPayload(p).warnings
        BY <1>2, PayloadTyped DEF DescrWarnings
    <2>2. QED
        BY <1>2, <2>1 DEF WarnedOf
<1>3. CASE XOnly[e.root] # NumsX
    <2>1. <<"DisallowedKeyExpression", e>> \in ToPayload(p).warnings
        BY <1>1, <1>3, PayloadTyped DEF DescrWarnings
    <2>2. QED
        BY <1>3, <2>1 DEF WarnedOf
<1>4. QED
    BY <1>2, <1>3

\* A payload only warns of what is so.
LEMMA PayloadWarnsTruly ==
    ASSUME NEW p \in PayloadType, NEW w \in ToPayload(p).warnings,
           NEW es, p.expressions \subseteq es
    PROVE  TrueWarning(w, es)
    BY PayloadTyped DEF DescrWarnings, TrueWarning

\* Pooling payloads returns a builder.
LEMMA PoolType ==
    ASSUME NEW b \in BuilderType, NEW D \in SUBSET PayloadType
    PROVE  Pool(b, {ToPayload(p) : p \in D}) \in BuilderType
<1> DEFINE items == {ToPayload(p) : p \in D}
<1>1. \A x \in items : /\ x.keys \subseteq PublicKeys
                       /\ x.keyPaths \subseteq PublicKeys \X Paths
                       /\ x.warnings \subseteq Warning
                       /\ x.exposed \subseteq {XOnly[k] : k \in PublicKeys}
    BY PayloadTyped
<1> HIDE DEF items
<1>2. UNION {x.keyPaths : x \in items} \subseteq PublicKeys \X Paths
    BY <1>1
<1>3. {kp[2] : kp \in UNION {x.keyPaths : x \in items}} \subseteq Paths
    BY <1>2
<1>4. /\ UNION {x.keys : x \in items} \subseteq PublicKeys
      /\ UNION {x.warnings : x \in items} \subseteq Warning
      /\ UNION {x.exposed : x \in items} \subseteq {XOnly[k] : k \in PublicKeys}
    BY <1>1
<1>5. Pool(b, items) \in BuilderType
    BY <1>2, <1>3, <1>4 DEF Pool, BuilderType
<1>6. QED
    BY <1>5 DEF items

\* set_payload and set_payloads up to their drop_exposed_keys.
LEMMA PoolPooled ==
    ASSUME NEW b, NEW es \in SUBSET KeyExpr, NEW gs, NEW byHand \in BOOLEAN,
           Consistent(b, es, gs, byHand),
           NEW D \in SUBSET PayloadType
    PROVE  Pooled(Pool(b, {ToPayload(p) : p \in D}), es \cup UNION {p.expressions : p \in D},
                  gs \cup UNION {RootsIn(p) : p \in D}, byHand)
<1> DEFINE items == {ToPayload(p) : p \in D}
           d == Pool(b, items)
           all == es \cup UNION {p.expressions : p \in D}
           gs2 == gs \cup UNION {RootsIn(p) : p \in D}
<1>1. b \in BuilderType /\ Pooled(b, es, gs, byHand)
    BY DEF Consistent, Pooled
<1>2. d \in BuilderType
    BY <1>1, PoolType
<1>3. /\ d.keys = b.keys \cup UNION {x.keys : x \in items}
      /\ d.warnings = b.warnings \cup UNION {x.warnings : x \in items}
      /\ d.exposed = b.exposed \cup UNION {x.exposed : x \in items}
      /\ d.keyPaths = b.keyPaths \cup UNION {x.keyPaths : x \in items}
      /\ d.paths = b.paths \cup {kp[2] : kp \in UNION {x.keyPaths : x \in items}}
    BY <1>1, PoolFields
<1>4. /\ DescrExposedKeys(all) = DescrExposedKeys(es) \cup UNION {x.exposed : x \in items}
      /\ KeyPaths(all) = KeyPaths(es) \cup UNION {x.keyPaths : x \in items}
    BY FiltersDistribute
<1>5. /\ d.exposed = DescrExposedKeys(all) /\ d.keyPaths = KeyPaths(all)
      /\ DescrExposedKeys(es) \subseteq DescrExposedKeys(all)
    <2> HIDE DEF items, d, all
    <2>1. QED
        BY <1>1, <1>3, <1>4 DEF Pooled
<1>6. d.keys \subseteq gs2
    <2>1. \A p \in D : ToPayload(p).keys \subseteq RootsIn(p)
        BY PayloadTyped
    <2>2. UNION {x.keys : x \in items} \subseteq UNION {RootsIn(p) : p \in D}
        BY <2>1
    <2>3. QED
        BY <1>1, <1>3, <2>2 DEF Pooled
<1> HIDE DEF d
<1>7. ASSUME NEW k \in gs2 \ d.keys
      PROVE  Told(d, k, all)
    <2>1. CASE k \in gs
        <3>1. Told(b, k, es)
            BY <1>1, <1>3, <1>7, <2>1 DEF Pooled
        <3>2. b.warnings \subseteq d.warnings
            BY <1>3
        <3>3. QED
            BY <1>5, <3>1, <3>2 DEF Told
    <2>2. CASE k \notin gs
        <3>1. PICK p \in D : k \in RootsIn(p)
            BY <1>7, <2>2
        <3>2. PICK e \in p.expressions : e.root = k
            BY <3>1 DEF RootsIn
        <3>3. k \notin ToPayload(p).keys
            BY <1>3, <1>7
        <3>4. PICK w \in ToPayload(p).warnings :
                  /\ WarnedOf(w, e.root) /\ w[1] # "ExposedRoot"
                  /\ w[1] = "NumsKey" <=> XOnly[e.root] = NumsX
            BY <3>2, <3>3, FilteredTold
        <3>5. w \in d.warnings
            BY <1>3
        <3>6. QED
            BY <3>2, <3>4, <3>5 DEF Told
    <2>3. QED
        BY <2>1, <2>2
<1>8. ASSUME NEW w \in d.warnings
      PROVE  TrueWarning(w, all)
    <2>1. CASE w \in b.warnings
        <3>1. TrueWarning(w, es)
            BY <1>1, <2>1 DEF Pooled
        <3>2. QED
            BY <1>5, <3>1 DEF TrueWarning
    <2>2. CASE w \notin b.warnings
        <3>1. PICK p \in D : w \in ToPayload(p).warnings
            BY <1>3, <1>8, <2>2
        <3>2. p.expressions \subseteq all
            OBVIOUS
        <3>3. QED
            BY <3>1, <3>2, PayloadWarnsTruly
    <2>3. QED
        BY <2>1, <2>2
<1>9. ASSUME ~byHand
      PROVE  /\ KeptPaths(d) \subseteq d.paths
             /\ d.paths \subseteq {kp[2] : kp \in d.keyPaths}
    <2>1. KeptPaths(b) \subseteq b.paths /\ b.paths \subseteq {kp[2] : kp \in b.keyPaths}
        BY <1>1, <1>9 DEF Pooled
    <2>2. QED
        BY <1>3, <2>1 DEF KeptPaths
<1>10. QED
    BY <1>2, <1>5, <1>6, <1>7, <1>8, <1>9 DEF Pooled, d

-----------------------------------------------------------------------------
(* The setters                                                             *)

\* set_keys, whatever keys it is given.
LEMMA WithKeysConsistent ==
    ASSUME NEW b, NEW es, NEW gs, NEW byHand \in BOOLEAN, Consistent(b, es, gs, byHand),
           NEW ks \in SUBSET PublicKeys
    PROVE  Consistent(WithKeys(b, ks), es, ks, byHand)
<1> DEFINE d == [b EXCEPT !.keys = ks]
<1>1. b \in BuilderType
    BY DEF Consistent, Pooled
<1>2. d \in BuilderType
    BY <1>1 DEF BuilderType
<1>3. /\ d.keys = ks /\ d.exposed = b.exposed /\ d.keyPaths = b.keyPaths
      /\ d.paths = b.paths /\ d.warnings = b.warnings
    BY <1>1 DEF BuilderType
<1> HIDE DEF d
<1>4. Pooled(d, es, ks, byHand)
    BY <1>2, <1>3 DEF Pooled, Consistent, KeptPaths
<1>5. Consistent(DropExposedKeys(d), es, ks, byHand)
    BY <1>4, DropConsistent
<1>6. QED
    BY <1>5 DEF WithKeys, d

\* A setter that leaves keys, exposed keys, warnings and paths alone, or sets
\* the paths for the caller.
LEMMA OtherFieldsPooled ==
    ASSUME NEW b, NEW es, NEW gs, NEW byHand \in BOOLEAN, Pooled(b, es, gs, byHand),
           NEW d \in BuilderType, NEW hand \in BOOLEAN, byHand => hand,
           d.keys = b.keys, d.exposed = b.exposed, d.keyPaths = b.keyPaths,
           d.warnings = b.warnings, hand \/ d.paths = b.paths
    PROVE  Pooled(d, es, gs, hand)
<1>1. \A k \in gs \ d.keys : Told(d, k, es)
    BY DEF Pooled, Told
<1>2. KeptPaths(d) = KeptPaths(b)
    BY DEF KeptPaths
<1>3. QED
    BY <1>1, <1>2 DEF Pooled

\* A builder stays consistent when a setter leaves its pools and paths alone,
\* or its caller has set the paths.
LEMMA OtherFieldsConsistent ==
    ASSUME NEW b, NEW es, NEW gs, NEW byHand \in BOOLEAN, Consistent(b, es, gs, byHand),
           NEW d \in BuilderType, NEW hand \in BOOLEAN, byHand => hand,
           d.keys = b.keys, d.exposed = b.exposed, d.keyPaths = b.keyPaths,
           d.warnings = b.warnings, hand \/ d.paths = b.paths
    PROVE  Consistent(d, es, gs, hand)
<1>1. Pooled(d, es, gs, hand)
    BY OtherFieldsPooled DEF Consistent
<1>2. KeptPaths(d) = KeptPaths(b)
    BY DEF KeptPaths
<1>3. QED
    BY <1>1, <1>2 DEF Consistent

\* A new builder has nothing.
LEMMA NewConsistent == Consistent(NewBuilder, {}, {}, FALSE)
<1>1. DescrExposedKeys({}) = {} /\ KeyPaths({}) = {}
    BY DEF DescrExposedKeys, KeyPaths, DescrToDpks
<1>2. QED
    BY <1>1, NewBuilderType DEF NewBuilder, Consistent, Pooled, KeptPaths

\* set_payload
LEMMA WithPayloadConsistent ==
    ASSUME NEW b, NEW es \in SUBSET KeyExpr, NEW gs, NEW byHand \in BOOLEAN,
           Consistent(b, es, gs, byHand), NEW p \in PayloadType
    PROVE  Consistent(WithPayload(b, ToPayload(p)), es \cup p.expressions, gs \cup RootsIn(p), byHand)
<1> DEFINE item == ToPayload(p)
           d == Pool(b, {item})
           f == [d EXCEPT !.payload = ToEncrypt(item.data),
                          !.content = IF item.content \in KnownContents THEN item.content
                                                                        ELSE b.content]
<1>1. {item} = {ToPayload(x) : x \in {p}}
    OBVIOUS
<1>2. Pooled(d, es \cup UNION {x.expressions : x \in {p}}, gs \cup UNION {RootsIn(x) : x \in {p}},
             byHand)
    <2> DEFINE D == {p}
    <2>1. D \in SUBSET PayloadType
        OBVIOUS
    <2> HIDE DEF D
    <2>2. Pooled(Pool(b, {ToPayload(x) : x \in D}), es \cup UNION {x.expressions : x \in D},
                 gs \cup UNION {RootsIn(x) : x \in D}, byHand)
        BY <2>1, PoolPooled
    <2>3. QED
        BY <1>1, <2>2 DEF D
<1>3. Pooled(d, es \cup p.expressions, gs \cup RootsIn(p), byHand)
    <2>1. UNION {x.expressions : x \in {p}} = p.expressions /\ UNION {RootsIn(x) : x \in {p}} = RootsIn(p)
        OBVIOUS
    <2>2. QED
        BY <1>2, <2>1
<1>4. d \in BuilderType /\ b \in BuilderType
    BY <1>3 DEF Pooled, Consistent
<1>5. item.content \in Contents /\ item.data \in STRING
    BY PayloadTyped
<1> HIDE DEF d, item
<1>6. f \in BuilderType
    <2>1. ToEncrypt(item.data) \in PayloadTypes
        BY <1>5 DEF ToEncrypt, PayloadTypes
    <2>2. b.content \in Contents
        BY <1>4 DEF BuilderType
    <2>3. QED
        BY <1>4, <1>5, <2>1, <2>2 DEF BuilderType
<1>7. /\ f.keys = d.keys /\ f.exposed = d.exposed /\ f.keyPaths = d.keyPaths
      /\ f.warnings = d.warnings /\ f.paths = d.paths
    BY <1>4 DEF BuilderType
<1> HIDE DEF f
<1>8. Pooled(f, es \cup p.expressions, gs \cup RootsIn(p), byHand)
    BY <1>3, <1>6, <1>7, OtherFieldsPooled
<1>9. Consistent(DropExposedKeys(f), es \cup p.expressions, gs \cup RootsIn(p), byHand)
    BY <1>8, DropConsistent
<1>10. QED
    BY <1>9 DEF WithPayload, f, d, item

\* set_payloads
LEMMA WithPayloadsConsistent ==
    ASSUME NEW b, NEW es \in SUBSET KeyExpr, NEW gs, NEW byHand \in BOOLEAN,
           Consistent(b, es, gs, byHand), NEW ps \in Seq(PayloadType)
    PROVE  Consistent(WithPayloads(b, ItemsOf(ps)), es \cup ExpressionsIn(ps),
                      gs \cup RootsOf(ps), byHand)
<1> DEFINE items == ItemsOf(ps)
           D == {ps[i] : i \in DOMAIN ps}
           all == es \cup ExpressionsIn(ps)
           gs2 == gs \cup RootsOf(ps)
           d == DropExposedKeys(Pool(b, {items[i] : i \in DOMAIN items}))
           data == [i \in DOMAIN items |-> <<items[i].content, items[i].data>>]
           f == [d EXCEPT !.payload = ToEncryptMany(data)]
<1>1. D \in SUBSET PayloadType
    OBVIOUS
<1>2. {items[i] : i \in DOMAIN items} = {ToPayload(p) : p \in D}
    BY DEF ItemsOf
<1>3. /\ all = es \cup UNION {p.expressions : p \in D}
      /\ gs2 = gs \cup UNION {RootsIn(p) : p \in D}
    BY DEF ExpressionsIn, RootsOf
<1>4. Pooled(Pool(b, {ToPayload(p) : p \in D}), es \cup UNION {p.expressions : p \in D},
             gs \cup UNION {RootsIn(p) : p \in D}, byHand)
    <2> HIDE DEF D
    <2>1. QED
        BY <1>1, PoolPooled
<1>5. Consistent(d, all, gs2, byHand)
    <2>1. Pooled(Pool(b, {items[i] : i \in DOMAIN items}), all, gs2, byHand)
        BY <1>2, <1>3, <1>4
    <2>2. QED
        BY <2>1, DropConsistent
<1>6. data \in Seq(Contents \X STRING)
    <2>1. \A i \in DOMAIN ps : ToPayload(ps[i]).content \in Contents /\ ToPayload(ps[i]).data \in STRING
        BY PayloadTyped
    <2>2. QED
        BY <2>1 DEF ItemsOf
<1> HIDE DEF d, data
<1>7. f \in BuilderType
    <2>1. ToEncryptMany(data) \in PayloadTypes
        BY <1>6 DEF ToEncryptMany, PayloadTypes
    <2>2. QED
        BY <1>5, <2>1 DEF Consistent, Pooled, BuilderType
<1>8. /\ f.keys = d.keys /\ f.exposed = d.exposed /\ f.keyPaths = d.keyPaths
      /\ f.warnings = d.warnings /\ f.paths = d.paths
    BY <1>5 DEF Consistent, Pooled, BuilderType
<1> HIDE DEF f
<1>9. Consistent(f, all, gs2, byHand)
    BY <1>5, <1>7, <1>8, OtherFieldsConsistent
<1>10. QED
    BY <1>9 DEF WithPayloads, f, d, data

\* set_encrypted_payload; the paths are those of a backup of version 1
LEMMA WithEncryptedConsistent ==
    ASSUME NEW b, NEW es, NEW gs, NEW byHand \in BOOLEAN, Consistent(b, es, gs, byHand),
           NEW bl \in BlobType
    PROVE  Consistent(WithEncrypted(b, bl), es, gs, byHand \/ bl.format = "V1")
<1> DEFINE d == WithEncrypted(b, bl)
<1>1. b \in BuilderType
    BY DEF Consistent, Pooled
<1>2. ToDecrypt(bl) \in PayloadTypes
    BY DEF ToDecrypt, PayloadTypes
<1>3. bl.paths \in SUBSET Paths /\ bl.encryption \in Encryptions /\ bl.format \in {"V0", "V1"}
    BY DEF BlobType
<1>4. d \in BuilderType
    BY <1>1, <1>2, <1>3 DEF WithEncrypted, BuilderType
<1>5. /\ d.keys = b.keys /\ d.exposed = b.exposed /\ d.keyPaths = b.keyPaths
      /\ d.warnings = b.warnings
      /\ bl.format = "V1" \/ d.paths = b.paths
    BY <1>1, <1>3 DEF WithEncrypted, BuilderType
<1> DEFINE hand == byHand \/ bl.format = "V1"
<1>6. hand \in BOOLEAN /\ (byHand => hand)
    OBVIOUS
<1>7. hand \/ d.paths = b.paths
    BY <1>5
<1> HIDE DEF d, hand
<1>8. Consistent(d, es, gs, hand)
    BY <1>4, <1>5, <1>6, <1>7, OtherFieldsConsistent
<1>9. QED
    BY <1>8 DEF d, hand

-----------------------------------------------------------------------------
(* encrypt                                                                 *)

\* What encrypt returns is an encrypted backup.
LEMMA EncryptedType ==
    ASSUME NEW b \in BuilderType, EncryptError(b) = "none"
    PROVE  Encrypted(b) \in BlobType
<1>1. b.payload.is \in {"encrypt", "many"}
    BY DEF EncryptError
<1>2. Items(b) \in Seq(Contents \X STRING)
    <2>1. CASE b.payload.is = "many"
        <3>1. b.payload.items \in Seq(Contents \X STRING)
            BY <2>1 DEF BuilderType, PayloadTypes, NoPayload
        <3>2. QED
            BY <2>1, <3>1 DEF Items
    <2>2. CASE b.payload.is = "encrypt"
        <3>1. b.payload.item \in STRING /\ b.content \in Contents
            BY <2>2 DEF BuilderType, PayloadTypes, NoPayload
        <3>2. Items(b) = <<<<b.content, b.payload.item>>>>
            BY <2>2 DEF Items
        <3>3. QED
            BY <3>1, <3>2
    <2>3. QED
        BY <1>1, <2>1, <2>2
<1>3. XOnlys(b.keys) \ {NumsX} \subseteq {XOnly[k] : k \in PublicKeys}
    BY DEF XOnlys, BuilderType
<1>4. {p \in b.paths : b.storeCommon \/ p \notin CommonPaths} \subseteq Paths
    BY DEF BuilderType
<1>5. b.warnings \in SUBSET Warning
    BY DEF BuilderType
<1>6. b.encryption \in Encryptions /\ b.padding \in Paddings
    BY DEF BuilderType
<1>7. QED
    BY <1>2, <1>3, <1>4, <1>5, <1>6 DEF Encrypted, BlobType

\* encrypt writes version 1 with ChaCha20-Poly1305, or fails.
LEMMA EncryptedHere ==
    ASSUME NEW b, EncryptError(b) = "none"
    PROVE  MadeHere(Encrypted(b))
<1>1. b.encryption = "ChaCha20Poly1305"
    BY DEF EncryptError
<1>2. QED
    BY <1>1 DEF Encrypted, MadeHere

\* The bytes are read by those and only those of the given keys that no warning
\* is about.
LEMMA EncryptedReads ==
    ASSUME NEW b, NEW es \in SUBSET KeyExpr, NEW gs, NEW byHand, Consistent(b, es, gs, byHand)
    PROVE  BlobReads(Encrypted(b), gs)
<1>1. Encrypted(b).to = XOnlys(b.keys) \ {NumsX} /\ Encrypted(b).warnings = b.warnings
    BY DEF Encrypted
<1>2. ASSUME NEW k \in gs, XOnly[k] # NumsX, NEW w \in b.warnings, WarnedOf(w, k)
      PROVE  XOnly[k] \notin XOnlys(b.keys)
    <2>1. TrueWarning(w, es)
        BY <1>2 DEF Consistent, Pooled
    <2>2. XOnly[k] \in DescrExposedKeys(es)
        BY <1>2, <2>1 DEF WarnedOf, TrueWarning, DescrExposedKeys, MayEncrypt, KeyExpr
    <2>3. QED
        BY <2>2 DEF Consistent, Pooled, XOnlys
<1>3. ASSUME NEW k \in gs, XOnly[k] # NumsX, ~\E w \in b.warnings : WarnedOf(w, k)
      PROVE  XOnly[k] \in XOnlys(b.keys)
    <2>1. k \in b.keys
        BY <1>3 DEF Consistent, Pooled, Told
    <2>2. QED
        BY <2>1 DEF XOnlys
<1>4. QED
    BY <1>1, <1>2, <1>3 DEF BlobReads

-----------------------------------------------------------------------------
(* The invariant                                                           *)

\* Every outcome of encrypt has a name.
LEMMA ErrorNamed == \A b : EncryptError(b) \in Outcomes
    BY DEF EncryptError, Outcomes

\* extract returns items, or says that one does not parse.
LEMMA ExtractNamed ==
    ASSUME NEW items
    PROVE  \/ Extract(items) = [is |-> "ParseError"]
           \/ Extract(items) = [is |-> "items", items |-> Values(items)]
    BY DEF Extract

\* Every outcome of decrypt has a name.
LEMMA DecryptedNamed ==
    ASSUME NEW b \in BuilderType
    PROVE  Decrypted(b).is \in Outcomes
<1>1. \A items : Extract(items).is \in Outcomes
    <2> TAKE items
    <2> DEFINE read == Values(items)
    <2>1. \/ Extract(items) = [is |-> "ParseError"]
          \/ Extract(items) = [is |-> "items", items |-> read]
        BY ExtractNamed
    <2> HIDE DEF read
    <2>2. QED
        BY <2>1 DEF Outcomes
<1>2. b.version \in Versions
    BY DEF BuilderType
<1>3. CASE b.keys = {}
    BY <1>3 DEF Decrypted, Outcomes
<1>4. CASE b.keys # {} /\ IsV0(b)
    <2>1. DecryptedV0(b).is \in Outcomes
        BY DEF DecryptedV0, Outcomes
    <2>2. QED
        BY <1>4, <2>1 DEF Decrypted
<1>5. CASE b.keys # {} /\ ~IsV0(b) /\ b.version # "V1"
    BY <1>2, <1>5 DEF Decrypted, Outcomes, Versions
<1>6. CASE b.keys # {} /\ ~IsV0(b) /\ b.version = "V1"
    <2>1. CASE b.payload.is # "decrypt"
        BY <1>6, <2>1 DEF Decrypted, Outcomes
    <2>2. CASE b.payload.is = "decrypt" /\ b.encryption # "ChaCha20Poly1305"
        BY <1>6, <2>2 DEF Decrypted, Outcomes
    <2>3. CASE b.payload.is = "decrypt" /\ b.encryption = "ChaCha20Poly1305"
        <3>1. DecryptedV1(b).is \in Outcomes
            BY <1>1 DEF DecryptedV1, Outcomes
        <3>2. QED
            BY <1>6, <2>3, <3>1 DEF Decrypted
    <2>4. QED
        BY <2>1, <2>2, <2>3
<1>7. QED
    BY <1>3, <1>4, <1>5, <1>6

\* A fresh builder, with nothing sealed yet, satisfies the invariant.
LEMMA InitIInv == Init => IInv
<1> SUFFICES ASSUME Init PROVE IInv
    OBVIOUS
<1>1. blob \in BlobType
    <2>1. <<>> \in Seq(Contents \X STRING)
        OBVIOUS
    <2>2. NoBlob \in BlobType
        BY <2>1 DEF NoBlob, BlobType, Encryptions, Paddings
    <2>3. QED
        BY <2>2 DEF Init
<1>2. answer.is \in Outcomes
    BY DEF Init, Nothing, Outcomes
<1>3. TypeOK
    BY <1>1, <1>2, NewBuilderType DEF Init, TypeOK
<1>4. MadeHere(blob)
    BY DEF Init, NoBlob, MadeHere
<1>5. QED
    BY <1>3, <1>4, NewConsistent DEF Init, IInv

\* No setter, no encrypt and no decrypt takes the invariant away.
LEMMA NextIInv == IInv /\ [Next]_vars => IInv'
<1> SUFFICES ASSUME IInv, [Next]_vars PROVE IInv'
    OBVIOUS
<1>1. /\ blob # NoBlob => BlobReads(blob, sealedFor)
      /\ MadeHere(blob)
      /\ builder \in BuilderType /\ blob \in BlobType /\ calls \in Nat
      /\ given \in SUBSET PublicKeys /\ expressions \in SUBSET KeyExpr
      /\ sealedFor \in SUBSET PublicKeys /\ pathsSet \in BOOLEAN /\ answer.is \in Outcomes
      /\ Consistent(builder, expressions, given, pathsSet)
    BY DEF IInv, TypeOK
\* what is left to show of a setter
<1>2. ASSUME NEW b, Call(b), Consistent(b, expressions', given', pathsSet'),
             given' \in SUBSET PublicKeys, expressions' \in SUBSET KeyExpr, pathsSet' \in BOOLEAN
      PROVE  IInv'
    <2>1. b \in BuilderType
        BY <1>2 DEF Consistent, Pooled
    <2>2. /\ builder' = b /\ calls' \in Nat /\ answer' = Nothing
          /\ blob' = blob /\ sealedFor' = sealedFor
        BY <1>1, <1>2 DEF Call
    <2>3. answer'.is \in Outcomes
        BY <2>2 DEF Nothing, Outcomes
    <2>4. TypeOK'
        BY <1>1, <1>2, <2>1, <2>2, <2>3 DEF TypeOK
    <2>5. (blob # NoBlob => BlobReads(blob, sealedFor))'
        BY <1>1, <2>2
    <2>6. MadeHere(blob)'
        BY <1>1, <2>2
    <2>7. QED
        BY <1>2, <2>2, <2>4, <2>5, <2>6 DEF IInv
\* and of one that only sets a field that the properties do not look at
<1>3. ASSUME NEW b \in BuilderType, Setting(b), pathsSet' \in BOOLEAN, pathsSet => pathsSet',
             b.keys = builder.keys, b.exposed = builder.exposed, b.keyPaths = builder.keyPaths,
             b.warnings = builder.warnings, pathsSet' \/ b.paths = builder.paths
      PROVE  IInv'
    <2>1. Call(b) /\ given' = given /\ expressions' = expressions
        BY <1>3 DEF Setting
    <2>2. Consistent(b, expressions, given, pathsSet')
        BY <1>1, <1>3, OtherFieldsConsistent
    <2>3. QED
        BY <1>1, <1>2, <1>3, <2>1, <2>2
<1>4. CASE New
    BY <1>2, <1>4, NewConsistent DEF New
<1>5. ASSUME NEW ks \in KeySets, SetKeys(ks)
      PROVE  IInv'
    <2>1. ks \in SUBSET PublicKeys
        BY CallsAssumption
    <2>2. QED
        BY <1>1, <1>2, <1>5, <2>1, WithKeysConsistent DEF SetKeys
<1>6. ASSUME NEW v \in Versions, SetVersion(v)
      PROVE  IInv'
    <2> DEFINE b == [builder EXCEPT !.version = v]
    <2>1. b \in BuilderType
        BY <1>1 DEF BuilderType
    <2>2. /\ b.keys = builder.keys /\ b.exposed = builder.exposed
          /\ b.keyPaths = builder.keyPaths /\ b.warnings = builder.warnings
          /\ b.paths = builder.paths
        BY <1>1 DEF BuilderType
    <2>3. QED
        BY <1>1, <1>3, <1>6, <2>1, <2>2 DEF SetVersion
<1>7. ASSUME NEW e \in Encryptions, SetEncryption(e)
      PROVE  IInv'
    <2> DEFINE b == [builder EXCEPT !.encryption = e]
    <2>1. b \in BuilderType
        BY <1>1 DEF BuilderType
    <2>2. /\ b.keys = builder.keys /\ b.exposed = builder.exposed
          /\ b.keyPaths = builder.keyPaths /\ b.warnings = builder.warnings
          /\ b.paths = builder.paths
        BY <1>1 DEF BuilderType
    <2>3. QED
        BY <1>1, <1>3, <1>7, <2>1, <2>2 DEF SetEncryption
<1>8. ASSUME NEW on \in BOOLEAN, SetStoreCommonPaths(on)
      PROVE  IInv'
    <2> DEFINE b == [builder EXCEPT !.storeCommon = on]
    <2>1. b \in BuilderType
        BY <1>1 DEF BuilderType
    <2>2. /\ b.keys = builder.keys /\ b.exposed = builder.exposed
          /\ b.keyPaths = builder.keyPaths /\ b.warnings = builder.warnings
          /\ b.paths = builder.paths
        BY <1>1 DEF BuilderType
    <2>3. QED
        BY <1>1, <1>3, <1>8, <2>1, <2>2 DEF SetStoreCommonPaths
<1>9. ASSUME NEW c \in Contents, SetContentType(c)
      PROVE  IInv'
    <2> DEFINE b == [builder EXCEPT !.content = c]
    <2>1. b \in BuilderType
        BY <1>1 DEF BuilderType
    <2>2. /\ b.keys = builder.keys /\ b.exposed = builder.exposed
          /\ b.keyPaths = builder.keyPaths /\ b.warnings = builder.warnings
          /\ b.paths = builder.paths
        BY <1>1 DEF BuilderType
    <2>3. QED
        BY <1>1, <1>3, <1>9, <2>1, <2>2 DEF SetContentType
<1>10. ASSUME NEW ps \in PathSets, SetDerivationPaths(ps)
       PROVE  IInv'
    <2> DEFINE b == [builder EXCEPT !.paths = ps]
    <2>1. b \in BuilderType
        BY <1>1, CallsAssumption DEF BuilderType
    <2>2. /\ b.keys = builder.keys /\ b.exposed = builder.exposed
          /\ b.keyPaths = builder.keyPaths /\ b.warnings = builder.warnings
        BY <1>1 DEF BuilderType
    <2>3. QED
        BY <1>3, <1>10, <2>1, <2>2 DEF SetDerivationPaths
<1>11. ASSUME NEW p \in Payloads, SetPayload(p)
       PROVE  IInv'
    <2>1. p \in PayloadType
        BY CallsAssumption
    <2>2. p.expressions \subseteq KeyExpr /\ RootsIn(p) \subseteq PublicKeys
        BY <2>1, PayloadTyped DEF PayloadType
    <2>3. Consistent(WithPayload(builder, ToPayload(p)), expressions \cup p.expressions,
                     given \cup RootsIn(p), pathsSet)
        BY <1>1, <2>1, WithPayloadConsistent
    <2>4. QED
        BY <1>1, <1>2, <1>11, <2>2, <2>3 DEF SetPayload
<1>12. ASSUME NEW ps \in Seq(PayloadType), SetPayloads(ps)
       PROVE  IInv'
    <2>1. CASE ~Accepted(ItemsOf(ps))
        BY <1>2, <1>12, <2>1, NewConsistent DEF SetPayloads
    <2>2. CASE Accepted(ItemsOf(ps))
        <3>1. Consistent(WithPayloads(builder, ItemsOf(ps)), expressions \cup ExpressionsIn(ps),
                         given \cup RootsOf(ps), pathsSet)
            BY <1>1, WithPayloadsConsistent
        <3>2. ASSUME NEW i \in DOMAIN ps
              PROVE  ps[i].expressions \subseteq KeyExpr /\ RootsIn(ps[i]) \subseteq PublicKeys
            <4>1. ps[i] \in PayloadType
                OBVIOUS
            <4>2. QED
                BY <4>1, PayloadTyped DEF PayloadType
        <3>3. ExpressionsIn(ps) \subseteq KeyExpr /\ RootsOf(ps) \subseteq PublicKeys
            BY <3>2 DEF ExpressionsIn, RootsOf
        <3>4. /\ Call(WithPayloads(builder, ItemsOf(ps)))
              /\ expressions' = expressions \cup ExpressionsIn(ps)
              /\ given' = given \cup RootsOf(ps) /\ pathsSet' = pathsSet
            BY <1>12, <2>2 DEF SetPayloads
        <3>5. QED
            BY <1>1, <1>2, <3>1, <3>3, <3>4
    <2>3. QED
        BY <2>1, <2>2
<1>13. ASSUME NEW bl \in Loadable, SetEncryptedPayload(bl)
       PROVE  IInv'
    <2>1. bl \in BlobType
        BY <1>1, CallsAssumption DEF Loadable
    <2>2. Consistent(WithEncrypted(builder, bl), expressions, given, pathsSet \/ bl.format = "V1")
        BY <1>1, <2>1, WithEncryptedConsistent
    <2>3. /\ Call(WithEncrypted(builder, bl)) /\ given' = given /\ expressions' = expressions
          /\ pathsSet' = (pathsSet \/ bl.format = "V1")
        BY <1>13 DEF SetEncryptedPayload, Setting
    <2>4. QED
        BY <1>1, <1>2, <2>2, <2>3
<1>14. CASE Encrypt
    <2>1. /\ UNCHANGED <<builder, given, expressions, pathsSet>> /\ calls' \in Nat
          /\ answer' = [is |-> EncryptError(builder)]
        BY <1>1, <1>14 DEF Encrypt
    <2>2. answer'.is \in Outcomes
        <3>1. EncryptError(builder) \in Outcomes
            BY ErrorNamed
        <3>2. QED
            BY <2>1, <3>1
    <2>0. Consistent(builder, expressions, given, pathsSet)'
        BY <1>1, <2>1
    <2>3. CASE EncryptError(builder) = "none"
        <3>1. blob' = Encrypted(builder) /\ sealedFor' = given
            BY <1>14, <2>3 DEF Encrypt
        <3>2. blob' \in BlobType /\ BlobReads(blob', sealedFor') /\ MadeHere(blob')
            BY <1>1, <2>3, <3>1, EncryptedType, EncryptedReads, EncryptedHere
        <3>3. QED
            BY <1>1, <2>0, <2>1, <2>2, <3>1, <3>2 DEF IInv, TypeOK
    <2>4. CASE EncryptError(builder) # "none"
        <3>1. UNCHANGED <<blob, sealedFor>>
            BY <1>14, <2>4 DEF Encrypt
        <3>2. QED
            BY <1>1, <2>0, <2>1, <2>2, <3>1 DEF IInv, TypeOK
    <2>5. QED
        BY <2>3, <2>4
<1>15. CASE Decrypt
    <2>1. /\ UNCHANGED <<builder, blob, given, expressions, sealedFor, pathsSet>>
          /\ calls' \in Nat /\ answer' = Decrypted(builder)
        BY <1>1, <1>15 DEF Decrypt
    <2>2. answer'.is \in Outcomes
        BY <1>1, <2>1, DecryptedNamed
    <2>3. Consistent(builder, expressions, given, pathsSet)'
        BY <1>1, <2>1
    <2>4. QED
        BY <1>1, <2>1, <2>2, <2>3 DEF IInv, TypeOK
<1>16. CASE UNCHANGED vars
    <2>1. /\ builder' = builder /\ blob' = blob /\ answer' = answer /\ calls' = calls
          /\ given' = given /\ expressions' = expressions /\ sealedFor' = sealedFor
          /\ pathsSet' = pathsSet
        BY <1>16 DEF vars
    <2>2. Consistent(builder, expressions, given, pathsSet)'
        BY <1>1, <2>1
    <2>3. QED
        BY <1>1, <2>1, <2>2 DEF IInv, TypeOK
<1>17. ASSUME NEW ps \in {<<p>> : p \in Payloads} \cup (Payloads \X Payloads)
       PROVE  ps \in Seq(PayloadType)
    <2>1. \A p \in Payloads : p \in PayloadType
        BY CallsAssumption
    <2>2. CASE ps \in {<<p>> : p \in Payloads}
        <3>1. PICK p \in Payloads : ps = <<p>>
            BY <2>2
        <3>2. QED
            BY <2>1, <3>1
    <2>3. CASE ps \in Payloads \X Payloads
        <3>1. PICK p \in Payloads, q \in Payloads : ps = <<p, q>>
            BY <2>3
        <3>2. QED
            BY <2>1, <3>1
    <2>4. QED
        BY <2>2, <2>3
<1>18. ASSUME NEW p \in Paddings, SetPadding(p)
       PROVE  IInv'
    <2> DEFINE b == [builder EXCEPT !.padding = p]
    <2>1. b \in BuilderType
        BY <1>1 DEF BuilderType
    <2>2. /\ b.keys = builder.keys /\ b.exposed = builder.exposed
          /\ b.keyPaths = builder.keyPaths /\ b.warnings = builder.warnings
          /\ b.paths = builder.paths
        BY <1>1 DEF BuilderType
    <2>3. QED
        BY <1>1, <1>3, <1>18, <2>1, <2>2 DEF SetPadding
<1>19. QED
    BY <1>4, <1>5, <1>6, <1>7, <1>8, <1>9, <1>10, <1>11, <1>12, <1>13, <1>14, <1>15, <1>16, <1>17,
       <1>18
    DEF Next

-----------------------------------------------------------------------------
(* The theorems                                                            *)

\* Theorem: the invariant holds of every sequence of calls.
THEOREM Invariance == Spec => []IInv
    BY InitIInv, NextIInv, PTL DEF Spec

\* Theorem: type correctness of the builder and of what it returned.
THEOREM TypeCorrect == Spec => []TypeOK
<1>1. IInv => TypeOK
    BY DEF IInv
<1>2. QED
    BY <1>1, Invariance, PTL

\* The keys on chain are those that DescrExposedKeys finds.
LEMMA OnChainExposed ==
    ASSUME expressions \subseteq KeyExpr
    PROVE  \A k : OnChain(k) <=> XOnly[k] \in DescrExposedKeys(expressions)
<1>1. \A e \in expressions : ~MayEncrypt(e) <=> e.is = "literal" \/ ~e.derived
    BY DEF MayEncrypt, KeyExpr
<1>2. QED
    BY <1>1 DEF OnChain, DescrExposedKeys

\* Theorem: no recipient ever shows up on chain (drop_exposed_keys,
\* descr_exposed_keys), for every set of keys, key expressions and calls.
THEOREM RecipientsOffChainCorrect == Spec => []RecipientsOffChain
<1>1. IInv => RecipientsOffChain
    <2> SUFFICES ASSUME IInv PROVE RecipientsOffChain
        OBVIOUS
    <2>1. expressions \subseteq KeyExpr /\ Consistent(builder, expressions, given, pathsSet)
        BY DEF IInv, TypeOK
    <2>2. \A k \in builder.keys : XOnly[k] \notin DescrExposedKeys(expressions)
        BY <2>1 DEF Consistent, Pooled
    <2>3. QED
        BY <2>1, <2>2, OnChainExposed DEF RecipientsOffChain
<1>2. QED
    BY <1>1, Invariance, PTL

\* Theorem: no recipient is lost in silence; every key that was given is one,
\* or a warning says truly why not (descr_warnings, drop_exposed_keys).
THEOREM EveryoneAccountedCorrect == Spec => []EveryoneAccounted
<1>1. IInv => EveryoneAccounted
    <2> SUFFICES ASSUME IInv PROVE EveryoneAccounted
        OBVIOUS
    <2>1. expressions \subseteq KeyExpr /\ Pooled(builder, expressions, given, pathsSet)
        BY DEF IInv, TypeOK, Consistent
    <2>2. \A k \in given \ builder.keys : Told(builder, k, expressions)
        BY <2>1 DEF Pooled
    <2>3. \A k \in given \ builder.keys : \E w \in builder.warnings :
             /\ WarnedOf(w, k)
             /\ w[1] = "NumsKey" <=> XOnly[k] = NumsX /\ w[1] # "ExposedRoot"
             /\ w[1] = "ExposedRoot" => OnChain(k)
        BY <2>1, <2>2, OnChainExposed DEF Told
    <2>4. builder.keys \subseteq given
        BY <2>1 DEF Pooled
    <2>5. QED
        BY <2>3, <2>4 DEF EveryoneAccounted
<1>2. QED
    BY <1>1, Invariance, PTL

\* Theorem: while the caller leaves the paths alone they are the origins of the
\* recipients and of nobody else (add_key_paths, drop_exposed_keys).
THEOREM PathsFollowKeysCorrect == Spec => []PathsFollowKeys
<1>1. IInv => PathsFollowKeys
    <2> SUFFICES ASSUME IInv, ~pathsSet
                 PROVE  builder.paths = {e.origin : e \in {x \in expressions :
                            /\ MayEncrypt(x) /\ x.origin # NoOrigin
                            /\ XOnly[x.root] # NumsX /\ ~OnChain(x.root)}}
        BY DEF PathsFollowKeys
    <2>1. expressions \subseteq KeyExpr /\ Consistent(builder, expressions, given, pathsSet)
        BY DEF IInv, TypeOK
    <2>2. builder.paths = {kp[2] : kp \in {q \in KeyPaths(expressions) :
                                            XOnly[q[1]] \notin DescrExposedKeys(expressions)}}
        BY <2>1 DEF Consistent, Pooled, KeptPaths
    <2>3. \A k : OnChain(k) <=> XOnly[k] \in DescrExposedKeys(expressions)
        BY <2>1, OnChainExposed
    <2>4. KeyPaths(expressions) = {<<e.root, e.origin>> : e \in {x \in expressions :
              MayEncrypt(x) /\ XOnly[x.root] # NumsX /\ x.origin # NoOrigin}}
        BY DEF KeyPaths, DescrToDpks
    <2>5. ASSUME NEW p
          PROVE  p \in builder.paths
                 <=> \E e \in expressions : /\ MayEncrypt(e) /\ e.origin # NoOrigin
                                            /\ XOnly[e.root] # NumsX /\ ~OnChain(e.root)
                                            /\ p = e.origin
        <3>1. p \in builder.paths
              <=> \E q \in KeyPaths(expressions) :
                     XOnly[q[1]] \notin DescrExposedKeys(expressions) /\ p = q[2]
            BY <2>2
        <3>2. \A q : q \in KeyPaths(expressions)
                     <=> \E e \in expressions : /\ MayEncrypt(e) /\ XOnly[e.root] # NumsX
                                                /\ e.origin # NoOrigin
                                                /\ q = <<e.root, e.origin>>
            BY <2>4
        <3>3. ASSUME p \in builder.paths
              PROVE  \E e \in expressions : /\ MayEncrypt(e) /\ e.origin # NoOrigin
                                            /\ XOnly[e.root] # NumsX /\ ~OnChain(e.root)
                                            /\ p = e.origin
            <4>1. PICK q \in KeyPaths(expressions) :
                     XOnly[q[1]] \notin DescrExposedKeys(expressions) /\ p = q[2]
                BY <3>1, <3>3
            <4>2. PICK e \in expressions : /\ MayEncrypt(e) /\ XOnly[e.root] # NumsX
                                           /\ e.origin # NoOrigin /\ q = <<e.root, e.origin>>
                BY <3>2
            <4>3. q[1] = e.root /\ q[2] = e.origin
                BY <4>2
            <4>4. ~OnChain(e.root) /\ p = e.origin
                BY <2>3, <4>1, <4>3
            <4>5. QED
                BY <4>2, <4>4
        <3>4. ASSUME NEW e \in expressions, MayEncrypt(e), e.origin # NoOrigin,
                     XOnly[e.root] # NumsX, ~OnChain(e.root), p = e.origin
              PROVE  p \in builder.paths
            <4> DEFINE q == <<e.root, e.origin>>
            <4>1. q \in KeyPaths(expressions)
                BY <3>2, <3>4
            <4>2. XOnly[q[1]] \notin DescrExposedKeys(expressions) /\ p = q[2]
                BY <2>3, <3>4
            <4>3. QED
                BY <3>1, <4>1, <4>2
        <3>5. QED
            BY <3>3, <3>4
    <2>6. QED
        BY <2>5
<1>2. QED
    BY <1>1, Invariance, PTL

\* The fields of a builder that is given a backup and then one key.
LEMMA ReaderFields ==
    ASSUME NEW b \in BuilderType, NEW bl \in BlobType, NEW k \in PublicKeys
    PROVE  LET r == WithKeys(WithEncrypted(b, bl), {k})
           IN  /\ r.keys = IF XOnly[k] \in b.exposed THEN {} ELSE {k}
               /\ r.version = b.version
               /\ r.encryption = IF bl.format = "V1" THEN bl.encryption ELSE b.encryption
               /\ r.payload = ToDecrypt(bl)
<1> DEFINE d == WithEncrypted(b, bl)
           e == [d EXCEPT !.keys = {k}]
<1>1. ToDecrypt(bl) \in PayloadTypes
    BY DEF ToDecrypt, PayloadTypes
<1>2. bl.paths \in SUBSET Paths /\ bl.encryption \in Encryptions /\ bl.format \in {"V0", "V1"}
    BY DEF BlobType
<1>3. /\ d \in BuilderType /\ d.exposed = b.exposed /\ d.version = b.version
      /\ d.encryption = IF bl.format = "V1" THEN bl.encryption ELSE b.encryption
      /\ d.payload = ToDecrypt(bl)
    BY <1>1, <1>2 DEF WithEncrypted, BuilderType
<1> HIDE DEF d
<1>4. /\ e \in BuilderType /\ e.keys = {k} /\ e.exposed = d.exposed /\ e.version = d.version
      /\ e.encryption = d.encryption /\ e.payload = d.payload
    BY <1>3 DEF BuilderType
<1> HIDE DEF e
<1>5. ExposedRoots(e) = IF XOnly[k] \in b.exposed THEN {k} ELSE {}
    BY <1>3, <1>4 DEF ExposedRoots
<1> DEFINE r == DropExposedKeys(e)
<1>6. /\ r.keys = e.keys \ ExposedRoots(e) /\ r.version = e.version
      /\ r.encryption = e.encryption /\ r.payload = e.payload
    BY <1>4 DEF DropExposedKeys, BuilderType
<1> HIDE DEF r
<1>7. r = WithKeys(WithEncrypted(b, bl), {k})
    BY DEF r, e, d, WithKeys
<1>8. QED
    BY <1>3, <1>4, <1>5, <1>6, <1>7

\* What the fresh builder of a holder of k reads from a backup that encrypt
\* wrote depends on nothing but the backup's recipients.
LEMMA FreshReader ==
    ASSUME NEW k \in PublicKeys, blob \in BlobType, MadeHere(blob)
    PROVE  ReadBack(k) = IF XOnly[k] \in blob.to THEN Extract(blob.items)
                                                 ELSE [is |-> "WrongKey"]
<1> DEFINE r == WithKeys(WithEncrypted(NewBuilder, blob), {k})
<1>1. NewBuilder.exposed = {} /\ NewBuilder.version = "V1"
    BY DEF NewBuilder
<1>2. /\ r.keys = {k} /\ r.version = "V1" /\ r.encryption = "ChaCha20Poly1305"
      /\ r.payload = ToDecrypt(blob)
    BY <1>1, NewBuilderType, ReaderFields DEF MadeHere
<1>3. ReadBack(k) = Decrypted(r)
    BY DEF ReadBack
<1> HIDE DEF r
<1>4. r.payload.is = "decrypt" /\ r.payload.of = blob /\ blob.format = "V1" /\ blob.decodes
    BY <1>2 DEF ToDecrypt, MadeHere
<1>5. ~IsV0(r) /\ r.keys # {}
    BY <1>2, <1>4 DEF IsV0
<1>6. Decrypted(r) = DecryptedV1(r)
    BY <1>2, <1>4, <1>5 DEF Decrypted
<1>7. Opens(r) <=> XOnly[k] \in blob.to
    BY <1>2, <1>4 DEF Opens, XOnlys
<1>8. QED
    BY <1>3, <1>4, <1>6, <1>7 DEF DecryptedV1

\* Theorem: everyone given to the builder of a backup reads it, but those that
\* its warnings name and the NUMS point (encrypt, decrypt).
THEOREM EveryRecipientReadsCorrect == Spec => []EveryRecipientReads
<1>1. IInv => EveryRecipientReads
    <2> SUFFICES ASSUME IInv, blob # NoBlob, NEW k \in sealedFor
                 PROVE  IF (\E w \in blob.warnings : WarnedOf(w, k)) \/ XOnly[k] = NumsX
                        THEN ReadBack(k).is = "WrongKey"
                        ELSE ReadBack(k) = Extract(blob.items)
        BY DEF EveryRecipientReads
    <2>1. k \in PublicKeys
        BY DEF IInv, TypeOK
    <2>2. ReadBack(k) = IF XOnly[k] \in blob.to THEN Extract(blob.items)
                                                ELSE [is |-> "WrongKey"]
        BY <2>1, FreshReader DEF IInv, TypeOK
    <2>3. IF (\E w \in blob.warnings : WarnedOf(w, k)) \/ XOnly[k] = NumsX
          THEN XOnly[k] \notin blob.to ELSE XOnly[k] \in blob.to
        BY DEF IInv, BlobReads
    <2>4. QED
        BY <2>2, <2>3
<1>2. QED
    BY <1>1, Invariance, PTL

\* What any builder answers that is given a backup and a key.
LEMMA ReaderAnswers ==
    ASSUME NEW bl \in BlobType, NEW k \in PublicKeys, builder \in BuilderType
    PROVE  LET r == WithKeys(WithEncrypted(builder, bl), {k})
               opens == XOnly[k] \in bl.to
           IN  Reused(bl, k) =
               IF XOnly[k] \in builder.exposed THEN [is |-> "NoKey"]
               ELSE IF bl.format = "V0" THEN
                    IF ~bl.decodes THEN [is |-> "WrongPayload"]
                    ELSE IF opens THEN [is |-> "items", items |-> bl.items] ELSE [is |-> "WrongKey"]
               ELSE IF builder.version = "V0" THEN [is |-> "NotImplemented"]
               ELSE IF builder.version = "Unknown" THEN [is |-> "UnknownVersion"]
               ELSE IF bl.encryption # "ChaCha20Poly1305" THEN [is |-> "UnsupportedEncryption"]
               ELSE IF opens /\ bl.decodes THEN Extract(bl.items) ELSE [is |-> "WrongKey"]
<1> DEFINE r == WithKeys(WithEncrypted(builder, bl), {k})
<1>1. /\ r.keys = IF XOnly[k] \in builder.exposed THEN {} ELSE {k}
      /\ r.version = builder.version
      /\ r.encryption = IF bl.format = "V1" THEN bl.encryption ELSE builder.encryption
      /\ r.payload = ToDecrypt(bl)
    BY ReaderFields
<1>2. Reused(bl, k) = Decrypted(r)
    BY DEF Reused
<1> HIDE DEF r
<1>3. r.payload.is = "decrypt" /\ r.payload.of = bl
    BY <1>1 DEF ToDecrypt
<1>4. bl.format \in {"V0", "V1"} /\ (IsV0(r) <=> bl.format = "V0") /\ r.version \in Versions
    BY <1>1, <1>3 DEF IsV0, BlobType, BuilderType
<1>5. CASE XOnly[k] \in builder.exposed
    BY <1>1, <1>2, <1>5 DEF Decrypted
<1>6. CASE XOnly[k] \notin builder.exposed
    <2>1. r.keys = {k} /\ r.keys # {} /\ (Opens(r) <=> XOnly[k] \in bl.to)
        BY <1>1, <1>3, <1>6 DEF Opens, XOnlys
    <2>2. CASE bl.format = "V0"
        <3>1. Decrypted(r) = DecryptedV0(r)
            BY <1>4, <2>1, <2>2 DEF Decrypted
        <3>2. QED
            BY <1>2, <1>3, <1>6, <2>1, <2>2, <3>1 DEF DecryptedV0
    <2>3. CASE bl.format = "V1" /\ r.version # "V1"
        BY <1>1, <1>2, <1>4, <1>6, <2>1, <2>3 DEF Decrypted, Versions
    <2>4. CASE bl.format = "V1" /\ r.version = "V1"
        <3>1. Decrypted(r) = IF r.encryption # "ChaCha20Poly1305"
                             THEN [is |-> "UnsupportedEncryption"] ELSE DecryptedV1(r)
            BY <1>3, <1>4, <2>1, <2>4 DEF Decrypted
        <3>2. QED
            BY <1>1, <1>2, <1>3, <1>6, <2>1, <2>4, <3>1 DEF DecryptedV1
    <2>5. QED
        BY <1>4, <2>2, <2>3, <2>4
<1>7. QED
    BY <1>5, <1>6

\* Theorem: whatever a builder has been used for, what it reads from the bytes
\* it is given is that backup, only with a recipient's key, and every refusal
\* has its cause in the bytes, the version or the keys on chain
\* (set_encrypted_payload, set_keys, decrypt_with).
THEOREM LoadedReadCorrect == Spec => []LoadedRead
<1>1. IInv => LoadedRead
    <2> SUFFICES ASSUME IInv PROVE LoadedRead
        OBVIOUS
    <2>1. /\ builder \in BuilderType /\ blob \in BlobType /\ expressions \subseteq KeyExpr
          /\ builder.exposed = DescrExposedKeys(expressions)
        BY DEF IInv, TypeOK, Consistent, Pooled
    <2>2. Loadable \subseteq BlobType
        BY <2>1, CallsAssumption DEF Loadable
    <2>3. ASSUME NEW bl \in Loadable, NEW k \in PublicKeys
          PROVE  LET answered == Reused(bl, k).is
                     opens == XOnly[k] \in bl.to
                 IN  /\ answered = "items" => opens /\ bl.decodes /\ Reused(bl, k).items \in {bl.items, Values(bl.items)}
                     /\ answered = "WrongKey" => ~opens \/ ~bl.decodes
                     /\ answered = "NoKey" => OnChain(k)
                     /\ answered = "UnsupportedEncryption" => bl.encryption # "ChaCha20Poly1305"
                     /\ answered \in {"NotImplemented", "UnknownVersion"} =>
                           bl.format = "V1" /\ builder.version # "V1"
                     /\ answered = "WrongPayload" => bl.format = "V0" /\ ~bl.decodes
        <3>1. bl \in BlobType /\ bl.format \in {"V0", "V1"}
            BY <2>2 DEF BlobType
        <3>2. XOnly[k] \in builder.exposed => OnChain(k)
            BY <2>1, OnChainExposed
        <3> DEFINE read == Values(bl.items)
        <3>3. \/ Extract(bl.items) = [is |-> "ParseError"]
              \/ Extract(bl.items) = [is |-> "items", items |-> read]
            BY ExtractNamed
        <3> HIDE DEF read
        <3>4. /\ Reused(bl, k).is = "items" => XOnly[k] \in bl.to /\ bl.decodes
                                              /\ Reused(bl, k).items \in {bl.items, read}
              /\ Reused(bl, k).is = "WrongKey" => XOnly[k] \notin bl.to \/ ~bl.decodes
              /\ Reused(bl, k).is = "NoKey" => OnChain(k)
              /\ Reused(bl, k).is = "UnsupportedEncryption"
                    => bl.encryption # "ChaCha20Poly1305"
              /\ Reused(bl, k).is \in {"NotImplemented", "UnknownVersion"}
                    => bl.format = "V1" /\ builder.version # "V1"
              /\ Reused(bl, k).is = "WrongPayload" => bl.format = "V0" /\ ~bl.decodes
            BY <2>1, <3>1, <3>2, <3>3, ReaderAnswers
        <3>5. QED
            BY <3>4 DEF read
    <2>4. QED
        BY <2>3 DEF LoadedRead
<1>2. QED
    BY <1>1, Invariance, PTL

(************************* WalletPolicy: conversions ***********************)

\* entry x of the vector is the root of expression i
Indexes(ks, d, x, i) == HasRoot(d[i]) /\ ks[x] = KeyRoot(d[i])

Unique(ks) == \A x, y \in DOMAIN ks : ks[x] = ks[y] => x = y
\* every entry is the root of one of the first m expressions
Sourced(ks, d, m) == \A x \in DOMAIN ks : \E i \in 1..m : Indexes(ks, d, x, i)
\* the roots of the first m expressions are all there
Covered(ks, d, m) == \A i \in 1..m : HasRoot(d[i]) => \E x \in DOMAIN ks : Indexes(ks, d, x, i)
\* an expression whose root is entry x follows one with entry x - 1 or a later one
FirstSeen(ks, d, m) ==
    \A i \in 1..m, x \in DOMAIN ks : Indexes(ks, d, x, i) =>
        \/ x = 1
        \/ \E j \in 1..(i - 1), y \in DOMAIN ks : Indexes(ks, d, y, j) /\ y >= x - 1

Vector(ks, d, m) ==
    /\ Unique(ks)
    /\ Sourced(ks, d, m)
    /\ Covered(ks, d, m)
    /\ FirstSeen(ks, d, m)

\* the second pass is past expression i
Translated(i) == IF backwards THEN i > at ELSE i < at

\* The inductive invariant.
CInv ==
    /\ ConvertTypeOK
    /\ stage = "index" => at \in 1..(Len(descriptor) + 1) /\ Vector(keys, descriptor, at - 1)
    /\ stage \in {"translate", "done"} =>
          /\ IF backwards THEN at \in 0..Len(descriptor) ELSE at \in 1..(Len(descriptor) + 1)
          /\ Vector(keys, descriptor, Len(descriptor))
          /\ \A i \in DOMAIN descriptor : Translated(i) =>
                HasPlaceholder(descriptor[i]) /\ template[i] = PlaceholderOf(keys, descriptor[i])
    /\ stage = "done" => at \notin DOMAIN descriptor /\ KeyOrder(template)
    /\ stage = "failed" => \E i \in DOMAIN descriptor : ~HasPlaceholder(descriptor[i])

-----------------------------------------------------------------------------
(* The vector                                                              *)

\* A root is a key expression.
LEMMA RootType ==
    ASSUME NEW e \in KeyExpression
    PROVE  KeyRoot(e) \in KeyExpression /\ NoSuffix \in Suffix
<1>1. <<>> \in Path
    BY DEF Path
<1>2. <<<<>>>> \in Seq(Path) \ {<<>>}
    BY <1>1
<1>3. NoSuffix \in Suffix
    BY <1>2 DEF NoSuffix, Suffix, Wildcards
<1>4. QED
    BY <1>3 DEF KeyRoot, KeyExpression

\* KeySet::index of a vector without duplicates finds the entry.
LEMMA PositionIs ==
    ASSUME NEW ks \in Seq(KeyExpression), Unique(ks), NEW x \in DOMAIN ks
    PROVE  PositionOf(ks, ks[x]) = x
<1>1. /\ x \in DOMAIN ks /\ ks[x] = ks[x]
      /\ \A j \in 1..(x - 1) : ks[j] # ks[x]
    BY DEF Unique
<1>2. \A i \in DOMAIN ks : ks[i] = ks[x] /\ (\A j \in 1..(i - 1) : ks[j] # ks[x]) => i = x
    BY DEF Unique
<1>3. QED
    BY <1>1, <1>2 DEF PositionOf

\* One step of the first pass.
LEMMA IndexKeepsVector ==
    ASSUME NEW ks \in Seq(KeyExpression), NEW d \in Seq(KeyExpression), NEW m \in Nat,
           m + 1 \in DOMAIN d, Vector(ks, d, m)
    PROVE  /\ RootIndexed(ks, d[m + 1]) \in Seq(KeyExpression)
           /\ Vector(RootIndexed(ks, d[m + 1]), d, m + 1)
<1> DEFINE e == d[m + 1]
           k == KeyRoot(e)
<1>1. e \in KeyExpression /\ k \in KeyExpression
    BY RootType
<1>2. 1..(m + 1) = 1..m \cup {m + 1}
    OBVIOUS
<1>3. CASE ~HasRoot(e)
    <2>1. RootIndexed(ks, e) = ks
        BY <1>3 DEF RootIndexed
    <2>2. Sourced(ks, d, m + 1) /\ Covered(ks, d, m + 1) /\ FirstSeen(ks, d, m + 1)
        BY <1>2, <1>3 DEF Vector, Sourced, Covered, FirstSeen, Indexes
    <2>3. QED
        BY <2>1, <2>2 DEF Vector
<1>4. CASE HasRoot(e) /\ InVector(ks, k)
    <2>1. RootIndexed(ks, e) = ks
        BY <1>4 DEF RootIndexed, WithRoot
    <2>2. Sourced(ks, d, m + 1) /\ Covered(ks, d, m + 1)
        BY <1>2, <1>4 DEF Vector, Sourced, Covered, Indexes, InVector
    <2>3. ASSUME NEW x \in DOMAIN ks, Indexes(ks, d, x, m + 1), x # 1
          PROVE  \E j \in 1..m, y \in DOMAIN ks : Indexes(ks, d, y, j) /\ y >= x - 1
        <3>1. PICK j \in 1..m : Indexes(ks, d, x, j)
            BY DEF Vector, Sourced
        <3>2. QED
            BY <3>1
    <2>4. FirstSeen(ks, d, m + 1)
        BY <1>2, <2>3 DEF Vector, FirstSeen
    <2>5. QED
        BY <2>1, <2>2, <2>4 DEF Vector
<1>5. CASE HasRoot(e) /\ ~InVector(ks, k)
    <2> DEFINE n == Len(ks)
               new == Append(ks, k)
    <2>1. RootIndexed(ks, e) = new
        BY <1>5 DEF RootIndexed, WithRoot
    <2>2. /\ new \in Seq(KeyExpression) /\ n \in Nat /\ DOMAIN ks = 1..n
          /\ DOMAIN new = 1..(n + 1) /\ new[n + 1] = k
          /\ \A x \in 1..n : new[x] = ks[x]
        BY <1>1
    <2>3. \A x \in 1..n : new[x] # k
        BY <1>5, <2>2 DEF InVector
    <2> HIDE DEF new, n, k, e
    <2>4. 1..(n + 1) = 1..n \cup {n + 1}
        BY <2>2
    <2>5. Unique(new)
        BY <2>2, <2>3, <2>4 DEF Vector, Unique
    <2>6. Indexes(new, d, n + 1, m + 1)
        BY <1>5, <2>2 DEF Indexes, k, e
    <2>7. \A x \in 1..n, i \in 1..m : Indexes(new, d, x, i) <=> Indexes(ks, d, x, i)
        BY <2>2 DEF Indexes
    <2>8. Sourced(new, d, m + 1)
        BY <1>2, <2>2, <2>4, <2>6, <2>7 DEF Vector, Sourced
    <2>9. Covered(new, d, m + 1)
        BY <1>2, <2>2, <2>4, <2>6, <2>7 DEF Vector, Covered, Indexes
    <2>10. \A i \in 1..m : ~Indexes(new, d, n + 1, i)
        <3> SUFFICES ASSUME NEW i \in 1..m, Indexes(new, d, n + 1, i) PROVE FALSE
            OBVIOUS
        <3>1. HasRoot(d[i]) /\ k = KeyRoot(d[i])
            BY <2>2 DEF Indexes
        <3>2. PICK x \in DOMAIN ks : Indexes(ks, d, x, i)
            BY <3>1 DEF Vector, Covered
        <3>3. QED
            BY <2>2, <2>3, <3>1, <3>2 DEF Indexes
    <2>11. ASSUME NEW i \in 1..(m + 1), NEW x \in DOMAIN new, Indexes(new, d, x, i), x # 1
           PROVE  \E j \in 1..(i - 1), y \in DOMAIN new : Indexes(new, d, y, j) /\ y >= x - 1
        <3>1. CASE i = m + 1
            <4>1. x = n + 1
                BY <2>2, <2>3, <2>4, <2>11, <3>1 DEF Indexes, k, e
            <4>2. n \in DOMAIN ks
                BY <2>2, <2>11, <4>1
            <4>3. PICK j \in 1..m : Indexes(ks, d, n, j)
                BY <4>2 DEF Vector, Sourced
            <4>4. Indexes(new, d, n, j) /\ n \in DOMAIN new /\ n >= x - 1
                BY <2>2, <2>7, <4>1, <4>2, <4>3
            <4>5. QED
                BY <3>1, <4>3, <4>4
        <3>2. CASE i \in 1..m
            <4>1. x \in 1..n /\ Indexes(ks, d, x, i)
                BY <2>2, <2>4, <2>7, <2>10, <2>11, <3>2
            <4>2. PICK j \in 1..(i - 1), y \in DOMAIN ks : Indexes(ks, d, y, j) /\ y >= x - 1
                BY <2>2, <2>11, <3>2, <4>1 DEF Vector, FirstSeen
            <4>3. j \in 1..m /\ y \in 1..n
                BY <2>2, <3>2, <4>2
            <4>4. Indexes(new, d, y, j) /\ y \in DOMAIN new
                BY <2>2, <2>7, <4>2, <4>3
            <4>5. QED
                BY <4>2, <4>4
        <3>3. QED
            BY <1>2, <3>1, <3>2
    <2>12. FirstSeen(new, d, m + 1)
        BY <2>11 DEF FirstSeen
    <2>13. QED
        BY <2>1, <2>2, <2>5, <2>8, <2>9, <2>12 DEF Vector, e
<1>6. QED
    BY <1>3, <1>4, <1>5

\* A root that the vector covers is found where it is.
LEMMA CoveredPosition ==
    ASSUME NEW ks \in Seq(KeyExpression), NEW d \in Seq(KeyExpression),
           Vector(ks, d, Len(d)), NEW i \in DOMAIN d, HasRoot(d[i])
    PROVE  /\ InVector(ks, KeyRoot(d[i]))
           /\ PositionOf(ks, KeyRoot(d[i])) \in DOMAIN ks
           /\ Indexes(ks, d, PositionOf(ks, KeyRoot(d[i])), i)
<1>1. i \in 1..Len(d)
    OBVIOUS
<1>2. PICK x \in DOMAIN ks : Indexes(ks, d, x, i)
    BY <1>1 DEF Vector, Covered
<1>3. ks[x] = KeyRoot(d[i])
    BY <1>2 DEF Indexes
<1>4. PositionOf(ks, KeyRoot(d[i])) = x
    BY <1>3, PositionIs DEF Vector
<1>5. QED
    BY <1>2, <1>3, <1>4 DEF InVector

\* A template of the placeholders that the vector gives is in the order that
\* BIP388 asks for.
LEMMA PlaceholdersInOrder ==
    ASSUME NEW ks \in Seq(KeyExpression), NEW d \in Seq(KeyExpression),
           Vector(ks, d, Len(d)), NEW t, DOMAIN t = DOMAIN d,
           \A i \in DOMAIN d : HasRoot(d[i]) /\ t[i] = PlaceholderOf(ks, d[i])
    PROVE  KeyOrder(t)
<1> SUFFICES ASSUME NEW i \in DOMAIN d, t[i].index # 0
             PROVE  \E j \in 1..(i - 1) : t[j].index >= t[i].index - 1
    BY DEF KeyOrder
<1> DEFINE pos(j) == PositionOf(ks, KeyRoot(d[j]))
<1>1. \A j \in DOMAIN d : pos(j) \in DOMAIN ks /\ Indexes(ks, d, pos(j), j)
    BY CoveredPosition
<1>2. \A j \in DOMAIN d : t[j].index = pos(j) - 1
    BY DEF PlaceholderOf
<1>3. i \in 1..Len(d) /\ DOMAIN d = 1..Len(d) /\ DOMAIN ks = 1..Len(ks) /\ Len(ks) \in Nat
    OBVIOUS
<1> HIDE DEF pos
<1>4. pos(i) # 1
    BY <1>2
<1>5. PICK j \in 1..(i - 1), y \in DOMAIN ks : Indexes(ks, d, y, j) /\ y >= pos(i) - 1
    BY <1>1, <1>3, <1>4 DEF Vector, FirstSeen
<1>6. j \in DOMAIN d
    BY <1>3, <1>5
<1>7. pos(j) = y
    <2>1. ks[y] = KeyRoot(d[j])
        BY <1>5 DEF Indexes
    <2>2. QED
        BY <1>5, <2>1, PositionIs DEF Vector, pos
<1>8. t[j].index >= t[i].index - 1
    BY <1>1, <1>2, <1>3, <1>5, <1>6, <1>7
<1>9. QED
    BY <1>5, <1>8

\* Such a template and its vector give the descriptor back.
LEMMA PlaceholdersRebuild ==
    ASSUME NEW ks \in Seq(KeyExpression), NEW d \in Seq(KeyExpression),
           Vector(ks, d, Len(d)), NEW t, DOMAIN t = DOMAIN d, t = [i \in DOMAIN t |-> t[i]],
           \A i \in DOMAIN d : HasRoot(d[i]) /\ t[i] = PlaceholderOf(ks, d[i])
    PROVE  CanRebuild(t, ks) /\ Rebuilt(t, ks) = d
<1>1. ASSUME NEW i \in DOMAIN d
      PROVE  Resolves(ks, t[i]) /\ Resolved(ks, t[i]) = d[i]
    <2> DEFINE x == PositionOf(ks, KeyRoot(d[i]))
    <2>1. x \in DOMAIN ks /\ Indexes(ks, d, x, i)
        BY CoveredPosition
    <2>2. t[i].index = x - 1 /\ t[i].suffix = d[i].suffix
        BY DEF PlaceholderOf
    <2>3. d[i] \in KeyExpression /\ d[i].is = "xpub"
        BY DEF HasRoot
    <2> HIDE DEF x
    <2>4. x \in Nat /\ x - 1 + 1 = x
        BY <2>1
    <2>5. ks[x] = KeyRoot(d[i])
        BY <2>1 DEF Indexes
    <2>6. ks[x].is = "xpub" /\ ks[x].root = d[i].root
        BY <2>5 DEF KeyRoot
    <2>7. Resolves(ks, t[i])
        BY <2>1, <2>2, <2>4, <2>6 DEF Resolves, HasRoot
    <2>8. d[i] = [is |-> "xpub", root |-> d[i].root, suffix |-> d[i].suffix]
        BY <2>3 DEF KeyExpression
    <2>9. Resolved(ks, t[i]) = [is |-> "xpub", root |-> ks[x].root, suffix |-> d[i].suffix]
        BY <2>2, <2>4 DEF Resolved
    <2>10. QED
        BY <2>6, <2>7, <2>8, <2>9
<1>2. KeyOrder(t)
    BY PlaceholdersInOrder
<1>3. Rebuilt(t, ks) = [i \in DOMAIN d |-> d[i]]
    BY <1>1 DEF Rebuilt
<1>4. d = [i \in DOMAIN d |-> d[i]]
    OBVIOUS
<1>5. QED
    BY <1>1, <1>2, <1>3, <1>4 DEF CanRebuild

-----------------------------------------------------------------------------
(* The invariant                                                           *)

\* Before the first conversion there is nothing.
LEMMA ConvertInitCInv == ConvertInit => CInv
    BY DEF ConvertInit, CInv, ConvertTypeOK

\* A conversion begins with an empty vector.
LEMMA BeginCInv ==
    ASSUME CInv, NEW d \in Descriptors, Begin(d)
    PROVE  CInv'
<1>1. d \in Seq(KeyExpression) /\ Len(d) \in Nat
    BY PolicyAssumption
<1>2. /\ descriptor' = d /\ stage' = "index" /\ at' = 1 /\ keys' = <<>>
      /\ template' = [i \in DOMAIN d |-> Untranslated] /\ backwards' = backwards
    BY DEF Begin
<1>3. Vector(<<>>, d, 0)
    BY DEF Vector, Unique, Sourced, Covered, FirstSeen
<1>4. ConvertTypeOK'
    BY <1>1, <1>2 DEF CInv, ConvertTypeOK
<1>5. QED
    BY <1>1, <1>2, <1>3, <1>4 DEF CInv

\* The first pass.
LEMMA IndexCInv ==
    ASSUME CInv, IndexRoot \/ Indexed
    PROVE  CInv'
<1>1. /\ ConvertTypeOK /\ stage = "index" /\ at \in 1..(Len(descriptor) + 1)
      /\ Vector(keys, descriptor, at - 1)
    BY DEF CInv, IndexRoot, Indexed
<1>2. /\ descriptor \in Seq(KeyExpression) /\ keys \in Seq(KeyExpression) /\ Len(descriptor) \in Nat
      /\ DOMAIN descriptor = 1..Len(descriptor)
    BY <1>1 DEF ConvertTypeOK
<1>3. CASE IndexRoot
    <2>1. /\ at \in DOMAIN descriptor /\ at' = at + 1 /\ stage' = "index"
          /\ keys' = RootIndexed(keys, descriptor[at])
          /\ backwards' = backwards /\ descriptor' = descriptor /\ template' = template
        BY <1>1, <1>3 DEF IndexRoot
    <2>2. at - 1 \in Nat /\ at - 1 + 1 = at /\ at' - 1 = at
        BY <1>1, <1>2, <2>1
    <2>3. keys' \in Seq(KeyExpression) /\ Vector(keys', descriptor, at)
        BY <1>1, <1>2, <2>1, <2>2, IndexKeepsVector
    <2>4. at' \in 1..(Len(descriptor) + 1)
        BY <1>2, <2>1
    <2>5. ConvertTypeOK'
        BY <1>1, <2>1, <2>3, <2>4 DEF ConvertTypeOK
    <2>6. QED
        BY <2>1, <2>2, <2>3, <2>4, <2>5 DEF CInv
<1>4. CASE Indexed
    <2>1. /\ at \notin DOMAIN descriptor /\ stage' = "translate"
          /\ at' = IF backwards THEN Len(descriptor) ELSE 1
          /\ backwards' = backwards /\ descriptor' = descriptor /\ template' = template
          /\ keys' = keys
        BY <1>4 DEF Indexed
    <2>2. at - 1 = Len(descriptor)
        BY <1>1, <1>2, <2>1
    <2>3. Vector(keys, descriptor, Len(descriptor))
        BY <1>1, <2>2
    <2>4. IF backwards THEN at' \in 0..Len(descriptor) ELSE at' \in 1..(Len(descriptor) + 1)
        BY <1>2, <2>1
    <2>5. \A i \in DOMAIN descriptor : ~(IF backwards THEN i > at' ELSE i < at')
        BY <1>2, <2>1
    <2>6. ConvertTypeOK'
        BY <1>1, <1>2, <2>1, <2>4 DEF ConvertTypeOK
    <2>7. QED
        BY <2>1, <2>3, <2>4, <2>5, <2>6 DEF CInv, Translated
<1>5. QED
    BY <1>3, <1>4

\* The second pass finds every root in the vector.
LEMMA TranslateCInv ==
    ASSUME CInv, TranslateKey
    PROVE  CInv'
<1> DEFINE e == descriptor[at]
           p == PlaceholderOf(keys, e)
<1>1. /\ ConvertTypeOK /\ stage = "translate" /\ at \in DOMAIN descriptor /\ HasPlaceholder(e)
      /\ Vector(keys, descriptor, Len(descriptor))
      /\ \A i \in DOMAIN descriptor : Translated(i) =>
            HasPlaceholder(descriptor[i]) /\ template[i] = PlaceholderOf(keys, descriptor[i])
    BY DEF CInv, TranslateKey
<1>2. /\ descriptor \in Seq(KeyExpression) /\ keys \in Seq(KeyExpression) /\ Len(descriptor) \in Nat
      /\ DOMAIN descriptor = 1..Len(descriptor) /\ backwards \in BOOLEAN
      /\ template \in [DOMAIN descriptor -> Placeholder \cup {Untranslated}]
    BY <1>1 DEF ConvertTypeOK
<1>3. HasRoot(e) /\ e \in KeyExpression
    BY <1>1, <1>2 DEF HasPlaceholder
<1>4. InVector(keys, KeyRoot(e)) /\ PositionOf(keys, KeyRoot(e)) \in DOMAIN keys
    BY <1>1, <1>2, <1>3, CoveredPosition
<1>5. keys' = keys
    BY <1>4 DEF TranslateKey, WithRoot
<1>6. p \in Placeholder
    <2>1. PositionOf(keys, KeyRoot(e)) - 1 \in Nat
        BY <1>2, <1>4
    <2>2. e.suffix \in Suffix
        BY <1>3 DEF KeyExpression
    <2>3. QED
        BY <2>1, <2>2 DEF PlaceholderOf, Placeholder
<1>7. /\ template' = [template EXCEPT ![at] = p] /\ stage' = "translate"
      /\ at' = IF backwards THEN at - 1 ELSE at + 1
      /\ backwards' = backwards /\ descriptor' = descriptor
    BY <1>1, <1>5 DEF TranslateKey
<1> HIDE DEF p, e
<1>8. IF backwards THEN at' \in 0..Len(descriptor) ELSE at' \in 1..(Len(descriptor) + 1)
    BY <1>1, <1>2, <1>7
<1>9. ConvertTypeOK'
    BY <1>1, <1>2, <1>5, <1>6, <1>7, <1>8 DEF ConvertTypeOK
<1>10. ASSUME NEW i \in DOMAIN descriptor, Translated(i)'
       PROVE  HasPlaceholder(descriptor[i]) /\ template'[i] = PlaceholderOf(keys, descriptor[i])
    <2>1. CASE i = at
        BY <1>1, <1>2, <1>7, <2>1 DEF p, e
    <2>2. CASE i # at
        <3>1. Translated(i)
            BY <1>1, <1>2, <1>7, <1>10, <2>2 DEF Translated
        <3>2. template'[i] = template[i]
            BY <1>2, <1>7, <2>2
        <3>3. QED
            BY <1>1, <3>1, <3>2
    <2>3. QED
        BY <2>1, <2>2
<1>11. QED
    BY <1>1, <1>5, <1>7, <1>8, <1>9, <1>10 DEF CInv

\* The check of the order never fails.
LEMMA CheckCInv ==
    ASSUME CInv, RefuseKey \/ CheckKeyOrder
    PROVE  CInv'
<1>1. /\ ConvertTypeOK /\ stage = "translate"
      /\ IF backwards THEN at \in 0..Len(descriptor) ELSE at \in 1..(Len(descriptor) + 1)
      /\ Vector(keys, descriptor, Len(descriptor))
      /\ \A i \in DOMAIN descriptor : Translated(i) =>
            HasPlaceholder(descriptor[i]) /\ template[i] = PlaceholderOf(keys, descriptor[i])
      /\ backwards' = backwards /\ descriptor' = descriptor /\ at' = at
      /\ keys' = keys /\ template' = template
    BY DEF CInv, RefuseKey, CheckKeyOrder
<1>2. /\ descriptor \in Seq(KeyExpression) /\ keys \in Seq(KeyExpression) /\ Len(descriptor) \in Nat
      /\ DOMAIN descriptor = 1..Len(descriptor) /\ DOMAIN template = DOMAIN descriptor
    BY <1>1 DEF ConvertTypeOK
<1>3. CASE RefuseKey
    <2>1. stage' = "failed" /\ \E i \in DOMAIN descriptor : ~HasPlaceholder(descriptor[i])
        BY <1>3 DEF RefuseKey
    <2>2. QED
        BY <1>1, <2>1 DEF CInv, ConvertTypeOK
<1>4. CASE CheckKeyOrder
    <2>1. at \notin DOMAIN descriptor
        BY <1>4 DEF CheckKeyOrder
    <2>2. \A i \in DOMAIN descriptor : Translated(i)
        BY <1>1, <1>2, <2>1 DEF Translated
    <2>3. \A i \in DOMAIN descriptor :
             HasRoot(descriptor[i]) /\ template[i] = PlaceholderOf(keys, descriptor[i])
        BY <1>1, <2>2 DEF HasPlaceholder
    <2>4. KeyOrder(template)
        BY <1>1, <1>2, <2>3, PlaceholdersInOrder
    <2>5. stage' = "done"
        BY <1>4, <2>4 DEF CheckKeyOrder
    <2>6. QED
        BY <1>1, <2>1, <2>4, <2>5 DEF CInv, ConvertTypeOK, Translated
<1>5. QED
    BY <1>3, <1>4

\* No step of a conversion takes the invariant away.
LEMMA ConvertCInv == CInv /\ [ConvertNext]_convertVars => CInv'
<1> SUFFICES ASSUME CInv, [ConvertNext]_convertVars PROVE CInv'
    OBVIOUS
<1>1. CASE \E d \in Descriptors : Begin(d)
    BY <1>1, BeginCInv
<1>2. CASE ConvertStep
    BY <1>2, IndexCInv, TranslateCInv, CheckCInv DEF ConvertStep
<1>3. CASE UNCHANGED convertVars
    <2>1. /\ backwards' = backwards /\ descriptor' = descriptor /\ stage' = stage /\ at' = at
          /\ keys' = keys /\ template' = template
        BY <1>3 DEF convertVars
    <2>2. QED
        BY <2>1 DEF CInv, ConvertTypeOK, Translated
<1>4. QED
    BY <1>1, <1>2, <1>3 DEF ConvertNext

\* A policy that is done stands for its descriptor.
LEMMA CInvStands == CInv => PolicyStandsForIt
<1> SUFFICES ASSUME CInv PROVE PolicyStandsForIt
    OBVIOUS
<1>1. /\ descriptor \in Seq(KeyExpression) /\ keys \in Seq(KeyExpression) /\ Len(descriptor) \in Nat
      /\ DOMAIN descriptor = 1..Len(descriptor) /\ DOMAIN template = DOMAIN descriptor
      /\ template = [i \in DOMAIN template |-> template[i]]
    BY DEF CInv, ConvertTypeOK
<1>2. ASSUME stage = "done"
      PROVE  CanRebuild(template, keys) /\ Rebuilt(template, keys) = descriptor
    <2>1. \A i \in DOMAIN descriptor : Translated(i)
        BY <1>1, <1>2 DEF CInv, Translated
    <2>2. /\ Vector(keys, descriptor, Len(descriptor))
          /\ \A i \in DOMAIN descriptor :
                HasRoot(descriptor[i]) /\ template[i] = PlaceholderOf(keys, descriptor[i])
        BY <1>2, <2>1 DEF CInv, HasPlaceholder
    <2>3. QED
        BY <1>1, <2>2, PlaceholdersRebuild
<1>3. QED
    BY <1>2 DEF CInv, PolicyStandsForIt

-----------------------------------------------------------------------------
(* The theorems                                                            *)

\* Theorem: type correctness of a conversion.
THEOREM ConvertTypeCorrect == ConvertSpec => []ConvertTypeOK
<1>1. CInv => ConvertTypeOK
    BY DEF CInv
<1>2. QED
    BY <1>1, ConvertInitCInv, ConvertCInv, PTL DEF ConvertSpec

\* Theorem: the policy that from_descriptor returns stands for its descriptor,
\* of any length and in the order of either miniscript release, and only a key
\* without placeholder is refused (WalletPolicy::from_descriptor).
THEOREM PolicyCorrect == ConvertSpec => []PolicyStandsForIt
    BY CInvStands, ConvertInitCInv, ConvertCInv, PTL DEF ConvertSpec

(********************* BackupDocuments: what is stored *********************)

PolicySetType == [keys : Seq(KeyExpression), policy : {TemplateText(t) : t \in Seq(Placeholder)},
                  meta : Metas]
DocumentType == HandMade \cup {PolicyBackup(Version, ss) : ss \in Seq(PolicySetType)}

\* the sets and documents of the caller
DocTypeOK ==
    /\ sets \in Seq(PolicySetType) /\ sources \in Seq(Descriptors) /\ Len(sets) = Len(sources)
    /\ documents \in Seq(DocumentType)
    /\ madeFrom \in Seq(Seq(Descriptors)) /\ Len(madeFrom) = Len(documents)

\* the sets so far, and each document from sets, stand for their descriptors
Stand ==
    /\ \A n \in DOMAIN sets : StandsFor(sets[n], sources[n])
    /\ \A i \in DOMAIN documents : madeFrom[i] = <<>> \/
          /\ documents[i].is = "policy" /\ Len(documents[i].sets) = Len(madeFrom[i])
          /\ documents[i].sets \in Seq(PolicySetType)
          /\ \A n \in DOMAIN madeFrom[i] : StandsFor(documents[i].sets[n], madeFrom[i][n])

NoneRefused == \A i \in DOMAIN documents : ~Refuses(documents[i])

\* The inductive invariant.
DInv ==
    /\ CInv
    /\ stage # "idle" => descriptor \in Descriptors
    /\ DocTypeOK
    /\ Stand
    /\ outcome \notin {"none", "DescriptorBackup"} => NoneRefused
    /\ DocumentKeys

-----------------------------------------------------------------------------
(* Templates                                                               *)

\* The text of a suffix is read as that suffix, or not at all.
LEMMA SuffixReadsBack ==
    ASSUME NEW s \in Suffix
    PROVE  /\ Readable(SuffixText(s)) => SuffixRead(SuffixText(s)) = s
           /\ Readable(SuffixText(s)) <=> s.wildcard # "none" /\ Expressible(s)
<1>1. /\ s.paths \in Seq(Path) /\ s.paths # <<>> /\ Len(s.paths) \in Nat
      /\ s = [paths |-> s.paths, wildcard |-> s.wildcard]
    BY DEF Suffix
<1>2. Len(s.paths) >= 1
    BY <1>1
<1>3. CASE IsDefault(s)
    <2>1. s.paths = DefaultMultipath /\ s.wildcard = "unhardened"
        BY <1>3 DEF IsDefault
    <2>2. SuffixText(s).stars /\ SuffixRead(SuffixText(s)) = s
        BY <1>1, <1>3, <2>1 DEF SuffixText, SuffixRead
    <2>3. Len(DefaultMultipath) = 2 /\ DOMAIN DefaultMultipath = 1..2
          /\ Len(DefaultMultipath[1]) = 1 /\ Len(DefaultMultipath[2]) = 1
        BY DEF DefaultMultipath
    <2>4. Expressible(s)
        BY <2>1, <2>3 DEF Expressible
    <2>5. QED
        BY <2>1, <2>2, <2>4 DEF Readable
<1>4. CASE ~IsDefault(s)
    <2>1. ~SuffixText(s).stars /\ SuffixText(s).written = s
        BY <1>4 DEF SuffixText
    <2>2. SuffixRead(SuffixText(s)) = s
        BY <2>1 DEF SuffixRead
    <2>3. Readable(SuffixText(s)) <=> s.wildcard # "none" /\ Expressible(s)
        <3> DEFINE x == SuffixText(s)
                   n == Len(s.paths)
                   first == s.paths[1] # <<>>
                   ones == \A i \in DOMAIN s.paths : Len(s.paths[i]) = 1
        <3>1. Readable(x) <=> s.wildcard # "none" /\ (IF n = 1 THEN first ELSE ones)
            BY <2>1 DEF Readable
        <3>2. Expressible(s) <=> (n = 1 /\ first) \/ (n > 1 /\ ones)
            BY DEF Expressible
        <3>3. n \in Nat /\ n >= 1
            BY <1>1, <1>2
        <3> HIDE DEF x, n, first, ones
        <3>4. n # 1 <=> n > 1
            BY <3>3
        <3>5. Readable(x) <=> s.wildcard # "none" /\ Expressible(s)
            BY <3>1, <3>2, <3>4
        <3>6. QED
            BY <3>5 DEF x
    <2>4. QED
        BY <2>2, <2>3
<1>5. QED
    BY <1>3, <1>4

\* A template whose suffixes can be written is read back from its text.
LEMMA TemplateReadsBack ==
    ASSUME NEW t, t = [i \in DOMAIN t |-> t[i]],
           \A i \in DOMAIN t : t[i] \in Placeholder /\ Readable(SuffixText(t[i].suffix))
    PROVE  TemplateRead(TemplateText(t)) = t
<1> DEFINE text == TemplateText(t)
<1>1. /\ DOMAIN text = DOMAIN t
      /\ \A i \in DOMAIN t : text[i].index = t[i].index /\ text[i].suffix = SuffixText(t[i].suffix)
    BY DEF TemplateText
<1>2. ASSUME NEW i \in DOMAIN t
      PROVE  [index |-> text[i].index, suffix |-> SuffixRead(text[i].suffix)] = t[i]
    <2>1. t[i].suffix \in Suffix /\ t[i] = [index |-> t[i].index, suffix |-> t[i].suffix]
        BY DEF Placeholder
    <2>2. SuffixRead(SuffixText(t[i].suffix)) = t[i].suffix
        BY <2>1, SuffixReadsBack
    <2>3. QED
        BY <1>1, <2>1, <2>2
<1> HIDE DEF text
<1>3. TemplateRead(text) = [i \in DOMAIN t |-> t[i]]
    BY <1>1, <1>2 DEF TemplateRead
<1>4. QED
    BY <1>3 DEF text

\* PolicySet::from_descriptor after a conversion that is done.
LEMMA MadeSetStands ==
    ASSUME CInv, stage = "done", NEW meta \in Metas
    PROVE  /\ PolicySet(keys, template, meta) \in PolicySetType
           /\ StandsFor(PolicySet(keys, template, meta), descriptor)
<1> DEFINE set == PolicySet(keys, template, meta)
<1>1. /\ descriptor \in Seq(KeyExpression) /\ keys \in Seq(KeyExpression) /\ Len(descriptor) \in Nat
      /\ DOMAIN descriptor = 1..Len(descriptor) /\ DOMAIN template = DOMAIN descriptor
      /\ template = [i \in DOMAIN template |-> template[i]]
      /\ at \notin DOMAIN descriptor
      /\ IF backwards THEN at \in 0..Len(descriptor) ELSE at \in 1..(Len(descriptor) + 1)
      /\ Vector(keys, descriptor, Len(descriptor))
    BY DEF CInv, ConvertTypeOK
<1>2. \A i \in DOMAIN descriptor : Translated(i)
    BY <1>1 DEF Translated
<1>3. \A i \in DOMAIN descriptor :
         HasPlaceholder(descriptor[i]) /\ template[i] = PlaceholderOf(keys, descriptor[i])
    BY <1>2 DEF CInv
<1>4. ASSUME NEW i \in DOMAIN descriptor
      PROVE  /\ template[i] \in Placeholder /\ template[i].suffix = descriptor[i].suffix
             /\ descriptor[i].suffix.wildcard # "none" /\ descriptor[i].suffix \in Suffix
    <2> DEFINE index == PositionOf(keys, KeyRoot(descriptor[i])) - 1
               suffix == descriptor[i].suffix
    <2>1. PositionOf(keys, KeyRoot(descriptor[i])) \in DOMAIN keys
        BY <1>1, <1>3, CoveredPosition DEF HasPlaceholder
    <2>2. index \in Nat
        BY <1>1, <2>1
    <2>3. suffix \in Suffix
        <3>1. descriptor[i] \in KeyExpression
            BY <1>1
        <3>2. QED
            BY <3>1 DEF KeyExpression
    <2>4. template[i] \in Placeholder /\ template[i].suffix = suffix
        <3>1. template[i] = [index |-> index, suffix |-> suffix]
            BY <1>3 DEF PlaceholderOf
        <3> HIDE DEF index, suffix
        <3>2. QED
            BY <2>2, <2>3, <3>1 DEF Placeholder
    <2>5. QED
        BY <1>3, <2>3, <2>4 DEF HasPlaceholder
<1>5. template \in Seq(Placeholder)
    BY <1>1, <1>4
<1>6. /\ set.keys = keys /\ set.policy = TemplateText(template)
      /\ set \in PolicySetType
    BY <1>1, <1>5 DEF PolicySet, PolicySetType
<1> HIDE DEF set
<1>7. /\ DOMAIN set.policy = DOMAIN descriptor
      /\ \A i \in DOMAIN descriptor : set.policy[i].suffix = SuffixText(descriptor[i].suffix)
    BY <1>1, <1>4, <1>6 DEF TemplateText
<1>8. \A i \in DOMAIN descriptor :
         Readable(set.policy[i].suffix) <=> Expressible(descriptor[i].suffix)
    BY <1>4, <1>7, SuffixReadsBack
<1>9. CASE \A e \in Elements(descriptor) : Expressible(e.suffix)
    <2>1. \A i \in DOMAIN descriptor : Expressible(descriptor[i].suffix)
        BY <1>9 DEF Elements
    <2>2. \A i \in DOMAIN template : template[i] \in Placeholder /\ Readable(SuffixText(template[i].suffix))
        BY <1>1, <1>4, <1>7, <1>8, <2>1
    <2>3. TemplateRead(set.policy) = template
        BY <1>1, <1>6, <2>2, TemplateReadsBack
    <2>4. CanRebuild(template, keys) /\ Rebuilt(template, keys) = descriptor
        BY CInvStands DEF PolicyStandsForIt
    <2>5. CanRebuildText(set.policy, set.keys) /\ ToDescriptor(set) = descriptor
        BY <1>6, <1>7, <1>8, <2>1, <2>3, <2>4 DEF CanRebuildText, ToDescriptor, RebuiltText
    <2>6. QED
        BY <1>6, <1>9, <2>5 DEF StandsFor, set
<1>10. CASE ~\A e \in Elements(descriptor) : Expressible(e.suffix)
    <2>1. PICK i \in DOMAIN descriptor : ~Expressible(descriptor[i].suffix)
        BY <1>10 DEF Elements
    <2>2. ~CanRebuildText(set.policy, set.keys)
        BY <1>7, <1>8, <2>1 DEF CanRebuildText
    <2>3. QED
        BY <1>6, <1>10, <2>2 DEF StandsFor, set
<1>11. QED
    BY <1>6, <1>9, <1>10 DEF set

-----------------------------------------------------------------------------
(* Keys                                                                    *)

ExposedOf(doc) == {XOnly[e.root] : e \in {x \in ExpressionsOf(doc) : ~MayEncrypt(x)}}

\* The descriptors of a policy that validate lets pass derive from every key
\* they name, and each is in the vector.
LEMMA PolicyExpressions ==
    ASSUME NEW doc, doc.is = "policy", ValidPolicy(doc), NEW e \in ExpressionsOf(doc)
    PROVE  MayEncrypt(e) /\ \E k \in AllKeys(doc) : Classify(k).root = e.root
<1>1. PICK set \in Elements(doc.sets) : e \in Expressions(ToDescriptor(set))
    BY DEF ExpressionsOf, DescriptorsOf
<1> DEFINE text == set.policy
           t == TemplateRead(text)
           ks == set.keys
           d == ToDescriptor(set)
<1>2. /\ \A i \in DOMAIN text : Readable(text[i].suffix)
      /\ \A i \in DOMAIN t : Resolves(ks, t[i])
    BY DEF ValidPolicy, CanRebuildText, CanRebuild
<1>3. DOMAIN t = DOMAIN text /\ \A i \in DOMAIN t : t[i].suffix = SuffixRead(text[i].suffix)
    BY DEF TemplateRead
<1>4. DOMAIN d = DOMAIN t /\ \A i \in DOMAIN t : d[i] = Resolved(ks, t[i])
    BY DEF ToDescriptor, RebuiltText, Rebuilt
<1> HIDE DEF t, d
<1>5. PICK i \in DOMAIN d : e = Classify(d[i])
    BY <1>1 DEF Expressions, Elements, d
<1>6. Readable(text[i].suffix) /\ Resolves(ks, t[i]) /\ d[i] = Resolved(ks, t[i])
    BY <1>2, <1>3, <1>4, <1>5
<1>7. t[i].suffix.wildcard # "none"
    <2>1. t[i].suffix = SuffixRead(text[i].suffix)
        BY <1>3, <1>4, <1>5
    <2>2. CASE text[i].suffix.stars
        BY <2>1, <2>2 DEF SuffixRead
    <2>3. CASE ~text[i].suffix.stars
        BY <1>6, <2>1, <2>3 DEF SuffixRead, Readable
    <2>4. QED
        BY <2>2, <2>3
<1> DEFINE k == ks[t[i].index + 1]
<1>8. d[i].is = "xpub" /\ d[i].root = k.root /\ d[i].suffix = t[i].suffix
    BY <1>6 DEF Resolved
<1>9. MayEncrypt(e)
    BY <1>5, <1>7, <1>8 DEF Classify, IsDerived, MayEncrypt
<1>10. k \in AllKeys(doc)
    <2>1. k \in Elements(set.keys)
        BY <1>6 DEF Resolves, Elements
    <2>2. QED
        BY <1>1, <2>1 DEF AllKeys
<1>11. Classify(k).root = e.root
    BY <1>5, <1>8 DEF Classify
<1>12. QED
    BY <1>9, <1>10, <1>11

\* What a document is a payload with: its exposed keys and, among its keys,
\* each that is derived from and not NUMS.
LEMMA PayloadKeys ==
    ASSUME NEW doc, doc.is \in {"policy", "backup", "descriptor"}, ~Refuses(doc)
    PROVE  /\ Payload(doc).exposed = ExposedOf(doc)
           /\ \A e \in ExpressionsOf(doc) :
                 MayEncrypt(e) /\ XOnly[e.root] # NumsX => e.root \in Payload(doc).keys
<1>1. CASE doc.is = "policy"
    <2>1. ValidPolicy(doc)
        BY <1>1 DEF Refuses
    <2>2. Payload(doc) = PolicyPayload(doc)
        BY <1>1 DEF Payload
    <2>3. /\ PolicyPayload(doc).exposed = {}
          /\ PolicyPayload(doc).keys = {e.root : e \in {Classify(k) : k \in AllKeys(doc)}}
        BY DEF PolicyPayload
    <2>4. ExposedOf(doc) = {}
        BY <1>1, <2>1, PolicyExpressions DEF ExposedOf
    <2>5. \A e \in ExpressionsOf(doc) : e.root \in PolicyPayload(doc).keys
        BY <1>1, <2>1, <2>3, PolicyExpressions
    <2>6. QED
        BY <2>2, <2>3, <2>4, <2>5
<1>2. CASE doc.is # "policy"
    <2>1. PICK content, data : Payload(doc) = AsPayload(content, data, ExpressionsOf(doc))
        <3>1. CASE doc.is = "backup"
            BY <3>1 DEF Payload, ExpressionsOf, DescriptorsOf
        <3>2. CASE doc.is = "descriptor"
            <4>1. ExpressionsOf(doc) = Expressions(doc.descriptor)
                BY <3>2 DEF ExpressionsOf, DescriptorsOf
            <4>2. QED
                BY <3>2, <4>1 DEF Payload
        <3>3. QED
            BY <1>2, <3>1, <3>2
    <2>2. \A e \in ExpressionsOf(doc) : ~MayEncrypt(e) <=> e.is = "literal" \/ ~e.derived
        <3>1. \A x : ~MayEncrypt(Classify(x))
                     <=> Classify(x).is = "literal" \/ ~Classify(x).derived
            BY DEF MayEncrypt, Classify
        <3>2. \A e \in ExpressionsOf(doc) : \E x : e = Classify(x)
            BY DEF ExpressionsOf, Expressions
        <3>3. QED
            BY <3>1, <3>2
    <2>3. /\ Payload(doc).exposed = DescrExposedKeys(ExpressionsOf(doc))
          /\ Payload(doc).keys = {e.root : e \in DescrToDpks(ExpressionsOf(doc))}
        BY <2>1 DEF AsPayload
    <2>4. Payload(doc).exposed = ExposedOf(doc)
        BY <2>2, <2>3 DEF ExposedOf, DescrExposedKeys
    <2>5. QED
        BY <2>3, <2>4 DEF DescrToDpks
<1>3. QED
    BY <1>1, <1>2

\* The recipients of a builder that has been given documents: no key that one
\* of them exposes, and every other one that is derived from and not NUMS.
LEMMA DocumentRecipients ==
    ASSUME NEW D, \A doc \in D : doc.is \in {"policy", "backup", "descriptor"} /\ ~Refuses(doc),
           NEW b,
           b.keys = {k \in UNION {Payload(doc).keys : doc \in D} :
                        XOnly[k] \notin UNION {Payload(doc).exposed : doc \in D}}
    PROVE  LET all == UNION {ExpressionsOf(doc) : doc \in D}
               exposed == {XOnly[e.root] : e \in {x \in all : ~MayEncrypt(x)}}
           IN  /\ Encrypted(b).to \cap exposed = {}
               /\ {XOnly[e.root] : e \in all} \ (exposed \cup {NumsX}) \subseteq Encrypted(b).to
<1> DEFINE all == UNION {ExpressionsOf(doc) : doc \in D}
           exposed == {XOnly[e.root] : e \in {x \in all : ~MayEncrypt(x)}}
<1>1. UNION {Payload(doc).exposed : doc \in D} = exposed
    <2>1. \A doc \in D : Payload(doc).exposed = ExposedOf(doc)
        BY PayloadKeys
    <2>2. UNION {Payload(doc).exposed : doc \in D} = UNION {ExposedOf(doc) : doc \in D}
        BY <2>1
    <2>3. UNION {ExposedOf(doc) : doc \in D} = exposed
        BY DEF ExposedOf
    <2>4. QED
        BY <2>2, <2>3
<1>2. Encrypted(b).to = {XOnly[k] : k \in b.keys} \ {NumsX}
    BY DEF Encrypted, XOnlys
<1>3. \A k \in b.keys : XOnly[k] \notin exposed
    BY <1>1
<1>4. ASSUME NEW e \in all, XOnly[e.root] \notin exposed, XOnly[e.root] # NumsX
      PROVE  e.root \in b.keys
    <2>1. PICK doc \in D : e \in ExpressionsOf(doc)
        OBVIOUS
    <2>2. MayEncrypt(e)
        BY <1>4
    <2>3. e.root \in Payload(doc).keys
        BY <1>4, <2>1, <2>2, PayloadKeys
    <2> HIDE DEF exposed
    <2>4. e.root \in UNION {Payload(x).keys : x \in D}
        BY <2>3
    <2>5. QED
        BY <1>1, <1>4, <2>4
<1> HIDE DEF exposed, all
<1>5. Encrypted(b).to \cap exposed = {}
    BY <1>2, <1>3
<1>6. {XOnly[e.root] : e \in all} \ (exposed \cup {NumsX}) \subseteq Encrypted(b).to
    BY <1>2, <1>4
<1>7. QED
    BY <1>5, <1>6 DEF exposed, all

\* set_payload of a new builder
LEMMA OneRecipients ==
    ASSUME NEW item
    PROVE  WithPayload(NewBuilder, item).keys = {k \in item.keys : XOnly[k] \notin item.exposed}
<1> DEFINE d == Pool(NewBuilder, {item})
           f == [d EXCEPT !.payload = ToEncrypt(item.data),
                          !.content = IF item.content \in KnownContents THEN item.content
                                                                        ELSE NewBuilder.content]
<1>1. f.keys = item.keys /\ f.exposed = item.exposed
    BY DEF Pool, NewBuilder
<1>2. DropExposedKeys(f).keys = f.keys \ ExposedRoots(f)
    BY DEF DropExposedKeys, Pool, NewBuilder
<1>3. WithPayload(NewBuilder, item) = DropExposedKeys(f)
    BY DEF WithPayload
<1> HIDE DEF f
<1>4. QED
    BY <1>1, <1>2, <1>3 DEF ExposedRoots

\* set_payloads of a new builder
LEMMA ManyRecipients ==
    ASSUME NEW items
    PROVE  WithPayloads(NewBuilder, items).keys
               = {k \in UNION {items[i].keys : i \in DOMAIN items} :
                     XOnly[k] \notin UNION {items[i].exposed : i \in DOMAIN items}}
<1> DEFINE d == Pool(NewBuilder, {items[i] : i \in DOMAIN items})
           data == [i \in DOMAIN items |-> <<items[i].content, items[i].data>>]
<1>1. /\ d.keys = UNION {items[i].keys : i \in DOMAIN items}
      /\ d.exposed = UNION {items[i].exposed : i \in DOMAIN items}
    BY DEF Pool, NewBuilder
<1>2. DropExposedKeys(d).keys = d.keys \ ExposedRoots(d)
    BY DEF DropExposedKeys, Pool, NewBuilder
<1>3. [DropExposedKeys(d) EXCEPT !.payload = ToEncryptMany(data)].keys = DropExposedKeys(d).keys
    BY DEF DropExposedKeys, Pool, NewBuilder
<1>4. WithPayloads(NewBuilder, items).keys = DropExposedKeys(d).keys
    BY <1>3 DEF WithPayloads
<1> HIDE DEF d
<1>5. QED
    BY <1>1, <1>2, <1>4 DEF ExposedRoots

\* What Finish stores when the builder holds the documents' keys.
LEMMA FinishKeys ==
    ASSUME DocTypeOK, NoneRefused, NEW b, Finish(b),
           b.keys = {k \in UNION {Payload(doc).keys : doc \in Elements(documents)} :
                        XOnly[k] \notin UNION {Payload(doc).exposed : doc \in Elements(documents)}}
    PROVE  DocumentKeys'
<1>1. documents' = documents
    BY DEF Finish
<1>2. \A doc \in Elements(documents) :
         doc.is \in {"policy", "backup", "descriptor"} /\ ~Refuses(doc)
    <2>1. \A doc \in DocumentType : doc.is \in {"policy", "backup", "descriptor"}
        BY HandMadeAssumption DEF DocumentType, PolicyBackup
    <2>2. documents \in Seq(DocumentType)
        BY DEF DocTypeOK
    <2>3. QED
        BY <2>1, <2>2 DEF NoneRefused, Elements
<1>3. /\ Encrypted(b).to \cap Exposed = {}
      /\ {XOnly[e.root] : e \in OnChainAs} \ (Exposed \cup {NumsX}) \subseteq Encrypted(b).to
    BY <1>2, DocumentRecipients DEF Exposed, OnChainAs
<1>4. Exposed' = Exposed /\ OnChainAs' = OnChainAs
    BY <1>1 DEF Exposed, OnChainAs
<1>5. ASSUME outcome' = "sealed"
      PROVE  stored' = Encrypted(b)
    BY <1>5 DEF Finish, EncryptError
<1>6. QED
    BY <1>3, <1>4, <1>5 DEF DocumentKeys, Sealed

-----------------------------------------------------------------------------
(* The invariant                                                           *)

\* The empty project.
LEMMA InitDInv == DocumentsInit => DInv
<1> SUFFICES ASSUME DocumentsInit PROVE DInv
    OBVIOUS
<1>1. CInv /\ descriptor = <<>> /\ stage = "idle"
    BY ConvertInitCInv DEF DocumentsInit, ConvertInit
<1>2. /\ sets = <<>> /\ sources = <<>> /\ documents = <<>> /\ madeFrom = <<>>
      /\ outcome = "none"
    BY DEF DocumentsInit, DocInit
<1>3. DocTypeOK /\ Stand /\ DocumentKeys
    BY <1>2 DEF DocTypeOK, Stand, DocumentKeys, Sealed
<1>4. QED
    BY <1>1, <1>2, <1>3 DEF DInv

\* The properties of documents depend on nothing but these.
LEMMA DocsAlone ==
    ASSUME UNCHANGED docVars
    PROVE  /\ DocTypeOK' = DocTypeOK /\ Stand' = Stand /\ NoneRefused' = NoneRefused
           /\ DocumentKeys' = DocumentKeys
<1>1. /\ sets' = sets /\ sources' = sources /\ documents' = documents /\ madeFrom' = madeFrom
      /\ stored' = stored /\ outcome' = outcome
    BY DEF docVars
<1>2. QED
    BY <1>1 DEF DocTypeOK, Stand, NoneRefused, DocumentKeys, Sealed, Exposed, OnChainAs

\* A conversion beside the documents.
LEMMA ConvertDInv ==
    ASSUME DInv, Convert
    PROVE  DInv'
<1>1. UNCHANGED docVars /\ outcome' = outcome
    BY DEF Convert, docVars
<1>2. [ConvertNext]_convertVars
    BY DEF Convert, ConvertNext
<1>3. CInv'
    BY <1>2, ConvertCInv DEF DInv
<1>4. descriptor' \in Descriptors
    <2>1. CASE \E d \in Descriptors : Begin(d)
        BY <2>1 DEF Begin
    <2>2. CASE ConvertStep
        <3>1. descriptor' = descriptor /\ stage # "idle"
            BY <2>2 DEF ConvertStep, IndexRoot, Indexed, TranslateKey, RefuseKey, CheckKeyOrder
        <3>2. QED
            BY <3>1 DEF DInv
    <2>3. QED
        BY <2>1, <2>2 DEF Convert
<1>5. QED
    BY <1>1, <1>3, <1>4, DocsAlone DEF DInv

\* What the other steps leave alone.
LEMMA ConvertAlone ==
    ASSUME DInv, UNCHANGED convertVars
    PROVE  CInv' /\ (stage # "idle" => descriptor \in Descriptors)'
<1>1. CInv'
    BY ConvertCInv DEF DInv
<1>2. stage' = stage /\ descriptor' = descriptor
    BY DEF convertVars
<1>3. QED
    BY <1>1, <1>2 DEF DInv

\* A set is made from a conversion that is done.
LEMMA AddSetDInv ==
    ASSUME DInv, NEW meta \in Metas, AddSet(meta)
    PROVE  DInv'
<1> DEFINE set == PolicySet(keys, template, meta)
<1>1. /\ stage = "done" /\ outcome = "none" /\ outcome' = "none" /\ UNCHANGED convertVars
      /\ sets' = Append(sets, set) /\ sources' = Append(sources, descriptor)
      /\ documents' = documents /\ madeFrom' = madeFrom
    BY DEF AddSet, MoreSets, Collecting
<1>2. /\ sets \in Seq(PolicySetType) /\ sources \in Seq(Descriptors) /\ Len(sets) = Len(sources)
      /\ descriptor \in Descriptors
    BY <1>1 DEF DInv, DocTypeOK
<1>3. set \in PolicySetType /\ StandsFor(set, descriptor)
    BY <1>1, MadeSetStands DEF DInv
<1> HIDE DEF set
<1>4. DocTypeOK'
    BY <1>1, <1>2, <1>3 DEF DInv, DocTypeOK
<1>5. ASSUME NEW n \in DOMAIN sets'
      PROVE  StandsFor(sets'[n], sources'[n])
    <2>1. CASE n \in DOMAIN sets
        <3>1. sets'[n] = sets[n] /\ sources'[n] = sources[n]
            BY <1>1, <1>2, <1>3, <2>1
        <3>2. QED
            BY <2>1, <3>1 DEF DInv, Stand
    <2>2. CASE n \notin DOMAIN sets
        <3>1. n = Len(sets) + 1
            BY <1>1, <1>2, <1>3, <1>5, <2>2
        <3>2. sets'[n] = set /\ sources'[n] = descriptor
            BY <1>1, <1>2, <1>3, <3>1
        <3>3. QED
            BY <1>3, <3>2
    <2>3. QED
        BY <2>1, <2>2
<1>6. Stand'
    BY <1>1, <1>5 DEF DInv, Stand
<1>7. DocumentKeys'
    BY <1>1 DEF DocumentKeys, Sealed
<1>8. QED
    BY <1>1, <1>4, <1>6, <1>7, ConvertAlone DEF DInv

\* Append adds one at the end.
LEMMA Appended ==
    ASSUME NEW S, NEW seq \in Seq(S), NEW x \in S
    PROVE  /\ \A i \in DOMAIN Append(seq, x) :
                 IF i \in DOMAIN seq THEN Append(seq, x)[i] = seq[i] ELSE i = Len(seq) + 1
           /\ Append(seq, x)[Len(seq) + 1] = x
    OBVIOUS

\* A document joins the others.
LEMMA JoinDInv ==
    ASSUME DInv, NEW doc \in DocumentType, NEW from \in Seq(Descriptors),
           outcome = "none", outcome' = "none", UNCHANGED convertVars,
           documents' = Append(documents, doc), madeFrom' = Append(madeFrom, from),
           sets' \in Seq(PolicySetType), sources' \in Seq(Descriptors), Len(sets') = Len(sources'),
           \A n \in DOMAIN sets' : StandsFor(sets'[n], sources'[n]),
           from = <<>> \/ /\ doc.is = "policy" /\ Len(doc.sets) = Len(from)
                          /\ doc.sets \in Seq(PolicySetType)
                          /\ \A n \in DOMAIN from : StandsFor(doc.sets[n], from[n])
    PROVE  DInv'
<1>1. /\ documents \in Seq(DocumentType) /\ madeFrom \in Seq(Seq(Descriptors))
      /\ Len(madeFrom) = Len(documents)
    BY DEF DInv, DocTypeOK
<1>2. /\ documents' \in Seq(DocumentType) /\ madeFrom' \in Seq(Seq(Descriptors))
      /\ Len(madeFrom') = Len(documents')
    BY <1>1
<1>3. DocTypeOK'
    BY <1>2 DEF DocTypeOK
<1>4. ASSUME NEW i \in DOMAIN documents'
      PROVE  madeFrom'[i] = <<>> \/
                /\ documents'[i].is = "policy" /\ Len(documents'[i].sets) = Len(madeFrom'[i])
                /\ documents'[i].sets \in Seq(PolicySetType)
                /\ \A n \in DOMAIN madeFrom'[i] : StandsFor(documents'[i].sets[n], madeFrom'[i][n])
    <2>1. CASE i \in DOMAIN documents
        <3>1. documents'[i] = documents[i] /\ madeFrom'[i] = madeFrom[i]
            BY <1>1, <2>1
        <3>2. QED
            BY <2>1, <3>1 DEF DInv, Stand
    <2>2. CASE i \notin DOMAIN documents
        <3>1. i = Len(documents) + 1 /\ documents'[i] = doc
            BY <1>1, <1>4, <2>2, Appended
        <3>2. madeFrom'[i] = from
            BY <1>1, <3>1, Appended
        <3>3. QED
            BY <3>1, <3>2
    <2>3. QED
        BY <2>1, <2>2
<1>5. Stand'
    BY <1>4 DEF Stand
<1>6. DocumentKeys'
    BY DEF DocumentKeys, Sealed
<1>7. QED
    BY <1>3, <1>5, <1>6, ConvertAlone DEF DInv

\* The sets become a document; a document is written by hand.
LEMMA ComposeDInv ==
    ASSUME DInv, Compose \/ \E doc \in HandMade : Write(doc)
    PROVE  DInv'
<1>1. /\ sets \in Seq(PolicySetType) /\ sources \in Seq(Descriptors) /\ Len(sets) = Len(sources)
      /\ \A n \in DOMAIN sets : StandsFor(sets[n], sources[n])
    BY DEF DInv, DocTypeOK, Stand
<1>2. CASE Compose
    <2> DEFINE doc == PolicyBackup(Version, sets)
    <2>1. /\ outcome = "none" /\ outcome' = "none" /\ UNCHANGED convertVars
          /\ documents' = Append(documents, doc) /\ madeFrom' = Append(madeFrom, sources)
          /\ sets' = <<>> /\ sources' = <<>>
        BY <1>2 DEF Compose, Collecting
    <2>2. doc \in DocumentType /\ doc.is = "policy" /\ doc.sets = sets
        BY <1>1 DEF DocumentType, PolicyBackup
    <2>3. /\ sets' \in Seq(PolicySetType) /\ sources' \in Seq(Descriptors) /\ Len(sets') = Len(sources')
          /\ \A n \in DOMAIN sets' : StandsFor(sets'[n], sources'[n])
        BY <2>1
    <2>4. \A n \in DOMAIN sources : StandsFor(doc.sets[n], sources[n])
        BY <1>1, <2>2
    <2> HIDE DEF doc
    <2>5. QED
        BY <1>1, <2>1, <2>2, <2>3, <2>4, JoinDInv
<1>3. ASSUME NEW doc \in HandMade, Write(doc)
      PROVE  DInv'
    <2>1. /\ outcome = "none" /\ outcome' = "none" /\ UNCHANGED convertVars
          /\ documents' = Append(documents, doc) /\ madeFrom' = Append(madeFrom, <<>>)
          /\ sets' = sets /\ sources' = sources
        BY <1>3 DEF Write, Collecting
    <2>2. doc \in DocumentType /\ <<>> \in Seq(Descriptors)
        BY DEF DocumentType
    <2>3. QED
        BY <1>1, <2>1, <2>2, JoinDInv
<1>4. QED
    BY <1>2, <1>3

\* What Finish leaves to show.
LEMMA FinishDInv ==
    ASSUME DInv, NEW b, Finish(b), NoneRefused,
           b.keys = {k \in UNION {Payload(doc).keys : doc \in Elements(documents)} :
                        XOnly[k] \notin UNION {Payload(doc).exposed : doc \in Elements(documents)}}
    PROVE  DInv'
<1>1. /\ UNCHANGED convertVars /\ sets' = sets /\ sources' = sources
      /\ documents' = documents /\ madeFrom' = madeFrom
    BY DEF Finish
<1>2. DocTypeOK' /\ Stand' /\ NoneRefused'
    BY <1>1 DEF DInv, DocTypeOK, Stand, NoneRefused
<1>3. DocumentKeys'
    BY FinishKeys DEF DInv
<1>4. QED
    BY <1>1, <1>2, <1>3, ConvertAlone DEF DInv

\* The backup is sealed, or a document is refused.
LEMMA SealDInv ==
    ASSUME DInv, SealOne \/ SealMany \/ SealRefused
    PROVE  DInv'
<1>1. documents \in Seq(DocumentType)
    BY DEF DInv, DocTypeOK
<1>2. CASE SealOne
    <2> DEFINE item == Payload(documents[1])
               w == WithPayload(NewBuilder, item)
    <2>1. Len(documents) = 1 /\ ~Refuses(documents[1])
        BY <1>2 DEF SealOne
    <2>2. PICK c \in Labels \cup {ContentType(documents[1])} : Finish([w EXCEPT !.content = c])
        BY <1>2 DEF SealOne
    <2> DEFINE b == [w EXCEPT !.content = c]
    <2>3. Elements(documents) = {documents[1]} /\ NoneRefused
        BY <1>1, <2>1 DEF Elements, NoneRefused
    <2>4. b.keys = w.keys
        OBVIOUS
    <2>5. w.keys = {k \in item.keys : XOnly[k] \notin item.exposed}
        BY OneRecipients
    <2>6. /\ UNION {Payload(doc).keys : doc \in Elements(documents)} = item.keys
          /\ UNION {Payload(doc).exposed : doc \in Elements(documents)} = item.exposed
        BY <2>3
    <2> HIDE DEF b, w, item
    <2>7. Finish(b)
        BY <2>2 DEF b
    <2>8. QED
        BY <2>3, <2>4, <2>5, <2>6, <2>7, FinishDInv
<1>3. CASE SealMany
    <2> DEFINE items == [i \in DOMAIN documents |-> Payload(documents[i])]
               b == WithPayloads(NewBuilder, items)
    <2>1. Finish(b) /\ ~\E doc \in Elements(documents) : Refuses(doc)
        BY <1>3 DEF SealMany
    <2>2. NoneRefused
        BY <2>1 DEF Elements, NoneRefused
    <2>3. b.keys = {k \in UNION {items[i].keys : i \in DOMAIN items} :
                       XOnly[k] \notin UNION {items[i].exposed : i \in DOMAIN items}}
        BY ManyRecipients
    <2>4. /\ UNION {Payload(doc).keys : doc \in Elements(documents)}
                = UNION {items[i].keys : i \in DOMAIN items}
          /\ UNION {Payload(doc).exposed : doc \in Elements(documents)}
                = UNION {items[i].exposed : i \in DOMAIN items}
        BY DEF Elements
    <2> HIDE DEF b, items
    <2>5. QED
        BY <2>1, <2>2, <2>3, <2>4, FinishDInv
<1>4. CASE SealRefused
    <2>1. /\ UNCHANGED convertVars /\ sets' = sets /\ sources' = sources /\ documents' = documents
          /\ madeFrom' = madeFrom /\ outcome' = "DescriptorBackup"
        BY <1>4 DEF SealRefused
    <2>2. DocTypeOK' /\ Stand' /\ DocumentKeys'
        BY <2>1 DEF DInv, DocTypeOK, Stand, DocumentKeys, Sealed
    <2>3. QED
        BY <2>1, <2>2, ConvertAlone DEF DInv
<1>5. QED
    BY <1>2, <1>3, <1>4

\* No step takes the invariant away.
LEMMA NextDInv == DInv /\ [DocumentsNext]_documentsVars => DInv'
<1> SUFFICES ASSUME DInv, [DocumentsNext]_documentsVars PROVE DInv'
    OBVIOUS
<1>1. CASE UNCHANGED documentsVars
    <2>1. UNCHANGED convertVars /\ UNCHANGED docVars
        BY <1>1 DEF documentsVars
    <2>2. outcome' = outcome
        BY <2>1 DEF docVars
    <2>3. QED
        BY <2>1, <2>2, ConvertAlone, DocsAlone DEF DInv
<1>2. CASE DocumentsNext
    BY <1>2, ConvertDInv, AddSetDInv, ComposeDInv, SealDInv DEF DocumentsNext
<1>3. QED
    BY <1>1, <1>2

\* The sets of the documents stand for their descriptors, or are refused.
LEMMA DInvSetsStand == DInv => SetsStand
<1> SUFFICES ASSUME DInv, NEW i \in DOMAIN documents, NEW n \in DOMAIN madeFrom[i]
             PROVE  /\ StandsFor(documents[i].sets[n], madeFrom[i][n])
                    /\ ~CanRebuildText(documents[i].sets[n].policy, documents[i].sets[n].keys)
                          => outcome \in {"none", "DescriptorBackup"}
    BY DEF SetsStand
<1> DEFINE set == documents[i].sets[n]
<1>1. madeFrom[i] \in Seq(Descriptors) /\ madeFrom[i] # <<>>
    BY DEF DInv, DocTypeOK
<1>2. /\ documents[i].is = "policy" /\ Len(documents[i].sets) = Len(madeFrom[i])
      /\ documents[i].sets \in Seq(PolicySetType)
      /\ StandsFor(set, madeFrom[i][n])
    BY <1>1 DEF DInv, Stand
<1>3. set \in Elements(documents[i].sets)
    <2>1. n \in DOMAIN documents[i].sets
        BY <1>1, <1>2
    <2>2. QED
        BY <2>1 DEF Elements
<1>4. ~CanRebuildText(set.policy, set.keys) => Refuses(documents[i])
    BY <1>2, <1>3 DEF Refuses, ValidPolicy
<1>5. QED
    BY <1>2, <1>4 DEF DInv, NoneRefused

-----------------------------------------------------------------------------
(* What is read of it                                                      *)

\* The texts in the backup are those of the documents, under some label.
StoredTexts ==
    Sealed => /\ stored.items \in Seq(Elements(stored.items))
              /\ Len(stored.items) = Len(documents)
              /\ \A i \in DOMAIN documents : stored.items[i][2] = Text(documents[i])

\* A document of the project is one of the three kinds.
LEMMA Shapes ==
    ASSUME NEW doc \in DocumentType
    PROVE  \/ doc.is = "policy" /\ doc = PolicyBackup(doc.version, doc.sets)
                                /\ doc.sets \in Seq(Elements(doc.sets))
           \/ doc.is = "backup" /\ doc = DescriptorBackup(doc.version, doc.sets)
           \/ doc.is = "descriptor" /\ doc = BareDescriptor(doc.descriptor)
<1>1. CASE doc \in HandMade
    BY <1>1, HandMadeAssumption
<1>2. ASSUME NEW ss \in Seq(PolicySetType), doc = PolicyBackup(Version, ss)
      PROVE  doc.is = "policy" /\ doc = PolicyBackup(doc.version, doc.sets)
                               /\ doc.sets \in Seq(Elements(doc.sets))
    <2>1. doc.is = "policy" /\ doc.version = Version /\ doc.sets = ss
        BY <1>2 DEF PolicyBackup
    <2> DEFINE V == PolicySetType
    <2> HIDE DEF V
    <2>2. ss \in Seq(V)
        BY DEF V
    <2>3. ss \in Seq(Elements(ss))
        BY <2>2 DEF Elements
    <2> QED
        BY <1>2, <2>1, <2>3
<1> QED
    BY <1>1, <1>2 DEF DocumentType

\* A text is read as the document it was made from, or as text, or not at all,
\* whatever its label says; and as that document under the label of its kind.
LEMMA TextReadsBack ==
    ASSUME NEW doc \in DocumentType, ~Refuses(doc), NEW c
    PROVE  LET read == Extracted(c, Text(doc))
           IN  /\ read.says = "value" => read.value.is = "text" \/ read.value = doc
               /\ c = ContentType(doc) /\ Acceptable(doc) =>
                     read.says = "value" /\ read.value = doc
<1> DEFINE text == Text(doc)
           read == Extracted(c, text)
<1>1. \A v : Value(v).says = "value" /\ Value(v).value = v
    BY DEF Value
<1>2. ParseError.says = "error" /\ Skipped.says = "none"
    BY DEF ParseError, Skipped
<1>3. doc.is = "policy" =>
          /\ text.form \in {"policy", "policy_sets"}
          /\ ParsedPolicy(text) = Value(doc)
    <2> SUFFICES ASSUME doc.is = "policy"
                 PROVE  text.form \in {"policy", "policy_sets"} /\ ParsedPolicy(text) = Value(doc)
        OBVIOUS
    <2>1. doc = PolicyBackup(doc.version, doc.sets) /\ doc.sets \in Seq(Elements(doc.sets))
        BY Shapes
    <2>2. ValidPolicy(doc)
        BY DEF Refuses
    <2>3. CASE IsSingle(doc)
        <3>1. text.form = "policy" /\ text.set = doc.sets[1]
            BY <2>3 DEF Text
        <3>2. doc.sets = <<doc.sets[1]>>
            <4> DEFINE V == Elements(doc.sets)
            <4> HIDE DEF V
            <4>1. doc.sets \in Seq(V) /\ Len(doc.sets) = 1
                BY <2>1, <2>3 DEF IsSingle, V
            <4> QED
                BY <4>1
        <3>3. PolicyBackup(Version, <<text.set>>) = doc
            BY <2>1, <2>3, <3>1, <3>2 DEF IsSingle
        <3> QED
            BY <2>2, <3>1, <3>3 DEF ParsedPolicy
    <2>4. CASE ~IsSingle(doc)
        <3>1. text.form = "policy_sets" /\ text.version = doc.version /\ text.sets = doc.sets
            BY <2>4 DEF Text
        <3> QED
            BY <2>1, <2>2, <3>1 DEF ParsedPolicy
    <2> QED
        BY <2>3, <2>4
<1>4. doc.is = "backup" =>
          /\ text.form = "descriptor_sets"
          /\ ParsedBackup(text) = IF ValidBackup(doc) THEN Value(doc) ELSE ParseError
    <2> SUFFICES ASSUME doc.is = "backup"
                 PROVE  /\ text.form = "descriptor_sets"
                        /\ ParsedBackup(text) = IF ValidBackup(doc) THEN Value(doc) ELSE ParseError
        OBVIOUS
    <2>1. doc = DescriptorBackup(doc.version, doc.sets)
        BY Shapes
    <2>2. text.form = "descriptor_sets" /\ text.version = doc.version /\ text.sets = doc.sets
        BY DEF Text
    <2> QED
        BY <2>1, <2>2 DEF ParsedBackup
<1>5. doc.is = "descriptor" =>
          text.form = "descriptor" /\ BareDescriptor(text.descriptor) = doc
    <2> SUFFICES ASSUME doc.is = "descriptor"
                 PROVE  text.form = "descriptor" /\ BareDescriptor(text.descriptor) = doc
        OBVIOUS
    <2>1. text.form = "descriptor" /\ text.descriptor = doc.descriptor
        BY DEF Text
    <2> QED
        BY <2>1, Shapes
<1>6. doc.is \in {"policy", "backup", "descriptor"}
    BY Shapes
<1> HIDE DEF text
<1>7. text.form \notin {"policy", "policy_sets"} => ParsedPolicy(text) = ParseError
    BY DEF ParsedPolicy
<1>8. text.form # "descriptor_sets" => ParsedBackup(text) = ParseError
    BY DEF ParsedBackup
<1>9. CASE c \in {"None", "Unknown", "String", "Bip138"}
    <2>1. read = Value([is |-> "text", text |-> text])
        BY <1>9 DEF Extracted
    <2>2. c # ContentType(doc)
        BY <1>9 DEF ContentType
    <2> QED
        BY <1>1, <2>1, <2>2 DEF text
<1>10. CASE c = "Bip380"
    <2>1. read = IF text.form = "descriptor" THEN Value(BareDescriptor(text.descriptor))
                                             ELSE ParsedBackup(text)
        BY <1>10 DEF Extracted
    <2>2. c = ContentType(doc) => doc.is # "policy"
        BY <1>10 DEF ContentType
    <2> QED
        BY <1>1, <1>2, <1>3, <1>4, <1>5, <1>6, <1>8, <2>1, <2>2 DEF text, Acceptable
<1>11. CASE c = "Bip388"
    <2>1. read = ParsedPolicy(text)
        BY <1>11 DEF Extracted
    <2>2. c = ContentType(doc) => doc.is = "policy"
        BY <1>11 DEF ContentType
    <2> QED
        BY <1>1, <1>2, <1>3, <1>4, <1>5, <1>6, <1>7, <2>1, <2>2 DEF text
<1>12. CASE c \notin {"None", "Unknown", "String", "Bip138", "Bip380", "Bip388"}
    <2>1. read = Skipped /\ c # ContentType(doc)
        BY <1>12 DEF Extracted, ContentType
    <2> QED
        BY <1>2, <2>1 DEF text
<1> QED
    BY <1>9, <1>10, <1>11, <1>12

\* The holder of a recipient key is answered with documents of the backup.
LEMMA StoredReadBack ==
    ASSUME DInv, StoredTexts
    PROVE  SameDescriptorBack
<1> SUFFICES ASSUME Sealed, NEW k \in PublicKeys, XOnly[k] \in stored.to
             PROVE  /\ Labelled /\ (\A doc \in Elements(documents) : Acceptable(doc)) =>
                          ReadBy(k) = [is |-> "items", items |-> documents]
                    /\ ReadBy(k).is = "items" =>
                          \A v \in Elements(ReadBy(k).items) :
                              v.is # "text" => v \in Elements(documents)
    BY DInvSetsStand DEF SameDescriptorBack
<1> DEFINE items == stored.items
           read == [i \in DOMAIN items |-> Extracted(items[i][1], items[i][2])]
           where == {i \in DOMAIN read : read[i].says = "value"}
           values == Filtered(read, where)
           n == Len(documents)
           R == {read[i] : i \in DOMAIN read}
<1>1. ReadBy(k) = IF \E i \in DOMAIN read : read[i].says = "error" THEN [is |-> "ParseError"]
                  ELSE [is |-> "items", items |-> [i \in DOMAIN values |-> values[i].value]]
    BY DEF ReadBy, ReadItems
<1>2. /\ n \in Nat /\ DOMAIN documents = 1..n /\ documents = [i \in 1..n |-> documents[i]]
      /\ \A i \in 1..n : documents[i] \in DocumentType
    BY DEF DInv, DocTypeOK
<1>3. DOMAIN items = 1..n
    <2> DEFINE V == Elements(items)
    <2> HIDE DEF V, items
    <2>1. items \in Seq(V) /\ Len(items) = n
        BY DEF StoredTexts, V, items
    <2> QED
        BY <2>1
<1>4. \A i \in 1..n : read[i] = Extracted(items[i][1], Text(documents[i]))
    BY <1>2, <1>3 DEF StoredTexts
<1>5. DOMAIN read = 1..n /\ read \in Seq(R)
    BY <1>2, <1>3
<1> HIDE DEF read
<1>6. ASSUME NEW i \in 1..n
      PROVE  /\ read[i].says = "value" =>
                   read[i].value.is = "text" \/ read[i].value = documents[i]
             /\ items[i][1] = ContentType(documents[i]) /\ Acceptable(documents[i]) =>
                   read[i].says = "value" /\ read[i].value = documents[i]
    <2>1. ~Refuses(documents[i])
        BY <1>2 DEF DInv, NoneRefused, Sealed
    <2> QED
        BY <1>2, <1>4, <2>1, TextReadsBack
<1> HIDE DEF items, R, n
<1>7. /\ values \in Seq({read[i] : i \in (DOMAIN read) \cap where})
      /\ DOMAIN read \subseteq where => values = read
    <2> HIDE DEF where
    <2> QED
        BY <1>5, FilteredPart
<1>8. ASSUME Labelled, \A doc \in Elements(documents) : Acceptable(doc)
      PROVE  ReadBy(k) = [is |-> "items", items |-> documents]
    <2>1. \A i \in 1..n : items[i][1] = ContentType(documents[i]) /\ Acceptable(documents[i])
        BY <1>2, <1>8 DEF Labelled, Elements, items
    <2>2. \A i \in 1..n : read[i].says = "value" /\ read[i].value = documents[i]
        BY <1>6, <2>1
    <2>3. values = read /\ ~\E i \in DOMAIN read : read[i].says = "error"
        BY <1>5, <1>7, <2>2
    <2> HIDE DEF values
    <2>4. [i \in DOMAIN values |-> values[i].value] = documents
        BY <1>2, <1>5, <2>2, <2>3
    <2> QED
        BY <1>1, <2>3, <2>4
<1>9. ASSUME ReadBy(k).is = "items", NEW v \in Elements(ReadBy(k).items), v.is # "text"
      PROVE  v \in Elements(documents)
    <2> DEFINE W == {read[i] : i \in (DOMAIN read) \cap where}
    <2>1. ReadBy(k).items = [i \in DOMAIN values |-> values[i].value]
        BY <1>1, <1>9
    <2> HIDE DEF values
    <2>2. PICK j \in DOMAIN values : v = values[j].value
        BY <1>9, <2>1 DEF Elements
    <2>3. values[j] \in W
        <3> HIDE DEF W
        <3>1. values \in Seq(W)
            BY <1>7 DEF W
        <3> QED
            BY <3>1
    <2>4. PICK i \in 1..n : values[j] = read[i] /\ read[i].says = "value"
        BY <1>5, <2>3
    <2>5. v = documents[i]
        BY <1>6, <1>9, <2>2, <2>4
    <2> QED
        BY <1>2, <2>5 DEF Elements
<1> QED
    BY <1>8, <1>9

\* The payload that set_payload and set_payloads leave.
LEMMA OnePayload ==
    ASSUME NEW item
    PROVE  LET w == WithPayload(NewBuilder, item)
           IN  w.payload = ToEncrypt(item.data) /\ "content" \in DOMAIN w
<1> DEFINE d == Pool(NewBuilder, {item})
           data == ToEncrypt(item.data)
           label == IF item.content \in KnownContents THEN item.content ELSE NewBuilder.content
           e == [d EXCEPT !.payload = data, !.content = label]
<1>1. "payload" \in DOMAIN d /\ "content" \in DOMAIN d
    BY DEF Pool, NewBuilder
<1>2. WithPayload(NewBuilder, item) = DropExposedKeys(e)
    BY DEF WithPayload
<1> HIDE DEF d, data, label
<1>3. e.payload = data /\ "payload" \in DOMAIN e /\ "content" \in DOMAIN e
    BY <1>1
<1> HIDE DEF e
<1>4. DropExposedKeys(e).payload = data /\ "content" \in DOMAIN DropExposedKeys(e)
    BY <1>3 DEF DropExposedKeys
<1> QED
    BY <1>2, <1>4 DEF data

LEMMA ManyPayload ==
    ASSUME NEW items
    PROVE  WithPayloads(NewBuilder, items).payload
               = ToEncryptMany([i \in DOMAIN items |-> <<items[i].content, items[i].data>>])
<1> DEFINE d == DropExposedKeys(Pool(NewBuilder, {items[i] : i \in DOMAIN items}))
           data == ToEncryptMany([i \in DOMAIN items |-> <<items[i].content, items[i].data>>])
<1>1. "payload" \in DOMAIN d
    BY DEF DropExposedKeys, Pool, NewBuilder
<1>2. WithPayloads(NewBuilder, items) = [d EXCEPT !.payload = data]
    BY DEF WithPayloads
<1> HIDE DEF d, data
<1>3. [d EXCEPT !.payload = data].payload = data
    BY <1>1
<1> QED
    BY <1>2, <1>3 DEF data

\* What Finish stores are the items of the builder.
LEMMA FinishTexts ==
    ASSUME NEW b, Finish(b), Items(b) \in Seq(Elements(Items(b))),
           Len(Items(b)) = Len(documents),
           \A i \in DOMAIN documents : Items(b)[i][2] = Text(documents[i])
    PROVE  StoredTexts'
<1>1. documents' = documents
    BY DEF Finish
<1>2. outcome' = "sealed" => stored' = Encrypted(b)
    BY DEF Finish, EncryptError
<1>3. Encrypted(b).items = Items(b)
    BY DEF Encrypted
<1> QED
    BY <1>1, <1>2, <1>3 DEF StoredTexts, Sealed, Elements

\* The text of a document does not depend on the builder.
LEMMA PayloadData ==
    ASSUME NEW doc \in DocumentType
    PROVE  Payload(doc).data = Text(doc)
<1>1. doc.is \in {"policy", "backup", "descriptor"}
    BY Shapes
<1> QED
    BY <1>1 DEF Payload, PolicyPayload, AsPayload

\* Every step keeps the texts.
LEMMA StoredStep ==
    ASSUME DInv, StoredTexts, [DocumentsNext]_documentsVars
    PROVE  StoredTexts'
<1>1. documents \in Seq(DocumentType)
    BY DEF DInv, DocTypeOK
<1>2. CASE UNCHANGED docVars
    <2>1. documents' = documents /\ stored' = stored /\ outcome' = outcome
        BY <1>2 DEF docVars
    <2> QED
        BY <2>1 DEF StoredTexts, Sealed, Elements
<1>3. CASE \/ \E meta \in Metas : AddSet(meta)
           \/ Compose
           \/ \E doc \in HandMade : Write(doc)
           \/ SealRefused
    <2>1. outcome' \in {"none", "DescriptorBackup"}
        BY <1>3 DEF AddSet, MoreSets, Compose, Write, Collecting, SealRefused
    <2> QED
        BY <2>1 DEF StoredTexts, Sealed
<1>4. CASE SealOne
    <2> DEFINE item == Payload(documents[1])
               w == WithPayload(NewBuilder, item)
    <2>1. Len(documents) = 1 /\ DOMAIN documents = 1..1 /\ documents[1] \in DocumentType
        BY <1>1, <1>4 DEF SealOne
    <2>2. PICK c \in Labels \cup {ContentType(documents[1])} : Finish([w EXCEPT !.content = c])
        BY <1>4 DEF SealOne
    <2> DEFINE b == [w EXCEPT !.content = c]
    <2>3. w.payload = ToEncrypt(item.data) /\ "content" \in DOMAIN w
        <3> HIDE DEF item
        <3> QED
            BY OnePayload
    <2> HIDE DEF w
    <2>4. b.payload = ToEncrypt(item.data)
        BY <2>3
    <2> HIDE DEF b
    <2>5. Items(b) = <<<<b.content, item.data>>>>
        BY <2>4 DEF Items, ToEncrypt
    <2>6. /\ Items(b) \in Seq(Elements(Items(b))) /\ Len(Items(b)) = 1
          /\ Items(b)[1][2] = item.data
        BY <2>5 DEF Elements
    <2>7. item.data = Text(documents[1])
        BY <2>1, PayloadData
    <2>8. \A i \in DOMAIN documents : i = 1
        BY <2>1
    <2>9. Finish(b)
        BY <2>2 DEF b
    <2> QED
        BY <2>1, <2>6, <2>7, <2>8, <2>9, FinishTexts
<1>5. CASE SealMany
    <2> DEFINE items == [i \in DOMAIN documents |-> Payload(documents[i])]
               b == WithPayloads(NewBuilder, items)
               pairs == [i \in DOMAIN items |-> <<items[i].content, items[i].data>>]
    <2>1. Finish(b)
        BY <1>5 DEF SealMany
    <2>2. Items(b) = pairs
        <3>1. b.payload = ToEncryptMany(pairs)
            <4> HIDE DEF items
            <4> QED
                BY ManyPayload
        <3> HIDE DEF b, pairs
        <3>2. ToEncryptMany(pairs).is = "many" /\ ToEncryptMany(pairs).items = pairs
            BY DEF ToEncryptMany
        <3> HIDE DEF ToEncryptMany
        <3> QED
            BY <3>1, <3>2 DEF Items
    <2>3. /\ Len(documents) \in Nat /\ DOMAIN documents = 1..Len(documents)
          /\ \A i \in DOMAIN documents : documents[i] \in DocumentType
        BY <1>1
    <2>4. DOMAIN pairs = 1..Len(documents) /\ \A i \in DOMAIN documents :
              pairs[i][2] = Text(documents[i])
        BY <2>3, PayloadData
    <2> HIDE DEF b, pairs
    <2>5. pairs \in Seq(Elements(pairs)) /\ Len(pairs) = Len(documents)
        BY <2>3, <2>4 DEF Elements, pairs
    <2> QED
        BY <2>1, <2>2, <2>4, <2>5, FinishTexts
<1>6. Convert => UNCHANGED docVars
    BY DEF Convert
<1>7. UNCHANGED documentsVars => UNCHANGED docVars
    BY DEF documentsVars
<1> QED
    BY <1>2, <1>3, <1>4, <1>5, <1>6, <1>7 DEF DocumentsNext

-----------------------------------------------------------------------------
(* The theorems                                                            *)

\* Theorem: the invariant holds of every way to put a backup together.
THEOREM DocumentsInvariance == DocumentsSpec => []DInv
    BY InitDInv, NextDInv, PTL DEF DocumentsSpec

\* Theorem: the policies that become documents stand for their descriptors
\* (WalletPolicy::from_descriptor).
THEOREM PoliciesStand == DocumentsSpec => []PolicyStandsForIt
<1>1. DInv => PolicyStandsForIt
    BY CInvStands DEF DInv
<1>2. QED
    BY <1>1, DocumentsInvariance, PTL

\* Theorem: every set of a document gives its descriptor back from the text of
\* its template, or BIP388 cannot write that descriptor and the backup is
\* refused (PolicySet::from_descriptor, to_descriptor, validate).
THEOREM SetsStandCorrect == DocumentsSpec => []SetsStand
    BY DInvSetsStand, DocumentsInvariance, PTL

\* Theorem: no key that a document's descriptors use as it is seals the backup,
\* and every other one that a key is derived from does, unless it is NUMS
\* (PolicyBackup::validate and keys, DescriptorBackup::keys, exposed_keys).
THEOREM DocumentKeysCorrect == DocumentsSpec => []DocumentKeys
<1>1. DInv => DocumentKeys
    BY DEF DInv
<1>2. QED
    BY <1>1, DocumentsInvariance, PTL

\* Theorem: who holds a recipient key gets the documents of the backup and the
\* descriptors they were made from; under whatever label, a document is never
\* read as another one (to_payload, set_content_type, extract).
THEOREM SameDescriptorBackCorrect == DocumentsSpec => []SameDescriptorBack
<1>1. DocumentsInit => StoredTexts
    BY DEF DocumentsInit, DocInit, StoredTexts, Sealed
<1>2. DInv /\ StoredTexts => SameDescriptorBack
    BY StoredReadBack
<1>3. DInv /\ StoredTexts /\ [DocumentsNext]_documentsVars => StoredTexts'
    BY StoredStep
<1> QED
    BY <1>1, <1>2, <1>3, DocumentsInvariance, PTL DEF DocumentsSpec
=============================================================================
