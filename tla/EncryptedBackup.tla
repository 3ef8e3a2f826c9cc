--------------------------- MODULE EncryptedBackup ---------------------------
(***************************************************************************)
(* The builder of the bip138 crate over any sequence of setter calls, then *)
(* encrypt, and a builder that is given the encrypted bytes, then decrypt. *)
(* A setter that fails consumes the builder: the caller starts anew.       *)
(***************************************************************************)
EXTENDS DescriptorKeys

CONSTANTS
    OriginPath,   \* the path its holder derives each key at
    Payloads,     \* the payloads, see PayloadType
    KeySets, PathSets,   \* the arguments of set_keys and set_derivation_paths
    Foreign,      \* encrypted bytes that were made elsewhere
    MaxCalls      \* bound on the calls made

VARIABLES
    builder,      \* the fields of the EncryptedBackup
    blob,         \* what the last successful encrypt returned, or NoBlob
    answer,       \* what the last encrypt or decrypt returned
    calls,        \* number of calls so far
    given,        \* history: keys given to this builder and not replaced
    expressions,  \* history: the key expressions of its payloads
    sealedFor,    \* history: given, when blob was made
    pathsSet      \* history: set_derivation_paths or set_encrypted_payload set its paths

vars == <<builder, blob, answer, calls, given, expressions, sealedFor, pathsSet>>

\* a descriptor, or a value of another type that names its keys like one or
\* names none (String, Vec<u8>, the caller's own)
PayloadType == [content : Contents, data : STRING, expressions : SUBSET KeyExpr]

Warning == ({"ExposedRoot"} \X PublicKeys)
           \cup ({"DisallowedKeyExpression", "NumsKey"} \X KeyExpr)
BlobType == [format : {"V0", "V1"}, encryption : Encryptions, decodes : BOOLEAN,
             padding : Paddings, to : SUBSET {XOnly[k] : k \in PublicKeys},
             paths : SUBSET Paths, items : Seq(Contents \X STRING), warnings : SUBSET Warning]

ASSUME CallsAssumption ==
    /\ OriginPath \in [PublicKeys -> Paths]
    /\ Payloads \subseteq PayloadType
    /\ KeySets \subseteq SUBSET PublicKeys
    /\ PathSets \subseteq SUBSET Paths
    /\ Foreign \subseteq BlobType
    /\ MaxCalls \in Nat

-----------------------------------------------------------------------------
Nothing == [is |-> "none"]

ToPayload(p) == AsPayload(p.content, p.data, p.expressions)
RootsIn(p) == {e.root : e \in p.expressions}

Init ==
    /\ builder = NewBuilder
    /\ blob = NoBlob
    /\ answer = Nothing
    /\ calls = 0
    /\ given = {}
    /\ expressions = {}
    /\ sealedFor = {}
    /\ pathsSet = FALSE

Call(b) ==
    /\ calls < MaxCalls
    /\ calls' = calls + 1
    /\ builder' = b
    /\ answer' = Nothing
    /\ UNCHANGED <<blob, sealedFor>>

\* a setter that takes no keys and no payload
Setting(b) == Call(b) /\ UNCHANGED <<given, expressions>>

New ==
    /\ Call(NewBuilder)
    /\ given' = {}
    /\ expressions' = {}
    /\ pathsSet' = FALSE

SetKeys(ks) ==
    /\ Call(WithKeys(builder, ks))
    /\ given' = ks
    /\ UNCHANGED <<expressions, pathsSet>>

SetVersion(v) == Setting([builder EXCEPT !.version = v]) /\ UNCHANGED pathsSet
SetEncryption(e) == Setting([builder EXCEPT !.encryption = e]) /\ UNCHANGED pathsSet
SetPadding(p) == Setting([builder EXCEPT !.padding = p]) /\ UNCHANGED pathsSet
SetStoreCommonPaths(on) == Setting([builder EXCEPT !.storeCommon = on]) /\ UNCHANGED pathsSet
SetContentType(c) == Setting([builder EXCEPT !.content = c]) /\ UNCHANGED pathsSet

SetDerivationPaths(ps) ==
    /\ Setting([builder EXCEPT !.paths = ps])
    /\ pathsSet' = TRUE

SetPayload(p) ==
    /\ Call(WithPayload(builder, ToPayload(p)))
    /\ given' = given \cup RootsIn(p)
    /\ expressions' = expressions \cup p.expressions
    /\ UNCHANGED pathsSet

ItemsOf(ps) == [i \in DOMAIN ps |-> ToPayload(ps[i])]
RootsOf(ps) == UNION {RootsIn(ps[i]) : i \in DOMAIN ps}
ExpressionsIn(ps) == UNION {ps[i].expressions : i \in DOMAIN ps}

SetPayloads(ps) ==
    \/ /\ Accepted(ItemsOf(ps))
       /\ Call(WithPayloads(builder, ItemsOf(ps)))
       /\ given' = given \cup RootsOf(ps)
       /\ expressions' = expressions \cup ExpressionsIn(ps)
       /\ UNCHANGED pathsSet
    \/ /\ ~Accepted(ItemsOf(ps))
       /\ Call(NewBuilder)
       /\ given' = {}
       /\ expressions' = {}
       /\ pathsSet' = FALSE

\* the bytes that encrypt returned, or others
Loadable == Foreign \cup ({blob} \ {NoBlob})
SetEncryptedPayload(bl) ==
    /\ Setting(WithEncrypted(builder, bl))
    /\ pathsSet' = (pathsSet \/ bl.format = "V1")

\* encrypt takes the builder; the caller may have kept a clone
Encrypt ==
    /\ calls < MaxCalls
    /\ calls' = calls + 1
    /\ answer' = [is |-> EncryptError(builder)]
    /\ IF EncryptError(builder) = "none"
       THEN blob' = Encrypted(builder) /\ sealedFor' = given
       ELSE UNCHANGED <<blob, sealedFor>>
    /\ UNCHANGED <<builder, given, expressions, pathsSet>>

Decrypt ==
    /\ calls < MaxCalls
    /\ calls' = calls + 1
    /\ answer' = Decrypted(builder)
    /\ UNCHANGED <<builder, blob, given, expressions, sealedFor, pathsSet>>

Next ==
    \/ New
    \/ \E ks \in KeySets : SetKeys(ks)
    \/ \E v \in Versions : SetVersion(v)
    \/ \E e \in Encryptions : SetEncryption(e)
    \/ \E p \in Paddings : SetPadding(p)
    \/ \E on \in BOOLEAN : SetStoreCommonPaths(on)
    \/ \E c \in Contents : SetContentType(c)
    \/ \E ps \in PathSets : SetDerivationPaths(ps)
    \/ \E p \in Payloads : SetPayload(p)
    \/ \E ps \in {<<p>> : p \in Payloads} \cup (Payloads \X Payloads) : SetPayloads(ps)
    \/ \E bl \in Loadable : SetEncryptedPayload(bl)
    \/ Encrypt
    \/ Decrypt

Spec == Init /\ [][Next]_vars

-----------------------------------------------------------------------------
(* Properties                                                              *)

PayloadTypes == {NoPayload}
    \cup [is : {"encrypt"}, item : STRING]
    \cup [is : {"many"}, items : Seq(Contents \X STRING)]
    \cup [is : {"decrypt"}, of : BlobType]

BuilderType == [version : Versions, content : Contents, encryption : Encryptions,
                paths : SUBSET Paths, keys : SUBSET PublicKeys,
                exposed : SUBSET {XOnly[k] : k \in PublicKeys},
                keyPaths : SUBSET (PublicKeys \X Paths), payload : PayloadTypes,
                warnings : SUBSET Warning, padding : Paddings, storeCommon : BOOLEAN]

Outcomes == {"none", "UnknownContent", "EncryptionUndefined", "InvalidVersion", "NotImplemented",
             "WrongPayload", "DescriptorHasNoKeys", "KeyCount", "NoKey", "UnknownVersion",
             "UnsupportedEncryption", "WrongKey", "ParseError", "items"}

\* Type invariant of the builder and of what it returned.
TypeOK ==
    /\ builder \in BuilderType
    /\ blob \in BlobType
    /\ answer.is \in Outcomes
    /\ calls \in Nat
    /\ given \subseteq PublicKeys
    /\ expressions \subseteq KeyExpr
    /\ sealedFor \subseteq PublicKeys
    /\ pathsSet \in BOOLEAN

\* some payload uses the key as it is, whatever its parity
OnChain(k) == \E e \in expressions : ~MayEncrypt(e) /\ XOnly[e.root] = XOnly[k]

\* No recipient ever shows up on chain, by whichever setter and in whichever
\* order keys and payloads came: a key that one descriptor derives from and
\* another uses as it is, perhaps under the other parity, is none
\* (descr_exposed_keys, drop_exposed_keys).
RecipientsOffChain == \A k \in builder.keys : ~OnChain(k)

\* a warning that the holder of k cannot read the backup
WarnedOf(w, k) == w = <<"ExposedRoot", k>> \/ (w[1] # "ExposedRoot" /\ w[2].root = k)

\* Every key that the caller or a key expression of a payload named is a
\* recipient, or a warning says why not: NUMS for a NUMS root, the expression
\* that is not allowed, or the key on chain.  No recipient is lost in silence
\* (descr_warnings, drop_exposed_keys).
EveryoneAccounted ==
    /\ builder.keys \subseteq given
    /\ \A k \in given \ builder.keys : \E w \in builder.warnings :
          /\ WarnedOf(w, k)
          /\ w[1] = "NumsKey" <=> XOnly[k] = NumsX /\ w[1] # "ExposedRoot"
          /\ w[1] = "ExposedRoot" => OnChain(k)

\* While the caller leaves the paths alone, they are the origins of exactly
\* those expressions whose roots may decrypt: derived, not NUMS, not on chain
\* (dpks_to_key_paths, add_key_paths, drop_exposed_keys).
PathsFollowKeys ==
    ~pathsSet => builder.paths = {e.origin : e \in {x \in expressions :
                                    /\ MayEncrypt(x) /\ x.origin # NoOrigin
                                    /\ XOnly[x.root] # NumsX /\ ~OnChain(x.root)}}

\* The doc comment of drop_exposed_keys: a derivation path goes with a dropped
\* key unless a kept key, pooled or set by hand, also uses it.
KeptKeyKeepsPath ==
    [][(\E ks \in KeySets : SetKeys(ks)) \/ (\E p \in Payloads : SetPayload(p))
       => \A k \in builder'.keys : OriginPath[k] \in builder.paths
                                    => OriginPath[k] \in builder'.paths]_vars

\* A backup is read by every key that was given to its builder, except those
\* encrypt warned about and the NUMS point, and not by these: the fresh builder
\* of a holder, whatever the one that encrypted had been through.
ReadBack(k) == Decrypted(WithKeys(WithEncrypted(NewBuilder, blob), {k}))
EveryRecipientReads ==
    blob # NoBlob =>
        \A k \in sealedFor :
            IF (\E w \in blob.warnings : WarnedOf(w, k)) \/ XOnly[k] = NumsX
            THEN ReadBack(k).is = "WrongKey"
            ELSE ReadBack(k) = Extract(blob.items)

\* A builder that has been used for anything, perhaps for other backups, and is
\* given a backup and one key: what it reads is that backup, and only with a
\* key of a recipient; whoever has one is told WrongKey only if the plaintext
\* does not decode, NoKey only if an earlier payload put the key on chain, and
\* that the encryption is not supported only if the backup says so, whatever an
\* earlier one said (set_encrypted_payload, set_keys, decrypt_with).
Reused(bl, k) == Decrypted(WithKeys(WithEncrypted(builder, bl), {k}))
LoadedRead ==
    \A bl \in Loadable, k \in PublicKeys :
        LET answered == Reused(bl, k).is
            opens == XOnly[k] \in bl.to
        IN  /\ answered = "items" => opens /\ bl.decodes /\ Reused(bl, k).items \in {bl.items, Values(bl.items)}
            /\ answered = "WrongKey" => ~opens \/ ~bl.decodes
            /\ answered = "NoKey" => OnChain(k)
            /\ answered = "UnsupportedEncryption" => bl.encryption # "ChaCha20Poly1305"
            /\ answered \in {"NotImplemented", "UnknownVersion"} =>
                  bl.format = "V1" /\ builder.version # "V1"
            /\ answered = "WrongPayload" => bl.format = "V0" /\ ~bl.decodes
=============================================================================
