------------------------------- MODULE Builder -------------------------------
(***************************************************************************)
(* The values and the calls of EncryptedBackup (src/lib.rs): the pooled    *)
(* recipient keys, their derivation paths and the keys that the payload    *)
(* puts on chain.  A setter takes the builder and returns it changed, so   *)
(* it is an operator on the record.  A payload is the record of what its   *)
(* methods return: data, content, keys, keyPaths, warnings, exposed.       *)
(*                                                                         *)
(* The core is used by its promise (SealedBackup, which BackupCore         *)
(* implements): the encrypted bytes are the recipients, the stored paths   *)
(* and the items.  Bytes from elsewhere may be of version 0, which another *)
(* crate decrypts, name another encryption, or hold a plaintext that does  *)
(* not decode.                                                             *)
(***************************************************************************)
EXTENDS Recursion, FiniteSets

CONSTANTS
    PublicKeys,   \* the keys a caller or a payload may name
    XOnly,        \* the x coordinate of each
    NumsX,        \* the x coordinate of the NUMS point
    Paths,        \* derivation paths
    CommonPaths,  \* those the core stores only on request
    Contents,     \* content types
    KnownContents,   \* those for which is_known holds
    Parsed        \* what extract does with each: "value", "error" or "none"

Versions == {"V0", "V1", "Unknown"}
Encryptions == {"Undefined", "ChaCha20Poly1305", "AesGcm256", "Unknown"}
Paddings == {"None", "Geometric"}

ASSUME BuilderAssumption ==
    /\ KnownContents \subseteq Contents \ {"Unknown", "None"}
    /\ "Unknown" \in Contents
    /\ Parsed \in [Contents -> {"value", "error", "none"}]
    /\ DOMAIN XOnly = PublicKeys
    /\ CommonPaths \subseteq Paths

NoPayload == [is |-> "none"]
ToEncrypt(item) == [is |-> "encrypt", item |-> item]
ToEncryptMany(items) == [is |-> "many", items |-> items]
ToDecrypt(b) == [is |-> "decrypt", of |-> b]
NoBlob == [format |-> "V1", encryption |-> "ChaCha20Poly1305", decodes |-> TRUE, padding |-> "None",
           to |-> {}, paths |-> {}, items |-> <<>>, warnings |-> {}]

NewBuilder == [version |-> "V1", content |-> "Unknown", encryption |-> "ChaCha20Poly1305",
               paths |-> {}, keys |-> {}, exposed |-> {}, keyPaths |-> {},
               payload |-> NoPayload, warnings |-> {}, padding |-> "None", storeCommon |-> FALSE]

-----------------------------------------------------------------------------
(* The setters                                                             *)

XOnlys(ks) == {XOnly[k] : k \in ks}

ExposedRoots(b) == {k \in b.keys : XOnly[k] \in b.exposed}
Dropped(b) == {<<"ExposedRoot", k>> : k \in ExposedRoots(b)}

\* mutant: a dropped key is not announced
DropQuietly(b) == [b EXCEPT !.keys = b.keys \ ExposedRoots(b)]
\* mutant: the paths of a dropped key stay
DropKeysOnly(b) ==
    [b EXCEPT !.keys = b.keys \ ExposedRoots(b), !.warnings = b.warnings \cup Dropped(b)]
DropExposedKeys(b) ==
    LET kept == {kp \in b.keyPaths : XOnly[kp[1]] \notin b.exposed}
        dropped == b.keyPaths \ kept
    IN  [b EXCEPT !.keys = b.keys \ ExposedRoots(b),
                  !.warnings = b.warnings \cup Dropped(b),
                  !.paths = {p \in b.paths : \/ \E kp \in kept : kp[2] = p
                                             \/ ~\E kp \in dropped : kp[2] = p}]

\* the keys, paths, warnings and exposed keys of items join the builder's
Pool(b, items) ==
    LET keyPaths == UNION {x.keyPaths : x \in items}
    IN  [b EXCEPT !.paths = b.paths \cup {kp[2] : kp \in keyPaths},
                  !.keyPaths = b.keyPaths \cup keyPaths,
                  !.keys = b.keys \cup UNION {x.keys : x \in items},
                  !.warnings = b.warnings \cup UNION {x.warnings : x \in items},
                  !.exposed = b.exposed \cup UNION {x.exposed : x \in items}]

\* mutant: set_keys trusts the caller's keys
WithKeysUnchecked(b, ks) == [b EXCEPT !.keys = ks]
WithKeys(b, ks) == DropExposedKeys([b EXCEPT !.keys = ks])

WithPayload(b, item) ==
    DropExposedKeys([Pool(b, {item}) EXCEPT
        !.payload = ToEncrypt(item.data),
        !.content = IF item.content \in KnownContents THEN item.content ELSE b.content])

\* every item must have a content type that is known
Accepted(items) == \A i \in DOMAIN items : items[i].content \in KnownContents

\* the payload only takes its place once all keys are in
WithPayloads(b, items) ==
    [DropExposedKeys(Pool(b, {items[i] : i \in DOMAIN items})) EXCEPT
        !.payload = ToEncryptMany([i \in DOMAIN items |-> <<items[i].content, items[i].data>>])]

\* mutant: the encryption of an earlier backup stays
WithEncryptedStale(b, sealed) == [b EXCEPT !.paths = sealed.paths, !.payload = ToDecrypt(sealed)]
\* set_encrypted_payload: decode_v1, or the raw bytes of version 0
WithEncrypted(b, sealed) ==
    IF sealed.format = "V0" THEN [b EXCEPT !.payload = ToDecrypt(sealed)]
    ELSE [b EXCEPT !.paths = sealed.paths,
                   !.encryption = sealed.encryption,
                   !.payload = ToDecrypt(sealed)]

-----------------------------------------------------------------------------
(* encrypt and decrypt                                                     *)

\* what encrypt refuses before it calls the core, in its order; the core
\* refuses a set of keys that is empty without NUMS
EncryptError(b) ==
    CASE b.content = "Unknown" /\ b.payload.is # "many" -> "UnknownContent"
      [] b.encryption \in {"Undefined", "Unknown"} -> "EncryptionUndefined"
      [] b.version = "Unknown" -> "InvalidVersion"
      [] <<b.encryption, b.version>> # <<"ChaCha20Poly1305", "V1">> -> "NotImplemented"
      [] b.payload.is \notin {"encrypt", "many"} -> "WrongPayload"
      [] b.keys = {} -> "DescriptorHasNoKeys"
      [] XOnlys(b.keys) \ {NumsX} = {} -> "KeyCount"
      [] OTHER -> "none"

Items(b) == IF b.payload.is = "many" THEN b.payload.items
                                     ELSE <<<<b.content, b.payload.item>>>>

Encrypted(b) == [format |-> "V1", encryption |-> b.encryption, decodes |-> TRUE,
                 padding |-> b.padding, to |-> XOnlys(b.keys) \ {NumsX},
                 paths |-> {p \in b.paths : b.storeCommon \/ p \notin CommonPaths},
                 items |-> Items(b), warnings |-> b.warnings]

Values(items) == Filtered(items, {i \in DOMAIN items : Parsed[items[i][1]] = "value"})

\* decrypt: the items that have a parser, unless one of them does not parse
Extract(items) ==
    IF \E i \in DOMAIN items : Parsed[items[i][1]] = "error" THEN [is |-> "ParseError"]
    ELSE [is |-> "items", items |-> Values(items)]

Opens(b) == XOnlys(b.keys) \cap b.payload.of.to # {}

\* try_v0_decrypt
DecryptedV0(b) ==
    CASE ~b.payload.of.decodes -> [is |-> "WrongPayload"]
      [] b.payload.of.decodes /\ ~Opens(b) -> [is |-> "WrongKey"]
      [] OTHER -> [is |-> "items", items |-> b.payload.of.items]

\* a plaintext that does not decode counts as a wrong key
DecryptedV1(b) ==
    IF Opens(b) /\ b.payload.of.decodes THEN Extract(b.payload.of.items) ELSE [is |-> "WrongKey"]

IsV0(b) == b.payload.is = "decrypt" /\ b.payload.of.format = "V0"
Decrypted(b) ==
    CASE b.keys = {} -> [is |-> "NoKey"]
      [] b.keys # {} /\ IsV0(b) -> DecryptedV0(b)
      [] b.keys # {} /\ ~IsV0(b) /\ b.version = "V0" -> [is |-> "NotImplemented"]
      [] b.keys # {} /\ ~IsV0(b) /\ b.version = "Unknown" -> [is |-> "UnknownVersion"]
      [] b.keys # {} /\ ~IsV0(b) /\ b.version = "V1" ->
            CASE b.payload.is # "decrypt" -> [is |-> "WrongPayload"]
              [] b.payload.is = "decrypt" /\ b.encryption # "ChaCha20Poly1305" ->
                    [is |-> "UnsupportedEncryption"]
              [] OTHER -> DecryptedV1(b)
=============================================================================
