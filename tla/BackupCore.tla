----------------------------- MODULE BackupCore -----------------------------
(***************************************************************************)
(* One encryption call of the bip138-ll core and the decryptions of the    *)
(* backup it produces (bip138-ll/src/lib.rs).                              *)
(*                                                                         *)
(* The encryption is one thread that draws a nonce, encodes the payload,   *)
(* checks the key and path sets, derives one individual secret per key,    *)
(* pads the individual secrets with decoys drawn one by one and seals the  *)
(* payload.  Every holder of a key then scans the individual secrets of    *)
(* the backup, one AEAD attempt per step, in any order (the code's order   *)
(* is that of the bytes, which the model does not have).                   *)
(*                                                                         *)
(* Cryptography is symbolic, see SymbolicCrypto.                           *)
(***************************************************************************)
EXTENDS Naturals, FiniteSets, Sequences, SymbolicCrypto

CONSTANTS
    Keys,         \* x-only public keys
    Nums,         \* the x-only form of the BIP341 NUMS point
    Paths,        \* derivation paths
    CommonPaths,  \* the fallback derivation paths of both coin types
    ChildCount,   \* number of child indexes of each path
    Requests,     \* the calls the model makes, see CallType
    Readers,      \* keys whose holders try to decrypt the backup
    Entropy,      \* the distinct non-zero outputs the random source has
    BucketMin,    \* smallest individual-secret count (5 in the code)
    CountMax,     \* limit of the one-byte counts (255 in the code)
    DataMax,      \* limit of an item's length (u32::MAX in the code)
    PaddedSizes,  \* the geometric payload sizes that fit the arithmetic
    NoContent     \* the content types without an encoding (None, Unknown)

VARIABLES
    rng,          \* "good", or "stuck": a source that only yields zeros
    pc,           \* control state of the encryption
    call,         \* arguments of the encryption
    nonce,        \* the nonce of this encryption
    payload,      \* the items of the plaintext (its zero padding is left out)
    secrets,      \* individual secrets so far, decoys included
    error,        \* why the encryption failed
    backup,       \* the encoded backup
    scan          \* per reader: individual secrets still to try and outcome

encVars == <<rng, pc, call, nonce, payload, secrets, error, backup>>
vars == <<rng, pc, call, nonce, payload, secrets, error, backup, scan>>

-----------------------------------------------------------------------------
(* The random source                                                       *)

RandomValues == {Random(e) : e \in Entropy}
Drawable == IF rng = "good" THEN RandomValues \cup {Zero} ELSE {Zero}

-----------------------------------------------------------------------------
(* Sizes and the arguments of a call                                       *)

\* the smallest of 5, 10, 20, ... that holds n, saturating at the count limit
Buckets == {b \in 1..CountMax : b = CountMax \/ \E i \in 0..7 : b = BucketMin * 2^i}
DoublingBucket(n) ==
    CHOOSE b \in Buckets : n <= b /\ \A o \in Buckets : n <= o => b <= o

ItemType == [content : STRING, size : Nat]

\* the content field of the item, its length field and its data
EncodedLength(items) ==
    LET length[i \in 0..Len(items)] ==
            IF i = 0 THEN 0 ELSE length[i - 1] + 2 + items[i].size
    IN  length[Len(items)]

\* Padding::padded_size succeeds
PaddingFits(padding, items) ==
    padding = "none" \/ \E size \in PaddedSizes : EncodedLength(items) <= size

BadItem(x) == x.size = 0 \/ x.size > DataMax \/ x.content \in NoContent

\* the keys a backup is really sealed to
SealedTo(c) == c.keys \ {Nums}
\* mutant: the flag is read the wrong way round
StoredUnlessAsked(c) == {p \in c.paths : ~c.storeCommon \/ p \in CommonPaths}
StoredPaths(c) == {p \in c.paths : c.storeCommon \/ p \notin CommonPaths}

\* mutant: the keys are counted before NUMS is dropped
CountedTooEarly(c) == SealedTo(c) # {} /\ Cardinality(c.keys) <= CountMax
KeyCountFits(c) == SealedTo(c) # {} /\ Cardinality(SealedTo(c)) <= CountMax

ZeroedNonce(n) == n = Zero

CallType == [keys : SUBSET Keys, paths : SUBSET Paths, storeCommon : BOOLEAN,
             items : Seq(ItemType), padding : {"none", "geometric"},
             supplied : BOOLEAN, nonce : RandomValues \cup {Zero},
             decoys : Seq(RandomValues \cup {Zero})]

Errors == {"none", "DataLength", "ContentMetadata", "EmptyBytes", "Padding", "KeyCount",
           "DerivPathCount", "IndividualSecretsLength", "DerivPathEmpty", "DerivPathLength",
           "ZeroedNonce", "Encrypt"}

NoCall == [keys |-> {}, paths |-> {}, storeCommon |-> FALSE, items |-> <<>>,
           padding |-> "none", supplied |-> FALSE, nonce |-> Zero, decoys |-> <<>>]
NoBackup == [paths |-> {}, secrets |-> {}, nonce |-> Zero,
             sealed |-> AeadSeal(Zero, Zero, <<>>)]
NotScanning == [stage |-> "none", todo |-> {}, items |-> <<>>]

ASSUME ConstantsAssumption ==
    /\ BucketMin \in Nat \ {0}
    /\ CountMax \in Nat \ {0}
    /\ DataMax \in Nat
    /\ IsFiniteSet(Keys)
    /\ IsFiniteSet(Paths)
    /\ Readers \subseteq Keys
    /\ CommonPaths \subseteq Paths
    /\ ChildCount \in [Paths -> Nat]
    /\ Requests \subseteq CallType

-----------------------------------------------------------------------------
Init ==
    /\ rng \in {"good", "stuck"}
    /\ pc = "idle"
    /\ call = NoCall
    /\ nonce = Zero
    /\ payload = <<>>
    /\ secrets = {}
    /\ error = "none"
    /\ backup = NoBackup
    /\ scan = [k \in Readers |-> NotScanning]

Fail(e) ==
    /\ pc' = "failed"
    /\ error' = e

\* encrypt_chacha20_poly1305_v1_items draws its nonce before anything else;
\* the _with_decoys variant takes the caller's
Encrypt(c) ==
    /\ pc = "idle"
    /\ call' = c
    /\ IF c.supplied THEN /\ nonce' = c.nonce
                          /\ pc' = "payload"
                     ELSE /\ nonce' = nonce
                          /\ pc' = "nonce"
    /\ UNCHANGED <<rng, payload, secrets, error, backup, scan>>

\* draw_nonce: one redraw of an all-zero nonce, then it flows on
DrawNonce(v) ==
    /\ pc \in {"nonce", "redraw"}
    /\ v \in Drawable
    /\ nonce' = v
    /\ pc' = IF v = Zero /\ pc = "nonce" THEN "redraw" ELSE "payload"
    /\ UNCHANGED <<rng, call, payload, secrets, error, backup, scan>>

\* build_v1_payload: the first bad item decides the error
BuildPayload ==
    LET bad == {i \in DOMAIN call.items : BadItem(call.items[i])}
        first == CHOOSE i \in bad : \A j \in bad : i <= j
        fits == PaddingFits(call.padding, call.items)
    IN  /\ pc = "payload"
        /\ \/ /\ bad # {}
              /\ Fail(IF call.items[first].size \in 1..DataMax
                      THEN "ContentMetadata" ELSE "DataLength")
              /\ UNCHANGED payload
           \/ /\ call.items = <<>>
              /\ Fail("EmptyBytes")
              /\ UNCHANGED payload
           \/ /\ bad = {} /\ call.items # <<>> /\ ~fits
              /\ Fail("Padding")
              /\ UNCHANGED payload
           \/ /\ bad = {} /\ call.items # <<>> /\ fits
              /\ payload' = call.items
              /\ pc' = "header"
              /\ UNCHANGED error
        /\ UNCHANGED <<rng, call, nonce, secrets, backup, scan>>

\* encode_v1_backup up to the padding: drop NUMS, duplicates and common paths,
\* check the counts, derive the secret and the individual secrets
DeriveSecrets ==
    LET to == SealedTo(call)
    IN  /\ pc = "header"
        /\ \/ /\ ~KeyCountFits(call)
              /\ Fail("KeyCount")
              /\ UNCHANGED secrets
           \/ /\ KeyCountFits(call)
              /\ Cardinality(StoredPaths(call)) > CountMax
              /\ Fail("DerivPathCount")
              /\ UNCHANGED secrets
           \/ /\ KeyCountFits(call)
              /\ Cardinality(StoredPaths(call)) <= CountMax
              /\ secrets' = IndividualSecrets(DecryptionSecret(to), to)
              /\ pc' = "pad"
              /\ UNCHANGED error
        /\ UNCHANGED <<rng, call, nonce, payload, backup, scan>>

\* the padding target is computed from the number of real secrets
Target == DoublingBucket(Cardinality(IndividualSecrets(DecryptionSecret(SealedTo(call)),
                                                       SealedTo(call))))

\* mutant: the draw is not compared with the zero value
DrawAnyDecoy(v) ==
    /\ pc = "pad" /\ ~call.supplied
    /\ Cardinality(secrets) < Target
    /\ v \in Drawable
    /\ secrets' = secrets \cup {v}
    /\ UNCHANGED <<rng, pc, call, nonce, payload, error, backup, scan>>

\* pad_individual_secrets: one turn of the loop; a zero or known draw is dropped
DrawDecoy(v) ==
    /\ pc = "pad" /\ ~call.supplied
    /\ Cardinality(secrets) < Target
    /\ v \in Drawable \cup (IF rng = "good" THEN secrets ELSE {})
    /\ secrets' = IF v # Zero /\ v \notin secrets THEN secrets \cup {v} ELSE secrets
    /\ UNCHANGED <<rng, pc, call, nonce, payload, error, backup, scan>>

\* mutant: the loop's bound is off by one
PaddingOverrun ==
    /\ pc = "pad" /\ ~call.supplied
    /\ Cardinality(secrets) > Target
    /\ pc' = "seal"
    /\ UNCHANGED <<rng, call, nonce, payload, secrets, error, backup, scan>>

PaddingDone ==
    /\ pc = "pad" /\ ~call.supplied
    /\ Cardinality(secrets) >= Target
    /\ pc' = "seal"
    /\ UNCHANGED <<rng, call, nonce, payload, secrets, error, backup, scan>>

\* pad_individual_secrets_with_decoys: the whole list must fit
DecoysFit(decoys) ==
    /\ Len(decoys) = Target - Cardinality(secrets)
    /\ \A i \in DOMAIN decoys :
          /\ decoys[i] # Zero
          /\ decoys[i] \notin secrets
          /\ \A j \in DOMAIN decoys : decoys[j] = decoys[i] => j = i

TakeDecoys ==
    /\ pc = "pad" /\ call.supplied
    /\ IF DecoysFit(call.decoys)
       THEN /\ secrets' = secrets \cup {call.decoys[i] : i \in DOMAIN call.decoys}
            /\ pc' = "seal"
            /\ UNCHANGED error
       ELSE /\ Fail("IndividualSecretsLength")
            /\ UNCHANGED secrets
    /\ UNCHANGED <<rng, call, nonce, payload, backup, scan>>

\* encode_derivation_paths, encrypt_with_nonce and encode_v1; the cipher is the
\* caller's and may fail
Seal(cipherFails) ==
    LET childCounts == {ChildCount[p] : p \in StoredPaths(call)}
    IN  /\ pc = "seal"
        /\ \/ /\ 0 \in childCounts
              /\ Fail("DerivPathEmpty")
              /\ UNCHANGED backup
           \/ /\ 0 \notin childCounts
              /\ \E n \in childCounts : n > CountMax
              /\ Fail("DerivPathLength")
              /\ UNCHANGED backup
           \/ /\ \A n \in childCounts : n \in 1..CountMax
              /\ ZeroedNonce(nonce)
              /\ Fail("ZeroedNonce")
              /\ UNCHANGED backup
           \/ /\ \A n \in childCounts : n \in 1..CountMax
              /\ ~ZeroedNonce(nonce)
              /\ cipherFails
              /\ Fail("Encrypt")
              /\ UNCHANGED backup
           \/ /\ \A n \in childCounts : n \in 1..CountMax
              /\ ~ZeroedNonce(nonce)
              /\ ~cipherFails
              /\ backup' = [paths |-> StoredPaths(call), secrets |-> secrets, nonce |-> nonce,
                            sealed |-> AeadSeal(DecryptionSecret(SealedTo(call)), nonce, payload)]
              /\ pc' = "done"
              /\ UNCHANGED error
        /\ UNCHANGED <<rng, call, nonce, payload, secrets, scan>>

-----------------------------------------------------------------------------
(* decrypt_chacha20_poly1305_v1 by the holder of key k                     *)

StartDecrypt(k) ==
    /\ pc = "done"
    /\ scan[k].stage = "none"
    /\ scan' = [scan EXCEPT ![k] = [stage |-> "scanning", todo |-> backup.secrets,
                                    items |-> <<>>]]
    /\ UNCHANGED encVars

\* one turn of the scan: unmask the individual secret and try the AEAD
TrySecret(k, c) ==
    /\ scan[k].stage = "scanning"
    /\ c \in scan[k].todo
    /\ LET opens == AeadOpens(Xor(KeyMask(k), c), backup.nonce, backup.sealed)
       IN  \/ /\ opens
              /\ scan' = [scan EXCEPT ![k] = [stage |-> "opened", todo |-> {},
                                              items |-> backup.sealed.text]]
           \/ /\ ~opens
              /\ scan' = [scan EXCEPT ![k].todo = @ \ {c}]
    /\ UNCHANGED encVars

\* mutant: the first secret that does not open ends the scan
OneTried(k) ==
    /\ scan[k].stage = "scanning"
    /\ scan[k].todo # backup.secrets
    /\ scan' = [scan EXCEPT ![k].stage = "wrong_key", ![k].todo = {}]
    /\ UNCHANGED encVars

AllTried(k) ==
    /\ scan[k].stage = "scanning"
    /\ scan[k].todo = {}
    /\ scan' = [scan EXCEPT ![k].stage = "wrong_key"]
    /\ UNCHANGED encVars

-----------------------------------------------------------------------------
EncryptStep ==
    \/ \E v \in Drawable : DrawNonce(v)
    \/ BuildPayload
    \/ DeriveSecrets
    \/ \E v \in Drawable \cup secrets : DrawDecoy(v)
    \/ PaddingDone
    \/ TakeDecoys
    \/ \E cipherFails \in BOOLEAN : Seal(cipherFails)

ScanStep(k) ==
    \/ \E c \in scan[k].todo : TrySecret(k, c)
    \/ AllTried(k)

Next ==
    \/ \E c \in Requests : Encrypt(c)
    \/ EncryptStep
    \/ \E k \in Readers : StartDecrypt(k) \/ ScanStep(k)

Spec == Init /\ [][Next]_vars

\* Both calls run to completion on their own thread.  For the decoy loop this
\* says that a good source sooner or later yields a value it has not yielded.
FairSpec ==
    /\ Spec
    /\ WF_vars(EncryptStep)
    /\ \A k \in Readers : WF_vars(ScanStep(k))

-----------------------------------------------------------------------------
(* Properties                                                              *)

Recipients == SealedTo(call)

Values == SUBSET UNION (RandomValues
                        \cup {DecryptionSecret(ks) : ks \in SUBSET Keys}
                        \cup {KeyMask(k) : k \in Keys})

BackupType == [paths : SUBSET Paths, secrets : SUBSET Values, nonce : RandomValues \cup {Zero},
               sealed : [under : Values, nonce : RandomValues \cup {Zero}, text : Seq(ItemType)]]
ScanType == [stage : {"none", "scanning", "opened", "wrong_key"}, todo : SUBSET Values,
             items : Seq(ItemType)]

\* Type invariant: every variable keeps the type of the Rust value it models.
TypeOK ==
    /\ rng \in {"good", "stuck"}
    /\ pc \in {"idle", "nonce", "redraw", "payload", "header", "pad", "seal", "done", "failed"}
    /\ call \in Requests \cup {NoCall}
    /\ nonce \in RandomValues \cup {Zero}
    /\ payload \in Seq(ItemType)
    /\ secrets \in SUBSET Values
    /\ error \in Errors
    /\ backup \in BackupType
    /\ scan \in [Readers -> ScanType]

\* A scan that ends has the right answer whatever decoys were mixed in and in
\* whatever order they are tried: a recipient reads exactly the items that were
\* encrypted, a key that is not a recipient (the NUMS point among them) is told
\* WrongKey (decrypt_chacha20_poly1305_v1).
ScanOutcome ==
    \A k \in Readers :
        /\ scan[k].stage = "opened" => k \in Recipients /\ scan[k].items = call.items
        /\ scan[k].stage = "wrong_key" => k \notin Recipients

\* The number of individual secrets in a backup is the doubling bucket of the
\* number of recipients, whichever padding function filled it and however often
\* the source repeated itself, and no secret is the zero value
\* (pad_individual_secrets, pad_individual_secrets_with_decoys).
SecretCount ==
    pc = "done" =>
        /\ Cardinality(backup.secrets) = DoublingBucket(Cardinality(Recipients))
        /\ Zero \notin backup.secrets

\* Nothing is ever sealed under an all-zero nonce, drawn or supplied
\* (draw_nonce lets a second zero flow on, encrypt_with_nonce stops it).
NonceNotZero == pc = "done" => backup.sealed.nonce # Zero

\* A backup has the shape that the format wants, on every path that writes one:
\* the two properties above.
BackupShape == SecretCount /\ NonceNotZero

\* A decoder that tries the common paths and the stored ones tries every path
\* the caller gave; a common path is stored only on request (encode_v1_backup).
PathsRecoverable ==
    pc = "done" =>
        /\ call.paths \subseteq backup.paths \cup CommonPaths
        /\ backup.paths \subseteq call.paths
        /\ ~call.storeCommon => backup.paths \cap CommonPaths = {}

\* An encryption fails only for a fault of its arguments, of its random source
\* or of its cipher: good arguments are never refused (the sequence of checks
\* of build_v1_payload, encode_v1_backup and the encode_ functions).
GoodArguments(c) ==
    /\ c.items # <<>>
    /\ \A i \in DOMAIN c.items : ~BadItem(c.items[i])
    /\ PaddingFits(c.padding, c.items)
    /\ Cardinality(c.keys \ {Nums}) \in 1..CountMax
    /\ Cardinality(StoredPaths(c)) <= CountMax
    /\ \A p \in StoredPaths(c) : ChildCount[p] \in 1..CountMax
RefusedForCause ==
    pc = "failed" =>
        \/ ~GoodArguments(call)
        \/ nonce = Zero
        \/ error = "Encrypt"
        \/ call.supplied /\ ~DecoysFit(call.decoys)

\* With a good random source an encryption that was called returns, for the
\* decoy loop ends, and with any source every decryption that was started does.
EncryptReturns == (rng = "good" /\ pc # "idle") ~> pc \in {"done", "failed"}
DecryptReturns ==
    \A k \in Readers : scan[k].stage = "scanning" ~> scan[k].stage \in {"opened", "wrong_key"}
CallsReturn == EncryptReturns /\ DecryptReturns

\* The comment on draw_nonce: two zero draws in a row mean a broken source, and
\* the zero nonce then flows to encrypt_with_nonce, which rejects it.
BrokenSourceRejected == (rng = "stuck" /\ pc = "redraw") ~> pc = "failed"

\* The scheme implements the abstract sealed backup: it seals at the end of the
\* encryption and a holder is answered at the end of the scan.
BoxNow ==
    CASE pc = "done" -> [is |-> "sealed", to |-> Recipients, items |-> call.items]
      [] pc = "failed" -> [is |-> "refused", to |-> {}, items |-> <<>>]
      [] OTHER -> [is |-> "empty", to |-> {}, items |-> <<>>]
AnswerNow(k) ==
    CASE scan[k].stage = "opened" -> [says |-> "items", items |-> scan[k].items]
      [] scan[k].stage = "wrong_key" -> [says |-> "wrong_key", items |-> <<>>]
      [] OTHER -> [says |-> "nothing", items |-> <<>>]
Box == INSTANCE SealedBackup WITH
    Holders <- Readers, Recipients <- Keys, ItemLists <- {c.items : c \in Requests},
    box <- BoxNow, answer <- [k \in Readers |-> AnswerNow(k)]
SealedBackupSpec == Box!BoxSpec
=============================================================================
