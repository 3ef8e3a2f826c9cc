--------------------------- MODULE LowLevelProofs ---------------------------
(***************************************************************************)
(* Theorems about the bip138-ll crate: its encryption (BackupCore), for    *)
(* every set of keys, paths, requests and readers and every value of the   *)
(* limits, and its C interface (CInterface), for any arguments and         *)
(* callbacks and any number of calls.                                      *)
(***************************************************************************)
EXTENDS BackupCore, CInterface, FiniteSetTheorems, WellFoundedInduction, TLAPS

(*************************** BackupCore: the encryption *********************)

-----------------------------------------------------------------------------
(* The algebra of masks                                                    *)

\* XOR with a fixed value is injective (xor).
LEMMA XorInjective ==
    ASSUME NEW a, NEW b, NEW c, Xor(a, b) = Xor(a, c)
    PROVE  b = c
<1>1. ASSUME NEW x PROVE x \in b <=> x \in c
    <2>1. x \in Xor(a, b) <=> x \in Xor(a, c)
        OBVIOUS
    <2>2. QED
        BY <2>1 DEF Xor
<1>2. QED
    BY <1>1

\* Unmasking a value with the mask of k gives s exactly when the value is the
\* individual secret of k (individual_secret, decrypt_chacha20_poly1305_v1).
LEMMA Unmask ==
    ASSUME NEW s, NEW m, NEW c
    PROVE  Xor(m, c) = s <=> c = Xor(s, m)
<1>1. ASSUME Xor(m, c) = s PROVE c = Xor(s, m)
    <2>1. ASSUME NEW x PROVE x \in c <=> x \in Xor(s, m)
        BY <1>1 DEF Xor
    <2>2. QED
        BY <2>1
<1>2. ASSUME c = Xor(s, m) PROVE Xor(m, c) = s
    <2>1. ASSUME NEW x PROVE x \in Xor(m, c) <=> x \in s
        BY <1>2 DEF Xor
    <2>2. QED
        BY <2>1
<1>3. QED
    BY <1>1, <1>2

\* Two keys with the same mask are the same key (tagged_hash).
LEMMA MaskInjective ==
    ASSUME NEW j, NEW k, KeyMask(j) = KeyMask(k)
    PROVE  j = k
<1>1. [tag |-> "BIP138_INDIVIDUAL_SECRET", of |-> {j}] = [tag |-> "BIP138_INDIVIDUAL_SECRET", of |-> {k}]
    BY DEF KeyMask, TaggedHash
<1>2. {j} = {k}
    BY <1>1
<1>3. QED
    BY <1>2

\* Only the key it was made for unmasks an individual secret.
LEMMA OwnSecretOnly ==
    ASSUME NEW s, NEW j, NEW k, Xor(KeyMask(k), IndividualSecret(s, j)) = s
    PROVE  j = k
<1>1. IndividualSecret(s, j) = Xor(s, KeyMask(k))
    BY Unmask
<1>2. KeyMask(j) = KeyMask(k)
    BY <1>1, XorInjective DEF IndividualSecret
<1>3. QED
    BY <1>2, MaskInjective

\* The domain-separation tags keep an individual secret from having fewer than
\* two atoms: it is neither zero nor a random value.
LEMMA SecretHasBothAtoms ==
    ASSUME NEW ks, NEW k
    PROVE  /\ IndividualSecret(DecryptionSecret(ks), k) # Zero
           /\ \A e : IndividualSecret(DecryptionSecret(ks), k) # Random(e)
<1> DEFINE s == [tag |-> "BIP138_DECRYPTION_SECRET", of |-> ks]
           m == [tag |-> "BIP138_INDIVIDUAL_SECRET", of |-> {k}]
<1>1. s.tag # m.tag
    OBVIOUS
<1>2. s # m
    BY <1>1
<1> HIDE DEF s, m
<1>3. s \in Xor({s}, {m}) /\ m \in Xor({s}, {m})
    BY <1>2 DEF Xor
<1>4. IndividualSecret(DecryptionSecret(ks), k) = Xor({s}, {m})
    BY DEF IndividualSecret, DecryptionSecret, KeyMask, TaggedHash, s, m
<1>5. QED
    BY <1>2, <1>3, <1>4 DEF Zero, Random

\* No decoy opens a backup for any key.
LEMMA DecoyOpensNothing ==
    ASSUME NEW ks, NEW k, NEW e
    PROVE  Xor(KeyMask(k), Random(e)) # DecryptionSecret(ks)
BY Unmask, SecretHasBothAtoms DEF IndividualSecret

\* There are as many individual secrets as keys (individual_secrets).
LEMMA SecretPerKey ==
    ASSUME NEW s, NEW ks, IsFiniteSet(ks)
    PROVE  /\ IsFiniteSet(IndividualSecrets(s, ks))
           /\ Cardinality(IndividualSecrets(s, ks)) = Cardinality(ks)
<1> DEFINE T == IndividualSecrets(s, ks)
           f == [k \in ks |-> IndividualSecret(s, k)]
<1>1. f \in [ks -> T]
    BY DEF IndividualSecrets
<1>2. ASSUME NEW j \in ks, NEW k \in ks, f[j] = f[k] PROVE j = k
    BY <1>2, XorInjective, MaskInjective DEF IndividualSecret
<1>3. ASSUME NEW t \in T PROVE \E k \in ks : f[k] = t
    BY DEF IndividualSecrets
<1>4. f \in Bijection(ks, T)
    BY <1>1, <1>2, <1>3 DEF Bijection, Injection, Surjection, IsInjective
<1>5. QED
    BY <1>4, FS_Bijection DEF ExistsBijection

\* The padding target is at least the number of real secrets and fits the
\* one-byte count (doubling_bucket).
LEMMA BucketFits ==
    ASSUME NEW n \in Nat, n <= CountMax
    PROVE  /\ DoublingBucket(n) \in 1..CountMax
           /\ n <= DoublingBucket(n)
<1> DEFINE Fit == {b \in Buckets : n <= b}
           Less == {pair \in Nat \X Nat : pair[1] < pair[2]}
<1>0. IsWellFoundedOn(Less, Nat)
    BY NatLessThanWellFounded DEF OpToRel
<1>1. CountMax \in Fit /\ Fit \subseteq Nat
    BY ConstantsAssumption DEF Buckets
<1>2. PICK b \in Fit : \A o \in Fit : <<o, b>> \notin Less
    <2>1. Fit \subseteq Nat /\ Fit # {}
        BY <1>1
    <2> HIDE DEF Fit, Less
    <2>2. QED
        BY <1>0, <2>1, WFMin
<1>3. ASSUME NEW o \in Fit PROVE b <= o
    <2>1. o \in Nat /\ b \in Nat
        BY <1>1
    <2>2. o < b => <<o, b>> \in Less
        BY <2>1
    <2>3. ~(o < b)
        BY <1>2, <2>2
    <2>4. QED
        BY <2>1, <2>3
<1>4. b \in Buckets /\ n <= b /\ \A o \in Buckets : n <= o => b <= o
    BY <1>3
<1>5. /\ DoublingBucket(n) \in Buckets
      /\ n <= DoublingBucket(n)
    BY <1>4 DEF DoublingBucket
<1>6. QED
    BY <1>5 DEF Buckets

-----------------------------------------------------------------------------
(* Type correctness                                                        *)

\* Arguments have their types, before the call too.
LEMMA CallTyped ==
    ASSUME call \in Requests \cup {NoCall}
    PROVE  call \in CallType
<1>1. NoCall \in CallType
    BY DEF NoCall, CallType, Zero
<1>2. QED
    BY <1>1, ConstantsAssumption

\* Every value the encryption handles is one of the symbolic 32-byte values.
LEMMA ValuesTyped ==
    /\ RandomValues \cup {Zero} \subseteq Values
    /\ \A ks \in SUBSET Keys : /\ DecryptionSecret(ks) \in Values
                               /\ IndividualSecrets(DecryptionSecret(ks), ks) \subseteq Values
<1> DEFINE Atoms == UNION (RandomValues \cup {DecryptionSecret(ks) : ks \in SUBSET Keys}
                                        \cup {KeyMask(k) : k \in Keys})
<1>1. \A v \in RandomValues : v \subseteq Atoms
    OBVIOUS
<1>2. \A ks \in SUBSET Keys : DecryptionSecret(ks) \subseteq Atoms
    OBVIOUS
<1>3. \A k \in Keys : KeyMask(k) \subseteq Atoms
    OBVIOUS
<1>4. Values = SUBSET Atoms
    BY DEF Values
<1> HIDE DEF Atoms
<1>5. ASSUME NEW ks \in SUBSET Keys, NEW k \in ks
      PROVE  IndividualSecret(DecryptionSecret(ks), k) \subseteq Atoms
    BY <1>2, <1>3 DEF IndividualSecret, Xor
<1>6. QED
    BY <1>1, <1>2, <1>4, <1>5 DEF IndividualSecrets, Zero

\* The initial state is well typed.
LEMMA InitTyped == Init => TypeOK
<1>1. Zero \in Values /\ Zero \in RandomValues \cup {Zero}
    BY ValuesTyped
<1>2. NoBackup \in BackupType
    BY <1>1 DEF NoBackup, BackupType, AeadSeal
<1>3. NotScanning \in ScanType
    BY DEF NotScanning, ScanType
<1>4. QED
    BY <1>1, <1>2, <1>3 DEF Init, TypeOK, Errors

\* Theorem: every variable of the encryption and of the scans keeps its type.
THEOREM TypeCorrect == Spec => []TypeOK
<1>1. Init => TypeOK
    BY InitTyped
<1>2. TypeOK /\ [Next]_vars => TypeOK'
    <2> SUFFICES ASSUME TypeOK, [Next]_vars
                 PROVE  TypeOK'
        OBVIOUS
    <2> USE DEF TypeOK
    <2>0. call \in CallType
        BY CallTyped
    <2>1. ASSUME NEW c \in Requests, Encrypt(c)
          PROVE  TypeOK'
        BY <2>1, ConstantsAssumption DEF Encrypt, CallType
    <2>2. ASSUME NEW v \in Drawable, DrawNonce(v)
          PROVE  TypeOK'
        BY <2>2 DEF DrawNonce, Drawable
    <2>3. ASSUME BuildPayload
          PROVE  TypeOK'
        <3>1. call.items \in Seq(ItemType)
            BY <2>0 DEF CallType
        <3>2. error' \in Errors /\ payload' \in {payload, call.items} /\ pc' \in {"failed", "header"}
            BY <2>3 DEF BuildPayload, Fail, Errors
        <3>3. QED
            BY <2>3, <3>1, <3>2 DEF BuildPayload
    <2>4. ASSUME DeriveSecrets
          PROVE  TypeOK'
        <3>1. SealedTo(call) \in SUBSET Keys
            BY <2>0 DEF SealedTo, CallType
        <3>2. IndividualSecrets(DecryptionSecret(SealedTo(call)), SealedTo(call)) \in SUBSET Values
            BY <3>1, ValuesTyped
        <3>3. QED
            BY <2>4, <3>2 DEF DeriveSecrets, Fail, Errors
    <2>5. ASSUME NEW v, DrawDecoy(v)
          PROVE  TypeOK'
        <3>1. v \in Values
            BY <2>5, ValuesTyped DEF DrawDecoy, Drawable
        <3>2. QED
            BY <2>5, <3>1 DEF DrawDecoy
    <2>6. ASSUME PaddingDone
          PROVE  TypeOK'
        BY <2>6 DEF PaddingDone
    <2>7. ASSUME TakeDecoys
          PROVE  TypeOK'
        <3>1. \A i \in DOMAIN call.decoys : call.decoys[i] \in Values
            BY <2>0, ValuesTyped DEF CallType
        <3>2. QED
            BY <2>7, <3>1 DEF TakeDecoys, Fail, Errors
    <2>8. ASSUME NEW cipherFails \in BOOLEAN, Seal(cipherFails)
          PROVE  TypeOK'
        <3>1. DecryptionSecret(SealedTo(call)) \in Values
            BY <2>0, ValuesTyped DEF SealedTo, CallType
        <3>2. StoredPaths(call) \in SUBSET Paths
            BY <2>0 DEF StoredPaths, CallType
        <3>3. error' \in Errors /\ pc' \in {"failed", "done"}
            BY <2>8 DEF Seal, Fail, Errors
        <3>4. backup' \in BackupType
            BY <2>8, <3>1, <3>2 DEF Seal, BackupType, AeadSeal
        <3>5. QED
            BY <2>8, <3>3, <3>4 DEF Seal
    <2>9. ASSUME NEW k \in Readers, StartDecrypt(k)
          PROVE  TypeOK'
        BY <2>9 DEF StartDecrypt, encVars, BackupType, ScanType
    <2>10. ASSUME NEW k \in Readers, NEW c \in scan[k].todo, TrySecret(k, c)
          PROVE  TypeOK'
        <3>1. backup.sealed.text \in Seq(ItemType) /\ scan[k] \in ScanType
            BY DEF BackupType
        <3>2. scan' \in [Readers -> ScanType]
            <4>1. CASE scan' = [scan EXCEPT ![k] = [stage |-> "opened", todo |-> {},
                                                    items |-> backup.sealed.text]]
                BY <3>1, <4>1 DEF ScanType
            <4>2. CASE scan' = [scan EXCEPT ![k].todo = @ \ {c}]
                BY <3>1, <4>2 DEF ScanType
            <4>3. QED
                BY <2>10, <4>1, <4>2 DEF TrySecret
        <3>3. QED
            BY <2>10, <3>2 DEF TrySecret, encVars
    <2>11. ASSUME NEW k \in Readers, AllTried(k)
          PROVE  TypeOK'
        BY <2>11 DEF AllTried, encVars, ScanType
    <2>12. CASE UNCHANGED vars
        BY <2>12 DEF vars
    <2>13. QED
        BY <2>1, <2>2, <2>3, <2>4, <2>5, <2>6, <2>7, <2>8, <2>9, <2>10, <2>11, <2>12
        DEF Next, EncryptStep, ScanStep
<1>3. QED
    BY <1>1, <1>2, PTL DEF Spec

-----------------------------------------------------------------------------
(* The inductive invariant.  ScanOutcome alone is not inductive: a scan in *)
(* progress has to know that a recipient's own secret is still ahead, the  *)
(* backup that it scans exactly the recipients' secrets and random values, *)
(* and the encryption that it kept those while it padded.                  *)

RealSecrets == IndividualSecrets(DecryptionSecret(SealedTo(call)), SealedTo(call))

CallInv == pc # "idle" => call \in Requests

KeyCountInv ==
    pc \in {"pad", "seal", "done"} =>
        SealedTo(call) # {} /\ Cardinality(SealedTo(call)) <= CountMax

MixInv ==
    pc \in {"pad", "seal", "done"} =>
        RealSecrets \subseteq secrets /\ secrets \subseteq RealSecrets \cup RandomValues

CountInv ==
    /\ pc \in {"pad", "seal", "done"} => IsFiniteSet(secrets)
    /\ pc = "pad" => Cardinality(secrets) <= Target
    /\ pc \in {"seal", "done"} => Cardinality(secrets) = Target

PayloadInv == pc \in {"header", "pad", "seal"} => payload = call.items

SealInv ==
    pc = "done" =>
        /\ backup.secrets = secrets
        /\ backup.paths = StoredPaths(call)
        /\ backup.nonce # Zero
        /\ backup.sealed = AeadSeal(DecryptionSecret(SealedTo(call)), backup.nonce, call.items)

ScanInv ==
    \A k \in Readers :
        /\ scan[k].stage # "none" => pc = "done"
        /\ scan[k].stage = "scanning" =>
              /\ scan[k].todo \subseteq backup.secrets
              /\ k \in SealedTo(call) =>
                    IndividualSecret(DecryptionSecret(SealedTo(call)), k) \in scan[k].todo
        /\ scan[k].stage = "opened" => k \in SealedTo(call) /\ scan[k].items = call.items
        /\ scan[k].stage = "wrong_key" => k \notin SealedTo(call)

IInv ==
    /\ TypeOK
    /\ CallInv
    /\ KeyCountInv
    /\ MixInv
    /\ CountInv
    /\ PayloadInv
    /\ SealInv
    /\ ScanInv

\* Recipients are finitely many keys, so the real secrets can be counted and
\* the padding target is the bucket of the number of recipients.
LEMMA TargetOfRecipients ==
    ASSUME TypeOK
    PROVE  /\ SealedTo(call) \subseteq Keys
           /\ Cardinality(SealedTo(call)) \in Nat
           /\ IsFiniteSet(RealSecrets)
           /\ Cardinality(RealSecrets) = Cardinality(SealedTo(call))
           /\ Target = DoublingBucket(Cardinality(SealedTo(call)))
<1>1. SealedTo(call) \subseteq Keys
    BY CallTyped DEF TypeOK, CallType, SealedTo
<1>2. IsFiniteSet(SealedTo(call))
    BY <1>1, ConstantsAssumption, FS_Subset
<1>3. QED
    BY <1>1, <1>2, FS_CardinalityType, SecretPerKey DEF Target, RealSecrets

\* What a scanned value opens: the recipients' secrets open for their own key
\* only and the decoys for nobody.
LEMMA OpensForOwnerOnly ==
    ASSUME NEW k, NEW c \in RealSecrets \cup RandomValues,
           Xor(KeyMask(k), c) = DecryptionSecret(SealedTo(call))
    PROVE  /\ k \in SealedTo(call)
           /\ c = IndividualSecret(DecryptionSecret(SealedTo(call)), k)
<1>1. c \notin RandomValues
    BY DecoyOpensNothing DEF RandomValues
<1>2. PICK j \in SealedTo(call) : c = IndividualSecret(DecryptionSecret(SealedTo(call)), j)
    BY <1>1 DEF RealSecrets, IndividualSecrets
<1>3. j = k
    BY <1>2, OwnSecretOnly
<1>4. QED
    BY <1>2, <1>3

\* The secret of a recipient opens for that recipient.
LEMMA OpensForOwner ==
    ASSUME NEW k
    PROVE  Xor(KeyMask(k), IndividualSecret(DecryptionSecret(SealedTo(call)), k))
              = DecryptionSecret(SealedTo(call))
BY Unmask DEF IndividualSecret

\* The caller's decoys fill the padding exactly (pad_individual_secrets_with_decoys).
LEMMA DecoysFillTarget ==
    ASSUME TypeOK, IsFiniteSet(secrets), Target \in Nat, DecoysFit(call.decoys)
    PROVE  LET filled == secrets \cup {call.decoys[i] : i \in DOMAIN call.decoys}
           IN  /\ IsFiniteSet(filled)
               /\ Cardinality(filled) = Target
<1> DEFINE ds == call.decoys
           D == {ds[i] : i \in DOMAIN ds}
<1>1. ds \in Seq(RandomValues \cup {Zero})
    BY CallTyped DEF TypeOK, CallType
<1>2. Len(ds) \in Nat /\ DOMAIN ds = 1..Len(ds)
    BY <1>1
<1> DEFINE f == [i \in 1..Len(ds) |-> ds[i]]
<1>3. f \in Bijection(1..Len(ds), D)
    <2>1. f \in [1..Len(ds) -> D]
        BY <1>2
    <2>2. ASSUME NEW i \in 1..Len(ds), NEW j \in 1..Len(ds), f[i] = f[j] PROVE i = j
        BY <1>2, <2>2 DEF DecoysFit
    <2>3. ASSUME NEW d \in D PROVE \E i \in 1..Len(ds) : f[i] = d
        BY <1>2
    <2>4. QED
        BY <2>1, <2>2, <2>3 DEF Bijection, Injection, Surjection, IsInjective
<1>4. secrets \cap D = {}
    BY DEF DecoysFit
<1>5. Len(ds) = Target - Cardinality(secrets)
    BY DEF DecoysFit
<1> HIDE DEF ds, D, f
<1>6. IsFiniteSet(D) /\ Cardinality(D) = Len(ds)
    <2>1. IsFiniteSet(1..Len(ds)) /\ Cardinality(1..Len(ds)) = Len(ds)
        <3>1. 1 \in Int /\ Len(ds) \in Int
            BY <1>2
        <3>2. /\ IsFiniteSet(1..Len(ds))
              /\ Cardinality(1..Len(ds)) = IF 1 > Len(ds) THEN 0 ELSE Len(ds) - 1 + 1
            BY <3>1, FS_Interval
        <3>3. QED
            BY <1>2, <3>2
    <2>2. QED
        BY <1>3, <2>1, FS_Bijection DEF ExistsBijection
<1>7. /\ IsFiniteSet(secrets \cup D)
      /\ Cardinality(secrets \cup D) = Cardinality(secrets) + Cardinality(D)
    <2>1. Cardinality(secrets \cap D) = 0
        BY <1>4, FS_EmptySet
    <2>2. /\ IsFiniteSet(secrets \cup D)
          /\ Cardinality(secrets \cup D)
                = Cardinality(secrets) + Cardinality(D) - Cardinality(secrets \cap D)
        BY <1>6, FS_Union
    <2>3. Cardinality(secrets) \in Nat /\ Cardinality(D) \in Nat
        BY <1>6, FS_CardinalityType
    <2>4. QED
        BY <2>1, <2>2, <2>3
<1>8. Cardinality(secrets) \in Nat
    BY FS_CardinalityType
<1>9. QED
    BY <1>5, <1>6, <1>7, <1>8 DEF D, ds

\* Steps of a scan leave the encryption alone, and so what they preserve is
\* ScanInv (decrypt_chacha20_poly1305_v1 works on the parsed backup).
LEMMA ScanStepKeepsIInv ==
    ASSUME IInv, TypeOK', NEW k \in Readers, UNCHANGED encVars,
           \/ StartDecrypt(k)
           \/ \E c \in scan[k].todo : TrySecret(k, c)
           \/ AllTried(k)
    PROVE  IInv'
<1> DEFINE s == DecryptionSecret(SealedTo(call))
<1>1. CallInv' /\ KeyCountInv' /\ MixInv' /\ CountInv' /\ PayloadInv' /\ SealInv'
    BY DEF IInv, encVars, CallInv, KeyCountInv, MixInv, CountInv, PayloadInv, SealInv, SealedTo,
           StoredPaths, RealSecrets, Target
<1>2. scan[k].stage # "none" => pc = "done"
    BY DEF IInv, ScanInv
<1>3. pc = "done" => /\ backup.secrets \subseteq RealSecrets \cup RandomValues
                     /\ RealSecrets \subseteq backup.secrets
                     /\ backup.sealed.under = s
                     /\ backup.sealed.nonce = backup.nonce
                     /\ backup.sealed.text = call.items
    BY DEF IInv, MixInv, SealInv, AeadSeal
<1>4. scan \in [Readers -> ScanType] /\ scan' \in [Readers -> ScanType]
    BY DEF IInv, TypeOK
<1>5. UNCHANGED <<pc, call, backup>>
    BY DEF encVars
<1>6. \A j \in Readers : j # k => scan'[j] = scan[j]
    BY <1>4 DEF StartDecrypt, TrySecret, AllTried
<1>7. ScanInv'
    <2> SUFFICES /\ scan'[k].stage # "none" => pc = "done"
                 /\ scan'[k].stage = "scanning" =>
                       /\ scan'[k].todo \subseteq backup.secrets
                       /\ k \in SealedTo(call) => IndividualSecret(s, k) \in scan'[k].todo
                 /\ scan'[k].stage = "opened" => k \in SealedTo(call) /\ scan'[k].items = call.items
                 /\ scan'[k].stage = "wrong_key" => k \notin SealedTo(call)
        BY <1>5, <1>6 DEF IInv, ScanInv, SealedTo
    <2>1. CASE StartDecrypt(k)
        <3>1. /\ pc = "done"
              /\ scan'[k] = [stage |-> "scanning", todo |-> backup.secrets, items |-> <<>>]
            BY <1>4, <2>1 DEF StartDecrypt
        <3>2. k \in SealedTo(call) => IndividualSecret(s, k) \in backup.secrets
            BY <1>3, <3>1 DEF RealSecrets, IndividualSecrets
        <3>3. QED
            BY <3>1, <3>2
    <2>2. CASE \E c \in scan[k].todo : TrySecret(k, c)
        <3>1. PICK c \in scan[k].todo : TrySecret(k, c)
            BY <2>2
        <3>2. pc = "done" /\ scan[k].stage = "scanning" /\ c \in backup.secrets
            BY <1>2, <3>1 DEF TrySecret, IInv, ScanInv
        <3>3. AeadOpens(Xor(KeyMask(k), c), backup.nonce, backup.sealed) <=> Xor(KeyMask(k), c) = s
            BY <1>3, <3>2 DEF AeadOpens
        <3>4. CASE Xor(KeyMask(k), c) = s
            <4>1. scan'[k] = [stage |-> "opened", todo |-> {}, items |-> call.items]
                BY <1>3, <1>4, <3>1, <3>2, <3>3, <3>4 DEF TrySecret
            <4>2. k \in SealedTo(call)
                BY <1>3, <3>2, <3>4, OpensForOwnerOnly
            <4>3. QED
                BY <3>2, <4>1, <4>2
        <3>5. CASE Xor(KeyMask(k), c) # s
            <4>1. scan' = [scan EXCEPT ![k].todo = @ \ {c}]
                BY <3>1, <3>3, <3>5 DEF TrySecret
            <4>2. /\ scan'[k].stage = "scanning"
                  /\ scan'[k].todo = scan[k].todo \ {c}
                BY <1>4, <3>2, <4>1 DEF ScanType
            <4>3. c # IndividualSecret(s, k)
                BY <3>5, OpensForOwner
            <4>4. QED
                BY <3>2, <4>2, <4>3 DEF IInv, ScanInv
        <3>6. QED
            BY <3>4, <3>5
    <2>3. CASE AllTried(k)
        <3>1. scan[k].stage = "scanning" /\ scan[k].todo = {}
            BY <2>3 DEF AllTried
        <3>2. k \notin SealedTo(call)
            BY <3>1 DEF IInv, ScanInv
        <3>3. scan'[k].stage = "wrong_key"
            BY <1>4, <2>3 DEF AllTried, ScanType
        <3>4. QED
            BY <1>2, <3>1, <3>2, <3>3
    <2>4. QED
        BY <2>1, <2>2, <2>3
<1>8. QED
    BY <1>1, <1>7 DEF IInv

\* Steps of the encryption up to the backup leave the scans alone, and no scan
\* has started (decrypt needs a backup).
LEMMA EncryptStepKeepsScans ==
    ASSUME IInv, pc # "done", UNCHANGED scan
    PROVE  ScanInv'
<1>1. \A k \in Readers : scan[k].stage = "none"
    BY DEF IInv, ScanInv
<1>2. QED
    BY <1>1 DEF ScanInv

\* The inductive invariant holds in every reachable state.
THEOREM Invariance == Spec => []IInv
<1> USE DEF IInv, CallInv
<1>1. Init => IInv
    <2> SUFFICES ASSUME Init PROVE IInv
        OBVIOUS
    <2>1. pc = "idle" /\ \A k \in Readers : scan[k].stage = "none"
        BY DEF Init, NotScanning
    <2>2. QED
        BY <2>1, InitTyped DEF KeyCountInv, MixInv, CountInv, PayloadInv, SealInv, ScanInv
<1>2. IInv /\ TypeOK' /\ [Next]_vars => IInv'
    <2> SUFFICES ASSUME IInv, TypeOK', [Next]_vars
                 PROVE  IInv'
        OBVIOUS
    <2> DEFINE to == SealedTo(call)
    <2>0. /\ to \subseteq Keys
          /\ Cardinality(to) \in Nat
          /\ IsFiniteSet(RealSecrets)
          /\ Cardinality(RealSecrets) = Cardinality(to)
          /\ Target = DoublingBucket(Cardinality(to))
        BY TargetOfRecipients
    <2>1. ASSUME NEW c \in Requests, Encrypt(c)
          PROVE  IInv'
        <3>1. pc' \in {"payload", "nonce"} /\ pc = "idle" /\ call' \in Requests /\ UNCHANGED scan
            BY <2>1 DEF Encrypt
        <3>2. ScanInv'
            BY <3>1, EncryptStepKeepsScans
        <3>3. QED
            BY <3>1, <3>2 DEF KeyCountInv, MixInv, CountInv, PayloadInv, SealInv
    <2>2. ASSUME NEW v \in Drawable, DrawNonce(v)
          PROVE  IInv'
        <3>1. pc' \in {"payload", "redraw"} /\ pc \in {"nonce", "redraw"} /\ UNCHANGED <<scan, call>>
            BY <2>2 DEF DrawNonce
        <3>2. ScanInv'
            BY <3>1, EncryptStepKeepsScans
        <3>3. QED
            BY <3>1, <3>2 DEF KeyCountInv, MixInv, CountInv, PayloadInv, SealInv
    <2>3. ASSUME BuildPayload
          PROVE  IInv'
        <3>1. /\ pc = "payload" /\ UNCHANGED <<scan, call>>
              /\ pc' = "failed" \/ (pc' = "header" /\ payload' = call.items)
            BY <2>3 DEF BuildPayload, Fail
        <3>2. ScanInv'
            BY <3>1, EncryptStepKeepsScans
        <3>3. QED
            BY <3>1, <3>2 DEF KeyCountInv, MixInv, CountInv, PayloadInv, SealInv
    <2>4. ASSUME DeriveSecrets
          PROVE  IInv'
        <3>1. /\ pc = "header" /\ UNCHANGED <<scan, call, payload, backup>>
              /\ \/ pc' = "failed"
                 \/ /\ pc' = "pad" /\ secrets' = RealSecrets
                    /\ to # {} /\ Cardinality(to) <= CountMax
            BY <2>4 DEF DeriveSecrets, KeyCountFits, Fail, RealSecrets
        <3>2. ScanInv'
            BY <3>1, EncryptStepKeepsScans
        <3>3. UNCHANGED <<SealedTo(call), RealSecrets, Target>>
            BY <3>1 DEF SealedTo, RealSecrets, Target
        <3>4. CASE pc' = "failed"
            BY <3>1, <3>2, <3>4 DEF KeyCountInv, MixInv, CountInv, PayloadInv, SealInv
        <3>5. CASE pc' = "pad"
            <4>1. Cardinality(to) <= Target
                BY <2>0, <3>1, <3>5, BucketFits
            <4>2. CountInv'
                BY <2>0, <3>1, <3>3, <3>5, <4>1 DEF CountInv
            <4>3. QED
                BY <3>1, <3>2, <3>3, <3>5, <4>2 DEF KeyCountInv, MixInv, PayloadInv, SealInv
        <3>6. QED
            BY <3>1, <3>4, <3>5
    <2>5. ASSUME NEW v, DrawDecoy(v)
          PROVE  IInv'
        <3>1. /\ pc = "pad" /\ pc' = "pad" /\ UNCHANGED <<scan, call, payload, backup>>
              /\ Cardinality(secrets) < Target
              /\ v \in RandomValues \cup {Zero} \cup secrets
              /\ secrets' = IF v # Zero /\ v \notin secrets THEN secrets \cup {v} ELSE secrets
            BY <2>5 DEF DrawDecoy, Drawable
        <3>2. ScanInv'
            BY <3>1, EncryptStepKeepsScans
        <3>3. UNCHANGED <<SealedTo(call), RealSecrets, Target>>
            BY <3>1 DEF SealedTo, RealSecrets, Target
        <3>4. MixInv'
            BY <3>1, <3>3 DEF MixInv
        <3>5. CountInv'
            <4>1. IsFiniteSet(secrets) /\ Cardinality(secrets) \in Nat
                BY <3>1, FS_CardinalityType DEF CountInv
            <4>2. Target \in Nat
                BY <2>0, <3>1, BucketFits DEF KeyCountInv
            <4>3. IsFiniteSet(secrets') /\ Cardinality(secrets') <= Cardinality(secrets) + 1
                BY <3>1, <4>1, FS_AddElement
            <4>4. Cardinality(secrets') \in Nat
                BY <4>3, FS_CardinalityType
            <4>5. QED
                BY <3>1, <3>3, <4>1, <4>2, <4>3, <4>4 DEF CountInv
        <3>6. QED
            BY <3>1, <3>2, <3>3, <3>4, <3>5 DEF KeyCountInv, PayloadInv, SealInv
    <2>6. ASSUME PaddingDone
          PROVE  IInv'
        <3>1. /\ pc = "pad" /\ pc' = "seal" /\ UNCHANGED <<scan, call, payload, backup, secrets>>
              /\ Cardinality(secrets) >= Target
            BY <2>6 DEF PaddingDone
        <3>2. ScanInv'
            BY <3>1, EncryptStepKeepsScans
        <3>3. UNCHANGED <<SealedTo(call), RealSecrets, Target>>
            BY <3>1 DEF SealedTo, RealSecrets, Target
        <3>4. Cardinality(secrets) \in Nat /\ Target \in Nat
            BY <2>0, <3>1, BucketFits, FS_CardinalityType DEF KeyCountInv, CountInv
        <3>5. CountInv'
            BY <3>1, <3>3, <3>4 DEF CountInv
        <3>6. QED
            BY <3>1, <3>2, <3>3, <3>5 DEF KeyCountInv, MixInv, PayloadInv, SealInv
    <2>7. ASSUME TakeDecoys
          PROVE  IInv'
        <3>1. /\ pc = "pad" /\ UNCHANGED <<scan, call, payload, backup>>
              /\ \/ pc' = "failed"
                 \/ /\ pc' = "seal"
                    /\ DecoysFit(call.decoys)
                    /\ secrets' = secrets \cup {call.decoys[i] : i \in DOMAIN call.decoys}
            BY <2>7 DEF TakeDecoys, Fail
        <3>2. ScanInv'
            BY <3>1, EncryptStepKeepsScans
        <3>3. UNCHANGED <<SealedTo(call), RealSecrets, Target>>
            BY <3>1 DEF SealedTo, RealSecrets, Target
        <3>4. CASE pc' = "failed"
            BY <3>1, <3>2, <3>4 DEF KeyCountInv, MixInv, CountInv, PayloadInv, SealInv
        <3>5. CASE pc' = "seal"
            <4>1. Target \in Nat /\ IsFiniteSet(secrets)
                BY <2>0, <3>1, BucketFits DEF KeyCountInv, CountInv
            <4>2. CountInv'
                BY <3>1, <3>3, <3>5, <4>1, DecoysFillTarget DEF CountInv
            <4>3. \A i \in DOMAIN call.decoys : call.decoys[i] \in RandomValues
                <5>1. call.decoys \in Seq(RandomValues \cup {Zero})
                    BY CallTyped DEF TypeOK, CallType
                <5>2. QED
                    BY <3>1, <3>5, <5>1 DEF DecoysFit
            <4>4. MixInv'
                BY <3>1, <3>3, <3>5, <4>3 DEF MixInv
            <4>5. QED
                BY <3>1, <3>2, <3>3, <3>5, <4>2, <4>4 DEF KeyCountInv, PayloadInv, SealInv
        <3>6. QED
            BY <3>1, <3>4, <3>5
    <2>8. ASSUME NEW cipherFails \in BOOLEAN, Seal(cipherFails)
          PROVE  IInv'
        <3>1. /\ pc = "seal" /\ UNCHANGED <<scan, call, payload, secrets>>
              /\ \/ pc' = "failed"
                 \/ /\ pc' = "done"
                    /\ nonce # Zero
                    /\ backup' = [paths |-> StoredPaths(call), secrets |-> secrets, nonce |-> nonce,
                                  sealed |-> AeadSeal(DecryptionSecret(to), nonce, payload)]
            BY <2>8 DEF Seal, ZeroedNonce, Fail
        <3>2. ScanInv'
            BY <3>1, EncryptStepKeepsScans
        <3>3. UNCHANGED <<SealedTo(call), RealSecrets, Target, StoredPaths(call)>>
            BY <3>1 DEF SealedTo, RealSecrets, Target, StoredPaths
        <3>4. CASE pc' = "failed"
            BY <3>1, <3>2, <3>4 DEF KeyCountInv, MixInv, CountInv, PayloadInv, SealInv
        <3>5. CASE pc' = "done"
            <4>1. SealInv'
                BY <3>1, <3>3, <3>5 DEF SealInv, PayloadInv
            <4>2. QED
                BY <3>1, <3>2, <3>3, <3>5, <4>1 DEF KeyCountInv, MixInv, CountInv, PayloadInv
        <3>6. QED
            BY <3>1, <3>4, <3>5
    <2>9. ASSUME NEW k \in Readers, StartDecrypt(k) \/ ScanStep(k)
          PROVE  IInv'
        <3>1. UNCHANGED encVars
            BY <2>9 DEF StartDecrypt, ScanStep, TrySecret, AllTried
        <3>2. QED
            BY <2>9, <3>1, ScanStepKeepsIInv DEF ScanStep
    <2>10. CASE UNCHANGED vars
        BY <2>10 DEF vars, KeyCountInv, MixInv, CountInv, PayloadInv, SealInv, ScanInv,
                     SealedTo, RealSecrets, Target, StoredPaths
    <2>11. QED
        BY <2>1, <2>2, <2>3, <2>4, <2>5, <2>6, <2>7, <2>8, <2>9, <2>10 DEF Next, EncryptStep
<1>3. QED
    BY <1>1, <1>2, TypeCorrect, PTL DEF Spec

-----------------------------------------------------------------------------
(* The properties                                                          *)

\* Theorem: whatever decoys are drawn and in whatever order the individual
\* secrets are tried, a recipient reads the items that were encrypted and any
\* other key gets WrongKey (decrypt_chacha20_poly1305_v1).
THEOREM ScanOutcomeCorrect == Spec => []ScanOutcome
<1>1. IInv => ScanOutcome
    BY DEF IInv, ScanInv, ScanOutcome, Recipients
<1>2. QED
    BY <1>1, Invariance, PTL

\* Theorem: a backup holds exactly the doubling bucket of its recipient count in
\* individual secrets, none of them zero (pad_individual_secrets).
THEOREM SecretCountCorrect == Spec => []SecretCount
<1>1. ASSUME IInv, pc = "done"
      PROVE  /\ Cardinality(backup.secrets) = DoublingBucket(Cardinality(Recipients))
             /\ Zero \notin backup.secrets
    <2>1. Cardinality(backup.secrets) = Target
        BY <1>1 DEF IInv, CountInv, SealInv
    <2>2. Target = DoublingBucket(Cardinality(Recipients))
        BY <1>1, TargetOfRecipients DEF IInv, Recipients
    <2>3. Zero \notin RealSecrets
        BY SecretHasBothAtoms DEF RealSecrets, IndividualSecrets
    <2>4. Zero \notin RandomValues
        BY DEF RandomValues, Random, Zero
    <2>5. backup.secrets \subseteq RealSecrets \cup RandomValues
        BY <1>1 DEF IInv, MixInv, SealInv
    <2>6. QED
        BY <2>1, <2>2, <2>3, <2>4, <2>5
<1>2. IInv => SecretCount
    BY <1>1 DEF SecretCount
<1>3. QED
    BY <1>2, Invariance, PTL

\* Theorem: no backup is sealed under an all-zero nonce (encrypt_with_nonce).
THEOREM NonceNotZeroCorrect == Spec => []NonceNotZero
<1>1. IInv => NonceNotZero
    BY DEF IInv, SealInv, NonceNotZero, AeadSeal
<1>2. QED
    BY <1>1, Invariance, PTL

\* Theorem: every backup has the shape that the format wants: as many non-zero
\* secrets as the bucket says and a nonce that is not zero.
THEOREM BackupShapeCorrect == Spec => []BackupShape
<1>1. SecretCount /\ NonceNotZero => BackupShape
    BY DEF BackupShape
<1>2. QED
    BY <1>1, SecretCountCorrect, NonceNotZeroCorrect, PTL

\* Theorem: the stored paths and the common ones cover the paths of the call
\* (encode_v1_backup).
THEOREM PathsRecoverableCorrect == Spec => []PathsRecoverable
<1>1. ASSUME IInv, pc = "done"
      PROVE  /\ call.paths \subseteq backup.paths \cup CommonPaths
             /\ backup.paths \subseteq call.paths
             /\ ~call.storeCommon => backup.paths \cap CommonPaths = {}
    <2>1. backup.paths = StoredPaths(call)
        BY <1>1 DEF IInv, SealInv
    <2>2. QED
        BY <2>1 DEF StoredPaths
<1>2. IInv => PathsRecoverable
    BY <1>1 DEF PathsRecoverable
<1>3. QED
    BY <1>2, Invariance, PTL

\* A refusal has its cause when the step that refuses leaves the call alone.
LEMMA CauseStays ==
    ASSUME RefusedForCause, pc = "failed", call' = call, nonce' = nonce, error' = error,
           secrets' = secrets
    PROVE  RefusedForCause'
<1>1. GoodArguments(call)' <=> GoodArguments(call)
    BY DEF GoodArguments, StoredPaths
<1>2. DecoysFit(call.decoys)' <=> DecoysFit(call.decoys)
    BY DEF DecoysFit, Target, SealedTo
<1> QED
    BY <1>1, <1>2 DEF RefusedForCause

\* build_v1_payload refuses for its items and their padding.
LEMMA PayloadCause ==
    ASSUME BuildPayload, pc' = "failed"
    PROVE  ~GoodArguments(call')
<1> DEFINE bad == {i \in DOMAIN call.items : BadItem(call.items[i])}
           fits == PaddingFits(call.padding, call.items)
<1>1. call' = call /\ (bad # {} \/ call.items = <<>> \/ ~fits)
    BY DEF BuildPayload
<1> QED
    BY <1>1 DEF GoodArguments

\* The head of encode_v1_backup refuses for the numbers of keys and paths.
LEMMA CountCause ==
    ASSUME TypeOK, DeriveSecrets, pc' = "failed"
    PROVE  ~GoodArguments(call')
<1>1. call' = call /\ (~KeyCountFits(call) \/ Cardinality(StoredPaths(call)) > CountMax)
    BY DEF DeriveSecrets
<1> SUFFICES ASSUME GoodArguments(call)
             PROVE  FALSE
    BY <1>1
<1>2. Cardinality(SealedTo(call)) \in 1..CountMax
    BY DEF GoodArguments, SealedTo
<1>3. SealedTo(call) # {}
    BY <1>2, FS_EmptySet
<1>4. KeyCountFits(call)
    BY <1>2, <1>3 DEF KeyCountFits
<1>5. ~(Cardinality(StoredPaths(call)) > CountMax)
    <2>1. Cardinality(StoredPaths(call)) <= CountMax
        BY DEF GoodArguments
    <2>2. call.paths \subseteq Paths
        BY CallTyped DEF TypeOK, CallType
    <2>3. IsFiniteSet(StoredPaths(call))
        BY <2>2, FS_Subset, ConstantsAssumption DEF StoredPaths
    <2>4. Cardinality(StoredPaths(call)) \in Nat /\ CountMax \in Nat
        BY <2>3, FS_CardinalityType, ConstantsAssumption
    <2> QED
        BY <2>1, <2>4
<1> QED
    BY <1>1, <1>4, <1>5

\* What comes before and after the cipher refuses for a path, for the nonce, or
\* because the cipher failed.
LEMMA SealCause ==
    ASSUME TypeOK, NEW cipherFails \in BOOLEAN, Seal(cipherFails), pc' = "failed"
    PROVE  ~GoodArguments(call') \/ nonce' = Zero \/ error' = "Encrypt"
<1> DEFINE childCounts == {ChildCount[p] : p \in StoredPaths(call)}
<1>1. call' = call /\ nonce' = nonce
    BY DEF Seal
<1>2. \/ 0 \in childCounts
      \/ \E n \in childCounts : n > CountMax
      \/ ZeroedNonce(nonce)
      \/ error' = "Encrypt"
    BY DEF Seal, Fail
<1>3. StoredPaths(call) \subseteq Paths
    BY CallTyped DEF TypeOK, CallType, StoredPaths
<1>4. ASSUME GoodArguments(call), NEW n \in childCounts
      PROVE  n # 0 /\ ~(n > CountMax)
    <2>1. n \in 1..CountMax
        BY <1>4 DEF GoodArguments
    <2> QED
        BY <2>1, ConstantsAssumption
<1> QED
    BY <1>1, <1>2, <1>4 DEF ZeroedNonce

\* Theorem: good arguments are never refused (build_v1_payload, encode_v1_backup,
\* encrypt_with_nonce).
THEOREM RefusedForCauseCorrect == Spec => []RefusedForCause
<1>1. Init => RefusedForCause
    BY DEF Init, RefusedForCause
<1>2. TypeOK /\ RefusedForCause /\ [Next]_vars => RefusedForCause'
    <2> SUFFICES ASSUME TypeOK, RefusedForCause, [Next]_vars, pc' = "failed"
                 PROVE  RefusedForCause'
        BY DEF RefusedForCause
    <2>1. CASE pc = "failed"
        <3>1. UNCHANGED <<call, nonce, error, secrets>>
            BY <2>1 DEF Next, EncryptStep, Encrypt, DrawNonce, BuildPayload, DeriveSecrets,
                        DrawDecoy, PaddingDone, TakeDecoys, Seal, StartDecrypt, ScanStep,
                        TrySecret, AllTried, encVars, vars
        <3> QED
            BY <2>1, <3>1, CauseStays
    <2>2. CASE pc # "failed"
        <3>1. \/ BuildPayload \/ DeriveSecrets \/ TakeDecoys
              \/ \E cipherFails \in BOOLEAN : Seal(cipherFails)
            BY <2>2 DEF Next, EncryptStep, Encrypt, DrawNonce, DrawDecoy, PaddingDone,
                        StartDecrypt, ScanStep, TrySecret, AllTried, encVars, vars
        <3>2. CASE TakeDecoys
            <4>1. call' = call /\ secrets' = secrets /\ call.supplied /\ ~DecoysFit(call.decoys)
                BY <3>2 DEF TakeDecoys
            <4>2. DecoysFit(call.decoys)' <=> DecoysFit(call.decoys)
                BY <4>1 DEF DecoysFit, Target, SealedTo
            <4> QED
                BY <4>1, <4>2 DEF RefusedForCause
        <3> QED
            BY <3>1, <3>2, PayloadCause, CountCause, SealCause DEF RefusedForCause
    <2> QED
        BY <2>1, <2>2
<1>3. QED
    BY <1>1, <1>2, TypeCorrect, PTL DEF Spec

-----------------------------------------------------------------------------
(* Refinement                                                              *)

\* A step of the encryption either leaves the abstract box as it is, or seals
\* or refuses it.
LEMMA EncryptStepRefines ==
    ASSUME IInv, TypeOK', EncryptStep \/ \E c \in Requests : Encrypt(c)
    PROVE  [Box!BoxNext]_Box!boxVars
<1>1. scan' = scan
    BY DEF EncryptStep, Encrypt, DrawNonce, BuildPayload, DeriveSecrets, DrawDecoy, PaddingDone,
           TakeDecoys, Seal
<1>2. \A k \in Readers : AnswerNow(k)' = AnswerNow(k)
    BY <1>1 DEF AnswerNow
<1>3. [k \in Readers |-> AnswerNow(k)]' = [k \in Readers |-> AnswerNow(k)]
    BY <1>2
<1>4. pc \notin {"done", "failed"}
    BY DEF EncryptStep, Encrypt, DrawNonce, BuildPayload, DeriveSecrets, DrawDecoy, PaddingDone,
           TakeDecoys, Seal
<1>5. BoxNow = Box!Empty
    BY <1>4 DEF BoxNow, Box!Empty
<1>6. CASE pc' = "done"
    <2>1. PICK cipherFails \in BOOLEAN : Seal(cipherFails)
        BY <1>6 DEF EncryptStep, Encrypt, DrawNonce, BuildPayload, DeriveSecrets, DrawDecoy,
                    PaddingDone, TakeDecoys, Fail
    <2>2. pc = "seal" /\ call' = call
        BY <2>1 DEF Seal
    <2>3. SealedTo(call) # {} /\ SealedTo(call) \subseteq Keys /\ call \in Requests
        BY <2>2, TargetOfRecipients DEF IInv, KeyCountInv, CallInv
    <2>4. BoxNow' = Box!Sealed(SealedTo(call), call.items)
        BY <1>6, <2>2 DEF BoxNow, Box!Sealed, Recipients, SealedTo
    <2>5. Box!Seal(SealedTo(call), call.items)
        BY <1>3, <1>5, <2>3, <2>4 DEF Box!Seal
    <2>6. QED
        BY <2>3, <2>5 DEF Box!BoxNext
<1>7. CASE pc' = "failed"
    <2>1. BoxNow' = Box!Refused
        BY <1>7 DEF BoxNow, Box!Refused
    <2>2. Box!Refuse
        BY <1>3, <1>5, <2>1 DEF Box!Refuse
    <2>3. QED
        BY <2>2 DEF Box!BoxNext
<1>8. CASE pc' \notin {"done", "failed"}
    <2>1. BoxNow' = BoxNow
        BY <1>4, <1>8 DEF BoxNow
    <2>2. QED
        BY <1>3, <2>1 DEF Box!boxVars
<1>9. QED
    BY <1>6, <1>7, <1>8

\* A step of a scan leaves the abstract box as it is and answers at most its
\* own holder, once and rightly.
LEMMA ScanStepRefines ==
    ASSUME IInv, IInv', NEW k \in Readers, StartDecrypt(k) \/ ScanStep(k)
    PROVE  [Box!BoxNext]_Box!boxVars
<1>1. UNCHANGED encVars
    BY DEF StartDecrypt, ScanStep, TrySecret, AllTried
<1>2. BoxNow' = BoxNow
    BY <1>1 DEF encVars, BoxNow, Recipients, SealedTo
<1>3. scan \in [Readers -> ScanType] /\ scan' \in [Readers -> ScanType]
    BY DEF IInv, TypeOK
<1>4. \A j \in Readers \ {k} : scan'[j] = scan[j]
    BY <1>3 DEF StartDecrypt, ScanStep, TrySecret, AllTried
<1>5. \A j \in Readers \ {k} : AnswerNow(j)' = AnswerNow(j)
    BY <1>4 DEF AnswerNow
<1>6. pc = "done" /\ pc' = "done" /\ call' = call
    BY <1>1 DEF encVars, StartDecrypt, ScanStep, TrySecret, AllTried, IInv, ScanInv
<1>7. BoxNow = Box!Sealed(SealedTo(call), call.items)
    BY <1>6 DEF BoxNow, Box!Sealed, Recipients
<1>8. scan[k].stage \in {"none", "scanning"}
    BY DEF StartDecrypt, ScanStep, TrySecret, AllTried
<1>9. AnswerNow(k) = Box!Untold
    BY <1>8 DEF AnswerNow, Box!Untold
<1>10. CASE scan'[k].stage \in {"none", "scanning"}
    <2>1. AnswerNow(k)' = AnswerNow(k)
        BY <1>8, <1>10 DEF AnswerNow
    <2>2. [j \in Readers |-> AnswerNow(j)]' = [j \in Readers |-> AnswerNow(j)]
        BY <1>5, <2>1
    <2>3. QED
        BY <1>2, <2>2 DEF Box!boxVars
<1>11. CASE scan'[k].stage \in {"opened", "wrong_key"}
    <2>1. AnswerNow(k)' = IF k \in SealedTo(call) THEN Box!Read(call.items) ELSE Box!WrongKey
        <3>1. scan'[k].stage = "opened" => k \in SealedTo(call) /\ scan'[k].items = call.items
            BY <1>6 DEF IInv, ScanInv, SealedTo
        <3>2. scan'[k].stage = "wrong_key" => k \notin SealedTo(call)
            BY <1>6 DEF IInv, ScanInv, SealedTo
        <3>3. QED
            BY <1>11, <3>1, <3>2 DEF AnswerNow, Box!Read, Box!WrongKey
    <2>2. Box!Open(k)
        BY <1>2, <1>5, <1>7, <1>9, <2>1 DEF Box!Open, Box!Sealed
    <2>3. QED
        BY <2>2 DEF Box!BoxNext
<1>12. QED
    BY <1>3, <1>10, <1>11 DEF ScanType

\* Theorem: encryption and scans together implement the sealed backup, in which
\* opening is one step and there are no secrets, decoys or nonces.
THEOREM ImplementsSealedBackup == Spec => SealedBackupSpec
<1>1. Init => Box!BoxInit
    <2> SUFFICES ASSUME Init PROVE Box!BoxInit
        OBVIOUS
    <2>1. BoxNow = Box!Empty
        BY DEF Init, BoxNow, Box!Empty
    <2>2. \A k \in Readers : AnswerNow(k) = Box!Untold
        BY DEF Init, AnswerNow, NotScanning, Box!Untold
    <2>3. QED
        BY <2>1, <2>2 DEF Box!BoxInit
<1>2. IInv /\ IInv' /\ [Next]_vars => [Box!BoxNext]_Box!boxVars
    <2>1. ASSUME UNCHANGED vars PROVE UNCHANGED Box!boxVars
        BY <2>1 DEF vars, Box!boxVars, BoxNow, AnswerNow, Recipients, SealedTo
    <2>2. QED
        BY <2>1, EncryptStepRefines, ScanStepRefines DEF Next, IInv
<1>3. QED
    BY <1>1, <1>2, Invariance, PTL DEF Spec, SealedBackupSpec, Box!BoxSpec

(************************** CInterface: the C binding ***********************)

\* bip138_encrypt wrote a backup for these arguments
Accepted(a) == Written(a).is # "none" /\ a.type \in Discriminants /\ ~Panics(a)

Handles == {Null} \cup 1..calls

\* The inductive invariant: the client's handles, what they point at, and what
\* was borrowed from it.
HeapInv ==
    /\ calls \in Nat /\ buf \in Handles /\ result \in Handles
    /\ buf # Null => buf # result
    /\ DOMAIN memory = {buf, result} \ {Null}
    /\ buf # Null => \E a \in Encryptions : Accepted(a) /\ memory[buf] = Backup(a)
    /\ result # Null => \E a \in Encryptions : Accepted(a) /\ memory[result] = Decoded(Backup(a))
    /\ item # NoItem => result # Null /\ item = Borrowed(result, 1)

-----------------------------------------------------------------------------
(* Checks                                                                  *)

Named(checks) == \A i \in DOMAIN checks : checks[i][1] # OK
NoneFails(checks) == \A i \in DOMAIN checks : ~checks[i][2]

\* A set of numbers that is not empty has a least one.
LEMMA LeastNumber ==
    ASSUME NEW S \in SUBSET Nat, S # {}
    PROVE  \E m \in S : \A n \in S : m <= n
<1> DEFINE Less == {pair \in Nat \X Nat : pair[1] < pair[2]}
<1>1. IsWellFoundedOn(Less, Nat)
    BY NatLessThanWellFounded DEF OpToRel
<1>2. PICK m \in S : \A n \in S : <<n, m>> \notin Less
    <2> HIDE DEF Less
    <2> QED
        BY <1>1, WFMin
<1>3. ASSUME NEW n \in S PROVE m <= n
    <2>1. n \in Nat /\ m \in Nat
        BY <1>2
    <2>2. n < m => <<n, m>> \in Less
        BY <2>1
    <2> QED
        BY <1>2, <2>1, <2>2
<1> QED
    BY <1>3


\* No error means that no check failed.
LEMMA FirstErrorSound ==
    ASSUME NEW S, NEW checks \in Seq(S), Named(checks), FirstError(checks) = OK
    PROVE  NoneFails(checks)
<1> DEFINE failing == {i \in DOMAIN checks : checks[i][2]}
           first == CHOOSE i \in failing : \A j \in failing : i <= j
<1> SUFFICES ASSUME failing # {}
             PROVE  FALSE
    BY DEF NoneFails
<1>1. failing \in SUBSET Nat
    OBVIOUS
<1>2. \E i \in failing : \A j \in failing : i <= j
    BY <1>1, LeastNumber
<1>3. first \in failing
    BY <1>2
<1>4. checks[first][1] = OK
    BY DEF FirstError
<1> QED
    BY <1>3, <1>4 DEF Named

\* Checks in a row.
LEMMA ChecksInARow ==
    ASSUME NEW S, NEW s \in Seq(S), NEW t \in Seq(S), Named(s), Named(t)
    PROVE  /\ s \o t \in Seq(S) /\ Named(s \o t)
           /\ NoneFails(s \o t) => NoneFails(s) /\ NoneFails(t)
<1>1. /\ s \o t \in Seq(S) /\ Len(s) \in Nat /\ Len(t) \in Nat
      /\ DOMAIN s = 1..Len(s) /\ DOMAIN t = 1..Len(t)
      /\ DOMAIN (s \o t) = 1..(Len(s) + Len(t))
      /\ \A i \in 1..Len(s) : (s \o t)[i] = s[i]
      /\ \A i \in 1..Len(t) : (s \o t)[Len(s) + i] = t[i]
    OBVIOUS
<1>2. Named(s \o t)
    <2> SUFFICES ASSUME NEW i \in 1..(Len(s) + Len(t))
                 PROVE  (s \o t)[i][1] # OK
        BY <1>1 DEF Named
    <2>1. CASE i <= Len(s)
        BY <1>1, <2>1 DEF Named
    <2>2. CASE i > Len(s)
        <3>1. i - Len(s) \in 1..Len(t) /\ i = Len(s) + (i - Len(s))
            BY <1>1, <2>2
        <3>2. (s \o t)[i] = t[i - Len(s)]
            BY <1>1, <3>1
        <3> QED
            BY <1>1, <3>1, <3>2 DEF Named
    <2> QED
        BY <1>1, <2>1, <2>2
<1>3. ASSUME NoneFails(s \o t) PROVE NoneFails(s) /\ NoneFails(t)
    <2>1. ASSUME NEW i \in 1..Len(s) PROVE ~s[i][2]
        <3>1. i \in 1..(Len(s) + Len(t))
            BY <1>1
        <3> QED
            BY <1>1, <1>3, <3>1 DEF NoneFails
    <2>2. ASSUME NEW i \in 1..Len(t) PROVE ~t[i][2]
        <3>1. Len(s) + i \in 1..(Len(s) + Len(t))
            BY <1>1
        <3> QED
            BY <1>1, <1>3, <3>1 DEF NoneFails
    <2> QED
        BY <1>1, <2>1, <2>2 DEF NoneFails
<1> QED
    BY <1>1, <1>2, <1>3

Codes == {"NullPointer", "BadVtable", "BadContentType", "BadPadding", "DataLength",
          "ContentMetadata", "KeyCount", "DerivPathCount", "panic", "DerivPathEmpty",
          "DerivPathLength", "ZeroedNonce", "Encrypt", "CypherTextEmpty", "hang"}

\* A backup is written only for a known type with content, and without panic.
LEMMA EncryptAccepts ==
    ASSUME NEW a, EncryptOutcome(a) = OK
    PROVE  Accepted(a)
<1> DEFINE S == {<<n, b>> : n \in Codes, b \in BOOLEAN}
           boundary == EncryptBoundary(a)
           starts == CoreStarts(a)
           panic == << <<"panic", Panics(a)>>, <<"hang", Hangs(a)>> >>
           ends == CoreEnds(a)
<1>1. /\ boundary \in Seq(S) /\ Named(boundary)
      /\ NoneFails(boundary) => a.type \in Discriminants
    <2> DEFINE b1 == \E p \in {"vtable", "out", "keys", "payload"} : ~Given(a, p)
               b2 == Missing(a.vtable, {"sha256", "aead_encrypt", "fill_random"})
               b3 == PathsNull(a)
               b4 == a.type \notin Discriminants
               b5 == a.padding \notin {0, 1}
    <2>1. b1 \in BOOLEAN /\ b2 \in BOOLEAN /\ b3 \in BOOLEAN /\ b4 \in BOOLEAN /\ b5 \in BOOLEAN
        BY DEF Missing, PathsNull
    <2>2. boundary = << <<"NullPointer", b1>>, <<"BadVtable", b2>>, <<"NullPointer", b3>>,
                        <<"BadContentType", b4>>, <<"BadPadding", b5>> >>
        BY DEF EncryptBoundary
    <2>3. b4 <=> a.type \notin Discriminants
        OBVIOUS
    <2> HIDE DEF b1, b2, b3, b4, b5, boundary
    <2>4. boundary \in Seq(S)
        BY <2>1, <2>2 DEF Codes
    <2>5. Named(boundary)
        BY <2>2 DEF Named, OK
    <2>6. NoneFails(boundary) => b4 = FALSE
        BY <2>1, <2>2 DEF NoneFails
    <2> QED
        BY <2>3, <2>4, <2>5, <2>6
<1>2. /\ starts \in Seq(S) /\ Named(starts)
      /\ NoneFails(starts) => Written(a).is # "none"
    <2> DEFINE b1 == a.data = <<>>
               b2 == Written(a).is = "none"
               b3 == Sealed(a) = {} \/ Cardinality(Sealed(a)) > ListMax
               b4 == Cardinality({KeptPaths(a)[i] : i \in DOMAIN KeptPaths(a)}) > ListMax
    <2>1. b1 \in BOOLEAN /\ b2 \in BOOLEAN /\ b3 \in BOOLEAN /\ b4 \in BOOLEAN
        OBVIOUS
    <2>2. starts = << <<"DataLength", b1>>, <<"ContentMetadata", b2>>, <<"KeyCount", b3>>,
                      <<"DerivPathCount", b4>> >>
        BY DEF CoreStarts
    <2>3. b2 <=> Written(a).is = "none"
        OBVIOUS
    <2> HIDE DEF b1, b2, b3, b4, starts
    <2>4. starts \in Seq(S)
        BY <2>1, <2>2 DEF Codes
    <2>5. Named(starts)
        BY <2>2 DEF Named, OK
    <2>6. NoneFails(starts) => b2 = FALSE
        BY <2>1, <2>2 DEF NoneFails
    <2> QED
        BY <2>3, <2>4, <2>5, <2>6
<1>3. /\ panic \in Seq(S) /\ Named(panic)
      /\ NoneFails(panic) => ~Panics(a)
    <2> DEFINE b1 == Panics(a)
               b2 == Hangs(a)
    <2>1. b1 \in BOOLEAN /\ b2 \in BOOLEAN /\ panic = << <<"panic", b1>>, <<"hang", b2>> >>
        BY DEF Panics, Hangs
    <2>2. b1 <=> Panics(a)
        OBVIOUS
    <2> HIDE DEF b1, b2, panic
    <2>3. panic \in Seq(S) /\ Named(panic)
        BY <2>1 DEF Codes, Named, OK
    <2>4. NoneFails(panic) => b1 = FALSE
        BY <2>1 DEF NoneFails
    <2> QED
        BY <2>2, <2>3, <2>4
<1>4. ends \in Seq(S) /\ Named(ends)
    <2> DEFINE b1 == \E i \in DOMAIN KeptPaths(a) : KeptPaths(a)[i].len = 0
               b2 == \E i \in DOMAIN KeptPaths(a) : KeptPaths(a)[i].len > ListMax
               b3 == a.vtable.fill_random = "nothing"
               b4 == a.vtable.aead_encrypt = "fails"
               b5 == a.vtable.aead_encrypt = "nothing"
    <2>1. b1 \in BOOLEAN /\ b2 \in BOOLEAN /\ b3 \in BOOLEAN /\ b4 \in BOOLEAN /\ b5 \in BOOLEAN
        OBVIOUS
    <2>2. ends = << <<"DerivPathEmpty", b1>>, <<"DerivPathLength", b2>>, <<"ZeroedNonce", b3>>,
                    <<"Encrypt", b4>>, <<"CypherTextEmpty", b5>> >>
        BY DEF CoreEnds
    <2> HIDE DEF b1, b2, b3, b4, b5, ends
    <2>3. ends \in Seq(S)
        BY <2>1, <2>2 DEF Codes
    <2> QED
        BY <2>2, <2>3 DEF Named, OK
<1>5. FirstError(boundary \o starts \o panic \o ends) = OK
    BY DEF EncryptOutcome
<1> HIDE DEF S, boundary, starts, panic, ends
<1>6. /\ boundary \o starts \in Seq(S) /\ Named(boundary \o starts)
      /\ NoneFails(boundary \o starts) => NoneFails(boundary) /\ NoneFails(starts)
    BY <1>1, <1>2, ChecksInARow
<1>7. /\ boundary \o starts \o panic \in Seq(S) /\ Named(boundary \o starts \o panic)
      /\ NoneFails(boundary \o starts \o panic) => NoneFails(boundary \o starts) /\ NoneFails(panic)
    BY <1>3, <1>6, ChecksInARow
<1>8. /\ boundary \o starts \o panic \o ends \in Seq(S)
      /\ Named(boundary \o starts \o panic \o ends)
      /\ NoneFails(boundary \o starts \o panic \o ends) => NoneFails(boundary \o starts \o panic)
    BY <1>4, <1>7, ChecksInARow
<1>9. NoneFails(boundary \o starts \o panic \o ends)
    BY <1>5, <1>8, FirstErrorSound
<1> QED
    BY <1>1, <1>2, <1>3, <1>6, <1>7, <1>8, <1>9 DEF Accepted

\* bip138_decrypt only succeeds on the client's buffer.
LEMMA DecryptNeedsBuf ==
    ASSUME NEW a \in Decryptions, DecryptOutcome(a) = OK
    PROVE  buf # Null
<1> DEFINE S == {<<n, b>> : n \in Codes \cup {a.bytes}, b \in BOOLEAN}
           boundary == DecryptBoundary(a)
           b1 == \/ \E p \in {"vtable", "out", "key"} : ~Given(a, p)
                 \/ a.bytes = "buf" /\ buf = Null
           b2 == Missing(a.vtable, {"sha256", "aead_decrypt"})
           b3 == a.bytes # "buf"
<1>1. b1 \in BOOLEAN /\ b2 \in BOOLEAN /\ b3 \in BOOLEAN
    BY DEF Missing
<1>2. boundary = << <<"NullPointer", b1>>, <<"BadVtable", b2>>, <<a.bytes, b3>> >>
    BY DEF DecryptBoundary
<1>3. (b3 <=> a.bytes # "buf") /\ (~b1 /\ a.bytes = "buf" => buf # Null)
    OBVIOUS
<1>4. FirstError(boundary) = OK
    BY DEF DecryptOutcome
<1> HIDE DEF b1, b2, b3, boundary
<1>5. boundary \in Seq(S)
    BY <1>1, <1>2 DEF Codes
<1>6. Named(boundary)
    BY <1>2, InterfaceAssumption DEF Named, OK
<1> HIDE DEF S
<1>7. NoneFails(boundary)
    BY <1>4, <1>5, <1>6, FirstErrorSound
<1>8. b1 = FALSE /\ b3 = FALSE
    BY <1>1, <1>2, <1>7 DEF NoneFails
<1> QED
    BY <1>3, <1>8

\* bip138_decrypt_item only succeeds for an item of the result.
LEMMA ItemExists ==
    ASSUME NEW a \in ItemReads, ItemOutcome(a) = OK
    PROVE  result # Null /\ ~(a.index >= DecryptLen(result))
<1> DEFINE S == {<<n, b>> : n \in {"NullPointer", "IndexOutOfBounds"}, b \in BOOLEAN}
           b1 == ~Given(a, "out") \/ result = Null
           b2 == a.index >= DecryptLen(result)
           checks == << <<"NullPointer", b1>>, <<"IndexOutOfBounds", b2>> >>
<1>1. b1 \in BOOLEAN /\ b2 \in BOOLEAN /\ FirstError(checks) = OK
    BY DEF ItemOutcome
<1>2. (~b1 => result # Null) /\ (b2 <=> a.index >= DecryptLen(result))
    OBVIOUS
<1> HIDE DEF b1, b2
<1>3. checks \in Seq(S)
    BY <1>1
<1>4. Named(checks)
    BY DEF Named, OK
<1> HIDE DEF S
<1>5. NoneFails(checks)
    BY <1>1, <1>3, <1>4, FirstErrorSound
<1>6. b1 = FALSE /\ b2 = FALSE
    BY <1>1, <1>5 DEF NoneFails
<1> QED
    BY <1>2, <1>6

-----------------------------------------------------------------------------
(* The heap                                                                *)

\* The next address is new.
LEMMA AddressNew ==
    ASSUME HeapInv
    PROVE  /\ NewAddress \notin Handles /\ NewAddress # Null
           /\ NewAddress \in 1..(calls + 1) /\ calls + 1 \in Nat
           /\ Handles \subseteq {Null} \cup 1..(calls + 1)
           /\ NewAddress \notin DOMAIN memory
BY InterfaceAssumption DEF HeapInv, Handles, NewAddress

\* Calls that give the client nothing.
LEMMA NothingGiven ==
    ASSUME HeapInv, memory' = memory, buf' = buf, result' = result,
           calls' \in {calls, calls + 1},
           item' = item \/ (result # Null /\ item' = Borrowed(result, 1))
    PROVE  HeapInv'
<1>1. calls' \in Nat /\ buf' \in Handles' /\ result' \in Handles'
    BY DEF HeapInv, Handles
<1>2. Borrowed(result, 1)' = Borrowed(result, 1)
    BY DEF Borrowed
<1> QED
    BY <1>1, <1>2 DEF HeapInv

\* A backup is given out.
LEMMA EncryptKeepsHeap ==
    ASSUME HeapInv, NEW a \in Encryptions, EncryptSucceeds(a)
    PROVE  HeapInv'
<1>1. /\ buf = Null /\ buf' = NewAddress /\ result' = result /\ item' = item
      /\ memory' = Allocated(Backup(a)) /\ calls' = calls + 1
    BY DEF EncryptSucceeds, Return
<1>2. Accepted(a)
    BY EncryptAccepts DEF EncryptSucceeds
<1>3. /\ DOMAIN memory' = DOMAIN memory \cup {NewAddress}
      /\ memory'[NewAddress] = Backup(a)
      /\ \A y \in DOMAIN memory : memory'[y] = memory[y]
    BY <1>1, AddressNew DEF Allocated
<1>4. calls' \in Nat /\ buf' \in Handles' /\ result' \in Handles' /\ buf' # Null /\ buf' # result'
    BY <1>1, AddressNew DEF HeapInv, Handles
<1>5. DOMAIN memory' = {buf', result'} \ {Null}
    BY <1>1, <1>3, <1>4 DEF HeapInv
<1>6. result # Null => result \in DOMAIN memory /\ memory'[result] = memory[result]
    BY <1>1, <1>3 DEF HeapInv
<1>7. result # Null => Borrowed(result, 1)' = Borrowed(result, 1)
    BY <1>1, <1>6 DEF Borrowed
<1> QED
    BY <1>1, <1>2, <1>3, <1>4, <1>5, <1>6, <1>7 DEF HeapInv

\* A result is given out.
LEMMA DecryptKeepsHeap ==
    ASSUME HeapInv, NEW a \in Decryptions, DecryptSucceeds(a)
    PROVE  HeapInv'
<1>1. /\ result = Null /\ result' = NewAddress /\ buf' = buf /\ item' = item
      /\ memory' = Allocated(Decoded(memory[buf])) /\ calls' = calls + 1
    BY DEF DecryptSucceeds, Return
<1>2. buf # Null
    BY DecryptNeedsBuf DEF DecryptSucceeds
<1>3. /\ DOMAIN memory' = DOMAIN memory \cup {NewAddress}
      /\ memory'[NewAddress] = Decoded(memory[buf])
      /\ \A y \in DOMAIN memory : memory'[y] = memory[y]
    BY <1>1, AddressNew DEF Allocated
<1>4. calls' \in Nat /\ buf' \in Handles' /\ result' \in Handles' /\ result' # Null /\ buf' # result'
    BY <1>1, AddressNew DEF HeapInv, Handles
<1>5. DOMAIN memory' = {buf', result'} \ {Null}
    BY <1>1, <1>3, <1>4 DEF HeapInv
<1>6. memory'[buf] = memory[buf]
    BY <1>1, <1>2, <1>3 DEF HeapInv
<1>7. PICK b \in Encryptions : Accepted(b) /\ memory[buf] = Backup(b)
    BY <1>2 DEF HeapInv
<1>8. item' = NoItem
    BY <1>1 DEF HeapInv
<1> QED
    BY <1>1, <1>2, <1>3, <1>4, <1>5, <1>6, <1>7, <1>8 DEF HeapInv

\* The two frees.
LEMMA FreeKeepsHeap ==
    ASSUME HeapInv, BufFree \/ DecryptFree
    PROVE  HeapInv'
<1>1. calls' = calls /\ (buf' = buf \/ buf' = Null) /\ (result' = result \/ result' = Null)
    BY DEF BufFree, DecryptFree
<1>2. calls' \in Nat /\ buf' \in Handles' /\ result' \in Handles'
    BY <1>1 DEF HeapInv, Handles
<1>3. CASE BufFree
    <2>1. /\ buf # Null /\ buf' = Null /\ result' = result /\ item' = item
          /\ memory' = [m \in DOMAIN memory \ {buf} |-> memory[m]]
        BY <1>3 DEF BufFree, Without
    <2>2. DOMAIN memory' = {buf', result'} \ {Null}
        BY <2>1 DEF HeapInv
    <2>3. result # Null => memory'[result] = memory[result]
        BY <2>1 DEF HeapInv
    <2>4. result # Null => Borrowed(result, 1)' = Borrowed(result, 1)
        BY <2>1, <2>3 DEF Borrowed
    <2> QED
        BY <1>2, <2>1, <2>2, <2>3, <2>4 DEF HeapInv
<1>4. CASE DecryptFree
    <2>1. /\ result # Null /\ result' = Null /\ buf' = buf /\ item' = NoItem
          /\ memory' = [m \in DOMAIN memory \ {result} |-> memory[m]]
        BY <1>4 DEF DecryptFree, Without
    <2>2. DOMAIN memory' = {buf', result'} \ {Null}
        BY <2>1 DEF HeapInv
    <2>3. buf # Null => memory'[buf] = memory[buf]
        BY <2>1 DEF HeapInv
    <2> QED
        BY <1>2, <2>1, <2>2, <2>3 DEF HeapInv
<1> QED
    BY <1>3, <1>4

\* An item of the result.
LEMMA ReadKeepsHeap ==
    ASSUME HeapInv, NEW a \in ItemReads, ReadItem(a)
    PROVE  HeapInv'
<1>1. result # Null /\ ~(a.index >= DecryptLen(result)) /\ a.index \in 0..1
    BY ItemExists DEF ReadItem, ItemReads
<1>2. PICK b \in Encryptions : Accepted(b) /\ memory[result] = Decoded(Backup(b))
    BY <1>1 DEF HeapInv
<1>3. DecryptLen(result) = 1
    BY <1>1, <1>2 DEF DecryptLen, Decoded
<1>4. a.index + 1 = 1
    BY <1>1, <1>3
<1>5. item' = Borrowed(result, 1)
    BY <1>4 DEF ReadItem
<1>6. memory' = memory /\ buf' = buf /\ result' = result /\ calls' = calls + 1
    BY DEF ReadItem, Return
<1> QED
    BY <1>1, <1>5, <1>6, NothingGiven

\* Every step preserves the invariant.
LEMMA HeapStep == HeapInv /\ [InterfaceNext]_interfaceVars => HeapInv'
<1> SUFFICES ASSUME HeapInv, [InterfaceNext]_interfaceVars
             PROVE  HeapInv'
    OBVIOUS
<1>1. CASE \E a \in Encryptions : EncryptSucceeds(a)
    BY <1>1, EncryptKeepsHeap
<1>2. CASE \E a \in Decryptions : DecryptSucceeds(a)
    BY <1>2, DecryptKeepsHeap
<1>3. CASE \E a \in ItemReads : ReadItem(a)
    BY <1>3, ReadKeepsHeap
<1>4. CASE BufFree \/ DecryptFree
    BY <1>4, FreeKeepsHeap
<1>5. CASE \/ \E a \in Encryptions : EncryptFails(a) \/ EncryptStops(a)
           \/ \E a \in Decryptions : DecryptFails(a)
           \/ \E a \in ItemReads : ReadItemFails(a)
           \/ UNCHANGED interfaceVars
    <2>1. /\ memory' = memory /\ buf' = buf /\ result' = result /\ item' = item
          /\ calls' \in {calls, calls + 1}
        BY <1>5 DEF EncryptFails, EncryptStops, DecryptFails, ReadItemFails, Return, interfaceVars,
                    clientVars
    <2> QED
        BY <2>1, NothingGiven
<1> QED
    BY <1>1, <1>2, <1>3, <1>4, <1>5 DEF InterfaceNext

\* The invariant of the heap holds in every reachable state.
THEOREM HeapInvariance == InterfaceSpec => []HeapInv
<1>1. InterfaceInit => HeapInv
    <2> SUFFICES ASSUME InterfaceInit
                 PROVE  HeapInv
        OBVIOUS
    <2>1. DOMAIN memory = {}
        BY DEF InterfaceInit
    <2> QED
        BY <2>1 DEF InterfaceInit, HeapInv, Handles
<1> QED
    BY <1>1, HeapStep, PTL DEF InterfaceSpec

\* What the library allocated and nobody freed is what the client holds
\* (the boxes given out and the two free functions).
THEOREM AccountedCorrect == InterfaceSpec => []Accounted
<1>1. HeapInv => Accounted
    BY DEF HeapInv, Accounted, Borrowed
<1> QED
    BY <1>1, HeapInvariance, PTL

\* A call that returns an error has changed nothing of the client's but err.
THEOREM FailureChangesNothingCorrect == InterfaceSpec => FailureChangesNothing
<1>1. [InterfaceNext]_interfaceVars => [calls' # calls /\ rc' # OK => UNCHANGED <<memory, clientVars>>]_interfaceVars
    <2> SUFFICES ASSUME InterfaceNext, calls' # calls, rc' # OK
                 PROVE  UNCHANGED <<memory, clientVars>>
        OBVIOUS
    <2> QED
        BY DEF InterfaceNext, EncryptSucceeds, EncryptFails, EncryptStops, DecryptSucceeds,
               DecryptFails, ReadItem,
               ReadItemFails, BufFree, DecryptFree, Return
<1> QED
    BY <1>1, PTL DEF InterfaceSpec, FailureChangesNothing

-----------------------------------------------------------------------------
(* Content types                                                           *)

\* What is written comes back through the header's numbers as it was given.
LEMMA ContentBack ==
    ASSUME NEW a, a.type \in Discriminants, Written(a).is # "none"
    PROVE  LET c == ContentToFfi(Written(a))
           IN  /\ c.type \in TypesOf(a)
               /\ c.bip = IF c.type = BIP THEN a.bip ELSE 0
               /\ c.tag = IF a.type = PROPRIETARY /\ Given(a, "tag") THEN a.tag ELSE <<>>
<1> DEFINE c == ContentToFfi(Written(a))
<1>1. /\ DOMAIN KnownBips = 1..5 /\ BIP = 6 /\ PROPRIETARY = 7 /\ STRING_ = 8
      /\ \A i, j \in 1..5 : KnownBips[i] = KnownBips[j] => i = j
    BY DEF KnownBips, BIP, PROPRIETARY, STRING_
<1>2. a.type \in 1..5 \/ a.type \in {BIP, PROPRIETARY, STRING_}
    BY <1>1 DEF Discriminants, Written
<1>3. CASE a.type \in 1..5
    <2>1. Written(a) = [is |-> "bip", number |-> KnownBips[a.type]]
        BY <1>1, <1>3 DEF Written
    <2>2. BipType(KnownBips[a.type]) = a.type
        BY <1>1, <1>3 DEF BipType
    <2>3. c = [type |-> a.type, bip |-> 0, tag |-> <<>>]
        BY <1>1, <1>3, <2>1, <2>2 DEF ContentToFfi
    <2>4. a.type # BIP /\ a.type # PROPRIETARY
        BY <1>1, <1>3
    <2>5. TypesOf(a) = {a.type}
        BY <2>4 DEF TypesOf
    <2> QED
        BY <2>3, <2>4, <2>5
<1>4. CASE a.type = BIP
    <2>1. Written(a) = [is |-> "bip", number |-> a.bip]
        BY <1>1, <1>4 DEF Written
    <2> DEFINE type == BipType(a.bip)
    <2>2. type \in TypesOf(a) /\ (type = BIP \/ (type \in 1..5 /\ KnownBips[type] = a.bip))
        <3> DEFINE own == {t \in 1..5 : KnownBips[t] = a.bip}
        <3>1. TypesOf(a) = IF own # {} THEN own ELSE {BIP}
            BY <1>1, <1>4 DEF TypesOf
        <3>2. type = IF own # {} THEN CHOOSE t \in 1..5 : KnownBips[t] = a.bip ELSE BIP
            BY <1>1 DEF BipType
        <3> QED
            BY <3>1, <3>2
    <2> HIDE DEF type
    <2>3. c = [type |-> type, bip |-> IF type = BIP THEN a.bip ELSE 0, tag |-> <<>>]
        BY <2>1 DEF ContentToFfi, type
    <2>4. a.type # PROPRIETARY
        BY <1>1, <1>4
    <2> QED
        BY <1>4, <2>2, <2>3, <2>4
<1>5. CASE a.type = PROPRIETARY
    <2> DEFINE tag == IF Given(a, "tag") THEN a.tag ELSE <<>>
    <2>1. Written(a) = [is |-> "proprietary", tag |-> tag]
        BY <1>1, <1>5 DEF Written
    <2> HIDE DEF tag
    <2>2. c = [type |-> PROPRIETARY, bip |-> 0, tag |-> tag]
        BY <2>1 DEF ContentToFfi
    <2>3. PROPRIETARY # BIP
        BY <1>1
    <2>4. TypesOf(a) = {a.type}
        BY <1>5, <2>3 DEF TypesOf
    <2> QED
        BY <1>5, <2>2, <2>3, <2>4 DEF tag
<1>6. CASE a.type = STRING_
    <2>1. Written(a) = [is |-> "string"]
        BY <1>1, <1>6 DEF Written
    <2>2. c = [type |-> STRING_, bip |-> 0, tag |-> <<>>]
        BY <2>1 DEF ContentToFfi
    <2>3. STRING_ # BIP /\ STRING_ # PROPRIETARY
        BY <1>1
    <2>4. TypesOf(a) = {a.type}
        BY <1>6, <2>3 DEF TypesOf
    <2> QED
        BY <1>6, <2>2, <2>3, <2>4
<1> QED
    BY <1>2, <1>3, <1>4, <1>5, <1>6

\* An item comes back through the numbers of the C header as it went in
\* (content_from_ffi, content_to_ffi).
THEOREM ReadBackCorrect == InterfaceSpec => []ReadBack
<1>1. HeapInv => ReadBack
    <2> SUFFICES ASSUME HeapInv, item # NoItem
                 PROVE  LET a == Source(item.from)
                        IN  /\ item.data = a.data
                            /\ item.type \in TypesOf(a)
                            /\ item.bip = IF item.type = BIP THEN a.bip ELSE 0
                            /\ item.tag = IF a.type = PROPRIETARY /\ Given(a, "tag")
                                          THEN a.tag ELSE <<>>
        BY DEF ReadBack
    <2>1. result # Null /\ item = Borrowed(result, 1)
        BY DEF HeapInv
    <2>2. PICK a \in Encryptions : Accepted(a) /\ memory[result] = Decoded(Backup(a))
        BY <2>1 DEF HeapInv
    <2> DEFINE c == ContentToFfi(Written(a))
    <2>3. /\ memory[result].items[1] = [content |-> Written(a), data |-> a.data]
          /\ memory[result].from = a
        BY <2>2 DEF Decoded, Backup
    <2>4. /\ item.from = result /\ item.type = c.type /\ item.bip = c.bip /\ item.tag = c.tag
          /\ item.data = a.data
        BY <2>1, <2>3 DEF Borrowed
    <2>5. /\ c.type \in TypesOf(a)
          /\ c.bip = IF c.type = BIP THEN a.bip ELSE 0
          /\ c.tag = IF a.type = PROPRIETARY /\ Given(a, "tag") THEN a.tag ELSE <<>>
        BY <2>2, ContentBack DEF Accepted
    <2>6. Source(item.from) = a
        BY <2>3, <2>4 DEF Source
    <2> HIDE DEF c
    <2> QED
        BY <2>4, <2>5, <2>6
<1> QED
    BY <1>1, HeapInvariance, PTL

-----------------------------------------------------------------------------
(* The keys of a backup                                                    *)

\* XOR with a fixed value is injective, and undoes itself (xor).
LEMMA XorTwice ==
    ASSUME NEW a, NEW b, NEW c
    PROVE  /\ Xor(a, b) = Xor(a, c) => b = c
           /\ Xor(a, Xor(b, a)) = b
<1>1. ASSUME Xor(a, b) = Xor(a, c), NEW x PROVE x \in b <=> x \in c
    <2>1. x \in Xor(a, b) <=> x \in Xor(a, c)
        BY <1>1
    <2> QED
        BY <2>1 DEF Xor
<1>2. ASSUME NEW x PROVE x \in Xor(a, Xor(b, a)) <=> x \in b
    BY DEF Xor
<1> QED
    BY <1>1, <1>2

\* Two keys with the same mask are the same key (tagged_hash).
LEMMA MaskOfKey ==
    ASSUME NEW j, NEW k, Mask(Working, j) = Mask(Working, k)
    PROVE  j = k
<1>1. [tag |-> "BIP138_INDIVIDUAL_SECRET", of |-> {j}]
      = [tag |-> "BIP138_INDIVIDUAL_SECRET", of |-> {k}]
    BY DEF Mask, Hash, Working, TaggedHash
<1>2. {j} = {k}
    BY <1>1
<1> QED
    BY <1>2

\* A backup that was written without panic opens for its keys and no others.
LEMMA OpensForKeys ==
    ASSUME NEW a, ~Panics(a), NEW k
    PROVE  Opens(Working, k, Backup(a)) <=> k \in Sealed(a)
<1> DEFINE v == a.vtable
           s == Secret(v, Sealed(a))
<1>1. Backup(a).secrets = {Xor(s, Mask(v, j)) : j \in Sealed(a)}
      /\ Backup(a).sealed.under = s /\ Backup(a).sealed.nonce = "nonce"
    BY DEF Backup, SecretsOf, AeadSeal
<1>2. Opens(Working, k, Backup(a))
      <=> \E j \in Sealed(a) : Xor(Mask(Working, k), Xor(s, Mask(v, j))) = s
    BY <1>1 DEF Opens, AeadOpens
<1>3. CASE v.sha256 = "good"
    <2>1. \A j : Mask(v, j) = Mask(Working, j)
        BY <1>3 DEF Mask, Hash, Working
    <2> HIDE DEF s
    <2>2. k \in Sealed(a) => Xor(Mask(Working, k), Xor(s, Mask(Working, k))) = s
        BY XorTwice
    <2>3. ASSUME NEW j \in Sealed(a), Xor(Mask(Working, k), Xor(s, Mask(Working, j))) = s
          PROVE  j = k
        <3>1. Xor(Mask(Working, k), Xor(s, Mask(Working, k))) = s
            BY XorTwice
        <3>2. Xor(s, Mask(Working, j)) = Xor(s, Mask(Working, k))
            BY <2>3, <3>1, XorTwice
        <3>3. \A b, c : Xor(s, b) = Xor(s, c) => b = c
            BY XorTwice
        <3>4. Mask(Working, j) = Mask(Working, k)
            BY <3>2, <3>3
        <3> QED
            BY <3>4, MaskOfKey
    <2> QED
        BY <1>2, <2>1, <2>2, <2>3
<1>4. CASE v.sha256 # "good"
    <2>1. s = Zero /\ \A j : Mask(v, j) = Zero
        BY <1>4 DEF Secret, Mask, Hash
    <2>2. Xor(Zero, Zero) = Zero
        BY DEF Xor, Zero
    <2>3. Sealed(a) = {}
        BY <2>1, <2>2 DEF Panics, SecretsOf
    <2> QED
        BY <1>2, <2>3
<1> QED
    BY <1>3, <1>4

\* A buffer that bip138_encrypt returned opens for its recipients and for nobody
\* else, although any callback may have failed or done nothing (individual_secret
\* and its assertion).
THEOREM RecipientsReadCorrect == InterfaceSpec => []RecipientsRead
<1>1. HeapInv => RecipientsRead
    <2> SUFFICES ASSUME HeapInv, buf # Null, NEW k
                 PROVE  Opens(Working, k, memory[buf]) <=> k \in Sealed(Source(buf))
        BY DEF RecipientsRead
    <2>1. PICK a \in Encryptions : Accepted(a) /\ memory[buf] = Backup(a)
        BY DEF HeapInv
    <2>2. Source(buf) = a
        BY <2>1 DEF Source, Backup
    <2> QED
        BY <2>1, <2>2, OpensForKeys DEF Accepted
<1> QED
    BY <1>1, HeapInvariance, PTL
=============================================================================
