---------------------------- MODULE SymbolicCrypto ----------------------------
(***************************************************************************)
(* The 32-byte values of the bip138-ll core and what it computes with      *)
(* them (bip138-ll/src/lib.rs), symbolically: a value is a finite set of   *)
(* atoms and XOR is symmetric difference, so that x (+) x is the zero      *)
(* value {} and XOR is associative; a tagged hash or a random draw is a    *)
(* value with one atom; the AEAD opens with the key and the nonce that     *)
(* sealed and with no other.                                               *)
(***************************************************************************)

Zero == {}
Xor(a, b) == (a \ b) \cup (b \ a)
Random(e) == {[tag |-> "RANDOM", of |-> {e}]}

\* tagged_hash over the concatenation of a sorted, deduplicated set of keys
TaggedHash(tag, ks) == {[tag |-> tag, of |-> ks]}

DecryptionSecret(ks) == TaggedHash("BIP138_DECRYPTION_SECRET", ks)
\* mutant: the mask does not depend on the key
SharedMask(k) == TaggedHash("BIP138_INDIVIDUAL_SECRET", {})
KeyMask(k) == TaggedHash("BIP138_INDIVIDUAL_SECRET", {k})

\* mutant: masked with the key itself
KeyXorSecret(s, k) == Xor(s, {[tag |-> "KEY", of |-> {k}]})
\* c_i = s (+) s_i; the code asserts that it is not zero
IndividualSecret(s, k) == Xor(s, KeyMask(k))
IndividualSecrets(s, ks) == {IndividualSecret(s, k) : k \in ks}

AeadSeal(secret, n, text) == [under |-> secret, nonce |-> n, text |-> text]
AeadOpens(secret, n, sealed) == sealed.under = secret /\ sealed.nonce = n
=============================================================================
