------------------------------ MODULE CInterface ------------------------------
(***************************************************************************)
(* The C binding of bip138-ll (bip138-ll/src/ffi.rs) and one C client that *)
(* keeps the header's contract: its pointers are null or valid, it frees   *)
(* what it got once and uses nothing after that, and its `out` variables   *)
(* are null before a call.  What the client supplies is less certain:      *)
(* arguments, callbacks that are null, fail or do nothing.                 *)
(*                                                                         *)
(* One action is one call of an entry point.  Memory is the set of the     *)
(* allocations that the library has made and nobody has freed.             *)
(***************************************************************************)
EXTENDS Naturals, FiniteSets, Sequences, SymbolicCrypto

CONSTANTS
    Null,         \* the null pointer
    NumsKey,      \* the x-only form of the BIP341 NUMS point
    ListMax,      \* limit of the one-byte counts (255 in the code)
    FullBuckets,  \* the numbers of secrets that need no decoys (5, 10, 20, ..., 255)
    Encryptions,  \* the argument lists of bip138_encrypt
    Decryptions,  \* the argument lists of bip138_decrypt
    MaxCalls      \* bound on the calls that return a code

VARIABLES
    memory,       \* live allocations of the library: address to contents
    buf,          \* the client's bip138_buf
    result,       \* the client's bip138_decrypt_result pointer
    item,         \* the client's bip138_item
    err,          \* the client's message variable
    rc,           \* the code of the last call; each has a message of its own
    calls,        \* number of calls that return a code
    stopped       \* a call did not come back

clientVars == <<buf, result, item>>
interfaceVars == <<memory, clientVars, err, rc, calls, stopped>>

Given(a, p) == p \notin a.null
OK == "OK"

\* the name of the first check that fails; a check is a name and a condition
FirstError(checks) ==
    LET failing == {i \in DOMAIN checks : checks[i][2]}
    IN  IF failing = {} THEN OK ELSE checks[CHOOSE i \in failing : \A j \in failing : i <= j][1]

ASSUME InterfaceAssumption ==
    /\ Null \notin Nat
    /\ \A a \in Decryptions : a.bytes # OK

-----------------------------------------------------------------------------
(* Content types                                                           *)

BIP == 6
PROPRIETARY == 7
STRING_ == 8
UNKNOWN == 9
Discriminants == 0..9
KnownBips == <<138, 139, 380, 388, 329>>

\* content_from_ffi followed by the encoding: the number or the tag that is
\* written; a null tag is an empty one
Written(a) ==
    CASE a.type \in DOMAIN KnownBips -> [is |-> "bip", number |-> KnownBips[a.type]]
      [] a.type = BIP -> [is |-> "bip", number |-> a.bip]
      [] a.type = PROPRIETARY ->
             [is |-> "proprietary", tag |-> IF Given(a, "tag") THEN a.tag ELSE <<>>]
      [] a.type = STRING_ -> [is |-> "string"]
      [] OTHER -> [is |-> "none"]

\* mutant: every number comes back as a BIP
NumberedFfi(content) ==
    CASE content.is = "bip" -> [type |-> BIP, bip |-> content.number, tag |-> <<>>]
      [] content.is = "proprietary" -> [type |-> PROPRIETARY, bip |-> 0, tag |-> content.tag]
      [] OTHER -> [type |-> STRING_, bip |-> 0, tag |-> <<>>]
\* the type that a BIP's number has in the header
BipType(n) ==
    IF \E t \in DOMAIN KnownBips : KnownBips[t] = n
    THEN CHOOSE t \in DOMAIN KnownBips : KnownBips[t] = n
    ELSE BIP
\* parse_content followed by content_to_ffi
ContentToFfi(content) ==
    CASE content.is = "bip" ->
             LET type == BipType(content.number)
             IN  [type |-> type, bip |-> IF type = BIP THEN content.number ELSE 0, tag |-> <<>>]
      [] content.is = "proprietary" -> [type |-> PROPRIETARY, bip |-> 0, tag |-> content.tag]
      [] OTHER -> [type |-> STRING_, bip |-> 0, tag |-> <<>>]

-----------------------------------------------------------------------------
(* The core through the vtable                                             *)

\* a hash callback has no way to fail: one that does nothing leaves the zeros
Hash(v, tag, ks) == IF v.sha256 = "good" THEN TaggedHash(tag, ks) ELSE Zero
Mask(v, k) == Hash(v, "BIP138_INDIVIDUAL_SECRET", {k})
Secret(v, ks) == Hash(v, "BIP138_DECRYPTION_SECRET", ks)
Sealed(a) == a.keys \ {NumsKey}
SecretsOf(a) == {Xor(Secret(a.vtable, Sealed(a)), Mask(a.vtable, k)) : k \in Sealed(a)}

StoredPath(p) == ~p.common
KeptPaths(a) == SelectSeq(a.paths, StoredPath)
CoreStarts(a) ==
    << <<"DataLength", a.data = <<>> >>,
       <<"ContentMetadata", Written(a).is = "none">>,
       <<"KeyCount", Sealed(a) = {} \/ Cardinality(Sealed(a)) > ListMax>>,
       <<"DerivPathCount", Cardinality({KeptPaths(a)[i] : i \in DOMAIN KeptPaths(a)}) > ListMax>> >>
CoreEnds(a) ==
    << <<"DerivPathEmpty", \E i \in DOMAIN KeptPaths(a) : KeptPaths(a)[i].len = 0>>,
       <<"DerivPathLength", \E i \in DOMAIN KeptPaths(a) : KeptPaths(a)[i].len > ListMax>>,
       <<"ZeroedNonce", a.vtable.fill_random = "nothing">>,
       <<"Encrypt", a.vtable.aead_encrypt = "fails">>,
       <<"CypherTextEmpty", a.vtable.aead_encrypt = "nothing">> >>

\* mutant: individual_secret without its assertion
NeverPanics(a) == FALSE
\* individual_secret asserts that its result is not zero
Panics(a) == Zero \in SecretsOf(a)
\* a random callback has no way to fail either: one that does nothing leaves a
\* nonce of zeros, and decoys of zeros, which the loop drops one after the other
Hangs(a) == a.vtable.fill_random = "nothing" /\ Cardinality(Sealed(a)) \notin FullBuckets

Backup(a) ==
    [secrets |-> SecretsOf(a), content |-> Written(a), data |-> a.data, from |-> a,
     sealed |-> AeadSeal(Secret(a.vtable, Sealed(a)), "nonce", a.data)]

Opens(v, k, b) ==
    \E s \in b.secrets : AeadOpens(Xor(Mask(v, k), s), "nonce", b.sealed)

-----------------------------------------------------------------------------
(* bip138_encrypt                                                          *)

\* read_paths: a null list, or a list with a length and no pointer
PathsNull(a) ==
    a.paths # <<>> /\ (~Given(a, "paths") \/ \E i \in DOMAIN a.paths : a.paths[i].null)

Missing(v, callbacks) == \E c \in callbacks : v[c] = "null"

EncryptBoundary(a) ==
    << <<"NullPointer", \E p \in {"vtable", "out", "keys", "payload"} : ~Given(a, p)>>,
       <<"BadVtable", Missing(a.vtable, {"sha256", "aead_encrypt", "fill_random"})>>,
       <<"NullPointer", PathsNull(a)>>,
       <<"BadContentType", a.type \notin Discriminants>>,
       <<"BadPadding", a.padding \notin {0, 1}>> >>

EncryptOutcome(a) ==
    FirstError(EncryptBoundary(a) \o CoreStarts(a)
               \o << <<"panic", Panics(a)>>, <<"hang", Hangs(a)>> >> \o CoreEnds(a))

NewAddress == calls + 1
Allocated(contents) ==
    [m \in DOMAIN memory \cup {NewAddress} |-> IF m = NewAddress THEN contents ELSE memory[m]]

\* fail(): the message goes to err unless that is null
Return(a, code) ==
    /\ calls < MaxCalls /\ ~stopped
    /\ calls' = calls + 1
    /\ rc' = code
    /\ err' = IF code # OK /\ Given(a, "err") THEN code ELSE err
    /\ UNCHANGED stopped

EncryptSucceeds(a) ==
    /\ buf = Null /\ EncryptOutcome(a) = OK
    /\ Return(a, OK)
    /\ memory' = Allocated(Backup(a))
    /\ buf' = NewAddress
    /\ UNCHANGED <<result, item>>

EncryptFails(a) ==
    /\ buf = Null /\ EncryptOutcome(a) \notin {OK, "panic", "hang"}
    /\ Return(a, EncryptOutcome(a))
    /\ UNCHANGED <<memory, clientVars>>

EncryptStops(a) ==
    /\ buf = Null /\ EncryptOutcome(a) \in {"panic", "hang"}
    /\ calls < MaxCalls /\ ~stopped
    /\ stopped' = TRUE
    /\ UNCHANGED <<memory, clientVars, err, rc, calls>>

-----------------------------------------------------------------------------
(* bip138_decrypt                                                          *)

\* the bytes are the client's buffer, or such that decode_v1 refuses them with
\* the named error
DecryptBoundary(a) ==
    << <<"NullPointer", \/ \E p \in {"vtable", "out", "key"} : ~Given(a, p)
                        \/ a.bytes = "buf" /\ buf = Null>>,
       <<"BadVtable", Missing(a.vtable, {"sha256", "aead_decrypt"})>>,
       <<a.bytes, a.bytes # "buf">> >>

\* a callback that fails, or whose tag does not verify, gives no plaintext; one
\* that leaves the length alone gives an empty one for the first secret, whatever
\* the key, which ends the scan and does not decode
DecryptOutcome(a) ==
    LET e == FirstError(DecryptBoundary(a))
    IN  IF e # OK THEN e
        ELSE FirstError(<< <<"EmptyBytes", a.vtable.aead_decrypt = "nothing">>,
                           <<"WrongKey", \/ a.vtable.aead_decrypt = "fails"
                                         \/ ~Opens(a.vtable, a.key, memory[buf])>> >>)

Decoded(b) == [items |-> << [content |-> b.content, data |-> b.data] >>, from |-> b.from]

DecryptSucceeds(a) ==
    /\ result = Null /\ DecryptOutcome(a) = OK
    /\ Return(a, OK)
    /\ memory' = Allocated(Decoded(memory[buf]))
    /\ result' = NewAddress
    /\ UNCHANGED <<buf, item>>

\* mutant: the result is boxed and handed over before the payload is opened
DecryptFailsLate(a) ==
    /\ result = Null /\ DecryptOutcome(a) # OK
    /\ Return(a, DecryptOutcome(a))
    /\ memory' = IF DecryptOutcome(a) = "WrongKey"
                 THEN Allocated([items |-> <<>>, from |-> a]) ELSE memory
    /\ UNCHANGED clientVars
DecryptFails(a) ==
    /\ result = Null /\ DecryptOutcome(a) # OK
    /\ Return(a, DecryptOutcome(a))
    /\ UNCHANGED <<memory, clientVars>>

-----------------------------------------------------------------------------
(* bip138_decrypt_len, bip138_decrypt_item and the two frees               *)

DecryptLen(r) == IF r = Null THEN 0 ELSE Len(memory[r].items)

NoItem == [from |-> Null]
Borrowed(r, i) ==
    LET content == ContentToFfi(memory[r].items[i].content)
    IN  [from |-> r, type |-> content.type, bip |-> content.bip, tag |-> content.tag,
         data |-> memory[r].items[i].data]

ItemOutcome(a) ==
    FirstError(<< <<"NullPointer", ~Given(a, "out") \/ result = Null>>,
                  <<"IndexOutOfBounds", a.index >= DecryptLen(result)>> >>)

ReadItem(a) ==
    /\ ItemOutcome(a) = OK
    /\ Return(a, OK)
    /\ item' = Borrowed(result, a.index + 1)
    /\ UNCHANGED <<memory, buf, result>>

\* mutant: out is cleared before the index is checked
ReadItemFailsCleared(a) ==
    /\ ItemOutcome(a) # OK
    /\ Return(a, ItemOutcome(a))
    /\ item' = IF Given(a, "out") THEN NoItem ELSE item
    /\ UNCHANGED <<memory, buf, result>>
ReadItemFails(a) ==
    /\ ItemOutcome(a) # OK
    /\ Return(a, ItemOutcome(a))
    /\ UNCHANGED <<memory, clientVars>>

Without(address) == [m \in DOMAIN memory \ {address} |-> memory[m]]

BufFree ==
    /\ buf # Null /\ ~stopped
    /\ memory' = Without(buf)
    /\ buf' = Null
    /\ UNCHANGED <<result, item, err, rc, calls, stopped>>

\* what the client borrowed from the result goes with it
DecryptFree ==
    /\ result # Null /\ ~stopped
    /\ memory' = Without(result)
    /\ result' = Null
    /\ item' = NoItem
    /\ UNCHANGED <<buf, err, rc, calls, stopped>>

-----------------------------------------------------------------------------
ItemReads == [null : SUBSET {"out", "err"}, index : 0..1]

InterfaceInit ==
    /\ memory = <<>>
    /\ buf = Null /\ result = Null /\ item = NoItem
    /\ err = Null
    /\ rc = OK
    /\ calls = 0
    /\ stopped = FALSE

InterfaceNext ==
    \/ \E a \in Encryptions : EncryptSucceeds(a) \/ EncryptFails(a) \/ EncryptStops(a)
    \/ \E a \in Decryptions : DecryptSucceeds(a) \/ DecryptFails(a)
    \/ \E a \in ItemReads : ReadItem(a) \/ ReadItemFails(a)
    \/ BufFree
    \/ DecryptFree

InterfaceSpec == InterfaceInit /\ [][InterfaceNext]_interfaceVars

-----------------------------------------------------------------------------
(* Properties                                                              *)

\* Ownership: what the library allocated and nobody freed is what the client
\* holds, after any failure on the way; nothing it holds or has borrowed from is
\* gone.
Accounted ==
    /\ DOMAIN memory = {buf, result} \ {Null}
    /\ item # NoItem => item.from = result

\* A call that returns an error has changed nothing of the client's but err.
FailureChangesNothing ==
    [][calls' # calls /\ rc' # OK => UNCHANGED <<memory, clientVars>>]_interfaceVars

Source(address) == memory[address].from

TypesOf(a) ==
    LET own == {t \in DOMAIN KnownBips : KnownBips[t] = a.bip}
    IN  IF a.type = BIP /\ own # {} THEN own ELSE {a.type}

\* An item comes back through the numbers of the C header as it went in: the
\* same bytes, the same tag, the same content type, with a BIP that has a
\* number of its own under that number, and bip and tag empty for the rest.
ReadBack ==
    item # NoItem =>
        LET a == Source(item.from)
        IN  /\ item.data = a.data
            /\ item.type \in TypesOf(a)
            /\ item.bip = IF item.type = BIP THEN a.bip ELSE 0
            /\ item.tag = IF a.type = PROPRIETARY /\ Given(a, "tag") THEN a.tag ELSE <<>>

Working == [sha256 |-> "good", aead_encrypt |-> "good", aead_decrypt |-> "good",
            fill_random |-> "good"]

\* A buffer that bip138_encrypt returned is one that its recipients, and nobody
\* else, open with working callbacks, although any callback that made it may
\* have failed or done nothing.  (One that reports success and returns other
\* bytes than a cipher or a hash would is not in the model.)
RecipientsRead ==
    buf # Null => \A k \in UNION {a.keys : a \in Encryptions} :
                      Opens(Working, k, memory[buf]) <=> k \in Sealed(Source(buf))
=============================================================================
