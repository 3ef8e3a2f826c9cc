------------------------------ MODULE WireFormat ------------------------------
(***************************************************************************)
(* The bytes of a backup (bip138-ll/src/lib.rs):                           *)
(*   MAGIC VERSION DERIVATION_PATHS INDIVIDUAL_SECRETS ENCRYPTION          *)
(*   (NONCE LENGTH CYPHERTEXT)+ trailing bytes                             *)
(* and their parser: decode_version, decode_v1 and, for the inspect        *)
(* command, decode_v1_encrypted_payload_lengths, which reads the header    *)
(* again and then walks the payloads a vendor may have appended.  A field, *)
(* or one turn of the loop over the paths, the secrets or the payloads, is *)
(* one step.                                                               *)
(***************************************************************************)
EXTENDS Varint, FiniteSets

CONSTANTS
    Magic,        \* the bytes of MAGIC
    ChildSize,    \* bytes of a child index (4 in the code)
    SecretSize,   \* bytes of an individual secret (32 in the code)
    NonceSize,    \* bytes of a nonce (12 in the code)
    Sources,      \* what is encoded, see SourceType
    Trailers,     \* what may follow the payloads
    Strings       \* other byte strings that are parsed

VARIABLES
    bytes,        \* the input
    source,       \* what it encodes, or NoSource
    cut,          \* number of bytes cut from its end
    stage,        \* the field that is parsed next
    offset,       \* where it starts
    left,         \* number of paths or secrets still to parse
    parsed,       \* the fields parsed so far
    lengths,      \* decode_v1_encrypted_payload_lengths: those of the payloads
    error         \* why the parser refused

wireVars == <<bytes, source, cut, stage, offset, left, parsed, lengths, error>>

VERSION_0 == 0
VERSION_MAX == 1
Path == Seq([1..ChildSize -> Byte])

SourceType == [paths : SUBSET Path, secrets : SUBSET [1..SecretSize -> Byte],
               encryption : Byte \ {0},
               payloads : Seq([nonce : [1..NonceSize -> Byte], text : Seq(Byte)])]
NoSource == [paths |-> {}, secrets |-> {}, encryption |-> 0, payloads |-> <<>>]
NothingParsed == [paths |-> {}, secrets |-> {}, encryption |-> 0, nonce |-> <<>>, text |-> <<>>]

ZeroNonce == [i \in 1..NonceSize |-> 0]

ASSUME WireAssumption ==
    /\ ChildSize \in Nat \ {0} /\ SecretSize \in Nat \ {0} /\ NonceSize \in Nat \ {0}
    /\ Magic \in Seq(Byte)
    /\ Sources \subseteq SourceType
    /\ \A s \in Sources :
          /\ IsFiniteSet(s.paths) /\ IsFiniteSet(s.secrets)
          /\ s.payloads # <<>>
          /\ \A i \in DOMAIN s.payloads : s.payloads[i].nonce # ZeroNonce
    /\ Trailers \subseteq Seq(Byte)
    /\ Strings \subseteq Seq(Byte)

-----------------------------------------------------------------------------
(* The encoder                                                             *)

\* the order is that of the bytes in the code, any other here
Listed(S) == CHOOSE f \in [1..Cardinality(S) -> S] : {f[i] : i \in DOMAIN f} = S

EncodePath(p) == <<Len(p)>> \o Concat(p, Len(p))
EncodePaths(ps) ==
    <<Cardinality(ps)>> \o Concat([i \in 1..Cardinality(ps) |-> EncodePath(Listed(ps)[i])],
                                  Cardinality(ps))
EncodeSecrets(cs) == <<Cardinality(cs)>> \o Concat(Listed(cs), Cardinality(cs))
EncodePayload(p) == p.nonce \o EncodeVarint(Len(p.text)) \o p.text

\* encode_derivation_paths, encode_individual_secrets, encode_encrypted_payload
CanEncode(s) ==
    /\ Cardinality(s.paths) < Base
    /\ \A p \in s.paths : Len(p) \in 1..(Base - 1)
    /\ Cardinality(s.secrets) \in 1..(Base - 1)
    /\ \A i \in DOMAIN s.payloads : s.payloads[i].text # <<>>

\* encode_v1 writes one payload; a vendor may append others
EncodeV1(s) ==
    Magic \o <<VERSION_MAX>> \o EncodePaths(s.paths) \o EncodeSecrets(s.secrets)
    \o <<s.encryption>>
    \o Concat([i \in DOMAIN s.payloads |-> EncodePayload(s.payloads[i])], Len(s.payloads))

-----------------------------------------------------------------------------
(* The parser                                                              *)

Size == Len(bytes)
At(o) == bytes[o + 1]
Slice(o, n) == SubSeq(bytes, o + 1, o + n)
Rest(o) == SubSeq(bytes, o + 1, Size)

WireIdle ==
    /\ bytes = <<>>
    /\ source = NoSource
    /\ cut = 0
    /\ stage = "idle"
    /\ offset = 0
    /\ left = 0
    /\ parsed = NothingParsed
    /\ lengths = <<>>
    /\ error = "none"

\* what is encoded is a Vec and what is parsed a slice: their size is a usize
WireInit ==
    /\ \/ \E s \in Sources, t \in Trailers :
             /\ CanEncode(s)
             /\ Len(EncodeV1(s)) <= UsizeMax
             /\ \E n \in 0..Len(EncodeV1(s)) :
                   /\ n # 0 => t = <<>>
                   /\ source = s
                   /\ cut = n
                   /\ bytes = SubSeq(EncodeV1(s), 1, Len(EncodeV1(s)) - n) \o t
       \/ /\ source = NoSource
          /\ cut = 0
          /\ bytes \in Strings
    /\ Size <= UsizeMax
    /\ stage = "magic"
    /\ offset = 0
    /\ left = 0
    /\ parsed = NothingParsed
    /\ lengths = <<>>
    /\ error = "none"

Refuse(e) ==
    /\ stage' = "refused"
    /\ error' = e
    /\ UNCHANGED <<offset, left, parsed>>

\* mutant: the byte after the field need not be there
ContinueUnchecked(next, o, fields) ==
    /\ stage' = next
    /\ offset' = o
    /\ left' = 0
    /\ parsed' = fields
    /\ UNCHANGED error
\* increment_offset: there must be a byte after the field
Continue(next, o, fields) ==
    IF Size <= o THEN Refuse("Corrupted")
    ELSE /\ stage' = next
         /\ offset' = o
         /\ left' = 0
         /\ parsed' = fields
         /\ UNCHANGED error

\* COUNT, and a byte after it
Enter(next, count) ==
    IF Size <= offset + 1 THEN Refuse("Corrupted")
    ELSE /\ stage' = next
         /\ offset' = offset + 1
         /\ left' = count
         /\ UNCHANGED <<parsed, error>>

\* one turn of a loop that ends at o
Turn(next, o, fields) ==
    IF left = 1 THEN Continue(next, o, fields)
    ELSE /\ left' = left - 1
         /\ offset' = o
         /\ parsed' = fields
         /\ UNCHANGED <<stage, error>>

Unread == UNCHANGED <<bytes, source, cut, lengths>>

\* parse_magic_byte
ParseMagic ==
    /\ stage = "magic"
    /\ IF Size < Len(Magic) \/ Slice(0, Len(Magic)) # Magic THEN Refuse("Magic")
       ELSE Continue("version", Len(Magic), parsed)
    /\ Unread

\* parse_version
ParseVersion ==
    /\ stage = "version"
    /\ IF At(offset) = VERSION_0 \/ At(offset) > VERSION_MAX THEN Refuse("Version")
       ELSE Continue("path count", offset + 1, parsed)
    /\ Unread

\* parse_derivation_paths
ParsePathCount ==
    /\ stage = "path count"
    /\ Enter(IF At(offset) = 0 THEN "secret count" ELSE "paths", At(offset))
    /\ Unread

ParsePath ==
    /\ stage = "paths"
    /\ IF Size <= offset THEN Refuse("Corrupted")
       ELSE LET count == At(offset)
                end == offset + 1 + count * ChildSize
                path == [i \in 1..count |-> Slice(offset + 1 + (i - 1) * ChildSize, ChildSize)]
            IN  CASE count = 0 -> Refuse("DerivPathEmpty")
                  [] count # 0 /\ Size < end -> Refuse("Corrupted")
                  [] OTHER -> Turn("secret count", end,
                                   [parsed EXCEPT !.paths = @ \cup {path}])
    /\ Unread

\* parse_individual_secrets
ParseSecretCount ==
    /\ stage = "secret count"
    /\ IF At(offset) = 0 THEN Refuse("IndividualSecretsEmpty") ELSE Enter("secrets", At(offset))
    /\ Unread

ParseSecret ==
    /\ stage = "secrets"
    /\ IF Size < offset + SecretSize THEN Refuse("Corrupted")
       ELSE Turn("encryption", offset + SecretSize,
                 [parsed EXCEPT !.secrets = @ \cup {Slice(offset, SecretSize)}])
    /\ Unread

\* parse_encryption
ParseEncryption ==
    /\ stage = "encryption"
    /\ IF At(offset) = 0 THEN Refuse("EncryptionReserved")
       ELSE Continue("payload", offset + 1, [parsed EXCEPT !.encryption = At(offset)])
    /\ Unread

\* the LENGTH of the payload at o, where its CYPHERTEXT starts and ends
Length(o) == ParseVarint(Rest(o + NonceSize))
TextStart(o) == o + NonceSize + Length(o).used
TextEnd(o) == TextStart(o) + Length(o).value

\* mutant: the nonce is not looked at
PayloadErrorAnyNonce(o) ==
    IF Size <= o + NonceSize \/ ~Length(o).ok \/ Size < TextEnd(o) THEN "Corrupted" ELSE "none"
\* parse_encrypted_payload
PayloadError(o) ==
    CASE Size < o + NonceSize -> "Corrupted"
      [] Size >= o + NonceSize /\ Slice(o, NonceSize) = ZeroNonce -> "ZeroedNonce"
      [] Size = o + NonceSize /\ Slice(o, NonceSize) # ZeroNonce -> "Corrupted"
      [] OTHER -> CASE ~Length(o).ok -> "VarInt"
                    [] Length(o).ok /\ Length(o).value > UsizeMax -> "DataLength"
                    [] OTHER -> IF TextEnd(o) - o > UsizeMax THEN "Increment"
                                ELSE IF Size < TextEnd(o) THEN "Corrupted" ELSE "none"

\* mutant: a cyphertext that is too short is taken as it is
ParsePayloadRest ==
    /\ stage = "payload"
    /\ IF Size < offset + NonceSize \/ ~Length(offset).ok THEN Refuse("Corrupted")
       ELSE /\ stage' = "lengths"
            /\ parsed' = [parsed EXCEPT !.nonce = Slice(offset, NonceSize),
                                        !.text = SubSeq(bytes, TextStart(offset) + 1, Size)]
            /\ UNCHANGED <<offset, left, error>>
    /\ Unread
\* decode_v1 ends here
ParsePayload ==
    /\ stage = "payload"
    /\ IF PayloadError(offset) # "none" THEN Refuse(PayloadError(offset))
       ELSE /\ stage' = "lengths"
            /\ parsed' = [parsed EXCEPT !.nonce = Slice(offset, NonceSize),
                                        !.text = SubSeq(bytes, TextStart(offset) + 1,
                                                        TextEnd(offset))]
            /\ UNCHANGED <<offset, left, error>>
    /\ Unread

\* parse_encrypted_payload_length
CountsAsPayload(o) ==
    /\ Size >= o + NonceSize
    /\ Slice(o, NonceSize) # ZeroNonce
    /\ Length(o).ok /\ Length(o).value <= UsizeMax
    /\ TextEnd(o) <= UsizeMax /\ TextEnd(o) <= Size

WalkPayload ==
    /\ stage = "lengths"
    /\ offset < Size
    /\ CountsAsPayload(offset)
    /\ lengths' = Append(lengths, Length(offset).value)
    /\ offset' = TextEnd(offset)
    /\ UNCHANGED <<bytes, source, cut, stage, left, parsed, error>>

\* mutant: what follows the payloads must be another one
WalkEndsAtSize ==
    /\ stage = "lengths"
    /\ offset >= Size
    /\ stage' = "done"
    /\ UNCHANGED <<bytes, source, cut, offset, left, parsed, lengths, error>>
\* the first payload is mandated, anything after it may be trailing bytes
WalkEnds ==
    /\ stage = "lengths"
    /\ offset < Size => ~CountsAsPayload(offset)
    /\ stage' = IF lengths = <<>> THEN "refused" ELSE "done"
    /\ error' = IF lengths = <<>> THEN "Corrupted" ELSE error
    /\ UNCHANGED <<bytes, source, cut, offset, left, parsed, lengths>>

WireStep ==
    \/ ParseMagic
    \/ ParseVersion
    \/ ParsePathCount
    \/ ParsePath
    \/ ParseSecretCount
    \/ ParseSecret
    \/ ParseEncryption
    \/ ParsePayload
    \/ WalkPayload
    \/ WalkEnds

-----------------------------------------------------------------------------
(* Properties                                                              *)

\* Type invariant; the parser never stands beyond the input, and where it
\* reads a byte without looking there is one.
WireTypeOK ==
    /\ bytes \in Seq(Byte)
    /\ offset \in 0..Size
    /\ stage \in {"version", "path count", "secret count", "encryption", "payload"} =>
          offset < Size
    /\ left \in 0..(Base - 1)
    /\ parsed.paths \subseteq Path \ {<<>>}
    /\ \A i \in DOMAIN lengths : lengths[i] \in 0..Size
    /\ error = "none" <=> stage # "refused"

AppendedSize(s) ==
    LET n == Len(s.payloads) - 1
    IN  Len(Concat([i \in 1..n |-> EncodePayload(s.payloads[i + 1])], n))

ReadsBack ==
    /\ stage # "refused"
    /\ stage = "done" =>
          /\ parsed = [paths |-> source.paths, secrets |-> source.secrets,
                       encryption |-> source.encryption,
                       nonce |-> source.payloads[1].nonce, text |-> source.payloads[1].text]
          /\ Len(lengths) >= Len(source.payloads)
          /\ \A i \in DOMAIN source.payloads : lengths[i] = Len(source.payloads[i].text)

\* What was encoded is what is parsed, whatever bytes follow it, and the walk
\* counts at least the payloads that are there.  A backup that lost its end is
\* refused, wherever it was cut, unless only appended payloads are affected.
BackupOrRefusal ==
    source # NoSource =>
        /\ cut = 0 => ReadsBack
        /\ stage \in {"lengths", "done"} => cut <= AppendedSize(source)

\* What decrypt can parse, inspect can show, with the length of the same
\* cyphertext first (the two have parsers of their own for the payload).
InspectAgrees ==
    parsed.nonce # <<>> =>
        /\ stage # "refused"
        /\ lengths # <<>> => lengths[1] = Len(parsed.text)
=============================================================================
