--------------------------- MODULE PlaintextCodec ---------------------------
(***************************************************************************)
(* The plaintext inside a backup (bip138-ll/src/lib.rs):                   *)
(*      (CONTENT LENGTH PLAINTEXT)+ PADDING                                *)
(* with CONTENT = TYPE (LENGTH) DATA, lengths as CompactSize integers and  *)
(* zero bytes as padding.  The decoder is a loop with one item per turn.   *)
(***************************************************************************)
EXTENDS Varint

CONSTANTS
    Upgrade,      \* CONTENT_UPGRADE: from this TYPE on parsers reject
    NamedBips,    \* the BIP numbers with a Content variant of their own
    MinSize,      \* PADDING_MIN_SIZE
    WideMax,      \* largest integer the padding computes with (2^128 - 1 in the code)
    Lists,        \* lists of items that are encoded and decoded
    Plaintexts    \* other byte strings that are decoded

VARIABLES
    list,         \* the items that are encoded, <<>> for a plaintext from elsewhere
    padding,      \* None or Geometric
    fraction,     \* the loop of geometric_bucket: numerator and denominator
    plaintext,
    position,     \* of the decoder
    items,        \* the items decoded so far
    outcome       \* "idle", "padding", "running", "ok" or the error

codecVars == <<list, padding, fraction, plaintext, position, items, outcome>>

CONTENT_END == 0
CONTENT_BIP == 1
CONTENT_PROPRIETARY == 2
CONTENT_STRING == 3
GROWTH_NUMERATOR == 5
GROWTH_DENOMINATOR == 4

-----------------------------------------------------------------------------
(* Content                                                                 *)

Bip(n) == [type |-> "Bip", number |-> n]      \* Bip138, Bip139, ...
OtherBip(n) == [type |-> "BIP", number |-> n] \* BIP(n), for any n
Proprietary(tag) == [type |-> "Proprietary", tag |-> tag]
String == [type |-> "String"]
Unknown == [type |-> "Unknown"]
\* content of a later version of the format, which this encoder does not write
Foreign(t, data) == [type |-> "Foreign", of |-> t, data |-> data]

\* the content that is written, by this version or a later one
ContentType == {Bip(n) : n \in NamedBips} \cup {OtherBip(n) : n \in 0..(Base * Base - 1)}
               \cup [type : {"Proprietary"}, tag : Seq(Byte)] \cup {String}
               \cup [type : {"Foreign"}, of : 4..(Upgrade - 1), data : Seq(Byte)]

ASSUME CodecAssumption ==
    /\ Upgrade \in 4..(Base - 1)
    /\ NamedBips \subseteq 0..(Base * Base - 1)
    /\ MinSize \in 4..WideMax /\ MinSize <= UsizeMax
    /\ WideMax \in Nat
    /\ Plaintexts \subseteq Seq(Byte)
    /\ Lists \subseteq Seq([content : ContentType, data : Seq(Byte)]) \ {<<>>}

EncodeContent(c) ==
    CASE c.type \in {"Bip", "BIP"} -> <<CONTENT_BIP, c.number \div Base, c.number % Base>>
      [] c.type = "Proprietary" -> <<CONTENT_PROPRIETARY>> \o EncodeVarint(Len(c.tag)) \o c.tag
      [] c.type = "String" -> <<CONTENT_STRING>> \o EncodeVarint(0)
      [] c.type = "Foreign" -> <<c.of>> \o EncodeVarint(Len(c.data)) \o c.data

\* mutant: the numbers of the named BIPs are not told apart
BipOfAnyNumber(n) == OtherBip(n)
BipOfNumber(n) == IF n \in NamedBips THEN Bip(n) ELSE OtherBip(n)

RefusedContent(e) == [error |-> e, used |-> 0, content |-> Unknown]
ParsedContent(n, c) == [error |-> "none", used |-> n, content |-> c]

\* a TYPE with a LENGTH: start is where its DATA does
ParseSized(s) ==
    LET length == ParseVarint(Tail(s))
        start == 1 + length.used
        end == start + length.value
    IN  CASE ~length.ok \/ length.value > UsizeMax -> RefusedContent("ContentMetadata")
          [] length.ok /\ length.value <= UsizeMax ->
                CASE end > UsizeMax -> RefusedContent("Increment")
                  [] end <= UsizeMax /\ end > Len(s) -> RefusedContent("Corrupted")
                  [] end <= UsizeMax /\ end <= Len(s) ->
                        CASE s[1] = CONTENT_PROPRIETARY ->
                                ParsedContent(end, Proprietary(SubSeq(s, start + 1, end)))
                          [] s[1] = CONTENT_STRING /\ length.value = 0 -> ParsedContent(end, String)
                          [] s[1] = CONTENT_STRING /\ length.value # 0 ->
                                RefusedContent("ContentMetadata")
                          [] OTHER -> ParsedContent(end, Unknown)

ParseContent(s) ==
    CASE s[1] = CONTENT_END -> RefusedContent("ContentEnd")
      [] s[1] = CONTENT_BIP -> IF Len(s) < 3 THEN RefusedContent("ContentMetadata")
                               ELSE ParsedContent(3, BipOfNumber(s[2] * Base + s[3]))
      [] s[1] \in 2..(Upgrade - 1) -> ParseSized(s)
      [] OTHER -> RefusedContent("ContentMetadata")

-----------------------------------------------------------------------------
(* encode_plaintext                                                        *)

EncodeItem(item) == EncodeContent(item.content) \o EncodeVarint(Len(item.data)) \o item.data
EncodeItems(l) == Concat([i \in DOMAIN l |-> EncodeItem(l[i])], Len(l))

CodecIdle ==
    /\ list = <<>>
    /\ padding = "None"
    /\ fraction = <<MinSize, 1>>
    /\ plaintext = <<>>
    /\ position = 0
    /\ items = <<>>
    /\ outcome = "idle"

CodecInit ==
    /\ \/ /\ list \in Lists
          /\ padding \in {"None", "Geometric"}
          /\ plaintext = EncodeItems(list)
          /\ Len(plaintext) <= UsizeMax
          /\ outcome = "padding"
       \/ /\ list = <<>>
          /\ padding = "None"
          /\ plaintext \in Plaintexts
          /\ outcome = "running"
    /\ fraction = <<MinSize, 1>>
    /\ position = 0
    /\ items = <<>>

Target == fraction[1] \div fraction[2]
TooSmall == padding = "Geometric" /\ Target < Len(plaintext)
Overflows(f) == f[1] * GROWTH_NUMERATOR > WideMax \/ f[2] * GROWTH_DENOMINATOR > WideMax

\* mutant: the target is rounded down before it grows
GrownRounded(f) == <<((f[1] \div f[2]) * GROWTH_NUMERATOR) \div GROWTH_DENOMINATOR, 1>>
Grown(f) == <<f[1] * GROWTH_NUMERATOR, f[2] * GROWTH_DENOMINATOR>>

\* one turn of the loop of geometric_bucket
Grow ==
    /\ outcome = "padding" /\ TooSmall
    /\ IF Overflows(fraction) THEN outcome' = "Padding" /\ UNCHANGED fraction
                              ELSE fraction' = Grown(fraction) /\ UNCHANGED outcome
    /\ UNCHANGED <<list, padding, plaintext, position, items>>

\* padding fills up with CONTENT_END bytes
Filling == IF padding = "Geometric" THEN Target - Len(plaintext) ELSE 0
Pad ==
    /\ outcome = "padding" /\ ~TooSmall
    /\ IF padding = "Geometric" /\ Target > UsizeMax
       THEN outcome' = "Padding" /\ UNCHANGED plaintext
       ELSE /\ plaintext' = plaintext \o [i \in 1..Filling |-> CONTENT_END]
            /\ outcome' = "running"
    /\ UNCHANGED <<list, padding, fraction, position, items>>

-----------------------------------------------------------------------------
(* decode_plaintext                                                        *)

RestOf(o) == SubSeq(plaintext, o + 1, Len(plaintext))

\* the loop stops at the end of the payload or at a zero TYPE
AtEnd == position < Len(plaintext) => plaintext[position + 1] = CONTENT_END

\* mutant: the end of the data is not compared with the end of the payload
DecodeItemUnchecked ==
    LET content == ParseContent(RestOf(position))
        length == ParseVarint(RestOf(position + content.used))
        start == position + content.used + length.used
    IN  /\ outcome = "running" /\ ~AtEnd
        /\ position' = IF content.error = "none" /\ length.ok THEN start + length.value ELSE position
        /\ outcome' = IF content.error # "none" THEN content.error
                      ELSE IF ~length.ok THEN "DataLength" ELSE "running"
        /\ UNCHANGED <<list, padding, fraction, plaintext, items>>
\* one turn of the loop
DecodeItem ==
    LET content == ParseContent(RestOf(position))
        length == ParseVarint(RestOf(position + content.used))
        start == position + content.used + length.used
        end == start + length.value
        error == CASE content.error # "none" -> content.error
                   [] content.error = "none" /\ (~length.ok \/ length.value > UsizeMax) ->
                        "DataLength"
                   [] OTHER -> IF end > UsizeMax THEN "OffsetOverflow"
                               ELSE IF end > Len(plaintext) THEN "Corrupted" ELSE "none"
    IN  /\ outcome = "running" /\ ~AtEnd
        /\ \/ /\ error # "none"
              /\ outcome' = error
              /\ UNCHANGED <<items, position>>
           \/ /\ error = "none"
              /\ items' = Append(items, [content |-> content.content,
                                         data |-> SubSeq(plaintext, start + 1, end)])
              /\ position' = end
              /\ UNCHANGED outcome
        /\ UNCHANGED <<list, padding, fraction, plaintext>>

\* mutant: a zero TYPE does not end the items
DecodeEndsAtLength ==
    /\ outcome = "running" /\ position >= Len(plaintext)
    /\ outcome' = IF items = <<>> THEN "EmptyBytes" ELSE "ok"
    /\ UNCHANGED <<list, padding, fraction, plaintext, position, items>>
DecodeEnds ==
    /\ outcome = "running" /\ AtEnd
    /\ outcome' = IF items = <<>> THEN "EmptyBytes" ELSE "ok"
    /\ UNCHANGED <<list, padding, fraction, plaintext, position, items>>

CodecStep == Grow \/ Pad \/ DecodeItem \/ DecodeEnds

-----------------------------------------------------------------------------
(* Properties                                                              *)

Known(c) == c.type \in {"Bip", "BIP", "Proprietary", "String"}

Encoded == list # <<>> /\ outcome \notin {"padding", "Padding"}

\* Type invariant; the decoder never stands beyond the end of the payload.
CodecTypeOK ==
    /\ plaintext \in Seq(Byte)
    /\ fraction \in (1..WideMax) \X (1..WideMax)
    /\ position \in 0..Len(plaintext)
    /\ \A i \in DOMAIN items : items[i].data \in Seq(Byte)
    /\ outcome \in {"idle", "padding", "running", "ok", "Padding", "EmptyBytes",
                    "ContentMetadata", "Increment", "Corrupted", "DataLength", "OffsetOverflow"}

\* What is encoded is what is decoded, with any padding: a BIP number that has
\* a name comes back under its name, and content of a later version comes back
\* as unknown without hiding the items after it.
Canonical(c) == CASE c.type = "BIP" -> IF c.number \in NamedBips THEN Bip(c.number) ELSE c
                  [] c.type = "Foreign" -> Unknown
                  [] OTHER -> c
ItemsReadBack ==
    Encoded /\ outcome # "running" =>
        /\ outcome = "ok"
        /\ items = [i \in DOMAIN list |-> [content |-> Canonical(list[i].content),
                                           data |-> list[i].data]]

\* The decoder accepts one encoding of each list only: what it has read is the
\* encoding of what it has decoded (minimal integers, no slack).
OneEncoding ==
    (\A i \in DOMAIN items : Known(items[i].content)) =>
        EncodeItems(items) = SubSeq(plaintext, 1, position)

\* MinSize * (5/4)^k rounded down, for the first n of those that WideMax has room for
BucketSizes(n) ==
    LET f[k \in 0..n] ==
            IF k = 0 THEN <<MinSize, 1>>
            ELSE LET f1 == f[k - 1]
                 IN  IF Overflows(f1) THEN f1 ELSE <<5 * f1[1], 4 * f1[2]>>
    IN  {f[k][1] \div f[k][2] : k \in 0..n}

\* The size of a padded payload tells little and costs little: it is one of the
\* sizes of the geometric sequence, though the fraction is rounded down each
\* time it is compared, and less than a quarter longer than the payload unless
\* that is small.  A payload is refused only if no size that can be computed
\* holds it (geometric_bucket, encode_plaintext).
PaddedSizes ==
    LET size == Len(EncodeItems(list))
    IN  padding = "Geometric" =>
            /\ Encoded => /\ Len(plaintext) \in BucketSizes(Len(plaintext))
                          /\ Len(plaintext) = MinSize \/ 4 * Len(plaintext) < 5 * size
            /\ outcome = "Padding" =>
                  \A n \in BucketSizes(size) : n < size \/ n > UsizeMax
=============================================================================
