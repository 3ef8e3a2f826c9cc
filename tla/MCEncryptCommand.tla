-------------------------- MODULE MCEncryptCommand --------------------------
(* Small instance of EncryptCommand: up to three levels, a descriptor that    *)
(* exposes one of its keys, a key without origin, two keys with one x         *)
(* coordinate; command lines that are typed, and some with a pipe.            *)
EXTENDS EncryptCommand

CONSTANTS a, a2, b, c, nums, bare, p, q

MCPublicKeys == {a, a2, b, c, nums, bare}
MCXOnly == [k \in MCPublicKeys |-> CASE k \in {a, a2} -> "xa" [] k = b -> "xb" [] k = c -> "xc"
                                        [] k = nums -> "xn" [] k = bare -> "xr"]
MCOriginPath == [k \in MCPublicKeys \ {bare} |-> IF k \in {a, a2} THEN p ELSE q]
MCDeviceKeyAt == [x \in {p, q} |-> IF x = p THEN b ELSE a]
MCContents == {"Unknown", "Bip380", "Bip138", "String"}
MCParsed == [x \in MCContents |-> "value"]

hidden == [content |-> "Bip380", data |-> Text("c/*,a/*"), keys |-> {a, c},
           keyPaths |-> {<<a, p>>, <<c, q>>}, warnings |-> {}, exposed |-> {}]
literal == [content |-> "Bip380", data |-> Text("a,c/*"), keys |-> {c}, keyPaths |-> {<<c, q>>},
            warnings |-> {}, exposed |-> {"xa"}]

Lines == {[note |-> n, keys |-> ks] : n \in {NoText, "note"}, ks \in {{a2, b}, {b}, {a}, {nums}}}
BadLines == {[note |-> NoText, keys |-> {}], [note |-> NoText, keys |-> {a, bare}]}
Levels == {<<l>> : l \in Lines \cup BadLines} \cup (Lines \X Lines)
          \cup {<<l, m, n>> : l \in {x \in Lines : x.keys = {b}}, m \in Lines, n \in Lines}
Keys(levels) == [keys |-> levels]
Msg == [msg |-> "msg"]
Device(path) == [device |-> path]

Typed(words) == [typed |-> words, terminal |-> TRUE, piped |-> <<>>]
Piped(words, lines) == [typed |-> words, terminal |-> FALSE, piped |-> lines]
oneLevel == Keys(<<[note |-> NoText, keys |-> {b}]>>)
twoLevels == Keys(<<[note |-> NoText, keys |-> {b}], [note |-> NoText, keys |-> {a}]>>)
MCCommandLines ==
    {Typed(words) : words \in {<<>>, <<Msg>>} \cup {<<Keys(l)>> : l \in Levels}
                             \cup {<<Keys(l), Msg>> : l \in Levels}}
    \cup {Typed(<<Device(d)>> \o words) : d \in {FirstKey, p, q}, words \in {<<>>, <<Msg>>, <<oneLevel>>}}
    \cup {Piped(<<>>, <<Line(<<twoLevels>>), Line(<<Msg>>)>>), Piped(<<Msg>>, <<Line(<<>>), Line(<<oneLevel>>)>>),
          Piped(<<Msg>>, <<Line(<<Msg>>)>>), Piped(<<oneLevel>>, <<Line(<<Msg>>), NotUtf8>>),
          Piped(<<>>, <<>>), Piped(<<oneLevel>>, <<Line(<<Device(p)>>)>>)}
MCDocuments == {hidden, literal}
MCHolders == {{a}, {a2, b}, {b, c}, {nums, c}}
=============================================================================
