------------------------------ MODULE MCDecoders ------------------------------
(* Small instance of Decoders: twelve byte values, so that integers of one,   *)
(* two, four and eight bytes all occur.  Of a backup, fields of two bytes,    *)
(* every cut, appended payloads and trailing bytes, and every string of up to *)
(* four bytes after a magic and a version; of a plaintext, every string of up *)
(* to four bytes over an alphabet with each TYPE and each marker; and some    *)
(* longer ones of both.                                                       *)
EXTENDS Decoders

MCMagic == <<7, 8>>
MCPaths == {{}, {<<<<1, 0>>>>}, {<<<<1, 0>>, <<0, 2>>>>, <<<<1, 0>>>>}, {<<>>}}
MCSecrets == {{}, {<<1, 1>>}, {<<0, 3>>, <<1, 1>>}}
MCPayload(n) == [nonce |-> <<0, 4>>, text |-> [i \in 1..n |-> i % 5]]
MCPayloads == {<<MCPayload(n)>> : n \in {0, 3, 9}} \cup {<<MCPayload(3), MCPayload(9)>>,
                                                        <<MCPayload(1), MCPayload(1), MCPayload(2)>>}
MCSources == [paths : MCPaths, secrets : MCSecrets, encryption : {1, 2}, payloads : MCPayloads]
MCTrailers == {<<>>, <<0>>, <<0, 0, 0, 0>>, <<1, 1>>, <<1, 1, 1, 1, 1>>, <<1, 1, 9>>, <<1, 1, 8, 0>>}
Start == MCMagic \o <<1>>
MCStrings ==
    UNION {{Start \o s : s \in [1..n -> {0, 1, 2, 9}]} : n \in 0..4}
    \cup {Start \o <<0, 1, 5, 5>> \o s : s \in UNION {[1..n -> {0, 1, 2, 9}] : n \in 0..5}}
    \cup {Start \o <<0, 1, 5, 5, 1, 1, 1>> \o s :
             s \in {<<11, 0, 0, 0, 0, 1, 0, 0, 0>>, <<10, 11, 11, 11, 11>>, <<10, 8, 11, 11, 11>>,
                    <<9, 3, 0, 1, 1, 1>>, <<9, 9, 0, 1>>, <<0>>, <<0, 1>>}}
    \cup {<<>>, <<7>>, <<7, 8>>, <<8, 7, 1, 1>>, <<7, 8, 0, 1>>, <<7, 8, 2, 1>>}

Data(n) == [i \in 1..n |-> i % Base]
MCContents == {Bip(5), OtherBip(5), OtherBip(17), Proprietary(<<>>), Proprietary(Data(10)), String,
               Foreign(4, <<>>), Foreign(5, Data(9))}
MCItems(sizes) == {[content |-> c, data |-> Data(n)] : c \in MCContents, n \in sizes}
MCLists == (MCItems({8}) \X MCItems({0, 9}))
             \cup {<<i>> : i \in MCItems({1, 9})} \cup {<<[content |-> String, data |-> Data(150)]>>}
MCPlaintexts == UNION {[1..n -> {0, 1, 2, 3, 4, 6, 9, 10}] : n \in 0..4}
             \cup {<<1, 0, 5, 11, 1, 0, 0, 0, 1, 0, 0, 0>>, <<3, 0, 11, 0, 0, 0, 0, 1, 0, 0, 0>>,
                   <<2, 11, 0, 0, 0, 0, 1, 0, 0, 0>>, <<3, 0, 10, 11, 11, 11, 11>>,
                   <<2, 10, 11, 11, 11, 11>>,
                   <<3, 9, 0, 0, 0>>, <<3, 0, 9, 1, 0, 7>>, <<1, 0, 5, 10, 1, 0, 0, 0, 7>>,
                   <<3, 0, 9, 9, 0, 1, 2, 3, 4, 5, 6, 7, 8, 9>>}
=============================================================================
