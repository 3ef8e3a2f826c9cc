-------------------------- MODULE MCDecryptCommand --------------------------
(* Small instance of DecryptCommand: a Ledger and a BitBox02, three common   *)
(* paths (purposes 44, 48 and 87), one path of the backup that is not        *)
(* common, one key per path and one key of the file.                         *)
EXTENDS DecryptCommand

CONSTANTS f, k44, k48, k87, kown

MCPaths == 1..4
MCPurpose == <<44, 48, 87, 99>>
MCXpubAt == <<k44, k48, k87, kown>>
MCCommon == {1, 2, 3}
MCEnvelopes == {<<>>, <<4, 3>>}
MCOrdering == <<48, 84, 86>>
MCBackups ==
    {[to |-> {f}, readable |-> TRUE], [to |-> {kown, k87}, readable |-> TRUE],
     [to |-> {f, k48}, readable |-> FALSE]}
=============================================================================
