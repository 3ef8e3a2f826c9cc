----------------------------- MODULE MCDeviceKey -----------------------------
(* Small instance of DeviceKey: a Ledger and a BitBox02, three common paths   *)
(* (purposes 44, 48 and 87), one path that is not common, three commands.     *)
EXTENDS DeviceKey

CONSTANTS k44, k48, k87, kown

MCPaths == 1..4
MCPurpose == <<44, 48, 87, 99>>
MCXpubAt == <<k44, k48, k87, kown>>
MCCommon == {1, 2, 3}
MCEnvelopes == {<<>>, <<4, 3>>}
MCOrdering == <<48, 84, 86>>
=============================================================================
