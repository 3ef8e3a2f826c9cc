---------------------------- MODULE MCBackupCore ----------------------------
(* Small instance of BackupCore: five keys and the NUMS point, counts capped *)
(* at four, buckets 3 and 4, two distinct random outputs.                  *)
EXTENDS BackupCore

CONSTANTS k1, k2, k3, k4, k5, nums, stored, common, rootPath, longPath, e1, e2

MCKeys == {k1, k2, k3, k4, k5, nums}
MCPaths == {stored, common, rootPath, longPath}
MCCommonPaths == {common}
MCChildCount == [p \in MCPaths |-> CASE p = rootPath -> 0 [] p = longPath -> 5 [] OTHER -> 2]
MCReaders == {k1, k2, nums}
MCEntropy == {e1, e2}
MCPaddedSizes == {8, 10}

item == [content |-> "BIP380", size |-> 3]
note == [content |-> "String", size |-> 2]

Base == [keys |-> {k1}, paths |-> {stored, common}, storeCommon |-> FALSE,
         items |-> <<item>>, padding |-> "geometric", supplied |-> FALSE,
         nonce |-> Zero, decoys |-> <<>>]

\* what each argument may be, the other arguments being those of Base
KeySets == {{}, {nums}, {k2, nums}, {k1, k3}, {k1, k2, k3, k4}, {k1, k3, k4, k5, nums},
            {k1, k2, k3, k4, k5}}
PathSets == {{}, {common}, {stored, rootPath}, {stored, longPath}}
Lists == {<<>>, <<note, item>>, <<item, item, item>>, <<item, [content |-> "None", size |-> 1]>>,
          <<[content |-> "String", size |-> 0]>>, <<[content |-> "Unknown", size |-> 20], note>>}
DecoyLists == {<<>>, <<Random(e1)>>, <<Random(e1), Random(e2)>>, <<Random(e2), Random(e2)>>,
               <<Random(e1), Zero>>}

MCRequests ==
    {Base, [Base EXCEPT !.storeCommon = TRUE], [Base EXCEPT !.paths = MCPaths \ {rootPath, longPath}]}
    \cup {[Base EXCEPT !.keys = ks] : ks \in KeySets}
    \cup {[Base EXCEPT !.paths = ps] : ps \in PathSets}
    \cup {[Base EXCEPT !.items = is, !.padding = p] : is \in Lists, p \in {"none", "geometric"}}
    \cup {[Base EXCEPT !.supplied = TRUE, !.nonce = n, !.decoys = ds] :
             n \in {Zero, Random(e2)}, ds \in DecoyLists}
    \cup {[Base EXCEPT !.keys = {k1, k2, k3, nums}, !.supplied = TRUE, !.nonce = Random(e2)]}
=============================================================================
