---------------------------- MODULE SealedBackup ----------------------------
(***************************************************************************)
(* What one BIP138 backup promises, whatever its wire format: it is sealed *)
(* once, to a non-empty set of recipient keys, and from then on the holder *)
(* of a recipient key reads exactly the items that were sealed and anybody *)
(* else is told that the key is wrong.  The encryption may also refuse.    *)
(* BackupCore implements this with individual secrets, decoys and scans.   *)
(***************************************************************************)
EXTENDS Naturals, Sequences

CONSTANTS Holders,      \* the keys somebody tries on the backup
          Recipients,   \* every key a backup can be sealed to
          ItemLists     \* the lists of content items that can be sealed

VARIABLES box,          \* the sealed backup, if any
          answer        \* what each holder was told

boxVars == <<box, answer>>

Untold == [says |-> "nothing", items |-> <<>>]
WrongKey == [says |-> "wrong_key", items |-> <<>>]
Read(items) == [says |-> "items", items |-> items]

Empty == [is |-> "empty", to |-> {}, items |-> <<>>]
Refused == [is |-> "refused", to |-> {}, items |-> <<>>]
Sealed(to, items) == [is |-> "sealed", to |-> to, items |-> items]

BoxInit ==
    /\ box = Empty
    /\ answer = [k \in Holders |-> Untold]

Seal(to, items) ==
    /\ box = Empty
    /\ to # {}
    /\ box' = Sealed(to, items)
    /\ UNCHANGED answer

Refuse ==
    /\ box = Empty
    /\ box' = Refused
    /\ UNCHANGED answer

Open(k) ==
    /\ box.is = "sealed"
    /\ answer[k] = Untold
    /\ answer' = [answer EXCEPT ![k] = IF k \in box.to THEN Read(box.items)
                                                       ELSE WrongKey]
    /\ UNCHANGED box

BoxNext ==
    \/ \E to \in SUBSET Recipients, items \in ItemLists : Seal(to, items)
    \/ Refuse
    \/ \E k \in Holders : Open(k)

BoxSpec == BoxInit /\ [][BoxNext]_boxVars
=============================================================================
