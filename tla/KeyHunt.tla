------------------------------- MODULE KeyHunt -------------------------------
(***************************************************************************)
(* What the decrypt command promises (src/bin/main.rs): keys are offered   *)
(* one after the other, from a file and from a signing device, and the     *)
(* command has exactly one outcome.  It is the document if one of the keys *)
(* offered so far opens the backup; it is WrongKey, or NoKeys, only if no  *)
(* key that was or will be offered opens it.                               *)
(***************************************************************************)
CONSTANTS OfferedKeys,  \* every key that may be offered
          Sealings      \* the backups: recipients, and whether their content can be read

VARIABLES sealing,      \* the backup
          offered,      \* the keys offered so far
          outcome       \* what the command ends with

huntVars == <<sealing, offered, outcome>>

HuntInit ==
    /\ sealing \in Sealings
    /\ offered = {}
    /\ outcome = "none"

Offer(k) ==
    /\ outcome \notin {"WrongKey", "NoKeys"}
    /\ offered' = offered \cup {k}
    /\ UNCHANGED <<sealing, outcome>>

Found ==
    /\ outcome = "none"
    /\ offered \cap sealing.to # {}
    /\ outcome' = IF sealing.readable THEN "document" ELSE "Unreadable"
    /\ UNCHANGED <<sealing, offered>>

NotFound ==
    /\ outcome = "none"
    /\ offered \cap sealing.to = {}
    /\ outcome' = IF offered = {} THEN "NoKeys" ELSE "WrongKey"
    /\ UNCHANGED <<sealing, offered>>

\* the key file has no xpub, or the device failed
SourceFails ==
    /\ outcome = "none"
    /\ outcome' \in {"InvalidKey", "FailedToFetchXpub"}
    /\ UNCHANGED <<sealing, offered>>

HuntNext ==
    \/ \E k \in OfferedKeys : Offer(k)
    \/ Found
    \/ NotFound
    \/ SourceFails

HuntSpec == HuntInit /\ [][HuntNext]_huntVars
=============================================================================
