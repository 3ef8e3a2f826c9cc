--------------------------- MODULE DecryptCommand ---------------------------
(***************************************************************************)
(* `bip138 decrypt` (src/bin/main.rs, Commands::Decrypt with the devices   *)
(* feature), from the decoded backup to its outcome.  Four kinds of thread *)
(* run:                                                                    *)
(*   - main sends the key of the key file, starts the fetch thread, drops  *)
(*     its ends of the channels and waits for one document or error;       *)
(*   - the worker tries every key it receives until one opens the backup;  *)
(*   - the fetch thread runs XpubCollector and sends each xpub it gets;    *)
(*   - each device call is a thread of the collector.                      *)
(* They share the stop flag, the channel of keys and the channel of        *)
(* documents.  When main ends the process does, and every thread with it.  *)
(***************************************************************************)
EXTENDS XpubCollector

CONSTANTS
    FileKeys,     \* the keys a key file may hold
    NoFile,       \* there is no key file
    BadFile,      \* the key file holds a key that is not an xpub
    Backups       \* the backups: recipients, and whether their content can be read

VARIABLES
    fileKey,      \* what the key file held
    backup,       \* the decoded backup
    mpc, wpc, fpc,  \* control states of main, the worker and the fetch thread
    stop,         \* the shared flag
    keys,         \* the channel of keys
    documents,    \* the channel of documents and errors
    trying,       \* the key the worker holds
    sawKey,       \* the worker's saw_key
    result,       \* what main received
    lateCalls     \* history: device calls started after stop was set

threadVars == <<mpc, wpc, fpc>>
channelVars == <<stop, keys, documents>>
workVars == <<trying, sawKey>>
vars == <<collectVars, fileKey, backup, threadVars, channelVars, workVars, result, lateCalls>>

AllKeys == FileKeys \cup {XpubAt[p] : p \in DerivPaths}

ASSUME CommandAssumption ==
    /\ NoFile \notin AllKeys /\ BadFile \notin AllKeys /\ NoFile # BadFile
    /\ Backups \subseteq [to : SUBSET AllKeys, readable : BOOLEAN]

Init ==
    /\ CollectInit
    /\ fileKey \in FileKeys \cup {NoFile, BadFile}
    /\ backup \in Backups
    /\ mpc = "send_file" /\ wpc = "receive" /\ fpc = "unborn"
    /\ stop = FALSE
    /\ keys = <<>>
    /\ documents = <<>>
    /\ trying = NoFile
    /\ sawKey = FALSE
    /\ result = "none"
    /\ lateCalls = 0

Alive == mpc # "exited"

\* key_tx.send: fails when the receiver, the worker's, is gone
SendKey(k) ==
    IF wpc = "ended" THEN stop' = TRUE /\ UNCHANGED keys
                     ELSE keys' = Append(keys, k) /\ UNCHANGED stop

-----------------------------------------------------------------------------
(* main                                                                    *)

SendFileKey ==
    /\ mpc = "send_file"
    /\ \/ /\ fileKey = BadFile          \* dpk_to_root_pk fails: main returns
          /\ result' = "InvalidKey"
          /\ mpc' = "exited"
          /\ UNCHANGED <<stop, keys>>
       \/ /\ fileKey = NoFile
          /\ mpc' = "spawn_fetch"
          /\ UNCHANGED <<result, stop, keys>>
       \/ /\ fileKey \in FileKeys
          /\ SendKey(fileKey)
          /\ mpc' = "spawn_fetch"
          /\ UNCHANGED result
    /\ UNCHANGED <<collectVars, fileKey, backup, wpc, fpc, documents, workVars, lateCalls>>

SpawnFetch ==
    /\ mpc = "spawn_fetch"
    /\ fpc' = "begin"
    /\ mpc' = "drop"
    /\ UNCHANGED <<collectVars, fileKey, backup, wpc, channelVars, workVars, result, lateCalls>>

\* drop(key_tx) and drop(document_tx)
DropSenders ==
    /\ mpc = "drop"
    /\ mpc' = "receive"
    /\ UNCHANGED <<collectVars, fileKey, backup, wpc, fpc, channelVars, workVars, result,
                   lateCalls>>

\* main has dropped its sender too by the time it receives
NoDocumentSender == wpc = "ended" /\ fpc = "ended"

\* mutant: main waits for the fetch thread first
ReceiveAfterFetch ==
    /\ mpc = "receive" /\ fpc = "ended" /\ documents # <<>>
    /\ result' = Head(documents)
    /\ documents' = Tail(documents)
    /\ mpc' = "set_stop"
    /\ UNCHANGED <<collectVars, fileKey, backup, wpc, fpc, stop, keys, workVars, lateCalls>>
ReceiveDocument ==
    /\ mpc = "receive"
    /\ documents # <<>> \/ NoDocumentSender
    /\ result' = IF documents # <<>> THEN Head(documents) ELSE "NoKeys"
    /\ documents' = IF documents # <<>> THEN Tail(documents) ELSE documents
    /\ mpc' = "set_stop"
    /\ UNCHANGED <<collectVars, fileKey, backup, wpc, fpc, stop, keys, workVars, lateCalls>>

SetStop ==
    /\ mpc = "set_stop"
    /\ stop' = TRUE
    /\ mpc' = "output"
    /\ UNCHANGED <<collectVars, fileKey, backup, wpc, fpc, keys, documents, workVars, result,
                   lateCalls>>

\* write the document, or return the error: the process ends
Output ==
    /\ mpc = "output"
    /\ mpc' = "exited"
    /\ UNCHANGED <<collectVars, fileKey, backup, wpc, fpc, channelVars, workVars, result,
                   lateCalls>>

Main == SendFileKey \/ SpawnFetch \/ DropSenders \/ ReceiveDocument \/ SetStop \/ Output

-----------------------------------------------------------------------------
(* The worker                                                              *)

NoKeySender == mpc \notin {"send_file", "spawn_fetch", "drop"} /\ fpc = "ended"

TakeKey ==
    /\ wpc = "receive" /\ Alive
    /\ \/ /\ keys # <<>>
          /\ trying' = Head(keys)
          /\ keys' = Tail(keys)
          /\ wpc' = "check"
       \/ /\ keys = <<>> /\ NoKeySender
          /\ wpc' = "no_more"
          /\ UNCHANGED <<trying, keys>>
    /\ UNCHANGED <<collectVars, fileKey, backup, mpc, fpc, stop, documents, sawKey, result,
                   lateCalls>>

CheckStop ==
    /\ wpc = "check" /\ Alive
    /\ wpc' = IF stop THEN "no_more" ELSE "try"
    /\ sawKey' = (sawKey \/ ~stop)
    /\ UNCHANGED <<collectVars, fileKey, backup, mpc, fpc, channelVars, trying, result,
                   lateCalls>>

\* mutant: any error of decrypt ends the search
TryLastKey ==
    /\ wpc = "try" /\ Alive
    /\ stop' = TRUE
    /\ wpc' = "answer"
    /\ UNCHANGED <<collectVars, fileKey, backup, mpc, fpc, keys, documents, workVars, result,
                   lateCalls>>
\* decrypt with this key alone: WrongKey goes on, anything else ends the search
TryKey ==
    /\ wpc = "try" /\ Alive
    /\ IF trying \in backup.to
       THEN /\ stop' = TRUE
            /\ wpc' = "answer"
       ELSE /\ wpc' = "receive"
            /\ UNCHANGED stop
    /\ UNCHANGED <<collectVars, fileKey, backup, mpc, fpc, keys, documents, workVars, result,
                   lateCalls>>

WorkerAnswer ==
    /\ wpc = "answer" /\ Alive
    /\ documents' = Append(documents, IF backup.readable THEN "document" ELSE "Unreadable")
    /\ wpc' = "ended"
    /\ UNCHANGED <<collectVars, fileKey, backup, mpc, fpc, stop, keys, workVars, result,
                   lateCalls>>

\* after the loop: the negative answer, unless somebody has set stop
NoMoreKeys ==
    /\ wpc = "no_more" /\ Alive
    /\ wpc' = IF stop THEN "ended" ELSE "give_up"
    /\ UNCHANGED <<collectVars, fileKey, backup, mpc, fpc, channelVars, workVars, result,
                   lateCalls>>

GiveUp ==
    /\ wpc = "give_up" /\ Alive
    /\ documents' = Append(documents, IF sawKey THEN "WrongKey" ELSE "NoKeys")
    /\ wpc' = "ended"
    /\ UNCHANGED <<collectVars, fileKey, backup, mpc, fpc, stop, keys, workVars, result,
                   lateCalls>>

Worker == TakeKey \/ CheckStop \/ TryKey \/ WorkerAnswer \/ NoMoreKeys \/ GiveUp

-----------------------------------------------------------------------------
(* The fetch thread and the device calls                                   *)

mainVars == <<fileKey, backup, mpc, wpc, documents, workVars, result>>

FetchBegin ==
    /\ fpc = "begin" /\ Alive
    /\ IF stop THEN /\ fpc' = "ended"
                    /\ UNCHANGED stage
               ELSE /\ fpc' = "collect"
                    /\ stage' = "list"
    /\ UNCHANGED <<kind, envelope, todo, at, running, reply, fetched, warned, stop, keys,
                   lateCalls, mainVars>>

FetchList(k) ==
    /\ Alive /\ List(k)
    /\ UNCHANGED <<fpc, stop, keys, lateCalls, mainVars>>

\* mutant: should_stop is not asked
FetchAlways ==
    /\ Alive /\ Check(FALSE)
    /\ UNCHANGED <<fpc, stop, keys, lateCalls, mainVars>>
FetchCheck ==
    /\ Alive /\ Check(stop)
    /\ UNCHANGED <<fpc, stop, keys, lateCalls, mainVars>>

FetchCall ==
    /\ Alive /\ Spawn
    /\ lateCalls' = lateCalls + (IF stop THEN 1 ELSE 0)
    /\ UNCHANGED <<fpc, stop, keys, mainVars>>

\* the on_xpub of the command sends the key to the worker
FetchXpub ==
    /\ Alive /\ TakeXpub
    /\ SendKey(reply[at].key)
    /\ UNCHANGED <<fpc, lateCalls, mainVars>>

FetchOther ==
    /\ Alive
    /\ Unlocked \/ Miss
    /\ UNCHANGED <<fpc, stop, keys, lateCalls, mainVars>>

FetchDone ==
    /\ fpc = "collect" /\ stage = "done" /\ Alive
    /\ fpc' = "ended"
    /\ UNCHANGED <<collectVars, stop, keys, lateCalls, mainVars>>

\* mutant: the failure is not reported
FetchFailedSilently ==
    /\ fpc = "collect" /\ stage = "failed" /\ Alive
    /\ stop' = TRUE
    /\ fpc' = "ended"
    /\ UNCHANGED <<collectVars, keys, lateCalls, mainVars>>
FetchFailed ==
    /\ fpc = "collect" /\ stage = "failed" /\ Alive
    /\ stop' = TRUE
    /\ fpc' = "report"
    /\ UNCHANGED <<collectVars, keys, lateCalls, mainVars>>

FetchReport ==
    /\ fpc = "report" /\ Alive
    /\ documents' = Append(documents, "FailedToFetchXpub")
    /\ fpc' = "ended"
    /\ UNCHANGED <<collectVars, fileKey, backup, mpc, wpc, stop, keys, workVars, result,
                   lateCalls>>

Listing == \E k \in Kinds \cup {NoDevice} : FetchList(k)

Fetch ==
    \/ FetchBegin
    \/ FetchCheck \/ FetchCall \/ FetchXpub \/ FetchOther
    \/ FetchDone \/ FetchFailed \/ FetchReport

DeviceAnswer ==
    /\ Alive
    /\ \E c \in running : \E r \in Answers(c) : Answer(c, r)
    /\ UNCHANGED <<fpc, stop, keys, lateCalls, mainVars>>

Next == Main \/ Worker \/ Listing \/ Fetch \/ DeviceAnswer

Spec == Init /\ [][Next]_vars

\* The threads of the command are scheduled and the time limits of the device
\* calls expire; a device need not ever answer.  Listing the devices has no time
\* limit and may wait for the user for ever.
FairSpec == Spec /\ WF_vars(Main) /\ WF_vars(Worker) /\ WF_vars(Fetch)

-----------------------------------------------------------------------------
(* Properties                                                              *)

Outcomes == {"document", "Unreadable", "WrongKey", "NoKeys", "FailedToFetchXpub"}

\* Type invariant of the command.
TypeOK ==
    /\ CollectTypeOK
    /\ fileKey \in FileKeys \cup {NoFile, BadFile}
    /\ backup \in Backups
    /\ mpc \in {"send_file", "spawn_fetch", "drop", "receive", "set_stop", "output", "exited"}
    /\ wpc \in {"receive", "check", "try", "answer", "no_more", "give_up", "ended"}
    /\ fpc \in {"unborn", "begin", "collect", "report", "ended"}
    /\ stop \in BOOLEAN
    /\ keys \in Seq(AllKeys)
    /\ documents \in Seq(Outcomes)
    /\ trying \in AllKeys \cup {NoFile}
    /\ sawKey \in BOOLEAN
    /\ result \in Outcomes \cup {"none", "InvalidKey"}
    /\ lateCalls \in Nat

\* Main always receives a message: the stop flag never makes the worker and the
\* fetch thread both end without having said anything, which main would report
\* as NoKeys whatever happened.
NeverSilent == mpc = "receive" /\ NoDocumentSender => documents # <<>>

\* Once the flag is set the user is not asked for more than the one device call
\* that was about to start (the should_stop of collect_until).
StopHonoured == lateCalls <= 1

\* The command ends though devices may never answer; only a listing that never
\* returns keeps it waiting, and not when the key file opens the backup ("a
\* device call may still be pending on the fetch thread: it is left behind once
\* a document is in").
ListingHangs == fpc = "collect" /\ stage = "list"
CommandEnds == <>(mpc = "exited") \/ (fileKey \notin backup.to /\ <>[]ListingHangs)

\* README.md: the descriptor can be decrypted when at least one key is
\* present, via a local file or a signing device; devices are not mandatory.
FileKeySuffices ==
    fileKey \in backup.to /\ backup.readable /\ mpc = "exited" => result = "document"

\* The threads together are a key hunt with one outcome: a document from a key
\* that was offered, or a negative answer when all keys were tried and none
\* opens the backup, however the channels and the flag interleave.
Offered == {f[2] : f \in fetched}
           \cup (IF mpc # "send_file" /\ fileKey \in FileKeys THEN {fileKey} ELSE {})
Hunt == INSTANCE KeyHunt WITH
    OfferedKeys <- AllKeys, Sealings <- Backups,
    sealing <- backup, offered <- Offered, outcome <- result
KeyHuntSpec == Hunt!HuntSpec
=============================================================================
