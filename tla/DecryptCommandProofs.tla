------------------------ MODULE DecryptCommandProofs ------------------------
(***************************************************************************)
(* Theorems about DecryptCommand: any key file, any device and any backup, *)
(* however the threads of the command interleave.                          *)
(*                                                                         *)
(* The answers in the channel of documents are true when they are sent and *)
(* stay true: a document was opened by a key that was offered, and a       *)
(* negative answer is sent by the worker once nobody can send a key.  No   *)
(* answer is lost: whoever sets the stop flag has sent one or is about to. *)
(***************************************************************************)
EXTENDS DecryptCommand, XpubCollectorProofs

\* the control states of the threads and of the collector go together
Control ==
    /\ mpc \in {"send_file", "spawn_fetch"} => fpc = "unborn"
    /\ mpc \in {"send_file", "spawn_fetch", "drop", "receive"} => result = "none"
    /\ fpc \in {"unborn", "begin"} => stage = "off"
    /\ fpc = "collect" => stage # "off"
    /\ fpc \in {"report", "ended"} => stage \in {"off", "done", "failed"}
    /\ wpc = "try" => sawKey

\* a call that starts after the flag is set is the last one
Late == lateCalls # 0 => lateCalls = 1 /\ stop /\ stage \notin {"off", "list", "spawn"}

\* the flag is set, and the worker ends, only with an answer sent or to be sent
Spoken ==
    mpc \in {"send_file", "spawn_fetch", "drop", "receive"} /\ (stop \/ wpc = "ended")
        => documents # <<>> \/ wpc = "answer" \/ fpc = "report"

\* the worker holds keys that were offered
KeysOffered ==
    /\ \A i \in DOMAIN keys : keys[i] \in Offered
    /\ wpc \in {"check", "try", "answer"} => trying \in Offered
    /\ wpc = "answer" => trying \in backup.to
    /\ sawKey => Offered # {}

\* nobody can offer a key any more, and none that was offered opens the backup
Exhausted == NoKeySender /\ Offered \cap backup.to = {} /\ (Offered # {} => sawKey)

\* keys that were offered are in the channel, in the worker's hands, or tried
Searching ==
    /\ wpc \in {"receive", "check", "try"} =>
          \A k \in Offered : \/ \E i \in DOMAIN keys : keys[i] = k
                             \/ wpc \in {"check", "try"} /\ k = trying
                             \/ sawKey /\ k \notin backup.to
    /\ wpc = "no_more" => stop \/ Exhausted
    /\ wpc = "give_up" => Exhausted

\* what an answer says is true
TrueAnswer(d) ==
    /\ d \in {"document", "Unreadable"} =>
          Offered \cap backup.to # {} /\ (d = "document" <=> backup.readable)
    /\ d \in {"WrongKey", "NoKeys"} =>
          /\ NoKeySender /\ Offered \cap backup.to = {}
          /\ d = "WrongKey" <=> Offered # {}

AnswersTrue ==
    /\ \A i \in DOMAIN documents : TrueAnswer(documents[i])
    /\ result \in {"WrongKey", "NoKeys"} => NoKeySender

\* The inductive invariant.
CommandInv ==
    /\ CollectInv /\ TypeOK
    /\ Control
    /\ Late
    /\ Spoken
    /\ KeysOffered
    /\ Searching
    /\ AnswersTrue

-----------------------------------------------------------------------------
(* The channels and the keys that were offered                             *)

\* What is in a channel after a send.
LEMMA Sent ==
    ASSUME NEW S, NEW s \in Seq(S), NEW x \in S
    PROVE  /\ Append(s, x) \in Seq(S) /\ Append(s, x) # <<>>
           /\ \A i \in DOMAIN Append(s, x) :
                 Append(s, x)[i] = x \/ \E j \in DOMAIN s : Append(s, x)[i] = s[j]
           /\ \E i \in DOMAIN Append(s, x) : Append(s, x)[i] = x
           /\ \A j \in DOMAIN s : \E i \in DOMAIN Append(s, x) : Append(s, x)[i] = s[j]
<1>1. /\ Len(s) \in Nat /\ DOMAIN s = 1..Len(s)
      /\ DOMAIN Append(s, x) = 1..(Len(s) + 1)
      /\ \A i \in 1..Len(s) : Append(s, x)[i] = s[i]
      /\ Append(s, x)[Len(s) + 1] = x
      /\ Append(s, x) \in Seq(S) /\ Len(Append(s, x)) = Len(s) + 1
    OBVIOUS
<1>2. Append(s, x) # <<>>
    BY <1>1
<1>3. \A i \in 1..(Len(s) + 1) : i = Len(s) + 1 \/ i \in 1..Len(s)
    BY <1>1
<1>4. Len(s) + 1 \in 1..(Len(s) + 1) /\ \A j \in 1..Len(s) : j \in 1..(Len(s) + 1)
    BY <1>1
<1> QED
    BY <1>1, <1>2, <1>3, <1>4

\* What is in a channel after a receive.
LEMMA Received ==
    ASSUME NEW S, NEW s \in Seq(S), s # <<>>
    PROVE  /\ Head(s) \in S /\ Tail(s) \in Seq(S)
           /\ \E i \in DOMAIN s : s[i] = Head(s)
           /\ \A i \in DOMAIN Tail(s) : \E j \in DOMAIN s : Tail(s)[i] = s[j]
           /\ \A j \in DOMAIN s : s[j] = Head(s) \/ \E i \in DOMAIN Tail(s) : Tail(s)[i] = s[j]
<1>1. /\ Len(s) \in Nat /\ Len(s) # 0 /\ DOMAIN s = 1..Len(s)
      /\ Head(s) = s[1] /\ DOMAIN Tail(s) = 1..(Len(s) - 1)
      /\ \A i \in 1..(Len(s) - 1) : Tail(s)[i] = s[i + 1]
      /\ Tail(s) \in Seq(S) /\ Head(s) \in S
    OBVIOUS
<1>2. 1 \in DOMAIN s /\ \A i \in 1..(Len(s) - 1) : i + 1 \in 1..Len(s)
    BY <1>1
<1>3. \A j \in 1..Len(s) : j = 1 \/ (j - 1 \in 1..(Len(s) - 1) /\ (j - 1) + 1 = j)
    BY <1>1
<1>4. ASSUME NEW j \in DOMAIN s
      PROVE  s[j] = Head(s) \/ \E i \in DOMAIN Tail(s) : Tail(s)[i] = s[j]
    <2>1. CASE j = 1
        BY <1>1, <2>1
    <2>2. CASE j - 1 \in 1..(Len(s) - 1) /\ (j - 1) + 1 = j
        BY <1>1, <2>2
    <2> QED
        BY <1>1, <1>3, <2>1, <2>2
<1> QED
    BY <1>1, <1>2, <1>4

\* Keys that are offered are keys.
LEMMA OfferedType ==
    ASSUME CollectInv, TypeOK
    PROVE  Offered \in SUBSET AllKeys
BY DEF CollectInv, CollectTypeOK, TypeOK, Offered, AllKeys

\* Keys are offered by two steps only.
LEMMA OfferedStays ==
    ASSUME fetched' = fetched, fileKey' = fileKey,
           mpc' = mpc \/ (mpc # "send_file" /\ mpc' # "send_file")
    PROVE  Offered' = Offered
BY DEF Offered

\* A key is sent to the worker, unless the worker has ended.
LEMMA KeySent ==
    ASSUME CommandInv, NEW k \in AllKeys, SendKey(k), Offered' = Offered \cup {k}, ~NoKeySender,
           wpc' = wpc, trying' = trying, sawKey' = sawKey, backup' = backup
    PROVE  /\ keys' \in Seq(AllKeys) /\ stop' \in BOOLEAN
           /\ (stop => stop') /\ (stop' => stop \/ wpc = "ended")
           /\ KeysOffered' /\ Searching'
<1>0. keys \in Seq(AllKeys) /\ stop \in BOOLEAN
    BY DEF CommandInv, TypeOK
<1>1. CASE wpc = "ended"
    <2>1. keys' = keys /\ stop' = TRUE
        BY <1>1 DEF SendKey
    <2> QED
        BY <1>0, <1>1, <2>1 DEF CommandInv, KeysOffered, Searching
<1>2. CASE wpc # "ended"
    <2>1. keys' = Append(keys, k) /\ stop' = stop
        BY <1>2 DEF SendKey
    <2>2. KeysOffered'
        <3>1. \A i \in DOMAIN keys' : keys'[i] \in Offered'
            <4>1. \A i \in DOMAIN keys : keys[i] \in Offered
                BY DEF CommandInv, KeysOffered
            <4> QED
                BY <1>0, <2>1, <4>1, Sent
        <3> QED
            BY <3>1 DEF CommandInv, KeysOffered
    <2>3. ASSUME NEW o \in Offered', wpc \in {"receive", "check", "try"}
          PROVE  \/ \E i \in DOMAIN keys' : keys'[i] = o
                 \/ wpc \in {"check", "try"} /\ o = trying
                 \/ sawKey /\ o \notin backup.to
        <3>1. CASE o = k
            BY <1>0, <2>1, <3>1, Sent
        <3>2. CASE \E j \in DOMAIN keys : keys[j] = o
            <4>1. PICK j \in DOMAIN keys : keys[j] = o
                BY <3>2
            <4>2. /\ j \in 1..Len(keys) /\ Len(keys) \in Nat
                  /\ DOMAIN Append(keys, k) = 1..(Len(keys) + 1)
                  /\ \A i \in 1..Len(keys) : Append(keys, k)[i] = keys[i]
                BY <1>0
            <4>3. j \in DOMAIN Append(keys, k) /\ Append(keys, k)[j] = o
                BY <4>1, <4>2
            <4> QED
                BY <2>1, <4>1, <4>3
        <3> QED
            BY <2>3, <3>1, <3>2 DEF CommandInv, Searching
    <2>4. Searching'
        BY <2>1, <2>3 DEF CommandInv, Searching, Exhausted
    <2> QED
        BY <1>0, <2>1, <2>2, <2>4, Sent
<1> QED
    BY <1>1, <1>2

\* What the answers say stays true while keys are offered.
LEMMA AnswersStayTrue ==
    ASSUME CommandInv, NEW k, Offered' = Offered \cup {k}, ~NoKeySender,
           backup' = backup, documents' = documents, result' = result
    PROVE  AnswersTrue'
<1>1. \A d : TrueAnswer(d) => TrueAnswer(d)'
    BY DEF TrueAnswer
<1> QED
    BY <1>1 DEF CommandInv, AnswersTrue

-----------------------------------------------------------------------------
(* The steps                                                               *)

\* The fetch thread starts.
LEMMA SpawnFetchInv ==
    ASSUME CommandInv, SpawnFetch
    PROVE  CommandInv'
<1>0. Offered' = Offered
    BY OfferedStays DEF SpawnFetch, collectVars, channelVars, workVars
<1>1. CollectInv'
    BY CollectIdleInv DEF CommandInv, collectVars, SpawnFetch, channelVars, workVars
<1>2. TypeOK'
    BY <1>1 DEF CommandInv, CollectInv, TypeOK, SpawnFetch, collectVars, channelVars, workVars
<1>3. Control'
    BY DEF CommandInv, Control, SpawnFetch, collectVars, channelVars, workVars
<1>4. Late'
    BY DEF CommandInv, Control, Late, SpawnFetch, collectVars, channelVars, workVars
<1>5. Spoken'
    BY DEF CommandInv, Control, Spoken, SpawnFetch, collectVars, channelVars, workVars
<1>6. KeysOffered'
    BY <1>0 DEF CommandInv, KeysOffered, SpawnFetch, collectVars, channelVars, workVars
<1>7. Searching'
    BY <1>0 DEF CommandInv, KeysOffered, Searching, Exhausted, NoKeySender, SpawnFetch,
                collectVars, channelVars, workVars
<1>8. AnswersTrue'
    BY <1>0 DEF CommandInv, AnswersTrue, TrueAnswer, NoKeySender, SpawnFetch, collectVars,
                channelVars, workVars
<1> QED
    BY <1>1, <1>2, <1>3, <1>4, <1>5, <1>6, <1>7, <1>8 DEF CommandInv

\* Main drops its senders.
LEMMA DropSendersInv ==
    ASSUME CommandInv, DropSenders
    PROVE  CommandInv'
<1>0. Offered' = Offered
    BY OfferedStays DEF DropSenders, collectVars, channelVars, workVars
<1>1. CollectInv'
    BY CollectIdleInv DEF CommandInv, collectVars, DropSenders, channelVars, workVars
<1>2. TypeOK'
    BY <1>1 DEF CommandInv, CollectInv, TypeOK, DropSenders, collectVars, channelVars, workVars
<1>3. Control'
    BY DEF CommandInv, Control, DropSenders, collectVars, channelVars, workVars
<1>4. Late'
    BY DEF CommandInv, Control, Late, DropSenders, collectVars, channelVars, workVars
<1>5. Spoken'
    BY DEF CommandInv, Control, Spoken, DropSenders, collectVars, channelVars, workVars
<1>6. KeysOffered'
    BY <1>0 DEF CommandInv, KeysOffered, DropSenders, collectVars, channelVars, workVars
<1>7. Searching'
    BY <1>0 DEF CommandInv, KeysOffered, Searching, Exhausted, NoKeySender, DropSenders,
                collectVars, channelVars, workVars
<1>8. AnswersTrue'
    BY <1>0 DEF CommandInv, AnswersTrue, TrueAnswer, NoKeySender, DropSenders, collectVars,
                channelVars, workVars
<1> QED
    BY <1>1, <1>2, <1>3, <1>4, <1>5, <1>6, <1>7, <1>8 DEF CommandInv

\* Main sets the flag.
LEMMA SetStopInv ==
    ASSUME CommandInv, SetStop
    PROVE  CommandInv'
<1>0. Offered' = Offered
    BY OfferedStays DEF SetStop, collectVars, channelVars, workVars
<1>1. CollectInv'
    BY CollectIdleInv DEF CommandInv, collectVars, SetStop, channelVars, workVars
<1>2. TypeOK'
    BY <1>1 DEF CommandInv, CollectInv, TypeOK, SetStop, collectVars, channelVars, workVars
<1>3. Control'
    BY DEF CommandInv, Control, SetStop, collectVars, channelVars, workVars
<1>4. Late'
    BY DEF CommandInv, Control, Late, SetStop, collectVars, channelVars, workVars
<1>5. Spoken'
    BY DEF CommandInv, Control, Spoken, SetStop, collectVars, channelVars, workVars
<1>6. KeysOffered'
    BY <1>0 DEF CommandInv, KeysOffered, SetStop, collectVars, channelVars, workVars
<1>7. Searching'
    BY <1>0 DEF CommandInv, KeysOffered, Searching, Exhausted, NoKeySender, SetStop, collectVars,
                channelVars, workVars
<1>8. AnswersTrue'
    BY <1>0 DEF CommandInv, AnswersTrue, TrueAnswer, NoKeySender, SetStop, collectVars,
                channelVars, workVars
<1> QED
    BY <1>1, <1>2, <1>3, <1>4, <1>5, <1>6, <1>7, <1>8 DEF CommandInv

\* The process ends.
LEMMA OutputInv ==
    ASSUME CommandInv, Output
    PROVE  CommandInv'
<1>0. Offered' = Offered
    BY OfferedStays DEF Output, collectVars, channelVars, workVars
<1>1. CollectInv'
    BY CollectIdleInv DEF CommandInv, collectVars, Output, channelVars, workVars
<1>2. TypeOK'
    BY <1>1 DEF CommandInv, CollectInv, TypeOK, Output, collectVars, channelVars, workVars
<1>3. Control'
    BY DEF CommandInv, Control, Output, collectVars, channelVars, workVars
<1>4. Late'
    BY DEF CommandInv, Control, Late, Output, collectVars, channelVars, workVars
<1>5. Spoken'
    BY DEF CommandInv, Control, Spoken, Output, collectVars, channelVars, workVars
<1>6. KeysOffered'
    BY <1>0 DEF CommandInv, KeysOffered, Output, collectVars, channelVars, workVars
<1>7. Searching'
    BY <1>0 DEF CommandInv, KeysOffered, Searching, Exhausted, NoKeySender, Output, collectVars,
                channelVars, workVars
<1>8. AnswersTrue'
    BY <1>0 DEF CommandInv, AnswersTrue, TrueAnswer, NoKeySender, Output, collectVars, channelVars,
                workVars
<1> QED
    BY <1>1, <1>2, <1>3, <1>4, <1>5, <1>6, <1>7, <1>8 DEF CommandInv

\* Main receives an answer.
LEMMA ReceiveDocumentInv ==
    ASSUME CommandInv, ReceiveDocument
    PROVE  CommandInv'
<1>0. Offered' = Offered
    BY OfferedStays DEF ReceiveDocument, collectVars, channelVars, workVars
<1>a. documents # <<>> /\ documents \in Seq(Outcomes)
    BY DEF CommandInv, Spoken, ReceiveDocument, NoDocumentSender, TypeOK
<1>b. result' = Head(documents) /\ documents' = Tail(documents)
    BY <1>a DEF ReceiveDocument
<1>c. result' \in Outcomes /\ documents' \in Seq(Outcomes)
    BY <1>a, <1>b, Received
<1>1. CollectInv'
    BY CollectIdleInv DEF CommandInv, collectVars, ReceiveDocument, channelVars, workVars
<1>2. TypeOK'
    BY <1>1, <1>c DEF CommandInv, CollectInv, TypeOK, ReceiveDocument, collectVars, channelVars,
                      workVars
<1>3. Control'
    BY DEF CommandInv, Control, ReceiveDocument, collectVars, channelVars, workVars
<1>4. Late'
    BY DEF CommandInv, Control, Late, ReceiveDocument, collectVars, channelVars, workVars
<1>5. Spoken'
    BY DEF CommandInv, Control, Spoken, ReceiveDocument, collectVars, channelVars, workVars
<1>6. KeysOffered'
    BY <1>0 DEF CommandInv, KeysOffered, ReceiveDocument, collectVars, channelVars, workVars
<1>7. Searching'
    BY <1>0 DEF CommandInv, KeysOffered, Searching, Exhausted, NoKeySender, ReceiveDocument,
                collectVars, channelVars, workVars
<1>8. AnswersTrue'
    <2>1. \A d : TrueAnswer(d) => TrueAnswer(d)'
        BY <1>0 DEF TrueAnswer, NoKeySender, ReceiveDocument
    <2>2. /\ TrueAnswer(Head(documents))
          /\ \A i \in DOMAIN Tail(documents) : TrueAnswer(Tail(documents)[i])
        <3>1. \A i \in DOMAIN documents : TrueAnswer(documents[i])
            BY DEF CommandInv, AnswersTrue
        <3> QED
            BY <1>a, <3>1, Received
    <2>3. \A i \in DOMAIN documents' : TrueAnswer(documents'[i])
        BY <1>b, <2>2
    <2>4. result' \in {"WrongKey", "NoKeys"} => NoKeySender'
        BY <1>b, <2>2 DEF TrueAnswer, NoKeySender, ReceiveDocument
    <2> QED
        BY <2>1, <2>3, <2>4 DEF AnswersTrue
<1> QED
    BY <1>1, <1>2, <1>3, <1>4, <1>5, <1>6, <1>7, <1>8 DEF CommandInv

\* Main offers the key of the key file.
LEMMA SendFileKeyInv ==
    ASSUME CommandInv, SendFileKey
    PROVE  CommandInv'
<1>1. CollectInv'
    BY CollectIdleInv DEF CommandInv, SendFileKey, collectVars, channelVars, workVars
<1>2. CASE fileKey \notin FileKeys
    <2>0. Offered' = Offered
        BY <1>2, CommandAssumption DEF Offered, AllKeys, SendFileKey, collectVars
    <2>1. /\ keys' = keys /\ stop' = stop
          /\ result' \in {"none", "InvalidKey"} /\ mpc' \in {"exited", "spawn_fetch"}
          /\ mpc' = "spawn_fetch" => result' = result
        BY <1>2, CommandAssumption DEF AllKeys, SendFileKey, CommandInv, Control
    <2>2. TypeOK'
        BY <1>1, <2>1 DEF CommandInv, CollectInv, TypeOK, SendFileKey, collectVars, channelVars,
                          workVars
    <2>3. Control' /\ Late' /\ Spoken'
        BY <2>1 DEF CommandInv, Control, Late, Spoken, SendFileKey, collectVars, channelVars,
                    workVars
    <2>4. KeysOffered' /\ Searching'
        BY <2>0, <2>1 DEF CommandInv, KeysOffered, Searching, Exhausted, NoKeySender, SendFileKey,
                          collectVars, channelVars, workVars
    <2>5. AnswersTrue'
        <3>1. \A d : TrueAnswer(d) => TrueAnswer(d)'
            BY <2>0 DEF TrueAnswer, NoKeySender, SendFileKey, collectVars, channelVars, workVars
        <3> QED
            BY <2>1, <3>1 DEF CommandInv, AnswersTrue, SendFileKey, collectVars, channelVars,
                              workVars
    <2> QED
        BY <1>1, <2>2, <2>3, <2>4, <2>5 DEF CommandInv
<1>3. CASE fileKey \in FileKeys
    <2>1. /\ fileKey \in AllKeys /\ SendKey(fileKey)
          /\ mpc' = "spawn_fetch" /\ result' = result
        BY <1>3, CommandAssumption DEF AllKeys, SendFileKey
    <2>2. Offered' = Offered \cup {fileKey}
        BY <1>3, <2>1 DEF Offered, SendFileKey, collectVars
    <2>3. ~NoKeySender
        BY DEF NoKeySender, SendFileKey
    <2>4. /\ keys' \in Seq(AllKeys) /\ stop' \in BOOLEAN
          /\ (stop => stop') /\ (stop' => stop \/ wpc = "ended")
          /\ KeysOffered' /\ Searching'
        BY <2>1, <2>2, <2>3, KeySent DEF SendFileKey, workVars
    <2>5. TypeOK'
        BY <1>1, <2>1, <2>4 DEF CommandInv, CollectInv, TypeOK, SendFileKey, collectVars,
                                channelVars, workVars
    <2>6. Control' /\ Late' /\ Spoken'
        BY <2>1, <2>4 DEF CommandInv, TypeOK, Control, Late, Spoken, SendFileKey, collectVars,
                          channelVars, workVars
    <2>7. AnswersTrue'
        BY <2>1, <2>2, <2>3, AnswersStayTrue DEF SendFileKey
    <2> QED
        BY <1>1, <2>4, <2>5, <2>6, <2>7 DEF CommandInv
<1> QED
    BY <1>2, <1>3

\* The worker tries its key.
LEMMA TryKeyInv ==
    ASSUME CommandInv, TryKey
    PROVE  CommandInv'
<1>0. Offered' = Offered
    BY OfferedStays DEF TryKey, collectVars, channelVars, workVars
<1>1. CollectInv'
    BY CollectIdleInv DEF CommandInv, collectVars, TryKey, channelVars, workVars
<1>2. TypeOK'
    BY <1>1 DEF CommandInv, CollectInv, TypeOK, TryKey, collectVars, channelVars, workVars
<1>3. Control'
    BY DEF CommandInv, Control, TryKey, collectVars, channelVars, workVars
<1>4. Late'
    BY DEF CommandInv, Control, Late, TryKey, collectVars, channelVars, workVars
<1>5. Spoken'
    BY DEF CommandInv, Control, Spoken, TryKey, collectVars, channelVars, workVars
<1>6. KeysOffered'
    BY <1>0 DEF CommandInv, KeysOffered, TryKey, collectVars, channelVars, workVars
<1>7. Searching'
    <2>1. CASE trying \in backup.to
        BY <1>0, <2>1 DEF Searching, Exhausted, TryKey
    <2>2. CASE trying \notin backup.to
        <3>1. wpc' = "receive" /\ keys' = keys /\ sawKey
            BY <2>2 DEF TryKey, CommandInv, Control
        <3> QED
            BY <1>0, <2>2, <3>1 DEF CommandInv, Searching, TryKey, workVars
    <2> QED
        BY <2>1, <2>2
<1>8. AnswersTrue'
    BY <1>0 DEF CommandInv, AnswersTrue, TrueAnswer, NoKeySender, TryKey, collectVars, channelVars,
                workVars
<1> QED
    BY <1>1, <1>2, <1>3, <1>4, <1>5, <1>6, <1>7, <1>8 DEF CommandInv

\* The worker takes a key, or nobody can send one any more.
LEMMA TakeKeyInv ==
    ASSUME CommandInv, TakeKey
    PROVE  CommandInv'
<1>0. Offered' = Offered
    BY OfferedStays DEF TakeKey, collectVars, channelVars, workVars
<1>a. keys \in Seq(AllKeys)
    BY DEF CommandInv, TypeOK
<1>b. ASSUME keys # <<>>, trying' = Head(keys), keys' = Tail(keys), wpc' = "check"
      PROVE  KeysOffered' /\ Searching'
    <2>1. KeysOffered'
        <3>1. trying' \in Offered /\ \A i \in DOMAIN keys' : keys'[i] \in Offered
            <4>1. \A i \in DOMAIN keys : keys[i] \in Offered
                BY DEF CommandInv, KeysOffered
            <4> QED
                BY <1>a, <1>b, <4>1, Received
        <3> QED
            BY <1>0, <1>b, <3>1 DEF CommandInv, KeysOffered, TakeKey
    <2>2. Searching'
        <3>1. ASSUME NEW k \in Offered
              PROVE  \/ \E i \in DOMAIN keys' : keys'[i] = k
                     \/ k = trying'
                     \/ sawKey /\ k \notin backup.to
            <4>1. CASE \E j \in DOMAIN keys : keys[j] = k
                BY <1>a, <1>b, <4>1, Received
            <4> QED
                BY <4>1 DEF CommandInv, Searching, TakeKey
        <3> QED
            BY <1>0, <1>b, <3>1 DEF Searching, TakeKey
    <2> QED
        BY <2>1, <2>2
<1>c. ASSUME keys = <<>>, NoKeySender, wpc' = "no_more", trying' = trying, keys' = keys
      PROVE  KeysOffered' /\ Searching'
    <2>1. KeysOffered'
        BY <1>0, <1>c DEF CommandInv, KeysOffered, TakeKey
    <2>2. Exhausted
        <3>1. DOMAIN keys = {}
            BY <1>c
        <3>2. \A k \in Offered : sawKey /\ k \notin backup.to
            BY <3>1 DEF CommandInv, Searching, TakeKey
        <3> QED
            BY <1>c, <3>2 DEF Exhausted
    <2>3. Searching'
        BY <1>0, <1>c, <2>2 DEF Searching, Exhausted, NoKeySender, TakeKey
    <2> QED
        BY <2>1, <2>3
<1>d. KeysOffered' /\ Searching'
    BY <1>b, <1>c DEF TakeKey
<1>e. keys' \in Seq(AllKeys) /\ trying' \in AllKeys \cup {NoFile}
    <2>1. keys # <<>> => Head(keys) \in AllKeys /\ Tail(keys) \in Seq(AllKeys)
        BY <1>a, Received
    <2> QED
        BY <1>a, <2>1 DEF TakeKey, CommandInv, TypeOK
<1>1. CollectInv'
    BY CollectIdleInv DEF CommandInv, collectVars, TakeKey, channelVars, workVars
<1>2. TypeOK'
    BY <1>1, <1>e DEF CommandInv, CollectInv, TypeOK, TakeKey, collectVars, channelVars, workVars
<1>3. Control'
    BY DEF CommandInv, Control, TakeKey, collectVars, channelVars, workVars
<1>4. Late'
    BY DEF CommandInv, Control, Late, TakeKey, collectVars, channelVars, workVars
<1>5. Spoken'
    BY DEF CommandInv, Control, Spoken, TakeKey, collectVars, channelVars, workVars
<1>6. KeysOffered'
    BY <1>d
<1>7. Searching'
    BY <1>d
<1>8. AnswersTrue'
    BY <1>0 DEF CommandInv, AnswersTrue, TrueAnswer, NoKeySender, TakeKey, collectVars,
                channelVars, workVars
<1> QED
    BY <1>1, <1>2, <1>3, <1>4, <1>5, <1>6, <1>7, <1>8 DEF CommandInv

\* The worker looks at the flag before it tries a key.
LEMMA CheckStopInv ==
    ASSUME CommandInv, CheckStop
    PROVE  CommandInv'
<1>0. Offered' = Offered
    BY OfferedStays DEF CheckStop, collectVars, channelVars, workVars
<1>1. CollectInv'
    BY CollectIdleInv DEF CommandInv, collectVars, CheckStop, channelVars, workVars
<1>2. TypeOK'
    BY <1>1 DEF CommandInv, CollectInv, TypeOK, CheckStop, collectVars, channelVars, workVars
<1>3. Control'
    BY DEF CommandInv, Control, CheckStop, collectVars, channelVars, workVars
<1>4. Late'
    BY DEF CommandInv, Control, Late, CheckStop, collectVars, channelVars, workVars
<1>5. Spoken'
    BY DEF CommandInv, Control, Spoken, CheckStop, collectVars, channelVars, workVars
<1>6. KeysOffered'
    BY <1>0 DEF CommandInv, KeysOffered, CheckStop, collectVars, channelVars, workVars
<1>7. Searching'
    BY <1>0 DEF CommandInv, KeysOffered, Searching, Exhausted, NoKeySender, CheckStop, collectVars,
                channelVars, workVars
<1>8. AnswersTrue'
    BY <1>0 DEF CommandInv, AnswersTrue, TrueAnswer, NoKeySender, CheckStop, collectVars,
                channelVars, workVars
<1> QED
    BY <1>1, <1>2, <1>3, <1>4, <1>5, <1>6, <1>7, <1>8 DEF CommandInv

\* The worker looks at the flag before it gives up.
LEMMA NoMoreKeysInv ==
    ASSUME CommandInv, NoMoreKeys
    PROVE  CommandInv'
<1>0. Offered' = Offered
    BY OfferedStays DEF NoMoreKeys, collectVars, channelVars, workVars
<1>1. CollectInv'
    BY CollectIdleInv DEF CommandInv, collectVars, NoMoreKeys, channelVars, workVars
<1>2. TypeOK'
    BY <1>1 DEF CommandInv, CollectInv, TypeOK, NoMoreKeys, collectVars, channelVars, workVars
<1>3. Control'
    BY DEF CommandInv, Control, NoMoreKeys, collectVars, channelVars, workVars
<1>4. Late'
    BY DEF CommandInv, Control, Late, NoMoreKeys, collectVars, channelVars, workVars
<1>5. Spoken'
    BY DEF CommandInv, Control, Spoken, NoMoreKeys, collectVars, channelVars, workVars
<1>6. KeysOffered'
    BY <1>0 DEF CommandInv, KeysOffered, NoMoreKeys, collectVars, channelVars, workVars
<1>7. Searching'
    BY <1>0 DEF CommandInv, KeysOffered, Searching, Exhausted, NoKeySender, NoMoreKeys,
                collectVars, channelVars, workVars
<1>8. AnswersTrue'
    BY <1>0 DEF CommandInv, AnswersTrue, TrueAnswer, NoKeySender, NoMoreKeys, collectVars,
                channelVars, workVars
<1> QED
    BY <1>1, <1>2, <1>3, <1>4, <1>5, <1>6, <1>7, <1>8 DEF CommandInv

\* The worker sends what the backup holds.
LEMMA WorkerAnswerInv ==
    ASSUME CommandInv, WorkerAnswer
    PROVE  CommandInv'
<1>0. Offered' = Offered
    BY OfferedStays DEF WorkerAnswer, collectVars, channelVars, workVars
<1>a. PICK d \in Outcomes :
         d = (IF backup.readable THEN "document" ELSE "Unreadable") /\ documents' = Append(documents, d)
    BY DEF WorkerAnswer, Outcomes
<1>b. documents \in Seq(Outcomes)
    BY DEF CommandInv, TypeOK
<1>c. documents' \in Seq(Outcomes) /\ documents' # <<>>
    BY <1>a, <1>b, Sent
<1>1. CollectInv'
    BY CollectIdleInv DEF CommandInv, collectVars, WorkerAnswer, channelVars, workVars
<1>2. TypeOK'
    BY <1>1, <1>c DEF CommandInv, CollectInv, TypeOK, WorkerAnswer, collectVars, channelVars,
                      workVars
<1>3. Control'
    BY DEF CommandInv, Control, WorkerAnswer, collectVars, channelVars, workVars
<1>4. Late'
    BY DEF CommandInv, Control, Late, WorkerAnswer, collectVars, channelVars, workVars
<1>5. Spoken'
    BY <1>c DEF CommandInv, Spoken, WorkerAnswer, collectVars, channelVars, workVars
<1>6. KeysOffered'
    BY <1>0 DEF CommandInv, KeysOffered, WorkerAnswer, collectVars, channelVars, workVars
<1>7. Searching'
    BY <1>0 DEF CommandInv, KeysOffered, Searching, Exhausted, NoKeySender, WorkerAnswer,
                collectVars, channelVars, workVars
<1>8. AnswersTrue'
    <2>1. \A e : TrueAnswer(e) => TrueAnswer(e)'
        BY <1>0 DEF TrueAnswer, NoKeySender, CommandInv, Control, AnswersTrue, WorkerAnswer,
                    collectVars, channelVars, workVars
    <2>2. TrueAnswer(d)
        BY <1>a DEF TrueAnswer, CommandInv, KeysOffered, WorkerAnswer
    <2>3. \A i \in DOMAIN documents' : TrueAnswer(documents'[i])
        <3>1. \A i \in DOMAIN documents : TrueAnswer(documents[i])
            BY DEF CommandInv, AnswersTrue
        <3> QED
            BY <1>a, <1>b, <2>2, <3>1, Sent
    <2> QED
        BY <2>1, <2>3 DEF CommandInv, AnswersTrue, NoKeySender, WorkerAnswer, collectVars,
                          channelVars, workVars
<1> QED
    BY <1>1, <1>2, <1>3, <1>4, <1>5, <1>6, <1>7, <1>8 DEF CommandInv

\* The worker sends its negative answer.
LEMMA GiveUpInv ==
    ASSUME CommandInv, GiveUp
    PROVE  CommandInv'
<1>0. Offered' = Offered
    BY OfferedStays DEF GiveUp, collectVars, channelVars, workVars
<1>a. PICK d \in Outcomes :
         d = (IF sawKey THEN "WrongKey" ELSE "NoKeys") /\ documents' = Append(documents, d)
    BY DEF GiveUp, Outcomes
<1>b. documents \in Seq(Outcomes)
    BY DEF CommandInv, TypeOK
<1>c. documents' \in Seq(Outcomes) /\ documents' # <<>>
    BY <1>a, <1>b, Sent
<1>1. CollectInv'
    BY CollectIdleInv DEF CommandInv, collectVars, GiveUp, channelVars, workVars
<1>2. TypeOK'
    BY <1>1, <1>c DEF CommandInv, CollectInv, TypeOK, GiveUp, collectVars, channelVars, workVars
<1>3. Control'
    BY DEF CommandInv, Control, GiveUp, collectVars, channelVars, workVars
<1>4. Late'
    BY DEF CommandInv, Control, Late, GiveUp, collectVars, channelVars, workVars
<1>5. Spoken'
    BY <1>c DEF CommandInv, Spoken, GiveUp, collectVars, channelVars, workVars
<1>6. KeysOffered'
    BY <1>0 DEF CommandInv, KeysOffered, GiveUp, collectVars, channelVars, workVars
<1>7. Searching'
    BY <1>0 DEF CommandInv, KeysOffered, Searching, Exhausted, NoKeySender, GiveUp, collectVars,
                channelVars, workVars
<1>8. AnswersTrue'
    <2>1. \A e : TrueAnswer(e) => TrueAnswer(e)'
        BY <1>0 DEF TrueAnswer, NoKeySender, CommandInv, Control, AnswersTrue, GiveUp, collectVars,
                    channelVars, workVars
    <2>2. TrueAnswer(d)
        BY <1>a DEF TrueAnswer, CommandInv, Searching, Exhausted, KeysOffered, GiveUp
    <2>3. \A i \in DOMAIN documents' : TrueAnswer(documents'[i])
        <3>1. \A i \in DOMAIN documents : TrueAnswer(documents[i])
            BY DEF CommandInv, AnswersTrue
        <3> QED
            BY <1>a, <1>b, <2>2, <3>1, Sent
    <2> QED
        BY <2>1, <2>3 DEF CommandInv, AnswersTrue, NoKeySender, GiveUp, collectVars, channelVars,
                          workVars
<1> QED
    BY <1>1, <1>2, <1>3, <1>4, <1>5, <1>6, <1>7, <1>8 DEF CommandInv

\* The fetch thread looks at the flag before it lists the devices.
LEMMA FetchBeginInv ==
    ASSUME CommandInv, FetchBegin
    PROVE  CommandInv'
<1>0. Offered' = Offered
    BY OfferedStays DEF FetchBegin, collectVars, mainVars, workVars
<1>1. CollectInv'
    BY CollectIdleInv DEF CommandInv, Control, FetchBegin, collectVars, mainVars, workVars
<1>2. TypeOK'
    BY <1>1 DEF CommandInv, CollectInv, TypeOK, FetchBegin, collectVars, mainVars, workVars
<1>3. Control'
    BY DEF CommandInv, Control, FetchBegin, collectVars, mainVars, workVars
<1>4. Late'
    BY DEF CommandInv, Control, Late, FetchBegin, collectVars, mainVars, workVars
<1>5. Spoken'
    BY DEF CommandInv, Control, Spoken, FetchBegin, collectVars, mainVars, workVars
<1>6. KeysOffered'
    BY <1>0 DEF CommandInv, KeysOffered, FetchBegin, collectVars, mainVars, workVars
<1>7. Searching'
    BY <1>0 DEF CommandInv, KeysOffered, Searching, Exhausted, NoKeySender, FetchBegin,
                collectVars, mainVars, workVars
<1>8. AnswersTrue'
    BY <1>0 DEF CommandInv, AnswersTrue, TrueAnswer, NoKeySender, FetchBegin, collectVars,
                mainVars, workVars
<1> QED
    BY <1>1, <1>2, <1>3, <1>4, <1>5, <1>6, <1>7, <1>8 DEF CommandInv

\* The devices are listed.
LEMMA FetchListInv ==
    ASSUME CommandInv, NEW k \in Kinds \cup {NoDevice}, FetchList(k)
    PROVE  CommandInv'
<1>0. Offered' = Offered
    BY OfferedStays DEF FetchList, List, collectVars, mainVars, workVars
<1>1. CollectInv'
    BY ListInv DEF CommandInv, FetchList
<1>2. TypeOK'
    BY <1>1 DEF CommandInv, CollectInv, TypeOK, FetchList, List, collectVars, mainVars, workVars
<1>3. Control'
    BY DEF CommandInv, Control, FetchList, List, collectVars, mainVars, workVars
<1>4. Late'
    BY DEF CommandInv, Control, Late, FetchList, List, collectVars, mainVars, workVars
<1>5. Spoken'
    BY DEF CommandInv, Control, Spoken, FetchList, List, collectVars, mainVars, workVars
<1>6. KeysOffered'
    BY <1>0 DEF CommandInv, KeysOffered, FetchList, List, collectVars, mainVars, workVars
<1>7. Searching'
    BY <1>0 DEF CommandInv, KeysOffered, Searching, Exhausted, NoKeySender, FetchList, List,
                collectVars, mainVars, workVars
<1>8. AnswersTrue'
    BY <1>0 DEF CommandInv, AnswersTrue, TrueAnswer, NoKeySender, FetchList, List, collectVars,
                mainVars, workVars
<1> QED
    BY <1>1, <1>2, <1>3, <1>4, <1>5, <1>6, <1>7, <1>8 DEF CommandInv

\* The next path is taken, unless the flag is set.
LEMMA FetchCheckInv ==
    ASSUME CommandInv, FetchCheck
    PROVE  CommandInv'
<1>0. Offered' = Offered
    BY OfferedStays DEF FetchCheck, Check, collectVars, mainVars, workVars
<1>1. CollectInv'
    BY CheckInv DEF CommandInv, TypeOK, FetchCheck
<1>2. TypeOK'
    BY <1>1 DEF CommandInv, CollectInv, TypeOK, FetchCheck, Check, collectVars, mainVars, workVars
<1>3. Control'
    BY DEF CommandInv, Control, FetchCheck, Check, collectVars, mainVars, workVars
<1>4. Late'
    BY DEF CommandInv, Control, Late, FetchCheck, Check, collectVars, mainVars, workVars
<1>5. Spoken'
    BY DEF CommandInv, Control, Spoken, FetchCheck, Check, collectVars, mainVars, workVars
<1>6. KeysOffered'
    BY <1>0 DEF CommandInv, KeysOffered, FetchCheck, Check, collectVars, mainVars, workVars
<1>7. Searching'
    BY <1>0 DEF CommandInv, KeysOffered, Searching, Exhausted, NoKeySender, FetchCheck, Check,
                collectVars, mainVars, workVars
<1>8. AnswersTrue'
    BY <1>0 DEF CommandInv, AnswersTrue, TrueAnswer, NoKeySender, FetchCheck, Check, collectVars,
                mainVars, workVars
<1> QED
    BY <1>1, <1>2, <1>3, <1>4, <1>5, <1>6, <1>7, <1>8 DEF CommandInv

\* A device call starts.
LEMMA FetchCallInv ==
    ASSUME CommandInv, FetchCall
    PROVE  CommandInv'
<1>0. Offered' = Offered
    BY OfferedStays DEF FetchCall, Spawn, collectVars, mainVars, workVars
<1>1. CollectInv'
    BY SpawnInv DEF CommandInv, FetchCall
<1>2. TypeOK'
    BY <1>1 DEF CommandInv, CollectInv, TypeOK, FetchCall, Spawn, collectVars, mainVars, workVars
<1>3. Control'
    BY DEF CommandInv, Control, FetchCall, Spawn, collectVars, mainVars, workVars
<1>4. Late'
    BY DEF CommandInv, Control, Late, FetchCall, Spawn, collectVars, mainVars, workVars
<1>5. Spoken'
    BY DEF CommandInv, Control, Spoken, FetchCall, Spawn, collectVars, mainVars, workVars
<1>6. KeysOffered'
    BY <1>0 DEF CommandInv, KeysOffered, FetchCall, Spawn, collectVars, mainVars, workVars
<1>7. Searching'
    BY <1>0 DEF CommandInv, KeysOffered, Searching, Exhausted, NoKeySender, FetchCall, Spawn,
                collectVars, mainVars, workVars
<1>8. AnswersTrue'
    BY <1>0 DEF CommandInv, AnswersTrue, TrueAnswer, NoKeySender, FetchCall, Spawn, collectVars,
                mainVars, workVars
<1> QED
    BY <1>1, <1>2, <1>3, <1>4, <1>5, <1>6, <1>7, <1>8 DEF CommandInv

\* The device's key is offered.
LEMMA FetchXpubInv ==
    ASSUME CommandInv, FetchXpub
    PROVE  CommandInv'
<1>a. at \in DerivPaths /\ reply[at].key = XpubAt[at]
    BY TakenXpub DEF CommandInv, FetchXpub
<1> DEFINE k == XpubAt[at]
<1>b. k \in AllKeys /\ SendKey(k)
    BY <1>a DEF AllKeys, FetchXpub
<1>0. Offered' = Offered \cup {k}
    <2> DEFINE new == <<at, k>>
    <2>1. {f[2] : f \in fetched \cup {new}} = {f[2] : f \in fetched} \cup {new[2]} /\ new[2] = k
        OBVIOUS
    <2> HIDE DEF new
    <2>2. fetched' = fetched \cup {new}
        BY <1>a DEF FetchXpub, TakeXpub, new
    <2> QED
        BY <2>1, <2>2 DEF Offered, FetchXpub, mainVars
<1> HIDE DEF k
<1>c. ~NoKeySender
    BY DEF NoKeySender, CommandInv, Control, FetchXpub, TakeXpub
<1>d. /\ keys' \in Seq(AllKeys) /\ stop' \in BOOLEAN
      /\ (stop => stop') /\ (stop' => stop \/ wpc = "ended")
      /\ KeysOffered' /\ Searching'
    BY <1>0, <1>b, <1>c, KeySent DEF FetchXpub, mainVars, workVars
<1>1. CollectInv'
    BY TakeXpubInv DEF CommandInv, FetchXpub
<1>2. TypeOK'
    BY <1>1, <1>d DEF CommandInv, CollectInv, TypeOK, FetchXpub, TakeXpub, collectVars, mainVars,
                      workVars
<1>3. Control'
    BY DEF CommandInv, Control, FetchXpub, TakeXpub, collectVars, mainVars, workVars
<1>4. Late'
    BY <1>d DEF CommandInv, TypeOK, Control, Late, FetchXpub, TakeXpub, collectVars, mainVars,
                workVars
<1>5. Spoken'
    BY <1>d DEF CommandInv, Control, Spoken, FetchXpub, TakeXpub, collectVars, mainVars, workVars
<1>6. KeysOffered'
    BY <1>d
<1>7. Searching'
    BY <1>d
<1>8. AnswersTrue'
    BY <1>0, <1>c, AnswersStayTrue DEF FetchXpub, TakeXpub, collectVars, mainVars, workVars
<1> QED
    BY <1>1, <1>2, <1>3, <1>4, <1>5, <1>6, <1>7, <1>8 DEF CommandInv

\* The device is unlocked, or a call fails.
LEMMA FetchOtherInv ==
    ASSUME CommandInv, FetchOther
    PROVE  CommandInv'
<1>0. Offered' = Offered
    BY OfferedStays DEF FetchOther, Unlocked, Miss, collectVars, mainVars, workVars
<1>1. CollectInv'
    BY UnlockedInv, MissInv DEF CommandInv, FetchOther
<1>2. TypeOK'
    BY <1>1 DEF CommandInv, CollectInv, TypeOK, FetchOther, Unlocked, Miss, collectVars, mainVars,
                workVars
<1>3. Control'
    BY DEF CommandInv, Control, FetchOther, Unlocked, Miss, collectVars, mainVars, workVars
<1>4. Late'
    BY DEF CommandInv, Control, Late, FetchOther, Unlocked, Miss, collectVars, mainVars, workVars
<1>5. Spoken'
    BY DEF CommandInv, Control, Spoken, FetchOther, Unlocked, Miss, collectVars, mainVars, workVars
<1>6. KeysOffered'
    BY <1>0 DEF CommandInv, KeysOffered, FetchOther, Unlocked, Miss, collectVars, mainVars,
                workVars
<1>7. Searching'
    BY <1>0 DEF CommandInv, KeysOffered, Searching, Exhausted, NoKeySender, FetchOther, Unlocked,
                Miss, collectVars, mainVars, workVars
<1>8. AnswersTrue'
    BY <1>0 DEF CommandInv, AnswersTrue, TrueAnswer, NoKeySender, FetchOther, Unlocked, Miss,
                collectVars, mainVars, workVars
<1> QED
    BY <1>1, <1>2, <1>3, <1>4, <1>5, <1>6, <1>7, <1>8 DEF CommandInv

\* The collector is done.
LEMMA FetchDoneInv ==
    ASSUME CommandInv, FetchDone
    PROVE  CommandInv'
<1>0. Offered' = Offered
    BY OfferedStays DEF FetchDone, collectVars, mainVars, workVars
<1>1. CollectInv'
    BY CollectIdleInv DEF CommandInv, collectVars, FetchDone, mainVars, workVars
<1>2. TypeOK'
    BY <1>1 DEF CommandInv, CollectInv, TypeOK, FetchDone, collectVars, mainVars, workVars
<1>3. Control'
    BY DEF CommandInv, Control, FetchDone, collectVars, mainVars, workVars
<1>4. Late'
    BY DEF CommandInv, Control, Late, FetchDone, collectVars, mainVars, workVars
<1>5. Spoken'
    BY DEF CommandInv, Control, Spoken, FetchDone, collectVars, mainVars, workVars
<1>6. KeysOffered'
    BY <1>0 DEF CommandInv, KeysOffered, FetchDone, collectVars, mainVars, workVars
<1>7. Searching'
    BY <1>0 DEF CommandInv, KeysOffered, Searching, Exhausted, NoKeySender, FetchDone, collectVars,
                mainVars, workVars
<1>8. AnswersTrue'
    BY <1>0 DEF CommandInv, AnswersTrue, TrueAnswer, NoKeySender, FetchDone, collectVars, mainVars,
                workVars
<1> QED
    BY <1>1, <1>2, <1>3, <1>4, <1>5, <1>6, <1>7, <1>8 DEF CommandInv

\* The collector failed: the flag is set before the error is sent.
LEMMA FetchFailedInv ==
    ASSUME CommandInv, FetchFailed
    PROVE  CommandInv'
<1>0. Offered' = Offered
    BY OfferedStays DEF FetchFailed, collectVars, mainVars, workVars
<1>1. CollectInv'
    BY CollectIdleInv DEF CommandInv, collectVars, FetchFailed, mainVars, workVars
<1>2. TypeOK'
    BY <1>1 DEF CommandInv, CollectInv, TypeOK, FetchFailed, collectVars, mainVars, workVars
<1>3. Control'
    BY DEF CommandInv, Control, FetchFailed, collectVars, mainVars, workVars
<1>4. Late'
    BY DEF CommandInv, Control, Late, FetchFailed, collectVars, mainVars, workVars
<1>5. Spoken'
    BY DEF CommandInv, Control, Spoken, FetchFailed, collectVars, mainVars, workVars
<1>6. KeysOffered'
    BY <1>0 DEF CommandInv, KeysOffered, FetchFailed, collectVars, mainVars, workVars
<1>7. Searching'
    BY <1>0 DEF CommandInv, KeysOffered, Searching, Exhausted, NoKeySender, FetchFailed,
                collectVars, mainVars, workVars
<1>8. AnswersTrue'
    BY <1>0 DEF CommandInv, AnswersTrue, TrueAnswer, NoKeySender, FetchFailed, collectVars,
                mainVars, workVars
<1> QED
    BY <1>1, <1>2, <1>3, <1>4, <1>5, <1>6, <1>7, <1>8 DEF CommandInv

\* The fetch thread sends the collector's error.
LEMMA FetchReportInv ==
    ASSUME CommandInv, FetchReport
    PROVE  CommandInv'
<1>0. Offered' = Offered
    BY OfferedStays DEF FetchReport, collectVars, channelVars, workVars
<1>a. PICK d \in Outcomes : d = "FailedToFetchXpub" /\ documents' = Append(documents, d)
    BY DEF FetchReport, Outcomes
<1>b. documents \in Seq(Outcomes)
    BY DEF CommandInv, TypeOK
<1>c. documents' \in Seq(Outcomes) /\ documents' # <<>>
    BY <1>a, <1>b, Sent
<1>1. CollectInv'
    BY CollectIdleInv DEF CommandInv, collectVars, FetchReport, channelVars, workVars
<1>2. TypeOK'
    BY <1>1, <1>c DEF CommandInv, CollectInv, TypeOK, FetchReport, collectVars, channelVars,
                      workVars
<1>3. Control'
    BY DEF CommandInv, Control, FetchReport, collectVars, channelVars, workVars
<1>4. Late'
    BY DEF CommandInv, Control, Late, FetchReport, collectVars, channelVars, workVars
<1>5. Spoken'
    BY <1>c DEF CommandInv, Spoken, FetchReport, collectVars, channelVars, workVars
<1>6. KeysOffered'
    BY <1>0 DEF CommandInv, KeysOffered, FetchReport, collectVars, channelVars, workVars
<1>7. Searching'
    BY <1>0 DEF CommandInv, KeysOffered, Searching, Exhausted, NoKeySender, FetchReport,
                collectVars, channelVars, workVars
<1>8. AnswersTrue'
    <2>1. \A e : TrueAnswer(e) => TrueAnswer(e)'
        BY <1>0 DEF TrueAnswer, NoKeySender, CommandInv, Control, AnswersTrue, FetchReport,
                    collectVars, channelVars, workVars
    <2>2. TrueAnswer(d)
        BY <1>a DEF TrueAnswer, Outcomes, FetchReport
    <2>3. \A i \in DOMAIN documents' : TrueAnswer(documents'[i])
        <3>1. \A i \in DOMAIN documents : TrueAnswer(documents[i])
            BY DEF CommandInv, AnswersTrue
        <3> QED
            BY <1>a, <1>b, <2>2, <3>1, Sent
    <2> QED
        BY <2>1, <2>3 DEF CommandInv, AnswersTrue, NoKeySender, FetchReport, collectVars,
                          channelVars, workVars
<1> QED
    BY <1>1, <1>2, <1>3, <1>4, <1>5, <1>6, <1>7, <1>8 DEF CommandInv

\* A device answers.
LEMMA DeviceAnswerInv ==
    ASSUME CommandInv, DeviceAnswer
    PROVE  CommandInv'
<1>0. Offered' = Offered
    BY OfferedStays DEF DeviceAnswer, Answer, collectVars, mainVars, workVars
<1>1. CollectInv'
    BY AnswerInv DEF CommandInv, DeviceAnswer
<1>2. TypeOK'
    BY <1>1 DEF CommandInv, CollectInv, TypeOK, DeviceAnswer, Answer, collectVars, mainVars,
                workVars
<1>3. Control'
    BY DEF CommandInv, Control, DeviceAnswer, Answer, collectVars, mainVars, workVars
<1>4. Late'
    BY DEF CommandInv, Control, Late, DeviceAnswer, Answer, collectVars, mainVars, workVars
<1>5. Spoken'
    BY DEF CommandInv, Control, Spoken, DeviceAnswer, Answer, collectVars, mainVars, workVars
<1>6. KeysOffered'
    BY <1>0 DEF CommandInv, KeysOffered, DeviceAnswer, Answer, collectVars, mainVars, workVars
<1>7. Searching'
    BY <1>0 DEF CommandInv, KeysOffered, Searching, Exhausted, NoKeySender, DeviceAnswer, Answer,
                collectVars, mainVars, workVars
<1>8. AnswersTrue'
    BY <1>0 DEF CommandInv, AnswersTrue, TrueAnswer, NoKeySender, DeviceAnswer, Answer,
                collectVars, mainVars, workVars
<1> QED
    BY <1>1, <1>2, <1>3, <1>4, <1>5, <1>6, <1>7, <1>8 DEF CommandInv

\* Nothing is offered, sent or answered yet.
LEMMA CommandInitInv ==
    ASSUME Init
    PROVE  CommandInv
<1>1. CollectInv
    BY CollectInitInv DEF Init
<1>2. Offered = {}
    BY DEF Init, CollectInit, Offered
<1>3. TypeOK
    <2>1. <<>> \in Seq(AllKeys) /\ <<>> \in Seq(Outcomes)
        OBVIOUS
    <2> QED
        BY <1>1, <2>1 DEF Init, TypeOK, CollectInv
<1>4. Control /\ Late /\ Spoken
    BY DEF Init, CollectInit, Control, Late, Spoken
<1>5. KeysOffered /\ Searching /\ AnswersTrue
    BY <1>2 DEF Init, KeysOffered, Searching, AnswersTrue
<1> QED
    BY <1>1, <1>3, <1>4, <1>5 DEF CommandInv

\* Nothing happens.
LEMMA StutterInv ==
    ASSUME CommandInv, UNCHANGED vars
    PROVE  CommandInv'
<1>0. Offered' = Offered
    BY OfferedStays DEF vars, collectVars, threadVars
<1>1. CollectInv'
    BY CollectIdleInv DEF CommandInv, vars, collectVars
<1>2. TypeOK' /\ Control' /\ Late' /\ Spoken'
    BY <1>1 DEF CommandInv, CollectInv, TypeOK, Control, Late, Spoken, vars, collectVars,
                threadVars, channelVars, workVars
<1>3. KeysOffered' /\ Searching' /\ AnswersTrue'
    BY <1>0 DEF CommandInv, KeysOffered, Searching, Exhausted, AnswersTrue, TrueAnswer,
                NoKeySender, vars, threadVars, channelVars, workVars
<1> QED
    BY <1>1, <1>2, <1>3 DEF CommandInv

\* Every step preserves the invariant.
LEMMA CommandStepInv ==
    ASSUME CommandInv, [Next]_vars
    PROVE  CommandInv'
<1>1. CASE Main
    BY <1>1, SendFileKeyInv, SpawnFetchInv, DropSendersInv, ReceiveDocumentInv, SetStopInv,
       OutputInv DEF Main
<1>2. CASE Worker
    BY <1>2, TakeKeyInv, CheckStopInv, TryKeyInv, WorkerAnswerInv, NoMoreKeysInv, GiveUpInv
    DEF Worker
<1>3. CASE Listing
    BY <1>3, FetchListInv DEF Listing
<1>4. CASE Fetch
    BY <1>4, FetchBeginInv, FetchCheckInv, FetchCallInv, FetchXpubInv, FetchOtherInv,
       FetchDoneInv, FetchFailedInv, FetchReportInv DEF Fetch
<1>5. CASE DeviceAnswer
    BY <1>5, DeviceAnswerInv
<1>6. CASE UNCHANGED vars
    BY <1>6, StutterInv
<1> QED
    BY <1>1, <1>2, <1>3, <1>4, <1>5, <1>6 DEF Next

\* The invariant holds in every reachable state.
THEOREM CommandInvariance == Spec => []CommandInv
<1>1. Init => CommandInv
    BY CommandInitInv
<1>2. CommandInv /\ [Next]_vars => CommandInv'
    BY CommandStepInv
<1> QED
    BY <1>1, <1>2, PTL DEF Spec

-----------------------------------------------------------------------------
(* Theorems                                                                *)

\* The variables of the command and of the collector keep their types.
THEOREM TypeCorrect == Spec => []TypeOK
<1>1. CommandInv => TypeOK
    BY DEF CommandInv
<1> QED
    BY <1>1, CommandInvariance, PTL

\* No xpub is handed on with the path of another call, however late the
\* calls that timed out answer (get_extended_pubkey has a channel per call).
THEOREM XpubOfItsPathCorrect == Spec => []XpubOfItsPath
<1>1. CommandInv => XpubOfItsPath
    BY DEF CommandInv, CollectInv
<1> QED
    BY <1>1, CommandInvariance, PTL

\* The device is asked for the paths of the backup first, and each path asked
\* is fetched or warned about before the next (paths() and collect_until).
THEOREM AskedInOrderCorrect == Spec => []AskedInOrder
<1>1. CommandInv => AskedInOrder
    BY CollectAskedInOrder DEF CommandInv
<1> QED
    BY <1>1, CommandInvariance, PTL

\* At most one device call starts after the stop flag is set (should_stop).
THEOREM StopHonouredCorrect == Spec => []StopHonoured
<1>1. CommandInv => StopHonoured
    BY DEF CommandInv, Late, StopHonoured
<1> QED
    BY <1>1, CommandInvariance, PTL

\* Main never finds the channel of documents closed and empty: the errors of
\* the fetch thread and the answers of the worker reach it.
THEOREM NeverSilentCorrect == Spec => []NeverSilent
<1>1. CommandInv => NeverSilent
    BY DEF CommandInv, Spoken, NeverSilent, NoDocumentSender
<1> QED
    BY <1>1, CommandInvariance, PTL

\* A step of the command that sends no key and receives no answer is no step
\* of the hunt.
LEMMA HuntStutters ==
    ASSUME fetched' = fetched, fileKey' = fileKey, backup' = backup, result' = result,
           mpc' = mpc \/ (mpc # "send_file" /\ mpc' # "send_file")
    PROVE  UNCHANGED Hunt!huntVars
BY OfferedStays DEF Hunt!huntVars

\* Every step of the command is a step of the hunt, or none.
LEMMA HuntStep ==
    ASSUME CommandInv, [Next]_vars
    PROVE  [Hunt!HuntNext]_(Hunt!huntVars)
<1>1. CASE SendFileKey
    <2>1. CASE fileKey \in FileKeys
        <3>1. fileKey \in AllKeys /\ mpc' = "spawn_fetch" /\ result' = result
            BY <1>1, <2>1, CommandAssumption DEF AllKeys, SendFileKey
        <3>2. Offered' = Offered \cup {fileKey} /\ backup' = backup
            BY <1>1, <2>1, <3>1 DEF Offered, SendFileKey, collectVars
        <3>3. result = "none"
            BY <1>1 DEF CommandInv, Control, SendFileKey
        <3>4. Hunt!Offer(fileKey)
            BY <3>1, <3>2, <3>3 DEF Hunt!Offer
        <3> QED
            BY <3>1, <3>4 DEF Hunt!HuntNext
    <2>2. CASE fileKey \notin FileKeys
        <3>1. Offered' = Offered /\ backup' = backup
            BY <1>1, <2>2 DEF Offered, SendFileKey, collectVars
        <3>2. result = "none" /\ result' \in {"none", "InvalidKey"}
            BY <1>1 DEF CommandInv, Control, SendFileKey
        <3>3. CASE result' = "none"
            BY <3>1, <3>2, <3>3 DEF Hunt!huntVars
        <3>4. CASE result' = "InvalidKey"
            BY <3>1, <3>2, <3>4 DEF Hunt!HuntNext, Hunt!SourceFails
        <3> QED
            BY <3>2, <3>3, <3>4
    <2> QED
        BY <2>1, <2>2
<1>2. CASE FetchXpub
    <2>1. at \in DerivPaths /\ reply[at].key = XpubAt[at]
        BY <1>2, TakenXpub DEF CommandInv, FetchXpub
    <2> DEFINE k == XpubAt[at]
               new == <<at, k>>
    <2>2. k \in AllKeys
        BY <2>1 DEF AllKeys
    <2>3. {f[2] : f \in fetched \cup {new}} = {f[2] : f \in fetched} \cup {new[2]} /\ new[2] = k
        OBVIOUS
    <2> HIDE DEF new
    <2>4. fetched' = fetched \cup {new}
        BY <1>2, <2>1 DEF FetchXpub, TakeXpub, new
    <2>5. Offered' = Offered \cup {k} /\ backup' = backup /\ result' = result
        BY <1>2, <2>3, <2>4 DEF Offered, FetchXpub, mainVars
    <2>6. result \notin {"WrongKey", "NoKeys"}
        BY <1>2 DEF CommandInv, AnswersTrue, NoKeySender, Control, FetchXpub, TakeXpub
    <2> HIDE DEF k
    <2>7. Hunt!Offer(k)
        BY <2>5, <2>6 DEF Hunt!Offer
    <2> QED
        BY <2>2, <2>7 DEF Hunt!HuntNext
<1>3. CASE ReceiveDocument
    <2>1. documents # <<>> /\ documents \in Seq(Outcomes) /\ result = "none"
        BY <1>3 DEF CommandInv, Spoken, Control, ReceiveDocument, NoDocumentSender, TypeOK
    <2>2. result' = Head(documents) /\ backup' = backup
        BY <1>3, <2>1 DEF ReceiveDocument
    <2>3. Offered' = Offered
        BY <1>3, OfferedStays DEF ReceiveDocument, collectVars
    <2>4. result' \in Outcomes /\ TrueAnswer(result')
        <3>1. \A i \in DOMAIN documents : TrueAnswer(documents[i])
            BY DEF CommandInv, AnswersTrue
        <3> QED
            BY <2>1, <2>2, <3>1, Received
    <2>5. CASE result' \in {"document", "Unreadable"}
        <3>1. Hunt!Found
            BY <2>1, <2>2, <2>3, <2>4, <2>5 DEF TrueAnswer, Hunt!Found
        <3> QED
            BY <3>1 DEF Hunt!HuntNext
    <2>6. CASE result' \in {"WrongKey", "NoKeys"}
        <3>1. Hunt!NotFound
            BY <2>1, <2>2, <2>3, <2>4, <2>6 DEF TrueAnswer, Hunt!NotFound
        <3> QED
            BY <3>1 DEF Hunt!HuntNext
    <2>7. CASE result' = "FailedToFetchXpub"
        <3>1. Hunt!SourceFails
            BY <2>1, <2>2, <2>3, <2>7 DEF Hunt!SourceFails
        <3> QED
            BY <3>1 DEF Hunt!HuntNext
    <2> QED
        BY <2>4, <2>5, <2>6, <2>7 DEF Outcomes
<1>4. CASE SpawnFetch \/ DropSenders \/ SetStop \/ Output
    BY <1>4, HuntStutters DEF SpawnFetch, DropSenders, SetStop, Output, collectVars
<1>5. CASE Worker
    <2>1. fetched' = fetched /\ fileKey' = fileKey /\ backup' = backup /\ result' = result
          /\ mpc' = mpc
        BY <1>5 DEF Worker, TakeKey, CheckStop, TryKey, WorkerAnswer, NoMoreKeys, GiveUp,
                    collectVars
    <2> QED
        BY <2>1, HuntStutters
<1>6. CASE Listing \/ DeviceAnswer
    <2>1. fetched' = fetched /\ mainVars' = mainVars
        BY <1>6 DEF Listing, FetchList, List, DeviceAnswer, Answer
    <2> QED
        BY <2>1, HuntStutters DEF mainVars
<1>7. CASE Fetch /\ ~FetchXpub
    <2>1. fetched' = fetched /\ fileKey' = fileKey /\ backup' = backup /\ result' = result
          /\ mpc' = mpc
        BY <1>7 DEF Fetch, FetchBegin, FetchCheck, Check, FetchCall, Spawn, FetchOther, Unlocked,
                    Miss, FetchDone, FetchFailed, FetchReport, collectVars, mainVars
    <2> QED
        BY <2>1, HuntStutters
<1>8. CASE UNCHANGED vars
    BY <1>8, HuntStutters DEF vars, collectVars, threadVars
<1> QED
    BY <1>1, <1>2, <1>3, <1>4, <1>5, <1>6, <1>7, <1>8 DEF Next, Main

\* The command implements the key hunt: whatever the threads, the channels and
\* the flag do, the document comes from a key that was offered, and a negative
\* answer only when no key that was or will be offered opens the backup.
THEOREM ImplementsKeyHunt == Spec => KeyHuntSpec
<1>1. Init => Hunt!HuntInit
    BY DEF Init, CollectInit, Hunt!HuntInit, Offered
<1>2. CommandInv /\ [Next]_vars => [Hunt!HuntNext]_(Hunt!huntVars)
    BY HuntStep
<1> QED
    BY <1>1, <1>2, CommandInvariance, PTL DEF Spec, KeyHuntSpec, Hunt!HuntSpec
=============================================================================
