------------------------ MODULE EncryptCommandProofs ------------------------
(***************************************************************************)
(* Theorems about EncryptCommand: any command line, files, descriptors and *)
(* keys, with the arguments piped in or not.                               *)
(*                                                                         *)
(* The levels of a backup need no induction: the invariant says that there *)
(* are w[1], w[2], ... each of which is what its level makes of the next,  *)
(* and that the holder stands past one of them.                            *)
(***************************************************************************)
EXTENDS EncryptCommand, RecursionProofs

-----------------------------------------------------------------------------
(* The invariant                                                           *)

States == {"idle", "descriptor", "levels", "device", "encrypt", "create", "write", "done",
           "failed"}

\* the output file is opened last, and written at once
FileInv ==
    /\ pc \in States
    /\ OldFileKept

Kept(ks) == {k \in ks : XOnly[k] \notin request.descriptor.exposed}
Given == device.key \cup request.descriptor.keys

\* the builder and the backup of a command with --device
DeviceInv ==
    request.device # NoDevice =>
       /\ pc # "levels"
       /\ pc = "device" => /\ builder.keys = Kept(request.descriptor.keys)
                           /\ builder.exposed = request.descriptor.exposed
       /\ pc = "encrypt" => builder.keys = Kept(Given)
       /\ pc \in {"create", "write", "done"} =>
             sealed.to = XOnlys(Given) \ (request.descriptor.exposed \cup {NumsX})

\* a key is asked from the device only with --device, and once
DeviceAsked ==
    /\ pc = "device" => request.device # NoDevice
    /\ pc \in {"idle", "descriptor", "device"} => device = NoKey
    /\ "keys" \in DOMAIN builder


-----------------------------------------------------------------------------
(* The arguments                                                           *)

\* the reader has taken nRead lines of text
ReadSoFar ==
    /\ collected = WordsOf(line.piped, nRead)
    /\ \A i \in 1..nRead : line.piped[i].utf8

AllText == \A i \in DOMAIN line.piped : line.piped[i].utf8

\* what the reader has sent is final
SentInv ==
    \/ channel = Nothing
    \/ channel = Failed /\ ~AllText
    \/ channel = Args(AllWords(line.piped)) /\ AllText

CliInv ==
    /\ line \in CommandLineType
    /\ written \in 0..Len(line.piped) /\ nRead \in 0..written
    /\ closed => written = Len(line.piped)
    /\ cli \in {"start", "wait", "parsed", "failed"}
    /\ reader \in {"off", "reading", "done"}
    /\ cli = "start" => reader = "off"
    /\ reader # "done" => channel = Nothing /\ ReadSoFar
    /\ SentInv
    /\ cli = "wait" => arguments = line.typed
    /\ ArgumentsWhole

\* The command line and the pipe are sequences of words and of lines.
LEMMA LineTyped ==
    ASSUME line \in CommandLineType
    PROVE  line.typed \in Seq(Word) /\ line.piped \in Seq(LineType) /\ Len(line.piped) \in Nat
<1>1. line.typed \in Seq(Word) /\ line.piped \in Seq(LineType)
    BY DEF CommandLineType
<1> QED
    BY <1>1

\* The words of n lines are those of n - 1 lines and of the last of them.
LEMMA WordsNext ==
    ASSUME NEW ls \in Seq(LineType), NEW n \in 0..Len(ls)
    PROVE  /\ WordsOf(ls, 0) = <<>>
           /\ WordsOf(ls, n) \in Seq(Word)
           /\ n # 0 => WordsOf(ls, n) = WordsOf(ls, n - 1) \o ls[n].words
<1> DEFINE V == Word
           f == [i \in DOMAIN ls |-> ls[i].words]
<1>1. DOMAIN ls = 1..Len(ls) /\ Len(ls) \in Nat /\ n \in Nat
    OBVIOUS
<1>2. \A i \in DOMAIN ls : ls[i].words \in Seq(V)
    <2>1. \A i \in DOMAIN ls : ls[i] \in LineType
        OBVIOUS
    <2> QED
        BY <2>1 DEF LineType
<1>3. \A i \in 1..n : f[i] = ls[i].words /\ f[i] \in Seq(V)
    BY <1>1, <1>2
<1> HIDE DEF f, V
<1>4. /\ Concat(f, 0) = <<>> /\ Concat(f, n) \in Seq(V)
      /\ n # 0 => Concat(f, n) = Concat(f, n - 1) \o f[n]
    BY <1>1, <1>3, ConcatNext
<1>5. n # 0 => n \in 1..n
    BY <1>1
<1>6. \A m : WordsOf(ls, m) = Concat(f, m)
    BY DEF WordsOf, f
<1> QED
    BY <1>3, <1>4, <1>5, <1>6 DEF V

\* The program starts with nothing read.
LEMMA CliInitInv == Init => CliInv
<1> SUFFICES ASSUME Init
             PROVE  CliInv
    OBVIOUS
<1>1. line \in CommandLineType
    BY CommandAssumption DEF Init, CliInit
<1>2. ReadSoFar
    <2>1. 0 \in 0..Len(line.piped)
        BY <1>1, LineTyped
    <2>2. WordsOf(line.piped, 0) = <<>>
        BY <1>1, <2>1, LineTyped, WordsNext
    <2> QED
        BY <2>2 DEF ReadSoFar, Init, CliInit
<1>3. SentInv /\ ArgumentsWhole
    BY DEF SentInv, ArgumentsWhole, Init, CliInit
<1> QED
    BY <1>1, <1>2, <1>3, LineTyped DEF CliInv, Init, CliInit

\* The producer, the reader and the command keep the invariant.
LEMMA CliStepInv ==
    ASSUME CliInv, CliStep
    PROVE  CliInv'
<1> USE DEF CliInv
<1>1. /\ Nothing # Failed /\ \A ws : Args(ws) # Nothing /\ Args(ws) # Failed
      /\ \A ws : Args(ws).args = ws
    BY DEF Nothing, Failed, Args
<1>2. line.typed \in Seq(Word) /\ line.piped \in Seq(LineType) /\ Len(line.piped) \in Nat
    BY LineTyped
<1>3. ASSUME line' = line PROVE /\ AllText' = AllText
                                /\ AllWords(line.piped)' = AllWords(line.piped)
    BY <1>3 DEF AllText, AllWords, WordsOf
<1>4. ASSUME line' = line, cli' = cli, arguments' = arguments
      PROVE  ArgumentsWhole'
    BY <1>3, <1>4 DEF ArgumentsWhole, AllText
<1>5. ASSUME line' = line, nRead' = nRead, collected' = collected
      PROVE  ReadSoFar' = ReadSoFar
    BY <1>5 DEF ReadSoFar, WordsOf
<1>6. ASSUME line' = line, channel' = channel PROVE SentInv'
    BY <1>3, <1>6 DEF SentInv
<1>7. CASE WriteLine
    <2>1. written' \in 0..Len(line.piped) /\ nRead \in 0..written'
        BY <1>2, <1>7 DEF WriteLine
    <2> QED
        BY <1>4, <1>5, <1>6, <1>7, <2>1 DEF WriteLine
<1>8. CASE ClosePipe
    BY <1>4, <1>5, <1>6, <1>8 DEF ClosePipe
<1>9. CASE ReadLine
    <2>1. nRead + 1 \in 0..written /\ nRead \in 0..Len(line.piped) /\ nRead # Len(line.piped)
        BY <1>2, <1>9 DEF ReadLine
    <2>2. WordsOf(line.piped, nRead + 1) = WordsOf(line.piped, nRead) \o line.piped[nRead + 1].words
        <3>1. nRead + 1 \in 0..Len(line.piped) /\ nRead + 1 # 0 /\ (nRead + 1) - 1 = nRead
            BY <1>2, <2>1
        <3> QED
            BY <1>2, <3>1, WordsNext
    <2>3. /\ nRead' = nRead + 1 /\ line' = line
          /\ collected' = collected \o line.piped[nRead + 1].words
        BY <1>9 DEF ReadLine, Next1
    <2>4. \A i \in 1..(nRead + 1) : line.piped[i].utf8
        <3>1. \A i \in 1..(nRead + 1) : i \in 1..nRead \/ i = nRead + 1
            BY <2>1
        <3> QED
            BY <1>9, <3>1 DEF ReadLine, Next1, ReadSoFar
    <2>5. ReadSoFar'
        BY <1>9, <2>2, <2>3, <2>4 DEF ReadSoFar, ReadLine, WordsOf
    <2> QED
        BY <1>4, <1>6, <1>9, <2>1, <2>5 DEF ReadLine
<1>10. CASE ReadFails
    <2>1. nRead + 1 \in DOMAIN line.piped /\ ~line.piped[nRead + 1].utf8 /\ nRead + 1 \in 0..written
        BY <1>2, <1>10 DEF ReadFails, Next1
    <2>2. SentInv'
        BY <1>3, <1>10, <2>1 DEF SentInv, AllText, ReadFails
    <2> QED
        BY <1>4, <1>10, <2>1, <2>2 DEF ReadFails
<1>11. CASE ReadEnd
    <2>1. collected = AllWords(line.piped) /\ AllText
        BY <1>2, <1>11 DEF ReadEnd, ReadSoFar, AllWords, AllText
    <2>2. SentInv'
        BY <1>3, <1>11, <2>1 DEF SentInv, ReadEnd
    <2> QED
        BY <1>4, <1>11, <2>2 DEF ReadEnd
<1>12. CASE StartCli
    <2>1. /\ line' = line /\ cli' \in {"parsed", "wait"} /\ arguments' = line.typed
          /\ reader' \in {"off", "reading"} /\ reader = "off"
          /\ <<written, closed, nRead, collected, channel>>'
                = <<written, closed, nRead, collected, channel>>
        BY <1>12 DEF StartCli
    <2>2. ArgumentsWhole'
        BY <2>1 DEF ArgumentsWhole
    <2> QED
        BY <1>5, <1>6, <2>1, <2>2
<1>13. CASE ReceiveArgs
    <2>1. /\ line' = line /\ cli' \in {"parsed", "failed"}
          /\ <<written, closed, reader, nRead, collected, channel>>'
                = <<written, closed, reader, nRead, collected, channel>>
        BY <1>13 DEF ReceiveArgs
    <2>2. ArgumentsWhole'
        <3>1. CASE channel = Failed
            <4>1. cli' = "failed" /\ ~AllText
                BY <1>1, <1>13, <3>1 DEF ReceiveArgs, SentInv
            <4> QED
                BY <2>1, <4>1 DEF ArgumentsWhole, AllText
        <3>2. CASE channel # Failed
            <4>1. channel = Args(AllWords(line.piped)) /\ AllText
                BY <1>13, <3>2 DEF ReceiveArgs, SentInv
            <4>2. cli' = "parsed" /\ arguments' = line.typed \o AllWords(line.piped)
                BY <1>1, <1>13, <3>2, <4>1 DEF ReceiveArgs
            <4> QED
                BY <1>3, <2>1, <4>1, <4>2 DEF ArgumentsWhole, AllText
        <3> QED
            BY <3>1, <3>2
    <2> QED
        BY <1>5, <1>6, <1>13, <2>1, <2>2 DEF ReceiveArgs
<1>14. CASE GiveUp
    <2>1. ArgumentsWhole'
        BY <1>14 DEF GiveUp, ArgumentsWhole
    <2> QED
        BY <1>5, <1>6, <1>14, <2>1 DEF GiveUp
<1> QED
    BY <1>7, <1>8, <1>9, <1>10, <1>11, <1>12, <1>13, <1>14
    DEF CliStep, Producer, Reader, Parser

\* The commands leave the arguments alone.
LEMMA CliNextInv ==
    ASSUME CliInv, [Next]_vars
    PROVE  CliInv'
<1>1. CASE CliStep
    BY <1>1, CliStepInv
<1>2. CASE UNCHANGED cliVars
    <2>1. /\ line' = line /\ written' = written /\ closed' = closed /\ reader' = reader
          /\ nRead' = nRead /\ collected' = collected /\ channel' = channel /\ cli' = cli
          /\ arguments' = arguments
        BY <1>2 DEF cliVars
    <2>2. ReadSoFar' = ReadSoFar
        BY <2>1 DEF ReadSoFar
    <2>3. SentInv' = SentInv
        BY <2>1 DEF SentInv, AllText
    <2>4. ArgumentsWhole' = ArgumentsWhole
        BY <2>1 DEF ArgumentsWhole
    <2> QED
        BY <2>1, <2>2, <2>3, <2>4 DEF CliInv
<1>3. EncryptStep => UNCHANGED cliVars
    BY DEF EncryptStep, NoStart, Start, EncryptLevel, DescriptorBackup, FetchKey, FetchFails,
           EncryptDescriptor, Create, WritePart, Write
<1>4. HolderStep => UNCHANGED cliVars
    BY DEF HolderStep, Open, Peel
<1>5. UNCHANGED vars => UNCHANGED cliVars
    BY DEF vars
<1> QED
    BY <1>1, <1>2, <1>3, <1>4, <1>5 DEF Next

\* What the command line is parsed from is a sequence of words.
LEMMA ArgumentsTyped ==
    ASSUME CliInv, cli = "parsed"
    PROVE  arguments \in Seq(Word)
<1>1. line.typed \in Seq(Word) /\ line.piped \in Seq(LineType) /\ Len(line.piped) \in Nat
    BY LineTyped DEF CliInv
<1>2. AllWords(line.piped) \in Seq(Word)
    <2>1. Len(line.piped) \in 0..Len(line.piped)
        BY <1>1
    <2> QED
        BY <1>1, <2>1, WordsNext DEF AllWords
<1>3. line.typed \o AllWords(line.piped) \in Seq(Word)
    BY <1>1, <1>2
<1>4. arguments = line.typed \/ arguments = line.typed \o AllWords(line.piped)
    BY DEF CliInv, ArgumentsWhole
<1> QED
    BY <1>1, <1>3, <1>4

-----------------------------------------------------------------------------
(* The builder                                                             *)

\* A payload's keys, without those it exposes, become the keys of a new builder.
LEMMA PayloadKeys ==
    ASSUME NEW d
    PROVE  /\ WithPayload(NewBuilder, d).keys = {k \in d.keys : XOnly[k] \notin d.exposed}
           /\ WithPayload(NewBuilder, d).exposed = d.exposed
           /\ "keys" \in DOMAIN WithPayload(NewBuilder, d)
<1> DEFINE b == [Pool(NewBuilder, {d}) EXCEPT
                    !.payload = ToEncrypt(d.data),
                    !.content = IF d.content \in KnownContents THEN d.content
                                ELSE NewBuilder.content]
<1>1. UNION {x.keys : x \in {d}} = d.keys /\ UNION {x.exposed : x \in {d}} = d.exposed
    OBVIOUS
<1>2. b.keys = d.keys /\ b.exposed = d.exposed
    BY <1>1 DEF Pool, NewBuilder
<1>3. "keys" \in DOMAIN b
    BY DEF Pool, NewBuilder
<1> HIDE DEF b
<1>4. /\ DropExposedKeys(b).keys = b.keys \ ExposedRoots(b)
      /\ DropExposedKeys(b).exposed = b.exposed
      /\ "keys" \in DOMAIN DropExposedKeys(b)
    BY <1>3 DEF DropExposedKeys
<1> USE DEF b
<1>5. WithPayload(NewBuilder, d) = DropExposedKeys(b)
    BY DEF WithPayload
<1> QED
    BY <1>2, <1>4, <1>5 DEF ExposedRoots

\* So they do with a message next to the payload.
LEMMA PayloadsKeys ==
    ASSUME NEW d, NEW t
    PROVE  LET many == WithPayloads(NewBuilder, <<StringPayload(t), d>>)
           IN  /\ many.keys = {k \in d.keys : XOnly[k] \notin d.exposed}
               /\ many.exposed = d.exposed
               /\ "keys" \in DOMAIN many
<1> DEFINE items == <<StringPayload(t), d>>
           all == {items[i] : i \in DOMAIN items}
           b == Pool(NewBuilder, all)
<1>1. all = {StringPayload(t), d}
    <2>1. DOMAIN items = {1, 2} /\ items[1] = StringPayload(t) /\ items[2] = d
        OBVIOUS
    <2> QED
        BY <2>1
<1>2. StringPayload(t).keys = {} /\ StringPayload(t).exposed = {}
    BY DEF StringPayload
<1>3. UNION {x.keys : x \in all} = d.keys /\ UNION {x.exposed : x \in all} = d.exposed
    BY <1>1, <1>2
<1> HIDE DEF all
<1>4. b.keys = d.keys /\ b.exposed = d.exposed
    BY <1>3 DEF Pool, NewBuilder
<1>5. /\ DropExposedKeys(b).keys = b.keys \ ExposedRoots(b)
      /\ DropExposedKeys(b).exposed = b.exposed
      /\ "keys" \in DOMAIN DropExposedKeys(b)
    BY DEF DropExposedKeys, Pool, NewBuilder
<1>6. /\ WithPayloads(NewBuilder, items).keys = DropExposedKeys(b).keys
      /\ WithPayloads(NewBuilder, items).exposed = DropExposedKeys(b).exposed
      /\ "keys" \in DOMAIN WithPayloads(NewBuilder, items)
    <2> DEFINE kept == DropExposedKeys(b)
               whole == ToEncryptMany([i \in DOMAIN items |-> <<items[i].content, items[i].data>>])
    <2>1. "keys" \in DOMAIN kept
        BY <1>5
    <2>2. WithPayloads(NewBuilder, items) = [kept EXCEPT !.payload = whole]
        BY DEF WithPayloads, all
    <2> HIDE DEF kept, whole
    <2>3. /\ [kept EXCEPT !.payload = whole].keys = kept.keys
          /\ "keys" \in DOMAIN [kept EXCEPT !.payload = whole]
        BY <2>1
    <2>4. "exposed" \in DOMAIN kept
        BY DEF kept, DropExposedKeys, Pool, NewBuilder
    <2>5. [kept EXCEPT !.payload = whole].exposed = kept.exposed
        BY <2>4
    <2> QED
        BY <2>2, <2>3, <2>5 DEF kept
<1> QED
    BY <1>4, <1>5, <1>6 DEF ExposedRoots

\* set_keys drops the exposed keys from those it is given.
LEMMA SetKeys ==
    ASSUME NEW b, "keys" \in DOMAIN b, NEW ks
    PROVE  /\ WithKeys(b, ks).keys = {k \in ks : XOnly[k] \notin b.exposed}
           /\ "keys" \in DOMAIN WithKeys(b, ks)
<1> DEFINE c == [b EXCEPT !.keys = ks]
<1>1. c.keys = ks /\ c.exposed = b.exposed /\ "keys" \in DOMAIN c
    OBVIOUS
<1>2. /\ DropExposedKeys(c).keys = c.keys \ ExposedRoots(c)
      /\ "keys" \in DOMAIN DropExposedKeys(c)
    <2> HIDE DEF c
    <2> QED
        BY <1>1 DEF DropExposedKeys
<1> QED
    BY <1>1, <1>2 DEF WithKeys, ExposedRoots

-----------------------------------------------------------------------------
(* The output file                                                         *)

\* No refusal of the builder is taken for a failed write.
LEMMA RefusalIsNoWriteError ==
    ASSUME NEW b
    PROVE  EncryptError(b) # "WriteError"
BY DEF EncryptError

\* Steps before the output file is created.
LEMMA FileUntouched ==
    ASSUME FileInv, pc \notin {"write", "done", "failed"}, file' = file,
           pc' \in States \ {"write", "done"}, pc' = "failed" => error' # "WriteError"
    PROVE  FileInv'
BY DEF FileInv, OldFileKept

\* Every step keeps what is known of the output file.
LEMMA FileStep ==
    ASSUME FileInv, [Next]_vars
    PROVE  FileInv'
<1>1. CASE NoStart
    <2>1. pc = "idle" /\ pc' = "failed" /\ file' = file /\ error' # "WriteError"
        BY <1>1 DEF NoStart, Fail
    <2> QED
        BY <2>1, FileUntouched DEF States
<1>2. ASSUME NEW d \in Documents, NEW fault \in {"none", "ReadError", "CantConvertToDescriptor"},
             Start(d, fault)
      PROVE  FileInv'
    <2>1. pc = "idle" /\ pc' \in {"failed", "descriptor", "levels"} /\ file' = file
        BY <1>2 DEF Start, Fail
    <2>2. pc' = "failed" => error' # "WriteError"
        BY <1>2 DEF Start, Fail
    <2> QED
        BY <2>1, <2>2, FileUntouched DEF States
<1>3. CASE EncryptLevel
    <2>1. pc = "levels" /\ pc' \in {"failed", "create", "levels"} /\ file' = file
        BY <1>3 DEF EncryptLevel, Fail
    <2>2. pc' = "failed" => error' # "WriteError"
        BY <1>3, RefusalIsNoWriteError DEF EncryptLevel, Fail
    <2> QED
        BY <2>1, <2>2, FileUntouched DEF States
<1>4. CASE DescriptorBackup
    <2>1. pc = "descriptor" /\ pc' \in {"encrypt", "device"} /\ file' = file
        BY <1>4 DEF DescriptorBackup
    <2> QED
        BY <2>1, FileUntouched DEF States
<1>5. ASSUME NEW p \in Paths, FetchKey(p)
      PROVE  FileInv'
    <2>1. pc = "device" /\ pc' = "encrypt" /\ file' = file
        BY <1>5 DEF FetchKey
    <2> QED
        BY <2>1, FileUntouched DEF States
<1>6. CASE FetchFails
    <2>1. pc = "device" /\ pc' = "failed" /\ file' = file /\ error' # "WriteError"
        BY <1>6 DEF FetchFails, Fail
    <2> QED
        BY <2>1, FileUntouched DEF States
<1>7. CASE EncryptDescriptor
    <2>1. pc = "encrypt" /\ pc' \in {"failed", "create"} /\ file' = file
        BY <1>7 DEF EncryptDescriptor, Fail
    <2>2. pc' = "failed" => error' # "WriteError"
        BY <1>7, RefusalIsNoWriteError DEF EncryptDescriptor, Fail
    <2> QED
        BY <2>1, <2>2, FileUntouched DEF States
<1>8. CASE Create
    <2>1. CASE pc' = "write"
        BY <1>8, <2>1 DEF FileInv, OldFileKept, BeginsWriting, States, Create, Fail
    <2>2. CASE pc' # "write"
        <3>1. pc = "create" /\ pc' = "failed" /\ file' = file /\ error' # "WriteError"
            BY <1>8, <2>2 DEF Create, Fail
        <3> QED
            BY <3>1, FileUntouched DEF States
    <2> QED
        BY <2>1, <2>2
<1>9. CASE WritePart \/ Write
    <2>1. sealed' = sealed /\ pc = "write" /\ BeginsWriting
        BY <1>9 DEF WritePart, Write, FileInv, OldFileKept
    <2>2. CASE WritePart
        <3>1. pc' = "write" /\ BeginsWriting'
            BY <2>1, <2>2 DEF WritePart, BeginsWriting
        <3> QED
            BY <3>1 DEF FileInv, OldFileKept, States
    <2>3. CASE pc' = "done" /\ file' = <<Backup(sealed)>>
        <3>1. file' = <<Backup(sealed)>>'
            BY <2>1, <2>3 DEF Backup
        <3> QED
            BY <2>3, <3>1 DEF FileInv, OldFileKept, States
    <2>4. CASE pc' = "failed" /\ error' = "WriteError" /\ file' = file
        <3>1. BeginsWriting'
            BY <2>1, <2>4 DEF BeginsWriting, PartOf
        <3> QED
            BY <2>4, <3>1 DEF FileInv, OldFileKept, States
    <2> QED
        BY <1>9, <2>2, <2>3, <2>4 DEF Write, Fail
<1>10. CASE UNCHANGED commandVars
    <2>1. pc' = pc /\ file' = file /\ sealed' = sealed /\ error' = error
        BY <1>10 DEF commandVars
    <2> QED
        BY <2>1 DEF FileInv, OldFileKept, BeginsWriting, Backup, PartOf
<1>11. HolderStep => UNCHANGED commandVars
    BY DEF HolderStep, Open, Peel
<1>12. UNCHANGED encryptVars => UNCHANGED commandVars
    BY DEF encryptVars
<1>13. UNCHANGED vars => UNCHANGED commandVars
    BY DEF vars, encryptVars
<1> QED
    BY <1>1, <1>2, <1>3, <1>4, <1>5, <1>6, <1>7, <1>8, <1>9, <1>10, <1>11, <1>12, <1>13
    DEF Next, EncryptStep

-----------------------------------------------------------------------------
(* The key of the device                                                   *)

\* A command line with levels and a device is refused.
LEMMA LevelsOrDevice ==
    ASSUME NEW d, NEW fault \in {"none", "ReadError", "CantConvertToDescriptor"},
           Start(d, fault), pc' = "levels"
    PROVE  request'.device = NoDevice
<1> DEFINE r == Requested(d)
<1>1. r.levels # <<>> /\ request' = r
    BY DEF Start, Fail
<1>2. CASE fault = "ReadError"
    BY <1>2 DEF Start, Fail
<1>3. CASE fault # "ReadError" /\ \E i \in DOMAIN r.levels : ~GoodLine(r.levels[i])
    BY <1>3 DEF Start, Fail
<1>4. CASE fault # "ReadError" /\ ~(\E i \in DOMAIN r.levels : ~GoodLine(r.levels[i]))
    BY <1>1, <1>4 DEF Start, Fail
<1> QED
    BY <1>2, <1>3, <1>4

\* Every step keeps what is known of the builder and of the backup.
LEMMA DeviceStep ==
    ASSUME FileInv, DeviceInv, DeviceAsked, [Next]_vars
    PROVE  DeviceInv' /\ DeviceAsked'
<1>1. CASE NoStart
    BY <1>1 DEF DeviceInv, DeviceAsked, NoStart, Fail
<1>2. ASSUME NEW d \in Documents, NEW fault \in {"none", "ReadError", "CantConvertToDescriptor"},
             Start(d, fault)
      PROVE  DeviceInv' /\ DeviceAsked'
    <2>1. pc' \in {"failed", "descriptor", "levels"} /\ device' = device /\ builder' = builder
        BY <1>2 DEF Start, Fail
    <2>2. pc' = "levels" => request'.device = NoDevice
        BY <1>2, LevelsOrDevice
    <2>3. device = NoKey
        BY <1>2 DEF DeviceAsked, Start
    <2> QED
        BY <2>1, <2>2, <2>3 DEF DeviceInv, DeviceAsked
<1>3. CASE EncryptLevel
    <2>1. request.device = NoDevice /\ pc' \in {"failed", "create", "levels"}
        BY <1>3 DEF DeviceInv, EncryptLevel, Fail
    <2>2. request' = request /\ device' = device /\ builder' = builder
        BY <1>3 DEF EncryptLevel
    <2> QED
        BY <2>1, <2>2 DEF DeviceInv, DeviceAsked
<1>4. CASE DescriptorBackup
    <2> DEFINE d == request.descriptor
    <2>1. /\ builder'.keys = Kept(d.keys) /\ builder'.exposed = d.exposed
          /\ "keys" \in DOMAIN builder'
        <3>1. CASE request.msg = NoText
            BY <1>4, <3>1, PayloadKeys DEF DescriptorBackup, Kept
        <3>2. CASE request.msg # NoText
            BY <1>4, <3>2, PayloadsKeys DEF DescriptorBackup, Kept
        <3> QED
            BY <3>1, <3>2
    <2>2. /\ request' = request /\ device' = device /\ device = NoKey
          /\ pc' \in {"encrypt", "device"} /\ (pc' = "device" <=> request.device # NoDevice)
        BY <1>4 DEF DescriptorBackup, DeviceAsked
    <2> QED
        BY <2>1, <2>2 DEF DeviceInv, DeviceAsked, Kept
<1>5. ASSUME NEW p \in Paths, FetchKey(p)
      PROVE  DeviceInv' /\ DeviceAsked'
    <2> DEFINE k == DeviceKeyAt[p]
               b == [builder EXCEPT !.paths = builder.paths \cup {p}]
               d == request.descriptor
    <2>1. /\ request' = request /\ pc' = "encrypt" /\ request.device # NoDevice
          /\ device'.key = {k} /\ builder' = WithKeys(b, builder.keys \cup {k})
        BY <1>5 DEF FetchKey, WithDeviceKey, DeviceAsked
    <2>2. "keys" \in DOMAIN b /\ b.exposed = builder.exposed
        BY DEF DeviceAsked
    <2>3. builder.keys = Kept(d.keys) /\ builder.exposed = d.exposed
        BY <1>5, <2>1 DEF FetchKey, DeviceInv
    <2> HIDE DEF b
    <2>4. /\ builder'.keys = {x \in builder.keys \cup {k} : XOnly[x] \notin b.exposed}
          /\ "keys" \in DOMAIN builder'
        BY <2>1, <2>2, SetKeys
    <2>5. builder'.keys = {x \in d.keys \cup {k} : XOnly[x] \notin d.exposed}
        BY <2>2, <2>3, <2>4 DEF Kept
    <2>6. builder'.keys = Kept(Given)'
        BY <2>1, <2>5 DEF Kept, Given
    <2> QED
        BY <2>1, <2>4, <2>6 DEF DeviceInv, DeviceAsked
<1>6. CASE FetchFails
    BY <1>6 DEF DeviceInv, DeviceAsked, FetchFails, Fail
<1>7. CASE EncryptDescriptor
    <2>1. /\ request' = request /\ device' = device /\ builder' = builder
          /\ pc' \in {"failed", "create"}
        BY <1>7 DEF EncryptDescriptor, Fail
    <2>2. pc' = "create" => sealed' = Encrypted(builder)
        BY <1>7 DEF EncryptDescriptor, Fail
    <2>3. Encrypted(builder).to = XOnlys(builder.keys) \ {NumsX}
        BY DEF Encrypted
    <2>4. XOnlys(Kept(Given)) \ {NumsX}
             = XOnlys(Given) \ (request.descriptor.exposed \cup {NumsX})
        BY DEF XOnlys, Kept
    <2>5. request.device # NoDevice => builder.keys = Kept(Given)
        BY <1>7 DEF DeviceInv, EncryptDescriptor
    <2>6. request.device # NoDevice /\ pc' = "create" =>
             sealed'.to = XOnlys(Given) \ (request.descriptor.exposed \cup {NumsX})
        BY <2>2, <2>3, <2>4, <2>5
    <2>7. Given' = Given
        BY <2>1 DEF Given
    <2> QED
        BY <2>1, <2>6, <2>7 DEF DeviceInv, DeviceAsked, XOnlys
<1>8. CASE Create \/ WritePart \/ Write
    <2>1. /\ request' = request /\ device' = device /\ builder' = builder /\ sealed' = sealed
          /\ pc \in {"create", "write"} /\ pc' \in {"write", "done", "failed"}
        BY <1>8 DEF Create, WritePart, Write, Fail
    <2>2. Given' = Given
        BY <2>1 DEF Given
    <2> QED
        BY <2>1, <2>2 DEF DeviceInv, DeviceAsked, XOnlys
<1>9. CASE UNCHANGED commandVars
    <2>1. Given' = Given /\ \A ks : Kept(ks)' = Kept(ks)
        BY <1>9 DEF commandVars, Given, Kept
    <2> QED
        BY <1>9, <2>1 DEF DeviceInv, DeviceAsked, commandVars, XOnlys, Kept
<1>10. HolderStep => UNCHANGED commandVars
    BY DEF HolderStep, Open, Peel
<1>11. UNCHANGED encryptVars => UNCHANGED commandVars
    BY DEF encryptVars
<1>12. UNCHANGED vars => UNCHANGED commandVars
    BY DEF vars, encryptVars
<1> QED
    BY <1>1, <1>2, <1>3, <1>4, <1>5, <1>6, <1>7, <1>8, <1>9, <1>10, <1>11, <1>12
    DEF Next, EncryptStep

-----------------------------------------------------------------------------
(* Levels of wrapping                                                      *)

Levels == Len(request.levels)

\* what goes into level i around the backup below
Pieces(i, below) ==
    Note(request.levels[i].note)
    \o IF i = Levels THEN Note(request.msg) \o <<request.descriptor>> ELSE <<Bip138Payload(below)>>
DataOf(i, below) ==
    {Text(request.levels[i].note)}
    \cup IF i = Levels THEN {Text(request.msg), DescriptorPiece} ELSE {Backup(below)}
AsItems(ps) == [j \in DOMAIN ps |-> <<ps[j].content, ps[j].data>>]

\* the keys that the payloads of level i expose
ExposedAt(i) == IF i = Levels THEN request.descriptor.exposed ELSE {}

\* b is the backup of level i around the backup below
IsLevel(b, i, below) ==
    /\ b.format = "V1" /\ b.encryption = "ChaCha20Poly1305" /\ b.decodes
    /\ b.to = XOnlys({k \in request.levels[i].keys : XOnly[k] \notin ExposedAt(i)}) \ {NumsX}
    /\ b.items = AsItems(Pieces(i, below))

\* each of w[i], w[i + 1], ... is what its level makes of the next
Wraps(w, i) == \A j \in i..Levels : IsLevel(w[j], j, w[j + 1])

Sealing == pc \in {"levels", "create", "write", "done"} /\ request.levels # <<>>

\* where the holder stands: at the file, or past level i
Standing(w) ==
    \/ document = <<Backup(w[1])>>
    \/ \E i \in 1..Levels : /\ document \in Seq(DataOf(i, w[i + 1]))
                            /\ \A j \in 1..i : Opened(j)

\* what the command has sealed: the levels below todo, each around the next
SealInv ==
    /\ request.levels \in Seq(LevelType)
    /\ DOMAIN DescriptorPiece = {"text"}
    /\ pc \in {"idle", "descriptor", "device", "encrypt"} => request.levels = <<>>
    /\ pc = "levels" => todo \in 1..Levels
    /\ pc \in {"create", "write", "done"} /\ request.levels # <<>> => todo = 0
    /\ Sealing => \E w : w[todo + 1] = sealed /\ Wraps(w, todo + 1)

\* the holder starts from the file and gets past a level with a key of it
HolderInv ==
    /\ document # <<>> => pc = "done"
    /\ document # <<>> /\ request.levels # <<>> => \E w : Wraps(w, 1) /\ Standing(w)

\* The backup of a builder that was given payloads and then the keys of a level.
LEMMA SealedLevel ==
    ASSUME NEW ps, NEW paths, NEW ks
    PROVE  LET b == Encrypted(WithKeys([WithPayloads(NewBuilder, ps) EXCEPT !.paths = paths], ks))
               exposed == UNION {x.exposed : x \in {ps[i] : i \in DOMAIN ps}}
           IN  /\ b.format = "V1" /\ b.encryption = "ChaCha20Poly1305" /\ b.decodes
               /\ b.to = XOnlys({k \in ks : XOnly[k] \notin exposed}) \ {NumsX}
               /\ b.items = AsItems(ps)
<1> DEFINE all == {ps[i] : i \in DOMAIN ps}
           exposed == UNION {x.exposed : x \in all}
           Fields == {"version", "content", "encryption", "paths", "keys", "exposed", "keyPaths",
                      "payload", "warnings", "padding", "storeCommon"}
           b1 == Pool(NewBuilder, all)
           b2 == DropExposedKeys(b1)
           many == ToEncryptMany(AsItems(ps))
           b3 == [b2 EXCEPT !.payload = many]
           b4 == [b3 EXCEPT !.paths = paths]
           b5 == [b4 EXCEPT !.keys = ks]
           b6 == DropExposedKeys(b5)
<1>1. /\ b1.exposed = exposed /\ b1.encryption = "ChaCha20Poly1305"
      /\ DOMAIN b1 = Fields
    BY DEF Pool, NewBuilder
<1>2. WithKeys([WithPayloads(NewBuilder, ps) EXCEPT !.paths = paths], ks) = b6
    BY DEF WithKeys, WithPayloads, AsItems
<1> HIDE DEF b1, exposed
<1>3. b2.exposed = exposed /\ b2.encryption = "ChaCha20Poly1305" /\ DOMAIN b2 = Fields
    BY <1>1 DEF DropExposedKeys
<1> HIDE DEF b2, many
<1>4. /\ b3.exposed = exposed /\ b3.encryption = "ChaCha20Poly1305" /\ b3.payload = many
      /\ DOMAIN b3 = Fields
    BY <1>3
<1> HIDE DEF b3
<1>5. /\ b4.exposed = exposed /\ b4.encryption = "ChaCha20Poly1305" /\ b4.payload = many
      /\ DOMAIN b4 = Fields
    BY <1>4
<1> HIDE DEF b4
<1>6. /\ b5.exposed = exposed /\ b5.encryption = "ChaCha20Poly1305" /\ b5.payload = many
      /\ DOMAIN b5 = Fields /\ b5.keys = ks
    BY <1>5
<1> HIDE DEF b5
<1>7. /\ b6.encryption = "ChaCha20Poly1305" /\ b6.payload = many
      /\ b6.keys = {k \in ks : XOnly[k] \notin exposed}
    BY <1>6 DEF DropExposedKeys, ExposedRoots
<1> HIDE DEF b6
<1>8. many.is = "many" /\ many.items = AsItems(ps)
    BY DEF many, ToEncryptMany
<1> QED
    BY <1>2, <1>7, <1>8 DEF Encrypted, Items, exposed

\* What is in a sequence.
Within(s) == {s[j] : j \in DOMAIN s}

LEMMA WithinJoined ==
    ASSUME NEW V, NEW s \in Seq(V), NEW t \in Seq(V)
    PROVE  s \o t \in Seq(V) /\ Within(s \o t) = Within(s) \cup Within(t)
<1> DEFINE m == Len(s)
           n == Len(t)
           u == s \o t
<1>1. /\ DOMAIN s = 1..m /\ DOMAIN t = 1..n /\ DOMAIN u = 1..(m + n)
      /\ m \in Nat /\ n \in Nat
    OBVIOUS
<1>2. u \in Seq(V) /\ \A i \in 1..(m + n) : u[i] = IF i <= m THEN s[i] ELSE t[i - m]
    BY ConcatProperties
<1> HIDE DEF m, n, u
<1>3. \A i \in 1..m : i \in 1..(m + n) /\ u[i] = s[i]
    BY <1>1, <1>2
<1>4. ASSUME NEW i \in 1..n PROVE m + i \in 1..(m + n) /\ u[m + i] = t[i]
    <2>1. m + i \in 1..(m + n) /\ ~(m + i <= m) /\ (m + i) - m = i
        BY <1>1
    <2> QED
        BY <1>2, <2>1
<1>5. ASSUME NEW i \in 1..(m + n) PROVE u[i] \in Within(s) \cup Within(t)
    <2>1. CASE i <= m
        <3>1. i \in 1..m /\ u[i] = s[i]
            BY <1>1, <1>2, <2>1
        <3> QED
            BY <1>1, <3>1 DEF Within
    <2>2. CASE ~(i <= m)
        <3>1. i - m \in 1..n
            BY <1>1, <2>2
        <3>2. u[i] = t[i - m]
            BY <1>2, <2>2
        <3> QED
            BY <1>1, <3>1, <3>2 DEF Within
    <2> QED
        BY <2>1, <2>2
<1>6. Within(u) = Within(s) \cup Within(t)
    <2>1. Within(s) \subseteq Within(u)
        BY <1>1, <1>3 DEF Within
    <2>2. Within(t) \subseteq Within(u)
        BY <1>1, <1>4 DEF Within
    <2>3. Within(u) \subseteq Within(s) \cup Within(t)
        BY <1>1, <1>5 DEF Within
    <2> QED
        BY <2>1, <2>2, <2>3
<1> QED
    BY <1>2, <1>6 DEF u

\* The pieces of a level are its texts and the descriptor or the backup below.
LEMMA PiecesOf ==
    ASSUME NEW i, NEW below
    PROVE  LET ps == Pieces(i, below)
           IN  /\ ps \in Seq(Within(ps))
               /\ \A x \in Within(ps) : x.data \in DataOf(i, below)
               /\ UNION {x.exposed : x \in Within(ps)} = ExposedAt(i)
<1> DEFINE ps == Pieces(i, below)
           note == StringPayload(request.levels[i].note)
           msg == StringPayload(request.msg)
           d == request.descriptor
           backup == Bip138Payload(below)
           V == {note, msg, d, backup}
           n == Note(request.levels[i].note)
           m == IF i = Levels THEN Note(request.msg) ELSE <<>>
           last == <<IF i = Levels THEN d ELSE backup>>
<1>1. /\ note.exposed = {} /\ note.data = Text(request.levels[i].note)
      /\ msg.exposed = {} /\ msg.data = Text(request.msg)
      /\ backup.exposed = {} /\ backup.data = Backup(below)
    BY DEF StringPayload, Bip138Payload
<1>2. n \in {<<>>, <<note>>} /\ m \in {<<>>, <<msg>>}
    BY DEF Note
<1> HIDE DEF note, msg, backup
<1>3. n \in Seq(V) /\ m \in Seq(V) /\ last \in Seq(V)
    <2>1. <<>> \in Seq(V) /\ \A v \in V : <<v>> \in Seq(V)
        OBVIOUS
    <2>2. \A v \in {note, msg, d, backup} : v \in V
        OBVIOUS
    <2>3. last \in {<<d>>, <<backup>>}
        OBVIOUS
    <2> HIDE DEF V, n, m, last
    <2> QED
        BY <1>2, <2>1, <2>2, <2>3
<1>4. /\ Within(n) \subseteq {note} /\ Within(m) \subseteq {msg}
      /\ Within(last) = {IF i = Levels THEN d ELSE backup}
    BY <1>2 DEF Within
<1>5. ps = n \o (m \o last)
    <2>1. CASE i = Levels
        BY <2>1 DEF Pieces
    <2>2. CASE i # Levels
        <3>1. m \o last = last
            <4> HIDE DEF last, V
            <4> QED
                BY <1>3, <2>2, ConcatEmptySeq
        <3>2. ps = n \o last
            BY <2>2 DEF Pieces, backup
        <3> QED
            BY <3>1, <3>2
    <2> QED
        BY <2>1, <2>2
<1> HIDE DEF ps, n, last
<1>6. i # Levels => Within(m) = {}
    BY DEF Within
<1> HIDE DEF m, V
<1>7. ps \in Seq(V) /\ Within(ps) = Within(n) \cup Within(m) \cup Within(last)
    <2> DEFINE rest == m \o last
    <2>1. rest \in Seq(V) /\ Within(rest) = Within(m) \cup Within(last)
        BY <1>3, WithinJoined
    <2> HIDE DEF rest
    <2>2. n \o rest \in Seq(V) /\ Within(n \o rest) = Within(n) \cup Within(rest)
        BY <1>3, <2>1, WithinJoined
    <2> QED
        BY <1>5, <2>1, <2>2 DEF rest
<1>8. ps \in Seq(Within(ps))
    BY <1>7 DEF Within
<1>9. CASE i = Levels
    <2>1. DataOf(i, below) = {Text(request.levels[i].note), Text(request.msg), d.data}
        BY <1>9 DEF DataOf, DescriptorPiece
    <2>2. ExposedAt(i) = d.exposed
        BY <1>9 DEF ExposedAt
    <2>3. Within(ps) \subseteq {note, msg, d} /\ d \in Within(ps)
        BY <1>4, <1>7, <1>9
    <2>4. UNION {x.exposed : x \in Within(ps)} = d.exposed
        BY <1>1, <2>3
    <2>5. \A x \in Within(ps) : x.data \in DataOf(i, below)
        BY <1>1, <2>1, <2>3
    <2> QED
        BY <1>8, <2>2, <2>4, <2>5 DEF ps
<1>10. CASE i # Levels
    <2>1. DataOf(i, below) = {Text(request.levels[i].note), Backup(below)}
        BY <1>10 DEF DataOf
    <2>2. ExposedAt(i) = {}
        BY <1>10 DEF ExposedAt
    <2>3. Within(ps) \subseteq {note, backup}
        BY <1>4, <1>6, <1>7, <1>10
    <2>4. UNION {x.exposed : x \in Within(ps)} = {}
        BY <1>1, <2>3
    <2>5. \A x \in Within(ps) : x.data \in DataOf(i, below)
        BY <1>1, <2>1, <2>3
    <2> QED
        BY <1>8, <2>2, <2>4, <2>5 DEF ps
<1> QED
    BY <1>9, <1>10

\* What a level encrypts is the backup of that level around the one below.
LEMMA LevelSealed == IsLevel(Encrypted(LevelBuilder), todo, sealed)
<1> DEFINE ps == Pieces(todo, sealed)
           ks == request.levels[todo].keys
           paths == {OriginPath[k] : k \in ks}
           exposed == UNION {x.exposed : x \in Within(ps)}
           b == Encrypted(WithKeys([WithPayloads(NewBuilder, ps) EXCEPT !.paths = paths], ks))
<1>1. LevelPayloads = ps
    BY DEF LevelPayloads, Pieces, Levels
<1>2. Encrypted(LevelBuilder) = b
    <2> HIDE DEF ps
    <2> QED
        BY <1>1 DEF LevelBuilder
<1>3. exposed = ExposedAt(todo)
    BY PiecesOf
<1>4. /\ b.format = "V1" /\ b.encryption = "ChaCha20Poly1305" /\ b.decodes
      /\ b.to = XOnlys({k \in ks : XOnly[k] \notin exposed}) \ {NumsX}
      /\ b.items = AsItems(ps)
    <2> HIDE DEF ps, ks, paths
    <2> QED
        BY SealedLevel DEF Within
<1> HIDE DEF b, exposed
<1> QED
    BY <1>2, <1>3, <1>4 DEF IsLevel

\* The decrypt command answers the key of a level with texts of that level, the
\* descriptor or the backup below.
LEMMA LevelRead ==
    ASSUME NEW i \in 1..Levels, NEW b, NEW below, IsLevel(b, i, below), NEW k,
           NEW pieces, pieces[1] = Backup(b), Read(k, pieces).is = "items"
    PROVE  /\ OpensLevel(i, k)
           /\ [j \in DOMAIN Read(k, pieces).items |-> Read(k, pieces).items[j][2]]
                 \in Seq(DataOf(i, below))
<1> DEFINE x == WithKeys(WithEncrypted(NewBuilder, b), {k})
           items == b.items
<1>1. Read(k, pieces) = Decrypted(x)
    BY DEF Read, Backup
<1>2. /\ x.keys = {k} /\ x.version = "V1" /\ x.encryption = "ChaCha20Poly1305"
      /\ x.payload = ToDecrypt(b)
    BY DEF x, WithKeys, WithEncrypted, NewBuilder, DropExposedKeys, ExposedRoots, IsLevel
<1> HIDE DEF x
<1>3. x.payload.is = "decrypt" /\ x.payload.of = b
    BY <1>2 DEF ToDecrypt
<1>4. ~IsV0(x) /\ x.keys # {}
    BY <1>2, <1>3 DEF IsV0, IsLevel
<1>5. Decrypted(x) = DecryptedV1(x)
    BY <1>2, <1>3, <1>4 DEF Decrypted
<1>6. Opens(x) /\ Decrypted(x) = Extract(items)
    <2>1. Decrypted(x).is = "items"
        BY <1>1
    <2>2. Opens(x)
        BY <1>5, <2>1 DEF DecryptedV1
    <2> QED
        BY <1>3, <1>5, <2>1, <2>2 DEF DecryptedV1
<1>7. Decrypted(x).items = Values(items)
    BY <1>1, <1>6 DEF Extract
<1>8. XOnly[k] \in b.to
    BY <1>2, <1>3, <1>6 DEF Opens, XOnlys
<1>9. OpensLevel(i, k)
    <2>1. /\ XOnly[k] # NumsX
          /\ \E m \in request.levels[i].keys : XOnly[m] = XOnly[k] /\ XOnly[m] \notin ExposedAt(i)
        BY <1>8 DEF IsLevel, XOnlys
    <2> QED
        BY <2>1 DEF OpensLevel, ExposedAt, Levels
<1>10. [j \in DOMAIN Values(items) |-> Values(items)[j][2]] \in Seq(DataOf(i, below))
    <2> DEFINE ps == Pieces(i, below)
               D == DataOf(i, below)
               Kinds == {piece.content : piece \in Within(ps)}
               V == Kinds \X D
    <2>1. ps \in Seq(Within(ps)) /\ \A piece \in Within(ps) : piece.data \in D
        BY PiecesOf
    <2> HIDE DEF ps, D
    <2>2. items = [j \in DOMAIN ps |-> <<ps[j].content, ps[j].data>>]
        BY DEF IsLevel, AsItems, ps
    <2>3. \A j \in DOMAIN ps : <<ps[j].content, ps[j].data>> \in V
        BY <2>1 DEF Within
    <2>4. Len(ps) \in Nat /\ DOMAIN ps = 1..Len(ps)
        BY <2>1
    <2> HIDE DEF V
    <2>5. items \in Seq(V)
        BY <2>2, <2>3, <2>4
    <2> DEFINE s == Values(items)
               where == {j \in DOMAIN items : Parsed[items[j][1]] = "value"}
               W == {items[j] : j \in (DOMAIN items) \cap where}
    <2>6. s \in Seq(W)
        <3>1. s = Filtered(items, where)
            BY DEF Values
        <3> HIDE DEF s, where
        <3> QED
            BY <2>5, <3>1, FilteredPart
    <2>7. \A j \in DOMAIN s : s[j][2] \in D
        <3>1. W \subseteq V
            BY <2>5
        <3> HIDE DEF s, W
        <3>2. \A j \in DOMAIN s : s[j] \in V
            BY <2>6, <3>1
        <3> QED
            BY <3>2 DEF V
    <2> HIDE DEF s, W
    <2>8. Len(s) \in Nat /\ DOMAIN s = 1..Len(s)
        BY <2>6
    <2>9. [j \in DOMAIN s |-> s[j][2]] \in Seq(D)
        BY <2>7, <2>8
    <2> QED
        BY <2>9 DEF s, D
<1> QED
    BY <1>1, <1>7, <1>9, <1>10

\* Nothing about the levels changes while the command line stands.
LEMMA SameLevels ==
    ASSUME request' = request
    PROVE  /\ Levels' = Levels /\ DescriptorPiece' = DescriptorPiece
           /\ \A w, i : Wraps(w, i)' = Wraps(w, i)
           /\ \A i, below : DataOf(i, below)' = DataOf(i, below)
<1>1. Levels' = Levels /\ DescriptorPiece' = DescriptorPiece
    BY DEF Levels, DescriptorPiece
<1>2. \A i, below : Pieces(i, below)' = Pieces(i, below) /\ ExposedAt(i)' = ExposedAt(i)
    BY <1>1 DEF Pieces, ExposedAt
<1>3. \A b, i, below : IsLevel(b, i, below)' = IsLevel(b, i, below)
    BY <1>2 DEF IsLevel
<1>4. \A w, i : Wraps(w, i)' = Wraps(w, i)
    BY <1>1, <1>3 DEF Wraps
<1> QED
    BY <1>1, <1>4 DEF DataOf

\* A command line that is taken has a list of levels, and a descriptor is a text.
LEMMA RequestTyped ==
    ASSUME CliInv, NEW d \in Documents, NEW fault, Start(d, fault)
    PROVE  request'.levels \in Seq(LevelType) /\ DOMAIN DescriptorPiece' = {"text"}
<1>1. request' = Requested(d) /\ cli = "parsed"
    BY DEF Start
<1>2. DOMAIN DescriptorPiece' = {"text"}
    <2>1. d.data \in [text : STRING]
        BY CommandAssumption DEF DescriptorPayload
    <2> QED
        BY <1>1, <2>1 DEF Requested, DescriptorPiece
<1>3. ValueOf("keys", <<>>) \in Seq(LevelType)
    <2> DEFINE V == Seq(LevelType)
    <2>1. \A i \in DOMAIN arguments : arguments[i] \in Word
        BY <1>1, ArgumentsTyped
    <2>2. \A w \in Word : "keys" \in DOMAIN w => w.keys \in V
        BY DEF Word
    <2>3. <<>> \in V
        OBVIOUS
    <2> HIDE DEF V
    <2> DEFINE i == CHOOSE i \in DOMAIN arguments : i \in Uses("keys")
    <2>4. CASE Uses("keys") # {}
        <3>1. i \in DOMAIN arguments /\ i \in Uses("keys")
            BY <2>4 DEF Uses
        <3>2. ValueOf("keys", <<>>) = arguments[i]["keys"]
            BY <2>4 DEF ValueOf
        <3> HIDE DEF i
        <3> QED
            BY <2>1, <2>2, <3>1, <3>2 DEF V, Uses
    <2>5. CASE Uses("keys") = {}
        BY <2>3, <2>5 DEF ValueOf, V
    <2> QED
        BY <2>4, <2>5
<1> QED
    BY <1>1, <1>2, <1>3 DEF Requested

\* The next level is sealed around those that are.
LEMMA NextLevel ==
    ASSUME SealInv, EncryptLevel, pc' # "failed"
    PROVE  \E w : w[todo' + 1] = sealed' /\ Wraps(w, todo' + 1)
<1>1. /\ todo \in 1..Levels /\ todo' = todo - 1 /\ todo' + 1 = todo
      /\ Levels \in Nat /\ request.levels # <<>>
    <2>1. todo \in 1..Levels /\ todo' = todo - 1 /\ Levels \in Nat
        BY DEF SealInv, EncryptLevel, Fail, Levels
    <2> QED
        BY <2>1 DEF Levels
<1>2. PICK w : w[todo + 1] = sealed /\ Wraps(w, todo + 1)
    BY <1>1 DEF SealInv, Sealing, EncryptLevel
<1>3. sealed' = Encrypted(LevelBuilder)
    BY DEF EncryptLevel, Fail
<1> DEFINE v == [j \in todo..(Levels + 1) |-> IF j = todo THEN sealed' ELSE w[j]]
<1>4. v[todo] = sealed' /\ \A j \in (todo + 1)..(Levels + 1) : v[j] = w[j]
    BY <1>1
<1> HIDE DEF v
<1>5. todo + 1 \in (todo + 1)..(Levels + 1)
    BY <1>1
<1>6. IsLevel(v[todo], todo, v[todo + 1])
    BY <1>2, <1>3, <1>4, <1>5, LevelSealed
<1>7. ASSUME NEW j \in todo..Levels PROVE IsLevel(v[j], j, v[j + 1])
    <2>1. CASE j = todo
        BY <1>6, <2>1
    <2>2. CASE j # todo
        <3>1. /\ j \in (todo + 1)..Levels /\ j \in (todo + 1)..(Levels + 1)
              /\ j + 1 \in (todo + 1)..(Levels + 1)
            BY <1>1, <2>2
        <3> QED
            BY <1>2, <1>4, <3>1 DEF Wraps
    <2> QED
        BY <2>1, <2>2
<1> QED
    BY <1>1, <1>4, <1>7 DEF Wraps

\* The steps of the command keep what is known of the sealed levels.
LEMMA SealStep ==
    ASSUME CliInv, SealInv, [Next]_vars
    PROVE  SealInv'
<1>1. CASE NoStart
    <2>1. request' = request /\ pc' = "failed"
        BY <1>1 DEF NoStart, Fail
    <2> QED
        BY <2>1, SameLevels DEF SealInv, Sealing
<1>2. ASSUME NEW d \in Documents, NEW fault \in {"none", "ReadError", "CantConvertToDescriptor"},
             Start(d, fault)
      PROVE  SealInv'
    <2>1. request'.levels \in Seq(LevelType) /\ DOMAIN DescriptorPiece' = {"text"}
        BY <1>2, RequestTyped
    <2>2. /\ todo' = Levels' /\ sealed' = sealed /\ pc' \in {"failed", "descriptor", "levels"}
          /\ pc' = "descriptor" => request'.levels = <<>>
          /\ pc' = "levels" => request'.levels # <<>>
        BY <1>2 DEF Start, Fail, Levels
    <2>3. Levels' \in Nat /\ (request'.levels # <<>> => Levels' \in 1..Levels')
        BY <2>1 DEF Levels
    <2>4. PICK w : w[Levels' + 1] = sealed'
        <3>1. [j \in {Levels' + 1} |-> sealed'][Levels' + 1] = sealed'
            OBVIOUS
        <3> QED
            BY <3>1
    <2>5. Wraps(w, Levels + 1)'
        <3>1. \A n \in Nat : (n + 1)..n = {}
            OBVIOUS
        <3>2. (Levels' + 1)..Levels' = {}
            BY <2>3, <3>1
        <3> QED
            BY <3>2 DEF Wraps
    <2>6. (\E x : x[todo + 1] = sealed /\ Wraps(x, todo + 1))'
        BY <2>2, <2>4, <2>5
    <2> QED
        BY <2>1, <2>2, <2>3, <2>6 DEF SealInv
<1>3. CASE EncryptLevel
    <2>1. /\ request' = request /\ pc = "levels" /\ pc' \in {"failed", "create", "levels"}
          /\ pc' # "failed" => todo' = todo - 1 /\ (pc' = "create" <=> todo = 1)
        BY <1>3 DEF EncryptLevel, Fail
    <2>2. todo \in 1..Levels /\ Levels \in Nat
        BY <2>1 DEF SealInv, Levels
    <2>3. pc' = "levels" => todo' \in 1..Levels
        BY <2>1, <2>2
    <2>4. pc' = "create" => todo' = 0
        BY <2>1, <2>2
    <2>5. pc' # "failed" => \E w : w[todo' + 1] = sealed' /\ Wraps(w, todo' + 1)
        BY <1>3, NextLevel
    <2> QED
        BY <2>1, <2>3, <2>4, <2>5, SameLevels DEF SealInv, Sealing
<1>4. CASE DescriptorBackup \/ (\E p \in Paths : FetchKey(p)) \/ FetchFails \/ EncryptDescriptor
    <2>1. /\ request' = request /\ pc \in {"descriptor", "device", "encrypt"}
          /\ pc' \in {"device", "encrypt", "create", "failed"}
        BY <1>4 DEF DescriptorBackup, FetchKey, FetchFails, EncryptDescriptor, Fail
    <2> QED
        BY <2>1, SameLevels DEF SealInv, Sealing
<1>5. CASE Create \/ WritePart \/ Write
    <2>1. /\ request' = request /\ sealed' = sealed /\ todo' = todo
          /\ pc \in {"create", "write"} /\ pc' \in {"write", "done", "failed"}
        BY <1>5 DEF Create, WritePart, Write, Fail
    <2> QED
        BY <2>1, SameLevels DEF SealInv, Sealing
<1>6. CASE UNCHANGED commandVars
    <2>1. request' = request /\ sealed' = sealed /\ todo' = todo /\ pc' = pc
        BY <1>6 DEF commandVars
    <2> QED
        BY <2>1, SameLevels DEF SealInv, Sealing
<1>7. HolderStep => UNCHANGED commandVars
    BY DEF HolderStep, Open, Peel
<1>8. UNCHANGED encryptVars => UNCHANGED commandVars
    BY DEF encryptVars
<1>9. UNCHANGED vars => UNCHANGED commandVars
    BY DEF vars, encryptVars
<1> QED
    BY <1>1, <1>2, <1>3, <1>4, <1>5, <1>6, <1>7, <1>8, <1>9 DEF Next, EncryptStep

\* The holder gets past a level with a key that reads it.
LEMMA PeelLevel ==
    ASSUME SealInv, NEW w, Wraps(w, 1), Standing(w), request.levels # <<>>,
           NEW k, Peel(k)
    PROVE  Standing(w)'
<1>1. /\ request' = request /\ held' = held /\ k \in held
      /\ document # <<>> /\ IsBackup(document[1]) /\ Read(k, document).is = "items"
      /\ document' = [j \in DOMAIN Read(k, document).items |-> Read(k, document).items[j][2]]
    BY DEF Peel, commandVars
<1>2. Levels \in Nat /\ 1 \in 1..Levels
    BY DEF SealInv, Levels
<1>3. \A i, below : DataOf(i, below)' = DataOf(i, below)
    BY <1>1, SameLevels
<1>4. Levels' = Levels /\ \A i : Opened(i)' = Opened(i)
    BY <1>1 DEF Levels, Opened, OpensLevel
<1>5. ASSUME NEW i \in 1..Levels, document[1] = Backup(w[i]), \A j \in 1..i : j # i => Opened(j)
      PROVE  Standing(w)'
    <2>1. IsLevel(w[i], i, w[i + 1])
        BY <1>2 DEF Wraps
    <2>2. OpensLevel(i, k) /\ document' \in Seq(DataOf(i, w[i + 1]))
        BY <1>1, <1>5, <2>1, LevelRead
    <2>3. \A j \in 1..i : Opened(j)
        BY <1>1, <1>5, <2>2 DEF Opened
    <2> QED
        BY <1>3, <1>4, <2>2, <2>3 DEF Standing
<1>6. CASE document = <<Backup(w[1])>>
    <2>1. document[1] = Backup(w[1]) /\ \A j \in 1..1 : j = 1
        BY <1>6
    <2> QED
        BY <1>2, <1>5, <2>1
<1>7. ASSUME NEW i \in 1..Levels, document \in Seq(DataOf(i, w[i + 1])),
             \A j \in 1..i : Opened(j)
      PROVE  Standing(w)'
    <2>1. document[1] \in DataOf(i, w[i + 1])
        <3> DEFINE D == DataOf(i, w[i + 1])
        <3> HIDE DEF D
        <3>1. document \in Seq(D) /\ document # <<>>
            BY <1>1, <1>7 DEF D
        <3>2. document[1] \in D
            BY <3>1
        <3> QED
            BY <3>2 DEF D
    <2>2. \A t : ~IsBackup(Text(t))
        BY DEF IsBackup, Text
    <2>3. ~IsBackup(DescriptorPiece)
        BY DEF SealInv, IsBackup
    <2>4. i # Levels /\ document[1] = Backup(w[i + 1])
        BY <1>1, <2>1, <2>2, <2>3 DEF DataOf
    <2>5. i + 1 \in 1..Levels /\ \A j \in 1..(i + 1) : j # i + 1 => j \in 1..i
        BY <1>2, <2>4
    <2> QED
        BY <1>5, <1>7, <2>4, <2>5
<1> QED
    BY <1>6, <1>7 DEF Standing

\* Every step keeps what is known of the holder.
LEMMA HolderInvStep ==
    ASSUME FileInv, SealInv, HolderInv, [Next]_vars
    PROVE  HolderInv'
<1>1. CASE EncryptStep
    <2>1. document' = document /\ pc # "done"
        BY <1>1 DEF EncryptStep, NoStart, Start, EncryptLevel, DescriptorBackup, FetchKey,
                    FetchFails, EncryptDescriptor, Create, WritePart, Write
    <2> QED
        BY <2>1 DEF HolderInv
<1>2. CASE Open
    <2>1. /\ request' = request /\ pc' = pc /\ pc = "done" /\ todo' = todo /\ sealed' = sealed
          /\ document' = <<Backup(sealed)>>
        BY <1>2 DEF Open, FileInv, OldFileKept, commandVars
    <2>2. ASSUME request.levels # <<>> PROVE \E w : Wraps(w, 1) /\ document' = <<Backup(w[1])>>
        <3>1. PICK w : w[todo + 1] = sealed /\ Wraps(w, todo + 1)
            BY <2>1, <2>2 DEF SealInv, Sealing
        <3>2. todo + 1 = 1
            BY <2>1, <2>2 DEF SealInv
        <3> QED
            BY <2>1, <3>1, <3>2
    <2> QED
        BY <2>1, <2>2, SameLevels DEF HolderInv, Standing
<1>3. ASSUME NEW k \in PublicKeys, Peel(k)
      PROVE  HolderInv'
    <2>1. request' = request /\ pc' = pc /\ document # <<>> /\ pc = "done"
        BY <1>3 DEF Peel, commandVars, HolderInv
    <2>2. ASSUME request.levels # <<>> PROVE \E w : Wraps(w, 1) /\ Standing(w)'
        <3>1. PICK w : Wraps(w, 1) /\ Standing(w)
            BY <2>1, <2>2 DEF HolderInv
        <3> QED
            BY <1>3, <2>2, <3>1, PeelLevel
    <2> QED
        BY <2>1, <2>2, SameLevels DEF HolderInv
<1>4. CASE UNCHANGED encryptVars
    <2>1. request' = request /\ pc' = pc /\ document' = document /\ held' = held
        BY <1>4 DEF encryptVars, commandVars
    <2>2. \A w : Standing(w)' = Standing(w)
        <3>1. \A i : Opened(i)' = Opened(i)
            BY <2>1 DEF Opened, OpensLevel
        <3> QED
            BY <2>1, <3>1, SameLevels DEF Standing
    <2> QED
        BY <2>1, <2>2, SameLevels DEF HolderInv
<1>5. UNCHANGED vars => UNCHANGED encryptVars
    BY DEF vars
<1> QED
    BY <1>1, <1>2, <1>3, <1>4, <1>5 DEF Next, HolderStep

\* Who has the descriptor got past every level.
LEMMA LevelsKept ==
    ASSUME SealInv, HolderInv
    PROVE  EveryLevelNeeded
<1> SUFFICES ASSUME HasDescriptor, ~NotedDescriptor, request.levels # <<>>
             PROVE  \A i \in DOMAIN request.levels : \E k \in held : OpensLevel(i, k)
    BY DEF EveryLevelNeeded
<1>1. PICK n \in DOMAIN document : document[n] = DescriptorPiece
    BY DEF HasDescriptor
<1>2. document # <<>>
    BY <1>1
<1>3. PICK w : Wraps(w, 1) /\ Standing(w)
    BY <1>2 DEF HolderInv
<1>4. \A b : Backup(b) # DescriptorPiece
    <2>1. \A b : DOMAIN Backup(b) = {"backup"}
        BY DEF Backup
    <2>2. DOMAIN DescriptorPiece = {"text"} /\ "text" # "backup"
        BY DEF SealInv
    <2> QED
        BY <2>1, <2>2
<1>5. document # <<Backup(w[1])>>
    BY <1>1, <1>4
<1>6. PICK i \in 1..Levels : document \in Seq(DataOf(i, w[i + 1])) /\ \A j \in 1..i : Opened(j)
    BY <1>3, <1>5 DEF Standing
<1>7. DescriptorPiece \in DataOf(i, w[i + 1])
    <2> DEFINE D == DataOf(i, w[i + 1])
    <2> HIDE DEF D
    <2>1. document \in Seq(D)
        BY <1>6 DEF D
    <2>2. document[n] \in D
        BY <2>1
    <2> QED
        BY <1>1, <2>2 DEF D
<1>8. Levels \in Nat /\ DOMAIN request.levels = 1..Levels
    BY DEF SealInv, Levels
<1>9. i = Levels
    <2> SUFFICES ASSUME i # Levels
                 PROVE  FALSE
        OBVIOUS
    <2>1. Text(request.levels[i].note) = DescriptorPiece
        BY <1>4, <1>7 DEF DataOf
    <2>2. i \in 1..(Levels - 1)
        BY <1>8
    <2> QED
        BY <2>1, <2>2 DEF NotedDescriptor, Levels
<1> QED
    BY <1>6, <1>8, <1>9 DEF Opened

-----------------------------------------------------------------------------
(* Theorems                                                                *)

\* The inductive invariant.
EncryptInv == CliInv /\ FileInv /\ DeviceInv /\ DeviceAsked /\ SealInv /\ HolderInv

\* The invariant holds in every reachable state.
THEOREM EncryptInvariance == Spec => []EncryptInv
<1>1. Init => EncryptInv
    <2>1. Init => FileInv /\ DeviceInv /\ DeviceAsked
        BY DEF Init, FileInv, OldFileKept, States, DeviceInv, DeviceAsked, NewBuilder
    <2>2. Init => SealInv /\ HolderInv
        <3>1. Init => DescriptorPiece = Text("") /\ request.levels = <<>>
            <4>1. StringPayload("").data = Text("")
                BY DEF StringPayload
            <4>2. NoRequest.levels = <<>> /\ NoRequest.descriptor = StringPayload("")
                BY DEF NoRequest
            <4>3. Init => request = NoRequest
                BY DEF Init
            <4> QED
                BY <4>1, <4>2, <4>3 DEF DescriptorPiece
        <3>2. <<>> \in Seq(LevelType) /\ DOMAIN Text("") = {"text"}
            BY DEF Text
        <3> QED
            BY <3>1, <3>2 DEF Init, SealInv, HolderInv, Sealing
    <2> QED
        BY <2>1, <2>2, CliInitInv DEF EncryptInv
<1>2. EncryptInv /\ [Next]_vars => EncryptInv'
    BY CliNextInv, FileStep, DeviceStep, SealStep, HolderInvStep DEF EncryptInv
<1> QED
    BY <1>1, <1>2, PTL DEF Spec

\* The output file keeps its content until a whole backup is ready, whatever
\* fails before; it has that backup after success, and nothing or its first part
\* after a write that failed (File::create comes last, then write_all).
THEOREM OldFileKeptCorrect == Spec => []OldFileKept
<1>1. EncryptInv => OldFileKept
    BY DEF EncryptInv, FileInv
<1> QED
    BY <1>1, EncryptInvariance, PTL

\* With --device the recipients are the device's key and the descriptor's,
\* without those the descriptor exposes and NUMS (set_keys after set_payload).
THEOREM DeviceKeyJoinsCorrect == Spec => []DeviceKeyJoins
<1>1. EncryptInv => DeviceKeyJoins
    BY DEF EncryptInv, DeviceInv, DeviceKeyJoins, Given
<1> QED
    BY <1>1, EncryptInvariance, PTL

\* The command runs on what was typed, or on that and all that was piped, and
\* it stops on a pipe that is not text (parse_cli, read_args_within).
THEOREM ArgumentsWholeCorrect == Spec => []ArgumentsWhole
<1>1. EncryptInv => ArgumentsWhole
    BY DEF EncryptInv, CliInv
<1> QED
    BY <1>1, EncryptInvariance, PTL

\* The descriptor takes a key of every level, for any number of levels, keys
\* and notes (encrypt_to_level_keys), unless an outer note spells it out.
THEOREM EveryLevelNeededCorrect == Spec => []EveryLevelNeeded
<1>1. EncryptInv => EveryLevelNeeded
    BY LevelsKept DEF EncryptInv
<1> QED
    BY <1>1, EncryptInvariance, PTL
=============================================================================
