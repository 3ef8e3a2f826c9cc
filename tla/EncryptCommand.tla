---------------------------- MODULE EncryptCommand ----------------------------
(***************************************************************************)
(* The encrypt command of the bip138 program (src/bin/main.rs), with a key *)
(* from a signing device or with a file of wrapping levels, and a holder   *)
(* of some keys who runs the decrypt command on its output, and then on    *)
(* what that wrote, until the descriptor is there.  The command line is    *)
(* that of PipedArguments: a word is an option with its value.             *)
(*                                                                         *)
(* A file or a document is the sequence of its pieces, texts and backups   *)
(* (the newlines between them are left out).  The builder is that of       *)
(* module Builder; the device answers as XpubCollector says it does, with  *)
(* its key at the path that was asked; the decrypt command is used by its  *)
(* promise (KeyHunt): the document of the key it was given.                *)
(***************************************************************************)
EXTENDS Builder, PipedArguments

CONSTANTS
    OriginPath,   \* the origin path of each key that has one
    DeviceKeyAt,  \* the key of the signing device at each path
    Documents,    \* the descriptors that the input file may hold
    Holders       \* the sets of keys a holder may have

NoText == "no text"       \* no --msg, no note
NoDevice == "no device"   \* no --device
FirstKey == "first key"   \* --device without a path

VARIABLES
    pc,           \* control state of the encrypt command
    request,      \* its command line and the files it reads
    builder,      \* the builder it fills
    todo,         \* number of levels still to encrypt
    sealed,       \* the encrypted bytes so far
    device,       \* the key and path taken from the signing device
    error,        \* why the command failed
    file,         \* what is in the output file
    held,         \* the keys of the holder
    document      \* what the holder's last decrypt wrote

commandVars == <<pc, request, builder, todo, sealed, device, error, file>>
encryptVars == <<commandVars, held, document>>
vars == <<cliVars, encryptVars>>

Text(t) == [text |-> t]
Backup(b) == [backup |-> b]
PartOf(b) == [part |-> b]
IsBackup(piece) == "backup" \in DOMAIN piece

\* the values that implement ToPayload here
StringPayload(t) == [content |-> "String", data |-> Text(t), keys |-> {}, keyPaths |-> {},
                     warnings |-> {}, exposed |-> {}]
Bip138Payload(b) == [content |-> "Bip138", data |-> Backup(b), keys |-> {}, keyPaths |-> {},
                     warnings |-> {}, exposed |-> {}]

LevelType == [note : STRING, keys : SUBSET PublicKeys]
Word == [keys : Seq(LevelType)] \cup [msg : STRING] \cup [device : {FirstKey} \cup Paths]
LineType == [utf8 : BOOLEAN, words : Seq(Word)]
CommandLineType == [typed : Seq(Word), terminal : BOOLEAN, piped : Seq(LineType)]
DescriptorPayload == [content : {"Bip380"}, data : [text : STRING],
                      keys : SUBSET PublicKeys, keyPaths : SUBSET (PublicKeys \X Paths),
                      warnings : {{}}, exposed : SUBSET {XOnly[k] : k \in PublicKeys}]

ASSUME CommandAssumption ==
    /\ {"String", "Bip138", "Bip380"} \subseteq KnownContents
    /\ DOMAIN OriginPath \subseteq PublicKeys
    /\ \A k \in DOMAIN OriginPath : OriginPath[k] \in Paths
    /\ DeviceKeyAt \in [Paths -> PublicKeys]
    /\ CommandLines \subseteq CommandLineType
    /\ Documents \subseteq DescriptorPayload
    /\ Holders \subseteq SUBSET PublicKeys

NoRequest == [levels |-> <<>>, msg |-> NoText, device |-> NoDevice, descriptor |-> StringPayload("")]
NoKey == [key |-> {}, path |-> {}]
OldFile == <<Text("old file")>>

Init ==
    /\ CliInit
    /\ pc = "idle"
    /\ request = NoRequest
    /\ builder = NewBuilder
    /\ todo = 0
    /\ sealed = NoBlob
    /\ device = NoKey
    /\ error = "none"
    /\ file = OldFile
    /\ held \in Holders
    /\ document = <<>>

-----------------------------------------------------------------------------
(* The encrypt command                                                     *)

Fail(e) ==
    /\ pc' = "failed"
    /\ error' = e

\* parse_wrap_keys: every line has a key and every key its origin
GoodLine(level) == level.keys # {} /\ level.keys \subseteq DOMAIN OriginPath

\* Cli::parse_from refuses an option that is there twice
Uses(option) == {i \in DOMAIN arguments : option \in DOMAIN arguments[i]}
Usage == \E option \in {"keys", "msg", "device"}, i, j \in DOMAIN arguments :
            i # j /\ {i, j} \subseteq Uses(option)
ValueOf(option, default) ==
    IF Uses(option) = {} THEN default
    ELSE arguments[CHOOSE i \in DOMAIN arguments : i \in Uses(option)][option]
Requested(d) == [levels |-> ValueOf("keys", <<>>), msg |-> ValueOf("msg", NoText),
                 device |-> ValueOf("device", NoDevice), descriptor |-> d]

\* the command line stops the command
NoStart ==
    /\ pc = "idle"
    /\ \/ cli = "failed" /\ Fail("StdinError")
       \/ cli = "parsed" /\ Usage /\ Fail("Usage")
    /\ UNCHANGED <<cliVars, request, builder, todo, sealed, device, file, held, document>>

\* reads and parses its files; a fault is a file or a descriptor it cannot read
Start(d, fault) ==
    LET r == Requested(d)
        refused ==
            CASE fault = "ReadError" -> fault
              [] fault # "ReadError" /\ \E i \in DOMAIN r.levels : ~GoodLine(r.levels[i]) ->
                    "WrapKeys"
              [] OTHER -> IF fault = "none" /\ r.levels # <<>> /\ r.device # NoDevice
                          THEN "DeviceWithKeys" ELSE fault
    IN  /\ pc = "idle"
        /\ cli = "parsed" /\ ~Usage
        /\ request' = r
        /\ todo' = Len(r.levels)
        /\ IF refused # "none" THEN Fail(refused)
           ELSE /\ pc' = IF r.levels = <<>> THEN "descriptor" ELSE "levels"
                /\ UNCHANGED error
        /\ UNCHANGED <<cliVars, builder, sealed, device, file, held, document>>

Note(t) == IF t = NoText THEN <<>> ELSE <<StringPayload(t)>>

\* mutant: the message goes with every level
LevelWithMessage ==
    Note(request.levels[todo].note) \o Note(request.msg)
    \o IF todo = Len(request.levels) THEN <<request.descriptor>> ELSE <<Bip138Payload(sealed)>>
\* mutant: every level encrypts the descriptor
LevelUnwrapped == Note(request.levels[todo].note) \o Note(request.msg) \o <<request.descriptor>>
\* the innermost level encrypts the descriptor, the others the level below
LevelPayloads ==
    Note(request.levels[todo].note)
    \o IF todo = Len(request.levels) THEN Note(request.msg) \o <<request.descriptor>>
       ELSE <<Bip138Payload(sealed)>>

\* encrypt_to_level_keys: the keys of the level replace those of its payloads
LevelBuilder ==
    LET level == request.levels[todo]
    IN  WithKeys([WithPayloads(NewBuilder, LevelPayloads)
                  EXCEPT !.paths = {OriginPath[k] : k \in level.keys}], level.keys)

\* one level, from the innermost to the outermost
EncryptLevel ==
    /\ pc = "levels"
    /\ IF EncryptError(LevelBuilder) # "none"
       THEN /\ Fail(EncryptError(LevelBuilder))
            /\ UNCHANGED <<sealed, todo>>
       ELSE /\ sealed' = Encrypted(LevelBuilder)
            /\ todo' = todo - 1
            /\ pc' = IF todo = 1 THEN "create" ELSE "levels"
            /\ UNCHANGED error
    /\ UNCHANGED <<cliVars, request, builder, device, file, held, document>>

\* descriptor_backup: a message makes it a list of payloads
DescriptorBackup ==
    /\ pc = "descriptor"
    /\ builder' = IF request.msg = NoText THEN WithPayload(NewBuilder, request.descriptor)
                  ELSE WithPayloads(NewBuilder, <<StringPayload(request.msg), request.descriptor>>)
    /\ pc' = IF request.device = NoDevice THEN "encrypt" ELSE "device"
    /\ UNCHANGED <<cliVars, request, todo, sealed, device, error, file, held, document>>

\* the path given, or one of those that the collector asks
AskedPaths == IF request.device = FirstKey THEN builder.paths \cup CommonPaths
                                           ELSE {request.device}

\* mutant: the key of the device replaces those of the descriptor
OnlyDeviceKey(p) ==
    WithKeys([builder EXCEPT !.paths = builder.paths \cup {p}], {DeviceKeyAt[p]})
\* set_derivation_paths and set_keys with the device's path and key added
WithDeviceKey(p) ==
    WithKeys([builder EXCEPT !.paths = builder.paths \cup {p}], builder.keys \cup {DeviceKeyAt[p]})

FetchKey(p) ==
    /\ pc = "device"
    /\ p \in AskedPaths
    /\ device' = [key |-> {DeviceKeyAt[p]}, path |-> {p}]
    /\ builder' = WithDeviceKey(p)
    /\ pc' = "encrypt"
    /\ UNCHANGED <<cliVars, request, todo, sealed, error, file, held, document>>

FetchFails ==
    /\ pc = "device"
    /\ \E e \in {"FailedToFetchXpub", "NoKeys"} : Fail(e)
    /\ UNCHANGED <<cliVars, request, builder, todo, sealed, device, file, held, document>>

EncryptDescriptor ==
    /\ pc = "encrypt"
    /\ IF EncryptError(builder) # "none"
       THEN Fail(EncryptError(builder)) /\ UNCHANGED sealed
       ELSE sealed' = Encrypted(builder) /\ pc' = "create" /\ UNCHANGED error
    /\ UNCHANGED <<cliVars, request, builder, todo, device, file, held, document>>

\* mutant: the file is created before the levels are encrypted
CreateEarly ==
    /\ pc \in {"create", "levels"}
    /\ file' = <<>>
    /\ pc' = IF pc = "create" THEN "write" ELSE pc
    /\ UNCHANGED <<cliVars, request, builder, todo, sealed, device, error, held, document>>
\* File::create empties a file that is there
Create ==
    /\ pc = "create"
    /\ \/ /\ file' = <<>>
          /\ pc' = "write"
          /\ UNCHANGED error
       \/ /\ Fail("CreateError")
          /\ UNCHANGED file
    /\ UNCHANGED <<cliVars, request, builder, todo, sealed, device, held, document>>

\* write_all goes on after a write that took a part of the bytes
WritePart ==
    /\ pc = "write" /\ file = <<>>
    /\ file' = <<PartOf(sealed)>>
    /\ UNCHANGED <<cliVars, request, builder, todo, sealed, device, error, pc, held, document>>

\* the rest is written, or an error leaves what there is
Write ==
    /\ pc = "write"
    /\ \/ /\ file' = <<Backup(sealed)>>
          /\ pc' = "done"
          /\ UNCHANGED error
       \/ /\ Fail("WriteError")
          /\ UNCHANGED file
    /\ UNCHANGED <<cliVars, request, builder, todo, sealed, device, held, document>>

-----------------------------------------------------------------------------
(* The holder                                                              *)

\* takes the file
Open ==
    /\ pc = "done" /\ document = <<>>
    /\ document' = file
    /\ UNCHANGED <<cliVars, commandVars, held>>

\* what decrypt -k k -o FILE answers for a document
Read(k, pieces) == Decrypted(WithKeys(WithEncrypted(NewBuilder, pieces[1].backup), {k}))

\* decrypted_to_document writes the items one after the other.  A file that
\* does not start with a backup, a wrong key or an item that does not parse is
\* an error, and nothing is written.
Peel(k) ==
    /\ document # <<>> /\ IsBackup(document[1])
    /\ k \in held
    /\ LET answer == Read(k, document)
       IN  /\ answer.is = "items"
           /\ document' = [i \in DOMAIN answer.items |-> answer.items[i][2]]
    /\ UNCHANGED <<cliVars, commandVars, held>>

EncryptStep ==
    \/ NoStart
    \/ \E d \in Documents, fault \in {"none", "ReadError", "CantConvertToDescriptor"} :
          Start(d, fault)
    \/ EncryptLevel
    \/ DescriptorBackup
    \/ \E p \in Paths : FetchKey(p)
    \/ FetchFails
    \/ EncryptDescriptor
    \/ Create
    \/ WritePart
    \/ Write

HolderStep == Open \/ \E k \in PublicKeys : Peel(k)

Next == \/ CliStep /\ UNCHANGED encryptVars
        \/ EncryptStep
        \/ HolderStep

Spec == Init /\ [][Next]_vars
\* the holder goes on as long as decrypt has an answer, and the wait for piped
\* arguments ends by its time limit; nothing is assumed of the pipe
FairSpec == Spec /\ WF_vars(HolderStep) /\ WF_vars(Parser /\ UNCHANGED encryptVars)

-----------------------------------------------------------------------------
(* Properties                                                              *)

DescriptorPiece == request.descriptor.data
HasDescriptor == \E i \in DOMAIN document : document[i] = DescriptorPiece

\* the keys that read level i
OpensLevel(i, k) ==
    /\ \E m \in request.levels[i].keys : XOnly[m] = XOnly[k]
    /\ XOnly[k] # NumsX
    /\ i = Len(request.levels) => XOnly[k] \notin request.descriptor.exposed

\* the descriptor is written out as the note of a level but the last
NotedDescriptor ==
    \E i \in 1..(Len(request.levels) - 1) : Text(request.levels[i].note) = DescriptorPiece

\* Nobody gets at the descriptor without a key of every level, whatever keys
\* the descriptor itself names, unless somebody wrote it into the note of an
\* outer level (encrypt_to_level_keys replaces the keys).
EveryLevelNeeded ==
    HasDescriptor /\ ~NotedDescriptor => \A i \in DOMAIN request.levels : \E k \in held : OpensLevel(i, k)

\* what write_all may have left: nothing, or the first part of the bytes
BeginsWriting == file = <<>> \/ file = <<PartOf(sealed)>>

\* A command leaves the output file as it was, wherever it fails or stops, until
\* there is a whole backup to write; only then is the old content given up.  A
\* command that succeeds leaves that backup; one whose writing fails, or that is
\* stopped while it writes, leaves nothing of the old content and at most the
\* first part of the new one.
OldFileKept ==
    /\ pc \notin {"write", "done", "failed"} => file = OldFile
    /\ pc = "write" => BeginsWriting
    /\ pc = "done" => file = <<Backup(sealed)>>
    /\ pc = "failed" => IF error = "WriteError" THEN BeginsWriting ELSE file = OldFile

\* With --device the key of the device reads the backup, and so does every key
\* of the descriptor, except the keys it exposes and the NUMS point.
DeviceKeyJoins ==
    pc = "done" /\ request.device # NoDevice =>
        XOnlys(device.key \cup request.descriptor.keys)
            \ (request.descriptor.exposed \cup {NumsX}) = sealed.to

Opened(i) == \E k \in held : OpensLevel(i, k)
OpenedAll == \A i \in DOMAIN request.levels : Opened(i)
Innermost == LET last == request.levels[Len(request.levels)]
                 texts == Note(last.note) \o Note(request.msg) \o <<request.descriptor>>
             IN  [i \in DOMAIN texts |-> texts[i].data]
OuterNotes == \E i \in 1..(Len(request.levels) - 1) : request.levels[i].note # NoText

Unwrapped == request.levels # <<>> /\ document = Innermost

\* A holder of one key of each level, in levels without notes but the last,
\* unwraps them one after the other and ends with the note of the innermost
\* level, the message and the descriptor.
LevelsPeelOff ==
    pc = "done" /\ request.levels # <<>> /\ OpenedAll /\ ~OuterNotes ~> Unwrapped

\* The help text of --keys: any one key of a level decrypts that level, and its
\* note shows up when that level is decrypted.
NotedLevelsPeelOff ==
    pc = "done" /\ request.levels # <<>> /\ OpenedAll ~> Unwrapped
=============================================================================
