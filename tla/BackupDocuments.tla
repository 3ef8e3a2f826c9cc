--------------------------- MODULE BackupDocuments ---------------------------
(***************************************************************************)
(* The documents that a backup holds: a descriptor, a BIP380 descriptor    *)
(* backup (src/descriptor_backup.rs) and a BIP388 policy backup            *)
(* (src/policy_backup.rs), from the descriptors of a wallet to what        *)
(* decrypt extracts (src/lib.rs).  A policy set is made by a conversion of *)
(* WalletPolicy; the keys of the documents are pooled by the builder, and  *)
(* the core is used by its promise, as in Builder.                         *)
(*                                                                         *)
(* A text is what was serialised, with its shape: a policy alone or in     *)
(* sets, a descriptor backup, a bare descriptor.  A caller may also write  *)
(* a document by hand, since the fields are public.                        *)
(***************************************************************************)
EXTENDS WalletPolicy, DescriptorKeys

CONSTANTS
    Metas,        \* archived, range and birth time of a policy set
    NoMeta,       \* none of them
    HandMade,     \* documents that a caller writes
    Labels,       \* content types that a caller sets after the payload
    MaxSets,      \* bound on the policy sets that are made
    MaxDocuments  \* bound on the documents of a backup

VARIABLES
    sets,         \* the policy sets made so far
    sources,      \* history: the descriptor of each
    documents,    \* the documents so far
    madeFrom,     \* history: the sources of each that was made from sets
    stored,       \* the backup, or NoBlob
    outcome       \* of set_payload or set_payloads, and encrypt

docVars == <<sets, sources, documents, madeFrom, stored, outcome>>

ASSUME DocumentsAssumption ==
    /\ Roots \subseteq [key : PublicKeys, origin : Paths \cup {NoOrigin}]
    /\ NoMeta \in Metas
    /\ Labels \subseteq Contents

Version == 1

-----------------------------------------------------------------------------
(* Key expressions                                                         *)

IsDerived(s) == s.wildcard # "none" \/ \A i \in DOMAIN s.paths : s.paths[i] # <<>>

Classify(e) == [is |-> e.is, root |-> e.root.key, origin |-> e.root.origin,
                derived |-> e.is = "xpub" /\ IsDerived(e.suffix)]

Elements(s) == {s[i] : i \in DOMAIN s}
Expressions(d) == {Classify(e) : e \in Elements(d)}
IsMultipath(d) == \E e \in Elements(d) : Len(e.suffix.paths) > 1

-----------------------------------------------------------------------------
(* Documents                                                               *)

\* PolicySet::from_descriptor and to_descriptor
PolicySet(ks, t, meta) == [keys |-> ks, policy |-> TemplateText(t), meta |-> meta]
ToDescriptor(set) == RebuiltText(set.policy, set.keys)

PolicyBackup(version, ss) == [is |-> "policy", version |-> version, sets |-> ss]
DescriptorBackup(version, ss) == [is |-> "backup", version |-> version, sets |-> ss]
BareDescriptor(d) == [is |-> "descriptor", descriptor |-> d]

ASSUME HandMadeAssumption ==
    \A doc \in HandMade :
        \/ doc.is = "policy" /\ doc = PolicyBackup(doc.version, doc.sets)
                             /\ doc.sets \in Seq(Elements(doc.sets))
        \/ doc.is = "backup" /\ doc = DescriptorBackup(doc.version, doc.sets)
        \/ doc.is = "descriptor" /\ doc = BareDescriptor(doc.descriptor)

\* validate of a policy backup
ValidPolicy(doc) ==
    /\ doc.version = Version
    /\ doc.sets # <<>>
    /\ \A set \in Elements(doc.sets) :
          /\ set.keys # <<>>
          /\ set.policy # <<>>
          /\ \A k \in Elements(set.keys) : k.is # "literal"
          /\ CanRebuildText(set.policy, set.keys)

\* validate of a descriptor backup, whose set has a change descriptor or none
ValidBackup(doc) ==
    /\ doc.version = Version
    /\ doc.sets # <<>>
    /\ \A set \in Elements(doc.sets) : IsMultipath(set.descriptor) => set.change = <<>>

\* mutant: the other sets of the document are not looked at
IsSingleByMeta(doc) == doc.version = Version /\ doc.sets[1].meta = NoMeta
\* is_single, is_bare
IsSingle(doc) == doc.version = Version /\ Len(doc.sets) = 1 /\ doc.sets[1].meta = NoMeta

\* to_payload
Text(doc) ==
    CASE doc.is = "policy" /\ IsSingle(doc) -> [form |-> "policy", set |-> doc.sets[1]]
      [] doc.is = "policy" /\ ~IsSingle(doc) ->
            [form |-> "policy_sets", version |-> doc.version, sets |-> doc.sets]
      [] doc.is = "backup" ->
            [form |-> "descriptor_sets", version |-> doc.version, sets |-> doc.sets]
      [] doc.is = "descriptor" -> [form |-> "descriptor", descriptor |-> doc.descriptor]

ContentType(doc) == IF doc.is = "policy" THEN "Bip388" ELSE "Bip380"

\* every entry of the key vectors, used by a placeholder or not
AllKeys(doc) == UNION {Elements(set.keys) : set \in Elements(doc.sets)}
AllDescriptors(doc) == {set.descriptor : set \in Elements(doc.sets)}
                       \cup UNION {Elements(set.change) : set \in Elements(doc.sets)}

\* what the methods of each as a payload return; keys() of a policy backup
\* validates it and the one of a descriptor backup does not
Refuses(doc) == doc.is = "policy" /\ ~ValidPolicy(doc)
PolicyPayload(doc) ==
    LET exprs == {Classify(k) : k \in AllKeys(doc)}
    IN  [content |-> ContentType(doc), data |-> Text(doc),
         keys |-> {e.root : e \in exprs},
         keyPaths |-> {<<e.root, e.origin>> : e \in {x \in exprs : x.origin # NoOrigin}},
         warnings |-> {<<"NumsKey", e>> : e \in {x \in exprs : XOnly[x.root] = NumsX}},
         exposed |-> {}]
Payload(doc) ==
    CASE doc.is = "policy" -> PolicyPayload(doc)
      [] doc.is = "backup" ->
            AsPayload(ContentType(doc), Text(doc), UNION {Expressions(d) : d \in AllDescriptors(doc)})
      [] doc.is = "descriptor" ->
            AsPayload(ContentType(doc), Text(doc), Expressions(doc.descriptor))

-----------------------------------------------------------------------------
(* extract                                                                 *)

Value(v) == [says |-> "value", value |-> v]
ParseError == [says |-> "error"]
Skipped == [says |-> "none"]

\* parse_policy_backup
ParsedPolicy(text) ==
    LET doc == IF text.form = "policy" THEN PolicyBackup(Version, <<text.set>>)
                                       ELSE PolicyBackup(text.version, text.sets)
    IN  IF text.form \in {"policy", "policy_sets"} /\ ValidPolicy(doc)
        THEN Value(doc) ELSE ParseError

\* parse_descriptor_backup
ParsedBackup(text) ==
    IF text.form = "descriptor_sets" /\ ValidBackup(DescriptorBackup(text.version, text.sets))
    THEN Value(DescriptorBackup(text.version, text.sets)) ELSE ParseError

\* a text of ours is UTF-8
Extracted(content, text) ==
    CASE content \in {"None", "Unknown", "String", "Bip138"} -> Value([is |-> "text", text |-> text])
      [] content = "Bip380" -> IF text.form = "descriptor" THEN Value(BareDescriptor(text.descriptor))
                                                           ELSE ParsedBackup(text)
      [] content = "Bip388" -> ParsedPolicy(text)
      [] OTHER -> Skipped

\* decrypt: in order, to the first item that does not parse
ReadItems(items) ==
    LET read == [i \in DOMAIN items |-> Extracted(items[i][1], items[i][2])]
        values == Filtered(read, {i \in DOMAIN read : read[i].says = "value"})
    IN  IF \E i \in DOMAIN read : read[i].says = "error" THEN [is |-> "ParseError"]
        ELSE [is |-> "items", items |-> [i \in DOMAIN values |-> values[i].value]]

ReadBy(k) == IF XOnly[k] \in stored.to THEN ReadItems(stored.items) ELSE [is |-> "WrongKey"]

-----------------------------------------------------------------------------
(* The steps                                                               *)

DocInit ==
    /\ sets = <<>>
    /\ sources = <<>>
    /\ documents = <<>>
    /\ madeFrom = <<>>
    /\ stored = NoBlob
    /\ outcome = "none"

DocumentsInit == ConvertInit /\ DocInit

Collecting == outcome = "none" /\ Len(documents) < MaxDocuments
MoreSets == Collecting /\ Len(sources) + Len(Concat(madeFrom, Len(madeFrom))) < MaxSets

Convert ==
    /\ \/ MoreSets /\ \E d \in Descriptors : Begin(d)
       \/ ConvertStep
    /\ UNCHANGED docVars

\* the metadata is set on the set that from_descriptor returned
AddSet(meta) ==
    /\ MoreSets
    /\ stage = "done"
    /\ sets' = Append(sets, PolicySet(keys, template, meta))
    /\ sources' = Append(sources, descriptor)
    /\ UNCHANGED <<convertVars, documents, madeFrom, stored, outcome>>

Compose ==
    /\ Collecting
    /\ sets # <<>>
    /\ documents' = Append(documents, PolicyBackup(Version, sets))
    /\ madeFrom' = Append(madeFrom, sources)
    /\ sets' = <<>>
    /\ sources' = <<>>
    /\ UNCHANGED <<convertVars, stored, outcome>>

Write(doc) ==
    /\ Collecting
    /\ documents' = Append(documents, doc)
    /\ madeFrom' = Append(madeFrom, <<>>)
    /\ UNCHANGED <<convertVars, sets, sources, stored, outcome>>

Finish(b) ==
    /\ outcome' = IF EncryptError(b) = "none" THEN "sealed" ELSE EncryptError(b)
    /\ stored' = IF EncryptError(b) = "none" THEN Encrypted(b) ELSE stored
    /\ UNCHANGED <<convertVars, sets, sources, documents, madeFrom>>

\* set_payload, perhaps set_content_type, and encrypt
SealOne ==
    /\ outcome = "none"
    /\ Len(documents) = 1
    /\ ~Refuses(documents[1])
    /\ LET loaded == WithPayload(NewBuilder, Payload(documents[1]))
       IN  \E c \in Labels \cup {ContentType(documents[1])} :
              Finish([loaded EXCEPT !.content = c])

\* set_payloads and encrypt
SealMany ==
    /\ outcome = "none"
    /\ documents # <<>>
    /\ ~\E doc \in Elements(documents) : Refuses(doc)
    /\ Finish(WithPayloads(NewBuilder, [i \in DOMAIN documents |-> Payload(documents[i])]))

SealRefused ==
    /\ outcome = "none"
    /\ \E doc \in Elements(documents) : Refuses(doc)
    /\ outcome' = "DescriptorBackup"
    /\ UNCHANGED <<convertVars, sets, sources, documents, madeFrom, stored>>

DocumentsNext ==
    \/ Convert
    \/ \E meta \in Metas : AddSet(meta)
    \/ Compose
    \/ \E doc \in HandMade : Write(doc)
    \/ SealOne
    \/ SealMany
    \/ SealRefused

documentsVars == <<convertVars, docVars>>
DocumentsSpec == DocumentsInit /\ [][DocumentsNext]_documentsVars

-----------------------------------------------------------------------------
(* Properties                                                              *)

Sealed == outcome = "sealed"
Labelled == \A i \in DOMAIN documents : stored.items[i][1] = ContentType(documents[i])
Acceptable(doc) == doc.is = "backup" => ValidBackup(doc)

\* between the bars of a template there is room for one step, and none for no
\* step before the wildcard
Expressible(s) == \/ Len(s.paths) = 1 /\ s.paths[1] # <<>>
                  \/ Len(s.paths) > 1 /\ \A i \in DOMAIN s.paths : Len(s.paths[i]) = 1

\* the sets of a document stand for the descriptors they were made from, or the
\* document is refused
StandsFor(set, d) ==
    IF \A e \in Elements(d) : Expressible(e.suffix)
    THEN CanRebuildText(set.policy, set.keys) /\ ToDescriptor(set) = d
    ELSE ~CanRebuildText(set.policy, set.keys)
SetsStand ==
    \A i \in DOMAIN documents : \A n \in DOMAIN madeFrom[i] :
        /\ StandsFor(documents[i].sets[n], madeFrom[i][n])
        /\ ~CanRebuildText(documents[i].sets[n].policy, documents[i].sets[n].keys)
              => outcome \in {"none", "DescriptorBackup"}

\* The holder of a recipient key gets the documents of the backup and the
\* descriptors they were made from, through template, key vector, the single
\* or multiple form, and the parser of each content type.  Under whatever label
\* a caller put on it, a document is never read as another one; and a policy
\* made from descriptors is refused only if BIP388 cannot write one of them
\* (PolicySet::from_descriptor, to_payload, validate, extract).
SameDescriptorBack ==
    /\ SetsStand
    /\ Sealed => \A k \in {x \in PublicKeys : XOnly[x] \in stored.to} :
          /\ Labelled /\ (\A doc \in Elements(documents) : Acceptable(doc)) =>
                ReadBy(k) = [is |-> "items", items |-> documents]
          /\ ReadBy(k).is = "items" =>
                \A v \in Elements(ReadBy(k).items) : v.is # "text" => v \in Elements(documents)

\* the key expressions of the descriptors that a document stands for
DescriptorsOf(doc) ==
    CASE doc.is = "policy" -> {ToDescriptor(set) : set \in Elements(doc.sets)}
      [] doc.is = "backup" -> AllDescriptors(doc)
      [] doc.is = "descriptor" -> {doc.descriptor}
ExpressionsOf(doc) == UNION {Expressions(d) : d \in DescriptorsOf(doc)}
OnChainAs == UNION {ExpressionsOf(doc) : doc \in Elements(documents)}

Exposed == {XOnly[e.root] : e \in {x \in OnChainAs : ~MayEncrypt(x)}}

\* A root that a document's descriptors use as it is never seals the backup,
\* not even if the vector of a policy beside it names the root; every other
\* root that a key is derived from does, unless it is NUMS
\* (PolicyBackup::validate and keys, DescriptorBackup::keys, exposed_keys).
DocumentKeys ==
    Sealed =>
        /\ stored.to \cap Exposed = {}
        /\ {XOnly[e.root] : e \in OnChainAs} \ (Exposed \cup {NumsX}) \subseteq stored.to
=============================================================================
