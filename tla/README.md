# TLA+ development of bip138

BIP138 encrypts the backup of a Bitcoin descriptor (or wallet policy, labels, any
text) so that every holder of one of its public keys can read it and nobody else
can. The repository holds a `no_std` core (`bip138-ll`), a crate with typed
payloads and a builder (`bip138`), a command line program that talks to signing
devices, and a C interface. This directory models them in TLA+, checks small
instances with TLC and proves theorems with TLAPS about the encryption core, the
plaintext codec and the wire format, the builder, the wallet policies, the documents,
the three commands that encrypt, decrypt and fetch, the collector of xpubs and the C
interface.

File names below are relative to the repository's root: `bip138-ll/src/lib.rs` is
the core, `src/lib.rs` the builder, `src/bin/main.rs` the program.

## 1. Inventory

| Component | State | Operations | What is hard | What makes it correct |
|---|---|---|---|---|
| Encryption core (`bip138-ll/src/lib.rs`, `crypto.rs`) | nonce, items, individual secrets, per-decryption scan | `encrypt*`, `build_v1_payload`, `encode_v1_backup`, `pad_individual_secrets*`, `encrypt_with_nonce`, `decrypt_chacha20_poly1305_v1` | a random source that repeats itself or is broken, counts at their limit, the order of the checks, decoys among real secrets | exactly the recipients read exactly the items; the number of secrets tells the bucket only; no zero nonce; good arguments are never refused |
| Compact integers (`varint.rs`) | none | `encode`, `parse` | borders of the widths | one encoding per number |
| Plaintext codec (`lib.rs`) | offset, items, the fraction of the padded size | `encode_plaintext`, `geometric_bucket`, `decode_plaintext`, `parse_content` | lengths from the input, zero padding, rounding and overflow of the fraction, content of later versions | reads back, stays in bounds, one encoding per list, a padded size is one of a fixed sequence |
| Wire format (`lib.rs`, `derivation.rs`) | offset, fields, remaining counts | `encode_v1`, `decode_v1`, `decode_version`, `decode_v1_encrypted_payload_lengths` | inputs cut anywhere, appended payloads, trailing bytes, two parsers of one payload | reads back, a cut is noticed, the two parsers agree |
| Builder (`src/lib.rs`, `EncryptedBackup`) | version, content, keys, paths, exposed keys, warnings, payload | eleven setters, `encrypt`, `decrypt`, `extract` | any order of calls, reuse with old pools and for bytes made elsewhere, keys with the same x coordinate | an exposed key never becomes a recipient; nobody is dropped in silence; recipients read; a builder reads what it was last given |
| Encrypt command (`main.rs`) | builder, levels still to wrap, output file | read files, wrap level by level, ask the device, create and write | files that fail in between, setters that replace each other's keys, decrypting its own nested output | a key of every level is needed and enough; a failure before the writing keeps the old file |
| Decrypt command (`main.rs`) | stop flag, channel of keys, channel of documents, three threads | main, worker, fetch thread | all interleavings, senders that must be dropped, errors racing documents | one outcome, the right one, and it comes |
| Xpub collector (`signing_devices.rs`) | plan, pending call, calls that timed out | `collect_until`, `paths`, `unlock`, `get_extended_pubkey` | calls that cannot be cancelled and answer late, a listing without time limit | the xpub of a path is that path's; the backup's paths come first; stop is honoured |
| Device key for encryption (`main.rs`, `signing_devices.rs`) | plan and pending call of the collector, stop flag, channel of one key | `fetch_encryption_device_key`, `fetch_first_origin_xpub_at_path` | the collector must stop after the first xpub; a device that fails must not look like none | the key taken is that of the path it goes with; `NoKeys` means no device; the command ends |
| Fetch command | the output file | one path, `append_line` | several commands on one file, faults at every system call | an xpub that was reported is in the file |
| Inspect command | none | the parser above, a JSON document | — | agrees with decrypt |
| Piped arguments (`parse_cli`, `read_args_within`, `read_stdin_args`) | a reader thread, its channel | read lines, wait 200 ms, go on | the time limit against a producer that is late, stops or writes no text | the command runs on all that was piped or on none of it, and it starts |
| Descriptor keys (`descriptor.rs`) | none | `descr_to_dpks`, `descr_exposed_keys`, `descr_warnings`, `dpks_to_key_paths` | one key in two expressions or under both parities, NUMS | every expression is a recipient or in a warning; no recipient is on chain |
| Documents (`descriptor_backup.rs`, `policy_backup.rs`) | version, sets, metadata | `from_descriptor`, `to_descriptor`, `validate`, the methods of `ToPayload`, the parsers | two forms of one document, one content type for two, a key vector that seals before the template is looked at | the reader gets the document and the descriptors back; no key on chain seals it |
| Wallet policies and miniscript backend (`backend/`) | key information vector | `from_descriptor`, `into_descriptor`, `Display`, `FromStr`, `classify` | numbered in one pass and translated in another, in either direction; the `/**` shorthand | a policy stands for its descriptor |
| C interface (`ffi.rs`, `bip138.h`) | buffers and results given out, items that borrow from them | `bip138_encrypt`, `_decrypt`, `_decrypt_len`, `_decrypt_item`, `_buf_free`, `_decrypt_free` | a dozen early returns, callbacks that fail or do nothing, ownership | nothing leaks, a failure changes nothing, items come back as they went in |
| Version 0 backups | the raw bytes in the builder | `try_v0_decrypt` | told apart by their magic from the others | errors keep their meaning; the crate it delegates to is not in the repository |
| Fuzz harness, test vectors | none | — | — | not part of the program |

How they interact. The program fills a builder and calls `encrypt`; the builder
calls the core with the pooled keys, paths and items; the core encodes the
plaintext, seals it and encodes the backup. Decrypting goes the other way: the
program decodes the file into a builder (`set_encrypted_payload`), clones it per
key, and the core scans the individual secrets. During decryption the keys come
through a channel from `main` (key file) and from the fetch thread, which runs
the collector with a callback (`on_xpub`) that sends each xpub and one
(`should_stop`) that reads a flag shared by all threads. Each device call is one
more thread that cannot be cancelled.

The hazards of this code are listed, each at its line, in `PROJECT.json`.

## 2. Modules

```
SealedBackup  <--implements--  BackupCore --extends--> SymbolicCrypto <--extends-- CInterface
     | promise used by              ^                                                 ^
  Builder                           '----------- theorems: LowLevelProofs ------------'
     ^
     |- DescriptorKeys  <--extends--  EncryptedBackup   (any sequence of calls)
     |        ^                                            ^
     |        '---------  BackupDocuments --extends--> WalletPolicy
     |                          ^------- theorems: LibraryProofs (all three)
     '- EncryptCommand  (the program, levels, holder)  --extends--> PipedArguments
                ^--theorems-- EncryptCommandProofs

KeyHunt  <--implements--  DecryptCommand --extends--> XpubCollector <--extends-- DeviceKey
     ^  promise used by        ^ theorems                  ^ theorems               ^ theorems
  EncryptCommand's     DecryptCommandProofs --cites--> XpubCollectorProofs <--cites-- DeviceKeyProofs
  holder

Varint  <--extends--  PlaintextCodec, WireFormat  <--extends--  Decoders
                                                                   ^--theorems-- DecodersProofs

Recursion  <--extends--  Varint, Builder, PipedArguments
     ^--lemmas-- RecursionProofs  <--cite-- DecodersProofs, LibraryProofs, EncryptCommandProofs
```

Each module has one action per handler, loop turn or thread step. The definition
to code lines table is `map` in `PROJECT.json`; here is the idea of each module.
An operator marked "mutant" in its comment is a bug that could have been written
instead of the definition after it. No action uses one: they show that the
property they are listed with in `PROJECT.json` notices such a bug.

**SealedBackup** (abstract). A box is sealed once to a set of recipients, or the
encryption refuses; a holder is told the items if it is a recipient and
`WrongKey` if it is not.

**BackupCore.** One call of the encryption, then any number of holders that scan.
`pc` walks through the functions: `nonce`/`redraw` is `draw_nonce`, `payload` is
`build_v1_payload`, `header` is the head of `encode_v1_backup` with its checks in
their order, `pad` is one turn of the decoy loop per step (or the supplied decoys
at once), `seal` is `encrypt_with_nonce` and `encode_v1`. `scan[k]` is one
decryption, one AEAD attempt per step. Cryptography is symbolic
(**SymbolicCrypto**, which the C interface shares): a 32-byte value
is a finite set of atoms and XOR is symmetric difference, so `x XOR x` is zero and
XOR is associative as it is on bytes; tagged hashes and random draws are single
atoms; the AEAD opens for the key and nonce that sealed. The secrets are sorted by
their bytes in the code; bytes do not exist in the model, so a scan tries them in
every order.

**PlaintextCodec, WireFormat, Varint, Decoders.** Real encoders as functions from lists to
bytes over a scaled alphabet (`Base` plays 256, fields are 2 bytes, `UsizeMax`
plays `usize::MAX`), and the decoders as state machines with one field or one
loop turn per step; so is `geometric_bucket`, with the fraction and the width of the
integers it is computed with (`WideMax`). `Decoders` makes one call of either.
`TypeOK` holds the bounds: an offset never passes the input,
and where the code indexes a byte without looking there is one. An integer's width and
its bytes are computed with products and quotients by `Base` (`Shifted`), without
powers, which keeps them in the provers' arithmetic.

**Recursion.** The two recursive functions that several modules need, `Concat` and
`Filtered`: what the code's loops that append to a vector compute.

**Builder.** The setters as operators on the builder's record, with
`DropExposedKeys` at the ends of the setters that call it, and
`EncryptError`/`Encrypted`/`Extract`/`Decrypted` for the two final calls, errors
in the code's order. The core is used by its promise: the encrypted bytes are the
recipients, the stored paths and the items, with whether the plaintext decodes and,
for bytes made elsewhere, another encryption or the format of version 0.

**DescriptorKeys.** A descriptor is the set of its key expressions, each a literal
key or an xpub with or without derivation, its root and its origin path, which is
what `Backend::classify` tells about it. The four filters of `descriptor.rs` are
operators on such sets.

**EncryptedBackup.** A caller who makes any sequence of calls on one builder with
such descriptors and other payloads, encrypts any number of times (a clone), feeds
the result back, decrypts. History variables record the keys and the expressions
that the caller gave; the properties are stated on those, never on the pools.

**WalletPolicy.** A descriptor is the sequence of its key expressions as
`for_each_key` visits them. `from_descriptor` is a state machine: one pass numbers
the roots (`IndexRoot`), one translates (`TranslateKey`, `RefuseKey`), from left to
right with miniscript 12 and from right to left with miniscript 13 (`backwards`),
and `CheckKeyOrder` ends it. A template's text keeps for every placeholder whether
the suffix is the shorthand `/**` or what is written out, and `Readable` says which
of these texts the key parser of miniscript takes.

**BackupDocuments.** Policy sets made by such conversions, documents composed of
them, and documents that a caller writes by hand, since the fields are public.
`SealOne` and `SealMany` put one or several into a builder and encrypt, under the
document's label or one the caller sets; `Extracted` is what `extract` makes of each
item. A text is the record that was serialised, with its form.

**PipedArguments.** The command, the reader thread and the program on the other end
of the pipe. `GiveUp` may happen at any moment of the wait: durations are left out.

**EncryptCommand.** The command line comes from PipedArguments. `Start` reads the files and parses the levels,
`EncryptLevel` wraps from the innermost level outwards, `FetchKey`/`FetchFails`
is the device, `Create`, `WritePart` and `Write` the output file. A holder with some keys then
runs decrypt on the file and on each output (`Peel`). A document is the sequence
of its pieces: what matters is whether a backup stands alone in it.

**XpubCollector.** `collect_until`: `List`, then for each path of the plan
`Check` (stop flag), `Spawn`, and an answer, an error or a timeout (`TakeXpub`,
`Miss`). `Answer` belongs to the device thread and may come at any time after the
collector has given up. The plan's sort key is modelled (`SortKey`).

**DecryptCommand.** Main, worker and fetch thread, one action per channel or flag
operation, so that every interleaving of the flag with the two channels exists.
Dropped senders are predicates on control states (`NoKeySender`,
`NoDocumentSender`). When main exits nothing moves any more: the process is gone.
It implements **KeyHunt** (abstract): keys are offered; one outcome, a document
only from a key that was offered, a negative answer only if no key that was or
ever will be offered opens the backup.

**DeviceKey.** Commands that take one key from a device, one process after the
other: `encrypt --device` runs the collector (`FirstList`, `FirstXpub`,
`FirstStep`), `encrypt --device PATH` and `fetch PATH` ask for one path
(`ListAt`, `Fingerprint`, `XpubAtPath`, `MissedAtPath`), and `fetch -o`
appends to a file that outlives the processes (`OpenFile`, `WriteLine`,
`EndLine`, each of which may fail).

**CInterface.** A C client and the library's heap. `EncryptOutcome`,
`DecryptOutcome` and `ItemOutcome` list the checks of an entry point in their
order, the core's included; an action exists for success, failure and a call that does
not come back. `memory` is what the library has allocated and not freed. A callback is good, is
missing, fails, or returns without doing anything; a random callback that does nothing
leaves zeros, so the decoy loop never ends (`Hangs`), or, when the keys fill a bucket
(`FullBuckets`) and no decoy is drawn, the nonce is refused. A callback that reports
success and returns bytes that no cipher or hash would is not modelled, so
`RecipientsRead` says nothing of it.

## 3. Runs

| Run | What it shows | Distinct states |
|---|---|---|
| `backup_core` | the core is a sealed backup; counts, nonces and paths are right; refusals have a cause; both calls return | 24 644 |
| `decoders` | lists and backups read back or, when cut, are refused; decrypt and inspect agree; padded sizes; bounds; one encoding; termination | 38 519 |
| `documents` | a policy stands for its descriptor, the same document comes back, no key on chain seals it | 293 950 |
| `encrypted_backup` | no recipient on chain, everybody reads or is in a warning, paths follow keys, every recipient reads, a used builder reads what it was last given | 55 554 |
| `encrypt_command` | a key of every level is necessary and, without outer notes, sufficient; the old file survives whatever fails before the writing; the device's key joins; piped arguments come whole or not at all and the command starts | 36 405 |
| `decrypt_command` | the threads are a key hunt, never silent, ask in order, stop on time, and end even if a listing that never returns is under way and the key file works | 157 083 |
| `device_key` | the key taken is the right one, no device is not a failed one, reported xpubs stay in the file, commands end unless one of two calls without time limit hangs | 207 974 |
| `c_interface` | nothing leaks, a failure changes nothing, items and numbers come back, what was returned is readable | 90 454 |
| `broken_source`, `file_key_suffices`, `kept_key_keeps_path`, `noted_levels_peel_off` | the first four entries of section 6 | — |

### Bounds

- **backup_core.** Five keys and NUMS, counts up to 4 and buckets 3 and 4, so that
  there are backups below, at and above the limit and padding of nought to two
  decoys; two random outputs, so that a draw can repeat another; four
  paths: stored, common, empty, too long; item lists that are empty, too long, of
  no content, too large to pad. Requests vary one argument at a time around a
  good one, plus the pairs that meet in the code (padding with items; nonce with
  decoys). Three readers: a recipient, a stranger or second recipient, NUMS.
  Readers do not influence one another.
- **decoders.** `Base = 12`, so that markers are 9, 10 and 11 and the
  upgrade range starts at 6; `UsizeMax = 12^4 - 1`, so that eight-byte lengths
  exceed it. All strings of up to four bytes over eight of the values,
  lists of up to two items of every content type, items of the sizes around the
  first buckets, and integers up to 200 000, so that the fraction overflows
  before the largest of them fits. Backups with two-byte fields, up to two paths,
  two secrets and three payloads; every cut; trailing bytes that look like a
  payload, like half of one and like none; short strings that begin like a backup.
- **documents.** Roots that share a key, one of them NUMS; suffixes of every shape
  (the default pair, hardened, swapped, a single path, none, a prefix, no wildcard)
  and literal keys; two sets and two documents; hand-made documents that are wrong
  in one thing each (version, no set, unused or literal keys, indices out of order,
  a change descriptor beside a multipath) or put a key of another one on chain; five
  labels.
- **encrypted_backup.** Two keys with the same x coordinate, two others and NUMS; a
  descriptor that derives from two keys and NUMS, each with a path of its own, one
  that uses one of those keys under its other parity and the other as a bare xpub,
  a payload of a type that decrypt has no parser for, one of unknown content; foreign
  bytes of version 0, of another encryption, and with a plaintext that does not
  decode; `MaxCalls = 4` (a payload, a setter, encrypt and the return of the bytes; the
  theorems cover any number). The violation `kept_key_keeps_path` needs its own cfg.
- **encrypt_command.** Up to three levels (the loop has a first, a middle and
  a last turn), with and without note; a line without key or without origin; a
  descriptor that exposes one of its keys; a device with or without a path; any
  file unreadable; creation failing, or writing at once or half way; four sets of keys for the holder. Command lines with
  one option twice, none or two lines in the pipe, one of them not UTF-8.
- **decrypt_command.** A Ledger and a BitBox02 (the only kind that is unlocked
  and whose purpose 44 may fail), the three common purposes and one path of the
  backup's own, envelopes that store none or two paths, one key per path and one
  in the key file; a backup for the file's key, one for two of the device's, one
  that opens but does not parse.

- **device_key.** The devices and paths of decrypt_command; `MaxRuns = 3`, so that a
  fetch can follow one that failed half way and be followed by a third.
- **c_interface.** Lists of arguments that vary one thing around a good call: each
  null pointer, each callback in each of its states, each content number and one
  past the last, no keys, NUMS alone and too many keys (`ListMax = 2`; two keys need no
  decoy, one does: `FullBuckets = {2}`), paths that are empty, too long or common; `MaxCalls = 4`
  (encrypt, decrypt, read an item, one more call or a release).

Deadlock checking is off where the program really stops: a process that exited, a
parser that returned, a bounded caller.

### Fairness

- Core, decoders: one thread that nothing blocks, so weak fairness of its steps.
  For the decoy loop, `WF(EncryptStep)` says in addition that a good random source
  sooner or later yields a value it has not yielded; with 32-byte draws it does.
- Decrypt command: weak fairness of main, worker and fetch thread, which the
  operating system schedules. Their waits are guards. The wait for a device has a
  time limit in the code, so `Miss` needs no help of the device and
  `DeviceAnswer` has **no** fairness: a device may stay silent forever. Listing
  devices has no time limit (`signing_devices.rs`, `list`), so `Listing` has none
  either, and `CommandEnds` allows for a listing that hangs forever, unless the
  key file opens the backup.
- Device key: weak fairness of the command's thread and nothing else. Device calls with
  a time limit need not answer. `list()` and, with a path, `get_master_fingerprint` have
  none (`src/signing_devices.rs:303`, `309`) and may never return, so `Listing` and
  `Identifying` have no fairness, and `CommandReturns` allows for a command that stays in
  one of the two: it says that it can stay nowhere else.
- Encrypt command: weak fairness of the command's own wait (`WF(Parser)`: the time
  limit of `recv_timeout` expires) and of the holder, who goes on while there is
  something to peel. The reader and the producer have **none**: the pipe may never
  deliver.

## 4. What is proved

Two modules hold the theorems of one crate each: `LowLevelProofs` those of BackupCore and
of CInterface (`bip138-ll`), `LibraryProofs` those of EncryptedBackup, WalletPolicy and
BackupDocuments (`bip138`). `RecursionProofs` has the lemmas about recursion that the
others cite.

**The core** (`LowLevelProofs`), for every finite set of keys and paths, every set of
calls, every limit and every number of readers:

- `TypeCorrect`: `Spec => []TypeOK`.
- `Invariance`: `Spec => []IInv`, the inductive invariant.
- `ScanOutcomeCorrect`: a scan that ends is right. The run does not check this
  separately: it follows from the refinement too.
- `SecretCountCorrect` and `NonceNotZeroCorrect`, together `BackupShapeCorrect`, and
  `PathsRecoverableCorrect`: safety properties of the run `backup_core`.
- `RefusedForCauseCorrect`: good arguments are never refused, the last safety property
  of that run.
- `ImplementsSealedBackup`: `Spec => SealedBackupSpec`, the refinement.

The only assumption is `ConstantsAssumption` of `BackupCore` (limits are natural
numbers, at least 1 where the code's are; keys and paths are finite; requests
have their type); TLC evaluates it in the run.

*Why the invariant is needed.* `ScanOutcome` speaks of a scan's end; to know it
one must know what the scan still has to try. `ScanInv` says that a scanning
recipient's own secret is still in `todo`; `SealInv` that the backup's secrets are
the padded ones and the cipher text is sealed under the secret of the recipients;
`MixInv` that the padded ones are all real secrets and otherwise random values;
`CountInv` and `KeyCountInv` that there are as many as the bucket says and that
the bucket holds them; `PayloadInv` that the items survive from the call.

*The algebra.* The steps rest on lemmas about masks. `XorInjective` and
`MaskInjective` give that two keys never share an individual secret
(`SecretPerKey`: as many secrets as keys); `Unmask` that unmasking `c` gives the
secret exactly if `c` is the individual secret; `OwnSecretOnly` that another
key's secret does not open for `k`; `SecretHasBothAtoms`, which is what domain
separation by tags is for, that an individual secret is neither zero nor a random
value; and from it `DecoyOpensNothing`. `BucketFits` says that the bucket of `n`
holds `n` and fits the one-byte count.

**The builder** (`LibraryProofs`), for every set of keys (whichever of them share
an x coordinate), paths, content types and payloads, and for calls in any number
and order:

- `TypeCorrect` and `Invariance`, as above.
- `RecipientsOffChainCorrect`, `EveryoneAccountedCorrect`,
  `PathsFollowKeysCorrect`, `EveryRecipientReadsCorrect` and `LoadedReadCorrect`: the
  safety properties of the run `encrypted_backup`. The type invariant is a theorem
  only; the run spends its time on the others.

Its assumptions are `BuilderAssumption`, `NoOriginAssumption` and
`CallsAssumption` (known content types are not `Unknown` or `None`; every key has
an x coordinate; the arguments of the calls have their types), which TLC
evaluates in the run.

*Why the invariant is needed.* The properties speak of what the caller gave; the
builder only has its pools. `Pooled` ties the two together: the exposed keys and
the pairs of key and path are those of all expressions so far, whoever was given
and is not a recipient has a warning (`Told`), a warning is about something real
(`TrueWarning`), and the paths lie between those of the kept keys and those of all.
It holds in the middle of a setter too. `Consistent` adds what holds at its end:
no recipient is exposed, and the paths are those of the kept keys. The lemma
`DropConsistent` says that `drop_exposed_keys` turns the one into the other, and
`PoolPooled` that pooling payloads keeps the first (`FiltersDistribute`: the
filters of `descriptor.rs` say the same of payloads together and of each for
itself). A setter of other fields keeps both (`OtherFieldsConsistent`). A true
warning is what makes `EveryRecipientReads` go through: a recipient that some
warning named would be read as refused. `BlobReads` remembers for a backup what
the builder was when it was made, and `FreshReader` shows that a holder's fresh
builder reads by the backup's recipients alone.

`LoadedRead` asks what the builder of each reachable state would read from any bytes it
might be given. It follows from the invariant by cases on the answers
(`ReaderAnswers`): what earlier calls left in the builder decides about `NoKey`,
through the exposed keys, and about nothing else.

**Wallet policies** (`LibraryProofs`), for descriptors of any length over any roots and
for both directions of translation, from `PolicyAssumption`:

- `ConvertTypeCorrect`; `PolicyCorrect`: `ConvertSpec => []PolicyStandsForIt`.

*Why the invariant is needed.* The key vector is complete before the first
placeholder is made, so `Vector` says what it is after any number of expressions:
no root twice, every root from an expression, every root there, and in the order of
the first appearances. The second pass only looks roots up, so that `Translated`,
the part it has been through, may be the left or the right end. Order of first
appearance is what `KeyOrder` needs, and that is where the direction of the
numbering pass matters.

**Documents** (`LibraryProofs`), for any descriptors and hand-made documents, from
`PolicyAssumption` and `DocumentsAssumption`:

- `DocumentsInvariance`, `PoliciesStand` (`PolicyStandsForIt` in the composition).
- `SetsStandCorrect`: a policy set taken from a descriptor stands for it through
  template text and parser, or the text cannot be read and the document is refused.
- `SameDescriptorBackCorrect`: `DocumentsSpec => []SameDescriptorBack`, for any number of
  documents and labels. It needs also `HandMadeAssumption` (a hand-made document is
  a value of its own type).
- `DocumentKeysCorrect`: `DocumentsSpec => []DocumentKeys`.

*The argument.* A conversion and the steps on documents interleave without touching
each other's variables, so the invariant of the conversion carries over. A set
is taken from a finished conversion only, whose template is the one the invariant
describes. That no key on chain seals a document comes from two sides: the builder
drops exposed keys (`DropExposedKeys`), and a document with a placeholder that uses
its root as it is does not validate (`NoneRefused`). That the same document comes back
is a statement about texts: a text is read as the document it was written from, or as
plain text, or not at all, whatever label it has, and as that document under the label of
its kind; and the items that `extract` selects are texts of the backup's documents
(`FilteredPart`).

`XpubCollectorProofs` has what each step of the collector preserves, for any plan;
`DecryptCommandProofs` and `DeviceKeyProofs` cite it. `CollectInv` says that the
paths already asked come before those still to ask (`Sorted`), that each of them has
a key or a warning (`AllAnswered`), and that what is in the channel of a path comes
from that path (`RepliesOfPath`), which is why late answers do no harm. `Before` is a
lexicographic order on four numbers; `FirstPath` shows that a finite set of paths
has a least one, so the `CHOOSE` in `NextPath` finds it.

`DecryptCommandProofs`, for any key file, device, backup and plan, and any
interleaving, from `CollectorAssumption` and `CommandAssumption`:

- `TypeCorrect`, `CommandInvariance`.
- `XpubOfItsPathCorrect`, `AskedInOrderCorrect`, `StopHonouredCorrect`,
  `NeverSilentCorrect`: the safety properties of the run `decrypt_command`.
- `ImplementsKeyHunt`: `Spec => KeyHuntSpec`, the refinement.

*Why the invariant is needed.* `NeverSilent` looks at main, but what makes it true
is spread over the other threads: `Spoken` says that whoever sets the flag, and a
worker that ends, has an answer in the channel or in its hands. `Searching`
says where each key that was offered is: in the channel, in the worker's hands, or
tried in vain; so when the channel is closed and empty none is left (`Exhausted`) and
`WrongKey` is true. `AnswersTrue` says this of the answers that lie in the channel,
because main may take one long after it was sent: a positive answer stays true since
offered keys are never withdrawn, a negative one since it is only sent when nobody
can offer a key any more. The refinement follows: main's receive is the abstract
outcome, the two sends of keys are the abstract offers, everything else stutters.

`EncryptCommandProofs`, for any command lines, pipes, files, levels and holders, from
`CommandAssumption` (the constants have their types):

- `EncryptInvariance`, `OldFileKeptCorrect`, `DeviceKeyJoinsCorrect`.
- `ArgumentsWholeCorrect`: what was piped comes whole or not at all.
- `EveryLevelNeededCorrect`: nobody gets at the descriptor without a key of every level,
  for any number of levels and keys. The theorem and the run have the same exception, which
  came up in the proof: a caller who writes the descriptor itself as the note of a level
  but the last has shown it to everyone who opens that level.

*Why the invariant is needed.* `FileInv` gives the file's content for each control
state; it is `OldFileKept` itself, whose case for a file that is being written makes the
one for a write that failed inductive, and no refusal of the builder is taken for such a
failure (`RefusalIsNoWriteError`); `DeviceInv` gives the builder's keys when the device is asked, when it has answered
and when the backup is sealed. `CliInv` says that what the reader has in its hands are the
words of the lines it has read, and what it has sent is all of them (`SentInv`): a cut
in the middle is never sent. `EveryLevelNeeded` looks at the holder, who peels the
output level by level. `SealInv` says what the command has sealed so far: `Wraps(w, n)`
names the backups of the levels from `n` on, each sealed to the keys of its level around
the next. `HolderInv` then says that the document in the holder's hands is a part
of level `i`, and that every level outside it was opened with a key of it (`Opened`).

`DeviceKeyProofs`, for any number of commands, devices, plans and failing writes,
from `CollectorAssumption` and `KeyAssumption`:

- `RequestInvariance`, `RightOutcomeCorrect`: safety of the device requests.
- `ReportedKeptCorrect`: safety of the file.

*Why the invariants are needed.* `FirstInv`: as long as no xpub came, every path that
was asked and is answered is in `warned`, and a path in `warned` is none that must be
fetched. With the first xpub the flag is set, so the collector goes from `check` to
`done` with the one key, and the paths before it (`Sorted`) are exactly the warned
ones. Without an xpub a listed device has been asked for the whole plan, which
contains a common path that it must answer for, and that one cannot be in `warned`:
so the collector has failed instead. This is the third conjunct of `KeyAssumption`;
those of the code include purpose 48 (`bip138-ll/src/lib.rs:390`), which must be fetched
on every device (`src/signing_devices.rs:374`). `FileInv` says that the file ends
with a whole line unless a write failed, and that the line being written starts one.

**The C interface** (`LowLevelProofs`), for any arguments and callbacks and any number of
calls, from `InterfaceAssumption` (null is no address; a refused parse has a name other than OK):

- `HeapInvariance`, `AccountedCorrect`, `FailureChangesNothingCorrect`,
  `ReadBackCorrect`, `RecipientsReadCorrect`: the safety properties of the run
  `c_interface`.

*Why the invariant is needed.* `HeapInv` says that the client's handles are null or
addresses given out so far, that the two are not the same, that memory is what they
point at and nothing more, and whose arguments each block comes from: a buffer is the
backup of arguments that were accepted, a result the decoded form of one. The last part
is why an item reads back: what the client holds was written by `content_from_ffi`
before. `FirstErrorSound` turns "no error" into "no check failed", once for the ordered
lists of checks of both entry points. `RecipientsRead` then rests on the algebra of
masks of SymbolicCrypto, and on the assertion of `individual_secret`: a hash callback
that does nothing would make the mask of every key the same.

`DecodersProofs`, for every size of the alphabet, of the integers and of the fields, every
list of items and every backup that is encoded, and every sequence of bytes that is
parsed:

- `DecodersTypeOKCorrect`: `DecodersSpec => []TypeOK`. No offset passes the input, and where
  a byte is indexed without a look there is one, in both decoders.
- `ItemsReadBackCorrect`, `OneEncodingCorrect`, `PaddedSizesCorrect`: the three
  properties of the plaintext codec.
- `BackupOrRefusalCorrect`, `InspectAgreesCorrect`: those of the wire format.

They rest on `VarintAssumption` (a byte has more than eight values, a `usize` at most
eight bytes), `CodecAssumption` (a BIP number has two bytes, the upgrade range starts after
the content types there are, the smallest padded size is at least 4, 10 KiB in the code, lists that are encoded
are not empty and have encodable content) and `WireAssumption` (fields are not empty; the sets
of paths and secrets that are encoded are finite; no nonce is zero, which
`NonceNotZeroCorrect` proves of the core). What is encoded or parsed is a `Vec` or a slice,
so its length is a `usize`. TLC evaluates all of these in the run `decoders`.

*Integers.* `ParseComplete` says that an integer is parsed as it was written, and
`ParseSound` that what is parsed was written by `EncodeVarint`, which is the reason for the
check of the smallest value. They go through `LittleEndian` and back, one byte at a time
(`BytesBack`, `NumberBack`).

*The codec.* `Has(s, o, p)` says that `p` stands in `s` at offset `o`; lemmas about it
(joined, shifted, cut) replace reasoning about indices. `CodecInv` holds for any input: as
long as all that was decoded is known, the encoding of the items stands at the start
of the input and ends where the decoder is. That is `OneEncoding`. `ReadBackInv` holds for an input
that was encoded: the decoder stands behind as many items as it has decoded, and behind
the last there is padding only. `BucketInv` follows the fraction: after `k`
turns it is the `k`-th of the sequence (`Bucket`), those before it were too small, and it
has grown by at least one each time (this is why the smallest size must be 4 or more), so
that the size the payload gets is found among the first ones.

*The wire format.* `WireInv` has the bounds, and why the walk of `inspect` agrees with
`decode_v1`: until the walk has counted the payload that was parsed, the length that it
will read is that payload's. `BackupInv` holds for an input that was encoded, cut or
followed by something: `InputOf` says that the input and the encoding agree as far as
both go, `HeaderRead` where each field stands (`PathStart`, `SecretStart`,
`PayloadStart`) and what has been read when the parser is there, and `PayloadsRead` the
same of the walk. `EightParts` and `V1Parts` place the parts of `EncodeV1`. The converse,
that a cut in what is needed is noticed, comes from the field in which the input ends: it
is refused there, since `HeaderRead` allows no other stage to go past it.

`RecursionProofs` is what makes statements about recursive functions provable. The library's
induction theorems take a predicate as their parameter, which the provers cannot instantiate;
`SetInduction` takes a set: one that has 0 and the successor of each of its members has
all natural numbers (it follows from the well-foundedness of `<`). From it,
a function that unfolds as a definition says exists, is unique and has its type
(`UnfoldsSome`, `UnfoldsOnce`, `UnfoldsTyped`), which turns the `CHOOSE` that stands behind
each recursive definition into its equations. `ConcatNext` and
`FilteredPart` are those equations for the operators of Recursion.

*What is only model-checked.* Liveness: `CallsReturn`, `CommandEnds`, `CommandReturns`,
`CommandStarts`, `DecodersReturn`, `LevelsPeelOff`. Fairness and `ENABLED` are out of the
prover's reach. Every safety property of the runs is a theorem.

## 5. What is not modelled, and why

- **Cryptography**: the cipher, the hash and the random source are symbolic.
  Nothing here says anything about their strength.
- **Geometric padding** in BackupCore is a set of sizes that can be padded; the sizes
  are computed in PlaintextCodec, and in the C interface padding always fits.
- **Builder**: an empty list for `set_payloads`, more than 255 keys (the core's limit
  is in BackupCore), base64 input (the same bytes). A payload whose own methods fail
  is in BackupDocuments.
- **Encrypt command**: a key line that is not a key at all counts as unreadable;
  the text between pieces of a document; the network option.
- **Decrypt command**: the build without the `devices` feature, which is
  sequential; writing the output.
- **External code**: device libraries answer with their key at the path that was
  asked, or fail, or stay silent. After a timeout two calls may run on one device at
  once (`src/signing_devices.rs:442`); that a device library keeps their exchanges
  apart is assumed, since that code is not in the repository.
- **Miniscript**: parsing and printing of descriptors; of the backend the adapters
  that only change the type of a key or path, which have no state.
- **Version 0 backups**: the crate that reads them, and `inspect` of one. What the
  builder keeps of such bytes and how it maps the crate's answers is modelled.
- **Documents**: the JSON around the fields, and labels and metadata beyond whether
  they are there.
- **Inspect command**: its JSON output.
- **Fuzz harness, test vectors**: differential tests of the encoders and their data;
  they are not part of the program.
- **C interface**: real memory. A pointer is given or null; what it points at is
  what the caller says. Geometric padding always fits there.
- **Fetch**: the listing's own errors and printing to stdout.

## 6. Where the code and its documentation disagree

1. *A broken random source hangs.* `broken_source`. The comment on `draw_nonce`
   says that two zero draws mean a broken source and that the zero nonce then
   reaches `encrypt_with_nonce`, which rejects it. Before that,
   `pad_individual_secrets` waits for a non-zero draw and never gets one.
2. *A device that fails beats a key file that works.* `file_key_suffices`. The
   fetch thread sets the stop flag and sends its error; the worker may not have
   tried the file's key yet. The README calls devices optional and says that one
   key is enough.
3. *A path of a kept key goes.* `kept_key_keeps_path`. The comment on
   `drop_exposed_keys` keeps a path that a kept key uses, pooled or set by hand;
   the code looks at pooled keys only.
4. *A note hides the levels below it.* `noted_levels_peel_off`. Decrypting a
   level that has a note writes note and nested backup into one document, which
   decrypt then does not accept. The innermost level is not affected.

These came up while modelling and have no run of their own:

5. *A fetched xpub can join an unfinished line.* A write that fails half way
   leaves part of a line; `append_line` then appends the next xpub to it
   (`src/bin/main.rs:626`), though "each one needs its own line"
   (`src/bin/main.rs:587-588`). `ReportedKept` therefore claims a line of its own
   only as long as no write failed.
6. *A hash callback can make the C interface panic.* `sha256` cannot report a
   failure; one that leaves its output alone makes both tagged hashes equal, and
   the `assert_ne!` of `individual_secret` (`bip138-ll/src/lib.rs:370`) panics
   inside `bip138_encrypt`, though "No entry point may panic."
   (`bip138-ll/src/ffi.rs:11`). The assertion is worth having: `RecipientsRead`
   fails without it. A random callback that does nothing makes the call hang, for the
   reason of entry 1 (`Hangs`).

7. *Some suffixes are written and not read.* The template writes `xpub/*` as
   `@0//*`, and a multipath behind a prefix as `/<0/0;0/1>/*`; miniscript parses
   neither. Nothing is lost: `validate` refuses the document before it is sealed
   (`Readable` in WalletPolicy, `SetsStandCorrect`).
8. *A bare descriptor is a BIP380 payload after all.* The head of
   `src/descriptor_backup.rs` says that a bare descriptor string is rejected, which is
   true of that parser; `extract` tries a bare descriptor first
   (`Extracted` in BackupDocuments).
9. *A hand-made document may not come back.* A `DescriptorBackup` that has both a
   multipath descriptor and a change descriptor can be built (its fields are public),
   and encrypts; the reader's parser refuses it. `SameDescriptorBack`
   promises a document back only if it is `Acceptable`.
10. *Reuse of a builder.* A key given with `set_keys` that an earlier payload exposed is
    dropped, so that `encrypt` ends with `NoKey`; version `V0` set before bytes of version
    1 are loaded makes `decrypt` return `NotImplemented`; the paths of a version 0 backup
    are not loaded, so that the builder shows those it had.
11. *A failed write loses the old backup.* `File::create` empties the file before
    `write_all` (`src/bin/main.rs:300-302`, `341-344`): an error while writing, or a
    process that is stopped there, leaves nothing or the first part of the new backup
    (`BeginsWriting`), which no key reads since a backup that lost its end is refused
    (`BackupOrRefusal`). `OldFileKept` promises the old file up to that point only.
12. *Geometric padding has a largest payload.* The fraction overflows 128 bits after 49
    steps, at about 574 MB, and larger payloads are refused with `Padding`; the branch for a
    size beyond `usize` is not reached on 64-bit machines.

## 7. Plan

Done, in this order of importance: the core and its refinement; the
decrypt command with the collector; the builder with the keys of descriptors; the
codecs with the geometric padding; the encrypt command with its piped arguments; the
device key and fetch; wallet policies and documents; version 0 as far as it is in the
repository; the C interface; the proofs listed in section 4.

A property that a later module needs takes the place of a weaker one, or joins one
about the same behaviour, so that the suite stays small enough to run on every change.

Next: the lemmas that would bring liveness nearer, safety facts that rule out what
would keep a loop going (a measure that each turn of the decoders and of the collector
decreases), and the lengths that `decode_plaintext` reports for content of later versions.
