------------------------------ MODULE DeviceKey ------------------------------
(***************************************************************************)
(* The commands that take one key from a signing device:                   *)
(*   - `encrypt --device` (fetch_encryption_device_key) runs XpubCollector *)
(*     and stops it after the first xpub;                                  *)
(*   - `encrypt --device PATH` and `fetch PATH` ask for one path only      *)
(*     (fetch_first_origin_xpub_at_path in src/signing_devices.rs);        *)
(*   - `fetch -o FILE` appends its xpub to FILE (append_line).             *)
(* Commands run one after the other; each is a process of its own, so the  *)
(* device calls that one leaves behind end with it.  Only FILE stays.      *)
(*                                                                         *)
(* A file is a sequence of pieces: xpubs, ends of line and the first part  *)
(* of an xpub whose writing failed.                                        *)
(***************************************************************************)
EXTENDS XpubCollector

CONSTANTS
    NoPath,       \* the command line names no path
    MaxRuns       \* bound on the commands that are run

VARIABLES
    command,      \* what runs: "none", "encrypt" or "fetch"
    asked,        \* the path of its command line
    pc,           \* control state of the command
    stop,         \* the flag between on_xpub and should_stop
    keys,         \* the channel between on_xpub and the end
    outcome,      \* key and path, or the error, of the last device request
    file,         \* the output file of the fetch commands
    reported,     \* history: the xpubs of the fetch commands that succeeded
    faults,       \* history: the fetch commands whose writing failed
    runs          \* number of commands so far

requestVars == <<command, asked, stop, keys>>
fileVars == <<file, reported, faults>>
vars == <<collectVars, requestVars, pc, outcome, fileVars, runs>>

EndOfLine == [is |-> "end of line"]
OriginXpub(p, k) == [is |-> "xpub", path |-> p, key |-> k]
PartOf(line) == [is |-> "part", of |-> line]
Key(k, p) == [is |-> "key", key |-> k, path |-> p]
None == [is |-> "none"]

\* the common paths have one that every device must answer for
ASSUME KeyAssumption ==
    /\ NoPath \notin DerivPaths
    /\ MaxRuns \in Nat
    /\ \A k \in Kinds : \E p \in CommonPaths : CommonExpect(k, p) = "MustFetch"

Init ==
    /\ CollectInit
    /\ command = "none"
    /\ asked = NoPath
    /\ pc = "idle"
    /\ stop = FALSE
    /\ keys = <<>>
    /\ outcome = None
    /\ file = <<>>
    /\ reported = {}
    /\ faults = 0
    /\ runs = 0

\* a new process; fetch always has a path
Run(c, p) ==
    /\ pc = "idle" /\ runs < MaxRuns
    /\ c = "fetch" => p # NoPath
    /\ runs' = runs + 1
    /\ command' = c /\ asked' = p
    /\ pc' = "device"
    /\ stop' = FALSE /\ keys' = <<>>
    /\ outcome' = None
    /\ stage' = "list"
    /\ kind' = NoDevice
    /\ todo' = {} /\ at' = Unlock
    /\ running' = {} /\ reply' = [x \in Calls |-> Nothing]
    /\ fetched' = {} /\ warned' = {}
    /\ UNCHANGED <<envelope, fileVars>>

Collecting == pc = "device" /\ asked = NoPath
AtPath == pc = "device" /\ asked # NoPath

-----------------------------------------------------------------------------
(* encrypt --device: the first xpub of the collector                       *)

FirstList(k) ==
    /\ Collecting /\ List(k)
    /\ UNCHANGED <<requestVars, pc, outcome, fileVars, runs>>

\* mutant: on_xpub does not set the flag
FirstXpubGoesOn ==
    /\ Collecting /\ TakeXpub
    /\ keys' = Append(keys, Key(reply[at].key, at))
    /\ UNCHANGED <<command, asked, stop, pc, outcome, fileVars, runs>>
\* on_xpub: the receiver lives until the function returns, so the key is sent
FirstXpub ==
    /\ Collecting /\ TakeXpub
    /\ keys' = Append(keys, Key(reply[at].key, at))
    /\ stop' = TRUE
    /\ UNCHANGED <<command, asked, pc, outcome, fileVars, runs>>

FirstStep ==
    /\ Collecting
    /\ Check(stop) \/ Spawn \/ Unlocked \/ Miss
    /\ UNCHANGED <<requestVars, pc, outcome, fileVars, runs>>

-----------------------------------------------------------------------------
(* One path                                                                *)

\* a listing that fails counts as no device; a BitBox02 is unlocked first
ListAt(k) ==
    /\ AtPath /\ stage = "list"
    /\ kind' = k
    /\ stage' = CASE k = NoDevice -> "done" [] k = "BitBox02" -> "spawn" [] OTHER -> "check"
    /\ UNCHANGED <<envelope, todo, at, running, reply, fetched, warned>>
    /\ UNCHANGED <<requestVars, pc, outcome, fileVars, runs>>

\* get_master_fingerprint: on this thread and without time limit
Fingerprint(known) ==
    /\ AtPath /\ stage = "check"
    /\ stage' = IF known THEN "spawn" ELSE "failed"
    /\ at' = IF known THEN asked ELSE at
    /\ UNCHANGED <<kind, envelope, todo, running, reply, fetched, warned>>
    /\ UNCHANGED <<requestVars, pc, outcome, fileVars, runs>>

XpubAtPath ==
    /\ AtPath /\ stage = "wait" /\ at # Unlock
    /\ reply[at].is = "xpub"
    /\ keys' = <<Key(reply[at].key, at)>>
    /\ stage' = "done"
    /\ UNCHANGED <<kind, envelope, todo, at, running, reply, fetched, warned>>
    /\ UNCHANGED <<command, asked, stop, pc, outcome, fileVars, runs>>

\* mutant: waits for an answer without time limit
MissedWhenAnswered ==
    /\ AtPath /\ stage = "wait"
    /\ reply[at].is = "error"
    /\ stage' = "failed"
    /\ UNCHANGED <<kind, envelope, todo, at, running, reply, fetched, warned>>
    /\ UNCHANGED <<requestVars, pc, outcome, fileVars, runs>>
\* an error or the timeout is fatal, whatever the path
MissedAtPath ==
    /\ AtPath /\ stage = "wait"
    /\ reply[at].is \in {"error", "nothing"}
    /\ stage' = "failed"
    /\ UNCHANGED <<kind, envelope, todo, at, running, reply, fetched, warned>>
    /\ UNCHANGED <<requestVars, pc, outcome, fileVars, runs>>

AtPathStep ==
    \/ AtPath /\ (Spawn \/ Unlocked) /\ UNCHANGED <<requestVars, pc, outcome, fileVars, runs>>
    \/ XpubAtPath
    \/ MissedAtPath

-----------------------------------------------------------------------------
(* The end of the request                                                  *)

\* key_rx.try_recv, or the Option of the one path
GotKey ==
    /\ pc = "device" /\ stage = "done" /\ keys # <<>>
    /\ outcome' = Head(keys)
    /\ pc' = IF command = "fetch" THEN "open" ELSE "idle"
    /\ UNCHANGED <<collectVars, requestVars, fileVars, runs>>

GotNone ==
    /\ pc = "device"
    /\ \/ stage = "done" /\ keys = <<>> /\ outcome' = [is |-> "NoKeys"]
       \/ stage = "failed" /\ outcome' = [is |-> "FailedToFetchXpub"]
    /\ pc' = "idle"
    /\ UNCHANGED <<collectVars, requestVars, fileVars, runs>>

-----------------------------------------------------------------------------
(* fetch -o: append_line                                                   *)

Line == OriginXpub(outcome.path, outcome.key)

\* mutant: the file is created anew
OpenNew ==
    /\ pc = "open"
    /\ \/ pc' = "write" /\ file' = <<>> /\ UNCHANGED faults
       \/ pc' = "idle" /\ faults' = faults + 1 /\ UNCHANGED file
    /\ UNCHANGED <<collectVars, requestVars, outcome, reported, runs>>
\* open with create and append: nothing in the file changes
OpenFile ==
    /\ pc = "open"
    /\ \/ pc' = "write" /\ UNCHANGED faults
       \/ pc' = "idle" /\ faults' = faults + 1
    /\ UNCHANGED <<collectVars, requestVars, outcome, file, reported, runs>>

\* writeln on an unbuffered file writes the line and then its end
WriteLine ==
    /\ pc = "write"
    /\ \/ /\ file' = Append(file, Line)
          /\ pc' = "end_line"
          /\ UNCHANGED faults
       \/ /\ file' \in {file, Append(file, PartOf(Line))}
          /\ pc' = "idle"
          /\ faults' = faults + 1
    /\ UNCHANGED <<collectVars, requestVars, outcome, reported, runs>>

EndLine ==
    /\ pc = "end_line"
    /\ pc' = "idle"
    /\ \/ /\ file' = Append(file, EndOfLine)
          /\ reported' = reported \cup {Line}
          /\ UNCHANGED faults
       \/ /\ faults' = faults + 1
          /\ UNCHANGED <<file, reported>>
    /\ UNCHANGED <<collectVars, requestVars, outcome, runs>>

-----------------------------------------------------------------------------
Listing == \E k \in Kinds \cup {NoDevice} : FirstList(k) \/ ListAt(k)
Identifying == \E known \in BOOLEAN : Fingerprint(known)

Step == FirstXpub \/ FirstStep \/ AtPathStep \/ GotKey \/ GotNone \/ OpenFile \/ WriteLine \/ EndLine

DeviceAnswer ==
    /\ pc = "device"
    /\ \E c \in running : \E r \in Answers(c) : Answer(c, r)
    /\ UNCHANGED <<requestVars, pc, outcome, fileVars, runs>>

Next ==
    \/ \E c \in {"encrypt", "fetch"}, p \in DerivPaths \cup {NoPath} : Run(c, p)
    \/ Listing \/ Identifying \/ Step \/ DeviceAnswer

Spec == Init /\ [][Next]_vars

\* A command is one thread, and its waits for the xpubs and for the unlocking end
\* by their time limits; no answer of the device is assumed, so list() and
\* get_master_fingerprint, which have no time limit, may never return.
FairSpec == Spec /\ WF_vars(Step)

-----------------------------------------------------------------------------
(* Properties                                                              *)

TakenKey ==
    /\ outcome.key = XpubAt[outcome.path]
    /\ asked # NoPath => outcome.path = asked
    /\ asked = NoPath =>
          /\ fetched = {<<outcome.path, outcome.key>>}
          /\ warned = {p \in Plan \ {outcome.path} : Before(p, outcome.path)}

\* The key a command goes on with is the device's key at the path it goes with:
\* the path of the command line, or the first one of the plan that the device
\* answered; every path before it was warned about, and none after it was asked
\* (the stop flag that on_xpub sets).  NoKeys means that no device was listed:
\* one that was gives a key or the error of the path that failed.
RightOutcome ==
    /\ outcome.is = "key" => TakenKey
    /\ outcome.is = "NoKeys" => kind = NoDevice

EndsALine(i) == i < Len(file) /\ file[i + 1] = EndOfLine
StartsALine(i) == i = 1 \/ file[i - 1] = EndOfLine

\* Every xpub that a fetch command reported as written is in the file, at the
\* end of a line, however many commands came after it and whether they failed;
\* it is a line of its own as long as no command failed while it wrote.
ReportedKept ==
    \A line \in reported : \E i \in DOMAIN file :
        /\ file[i] = line /\ EndsALine(i)
        /\ faults = 0 => StartsALine(i)

ListingHangs == pc = "device" /\ stage = "list"
IdentifyingHangs == AtPath /\ stage = "check"

\* A command comes to an end though the device may never answer, unless one of
\* the two calls without time limit, list() and (with a path) get_master_fingerprint,
\* never returns: there is no other place where it can stay.
CommandReturns ==
    []<>(pc = "idle") \/ <>[]ListingHangs \/ <>[]IdentifyingHangs
=============================================================================
