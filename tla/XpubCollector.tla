---------------------------- MODULE XpubCollector ----------------------------
(***************************************************************************)
(* XpubCollector::collect_until (src/signing_devices.rs): ask the first    *)
(* connected signing device for its xpub at each path of a plan.           *)
(*                                                                         *)
(* Every device call runs on a thread of its own and answers on a channel  *)
(* of its own; the collector waits on that channel for a limited time.  A  *)
(* call that timed out cannot be cancelled: its thread stays and may       *)
(* answer later, while the next call is already pending.                   *)
(*                                                                         *)
(* The plan is the set of the common paths and of the paths of the backup, *)
(* taken in the order of paths().  Durations are left out: a call may time *)
(* out whenever it has not answered.  should_stop and on_xpub are the      *)
(* caller's: Check takes the first's value and the module that composes    *)
(* the collector adds the second to TakeXpub.                              *)
(***************************************************************************)
EXTENDS Naturals, Sequences, FiniteSets

CONSTANTS
    DerivPaths,   \* derivation paths, as positive numbers in the order of their bytes
    CommonPaths,  \* the common derivation paths of the coin type
    Purpose,      \* first index of each path, unhardened
    Envelopes,    \* the lists of paths a backup may store
    Ordering,     \* purposes in the order the caller prefers
    Kinds,        \* the device kinds that may be connected
    NoDevice,     \* no device is connected, or listing them failed
    XpubAt        \* the key the device has at each path

VARIABLES
    stage,        \* control state of the collector
    kind,         \* the device it talks to
    envelope,     \* paths stored in the backup
    todo,         \* paths of the plan still to ask
    at,           \* the call it waits for
    running,      \* calls whose thread has not answered yet
    reply,        \* what is in the channel of each call
    fetched,      \* paths and keys handed to on_xpub
    warned        \* calls the user is warned about

collectVars == <<stage, kind, envelope, todo, at, running, reply, fetched, warned>>

Unlock == 0                       \* the call that unlocks a BitBox02
Calls == DerivPaths \cup {Unlock}
Nothing == [is |-> "nothing"]
Failure == [is |-> "error"]       \* an error of the device, or a panic of its thread
Xpub(k) == [is |-> "xpub", key |-> k]

ASSUME CollectorAssumption ==
    /\ DerivPaths \subseteq Nat \ {Unlock}
    /\ IsFiniteSet(DerivPaths)
    /\ CommonPaths \subseteq DerivPaths
    /\ Purpose \in [DerivPaths -> Nat]
    /\ Envelopes \subseteq Seq(DerivPaths)
    /\ Ordering \in Seq(Nat)
    /\ NoDevice \notin Kinds \cup {"BitBox02"}
    /\ DOMAIN XpubAt = DerivPaths

-----------------------------------------------------------------------------
(* The order of the plan                                                   *)

CommonExpect(k, p) ==
    IF Purpose[p] = 87 \/ (k = "BitBox02" /\ Purpose[p] = 44) THEN "CanFail" ELSE "MustFetch"

\* a path of the backup that is also a common one keeps its common class
Expect(k, p) == IF p \in CommonPaths THEN CommonExpect(k, p) ELSE "PromptUser"
ExpectPriority(e) == CASE e = "MustFetch" -> 0 [] e = "PromptUser" -> 1 [] e = "CanFail" -> 2

\* index of the first x in s, or its length
Position(s, x) ==
    IF \E i \in DOMAIN s : s[i] = x
    THEN (CHOOSE i \in DOMAIN s : s[i] = x /\ \A j \in 1..(i - 1) : s[j] # x) - 1
    ELSE Len(s)

\* mutant: the class of a path is compared before its place in the backup
ExpectFirst(p) ==
    <<ExpectPriority(Expect(kind, p)), Position(envelope, p), Position(Ordering, Purpose[p]), p>>
SortKey(p) ==
    <<Position(envelope, p), ExpectPriority(Expect(kind, p)), Position(Ordering, Purpose[p]), p>>
Before(p, q) ==
    \E i \in 1..4 : /\ SortKey(p)[i] < SortKey(q)[i]
                    /\ \A j \in 1..(i - 1) : SortKey(p)[j] = SortKey(q)[j]
NextPath == CHOOSE p \in todo : \A q \in todo \ {p} : Before(p, q)

Plan == CommonPaths \cup {envelope[i] : i \in DOMAIN envelope}

-----------------------------------------------------------------------------
CollectInit ==
    /\ stage = "off"
    /\ kind = NoDevice
    /\ envelope \in Envelopes
    /\ todo = {}
    /\ at = Unlock
    /\ running = {}
    /\ reply = [c \in Calls |-> Nothing]
    /\ fetched = {}
    /\ warned = {}

\* list(): only the first device is used; none, or an error, ends the collection
List(k) ==
    /\ stage = "list"
    /\ kind' = k
    /\ todo' = IF k = NoDevice THEN {} ELSE Plan
    /\ stage' = CASE k = NoDevice -> "done" [] k = "BitBox02" -> "spawn" [] OTHER -> "check"
    /\ UNCHANGED <<envelope, at, running, reply, fetched, warned>>

\* head of the loop over the paths
Check(stopped) ==
    /\ stage = "check"
    /\ IF stopped \/ todo = {}
       THEN /\ stage' = "done"
            /\ UNCHANGED <<at, todo>>
       ELSE /\ at' = NextPath
            /\ todo' = todo \ {NextPath}
            /\ stage' = "spawn"
    /\ UNCHANGED <<kind, envelope, running, reply, fetched, warned>>

\* get_extended_pubkey: a thread and a channel for this call
Spawn ==
    /\ stage = "spawn"
    /\ running' = running \cup {at}
    /\ stage' = "wait"
    /\ UNCHANGED <<kind, envelope, todo, at, reply, fetched, warned>>

\* a BitBox02 is unlocked by asking it for its common path of purpose 48
AskedPath(c) == IF c = Unlock THEN {p \in CommonPaths : Purpose[p] = 48} ELSE {c}
Answers(c) == {Failure} \cup {Xpub(XpubAt[p]) : p \in AskedPath(c)}

\* mutant: all calls answer on one channel
AnswerShared(c, r) ==
    /\ c \in running
    /\ r \in Answers(c)
    /\ running' = running \ {c}
    /\ reply' = [reply EXCEPT ![at] = r]
    /\ UNCHANGED <<stage, kind, envelope, todo, at, fetched, warned>>
\* the device thread of call c, in time or late
Answer(c, r) ==
    /\ c \in running
    /\ r \in Answers(c)
    /\ running' = running \ {c}
    /\ reply' = [reply EXCEPT ![c] = r]
    /\ UNCHANGED <<stage, kind, envelope, todo, at, fetched, warned>>

Unlocked ==
    /\ stage = "wait" /\ at = Unlock
    /\ reply[at].is = "xpub"
    /\ stage' = "check"
    /\ UNCHANGED <<kind, envelope, todo, at, running, reply, fetched, warned>>

\* on_xpub is the caller's and happens in the same step
TakeXpub ==
    /\ stage = "wait" /\ at # Unlock
    /\ reply[at].is = "xpub"
    /\ fetched' = fetched \cup {<<at, reply[at].key>>}
    /\ stage' = "check"
    /\ UNCHANGED <<kind, envelope, todo, at, running, reply, warned>>

\* an error or the timeout: fatal for the unlocking and for a path that must
\* be fetched, a warning for the others
Miss ==
    /\ stage = "wait"
    /\ reply[at].is \in {"error", "nothing"}
    /\ IF at = Unlock \/ Expect(kind, at) = "MustFetch"
       THEN /\ stage' = "failed"
            /\ UNCHANGED warned
       ELSE /\ stage' = "check"
            /\ warned' = warned \cup {at}
    /\ UNCHANGED <<kind, envelope, todo, at, running, reply, fetched>>

-----------------------------------------------------------------------------
(* Properties                                                              *)

\* Type invariant of the collector's variables.
CollectTypeOK ==
    /\ stage \in {"off", "list", "check", "spawn", "wait", "done", "failed"}
    /\ kind \in Kinds \cup {NoDevice}
    /\ envelope \in Envelopes
    /\ todo \subseteq DerivPaths
    /\ at \in Calls
    /\ running \subseteq Calls
    /\ reply \in [Calls -> {Nothing, Failure} \cup {Xpub(XpubAt[p]) : p \in DerivPaths}]
    /\ fetched \in SUBSET (DerivPaths \X {XpubAt[p] : p \in DerivPaths})
    /\ warned \subseteq DerivPaths

\* A key handed to on_xpub is the device's key at the path it is handed with,
\* though calls that timed out are still running and answer late
\* (get_extended_pubkey has a channel per call).
XpubOfItsPath == \A f \in fetched : f[2] = XpubAt[f[1]]

\* The paths of the backup are asked before any other, in the backup's order,
\* and a path that was asked before another was either fetched or warned about
\* (paths(), and the three arms of the loop of collect_until).
AskedInOrder ==
    LET asked == IF kind = NoDevice THEN {} ELSE Plan \ todo
        answered == {f[1] : f \in fetched} \cup warned
    IN  /\ \A p \in asked, i \in DOMAIN envelope :
              \/ envelope[i] \in asked
              \/ \E j \in 1..(i - 1) : envelope[j] = p
        /\ asked \ {at} \subseteq answered
        /\ stage \in {"done", "check"} => asked \subseteq answered
=============================================================================
