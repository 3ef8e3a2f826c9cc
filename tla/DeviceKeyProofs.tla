--------------------------- MODULE DeviceKeyProofs ---------------------------
(***************************************************************************)
(* Theorems about DeviceKey: any device, any plan and any number of        *)
(* commands, whose calls and writes may fail.                              *)
(***************************************************************************)
EXTENDS DeviceKey, XpubCollectorProofs

\* the first xpub of the collector, at path p
Taken(p) ==
    /\ keys = <<Key(XpubAt[p], p)>>
    /\ fetched = {<<p, XpubAt[p]>>}
    /\ warned = {q \in Plan \ {p} : Before(q, p)}

\* `encrypt --device` without a path
FirstInv ==
    /\ CollectInv
    /\ stage # "off" /\ (stage = "list" => at = Unlock)
    /\ todo \subseteq Plan
    /\ kind = NoDevice => stage \in {"list", "done"}
    /\ kind # NoDevice => kind \in Kinds /\ stage # "list"
    /\ warned \subseteq Asked /\ \A p \in warned : Expect(kind, p) # "MustFetch"
    /\ stage \in {"spawn", "wait"} /\ at # Unlock =>
          at \in Asked \ warned /\ \A p \in Asked \ {at} : Before(p, at)
    /\ keys = <<>> => ~stop /\ fetched = {}
    /\ keys # <<>> => stop /\ stage \in {"check", "done"} /\ \E p \in Plan : Taken(p)
    /\ stage = "done" /\ keys = <<>> /\ kind # NoDevice => todo = {}

\* a command with a path
PathInv ==
    /\ stage = "list" => at = Unlock
    /\ stage \in {"spawn", "wait"} => at \in {Unlock, asked}
    /\ keys # <<>> => keys = <<Key(XpubAt[asked], asked)>>
    /\ stage = "done" /\ keys = <<>> => kind = NoDevice

\* The inductive invariant of the device request.
RequestInv ==
    /\ ReplyInv
    /\ envelope \in Envelopes /\ stop \in BOOLEAN
    /\ asked \in DerivPaths \cup {NoPath}
    /\ Collecting => FirstInv
    /\ AtPath => PathInv
    /\ pc = "device" => outcome = None
    /\ RightOutcome

-----------------------------------------------------------------------------
(* The collector                                                           *)

Fresh ==
    /\ stage = "list" /\ kind = NoDevice /\ envelope \in Envelopes
    /\ todo = {} /\ at = Unlock /\ running = {} /\ reply = [c \in Calls |-> Nothing]
    /\ fetched = {} /\ warned = {}

\* A new process has a collector that has done nothing.
LEMMA FreshInv ==
    ASSUME Fresh
    PROVE  CollectInv /\ ReplyInv
<1> DEFINE R == {Nothing, Failure} \cup {Xpub(XpubAt[p]) : p \in DerivPaths}
<1>1. Nothing \in R /\ Unlock \in Calls
    BY DEF Calls
<1> HIDE DEF R
<1>2. reply \in [Calls -> R]
    BY <1>1 DEF Fresh
<1>3. RepliesOfPath
    BY DEF Fresh, RepliesOfPath, Nothing, Calls
<1>4. CollectTypeOK /\ ReplyInv
    BY <1>1, <1>2, <1>3 DEF Fresh, CollectTypeOK, ReplyInv, R
<1> QED
    BY <1>3, <1>4 DEF Fresh, CollectInv, XpubOfItsPath, Sorted, AllAnswered, Asked

\* The same of the next state.
LEMMA FreshNext == Fresh' => CollectInv' /\ ReplyInv'
<1>1. Fresh => CollectInv /\ ReplyInv
    BY FreshInv
<1> QED
    BY <1>1, PTL

\* No path comes before one that it comes after.
LEMMA BeforeAsymmetric ==
    ASSUME envelope \in Seq(DerivPaths), NEW p \in DerivPaths, NEW q \in DerivPaths,
           Before(p, q), Before(q, p)
    PROVE  FALSE
<1>1. \A i \in 1..4 : SortKey(p)[i] \in Nat /\ SortKey(q)[i] \in Nat
    BY SortKeyType
<1>2. PICK i \in 1..4 : SortKey(p)[i] < SortKey(q)[i]
                        /\ \A j \in 1..(i - 1) : SortKey(p)[j] = SortKey(q)[j]
    BY DEF Before
<1>3. PICK k \in 1..4 : SortKey(q)[k] < SortKey(p)[k]
                        /\ \A j \in 1..(k - 1) : SortKey(q)[j] = SortKey(p)[j]
    BY DEF Before
<1> DEFINE a == SortKey(p)
           b == SortKey(q)
<1>4. a[i] < b[i] /\ ~(a[i] = b[i]) /\ ~(b[i] < a[i])
    BY <1>1, <1>2
<1>5. b[k] < a[k] /\ ~(a[k] = b[k])
    BY <1>1, <1>3
<1>6. i < k => b[i] = a[i]
    <2>1. i < k => i \in 1..(k - 1)
        OBVIOUS
    <2> QED
        BY <1>3, <2>1
<1>7. k < i => a[k] = b[k]
    <2>1. k < i => k \in 1..(i - 1)
        OBVIOUS
    <2> QED
        BY <1>2, <2>1
<1> HIDE DEF a, b
<1>8. i = k \/ i < k \/ k < i
    OBVIOUS
<1>9. CASE i = k
    BY <1>4, <1>5, <1>9
<1>10. CASE i < k
    BY <1>4, <1>6, <1>10
<1>11. CASE k < i
    BY <1>5, <1>7, <1>11
<1> QED
    BY <1>8, <1>9, <1>10, <1>11

\* An action of the collector that is no answer of a device leaves the channels.
LEMMA RepliesStay ==
    ASSUME ReplyInv, reply' = reply, running' \subseteq Calls, at' \in Calls
    PROVE  ReplyInv'
BY DEF ReplyInv, RepliesOfPath

\* What is said of the order of paths and of a finished request stays.
LEMMA OrderStays ==
    ASSUME kind' = kind, envelope' = envelope, todo' = todo, fetched' = fetched,
           warned' = warned
    PROVE  /\ Plan' = Plan /\ Asked' = Asked
           /\ \A p, q : Before(p, q)' <=> Before(p, q)
           /\ \A p : Expect(kind, p)' = Expect(kind, p)
           /\ keys' = keys => \A p : Taken(p)' <=> Taken(p)
           /\ outcome' = outcome /\ asked' = asked => (RightOutcome => RightOutcome')
<1>1. /\ Plan' = Plan /\ Asked' = Asked
      /\ \A p, q : Before(p, q)' <=> Before(p, q)
    BY BeforeStays DEF Asked, Plan
<1>2. \A p : Expect(kind, p)' = Expect(kind, p)
    BY DEF Expect, CommonExpect
<1>3. keys' = keys => \A p : Taken(p)' <=> Taken(p)
    BY <1>1 DEF Taken
<1>4. outcome' = outcome /\ asked' = asked => (RightOutcome => RightOutcome')
    BY <1>1 DEF RightOutcome, TakenKey
<1> QED
    BY <1>1, <1>2, <1>3, <1>4

-----------------------------------------------------------------------------
(* The device request                                                      *)

\* A request that is pending has no outcome yet.
LEMMA Pending ==
    ASSUME outcome' = None
    PROVE  RightOutcome'
BY DEF RightOutcome, None

\* A command starts.
LEMMA RunInv ==
    ASSUME RequestInv, NEW c, NEW p \in DerivPaths \cup {NoPath}, Run(c, p)
    PROVE  RequestInv'
<1>1. Fresh'
    BY DEF Fresh, Run, RequestInv
<1>2. CollectInv' /\ ReplyInv'
    BY <1>1, FreshNext
<1>3. FirstInv'
    <2>1. keys' = <<>> /\ stop' = FALSE
        BY DEF Run
    <2> QED
        BY <1>1, <1>2, <2>1 DEF FirstInv, Fresh
<1>4. PathInv'
    BY DEF PathInv, Run
<1>5. outcome' = None /\ asked' = p /\ envelope' = envelope /\ stop' = FALSE
    BY DEF Run
<1> QED
    BY <1>2, <1>3, <1>4, <1>5, Pending DEF RequestInv

\* What the steps of a request that goes on leave to be shown.
LEMMA FirstGoesOn ==
    ASSUME RequestInv, Collecting, ReplyInv', FirstInv',
           envelope' = envelope, asked' = asked, outcome' = outcome, stop' \in BOOLEAN
    PROVE  RequestInv'
BY Pending DEF RequestInv, Collecting, AtPath

LEMMA PathGoesOn ==
    ASSUME RequestInv, AtPath, ReplyInv', PathInv',
           envelope' = envelope, asked' = asked, outcome' = outcome, stop' \in BOOLEAN
    PROVE  RequestInv'
BY Pending DEF RequestInv, Collecting, AtPath

\* The devices are listed.
LEMMA FirstListInv ==
    ASSUME RequestInv, NEW k \in Kinds \cup {NoDevice}, FirstList(k)
    PROVE  RequestInv'
<1>0. Collecting /\ FirstInv /\ ReplyInv /\ stage = "list" /\ keys' = keys /\ stop' = stop
      /\ kind' = k /\ warned' = warned /\ fetched' = fetched
    BY DEF RequestInv, FirstList, List, requestVars
<1>1. CollectInv'
    BY <1>0, ListInv DEF FirstInv, FirstList
<1>2. ReplyInv'
    BY <1>0, RepliesStay DEF FirstList, List, ReplyInv
<1>3. warned = {} /\ keys = <<>>
    BY <1>0 DEF FirstInv, CollectInv, AllAnswered
<1>4. at' = Unlock
    BY <1>0 DEF FirstInv, FirstList, List
<1>5. /\ todo' \subseteq Plan' /\ stage' \in {"done", "check", "spawn"}
      /\ (stage' = "done" <=> k = NoDevice)
    <2>1. Plan' = Plan
        BY DEF FirstList, List, Plan
    <2>2. todo' \subseteq Plan
        BY DEF FirstList, List
    <2>3. stage' = CASE k = NoDevice -> "done" [] k = "BitBox02" -> "spawn" [] OTHER -> "check"
        BY DEF FirstList, List
    <2>4. CASE k = NoDevice
        <3>1. stage' = "done"
            BY <2>3, <2>4, CollectorAssumption
        <3> QED
            BY <2>1, <2>2, <2>4, <3>1
    <2>5. CASE k # NoDevice
        <3>1. stage' \in {"spawn", "check"}
            BY <2>3, <2>5
        <3> QED
            BY <2>1, <2>2, <2>5, <3>1
    <2> QED
        BY <2>4, <2>5
<1>6. stop' = stop /\ ~stop /\ fetched' = {} /\ keys' = <<>>
    BY <1>0, <1>3 DEF FirstInv
<1>7. FirstInv'
    BY <1>0, <1>1, <1>3, <1>4, <1>5, <1>6 DEF FirstInv
<1> QED
    BY <1>0, <1>2, <1>6, <1>7, FirstGoesOn DEF FirstList, List, requestVars, RequestInv

\* The next path is taken, or the collector ends.
LEMMA FirstCheckInv ==
    ASSUME RequestInv, Collecting, Check(stop), keys' = keys, stop' = stop,
           asked' = asked, outcome' = outcome
    PROVE  RequestInv'
<1>0. FirstInv /\ ReplyInv /\ stage = "check" /\ CollectInv /\ kind \in Kinds
    BY CollectorAssumption DEF RequestInv, Check, FirstInv
<1>1. CollectInv'
    <2>1. stop \in BOOLEAN
        BY DEF RequestInv
    <2> QED
        BY <1>0, <2>1, CheckInv
<1>2. Plan' = Plan /\ (\A p, q : Before(p, q)' <=> Before(p, q))
      /\ \A p : Expect(kind, p)' = Expect(kind, p)
    BY BeforeStays DEF Check, Expect, CommonExpect
<1>3. kind' = kind /\ fetched' = fetched /\ warned' = warned /\ envelope' = envelope
      /\ reply' = reply /\ running' = running
    BY DEF Check
<1>4. \A p : Taken(p)' <=> Taken(p)
    BY <1>2, <1>3 DEF Taken
<1>5. CASE stop \/ todo = {}
    <2>1. stage' = "done" /\ at' = at /\ todo' = todo
        BY <1>5 DEF Check
    <2>2. Asked' = Asked
        BY <1>2, <1>3, <2>1 DEF Asked
    <2>3. FirstInv'
        BY <1>0, <1>1, <1>2, <1>3, <1>4, <1>5, <2>1, <2>2 DEF FirstInv
    <2>4. ReplyInv'
        BY <1>0, <1>3, <2>1, RepliesStay DEF ReplyInv
    <2> QED
        BY <1>3, <2>3, <2>4, FirstGoesOn DEF RequestInv
<1>6. CASE ~(stop \/ todo = {})
    <2>1. stage' = "spawn" /\ at' = NextPath /\ todo' = todo \ {NextPath}
        BY <1>6 DEF Check
    <2>2. NextPath \in todo /\ \A q \in todo \ {NextPath} : Before(NextPath, q)
        BY <1>0, <1>6, PlanType, NextPathFirst DEF CollectInv, CollectTypeOK
    <2>3. todo \subseteq DerivPaths /\ kind # NoDevice
        BY <1>0, CollectorAssumption DEF CollectInv, CollectTypeOK
    <2>4. NextPath \in Calls
        BY <2>2, <2>3 DEF Calls
    <2>5. warned = Asked
        BY <1>0, <1>6 DEF FirstInv, CollectInv, AllAnswered, Answered
    <2>6. Asked' = Asked \cup ({NextPath} \cap Plan) /\ NextPath \notin Asked
          /\ NextPath \in Plan /\ todo' \subseteq Plan'
        BY <1>0, <1>2, <1>3, <2>1, <2>2, <2>3 DEF Asked, FirstInv
    <2>7. \A p \in Asked : Before(p, NextPath)
        BY <1>0, <2>2, <2>3 DEF CollectInv, Sorted, Asked
    <2>8. FirstInv'
        BY <1>0, <1>1, <1>2, <1>3, <1>4, <1>6, <2>1, <2>5, <2>6, <2>7 DEF FirstInv
    <2>9. ReplyInv'
        BY <1>0, <1>3, <2>1, <2>4, RepliesStay DEF ReplyInv
    <2> QED
        BY <1>3, <2>8, <2>9, FirstGoesOn DEF RequestInv
<1> QED
    BY <1>5, <1>6

\* A call starts, or the device is unlocked.
LEMMA FirstCallInv ==
    ASSUME RequestInv, Collecting, Spawn \/ Unlocked, keys' = keys, stop' = stop,
           asked' = asked, outcome' = outcome
    PROVE  RequestInv'
<1>0. FirstInv /\ ReplyInv /\ stage \in {"spawn", "wait"} /\ stage' \in {"wait", "check"}
    BY DEF RequestInv, Spawn, Unlocked
<1>1. CollectInv'
    BY <1>0, SpawnInv, UnlockedInv DEF FirstInv
<1>2. kind' = kind /\ envelope' = envelope /\ todo' = todo /\ fetched' = fetched
      /\ warned' = warned /\ at' = at /\ reply' = reply
    BY DEF Spawn, Unlocked
<1>3. /\ Plan' = Plan /\ Asked' = Asked
      /\ \A p, q : Before(p, q)' <=> Before(p, q)
      /\ \A p : Expect(kind, p)' = Expect(kind, p)
      /\ \A p : Taken(p)' <=> Taken(p)
    BY <1>2, OrderStays
<1>4. FirstInv'
    BY <1>0, <1>1, <1>2, <1>3 DEF FirstInv
<1>5. ReplyInv'
    BY <1>0, <1>2, RepliesStay DEF ReplyInv, Spawn, Unlocked
<1> QED
    BY <1>2, <1>4, <1>5, FirstGoesOn DEF RequestInv

\* A path that must be fetched is never warned about.
LEMMA FirstMissInv ==
    ASSUME RequestInv, Collecting, Miss, keys' = keys, stop' = stop,
           asked' = asked, outcome' = outcome
    PROVE  RequestInv'
<1>0. FirstInv /\ ReplyInv /\ stage = "wait"
    BY DEF RequestInv, Miss
<1>1. CollectInv'
    BY <1>0, MissInv DEF FirstInv
<1>2. kind' = kind /\ envelope' = envelope /\ todo' = todo /\ fetched' = fetched
      /\ at' = at /\ reply' = reply /\ running' = running
    BY DEF Miss
<1>3. /\ Plan' = Plan /\ Asked' = Asked
      /\ \A p, q : Before(p, q)' <=> Before(p, q)
      /\ \A p : Expect(kind, p)' = Expect(kind, p)
    BY <1>2, BeforeStays DEF Asked, Expect, CommonExpect
<1>4. \/ stage' = "failed" /\ warned' = warned
      \/ /\ stage' = "check" /\ warned' = warned \cup {at}
         /\ at # Unlock /\ Expect(kind, at) # "MustFetch"
    BY DEF Miss
<1>5. FirstInv'
    BY <1>0, <1>1, <1>2, <1>3, <1>4 DEF FirstInv
<1>6. ReplyInv'
    BY <1>0, <1>2, RepliesStay DEF ReplyInv
<1> QED
    BY <1>2, <1>5, <1>6, FirstGoesOn DEF RequestInv

\* The first xpub: all paths before it were warned about.
LEMMA FirstXpubInv ==
    ASSUME RequestInv, FirstXpub
    PROVE  RequestInv'
<1>0. FirstInv /\ ReplyInv /\ Collecting /\ TakeXpub /\ stage = "wait" /\ at # Unlock /\ CollectInv
    BY DEF RequestInv, FirstXpub, TakeXpub, FirstInv
<1>1. CollectInv'
    BY <1>0, TakeXpubInv
<1>2. at \in DerivPaths /\ reply[at].key = XpubAt[at]
    BY <1>0, TakenXpub
<1>3. keys = <<>> /\ fetched = {}
    BY <1>0 DEF FirstInv
<1>4. /\ keys' = <<Key(XpubAt[at], at)>> /\ stop' = TRUE
      /\ fetched' = {<<at, XpubAt[at]>>}
      /\ kind' = kind /\ envelope' = envelope /\ todo' = todo /\ warned' = warned /\ at' = at
      /\ reply' = reply /\ running' = running /\ stage' = "check"
      /\ asked' = asked /\ outcome' = outcome
    <2>1. keys' = Append(keys, Key(XpubAt[at], at))
        BY <1>2 DEF FirstXpub
    <2>2. keys' = <<Key(XpubAt[at], at)>>
        BY <1>3, <2>1
    <2>3. fetched' = {<<at, XpubAt[at]>>}
        BY <1>0, <1>2, <1>3 DEF TakeXpub
    <2> QED
        BY <2>2, <2>3 DEF FirstXpub, TakeXpub
<1>5. /\ Plan' = Plan /\ Asked' = Asked
      /\ \A p, q : Before(p, q)' <=> Before(p, q)
      /\ \A p : Expect(kind, p)' = Expect(kind, p)
    BY <1>4, BeforeStays DEF Asked, Expect, CommonExpect
<1>6. at \in Asked \ warned /\ \A p \in Asked \ {at} : Before(p, at)
    BY <1>0 DEF FirstInv
<1>7. kind # NoDevice /\ at \in Plan /\ Asked = Plan \ todo
    BY <1>6 DEF Asked
<1>8. warned = Asked \ {at}
    BY <1>0, <1>3, <1>6 DEF FirstInv, CollectInv, AllAnswered, Answered
<1>9. \A q \in todo : q # at /\ Before(at, q)
    BY <1>0, <1>6, <1>7 DEF CollectInv, Sorted
<1>10. warned = {q \in Plan \ {at} : Before(q, at)}
    <2>1. envelope \in Seq(DerivPaths) /\ Plan \in SUBSET DerivPaths
        BY <1>0, PlanType DEF CollectInv
    <2>2. \A q \in Plan : Before(q, at) => q \notin todo
        BY <1>2, <1>9, <2>1, BeforeAsymmetric
    <2> QED
        BY <1>6, <1>7, <1>8, <2>2
<1>11. ASSUME NEW p, p = at
       PROVE  Taken(p)'
    BY <1>4, <1>5, <1>10, <1>11 DEF Taken
<1>12. FirstInv'
    <2>1. keys' # <<>>
        BY <1>4
    <2>2. \E p \in Plan' : Taken(p)'
        BY <1>5, <1>7, <1>11
    <2> QED
        BY <1>0, <1>1, <1>4, <1>5, <2>1, <2>2 DEF FirstInv
<1>13. ReplyInv'
    BY <1>0, <1>4, RepliesStay DEF ReplyInv
<1> QED
    BY <1>0, <1>4, <1>12, <1>13, FirstGoesOn DEF RequestInv

\* The devices are listed for a request with a path.
LEMMA PathListInv ==
    ASSUME RequestInv, NEW k \in Kinds \cup {NoDevice}, ListAt(k)
    PROVE  RequestInv'
<1>1. PathInv /\ ReplyInv /\ AtPath /\ at = Unlock
    BY DEF RequestInv, PathInv, ListAt
<1>2. /\ kind' = k /\ keys' = keys /\ asked' = asked /\ outcome' = outcome /\ stop' = stop
      /\ at' = at /\ reply' = reply /\ running' = running /\ envelope' = envelope
    BY DEF ListAt, requestVars
<1>3. stage' = CASE k = NoDevice -> "done" [] k = "BitBox02" -> "spawn" [] OTHER -> "check"
    BY DEF ListAt
<1>4. stage' \in {"done", "spawn", "check"} /\ (stage' = "done" => k = NoDevice)
    <2>1. CASE k = NoDevice
        BY <1>3, <2>1, CollectorAssumption
    <2>2. CASE k # NoDevice
        BY <1>3, <2>2
    <2> QED
        BY <2>1, <2>2
<1>5. PathInv' /\ ReplyInv'
    BY <1>1, <1>2, <1>4, RepliesStay DEF PathInv, ReplyInv
<1> QED
    BY <1>1, <1>2, <1>5, PathGoesOn DEF RequestInv

\* The device is asked who it is, and then for its xpub.
LEMMA FingerprintInv ==
    ASSUME RequestInv, NEW known \in BOOLEAN, Fingerprint(known)
    PROVE  RequestInv'
<1>1. /\ PathInv /\ ReplyInv /\ AtPath /\ asked \in DerivPaths
      /\ stage = "check" /\ stage' \in {"spawn", "failed"}
      /\ at' = asked \/ (at' = at /\ stage' = "failed")
    BY DEF RequestInv, Fingerprint, AtPath
<1>2. /\ kind' = kind /\ keys' = keys /\ asked' = asked /\ outcome' = outcome /\ stop' = stop
      /\ reply' = reply /\ running' = running /\ envelope' = envelope
    BY DEF Fingerprint, requestVars
<1>3. PathInv' /\ ReplyInv'
    BY <1>1, <1>2, RepliesStay DEF PathInv, ReplyInv, Calls
<1> QED
    BY <1>1, <1>2, <1>3, PathGoesOn DEF RequestInv

\* The call of a request with a path, its xpub or its failure.
LEMMA PathStepInv ==
    ASSUME RequestInv, AtPathStep
    PROVE  RequestInv'
<1>1. PathInv /\ ReplyInv /\ AtPath /\ asked \in DerivPaths
    BY DEF RequestInv, AtPathStep, XpubAtPath, MissedAtPath, AtPath
<1>2. /\ kind' = kind /\ asked' = asked /\ outcome' = outcome /\ stop' = stop
      /\ at' = at /\ reply' = reply /\ envelope' = envelope
      /\ running' \in {running, running \cup {at}}
    BY DEF AtPathStep, Spawn, Unlocked, XpubAtPath, MissedAtPath, requestVars
<1>3. ReplyInv'
    BY <1>1, <1>2, RepliesStay DEF ReplyInv
<1>4. CASE (Spawn \/ Unlocked) /\ keys' = keys
    <2>1. stage \in {"spawn", "wait"} /\ stage' \in {"wait", "check"}
        BY <1>4 DEF Spawn, Unlocked
    <2>2. PathInv'
        BY <1>1, <1>2, <1>4, <2>1 DEF PathInv
    <2> QED
        BY <1>1, <1>2, <1>3, <2>2, PathGoesOn DEF RequestInv
<1>5. CASE XpubAtPath
    <2>1. at = asked /\ stage' = "done" /\ keys' = <<Key(reply[at].key, at)>>
        BY <1>1, <1>5 DEF PathInv, XpubAtPath
    <2>2. reply[at] = Xpub(XpubAt[at])
        BY <1>1, <1>5, <2>1 DEF ReplyInv, RepliesOfPath, XpubAtPath
    <2>3. reply[at].key = XpubAt[asked]
        BY <2>1, <2>2 DEF Xpub
    <2>4. keys' = <<Key(XpubAt[asked], asked)>> /\ keys' # <<>>
        BY <2>1, <2>3
    <2>5. PathInv'
        BY <1>2, <2>1, <2>4 DEF PathInv
    <2> QED
        BY <1>1, <1>2, <1>3, <2>5, PathGoesOn DEF RequestInv
<1>6. CASE MissedAtPath
    <2>1. stage' = "failed" /\ keys' = keys
        BY <1>6 DEF MissedAtPath, requestVars
    <2>2. PathInv'
        BY <1>1, <1>2, <2>1 DEF PathInv
    <2> QED
        BY <1>1, <1>2, <1>3, <2>2, PathGoesOn DEF RequestInv
<1> QED
    BY <1>4, <1>5, <1>6 DEF AtPathStep, requestVars

\* A device call answers.
LEMMA DeviceAnswerInv ==
    ASSUME RequestInv, DeviceAnswer
    PROVE  RequestInv'
<1>0. PICK c \in running : \E r \in Answers(c) : Answer(c, r)
    BY DEF DeviceAnswer
<1>1. PICK r \in Answers(c) : Answer(c, r)
    BY <1>0
<1>2. /\ stage' = stage /\ kind' = kind /\ keys' = keys /\ asked' = asked
      /\ outcome' = outcome /\ stop' = stop /\ at' = at /\ envelope' = envelope
      /\ todo' = todo /\ fetched' = fetched /\ warned' = warned /\ pc = "device"
    BY <1>1 DEF DeviceAnswer, Answer, requestVars
<1>3. ReplyInv'
    BY <1>1, AnswerReply DEF RequestInv
<1>4. CASE Collecting
    <2>1. FirstInv
        BY <1>4 DEF RequestInv
    <2>2. CollectInv'
        BY <1>1, <2>1, AnswerInv DEF FirstInv
    <2>3. /\ Plan' = Plan /\ Asked' = Asked
          /\ \A p, q : Before(p, q)' <=> Before(p, q)
          /\ \A p : Expect(kind, p)' = Expect(kind, p)
          /\ \A p : Taken(p)' <=> Taken(p)
        BY <1>2, OrderStays
    <2>4. FirstInv'
        BY <1>2, <2>1, <2>2, <2>3 DEF FirstInv
    <2> QED
        BY <1>2, <1>3, <1>4, <2>4, FirstGoesOn DEF RequestInv
<1>5. CASE AtPath
    <2>1. PathInv'
        BY <1>2, <1>5 DEF RequestInv, PathInv
    <2> QED
        BY <1>2, <1>3, <1>5, <2>1, PathGoesOn DEF RequestInv
<1> QED
    BY <1>2, <1>4, <1>5 DEF Collecting, AtPath

-----------------------------------------------------------------------------
(* The outcome                                                             *)

\* A listed device that answered nothing failed at a path it must answer for.
LEMMA NoneMeansNoDevice ==
    ASSUME FirstInv, stage = "done", keys = <<>>
    PROVE  kind = NoDevice
<1> SUFFICES ASSUME kind # NoDevice
             PROVE  FALSE
    OBVIOUS
<1>1. PICK p \in CommonPaths : CommonExpect(kind, p) = "MustFetch"
    BY KeyAssumption DEF FirstInv
<1>2. p \in Asked
    BY <1>1 DEF FirstInv, Asked, Plan
<1>3. p \in Answered /\ fetched = {}
    BY <1>2 DEF FirstInv, CollectInv, AllAnswered
<1>4. p \in warned
    BY <1>3 DEF Answered
<1> QED
    BY <1>1, <1>4 DEF FirstInv, Expect

\* The request ends.
LEMMA OutcomeInv ==
    ASSUME RequestInv, GotKey \/ GotNone
    PROVE  RequestInv'
<1>1. /\ pc = "device" /\ pc' \in {"open", "idle"} /\ asked' = asked /\ stop' = stop
      /\ kind' = kind /\ envelope' = envelope /\ todo' = todo /\ fetched' = fetched
      /\ warned' = warned /\ at' = at /\ reply' = reply /\ running' = running
    BY DEF GotKey, GotNone, requestVars, collectVars
<1>2. ReplyInv'
    BY <1>1, RepliesStay DEF RequestInv, ReplyInv
<1>3. Plan' = Plan /\ \A p, q : Before(p, q)' <=> Before(p, q)
    BY <1>1, BeforeStays
<1>4. RightOutcome'
    <2>1. CASE GotKey /\ Collecting
        <3>1. PICK p \in Plan : Taken(p)
            BY <2>1 DEF GotKey, RequestInv, FirstInv
        <3>2. outcome' = Key(XpubAt[p], p)
            BY <2>1, <3>1 DEF GotKey, Taken
        <3>3. outcome'.path = p /\ outcome'.key = XpubAt[p] /\ outcome'.is = "key"
            BY <3>2 DEF Key
        <3>4. asked' = NoPath
            BY <1>1, <2>1 DEF Collecting
        <3>5. fetched' = {<<p, XpubAt[p]>>} /\ warned' = {q \in Plan' \ {p} : Before(q, p)'}
            BY <1>1, <1>3, <3>1 DEF Taken
        <3>6. warned' = {q \in Plan' \ {outcome'.path} : Before(q, outcome.path)'}
            BY <1>1, <1>3, <3>1, <3>3, <3>5 DEF Before, SortKey
        <3> QED
            BY <3>3, <3>4, <3>5, <3>6 DEF RightOutcome, TakenKey
    <2>2. CASE GotKey /\ AtPath
        <3>1. keys = <<Key(XpubAt[asked], asked)>>
            BY <2>2 DEF GotKey, RequestInv, PathInv
        <3>2. outcome' = Key(XpubAt[asked], asked)
            BY <2>2, <3>1 DEF GotKey
        <3>3. outcome'.path = asked /\ outcome'.key = XpubAt[asked] /\ outcome'.is = "key"
              /\ asked' # NoPath
            BY <1>1, <2>2, <3>2 DEF Key, AtPath
        <3> QED
            BY <1>1, <3>3 DEF RightOutcome, TakenKey
    <2>3. CASE GotNone
        <3>1. CASE stage = "done" /\ keys = <<>>
            <4>1. kind = NoDevice
                BY <1>1, <3>1, NoneMeansNoDevice DEF RequestInv, PathInv, Collecting, AtPath
            <4>2. outcome' \in {[is |-> "NoKeys"], [is |-> "FailedToFetchXpub"]}
                BY <2>3 DEF GotNone
            <4> QED
                BY <1>1, <4>1, <4>2 DEF RightOutcome
        <3>2. CASE outcome' = [is |-> "FailedToFetchXpub"]
            BY <3>2 DEF RightOutcome
        <3> QED
            BY <2>3, <3>1, <3>2 DEF GotNone
    <2> QED
        BY <1>1, <2>1, <2>2, <2>3 DEF Collecting, AtPath
<1> QED
    BY <1>1, <1>2, <1>4 DEF RequestInv, Collecting, AtPath

\* Steps after the request.
LEMMA LaterInv ==
    ASSUME RequestInv, UNCHANGED <<collectVars, requestVars, outcome>>,
           pc' = pc \/ (pc # "device" /\ pc' # "device")
    PROVE  RequestInv'
<1>1. /\ stage' = stage /\ kind' = kind /\ keys' = keys /\ asked' = asked
      /\ outcome' = outcome /\ stop' = stop /\ at' = at /\ envelope' = envelope
      /\ todo' = todo /\ fetched' = fetched /\ warned' = warned /\ reply' = reply
      /\ running' = running
    BY DEF collectVars, requestVars
<1>2. ReplyInv' /\ RightOutcome'
    BY <1>1, RepliesStay, OrderStays DEF RequestInv, ReplyInv
<1>3. Collecting => FirstInv'
    <2> SUFFICES ASSUME Collecting
                 PROVE  FirstInv'
        OBVIOUS
    <2>1. FirstInv /\ CollectInv
        BY DEF RequestInv, FirstInv
    <2>2. CollectInv'
        BY <1>1, <2>1, CollectIdleInv
    <2>3. /\ Plan' = Plan /\ Asked' = Asked
          /\ \A p : Expect(kind, p)' = Expect(kind, p)
          /\ \A p, q : Before(p, q)' <=> Before(p, q)
          /\ \A p : Taken(p)' <=> Taken(p)
        BY <1>1, OrderStays
    <2> QED
        BY <1>1, <2>1, <2>2, <2>3 DEF FirstInv
<1>4. AtPath => PathInv'
    BY <1>1 DEF RequestInv, PathInv
<1> QED
    BY <1>1, <1>2, <1>3, <1>4 DEF RequestInv, Collecting, AtPath

\* The conjuncts of RequestInv that hold whatever the stage of the request.
LEMMA RequestInit == Init => RequestInv
<1> SUFFICES ASSUME Init
             PROVE  RequestInv
    OBVIOUS
<1>1. CollectInv
    BY CollectInitInv DEF Init
<1>2. ReplyInv
    BY <1>1 DEF CollectInv, CollectTypeOK, ReplyInv
<1>3. envelope \in Envelopes /\ stop \in BOOLEAN /\ asked = NoPath /\ pc = "idle"
      /\ outcome = None
    BY DEF Init, CollectInit
<1>4. RightOutcome
    BY <1>3 DEF RightOutcome, None
<1> QED
    BY <1>2, <1>3, <1>4 DEF RequestInv, Collecting, AtPath

\* Every step preserves the invariant.
LEMMA RequestStep == RequestInv /\ [Next]_vars => RequestInv'
<1> SUFFICES ASSUME RequestInv, [Next]_vars
             PROVE  RequestInv'
    OBVIOUS
<1>1. CASE \E c \in {"encrypt", "fetch"}, p \in DerivPaths \cup {NoPath} : Run(c, p)
    BY <1>1, RunInv
<1>2. CASE Listing
    BY <1>2, FirstListInv, PathListInv DEF Listing
<1>3. CASE Identifying
    BY <1>3, FingerprintInv DEF Identifying
<1>4. CASE FirstXpub
    BY <1>4, FirstXpubInv
<1>5. CASE FirstStep
    <2>1. Collecting /\ keys' = keys /\ stop' = stop /\ asked' = asked /\ outcome' = outcome
        BY <1>5 DEF FirstStep, requestVars
    <2>2. Check(stop) \/ (Spawn \/ Unlocked) \/ Miss
        BY <1>5 DEF FirstStep
    <2> QED
        BY <2>1, <2>2, FirstCheckInv, FirstCallInv, FirstMissInv
<1>6. CASE AtPathStep
    BY <1>6, PathStepInv
<1>7. CASE GotKey \/ GotNone
    BY <1>7, OutcomeInv
<1>8. CASE OpenFile \/ WriteLine \/ EndLine
    <2>1. UNCHANGED <<collectVars, requestVars, outcome>>
        BY <1>8 DEF OpenFile, WriteLine, EndLine
    <2>2. pc # "device" /\ pc' # "device"
        BY <1>8 DEF OpenFile, WriteLine, EndLine
    <2> QED
        BY <2>1, <2>2, LaterInv
<1>9. CASE DeviceAnswer
    BY <1>9, DeviceAnswerInv
<1>10. CASE UNCHANGED vars
    BY <1>10, LaterInv DEF vars
<1> QED
    BY <1>1, <1>2, <1>3, <1>4, <1>5, <1>6, <1>7, <1>8, <1>9, <1>10 DEF Next, Step

\* The invariant of the device requests holds in every reachable state.
THEOREM RequestInvariance == Spec => []RequestInv
BY RequestInit, RequestStep, PTL DEF Spec

\* The key a command goes on with is the device's key at the path it goes with,
\* and NoKeys means that no device was listed
\* (fetch_encryption_device_key, fetch_first_origin_xpub_at_path).
THEOREM RightOutcomeCorrect == Spec => []RightOutcome
<1>1. RequestInv => RightOutcome
    BY DEF RequestInv
<1> QED
    BY <1>1, RequestInvariance, PTL

-----------------------------------------------------------------------------
(* The file of the fetch commands                                          *)

Complete == file = <<>> \/ file[Len(file)] = EndOfLine

\* The last line of the file is whole unless a command failed; the one that is
\* being written starts a line.
FileInv ==
    /\ DOMAIN file = 1..Len(file) /\ Len(file) \in Nat
    /\ faults \in Nat
    /\ faults = 0 /\ pc # "end_line" => Complete
    /\ pc = "end_line" =>
          /\ Len(file) > 0 /\ file[Len(file)] = Line
          /\ faults = 0 => StartsALine(Len(file))
    /\ ReportedKept

\* What is in the file stays where it is when a piece is appended.
LEMMA AppendKeeps ==
    ASSUME FileInv, NEW piece, file' = Append(file, piece)
    PROVE  /\ DOMAIN file' = 1..Len(file') /\ Len(file') = Len(file) + 1
           /\ file'[Len(file')] = piece
           /\ \A i \in 1..Len(file) : file'[i] = file[i]
BY DEF FileInv

\* So a line that is whole stays where it is.
LEMMA LineStays ==
    ASSUME FileInv, NEW line \in reported, faults' = 0 => faults = 0,
           Len(file') \in Nat, Len(file') >= Len(file), DOMAIN file' = 1..Len(file'),
           \A i \in 1..Len(file) : file'[i] = file[i]
    PROVE  \E i \in DOMAIN file' : /\ file'[i] = line /\ EndsALine(i)'
                                   /\ faults' = 0 => StartsALine(i)'
<1>1. PICK i \in DOMAIN file : /\ file[i] = line /\ EndsALine(i)
                               /\ faults = 0 => StartsALine(i)
    BY DEF FileInv, ReportedKept
<1>2. i \in 1..Len(file) /\ i + 1 \in 1..Len(file) /\ Len(file) \in Nat
    BY <1>1 DEF FileInv, EndsALine
<1>3. file'[i] = line /\ file'[i + 1] = EndOfLine /\ i < Len(file')
    BY <1>1, <1>2 DEF EndsALine
<1>4. ASSUME faults' = 0 PROVE i = 1 \/ file'[i - 1] = EndOfLine
    <2>1. i = 1 \/ file[i - 1] = EndOfLine
        BY <1>1, <1>4 DEF StartsALine
    <2>2. i # 1 => i - 1 \in 1..Len(file)
        BY <1>2
    <2> QED
        BY <2>1, <2>2
<1>5. i \in DOMAIN file'
    BY <1>2
<1> QED
    BY <1>3, <1>4, <1>5 DEF EndsALine, StartsALine

\* So what was reported stays reported.
LEMMA ReportedStays ==
    ASSUME FileInv, reported' = reported, faults' = 0 => faults = 0,
           Len(file') \in Nat, Len(file') >= Len(file), DOMAIN file' = 1..Len(file'),
           \A i \in 1..Len(file) : file'[i] = file[i]
    PROVE  ReportedKept'
BY LineStays DEF ReportedKept

\* A piece is appended.
LEMMA PieceReported ==
    ASSUME FileInv, NEW piece, file' = Append(file, piece), reported' = reported,
           faults' \in Nat, faults' = 0 => faults = 0
    PROVE  ReportedKept'
<1>1. /\ DOMAIN file' = 1..Len(file') /\ Len(file') = Len(file) + 1
      /\ \A i \in 1..Len(file) : file'[i] = file[i]
    BY AppendKeeps
<1>2. Len(file') \in Nat /\ Len(file') >= Len(file)
    BY <1>1 DEF FileInv
<1> QED
    BY <1>1, <1>2, ReportedStays

\* Steps that leave the file alone.
LEMMA FileStays ==
    ASSUME FileInv, file' = file, reported' = reported,
           faults' \in Nat, faults' = 0 => faults = 0,
           pc' # "end_line", faults' = 0 => pc # "end_line"
    PROVE  FileInv'
<1>1. ReportedKept'
    BY ReportedStays DEF FileInv
<1> QED
    BY <1>1 DEF FileInv, Complete

\* The line is written, wholly or in part.
LEMMA WriteLineInv ==
    ASSUME FileInv, WriteLine
    PROVE  FileInv'
<1>1. reported' = reported /\ outcome' = outcome /\ pc = "write" /\ Line' = Line
    BY DEF WriteLine, Line
<1>2. CASE file' = Append(file, Line) /\ pc' = "end_line" /\ faults' = faults
    <2>1. /\ DOMAIN file' = 1..Len(file') /\ Len(file') = Len(file) + 1
          /\ file'[Len(file')] = Line
          /\ \A i \in 1..Len(file) : file'[i] = file[i]
        BY <1>2, AppendKeeps
    <2>2. Len(file) \in Nat /\ Len(file') \in Nat /\ Len(file') > 0 /\ faults' \in Nat
        BY <1>2, <2>1 DEF FileInv
    <2>3. ASSUME faults' = 0 PROVE Len(file') = 1 \/ file'[Len(file') - 1] = EndOfLine
        <3>1. Complete
            BY <1>1, <1>2, <2>3 DEF FileInv
        <3>2. CASE file = <<>>
            BY <2>1, <3>2
        <3>3. CASE file # <<>> /\ file[Len(file)] = EndOfLine
            <4>1. Len(file) # 0 => Len(file) \in 1..Len(file)
                BY <2>2
            <4>2. Len(file') - 1 = Len(file)
                BY <2>1, <2>2
            <4> QED
                BY <2>1, <3>3, <4>1, <4>2
        <3> QED
            BY <3>1, <3>2, <3>3 DEF Complete
    <2>4. ReportedKept'
        BY <1>1, <1>2, PieceReported DEF FileInv
    <2> QED
        BY <1>1, <1>2, <2>1, <2>2, <2>3, <2>4 DEF FileInv, StartsALine
<1>3. CASE file' \in {file, Append(file, PartOf(Line))} /\ pc' = "idle" /\ faults' = faults + 1
    <2>1. faults' \in Nat /\ faults' # 0
        BY <1>3 DEF FileInv
    <2>2. CASE file' = file
        BY <1>1, <1>3, <2>1, <2>2, FileStays
    <2>3. CASE file' = Append(file, PartOf(Line))
        <3>1. DOMAIN file' = 1..Len(file') /\ Len(file') \in Nat
            BY <2>3, AppendKeeps DEF FileInv
        <3>2. ReportedKept'
            BY <1>1, <2>1, <2>3, PieceReported
        <3> QED
            BY <1>3, <2>1, <3>1, <3>2 DEF FileInv
    <2> QED
        BY <1>3, <2>2, <2>3
<1> QED
    BY <1>2, <1>3 DEF WriteLine

\* The end of the line is written, and the line reported, or the writing failed.
LEMMA EndLineInv ==
    ASSUME FileInv, EndLine
    PROVE  FileInv'
<1>1. pc = "end_line" /\ pc' = "idle"
    BY DEF EndLine
<1>2. CASE file' = Append(file, EndOfLine) /\ reported' = reported \cup {Line}
           /\ faults' = faults
    <2>1. /\ DOMAIN file' = 1..Len(file') /\ Len(file') = Len(file) + 1
          /\ file'[Len(file')] = EndOfLine
          /\ \A i \in 1..Len(file) : file'[i] = file[i]
        BY <1>2, AppendKeeps
    <2>2. Len(file) \in Nat /\ Len(file) > 0 /\ file[Len(file)] = Line /\ faults \in Nat
          /\ (faults = 0 => Len(file) = 1 \/ file[Len(file) - 1] = EndOfLine)
        BY <1>1 DEF FileInv, StartsALine
    <2>3. ASSUME NEW line \in reported'
          PROVE  \E i \in DOMAIN file' : /\ file'[i] = line /\ EndsALine(i)'
                                         /\ faults' = 0 => StartsALine(i)'
        <3>1. CASE line = Line
            <4>1. PICK i \in 1..Len(file) : i = Len(file)
                BY <2>2
            <4>2. i \in DOMAIN file' /\ file'[i] = Line
                BY <2>1, <2>2, <4>1
            <4>3. i < Len(file') /\ file'[i + 1] = EndOfLine
                BY <2>1, <2>2, <4>1
            <4>4. ASSUME faults' = 0 PROVE i = 1 \/ file'[i - 1] = EndOfLine
                <5>1. i # 1 => i - 1 \in 1..Len(file) /\ file[i - 1] = EndOfLine
                    BY <1>2, <2>2, <4>1, <4>4
                <5> QED
                    BY <2>1, <5>1
            <4> QED
                BY <3>1, <4>2, <4>3, <4>4 DEF EndsALine, StartsALine
        <3>2. CASE line \in reported
            <4>1. Len(file') \in Nat /\ Len(file') >= Len(file)
                BY <2>1, <2>2
            <4> QED
                BY <1>2, <2>1, <3>2, <4>1, LineStays
        <3> QED
            BY <1>2, <2>3, <3>1, <3>2
    <2>4. ReportedKept'
        BY <2>3 DEF ReportedKept
    <2>5. Len(file') \in Nat /\ faults' \in Nat
        BY <1>2, <2>1, <2>2
    <2> QED
        BY <1>1, <2>1, <2>4, <2>5 DEF FileInv, Complete
<1>3. CASE faults' = faults + 1 /\ UNCHANGED <<file, reported>>
    <2>1. faults' \in Nat /\ faults' # 0
        BY <1>3 DEF FileInv
    <2> QED
        BY <1>1, <1>3, <2>1, FileStays
<1> QED
    BY <1>2, <1>3 DEF EndLine

\* Every step preserves the invariant of the file.
LEMMA FileStep == FileInv /\ [Next]_vars => FileInv'
<1> SUFFICES ASSUME FileInv, [Next]_vars
             PROVE  FileInv'
    OBVIOUS
<1>1. CASE WriteLine
    BY <1>1, WriteLineInv
<1>2. CASE EndLine
    BY <1>2, EndLineInv
<1>3. CASE OpenFile
    <2>1. file' = file /\ reported' = reported /\ pc = "open" /\ pc' # "end_line"
          /\ faults' \in {faults, faults + 1}
        BY <1>3 DEF OpenFile
    <2>2. faults' \in Nat /\ (faults' = 0 => faults = 0)
        BY <2>1 DEF FileInv
    <2> QED
        BY <2>1, <2>2, FileStays
<1>4. ASSUME UNCHANGED fileVars, pc # "end_line", pc' # "end_line"
      PROVE  FileInv'
    BY <1>4, FileStays DEF fileVars, FileInv
<1>5. CASE \E c \in {"encrypt", "fetch"}, p \in DerivPaths \cup {NoPath} : Run(c, p)
    BY <1>4, <1>5 DEF Run
<1>6. CASE Listing \/ Identifying
    BY <1>4, <1>6 DEF Listing, Identifying, FirstList, ListAt, Fingerprint, Collecting, AtPath
<1>7. CASE FirstXpub \/ FirstStep \/ AtPathStep \/ DeviceAnswer
    BY <1>4, <1>7 DEF FirstXpub, FirstStep, AtPathStep, XpubAtPath, MissedAtPath, DeviceAnswer,
                      Collecting, AtPath
<1>8. CASE GotKey \/ GotNone
    BY <1>4, <1>8 DEF GotKey, GotNone
<1>9. CASE UNCHANGED vars
    <2>1. /\ pc' = pc /\ outcome' = outcome /\ file' = file /\ reported' = reported
          /\ faults' = faults
        BY <1>9 DEF vars, fileVars
    <2> QED
        BY <2>1 DEF FileInv, Complete, Line, ReportedKept, EndsALine, StartsALine
<1> QED
    BY <1>1, <1>2, <1>3, <1>5, <1>6, <1>7, <1>8, <1>9 DEF Next, Step

\* Every xpub that was reported as written is in the file, at the end of a line,
\* and a line of its own unless a command failed while it wrote (append_line).
THEOREM ReportedKeptCorrect == Spec => []ReportedKept
<1>1. Init => FileInv
    BY DEF Init, FileInv, Complete, ReportedKept
<1>2. FileInv => ReportedKept
    BY DEF FileInv
<1> QED
    BY <1>1, <1>2, FileStep, PTL DEF Spec
=============================================================================
