------------------------- MODULE XpubCollectorProofs -------------------------
(***************************************************************************)
(* What every step of XpubCollector preserves, for any plan of paths and   *)
(* any device: the command that composes the collector cites the lemmas    *)
(* about the steps.                                                        *)
(***************************************************************************)
EXTENDS XpubCollector, WellFoundedInduction, TLAPS

\* what is in the channel of a path comes from the device's key at this path
RepliesOfPath == \A c \in DerivPaths : reply[c].is = "xpub" => reply[c] = Xpub(XpubAt[c])

Asked == IF kind = NoDevice THEN {} ELSE Plan \ todo
Answered == {f[1] : f \in fetched} \cup warned

\* paths are asked in the order of the plan
Sorted == kind # NoDevice => \A p \in Plan \ todo, q \in todo : Before(p, q)

AllAnswered ==
    /\ Asked \ {at} \subseteq Answered
    /\ stage \in {"done", "check"} => Asked \subseteq Answered
    /\ stage \in {"off", "list"} => Asked = {}

\* what is in the channels
ReplyInv ==
    /\ at \in Calls /\ running \subseteq Calls
    /\ reply \in [Calls -> {Nothing, Failure} \cup {Xpub(XpubAt[p]) : p \in DerivPaths}]
    /\ RepliesOfPath

\* The inductive invariant of the collector.
CollectInv ==
    /\ CollectTypeOK
    /\ RepliesOfPath
    /\ XpubOfItsPath
    /\ Sorted
    /\ AllAnswered

-----------------------------------------------------------------------------
(* The order of the plan                                                   *)

\* A set of numbers that is not empty has a least one.
LEMMA LeastNumber ==
    ASSUME NEW S \in SUBSET Nat, S # {}
    PROVE  \E m \in S : \A n \in S : m <= n
<1> DEFINE Less == {pair \in Nat \X Nat : pair[1] < pair[2]}
<1>1. IsWellFoundedOn(Less, Nat)
    BY NatLessThanWellFounded DEF OpToRel
<1>2. PICK m \in S : \A n \in S : <<n, m>> \notin Less
    <2> HIDE DEF Less
    <2> QED
        BY <1>1, WFMin
<1>3. ASSUME NEW n \in S PROVE m <= n
    <2>1. n \in Nat /\ m \in Nat
        BY <1>2
    <2>2. n < m => <<n, m>> \in Less
        BY <2>1
    <2> QED
        BY <1>2, <2>1, <2>2
<1> QED
    BY <1>3

\* A set of elements that is not empty has some of least measure.
LEMMA LeastMeasure ==
    ASSUME NEW T, T # {}, NEW g \in [T -> Nat]
    PROVE  \E p \in T : \A q \in T : g[p] <= g[q]
<1> DEFINE S == {g[q] : q \in T}
<1>1. S \in SUBSET Nat /\ S # {}
    OBVIOUS
<1>2. PICK m \in S : \A n \in S : m <= n
    BY <1>1, LeastNumber
<1>3. PICK p \in T : m = g[p]
    BY <1>2
<1> QED
    BY <1>2, <1>3

\* The position of an element of a list is the index of its first occurrence,
\* counted from zero; one that does not occur comes after all others.
LEMMA PositionFirst ==
    ASSUME NEW S, NEW s \in Seq(S), NEW x
    PROVE  /\ Position(s, x) \in Nat
           /\ Position(s, x) < Len(s) => s[Position(s, x) + 1] = x
           /\ \A i \in DOMAIN s : s[i] = x => Position(s, x) < i
<1>0. DOMAIN s = 1..Len(s) /\ Len(s) \in Nat
    OBVIOUS
<1>1. CASE ~(\E i \in DOMAIN s : s[i] = x)
    <2>1. Position(s, x) = Len(s)
        BY <1>1 DEF Position
    <2> QED
        BY <1>0, <1>1, <2>1
<1>2. CASE \E i \in DOMAIN s : s[i] = x
    <2> DEFINE T == {i \in DOMAIN s : s[i] = x}
               first == CHOOSE i \in DOMAIN s : s[i] = x /\ \A j \in 1..(i - 1) : s[j] # x
    <2>1. T \in SUBSET Nat /\ T # {}
        BY <1>0, <1>2
    <2>2. PICK m \in T : \A n \in T : m <= n
        BY <2>1, LeastNumber
    <2>3. m \in DOMAIN s /\ s[m] = x /\ \A j \in 1..(m - 1) : s[j] # x
        <3>1. \A j \in 1..(m - 1) : j \in DOMAIN s /\ ~(m <= j)
            BY <1>0, <2>2
        <3> QED
            BY <2>2, <3>1
    <2>4. first \in DOMAIN s /\ s[first] = x /\ \A j \in 1..(first - 1) : s[j] # x
        BY <2>3
    <2>5. Position(s, x) = first - 1
        BY <1>2 DEF Position
    <2> HIDE DEF first
    <2>6. \A i \in DOMAIN s : s[i] = x => first <= i
        <3> SUFFICES ASSUME NEW i \in DOMAIN s, s[i] = x, i < first
                     PROVE  FALSE
            BY <1>0, <2>4
        <3> QED
            BY <1>0, <2>4
    <2> QED
        BY <1>0, <2>4, <2>5, <2>6
<1> QED
    BY <1>1, <1>2

\* A path has four numbers to be compared by, one after the other.
LEMMA SortKeyType ==
    ASSUME envelope \in Seq(DerivPaths), NEW p \in DerivPaths
    PROVE  /\ SortKey(p) \in Nat \X Nat \X Nat \X Nat
           /\ SortKey(p)[1] = Position(envelope, p)
           /\ SortKey(p)[4] = p
<1>1. Position(envelope, p) \in Nat
    BY PositionFirst
<1>2. Position(Ordering, Purpose[p]) \in Nat
    BY PositionFirst, CollectorAssumption
<1>3. ExpectPriority(Expect(kind, p)) \in Nat
    BY DEF ExpectPriority, Expect, CommonExpect
<1>4. p \in Nat
    BY CollectorAssumption
<1> QED
    BY <1>1, <1>2, <1>3, <1>4 DEF SortKey

\* Paths that are left have some whose i-th number is the least.
LEMMA LeastPaths ==
    ASSUME envelope \in Seq(DerivPaths), NEW i \in 1..4,
           NEW S \in SUBSET DerivPaths, S # {}
    PROVE  \E L \in SUBSET S :
              L # {} /\ \A p \in L, q \in S : /\ SortKey(p)[i] <= SortKey(q)[i]
                                              /\ SortKey(p)[i] = SortKey(q)[i] => q \in L
<1> DEFINE g == [p \in S |-> SortKey(p)[i]]
           L == {p \in S : \A q \in S : g[p] <= g[q]}
<1>1. \A p \in S : SortKey(p)[i] \in Nat
    BY SortKeyType
<1>2. g \in [S -> Nat] /\ \A p \in S : g[p] = SortKey(p)[i]
    BY <1>1
<1> HIDE DEF g
<1>3. L \in SUBSET S /\ L # {}
    BY <1>2, LeastMeasure
<1>4. \A p \in L, q \in S : g[p] = g[q] => q \in L
    BY <1>2
<1> QED
    BY <1>2, <1>3, <1>4

\* Paths that are left have one that comes before all others.
LEMMA FirstPath ==
    ASSUME envelope \in Seq(DerivPaths), NEW T \in SUBSET DerivPaths, T # {}
    PROVE  \E p \in T : \A q \in T \ {p} : Before(p, q)
<1> DEFINE Least(i, L, S) ==
              L # {} /\ \A p \in L, q \in S : /\ SortKey(p)[i] <= SortKey(q)[i]
                                              /\ SortKey(p)[i] = SortKey(q)[i] => q \in L
<1>0. \A p \in DerivPaths : /\ SortKey(p)[1] \in Nat /\ SortKey(p)[2] \in Nat
                            /\ SortKey(p)[3] \in Nat /\ SortKey(p)[4] = p /\ p \in Nat
    BY SortKeyType, CollectorAssumption
<1>1. \A i \in 1..4 : \A S \in SUBSET DerivPaths :
         S # {} => \E L \in SUBSET S : Least(i, L, S)
    BY LeastPaths
<1>a. \A i, L, S : Least(i, L, S) => L # {}
    OBVIOUS
<1> HIDE DEF Least
<1>2. PICK A \in SUBSET T : Least(1, A, T)
    <2>1. 1 \in 1..4
        OBVIOUS
    <2> QED
        BY <1>1, <2>1
<1>3. PICK B \in SUBSET A : Least(2, B, A)
    <2>1. 2 \in 1..4 /\ A \in SUBSET DerivPaths /\ A # {}
        BY <1>a, <1>2
    <2> QED
        BY <1>1, <2>1
<1>4. PICK C \in SUBSET B : Least(3, C, B)
    <2>1. 3 \in 1..4 /\ B \in SUBSET DerivPaths /\ B # {}
        BY <1>a, <1>3
    <2> QED
        BY <1>1, <2>1
<1>5. PICK D \in SUBSET C : Least(4, D, C)
    <2>1. 4 \in 1..4 /\ C \in SUBSET DerivPaths /\ C # {}
        BY <1>a, <1>4
    <2> QED
        BY <1>1, <2>1
<1> USE DEF Least
<1>6. PICK p \in D : TRUE
    BY <1>5
<1>7. p \in T /\ p \in A /\ p \in B /\ p \in C
    BY <1>6
<1>8. SUFFICES ASSUME NEW q \in T, q # p
               PROVE  Before(p, q)
    BY <1>7
<1>9. /\ SortKey(p)[1] <= SortKey(q)[1]
      /\ q \in A => SortKey(p)[2] <= SortKey(q)[2]
      /\ q \in B => SortKey(p)[3] <= SortKey(q)[3]
      /\ q \in C => SortKey(p)[4] <= SortKey(q)[4]
    BY <1>2, <1>3, <1>4, <1>5, <1>6, <1>7
<1>10. /\ SortKey(p)[1] = SortKey(q)[1] => q \in A
       /\ q \in A /\ SortKey(p)[2] = SortKey(q)[2] => q \in B
       /\ q \in B /\ SortKey(p)[3] = SortKey(q)[3] => q \in C
    BY <1>2, <1>3, <1>4, <1>7
<1>11. \/ SortKey(p)[1] < SortKey(q)[1]
       \/ SortKey(p)[1] = SortKey(q)[1] /\ SortKey(p)[2] < SortKey(q)[2]
       \/ SortKey(p)[1] = SortKey(q)[1] /\ SortKey(p)[2] = SortKey(q)[2]
          /\ SortKey(p)[3] < SortKey(q)[3]
       \/ SortKey(p)[1] = SortKey(q)[1] /\ SortKey(p)[2] = SortKey(q)[2]
          /\ SortKey(p)[3] = SortKey(q)[3] /\ SortKey(p)[4] < SortKey(q)[4]
    BY <1>0, <1>7, <1>8, <1>9, <1>10
<1>12. ASSUME NEW i \in 1..4, SortKey(p)[i] < SortKey(q)[i],
              \A j \in 1..(i - 1) : SortKey(p)[j] = SortKey(q)[j]
       PROVE  Before(p, q)
    BY <1>12 DEF Before
<1> QED
    <2>1. 1..0 = {} /\ 1..1 = {1} /\ 1..2 = {1, 2} /\ 1..3 = {1, 2, 3}
          /\ {1, 2, 3, 4} = 1..4
        OBVIOUS
    <2>2. /\ \A j \in 1..(1 - 1) : FALSE
          /\ \A j \in 1..(2 - 1) : j = 1
          /\ \A j \in 1..(3 - 1) : j = 1 \/ j = 2
          /\ \A j \in 1..(4 - 1) : j = 1 \/ j = 2 \/ j = 3
        OBVIOUS
    <2>3. CASE SortKey(p)[1] < SortKey(q)[1]
        BY <1>12, <2>1, <2>2, <2>3
    <2>4. CASE SortKey(p)[1] = SortKey(q)[1] /\ SortKey(p)[2] < SortKey(q)[2]
        BY <1>12, <2>1, <2>2, <2>4
    <2>5. CASE SortKey(p)[1] = SortKey(q)[1] /\ SortKey(p)[2] = SortKey(q)[2]
               /\ SortKey(p)[3] < SortKey(q)[3]
        BY <1>12, <2>1, <2>2, <2>5
    <2>6. CASE SortKey(p)[1] = SortKey(q)[1] /\ SortKey(p)[2] = SortKey(q)[2]
               /\ SortKey(p)[3] = SortKey(q)[3] /\ SortKey(p)[4] < SortKey(q)[4]
        BY <1>12, <2>1, <2>2, <2>6
    <2> QED
        BY <1>11, <2>3, <2>4, <2>5, <2>6

\* The path that is taken is one that is left, and comes before the others.
LEMMA NextPathFirst ==
    ASSUME envelope \in Seq(DerivPaths), todo \in SUBSET DerivPaths, todo # {}
    PROVE  NextPath \in todo /\ \A q \in todo \ {NextPath} : Before(NextPath, q)
BY FirstPath DEF NextPath

-----------------------------------------------------------------------------
(* The steps                                                               *)

\* The plan is made of derivation paths.
LEMMA PlanType ==
    ASSUME CollectTypeOK
    PROVE  envelope \in Seq(DerivPaths) /\ Plan \in SUBSET DerivPaths
<1>1. envelope \in Seq(DerivPaths)
    BY CollectorAssumption DEF CollectTypeOK
<1>2. \A i \in DOMAIN envelope : envelope[i] \in DerivPaths
    BY <1>1
<1> QED
    BY <1>1, <1>2, CollectorAssumption DEF Plan

\* Whether a path comes before another only depends on the device and the backup.
LEMMA BeforeStays ==
    ASSUME kind' = kind, envelope' = envelope
    PROVE  /\ Plan' = Plan
           /\ \A p, q : Before(p, q)' <=> Before(p, q)
BY DEF Plan, Before, SortKey, Position, Expect, CommonExpect, ExpectPriority

\* Steps that take no path leave what was asked sorted.
LEMMA SortedStays ==
    ASSUME Sorted, kind' = kind, envelope' = envelope, todo' = todo
    PROVE  Sorted'
<1>1. kind' # NoDevice => \A p \in Plan' \ todo', q \in todo' : Before(p, q)'
    BY BeforeStays DEF Sorted
<1> QED
    BY <1>1 DEF Sorted

\* Init starts a collector.
LEMMA CollectInitInv ==
    ASSUME CollectInit
    PROVE  CollectInv
<1>1. CollectTypeOK
    <2> DEFINE R == {Nothing, Failure} \cup {Xpub(XpubAt[p]) : p \in DerivPaths}
    <2>1. Nothing \in R /\ Unlock \in Calls
        BY DEF Calls
    <2> HIDE DEF R
    <2>2. reply \in [Calls -> R]
        BY <2>1 DEF CollectInit
    <2> USE DEF R
    <2> QED
        BY <2>1, <2>2 DEF CollectInit, CollectTypeOK
<1>2. RepliesOfPath
    BY DEF CollectInit, RepliesOfPath, Nothing, Calls
<1> QED
    BY <1>1, <1>2 DEF CollectInit, CollectInv, XpubOfItsPath, Sorted, AllAnswered, Asked

\* A step that moves the collector only from off to list, or not at all.
LEMMA CollectIdleInv ==
    ASSUME CollectInv, \/ stage' = stage
                       \/ stage = "off" /\ stage' = "list",
           kind' = kind, envelope' = envelope, todo' = todo, at' = at, running' = running,
           reply' = reply, fetched' = fetched, warned' = warned
    PROVE  CollectInv'
<1>1. Plan' = Plan
    BY BeforeStays
<1>2. Asked' = Asked /\ Answered' = Answered
    BY <1>1 DEF Asked, Answered
<1>3. CollectTypeOK' /\ RepliesOfPath' /\ XpubOfItsPath'
    BY DEF CollectInv, CollectTypeOK, RepliesOfPath, XpubOfItsPath
<1>4. Sorted'
    BY SortedStays DEF CollectInv
<1>5. AllAnswered'
    BY <1>2 DEF CollectInv, AllAnswered
<1> QED
    BY <1>3, <1>4, <1>5 DEF CollectInv

\* The devices have been listed: nothing of the plan has been asked.
LEMMA ListInv ==
    ASSUME CollectInv, NEW k \in Kinds \cup {NoDevice}, List(k)
    PROVE  CollectInv'
<1>1. Plan \in SUBSET DerivPaths /\ Plan' = Plan
    BY PlanType DEF CollectInv, List, Plan
<1>2. CollectTypeOK'
    <2>1. todo' \in SUBSET DerivPaths
        BY <1>1 DEF List
    <2>2. stage' \in {"done", "spawn", "check"}
        BY DEF List
    <2> QED
        BY <2>1, <2>2 DEF CollectInv, CollectTypeOK, List
<1>3. RepliesOfPath' /\ XpubOfItsPath'
    BY DEF CollectInv, RepliesOfPath, XpubOfItsPath, List
<1>4. kind' # NoDevice => todo' = Plan'
    BY <1>1 DEF List
<1>5. Asked' = {}
    BY <1>4 DEF Asked
<1> QED
    BY <1>2, <1>3, <1>4, <1>5 DEF CollectInv, Sorted, AllAnswered

\* The next path is taken from those that are left.
LEMMA CheckInv ==
    ASSUME CollectInv, NEW stopped \in BOOLEAN, Check(stopped)
    PROVE  CollectInv'
<1>1. Plan' = Plan /\ \A p, q : Before(p, q)' <=> Before(p, q)
    BY BeforeStays DEF Check
<1>2. Answered' = Answered /\ Asked \subseteq Answered
    BY DEF Answered, Check, CollectInv, AllAnswered
<1>3. CASE stopped \/ todo = {}
    <2>1. stage' = "done" /\ at' = at /\ todo' = todo
        BY <1>3 DEF Check
    <2>2. CollectTypeOK' /\ RepliesOfPath' /\ XpubOfItsPath'
        BY <2>1 DEF CollectInv, CollectTypeOK, RepliesOfPath, XpubOfItsPath, Check
    <2>3. Asked' = Asked
        BY <1>1, <2>1 DEF Asked, Check
    <2>4. Sorted'
        BY <2>1, SortedStays DEF CollectInv, Check
    <2> QED
        BY <1>2, <2>1, <2>2, <2>3, <2>4 DEF CollectInv, AllAnswered
<1>4. CASE ~(stopped \/ todo = {})
    <2>1. stage' = "spawn" /\ at' = NextPath /\ todo' = todo \ {NextPath} /\ kind' = kind
        BY <1>4 DEF Check
    <2>2. NextPath \in todo /\ \A q \in todo \ {NextPath} : Before(NextPath, q)
        BY <1>4, PlanType, NextPathFirst DEF CollectInv, CollectTypeOK
    <2>3. CollectTypeOK'
        <3>1. NextPath \in Calls /\ todo' \in SUBSET DerivPaths
            BY <2>1, <2>2 DEF Calls, CollectInv, CollectTypeOK
        <3> QED
            BY <2>1, <3>1 DEF CollectInv, CollectTypeOK, Check
    <2>4. RepliesOfPath' /\ XpubOfItsPath'
        BY DEF CollectInv, RepliesOfPath, XpubOfItsPath, Check
    <2>5. Asked' \subseteq Asked \cup {NextPath}
        BY <1>1, <2>1 DEF Asked
    <2>6. Sorted'
        <3>1. ASSUME kind # NoDevice, NEW p \in Plan \ (todo \ {NextPath}),
                     NEW q \in todo \ {NextPath}
              PROVE  Before(p, q)
            <4>1. p = NextPath \/ p \in Plan \ todo
                OBVIOUS
            <4> QED
                BY <2>2, <3>1, <4>1 DEF CollectInv, Sorted
        <3>2. kind' # NoDevice => \A p \in Plan' \ todo', q \in todo' : Before(p, q)'
            BY <1>1, <2>1, <3>1
        <3> QED
            BY <3>2 DEF Sorted
    <2> QED
        BY <1>2, <2>1, <2>3, <2>4, <2>5, <2>6 DEF CollectInv, AllAnswered
<1> QED
    BY <1>3, <1>4

\* A call starts.
LEMMA SpawnInv ==
    ASSUME CollectInv, Spawn
    PROVE  CollectInv'
<1>1. Plan' = Plan
    BY BeforeStays DEF Spawn
<1>2. Asked' = Asked /\ Answered' = Answered
    BY <1>1 DEF Asked, Answered, Spawn
<1>3. CollectTypeOK' /\ RepliesOfPath' /\ XpubOfItsPath'
    BY DEF CollectInv, CollectTypeOK, RepliesOfPath, XpubOfItsPath, Spawn
<1>4. Sorted'
    BY SortedStays DEF CollectInv, Spawn
<1>5. AllAnswered'
    BY <1>2 DEF CollectInv, AllAnswered, Spawn
<1> QED
    BY <1>3, <1>4, <1>5 DEF CollectInv

\* A call answers, in time or late, on the channel that is its own.
LEMMA AnswerReply ==
    ASSUME ReplyInv, NEW c \in running, NEW r \in Answers(c), Answer(c, r)
    PROVE  ReplyInv'
<1> DEFINE R == {Nothing, Failure} \cup {Xpub(XpubAt[p]) : p \in DerivPaths}
<1>1. c \in Calls /\ AskedPath(c) \in SUBSET DerivPaths
    BY CollectorAssumption DEF ReplyInv, AskedPath, Calls
<1>2. r \in R
    BY <1>1 DEF Answers
<1> HIDE DEF R
<1>3. reply \in [Calls -> R]
    BY DEF ReplyInv, R
<1>4. reply' \in [Calls -> R]
    BY <1>2, <1>3 DEF Answer
<1>5. ASSUME NEW p \in DerivPaths, reply'[p].is = "xpub"
      PROVE  reply'[p] = Xpub(XpubAt[p])
    <2>1. p \in Calls /\ DOMAIN reply = Calls
        BY <1>3 DEF Calls
    <2>2. CASE p # c
        BY <1>5, <2>1, <2>2 DEF Answer, ReplyInv, RepliesOfPath
    <2>3. CASE p = c
        <3>1. reply'[p] = r /\ AskedPath(c) = {p}
            BY <2>1, <2>3, CollectorAssumption DEF Answer, AskedPath
        <3> QED
            BY <1>5, <3>1 DEF Answers, Failure
    <2> QED
        BY <2>2, <2>3
<1>6. at' \in Calls /\ running' \subseteq Calls
    BY DEF ReplyInv, Answer
<1>7. RepliesOfPath'
    BY <1>5 DEF RepliesOfPath
<1> QED
    BY <1>4, <1>6, <1>7 DEF ReplyInv, R

\* So the collector's invariant stays.
LEMMA AnswerInv ==
    ASSUME CollectInv, NEW c \in running, NEW r \in Answers(c), Answer(c, r)
    PROVE  CollectInv'
<1>1. Plan' = Plan
    BY BeforeStays DEF Answer
<1>2. Asked' = Asked /\ Answered' = Answered
    BY <1>1 DEF Asked, Answered, Answer
<1>3. ReplyInv'
    <2>1. ReplyInv
        BY DEF CollectInv, CollectTypeOK, ReplyInv
    <2> QED
        BY <2>1, AnswerReply
<1>4. CollectTypeOK' /\ RepliesOfPath'
    BY <1>3 DEF ReplyInv, CollectInv, CollectTypeOK, Answer
<1>5. Sorted'
    BY SortedStays DEF CollectInv, Answer
<1>6. AllAnswered' /\ XpubOfItsPath'
    BY <1>2 DEF CollectInv, AllAnswered, XpubOfItsPath, Answer
<1> QED
    BY <1>4, <1>5, <1>6 DEF CollectInv

\* The device is unlocked: no path has been asked yet.
LEMMA UnlockedInv ==
    ASSUME CollectInv, Unlocked
    PROVE  CollectInv'
<1>1. Plan' = Plan
    BY BeforeStays DEF Unlocked
<1>2. Asked' = Asked /\ Answered' = Answered
    BY <1>1 DEF Asked, Answered, Unlocked
<1>3. Asked \subseteq Answered
    <2>1. Unlock \notin Asked
        BY PlanType, CollectorAssumption DEF CollectInv, Asked
    <2> QED
        BY <2>1 DEF Unlocked, CollectInv, AllAnswered
<1>4. CollectTypeOK' /\ RepliesOfPath' /\ XpubOfItsPath'
    BY DEF CollectInv, CollectTypeOK, RepliesOfPath, XpubOfItsPath, Unlocked
<1>5. Sorted'
    BY SortedStays DEF CollectInv, Unlocked
<1> QED
    BY <1>2, <1>3, <1>4, <1>5 DEF CollectInv, AllAnswered, Unlocked

\* The xpub in a path's channel is the device's at this path.
LEMMA TakenXpub ==
    ASSUME CollectInv, TakeXpub
    PROVE  at \in DerivPaths /\ reply[at].key = XpubAt[at]
<1>1. at \in DerivPaths
    BY DEF CollectInv, CollectTypeOK, Calls, TakeXpub
<1>2. reply[at] = Xpub(XpubAt[at])
    BY <1>1 DEF CollectInv, RepliesOfPath, TakeXpub
<1> QED
    BY <1>1, <1>2 DEF Xpub

\* An xpub is handed on.
LEMMA TakeXpubInv ==
    ASSUME CollectInv, TakeXpub
    PROVE  CollectInv'
<1>1. Plan' = Plan
    BY BeforeStays DEF TakeXpub
<1>2. at \in DerivPaths /\ reply[at].key = XpubAt[at]
    BY TakenXpub
<1>3. fetched' = fetched \cup {<<at, XpubAt[at]>>}
    BY <1>2 DEF TakeXpub
<1>4. Asked' = Asked /\ Answered' = Answered \cup {at}
    <2> DEFINE new == <<at, XpubAt[at]>>
    <2>0. {f[1] : f \in fetched \cup {new}} = {f[1] : f \in fetched} \cup {new[1]}
          /\ new[1] = at
        OBVIOUS
    <2> HIDE DEF new
    <2>1. Answered' = Answered \cup {at}
        BY <1>3, <2>0 DEF Answered, TakeXpub, new
    <2> QED
        BY <1>1, <2>1 DEF Asked, TakeXpub
<1>5. CollectTypeOK'
    BY <1>2, <1>3 DEF CollectInv, CollectTypeOK, TakeXpub
<1>6. XpubOfItsPath' /\ RepliesOfPath'
    BY <1>3 DEF CollectInv, XpubOfItsPath, RepliesOfPath, TakeXpub
<1>7. Sorted'
    BY SortedStays DEF CollectInv, TakeXpub
<1>8. AllAnswered'
    BY <1>4 DEF CollectInv, AllAnswered, TakeXpub
<1> QED
    BY <1>5, <1>6, <1>7, <1>8 DEF CollectInv

\* A call failed or timed out.
LEMMA MissInv ==
    ASSUME CollectInv, Miss
    PROVE  CollectInv'
<1>1. Plan' = Plan
    BY BeforeStays DEF Miss
<1>2. Asked' = Asked
    BY <1>1 DEF Asked, Miss
<1>3. RepliesOfPath' /\ XpubOfItsPath'
    BY DEF CollectInv, RepliesOfPath, XpubOfItsPath, Miss
<1>4. Sorted'
    BY SortedStays DEF CollectInv, Miss
<1>5. CASE stage' = "failed" /\ warned' = warned
    <2>1. CollectTypeOK' /\ Answered' = Answered
        BY <1>5 DEF CollectInv, CollectTypeOK, Miss, Answered
    <2> QED
        BY <1>2, <1>3, <1>4, <1>5, <2>1 DEF CollectInv, AllAnswered, Miss
<1>6. CASE stage' = "check" /\ warned' = warned \cup {at} /\ at # Unlock
    <2>1. at \in DerivPaths
        BY <1>6 DEF CollectInv, CollectTypeOK, Calls
    <2>2. CollectTypeOK'
        BY <1>6, <2>1 DEF CollectInv, CollectTypeOK, Miss
    <2>3. Answered' = Answered \cup {at}
        BY <1>6 DEF Answered, Miss
    <2> QED
        BY <1>2, <1>3, <1>4, <1>6, <2>2, <2>3 DEF CollectInv, AllAnswered, Miss
<1> QED
    BY <1>5, <1>6 DEF Miss

-----------------------------------------------------------------------------
(* What the invariant implies                                              *)

\* A path of the backup that is not asked yet keeps out all but the backup's
\* paths before it.
LEMMA CollectAskedInOrder ==
    ASSUME CollectInv
    PROVE  AskedInOrder
<1>1. ASSUME NEW p \in Asked, NEW i \in DOMAIN envelope, envelope[i] \notin Asked
      PROVE  \E j \in 1..(i - 1) : envelope[j] = p
    <2>0. envelope \in Seq(DerivPaths) /\ Plan \in SUBSET DerivPaths
        BY PlanType DEF CollectInv
    <2> DEFINE q == envelope[i]
               n == Position(envelope, p)
               m == Position(envelope, q)
    <2>1. kind # NoDevice /\ p \in Plan \ todo
        BY DEF Asked
    <2>2. q \in Plan /\ q \in todo /\ p \in DerivPaths /\ q \in DerivPaths
        BY <1>1, <2>0, <2>1 DEF Plan, Asked
    <2>3. Before(p, q)
        BY <2>1, <2>2 DEF CollectInv, Sorted
    <2>4. n \in Nat /\ m \in Nat /\ m < i
        BY <2>0, PositionFirst
    <2>5. n <= m
        <3>1. SortKey(p)[1] = n /\ SortKey(q)[1] = m
            BY <2>0, <2>2, SortKeyType
        <3>2. PICK k \in 1..4 : /\ SortKey(p)[k] < SortKey(q)[k]
                                /\ \A j \in 1..(k - 1) : SortKey(p)[j] = SortKey(q)[j]
            BY <2>3 DEF Before
        <3> HIDE DEF n, m
        <3>3. k = 1 \/ 1 \in 1..(k - 1)
            BY <3>2
        <3> QED
            BY <2>4, <3>1, <3>2, <3>3
    <2>6. i \in 1..Len(envelope) /\ Len(envelope) \in Nat
        BY <2>0
    <2>7. envelope[n + 1] = p
        <3>1. n < Len(envelope)
            BY <2>4, <2>5, <2>6
        <3> QED
            BY <2>0, <3>1, PositionFirst
    <2>8. n + 1 # i
        BY <2>1, <2>2, <2>7
    <2>9. n + 1 \in 1..(i - 1)
        BY <2>4, <2>5, <2>6, <2>8
    <2> QED
        BY <2>7, <2>9
<1>2. /\ Asked \ {at} \subseteq Answered
      /\ stage \in {"done", "check"} => Asked \subseteq Answered
    BY DEF CollectInv, AllAnswered
<1> QED
    BY <1>1, <1>2 DEF AskedInOrder, Asked, Answered
=============================================================================
