---------------------------- MODULE AgentProofs ----------------------------
(***************************************************************************)
(* Proofs about Agent, for any calls, keys, limits and page sizes.         *)
(***************************************************************************)
EXTENDS Agent, FiniteSetTheorems, TLAPS

\* A call that has its key and has not yet had its effect.
AtWork(r) == pc[r] \in {"count", "time", "apply"}

Labels == {"idle", "claim", "count", "time", "apply", "reply"} \cup Ended
KeysOK == /\ claimed \subseteq Key
          /\ done \in [Key -> Nat]
          /\ pc \in [Request -> Labels]
          /\ key \in [Request -> Key \cup {NoKey}]
          /\ \A r \in Request : pc[r] # "idle" => key[r] \in Key

\* A key is set before its command is at work or has had its effect, and until it
\* expires one call at most is at work under it, and none once the effect is there.
SetFirst == /\ \A r \in Request : AtWork(r) => key[r] \in claimed \cup lapsed
            /\ \A k \in Key : done[k] > 0 => k \in claimed \cup lapsed
OneAtWork == \A r, q \in Request :
                 (AtWork(r) /\ AtWork(q) /\ key[r] = key[q] /\ key[r] \notin lapsed) => r = q
WorkOrEffect == \A r \in Request : (AtWork(r) /\ key[r] \notin lapsed) => done[key[r]] = 0

IInv == KeysOK /\ SetFirst /\ OneAtWork /\ WorkOrEffect /\ OncePerKey

\* The keys are left alone, and r goes to label, as one that was at work before or
\* is not from now on.
LEMMA Onward ==
    ASSUME IInv, NEW r \in Request, NEW label \in Labels, Goto(r, label),
           UNCHANGED <<claimed, lapsed, done>>,
           label \in {"count", "time", "apply"} => AtWork(r),
           \A q \in Request : q # r => key'[q] = key[q],
           key' \in [Request -> Key \cup {NoKey}],
           key'[r] \in Key,
           AtWork(r) => key'[r] = key[r]
    PROVE  IInv'
  <1> USE DEF IInv, Goto, AtWork, KeysOK
  <1>1. KeysOK' /\ \A q \in Request : AtWork(q)' => AtWork(q) /\ key'[q] = key[q]
    BY DEF Labels
  <1>2. SetFirst'
    BY <1>1 DEF SetFirst
  <1>3. OneAtWork'
    BY <1>1 DEF OneAtWork
  <1>4. WorkOrEffect'
    BY <1>1 DEF WorkOrEffect
  <1>5. OncePerKey'
    BY DEF OncePerKey
  <1>6. QED
    BY <1>1, <1>2, <1>3, <1>4, <1>5

LEMMA ClaimInv ==
    ASSUME IInv, NEW r \in Request, Claim(r)
    PROVE  IInv'
  <1>1. key[r] \in Key /\ pc[r] = "claim" /\ UNCHANGED <<lapsed, done, key>>
    BY DEF IInv, KeysOK, Claim
  <1>2. CASE key[r] \in claimed
    BY <1>1, <1>2, Onward DEF Claim, IInv, KeysOK, Labels, Ended, AtWork
  <1>3. CASE key[r] \notin claimed
    <2> USE DEF IInv, KeysOK, AtWork
    <2>1. PICK label \in {"apply", "count"} : Goto(r, label)
      BY <1>3 DEF Claim, AfterClaim
    <2>2. claimed' = claimed \cup {key[r]}
      BY <1>3 DEF Claim
    <2>3. KeysOK' /\ \A q \in Request : AtWork(q)' <=> (q = r \/ AtWork(q))
      BY <1>1, <2>1, <2>2 DEF Goto, Labels
    <2>4. SetFirst'
      BY <1>1, <2>2, <2>3 DEF SetFirst
    <2>5. key[r] \notin lapsed =>
             done[key[r]] = 0 /\ \A q \in Request : AtWork(q) => key[q] # key[r]
      BY <1>1, <1>3 DEF SetFirst
    <2>6. OneAtWork'
      BY <1>1, <2>3, <2>5 DEF OneAtWork
    <2>7. WorkOrEffect'
      BY <1>1, <2>3, <2>5 DEF WorkOrEffect
    <2>8. OncePerKey'
      BY <1>1 DEF OncePerKey
    <2>9. QED
      BY <2>3, <2>4, <2>6, <2>7, <2>8
  <1>4. QED
    BY <1>2, <1>3

LEMMA ApplyInv ==
    ASSUME IInv, NEW r \in Request, Apply(r)
    PROVE  IInv'
  <1> USE DEF IInv, KeysOK, AtWork
  <1>1. /\ key[r] \in Key /\ pc[r] = "apply" /\ UNCHANGED <<claimed, lapsed, key>>
        /\ done' = [done EXCEPT ![key[r]] = done[key[r]] + 1]
        /\ Goto(r, "reply")
    BY DEF Apply
  <1>2. KeysOK' /\ \A q \in Request : AtWork(q)' <=> (q # r /\ AtWork(q))
    BY <1>1 DEF Goto, Labels
  <1>3. \A k \in Key : done'[k] = IF k = key[r] THEN done[k] + 1 ELSE done[k]
    BY <1>1
  <1>4. SetFirst'
    BY <1>1, <1>2, <1>3 DEF SetFirst
  <1>5. OneAtWork'
    BY <1>1, <1>2 DEF OneAtWork
  <1>6. WorkOrEffect'
    BY <1>1, <1>2, <1>3 DEF WorkOrEffect, OneAtWork
  <1>7. OncePerKey'
    BY <1>1, <1>3 DEF OncePerKey, WorkOrEffect
  <1>8. QED
    BY <1>2, <1>4, <1>5, <1>6, <1>7

\* The invariant holds in every state.
THEOREM Invariance == Spec => []IInv
  <1>1. Init => IInv
    BY DEF Init, IInv, KeysOK, Labels, SetFirst, OneAtWork, WorkOrEffect, OncePerKey, AtWork
  <1>2. IInv /\ [Next]_vars => IInv'
    <2> SUFFICES ASSUME IInv, [Next]_vars PROVE IInv'
      OBVIOUS
    <2>1. ASSUME NEW r \in Request, Call(r) PROVE IInv'
      <3>1. PICK k \in Key \ settled : key' = [key EXCEPT ![r] = k]
        BY <2>1 DEF Call
      <3>2. QED
        BY <2>1, <3>1, Onward DEF Call, IInv, KeysOK, Labels, AtWork
    <2>2. ASSUME NEW r \in Request, Count(r) \/ Time(r) PROVE IInv'
      <3>1. PICK label \in {"time", "apply", "refused"} : Goto(r, label)
        BY <2>2 DEF Count, Time
      <3>2. QED
        BY <2>2, <3>1, Onward DEF Count, Time, IInv, KeysOK, Labels, Ended, AtWork
    <2>3. ASSUME NEW r \in Request, Reply(r) \/ Drop(r) PROVE IInv'
      BY <2>3, Onward DEF Reply, Drop, IInv, KeysOK, Labels, Ended, AtWork
    <2>4. ASSUME NEW k \in Key, KeyExpires(k) PROVE IInv'
      BY <2>4 DEF KeyExpires, IInv, KeysOK, SetFirst, OneAtWork, WorkOrEffect, OncePerKey, AtWork
    <2>5. CASE WindowEnds \/ OthersWrite \/ Context \/ Poll \/ UNCHANGED vars
      <3>1. UNCHANGED <<claimed, lapsed, done, pc, key>>
        BY <2>5 DEF WindowEnds, OthersWrite, Context, Poll, vars, commands
      <3>2. QED
        BY <3>1 DEF IInv, KeysOK, SetFirst, OneAtWork, WorkOrEffect, OncePerKey, AtWork
    <2>6. QED
      BY <2>1, <2>2, <2>3, <2>4, <2>5, ClaimInv, ApplyInv DEF Next, Step
  <1>3. QED
    BY <1>1, <1>2, PTL DEF Spec

\* However many calls carry one idempotency key, at whatever moment each of them
\* fails, is repeated or loses its answer, the command takes effect at most once
\* while the key has not expired.
THEOREM EffectIsSingle == Spec => []OncePerKey
  <1>1. IInv => OncePerKey
    BY DEF IInv
  <1>2. QED
    BY Invariance, <1>1, PTL
-----------------------------------------------------------------------------
(* The events.                                                             *)

\* A set in order has all of it, each element once.
LEMMA OrderIsOnto ==
    ASSUME NEW S \in SUBSET Nat, IsFiniteSet(S), NEW p \in InOrder(S)
    PROVE  /\ Cardinality(S) \in Nat /\ p \in [1 .. Cardinality(S) -> S]
           /\ \A x \in S : \E i \in 1 .. Cardinality(S) : p[i] = x
  <1> DEFINE n == Cardinality(S)
  <1>1. n \in Nat /\ Cardinality(1 .. n) = n
    BY FS_CardinalityType, FS_Interval
  <1> HIDE DEF n
  <1>2. p \in [1 .. n -> S] /\ \A i, j \in 1 .. n : i < j => p[i] < p[j]
    BY DEF InOrder, n
  <1>3. ASSUME NEW i \in 1 .. n, NEW j \in 1 .. n, p[i] = p[j] PROVE i = j
    <2>1. p[i] \in Nat /\ ~(p[i] < p[j]) /\ ~(p[j] < p[i])
      <3>1. p[i] \in S /\ S \subseteq Nat
        BY <1>2
      <3>2. p[i] \in Nat
        BY <3>1
      <3>3. QED
        BY <1>3, <3>2
    <2>2. ~(i < j) /\ ~(j < i)
      BY <1>2, <2>1
    <2>3. QED
      BY <1>1, <2>2
  <1>4. p \in Injection(1 .. n, S)
    BY <1>2, <1>3 DEF Injection, IsInjective
  <1>5. p \in Surjection(1 .. n, S)
    BY <1>1, <1>4, FS_Injection DEF n
  <1>6. QED
    BY <1>1, <1>2, <1>5 DEF Surjection, n

\* Two sets in order, one wholly before the other, are their union in order.
LEMMA OrderedAfter ==
    ASSUME NEW S \in SUBSET Nat, IsFiniteSet(S), NEW T \in SUBSET Nat, IsFiniteSet(T),
           \A x \in S, y \in T : x < y,
           NEW p \in InOrder(S), NEW q \in InOrder(T)
    PROVE  p \o q \in InOrder(S \cup T)
  <1> DEFINE m == Cardinality(S)
             n == Cardinality(T)
             U == S \cup T
  <1>1. m \in Nat /\ n \in Nat /\ Cardinality(U) = m + n
    <2>1. S \cap T = {}
      OBVIOUS
    <2>2. Cardinality(S) \in Nat /\ Cardinality(T) \in Nat
      BY FS_CardinalityType
    <2>3. Cardinality(S \cup T) = Cardinality(S) + Cardinality(T) - Cardinality(S \cap T)
      BY FS_Union
    <2>4. Cardinality(S \cap T) = 0
      BY <2>1, FS_EmptySet
    <2>5. QED
      BY <2>2, <2>3, <2>4
  <1>2. /\ p \in [1 .. m -> S] /\ q \in [1 .. n -> T]
        /\ \A i, j \in 1 .. m : i < j => p[i] < p[j]
        /\ \A i, j \in 1 .. n : i < j => q[i] < q[j]
    BY DEF InOrder
  <1> HIDE DEF m, n
  <1>3. p \in Seq(U) /\ q \in Seq(U) /\ Len(p) = m /\ Len(q) = n
    BY <1>1, <1>2
  <1> DEFINE r == p \o q
  <1>4. /\ r \in Seq(U) /\ Len(r) = m + n
        /\ \A i \in 1 .. m + n : r[i] = IF i <= m THEN p[i] ELSE q[i - m]
    BY <1>1, <1>3
  <1> HIDE DEF r, U
  <1>5. r \in [1 .. m + n -> U] /\ DOMAIN r = 1 .. m + n
    BY <1>1, <1>4
  <1>6. ASSUME NEW i \in 1 .. m + n, NEW j \in 1 .. m + n, i < j PROVE r[i] < r[j]
    <2>1. i \in Nat /\ j \in Nat /\ 1 <= i /\ j <= m + n
      BY <1>1
    <2>2. CASE j <= m
      BY <1>1, <1>2, <1>4, <1>6, <2>1, <2>2
    <2>3. CASE i <= m /\ ~(j <= m)
      <3>1. r[i] = p[i] /\ r[j] = q[j - m] /\ i \in 1 .. m /\ j - m \in 1 .. n
        BY <1>1, <1>4, <2>1, <2>3
      <3>2. p[i] \in S /\ q[j - m] \in T
        BY <1>2, <3>1
      <3>3. QED
        BY <3>1, <3>2
    <2>4. CASE ~(i <= m)
      <3>1. r[i] = q[i - m] /\ r[j] = q[j - m] /\ i - m \in 1 .. n /\ j - m \in 1 .. n
            /\ i - m < j - m
        BY <1>1, <1>4, <1>6, <2>1, <2>4
      <3>2. QED
        BY <1>2, <3>1
    <2>5. QED
      BY <1>6, <2>1, <2>2, <2>3, <2>4
  <1>7. QED
    BY <1>1, <1>5, <1>6 DEF InOrder, r, U

\* Of a finite set, no element of the first n has a smaller one outside of them.
LEMMA FirstIsBelow ==
    ASSUME NEW S \in SUBSET Nat, IsFiniteSet(S), NEW n \in Nat,
           NEW i \in FirstOf(S, n), NEW j \in S, j < i
    PROVE  j \in FirstOf(S, n)
  <1> DEFINE A == {k \in S : k < j}
             B == {k \in S : k < i}
  <1>1. i \in S /\ Cardinality(B) < n
    BY DEF FirstOf
  <1>2. A \in SUBSET B /\ B \in SUBSET S
    <2>1. i \in Nat /\ j \in Nat
      BY <1>1
    <2>2. \A k \in S : k \in Nat /\ (k < j => k < i)
      BY <2>1
    <2>3. QED
      BY <2>2
  <1>3. Cardinality(A) \in Nat /\ Cardinality(B) \in Nat /\ Cardinality(A) <= Cardinality(B)
    <2> HIDE DEF A, B
    <2>1. IsFiniteSet(B)
      BY <1>2, FS_Subset
    <2>2. IsFiniteSet(A) /\ Cardinality(A) <= Cardinality(B)
      BY <1>2, <2>1, FS_Subset
    <2>3. QED
      BY <2>1, <2>2, FS_CardinalityType
  <1>4. Cardinality(A) < n
    BY <1>1, <1>3
  <1>5. QED
    BY <1>4 DEF FirstOf

FeedInv ==
    /\ log \in Seq({"here", "elsewhere"})
    /\ feed = [start |-> feed.start, cursor |-> feed.cursor, seen |-> feed.seen]
    /\ {feed.start, feed.cursor} \subseteq 0 .. Len(log) /\ feed.start <= feed.cursor
    /\ EventsComplete

LEMMA RowsFinite ==
    ASSUME NEW a \in Nat, NEW b \in Nat
    PROVE  RowsHere(a, b) \in SUBSET Nat /\ IsFiniteSet(RowsHere(a, b))
  <1>1. RowsHere(a, b) \in SUBSET (a .. b) /\ IsFiniteSet(a .. b)
    BY FS_Interval DEF RowsHere
  <1>2. QED
    BY <1>1, FS_Subset

\* No row is in no order.
LEMMA NoneInOrder == <<>> \in InOrder({})
  BY FS_EmptySet DEF InOrder

\* What is written later is beyond the cursor.
LEMMA AppendKeepsFeed ==
    ASSUME FeedInv, NEW w \in {"here", "elsewhere"}, log' = Append(log, w), UNCHANGED feed
    PROVE  FeedInv'
  <1>1. /\ log' \in Seq({"here", "elsewhere"}) /\ Len(log') = Len(log) + 1 /\ Len(log) \in Nat
        /\ \A i \in 1 .. Len(log) : log'[i] = log[i]
    BY DEF FeedInv
  <1>2. RowsHere(feed.start + 1, feed.cursor)' = RowsHere(feed.start + 1, feed.cursor)
    BY <1>1 DEF FeedInv, RowsHere
  <1>3. EventsComplete'
    BY <1>2 DEF FeedInv, EventsComplete, InOrder
  <1>4. QED
    BY <1>1, <1>3 DEF FeedInv

\* A page is the next rows up to its last.
LEMMA PollKeepsFeed ==
    ASSUME FeedInv, Poll
    PROVE  FeedInv'
  <1> DEFINE rows == RowsHere(feed.cursor + 1, Len(log))
             page == FirstOf(rows, PageSize)
             had == RowsHere(feed.start + 1, feed.cursor)
  <1>1. PICK p \in InOrder(page) : Seen(p)
    BY DEF Poll
  <1>2. /\ log \in Seq({"here", "elsewhere"}) /\ Len(log) \in Nat
        /\ feed.start \in Nat /\ feed.cursor \in Nat /\ feed.start <= feed.cursor
        /\ feed.cursor <= Len(log) /\ feed.seen \in InOrder(had)
        /\ UNCHANGED log
    BY DEF FeedInv, EventsComplete, Poll
  <1>3. rows \in SUBSET Nat /\ IsFiniteSet(rows) /\ had \in SUBSET Nat /\ IsFiniteSet(had)
    BY <1>2, RowsFinite
  <1>4. page \in SUBSET rows /\ page \in SUBSET Nat /\ IsFiniteSet(page)
    <2>1. page \in SUBSET rows
      BY DEF FirstOf
    <2> HIDE DEF page, rows
    <2>2. QED
      BY <1>3, <2>1, FS_Subset
  <1>5. /\ Cardinality(page) \in Nat /\ p \in [1 .. Cardinality(page) -> page]
        /\ \A x \in page : \E i \in 1 .. Cardinality(page) : p[i] = x
    <2> HIDE DEF page
    <2>1. QED
      BY <1>1, <1>4, OrderIsOnto
  <1> DEFINE n == Cardinality(page)
             last == p[n]
  <1>6. n \in Nat \ {0} /\ Len(p) = n /\ last \in page /\ \A x \in page : x <= last
    <2> HIDE DEF page
    <2>1. p \in [1 .. n -> page] /\ n \in Nat /\ p # <<>>
          /\ \A i, j \in 1 .. n : i < j => p[i] < p[j]
      BY <1>1, <1>5 DEF InOrder, Seen
    <2>2. n # 0 /\ Len(p) = n
      BY <2>1
    <2>3. ASSUME NEW x \in page PROVE x <= last
      <3>1. PICK i \in 1 .. n : p[i] = x
        BY <1>5
      <3>2. i = n \/ p[i] < p[n]
        BY <2>1, <2>2
      <3>3. p[i] \in page /\ p[n] \in page
        BY <2>1, <2>2
      <3>4. p[i] \in Nat /\ p[n] \in Nat
        BY <1>4, <3>3
      <3>5. QED
        BY <3>1, <3>2, <3>4
    <2>4. QED
      BY <2>1, <2>2, <2>3
  <1>7. RowsHere(feed.start + 1, last) = had \cup page
    <2>1. /\ last \in feed.cursor + 1 .. Len(log) /\ last \in Nat
          /\ \A x \in page : x \in feed.cursor + 1 .. last /\ log[x] = "here"
      BY <1>2, <1>4, <1>6 DEF RowsHere
    <2>2. ASSUME NEW x \in feed.cursor + 1 .. last, log[x] = "here" PROVE x \in page
      <3>1. x \in rows /\ (x = last \/ x < last)
        BY <1>2, <2>1, <2>2 DEF RowsHere
      <3>2. CASE x < last
        <4> HIDE DEF rows, last
        <4>1. QED
          BY <1>3, <1>6, <3>1, <3>2, FirstIsBelow, AgentAssumption
      <3>3. QED
        BY <1>6, <3>1, <3>2
    <2> HIDE DEF page, last
    <2>3. \A x : x \in feed.start + 1 .. last <=>
                   x \in feed.start + 1 .. feed.cursor \/ x \in feed.cursor + 1 .. last
      BY <1>2, <2>1
    <2>4. QED
      BY <2>1, <2>2, <2>3 DEF RowsHere
  <1>8. feed'.start = feed.start /\ feed'.cursor = last /\ feed'.seen = feed.seen \o p
        /\ feed' = [start |-> feed'.start, cursor |-> feed'.cursor, seen |-> feed'.seen]
    BY <1>1, <1>6 DEF Seen, FeedInv
  <1>9. feed.seen \o p \in InOrder(had \cup page)
    <2>1. \A x \in had, y \in page : x < y
      <3>1. \A x \in had : x \in Nat /\ x <= feed.cursor
        BY <1>2 DEF RowsHere
      <3>2. \A y \in page : y \in Nat /\ feed.cursor < y
        BY <1>2, <1>4 DEF RowsHere
      <3>3. QED
        BY <1>2, <3>1, <3>2
    <2> HIDE DEF had, page
    <2>2. QED
      BY <1>1, <1>2, <1>3, <1>4, <2>1, OrderedAfter
  <1>10. last \in feed.cursor + 1 .. Len(log)
    BY <1>4, <1>6 DEF RowsHere
  <1> HIDE DEF had, page, last
  <1>11. EventsComplete'
    <2>1. RowsHere(feed.start + 1, feed.cursor)' = RowsHere(feed.start + 1, last)
      BY <1>2, <1>8 DEF RowsHere
    <2>2. QED
      BY <1>7, <1>8, <1>9, <2>1 DEF EventsComplete, InOrder
  <1>12. QED
    BY <1>2, <1>8, <1>10, <1>11 DEF FeedInv

\* A poll never loses or repeats an event of the room: the events an agent has seen
\* since its context are the room's messages up to its cursor, in the order of
\* their numbers, whatever is written meanwhile and however small the pages.
THEOREM EventsAreComplete == Spec => []EventsComplete
  <1>1. Init => FeedInv
    <2> SUFFICES ASSUME Init PROVE FeedInv
      OBVIOUS
    <2>1. log = <<>> /\ feed = [start |-> 0, cursor |-> 0, seen |-> <<>>]
      BY DEF Init
    <2>2. RowsHere(feed.start + 1, feed.cursor) = {}
      BY <2>1 DEF RowsHere
    <2>3. feed.start = 0 /\ feed.cursor = 0 /\ feed.seen = <<>>
      BY <2>1
    <2>4. EventsComplete
      BY <2>2, <2>3, NoneInOrder, Zenon DEF EventsComplete
    <2>5. log \in Seq({"here", "elsewhere"}) /\ Len(log) = 0
      BY <2>1
    <2>6. QED
      BY <2>1, <2>3, <2>4, <2>5 DEF FeedInv
  <1>2. FeedInv /\ [Next]_vars => FeedInv'
    <2> SUFFICES ASSUME FeedInv, [Next]_vars PROVE FeedInv'
      OBVIOUS
    <2>1. ASSUME UNCHANGED <<log, feed>> PROVE FeedInv'
      BY <2>1 DEF FeedInv, EventsComplete, RowsHere, InOrder
    <2>2. ASSUME NEW r \in Request, Apply(r) PROVE FeedInv'
      <3>1. log' = log \/ log' = Append(log, "here")
        BY <2>2 DEF Apply
      <3>2. UNCHANGED feed
        BY <2>2 DEF Apply
      <3>3. QED
        BY <2>1, <3>1, <3>2, AppendKeepsFeed
    <2>3. CASE OthersWrite
      BY <2>3, AppendKeepsFeed DEF OthersWrite
    <2>4. CASE Context
      <3>1. PICK last \in {0} \cup RowsHere(1, Len(log)) :
               feed' = [start |-> last, cursor |-> last, seen |-> <<>>]
        BY <2>4 DEF Context
      <3>2. last \in 0 .. Len(log) /\ last \in Nat /\ UNCHANGED log
        BY <2>4, <3>1 DEF Context, FeedInv, RowsHere
      <3>3. RowsHere(feed.start + 1, feed.cursor)' = {}
        BY <3>1, <3>2 DEF RowsHere
      <3>4. feed'.seen = <<>>
        BY <3>1
      <3>5. EventsComplete'
        BY <3>3, <3>4, NoneInOrder, Zenon DEF EventsComplete
      <3>6. QED
        BY <3>1, <3>2, <3>5 DEF FeedInv
    <2>5. CASE Poll
      BY <2>5, PollKeepsFeed
    <2>6. CASE \/ \E r \in Request : Call(r) \/ Claim(r) \/ Count(r) \/ Time(r) \/ Reply(r) \/ Drop(r)
               \/ \E k \in Key : KeyExpires(k)
               \/ WindowEnds \/ UNCHANGED vars
      BY <2>1, <2>6 DEF Call, Claim, Count, Time, Reply, Drop, KeyExpires, WindowEnds, vars
    <2>7. QED
      BY <2>2, <2>3, <2>4, <2>5, <2>6 DEF Next, Step
  <1>3. FeedInv => EventsComplete
    BY DEF FeedInv
  <1>4. QED
    BY <1>1, <1>2, <1>3, PTL DEF Spec
=============================================================================
