-------------------------- MODULE StagePageProofs --------------------------
(***************************************************************************)
(* Proofs about what a page shows: StageRequest and StagePage, for any     *)
(* members and features and whatever the bounds on requests, changes and   *)
(* the host's list.                                                        *)
(*                                                                         *)
(* The last part is about HostPage, the other half of what the page shows  *)
(* a host.  The three are specifications of their own, whose names are     *)
(* apart; StageRequest and HostPage both keep sequences whose entries go   *)
(* one by one.                                                             *)
(***************************************************************************)
EXTENDS StageRequest, StagePage, HostPage, FiniteSetTheorems, TLAPS

(***************************************************************************)
(* StageRequest: its types.  Each part is disturbed by a few actions.      *)
(***************************************************************************)
Grants == [Member -> SUBSET Feature]
PermTypes ==
    /\ inRoom \subseteq Page
    /\ granted \in Grants /\ undone \in Grants /\ lost \in Grants
    /\ allowed \in Grants /\ pending \in Grants
    /\ \A m \in Member : granted[m] \cap (undone[m] \cup lost[m]) = {}
ListOf(l) ==
    /\ l \in Seq(Request)
    /\ \A i, j \in DOMAIN l : l[i].id = l[j].id => i = j
NotOn(l, r) == \A i \in DOMAIN l : l[i].id # r.id
ListTypes == ListOf(listed) /\ Len(listed) <= MaxListed
WireTypes ==
    /\ deciding \subseteq Decision
    /\ \A d \in deciding : d.at = "applied" => d.request.id # Silent
    /\ wire \subseteq Message

LEMMA RequestTypes == RequestTypeOK <=> PermTypes /\ ListTypes /\ WireTypes
  BY DEF RequestTypeOK, PermTypes, Grants, ListTypes, ListOf, WireTypes

LEMMA Concatenation ==
    ASSUME NEW S, NEW a \in Seq(S), NEW b \in Seq(S)
    PROVE  /\ a \o b \in Seq(S) /\ Len(a \o b) = Len(a) + Len(b)
           /\ \A k \in 1 .. Len(a) + Len(b) :
                 (a \o b)[k] = IF k <= Len(a) THEN a[k] ELSE b[k - Len(a)]
  OBVIOUS

\* A sequence without its i-th entry.
LEMMA CutSeq ==
    ASSUME NEW S, NEW s \in Seq(S), NEW i \in 1 .. Len(s), NEW u,
           u = SubSeq(s, 1, i - 1) \o SubSeq(s, i + 1, Len(s))
    PROVE  /\ u \in Seq(S) /\ Len(u) = Len(s) - 1
           /\ \A k \in 1 .. Len(u) : u[k] = IF k < i THEN s[k] ELSE s[k + 1]
  <1> DEFINE a == SubSeq(s, 1, i - 1)
             b == SubSeq(s, i + 1, Len(s))
  <1>1. Len(s) \in Nat /\ i \in Nat /\ i >= 1 /\ i <= Len(s)
    OBVIOUS
  <1>2. a \in Seq(S) /\ Len(a) = i - 1 /\ \A k \in 1 .. i - 1 : a[k] = s[k]
    BY <1>1
  <1>3. b \in Seq(S) /\ Len(b) = Len(s) - i /\ \A k \in 1 .. Len(s) - i : b[k] = s[i + k]
    BY <1>1
  <1> HIDE DEF a, b
  <1>4. u = a \o b
    BY DEF a, b
  <1>5. /\ u \in Seq(S) /\ Len(u) = Len(a) + Len(b)
        /\ \A k \in 1 .. Len(a) + Len(b) : u[k] = IF k <= Len(a) THEN a[k] ELSE b[k - Len(a)]
    <2>1. a \in Seq(S) /\ b \in Seq(S)
      BY <1>2, <1>3
    <2>2. /\ a \o b \in Seq(S) /\ Len(a \o b) = Len(a) + Len(b)
          /\ \A k \in 1 .. Len(a) + Len(b) :
                 (a \o b)[k] = IF k <= Len(a) THEN a[k] ELSE b[k - Len(a)]
      BY ONLY <2>1, Concatenation, Zenon
    <2>3. QED
      BY <1>4, <2>2, Zenon
  <1>6. Len(u) = Len(s) - 1
    BY ONLY <1>1, <1>2, <1>3, <1>5
  <1>7. ASSUME NEW k \in 1 .. Len(u) PROVE u[k] = IF k < i THEN s[k] ELSE s[k + 1]
    <2>1. k \in 1 .. Len(a) + Len(b) /\ k \in Nat /\ k >= 1 /\ k <= Len(s) - 1
      BY ONLY <1>1, <1>2, <1>3, <1>6, <1>7
    <2>2. CASE k < i
      BY ONLY <1>1, <1>2, <1>5, <2>1, <2>2
    <2>3. CASE ~(k < i)
      <3>1. k - (i - 1) \in 1 .. Len(s) - i /\ i + (k - (i - 1)) = k + 1
        BY ONLY <1>1, <2>1, <2>3
      <3>2. u[k] = b[k - (i - 1)]
        BY ONLY <1>1, <1>2, <1>5, <2>1, <2>3
      <3>3. QED
        BY <1>3, <2>3, <3>1, <3>2
    <2>4. QED
      BY <2>2, <2>3
  <1>8. QED
    BY <1>5, <1>6, <1>7

\* A list without one of its requests is a list, no longer, and without that id.
LEMMA UnlistedIsList ==
    ASSUME ListOf(listed), NEW r
    PROVE  /\ ListOf(Unlisted(r))
           /\ Len(Unlisted(r)) <= Len(listed)
           /\ NotOn(Unlisted(r), r)
  <1>1. CASE \E i \in DOMAIN listed : listed[i].id = r.id
    <2>1. PICK i \in 1 .. Len(listed) :
             /\ listed[i].id = r.id
             /\ Unlisted(r) = SubSeq(listed, 1, i - 1) \o SubSeq(listed, i + 1, Len(listed))
      <3>1. DOMAIN listed = 1 .. Len(listed)
        BY DEF ListOf
      <3>2. QED
        BY <1>1, <3>1 DEF Unlisted
    <2>2. /\ Unlisted(r) \in Seq(Request) /\ Len(Unlisted(r)) = Len(listed) - 1
          /\ \A k \in 1 .. Len(Unlisted(r)) :
                Unlisted(r)[k] = IF k < i THEN listed[k] ELSE listed[k + 1]
      <3>1. listed \in Seq(Request) /\ i \in 1 .. Len(listed)
        BY <2>1 DEF ListOf
      <3>2. QED
        BY ONLY <2>1, <3>1, CutSeq
    <2> DEFINE u == Unlisted(r)
    <2> HIDE DEF u
    <2>3. u \in Seq(Request) /\ Len(u) = Len(listed) - 1 /\ DOMAIN u = 1 .. Len(listed) - 1
          /\ \A k \in DOMAIN u : u[k] = IF k < i THEN listed[k] ELSE listed[k + 1]
      BY <2>2 DEF u
    <2>4. Len(listed) \in Nat /\ DOMAIN listed = 1 .. Len(listed)
          /\ \A j, k \in DOMAIN listed : listed[j].id = listed[k].id => j = k
      BY DEF ListOf
    <2>5. \A j, k \in DOMAIN u : u[j].id = u[k].id => j = k
      BY <2>1, <2>3, <2>4
    <2>6. \A k \in DOMAIN u : u[k].id # r.id
      BY <2>1, <2>3, <2>4
    <2>7. QED
      BY <2>3, <2>4, <2>5, <2>6 DEF ListOf, NotOn, u
  <1>2. CASE ~ \E i \in DOMAIN listed : listed[i].id = r.id
    BY <1>2 DEF Unlisted, ListOf, NotOn
  <1>3. QED
    BY <1>1, <1>2

\* A request put before a list it is not on, and the first n of them.
LEMMA PutFirst ==
    ASSUME NEW u, ListOf(u), NEW r \in Request, NotOn(u, r),
           NEW n \in 0 .. Len(u) + 1
    PROVE  ListOf(SubSeq(<<r>> \o u, 1, n)) /\ Len(SubSeq(<<r>> \o u, 1, n)) = n
  <1> DEFINE l == SubSeq(<<r>> \o u, 1, n)
  <1>1. /\ u \in Seq(Request) /\ Len(u) \in Nat /\ DOMAIN u = 1 .. Len(u)
        /\ \A i, j \in DOMAIN u : u[i].id = u[j].id => i = j
        /\ \A i \in DOMAIN u : u[i].id # r.id
    BY DEF ListOf, NotOn
  <1>2. l \in Seq(Request) /\ Len(l) = n
    BY ONLY <1>1, r \in Request, n \in 0 .. Len(u) + 1
  <1>3. \A k \in 1 .. n : l[k] = IF k = 1 THEN r ELSE u[k - 1]
    BY ONLY <1>1, r \in Request, n \in 0 .. Len(u) + 1
  <1> HIDE DEF l
  <1>4. DOMAIN l = 1 .. n /\ \A k \in 1 .. n : k # 1 => k - 1 \in DOMAIN u
    BY ONLY <1>1, <1>2, n \in 0 .. Len(u) + 1
  <1>5. ASSUME NEW i \in 1 .. n, NEW j \in 1 .. n, l[i].id = l[j].id
        PROVE  i = j
    <2>1. n \in Nat /\ i \in Nat /\ j \in Nat
      BY ONLY <1>1, n \in 0 .. Len(u) + 1, i \in 1 .. n, j \in 1 .. n
    <2>2. \A k \in {i, j} : \/ k = 1 /\ l[k] = r
                            \/ k # 1 /\ k - 1 \in DOMAIN u /\ l[k] = u[k - 1]
      BY ONLY <1>3, <1>4, i \in 1 .. n, j \in 1 .. n
    <2>3. CASE i = 1 \/ j = 1
      BY ONLY <1>1, <1>5, <2>2, <2>3
    <2>4. CASE i # 1 /\ j # 1
      <3>1. /\ i - 1 \in DOMAIN u /\ j - 1 \in DOMAIN u
            /\ u[i - 1].id = u[j - 1].id
        BY ONLY <1>5, <2>2, <2>4
      <3>2. i - 1 = j - 1
        BY ONLY <1>1, <3>1
      <3>3. QED
        BY ONLY <2>1, <3>2
    <2>5. QED
      BY <2>3, <2>4
  <1>6. ListOf(l)
    BY <1>2, <1>4, <1>5 DEF ListOf
  <1>7. QED
    BY <1>2, <1>6 DEF l

LEMMA AddRemoveType ==
    ASSUME NEW g \in Grants, NEW m \in Member, NEW f \in Feature
    PROVE  /\ Add(g, m, f) \in Grants
           /\ Without(g, m, f) \in Grants
           /\ \A x \in Member :
                 /\ Add(g, m, f)[x] = IF x = m THEN g[x] \cup {f} ELSE g[x]
                 /\ Without(g, m, f)[x] = IF x = m THEN g[x] \ {f} ELSE g[x]
  BY DEF Add, Without, Grants

\* A change that nobody will be told of is a change.
LEMMA UnheededType ==
    ASSUME NEW d \in Decision
    PROVE  /\ Unheeded(d) \in Decision
           /\ Unheeded(d).at = d.at /\ Unheeded(d).approved = d.approved
           /\ Unheeded(d).request.from = d.request.from
           /\ Unheeded(d).request.feature = d.request.feature
  BY DEF Decision, Unheeded, Request, Silent

\* Writing grants that were read: what the server has known it goes on knowing, and it
\* knows of what was decided.
LEMMA ApplyKnows ==
    ASSUME PermTypes, WireTypes, NEW d \in deciding, Apply(d)
    PROVE  /\ granted' \in Grants /\ undone' \in Grants /\ lost' \in Grants
           /\ \A m \in Member : granted'[m] \cap (undone'[m] \cup lost'[m]) = {}
           /\ \A m \in Member : granted[m] \cup undone[m] \cup lost[m]
                                    \subseteq granted'[m] \cup undone'[m] \cup lost'[m]
           /\ d.request.feature
                \in granted'[d.request.from] \cup undone'[d.request.from] \cup lost'[d.request.from]
  <1> DEFINE m == d.request.from
             f == d.request.feature
             kept == IF d.approved THEN d.held \cup {f} ELSE d.held \ {f}
  <1>1. m \in Member /\ f \in Feature /\ d.held \subseteq Feature
    BY DEF WireTypes, Decision, Request
  <1>2. kept \subseteq Feature
    BY <1>1
  <1>3. /\ granted' = [granted EXCEPT ![m] = kept]
        /\ undone' = [undone EXCEPT ![m] = (undone[m] \cup {f}) \ kept]
        /\ lost' = [lost EXCEPT ![m] = (lost[m] \cup (granted[m] \ {f})) \ kept]
    BY DEF Apply
  <1> HIDE DEF m, f, kept
  <1>4. granted \in Grants /\ undone \in Grants /\ lost \in Grants
        /\ \A x \in Member : granted[x] \cap (undone[x] \cup lost[x]) = {}
    BY DEF PermTypes
  <1>5. granted' \in Grants /\ undone' \in Grants /\ lost' \in Grants
    BY <1>1, <1>2, <1>3, <1>4 DEF Grants
  <1>6. \A x \in Member :
           /\ granted'[x] = IF x = m THEN kept ELSE granted[x]
           /\ undone'[x] = IF x = m THEN (undone[x] \cup {f}) \ kept ELSE undone[x]
           /\ lost'[x] = IF x = m THEN (lost[x] \cup (granted[x] \ {f})) \ kept ELSE lost[x]
    BY <1>1, <1>3, <1>4 DEF Grants
  <1>7. ASSUME NEW x \in Member
        PROVE  /\ granted'[x] \cap (undone'[x] \cup lost'[x]) = {}
               /\ granted[x] \cup undone[x] \cup lost[x]
                      \subseteq granted'[x] \cup undone'[x] \cup lost'[x]
    <2>1. CASE x = m
      <3>1. /\ granted'[x] = kept /\ undone'[x] = (undone[x] \cup {f}) \ kept
            /\ lost'[x] = (lost[x] \cup (granted[x] \ {f})) \ kept
        BY <1>6, <2>1
      <3>2. QED
        BY ONLY <3>1
    <2>2. CASE x # m
      BY <1>4, <1>6, <2>2
    <2>3. QED
      BY <2>1, <2>2
  <1>8. f \in granted'[m] \cup undone'[m] \cup lost'[m]
    BY <1>1, <1>6
  <1>9. QED
    BY <1>5, <1>7, <1>8 DEF m, f

LEMMA TypeStep == RequestTypeOK /\ [RequestNext]_requestVars => RequestTypeOK'
  <1> SUFFICES ASSUME PermTypes, ListTypes, WireTypes, [RequestNext]_requestVars
               PROVE  PermTypes' /\ ListTypes' /\ WireTypes'
    BY RequestTypes DEF RequestTypeOK, PermTypes, Grants, ListTypes, ListOf, WireTypes
  <1> USE StageRequestAssumption, StageRoomAssumption
  <1>1. ASSUME NEW p \in Page, Enter(p) PROVE PermTypes' /\ ListTypes' /\ WireTypes'
    <2>1. p # Host => p \in Member
      BY DEF Page
    <2>2. PermTypes'
      BY <1>1, <2>1 DEF Enter, grants, PermTypes, Grants
    <2>3. QED
      BY <1>1, <2>2 DEF Enter, ListTypes, WireTypes
  <1>2. ASSUME NEW p \in Page, Drop(p) PROVE PermTypes' /\ ListTypes' /\ WireTypes'
    <2>1. PermTypes'
      <3>1. p # Host => p \in Member
        BY DEF Page
      <3>2. UNCHANGED <<granted, undone, lost, allowed>> /\ inRoom' = inRoom \ {p}
            /\ (pending' = pending \/ (p # Host /\ pending' = [pending EXCEPT ![p] = {}]))
        BY <1>2 DEF Drop, grants
      <3>3. pending' \in Grants
        BY <3>1, <3>2 DEF PermTypes, Grants
      <3>4. QED
        BY <3>2, <3>3 DEF PermTypes
    <2>2. ListTypes'
      <3>1. CASE listed' = <<>>
        BY <3>1 DEF ListTypes, ListOf
      <3>2. CASE listed' = listed
        BY <3>2 DEF ListTypes, ListOf
      <3>3. QED
        BY <1>2, <3>1, <3>2 DEF Drop
    <2>3. wire' \subseteq wire
      BY <1>2 DEF Drop
    <2>4. \A d \in deciding' : \/ d \in deciding
                               \/ \E e \in deciding : e.at # "applied" /\ d = Unheeded(e)
      BY <1>2 DEF Drop
    <2>5. WireTypes'
      BY <2>3, <2>4, UnheededType DEF WireTypes
    <2>6. QED
      BY <2>1, <2>2, <2>5
  <1>3. ASSUME NEW m \in Member, NEW f \in Feature, Ask(m, f)
        PROVE  PermTypes' /\ ListTypes' /\ WireTypes'
    <2>1. PICK id \in 1 .. MaxOpen :
             wire' = wire \cup {[to |-> h, request |-> [id |-> id, from |-> m, feature |-> f],
                                 says |-> "request"] : h \in inRoom \cap {Host}}
      BY <1>3 DEF Ask
    <2>2. WireTypes'
      BY <1>3, <2>1 DEF Ask, WireTypes, Message, Request, Page
    <2>3. PermTypes'
      <3>1. pending' = Add(pending, m, f) /\ UNCHANGED <<inRoom, granted, undone, lost, allowed>>
        BY <1>3 DEF Ask, grants
      <3>2. pending' \in Grants
        BY <3>1, AddRemoveType DEF PermTypes
      <3>3. QED
        BY <3>1, <3>2 DEF PermTypes
    <2>4. QED
      BY <1>3, <2>2, <2>3 DEF Ask, ListTypes
  <1>4. ASSUME NEW m \in Member, NEW f \in Feature, TakeBack(m, f)
        PROVE  PermTypes' /\ ListTypes' /\ WireTypes'
    <2>1. [request |-> [id |-> Silent, from |-> m, feature |-> f], approved |-> FALSE,
           at |-> "read", held |-> granted[m]] \in Decision
      <3>1. granted[m] \in SUBSET Feature
        BY DEF PermTypes, Grants
      <3>2. [id |-> Silent, from |-> m, feature |-> f]
                \in Request \cup [id : {Silent}, from : Member, feature : Feature]
        OBVIOUS
      <3>3. QED
        BY ONLY <3>1, <3>2 DEF Decision
    <2>2. PICK e \in Decision : e.at = "read" /\ deciding' = deciding \cup {e}
      BY <1>4, <2>1 DEF TakeBack, Change
    <2>3. WireTypes'
      BY <1>4, <2>2 DEF TakeBack, WireTypes
    <2>4. QED
      BY <1>4, <2>3 DEF TakeBack, grants, PermTypes, ListTypes
  <1>5. ASSUME NEW w \in wire, HostHears(w)
        PROVE  PermTypes' /\ ListTypes' /\ WireTypes'
    <2>1. PermTypes' /\ WireTypes'
      BY <1>5 DEF HostHears, grants, PermTypes, WireTypes
    <2>2. ListTypes'
      <3> DEFINE u == Unlisted(w.request)
                 n == IF Len(u) < MaxListed THEN Len(u) + 1 ELSE MaxListed
      <3>1. ListOf(u) /\ NotOn(u, w.request)
        BY UnlistedIsList DEF ListTypes
      <3>2. w.request \in Request
        BY DEF WireTypes, Message
      <3>3. listed' = SubSeq(<<w.request>> \o u, 1, n)
        BY <1>5 DEF HostHears
      <3> HIDE DEF u
      <3>4. n \in 0 .. Len(u) + 1 /\ n <= MaxListed
        BY <3>1 DEF ListOf
      <3> HIDE DEF n
      <3>5. ListOf(listed') /\ Len(listed') = n
        <4> DEFINE l == SubSeq(<<w.request>> \o u, 1, n)
        <4>1. ListOf(l) /\ Len(l) = n
          BY <3>1, <3>2, <3>4, PutFirst
        <4>2. QED
          BY <3>3, <4>1
      <3>6. QED
        BY <3>4, <3>5 DEF ListTypes, ListOf
    <2>3. QED
      BY <2>1, <2>2
  <1>6. ASSUME NEW w \in wire, MemberHears(w)
        PROVE  PermTypes' /\ ListTypes' /\ WireTypes'
    <2>1. w.request.feature \in Feature /\ w.request.from \in Member
      BY DEF WireTypes, Message, Request
    <2>2. PermTypes'
      <3>1. UNCHANGED <<inRoom, granted, undone, lost>>
            /\ pending' \in {pending, Without(pending, w.request.from, w.request.feature)}
            /\ allowed' \in {allowed, Add(allowed, w.request.from, w.request.feature)}
        BY <1>6 DEF MemberHears, grants
      <3>2. pending' \in Grants /\ allowed' \in Grants
        <4>1. /\ Without(pending, w.request.from, w.request.feature) \in Grants
              /\ Add(allowed, w.request.from, w.request.feature) \in Grants
          BY <2>1, AddRemoveType DEF PermTypes
        <4>2. QED
          BY <3>1, <4>1 DEF PermTypes
      <3>3. QED
        BY <3>1, <3>2 DEF PermTypes
    <2>3. QED
      BY <1>6, <2>2 DEF MemberHears, ListTypes, WireTypes
  <1>7. ASSUME NEW i \in 1 .. MaxListed, NEW approved \in BOOLEAN, Decide(i, approved)
        PROVE  PermTypes' /\ ListTypes' /\ WireTypes'
    <2>1. listed[i] \in Request
      BY <1>7 DEF Decide, ListTypes, ListOf
    <2>2. WireTypes'
      BY <1>7, <2>1 DEF Decide, Change, WireTypes, Decision
    <2>3. QED
      BY <1>7, <2>2 DEF Decide, grants, PermTypes, ListTypes
  <1>8. ASSUME NEW d \in deciding, ReadGrants(d)
        PROVE  PermTypes' /\ ListTypes' /\ WireTypes'
    <2>1. [d EXCEPT !.at = "read", !.held = granted[d.request.from]] \in Decision
      BY DEF WireTypes, PermTypes, Grants, Decision, Request
    <2>2. [d EXCEPT !.at = "read", !.held = granted[d.request.from]].at = "read"
      BY DEF WireTypes, Decision
    <2>3. WireTypes'
      BY <1>8, <2>1, <2>2 DEF ReadGrants, WireTypes
    <2>4. QED
      BY <1>8, <2>3 DEF ReadGrants, grants, PermTypes, ListTypes
  <1>9. ASSUME NEW d \in deciding, Apply(d)
        PROVE  PermTypes' /\ ListTypes' /\ WireTypes'
    <2>1. PermTypes'
      BY <1>9, ApplyKnows DEF Apply, PermTypes
    <2>2. [d EXCEPT !.at = "applied", !.held = {}] \in Decision
          /\ [d EXCEPT !.at = "applied", !.held = {}].request = d.request
      BY DEF WireTypes, Decision
    <2>3. WireTypes'
      BY <1>9, <2>2 DEF Apply, WireTypes
    <2>4. QED
      BY <1>9, <2>1, <2>3 DEF Apply, ListTypes
  <1>10. ASSUME NEW d \in deciding, Announce(d)
         PROVE  PermTypes' /\ ListTypes' /\ WireTypes'
    <2>1. ListTypes'
      <3>1. listed' = Unlisted(d.request)
        BY <1>10 DEF Announce
      <3>2. ListOf(Unlisted(d.request)) /\ Len(Unlisted(d.request)) <= Len(listed)
        BY UnlistedIsList DEF ListTypes
      <3>3. Len(Unlisted(d.request)) <= MaxListed
        BY <3>2 DEF ListTypes, ListOf
      <3>4. QED
        BY <3>1, <3>2, <3>3 DEF ListTypes, ListOf
    <2>2. d.request \in Request
      BY <1>10 DEF Announce, WireTypes, Decision
    <2>3. WireTypes'
      BY <1>10, <2>2 DEF Announce, PermTypes, WireTypes, Message
    <2>4. QED
      BY <1>10, <2>1, <2>3 DEF Announce, grants, PermTypes
  <1>11. ASSUME NEW d \in deciding, GiveUp(d)
         PROVE  PermTypes' /\ ListTypes' /\ WireTypes'
    <2>1. \/ deciding' = deciding \ {d}
          \/ d.at # "applied" /\ deciding' = (deciding \ {d}) \cup {Unheeded(d)}
      BY <1>11 DEF GiveUp
    <2>2. WireTypes'
      BY <1>11, <2>1, UnheededType DEF GiveUp, WireTypes
    <2>3. QED
      BY <1>11, <2>2 DEF GiveUp, grants, PermTypes, ListTypes
  <1>12. CASE UNCHANGED requestVars
    BY <1>12 DEF requestVars, grants, PermTypes, ListTypes, WireTypes
  <1>13. QED
    BY <1>1, <1>2, <1>3, <1>4, <1>5, <1>6, <1>7, <1>8, <1>9, <1>10, <1>11, <1>12 DEF RequestNext

\* The two ends of the protocol keep their shape: what a member has been granted is not
\* among what was taken back or lost, no request is on the host's list twice, the list
\* keeps its limit, and only a request is ever announced, for any members, features and
\* limits.
THEOREM RequestTyped == RequestSpec => []RequestTypeOK
  <1>1. RequestInit => RequestTypeOK
    <2> SUFFICES ASSUME RequestInit PROVE PermTypes /\ ListTypes /\ WireTypes
      BY RequestTypes
    <2>1. PermTypes /\ WireTypes
      BY DEF RequestInit, PermTypes, Grants, WireTypes, Nothing, Page
    <2>2. ListTypes
      BY StageRequestAssumption DEF RequestInit, ListTypes, ListOf
    <2>3. QED
      BY <2>1, <2>2
  <1>2. QED
    BY <1>1, TypeStep, PTL DEF RequestSpec

(***************************************************************************)
(* ApprovalBacked.  An approval takes four steps to reach the page of a    *)
(* member, and the server may change its mind, or lose it, at each: what   *)
(* is carried along is that it has known of the permission.                *)
(***************************************************************************)
\* What the server has granted, taken back since, or lost.
Known(m) == granted[m] \cup undone[m] \cup lost[m]

\* An approval that the API has answered, and one on its way, is known.
AppliedBacked ==
    \A d \in deciding : d.at = "applied" /\ d.approved => d.request.feature \in Known(d.request.from)
WireBacked ==
    \A w \in wire : w.says = "approved" => w.request.feature \in Known(w.request.from)

BackedInv == RequestTypeOK /\ ApprovalBacked /\ AppliedBacked /\ WireBacked

\* What a step has to show when the grants are as they were.
LEMMA StillBacked ==
    ASSUME BackedInv, UNCHANGED grants,
           ApprovalBacked',
           \A d \in deciding' : d \in deciding \/ d.at # "applied",
           wire' \subseteq wire
    PROVE  ApprovalBacked' /\ AppliedBacked' /\ WireBacked'
  BY DEF BackedInv, AppliedBacked, WireBacked, Known, grants

LEMMA BackedStep == BackedInv /\ RequestTypeOK' /\ [RequestNext]_requestVars => BackedInv'
  <1> SUFFICES ASSUME BackedInv, RequestTypeOK', [RequestNext]_requestVars
               PROVE  ApprovalBacked' /\ AppliedBacked' /\ WireBacked'
    BY DEF BackedInv
  <1>0. PermTypes /\ WireTypes /\ ApprovalBacked /\ AppliedBacked /\ WireBacked
    BY RequestTypes DEF BackedInv
  <1>1. ASSUME NEW p \in Page, Enter(p) PROVE ApprovalBacked' /\ AppliedBacked' /\ WireBacked'
    <2>1. ApprovalBacked'
      BY <1>0, <1>1 DEF Enter, grants, PermTypes, Grants, ApprovalBacked
    <2>2. QED
      BY <1>1, <2>1, StillBacked DEF Enter
  <1>2. ASSUME NEW p \in Page, Drop(p) PROVE ApprovalBacked' /\ AppliedBacked' /\ WireBacked'
    <2>1. UNCHANGED <<grants, allowed>> /\ wire' \subseteq wire
      BY <1>2 DEF Drop
    <2>2. \A d \in deciding' : \/ d \in deciding
                               \/ \E e \in deciding : e.at # "applied" /\ d = Unheeded(e)
      BY <1>2 DEF Drop
    <2>3. \A d \in deciding' : d \in deciding \/ d.at # "applied"
      BY <1>0, <2>2, UnheededType DEF WireTypes
    <2>4. ApprovalBacked'
      BY <1>0, <2>1 DEF grants, ApprovalBacked
    <2>5. QED
      BY <2>1, <2>3, <2>4, StillBacked
  <1>3. ASSUME NEW m \in Member, NEW f \in Feature, Ask(m, f)
        PROVE  ApprovalBacked' /\ AppliedBacked' /\ WireBacked'
    <2>1. UNCHANGED <<granted, undone, lost, allowed, deciding>>
          /\ \A w \in wire' : w \in wire \/ w.says = "request"
      BY <1>3 DEF Ask, grants
    <2>2. QED
      BY <1>0, <2>1 DEF ApprovalBacked, AppliedBacked, WireBacked, Known
  <1>4. ASSUME NEW m \in Member, NEW f \in Feature, TakeBack(m, f)
        PROVE  ApprovalBacked' /\ AppliedBacked' /\ WireBacked'
    BY <1>0, <1>4, StillBacked DEF TakeBack, Change, grants, ApprovalBacked
  <1>5. ASSUME NEW w \in wire, HostHears(w) PROVE ApprovalBacked' /\ AppliedBacked' /\ WireBacked'
    BY <1>0, <1>5, StillBacked DEF HostHears, grants, ApprovalBacked
  <1>6. ASSUME NEW w \in wire, MemberHears(w)
        PROVE  ApprovalBacked' /\ AppliedBacked' /\ WireBacked'
    <2>1. UNCHANGED <<grants, deciding>> /\ wire' \subseteq wire
          /\ UNCHANGED <<granted, undone, lost>>
      BY <1>6 DEF MemberHears, grants
    <2>2. CASE allowed' = allowed
      BY <1>0, <2>1, <2>2, StillBacked DEF ApprovalBacked
    <2>3. CASE /\ w.to = w.request.from /\ w.says = "approved"
               /\ allowed' = Add(allowed, w.to, w.request.feature)
      <3>1. w.to \in Member /\ w.request.feature \in Feature /\ allowed \in Grants
        BY <1>0, <2>3 DEF PermTypes, WireTypes, Message, Request
      <3>2. w.request.feature \in Known(w.to)
        BY <1>0, <2>3 DEF WireBacked
      <3>3. ASSUME NEW x \in Member PROVE allowed'[x] \subseteq Known(x)
        <4>1. allowed'[x] = IF x = w.to THEN allowed[x] \cup {w.request.feature} ELSE allowed[x]
          <5>1. Add(allowed, w.to, w.request.feature)[x]
                    = IF x = w.to THEN allowed[x] \cup {w.request.feature} ELSE allowed[x]
            BY <3>1 DEF Add, Grants
          <5>2. QED
            BY ONLY <2>3, <5>1
        <4>2. allowed[x] \subseteq Known(x)
          BY <1>0 DEF ApprovalBacked, Known
        <4>3. QED
          BY <3>2, <4>1, <4>2
      <3>4. ApprovalBacked'
        BY <2>1, <3>3 DEF ApprovalBacked, Known
      <3>5. QED
        BY <2>1, <3>4, StillBacked
    <2>4. QED
      BY <1>6, <2>2, <2>3 DEF MemberHears
  <1>7. ASSUME NEW i \in 1 .. MaxListed, NEW approved \in BOOLEAN, Decide(i, approved)
        PROVE  ApprovalBacked' /\ AppliedBacked' /\ WireBacked'
    BY <1>0, <1>7, StillBacked DEF Decide, Change, grants, ApprovalBacked
  <1>8. ASSUME NEW d \in deciding, ReadGrants(d)
        PROVE  ApprovalBacked' /\ AppliedBacked' /\ WireBacked'
    <2>1. [d EXCEPT !.at = "read", !.held = granted[d.request.from]].at = "read"
      BY <1>0 DEF WireTypes, Decision
    <2>2. \A e \in deciding' : e \in deciding \/ e.at # "applied"
      BY <1>8, <2>1 DEF ReadGrants
    <2>3. QED
      BY <1>0, <1>8, <2>2, StillBacked DEF ReadGrants, grants, ApprovalBacked
  <1>9. ASSUME NEW d \in deciding, Apply(d)
        PROVE  ApprovalBacked' /\ AppliedBacked' /\ WireBacked'
    <2>1. /\ \A m \in Member : Known(m) \subseteq Known(m)'
          /\ d.request.feature \in Known(d.request.from)'
      BY <1>0, <1>9, ApplyKnows DEF Known
    <2>2. /\ UNCHANGED <<allowed, wire>>
          /\ \A e \in deciding' : \/ e \in deciding
                                  \/ e = [d EXCEPT !.at = "applied", !.held = {}]
      BY <1>9 DEF Apply
    <2>3. [d EXCEPT !.at = "applied", !.held = {}].request = d.request
      BY <1>0 DEF WireTypes, Decision
    <2>4. /\ \A e \in deciding : e.request.from \in Member
          /\ \A w \in wire : w.request.from \in Member
      BY <1>0 DEF WireTypes, Decision, Message, Request
    <2>5. AppliedBacked'
      BY <1>0, <2>1, <2>2, <2>3, <2>4 DEF AppliedBacked
    <2>6. WireBacked'
      BY <1>0, <2>1, <2>2, <2>4 DEF WireBacked
    <2>7. ApprovalBacked'
      BY <1>0, <2>1, <2>2 DEF ApprovalBacked, Known
    <2>8. QED
      BY <2>5, <2>6, <2>7
  <1>10. ASSUME NEW d \in deciding, Announce(d)
         PROVE  ApprovalBacked' /\ AppliedBacked' /\ WireBacked'
    <2>1. UNCHANGED <<granted, undone, lost, allowed>> /\ deciding' \subseteq deciding
      BY <1>10 DEF Announce, grants
    <2>2. \A w \in wire' : \/ w \in wire
                           \/ w.request = d.request /\ (w.says = "approved" => d.approved)
      BY <1>10 DEF Announce
    <2>3. d.at = "applied"
      BY <1>10 DEF Announce
    <2>4. WireBacked'
      BY <1>0, <2>1, <2>2, <2>3 DEF AppliedBacked, WireBacked, Known
    <2>5. QED
      BY <1>0, <2>1, <2>4 DEF ApprovalBacked, AppliedBacked, Known
  <1>11. ASSUME NEW d \in deciding, GiveUp(d)
         PROVE  ApprovalBacked' /\ AppliedBacked' /\ WireBacked'
    <2>1. \A e \in deciding' : e \in deciding \/ (e = Unheeded(d) /\ d.at # "applied")
      BY <1>11 DEF GiveUp
    <2>2. \A e \in deciding' : e \in deciding \/ e.at # "applied"
      BY <1>0, <2>1, UnheededType DEF WireTypes
    <2>3. QED
      BY <1>0, <1>11, <2>2, StillBacked DEF GiveUp, grants, ApprovalBacked
  <1>12. CASE UNCHANGED requestVars
    BY <1>0, <1>12, StillBacked DEF requestVars, grants, ApprovalBacked
  <1>13. QED
    BY <1>1, <1>2, <1>3, <1>4, <1>5, <1>6, <1>7, <1>8, <1>9, <1>10, <1>11, <1>12 DEF RequestNext

\* A member's page takes nothing for granted that the server has not had on record,
\* for any members, however many requests, decisions and changes there are at once.
THEOREM ApprovalsAreBacked == RequestSpec => []ApprovalBacked
  <1>1. RequestInit => BackedInv
    <2>1. RequestInit => ApprovalBacked /\ AppliedBacked /\ WireBacked
      BY DEF RequestInit, ApprovalBacked, AppliedBacked, WireBacked, Nothing
    <2>2. RequestInit => RequestTypeOK
      <3> SUFFICES ASSUME RequestInit PROVE PermTypes /\ ListTypes /\ WireTypes
        BY RequestTypes
      <3>1. PermTypes /\ WireTypes
        BY DEF RequestInit, PermTypes, Grants, WireTypes, Nothing, Page
      <3>2. ListTypes
        BY StageRequestAssumption DEF RequestInit, ListTypes, ListOf
      <3>3. QED
        BY <3>1, <3>2
    <2>3. QED
      BY <2>1, <2>2 DEF BackedInv
  <1>2. BackedInv /\ [RequestNext]_requestVars => BackedInv'
    BY BackedStep, TypeStep DEF BackedInv
  <1>3. BackedInv => ApprovalBacked
    BY DEF BackedInv
  <1>4. QED
    BY <1>1, <1>2, <1>3, PTL DEF RequestSpec

(***************************************************************************)
(* OneLayout.  Beside the layout itself the invariant says that the        *)
(* theatre is over when the media are: InTheatre is derived from both.     *)
(***************************************************************************)
LayoutInv ==
    /\ view \in View
    /\ ~(view.theater /\ view.dominant)
    /\ view.theater => Visual
    /\ view.control \/ view.chat => view.theater
    /\ ~(view.control /\ view.chat)
    /\ view.isFullscreen => view.document

LEMMA LayoutInit == Init => LayoutInv
BY DEF Init, LayoutInv, View

\* The effects leave a layout, whatever they find.
LEMMA SettledLayout ==
    ASSUME NEW v \in View, NEW visual \in BOOLEAN, ~(v.theater /\ v.dominant),
           ~(v.control /\ v.chat), v.isFullscreen => v.document
    PROVE  LET w == Settled(v, visual) IN
           /\ w \in View
           /\ ~(w.theater /\ w.dominant) /\ (w.theater => visual)
           /\ (w.control \/ w.chat => w.theater) /\ ~(w.control /\ w.chat)
           /\ w.isFullscreen => w.document
BY DEF Settled, View

LEMMA VisualStays == OnlyView => (Visual' <=> Visual)
BY DEF OnlyView, stage, Visual

LEMMA LayoutStep == LayoutInv /\ [Next]_vars => LayoutInv'
  <1> SUFFICES ASSUME LayoutInv, [Next]_vars PROVE LayoutInv'
    OBVIOUS
  <1> USE DEF LayoutInv
  <1>0. Visual \in BOOLEAN /\ Visual' \in BOOLEAN
    BY DEF Visual
  <1>1. CASE StageStep
    <2>1. CASE (Visual' <=> Visual) /\ view' = view
      BY <2>1
    <2>2. CASE view' = Settled(view, Visual')
      BY <2>2, <1>0, SettledLayout
    <2>3. QED
      BY <1>0, <1>1, <2>1, <2>2 DEF StageStep
  <1>2. CASE FocusStage
    <2> DEFINE v == [view EXCEPT !.dominant = FALSE, !.theater = ~@]
    <2>1. v \in View /\ ~v.dominant /\ ~(v.control /\ v.chat) /\ (v.isFullscreen => v.document)
      BY DEF View
    <2>2. view' = Settled(v, TRUE) /\ Visual'
      BY <1>2, VisualStays DEF FocusStage, Show
    <2>3. QED
      BY <1>0, <2>1, <2>2, SettledLayout
  <1>3. CASE AskEnter
    <2> DEFINE v == [view EXCEPT !.dominant = FALSE, !.theater = TRUE]
    <2>1. v \in View /\ ~v.dominant /\ ~(v.control /\ v.chat) /\ (v.isFullscreen => v.document)
      BY DEF View
    <2>2. view' = Settled(v, TRUE) /\ Visual'
      BY <1>3, VisualStays DEF AskEnter, Show
    <2>3. QED
      BY <1>0, <2>1, <2>2, SettledLayout
  <1>4. CASE AskExit \/ \E kind \in {"enter", "exit"} : Refused(kind)
    BY <1>4, VisualStays DEF AskExit, Refused
  <1>5. CASE Entered
    BY <1>5, VisualStays DEF Entered, View
  <1>6. CASE Exited \/ Escape
    <2>1. Left \in View /\ ~Left.theater /\ ~Left.isFullscreen /\ ~(Left.control /\ Left.chat)
      BY DEF Left, View
    <2>2. view' = Settled(Left, Visual)
      BY <1>6 DEF Exited, Escape
    <2>3. QED
      BY <1>0, <1>6, <2>1, <2>2, SettledLayout, VisualStays DEF Exited, Escape
  <1>7. CASE Unfocus
    BY <1>7, VisualStays DEF Unfocus, View
  <1>8. CASE Focus
    <2>1. CASE UNCHANGED view
      BY <1>8, <2>1, VisualStays DEF Focus
    <2>2. CASE Show(Focused(view))
      <3> DEFINE v == Focused(view)
      <3>1. v \in View /\ ~v.theater /\ ~v.isFullscreen /\ ~(v.control /\ v.chat)
        BY DEF Focused, View
      <3>2. view' = Settled(v, TRUE) /\ Visual'
        BY <1>8, <2>2, VisualStays DEF Focus, Show
      <3>3. QED
        BY <1>0, <3>1, <3>2, SettledLayout
    <2>3. QED
      BY <1>8, <2>1, <2>2 DEF Focus
  <1>9. CASE FocusGoesOn
    BY <1>9, VisualStays DEF FocusGoesOn, Focused, Left, View
  <1>10. CASE ToggleControl
    BY <1>10, VisualStays DEF ToggleControl, InTheatre, View
  <1>11. CASE ToggleChat
    BY <1>11, VisualStays DEF ToggleChat, InTheatre, View
  <1>12. CASE UNCHANGED vars
    BY <1>12 DEF vars, stage, Visual
  <1>13. QED
    BY <1>1, <1>2, <1>3, <1>4, <1>5, <1>6, <1>7, <1>8, <1>9, <1>10, <1>11, <1>12 DEF Next

\* The layout is one layout, whatever the stage does to it.
THEOREM LayoutStaysOne == Spec => []OneLayout
  <1>1. LayoutInv => OneLayout
    BY DEF LayoutInv, OneLayout, InTheatre
  <1>2. QED
    BY LayoutInit, LayoutStep, <1>1, PTL DEF Spec

\* The media on the stage are those of pages in the room, and the page's own state has
\* its shape, whatever members and features there are.
THEOREM TypeCorrect == Spec => []TypeOK
  <1>1. Init => TypeOK
    BY LayoutInit DEF Init, LayoutInv, TypeOK, Page
  <1>2. TypeOK /\ LayoutInv' /\ [Next]_vars => TypeOK'
    <2> SUFFICES ASSUME TypeOK, LayoutInv', [Next]_vars PROVE TypeOK'
      OBVIOUS
    <2>1. viewer' \in Page /\ asks' \subseteq {"enter", "exit", "focus"} /\ view' \in View
      BY DEF TypeOK, LayoutInv, Next, vars, StageStep, OnlyView, FocusStage, AskEnter, AskExit,
         Entered, Exited, Escape, Refused, Unfocus, Focus, FocusGoesOn, ToggleControl, ToggleChat
    <2> DEFINE Stage == /\ inRoom \subseteq Page /\ ingress \in BOOLEAN
                        /\ tracks \in [Page -> SUBSET Feature]
                        /\ \A p \in Page \ inRoom : tracks[p] = {}
    <2>2. Stage'
      <3>1. ASSUME NEW p \in Page, Connect(p) \/ Disconnect(p) PROVE Stage'
        BY <3>1 DEF TypeOK, Connect, Disconnect
      <3>2. ASSUME NEW p \in Page, NEW f \in Feature, Publish(p, f) \/ Unpublish(p, f)
            PROVE  Stage'
        BY <3>2 DEF TypeOK, Publish, Unpublish, Add, Without
      <3>3. CASE Ingress
        BY <3>3 DEF TypeOK, Ingress
      <3>4. CASE UNCHANGED stage
        BY <3>4 DEF TypeOK, stage
      <3>5. QED
        BY <3>1, <3>2, <3>3, <3>4 DEF Next, vars, StageStep, StageNext, OnlyView, FocusStage,
           AskEnter, AskExit, Entered, Exited, Escape, Refused, Unfocus, Focus, FocusGoesOn,
           ToggleControl, ToggleChat
    <2>3. QED
      BY <2>1, <2>2 DEF TypeOK
  <1>3. QED
    BY <1>1, <1>2, LayoutInit, LayoutStep, PTL DEF Spec
-----------------------------------------------------------------------------
(***************************************************************************)
(* The page of a host: HostPage, for any bound on the calls under way.     *)
(*                                                                         *)
(* That a flag never stays up by itself rests on three things: only a join *)
(* is ever a retry, so that no other call that ends can take a flag of     *)
(* "reclaiming" with it; a call of a mounted hook that ends takes down the *)
(* flags it holds up; and a hook that is not mounted has no calls, so that *)
(* nothing of what an earlier hook began is the next one's.                *)
(***************************************************************************)
\* The calls of a sequence: known ones, within the bound, and only a join is a retry.
RunFits(cs) ==
    /\ cs \in Seq(Call)
    /\ \A s \in DOMAIN cs : /\ cs[s].at \in Stages[cs[s].kind]
                            /\ cs[s].retry => cs[s].kind = "join"

MineRuns(cs, kind) == \E s \in DOMAIN cs : cs[s].kind = kind /\ cs[s].mine
MineRetries(cs) == \E s \in DOMAIN cs : cs[s].retry /\ cs[s].mine

\* What of a hook has a call behind it.
Backed(h, cs) ==
    /\ h.joining => MineRuns(cs, "join")
    /\ h.reclaiming => MineRuns(cs, "reclaim") \/ MineRetries(cs)
    /\ h.loading => h.list \/ MineRuns(cs, "refresh")

HookState == [unlocked : BOOLEAN, ticket : BOOLEAN, joining : BOOLEAN, reclaiming : BOOLEAN,
          cta : BOOLEAN, shown : BOOLEAN, loading : BOOLEAN, current : BOOLEAN, list : BOOLEAN]

\* What a hook owes the page it is on.
ToolsFit(h, in, as, at) ==
    /\ h \in HookState
    /\ at = "off" => h = Fresh
    /\ ~in => ~(h.current \/ h.list)
    /\ h.cta => h.unlocked \/ (as /\ ~h.ticket)

PlaceFits(in, at) == in \in BOOLEAN /\ at \in {"main", "off", "drawer"} /\ (~in => at = "main")

HInv ==
    /\ {held, asHost} \subseteq BOOLEAN
    /\ PlaceFits(joined, layout)
    /\ ToolsFit(hook, joined, asHost, layout)
    /\ RunFits(calls) /\ Len(calls) <= MaxUnderWay
    /\ layout = "off" => \A s \in DOMAIN calls : ~calls[s].mine
    /\ Backed(hook, calls)

\* The invariant has the types and the property in it.
LEMMA HInvMeans ==
    ASSUME HInv
    PROVE  HostTypeOK /\ BusyMeansBusy
  <1>1. HostTypeOK
    BY DEF HInv, PlaceFits, ToolsFit, HookState, RunFits, HostTypeOK, HostForm
  <1>2. BusyMeansBusy
    BY DEF HInv, Backed, MineRuns, MineRetries, BusyMeansBusy
  <1>3. QED
    BY <1>1, <1>2
-----------------------------------------------------------------------------
\* One call off a sequence: the others stay.
LEMMA OneEnds ==
    ASSUME NEW T, NEW cs \in Seq(T), NEW s \in DOMAIN cs
    PROVE  /\ RemoveAt(cs, s) \in Seq(T) /\ Len(RemoveAt(cs, s)) = Len(cs) - 1
           /\ \A i \in DOMAIN RemoveAt(cs, s) : \E j \in DOMAIN cs : RemoveAt(cs, s)[i] = cs[j]
           /\ \A j \in DOMAIN cs : j # s =>
                 \E i \in DOMAIN RemoveAt(cs, s) : RemoveAt(cs, s)[i] = cs[j]
  <1> DEFINE u == RemoveAt(cs, s)
  <1>1. u = SubSeq(cs, 1, s - 1) \o SubSeq(cs, s + 1, Len(cs))
    BY DEF RemoveAt
  <1>2. Len(cs) \in Nat /\ DOMAIN cs = 1 .. Len(cs) /\ s \in 1 .. Len(cs)
    OBVIOUS
  <1> HIDE DEF u
  <1>3. /\ u \in Seq(T) /\ Len(u) = Len(cs) - 1 /\ DOMAIN u = 1 .. Len(cs) - 1
        /\ \A k \in DOMAIN u : u[k] = IF k < s THEN cs[k] ELSE cs[k + 1]
    <2>1. /\ u \in Seq(T) /\ Len(u) = Len(cs) - 1
          /\ \A k \in 1 .. Len(u) : u[k] = IF k < s THEN cs[k] ELSE cs[k + 1]
      BY <1>1, <1>2, CutSeq
    <2>2. QED
      BY <2>1
  <1>4. \A i \in DOMAIN u : \E j \in DOMAIN cs : u[i] = cs[j]
    <2>1. \A i \in DOMAIN u : i \in DOMAIN cs /\ i + 1 \in DOMAIN cs
      BY ONLY <1>2, <1>3
    <2>2. QED
      BY <1>3, <2>1
  <1>5. ASSUME NEW j \in DOMAIN cs, j # s
        PROVE  \E i \in DOMAIN u : u[i] = cs[j]
    <2>1. CASE j < s
      <3>1. j \in DOMAIN u /\ u[j] = cs[j]
        BY <1>2, <1>3, <2>1
      <3>2. QED
        BY <3>1
    <2>2. CASE j > s
      <3>1. j - 1 \in DOMAIN u /\ ~(j - 1 < s) /\ j - 1 + 1 = j
        BY <1>2, <1>3, <2>2
      <3>2. u[j - 1] = cs[j]
        BY <1>3, <3>1
      <3>3. QED
        BY <3>1, <3>2
    <2>3. QED
      BY <1>2, <1>5, <2>1, <2>2
  <1>6. QED
    BY <1>3, <1>4, <1>5 DEF u

\* The stages tell the kinds apart.
LEMMA StagesOf ==
    ASSUME NEW c \in Call, c.at \in Stages[c.kind]
    PROVE  /\ c.kind \in {"join", "reclaim", "leave", "refresh", "issue", "revoke", "start", "stop"}
           /\ c.at \in {"login", "join", "admitted", "reclaim", "again", "lookup"} <=> c.kind = "join"
           /\ c.at = "issue" => c.kind = "start"
           /\ c.at = "list" => c.kind \in {"refresh", "issue"}
  <1>1. c.kind \in DOMAIN Stages
    BY DEF Call
  <1>2. c.kind \in {"join", "reclaim", "leave", "refresh", "issue", "revoke", "start", "stop"}
    BY <1>1 DEF Stages
  <1>3. /\ Stages["join"] = {"login", "join", "admitted", "reclaim", "again", "lookup"}
        /\ Stages["reclaim"] = {"sent"} /\ Stages["leave"] = {"sent"}
        /\ Stages["refresh"] = {"list"} /\ Stages["issue"] = {"sent", "list"}
        /\ Stages["revoke"] = {"sent"} /\ Stages["start"] = {"issue", "sent"}
        /\ Stages["stop"] = {"sent"}
    BY DEF Stages
  <1>4. QED
    BY <1>2, <1>3

\* The stages that each kind of call goes through.
LEMMA StageOk ==
    ASSUME NEW k, NEW at,
           \/ k = "join" /\ at \in {"login", "join", "admitted", "reclaim", "again", "lookup"}
           \/ k = "issue" /\ at \in {"sent", "list"}
           \/ k = "start" /\ at \in {"issue", "sent"}
           \/ k = "refresh" /\ at = "list"
           \/ k \in {"reclaim", "leave", "revoke", "stop"} /\ at = "sent"
    PROVE  /\ k \in DOMAIN Stages /\ at \in Stages[k]
           /\ at \in UNION {Stages[x] : x \in DOMAIN Stages}
  <1>1. k \in DOMAIN Stages /\ at \in Stages[k]
    BY DEF Stages
  <1>2. QED
    BY <1>1

NoneMine(cs) == \A s \in DOMAIN cs : ~cs[s].mine

Good(c) == /\ c \in Call /\ c.at \in Stages[c.kind]
           /\ c.retry => c.kind = "join"

\* What a button begins is a call.
LEMMA NewIsGood ==
    ASSUME NEW k, NEW at, k \in DOMAIN Stages, at \in Stages[k]
    PROVE  /\ Good(New(k, at))
           /\ New(k, at).kind = k /\ New(k, at).mine = TRUE
           /\ New(k, at).retry = FALSE
  BY DEF New, Good, Call

\* One call more: whatever ran before runs still.
LEMMA OneBegins ==
    ASSUME NEW cs, RunFits(cs), NEW c, Good(c)
    PROVE  /\ RunFits(Append(cs, c)) /\ Len(Append(cs, c)) = Len(cs) + 1
           /\ c.mine => MineRuns(Append(cs, c), c.kind)
           /\ \A k : MineRuns(cs, k) => MineRuns(Append(cs, c), k)
           /\ MineRetries(cs) => MineRetries(Append(cs, c))
  <1> DEFINE u == Append(cs, c)
  <1>1. /\ cs \in Seq(Call) /\ Len(cs) \in Nat /\ DOMAIN cs = 1 .. Len(cs)
        /\ u \in Seq(Call) /\ Len(u) = Len(cs) + 1 /\ DOMAIN u = 1 .. Len(cs) + 1
        /\ u[Len(cs) + 1] = c /\ Len(cs) + 1 \in DOMAIN u
        /\ \A i \in DOMAIN cs : u[i] = cs[i] /\ i \in DOMAIN u
    BY DEF RunFits, Good
  <1> HIDE DEF u
  <1>2. \A i \in DOMAIN u : i \in DOMAIN cs \/ i = Len(cs) + 1
    BY <1>1
  <1>3. RunFits(u)
    BY <1>1, <1>2 DEF RunFits, Good
  <1>4. QED
    BY <1>1, <1>3 DEF MineRuns, MineRetries, u

\* One call goes on to another stage: the others run still.
LEMMA OneGoes ==
    ASSUME NEW cs, RunFits(cs), NEW s \in DOMAIN cs, NEW c, Good(c)
    PROVE  LET u == [cs EXCEPT ![s] = c] IN
           /\ RunFits(u) /\ Len(u) = Len(cs)
           /\ c.mine => MineRuns(u, c.kind) /\ (c.retry => MineRetries(u))
           /\ \A k : MineRuns(cs, k) => MineRuns(u, k) \/ (cs[s].mine /\ cs[s].kind = k)
           /\ MineRetries(cs) => MineRetries(u) \/ (cs[s].mine /\ cs[s].retry)
           /\ NoneMine(cs) /\ ~c.mine => NoneMine(u)
  <1> DEFINE u == [cs EXCEPT ![s] = c]
  <1>1. /\ u \in Seq(Call) /\ Len(u) = Len(cs) /\ DOMAIN u = DOMAIN cs /\ u[s] = c
        /\ \A i \in DOMAIN cs : i # s => u[i] = cs[i]
    BY DEF RunFits, Good
  <1> HIDE DEF u
  <1>2. RunFits(u)
    BY <1>1 DEF RunFits, Good
  <1>3. c.mine => MineRuns(u, c.kind) /\ (c.retry => MineRetries(u))
    BY <1>1 DEF MineRuns, MineRetries
  <1>4. \A k : MineRuns(cs, k) => MineRuns(u, k) \/ (cs[s].mine /\ cs[s].kind = k)
    BY <1>1 DEF MineRuns
  <1>5. MineRetries(cs) => MineRetries(u) \/ (cs[s].mine /\ cs[s].retry)
    BY <1>1 DEF MineRetries
  <1>6. NoneMine(cs) /\ ~c.mine => NoneMine(u)
    BY <1>1 DEF NoneMine
  <1>7. QED
    BY <1>1, <1>2, <1>3, <1>4, <1>5, <1>6 DEF u

\* One call ends: the others run still, and none becomes the hook's.
LEMMA OneOff ==
    ASSUME NEW cs, RunFits(cs), NEW s \in DOMAIN cs
    PROVE  LET u == RemoveAt(cs, s) IN
           /\ RunFits(u) /\ Len(u) <= Len(cs)
           /\ \A k : MineRuns(cs, k) => MineRuns(u, k) \/ (cs[s].mine /\ cs[s].kind = k)
           /\ MineRetries(cs) => MineRetries(u) \/ (cs[s].mine /\ cs[s].retry)
           /\ NoneMine(cs) => NoneMine(u)
  <1> DEFINE u == RemoveAt(cs, s)
  <1>1. /\ u \in Seq(Call) /\ Len(u) = Len(cs) - 1 /\ Len(cs) \in Nat
        /\ \A i \in DOMAIN u : \E j \in DOMAIN cs : u[i] = cs[j]
        /\ \A j \in DOMAIN cs : j # s => \E i \in DOMAIN u : u[i] = cs[j]
    BY OneEnds DEF RunFits
  <1> HIDE DEF u
  <1>2. RunFits(u) /\ Len(u) <= Len(cs)
    BY <1>1 DEF RunFits
  <1>3. \A k : MineRuns(cs, k) => MineRuns(u, k) \/ (cs[s].mine /\ cs[s].kind = k)
    BY <1>1 DEF MineRuns
  <1>4. MineRetries(cs) => MineRetries(u) \/ (cs[s].mine /\ cs[s].retry)
    BY <1>1 DEF MineRetries
  <1>5. NoneMine(cs) => NoneMine(u)
    BY <1>1 DEF NoneMine
  <1>6. QED
    BY <1>2, <1>3, <1>4, <1>5 DEF u

\* What an unmounted hook leaves behind.
LEMMA OrphansLeft ==
    ASSUME NEW cs, RunFits(cs), NEW u \in Orphans(cs)
    PROVE  RunFits(u) /\ Len(u) <= Len(cs) /\ NoneMine(u)
  <1>0. PICK kept \in SUBSET DOMAIN cs : \E p \in [1 .. Cardinality(kept) -> kept] :
            u = [s \in DOMAIN p |-> [cs[p[s]] EXCEPT !.mine = FALSE]]
    <2> DEFINE kept == {s \in DOMAIN cs : /\ cs[s].kind \in {"join", "reclaim", "leave", "issue"}
                                         /\ cs[s].at \notin {"list", "lookup"}}
    <2>1. \E p \in InOrder(kept) :
              u = [s \in DOMAIN p |-> [cs[p[s]] EXCEPT !.mine = FALSE]]
      BY DEF Orphans
    <2>2. kept \in SUBSET DOMAIN cs
      OBVIOUS
    <2> HIDE DEF kept
    <2>3. PICK p \in InOrder(kept) :
              u = [s \in DOMAIN p |-> [cs[p[s]] EXCEPT !.mine = FALSE]]
      BY <2>1
    <2>4. p \in [1 .. Cardinality(kept) -> kept]
      BY <2>3 DEF InOrder
    <2>5. QED
      BY <2>2, <2>3, <2>4
  <1>1. PICK p \in [1 .. Cardinality(kept) -> kept] :
            u = [s \in DOMAIN p |-> [cs[p[s]] EXCEPT !.mine = FALSE]]
    BY <1>0
  <1>2. /\ Len(cs) \in Nat /\ DOMAIN cs = 1 .. Len(cs) /\ IsFiniteSet(1 .. Len(cs))
        /\ Cardinality(1 .. Len(cs)) = Len(cs)
    BY FS_Interval DEF RunFits
  <1>3. Cardinality(kept) \in Nat /\ Cardinality(kept) <= Len(cs)
    BY <1>2, FS_Subset, FS_CardinalityType
  <1>4. \A s \in 1 .. Cardinality(kept) :
            /\ p[s] \in DOMAIN cs /\ u[s] = [cs[p[s]] EXCEPT !.mine = FALSE]
    BY <1>1
  <1>5. \A s \in 1 .. Cardinality(kept) :
            /\ u[s] \in Call /\ u[s].mine = FALSE /\ u[s].kind = cs[p[s]].kind
            /\ u[s].at = cs[p[s]].at /\ u[s].retry = cs[p[s]].retry
    <2>1. \A c \in Call :
              LET d == [c EXCEPT !.mine = FALSE] IN
              /\ d \in Call /\ d.mine = FALSE /\ d.kind = c.kind
              /\ d.at = c.at /\ d.retry = c.retry
      BY DEF Call
    <2>2. \A s \in 1 .. Cardinality(kept) : cs[p[s]] \in Call
      BY <1>4 DEF RunFits
    <2> SUFFICES ASSUME NEW s \in 1 .. Cardinality(kept)
                 PROVE  /\ u[s] \in Call /\ u[s].mine = FALSE /\ u[s].kind = cs[p[s]].kind
                        /\ u[s].at = cs[p[s]].at /\ u[s].retry = cs[p[s]].retry
      OBVIOUS
    <2> DEFINE c == cs[p[s]]
    <2>3. c \in Call /\ u[s] = [c EXCEPT !.mine = FALSE]
      BY <1>4, <2>2
    <2> HIDE DEF c
    <2>4. /\ u[s] \in Call /\ u[s].mine = FALSE /\ u[s].kind = c.kind
          /\ u[s].at = c.at /\ u[s].retry = c.retry
      BY <2>1, <2>3
    <2>5. QED
      BY <2>4 DEF c
  <1>6. u \in Seq(Call) /\ Len(u) = Cardinality(kept) /\ DOMAIN u = 1 .. Cardinality(kept)
    BY <1>1, <1>3, <1>5
  <1>7. QED
    BY <1>3, <1>4, <1>5, <1>6 DEF RunFits, NoneMine

-----------------------------------------------------------------------------
\* The effect on the role: a hook like the one given, without an offer to reclaim
\* on the form of a member.
LEMMA OfferFits ==
    ASSUME NEW h \in HookState
    PROVE  LET o == Offering(h) IN
           /\ o \in HookState
           /\ o.joining = h.joining /\ o.reclaiming = h.reclaiming /\ o.loading = h.loading
           /\ o.current = h.current /\ o.list = h.list
           /\ o.cta => o.unlocked \/ (asHost /\ ~o.ticket)
  BY DEF Offering, HostForm, HookState

\* A call is over, and its flag is down.
LEMMA EndKeeps ==
    ASSUME HInv, NEW s \in DOMAIN calls, NEW h \in HookState, Hooked(s, h),
           calls' = RemoveAt(calls, s), UNCHANGED <<held, joined, asHost, layout>>,
           h.current = hook.current, h.list = hook.list,
           h.joining => hook.joining /\ calls[s].kind # "join",
           h.reclaiming => hook.reclaiming /\ calls[s].kind # "reclaim" /\ ~calls[s].retry,
           h.loading => hook.loading /\ calls[s].kind # "refresh"
    PROVE  HInv'
  <1>1. /\ RunFits(calls') /\ Len(calls') <= Len(calls)
        /\ \A k : MineRuns(calls, k)
                   => MineRuns(calls', k) \/ (calls[s].mine /\ calls[s].kind = k)
        /\ MineRetries(calls)
              => MineRetries(calls') \/ (calls[s].mine /\ calls[s].retry)
        /\ NoneMine(calls) => NoneMine(calls')
    BY OneOff DEF HInv
  <1>2. Len(calls') <= MaxUnderWay
    <2>1. Len(calls') \in Nat /\ Len(calls) \in Nat
      BY <1>1 DEF HInv, RunFits
    <2>2. QED
      BY HostPageAssumption, <1>1, <2>1 DEF HInv
  <1>3. CASE calls[s].mine
    <2>1. hook' = Offering(h) /\ layout # "off"
      BY <1>3 DEF Hooked, HInv
    <2>2. /\ hook' \in HookState
          /\ hook'.joining = h.joining /\ hook'.reclaiming = h.reclaiming
          /\ hook'.loading = h.loading /\ hook'.current = h.current /\ hook'.list = h.list
          /\ hook'.cta => hook'.unlocked \/ (asHost /\ ~hook'.ticket)
      BY <2>1, OfferFits
    <2>3. ToolsFit(hook', joined', asHost', layout')
      BY <2>1, <2>2 DEF HInv, ToolsFit
    <2>4. Backed(hook', calls')
      BY <1>1, <2>2 DEF HInv, Backed
    <2>5. QED
      BY <1>1, <1>2, <2>1, <2>3, <2>4 DEF HInv, PlaceFits
  <1>4. CASE ~calls[s].mine
    <2>1. hook' = hook
      BY <1>4 DEF Hooked
    <2>2. Backed(hook', calls')
      BY <1>1, <1>4, <2>1 DEF HInv, Backed
    <2>3. QED
      BY <1>1, <1>2, <2>1, <2>2 DEF HInv, PlaceFits, NoneMine
  <1>5. QED
    BY <1>3, <1>4

\* A call goes on: what it is to the hook stays, and the hook has no more of it
\* than before.
LEMMA GoKeeps ==
    ASSUME HInv, NEW s \in DOMAIN calls, NEW c, Good(c),
           calls' = [calls EXCEPT ![s] = c], c.mine = calls[s].mine,
           UNCHANGED held, asHost' \in BOOLEAN, PlaceFits(joined', layout'),
           layout' = "off" => layout = "off", ToolsFit(hook', joined', asHost', layout'),
           hook'.joining => \/ calls[s].mine /\ c.kind = "join"
                            \/ hook.joining /\ (calls[s].mine => calls[s].kind # "join"),
           hook'.reclaiming => \/ calls[s].mine /\ (c.kind = "reclaim" \/ c.retry)
                               \/ /\ hook.reclaiming
                                  /\ calls[s].mine
                                        => calls[s].kind # "reclaim" /\ ~calls[s].retry,
           hook'.loading => \/ hook'.list
                            \/ calls[s].mine /\ c.kind = "refresh"
                            \/ /\ hook.loading /\ ~hook.list
                               /\ calls[s].mine => calls[s].kind # "refresh"
    PROVE  HInv'
  <1>1. /\ RunFits(calls') /\ Len(calls') = Len(calls)
        /\ c.mine => MineRuns(calls', c.kind) /\ (c.retry => MineRetries(calls'))
        /\ \A k : MineRuns(calls, k)
                   => MineRuns(calls', k) \/ (calls[s].mine /\ calls[s].kind = k)
        /\ MineRetries(calls)
              => MineRetries(calls') \/ (calls[s].mine /\ calls[s].retry)
        /\ NoneMine(calls) /\ ~c.mine => NoneMine(calls')
    BY OneGoes DEF HInv
  <1>2. Backed(hook', calls')
    <2>1. hook'.joining => MineRuns(calls', "join")
      BY <1>1 DEF HInv, Backed
    <2>2. hook'.reclaiming => MineRuns(calls', "reclaim") \/ MineRetries(calls')
      BY <1>1 DEF HInv, Backed
    <2>3. hook'.loading => hook'.list \/ MineRuns(calls', "refresh")
      BY <1>1 DEF HInv, Backed
    <2>4. QED
      BY <2>1, <2>2, <2>3 DEF Backed
  <1>3. layout' = "off" => \A i \in DOMAIN calls' : ~calls'[i].mine
    BY <1>1 DEF HInv, NoneMine
  <1>4. QED
    BY <1>1, <1>2, <1>3 DEF HInv

\* The next stage of a call.
LEMMA StageKeeps ==
    ASSUME HInv, NEW s \in DOMAIN calls, NEW at \in Stages[calls[s].kind],
           calls' = Goes(s, at),
           UNCHANGED held, asHost' \in BOOLEAN, PlaceFits(joined', layout'),
           layout' = "off" => layout = "off", ToolsFit(hook', joined', asHost', layout'),
           hook'.joining => hook.joining, hook'.reclaiming => hook.reclaiming,
           hook'.loading => hook'.list \/ (hook.loading /\ ~hook.list)
    PROVE  HInv'
  <1> DEFINE c == [calls[s] EXCEPT !.at = at]
  <1>1. calls[s] \in Call /\ calls[s].kind \in DOMAIN Stages
        /\ (calls[s].retry => calls[s].kind = "join")
    <2>1. calls[s] \in Call /\ (calls[s].retry => calls[s].kind = "join")
      BY DEF HInv, RunFits
    <2>2. QED
      BY <2>1 DEF Call
  <1>2. at \in UNION {Stages[x] : x \in DOMAIN Stages}
    BY <1>1
  <1>3. /\ c \in Call /\ c.at = at /\ c.kind = calls[s].kind
        /\ c.mine = calls[s].mine /\ c.retry = calls[s].retry
    BY <1>1, <1>2 DEF Call
  <1>4. calls' = [calls EXCEPT ![s] = c]
    BY DEF Goes
  <1> HIDE DEF c
  <1>5. Good(c)
    BY <1>1, <1>3 DEF Good
  <1>6. QED
    BY <1>3, <1>4, <1>5, GoKeeps

\* A button starts a call.
LEMMA PressKeeps ==
    ASSUME HInv, NEW c, Good(c), Begin(c), layout # "off",
           UNCHANGED <<held, joined, asHost, layout>>,
           ToolsFit(hook', joined, asHost, layout),
           hook'.joining => hook.joining \/ (c.mine /\ c.kind = "join"),
           hook'.reclaiming => hook.reclaiming \/ (c.mine /\ c.kind = "reclaim"),
           hook'.loading => \/ c.mine /\ c.kind = "refresh"
                            \/ hook.loading /\ (hook.list => hook'.list)
    PROVE  HInv'
  <1>1. calls' = Append(calls, c) /\ Len(calls) < MaxUnderWay
    BY DEF Begin
  <1>2. /\ RunFits(calls') /\ Len(calls') = Len(calls) + 1 /\ Len(calls) \in Nat
        /\ c.mine => MineRuns(calls', c.kind)
        /\ \A k : MineRuns(calls, k) => MineRuns(calls', k)
        /\ MineRetries(calls) => MineRetries(calls')
    BY <1>1, OneBegins DEF HInv, RunFits
  <1>3. Len(calls') <= MaxUnderWay
    BY HostPageAssumption, <1>1, <1>2
  <1>4. Backed(hook', calls')
    <2>1. hook'.joining => MineRuns(calls', "join")
      BY <1>2 DEF HInv, Backed
    <2>2. hook'.reclaiming => MineRuns(calls', "reclaim") \/ MineRetries(calls')
      BY <1>2 DEF HInv, Backed
    <2>3. hook'.loading => hook'.list \/ MineRuns(calls', "refresh")
      BY <1>2 DEF HInv, Backed
    <2>4. QED
      BY <2>1, <2>2, <2>3 DEF Backed
  <1>5. ToolsFit(hook', joined', asHost', layout') /\ PlaceFits(joined', layout')
    BY DEF HInv
  <1>6. QED
    BY <1>2, <1>3, <1>4, <1>5 DEF HInv

\* The buttons.
LEMMA PressesKeep ==
    ASSUME HInv, Press
    PROVE  HInv'
  <1>1. hook \in HookState /\ ToolsFit(hook, joined, asHost, layout) /\ PlaceFits(joined, layout)
    BY DEF HInv, ToolsFit
  <1>2. CASE PressJoin
    <2>1. Good(New("join", "login")) /\ New("join", "login").kind = "join"
          /\ New("join", "login").mine = TRUE
      BY StageOk, NewIsGood
    <2>2. layout # "off" /\ UNCHANGED <<held, joined, asHost, layout>>
          /\ hook' = [hook EXCEPT !.joining = TRUE]
      BY <1>1, <1>2 DEF PressJoin, FormShown, shell, PlaceFits
    <2>3. /\ ToolsFit(hook', joined, asHost, layout)
          /\ hook'.reclaiming = hook.reclaiming /\ hook'.loading = hook.loading
          /\ hook'.list = hook.list
      BY <1>1, <2>2 DEF ToolsFit, HookState
    <2>4. QED
      BY <1>2, <2>1, <2>2, <2>3, PressKeeps DEF PressJoin
  <1>3. CASE PressReclaim
    <2> DEFINE c == [New("reclaim", "sent") EXCEPT !.blocked = hook.joining]
    <2>1. Good(c) /\ c.kind = "reclaim" /\ c.mine = TRUE
      <3>1. Good(New("reclaim", "sent")) /\ hook.joining \in BOOLEAN
        BY <1>1, StageOk, NewIsGood DEF HookState
      <3>2. QED
        BY <3>1 DEF Good, New, Call
    <2> HIDE DEF c
    <2>2. layout # "off" /\ UNCHANGED <<held, joined, asHost, layout>> /\ Begin(c)
          /\ hook' = [hook EXCEPT !.reclaiming = TRUE]
      BY <1>1, <1>3 DEF PressReclaim, FormShown, shell, PlaceFits, c
    <2>3. /\ ToolsFit(hook', joined, asHost, layout)
          /\ hook'.joining = hook.joining /\ hook'.loading = hook.loading
          /\ hook'.list = hook.list
      BY <1>1, <2>2 DEF ToolsFit, HookState
    <2>4. QED
      BY <2>1, <2>2, <2>3, PressKeeps
  <1>4. CASE PressRefresh
    <2>1. Good(New("refresh", "list")) /\ New("refresh", "list").kind = "refresh"
          /\ New("refresh", "list").mine = TRUE
      BY StageOk, NewIsGood
    <2>2. layout # "off" /\ UNCHANGED <<held, joined, asHost, layout>>
          /\ hook' = [hook EXCEPT !.loading = TRUE]
      BY <1>4 DEF PressRefresh, Tools, shell
    <2>3. /\ ToolsFit(hook', joined, asHost, layout)
          /\ hook'.joining = hook.joining /\ hook'.reclaiming = hook.reclaiming
      BY <1>1, <2>2 DEF ToolsFit, HookState
    <2>4. QED
      BY <1>4, <2>1, <2>2, <2>3, PressKeeps DEF PressRefresh
  <1>5. ASSUME NEW c, Good(c), Begin(c), layout # "off",
               UNCHANGED <<held, joined, asHost, layout, hook>>
        PROVE  HInv'
    BY <1>1, <1>5, PressKeeps
  <1>6. CASE \/ PressLeave \/ PressIssue \/ PressStart
             \/ PressStop \/ PressRevoke
    <2>1. /\ Good(New("leave", "sent")) /\ Good(New("issue", "sent"))
          /\ Good(New("start", "issue")) /\ Good(New("stop", "sent"))
          /\ Good(New("revoke", "sent"))
      BY StageOk, NewIsGood
    <2>2. layout # "off" /\ UNCHANGED <<held, joined, asHost, layout, hook>>
      BY <1>6 DEF PressLeave, PressIssue, PressStart,
         PressStop, PressRevoke, Tools, shell
    <2>3. QED
      BY <1>5, <1>6, <2>1, <2>2 DEF PressLeave, PressIssue, PressStart,
         PressStop, PressRevoke
  <1>7. QED
    BY <1>2, <1>3, <1>4, <1>6 DEF Press

\* A join that fails.
LEMMA FailKeeps ==
    ASSUME HInv, NEW s \in DOMAIN calls, calls[s].kind = "join",
           NEW inUse \in BOOLEAN, JoinFails(s, inUse)
    PROVE  HInv'
  <1> DEFINE h == [Over(s, hook) EXCEPT !.cta = hook.cta \/ inUse]
  <1>1. Hooked(s, h)
    BY DEF JoinFails, Over
  <1>2. /\ h \in HookState /\ h.current = hook.current /\ h.list = hook.list
        /\ h.joining = FALSE /\ h.reclaiming = (hook.reclaiming /\ ~calls[s].retry)
        /\ h.loading = hook.loading
    BY DEF Over, HookState, HInv, ToolsFit
  <1> HIDE DEF h
  <1>3. calls' = RemoveAt(calls, s) /\ UNCHANGED <<held, joined, asHost, layout>>
    BY DEF JoinFails, Ends, shell
  <1>4. QED
    BY <1>1, <1>2, <1>3, EndKeeps

\* A join goes from one of its awaits to the next, or ends.
LEMMA JoiningKeeps ==
    ASSUME HInv, NEW s \in DOMAIN calls, Joining(s)
    PROVE  HInv'
  <1>1. /\ hook \in HookState /\ ToolsFit(hook, joined, asHost, layout)
        /\ PlaceFits(joined, layout) /\ asHost \in BOOLEAN
    BY DEF HInv, ToolsFit
  <1>2. calls[s] \in Call /\ calls[s].at \in Stages[calls[s].kind]
    BY DEF HInv, RunFits
  <1>3. /\ calls[s].at \in {"login", "join", "admitted", "reclaim", "again", "lookup"}
              => calls[s].kind = "join"
        /\ calls[s].kind = "join" =>
              {"login", "join", "admitted", "reclaim", "again", "lookup"}
                  \subseteq Stages[calls[s].kind]
    BY <1>2, StagesOf, StageOk
  <1>4. CASE LoginOk(s)
    <2>1. ToolsFit(hook', joined', asHost', layout')
          /\ hook'.joining = hook.joining /\ hook'.reclaiming = hook.reclaiming
          /\ (hook'.loading => hook'.list \/ (hook.loading /\ ~hook.list))
      BY <1>1, <1>4 DEF LoginOk, Looking, Outside, shell,
         ToolsFit, PlaceFits, HookState
    <2>2. UNCHANGED <<held, asHost, joined, layout>> /\ calls' = Goes(s, "join")
          /\ "join" \in Stages[calls[s].kind]
      BY <1>3, <1>4 DEF LoginOk, shell
    <2>3. QED
      BY <1>1, <2>1, <2>2, StageKeeps
  <1>5. ASSUME NEW at \in {"login", "join", "admitted", "reclaim", "again", "lookup"},
               calls[s].kind = "join", calls' = Goes(s, at),
               UNCHANGED <<held, shell, hook>>
        PROVE  HInv'
    <2>1. UNCHANGED <<held, asHost, joined, layout, hook>>
      BY <1>5 DEF shell
    <2>2. hook.loading => hook.list \/ (hook.loading /\ ~hook.list)
      BY <1>1 DEF HookState
    <2>3. at \in Stages[calls[s].kind]
      BY <1>3, <1>5
    <2>4. QED
      BY <1>1, <1>5, <2>1, <2>2, <2>3, StageKeeps
  <1>6. CASE Admit(s)
    BY <1>3, <1>5, <1>6 DEF Admit
  <1>7. CASE Admitted(s)
    <2>1. /\ UNCHANGED <<held, asHost, layout>> /\ joined' = TRUE
          /\ calls' = Goes(s, "lookup")
          /\ "lookup" \in Stages[calls[s].kind]
      BY <1>3, <1>7 DEF Admitted
    <2>2. CASE layout = "off"
      <3>1. hook' = hook /\ ToolsFit(hook', joined', asHost', layout')
        BY <1>1, <1>7, <2>1, <2>2 DEF Admitted, ToolsFit
      <3>2. hook.loading => hook.list \/ (hook.loading /\ ~hook.list)
        BY <1>1 DEF HookState
      <3>3. QED
        BY <1>1, <2>1, <3>1, <3>2, StageKeeps DEF PlaceFits
    <2>3. CASE layout # "off"
      <3>1. \/ hook' = Looking(hook)
            \/ hook' = Looking([hook EXCEPT !.cta = FALSE])
        BY <1>7, <2>3 DEF Admitted
      <3>2. /\ ToolsFit(hook', joined', asHost', layout') /\ hook'.list
            /\ hook'.joining = hook.joining /\ hook'.reclaiming = hook.reclaiming
        BY <1>1, <2>1, <2>3, <3>1 DEF Looking, ToolsFit, HookState
      <3>3. QED
        BY <1>1, <2>1, <3>2, StageKeeps DEF PlaceFits
    <2>4. QED
      BY <2>2, <2>3
  <1>8. CASE Restored(s)
    <2>1. PICK found \in BOOLEAN :
              Hooked(s, Over(s, [hook EXCEPT !.shown = found]))
      BY <1>8 DEF Restored
    <2> DEFINE h == Over(s, [hook EXCEPT !.shown = found])
    <2>2. /\ h \in HookState /\ h.current = hook.current /\ h.list = hook.list
          /\ h.joining = FALSE /\ h.reclaiming = (hook.reclaiming /\ ~calls[s].retry)
          /\ h.loading = hook.loading
      BY <1>1 DEF Over, HookState
    <2> HIDE DEF h
    <2>3. Hooked(s, h)
      BY <2>1 DEF h
    <2>4. calls' = RemoveAt(calls, s) /\ UNCHANGED <<held, joined, asHost, layout>>
          /\ calls[s].kind = "join"
      BY <1>3, <1>8 DEF Restored, Ends, shell
    <2>5. QED
      BY <2>2, <2>3, <2>4, EndKeeps
  <1>9. CASE JoinRefused(s)
    BY <1>3, <1>5, <1>9, FailKeeps DEF JoinRefused
  <1>10. CASE AutoReclaim(s)
    BY <1>3, <1>5, <1>10, FailKeeps DEF AutoReclaim
  <1>11. CASE JoinBreaks(s)
    BY <1>11, FailKeeps DEF JoinBreaks
  <1>12. QED
    BY <1>4, <1>6, <1>7, <1>8, <1>9, <1>10, <1>11 DEF Joining

\* A reclaim is answered or fails.
LEMMA ReclaimKeeps ==
    ASSUME HInv, NEW s \in DOMAIN calls,
           ReclaimOk(s) \/ ReclaimFails(s)
    PROVE  HInv'
  <1>1. hook \in HookState /\ ToolsFit(hook, joined, asHost, layout) /\ PlaceFits(joined, layout)
        /\ asHost \in BOOLEAN
    BY DEF HInv, ToolsFit
  <1>2. calls[s] \in Call /\ calls[s].kind = "reclaim" /\ ~calls[s].retry
        /\ UNCHANGED <<held, joined, asHost, layout>>
    BY DEF HInv, RunFits, ReclaimOk, ReclaimFails, shell
  <1>3. ASSUME NEW cta \in BOOLEAN, calls' = Ends(s),
               Hooked(s, [hook EXCEPT !.cta = cta, !.reclaiming = FALSE])
        PROVE  HInv'
    <2> DEFINE h == [hook EXCEPT !.cta = cta, !.reclaiming = FALSE]
    <2>1. /\ h \in HookState /\ h.current = hook.current /\ h.list = hook.list
          /\ h.joining = hook.joining /\ h.reclaiming = FALSE /\ h.loading = hook.loading
      BY <1>1 DEF HookState
    <2>2. Hooked(s, h)
      BY <1>3
    <2> HIDE DEF h
    <2>3. QED
      BY <1>2, <1>3, <2>1, <2>2, EndKeeps DEF Ends
  <1>4. CASE ReclaimFails(s)
    <2>1. [hook EXCEPT !.reclaiming = FALSE] = [hook EXCEPT !.cta = hook.cta, !.reclaiming = FALSE]
          /\ hook.cta \in BOOLEAN
      BY <1>1 DEF HookState
    <2>2. QED
      BY <1>3, <1>4, <2>1 DEF ReclaimFails
  <1>5. CASE ReclaimOk(s) /\ calls[s].blocked
    BY <1>3, <1>5 DEF ReclaimOk
  <1>6. CASE ReclaimOk(s) /\ ~calls[s].blocked
    <2> DEFINE c == [New("join", "login") EXCEPT !.retry = TRUE, !.mine = calls[s].mine]
               h == [hook EXCEPT !.cta = FALSE, !.joining = TRUE]
    <2>1. calls' = [calls EXCEPT ![s] = c] /\ Hooked(s, h)
      BY <1>6 DEF ReclaimOk
    <2>2. /\ Good(c) /\ c.kind = "join" /\ c.mine = calls[s].mine /\ c.retry = TRUE
      <3>1. calls[s].mine \in BOOLEAN
        BY <1>2 DEF Call
      <3>2. /\ "join" \in DOMAIN Stages /\ "login" \in Stages["join"]
            /\ "login" \in UNION {Stages[x] : x \in DOMAIN Stages}
        BY StageOk
      <3>3. QED
        BY <3>1, <3>2 DEF New, Good, Call
    <2>3. /\ h \in HookState /\ h.current = hook.current /\ h.list = hook.list
          /\ h.reclaiming = hook.reclaiming /\ h.loading = hook.loading
      BY <1>1 DEF HookState
    <2> HIDE DEF c, h
    <2>4. CASE calls[s].mine
      <3>1. hook' = Offering(h) /\ layout # "off"
        BY <2>1, <2>4 DEF Hooked, HInv
      <3>2. /\ hook' \in HookState /\ hook'.reclaiming = hook.reclaiming
            /\ hook'.loading = hook.loading
            /\ hook'.current = hook.current /\ hook'.list = hook.list
            /\ hook'.cta => hook'.unlocked \/ (asHost /\ ~hook'.ticket)
        BY <2>3, <3>1, OfferFits
      <3>3. ToolsFit(hook', joined', asHost', layout')
        BY <1>1, <1>2, <3>1, <3>2 DEF ToolsFit
      <3>4. hook'.loading => hook'.list \/ (hook.loading /\ ~hook.list)
        BY <1>1, <3>2 DEF HookState
      <3>5. QED
        BY <1>1, <1>2, <2>1, <2>2, <2>4, <3>3, <3>4, GoKeeps
    <2>5. CASE ~calls[s].mine
      <3>1. hook' = hook
        BY <2>1, <2>5 DEF Hooked
      <3>2. hook'.loading => hook'.list \/ (hook.loading /\ ~hook.list)
        BY <1>1, <3>1 DEF HookState
      <3>3. QED
        BY <1>1, <1>2, <2>1, <2>2, <2>5, <3>1, <3>2, GoKeeps
    <2>6. QED
      BY <2>4, <2>5
  <1>7. QED
    BY <1>4, <1>5, <1>6

\* A lookup, or a call of the invites and the broadcast, is answered or fails.
LEMMA ToolKeeps ==
    ASSUME HInv, NEW s \in DOMAIN calls, Tool(s)
    PROVE  HInv'
  <1>1. /\ hook \in HookState /\ ToolsFit(hook, joined, asHost, layout)
        /\ PlaceFits(joined, layout) /\ asHost \in BOOLEAN
    BY DEF HInv, ToolsFit
  <1>2. calls[s] \in Call /\ calls[s].at \in Stages[calls[s].kind]
        /\ (calls[s].retry => calls[s].kind = "join")
    BY DEF HInv, RunFits
  <1>3. /\ calls[s].at = "issue" => calls[s].kind = "start"
        /\ calls[s].at = "list" => calls[s].kind \in {"refresh", "issue"}
        /\ calls[s].mine \in BOOLEAN
    BY <1>2, StagesOf DEF Call
  <1>4. ASSUME NEW on \in BOOLEAN, NEW busy \in BOOLEAN,
               calls' = Ends(s), UNCHANGED <<held, shell>>,
               calls[s].kind \notin {"join", "reclaim"},
               Hooked(s, [hook EXCEPT !.shown = on, !.loading = busy]),
               busy => hook.loading /\ calls[s].kind # "refresh"
        PROVE  HInv'
    <2> DEFINE h == [hook EXCEPT !.shown = on, !.loading = busy]
    <2>1. /\ h \in HookState /\ h.current = hook.current /\ h.list = hook.list
          /\ h.joining = hook.joining /\ h.reclaiming = hook.reclaiming /\ h.loading = busy
      BY <1>1 DEF HookState
    <2>2. Hooked(s, h)
      BY <1>4
    <2> HIDE DEF h
    <2>3. UNCHANGED <<held, joined, asHost, layout>> /\ calls' = RemoveAt(calls, s)
      BY <1>4 DEF shell, Ends
    <2>4. QED
      BY <1>2, <1>4, <2>1, <2>2, <2>3, EndKeeps
  <1>5. \A on, busy : /\ [hook EXCEPT !.loading = busy]
                            = [hook EXCEPT !.shown = hook.shown, !.loading = busy]
                       /\ [hook EXCEPT !.shown = on]
                            = [hook EXCEPT !.shown = on, !.loading = hook.loading]
        /\ {hook.shown, hook.loading} \subseteq BOOLEAN
    BY <1>1 DEF HookState
  <1>6. CASE Issued(s)
    <2>1. UNCHANGED <<held, joined, layout>> /\ asHost' = TRUE /\ calls[s].kind = "issue"
          /\ calls' = Goes(s, "list")
      BY <1>6 DEF Issued
    <2>2. "list" \in Stages[calls[s].kind]
      BY <2>1, StageOk
    <2>3. CASE calls[s].mine
      <3>1. hook' = [hook EXCEPT !.ticket = TRUE, !.cta = hook.cta /\ hook.unlocked] /\ layout # "off"
        BY <1>6, <2>3 DEF Issued, HInv
      <3>2. /\ hook' \in HookState /\ hook'.joining = hook.joining /\ hook'.loading = hook.loading
            /\ hook'.reclaiming = hook.reclaiming /\ hook'.unlocked = hook.unlocked
            /\ hook'.current = hook.current /\ hook'.list = hook.list
            /\ hook'.cta = (hook.cta /\ hook.unlocked)
        BY <1>1, <3>1 DEF HookState
      <3>3. ToolsFit(hook', joined', asHost', layout')
        BY <1>1, <2>1, <3>1, <3>2 DEF ToolsFit
      <3>4. hook'.loading => hook'.list \/ (hook.loading /\ ~hook.list)
        BY <1>1, <3>2 DEF HookState
      <3>5. QED
        BY <1>1, <2>1, <2>2, <3>1, <3>2, <3>3, <3>4, StageKeeps
    <2>4. CASE ~calls[s].mine
      <3>1. hook' = [hook EXCEPT !.cta = hook.cta /\ (hook.unlocked \/ ~hook.ticket)]
        BY <1>6, <2>4 DEF Issued
      <3>2. /\ hook' \in HookState /\ hook'.joining = hook.joining /\ hook'.loading = hook.loading
            /\ hook'.reclaiming = hook.reclaiming /\ hook'.unlocked = hook.unlocked
            /\ hook'.current = hook.current /\ hook'.list = hook.list
            /\ hook'.ticket = hook.ticket
            /\ hook'.cta = (hook.cta /\ (hook.unlocked \/ ~hook.ticket))
        BY <1>1, <3>1 DEF HookState
      <3>3. layout = "off" => hook' = Fresh
        <4>1. layout = "off" => hook = Fresh /\ hook.cta = FALSE
          BY <1>1 DEF ToolsFit, Fresh
        <4>2. hook.cta = FALSE => hook' = [hook EXCEPT !.cta = hook.cta]
          BY <3>1
        <4>3. [hook EXCEPT !.cta = hook.cta] = hook
          BY <1>1 DEF HookState
        <4>4. QED
          BY <4>1, <4>2, <4>3
      <3>4. ToolsFit(hook', joined', asHost', layout')
        BY <1>1, <2>1, <3>2, <3>3 DEF ToolsFit
      <3>5. hook'.loading => hook'.list \/ (hook.loading /\ ~hook.list)
        BY <1>1, <3>2 DEF HookState
      <3>6. QED
        BY <1>1, <2>1, <2>2, <3>2, <3>4, <3>5, StageKeeps
    <2>5. QED
      BY <2>3, <2>4
  <1>7. CASE Listed(s)
    <2>1. calls[s].kind \in {"refresh", "issue"}
      BY <1>3, <1>7 DEF Listed
    <2> DEFINE busy == hook.loading /\ calls[s].kind = "issue"
    <2>2. busy \in BOOLEAN /\ (busy => hook.loading /\ calls[s].kind # "refresh")
      OBVIOUS
    <2>3. Hooked(s, [hook EXCEPT !.loading = busy]) /\ calls' = Ends(s)
          /\ UNCHANGED <<held, shell>>
      BY <1>7 DEF Listed
    <2> HIDE DEF busy
    <2>4. QED
      BY <1>4, <1>5, <2>1, <2>2, <2>3
  <1>8. CASE ToolFails(s)
    <2>1. calls[s].kind \in {"refresh", "issue", "revoke", "start", "stop"}
      BY <1>8 DEF ToolFails
    <2> DEFINE busy == hook.loading /\ calls[s].kind # "refresh"
    <2>2. busy \in BOOLEAN /\ (busy => hook.loading /\ calls[s].kind # "refresh")
      OBVIOUS
    <2>3. Hooked(s, [hook EXCEPT !.loading = busy]) /\ calls' = Ends(s)
          /\ UNCHANGED <<held, shell>>
      BY <1>8 DEF ToolFails
    <2> HIDE DEF busy
    <2>4. QED
      BY <1>4, <1>5, <2>1, <2>2, <2>3
  <1>9. CASE Started(s)
    BY <1>4, <1>5, <1>9 DEF Started
  <1>10. CASE Stopped(s)
    BY <1>4, <1>5, <1>10 DEF Stopped
  <1>11. CASE StartIssued(s)
    <2>1. calls[s].kind = "start" /\ calls' = Goes(s, "sent")
          /\ UNCHANGED <<held, joined, asHost, layout, hook>>
      BY <1>3, <1>11 DEF StartIssued, shell
    <2>2. "sent" \in Stages[calls[s].kind]
      BY <2>1, StageOk
    <2>3. hook.loading => hook.list \/ (hook.loading /\ ~hook.list)
      BY <1>1 DEF HookState
    <2>4. QED
      BY <1>1, <2>1, <2>2, <2>3, StageKeeps
  <1>12. CASE Revoked(s)
    <2> DEFINE c == [New("refresh", "list") EXCEPT !.mine = calls[s].mine]
               h == [hook EXCEPT !.loading = TRUE]
    <2>1. calls' = [calls EXCEPT ![s] = c] /\ Hooked(s, h)
          /\ UNCHANGED <<held, joined, asHost, layout>> /\ calls[s].kind = "revoke"
      BY <1>12 DEF Revoked, shell
    <2>2. /\ Good(c) /\ c.kind = "refresh" /\ c.mine = calls[s].mine /\ c.retry = FALSE
      <3>1. /\ "refresh" \in DOMAIN Stages /\ "list" \in Stages["refresh"]
            /\ "list" \in UNION {Stages[x] : x \in DOMAIN Stages}
        BY StageOk
      <3>2. QED
        BY <1>3, <3>1 DEF New, Good, Call
    <2>3. /\ h \in HookState /\ h.current = hook.current /\ h.list = hook.list
          /\ h.reclaiming = hook.reclaiming /\ h.joining = hook.joining
      BY <1>1 DEF HookState
    <2> HIDE DEF c, h
    <2>4. calls[s].retry = FALSE
      BY <1>2, <2>1 DEF Call
    <2>5. CASE calls[s].mine
      <3>1. hook' = Offering(h) /\ layout # "off"
        BY <2>1, <2>5 DEF Hooked, HInv
      <3>2. /\ hook' \in HookState /\ hook'.reclaiming = hook.reclaiming
            /\ hook'.joining = hook.joining
            /\ hook'.current = hook.current /\ hook'.list = hook.list
            /\ hook'.cta => hook'.unlocked \/ (asHost /\ ~hook'.ticket)
        BY <2>3, <3>1, OfferFits
      <3>3. ToolsFit(hook', joined', asHost', layout')
        BY <1>1, <2>1, <3>1, <3>2 DEF ToolsFit
      <3>4. QED
        BY <1>1, <2>1, <2>2, <2>4, <2>5, <3>2, <3>3, GoKeeps
    <2>6. CASE ~calls[s].mine
      <3>1. hook' = hook
        BY <2>1, <2>6 DEF Hooked
      <3>2. hook'.loading => hook'.list \/ (hook.loading /\ ~hook.list)
        BY <1>1, <3>1 DEF HookState
      <3>3. QED
        BY <1>1, <2>1, <2>2, <2>6, <3>1, <3>2, GoKeeps
    <2>7. QED
      BY <2>5, <2>6
  <1>13. QED
    BY <1>6, <1>7, <1>8, <1>9, <1>10, <1>11, <1>12 DEF Tool

\* The page is cleared: a call of leaving is over, or the session ended.
LEMMA ClearKeeps ==
    ASSUME HInv, NEW mine \in BOOLEAN, NEW cs, Cleared(cs, mine),
           UNCHANGED held, RunFits(cs), Len(cs) <= Len(calls),
           \A k \in {"join", "reclaim"} : MineRuns(calls, k) => MineRuns(cs, k),
           MineRetries(calls) => MineRetries(cs)
    PROVE  HInv'
  <1>1. hook \in HookState /\ ToolsFit(hook, joined, asHost, layout) /\ asHost \in BOOLEAN
    BY DEF HInv, ToolsFit
  <1>2. joined' = FALSE /\ layout' = "main" /\ asHost' = asHost
    BY DEF Cleared
  <1>3. CASE layout = "main"
    <2>1. hook' = Outside([hook EXCEPT !.cta = hook.cta /\ ~mine]) /\ calls' = cs
      BY <1>3 DEF Cleared
    <2>2. /\ hook' \in HookState /\ hook'.joining = hook.joining
          /\ hook'.reclaiming = hook.reclaiming /\ hook'.loading = FALSE
          /\ hook'.current = FALSE /\ hook'.list = FALSE
          /\ hook'.unlocked = hook.unlocked /\ hook'.ticket = hook.ticket
          /\ hook'.cta = (hook.cta /\ ~mine)
      BY <1>1, <2>1 DEF Outside, HookState
    <2>3. ToolsFit(hook', joined', asHost', layout') /\ PlaceFits(joined', layout')
      BY <1>1, <1>2, <2>2 DEF ToolsFit, PlaceFits
    <2>4. Backed(hook', calls')
      BY <2>1, <2>2 DEF HInv, Backed
    <2>5. Len(calls') <= MaxUnderWay
      BY HostPageAssumption, <2>1 DEF HInv, RunFits
    <2>6. QED
      BY <1>1, <1>2, <2>1, <2>3, <2>4, <2>5 DEF HInv
  <1>4. CASE layout # "main"
    <2>1. hook' = Fresh /\ calls' \in Orphans(cs)
      BY <1>4 DEF Cleared
    <2>2. RunFits(calls') /\ Len(calls') <= Len(cs) /\ NoneMine(calls')
      BY <2>1, OrphansLeft
    <2>3. Len(calls') <= MaxUnderWay
      BY HostPageAssumption, <2>2 DEF HInv, RunFits
    <2>4. ToolsFit(hook', joined', asHost', layout') /\ PlaceFits(joined', layout')
      BY <1>1, <1>2, <2>1 DEF ToolsFit, PlaceFits, Fresh, HookState
    <2>5. Backed(hook', calls')
      BY <2>1 DEF Fresh, Backed
    <2>6. QED
      BY <1>1, <1>2, <2>2, <2>3, <2>4, <2>5 DEF HInv, NoneMine
  <1>5. QED
    BY <1>3, <1>4

\* The room is left, by the button or because the session is over.
LEMMA LeavingKeeps ==
    ASSUME HInv,
           (\E s \in DOMAIN calls : LeaveEnds(s)) \/ SessionEnds
    PROVE  HInv'
  <1>1. CASE \E s \in DOMAIN calls : LeaveEnds(s)
    <2>1. PICK s \in DOMAIN calls : LeaveEnds(s)
      BY <1>1
    <2> DEFINE cs == RemoveAt(calls, s)
    <2>2. /\ calls[s].kind = "leave" /\ ~calls[s].retry /\ calls[s].mine \in BOOLEAN
      <3>1. calls[s].kind = "leave"
        BY <2>1 DEF LeaveEnds
      <3>2. calls[s] \in Call /\ (calls[s].retry => calls[s].kind = "join")
        BY DEF HInv, RunFits
      <3>3. QED
        BY <3>1, <3>2 DEF Call
    <2>3. Cleared(cs, calls[s].mine) /\ UNCHANGED held
      BY <2>1 DEF LeaveEnds, Ends
    <2>4. /\ RunFits(cs) /\ Len(cs) <= Len(calls)
          /\ \A k : MineRuns(calls, k) => MineRuns(cs, k) \/ (calls[s].mine /\ calls[s].kind = k)
          /\ MineRetries(calls) => MineRetries(cs) \/ (calls[s].mine /\ calls[s].retry)
      BY OneOff DEF HInv
    <2> HIDE DEF cs
    <2>5. QED
      BY <2>2, <2>3, <2>4, ClearKeeps
  <1>2. CASE SessionEnds
    <2>1. Cleared(calls, TRUE) /\ UNCHANGED held
      BY <1>2 DEF SessionEnds
    <2>2. RunFits(calls) /\ Len(calls) <= Len(calls)
      BY DEF HInv, RunFits
    <2>3. QED
      BY <2>1, <2>2, ClearKeeps
  <1>3. QED
    BY <1>1, <1>2

\* A hook that has just been mounted.
LEMMA FreshFits ==
    ASSUME NEW in \in BOOLEAN, NEW as \in BOOLEAN, NEW at, NEW cs
    PROVE  /\ ToolsFit(Fresh, in, as, at) /\ Backed(Fresh, cs)
           /\ in /\ at # "off" => /\ ToolsFit(Looking(Fresh), in, as, at)
                                  /\ Backed(Looking(Fresh), cs)
  <1> DEFINE f == Fresh
             l == Looking(Fresh)
  <1>1. /\ f \in HookState
        /\ ~(f.joining \/ f.reclaiming \/ f.loading \/ f.cta \/ f.current \/ f.list)
    BY DEF Fresh, HookState
  <1>2. /\ l \in HookState /\ l.list /\ ~(l.joining \/ l.reclaiming \/ l.cta)
    BY DEF Fresh, Looking, HookState
  <1> HIDE DEF l
  <1>3. ToolsFit(f, in, as, at) /\ Backed(f, cs)
    BY <1>1 DEF ToolsFit, Backed
  <1>4. in /\ at # "off" => ToolsFit(l, in, as, at) /\ Backed(l, cs)
    BY <1>2 DEF ToolsFit, Backed
  <1>5. QED
    BY <1>3, <1>4 DEF l

\* What happens to the page besides its calls.
LEMMA PageKeeps ==
    ASSUME HInv,
           \/ \E on \in BOOLEAN : Unlock(on)
           \/ CurrentKnown \/ CurrentFails \/ ListKnown
           \/ Reconnects \/ Reload
           \/ \E at \in {"main", "off", "drawer"} : Move(at)
           \/ OwnerComes \/ OwnerGoes \/ UNCHANGED hostVars
    PROVE  HInv'
  <1>1. /\ hook \in HookState /\ ToolsFit(hook, joined, asHost, layout)
        /\ PlaceFits(joined, layout) /\ asHost \in BOOLEAN /\ Backed(hook, calls)
    BY DEF HInv, ToolsFit
  <1>2. ASSUME calls' = calls, UNCHANGED <<joined, asHost, layout>>, held' \in BOOLEAN,
               ToolsFit(hook', joined, asHost, layout), Backed(hook', calls)
        PROVE  HInv'
    BY <1>2 DEF HInv, PlaceFits
  <1>3. ASSUME NEW at \in {"main", "off", "drawer"}, Move(at) PROVE HInv'
    <2>1. RunFits(calls') /\ Len(calls') <= Len(calls) /\ NoneMine(calls')
      BY <1>3, OrphansLeft DEF Move, HInv
    <2>2. Len(calls') <= MaxUnderWay
      BY HostPageAssumption, <2>1 DEF HInv, RunFits
    <2>3. UNCHANGED <<held, joined, asHost>> /\ layout' = at /\ joined
      BY <1>3 DEF Move
    <2>4. hook' = IF at = "off" THEN Fresh ELSE Looking(Fresh)
      BY <1>3 DEF Move
    <2>5. /\ ToolsFit(hook', joined', asHost', layout') /\ PlaceFits(joined', layout')
          /\ Backed(hook', calls')
      BY <1>1, <2>3, <2>4, FreshFits DEF PlaceFits
    <2>6. QED
      BY <2>1, <2>2, <2>3, <2>4, <2>5 DEF HInv, NoneMine
  <1>4. CASE Reload
    <2>1. /\ RunFits(calls') /\ Len(calls') = 0 /\ 0 <= MaxUnderWay /\ DOMAIN calls' = {}
      BY HostPageAssumption, <1>4 DEF Reload, RunFits
    <2>2. UNCHANGED <<held, joined, asHost>> /\ layout' = "main"
      BY <1>4 DEF Reload
    <2>3. hook' = IF joined THEN Looking(Fresh) ELSE Fresh
      BY <1>4 DEF Reload
    <2>4. /\ ToolsFit(hook', joined', asHost', layout') /\ PlaceFits(joined', layout')
          /\ Backed(hook', calls')
      BY <1>1, <2>2, <2>3, FreshFits DEF PlaceFits
    <2>5. QED
      BY <2>1, <2>2, <2>3, <2>4 DEF HInv
  <1>5. CASE \E on \in BOOLEAN : Unlock(on)
    <2>1. PICK on \in BOOLEAN : Unlock(on)
      BY <1>5
    <2> DEFINE h == [hook EXCEPT !.unlocked = on]
    <2>2. /\ h \in HookState /\ h.joining = hook.joining /\ h.reclaiming = hook.reclaiming
          /\ h.loading = hook.loading /\ h.current = hook.current /\ h.list = hook.list
      BY <1>1 DEF HookState
    <2>3. hook' = Offering(h) /\ layout # "off"
      BY <1>1, <2>1 DEF Unlock, PlaceFits
    <2>4. UNCHANGED <<held, joined, asHost, layout, calls>>
      BY <2>1 DEF Unlock, shell
    <2> HIDE DEF h
    <2>5. /\ hook' \in HookState /\ hook'.joining = h.joining /\ hook'.reclaiming = h.reclaiming
          /\ hook'.loading = h.loading /\ hook'.current = h.current /\ hook'.list = h.list
          /\ hook'.cta => hook'.unlocked \/ (asHost /\ ~hook'.ticket)
      BY <2>2, <2>3, OfferFits
    <2>6. ToolsFit(hook', joined, asHost, layout) /\ Backed(hook', calls)
      BY <1>1, <2>2, <2>3, <2>5 DEF ToolsFit, Backed
    <2>7. QED
      BY <1>2, <2>4, <2>6 DEF HInv
  <1>6. CASE CurrentKnown \/ CurrentFails \/ ListKnown
    <2>1. hook.current \/ hook.list
      BY <1>6 DEF CurrentKnown, CurrentFails, ListKnown
    <2>2. layout # "off"
      BY <1>1, <2>1 DEF ToolsFit, Fresh
    <2>3. /\ hook' \in HookState /\ hook'.joining = hook.joining
          /\ hook'.reclaiming = hook.reclaiming /\ hook'.cta = hook.cta
          /\ hook'.unlocked = hook.unlocked /\ hook'.ticket = hook.ticket
          /\ hook'.current => hook.current
          /\ \/ hook'.list = hook.list /\ hook'.loading = hook.loading
             \/ hook'.list = FALSE /\ hook'.loading = FALSE
      BY <1>1, <1>6 DEF CurrentKnown, CurrentFails, ListKnown, HookState
    <2>4. ToolsFit(hook', joined, asHost, layout) /\ Backed(hook', calls)
      BY <1>1, <2>2, <2>3 DEF ToolsFit, Backed
    <2>5. QED
      BY <1>2, <1>6, <2>4 DEF CurrentKnown, CurrentFails, ListKnown,
         shell, HInv
  <1>7. CASE Reconnects
    <2>1. joined /\ UNCHANGED <<held, joined, asHost, layout, calls>>
          /\ hook' = IF layout = "off" THEN hook ELSE Looking(hook)
      BY <1>7 DEF Reconnects, shell
    <2>2. ToolsFit(hook', joined, asHost, layout) /\ Backed(hook', calls)
      BY <1>1, <2>1 DEF Looking, ToolsFit, Backed, HookState
    <2>3. QED
      BY <1>2, <2>1, <2>2 DEF HInv
  <1>8. CASE OwnerComes \/ OwnerGoes \/ UNCHANGED hostVars
    BY <1>1, <1>2, <1>8 DEF OwnerComes, OwnerGoes, hostVars, shell, HInv
  <1>9. QED
    BY <1>3, <1>4, <1>5, <1>6, <1>7, <1>8

\* HInv is an invariant of HostPage.
LEMMA AlwaysHInv == HostSpec => []HInv
  <1>1. HostInit => HInv
    <2> SUFFICES ASSUME HostInit PROVE HInv
      OBVIOUS
    <2>1. ToolsFit(hook, joined, asHost, layout) /\ Backed(hook, calls)
      BY FreshFits DEF HostInit
    <2>2. RunFits(calls) /\ Len(calls) = 0 /\ DOMAIN calls = {} /\ 0 <= MaxUnderWay
      BY HostPageAssumption DEF HostInit, RunFits
    <2>3. QED
      BY <2>1, <2>2 DEF HostInit, HInv, PlaceFits
  <1>2. HInv /\ [HostNext]_hostVars => HInv'
    <2> SUFFICES ASSUME HInv, [HostNext]_hostVars PROVE HInv'
      OBVIOUS
    <2>1. CASE \E s \in DOMAIN calls : CallGoes(s)
      BY <2>1, JoiningKeeps, ReclaimKeeps, LeavingKeeps, ToolKeeps DEF CallGoes
    <2>2. CASE Press
      BY <2>2, PressesKeep
    <2>3. CASE SessionEnds
      BY <2>3, LeavingKeeps
    <2>4. QED
      BY <2>1, <2>2, <2>3, PageKeeps DEF HostNext
  <1>3. QED
    BY <1>1, <1>2, PTL DEF HostSpec

\* Every call is at a stage of its kind and within the bound, and a hook shows and
\* looks for nothing its page does not have.
THEOREM HostTyped == HostSpec => []HostTypeOK
  BY AlwaysHInv, HInvMeans, PTL

\* No flag is up without a call behind it, of any number of calls under way.
THEOREM HostBusyMeansBusy == HostSpec => []BusyMeansBusy
  BY AlwaysHInv, HInvMeans, PTL
=============================================================================
