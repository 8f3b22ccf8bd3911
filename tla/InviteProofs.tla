---------------------------- MODULE InviteProofs ----------------------------
(***************************************************************************)
(* Proofs about Invite, for any requests, rooms, users, uses and times.    *)
(***************************************************************************)
EXTENDS Invite, FiniteSetTheorems, TLAPS

\* The awaits of each handler, and its argument.
Fits(h, label) ==
    \/ h = "none" /\ label = "idle"
    \/ h = "create" /\ label \in {"expire", "enlist", "renew", "ok", "dropped"}
    \/ h = "redeem" /\ label \in {"mint", "ok", "denied", "dropped"}
    \/ h = "revoke" /\ label \in {"delete", "unlist", "ok", "denied", "dropped"}
    \/ h = "list" /\ label \in {"scan", "prune", "ok", "dropped"}
    \/ h = "join" /\ label \in {"ok", "denied"}
Presented == [room : Room, user : User, key : Request]

OpAtPc ==
    \A r \in Request : /\ Fits(op[r], pc[r])
                       /\ op[r] # "none" => arg[r] \in Arg
                       /\ op[r] \in {"redeem", "join"} => arg[r] \in Presented

\* A ticket is of the room its creation was for, and does not go before it has an
\* expiry.
TicketOfItsCreate ==
    \A k \in Request : /\ Exists(k) => op[k] = "create" /\ ticket[k].room = arg[k].room
                       /\ pc[k] = "expire" => Exists(k) /\ ticket[k].ttl = Persistent

\* What can be named has been created, and goes on having been.
Found(k) == op[k] = "create" /\ pc[k] # "expire"
ListedFound == \A m \in Room : \A k \in index[m].members : Found(k)
KeyFound == \A r \in Request : op[r] \in {"redeem", "revoke"} => Found(arg[r].key)

\* A revocation past its delete has nothing left to delete.
RevokedGone ==
    \A r \in Request :
        (op[r] = "revoke" /\ pc[r] \in {"unlist", "ok"}) => ~Exists(arg[r].key)

\* A redemption that was charged is of a ticket of its room, and a token is what
\* its redemption asked for.
ChargedFits ==
    \A r \in Request :
        (op[r] = "redeem" /\ pc[r] # "denied") => arg[arg[r].key].room = arg[r].room
TokenOfItsRedeem ==
    \A k \in Request :
        token[k] # Absent => /\ op[k] = "redeem" /\ pc[k] = "ok"
                             /\ token[k].room = arg[k].room /\ token[k].user = arg[k].user

\* A join that was admitted has used up the token of a redemption like it, and no
\* other join has.
JoinSpent ==
    \A r \in Request :
        (op[r] = "join" /\ pc[r] = "ok") =>
            LET k == arg[r].key IN
            /\ op[k] = "redeem" /\ pc[k] = "ok" /\ token[k] = Absent
            /\ arg[k].room = arg[r].room /\ arg[k].user = arg[r].user
            /\ \A q \in Request : (op[q] = "join" /\ pc[q] = "ok" /\ arg[q].key = k) => q = r

IInv == /\ TypeOK /\ OpAtPc /\ TicketOfItsCreate /\ ListedFound /\ KeyFound
        /\ RevokedGone /\ ChargedFits /\ TokenOfItsRedeem /\ JoinSpent

LEMMA Times ==
    /\ Persistent \in Nat /\ Persistent # 0
    /\ InviteTtl \in Ttl \ {0} /\ RedeemTtl \in Ttl \ {0} /\ Persistent \in Ttl \ {0} /\ 0 \in Ttl
    /\ \A t \in Ttl \ {0} : t # 1 => t - 1 \in Ttl \ {0}
BY InviteAssumption DEF Persistent, Ttl

LEMMA InvInit == Init => IInv
  <1> SUFFICES ASSUME Init PROVE IInv
    OBVIOUS
  <1> USE DEF Init
  <1>1. TypeOK
    BY Times DEF TypeOK, NoIndex, Index
  <1>2. OpAtPc /\ TicketOfItsCreate /\ ListedFound /\ KeyFound
    BY DEF OpAtPc, Fits, TicketOfItsCreate, ListedFound, KeyFound, Exists, NoIndex
  <1>3. RevokedGone /\ ChargedFits /\ TokenOfItsRedeem /\ JoinSpent
    BY DEF RevokedGone, ChargedFits, TokenOfItsRedeem, JoinSpent
  <1>4. QED
    BY <1>1, <1>2, <1>3 DEF IInv

\* Whether a ticket that is there after a step was there before, in its room.
Kept(k) == Exists(k)' => Exists(k) /\ ticket'[k].room = ticket[k].room

\* A request begins: h and a are its handler and argument.
LEMMA ArriveInv ==
    ASSUME IInv, TypeOK', NEW r \in Request, NEW h, NEW a \in Arg, NEW label,
           Arrive(r, h, a, label), Fits(h, label), h # "none", label # "dropped",
           h \in {"redeem", "join"} => a \in Presented,
           \A k \in Request \ {r} : Kept(k) /\ (pc[k] = "expire" => ticket'[k] = ticket[k]),
           IF h = "create" THEN /\ label = "expire" /\ Exists(r)' /\ ticket'[r].room = a.room
                                /\ ticket'[r].ttl = Persistent
                           ELSE ~Exists(r)',
           \A m \in Room : index'[m].members \subseteq index[m].members,
           \A k \in Request : token'[k] \in {token[k], Absent},
           h \in {"redeem", "revoke"} => Found(a.key) /\ a.key # r,
           h = "revoke" => label # "ok" /\ (label = "unlist" => ~Exists(a.key)'),
           h = "redeem" => label # "ok" /\ (label # "denied" => arg[a.key].room = a.room),
           (h = "join" /\ label = "ok") =>
               /\ token[a.key] # Absent /\ token'[a.key] = Absent
               /\ token[a.key].room = a.room /\ token[a.key].user = a.user
    PROVE  IInv'
  <1> USE DEF Arrive, Goto
  <1>1. /\ pc[r] = "idle" /\ op[r] = "none"
        /\ op'[r] = h /\ pc'[r] = label /\ arg'[r] = a
        /\ \A k \in Request : k # r => op'[k] = op[k] /\ pc'[k] = pc[k] /\ arg'[k] = arg[k]
    BY DEF IInv, TypeOK, OpAtPc, Fits
  <1>2. OpAtPc'
    <2> SUFFICES ASSUME NEW k \in Request
                 PROVE  /\ Fits(op'[k], pc'[k])
                        /\ op'[k] # "none" => arg'[k] \in Arg
                        /\ op'[k] \in {"redeem", "join"} => arg'[k] \in Presented
      BY DEF OpAtPc, Fits, Presented, Arg
    <2>1. CASE k = r
      BY <1>1, <2>1
    <2>2. CASE k # r
      BY <1>1, <2>2 DEF IInv, OpAtPc
    <2>3. QED
      BY <2>1, <2>2
  <1>3. TicketOfItsCreate'
    <2> SUFFICES ASSUME NEW k \in Request
                 PROVE  /\ Exists(k)' => op'[k] = "create" /\ ticket'[k].room = arg'[k].room
                        /\ pc'[k] = "expire" => Exists(k)' /\ ticket'[k].ttl = Persistent
      BY DEF TicketOfItsCreate, Exists, Persistent
    <2>1. CASE k = r
      BY <1>1, <2>1 DEF Fits, Exists
    <2>2. CASE k # r
      BY <1>1, <2>2 DEF IInv, TicketOfItsCreate, Kept, Exists
    <2>3. QED
      BY <2>1, <2>2
  <1>4. \A k \in Request : Found(k) => k # r /\ Found(k)'
    BY <1>1 DEF Found
  <1>5. ListedFound'
    BY <1>4 DEF IInv, TypeOK, Index, ListedFound
  <1>6. \A k \in Request : op[k] # "none" => (op[k] # "list" => arg[k].key \in Request)
    BY DEF IInv, OpAtPc, Arg
  <1>7. KeyFound'
    BY <1>1, <1>4, <1>6 DEF IInv, KeyFound, Arg
  <1>8. RevokedGone'
    BY <1>1, <1>6 DEF IInv, RevokedGone, KeyFound, Found, Kept
  <1>9. ChargedFits'
    BY <1>1, <1>4, <1>6 DEF IInv, ChargedFits, KeyFound, Fits, Arg
  <1>10. TokenOfItsRedeem'
    BY <1>1 DEF IInv, TokenOfItsRedeem
  <1>11. JoinSpent'
    BY <1>1, <1>6 DEF IInv, JoinSpent, TokenOfItsRedeem, Arg
  <1>12. QED
    BY <1>2, <1>3, <1>5, <1>7, <1>8, <1>9, <1>10, <1>11 DEF IInv

\* A request goes on with its handler; only a listing changes its own argument.
LEMMA MoveInv ==
    ASSUME IInv, TypeOK', NEW r \in Request, NEW label, Goto(r, label), op' = op,
           pc[r] \notin {"idle", "ok", "denied", "dropped"},
           Fits(op[r], label), label \notin {"idle", "expire", "denied"},
           \A k \in Request \ {r} : arg'[k] = arg[k],
           IF op[r] = "list" THEN arg'[r] \in Arg ELSE arg'[r] = arg[r],
           \A k \in Request : Kept(k),
           \A k \in Request \ {r} : pc[k] = "expire" => ticket'[k] = ticket[k],
           \A m \in Room : index'[m].members \subseteq
                               index[m].members \cup (IF op[r] = "create" THEN {r} ELSE {}),
           \A k \in Request \ {r} : token'[k] = token[k],
           \/ token'[r] = token[r]
           \/ /\ op[r] = "redeem" /\ label = "ok"
              /\ token'[r].room = arg[r].room /\ token'[r].user = arg[r].user,
           (op[r] = "revoke" /\ label \in {"unlist", "ok"}) => ~Exists(arg[r].key)'
    PROVE  IInv'
  <1>1. /\ pc'[r] = label /\ op[r] \notin {"none", "join"}
        /\ \A k \in Request : op'[k] = op[k] /\ (k # r => pc'[k] = pc[k])
        /\ \A k \in Request : op[k] # "list" => arg'[k] = arg[k]
    BY DEF Goto, IInv, TypeOK, OpAtPc, Fits
  <1>2. OpAtPc'
    <2> SUFFICES ASSUME NEW k \in Request
                 PROVE  /\ Fits(op'[k], pc'[k])
                        /\ op'[k] # "none" => arg'[k] \in Arg
                        /\ op'[k] \in {"redeem", "join"} => arg'[k] \in Presented
      BY DEF OpAtPc, Fits, Presented, Arg
    <2>1. CASE k = r
      BY <1>1, <2>1 DEF IInv, OpAtPc
    <2>2. CASE k # r
      BY <1>1, <2>2 DEF IInv, OpAtPc
    <2>3. QED
      BY <2>1, <2>2
  <1>3. TicketOfItsCreate'
    <2> SUFFICES ASSUME NEW k \in Request
                 PROVE  /\ Exists(k)' => op'[k] = "create" /\ ticket'[k].room = arg'[k].room
                        /\ pc'[k] = "expire" => Exists(k)' /\ ticket'[k].ttl = Persistent
      BY DEF TicketOfItsCreate, Exists, Persistent
    <2>1. CASE k = r
      BY <1>1, <2>1 DEF IInv, TicketOfItsCreate, Kept, Exists
    <2>2. CASE k # r
      BY <1>1, <2>2 DEF IInv, TicketOfItsCreate, Kept, Exists
    <2>3. QED
      BY <2>1, <2>2
  <1>4. \A k \in Request : Found(k) => Found(k)'
    BY <1>1 DEF Found
  <1>5. op[r] = "create" => Found(r)'
    BY <1>1 DEF Found
  <1>6. ListedFound'
    BY <1>4, <1>5 DEF IInv, TypeOK, Index, ListedFound
  <1>7. \A k \in Request : op[k] \notin {"none", "list"} => arg[k].key \in Request
    BY DEF IInv, OpAtPc, Arg
  <1>8. KeyFound'
    BY <1>1, <1>4, <1>7 DEF IInv, KeyFound
  <1>9. RevokedGone'
    BY <1>1, <1>7 DEF IInv, RevokedGone, KeyFound, Found, Kept, Exists
  <1>10. ChargedFits'
    <2>1. \A k \in Request : (op[k] = "redeem" /\ pc'[k] # "denied") => pc[k] # "denied"
      BY <1>1
    <2>2. QED
      BY <1>1, <1>7, <2>1 DEF IInv, ChargedFits, KeyFound, Found
  <1>11. TokenOfItsRedeem'
    BY <1>1 DEF IInv, TokenOfItsRedeem
  <1>12. JoinSpent'
    BY <1>1, <1>7 DEF IInv, JoinSpent
  <1>13. QED
    BY <1>2, <1>3, <1>6, <1>8, <1>9, <1>10, <1>11, <1>12 DEF IInv

\* The store keeps its types.
LEMMA ListingType ==
    ASSUME TypeOK, NEW m \in Room, NEW k \in Request
    PROVE  Listing(m, k) \in [Room -> Index]
  <1>1. index[m].members \cup {k} \in SUBSET Request
    BY DEF TypeOK, Index
  <1>2. QED
    BY <1>1, Times DEF Listing, TypeOK, Index

LEMMA UnlistingType ==
    ASSUME TypeOK, NEW m \in Room, NEW k
    PROVE  /\ Unlisting(m, k) \in [Room -> Index]
           /\ \A n \in Room : Unlisting(m, k)[n].members \subseteq index[n].members
  <1> DEFINE rest == index[m].members \ {k}
             new == IF rest = {} THEN NoIndex ELSE [members |-> rest, ttl |-> index[m].ttl]
  <1>1. index \in [Room -> Index] /\ rest \in SUBSET Request
    BY DEF TypeOK, Index
  <1>2. new \in Index /\ new.members = rest
    BY <1>1, Times DEF NoIndex, Index
  <1>3. Unlisting(m, k) = [index EXCEPT ![m] = new]
    BY DEF Unlisting
  <1> HIDE DEF new
  <1>4. QED
    BY <1>1, <1>2, <1>3

LEMMA OlderTypes ==
    /\ \A t \in Ticket \cup {Absent} : Older(t) \in Ticket \cup {Absent}
    /\ \A t \in Token \cup {Absent} : Older(t) \in Token \cup {Absent}
    /\ \A x \in Index : OlderIndex(x) \in Index /\ OlderIndex(x).members \subseteq x.members
    /\ \A t \in Ticket : Older(t) # Absent => Older(t).room = t.room
    /\ \A t \in Token : Older(t) # Absent => Older(t).room = t.room /\ Older(t).user = t.user
    /\ Older(Absent) = Absent
  <1>1. ASSUME NEW t \in Ticket
        PROVE  Older(t) \in Ticket \cup {Absent} /\ (Older(t) # Absent => Older(t).room = t.room)
    BY Times DEF Older, Ticket, Absent
  <1>2. ASSUME NEW t \in Token
        PROVE  /\ Older(t) \in Token \cup {Absent}
               /\ Older(t) # Absent => Older(t).room = t.room /\ Older(t).user = t.user
    BY Times DEF Older, Token, Absent
  <1>3. Older(Absent) = Absent
    BY DEF Older
  <1>4. ASSUME NEW x \in Index
        PROVE  OlderIndex(x) \in Index /\ OlderIndex(x).members \subseteq x.members
    BY Times DEF OlderIndex, Index, NoIndex
  <1>5. QED
    BY <1>1, <1>2, <1>3, <1>4

LEMMA TickInv ==
    ASSUME IInv, Tick
    PROVE  IInv'
  <1>1. /\ op' = op /\ pc' = pc /\ arg' = arg /\ todo' = todo
        /\ \A k \in Request : ticket'[k] = Older(ticket[k]) /\ token'[k] = Older(token[k])
        /\ \A m \in Room : index'[m] = OlderIndex(index[m])
    BY DEF Tick
  <1>2. slow' \in BOOLEAN
    BY DEF Tick, IInv, TypeOK
  <1>3. TypeOK'
    <2>1. /\ ticket \in [Request -> Ticket \cup {Absent}]
          /\ token \in [Request -> Token \cup {Absent}]
          /\ index \in [Room -> Index]
      BY DEF IInv, TypeOK
    <2>2. ticket' \in [Request -> Ticket \cup {Absent}]
      BY <2>1, OlderTypes DEF Tick
    <2>3. token' \in [Request -> Token \cup {Absent}]
      BY <2>1, OlderTypes DEF Tick
    <2>4. index' \in [Room -> Index]
      BY <2>1, OlderTypes DEF Tick
    <2>5. QED
      BY <1>1, <1>2, <2>2, <2>3, <2>4 DEF IInv, TypeOK
  <1>4. \A k \in Request : Kept(k)
    BY <1>1, OlderTypes DEF Kept, Exists, IInv, TypeOK
  <1>5. \A k \in Request : ticket[k].ttl = Persistent => ticket'[k] = ticket[k]
    BY <1>1 DEF Older
  <1>6. \A k \in Request :
          /\ token[k] = Absent => token'[k] = Absent
          /\ token'[k] # Absent => /\ token[k] # Absent
                                   /\ token'[k].room = token[k].room
                                   /\ token'[k].user = token[k].user
    BY <1>1, OlderTypes DEF IInv, TypeOK
  <1>7. \A m \in Room : index'[m].members \subseteq index[m].members
    BY <1>1, OlderTypes DEF IInv, TypeOK
  <1>8. OpAtPc' /\ KeyFound' /\ ChargedFits'
    BY <1>1 DEF IInv, OpAtPc, Fits, KeyFound, Found, ChargedFits, Arg, Presented
  <1>9. TicketOfItsCreate'
    BY <1>1, <1>4, <1>5 DEF IInv, TicketOfItsCreate, Kept, Exists, Persistent
  <1>10. ListedFound'
    BY <1>1, <1>7 DEF IInv, ListedFound, Found
  <1>11. RevokedGone'
    BY <1>1, <1>4 DEF IInv, RevokedGone, KeyFound, Kept, Exists, OpAtPc, Arg
  <1>12. TokenOfItsRedeem'
    BY <1>1, <1>6 DEF IInv, TokenOfItsRedeem, Absent
  <1>13. JoinSpent'
    BY <1>1, <1>6 DEF IInv, JoinSpent, Absent, OpAtPc, Arg
  <1>14. QED
    BY <1>3, <1>8, <1>9, <1>10, <1>11, <1>12, <1>13 DEF IInv

\* What the steps below use of a request that has a handler.
LEMMA Arguments ==
    ASSUME IInv
    PROVE  /\ \A r \in Request :
                op[r] # "none" => arg[r] \in Arg /\ arg[r].room \in Room /\ arg[r].key \in Request
           /\ \A r \in Request : op[r] \in {"redeem", "join"} => arg[r].user \in User
           /\ \A m \in Room : NoIndex.members = {} /\ index[m].members \in SUBSET Request
           /\ \A r \in Request : op[r] = "none" => ~Exists(r) /\ ~Found(r) /\ token[r] = Absent
  <1>1. \A r \in Request :
          op[r] # "none" => arg[r] \in Arg /\ arg[r].room \in Room /\ arg[r].key \in Request
    BY DEF IInv, OpAtPc, Arg
  <1>2. \A r \in Request : op[r] \in {"redeem", "join"} => arg[r].user \in User
    BY DEF IInv, OpAtPc, Presented
  <1>3. \A m \in Room : NoIndex.members = {} /\ index[m].members \in SUBSET Request
    BY DEF IInv, TypeOK, Index, NoIndex
  <1>4. \A r \in Request : op[r] = "none" => ~Exists(r) /\ ~Found(r) /\ token[r] = Absent
    BY DEF IInv, TicketOfItsCreate, TokenOfItsRedeem, Found
  <1>5. QED
    BY <1>1, <1>2, <1>3, <1>4

LEMMA KnownFound ==
    ASSUME IInv, NEW k \in Request, Known(k)
    PROVE  Found(k)
  BY DEF IInv, Known, ListedFound, Found

LEMMA CreateInv ==
    ASSUME IInv, NEW r \in Request, UNCHANGED slow,
           CreateBegin(r) \/ CreateExpire(r) \/ CreateEnlist(r) \/ CreateRenew(r)
    PROVE  IInv'
  <1> USE DEF Fits, Kept
  <1>0. TypeOK
    BY DEF IInv
  <1>1. CASE CreateBegin(r)
    <2>1. PICK m \in Room :
            /\ Arrive(r, "create", [room |-> m, key |-> r], "expire")
            /\ ticket' = [ticket EXCEPT ![r] = [room |-> m, uses |-> MaxUses,
                                                ttl |-> Persistent]]
            /\ UNCHANGED <<index, token, todo>>
      BY <1>1 DEF CreateBegin
    <2>2. [room |-> m, key |-> r] \in Arg
      BY DEF Arg
    <2>3. [room |-> m, uses |-> MaxUses, ttl |-> Persistent] \in Ticket
      BY Times, InviteAssumption DEF Ticket
    <2>4. TypeOK'
      BY <1>0, <2>1, <2>2, <2>3 DEF TypeOK, Arrive, Goto
    <2>5. ticket'[r] = [room |-> m, uses |-> MaxUses, ttl |-> Persistent]
      BY <1>0, <2>1 DEF TypeOK
    <2>6. Exists(r)'
      BY <2>5, Times DEF Exists, Absent
    <2>7. \A k \in Request \ {r} : ticket'[k] = ticket[k]
      BY <1>0, <2>1 DEF TypeOK
    <2>8. QED
      BY <2>1, <2>2, <2>4, <2>5, <2>6, <2>7, ArriveInv DEF Exists
  <1>2. CASE CreateExpire(r)
    <2>1. ticket[r] \in Ticket /\ op[r] = "create"
      BY <1>0, <1>2 DEF CreateExpire, IInv, TicketOfItsCreate, OpAtPc, TypeOK, Exists
    <2>2. [ticket[r] EXCEPT !.ttl = InviteTtl] \in Ticket
      BY <2>1, Times DEF Ticket
    <2>3. TypeOK'
      BY <1>0, <1>2, <2>2 DEF TypeOK, CreateExpire, Goto
    <2>4. \A k \in Request : Kept(k) /\ (k # r => ticket'[k] = ticket[k])
      BY <1>0, <1>2, <2>1 DEF TypeOK, CreateExpire, Exists, Ticket, Absent
    <2>5. QED
      BY <1>2, <2>1, <2>3, <2>4, MoveInv DEF CreateExpire
  <1>3. CASE CreateEnlist(r)
    <2>1. op[r] = "create" /\ arg[r].room \in Room
      BY <1>3, Arguments DEF CreateEnlist, IInv, OpAtPc
    <2>2. index' \in [Room -> Index]
      BY <1>0, <1>3, <2>1, ListingType DEF CreateEnlist
    <2>3. TypeOK'
      BY <1>0, <1>3, <2>2 DEF TypeOK, CreateEnlist, Goto
    <2>4. \A m \in Room : index'[m].members \subseteq index[m].members \cup {r}
      BY <1>0, <1>3, <2>1 DEF TypeOK, Index, CreateEnlist, Listing
    <2>5. /\ \A k \in Request : Kept(k)
          /\ \A m \in Room : index'[m].members \subseteq
                               index[m].members \cup (IF op[r] = "create" THEN {r} ELSE {})
      BY <1>3, <2>1, <2>4 DEF CreateEnlist, Exists
    <2>6. QED
      BY <1>3, <2>1, <2>3, <2>5, MoveInv DEF CreateEnlist
  <1>4. CASE CreateRenew(r)
    <2>1. op[r] = "create" /\ arg[r].room \in Room
      BY <1>4, Arguments DEF CreateRenew, IInv, OpAtPc
    <2>2. index' \in [Room -> Index] /\ \A m \in Room : index'[m].members = index[m].members
      BY <1>0, <1>4, <2>1, Times DEF TypeOK, Index, CreateRenew
    <2>3. TypeOK'
      BY <1>0, <1>4, <2>2 DEF TypeOK, CreateRenew, Goto
    <2>4. /\ \A k \in Request : Kept(k)
          /\ \A m \in Room : index'[m].members \subseteq
                               index[m].members \cup (IF op[r] = "create" THEN {r} ELSE {})
      BY <1>4, <2>2 DEF CreateRenew, Exists
    <2>5. QED
      BY <1>4, <2>1, <2>3, <2>4, MoveInv DEF CreateRenew
  <1>5. QED
    BY <1>1, <1>2, <1>3, <1>4

LEMMA ChargedType ==
    ASSUME TypeOK, NEW k \in Request, Exists(k)
    PROVE  /\ Charged(k) \in [Request -> Ticket \cup {Absent}]
           /\ Charged(k)[k] # Absent => Charged(k)[k].room = ticket[k].room
           /\ \A q \in Request \ {k} : Charged(k)[q] = ticket[q]
  <1> DEFINE new == IF ticket[k].uses = 1 THEN Absent ELSE [ticket[k] EXCEPT !.uses = @ - 1]
  <1>1. ticket \in [Request -> Ticket \cup {Absent}] /\ ticket[k] \in Ticket
    BY DEF TypeOK, Exists
  <1>2. new \in Ticket \cup {Absent} /\ (new # Absent => new.room = ticket[k].room)
    BY <1>1, InviteAssumption DEF Ticket
  <1>3. Charged(k) = [ticket EXCEPT ![k] = new]
    BY DEF Charged
  <1> HIDE DEF new
  <1>4. QED
    BY <1>1, <1>2, <1>3

LEMMA RedeemInv ==
    ASSUME IInv, NEW r \in Request, UNCHANGED slow, RedeemBegin(r) \/ RedeemMint(r)
    PROVE  IInv'
  <1> USE DEF Fits, Kept
  <1>0. TypeOK
    BY DEF IInv
  <1>1. CASE RedeemBegin(r)
    <2>1. PICK m \in Room, u \in User, k \in Request, goodCode \in BOOLEAN :
            /\ Known(k)
            /\ \/ RedeemRefused(r, m, u, k, goodCode)
               \/ RedeemCharged(r, m, u, k, goodCode)
      BY <1>1 DEF RedeemBegin
    <2>2. Found(k) /\ By(m, u, k) \in Presented /\ By(m, u, k) \in Arg
      BY <2>1, KnownFound DEF By, Presented, Arg
    <2>3. pc[r] = "idle" /\ op[r] = "none" /\ k # r /\ ~Exists(r)
      BY <2>1, <2>2, Arguments
         DEF RedeemRefused, RedeemCharged, Arrive, IInv, OpAtPc, Found
    <2>4. CASE RedeemRefused(r, m, u, k, goodCode)
      <3>1. /\ index' \in [Room -> Index]
            /\ \A n \in Room : index'[n].members \subseteq index[n].members
        BY <1>0, <2>4, UnlistingType DEF RedeemRefused, TypeOK
      <3>2. TypeOK'
        BY <1>0, <2>2, <2>4, <3>1 DEF RedeemRefused, TypeOK, Arrive, Goto
      <3>3. \A q \in Request : Kept(q) /\ ticket'[q] = ticket[q]
        BY <2>4 DEF RedeemRefused, Exists
      <3>4. ~Exists(r)'
        BY <2>3, <2>4 DEF RedeemRefused, Exists
      <3>5. QED
        BY <2>2, <2>3, <2>4, <3>1, <3>2, <3>3, <3>4, ArriveInv DEF RedeemRefused, By
    <2>5. CASE RedeemCharged(r, m, u, k, goodCode)
      <3>1. /\ index' \in [Room -> Index]
            /\ \A n \in Room : index'[n].members \subseteq index[n].members
        BY <1>0, <2>5, UnlistingType DEF RedeemCharged, TypeOK
      <3>2. /\ ticket' \in [Request -> Ticket \cup {Absent}]
            /\ ticket'[k] # Absent => ticket'[k].room = ticket[k].room
            /\ \A q \in Request \ {k} : ticket'[q] = ticket[q]
        BY <1>0, <2>5, ChargedType DEF RedeemCharged
      <3>3. TypeOK'
        BY <1>0, <2>2, <2>5, <3>1, <3>2 DEF RedeemCharged, TypeOK, Arrive, Goto
      <3>4. \A q \in Request : Kept(q) /\ (pc[q] = "expire" => ticket'[q] = ticket[q])
        BY <2>2, <2>5, <3>2 DEF RedeemCharged, Exists, Found
      <3>5. ~Exists(r)'
        BY <2>3, <3>2 DEF Exists
      <3>6. arg[k].room = m
        BY <2>5 DEF RedeemCharged, IInv, TicketOfItsCreate
      <3>7. QED
        BY <2>2, <2>3, <2>5, <3>1, <3>3, <3>4, <3>5, <3>6, ArriveInv DEF RedeemCharged, By
    <2>6. QED
      BY <2>1, <2>4, <2>5
  <1>2. CASE RedeemMint(r)
    <2>1. op[r] = "redeem" /\ arg[r].room \in Room /\ arg[r].user \in User
      BY <1>2, Arguments DEF RedeemMint, IInv, OpAtPc
    <2>2. [room |-> arg[r].room, user |-> arg[r].user, ttl |-> RedeemTtl] \in Token
      BY <2>1, Times DEF Token
    <2>3. TypeOK'
      BY <1>0, <1>2, <2>2 DEF TypeOK, RedeemMint, Goto
    <2>4. /\ token'[r].room = arg[r].room /\ token'[r].user = arg[r].user
          /\ \A k \in Request \ {r} : token'[k] = token[k]
      BY <1>0, <1>2 DEF TypeOK, RedeemMint
    <2>5. \A k \in Request : Kept(k)
      BY <1>2 DEF RedeemMint, Exists
    <2>6. QED
      BY <1>2, <2>1, <2>3, <2>4, <2>5, MoveInv DEF RedeemMint
  <1>3. QED
    BY <1>1, <1>2

LEMMA RevokeInv ==
    ASSUME IInv, NEW r \in Request, UNCHANGED slow,
           RevokeBegin(r) \/ RevokeDelete(r) \/ RevokeUnlist(r)
    PROVE  IInv'
  <1> USE DEF Fits, Kept
  <1>0. TypeOK
    BY DEF IInv
  <1>1. CASE RevokeBegin(r)
    <2>1. PICK m \in Room, k \in Request :
            /\ Known(k)
            /\ Arrive(r, "revoke", [room |-> m, key |-> k],
                      IF ~Exists(k) THEN "unlist"
                      ELSE IF ticket[k].room = m THEN "delete"
                      ELSE "denied")
            /\ UNCHANGED <<ticket, index, token, todo>>
      BY <1>1 DEF RevokeBegin, store
    <2>2. Found(k) /\ [room |-> m, key |-> k] \in Arg
      BY <2>1, KnownFound DEF Arg
    <2>3. pc[r] = "idle" /\ op[r] = "none" /\ k # r /\ ~Exists(r)
      BY <2>1, <2>2, Arguments DEF Arrive, IInv, OpAtPc, Found
    <2>4. TypeOK'
      BY <1>0, <2>1, <2>2 DEF TypeOK, Arrive, Goto
    <2>5. \A q \in Request : Kept(q) /\ (Exists(q)' <=> Exists(q))
      BY <2>1 DEF Exists
    <2>6. PICK label \in {"unlist", "delete", "denied"} :
            /\ Arrive(r, "revoke", [room |-> m, key |-> k], label)
            /\ label = "unlist" => ~Exists(k)
      BY <2>1
    <2>7. QED
      BY <2>1, <2>2, <2>3, <2>4, <2>5, <2>6, ArriveInv
  <1>2. CASE RevokeDelete(r)
    <2>1. op[r] = "revoke" /\ arg[r].key \in Request /\ Found(arg[r].key)
      BY <1>2, Arguments DEF RevokeDelete, IInv, OpAtPc, KeyFound
    <2>2. TypeOK'
      BY <1>0, <1>2 DEF TypeOK, RevokeDelete, Goto
    <2>3. /\ ticket'[arg[r].key] = Absent
          /\ \A k \in Request : k # arg[r].key => ticket'[k] = ticket[k]
      BY <1>0, <1>2, <2>1 DEF TypeOK, RevokeDelete
    <2>4. /\ \A k \in Request : Kept(k) /\ (pc[k] = "expire" => ticket'[k] = ticket[k])
          /\ ~Exists(arg[r].key)'
      BY <1>2, <2>1, <2>3 DEF Exists, Found, RevokeDelete
    <2>5. QED
      BY <1>2, <2>1, <2>2, <2>4, MoveInv DEF RevokeDelete
  <1>3. CASE RevokeUnlist(r)
    <2>1. op[r] = "revoke" /\ arg[r].key \in Request /\ arg[r].room \in Room /\ ~Exists(arg[r].key)
      BY <1>3, Arguments DEF RevokeUnlist, IInv, OpAtPc, RevokedGone
    <2>2. /\ index' \in [Room -> Index]
          /\ \A n \in Room : index'[n].members \subseteq index[n].members
      BY <1>0, <1>3, <2>1, UnlistingType DEF RevokeUnlist
    <2>3. TypeOK'
      BY <1>0, <1>3, <2>2 DEF TypeOK, RevokeUnlist, Goto
    <2>4. /\ \A k \in Request : Kept(k)
          /\ ~Exists(arg[r].key)'
      BY <1>3, <2>1 DEF Exists, RevokeUnlist
    <2>5. QED
      BY <1>3, <2>1, <2>2, <2>3, <2>4, MoveInv DEF RevokeUnlist
  <1>4. QED
    BY <1>1, <1>2, <1>3

LEMMA ListInv ==
    ASSUME IInv, NEW r \in Request, UNCHANGED slow, ListBegin(r) \/ ListScan(r) \/ ListPrune(r)
    PROVE  IInv'
  <1> USE DEF Fits, Kept
  <1>0. TypeOK
    BY DEF IInv
  <1>1. CASE ListBegin(r)
    <2>1. PICK m \in Room :
            /\ Arrive(r, "list", [room |-> m, key |-> r], "scan")
            /\ todo' = [todo EXCEPT ![r] = index[m].members]
            /\ UNCHANGED <<ticket, index, token>>
      BY <1>1 DEF ListBegin, store
    <2>2. [room |-> m, key |-> r] \in Arg
      BY DEF Arg
    <2>3. pc[r] = "idle" /\ ~Exists(r)
      BY <2>1, Arguments DEF Arrive, IInv, OpAtPc
    <2>4. index[m].members \in SUBSET Request
      BY Arguments
    <2>5. TypeOK'
      BY <1>0, <2>1, <2>2, <2>4 DEF TypeOK, Arrive, Goto
    <2>6. \A q \in Request : Kept(q) /\ (Exists(q)' <=> Exists(q))
      BY <2>1 DEF Exists
    <2>7. QED
      BY <2>1, <2>2, <2>3, <2>5, <2>6, ArriveInv
  <1>2. CASE ListScan(r)
    <2>1. op[r] = "list" /\ arg[r] \in Arg /\ pc[r] = "scan"
      BY <1>2, Arguments DEF ListScan, IInv, OpAtPc
    <2>2. /\ \A k \in Request : Kept(k)
          /\ UNCHANGED <<ticket, index, token, op>>
      BY <1>2 DEF Exists, ListScan, store
    <2>3. PICK label \in {"scan", "prune", "ok"} : Goto(r, label)
      BY <1>0, <1>2, <2>1 DEF ListScan, Goto, TypeOK
    <2>4. todo' \in [Request -> SUBSET Request]
      BY <1>0, <1>2 DEF ListScan, TypeOK
    <2>5. \A k \in Request : [arg[r] EXCEPT !.key = k] \in Arg
      BY <2>1 DEF Arg
    <2>6. /\ arg'[r] \in Arg /\ arg' \in [Request -> Arg \cup {NoArg}]
          /\ \A k \in Request \ {r} : arg'[k] = arg[k]
      <3>1. CASE UNCHANGED arg
        BY <1>0, <2>1, <3>1 DEF TypeOK
      <3>2. CASE \E k \in todo[r] : arg' = [arg EXCEPT ![r].key = k]
        BY <1>0, <2>1, <2>5, <3>2 DEF TypeOK
      <3>3. QED
        BY <1>2, <3>1, <3>2 DEF ListScan
    <2>7. TypeOK'
      BY <1>0, <2>2, <2>3, <2>4, <2>6 DEF TypeOK, Goto
    <2>8. QED
      BY <2>1, <2>2, <2>3, <2>6, <2>7, MoveInv
  <1>3. CASE ListPrune(r)
    <2>1. op[r] = "list" /\ arg[r] \in Arg /\ arg[r].room \in Room
      BY <1>3, Arguments DEF ListPrune, IInv, OpAtPc
    <2>2. /\ index' \in [Room -> Index]
          /\ \A n \in Room : index'[n].members \subseteq index[n].members
      BY <1>0, <1>3, <2>1, UnlistingType DEF ListPrune
    <2>3. TypeOK'
      BY <1>0, <1>3, <2>2 DEF TypeOK, ListPrune, Goto
    <2>4. \A k \in Request : Kept(k)
      BY <1>3 DEF Exists, ListPrune
    <2>5. QED
      BY <1>3, <2>1, <2>2, <2>3, <2>4, MoveInv DEF ListPrune
  <1>4. QED
    BY <1>1, <1>2, <1>3

LEMMA JoinInv ==
    ASSUME IInv, NEW r \in Request, UNCHANGED slow, JoinConsume(r)
    PROVE  IInv'
  <1> USE DEF Fits, Kept
  <1>0. TypeOK
    BY DEF IInv
  <1>1. PICK m \in Room, u \in User, k \in Request :
          /\ Presentable(k)
          /\ Arrive(r, "join", By(m, u, k),
                    IF token[k] # Absent /\ token[k].room = m /\ token[k].user = u
                    THEN "ok" ELSE "denied")
          /\ token' = [token EXCEPT ![k] = Absent]
          /\ UNCHANGED <<ticket, index, todo>>
    BY DEF JoinConsume
  <1>2. By(m, u, k) \in Presented /\ By(m, u, k) \in Arg
    BY DEF By, Presented, Arg
  <1>3. pc[r] = "idle" /\ ~Exists(r)
    BY <1>1, Arguments DEF Arrive, IInv, OpAtPc
  <1>4. PICK label \in {"ok", "denied"} :
          /\ Arrive(r, "join", By(m, u, k), label)
          /\ label = "ok" => token[k] # Absent /\ token[k].room = m /\ token[k].user = u
    BY <1>1
  <1>5. TypeOK'
    BY <1>0, <1>1, <1>2 DEF TypeOK, Arrive, Goto
  <1>6. /\ token'[k] = Absent
        /\ \A q \in Request : token'[q] \in {token[q], Absent}
    BY <1>0, <1>1 DEF TypeOK
  <1>7. \A q \in Request : Kept(q) /\ (Exists(q)' <=> Exists(q))
    BY <1>1 DEF Exists
  <1>8. QED
    BY <1>1, <1>2, <1>3, <1>4, <1>5, <1>6, <1>7, ArriveInv DEF By

LEMMA DropInv ==
    ASSUME IInv, NEW r \in Request, UNCHANGED slow, Drop(r)
    PROVE  IInv'
  <1>1. op[r] \notin {"none", "join"} /\ Fits(op[r], "dropped")
    BY DEF Drop, IInv, OpAtPc, Fits
  <1>2. arg[r] \in Arg
    BY <1>1, Arguments DEF Drop
  <1>3. TypeOK'
    BY DEF IInv, TypeOK, Drop, Goto, store
  <1>4. \A k \in Request : Kept(k)
    BY DEF Drop, store, Kept, Exists
  <1>5. QED
    BY <1>1, <1>2, <1>3, <1>4, MoveInv DEF Drop, store

-----------------------------------------------------------------------------
\* The invariant holds in every state.
THEOREM Invariance == Spec => []IInv
  <1>1. IInv /\ [Next]_vars => IInv'
    <2> SUFFICES ASSUME IInv, [Next]_vars PROVE IInv'
      OBVIOUS
    <2>1. CASE Tick
      BY <2>1, TickInv
    <2>2. ASSUME NEW r \in Request, Step(r) \/ Drop(r), UNCHANGED slow
          PROVE  IInv'
      BY <2>2, CreateInv, RedeemInv, RevokeInv, ListInv, JoinInv, DropInv DEF Step
    <2>3. CASE UNCHANGED vars
      BY <2>3 DEF vars, IInv, TypeOK, OpAtPc, Fits, TicketOfItsCreate, Exists, ListedFound,
                  Found, KeyFound, RevokedGone, ChargedFits, TokenOfItsRedeem, JoinSpent,
                  Arg, Presented, Ticket, Token, Index, Ttl, Persistent, Absent, NoArg
    <2>4. QED
      BY <2>1, <2>2, <2>3 DEF Next
  <1>2. QED
    BY InvInit, <1>1, PTL DEF Spec

\* The store, and what the requests hold, keep their types: among them that no live
\* ticket has fewer than one use or more than MaxUses.
THEOREM TypeCorrect == Spec => []TypeOK
  <1>1. IInv => TypeOK
    BY DEF IInv
  <1>2. QED
    BY Invariance, <1>1, PTL

\* Once a revocation has been answered its ticket is gone for good, whatever the
\* redemptions, the creation and the other revocations of it were doing.
THEOREM RevocationIsFinal == Spec => []RevokedIsGone
  <1>1. IInv => RevokedIsGone
    BY DEF IInv, RevokedGone, RevokedIsGone
  <1>2. QED
    BY Invariance, <1>1, PTL

\* A redeem token admits at most one join, and only of the user and to the room that
\* its redemption, charged to a ticket of that room, was for.
THEOREM AdmissionIsSingle == Spec => []AdmittedOnceAsInvited
  <1>1. IInv => AdmittedOnceAsInvited
    <2> SUFFICES ASSUME IInv, NEW r \in Request, NEW q \in Request, op[r] = "join", pc[r] = "ok"
                 PROVE  /\ (op[q] = "join" /\ pc[q] = "ok" /\ arg[q].key = arg[r].key) => q = r
                        /\ arg[arg[r].key].room = arg[r].room
                        /\ arg[arg[r].key].user = arg[r].user
                        /\ arg[arg[arg[r].key].key].room = arg[r].room
      BY DEF AdmittedOnceAsInvited
    <2>1. arg[r].key \in Request
      BY Arguments
    <2>2. QED
      BY <2>1 DEF IInv, JoinSpent, ChargedFits
  <1>2. QED
    BY Invariance, <1>1, PTL

-----------------------------------------------------------------------------
\* The uses of a ticket, and the redemptions charged to it, which are finitely many.
UsesInv ==
    \A k \in Request :
        /\ IsFiniteSet(Charges(k)) /\ Cardinality(Charges(k)) <= MaxUses
        /\ Exists(k) => Cardinality(Charges(k)) + ticket[k].uses = MaxUses

IsCharged(q) == op[q] = "redeem" /\ pc[q] # "denied"

\* No redemption is charged or forgotten, and a ticket keeps its uses, is new or goes.
LEMMA UsesKept ==
    ASSUME UsesInv,
           \A q \in Request : (IsCharged(q)' <=> IsCharged(q))
                              /\ (IsCharged(q) => arg'[q].key = arg[q].key),
           \A k \in Request :
               Exists(k)' => \/ Exists(k) /\ ticket'[k].uses = ticket[k].uses
                             \/ Charges(k) = {} /\ ticket'[k].uses = MaxUses
    PROVE  UsesInv'
  <1>1. \A k \in Request : Charges(k)' = Charges(k)
    BY DEF Charges, IsCharged
  <1>2. Cardinality({}) = 0
    BY FS_EmptySet
  <1> HIDE DEF Charges
  <1>3. ASSUME NEW k \in Request
        PROVE  /\ IsFiniteSet(Charges(k)') /\ Cardinality(Charges(k)') <= MaxUses
               /\ Exists(k)' => Cardinality(Charges(k)') + ticket'[k].uses = MaxUses
    <2>1. Charges(k)' = Charges(k)
      BY <1>1
    <2>2. /\ IsFiniteSet(Charges(k)) /\ Cardinality(Charges(k)) <= MaxUses
          /\ Exists(k) => Cardinality(Charges(k)) + ticket[k].uses = MaxUses
      BY DEF UsesInv
    <2>3. Exists(k)' => Cardinality(Charges(k)) + ticket'[k].uses = MaxUses
      BY <1>2, <2>2, InviteAssumption
    <2>4. QED
      BY <2>1, <2>2, <2>3
  <1>4. QED
    BY <1>3, Zenon DEF UsesInv

LEMMA UsesCharged ==
    ASSUME IInv, UsesInv, NEW r \in Request, NEW m, NEW u, NEW k \in Request, NEW goodCode,
           RedeemCharged(r, m, u, k, goodCode)
    PROVE  UsesInv'
  <1>1. pc[r] = "idle" /\ op[r] = "none" /\ TypeOK /\ Exists(k)
    BY DEF RedeemCharged, Arrive, IInv, OpAtPc, Fits
  <1>2. /\ op' = [op EXCEPT ![r] = "redeem"] /\ pc' = [pc EXCEPT ![r] = "mint"]
        /\ arg' = [arg EXCEPT ![r] = By(m, u, k)] /\ ticket' = Charged(k)
    BY DEF RedeemCharged, Arrive, Goto
  <1>3. Charges(k)' = Charges(k) \cup {r} /\ r \notin Charges(k)
    BY <1>1, <1>2 DEF Charges, TypeOK, By
  <1>4. \A q \in Request \ {k} : Charges(q)' = Charges(q)
    BY <1>1, <1>2 DEF Charges, TypeOK, By
  <1>5. /\ ticket[k].uses \in 1 .. MaxUses
        /\ Exists(k)' => ticket[k].uses # 1 /\ ticket'[k].uses = ticket[k].uses - 1
    BY <1>1, <1>2, InviteAssumption DEF Exists, Charged, TypeOK, Ticket, Absent
  <1>6. \A q \in Request \ {k} : ticket'[q] = ticket[q]
    BY <1>1, <1>2, ChargedType
  <1>7. IsFiniteSet(Charges(k)) /\ Cardinality(Charges(k)) + ticket[k].uses = MaxUses
    BY <1>1 DEF UsesInv
  <1>8. /\ IsFiniteSet(Charges(k)') /\ Cardinality(Charges(k)') = Cardinality(Charges(k)) + 1
        /\ Cardinality(Charges(k)) \in Nat
    BY <1>3, <1>7, FS_AddElement, FS_CardinalityType
  <1> HIDE DEF Charges
  <1>9. /\ Cardinality(Charges(k)') <= MaxUses
        /\ Exists(k)' => Cardinality(Charges(k)') + ticket'[k].uses = MaxUses
    BY <1>5, <1>7, <1>8, InviteAssumption
  <1>10. ASSUME NEW q \in Request
         PROVE  /\ IsFiniteSet(Charges(q)') /\ Cardinality(Charges(q)') <= MaxUses
                /\ Exists(q)' => Cardinality(Charges(q)') + ticket'[q].uses = MaxUses
    <2>1. CASE q = k
      BY <1>8, <1>9, <2>1
    <2>2. CASE q # k
      BY <1>4, <1>6, <2>2 DEF UsesInv, Exists
    <2>3. QED
      BY <2>1, <2>2
  <1>11. QED
    BY <1>10, Zenon DEF UsesInv

LEMMA UsesStep == IInv /\ UsesInv /\ [Next]_vars => UsesInv'
  <1> SUFFICES ASSUME IInv, UsesInv, [Next]_vars PROVE UsesInv'
    OBVIOUS
  <1>0. TypeOK /\ \A r \in Request : Fits(op[r], pc[r])
    BY DEF IInv, OpAtPc
  <1> USE DEF IsCharged, Arrive, Goto, TypeOK
  <1>1. CASE Tick
    <2>1. \A k \in Request : Exists(k)' => Exists(k) /\ ticket'[k].uses = ticket[k].uses
      BY <1>0, <1>1 DEF Tick, Older, Exists, Ticket, Absent
    <2>2. QED
      BY <1>1, <2>1, UsesKept DEF Tick
  <1>2. ASSUME NEW r \in Request, CreateBegin(r) PROVE UsesInv'
    <2>1. op[r] = "none" /\ Charges(r) = {}
      BY <1>0, <1>2, Arguments DEF CreateBegin, Fits, Charges, IInv, KeyFound, Found
    <2>2. \A k \in Request :
             Exists(k)' => IF k = r THEN ticket'[k].uses = MaxUses
                           ELSE Exists(k) /\ ticket'[k].uses = ticket[k].uses
      BY <1>0, <1>2 DEF CreateBegin, Exists
    <2>3. \A q \in Request : (IsCharged(q)' <=> IsCharged(q))
                             /\ (IsCharged(q) => arg'[q].key = arg[q].key)
      BY <1>0, <1>2, <2>1 DEF CreateBegin
    <2>4. QED
      BY <2>1, <2>2, <2>3, UsesKept
  <1>3. ASSUME NEW r \in Request, CreateExpire(r) \/ RevokeDelete(r) PROVE UsesInv'
    <2>1. CreateExpire(r) => ticket[r] \in Ticket
      BY <1>0 DEF CreateExpire, IInv, TicketOfItsCreate, Exists
    <2>2. \A k \in Request : Exists(k)' => Exists(k) /\ ticket'[k].uses = ticket[k].uses
      BY <1>0, <1>3, <2>1 DEF CreateExpire, RevokeDelete, Exists, Ticket, Absent
    <2>3. \A q \in Request : IsCharged(q)' <=> IsCharged(q)
      BY <1>0, <1>3 DEF CreateExpire, RevokeDelete
    <2>4. QED
      BY <1>3, <2>2, <2>3, UsesKept DEF CreateExpire, RevokeDelete
  <1>4. ASSUME NEW r \in Request, RedeemBegin(r) PROVE UsesInv'
    <2>1. PICK m \in Room, u \in User, k \in Request, goodCode \in BOOLEAN :
            \/ RedeemRefused(r, m, u, k, goodCode)
            \/ RedeemCharged(r, m, u, k, goodCode)
      BY <1>4 DEF RedeemBegin
    <2>2. CASE RedeemRefused(r, m, u, k, goodCode)
      BY <1>0, <2>2, UsesKept DEF RedeemRefused, Fits, Exists
    <2>3. QED
      BY <2>1, <2>2, UsesCharged
  <1>5. ASSUME NEW r \in Request, RevokeBegin(r) \/ ListBegin(r) \/ JoinConsume(r)
        PROVE  UsesInv'
    BY <1>0, <1>5, UsesKept DEF RevokeBegin, ListBegin, JoinConsume, Fits, Exists, store
  <1>6. ASSUME NEW r \in Request,
               \/ CreateEnlist(r) \/ CreateRenew(r) \/ RedeemMint(r) \/ RevokeUnlist(r)
               \/ ListPrune(r) \/ Drop(r)
        PROVE  UsesInv'
    BY <1>0, <1>6, UsesKept
       DEF CreateEnlist, CreateRenew, RedeemMint, RevokeUnlist, ListPrune, Drop, Exists, store
  <1>7. ASSUME NEW r \in Request, ListScan(r) PROVE UsesInv'
    <2>1. op[r] = "list" /\ UNCHANGED <<ticket, op>>
      BY <1>0, <1>7 DEF ListScan, Fits, store
    <2>2. ASSUME NEW q \in Request, q # r PROVE pc'[q] = pc[q] /\ arg'[q] = arg[q]
      BY <1>0, <1>7, <2>2 DEF ListScan
    <2>3. QED
      BY <2>1, <2>2, UsesKept DEF Exists
  <1>8. CASE UNCHANGED vars
    BY <1>8, UsesKept DEF vars, Exists
  <1>9. QED
    BY <1>1, <1>2, <1>3, <1>4, <1>5, <1>6, <1>7, <1>8 DEF Next, Step

\* However its redemptions interleave with each other, with a revocation or with a
\* failure, a ticket pays for no more of them than it was good for, and while it lives
\* its count is what they have left of it.
THEOREM NoUseTwice == Spec => []UsesConserved
  <1>1. Init => UsesInv
    <2>1. Init => \A k \in Request : Charges(k) = {} /\ ~Exists(k)
      BY DEF Init, Charges, Exists
    <2>2. QED
      BY <2>1, FS_EmptySet, InviteAssumption DEF UsesInv
  <1>2. UsesInv => UsesConserved
    BY DEF UsesInv, UsesConserved
  <1>3. QED
    BY Invariance, UsesStep, <1>1, <1>2, PTL DEF Spec
-----------------------------------------------------------------------------
\* What a listing has still to look at has been created, and what it is about to
\* prune is gone.
PruneInv ==
    \A r \in Request :
        /\ \A k \in todo[r] : Found(k)
        /\ (op[r] = "list" /\ pc[r] = "prune") => Found(arg[r].key) /\ ~Exists(arg[r].key)

LEMMA PruneStep == IInv /\ PruneInv /\ [Next]_vars => PruneInv'
  <1> SUFFICES ASSUME IInv, PruneInv, [Next]_vars PROVE PruneInv'
    OBVIOUS
  <1>0. TypeOK /\ \A r \in Request : Fits(op[r], pc[r])
    BY DEF IInv, OpAtPc
  <1> USE DEF Arrive, Goto, TypeOK
  <1>1. ASSUME UNCHANGED todo, \A r \in Request : Found(r) => Found(r)',
               \A k \in Request : Exists(k)' => Exists(k) \/ ~Found(k),
               \A r \in Request : (op'[r] = "list" /\ pc'[r] = "prune") =>
                   op[r] = "list" /\ pc[r] = "prune" /\ arg'[r] = arg[r]
        PROVE  PruneInv'
    BY <1>0, <1>1, Arguments DEF PruneInv, IInv, OpAtPc
  <1>2. CASE Tick
    BY <1>0, <1>1, <1>2, OlderTypes DEF Tick, Found, Exists
  <1>3. ASSUME NEW r \in Request,
               \/ CreateBegin(r) \/ CreateExpire(r) \/ CreateEnlist(r) \/ CreateRenew(r)
               \/ RedeemMint(r) \/ RevokeBegin(r) \/ RevokeDelete(r) \/ RevokeUnlist(r)
               \/ ListPrune(r) \/ JoinConsume(r) \/ Drop(r)
        PROVE  PruneInv'
    <2>1. UNCHANGED todo
      BY <1>3 DEF CreateBegin, CreateExpire, CreateEnlist, CreateRenew, RedeemMint,
         RevokeBegin, RevokeDelete, RevokeUnlist, ListPrune, JoinConsume, Drop
    <2>2. \A q \in Request : Found(q) => Found(q)'
      BY <1>0, <1>3 DEF CreateBegin, CreateExpire, CreateEnlist, CreateRenew, RedeemMint,
         RevokeBegin, RevokeDelete, RevokeUnlist, ListPrune, JoinConsume, Drop, Found, Fits
    <2>3. \A k \in Request : Exists(k)' => Exists(k) \/ ~Found(k)
      BY <1>0, <1>3 DEF CreateBegin, CreateExpire, CreateEnlist, CreateRenew, RedeemMint,
         RevokeBegin, RevokeDelete, RevokeUnlist, ListPrune, JoinConsume, Drop, Found, Fits,
         Exists, store
    <2>4. \A q \in Request : (op'[q] = "list" /\ pc'[q] = "prune") =>
              op[q] = "list" /\ pc[q] = "prune" /\ arg'[q] = arg[q]
      BY <1>0, <1>3 DEF CreateBegin, CreateExpire, CreateEnlist, CreateRenew, RedeemMint,
         RevokeBegin, RevokeDelete, RevokeUnlist, ListPrune, JoinConsume, Drop
    <2>5. QED
      BY <1>1, <2>1, <2>2, <2>3, <2>4
  <1>4. ASSUME NEW r \in Request, RedeemBegin(r) PROVE PruneInv'
    <2>1. PICK m \in Room, u \in User, k \in Request, goodCode \in BOOLEAN :
            \/ RedeemRefused(r, m, u, k, goodCode)
            \/ RedeemCharged(r, m, u, k, goodCode)
      BY <1>4 DEF RedeemBegin
    <2>2. UNCHANGED todo /\ (\A q \in Request : Found(q) => Found(q)')
          /\ \A q \in Request : (op'[q] = "list" /\ pc'[q] = "prune") =>
                op[q] = "list" /\ pc[q] = "prune" /\ arg'[q] = arg[q]
      BY <1>0, <2>1 DEF RedeemRefused, RedeemCharged, Found, Fits
    <2>3. \A q \in Request : Exists(q)' => Exists(q)
      BY <1>0, <2>1 DEF RedeemRefused, RedeemCharged, Charged, Exists
    <2>4. QED
      BY <1>1, <2>2, <2>3
  <1>5. ASSUME NEW r \in Request, ListBegin(r) PROVE PruneInv'
    <2>1. PICK m \in Room : todo' = [todo EXCEPT ![r] = index[m].members]
      BY <1>5 DEF ListBegin
    <2>2. /\ pc[r] = "idle" /\ op[r] = "none" /\ pc'[r] = "scan"
          /\ UNCHANGED ticket
          /\ \A q \in Request \ {r} : op'[q] = op[q] /\ pc'[q] = pc[q] /\ arg'[q] = arg[q]
      BY <1>0, <1>5 DEF ListBegin, Fits, store
    <2>3. \A q \in Request : (Found(q) => Found(q)') /\ (Exists(q)' <=> Exists(q))
      BY <2>2 DEF Found, Exists
    <2>4. \A k \in index[m].members : k \in Request /\ Found(k)
      BY <1>0, Arguments DEF IInv, ListedFound
    <2>5. ASSUME NEW q \in Request
          PROVE  /\ \A k \in todo'[q] : k \in Request /\ Found(k)
                 /\ (op'[q] = "list" /\ pc'[q] = "prune") =>
                        arg'[q].key \in Request /\ Found(arg'[q].key) /\ ~Exists(arg'[q].key)
      BY <1>0, <2>1, <2>2, <2>4, Arguments DEF PruneInv, IInv, OpAtPc
    <2>6. QED
      BY <2>3, <2>5 DEF PruneInv, Found, Exists
  <1>6. ASSUME NEW r \in Request, ListScan(r) PROVE PruneInv'
    <2>1. op[r] = "list" /\ UNCHANGED <<ticket, op>> /\ pc[r] = "scan" /\ arg[r] \in Arg
      BY <1>0, <1>6, Arguments DEF ListScan, Fits, store
    <2>2. \A q \in Request : q # r => pc'[q] = pc[q] /\ arg'[q] = arg[q] /\ todo'[q] = todo[q]
      BY <1>0, <1>6 DEF ListScan
    <2>3. todo'[r] \subseteq todo[r]
          /\ (pc'[r] = "prune" => arg'[r].key \in todo[r] /\ ~Exists(arg'[r].key))
      <3>1. CASE UNCHANGED arg
        BY <1>0, <1>6, <2>1, <3>1 DEF ListScan, Arg
      <3>2. CASE \E k \in todo[r] : /\ arg' = [arg EXCEPT ![r].key = k]
                                    /\ todo' = [todo EXCEPT ![r] = @ \ {k}]
                                    /\ ~Exists(k)
        <4>1. PICK k \in todo[r] : /\ arg' = [arg EXCEPT ![r].key = k]
                                   /\ todo' = [todo EXCEPT ![r] = @ \ {k}]
                                   /\ ~Exists(k)
          BY <3>2
        <4>2. arg'[r].key = k
          BY <1>0, <2>1, <4>1 DEF Arg
        <4>3. QED
          BY <1>0, <4>1, <4>2
      <3>3. QED
        BY <1>6, <3>1, <3>2 DEF ListScan
    <2>4. \A q \in Request : (Found(q) => Found(q)') /\ (Exists(q)' <=> Exists(q))
      BY <2>1, <2>2 DEF Found, Exists
    <2>5. \A k \in todo[r] : k \in Request /\ Found(k)
      BY <1>0 DEF PruneInv
    <2>6. ASSUME NEW q \in Request
          PROVE  /\ \A k \in todo'[q] : k \in Request /\ Found(k)
                 /\ (op'[q] = "list" /\ pc'[q] = "prune") =>
                        arg'[q].key \in Request /\ Found(arg'[q].key) /\ ~Exists(arg'[q].key)
      BY <1>0, <2>1, <2>2, <2>3, <2>5, Arguments DEF PruneInv
    <2>7. QED
      BY <2>4, <2>6 DEF PruneInv, Found, Exists
  <1>7. CASE UNCHANGED vars
    BY <1>7 DEF vars, PruneInv, Found, Exists
  <1>8. QED
    BY <1>2, <1>3, <1>4, <1>5, <1>6, <1>7 DEF Next, Step

\* A creation that has reached its index, or been answered.
Enlisted(k) == op[k] = "create" /\ pc[k] \in {"renew", "ok"}
Timed(k) == Enlisted(k) \/ (op[k] = "create" /\ pc[k] = "enlist")

\* An index with members is there; a ticket whose expiry has been set does not
\* outlive a new index; and while no creation was slow, a ticket is in its index
\* from its SADD on, which from its EXPIRE on outlives it.
IndexAlive == \A m \in Room : index[m].members # {} => index[m].ttl # 0
TimedTicket == \A k \in Request : (Timed(k) /\ Exists(k)) => ticket[k].ttl <= InviteTtl
FoundInIndex ==
    slow = FALSE =>
        \A k \in Request : (Enlisted(k) /\ Exists(k)) =>
            /\ k \in index[arg[k].room].members
            /\ pc[k] = "ok" => ticket[k].ttl <= index[arg[k].room].ttl
FindInv == IndexAlive /\ TimedTicket /\ FoundInIndex

\* A step in which no creation goes on, no ticket comes, and an index loses none but
\* tickets that are gone.
LEMMA FindKept ==
    ASSUME IInv, FindInv, UNCHANGED slow,
           \A k \in Request : Timed(k)' => Timed(k) /\ pc'[k] = pc[k] /\ arg'[k] = arg[k],
           \A k \in Request : (Timed(k) /\ Exists(k)') =>
               Exists(k) /\ ticket'[k].ttl = ticket[k].ttl,
           \A m \in Room :
               /\ \A k \in index[m].members : k \in index'[m].members \/ ~Exists(k)'
               /\ index'[m].members \subseteq index[m].members
               /\ index'[m].members # {} => index'[m].ttl = index[m].ttl
    PROVE  FindInv'
  <1>1. IndexAlive'
    BY DEF FindInv, IndexAlive
  <1>2. TimedTicket'
    BY DEF FindInv, TimedTicket
  <1>3. FoundInIndex'
    <2> SUFFICES ASSUME slow = FALSE, NEW k \in Request, Enlisted(k)', Exists(k)'
                 PROVE  /\ k \in index'[arg'[k].room].members
                        /\ pc'[k] = "ok" => ticket'[k].ttl <= index'[arg'[k].room].ttl
      BY DEF FoundInIndex
    <2>1. Timed(k) /\ Enlisted(k) /\ pc'[k] = pc[k] /\ arg'[k] = arg[k] /\ Exists(k)
          /\ ticket'[k].ttl = ticket[k].ttl
      BY DEF Timed, Enlisted
    <2>2. arg[k].room \in Room
      BY <2>1, Arguments DEF Enlisted
    <2>3. k \in index[arg[k].room].members
          /\ (pc[k] = "ok" => ticket[k].ttl <= index[arg[k].room].ttl)
      BY <2>1 DEF FindInv, FoundInIndex
    <2>4. QED
      BY <2>1, <2>2, <2>3
  <1>4. QED
    BY <1>1, <1>2, <1>3 DEF FindInv

\* Taking a ticket that is gone off an index.
LEMMA UnlistingKeeps ==
    ASSUME TypeOK, NEW n \in Room, NEW j, index' = Unlisting(n, j), ~Exists(j)'
    PROVE  \A m \in Room :
               /\ \A k \in index[m].members : k \in index'[m].members \/ ~Exists(k)'
               /\ index'[m].members \subseteq index[m].members
               /\ index'[m].members # {} => index'[m].ttl = index[m].ttl
  <1> DEFINE rest == index[n].members \ {j}
             new == IF rest = {} THEN NoIndex ELSE [members |-> rest, ttl |-> index[n].ttl]
  <1>1. new.members = rest /\ (rest # {} => new.ttl = index[n].ttl)
    BY DEF NoIndex
  <1>2. \A m \in Room : index'[m] = IF m = n THEN new ELSE index[m]
    BY DEF Unlisting, TypeOK
  <1> HIDE DEF new
  <1>3. QED
    BY <1>1, <1>2

\* A ticket is put on its index, and the index is given the time of its newest ticket.
LEMMA CreationFinds ==
    ASSUME IInv, FindInv, UNCHANGED slow, NEW r \in Request,
           CreateExpire(r) \/ CreateEnlist(r) \/ CreateRenew(r)
    PROVE  FindInv'
  <1>0. /\ TypeOK /\ op[r] = "create" /\ arg[r].room \in Room /\ op' = op /\ arg' = arg
        /\ \A k \in Request \ {r} : pc'[k] = pc[k]
    BY Arguments DEF IInv, TypeOK, OpAtPc, Fits, CreateExpire, CreateEnlist, CreateRenew, Goto
  <1>1. InviteTtl \in Nat \ {0} /\ Persistent # 0 /\ InviteTtl < Persistent
    BY InviteAssumption DEF Persistent
  <1>2. CASE CreateExpire(r)
    <2>1. /\ ticket[r] \in Ticket /\ pc'[r] = "enlist"
          /\ UNCHANGED index
      BY <1>0, <1>2 DEF CreateExpire, Goto, TypeOK, IInv, TicketOfItsCreate, Exists
    <2>2. \A k \in Request : ticket'[k] = IF k = r THEN [ticket[r] EXCEPT !.ttl = InviteTtl]
                                          ELSE ticket[k]
      BY <1>0, <1>2 DEF CreateExpire, TypeOK
    <2>3. ticket'[r].ttl = InviteTtl
      BY <2>1, <2>2 DEF Ticket
    <2>4. IndexAlive' /\ FoundInIndex'
      BY <1>0, <2>1, <2>2 DEF FindInv, IndexAlive, FoundInIndex, Enlisted, Exists
    <2>5. TimedTicket'
      BY <1>0, <1>1, <2>1, <2>2, <2>3 DEF FindInv, TimedTicket, Timed, Enlisted, Exists
    <2>6. QED
      BY <2>4, <2>5 DEF FindInv
  <1>3. CASE CreateEnlist(r)
    <2> DEFINE m == arg[r].room
               x == [members |-> index[m].members \cup {r},
                     ttl |-> IF index[m] = NoIndex THEN Persistent ELSE index[m].ttl]
    <2>1. /\ pc[r] = "enlist" /\ pc'[r] = "renew" /\ UNCHANGED ticket
          /\ \A n \in Room : index'[n] = IF n = m THEN x ELSE index[n]
      BY <1>0, <1>3 DEF CreateEnlist, Goto, TypeOK, Listing
    <2>2. x.ttl # 0
      <3>1. CASE index[m].members = {} /\ index[m].ttl = 0
        BY <1>0, <1>1, <3>1 DEF NoIndex, TypeOK, Index
      <3>2. CASE index[m].members # {} \/ index[m].ttl # 0
        BY <1>0, <1>1, <3>2 DEF FindInv, IndexAlive
      <3>3. QED
        BY <3>1, <3>2
    <2>3. index[m].members # {} => x.ttl = index[m].ttl
      BY DEF NoIndex
    <2>4. x.members = index[m].members \cup {r}
      OBVIOUS
    <2> HIDE DEF x
    <2>5. IndexAlive'
      BY <2>1, <2>2 DEF FindInv, IndexAlive
    <2>6. TimedTicket'
      BY <1>0, <2>1 DEF FindInv, TimedTicket, Timed, Enlisted, Exists
    <2>7. FoundInIndex'
      <3> SUFFICES ASSUME slow = FALSE, NEW k \in Request, Enlisted(k)', Exists(k)'
                   PROVE  /\ k \in index'[arg'[k].room].members
                          /\ pc'[k] = "ok" => ticket'[k].ttl <= index'[arg'[k].room].ttl
        BY DEF FoundInIndex
      <3>1. CASE k = r
        BY <1>0, <2>1, <2>4, <3>1
      <3>2. CASE k # r
        <4>1. Enlisted(k) /\ Exists(k) /\ arg[k].room \in Room
          BY <1>0, <2>1, <3>2, Arguments DEF Enlisted, Exists
        <4>2. k \in index[arg[k].room].members
              /\ (pc[k] = "ok" => ticket[k].ttl <= index[arg[k].room].ttl)
          BY <4>1 DEF FindInv, FoundInIndex
        <4>3. QED
          BY <1>0, <2>1, <2>3, <2>4, <3>2, <4>1, <4>2
      <3>3. QED
        BY <3>1, <3>2
    <2>8. QED
      BY <2>5, <2>6, <2>7 DEF FindInv
  <1>4. CASE CreateRenew(r)
    <2> DEFINE m == arg[r].room
    <2>1. /\ pc[r] = "renew" /\ pc'[r] = "ok" /\ UNCHANGED ticket
          /\ \A n \in Room :
                /\ index'[n].members = index[n].members
                /\ index'[n].ttl = IF n = m /\ index[m].ttl # 0 THEN InviteTtl ELSE index[n].ttl
      BY <1>0, <1>4 DEF CreateRenew, Goto, TypeOK, Index
    <2>2. IndexAlive'
      BY <1>1, <2>1 DEF FindInv, IndexAlive
    <2>3. TimedTicket'
      BY <1>0, <2>1 DEF FindInv, TimedTicket, Timed, Enlisted, Exists
    <2>4. FoundInIndex'
      <3> SUFFICES ASSUME slow = FALSE, NEW k \in Request, Enlisted(k)', Exists(k)'
                   PROVE  /\ k \in index'[arg'[k].room].members
                          /\ pc'[k] = "ok" => ticket'[k].ttl <= index'[arg'[k].room].ttl
        BY DEF FoundInIndex
      <3>1. Enlisted(k) /\ Timed(k) /\ Exists(k) /\ arg[k].room \in Room
        BY <1>0, <2>1, Arguments DEF Enlisted, Timed, Exists
      <3>2. /\ k \in index[arg[k].room].members
            /\ ticket[k].ttl <= InviteTtl
            /\ pc[k] = "ok" => ticket[k].ttl <= index[arg[k].room].ttl
            /\ index[arg[k].room].ttl # 0
        BY <3>1 DEF FindInv, FoundInIndex, TimedTicket, IndexAlive
      <3>3. CASE arg[k].room = m
        BY <1>0, <2>1, <3>1, <3>2, <3>3
      <3>4. CASE arg[k].room # m
        BY <1>0, <2>1, <3>1, <3>2, <3>4
      <3>5. QED
        BY <3>3, <3>4
    <2>5. QED
      BY <2>2, <2>3, <2>4 DEF FindInv
  <1>5. QED
    BY <1>2, <1>3, <1>4

\* Time passes for tickets and indexes alike.
LEMMA TickFinds ==
    ASSUME IInv, FindInv, Tick
    PROVE  FindInv'
  <1>0. TypeOK /\ op' = op /\ pc' = pc /\ arg' = arg
        /\ \A r \in Request : Fits(op[r], pc[r])
        /\ InviteTtl \in Nat \ {0} /\ Persistent \in Nat /\ InviteTtl < Persistent
    BY InviteAssumption DEF Tick, IInv, OpAtPc, Persistent
  <1>1. ASSUME NEW k \in Request, Exists(k)'
        PROVE  /\ Exists(k) /\ ticket[k].ttl \in Nat /\ ticket[k].ttl # 0
               /\ ticket[k].ttl # 1
               /\ IF ticket[k].ttl = Persistent THEN ticket'[k].ttl = ticket[k].ttl
                  ELSE ticket'[k].ttl = ticket[k].ttl - 1
    BY <1>0, <1>1, Times DEF Tick, Older, Exists, TypeOK, Ticket, Ttl, Absent
  <1>2. ASSUME NEW m \in Room
        PROVE  /\ index[m].ttl \in Nat
               /\ CASE index[m].ttl \in {0, Persistent} -> index'[m] = index[m]
                    [] index[m].ttl = 1 /\ 1 # Persistent -> index'[m].members = {}
                    [] OTHER -> /\ index'[m].members = index[m].members
                                /\ index'[m].ttl = index[m].ttl - 1
    BY <1>0 DEF Tick, OlderIndex, TypeOK, Index, NoIndex, Ttl
  <1>3. IndexAlive'
    BY <1>0, <1>2 DEF FindInv, IndexAlive
  <1>4. TimedTicket'
    BY <1>0, <1>1 DEF FindInv, TimedTicket, Timed, Enlisted
  <1>5. FoundInIndex'
    <2> SUFFICES ASSUME slow' = FALSE, NEW k \in Request, Enlisted(k)', Exists(k)'
                 PROVE  /\ k \in index'[arg'[k].room].members
                        /\ pc'[k] = "ok" => ticket'[k].ttl <= index'[arg'[k].room].ttl
      BY DEF FoundInIndex
    <2>1. slow = FALSE /\ pc[k] = "ok" /\ Enlisted(k) /\ Timed(k) /\ arg[k].room \in Room
      BY <1>0, Arguments DEF Tick, Enlisted, Timed, TypeOK
    <2>2. /\ k \in index[arg[k].room].members
          /\ ticket[k].ttl <= InviteTtl
          /\ ticket[k].ttl <= index[arg[k].room].ttl
          /\ Exists(k)
      BY <1>1, <2>1 DEF FindInv, FoundInIndex, TimedTicket
    <2>3. ticket'[k].ttl = ticket[k].ttl - 1 /\ ticket[k].ttl \in Nat \ {0, 1}
      BY <1>0, <1>1, <2>2
    <2>4. QED
      BY <1>0, <1>2, <2>1, <2>2, <2>3
  <1>6. QED
    BY <1>3, <1>4, <1>5 DEF FindInv

LEMMA FindStep == IInv /\ PruneInv /\ FindInv /\ [Next]_vars => FindInv'
  <1> SUFFICES ASSUME IInv, PruneInv, FindInv, [Next]_vars PROVE FindInv'
    OBVIOUS
  <1>0. TypeOK /\ \A r \in Request : Fits(op[r], pc[r])
    BY DEF IInv, OpAtPc
  <1> USE DEF Arrive, Goto
  <1>1. ASSUME NEW r \in Request, UNCHANGED slow,
               \/ CreateBegin(r) \/ RedeemMint(r) \/ RevokeBegin(r) \/ RevokeDelete(r)
               \/ RevokeUnlist(r) \/ ListBegin(r) \/ ListScan(r) \/ ListPrune(r)
               \/ JoinConsume(r) \/ Drop(r)
        PROVE  FindInv'
    <2>1. \A k \in Request : Timed(k)' => Timed(k) /\ pc'[k] = pc[k] /\ arg'[k] = arg[k]
      BY <1>0, <1>1 DEF CreateBegin, RedeemMint, RevokeBegin, RevokeDelete, RevokeUnlist,
         ListBegin, ListScan, ListPrune, JoinConsume, Drop, Timed, Enlisted, TypeOK, Fits
    <2>2. \A k \in Request : (Timed(k) /\ Exists(k)') =>
              Exists(k) /\ ticket'[k].ttl = ticket[k].ttl
      BY <1>0, <1>1 DEF CreateBegin, RedeemMint, RevokeBegin, RevokeDelete, RevokeUnlist,
         ListBegin, ListScan, ListPrune, JoinConsume, Drop, Timed, Enlisted, TypeOK, Fits,
         Exists, store
    <2>3. CASE UNCHANGED index
      BY <1>1, <2>1, <2>2, <2>3, FindKept
    <2>4. CASE RevokeUnlist(r) \/ ListPrune(r)
      <3>1. arg[r].room \in Room /\ index' = Unlisting(arg[r].room, arg[r].key)
            /\ ~Exists(arg[r].key) /\ UNCHANGED ticket
        BY <1>0, <2>4, Arguments DEF RevokeUnlist, ListPrune, Fits, IInv, RevokedGone, PruneInv
      <3>2. PICK j : j = arg[r].key
        OBVIOUS
      <3>3. index' = Unlisting(arg[r].room, j) /\ ticket[j] = Absent
        BY <3>1, <3>2 DEF Exists
      <3>4. ~Exists(j)'
        BY <3>1, <3>3 DEF Exists
      <3>5. QED
        BY <1>0, <1>1, <2>1, <2>2, <3>1, <3>3, <3>4, UnlistingKeeps, FindKept
    <2>5. QED
      BY <1>1, <2>3, <2>4 DEF CreateBegin, RedeemMint, RevokeBegin, RevokeDelete, ListBegin,
         ListScan, JoinConsume, Drop, store
  <1>2. ASSUME NEW r \in Request, UNCHANGED slow, RedeemBegin(r)
        PROVE  FindInv'
    <2>1. PICK m \in Room, u \in User, k \in Request, goodCode \in BOOLEAN :
            \/ RedeemRefused(r, m, u, k, goodCode)
            \/ RedeemCharged(r, m, u, k, goodCode)
      BY <1>2 DEF RedeemBegin
    <2>2. \A q \in Request : Timed(q)' => Timed(q) /\ pc'[q] = pc[q] /\ arg'[q] = arg[q]
      BY <1>0, <2>1 DEF RedeemRefused, RedeemCharged, Timed, Enlisted, TypeOK, Fits
    <2>3. \A q \in Request : Exists(q)' => Exists(q) /\ ticket'[q].ttl = ticket[q].ttl
      <3>1. CASE RedeemRefused(r, m, u, k, goodCode)
        BY <3>1 DEF RedeemRefused, Exists
      <3>2. CASE RedeemCharged(r, m, u, k, goodCode)
        <4>1. ticket[k] \in Ticket /\ ticket' = Charged(k)
          BY <1>0, <3>2 DEF RedeemCharged, TypeOK, Exists
        <4>2. ticket'[k] # Absent => ticket'[k].ttl = ticket[k].ttl
          BY <1>0, <4>1 DEF Charged, TypeOK, Ticket
        <4>3. \A q \in Request \ {k} : ticket'[q] = ticket[q]
          BY <1>0, <3>2, <4>1, ChargedType DEF RedeemCharged
        <4>4. QED
          BY <3>2, <4>2, <4>3 DEF RedeemCharged, Exists, Absent
      <3>3. QED
        BY <2>1, <3>1, <3>2
    <2>4. CASE UNCHANGED index
      BY <1>2, <2>2, <2>3, <2>4, FindKept
    <2>5. CASE index' = Unlisting(m, k) /\ ~Exists(k)'
      BY <1>0, <1>2, <2>2, <2>3, <2>5, UnlistingKeeps, FindKept
    <2>6. index' = index \/ (index' = Unlisting(m, k) /\ ~Exists(k)')
      BY <1>0, <2>1 DEF RedeemRefused, RedeemCharged, Charged, Exists, TypeOK, Absent
    <2>7. QED
      BY <2>4, <2>5, <2>6
  <1>3. CASE UNCHANGED vars
    BY <1>3, FindKept DEF vars, Timed, Enlisted, Exists
  <1>4. QED
    BY <1>1, <1>2, <1>3, CreationFinds, TickFinds DEF Next, Step

\* A host finds each of its tickets in the list of its room for as long as it can be
\* redeemed, whatever is pruned, revoked or used up meanwhile and whenever the list
\* was last renewed, unless time passed between the calls of a creation.
THEOREM TicketsAreListed == Spec => []ListedWhileLive
  <1>1. Init => PruneInv /\ FindInv
    BY DEF Init, PruneInv, FindInv, IndexAlive, TimedTicket, FoundInIndex, Timed, Enlisted,
       NoIndex
  <1>2. FindInv /\ IInv => ListedWhileLive
    BY DEF FindInv, FoundInIndex, Enlisted, ListedWhileLive, IInv, TypeOK
  <1>3. QED
    BY Invariance, PruneStep, FindStep, <1>1, <1>2, PTL DEF Spec
=============================================================================
