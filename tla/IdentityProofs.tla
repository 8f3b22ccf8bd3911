--------------------------- MODULE IdentityProofs ---------------------------
(***************************************************************************)
(* Proofs about Identity, for any set of requests, any leases and either   *)
(* role.                                                                   *)
(***************************************************************************)
EXTENDS Identity, TLAPS

\* Owner strings of different kinds differ, and a uuid names one request.
LEMMA OwnerFacts ==
    /\ NoOwner \notin Owner
    /\ \A r \in Request : Claim(r) \in Owner /\ Jti(r) \in Owner
    /\ \A r, q \in Request : /\ Claim(r) # Jti(q)
                             /\ Jti(r) = Jti(q) => r = q
                             /\ Claim(r) = Claim(q) => r = q
                             /\ Claim(r) # NoOwner
                             /\ Jti(r) # NoOwner
BY DEF NoOwner, Owner, Claim, Jti

\* The locks the scripts leave are locks.
LEMMA LockTyping ==
    ASSUME NEW l \in Lock, NEW o \in Owner \cup {NoOwner}
    PROVE  /\ NoLock \in Lock
           /\ Acquired(o) \in Lock
           /\ Promoted(o) \in Lock
           /\ Touched(o) \in Lock
           /\ Released(l, o) \in Lock
           /\ Deleted(l) \in Lock
           /\ Aged(l) \in Lock
  <1> USE TtlAssumption
  <1>1. NoLock \in Lock
    BY DEF NoLock, Lock
  <1>2. /\ Acquired(o) \in Lock
        /\ Promoted(o) \in Lock
        /\ Touched(o) \in Lock
    BY DEF Acquired, Promoted, Touched, HeldBy, Lock
  <1>3. /\ Released(l, o) \in Lock
        /\ Deleted(l) \in Lock
    BY <1>1 DEF Released, Deleted
  <1>4. Aged(l) \in Lock
    <2>1. CASE l.ttl <= 1
      BY <2>1, <1>1 DEF Aged
    <2>2. CASE ~(l.ttl <= 1)
      <3>1. /\ l.owner \in Owner \cup {NoOwner}
            /\ l.ttl - 1 \in Nat
            /\ (IF l.age > StaleLimit THEN l.age ELSE l.age + 1) \in 0 .. StaleLimit + 1
        BY <2>2 DEF Lock
      <3>2. Aged(l) = [l EXCEPT !.ttl = l.ttl - 1,
                                !.age = IF l.age > StaleLimit THEN l.age ELSE l.age + 1]
        BY <2>2 DEF Aged
      <3>3. QED
        BY <3>1, <3>2 DEF Lock
    <2>3. QED
      BY <2>1, <2>2 DEF Lock
  <1>5. QED
    BY <1>1, <1>2, <1>3, <1>4

\* What the session service writes is a store.
LEMMA NoEntryTyping == NoEntry \in Entry
BY DEF NoEntry, Entry

LEMMA IssuedTyping ==
    ASSUME NEW s \in Store, NEW t \in Request, NEW o \in Owner \cup {NoOwner}
    PROVE  Issued(s, t, o) \in Store
BY TtlAssumption DEF Issued, Store, Entry

LEMMA RevokedTyping ==
    ASSUME NEW s \in Store, NEW k
    PROVE  Revoked(s, k) \in Store
BY NoEntryTyping DEF Revoked, Store

LEMMA ElapsedTyping ==
    ASSUME NEW s \in Store
    PROVE  Elapsed(s) \in Store
  <1>1. ASSUME NEW u \in Request, ~(s[u].ttl <= 1)
        PROVE  [s[u] EXCEPT !.ttl = @ - 1] \in Entry
    BY <1>1 DEF Store, Entry
  <1>2. QED
    BY <1>1, NoEntryTyping DEF Elapsed, Store

LEMMA TypeInit == Init => TypeOK
  <1> SUFFICES ASSUME Init PROVE TypeOK
    OBVIOUS
  <1> USE DEF Init
  <1>1. lock \in Lock
    BY TtlAssumption DEF Lock, NoLock
  <1>2. sessions \in Store
    BY DEF Store, Entry, NoEntry
  <1>3. seen \in [Request -> [owner : Owner \cup {NoOwner}, stale : BOOLEAN]]
    BY DEF NothingSeen
  <1>4. active \in BOOLEAN /\ op \in [Request -> Op] /\ pc \in [Request -> Label]
    BY DEF Op, Label
  <1>5. /\ bearer \in [Request -> Request \cup {NoRequest}]
        /\ owner \in [Request -> Owner \cup {NoOwner}]
    OBVIOUS
  <1>6. QED
    BY <1>1, <1>2, <1>3, <1>4, <1>5 DEF TypeOK

\* A request that arrives, whichever handler it runs, leaves well-typed locals.
LEMMA ArriveTyping ==
    ASSUME TypeOK, NEW r \in Request, NEW h \in Op, NEW t \in Request \cup {NoRequest},
           NEW o \in Owner \cup {NoOwner}, NEW label \in Label,
           Arrive(r, h, t, o, label), sessions' \in Store
    PROVE  TypeOK'
BY DEF Arrive, Goto, TypeOK

\* Steps that touch Redis and the program counter only.
LEMMA StepTyping ==
    ASSUME TypeOK, NEW r \in Request, NEW label \in Label, Goto(r, label),
           lock' \in Lock, sessions' \in Store, UNCHANGED <<active, locals>>
    PROVE  TypeOK'
BY DEF TypeOK, Goto, locals

LEMMA TypeStep == TypeOK /\ [Next]_vars => TypeOK'
  <1> SUFFICES ASSUME TypeOK, [Next]_vars PROVE TypeOK'
    OBVIOUS
  <1> USE DEF TypeOK
  <1>typed. /\ lock \in Lock /\ sessions \in Store
            /\ \A r \in Request : /\ pc[r] \in Label
                                  /\ owner[r] \in Owner \cup {NoOwner}
                                  /\ seen[r].owner \in Owner \cup {NoOwner}
                                  /\ Claim(r) \in Owner /\ Jti(r) \in Owner
                                  /\ sessions[r].jti \in Owner \cup {NoOwner}
    BY OwnerFacts DEF Store, Entry
  <1>locks. /\ \A o \in Owner \cup {NoOwner} : /\ Acquired(o) \in Lock
                                                 /\ Promoted(o) \in Lock
                                                 /\ Touched(o) \in Lock
                                                 /\ Released(lock, o) \in Lock
            /\ Deleted(lock) \in Lock
            /\ Aged(lock) \in Lock
    <2>1. NoOwner \in Owner \cup {NoOwner}
      OBVIOUS
    <2>2. QED
      BY <2>1, LockTyping
  <1>stores. /\ \A t \in Request, o \in Owner \cup {NoOwner} : Issued(sessions, t, o) \in Store
             /\ \A k : Revoked(sessions, k) \in Store
             /\ Elapsed(sessions) \in Store
    BY IssuedTyping, RevokedTyping, ElapsedTyping
  <1> USE DEF Op, Label, Ended
  <1>1. ASSUME NEW r \in Request, Begin(r) PROVE TypeOK'
    <2>1. CASE JoinBegin(r)
      BY <2>1, <1>typed, ArriveTyping DEF JoinBegin, Presentable
    <2>2. CASE ReclaimBegin(r)
      BY <2>2, <1>typed, ArriveTyping DEF ReclaimBegin
    <2>3. CASE RefreshBegin(r)
      <3>1. PICK t \in Request :
              /\ sessions' = Revoked(sessions, t)
              /\ IF Live(sessions, t)
                 THEN Arrive(r, "refresh", t, sessions[t].jti, "store")
                 ELSE Arrive(r, "refresh", t, NoOwner, "denied")
        BY <2>3 DEF RefreshBegin, Presentable
      <3>2. sessions' \in Store
        BY <3>1, <1>stores
      <3>3. QED
        BY <3>1, <3>2, <1>typed, ArriveTyping
    <2>4. CASE HeartbeatBegin(r)
      BY <2>4, <1>typed, ArriveTyping DEF HeartbeatBegin, Verified, Presentable
    <2>5. CASE ReconnectBegin(r)
      BY <2>5, <1>typed, ArriveTyping DEF ReconnectBegin, Verified, Presentable
    <2>6. CASE LeaveBegin(r)
      BY <2>6, <1>typed, ArriveTyping DEF LeaveBegin, Verified, Presentable
    <2>7. QED
      BY <1>1, <2>1, <2>2, <2>3, <2>4, <2>5, <2>6 DEF Begin
  <1>2. ASSUME NEW r \in Request, Step(r) PROVE TypeOK'
    <2> USE <1>typed, StepTyping
    <2>1. CASE JoinAcquire(r)
      BY <2>1, <1>locks DEF JoinAcquire
    <2>2. CASE JoinProfile(r)
      BY <2>2 DEF JoinProfile, redis
    <2>3. CASE JoinIssue(r)
      BY <2>3, <1>stores DEF JoinIssue
    <2>4. CASE JoinPromote(r)
      BY <2>4, <1>locks DEF JoinPromote, Goto
    <2>5. CASE JoinPromoteFails(r)
      BY <2>5, <1>locks DEF JoinPromoteFails
    <2>6. CASE JoinFinish(r)
      BY <2>6 DEF JoinFinish, redis
    <2>f. ASSUME failed' = failed \/ (\E c \in {"revoke", "release"} : Ignored(r, c))
          PROVE  failed' \in [Request -> SUBSET {"revoke", "release"}]
      BY <2>f DEF Ignored
    <2>7. CASE UndoSession(r)
      <3>1. sessions' \in Store /\ failed' \in [Request -> SUBSET {"revoke", "release"}]
        BY <2>7, <2>f, <1>stores DEF UndoSession
      <3>2. QED
        BY <2>7, <3>1 DEF UndoSession, Goto
    <2>8. CASE UndoLock(r)
      <3>1. lock' \in Lock /\ failed' \in [Request -> SUBSET {"revoke", "release"}]
        BY <2>8, <2>f, <1>locks DEF UndoLock
      <3>2. QED
        BY <2>8, <3>1 DEF UndoLock, Goto
    <2>s. (seen' = seen \/ Forget(r))
              => seen' \in [Request -> [owner : Owner \cup {NoOwner}, stale : BOOLEAN]]
      <3>1. NothingSeen \in [owner : Owner \cup {NoOwner}, stale : BOOLEAN]
        BY DEF NothingSeen
      <3>2. QED
        BY <3>1 DEF Forget
    <2>9. CASE Look(r)
      <3>1. [owner |-> lock.owner, stale |-> IsStale(lock)]
              \in [owner : Owner \cup {NoOwner}, stale : BOOLEAN]
        BY DEF Lock, IsStale
      <3>2. seen' \in [Request -> [owner : Owner \cup {NoOwner}, stale : BOOLEAN]]
        BY <2>9, <3>1 DEF Look
      <3>3. pc' \in [Request -> Label]
        BY <2>9 DEF Look, Goto
      <3>4. QED
        BY <2>9, <3>2, <3>3 DEF Look, redis
    <2>10. CASE Probe(r)
      BY <2>10, <2>s DEF Probe, redis, Goto
    <2>11. CASE Delete(r)
      BY <2>11, <2>s, <1>locks, <1>stores DEF Delete, Goto
    <2>12. CASE RefreshStore(r)
      BY <2>12, <1>stores DEF RefreshStore
    <2>13. CASE Touch(r)
      BY <2>13, <1>locks DEF Touch
    <2>14. CASE LeaveRelease(r)
      BY <2>14, <1>locks DEF LeaveRelease
    <2>15. CASE LeaveRevoke(r)
      BY <2>15, <1>stores DEF LeaveRevoke
    <2>16. QED
      BY <1>2, <2>1, <2>2, <2>3, <2>4, <2>5, <2>6, <2>7, <2>8, <2>9, <2>10,
         <2>11, <2>12, <2>13, <2>14, <2>15 DEF Step
  <1>3. ASSUME NEW r \in Request, Drop(r) PROVE TypeOK'
    BY <1>3, StepTyping DEF Drop, redis
  <1>4. CASE Tick
    BY <1>4, <1>locks, <1>stores DEF Tick, locals
  <1>5. CASE Connect \/ Disconnect
    BY <1>5 DEF Connect, Disconnect, redis, locals
  <1>6. CASE UNCHANGED vars
    BY <1>6 DEF vars
  <1>7. QED
    BY <1>1, <1>2, <1>3, <1>4, <1>5, <1>6 DEF Next

\* Type correctness: whatever the requests do, the lock, the sessions and the
\* handlers' variables keep the shapes the code gives them.
THEOREM TypeCorrect == Spec => []TypeOK
BY TypeInit, TypeStep, PTL DEF Spec

-----------------------------------------------------------------------------
(* The inductive invariant.                                                *)

LEMMA InvInit == Init => IInv
  <1> SUFFICES ASSUME Init PROVE IInv
    OBVIOUS
  <1> USE OwnerFacts DEF Init
  <1>1. TypeOK
    BY TypeInit
  <1>2. OpAtPc /\ LockOwnerIsSpent /\ SessionLineage
    BY DEF OpAtPc, JoinOnly, LockOwnerIsSpent, NoLock, SessionLineage, Live, NoEntry
  <1>3. OwnerLineage /\ OwnerAtPc /\ CleanedUp
    BY DEF OwnerLineage, OwnerAtPc, CleanedUp
  <1>4. QED
    BY <1>1, <1>2, <1>3 DEF IInv

\* The session service forgets sessions, it never alters one.
Shrinks(s, t) == s = t \/ \A u \in Request : s[u].jti \in {t[u].jti, NoOwner}
                                             /\ (Live(s, u) => Live(t, u) /\ s[u].jti = t[u].jti)

LEMMA RevokedShrinks ==
    ASSUME NEW s \in Store, NEW k
    PROVE  Shrinks(Revoked(s, k), s)
BY DEF Shrinks, Revoked, Live, NoEntry

LEMMA ElapsedShrinks ==
    ASSUME NEW s \in Store
    PROVE  Shrinks(Elapsed(s), s)
  <1>1. ASSUME NEW u \in Request, s[u].ttl > 1
        PROVE  Elapsed(s)[u].jti = s[u].jti /\ Live(s, u)
    BY <1>1 DEF Elapsed, Store, Entry, Live, NoEntry
  <1>2. ASSUME NEW u \in Request, s[u].ttl <= 1
        PROVE  Elapsed(s)[u] = NoEntry
    BY <1>2 DEF Elapsed
  <1>3. QED
    BY <1>1, <1>2 DEF Shrinks, Store, Entry, Live, NoEntry

\* The token a client presents is that of a settled join's session.
LEMMA PresentedJti ==
    ASSUME IInv, NEW t \in Presentable, Live(sessions, t)
    PROVE  \E x \in Request : Settled(x) /\ sessions[t].jti = Jti(x)
BY DEF IInv, SessionLineage, IsJti, Presentable, Settled, BeforeBind

\* What an arriving request may begin with.
Arrival(r, h, o, label) ==
    \/ h = "join" /\ label = "acquire" /\ o = Claim(r)
    \/ h = "reclaim" /\ label = "look" /\ o = NoOwner
    \/ h \in {"refresh", "heartbeat", "reconnect", "leave"} /\ label = "denied" /\ o = NoOwner
    \/ /\ \E x \in Request : Settled(x) /\ o = Jti(x)
       /\ \/ h = "join" /\ label = "acquire" /\ Role = "member"
          \/ h = "refresh" /\ label = "store"
          \/ h \in {"heartbeat", "reconnect"} /\ label = "touch"
          \/ h = "leave" /\ label = "release"

LEMMA ArriveInv ==
    ASSUME IInv, TypeOK', NEW r \in Request, NEW h, NEW t, NEW o, NEW label,
           Arrive(r, h, t, o, label), Arrival(r, h, o, label),
           Shrinks(sessions', sessions)
    PROVE  IInv'
  <1> USE OwnerFacts DEF IInv, TypeOK, Arrive, Goto
  <1>1. OpAtPc'
    BY DEF OpAtPc, JoinOnly, Arrival
  <1>2. LockOwnerIsSpent'
    BY DEF LockOwnerIsSpent, Spent, BeforeBind, OpAtPc
  <1>3. SessionLineage'
    BY DEF SessionLineage, Shrinks, Live, IsJti, Settled, OpAtPc
  <1>4. OwnerLineage'
    BY DEF OwnerLineage, Arrival, Settled, Spent, BeforeBind, OpAtPc
  <1>5. OwnerAtPc'
    BY DEF OwnerAtPc, Arrival, IsJti, BeforeBind
  <1>6. CleanedUp'
    BY DEF CleanedUp, Shrinks, Arrival
  <1>7. QED
    BY <1>1, <1>2, <1>3, <1>4, <1>5, <1>6

\* Awaits a handler may move between without taking or handing over the lock
\* and without storing a session.
Move(r, label) ==
    /\ pc[r] \notin Ended \cup {"idle"}
    /\ \/ label \in Ended \cup {"revoke"}
       \/ op[r] = "join" /\ label \in {"finish", "undo_lock"}
       \/ op[r] \in {"join", "reclaim"} /\ label \in {"look", "probe", "delete"}
       \/ op[r] = "join" /\ label \in {"reacquire", "issue"}
       \/ op[r] \in {"join", "refresh"} /\ label = "undo_session"
    /\ label = "revoke" => op[r] = "leave"
    /\ label \in BeforeBind => pc[r] \in BeforeBind \ {"promote"}
    /\ (op[r] = "join" /\ label \in {"undo_lock", "denied"})
           => \/ pc[r] \in BeforeBind
              \/ ~Live(sessions', r)
              \/ label = "undo_lock" /\ "revoke" \in failed'[r]
              \/ /\ pc[r] = "undo_lock" /\ label = "denied" /\ failed[r] \subseteq failed'[r]
                 /\ lock'.owner = Jti(r) => "release" \in failed'[r] \/ owner[r] # Jti(r)
    /\ \A q \in Request : q # r => failed'[q] = failed[q]

LEMMA MoveInv ==
    ASSUME IInv, TypeOK', NEW r \in Request, NEW label,
           Move(r, label), Goto(r, label), UNCHANGED <<op, owner>>,
           lock'.owner \in {lock.owner, NoOwner},
           Shrinks(sessions', sessions)
    PROVE  IInv'
  <1> USE OwnerFacts DEF IInv, TypeOK, Goto
  <1>1. OpAtPc'
    BY DEF OpAtPc, JoinOnly, Move, Ended, BeforeBind
  <1>2. LockOwnerIsSpent'
    BY DEF LockOwnerIsSpent, Spent, Move, BeforeBind
  <1>3. SessionLineage'
    BY DEF SessionLineage, Shrinks, Live, IsJti, Settled, Move, BeforeBind, Ended
  <1>4. OwnerLineage'
    BY DEF OwnerLineage, Settled, Spent, Move, BeforeBind, Ended
  <1>5. OwnerAtPc'
    BY DEF OwnerAtPc, IsJti, Move, BeforeBind, Ended
  <1>6. CleanedUp'
    BY DEF CleanedUp, Shrinks, Move, LockOwnerIsSpent, Spent
  <1>7. QED
    BY <1>1, <1>2, <1>3, <1>4, <1>5, <1>6

LEMMA AcquireInv ==
    ASSUME IInv, TypeOK', NEW r \in Request, pc[r] \in {"acquire", "reacquire"},
           Acquires(lock, owner[r]), lock' = Acquired(owner[r]), Goto(r, "profile"),
           UNCHANGED <<sessions, op, owner, failed>>
    PROVE  IInv'
  <1> USE OwnerFacts DEF IInv, TypeOK, Goto, OpAtPc, JoinOnly
  <1>1. OpAtPc'
    OBVIOUS
  <1>2. lock'.owner = owner[r]
    BY DEF Acquired, HeldBy
  <1>3. LockOwnerIsSpent'
    <2>1. r \notin Spent
      BY DEF Spent, BeforeBind
    <2>2. Spent \subseteq Spent'
      BY <2>1 DEF Spent, BeforeBind
    <2>3. \A x \in Request : Settled(x) => x \in Spent
      BY DEF Settled, Spent, BeforeBind
    <2>4. QED
      BY <1>2, <2>1, <2>2, <2>3 DEF LockOwnerIsSpent, OwnerLineage
  <1>4. SessionLineage'
    BY DEF SessionLineage, Settled, BeforeBind
  <1>5. OwnerLineage' /\ OwnerAtPc'
    BY DEF OwnerLineage, OwnerAtPc, Settled, Spent, BeforeBind
  <1>6. CleanedUp'
    <2>1. ASSUME NEW x \in Request, pc'[x] \in {"undo_lock", "denied"}
          PROVE  lock'.owner # Jti(x)
      <3>1. x # r /\ pc[x] \in {"undo_lock", "denied"}
        BY <2>1
      <3>2. QED
        BY <1>2, <3>1 DEF OwnerLineage, Settled
    <2>2. QED
      BY <2>1 DEF CleanedUp
  <1>7. QED
    BY <1>1, <1>3, <1>4, <1>5, <1>6

LEMMA IssueInv ==
    ASSUME IInv, TypeOK', NEW r \in Request, JoinIssue(r)
    PROVE  IInv'
  <1> USE OwnerFacts DEF IInv, TypeOK, Goto, OpAtPc, JoinOnly, JoinIssue, locals
  <1>1. OpAtPc'
    OBVIOUS
  <1>2. r \notin Spent /\ lock.owner # Jti(r)
    BY DEF LockOwnerIsSpent, Spent, BeforeBind
  <1>3. LockOwnerIsSpent'
    <2>1. Spent \subseteq Spent'
      BY DEF Spent, BeforeBind
    <2>2. lock' = lock
      OBVIOUS
    <2>3. QED
      BY <2>1, <2>2 DEF LockOwnerIsSpent
  <1>4. \A t \in Request \ {r} : sessions'[t] = sessions[t]
    BY DEF Issued, Store
  <1>5. sessions'[r].jti = Jti(r) \/ sessions'[r] = sessions[r]
    BY DEF Issued, Store
  <1>6. SessionLineage'
    BY <1>4, <1>5 DEF SessionLineage, Settled, BeforeBind, Live, IsJti
  <1>7. OwnerLineage' /\ OwnerAtPc'
    BY DEF OwnerLineage, OwnerAtPc, Settled, Spent, BeforeBind
  <1>8. CleanedUp'
    BY <1>2, <1>4 DEF CleanedUp, Live
  <1>9. QED
    BY <1>1, <1>3, <1>6, <1>7, <1>8

LEMMA BindInv ==
    ASSUME IInv, TypeOK', NEW r \in Request, pc[r] = "promote",
           lock'.owner = Jti(r), NEW label \in {"finish", "undo_session"}, Goto(r, label),
           owner' \in {owner, [owner EXCEPT ![r] = Jti(r)]}, UNCHANGED <<sessions, op, failed>>
    PROVE  IInv'
  <1> USE OwnerFacts DEF IInv, TypeOK, Goto, OpAtPc, JoinOnly
  <1>1. OpAtPc'
    OBVIOUS
  <1>2. LockOwnerIsSpent'
    <2>1. r \in Spent'
      BY DEF Spent, BeforeBind
    <2>2. QED
      BY <2>1 DEF LockOwnerIsSpent
  <1>3. SessionLineage'
    BY DEF SessionLineage, Settled, BeforeBind
  <1>4. OwnerLineage' /\ OwnerAtPc'
    BY DEF OwnerLineage, OwnerAtPc, Settled, Spent, BeforeBind, IsJti
  <1>5. CleanedUp'
    <2>1. ASSUME NEW x \in Request, pc'[x] \in {"undo_lock", "denied"}
          PROVE  lock'.owner # Jti(x)
      BY <2>1
    <2>2. QED
      BY <2>1 DEF CleanedUp
  <1>6. QED
    BY <1>1, <1>2, <1>3, <1>4, <1>5

LEMMA RefreshStoreInv ==
    ASSUME IInv, TypeOK', NEW r \in Request, RefreshStore(r)
    PROVE  IInv'
  <1> USE OwnerFacts DEF IInv, TypeOK, Goto, OpAtPc, JoinOnly, RefreshStore, locals
  <1>1. OpAtPc'
    OBVIOUS
  <1>2. LockOwnerIsSpent'
    <2>1. Spent \subseteq Spent'
      BY DEF Spent, BeforeBind
    <2>2. lock' = lock
      OBVIOUS
    <2>3. QED
      BY <2>1, <2>2 DEF LockOwnerIsSpent
  <1>3. \A t \in Request \ {r} : sessions'[t] = sessions[t]
    BY DEF Issued, Store
  <1>4. sessions'[r].jti = owner[r] /\ IsJti(owner[r])
    BY DEF Issued, Store, OwnerAtPc
  <1>5. SessionLineage'
    BY <1>3, <1>4 DEF SessionLineage, OwnerLineage, Settled, Spent, Live, IsJti
  <1>6. OwnerLineage' /\ OwnerAtPc'
    BY DEF OwnerLineage, OwnerAtPc, Settled, Spent, BeforeBind
  <1>7. CleanedUp'
    BY <1>3 DEF CleanedUp, Live
  <1>8. QED
    BY <1>1, <1>2, <1>5, <1>6, <1>7

\* Time passes or LiveKit changes: no handler moves.
LEMMA EnvironmentInv ==
    ASSUME IInv, TypeOK', UNCHANGED <<op, pc, owner, failed>>,
           lock'.owner \in {lock.owner, NoOwner}, Shrinks(sessions', sessions)
    PROVE  IInv'
  <1> USE OwnerFacts DEF IInv, TypeOK
  <1>1. OpAtPc' /\ LockOwnerIsSpent' /\ OwnerLineage' /\ OwnerAtPc'
    BY DEF OpAtPc, LockOwnerIsSpent, OwnerLineage, OwnerAtPc, Settled, Spent, IsJti
  <1>2. SessionLineage'
    BY DEF SessionLineage, Settled, Shrinks, IsJti, Live
  <1>3. CleanedUp'
    BY DEF CleanedUp, Shrinks
  <1>4. QED
    BY <1>1, <1>2, <1>3

LEMMA InvStep == IInv /\ [Next]_vars => IInv'
  <1> SUFFICES ASSUME IInv, [Next]_vars PROVE IInv'
    OBVIOUS
  <1>0. TypeOK /\ TypeOK' /\ OpAtPc
    BY TypeStep DEF IInv
  <1>s. /\ \A k : Shrinks(Revoked(sessions, k), sessions)
        /\ Shrinks(Elapsed(sessions), sessions)
        /\ Shrinks(sessions, sessions)
    BY <1>0, RevokedShrinks, ElapsedShrinks DEF TypeOK, Shrinks
  <1>1. ASSUME NEW r \in Request, Begin(r) PROVE IInv'
    <2> USE <1>0, <1>s, ArriveInv, PresentedJti DEF Arrival
    <2>1. CASE JoinBegin(r)
      BY <2>1 DEF JoinBegin
    <2>2. CASE ReclaimBegin(r)
      BY <2>2 DEF ReclaimBegin
    <2>3. CASE RefreshBegin(r)
      BY <2>3 DEF RefreshBegin
    <2>4. CASE HeartbeatBegin(r)
      BY <2>4 DEF HeartbeatBegin, Verified
    <2>5. CASE ReconnectBegin(r)
      BY <2>5 DEF ReconnectBegin, Verified
    <2>6. CASE LeaveBegin(r)
      BY <2>6 DEF LeaveBegin, Verified
    <2>7. QED
      BY <1>1, <2>1, <2>2, <2>3, <2>4, <2>5, <2>6 DEF Begin
  <1>2. ASSUME NEW r \in Request, Step(r) PROVE IInv'
    <2> USE <1>0, <1>s, MoveInv DEF Move, OpAtPc, JoinOnly, BeforeBind, Ended, redis, locals
    <2>1. CASE JoinAcquire(r)
      BY <2>1, AcquireInv DEF JoinAcquire
    <2>2. CASE JoinProfile(r)
      BY <2>2 DEF JoinProfile
    <2>3. CASE JoinIssue(r)
      BY <2>3, IssueInv
    <2>4. CASE JoinPromote(r)
      BY <2>4, BindInv DEF JoinPromote, Promoted, HeldBy
    <2>5. CASE JoinPromoteFails(r)
      BY <2>5, BindInv DEF JoinPromoteFails, Promoted, HeldBy
    <2>6. CASE JoinFinish(r)
      BY <2>6 DEF JoinFinish
    <2>f. ASSUME NEW c \in {"revoke", "release"}, Ignored(r, c)
          PROVE  /\ failed'[r] = failed[r] \cup {c}
                 /\ \A q \in Request : q # r => failed'[q] = failed[q]
      BY <2>f DEF Ignored, TypeOK
    <2>7. CASE UndoSession(r)
      <3>1. CASE sessions' = Revoked(sessions, r) /\ UNCHANGED failed
        <4>1. ~Live(sessions', r)
          BY <3>1 DEF Revoked, Live
        <4>2. Shrinks(sessions', sessions)
          BY <3>1
        <4>3. Move(r, IF op[r] = "join" THEN "undo_lock" ELSE "denied")
          BY <2>7, <3>1, <4>1 DEF UndoSession
        <4>4. QED
          BY <2>7, <4>2, <4>3 DEF UndoSession
      <3>2. CASE Ignored(r, "revoke") /\ UNCHANGED sessions
        <4>1. /\ "revoke" \in failed'[r]
              /\ \A q \in Request : q # r => failed'[q] = failed[q]
          BY <2>f, <3>2
        <4>2. Move(r, IF op[r] = "join" THEN "undo_lock" ELSE "denied")
          BY <2>7, <4>1 DEF UndoSession
        <4>3. QED
          BY <2>7, <3>2, <4>2 DEF UndoSession
      <3>3. QED
        BY <2>7, <3>1, <3>2 DEF UndoSession
    <2>8. CASE UndoLock(r)
      <3>1. CASE lock' = Released(lock, owner[r]) /\ UNCHANGED failed
        <4>1. lock'.owner = Jti(r) => owner[r] # Jti(r)
          BY <3>1, OwnerFacts DEF Released, IsFree, NoLock
        <4>2. Move(r, "denied")
          BY <2>8, <3>1, <4>1 DEF UndoLock
        <4>3. lock'.owner \in {lock.owner, NoOwner}
          BY <3>1 DEF Released, NoLock
        <4>4. QED
          BY <2>8, <4>2, <4>3 DEF UndoLock
      <3>2. CASE Ignored(r, "release") /\ UNCHANGED lock
        <4>1. /\ failed[r] \subseteq failed'[r] /\ "release" \in failed'[r]
              /\ \A q \in Request : q # r => failed'[q] = failed[q]
          BY <2>f, <3>2
        <4>2. Move(r, "denied")
          BY <2>8, <4>1 DEF UndoLock
        <4>3. QED
          BY <2>8, <3>2, <4>2 DEF UndoLock
      <3>3. QED
        BY <2>8, <3>1, <3>2 DEF UndoLock
    <2>9. CASE Look(r)
      BY <2>9 DEF Look
    <2>10. CASE Probe(r)
      BY <2>10 DEF Probe
    <2>11. CASE Delete(r)
      BY <2>11 DEF Delete, Deleted, NoLock
    <2>12. CASE RefreshStore(r)
      BY <2>12, RefreshStoreInv
    <2>13. CASE Touch(r)
      BY <2>13 DEF Touch, Touches, Touched, HeldBy
    <2>14. CASE LeaveRelease(r)
      BY <2>14 DEF LeaveRelease, Released, NoLock
    <2>15. CASE LeaveRevoke(r)
      BY <2>15 DEF LeaveRevoke
    <2>16. QED
      BY <1>2, <2>1, <2>2, <2>3, <2>4, <2>5, <2>6, <2>7, <2>8, <2>9, <2>10,
         <2>11, <2>12, <2>13, <2>14, <2>15 DEF Step
  <1>3. ASSUME NEW r \in Request, Drop(r) PROVE IInv'
    BY <1>0, <1>s, <1>3, MoveInv DEF Drop, Throws, Move, OpAtPc, JoinOnly, Ended, BeforeBind,
                                     redis, locals
  <1>4. CASE Tick
    BY <1>0, <1>s, <1>4, EnvironmentInv DEF Tick, Aged, NoLock, Lock, TypeOK, locals
  <1>5. CASE Connect \/ Disconnect
    BY <1>0, <1>s, <1>5, EnvironmentInv DEF Connect, Disconnect, redis, locals
  <1>6. CASE UNCHANGED vars
    BY <1>0, <1>s, <1>6, EnvironmentInv DEF vars
  <1>7. QED
    BY <1>1, <1>2, <1>3, <1>4, <1>5, <1>6 DEF Next

LEMMA Invariance == Spec => []IInv
BY InvInit, InvStep, PTL DEF Spec

-----------------------------------------------------------------------------
(* What follows from it.                                                   *)

\* A join answered with an error leaves both its session and the lock in that session's
\* name only if the clean-up's revoke failed too, and the release did or missed the lock.
THEOREM FailedJoinIsHarmless == Spec => []FailedJoinCannotAct
  <1>1. IInv => FailedJoinCannotAct
    BY DEF IInv, CleanedUp, FailedJoinCannotAct
  <1>2. QED
    BY <1>1, Invariance, PTL

\* Only a taken or promoted lock has a new owner.
LEMMA NewOwner ==
    ASSUME TypeOK, Next, lock'.owner # lock.owner, lock'.owner # NoOwner
    PROVE  \E r \in Request :
              \/ pc[r] \in {"acquire", "reacquire"} /\ lock'.owner = owner[r] /\ UNCHANGED <<op, owner>>
              \/ pc[r] = "promote" /\ lock'.owner = Jti(r)
  <1>1. CASE \E r \in Request : Begin(r) \/ Drop(r)
    BY <1>1 DEF Begin, Drop, redis, JoinBegin, ReclaimBegin, RefreshBegin, HeartbeatBegin,
                ReconnectBegin, LeaveBegin, Verified, Arrive
  <1>2. ASSUME NEW r \in Request, Step(r)
        PROVE \/ pc[r] \in {"acquire", "reacquire"} /\ lock'.owner = owner[r] /\ UNCHANGED <<op, owner>>
              \/ pc[r] = "promote" /\ lock'.owner = Jti(r)
    <2>1. CASE JoinAcquire(r)
      BY <2>1 DEF JoinAcquire, Acquired, HeldBy, locals
    <2>2. CASE JoinPromote(r) \/ JoinPromoteFails(r)
      BY <2>2 DEF JoinPromote, JoinPromoteFails, Promoted, HeldBy
    <2>3. CASE UndoLock(r) \/ LeaveRelease(r) \/ Delete(r)
      BY <2>3 DEF UndoLock, LeaveRelease, Delete, Deleted, Released, NoLock
    <2>4. CASE Touch(r)
      BY <2>4 DEF Touch, Touches, Touched, HeldBy
    <2>5. CASE \/ JoinProfile(r) \/ JoinIssue(r) \/ JoinFinish(r) \/ UndoSession(r)
               \/ Look(r) \/ Probe(r) \/ RefreshStore(r) \/ LeaveRevoke(r)
      BY <2>5 DEF JoinProfile, JoinIssue, JoinFinish, UndoSession, Look, Probe,
                  RefreshStore, LeaveRevoke, redis
    <2>6. QED
      BY <1>2, <2>1, <2>2, <2>3, <2>4, <2>5 DEF Step
  <1>3. CASE Tick
    BY <1>3 DEF Tick, Aged, NoLock, Lock, TypeOK
  <1>4. CASE Connect \/ Disconnect
    BY <1>4 DEF Connect, Disconnect, redis
  <1>5. QED
    BY <1>1, <1>2, <1>3, <1>4 DEF Next

\* A session that lost the identity gets it back only through a member's join
\* that presents its token.
THEOREM DisplacedSessionStays == Spec => DisplacedStaysDisplaced
  <1>1. ASSUME IInv, [Next]_vars, NEW r \in Request,
               op[r] = "join", pc[r] = "ok", lock.owner # Jti(r), lock'.owner = Jti(r)
        PROVE  Role = "member" /\ Rejoining(Jti(r))
    <2>1. TypeOK /\ Next
      BY <1>1 DEF IInv, vars
    <2>2. PICK q \in Request :
             \/ pc[q] \in {"acquire", "reacquire"} /\ lock'.owner = owner[q] /\ UNCHANGED <<op, owner>>
             \/ pc[q] = "promote" /\ lock'.owner = Jti(q)
      BY <1>1, <2>1, NewOwner, OwnerFacts
    <2>3. pc[q] \in {"acquire", "reacquire"} /\ owner[q] = Jti(r) /\ q # r
      BY <1>1, <2>2, OwnerFacts
    <2>4. op[q] = "join" /\ Jti(r) # Jti(q) /\ Role = "member"
      BY <1>1, <2>3, OwnerFacts DEF IInv, OpAtPc, JoinOnly, OwnerAtPc, BeforeBind
    <2>5. QED
      BY <2>3, <2>4 DEF Rejoining
  <1>2. IInv /\ [Next]_vars => RegainsOnlyByRejoin
    BY <1>1 DEF RegainsOnlyByRejoin
  <1>3. QED
    BY <1>2, Invariance, PTL DEF Spec, DisplacedStaysDisplaced

-----------------------------------------------------------------------------
(* Refinement of IdentityLease.                                            *)

\* A request before its attempt to bind spends it, or does not.
LEMMA SpentStep ==
    ASSUME NEW r \in Request, NEW label, TypeOK, Goto(r, label), UNCHANGED op
    PROVE  /\ label \in BeforeBind /\ r \notin Spent => Spent' = Spent
           /\ r \in Spent /\ label \notin BeforeBind => Spent' = Spent
           /\ op[r] # "join" => Spent' = Spent
           /\ r \notin Spent /\ op[r] = "join" /\ label \notin BeforeBind
                  => Spent' = Spent \cup {r}
BY DEF TypeOK, Goto, Spent

LEMMA SpentArrive ==
    ASSUME IInv, NEW r \in Request, NEW h, NEW t, NEW o, NEW label, Arrive(r, h, t, o, label),
           h = "join" => label = "acquire"
    PROVE  Spent' = Spent /\ lock' = lock
BY DEF IInv, TypeOK, OpAtPc, Arrive, Goto, Spent, BeforeBind

LEMMA LeaseInit == Init => Lease!Init
BY DEF Init, Lease!Init, NoLock, Spent, NoOwner, Lease!NoOwner

\* Every step is a step of the lease, or leaves it alone.
LEMMA LeaseStep == IInv /\ IInv' /\ [Next]_vars => [Lease!Next]_Lease!vars
  <1> SUFFICES ASSUME IInv, IInv', [Next]_vars PROVE [Lease!Next]_Lease!vars
    OBVIOUS
  <1> USE OwnerFacts DEF Lease!vars
  <1>owners. /\ NoOwner = Lease!NoOwner
             /\ \A r : Claim(r) = Lease!Claim(r) /\ Jti(r) = Lease!Jti(r)
    BY DEF NoOwner, Lease!NoOwner, Claim, Lease!Claim, Jti, Lease!Jti
  <1>inv. TypeOK /\ OpAtPc /\ LockOwnerIsSpent /\ OwnerLineage /\ OwnerAtPc
    BY DEF IInv
  <1>free. ASSUME Spent' = Spent, lock'.owner \in {lock.owner, NoOwner}
           PROVE  [Lease!Next]_Lease!vars
    BY <1>free, <1>owners DEF Lease!Next, Lease!Free
  <1>giveup. ASSUME NEW r \in Request, r \notin Spent, Spent' = Spent \cup {r},
                    lock'.owner = lock.owner
             PROVE  [Lease!Next]_Lease!vars
    BY <1>giveup DEF Lease!Next, Lease!GiveUp
  <1>1. ASSUME NEW r \in Request, Begin(r) PROVE [Lease!Next]_Lease!vars
    BY <1>1, <1>free, SpentArrive DEF Begin, JoinBegin, ReclaimBegin, RefreshBegin,
       HeartbeatBegin, ReconnectBegin, LeaveBegin, Verified
  <1>2. ASSUME NEW r \in Request, Step(r) PROVE [Lease!Next]_Lease!vars
    <2> USE <1>inv, <1>free, <1>giveup, SpentStep DEF OpAtPc, JoinOnly, locals
    <2> DEFINE PreBind == op[r] = "join" /\ pc[r] \in BeforeBind
    <2>spent. r \in Spent <=> (op[r] = "join" /\ pc[r] \notin BeforeBind)
      BY DEF Spent
    <2>1. CASE JoinAcquire(r)
      <3>1. CASE Acquires(lock, owner[r]) /\ lock' = Acquired(owner[r]) /\ Goto(r, "profile")
        <4>1. Spent' = Spent /\ lock'.owner = owner[r] /\ r \notin Spent
          BY <2>1, <3>1, <2>spent DEF JoinAcquire, BeforeBind, Acquired, HeldBy
        <4>2. lock.owner \in {NoOwner, owner[r]}
          BY <3>1 DEF Acquires, IsFree
        <4>3. CASE owner[r] = Claim(r)
          BY <4>1, <4>2, <4>3, <1>owners DEF Lease!Next, Lease!Take
        <4>4. CASE Role = "member" /\ IsJti(owner[r])
          <5>1. PICK x \in Request : owner[r] = Jti(x)
            BY <4>4 DEF IsJti
          <5>2. x \in Spent
            BY <5>1, <4>1 DEF OwnerLineage, Settled, Spent, BeforeBind
          <5>3. QED
            BY <4>1, <4>2, <4>4, <5>1, <5>2, <1>owners DEF Lease!Next, Lease!Resume
        <4>5. QED
          BY <2>1, <4>3, <4>4 DEF JoinAcquire, OwnerAtPc, BeforeBind
      <3>2. QED
        BY <2>1, <3>1, <2>spent DEF JoinAcquire, BeforeBind
    <2>2. ASSUME JoinPromote(r) \/ (JoinPromoteFails(r) /\ lock'.owner = Jti(r)
                                     /\ Promotes(lock, owner[r], Jti(r)))
          PROVE  [Lease!Next]_Lease!vars
      <3>1. /\ op[r] = "join" /\ pc[r] = "promote" /\ r \notin Spent
            /\ lock'.owner = Jti(r) /\ Promotes(lock, owner[r], Jti(r))
        BY <2>2, <2>spent DEF JoinPromote, JoinPromoteFails, Promoted, HeldBy, BeforeBind
      <3>2. Spent' = Spent \cup {r}
        BY <2>2, <3>1 DEF JoinPromote, JoinPromoteFails, BeforeBind
      <3>3. lock.owner = owner[r]
        BY <3>1 DEF Promotes, LockOwnerIsSpent
      <3>4. CASE owner[r] = Claim(r)
        BY <3>1, <3>2, <3>3, <3>4, <1>owners DEF Lease!Next, Lease!Bind
      <3>5. CASE Role = "member" /\ IsJti(owner[r])
        BY <3>1, <3>2, <3>3, <3>5, <1>owners DEF Lease!Next, Lease!Bind, IsJti, LockOwnerIsSpent
      <3>6. QED
        BY <3>1, <3>4, <3>5 DEF OwnerAtPc, BeforeBind
    <2>3. CASE JoinPromoteFails(r) /\ lock' = lock
      BY <2>3, <2>spent DEF JoinPromoteFails, BeforeBind
    <2>4. CASE JoinProfile(r) \/ JoinIssue(r)
      BY <2>4, <2>spent DEF JoinProfile, JoinIssue, BeforeBind, redis
    <2>5. CASE JoinFinish(r) \/ UndoSession(r) \/ UndoLock(r)
      BY <2>5, <2>spent DEF JoinFinish, UndoSession, UndoLock, BeforeBind, redis, Released, NoLock
    <2>6. CASE Look(r)
      BY <2>6, <2>spent DEF Look, BeforeBind, redis
    <2>7. CASE Probe(r)
      BY <2>7, <2>spent DEF Probe, BeforeBind, redis
    <2>8. CASE Delete(r)
      BY <2>8, <2>spent DEF Delete, Deleted, NoLock, BeforeBind
    <2>9. CASE RefreshStore(r) \/ LeaveRelease(r) \/ LeaveRevoke(r)
      BY <2>9, <2>spent DEF RefreshStore, LeaveRelease, LeaveRevoke, Released, NoLock
    <2>10. CASE Touch(r)
      BY <2>10, <2>spent DEF Touch, Touches, Touched, HeldBy
    <2>11. QED
      BY <1>2, <2>1, <2>2, <2>3, <2>4, <2>5, <2>6, <2>7, <2>8, <2>9, <2>10
         DEF Step, JoinPromoteFails, Promoted, HeldBy
  <1>3. ASSUME NEW r \in Request, Drop(r) PROVE [Lease!Next]_Lease!vars
    BY <1>3, <1>inv, <1>free, <1>giveup, SpentStep DEF Drop, redis, locals, BeforeBind
  <1>4. CASE Tick
    BY <1>4, <1>free, <1>inv DEF Tick, Aged, NoLock, Lock, TypeOK, locals, Spent
  <1>5. CASE Connect \/ Disconnect \/ UNCHANGED vars
    BY <1>5, <1>free DEF Connect, Disconnect, redis, locals, Spent, vars
  <1>6. QED
    BY <1>1, <1>2, <1>3, <1>4, <1>5 DEF Next

\* The handlers of room.rs and session.rs implement the lease: the identity is
\* never handed from one live holder to an unrelated one.
THEOREM IdentityImplementsLease == Spec => ImplementsLease
BY LeaseInit, LeaseStep, Invariance, PTL DEF Spec, ImplementsLease, Lease!Spec

-----------------------------------------------------------------------------
(* The leases.                                                             *)

\* A session never outlasts the time it was issued for, and only joins and refreshes
\* issue one.  One whose handler has seen to the lock, and that holds it, is covered by
\* the lease, unless a rejoin has taken the lock over.
ShortClaims == lock.owner.kind = "join" => lock.ttl <= JoinLockTtl
Bounded == \A t \in Request : sessions[t].ttl <= SessionTtl
Issuers == \A t \in Request : Live(sessions, t) => op[t] \in {"join", "refresh"}
Covered ==
    \A t \in Request :
        (pc[t] \in {"finish", "ok"} /\ Live(sessions, t) /\ lock.owner = sessions[t].jti)
            => lock.ttl >= sessions[t].ttl \/ Rejoining(lock.owner)
LeaseInv == ShortClaims /\ Bounded /\ Issuers /\ Covered

\* Sessions are revoked, none is altered.
Kept(s, t) == \A u \in Request : s[u] \in {t[u], NoEntry}

LEMMA RevokedKept ==
    ASSUME NEW s \in Store, NEW k
    PROVE  Kept(Revoked(s, k), s)
BY DEF Kept, Revoked

\* A step of r that leaves the lock as it is, or frees it, and issues no session.
LEMMA KeptLease ==
    ASSUME IInv, LeaseInv, NEW r, lock' \in {lock, NoLock}, Kept(sessions', sessions),
           \A q \in Request : q # r => pc'[q] = pc[q] /\ op'[q] = op[q] /\ owner'[q] = owner[q],
           r \in Request => /\ op[r] # "none" => op'[r] = op[r] /\ owner'[r] = owner[r]
                            /\ pc'[r] \in {"finish", "ok"}
                                   => pc[r] \in {"finish", "ok"} \/ op[r] \notin {"join", "refresh"}
    PROVE  LeaseInv'
  <1>1. ShortClaims'
    BY DEF LeaseInv, ShortClaims, NoLock, NoOwner
  <1>2. Bounded'
    BY TtlAssumption DEF LeaseInv, Bounded, Kept, NoEntry
  <1>3. \A t \in Request : Live(sessions', t) =>
            Live(sessions, t) /\ sessions'[t] = sessions[t] /\ op[t] \in {"join", "refresh"}
    BY DEF LeaseInv, Issuers, Kept, Live
  <1>4. \A q \in Request : op[q] # "none" => op'[q] = op[q] /\ owner'[q] = owner[q]
    OBVIOUS
  <1>5. Issuers'
    BY <1>3, <1>4 DEF Issuers
  <1>6. ASSUME NEW t \in Request, pc'[t] \in {"finish", "ok"}, Live(sessions', t),
               lock'.owner = sessions'[t].jti
        PROVE  lock'.ttl >= sessions'[t].ttl \/ Rejoining(lock.owner)'
    <2>1. lock'.owner # NoOwner
      BY <1>3, <1>6, OwnerFacts DEF IInv, SessionLineage, IsJti
    <2>2. lock' = lock
      BY <2>1 DEF NoLock
    <2>3. pc[t] \in {"finish", "ok"}
      BY <1>3, <1>6
    <2>4. lock.ttl >= sessions[t].ttl \/ Rejoining(lock.owner)
      BY <1>3, <1>6, <2>2, <2>3 DEF LeaseInv, Covered
    <2>5. Rejoining(lock.owner) => Rejoining(lock.owner)'
      BY <1>4, <2>2 DEF Rejoining
    <2>6. QED
      BY <1>3, <1>6, <2>2, <2>4, <2>5
  <1>7. Covered'
    BY <1>6 DEF Covered, Rejoining
  <1>8. QED
    BY <1>1, <1>2, <1>5, <1>7 DEF LeaseInv

\* A step that gives the lock to a session, for as long as a session lasts.
LEMMA RenewedLease ==
    ASSUME IInv, LeaseInv, lock'.owner.kind # "join", lock'.ttl = SessionTtl,
           UNCHANGED <<sessions, op>>
    PROVE  LeaseInv'
  <1>1. sessions \in [Request -> [jti : Owner \cup {NoOwner}, ttl : Nat]]
    BY DEF IInv, TypeOK, Store, Entry
  <1>2. QED
    BY <1>1, TtlAssumption DEF LeaseInv, ShortClaims, Bounded, Issuers, Covered, Live

\* A join that takes the lock does so under its claim, or is a rejoin.
LEMMA TakenLease ==
    ASSUME IInv, LeaseInv, NEW r \in Request, op[r] = "join", pc[r] \in BeforeBind,
           lock' = Acquired(owner[r]), UNCHANGED <<sessions, op, owner>>
    PROVE  LeaseInv'
  <1>1. lock'.owner = owner[r] /\ lock'.ttl = JoinLockTtl
    BY DEF Acquired, HeldBy
  <1>2. ShortClaims' /\ Bounded' /\ Issuers'
    BY <1>1, TtlAssumption DEF LeaseInv, ShortClaims, Bounded, Issuers, Live
  <1>3. CASE owner[r] = Claim(r)
    <2>1. \A t \in Request : Live(sessions, t) => sessions[t].jti # Claim(r)
      BY OwnerFacts DEF IInv, SessionLineage, IsJti
    <2>2. Covered'
      BY <1>1, <1>3, <2>1 DEF Covered, Live
    <2>3. QED
      BY <1>2, <2>2 DEF LeaseInv
  <1>4. CASE IsJti(owner[r])
    <2>1. owner[r] # Jti(r)
      BY DEF IInv, OwnerLineage, Settled, Spent, BeforeBind
    <2>2. Rejoining(owner[r])'
      BY <2>1 DEF Rejoining
    <2>3. QED
      BY <1>1, <1>2, <2>2 DEF Covered, LeaseInv, Rejoining
  <1>5. QED
    BY <1>3, <1>4 DEF IInv, OwnerAtPc

\* A session is issued before its handler sees to the lock.
LEMMA IssuedLease ==
    ASSUME IInv, LeaseInv, NEW r \in Request, op[r] \in {"join", "refresh"}, NEW o, NEW label,
           sessions' = Issued(sessions, r, o), Goto(r, label), label \notin {"finish", "ok"},
           UNCHANGED <<lock, op, owner>>
    PROVE  LeaseInv'
  <1>1. /\ \A t \in Request : t # r => sessions'[t] = sessions[t] /\ pc'[t] = pc[t]
        /\ sessions'[r] = [jti |-> o, ttl |-> SessionTtl] /\ pc'[r] = label
    BY DEF IInv, TypeOK, Store, Issued, Goto
  <1>2. ShortClaims' /\ Bounded' /\ Issuers'
    BY <1>1, TtlAssumption DEF LeaseInv, ShortClaims, Bounded, Issuers, Live
  <1>3. Covered'
    BY <1>1 DEF LeaseInv, Covered, Live, Rejoining
  <1>4. QED
    BY <1>2, <1>3 DEF LeaseInv

\* Lock and sessions grow old together.
LEMMA AgedLease ==
    ASSUME IInv, LeaseInv, Tick
    PROVE  LeaseInv'
  <1>1. /\ lock \in Lock /\ sessions \in Store
        /\ lock' = Aged(lock) /\ sessions' = Elapsed(sessions)
        /\ UNCHANGED <<pc, op, owner>>
    BY DEF IInv, TypeOK, Tick, locals
  <1>2. \/ lock' = NoLock
        \/ lock'.owner = lock.owner /\ lock'.ttl = lock.ttl - 1
    BY <1>1 DEF Aged, Lock
  <1>3. \A t \in Request : \/ sessions'[t] = NoEntry
                           \/ /\ sessions'[t].jti = sessions[t].jti
                              /\ sessions'[t].ttl = sessions[t].ttl - 1
                              /\ sessions[t].ttl > 1
    BY <1>1 DEF Elapsed, Store, Entry
  <1>4. /\ lock.ttl \in Nat /\ \A t \in Request : sessions[t].ttl \in Nat
        /\ \A t \in Request : sessions[t].ttl > 1 => Live(sessions, t)
    BY <1>1 DEF Lock, Store, Entry, Live, NoEntry
  <1>5. ShortClaims'
    BY <1>2, <1>4, TtlAssumption DEF LeaseInv, ShortClaims, NoLock, NoOwner
  <1>6. Bounded'
    BY <1>3, <1>4, TtlAssumption DEF LeaseInv, Bounded, NoEntry
  <1>7. Issuers'
    BY <1>1, <1>3, <1>4 DEF LeaseInv, Issuers, Live
  <1>8. ASSUME NEW t \in Request, pc'[t] \in {"finish", "ok"}, Live(sessions', t),
               lock'.owner = sessions'[t].jti
        PROVE  lock'.ttl >= sessions'[t].ttl \/ Rejoining(lock'.owner)
    <2>1. /\ Live(sessions, t) /\ sessions'[t].jti = sessions[t].jti
          /\ sessions'[t].ttl = sessions[t].ttl - 1
      BY <1>3, <1>4, <1>8 DEF Live
    <2>2. lock'.owner # NoOwner
      BY <1>8, <2>1, OwnerFacts DEF IInv, SessionLineage, IsJti
    <2>3. lock'.owner = lock.owner /\ lock'.ttl = lock.ttl - 1
      BY <1>2, <2>2 DEF NoLock
    <2>4. lock.ttl >= sessions[t].ttl \/ Rejoining(lock.owner)
      BY <1>1, <1>8, <2>1, <2>3 DEF LeaseInv, Covered
    <2>5. QED
      BY <1>4, <2>1, <2>3, <2>4
  <1>9. Covered'
    BY <1>1, <1>8 DEF Covered, Rejoining
  <1>10. QED
    BY <1>5, <1>6, <1>7, <1>9 DEF LeaseInv

LEMMA LeaseInvStep == IInv /\ LeaseInv /\ [Next]_vars => LeaseInv'
  <1> SUFFICES ASSUME IInv, LeaseInv, [Next]_vars PROVE LeaseInv'
    OBVIOUS
  <1>0. TypeOK /\ OpAtPc /\ (\A k : Kept(Revoked(sessions, k), sessions)) /\ Kept(sessions, sessions)
    BY RevokedKept DEF IInv, TypeOK, Kept
  <1>1. ASSUME NEW r \in Request, NEW h, NEW t, NEW o, NEW label, Arrive(r, h, t, o, label),
               label \notin {"finish", "ok"}, Kept(sessions', sessions)
        PROVE  LeaseInv'
    BY <1>0, <1>1, KeptLease DEF Arrive, Goto, OpAtPc, TypeOK
  <1>2. ASSUME NEW r \in Request, NEW label, Goto(r, label), UNCHANGED <<op, owner>>,
               pc[r] # "idle",
               label \in {"finish", "ok"} => pc[r] = "finish" \/ op[r] \notin {"join", "refresh"},
               lock' \in {lock, NoLock}, Kept(sessions', sessions)
        PROVE  LeaseInv'
    BY <1>0, <1>2, KeptLease DEF Goto, TypeOK
  <1>3. ASSUME NEW r \in Request, Begin(r) PROVE LeaseInv'
    BY <1>0, <1>1, <1>3 DEF Begin, JoinBegin, ReclaimBegin, RefreshBegin, HeartbeatBegin,
                           ReconnectBegin, LeaveBegin, Verified
  <1>4. ASSUME NEW r \in Request, Step(r) PROVE LeaseInv'
    <2>1. CASE JoinAcquire(r)
      <3>1. op[r] = "join" /\ pc[r] \in BeforeBind /\ UNCHANGED <<sessions, op, owner>>
        BY <1>0, <2>1 DEF JoinAcquire, OpAtPc, JoinOnly, BeforeBind, locals
      <3>2. CASE lock' = Acquired(owner[r])
        BY <3>1, <3>2, TakenLease
      <3>3. CASE UNCHANGED lock
        BY <1>0, <1>2, <2>1, <3>1, <3>3 DEF JoinAcquire
      <3>4. QED
        BY <2>1, <3>2, <3>3 DEF JoinAcquire
    <2>2. CASE JoinProfile(r) \/ Probe(r)
      BY <1>0, <1>2, <2>2 DEF JoinProfile, Probe, redis, locals
    <2>3. CASE JoinIssue(r)
      <3>1. op[r] = "join" /\ UNCHANGED <<lock, op, owner>>
        BY <1>0, <2>3 DEF JoinIssue, OpAtPc, JoinOnly, locals
      <3>2. CASE sessions' = Issued(sessions, r, Jti(r))
        BY <2>3, <3>1, <3>2, IssuedLease DEF JoinIssue
      <3>3. CASE UNCHANGED sessions
        BY <1>0, <1>2, <2>3, <3>1, <3>3 DEF JoinIssue
      <3>4. QED
        BY <2>3, <3>2, <3>3 DEF JoinIssue
    <2>4. CASE JoinPromote(r) \/ JoinPromoteFails(r)
      <3>1. UNCHANGED <<sessions, op>>
        BY <2>4 DEF JoinPromote, JoinPromoteFails, locals
      <3>2. CASE lock' = Promoted(Jti(r))
        BY <3>1, <3>2, RenewedLease DEF Promoted, HeldBy, Jti
      <3>3. CASE UNCHANGED lock /\ JoinPromoteFails(r)
        BY <1>0, <1>2, <3>3 DEF JoinPromoteFails, locals
      <3>4. QED
        BY <2>4, <3>2, <3>3 DEF JoinPromote, JoinPromoteFails
    <2>5. CASE JoinFinish(r)
      BY <1>0, <1>2, <2>5 DEF JoinFinish, redis, locals
    <2>6. CASE UndoSession(r)
      BY <1>0, <1>2, <2>6 DEF UndoSession, locals
    <2>7. CASE UndoLock(r)
      BY <1>0, <1>2, <2>7 DEF UndoLock, Released, locals
    <2>8. CASE Look(r)
      BY <1>0, <1>2, <2>8 DEF Look, redis, OpAtPc
    <2>9. CASE Delete(r)
      BY <1>0, <1>2, <2>9 DEF Delete, Deleted, locals, OpAtPc
    <2>10. CASE RefreshStore(r)
      BY <1>0, <2>10, IssuedLease DEF RefreshStore, OpAtPc, locals
    <2>11. CASE Touch(r)
      <3>1. UNCHANGED <<sessions, op, owner>> /\ IsJti(owner[r])
        BY <2>11 DEF Touch, locals, IInv, OwnerAtPc
      <3>2. CASE lock' = Touched(owner[r])
        BY <3>1, <3>2, RenewedLease DEF Touched, HeldBy, IsJti, Jti
      <3>3. CASE UNCHANGED lock /\ ~Touches(lock, owner[r])
        BY <1>0, <1>2, <2>11, <3>1, <3>3 DEF Touch
      <3>4. QED
        BY <2>11, <3>2, <3>3 DEF Touch
    <2>12. CASE LeaveRelease(r)
      BY <1>0, <1>2, <2>12 DEF LeaveRelease, Released, locals
    <2>13. CASE LeaveRevoke(r)
      BY <1>0, <1>2, <2>13 DEF LeaveRevoke, locals, OpAtPc
    <2>14. QED
      BY <1>4, <2>1, <2>2, <2>3, <2>4, <2>5, <2>6, <2>7, <2>8, <2>9, <2>10, <2>11,
         <2>12, <2>13 DEF Step
  <1>5. ASSUME NEW r \in Request, Drop(r) PROVE LeaseInv'
    BY <1>0, <1>2, <1>5 DEF Drop, redis, locals
  <1>6. CASE Connect \/ Disconnect \/ UNCHANGED vars
    <2>1. UNCHANGED <<lock, sessions, op, pc, owner>>
      BY <1>6 DEF Connect, Disconnect, redis, locals, vars
    <2>2. QED
      BY <1>0, <2>1, KeptLease
  <1>7. QED
    BY <1>3, <1>4, <1>5, <1>6, AgedLease DEF Next

\* A join's claim is short, and the lock of a session that refreshes in time does not
\* lapse before the session, unless a rejoin under its owner string has shortened it.
THEOREM LeasesFit == Spec => []LeaseFitsHolder
  <1>1. Init => LeaseInv
    BY TtlAssumption DEF Init, LeaseInv, ShortClaims, Bounded, Issuers, Covered, NoLock, NoOwner,
                         NoEntry, Live
  <1>2. LeaseInv => LeaseFitsHolder
    BY DEF LeaseInv, ShortClaims, Covered, LeaseFitsHolder
  <1>3. QED
    BY <1>1, <1>2, LeaseInvStep, Invariance, PTL DEF Spec
=============================================================================
