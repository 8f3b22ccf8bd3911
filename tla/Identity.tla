------------------------------ MODULE Identity ------------------------------
(***************************************************************************)
(* The HTTP handlers that fight over one identity of one room: join,       *)
(* refresh, heartbeat, reconnect, leave and the host's force-reclaim       *)
(* (routes/room.rs, routes/session.rs).  Handlers are async tasks: each    *)
(* action below is one awaited call (a Redis command, a LiveKit query, a   *)
(* SQLite call) with the code up to the next await, and handlers           *)
(* interleave between them.  Keys of different rooms or users are          *)
(* independent, so one identity is enough.                                 *)
(*                                                                         *)
(* Each request of Request runs one handler once.  A handler may be        *)
(* dropped at any await: the client hangs up or the process restarts; and  *)
(* an error may leave it through "?", answered with nothing undone.        *)
(***************************************************************************)
EXTENDS Session

CONSTANT Role   \* role of the identity: "host" or "member"

ASSUME RoleAssumption == Role \in {"host", "member"}

VARIABLES
    lock,      \* the identity lock in Redis
    sessions,  \* the app sessions in Redis
    active,    \* is a participant of this identity connected to LiveKit?
    op,        \* the handler each request runs
    pc,        \* the await each request stands at
    bearer,    \* the token it presented
    owner,     \* the owner string it uses: join_owner, app_owner or session_owner
    seen,      \* the presence state it read: the owner, and whether it was stale
    failed     \* the calls of its clean-up that failed, their errors ignored

vars == <<lock, sessions, active, op, pc, bearer, owner, seen, failed>>
redis == <<lock, sessions>>
locals == <<op, bearer, owner, seen, failed>>

Ended == {"ok", "denied", "dropped"}
Label == {"idle", "acquire", "look", "probe", "delete", "reacquire", "profile",
          "issue", "promote", "finish", "undo_session", "undo_lock", "store",
          "touch", "release", "revoke"} \cup Ended
Op == {"none", "join", "reclaim", "refresh", "heartbeat", "reconnect", "leave"}
NothingSeen == [owner |-> NoOwner, stale |-> FALSE]

TypeOK ==
    /\ lock \in Lock
    /\ sessions \in Store
    /\ active \in BOOLEAN
    /\ op \in [Request -> Op]
    /\ pc \in [Request -> Label]
    /\ bearer \in [Request -> Request \cup {NoRequest}]
    /\ owner \in [Request -> Owner \cup {NoOwner}]
    /\ seen \in [Request -> [owner : Owner \cup {NoOwner}, stale : BOOLEAN]]
    /\ failed \in [Request -> SUBSET {"revoke", "release"}]

Init ==
    /\ lock = NoLock
    /\ sessions = [t \in Request |-> NoEntry]
    /\ active = FALSE
    /\ op = [r \in Request |-> "none"]
    /\ pc = [r \in Request |-> "idle"]
    /\ bearer = [r \in Request |-> NoRequest]
    /\ owner = [r \in Request |-> NoOwner]
    /\ seen = [r \in Request |-> NothingSeen]
    /\ failed = [r \in Request |-> {}]

-----------------------------------------------------------------------------
\* The tokens a client can hold: those of a join or refresh it saw succeed.
Presentable == {t \in Request : pc[t] = "ok" /\ op[t] \in {"join", "refresh"}}

Goto(r, label) == pc' = [pc EXCEPT ![r] = label]

\* A request arrives, runs handler h with bearer token t, and is to use owner o.
Arrive(r, h, t, o, label) ==
    /\ pc[r] = "idle"
    /\ op' = [op EXCEPT ![r] = h]
    /\ bearer' = [bearer EXCEPT ![r] = t]
    /\ owner' = [owner EXCEPT ![r] = o]
    /\ Goto(r, label)
    /\ UNCHANGED <<lock, active, seen, failed>>

(***************************************************************************)
(* Join.  A member that presents a session of this room and user joins     *)
(* under that session's owner string; everyone else under a fresh one.     *)
(***************************************************************************)
JoinBegin(r) ==
    /\ UNCHANGED sessions
    /\ \/ Arrive(r, "join", NoRequest, Claim(r), "acquire")
       \/ \E t \in Presentable :
            /\ Role = "member"
            /\ Arrive(r, "join", t,
                      IF Live(sessions, t) THEN sessions[t].jti ELSE Claim(r),
                      "acquire")

\* Both attempts to take the lock: only the first looks at who holds it.
JoinAcquire(r) ==
    /\ pc[r] \in {"acquire", "reacquire"}
    /\ \/ /\ Acquires(lock, owner[r])
          /\ lock' = Acquired(owner[r])
          /\ Goto(r, "profile")
       \/ /\ ~Acquires(lock, owner[r])
          /\ Goto(r, IF pc[r] = "acquire" THEN "look" ELSE "denied")
          /\ UNCHANGED lock
    /\ UNCHANGED <<sessions, active, locals>>

\* Nickname and avatar, user row, stage permission, LiveKit token.  A failed
\* get_user, upsert_user or issue_room_token gives the lock back.
JoinProfile(r) ==
    /\ pc[r] = "profile"
    /\ \/ Goto(r, "issue")
       \/ Goto(r, "undo_lock")
    /\ UNCHANGED <<redis, active, locals>>

\* The session is stored under the token and the jti this join mints.  An
\* error may hide a write that took place.
JoinIssue(r) ==
    /\ pc[r] = "issue"
    /\ \/ /\ sessions' = Issued(sessions, r, Jti(r))
          /\ \/ Goto(r, "promote")
             \/ Goto(r, "undo_lock")
       \/ /\ Goto(r, "undo_lock")
          /\ UNCHANGED sessions
    /\ UNCHANGED <<lock, active, locals>>

JoinPromote(r) ==
    /\ pc[r] = "promote"
    /\ Promotes(lock, owner[r], Jti(r))
    /\ lock' = Promoted(Jti(r))
    /\ owner' = [owner EXCEPT ![r] = Jti(r)]
    /\ Goto(r, "finish")
    /\ UNCHANGED <<sessions, active, op, bearer, seen, failed>>

\* Mutant: the clean-up after a failed hand-over forgets the session.
JoinPromoteFailsNoRevoke(r) ==
    /\ pc[r] = "promote"
    /\ \/ UNCHANGED lock
       \/ /\ Promotes(lock, owner[r], Jti(r))
          /\ lock' = Promoted(Jti(r))
    /\ Goto(r, "undo_lock")
    /\ UNCHANGED <<sessions, active, locals>>

\* The script answers 0, or errors: it may have handed over the lock all the
\* same, which the clean-up, still using join_owner, does not see.
JoinPromoteFails(r) ==
    /\ pc[r] = "promote"
    /\ \/ UNCHANGED lock
       \/ /\ Promotes(lock, owner[r], Jti(r))
          /\ lock' = Promoted(Jti(r))
    /\ Goto(r, "undo_session")
    /\ UNCHANGED <<sessions, active, locals>>

\* A member's redeem token is consumed, a host's host session issued.
JoinFinish(r) ==
    /\ pc[r] = "finish"
    /\ \/ Goto(r, "ok")
       \/ Goto(r, "undo_session")
    /\ UNCHANGED <<redis, active, locals>>

\* Clean-up of a join, and of a refresh that is not the owner.  The errors of its
\* calls are ignored: the next call is made, and the handler answers an error.
Ignored(r, call) == failed' = [failed EXCEPT ![r] = @ \cup {call}]

UndoSession(r) ==
    /\ pc[r] = "undo_session"
    /\ \/ sessions' = Revoked(sessions, r) /\ UNCHANGED failed
       \/ Ignored(r, "revoke") /\ UNCHANGED sessions
    /\ Goto(r, IF op[r] = "join" THEN "undo_lock" ELSE "denied")
    /\ UNCHANGED <<lock, active, op, bearer, owner, seen>>

UndoLock(r) ==
    /\ pc[r] = "undo_lock"
    /\ \/ lock' = Released(lock, owner[r]) /\ UNCHANGED failed
       \/ Ignored(r, "release") /\ UNCHANGED lock
    /\ Goto(r, "denied")
    /\ UNCHANGED <<sessions, active, op, bearer, owner, seen>>

(***************************************************************************)
(* Taking the lock from its holder: a join that found it taken, and the    *)
(* host's force-reclaim.  What is read first is acted on awaits later.     *)
(***************************************************************************)
ReclaimBegin(r) ==
    /\ Arrive(r, "reclaim", NoRequest, NoOwner, "look")
    /\ UNCHANGED sessions

\* What was read is not used again (and is not kept, to have fewer states).
Forget(r) == seen' = [seen EXCEPT ![r] = NothingSeen]

Look(r) ==
    /\ pc[r] = "look"
    /\ \/ /\ IsFree(lock)
          /\ Goto(r, IF op[r] = "join" THEN "denied" ELSE "ok")
          /\ UNCHANGED seen
       \/ /\ ~IsFree(lock)
          /\ seen' = [seen EXCEPT ![r] = [owner |-> lock.owner, stale |-> IsStale(lock)]]
          /\ Goto(r, "probe")
    /\ UNCHANGED <<redis, active, op, bearer, owner, failed>>

\* What is_identity_active can answer; "unknown" is an error of the query.
ProbeAnswer == {IF active THEN "active" ELSE "inactive", "unknown"}

\* A join goes on if LiveKit does not see the identity or the holder is stale;
\* a force-reclaim does so unless LiveKit sees it, or cannot tell and the
\* holder is not stale.
GoesOn(r, answer) ==
    IF op[r] = "join"
    THEN answer = "inactive" \/ seen[r].stale
    ELSE ~(answer = "active" \/ (answer = "unknown" /\ ~seen[r].stale))

Probe(r) ==
    /\ pc[r] = "probe"
    /\ \E answer \in ProbeAnswer :
         \/ /\ GoesOn(r, answer)
            /\ Goto(r, "delete")
            /\ UNCHANGED seen
         \/ /\ ~GoesOn(r, answer)
            /\ Goto(r, "denied")
            /\ Forget(r)
    /\ UNCHANGED <<redis, active, op, bearer, owner, failed>>

\* force_delete, then revoke(current.owner): the owner is not a token.
Delete(r) ==
    /\ pc[r] = "delete"
    /\ lock' = Deleted(lock)
    /\ sessions' = Revoked(sessions, seen[r].owner)
    /\ Goto(r, IF op[r] = "join" THEN "reacquire" ELSE "ok")
    /\ Forget(r)
    /\ UNCHANGED <<active, op, bearer, owner, failed>>

(***************************************************************************)
(* The calls of a session.  The checks between verify and touch_owner      *)
(* (media lease, room still active) leave this state alone: a handler they *)
(* end is dropped.                                                         *)
(***************************************************************************)
Verified(r, h, label) ==
    /\ \E t \in Presentable :
         IF Live(sessions, t)
         THEN Arrive(r, h, t, sessions[t].jti, label)
         ELSE Arrive(r, h, t, NoOwner, "denied")
    /\ UNCHANGED sessions

HeartbeatBegin(r) == Verified(r, "heartbeat", "touch")
ReconnectBegin(r) == Verified(r, "reconnect", "touch")
LeaveBegin(r) == Verified(r, "leave", "release")

\* GETDEL: from here on the old token is gone.
RefreshBegin(r) ==
    \E t \in Presentable :
        /\ sessions' = Revoked(sessions, t)
        /\ IF Live(sessions, t)
           THEN Arrive(r, "refresh", t, sessions[t].jti, "store")
           ELSE Arrive(r, "refresh", t, NoOwner, "denied")

RefreshStore(r) ==
    /\ pc[r] = "store"
    /\ sessions' = Issued(sessions, r, owner[r])
    /\ Goto(r, "touch")
    /\ UNCHANGED <<lock, active, locals>>

Touch(r) ==
    /\ pc[r] = "touch"
    /\ \/ /\ Touches(lock, owner[r])
          /\ lock' = Touched(owner[r])
          /\ Goto(r, "ok")
       \/ /\ ~Touches(lock, owner[r])
          /\ Goto(r, IF op[r] = "refresh" THEN "undo_session" ELSE "denied")
          /\ UNCHANGED lock
    /\ UNCHANGED <<sessions, active, locals>>

LeaveRelease(r) ==
    /\ pc[r] = "release"
    /\ lock' = Released(lock, owner[r])
    /\ Goto(r, "revoke")
    /\ UNCHANGED <<sessions, active, locals>>

LeaveRevoke(r) ==
    /\ pc[r] = "revoke"
    /\ sessions' = Revoked(sessions, bearer[r])
    /\ Goto(r, "ok")
    /\ UNCHANGED <<lock, active, locals>>

-----------------------------------------------------------------------------
\* The calls whose error leaves the handler through "?".
Throws == {"acquire", "look", "delete", "reacquire", "profile", "store", "touch",
           "release", "revoke"}

\* The handler's future is dropped, or an error leaves it through "?": where it can,
\* the two are not told apart, and both count as answered with an error.
Drop(r) ==
    /\ pc[r] \notin Ended \cup {"idle"}
    /\ Goto(r, IF pc[r] \in Throws THEN "denied" ELSE "dropped")
    /\ UNCHANGED <<redis, active, locals>>

Tick ==
    /\ lock' = Aged(lock)
    /\ sessions' = Elapsed(sessions)
    /\ UNCHANGED <<active, pc, locals>>

\* The LiveKit server: a client with a room token connects, or disconnects.
Connect ==
    /\ ~active
    /\ \E r \in Request : pc[r] = "ok" /\ op[r] \in {"join", "reconnect"}
    /\ active' = TRUE
    /\ UNCHANGED <<redis, pc, locals>>

Disconnect ==
    /\ active
    /\ active' = FALSE
    /\ UNCHANGED <<redis, pc, locals>>

Begin(r) == \/ JoinBegin(r) \/ ReclaimBegin(r) \/ RefreshBegin(r)
            \/ HeartbeatBegin(r) \/ ReconnectBegin(r) \/ LeaveBegin(r)

Step(r) == \/ JoinAcquire(r) \/ JoinProfile(r) \/ JoinIssue(r) \/ JoinPromote(r)
           \/ JoinPromoteFails(r) \/ JoinFinish(r) \/ UndoSession(r) \/ UndoLock(r)
           \/ Look(r) \/ Probe(r) \/ Delete(r) \/ RefreshStore(r) \/ Touch(r)
           \/ LeaveRelease(r) \/ LeaveRevoke(r)

Next == \/ \E r \in Request : Begin(r) \/ Step(r) \/ Drop(r)
        \/ Tick
        \/ Connect
        \/ Disconnect

Spec == Init /\ [][Next]_vars
-----------------------------------------------------------------------------
\* A join answered with an error can act afterwards, its session in Redis and the
\* lock in that session's name, only after a second and a third thing went wrong:
\* the clean-up's own revoke failed, whose error room.rs ignores, and so did its
\* release, or the release looked for the old owner because the promotion had been
\* carried out and only its answer was lost.
FailedJoinCannotAct ==
    \A r \in Request :
        (op[r] = "join" /\ pc[r] = "denied" /\ Live(sessions, r) /\ lock.owner = Jti(r))
            => "revoke" \in failed[r] /\ ("release" \in failed[r] \/ owner[r] # Jti(r))

\* Is some join trying to take the lock in the name of an earlier session?
Rejoining(o) == \E q \in Request : op[q] = "join" /\ owner[q] = o /\ o # Jti(q)

\* A lease fits its holder.  The claim of a join lasts JoinLockTtl at most, so
\* that one abandoned without clean-up blocks the identity no longer; a lock in
\* the name of a session does not lapse before the session, so that a client
\* which refreshes in time is never overtaken.  Only a rejoin under the session's
\* owner string shortens that lease.
LeaseFitsHolder ==
    /\ lock.owner.kind = "join" => lock.ttl <= JoinLockTtl
    /\ \A t \in Request :
         (pc[t] = "ok" /\ Live(sessions, t) /\ lock.owner = sessions[t].jti)
             => lock.ttl >= sessions[t].ttl \/ Rejoining(lock.owner)

\* A session that lost the identity does not get it back by a heartbeat, a
\* refresh, a reconnect or a late promotion: only a join that presents its
\* token can take the lock in its name, which no host's join does.
RegainsOnlyByRejoin ==
    \A r \in Request :
        (op[r] = "join" /\ pc[r] = "ok" /\ lock.owner # Jti(r) /\ lock'.owner = Jti(r))
            => Role = "member" /\ Rejoining(Jti(r))
DisplacedStaysDisplaced == [][RegainsOnlyByRejoin]_vars

BeforeBind == {"acquire", "look", "probe", "delete", "reacquire",
               "profile", "issue", "promote"}

\* The joins whose attempt to bind lies behind them.
Spent == {r \in Request :
             /\ op[r] = "join"
             /\ pc[r] \notin BeforeBind}

\* The handlers implement the lease of IdentityLease.
Lease == INSTANCE IdentityLease WITH holder <- lock.owner, spent <- Spent
ImplementsLease == Lease!Spec

-----------------------------------------------------------------------------
(* The inductive invariant behind the safety properties.                   *)

IsJti(o) == \E x \in Request : o = Jti(x)

Settled(r) == op[r] = "join" /\ pc[r] = "ok"
JoinOnly == {"acquire", "reacquire", "profile", "issue", "promote", "finish",
             "undo_lock"}

\* Handlers stand only at awaits of their own.
OpAtPc ==
    \A r \in Request :
        /\ pc[r] = "idle" => op[r] = "none"
        /\ pc[r] \in JoinOnly => op[r] = "join"
        /\ pc[r] \in {"look", "probe", "delete"} => op[r] \in {"join", "reclaim"}
        /\ pc[r] = "store" => op[r] = "refresh"
        /\ pc[r] = "touch" => op[r] \in {"refresh", "heartbeat", "reconnect"}
        /\ pc[r] \in {"release", "revoke"} => op[r] = "leave"
        /\ pc[r] = "undo_session" => op[r] \in {"join", "refresh"}

\* The lock is in the name of a session only after that session's join tried
\* to bind it.
LockOwnerIsSpent == \A r \in Request : lock.owner = Jti(r) => r \in Spent

\* A session carries the jti of the join that issued it; any other session with
\* that jti descends from it by refreshes, after the join had succeeded.
SessionLineage ==
    \A t \in Request :
        /\ Live(sessions, t) => IsJti(sessions[t].jti)
        /\ \A r \in Request :
              (sessions[t].jti = Jti(r))
                  => \/ Settled(r)
                     \/ t = r /\ op[r] = "join" /\ pc[r] \notin BeforeBind \ {"promote"}

\* A request acts under its own claim or jti, or under that of a settled join.
OwnerLineage ==
    \A q, r \in Request :
        /\ owner[q] = Claim(r) => q = r
        /\ owner[q] = Jti(r) => Settled(r) \/ (q = r /\ r \in Spent)

\* Under which owner each await is reached.
OwnerAtPc ==
    \A r \in Request :
        /\ (op[r] = "join" /\ pc[r] \in BeforeBind)
               => owner[r] = Claim(r) \/ (Role = "member" /\ IsJti(owner[r]))
        /\ pc[r] \in {"store", "touch", "release"} => IsJti(owner[r])
        /\ op[r] = "join" => owner[r] # NoOwner

\* What a join's clean-up has made of its session and of the lock, at the last
\* step of it and past it.
CleanedUp ==
    \A r \in Request :
        (op[r] = "join" /\ pc[r] \in {"undo_lock", "denied"}
             /\ Live(sessions, r) /\ lock.owner = Jti(r))
            => /\ "revoke" \in failed[r]
               /\ pc[r] = "denied" => "release" \in failed[r] \/ owner[r] # Jti(r)

IInv ==
    /\ TypeOK
    /\ OpAtPc
    /\ LockOwnerIsSpent
    /\ SessionLineage
    /\ OwnerLineage
    /\ OwnerAtPc
    /\ CleanedUp

-----------------------------------------------------------------------------
(* What the code does not keep.                                            *)

\* A reclaim ends the session it displaces, as its call of revoke says.  The
\* call passes the owner, a jti, where revoke looks for a token.
ReclaimEndsSession ==
    [][\A r, t \in Request :
          (pc[r] = "delete" /\ pc'[r] \in {"reacquire", "ok"})
              => ~(Live(sessions', t) /\ sessions'[t].jti = seen[r].owner)]_vars
=============================================================================
