------------------------------ MODULE Presence ------------------------------
(***************************************************************************)
(* The identity lock of one (room, user) pair: the single Redis key        *)
(* "<prefix>:<room>:<user>" whose value is "<owner>|<heartbeat>" and whose  *)
(* expiry is the lock's lease (services/presence.rs).  Each operation of   *)
(* the service is one Lua script or one Redis command, hence atomic: it is *)
(* a predicate on the lock (does the script answer 1?) or an operator that *)
(* returns the lock it leaves.                                             *)
(*                                                                         *)
(* Time is relative.  lock.ttl counts the ticks left before Redis removes  *)
(* the key (0: there is no key), lock.age the ticks since the heartbeat    *)
(* stored in the value; ages above StaleLimit are not told apart.          *)
(***************************************************************************)
EXTENDS Naturals, Owners

CONSTANTS
    JoinLockTtl,  \* lease of a join in progress
    SessionTtl,   \* lifetime of an app session, and lease of a lock bound to one
    StaleLimit    \* heartbeat age above which a holder counts as stale

ASSUME TtlAssumption == /\ JoinLockTtl \in Nat \ {0}
                        /\ SessionTtl \in Nat \ {0}
                        /\ StaleLimit \in Nat

Lock == [owner : Owner \cup {NoOwner}, ttl : Nat, age : 0 .. StaleLimit + 1]
NoLock == [owner |-> NoOwner, ttl |-> 0, age |-> 0]

\* The value the scripts write with SET key value EX ttl.
HeldBy(o, ttl) == [owner |-> o, ttl |-> ttl, age |-> 0]

IsFree(l) == l.owner = NoOwner

\* acquire_identity: SET NX, or a second SET by the owner already there.
Acquires(l, o) == IsFree(l) \/ l.owner = o
Acquired(o) == HeldBy(o, JoinLockTtl)

\* Mutant: the handed-over lock is not compared with the expected owner.
PromotesAny(l, expected, new) == ~IsFree(l)

\* promote_owner: hands the lock from the join to the session it issued.
Promotes(l, expected, new) == ~IsFree(l) /\ l.owner \in {expected, new}
Promoted(new) == HeldBy(new, SessionTtl)

\* Mutants: a renewal that recreates a missing key, and one with the short lease.
TouchesOrCreates(l, o) == IsFree(l) \/ l.owner = o
TouchedBriefly(o) == HeldBy(o, JoinLockTtl)

\* touch_owner: renews the lease, for the present owner only.
Touches(l, o) == ~IsFree(l) /\ l.owner = o
Touched(o) == HeldBy(o, SessionTtl)

\* release_if_owner: deletes the key, for the present owner only.
Released(l, o) == IF ~IsFree(l) /\ l.owner = o THEN NoLock ELSE l

\* get_state and the age the routes compute from the heartbeat it returns.
IsStale(l) == l.age > StaleLimit

\* force_delete: DEL, whoever the owner is.
Deleted(l) == NoLock

\* Mutant: a lease that is counted past its end.
AgedPastEnd(l) == [l EXCEPT !.ttl = IF IsFree(l) THEN @ ELSE @ - 1]

\* One tick: Redis ages the key and removes it when its lease is over.
Aged(l) == IF l.ttl <= 1
           THEN NoLock
           ELSE [l EXCEPT !.ttl = @ - 1,
                          !.age = IF @ > StaleLimit THEN @ ELSE @ + 1]
=============================================================================
