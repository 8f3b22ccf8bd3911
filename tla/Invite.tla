------------------------------- MODULE Invite -------------------------------
(***************************************************************************)
(* Invitations to a room (services/invite.rs and its callers in            *)
(* routes/auth.rs, routes/invite.rs and routes/room.rs).  A host creates a *)
(* ticket good for MaxUses redemptions; redeeming one yields a redeem      *)
(* token for one user and one room; the join of that user consumes it.     *)
(*                                                                         *)
(* Every ticket and every token is a uuid, named here by the request that  *)
(* minted it.  Tickets are Redis hashes, found through one set per room    *)
(* (the index), tokens are plain keys.  As in Identity, an action is one   *)
(* Redis call or script, a handler may be dropped between two of them, and *)
(* time is relative: a ttl of 0 is an absent key, Persistent a key that    *)
(* never expires.  The rate limit, the scope check and the activity of the *)
(* room come before the calls modelled and leave this state alone.         *)
(***************************************************************************)
EXTENDS Naturals, FiniteSets

CONSTANTS
    Request,    \* the handler invocations
    NoRequest,  \* stands for the absent request
    Room, User,
    MaxUses,    \* invite_max_uses, at least 1
    InviteTtl,  \* invite_ttl_seconds
    RedeemTtl   \* redeem_ttl_seconds

ASSUME InviteAssumption == /\ NoRequest \notin Request
                           /\ MaxUses \in Nat \ {0}
                           /\ InviteTtl \in Nat \ {0}
                           /\ RedeemTtl \in Nat \ {0}

VARIABLES
    ticket,  \* the ticket hash created by each request
    index,   \* the set of tickets of each room
    token,   \* the redeem token minted by each request
    op,      \* the handler each request runs
    pc,      \* the Redis call it stands at
    arg,     \* its room, user and key: the ticket or token it was given
    todo,    \* the tickets a listing has still to look at
    slow     \* has time passed, by a tick, between the calls of one create?

vars == <<ticket, index, token, op, pc, arg, todo, slow>>
store == <<ticket, index, token>>

Persistent == InviteTtl + RedeemTtl + 1
Ttl == 0 .. Persistent

Absent == [ttl |-> 0]
Ticket == [room : Room, uses : 1 .. MaxUses, ttl : Ttl \ {0}]
Token == [room : Room, user : User, ttl : Ttl \ {0}]
Index == [members : SUBSET Request, ttl : Ttl]
NoIndex == [members |-> {}, ttl |-> 0]

Arg == [room : Room, key : Request] \cup [room : Room, user : User, key : Request]
NoArg == [key |-> NoRequest]

TypeOK ==
    /\ ticket \in [Request -> Ticket \cup {Absent}]
    /\ index \in [Room -> Index]
    /\ token \in [Request -> Token \cup {Absent}]
    /\ op \in [Request -> {"none", "create", "redeem", "revoke", "list", "join"}]
    /\ pc \in [Request -> {"idle", "expire", "enlist", "renew", "mint", "delete",
                           "unlist", "scan", "prune", "ok", "denied", "dropped"}]
    /\ arg \in [Request -> Arg \cup {NoArg}]
    /\ todo \in [Request -> SUBSET Request]
    /\ slow \in BOOLEAN

Init ==
    /\ ticket = [k \in Request |-> Absent]
    /\ index = [m \in Room |-> NoIndex]
    /\ token = [k \in Request |-> Absent]
    /\ op = [r \in Request |-> "none"]
    /\ pc = [r \in Request |-> "idle"]
    /\ arg = [r \in Request |-> NoArg]
    /\ todo = [r \in Request |-> {}]
    /\ slow = FALSE

-----------------------------------------------------------------------------
Exists(k) == ticket[k] # Absent

\* SADD: a set that does not exist yet is made without an expiry.
Listing(m, k) ==
    [index EXCEPT ![m] = [members |-> @.members \cup {k},
                          ttl |-> IF @ = NoIndex THEN Persistent ELSE @.ttl]]

\* SREM: the set goes with its last member.
Unlisting(m, k) ==
    LET rest == index[m].members \ {k}
    IN  [index EXCEPT ![m] = IF rest = {} THEN NoIndex
                             ELSE [members |-> rest, ttl |-> index[m].ttl]]

\* The tickets a client can name: answered to their host, or listed.
Known(k) == /\ op[k] = "create"
            /\ pc[k] = "ok" \/ \E m \in Room : k \in index[m].members

\* The tokens a client can present: those of the redemptions it saw succeed.
Presentable(k) == op[k] = "redeem" /\ pc[k] = "ok"

Goto(r, label) == pc' = [pc EXCEPT ![r] = label]

\* A request for handler h arrives with argument a.
Arrive(r, h, a, label) ==
    /\ pc[r] = "idle"
    /\ op' = [op EXCEPT ![r] = h]
    /\ arg' = [arg EXCEPT ![r] = a]
    /\ Goto(r, label)

\* The argument of a redemption or a join: user u of room m presents key k.
By(m, u, k) == [room |-> m, user |-> u, key |-> k]

(***************************************************************************)
(* create_ticket: HSET, EXPIRE, SADD and EXPIRE, each awaited.             *)
(***************************************************************************)
CreateBegin(r) ==
    \E m \in Room :
        /\ Arrive(r, "create", [room |-> m, key |-> r], "expire")
        /\ ticket' = [ticket EXCEPT ![r] = [room |-> m, uses |-> MaxUses,
                                            ttl |-> Persistent]]
        /\ UNCHANGED <<index, token, todo>>

CreateExpire(r) ==
    /\ pc[r] = "expire"
    /\ ticket' = [ticket EXCEPT ![r].ttl = InviteTtl]
    /\ Goto(r, "enlist")
    /\ UNCHANGED <<index, token, op, arg, todo>>

CreateEnlist(r) ==
    /\ pc[r] = "enlist"
    /\ index' = Listing(arg[r].room, r)
    /\ Goto(r, "renew")
    /\ UNCHANGED <<ticket, token, op, arg, todo>>

\* Mutant: only an index without an expiry is given one.
CreateRenewOnce(r) ==
    /\ pc[r] = "renew"
    /\ index' = [index EXCEPT ![arg[r].room].ttl =
                                 IF @ = Persistent THEN InviteTtl ELSE @]
    /\ Goto(r, "ok")
    /\ UNCHANGED <<ticket, token, op, arg, todo>>

\* The index is to outlive its newest ticket; if it has gone, nothing happens.
CreateRenew(r) ==
    /\ pc[r] = "renew"
    /\ index' = [index EXCEPT ![arg[r].room].ttl = IF @ = 0 THEN 0 ELSE InviteTtl]
    /\ Goto(r, "ok")
    /\ UNCHANGED <<ticket, token, op, arg, todo>>

(***************************************************************************)
(* redeem_ticket: one script, then the SET EX of the redeem token.         *)
(***************************************************************************)
\* Mutants: a used-up ticket stays, with a count of 0, or with its last use.
ChargedToZero(k) == [ticket EXCEPT ![k].uses = @ - 1]
ChargedButLast(k) ==
    [ticket EXCEPT ![k] = IF @.uses = 1 THEN @ ELSE [@ EXCEPT !.uses = @ - 1]]

\* One use less; the last one takes the ticket with it.
Charged(k) ==
    [ticket EXCEPT ![k] = IF ticket[k].uses = 1 THEN Absent
                          ELSE [ticket[k] EXCEPT !.uses = @ - 1]]

\* A missing ticket is taken off the index of the room that was named.
RedeemRefused(r, m, u, k, goodCode) ==
    /\ ~(Exists(k) /\ ticket[k].room = m /\ goodCode)
    /\ Arrive(r, "redeem", By(m, u, k), "denied")
    /\ index' = IF Exists(k) THEN index ELSE Unlisting(m, k)
    /\ UNCHANGED <<ticket, token, todo>>

RedeemCharged(r, m, u, k, goodCode) ==
    /\ Exists(k) /\ ticket[k].room = m /\ goodCode
    /\ Arrive(r, "redeem", By(m, u, k), "mint")
    /\ ticket' = Charged(k)
    /\ index' = IF ticket[k].uses = 1 THEN Unlisting(m, k) ELSE index
    /\ UNCHANGED <<token, todo>>

RedeemBegin(r) ==
    \E m \in Room, u \in User, k \in Request, goodCode \in BOOLEAN :
        /\ Known(k)
        /\ \/ RedeemRefused(r, m, u, k, goodCode)
           \/ RedeemCharged(r, m, u, k, goodCode)

RedeemMint(r) ==
    /\ pc[r] = "mint"
    /\ token' = [token EXCEPT ![r] = [room |-> arg[r].room, user |-> arg[r].user,
                                      ttl |-> RedeemTtl]]
    /\ Goto(r, "ok")
    /\ UNCHANGED <<ticket, index, op, arg, todo>>

(***************************************************************************)
(* revoke_ticket: HGET of the room, DEL of the ticket, SREM.               *)
(***************************************************************************)
RevokeBegin(r) ==
    /\ \E m \in Room, k \in Request :
         /\ Known(k)
         /\ Arrive(r, "revoke", [room |-> m, key |-> k],
                   IF ~Exists(k) THEN "unlist"
                   ELSE IF ticket[k].room = m THEN "delete"
                   ELSE "denied")
    /\ UNCHANGED <<store, todo>>

\* Mutant: only the index forgets the ticket.
RevokeKeepsTicket(r) ==
    /\ pc[r] = "delete"
    /\ Goto(r, "unlist")
    /\ UNCHANGED <<store, op, arg, todo>>

RevokeDelete(r) ==
    /\ pc[r] = "delete"
    /\ ticket' = [ticket EXCEPT ![arg[r].key] = Absent]
    /\ Goto(r, "unlist")
    /\ UNCHANGED <<index, token, op, arg, todo>>

RevokeUnlist(r) ==
    /\ pc[r] = "unlist"
    /\ index' = Unlisting(arg[r].room, arg[r].key)
    /\ Goto(r, "ok")
    /\ UNCHANGED <<ticket, token, op, arg, todo>>

(***************************************************************************)
(* list_tickets: SMEMBERS, then for each ticket EXISTS and, if it is gone, *)
(* SREM; the HGETALL and TTL of the others leave no trace.  A ticket that  *)
(* goes between EXISTS and HGETALL is pruned as well.                      *)
(***************************************************************************)
ListBegin(r) ==
    \E m \in Room :
        /\ Arrive(r, "list", [room |-> m, key |-> r], "scan")
        /\ todo' = [todo EXCEPT ![r] = index[m].members]
        /\ UNCHANGED store

\* The next ticket: it is there, or it is not and is to be pruned.
ListScan(r) ==
    /\ pc[r] = "scan"
    /\ \/ todo[r] = {} /\ Goto(r, "ok") /\ UNCHANGED <<todo, arg>>
       \/ \E k \in todo[r] :
            /\ todo' = [todo EXCEPT ![r] = @ \ {k}]
            /\ \/ Exists(k) /\ UNCHANGED <<pc, arg>>
               \/ /\ ~Exists(k)
                  /\ arg' = [arg EXCEPT ![r].key = k]
                  /\ Goto(r, "prune")
    /\ UNCHANGED <<store, op>>

ListPrune(r) ==
    /\ pc[r] = "prune"
    /\ index' = Unlisting(arg[r].room, arg[r].key)
    /\ Goto(r, "scan")
    /\ UNCHANGED <<ticket, token, op, arg, todo>>

(***************************************************************************)
(* consume_redeem, where a member's join calls it: GETDEL, and only then   *)
(* the comparison with the room and the user of the join.                  *)
(***************************************************************************)
\* Mutant: the token is read but left in Redis.
JoinRereads(r) ==
    /\ \E m \in Room, u \in User, k \in Request :
         /\ Presentable(k)
         /\ Arrive(r, "join", By(m, u, k),
                   IF token[k] # Absent /\ token[k].room = m /\ token[k].user = u
                   THEN "ok" ELSE "denied")
    /\ UNCHANGED <<store, todo>>

JoinConsume(r) ==
    /\ \E m \in Room, u \in User, k \in Request :
         /\ Presentable(k)
         /\ Arrive(r, "join", By(m, u, k),
                   IF token[k] # Absent /\ token[k].room = m /\ token[k].user = u
                   THEN "ok" ELSE "denied")
         /\ token' = [token EXCEPT ![k] = Absent]
    /\ UNCHANGED <<ticket, index, todo>>

-----------------------------------------------------------------------------
\* The handler's future is dropped, or a Redis error leaves it through "?".
Drop(r) ==
    /\ pc[r] \notin {"idle", "ok", "denied", "dropped"}
    /\ Goto(r, "dropped")
    /\ UNCHANGED <<store, op, arg, todo>>

\* Redis ages its keys.
Older(rec) == IF rec.ttl = Persistent \/ rec = Absent THEN rec
              ELSE IF rec.ttl = 1 THEN Absent
              ELSE [rec EXCEPT !.ttl = @ - 1]

OlderIndex(x) == IF x.ttl \in {0, Persistent} THEN x
                 ELSE IF x.ttl = 1 THEN NoIndex
                 ELSE [x EXCEPT !.ttl = @ - 1]

Tick ==
    /\ slow' = (slow \/ \E r \in Request : pc[r] \in {"expire", "enlist", "renew"})
    /\ ticket' = [k \in Request |-> Older(ticket[k])]
    /\ token' = [k \in Request |-> Older(token[k])]
    /\ index' = [m \in Room |-> OlderIndex(index[m])]
    /\ UNCHANGED <<op, pc, arg, todo>>

Step(r) == \/ CreateBegin(r) \/ CreateExpire(r) \/ CreateEnlist(r) \/ CreateRenew(r)
           \/ RedeemBegin(r) \/ RedeemMint(r)
           \/ RevokeBegin(r) \/ RevokeDelete(r) \/ RevokeUnlist(r)
           \/ ListBegin(r) \/ ListScan(r) \/ ListPrune(r)
           \/ JoinConsume(r)

Next == \/ (\E r \in Request : Step(r) \/ Drop(r)) /\ UNCHANGED slow
        \/ Tick

Spec == Init /\ [][Next]_vars
-----------------------------------------------------------------------------
Charges(k) == {r \in Request : op[r] = "redeem" /\ arg[r].key = k /\ pc[r] # "denied"}

\* A ticket is never good for more than MaxUses redemptions, however they
\* interleave with each other, with a revocation or with a failure, and while
\* it lives none of its uses is lost (config-dictionary.md: INVITE_MAX_USES is
\* the "Max successful redeem count per invite ticket").
UsesConserved ==
    \A k \in Request :
        /\ Cardinality(Charges(k)) <= MaxUses
        /\ Exists(k) => Cardinality(Charges(k)) + ticket[k].uses = MaxUses

\* A redeem token admits at most one join, and only for the user and the room
\* its redemption was for, on a ticket of that room.
AdmittedOnceAsInvited ==
    \A r, q \in Request :
        (op[r] = "join" /\ pc[r] = "ok") =>
            /\ (op[q] = "join" /\ pc[q] = "ok" /\ arg[q].key = arg[r].key) => q = r
            /\ arg[arg[r].key].room = arg[r].room
            /\ arg[arg[r].key].user = arg[r].user
            /\ arg[arg[arg[r].key].key].room = arg[r].room

\* Once a revocation has been answered, the ticket is gone and stays so: a
\* redemption or a creation still on its way does not bring it back.
RevokedIsGone ==
    \A r \in Request :
        (op[r] = "revoke" /\ pc[r] = "ok") => ~Exists(arg[r].key)

\* A host can find, and so revoke, each of its tickets for as long as it can be
\* redeemed: neither the expiry of the index nor a clean-up loses one.  A slow
\* creation may: the index it added its ticket to can expire before it renews it.
ListedWhileLive ==
    \A k \in Request :
        (op[k] = "create" /\ pc[k] = "ok" /\ Exists(k) /\ ~slow)
            => k \in index[arg[k].room].members
=============================================================================
