---------------------------- MODULE IdentityLease ---------------------------
(***************************************************************************)
(* What the identity lock promises, without handlers, sessions or time:    *)
(* one holder at a time, and a fixed life for every join.  A join may hold *)
(* the identity under a claim of its own until its single attempt to bind; *)
(* binding hands the identity from that claim to the join's new session,   *)
(* never from one live holder to an unrelated one.  A session that lost    *)
(* the identity can only take it up again when nobody holds it, and a      *)
(* host's session not even then.                                           *)
(***************************************************************************)
EXTENDS Owners

CONSTANT Role

VARIABLES
    holder,  \* the owner string in the lock, or NoOwner
    spent    \* the joins that have made, or forgone, their attempt to bind

vars == <<holder, spent>>

TypeOK == /\ holder \in Owner \cup {NoOwner}
          /\ spent \in SUBSET Request

Init == /\ holder = NoOwner
        /\ spent = {}

\* A join takes the free identity under its claim, or takes it once more.
Take(r) == /\ r \notin spent
           /\ holder \in {NoOwner, Claim(r)}
           /\ holder' = Claim(r)
           /\ UNCHANGED spent

\* A member's earlier session takes the free identity, or keeps it.
Resume(r) == /\ Role = "member"
             /\ r \in spent
             /\ holder \in {NoOwner, Jti(r)}
             /\ holder' = Jti(r)
             /\ UNCHANGED spent

\* A join hands the identity to its session: from its claim, or from the
\* session of the member that is rejoining.
Bind(r) == /\ r \notin spent
           /\ \/ holder = Claim(r)
              \/ Role = "member" /\ \E q \in spent : holder = Jti(q)
           /\ holder' = Jti(r)
           /\ spent' = spent \cup {r}

GiveUp(r) == /\ r \notin spent
             /\ spent' = spent \cup {r}
             /\ UNCHANGED holder

\* The holder leaves, is reclaimed, or its lease ends.
Free == /\ holder' = NoOwner
        /\ UNCHANGED spent

Next == \/ \E r \in Request : Take(r) \/ Resume(r) \/ Bind(r) \/ GiveUp(r)
        \/ Free

Spec == Init /\ [][Next]_vars
=============================================================================
