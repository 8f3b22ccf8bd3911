------------------------------ MODULE Session -------------------------------
(***************************************************************************)
(* The app sessions (services/session.rs): one Redis key                   *)
(* "<prefix>:<token>" per session token, holding the claims and expiring   *)
(* after session_ttl_seconds.  Every token is the one minted by some       *)
(* request, so the store is a function on Request; of the claims only the  *)
(* jti, the owner string of the identity lock, tells sessions apart here.  *)
(***************************************************************************)
EXTENDS Presence

Entry == [jti : Owner \cup {NoOwner}, ttl : Nat]
NoEntry == [jti |-> NoOwner, ttl |-> 0]

Store == [Request -> Entry]

\* verify succeeds for the tokens whose key exists.
Live(s, t) == s[t] # NoEntry

\* issue and the second half of refresh: SET key claims EX ttl.
Issued(s, t, jti) == [s EXCEPT ![t] = [jti |-> jti, ttl |-> SessionTtl]]

\* GETDEL of refresh, and revoke: the key named by k disappears.  A key that
\* is not a token's (a jti, for one) names nothing.
Revoked(s, k) == [t \in Request |-> IF t = k THEN NoEntry ELSE s[t]]

\* One tick: Redis expires the sessions whose time is over.
Elapsed(s) == [t \in Request |-> IF s[t].ttl <= 1
                                 THEN NoEntry
                                 ELSE [s[t] EXCEPT !.ttl = @ - 1]]
=============================================================================
