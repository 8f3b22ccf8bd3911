------------------------------- MODULE Owners -------------------------------
(***************************************************************************)
(* The owner strings an identity lock can hold.  Uuids are fresh, so each  *)
(* is named by the request that mints it.                                  *)
(***************************************************************************)
CONSTANTS
    Request,   \* the handler invocations; each mints at most one uuid of a kind
    NoRequest  \* stands for the absent request

ASSUME NoRequestAssumption == NoRequest \notin Request

\* The owner string of a join in progress: "join:<uuid>", minted by request r.
Claim(r) == [kind |-> "join", id |-> r]

\* The owner string of an app session: the jti minted by join request r.
Jti(r) == [kind |-> "jti", id |-> r]

Owner == [kind : {"join", "jti"}, id : Request]
NoOwner == [kind |-> "none", id |-> NoRequest]
=============================================================================
