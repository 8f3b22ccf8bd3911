-------------------------------- MODULE Stage --------------------------------
(***************************************************************************)
(* A member's leave to show camera and screen (services/                   *)
(* stage_permission.rs and its callers in routes/moderation.rs,            *)
(* routes/session.rs, routes/room.rs and the agent API).  The host grants  *)
(* each feature for a lease; the grants are one JSON record in Redis, but  *)
(* what the member can do is decided by LiveKit, which learns it from the  *)
(* room token of a connection and from update_participant.  The member's   *)
(* heartbeats and refreshes look for leases that have lapsed.              *)
(*                                                                         *)
(* An action is one awaited call with the code up to the next.  Time is a  *)
(* clock; a record's until is 0 for no grant.  LiveKit, an external        *)
(* service, keeps a track that is on air until it is muted, and lets a     *)
(* track go on air only while its feature is allowed.                      *)
(***************************************************************************)
EXTENDS Naturals

CONSTANTS
    Request,  \* calls of the host's moderation, and of the member's join or reconnect
    Page,     \* the member's page: its heartbeats and refreshes, one by one
    Feature,  \* camera and screen share
    Lease,    \* MEMBER_MEDIA_GRANT_TTL_SECONDS
    RoomTtl,  \* room_ttl_seconds, the life of a record
    MaxTime   \* bound: the clock stops here, and no lease outlasts it

ASSUME StageAssumption == /\ Page \notin Request
                          /\ Lease \in Nat \ {0}
                          /\ RoomTtl \in Nat \ {0}
                          /\ MaxTime \in Nat \ {0}

VARIABLES
    now,
    record,    \* the record in Redis: the grants, and when the key expires
    online,    \* is the member connected to LiveKit?
    allowed,   \* the features LiveKit lets the connected member publish
    onair,     \* those it is publishing
    token,     \* the features in the room token the page holds
    op, pc,    \* what each process runs, and the await it stands at
    arg,       \* a moderation's feature, and whether it is enabled
    at,        \* the time each process has read
    grants,    \* the grants it has read, or written
    mute,      \* the features it has still to mute
    granted,   \* history: when the host last enabled each feature
    incident   \* history: has one of the incidents below happened?

vars == <<now, record, online, allowed, onair, token,
          op, pc, arg, at, grants, mute, granted, incident>>
livekit == <<online, allowed, onair>>
locals == <<op, arg, at, grants, mute>>

Process == Request \cup {Page}
Time == 0 .. MaxTime
Grants == [Feature -> Time]
NoGrants == [f \in Feature |-> 0]
NoRecord == [until |-> NoGrants, dies |-> 0]
NoArg == [enabled |-> FALSE]

TypeOK ==
    /\ now \in Time \ {0}
    /\ record \in [until : Grants, dies : Nat \ {0}] \cup {NoRecord}
    /\ online \in BOOLEAN
    /\ {allowed, onair, token} \subseteq SUBSET Feature
    /\ op \in [Process -> {"none", "moderate", "token", "enforce"}]
    /\ pc \in [Process -> {"idle", "default", "write", "tell", "mute", "sign",
                           "ok", "dropped"}]
    /\ arg \in [Process -> [feature : Feature, enabled : BOOLEAN] \cup {NoArg}]
    /\ at \in [Process -> Time]
    /\ grants \in [Process -> Grants]
    /\ mute \in [Process -> SUBSET Feature]
    /\ granted \in Grants
    /\ incident \in BOOLEAN

\* The member has joined, before any grant.
Init ==
    /\ now = 1
    /\ record = NoRecord
    /\ online = FALSE
    /\ allowed = {} /\ onair = {} /\ token = {}
    /\ op = [p \in Process |-> "none"]
    /\ pc = [p \in Process |-> "idle"]
    /\ arg = [p \in Process |-> NoArg]
    /\ at = [p \in Process |-> 0]
    /\ grants = [p \in Process |-> NoGrants]
    /\ mute = [p \in Process |-> {}]
    /\ granted = NoGrants
    /\ incident = FALSE

-----------------------------------------------------------------------------
\* resolve_at: the features whose lease has lapsed at time t, those in force,
\* and the grants without the lapsed ones.
Lapsed(u, t) == {f \in Feature : u[f] > 0 /\ u[f] <= t}
InForce(u, t) == {f \in Feature : u[f] > t}
Cleared(u, t) == [f \in Feature |-> IF f \in Lapsed(u, t) THEN 0 ELSE u[f]]

\* Mutant: a grant renews what is granted already.
GrantsRenewed(u, a, t) ==
    [f \in Feature |-> IF f = a.feature \/ u[f] > t
                       THEN (IF a.enabled THEN t + Lease ELSE 0)
                       ELSE u[f]]

\* set_camera_granted and set_screen_share_granted.
Changed(u, a, t) == [u EXCEPT ![a.feature] = IF a.enabled THEN t + Lease ELSE 0]

\* Mutant: SET without an expiry.
StoredForGood(u) == [until |-> u, dies |-> 0]

\* set_member: SET EX, over whatever record is there by now.
Stored(u) == [until |-> u, dies |-> now + RoomTtl]

InFlight(p) == pc[p] \notin {"idle", "ok", "dropped"}

Goto(p, label) == pc' = [pc EXCEPT ![p] = label]

\* A handler has answered; the page will call again.
Done(p) == Goto(p, IF p = Page THEN "idle" ELSE "ok")

\* Where a handler goes once it has the grants u, read for time t: a moderation
\* changes them, the others write them back only if a lease has lapsed.
Resolve(p, h, u, t) ==
    IF h = "moderate" \/ Lapsed(u, t) # {} THEN Goto(p, "write")
    ELSE IF h = "token" THEN Goto(p, "sign")
    ELSE Done(p)

\* The GET of a handler h; handlers that overlap are an incident.
Read(p, h, a) ==
    /\ pc[p] = "idle"
    /\ op' = [op EXCEPT ![p] = h]
    /\ arg' = [arg EXCEPT ![p] = a]
    /\ at' = [at EXCEPT ![p] = now]
    /\ grants' = [grants EXCEPT ![p] = record.until]
    /\ IF record = NoRecord THEN Goto(p, "default") ELSE Resolve(p, h, record.until, now)
    /\ incident' = (incident \/ \E q \in Process : InFlight(q))
    /\ UNCHANGED <<now, record, livekit, token, mute, granted>>

\* The host enables or disables a feature; the member joins or reconnects; the
\* page sends a heartbeat or a refresh.  (Bound: leases end by MaxTime.)
Moderate(r) == \E f \in Feature, e \in BOOLEAN :
                   /\ e => now + Lease <= MaxTime
                   /\ Read(r, "moderate", [feature |-> f, enabled |-> e])
AskToken(r) == Read(r, "token", NoArg)

Heartbeat == Read(Page, "enforce", NoArg)

\* get_or_default_member found no record.
Default(p) ==
    /\ pc[p] = "default"
    /\ record' = Stored(NoGrants)
    /\ Resolve(p, op[p], NoGrants, at[p])
    /\ UNCHANGED <<now, livekit, token, locals, granted, incident>>

\* A moderation reads the clock again, and grants from then on.
WriteChange(r) ==
    /\ pc[r] = "write" /\ op[r] = "moderate"
    /\ arg[r].enabled => now + Lease <= MaxTime
    /\ LET u == Changed(grants[r], arg[r], now) IN
         /\ record' = Stored(u)
         /\ grants' = [grants EXCEPT ![r] = u]
    /\ at' = [at EXCEPT ![r] = now]
    /\ mute' = [mute EXCEPT ![r] = IF arg[r].enabled THEN {} ELSE {arg[r].feature}]
    /\ granted' = IF arg[r].enabled THEN [granted EXCEPT ![arg[r].feature] = now]
                  ELSE granted
    /\ Goto(r, "tell")
    /\ UNCHANGED <<now, livekit, token, op, arg, incident>>

\* Mutant: LiveKit is told of a lapse only when no grant is left.
WriteLapseQuietly(p) ==
    /\ pc[p] = "write" /\ op[p] # "moderate"
    /\ LET u == Cleared(grants[p], at[p]) IN
         /\ record' = Stored(u)
         /\ IF op[p] = "token" THEN Goto(p, "sign")
            ELSE IF u = NoGrants THEN Goto(p, "tell")
            ELSE Done(p)
    /\ mute' = [mute EXCEPT ![p] = Lapsed(grants[p], at[p])]
    /\ UNCHANGED <<now, livekit, token, op, arg, at, grants, granted, incident>>

\* The other handlers clear what has lapsed.  A join or a reconnect does not
\* tell LiveKit: its new token will.
WriteLapse(p) ==
    /\ pc[p] = "write" /\ op[p] # "moderate"
    /\ record' = Stored(Cleared(grants[p], at[p]))
    /\ mute' = [mute EXCEPT ![p] = Lapsed(grants[p], at[p])]
    /\ Goto(p, IF op[p] = "token" THEN "sign" ELSE "tell")
    /\ UNCHANGED <<now, livekit, token, op, arg, at, grants, granted, incident>>

\* update_participant_publish_permission; no participant is as good as done.
Tell(p) ==
    /\ pc[p] = "tell"
    /\ allowed' = IF online THEN InForce(grants[p], at[p]) ELSE allowed
    /\ IF mute[p] = {} THEN Done(p) ELSE Goto(p, "mute")
    /\ UNCHANGED <<now, record, online, onair, token, locals, granted, incident>>

\* Mutant: one source is muted, the other only if the first was not on air.
MuteOne(p) ==
    /\ pc[p] = "mute"
    /\ \E f \in mute[p] :
         /\ onair' = onair \ {f}
         /\ mute' = [mute EXCEPT ![p] = IF f \in onair THEN {} ELSE @ \ {f}]
         /\ IF mute'[p] = {} THEN Done(p) ELSE UNCHANGED pc
    /\ UNCHANGED <<now, record, online, allowed, token, op, arg, at, grants,
                   granted, incident>>

\* mute_participant_track_source, one source after the other.
Mute(p) ==
    /\ pc[p] = "mute"
    /\ \E f \in mute[p] :
         /\ onair' = onair \ {f}
         /\ mute' = [mute EXCEPT ![p] = @ \ {f}]
         /\ IF mute[p] = {f} THEN Done(p) ELSE UNCHANGED pc
    /\ UNCHANGED <<now, record, online, allowed, token, op, arg, at, grants,
                   granted, incident>>

\* The room token reaches the page, whose LiveKitRoom is keyed by it and closes
\* the connection it has.
Sign(r) ==
    /\ pc[r] = "sign"
    /\ token' = InForce(grants[r], at[r])
    /\ online' = FALSE /\ allowed' = {} /\ onair' = {}
    /\ mute' = [mute EXCEPT ![r] = {}]
    /\ Done(r)
    /\ UNCHANGED <<now, record, op, arg, at, grants, granted, incident>>

\* A handler is dropped or fails, its call to LiveKit made or not.  It is an
\* incident once the record has been written.
CutShort(p) ==
    /\ InFlight(p)
    /\ \/ UNCHANGED allowed
       \/ /\ pc[p] = "tell" /\ online
          /\ allowed' = InForce(grants[p], at[p])
    /\ mute' = [mute EXCEPT ![p] = {}]
    /\ Goto(p, IF p = Page THEN "idle" ELSE "dropped")
    /\ incident' = (incident \/ pc[p] \in {"tell", "mute", "sign"})
    /\ UNCHANGED <<now, record, online, onair, token, op, arg, at, grants, granted>>

-----------------------------------------------------------------------------
(* The member's connection, and the clock.                                 *)

OnRecord == {f \in Feature : record.until[f] > 0}

\* LiveKit takes the permission from the room token.  A token that disagrees
\* with the record by now is an incident.
Connect ==
    /\ ~online
    /\ online' = TRUE
    /\ allowed' = token
    /\ incident' = (incident \/ ~(InForce(record.until, now) \subseteq token)
                               \/ ~(token \subseteq OnRecord))
    /\ UNCHANGED <<now, record, onair, token, pc, locals, granted>>

Disconnect ==
    /\ online
    /\ online' = FALSE /\ allowed' = {} /\ onair' = {}
    /\ UNCHANGED <<now, record, token, pc, locals, granted, incident>>

Publish ==
    /\ \E f \in allowed : onair' = onair \cup {f}
    /\ UNCHANGED <<now, record, online, allowed, token, pc, locals, granted, incident>>

\* Redis removes the record in its time: an incident if there are grants in it.
Tick ==
    /\ now < MaxTime
    /\ now' = now + 1
    /\ record' = IF record.dies <= now' THEN NoRecord ELSE record
    /\ incident' = (incident \/ (record' = NoRecord /\ OnRecord # {}))
    /\ UNCHANGED <<livekit, token, pc, locals, granted>>

Begin(r) == Moderate(r) \/ AskToken(r)
Step(p) == Default(p) \/ WriteChange(p) \/ WriteLapse(p) \/ Tell(p) \/ Mute(p) \/ Sign(p)

Next == \/ \E r \in Request : Begin(r)
        \/ Heartbeat
        \/ \E p \in Process : Step(p) \/ CutShort(p)
        \/ Connect \/ Disconnect \/ Publish
        \/ Tick

Spec == Init /\ [][Next]_vars
-----------------------------------------------------------------------------
\* Changes of one record by read, modify and write may lose each other's work,
\* and bring a grant back; but nobody ever holds a grant for longer than Lease
\* from the host's last call that enabled it, whatever is lost or repeated.
GrantFitsLease ==
    \A f \in Feature, p \in Process :
        \A t \in {record.until[f], grants[p][f]} : t > 0 => t <= granted[f] + Lease

\* Without an incident, and between handlers, LiveKit and the record agree: a
\* connected member may use what is granted, and what it may use, or has on air,
\* is on record, so that a heartbeat will see it lapse.
StageAgrees ==
    (online /\ ~incident /\ \A p \in Process : ~InFlight(p))
        => /\ InForce(record.until, now) \subseteq allowed
           /\ allowed \cup onair \subseteq OnRecord

\* The enforcement of leases, which no timer of the server does: without an incident,
\* once a heartbeat or refresh of the member is accepted, LiveKit lets it publish, and
\* keeps on air, nothing whose lease had lapsed when the heartbeat read the clock,
\* whatever was granted, lost or reconnected meanwhile ("member media grant lease
\* expired; publish permission revoked").
AcceptedEndsLapses ==
    [][(pc'[Page] = "idle" /\ ~incident' /\ (Heartbeat \/ Step(Page)))
           => \A f \in allowed' \cup onair' : at'[Page] < granted[f] + Lease]_vars
=============================================================================
