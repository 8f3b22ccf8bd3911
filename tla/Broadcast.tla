----------------------------- MODULE Broadcast ------------------------------
(***************************************************************************)
(* The WHIP ingress of one room (routes/broadcast.rs, the room_broadcasts  *)
(* table of services/storage.rs, the broadcast token of services/invite.rs *)
(* and the ingress calls of services/livekit.rs).  A host is issued a      *)
(* start token, exchanges it for an ingress, which the room's record then  *)
(* names, and stops it; a ticker cleans up after expired rooms.            *)
(*                                                                         *)
(* As in Identity an action is one awaited call with the code up to the    *)
(* next, a handler may end at any of them, and LiveKit, an external        *)
(* service, does what it is asked or answers with an error.  A start that  *)
(* is answered with an error by one API host tries the next one, so an     *)
(* ingress is named by the start that asked for it and by its attempt;     *)
(* Legacy is one that an earlier release left behind, with transcoding     *)
(* enabled.                                                                *)
(***************************************************************************)
EXTENDS Naturals, FiniteSets

CONSTANTS
    Request,  \* the invocations of start, current and stop
    Cleaner,  \* the background job
    Token,    \* the start tokens that can be issued
    Host,     \* the hosts the room may have, one after the other
    NoHost,   \* stands for the absent host
    Legacy,   \* the ingress of an earlier release
    ApiHosts  \* how many hosts api_hosts_in_order lists: two for an https one

ASSUME BroadcastAssumption == /\ Cleaner \notin Request
                              /\ Host \cap {NoHost, "fresh", "gone"} = {}
                              /\ ApiHosts \in {1, 2}
                              /\ Legacy \notin Request \X (1 .. ApiHosts)

VARIABLES
    room,     \* the host of the room while it is active; NoHost once expired
    token,    \* what each start token is: not issued, its host's, or gone
    record,   \* the row of the room in room_broadcasts
    ingress,  \* the ingresses LiveKit has
    op,       \* the handler each process runs
    pc,       \* the await it stands at
    who,      \* the host it acts for; NoHost is the administrator
    rec       \* the record it has read or made, or for a stop the ingress it was given

vars == <<room, token, record, ingress, op, pc, who, rec>>
world == <<room, token, record, ingress>>

Proc == Request \cup {Cleaner}
Attempt == 1 .. ApiHosts
Ingress == (Request \X Attempt) \cup {Legacy}
Record == [host : Host, id : Ingress]
NoRecord == [host |-> NoHost, id |-> Legacy]
Named == [host : Host \cup {NoHost}, id : Ingress]

Ended == {"ok", "denied", "dropped"}
Label == {"idle", "consume", "read", "probe", "replace", "forget", "create",
          "recreate", "store", "look", "unrecord"} \cup Ended

TypeOK ==
    /\ room \in Host \cup {NoHost}
    /\ token \in [Token -> Host \cup {"fresh", "gone"}]
    /\ record \in Record \cup {NoRecord}
    /\ ingress \in SUBSET Ingress
    /\ op \in [Proc -> {"none", "start", "current", "stop", "clean"}]
    /\ pc \in [Proc -> Label]
    /\ who \in [Proc -> Host \cup {NoHost}]
    /\ rec \in [Proc -> Named]

Init ==
    /\ room \in Host \cup {NoHost}
    /\ token = [k \in Token |-> "fresh"]
    /\ \/ record = NoRecord /\ ingress = {}
       \/ record \in [host : Host, id : {Legacy}] /\ ingress = {Legacy}
    /\ op = [p \in Proc |-> "none"]
    /\ pc = [p \in Proc |-> "idle"]
    /\ who = [p \in Proc |-> NoHost]
    /\ rec = [p \in Proc |-> NoRecord]

-----------------------------------------------------------------------------
Goto(p, label) == pc' = [pc EXCEPT ![p] = label]

\* What p has read is not used again (and not kept, to have fewer states).
Unread(p) == rec' = [rec EXCEPT ![p] = NoRecord]

\* A call of handler h for host u reaches its second await.
Arrive(p, h, u, label) ==
    /\ pc[p] = "idle"
    /\ op' = [op EXCEPT ![p] = h]
    /\ who' = [who EXCEPT ![p] = u]
    /\ Goto(p, label)
    /\ UNCHANGED world

(***************************************************************************)
(* issue_broadcast_start: get_room_active, then SET EX of a fresh token.   *)
(* Only the room can change in between, and start looks at it again.       *)
(***************************************************************************)
Issue(k) ==
    /\ room # NoHost
    /\ token[k] = "fresh"
    /\ token' = [token EXCEPT ![k] = room]
    /\ UNCHANGED <<room, record, ingress, op, pc, who, rec>>

TokenExpires(k) ==
    /\ token[k] \in Host
    /\ token' = [token EXCEPT ![k] = "gone"]
    /\ UNCHANGED <<room, record, ingress, op, pc, who, rec>>

(***************************************************************************)
(* start_broadcast.                                                        *)
(***************************************************************************)
StartBegin(r) ==
    /\ \E h \in Host : Arrive(r, "start", h, IF room = h THEN "consume" ELSE "denied")
    /\ UNCHANGED rec

\* Mutant: the token is only read.
StartReadsToken(r) ==
    /\ pc[r] = "consume"
    /\ \E k \in Token :
         Goto(r, IF token[k] = who[r] THEN "read" ELSE "denied")
    /\ UNCHANGED <<world, op, who, rec>>

\* consume_broadcast_start: GETDEL, and only then the comparison.
StartConsume(r) ==
    /\ pc[r] = "consume"
    /\ \E k \in Token :
         /\ token[k] # "fresh"
         /\ token' = [token EXCEPT ![k] = "gone"]
         /\ Goto(r, IF token[k] = who[r] THEN "read" ELSE "denied")
    /\ UNCHANGED <<room, record, ingress, op, who, rec>>

\* get_room_broadcast, for a start and, once its room has been checked, for a
\* current: a record of this host is compared with LiveKit, another one goes.
ReadRecord(r) ==
    /\ pc[r] = "read"
    /\ rec' = [rec EXCEPT ![r] = record]
    /\ Goto(r, IF record = NoRecord THEN (IF op[r] = "start" THEN "create" ELSE "ok")
               ELSE IF record.host = who[r] THEN "probe"
               ELSE "replace")
    /\ UNCHANGED <<world, op, who>>

\* get_ingress; its errors end the handler.  A start replaces an ingress with
\* transcoding, a current reports it.
Probe(r) ==
    /\ pc[r] = "probe"
    /\ Goto(r, IF rec[r].id \notin ingress THEN "forget"
               ELSE IF op[r] = "start" /\ rec[r].id = Legacy THEN "replace"
               ELSE "ok")
    /\ UNCHANGED <<world, op, who, rec>>

\* delete_ingress, whose errors these two handlers ignore.
Replace(r) ==
    /\ pc[r] = "replace" /\ op[r] \in {"start", "current"}
    /\ \/ ingress' = ingress \ {rec[r].id}
       \/ UNCHANGED ingress
    /\ Goto(r, "forget")
    /\ UNCHANGED <<room, token, record, op, who, rec>>

\* Where deleting the room's row leads a handler.
Forgotten(p) ==
    /\ Goto(p, CASE op[p] = "start"   -> "create"
                 [] op[p] = "current" -> "ok"
                 [] op[p] = "clean"   -> "idle")
    /\ Unread(p)
    /\ UNCHANGED <<room, token, ingress, op, who>>

\* Mutant: the row is blanked instead.
ForgetBlanks(p) ==
    /\ pc[p] = "forget"
    /\ record' = [record EXCEPT !.host = NoHost]
    /\ Forgotten(p)

\* delete_room_broadcast: whatever record the room has by now.
Forget(p) ==
    /\ pc[p] = "forget"
    /\ record' = NoRecord
    /\ Forgotten(p)

\* The ingress that start r is asking for.
Asked(r) == <<r, IF pc[r] = "create" THEN 1 ELSE 2>>

\* create_whip_ingress: an error, which may hide an ingress, makes it ask again at
\* the next host; at the last one it ends the handler.
StartCreate(r) ==
    /\ pc[r] \in {"create", "recreate"}
    /\ \/ /\ ingress' = ingress \cup {Asked(r)}
          /\ rec' = [rec EXCEPT ![r] = [host |-> who[r], id |-> Asked(r)]]
          /\ Goto(r, "store")
       \/ /\ ingress' \in {ingress, ingress \cup {Asked(r)}}
          /\ Goto(r, IF pc[r] = "create" /\ ApiHosts = 2 THEN "recreate" ELSE "denied")
          /\ UNCHANGED rec
    /\ UNCHANGED <<room, token, record, op, who>>

\* upsert_room_broadcast: over whatever record the room has by now.
StartStore(r) ==
    /\ pc[r] = "store"
    /\ record' = rec[r]
    /\ Goto(r, "ok")
    /\ UNCHANGED <<room, token, ingress, op, who, rec>>

(***************************************************************************)
(* current_broadcast: the record of an active room is read and checked as  *)
(* by a start; that of an expired room is cleared.                         *)
(***************************************************************************)
CurrentBegin(r) ==
    /\ \E h \in Host : Arrive(r, "current", h, IF room = h THEN "read"
                                               ELSE IF room = NoHost THEN "look"
                                               ELSE "denied")
    /\ UNCHANGED rec

CurrentLook(r) ==
    /\ pc[r] = "look" /\ op[r] = "current"
    /\ rec' = [rec EXCEPT ![r] = record]
    /\ Goto(r, IF record = NoRecord THEN "ok" ELSE "replace")
    /\ UNCHANGED <<world, op, who>>

(***************************************************************************)
(* stop_broadcast of an ingress some answer has named.  A host may stop    *)
(* what the record of its room names; the administrator may stop anything. *)
(***************************************************************************)
Nameable == {Legacy} \cup
            {rec[r].id : r \in {q \in Request : op[q] \in {"start", "current"} /\ pc[q] = "ok"}}

\* Mutant: the principal is checked against the request alone.
StopAnyones(r) ==
    \E i \in Nameable, u \in Host \cup {NoHost} :
        /\ Arrive(r, "stop", u, "replace")
        /\ rec' = [rec EXCEPT ![r] = [host |-> u, id |-> i]]

StopBegin(r) ==
    \E i \in Nameable, u \in Host \cup {NoHost} :
        /\ Arrive(r, "stop", u,
                  IF u = NoHost \/ record = [host |-> u, id |-> i]
                  THEN "replace" ELSE "denied")
        /\ IF u = NoHost \/ record = [host |-> u, id |-> i]
           THEN rec' = [rec EXCEPT ![r] = [host |-> u, id |-> i]]
           ELSE UNCHANGED rec

\* delete_ingress: gone now, or already; any other error ends the handler.
StopDelete(r) ==
    /\ pc[r] = "replace" /\ op[r] = "stop"
    /\ ingress' = ingress \ {rec[r].id}
    /\ Goto(r, "unrecord")
    /\ UNCHANGED <<room, token, record, op, who, rec>>

\* delete_room_broadcast_by_ingress_id.
StopUnrecord(r) ==
    /\ pc[r] = "unrecord"
    /\ record' = IF record.id = rec[r].id THEN NoRecord ELSE record
    /\ Goto(r, "ok")
    /\ Unread(r)
    /\ UNCHANGED <<room, token, ingress, op, who>>

-----------------------------------------------------------------------------
(***************************************************************************)
(* cleanup_expired_room_broadcasts, every minute.                          *)
(***************************************************************************)
CleanList ==
    /\ pc[Cleaner] = "idle"
    /\ room = NoHost /\ record # NoRecord
    /\ op' = [op EXCEPT ![Cleaner] = "clean"]
    /\ rec' = [rec EXCEPT ![Cleaner] = record]
    /\ Goto(Cleaner, "replace")
    /\ UNCHANGED <<world, who>>

\* Mutant: a failed delete is logged, and the row deleted all the same.
CleanDeleteGoesOn ==
    /\ pc[Cleaner] = "replace"
    /\ ingress' \in {ingress, ingress \ {rec[Cleaner].id}}
    /\ Goto(Cleaner, "forget")
    /\ UNCHANGED <<room, token, record, op, who, rec>>

CleanDelete ==
    /\ pc[Cleaner] = "replace"
    /\ ingress' = ingress \ {rec[Cleaner].id}
    /\ Goto(Cleaner, "forget")
    /\ UNCHANGED <<room, token, record, op, who, rec>>

\* Mutant: the job ends with its first error.
CleanFailsForGood ==
    /\ pc[Cleaner] \in {"replace", "forget"}
    /\ Goto(Cleaner, "dropped")
    /\ Unread(Cleaner)
    /\ UNCHANGED <<world, op, who>>

\* "failed to delete expired room ingress; will retry"; an error of the storage
\* ends the job until the next tick.
CleanFails ==
    /\ pc[Cleaner] \in {"replace", "forget"}
    /\ Goto(Cleaner, "idle")
    /\ Unread(Cleaner)
    /\ UNCHANGED <<world, op, who>>

Clean == CleanList \/ CleanDelete \/ CleanFails \/ Forget(Cleaner)

(***************************************************************************)
(* The room: its host's join renews it, another host's only once it has    *)
(* expired (ensure_room_for_host).                                         *)
(***************************************************************************)
OpenRoom ==
    /\ room = NoHost
    /\ room' \in Host
    /\ UNCHANGED <<token, record, ingress, op, pc, who, rec>>

RoomExpires ==
    /\ room # NoHost
    /\ room' = NoHost
    /\ UNCHANGED <<token, record, ingress, op, pc, who, rec>>

\* The handler is dropped or leaves through "?".
Drop(r) ==
    /\ pc[r] \notin Ended \cup {"idle"}
    /\ Goto(r, "dropped")
    /\ Unread(r)
    /\ UNCHANGED <<world, op, who>>

Begin(r) == StartBegin(r) \/ CurrentBegin(r) \/ StopBegin(r)
Step(r) == \/ StartConsume(r) \/ ReadRecord(r) \/ Probe(r) \/ Replace(r) \/ Forget(r)
           \/ StartCreate(r) \/ StartStore(r) \/ CurrentLook(r)
           \/ StopDelete(r) \/ StopUnrecord(r)

Next == \/ \E r \in Request : Begin(r) \/ Step(r) \/ Drop(r)
        \/ \E k \in Token : Issue(k) \/ TokenExpires(k)
        \/ OpenRoom \/ RoomExpires
        \/ Clean

Spec == Init /\ [][Next]_vars

\* The ticker keeps running, and neither LiveKit nor the storage fails it for ever.
FairSpec == /\ Spec
            /\ WF_vars(Clean) /\ SF_vars(CleanDelete) /\ SF_vars(Forget(Cleaner))
-----------------------------------------------------------------------------
\* Starts that got past their token.
Admitted == {r \in Request : /\ op[r] = "start"
                             /\ pc[r] \in {"read", "probe", "replace", "forget",
                                           "create", "recreate", "store", "ok"}}

\* Every start needs a token of its own (README: a "one-time start_token"), so
\* starts that race, fail or are repeated cannot get more ingresses out of
\* LiveKit than one per API host for each token issued.  It is not one per token:
\* a create that was carried out but answered with an error is repeated.
OneStartPerToken ==
    LET issued == {k \in Token : token[k] # "fresh"}
    IN  /\ Cardinality(Admitted) <= Cardinality(issued)
        /\ Cardinality(ingress \ {Legacy}) <= ApiHosts * Cardinality(issued)

\* A host's stop ends an ingress only if it was started for that host, whatever
\* happened to the room and the record since it checked.
HostStopsOnlyItsOwn ==
    [][\A r \in Request, i \in Request \X Attempt :
          (/\ pc[r] = "replace" /\ op[r] = "stop" /\ pc'[r] = "unrecord"
           /\ who[r] # NoHost /\ i \in ingress \ ingress')
              => who[i[1]] = who[r]]_vars

\* The job gets through, with any number of its rounds failing halfway: a room that
\* stays expired is off the record in the end, also if a start under way when it
\* expired stores its record afterwards.  (The ingress need not go with the record:
\* see JobEndsWhatItForgets and EveryIngressOnRecord.)
ExpiredRecordGoes == <>[](room = NoHost) => <>[](record = NoRecord)

\* The job takes a broadcast off the record only once it has ended, also when its
\* rounds fail between the two: if the row it deletes is the one it read, the row's
\* ingress is gone from LiveKit.
JobEndsWhatItForgets ==
    [][(pc[Cleaner] = "forget" /\ record # record' /\ record = rec[Cleaner] /\ pc'[Cleaner] = "idle")
           => record.id \notin ingress']_vars

-----------------------------------------------------------------------------
(* What the code does not keep.                                            *)

\* An ingress whose start has ended is on record, so that it can be found and ended.
\* One is not if the start was dropped before it stored the record, if the create
\* was repeated at another host, if the delete of a replaced ingress failed, or if
\* the row was deleted for the record read earlier.
EveryIngressOnRecord ==
    \A i \in Request \X Attempt : (i \in ingress /\ pc[i[1]] \in Ended) => record.id = i

\* The clean-up of expired rooms leaves the running broadcast of an active room
\* on record, so that its host can find and stop it (README: "broadcast rights
\* must stay consistent under concurrency").
CleanUpSparesActiveRooms ==
    [][(pc[Cleaner] = "forget" /\ pc'[Cleaner] = "idle" /\ record \in Record)
           => ~(record.host = room /\ record.id \in ingress)]_vars
=============================================================================
