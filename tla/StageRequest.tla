---------------------------- MODULE StageRequest ----------------------------
(***************************************************************************)
(* Asking the host for the stage: the two ends of the stage.control topic  *)
(* in StageScene (apps/frontend/src/components/MainStage.tsx).  A member   *)
(* without permission asks over the LiveKit data channel; the host's page  *)
(* lists the request, and a decision calls the API first and is published  *)
(* to everybody afterwards.                                                *)
(*                                                                         *)
(* The server is the record of each member's grants, which every change    *)
(* reads, modifies and writes: changes that overlap lose one another's     *)
(* work.  (Stage has the leases, and what LiveKit makes of it.)  The data  *)
(* channel reaches the pages that are there when a message is published,   *)
(* in any order, unless they drop out first.                               *)
(***************************************************************************)
EXTENDS StageRoom, Sequences

CONSTANTS
    MaxOpen,    \* bound on the requests that have not ended yet
    MaxCalls,   \* bound on the changes of grants under way
    MaxListed   \* MAX_HOST_STAGE_REQUESTS

VARIABLES
    granted,   \* each member's grants on record
    undone,    \* history: what was taken back, or denied, since it was last on record
    lost,      \* history: what a change left out that had read the record before
    allowed,   \* stagePermission of each member's page
    pending,   \* pendingStageAccess of each member's page
    listed,    \* hostStageRequests, the latest first
    deciding,  \* changes of grants under way
    wire       \* stage control messages on their way

grants == <<granted, undone, lost>>
requestVars == <<inRoom, grants, allowed, pending, listed, deciding, wire>>

ASSUME StageRequestAssumption == MaxOpen \in Nat /\ MaxListed \in Nat \ {0}

Silent == 0
Request == [id : 1 .. MaxOpen, from : Member, feature : Feature]
Message == [to : Page, request : Request, says : {"request", "approved", "denied"}]

\* How far a change has got, and the grants it has read.  Its request is Silent when
\* nobody is going to be told of it.
Decision == [request : Request \cup [id : {Silent}, from : Member, feature : Feature],
             approved : BOOLEAN, at : {"called", "read", "applied"}, held : SUBSET Feature]

RequestTypeOK ==
    /\ inRoom \subseteq Page
    /\ {granted, undone, lost, allowed, pending} \subseteq [Member -> SUBSET Feature]
    /\ \A m \in Member : granted[m] \cap (undone[m] \cup lost[m]) = {}
    /\ listed \in Seq(Request) /\ Len(listed) <= MaxListed
    /\ \A i, j \in DOMAIN listed : listed[i].id = listed[j].id => i = j
    /\ deciding \subseteq Decision
    /\ \A d \in deciding : d.at = "applied" => d.request.id # Silent
    /\ wire \subseteq Message

Nothing == [m \in Member |-> {}]

\* The list without r.  (The code filters by id; an id is on the list once.)
Unlisted(r) ==
    IF \E i \in DOMAIN listed : listed[i].id = r.id
    THEN LET i == CHOOSE i \in DOMAIN listed : listed[i].id = r.id
         IN  SubSeq(listed, 1, i - 1) \o SubSeq(listed, i + 1, Len(listed))
    ELSE listed

RequestInit ==
    /\ inRoom = {}
    /\ granted = Nothing /\ undone = Nothing /\ lost = Nothing
    /\ allowed = Nothing /\ pending = Nothing
    /\ listed = <<>> /\ deciding = {} /\ wire = {}

(***************************************************************************)
(* Pages come and go.                                                      *)
(***************************************************************************)
\* A join, or a new token after a reconnect: a new StageScene, which starts from
\* the grants of the answer and with nothing pending or listed.
Enter(p) ==
    /\ p \notin inRoom
    /\ inRoom' = inRoom \cup {p}
    /\ allowed' = IF p = Host THEN allowed ELSE [allowed EXCEPT ![p] = granted[p]]
    /\ UNCHANGED <<grants, pending, listed, deciding, wire>>

\* A change goes on at the server when its caller is gone.
Unheeded(d) == [d EXCEPT !.request.id = Silent]

\* Leaving, or being handed a new token: the scene goes with all it has.
Drop(p) ==
    /\ p \in inRoom
    /\ inRoom' = inRoom \ {p}
    /\ wire' = {w \in wire : w.to # p}
    /\ IF p = Host
       THEN /\ listed' = <<>>
            /\ deciding' = {Unheeded(d) : d \in {e \in deciding : e.at # "applied"}}
            /\ UNCHANGED pending
       ELSE /\ pending' = [pending EXCEPT ![p] = {}]
            /\ UNCHANGED <<listed, deciding>>
    /\ UNCHANGED <<grants, allowed>>

\* An id is drawn anew for each request: here one of no request still around.
Open(id) == \/ \E w \in wire : w.request.id = id
            \/ \E i \in DOMAIN listed : listed[i].id = id
            \/ \E d \in deciding : d.request.id = id

\* The camera and share buttons of a member without permission: requestStageAccess,
\* when publishing the request works.  (OBS on the stage, which keeps everybody from
\* starting to share, may be there or not.)
Ask(m, f) ==
    /\ m \in inRoom
    /\ f \notin allowed[m] \cup pending[m]
    /\ \E id \in 1 .. MaxOpen :
          /\ ~Open(id) /\ \A other \in 1 .. id - 1 : Open(other)
          /\ wire' = wire \cup {[to |-> h, request |-> [id |-> id, from |-> m, feature |-> f],
                                 says |-> "request"] : h \in inRoom \cap {Host}}
    /\ pending' = Add(pending, m, f)
    /\ UNCHANGED <<inRoom, grants, allowed, listed, deciding>>

(***************************************************************************)
(* The data channel.                                                       *)
(***************************************************************************)
\* Mutant: the list is not cut to its limit.
HostHearsAll(w) ==
    /\ w.to = Host /\ Host \in inRoom
    /\ listed' = <<w.request>> \o Unlisted(w.request)
    /\ wire' = wire \ {w}
    /\ UNCHANGED <<inRoom, grants, allowed, pending, deciding>>

HostHears(w) ==
    /\ w.to = Host /\ Host \in inRoom
    /\ listed' = SubSeq(<<w.request>> \o Unlisted(w.request), 1,
                        IF Len(Unlisted(w.request)) < MaxListed
                        THEN Len(Unlisted(w.request)) + 1 ELSE MaxListed)
    /\ wire' = wire \ {w}
    /\ UNCHANGED <<inRoom, grants, allowed, pending, deciding>>

\* Everybody hears of a decision; an approval lifts the gate, a denial only ends
\* the wait.
MemberHears(w) ==
    /\ w.to \in inRoom \ {Host}
    /\ wire' = wire \ {w}
    /\ IF w.to = w.request.from
       THEN /\ pending' = Without(pending, w.to, w.request.feature)
            /\ allowed' = IF w.says = "approved" THEN Add(allowed, w.to, w.request.feature)
                          ELSE allowed
       ELSE UNCHANGED <<pending, allowed>>
    /\ UNCHANGED <<inRoom, grants, listed, deciding>>

(***************************************************************************)
(* The host decides, in the list or in the Sidebar.                        *)
(***************************************************************************)
Change(request, approved, at, held) ==
    /\ Cardinality(deciding) < MaxCalls
    /\ deciding' = deciding \cup {[request |-> request, approved |-> approved,
                                   at |-> at, held |-> held]}

\* Nothing keeps the host from pressing both buttons, of one request or of several.
Decide(i, approved) ==
    /\ i \in DOMAIN listed
    /\ Change(listed[i], approved, "called", {})
    /\ UNCHANGED <<inRoom, grants, allowed, pending, listed, wire>>

\* The Sidebar's button beside a member who publishes, and the end of a lease at a
\* heartbeat: the same change, and nobody is told.
TakeBack(m, f) ==
    /\ f \in granted[m] \cup allowed[m]
    /\ Change([id |-> Silent, from |-> m, feature |-> f], FALSE, "read", granted[m])
    /\ UNCHANGED <<inRoom, grants, allowed, pending, listed, wire>>

\* get_or_default_member.  (No record is as good as an empty one here.)
ReadGrants(d) ==
    /\ d.at = "called"
    /\ deciding' = (deciding \ {d})
                     \cup {[d EXCEPT !.at = "read", !.held = granted[d.request.from]]}
    /\ UNCHANGED <<inRoom, grants, allowed, pending, listed, wire>>

\* set_member, over whatever is on record by now.
Apply(d) ==
    LET m == d.request.from
        f == d.request.feature
        kept == IF d.approved THEN d.held \cup {f} ELSE d.held \ {f} IN
    /\ d.at = "read"
    /\ granted' = [granted EXCEPT ![m] = kept]
    /\ undone' = [undone EXCEPT ![m] = (@ \cup {f}) \ kept]
    /\ lost' = [lost EXCEPT ![m] = (@ \cup (granted[m] \ {f})) \ kept]
    /\ deciding' = (deciding \ {d}) \cup IF d.request.id = Silent THEN {}
                                        ELSE {[d EXCEPT !.at = "applied", !.held = {}]}
    /\ UNCHANGED <<inRoom, allowed, pending, listed, wire>>

\* Mutant: the decision is published without waiting for the API call.
AnnounceUnapplied(d) ==
    /\ d.request.id # Silent
    /\ wire' = wire \cup {[to |-> m, request |-> d.request,
                           says |-> IF d.approved THEN "approved" ELSE "denied"]
                          : m \in inRoom \ {Host}}
    /\ listed' = Unlisted(d.request)
    /\ deciding' = deciding \ {d}
    /\ UNCHANGED <<inRoom, grants, allowed, pending>>

\* The API has answered: tell everybody, then take the request off the list.
Announce(d) ==
    /\ d.at = "applied"
    /\ wire' = wire \cup {[to |-> m, request |-> d.request,
                           says |-> IF d.approved THEN "approved" ELSE "denied"]
                          : m \in inRoom \ {Host}}
    /\ listed' = Unlisted(d.request)
    /\ deciding' = deciding \ {d}
    /\ UNCHANGED <<inRoom, grants, allowed, pending>>

\* The call fails, its answer is lost, or publishing fails: the request stays, and
\* the server may go on.
GiveUp(d) ==
    /\ deciding' \in {deciding \ {d}}
                     \cup IF d.at = "applied" THEN {} ELSE {(deciding \ {d}) \cup {Unheeded(d)}}
    /\ UNCHANGED <<inRoom, grants, allowed, pending, listed, wire>>

RequestNext ==
    \/ \E p \in Page : Enter(p) \/ Drop(p)
    \/ \E m \in Member, f \in Feature : Ask(m, f) \/ TakeBack(m, f)
    \/ \E w \in wire : HostHears(w) \/ MemberHears(w)
    \/ \E i \in 1 .. MaxListed, approved \in BOOLEAN : Decide(i, approved)
    \/ \E d \in deciding : ReadGrants(d) \/ Apply(d) \/ Announce(d) \/ GiveUp(d)

RequestSpec == RequestInit /\ [][RequestNext]_requestVars
-----------------------------------------------------------------------------
\* What a member's page takes for permission is on record, unless it was taken back
\* since, or left out by a change of the same member's grants that had read the record
\* before it was there: whatever is decided at once, fails halfway or arrives late, an
\* approval is not announced before it holds.
ApprovalBacked == \A m \in Member : allowed[m] \subseteq granted[m] \cup undone[m] \cup lost[m]
-----------------------------------------------------------------------------
(* What the code does not keep.                                            *)

\* Approvals do not undo one another: what is approved is on record until it is taken
\* back.  Two approvals at once, of camera and of screen share, may lose one.
ApprovalKept == \A m \in Member : lost[m] = {}

\* The page stops offering what the server has taken back.  A denial, the Sidebar
\* and the end of a lease leave stagePermission alone.
TakenBackShown == \A m \in Member : m \in inRoom => allowed[m] \subseteq granted[m]

\* Somebody can still answer a request the member's page takes for pending.
PendingAnswerable ==
    \A m \in Member, f \in Feature :
        f \in pending[m] => \/ \E w \in wire : w.request.from = m /\ w.request.feature = f
                            \/ \E i \in DOMAIN listed : listed[i].from = m /\ listed[i].feature = f
                            \/ \E d \in deciding : d.request.from = m /\ d.request.feature = f
=============================================================================
