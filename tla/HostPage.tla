------------------------------ MODULE HostPage ------------------------------
(***************************************************************************)
(* The page of a host: entering with a TOTP code, taking the room back     *)
(* from a page that still holds the identity, leaving, and the host tools  *)
(* (invites and broadcast), all of useRoomState.ts.                        *)
(*                                                                         *)
(* A call goes through the stages of its handler, one await after the      *)
(* other; several are under way at once, and nothing but the two flags     *)
(* "joining" and "reclaiming" keeps a button from being pressed twice.     *)
(* The lookups of the two effects are apart, since an effect that runs     *)
(* anew cancels its own.  The hook lives in a Sidebar, which theatre mode  *)
(* unmounts: the calls of an unmounted hook go on, and what they do to the *)
(* Layout's state still happens.                                           *)
(*                                                                         *)
(* The server is whether LiveKit shows the identity in the room, which a   *)
(* join and a reclaim go by (Identity has the lock in full); whether it    *)
(* has an ingress to tell of (Broadcast) is open with every answer, and    *)
(* what the list of invites holds is left out.  Members' joins are not     *)
(* modelled; the ends of a session are in PageSession; a join while in the *)
(* room, which joinRoom provides for, no button offers.                    *)
(***************************************************************************)
EXTENDS Naturals, FiniteSets, SequencesExt

CONSTANTS
    MaxUnderWay,    \* bound on the calls under way, the effects' apart
    RequireInvite   \* REQUIRE_INVITE

ASSUME HostPageAssumption ==
    RequireInvite \in BOOLEAN /\ MaxUnderWay \in Nat

VARIABLES
    held,      \* whether LiveKit shows the identity in the room
    joined,    \* whether the page is in the room
    asHost,    \* whether the role chosen before, of localStorage, is host
    layout,    \* where the Sidebar is mounted
    hook,      \* the hook's state
    calls      \* the calls under way, the oldest first

hostVars == <<held, joined, asHost, layout, hook, calls>>
shell == <<joined, asHost, layout>>

Stages == [join |-> {"login", "join", "admitted", "reclaim", "again", "lookup"},
           reclaim |-> {"sent"}, leave |-> {"sent"}, refresh |-> {"list"}, issue |-> {"sent", "list"},
           revoke |-> {"sent"}, start |-> {"issue", "sent"}, stop |-> {"sent"}]

\* retry: a join at the end of forceReclaimAndRetry, which an identity in use does
\* not make reclaim once more; blocked: "joining" as a reclaim saw it; mine:
\* of the mounted hook.
Call == [kind : DOMAIN Stages, at : UNION {Stages[k] : k \in DOMAIN Stages},
         retry : BOOLEAN, blocked : BOOLEAN, mine : BOOLEAN]

\* What a hook starts with.
Fresh == [unlocked |-> FALSE, ticket |-> FALSE, joining |-> FALSE, reclaiming |-> FALSE,
          cta |-> FALSE, shown |-> FALSE, loading |-> FALSE, current |-> FALSE, list |-> FALSE]

\* effectiveRole === "host".
HostForm(h) == h.unlocked \/ (asHost /\ ~h.ticket)

HostTypeOK ==
    /\ {held, joined, asHost} \subseteq BOOLEAN
    /\ layout \in {"main", "off", "drawer"} /\ (~joined => layout = "main")
    /\ hook \in [unlocked : BOOLEAN, ticket : BOOLEAN, joining : BOOLEAN, reclaiming : BOOLEAN,
                 cta : BOOLEAN, shown : BOOLEAN, loading : BOOLEAN,
                 current : BOOLEAN, list : BOOLEAN]
    /\ layout = "off" => hook = Fresh
    /\ ~joined => ~(hook.current \/ hook.list)
    /\ hook.cta => HostForm(hook)
    /\ calls \in Seq(Call) /\ Len(calls) <= MaxUnderWay
    /\ \A s \in DOMAIN calls : calls[s].at \in Stages[calls[s].kind]

(***************************************************************************)
(* The page.                                                               *)
(***************************************************************************)
\* The effects on joined and the tokens, in the room and out of it.
Looking(h) == [h EXCEPT !.current = TRUE, !.list = TRUE, !.loading = TRUE]
Outside(h) == [h EXCEPT !.current = FALSE, !.list = FALSE, !.loading = FALSE, !.shown = FALSE]

\* Mutant: the offer outlives the form of a host.
OfferingStale(h) == h

\* The effect on the role: no offer to reclaim on the form of a member.
Offering(h) == [h EXCEPT !.cta = @ /\ HostForm(h)]

\* The members of a set of places, the oldest first.
InOrder(S) == {p \in [1 .. Cardinality(S) -> S] : \A i, j \in DOMAIN p : i < j => p[i] < p[j]}

\* Those that have only the hook left to change end with it.
Orphans(cs) ==
    LET kept == {s \in DOMAIN cs : /\ cs[s].kind \in {"join", "reclaim", "leave", "issue"}
                                  /\ cs[s].at \notin {"list", "lookup"}} IN
    {[s \in DOMAIN p |-> [cs[p[s]] EXCEPT !.mine = FALSE]] : p \in InOrder(kept)}

HostInit ==
    /\ held \in BOOLEAN
    /\ joined = FALSE /\ asHost = FALSE
    /\ layout = "main" /\ hook = Fresh
    /\ calls = <<>>

Ends(s) == RemoveAt(calls, s)
Goes(s, at) == [calls EXCEPT ![s].at = at]

New(kind, at) == [kind |-> kind, at |-> at, retry |-> FALSE, blocked |-> FALSE, mine |-> TRUE]

\* A button that starts a call.
Begin(c) == Len(calls) < MaxUnderWay /\ calls' = Append(calls, c)

\* What the handler of call s does to the state of the hook that made it.
Hooked(s, h) == hook' = IF calls[s].mine THEN Offering(h) ELSE hook

\* clearClientState: the page is out of the room, theatre mode ends, and with it
\* the hook of its drawer.
Cleared(cs, mine) ==
    /\ joined' = FALSE
    /\ layout' = "main"
    /\ IF layout = "main"
       THEN hook' = Outside([hook EXCEPT !.cta = @ /\ ~mine]) /\ calls' = cs
       ELSE hook' = Fresh /\ calls' \in Orphans(cs)
    /\ UNCHANGED asHost

(***************************************************************************)
(* The form.                                                               *)
(***************************************************************************)
Unlock(on) ==
    /\ ~joined /\ hook.unlocked # on
    /\ hook' = Offering([hook EXCEPT !.unlocked = on])
    /\ UNCHANGED <<held, shell, calls>>

FormShown == ~joined /\ (RequireInvite => hook.unlocked \/ hook.ticket)

PressJoin ==
    /\ FormShown /\ HostForm(hook) /\ ~hook.joining
    /\ Begin(New("join", "login"))
    /\ hook' = [hook EXCEPT !.joining = TRUE]
    /\ UNCHANGED <<held, shell>>

\* The host session changes the api, which the effects depend on.
LoginOk(s) ==
    /\ calls[s].at = "login"
    /\ calls' = Goes(s, "join")
    /\ hook' = IF layout = "off" THEN hook ELSE IF joined THEN Looking(hook) ELSE Outside(hook)
    /\ UNCHANGED <<held, shell>>

\* POST /rooms/join takes over a lock whose owner LiveKit does not show, and, if
\* its heartbeats have stopped, one whose owner it does.
Admit(s) ==
    /\ calls[s].at \in {"join", "again"}
    /\ calls' = Goes(s, "admitted")
    /\ UNCHANGED <<held, shell, hook>>

\* The answer to the join: the room is there before the broadcast is looked up.
Admitted(s) ==
    /\ calls[s].at = "admitted"
    /\ joined' = TRUE
    /\ calls' = Goes(s, "lookup")
    /\ LET h == IF calls[s].mine THEN [hook EXCEPT !.cta = FALSE] ELSE hook IN
       hook' = IF layout = "off" THEN hook ELSE Looking(h)
    /\ UNCHANGED <<held, asHost, layout>>

\* finally: of joinRoom, and of forceReclaimAndRetry when it called it.
Over(s, h) == [h EXCEPT !.joining = FALSE, !.reclaiming = @ /\ ~calls[s].retry]

Restored(s) ==
    /\ calls[s].at = "lookup"
    /\ \E found \in BOOLEAN : Hooked(s, Over(s, [hook EXCEPT !.shown = found]))
    /\ calls' = Ends(s)
    /\ UNCHANGED <<held, shell>>

\* Mutant: an error leaves the flag up.
JoinFailsBusy(s, inUse) ==
    /\ Hooked(s, [Over(s, hook) EXCEPT !.joining = hook.joining, !.cta = @ \/ inUse])
    /\ calls' = Ends(s)
    /\ UNCHANGED <<held, shell>>

\* catch and finally of joinRoom.
JoinFails(s, inUse) ==
    /\ Hooked(s, [Over(s, hook) EXCEPT !.cta = @ \/ inUse])
    /\ calls' = Ends(s)
    /\ UNCHANGED <<held, shell>>

\* The identity is in use, or was when the join looked, or LiveKit could not be asked.
JoinRefused(s) ==
    /\ calls[s].at \in {"join", "again"}
    /\ IF calls[s].at = "join" /\ ~calls[s].retry
       THEN calls' = Goes(s, "reclaim") /\ UNCHANGED <<held, shell, hook>>
       ELSE JoinFails(s, TRUE)

\* POST /rooms/host/force-reclaim refuses while LiveKit shows the owner.
AutoReclaim(s) ==
    /\ calls[s].at = "reclaim"
    /\ IF held THEN JoinFails(s, TRUE)
       ELSE calls' = Goes(s, "again") /\ UNCHANGED <<held, shell, hook>>

\* Anything else that goes wrong, before or after the server has done its part.
JoinBreaks(s) == calls[s].kind = "join" /\ JoinFails(s, FALSE)

(***************************************************************************)
(* forceReclaimAndRetry.                                                   *)
(***************************************************************************)
PressReclaim ==
    /\ FormShown /\ HostForm(hook) /\ hook.cta /\ ~hook.reclaiming
    /\ Begin([New("reclaim", "sent") EXCEPT !.blocked = hook.joining])
    /\ hook' = [hook EXCEPT !.reclaiming = TRUE]
    /\ UNCHANGED <<held, shell>>

\* The join that follows goes by the "joining" of the page the button was pressed
\* on, and does not reclaim again.
ReclaimOk(s) ==
    /\ calls[s].kind = "reclaim" /\ ~held
    /\ IF calls[s].blocked
       THEN /\ Hooked(s, [hook EXCEPT !.cta = FALSE, !.reclaiming = FALSE])
            /\ calls' = Ends(s)
       ELSE /\ Hooked(s, [hook EXCEPT !.cta = FALSE, !.joining = TRUE])
            /\ calls' = [calls EXCEPT ![s] = [New("join", "login") EXCEPT
                             !.retry = TRUE, !.mine = calls[s].mine]]
    /\ UNCHANGED <<held, shell>>

\* Refused, or the host session it needs is gone.
ReclaimFails(s) ==
    /\ calls[s].kind = "reclaim"
    /\ Hooked(s, [hook EXCEPT !.reclaiming = FALSE])
    /\ calls' = Ends(s)
    /\ UNCHANGED <<held, shell>>

(***************************************************************************)
(* Leaving, and what else happens to the page.                             *)
(***************************************************************************)
\* Nothing keeps the button from being pressed again.
PressLeave ==
    /\ joined /\ layout # "off"
    /\ Begin(New("leave", "sent"))
    /\ UNCHANGED <<held, shell, hook>>

\* Whether the call has reached the server or not, the page clears itself.
LeaveEnds(s) ==
    /\ calls[s].kind = "leave"
    /\ Cleared(Ends(s), calls[s].mine)
    /\ UNCHANGED held

SessionEnds ==
    /\ joined /\ layout # "off"
    /\ Cleared(calls, TRUE)
    /\ UNCHANGED held

\* A reconnect brings a new "joined", and the effects run anew.
Reconnects ==
    /\ joined
    /\ hook' = IF layout = "off" THEN hook ELSE Looking(hook)
    /\ UNCHANGED <<held, shell, calls>>

Move(at) ==
    /\ joined /\ at # layout /\ ~(layout = "main" /\ at = "drawer")
    /\ layout' = at
    /\ hook' = IF at = "off" THEN Fresh ELSE Looking(Fresh)
    /\ calls' \in Orphans(calls)
    /\ UNCHANGED <<held, joined, asHost>>

Reload ==
    /\ layout' = "main"
    /\ hook' = IF joined THEN Looking(Fresh) ELSE Fresh
    /\ calls' = <<>>
    /\ UNCHANGED <<held, joined, asHost>>

\* LiveKit shows the identity while a page is connected under it, and a page that
\* was there before until it is gone.
OwnerComes ==
    /\ joined /\ ~held /\ held' = TRUE
    /\ UNCHANGED <<shell, hook, calls>>

OwnerGoes ==
    /\ ~joined /\ held /\ held' = FALSE
    /\ UNCHANGED <<shell, hook, calls>>

(***************************************************************************)
(* The lookups of the effects.                                             *)
(***************************************************************************)
CurrentFails ==
    /\ hook.current
    /\ hook' = [hook EXCEPT !.current = FALSE]
    /\ UNCHANGED <<held, shell, calls>>

CurrentKnown ==
    /\ hook.current
    /\ \E found \in BOOLEAN : hook' = [hook EXCEPT !.shown = found, !.current = FALSE]
    /\ UNCHANGED <<held, shell, calls>>

\* The list comes or does not: finally, either way.
ListKnown ==
    /\ hook.list
    /\ hook' = [hook EXCEPT !.list = FALSE, !.loading = FALSE]
    /\ UNCHANGED <<held, shell, calls>>

(***************************************************************************)
(* The host tools.                                                         *)
(***************************************************************************)
Tools == joined /\ layout # "off"

PressRefresh ==
    /\ Tools
    /\ Begin(New("refresh", "list"))
    /\ hook' = [hook EXCEPT !.loading = TRUE]
    /\ UNCHANGED <<held, shell>>

PressIssue ==
    /\ Tools
    /\ Begin(New("issue", "sent"))
    /\ UNCHANGED <<held, shell, hook>>

\* Once it is on the clipboard, the form of the page is the invite's.
Issued(s) ==
    /\ calls[s].kind = "issue" /\ calls[s].at = "sent"
    /\ asHost' = TRUE
    /\ hook' = IF calls[s].mine THEN [hook EXCEPT !.ticket = TRUE, !.cta = @ /\ hook.unlocked]
               ELSE [hook EXCEPT !.cta = @ /\ (hook.unlocked \/ ~hook.ticket)]
    /\ calls' = Goes(s, "list")
    /\ UNCHANGED <<held, joined, layout>>

\* The list of refreshInviteList, or of issueInvite, which has no part in the
\* spinner.
Listed(s) ==
    /\ calls[s].at = "list"
    /\ Hooked(s, [hook EXCEPT !.loading = @ /\ calls[s].kind = "issue"])
    /\ calls' = Ends(s)
    /\ UNCHANGED <<held, shell>>

PressRevoke ==
    /\ Tools /\ ~hook.loading
    /\ Begin(New("revoke", "sent"))
    /\ UNCHANGED <<held, shell, hook>>

\* Whether there was anything to revoke or not, refreshInviteList follows.
Revoked(s) ==
    /\ calls[s].kind = "revoke"
    /\ calls' = [calls EXCEPT ![s] = [New("refresh", "list") EXCEPT !.mine = calls[s].mine]]
    /\ Hooked(s, [hook EXCEPT !.loading = TRUE])
    /\ UNCHANGED <<held, shell>>

PressStart ==
    /\ Tools
    /\ Begin(New("start", "issue"))
    /\ UNCHANGED <<held, shell, hook>>

StartIssued(s) ==
    /\ calls[s].at = "issue"
    /\ calls' = Goes(s, "sent")
    /\ UNCHANGED <<held, shell, hook>>

Started(s) ==
    /\ calls[s].kind = "start" /\ calls[s].at = "sent"
    /\ Hooked(s, [hook EXCEPT !.shown = TRUE])
    /\ calls' = Ends(s)
    /\ UNCHANGED <<held, shell>>

\* It stops what the page shows; without anything shown it is an error.
PressStop ==
    /\ Tools /\ hook.shown
    /\ Begin(New("stop", "sent"))
    /\ UNCHANGED <<held, shell, hook>>

Stopped(s) ==
    /\ calls[s].kind = "stop"
    /\ Hooked(s, [hook EXCEPT !.shown = FALSE])
    /\ calls' = Ends(s)
    /\ UNCHANGED <<held, shell>>

\* A call of the tools fails, or its answer is lost.
ToolFails(s) ==
    /\ calls[s].kind \in {"refresh", "issue", "revoke", "start", "stop"}
    /\ Hooked(s, [hook EXCEPT !.loading = @ /\ calls[s].kind # "refresh"])
    /\ calls' = Ends(s)
    /\ UNCHANGED <<held, shell>>

Joining(s) == \/ LoginOk(s) \/ Admit(s) \/ Admitted(s) \/ Restored(s)
              \/ JoinRefused(s) \/ AutoReclaim(s) \/ JoinBreaks(s)
Tool(s) == \/ Issued(s) \/ Listed(s) \/ Revoked(s) \/ StartIssued(s)
           \/ Started(s) \/ Stopped(s) \/ ToolFails(s)
CallGoes(s) == Joining(s) \/ ReclaimOk(s) \/ ReclaimFails(s) \/ LeaveEnds(s) \/ Tool(s)
Press == \/ PressJoin \/ PressReclaim \/ PressLeave \/ PressRefresh \/ PressIssue
         \/ PressStart \/ PressStop \/ PressRevoke

HostNext ==
    \/ \E on \in BOOLEAN : Unlock(on)
    \/ Press
    \/ \E s \in DOMAIN calls : CallGoes(s)
    \/ CurrentKnown \/ CurrentFails \/ ListKnown
    \/ SessionEnds \/ Reconnects \/ Reload
    \/ \E at \in {"main", "off", "drawer"} : Move(at)
    \/ OwnerComes \/ OwnerGoes

\* Every call ends; a host who is not in goes on asking for the host form and
\* pressing Join, not every call of a kind fails, and what held the identity goes.
Fairness ==
    /\ \A s \in 1 .. MaxUnderWay : WF_hostVars(s \in DOMAIN calls /\ CallGoes(s))
    /\ WF_hostVars(Unlock(TRUE)) /\ SF_hostVars(PressJoin)
    /\ SF_hostVars(\E s \in DOMAIN calls : LoginOk(s))
    /\ SF_hostVars(\E s \in DOMAIN calls : ~held /\ Admit(s))
    /\ SF_hostVars(\E s \in DOMAIN calls : Admitted(s))
    /\ WF_hostVars(OwnerGoes)

HostSpec == HostInit /\ [][HostNext]_hostVars /\ Fairness
-----------------------------------------------------------------------------
\* A button that is held back, or a list that says it is loading, has a call
\* behind it: whatever is pressed at once, fails, is cancelled or goes with the
\* Sidebar, no flag is left up by itself.
BusyMeansBusy ==
    LET Mine(kind) == \E s \in DOMAIN calls : calls[s].kind = kind /\ calls[s].mine
        Retrying == \E s \in DOMAIN calls : calls[s].retry /\ calls[s].mine IN
    /\ hook.joining => Mine("join")
    /\ hook.reclaiming => Mine("reclaim") \/ Retrying
    /\ hook.loading => hook.list \/ Mine("refresh")

\* A host who is out of the room and goes on trying gets in, past a page that held
\* the identity, refused attempts, lost answers and reloads.
HostGetsIn == ~joined ~> joined
-----------------------------------------------------------------------------
(* What the code does not keep.                                            *)

\* One join at a time: a reclaim that answers goes by the "joining" of the page its
\* button was pressed on, and enters beside a join pressed since.
OneJoinAtATime ==
    \A r, s \in DOMAIN calls : (r # s /\ calls[r].kind = "join" /\ calls[s].kind = "join") =>
        ~(calls[r].mine /\ calls[s].mine)

\* The form of a host who leaves is a host's.  An issued invite makes it a member's.
HostStaysHost == [][joined /\ ~joined' /\ asHost /\ layout = "main" => HostForm(hook)']_hostVars
=============================================================================
