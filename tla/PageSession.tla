---------------------------- MODULE PageSession -----------------------------
(***************************************************************************)
(* How a page keeps its session: the heartbeats, the reconnect attempts    *)
(* and the check after a reload of useSessionState.ts, the recovery of the *)
(* LiveKit signal (Layout.tsx), leaving and joining anew.                  *)
(*                                                                         *)
(* A session is a number, in the order in which the page joins; the server *)
(* is what has become of each.  The page keeps its two halves apart, as    *)
(* the code does: "joined", the answer to the join, and "token", the app   *)
(* session token; localStorage always has the same.  The hook lives in a   *)
(* Sidebar, which theatre mode unmounts; the calls of an unmounted hook    *)
(* go on, and what they do to the Layout's state still happens.            *)
(* (The two Sidebars of the drawer do the same thing twice; one is         *)
(* modelled.)                                                              *)
(***************************************************************************)
EXTENDS Naturals, FiniteSets

CONSTANTS
    Sessions,   \* how often the page may join
    MaxCalls    \* how many of its calls may be under way at once

ASSUME PageSessionAssumption == Sessions \in Nat /\ MaxCalls \in Nat

VARIABLES
    server,    \* what has become of each session
    joined,    \* whose answer the page shows as its room, None when in no room
    token,     \* whose token its calls carry
    hook,      \* the hook: where it is mounted, its status and its refs
    booted,    \* bootReconnectAttempted, of the loaded page
    cooling,   \* livekitReconnectCooldownUntilRef
    calls      \* the calls under way

vars == <<server, joined, token, hook, booted, cooling, calls>>

Session == 1 .. Sessions
None == 0

\* restored is the snapshot a reconnect puts back, or that an unmounted hook has
\* kept; mine tells the calls of the mounted hook from those of earlier ones.  A
\* "wait" is the 3 s timer of an unmounted hook.
Kinds == {"beat", "wait", "attempt", "boot", "recover", "leave"}
Call == [kind : Kinds,
         of : Session, restored : Session \cup {None}, mine : BOOLEAN]

TypeOK ==
    /\ server \in [Session -> {"new", "live", "displaced", "dead"}]
    /\ {joined, token} \subseteq Session \cup {None}
    /\ hook \in [at : {"main", "drawer", "off"},
                 status : {"connected", "reconnecting", "disconnected"},
                 logged : BOOLEAN, timer : Session \cup {None}, busy : BOOLEAN]
    /\ {booted, cooling} \subseteq BOOLEAN
    /\ calls \subseteq Call
    /\ joined = None => hook.at = "main"
    /\ hook.busy <=> \E c \in calls : c.mine /\ c.kind \in {"attempt", "boot"}

InRoom == joined # None /\ token # None
NoHook == [at |-> "off", status |-> "disconnected", logged |-> FALSE, timer |-> None, busy |-> FALSE]

\* A bound: the page has no more than MaxCalls calls under way.
Begin(kind, of, restored) ==
    /\ Cardinality(calls) < MaxCalls
    /\ calls' = calls \cup {[kind |-> kind, of |-> of, restored |-> restored, mine |-> TRUE]}

\* What becomes of the calls under way when the hook is replaced by a new one.
Orphaned(c) == [c EXCEPT !.mine = FALSE, !.restored = IF c.kind = "beat" THEN joined ELSE @]

\* Mutant: the effect leaves the timer running.
SettledTicking(h, j, t) ==
    IF j # None /\ t # None
    THEN [h EXCEPT !.status = IF h.at # "off" /\ @ = "disconnected" THEN "connected" ELSE @]
    ELSE [h EXCEPT !.status = "disconnected", !.logged = FALSE]

\* The effect that follows a change of joined or token.
Settled(h, j, t) ==
    IF j # None /\ t # None
    THEN [h EXCEPT !.status = IF h.at # "off" /\ @ = "disconnected" THEN "connected" ELSE @]
    ELSE [h EXCEPT !.status = "disconnected", !.logged = FALSE, !.timer = None]

Init ==
    /\ server = [s \in Session |-> "new"]
    /\ joined = None /\ token = None
    /\ hook = [NoHook EXCEPT !.at = "main"]
    /\ booted = FALSE /\ cooling = FALSE
    /\ calls = {}

\* clearClientState, and what follows from being in no room: the effect, and the
\* end of theatre mode, which mounts a new Sidebar.  h is the hook as its caller
\* leaves it, rest the calls still under way.
Cleared(h, rest) ==
    /\ joined' = None /\ token' = None
    /\ IF h.at = "main"
       THEN hook' = Settled(h, None, None) /\ calls' = rest
       ELSE hook' = [NoHook EXCEPT !.at = "main"] /\ calls' = {Orphaned(c) : c \in rest}
    /\ UNCHANGED booted

(***************************************************************************)
(* The server, joining, leaving, and what is mounted.                      *)
(***************************************************************************)
\* The lock of the session lapses or another page takes the identity; then the
\* session ends too, or it ends first.
Displaced(s) ==
    /\ server[s] = "live"
    /\ server' = [server EXCEPT ![s] = "displaced"]
    /\ UNCHANGED <<joined, token, hook, booted, cooling, calls>>

Expires(s) ==
    /\ server[s] \in {"live", "displaced"}
    /\ server' = [server EXCEPT ![s] = "dead"]
    /\ UNCHANGED <<joined, token, hook, booted, cooling, calls>>

\* The join form is there while the page is in no room.
Join(s) ==
    /\ joined = None
    /\ server[s] = "new" /\ \A r \in 1 .. s - 1 : server[r] # "new"
    /\ server' = [r \in Session |-> IF r = s THEN "live"
                                    ELSE IF server[r] = "live" THEN "displaced" ELSE server[r]]
    /\ joined' = s /\ token' = s
    /\ hook' = Settled(hook, s, s)
    /\ UNCHANGED <<booted, cooling, calls>>

\* leaveRoom tells the server first, if it has a token to tell it with.
Leave ==
    /\ joined # None /\ hook.at # "off"
    /\ IF token # None THEN Begin("leave", token, None) /\ UNCHANGED <<joined, token, hook, booted>>
       ELSE Cleared(hook, calls)
    /\ UNCHANGED <<server, cooling>>

\* The server has revoked the session, or the call was lost on its way there: the
\* page forgets the session all the same.
LeaveEnds(c) ==
    /\ c.kind = "leave"
    /\ server' \in {server, [server EXCEPT ![c.of] = "dead"]}
    /\ Cleared(hook, calls \ {c})
    /\ UNCHANGED cooling

\* The first hook that is mounted with a stored session outside theatre mode looks
\* whether it still holds: once in the life of a loaded page.
Boots(at, done) == at = "main" /\ InRoom /\ ~done

Mount(at, rest, done) ==
    LET fresh == Settled([NoHook EXCEPT !.at = at], joined, token) IN
    IF Boots(at, done)
    THEN /\ Cardinality(rest) < MaxCalls
         /\ hook' = [fresh EXCEPT !.status = "reconnecting", !.busy = TRUE]
         /\ calls' = rest \cup {[kind |-> "boot", of |-> token, restored |-> joined, mine |-> TRUE]}
         /\ booted' = TRUE
    ELSE hook' = fresh /\ calls' = rest /\ booted' = done

\* Entering and leaving theatre mode, opening and closing its drawer.
Move(at) ==
    /\ joined # None
    /\ <<hook.at, at>> \in {<<"main", "off">>, <<"off", "drawer">>, <<"drawer", "off">>,
                            <<"off", "main">>, <<"drawer", "main">>}
    /\ IF at = "off"
       THEN hook' = NoHook /\ calls' = {Orphaned(c) : c \in calls} /\ UNCHANGED booted
       ELSE Mount(at, {Orphaned(c) : c \in calls}, booted)
    /\ UNCHANGED <<server, joined, token, cooling>>

\* joined and token come back from localStorage, everything else is new.
Reload ==
    /\ Mount("main", {}, FALSE)
    /\ cooling' = FALSE
    /\ UNCHANGED <<server, joined, token>>

(***************************************************************************)
(* Heartbeats.                                                             *)
(***************************************************************************)
\* The interval of 20 s starts anew at every render of the Sidebar: it may fire at any
\* time, or never.
Beat ==
    /\ hook.at # "off" /\ InRoom
    /\ ~ \E c \in calls : c.kind = "beat" /\ c.mine
    /\ Begin("beat", token, None)
    /\ UNCHANGED <<server, joined, token, hook, booted, cooling>>

BeatOk(c) ==
    /\ c.kind = "beat" /\ server[c.of] = "live"
    /\ calls' = calls \ {c}
    /\ hook' = IF c.mine THEN [hook EXCEPT !.timer = None, !.status = "connected", !.logged = FALSE]
               ELSE hook
    /\ UNCHANGED <<server, joined, token, booted, cooling>>

\* scheduleSessionReconnect: with the token the heartbeat had.
Schedule(h, s) ==
    IF joined # None /\ ~h.busy /\ h.timer = None
    THEN [h EXCEPT !.status = "reconnecting", !.timer = s] ELSE h

\* Mutant: a failure is put on record and nothing more.
BeatFailsQuietly(c) ==
    /\ c.kind = "beat"
    /\ calls' = calls \ {c}
    /\ hook' = IF c.mine THEN [hook EXCEPT !.logged = TRUE] ELSE hook
    /\ UNCHANGED <<server, joined, token, booted, cooling>>

\* The first failure since the last success.  An unmounted hook sets a timer too.
BeatFails(c) ==
    /\ c.kind = "beat"
    /\ IF c.mine
       THEN /\ calls' = calls \ {c}
            /\ hook' = IF hook.logged THEN hook
                       ELSE Schedule([hook EXCEPT !.logged = TRUE], c.of)
       ELSE /\ calls' = IF c.restored = None THEN calls \ {c}
                        ELSE (calls \ {c}) \cup {[c EXCEPT !.kind = "wait"]}
            /\ UNCHANGED hook
    /\ UNCHANGED <<server, joined, token, booted, cooling>>

(***************************************************************************)
(* Reconnect attempts.                                                     *)
(***************************************************************************)
\* attemptSessionReconnect: not while one is under way.
Attempt(s) ==
    IF joined # None /\ s # None /\ ~hook.busy
    THEN /\ Begin("attempt", s, joined)
         /\ hook' = [hook EXCEPT !.timer = None, !.status = "reconnecting", !.busy = TRUE]
    ELSE hook' = [hook EXCEPT !.timer = None] /\ UNCHANGED calls

TimerFires ==
    /\ hook.timer # None
    /\ Attempt(hook.timer)
    /\ UNCHANGED <<server, joined, token, booted, cooling>>

\* The timer of an unmounted hook.
WaitEnds(c) ==
    /\ c.kind = "wait"
    /\ calls' = (calls \ {c}) \cup {[c EXCEPT !.kind = "attempt"]}
    /\ UNCHANGED <<server, joined, token, hook, booted, cooling>>

\* The two buttons shown while the page is not connected.
Retry ==
    /\ joined # None /\ hook.at # "off" /\ hook.status # "connected"
    /\ Attempt(token)
    /\ UNCHANGED <<server, joined, token, booted, cooling>>

Rejoin ==
    /\ joined # None /\ hook.at # "off" /\ hook.status # "connected"
    /\ Cleared([hook EXCEPT !.timer = None, !.status = "disconnected"], calls)
    /\ UNCHANGED <<server, cooling>>

\* The snapshot taken at the start is put back, with the new LiveKit token.
AttemptOk(c) ==
    /\ c.kind = "attempt" /\ server[c.of] = "live"
    /\ calls' = calls \ {c}
    /\ joined' = c.restored
    /\ hook' = IF c.mine THEN Settled([hook EXCEPT !.busy = FALSE, !.logged = FALSE,
                                                   !.status = "connected"], c.restored, token)
               ELSE Settled(hook, c.restored, token)
    /\ UNCHANGED <<server, token, booted, cooling>>

\* Mutant: the page is not told that the attempt failed.
AfterFailureUntold(c) == IF c.mine THEN [hook EXCEPT !.busy = FALSE] ELSE hook

\* Mutant: only a success ends the attempt.
AfterFailureBusy(c) == IF c.mine THEN [hook EXCEPT !.status = "disconnected"] ELSE hook

AfterFailure(c) == IF c.mine THEN [hook EXCEPT !.busy = FALSE, !.status = "disconnected"] ELSE hook

\* Only the answer that names the session ends it; any other failure leaves the
\* page in the room, disconnected.
AttemptFails(c) ==
    /\ c.kind = "attempt"
    /\ hook' = AfterFailure(c)
    /\ calls' = calls \ {c}
    /\ UNCHANGED <<server, joined, token, booted, cooling>>

AttemptRefused(c) ==
    /\ c.kind = "attempt" /\ server[c.of] = "dead"
    /\ Cleared(AfterFailure(c), calls \ {c})
    /\ UNCHANGED <<server, cooling>>

BootOk(c) ==
    /\ c.kind = "boot" /\ server[c.of] = "live"
    /\ calls' = calls \ {c}
    /\ joined' = c.restored
    /\ hook' = IF c.mine THEN Settled([hook EXCEPT !.busy = FALSE, !.status = "connected"],
                                      c.restored, token)
               ELSE Settled(hook, c.restored, token)
    /\ UNCHANGED <<server, token, booted, cooling>>

\* Here any failure ends the session.
BootFails(c) ==
    /\ c.kind = "boot"
    /\ Cleared(AfterFailure(c), calls \ {c})
    /\ UNCHANGED <<server, cooling>>

(***************************************************************************)
(* recoverLivekitSignal, which the Layout runs in any layout.              *)
(***************************************************************************)
Recover ==
    /\ InRoom /\ ~cooling
    /\ ~ \E c \in calls : c.kind = "recover"
    /\ Begin("recover", token, None)
    /\ cooling' = TRUE
    /\ UNCHANGED <<server, joined, token, hook, booted>>

\* joined becomes a new object, if the page is still in a room.
RecoverEnds(c) ==
    /\ c.kind = "recover"
    /\ calls' = calls \ {c}
    /\ hook' \in {hook} \cup (IF joined # None /\ server[c.of] = "live"
                              THEN {Settled(hook, joined, token)} ELSE {})
    /\ UNCHANGED <<server, joined, token, booted, cooling>>

CoolDown ==
    /\ cooling
    /\ cooling' = FALSE
    /\ UNCHANGED <<server, joined, token, hook, booted, calls>>

Ends(c) == \/ LeaveEnds(c) \/ BeatOk(c) \/ BeatFails(c) \/ WaitEnds(c)
           \/ AttemptOk(c) \/ AttemptFails(c) \/ AttemptRefused(c)
           \/ BootOk(c) \/ BootFails(c) \/ RecoverEnds(c)

Next ==
    \/ \E s \in Session : Displaced(s) \/ Expires(s) \/ Join(s)
    \/ Leave \/ Reload \/ \E at \in {"main", "drawer", "off"} : Move(at)
    \/ Beat \/ TimerFires \/ Retry \/ Rejoin \/ Recover \/ CoolDown
    \/ \E c \in calls : Ends(c)

Spec == Init /\ [][Next]_vars

\* Calls end, by an answer or by axios giving up after 12 s, and a countdown of 3 s that
\* nothing stops runs out.  (The fairness of TimerFires is strong because the bound on
\* calls, not the code, can keep the attempt from starting.)  Nothing makes the page
\* send a heartbeat, and nothing makes one succeed.
FairSpec ==
    /\ Spec
    /\ \A k \in Kinds, s \in Session, b \in BOOLEAN :
          WF_vars(\E c \in calls : c.kind = k /\ c.of = s /\ c.mine = b /\ Ends(c))
    /\ SF_vars(TimerFires)
-----------------------------------------------------------------------------
\* While a countdown to a reconnect runs the page shows a room, says that it is
\* reconnecting, and has no reconnect under way, however heartbeats, buttons,
\* leaving and the answers to earlier calls interleave.  (It may have no token
\* any more: see LeftStaysLeft.)
CountdownShown ==
    hook.timer # None => /\ joined # None /\ hook.at # "off"
                         /\ hook.status = "reconnecting" /\ ~hook.busy

\* A page does not go on saying that it is reconnecting: whatever heartbeats, timers,
\* buttons, layouts and late answers do meanwhile, and though no heartbeat need ever be
\* sent again, it is connected or disconnected again, or out of the room.
ReconnectingEnds ==
    (InRoom /\ hook.at # "off" /\ hook.status = "reconnecting")
        ~> ~(InRoom /\ hook.at # "off" /\ hook.status = "reconnecting")

\* A heartbeat that finds its session ended is followed up: if it is the first to fail
\* since the last success, the page drops the session or shows it as disconnected,
\* unless a change of layout, which mounts another hook, or another join gets in first.
FailureFollowedUp ==
    \A s \in Session, at \in {"main", "drawer"} :
        (/\ joined = s /\ token = s /\ hook.at = at /\ server[s] = "dead" /\ ~hook.logged
         /\ \E c \in calls : c.kind = "beat" /\ c.of = s /\ c.mine)
            ~> (joined # s \/ token # s \/ hook.at # at \/ hook.status = "disconnected")
-----------------------------------------------------------------------------
(* What the code does not keep.                                            *)

\* "Session refresh had to survive retries and concurrent actions" (README): the
\* answer to a call of one session does not bring the page back into a room it
\* has left, nor take it out of the room it has joined since.
LeftStaysLeft == [][(joined = None /\ joined' # None) => token' # None]_vars
StaleAnswersSpare ==
    [][\A c \in calls : (c \notin calls' /\ c.kind \in {"attempt", "boot"} /\ c.of # token)
            => joined' = joined]_vars

\* FailureFollowedUp without its condition.  A heartbeat that fails after the page has
\* left puts the failure on record, and as long as no heartbeat succeeds the end of the
\* session it joins next is not followed up.
EndFollowedUpAlways ==
    \A s \in Session, at \in {"main", "drawer"} :
        (/\ joined = s /\ token = s /\ hook.at = at /\ server[s] = "dead"
         /\ \E c \in calls : c.kind = "beat" /\ c.of = s /\ c.mine)
            ~> (joined # s \/ token # s \/ hook.at # at \/ hook.status = "disconnected")

\* A check after a reload that fails for another reason does not take the page out of
\* a session the server still has.
LiveSessionKept ==
    [][\A c \in calls : (c \notin calls' /\ c.kind = "boot" /\ c.of = token
                           /\ server[token] = "live" /\ token' = None) => FALSE]_vars
=============================================================================
