----------------------------- MODULE StagePage ------------------------------
(***************************************************************************)
(* The layout of one page (apps/frontend/src/components/Layout.tsx) over   *)
(* the media on the stage: theatre mode, the browser's fullscreen, chat    *)
(* focus and the two theatre drawers, and the effects by which they follow *)
(* what is published.  Who may publish is not decided here (StageRequest,  *)
(* Stage): a page publishes or does not, and what it publishes may end at  *)
(* any time.                                                               *)
(*                                                                         *)
(* A fullscreenchange event comes with the change, and with the end of the *)
(* call that asked for it.  What a render derives is an operator here.     *)
(***************************************************************************)
EXTENDS StageRoom

VARIABLES
    tracks,  \* what each page publishes
    ingress, \* an ingress participant is in the room
    viewer,  \* whose page it is; it does not change
    view,    \* the Layout's state, and whether the document is in fullscreen
    asks     \* the fullscreen calls under way, by what they are for: one of each at most

stage == <<inRoom, tracks, ingress>>
vars == <<stage, viewer, view, asks>>

View == [theater : BOOLEAN, dominant : BOOLEAN, control : BOOLEAN, chat : BOOLEAN,
         isFullscreen : BOOLEAN, document : BOOLEAN]

TypeOK ==
    /\ inRoom \subseteq Page /\ ingress \in BOOLEAN
    /\ tracks \in [Page -> SUBSET Feature]
    /\ \A p \in Page \ inRoom : tracks[p] = {}
    /\ viewer \in Page
    /\ view \in View
    /\ asks \subseteq {"enter", "exit", "focus"}

\* hasVisualMedia: a live video track, of anybody or of OBS.
Visual == viewer \in inRoom /\ (ingress \/ \E p \in inRoom : tracks[p] # {})

InTheatre == Visual /\ view.theater

\* The host and whoever shares keep out of the browser's fullscreen.
Capturing == viewer = Host \/ "screen_share" \in tracks[viewer]

Init ==
    /\ inRoom = {} /\ tracks = [p \in Page |-> {}] /\ ingress = FALSE
    /\ viewer \in Page
    /\ view = [theater |-> FALSE, dominant |-> FALSE, control |-> FALSE, chat |-> FALSE,
               isFullscreen |-> FALSE, document |-> FALSE]
    /\ asks = {}

(***************************************************************************)
(* The stage.                                                              *)
(***************************************************************************)
Connect(p) ==
    /\ p \notin inRoom
    /\ inRoom' = inRoom \cup {p}
    /\ UNCHANGED <<tracks, ingress>>

\* Leaving, or being handed a new token: the scene goes with all it has.
Disconnect(p) ==
    /\ p \in inRoom
    /\ inRoom' = inRoom \ {p}
    /\ tracks' = [tracks EXCEPT ![p] = {}]
    /\ UNCHANGED ingress

\* With OBS on the stage nobody starts to share.
Publish(p, f) ==
    /\ p \in inRoom /\ f \notin tracks[p]
    /\ f = "screen_share" => ~ingress
    /\ tracks' = Add(tracks, p, f)
    /\ UNCHANGED <<inRoom, ingress>>

\* By its own button, or because the server has taken the permission back.
Unpublish(p, f) ==
    /\ f \in tracks[p]
    /\ tracks' = Without(tracks, p, f)
    /\ UNCHANGED <<inRoom, ingress>>

Ingress ==
    /\ ingress' = ~ingress
    /\ UNCHANGED <<inRoom, tracks>>

StageNext ==
    \/ \E p \in Page : Connect(p) \/ Disconnect(p)
    \/ \E p \in Page, f \in Feature : Publish(p, f) \/ Unpublish(p, f)
    \/ Ingress

\* Mutant: nothing closes the drawers.
SettledOpen(v, visual) ==
    IF visual THEN v ELSE [v EXCEPT !.theater = FALSE, !.dominant = FALSE]

\* The effects of the Layout: no layout but the plain one without media, no drawer
\* outside the theatre.
Settled(v, visual) ==
    LET w == IF visual THEN v ELSE [v EXCEPT !.theater = FALSE, !.dominant = FALSE] IN
    IF w.theater THEN w ELSE [w EXCEPT !.control = FALSE, !.chat = FALSE]

\* The layout follows the stage; its effects run when there comes to be media or
\* comes to be none.
StageStep ==
    /\ StageNext
    /\ UNCHANGED <<viewer, asks>>
    /\ view' = IF Visual' # Visual THEN Settled(view, Visual') ELSE view

Show(v) == view' = Settled(v, TRUE)
OnlyView == UNCHANGED <<stage, viewer>>

(***************************************************************************)
(* toggleFullscreenStage.                                                  *)
(***************************************************************************)
FocusStage ==
    /\ Visual /\ Capturing
    /\ Show([view EXCEPT !.dominant = FALSE, !.theater = ~@])
    /\ UNCHANGED asks /\ OnlyView

AskEnter ==
    /\ Visual /\ ~Capturing /\ ~view.document
    /\ Show([view EXCEPT !.dominant = FALSE, !.theater = TRUE])
    /\ asks' = asks \cup {"enter"}
    /\ OnlyView

AskExit ==
    /\ Visual /\ ~Capturing /\ view.document
    /\ asks' = asks \cup {"exit"}
    /\ UNCHANGED view /\ OnlyView

Entered ==
    /\ "enter" \in asks
    /\ view' = [view EXCEPT !.document = TRUE, !.isFullscreen = TRUE]
    /\ asks' = asks \ {"enter"}
    /\ OnlyView

\* Refused, or there is no such thing: theatre mode stays; so does fullscreen when
\* the call was to end it.
Refused(kind) ==
    /\ kind \in asks \cap {"enter", "exit"}
    /\ asks' = asks \ {kind}
    /\ UNCHANGED view /\ OnlyView

\* onFullscreenChange when there is no fullscreen element any more.
Left == [view EXCEPT !.document = FALSE, !.isFullscreen = FALSE, !.theater = FALSE]

Exited ==
    /\ "exit" \in asks /\ view.document
    /\ view' = Settled(Left, Visual)
    /\ asks' = asks \ {"exit"}
    /\ OnlyView

\* The Escape key.
Escape ==
    /\ view.document
    /\ view' = Settled(Left, Visual)
    /\ UNCHANGED asks /\ OnlyView

(***************************************************************************)
(* toggleChatFocusLayout and the drawers.                                  *)
(***************************************************************************)
Unfocus ==
    /\ Visual /\ view.dominant
    /\ view' = [view EXCEPT !.dominant = FALSE]
    /\ UNCHANGED asks /\ OnlyView

Focused(v) == [v EXCEPT !.isFullscreen = FALSE, !.theater = FALSE, !.dominant = TRUE]

Focus ==
    /\ Visual /\ ~view.dominant
    /\ IF view.document /\ ~Capturing
       THEN asks' = asks \cup {"focus"} /\ UNCHANGED view
       ELSE Show(Focused(view)) /\ UNCHANGED asks
    /\ OnlyView

\* Fullscreen is left, or it is not: the chat gets the page all the same, even if
\* by now there is nothing on the stage.
FocusGoesOn ==
    /\ "focus" \in asks
    /\ \E v \in {view} \cup (IF view.document THEN {Left} ELSE {}) :
          LET w == Focused(v) IN view' = [w EXCEPT !.control = FALSE, !.chat = FALSE]
    /\ asks' = asks \ {"focus"}
    /\ OnlyView

ToggleControl ==
    /\ InTheatre
    /\ view' = [view EXCEPT !.control = ~@, !.chat = @ /\ view.control]
    /\ UNCHANGED asks /\ OnlyView

ToggleChat ==
    /\ InTheatre
    /\ view' = [view EXCEPT !.chat = ~@, !.control = @ /\ view.chat]
    /\ UNCHANGED asks /\ OnlyView

Next ==
    \/ StageStep
    \/ FocusStage \/ AskEnter \/ AskExit \/ Entered \/ Exited \/ Escape
    \/ \E kind \in {"enter", "exit"} : Refused(kind)
    \/ Unfocus \/ Focus \/ FocusGoesOn \/ ToggleControl \/ ToggleChat

Spec == Init /\ [][Next]_vars
-----------------------------------------------------------------------------
\* However clicks, the browser's answers and the media on the stage interleave:
\* theatre and chat focus exclude each other, at most one drawer is open, and only
\* over the theatre, and the page does not offer to leave a fullscreen it is not in.
OneLayout ==
    /\ ~(InTheatre /\ view.dominant)
    /\ view.control \/ view.chat => InTheatre
    /\ ~(view.control /\ view.chat)
    /\ view.isFullscreen => view.document
-----------------------------------------------------------------------------
(* What the code does not keep.                                            *)

\* "Never use browser fullscreen API for host/local share to avoid capture
\* interruptions" (Layout.tsx): a page in fullscreen may start to share, and no
\* button of it leaves the fullscreen then.
CaptureNotFullscreen == ~(view.document /\ Capturing)
=============================================================================
