------------------------------ MODULE ChatView ------------------------------
(***************************************************************************)
(* The chat as one page shows and writes it: the rows of its list, which   *)
(* its own sends (ChatPanel.tsx, Layout.tsx), the copies other pages send  *)
(* over LiveKit's data channel, the event stream and the history calls     *)
(* (useChatState.ts) all change.  The server is its table of messages and  *)
(* the requests still on their way to it: what a stream may skip is the    *)
(* business of module Chat, and this one delivers every row in order.      *)
(*                                                                         *)
(* A message is its client_id.  A submitted text is the client_id it was   *)
(* first sent under; a retry takes a fresh client_id for the same text.    *)
(* The list and the stream live in the Sidebar, the composer in the        *)
(* ChatPanel, and what of them is mounted is the layout's: both outside    *)
(* theatre mode, in it at most one of the two drawers.                     *)
(* (The composer inside the Sidebar is never shown: hideDesktopChat is     *)
(* always passed.  The drawer's two Sidebars, one for each screen width,   *)
(* do the same thing twice; one is modelled.)                              *)
(***************************************************************************)
EXTENDS Naturals, SequencesExt, FiniteSetsExt

CONSTANTS
    Drawn,  \* the client_ids this page may draw, in the order it draws them
    Peer,   \* the messages of others
    Load    \* the history calls that may be under way at once

ASSUME ChatViewAssumption ==
    Drawn \subseteq Nat \ {0} /\ Peer \subseteq Nat \ {0} /\ Drawn \cap Peer = {}

VARIABLES
    stored,   \* the client_ids of the server's rows: the id of a row is its place
    inbox,    \* the requests that may still reach the server
    copies,   \* the copy of each peer's message on the data channel
    call,     \* the page's own sends
    draft,    \* the text in the ChatPanel
    view,     \* the rows shown; their order is left out
    latest,   \* lastRealtimeChat
    joined,   \* whether the page is in the room
    layout,   \* what of Sidebar and ChatPanel is mounted
    events,   \* whether the stream is open, and how far it has delivered
    loads,    \* the history calls: what their answer holds
    erased    \* the submitted texts an overwritten or emptied list has dropped

viewVars == <<stored, inbox, copies, call, draft, view, latest, joined, layout, events,
          loads, erased>>
server == <<stored, inbox>>
place == <<joined, layout>>
feeds == <<latest, events, loads>>

Client == Drawn \cup Peer
None == 0
Typed == Max(Client) + 1     \* a draft not yet submitted

HasHook(l) == l \in {"room", "control"}
HasPanel(l) == l \in {"room", "chat"}

ViewTypeOK ==
    /\ stored \in Seq(Client) /\ IsInjective(stored)
    /\ inbox \subseteq Client
    /\ copies \in [Peer -> {"unsent", "flying", "gone"}]
    /\ call \in [Drawn -> [at : {"unused", "publish", "post", "done"},
                         text : Drawn \cup {None}, awaited : BOOLEAN]]
    /\ draft \in {None, Typed} \cup Drawn
    /\ view \subseteq [client : Client, id : 0 .. Len(stored), state : {"pending", "failed", "sent"}]
    /\ latest \in Peer \cup {None}
    /\ joined \in BOOLEAN
    /\ layout \in {"room", "bare", "control", "chat"}
    /\ ~joined => layout = "room"
    /\ events \in [open : BOOLEAN, pos : 0 .. Len(stored)]
    /\ events.open => joined /\ HasHook(layout)
    /\ loads \in [Load -> [at : {"idle", "asked", "read"}, n : 0 .. Len(stored)]]
    /\ erased \subseteq Drawn

Shut == [open |-> FALSE, pos |-> 0]
Idle == [at |-> "idle", n |-> 0]

ViewInit ==
    /\ stored = <<>> /\ inbox = {}
    /\ copies = [p \in Peer |-> "unsent"]
    /\ call = [c \in Drawn |-> [at |-> "unused", text |-> None, awaited |-> FALSE]]
    /\ draft = None
    /\ view = {} /\ latest = None
    /\ joined = FALSE /\ layout = "room"
    /\ events = Shut
    /\ loads = [l \in Load |-> Idle]
    /\ erased = {}

\* A row not answered for has a negative id, which is no row's of the server: 0.
Copy(c) == [client |-> c, id |-> 0, state |-> "pending"]
StoredRow(i) == [client |-> stored[i], id |-> i, state |-> "sent"]
Newest == Max({r.id : r \in view} \cup {0})

\* Mutant: a row is looked up by its id alone.
MergeById(rows, r) == {x \in rows : r.id = 0 \/ x.id # r.id} \cup {r}

\* mergeMessages: the row of the same client_id is replaced, or else the one of
\* the same id; with neither, the row is added.
Merge(rows, r) ==
    LET same == {x \in rows : x.client = r.client}
        hit == IF same # {} THEN same ELSE {x \in rows : r.id > 0 /\ x.id = r.id}
    IN  (rows \ hit) \cup {r}

\* upsertMessage of the Layout does the same.
Upsert(rows, r) == Merge(rows, r)

\* The own texts of these rows that the server has not confirmed.
Unsent(rows) == {call[r.client].text : r \in {x \in rows : x.client \in Drawn /\ x.state # "sent"}}

(***************************************************************************)
(* Sends.                                                                  *)
(***************************************************************************)
Fresh == {c \in Drawn : call[c].at = "unused"}
Sending == \E c \in Drawn : call[c].awaited

Type ==
    /\ HasPanel(layout)
    /\ draft' = Typed
    /\ UNCHANGED <<server, copies, call, view, place, feeds, erased>>

\* ChatPanel's send starts handleSendChat, one at a time.
Submit ==
    /\ HasPanel(layout) /\ joined
    /\ draft # None /\ ~Sending
    /\ Fresh # {}
    /\ LET c == Min(Fresh)
           t == IF draft = Typed THEN c ELSE draft
       IN  /\ call' = [call EXCEPT ![c] = [at |-> "publish", text |-> t, awaited |-> TRUE]]
           /\ view' = Upsert(view, Copy(c))
    /\ draft' = None
    /\ UNCHANGED <<server, copies, place, feeds, erased>>

\* An own row that failed has a button to send it again.
CanRetry(r) == HasPanel(layout) /\ joined /\ r.client \in Drawn /\ r.state = "failed"

\* retryFailedChatMessage: the row keeps its id.
Retry(r) ==
    /\ CanRetry(r)
    /\ Fresh # {}
    /\ LET c == Min(Fresh) IN
         /\ call' = [call EXCEPT ![c] = [at |-> "publish", text |-> call[r.client].text,
                                         awaited |-> FALSE]]
         /\ view' = (view \ {r}) \cup {[client |-> c, id |-> r.id, state |-> "pending"]}
    /\ UNCHANGED <<server, copies, draft, place, feeds, erased>>

\* The copy for the others is out, or an error of the data channel is logged:
\* POST /messages follows either way.
Post(c) ==
    /\ call[c].at = "publish"
    /\ call' = [call EXCEPT ![c].at = "post"]
    /\ inbox' = inbox \cup {c}
    /\ UNCHANGED <<stored, copies, draft, view, place, feeds, erased>>

\* Mutant: the row is left to the stream.
AnswerUnread(c) ==
    /\ call[c].at = "post" /\ c \in Range(stored)
    /\ call' = [call EXCEPT ![c].at = "done", ![c].awaited = FALSE]
    /\ UNCHANGED <<server, copies, draft, view, place, feeds, erased>>

\* The answer, merged whether or not the page is still in the room.
Answer(c) ==
    /\ call[c].at = "post"
    /\ \E i \in DOMAIN stored : stored[i] = c /\ view' = Upsert(view, StoredRow(i))
    /\ call' = [call EXCEPT ![c].at = "done", ![c].awaited = FALSE]
    /\ UNCHANGED <<server, copies, draft, place, feeds, erased>>

\* Mutant: a failed row is taken off the list.
FailUnmarked(c) ==
    /\ call[c].at = "post"
    /\ view' = {r \in view : r.client # c}
    /\ call' = [call EXCEPT ![c].at = "done", ![c].awaited = FALSE]
    /\ draft' = IF call[c].awaited THEN call[c].text ELSE draft
    /\ UNCHANGED <<server, copies, place, feeds, erased>>

\* A refusal, a lost answer or the timeout of 12 s.  The row is marked failed;
\* the panel of a first send, if still mounted, takes the text back as its draft.
Fail(c) ==
    /\ call[c].at = "post"
    /\ view' = {IF r.client = c THEN [r EXCEPT !.state = "failed"] ELSE r : r \in view}
    /\ call' = [call EXCEPT ![c].at = "done", ![c].awaited = FALSE]
    /\ draft' = IF call[c].awaited THEN call[c].text ELSE draft
    /\ UNCHANGED <<server, copies, place, feeds, erased>>

(***************************************************************************)
(* The server, and the other pages.                                        *)
(***************************************************************************)
Store(c) ==
    /\ c \in inbox
    /\ stored' = Append(stored, c)
    /\ inbox' = inbox \ {c}
    /\ UNCHANGED <<copies, call, draft, view, place, feeds, erased>>

Refuse(c) ==
    /\ c \in inbox
    /\ inbox' = inbox \ {c}
    /\ UNCHANGED <<stored, copies, call, draft, view, place, feeds, erased>>

PeerSends(p) ==
    /\ copies[p] = "unsent"
    /\ inbox' = inbox \cup {p}
    /\ copies' = [copies EXCEPT ![p] = "flying"]
    /\ UNCHANGED <<stored, call, draft, view, place, feeds, erased>>

\* The copy never comes, or comes with another one in the same render.
CopyLost(p) ==
    /\ copies[p] = "flying"
    /\ copies' = [copies EXCEPT ![p] = "gone"]
    /\ UNCHANGED <<server, call, draft, view, place, feeds, erased>>

\* lastRealtimeChat is kept by the Layout and merged by the Sidebar.
CopyArrives(p) ==
    /\ copies[p] = "flying" /\ joined
    /\ copies' = [copies EXCEPT ![p] = "gone"]
    /\ latest' = p
    /\ view' = IF HasHook(layout) THEN Merge(view, Copy(p)) ELSE view
    /\ UNCHANGED <<server, call, draft, place, events, loads, erased>>

(***************************************************************************)
(* The stream, and the history.                                            *)
(***************************************************************************)
Connect ==
    /\ joined /\ HasHook(layout) /\ ~events.open
    /\ events' = [open |-> TRUE, pos |-> Newest]
    /\ UNCHANGED <<server, copies, call, draft, view, place, latest, loads, erased>>

EventArrives ==
    /\ events.open /\ events.pos < Len(stored)
    /\ events' = [events EXCEPT !.pos = @ + 1]
    /\ view' = Merge(view, StoredRow(events.pos + 1))
    /\ UNCHANGED <<server, copies, call, draft, place, latest, loads, erased>>

EventsBreak ==
    /\ events.open
    /\ events' = Shut
    /\ UNCHANGED <<server, copies, call, draft, view, place, latest, loads, erased>>

HistoryRead(l) ==
    /\ loads[l].at = "asked"
    /\ loads' = [loads EXCEPT ![l] = [at |-> "read", n |-> Len(stored)]]
    /\ UNCHANGED <<server, copies, call, draft, view, place, latest, events, erased>>

\* The answer takes the place of the list, even that of an unmounted Sidebar.
HistoryArrives(l) ==
    /\ loads[l].at = "read"
    /\ view' = {StoredRow(i) : i \in 1 .. loads[l].n}
    /\ erased' = erased \cup Unsent(view)
    /\ loads' = [loads EXCEPT ![l] = Idle]
    /\ UNCHANGED <<server, copies, call, draft, place, latest, events>>

HistoryFails(l) ==
    /\ loads[l].at # "idle"
    /\ loads' = [loads EXCEPT ![l] = Idle]
    /\ UNCHANGED <<server, copies, call, draft, view, place, latest, events, erased>>

(***************************************************************************)
(* Joining, leaving, and the layout.  Effects run when the page has joined *)
(* with a new answer or a Sidebar is mounted: a history call, a new        *)
(* stream, the last copy once more.                                        *)
(***************************************************************************)
IdleLoads == {l \in Load : loads[l].at = "idle"}

EffectsRun ==
    /\ IdleLoads # {}
    /\ \E l \in IdleLoads : loads' = [loads EXCEPT ![l] = [at |-> "asked", n |-> 0]]
    /\ events' = [open |-> TRUE, pos |-> Newest]
    /\ view' = IF latest # None THEN Merge(view, Copy(latest)) ELSE view

\* A join by the form, and every reconnect: the answer is a new object.
Join ==
    /\ joined' = TRUE
    /\ IF HasHook(layout) THEN EffectsRun ELSE UNCHANGED <<loads, events, view>>
    /\ UNCHANGED <<server, copies, call, draft, latest, layout, erased>>

\* Mutant: nobody closes the stream.
LeaveStreaming ==
    /\ joined
    /\ joined' = FALSE /\ layout' = "room"
    /\ view' = {} /\ erased' = erased \cup Unsent(view)
    /\ IF layout = "room" THEN UNCHANGED <<call, draft>>
       ELSE /\ draft' = None
            /\ call' = [c \in Drawn |-> [call[c] EXCEPT !.awaited = FALSE]]
    /\ UNCHANGED <<server, copies, feeds>>

\* leaveRoom empties the list; theatre mode ends with joined.
Leave ==
    /\ joined
    /\ joined' = FALSE /\ layout' = "room"
    /\ view' = {} /\ erased' = erased \cup Unsent(view)
    /\ events' = Shut
    /\ IF layout = "room" THEN UNCHANGED <<call, draft>>
       ELSE /\ draft' = None
            /\ call' = [c \in Drawn |-> [call[c] EXCEPT !.awaited = FALSE]]
    /\ UNCHANGED <<server, copies, latest, loads>>

\* Theatre mode and its drawers: what is mounted is another Sidebar and another
\* ChatPanel every time.
Move(l) ==
    /\ joined /\ l # layout
    /\ {layout, l} \in {{"room", "bare"}, {"bare", "control"}, {"bare", "chat"}, {"control", "chat"}}
         \/ l = "room"
    /\ layout' = l
    /\ draft' = None
    /\ call' = [c \in Drawn |-> [call[c] EXCEPT !.awaited = FALSE]]
    /\ IF HasHook(l) THEN EffectsRun
       ELSE events' = Shut /\ UNCHANGED <<loads, view>>
    /\ UNCHANGED <<server, copies, latest, joined, erased>>

PageSends == \/ Type \/ Submit
             \/ \E r \in view : Retry(r)
             \/ \E c \in Drawn : Post(c) \/ Answer(c) \/ Fail(c)
Elsewhere == \/ \E c \in Client : Store(c) \/ Refuse(c)
             \/ \E p \in Peer : PeerSends(p) \/ CopyLost(p) \/ CopyArrives(p)
Feed == \/ Connect \/ EventArrives \/ EventsBreak
        \/ \E l \in Load : HistoryRead(l) \/ HistoryArrives(l) \/ HistoryFails(l)
Place == Join \/ Leave \/ \E l \in {"room", "bare", "control", "chat"} : Move(l)

ViewNext == PageSends \/ Elsewhere \/ Feed \/ Place

ViewSpec == ViewInit /\ [][ViewNext]_viewVars

\* Publishing on the data channel ends, and axios gives every call up after 12 s.
FairView == ViewSpec /\ \A c \in Drawn : WF_viewVars(Post(c)) /\ WF_viewVars(Answer(c) \/ Fail(c))
-----------------------------------------------------------------------------
\* No message is shown twice, although its rows come from the composer, the data
\* channel, the answer, the stream and the history in any order, and a retry
\* renames a row that the stream may just have delivered.
OneRowPerMessage ==
    \A r1, r2 \in view :
        (r1.client = r2.client \/ (r1.id = r2.id /\ r1.id > 0)) => r1 = r2

\* A text once submitted is with the server or shown (as pending, or failed with
\* a way to send it again), unless a history answer or leaving the room has
\* dropped its row: no merge of another row, no retry and no failure loses it.
SubmittedNotLost ==
    \A c \in Drawn : call[c].at # "unused" =>
        LET same == {d \in Drawn : call[d].text = call[c].text} IN
            \/ same \cap Range(stored) # {}
            \/ \E r \in view : r.client \in same
            \/ call[c].text \in erased

\* An own row does not stay pending: its send ends, and the end finds the row,
\* whatever the stream, a retry or a reconnection made of it meanwhile.
OwnRowsSettle ==
    \A c \in Drawn : (\E r \in view : r.client = c /\ r.state = "pending")
                     ~> ~(\E r \in view : r.client = c /\ r.state = "pending")
-----------------------------------------------------------------------------
(* What the code does not keep.                                            *)

\* "Retry-safe writes" (README): a text is stored once, however often it is sent
\* again.  A retry takes a fresh client_id, and the server does not compare them.
RetrySafeWrites ==
    \A i, j \in DOMAIN stored :
        (stored[i] \in Drawn /\ stored[j] \in Drawn /\ call[stored[i]].text = call[stored[j]].text)
            => i = j
=============================================================================
