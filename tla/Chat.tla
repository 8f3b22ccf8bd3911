-------------------------------- MODULE Chat --------------------------------
(***************************************************************************)
(* The chat of one room: messages are rows of SQLite and are announced on  *)
(* a broadcast channel in the process (routes/chat.rs, insert_message and  *)
(* list_messages of services/storage.rs, chat_bus of state.rs).  One page  *)
(* reads it as useChatState.ts does: a list of the latest messages, an SSE *)
(* stream that starts with a backlog and goes on with what the channel     *)
(* carries, and a resync when the stream reports that it has lagged.       *)
(*                                                                         *)
(* Message ids are the AUTOINCREMENT ids, given out under the mutex of the *)
(* database connection, so the rows are 1 .. last.  The channel is tokio's *)
(* broadcast::channel: a log of which each receiver can read back the last *)
(* RingSize entries.  The other rooms' messages are filtered out and not   *)
(* modelled.                                                               *)
(***************************************************************************)
EXTENDS Naturals, Sequences, FiniteSets, FiniteSetsExt

CONSTANTS
    Writer,        \* the calls that create a message
    Own,           \* those of them made by the page itself
    RingSize,      \* capacity of the channel: 1024
    BacklogLimit,  \* messages a stream starts with: 200
    HistoryLimit   \* CHAT_HISTORY_LIMIT of the page: 80

ASSUME ChatAssumption == /\ IsFiniteSet(Writer) /\ Own \subseteq Writer
                         /\ {RingSize, BacklogLimit, HistoryLimit} \subseteq Nat \ {0}

VARIABLES
    last,     \* id of the newest row
    row,      \* the id each writer's row got
    wpc,      \* where each writer stands
    bus,      \* the ids broadcast so far
    ended,    \* the last id when the reader's session ended; NotEnded before
    stream,   \* the server's end of the page's stream
    page      \* the page: the messages it shows and its two list calls

vars == <<last, row, wpc, bus, ended, stream, page>>
writers == <<last, row, wpc, bus>>

Id == 1 .. Cardinality(Writer)
Cursor == 0 .. Cardinality(Writer)
NotEnded == Cardinality(Writer) + 1

\* What a stream has taken off the channel and not yet delivered: nothing, a
\* message, or the notice that it lagged.
Nothing == 0
Lagged == NotEnded

\* after is the cursor the live part filters by, opened the one asked for (history).
Closed == [at |-> "closed", after |-> 0, opened |-> 0, backlog |-> {}, from |-> 0, next |-> 0,
           held |-> Nothing, got |-> {}, lagged |-> FALSE]

TypeOK ==
    /\ last \in Cursor
    /\ row \in [Writer -> Cursor]
    /\ wpc \in [Writer -> {"idle", "verified", "inserted", "sent", "replied", "dropped"}]
    /\ bus \in Seq(Id) /\ Len(bus) <= last
    /\ ended \in Cursor \cup {NotEnded}
    /\ stream \in [at : {"closed", "verified", "listed", "live"}, after : Cursor,
                   opened : Cursor,
                   backlog : SUBSET Id, from : Cursor, next : Cursor,
                   held : {Nothing, Lagged} \cup Id, got : SUBSET Id,
                   lagged : BOOLEAN]
    /\ page \in [view : SUBSET Id, history : {"asked", "answered", "done"},
                 items : SUBSET Id, resync : {"no", "asked", "answered"},
                 after : Cursor, missed : SUBSET Id]

Init ==
    /\ last = 0
    /\ row = [w \in Writer |-> 0]
    /\ wpc = [w \in Writer |-> "idle"]
    /\ bus = <<>>
    /\ ended = NotEnded
    /\ stream = Closed
    /\ page = [view |-> {}, history |-> "asked", items |-> {}, resync |-> "no",
               after |-> 0, missed |-> {}]

InSession == ended = NotEnded

\* list_messages with a cursor: the first n rows after it.
Smallest(S, n) == {i \in S : Cardinality({j \in S : j <= i}) <= n}

\* list_messages without one: the latest n.  (They are picked by created_at,
\* taken just before the mutex; rows that race for it are taken in id order.)
Largest(S, n) == {i \in S : Cardinality({j \in S : j >= i}) <= n}

RowsAfter(c, n) == Smallest(c + 1 .. last, n)
LatestRows(n) == Largest(1 .. last, n)

\* lastMessageIdRef: the largest id on the page.
Shown == Max(page.view \cup {0})

(***************************************************************************)
(* create_message, and the agent's send_message: the row, the broadcast,   *)
(* the answer, which the page merges into its messages.                    *)
(***************************************************************************)
\* The session is verified first and may have ended by the time of the insert.
Verify(w) ==
    /\ wpc[w] = "idle"
    /\ w \in Own => InSession
    /\ wpc' = [wpc EXCEPT ![w] = "verified"]
    /\ UNCHANGED <<last, row, bus, ended, stream, page>>

Insert(w) ==
    /\ wpc[w] = "verified"
    /\ last' = last + 1
    /\ row' = [row EXCEPT ![w] = last']
    /\ wpc' = [wpc EXCEPT ![w] = "inserted"]
    /\ UNCHANGED <<bus, ended, stream, page>>

\* Mutant: the broadcast may be tried again.
SendAgain(w) ==
    /\ wpc[w] = "inserted"
    /\ bus' = Append(bus, row[w])
    /\ wpc' \in {wpc, [wpc EXCEPT ![w] = "sent"]}
    /\ UNCHANGED <<last, row, ended, stream, page>>

Send(w) ==
    /\ wpc[w] = "inserted"
    /\ bus' = Append(bus, row[w])
    /\ wpc' = [wpc EXCEPT ![w] = "sent"]
    /\ UNCHANGED <<last, row, ended, stream, page>>

Reply(w) ==
    /\ wpc[w] = "sent" /\ w \in Own
    /\ wpc' = [wpc EXCEPT ![w] = "replied"]
    /\ page' = [page EXCEPT !.view = @ \cup {row[w]}]
    /\ UNCHANGED <<last, row, bus, ended, stream>>

\* The handler returns early, or its future is dropped: the insert, which runs in
\* a blocking thread to its end, may have been made all the same.
DropWriter(w) ==
    /\ wpc[w] \in {"verified", "inserted"}
    /\ wpc' = [wpc EXCEPT ![w] = "dropped"]
    /\ UNCHANGED <<last, row, bus, ended, stream, page>>

(***************************************************************************)
(* stream_messages.                                                        *)
(***************************************************************************)
\* The page connects with its cursor; a session that has ended is refused.
StreamVerify ==
    /\ stream.at = "closed"
    /\ InSession
    /\ stream' = [stream EXCEPT !.at = "verified", !.after = Shown, !.opened = Shown]
    /\ UNCHANGED <<writers, ended, page>>

\* Mutant: the cursor is taken for the first id wanted.
StreamListFromNext ==
    /\ stream.at = "verified"
    /\ stream' = [stream EXCEPT !.at = "listed",
                                !.backlog = RowsAfter(stream.after + 1, BacklogLimit)]
    /\ UNCHANGED <<writers, ended, page>>

StreamList ==
    /\ stream.at = "verified"
    /\ stream' = [stream EXCEPT !.at = "listed",
                                !.backlog = RowsAfter(stream.after, BacklogLimit)]
    /\ UNCHANGED <<writers, ended, page>>

\* No await separates this from StreamList, but other threads run meanwhile.
StreamSubscribe ==
    /\ stream.at = "listed"
    /\ stream' = [stream EXCEPT !.at = "live", !.from = Len(bus), !.next = Len(bus)]
    /\ UNCHANGED <<writers, ended, page>>

\* The backlog is yielded in order, with no further look at the session.
YieldBacklog ==
    /\ stream.at = "live"
    /\ stream.backlog # {}
    /\ LET m == Min(stream.backlog) IN
         /\ stream' = [stream EXCEPT !.backlog = @ \ {m}]
         /\ page' = [page EXCEPT !.view = @ \cup {m}]
    /\ UNCHANGED <<writers, ended>>

Overrun == Len(bus) - stream.next > RingSize

\* recv: the next entry, or the notice that some are no longer there.
Receive ==
    /\ stream.at = "live" /\ stream.backlog = {} /\ stream.held = Nothing
    /\ stream.next < Len(bus)
    /\ LET m == bus[stream.next + 1] IN
         stream' = IF Overrun
                   THEN [stream EXCEPT !.next = Len(bus) - RingSize, !.held = Lagged]
                   ELSE [stream EXCEPT !.next = @ + 1,
                                       !.held = IF m > stream.after THEN m ELSE Nothing]
    /\ UNCHANGED <<writers, ended, page>>

\* onLagged: a resync from the cursor, unless one is under way.
LagNoticed == IF page.resync # "no" THEN page
              ELSE [page EXCEPT !.resync = "asked", !.after = Shown]

\* Mutants: the session is left to the timer; the cursor follows the stream.
DeliverUnchecked ==
    /\ stream.held # Nothing
    /\ IF stream.held = Lagged
       THEN /\ stream' = [stream EXCEPT !.held = Nothing, !.lagged = TRUE]
            /\ page' = LagNoticed
       ELSE /\ stream' = [stream EXCEPT !.held = Nothing, !.got = @ \cup {stream.held}]
            /\ page' = [page EXCEPT !.view = @ \cup {stream.held}]
    /\ UNCHANGED <<writers, ended>>
DeliverAdvancing ==
    /\ stream.held # Nothing
    /\ \/ /\ InSession /\ stream.held = Lagged
          /\ stream' = [stream EXCEPT !.held = Nothing, !.lagged = TRUE]
          /\ page' = LagNoticed
       \/ /\ InSession /\ stream.held # Lagged
          /\ stream' = [stream EXCEPT !.held = Nothing, !.got = @ \cup {stream.held},
                                      !.after = stream.held]
          /\ page' = [page EXCEPT !.view = @ \cup {stream.held}]
       \/ ~InSession /\ stream' = Closed /\ UNCHANGED page
    /\ UNCHANGED <<writers, ended>>

\* ensure_stream_session_active, then the event.
Deliver ==
    /\ stream.held # Nothing
    /\ \/ /\ InSession /\ stream.held = Lagged
          /\ stream' = [stream EXCEPT !.held = Nothing, !.lagged = TRUE]
          /\ page' = LagNoticed
       \/ /\ InSession /\ stream.held # Lagged
          /\ stream' = [stream EXCEPT !.held = Nothing, !.got = @ \cup {stream.held}]
          /\ page' = [page EXCEPT !.view = @ \cup {stream.held}]
       \/ ~InSession /\ stream' = Closed /\ UNCHANGED page
    /\ UNCHANGED <<writers, ended>>

\* auth_check_interval, between two entries; and the connection breaking.
AuthCheck ==
    /\ stream.at = "live" /\ stream.backlog = {} /\ stream.held = Nothing
    /\ ~InSession
    /\ stream' = Closed
    /\ UNCHANGED <<writers, ended, page>>

Break ==
    /\ stream.at # "closed"
    /\ stream' = Closed
    /\ UNCHANGED <<writers, ended, page>>

SessionEnds ==
    /\ InSession
    /\ ended' = last
    /\ UNCHANGED <<writers, stream, page>>

(***************************************************************************)
(* The page's list calls: the history it loads when it joins replaces what *)
(* it shows, the resync after a lag is merged.  Either may fail.           *)
(***************************************************************************)
HistoryList ==
    /\ page.history = "asked" /\ InSession
    /\ page' = [page EXCEPT !.history = "answered", !.items = LatestRows(HistoryLimit)]
    /\ UNCHANGED <<writers, ended, stream>>

HistoryApply ==
    /\ page.history = "answered"
    /\ page' = [page EXCEPT !.history = "done", !.items = {}, !.view = page.items]
    /\ UNCHANGED <<writers, ended, stream>>

ResyncList ==
    /\ page.resync = "asked" /\ InSession
    /\ page' = [page EXCEPT !.resync = "answered",
                            !.missed = IF page.after = 0 THEN LatestRows(HistoryLimit)
                                       ELSE RowsAfter(page.after, HistoryLimit)]
    /\ UNCHANGED <<writers, ended, stream>>

ResyncApply ==
    /\ page.resync = "answered"
    /\ page' = [page EXCEPT !.resync = "no", !.missed = {}, !.view = @ \cup page.missed]
    /\ UNCHANGED <<writers, ended, stream>>

ListFails ==
    /\ \/ page.history # "done" /\ page' = [page EXCEPT !.history = "done", !.items = {}]
       \/ page.resync # "no" /\ page' = [page EXCEPT !.resync = "no", !.missed = {}]
    /\ UNCHANGED <<writers, ended, stream>>

\* A reconnect or a rejoin of the session gives the page a new "joined": both
\* effects run again, and a resync under way is ignored.
Rejoined ==
    /\ InSession /\ page.history = "done"
    /\ page' = [page EXCEPT !.history = "asked", !.resync = "no", !.missed = {}]
    /\ stream' = Closed
    /\ UNCHANGED <<writers, ended>>

Write(w) == Verify(w) \/ Insert(w) \/ Send(w) \/ Reply(w) \/ DropWriter(w)
Serve == \/ StreamVerify \/ StreamList \/ StreamSubscribe \/ YieldBacklog
         \/ Receive \/ Deliver \/ AuthCheck
List == HistoryList \/ HistoryApply \/ ResyncList \/ ResyncApply \/ ListFails

Next == \/ \E w \in Writer : Write(w)
        \/ Serve \/ Break \/ SessionEnds
        \/ List \/ Rejoined

Spec == Init /\ [][Next]_vars

\* The stream's task runs.  Nothing is assumed of the page's calls, and a connection
\* may break at once, or never.
FairSpec == Spec /\ WF_vars(Serve)
-----------------------------------------------------------------------------
\* Whatever was broadcast since a stream subscribed is delivered, still ahead of
\* it, below the cursor it was opened with, or has been reported as a lag:
\* nothing is skipped in silence, in whatever order writers broadcast.
StreamSkipsNothing ==
    stream.at = "live" =>
        \A i \in stream.from + 1 .. stream.next :
            \/ bus[i] \in stream.got \cup {stream.held}
            \/ ~ (bus[i] > stream.opened)
            \/ stream.lagged \/ stream.held = Lagged

\* The live part of a stream delivers nothing written after the session of its
\* reader ended, although it checks the session by timer and by message only.
NothingAfterSession == \A m \in stream.got : m <= ended

\* What a connection owes the page: of the rows after the page's cursor those that
\* are there while the backlog is still to be read, as far as its limit goes, and
\* those announced since it subscribed.  (A row stored after the one and announced
\* before the other is owed by nobody: see NoHoleInView.)
Owed(m) ==
    /\ stream.opened < m
    /\ \/ stream.at = "verified" /\ m <= last /\ m <= stream.opened + BacklogLimit
       \/ stream.at = "live" /\ \E i \in stream.next + 1 .. Len(bus) : bus[i] = m

\* A message owed gets onto the page, however long the connection lives and in
\* whatever order writers insert and announce, unless the connection breaks first,
\* tells the page of a lag, or the session ends.
OwedArrives ==
    \A m \in Id : Owed(m) ~> (\/ m \in page.view
                              \/ stream.at = "closed" \/ stream.lagged
                              \/ ~InSession)

-----------------------------------------------------------------------------
(* What the code does not keep.                                            *)

\* Messages still on their way to the page.
OnItsWay == LET ahead == {bus[i] : i \in stream.next + 1 .. Len(bus)}
            IN  stream.backlog \cup ahead \cup {stream.held}
                  \cup {row[w] : w \in {x \in Writer : wpc[x] = "inserted"}}
                  \cup page.missed \cup page.items

\* A page whose calls have come to rest shows every message between the first
\* and the last it shows, or has it on its way: history and stream "agree with
\* each other" (README).  What is below the cursor is never asked for again.
NoHoleInView ==
    (stream.at = "live" /\ page.history = "done" /\ page.resync = "no" /\ page.view # {})
        => Min(page.view) .. Shown \subseteq page.view \cup OnItsWay
=============================================================================
