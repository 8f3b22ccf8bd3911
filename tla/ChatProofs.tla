----------------------------- MODULE ChatProofs -----------------------------
(***************************************************************************)
(* Proofs about Chat, for any finite set of writers and any limits: what a *)
(* stream delivers, what it owes its reader, and the types.  The cursor a  *)
(* page asks for is a maximum of what it shows; what the stream owes does  *)
(* not depend on its value, only on the stream filtering by it.            *)
(*                                                                         *)
(* The second part is about ChatView, the list such a stream ends in: a    *)
(* specification of its own, whose names are apart from those of Chat.     *)
(***************************************************************************)
EXTENDS Chat, ChatView, FiniteSetTheorems, TLAPS

\* The ids: one per writer with a row, and those in use never beyond last.
Written == {w \in Writer : row[w] # 0}

RowsInv ==
    /\ last \in Nat /\ last = Cardinality(Written)
    /\ row \in [Writer -> 0 .. last]
    /\ \A w \in Writer : /\ wpc[w] \in {"idle", "verified"} => row[w] = 0
                         /\ wpc[w] = "inserted" => row[w] # 0

WriterState == {"idle", "verified", "inserted", "sent", "replied", "dropped"}

\* Where each writer stands, and the channel as a log of rows.
BusInv ==
    /\ wpc \in [Writer -> WriterState]
    /\ bus \in Seq(Nat)
    /\ \A i \in 1 .. Len(bus) : bus[i] \in 1 .. last

\* The fields of the reader's stream, and what it has read of the log.
StreamShape ==
    stream = [at |-> stream.at, after |-> stream.after, opened |-> stream.opened,
              backlog |-> stream.backlog, from |-> stream.from, next |-> stream.next,
              held |-> stream.held, got |-> stream.got, lagged |-> stream.lagged]

ReadInv ==
    /\ stream.lagged \in BOOLEAN
    /\ stream.at # "closed" => stream.opened = stream.after
    /\ stream.from \in Nat /\ stream.next \in Nat
    /\ stream.from <= stream.next /\ stream.next <= Len(bus)
    /\ stream.held \in {Nothing, Lagged} \cup 1 .. last
    /\ stream.at # "live" => stream.held = Nothing

\* Before the session ends nothing delivered is beyond last, afterwards nothing
\* delivered is beyond where it ended.
GotInv ==
    /\ ended \in Nat
    /\ \A m \in stream.got : m \in 1 .. last /\ m <= ended

IInv == RowsInv /\ BusInv /\ StreamShape /\ ReadInv /\ GotInv /\ StreamSkipsNothing
-----------------------------------------------------------------------------
\* The rows are no more than the writers, so an id is never the mark of a lag nor
\* beyond the mark of a session that has not ended.
LEMMA RowsBounded ==
    ASSUME RowsInv
    PROVE  /\ NotEnded \in Nat /\ last < NotEnded
           /\ IsFiniteSet(Written)
  <1>1. IsFiniteSet(Writer) /\ Written \in SUBSET Writer
    BY ChatAssumption DEF Written
  <1>2. Cardinality(Writer) \in Nat /\ Cardinality(Written) <= Cardinality(Writer)
        /\ IsFiniteSet(Written)
    BY <1>1, FS_CardinalityType, FS_Subset
  <1>3. QED
    BY <1>2 DEF RowsInv, NotEnded

\* A step that leaves the writers alone leaves their part of the invariant alone.
LEMMA WritersKept ==
    ASSUME RowsInv, BusInv, UNCHANGED writers
    PROVE  RowsInv' /\ BusInv'
  BY DEF writers, RowsInv, BusInv, Written

\* A step that only adds rows, or entries to the channel, disturbs nothing the
\* stream has read.
LEMMA StreamKept ==
    ASSUME StreamShape, ReadInv, GotInv, StreamSkipsNothing, RowsInv, BusInv,
           UNCHANGED <<ended, stream>>, last' \in Nat, last <= last', BusInv',
           Len(bus) <= Len(bus'), \A i \in 1 .. Len(bus) : bus'[i] = bus[i]
    PROVE  StreamShape' /\ ReadInv' /\ GotInv' /\ StreamSkipsNothing'
  <1>1. StreamShape'
    BY DEF StreamShape
  <1>2. ReadInv'
    BY DEF ReadInv, RowsInv, BusInv, Nothing, Lagged, NotEnded
  <1>3. GotInv'
    BY DEF GotInv, RowsInv
  <1>4. StreamSkipsNothing'
    <2>1. ASSUME NEW i \in stream.from + 1 .. stream.next
          PROVE  bus'[i] = bus[i]
      <3>1. /\ stream.from \in Nat /\ stream.next \in Nat
            /\ stream.next <= Len(bus) /\ Len(bus) \in Nat
        BY DEF ReadInv, BusInv
      <3>2. i \in 1 .. Len(bus)
        BY ONLY <2>1, <3>1
      <3>3. QED
        BY <3>2
    <2>2. QED
      BY <2>1 DEF StreamSkipsNothing, Lagged, NotEnded
  <1>5. QED
    BY <1>1, <1>2, <1>3, <1>4

\* A stream that is closed, or that has not begun to read, has nothing to answer for.
LEMMA StreamClosed ==
    ASSUME GotInv, RowsInv, BusInv, UNCHANGED <<writers, ended>>, stream' = Closed
    PROVE  StreamShape' /\ ReadInv' /\ GotInv' /\ StreamSkipsNothing'
  BY DEF StreamShape, ReadInv, GotInv, StreamSkipsNothing, RowsInv, BusInv, writers,
         Closed, Nothing

LEMMA InitInv ==
    ASSUME Init
    PROVE  IInv
  <1>1. Written = {} /\ NotEnded \in Nat
    BY ChatAssumption, FS_CardinalityType DEF Init, Written, NotEnded
  <1>2. RowsInv
    BY <1>1, FS_EmptySet DEF Init, RowsInv
  <1>3. BusInv
    BY DEF Init, BusInv, WriterState
  <1>4. StreamShape /\ ReadInv /\ GotInv /\ StreamSkipsNothing
    BY <1>1 DEF Init, StreamShape, ReadInv, GotInv, StreamSkipsNothing, Closed, Nothing
  <1>5. QED
    BY <1>2, <1>3, <1>4 DEF IInv
-----------------------------------------------------------------------------
LEMMA InsertRows ==
    ASSUME IInv, NEW w \in Writer, Insert(w)
    PROVE  RowsInv' /\ BusInv' /\ last' = last + 1
  <1>1. row[w] = 0 /\ last \in Nat /\ last' = last + 1 /\ last' # 0
    BY DEF IInv, RowsInv, Insert
  <1>2. Written' = Written \cup {w} /\ w \notin Written
    BY <1>1 DEF IInv, RowsInv, Insert, Written
  <1>3. Cardinality(Written') = Cardinality(Written) + 1
    BY <1>2, RowsBounded, FS_AddElement DEF IInv
  <1>4. RowsInv'
    BY <1>1, <1>3 DEF IInv, RowsInv, BusInv, Insert
  <1>5. BusInv'
    BY <1>1 DEF IInv, BusInv, Insert, WriterState
  <1>6. QED
    BY <1>1, <1>4, <1>5

LEMMA SendRows ==
    ASSUME IInv, NEW w \in Writer, Send(w)
    PROVE  /\ RowsInv' /\ BusInv'
           /\ Len(bus) <= Len(bus')
           /\ \A i \in 1 .. Len(bus) : bus'[i] = bus[i]
  <1>1. row[w] \in 1 .. last /\ bus \in Seq(Nat) /\ bus' = Append(bus, row[w])
        /\ last' = last /\ last \in Nat
    BY DEF IInv, RowsInv, BusInv, Send
  <1>2. bus' \in Seq(Nat) /\ Len(bus') = Len(bus) + 1 /\ Len(bus) \in Nat
        /\ bus'[Len(bus) + 1] = row[w]
        /\ \A i \in 1 .. Len(bus) : bus'[i] = bus[i]
    BY <1>1
  <1>3. wpc' \in [Writer -> WriterState]
    BY DEF IInv, BusInv, Send, WriterState
  <1>4. BusInv'
    BY <1>1, <1>2, <1>3 DEF IInv, BusInv
  <1>5. RowsInv'
    BY DEF IInv, RowsInv, BusInv, Written, Send
  <1>6. QED
    BY <1>2, <1>4, <1>5

\* A writer's step.
LEMMA WriteInv ==
    ASSUME IInv, NEW w \in Writer, Write(w)
    PROVE  IInv'
  <1>1. CASE Verify(w) \/ Reply(w) \/ DropWriter(w)
    <2>1. RowsInv' /\ BusInv'
      BY <1>1 DEF IInv, RowsInv, BusInv, WriterState, Written, Verify, Reply, DropWriter
    <2>2. QED
      BY <1>1, <2>1, StreamKept DEF IInv, RowsInv, BusInv, Verify, Reply, DropWriter
  <1>2. CASE Insert(w)
    <2>1. RowsInv' /\ BusInv' /\ last' = last + 1 /\ UNCHANGED <<bus, ended, stream>>
      BY <1>2, InsertRows DEF Insert
    <2>2. QED
      BY <2>1, StreamKept DEF IInv, RowsInv, BusInv
  <1>3. CASE Send(w)
    <2>1. UNCHANGED <<last, ended, stream>>
      BY <1>3 DEF Send
    <2>2. QED
      BY <1>3, <2>1, SendRows, StreamKept DEF IInv, RowsInv
  <1>4. QED
    BY <1>1, <1>2, <1>3 DEF Write

\* A step of the reader's stream short of closing.
LEMMA StreamInv ==
    ASSUME IInv, Serve, stream' # Closed
    PROVE  IInv'
  <1>1. RowsInv' /\ BusInv' /\ UNCHANGED <<writers, ended>>
    BY WritersKept DEF IInv, Serve, StreamVerify, StreamList, StreamSubscribe,
       YieldBacklog, Receive, Deliver, AuthCheck
  <1>2. NotEnded \in Nat /\ last < NotEnded /\ last \in Nat
        /\ UNCHANGED <<last, row, wpc, bus, ended>>
        /\ bus \in Seq(Nat) /\ Len(bus) \in Nat
        /\ \A i \in 1 .. Len(bus) : bus[i] \in 1 .. last
    BY <1>1, RowsBounded DEF IInv, writers, RowsInv, BusInv
  <1>3. CASE StreamVerify \/ StreamList \/ YieldBacklog
    <2>1. StreamShape' /\ ReadInv'
      BY <1>2, <1>3 DEF IInv, StreamShape, ReadInv, StreamVerify, StreamList,
         YieldBacklog, Nothing, Lagged
    <2>2. GotInv' /\ StreamSkipsNothing'
      BY <1>2, <1>3 DEF IInv, StreamShape, GotInv, StreamSkipsNothing, StreamVerify,
         StreamList, YieldBacklog
    <2>3. QED
      BY <1>1, <2>1, <2>2 DEF IInv
  <1>4. CASE StreamSubscribe
    <2>1. /\ StreamShape' /\ stream.at = "listed" /\ stream'.at = "live"
          /\ stream'.from = Len(bus) /\ stream'.next = Len(bus)
          /\ stream'.held = stream.held /\ stream'.got = stream.got
          /\ stream'.opened = stream.opened /\ stream'.after = stream.after
          /\ stream'.lagged = stream.lagged
      BY <1>4 DEF IInv, StreamShape, StreamSubscribe
    <2>2. ReadInv'
      BY <1>2, <2>1 DEF IInv, ReadInv, Nothing, Lagged
    <2>3. GotInv' /\ StreamSkipsNothing'
      BY <1>2, <2>1 DEF IInv, GotInv, StreamSkipsNothing
    <2>4. QED
      BY <1>1, <2>1, <2>2, <2>3 DEF IInv
  <1>5. CASE Receive /\ Overrun
    <2>1. /\ StreamShape' /\ stream.at = "live" /\ stream'.at = "live"
          /\ stream'.from = stream.from /\ stream'.next = Len(bus) - RingSize
          /\ stream'.held = Lagged /\ stream'.got = stream.got
          /\ stream'.opened = stream.opened /\ stream'.after = stream.after
          /\ stream'.lagged = stream.lagged
      BY <1>5 DEF IInv, StreamShape, Receive
    <2>2. RingSize \in Nat /\ Len(bus) - RingSize > stream.next
          /\ stream.next \in Nat
      BY <1>2, <1>5, ChatAssumption DEF Overrun, IInv, ReadInv
    <2>3. ReadInv'
      BY <1>2, <2>1, <2>2 DEF IInv, ReadInv, Nothing, Lagged, NotEnded
    <2>4. GotInv' /\ StreamSkipsNothing'
      BY <1>2, <2>1 DEF IInv, GotInv, StreamSkipsNothing, Lagged, NotEnded
    <2>5. QED
      BY <1>1, <2>1, <2>3, <2>4 DEF IInv
  <1>6. CASE Receive /\ ~Overrun
    <2> DEFINE m == bus[stream.next + 1]
    <2>1. /\ StreamShape' /\ stream.at = "live" /\ stream'.at = "live"
          /\ stream'.from = stream.from /\ stream'.next = stream.next + 1
          /\ stream.held = Nothing
          /\ stream'.held = (IF m > stream.after THEN m ELSE Nothing)
          /\ stream'.got = stream.got
          /\ stream'.opened = stream.opened /\ stream'.after = stream.after
          /\ stream'.lagged = stream.lagged
          /\ stream.next < Len(bus)
      BY <1>6 DEF IInv, StreamShape, Receive
    <2>2. /\ m \in 1 .. last /\ stream.next \in Nat /\ stream.from \in Nat
          /\ stream.from <= stream.next
          /\ stream.opened = stream.after
      BY <1>2, <2>1 DEF IInv, ReadInv
    <2>3. stream'.held \in {Nothing, m} /\ (stream'.held = m \/ ~ (m > stream.opened))
      BY <2>1, <2>2
    <2>4. ReadInv' /\ GotInv'
      <3>1. stream'.held \in {Nothing} \cup 1 .. last
        BY <2>2, <2>3
      <3>2. QED
        BY <1>2, <2>1, <2>2, <3>1 DEF IInv, ReadInv, GotInv, Nothing, Lagged
    <2>5. StreamSkipsNothing'
      <3>1. SUFFICES ASSUME NEW i \in stream'.from + 1 .. stream'.next
                     PROVE  \/ bus[i] \in stream'.got \cup {stream'.held}
                            \/ ~ (bus[i] > stream'.opened)
                            \/ stream'.lagged \/ stream'.held = Lagged
        BY <1>2 DEF StreamSkipsNothing, Lagged, NotEnded
      <3>2. CASE i = stream.next + 1
        BY <2>1, <2>3, <3>2
      <3>3. CASE i # stream.next + 1
        <4>1. i \in stream.from + 1 .. stream.next /\ bus[i] # Nothing
              /\ stream.held # Lagged
          <5>1. i \in stream.from + 1 .. stream.next /\ i \in 1 .. Len(bus)
            BY <1>2, <2>1, <2>2, <3>3
          <5>2. bus[i] # Nothing
            BY <1>2, <5>1 DEF Nothing
          <5>3. stream.held # Lagged
            BY <1>2, <2>1 DEF Nothing, Lagged
          <5>4. QED
            BY <5>1, <5>2, <5>3
        <4>2. QED
          BY <2>1, <4>1 DEF IInv, StreamSkipsNothing
      <3>4. QED
        BY <3>2, <3>3
    <2>6. QED
      BY <1>1, <2>1, <2>4, <2>5 DEF IInv
  <1>7. CASE Deliver
    <2>1. /\ StreamShape' /\ stream.at = "live" /\ stream'.at = "live"
          /\ InSession
          /\ stream'.from = stream.from /\ stream'.next = stream.next
          /\ stream.held # Nothing /\ stream'.held = Nothing
          /\ \/ stream.held = Lagged /\ stream'.lagged = TRUE /\ stream'.got = stream.got
             \/ /\ stream.held # Lagged /\ stream'.lagged = stream.lagged
                /\ stream'.got = stream.got \cup {stream.held}
          /\ stream'.opened = stream.opened /\ stream'.after = stream.after
      BY <1>7 DEF IInv, ReadInv, StreamShape, Deliver
    <2>2. ReadInv'
      BY <1>2, <2>1 DEF IInv, ReadInv, Nothing, Lagged
    <2>3. GotInv'
      BY <1>2, <2>1 DEF IInv, ReadInv, GotInv, InSession, Nothing, Lagged
    <2>4. StreamSkipsNothing'
      BY <1>2, <2>1 DEF IInv, StreamSkipsNothing, Lagged, NotEnded
    <2>5. QED
      BY <1>1, <2>1, <2>2, <2>3, <2>4 DEF IInv
  <1>8. QED
    BY <1>3, <1>4, <1>5, <1>6, <1>7 DEF Serve, AuthCheck

\* Every step preserves the invariant.
LEMMA StepInv ==
    ASSUME IInv, [Next]_vars
    PROVE  IInv'
  <1>1. CASE \E w \in Writer : Write(w)
    BY <1>1, WriteInv
  <1>2. CASE Serve /\ stream' # Closed
    BY <1>2, StreamInv
  <1>3. CASE (Serve \/ Break \/ Rejoined) /\ stream' = Closed
    <2>1. UNCHANGED <<writers, ended>>
      BY <1>3 DEF Serve, Break, Rejoined, StreamVerify, StreamList, StreamSubscribe,
         YieldBacklog, Receive, Deliver, AuthCheck
    <2>2. QED
      BY <1>3, <2>1, WritersKept, StreamClosed DEF IInv
  <1>4. CASE List \/ UNCHANGED vars
    <2>1. UNCHANGED <<writers, ended, stream>>
      BY <1>4 DEF List, HistoryList, HistoryApply, ResyncList, ResyncApply, ListFails,
         vars, writers
    <2>2. QED
      BY <2>1, WritersKept, StreamKept DEF IInv, RowsInv, BusInv, writers
  <1>5. CASE SessionEnds
    <2>1. RowsInv' /\ BusInv' /\ UNCHANGED <<last, bus, stream>> /\ ended' = last
      BY <1>5, WritersKept DEF IInv, SessionEnds, writers
    <2>2. StreamShape' /\ ReadInv' /\ StreamSkipsNothing'
      BY <2>1 DEF IInv, StreamShape, ReadInv, StreamSkipsNothing, Nothing, Lagged, NotEnded
    <2>3. GotInv'
      BY <2>1 DEF IInv, GotInv, RowsInv
    <2>4. QED
      BY <2>1, <2>2, <2>3 DEF IInv
  <1>6. QED
    BY <1>1, <1>2, <1>3, <1>4, <1>5 DEF Next, Break, Rejoined

LEMMA AlwaysIInv == Spec => []IInv
  BY InitInv, StepInv, PTL DEF Spec

\* A live stream has delivered everything the channel carried past it, holds it,
\* was told not to (the cursor it was opened with), or has told its reader that
\* it lagged: for any number of writers in any order, any capacity of the channel.
THEOREM NothingSkipped == Spec => []StreamSkipsNothing
  <1>1. IInv => StreamSkipsNothing
    BY DEF IInv
  <1>2. QED
    BY <1>1, AlwaysIInv, PTL

\* The live part of a stream delivers no row written after its reader's session ended.
THEOREM NothingLate == Spec => []NothingAfterSession
  <1>1. IInv => NothingAfterSession
    BY DEF IInv, GotInv, NothingAfterSession
  <1>2. QED
    BY <1>1, AlwaysIInv, PTL
-----------------------------------------------------------------------------
(* The types.                                                              *)

\* A set of naturals has a least element, and a bounded one a greatest.
LEMMA MinExists ==
    ASSUME NEW S \in SUBSET Nat, S # {}
    PROVE  Min(S) \in S /\ \A y \in S : Min(S) <= y
  <1> DEFINE U == {0 .. x : x \in S}
  <1>1. U # {} /\ U \subseteq FiniteSubsetsOf(Nat)
    <2>1. \A x \in S : 0 .. x \subseteq Nat /\ IsFiniteSet(0 .. x)
      BY FS_Interval
    <2>2. QED
      BY <2>1 DEF FiniteSubsetsOf
  <1>2. PICK u \in U : \A v \in U : <<v, u>> \notin StrictSubsetOrdering(Nat)
    <2> HIDE DEF U
    <2>1. QED
      BY <1>1, FS_StrictSubsetOrderingWellFounded, WFMin
  <1>3. PICK x \in S : u = 0 .. x
    BY <1>2
  <1>4. ASSUME NEW y \in S, y < x PROVE FALSE
    <2>1. 0 .. y \in U /\ 0 .. y \subseteq 0 .. x /\ x \notin 0 .. y /\ x \in 0 .. x
      BY <1>4
    <2>2. <<0 .. y, 0 .. x>> \in StrictSubsetOrdering(Nat)
      BY <2>1 DEF StrictSubsetOrdering
    <2>3. QED
      BY <1>2, <1>3, <2>1, <2>2
  <1>5. \A y \in S : x <= y
    BY <1>4
  <1>6. QED
    BY <1>5 DEF Min

LEMMA MaxExists ==
    ASSUME NEW n \in Nat, NEW S \in SUBSET (0 .. n), S # {}
    PROVE  Max(S) \in S /\ \A y \in S : y <= Max(S)
  <1> DEFINE T == {n - x : x \in S}
  <1>1. T \in SUBSET Nat /\ T # {}
    <2>1. \A x \in S : n - x \in Nat
      OBVIOUS
    <2>2. QED
      BY <2>1
  <1>2. Min(T) \in T /\ \A u \in T : Min(T) <= u
    <2> HIDE DEF T
    <2>1. QED
      BY <1>1, MinExists
  <1>3. PICK x \in S : Min(T) = n - x
    BY <1>2
  <1>4. \A y \in S : x >= y
    BY <1>2, <1>3
  <1>5. QED
    BY <1>4 DEF Max

\* One entry of the channel for each writer that has sent, and it has its row.
Sent == {w \in Writer : wpc[w] \in {"sent", "replied"}}
SentInv == Len(bus) = Cardinality(Sent) /\ Sent \subseteq Written

EndInv == ended = NotEnded \/ ended \in 0 .. last

StreamTypes ==
    /\ stream.at \in {"closed", "verified", "listed", "live"}
    /\ {stream.after, stream.opened} \subseteq 0 .. last
    /\ stream.backlog \subseteq 1 .. last

PageTypes ==
    /\ page = [view |-> page.view, history |-> page.history, items |-> page.items,
               resync |-> page.resync, after |-> page.after, missed |-> page.missed]
    /\ page.history \in {"asked", "answered", "done"}
    /\ page.resync \in {"no", "asked", "answered"}
    /\ page.view \subseteq 1 .. last /\ page.items \subseteq 1 .. last
    /\ page.missed \subseteq 1 .. last
    /\ page.after \in 0 .. last

TInv == SentInv /\ EndInv /\ StreamTypes /\ PageTypes

\* The ids of the invariant are ids of rows there are, so there are no more of
\* them than writers.
LEMMA TypesFollow ==
    ASSUME IInv, TInv
    PROVE  TypeOK
  <1>1. last \in Nat /\ last <= Cardinality(Writer) /\ Cardinality(Writer) \in Nat
        /\ IsFiniteSet(Written) /\ last = Cardinality(Written)
    BY RowsBounded, ChatAssumption, FS_CardinalityType DEF IInv, NotEnded, RowsInv
  <1>2. 1 .. last \subseteq Id /\ 0 .. last \subseteq Cursor
    BY <1>1 DEF Id, Cursor
  <1>3. bus \in Seq(Id) /\ Len(bus) <= last
    <2>1. Len(bus) <= last
      BY <1>1, FS_Subset DEF TInv, SentInv
    <2>2. \A i \in 1 .. Len(bus) : bus[i] \in Id
      BY <1>2 DEF IInv, BusInv
    <2>3. bus \in [1 .. Len(bus) -> Id] /\ Len(bus) \in Nat
      BY <2>2 DEF IInv, BusInv
    <2>4. bus \in Seq(Id)
      BY ONLY <2>3
    <2>5. QED
      BY <2>1, <2>4
  <1>4. row \in [Writer -> Cursor] /\ last \in Cursor
        /\ wpc \in [Writer -> {"idle", "verified", "inserted", "sent", "replied", "dropped"}]
        /\ ended \in Cursor \cup {NotEnded}
    BY <1>1, <1>2 DEF IInv, RowsInv, BusInv, WriterState, TInv, EndInv
  <1>5. stream \in [at : {"closed", "verified", "listed", "live"}, after : Cursor,
                   opened : Cursor,
                   backlog : SUBSET Id, from : Cursor, next : Cursor,
                   held : {Nothing, Lagged} \cup Id, got : SUBSET Id,
                   lagged : BOOLEAN]
    <2>1. stream.from \in 0 .. last /\ stream.next \in 0 .. last
      BY <1>1, <1>3 DEF IInv, ReadInv, BusInv
    <2>2. stream.got \subseteq Id /\ stream.held \in {Nothing, Lagged} \cup Id
      BY <1>2 DEF IInv, GotInv, ReadInv
    <2>3. QED
      BY <1>2, <2>1, <2>2 DEF IInv, StreamShape, ReadInv, TInv, StreamTypes
  <1>6. page \in [view : SUBSET Id, history : {"asked", "answered", "done"},
                 items : SUBSET Id, resync : {"no", "asked", "answered"},
                 after : Cursor, missed : SUBSET Id]
    BY <1>2 DEF TInv, PageTypes
  <1>7. QED
    BY <1>3, <1>4, <1>5, <1>6 DEF TypeOK

\* What a list call returns are rows, and the cursor of the page is one or 0.
LEMMA Listed ==
    ASSUME RowsInv, NEW n, NEW c \in 0 .. last
    PROVE  RowsAfter(c, n) \subseteq 1 .. last /\ LatestRows(n) \subseteq 1 .. last
  BY DEF RowsInv, RowsAfter, LatestRows, Smallest, Largest

LEMMA ShownIsRow ==
    ASSUME RowsInv, PageTypes
    PROVE  Shown \in 0 .. last
  <1>1. last \in Nat /\ page.view \cup {0} \in SUBSET (0 .. last) /\ page.view \cup {0} # {}
    BY DEF RowsInv, PageTypes
  <1>2. QED
    BY <1>1, MaxExists DEF Shown

\* A writer's step.
LEMMA WriteTypes ==
    ASSUME IInv, TInv, NEW w \in Writer, Write(w)
    PROVE  TInv'
  <1>1. last \in Nat /\ last' \in Nat /\ last <= last' /\ UNCHANGED <<ended, stream>>
    BY InsertRows DEF IInv, RowsInv, Write, Verify, Insert, Send, Reply, DropWriter
  <1>2. EndInv' /\ StreamTypes'
    BY <1>1 DEF TInv, EndInv, StreamTypes, NotEnded
  <1>3. PageTypes'
    <2>1. CASE Reply(w)
      <3>1. row[w] \in 1 .. last /\ UNCHANGED last
        BY <2>1 DEF TInv, SentInv, Sent, Written, IInv, RowsInv, Reply
      <3>2. QED
        BY <2>1, <3>1 DEF TInv, PageTypes, Reply
    <2>2. CASE UNCHANGED page
      BY <1>1, <2>2 DEF TInv, PageTypes
    <2>3. QED
      BY <2>1, <2>2 DEF Write, Verify, Insert, Send, DropWriter
  <1>4. SentInv'
    <2>1. CASE Send(w)
      <3>1. Sent' = Sent \cup {w} /\ w \notin Sent /\ Written' = Written /\ w \in Written
        BY <2>1 DEF IInv, RowsInv, BusInv, Sent, Written, Send
      <3>2. IsFiniteSet(Sent)
        BY RowsBounded, FS_Subset DEF TInv, SentInv, IInv
      <3>3. Cardinality(Sent') = Cardinality(Sent) + 1
        BY <3>1, <3>2, FS_AddElement
      <3>4. Len(bus') = Len(bus) + 1
        BY <2>1 DEF Send, IInv, BusInv
      <3>5. QED
        BY <3>1, <3>3, <3>4 DEF TInv, SentInv
    <2>2. CASE ~Send(w)
      <3>1. Sent' = Sent /\ bus' = bus /\ Written \subseteq Written'
        BY <2>2, <1>1 DEF Write, Verify, Insert, Reply, DropWriter, IInv, RowsInv, BusInv,
           Sent, Written
      <3>2. QED
        BY <3>1 DEF TInv, SentInv
    <2>3. QED
      BY <2>1, <2>2
  <1>5. QED
    BY <1>2, <1>3, <1>4 DEF TInv

\* A step of the reader or of its stream.
LEMMA ReaderTypes ==
    ASSUME IInv, TInv, Serve \/ Break \/ Rejoined \/ List \/ SessionEnds \/ UNCHANGED vars
    PROVE  TInv'
  <1>1. UNCHANGED writers /\ UNCHANGED <<last, row, wpc, bus>> /\ last \in Nat
        /\ (ended' = ended \/ ended' = last)
    BY DEF writers, vars, IInv, RowsInv, Serve, Break, Rejoined, List, SessionEnds,
       StreamVerify, StreamList, StreamSubscribe, YieldBacklog, Receive, Deliver, AuthCheck,
       HistoryList, HistoryApply, ResyncList, ResyncApply, ListFails
  <1>2. SentInv' /\ EndInv'
    BY <1>1 DEF TInv, SentInv, EndInv, Sent, Written, NotEnded
  <1>3. Shown \in 0 .. last
    BY ShownIsRow DEF IInv, TInv
  <1>4. stream.backlog # {} => Min(stream.backlog) \in 1 .. last
    <2>1. stream.backlog \subseteq 1 .. last /\ stream.backlog \in SUBSET Nat
      BY <1>1 DEF TInv, StreamTypes
    <2>2. QED
      BY <2>1, MinExists
  <1>5. StreamTypes'
    <2>1. CASE stream' = Closed \/ UNCHANGED stream
      BY <1>1, <2>1 DEF TInv, StreamTypes, Closed
    <2>2. CASE StreamVerify
      BY <1>1, <1>3, <2>2 DEF TInv, StreamTypes, IInv, StreamShape, StreamVerify
    <2>3. CASE StreamList
      <3>1. RowsAfter(stream.after, BacklogLimit) \subseteq 1 .. last
        BY Listed DEF IInv, TInv, StreamTypes
      <3>2. QED
        BY <1>1, <2>3, <3>1 DEF TInv, StreamTypes, IInv, StreamShape, StreamList
    <2>4. CASE StreamSubscribe \/ YieldBacklog \/ Receive \/ Deliver
      <3>1. /\ stream'.at \in {stream.at, "live", "closed"}
            /\ stream'.after \in {stream.after, 0} /\ stream'.opened \in {stream.opened, 0}
            /\ stream'.backlog \subseteq stream.backlog
        <4>1. CASE StreamSubscribe \/ YieldBacklog
          BY <4>1 DEF IInv, StreamShape, StreamSubscribe, YieldBacklog
        <4>2. CASE Receive
          <5>1. PICK n, h : stream' = [stream EXCEPT !.next = n, !.held = h]
            BY <4>2 DEF Receive
          <5>2. stream'.at = stream.at /\ stream'.after = stream.after
                /\ stream'.opened = stream.opened /\ stream'.backlog = stream.backlog
            BY <5>1 DEF IInv, StreamShape
          <5>3. QED
            BY <5>2
        <4>3. CASE Deliver
          <5>1. CASE stream' = Closed
            BY <5>1 DEF Closed
          <5>2. CASE stream' # Closed
            <6>1. \/ stream' = [stream EXCEPT !.held = Nothing, !.lagged = TRUE]
                  \/ stream' = [stream EXCEPT !.held = Nothing,
                                              !.got = stream.got \cup {stream.held}]
              BY <4>3, <5>2 DEF Deliver
            <6>2. stream'.at = stream.at /\ stream'.after = stream.after
                  /\ stream'.opened = stream.opened /\ stream'.backlog = stream.backlog
              BY <6>1 DEF IInv, StreamShape
            <6>3. QED
              BY <6>2
          <5>3. QED
            BY <5>1, <5>2
        <4>4. QED
          BY <2>4, <4>1, <4>2, <4>3
      <3>2. QED
        BY <1>1, <3>1 DEF TInv, StreamTypes
    <2>5. QED
      BY <2>1, <2>2, <2>3, <2>4 DEF Serve, Break, Rejoined, List, SessionEnds, vars, AuthCheck,
         HistoryList, HistoryApply, ResyncList, ResyncApply, ListFails
  <1>6. PageTypes'
    <2>1. CASE UNCHANGED page
      BY <1>1, <2>1 DEF TInv, PageTypes
    <2>2. CASE YieldBacklog
      BY <1>1, <1>4, <2>2 DEF TInv, PageTypes, YieldBacklog
    <2>3. CASE Deliver /\ page' # page
      <3>1. \/ page' = [page EXCEPT !.view = page.view \cup {stream.held}]
               /\ stream.held \in 1 .. last
            \/ page' = [page EXCEPT !.resync = "asked", !.after = Shown]
        BY <2>3 DEF Deliver, LagNoticed, IInv, ReadInv
      <3>2. QED
        BY <1>1, <1>3, <3>1 DEF TInv, PageTypes
    <2>4. CASE HistoryList \/ ResyncList
      <3>1. LatestRows(HistoryLimit) \subseteq 1 .. last
            /\ RowsAfter(page.after, HistoryLimit) \subseteq 1 .. last
        BY Listed DEF IInv, TInv, PageTypes
      <3>2. QED
        BY <1>1, <2>4, <3>1 DEF TInv, PageTypes, HistoryList, ResyncList
    <2>5. CASE HistoryApply \/ ResyncApply \/ ListFails \/ Rejoined
      BY <1>1, <2>5 DEF TInv, PageTypes, HistoryApply, ResyncApply, ListFails, Rejoined
    <2>6. QED
      BY <2>1, <2>2, <2>3, <2>4, <2>5 DEF Serve, Break, Rejoined, List, SessionEnds, vars,
         StreamVerify, StreamList, StreamSubscribe, Receive, AuthCheck
  <1>7. QED
    BY <1>2, <1>5, <1>6 DEF TInv

\* Every id a writer, the channel, the stream or the page holds is the id of a row,
\* the channel never carries more than was written, and the cursors are cursors:
\* for any number of writers and any limits.
THEOREM TypeCorrect == Spec => []TypeOK
  <1>1. Init => TInv
    <2> SUFFICES ASSUME Init PROVE TInv
      OBVIOUS
    <2>1. Sent = {}
      BY DEF Init, Sent
    <2>2. QED
      BY <2>1, FS_EmptySet DEF Init, TInv, SentInv, EndInv, StreamTypes, PageTypes, Closed
  <1>2. IInv /\ TInv /\ [Next]_vars => TInv'
    <2> SUFFICES ASSUME IInv, TInv, [Next]_vars PROVE TInv'
      OBVIOUS
    <2>1. CASE \E w \in Writer : Write(w)
      BY <2>1, WriteTypes
    <2>2. CASE Serve \/ Break \/ Rejoined \/ List \/ SessionEnds \/ UNCHANGED vars
      BY <2>2, ReaderTypes
    <2>3. QED
      BY <2>1, <2>2 DEF Next
  <1>3. QED
    BY <1>1, <1>2, AlwaysIInv, TypesFollow, PTL DEF Spec
-----------------------------------------------------------------------------
(***************************************************************************)
(* The list of one page: ChatView, for any client_ids of the page and of   *)
(* the others, and any number of history calls.                            *)
(*                                                                         *)
(* That no message has two rows rests on where the rows come from: a row   *)
(* with an id is the row of that id, or tells of the same text after a     *)
(* retry, and no row beside that of a stored message has its id.  That no  *)
(* text is lost rests on a retry taking the text along, and on a merge     *)
(* dropping another row for one of the same message only, or for the row   *)
(* the server has of the same text.                                        *)
(***************************************************************************)
Used(ca, c) == ca[c].at # "unused"

\* The client_ids are of messages, and one stored by the page was sent by it.
StoredFits(st, ca) ==
    /\ st \in Seq(Drawn \cup Peer)
    /\ \A i, j \in DOMAIN st : st[i] = st[j] => i = j
    /\ \A i \in DOMAIN st : st[i] \in Drawn => Used(ca, st[i])

Row(st) == [client : Drawn \cup Peer, id : 0 .. Len(st), state : {"pending", "failed", "sent"}]

\* A row of the page is of a message it has sent, and says "sent" of a stored one
\* only; a row with an id is the row of that id, or tells of the same text.
RowFits(st, ca, r) ==
    /\ r \in Row(st)
    /\ r.client \in Drawn => Used(ca, r.client)
    /\ r.client \in Drawn /\ r.state = "sent" => \E i \in DOMAIN st : st[i] = r.client
    /\ r.id > 0 => \/ r.client = st[r.id]
                   \/ /\ r.client \in Drawn /\ st[r.id] \in Drawn
                      /\ ca[r.client].text = ca[st[r.id]].text

\* No two rows of a message, none of an id, and none beside the row of a stored
\* message has its id.
Apart(st, rows) ==
    \A r, x \in rows :
        /\ r.client = x.client \/ (r.id = x.id /\ r.id > 0) => r = x
        /\ \A j \in DOMAIN st : r.client = st[j] /\ x.id = j => r = x

ListFits(st, ca, rows) == (\A r \in rows : RowFits(st, ca, r)) /\ Apart(st, rows)

\* A text that the server has, or that a row shows.
Held(st, ca, t) == \E i \in DOMAIN st : st[i] \in Drawn /\ ca[st[i]].text = t
ShownIn(rows, ca, t) == \E r \in rows : r.client \in Drawn /\ ca[r.client].text = t

Kept(st, ca, rows, gone) ==
    \A c \in Drawn : Used(ca, c) =>
        \/ Held(st, ca, ca[c].text) \/ ShownIn(rows, ca, ca[c].text) \/ ca[c].text \in gone

\* What a step does to the sends and the table: it adds to them.
Later(st, ca, st2, ca2) ==
    /\ DOMAIN st \subseteq DOMAIN st2 /\ Len(st) <= Len(st2)
    /\ \A i \in DOMAIN st : st2[i] = st[i]
    /\ \A c \in Drawn : Used(ca, c) => Used(ca2, c) /\ ca2[c].text = ca[c].text

RowOf(st, i) == [client |-> st[i], id |-> i, state |-> "sent"]

\* A list that fits, fits still when the server and the sends have gone on.
LEMMA StillFits ==
    ASSUME NEW st, NEW ca, NEW st2, NEW ca2, NEW rows, StoredFits(st, ca),
           StoredFits(st2, ca2), Later(st, ca, st2, ca2), ListFits(st, ca, rows)
    PROVE  ListFits(st2, ca2, rows)
  <1>1. /\ Len(st) \in Nat /\ DOMAIN st = 1 .. Len(st)
        /\ Len(st2) \in Nat /\ DOMAIN st2 = 1 .. Len(st2)
    BY DEF StoredFits
  <1>2. ASSUME NEW r \in rows PROVE RowFits(st2, ca2, r)
    <2>1. r \in Row(st2)
      BY <1>1, <1>2 DEF ListFits, RowFits, Row, Later
    <2>2. r.id > 0 => r.id \in DOMAIN st
      BY <1>1, <1>2 DEF ListFits, RowFits, Row
    <2>3. QED
      BY <2>1, <2>2 DEF ListFits, RowFits, Later, StoredFits
  <1>3. ASSUME NEW r \in rows, NEW x \in rows, NEW j \in DOMAIN st2, r.client = st2[j], x.id = j
        PROVE  r = x
    <2>1. j \in DOMAIN st
      BY <1>1, <1>3 DEF ListFits, RowFits, Row
    <2>2. QED
      BY <1>3, <2>1 DEF ListFits, Apart, Later
  <1>4. QED
    BY <1>2, <1>3 DEF ListFits, Apart

\* A row that fits, merged into a list that fits: the list fits, and shows no text less
\* than before but those that the server holds.
LEMMA MergedFits ==
    ASSUME NEW st, NEW ca, NEW rows, StoredFits(st, ca), ListFits(st, ca, rows),
           NEW r, RowFits(st, ca, r),
           \/ \E i \in DOMAIN st : r = RowOf(st, i)
           \/ r.id = 0 /\ \A i \in DOMAIN st : st[i] = r.client => r.client \notin Drawn
    PROVE  /\ ListFits(st, ca, Merge(rows, r))
           /\ \A t : ShownIn(rows, ca, t) => ShownIn(Merge(rows, r), ca, t) \/ Held(st, ca, t)
  <1> DEFINE new == Merge(rows, r)
  <1>1. /\ r \in new /\ \A x \in new : x = r \/ (x \in rows /\ x.client # r.client)
        /\ \A x \in rows : \/ x \in new \/ x.client = r.client
                           \/ r.id > 0 /\ x.id = r.id
    <2>1. CASE \E x \in rows : x.client = r.client
      <3>1. {x \in rows : x.client = r.client} # {}
        BY <2>1
      <3>2. new = (rows \ {x \in rows : x.client = r.client}) \cup {r}
        BY <3>1 DEF Merge
      <3>3. QED
        BY <3>2
    <2>2. CASE ~ \E x \in rows : x.client = r.client
      <3>1. {x \in rows : x.client = r.client} = {}
        BY <2>2
      <3>2. new = (rows \ {x \in rows : r.id > 0 /\ x.id = r.id}) \cup {r}
        BY <3>1 DEF Merge
      <3>3. QED
        BY <2>2, <3>2
    <2>3. QED
      BY <2>1, <2>2
  <1>2. ASSUME NEW x \in rows, x \in new, x # r, r.id > 0 PROVE x.id # r.id
    <2>1. CASE \E y \in rows : y.client = r.client
      <3>1. PICK i \in DOMAIN st : r = RowOf(st, i)
        BY <1>2
      <3>2. PICK y \in rows : y.client = r.client
        BY <2>1
      <3>3. r.client = st[i] /\ r.id = i
        BY <3>1 DEF RowOf
      <3>4. x.id = i => y = x
        BY <3>2, <3>3 DEF ListFits, Apart
      <3>5. QED
        BY <1>1, <1>2, <3>2, <3>3, <3>4
    <2>2. CASE ~ \E y \in rows : y.client = r.client
      BY <1>2, <2>2 DEF Merge
    <2>3. QED
      BY <2>1, <2>2
  <1> HIDE DEF new
  <1>3. \A x \in new : RowFits(st, ca, x)
    BY <1>1 DEF ListFits
  <1>4. ASSUME NEW x \in new, NEW j \in DOMAIN st, r.client = st[j], x.id = j PROVE x = r
    <2>1. CASE \E i \in DOMAIN st : r = RowOf(st, i)
      <3>1. r.id = j
        BY <1>4, <2>1 DEF RowOf, StoredFits
      <3>2. j > 0
        BY DEF StoredFits
      <3>3. QED
        BY <1>1, <1>2, <1>4, <3>1, <3>2
    <2>2. CASE r.id = 0 /\ r.client \notin Drawn
      <3>1. j > 0
        BY DEF StoredFits
      <3>2. x # r => x.client = r.client
        BY <1>1, <1>4, <2>2, <3>1 DEF ListFits, RowFits
      <3>3. QED
        BY <1>1, <3>2
    <2>3. QED
      BY <1>4, <2>1, <2>2
  <1>5. ASSUME NEW x \in new, NEW j \in DOMAIN st, x.client = st[j], r.id = j PROVE x = r
    <2>1. j > 0
      BY DEF StoredFits
    <2>2. PICK i \in DOMAIN st : r = RowOf(st, i)
      BY <1>5, <2>1
    <2>3. r.client = st[j]
      BY <1>5, <2>2 DEF RowOf
    <2>4. QED
      BY <1>1, <1>5, <2>3
  <1>6. Apart(st, new)
    <2> SUFFICES ASSUME NEW x \in new, NEW y \in new
                 PROVE  /\ x.client = y.client \/ (x.id = y.id /\ x.id > 0) => x = y
                        /\ \A j \in DOMAIN st : x.client = st[j] /\ y.id = j => x = y
      BY DEF Apart
    <2>1. CASE x = r \/ y = r
      BY <1>1, <1>2, <1>4, <1>5, <2>1
    <2>2. CASE x # r /\ y # r
      BY <1>1, <2>2 DEF ListFits, Apart
    <2>3. QED
      BY <2>1, <2>2
  <1>7. ASSUME NEW t, NEW x \in rows, x.client \in Drawn, ca[x.client].text = t
        PROVE  ShownIn(new, ca, t) \/ Held(st, ca, t)
    <2>1. CASE x \in new \/ x.client = r.client
      BY <1>1, <1>7, <2>1 DEF ShownIn
    <2>2. CASE r.id > 0 /\ x.id = r.id
      <3>1. RowFits(st, ca, x) /\ x.id > 0 /\ r.id \in DOMAIN st
        BY <2>2 DEF ListFits, RowOf
      <3>2. QED
        BY <1>7, <2>2, <3>1 DEF RowFits, Held
    <2>3. QED
      BY <1>1, <2>1, <2>2
  <1>8. QED
    BY <1>3, <1>6, <1>7 DEF ListFits, ShownIn, new

-----------------------------------------------------------------------------
CallState == [at : {"unused", "publish", "post", "done"}, text : Drawn \cup {0}, awaited : BOOLEAN]

CallsFit(ca) ==
    /\ ca \in [Drawn -> CallState]
    /\ \A c \in Drawn : Used(ca, c) => ca[c].text \in Drawn

\* What the server has, or may still get, was sent, and comes once.
Asked(c) == (c \in Drawn => call[c].at \in {"post", "done"}) /\ (c \in Peer => copies[c] # "unsent")

ServerFits ==
    /\ inbox \subseteq Drawn \cup Peer
    /\ copies \in [Peer -> {"unsent", "flying", "gone"}]
    /\ \A c \in inbox : Asked(c) /\ \A i \in DOMAIN stored : stored[i] # c
    /\ \A i \in DOMAIN stored : Asked(stored[i])

PlaceFits ==
    /\ draft \in {0, Typed} \cup Drawn
    /\ latest \in Peer \cup {0}
    /\ joined \in BOOLEAN
    /\ layout \in {"room", "bare", "control", "chat"}
    /\ ~joined => layout = "room"
    /\ erased \subseteq Drawn

FeedsFit ==
    /\ events \in [open : BOOLEAN, pos : 0 .. Len(stored)]
    /\ events.open => joined /\ layout \in {"room", "control"}
    /\ loads \in [Load -> [at : {"idle", "asked", "read"}, n : 0 .. Len(stored)]]

VInv ==
    /\ StoredFits(stored, call) /\ ServerFits /\ CallsFit(call)
    /\ ListFits(stored, call, view) /\ Kept(stored, call, view, erased)
    /\ PlaceFits /\ FeedsFit

\* The invariant has the types and the two properties in it.
LEMMA VInvMeans ==
    ASSUME VInv
    PROVE  ViewTypeOK /\ OneRowPerMessage /\ SubmittedNotLost
  <1>1. ViewTypeOK
    BY DEF VInv, StoredFits, ServerFits, CallsFit, CallState, ListFits, RowFits, Row, PlaceFits,
       FeedsFit, ViewTypeOK, Client, None, HasHook, IsInjective
  <1>2. OneRowPerMessage
    BY DEF VInv, ListFits, Apart, OneRowPerMessage
  <1>3. SubmittedNotLost
    <2> SUFFICES ASSUME NEW c \in Drawn, Used(call, c)
                 PROVE  LET same == {d \in Drawn : call[d].text = call[c].text} IN
                            \/ same \cap Range(stored) # {}
                            \/ \E r \in view : r.client \in same
                            \/ call[c].text \in erased
      BY DEF SubmittedNotLost, Used
    <2>1. \A i \in DOMAIN stored : stored[i] \in Range(stored)
      BY DEF Range
    <2>2. QED
      BY <2>1 DEF VInv, Kept, Held, ShownIn
  <1>4. QED
    BY <1>1, <1>2, <1>3

\* The next client_id to draw.
LEMMA FreshDrawn ==
    ASSUME Fresh # {}
    PROVE  Min(Fresh) \in Drawn /\ ~Used(call, Min(Fresh))
  <1> DEFINE S == Fresh
  <1>1. S \in SUBSET Nat /\ S # {}
    BY ChatViewAssumption DEF Fresh
  <1>2. Min(S) \in S
    <2> HIDE DEF S
    <2>1. QED
      BY <1>1, MinExists
  <1>3. QED
    BY <1>2 DEF Fresh, Used

\* The cursor a stream is opened with is that of a stored row.
LEMMA NewestIsRow ==
    ASSUME VInv
    PROVE  Newest \in 0 .. Len(stored)
  <1> DEFINE S == {r.id : r \in view} \cup {0}
  <1>1. Len(stored) \in Nat /\ S \in SUBSET (0 .. Len(stored)) /\ S # {}
    BY DEF VInv, StoredFits, ListFits, RowFits, Row
  <1>2. Max(S) \in S
    <2> HIDE DEF S
    <2>1. QED
      BY <1>1, MaxExists
  <1>3. Newest = Max(S)
    BY DEF Newest
  <1>4. QED
    BY <1>1, <1>2, <1>3

-----------------------------------------------------------------------------
\* A text that was kept is kept, when nothing is taken from the sends or the list.
LEMMA StillKept ==
    ASSUME NEW st, NEW ca, NEW st2, NEW ca2, NEW rows, NEW rows2, NEW gone, NEW gone2,
           Kept(st, ca, rows, gone), StoredFits(st, ca), ListFits(st, ca, rows),
           Later(st, ca, st2, ca2), gone \subseteq gone2,
           \A r \in rows : r.client \in Drawn =>
              \/ ShownIn(rows2, ca2, ca2[r.client].text) \/ Held(st2, ca2, ca2[r.client].text)
              \/ ca2[r.client].text \in gone2,
           \A c \in Drawn : Used(ca2, c) /\ ~Used(ca, c) => ShownIn(rows2, ca2, ca2[c].text)
    PROVE  Kept(st2, ca2, rows2, gone2)
  <1> SUFFICES ASSUME NEW c \in Drawn, Used(ca2, c)
               PROVE  \/ Held(st2, ca2, ca2[c].text) \/ ShownIn(rows2, ca2, ca2[c].text)
                      \/ ca2[c].text \in gone2
    BY DEF Kept
  <1>1. CASE ~Used(ca, c)
    BY <1>1
  <1>2. CASE Used(ca, c)
    <2>1. ca2[c].text = ca[c].text
      BY <1>2 DEF Later
    <2>2. CASE Held(st, ca, ca[c].text)
      <3>1. PICK i \in DOMAIN st : st[i] \in Drawn /\ ca[st[i]].text = ca[c].text
        BY <2>2 DEF Held
      <3>2. i \in DOMAIN st2 /\ st2[i] = st[i] /\ ca2[st[i]].text = ca[st[i]].text
        BY <3>1 DEF Later, StoredFits
      <3>3. QED
        BY <2>1, <3>1, <3>2 DEF Held
    <2>3. CASE ShownIn(rows, ca, ca[c].text)
      <3>1. PICK r \in rows : r.client \in Drawn /\ ca[r.client].text = ca[c].text
        BY <2>3 DEF ShownIn
      <3>2. ca2[r.client].text = ca[r.client].text
        BY <3>1 DEF Later, ListFits, RowFits
      <3>3. QED
        BY <2>1, <3>1, <3>2
    <2>4. CASE ca[c].text \in gone
      BY <2>1, <2>4
    <2>5. QED
      BY <1>2, <2>2, <2>3, <2>4 DEF Kept
  <1>3. QED
    BY <1>1, <1>2

\* What a change of the sends alone does to the server's part.
LEMMA ServerStays ==
    ASSUME VInv, UNCHANGED <<stored, inbox, copies>>, CallsFit(call'),
           \A c \in Drawn : Used(call, c) =>
              /\ call'[c].text = call[c].text
              /\ call'[c].at = call[c].at \/ call'[c].at \in {"post", "done"}
    PROVE  StoredFits(stored, call)' /\ ServerFits' /\ Later(stored, call, stored', call')
  <1>1. \A c \in Drawn : Used(call, c) => Used(call', c)
    BY DEF Used
  <1>2. \A c : Asked(c) => Asked(c)'
    BY DEF Asked, Used
  <1>3. StoredFits(stored', call')
    BY <1>1 DEF VInv, StoredFits
  <1>4. Later(stored, call, stored', call')
    BY <1>1 DEF Later, VInv, StoredFits
  <1>5. QED
    BY <1>2, <1>3, <1>4 DEF VInv, ServerFits

\* A new send and the row of its copy.
LEMMA SubmitKeeps ==
    ASSUME VInv, Submit
    PROVE  VInv'
  <1> DEFINE c == Min(Fresh)
             t == IF draft = Typed THEN c ELSE draft
             r == Copy(c)
  <1>1. c \in Drawn /\ ~Used(call, c) /\ t \in Drawn
    BY FreshDrawn DEF Submit, VInv, PlaceFits, None
  <1>2. /\ call' = [call EXCEPT ![c] = [at |-> "publish", text |-> t, awaited |-> TRUE]]
        /\ view' = Merge(view, r) /\ draft' = 0
        /\ UNCHANGED <<stored, inbox, copies, joined, layout, latest, events, loads, erased>>
        /\ r = [client |-> c, id |-> 0, state |-> "pending"]
    BY DEF Submit, Upsert, Copy, None, server, place, feeds
  <1> HIDE DEF c, t, r
  <1>3. /\ CallsFit(call') /\ Used(call', c) /\ call'[c].text = t
        /\ \A d \in Drawn : d # c => call'[d] = call[d]
    BY <1>1, <1>2 DEF VInv, CallsFit, CallState, Used
  <1>4. StoredFits(stored, call)' /\ ServerFits' /\ Later(stored, call, stored', call')
    BY <1>1, <1>2, <1>3, ServerStays
  <1>5. ListFits(stored', call', view)
    BY <1>4, StillFits DEF VInv
  <1>6. RowFits(stored', call', r) /\ \A i \in DOMAIN stored' : stored'[i] # c
    BY <1>1, <1>2, <1>3, <1>4 DEF RowFits, Row, StoredFits, VInv
  <1>7. ListFits(stored', call', view')
        /\ \A x : ShownIn(view, call', x) => ShownIn(view', call', x) \/ Held(stored', call', x)
    BY <1>2, <1>4, <1>5, <1>6, MergedFits
  <1>8. r \in view'
    BY <1>2 DEF Merge
  <1>9. Kept(stored', call', view', erased')
    <2>1. ShownIn(view', call', t)
      BY <1>1, <1>2, <1>3, <1>8 DEF ShownIn
    <2>2. \A d \in Drawn : Used(call', d) /\ ~Used(call, d) => ShownIn(view', call', call'[d].text)
      BY <1>3, <2>1 DEF Used
    <2>3. \A x \in view : x.client \in Drawn => ShownIn(view, call', call'[x.client].text)
      BY DEF ShownIn
    <2>4. erased \subseteq erased'
      BY <1>2
    <2>5. QED
      BY <1>4, <1>7, <2>2, <2>3, <2>4, StillKept DEF VInv
  <1>10. PlaceFits' /\ FeedsFit'
    BY <1>1, <1>2 DEF VInv, PlaceFits, FeedsFit
  <1>11. QED
    BY <1>3, <1>4, <1>7, <1>9, <1>10 DEF VInv

\* A retry: the row goes on under another client_id.
LEMMA RetryKeeps ==
    ASSUME VInv, NEW r \in view, Retry(r)
    PROVE  VInv'
  <1> DEFINE c == Min(Fresh)
             n == [client |-> c, id |-> r.id, state |-> "pending"]
             t == call[r.client].text
  <1>1. /\ c \in Drawn /\ ~Used(call, c) /\ r.client \in Drawn /\ Used(call, r.client)
        /\ t \in Drawn
    BY FreshDrawn DEF Retry, CanRetry, VInv, ListFits, RowFits, CallsFit
  <1>2. /\ call' = [call EXCEPT ![c] = [at |-> "publish", text |-> t, awaited |-> FALSE]]
        /\ view' = (view \ {r}) \cup {n} /\ draft' = draft
        /\ UNCHANGED <<stored, inbox, copies, joined, layout, latest, events, loads, erased>>
    BY DEF Retry, server, place, feeds
  <1>3. n.client = c /\ n.id = r.id /\ n.state = "pending"
        /\ n = [client |-> c, id |-> r.id, state |-> "pending"]
    OBVIOUS
  <1> HIDE DEF c, t, n
  <1>4. /\ CallsFit(call') /\ Used(call', c) /\ call'[c].text = t
        /\ \A d \in Drawn : d # c => call'[d] = call[d]
    BY <1>1, <1>2 DEF VInv, CallsFit, CallState, Used
  <1>5. StoredFits(stored, call)' /\ ServerFits' /\ Later(stored, call, stored', call')
    BY <1>1, <1>2, <1>4, ServerStays
  <1>6. ListFits(stored', call', view)
    BY <1>5, StillFits DEF VInv
  <1>7. \A i \in DOMAIN stored : stored[i] # c
    BY <1>1 DEF VInv, StoredFits
  <1>8. RowFits(stored', call', n)
    <2>1. r \in Row(stored) /\ (r.id > 0 => \/ r.client = stored[r.id]
                                           \/ /\ stored[r.id] \in Drawn
                                              /\ t = call[stored[r.id]].text)
      BY DEF VInv, ListFits, RowFits, t
    <2>2. n \in Row(stored')
      BY <1>1, <1>2, <1>3, <2>1 DEF Row
    <2>3. n.id > 0 => n.id \in DOMAIN stored
      BY <1>3, <2>1 DEF Row, VInv, StoredFits
    <2>4. n.id > 0 => stored'[n.id] \in Drawn /\ call'[stored'[n.id]].text = t
      BY <1>1, <1>2, <1>3, <1>4, <1>7, <2>1, <2>3 DEF t
    <2>5. QED
      BY <1>1, <1>3, <1>4, <2>2, <2>4 DEF RowFits
  <1>9. ListFits(stored', call', view')
    <2>1. \A x \in view' : x = n \/ (x \in view /\ x # r)
      BY <1>2
    <2>2. \A x \in view : x.client # c
      BY <1>1 DEF VInv, ListFits, RowFits
    <2>3. \A x \in view : (x.id = n.id /\ n.id > 0) => x = r
      BY <1>3 DEF VInv, ListFits, Apart
    <2>4. \A x \in view : \A j \in DOMAIN stored : x.client = stored[j] /\ n.id = j => x = r
      BY <1>3 DEF VInv, ListFits, Apart
    <2>5. Apart(stored', view')
      <3> SUFFICES ASSUME NEW x \in view', NEW y \in view'
                   PROVE  /\ x.client = y.client \/ (x.id = y.id /\ x.id > 0) => x = y
                          /\ \A j \in DOMAIN stored : x.client = stored[j] /\ y.id = j => x = y
        BY <1>2 DEF Apart
      <3>1. CASE x = n \/ y = n
        BY <1>3, <1>7, <2>1, <2>2, <2>3, <2>4, <3>1
      <3>2. CASE x # n /\ y # n
        BY <2>1, <3>2 DEF VInv, ListFits, Apart
      <3>3. QED
        BY <3>1, <3>2
    <2>6. QED
      BY <1>6, <1>8, <2>1, <2>5 DEF ListFits
  <1>10. Kept(stored', call', view', erased')
    <2>1. ShownIn(view', call', t)
      BY <1>1, <1>2, <1>3, <1>4 DEF ShownIn
    <2>2. \A d \in Drawn : Used(call', d) /\ ~Used(call, d) => ShownIn(view', call', call'[d].text)
      BY <1>4, <2>1 DEF Used
    <2>3. \A x \in view : x.client \in Drawn => ShownIn(view', call', call'[x.client].text)
      <3>1. call'[r.client].text = t
        BY <1>1, <1>4 DEF t
      <3>2. \A x \in view : x = r \/ x \in view'
        BY <1>2
      <3>3. QED
        BY <2>1, <3>1, <3>2 DEF ShownIn
    <2>4. erased \subseteq erased'
      BY <1>2
    <2>5. QED
      BY <1>5, <2>2, <2>3, <2>4, StillKept DEF VInv
  <1>11. PlaceFits' /\ FeedsFit'
    BY <1>2 DEF VInv, PlaceFits, FeedsFit
  <1>12. QED
    BY <1>4, <1>5, <1>9, <1>10, <1>11 DEF VInv

\* A send goes on or ends: its text stays, and so does its row.
LEMMA SendKeeps ==
    ASSUME VInv, NEW c \in Drawn,
           Answer(c) \/ Fail(c)
    PROVE  VInv'
  <1>1. /\ call' = [call EXCEPT ![c].at = "done", ![c].awaited = FALSE]
        /\ call[c].at = "post"
        /\ UNCHANGED <<stored, inbox, copies, joined, layout, latest, events, loads, erased>>
        /\ draft' = draft \/ draft' = call[c].text
    BY DEF Answer, Fail, server, place, feeds
  <1>2. /\ CallsFit(call') /\ call'[c].text = call[c].text /\ call'[c].at = "done"
        /\ \A d \in Drawn : d # c => call'[d] = call[d]
        /\ call[c].text \in Drawn
    <2>1. call \in [Drawn -> CallState] /\ call[c].text \in Drawn
      BY <1>1 DEF VInv, CallsFit, Used
    <2>2. /\ call'[c].text = call[c].text /\ call'[c].at = "done" /\ call'[c] \in CallState
          /\ \A d \in Drawn : d # c => call'[d] = call[d]
      BY <1>1, <2>1 DEF CallState
    <2>3. call' \in [Drawn -> CallState]
      BY <1>1, <2>1 DEF CallState
    <2>4. QED
      BY <2>1, <2>2, <2>3 DEF VInv, CallsFit, Used
  <1>3. StoredFits(stored, call)' /\ ServerFits' /\ Later(stored, call, stored', call')
    BY <1>1, <1>2, ServerStays
  <1>4. ListFits(stored, call, view')
        /\ \A t : ShownIn(view, call, t) => ShownIn(view', call, t) \/ Held(stored, call, t)
    <2>1. CASE Answer(c)
      <3>1. PICK i \in DOMAIN stored : stored[i] = c /\ view' = Merge(view, StoredRow(i))
        BY <2>1 DEF Answer, Upsert
      <3>2. StoredRow(i) = RowOf(stored, i) /\ RowFits(stored, call, RowOf(stored, i))
        BY DEF StoredRow, RowOf, RowFits, Row, VInv, StoredFits
      <3>3. QED
        BY <3>1, <3>2, MergedFits DEF VInv
    <2>2. CASE Fail(c)
      <3> DEFINE f(r) == IF r.client = c THEN [r EXCEPT !.state = "failed"] ELSE r
      <3>1. view' = {f(r) : r \in view}
        BY <2>2 DEF Fail
      <3>2. \A r \in view : /\ f(r).client = r.client /\ f(r).id = r.id
                            /\ f(r) \in Row(stored)
                            /\ f(r).state = r.state \/ f(r).state = "failed"
        BY DEF VInv, ListFits, RowFits, Row
      <3> HIDE DEF f
      <3>3. \A r \in view : RowFits(stored, call, f(r))
        BY <3>2 DEF VInv, ListFits, RowFits
      <3>4. Apart(stored, view')
        BY <3>1, <3>2 DEF VInv, ListFits, Apart
      <3>5. QED
        BY <3>1, <3>2, <3>3, <3>4 DEF ListFits, ShownIn
    <2>3. QED
      BY <2>1, <2>2
  <1>5. ListFits(stored', call', view')
    BY <1>3, <1>4, StillFits DEF VInv
  <1>6. Kept(stored, call, view', erased)
    BY <1>4 DEF VInv, Kept
  <1>7. Kept(stored', call', view', erased')
    <2>1. \A x \in view' : x.client \in Drawn => ShownIn(view', call', call'[x.client].text)
      BY DEF ShownIn
    <2>2. \A d \in Drawn : Used(call', d) => Used(call, d)
      BY <1>1, <1>2 DEF Used
    <2>3. erased \subseteq erased'
      BY <1>1
    <2>4. QED
      BY <1>3, <1>4, <1>6, <2>1, <2>2, <2>3, StillKept DEF VInv
  <1>8. PlaceFits' /\ FeedsFit'
    BY <1>1, <1>2 DEF VInv, PlaceFits, FeedsFit
  <1>9. QED
    BY <1>2, <1>3, <1>5, <1>7, <1>8 DEF VInv

\* The request of a message leaves the page: it may be stored from now on.
LEMMA PostKeeps ==
    ASSUME VInv, NEW c \in Drawn, Post(c)
    PROVE  VInv'
  <1>1. /\ call' = [call EXCEPT ![c].at = "post"] /\ call[c].at = "publish"
        /\ inbox' = inbox \cup {c}
        /\ UNCHANGED <<stored, copies, draft, view, joined, layout, latest, events, loads, erased>>
    BY DEF Post, place, feeds
  <1>2. /\ CallsFit(call') /\ call'[c].text = call[c].text /\ call'[c].at = "post"
        /\ \A d \in Drawn : d # c => call'[d] = call[d]
    BY <1>1 DEF VInv, CallsFit, CallState, Used
  <1>3. \A d \in Drawn : Used(call, d) <=> Used(call', d)
    BY <1>1, <1>2 DEF Used
  <1>4. \A d \in Drawn : call'[d].text = call[d].text
    BY <1>2
  <1>5. StoredFits(stored', call') /\ Later(stored, call, stored', call')
    <2>1. stored' = stored
      BY <1>1
    <2>2. \A d \in Drawn : Used(call, d) => Used(call', d)
      BY <1>3
    <2>3. StoredFits(stored', call')
      BY <2>1, <2>2 DEF VInv, StoredFits
    <2>4. Len(stored) \in Nat
      BY DEF VInv, StoredFits
    <2>5. QED
      BY <1>4, <2>1, <2>2, <2>3, <2>4 DEF Later
  <1>6. ServerFits'
    <2>1. \A x : Asked(x) => Asked(x)'
      BY <1>1, <1>2 DEF Asked
    <2>2. c \notin Peer /\ Asked(c)'
      BY ChatViewAssumption, <1>1, <1>2 DEF Asked
    <2>3. \A i \in DOMAIN stored : stored[i] # c
      BY <1>1 DEF VInv, ServerFits, Asked
    <2>4. QED
      BY <1>1, <2>1, <2>2, <2>3 DEF VInv, ServerFits
  <1>7. ListFits(stored', call', view')
    BY <1>1, <1>5, StillFits DEF VInv
  <1>8. Kept(stored', call', view', erased')
    <2>1. \A x \in view : x.client \in Drawn => ShownIn(view', call', call'[x.client].text)
      BY <1>1 DEF ShownIn
    <2>2. QED
      BY <1>1, <1>3, <1>5, <2>1, StillKept DEF VInv
  <1>9. PlaceFits' /\ FeedsFit'
    BY <1>1 DEF VInv, PlaceFits, FeedsFit
  <1>10. QED
    BY <1>2, <1>5, <1>6, <1>7, <1>8, <1>9 DEF VInv

\* The server stores a message, of the page or of somebody else.
LEMMA StoreKeeps ==
    ASSUME VInv, NEW c \in Drawn \cup Peer, Store(c)
    PROVE  VInv'
  <1>1. /\ stored' = Append(stored, c) /\ c \in inbox /\ inbox' = inbox \ {c}
        /\ UNCHANGED <<copies, call, draft, view, joined, layout, latest, events, loads, erased>>
    BY DEF Store, place, feeds
  <1>2. /\ stored' \in Seq(Drawn \cup Peer) /\ Len(stored') = Len(stored) + 1
        /\ Len(stored) \in Nat
        /\ DOMAIN stored = 1 .. Len(stored) /\ DOMAIN stored' = 1 .. Len(stored) + 1
        /\ stored'[Len(stored) + 1] = c
        /\ \A i \in DOMAIN stored : stored'[i] = stored[i]
    BY <1>1 DEF VInv, StoredFits
  <1>3. \A i \in DOMAIN stored' :
           (i \in DOMAIN stored /\ stored'[i] = stored[i]) \/ (i = Len(stored) + 1 /\ stored'[i] = c)
    BY <1>2
  <1>4. Asked(c) /\ \A i \in DOMAIN stored : stored[i] # c
    BY <1>1 DEF VInv, ServerFits
  <1>5. StoredFits(stored', call')
    <2>1. c \in Drawn => Used(call, c)
      BY <1>4 DEF Asked, Used
    <2>2. \A i, j \in DOMAIN stored' : stored'[i] = stored'[j] => i = j
      BY <1>3, <1>4 DEF VInv, StoredFits
    <2>3. \A i \in DOMAIN stored' : stored'[i] \in Drawn => Used(call', stored'[i])
      BY <1>1, <1>3, <2>1 DEF VInv, StoredFits
    <2>4. QED
      BY <1>2, <2>2, <2>3 DEF StoredFits
  <1>6. Later(stored, call, stored', call')
    BY <1>1, <1>2 DEF Later
  <1>7. ServerFits'
    <2>1. \A x : Asked(x) => Asked(x)'
      BY <1>1 DEF Asked
    <2>2. QED
      BY <1>1, <1>3, <1>4, <2>1 DEF VInv, ServerFits
  <1>8. ListFits(stored', call', view')
    BY <1>1, <1>5, <1>6, StillFits DEF VInv
  <1>9. Kept(stored', call', view', erased')
    <2>1. \A x \in view : x.client \in Drawn => ShownIn(view', call', call'[x.client].text)
      BY <1>1 DEF ShownIn
    <2>2. QED
      BY <1>1, <1>5, <1>6, <2>1, StillKept DEF VInv
  <1>10. PlaceFits' /\ FeedsFit'
    BY <1>1, <1>2 DEF VInv, PlaceFits, FeedsFit
  <1>11. QED
    BY <1>1, <1>5, <1>7, <1>8, <1>9, <1>10 DEF VInv

\* Steps that leave the sends, the table and the rows alone.
LEMMA OthersKeep ==
    ASSUME VInv,
           \/ Type \/ \E c \in Drawn \cup Peer : Refuse(c)
           \/ \E p \in Peer : PeerSends(p) \/ CopyLost(p)
           \/ Connect \/ EventsBreak
           \/ \E l \in Load : HistoryRead(l) \/ HistoryFails(l)
           \/ UNCHANGED viewVars
    PROVE  VInv'
  <1>1. UNCHANGED <<stored, call, view, erased>>
    BY DEF Type, Refuse, PeerSends, CopyLost, Connect, EventsBreak,
       HistoryRead, HistoryFails, viewVars, server
  <1>2. /\ StoredFits(stored', call') /\ CallsFit(call') /\ ListFits(stored', call', view')
        /\ Kept(stored', call', view', erased')
    BY <1>1 DEF VInv
  <1>3. ServerFits'
    <2>1. CASE \E p \in Peer : PeerSends(p)
      <3>1. PICK p \in Peer : PeerSends(p)
        BY <2>1
      <3>2. p \notin Drawn /\ \A i \in DOMAIN stored : stored[i] # p
        BY ChatViewAssumption, <3>1 DEF PeerSends, VInv, ServerFits, Asked
      <3>3. copies' \in [Peer -> {"unsent", "flying", "gone"}] /\ copies'[p] = "flying"
            /\ \A x \in Peer : x # p => copies'[x] = copies[x]
        BY <3>1 DEF PeerSends, VInv, ServerFits
      <3>4. \A x : Asked(x) => Asked(x)'
        BY <1>1, <3>3 DEF Asked
      <3>5. Asked(p)'
        BY <3>2, <3>3 DEF Asked
      <3>6. QED
        BY <1>1, <3>1, <3>2, <3>3, <3>4, <3>5 DEF PeerSends, VInv, ServerFits
    <2>2. CASE \E p \in Peer : CopyLost(p)
      <3>1. PICK p \in Peer : CopyLost(p)
        BY <2>2
      <3>2. copies' \in [Peer -> {"unsent", "flying", "gone"}] /\ copies'[p] = "gone"
            /\ \A x \in Peer : x # p => copies'[x] = copies[x]
        BY <3>1 DEF CopyLost, VInv, ServerFits
      <3>3. \A x : Asked(x) => Asked(x)'
        BY <1>1, <3>2 DEF Asked
      <3>4. QED
        BY <1>1, <3>1, <3>2, <3>3 DEF CopyLost, server, VInv, ServerFits
    <2>3. CASE UNCHANGED copies /\ inbox' \subseteq inbox
      <3>1. \A x : Asked(x) => Asked(x)'
        BY <1>1, <2>3 DEF Asked
      <3>2. QED
        BY <1>1, <2>3, <3>1 DEF VInv, ServerFits
    <2>4. QED
      BY <2>1, <2>2, <2>3 DEF Type, Refuse, Connect, EventsBreak,
         HistoryRead, HistoryFails, viewVars, server
  <1>4. PlaceFits'
    BY DEF VInv, PlaceFits, Type, Refuse, PeerSends, CopyLost, Connect,
       EventsBreak, HistoryRead, HistoryFails, viewVars, place, feeds
  <1>5. FeedsFit'
    <2>1. Len(stored) \in Nat
      BY DEF VInv, StoredFits
    <2>2. CASE Connect
      BY <1>1, <2>2, NewestIsRow DEF VInv, FeedsFit, Connect, HasHook, place
    <2>3. CASE EventsBreak
      BY <1>1, <2>1, <2>3 DEF VInv, FeedsFit, EventsBreak, Shut, place
    <2>4. CASE \E l \in Load : HistoryRead(l) \/ HistoryFails(l)
      <3>1. PICK l \in Load : HistoryRead(l) \/ HistoryFails(l)
        BY <2>4
      <3>2. PICK v \in [at : {"idle", "asked", "read"}, n : 0 .. Len(stored)] :
                   loads' = [loads EXCEPT ![l] = v]
        <4>1. [at |-> "idle", n |-> 0] \in [at : {"idle", "asked", "read"}, n : 0 .. Len(stored)]
              /\ [at |-> "read", n |-> Len(stored)]
                     \in [at : {"idle", "asked", "read"}, n : 0 .. Len(stored)]
          BY <2>1
        <4>2. QED
          BY <3>1, <4>1 DEF HistoryRead, HistoryFails, Idle
      <3>3. QED
        BY <1>1, <3>1, <3>2 DEF VInv, FeedsFit, HistoryRead, HistoryFails, place
    <2>5. CASE UNCHANGED <<events, loads, joined, layout>>
      BY <1>1, <2>5 DEF VInv, FeedsFit
    <2>6. QED
      BY <2>2, <2>3, <2>4, <2>5 DEF Type, Refuse, PeerSends, CopyLost,
         viewVars, place, feeds
  <1>6. QED
    BY <1>2, <1>3, <1>4, <1>5 DEF VInv

\* A copy from the data channel, or a row of the server, comes into the list.
LEMMA RowMerged ==
    ASSUME VInv, NEW r,
           (\E p \in Peer : r = Copy(p)) \/ (\E i \in DOMAIN stored : r = StoredRow(i))
    PROVE  /\ ListFits(stored, call, Merge(view, r))
           /\ Kept(stored, call, Merge(view, r), erased)
  <1>1. RowFits(stored, call, r)
        /\ \/ \E i \in DOMAIN stored : r = RowOf(stored, i)
           \/ r.id = 0 /\ \A i \in DOMAIN stored : stored[i] = r.client => r.client \notin Drawn
    <2>1. CASE \E p \in Peer : r = Copy(p)
      BY ChatViewAssumption, <2>1 DEF Copy, VInv, StoredFits, RowFits, Row
    <2>2. CASE \E i \in DOMAIN stored : r = StoredRow(i)
      <3>1. PICK i \in DOMAIN stored : r = RowOf(stored, i)
        BY <2>2 DEF StoredRow, RowOf
      <3>2. RowFits(stored, call, r)
        BY <3>1 DEF RowOf, RowFits, Row, VInv, StoredFits
      <3>3. QED
        BY <3>1, <3>2
    <2>3. QED
      BY <2>1, <2>2
  <1>2. ListFits(stored, call, Merge(view, r))
        /\ \A t : ShownIn(view, call, t)
                   => ShownIn(Merge(view, r), call, t) \/ Held(stored, call, t)
    BY <1>1, MergedFits DEF VInv
  <1>3. QED
    BY <1>2 DEF VInv, Kept

\* The effects of a hook that mounts: the last copy again, and its own stream and history.
LEMMA EffectsKeep ==
    ASSUME VInv, EffectsRun
    PROVE  /\ ListFits(stored, call, view') /\ Kept(stored, call, view', erased)
           /\ events' \in [open : BOOLEAN, pos : 0 .. Len(stored)]
           /\ loads' \in [Load -> [at : {"idle", "asked", "read"}, n : 0 .. Len(stored)]]
  <1>1. ListFits(stored, call, view') /\ Kept(stored, call, view', erased)
    <2>1. CASE latest # 0
      <3>1. view' = Merge(view, Copy(latest)) /\ latest \in Peer
        BY <2>1 DEF EffectsRun, None, VInv, PlaceFits
      <3>2. QED
        BY <3>1, RowMerged
    <2>2. CASE latest = 0
      BY <2>2 DEF EffectsRun, None, VInv
    <2>3. QED
      BY <2>1, <2>2
  <1>2. events' \in [open : BOOLEAN, pos : 0 .. Len(stored)]
    BY NewestIsRow DEF EffectsRun
  <1>3. loads' \in [Load -> [at : {"idle", "asked", "read"}, n : 0 .. Len(stored)]]
    <2>1. PICK l \in Load : loads' = [loads EXCEPT ![l] = [at |-> "asked", n |-> 0]]
      BY DEF EffectsRun, IdleLoads
    <2>2. [at |-> "asked", n |-> 0] \in [at : {"idle", "asked", "read"}, n : 0 .. Len(stored)]
      BY DEF VInv, StoredFits
    <2>3. QED
      BY <2>1, <2>2 DEF VInv, FeedsFit
  <1>4. QED
    BY <1>1, <1>2, <1>3

\* The history takes the place of the list, and leaving empties it.
LEMMA ReplacedKeeps ==
    ASSUME VInv, NEW n \in 0 .. Len(stored)
    PROVE  LET rows == {StoredRow(i) : i \in 1 .. n} IN
           /\ ListFits(stored, call, rows)
           /\ Kept(stored, call, rows, erased \cup Unsent(view))
           /\ Unsent(view) \subseteq Drawn
  <1> DEFINE rows == {StoredRow(i) : i \in 1 .. n}
  <1>1. \A i \in 1 .. n : i \in DOMAIN stored /\ StoredRow(i) = RowOf(stored, i)
    BY DEF VInv, StoredFits, StoredRow, RowOf
  <1>2. \A i \in 1 .. n : /\ RowOf(stored, i).client = stored[i] /\ RowOf(stored, i).id = i
                         /\ RowFits(stored, call, RowOf(stored, i))
    BY <1>1 DEF RowOf, RowFits, Row, VInv, StoredFits
  <1>3. Apart(stored, rows)
    <2>1. \A i, j \in 1 .. n : stored[i] = stored[j] => i = j
      BY <1>1 DEF VInv, StoredFits
    <2>2. \A i \in 1 .. n : \A j \in DOMAIN stored : stored[i] = stored[j] => i = j
      BY <1>1 DEF VInv, StoredFits
    <2>3. QED
      BY <1>1, <1>2, <2>1, <2>2 DEF Apart
  <1>4. ListFits(stored, call, rows)
    BY <1>1, <1>2, <1>3 DEF ListFits
  <1>5. \A r \in view : r.client \in Drawn =>
            Held(stored, call, call[r.client].text) \/ call[r.client].text \in Unsent(view)
    BY DEF VInv, ListFits, RowFits, Held, Unsent
  <1>6. Kept(stored, call, rows, erased \cup Unsent(view))
    BY <1>5 DEF VInv, Kept, ShownIn
  <1>7. Unsent(view) \subseteq Drawn
    BY DEF Unsent, VInv, ListFits, RowFits, CallsFit
  <1>8. QED
    BY <1>4, <1>6, <1>7

\* Nobody waits for a send any more.
LEMMA AwaitedDropped ==
    ASSUME VInv, \/ UNCHANGED call
                 \/ call' = [c \in Drawn |-> [call[c] EXCEPT !.awaited = FALSE]]
    PROVE  /\ CallsFit(call')
           /\ \A c \in Drawn : call'[c].at = call[c].at /\ call'[c].text = call[c].text
  <1>1. CASE UNCHANGED call
    BY <1>1 DEF VInv
  <1>2. CASE call' = [c \in Drawn |-> [call[c] EXCEPT !.awaited = FALSE]]
    <2>1. \A c \in Drawn : /\ call'[c] = [call[c] EXCEPT !.awaited = FALSE]
                            /\ call[c] \in CallState
      BY <1>2 DEF VInv, CallsFit
    <2>2. \A c \in Drawn : /\ call'[c].at = call[c].at /\ call'[c].text = call[c].text
                            /\ call'[c] \in CallState
      BY <2>1 DEF CallState
    <2>3. QED
      BY <1>2, <2>2 DEF VInv, CallsFit, Used
  <1>3. QED
    BY <1>1, <1>2

\* A step that changes what shows the list and whether a send is waited for, and
\* replaces the list by one that fits as well.
LEMMA ListKeeps ==
    ASSUME VInv, UNCHANGED <<stored, inbox>>, UNCHANGED copies \/ \E p \in Peer : CopyArrives(p),
           \/ UNCHANGED call
           \/ call' = [c \in Drawn |-> [call[c] EXCEPT !.awaited = FALSE]],
           ListFits(stored, call, view'), Kept(stored, call, view', erased'),
           PlaceFits', FeedsFit'
    PROVE  VInv'
  <1>1. /\ CallsFit(call')
        /\ \A c \in Drawn : call'[c].at = call[c].at /\ call'[c].text = call[c].text
    BY AwaitedDropped
  <1>2. \A c \in Drawn : Used(call, c) => Used(call', c)
    BY <1>1 DEF Used
  <1>3. \A c \in Drawn : Used(call', c) => Used(call, c)
    BY <1>1 DEF Used
  <1>4. StoredFits(stored', call')
    BY <1>2 DEF VInv, StoredFits
  <1>5. Later(stored, call, stored', call')
    BY <1>1, <1>2 DEF Later, VInv, StoredFits
  <1>6. ListFits(stored', call', view')
    BY <1>4, <1>5, StillFits DEF VInv
  <1>7. Kept(stored', call', view', erased')
    <2>1. \A x \in view' : x.client \in Drawn => ShownIn(view', call', call'[x.client].text)
      BY DEF ShownIn
    <2>2. QED
      BY <1>3, <1>5, <2>1, StillKept DEF VInv
  <1>8. ServerFits'
    <2>1. copies' \in [Peer -> {"unsent", "flying", "gone"}]
          /\ \A p \in Peer : copies[p] # "unsent" => copies'[p] # "unsent"
      BY DEF VInv, ServerFits, CopyArrives
    <2>2. \A x : Asked(x) => Asked(x)'
      BY <1>1, <2>1 DEF Asked
    <2>3. QED
      BY <2>1, <2>2 DEF VInv, ServerFits
  <1>9. QED
    BY <1>1, <1>4, <1>6, <1>7, <1>8 DEF VInv

\* A copy, a row of the stream, or the history arrives.
LEMMA FeedKeeps ==
    ASSUME VInv,
           \/ \E p \in Peer : CopyArrives(p)
           \/ EventArrives
           \/ \E l \in Load : HistoryArrives(l)
    PROVE  VInv'
  <1>1. Len(stored) \in Nat /\ DOMAIN stored = 1 .. Len(stored)
    BY DEF VInv, StoredFits
  <1>2. CASE \E p \in Peer : CopyArrives(p)
    <2>1. PICK p \in Peer : CopyArrives(p)
      BY <1>2
    <2>2. ListFits(stored, call, view') /\ Kept(stored, call, view', erased')
      BY <2>1, RowMerged DEF CopyArrives, VInv
    <2>3. /\ UNCHANGED <<stored, inbox, call, draft, joined, layout, events, loads, erased>>
          /\ latest' = p
      BY <2>1 DEF CopyArrives, server, place
    <2>4. PlaceFits' /\ FeedsFit'
      BY <2>3 DEF VInv, PlaceFits, FeedsFit
    <2>5. QED
      BY <2>1, <2>2, <2>3, <2>4, ListKeeps
  <1>3. CASE EventArrives
    <2>1. events.pos + 1 \in DOMAIN stored
      BY <1>1, <1>3 DEF EventArrives, VInv, FeedsFit
    <2>2. ListFits(stored, call, view') /\ Kept(stored, call, view', erased')
      BY <1>3, <2>1, RowMerged DEF EventArrives
    <2>3. PlaceFits'
      BY <1>3 DEF EventArrives, place, VInv, PlaceFits
    <2>4. FeedsFit'
      BY <1>1, <1>3, <2>1 DEF EventArrives, place, server, VInv, FeedsFit
    <2>5. UNCHANGED <<stored, inbox, copies, call>>
      BY <1>3 DEF EventArrives, server
    <2>6. QED
      BY <2>2, <2>3, <2>4, <2>5, ListKeeps
  <1>4. CASE \E l \in Load : HistoryArrives(l)
    <2>1. PICK l \in Load : HistoryArrives(l)
      BY <1>4
    <2>2. loads[l].n \in 0 .. Len(stored)
      BY DEF VInv, FeedsFit
    <2>3. ListFits(stored, call, view') /\ Kept(stored, call, view', erased')
          /\ erased' \subseteq Drawn
      BY <2>1, <2>2, ReplacedKeeps DEF HistoryArrives, VInv, PlaceFits
    <2>4. PlaceFits'
      BY <2>1, <2>3 DEF HistoryArrives, place, VInv, PlaceFits
    <2>5. FeedsFit'
      <3>1. loads' = [loads EXCEPT ![l] = [at |-> "idle", n |-> 0]]
        BY <2>1 DEF HistoryArrives, Idle
      <3>2. [at |-> "idle", n |-> 0] \in [at : {"idle", "asked", "read"}, n : 0 .. Len(stored)]
        BY <1>1
      <3>3. QED
        BY <2>1, <3>1, <3>2 DEF HistoryArrives, place, server, VInv, FeedsFit
    <2>6. UNCHANGED <<stored, inbox, copies, call>>
      BY <2>1 DEF HistoryArrives, server
    <2>7. QED
      BY <2>3, <2>4, <2>5, <2>6, ListKeeps
  <1>5. QED
    BY <1>2, <1>3, <1>4

\* The page joins, leaves, or changes its layout.
LEMMA PlaceKeeps ==
    ASSUME VInv,
           Join \/ Leave \/ \E l \in {"room", "bare", "control", "chat"} : Move(l)
    PROVE  VInv'
  <1>1. /\ UNCHANGED <<stored, inbox, copies>>
        /\ \/ UNCHANGED call
           \/ call' = [c \in Drawn |-> [call[c] EXCEPT !.awaited = FALSE]]
    BY DEF Join, Leave, Move, server
  <1>2. Len(stored) \in Nat
    BY DEF VInv, StoredFits
  <1>3. CASE Join
    <2>1. CASE layout \in {"room", "control"}
      <3>1. EffectsRun
        BY <1>3, <2>1 DEF Join, HasHook
      <3>2. ListFits(stored, call, view') /\ Kept(stored, call, view', erased')
        BY <1>3, <3>1, EffectsKeep DEF Join
      <3>3. PlaceFits'
        BY <1>3 DEF Join, VInv, PlaceFits
      <3>4. FeedsFit'
        BY <1>1, <1>3, <2>1, <3>1, EffectsKeep DEF Join, FeedsFit
      <3>5. QED
        BY <1>1, <3>2, <3>3, <3>4, ListKeeps
    <2>2. CASE layout \notin {"room", "control"}
      <3>1. UNCHANGED <<view, erased, events, loads, layout, draft, latest>> /\ joined' = TRUE
        BY <1>3, <2>2 DEF Join, HasHook
      <3>2. PlaceFits' /\ FeedsFit'
        BY <1>1, <3>1 DEF VInv, PlaceFits, FeedsFit
      <3>3. QED
        BY <1>1, <3>1, <3>2, ListKeeps DEF VInv
    <2>3. QED
      BY <2>1, <2>2
  <1>4. CASE Leave
    <2>1. 0 \in 0 .. Len(stored) /\ {StoredRow(i) : i \in 1 .. 0} = {}
      BY <1>2
    <2>2. view' = {} /\ erased' = erased \cup Unsent(view)
      BY <1>4 DEF Leave
    <2>3. ListFits(stored, call, view') /\ Kept(stored, call, view', erased')
          /\ Unsent(view) \subseteq Drawn
      BY <2>1, <2>2, ReplacedKeeps
    <2>4. PlaceFits'
      BY <1>4, <2>2, <2>3 DEF Leave, None, VInv, PlaceFits
    <2>5. FeedsFit'
      BY <1>1, <1>2, <1>4 DEF Leave, Shut, VInv, FeedsFit
    <2>6. QED
      BY <1>1, <2>3, <2>4, <2>5, ListKeeps
  <1>5. CASE \E l \in {"room", "bare", "control", "chat"} : Move(l)
    <2>1. PICK l \in {"room", "bare", "control", "chat"} : Move(l)
      BY <1>5
    <2>2. PlaceFits'
      BY <2>1 DEF Move, None, VInv, PlaceFits
    <2>3. CASE l \in {"room", "control"}
      <3>1. EffectsRun
        BY <2>1, <2>3 DEF Move, HasHook
      <3>2. ListFits(stored, call, view') /\ Kept(stored, call, view', erased')
        BY <2>1, <3>1, EffectsKeep DEF Move
      <3>3. FeedsFit'
        BY <1>1, <2>1, <2>3, <3>1, EffectsKeep DEF Move, FeedsFit
      <3>4. QED
        BY <1>1, <2>2, <3>2, <3>3, ListKeeps
    <2>4. CASE l \notin {"room", "control"}
      <3>1. UNCHANGED <<view, erased, loads>> /\ events' = [open |-> FALSE, pos |-> 0]
        BY <2>1, <2>4 DEF Move, HasHook, Shut
      <3>2. FeedsFit'
        BY <1>1, <1>2, <3>1 DEF VInv, FeedsFit
      <3>3. QED
        BY <1>1, <2>2, <3>1, <3>2, ListKeeps DEF VInv
    <2>5. QED
      BY <2>3, <2>4
  <1>6. QED
    BY <1>3, <1>4, <1>5

\* VInv holds to begin with.
LEMMA VInvInit ==
    ASSUME ViewInit
    PROVE  VInv
  <1>1. StoredFits(stored, call) /\ Len(stored) = 0 /\ DOMAIN stored = {}
    BY DEF ViewInit, StoredFits
  <1>2. CallsFit(call)
    BY DEF ViewInit, None, CallsFit, CallState, Used
  <1>3. ListFits(stored, call, view) /\ Kept(stored, call, view, erased)
    BY DEF ViewInit, ListFits, Apart, Kept, Used
  <1>4. ServerFits /\ PlaceFits
    BY <1>1 DEF ViewInit, None, ServerFits, PlaceFits
  <1>5. FeedsFit
    BY <1>1 DEF ViewInit, Shut, Idle, FeedsFit
  <1>6. QED
    BY <1>1, <1>2, <1>3, <1>4, <1>5 DEF VInv

\* Every step of ChatView keeps VInv.
LEMMA VInvStep ==
    ASSUME VInv, [ViewNext]_viewVars
    PROVE  VInv'
  <1>1. CASE PageSends
    BY <1>1, SubmitKeeps, RetryKeeps, PostKeeps, SendKeeps, OthersKeep DEF PageSends
  <1>2. CASE Elsewhere
    BY <1>2, StoreKeeps, OthersKeep, FeedKeeps DEF Elsewhere, Client
  <1>3. CASE Feed
    BY <1>3, OthersKeep, FeedKeeps DEF Feed
  <1>4. CASE Place
    BY <1>4, PlaceKeeps DEF Place
  <1>5. CASE UNCHANGED viewVars
    BY <1>5, OthersKeep
  <1>6. QED
    BY <1>1, <1>2, <1>3, <1>4, <1>5 DEF ViewNext

\* VInv is an invariant of ChatView.
LEMMA AlwaysVInv == ViewSpec => []VInv
  <1>1. ViewInit => VInv
    BY VInvInit
  <1>2. VInv /\ [ViewNext]_viewVars => VInv'
    BY VInvStep
  <1>3. QED
    BY <1>1, <1>2, PTL DEF ViewSpec

\* What the list holds, whose it says it is, and the cursors of its stream and of
\* the history calls are those of stored messages: of any number of sends.
THEOREM ViewTyped == ViewSpec => []ViewTypeOK
  BY AlwaysVInv, VInvMeans, PTL

\* No message is shown twice, however many are sent, retried and delivered in
\* whatever order.
THEOREM ViewShowsOnce == ViewSpec => []OneRowPerMessage
  BY AlwaysVInv, VInvMeans, PTL

\* A text once submitted is with the server or shown, or a history answer or
\* leaving has dropped it: for any number of texts, and of retries of each.
THEOREM ViewLosesNothing == ViewSpec => []SubmittedNotLost
  BY AlwaysVInv, VInvMeans, PTL
=============================================================================
