-------------------------------- MODULE Agent --------------------------------
(***************************************************************************)
(* An external agent of a room (routes/agent): it reads a context, polls   *)
(* events from a cursor, and issues commands under idempotency keys, which *)
(* it repeats with the same key when a call fails or does not answer.      *)
(* Commands that send a message pass the rate limit of the caller's        *)
(* address (services/rate_limit.rs); the others issue an invitation.       *)
(*                                                                         *)
(* A key is a Redis key of one actor and one command, set before the       *)
(* command has any effect.  Rows of the message table are numbered by      *)
(* their place in the log; other rooms and other people write to it too.   *)
(* A session or a room that is refused ends a call as a drop does.         *)
(***************************************************************************)
EXTENDS Naturals, Sequences, FiniteSets

CONSTANTS
    Request,   \* the calls of the agent
    Key,       \* its idempotency keys, one for each thing it wants done
    Invites,   \* those of issue_invite; the others are of send_message
    Limit,     \* RATE_LIMIT_CHAT_MESSAGE
    PageSize,  \* limit of a poll
    MaxOthers  \* bound: rows written by others

ASSUME AgentAssumption == /\ Invites \subseteq Key
                          /\ {Limit, MaxOthers} \subseteq Nat
                          /\ PageSize \in Nat \ {0}

VARIABLES
    claimed,  \* the keys set in Redis
    lapsed,   \* history: the keys that have expired
    done,     \* how often the command of each key took effect
    counter,  \* the rate limit: calls counted, and whether Redis will reset it
    untimed,  \* history: a call ended between INCR and EXPIRE
    log,      \* the rows: "here" for messages of this room, "elsewhere"
    pc, key,  \* where each call stands, and the key it carries
    settled,  \* the keys the agent takes for done
    feed      \* its cursor, the cursor it started with, the events it has seen

vars == <<claimed, lapsed, done, counter, untimed, log, pc, key, settled, feed>>
commands == <<claimed, lapsed, done, counter, untimed, pc, key, settled>>

NoKey == "no key"
Fresh == [n |-> 0, timed |-> FALSE]
Ended == {"ok", "duplicate", "refused", "dropped"}

TypeOK ==
    /\ {claimed, lapsed, settled} \subseteq SUBSET Key
    /\ done \in [Key -> Nat]
    /\ counter \in [n : Nat \ {0}, timed : BOOLEAN] \cup {Fresh}
    /\ untimed \in BOOLEAN
    /\ log \in Seq({"here", "elsewhere"})
    /\ pc \in [Request -> {"idle", "claim", "count", "time", "apply", "reply"} \cup Ended]
    /\ key \in [Request -> Key \cup {NoKey}]
    /\ {feed.start, feed.cursor} \subseteq 0 .. Len(log) /\ feed.seen \in Seq(1 .. Len(log))

Init ==
    /\ claimed = {} /\ lapsed = {} /\ settled = {}
    /\ done = [k \in Key |-> 0]
    /\ counter = Fresh
    /\ untimed = FALSE
    /\ log = <<>>
    /\ pc = [r \in Request |-> "idle"]
    /\ key = [r \in Request |-> NoKey]
    /\ feed = [start |-> 0, cursor |-> 0, seen |-> <<>>]

-----------------------------------------------------------------------------
Goto(r, label) == pc' = [pc EXCEPT ![r] = label]

\* The agent issues a command, or repeats one it has no success for.
Call(r) ==
    /\ pc[r] = "idle"
    /\ \E k \in Key \ settled : key' = [key EXCEPT ![r] = k]
    /\ Goto(r, "claim")
    /\ UNCHANGED <<claimed, lapsed, done, counter, untimed, log, settled, feed>>

AfterClaim(k) == IF k \in Invites THEN "apply" ELSE "count"

\* Mutant: the key is looked up, and not set.
ClaimLooksUp(r) ==
    /\ pc[r] = "claim"
    /\ \/ /\ key[r] \in claimed
          /\ settled' = settled \cup {key[r]}
          /\ Goto(r, "duplicate")
       \/ /\ key[r] \notin claimed
          /\ Goto(r, AfterClaim(key[r]))
          /\ UNCHANGED settled
    /\ UNCHANGED <<claimed, lapsed, done, counter, untimed, log, key, feed>>

\* claim_command_idempotency: SET NX.  A key that is set is answered with the
\* status duplicate, which the agent is to treat as done.
Claim(r) ==
    /\ pc[r] = "claim"
    /\ \/ /\ key[r] \in claimed
          /\ settled' = settled \cup {key[r]}
          /\ Goto(r, "duplicate")
          /\ UNCHANGED claimed
       \/ /\ key[r] \notin claimed
          /\ claimed' = claimed \cup {key[r]}
          /\ Goto(r, AfterClaim(key[r]))
          /\ UNCHANGED settled
    /\ UNCHANGED <<lapsed, done, counter, untimed, log, key, feed>>

\* Mutant: the window is left to whoever counts next.
CountUntimed(r) ==
    /\ pc[r] = "count"
    /\ counter' = [counter EXCEPT !.n = @ + 1]
    /\ Goto(r, IF counter'.n <= Limit THEN "apply" ELSE "refused")
    /\ UNCHANGED <<claimed, lapsed, done, untimed, log, key, settled, feed>>

\* check: INCR, and by the first of a window EXPIRE.
Count(r) ==
    /\ pc[r] = "count"
    /\ counter' = [counter EXCEPT !.n = @ + 1]
    /\ Goto(r, IF counter'.n = 1 THEN "time"
               ELSE IF counter'.n <= Limit THEN "apply"
               ELSE "refused")
    /\ UNCHANGED <<claimed, lapsed, done, untimed, log, key, settled, feed>>

Time(r) ==
    /\ pc[r] = "time"
    /\ counter' = IF counter.n > 0 THEN [counter EXCEPT !.timed = TRUE] ELSE counter
    /\ Goto(r, IF Limit >= 1 THEN "apply" ELSE "refused")
    /\ UNCHANGED <<claimed, lapsed, done, untimed, log, key, settled, feed>>

\* insert_message with its broadcast, or create_ticket.
Apply(r) ==
    /\ pc[r] = "apply"
    /\ done' = [done EXCEPT ![key[r]] = @ + 1]
    /\ log' = IF key[r] \in Invites THEN log ELSE Append(log, "here")
    /\ Goto(r, "reply")
    /\ UNCHANGED <<claimed, lapsed, counter, untimed, key, settled, feed>>

Reply(r) ==
    /\ pc[r] = "reply"
    /\ settled' = settled \cup {key[r]}
    /\ Goto(r, "ok")
    /\ UNCHANGED <<claimed, lapsed, done, counter, untimed, log, key, feed>>

\* The call fails, is refused, or its answer is lost.
Drop(r) ==
    /\ pc[r] \notin Ended \cup {"idle"}
    /\ Goto(r, "dropped")
    /\ untimed' = (untimed \/ pc[r] = "time")
    /\ UNCHANGED <<claimed, lapsed, done, counter, log, key, settled, feed>>

\* Redis: a key lives for IDEMPOTENCY_TTL_SECONDS, a counter for the window.
KeyExpires(k) ==
    /\ k \in claimed
    /\ claimed' = claimed \ {k}
    /\ lapsed' = lapsed \cup {k}
    /\ UNCHANGED <<done, counter, untimed, log, pc, key, settled, feed>>

WindowEnds ==
    /\ counter.timed
    /\ counter' = Fresh
    /\ UNCHANGED <<claimed, lapsed, done, untimed, log, pc, key, settled, feed>>

\* Somebody else writes, here or in another room.  (Bound: MaxOthers rows.)
OthersWrite ==
    /\ \E w \in {"here", "elsewhere"} : log' = Append(log, w)
    /\ Len(log) < MaxOthers
    /\ UNCHANGED <<commands, feed>>

RowsHere(from, to) == {i \in from .. to : log[i] = "here"}

\* ORDER BY id, and LIMIT n.
InOrder(S) == {p \in [1 .. Cardinality(S) -> S] : \A i, j \in DOMAIN p : i < j => p[i] < p[j]}
FirstOf(S, n) == {i \in S : Cardinality({j \in S : j < i}) < n}

\* GET /context: the cursor is the newest message of the room.  (An agent that
\* starts anew forgets what it saw.)
Context ==
    /\ \E last \in {0} \cup RowsHere(1, Len(log)) :
          /\ \A i \in RowsHere(1, Len(log)) : i <= last
          /\ feed' = [start |-> last, cursor |-> last, seen |-> <<>>]
    /\ UNCHANGED <<commands, log>>

\* An empty page leaves the cursor where it is.
Seen(page) ==
    /\ page # <<>>
    /\ feed' = [feed EXCEPT !.cursor = page[Len(page)], !.seen = feed.seen \o page]

\* Mutant: the newest of the missing rows are returned.
PollNewest ==
    LET rows == RowsHere(feed.cursor + 1, Len(log))
        newest == {i \in rows : Cardinality({j \in rows : j > i}) < PageSize}
    IN  /\ \E page \in InOrder(newest) : Seen(page)
        /\ UNCHANGED <<commands, log>>

\* GET /events: the first rows after the cursor, and the cursor past them.
Poll ==
    LET rows == RowsHere(feed.cursor + 1, Len(log))
    IN  /\ \E page \in InOrder(FirstOf(rows, PageSize)) : Seen(page)
        /\ UNCHANGED <<commands, log>>

Step(r) == Claim(r) \/ Count(r) \/ Time(r) \/ Apply(r) \/ Reply(r)

Next == \/ \E r \in Request : Call(r) \/ Step(r) \/ Drop(r)
        \/ \E k \in Key : KeyExpires(k)
        \/ WindowEnds \/ OthersWrite
        \/ Context \/ Poll

Spec == Init /\ [][Next]_vars

\* Calls run on, and Redis keeps its time.
FairSpec == Spec /\ WF_vars(WindowEnds) /\ \A r \in Request : WF_vars(Step(r))
-----------------------------------------------------------------------------
\* However often a command is repeated under its key, while earlier calls are
\* still running, have failed or have lost their answer, it takes effect once,
\* until the key expires (agent-native-backend-design.md: "idempotency_key
\* prevents duplicate side effects on retries").
OncePerKey == \A k \in Key : done[k] > 1 => k \in lapsed

\* The events an agent has polled are those of its room from its context on, in
\* order, none missing and none twice, whoever else writes meanwhile
\* ("monotonic by sequence").
EventsComplete == feed.seen \in InOrder(RowsHere(feed.start + 1, feed.cursor))

\* A caller over the limit is let in again by a later window, unless a call ended
\* between the two commands of a check.
RefusedNotForEver == [](~untimed) => []<>(counter = Fresh)

-----------------------------------------------------------------------------
(* What the code does not keep.                                            *)

\* A command answered as a duplicate has been done, or is being done by an earlier
\* call (SKILL.md: "Treat `status=duplicate` as successful dedupe, not failure").
DuplicateMeansDone ==
    \A r \in Request :
        pc[r] = "duplicate"
            => \/ done[key[r]] > 0
               \/ \E q \in Request : key[q] = key[r] /\ pc[q] \in {"count", "time", "apply"}
=============================================================================
