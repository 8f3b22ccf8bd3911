------------------------- MODULE PageSessionProofs --------------------------
(***************************************************************************)
(* Proofs about PageSession, for any number of sessions and any bound on   *)
(* the calls under way.                                                    *)
(***************************************************************************)
EXTENDS PageSession, TLAPS

Hook == [at : {"main", "drawer", "off"},
         status : {"connected", "reconnecting", "disconnected"},
         logged : BOOLEAN, timer : Session \cup {None}, busy : BOOLEAN]

\* The calls behind "busy".
Busy(c) == c.mine /\ c.kind \in {"attempt", "boot"}

\* What a set of calls and the hook that made them owe each other: at most one of
\* them keeps it busy, those that put a snapshot back have one, and a hook that is
\* not mounted has neither heartbeat nor reconnect.
CallsFit(h, cs) ==
    /\ cs \subseteq Call
    /\ h.busy <=> \E c \in cs : Busy(c)
    /\ \A c, d \in cs : Busy(c) /\ Busy(d) => c = d
    /\ \A c \in cs : c.kind \in {"wait", "attempt", "boot"} => c.restored # None
    /\ \A c \in cs : c.kind = "wait" => ~c.mine
    /\ \A c \in cs : c.mine /\ c.kind \in {"beat", "attempt", "boot"} => h.at # "off"

\* The countdown, of any hook.
Shown(h, j) ==
    h.timer # None => j # None /\ h.at # "off" /\ h.status = "reconnecting" /\ ~h.busy

Fits(h, j, cs) == h \in Hook /\ (j = None => h.at = "main") /\ CallsFit(h, cs) /\ Shown(h, j)

Rest ==
    /\ server \in [Session -> {"new", "live", "displaced", "dead"}]
    /\ {joined, token} \subseteq Session \cup {None}
    /\ {booted, cooling} \subseteq BOOLEAN

IInv == Rest /\ Fits(hook, joined, calls)

LEMMA InvMeans ==
    IInv => TypeOK /\ CountdownShown
  BY DEF IInv, Rest, Fits, CallsFit, Shown, Busy, Hook, TypeOK, CountdownShown
-----------------------------------------------------------------------------
\* The effect on joined and token keeps a hook fit.
LEMMA SettledFits ==
    ASSUME NEW h \in Hook, NEW j, NEW t, NEW cs, CallsFit(h, cs), j = None => h.at = "main",
           (j # None /\ t # None) => Shown(h, j)
    PROVE  Fits(Settled(h, j, t), j, cs)
  <1>1. CASE j # None /\ t # None
    BY <1>1 DEF Fits, CallsFit, Shown, Settled, Hook
  <1>2. CASE ~(j # None /\ t # None)
    BY <1>2 DEF Fits, CallsFit, Shown, Settled, Hook, None
  <1>3. QED
    BY <1>1, <1>2

\* The calls of a hook that goes belong to none.
LEMMA OrphansFit ==
    ASSUME IInv, NEW cs, cs \subseteq calls, NEW h, h.busy = FALSE
    PROVE  CallsFit(h, {Orphaned(c) : c \in cs})
  <1>1. ASSUME NEW c \in calls
        PROVE  Orphaned(c) \in Call /\ Orphaned(c).mine = FALSE /\ Orphaned(c).kind = c.kind
               /\ (c.kind # "beat" => Orphaned(c).restored = c.restored)
    BY DEF IInv, Rest, Fits, CallsFit, Orphaned, Call
  <1>2. ASSUME NEW d \in {Orphaned(c) : c \in cs}
        PROVE  d \in Call /\ d.mine = FALSE
               /\ (d.kind \in {"wait", "attempt", "boot"} => d.restored # None)
    <2>1. PICK c \in cs : d = Orphaned(c)
      OBVIOUS
    <2>2. c \in calls /\ (c.kind \in {"wait", "attempt", "boot"} => c.restored # None)
      BY DEF IInv, Fits, CallsFit
    <2>3. QED
      BY <1>1, <2>1, <2>2
  <1>3. QED
    BY <1>2 DEF CallsFit, Busy

LEMMA NoHookFits == NoHook \in Hook /\ NoHook.busy = FALSE /\ NoHook.timer = None
                    /\ NoHook.at = "off" /\ NoHook.status = "disconnected"
  BY DEF NoHook, Hook, None

\* A hook that starts anew, as the page is cleared in theatre mode or moves there.
LEMMA ClearedFits ==
    ASSUME IInv, NEW h \in Hook, h.at = hook.at, NEW cs, cs \subseteq calls, CallsFit(h, cs),
           Cleared(h, cs), server' \in [Session -> {"new", "live", "displaced", "dead"}],
           cooling' \in BOOLEAN
    PROVE  IInv'
  <1>1. Rest'
    BY DEF IInv, Rest, Cleared
  <1>2. CASE h.at = "main"
    <2>1. Fits(Settled(h, None, None), None, cs)
      BY <1>2, SettledFits
    <2>2. QED
      BY <1>1, <1>2, <2>1 DEF IInv, Cleared
  <1>3. CASE h.at # "main"
    <2> DEFINE g == [NoHook EXCEPT !.at = "main"]
    <2>1. g \in Hook /\ g.busy = FALSE /\ g.timer = None /\ g.at = "main"
      BY NoHookFits DEF Hook
    <2>2. CallsFit(g, {Orphaned(c) : c \in cs})
      BY <2>1, OrphansFit
    <2>3. Fits(g, None, {Orphaned(c) : c \in cs})
      BY <2>1, <2>2 DEF Fits, Shown
    <2>4. QED
      BY <1>1, <1>3, <2>3 DEF IInv, Cleared
  <1>4. QED
    BY <1>2, <1>3

\* Ending a call that is not the one behind "busy".
LEMMA EndFits ==
    ASSUME IInv, NEW c \in calls, ~Busy(c), NEW h \in Hook, h.busy = hook.busy, h.at = hook.at
    PROVE  CallsFit(h, calls \ {c})
  BY DEF IInv, Fits, CallsFit, Busy

\* Ending the one that is.
LEMMA DoneFits ==
    ASSUME IInv, NEW c \in calls, Busy(c), NEW h \in Hook, h.busy = FALSE, h.at = hook.at
    PROVE  CallsFit(h, calls \ {c})
  BY DEF IInv, Fits, CallsFit, Busy
-----------------------------------------------------------------------------
LEMMA InitInv ==
    ASSUME Init
    PROVE  IInv
  <1>1. Rest
    BY DEF Init, Rest, None
  <1>2. hook \in Hook /\ hook.busy = FALSE /\ hook.timer = None /\ hook.at = "main"
    BY NoHookFits DEF Init, Hook
  <1>3. QED
    BY <1>1, <1>2 DEF Init, IInv, Fits, CallsFit, Shown, Busy

\* A call that begins and does not keep the hook busy.
LEMMA BeginFits ==
    ASSUME IInv, NEW kind \in {"beat", "recover", "leave"}, token # None,
           Begin(kind, token, None), kind = "beat" => hook.at # "off",
           UNCHANGED <<server, joined, token, hook, booted>>, cooling' \in BOOLEAN
    PROVE  IInv'
  <1> DEFINE c == [kind |-> kind, of |-> token, restored |-> None, mine |-> TRUE]
  <1>1. c \in Call /\ c.kind = kind /\ calls' = calls \cup {c}
    BY DEF IInv, Rest, Call, Kinds, Begin
  <1> HIDE DEF c
  <1>2. CallsFit(hook, calls')
    BY <1>1 DEF IInv, Fits, CallsFit, Busy
  <1>3. QED
    BY <1>2 DEF IInv, Rest, Fits, Shown

\* A reconnect that begins, from the timer or a button.
LEMMA AttemptInv ==
    ASSUME IInv, NEW s \in Session \cup {None}, Attempt(s), hook.at # "off",
           UNCHANGED <<server, joined, token, booted, cooling>>
    PROVE  IInv'
  <1>1. CASE joined # None /\ s # None /\ ~hook.busy
    <2> DEFINE c == [kind |-> "attempt", of |-> s, restored |-> joined, mine |-> TRUE]
    <2>1. c \in Call /\ Busy(c) /\ c.kind = "attempt" /\ c.restored # None
          /\ calls' = calls \cup {c}
      BY <1>1 DEF IInv, Rest, Call, Kinds, Attempt, Begin, Busy
    <2>2. hook' \in Hook /\ hook'.busy = TRUE /\ hook'.timer = None /\ hook'.at = hook.at
      BY <1>1 DEF IInv, Fits, Hook, Attempt, None
    <2> HIDE DEF c
    <2>3. CallsFit(hook', calls')
      BY <1>1, <2>1, <2>2 DEF IInv, Fits, CallsFit, Busy
    <2>4. QED
      BY <2>2, <2>3 DEF IInv, Rest, Fits, Shown
  <1>2. CASE ~(joined # None /\ s # None /\ ~hook.busy)
    <2>1. hook' \in Hook /\ hook'.busy = hook.busy /\ hook'.timer = None /\ hook'.at = hook.at
          /\ calls' = calls
      BY <1>2 DEF IInv, Fits, Hook, Attempt, None
    <2>2. QED
      BY <2>1 DEF IInv, Rest, Fits, CallsFit, Shown
  <1>3. QED
    BY <1>1, <1>2

\* A hook newly mounted, by a reload or by a move of the layout.
LEMMA MountInv ==
    ASSUME IInv, NEW at \in {"main", "drawer"}, NEW rest, NEW done \in BOOLEAN,
           Mount(at, rest, done), joined = None => at = "main",
           \A h : h.busy = FALSE => CallsFit(h, rest),
           UNCHANGED <<server, joined, token>>, cooling' \in BOOLEAN
    PROVE  IInv'
  <1> DEFINE g == [NoHook EXCEPT !.at = at]
             fresh == Settled(g, joined, token)
  <1>1. g \in Hook /\ g.busy = FALSE /\ g.timer = None /\ g.at = at
    BY NoHookFits DEF Hook
  <1>2. Fits(fresh, joined, rest) /\ fresh \in Hook /\ fresh.timer = None /\ fresh.at = at
        /\ fresh.busy = FALSE
    <2>1. Fits(fresh, joined, rest)
      BY <1>1, SettledFits DEF Shown
    <2>2. QED
      BY <1>1, <2>1 DEF Fits, Settled, Hook
  <1>3. CASE Boots(at, done)
    <2> DEFINE c == [kind |-> "boot", of |-> token, restored |-> joined, mine |-> TRUE]
    <2>1. c \in Call /\ Busy(c) /\ c.kind = "boot" /\ c.restored # None
          /\ calls' = rest \cup {c} /\ joined # None
      BY <1>3 DEF IInv, Rest, Call, Kinds, Mount, Boots, InRoom, Busy
    <2>2. hook' \in Hook /\ hook'.busy = TRUE /\ hook'.timer = None /\ hook'.at = at
      BY <1>2, <1>3 DEF Hook, Mount
    <2> HIDE DEF c
    <2>3. CallsFit(hook', calls')
      BY <1>2, <2>1, <2>2 DEF Fits, CallsFit, Busy
    <2>4. QED
      BY <1>3, <2>1, <2>2, <2>3 DEF IInv, Rest, Fits, Shown, Mount
  <1>4. CASE ~Boots(at, done)
    BY <1>2, <1>4 DEF IInv, Rest, Mount
  <1>5. QED
    BY <1>3, <1>4
-----------------------------------------------------------------------------
\* The server, joining, leaving, and what is mounted.
LEMMA PlaceInv ==
    ASSUME IInv,
           \/ \E s \in Session : Displaced(s) \/ Expires(s) \/ Join(s)
           \/ Leave \/ Reload \/ \E at \in {"main", "drawer", "off"} : Move(at)
    PROVE  IInv'
  <1>1. ASSUME NEW s \in Session, Displaced(s) \/ Expires(s)
        PROVE  IInv'
    BY <1>1 DEF IInv, Rest, Displaced, Expires
  <1>2. ASSUME NEW s \in Session, Join(s)
        PROVE  IInv'
    <2>1. Fits(Settled(hook, s, s), s, calls)
      BY <1>2, SettledFits DEF IInv, Fits, Join, Shown, None, Session
    <2>2. Rest'
      BY <1>2 DEF IInv, Rest, Join
    <2>3. QED
      BY <1>2, <2>1, <2>2 DEF IInv, Join
  <1>3. CASE Leave
    <2>1. CASE token # None
      BY <1>3, <2>1, BeginFits DEF Leave, IInv, Rest
    <2>2. CASE token = None
      BY <1>3, <2>2, ClearedFits DEF Leave, IInv, Rest, Fits
    <2>3. QED
      BY <2>1, <2>2
  <1>4. CASE Reload
    <2>1. \A h : h.busy = FALSE => CallsFit(h, {})
      BY DEF CallsFit
    <2>2. QED
      BY <1>4, <2>1, MountInv DEF Reload
  <1>5. ASSUME NEW at \in {"main", "drawer", "off"}, Move(at)
        PROVE  IInv'
    <2> DEFINE rest == {Orphaned(c) : c \in calls}
    <2>1. \A h : h.busy = FALSE => CallsFit(h, rest)
      BY OrphansFit
    <2>2. CASE at = "off"
      <3>1. Fits(NoHook, joined, rest)
        BY <1>5, <2>1, NoHookFits DEF Move, Fits, Shown
      <3>2. Rest'
        BY <1>5, <2>2 DEF IInv, Rest, Move
      <3>3. QED
        BY <1>5, <2>2, <3>1, <3>2 DEF IInv, Move
    <2>3. CASE at # "off"
      BY <1>5, <2>1, <2>3, MountInv DEF Move, IInv, Rest
    <2>4. QED
      BY <2>2, <2>3
  <1>6. QED
    BY <1>1, <1>2, <1>3, <1>4, <1>5

\* The timer, the buttons, and calls that begin.
LEMMA BeginInv ==
    ASSUME IInv, Beat \/ TimerFires \/ Retry \/ Rejoin \/ Recover \/ CoolDown
    PROVE  IInv'
  <1>1. CASE Beat
    BY <1>1, BeginFits DEF Beat, InRoom, IInv, Rest
  <1>2. CASE Recover
    BY <1>2, BeginFits DEF Recover, InRoom
  <1>3. CASE TimerFires
    BY <1>3, AttemptInv DEF TimerFires, IInv, Fits, Shown, Hook
  <1>4. CASE Retry
    BY <1>4, AttemptInv DEF Retry, IInv, Rest
  <1>5. CASE Rejoin
    <2> DEFINE h == [hook EXCEPT !.timer = None, !.status = "disconnected"]
    <2>1. h \in Hook /\ h.at = hook.at /\ CallsFit(h, calls)
      BY DEF IInv, Fits, CallsFit, Hook, None
    <2>2. Cleared(h, calls) /\ UNCHANGED <<server, cooling>>
      BY <1>5 DEF Rejoin
    <2> HIDE DEF h
    <2>3. QED
      BY <2>1, <2>2, ClearedFits DEF IInv, Rest
  <1>6. CASE CoolDown
    BY <1>6 DEF IInv, Rest, CoolDown
  <1>7. QED
    BY <1>1, <1>2, <1>3, <1>4, <1>5, <1>6

\* The end of a heartbeat.
LEMMA BeatInv ==
    ASSUME IInv, NEW c \in calls, BeatOk(c) \/ BeatFails(c) \/ WaitEnds(c)
    PROVE  IInv'
  <1>1. Rest' /\ ~Busy(c) /\ UNCHANGED joined
    BY DEF IInv, Rest, BeatOk, BeatFails, WaitEnds, Busy
  <1>2. CASE BeatOk(c)
    <2>1. hook' \in Hook /\ hook'.busy = hook.busy /\ hook'.at = hook.at
          /\ (hook'.timer = None \/ hook' = hook)
      BY <1>2 DEF IInv, Fits, Hook, BeatOk, None
    <2>2. CallsFit(hook', calls')
      BY <1>1, <1>2, <2>1, EndFits DEF BeatOk
    <2>3. QED
      BY <1>1, <2>1, <2>2 DEF IInv, Fits, Shown
  <1>3. CASE BeatFails(c) /\ c.mine
    <2>1. hook.at # "off" /\ c.of \in Session /\ calls' = calls \ {c}
      BY <1>3 DEF IInv, Fits, CallsFit, Call, BeatFails
    <2>2. hook' \in Hook /\ hook'.busy = hook.busy /\ hook'.at = hook.at
          /\ (hook'.timer # None => /\ joined # None /\ hook.at # "off"
                                    /\ hook'.status = "reconnecting" /\ ~hook.busy)
      BY <1>3, <2>1 DEF IInv, Fits, Shown, Hook, BeatFails, Schedule
    <2>3. CallsFit(hook', calls')
      BY <1>1, <2>1, <2>2, EndFits
    <2>4. QED
      BY <1>1, <2>2, <2>3 DEF IInv, Fits, Shown
  <1>4. CASE (BeatFails(c) /\ ~c.mine) \/ WaitEnds(c)
    <2>1. UNCHANGED hook
      BY <1>4 DEF BeatFails, WaitEnds
    <2>2. CASE calls' = calls \ {c}
      BY <1>1, <2>1, <2>2, EndFits DEF IInv, Fits
    <2>3. CASE calls' # calls \ {c}
      <3>1. PICK kind \in {"wait", "attempt"} :
               calls' = (calls \ {c}) \cup {[c EXCEPT !.kind = kind]}
               /\ c.restored # None /\ ~c.mine
        BY <1>4, <2>3 DEF IInv, Fits, CallsFit, BeatFails, WaitEnds
      <3> DEFINE d == [c EXCEPT !.kind = kind]
      <3>2. d \in Call /\ d.kind = kind /\ ~d.mine /\ d.restored # None
        BY <3>1 DEF IInv, Fits, CallsFit, Call, Kinds
      <3>3. CallsFit(hook, calls \ {c})
        BY <1>1, EndFits DEF IInv, Fits
      <3>4. calls' = (calls \ {c}) \cup {d}
        BY <3>1
      <3> HIDE DEF d
      <3>5. CallsFit(hook, calls')
        BY <3>2, <3>3, <3>4 DEF CallsFit, Busy
      <3>6. QED
        BY <1>1, <2>1, <3>5 DEF IInv, Fits
    <2>4. QED
      BY <2>2, <2>3
  <1>5. QED
    BY <1>2, <1>3, <1>4

\* A reconnect, or the check after a reload, that works.
LEMMA OkInv ==
    ASSUME IInv, NEW c \in calls, AttemptOk(c) \/ BootOk(c)
    PROVE  IInv'
  <1>1. c.kind \in {"attempt", "boot"} /\ c.restored \in Session /\ c.restored # None
        /\ joined' = c.restored /\ calls' = calls \ {c}
        /\ UNCHANGED <<server, token, booted, cooling>>
    BY DEF IInv, Fits, CallsFit, Call, AttemptOk, BootOk, None
  <1>2. Rest'
    BY <1>1 DEF IInv, Rest
  <1>3. CASE c.mine
    <2>1. PICK h \in Hook : /\ hook' = Settled(h, c.restored, token)
                            /\ h.busy = FALSE /\ h.at = hook.at /\ h.timer = hook.timer
      <3>1. [hook EXCEPT !.busy = FALSE, !.logged = FALSE, !.status = "connected"] \in Hook
            /\ [hook EXCEPT !.busy = FALSE, !.status = "connected"] \in Hook
        BY DEF IInv, Fits, Hook
      <3>2. QED
        BY <1>3, <3>1 DEF AttemptOk, BootOk, IInv, Fits, Hook
    <2>2. Busy(c) /\ hook.busy
      BY <1>1, <1>3 DEF IInv, Fits, CallsFit, Busy
    <2>3. h.timer = None /\ CallsFit(h, calls')
      BY <1>1, <2>1, <2>2, DoneFits DEF IInv, Fits, Shown
    <2>4. Fits(hook', joined', calls')
      BY <1>1, <2>1, <2>3, SettledFits DEF Shown
    <2>5. QED
      BY <1>2, <2>4 DEF IInv
  <1>4. CASE ~c.mine
    <2>1. hook' = Settled(hook, c.restored, token) /\ ~Busy(c)
      BY <1>4 DEF AttemptOk, BootOk, Busy
    <2>2. CallsFit(hook, calls')
      BY <1>1, <2>1, EndFits DEF IInv, Fits
    <2>3. Fits(hook', joined', calls')
      BY <1>1, <2>1, <2>2, SettledFits DEF IInv, Fits, Shown
    <2>4. QED
      BY <1>2, <2>3 DEF IInv
  <1>5. QED
    BY <1>3, <1>4

\* What a failed reconnect leaves of the hook.
LEMMA FailureFits ==
    ASSUME IInv, NEW c \in calls, c.kind \in {"attempt", "boot"}
    PROVE  /\ AfterFailure(c) \in Hook /\ AfterFailure(c).at = hook.at
           /\ CallsFit(AfterFailure(c), calls \ {c})
           /\ Shown(AfterFailure(c), joined)
  <1>1. CASE c.mine
    <2> DEFINE h == [hook EXCEPT !.busy = FALSE, !.status = "disconnected"]
    <2>1. h \in Hook /\ h.at = hook.at /\ h.busy = FALSE /\ h.timer = hook.timer
      BY DEF IInv, Fits, Hook
    <2>2. Busy(c) /\ hook.busy
      BY <1>1 DEF IInv, Fits, CallsFit, Busy
    <2> HIDE DEF h
    <2>3. CallsFit(h, calls \ {c}) /\ Shown(h, joined)
      BY <2>1, <2>2, DoneFits DEF IInv, Fits, Shown
    <2>4. QED
      BY <1>1, <2>1, <2>3 DEF AfterFailure, h
  <1>2. CASE ~c.mine
    BY <1>2, EndFits DEF IInv, Fits, AfterFailure, Busy
  <1>3. QED
    BY <1>1, <1>2

\* The other ends of calls.
LEMMA EndInv ==
    ASSUME IInv, NEW c \in calls,
           LeaveEnds(c) \/ AttemptFails(c) \/ AttemptRefused(c) \/ BootFails(c) \/ RecoverEnds(c)
    PROVE  IInv'
  <1>1. CASE LeaveEnds(c)
    <2>1. CallsFit(hook, calls \ {c})
      BY <1>1, EndFits DEF LeaveEnds, Busy, IInv, Fits
    <2>2. Cleared(hook, calls \ {c}) /\ UNCHANGED cooling
          /\ server' \in [Session -> {"new", "live", "displaced", "dead"}]
      BY <1>1 DEF LeaveEnds, IInv, Rest
    <2>3. QED
      BY <2>1, <2>2, ClearedFits DEF IInv, Rest, Fits
  <1>2. CASE AttemptFails(c)
    BY <1>2, FailureFits DEF AttemptFails, IInv, Rest, Fits
  <1>3. CASE AttemptRefused(c) \/ BootFails(c)
    <2>1. Cleared(AfterFailure(c), calls \ {c}) /\ UNCHANGED <<server, cooling>>
          /\ c.kind \in {"attempt", "boot"}
      BY <1>3 DEF AttemptRefused, BootFails
    <2>2. QED
      BY <2>1, FailureFits, ClearedFits DEF IInv, Rest
  <1>4. CASE RecoverEnds(c)
    <2>1. Rest' /\ CallsFit(hook, calls') /\ UNCHANGED joined
      BY <1>4, EndFits DEF RecoverEnds, Busy, IInv, Rest, Fits
    <2>2. CASE hook' = hook
      BY <2>1, <2>2 DEF IInv, Fits
    <2>3. CASE hook' = Settled(hook, joined, token)
      <3>1. Fits(hook', joined, calls')
        BY <2>1, <2>3, SettledFits DEF IInv, Fits
      <3>2. QED
        BY <2>1, <3>1 DEF IInv
    <2>4. QED
      BY <1>4, <2>2, <2>3 DEF RecoverEnds
  <1>5. QED
    BY <1>1, <1>2, <1>3, <1>4

LEMMA StepInv ==
    ASSUME IInv, [Next]_vars
    PROVE  IInv'
  <1>1. CASE UNCHANGED vars
    BY <1>1 DEF vars, IInv, Rest
  <1>2. ASSUME NEW c \in calls, Ends(c)
        PROVE  IInv'
    BY <1>2, BeatInv, OkInv, EndInv DEF Ends
  <1>3. QED
    BY <1>1, <1>2, PlaceInv, BeginInv DEF Next

LEMMA AlwaysIInv == Spec => []IInv
  BY InitInv, StepInv, PTL DEF Spec

\* Every reachable state of the page's session keeping is well typed: busy means a
\* reconnect of the mounted hook, and out of a room the page is not in theatre mode.
THEOREM TypeCorrect == Spec => []TypeOK
  BY InvMeans, AlwaysIInv, PTL

\* A countdown to a reconnect runs only on a mounted page that shows a room and says
\* that it is reconnecting, with no reconnect under way.
THEOREM CountdownIsShown == Spec => []CountdownShown
  BY InvMeans, AlwaysIInv, PTL
=============================================================================
