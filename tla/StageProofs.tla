----------------------------- MODULE StageProofs -----------------------------
(***************************************************************************)
(* Proofs about Stage, for any calls, features, leases and times.          *)
(***************************************************************************)
EXTENDS Stage, TLAPS

Labels == {"idle", "default", "write", "tell", "mute", "sign", "ok", "dropped"}

\* A handler at an await has read the clock and knows what it was called for.
Informed ==
    /\ granted \in [Feature -> 0 .. now]
    /\ \A p \in Process :
         /\ at[p] <= now
         /\ (op[p] = "moderate" /\ pc[p] # "idle")
               => arg[p] \in [feature : Feature, enabled : BOOLEAN]

\* Grants that fit the lease, and changes of granted that only lengthen it.
Fits(u) == \A f \in Feature : u[f] > 0 => u[f] <= granted[f] + Lease
AllFit == Fits(record.until) /\ \A p \in Process : Fits(grants[p])

IInv == TypeOK /\ Informed /\ AllFit

LEMMA ClearedFits ==
    ASSUME NEW u \in Grants, NEW t \in Time
    PROVE  /\ Cleared(u, t) \in Grants
           /\ \A f \in Feature : Cleared(u, t)[f] \in {0, u[f]}
BY StageAssumption DEF Cleared, Grants, Time, Lapsed

LEMMA StoredType ==
    ASSUME TypeOK, NEW u \in Grants
    PROVE  Stored(u) \in [until : Grants, dies : Nat \ {0}] /\ Stored(u).until = u
BY StageAssumption DEF Stored, TypeOK, Time

LEMMA NoGrantsType == NoGrants \in Grants /\ \A f \in Feature : NoGrants[f] = 0
BY StageAssumption DEF NoGrants, Grants, Time

\* A step that leaves the clock and the history alone, and takes its grants from those
\* there were, or from none.
LEMMA QuietInv ==
    ASSUME IInv, TypeOK', UNCHANGED <<now, granted>>,
           \A p \in Process : at'[p] = at[p] \/ at'[p] = now,
           \A p \in Process : \/ op'[p] = op[p] /\ arg'[p] = arg[p] /\ (pc[p] = "idle" => pc'[p] = "idle")
                              \/ op'[p] # "moderate"
                              \/ arg'[p] \in [feature : Feature, enabled : BOOLEAN]
                              \/ pc'[p] = "idle",
           \/ record'.until = record.until
           \/ record'.until = NoGrants
           \/ \E p \in Process, t \in Time : record'.until = Cleared(grants[p], t),
           \A p \in Process : grants'[p] \in {grants[p], record.until}
    PROVE  IInv'
  <1>1. \A u : Fits(u)' <=> Fits(u)
    BY DEF Fits
  <1>2. Fits(record'.until)
    <2>1. CASE record'.until = record.until
      BY <2>1 DEF IInv, AllFit
    <2>2. CASE record'.until = NoGrants
      BY <2>2, NoGrantsType DEF Fits
    <2>3. ASSUME NEW p \in Process, NEW t \in Time, record'.until = Cleared(grants[p], t)
          PROVE  Fits(record'.until)
      <3>1. grants[p] \in Grants /\ Fits(grants[p])
        BY DEF IInv, AllFit, TypeOK
      <3>2. QED
        BY <2>3, <3>1, ClearedFits DEF Fits
    <2>4. QED
      BY <2>1, <2>2, <2>3
  <1>3. \A p \in Process : Fits(grants'[p])
    BY DEF IInv, AllFit
  <1>4. AllFit'
    BY <1>1, <1>2, <1>3 DEF AllFit
  <1>5. Informed'
    BY StageAssumption DEF IInv, Informed, TypeOK, Time
  <1>6. QED
    BY <1>4, <1>5 DEF IInv

\* Where a handler goes.
LEMMA DoneGoes ==
    ASSUME NEW p \in Process, Done(p)
    PROVE  \E label \in {"idle", "ok"} : Goto(p, label)
BY DEF Done

LEMMA ResolveGoes ==
    ASSUME NEW p \in Process, NEW h, NEW u, NEW t, Resolve(p, h, u, t)
    PROVE  \E label \in {"write", "sign", "idle", "ok"} : Goto(p, label)
BY DEF Resolve, Done

LEMMA ReadInv ==
    ASSUME IInv, NEW p \in Process, NEW h \in {"moderate", "token", "enforce"}, NEW a,
           IF h = "moderate" THEN a \in [feature : Feature, enabled : BOOLEAN] ELSE a = NoArg,
           Read(p, h, a)
    PROVE  IInv'
  <1>1. PICK label \in Labels : Goto(p, label)
    BY ResolveGoes DEF Read, Labels
  <1>2. record.until \in Grants
    BY NoGrantsType DEF IInv, TypeOK, NoRecord
  <1>3. incident' \in BOOLEAN
    BY DEF Read
  <1>4. /\ op' = [op EXCEPT ![p] = h] /\ arg' = [arg EXCEPT ![p] = a]
        /\ at' = [at EXCEPT ![p] = now] /\ grants' = [grants EXCEPT ![p] = record.until]
        /\ pc' = [pc EXCEPT ![p] = label]
        /\ UNCHANGED <<now, record, online, allowed, onair, token, mute, granted>>
    BY <1>1 DEF Read, livekit, Goto
  <1>5. TypeOK'
    BY <1>2, <1>3, <1>4 DEF IInv, TypeOK, Labels
  <1>6. QED
    BY <1>4, <1>5, QuietInv DEF IInv, TypeOK

LEMMA StepInv ==
    ASSUME IInv, NEW p \in Process,
           Default(p) \/ WriteLapse(p) \/ Tell(p) \/ Mute(p) \/ Sign(p) \/ CutShort(p)
    PROVE  IInv'
  <1>0. TypeOK /\ grants[p] \in Grants /\ at[p] \in Time /\ mute[p] \in SUBSET Feature
    BY DEF IInv, TypeOK
  <1>1. CASE Default(p)
    <2>1. PICK label \in Labels : Goto(p, label)
      BY <1>1, ResolveGoes DEF Default, Labels
    <2>2. NoGrants \in Grants
      BY NoGrantsType
    <2>3. record' \in [until : Grants, dies : Nat \ {0}] /\ record'.until = NoGrants
      BY <1>0, <1>1, <2>2, StoredType DEF Default
    <2>4. TypeOK'
      BY <1>0, <1>1, <2>1, <2>3 DEF Default, TypeOK, Goto, Labels, livekit, locals
    <2>5. QED
      BY <1>1, <2>1, <2>3, <2>4, QuietInv DEF Default, Goto, IInv, TypeOK, locals
  <1>2. CASE WriteLapse(p)
    <2>1. PICK label \in Labels : Goto(p, label)
      BY <1>2 DEF WriteLapse, Labels
    <2>2. /\ record' \in [until : Grants, dies : Nat \ {0}]
          /\ record'.until = Cleared(grants[p], at[p])
      BY <1>0, <1>2, StoredType, ClearedFits DEF WriteLapse
    <2>3. mute' \in [Process -> SUBSET Feature]
      BY <1>0, <1>2 DEF WriteLapse, TypeOK, Lapsed
    <2>4. TypeOK'
      BY <1>0, <1>2, <2>1, <2>2, <2>3 DEF WriteLapse, TypeOK, Goto, Labels, livekit
    <2>5. QED
      BY <1>0, <1>2, <2>1, <2>2, <2>4, QuietInv DEF WriteLapse, Goto, TypeOK
  <1>3. CASE Tell(p)
    <2>1. PICK label \in Labels : Goto(p, label)
      BY <1>3, DoneGoes DEF Tell, Labels
    <2>2. allowed' \in SUBSET Feature
      BY <1>0, <1>3 DEF Tell, TypeOK, InForce
    <2>3. TypeOK'
      BY <1>0, <1>3, <2>1, <2>2 DEF Tell, TypeOK, Goto, Labels, locals
    <2>4. QED
      BY <1>0, <1>3, <2>1, <2>3, QuietInv DEF Tell, Goto, TypeOK, locals
  <1>4. CASE Mute(p)
    <2>1. PICK label \in Labels : Goto(p, label)
      BY <1>0, <1>4, DoneGoes DEF Mute, Labels, TypeOK, Goto
    <2>2. onair' \in SUBSET Feature /\ mute' \in [Process -> SUBSET Feature]
      BY <1>0, <1>4 DEF Mute, TypeOK
    <2>3. TypeOK'
      BY <1>0, <1>4, <2>1, <2>2 DEF Mute, TypeOK, Goto, Labels
    <2>4. QED
      BY <1>0, <1>4, <2>1, <2>3, QuietInv DEF Mute, Goto, TypeOK
  <1>5. CASE Sign(p)
    <2>1. PICK label \in Labels : Goto(p, label)
      BY <1>5, DoneGoes DEF Sign, Labels
    <2>2. token' \in SUBSET Feature /\ mute' \in [Process -> SUBSET Feature]
      BY <1>0, <1>5 DEF Sign, TypeOK, InForce
    <2>3. TypeOK'
      BY <1>0, <1>5, <2>1, <2>2 DEF Sign, TypeOK, Goto, Labels
    <2>4. QED
      BY <1>0, <1>5, <2>1, <2>3, QuietInv DEF Sign, Goto, TypeOK
  <1>6. CASE CutShort(p)
    <2>1. PICK label \in Labels : Goto(p, label)
      BY <1>6 DEF CutShort, Labels
    <2>2. allowed' \in SUBSET Feature /\ mute' \in [Process -> SUBSET Feature]
      BY <1>0, <1>6 DEF CutShort, TypeOK, InForce
    <2>3. incident' \in BOOLEAN
      BY <1>0, <1>6 DEF CutShort, TypeOK
    <2>4. TypeOK'
      BY <1>0, <1>6, <2>1, <2>2, <2>3 DEF CutShort, TypeOK, Goto, Labels
    <2>5. QED
      BY <1>0, <1>6, <2>1, <2>4, QuietInv DEF CutShort, InFlight, Goto, TypeOK
  <1>7. QED
    BY <1>1, <1>2, <1>3, <1>4, <1>5, <1>6

\* The host's change is granted from now, and renews no other grant.
LEMMA WriteChangeInv ==
    ASSUME IInv, NEW r \in Process, WriteChange(r)
    PROVE  IInv'
  <1> DEFINE u == Changed(grants[r], arg[r], now)
             a == arg[r]
  <1>0. /\ TypeOK /\ pc[r] = "write" /\ op[r] = "moderate"
        /\ a \in [feature : Feature, enabled : BOOLEAN]
        /\ grants[r] \in Grants /\ Fits(grants[r]) /\ granted \in [Feature -> 0 .. now]
        /\ now \in Nat \ {0} /\ now \in Time
    BY StageAssumption DEF WriteChange, IInv, Informed, TypeOK, AllFit, Time
  <1>1. a.enabled => now + Lease \in Time
    BY <1>0, StageAssumption DEF WriteChange, Time
  <1>2. /\ u \in Grants
        /\ u[a.feature] = IF a.enabled THEN now + Lease ELSE 0
        /\ \A f \in Feature \ {a.feature} : u[f] = grants[r][f]
    BY <1>0, <1>1, StageAssumption DEF Changed, Grants, Time
  <1>3. /\ record' = Stored(u) /\ grants' = [grants EXCEPT ![r] = u]
        /\ at' = [at EXCEPT ![r] = now]
        /\ mute' = [mute EXCEPT ![r] = IF a.enabled THEN {} ELSE {a.feature}]
        /\ granted' = IF a.enabled THEN [granted EXCEPT ![a.feature] = now] ELSE granted
        /\ Goto(r, "tell")
        /\ UNCHANGED <<now, online, allowed, onair, token, op, arg, incident>>
    BY DEF WriteChange, livekit
  <1> HIDE DEF u
  <1>4. record' \in [until : Grants, dies : Nat \ {0}] /\ record'.until = u
    BY <1>0, <1>2, <1>3, StoredType
  <1>5. /\ granted' \in [Feature -> 0 .. now]
        /\ \A f \in Feature : granted[f] <= granted'[f]
        /\ a.enabled => granted'[a.feature] = now
    BY <1>0, <1>3, StageAssumption
  <1>6. TypeOK'
    <2>1. granted' \in Grants
      <3>1. 0 .. now \subseteq Time
        BY <1>0, StageAssumption DEF Time
      <3>2. QED
        BY <1>5, <3>1 DEF Grants
    <2>2. grants' \in [Process -> Grants] /\ at' \in [Process -> Time]
      BY <1>0, <1>2, <1>3 DEF TypeOK
    <2>3. mute' \in [Process -> SUBSET Feature]
      BY <1>0, <1>3 DEF TypeOK
    <2>4. QED
      BY <1>0, <1>3, <1>4, <2>1, <2>2, <2>3 DEF TypeOK, Goto
  <1>7. Informed'
    BY <1>0, <1>3, <1>5 DEF IInv, Informed, TypeOK, Goto, Time
  <1>8. ASSUME NEW v \in Grants, Fits(v) PROVE \A f \in Feature : v[f] > 0 => v[f] <= granted'[f] + Lease
    BY <1>0, <1>5, <1>8, StageAssumption DEF Fits, Grants, Time
  <1>9. \A f \in Feature : u[f] > 0 => u[f] <= granted'[f] + Lease
    <2>1. ASSUME NEW f \in Feature, f # a.feature PROVE u[f] > 0 => u[f] <= granted'[f] + Lease
      BY <1>0, <1>2, <1>8, <2>1
    <2>2. u[a.feature] > 0 => u[a.feature] <= granted'[a.feature] + Lease
      BY <1>0, <1>2, <1>5, StageAssumption
    <2>3. QED
      BY <2>1, <2>2
  <1>10. ASSUME NEW p \in Process
         PROVE  \A f \in Feature : grants'[p][f] > 0 => grants'[p][f] <= granted'[f] + Lease
    <2>1. CASE p = r
      BY <1>0, <1>3, <1>9, <2>1 DEF TypeOK
    <2>2. CASE p # r
      <3>1. grants'[p] = grants[p] /\ grants[p] \in Grants /\ Fits(grants[p])
        BY <1>0, <1>3, <2>2 DEF TypeOK, IInv, AllFit
      <3>2. QED
        BY <1>8, <3>1
    <2>3. QED
      BY <2>1, <2>2
  <1>11. AllFit'
    BY <1>4, <1>9, <1>10 DEF AllFit, Fits
  <1>12. QED
    BY <1>6, <1>7, <1>11 DEF IInv

\* The connection changes no grant; time only removes a record.
LEMMA ConnectionInv ==
    ASSUME IInv, Connect \/ Disconnect \/ Publish
    PROVE  IInv'
  <1>1. TypeOK'
    <2>0. online \in BOOLEAN /\ incident \in BOOLEAN
          /\ allowed \in SUBSET Feature /\ onair \in SUBSET Feature /\ token \in SUBSET Feature
      BY DEF IInv, TypeOK
    <2>1. /\ online' \in BOOLEAN /\ incident' \in BOOLEAN
          /\ allowed' \in SUBSET Feature /\ onair' \in SUBSET Feature /\ token' \in SUBSET Feature
      <3>1. CASE Connect
        BY <2>0, <3>1 DEF Connect
      <3>2. CASE Disconnect
        BY <2>0, <3>2 DEF Disconnect
      <3>3. CASE Publish
        BY <2>0, <3>3 DEF Publish
      <3>4. QED
        BY <3>1, <3>2, <3>3
    <2>2. UNCHANGED <<now, record, op, pc, arg, at, grants, mute, granted>>
      BY DEF Connect, Disconnect, Publish, locals
    <2>3. QED
      BY <2>1, <2>2 DEF IInv, TypeOK
  <1>2. UNCHANGED <<now, record, granted, at, op, arg, pc, grants>>
    BY DEF Connect, Disconnect, Publish, locals
  <1>3. QED
    BY <1>1, <1>2, QuietInv

LEMMA TickInv ==
    ASSUME IInv, Tick
    PROVE  IInv'
  <1>1. /\ now \in Time /\ now' = now + 1 /\ now' \in Time \ {0}
        /\ record' \in {record, NoRecord} /\ incident' \in BOOLEAN
        /\ UNCHANGED <<online, allowed, onair, token, pc, op, arg, at, grants, mute, granted>>
    BY StageAssumption DEF Tick, IInv, TypeOK, Time, livekit, locals
  <1>2. TypeOK'
    BY <1>1 DEF IInv, TypeOK
  <1>3. Informed'
    <2>1. granted \in [Feature -> 0 .. now'] /\ \A p \in Process : at[p] <= now'
      BY <1>1, StageAssumption DEF IInv, Informed, TypeOK, Time
    <2>2. QED
      BY <1>1, <2>1 DEF IInv, Informed
  <1>4. AllFit'
    BY <1>1, NoGrantsType DEF IInv, AllFit, Fits, NoRecord
  <1>5. QED
    BY <1>2, <1>3, <1>4 DEF IInv

-----------------------------------------------------------------------------
\* The invariant holds in every state.
THEOREM Invariance == Spec => []IInv
  <1>1. Init => IInv
    <2> SUFFICES ASSUME Init PROVE IInv
      OBVIOUS
    <2>0. 1 \in Time /\ 0 \in Time
      BY StageAssumption DEF Time
    <2>1. TypeOK
      <3>1. record = NoRecord /\ now = 1 /\ granted = NoGrants
            /\ online = FALSE /\ incident = FALSE /\ allowed = {} /\ onair = {} /\ token = {}
        BY DEF Init
      <3>2. /\ op \in [Process -> {"none", "moderate", "token", "enforce"}]
            /\ pc \in [Process -> {"idle", "default", "write", "tell", "mute", "sign", "ok", "dropped"}]
            /\ arg \in [Process -> [feature : Feature, enabled : BOOLEAN] \cup {NoArg}]
            /\ at \in [Process -> Time] /\ mute \in [Process -> SUBSET Feature]
        BY <2>0 DEF Init
      <3>3. grants \in [Process -> Grants]
        BY NoGrantsType DEF Init
      <3>4. now \in Time \ {0} /\ record \in {NoRecord} /\ granted \in Grants
        BY <2>0, <3>1, NoGrantsType
      <3>5. online \in BOOLEAN /\ incident \in BOOLEAN
        BY <3>1, Zenon
      <3>6. {allowed, onair, token} \subseteq SUBSET Feature
        BY <3>1
      <3>7. QED
        BY <3>2, <3>3, <3>4, <3>5, <3>6 DEF TypeOK
    <2>2. Informed
      BY NoGrantsType, StageAssumption DEF Init, Informed, Time, NoGrants
    <2>3. AllFit
      BY NoGrantsType DEF Init, AllFit, Fits, NoRecord
    <2>4. QED
      BY <2>1, <2>2, <2>3 DEF IInv
  <1>2. IInv /\ [Next]_vars => IInv'
    <2> SUFFICES ASSUME IInv, [Next]_vars PROVE IInv'
      OBVIOUS
    <2>1. ASSUME NEW r \in Request, Begin(r) PROVE IInv'
      <3>1. r \in Process
        BY DEF Process
      <3>2. CASE AskToken(r)
        BY <3>1, <3>2, ReadInv DEF AskToken
      <3>3. CASE Moderate(r)
        <4>1. PICK f \in Feature, e \in BOOLEAN : Read(r, "moderate", [feature |-> f, enabled |-> e])
          BY <3>3 DEF Moderate
        <4>2. QED
          BY <3>1, <4>1, ReadInv
      <3>4. QED
        BY <2>1, <3>2, <3>3 DEF Begin
    <2>2. CASE Heartbeat
      BY <2>2, ReadInv DEF Heartbeat, Process
    <2>3. ASSUME NEW p \in Process, Step(p) \/ CutShort(p) PROVE IInv'
      BY <2>3, StepInv, WriteChangeInv DEF Step
    <2>4. CASE UNCHANGED vars
      BY <2>4 DEF vars, IInv, TypeOK, Informed, AllFit, Fits, Grants, Time
    <2>5. QED
      BY <2>1, <2>2, <2>3, <2>4, ConnectionInv, TickInv DEF Next
  <1>3. QED
    BY <1>1, <1>2, PTL DEF Spec

\* The record, LiveKit's view and the handlers keep their types, and the leases stay
\* within the bound of the clock.
THEOREM TypeCorrect == Spec => []TypeOK
  <1>1. IInv => TypeOK
    BY DEF IInv
  <1>2. QED
    BY Invariance, <1>1, PTL

\* However many calls read, modify and write the record at once, fail or are repeated,
\* no grant on record or in the hands of a handler is for longer than Lease from the
\* host's last call that enabled it.
THEOREM GrantsFitTheirLease == Spec => []GrantFitsLease
  <1>1. IInv => GrantFitsLease
    BY DEF IInv, AllFit, Fits, GrantFitsLease
  <1>2. QED
    BY Invariance, <1>1, PTL

-----------------------------------------------------------------------------
(* LiveKit and the record agree.  Between handlers that is StageAgrees; what   *)
(* follows says what is true while the one handler there is stands at an await.*)

Agreed == online => /\ InForce(record.until, now) \subseteq allowed
                    /\ allowed \cup onair \subseteq OnRecord
Offline == ~online => allowed = {} /\ onair = {}
Alone == \A p, q \in Process : InFlight(p) /\ InFlight(q) => p = q
Idle == (\A p \in Process : ~InFlight(p)) => Agreed

\* Before its write a handler holds what is on record.
AtRead(p) == pc[p] \in {"default", "write"} =>
    /\ Agreed /\ grants[p] = record.until
    /\ pc[p] = "default" => grants[p] = NoGrants

\* LiveKit may still have what the handler has taken off the record, and the handler is
\* going to mute it.
AtTell(p) == pc[p] = "tell" =>
    /\ InForce(grants[p], at[p]) \subseteq OnRecord
    /\ InForce(record.until, now) \subseteq InForce(grants[p], at[p])
    /\ allowed \cup onair \subseteq OnRecord \cup mute[p]

\* A track stays on air until it is muted.
AtMute(p) == (pc[p] = "mute" /\ online) =>
    /\ InForce(record.until, now) \subseteq allowed
    /\ allowed \subseteq OnRecord
    /\ onair \subseteq OnRecord \cup mute[p]

AtAwait(p) == AtRead(p) /\ AtTell(p) /\ AtMute(p)
Steady == Alone /\ Idle /\ \A p \in Process : AtAwait(p)
AgreeInv == Offline /\ (~incident => Steady)

\* When one handler moves and no other is in flight, only that one has to be looked at.
LEMMA OneMoves ==
    ASSUME TypeOK, NEW p \in Process, NEW label,
           \A q \in Process : InFlight(q) => q = p,
           Goto(p, label),
           AtAwait(p)',
           label \in {"idle", "ok", "dropped"} => Agreed'
    PROVE  Steady'
  <1>1. pc'[p] = label /\ \A q \in Process : q # p => pc'[q] \in {"idle", "ok", "dropped"}
    BY DEF TypeOK, Goto, InFlight
  <1>2. \A q \in Process : q # p => ~InFlight(q)' /\ AtAwait(q)'
    BY <1>1 DEF InFlight, AtAwait, AtRead, AtTell, AtMute
  <1>3. Alone'
    BY <1>2 DEF Alone
  <1>4. Idle'
    BY <1>1 DEF Idle, InFlight
  <1>5. QED
    BY <1>2, <1>3, <1>4 DEF Steady

\* A read finds every handler out of flight, and the two sides in agreement.
LEMMA ReadAgrees ==
    ASSUME IInv, AgreeInv, NEW p \in Process, NEW h, NEW a, Read(p, h, a)
    PROVE  AgreeInv'
  <1>0. TypeOK /\ pc[p] = "idle" /\ record.until \in Grants
    BY NoGrantsType DEF IInv, TypeOK, NoRecord, Read
  <1>1. Offline'
    BY DEF AgreeInv, Offline, Read, livekit
  <1>2. ASSUME ~incident' PROVE Steady'
    <2>1. ~incident /\ \A q \in Process : ~InFlight(q)
      BY <1>2 DEF Read
    <2>2. Agreed /\ Agreed'
      BY <2>1 DEF AgreeInv, Steady, Idle, Agreed, Read, livekit, InForce, OnRecord
    <2>3. grants'[p] = record.until /\ record' = record
      BY <1>0 DEF Read, TypeOK
    <2>4. CASE record = NoRecord
      <3>1. Goto(p, "default") /\ pc'[p] = "default"
        BY <1>0, <2>4 DEF Read, Goto, TypeOK
      <3>2. AtAwait(p)'
        BY <2>2, <2>3, <2>4, <3>1 DEF AtAwait, AtRead, AtTell, AtMute, NoRecord
      <3>3. QED
        BY <1>0, <2>1, <3>1, <3>2, OneMoves
    <2>5. CASE record # NoRecord
      <3>1. PICK label \in {"write", "sign", "idle", "ok"} : Goto(p, label)
        BY <2>5, ResolveGoes DEF Read
      <3>2. pc'[p] = label
        BY <1>0, <3>1 DEF Goto, TypeOK
      <3>3. AtAwait(p)'
        BY <2>2, <2>3, <3>2 DEF AtAwait, AtRead, AtTell, AtMute
      <3>4. QED
        BY <1>0, <2>1, <2>2, <3>1, <3>3, OneMoves
    <2>6. QED
      BY <2>4, <2>5
  <1>3. QED
    BY <1>1, <1>2 DEF AgreeInv

\* A default record grants what no record grants: nothing.
LEMMA DefaultAgrees ==
    ASSUME IInv, AgreeInv, NEW p \in Process, Default(p)
    PROVE  AgreeInv'
  <1>0. TypeOK /\ pc[p] = "default" /\ InFlight(p)
    BY DEF IInv, Default, InFlight
  <1>1. Offline'
    BY DEF AgreeInv, Offline, Default, livekit
  <1>2. ASSUME ~incident' PROVE Steady'
    <2>1. ~incident /\ Alone /\ AtRead(p)
      BY <1>2 DEF Default, AgreeInv, Steady, AtAwait
    <2>2. grants[p] = NoGrants /\ record.until = NoGrants /\ Agreed
      BY <1>0, <2>1 DEF AtRead
    <2>3. record'.until = NoGrants
      BY <1>0, NoGrantsType, StoredType DEF Default
    <2>4. Agreed'
      BY <2>2, <2>3 DEF Agreed, Default, livekit, InForce, OnRecord
    <2>5. PICK label \in {"write", "sign", "idle", "ok"} : Goto(p, label)
      BY ResolveGoes DEF Default
    <2>6. pc'[p] = label /\ grants'[p] = NoGrants
      BY <1>0, <2>2, <2>5 DEF Goto, TypeOK, Default, locals
    <2>7. AtAwait(p)'
      BY <2>3, <2>4, <2>6 DEF AtAwait, AtRead, AtTell, AtMute
    <2>8. QED
      BY <1>0, <2>1, <2>4, <2>5, <2>7, OneMoves DEF Alone
  <1>3. QED
    BY <1>1, <1>2 DEF AgreeInv

\* What the host takes away is off the record, and is going to be muted.
LEMMA ChangeAgrees ==
    ASSUME IInv, AgreeInv, NEW r \in Process, WriteChange(r)
    PROVE  AgreeInv'
  <1> DEFINE u == Changed(grants[r], arg[r], now)
             a == arg[r]
  <1>0. /\ TypeOK /\ pc[r] = "write" /\ InFlight(r)
        /\ a \in [feature : Feature, enabled : BOOLEAN]
        /\ grants[r] \in Grants /\ now \in Nat \ {0} /\ now \in Time
    BY StageAssumption DEF WriteChange, IInv, Informed, TypeOK, InFlight, Time
  <1>1. a.enabled => now + Lease \in Time
    BY <1>0, StageAssumption DEF WriteChange, Time
  <1>2. /\ u \in Grants
        /\ u[a.feature] = IF a.enabled THEN now + Lease ELSE 0
        /\ \A f \in Feature \ {a.feature} : u[f] = grants[r][f]
    BY <1>0, <1>1, StageAssumption DEF Changed, Grants, Time
  <1>3. /\ record' = Stored(u) /\ grants'[r] = u /\ at'[r] = now
        /\ mute'[r] = IF a.enabled THEN {} ELSE {a.feature}
        /\ Goto(r, "tell") /\ pc'[r] = "tell"
        /\ UNCHANGED <<now, online, allowed, onair, incident>>
    BY <1>0 DEF WriteChange, livekit, TypeOK, Goto
  <1> HIDE DEF u
  <1>4. record'.until = u
    BY <1>0, <1>2, <1>3, StoredType
  <1>5. Offline'
    BY <1>3 DEF AgreeInv, Offline
  <1>6. ASSUME ~incident' PROVE Steady'
    <2>1. ~incident /\ Alone /\ Offline /\ Agreed /\ grants[r] = record.until
      BY <1>0, <1>3, <1>6 DEF AgreeInv, Steady, AtAwait, AtRead
    <2>2. allowed \cup onair \subseteq OnRecord
      BY <2>1 DEF Agreed, Offline
    <2>3. OnRecord' = {f \in Feature : u[f] > 0}
      BY <1>4 DEF OnRecord
    <2>4. InForce(grants'[r], at'[r]) \subseteq OnRecord'
      BY <1>0, <1>2, <1>3, <2>3 DEF InForce, Grants, Time
    <2>5. InForce(record'.until, now') \subseteq InForce(grants'[r], at'[r])
      BY <1>3, <1>4 DEF InForce
    <2>6. \A f \in OnRecord : f \in OnRecord' \cup mute'[r]
      BY <1>0, <1>2, <1>3, <2>1, <2>3, StageAssumption DEF OnRecord
    <2>7. AtAwait(r)'
      BY <1>3, <2>2, <2>4, <2>5, <2>6 DEF AtAwait, AtRead, AtTell, AtMute, InForce
    <2>8. QED
      BY <1>0, <1>3, <2>1, <2>7, OneMoves DEF Alone
  <1>7. QED
    BY <1>5, <1>6 DEF AgreeInv

\* So is what has lapsed; what has not is on record still.
LEMMA LapseAgrees ==
    ASSUME IInv, AgreeInv, NEW p \in Process, WriteLapse(p)
    PROVE  AgreeInv'
  <1> DEFINE u == Cleared(grants[p], at[p])
  <1>0. /\ TypeOK /\ pc[p] = "write" /\ InFlight(p) /\ at[p] \in Time /\ at[p] <= now
        /\ grants[p] \in Grants /\ now \in Nat
    BY StageAssumption DEF WriteLapse, IInv, Informed, TypeOK, InFlight, Time
  <1>1. u \in Grants /\ \A f \in Feature : u[f] = IF f \in Lapsed(grants[p], at[p])
                                                  THEN 0 ELSE grants[p][f]
    BY <1>0, ClearedFits DEF Cleared
  <1>2. /\ record' = Stored(u) /\ mute'[p] = Lapsed(grants[p], at[p])
        /\ UNCHANGED <<now, online, allowed, onair, at, grants, incident>>
    BY <1>0 DEF WriteLapse, livekit, TypeOK
  <1>3. PICK label \in {"sign", "tell"} : Goto(p, label)
    BY DEF WriteLapse
  <1>4. pc'[p] = label
    BY <1>0, <1>3 DEF TypeOK, Goto
  <1> HIDE DEF u
  <1>5. record'.until = u
    BY <1>0, <1>1, <1>2, StoredType
  <1>6. Offline'
    BY <1>2 DEF AgreeInv, Offline
  <1>7. ASSUME ~incident' PROVE Steady'
    <2>1. ~incident /\ Alone /\ Offline /\ Agreed /\ grants[p] = record.until
      BY <1>0, <1>2, <1>7 DEF AgreeInv, Steady, AtAwait, AtRead
    <2>2. allowed \cup onair \subseteq OnRecord
      BY <2>1 DEF Agreed, Offline
    <2>3. OnRecord' = {f \in Feature : u[f] > 0}
      BY <1>5 DEF OnRecord
    <2>4. InForce(grants'[p], at'[p]) \subseteq OnRecord'
      BY <1>0, <1>1, <1>2, <2>3 DEF InForce, Lapsed, Grants, Time
    <2>5. InForce(record'.until, now') \subseteq InForce(grants'[p], at'[p])
      BY <1>0, <1>1, <1>2, <1>5 DEF InForce, Lapsed, Grants, Time
    <2>6. \A f \in OnRecord : f \in OnRecord' \cup mute'[p]
      BY <1>1, <1>2, <2>1, <2>3 DEF OnRecord
    <2>7. AtAwait(p)'
      BY <1>2, <1>3, <1>4, <2>2, <2>4, <2>5, <2>6 DEF AtAwait, AtRead, AtTell, AtMute, InForce
    <2>8. QED
      BY <1>0, <1>3, <2>1, <2>7, OneMoves DEF Alone
  <1>8. QED
    BY <1>6, <1>7 DEF AgreeInv

\* LiveKit is told what is on record, and what is not is muted.
LEMMA TellAgrees ==
    ASSUME IInv, AgreeInv, NEW p \in Process, Tell(p)
    PROVE  AgreeInv'
  <1>0. TypeOK /\ pc[p] = "tell" /\ InFlight(p)
    BY DEF IInv, Tell, InFlight
  <1>1. UNCHANGED <<now, record, online, onair, grants, at, mute, incident>>
    BY DEF Tell, locals
  <1>2. Offline'
    BY <1>1 DEF AgreeInv, Offline, Tell
  <1>3. ASSUME ~incident' PROVE Steady'
    <2>1. ~incident /\ Alone /\ AtTell(p) /\ AtMute(p)
      BY <1>1, <1>3 DEF AgreeInv, Steady, AtAwait
    <2>2. PICK label \in {"idle", "ok", "mute"} :
              Goto(p, label) /\ (label # "mute" => mute[p] = {})
      BY DoneGoes DEF Tell
    <2>3. pc'[p] = label
      BY <1>0, <2>2 DEF TypeOK, Goto
    <2>4. online' => /\ InForce(record'.until, now') \subseteq allowed'
                     /\ allowed' \subseteq OnRecord'
                     /\ onair' \subseteq OnRecord' \cup mute'[p]
      BY <1>0, <1>1, <2>1 DEF AtTell, Tell, OnRecord
    <2>5. AtAwait(p)'
      BY <2>2, <2>3, <2>4 DEF AtAwait, AtRead, AtTell, AtMute, InForce
    <2>6. label \in {"idle", "ok", "dropped"} => Agreed'
      BY <1>1, <2>2, <2>4 DEF Agreed, InForce
    <2>7. QED
      BY <1>0, <2>1, <2>2, <2>5, <2>6, OneMoves DEF Alone
  <1>4. QED
    BY <1>2, <1>3 DEF AgreeInv

LEMMA MuteAgrees ==
    ASSUME IInv, AgreeInv, NEW p \in Process, Mute(p)
    PROVE  AgreeInv'
  <1>0. TypeOK /\ pc[p] = "mute" /\ InFlight(p)
    BY DEF IInv, Mute, InFlight
  <1>1. UNCHANGED <<now, record, online, allowed, incident>>
    BY DEF Mute
  <1>2. PICK f \in mute[p] : /\ onair' = onair \ {f} /\ mute'[p] = mute[p] \ {f}
                             /\ IF mute[p] = {f} THEN Done(p) ELSE UNCHANGED pc
    BY <1>0 DEF Mute, TypeOK
  <1>3. Offline'
    BY <1>1, <1>2 DEF AgreeInv, Offline
  <1>4. ASSUME ~incident' PROVE Steady'
    <2>1. ~incident /\ Alone /\ AtMute(p)
      BY <1>1, <1>4 DEF AgreeInv, Steady, AtAwait
    <2>2. online' => /\ InForce(record'.until, now') \subseteq allowed'
                     /\ allowed' \subseteq OnRecord'
                     /\ onair' \subseteq OnRecord' \cup mute'[p]
      BY <1>0, <1>1, <1>2, <2>1 DEF AtMute, OnRecord, InForce
    <2>3. PICK label \in {"idle", "ok", "mute"} :
              Goto(p, label) /\ (label # "mute" => mute'[p] = {})
      <3>1. CASE mute[p] = {f}
        BY <1>2, <3>1, DoneGoes
      <3>2. CASE mute[p] # {f}
        BY <1>0, <1>2, <3>2 DEF Goto, TypeOK
      <3>3. QED
        BY <3>1, <3>2
    <2>4. pc'[p] = label
      BY <1>0, <2>3 DEF TypeOK, Goto
    <2>5. AtAwait(p)'
      BY <2>2, <2>4 DEF AtAwait, AtRead, AtTell, AtMute, InForce
    <2>6. label \in {"idle", "ok", "dropped"} => Agreed'
      BY <2>2, <2>3 DEF Agreed, InForce
    <2>7. QED
      BY <1>0, <2>1, <2>3, <2>5, <2>6, OneMoves DEF Alone
  <1>5. QED
    BY <1>3, <1>4 DEF AgreeInv

\* A new token closes the connection; a handler cut short after its write is an
\* incident, one cut short before it has changed nothing.
LEMMA EndAgrees ==
    ASSUME IInv, AgreeInv, NEW p \in Process, Sign(p) \/ CutShort(p)
    PROVE  AgreeInv'
  <1>0. TypeOK /\ InFlight(p)
    BY DEF IInv, Sign, CutShort, InFlight
  <1>1. CASE Sign(p)
    <2>1. PICK label \in {"idle", "ok"} : Goto(p, label)
      BY <1>1, DoneGoes DEF Sign
    <2>2. pc'[p] = label
      BY <1>0, <2>1 DEF TypeOK, Goto
    <2>3. ~online' /\ Offline' /\ incident' = incident
      BY <1>1 DEF Sign, Offline
    <2>4. Agreed' /\ AtAwait(p)'
      BY <2>2, <2>3 DEF Agreed, AtAwait, AtRead, AtTell, AtMute
    <2>5. QED
      BY <1>0, <2>1, <2>3, <2>4, OneMoves DEF AgreeInv, Steady, Alone
  <1>2. CASE CutShort(p)
    <2>1. PICK label \in {"idle", "dropped"} : Goto(p, label)
      BY <1>2 DEF CutShort
    <2>2. pc'[p] = label
      BY <1>0, <2>1 DEF TypeOK, Goto
    <2>3. Offline'
      BY <1>2 DEF CutShort, AgreeInv, Offline
    <2>4. ASSUME ~incident' PROVE Steady'
      <3>1. ~incident /\ pc[p] \in {"default", "write"}
        BY <1>0, <1>2, <2>4 DEF CutShort, InFlight, TypeOK
      <3>2. Alone /\ Agreed
        BY <3>1 DEF AgreeInv, Steady, AtAwait, AtRead
      <3>3. UNCHANGED <<now, record, online, allowed, onair>>
        BY <1>2, <3>1 DEF CutShort
      <3>4. Agreed' /\ AtAwait(p)'
        BY <2>2, <3>2, <3>3 DEF Agreed, InForce, OnRecord, AtAwait, AtRead, AtTell, AtMute
      <3>5. QED
        BY <1>0, <2>1, <3>2, <3>4, OneMoves DEF Alone
    <2>5. QED
      BY <2>3, <2>4 DEF AgreeInv
  <1>3. QED
    BY <1>1, <1>2

\* A connection takes up a token that agrees with the record, or is an incident.
LEMMA ConnectionAgrees ==
    ASSUME IInv, AgreeInv, Connect \/ Disconnect \/ Publish
    PROVE  AgreeInv'
  <1>1. UNCHANGED <<now, record, pc, op, arg, at, grants, mute>>
    BY DEF Connect, Disconnect, Publish, locals
  <1>2. Offline'
    BY DEF Connect, Disconnect, Publish, AgreeInv, Offline
  <1>3. ASSUME ~incident' PROVE Steady'
    <2>1. ~incident /\ Steady
      <3>1. CASE Connect
        BY <1>3, <3>1 DEF Connect, AgreeInv
      <3>2. CASE Disconnect \/ Publish
        BY <1>3, <3>2 DEF Disconnect, Publish, AgreeInv
      <3>3. QED
        BY <3>1, <3>2
    <2>2. OnRecord' = OnRecord /\ InForce(record'.until, now') = InForce(record.until, now)
      BY <1>1 DEF OnRecord, InForce
    <2>3. \/ ~online'
          \/ /\ InForce(record.until, now) \subseteq allowed' /\ allowed' \subseteq OnRecord
             /\ onair' = {}
          \/ online /\ allowed' = allowed /\ onair' \subseteq onair \cup allowed
      BY <1>3 DEF Connect, Disconnect, Publish, AgreeInv, Offline
    <2>4. Agreed => Agreed'
      BY <2>2, <2>3 DEF Agreed
    <2>5. Alone'
      BY <1>1, <2>1 DEF Steady, Alone, InFlight
    <2>6. Idle'
      BY <1>1, <2>1, <2>4 DEF Steady, Idle, InFlight
    <2>7. ASSUME NEW p \in Process PROVE AtAwait(p)'
      <3>1. AtRead(p) /\ AtTell(p) /\ AtMute(p)
        BY <2>1 DEF Steady, AtAwait
      <3>2. AtRead(p)'
        BY <1>1, <2>4, <3>1 DEF AtRead
      <3>3. AtTell(p)'
        <4>1. allowed' \cup onair' \subseteq OnRecord \cup allowed \cup onair
          BY <1>2, <2>3 DEF Offline
        <4>2. QED
          BY <1>1, <2>2, <3>1, <4>1 DEF AtTell, InForce
      <3>4. AtMute(p)'
        BY <1>1, <2>2, <2>3, <3>1 DEF AtMute
      <3>5. QED
        BY <3>2, <3>3, <3>4 DEF AtAwait
    <2>8. QED
      BY <2>5, <2>6, <2>7 DEF Steady
  <1>4. QED
    BY <1>2, <1>3 DEF AgreeInv

\* As time goes on fewer grants are in force; a record that goes had none, or is an
\* incident.
LEMMA TickAgrees ==
    ASSUME IInv, AgreeInv, Tick
    PROVE  AgreeInv'
  <1>1. /\ UNCHANGED <<online, allowed, onair, pc, op, arg, at, grants, mute>>
        /\ now \in Nat /\ now' = now + 1 /\ record.until \in Grants
    BY StageAssumption, NoGrantsType DEF Tick, livekit, locals, IInv, TypeOK, Time, NoRecord
  <1>2. Offline'
    BY <1>1 DEF AgreeInv, Offline
  <1>3. ASSUME ~incident' PROVE Steady'
    <2>1. ~incident /\ Steady
      BY <1>3 DEF Tick, AgreeInv
    <2>2. record'.until = record.until
      <3>1. CASE record' = record
        BY <3>1
      <3>2. CASE record' = NoRecord
        <4>1. OnRecord = {}
          BY <1>3, <3>2 DEF Tick
        <4>2. \A f \in Feature : record.until[f] = 0
          BY <1>1, <4>1 DEF OnRecord, Grants, Time
        <4>3. record.until = NoGrants
          BY <1>1, <4>2 DEF Grants, NoGrants
        <4>4. QED
          BY <3>2, <4>3 DEF NoRecord
      <3>3. QED
        BY <3>1, <3>2 DEF Tick
    <2>3. OnRecord' = OnRecord /\ InForce(record'.until, now') \subseteq InForce(record.until, now)
      BY <1>1, <2>2 DEF OnRecord, InForce, Grants, Time
    <2>4. Agreed => Agreed'
      BY <1>1, <2>3 DEF Agreed
    <2>5. Alone'
      BY <1>1, <2>1 DEF Steady, Alone, InFlight
    <2>6. Idle'
      BY <1>1, <2>1, <2>4 DEF Steady, Idle, InFlight
    <2>7. ASSUME NEW p \in Process PROVE AtAwait(p)'
      <3>1. AtRead(p) /\ AtTell(p) /\ AtMute(p)
        BY <2>1 DEF Steady, AtAwait
      <3>2. AtRead(p)'
        BY <1>1, <2>2, <2>4, <3>1 DEF AtRead
      <3>3. AtTell(p)'
        <4>1. InForce(grants'[p], at'[p]) = InForce(grants[p], at[p])
          BY <1>1
        <4>2. QED
          BY <1>1, <2>3, <3>1, <4>1 DEF AtTell
      <3>4. AtMute(p)'
        BY <1>1, <2>3, <3>1 DEF AtMute
      <3>5. QED
        BY <3>2, <3>3, <3>4 DEF AtAwait
    <2>8. QED
      BY <2>5, <2>6, <2>7 DEF Steady
  <1>4. QED
    BY <1>2, <1>3 DEF AgreeInv

\* Every step keeps the agreement.
LEMMA AgreementKept ==
    ASSUME IInv, AgreeInv, [Next]_vars
    PROVE  AgreeInv'
  <1>1. ASSUME NEW r \in Request, Begin(r) PROVE AgreeInv'
    BY <1>1, ReadAgrees DEF Begin, Moderate, AskToken, Process
  <1>2. CASE Heartbeat
    BY <1>2, ReadAgrees DEF Heartbeat, Process
  <1>3. ASSUME NEW p \in Process, Step(p) \/ CutShort(p) PROVE AgreeInv'
    BY <1>3, DefaultAgrees, ChangeAgrees, LapseAgrees, TellAgrees, MuteAgrees, EndAgrees
       DEF Step
  <1>4. CASE UNCHANGED vars
    BY <1>4 DEF vars, livekit, locals, AgreeInv, Offline, Steady, Alone, Idle, Agreed,
                InFlight, AtAwait, AtRead, AtTell, AtMute, InForce, OnRecord
  <1>5. QED
    BY <1>1, <1>2, <1>3, <1>4, ConnectionAgrees, TickAgrees DEF Next

THEOREM AgreementInvariance == Spec => [](IInv /\ AgreeInv)
  <1>1. Init => AgreeInv
    BY DEF Init, AgreeInv, Offline, Steady, Alone, Idle, Agreed, InFlight,
           AtAwait, AtRead, AtTell, AtMute
  <1>2. QED
    BY Invariance, <1>1, AgreementKept, PTL DEF Spec

\* Without an incident, whenever no handler is under way, a connected member may use
\* every grant in force, and what it may use or has on air is on record.
THEOREM RecordAndRoomAgree == Spec => []StageAgrees
  <1>1. AgreeInv => StageAgrees
    BY DEF AgreeInv, Steady, Idle, Agreed, StageAgrees
  <1>2. QED
    BY AgreementInvariance, <1>1, PTL

-----------------------------------------------------------------------------
(* A heartbeat that is accepted has ended what had lapsed.                     *)

\* Once a heartbeat has written, nothing on record had lapsed when it read the clock.
Swept ==
    /\ op[Page] # "moderate"
    /\ (~incident /\ pc[Page] \in {"tell", "mute"})
          => \A f \in OnRecord : record.until[f] > at[Page]

LEMMA ReadGoes ==
    ASSUME NEW p \in Process, NEW h, NEW a, Read(p, h, a)
    PROVE  \E label \in {"default", "write", "sign", "idle", "ok"} : Goto(p, label)
  <1>1. CASE record = NoRecord
    BY <1>1 DEF Read
  <1>2. CASE record # NoRecord
    <2>1. Resolve(p, h, record.until, now)
      BY <1>2 DEF Read
    <2>2. QED
      BY <2>1, ResolveGoes
  <1>3. QED
    BY <1>1, <1>2

\* No other handler moves while the page's is in flight, without an incident.
LEMMA OthersSweep ==
    ASSUME IInv, AgreeInv, Swept, NEW p \in Request,
           Begin(p) \/ Step(p) \/ CutShort(p)
    PROVE  Swept'
  <1>0. TypeOK /\ p \in Process /\ Page \in Process /\ p # Page
    BY StageAssumption DEF IInv, Process
  <1>1. CASE Begin(p)
    <2>1. PICK h, a : Read(p, h, a)
      BY <1>1 DEF Begin, Moderate, AskToken
    <2>2. op'[Page] = op[Page] /\ (InFlight(Page) => incident')
      BY <1>0, <2>1 DEF Read, TypeOK
    <2>3. pc'[Page] = pc[Page]
      BY <1>0, <2>1, ReadGoes DEF Goto, TypeOK
    <2>4. pc'[Page] \in {"tell", "mute"} => incident'
      BY <2>2, <2>3 DEF InFlight
    <2>5. QED
      BY <2>2, <2>4 DEF Swept
  <1>2. CASE Step(p) \/ CutShort(p)
    <2>1. /\ op' = op /\ InFlight(p)
          /\ incident => incident'
      <3>1. CASE Step(p)
        BY <3>1 DEF Step, Default, WriteChange, WriteLapse, Tell, Mute, Sign, InFlight, locals
      <3>2. CASE CutShort(p)
        <4>1. op' = op /\ InFlight(p)
          BY <3>2 DEF CutShort
        <4>2. incident => incident'
          BY <3>2, Zenon DEF CutShort
        <4>3. QED
          BY <4>1, <4>2
      <3>3. QED
        BY <1>2, <3>1, <3>2
    <2>2. \/ UNCHANGED pc
          \/ \E label \in Labels : Goto(p, label)
      BY <1>0, <1>2, ResolveGoes, DoneGoes
         DEF Step, CutShort, Default, WriteChange, WriteLapse, Tell, Mute, Sign, Labels
    <2>3. pc'[Page] = pc[Page]
      BY <1>0, <2>2 DEF Goto, TypeOK
    <2>4. ~incident => ~InFlight(Page)
      BY <1>0, <2>1 DEF AgreeInv, Steady, Alone
    <2>5. pc'[Page] \in {"tell", "mute"} => incident'
      BY <2>1, <2>3, <2>4 DEF InFlight
    <2>6. QED
      BY <2>1, <2>5 DEF Swept
  <1>3. QED
    BY <1>1, <1>2

LEMMA PageSweeps ==
    ASSUME IInv, AgreeInv, Swept, Heartbeat \/ Step(Page) \/ CutShort(Page)
    PROVE  Swept'
  <1>0. /\ TypeOK /\ Page \in Process /\ at[Page] \in Time /\ grants[Page] \in Grants
        /\ op[Page] # "moderate"
    BY DEF IInv, TypeOK, Process, Swept
  <1>1. CASE Heartbeat
    <2>1. op'[Page] = "enforce"
      BY <1>0, <1>1 DEF Heartbeat, Read, TypeOK
    <2>2. \E label \in {"default", "write", "sign", "idle", "ok"} : Goto(Page, label)
      BY <1>0, <1>1, ReadGoes DEF Heartbeat
    <2>3. pc'[Page] \notin {"tell", "mute"}
      BY <1>0, <2>2 DEF Goto, TypeOK
    <2>4. QED
      BY <2>1, <2>3 DEF Swept
  <1>2. CASE Default(Page) \/ Sign(Page) \/ CutShort(Page)
    <2>1. op' = op
      BY <1>2 DEF Default, Sign, CutShort, locals
    <2>2. \E label \in {"write", "sign", "idle", "ok", "dropped"} : Goto(Page, label)
      <3>1. CASE Default(Page)
        BY <1>0, <3>1, ResolveGoes DEF Default
      <3>2. CASE Sign(Page)
        BY <1>0, <3>2, DoneGoes DEF Sign
      <3>3. CASE CutShort(Page)
        BY <3>3 DEF CutShort
      <3>4. QED
        BY <1>2, <3>1, <3>2, <3>3
    <2>3. pc'[Page] \notin {"tell", "mute"}
      BY <1>0, <2>2 DEF Goto, TypeOK
    <2>4. QED
      BY <1>0, <2>1, <2>3 DEF Swept
  <1>3. CASE WriteLapse(Page)
    <2>1. op' = op /\ at' = at
      BY <1>3 DEF WriteLapse
    <2>2. record'.until = Cleared(grants[Page], at[Page])
      BY <1>0, <1>3, StoredType, ClearedFits DEF WriteLapse
    <2>3. \A f \in OnRecord' : record'.until[f] > at'[Page]
      BY <1>0, <2>1, <2>2 DEF OnRecord, Cleared, Lapsed, Grants, Time
    <2>4. QED
      BY <1>0, <2>1, <2>3 DEF Swept
  <1>4. CASE Tell(Page) \/ Mute(Page)
    <2>1. UNCHANGED <<op, at, record, incident>> /\ pc[Page] \in {"tell", "mute"}
      BY <1>4 DEF Tell, Mute, locals
    <2>2. QED
      BY <2>1 DEF Swept, OnRecord
  <1>5. CASE WriteChange(Page)
    BY <1>0, <1>5 DEF WriteChange
  <1>6. QED
    BY <1>1, <1>2, <1>3, <1>4, <1>5 DEF Step

LEMMA SweptKept ==
    ASSUME IInv, AgreeInv, Swept, [Next]_vars
    PROVE  Swept'
  <1>1. CASE Connect \/ Disconnect \/ Publish
    <2>1. UNCHANGED <<op, pc, at, record>>
      BY <1>1 DEF Connect, Disconnect, Publish, locals
    <2>2. incident => incident'
      <3>1. CASE Connect
        BY <3>1, Zenon DEF Connect
      <3>2. CASE Disconnect \/ Publish
        BY <3>2 DEF Disconnect, Publish
      <3>3. QED
        BY <1>1, <3>1, <3>2
    <2>3. QED
      BY <2>1, <2>2 DEF Swept, OnRecord
  <1>2. CASE Tick
    <2>1. UNCHANGED <<op, pc, at>> /\ (incident => incident') /\ record' \in {record, NoRecord}
      BY <1>2 DEF Tick, locals
    <2>2. record' = NoRecord => OnRecord' = {}
      BY NoGrantsType DEF OnRecord, NoRecord
    <2>3. QED
      BY <2>1, <2>2 DEF Swept, OnRecord
  <1>3. CASE UNCHANGED vars
    BY <1>3 DEF vars, locals, Swept, OnRecord
  <1>4. QED
    BY <1>1, <1>2, <1>3, OthersSweep, PageSweeps DEF Next, Process

\* When the page's handler is done no handler is in flight, and what is on record had
\* not lapsed when it read the clock.
LEMMA AcceptedStep ==
    ASSUME IInv, IInv', AgreeInv, AgreeInv', Swept,
           pc'[Page] = "idle", ~incident', Heartbeat \/ Step(Page)
    PROVE  \A f \in allowed' \cup onair' : at'[Page] < granted[f] + Lease
  <1>0. /\ TypeOK /\ Page \in Process /\ grants[Page] \in Grants
        /\ record.until \in Grants /\ now \in Nat /\ at[Page] \in Nat
    BY NoGrantsType, StageAssumption DEF IInv, TypeOK, Process, NoRecord, Time
  <1>1. granted' = granted
    BY DEF Swept, Heartbeat, Read, Step, Default, WriteChange, WriteLapse, Tell, Mute, Sign
  <1>2. \A q \in Process : ~InFlight(q)'
    <2>1. \A q \in Process : q # Page => ~InFlight(q)
      <3>1. CASE Heartbeat
        BY <3>1 DEF Heartbeat, Read
      <3>2. CASE Step(Page)
        <4>1. InFlight(Page) /\ ~incident
          BY <3>2 DEF Step, Default, WriteChange, WriteLapse, Tell, Mute, Sign, InFlight
        <4>2. QED
          BY <1>0, <4>1 DEF AgreeInv, Steady, Alone
      <3>3. QED
        BY <3>1, <3>2
    <2>2. \/ UNCHANGED pc
          \/ \E label \in Labels : Goto(Page, label)
      BY <1>0, ResolveGoes, DoneGoes
         DEF Heartbeat, Read, Step, Default, WriteChange, WriteLapse, Tell, Mute, Sign, Labels
    <2>3. QED
      BY <1>0, <2>1, <2>2 DEF Goto, TypeOK, InFlight
  <1>3. allowed' \cup onair' \subseteq OnRecord'
    BY <1>2 DEF AgreeInv, Offline, Steady, Idle, Agreed
  <1>4. \A f \in allowed' \cup onair' : record'.until[f] > at'[Page]
    <2>1. CASE Heartbeat
      <3>1. record' = record /\ at'[Page] = now
        BY <1>0, <2>1 DEF Heartbeat, Read, TypeOK
      <3>2. record # NoRecord
        BY <1>0, <2>1 DEF Heartbeat, Read, Goto, TypeOK
      <3>3. Resolve(Page, "enforce", record.until, now)
        BY <2>1, <3>2 DEF Heartbeat, Read
      <3>4. Lapsed(record.until, now) = {}
        BY <1>0, <3>3 DEF Resolve, Goto, TypeOK
      <3>5. QED
        BY <1>0, <1>3, <3>1, <3>4 DEF OnRecord, Lapsed, Grants, Time
    <2>2. CASE Default(Page)
      <3>1. record'.until = NoGrants
        BY <1>0, <2>2, NoGrantsType, StoredType DEF Default
      <3>2. QED
        BY <1>3, <3>1, NoGrantsType DEF OnRecord
    <2>3. CASE Sign(Page)
      BY <2>3 DEF Sign
    <2>4. CASE Tell(Page) \/ Mute(Page)
      <3>1. UNCHANGED <<record, at, incident>> /\ pc[Page] \in {"tell", "mute"}
        BY <2>4 DEF Tell, Mute, locals
      <3>2. QED
        BY <1>3, <3>1 DEF Swept, OnRecord
    <2>5. CASE WriteChange(Page)
      BY <2>5 DEF WriteChange, Swept
    <2>6. CASE WriteLapse(Page)
      BY <1>0, <2>6 DEF WriteLapse, Goto, TypeOK
    <2>7. QED
      BY <2>1, <2>2, <2>3, <2>4, <2>5, <2>6 DEF Step
  <1>5. ASSUME NEW f \in allowed' \cup onair'
        PROVE  at'[Page] < granted[f] + Lease
    <2>1. f \in Feature /\ record'.until \in Grants /\ at'[Page] \in Time /\ granted \in Grants
      BY <1>0, <1>3, NoGrantsType DEF IInv, TypeOK, NoRecord, OnRecord
    <2>2. record'.until[f] <= granted[f] + Lease
      BY <1>1, <1>3, <1>5 DEF IInv, AllFit, Fits, OnRecord
    <2>3. record'.until[f] > at'[Page]
      BY <1>4, <1>5
    <2>4. QED
      BY <2>1, <2>2, <2>3, StageAssumption DEF Grants, Time
  <1>6. QED
    BY <1>5

\* Without an incident a heartbeat or refresh of the member that is accepted leaves in
\* LiveKit, allowed or on air, nothing whose lease had lapsed when it read the clock.
THEOREM LapsesEnd == Spec => AcceptedEndsLapses
  <1>1. Init => Swept
    BY DEF Init, Swept, Process
  <1>2. Spec => []Swept
    BY AgreementInvariance, <1>1, SweptKept, PTL DEF Spec
  <1>3. /\ IInv /\ AgreeInv /\ Swept /\ [Next]_vars /\ (IInv /\ AgreeInv)'
        => [(pc'[Page] = "idle" /\ ~incident' /\ (Heartbeat \/ Step(Page)))
              => \A f \in allowed' \cup onair' : at'[Page] < granted[f] + Lease]_vars
    BY AcceptedStep
  <1>4. QED
    BY AgreementInvariance, <1>2, <1>3, PTL DEF Spec, AcceptedEndsLapses
=============================================================================
