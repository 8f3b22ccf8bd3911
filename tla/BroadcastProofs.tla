--------------------------- MODULE BroadcastProofs ---------------------------
(***************************************************************************)
(* Proofs about Broadcast, for any requests, tokens and hosts.             *)
(***************************************************************************)
EXTENDS Broadcast, FiniteSetTheorems, TLAPS

\* Which handlers come to which awaits, and whom those of a host act for.
OpAtPc ==
    \A p \in Proc :
        /\ pc[p] = "idle" => op[p] = "none" \/ p = Cleaner
        /\ pc[p] = "consume" => op[p] = "start"
        /\ pc[p] \in {"read", "probe"} => op[p] \in {"start", "current"}
        /\ pc[p] = "look" => op[p] = "current"
        /\ pc[p] = "unrecord" => op[p] = "stop"
        /\ pc[p] = "forget" => op[p] \in {"start", "current", "clean"}
        /\ pc[p] \in {"create", "recreate", "store"} => op[p] = "start"
        /\ pc[p] = "recreate" => ApiHosts = 2
        /\ op[p] \in {"start", "current"} => who[p] \in Host
        /\ op[p] = "clean" => p = Cleaner
        /\ p = Cleaner => op[p] \in {"none", "clean"} /\ pc[p] \in {"idle", "replace", "forget"}
        /\ p = Cleaner /\ pc[p] # "idle" => op[p] = "clean"

\* A record names the host whose start made its ingress, and that start is over.
RecordOfItsStart ==
    record.id # Legacy => pc[record.id[1]] = "ok" /\ record.host = who[record.id[1]]

\* What a start stores is the ingress it has made.
StoresItsOwn ==
    \A r \in Request :
        pc[r] = "store" => /\ rec[r].host = who[r]
                           /\ rec[r].id \in {r} \X Attempt

\* What a stop of a host is about to delete was started for that host.
StopOfItsOwn ==
    \A r \in Request :
        (op[r] = "stop" /\ pc[r] = "replace" /\ who[r] # NoHost /\ rec[r].id # Legacy)
            => pc[rec[r].id[1]] = "ok" /\ who[rec[r].id[1]] = who[r]

\* What the job has read is the ingress of a start that is over; before it deletes the
\* row it has seen to the ingress.
JobReads ==
    /\ rec[Cleaner].id # Legacy => pc[rec[Cleaner].id[1]] = "ok"
    /\ pc[Cleaner] = "forget" => rec[Cleaner].id \notin ingress

IInv == TypeOK /\ OpAtPc /\ RecordOfItsStart /\ StoresItsOwn /\ StopOfItsOwn /\ JobReads

\* An ingress is the old one, or has a start and an attempt.
LEMMA IngressFacts ==
    /\ Legacy \in Ingress
    /\ \A i \in Ingress : i # Legacy => i \in Request \X Attempt /\ i[1] \in Request
    /\ \A r \in Request, n \in Attempt : /\ <<r, n>> \in Ingress /\ <<r, n>> # Legacy
                                          /\ <<r, n>>[1] = r
    /\ \A r \in Request : {r} \X Attempt \subseteq Ingress \ {Legacy}
    /\ \A r \in Request : \A i \in {r} \X Attempt : i[1] = r
    /\ 1 \in Attempt /\ (ApiHosts = 2 => 2 \in Attempt)
BY BroadcastAssumption DEF Ingress, Attempt

LEMMA RecordFacts ==
    ASSUME TypeOK
    PROVE  /\ record \in Named /\ NoRecord \in Named /\ record.id \in Ingress
           /\ \A p \in Proc : rec[p].id \in Ingress
           /\ Cleaner \in Proc /\ Cleaner \notin Request /\ Request \subseteq Proc
BY BroadcastAssumption, IngressFacts DEF TypeOK, Record, NoRecord, Named, Proc

LEMMA InvInit == Init => IInv
  <1> SUFFICES ASSUME Init PROVE IInv
    OBVIOUS
  <1> USE DEF Init
  <1>1. TypeOK
    BY IngressFacts DEF TypeOK, Record, NoRecord, Named, Label
  <1>2. OpAtPc
    BY BroadcastAssumption DEF OpAtPc, Proc
  <1>3. RecordOfItsStart /\ StoresItsOwn /\ StopOfItsOwn /\ JobReads
    BY BroadcastAssumption DEF RecordOfItsStart, StoresItsOwn, StopOfItsOwn, JobReads, NoRecord, Proc
  <1>4. QED
    BY <1>1, <1>2, <1>3 DEF IInv

\* A step that leaves the processes, the record and the ingresses alone.
LEMMA WorldInv ==
    ASSUME IInv, UNCHANGED <<record, ingress, op, pc, who, rec>>, TypeOK'
    PROVE  IInv'
BY DEF IInv, OpAtPc, RecordOfItsStart, StoresItsOwn, StopOfItsOwn, JobReads

\* A request begins.
LEMMA ArriveInv ==
    ASSUME IInv, NEW r \in Request, NEW h \in {"start", "current", "stop"},
           NEW u \in Host \cup {NoHost}, NEW label \in Label \ {"idle"}, Arrive(r, h, u, label),
           h \in {"start", "current"} => u \in Host,
           h = "start" => label \in {"consume", "denied"},
           h = "current" => label \in {"read", "look", "denied"},
           h = "stop" => label \in {"replace", "denied"},
           rec' = rec \/ (h = "stop" /\ \E x \in Named : rec' = [rec EXCEPT ![r] = x]),
           (h = "stop" /\ label = "replace" /\ u # NoHost /\ rec'[r].id # Legacy)
               => pc[rec'[r].id[1]] = "ok" /\ who[rec'[r].id[1]] = u
    PROVE  IInv'
  <1> USE DEF Arrive, Goto, world
  <1>t. TypeOK
    BY DEF IInv
  <1>0. /\ r # Cleaner /\ r \in Proc /\ pc[r] = "idle"
        /\ \A q \in Proc : q # r => pc'[q] = pc[q] /\ who'[q] = who[q] /\ rec'[q] = rec[q] /\ op'[q] = op[q]
        /\ pc'[r] = label /\ who'[r] = u /\ op'[r] = h
    BY <1>t, RecordFacts DEF TypeOK
  <1>k. \A q \in Request : pc[q] = "ok" => pc'[q] = "ok" /\ who'[q] = who[q]
    BY <1>t, <1>0, RecordFacts
  <1>1. TypeOK'
    BY <1>t, <1>0 DEF TypeOK
  <1>2. OpAtPc'
    BY <1>t, <1>0, RecordFacts DEF IInv, TypeOK, OpAtPc, Label, Ended
  <1>3. RecordOfItsStart'
    BY <1>t, <1>k, RecordFacts, IngressFacts DEF IInv, RecordOfItsStart
  <1>4. StoresItsOwn'
    BY <1>t, <1>0, RecordFacts DEF IInv, StoresItsOwn
  <1>5. StopOfItsOwn'
    <2> SUFFICES ASSUME NEW q \in Request, op'[q] = "stop", pc'[q] = "replace", who'[q] # NoHost,
                        rec'[q].id # Legacy
                 PROVE  pc'[rec'[q].id[1]] = "ok" /\ who'[rec'[q].id[1]] = who'[q]
      BY DEF StopOfItsOwn
    <2>0. rec'[q].id[1] \in Request
      <3>1. rec'[q].id \in Ingress
        BY <1>t, <1>1, RecordFacts DEF TypeOK, Named
      <3>2. QED
        BY <3>1, IngressFacts
    <2>1. CASE q = r
      BY <1>0, <1>k, <2>0, <2>1
    <2>2. CASE q # r
      <3>1. op[q] = "stop" /\ pc[q] = "replace" /\ who'[q] = who[q] /\ rec'[q] = rec[q]
        BY <1>t, <1>0, <2>2, RecordFacts
      <3>2. pc[rec[q].id[1]] = "ok" /\ who[rec[q].id[1]] = who[q]
        BY <3>1 DEF IInv, StopOfItsOwn
      <3>3. QED
        BY <1>k, <2>0, <3>1, <3>2
    <2>3. QED
      BY <2>1, <2>2
  <1>6. JobReads'
    <2>1. rec'[Cleaner] = rec[Cleaner] /\ pc'[Cleaner] = pc[Cleaner] /\ rec[Cleaner].id \in Ingress
      BY <1>t, <1>0, RecordFacts
    <2>2. QED
      BY <1>k, <2>1, IngressFacts DEF IInv, JobReads
  <1>7. QED
    BY <1>1, <1>2, <1>3, <1>4, <1>5, <1>6 DEF IInv

\* A process moves on.
LEMMA MoveInv ==
    ASSUME IInv, NEW p \in Proc, NEW label \in Label, Goto(p, label), UNCHANGED <<op, who>>, TypeOK',
           pc[p] \notin Ended \cup {"idle"}, label = "idle" => p = Cleaner,
           label \notin {"consume", "look"},
           label \in {"read", "probe"} => op[p] \in {"start", "current"},
           label = "forget" => op[p] \in {"start", "current", "clean"},
           label \in {"create", "recreate", "store"} => op[p] = "start",
           label = "recreate" => ApiHosts = 2,
           label = "store" => rec'[p].host = who[p] /\ rec'[p].id \in {p} \X Attempt,
           label = "replace" => op[p] \in {"start", "current"},
           label = "unrecord" => op[p] = "stop",
           p = Cleaner => /\ label \in {"idle", "forget"}
                          /\ rec'[p] \in {rec[p], NoRecord}
                          /\ label = "forget" => rec'[p].id \notin ingress',
           record' \in {record, NoRecord}
             \/ (p \in Request /\ pc[p] = "store" /\ label = "ok" /\ record' = rec[p]),
           rec' = rec \/ \E x \in Named : rec' = [rec EXCEPT ![p] = x],
           \A i \in ingress' : i \in ingress \/ (p \in Request /\ i \in {p} \X Attempt)
    PROVE  IInv'
  <1> USE DEF Goto
  <1>t. TypeOK
    BY DEF IInv
  <1>0. /\ \A q \in Proc : q # p => pc'[q] = pc[q] /\ rec'[q] = rec[q]
        /\ pc'[p] = label
    BY <1>t DEF TypeOK
  <1>k. \A q \in Request : pc[q] = "ok" => pc'[q] = "ok"
    BY <1>t, <1>0, RecordFacts DEF Ended
  <1>1. OpAtPc'
    BY <1>t, <1>0, RecordFacts DEF IInv, OpAtPc
  <1>2. RecordOfItsStart'
    <2>1. CASE record' \in {record, NoRecord}
      BY <1>t, <1>k, <2>1, RecordFacts, IngressFacts DEF IInv, RecordOfItsStart, NoRecord
    <2>2. CASE p \in Request /\ pc[p] = "store" /\ label = "ok" /\ record' = rec[p]
      BY <1>0, <2>2, IngressFacts DEF IInv, RecordOfItsStart, StoresItsOwn
    <2>3. QED
      BY <2>1, <2>2
  <1>3. StoresItsOwn'
    BY <1>t, <1>0, RecordFacts DEF IInv, StoresItsOwn
  <1>4. StopOfItsOwn'
    <2> SUFFICES ASSUME NEW q \in Request, op[q] = "stop", pc'[q] = "replace", who[q] # NoHost,
                        rec'[q].id # Legacy
                 PROVE  pc'[rec'[q].id[1]] = "ok" /\ who[rec'[q].id[1]] = who[q]
      BY DEF StopOfItsOwn
    <2>1. q # p /\ pc[q] = "replace" /\ rec'[q] = rec[q] /\ rec[q].id \in Ingress
      BY <1>t, <1>0, RecordFacts
    <2>2. pc[rec[q].id[1]] = "ok" /\ who[rec[q].id[1]] = who[q] /\ rec[q].id[1] \in Request
      BY <2>1, IngressFacts DEF IInv, StopOfItsOwn
    <2>3. QED
      BY <1>k, <2>1, <2>2
  <1>5. JobReads'
    <2>1. rec[Cleaner].id \in Ingress
      BY <1>t, RecordFacts
    <2>2. CASE p = Cleaner
      BY <1>0, <1>k, <2>1, <2>2, IngressFacts DEF IInv, JobReads, NoRecord
    <2>3. CASE p # Cleaner
      <3>1. rec'[Cleaner] = rec[Cleaner] /\ pc'[Cleaner] = pc[Cleaner]
        BY <1>t, <1>0, <2>3, RecordFacts
      <3>2. ASSUME rec[Cleaner].id \in ingress', rec[Cleaner].id \notin ingress PROVE FALSE
        <4>1. p \in Request /\ rec[Cleaner].id \in {p} \X Attempt
          BY <3>2
        <4>2. rec[Cleaner].id # Legacy /\ rec[Cleaner].id[1] = p
          BY <4>1, IngressFacts
        <4>3. QED
          BY <4>2 DEF IInv, JobReads, Ended
      <3>3. QED
        BY <1>k, <2>1, <3>1, <3>2, IngressFacts DEF IInv, JobReads
    <2>4. QED
      BY <2>2, <2>3
  <1>6. QED
    BY <1>1, <1>2, <1>3, <1>4, <1>5 DEF IInv

LEMMA BeginInv == ASSUME IInv, NEW r \in Request, Begin(r) PROVE IInv'
  <1> USE DEF Label, Ended
  <1>1. CASE StartBegin(r)
    BY <1>1, ArriveInv DEF StartBegin
  <1>2. CASE CurrentBegin(r)
    BY <1>2, ArriveInv DEF CurrentBegin
  <1>3. CASE StopBegin(r)
    <2>1. PICK i \in Nameable, u \in Host \cup {NoHost} :
             /\ Arrive(r, "stop", u, IF u = NoHost \/ record = [host |-> u, id |-> i]
                                     THEN "replace" ELSE "denied")
             /\ IF u = NoHost \/ record = [host |-> u, id |-> i]
                THEN rec' = [rec EXCEPT ![r] = [host |-> u, id |-> i]]
                ELSE UNCHANGED rec
      BY <1>3 DEF StopBegin
    <2> DEFINE x == [host |-> u, id |-> i]
               allowed == u = NoHost \/ record = x
    <2>2. i \in Ingress /\ TypeOK /\ r \in Proc
      BY RecordFacts, IngressFacts DEF Nameable, IInv
    <2>3. x \in Named
      BY <2>2 DEF Named
    <2>4. CASE allowed
      <3>1. Arrive(r, "stop", u, "replace") /\ rec' = [rec EXCEPT ![r] = x] /\ rec'[r] = x
        BY <2>1, <2>2, <2>4 DEF TypeOK
      <3>2. (u # NoHost /\ rec'[r].id # Legacy)
                => pc[rec'[r].id[1]] = "ok" /\ who[rec'[r].id[1]] = u
        BY <2>4, <3>1 DEF IInv, RecordOfItsStart
      <3> HIDE DEF x, allowed
      <3>3. QED
        BY <2>3, <3>1, <3>2, ArriveInv
    <2>5. CASE ~allowed
      <3>1. Arrive(r, "stop", u, "denied") /\ rec' = rec
        BY <2>1, <2>5
      <3>2. QED
        BY <3>1, ArriveInv
    <2>6. QED
      BY <2>4, <2>5
  <1>4. QED
    BY <1>1, <1>2, <1>3 DEF Begin

LEMMA ForgetInv == ASSUME IInv, NEW p \in Proc, Forget(p) PROVE IInv'
  <1>1. PICK label : /\ Goto(p, label)
                     /\ op[p] = "start" => label = "create"
                     /\ op[p] = "current" => label = "ok"
                     /\ op[p] = "clean" => label = "idle"
    BY DEF Forget, Forgotten
  <1>2. pc[p] = "forget" /\ op[p] \in {"start", "current", "clean"} /\ TypeOK
    BY DEF Forget, IInv, OpAtPc
  <1>3. label \in {"create", "ok", "idle"} /\ (label = "idle" => p = Cleaner)
        /\ (label = "create" => op[p] = "start") /\ (p = Cleaner => label = "idle")
    BY <1>1, <1>2 DEF IInv, OpAtPc, Proc
  <1>4. /\ record' = NoRecord /\ UNCHANGED <<room, token, ingress, op, who>>
        /\ rec' = [rec EXCEPT ![p] = NoRecord] /\ NoRecord \in Named /\ rec'[p] = NoRecord
    BY <1>2, RecordFacts DEF Forget, Forgotten, Unread, TypeOK
  <1>5. TypeOK'
    BY <1>1, <1>2, <1>3, <1>4 DEF TypeOK, Goto, Label, Ended
  <1>6. QED
    BY <1>1, <1>2, <1>3, <1>4, <1>5, MoveInv DEF Label, Ended

LEMMA CreateInv == ASSUME IInv, NEW r \in Request, StartCreate(r) PROVE IInv'
  <1> DEFINE i == Asked(r)
  <1>1. /\ TypeOK /\ r \in Proc /\ r # Cleaner /\ op[r] = "start" /\ who[r] \in Host
        /\ pc[r] \in {"create", "recreate"} /\ (pc[r] = "recreate" => ApiHosts = 2)
    BY RecordFacts DEF StartCreate, IInv, OpAtPc
  <1>2. i \in {r} \X Attempt /\ i \in Ingress
    BY <1>1, IngressFacts DEF Asked
  <1>3. UNCHANGED <<room, token, record, op, who>> /\ ingress' \in {ingress, ingress \cup {i}}
    BY DEF StartCreate
  <1>4. ASSUME NEW label \in {"recreate", "denied"}, Goto(r, label), rec' = rec,
               label = "recreate" => ApiHosts = 2
        PROVE  IInv'
    <2>1. TypeOK'
      BY <1>1, <1>2, <1>3, <1>4 DEF TypeOK, Goto, Label, Ended
    <2> HIDE DEF i
    <2>2. QED
      BY <1>1, <1>2, <1>3, <1>4, <2>1, MoveInv DEF Label, Ended
  <1>5. ASSUME Goto(r, "store"), rec' = [rec EXCEPT ![r] = [host |-> who[r], id |-> i]]
        PROVE  IInv'
    <2>1. [host |-> who[r], id |-> i] \in Named
      BY <1>1, <1>2 DEF Named
    <2>2. rec'[r].host = who[r] /\ rec'[r].id = i
      BY <1>1, <1>5 DEF TypeOK
    <2> HIDE DEF i
    <2>3. TypeOK'
      BY <1>1, <1>2, <1>3, <1>5, <2>1 DEF TypeOK, Goto, Label, Ended
    <2>4. \E x \in Named : rec' = [rec EXCEPT ![r] = x]
      BY <1>5, <2>1
    <2>5. \A j \in ingress' : j \in ingress \/ (r \in Request /\ j \in {r} \X Attempt)
      BY <1>2, <1>3
    <2>6. Goto(r, "store") /\ "store" \in Label /\ pc[r] \notin Ended \cup {"idle"}
      BY <1>1, <1>5 DEF Label, Ended
    <2>7. rec'[r].host = who[r] /\ rec'[r].id \in {r} \X Attempt
      BY <1>2, <2>2
    <2>8. QED
      BY <1>1, <1>3, <2>3, <2>4, <2>5, <2>6, <2>7, MoveInv
  <1>6. QED
    BY <1>1, <1>4, <1>5 DEF StartCreate

LEMMA StepInv == ASSUME IInv, NEW r \in Request, Step(r) PROVE IInv'
  <1> USE DEF Label, Ended
  <1>p. r \in Proc /\ r # Cleaner /\ TypeOK
    BY RecordFacts DEF IInv
  <1>1. CASE StartConsume(r)
    <2>1. TypeOK'
      BY <1>1 DEF StartConsume, Goto, IInv, TypeOK
    <2>2. op[r] = "start" /\ UNCHANGED <<record, ingress, op, who, rec>>
      BY <1>1, <1>p DEF StartConsume, IInv, OpAtPc
    <2>3. PICK label \in {"read", "denied"} : Goto(r, label)
      BY <1>1 DEF StartConsume
    <2>4. QED
      BY <1>1, <1>p, <2>1, <2>2, <2>3, MoveInv DEF StartConsume
  <1>2. CASE ReadRecord(r)
    <2>1. record \in Named /\ op[r] \in {"start", "current"}
      BY <1>2, <1>p, RecordFacts DEF ReadRecord, IInv, OpAtPc
    <2>2. TypeOK'
      BY <1>2, <2>1 DEF ReadRecord, Goto, IInv, TypeOK, world
    <2>3. PICK label \in {"create", "ok", "probe", "replace"} :
             Goto(r, label) /\ (label = "create" => op[r] = "start")
      BY <1>2 DEF ReadRecord
    <2>4. QED
      BY <1>2, <1>p, <2>1, <2>2, <2>3, MoveInv DEF ReadRecord, world
  <1>3. CASE Probe(r)
    <2>1. TypeOK' /\ op[r] \in {"start", "current"}
      BY <1>3, <1>p DEF Probe, Goto, IInv, OpAtPc, TypeOK, world
    <2>2. PICK label \in {"forget", "replace", "ok"} : Goto(r, label)
      BY <1>3 DEF Probe
    <2>3. QED
      BY <1>3, <1>p, <2>1, <2>2, MoveInv DEF Probe, world
  <1>4. CASE Replace(r)
    <2>1. TypeOK'
      BY <1>4 DEF Replace, Goto, IInv, TypeOK
    <2>2. /\ pc[r] = "replace" /\ op[r] \in {"start", "current"} /\ Goto(r, "forget")
          /\ UNCHANGED <<record, op, who, rec>> /\ ingress' \subseteq ingress
      BY <1>4 DEF Replace
    <2>3. QED
      BY <1>p, <2>1, <2>2, MoveInv
  <1>5. CASE Forget(r)
    BY <1>5, <1>p, ForgetInv
  <1>6. CASE StartCreate(r)
    BY <1>6, CreateInv
  <1>7. CASE StartStore(r)
    <2>1. who[r] \in Host /\ rec[r].id \in Ingress /\ rec[r].host = who[r] /\ rec[r] \in Named
      BY <1>7, <1>p, RecordFacts DEF StartStore, IInv, OpAtPc, StoresItsOwn, TypeOK
    <2>2. TypeOK'
      BY <1>7, <1>p, <2>1 DEF StartStore, Goto, TypeOK, Record, Named
    <2>3. QED
      BY <1>7, <1>p, <2>2, MoveInv DEF StartStore
  <1>8. CASE CurrentLook(r)
    <2>1. record \in Named
      BY <1>p, RecordFacts
    <2>2. TypeOK'
      BY <1>8, <2>1 DEF CurrentLook, Goto, IInv, TypeOK, world
    <2>3. PICK label \in {"ok", "replace"} : Goto(r, label)
      BY <1>8 DEF CurrentLook
    <2>4. QED
      BY <1>8, <1>p, <2>1, <2>2, <2>3, MoveInv DEF CurrentLook, world
  <1>9. CASE StopDelete(r)
    <2>1. TypeOK' /\ op[r] = "stop"
      BY <1>9 DEF StopDelete, Goto, IInv, TypeOK
    <2>2. QED
      BY <1>9, <1>p, <2>1, MoveInv DEF StopDelete
  <1>10. CASE StopUnrecord(r)
    <2>1. TypeOK' /\ NoRecord \in Named
      BY <1>10, <1>p, RecordFacts DEF StopUnrecord, Goto, TypeOK, Unread
    <2>2. QED
      BY <1>10, <1>p, <2>1, MoveInv DEF StopUnrecord, Unread
  <1>11. QED
    BY <1>1, <1>2, <1>3, <1>4, <1>5, <1>6, <1>7, <1>8, <1>9, <1>10 DEF Step

\* The job, which is nobody's stop.
LEMMA CleanInv == IInv /\ Clean => IInv'
  <1> SUFFICES ASSUME IInv, Clean PROVE IInv'
    OBVIOUS
  <1>p. /\ Cleaner \in Proc /\ op[Cleaner] # "stop" /\ Cleaner \notin Request /\ TypeOK
        /\ record \in Named /\ NoRecord \in Named /\ record.id \in Ingress
    BY RecordFacts DEF IInv, OpAtPc
  <1>1. CASE CleanList
    <2>2. TypeOK'
      BY <1>1, <1>p DEF CleanList, Goto, TypeOK, Label, world
    <2>3. OpAtPc'
      BY <1>1, <1>p DEF CleanList, Goto, IInv, TypeOK, OpAtPc, Proc, world
    <2>4. \A r \in Request : op'[r] = op[r] /\ pc'[r] = pc[r] /\ rec'[r] = rec[r]
      BY <1>1, <1>p, RecordFacts DEF CleanList, Goto, TypeOK
    <2>5. UNCHANGED <<record, ingress, who>> /\ rec'[Cleaner] = record /\ pc'[Cleaner] = "replace"
      BY <1>1, <1>p DEF CleanList, world, Goto, TypeOK
    <2>6. RecordOfItsStart' /\ JobReads'
      BY <1>p, <2>4, <2>5, IngressFacts DEF IInv, RecordOfItsStart, JobReads
    <2>7. StoresItsOwn'
      BY <2>4, <2>5 DEF IInv, StoresItsOwn
    <2>8. StopOfItsOwn'
      <3>1. \A r \in Request : rec[r].id \in Ingress
        BY <1>p, RecordFacts
      <3>2. QED
        BY <2>4, <2>5, <3>1, IngressFacts DEF IInv, StopOfItsOwn
    <2>9. QED
      BY <2>2, <2>3, <2>6, <2>7, <2>8 DEF IInv
  <1>2. CASE CleanDelete
    <2>1. TypeOK' /\ op[Cleaner] = "clean"
      BY <1>2, <1>p DEF CleanDelete, Goto, IInv, TypeOK, OpAtPc, Label
    <2>2. QED
      BY <1>2, <1>p, <2>1, MoveInv DEF CleanDelete, Label, Ended
  <1>3. CASE CleanFails
    <2>1. TypeOK' /\ rec'[Cleaner] = NoRecord
      BY <1>3, <1>p DEF CleanFails, Goto, Unread, TypeOK, Label, world
    <2>2. QED
      BY <1>3, <1>p, <2>1, MoveInv DEF CleanFails, Unread, Label, Ended, world
  <1>4. QED
    BY <1>1, <1>2, <1>3, <1>p, ForgetInv DEF Clean

LEMMA InvStep == IInv /\ [Next]_vars => IInv'
  <1> SUFFICES ASSUME IInv, [Next]_vars PROVE IInv'
    OBVIOUS
  <1>1. ASSUME NEW r \in Request, Drop(r) PROVE IInv'
    <2>1. /\ TypeOK /\ r \in Proc /\ r # Cleaner /\ NoRecord \in Named
          /\ rec' = [rec EXCEPT ![r] = NoRecord]
      BY <1>1, RecordFacts DEF Drop, Unread, IInv
    <2>2. TypeOK'
      BY <1>1, <2>1 DEF Drop, Goto, TypeOK, Label, Ended, world
    <2>3. QED
      BY <1>1, <2>1, <2>2, MoveInv DEF Drop, Label, Ended, world
  <1>2. ASSUME NEW k \in Token, Issue(k) \/ TokenExpires(k) PROVE IInv'
    <2>1. TypeOK'
      BY <1>2 DEF Issue, TokenExpires, IInv, TypeOK
    <2>2. QED
      BY <1>2, <2>1, WorldInv DEF Issue, TokenExpires
  <1>3. CASE OpenRoom \/ RoomExpires
    <2>1. TypeOK'
      BY <1>3 DEF OpenRoom, RoomExpires, IInv, TypeOK
    <2>2. QED
      BY <1>3, <2>1, WorldInv DEF OpenRoom, RoomExpires
  <1>4. CASE UNCHANGED vars
    <2>1. TypeOK'
      BY <1>4 DEF vars, IInv, TypeOK
    <2>2. QED
      BY <1>4, <2>1, WorldInv DEF vars
  <1>5. QED
    BY <1>1, <1>2, <1>3, <1>4, BeginInv, StepInv, CleanInv DEF Next

THEOREM Invariance == Spec => []IInv
BY InvInit, InvStep, PTL DEF Spec

\* Every handler, the job and the world keep to their types.
THEOREM TypeCorrect == Spec => []TypeOK
  <1>1. IInv => TypeOK
    BY DEF IInv
  <1>2. QED
    BY <1>1, Invariance, PTL

\* A host's stop ends no broadcast started for another host, however many starts,
\* stops and hosts of the room there have been since it read the record.
THEOREM StopsOnlyItsOwn == Spec => HostStopsOnlyItsOwn
  <1> DEFINE Own == \A r \in Request, i \in Request \X Attempt :
                        (/\ pc[r] = "replace" /\ op[r] = "stop" /\ pc'[r] = "unrecord"
                         /\ who[r] # NoHost /\ i \in ingress \ ingress')
                            => who[i[1]] = who[r]
  <1>1. ASSUME IInv, [Next]_vars, NEW r \in Request, NEW i \in Request \X Attempt,
               pc[r] = "replace", op[r] = "stop", pc'[r] = "unrecord", who[r] # NoHost,
               i \in ingress \ ingress'
        PROVE  who[i[1]] = who[r]
    <2>1. i = rec[r].id
      <3>1. (\E q \in Request : Replace(q) \/ StopDelete(q)) \/ CleanDelete
        BY <1>1 DEF Next, vars, Begin, StartBegin, CurrentBegin, StopBegin, Arrive, Step, StartConsume,
           ReadRecord, Probe, Forget, Forgotten, StartCreate, StartStore, CurrentLook, StopUnrecord,
           Drop, Issue, TokenExpires, OpenRoom, RoomExpires, Clean, CleanList, CleanFails, world
      <3>2. StopDelete(r)
        <4>1. ASSUME NEW q \in Proc, NEW label, Goto(q, label) PROVE q = r /\ label = "unrecord"
          BY <1>1, <4>1 DEF Goto, IInv, TypeOK, Proc
        <4>2. Cleaner \in Proc /\ r # Cleaner
          BY BroadcastAssumption DEF Proc
        <4>3. ~CleanDelete
          BY <4>1, <4>2 DEF CleanDelete
        <4>4. ASSUME NEW q \in Request PROVE ~Replace(q)
          BY <1>1, <4>1 DEF Replace, Proc
        <4>5. ASSUME NEW q \in Request, StopDelete(q) PROVE q = r
          BY <4>1, <4>5 DEF StopDelete, Proc
        <4>6. QED
          BY <3>1, <4>3, <4>4, <4>5
      <3>3. QED
        BY <1>1, <3>2 DEF StopDelete
    <2>2. i # Legacy
      BY BroadcastAssumption DEF Attempt
    <2>3. QED
      BY <1>1, <2>1, <2>2 DEF IInv, StopOfItsOwn
  <1>2. IInv /\ [Next]_vars => Own
    BY <1>1
  <1>3. QED
    BY <1>2, Invariance, PTL DEF Spec, HostStopsOnlyItsOwn

\* However its rounds fail and whatever starts and stops come between its steps, the job
\* deletes a row it has read only when the ingress of that row is gone.
THEOREM JobEndsBroadcasts == Spec => JobEndsWhatItForgets
  <1> DEFINE Ends == (pc[Cleaner] = "forget" /\ record # record' /\ record = rec[Cleaner]
                      /\ pc'[Cleaner] = "idle") => record.id \notin ingress'
  <1>1. ASSUME IInv, [Next]_vars, pc[Cleaner] = "forget", record # record', record = rec[Cleaner]
        PROVE  record.id \notin ingress'
    <2>1. UNCHANGED ingress
      BY <1>1 DEF Next, vars, Begin, StartBegin, CurrentBegin, StopBegin, Arrive, Step, StartConsume,
         ReadRecord, Probe, Replace, Forget, Forgotten, StartCreate, StartStore, CurrentLook, StopDelete,
         StopUnrecord, Drop, Issue, TokenExpires, OpenRoom, RoomExpires, Clean, CleanList, CleanDelete,
         CleanFails, world
    <2>2. QED
      BY <1>1, <2>1 DEF IInv, JobReads
  <1>2. IInv /\ [Next]_vars => Ends
    BY <1>1
  <1>3. QED
    BY <1>2, Invariance, PTL DEF Spec, JobEndsWhatItForgets

-----------------------------------------------------------------------------
\* Tokens issued, those still good, and the starts that were admitted or have left
\* an ingress: each of these has used up a token.
Issued == {k \in Token : token[k] # "fresh"}
Good == {k \in Token : token[k] \in Host}
Starters == Admitted \cup {r \in Request : \E n \in Attempt : <<r, n>> \in ingress}

Paid == /\ IsFiniteSet(Issued) /\ IsFiniteSet(Good) /\ IsFiniteSet(Starters)
        /\ Cardinality(Starters) + Cardinality(Good) <= Cardinality(Issued)

UnderWay == {"read", "probe", "replace", "forget", "create", "recreate", "store", "ok"}

LEMMA NoMoreStarters ==
    ASSUME Paid, token' = token, Starters' \subseteq Starters
    PROVE  Paid'
  <1>1. Issued' = Issued /\ Good' = Good
    BY DEF Issued, Good
  <1>2. IsFiniteSet(Starters') /\ Cardinality(Starters') <= Cardinality(Starters)
    BY FS_Subset DEF Paid
  <1>3. {Cardinality(Starters), Cardinality(Starters'), Cardinality(Good), Cardinality(Issued)}
            \subseteq Nat
    BY <1>2, FS_CardinalityType DEF Paid
  <1> HIDE DEF Issued, Good, Starters
  <1>4. QED
    BY <1>1, <1>2, <1>3 DEF Paid

\* A process moves on, and is not admitted by that.
LEMMA MovePaid ==
    ASSUME TypeOK, Paid, NEW p \in Proc, NEW label, Goto(p, label), UNCHANGED <<op, token>>,
           (op[p] = "start" /\ label \in UnderWay) => pc[p] \in UnderWay,
           \A i \in ingress' : \/ i \in ingress
                               \/ /\ i \in {p} \X Attempt
                                  /\ p \in Request /\ op[p] = "start" /\ pc[p] \in UnderWay
    PROVE  Paid'
  <1>1. Admitted' \subseteq Admitted
    BY DEF Admitted, Goto, TypeOK, UnderWay
  <1>2. Starters' \subseteq Starters
    <2>1. ASSUME NEW r \in Request, NEW n \in Attempt, <<r, n>> \in ingress', <<r, n>> \notin ingress
          PROVE  r \in Admitted
      BY <2>1 DEF Admitted, UnderWay
    <2>2. QED
      BY <1>1, <2>1 DEF Starters
  <1>3. QED
    BY <1>2, NoMoreStarters

LEMMA IssuePaid ==
    ASSUME TypeOK, Paid, NEW k \in Token, Issue(k)
    PROVE  Paid'
  <1>1. /\ Issued' = Issued \cup {k} /\ k \notin Issued
        /\ Good' = Good \cup {k} /\ k \notin Good
        /\ Starters' = Starters
    BY BroadcastAssumption DEF Issue, TypeOK, Issued, Good, Starters, Admitted
  <1>2. /\ IsFiniteSet(Issued') /\ Cardinality(Issued') = Cardinality(Issued) + 1
        /\ IsFiniteSet(Good') /\ Cardinality(Good') = Cardinality(Good) + 1
    BY <1>1, FS_AddElement DEF Paid
  <1>3. {Cardinality(Starters), Cardinality(Good), Cardinality(Issued)} \subseteq Nat
    BY FS_CardinalityType DEF Paid
  <1> HIDE DEF Issued, Good, Starters
  <1>4. QED
    BY <1>1, <1>2, <1>3 DEF Paid

\* A token goes; starts, a set with at most one new member, has one only if it was good.
LEMMA SpendPaid ==
    ASSUME TypeOK, Paid, NEW k \in Token, token[k] # "fresh", token' = [token EXCEPT ![k] = "gone"],
           Starters' \subseteq Starters
             \/ \E r : token[k] \in Host /\ Starters' \subseteq Starters \cup {r}
    PROVE  Paid'
  <1>1. Issued' = Issued /\ Good' = Good \ {k}
    BY BroadcastAssumption DEF TypeOK, Issued, Good
  <1>2. /\ IsFiniteSet(Good')
        /\ Cardinality(Good') = IF token[k] \in Host THEN Cardinality(Good) - 1 ELSE Cardinality(Good)
    <2>1. k \in Good <=> token[k] \in Host
      BY DEF Good
    <2>2. IsFiniteSet(Good)
      BY DEF Paid
    <2> HIDE DEF Good
    <2>3. QED
      BY <1>1, <2>1, <2>2, FS_RemoveElement
  <1>3. /\ IsFiniteSet(Starters')
        /\ Cardinality(Starters') <= IF token[k] \in Host THEN Cardinality(Starters) + 1
                                     ELSE Cardinality(Starters)
    <2>1. IsFiniteSet(Starters) /\ Cardinality(Starters) \in Nat
      BY FS_CardinalityType DEF Paid
    <2>2. CASE Starters' \subseteq Starters
      <3>1. IsFiniteSet(Starters') /\ Cardinality(Starters') <= Cardinality(Starters)
        BY <2>1, <2>2, FS_Subset
      <3>2. Cardinality(Starters') \in Nat
        BY <3>1, FS_CardinalityType
      <3>3. QED
        BY <2>1, <3>1, <3>2
    <2>3. ASSUME NEW r, token[k] \in Host, Starters' \subseteq Starters \cup {r}
          PROVE  IsFiniteSet(Starters') /\ Cardinality(Starters') <= Cardinality(Starters) + 1
      <3>1. /\ IsFiniteSet(Starters \cup {r})
            /\ Cardinality(Starters \cup {r}) \in {Cardinality(Starters), Cardinality(Starters) + 1}
        BY <2>1, FS_AddElement
      <3>2. IsFiniteSet(Starters') /\ Cardinality(Starters') <= Cardinality(Starters \cup {r})
        BY <2>3, <3>1, FS_Subset
      <3>3. Cardinality(Starters') \in Nat
        BY <3>2, FS_CardinalityType
      <3>4. QED
        BY <2>1, <3>1, <3>2, <3>3
    <2>4. QED
      BY <2>2, <2>3
  <1>4. {Cardinality(Starters), Cardinality(Starters'), Cardinality(Good), Cardinality(Issued)}
            \subseteq Nat
    BY <1>3, FS_CardinalityType DEF Paid
  <1> HIDE DEF Issued, Good, Starters
  <1>5. QED
    BY <1>1, <1>2, <1>3, <1>4 DEF Paid

LEMMA PaidStep == IInv /\ Paid /\ [Next]_vars => Paid'
  <1> SUFFICES ASSUME IInv, Paid, [Next]_vars PROVE Paid'
    OBVIOUS
  <1>0. TypeOK
    BY DEF IInv
  <1> USE DEF Label, Ended, UnderWay
  <1>1. ASSUME NEW k \in Token, Issue(k) \/ TokenExpires(k) PROVE Paid'
    <2>1. CASE Issue(k)
      BY <1>0, <2>1, IssuePaid
    <2>2. CASE TokenExpires(k)
      <3>1. Starters' = Starters
        BY <2>2 DEF TokenExpires, Starters, Admitted
      <3>2. QED
        BY <1>0, <2>2, <3>1, SpendPaid, BroadcastAssumption DEF TokenExpires
    <2>3. QED
      BY <1>1, <2>1, <2>2
  <1>2. ASSUME NEW r \in Request, Begin(r) PROVE Paid'
    <2>1. PICK h, u, label :
             /\ Arrive(r, h, u, label)
             /\ h \in {"start", "current", "stop"}
             /\ h = "start" => label \in {"consume", "denied"}
      BY <1>2 DEF Begin, StartBegin, CurrentBegin, StopBegin
    <2>2. Admitted' \subseteq Admitted /\ UNCHANGED <<ingress, token>>
      BY <1>0, <2>1 DEF Arrive, Goto, Admitted, TypeOK, world
    <2>3. QED
      BY <2>2, NoMoreStarters DEF Starters
  <1>3. ASSUME NEW r \in Request, StartConsume(r) PROVE Paid'
    <2>1. PICK k \in Token :
            /\ token[k] # "fresh"
            /\ token' = [token EXCEPT ![k] = "gone"]
            /\ Goto(r, IF token[k] = who[r] THEN "read" ELSE "denied")
      BY <1>3 DEF StartConsume
    <2>2. op[r] = "start" /\ who[r] \in Host /\ UNCHANGED <<ingress, op>>
      BY <1>3 DEF StartConsume, IInv, OpAtPc, Proc
    <2>3. CASE token[k] = who[r]
      <3>1. Starters' \subseteq Starters \cup {r}
        <4>1. Admitted' \subseteq Admitted \cup {r}
          BY <1>0, <2>1, <2>2 DEF Admitted, Goto, TypeOK
        <4>2. QED
          BY <2>2, <4>1 DEF Starters
      <3>2. token[k] \in Host
        BY <2>2, <2>3
      <3>3. QED
        BY <1>0, <2>1, <3>1, <3>2, SpendPaid
    <2>4. CASE token[k] # who[r]
      <3>1. Starters' \subseteq Starters
        <4>1. Admitted' \subseteq Admitted
          BY <1>0, <2>1, <2>2, <2>4 DEF Admitted, Goto, TypeOK
        <4>2. QED
          BY <2>2, <4>1 DEF Starters
      <3>2. QED
        BY <1>0, <2>1, <3>1, SpendPaid
    <2>5. QED
      BY <2>3, <2>4
  <1>4. ASSUME NEW r \in Request,
               \/ ReadRecord(r) \/ Probe(r) \/ Replace(r) \/ StartCreate(r) \/ StartStore(r)
               \/ CurrentLook(r) \/ StopDelete(r) \/ StopUnrecord(r) \/ Drop(r)
        PROVE  Paid'
    <2>1. /\ r \in Proc
          /\ pc[r] \in {"create", "recreate"} => op[r] = "start"
          /\ pc[r] = "unrecord" => op[r] = "stop"
      BY DEF IInv, OpAtPc, Proc
    <2>2. PICK label : /\ Goto(r, label)
                       /\ (op[r] = "start" /\ label \in UnderWay) => pc[r] \in UnderWay
      BY <1>4, <2>1 DEF ReadRecord, Probe, Replace, StartCreate, StartStore, CurrentLook,
                        StopDelete, StopUnrecord, Drop
    <2>3. UNCHANGED <<op, token>>
      BY <1>4 DEF ReadRecord, Probe, Replace, StartCreate, StartStore, CurrentLook, StopDelete,
                  StopUnrecord, Drop, world
    <2>4. \A i \in ingress' : \/ i \in ingress
                             \/ /\ i \in {r} \X Attempt
                                /\ op[r] = "start" /\ pc[r] \in UnderWay
      <3>1. CASE StartCreate(r)
        <4>1. /\ Asked(r) \in {r} \X Attempt /\ op[r] = "start" /\ pc[r] \in UnderWay
              /\ ingress' \in {ingress, ingress \cup {Asked(r)}}
          <5>1. /\ pc[r] \in {"create", "recreate"} /\ (pc[r] = "recreate" => ApiHosts = 2)
            BY <2>1, <3>1 DEF StartCreate, IInv, OpAtPc
          <5>2. Asked(r) \in {r} \X Attempt
            BY <5>1, IngressFacts DEF Asked
          <5>3. QED
            BY <2>1, <3>1, <5>1, <5>2 DEF StartCreate
        <4>2. QED
          BY <4>1
      <3>2. CASE ReadRecord(r) \/ Probe(r) \/ StartStore(r) \/ CurrentLook(r) \/ StopUnrecord(r) \/ Drop(r)
        BY <3>2 DEF ReadRecord, Probe, StartStore, CurrentLook, StopUnrecord, Drop, world
      <3>3. CASE Replace(r) \/ StopDelete(r)
        BY <3>3 DEF Replace, StopDelete
      <3>4. QED
        BY <1>4, <3>1, <3>2, <3>3
    <2>5. QED
      BY <1>0, <2>1, <2>2, <2>3, <2>4, MovePaid
  <1>5. ASSUME NEW p \in Proc, Forget(p) PROVE Paid'
    <2>1. PICK label : Goto(p, label)
      BY <1>5 DEF Forget, Forgotten
    <2>2. QED
      BY <1>0, <1>5, <2>1, MovePaid DEF Forget, Forgotten
  <1>6. CASE CleanList \/ CleanDelete \/ CleanFails
    <2>1. Cleaner \in Proc /\ op[Cleaner] # "start" /\ op'[Cleaner] # "start"
      BY <1>0, <1>6 DEF IInv, OpAtPc, Proc, CleanList, CleanDelete, CleanFails, TypeOK
    <2>2. Admitted' \subseteq Admitted
      BY <1>0, <1>6, <2>1, BroadcastAssumption
         DEF CleanList, CleanDelete, CleanFails, Goto, Admitted, TypeOK, Proc
    <2>3. ingress' \subseteq ingress /\ token' = token
      BY <1>6 DEF CleanList, CleanDelete, CleanFails, world
    <2>4. QED
      BY <2>2, <2>3, NoMoreStarters DEF Starters
  <1>7. CASE OpenRoom \/ RoomExpires \/ UNCHANGED vars
    <2>1. Starters' = Starters /\ token' = token
      BY <1>7 DEF OpenRoom, RoomExpires, vars, Starters, Admitted
    <2>2. QED
      BY <2>1, NoMoreStarters
  <1>8. \A r \in Request : r \in Proc
    BY DEF Proc
  <1>9. Cleaner \in Proc
    BY DEF Proc
  <1>10. QED
    BY <1>1, <1>2, <1>3, <1>4, <1>5, <1>6, <1>7, <1>8, <1>9 DEF Next, Step, Clean

\* As many ingresses as each start has attempts.
LEMMA CreationsBounded ==
    ASSUME TypeOK, IsFiniteSet(Starters)
    PROVE  /\ IsFiniteSet(ingress \ {Legacy})
           /\ Cardinality(ingress \ {Legacy}) <= ApiHosts * Cardinality(Starters)
  <1>1. ingress \ {Legacy} \subseteq Starters \X Attempt
    BY IngressFacts DEF TypeOK, Starters, Ingress
  <1>2. ApiHosts \in Nat /\ IsFiniteSet(Attempt) /\ Cardinality(Attempt) = ApiHosts
    <2>1. ApiHosts \in Nat /\ ApiHosts > 0
      BY BroadcastAssumption
    <2>2. QED
      BY <2>1, FS_Interval DEF Attempt
  <1>3. /\ IsFiniteSet(Starters \X Attempt)
        /\ Cardinality(Starters \X Attempt) = Cardinality(Starters) * Cardinality(Attempt)
    BY <1>2, FS_Product
  <1>4. /\ IsFiniteSet(ingress \ {Legacy})
        /\ Cardinality(ingress \ {Legacy}) <= Cardinality(Starters \X Attempt)
    BY <1>1, <1>3, FS_Subset
  <1>5. Cardinality(Starters) * ApiHosts = ApiHosts * Cardinality(Starters)
    <2>1. Cardinality(Starters) \in Nat /\ ApiHosts \in {1, 2}
      BY FS_CardinalityType, BroadcastAssumption
    <2>2. QED
      BY <2>1
  <1>6. QED
    BY <1>2, <1>3, <1>4, <1>5

\* However starts race, fail halfway or are repeated with a token that has gone, no
\* more of them get past their token than tokens were issued, and with creations
\* repeated at the next API host after an error they leave LiveKit no more ingresses
\* than one per API host for each token.
THEOREM TokensPayForStarts == Spec => []OneStartPerToken
  <1>1. Init => Paid
    <2> SUFFICES ASSUME Init PROVE Paid
      OBVIOUS
    <2>1. Issued = {} /\ Good = {} /\ Starters = {}
      BY BroadcastAssumption, IngressFacts DEF Init, Issued, Good, Starters, Admitted, Proc
    <2>2. QED
      BY <2>1, FS_EmptySet DEF Paid
  <1>2. IInv /\ Paid => OneStartPerToken
    <2> SUFFICES ASSUME TypeOK, Paid PROVE OneStartPerToken
      BY DEF IInv
    <2>1. IsFiniteSet(Admitted) /\ Cardinality(Admitted) <= Cardinality(Starters)
      BY FS_Subset DEF Paid, Starters
    <2>2. /\ IsFiniteSet(ingress \ {Legacy})
          /\ Cardinality(ingress \ {Legacy}) <= ApiHosts * Cardinality(Starters)
      BY CreationsBounded DEF Paid
    <2>4. /\ {Cardinality(Admitted), Cardinality(ingress \ {Legacy})} \subseteq Nat
          /\ {Cardinality(Starters), Cardinality(Good), Cardinality(Issued)} \subseteq Nat
      BY <2>1, <2>2, FS_CardinalityType DEF Paid
    <2>5. /\ Cardinality(Admitted) <= Cardinality(Issued)
          /\ Cardinality(ingress \ {Legacy}) <= ApiHosts * Cardinality(Issued)
      <3>1. ApiHosts \in {1, 2} /\ Cardinality(Starters) <= Cardinality(Issued)
        <4> HIDE DEF Issued, Good, Starters, Admitted
        <4>1. QED
          BY <2>4, BroadcastAssumption DEF Paid
      <3> HIDE DEF Issued, Good, Starters, Admitted
      <3>2. QED
        BY <2>1, <2>2, <2>4, <3>1
    <2>6. QED
      BY <2>5 DEF OneStartPerToken, Issued
  <1>3. QED
    BY Invariance, PaidStep, <1>1, <1>2, PTL DEF Spec
=============================================================================
