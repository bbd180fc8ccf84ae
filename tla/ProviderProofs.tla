---------------------------- MODULE ProviderProofs ----------------------------
(***************************************************************************)
(* Proofs about Provider: its types, the lemmas on the calls of a step     *)
(* that every later proof rests on, and what the mutex guarantees.         *)
(***************************************************************************)
EXTENDS ProviderInvariants, ZoneIndexProofs

USE DEF Held, Threads, memory, locals, controller, bounds

(***************************************************************************)
(* Operators                                                               *)
(***************************************************************************)
LEMMA LeastIn ==
    ASSUME NEW S \in SUBSET Nat, S # {}
    PROVE  Least(S) \in S
BY LeastOfNats DEF Least

\* What the task of a step drops, keeps and belongs to.
LEMMA TaskFacts ==
    ASSUME NEW s \in Steps
    PROVE  /\ TaskOK(Task(s))
           /\ Task(s).of = s.ch.of
           /\ s.do \in {"delPrimary", "updPrimary", "newPrimary"} => Task(s).kind = "primary"
           /\ s.do \notin {"delPrimary", "updPrimary", "newPrimary"} => Task(s).kind = "marker"
           /\ s.do \in {"delPrimary", "delMarker", "repDelOld", "repDelNew", "clean"} => Task(s).keep = {}
           /\ s.do = "delPrimary" => Task(s).drop = s.ch.old
           /\ s.do \in {"updMarker", "repEdit", "newMarker", "repConverge"} =>
                 Task(s).drop = {} /\ Task(s).keep = {s.ch.valNew}
<1> USE ProviderAssumption
<1>1. /\ s.ch.of \in Owned /\ s.ch.old \subseteq AllContents /\ s.ch.new \subseteq AllContents
      /\ s.ch.valOld \in AllContents /\ s.ch.valNew \in AllContents
      /\ s.ch.attr \in Attrs /\ MarkerAttr \in Attrs
  BY DEF Steps, Changes, AllContents
<1>2. s.do \in BatchDos \cup DrainDos
  BY DEF Steps
<1>3. CASE s.do = "delPrimary"
  BY <1>1, <1>3 DEF Task, TaskRec, TaskOK
<1>4. CASE s.do \in {"delMarker", "repDelOld", "clean"}
  BY <1>1, <1>4 DEF Task, TaskRec, TaskOK
<1>5. CASE s.do = "repDelNew"
  BY <1>1, <1>5 DEF Task, TaskRec, TaskOK
<1>6. CASE s.do \in {"updMarker", "repEdit"}
  BY <1>1, <1>6 DEF Task, TaskRec, TaskOK
<1>7. CASE s.do \in {"newMarker", "repConverge"}
  BY <1>1, <1>7 DEF Task, TaskRec, TaskOK
<1>8. CASE s.do = "updPrimary"
  BY <1>1, <1>8 DEF Task, TaskRec, TaskOK
<1>9. CASE s.do = "newPrimary"
  BY <1>1, <1>9 DEF Task, TaskRec, TaskOK
<1> QED BY <1>2, <1>3, <1>4, <1>5, <1>6, <1>7, <1>8, <1>9 DEF BatchDos, DrainDos

\* A call of a step leaves every other identity, and the other kind of record
\* of its own identity, as they are.
LEMMA CallLocal ==
    ASSUME NEW s \in Steps, NEW z \in SUBSET Records, NEW i \in Ids,
           NEW call \in Calls(Task(s), z, i)
    PROVE  /\ Effect(z, call) \in SUBSET Records
           /\ \A r \in Records : r.of # s.ch.of \/ r.kind # Task(s).kind =>
                 (r \in Effect(z, call) <=> r \in z)
<1>1. TaskOK(Task(s)) /\ Task(s).of = s.ch.of
  BY TaskFacts
<1>2. /\ \A r \in call.cut : r.kind = Task(s).kind /\ r.of = Task(s).of
      /\ \A r \in call.put : r \in Records /\ r.kind = Task(s).kind /\ r.of = Task(s).of
  BY <1>1, CallShape
<1> QED BY <1>1, <1>2 DEF Effect

\* The kinds of status change a zone may go through in one call.
StatusMove(z, y, p) == Status(z, p) = Status(y, p) \/ <<Status(z, p), Status(y, p)>> \in Contract!Moves

\* A call of a step that fits the zone keeps the ownership contract, and the
\* step goes on to fit.
LEMMA CallSafe ==
    ASSUME NEW s \in Steps, NEW z \in SUBSET Records, NEW i \in Ids,
           NEW call \in Calls(Task(s), z, i), StepFits(z, s)
    PROVE  /\ StepFits(Effect(z, call), s)
           /\ NotForeign(Effect(z, call), s.ch.of)
           /\ StatusMove(z, Effect(z, call), s.ch.of)
<1> DEFINE p == s.ch.of
           y == Effect(z, call)
<1>1. y \in SUBSET Records /\ \A r \in Records : r.of # p \/ r.kind # Task(s).kind => (r \in y <=> r \in z)
  BY CallLocal
<1>2. TaskOK(Task(s)) /\ Task(s).of = p
  BY TaskFacts
<1> HIDE DEF y
<1>3. CASE s.do \in {"delPrimary", "updPrimary", "newPrimary"}
  <2>1. Task(s).kind = "primary"
    BY <1>3, TaskFacts
  <2>2. Marked(y, p) <=> Marked(z, p)
    BY <1>1, <2>1 DEF Marked
  <2>3. Marked(z, p)
    BY <1>3 DEF StepFits
  <2>4. ASSUME s.do = "delPrimary" PROVE Contents(y, "primary", p) \subseteq s.ch.old
    <3>1. Task(s).keep = {}
      BY <2>4, TaskFacts
    <3>2. call.put = {}
      BY <3>1, <1>2, CallShape
    <3>3. y \subseteq z
      BY <3>2 DEF y, Effect
    <3>4. Contents(z, "primary", p) \subseteq s.ch.old
      BY <2>4 DEF StepFits
    <3> QED BY <3>3, <3>4 DEF Contents
  <2>5. StepFits(y, s)
    BY <1>3, <2>2, <2>3, <2>4 DEF StepFits
  <2>6. StatusMove(z, y, p)
    BY <2>2, <2>3 DEF StatusMove, Status, Contract!Moves
  <2> QED BY <2>2, <2>3, <2>5, <2>6 DEF NotForeign, y
<1>4. CASE s.do \in {"delMarker", "repDelOld", "repDelNew", "clean"}
  <2>1. Task(s).kind = "marker"
    BY <1>4, TaskFacts
  <2>2. Live(y, p) <=> Live(z, p)
    BY <1>1, <2>1 DEF Live
  <2>3. ~Live(z, p)
    BY <1>4 DEF StepFits
  <2>4. StepFits(y, s)
    BY <1>4, <2>2, <2>3 DEF StepFits
  <2>5. StatusMove(z, y, p)
    BY <2>2, <2>3 DEF StatusMove, Status, Contract!Moves
  <2> QED BY <2>2, <2>3, <2>4, <2>5 DEF NotForeign, y
<1>5. CASE s.do \in {"updMarker", "repEdit", "newMarker", "repConverge"}
  <2>1. Task(s).kind = "marker" /\ Task(s).drop = {}
    BY <1>5, TaskFacts
  <2>2. Live(y, p) <=> Live(z, p)
    BY <1>1, <2>1 DEF Live
  <2>3. Match(z, Task(s).kind, Task(s).of, Task(s).drop) = {}
    BY <2>1 DEF Match
  <2>4. Marked(y, p)
    BY <1>2, <2>1, <2>3, ConvergeKeepsOne DEF y, Marked
  <2>5. NotForeign(z, p)
    BY <1>5 DEF StepFits, NotForeign
  <2>6. StepFits(y, s)
    BY <1>5, <2>4 DEF StepFits, NotForeign
  <2>7. StatusMove(z, y, p)
    BY <2>2, <2>4, <2>5 DEF StatusMove, Status, NotForeign, Contract!Moves
  <2> QED BY <2>4, <2>6, <2>7 DEF NotForeign, y
<1> QED BY <1>3, <1>4, <1>5 DEF Steps, BatchDos, DrainDos

\* What a step's calls do not touch of the other identities.
LEMMA CallElsewhere ==
    ASSUME NEW s \in Steps, NEW z \in SUBSET Records, NEW i \in Ids,
           NEW call \in Calls(Task(s), z, i), NEW p, p # s.ch.of
    PROVE  /\ Live(Effect(z, call), p) <=> Live(z, p)
           /\ Marked(Effect(z, call), p) <=> Marked(z, p)
           /\ Contents(Effect(z, call), "primary", p) = Contents(z, "primary", p)
           /\ Status(Effect(z, call), p) = Status(z, p)
<1>1. /\ Effect(z, call) \in SUBSET Records
      /\ \A r \in Records : r.of # s.ch.of => (r \in Effect(z, call) <=> r \in z)
  BY CallLocal
<1>2. /\ Live(Effect(z, call), p) <=> Live(z, p)
      /\ Marked(Effect(z, call), p) <=> Marked(z, p)
      /\ Contents(Effect(z, call), "primary", p) = Contents(z, "primary", p)
  BY <1>1 DEF Live, Marked, Contents
<1> QED BY <1>2 DEF Status

\* So a step of another identity goes on to fit.
LEMMA FitsElsewhere ==
    ASSUME NEW s \in Steps, NEW z \in SUBSET Records, NEW i \in Ids,
           NEW call \in Calls(Task(s), z, i), NEW q \in Steps, q.ch.of # s.ch.of
    PROVE  StepFits(z, q) => StepFits(Effect(z, call), q)
BY CallElsewhere DEF StepFits, NotForeign

\* Nothing the provider does makes an identity foreign.
LEMMA StaysOurs ==
    ASSUME NEW s \in Steps, NEW z \in SUBSET Records, NEW i \in Ids,
           NEW call \in Calls(Task(s), z, i), StepFits(z, s), NEW p, NotForeign(z, p)
    PROVE  NotForeign(Effect(z, call), p)
BY CallSafe, CallElsewhere DEF NotForeign

(***************************************************************************)
(* Types                                                                   *)
(***************************************************************************)
\* The second half of a pair is a step.
LEMMA AfterTypes == ASSUME NEW s \in Steps PROVE After(s) \in SUBSET Steps
<1>1. \A d \in BatchDos \cup DrainDos : [s EXCEPT !.do = d] \in Steps
  BY DEF Steps
<1> QED BY <1>1 DEF After, BatchDos, DrainDos

\* What a failed step leaves in the queues are changes.
LEMMA LeftTypes ==
    ASSUME NEW s \in Steps, NEW tried \in SUBSET Changes, NEW call
    PROVE  /\ LeftCleanups(s, tried) \in SUBSET Changes
           /\ LeftRepairs(s) \in SUBSET Changes
           /\ Tried(s, call) \in SUBSET Changes
<1>1. s.ch \in Changes /\ s.ch.of \in Owned /\ s.ch.prot \in SUBSET Owned
      /\ s.ch.valOld \in AllContents /\ s.ch.valNew \in AllContents
  BY DEF Steps, Changes
<1>2. \A v \in AllContents, prot \in SUBSET Owned : Cleanup(s.ch, v, prot) \in Changes
  BY <1>1, ProviderAssumption DEF Changes, Cleanup
<1>3. Repair(s.ch) \in Changes
  BY <1>1, ProviderAssumption DEF Changes, Repair
<1> QED BY <1>1, <1>2, <1>3 DEF LeftCleanups, LeftRepairs, Tried

\* A batch planned from a zone consists of steps that begin something.
LEMMA BatchTypes ==
    ASSUME NEW v \in SUBSET Records, NEW want \in [Owned -> Wants]
    PROVE  Batch(v, want) \in SUBSET {s \in Steps : s.do \in BatchDos \ {"delMarker"}}
<1>1. \A p \in Owned, prot \in SUBSET Owned : ChangeOf(v, p, want[p], prot) \in Changes
  <2> SUFFICES ASSUME NEW p \in Owned, NEW prot \in SUBSET Owned
               PROVE  ChangeOf(v, p, want[p], prot) \in Changes
    OBVIOUS
  <2>1. want[p].targets \in SUBSET AllContents /\ want[p].val \in AllContents /\ want[p].attr \in Attrs
    BY ProviderAssumption DEF AllContents
  <2>2. Contents(v, "primary", p) \in SUBSET AllContents /\ Contents(v, "marker", p) \in SUBSET AllContents
    BY DEF Contents, Records
  <2>3. Contents(v, "marker", p) # {} => Least(Contents(v, "marker", p)) \in AllContents
    BY <2>2, ZoneAssumption, LeastIn
  <2> QED BY <2>1, <2>2, <2>3 DEF ChangeOf, Changes
<1>2. \A p, created : p \in Owned => Protected(v, created, p) \in SUBSET Owned
  BY DEF Protected
<1>3. \A p \in Owned : {p} \in SUBSET Owned
  OBVIOUS
<1>4. SUFFICES ASSUME NEW s \in Batch(v, want) PROVE s \in Steps /\ s.do \in BatchDos \ {"delMarker"}
  OBVIOUS
<1>5. PICK p \in Owned, prot \in SUBSET Owned, d \in BatchDos \ {"delMarker"} :
         s = [do |-> d, ch |-> ChangeOf(v, p, want[p], prot)]
  BY <1>2, <1>3 DEF Batch, BatchDos
<1> QED BY <1>1, <1>5 DEF Steps

\* A call the loop of t may make comes from the index of t.
LEMMA CallOfStep ==
    ASSUME NEW t \in Threads, NEW s \in cur[t], NEW call \in NextCalls(t, s)
    PROVE  \E i \in Ids : call \in Calls(Task(s), idx[t], i)
BY DEF NextCalls, NextId

\* Every call an endpoint operation comes to passes one of the places that ask
\* p.dryRun: deletes of a target or of a duplicate, creates, edits of a marker
\* or of a drifted record, and there is no other call.
LEMMA CallGuarded ==
    ASSUME NEW t \in Threads, NEW s, NEW call \in NextCalls(t, s)
    PROVE  Skipped(s, call) <=> DryRun
<1>1. PICK i \in NextId(zone \cup idx[t]) : call \in Calls(Task(s), idx[t], i)
  BY DEF NextCalls
<1>2. \/ \E r \in idx[t] : call = DeleteCall(r)
      \/ \E r \in idx[t], c \in Task(s).keep : call = EditCall(r, Task(s), c)
      \/ \E c \in Task(s).keep : call = CreateCall(Task(s), c, i)
  BY <1>1, CallKinds
<1>4. Skipped(s, call) => DryRun
  BY DEF Skipped, SkipsDelete, SkipsDuplicate, SkipsCreate, SkipsMove, SkipsEdit
<1>3. ASSUME DryRun, \E r \in idx[t] : call = DeleteCall(r) PROVE Skipped(s, call)
  BY <1>3 DEF DeleteCall, Skipped, SkipsDelete, SkipsDuplicate
<1>5. ASSUME DryRun, NEW r \in idx[t], NEW c \in Task(s).keep, call = EditCall(r, Task(s), c) PROVE Skipped(s, call)
  <2>1. call.cut = {r} /\ call.put # {}
    BY <1>5 DEF EditCall
  <2> QED BY <1>5, <2>1 DEF Skipped, SkipsMove, SkipsEdit
<1>6. ASSUME DryRun, \E c \in Task(s).keep : call = CreateCall(Task(s), c, i) PROVE Skipped(s, call)
  BY <1>6 DEF CreateCall, Skipped, SkipsCreate
<1> QED BY <1>2, <1>3, <1>4, <1>5, <1>6

\* A call of a step under way makes a zone of a zone and an index of an index.
LEMMA CallTypes ==
    ASSUME TypeOK, NEW t \in Threads, NEW s \in cur[t], NEW call \in NextCalls(t, s)
    PROVE  /\ s \in Steps
           /\ Effect(idx[t], call) \in SUBSET Records
           /\ Effect(zone, call) \in SUBSET Records
<1>1. PICK i \in Ids : call \in Calls(Task(s), idx[t], i)
  BY CallOfStep
<1>2. s \in Steps /\ idx[t] \in SUBSET Records /\ zone \in SUBSET Records
  BY DEF TypeOK
<1>3. call.put \in SUBSET Records
  BY <1>1, <1>2, TaskFacts, CallShape
<1> QED BY <1>2, <1>3 DEF Effect

\* A failed call keeps the count of failures within its bound.
LEMMA FaultTypes ==
    ASSUME TypeOK, NEW t \in Threads, Faulty(t)
    PROVE  faults' \in 0..MaxFaults
BY ProviderAssumption DEF TypeOK, Faulty

\* Returning keeps the types of what it resets.
LEMMA ReturnTypes ==
    ASSUME TypeOK, NEW t \in Threads, NEW err \in BOOLEAN, Return(t, err)
    PROVE  /\ operationMu' \in Threads \cup {NoThread}
           /\ pc' \in [Threads -> {"idle", "queued", "reply"} \cup Held]
           /\ op' \in [Threads -> {"records", "apply"}]
           /\ ctx' \in [Threads -> BOOLEAN]
           /\ ask' \in [Threads -> SUBSET Steps]
           /\ plan' \in [Threads -> SUBSET Steps]
           /\ cur' \in [Threads -> SUBSET Steps]
           /\ made' \in [Threads -> SUBSET Changes]
           /\ failed' \in [Threads -> BOOLEAN]
BY DEF TypeOK, Return

\* The types hold at the start ...
LEMMA TypeInit == Init => TypeOK
BY ProviderAssumption DEF Init, TypeOK

\* ... and every action keeps them.
LEMMA TypeNext == TypeOK /\ [Next]_vars => TypeOK'
<1> SUFFICES ASSUME TypeOK, [Next]_vars PROVE TypeOK'
  OBVIOUS
<1> USE ProviderAssumption
<1>1. CASE ChangeDesired
  BY <1>1 DEF TypeOK, ChangeDesired
<1>2. ASSUME NEW h \in Handlers, ControllerGet(h) PROVE TypeOK'
  BY <1>2 DEF TypeOK, ControllerGet
<1>3. ASSUME NEW h \in Handlers, ControllerPost(h) PROVE TypeOK'
  <2>1. PICK v \in view : ask' = [ask EXCEPT ![h] = Batch(v, desired)]
    BY <1>3 DEF ControllerPost
  <2>2. Batch(v, desired) \in SUBSET Steps
    BY BatchTypes DEF TypeOK
  <2> QED BY <1>3, <2>1, <2>2 DEF TypeOK, ControllerPost
<1>4. CASE ControllerRest
  BY <1>4 DEF TypeOK, ControllerRest
<1>5. CASE ProbeStart
  BY <1>5 DEF TypeOK, ProbeStart
<1>6. CASE CacheExpire
  BY <1>6 DEF TypeOK, CacheExpire
<1>7. CASE Crash
  BY <1>7 DEF TypeOK, Crash
<1>8. ASSUME NEW t \in Threads, Cancel(t) PROVE TypeOK'
  BY <1>8 DEF TypeOK, Cancel
<1>9. ASSUME NEW t \in Threads, Acquire(t) PROVE TypeOK'
  BY <1>9 DEF TypeOK, Acquire
<1>10. ASSUME NEW t \in Threads, DrainRetrieve(t) PROVE TypeOK'
  <2>0. cache' = {} /\ UNCHANGED <<zone, pendingCleanups, pendingRepairs, desired, view, mine, edits, crashes>>
    BY <1>10 DEF DrainRetrieve
  <2>1. CASE Faulty(t) /\ Return(t, TRUE) /\ UNCHANGED idx
    BY <2>0, <2>1, FaultTypes, ReturnTypes DEF TypeOK
  <2>2. CASE Retrieve(t) /\ pc' = [pc EXCEPT ![t] = "drain"]
             /\ UNCHANGED <<operationMu, op, ctx, ask, plan, cur, made, failed, faults>>
    BY <2>0, <2>2 DEF TypeOK, Retrieve
  <2> QED BY <1>10, <2>1, <2>2 DEF DrainRetrieve
<1>11. ASSUME NEW t \in Threads, DrainPickRepair(t) PROVE TypeOK'
  <2>1. PICK rp \in pendingRepairs :
           /\ cur' = [cur EXCEPT ![t] = {[do |-> d, ch |-> rp] : d \in RepairDos(rp, idx[t])}]
           /\ pendingRepairs' = IF RepairDos(rp, idx[t]) = {} THEN pendingRepairs \ {rp} ELSE pendingRepairs
    BY <1>11 DEF DrainPickRepair
  <2>2. rp \in Changes /\ RepairDos(rp, idx[t]) \in SUBSET DrainDos
    BY DEF TypeOK, RepairDos, DrainDos
  <2>3. {[do |-> d, ch |-> rp] : d \in RepairDos(rp, idx[t])} \in SUBSET Steps
    BY <2>2 DEF Steps
  <2> QED BY <1>11, <2>1, <2>3 DEF TypeOK, DrainPickRepair
<1>12. ASSUME NEW t \in Threads, DrainPickCleanup(t) PROVE TypeOK'
  <2>1. \A cl \in pendingCleanups : {[do |-> "clean", ch |-> cl]} \in SUBSET Steps
    BY DEF TypeOK, Steps, DrainDos
  <2> QED BY <1>12, <2>1 DEF TypeOK, DrainPickCleanup
<1>13. ASSUME NEW t \in Threads, DrainEnd(t) PROVE TypeOK'
  BY <1>13 DEF TypeOK, DrainEnd, Return
<1>14. ASSUME NEW t \in Threads, RecordsCached(t) PROVE TypeOK'
  BY <1>14 DEF TypeOK, RecordsCached, Return
<1>15. ASSUME NEW t \in Threads, RecordsRetrieve(t) PROVE TypeOK'
  <2>0. UNCHANGED <<zone, pendingCleanups, pendingRepairs, desired, view, mine, edits, crashes>>
    BY <1>15 DEF RecordsRetrieve
  <2>1. CASE Faulty(t) /\ Return(t, TRUE) /\ UNCHANGED <<cache, idx>>
    BY <2>0, <2>1, FaultTypes, ReturnTypes DEF TypeOK
  <2>2. CASE Retrieve(t) /\ cache' = {zone} /\ Return(t, FALSE) /\ UNCHANGED faults
    BY <2>0, <2>2, ReturnTypes DEF TypeOK, Retrieve
  <2> QED BY <1>15, <2>1, <2>2 DEF RecordsRetrieve
<1>16. ASSUME NEW t \in Threads, ApplyRetrieve(t) PROVE TypeOK'
  <2>0. UNCHANGED <<zone, pendingCleanups, pendingRepairs, desired, view, mine, edits, crashes>>
    BY <1>16 DEF ApplyRetrieve
  <2>1. CASE Faulty(t) /\ Return(t, TRUE) /\ UNCHANGED <<cache, idx>>
    BY <2>0, <2>1, FaultTypes, ReturnTypes DEF TypeOK
  <2>2. CASE /\ Retrieve(t) /\ cache' = {} /\ pc' = [pc EXCEPT ![t] = "work"]
             /\ plan' = [plan EXCEPT ![t] = ask[t]]
             /\ UNCHANGED <<operationMu, op, ctx, ask, cur, made, failed, faults>>
    BY <2>0, <2>2 DEF TypeOK, Retrieve
  <2> QED BY <1>16, <2>1, <2>2 DEF ApplyRetrieve
<1>17. ASSUME NEW t \in Threads, ApplyPick(t) PROVE TypeOK'
  BY <1>17 DEF TypeOK, ApplyPick
<1>18. ASSUME NEW t \in Threads, CallOk(t) PROVE TypeOK'
  <2>1. PICK s \in cur[t] : \E c \in NextCalls(t, s) : Confirmed(t, s, c)
    BY <1>18 DEF CallOk
  <2>2. PICK call \in NextCalls(t, s) : Confirmed(t, s, call)
    BY <2>1
  <2>3. Effect(idx[t], call) \in SUBSET Records /\ Effect(zone, call) \in SUBSET Records
    BY CallTypes
  <2>4. Tried(s, call) \in SUBSET Changes
    BY LeftTypes DEF TypeOK
  <2> QED BY <1>18, <2>2, <2>3, <2>4 DEF TypeOK, Confirmed
<1>19. ASSUME NEW t \in Threads, DrainError(t) PROVE TypeOK'
  <2>1. PICK s \in cur[t] : \E c \in NextCalls(t, s) : Unconfirmed(t, s, c)
    BY <1>19 DEF DrainError
  <2>2. PICK call \in NextCalls(t, s) : Unconfirmed(t, s, call)
    BY <2>1
  <2>3. Effect(zone, call) \in SUBSET Records
    BY CallTypes
  <2> QED BY <1>19, <2>2, <2>3 DEF TypeOK, DrainError, Unconfirmed, Faulty, Return
<1>24. ASSUME NEW t \in Threads, ApplyError(t) PROVE TypeOK'
  <2>1. PICK s \in cur[t] : \E c \in NextCalls(t, s) : Abandon(t, s, c)
    BY <1>24 DEF ApplyError
  <2>2. PICK call \in NextCalls(t, s) : Abandon(t, s, call)
    BY <2>1
  <2>3. Effect(zone, call) \in SUBSET Records
    BY CallTypes
  <2>4. s \in Steps /\ made[t] \in SUBSET Changes
    BY DEF TypeOK
  <2>5. made[t] \cup Tried(s, call) \in SUBSET Changes
    BY <2>4, LeftTypes
  <2>6. LeftCleanups(s, made[t] \cup Tried(s, call)) \in SUBSET Changes /\ LeftRepairs(s) \in SUBSET Changes
    BY <2>4, <2>5, LeftTypes
  <2>7. zone' \in SUBSET Records /\ pendingCleanups' \in SUBSET Changes /\ pendingRepairs' \in SUBSET Changes
    BY <2>2, <2>3, <2>6 DEF Abandon, Unconfirmed, TypeOK
  <2>8. faults' \in 0..MaxFaults
    BY <2>2, FaultTypes DEF Abandon, Unconfirmed
  <2>9. CASE Return(t, TRUE)
    BY <2>2, <2>7, <2>8, <2>9, ReturnTypes DEF TypeOK, Abandon
  <2>10. CASE /\ pc' = [pc EXCEPT ![t] = "drainRead"]
              /\ failed' = [failed EXCEPT ![t] = TRUE]
              /\ plan' = [plan EXCEPT ![t] = {}]
              /\ cur' = [cur EXCEPT ![t] = {}]
              /\ made' = [made EXCEPT ![t] = {}]
              /\ UNCHANGED <<operationMu, op, ctx, ask>>
    BY <2>2, <2>7, <2>8, <2>10 DEF TypeOK, Abandon
  <2> QED BY <2>2, <2>9, <2>10 DEF Abandon
<1>20. ASSUME NEW t \in Threads, StepDone(t) PROVE TypeOK'
  <2>1. \A s \in cur[t] : After(s) \in SUBSET Steps
    BY AfterTypes DEF TypeOK
  <2> QED BY <1>20, <2>1 DEF TypeOK, StepDone
<1>21. ASSUME NEW t \in Threads, ApplyEnd(t) PROVE TypeOK'
  BY <1>21 DEF TypeOK, ApplyEnd, Return
<1>22. ASSUME NEW t \in Threads, Reply(t) PROVE TypeOK'
  BY <1>22 DEF TypeOK, Reply
<1>23. CASE UNCHANGED vars
  BY <1>23 DEF TypeOK, vars
<1> QED BY <1>1, <1>2, <1>3, <1>4, <1>5, <1>6, <1>7, <1>8, <1>9, <1>10, <1>11, <1>12, <1>13, <1>14,
           <1>15, <1>16, <1>17, <1>18, <1>19, <1>20, <1>21, <1>22, <1>23, <1>24 DEF Next, Step

\* The type invariant.
THEOREM Typed == Spec => []TypeOK
BY TypeInit, TypeNext, PTL DEF Spec

(***************************************************************************)
(* The mutex, the cache and the index                                      *)
(***************************************************************************)
\* What the proofs below need of the types.
Shapes ==
    /\ pc \in [Threads -> {"idle", "queued", "reply"} \cup Held]
    /\ operationMu \in Threads \cup {NoThread}
    /\ op \in [Threads -> {"records", "apply"}]
    /\ ctx \in [Threads -> BOOLEAN]
    /\ ask \in [Threads -> SUBSET Steps]
    /\ plan \in [Threads -> SUBSET Steps]
    /\ cur \in [Threads -> SUBSET Steps]
    /\ idx \in [Threads -> SUBSET Records]
    /\ made \in [Threads -> SUBSET Changes]
    /\ failed \in [Threads -> BOOLEAN]

\* The shapes of the thread-indexed variables follow from the types.
LEMMA TypeShapes == TypeOK => Shapes
BY DEF TypeOK, Shapes

\* A step has at most one second half.
LEMMA AfterOne ==
    ASSUME NEW s
    PROVE  \A q, r \in After(s) : q = r
BY DEF After

\* A repair needs at most one endpoint operation at a time.
LEMMA RepairOne ==
    ASSUME NEW rp, NEW i
    PROVE  \A d, e \in RepairDos(rp, i) : d = e
BY DEF RepairDos

\* The mutex, the cache and the index are in order at the start ...
LEMMA LockInit == Init => LockInv
<1> SUFFICES ASSUME Init PROVE LockInv
  OBVIOUS
<1>1. TypeOK
  BY TypeInit
<1> QED BY <1>1, ProviderAssumption DEF Init, LockInv, LockDiscipline, CacheCoherent, CacheEmptyAtWork, StepsInPlace,
                                        StepsOfLoop, DrainedFirst

\* ... and after every action: only the holder of operationMu changes the
\* zone, and it has emptied the cache before it does.
LEMMA MutexNext ==
    LockInv /\ [Next]_vars => (LockDiscipline /\ CacheCoherent /\ CacheEmptyAtWork /\ StepsInPlace)'
<1> DEFINE Core == LockDiscipline /\ CacheCoherent /\ CacheEmptyAtWork /\ StepsInPlace
<1> SUFFICES ASSUME LockInv, [Next]_vars PROVE Core'
  OBVIOUS
<1>0. /\ TypeOK /\ Shapes /\ Core /\ TypeOK'
      /\ \A t \in Threads : pc[t] = "drain" => \A s \in cur[t] : s.do # "newMarker"
  BY TypeShapes, TypeNext DEF LockInv, StepsOfLoop, DrainDos
<1> USE DEF LockDiscipline, CacheCoherent, CacheEmptyAtWork, StepsInPlace
<1>1. CASE ChangeDesired
  BY <1>0, <1>1 DEF ChangeDesired
<1>2. ASSUME NEW h \in Handlers, ControllerGet(h) PROVE Core'
  BY <1>0, <1>2, ProviderAssumption DEF ControllerGet, Shapes
<1>3. ASSUME NEW h \in Handlers, ControllerPost(h) PROVE Core'
  BY <1>0, <1>3, ProviderAssumption DEF ControllerPost, Shapes
<1>4. CASE ControllerRest
  BY <1>0, <1>4 DEF ControllerRest
<1>5. CASE ProbeStart
  BY <1>0, <1>5, ProviderAssumption DEF ProbeStart, Shapes
<1>6. CASE CacheExpire
  BY <1>0, <1>6 DEF CacheExpire
<1>7. CASE Crash
  BY <1>0, <1>7, ProviderAssumption DEF Crash, Shapes
<1>8. ASSUME NEW t \in Threads, Cancel(t) PROVE Core'
  BY <1>0, <1>8 DEF Cancel
<1>9. ASSUME NEW t \in Threads, Acquire(t) PROVE Core'
  BY <1>0, <1>9, ProviderAssumption DEF Acquire, Shapes
<1>10. ASSUME NEW t \in Threads, DrainRetrieve(t) PROVE Core'
  <2>1. CASE Return(t, TRUE)
    BY <1>0, <1>10, <2>1, ProviderAssumption DEF DrainRetrieve, Shapes, Return
  <2>2. CASE Retrieve(t) /\ pc' = [pc EXCEPT ![t] = "drain"] /\ UNCHANGED <<operationMu, plan, cur, made>>
    BY <1>0, <1>10, <2>2, ProviderAssumption DEF DrainRetrieve, Shapes, Retrieve
  <2> QED BY <1>10, <2>1, <2>2 DEF DrainRetrieve
<1>11. ASSUME NEW t \in Threads, DrainPickRepair(t) PROVE Core'
  <2>1. PICK rp \in pendingRepairs : cur' = [cur EXCEPT ![t] = {[do |-> d, ch |-> rp] : d \in RepairDos(rp, idx[t])}]
    BY <1>11 DEF DrainPickRepair
  <2>2. \A d, e \in RepairDos(rp, idx[t]) : d = e
    BY RepairOne
  <2>3. \A s, q \in cur'[t] : s = q
    BY <1>0, <2>1, <2>2 DEF Shapes
  <2> QED BY <1>0, <1>11, <2>1, <2>3, ProviderAssumption DEF DrainPickRepair, Shapes
<1>12. ASSUME NEW t \in Threads, DrainPickCleanup(t) PROVE Core'
  BY <1>0, <1>12, ProviderAssumption DEF DrainPickCleanup, Shapes
<1>13. ASSUME NEW t \in Threads, DrainEnd(t) PROVE Core'
  BY <1>0, <1>13, ProviderAssumption DEF DrainEnd, Shapes, Return
<1>14. ASSUME NEW t \in Threads, RecordsCached(t) PROVE Core'
  BY <1>0, <1>14, ProviderAssumption DEF RecordsCached, Shapes, Return
<1>15. ASSUME NEW t \in Threads, RecordsRetrieve(t) PROVE Core'
  BY <1>0, <1>15, ProviderAssumption DEF RecordsRetrieve, Shapes, Retrieve, Return
<1>16. ASSUME NEW t \in Threads, ApplyRetrieve(t) PROVE Core'
  <2>1. CASE Return(t, TRUE)
    BY <1>0, <1>16, <2>1, ProviderAssumption DEF ApplyRetrieve, Shapes, Retrieve, Return
  <2>2. CASE /\ Retrieve(t) /\ cache' = {} /\ pc' = [pc EXCEPT ![t] = "work"]
             /\ plan' = [plan EXCEPT ![t] = ask[t]] /\ UNCHANGED <<operationMu, cur, made>>
    BY <1>0, <1>16, <2>2, ProviderAssumption DEF ApplyRetrieve, Shapes, Retrieve
  <2> QED BY <1>16, <2>1, <2>2 DEF ApplyRetrieve
<1>17. ASSUME NEW t \in Threads, ApplyPick(t) PROVE Core'
  BY <1>0, <1>17, ProviderAssumption DEF ApplyPick, Shapes
<1>18. ASSUME NEW t \in Threads, CallOk(t) PROVE Core'
  <2>1. PICK s \in cur[t] : \E c \in NextCalls(t, s) : Confirmed(t, s, c)
    BY <1>18 DEF CallOk
  <2>2. PICK call \in NextCalls(t, s) : Confirmed(t, s, call)
    BY <2>1
  <2>3. pc[t] = "drain" => Tried(s, call) = {}
    BY <1>0 DEF Tried
  <2>4. Skipped(s, call) <=> DryRun
    BY CallGuarded
  <2> QED BY <1>0, <1>18, <2>2, <2>3, <2>4, ProviderAssumption DEF CallOk, Confirmed, Shapes
<1>19. ASSUME NEW t \in Threads, DrainError(t) PROVE Core'
  BY <1>0, <1>19, ProviderAssumption DEF DrainError, Shapes, Return
<1>20. ASSUME NEW t \in Threads, ApplyError(t) PROVE Core'
  <2>1. PICK s \in cur[t] : \E c \in NextCalls(t, s) : Abandon(t, s, c)
    BY <1>20 DEF ApplyError
  <2>2. PICK call \in NextCalls(t, s) : Abandon(t, s, call)
    BY <2>1
  <2>3. CASE Return(t, TRUE)
    BY <1>0, <1>20, <2>2, <2>3, ProviderAssumption DEF ApplyError, Abandon, Shapes, Return
  <2>4. CASE /\ pc' = [pc EXCEPT ![t] = "drainRead"]
             /\ plan' = [plan EXCEPT ![t] = {}]
             /\ cur' = [cur EXCEPT ![t] = {}]
             /\ made' = [made EXCEPT ![t] = {}]
             /\ UNCHANGED operationMu
    BY <1>0, <1>20, <2>2, <2>4, ProviderAssumption DEF ApplyError, Abandon, Shapes
  <2> QED BY <2>2, <2>3, <2>4 DEF Abandon
<1>21. ASSUME NEW t \in Threads, StepDone(t) PROVE Core'
  BY <1>0, <1>21, AfterOne, ProviderAssumption DEF StepDone, Shapes
<1>22. ASSUME NEW t \in Threads, ApplyEnd(t) PROVE Core'
  BY <1>0, <1>22, ProviderAssumption DEF ApplyEnd, Shapes, Return
<1>23. ASSUME NEW t \in Threads, Reply(t) PROVE Core'
  BY <1>0, <1>23, ProviderAssumption DEF Reply, Shapes
<1>24. CASE UNCHANGED vars
  BY <1>0, <1>24 DEF vars
<1> QED BY <1>1, <1>2, <1>3, <1>4, <1>5, <1>6, <1>7, <1>8, <1>9, <1>10, <1>11, <1>12, <1>13, <1>14,
           <1>15, <1>16, <1>17, <1>18, <1>19, <1>20, <1>21, <1>22, <1>23, <1>24 DEF Next, Step

\* A loop only runs its own steps, and no work begins before the queues are
\* empty: only an error of a batch fills them, and it ends the batch.
LEMMA LoopsNext == LockInv /\ [Next]_vars => (StepsOfLoop /\ DrainedFirst)'
<1> DEFINE Loops == StepsOfLoop /\ DrainedFirst
<1> SUFFICES ASSUME LockInv, [Next]_vars PROVE Loops'
  OBVIOUS
<1>0. TypeOK /\ Shapes /\ Loops /\ LockDiscipline /\ StepsInPlace
  BY TypeShapes DEF LockInv
<1> USE DEF StepsOfLoop, DrainedFirst
<1>1. CASE ChangeDesired \/ ControllerRest \/ CacheExpire \/ UNCHANGED vars
  BY <1>0, <1>1 DEF ChangeDesired, ControllerRest, CacheExpire, vars
<1>2. ASSUME NEW h \in Handlers, ControllerGet(h) PROVE Loops'
  BY <1>0, <1>2, ProviderAssumption DEF ControllerGet, Shapes
<1>3. ASSUME NEW h \in Handlers, ControllerPost(h) PROVE Loops'
  <2>1. PICK v \in view : ask' = [ask EXCEPT ![h] = Batch(v, desired)]
    BY <1>3 DEF ControllerPost
  <2>2. \A s \in Batch(v, desired) : s.do \in BatchDos \ {"delMarker"}
    BY <1>0, BatchTypes DEF TypeOK
  <2> QED BY <1>0, <1>3, <2>1, <2>2, ProviderAssumption DEF ControllerPost, Shapes
<1>5. CASE ProbeStart
  BY <1>0, <1>5, ProviderAssumption DEF ProbeStart, Shapes
<1>7. CASE Crash
  BY <1>0, <1>7 DEF Crash
<1>8. ASSUME NEW t \in Threads, Cancel(t) PROVE Loops'
  BY <1>0, <1>8 DEF Cancel
<1>9. ASSUME NEW t \in Threads, Acquire(t) PROVE Loops'
  BY <1>0, <1>9 DEF Acquire, Shapes
<1>10. ASSUME NEW t \in Threads, DrainRetrieve(t) PROVE Loops'
  <2>1. cur[t] = {}
    BY <1>0, <1>10 DEF DrainRetrieve, StepsInPlace
  <2> QED BY <1>0, <1>10, <2>1 DEF DrainRetrieve, Shapes, Return
<1>11. ASSUME NEW t \in Threads, DrainPickRepair(t) PROVE Loops'
  <2>1. PICK rp \in pendingRepairs :
           /\ cur' = [cur EXCEPT ![t] = {[do |-> d, ch |-> rp] : d \in RepairDos(rp, idx[t])}]
           /\ pendingRepairs' = IF RepairDos(rp, idx[t]) = {} THEN pendingRepairs \ {rp} ELSE pendingRepairs
    BY <1>11 DEF DrainPickRepair
  <2>2. RepairDos(rp, idx[t]) \in SUBSET (DrainDos \ {"clean"})
    BY DEF RepairDos, DrainDos
  <2>3. \A s \in cur'[t] : s.do \in DrainDos \ {"clean"} /\ s.ch \in pendingRepairs'
    BY <1>0, <2>1, <2>2 DEF Shapes
  <2>4. \A u \in Threads : u # t => pc[u] \notin Held /\ cur'[u] = cur[u]
    BY <1>0, <1>11, <2>1 DEF DrainPickRepair, Shapes, LockDiscipline
  <2> QED BY <1>0, <1>11, <2>3, <2>4 DEF DrainPickRepair
<1>12. ASSUME NEW t \in Threads, DrainPickCleanup(t) PROVE Loops'
  <2>1. \A u \in Threads : u # t => pc[u] \notin Held /\ cur'[u] = cur[u]
    BY <1>0, <1>12 DEF DrainPickCleanup, Shapes, LockDiscipline
  <2> QED BY <1>0, <1>12, <2>1 DEF DrainPickCleanup, Shapes
<1>13. ASSUME NEW t \in Threads, DrainEnd(t) PROVE Loops'
  BY <1>0, <1>13 DEF DrainEnd, Shapes, Return
<1>14. ASSUME NEW t \in Threads, RecordsCached(t) \/ RecordsRetrieve(t) PROVE Loops'
  BY <1>0, <1>14 DEF RecordsCached, RecordsRetrieve, Shapes, Return
<1>16. ASSUME NEW t \in Threads, ApplyRetrieve(t) PROVE Loops'
  <2>1. cur[t] = {}
    BY <1>0, <1>16 DEF ApplyRetrieve, StepsInPlace
  <2> QED BY <1>0, <1>16, <2>1 DEF ApplyRetrieve, Shapes, Return
<1>17. ASSUME NEW t \in Threads, ApplyPick(t) PROVE Loops'
  BY <1>0, <1>17 DEF ApplyPick, Shapes
<1>18. ASSUME NEW t \in Threads, CallOk(t) PROVE Loops'
  BY <1>0, <1>18 DEF CallOk, Confirmed
<1>19. ASSUME NEW t \in Threads, DrainError(t) PROVE Loops'
  BY <1>0, <1>19 DEF DrainError, Shapes, Return
<1>20. ASSUME NEW t \in Threads, ApplyError(t) PROVE Loops'
  <2>1. PICK s \in cur[t] : \E c \in NextCalls(t, s) : Abandon(t, s, c)
    BY <1>20 DEF ApplyError
  <2>2. PICK call \in NextCalls(t, s) : Abandon(t, s, call)
    BY <2>1
  <2>3. /\ pc' = [pc EXCEPT ![t] = "reply"] \/ pc' = [pc EXCEPT ![t] = "drainRead"]
        /\ plan' = [plan EXCEPT ![t] = {}]
        /\ cur' = [cur EXCEPT ![t] = {}]
        /\ UNCHANGED ask
    BY <2>2 DEF Abandon, Return
  <2>4. \A u \in Threads : u # t => pc[u] \notin Held
    BY <1>0, <1>20 DEF ApplyError, LockDiscipline
  <2> QED BY <1>0, <2>3, <2>4 DEF Shapes
<1>21. ASSUME NEW t \in Threads, StepDone(t) PROVE Loops'
  <2>1. PICK s \in cur[t] :
          /\ cur' = [cur EXCEPT ![t] = After(s)]
          /\ pendingCleanups' = IF s.do = "clean" THEN pendingCleanups \ {s.ch} ELSE pendingCleanups
          /\ pendingRepairs' = IF s.do \in {"repDelOld", "repDelNew", "repConverge", "repEdit"} /\ After(s) = {}
                               THEN pendingRepairs \ {s.ch} ELSE pendingRepairs
    BY <1>21 DEF StepDone
  <2>2. pc[t] \in {"drain", "work"} /\ UNCHANGED <<pc, ask, plan>>
    BY <1>21 DEF StepDone
  <2>3. \A u \in Threads : u # t => pc[u] \notin Held
    BY <1>0, <2>2 DEF LockDiscipline
  <2>4. s \in Steps /\ cur'[t] = After(s)
    BY <1>0, <2>1 DEF Shapes
  <2>5. \A q \in After(s) :
           /\ q.ch = s.ch
           /\ s.do = "repDelOld" => q.do = "repDelNew"
           /\ s.do # "repDelOld" => s.do \in BatchDos /\ q.do \in BatchDos
    BY <2>4 DEF After, Steps, BatchDos
  <2>6. DrainedFirst'
    BY <1>0, <2>1, <2>2
  <2>7. StepsOfLoop'
    <3>1. ASSUME pc[t] = "work", NEW q \in After(s) PROVE q.do \in BatchDos
      <4>1. s.do \in BatchDos
        BY <1>0, <3>1
      <4>2. s.do # "repDelOld"
        BY <4>1 DEF BatchDos
      <4> QED BY <2>5, <4>2
    <3>2. ASSUME pc[t] = "drain", NEW q \in After(s)
          PROVE  q.do \in DrainDos \ {"clean"} /\ q.ch \in pendingRepairs'
      <4>1. s.do \in DrainDos /\ (s.do # "clean" => s.ch \in pendingRepairs)
        BY <1>0, <3>2 DEF DrainDos
      <4>2. s.do = "repDelOld" /\ q.ch = s.ch /\ q.do = "repDelNew"
        BY <2>5, <4>1 DEF DrainDos, BatchDos
      <4>3. s.ch \in pendingRepairs /\ pendingRepairs' = pendingRepairs
        BY <2>1, <4>1, <4>2
      <4> QED BY <4>2, <4>3 DEF DrainDos
    <3>3. \A u \in Threads : u # t => cur'[u] = cur[u] /\ pc[u] \notin {"drain", "work"}
      BY <1>0, <2>1, <2>3 DEF Shapes
    <3> QED BY <1>0, <2>2, <2>4, <3>1, <3>2, <3>3
  <2> QED BY <2>6, <2>7
<1>22. ASSUME NEW t \in Threads, ApplyEnd(t) PROVE Loops'
  BY <1>0, <1>22 DEF ApplyEnd, Shapes, Return
<1>23. ASSUME NEW t \in Threads, Reply(t) PROVE Loops'
  BY <1>0, <1>23 DEF Reply, Shapes
<1> QED BY <1>1, <1>2, <1>3, <1>5, <1>7, <1>8, <1>9, <1>10, <1>11, <1>12, <1>13, <1>14,
           <1>16, <1>17, <1>18, <1>19, <1>20, <1>21, <1>22, <1>23 DEF Next, Step

\* LockInv is inductive.
LEMMA LockNext == LockInv /\ [Next]_vars => LockInv'
<1> SUFFICES ASSUME LockInv, [Next]_vars PROVE LockInv'
  OBVIOUS
<1>1. TypeOK'
  BY TypeNext DEF LockInv
<1> QED BY <1>1, MutexNext, LoopsNext DEF LockInv

\* The mutex, the queues and the cache are always in order (operationMu, its
\* deferred Unlock, and the drain at the head of Records and ApplyChanges).
THEOREM Locked == Spec => []LockInv
BY LockInit, LockNext, PTL DEF Spec

\* A cached snapshot is the zone, for every zone and every number of requests.
THEOREM Coherent == Spec => []CacheCoherent
<1>1. LockInv => CacheCoherent
  BY DEF LockInv
<1> QED BY <1>1, LockInit, LockNext, PTL DEF Spec

\* So is the index a batch or a drain decides upon.
THEOREM Fresh == Spec => []IndexFresh
<1>1. LockInv => IndexFresh
  BY DEF LockInv, StepsInPlace, IndexFresh
<1> QED BY <1>1, LockInit, LockNext, PTL DEF Spec

(***************************************************************************)
(* Endpoint operations go on and end                                       *)
(***************************************************************************)
\* The tasks of all steps fit: an update drops what it does not keep, an edit
\* of a marker moves it to another value.
LEMMA TasksFit == ASSUME NEW s \in Steps PROVE TaskFits(Task(s))
<1>1. TaskOK(Task(s))
  BY TaskFacts
<1>2. s.do \in BatchDos \cup DrainDos
  BY DEF Steps
<1>3. /\ Task(s).drop \cap Task(s).keep = {}
      /\ Task(s).move \cap Task(s).keep = {}
      /\ Task(s).move # {} => Task(s).keep # {}
  <2>1. CASE s.do = "delPrimary"
    BY <2>1 DEF Task, TaskRec
  <2>2. CASE s.do \in {"delMarker", "repDelOld", "clean"}
    BY <2>2 DEF Task, TaskRec
  <2>3. CASE s.do = "repDelNew"
    BY <2>3 DEF Task, TaskRec
  <2>4. CASE s.do \in {"updMarker", "repEdit"}
    BY <2>4 DEF Task, TaskRec
  <2>5. CASE s.do \in {"newMarker", "repConverge"}
    BY <2>5 DEF Task, TaskRec
  <2>6. CASE s.do = "updPrimary"
    BY <2>6 DEF Task, TaskRec
  <2>7. CASE s.do = "newPrimary"
    BY <2>7 DEF Task, TaskRec
  <2> QED BY <1>2, <2>1, <2>2, <2>3, <2>4, <2>5, <2>6, <2>7 DEF BatchDos, DrainDos
<1> QED BY <1>1, <1>3 DEF TaskFits

\* Every call of a step leaves the records of the index apart, and those of
\* the zone, where it is not a dry run that only pretends to call.
LEMMA CallKeepsApart ==
    ASSUME LockInv, IdsInv, NEW t \in Threads, NEW s \in cur[t], NEW call \in NextCalls(t, s)
    PROVE  /\ IdsApart(Effect(idx[t], call))
           /\ ~DryRun => IdsApart(Effect(zone, call))
<1>1. PICK i \in NextId(zone \cup idx[t]) : call \in Calls(Task(s), idx[t], i)
  BY DEF NextCalls
<1>2. \A r \in idx[t] : r.id # i
  BY <1>1 DEF NextId
<1>3. idx[t] \in SUBSET Records /\ IdsApart(idx[t])
  BY TypeShapes DEF LockInv, Shapes, IdsInv
<1>4. IdsApart(Effect(idx[t], call))
  BY <1>1, <1>2, <1>3, CallApart
<1>5. ~DryRun => idx[t] = zone
  BY DEF LockInv, StepsInPlace
<1> QED BY <1>4, <1>5

\* What a step of the program may do to the zone and to the indexes.
LEMMA IndexMoves ==
    ASSUME LockInv, [Next]_vars
    PROVE  /\ \/ zone' = zone
              \/ ~DryRun /\ \E t \in Threads : \E s \in cur[t] : \E c \in NextCalls(t, s) : zone' = Effect(zone, c)
           /\ \A u \in Threads :
                 \/ idx'[u] = idx[u]
                 \/ cur[u] = {} /\ idx'[u] = zone
                 \/ cur'[u] = {} /\ idx'[u] = {}
                 \/ \E s \in cur[u] : \E c \in NextCalls(u, s) : idx'[u] = Effect(idx[u], c)
<1> DEFINE Zone == \/ zone' = zone
                   \/ ~DryRun /\ \E t \in Threads : \E s \in cur[t] : \E c \in NextCalls(t, s) : zone' = Effect(zone, c)
           Index(u) == \/ idx'[u] = idx[u]
                       \/ cur[u] = {} /\ idx'[u] = zone
                       \/ cur'[u] = {} /\ idx'[u] = {}
                       \/ \E s \in cur[u] : \E c \in NextCalls(u, s) : idx'[u] = Effect(idx[u], c)
           Moves == Zone /\ \A u \in Threads : Index(u)
<1>0. Shapes /\ StepsInPlace /\ CacheCoherent
  BY TypeShapes DEF LockInv
<1>1. CASE ChangeDesired \/ ControllerRest \/ ProbeStart \/ CacheExpire \/ UNCHANGED vars
  BY <1>1 DEF ChangeDesired, ControllerRest, ProbeStart, CacheExpire, vars
<1>2. ASSUME NEW h \in Handlers, ControllerGet(h) \/ ControllerPost(h) PROVE Moves
  BY <1>2 DEF ControllerGet, ControllerPost
<1>3. CASE Crash
  BY <1>3 DEF Crash
<1>4. ASSUME NEW t \in Threads, Cancel(t) \/ Acquire(t) PROVE Moves
  BY <1>4 DEF Cancel, Acquire
<1>5. ASSUME NEW t \in Threads, DrainRetrieve(t) \/ ApplyRetrieve(t) \/ RecordsRetrieve(t) PROVE Moves
  <2>1. cur[t] = {}
    BY <1>0, <1>5 DEF StepsInPlace, DrainRetrieve, ApplyRetrieve, RecordsRetrieve
  <2>2. zone' = zone /\ (idx' = idx \/ idx' = [idx EXCEPT ![t] = zone])
    BY <1>5 DEF DrainRetrieve, ApplyRetrieve, RecordsRetrieve, Retrieve
  <2>3. \A u \in Threads : Index(u)
    BY <1>0, <2>1, <2>2 DEF Shapes
  <2> QED BY <2>2, <2>3
<1>6. ASSUME NEW t \in Threads, RecordsCached(t) PROVE Moves
  <2>1. cur[t] = {}
    BY <1>0, <1>6 DEF StepsInPlace, RecordsCached
  <2>2. zone' = zone /\ idx' = [idx EXCEPT ![t] = zone]
    BY <1>0, <1>6 DEF RecordsCached, CacheCoherent
  <2>3. \A u \in Threads : Index(u)
    BY <1>0, <2>1, <2>2 DEF Shapes
  <2> QED BY <2>2, <2>3
<1>7. ASSUME NEW t \in Threads, DrainPickRepair(t) \/ DrainPickCleanup(t) \/ DrainEnd(t) \/ ApplyPick(t) \/ StepDone(t) \/ ApplyEnd(t)
      PROVE  Moves
  BY <1>7 DEF DrainPickRepair, DrainPickCleanup, DrainEnd, ApplyPick, StepDone, ApplyEnd
<1>8. ASSUME NEW t \in Threads, CallOk(t) PROVE Moves
  <2>1. PICK s \in cur[t] : \E c \in NextCalls(t, s) : Confirmed(t, s, c)
    BY <1>8 DEF CallOk
  <2>2. PICK c \in NextCalls(t, s) : Confirmed(t, s, c)
    BY <2>1
  <2>3. (zone' = zone \/ (~DryRun /\ zone' = Effect(zone, c))) /\ idx' = [idx EXCEPT ![t] = Effect(idx[t], c)]
    BY <2>2, CallGuarded DEF Confirmed
  <2>4. \A u \in Threads : Index(u)
    BY <1>0, <2>3 DEF Shapes
  <2> QED BY <2>3, <2>4
<1>9. ASSUME NEW t \in Threads, DrainError(t) PROVE Moves
  BY <1>9, CallGuarded DEF DrainError, Unconfirmed
<1>10. ASSUME NEW t \in Threads, ApplyError(t) PROVE Moves
  BY <1>10, CallGuarded DEF ApplyError, Abandon, Unconfirmed
<1>11. ASSUME NEW t \in Threads, Reply(t) PROVE Moves
  <2>1. cur[t] = {} /\ zone' = zone /\ cur' = cur /\ idx' = [idx EXCEPT ![t] = {}]
    BY <1>0, <1>11 DEF StepsInPlace, Reply
  <2>2. \A u \in Threads : Index(u)
    BY <1>0, <2>1 DEF Shapes
  <2> QED BY <2>1, <2>2
<1> HIDE DEF Moves
<1>12. Moves
  BY <1>1, <1>2, <1>3, <1>4, <1>5, <1>6, <1>7, <1>8, <1>9, <1>10, <1>11 DEF Next, Step, Moves
<1> QED BY <1>12 DEF Moves

\* IdsInv is inductive.
LEMMA IdsNext == LockInv /\ IdsInv /\ [Next]_vars => IdsInv'
<1> SUFFICES ASSUME LockInv, IdsInv, [Next]_vars PROVE IdsInv'
  OBVIOUS
<1>1. IdsApart(zone) /\ IdsApart({}) /\ \A t \in Threads : IdsApart(idx[t])
  BY DEF IdsInv, IdsApart
<1>2. IdsApart(zone')
  BY <1>1, IndexMoves, CallKeepsApart
<1>3. ASSUME NEW t \in Threads PROVE IdsApart(idx'[t])
  BY <1>1, IndexMoves, CallKeepsApart
<1> QED BY <1>2, <1>3 DEF IdsInv, IdsApart

\* Wherever the loops are in an endpoint operation, it either finds its next
\* call or has done all of its task.
NeverStuck ==
    \A t \in Threads : \A s \in cur[t], i \in Ids : Done(Task(s), idx[t]) <=> Calls(Task(s), idx[t], i) = {}

\* No endpoint operation of a batch or of a drain stops short of its task, or
\* makes a call when all of it is done, whatever the zone held when the
\* program started and whatever failed since (createEndpoint, updateEndpoint,
\* deleteEndpoint and the loops of drainPendingOwnershipCleanups).
THEOREM OperationsGoOn == Spec => []NeverStuck
<1>1. Init => IdsInv
  BY IdsAssumption DEF Init, IdsInv, IdsApart
<1>2. LockInv /\ IdsInv => NeverStuck
  <2> SUFFICES ASSUME LockInv, IdsInv, NEW t \in Threads, NEW s \in cur[t], NEW i \in Ids
               PROVE  Done(Task(s), idx[t]) <=> Calls(Task(s), idx[t], i) = {}
    BY DEF NeverStuck
  <2>1. s \in Steps /\ idx[t] \in SUBSET Records /\ IdsApart(idx[t])
    BY TypeShapes DEF LockInv, Shapes, IdsInv
  <2> QED BY <2>1, TasksFit, StopsOnlyDone
<1> QED BY <1>1, <1>2, LockInit, LockNext, IdsNext, PTL DEF Spec

\* Every call a loop may make in an endpoint operation leaves fewer to make.
EveryCallCounts ==
    \A t \in Threads : \A s \in cur[t] : \A call \in NextCalls(t, s) :
        CallsLeft(Task(s), Effect(idx[t], call)) < CallsLeft(Task(s), idx[t])

\* While a loop is at one endpoint operation, nothing makes more calls of it.
CallsRunOut ==
    [][\A t \in Threads : \A s \in cur[t] :
          cur'[t] = cur[t] /\ idx'[t] # idx[t] =>
              CallsLeft(Task(s), idx'[t]) < CallsLeft(Task(s), idx[t])]_vars

\* So every endpoint operation ends after at most as many confirmed calls as
\* its first index leaves to make, for any finite zones: the loops of
\* provider.go, which have no bound of their own, cannot go round for ever.
THEOREM OperationsEnd ==
    ASSUME IsFiniteSet(Records), IsFiniteSet(AllContents)
    PROVE  Spec => []EveryCallCounts /\ CallsRunOut
<1> DEFINE Fewer == \A t \in Threads : \A s \in cur[t] :
                       cur'[t] = cur[t] /\ idx'[t] # idx[t] =>
                           CallsLeft(Task(s), idx'[t]) < CallsLeft(Task(s), idx[t])
<1>1. LockInv => EveryCallCounts
  <2> SUFFICES ASSUME LockInv, NEW t \in Threads, NEW s \in cur[t], NEW call \in NextCalls(t, s)
               PROVE  CallsLeft(Task(s), Effect(idx[t], call)) < CallsLeft(Task(s), idx[t])
    BY DEF EveryCallCounts
  <2>1. PICK i \in Ids : call \in Calls(Task(s), idx[t], i)
    BY CallOfStep
  <2>2. s \in Steps /\ idx[t] \in SUBSET Records /\ TaskFits(Task(s))
    BY TypeShapes, TasksFit DEF LockInv, Shapes
  <2>3. IsFiniteSet(idx[t]) /\ IsFiniteSet(Task(s).keep)
    BY <2>2, FS_Subset DEF TaskFits, TaskOK
  <2> QED BY <2>1, <2>2, <2>3, OperationEnds
<1>2. LockInv /\ [Next]_vars => Fewer
  <2> SUFFICES ASSUME LockInv, [Next]_vars, NEW t \in Threads, NEW s \in cur[t],
                      cur'[t] = cur[t], idx'[t] # idx[t]
               PROVE  CallsLeft(Task(s), idx'[t]) < CallsLeft(Task(s), idx[t])
    OBVIOUS
  <2>1. PICK q \in cur[t] : \E c \in NextCalls(t, q) : idx'[t] = Effect(idx[t], c)
    BY IndexMoves
  <2>2. q = s
    BY DEF LockInv, StepsInPlace
  <2> QED BY <1>1, <2>1, <2>2 DEF EveryCallCounts
<1>3. LockInv /\ [Next]_vars => [Fewer]_vars
  BY <1>2
<1> QED BY <1>1, <1>3, LockInit, LockNext, PTL DEF Spec, CallsRunOut

(***************************************************************************)
(* Ownership: what fits                                                    *)
(***************************************************************************)
\* A step only fits a zone in which its identity is not a foreign record.
LEMMA FitsOurs ==
    ASSUME NEW z, NEW s \in Steps, StepFits(z, s)
    PROVE  NotForeign(z, s.ch.of)
BY DEF StepFits, NotForeign, Steps, BatchDos, DrainDos

\* When a step has made its last call, its second half fits.
LEMMA AfterFits ==
    ASSUME NEW s \in Steps, NEW z \in SUBSET Records, StepFits(z, s), Done(Task(s), z), NEW q \in After(s)
    PROVE  /\ StepFits(z, q) /\ q.ch = s.ch
           /\ s.do \in {"delPrimary", "updMarker"} => q.do \in {"delMarker", "updPrimary"}
           /\ s.do \in {"delPrimary", "updMarker", "repDelOld"}
           /\ s.do = "repDelOld" => q.do = "repDelNew"
<1>1. CASE s.do = "delPrimary"
  <2>1. q = [s EXCEPT !.do = "delMarker"]
    BY <1>1 DEF After
  <2>2. q.do = "delMarker" /\ q.ch = s.ch
    BY <2>1 DEF Steps
  <2>3. Task(s).kind = "primary" /\ Task(s).of = s.ch.of /\ Task(s).drop = s.ch.old
    BY <1>1, TaskFacts
  <2>4. \A r \in z : r.kind = "primary" /\ r.of = s.ch.of => r.content \notin s.ch.old
    BY <2>3, DoneMeans
  <2>5. Contents(z, "primary", s.ch.of) \subseteq s.ch.old
    BY <1>1 DEF StepFits
  <2>6. ~Live(z, s.ch.of)
    BY <2>4, <2>5 DEF Live, Contents
  <2> QED BY <1>1, <2>2, <2>6 DEF StepFits
<1>2. CASE s.do = "updMarker"
  <2>1. q = [s EXCEPT !.do = "updPrimary"]
    BY <1>2 DEF After
  <2>2. q.do = "updPrimary" /\ q.ch = s.ch
    BY <2>1 DEF Steps
  <2> QED BY <1>2, <2>2 DEF StepFits
<1>3. CASE s.do = "repDelOld"
  <2>1. q = [s EXCEPT !.do = "repDelNew"]
    BY <1>3 DEF After
  <2>2. q.do = "repDelNew" /\ q.ch = s.ch
    BY <2>1 DEF Steps
  <2> QED BY <1>3, <2>2 DEF StepFits
<1>4. CASE s.do \notin {"delPrimary", "updMarker", "repDelOld"}
  BY <1>4 DEF After
<1> QED BY <1>1, <1>2, <1>3, <1>4

\* A batch planned from a view fits a zone that is as the view shows it.
LEMMA BatchFit ==
    ASSUME Registry, NEW v \in SUBSET Records, NEW want \in [Owned -> Wants]
    PROVE  BatchFits(v, Batch(v, want))
<1> DEFINE gone    == {p \in Owned : ManagedBy(v, p) /\ want[p].targets = {}}
           changed == {p \in Owned : /\ ManagedBy(v, p)
                                     /\ want[p].targets # {}
                                     /\ ~Exact(v, p, want[p])}
           created == {p \in Owned : ~Live(v, p) /\ want[p].targets # {}}
           change(p) == ChangeOf(v, p, want[p], {p})
           create(p) == ChangeOf(v, p, want[p], Protected(v, created, p))
           Gone(s) == \E p \in gone : s = [do |-> "delPrimary", ch |-> change(p)]
           Changed(s) == \E p \in changed : s = [do |-> "updMarker", ch |-> change(p)]
           Marker(s) == \E p \in created : ~Marked(v, p) /\ s = [do |-> "newMarker", ch |-> create(p)]
           Primary(s) == \E p \in created : s = [do |-> "newPrimary", ch |-> create(p)]
<1>1. \A s \in Batch(v, want) : Gone(s) \/ Changed(s) \/ Marker(s) \/ Primary(s)
  BY DEF Batch
<1>2. \A p \in created : ~Marked(v, p) => [do |-> "newMarker", ch |-> create(p)] \in Batch(v, want)
  BY DEF Batch
<1>3. \A p \in Owned : /\ change(p).of = p /\ change(p).old = Contents(v, "primary", p)
                       /\ create(p).of = p /\ create(p).prot = Protected(v, created, p)
  BY DEF ChangeOf
<1>4. \A p \in created : p \in Protected(v, created, p)
  BY DEF Protected
<1>5. \A p \in gone \cup changed : Live(v, p) /\ Marked(v, p)
  BY DEF ManagedBy
<1> HIDE DEF gone, changed, created, change, create
<1>6. gone \cap changed = {} /\ gone \cap created = {} /\ changed \cap created = {}
      /\ gone \subseteq Owned /\ changed \subseteq Owned /\ created \subseteq Owned
      /\ \A p \in created : ~Live(v, p)
  BY DEF gone, changed, created, ManagedBy
<1>7. Apart(Batch(v, want))
  BY <1>1, <1>3, <1>6 DEF Apart
<1>8. ASSUME NEW s \in Batch(v, want) PROVE PlannedFits(v, s, Batch(v, want))
  <2>1. CASE Gone(s)
    BY <2>1, <1>3, <1>5, <1>6 DEF PlannedFits, StepFits
  <2>2. CASE Changed(s)
    BY <2>2, <1>3, <1>5, <1>6 DEF PlannedFits, StepFits
  <2>3. CASE Marker(s)
    BY <2>3, <1>3, <1>4, <1>6 DEF PlannedFits, StepFits, NotForeign
  <2>4. CASE Primary(s)
    <3>1. PICK p \in created : s = [do |-> "newPrimary", ch |-> create(p)]
      BY <2>4
    <3>2. s.do = "newPrimary" /\ s.ch.of = p /\ p \in s.ch.prot
      BY <3>1, <1>3, <1>4, <1>6
    <3>3. CASE Marked(v, p)
      BY <3>2, <3>3 DEF PlannedFits, StepFits
    <3>4. CASE ~Marked(v, p)
      <4> DEFINE q == [do |-> "newMarker", ch |-> create(p)]
      <4>1. q \in Batch(v, want) /\ q.do = "newMarker" /\ q.ch.of = p
        BY <3>4, <1>2, <1>3, <1>6
      <4> QED BY <3>2, <4>1 DEF PlannedFits
    <3> QED BY <3>3, <3>4
  <2> QED BY <1>1, <2>1, <2>2, <2>3, <2>4
<1> QED BY <1>7, <1>8 DEF BatchFits
===============================================================================
