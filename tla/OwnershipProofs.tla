---------------------------- MODULE OwnershipProofs ----------------------------
(***************************************************************************)
(* The ownership contract holds for every zone, every number of identities *)
(* and requests, every pattern of failed calls, given up requests and      *)
(* restarts: OwnershipInv is inductive, and under it every step of the     *)
(* provider is a step of OwnershipContract or leaves its state alone.      *)
(***************************************************************************)
EXTENDS ProviderProofs

USE DEF Held, Threads, memory, locals, controller, bounds

\* Two calls are never inside the critical section together.
LEMMA OneHolder ==
    ASSUME LockDiscipline, NEW t \in Threads, NEW u \in Threads, u # t, pc[t] \in Held
    PROVE  pc[u] \notin Held
BY DEF LockDiscipline

\* While a call drains or works, nothing is claimed of any view.
LEMMA ViewGone ==
    ASSUME TypeOK, ViewInv, NEW t \in Threads, pc[t] \in {"drainRead", "drain", "work"}
    PROVE  /\ view = {}
           /\ \A u \in Threads : u = mine =>
                 /\ ~(pc[u] = "reply" /\ op[u] = "records" /\ ~failed[u])
                 /\ ~(op[u] = "apply" /\ pc[u] \in {"queued", "drainRead", "drain", "read"} /\ ~failed[u])
BY DEF ViewInv, Quiet

\* The next call of a step under way acts on the zone itself.
LEMMA CallOnZone ==
    ASSUME LockInv, ~DryRun, WorkInv, NEW t \in Threads, pc[t] \in {"drain", "work"},
           NEW s \in cur[t], NEW call \in NextCalls(t, s)
    PROVE  /\ s \in Steps /\ StepFits(zone, s) /\ zone \in SUBSET Records /\ idx[t] = zone
           /\ \E i \in Ids : call \in Calls(Task(s), zone, i)
<1>1. idx[t] = zone
  BY DEF LockInv, StepsInPlace
<1>2. s \in Steps /\ StepFits(zone, s) /\ zone \in SUBSET Records
  BY DEF LockInv, TypeOK, WorkInv
<1> QED BY <1>1, <1>2, CallOfStep

\* What one call leaves true: nobody becomes foreign, the step goes on to fit,
\* and so do the steps of the batch that wait behind it.
LEMMA ZoneMove ==
    ASSUME LockInv, ~DryRun, WorkInv, NEW t \in Threads, pc[t] \in {"drain", "work"},
           NEW s \in cur[t], NEW call \in NextCalls(t, s), NEW y, y = Effect(zone, call)
    PROVE  /\ StepFits(y, s)
           /\ \A p \in Owned : NotForeign(zone, p) => NotForeign(y, p)
           /\ NotForeign(y, s.ch.of)
           /\ pc[t] = "work" => \A q \in plan[t] : PlannedFits(y, q, plan[t] \cup cur[t])
<1>1. PICK i \in Ids : /\ call \in Calls(Task(s), zone, i)
                       /\ s \in Steps /\ StepFits(zone, s) /\ zone \in SUBSET Records
  BY CallOnZone
<1>2. StepFits(y, s) /\ NotForeign(y, s.ch.of)
  BY <1>1, CallSafe
<1>3. \A p \in Owned : NotForeign(zone, p) => NotForeign(y, p)
  BY <1>1, StaysOurs
<1>4. ASSUME pc[t] = "work", NEW q \in plan[t] PROVE PlannedFits(y, q, plan[t] \cup cur[t])
  <2>1. q \in Steps
    BY DEF LockInv, TypeOK
  <2>2. PlannedFits(zone, q, plan[t] \cup cur[t]) /\ Apart(plan[t] \cup cur[t])
    BY <1>4 DEF WorkInv
  <2>3. CASE q.ch.of # s.ch.of
    BY <1>1, <2>1, <2>2, <2>3, FitsElsewhere DEF PlannedFits
  <2>4. CASE q = s
    BY <1>2, <2>2, <2>4 DEF PlannedFits
  <2>5. CASE q.ch.of = s.ch.of /\ q # s
    <3>1. {q.do, s.do} = {"newMarker", "newPrimary"}
      BY <2>2, <2>5 DEF Apart
    <3>2. CASE q.do = "newPrimary" /\ s.do = "newMarker"
      <4>1. q.ch.of \in q.ch.prot
        BY <2>2, <3>2 DEF PlannedFits, StepFits
      <4> QED BY <2>5, <3>2, <4>1 DEF PlannedFits
    <3>3. CASE q.do = "newMarker" /\ s.do = "newPrimary"
      <4>1. q.ch.of \in q.ch.prot
        BY <2>2, <3>3 DEF PlannedFits, StepFits
      <4>2. StepFits(y, q)
        BY <1>2, <2>5, <3>3, <4>1 DEF StepFits
      <4> QED BY <2>2, <4>2 DEF PlannedFits
    <3> QED BY <3>1, <3>2, <3>3
  <2> QED BY <2>3, <2>4, <2>5
<1> QED BY <1>2, <1>3, <1>4

(***************************************************************************)
(* The view and the batch planned from it                                  *)
(***************************************************************************)
\* Nothing is planned, pending or under way at the start.
LEMMA PlanInit == Init => PlanInv
BY ProviderAssumption DEF Init, PlanInv, ControllerInv, ViewInv

\* Until the batch planned from a view is retrieved for, the zone stands still:
\* whoever else gets the mutex finds the queues empty and only reads.
LEMMA PlanNext == LockInv /\ PlanInv /\ [Next]_vars => PlanInv'
<1> DEFINE Parts == ControllerInv /\ ViewInv
<1> SUFFICES ASSUME LockInv, PlanInv, [Next]_vars PROVE Parts'
  BY DEF PlanInv
<1>0. TypeOK /\ Shapes /\ Parts /\ LockDiscipline /\ StepsInPlace /\ CacheCoherent /\ DrainedFirst
  BY TypeShapes DEF LockInv, PlanInv
<1>1. CASE ChangeDesired
  BY <1>0, <1>1 DEF ChangeDesired, ControllerInv, ViewInv, Quiet
<1>2. ASSUME NEW h \in Handlers, ControllerGet(h) PROVE Parts'
  BY <1>0, <1>2, ProviderAssumption DEF ControllerGet, Shapes, ControllerInv, ViewInv, Quiet
<1>3. ASSUME NEW h \in Handlers, ControllerPost(h) PROVE Parts'
  <2>0. /\ mine = NoThread /\ pc[h] = "idle" /\ h # NoThread /\ h \in Threads
        /\ pc' = [pc EXCEPT ![h] = "queued"] /\ op' = [op EXCEPT ![h] = "apply"] /\ mine' = h /\ view' = {}
        /\ UNCHANGED <<zone, memory, operationMu, ctx, plan, cur, idx, made, failed>>
    BY <1>3, ProviderAssumption DEF ControllerPost
  <2>1. PICK v \in view : ask' = [ask EXCEPT ![h] = Batch(v, desired)]
    BY <1>3 DEF ControllerPost
  <2>2. v = zone /\ Quiet
    BY <1>0 DEF ViewInv
  <2>3. ask'[h] = Batch(zone, desired) /\ desired \in [Owned -> Wants]
    BY <1>0, <2>0, <2>1, <2>2 DEF Shapes, TypeOK
  <2>4. \E want \in [Owned -> Wants] : ask'[h] = Batch(zone', want)
    BY <2>0, <2>3
  <2>5. Quiet'
    BY <1>0, <2>0, <2>2 DEF Quiet, Shapes
  <2>6. ControllerInv'
    BY <1>0, <2>0, ProviderAssumption DEF Shapes, ControllerInv
  <2>7. ViewInv'
    BY <1>0, <2>0, <2>4, <2>5 DEF Shapes, ViewInv
  <2> QED BY <2>6, <2>7
<1>4. CASE ControllerRest
  BY <1>0, <1>4 DEF ControllerRest, ControllerInv, ViewInv, Quiet
<1>5. CASE ProbeStart
  BY <1>0, <1>5, ProviderAssumption DEF ProbeStart, Shapes, TypeOK, ControllerInv, ViewInv, Quiet
<1>6. CASE CacheExpire
  BY <1>0, <1>6 DEF CacheExpire, ControllerInv, ViewInv, Quiet
<1>7. CASE Crash
  <2>1. ControllerInv'
    BY <1>7, ProviderAssumption DEF Crash, ControllerInv
  <2>2. \A v \in view : v = zone /\ Quiet'
    BY <1>0, <1>7 DEF Crash, ViewInv, Quiet
  <2>3. ViewInv'
    BY <1>7, <2>2, ProviderAssumption DEF Crash, ViewInv
  <2> QED BY <2>1, <2>3
<1>8. ASSUME NEW t \in Threads, Cancel(t) PROVE Parts'
  <2>0. /\ pc[t] # "idle" /\ ctx' = [ctx EXCEPT ![t] = FALSE] /\ mine' = IF t = mine THEN NoThread ELSE mine
        /\ UNCHANGED <<zone, memory, operationMu, pc, op, locals, desired, view>>
    BY <1>8 DEF Cancel
  <2>1. ControllerInv'
    BY <1>0, <2>0, ProviderAssumption DEF Shapes, ControllerInv
  <2>2. ViewInv'
    BY <1>0, <2>0, ProviderAssumption DEF ViewInv, Quiet
  <2> QED BY <2>1, <2>2
<1>9. ASSUME NEW t \in Threads, Acquire(t) PROVE Parts'
  <2>0. /\ pc[t] = "queued" /\ pc' = [pc EXCEPT ![t] = IF pendingCleanups \cup pendingRepairs = {} THEN "read" ELSE "drainRead"]
        /\ UNCHANGED <<zone, memory, op, ctx, locals, controller, bounds>>
    BY <1>9 DEF Acquire
  <2>1. Quiet => Quiet' /\ pc'[t] = "read"
    BY <1>0, <2>0 DEF Quiet, Shapes
  <2>3. ControllerInv'
    BY <1>0, <2>0, ProviderAssumption DEF Shapes, ControllerInv
  <2>4. ViewInv'
    BY <1>0, <2>0, <2>1 DEF Shapes, ViewInv
  <2> QED BY <2>3, <2>4
<1>10. ASSUME NEW t \in Threads, DrainRetrieve(t) PROVE Parts'
  <2>0. /\ pc[t] = "drainRead"
        /\ UNCHANGED <<zone, pendingCleanups, pendingRepairs, op, ctx, ask, controller>>
    BY <1>10 DEF DrainRetrieve, Return
  <2>1. CASE /\ pc' = [pc EXCEPT ![t] = "drain"] /\ UNCHANGED <<plan, cur, made, failed>>
    <3>1. ControllerInv'
      BY <1>0, <2>0, <2>1, ProviderAssumption DEF Shapes, ControllerInv
    <3>2. ViewInv'
      BY <1>0, <2>0, <2>1, ViewGone DEF Shapes, ViewInv
    <3> QED BY <3>1, <3>2
  <2>2. CASE Return(t, TRUE) /\ UNCHANGED idx
    <3>1. ControllerInv'
      BY <1>0, <2>0, <2>2, ProviderAssumption DEF Shapes, ControllerInv, Return
    <3>2. ViewInv'
      BY <1>0, <2>0, <2>2, ViewGone DEF Shapes, ViewInv, Return
    <3> QED BY <3>1, <3>2
  <2> QED BY <1>10, <2>1, <2>2 DEF DrainRetrieve
<1>11. ASSUME NEW t \in Threads, DrainPickRepair(t) \/ DrainPickCleanup(t) PROVE Parts'
  <2>0. /\ pc[t] = "drain"
        /\ UNCHANGED <<zone, pc, op, ctx, ask, failed, idx, controller>>
    BY <1>11 DEF DrainPickRepair, DrainPickCleanup
  <2>1. ControllerInv'
    BY <1>0, <2>0, ProviderAssumption DEF Shapes, ControllerInv
  <2>2. ViewInv'
    BY <1>0, <2>0, ViewGone DEF Shapes, ViewInv
  <2> QED BY <2>1, <2>2
<1>13. ASSUME NEW t \in Threads, DrainEnd(t) PROVE Parts'
  <2>0. /\ pc[t] = "drain"
        /\ UNCHANGED <<zone, pendingCleanups, pendingRepairs, op, ctx, ask, idx, controller>>
    BY <1>13 DEF DrainEnd, Return
  <2>1. CASE failed[t] /\ Return(t, TRUE)
    <3>1. ControllerInv'
      BY <1>0, <2>0, <2>1, ProviderAssumption DEF Shapes, ControllerInv, Return
    <3>2. ViewInv'
      BY <1>0, <2>0, <2>1, ViewGone DEF Shapes, ViewInv, Return
    <3> QED BY <3>1, <3>2
  <2>2. CASE ~failed[t] /\ pc' = [pc EXCEPT ![t] = "read"] /\ UNCHANGED <<plan, cur, made, failed>>
    <3>1. ControllerInv'
      BY <1>0, <2>0, <2>2, ProviderAssumption DEF Shapes, ControllerInv
    <3>2. ViewInv'
      BY <1>0, <2>0, <2>2, ViewGone DEF Shapes, ViewInv
    <3> QED BY <3>1, <3>2
  <2> QED BY <1>13, <2>1, <2>2 DEF DrainEnd
<1>14. ASSUME NEW t \in Threads, RecordsCached(t) \/ RecordsRetrieve(t) PROVE Parts'
  <2>0. /\ pc[t] = "read" /\ op[t] = "records" /\ pc' = [pc EXCEPT ![t] = "reply"]
        /\ UNCHANGED <<zone, pendingCleanups, pendingRepairs, op, ctx, ask, controller>>
    BY <1>14 DEF RecordsCached, RecordsRetrieve, Return
  <2>1. \/ failed' = [failed EXCEPT ![t] = TRUE] /\ idx' = idx
        \/ failed' = [failed EXCEPT ![t] = FALSE] /\ idx' = [idx EXCEPT ![t] = zone]
    BY <1>0, <1>14 DEF RecordsCached, RecordsRetrieve, Return, Retrieve, CacheCoherent
  <2>2. Quiet'
    <3>1. pendingCleanups = {} /\ pendingRepairs = {}
      BY <1>0, <2>0 DEF DrainedFirst
    <3>2. \A u \in Threads : u # t => pc[u] \notin Held
      BY <1>0, <2>0, OneHolder
    <3> QED BY <1>0, <2>0, <3>1, <3>2 DEF Quiet, Shapes
  <2>3. ControllerInv'
    BY <1>0, <2>0, <2>1, ProviderAssumption DEF Shapes, ControllerInv
  <2>4. ViewInv'
    <3>1. \A w \in view' : w = zone' /\ Quiet'
      BY <1>0, <2>0, <2>2 DEF ViewInv
    <3>2. ASSUME NEW u \in Threads, u = mine'
          PROVE  /\ pc'[u] = "reply" /\ op'[u] = "records" /\ ~failed'[u] => idx'[u] = zone'
                 /\ op'[u] = "apply" /\ pc'[u] \in {"queued", "drainRead", "drain", "read"} /\ ~failed'[u] =>
                       \E want \in [Owned -> Wants] : ask'[u] = Batch(zone', want)
      <4>1. CASE u = t
        BY <1>0, <2>0, <2>1, <3>2, <4>1 DEF Shapes
      <4>2. CASE u # t
        BY <1>0, <2>0, <2>1, <3>2, <4>2 DEF Shapes, ViewInv
      <4> QED BY <4>1, <4>2
    <3> QED BY <2>2, <3>1, <3>2 DEF ViewInv
  <2> QED BY <2>3, <2>4
<1>16. ASSUME NEW t \in Threads, ApplyRetrieve(t) PROVE Parts'
  <2>0. /\ pc[t] = "read" /\ op[t] = "apply"
        /\ UNCHANGED <<zone, pendingCleanups, pendingRepairs, op, ctx, ask, controller>>
    BY <1>16 DEF ApplyRetrieve, Return
  <2>1. CASE Return(t, TRUE) /\ UNCHANGED idx
    <3>1. ControllerInv'
      BY <1>0, <2>0, <2>1, ProviderAssumption DEF Shapes, ControllerInv, Return
    <3>2. Quiet => Quiet'
      BY <1>0, <2>1, <2>0 DEF Quiet, Shapes, Return
    <3>3. ViewInv'
      BY <1>0, <2>0, <2>1, <3>2 DEF Shapes, ViewInv, Return
    <3> QED BY <3>1, <3>3
  <2>2. CASE /\ ctx[t] /\ pc' = [pc EXCEPT ![t] = "work"] /\ plan' = [plan EXCEPT ![t] = ask[t]]
             /\ UNCHANGED <<cur, made, failed>>
    <3>1. t = mine
      BY <1>0, <2>0, <2>2 DEF ControllerInv
    <3>2. view = {}
      BY <1>0, <3>1, ProviderAssumption DEF ControllerInv
    <3>3. ControllerInv'
      BY <1>0, <2>0, <2>2, ProviderAssumption DEF Shapes, ControllerInv
    <3>4. ViewInv'
      BY <1>0, <2>0, <2>2, <3>1, <3>2 DEF Shapes, ViewInv
    <3> QED BY <3>3, <3>4
  <2> QED BY <1>16, <2>1, <2>2 DEF ApplyRetrieve, Retrieve
<1>17. ASSUME NEW t \in Threads, ApplyPick(t) \/ CallOk(t) \/ StepDone(t) PROVE Parts'
  <2>0. /\ pc[t] \in {"drain", "work"}
        /\ UNCHANGED <<pc, op, ctx, ask, failed, controller>>
    BY <1>17 DEF ApplyPick, CallOk, Confirmed, StepDone
  <2>1. ControllerInv'
    BY <1>0, <2>0, ProviderAssumption DEF Shapes, ControllerInv
  <2>2. ViewInv'
    BY <1>0, <2>0, ViewGone DEF Shapes, ViewInv
  <2> QED BY <2>1, <2>2
<1>19. ASSUME NEW t \in Threads, DrainError(t) PROVE Parts'
  <2>0. pc[t] = "drain" /\ Return(t, TRUE) /\ UNCHANGED <<pendingCleanups, pendingRepairs, idx, controller>>
    BY <1>19 DEF DrainError
  <2>1. ControllerInv'
    BY <1>0, <2>0, ProviderAssumption DEF Shapes, ControllerInv, Return
  <2>2. ViewInv'
    BY <1>0, <2>0, ViewGone DEF Shapes, ViewInv, Return
  <2> QED BY <2>1, <2>2
<1>20. ASSUME NEW t \in Threads, ApplyError(t) PROVE Parts'
  <2>0. pc[t] = "work"
    BY <1>20 DEF ApplyError
  <2>1. /\ pc' = [pc EXCEPT ![t] = "reply"] \/ pc' = [pc EXCEPT ![t] = "drainRead"]
        /\ failed' = [failed EXCEPT ![t] = TRUE]
        /\ UNCHANGED <<op, ctx, ask, idx, controller>>
    BY <1>20 DEF ApplyError, Abandon, Unconfirmed, Return
  <2>2. /\ pc'[t] \in {"reply", "drainRead"} /\ failed'[t]
        /\ \A u \in Threads : u # t => pc'[u] = pc[u] /\ failed'[u] = failed[u]
    BY <1>0, <2>0, <2>1 DEF Shapes
  <2>3. ControllerInv'
    <3>1. mine # NoThread => pc'[mine] # "idle"
      BY <1>0, <2>2, ProviderAssumption DEF TypeOK, ControllerInv
    <3> QED BY <1>0, <2>1, <2>2, <3>1 DEF ControllerInv
  <2>4. ViewInv'
    BY <1>0, <2>0, <2>1, <2>2, ViewGone DEF ViewInv
  <2> QED BY <2>3, <2>4
<1>22. ASSUME NEW t \in Threads, ApplyEnd(t) PROVE Parts'
  <2>0. /\ pc[t] = "work" /\ Return(t, FALSE)
        /\ UNCHANGED <<zone, pendingCleanups, pendingRepairs, idx, controller>>
    BY <1>22 DEF ApplyEnd
  <2>1. ControllerInv'
    BY <1>0, <2>0, ProviderAssumption DEF Shapes, ControllerInv, Return
  <2>2. ViewInv'
    <3>1. op[t] = "apply"
      BY <1>0, <2>0 DEF ControllerInv
    <3> QED BY <1>0, <2>0, <3>1, ViewGone DEF Shapes, ViewInv, Return
  <2> QED BY <2>1, <2>2
<1>23. ASSUME NEW t \in Threads, Reply(t) PROVE Parts'
  <2>0. /\ pc[t] = "reply" /\ pc' = [pc EXCEPT ![t] = "idle"] /\ op' = [op EXCEPT ![t] = "records"]
        /\ ctx' = [ctx EXCEPT ![t] = TRUE] /\ ask' = [ask EXCEPT ![t] = {}] /\ idx' = [idx EXCEPT ![t] = {}]
        /\ failed' = [failed EXCEPT ![t] = FALSE]
        /\ mine' = IF t = mine THEN NoThread ELSE mine
        /\ view' = IF t = mine /\ op[t] = "records" /\ ~failed[t] THEN {idx[t]} ELSE view
        /\ UNCHANGED <<zone, memory, plan, cur, made>>
    BY <1>23 DEF Reply
  <2>1. Quiet => Quiet'
    BY <1>0, <2>0 DEF Quiet, Shapes
  <2>2. ControllerInv'
    BY <1>0, <2>0, ProviderAssumption DEF Shapes, ControllerInv
  <2>3. \A w \in view' : w = zone' /\ Quiet'
    BY <1>0, <2>0, <2>1 DEF ViewInv
  <2>4. \A u \in Threads : u = mine' => /\ u # t /\ u = mine /\ pc'[u] = pc[u] /\ op'[u] = op[u]
                                       /\ failed'[u] = failed[u] /\ idx'[u] = idx[u] /\ ask'[u] = ask[u]
    BY <1>0, <2>0, ProviderAssumption DEF Shapes
  <2>5. ViewInv'
    <3>1. ASSUME NEW u \in Threads, u = mine'
          PROVE  /\ pc'[u] = "reply" /\ op'[u] = "records" /\ ~failed'[u] => idx'[u] = zone' /\ Quiet'
                 /\ op'[u] = "apply" /\ pc'[u] \in {"queued", "drainRead", "drain", "read"} /\ ~failed'[u] =>
                       Quiet' /\ \E want \in [Owned -> Wants] : ask'[u] = Batch(zone', want)
      <4>1. u = mine /\ zone' = zone
        BY <2>0, <2>4, <3>1
      <4> QED BY <1>0, <2>1, <2>4, <3>1, <4>1 DEF ViewInv
    <3> QED BY <2>3, <3>1 DEF ViewInv
  <2> QED BY <2>2, <2>5
<1>24. CASE UNCHANGED vars
  BY <1>0, <1>24 DEF vars, ControllerInv, ViewInv, Quiet
<1> QED BY <1>1, <1>2, <1>3, <1>4, <1>5, <1>6, <1>7, <1>8, <1>9, <1>10, <1>11, <1>13, <1>14,
           <1>16, <1>17, <1>19, <1>20, <1>22, <1>23, <1>24 DEF Next, Step

(***************************************************************************)
(* The invariant is inductive                                              *)
(***************************************************************************)
\* It holds at the start: nothing is pending, asked or under way.
LEMMA OwnershipInit == Init => OwnershipInv
BY PlanInit, ProviderAssumption DEF Init, OwnershipInv, ItemsInv, WorkInv

\* It holds after every step: what fits the zone fits it until it is done.
LEMMA OwnershipNext ==
    ASSUME Registry
    PROVE  LockInv /\ OwnershipInv /\ [Next]_vars => OwnershipInv'
<1> DEFINE Parts == ItemsInv /\ WorkInv
<1> SUFFICES ASSUME ~DryRun, LockInv, PlanInv, Parts, [Next]_vars PROVE Parts'
  BY PlanNext DEF OwnershipInv
<1>0. /\ TypeOK /\ Shapes /\ Parts /\ ControllerInv /\ ViewInv
      /\ LockDiscipline /\ StepsInPlace /\ StepsOfLoop /\ DrainedFirst
  BY TypeShapes DEF LockInv, PlanInv
<1>1. CASE ChangeDesired \/ ControllerRest \/ CacheExpire \/ UNCHANGED vars
  <2>1. UNCHANGED <<zone, pendingCleanups, pendingRepairs, pc, plan, cur, made>>
    BY <1>1 DEF ChangeDesired, ControllerRest, CacheExpire, vars
  <2> QED BY <1>0, <2>1 DEF ItemsInv, WorkInv
<1>2. ASSUME NEW h \in Handlers, ControllerGet(h) \/ ControllerPost(h) PROVE Parts'
  <2>1. /\ pc' = [pc EXCEPT ![h] = "queued"] /\ h \in Threads
        /\ UNCHANGED <<zone, pendingCleanups, pendingRepairs, plan, cur, made>>
    BY <1>2, ProviderAssumption DEF ControllerGet, ControllerPost
  <2> QED BY <1>0, <2>1 DEF Shapes, ItemsInv, WorkInv
<1>5. CASE ProbeStart
  BY <1>0, <1>5, ProviderAssumption DEF ProbeStart, Shapes, ItemsInv, WorkInv
<1>7. CASE Crash
  BY <1>0, <1>7, ProviderAssumption DEF Crash, ItemsInv, WorkInv
<1>8. ASSUME NEW t \in Threads, Cancel(t) PROVE Parts'
  BY <1>0, <1>8 DEF Cancel, ItemsInv, WorkInv
<1>9. ASSUME NEW t \in Threads, Acquire(t) PROVE Parts'
  BY <1>0, <1>9 DEF Acquire, Shapes, ItemsInv, WorkInv
<1>10. ASSUME NEW t \in Threads, DrainRetrieve(t) PROVE Parts'
  <2>0. pc[t] = "drainRead" /\ cur[t] = {} /\ UNCHANGED <<zone, pendingCleanups, pendingRepairs>>
    BY <1>0, <1>10 DEF DrainRetrieve, StepsInPlace
  <2>1. CASE /\ pc' = [pc EXCEPT ![t] = "drain"] /\ UNCHANGED <<plan, cur, made, failed>>
    BY <1>0, <2>0, <2>1 DEF Shapes, ItemsInv, WorkInv
  <2>2. CASE Return(t, TRUE)
    BY <1>0, <2>0, <2>2 DEF Shapes, ItemsInv, WorkInv, Return
  <2> QED BY <1>10, <2>1, <2>2 DEF DrainRetrieve
<1>11. ASSUME NEW t \in Threads, DrainPickRepair(t) PROVE Parts'
  <2>0. pc[t] = "drain" /\ UNCHANGED <<zone, pendingCleanups, pc, plan, made>>
    BY <1>11 DEF DrainPickRepair
  <2>1. PICK rp \in pendingRepairs :
           /\ cur' = [cur EXCEPT ![t] = {[do |-> d, ch |-> rp] : d \in RepairDos(rp, idx[t])}]
           /\ pendingRepairs' = IF RepairDos(rp, idx[t]) = {} THEN pendingRepairs \ {rp} ELSE pendingRepairs
    BY <1>11 DEF DrainPickRepair
  <2>2. ASSUME NEW q \in cur'[t] PROVE StepFits(zone, q)
    <3>1. PICK d \in RepairDos(rp, idx[t]) : q = [do |-> d, ch |-> rp]
      BY <1>0, <2>1, <2>2 DEF Shapes
    <3>2. d \in {"repDelOld", "repConverge", "repEdit"}
      BY <3>1 DEF RepairDos
    <3>3. NotForeign(zone, rp.of) /\ rp.of \in rp.prot /\ idx[t] = zone
      BY <1>0, <2>0 DEF ItemsInv, StepsInPlace
    <3>4. d = "repDelOld" => ~Live(zone, rp.of)
      BY <3>1, <3>3 DEF RepairDos, ProtectedRecordExists, Live
    <3>5. q.do = d /\ q.ch = rp
      BY <3>1
    <3> QED BY <3>2, <3>3, <3>4, <3>5 DEF StepFits
  <2>3. ItemsInv'
    BY <1>0, <2>0, <2>1 DEF ItemsInv
  <2>4. \A u \in Threads : u # t => pc[u] \notin {"drain", "work"}
    BY <1>0, <2>0, OneHolder
  <2> QED BY <2>0, <2>2, <2>3, <2>4 DEF WorkInv
<1>12. ASSUME NEW t \in Threads, DrainPickCleanup(t) PROVE Parts'
  <2>0. pc[t] = "drain" /\ cur[t] = {} /\ UNCHANGED <<zone, pendingRepairs, pc, plan, made>>
    BY <1>12 DEF DrainPickCleanup
  <2>1. PICK cl \in pendingCleanups :
           IF ProtectedRecordExists(idx[t], cl.prot)
           THEN pendingCleanups' = pendingCleanups \ {cl} /\ cur' = cur
           ELSE /\ cur' = [cur EXCEPT ![t] = {[do |-> "clean", ch |-> cl]}]
                /\ pendingCleanups' = pendingCleanups
    BY <1>12 DEF DrainPickCleanup
  <2>2. ASSUME NEW q \in cur'[t] PROVE StepFits(zone, q)
    <3>1. ~ProtectedRecordExists(idx[t], cl.prot)
      BY <2>0, <2>1, <2>2
    <3>2. q.do = "clean" /\ q.ch = cl
      BY <1>0, <2>1, <2>2, <3>1 DEF Shapes
    <3>3. cl.of \in cl.prot /\ idx[t] = zone
      BY <1>0, <2>0 DEF ItemsInv, StepsInPlace
    <3>4. ~Live(zone, cl.of)
      BY <3>1, <3>3 DEF ProtectedRecordExists, Live
    <3> QED BY <3>2, <3>4 DEF StepFits
  <2>3. ItemsInv'
    BY <1>0, <2>0, <2>1 DEF ItemsInv
  <2>4. \A u \in Threads : u # t => pc[u] \notin {"drain", "work"}
    BY <1>0, <2>0, OneHolder
  <2> QED BY <2>0, <2>2, <2>3, <2>4 DEF WorkInv
<1>13. ASSUME NEW t \in Threads, DrainEnd(t) PROVE Parts'
  <2>0. pc[t] = "drain" /\ UNCHANGED <<zone, pendingCleanups, pendingRepairs>>
    BY <1>13 DEF DrainEnd
  <2>1. CASE Return(t, TRUE)
    BY <1>0, <2>0, <2>1 DEF Shapes, ItemsInv, WorkInv, Return
  <2>2. CASE pc' = [pc EXCEPT ![t] = "read"] /\ UNCHANGED <<plan, cur, made, failed>>
    BY <1>0, <2>0, <2>2 DEF Shapes, ItemsInv, WorkInv
  <2> QED BY <1>13, <2>1, <2>2 DEF DrainEnd
<1>14. ASSUME NEW t \in Threads, RecordsCached(t) \/ RecordsRetrieve(t) \/ ApplyEnd(t) PROVE Parts'
  <2>0. /\ pc' = [pc EXCEPT ![t] = "reply"] /\ UNCHANGED <<zone, pendingCleanups, pendingRepairs>>
        /\ plan' = [plan EXCEPT ![t] = {}] /\ cur' = [cur EXCEPT ![t] = {}] /\ made' = [made EXCEPT ![t] = {}]
    BY <1>14 DEF RecordsCached, RecordsRetrieve, ApplyEnd, Return
  <2> QED BY <1>0, <2>0 DEF Shapes, ItemsInv, WorkInv
<1>16. ASSUME NEW t \in Threads, ApplyRetrieve(t) PROVE Parts'
  <2>0. pc[t] = "read" /\ op[t] = "apply" /\ UNCHANGED <<zone, pendingCleanups, pendingRepairs>>
    BY <1>16 DEF ApplyRetrieve
  <2>1. CASE Return(t, TRUE)
    BY <1>0, <2>0, <2>1 DEF Shapes, ItemsInv, WorkInv, Return
  <2>2. CASE /\ ctx[t] /\ pc' = [pc EXCEPT ![t] = "work"] /\ plan' = [plan EXCEPT ![t] = ask[t]]
             /\ UNCHANGED <<cur, made, failed>>
    <3>1. t = mine /\ ~failed[t]
      BY <1>0, <2>0, <2>2 DEF ControllerInv
    <3>2. PICK want \in [Owned -> Wants] : ask[t] = Batch(zone, want)
      BY <1>0, <2>0, <3>1 DEF ViewInv
    <3>3. BatchFits(zone, ask[t])
      BY <1>0, <3>2, BatchFit DEF TypeOK
    <3>4. cur[t] = {}
      BY <1>0, <2>0 DEF StepsInPlace
    <3>5. ItemsInv'
      BY <1>0, <2>0, <2>2 DEF ItemsInv
    <3>6. plan'[t] = ask[t] /\ plan'[t] \cup cur[t] = ask[t]
      BY <1>0, <2>2, <3>4 DEF Shapes
    <3>7. Apart(plan'[t] \cup cur[t]) /\ \A s \in plan'[t] : PlannedFits(zone, s, plan'[t] \cup cur[t])
      BY <3>3, <3>6 DEF BatchFits
    <3>8. \A u \in Threads : u # t => pc'[u] \notin {"drain", "work"}
      BY <1>0, <2>0, <2>2, OneHolder DEF Shapes
    <3>9. WorkInv'
      BY <1>0, <2>0, <2>2, <3>4, <3>7, <3>8 DEF Shapes, WorkInv
    <3> QED BY <3>5, <3>9
  <2> QED BY <1>16, <2>1, <2>2 DEF ApplyRetrieve, Retrieve
<1>17. ASSUME NEW t \in Threads, ApplyPick(t) PROVE Parts'
  <2>0. pc[t] = "work" /\ cur[t] = {} /\ UNCHANGED <<zone, memory, pc, made>>
    BY <1>17 DEF ApplyPick
  <2>1. PICK s \in plan[t] : /\ \A q \in plan[t] : Rank(s) <= Rank(q)
                             /\ cur' = [cur EXCEPT ![t] = {s}]
                             /\ plan' = [plan EXCEPT ![t] = plan[t] \ {s}]
    BY <1>0, <1>17 DEF ApplyPick, Shapes
  <2>2. cur'[t] = {s} /\ plan'[t] = plan[t] \ {s} /\ plan'[t] \cup cur'[t] = plan[t] \cup cur[t]
    BY <1>0, <2>0, <2>1 DEF Shapes
  <2>3. PlannedFits(zone, s, plan[t] \cup cur[t])
    BY <1>0, <2>0 DEF WorkInv
  <2>4. StepFits(zone, s)
    <3>1. ASSUME s.do = "newPrimary", NEW q \in plan[t], q.do = "newMarker" PROVE FALSE
      BY <2>1, <3>1 DEF Rank
    <3> QED BY <2>0, <2>3, <3>1 DEF PlannedFits
  <2>5. \A u \in Threads : u # t => pc[u] \notin {"drain", "work"}
    BY <1>0, <2>0, OneHolder
  <2>6. WorkInv'
    BY <1>0, <2>0, <2>2, <2>4, <2>5 DEF WorkInv
  <2>9. ItemsInv'
    BY <1>0, <2>0 DEF ItemsInv
  <2> QED BY <2>6, <2>9
<1>18. ASSUME NEW t \in Threads, CallOk(t) PROVE Parts'
  <2>0. pc[t] \in {"drain", "work"}
    BY <1>18 DEF CallOk
  <2>1. PICK s \in cur[t] : \E c \in NextCalls(t, s) : Confirmed(t, s, c)
    BY <1>18 DEF CallOk
  <2>2. PICK call \in NextCalls(t, s) : Confirmed(t, s, call)
    BY <2>1
  <2>3. /\ zone' = Effect(zone, call)
        /\ made' = [made EXCEPT ![t] = made[t] \cup Tried(s, call)]
        /\ UNCHANGED <<memory, pc, plan, cur>>
    BY <1>0, <2>2, CallGuarded DEF Confirmed, Shapes
  <2>4. /\ StepFits(zone', s)
        /\ \A p \in Owned : NotForeign(zone, p) => NotForeign(zone', p)
        /\ NotForeign(zone', s.ch.of)
        /\ pc[t] = "work" => \A q \in plan[t] : PlannedFits(zone', q, plan[t] \cup cur[t])
    BY <1>0, <2>0, <2>3, ZoneMove
  <2>7. ItemsInv'
    <3>1. \A x \in Tried(s, call) : x.of = s.ch.of /\ x.of \in x.prot
      <4>1. s \in Steps /\ StepFits(zone, s)
        BY <1>0, <2>0, CallOnZone
      <4> QED BY <4>1 DEF Tried, Cleanup, StepFits, Steps, Changes
    <3>2. \A x \in pendingCleanups \cup pendingRepairs : x.of \in Owned
      BY <1>0 DEF TypeOK, Changes
    <3>3. \A u \in Threads : \A x \in made[u] : x.of \in Owned
      BY <1>0 DEF Shapes, Changes
    <3>4. \A u \in Threads : \A x \in made'[u] : x \in made[u] \/ x \in Tried(s, call)
      BY <1>0, <2>3 DEF Shapes
    <3> QED BY <1>0, <2>3, <2>4, <3>1, <3>2, <3>3, <3>4 DEF ItemsInv
  <2>8. WorkInv'
    <3>1. \A u \in Threads : u # t => pc[u] \notin {"drain", "work"}
      BY <1>0, <2>0, OneHolder
    <3>2. \A q \in cur[t] : q = s
      BY <1>0 DEF StepsInPlace
    <3> QED BY <1>0, <2>3, <2>4, <3>1, <3>2 DEF WorkInv
  <2> QED BY <2>7, <2>8
<1>19. ASSUME NEW t \in Threads, DrainError(t) PROVE Parts'
  <2>0. pc[t] = "drain" /\ Return(t, TRUE) /\ UNCHANGED <<pendingCleanups, pendingRepairs>>
    BY <1>19 DEF DrainError
  <2>1. PICK s \in cur[t] : \E c \in NextCalls(t, s) : Unconfirmed(t, s, c)
    BY <1>19 DEF DrainError
  <2>2. PICK call \in NextCalls(t, s) : Unconfirmed(t, s, call)
    BY <2>1
  <2>3. zone' = zone \/ zone' = Effect(zone, call)
    BY <2>2 DEF Unconfirmed
  <2>4. \A p \in Owned : NotForeign(zone, p) => NotForeign(zone', p)
    BY <1>0, <2>0, <2>3, ZoneMove
  <2>7. ItemsInv'
    BY <1>0, <2>0, <2>4 DEF ItemsInv, Return, Shapes, TypeOK, Changes
  <2>8. \A u \in Threads : pc'[u] \notin {"drain", "work"}
    BY <1>0, <2>0, OneHolder DEF Shapes, Return
  <2> QED BY <2>7, <2>8 DEF WorkInv
<1>20. ASSUME NEW t \in Threads, ApplyError(t) PROVE Parts'
  <2>0. pc[t] = "work"
    BY <1>20 DEF ApplyError
  <2>1. PICK s \in cur[t] : \E c \in NextCalls(t, s) : Abandon(t, s, c)
    BY <1>20 DEF ApplyError
  <2>2. PICK call \in NextCalls(t, s) : Abandon(t, s, call)
    BY <2>1
  <2>3. /\ zone' = zone \/ zone' = Effect(zone, call)
        /\ pendingCleanups' = pendingCleanups \cup LeftCleanups(s, made[t] \cup Tried(s, call))
        /\ pendingRepairs' = pendingRepairs \cup LeftRepairs(s)
        /\ pc' = [pc EXCEPT ![t] = "reply"] \/ pc' = [pc EXCEPT ![t] = "drainRead"]
        /\ made' = [made EXCEPT ![t] = {}]
    BY <2>2 DEF Abandon, Unconfirmed, Return
  <2>4. s \in Steps /\ StepFits(zone, s)
    BY <1>0, <2>0, CallOnZone
  <2>5. NotForeign(zone', s.ch.of) /\ \A p \in Owned : NotForeign(zone, p) => NotForeign(zone', p)
    BY <1>0, <2>0, <2>3, <2>4, ZoneMove, FitsOurs
  <2>6. \A x \in made[t] : NotForeign(zone', x.of) /\ x.of \in x.prot
    BY <1>0, <2>5 DEF ItemsInv, Shapes, Changes
  <2>7. \A x \in Tried(s, call) : x.of = s.ch.of /\ x.of \in x.prot
    BY <2>4 DEF Tried, Cleanup, StepFits, Steps, Changes
  <2>8. \A x \in LeftCleanups(s, made[t] \cup Tried(s, call)) \cup LeftRepairs(s) :
           NotForeign(zone', x.of) /\ x.of \in x.prot
    <3>1. \A v : LET x == Cleanup(s.ch, v, {s.ch.of}) IN x.of = s.ch.of /\ x.prot = {s.ch.of}
      BY <2>4 DEF Cleanup, Steps, Changes
    <3>2. Repair(s.ch).of = s.ch.of /\ Repair(s.ch).prot = {s.ch.of}
      BY <2>4 DEF Repair, Steps, Changes
    <3>3. \A x \in LeftRepairs(s) : x = Repair(s.ch)
      BY DEF LeftRepairs
    <3>4. \A x \in LeftCleanups(s, made[t] \cup Tried(s, call)) :
             \/ x \in made[t] \cup Tried(s, call)
             \/ \E v : x = Cleanup(s.ch, v, {s.ch.of})
      BY DEF LeftCleanups
    <3> QED BY <2>5, <2>6, <2>7, <3>1, <3>2, <3>3, <3>4
  <2>9. \A x \in pendingCleanups \cup pendingRepairs : NotForeign(zone', x.of) /\ x.of \in x.prot
    BY <1>0, <2>5 DEF ItemsInv, TypeOK, Changes
  <2>10. ItemsInv'
    <3>1. ASSUME NEW u \in Threads, NEW x \in made'[u] PROVE NotForeign(zone', x.of) /\ x.of \in x.prot
      BY <1>0, <2>3, <2>5, <3>1 DEF ItemsInv, Shapes, Changes
    <3> QED BY <2>3, <2>8, <2>9, <3>1 DEF ItemsInv
  <2>11. \A u \in Threads : pc'[u] \notin {"drain", "work"}
    BY <1>0, <2>0, <2>3, OneHolder DEF Shapes
  <2> QED BY <2>10, <2>11 DEF WorkInv
<1>21. ASSUME NEW t \in Threads, StepDone(t) PROVE Parts'
  <2>0. pc[t] \in {"drain", "work"} /\ UNCHANGED <<zone, pc, plan, made>>
    BY <1>21 DEF StepDone
  <2>1. PICK s \in cur[t] :
          /\ Done(Task(s), idx[t])
          /\ cur' = [cur EXCEPT ![t] = After(s)]
          /\ pendingCleanups' = IF s.do = "clean" THEN pendingCleanups \ {s.ch} ELSE pendingCleanups
          /\ pendingRepairs' = IF s.do \in {"repDelOld", "repDelNew", "repConverge", "repEdit"} /\ After(s) = {}
                               THEN pendingRepairs \ {s.ch} ELSE pendingRepairs
    BY <1>21 DEF StepDone
  <2>2. s \in Steps /\ StepFits(zone, s) /\ zone \in SUBSET Records /\ idx[t] = zone
    BY <1>0, <2>0 DEF Shapes, TypeOK, WorkInv, StepsInPlace
  <2>3. cur'[t] = After(s)
    BY <1>0, <2>1 DEF Shapes
  <2>4. \A q \in After(s) :
           /\ StepFits(zone, q) /\ q.ch = s.ch
           /\ s.do \in {"delPrimary", "updMarker"} => q.do \in {"delMarker", "updPrimary"}
           /\ s.do \in {"delPrimary", "updMarker", "repDelOld"}
    BY <2>1, <2>2, AfterFits
  <2>5. \A u \in Threads : u # t => pc[u] \notin Held
    BY <1>0, <2>0, OneHolder
  <2>8. ItemsInv'
    BY <1>0, <2>0, <2>1 DEF ItemsInv
  <2>9. CASE pc[t] = "drain"
    BY <2>0, <2>3, <2>4, <2>5, <2>8, <2>9 DEF WorkInv
  <2>10. CASE pc[t] = "work"
    <3>1. /\ Apart(plan[t] \cup cur[t]) /\ s.do \in BatchDos /\ s \notin plan[t]
          /\ \A q \in plan[t] : PlannedFits(zone, q, plan[t] \cup cur[t])
      BY <1>0, <2>1, <2>10 DEF WorkInv, StepsOfLoop
    <3>3. \A q \in After(s), r \in plan[t] : q.ch.of # r.ch.of
      BY <2>4, <3>1 DEF Apart, BatchDos
    <3>4. \A q, r \in After(s) : q = r
      BY AfterOne
    <3>5. Apart(plan[t] \cup After(s))
      BY <3>1, <3>3, <3>4 DEF Apart
    <3>6. \A q \in After(s) : StepFits(zone, q) /\ q \notin plan[t]
      BY <2>4, <3>3
    <3>7. s.do = "newMarker" => Marked(zone, s.ch.of)
      <4>1. SUFFICES ASSUME s.do = "newMarker" PROVE Marked(zone, s.ch.of)
        OBVIOUS
      <4>2. Task(s).kind = "marker" /\ Task(s).of = s.ch.of /\ Task(s).keep = {s.ch.valNew}
        BY <2>2, <4>1, TaskFacts
      <4>3. \E r \in zone : r.kind = "marker" /\ r.of = s.ch.of
        BY <2>1, <2>2, <4>2, DoneMeans
      <4> QED BY <4>3 DEF Marked
    <3>8. ASSUME NEW r \in plan[t] PROVE PlannedFits(zone, r, plan[t] \cup After(s))
      <4>1. PlannedFits(zone, r, plan[t] \cup cur[t])
        BY <3>1
      <4>2. CASE StepFits(zone, r)
        BY <4>1, <4>2 DEF PlannedFits
      <4>3. CASE ~StepFits(zone, r)
        <5>1. /\ r.do = "newPrimary" /\ r.ch.of \in r.ch.prot
              /\ \E q \in plan[t] \cup cur[t] : q.do = "newMarker" /\ q.ch.of = r.ch.of
          BY <4>1, <4>3 DEF PlannedFits
        <5>2. ~Marked(zone, r.ch.of)
          BY <4>3, <5>1 DEF StepFits
        <5>3. \A q \in cur[t] : q = s
          BY <1>0 DEF StepsInPlace
        <5>4. \E q \in plan[t] : q.do = "newMarker" /\ q.ch.of = r.ch.of
          BY <3>7, <5>1, <5>2, <5>3
        <5> QED BY <5>1, <5>4 DEF PlannedFits
      <4> QED BY <4>2, <4>3
    <3> QED BY <2>0, <2>3, <2>5, <2>8, <2>10, <3>5, <3>6, <3>8 DEF WorkInv
  <2> QED BY <2>0, <2>9, <2>10
<1>23. ASSUME NEW t \in Threads, Reply(t) PROVE Parts'
  BY <1>0, <1>23 DEF Reply, Shapes, ItemsInv, WorkInv
<1> QED BY <1>1, <1>2, <1>5, <1>7, <1>8, <1>9, <1>10, <1>11, <1>12, <1>13, <1>14,
           <1>16, <1>17, <1>18, <1>19, <1>20, <1>21, <1>23 DEF Next, Step

\* Whatever a batch or a drain is about to do fits the zone as it is, and what
\* is queued is about identities the provider may touch (ApplyChanges and
\* drainPendingOwnershipCleanups, with ExternalDNS' registry).
THEOREM Fitting ==
    ASSUME Registry
    PROVE  Spec => []OwnershipInv
BY LockInit, LockNext, OwnershipInit, OwnershipNext, PTL DEF Spec

(***************************************************************************)
(* The contract                                                            *)
(***************************************************************************)
\* Only the call of a step under way changes the zone, and none in a dry run.
LEMMA OnlyCalls ==
    ASSUME [Next]_vars
    PROVE  \/ zone' = zone
           \/ /\ ~DryRun
              /\ \E t \in Threads : /\ pc[t] \in {"drain", "work"}
                                    /\ \E s \in cur[t] : \E c \in NextCalls(t, s) : zone' = Effect(zone, c)
<1> DEFINE Called == /\ ~DryRun
                     /\ \E t \in Threads :
                           /\ pc[t] \in {"drain", "work"}
                           /\ \E s \in cur[t] : \E c \in NextCalls(t, s) : zone' = Effect(zone, c)
<1>1. ASSUME NEW t \in Threads, CallOk(t) PROVE zone' = zone \/ Called
  <2>1. PICK s \in cur[t] : \E c \in NextCalls(t, s) : Confirmed(t, s, c)
    BY <1>1 DEF CallOk
  <2>2. PICK c \in NextCalls(t, s) : Confirmed(t, s, c)
    BY <2>1
  <2>3. zone' = zone \/ (~DryRun /\ zone' = Effect(zone, c))
    BY <2>2, CallGuarded DEF Confirmed
  <2> QED BY <1>1, <2>3 DEF CallOk
<1>2. ASSUME NEW t \in Threads, DrainError(t) \/ ApplyError(t) PROVE zone' = zone \/ Called
  <2>1. pc[t] \in {"drain", "work"}
    BY <1>2 DEF DrainError, ApplyError
  <2>2. PICK s \in cur[t] : \E c \in NextCalls(t, s) : Unconfirmed(t, s, c)
    BY <1>2 DEF DrainError, ApplyError, Abandon
  <2>3. PICK c \in NextCalls(t, s) : Unconfirmed(t, s, c)
    BY <2>2
  <2>4. ~DryRun /\ (zone' = zone \/ zone' = Effect(zone, c))
    BY <2>3, CallGuarded DEF Unconfirmed
  <2> QED BY <2>1, <2>4
<1>4. ASSUME NEW t \in Threads, Step(t) PROVE zone' = zone \/ Called
  BY <1>1, <1>2, <1>4
     DEF Step, DrainRetrieve, DrainPickRepair, DrainPickCleanup, DrainEnd, RecordsCached, RecordsRetrieve,
         ApplyRetrieve, ApplyPick, StepDone, ApplyEnd, Reply
<1> QED BY <1>4 DEF Next, vars, ChangeDesired, ControllerGet, ControllerPost, ControllerRest, ProbeStart,
                    CacheExpire, Crash, Cancel, Acquire

\* A step that leaves the zone alone leaves the contract's state alone; a step
\* that makes a call moves the identity of the call by one of the contract's
\* moves, or not at all.
LEMMA ContractNext ==
    ASSUME Registry
    PROVE  LockInv /\ OwnershipInv /\ [Next]_vars => [Contract!Next]_([p \in Owned |-> Status(zone, p)])
<1> DEFINE st == [p \in Owned |-> Status(zone, p)]
           Called == ~DryRun /\ \E t \in Threads :
                        /\ pc[t] \in {"drain", "work"}
                        /\ \E s \in cur[t] : \E c \in NextCalls(t, s) : zone' = Effect(zone, c)
<1> SUFFICES ASSUME LockInv, OwnershipInv, [Next]_vars PROVE Contract!Next \/ UNCHANGED st
  OBVIOUS
<1>1. CASE zone' = zone
  BY <1>1
<1>2. CASE Called
  <2>1. PICK t \in Threads : /\ pc[t] \in {"drain", "work"}
                             /\ \E s \in cur[t] : \E c \in NextCalls(t, s) : zone' = Effect(zone, c)
    BY <1>2
  <2>2. PICK s \in cur[t] : \E c \in NextCalls(t, s) : zone' = Effect(zone, c)
    BY <2>1
  <2>3. PICK call \in NextCalls(t, s) : zone' = Effect(zone, call)
    BY <2>2
  <2>4. WorkInv
    BY <1>2 DEF OwnershipInv
  <2>5. PICK i \in Ids : /\ call \in Calls(Task(s), zone, i)
                         /\ s \in Steps /\ StepFits(zone, s) /\ zone \in SUBSET Records
    BY <1>2, <2>1, <2>4, CallOnZone
  <2> DEFINE p == s.ch.of
  <2>6. p \in Owned
    BY <2>5 DEF Steps, Changes
  <2>7. StatusMove(zone, zone', p)
    BY <2>3, <2>5, CallSafe
  <2>8. \A q \in Owned : q # p => Status(zone', q) = Status(zone, q)
    BY <2>3, <2>5, CallElsewhere
  <2>9. CASE Status(zone, p) = Status(zone', p)
    BY <2>8, <2>9
  <2>10. CASE <<Status(zone, p), Status(zone', p)>> \in Contract!Moves
    <3>1. st' = [st EXCEPT ![p] = Status(zone', p)]
      BY <2>6, <2>8
    <3>2. Status(zone', p) \in Contract!States
      BY DEF Status, Contract!States
    <3>3. st[p] = Status(zone, p)
      BY <2>6
    <3>4. Contract!Move(p)
      BY <2>10, <3>1, <3>2, <3>3 DEF Contract!Move
    <3> QED BY <2>6, <3>4 DEF Contract!Next
  <2> QED BY <2>7, <2>9, <2>10 DEF StatusMove
<1>3. zone' = zone \/ Called
  BY OnlyCalls
<1> QED BY <1>1, <1>2, <1>3

\* The provider keeps the ownership contract: for every zone it starts from,
\* every source, every number of identities and requests, whatever calls fail
\* with or without their effect and whenever the process restarts, a record is
\* created, changed or deleted only while its marker is in the zone.
THEOREM OwnershipKept ==
    ASSUME Registry
    PROVE  Spec => ContractSpec
<1>1. Init => Contract!Init
  BY DEF Init, Contract!Init, Contract!States, Status
<1> QED BY <1>1, LockInit, LockNext, OwnershipInit, OwnershipNext, ContractNext, PTL
        DEF Spec, ContractSpec, Contract!Spec

(***************************************************************************)
(* Dry runs and updates                                                    *)
(***************************************************************************)
NothingQueued == pendingCleanups = {} /\ pendingRepairs = {}

\* Only the error of a batch fills the queues, and a dry run has none.
LEMMA NothingLeft ==
    ASSUME DryRun
    PROVE  NothingQueued /\ [Next]_vars => NothingQueued'
<1> SUFFICES ASSUME NothingQueued, [Next]_vars PROVE NothingQueued'
  OBVIOUS
<1> USE DEF NothingQueued, memory
<1>1. ASSUME NEW t \in Threads, Step(t) PROVE NothingQueued'
  <2>1. CASE DrainPickRepair(t) \/ DrainPickCleanup(t)
    BY <2>1 DEF DrainPickRepair, DrainPickCleanup
  <2>2. CASE DrainError(t) \/ ApplyError(t)
    <3>1. PICK s \in cur[t] : \E c \in NextCalls(t, s) : Unconfirmed(t, s, c)
      BY <2>2 DEF DrainError, ApplyError, Abandon
    <3>2. PICK c \in NextCalls(t, s) : Unconfirmed(t, s, c)
      BY <3>1
    <3> QED BY <3>2, CallGuarded DEF Unconfirmed
  <2>3. CASE StepDone(t)
    BY <2>3 DEF StepDone
  <2>4. CASE CallOk(t)
    BY <2>4 DEF CallOk, Confirmed
  <2>5. CASE \/ DrainRetrieve(t) \/ DrainEnd(t) \/ RecordsCached(t) \/ RecordsRetrieve(t)
             \/ ApplyRetrieve(t) \/ ApplyPick(t) \/ ApplyEnd(t) \/ Reply(t)
    BY <2>5 DEF DrainRetrieve, DrainEnd, RecordsCached, RecordsRetrieve, ApplyRetrieve, ApplyPick,
                ApplyEnd, Reply
  <2> QED BY <1>1, <2>1, <2>2, <2>3, <2>4, <2>5 DEF Step
<1> QED BY <1>1 DEF Next, vars, ChangeDesired, ControllerGet, ControllerPost, ControllerRest, ProbeStart,
                    CacheExpire, Crash, Cancel, Acquire

\* A dry run never changes the zone and never queues work, whatever is asked
\* of it: each of its calls is one that a p.dryRun guards (CallGuarded).
THEOREM DryRunReads ==
    ASSUME DryRun
    PROVE  Spec => DryRunReadOnly
<1>1. Init => NothingQueued
  BY DEF Init, NothingQueued
<1>2. NothingQueued /\ [Next]_vars => [zone' = zone /\ pendingCleanups' \cup pendingRepairs' = {}]_vars
  BY OnlyCalls, NothingLeft DEF NothingQueued
<1> QED BY <1>1, <1>2, NothingLeft, PTL DEF Spec, DryRunReadOnly

\* A call of an update's record half leaves a record of every target the zone
\* had and the update wants: what it drops it does not want, what it edits
\* keeps its target, and of duplicates one stays.
LEMMA UpdateKeeps ==
    ASSUME NEW s \in Steps, s.do = "updPrimary", NEW z \in SUBSET Records, NEW i \in Ids,
           NEW call \in Calls(Task(s), z, i)
    PROVE  Contents(z, "primary", s.ch.of) \cap s.ch.new \subseteq Contents(Effect(z, call), "primary", s.ch.of)
<1> DEFINE p == s.ch.of
           task == Task(s)
           y == Effect(z, call)
<1>1. task.kind = "primary" /\ task.of = p /\ task.drop = s.ch.old \ s.ch.new /\ task.move = {} /\ task.keep = s.ch.new
  BY DEF Task, TaskRec
<1> SUFFICES ASSUME NEW c \in s.ch.new, NEW r \in z, r.kind = "primary", r.of = p, r.content = c
             PROVE  \E q \in y : q.kind = "primary" /\ q.of = p /\ q.content = c
  BY DEF Contents
<1> HIDE DEF task
<1>2. r \in y \/ r \in call.cut
  BY DEF Effect
<1>3. CASE Match(z, "primary", p, task.drop) # {}
  <2>1. PICK d \in Earliest(Match(z, "primary", p, task.drop)) : call = DeleteCall(d)
    BY <1>1, <1>3 DEF Calls, task
  <2>2. d.content \notin s.ch.new
    BY <1>1, <2>1 DEF Earliest, Match
  <2> QED BY <1>2, <2>1, <2>2 DEF DeleteCall
<1>4. CASE Match(z, "primary", p, task.drop) = {}
  <2>1. Match(z, "primary", p, task.move) = {}
    BY <1>1 DEF Match
  <2>2. PICK e \in task.keep : call \in ConvergeTarget(task, z, e, i)
    BY <1>1, <1>4, <2>1 DEF Calls, Open, task
  <2> DEFINE dups   == Match(z, "primary", p, {e})
             keeper == PreferredRecord(dups, task.attr)
  <2>3. CASE call = CreateCall(task, e, i)
    BY <1>2, <2>3 DEF CreateCall
  <2>4. CASE \E d \in keeper : call = EditCall(d, task, e)
    <3>1. PICK d \in keeper : call = EditCall(d, task, e)
      BY <2>4
    <3>2. d \in Records /\ d.kind = "primary" /\ d.of = p /\ d.content = e
      BY <3>1 DEF PreferredRecord, Match
    <3> DEFINE q == [d EXCEPT !.content = e, !.attr = task.attr]
    <3>3. q \in y /\ q.kind = "primary" /\ q.of = p /\ q.content = e
      BY <3>1, <3>2 DEF EditCall, Effect, Records
    <3>4. call.cut = {d}
      BY <3>1 DEF EditCall
    <3>5. CASE r = d
      BY <3>2, <3>3, <3>5
    <3>6. CASE r # d
      BY <1>2, <3>4, <3>6
    <3> QED BY <3>5, <3>6
  <2>5. CASE \E d \in Earliest(dups \ keeper) : call = DeleteCall(d)
    <3>1. PICK d \in Earliest(dups \ keeper) : call = DeleteCall(d)
      BY <2>5
    <3>2. d \in dups /\ d \notin keeper
      BY <3>1 DEF Earliest
    <3>3. PICK q \in dups : q # d
      <4>1. SUFFICES ASSUME dups = {d} PROVE d \in keeper
        BY <3>2
      <4>2. d.id \in Nat
        BY <3>2, ZoneAssumption DEF Match, Records
      <4>3. d.id <= d.id
        BY <4>2
      <4> QED BY <3>2, <4>1, <4>3 DEF PreferredRecord
    <3>4. q \in y /\ d.content = e /\ q.content = e /\ q.kind = "primary" /\ q.of = p
      BY <3>1, <3>2, <3>3 DEF Match, Effect, DeleteCall
    <3>5. call.cut = {d}
      BY <3>1 DEF DeleteCall
    <3> QED BY <1>2, <3>4, <3>5
  <2> QED BY <1>1, <2>2, <2>3, <2>4, <2>5 DEF ConvergeTarget
<1> QED BY <1>3, <1>4

\* While an update is under way, a target that was live and is still wanted
\* never leaves the zone (updateEndpoint and convergeTarget, for every zone).
THEOREM TargetsKept == Spec => KeptTargets
<1> DEFINE Kept == \A t \in Threads : \A s \in cur[t] :
                      s.do = "updPrimary" =>
                          Contents(zone, "primary", s.ch.of) \cap s.ch.new
                              \subseteq Contents(zone', "primary", s.ch.of)
<1>1. LockInv /\ [Next]_vars => Kept
  <2> SUFFICES ASSUME LockInv, [Next]_vars, NEW t \in Threads, NEW s \in cur[t], s.do = "updPrimary", zone' # zone
               PROVE  Contents(zone, "primary", s.ch.of) \cap s.ch.new
                          \subseteq Contents(zone', "primary", s.ch.of)
    OBVIOUS
  <2>1. PICK u \in Threads : /\ ~DryRun
                             /\ pc[u] \in {"drain", "work"}
                             /\ \E q \in cur[u] : \E c \in NextCalls(u, q) : zone' = Effect(zone, c)
    BY OnlyCalls
  <2>2. u = t /\ idx[t] = zone /\ \A q \in cur[t] : q = s
    BY <2>1, OneHolder DEF LockInv, StepsInPlace
  <2>3. PICK c \in NextCalls(t, s) : zone' = Effect(zone, c)
    BY <2>1, <2>2
  <2>4. PICK i \in Ids : c \in Calls(Task(s), zone, i)
    BY <2>2, CallOfStep
  <2>5. s \in Steps /\ zone \in SUBSET Records
    BY DEF LockInv, TypeOK
  <2> QED BY <2>3, <2>4, <2>5, UpdateKeeps
<1>2. LockInv /\ [Next]_vars => [Kept]_vars
  BY <1>1
<1> QED BY <1>2, LockInit, LockNext, PTL DEF Spec, KeptTargets
===============================================================================
