-------------------------- MODULE ProviderInvariants --------------------------
(***************************************************************************)
(* The inductive invariants behind the properties of Provider, in layers,  *)
(* each resting on the one before: what the mutex, the queues and the      *)
(* cache guarantee whatever is applied (LockInv); what a batch may count   *)
(* on from the view it was planned from to its first call (PlanInv), and   *)
(* from there to its last (OwnershipInv); what a batch may damage, and     *)
(* where that damage is remembered (WholeInv); what of a batch has been    *)
(* done so far (AppliedInv).                                               *)
(***************************************************************************)
EXTENDS Provider

\* Exactly the call that holds the mutex is inside the critical section.
LockDiscipline == \A t \in Threads : pc[t] \in Held <=> operationMu = t

\* No snapshot is cached while the zone may be changed.
CacheEmptyAtWork == \A t \in Threads : pc[t] \in {"drain", "work"} => cache = {}

\* A batch and a step only exist inside the loops that run them.
StepsInPlace ==
    \A t \in Threads :
        /\ cur[t] # {} => pc[t] \in {"drain", "work"}
        /\ plan[t] # {} => pc[t] = "work"
        /\ made[t] # {} => pc[t] = "work"
        /\ \A s, q \in cur[t] : s = q
        /\ pc[t] \in {"drain", "work"} /\ ~DryRun => idx[t] = zone

\* Each loop runs steps of its own: the drain what its queues hold, a batch
\* what was asked for.
StepsOfLoop ==
    \A t \in Threads :
        /\ \A s \in ask[t] \cup plan[t] : s.do \in BatchDos \ {"delMarker"}
        /\ pc[t] = "work" => \A s \in cur[t] : s.do \in BatchDos
        /\ pc[t] = "drain" => \A s \in cur[t] :
              \/ s.do = "clean" /\ s.ch \in pendingCleanups
              \/ s.do \in DrainDos \ {"clean"} /\ s.ch \in pendingRepairs

\* Nothing is read for an answer or a batch before the queues are drained.
DrainedFirst ==
    \A t \in Threads : pc[t] \in {"read", "work"} => pendingCleanups = {} /\ pendingRepairs = {}

LockInv ==
    /\ TypeOK
    /\ LockDiscipline
    /\ CacheCoherent
    /\ CacheEmptyAtWork
    /\ StepsInPlace
    /\ StepsOfLoop
    /\ DrainedFirst

\* The records of the zone, and of every index, differ in their ids.
IdsInv == IdsApart(zone) /\ \A t \in Threads : IdsApart(idx[t])

(***************************************************************************)
(* The view and the batch planned from it                                  *)
(***************************************************************************)
\* No ownership work is pending and no call is about to change the zone.
Quiet ==
    /\ pendingCleanups = {} /\ pendingRepairs = {}
    /\ \A t \in Threads : pc[t] \notin {"drainRead", "drain", "work"}

\* The controller waits for one live request; a request it gave up is dead;
\* only a call that has done something can have failed.
ControllerInv ==
    /\ mine # NoThread => view = {} /\ pc[mine] # "idle" /\ ctx[mine]
    /\ \A t \in Threads :
          /\ op[t] = "apply" => pc[t] # "idle" /\ (ctx[t] => t = mine)
          /\ pc[t] = "work" => op[t] = "apply"
          /\ pc[t] = "idle" => ctx[t]
          /\ pc[t] \in {"idle", "queued", "read"} => ~failed[t]

\* From a successful answer to the retrieve of the batch planned from it the
\* zone stands still, so the batch is one planned from the zone itself.
ViewInv ==
    /\ \A v \in view : v = zone /\ Quiet
    /\ \A t \in Threads :
          t = mine =>
              /\ pc[t] = "reply" /\ op[t] = "records" /\ ~failed[t] => idx[t] = zone /\ Quiet
              /\ op[t] = "apply" /\ pc[t] \in {"queued", "drainRead", "drain", "read"} /\ ~failed[t] =>
                    Quiet /\ \E want \in [Owned -> Wants] : ask[t] = Batch(zone, want)

PlanInv == ControllerInv /\ ViewInv

(***************************************************************************)
(* Ownership                                                               *)
(***************************************************************************)
NotForeign(z, p) == Live(z, p) => Marked(z, p)

\* What the zone has to be like for a step of a pair to be safe.
StepFits(z, s) ==
    LET p == s.ch.of
    IN  /\ s.do \in {"delPrimary", "updMarker", "updPrimary", "newPrimary"} => Marked(z, p)
        /\ s.do = "delPrimary" => Contents(z, "primary", p) \subseteq s.ch.old
        /\ s.do \in {"delMarker", "repDelOld", "repDelNew", "clean"} => ~Live(z, p)
        /\ s.do \in {"newMarker", "repConverge", "repEdit"} => NotForeign(z, p)
        /\ s.do \in {"newMarker", "newPrimary"} => p \in s.ch.prot

\* A step not yet begun: a primary may still be waiting for its marker.
PlannedFits(z, s, steps) ==
    /\ s.do \in {"delPrimary", "updMarker", "newMarker", "newPrimary"}
    /\ \/ StepFits(z, s)
       \/ /\ s.do = "newPrimary"
          /\ s.ch.of \in s.ch.prot
          /\ \E q \in steps : q.do = "newMarker" /\ q.ch.of = s.ch.of

\* Two steps of a batch only meet at one identity to create its two halves.
Apart(steps) ==
    \A s, q \in steps :
        s.ch.of = q.ch.of /\ s # q => {s.do, q.do} = {"newMarker", "newPrimary"}

BatchFits(z, steps) ==
    /\ Apart(steps)
    /\ \A s \in steps : PlannedFits(z, s, steps)

\* Queued work is about identities the provider may touch.
ItemsInv ==
    /\ \A x \in pendingCleanups \cup pendingRepairs : NotForeign(zone, x.of) /\ x.of \in x.prot
    /\ \A t \in Threads : \A x \in made[t] : NotForeign(zone, x.of) /\ x.of \in x.prot

WorkInv ==
    \A t \in Threads :
        /\ pc[t] = "drain" => \A s \in cur[t] : StepFits(zone, s)
        /\ pc[t] = "work" =>
              /\ Apart(plan[t] \cup cur[t])
              /\ \A s \in cur[t] : StepFits(zone, s) /\ s \notin plan[t]
              /\ \A s \in plan[t] : PlannedFits(zone, s, plan[t] \cup cur[t])

OwnershipInv == PlanInv /\ (DryRun \/ (ItemsInv /\ WorkInv))

(***************************************************************************)
(* Damage: a marker without its record, two owner values of one record     *)
(***************************************************************************)
Whole(z, p) == ~Orphan(z, p) /\ ~Mixed(z, p)

\* The zones the program starts from are whole, as every process leaves them
\* that is not stopped while it has ownership work pending.
WholeStart == \A z \in InitZones, p \in Owned : Whole(z, p)

\* The queues know every damage of the zone, and each item knows every value
\* it may have to remove.
Queued(z, cleanups, repairs) ==
    /\ cleanups = {} \/ repairs = {}
    /\ \A rp, q \in repairs : rp.of = q.of => rp = q
    /\ \A cl \in cleanups :
          cl.prot = {cl.of} /\ Contents(z, "marker", cl.of) \subseteq {cl.valOld}
    /\ \A rp \in repairs :
          /\ rp.prot = {rp.of} /\ Live(z, rp.of)
          /\ Contents(z, "marker", rp.of) \subseteq {rp.valOld, rp.valNew}
    /\ \A p \in Owned :
          /\ Orphan(z, p) => \E cl \in cleanups : cl.of = p
          /\ Mixed(z, p) => \E rp \in repairs : rp.of = p

\* What a step of a batch counts on when it begins, and until it is done.
Known(z, s) ==
    LET p    == s.ch.of
        vals == Contents(z, "marker", p)
    IN  /\ s.do \in {"delPrimary", "delMarker"} => vals \subseteq {s.ch.valOld}
        /\ s.do = "updMarker" => Live(z, p) /\ vals \subseteq {s.ch.valOld, s.ch.valNew}
        /\ s.do \in {"updPrimary", "newMarker"} => vals \subseteq {s.ch.valNew}
        /\ s.do = "newMarker" => s.ch.prot = {p}
        /\ s.do \in {"updMarker", "updPrimary", "newPrimary"} => s.ch.new # {}

Creates == {"newMarker", "newPrimary"}

\* The markers a batch has tried to create are those its rollback would
\* remove, each until its record is there; only creates are left by then.
TriedKnown(z, steps, tried) ==
    /\ tried # {} => \A s \in steps : s.do \in Creates
    /\ \A cl \in tried :
          /\ cl.prot = {cl.of} /\ Contents(z, "marker", cl.of) \subseteq {cl.valOld}
          /\ \A s \in steps : s.do = "newMarker" /\ s.ch.of = cl.of => s.ch.valNew = cl.valOld
          /\ Live(z, cl.of) \/ \E s \in steps : s.do = "newPrimary" /\ s.ch.of = cl.of

\* The damage of a batch under way is at the identity of its step, or a
\* marker it has tried to create.
DamageKnown(z, now, tried) ==
    \A p \in Owned :
        /\ Orphan(z, p) =>
              \/ \E s \in now : s.ch.of = p /\ s.do \in {"delPrimary", "delMarker", "updPrimary"}
              \/ \E cl \in tried : cl.of = p
        /\ Mixed(z, p) => \E s \in now : s.ch.of = p /\ s.do = "updMarker"

\* Creates come last, and of a pair the marker comes first.
InOrder(now, later) ==
    /\ now \cap later = {} /\ Apart(later \cup now)
    /\ \A s \in now, q \in later : s.do \in Creates => q.do \in Creates
    /\ \A s \in later \cup now : s.do = "newMarker" =>
          \E q \in later : q.do = "newPrimary" /\ q.ch.of = s.ch.of

Sheltered(z, now, later, tried) ==
    /\ InOrder(now, later)
    /\ \A s \in later \cup now : Known(z, s)
    /\ TriedKnown(z, later \cup now, tried)
    /\ DamageKnown(z, now, tried)

\* Outside a batch all damage is queued ...
DamageInQueues ==
    DryRun \/ (\A t \in Threads : pc[t] # "work") => Queued(zone, pendingCleanups, pendingRepairs)

\* ... in a batch it is known ...
DamageInBatch ==
    \A t \in Threads : pc[t] = "work" => Sheltered(idx[t], cur[t], plan[t], made[t])

\* ... an answer shows none ...
AnswersWhole ==
    \A t \in Threads :
        pc[t] = "reply" /\ op[t] = "records" /\ ~failed[t] => \A p \in Owned : Whole(idx[t], p)

\* ... and the drain finds it as it was queued: no repair has lost its record.
DrainKnows ==
    \A t \in Threads : pc[t] = "drain" => \A s \in cur[t] :
        /\ s.do \in {"clean", "repConverge", "repEdit"}
        /\ s.do = "repConverge" => Contents(zone, "marker", s.ch.of) \subseteq {s.ch.valNew}

\* All that until a restart loses the queues.
WholeInv == crashes = 0 => DamageInQueues /\ DamageInBatch /\ AnswersWhole /\ DrainKnows

(***************************************************************************)
(* What a batch has done                                                   *)
(***************************************************************************)
\* Of an identity that is updated there is nothing but what the update was
\* told of or wants.
Ready(s, z) ==
    s.do \in {"updMarker", "updPrimary"} => Contents(z, "primary", s.ch.of) \subseteq s.ch.old \cup s.ch.new

\* The first half of a pair has been done.
HalfDone(s, z) ==
    /\ s.do = "delPrimary" => Match(z, "primary", s.ch.of, s.ch.old) = {}
    /\ s.do = "updMarker" => Ready(s, z) /\ MarkerSet(s.ch, z)

\* Every step of a batch waits, is under way, is half done, or is done; what
\* a registry would have sent as a pair is not sent as a single update.
Applied(z, now, later, asked) ==
    /\ Apart(asked) /\ later \subseteq asked
    /\ \A s \in asked : s.do # (IF Registry THEN "updPrimary" ELSE "updMarker")
    /\ \A q \in now : \E s \in asked \ later : q = s \/ q \in After(s)
    /\ \A s \in asked :
          /\ s \in later \cup now => Ready(s, z)
          /\ After(s) \cap now # {} => HalfDone(s, z)
          /\ s \notin later \cup now /\ After(s) \cap now = {} => Achieved(s, z)

AppliedInv ==
    \A t \in Threads : pc[t] = "work" => Applied(idx[t], cur[t], plan[t], ask[t])
===============================================================================
