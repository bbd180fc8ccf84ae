------------------------------- MODULE Provider -------------------------------
(***************************************************************************)
(* The provider (provider/provider.go): Records and ApplyChanges, the      *)
(* mutex that orders them, the record cache, and the two queues of         *)
(* ownership work that a failed batch leaves behind.  It serves one        *)
(* ExternalDNS controller and the readiness probe, and it works on a       *)
(* Porkbun zone through calls that may fail before or after their effect.  *)
(*                                                                         *)
(* A change [of, old, new, valOld, valNew, attr, prot] is the pair of      *)
(* endpoints ExternalDNS sends for one identity: the record's targets      *)
(* before and after, the ownership marker's value before and after, the    *)
(* attributes the record is to have, and the identities whose records      *)
(* forbid the removal of the marker.  A step [do, ch] is one endpoint      *)
(* operation on one half of the pair.                                      *)
(***************************************************************************)
EXTENDS ZoneIndex

CONSTANTS
    NameOf,       \* the name of each identity
    MarkerAttr,   \* the attributes every marker is written with
    InitZones,    \* the zones the program may find when it starts
    Wants,        \* what a source may want of one identity
    Handlers,     \* HTTP requests in progress
    Probe,        \* the readiness goroutine
    NoThread,
    Registry,     \* ExternalDNS runs with its TXT registry
    DryRun,
    MaxFaults,    \* bound: failed calls and cancelled requests
    MaxEdits,     \* bound: changes of what the sources want
    MaxCrashes    \* bound: restarts of the process

Threads  == Handlers \cup {Probe}
Changes  == [of : Owned, old : SUBSET AllContents, new : SUBSET AllContents,
             valOld : AllContents, valNew : AllContents, attr : Attrs, prot : SUBSET Owned]
BatchDos == {"delPrimary", "delMarker", "updMarker", "updPrimary", "newMarker", "newPrimary"}
DrainDos == {"repDelOld", "repDelNew", "repConverge", "repEdit", "clean"}
Steps    == [do : BatchDos \cup DrainDos, ch : Changes]

ASSUME ProviderAssumption ==
    /\ MarkerAttr \in Attrs
    /\ InitZones \subseteq SUBSET Records
    /\ Wants \subseteq [targets : SUBSET Targets, val : Values, attr : Attrs]
    /\ NoThread \notin Threads
    /\ Probe \notin Handlers
    /\ Registry \in BOOLEAN
    /\ DryRun \in BOOLEAN
    /\ {MaxFaults, MaxEdits, MaxCrashes} \subseteq Nat

ASSUME IdsAssumption == \A z \in InitZones : IdsApart(z)

VARIABLES
    zone,             \* the records Porkbun holds
    cache,            \* recordCache: no snapshot, or one
    pendingCleanups,  \* pendingOwnershipCleanups
    pendingRepairs,   \* pendingOwnershipRepairs
    operationMu,      \* the thread that holds the mutex
    pc, op, ctx,      \* where a call is, what it is, whether its context lives
    ask, plan, cur,   \* the batch, the steps not yet begun, the step under way
    idx,              \* the index built from the last Retrieve, or Records' result
    made,             \* createdOwnership
    failed,           \* the call is going to return an error
    desired,          \* what the sources want
    view,             \* the records the controller has just been sent
    mine,             \* the request the controller is waiting for
    faults, edits, crashes

memory     == <<cache, pendingCleanups, pendingRepairs>>
locals     == <<ask, plan, cur, idx, made, failed>>
controller == <<desired, view, mine>>
bounds     == <<faults, edits, crashes>>
vars       == <<zone, memory, operationMu, pc, op, ctx, locals, controller, bounds>>

Held == {"drainRead", "drain", "read", "work"}   \* where a call holds operationMu

(***************************************************************************)
(* What ExternalDNS asks for: the changes its planner and TXT registry     *)
(* derive from one view of the zone.                                       *)
(***************************************************************************)
Least(S) == CHOOSE x \in S : \A y \in S : x <= y

ManagedBy(v, p) == Live(v, p) /\ (Registry => Marked(v, p))

\* The view shows exactly what is wanted: duplicates, other targets, other
\* attributes and another owner value all show.
Exact(v, p, w) ==
    /\ Contents(v, "primary", p) = w.targets
    /\ \A c \in w.targets :
          \E r \in v : r.attr = w.attr /\ Match(v, "primary", p, {c}) = {r}
    /\ Registry => Contents(v, "marker", p) = {w.val}

\* What the v0.22 registry sends for an identity; an owner value the view
\* does not show is taken to be the wanted one.
ChangeOf(v, p, w, prot) ==
    LET vals == Contents(v, "marker", p)
    IN  [of |-> p, old |-> Contents(v, "primary", p), new |-> w.targets,
         valOld |-> IF vals = {} THEN w.val ELSE Least(vals), valNew |-> w.val,
         attr |-> w.attr, prot |-> prot]

\* Mutant of Protected: the first created record of the name is taken for the
\* protected one.
ProtectedFirst(v, created, p) == {CHOOSE q \in created : NameOf[q] = NameOf[p]}

\* protectedEndpointForOwnership: positions tell same-name records apart only
\* when every created record brings its marker.
Protected(v, created, p) ==
    LET whole == \A q \in created : ~Marked(v, q)
        twins == {q \in created : NameOf[q] = NameOf[p]}
    IN  IF whole \/ twins = {p} THEN {p} ELSE {q \in Owned : NameOf[q] = NameOf[p]}

Batch(v, want) ==
    LET gone    == {p \in Owned : ManagedBy(v, p) /\ want[p].targets = {}}
        changed == {p \in Owned : /\ ManagedBy(v, p)
                                  /\ want[p].targets # {}
                                  /\ ~Exact(v, p, want[p])}
        created == {p \in Owned : ~Live(v, p) /\ want[p].targets # {}}
        change(p) == ChangeOf(v, p, want[p], {p})
        create(p) == ChangeOf(v, p, want[p], Protected(v, created, p))
    IN  {[do |-> "delPrimary", ch |-> change(p)] : p \in gone}
          \cup {[do |-> IF Registry THEN "updMarker" ELSE "updPrimary", ch |-> change(p)] : p \in changed}
          \cup {[do |-> "newMarker", ch |-> create(p)] : p \in {q \in created : Registry /\ ~Marked(v, q)}}
          \cup {[do |-> "newPrimary", ch |-> create(p)] : p \in created}

(***************************************************************************)
(* Endpoint operations                                                     *)
(***************************************************************************)
TaskRec(kind, ch, drop, move, keep) ==
    [kind |-> kind, of |-> ch.of, drop |-> drop, move |-> move, keep |-> keep,
     attr |-> IF kind = "marker" THEN MarkerAttr ELSE ch.attr]

Task(s) ==
    LET ch == s.ch
    IN  CASE s.do = "delPrimary" -> TaskRec("primary", ch, ch.old, {}, {})
          [] s.do \in {"delMarker", "repDelOld", "clean"} -> TaskRec("marker", ch, {ch.valOld}, {}, {})
          [] s.do = "repDelNew" -> TaskRec("marker", ch, {ch.valNew}, {}, {})
          [] s.do \in {"updMarker", "repEdit"} ->
                 TaskRec("marker", ch, {}, {ch.valOld} \ {ch.valNew}, {ch.valNew})
          [] s.do \in {"newMarker", "repConverge"} -> TaskRec("marker", ch, {}, {}, {ch.valNew})
          [] s.do = "updPrimary" -> TaskRec("primary", ch, ch.old \ ch.new, {}, ch.new)
          [] s.do = "newPrimary" -> TaskRec("primary", ch, {}, {}, ch.new)

\* Mutants of After: a deleted record's marker is forgotten; an update stops
\* after its marker.
AfterNoMarker(s) == IF s.do = "updMarker" THEN {[s EXCEPT !.do = "updPrimary"]} ELSE {}
AfterMarkerOnly(s) == IF Registry /\ s.do = "delPrimary" THEN {[s EXCEPT !.do = "delMarker"]} ELSE {}

\* The second half of a pair.
After(s) ==
    CASE Registry /\ s.do = "delPrimary" -> {[s EXCEPT !.do = "delMarker"]}
      [] s.do = "updMarker" -> {[s EXCEPT !.do = "updPrimary"]}
      [] s.do = "repDelOld" /\ s.ch.valOld # s.ch.valNew -> {[s EXCEPT !.do = "repDelNew"]}
      [] OTHER -> {}

\* Mutant of Rank: creates in the order ExternalDNS sends them, records first.
RankRecordsFirst(s) ==
    CASE s.do = "delPrimary" -> 1
      [] s.do \in {"updMarker", "updPrimary"} -> 2
      [] s.do = "newPrimary" -> 3
      [] OTHER -> 4

\* Deletes, updates, then creates with the markers first (ownershipFirstCreates).
Rank(s) ==
    CASE s.do = "delPrimary" -> 1
      [] s.do \in {"updMarker", "updPrimary"} -> 2
      [] s.do = "newMarker" -> 3
      [] OTHER -> 4

Cleanup(ch, val, prot) ==
    [ch EXCEPT !.old = {}, !.new = {}, !.valOld = val, !.valNew = val, !.attr = MarkerAttr, !.prot = prot]

Repair(ch) == [ch EXCEPT !.old = {}, !.new = {}, !.attr = MarkerAttr, !.prot = {ch.of}]

\* Mutant of LeftCleanups: a failed create rolls back what it created itself.
LeftCleanupsOwnOnly(s, tried) ==
    CASE Registry /\ s.do \in {"delPrimary", "delMarker"} -> {Cleanup(s.ch, s.ch.valOld, {s.ch.of})}
      [] Registry /\ s.do = "updPrimary" -> {Cleanup(s.ch, s.ch.valNew, {s.ch.of})}
      [] s.do = "newMarker" -> tried
      [] OTHER -> {}

\* What a failed step leaves in the cleanup queue.  A failed create rolls
\* back every marker this batch has tried to create, unless it is a dry run's.
LeftCleanups(s, tried) ==
    CASE Registry /\ s.do \in {"delPrimary", "delMarker"} -> {Cleanup(s.ch, s.ch.valOld, {s.ch.of})}
      [] Registry /\ s.do = "updPrimary" -> {Cleanup(s.ch, s.ch.valNew, {s.ch.of})}
      [] s.do \in {"newMarker", "newPrimary"} /\ ~DryRun -> tried
      [] OTHER -> {}

\* Mutant of LeftRepairs: a failed ownership update is only reported.
LeftRepairsNone(s) == {}

LeftRepairs(s) == IF s.do = "updMarker" THEN {Repair(s.ch)} ELSE {}

\* createEndpoint reports a target as created when it was absent, whether or
\* not the call succeeded.
Tried(s, call) ==
    IF s.do = "newMarker" /\ call.cut = {}
    THEN {Cleanup(s.ch, s.ch.valNew, s.ch.prot)} ELSE {}

(***************************************************************************)
(* Actions                                                                 *)
(***************************************************************************)
Init ==
    /\ zone \in InitZones
    /\ cache = {} /\ pendingCleanups = {} /\ pendingRepairs = {}
    /\ operationMu = NoThread
    /\ pc = [t \in Threads |-> "idle"]
    /\ op = [t \in Threads |-> "records"]
    /\ ctx = [t \in Threads |-> TRUE]
    /\ ask = [t \in Threads |-> {}]
    /\ plan = [t \in Threads |-> {}]
    /\ cur = [t \in Threads |-> {}]
    /\ idx = [t \in Threads |-> {}]
    /\ made = [t \in Threads |-> {}]
    /\ failed = [t \in Threads |-> FALSE]
    /\ desired \in [Owned -> Wants]
    /\ view = {}
    /\ mine = NoThread
    /\ faults = 0 /\ edits = 0 /\ crashes = 0

\* The sources change what they want of one identity.
ChangeDesired ==
    /\ edits < MaxEdits
    /\ edits' = edits + 1
    /\ \E p \in Owned, w \in Wants :
          /\ w # desired[p]
          /\ desired' = [desired EXCEPT ![p] = w]
    /\ UNCHANGED <<zone, memory, operationMu, pc, op, ctx, locals, view, mine, faults, crashes>>

\* The controller's loop: GET /records ...
ControllerGet(h) ==
    /\ mine = NoThread /\ view = {} /\ pc[h] = "idle"
    /\ pc' = [pc EXCEPT ![h] = "queued"]
    /\ mine' = h
    /\ UNCHANGED <<zone, memory, operationMu, op, ctx, locals, desired, view, bounds>>

\* ... and POST /records, when the plan made from the answer is not empty.
ControllerPost(h) ==
    /\ mine = NoThread /\ pc[h] = "idle"
    /\ \E v \in view :
          /\ Batch(v, desired) # {}
          /\ ask' = [ask EXCEPT ![h] = Batch(v, desired)]
    /\ pc' = [pc EXCEPT ![h] = "queued"]
    /\ op' = [op EXCEPT ![h] = "apply"]
    /\ mine' = h
    /\ view' = {}
    /\ UNCHANGED <<zone, memory, operationMu, ctx, plan, cur, idx, made, failed, desired, bounds>>

ControllerRest ==
    /\ mine = NoThread
    /\ \E v \in view : Batch(v, desired) = {}
    /\ view' = {}
    /\ UNCHANGED <<zone, memory, operationMu, pc, op, ctx, locals, desired, mine, bounds>>

\* checkReadiness calls Records on every tick.
ProbeStart ==
    /\ pc[Probe] = "idle"
    /\ pc' = [pc EXCEPT ![Probe] = "queued"]
    /\ UNCHANGED <<zone, memory, operationMu, op, ctx, locals, controller, bounds>>

\* The controller gives a request up, or the probe's ten seconds are over:
\* the context of the call dies, the call goes on until it looks.
Cancel(t) ==
    /\ pc[t] # "idle" /\ ctx[t] /\ faults < MaxFaults
    /\ ctx' = [ctx EXCEPT ![t] = FALSE]
    /\ mine' = IF t = mine THEN NoThread ELSE mine
    /\ faults' = faults + 1
    /\ UNCHANGED <<zone, memory, operationMu, pc, op, locals, desired, view, edits, crashes>>

CacheExpire ==
    /\ cache # {}
    /\ cache' = {}
    /\ UNCHANGED <<zone, pendingCleanups, pendingRepairs, operationMu, pc, op, ctx, locals, controller, bounds>>

\* The process is restarted: everything but the zone and the controller is lost.
Crash ==
    /\ crashes < MaxCrashes
    /\ crashes' = crashes + 1
    /\ cache' = {} /\ pendingCleanups' = {} /\ pendingRepairs' = {}
    /\ operationMu' = NoThread
    /\ pc' = [t \in Threads |-> "idle"]
    /\ op' = [t \in Threads |-> "records"]
    /\ ctx' = [t \in Threads |-> TRUE]
    /\ ask' = [t \in Threads |-> {}]
    /\ plan' = [t \in Threads |-> {}]
    /\ cur' = [t \in Threads |-> {}]
    /\ idx' = [t \in Threads |-> {}]
    /\ made' = [t \in Threads |-> {}]
    /\ failed' = [t \in Threads |-> FALSE]
    /\ mine' = NoThread
    /\ UNCHANGED <<zone, desired, view, faults, edits>>

\* Mutants of Acquire: no drain before the work; no mutex.
AcquireNoDrain(t) ==
    /\ pc[t] = "queued"
    /\ operationMu = NoThread
    /\ operationMu' = t
    /\ pc' = [pc EXCEPT ![t] = "read"]
    /\ UNCHANGED <<zone, memory, op, ctx, locals, controller, bounds>>

AcquireUnlocked(t) ==
    /\ pc[t] = "queued"
    /\ operationMu' = t
    /\ pc' = [pc EXCEPT ![t] = IF pendingCleanups \cup pendingRepairs = {} THEN "read" ELSE "drainRead"]
    /\ UNCHANGED <<zone, memory, op, ctx, locals, controller, bounds>>

\* operationMu.Lock, and the early return of the drain when nothing is pending.
Acquire(t) ==
    /\ pc[t] = "queued"
    /\ operationMu = NoThread
    /\ operationMu' = t
    /\ pc' = [pc EXCEPT ![t] = IF pendingCleanups \cup pendingRepairs = {} THEN "read" ELSE "drainRead"]
    /\ UNCHANGED <<zone, memory, op, ctx, locals, controller, bounds>>

\* A call returns: the deferred Unlock and, in ApplyChanges, the deferred
\* cache invalidation.
Return(t, err) ==
    /\ pc' = [pc EXCEPT ![t] = "reply"]
    /\ operationMu' = NoThread
    /\ failed' = [failed EXCEPT ![t] = err]
    /\ plan' = [plan EXCEPT ![t] = {}]
    /\ cur' = [cur EXCEPT ![t] = {}]
    /\ made' = [made EXCEPT ![t] = {}]
    /\ UNCHANGED <<op, ctx, ask>>

\* A call to Porkbun fails by itself, or at once because its context is dead.
Faulty(t) ==
    \/ /\ ctx[t] /\ faults < MaxFaults
       /\ faults' = faults + 1
    \/ /\ ~ctx[t]
       /\ faults' = faults

Retrieve(t) == /\ ctx[t]
               /\ idx' = [idx EXCEPT ![t] = zone]

\* drainPendingOwnershipCleanups, up to its loops.
DrainRetrieve(t) ==
    /\ pc[t] = "drainRead"
    /\ cache' = {}
    /\ UNCHANGED <<zone, pendingCleanups, pendingRepairs, controller, edits, crashes>>
    /\ \/ /\ Retrieve(t)
          /\ pc' = [pc EXCEPT ![t] = "drain"]
          /\ UNCHANGED <<operationMu, op, ctx, ask, plan, cur, made, failed, faults>>
       \/ /\ Faulty(t)
          /\ Return(t, TRUE)
          /\ UNCHANGED idx

\* Mutant of RepairDos: one surviving owner value is enough, two are too.
RepairDosOnlyMissing(rp, i) ==
    CASE ~ProtectedRecordExists(i, rp.prot) -> {"repDelOld"}
      [] Match(i, "marker", rp.of, {rp.valOld, rp.valNew}) = {} -> {"repConverge"}
      [] OTHER -> {}

\* reconcilePendingOwnershipRepair: what one mixed ownership update needs.
\* Nothing, when exactly one of its two values still protects the record.
RepairDos(rp, i) ==
    LET protected == ProtectedRecordExists(i, rp.prot)
        hasOld    == Match(i, "marker", rp.of, {rp.valOld}) # {}
        hasNew    == Match(i, "marker", rp.of, {rp.valNew}) # {}
    IN  CASE ~protected -> {"repDelOld"}
          [] protected /\ rp.valOld = rp.valNew -> {"repConverge"}
          [] protected /\ rp.valOld # rp.valNew /\ ~hasOld /\ ~hasNew -> {"repConverge"}
          [] protected /\ rp.valOld # rp.valNew /\ hasOld /\ hasNew -> {"repEdit"}
          [] OTHER -> {}

\* The drain's loops: the repairs, then the cleanups; an item that needs no
\* call leaves its queue at once.
DrainPickRepair(t) ==
    /\ pc[t] = "drain" /\ cur[t] = {}
    /\ \E rp \in pendingRepairs :
          /\ cur' = [cur EXCEPT ![t] = {[do |-> d, ch |-> rp] : d \in RepairDos(rp, idx[t])}]
          /\ pendingRepairs' = IF RepairDos(rp, idx[t]) = {} THEN pendingRepairs \ {rp} ELSE pendingRepairs
    /\ UNCHANGED <<zone, cache, pendingCleanups, operationMu, pc, op, ctx, ask, plan, idx, made, failed,
                   controller, bounds>>

DrainPickCleanup(t) ==
    /\ pc[t] = "drain" /\ cur[t] = {} /\ pendingRepairs = {}
    /\ \E cl \in pendingCleanups :
          IF ProtectedRecordExists(idx[t], cl.prot)
          THEN /\ pendingCleanups' = pendingCleanups \ {cl}
               /\ cur' = cur
          ELSE /\ cur' = [cur EXCEPT ![t] = {[do |-> "clean", ch |-> cl]}]
               /\ pendingCleanups' = pendingCleanups
    /\ UNCHANGED <<zone, cache, pendingRepairs, operationMu, pc, op, ctx, ask, plan, idx, made, failed,
                   controller, bounds>>

DrainEnd(t) ==
    /\ pc[t] = "drain" /\ cur[t] = {} /\ pendingRepairs = {} /\ pendingCleanups = {}
    /\ cache' = {}
    /\ UNCHANGED <<zone, pendingCleanups, pendingRepairs, idx, controller, bounds>>
    /\ \/ /\ failed[t]
          /\ Return(t, TRUE)
       \/ /\ ~failed[t]
          /\ pc' = [pc EXCEPT ![t] = "read"]
          /\ UNCHANGED <<operationMu, op, ctx, ask, plan, cur, made, failed>>

\* Records after the drain: cachedRetrieve.
RecordsCached(t) ==
    /\ pc[t] = "read" /\ op[t] = "records"
    /\ \E snapshot \in cache : idx' = [idx EXCEPT ![t] = snapshot]
    /\ Return(t, FALSE)
    /\ UNCHANGED <<zone, memory, controller, bounds>>

RecordsRetrieve(t) ==
    /\ pc[t] = "read" /\ op[t] = "records" /\ cache = {}
    /\ UNCHANGED <<zone, pendingCleanups, pendingRepairs, controller, edits, crashes>>
    /\ \/ /\ Retrieve(t)
          /\ cache' = {zone}
          /\ Return(t, FALSE)
          /\ UNCHANGED faults
       \/ /\ Faulty(t)
          /\ Return(t, TRUE)
          /\ UNCHANGED <<cache, idx>>

\* Mutant of ApplyRetrieve: the cache is not invalidated before the writes.
ApplyRetrieveKeepsCache(t) ==
    /\ pc[t] = "read" /\ op[t] = "apply"
    /\ Retrieve(t)
    /\ pc' = [pc EXCEPT ![t] = "work"]
    /\ plan' = [plan EXCEPT ![t] = ask[t]]
    /\ UNCHANGED <<zone, memory, controller, bounds, operationMu, op, ctx, ask, cur, made, failed>>

\* ApplyChanges after the drain: the fresh Retrieve it works from.
ApplyRetrieve(t) ==
    /\ pc[t] = "read" /\ op[t] = "apply"
    /\ UNCHANGED <<zone, pendingCleanups, pendingRepairs, controller, edits, crashes>>
    /\ \/ /\ Retrieve(t)
          /\ cache' = {}
          /\ pc' = [pc EXCEPT ![t] = "work"]
          /\ plan' = [plan EXCEPT ![t] = ask[t]]
          /\ UNCHANGED <<operationMu, op, ctx, ask, cur, made, failed, faults>>
       \/ /\ Faulty(t)
          /\ Return(t, TRUE)
          /\ UNCHANGED <<cache, idx>>

ApplyPick(t) ==
    /\ pc[t] = "work" /\ cur[t] = {}
    /\ \E s \in plan[t] :
          /\ \A q \in plan[t] : Rank(s) <= Rank(q)
          /\ cur' = [cur EXCEPT ![t] = {s}]
          /\ plan' = [plan EXCEPT ![t] = @ \ {s}]
    /\ UNCHANGED <<zone, memory, operationMu, pc, op, ctx, ask, idx, made, failed, controller, bounds>>

\* An id no record has; the least one, the order of ids only decides which of
\* two equal duplicates goes first.
NextId(S) == {i \in Ids : /\ \A r \in S : r.id # i
                          /\ \A j \in Ids : j < i => \E r \in S : r.id = j}

NextCalls(t, s) == UNION {Calls(Task(s), idx[t], i) : i \in NextId(zone \cup idx[t])}

\* The places that ask p.dryRun before they send a call.  deleteEndpoint is
\* the operation of these steps; the others converge targets.
DeleteDos == {"delPrimary", "delMarker", "repDelOld", "repDelNew", "clean"}

SkipsDelete(s, call) == DryRun /\ call.put = {} /\ s.do \in DeleteDos

\* Mutant of SkipsDuplicate: deleteIndexedRecord does not ask.
SkipsDuplicateNever(s, call) == FALSE

\* deleteIndexedRecord: duplicates, and the targets an update drops.
SkipsDuplicate(s, call) == DryRun /\ call.put = {} /\ s.do \notin DeleteDos

SkipsCreate(s, call) == DryRun /\ call.cut = {}

\* editOwnershipTargets, and the edit of a drifted record in convergeTarget.
SkipsMove(s, call) == DryRun /\ call.put # {} /\ \E r \in call.cut : r.content \in Task(s).move
SkipsEdit(s, call) == DryRun /\ call.put # {} /\ \E r \in call.cut : r.content \notin Task(s).move

Skipped(s, call) ==
    \/ SkipsDelete(s, call) \/ SkipsDuplicate(s, call) \/ SkipsCreate(s, call)
    \/ SkipsMove(s, call) \/ SkipsEdit(s, call)

\* Mutant of Confirmed: the call is not recorded in the index.
ConfirmedUnindexed(t, s, call) ==
    /\ ctx[t] \/ Skipped(s, call)
    /\ zone' = IF Skipped(s, call) THEN zone ELSE Effect(zone, call)
    /\ made' = [made EXCEPT ![t] = @ \cup Tried(s, call)]
    /\ UNCHANGED <<memory, operationMu, pc, op, ctx, ask, plan, cur, idx, failed, controller, bounds>>

\* One Create, Edit or Delete: Porkbun confirms it, or it is skipped.  Either
\* way the index follows.
Confirmed(t, s, call) ==
    /\ ctx[t] \/ Skipped(s, call)
    /\ zone' = IF Skipped(s, call) THEN zone ELSE Effect(zone, call)
    /\ idx' = [idx EXCEPT ![t] = Effect(@, call)]
    /\ made' = [made EXCEPT ![t] = @ \cup Tried(s, call)]
    /\ UNCHANGED <<memory, operationMu, pc, op, ctx, ask, plan, cur, failed, controller, bounds>>

CallOk(t) ==
    /\ pc[t] \in {"drain", "work"}
    /\ \E s \in cur[t] : \E call \in NextCalls(t, s) : Confirmed(t, s, call)

\* A call that ends in an error, after its effect or without it; none is
\* sent when the context is dead.
Unconfirmed(t, s, call) ==
    /\ ~Skipped(s, call)
    /\ Faulty(t)
    /\ zone' = zone \/ (ctx[t] /\ zone' = Effect(zone, call))

\* An error during the drain ends the request with the queues as they are.
DrainError(t) ==
    /\ pc[t] = "drain"
    /\ \E s \in cur[t] : \E call \in NextCalls(t, s) : Unconfirmed(t, s, call)
    /\ Return(t, TRUE)
    /\ cache' = {}
    /\ UNCHANGED <<pendingCleanups, pendingRepairs, idx, controller, edits, crashes>>

\* An error of a batch fills the queues; they are drained, if only to find
\* them empty, before the request ends.
Abandon(t, s, call) ==
    /\ Unconfirmed(t, s, call)
    /\ pendingCleanups' = pendingCleanups \cup LeftCleanups(s, made[t] \cup Tried(s, call))
    /\ pendingRepairs' = pendingRepairs \cup LeftRepairs(s)
    /\ \/ /\ pendingCleanups' \cup pendingRepairs' = {}
          /\ Return(t, TRUE)
       \/ /\ pendingCleanups' \cup pendingRepairs' # {}
          /\ pc' = [pc EXCEPT ![t] = "drainRead"]
          /\ failed' = [failed EXCEPT ![t] = TRUE]
          /\ plan' = [plan EXCEPT ![t] = {}]
          /\ cur' = [cur EXCEPT ![t] = {}]
          /\ made' = [made EXCEPT ![t] = {}]
          /\ UNCHANGED <<operationMu, op, ctx, ask>>
    /\ cache' = {}
    /\ UNCHANGED <<idx, controller, edits, crashes>>

ApplyError(t) ==
    /\ pc[t] = "work"
    /\ \E s \in cur[t] : \E call \in NextCalls(t, s) : Abandon(t, s, call)

\* Mutant of StepDone: a finished cleanup stays in its queue.
StepDoneKeepsItem(t) ==
    /\ pc[t] \in {"drain", "work"}
    /\ \E s \in cur[t] :
          /\ Done(Task(s), idx[t])
          /\ cur' = [cur EXCEPT ![t] = After(s)]
    /\ UNCHANGED <<zone, memory, operationMu, pc, op, ctx, ask, plan, idx, made, failed, controller, bounds>>

\* An endpoint operation has made its last call; the second half of its pair
\* is next, or its item leaves the queue.
StepDone(t) ==
    /\ pc[t] \in {"drain", "work"}
    /\ \E s \in cur[t] :
          /\ Done(Task(s), idx[t])
          /\ cur' = [cur EXCEPT ![t] = After(s)]
          /\ pendingCleanups' = IF s.do = "clean" THEN pendingCleanups \ {s.ch} ELSE pendingCleanups
          /\ pendingRepairs' = IF s.do \in {"repDelOld", "repDelNew", "repConverge", "repEdit"} /\ After(s) = {}
                               THEN pendingRepairs \ {s.ch} ELSE pendingRepairs
    /\ UNCHANGED <<zone, cache, operationMu, pc, op, ctx, ask, plan, idx, made, failed, controller, bounds>>

ApplyEnd(t) ==
    /\ pc[t] = "work" /\ cur[t] = {} /\ plan[t] = {}
    /\ Return(t, FALSE)
    /\ cache' = {}
    /\ UNCHANGED <<zone, pendingCleanups, pendingRepairs, idx, controller, bounds>>

\* The response: the controller gets the records, or hears of the outcome.
Reply(t) ==
    /\ pc[t] = "reply"
    /\ pc' = [pc EXCEPT ![t] = "idle"]
    /\ op' = [op EXCEPT ![t] = "records"]
    /\ ctx' = [ctx EXCEPT ![t] = TRUE]
    /\ ask' = [ask EXCEPT ![t] = {}]
    /\ idx' = [idx EXCEPT ![t] = {}]
    /\ failed' = [failed EXCEPT ![t] = FALSE]
    /\ mine' = IF t = mine THEN NoThread ELSE mine
    /\ view' = IF t = mine /\ op[t] = "records" /\ ~failed[t] THEN {idx[t]} ELSE view
    /\ UNCHANGED <<zone, memory, operationMu, plan, cur, made, desired, bounds>>

Step(t) ==
    \/ DrainRetrieve(t) \/ DrainPickRepair(t) \/ DrainPickCleanup(t) \/ DrainEnd(t)
    \/ RecordsCached(t) \/ RecordsRetrieve(t) \/ ApplyRetrieve(t)
    \/ ApplyPick(t) \/ CallOk(t) \/ DrainError(t) \/ ApplyError(t) \/ StepDone(t) \/ ApplyEnd(t) \/ Reply(t)

Next ==
    \/ ChangeDesired
    \/ \E h \in Handlers : ControllerGet(h) \/ ControllerPost(h)
    \/ ControllerRest
    \/ ProbeStart
    \/ CacheExpire
    \/ Crash
    \/ \E t \in Threads : Cancel(t) \/ Acquire(t) \/ Step(t)

Spec == Init /\ [][Next]_vars

(***************************************************************************)
(* Fairness.  The controller polls for ever, the probe need not run;       *)
(* every started call goes on and every lock attempt is granted in the end *)
(* (sync.Mutex hands over to a starving waiter).  Nothing obliges a call   *)
(* to fail, a request to be cancelled, a cache to expire or a source to    *)
(* change.                                                                 *)
(***************************************************************************)
ControllerStep == ControllerRest \/ \E h \in Handlers : ControllerGet(h) \/ ControllerPost(h)

Progress(t) ==
    \/ DrainRetrieve(t) \/ DrainPickRepair(t) \/ DrainPickCleanup(t) \/ DrainEnd(t)
    \/ RecordsCached(t) \/ RecordsRetrieve(t) \/ ApplyRetrieve(t)
    \/ ApplyPick(t) \/ CallOk(t) \/ (~ctx[t] /\ (DrainError(t) \/ ApplyError(t))) \/ StepDone(t) \/ ApplyEnd(t) \/ Reply(t)

Fairness ==
    /\ WF_vars(ControllerStep)
    /\ \A t \in Threads : WF_vars(Progress(t)) /\ SF_vars(Acquire(t))

FairSpec == Spec /\ Fairness

(***************************************************************************)
(* Properties                                                              *)
(***************************************************************************)
\* Every variable stays in its type.
TypeOK ==
    /\ zone \in SUBSET Records
    /\ cache \in SUBSET SUBSET Records
    /\ pendingCleanups \in SUBSET Changes
    /\ pendingRepairs \in SUBSET Changes
    /\ operationMu \in Threads \cup {NoThread}
    /\ pc \in [Threads -> {"idle", "queued", "reply"} \cup Held]
    /\ op \in [Threads -> {"records", "apply"}]
    /\ ctx \in [Threads -> BOOLEAN]
    /\ ask \in [Threads -> SUBSET Steps]
    /\ plan \in [Threads -> SUBSET Steps]
    /\ cur \in [Threads -> SUBSET Steps]
    /\ idx \in [Threads -> SUBSET Records]
    /\ made \in [Threads -> SUBSET Changes]
    /\ failed \in [Threads -> BOOLEAN]
    /\ desired \in [Owned -> Wants]
    /\ view \in SUBSET SUBSET Records
    /\ mine \in Handlers \cup {NoThread}
    /\ faults \in 0..MaxFaults
    /\ edits \in 0..MaxEdits
    /\ crashes \in 0..MaxCrashes

\* The ownership contract: whatever calls fail, requests are given up or the
\* process restarts, the marker is in the zone before the record is created
\* and until the record is gone, and an unmarked record is never touched
\* (ApplyChanges' order of writes and the two queues).
Contract == INSTANCE OwnershipContract WITH st <- [p \in Owned |-> Status(zone, p)]
ContractSpec == Contract!Spec

\* A cached snapshot is the zone: Records never answers from a snapshot taken
\* before or during a batch (operationMu and the invalidations).
CacheCoherent == \A snapshot \in cache : snapshot = zone

\* What a batch or a drain decides upon is the zone as it is.
IndexFresh == \A t \in Threads : pc[t] \in {"drain", "work"} /\ ~DryRun => idx[t] = zone

Orphan(z, p) == Marked(z, p) /\ ~Live(z, p)

Mixed(z, p) == \E v, w \in Contents(z, "marker", p) : v # w

\* Records fails closed: until a restart loses the queues, an answer never shows
\* a marker whose record is gone, which the registry would drop, nor two owner
\* values of one record.
RecordsFailClosed ==
    crashes = 0 => \A t \in Threads :
        pc[t] = "reply" /\ op[t] = "records" /\ ~failed[t]
            => \A p \in Owned : ~Orphan(idx[t], p) /\ ~Mixed(idx[t], p)

\* While no call holds the mutex, every orphaned or mixed marker a failed batch
\* of this process left behind is in a queue, under the value it has in the zone.
DamageQueued ==
    operationMu = NoThread /\ crashes = 0 =>
        \A p \in Owned :
            /\ Orphan(zone, p) =>
                  \A v \in Contents(zone, "marker", p) :
                      \/ \E cl \in pendingCleanups : cl.of = p /\ cl.valOld = v
                      \/ \E rp \in pendingRepairs : rp.of = p /\ v \in {rp.valOld, rp.valNew}
            /\ Mixed(zone, p) =>
                  \E rp \in pendingRepairs :
                      rp.of = p /\ Contents(zone, "marker", p) \subseteq {rp.valOld, rp.valNew}

\* Each content of cs is there exactly once, with the attributes attr.
Once(z, kind, p, cs, attr) ==
    \A c \in cs : \E r \in z : r.attr = attr /\ Match(z, kind, p, {c}) = {r}

\* The marker of an update is as wanted.  Of the two owner values a restart
\* may have left on a record an update only replaces the one it was told of.
MarkerSet(ch, z) ==
    /\ Once(z, "marker", ch.of, {ch.valNew}, MarkerAttr)
    /\ crashes = 0 => Contents(z, "marker", ch.of) = {ch.valNew}

Achieved(s, z) ==
    LET ch == s.ch
    IN  CASE s.do = "delPrimary" ->
                 /\ Match(z, "primary", ch.of, ch.old) = {}
                 /\ Registry => Match(z, "marker", ch.of, {ch.valOld}) = {}
          [] s.do \in {"updMarker", "updPrimary"} ->
                 /\ Contents(z, "primary", ch.of) = ch.new
                 /\ Once(z, "primary", ch.of, ch.new, ch.attr)
                 /\ Registry => MarkerSet(ch, z)
          [] s.do = "newMarker" -> Once(z, "marker", ch.of, {ch.valNew}, MarkerAttr)
          [] s.do = "newPrimary" -> Once(z, "primary", ch.of, ch.new, ch.attr)

\* A batch that ends without an error has done all of it: nothing it deletes
\* is left, everything it creates or updates is there exactly once with the
\* wanted attributes, whatever duplicates the zone had.
AppliedWhenDone ==
    \A t \in Threads :
        pc[t] = "work" /\ plan[t] = {} /\ cur[t] = {} => \A s \in ask[t] : Achieved(s, idx[t])

\* While an update is under way, a target that was live and is still wanted
\* never leaves the zone, whichever of its duplicates is kept.
KeptTargets ==
    [][\A t \in Threads : \A s \in cur[t] :
          s.do = "updPrimary" =>
              Contents(zone, "primary", s.ch.of) \cap s.ch.new \subseteq Contents(zone', "primary", s.ch.of)]_vars

\* Whatever calls the steps of a batch come to, each of them passes one of the
\* places that ask p.dryRun: a dry run writes nothing, and no failed write
\* leaves ownership work to later requests.
DryRunReadOnly == [][zone' = zone /\ pendingCleanups' \cup pendingRepairs' = {}]_vars

\* Queued ownership work is done in the end, once calls stop failing: the
\* next Records of the controller or of the probe drains it.
PendingDrained == pendingCleanups \cup pendingRepairs # {} ~> pendingCleanups \cup pendingRepairs = {}

\* Once the sources stop changing and calls stop failing, the zone comes to
\* hold what they want of every identity it may manage, and stays so.
Matches(p) ==
    \/ Live(zone, p) /\ ~ManagedBy(zone, p)
    \/ desired[p].targets = {} /\ ~Live(zone, p) /\ ~Marked(zone, p)
    \/ desired[p].targets # {} /\ Exact(zone, p, desired[p])

Converged == <>[](\A p \in Owned : Matches(p))

\* After a restart lost the queues and whatever was under way, what the sources
\* want comes back all the same, its marker the one that is there already.
Restored ==
    <>[](\A p \in Owned :
            desired[p].targets # {} => Exact(zone, p, desired[p]) \/ (Live(zone, p) /\ ~Marked(zone, p)))
===============================================================================
