--------------------------- MODULE FailClosedProofs ---------------------------
(***************************************************************************)
(* No damage is forgotten, for every zone, every number of identities and  *)
(* requests and every pattern of failed calls: until a restart, a marker   *)
(* without its record and two owner values of one record are either at     *)
(* the step under way or in a queue (WholeInv), so Records never answers   *)
(* with one.  And a batch that ends without an error has done all of it    *)
(* (AppliedInv).                                                           *)
(***************************************************************************)
EXTENDS OwnershipProofs

USE DEF Held, Threads, memory, locals, controller, bounds

Vals(z, p) == Contents(z, "marker", p)

(***************************************************************************)
(* Damage and the calls of a step                                          *)
(***************************************************************************)
\* An identity with at most one owner value is not mixed, and one that is not
\* mixed has no other value than any it has.
LEMMA OneValue ==
    ASSUME NEW z, NEW p
    PROVE  /\ \A v : Vals(z, p) \subseteq {v} => ~Mixed(z, p)
           /\ ~Mixed(z, p) => \A v \in Vals(z, p) : Vals(z, p) \subseteq {v}
           /\ Marked(z, p) <=> Vals(z, p) # {}
BY DEF Vals, Mixed, Marked, Contents

\* What a call of a step does to the owner values and the records of its own
\* identity.
LEMMA CallMarkers ==
    ASSUME NEW s \in Steps, NEW z \in SUBSET Records, NEW i \in Ids,
           NEW call \in Calls(Task(s), z, i), NEW y, y = Effect(z, call)
    PROVE  /\ s.do \in {"delPrimary", "updPrimary", "newPrimary"} => Vals(y, s.ch.of) = Vals(z, s.ch.of)
           /\ s.do \in {"delMarker", "repDelOld", "repDelNew", "clean"} => Vals(y, s.ch.of) \subseteq Vals(z, s.ch.of)
           /\ s.do \in {"updMarker", "repEdit", "newMarker", "repConverge"} =>
                 Vals(y, s.ch.of) \subseteq Vals(z, s.ch.of) \cup {s.ch.valNew}
           /\ s.do \notin {"delPrimary", "updPrimary", "newPrimary"} => (Live(y, s.ch.of) <=> Live(z, s.ch.of))
           /\ s.do = "newPrimary" => Live(y, s.ch.of)
<1> DEFINE p == s.ch.of
<1>1. y \in SUBSET Records /\ \A r \in Records : r.of # p \/ r.kind # Task(s).kind => (r \in y <=> r \in z)
  BY CallLocal
<1>2. TaskOK(Task(s)) /\ Task(s).of = p
  BY TaskFacts
<1>3. \A r \in y : r \in z \/ (r \in call.put /\ r.content \in Task(s).keep)
  BY <1>2, CallShape DEF Effect
<1>4. ASSUME s.do \in {"delPrimary", "updPrimary", "newPrimary"} PROVE Vals(y, p) = Vals(z, p)
  <2>1. Task(s).kind = "primary"
    BY <1>4, TaskFacts
  <2> QED BY <1>1, <2>1 DEF Vals, Contents
<1>5. ASSUME s.do \in {"delMarker", "repDelOld", "repDelNew", "clean"} PROVE Vals(y, p) \subseteq Vals(z, p)
  <2>1. Task(s).keep = {}
    BY <1>5, TaskFacts
  <2> QED BY <1>3, <2>1 DEF Vals, Contents
<1>6. ASSUME s.do \in {"updMarker", "repEdit", "newMarker", "repConverge"}
      PROVE  Vals(y, p) \subseteq Vals(z, p) \cup {s.ch.valNew}
  <2>1. Task(s).keep = {s.ch.valNew}
    BY <1>6, TaskFacts
  <2> QED BY <1>3, <2>1 DEF Vals, Contents
<1>7. ASSUME s.do \notin {"delPrimary", "updPrimary", "newPrimary"} PROVE Live(y, p) <=> Live(z, p)
  <2>1. Task(s).kind = "marker"
    BY <1>7, TaskFacts
  <2> QED BY <1>1, <2>1 DEF Live
<1>8. ASSUME s.do = "newPrimary" PROVE Live(y, p)
  <2>1. Task(s).kind = "primary" /\ Task(s).drop = {}
    BY <1>8 DEF Task, TaskRec
  <2>2. Match(z, Task(s).kind, Task(s).of, Task(s).drop) = {}
    BY <2>1 DEF Match
  <2>3. \E r \in Effect(z, call) : r.kind = Task(s).kind /\ r.of = Task(s).of
    BY <1>2, <2>2, ConvergeKeepsOne
  <2> QED BY <1>2, <2>1, <2>3 DEF Live
<1> QED BY <1>4, <1>5, <1>6, <1>7, <1>8

\* The damage of the other identities stays as it is.
LEMMA DamageElsewhere ==
    ASSUME NEW s \in Steps, NEW z \in SUBSET Records, NEW i \in Ids,
           NEW call \in Calls(Task(s), z, i), NEW y, y = Effect(z, call), NEW p, p # s.ch.of
    PROVE  /\ Vals(y, p) = Vals(z, p)
           /\ Live(y, p) <=> Live(z, p)
           /\ Orphan(y, p) <=> Orphan(z, p)
           /\ Mixed(y, p) <=> Mixed(z, p)
<1>1. Vals(y, p) = Vals(z, p)
  <2>1. y \in SUBSET Records /\ \A r \in Records : r.of # s.ch.of => (r \in y <=> r \in z)
    BY CallLocal
  <2> QED BY <2>1 DEF Vals, Contents
<1>2. (Live(y, p) <=> Live(z, p)) /\ (Marked(y, p) <=> Marked(z, p))
  BY CallElsewhere
<1> QED BY <1>1, <1>2 DEF Vals, Orphan, Mixed

\* A marker create that finds no marker at its identity creates one, and its
\* rollback is noted.
LEMMA CreateTried ==
    ASSUME NEW s \in Steps, s.do = "newMarker", NEW z \in SUBSET Records, NEW i \in Ids,
           NEW call \in Calls(Task(s), z, i), ~Marked(z, s.ch.of)
    PROVE  \E cl \in Tried(s, call) : cl.of = s.ch.of
<1>1. TaskOK(Task(s)) /\ Task(s).of = s.ch.of /\ Task(s).kind = "marker"
  BY TaskFacts
<1>2. call.cut = {}
  <2>1. \A r \in call.cut : r \in z /\ r.kind = Task(s).kind /\ r.of = Task(s).of
    BY <1>1, CallShape
  <2> QED BY <1>1, <2>1 DEF Marked
<1>3. Cleanup(s.ch, s.ch.valNew, s.ch.prot).of = s.ch.of
  BY DEF Cleanup, Steps, Changes
<1> QED BY <1>2, <1>3 DEF Tried

\* What the endpoint operation of a batch step has reached at its end.
LEMMA DoneMarkers ==
    ASSUME NEW s \in Steps, NEW z \in SUBSET Records, Done(Task(s), z)
    PROVE  /\ s.do \in {"delMarker", "clean"} => s.ch.valOld \notin Vals(z, s.ch.of)
           /\ s.do \in {"updMarker", "repEdit"} /\ s.ch.valOld # s.ch.valNew => s.ch.valOld \notin Vals(z, s.ch.of)
           /\ s.do \in {"updPrimary", "newPrimary"} /\ s.ch.new # {} => Live(z, s.ch.of)
<1>1. /\ \A r \in z : r.kind = Task(s).kind /\ r.of = Task(s).of => r.content \notin Task(s).drop \cup Task(s).move
      /\ \A c \in Task(s).keep : \E r \in z : r.kind = Task(s).kind /\ r.of = Task(s).of /\ r.content = c
  BY DEF Done, Open, Settled, Match
<1>2. CASE s.do \in {"delMarker", "clean"}
  <2>1. Task(s).kind = "marker" /\ Task(s).of = s.ch.of /\ Task(s).drop = {s.ch.valOld}
    BY <1>2 DEF Task, TaskRec
  <2> QED BY <1>1, <1>2, <2>1 DEF Vals, Contents
<1>3. CASE s.do \in {"updMarker", "repEdit"}
  <2>1. Task(s).kind = "marker" /\ Task(s).of = s.ch.of /\ Task(s).move = {s.ch.valOld} \ {s.ch.valNew}
    BY <1>3 DEF Task, TaskRec
  <2> QED BY <1>1, <1>3, <2>1 DEF Vals, Contents
<1>4. CASE s.do \in {"updPrimary", "newPrimary"}
  <2>1. Task(s).kind = "primary" /\ Task(s).of = s.ch.of /\ Task(s).keep = s.ch.new
    BY <1>4 DEF Task, TaskRec
  <2> QED BY <1>1, <1>4, <2>1 DEF Live
<1> QED BY <1>2, <1>3, <1>4

(***************************************************************************)
(* A batch under way shelters its damage                                   *)
(***************************************************************************)
\* A batch planned from a whole zone knows what it is about to damage.
LEMMA BatchSheltered ==
    ASSUME Registry, NEW v \in SUBSET Records, NEW want \in [Owned -> Wants], \A p \in Owned : Whole(v, p)
    PROVE  Sheltered(v, {}, Batch(v, want), {})
<1> DEFINE gone    == {p \in Owned : ManagedBy(v, p) /\ want[p].targets = {}}
           changed == {p \in Owned : /\ ManagedBy(v, p)
                                     /\ want[p].targets # {}
                                     /\ ~Exact(v, p, want[p])}
           created == {p \in Owned : ~Live(v, p) /\ want[p].targets # {}}
           change(p) == ChangeOf(v, p, want[p], {p})
           create(p) == ChangeOf(v, p, want[p], Protected(v, created, p))
           Gone(s) == \E p \in gone : s = [do |-> "delPrimary", ch |-> change(p)]
           Changed(s) == \E p \in changed : s = [do |-> "updMarker", ch |-> change(p)]
           Marker(s) == \E p \in created : ~Marked(v, p) /\ s = [do |-> "newMarker", ch |-> create(p)]
           Primary(s) == \E p \in created : s = [do |-> "newPrimary", ch |-> create(p)]
<1>1. \A s \in Batch(v, want) : Gone(s) \/ Changed(s) \/ Marker(s) \/ Primary(s)
  BY DEF Batch
<1>2. \A p \in created : [do |-> "newPrimary", ch |-> create(p)] \in Batch(v, want)
  BY DEF Batch
<1>3. ASSUME NEW p \in Owned, Marked(v, p) PROVE Vals(v, p) \subseteq {change(p).valOld}
  <2>1. Vals(v, p) # {} /\ ~Mixed(v, p)
    BY <1>3, OneValue DEF Whole
  <2>2. Vals(v, p) \in SUBSET Nat
    BY ZoneAssumption DEF Vals, Contents, Records
  <2>3. Least(Vals(v, p)) \in Vals(v, p)
    BY <2>1, <2>2, LeastIn
  <2>4. change(p).valOld = Least(Vals(v, p))
    BY <2>1 DEF ChangeOf, Vals
  <2> QED BY <2>1, <2>3, <2>4, OneValue
<1>4. \A p \in created : ~Marked(v, p) /\ Protected(v, created, p) = {p}
  BY DEF Whole, Orphan, Protected
<1>5. \A p \in Owned : /\ change(p).of = p /\ change(p).new = want[p].targets
                       /\ create(p).of = p /\ create(p).new = want[p].targets
                       /\ create(p).prot = Protected(v, created, p)
  BY DEF ChangeOf
<1>6. \A p \in gone \cup changed : Live(v, p) /\ Marked(v, p)
  BY DEF ManagedBy
<1>7. \A p \in changed \cup created : want[p].targets # {}
  OBVIOUS
<1>8. gone \subseteq Owned /\ changed \subseteq Owned /\ created \subseteq Owned
  OBVIOUS
<1> HIDE DEF gone, changed, created, change, create
<1>9. ASSUME NEW s \in Batch(v, want) PROVE Known(v, s)
  <2>1. CASE Gone(s)
    BY <2>1, <1>3, <1>5, <1>6, <1>8 DEF Known, Vals
  <2>2. CASE Changed(s)
    BY <2>2, <1>3, <1>5, <1>6, <1>7, <1>8 DEF Known, Vals
  <2>3. CASE Marker(s)
    <3>1. PICK p \in created : s = [do |-> "newMarker", ch |-> create(p)]
      BY <2>3
    <3>2. s.do = "newMarker" /\ s.ch.of = p /\ s.ch.prot = {p}
      BY <3>1, <1>4, <1>5, <1>8
    <3>3. Vals(v, p) = {}
      BY <1>4, OneValue
    <3> QED BY <3>2, <3>3 DEF Known, Vals
  <2>4. CASE Primary(s)
    BY <2>4, <1>5, <1>7, <1>8 DEF Known
  <2> QED BY <1>1, <2>1, <2>2, <2>3, <2>4
<1>10. InOrder({}, Batch(v, want))
  <2>1. Apart(Batch(v, want))
    BY BatchFit DEF BatchFits
  <2>2. ASSUME NEW s \in Batch(v, want), s.do = "newMarker"
        PROVE  \E q \in Batch(v, want) : q.do = "newPrimary" /\ q.ch.of = s.ch.of
    <3>1. PICK p \in created : s = [do |-> "newMarker", ch |-> create(p)]
      BY <1>1, <2>2
    <3> DEFINE q == [do |-> "newPrimary", ch |-> create(p)]
    <3>2. q \in Batch(v, want) /\ q.do = "newPrimary" /\ q.ch.of = s.ch.of
      BY <1>2, <3>1
    <3> QED BY <3>2
  <2> QED BY <2>1, <2>2 DEF InOrder
<1>11. DamageKnown(v, {}, {})
  BY DEF DamageKnown, Whole
<1> QED BY <1>9, <1>10, <1>11 DEF Sheltered, TriedKnown

\* The next step begins: deletes and updates first, then markers, then records.
LEMMA PickSheltered ==
    ASSUME NEW z, NEW later, NEW tried, Sheltered(z, {}, later, tried),
           NEW s \in later, \A q \in later : Rank(s) <= Rank(q) /\ q.do \in BatchDos \ {"delMarker"}
    PROVE  Sheltered(z, {s}, later \ {s}, tried)
<1>1. (later \ {s}) \cup {s} = later \cup {}
  OBVIOUS
<1>2. \A q \in later : s.do \in Creates => q.do \in Creates
  BY DEF Rank, Creates, BatchDos
<1>3. ASSUME NEW q \in later, q.do = "newMarker"
      PROVE  \E r \in later \ {s} : r.do = "newPrimary" /\ r.ch.of = q.ch.of
  <2>1. PICK r \in later : r.do = "newPrimary" /\ r.ch.of = q.ch.of
    BY <1>3 DEF Sheltered, InOrder
  <2>2. r # s
    BY <1>3, <2>1 DEF Rank
  <2> QED BY <2>1, <2>2
<1>4. InOrder({s}, later \ {s})
  <2>1. Apart(later \cup {})
    BY DEF Sheltered, InOrder
  <2> QED BY <1>1, <1>2, <1>3, <2>1 DEF InOrder
<1>5. DamageKnown(z, {s}, tried)
  BY DEF Sheltered, DamageKnown
<1> QED BY <1>1, <1>4, <1>5 DEF Sheltered

\* The marker a create is about to make is known before its call is sent.
LEMMA TriedSheltered ==
    ASSUME NEW s \in Steps, NEW z, NEW later, NEW tried, NEW call,
           Sheltered(z, {s}, later, tried)
    PROVE  Sheltered(z, {s}, later, tried \cup Tried(s, call))
<1> DEFINE all == tried \cup Tried(s, call)
<1>1. CASE Tried(s, call) = {}
  <2>1. all = tried
    BY <1>1
  <2> QED BY <2>1
<1>2. CASE Tried(s, call) # {}
  <2> DEFINE cl == Cleanup(s.ch, s.ch.valNew, s.ch.prot)
  <2>1. s.do = "newMarker" /\ all = tried \cup {cl}
    BY <1>2 DEF Tried
  <2>2. cl.of = s.ch.of /\ cl.prot = s.ch.prot /\ cl.valOld = s.ch.valNew
    BY DEF Cleanup, Steps, Changes
  <2>3. InOrder({s}, later) /\ Known(z, s) /\ TriedKnown(z, later \cup {s}, tried) /\ DamageKnown(z, {s}, tried)
    BY DEF Sheltered
  <2>4. \A q \in later \cup {s} : q.do \in Creates
    BY <2>1, <2>3 DEF InOrder, Creates
  <2>5. \A q \in later \cup {s} : q.do = "newMarker" /\ q.ch.of = s.ch.of => q = s
    BY <2>1, <2>3 DEF InOrder, Apart
  <2>6. \E q \in later \cup {s} : q.do = "newPrimary" /\ q.ch.of = s.ch.of
    BY <2>1, <2>3 DEF InOrder
  <2>7. cl.prot = {cl.of} /\ Vals(z, cl.of) \subseteq {cl.valOld}
    BY <2>1, <2>2, <2>3 DEF Known, Vals
  <2> HIDE DEF cl
  <2>8. TriedKnown(z, later \cup {s}, all)
    BY <2>1, <2>2, <2>3, <2>4, <2>5, <2>6, <2>7 DEF TriedKnown, Vals
  <2>9. DamageKnown(z, {s}, all)
    BY <2>1, <2>3 DEF DamageKnown
  <2> QED BY <2>8, <2>9 DEF Sheltered
<1> QED BY <1>1, <1>2

\* What the other steps of a batch count on survives a call of the one under way.
LEMMA CallKnown ==
    ASSUME NEW s \in Steps, s.do \in BatchDos, NEW z \in SUBSET Records, NEW i \in Ids,
           NEW call \in Calls(Task(s), z, i), NEW y, y = Effect(z, call),
           NEW later, InOrder({s}, later), Known(z, s), NEW q \in later \cup {s}, Known(z, q)
    PROVE  Known(y, q)
<1>1. CASE q.ch.of # s.ch.of
  <2>1. Vals(y, q.ch.of) = Vals(z, q.ch.of) /\ (Live(y, q.ch.of) <=> Live(z, q.ch.of))
    BY <1>1, DamageElsewhere
  <2> QED BY <2>1 DEF Known, Vals
<1>2. CASE q = s
  BY <1>2, CallMarkers DEF Known, Vals
<1>3. CASE q # s /\ q.ch.of = s.ch.of
  <2>1. {q.do, s.do} = {"newMarker", "newPrimary"}
    BY <1>3 DEF InOrder, Apart
  <2> QED BY <1>3, <2>1, CallMarkers DEF Known, Vals
<1> QED BY <1>1, <1>2, <1>3

\* A call whose rollback is noted, should it need one, leaves no damage that
\* is not known.
LEMMA CallSheltered ==
    ASSUME NEW s \in Steps, s.do \in BatchDos, NEW z \in SUBSET Records, NEW i \in Ids,
           NEW call \in Calls(Task(s), z, i), NEW y, y = Effect(z, call),
           NEW later, NEW tried, Tried(s, call) \subseteq tried, Sheltered(z, {s}, later, tried)
    PROVE  Sheltered(y, {s}, later, tried)
<1> DEFINE p == s.ch.of
<1>1. /\ InOrder({s}, later) /\ \A q \in later \cup {s} : Known(z, q)
      /\ TriedKnown(z, later \cup {s}, tried) /\ DamageKnown(z, {s}, tried)
  BY DEF Sheltered
<1>2. Known(z, s)
  BY <1>1
<1>3. \A q \in later \cup {s} : Known(y, q)
  BY <1>1, <1>2, CallKnown
<1>4. ASSUME NEW cl \in tried
      PROVE  /\ Vals(y, cl.of) \subseteq {cl.valOld}
             /\ Live(y, cl.of) \/ \E q \in later \cup {s} : q.do = "newPrimary" /\ q.ch.of = cl.of
  <2>1. /\ Vals(z, cl.of) \subseteq {cl.valOld}
        /\ s.do = "newMarker" /\ p = cl.of => s.ch.valNew = cl.valOld
        /\ Live(z, cl.of) \/ \E q \in later \cup {s} : q.do = "newPrimary" /\ q.ch.of = cl.of
        /\ s.do \in Creates
    BY <1>1 DEF TriedKnown, Vals
  <2>2. CASE cl.of # p
    BY <2>1, <2>2, DamageElsewhere
  <2>3. CASE cl.of = p /\ s.do = "newMarker"
    BY <2>1, <2>3, CallMarkers
  <2>4. CASE cl.of = p /\ s.do = "newPrimary"
    BY <2>1, <2>4, CallMarkers
  <2> QED BY <2>1, <2>2, <2>3, <2>4 DEF Creates
<1>5. TriedKnown(y, later \cup {s}, tried)
  BY <1>1, <1>4 DEF TriedKnown, Vals
<1>6. ASSUME Orphan(y, p)
      PROVE  s.do \in {"delPrimary", "delMarker", "updPrimary"} \/ \E cl \in tried : cl.of = p
  <2>1. CASE s.do = "updMarker"
    BY <1>3, <1>6, <2>1 DEF Known, Orphan
  <2>2. CASE s.do = "newPrimary"
    BY <1>6, <2>2, CallMarkers DEF Orphan
  <2>3. CASE s.do = "newMarker"
    <3>1. CASE Marked(z, p)
      <4>1. Orphan(z, p) /\ p \in Owned
        BY <1>6, <2>3, <3>1, CallMarkers DEF Orphan, Steps, Changes
      <4> QED BY <1>1, <2>3, <4>1 DEF DamageKnown
    <3>2. CASE ~Marked(z, p)
      BY <2>3, <3>2, CreateTried
    <3> QED BY <3>1, <3>2
  <2> QED BY <2>1, <2>2, <2>3 DEF BatchDos
<1>7. ASSUME Mixed(y, p) PROVE s.do = "updMarker"
  <2>1. CASE s.do \in {"delPrimary", "delMarker", "updPrimary", "newMarker"}
    <3>1. \E v : Vals(y, p) \subseteq {v}
      BY <1>3, <2>1 DEF Known, Vals
    <3> QED BY <1>7, <3>1, OneValue
  <2>2. CASE s.do = "newPrimary"
    <3>1. Vals(y, p) = Vals(z, p) /\ p \in Owned
      BY <2>2, CallMarkers DEF Steps, Changes
    <3>2. Mixed(z, p)
      BY <1>7, <3>1 DEF Mixed, Vals
    <3> QED BY <1>1, <3>1, <3>2 DEF DamageKnown
  <2> QED BY <2>1, <2>2 DEF BatchDos
<1>8. DamageKnown(y, {s}, tried)
  <2>1. ASSUME NEW r \in Owned, r # p
        PROVE  (Orphan(y, r) <=> Orphan(z, r)) /\ (Mixed(y, r) <=> Mixed(z, r))
    BY <2>1, DamageElsewhere
  <2>2. ASSUME NEW r \in Owned
        PROVE  /\ Orphan(y, r) =>
                     \/ \E q \in {s} : q.ch.of = r /\ q.do \in {"delPrimary", "delMarker", "updPrimary"}
                     \/ \E cl \in tried : cl.of = r
               /\ Mixed(y, r) => \E q \in {s} : q.ch.of = r /\ q.do = "updMarker"
    <3>1. CASE r = p
      BY <1>6, <1>7, <3>1
    <3>2. CASE r # p
      BY <1>1, <2>1, <3>2 DEF DamageKnown
    <3> QED BY <3>1, <3>2
  <2> QED BY <2>2 DEF DamageKnown
<1> QED BY <1>1, <1>3, <1>5, <1>8 DEF Sheltered

\* A step is done: its second half begins, knowing what the first has left.
LEMMA DoneSheltered ==
    ASSUME Registry, NEW s \in Steps, s.do \in BatchDos, NEW z \in SUBSET Records, Done(Task(s), z),
           NEW later, NEW tried, Sheltered(z, {s}, later, tried)
    PROVE  Sheltered(z, After(s), later, tried)
<1>1. /\ InOrder({s}, later) /\ \A q \in later \cup {s} : Known(z, q)
      /\ TriedKnown(z, later \cup {s}, tried) /\ DamageKnown(z, {s}, tried)
  BY DEF Sheltered
<1>2. \A q \in After(s) :
         /\ q.ch = s.ch
         /\ \/ s.do = "delPrimary" /\ q.do = "delMarker"
            \/ s.do = "updMarker" /\ q.do = "updPrimary"
  BY DEF After, BatchDos, Steps
<1>3. \A q, r \in After(s) : q = r
  BY AfterOne
<1>4. \A q \in After(s), r \in later : q.ch.of # r.ch.of
  BY <1>1, <1>2 DEF InOrder, Apart
<1>5. Apart(later \cup {s}) /\ Apart(later \cup After(s))
  BY <1>1, <1>3, <1>4 DEF InOrder, Apart
<1>6. InOrder(After(s), later)
  BY <1>1, <1>2, <1>4, <1>5 DEF InOrder, Creates
<1>7. \A q \in later \cup After(s) : Known(z, q)
  BY <1>1, <1>2, DoneMarkers DEF Known, Vals
<1>8. TriedKnown(z, later \cup After(s), tried)
  <2>1. CASE tried = {}
    BY <2>1 DEF TriedKnown
  <2>2. CASE tried # {}
    <3>1. s.do \in Creates /\ After(s) = {}
      BY <1>1, <1>2, <2>2 DEF TriedKnown, Creates
    <3>2. ASSUME NEW cl \in tried
          PROVE  Live(z, cl.of) \/ \E q \in later : q.do = "newPrimary" /\ q.ch.of = cl.of
      <4>1. Live(z, cl.of) \/ \E q \in later \cup {s} : q.do = "newPrimary" /\ q.ch.of = cl.of
        BY <1>1 DEF TriedKnown
      <4>2. s.do = "newPrimary" => Live(z, s.ch.of)
        BY <1>1, DoneMarkers DEF Known
      <4> QED BY <4>1, <4>2
    <3> QED BY <1>1, <3>1, <3>2 DEF TriedKnown
  <2> QED BY <2>1, <2>2
<1>9. DamageKnown(z, After(s), tried)
  <2>1. s.do = "delMarker" => ~Marked(z, s.ch.of)
    BY <1>1, DoneMarkers, OneValue DEF Known, Vals
  <2>2. s.do = "updPrimary" => Live(z, s.ch.of)
    BY <1>1, DoneMarkers DEF Known
  <2>3. s.do = "updMarker" => ~Mixed(z, s.ch.of)
    <3>1. s.do = "updMarker" => Vals(z, s.ch.of) \subseteq {s.ch.valNew}
      BY <1>1, DoneMarkers DEF Known, Vals
    <3> QED BY <3>1, OneValue
  <2>4. s.do = "delPrimary" => \E q \in After(s) : q.do = "delMarker" /\ q.ch.of = s.ch.of
    BY DEF After, Steps
  <2> QED BY <1>1, <2>1, <2>2, <2>3, <2>4 DEF DamageKnown, Orphan
<1> QED BY <1>6, <1>7, <1>8, <1>9 DEF Sheltered

\* A batch that has done everything leaves a whole zone.
LEMMA EndWhole ==
    ASSUME NEW z, NEW tried, Sheltered(z, {}, {}, tried), NEW p \in Owned
    PROVE  Whole(z, p)
BY DEF Sheltered, DamageKnown, TriedKnown, Whole, Orphan

\* A failed step queues what the batch knows of its damage.
LEMMA ErrorQueued ==
    ASSUME Registry, ~DryRun, NEW s \in Steps, s.do \in BatchDos, NEW z, NEW later, NEW tried,
           Sheltered(z, {s}, later, tried)
    PROVE  Queued(z, LeftCleanups(s, tried), LeftRepairs(s))
<1>1. Known(z, s) /\ TriedKnown(z, later \cup {s}, tried) /\ DamageKnown(z, {s}, tried)
  BY DEF Sheltered
<1>2. \A v : LET x == Cleanup(s.ch, v, {s.ch.of}) IN x.of = s.ch.of /\ x.prot = {s.ch.of} /\ x.valOld = v
  BY DEF Cleanup, Steps, Changes
<1>3. LET x == Repair(s.ch)
      IN  x.of = s.ch.of /\ x.prot = {s.ch.of} /\ x.valOld = s.ch.valOld /\ x.valNew = s.ch.valNew
  BY DEF Repair, Steps, Changes
<1>4. s.do \notin Creates => tried = {}
  BY <1>1 DEF TriedKnown
<1>5. CASE s.do \in {"delPrimary", "delMarker"}
  <2>1. LeftRepairs(s) = {} /\ LeftCleanups(s, tried) = {Cleanup(s.ch, s.ch.valOld, {s.ch.of})}
    BY <1>5 DEF LeftRepairs, LeftCleanups
  <2>2. tried = {}
    BY <1>4, <1>5 DEF Creates
  <2> DEFINE cl == Cleanup(s.ch, s.ch.valOld, {s.ch.of})
  <2>3. cl.prot = {cl.of} /\ cl.of = s.ch.of /\ Vals(z, cl.of) \subseteq {cl.valOld}
    BY <1>1, <1>2, <1>5 DEF Known, Vals
  <2>4. LeftRepairs(s) = {} /\ LeftCleanups(s, tried) = {cl}
    BY <2>1
  <2> HIDE DEF cl
  <2> QED BY <1>1, <1>5, <2>2, <2>3, <2>4 DEF Queued, DamageKnown, Vals
<1>6. CASE s.do = "updPrimary"
  <2>1. LeftRepairs(s) = {} /\ LeftCleanups(s, tried) = {Cleanup(s.ch, s.ch.valNew, {s.ch.of})}
    BY <1>6 DEF LeftRepairs, LeftCleanups
  <2>2. tried = {}
    BY <1>4, <1>6 DEF Creates
  <2> DEFINE cl == Cleanup(s.ch, s.ch.valNew, {s.ch.of})
  <2>3. cl.prot = {cl.of} /\ cl.of = s.ch.of /\ Vals(z, cl.of) \subseteq {cl.valOld}
    BY <1>1, <1>2, <1>6 DEF Known, Vals
  <2>4. LeftRepairs(s) = {} /\ LeftCleanups(s, tried) = {cl}
    BY <2>1
  <2> HIDE DEF cl
  <2> QED BY <1>1, <1>6, <2>2, <2>3, <2>4 DEF Queued, DamageKnown, Vals
<1>7. CASE s.do = "updMarker"
  <2>1. LeftRepairs(s) = {Repair(s.ch)} /\ LeftCleanups(s, tried) = {}
    BY <1>7 DEF LeftRepairs, LeftCleanups
  <2>2. tried = {}
    BY <1>4, <1>7 DEF Creates
  <2> QED BY <1>1, <1>3, <1>7, <2>1, <2>2 DEF Queued, Known, DamageKnown
<1>8. CASE s.do \in Creates
  <2>1. LeftRepairs(s) = {} /\ LeftCleanups(s, tried) = tried
    BY <1>8 DEF LeftRepairs, LeftCleanups, Creates
  <2> QED BY <1>1, <1>8, <2>1 DEF Queued, TriedKnown, DamageKnown, Creates
<1> QED BY <1>5, <1>6, <1>7, <1>8 DEF BatchDos, Creates

(***************************************************************************)
(* The drain takes no damage out of the queues before it is mended         *)
(***************************************************************************)
\* With nothing queued there is no damage.
LEMMA NothingQueuedWhole ==
    ASSUME NEW z
    PROVE  Queued(z, {}, {}) <=> \A p \in Owned : Whole(z, p)
BY DEF Queued, Whole

\* An item goes when its identity is not damaged any more.
LEMMA ItemDropped ==
    ASSUME NEW z, NEW cleanups, NEW repairs, Queued(z, cleanups, repairs)
    PROVE  /\ \A cl \in cleanups : ~Orphan(z, cl.of) => Queued(z, cleanups \ {cl}, repairs)
           /\ \A rp \in repairs : ~Mixed(z, rp.of) => Queued(z, cleanups, repairs \ {rp})
<1>1. ASSUME NEW cl \in cleanups, ~Orphan(z, cl.of) PROVE Queued(z, cleanups \ {cl}, repairs)
  <2>1. \A p \in Owned : Orphan(z, p) => \E x \in cleanups \ {cl} : x.of = p
    BY <1>1 DEF Queued
  <2> QED BY <2>1 DEF Queued
<1>2. ASSUME NEW rp \in repairs, ~Mixed(z, rp.of) PROVE Queued(z, cleanups, repairs \ {rp})
  <2>1. \A p \in Owned : Mixed(z, p) => \E x \in repairs \ {rp} : x.of = p
    BY <1>2 DEF Queued
  <2> QED BY <2>1 DEF Queued
<1> QED BY <1>1, <1>2

\* What reconcilePendingOwnershipRepair decides for a repair: nothing only when
\* its identity is not mixed, and to converge only when no other value is there.
LEMMA RepairDecides ==
    ASSUME NEW z, NEW cleanups, NEW repairs, Queued(z, cleanups, repairs), NEW rp \in repairs,
           z \in SUBSET Records
    PROVE  /\ RepairDos(rp, z) \subseteq {"repConverge", "repEdit"}
           /\ "repConverge" \in RepairDos(rp, z) => Vals(z, rp.of) \subseteq {rp.valNew}
           /\ RepairDos(rp, z) = {} => ~Mixed(z, rp.of)
<1>1. ProtectedRecordExists(z, rp.prot) /\ Vals(z, rp.of) \subseteq {rp.valOld, rp.valNew}
  BY DEF Queued, ProtectedRecordExists, Live, Vals
<1>2. \A v : Match(z, "marker", rp.of, {v}) = {} <=> v \notin Vals(z, rp.of)
  BY DEF Match, Vals, Contents
<1>3. RepairDos(rp, z) \subseteq {"repConverge", "repEdit"}
  BY <1>1 DEF RepairDos
<1>4. ASSUME "repConverge" \in RepairDos(rp, z) PROVE Vals(z, rp.of) \subseteq {rp.valNew}
  <2>1. rp.valOld = rp.valNew \/ rp.valOld \notin Vals(z, rp.of)
    BY <1>1, <1>2, <1>4 DEF RepairDos
  <2> QED BY <1>1, <2>1
<1>5. ASSUME RepairDos(rp, z) = {} PROVE ~Mixed(z, rp.of)
  <2>1. rp.valOld \notin Vals(z, rp.of) \/ rp.valNew \notin Vals(z, rp.of)
    BY <1>1, <1>2, <1>5 DEF RepairDos
  <2>2. \E v : Vals(z, rp.of) \subseteq {v}
    BY <1>1, <2>1
  <2> QED BY <2>2, OneValue
<1> QED BY <1>3, <1>4, <1>5

\* A call of the drain leaves all damage queued.
LEMMA DrainCallQueued ==
    ASSUME NEW s \in Steps, NEW z \in SUBSET Records, NEW i \in Ids,
           NEW call \in Calls(Task(s), z, i), NEW y, y = Effect(z, call),
           NEW cleanups, NEW repairs, Queued(z, cleanups, repairs),
           \/ s.do = "clean" /\ s.ch \in cleanups
           \/ s.do \in {"repConverge", "repEdit"} /\ s.ch \in repairs
    PROVE  Queued(y, cleanups, repairs)
<1> DEFINE p == s.ch.of
<1>1. p \in Owned /\ (Live(y, p) <=> Live(z, p))
  BY CallMarkers DEF Steps, Changes
<1>2. \A r : r # p => /\ Vals(y, r) = Vals(z, r)
                      /\ Live(y, r) <=> Live(z, r)
                      /\ Orphan(y, r) <=> Orphan(z, r)
                      /\ Mixed(y, r) <=> Mixed(z, r)
  BY DamageElsewhere
<1>3. CASE s.do = "clean" /\ s.ch \in cleanups
  <2>1. Vals(y, p) \subseteq Vals(z, p) /\ repairs = {}
    BY <1>3, CallMarkers DEF Queued
  <2>2. (Orphan(y, p) => Orphan(z, p)) /\ (Mixed(y, p) => Mixed(z, p))
    BY <1>1, <2>1, OneValue DEF Orphan, Mixed, Vals
  <2>3. \A cl \in cleanups : Vals(y, cl.of) \subseteq {cl.valOld}
    BY <1>2, <2>1 DEF Queued, Vals
  <2>4. \A r \in Owned : (Orphan(y, r) => Orphan(z, r)) /\ (Mixed(y, r) => Mixed(z, r))
    BY <1>2, <2>2
  <2> QED BY <2>1, <2>3, <2>4 DEF Queued, Vals
<1>4. CASE s.do \in {"repConverge", "repEdit"} /\ s.ch \in repairs
  <2>1. Vals(y, p) \subseteq Vals(z, p) \cup {s.ch.valNew} /\ cleanups = {}
    BY <1>4, CallMarkers DEF Queued
  <2>2. \A rp \in repairs : rp.of = p => rp = s.ch
    BY <1>4 DEF Queued
  <2>3. Vals(z, p) \subseteq {s.ch.valOld, s.ch.valNew} /\ Live(z, p)
    BY <1>4 DEF Queued, Vals
  <2>4. \A rp \in repairs : Vals(y, rp.of) \subseteq {rp.valOld, rp.valNew} /\ Live(y, rp.of)
    BY <1>1, <1>2, <2>1, <2>2, <2>3 DEF Queued, Vals
  <2>5. \A r \in Owned : Orphan(y, r) => FALSE
    BY <1>1, <1>2, <2>1, <2>3 DEF Queued, Orphan
  <2>6. \A r \in Owned : Mixed(y, r) => \E rp \in repairs : rp.of = r
    BY <1>2, <1>4 DEF Queued
  <2> QED BY <2>1, <2>4, <2>5, <2>6 DEF Queued, Vals
<1> QED BY <1>3, <1>4

\* A cleanup or a repair is done when its identity is whole.
LEMMA DrainDone ==
    ASSUME NEW s \in Steps, NEW z \in SUBSET Records, Done(Task(s), z),
           NEW cleanups, NEW repairs, Queued(z, cleanups, repairs)
    PROVE  /\ s.do = "clean" /\ s.ch \in cleanups => ~Orphan(z, s.ch.of)
           /\ s.do = "repEdit" /\ s.ch \in repairs => ~Mixed(z, s.ch.of)
           /\ s.do = "repConverge" /\ Vals(z, s.ch.of) \subseteq {s.ch.valNew} => ~Mixed(z, s.ch.of)
<1>1. ASSUME s.do = "clean", s.ch \in cleanups PROVE ~Orphan(z, s.ch.of)
  <2>1. Vals(z, s.ch.of) = {}
    BY <1>1, DoneMarkers DEF Queued, Vals
  <2> QED BY <2>1, OneValue DEF Orphan
<1>2. ASSUME s.do = "repEdit", s.ch \in repairs PROVE ~Mixed(z, s.ch.of)
  <2>1. Vals(z, s.ch.of) \subseteq {s.ch.valNew}
    BY <1>2, DoneMarkers DEF Queued, Vals
  <2> QED BY <2>1, OneValue
<1> QED BY <1>1, <1>2, OneValue

(***************************************************************************)
(* WholeInv is inductive                                                   *)
(***************************************************************************)
\* A program that starts on a whole zone starts with no damage to know of.
LEMMA WholeInit ==
    ASSUME WholeStart
    PROVE  Init => WholeInv
<1> SUFFICES ASSUME Init PROVE WholeInv
  OBVIOUS
<1>1. \A p \in Owned : Whole(zone, p)
  BY DEF Init, WholeStart
<1>2. DamageInQueues
  BY <1>1, NothingQueuedWhole DEF Init, DamageInQueues
<1> QED BY <1>2 DEF Init, WholeInv, DamageInBatch, AnswersWhole, DrainKnows

\* Steps that neither begin nor end a batch, a drain or an answer.
LEMMA WholeFrame ==
    ASSUME LockInv, WholeInv, crashes = 0,
           UNCHANGED <<zone, pendingCleanups, pendingRepairs, plan, cur, made>>,
           \A t \in Threads :
              /\ pc'[t] \in {"drain", "work"} <=> pc[t] \in {"drain", "work"}
              /\ pc'[t] \in {"drain", "work"} => pc'[t] = pc[t] /\ idx'[t] = idx[t]
              /\ pc'[t] = "reply" /\ op'[t] = "records" /\ ~failed'[t] =>
                    pc[t] = "reply" /\ op[t] = "records" /\ ~failed[t] /\ idx'[t] = idx[t]
    PROVE  WholeInv'
<1>1. DamageInQueues /\ DamageInBatch /\ AnswersWhole /\ DrainKnows
  BY DEF WholeInv
<1>2. DamageInQueues'
  BY <1>1 DEF DamageInQueues
<1>3. DamageInBatch'
  BY <1>1 DEF DamageInBatch
<1>4. AnswersWhole'
  BY <1>1 DEF AnswersWhole
<1>5. DrainKnows'
  BY <1>1 DEF DrainKnows
<1> QED BY <1>2, <1>3, <1>4, <1>5 DEF WholeInv

\* The call that holds the mutex goes on; the others are where they were.
LEMMA WholeOthers ==
    ASSUME LockInv, WholeInv, crashes = 0, NEW t \in Threads, pc[t] \in Held,
           DamageInQueues',
           \A u \in Threads : u # t => pc'[u] = pc[u] /\ op'[u] = op[u] /\ failed'[u] = failed[u] /\ idx'[u] = idx[u],
           pc'[t] = "work" => Sheltered(idx'[t], cur'[t], plan'[t], made'[t]),
           pc'[t] = "reply" /\ op'[t] = "records" /\ ~failed'[t] => \A p \in Owned : Whole(idx'[t], p),
           pc'[t] = "drain" => \A s \in cur'[t] :
              /\ s.do \in {"clean", "repConverge", "repEdit"}
              /\ s.do = "repConverge" => Vals(zone', s.ch.of) \subseteq {s.ch.valNew}
    PROVE  WholeInv'
<1>1. \A u \in Threads : u # t => pc'[u] \notin {"drain", "work"}
  BY OneHolder DEF LockInv
<1>2. AnswersWhole
  BY DEF WholeInv
<1>3. DamageInBatch'
  BY <1>1 DEF DamageInBatch
<1>4. AnswersWhole'
  BY <1>2 DEF AnswersWhole
<1>5. DrainKnows'
  BY <1>1 DEF DrainKnows, Vals
<1> QED BY <1>3, <1>4, <1>5 DEF WholeInv

\* In a dry run nothing is ever queued and the zone stands still.
LEMMA DryQueues ==
    ASSUME DryRun, NothingQueued, WholeInv, crashes = 0, [Next]_vars
    PROVE  DamageInQueues'
<1>1. zone' = zone /\ NothingQueued /\ NothingQueued'
  BY OnlyCalls, NothingLeft
<1> QED BY <1>1 DEF WholeInv, DamageInQueues, NothingQueued

\* With the queues drained and no batch under way, the zone is whole.
LEMMA DrainedWhole ==
    ASSUME LockInv, WholeInv, crashes = 0, NEW t \in Threads, pc[t] = "read", NEW p \in Owned
    PROVE  Whole(zone, p)
<1>1. pendingCleanups = {} /\ pendingRepairs = {}
  BY DEF LockInv, DrainedFirst
<1>2. \A u \in Threads : pc[u] # "work"
  BY OneHolder DEF LockInv
<1> QED BY <1>1, <1>2, NothingQueuedWhole DEF WholeInv, DamageInQueues

\* Every step keeps it: a batch begins on a whole zone, its damage is at its
\* step or tried, an error queues it, and the drain mends what it takes out.
LEMMA WholeNext ==
    ASSUME Registry
    PROVE  LockInv /\ OwnershipInv /\ (DryRun => NothingQueued) /\ WholeInv /\ [Next]_vars => WholeInv'
<1> SUFFICES ASSUME LockInv, OwnershipInv, DryRun => NothingQueued, WholeInv, [Next]_vars, crashes' = 0
             PROVE  WholeInv'
  BY DEF WholeInv
<1>0. /\ TypeOK /\ Shapes /\ LockDiscipline /\ StepsInPlace /\ StepsOfLoop /\ DrainedFirst /\ ControllerInv /\ ViewInv
  BY TypeShapes DEF LockInv, OwnershipInv, PlanInv
<1>1. crashes = 0 /\ ~Crash
  <2>1. crashes \in Nat
    BY <1>0, ProviderAssumption DEF TypeOK
  <2>2. ~Crash
    BY <2>1 DEF Crash
  <2>3. crashes' = crashes
    BY <2>2 DEF Next, Step, vars, ChangeDesired, ControllerGet, ControllerPost, ControllerRest, ProbeStart,
                CacheExpire, Cancel, Acquire, DrainRetrieve, DrainPickRepair, DrainPickCleanup, DrainEnd,
                RecordsCached, RecordsRetrieve, ApplyRetrieve, ApplyPick, CallOk, Confirmed, DrainError,
                ApplyError, Abandon, StepDone, ApplyEnd, Reply
  <2> QED BY <2>2, <2>3
<1>2. DamageInQueues /\ DamageInBatch /\ AnswersWhole /\ DrainKnows
  BY <1>1 DEF WholeInv
<1>3. CASE ChangeDesired \/ ControllerRest \/ CacheExpire \/ UNCHANGED vars
  <2>1. UNCHANGED <<zone, pendingCleanups, pendingRepairs, plan, cur, made, pc, idx, op, failed>>
    BY <1>3 DEF ChangeDesired, ControllerRest, CacheExpire, vars
  <2> QED BY <1>1, <2>1, WholeFrame
<1>4. ASSUME NEW h \in Threads, pc[h] \in {"idle", "queued"}, NEW place \in {"queued", "read", "drainRead"},
             pc' = [pc EXCEPT ![h] = place],
             op' = op \/ op' = [op EXCEPT ![h] = "apply"],
             UNCHANGED <<zone, pendingCleanups, pendingRepairs, plan, cur, made, idx, failed>>
      PROVE  WholeInv'
  <2>1. \A t \in Threads :
           /\ pc'[t] \in {"drain", "work"} <=> pc[t] \in {"drain", "work"}
           /\ pc'[t] \in {"drain", "work"} => pc'[t] = pc[t]
           /\ pc'[t] = "reply" /\ op'[t] = "records" => pc[t] = "reply" /\ op[t] = "records"
    BY <1>0, <1>4 DEF Shapes
  <2> QED BY <1>1, <1>4, <2>1, WholeFrame
<1>5. ASSUME NEW h \in Handlers, ControllerGet(h) \/ ControllerPost(h) PROVE WholeInv'
  BY <1>4, <1>5 DEF ControllerGet, ControllerPost
<1>6. CASE ProbeStart
  BY <1>4, <1>6 DEF ProbeStart
<1>7. ASSUME NEW t \in Threads, Cancel(t) PROVE WholeInv'
  <2>1. UNCHANGED <<zone, pendingCleanups, pendingRepairs, plan, cur, made, pc, idx, op, failed>>
    BY <1>7 DEF Cancel
  <2> QED BY <1>1, <2>1, WholeFrame
<1>8. ASSUME NEW t \in Threads, Acquire(t) PROVE WholeInv'
  BY <1>4, <1>8 DEF Acquire
<1>9. ASSUME NEW t \in Threads, DrainRetrieve(t) \/ DrainEnd(t) PROVE WholeInv'
  <2>1. /\ pc[t] \in {"drainRead", "drain"} /\ UNCHANGED <<zone, pendingCleanups, pendingRepairs>>
        /\ \/ pc' = [pc EXCEPT ![t] = "reply"] /\ failed' = [failed EXCEPT ![t] = TRUE]
           \/ pc' = [pc EXCEPT ![t] = "drain"] /\ cur[t] = {} /\ UNCHANGED <<failed, cur>>
           \/ pc' = [pc EXCEPT ![t] = "read"] /\ UNCHANGED failed
        /\ op' = op
        /\ \A u \in Threads : u # t => idx'[u] = idx[u]
    BY <1>0, <1>9 DEF DrainRetrieve, DrainEnd, Return, Retrieve, StepsInPlace, Shapes
  <2>2. \A u \in Threads : u # t => pc'[u] = pc[u] /\ failed'[u] = failed[u]
    BY <1>0, <2>1 DEF Shapes
  <2>3. /\ pc'[t] \in {"reply", "drain", "read"}
        /\ pc'[t] = "reply" => failed'[t]
        /\ pc'[t] = "drain" => cur'[t] = {}
    BY <1>0, <2>1 DEF Shapes
  <2>4. DamageInQueues'
    <3>1. \A u \in Threads : pc[u] # "work"
      BY <1>0, <2>1, OneHolder
    <3> QED BY <1>2, <2>1, <3>1 DEF DamageInQueues
  <2> QED BY <1>1, <2>1, <2>2, <2>3, <2>4, WholeOthers
<1>10. ASSUME NEW t \in Threads, DrainPickRepair(t) PROVE WholeInv'
  <2>1. /\ pc[t] = "drain" /\ UNCHANGED <<zone, pendingCleanups, pc, op, failed, idx>>
    BY <1>10 DEF DrainPickRepair
  <2>2. PICK rp \in pendingRepairs :
           /\ cur' = [cur EXCEPT ![t] = {[do |-> d, ch |-> rp] : d \in RepairDos(rp, idx[t])}]
           /\ pendingRepairs' = IF RepairDos(rp, idx[t]) = {} THEN pendingRepairs \ {rp} ELSE pendingRepairs
    BY <1>10 DEF DrainPickRepair
  <2>3. ~DryRun /\ idx[t] = zone /\ zone \in SUBSET Records
    BY <1>0, <2>1, <2>2 DEF NothingQueued, StepsInPlace, TypeOK
  <2>4. \A u \in Threads : pc[u] # "work"
    BY <1>0, <2>1, OneHolder
  <2>5. Queued(zone, pendingCleanups, pendingRepairs)
    BY <1>2, <2>4 DEF DamageInQueues
  <2>6. /\ RepairDos(rp, zone) \subseteq {"repConverge", "repEdit"}
        /\ "repConverge" \in RepairDos(rp, zone) => Vals(zone, rp.of) \subseteq {rp.valNew}
        /\ RepairDos(rp, zone) = {} => ~Mixed(zone, rp.of)
    BY <2>3, <2>5, RepairDecides
  <2>7. Queued(zone', pendingCleanups', pendingRepairs')
    BY <2>1, <2>2, <2>3, <2>5, <2>6, ItemDropped
  <2>8. \A s \in cur'[t] :
           /\ s.do \in {"clean", "repConverge", "repEdit"}
           /\ s.do = "repConverge" => Vals(zone', s.ch.of) \subseteq {s.ch.valNew}
    BY <1>0, <2>1, <2>2, <2>3, <2>6 DEF Shapes
  <2>9. DamageInQueues'
    BY <2>7 DEF DamageInQueues
  <2> QED BY <1>1, <2>1, <2>8, <2>9, WholeOthers
<1>11. ASSUME NEW t \in Threads, DrainPickCleanup(t) PROVE WholeInv'
  <2>1. /\ pc[t] = "drain" /\ cur[t] = {} /\ UNCHANGED <<zone, pendingRepairs, pc, op, failed, idx>>
    BY <1>11 DEF DrainPickCleanup
  <2>2. PICK cl \in pendingCleanups :
           IF ProtectedRecordExists(idx[t], cl.prot)
           THEN pendingCleanups' = pendingCleanups \ {cl} /\ cur' = cur
           ELSE /\ cur' = [cur EXCEPT ![t] = {[do |-> "clean", ch |-> cl]}]
                /\ pendingCleanups' = pendingCleanups
    BY <1>11 DEF DrainPickCleanup
  <2>3. ~DryRun /\ idx[t] = zone
    BY <1>0, <2>1, <2>2 DEF NothingQueued, StepsInPlace
  <2>4. \A u \in Threads : pc[u] # "work"
    BY <1>0, <2>1, OneHolder
  <2>5. Queued(zone, pendingCleanups, pendingRepairs)
    BY <1>2, <2>4 DEF DamageInQueues
  <2>6. ProtectedRecordExists(zone, cl.prot) => ~Orphan(zone, cl.of)
    BY <2>5 DEF Queued, ProtectedRecordExists, Orphan, Live
  <2>7. Queued(zone', pendingCleanups', pendingRepairs')
    BY <2>1, <2>2, <2>3, <2>5, <2>6, ItemDropped
  <2>8. \A s \in cur'[t] : s.do = "clean"
    BY <1>0, <2>1, <2>2 DEF Shapes
  <2>9. DamageInQueues'
    BY <2>7 DEF DamageInQueues
  <2> QED BY <1>1, <2>1, <2>8, <2>9, WholeOthers
<1>12. ASSUME NEW t \in Threads, RecordsCached(t) \/ RecordsRetrieve(t) PROVE WholeInv'
  <2>1. /\ pc[t] = "read" /\ pc' = [pc EXCEPT ![t] = "reply"]
        /\ UNCHANGED <<zone, pendingCleanups, pendingRepairs, op>>
    BY <1>12 DEF RecordsCached, RecordsRetrieve, Return
  <2>2. \/ failed' = [failed EXCEPT ![t] = TRUE] /\ idx' = idx
        \/ failed' = [failed EXCEPT ![t] = FALSE] /\ idx' = [idx EXCEPT ![t] = zone]
    BY <1>12 DEF RecordsCached, RecordsRetrieve, Return, Retrieve, LockInv, CacheCoherent
  <2>3. \A p \in Owned : Whole(zone, p)
    BY <1>1, <2>1, DrainedWhole
  <2>4. DamageInQueues'
    <3>1. \A u \in Threads : pc[u] # "work"
      BY <1>0, <2>1, OneHolder
    <3> QED BY <1>2, <2>1, <3>1 DEF DamageInQueues
  <2>5. /\ pc'[t] = "reply" /\ (~failed'[t] => idx'[t] = zone)
        /\ \A u \in Threads : u # t => pc'[u] = pc[u] /\ failed'[u] = failed[u] /\ idx'[u] = idx[u]
    BY <1>0, <2>1, <2>2 DEF Shapes
  <2> QED BY <1>1, <2>1, <2>3, <2>4, <2>5, WholeOthers
<1>13. ASSUME NEW t \in Threads, ApplyRetrieve(t) PROVE WholeInv'
  <2>1. pc[t] = "read" /\ op[t] = "apply" /\ op' = op /\ UNCHANGED <<zone, pendingCleanups, pendingRepairs>>
    BY <1>13 DEF ApplyRetrieve, Return
  <2>2. DamageInQueues'
    <3>1. \A u \in Threads : pc[u] # "work"
      BY <1>0, <2>1, OneHolder
    <3> QED BY <1>2, <2>1, <3>1 DEF DamageInQueues
  <2>3. CASE Return(t, TRUE) /\ UNCHANGED idx
    <3>1. /\ pc'[t] = "reply" /\ failed'[t]
          /\ \A u \in Threads : u # t => pc'[u] = pc[u] /\ failed'[u] = failed[u] /\ idx'[u] = idx[u]
      BY <1>0, <2>3 DEF Return, Shapes
    <3> QED BY <1>1, <2>1, <2>2, <3>1, WholeOthers
  <2>4. CASE /\ Retrieve(t) /\ pc' = [pc EXCEPT ![t] = "work"] /\ plan' = [plan EXCEPT ![t] = ask[t]]
             /\ UNCHANGED <<cur, made, failed>>
    <3>1. ctx[t] /\ idx' = [idx EXCEPT ![t] = zone]
      BY <2>4 DEF Retrieve
    <3>2. t = mine /\ ~failed[t]
      BY <1>0, <2>1, <3>1 DEF ControllerInv
    <3>3. PICK want \in [Owned -> Wants] : ask[t] = Batch(zone, want)
      BY <1>0, <2>1, <3>2 DEF ViewInv
    <3>4. \A p \in Owned : Whole(zone, p)
      BY <1>1, <2>1, DrainedWhole
    <3>5. Sheltered(zone, {}, ask[t], {})
      BY <1>0, <3>3, <3>4, BatchSheltered DEF TypeOK
    <3>6. /\ pc'[t] = "work" /\ plan'[t] = ask[t] /\ cur'[t] = {} /\ made'[t] = {} /\ idx'[t] = zone
          /\ \A u \in Threads : u # t => pc'[u] = pc[u] /\ failed'[u] = failed[u] /\ idx'[u] = idx[u]
      BY <1>0, <2>1, <2>4, <3>1 DEF Shapes, StepsInPlace
    <3> QED BY <1>1, <2>1, <2>2, <3>5, <3>6, WholeOthers
  <2> QED BY <1>13, <2>3, <2>4 DEF ApplyRetrieve
<1>14. ASSUME NEW t \in Threads, ApplyPick(t) PROVE WholeInv'
  <2>1. pc[t] = "work" /\ cur[t] = {} /\ UNCHANGED <<zone, memory, pc, op, idx, made, failed>>
    BY <1>14 DEF ApplyPick
  <2>2. PICK s \in plan[t] : /\ \A q \in plan[t] : Rank(s) <= Rank(q)
                             /\ cur' = [cur EXCEPT ![t] = {s}]
                             /\ plan' = [plan EXCEPT ![t] = plan[t] \ {s}]
    BY <1>0, <1>14 DEF ApplyPick, Shapes
  <2>3. Sheltered(idx[t], {}, plan[t], made[t])
    BY <1>2, <2>1 DEF DamageInBatch
  <2>4. \A q \in plan[t] : Rank(s) <= Rank(q) /\ q.do \in BatchDos \ {"delMarker"}
    BY <1>0, <2>2 DEF StepsOfLoop
  <2>5. Sheltered(idx[t], {s}, plan[t] \ {s}, made[t])
    BY <2>3, <2>4, PickSheltered
  <2>6. cur'[t] = {s} /\ plan'[t] = plan[t] \ {s}
    BY <1>0, <2>2 DEF Shapes
  <2>7. DamageInQueues'
    BY <1>2, <2>1 DEF DamageInQueues
  <2> QED BY <1>1, <2>1, <2>5, <2>6, <2>7, WholeOthers
<1>15. ASSUME NEW t \in Threads, CallOk(t) PROVE WholeInv'
  <2>1. pc[t] \in {"drain", "work"}
    BY <1>15 DEF CallOk
  <2>2. PICK s \in cur[t] : \E c \in NextCalls(t, s) : Confirmed(t, s, c)
    BY <1>15 DEF CallOk
  <2>3. PICK call \in NextCalls(t, s) : Confirmed(t, s, call)
    BY <2>2
  <2>4. /\ zone' = (IF DryRun THEN zone ELSE Effect(zone, call))
        /\ idx' = [idx EXCEPT ![t] = Effect(idx[t], call)]
        /\ made' = [made EXCEPT ![t] = made[t] \cup Tried(s, call)]
        /\ UNCHANGED <<memory, pc, op, plan, cur, failed>>
    BY <1>0, <2>3, CallGuarded DEF Confirmed, Shapes
  <2>5. PICK i \in Ids : call \in Calls(Task(s), idx[t], i)
    BY <2>2, CallOfStep
  <2>6. s \in Steps /\ idx[t] \in SUBSET Records /\ cur[t] = {s}
    BY <1>0, <2>2 DEF Shapes, StepsInPlace
  <2>7. /\ idx'[t] = Effect(idx[t], call) /\ made'[t] = made[t] \cup Tried(s, call)
        /\ \A u \in Threads : u # t => idx'[u] = idx[u]
    BY <1>0, <2>4 DEF Shapes
  <2>8. CASE pc[t] = "work"
    <3>1. s.do \in BatchDos
      BY <1>0, <2>2, <2>8 DEF StepsOfLoop
    <3>2. Sheltered(idx[t], {s}, plan[t], made[t])
      BY <1>2, <2>6, <2>8 DEF DamageInBatch
    <3>3. Sheltered(idx[t], {s}, plan[t], made'[t])
      BY <2>6, <2>7, <3>2, TriedSheltered
    <3>4. Sheltered(idx'[t], {s}, plan[t], made'[t])
      BY <2>5, <2>6, <2>7, <3>1, <3>3, CallSheltered
    <3>5. DamageInQueues'
      <4>1. CASE DryRun
        BY <1>1, <4>1, DryQueues
      <4>2. CASE ~DryRun
        BY <2>4, <2>8, <4>2 DEF DamageInQueues
      <4> QED BY <4>1, <4>2
    <3> QED BY <1>1, <2>1, <2>4, <2>6, <2>7, <2>8, <3>4, <3>5, WholeOthers
  <2>9. CASE pc[t] = "drain"
    <3>1. \/ s.do = "clean" /\ s.ch \in pendingCleanups
          \/ s.do \in {"repConverge", "repEdit"} /\ s.ch \in pendingRepairs
      BY <1>0, <1>2, <2>2, <2>9 DEF StepsOfLoop, DrainKnows
    <3>2. ~DryRun /\ idx[t] = zone
      BY <1>0, <2>9, <3>1 DEF NothingQueued, StepsInPlace
    <3>3. \A u \in Threads : pc[u] # "work"
      BY <1>0, <2>9, OneHolder
    <3>4. Queued(zone, pendingCleanups, pendingRepairs)
      BY <1>2, <3>3 DEF DamageInQueues
    <3>5. Queued(zone', pendingCleanups, pendingRepairs)
      BY <2>4, <2>5, <2>6, <3>1, <3>2, <3>4, DrainCallQueued
    <3>6. DamageInQueues'
      BY <2>4, <3>5 DEF DamageInQueues
    <3>7. s.do = "repConverge" => Vals(zone', s.ch.of) \subseteq {s.ch.valNew}
      <4>1. s.do = "repConverge" => Vals(zone, s.ch.of) \subseteq {s.ch.valNew}
        BY <1>2, <2>2, <2>9 DEF DrainKnows, Vals
      <4> QED BY <2>4, <2>5, <2>6, <3>2, <4>1, CallMarkers
    <3> QED BY <1>1, <2>1, <2>4, <2>6, <2>7, <2>9, <3>1, <3>6, <3>7, WholeOthers
  <2> QED BY <2>1, <2>8, <2>9
<1>16. ASSUME NEW t \in Threads, DrainError(t) PROVE WholeInv'
  <2>1. pc[t] = "drain" /\ Return(t, TRUE) /\ UNCHANGED <<pendingCleanups, pendingRepairs, idx>>
    BY <1>16 DEF DrainError
  <2>2. PICK s \in cur[t] : \E c \in NextCalls(t, s) : Unconfirmed(t, s, c)
    BY <1>16 DEF DrainError
  <2>3. PICK call \in NextCalls(t, s) : Unconfirmed(t, s, call)
    BY <2>2
  <2>4. ~DryRun /\ idx[t] = zone /\ (zone' = zone \/ zone' = Effect(zone, call))
    BY <1>0, <2>1, <2>3, CallGuarded DEF Unconfirmed, StepsInPlace
  <2>5. PICK i \in Ids : call \in Calls(Task(s), zone, i)
    BY <2>2, <2>4, CallOfStep
  <2>6. s \in Steps /\ zone \in SUBSET Records
    BY <1>0, <2>2 DEF Shapes, TypeOK
  <2>7. \/ s.do = "clean" /\ s.ch \in pendingCleanups
        \/ s.do \in {"repConverge", "repEdit"} /\ s.ch \in pendingRepairs
    BY <1>0, <1>2, <2>1, <2>2 DEF StepsOfLoop, DrainKnows
  <2>8. Queued(zone, pendingCleanups, pendingRepairs)
    <3>1. \A u \in Threads : pc[u] # "work"
      BY <1>0, <2>1, OneHolder
    <3> QED BY <1>2, <3>1 DEF DamageInQueues
  <2>9. Queued(zone', pendingCleanups, pendingRepairs)
    BY <2>4, <2>5, <2>6, <2>7, <2>8, DrainCallQueued
  <2>10. DamageInQueues'
    BY <2>1, <2>9 DEF DamageInQueues
  <2>11. /\ pc'[t] = "reply" /\ failed'[t] /\ op' = op
         /\ \A u \in Threads : u # t => pc'[u] = pc[u] /\ failed'[u] = failed[u]
    BY <1>0, <2>1 DEF Return, Shapes
  <2> QED BY <1>1, <2>1, <2>10, <2>11, WholeOthers
<1>17. ASSUME NEW t \in Threads, ApplyError(t) PROVE WholeInv'
  <2>1. pc[t] = "work"
    BY <1>17 DEF ApplyError
  <2>2. PICK s \in cur[t] : \E c \in NextCalls(t, s) : Abandon(t, s, c)
    BY <1>17 DEF ApplyError
  <2>3. PICK call \in NextCalls(t, s) : Abandon(t, s, call)
    BY <2>2
  <2>4. /\ ~DryRun /\ (zone' = zone \/ zone' = Effect(zone, call))
        /\ pendingCleanups' = pendingCleanups \cup LeftCleanups(s, made[t] \cup Tried(s, call))
        /\ pendingRepairs' = pendingRepairs \cup LeftRepairs(s)
        /\ pc' = [pc EXCEPT ![t] = "reply"] \/ pc' = [pc EXCEPT ![t] = "drainRead"]
        /\ failed' = [failed EXCEPT ![t] = TRUE]
        /\ UNCHANGED <<op, idx>>
    BY <2>3, CallGuarded DEF Abandon, Unconfirmed, Return
  <2>5. idx[t] = zone /\ pendingCleanups = {} /\ pendingRepairs = {} /\ s.do \in BatchDos
    BY <1>0, <2>1, <2>2, <2>4 DEF StepsInPlace, DrainedFirst, StepsOfLoop
  <2>6. s \in Steps /\ zone \in SUBSET Records /\ cur[t] = {s}
    BY <1>0, <2>2 DEF Shapes, TypeOK, StepsInPlace
  <2>7. PICK i \in Ids : call \in Calls(Task(s), zone, i)
    BY <2>2, <2>5, CallOfStep
  <2> DEFINE tried == made[t] \cup Tried(s, call)
  <2>8. Sheltered(zone, {s}, plan[t], made[t])
    BY <1>2, <2>1, <2>5, <2>6 DEF DamageInBatch
  <2>9. Sheltered(zone, {s}, plan[t], tried)
    BY <2>6, <2>8, TriedSheltered
  <2>10. Sheltered(zone', {s}, plan[t], tried)
    <3>1. CASE zone' = zone
      BY <2>9, <3>1
    <3>2. CASE zone' = Effect(zone, call)
      <4>1. Tried(s, call) \subseteq tried
        OBVIOUS
      <4> HIDE DEF tried
      <4> QED BY <2>5, <2>6, <2>7, <2>9, <3>2, <4>1, CallSheltered
    <3> QED BY <2>4, <3>1, <3>2
  <2>11. Queued(zone', LeftCleanups(s, tried), LeftRepairs(s))
    BY <2>4, <2>5, <2>6, <2>10, ErrorQueued
  <2>12. DamageInQueues'
    BY <2>4, <2>5, <2>11 DEF DamageInQueues
  <2>13. /\ pc'[t] \in {"reply", "drainRead"} /\ failed'[t]
         /\ \A u \in Threads : u # t => pc'[u] = pc[u] /\ failed'[u] = failed[u]
    BY <1>0, <2>4 DEF Shapes
  <2> QED BY <1>1, <2>1, <2>4, <2>12, <2>13, WholeOthers
<1>18. ASSUME NEW t \in Threads, StepDone(t) PROVE WholeInv'
  <2>1. pc[t] \in {"drain", "work"} /\ UNCHANGED <<zone, pc, op, plan, idx, made, failed>>
    BY <1>18 DEF StepDone
  <2>2. PICK s \in cur[t] :
          /\ Done(Task(s), idx[t])
          /\ cur' = [cur EXCEPT ![t] = After(s)]
          /\ pendingCleanups' = IF s.do = "clean" THEN pendingCleanups \ {s.ch} ELSE pendingCleanups
          /\ pendingRepairs' = IF s.do \in {"repDelOld", "repDelNew", "repConverge", "repEdit"} /\ After(s) = {}
                               THEN pendingRepairs \ {s.ch} ELSE pendingRepairs
    BY <1>18 DEF StepDone
  <2>3. s \in Steps /\ idx[t] \in SUBSET Records /\ cur[t] = {s} /\ cur'[t] = After(s)
    BY <1>0, <2>2 DEF Shapes, StepsInPlace
  <2>4. CASE pc[t] = "work"
    <3>1. s.do \in BatchDos
      BY <1>0, <2>2, <2>4 DEF StepsOfLoop
    <3>2. Sheltered(idx[t], {s}, plan[t], made[t])
      BY <1>2, <2>3, <2>4 DEF DamageInBatch
    <3>4. Sheltered(idx[t], After(s), plan[t], made[t])
      BY <2>2, <2>3, <3>1, <3>2, DoneSheltered
    <3>5. pendingCleanups' = pendingCleanups /\ pendingRepairs' = pendingRepairs
      BY <2>2, <3>1 DEF BatchDos
    <3>6. DamageInQueues'
      BY <1>2, <2>1, <3>5 DEF DamageInQueues
    <3> QED BY <1>1, <2>1, <2>3, <2>4, <3>4, <3>6, WholeOthers
  <2>5. CASE pc[t] = "drain"
    <3>1. \/ s.do = "clean" /\ s.ch \in pendingCleanups
          \/ s.do \in {"repConverge", "repEdit"} /\ s.ch \in pendingRepairs
      BY <1>0, <1>2, <2>2, <2>5 DEF StepsOfLoop, DrainKnows
    <3>2. s.do = "repConverge" => Vals(zone, s.ch.of) \subseteq {s.ch.valNew}
      BY <1>2, <2>2, <2>5 DEF DrainKnows, Vals
    <3>3. ~DryRun /\ idx[t] = zone
      BY <1>0, <2>5, <3>1 DEF NothingQueued, StepsInPlace
    <3>4. Queued(zone, pendingCleanups, pendingRepairs)
      <4>1. \A u \in Threads : pc[u] # "work"
        BY <1>0, <2>5, OneHolder
      <4> QED BY <1>2, <4>1 DEF DamageInQueues
    <3>5. After(s) = {}
      BY <3>1 DEF After
    <3>6. Queued(zone, pendingCleanups', pendingRepairs')
      <4>1. CASE s.do = "clean" /\ s.ch \in pendingCleanups
        <5>1. ~Orphan(zone, s.ch.of)
          BY <2>2, <2>3, <3>3, <3>4, <4>1, DrainDone
        <5>2. Queued(zone, pendingCleanups \ {s.ch}, pendingRepairs)
          BY <3>4, <4>1, <5>1, ItemDropped
        <5> QED BY <2>2, <4>1, <5>2
      <4>2. CASE s.do \in {"repConverge", "repEdit"} /\ s.ch \in pendingRepairs
        <5>1. ~Mixed(zone, s.ch.of)
          BY <2>2, <2>3, <3>2, <3>3, <3>4, <4>2, DrainDone
        <5>2. Queued(zone, pendingCleanups, pendingRepairs \ {s.ch})
          BY <3>4, <4>2, <5>1, ItemDropped
        <5> QED BY <2>2, <3>5, <4>2, <5>2
      <4> QED BY <3>1, <4>1, <4>2
    <3>7. DamageInQueues'
      BY <2>1, <3>6 DEF DamageInQueues
    <3> QED BY <1>1, <2>1, <2>3, <2>5, <3>5, <3>7, WholeOthers
  <2> QED BY <2>1, <2>4, <2>5
<1>19. ASSUME NEW t \in Threads, ApplyEnd(t) PROVE WholeInv'
  <2>1. /\ pc[t] = "work" /\ cur[t] = {} /\ plan[t] = {} /\ Return(t, FALSE)
        /\ UNCHANGED <<zone, pendingCleanups, pendingRepairs, idx>>
    BY <1>19 DEF ApplyEnd
  <2>2. op[t] = "apply" /\ op' = op
    BY <1>0, <2>1 DEF ControllerInv, Return
  <2>3. /\ pc'[t] = "reply"
        /\ \A u \in Threads : u # t => pc'[u] = pc[u] /\ failed'[u] = failed[u]
    BY <1>0, <2>1 DEF Return, Shapes
  <2>4. DamageInQueues'
    <3>1. CASE DryRun
      BY <1>1, <3>1, DryQueues
    <3>2. CASE ~DryRun
      <4>1. Sheltered(zone, {}, {}, made[t])
        BY <1>0, <1>2, <2>1, <3>2 DEF DamageInBatch, StepsInPlace
      <4>2. Queued(zone, {}, {})
        BY <4>1, EndWhole, NothingQueuedWhole
      <4>3. pendingCleanups = {} /\ pendingRepairs = {}
        BY <1>0, <2>1 DEF DrainedFirst
      <4> QED BY <2>1, <4>2, <4>3 DEF DamageInQueues
    <3> QED BY <3>1, <3>2
  <2> QED BY <1>1, <2>1, <2>2, <2>3, <2>4, WholeOthers
<1>20. ASSUME NEW t \in Threads, Reply(t) PROVE WholeInv'
  <2>1. /\ pc[t] = "reply" /\ pc' = [pc EXCEPT ![t] = "idle"] /\ op' = [op EXCEPT ![t] = "records"]
        /\ idx' = [idx EXCEPT ![t] = {}] /\ failed' = [failed EXCEPT ![t] = FALSE]
        /\ UNCHANGED <<zone, pendingCleanups, pendingRepairs, plan, cur, made>>
    BY <1>20 DEF Reply
  <2>2. /\ pc'[t] = "idle"
        /\ \A u \in Threads : u # t => /\ pc'[u] = pc[u] /\ op'[u] = op[u]
                                       /\ idx'[u] = idx[u] /\ failed'[u] = failed[u]
    BY <1>0, <2>1 DEF Shapes
  <2> QED BY <1>1, <2>1, <2>2, WholeFrame
<1> QED BY <1>1, <1>3, <1>5, <1>6, <1>7, <1>8, <1>9, <1>10, <1>11, <1>12, <1>13, <1>14, <1>15,
           <1>16, <1>17, <1>18, <1>19, <1>20 DEF Next, Step

\* What the theorems below rest on, as one invariant.
LEMMA WholeAlways ==
    ASSUME Registry, WholeStart
    PROVE  Spec => [](LockInv /\ OwnershipInv /\ WholeInv)
<1>1. Init => LockInv /\ OwnershipInv /\ (DryRun => NothingQueued) /\ WholeInv
  BY LockInit, OwnershipInit, WholeInit DEF Init, NothingQueued
<1>2. LockInv /\ OwnershipInv /\ (DryRun => NothingQueued) /\ WholeInv /\ [Next]_vars
         => (LockInv /\ OwnershipInv /\ (DryRun => NothingQueued) /\ WholeInv)'
  BY LockNext, OwnershipNext, NothingLeft, WholeNext
<1> QED BY <1>1, <1>2, PTL DEF Spec

\* Records fails closed: until a restart loses the queues, no answer shows a
\* marker whose record is gone, nor two owner values of one record, whatever
\* calls failed with or without their effect (the drain at the head of Records,
\* and the queues a failed batch leaves).
THEOREM FailsClosed ==
    ASSUME Registry, WholeStart
    PROVE  Spec => []RecordsFailClosed
<1>1. WholeInv => RecordsFailClosed
  BY DEF WholeInv, AnswersWhole, Whole, RecordsFailClosed
<1> QED BY <1>1, WholeAlways, PTL

\* While no call holds the mutex, every damage of the zone is in a queue under
\* the values it has (queueOwnershipCleanup, queueOwnershipRepair and
\* rollbackCreatedOwnership lose nothing).
THEOREM NoDamageLost ==
    ASSUME Registry, WholeStart
    PROVE  Spec => []DamageQueued
<1>1. LockInv /\ WholeInv => DamageQueued
  <2> SUFFICES ASSUME LockInv, WholeInv, operationMu = NoThread, crashes = 0, NEW p \in Owned
               PROVE  /\ Orphan(zone, p) =>
                           \A v \in Contents(zone, "marker", p) :
                               \/ \E cl \in pendingCleanups : cl.of = p /\ cl.valOld = v
                               \/ \E rp \in pendingRepairs : rp.of = p /\ v \in {rp.valOld, rp.valNew}
                      /\ Mixed(zone, p) =>
                           \E rp \in pendingRepairs :
                               rp.of = p /\ Contents(zone, "marker", p) \subseteq {rp.valOld, rp.valNew}
    BY DEF DamageQueued
  <2>1. \A t \in Threads : pc[t] # "work"
    BY ProviderAssumption DEF LockInv, LockDiscipline
  <2>2. Queued(zone, pendingCleanups, pendingRepairs)
    BY <2>1 DEF WholeInv, DamageInQueues
  <2>3. ASSUME Orphan(zone, p), NEW v \in Contents(zone, "marker", p)
        PROVE  \E cl \in pendingCleanups : cl.of = p /\ cl.valOld = v
    BY <2>2, <2>3 DEF Queued
  <2>4. ASSUME Mixed(zone, p)
        PROVE  \E rp \in pendingRepairs : rp.of = p /\ Contents(zone, "marker", p) \subseteq {rp.valOld, rp.valNew}
    BY <2>2, <2>4 DEF Queued
  <2> QED BY <2>3, <2>4
<1> QED BY <1>1, WholeAlways, PTL

(***************************************************************************)
(* What a batch has done stays done                                        *)
(***************************************************************************)
\* What is said of the records of one kind of one identity depends on nothing
\* else in the zone.
LEMMA SamePlace ==
    ASSUME NEW kind, NEW p, NEW z \in SUBSET Records, NEW y \in SUBSET Records,
           \A r \in Records : r.kind = kind /\ r.of = p => (r \in y <=> r \in z)
    PROVE  /\ Contents(y, kind, p) = Contents(z, kind, p)
           /\ \A cs : Match(y, kind, p, cs) = Match(z, kind, p, cs)
           /\ \A cs, attr : Once(y, kind, p, cs, attr) <=> Once(z, kind, p, cs, attr)
<1>1. Contents(y, kind, p) = Contents(z, kind, p)
  BY DEF Contents
<1>2. \A cs : Match(y, kind, p, cs) = Match(z, kind, p, cs)
  BY DEF Match
<1>3. ASSUME NEW cs, NEW attr PROVE Once(y, kind, p, cs, attr) <=> Once(z, kind, p, cs, attr)
  <2>1. ASSUME NEW c, NEW r
        PROVE  (r \in y /\ Match(y, kind, p, {c}) = {r}) <=> (r \in z /\ Match(z, kind, p, {c}) = {r})
    <3>1. Match(y, kind, p, {c}) = {r} => r \in y
      BY DEF Match
    <3>2. Match(z, kind, p, {c}) = {r} => r \in z
      BY DEF Match
    <3> QED BY <1>2, <3>1, <3>2
  <2> QED BY <2>1 DEF Once
<1> QED BY <1>1, <1>2, <1>3

\* Steps that a batch may be asked for.
Asked(s) ==
    /\ s \in Steps /\ s.do \in BatchDos \ {"delMarker"}
    /\ s.do # (IF Registry THEN "updPrimary" ELSE "updMarker")

\* Of the two halves of a pair at one identity ...
LEMMA AfterIs ==
    ASSUME NEW s, Asked(s), NEW q \in After(s)
    PROVE  /\ q \in Steps /\ q.ch = s.ch /\ After(q) = {}
           /\ \/ Registry /\ s.do = "delPrimary" /\ q.do = "delMarker"
              \/ Registry /\ s.do = "updMarker" /\ q.do = "updPrimary"
BY DEF Asked, After, BatchDos, Steps

\* ... and of any other step of the batch, a call of the step under way keeps
\* what is achieved and what is ready: it is at another identity, or it is
\* the other kind of record.
LEMMA OthersKept ==
    ASSUME NEW s, Asked(s), NEW q, q = s \/ q \in After(s),
           NEW z \in SUBSET Records, NEW i \in Ids, NEW call \in Calls(Task(q), z, i), NEW y, y = Effect(z, call),
           NEW r, Asked(r), r # s, Apart({r, s})
    PROVE  /\ Ready(r, z) => Ready(r, y)
           /\ HalfDone(r, z) => HalfDone(r, y)
           /\ Achieved(r, z) => Achieved(r, y)
<1> DEFINE p == r.ch.of
<1>1. q \in Steps /\ q.ch.of = s.ch.of
  BY AfterIs DEF Asked
<1>2. y \in SUBSET Records /\ \A x \in Records : x.of # s.ch.of \/ x.kind # Task(q).kind => (x \in y <=> x \in z)
  BY <1>1, CallLocal
<1>3. CASE p # s.ch.of
  <2>1. ASSUME NEW kind \in {"primary", "marker"}
        PROVE  /\ Contents(y, kind, p) = Contents(z, kind, p)
               /\ \A cs : Match(y, kind, p, cs) = Match(z, kind, p, cs)
               /\ \A cs, attr : Once(y, kind, p, cs, attr) <=> Once(z, kind, p, cs, attr)
    <3>1. \A x \in Records : x.kind = kind /\ x.of = p => (x \in y <=> x \in z)
      BY <1>2, <1>3
    <3> QED BY <1>2, <3>1, SamePlace
  <2>2. MarkerSet(r.ch, z) => MarkerSet(r.ch, y)
    BY <2>1 DEF MarkerSet
  <2> HIDE DEF p
  <2>3. p = r.ch.of
    BY DEF p
  <2> QED BY <2>1, <2>2, <2>3 DEF Ready, HalfDone, Achieved, Asked, BatchDos
<1>4. CASE p = s.ch.of
  <2>1. {r.do, s.do} = Creates
    BY <1>4 DEF Apart, Creates
  <2>2. q = s
    BY <2>1, AfterIs DEF Creates
  <2>3. CASE r.do = "newMarker" /\ s.do = "newPrimary"
    <3>1. Task(q).kind = "primary"
      BY <1>1, <2>2, <2>3, TaskFacts
    <3>2. \A x \in Records : x.kind = "marker" /\ x.of = p => (x \in y <=> x \in z)
      BY <1>2, <3>1
    <3>3. \A cs, attr : Once(y, "marker", p, cs, attr) <=> Once(z, "marker", p, cs, attr)
      BY <1>2, <3>2, SamePlace
    <3> QED BY <2>3, <3>3 DEF Ready, HalfDone, Achieved
  <2>4. CASE r.do = "newPrimary" /\ s.do = "newMarker"
    <3>1. Task(q).kind = "marker"
      BY <1>1, <2>2, <2>4, TaskFacts
    <3>2. \A x \in Records : x.kind = "primary" /\ x.of = p => (x \in y <=> x \in z)
      BY <1>2, <3>1
    <3>3. \A cs, attr : Once(y, "primary", p, cs, attr) <=> Once(z, "primary", p, cs, attr)
      BY <1>2, <3>2, SamePlace
    <3> QED BY <2>4, <3>3 DEF Ready, HalfDone, Achieved
  <2> QED BY <2>1, <2>3, <2>4 DEF Creates
<1> QED BY <1>3, <1>4

\* A call of the step itself brings its identity nothing it was not told of,
\* and the second half of a pair leaves what the first has done.
LEMMA OwnKept ==
    ASSUME NEW s, Asked(s), NEW q, q = s \/ q \in After(s),
           NEW z \in SUBSET Records, NEW i \in Ids, NEW call \in Calls(Task(q), z, i), NEW y, y = Effect(z, call)
    PROVE  /\ Ready(s, z) => Ready(s, y)
           /\ q \in After(s) /\ HalfDone(s, z) => HalfDone(s, y)
<1> DEFINE p == s.ch.of
<1>1. q \in Steps /\ q.ch = s.ch /\ TaskOK(Task(q)) /\ Task(q).of = p
  BY AfterIs, TaskFacts DEF Asked
<1>2. y \in SUBSET Records /\ \A x \in Records : x.of # p \/ x.kind # Task(q).kind => (x \in y <=> x \in z)
  BY <1>1, CallLocal
<1>3. ASSUME Ready(s, z) PROVE Ready(s, y)
  <2>1. CASE Task(q).kind = "marker"
    <3>1. Contents(y, "primary", p) = Contents(z, "primary", p)
      BY <1>2, <2>1 DEF Contents
    <3> QED BY <1>3, <3>1 DEF Ready
  <2>2. CASE q.do = "updPrimary" /\ Task(q).kind = "primary"
    <3>1. Task(q).keep = s.ch.new
      BY <1>1, <2>2 DEF Task, TaskRec
    <3>2. \A x \in y : x \in z \/ (x \in call.put /\ x.content \in s.ch.new)
      BY <1>1, <3>1, CallShape DEF Effect
    <3>3. Contents(y, "primary", p) \subseteq Contents(z, "primary", p) \cup s.ch.new
      BY <3>2 DEF Contents
    <3> QED BY <1>3, <3>3 DEF Ready
  <2>3. CASE q.do # "updPrimary" /\ s.do \notin {"updMarker", "updPrimary"}
    BY <2>3 DEF Ready
  <2>4. CASE q.do = "updMarker"
    <3>1. Task(q).kind = "marker"
      BY <1>1, <2>4, TaskFacts
    <3> QED BY <2>1, <3>1
  <2>5. q.do = "updPrimary" => Task(q).kind = "primary"
    BY <1>1, TaskFacts
  <2> QED BY <2>2, <2>3, <2>4, <2>5, AfterIs
<1>4. ASSUME q \in After(s), HalfDone(s, z) PROVE HalfDone(s, y)
  <2>1. CASE s.do = "delPrimary"
    <3>1. Task(q).kind = "marker"
      BY <1>1, <1>4, <2>1, AfterIs, TaskFacts
    <3>2. \A x \in Records : x.kind = "primary" /\ x.of = p => (x \in y <=> x \in z)
      BY <1>2, <3>1
    <3>3. Match(y, "primary", p, s.ch.old) = Match(z, "primary", p, s.ch.old)
      BY <1>2, <3>2 DEF Match
    <3> QED BY <1>4, <2>1, <3>3 DEF HalfDone
  <2>2. CASE s.do = "updMarker"
    <3>1. Task(q).kind = "primary"
      BY <1>1, <1>4, <2>2, AfterIs, TaskFacts
    <3>2. \A x \in Records : x.kind = "marker" /\ x.of = p => (x \in y <=> x \in z)
      BY <1>2, <3>1
    <3>3. /\ Contents(y, "marker", p) = Contents(z, "marker", p)
          /\ \A cs, attr : Once(y, "marker", p, cs, attr) <=> Once(z, "marker", p, cs, attr)
      BY <1>2, <3>2, SamePlace
    <3>4. MarkerSet(s.ch, y)
      BY <1>4, <2>2, <3>3 DEF HalfDone, MarkerSet
    <3> QED BY <1>3, <1>4, <2>2, <3>4 DEF HalfDone
  <2> QED BY <1>4, <2>1, <2>2, AfterIs
<1> QED BY <1>3, <1>4

\* An endpoint operation that has nothing left to call has done its task.
LEMMA DoneTask ==
    ASSUME NEW task, NEW z, Done(task, z)
    PROVE  /\ Match(z, task.kind, task.of, task.drop) = {}
           /\ Once(z, task.kind, task.of, task.keep, task.attr)
BY DEF Done, Open, Settled, Once, Match

\* A content that is there once is there.
LEMMA OnceThere ==
    ASSUME NEW z, NEW kind, NEW p, NEW cs, NEW attr, Once(z, kind, p, cs, attr)
    PROVE  cs \subseteq Contents(z, kind, p)
<1> SUFFICES ASSUME NEW c \in cs PROVE c \in Contents(z, kind, p)
  OBVIOUS
<1>1. PICK r \in z : Match(z, kind, p, {c}) = {r}
  BY DEF Once
<1>2. r.kind = kind /\ r.of = p /\ r.content = c
  BY <1>1 DEF Match
<1> QED BY <1>2 DEF Contents

\* The end of a step's first endpoint operation: half of a pair is done, or
\* the whole step.
LEMMA FirstDone ==
    ASSUME NEW s, Asked(s), NEW z \in SUBSET Records, Done(Task(s), z), Ready(s, z),
           Registry /\ crashes = 0 => Known(z, s)
    PROVE  IF After(s) = {} THEN Achieved(s, z) ELSE HalfDone(s, z)
<1> DEFINE p == s.ch.of
<1>1. /\ Match(z, Task(s).kind, Task(s).of, Task(s).drop) = {}
      /\ Once(z, Task(s).kind, Task(s).of, Task(s).keep, Task(s).attr)
  BY DoneTask
<1>2. CASE s.do = "delPrimary"
  <2>1. Task(s).kind = "primary" /\ Task(s).of = p /\ Task(s).drop = s.ch.old
    BY <1>2 DEF Task, TaskRec
  <2>2. Registry => After(s) # {}
    BY <1>2 DEF After
  <2> QED BY <1>1, <1>2, <2>1, <2>2 DEF HalfDone, Achieved
<1>3. CASE s.do = "updMarker"
  <2>1. /\ Task(s).kind = "marker" /\ Task(s).of = p /\ Task(s).keep = {s.ch.valNew}
        /\ Task(s).attr = MarkerAttr
    BY <1>3 DEF Task, TaskRec
  <2>2. Once(z, "marker", p, {s.ch.valNew}, MarkerAttr)
    BY <1>1, <2>1
  <2>3. s.ch.valNew \in Contents(z, "marker", p)
    BY <2>2, OnceThere
  <2>4. ASSUME crashes = 0 PROVE Contents(z, "marker", p) = {s.ch.valNew}
    <3>1. Contents(z, "marker", p) \subseteq {s.ch.valOld, s.ch.valNew}
      BY <1>3, <2>4 DEF Asked, Known
    <3>2. s.ch.valOld # s.ch.valNew => s.ch.valOld \notin Contents(z, "marker", p)
      BY <1>3, DoneMarkers DEF Asked, Vals
    <3> QED BY <2>3, <3>1, <3>2
  <2>5. MarkerSet(s.ch, z) /\ After(s) # {}
    BY <1>3, <2>2, <2>4 DEF MarkerSet, After
  <2> QED BY <1>3, <2>5 DEF HalfDone
<1>4. CASE s.do = "updPrimary"
  <2>1. /\ Task(s).kind = "primary" /\ Task(s).of = p /\ Task(s).keep = s.ch.new /\ Task(s).attr = s.ch.attr
        /\ Task(s).drop = s.ch.old \ s.ch.new
    BY <1>4 DEF Task, TaskRec
  <2>2. Once(z, "primary", p, s.ch.new, s.ch.attr) /\ Match(z, "primary", p, s.ch.old \ s.ch.new) = {}
    BY <1>1, <2>1
  <2>3. Contents(z, "primary", p) = s.ch.new
    <3>1. s.ch.new \subseteq Contents(z, "primary", p)
      BY <2>2, OnceThere
    <3>2. Contents(z, "primary", p) \subseteq s.ch.old \cup s.ch.new
      BY <1>4 DEF Ready
    <3>3. \A c \in Contents(z, "primary", p) : c \notin s.ch.old \ s.ch.new
      BY <2>2 DEF Contents, Match
    <3> QED BY <3>1, <3>2, <3>3
  <2>4. After(s) = {} /\ ~Registry
    BY <1>4 DEF After, Asked
  <2> QED BY <1>4, <2>2, <2>3, <2>4 DEF Achieved
<1>5. CASE s.do = "newMarker"
  <2>1. /\ Task(s).kind = "marker" /\ Task(s).of = p /\ Task(s).keep = {s.ch.valNew}
        /\ Task(s).attr = MarkerAttr /\ After(s) = {}
    BY <1>5 DEF Task, TaskRec, After
  <2> QED BY <1>1, <1>5, <2>1 DEF Achieved
<1>6. CASE s.do = "newPrimary"
  <2>1. /\ Task(s).kind = "primary" /\ Task(s).of = p /\ Task(s).keep = s.ch.new /\ Task(s).attr = s.ch.attr
        /\ After(s) = {}
    BY <1>6 DEF Task, TaskRec, After
  <2> QED BY <1>1, <1>6, <2>1 DEF Achieved
<1> QED BY <1>2, <1>3, <1>4, <1>5, <1>6 DEF Asked, BatchDos

\* The end of the second: the step is done.
LEMMA SecondDone ==
    ASSUME NEW s, Asked(s), NEW q \in After(s), NEW z \in SUBSET Records, Done(Task(q), z), HalfDone(s, z)
    PROVE  Achieved(s, z)
<1> DEFINE p == s.ch.of
<1>1. q \in Steps /\ q.ch = s.ch
  BY AfterIs
<1>2. /\ Match(z, Task(q).kind, Task(q).of, Task(q).drop) = {}
      /\ Once(z, Task(q).kind, Task(q).of, Task(q).keep, Task(q).attr)
  BY DoneTask
<1>3. CASE s.do = "delPrimary" /\ q.do = "delMarker"
  <2>1. Task(q).kind = "marker" /\ Task(q).of = p /\ Task(q).drop = {s.ch.valOld}
    BY <1>1, <1>3 DEF Task, TaskRec
  <2> QED BY <1>2, <1>3, <2>1 DEF HalfDone, Achieved
<1>4. CASE s.do = "updMarker" /\ q.do = "updPrimary"
  <2>1. /\ Task(q).kind = "primary" /\ Task(q).of = p /\ Task(q).keep = s.ch.new /\ Task(q).attr = s.ch.attr
        /\ Task(q).drop = s.ch.old \ s.ch.new
    BY <1>1, <1>4 DEF Task, TaskRec
  <2>2. Once(z, "primary", p, s.ch.new, s.ch.attr) /\ Match(z, "primary", p, s.ch.old \ s.ch.new) = {}
    BY <1>2, <2>1
  <2>3. Contents(z, "primary", p) \subseteq s.ch.old \cup s.ch.new /\ MarkerSet(s.ch, z)
    BY <1>4 DEF HalfDone, Ready
  <2>4. s.ch.new \subseteq Contents(z, "primary", p)
    BY <2>2, OnceThere
  <2>5. \A c \in Contents(z, "primary", p) : c \notin s.ch.old \ s.ch.new
    BY <2>2 DEF Contents, Match
  <2>6. Contents(z, "primary", p) = s.ch.new
    BY <2>3, <2>4, <2>5
  <2> QED BY <1>4, <2>2, <2>3, <2>6 DEF Achieved
<1> QED BY <1>3, <1>4, AfterIs

\* Two steps of a batch have no endpoint operation in common.
LEMMA NoOverlap ==
    ASSUME NEW s, Asked(s), NEW r, Asked(r), r # s, Apart({r, s})
    PROVE  ({r} \cup After(r)) \cap ({s} \cup After(s)) = {}
<1> SUFFICES ASSUME NEW x \in {r} \cup After(r), x \in {s} \cup After(s) PROVE FALSE
  OBVIOUS
<1>1. x.ch = r.ch /\ x.ch = s.ch
  BY AfterIs
<1>2. {r.do, s.do} = Creates
  BY <1>1 DEF Apart, Creates
<1>3. After(r) = {} /\ After(s) = {}
  BY <1>2, AfterIs DEF Creates
<1> QED BY <1>3

\* A batch begins with all its steps waiting, planned from the zone itself.
LEMMA BatchApplied ==
    ASSUME NEW v \in SUBSET Records, NEW want \in [Owned -> Wants]
    PROVE  Applied(v, {}, Batch(v, want), Batch(v, want))
<1> DEFINE gone    == {p \in Owned : ManagedBy(v, p) /\ want[p].targets = {}}
           changed == {p \in Owned : /\ ManagedBy(v, p)
                                     /\ want[p].targets # {}
                                     /\ ~Exact(v, p, want[p])}
           created == {p \in Owned : ~Live(v, p) /\ want[p].targets # {}}
           change(p) == ChangeOf(v, p, want[p], {p})
           create(p) == ChangeOf(v, p, want[p], Protected(v, created, p))
           Gone(s) == \E p \in gone : s = [do |-> "delPrimary", ch |-> change(p)]
           Changed(s) == \E p \in changed :
                             s = [do |-> IF Registry THEN "updMarker" ELSE "updPrimary", ch |-> change(p)]
           Marker(s) == \E p \in created : s = [do |-> "newMarker", ch |-> create(p)]
           Primary(s) == \E p \in created : s = [do |-> "newPrimary", ch |-> create(p)]
<1>1. \A s \in Batch(v, want) : Gone(s) \/ Changed(s) \/ Marker(s) \/ Primary(s)
  BY DEF Batch
<1>2. \A p \in Owned : change(p).of = p /\ change(p).old = Contents(v, "primary", p) /\ create(p).of = p
  BY DEF ChangeOf
<1>3. /\ gone \cap changed = {} /\ gone \cap created = {} /\ changed \cap created = {}
      /\ gone \subseteq Owned /\ changed \subseteq Owned /\ created \subseteq Owned
  BY DEF ManagedBy
<1> HIDE DEF gone, changed, created, change, create
<1>4. Apart(Batch(v, want))
  BY <1>1, <1>2, <1>3 DEF Apart
<1>5. ASSUME NEW s \in Batch(v, want)
      PROVE  s.do # (IF Registry THEN "updPrimary" ELSE "updMarker") /\ Ready(s, v)
  BY <1>1, <1>2, <1>3 DEF Ready
<1> QED BY <1>4, <1>5 DEF Applied

\* The next step of the batch begins.
LEMMA AppliedPick ==
    ASSUME NEW z, NEW later, NEW asked, Applied(z, {}, later, asked), \A s \in asked : Asked(s), NEW q \in later
    PROVE  Applied(z, {q}, later \ {q}, asked)
<1>1. Apart(asked) /\ q \in asked
  BY DEF Applied
<1>2. ASSUME NEW s \in asked PROVE After(s) \cap {q} = {}
  <2>1. s # q => Apart({s, q})
    BY <1>1 DEF Apart
  <2>2. s # q => ({s} \cup After(s)) \cap ({q} \cup After(q)) = {}
    BY <1>1, <2>1, NoOverlap
  <2>3. s = q => q \notin After(s)
    BY AfterIs
  <2> QED BY <2>2, <2>3
<1> QED BY <1>1, <1>2 DEF Applied

\* A call of the step under way.
LEMMA AppliedCall ==
    ASSUME NEW z \in SUBSET Records, NEW q, NEW later, NEW asked, Applied(z, {q}, later, asked),
           \A s \in asked : Asked(s),
           NEW i \in Ids, NEW call \in Calls(Task(q), z, i), NEW y, y = Effect(z, call)
    PROVE  Applied(y, {q}, later, asked)
<1>1. PICK s \in asked \ later : q = s \/ q \in After(s)
  BY DEF Applied
<1>2. ASSUME NEW r \in asked, r # s
      PROVE  /\ Ready(r, z) => Ready(r, y)
             /\ HalfDone(r, z) => HalfDone(r, y)
             /\ Achieved(r, z) => Achieved(r, y)
  <2>1. Apart({r, s})
    BY <1>1 DEF Applied, Apart
  <2> QED BY <1>1, <1>2, <2>1, OthersKept
<1>3. /\ Ready(s, z) => Ready(s, y)
      /\ q \in After(s) /\ HalfDone(s, z) => HalfDone(s, y)
  BY <1>1, OwnKept
<1>4. ASSUME NEW r \in asked
      PROVE  /\ r \in later \cup {q} => Ready(r, y)
             /\ After(r) \cap {q} # {} => HalfDone(r, y)
             /\ r \notin later \cup {q} /\ After(r) \cap {q} = {} => Achieved(r, y)
  <2>1. /\ r \in later \cup {q} => Ready(r, z)
        /\ After(r) \cap {q} # {} => HalfDone(r, z)
        /\ r \notin later \cup {q} /\ After(r) \cap {q} = {} => Achieved(r, z)
    BY DEF Applied
  <2>2. CASE r # s
    BY <1>2, <2>1, <2>2
  <2>3. CASE r = s
    BY <1>1, <1>3, <2>1, <2>3
  <2> QED BY <2>2, <2>3
<1> QED BY <1>4 DEF Applied

\* An endpoint operation has made its last call.
LEMMA AppliedDone ==
    ASSUME NEW z \in SUBSET Records, NEW q, NEW later, NEW asked, Applied(z, {q}, later, asked),
           \A s \in asked : Asked(s), Done(Task(q), z), Registry /\ crashes = 0 => Known(z, q)
    PROVE  Applied(z, After(q), later, asked)
<1>1. PICK s \in asked \ later : q = s \/ q \in After(s)
  BY DEF Applied
<1>2. ASSUME NEW r \in asked, r # s PROVE ({r} \cup After(r)) \cap ({s} \cup After(s)) = {}
  <2>1. Apart({r, s})
    BY <1>1 DEF Applied, Apart
  <2> QED BY <1>1, <1>2, <2>1, NoOverlap
<1>3. After(q) \subseteq After(s) /\ s \notin After(s) /\ (q \in After(s) => After(q) = {} /\ q # s)
  BY <1>1, AfterIs
<1>4. ASSUME NEW r \in asked, r # s
      PROVE  /\ r \in later \cup After(q) => Ready(r, z)
             /\ After(r) \cap After(q) # {} => HalfDone(r, z)
             /\ r \notin later \cup After(q) /\ After(r) \cap After(q) = {} => Achieved(r, z)
  <2>1. r \notin After(q) /\ After(r) \cap After(q) = {} /\ r # q /\ After(r) \cap {q} = {}
    BY <1>1, <1>2, <1>3, <1>4
  <2> QED BY <2>1 DEF Applied
<1>5. /\ s \notin later \cup After(q)
      /\ After(s) \cap After(q) # {} => HalfDone(s, z)
      /\ After(s) \cap After(q) = {} => Achieved(s, z)
  <2>1. CASE q = s
    <3>1. Ready(s, z)
      BY <1>1, <2>1 DEF Applied
    <3>2. IF After(s) = {} THEN Achieved(s, z) ELSE HalfDone(s, z)
      BY <1>1, <2>1, <3>1, FirstDone
    <3> QED BY <1>1, <1>3, <2>1, <3>2
  <2>2. CASE q \in After(s)
    <3>1. HalfDone(s, z)
      BY <1>1, <2>2 DEF Applied
    <3>2. Achieved(s, z)
      BY <1>1, <2>2, <3>1, SecondDone
    <3> QED BY <1>1, <1>3, <2>2, <3>2
  <2> QED BY <1>1, <2>1, <2>2
<1>6. \A x \in After(q) : \E r \in asked \ later : x = r \/ x \in After(r)
  BY <1>1, <1>3
<1>7. ASSUME NEW r \in asked
      PROVE  /\ r \in later \cup After(q) => Ready(r, z)
             /\ After(r) \cap After(q) # {} => HalfDone(r, z)
             /\ r \notin later \cup After(q) /\ After(r) \cap After(q) = {} => Achieved(r, z)
  BY <1>4, <1>5
<1> QED BY <1>6, <1>7 DEF Applied

(***************************************************************************)
(* AppliedInv is inductive                                                 *)
(***************************************************************************)
\* Until a restart, nothing changes what an update has to reach.
LEMMA AppliedPrime ==
    ASSUME crashes' = crashes, NEW t \in Threads,
           Applied(idx'[t], cur'[t], plan'[t], ask'[t])
    PROVE  Applied(idx[t], cur[t], plan[t], ask[t])'
BY DEF Applied, Ready, HalfDone, Achieved, MarkerSet

\* Steps that leave the batch under way as it is.
LEMMA AppliedStill ==
    ASSUME AppliedInv, crashes' = crashes,
           \A t \in Threads : pc'[t] = "work" =>
              /\ pc[t] = "work"
              /\ idx'[t] = idx[t] /\ cur'[t] = cur[t] /\ plan'[t] = plan[t] /\ ask'[t] = ask[t]
    PROVE  AppliedInv'
<1> SUFFICES ASSUME NEW t \in Threads, pc'[t] = "work" PROVE Applied(idx[t], cur[t], plan[t], ask[t])'
  BY DEF AppliedInv
<1>1. Applied(idx'[t], cur'[t], plan'[t], ask'[t])
  BY DEF AppliedInv
<1> QED BY <1>1, AppliedPrime

\* The call that holds the mutex goes on.
LEMMA AppliedOthers ==
    ASSUME LockInv, crashes' = crashes, NEW t \in Threads, pc[t] \in Held,
           \A u \in Threads : u # t => pc'[u] = pc[u],
           pc'[t] = "work" => Applied(idx'[t], cur'[t], plan'[t], ask'[t])
    PROVE  AppliedInv'
<1> SUFFICES ASSUME NEW u \in Threads, pc'[u] = "work" PROVE Applied(idx[u], cur[u], plan[u], ask[u])'
  BY DEF AppliedInv
<1>1. u = t
  BY OneHolder DEF LockInv
<1> QED BY <1>1, AppliedPrime

\* Every step keeps it: a batch begins with all its steps waiting, a call
\* undoes nothing that was done, and a step that has ended has done its part.
LEMMA AppliedNext ==
    LockInv /\ PlanInv /\ (Registry => WholeInv) /\ AppliedInv /\ [Next]_vars => AppliedInv'
<1> SUFFICES ASSUME LockInv, PlanInv, Registry => WholeInv, AppliedInv, [Next]_vars PROVE AppliedInv'
  OBVIOUS
<1>0. TypeOK /\ Shapes /\ StepsInPlace /\ StepsOfLoop /\ ControllerInv /\ ViewInv
  BY TypeShapes DEF LockInv, PlanInv
<1>1. CASE Crash
  BY <1>1 DEF Crash, AppliedInv
<1>2. crashes' = crashes \/ Crash
  BY DEF Next, Step, vars, ChangeDesired, ControllerGet, ControllerPost, ControllerRest, ProbeStart,
         CacheExpire, Cancel, Acquire, DrainRetrieve, DrainPickRepair, DrainPickCleanup, DrainEnd,
         RecordsCached, RecordsRetrieve, ApplyRetrieve, ApplyPick, CallOk, Confirmed, DrainError,
         ApplyError, Abandon, StepDone, ApplyEnd, Reply
<1> DEFINE Calm == ~Crash
<1>3. ASSUME NEW t \in Threads, pc[t] = "work"
      PROVE  /\ \A s \in ask[t] : Asked(s)
             /\ Applied(idx[t], cur[t], plan[t], ask[t])
             /\ idx[t] \in SUBSET Records
  BY <1>0, <1>3 DEF Shapes, StepsOfLoop, Asked, AppliedInv, Applied
<1>4. CASE Calm /\ (ChangeDesired \/ ControllerRest \/ CacheExpire \/ UNCHANGED vars)
  <2>1. UNCHANGED <<pc, idx, cur, plan, ask>>
    BY <1>4 DEF ChangeDesired, ControllerRest, CacheExpire, vars
  <2> QED BY <1>2, <1>4, <2>1, AppliedStill
<1>5. ASSUME Calm, NEW h \in Threads, pc[h] \notin Held, NEW place, place # "work",
             pc' = [pc EXCEPT ![h] = place],
             \A u \in Threads : u # h => idx'[u] = idx[u] /\ ask'[u] = ask[u],
             UNCHANGED <<cur, plan>>
      PROVE  AppliedInv'
  <2>1. \A u \in Threads : pc'[u] = "work" => u # h /\ pc[u] = "work"
    BY <1>0, <1>5 DEF Shapes
  <2> QED BY <1>2, <1>5, <2>1, AppliedStill
<1>6. ASSUME Calm, NEW h \in Handlers, ControllerGet(h) \/ ControllerPost(h) PROVE AppliedInv'
  <2>1. /\ pc[h] = "idle" /\ pc' = [pc EXCEPT ![h] = "queued"]
        /\ \A u \in Threads : u # h => idx'[u] = idx[u] /\ ask'[u] = ask[u]
        /\ UNCHANGED <<cur, plan>>
    BY <1>0, <1>6 DEF ControllerGet, ControllerPost, Shapes
  <2> QED BY <1>5, <1>6, <2>1
<1>7. CASE Calm /\ ProbeStart
  BY <1>5, <1>7 DEF ProbeStart
<1>8. ASSUME Calm, NEW t \in Threads, Cancel(t) PROVE AppliedInv'
  <2>1. UNCHANGED <<pc, idx, cur, plan, ask>>
    BY <1>8 DEF Cancel
  <2> QED BY <1>2, <1>8, <2>1, AppliedStill
<1>9. ASSUME Calm, NEW t \in Threads, Acquire(t) \/ Reply(t) PROVE AppliedInv'
  <2>1. /\ pc[t] \notin Held
        /\ \E place \in {"idle", "read", "drainRead"} : pc' = [pc EXCEPT ![t] = place]
        /\ \A u \in Threads : u # t => idx'[u] = idx[u] /\ ask'[u] = ask[u]
        /\ UNCHANGED <<cur, plan>>
    BY <1>0, <1>9 DEF Acquire, Reply, Shapes
  <2> QED BY <1>5, <1>9, <2>1
<1>10. ASSUME Calm, NEW t \in Threads,
              \/ DrainRetrieve(t) \/ DrainPickRepair(t) \/ DrainPickCleanup(t) \/ DrainEnd(t)
              \/ RecordsCached(t) \/ RecordsRetrieve(t) \/ DrainError(t) \/ ApplyError(t) \/ ApplyEnd(t)
       PROVE  AppliedInv'
  <2>1. /\ pc[t] \in Held
        /\ \/ pc[t] = "drain" /\ pc' = pc
           \/ \E place \in {"read", "drainRead", "drain", "reply"} : pc' = [pc EXCEPT ![t] = place]
    BY <1>10 DEF DrainRetrieve, DrainPickRepair, DrainPickCleanup, DrainEnd, RecordsCached, RecordsRetrieve,
                 DrainError, ApplyError, Abandon, ApplyEnd, Return
  <2>2. pc'[t] # "work" /\ \A u \in Threads : u # t => pc'[u] = pc[u]
    BY <1>0, <2>1 DEF Shapes
  <2> QED BY <1>2, <1>10, <2>1, <2>2, AppliedOthers
<1>11. ASSUME Calm, NEW t \in Threads, ApplyRetrieve(t) PROVE AppliedInv'
  <2>1. pc[t] = "read" /\ op[t] = "apply"
    BY <1>11 DEF ApplyRetrieve
  <2>2. CASE Return(t, TRUE)
    <3>1. pc'[t] = "reply" /\ \A u \in Threads : u # t => pc'[u] = pc[u]
      BY <1>0, <2>2 DEF Return, Shapes
    <3> QED BY <1>2, <1>11, <2>1, <3>1, AppliedOthers
  <2>3. CASE /\ Retrieve(t) /\ pc' = [pc EXCEPT ![t] = "work"] /\ plan' = [plan EXCEPT ![t] = ask[t]]
             /\ UNCHANGED <<cur, ask>>
    <3>1. ctx[t] /\ idx' = [idx EXCEPT ![t] = zone]
      BY <2>3 DEF Retrieve
    <3>2. t = mine /\ ~failed[t]
      BY <1>0, <2>1, <3>1 DEF ControllerInv
    <3>3. PICK want \in [Owned -> Wants] : ask[t] = Batch(zone, want)
      BY <1>0, <2>1, <3>2 DEF ViewInv
    <3>4. Applied(zone, {}, ask[t], ask[t])
      BY <1>0, <3>3, BatchApplied DEF TypeOK
    <3>5. /\ plan'[t] = ask[t] /\ cur'[t] = {} /\ idx'[t] = zone /\ ask'[t] = ask[t]
          /\ \A u \in Threads : u # t => pc'[u] = pc[u]
      BY <1>0, <2>1, <2>3, <3>1 DEF Shapes, StepsInPlace
    <3> QED BY <1>2, <1>11, <2>1, <3>4, <3>5, AppliedOthers
  <2> QED BY <1>11, <2>2, <2>3 DEF ApplyRetrieve
<1>12. ASSUME Calm, NEW t \in Threads, ApplyPick(t) PROVE AppliedInv'
  <2>1. pc[t] = "work" /\ cur[t] = {} /\ UNCHANGED <<pc, idx, ask>>
    BY <1>12 DEF ApplyPick
  <2>2. PICK q \in plan[t] : cur' = [cur EXCEPT ![t] = {q}] /\ plan' = [plan EXCEPT ![t] = plan[t] \ {q}]
    BY <1>0, <1>12 DEF ApplyPick, Shapes
  <2>3. cur'[t] = {q} /\ plan'[t] = plan[t] \ {q}
    BY <1>0, <2>2 DEF Shapes
  <2>4. Applied(idx[t], {q}, plan[t] \ {q}, ask[t])
    BY <1>3, <2>1, AppliedPick
  <2> QED BY <1>2, <1>12, <2>1, <2>3, <2>4, AppliedOthers
<1>13. ASSUME Calm, NEW t \in Threads, CallOk(t) PROVE AppliedInv'
  <2>1. pc[t] \in {"drain", "work"}
    BY <1>13 DEF CallOk
  <2>2. PICK q \in cur[t] : \E c \in NextCalls(t, q) : Confirmed(t, q, c)
    BY <1>13 DEF CallOk
  <2>3. PICK call \in NextCalls(t, q) : Confirmed(t, q, call)
    BY <2>2
  <2>4. idx' = [idx EXCEPT ![t] = Effect(idx[t], call)] /\ UNCHANGED <<pc, ask, plan, cur>>
    BY <1>0, <2>3, CallGuarded DEF Confirmed, Shapes
  <2>5. PICK i \in Ids : call \in Calls(Task(q), idx[t], i)
    BY <2>2, CallOfStep
  <2>6. idx'[t] = Effect(idx[t], call) /\ cur[t] = {q}
    BY <1>0, <2>2, <2>4 DEF Shapes, StepsInPlace
  <2>7. pc[t] = "work" => Applied(idx'[t], cur[t], plan[t], ask[t])
    BY <1>3, <2>5, <2>6, AppliedCall
  <2> QED BY <1>2, <1>13, <2>1, <2>4, <2>7, AppliedOthers
<1>14. ASSUME Calm, NEW t \in Threads, StepDone(t) PROVE AppliedInv'
  <2>1. pc[t] \in {"drain", "work"} /\ UNCHANGED <<pc, idx, ask, plan>>
    BY <1>14 DEF StepDone
  <2>2. PICK q \in cur[t] : Done(Task(q), idx[t]) /\ cur' = [cur EXCEPT ![t] = After(q)]
    BY <1>14 DEF StepDone
  <2>3. cur'[t] = After(q) /\ cur[t] = {q}
    BY <1>0, <2>2 DEF Shapes, StepsInPlace
  <2>4. pc[t] = "work" /\ Registry /\ crashes = 0 => Known(idx[t], q)
    BY <2>2 DEF WholeInv, DamageInBatch, Sheltered
  <2>5. pc[t] = "work" => Applied(idx[t], After(q), plan[t], ask[t])
    BY <1>3, <2>2, <2>3, <2>4, AppliedDone
  <2> QED BY <1>2, <1>14, <2>1, <2>3, <2>5, AppliedOthers
<1> QED BY <1>1, <1>4, <1>6, <1>7, <1>8, <1>9, <1>10, <1>11, <1>12, <1>13, <1>14 DEF Next, Step

\* A batch that ends without an error has done all of it, with a registry or
\* without: nothing it deletes is left, and everything it creates or updates is
\* there exactly once with the wanted attributes (the passes of ApplyChanges,
\* updateEndpoint and convergeTarget, whatever duplicates the zone had).
THEOREM BatchApplies ==
    ASSUME Registry => WholeStart
    PROVE  Spec => []AppliedWhenDone
<1>1. Init => LockInv /\ PlanInv /\ AppliedInv
  BY LockInit, PlanInit DEF Init, AppliedInv
<1>2. AppliedInv => AppliedWhenDone
  BY DEF AppliedInv, Applied, AppliedWhenDone
<1>3. CASE Registry
  <2>1. Spec => [](LockInv /\ OwnershipInv /\ WholeInv)
    BY <1>3, WholeAlways
  <2>2. OwnershipInv => PlanInv
    BY DEF OwnershipInv
  <2> QED BY <1>1, <1>2, <2>1, <2>2, AppliedNext, PTL DEF Spec
<1>4. CASE ~Registry
  <2>1. LockInv /\ PlanInv /\ AppliedInv /\ [Next]_vars => (LockInv /\ PlanInv /\ AppliedInv)'
    BY <1>4, LockNext, PlanNext, AppliedNext
  <2> QED BY <1>1, <1>2, <2>1, PTL DEF Spec
<1> QED BY <1>3, <1>4
===============================================================================
