--------------------------- MODULE ZoneIndexProofs ---------------------------
(* What the calls of an endpoint operation can do to a zone, whatever the    *)
(* zone holds.                                                               *)
EXTENDS ZoneIndex, FiniteSetTheorems, WellFoundedInduction, TLAPS

\* A nonempty set of naturals has a least element.
LEMMA LeastOfNats ==
    ASSUME NEW S \in SUBSET Nat, S # {}
    PROVE  \E x \in S : \A y \in S : x <= y
<1>1. PICK x \in S : \A y \in S : ~(<<y, x>> \in OpToRel(<, Nat))
  BY NatLessThanWellFounded, WFMin
<1>2. \A y \in S : x <= y
  <2>1. SUFFICES ASSUME NEW y \in S, y < x PROVE FALSE
    OBVIOUS
  <2>2. <<y, x>> \in Nat \X Nat /\ <<y, x>>[1] < <<y, x>>[2]
    BY <2>1
  <2>3. <<y, x>> \in OpToRel(<, Nat)
    BY <2>2, Zenon DEF OpToRel
  <2> QED BY <1>1, <2>3
<1> QED BY <1>2

\* A task that the index and the calls are well typed for.
TaskOK(task) ==
    /\ task.kind \in {"primary", "marker"}
    /\ task.of \in Owned
    /\ task.keep \subseteq AllContents
    /\ task.attr \in Attrs

\* Only a delete puts nothing.
LEMMA PutOrDelete ==
    ASSUME NEW task, NEW r, NEW c, NEW id
    PROVE  /\ EditCall(r, task, c).put # {}
           /\ CreateCall(task, c, id).put # {}
           /\ DeleteCall(r).put = {}
BY DEF EditCall, CreateCall, DeleteCall

\* A call only cuts records of the task's identity that are in the index, and
\* only puts records of that identity with a kept content (every loop of
\* provider.go starts from index.match); every call but a delete puts one.
LEMMA CallShape ==
    ASSUME NEW task,
           NEW idx \in SUBSET Records,
           NEW id \in Ids, NEW call \in Calls(task, idx, id),
           TaskOK(task)
    PROVE  /\ \A r \in call.cut : r \in idx /\ r.kind = task.kind /\ r.of = task.of
           /\ \A r \in call.put : /\ r \in Records
                                  /\ r.kind = task.kind /\ r.of = task.of /\ r.content \in task.keep
           /\ call.put = {} => \E r \in idx : r.kind = task.kind /\ r.of = task.of /\ call = DeleteCall(r)
<1> DEFINE Mine(r) == r \in idx /\ r.kind = task.kind /\ r.of = task.of
           drops == Match(idx, task.kind, task.of, task.drop)
           moves == Match(idx, task.kind, task.of, task.move)
<1>1. ASSUME NEW r, Mine(r), call = DeleteCall(r)
      PROVE  /\ \A q \in call.cut : Mine(q)
             /\ call.put = {}
  BY <1>1 DEF DeleteCall
<1>2. ASSUME NEW r, Mine(r), NEW c \in task.keep, call = EditCall(r, task, c)
      PROVE  /\ \A q \in call.cut : Mine(q)
             /\ call.put # {}
             /\ \A q \in call.put : q \in Records /\ q.kind = task.kind /\ q.of = task.of /\ q.content \in task.keep
  <2> DEFINE q == [r EXCEPT !.content = c, !.attr = task.attr]
  <2>1. call.cut = {r} /\ call.put = {q}
    BY <1>2 DEF EditCall
  <2>2. r \in Records
    BY <1>2
  <2>3. q \in Records /\ q.kind = r.kind /\ q.of = r.of /\ q.content = c
    BY <2>2, c \in AllContents, task.attr \in Attrs DEF Records, TaskOK
  <2> QED BY <1>2, <2>1, <2>3
<1>3. ASSUME NEW c \in task.keep, call = CreateCall(task, c, id)
      PROVE  /\ call.cut = {}
             /\ call.put # {}
             /\ \A q \in call.put : q \in Records /\ q.kind = task.kind /\ q.of = task.of /\ q.content \in task.keep
  <2> DEFINE q == [id |-> id, kind |-> task.kind, of |-> task.of, content |-> c, attr |-> task.attr]
  <2>1. call.cut = {} /\ call.put = {q}
    BY <1>3 DEF CreateCall
  <2>2. q \in Records
    BY c \in AllContents, task.kind \in {"primary", "marker"}, task.of \in Owned, task.attr \in Attrs
       DEF Records, TaskOK
  <2> QED BY <1>3, <2>1, <2>2
<1>4. CASE drops # {}
  <2>1. PICK r \in Earliest(drops) : call = DeleteCall(r)
    BY <1>4 DEF Calls
  <2>2. Mine(r)
    BY <2>1 DEF Earliest, Match
  <2> QED BY <2>1, <2>2, <1>1
<1>5. CASE drops = {} /\ moves # {}
  <2>1. PICK r \in Earliest(moves), c \in task.keep : call = EditCall(r, task, c)
    BY <1>5 DEF Calls
  <2>2. Mine(r)
    BY <2>1 DEF Earliest, Match
  <2> QED BY <2>1, <2>2, <1>2
<1>6. CASE drops = {} /\ moves = {}
  <2>1. PICK c \in task.keep : call \in ConvergeTarget(task, idx, c, id)
    BY <1>6 DEF Calls, Open
  <2> DEFINE dups   == Match(idx, task.kind, task.of, {c})
             keeper == PreferredRecord(dups, task.attr)
             stale  == {r \in keeper : r.attr # task.attr}
  <2>2. \A r \in dups : Mine(r)
    BY DEF Match
  <2>3. CASE call = CreateCall(task, c, id)
    BY <2>3, <1>3
  <2>4. CASE \E r \in stale : call = EditCall(r, task, c)
    <3>1. PICK r \in stale : call = EditCall(r, task, c)
      BY <2>4
    <3>2. Mine(r)
      BY <3>1, <2>2 DEF PreferredRecord
    <3> QED BY <3>1, <3>2, <1>2
  <2>5. CASE \E r \in Earliest(dups \ keeper) : call = DeleteCall(r)
    <3>1. PICK r \in Earliest(dups \ keeper) : call = DeleteCall(r)
      BY <2>5
    <3>2. Mine(r)
      BY <3>1, <2>2 DEF Earliest
    <3> QED BY <3>1, <3>2, <1>1
  <2> QED BY <2>1, <2>3, <2>4, <2>5 DEF ConvergeTarget
<1> QED BY <1>4, <1>5, <1>6

\* Removing duplicates never removes the last record of an identity: a task
\* that drops nothing leaves a record of it (convergeTarget keeps its keeper).
LEMMA ConvergeKeepsOne ==
    ASSUME NEW task,
           NEW idx \in SUBSET Records,
           NEW id \in Ids, NEW call \in Calls(task, idx, id),
           TaskOK(task),
           Match(idx, task.kind, task.of, task.drop) = {}
    PROVE  \E r \in Effect(idx, call) : r.kind = task.kind /\ r.of = task.of
<1>1. CASE call.put # {}
  <2>1. PICK r \in call.put : r.kind = task.kind /\ r.of = task.of
    BY <1>1, CallShape
  <2> QED BY <2>1 DEF Effect
<1>2. CASE call.put = {}
  <2> DEFINE moves == Match(idx, task.kind, task.of, task.move)
  <2>1. moves = {}
    <3>1. SUFFICES ASSUME moves # {} PROVE FALSE
      OBVIOUS
    <3>2. PICK r \in Earliest(moves), c \in task.keep : call = EditCall(r, task, c)
      BY <3>1 DEF Calls
    <3> QED BY <3>2, <1>2, PutOrDelete
  <2>2. PICK c \in task.keep : call \in ConvergeTarget(task, idx, c, id)
    BY <2>1 DEF Calls, Open
  <2> DEFINE dups   == Match(idx, task.kind, task.of, {c})
             keeper == PreferredRecord(dups, task.attr)
  <2>3. PICK r \in Earliest(dups \ keeper) : call = DeleteCall(r)
    BY <1>2, <2>2, PutOrDelete DEF ConvergeTarget
  <2>4. r \in dups /\ r \notin keeper
    BY <2>3 DEF Earliest
  <2>5. PICK q \in dups : q # r
    <3>1. SUFFICES ASSUME dups = {r} PROVE r \in keeper
      BY <2>4
    <3>2. r.id \in Nat
      BY <2>4, ZoneAssumption DEF Match, Records
    <3>3. r.id <= r.id
      BY <3>2
    <3> QED BY <2>4, <3>1, <3>3 DEF PreferredRecord
  <2>6. q \in Effect(idx, call) /\ q.kind = task.kind /\ q.of = task.of
    BY <2>3, <2>5 DEF Match, Effect, DeleteCall
  <2> QED BY <2>6
<1> QED BY <1>1, <1>2

\* A finished task has left nothing of what it had to drop, and one record at
\* least of everything it had to keep.
LEMMA DoneMeans ==
    ASSUME NEW task, NEW idx, Done(task, idx)
    PROVE  /\ \A r \in idx : r.kind = task.kind /\ r.of = task.of => r.content \notin task.drop
           /\ \A c \in task.keep :
                 \E r \in idx : r.kind = task.kind /\ r.of = task.of /\ r.content = c
BY DEF Done, Open, Settled, Match

------------------------------------------------------------------------------
(* An endpoint operation ends.  Its loops have no bound of their own: they   *)
(* go through the records of the index and the kept targets, and every call  *)
(* they make has to leave less to do.                                        *)

\* Nothing a task drops or edits away is a content it keeps, and it keeps
\* something if it edits anything.
TaskFits(task) ==
    /\ TaskOK(task)
    /\ task.drop \cap task.keep = {}
    /\ task.move \cap task.keep = {}
    /\ task.move # {} => task.keep # {}

Own(task, idx)     == {r \in idx : r.kind = task.kind /\ r.of = task.of}
OffAttr(task, idx) == {r \in Own(task, idx) : r.attr # task.attr}
Moving(task, idx)  == Match(idx, task.kind, task.of, task.move)
Missing(task, idx) == {c \in task.keep : \A r \in Own(task, idx) : r.content # c}

\* A bound on the calls that are left: every record is deleted at most, edited
\* for its attributes at most and moved at most; a missing content costs a
\* create, which adds a record.
CallsLeft(task, idx) ==
    Cardinality(Own(task, idx)) + Cardinality(OffAttr(task, idx)) + Cardinality(Moving(task, idx))
      + 2 * Cardinality(Missing(task, idx))

\* The bound is a number.
LEMMA LeftFinite ==
    ASSUME NEW task, NEW idx, IsFiniteSet(idx), IsFiniteSet(task.keep)
    PROVE  /\ IsFiniteSet(Own(task, idx)) /\ Cardinality(Own(task, idx)) \in Nat
           /\ IsFiniteSet(OffAttr(task, idx)) /\ Cardinality(OffAttr(task, idx)) \in Nat
           /\ IsFiniteSet(Moving(task, idx)) /\ Cardinality(Moving(task, idx)) \in Nat
           /\ IsFiniteSet(Missing(task, idx)) /\ Cardinality(Missing(task, idx)) \in Nat
           /\ CallsLeft(task, idx) \in Nat
<1>1. /\ Own(task, idx) \in SUBSET idx /\ OffAttr(task, idx) \in SUBSET idx
      /\ Moving(task, idx) \in SUBSET idx /\ Missing(task, idx) \in SUBSET task.keep
  BY DEF Own, OffAttr, Moving, Missing, Match
<1>2. /\ IsFiniteSet(Own(task, idx)) /\ IsFiniteSet(OffAttr(task, idx))
      /\ IsFiniteSet(Moving(task, idx)) /\ IsFiniteSet(Missing(task, idx))
  BY <1>1, FS_Subset
<1>3. /\ Cardinality(Own(task, idx)) \in Nat /\ Cardinality(OffAttr(task, idx)) \in Nat
      /\ Cardinality(Moving(task, idx)) \in Nat /\ Cardinality(Missing(task, idx)) \in Nat
  BY <1>2, FS_CardinalityType
<1> QED BY <1>2, <1>3 DEF CallsLeft

\* A finite set that lost an element is smaller.
LEMMA SmallerWithout ==
    ASSUME NEW S, NEW T, NEW x \in S, IsFiniteSet(S), T \subseteq S \ {x}
    PROVE  Cardinality(T) < Cardinality(S) /\ Cardinality(T) \in Nat /\ Cardinality(S) \in Nat
<1>1. IsFiniteSet(S \ {x}) /\ Cardinality(S \ {x}) = Cardinality(S) - 1
  BY FS_RemoveElement
<1>2. IsFiniteSet(T) /\ Cardinality(T) <= Cardinality(S \ {x})
  BY <1>1, FS_Subset
<1>3. Cardinality(T) \in Nat /\ Cardinality(S) \in Nat
  BY <1>2, FS_CardinalityType
<1> QED BY <1>1, <1>2, <1>3

\* A delete leaves less to do when it misses nothing.
LEMMA DeleteLeavesLess ==
    ASSUME NEW task, NEW idx, IsFiniteSet(idx), IsFiniteSet(task.keep),
           NEW r \in Own(task, idx),
           r.content \in task.keep => \E q \in Own(task, idx) : q # r /\ q.content = r.content
    PROVE  CallsLeft(task, Effect(idx, DeleteCall(r))) < CallsLeft(task, idx)
<1> DEFINE z == Effect(idx, DeleteCall(r))
<1>1. z = idx \ {r}
  BY DEF Effect, DeleteCall
<1>2. IsFiniteSet(z)
  BY <1>1, FS_RemoveElement
<1>3. Own(task, z) \subseteq Own(task, idx) \ {r}
  BY <1>1 DEF Own
<1>4. OffAttr(task, z) \subseteq OffAttr(task, idx) /\ Moving(task, z) \subseteq Moving(task, idx)
  BY <1>1 DEF OffAttr, Moving, Own, Match
<1>5. Missing(task, z) \subseteq Missing(task, idx)
  <2>1. SUFFICES ASSUME NEW c \in task.keep, NEW q \in Own(task, idx), q.content = c
                 PROVE  \E x \in Own(task, z) : x.content = c
    BY DEF Missing
  <2>2. PICK x \in Own(task, idx) : x # r /\ x.content = c
    BY <2>1
  <2>3. x \in Own(task, z)
    BY <2>2, <1>1 DEF Own
  <2> QED BY <2>2, <2>3
<1> HIDE DEF z
<1>6. Cardinality(Own(task, z)) < Cardinality(Own(task, idx))
  BY <1>3, LeftFinite, SmallerWithout
<1>7. /\ Cardinality(OffAttr(task, z)) <= Cardinality(OffAttr(task, idx))
      /\ Cardinality(Moving(task, z)) <= Cardinality(Moving(task, idx))
      /\ Cardinality(Missing(task, z)) <= Cardinality(Missing(task, idx))
  BY <1>4, <1>5, LeftFinite, FS_Subset
<1>8. CallsLeft(task, z) < CallsLeft(task, idx)
  BY <1>2, <1>6, <1>7, LeftFinite DEF CallsLeft
<1> QED BY <1>8 DEF z

\* An edit leaves less to do when it moves a record or gives one the wanted
\* attributes.
LEMMA EditLeavesLess ==
    ASSUME NEW task, NEW idx \in SUBSET Records, IsFiniteSet(idx), IsFiniteSet(task.keep),
           TaskFits(task), NEW r \in Own(task, idx), NEW c \in task.keep,
           \/ r.content \in task.move
           \/ r.content = c /\ r.attr # task.attr
    PROVE  CallsLeft(task, Effect(idx, EditCall(r, task, c))) < CallsLeft(task, idx)
<1> DEFINE z == Effect(idx, EditCall(r, task, c))
           e == [r EXCEPT !.content = c, !.attr = task.attr]
<1>1. z = (idx \ {r}) \cup {e}
  BY DEF Effect, EditCall
<1>2. r \in Records /\ r.kind = task.kind /\ r.of = task.of
  BY DEF Own
<1>3. e.kind = r.kind /\ e.of = r.of /\ e.content = c /\ e.attr = task.attr
  BY <1>2 DEF Records
<1>4. c \notin task.move /\ (r.content \in task.keep => r.content = c)
  BY DEF TaskFits
<1> HIDE DEF e
<1>5. IsFiniteSet(z)
  <2>1. IsFiniteSet(idx \ {r})
    BY FS_RemoveElement
  <2>2. IsFiniteSet((idx \ {r}) \cup {e})
    BY <2>1, FS_AddElement
  <2> QED BY <2>2, <1>1
<1>6. Cardinality(Own(task, z)) <= Cardinality(Own(task, idx))
  <2>1. Own(task, z) = (Own(task, idx) \ {r}) \cup {e}
    BY <1>1, <1>2, <1>3 DEF Own
  <2>2. IsFiniteSet(Own(task, idx) \ {r}) /\ Cardinality(Own(task, idx) \ {r}) = Cardinality(Own(task, idx)) - 1
    BY LeftFinite, FS_RemoveElement
  <2>3. \/ Cardinality(Own(task, z)) = Cardinality(Own(task, idx) \ {r})
        \/ Cardinality(Own(task, z)) = Cardinality(Own(task, idx) \ {r}) + 1
    BY <2>1, <2>2, FS_AddElement
  <2> QED BY <2>2, <2>3, LeftFinite
<1>7. OffAttr(task, z) \subseteq OffAttr(task, idx) \ {r}
  BY <1>1, <1>3 DEF OffAttr, Own
<1>8. Moving(task, z) \subseteq Moving(task, idx) \ {r}
  BY <1>1, <1>3, <1>4 DEF Moving, Match
<1>9. Missing(task, z) \subseteq Missing(task, idx)
  <2>1. SUFFICES ASSUME NEW d \in task.keep, NEW q \in Own(task, idx), q.content = d
                 PROVE  \E x \in Own(task, z) : x.content = d
    BY DEF Missing
  <2>2. CASE q = r
    BY <2>1, <2>2, <1>1, <1>2, <1>3, <1>4 DEF Own
  <2>3. CASE q # r
    BY <2>1, <2>3, <1>1 DEF Own
  <2> QED BY <2>2, <2>3
<1> HIDE DEF z
<1>10. /\ Cardinality(OffAttr(task, z)) <= Cardinality(OffAttr(task, idx))
       /\ Cardinality(Moving(task, z)) <= Cardinality(Moving(task, idx))
       /\ Cardinality(Missing(task, z)) <= Cardinality(Missing(task, idx))
  BY <1>7, <1>8, <1>9, LeftFinite, FS_Subset
<1>11. \/ Cardinality(OffAttr(task, z)) < Cardinality(OffAttr(task, idx))
       \/ Cardinality(Moving(task, z)) < Cardinality(Moving(task, idx))
  <2>1. CASE r.content \in task.move
    <3>1. r \in Moving(task, idx)
      BY <2>1 DEF Moving, Match, Own
    <3> QED BY <3>1, <1>8, LeftFinite, SmallerWithout
  <2>2. CASE r.attr # task.attr
    <3>1. r \in OffAttr(task, idx)
      BY <2>2 DEF OffAttr
    <3> QED BY <3>1, <1>7, LeftFinite, SmallerWithout
  <2> QED BY <2>1, <2>2
<1>12. CallsLeft(task, z) < CallsLeft(task, idx)
  BY <1>5, <1>6, <1>10, <1>11, LeftFinite DEF CallsLeft
<1> QED BY <1>12 DEF z

\* A create of a missing content adds a record, but none that is to be
\* edited, and the content is missing no more.
LEMMA CreateLeavesLess ==
    ASSUME NEW task, NEW idx \in SUBSET Records, IsFiniteSet(idx), IsFiniteSet(task.keep),
           TaskFits(task), NEW c \in Missing(task, idx), NEW id
    PROVE  CallsLeft(task, Effect(idx, CreateCall(task, c, id))) < CallsLeft(task, idx)
<1> DEFINE z == Effect(idx, CreateCall(task, c, id))
           e == [id |-> id, kind |-> task.kind, of |-> task.of, content |-> c, attr |-> task.attr]
<1>1. z = idx \cup {e}
  BY DEF Effect, CreateCall
<1>2. e.kind = task.kind /\ e.of = task.of /\ e.content = c /\ e.attr = task.attr
  OBVIOUS
<1>3. c \notin task.move
  BY DEF TaskFits, Missing
<1> HIDE DEF e
<1>4. IsFiniteSet(z)
  <2>1. IsFiniteSet(idx \cup {e})
    BY FS_AddElement
  <2> QED BY <2>1, <1>1
<1>5. Cardinality(Own(task, z)) <= Cardinality(Own(task, idx)) + 1
  <2>1. Own(task, z) = Own(task, idx) \cup {e}
    BY <1>1, <1>2 DEF Own
  <2>2. \/ Cardinality(Own(task, z)) = Cardinality(Own(task, idx))
        \/ Cardinality(Own(task, z)) = Cardinality(Own(task, idx)) + 1
    BY <2>1, LeftFinite, FS_AddElement
  <2> QED BY <2>2, LeftFinite
<1>6. OffAttr(task, z) \subseteq OffAttr(task, idx) /\ Moving(task, z) \subseteq Moving(task, idx)
  BY <1>1, <1>2, <1>3 DEF OffAttr, Own, Moving, Match
<1>7. Missing(task, z) \subseteq Missing(task, idx) \ {c}
  BY <1>1, <1>2 DEF Missing, Own
<1> HIDE DEF z
<1>8. Cardinality(Missing(task, z)) < Cardinality(Missing(task, idx))
  BY <1>7, LeftFinite, SmallerWithout
<1>9. /\ Cardinality(OffAttr(task, z)) <= Cardinality(OffAttr(task, idx))
      /\ Cardinality(Moving(task, z)) <= Cardinality(Moving(task, idx))
  BY <1>6, LeftFinite, FS_Subset
<1>10. CallsLeft(task, z) < CallsLeft(task, idx)
  BY <1>4, <1>5, <1>8, <1>9, LeftFinite DEF CallsLeft
<1> QED BY <1>10 DEF z

\* convergeTarget deletes a duplicate only while another record has the
\* content.
LEMMA AnotherStays ==
    ASSUME NEW S \in SUBSET Records, NEW attr, NEW r \in S, r \notin PreferredRecord(S, attr)
    PROVE  \E q \in S : q # r
<1>1. SUFFICES ASSUME S = {r} PROVE r \in PreferredRecord(S, attr)
  OBVIOUS
<1>2. r.id \in Nat
  BY ZoneAssumption DEF Records
<1>3. r.id <= r.id
  BY <1>2
<1> QED BY <1>1, <1>3 DEF PreferredRecord

\* Every call of an endpoint operation, confirmed and taken into the index,
\* leaves it less to do, so it makes no more calls than CallsLeft says when it
\* starts: no loop of deletes, edits and creates that undo each other,
\* whatever duplicates, types and TTLs the zone holds (createEndpoint,
\* updateEndpoint, deleteEndpoint, convergeTarget).
THEOREM OperationEnds ==
    ASSUME NEW task, NEW idx \in SUBSET Records, IsFiniteSet(idx), IsFiniteSet(task.keep),
           TaskFits(task), NEW id \in Ids, NEW call \in Calls(task, idx, id)
    PROVE  /\ CallsLeft(task, idx) \in Nat
           /\ CallsLeft(task, Effect(idx, call)) < CallsLeft(task, idx)
<1> DEFINE drops == Match(idx, task.kind, task.of, task.drop)
           moves == Match(idx, task.kind, task.of, task.move)
<1>1. CallsLeft(task, idx) \in Nat
  BY LeftFinite
<1>2. CASE drops # {}
  <2>1. PICK r \in Earliest(drops) : call = DeleteCall(r)
    BY <1>2 DEF Calls
  <2>2. r \in Own(task, idx) /\ r.content \notin task.keep
    BY <2>1 DEF Earliest, Match, Own, TaskFits
  <2> QED BY <1>1, <2>1, <2>2, DeleteLeavesLess
<1>3. CASE drops = {} /\ moves # {}
  <2>1. PICK r \in Earliest(moves), c \in task.keep : call = EditCall(r, task, c)
    BY <1>3 DEF Calls
  <2>2. r \in Own(task, idx) /\ r.content \in task.move
    BY <2>1 DEF Earliest, Match, Own
  <2> QED BY <1>1, <2>1, <2>2, EditLeavesLess
<1>4. CASE drops = {} /\ moves = {}
  <2>1. PICK c \in task.keep : call \in ConvergeTarget(task, idx, c, id)
    BY <1>4 DEF Calls, Open
  <2> DEFINE dups   == Match(idx, task.kind, task.of, {c})
             keeper == PreferredRecord(dups, task.attr)
             stale  == {r \in keeper : r.attr # task.attr}
  <2>2. \A r \in dups : r \in Own(task, idx) /\ r.content = c
    BY DEF Match, Own
  <2>3. CASE dups = {} /\ call = CreateCall(task, c, id)
    <3>1. c \in Missing(task, idx)
      BY <2>3 DEF Missing, Match, Own
    <3> QED BY <1>1, <2>3, <3>1, CreateLeavesLess
  <2>4. CASE \E r \in stale : call = EditCall(r, task, c)
    <3>1. PICK r \in stale : call = EditCall(r, task, c)
      BY <2>4
    <3>2. r \in Own(task, idx) /\ r.content = c /\ r.attr # task.attr
      BY <3>1, <2>2 DEF PreferredRecord
    <3> QED BY <1>1, <3>1, <3>2, EditLeavesLess
  <2>5. CASE \E r \in Earliest(dups \ keeper) : call = DeleteCall(r)
    <3>1. PICK r \in Earliest(dups \ keeper) : call = DeleteCall(r)
      BY <2>5
    <3>2. r \in dups /\ r \notin keeper
      BY <3>1 DEF Earliest
    <3>3. PICK q \in dups : q # r
      <4>1. dups \in SUBSET Records
        BY DEF Match
      <4> QED BY <3>2, <4>1, AnotherStays
    <3>4. r \in Own(task, idx) /\ q \in Own(task, idx) /\ q.content = r.content
      BY <2>2, <3>2, <3>3
    <3> QED BY <1>1, <3>1, <3>3, <3>4, DeleteLeavesLess
  <2>6. \/ dups = {} /\ call = CreateCall(task, c, id)
        \/ \E r \in stale : call = EditCall(r, task, c)
        \/ \E r \in Earliest(dups \ keeper) : call = DeleteCall(r)
    BY <2>1 DEF ConvergeTarget
  <2> QED BY <2>3, <2>4, <2>5, <2>6
<1> QED BY <1>2, <1>3, <1>4

\* The loops find a first record wherever there is one.
LEMMA EarliestExists ==
    ASSUME NEW S \in SUBSET Records, S # {}
    PROVE  Earliest(S) # {}
<1> DEFINE cs == {r.content : r \in S}
<1>1. \A r \in S : r.content \in Nat /\ r.id \in Nat
  BY ZoneAssumption DEF Records
<1>2. PICK c \in cs : \A d \in cs : c <= d
  BY <1>1, LeastOfNats
<1> DEFINE is == {r.id : r \in {q \in S : q.content = c}}
<1>3. PICK i \in is : \A j \in is : i <= j
  <2>1. is \in SUBSET Nat /\ is # {}
    BY <1>1, <1>2
  <2> QED BY <2>1, LeastOfNats
<1>4. PICK r \in S : r.content = c /\ r.id = i
  BY <1>3
<1>5. ASSUME NEW q \in S PROVE r.content < q.content \/ (r.content = q.content /\ r.id <= q.id)
  <2>1. r.content <= q.content
    BY <1>2, <1>4
  <2>2. q.content = c => r.id <= q.id
    BY <1>3, <1>4
  <2> QED BY <2>1, <2>2, <1>1, <1>4
<1>6. r \in Earliest(S)
  BY <1>4, <1>5 DEF Earliest
<1> QED BY <1>6

\* Among duplicates there is always one to keep.
LEMMA PreferredExists ==
    ASSUME NEW S \in SUBSET Records, S # {}, NEW attr
    PROVE  PreferredRecord(S, attr) # {}
<1> DEFINE Short(r) == 3 - Score(r, attr)
           shorts   == {Short(r) : r \in S}
<1>1. \A r \in S : r.id \in Nat
  BY ZoneAssumption DEF Records
<1>2. \A r \in S : Score(r, attr) \in 0..3
  BY DEF Score
<1>3. PICK n \in shorts : \A m \in shorts : n <= m
  <2>1. shorts \in SUBSET Nat /\ shorts # {}
    BY <1>2
  <2> QED BY <2>1, LeastOfNats
<1> DEFINE is == {r.id : r \in {q \in S : Short(q) = n}}
<1>4. PICK i \in is : \A j \in is : i <= j
  <2>1. is \in SUBSET Nat /\ is # {}
    BY <1>1, <1>3
  <2> QED BY <2>1, LeastOfNats
<1>5. PICK r \in S : Short(r) = n /\ r.id = i
  BY <1>4
<1>6. ASSUME NEW q \in S
      PROVE  Score(r, attr) > Score(q, attr) \/ (Score(r, attr) = Score(q, attr) /\ r.id <= q.id)
  <2>1. Short(r) <= Short(q)
    BY <1>3, <1>5
  <2>2. Short(q) = n => r.id <= q.id
    BY <1>4, <1>5
  <2> QED BY <2>1, <2>2, <1>2, <1>5
<1>7. r \in PreferredRecord(S, attr)
  BY <1>5, <1>6 DEF PreferredRecord
<1> QED BY <1>7

\* An endpoint operation stops exactly when all of its task is done: while
\* anything is left to drop, to edit or to converge it finds its next call,
\* and what is done costs no call.  Record ids tell records apart.
THEOREM StopsOnlyDone ==
    ASSUME NEW task, NEW idx \in SUBSET Records, TaskFits(task), NEW id \in Ids,
           IdsApart(idx)
    PROVE  Done(task, idx) <=> Calls(task, idx, id) = {}
<1> DEFINE drops == Match(idx, task.kind, task.of, task.drop)
           moves == Match(idx, task.kind, task.of, task.move)
           open  == Open(task, idx)
           first == {c \in open : \A d \in open : c <= d}
<1>1. Done(task, idx) <=> drops = {} /\ moves = {} /\ open = {}
  BY DEF Done
<1>2. drops = {} /\ moves = {} => Calls(task, idx, id) = UNION {ConvergeTarget(task, idx, c, id) : c \in first}
  BY DEF Calls
<1>3. ASSUME Done(task, idx) PROVE Calls(task, idx, id) = {}
  <2>1. first = {}
    BY <1>1, <1>3
  <2> HIDE DEF first
  <2> QED BY <1>1, <1>2, <1>3, <2>1
<1>4. ASSUME drops # {} PROVE Calls(task, idx, id) # {}
  <2>1. Calls(task, idx, id) = {DeleteCall(r) : r \in Earliest(drops)}
    BY <1>4 DEF Calls
  <2>2. drops \in SUBSET Records
    BY DEF Match
  <2>3. Earliest(drops) # {}
    BY <1>4, <2>2, EarliestExists
  <2> QED BY <2>1, <2>3
<1>5. ASSUME drops = {}, moves # {} PROVE Calls(task, idx, id) # {}
  <2>1. Calls(task, idx, id) = {EditCall(r, task, c) : r \in Earliest(moves), c \in task.keep}
    BY <1>5 DEF Calls
  <2>2. moves \in SUBSET Records
    BY DEF Match
  <2>3. Earliest(moves) # {} /\ task.keep # {}
    BY <1>5, <2>2, EarliestExists DEF TaskFits, Match
  <2> QED BY <2>1, <2>3
<1>6. ASSUME drops = {}, moves = {}, open # {} PROVE Calls(task, idx, id) # {}
  <2>1. open \in SUBSET Nat
    BY ZoneAssumption DEF Open, TaskFits, TaskOK
  <2>2. PICK c \in open : \A d \in open : c <= d
    BY <1>6, <2>1, LeastOfNats
  <2>3. c \in first /\ ~Settled(task, idx, c)
    BY <2>2 DEF Open
  <2> DEFINE dups   == Match(idx, task.kind, task.of, {c})
             keeper == PreferredRecord(dups, task.attr)
             stale  == {r \in keeper : r.attr # task.attr}
             next   == ConvergeTarget(task, idx, c, id)
  <2>4. /\ dups = {} => CreateCall(task, c, id) \in next
        /\ \A r \in stale : EditCall(r, task, c) \in next
        /\ stale = {} => \A r \in Earliest(dups \ keeper) : DeleteCall(r) \in next
    BY DEF ConvergeTarget
  <2>5. next # {}
    <3>1. CASE dups = {} \/ stale # {}
      BY <3>1, <2>4
    <3>2. CASE dups # {} /\ stale = {}
      <4>1. dups \in SUBSET Records /\ dups \subseteq idx
        BY DEF Match
      <4>2. PICK k : k \in keeper
        BY <3>2, <4>1, PreferredExists
      <4>3. k \in dups /\ k.attr = task.attr
        BY <3>2, <4>2 DEF PreferredRecord
      <4>4. PICK r \in dups : r # k
        BY <2>3, <4>3 DEF Settled
      <4>5. r \notin keeper
        <5>1. SUFFICES ASSUME r \in keeper PROVE FALSE
          OBVIOUS
        <5>2. /\ Score(r, task.attr) > Score(k, task.attr) \/ (Score(r, task.attr) = Score(k, task.attr) /\ r.id <= k.id)
              /\ Score(k, task.attr) > Score(r, task.attr) \/ (Score(k, task.attr) = Score(r, task.attr) /\ k.id <= r.id)
          BY <5>1, <4>2, <4>3, <4>4 DEF PreferredRecord
        <5>3. Score(r, task.attr) \in Nat /\ Score(k, task.attr) \in Nat /\ r.id \in Nat /\ k.id \in Nat
          <6>1. r \in Records /\ k \in Records
            BY <4>1, <4>3, <4>4
          <6>2. r.id \in Nat /\ k.id \in Nat
            BY <6>1, ZoneAssumption DEF Records
          <6>3. \A q : Score(q, task.attr) \in Nat
            BY DEF Score
          <6> QED BY <6>2, <6>3
        <5>4. r.id = k.id
          BY <5>2, <5>3
        <5> QED BY <5>4, <4>1, <4>3, <4>4 DEF IdsApart
      <4>6. dups \ keeper \in SUBSET Records /\ dups \ keeper # {}
        BY <4>1, <4>4, <4>5
      <4>7. Earliest(dups \ keeper) # {}
        BY <4>6, EarliestExists
      <4> QED BY <3>2, <4>7, <2>4
    <3> QED BY <3>1, <3>2
  <2> HIDE DEF first, next
  <2>6. next \subseteq UNION {ConvergeTarget(task, idx, d, id) : d \in first}
    BY <2>3 DEF next
  <2> QED BY <1>2, <1>6, <2>5, <2>6
<1> QED BY <1>1, <1>3, <1>4, <1>5, <1>6

\* A call deletes or edits one record of the index, or creates one with the
\* new id.
LEMMA CallKinds ==
    ASSUME NEW task, NEW idx, NEW id, NEW call \in Calls(task, idx, id)
    PROVE  \/ \E r \in idx : call = DeleteCall(r)
           \/ \E r \in idx, c \in task.keep : call = EditCall(r, task, c)
           \/ \E c \in task.keep : call = CreateCall(task, c, id)
<1> DEFINE drops == Match(idx, task.kind, task.of, task.drop)
           moves == Match(idx, task.kind, task.of, task.move)
<1>1. CASE drops # {}
  <2>1. PICK r \in Earliest(drops) : call = DeleteCall(r)
    BY <1>1 DEF Calls
  <2> QED BY <2>1 DEF Earliest, Match
<1>2. CASE drops = {} /\ moves # {}
  <2>1. PICK r \in Earliest(moves), c \in task.keep : call = EditCall(r, task, c)
    BY <1>2 DEF Calls
  <2> QED BY <2>1 DEF Earliest, Match
<1>3. CASE drops = {} /\ moves = {}
  <2>1. PICK c \in task.keep : call \in ConvergeTarget(task, idx, c, id)
    BY <1>3 DEF Calls, Open
  <2> DEFINE dups == Match(idx, task.kind, task.of, {c})
  <2>2. \/ \E r \in dups : call = DeleteCall(r)
        \/ \E r \in dups : call = EditCall(r, task, c)
        \/ call = CreateCall(task, c, id)
    BY <2>1 DEF ConvergeTarget, Earliest, PreferredRecord
  <2> QED BY <2>2 DEF Match
<1> QED BY <1>1, <1>2, <1>3

\* Ids go on to tell records apart: an edit keeps its record's id, a create
\* has a new one.
LEMMA CallApart ==
    ASSUME NEW task, NEW idx \in SUBSET Records, NEW id, NEW call \in Calls(task, idx, id),
           IdsApart(idx), \A r \in idx : r.id # id
    PROVE  IdsApart(Effect(idx, call))
<1>1. CASE \E r \in idx : call = DeleteCall(r)
  BY <1>1 DEF DeleteCall, Effect, IdsApart
<1>2. CASE \E r \in idx, c \in task.keep : call = EditCall(r, task, c)
  <2>1. PICK r \in idx, c \in task.keep : call = EditCall(r, task, c)
    BY <1>2
  <2> DEFINE e == [r EXCEPT !.content = c, !.attr = task.attr]
  <2>2. e.id = r.id
    BY DEF Records
  <2>3. Effect(idx, call) = (idx \ {r}) \cup {e}
    BY <2>1 DEF EditCall, Effect
  <2> HIDE DEF e
  <2> QED BY <2>2, <2>3 DEF IdsApart
<1>3. CASE \E c \in task.keep : call = CreateCall(task, c, id)
  <2>1. PICK c \in task.keep : call = CreateCall(task, c, id)
    BY <1>3
  <2> DEFINE e == [id |-> id, kind |-> task.kind, of |-> task.of, content |-> c, attr |-> task.attr]
  <2>2. e.id = id
    OBVIOUS
  <2>3. Effect(idx, call) = idx \cup {e}
    BY <2>1 DEF CreateCall, Effect
  <2> HIDE DEF e
  <2> QED BY <2>2, <2>3 DEF IdsApart
<1> QED BY <1>1, <1>2, <1>3, CallKinds
===============================================================================
