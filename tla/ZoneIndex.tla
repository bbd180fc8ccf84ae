------------------------------ MODULE ZoneIndex ------------------------------
(***************************************************************************)
(* The provider's working picture of a Porkbun zone (type index in         *)
(* provider/provider.go) and the API calls one endpoint operation makes.   *)
(*                                                                         *)
(* A zone, and an index of it, is a set of records                         *)
(*     [id, kind, of, content, attr].                                      *)
(* "of" is the DNS identity (name and type) a record belongs to: the       *)
(* record itself when kind = "primary", the record it declares ownership   *)
(* of when kind = "marker" (a generated ownership TXT).  "content" is the  *)
(* target, "attr" = [type, ttl] what else recordMatchesInput compares: the *)
(* raw type (CNAME or ALIAS behind one view type) and the TTL.             *)
(*                                                                         *)
(* A task is what one endpoint operation wants of one identity: contents   *)
(* to drop, contents to edit in place into the kept one, and contents to   *)
(* keep exactly once with attribute attr.  A call is the set of records it *)
(* cuts from the zone and the set it puts there.                           *)
(***************************************************************************)
EXTENDS Naturals

CONSTANTS
    Owned,        \* identities: (name, view type) pairs
    Targets,      \* contents of primary records
    Values,       \* contents of ownership markers
    Attrs,        \* [type, ttl] of records
    Ids           \* record ids

AllContents == Targets \cup Values

ASSUME ZoneAssumption == AllContents \subseteq Nat /\ Ids \subseteq Nat

Records == [id : Ids, kind : {"primary", "marker"}, of : Owned, content : AllContents, attr : Attrs]

\* Porkbun gives every record an id of its own: index.byID and keyByID have
\* one record for each.
IdsApart(z) == \A q, r \in z : q.id = r.id => q = r

\* index.match, over a set of targets.
Match(idx, kind, p, contents) ==
    {r \in idx : r.kind = kind /\ r.of = p /\ r.content \in contents}

Effect(z, call) == (z \ call.cut) \cup call.put

DeleteCall(r) == [cut |-> {r}, put |-> {}]

\* recordInput and index.replace: an edit gives a record the task's content
\* and attributes and leaves it its id.
EditCall(r, task, c) == [cut |-> {r}, put |-> {[r EXCEPT !.content = c, !.attr = task.attr]}]

\* Mutant of CreateCall: id and content swapped.
CreateCallSwapped(task, c, id) ==
    [cut |-> {},
     put |-> {[id |-> c, kind |-> task.kind, of |-> task.of, content |-> id, attr |-> task.attr]}]

CreateCall(task, c, id) ==
    [cut |-> {},
     put |-> {[id |-> id, kind |-> task.kind, of |-> task.of, content |-> c, attr |-> task.attr]}]

\* The first of a set of records in the order the loops visit them: by
\* target, then by id (byKey and sortedMapKeys are sorted).
Earliest(S) ==
    {r \in S : \A q \in S : r.content < q.content \/ (r.content = q.content /\ r.id <= q.id)}

Score(r, attr) == (IF r.attr.type = attr.type THEN 1 ELSE 0) + (IF r.attr.ttl = attr.ttl THEN 2 ELSE 0)

\* Mutant of PreferredRecord: only a record that matches in full is kept.
PreferredExact(S, attr) ==
    {r \in S : Score(r, attr) = 3 /\ \A q \in S : Score(q, attr) = 3 => r.id <= q.id}

\* The one record of a group of duplicates that convergeTarget keeps.
PreferredRecord(S, attr) ==
    {r \in S : \A q \in S : Score(r, attr) > Score(q, attr)
                            \/ (Score(r, attr) = Score(q, attr) /\ r.id <= q.id)}

\* The next call of convergeTarget for content c of a task.
ConvergeTarget(task, idx, c, id) ==
    LET ids    == Match(idx, task.kind, task.of, {c})
        keeper == PreferredRecord(ids, task.attr)
        stale  == {r \in keeper : r.attr # task.attr}
    IN  {CreateCall(task, c, id) : x \in {y \in {c} : ids = {}}}
          \cup {EditCall(r, task, c) : r \in stale}
          \cup {DeleteCall(r) : r \in {q \in Earliest(ids \ keeper) : stale = {}}}

\* Mutant of Settled: the attributes are not compared.
SettledAnyAttr(task, idx, c) == \E r \in idx : Match(idx, task.kind, task.of, {c}) = {r}

\* Exactly one record has content c, and it has the task's attributes.
Settled(task, idx, c) ==
    \E r \in Match(idx, task.kind, task.of, {c}) :
        /\ r.attr = task.attr
        /\ Match(idx, task.kind, task.of, {c}) = {r}

Open(task, idx) == {c \in task.keep : ~Settled(task, idx, c)}

\* The next call an endpoint operation makes: first the deletes, then the
\* in-place edits, then the kept targets one after the other.
Calls(task, idx, id) ==
    LET drops == Match(idx, task.kind, task.of, task.drop)
        moves == Match(idx, task.kind, task.of, task.move)
        open  == {c \in Open(task, idx) : \A d \in Open(task, idx) : c <= d}
    IN  IF drops # {} THEN {DeleteCall(r) : r \in Earliest(drops)}
        ELSE IF moves # {} THEN {EditCall(r, task, c) : r \in Earliest(moves), c \in task.keep}
        ELSE UNION {ConvergeTarget(task, idx, c, id) : c \in open}

\* The endpoint operation has nothing left to call.
Done(task, idx) ==
    /\ Match(idx, task.kind, task.of, task.drop) = {}
    /\ Match(idx, task.kind, task.of, task.move) = {}
    /\ Open(task, idx) = {}

\* Mutant of ProtectedRecordExists: the marker goes without a look at the zone.
ProtectedNever(idx, prot) == FALSE

\* protectedRecordExists: some managed record of an identity in prot.
ProtectedRecordExists(idx, prot) == \E r \in idx : r.kind = "primary" /\ r.of \in prot

Contents(z, kind, p) == {r.content : r \in {q \in z : q.kind = kind /\ q.of = p}}

Live(z, p) == \E r \in z : r.kind = "primary" /\ r.of = p

Marked(z, p) == \E r \in z : r.kind = "marker" /\ r.of = p

\* What a zone holds of an identity: nothing, an ownership marker alone, a
\* record with its marker, or a record nobody marked.
Status(z, p) ==
    CASE ~Live(z, p) /\ ~Marked(z, p) -> "absent"
      [] ~Live(z, p) /\  Marked(z, p) -> "marked"
      []  Live(z, p) /\  Marked(z, p) -> "live"
      []  Live(z, p) /\ ~Marked(z, p) -> "foreign"
==============================================================================
