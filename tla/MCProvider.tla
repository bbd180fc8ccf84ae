------------------------------ MODULE MCProvider ------------------------------
(* Small instances of Provider for TLC. *)
EXTENDS ProviderInvariants, TLC

CONSTANTS a, b, h1, h2

OneAttr  == {[type |-> 1, ttl |-> 600]}
Attr     == [type |-> 1, ttl |-> 600]
Stale    == [type |-> 1, ttl |-> 900]
Alias    == [type |-> 2, ttl |-> 600]
AllAttrs == {Attr, Stale, Alias}

Rec(i, kind, p, c, attr) == [id |-> i, kind |-> kind, of |-> p, content |-> c, attr |-> attr]
Want(targets, val) == [targets |-> targets, val |-> val, attr |-> Attr]

OwnNames == [p \in Owned |-> p]
OneName  == [p \in Owned |-> 1]

\* An empty zone, a managed record, a record nobody marked.
PairZones ==
    {{},
     {Rec(1, "primary", a, 1, Attr), Rec(2, "marker", a, 5, Attr)},
     {Rec(1, "primary", a, 1, Attr)}}

PairWants == {Want({}, 5), Want({1}, 5)}

\* One identity with duplicates, attribute drift and two owner values.
DriftZones ==
    {{Rec(1, "primary", a, 1, Stale), Rec(2, "primary", a, 1, Attr), Rec(3, "primary", a, 2, Attr),
      Rec(4, "marker", a, 5, Attr), Rec(5, "marker", a, 5, Stale)},
     {Rec(1, "marker", a, 5, Attr), Rec(2, "primary", a, 1, Stale), Rec(3, "primary", a, 1, Alias),
      Rec(4, "marker", a, 5, Attr)}}

\* The same records without an ownership registry.
UnpairedZones == {{r \in z : r.kind = "primary"} : z \in DriftZones}

DriftWants == {Want({}, 5), Want({1}, 5), Want({2}, 6), Want({1, 2}, 6)}

\* Two types at one name, one of them with a marker a crash left behind.
TwinZones ==
    {{Rec(1, "marker", a, 5, Attr)},
     {Rec(1, "marker", a, 5, Attr), Rec(2, "primary", a, 1, Attr)}}

Symmetry == Permutations({h1, h2})
===============================================================================
