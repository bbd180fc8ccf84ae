---------------------------- MODULE RegistryLayout ----------------------------
(***************************************************************************)
(* How the provider finds the record an ownership marker belongs to.       *)
(* ExternalDNS sends a batch as three lists of endpoints, the markers of   *)
(* its TXT registry behind the records they protect; a marker carries the  *)
(* name of its record and not its type.  provider.go takes such a list     *)
(* apart by position, or rejects the batch before it makes any call.       *)
(*                                                                         *)
(* An endpoint is [ownership, rec]: a record, or the marker of rec, of     *)
(* which the code may only look at rec.name.                               *)
(***************************************************************************)
EXTENDS Naturals, Sequences, FiniteSets

CONSTANTS
    Names, Types,
    MaxPlanned      \* bound: records in one list

ASSUME LayoutAssumption == MaxPlanned \in Nat

Identities == [name : Names, type : Types]

VARIABLES
    planned,        \* the records of a list, in the order ExternalDNS plans them
    unmarked,       \* those of them the registry writes a marker for when they are created
    existing        \* the records whose marker was in the zone already

vars == <<planned, unmarked, existing>>

(***************************************************************************)
(* ExternalDNS                                                             *)
(***************************************************************************)
Primary(r) == [ownership |-> FALSE, rec |-> r]
Marker(r)  == [ownership |-> TRUE, rec |-> r]

Primaries(rs) == [i \in 1 .. Len(rs) |-> Primary(rs[i])]
Markers(rs)   == [i \in 1 .. Len(rs) |-> Marker(rs[i])]

\* A marker for every record of a delete or an update ...
RegistryPairs(rs) == Primaries(rs) \o Markers(rs)

\* ... and for every created one that has none yet.
RegistryCreates(rs, bare) == Primaries(rs) \o Markers(bare)

(***************************************************************************)
(* The provider                                                            *)
(***************************************************************************)
HasOwnership(s) == \E i \in DOMAIN s : s[i].ownership

\* ownershipStart: how many endpoints come before the first marker.
OwnershipStart(s) ==
    CHOOSE k \in 0 .. Len(s) : s[k + 1].ownership /\ \A i \in 1 .. k : ~s[i].ownership

SameName(e, f) == e.rec.name = f.rec.name

\* Mutant of CreateLayout: every created record has to bring its marker.
CreateLayoutFull(s) == HasOwnership(s) => Len(s) = 2 * OwnershipStart(s)

\* validateRegistryCreateLayout: a suffix of markers, which may be shorter
\* than the records; a complete one has to match them in order.
CreateLayout(s) ==
    LET k == OwnershipStart(s)
    IN  HasOwnership(s) =>
            /\ k > 0 /\ Len(s) - k <= k
            /\ \A i \in k + 1 .. Len(s) : s[i].ownership /\ \E j \in 1 .. k : SameName(s[i], s[j])
            /\ Len(s) = 2 * k => \A i \in 1 .. k : SameName(s[k + i], s[i])

\* The test registryDeletePairs and registryUpdatePairs share: as many markers
\* as records, in the same order.
PairLayout(s) ==
    LET k == OwnershipStart(s)
    IN  HasOwnership(s) =>
            /\ k > 0 /\ Len(s) = 2 * k
            /\ \A i \in 1 .. k : ~s[i].ownership /\ s[k + i].ownership /\ SameName(s[k + i], s[i])

\* Both lists of an update have their markers at the same place, or none.
UpdateLayout(old, new) ==
    /\ HasOwnership(old) <=> HasOwnership(new)
    /\ HasOwnership(old) => OwnershipStart(old) = OwnershipStart(new)
    /\ PairLayout(old) /\ PairLayout(new)

\* registryDeletePairs, and each half of registryUpdatePairs.
Pairs(s) ==
    LET k == OwnershipStart(s)
    IN  [i \in 1 .. k |-> [primary |-> s[i], ownership |-> s[k + i]]]

\* validateChanges, as far as it is about the layout of the lists.
ValidateChanges(create, delete, old, new) ==
    /\ Len(old) = Len(new)
    /\ \A i \in DOMAIN old : old[i].rec = new[i].rec
    /\ CreateLayout(create)
    /\ PairLayout(delete)
    /\ UpdateLayout(old, new)

\* Mutant of ProtectedBy: positions are trusted in an incomplete suffix too.
ProtectedByPosition(s, m) == {s[m - OwnershipStart(s)].rec}

\* protectedEndpointForOwnership: the records whose presence keeps the marker
\* s[m]; all of its name when its own cannot be told.
ProtectedBy(s, m) ==
    LET k     == OwnershipStart(s)
        twins == {s[i].rec : i \in {j \in 1 .. k : SameName(s[j], s[m])}}
    IN  IF Len(s) = 2 * k /\ SameName(s[m - k], s[m]) THEN {s[m - k].rec}
        ELSE IF Cardinality(twins) = 1 THEN twins
        ELSE {r \in Identities : r.name = s[m].rec.name}

(***************************************************************************)
(* Every batch a plan and a zone can lead to                               *)
(***************************************************************************)
Init == planned = <<>> /\ unmarked = <<>> /\ existing \in SUBSET Identities

Plan(r) ==
    /\ Len(planned) < MaxPlanned
    /\ \A i \in DOMAIN planned : planned[i] # r
    /\ planned' = Append(planned, r)
    /\ unmarked' = IF r \in existing THEN unmarked ELSE Append(unmarked, r)
    /\ UNCHANGED existing

Next == \E r \in Identities : Plan(r)

Spec == Init /\ [][Next]_vars

(***************************************************************************)
(* Properties                                                              *)
(***************************************************************************)
Creates == RegistryCreates(planned, unmarked)

\* What the registry sends is never rejected, and each record is paired with
\* the marker of its own name and type although the code sees only the name
\* (registryDeletePairs, registryUpdatePairs).
RegistryPaired ==
    LET s == RegistryPairs(planned)
    IN  /\ ValidateChanges(Creates, s, s, s)
        /\ planned # <<>> =>
              /\ Len(s) = 2 * Len(Pairs(s))
              /\ \A i \in DOMAIN Pairs(s) :
                    /\ Pairs(s)[i].primary = Primary(planned[i])
                    /\ Pairs(s)[i].ownership = Marker(planned[i])

\* A created marker is never removed on the absence of another record than its
\* own, and is only kept for another's sake when that one shares its name and
\* some record of the list brings no marker (protectedEndpointForOwnership).
ProtectedSound ==
    \A m \in DOMAIN Creates :
        Creates[m].ownership =>
            LET own == Creates[m].rec
            IN  /\ own \in ProtectedBy(Creates, m)
                /\ ProtectedBy(Creates, m) # {own} =>
                      /\ \E i, j \in DOMAIN planned : i # j /\ planned[i].name = own.name /\ planned[j].name = own.name
                      /\ \E i \in DOMAIN planned : planned[i] \in existing
===============================================================================
