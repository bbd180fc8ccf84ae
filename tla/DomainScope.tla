------------------------------ MODULE DomainScope ------------------------------
(***************************************************************************)
(* Which names are the provider's: the filter it is configured with, the   *)
(* filter it advertises to ExternalDNS, the names Records shows and the    *)
(* names validateChanges accepts. ExternalDNS drops what the advertised    *)
(* filter does not match, and one name the provider rejects costs the      *)
(* whole batch, so the four have to agree, for records and for the         *)
(* markers ExternalDNS derives from them.                                  *)
(*                                                                         *)
(* A name is the sequence of its labels from the root down, so that the    *)
(* suffix tests of the code are prefixes. Case and the final dot are gone  *)
(* (canonicalDNSName). A filter is [base, children]; ".base" has children. *)
(***************************************************************************)
EXTENDS Naturals, Sequences, FiniteSets, SequencesExt

CONSTANTS
    Labels,         \* labels of names, Star among them
    Star,           \* "*"
    PrefixLabel,    \* what the TXT registry's prefix makes of a record type
    WildcardLabel,  \* "_wildcard", its replacement for "*"
    Size,           \* the bytes of each label
    MaxLabel,       \* 63, the bytes a label may have
    MaxName,        \* 253, the bytes a name may have
    Zone,           \* PORKBUN_DOMAIN
    Bases,          \* names a filter may have
    MaxLabels       \* bound: labels of a name

VARIABLES
    include,        \* Provider.include, and the filter GetDomainFilter returns
    name            \* the name of a record or an endpoint, <<>> before there is one

scopeVars == <<include, name>>

Name == BoundedSeq(Labels, MaxLabels) \ {<<>>}

\* The length of a name: the bytes of its labels, and the dots between them.
Letters(n) == UNION {{i} \X (1 .. Size[n[i]]) : i \in DOMAIN n}
Bytes(n)   == Cardinality(Letters(n)) + Len(n) - 1

\* Mutant of ValidName: names of any length.
ValidNameUnbounded(n, wildcard) ==
    n # <<>> /\ \A i \in DOMAIN n : n[i] = Star => (wildcard /\ i = Len(n))

\* validateDNSName. A wildcard is the first label, the last one here, of an
\* owner name.
ValidName(n, wildcard) ==
    /\ n # <<>> /\ Bytes(n) <= MaxName
    /\ \A i \in DOMAIN n :
          /\ Size[n[i]] <= MaxLabel
          /\ n[i] = Star => (wildcard /\ i = Len(n))

ASSUME ScopeAssumption ==
    /\ MaxLabels \in Nat /\ MaxLabel \in Nat /\ MaxName \in Nat
    /\ Star \notin {PrefixLabel, WildcardLabel}
    /\ Size \in [Labels \cup {Star, PrefixLabel, WildcardLabel} -> Nat \ {0}]
    /\ Size[Star] = 1 /\ Size[PrefixLabel] <= MaxLabel /\ Size[WildcardLabel] <= MaxLabel
    /\ Bases \subseteq Name /\ Zone \in Name /\ ValidName(Zone, FALSE)

WithinZone(n) == IsPrefix(Zone, n)

Filters == {f \in [base : Bases, children : BOOLEAN] : ValidName(f.base, FALSE)}

\* Mutant of ConfigAccepted: a filter may reach beyond the zone.
ConfigAnywhere(filters) == TRUE

\* validatedDomainFilter; no filter at all means the zone.
ConfigAccepted(filters) == \A f \in filters : WithinZone(f.base)

Included(filters) == IF filters = {} THEN {[base |-> Zone, children |-> FALSE]} ELSE filters

\* One entry of matchesExplicitFilters.
Matches(f, n) == IF f.children THEN IsStrictPrefix(f.base, n) ELSE IsPrefix(f.base, n)

InFilter(n)    == \E f \in include : Matches(f, n)
NameInScope(n) == WithinZone(n) /\ InFilter(n)

\* What Records takes from Porkbun, what validateEndpoint lets through.
Shown(n)    == NameInScope(n)
Accepted(n) == ValidName(n, TRUE) /\ WithinZone(n) /\ InFilter(n)

\* subdomainOf, the name sent to Porkbun, and the name it lists afterwards.
SubdomainOf(n) == IF WithinZone(n) THEN SubSeq(n, Len(Zone) + 1, Len(n)) ELSE n
Stored(n)      == Zone \o SubdomainOf(n)

\* ExternalDNS: endpoint.DomainFilter, for sources and planner alike.
Planned(n) ==
    \E f \in include :
        \/ f.children /\ Len(n) > Len(f.base) /\ SubSeq(n, 1, Len(f.base)) = f.base
        \/ ~f.children /\ (n = f.base \/ (Len(n) > Len(f.base) /\ SubSeq(n, 1, Len(f.base)) = f.base))

\* ExternalDNS: the marker of a record, with the chart's prefix
\* "external-dns-%{record_type}." and wildcard replacement.
MarkerName(n) == Append([i \in DOMAIN n |-> IF n[i] = Star THEN WildcardLabel ELSE n[i]], PrefixLabel)

\* Whatever DOMAIN_FILTER lists.
ScopeInit ==
    /\ \E filters \in SUBSET Filters : ConfigAccepted(filters) /\ include = Included(filters)
    /\ name = <<>>

\* A record of the zone is read, or an endpoint of a batch.
Handle(n) == name = <<>> /\ name' = n /\ UNCHANGED include

ScopeNext == \E n \in Name : Handle(n)

ScopeSpec == ScopeInit /\ [][ScopeNext]_scopeVars
--------------------------------------------------------------------------------
(* Properties. *)

\* ExternalDNS plans a name exactly when the provider takes it: what it plans
\* is never rejected, and what Records shows is never filtered out, which
\* would make ExternalDNS plan it as missing (GetDomainFilter, nameInScope,
\* validateEndpoint).
PlannedAccepted ==
    ValidName(name, TRUE) => (Planned(name) <=> Accepted(name)) /\ (Shown(name) <=> Accepted(name))

\* How much longer the marker of a name is than the name.
Growth(n) ==
    Size[PrefixLabel] + 1 + (IF \E i \in DOMAIN n : n[i] = Star THEN Size[WildcardLabel] - 1 ELSE 0)

\* The marker of an accepted name is accepted unless it is too long for a name,
\* at the apex, below a children-only filter and for a wildcard: nothing else
\* keeps a record with its marker, and the rest of their batch, from being
\* applied (validateEndpoint, nameInScope). Both come back from Porkbun under
\* the name they were sent with (subdomainOf).
MarkersAccepted ==
    Accepted(name) =>
        /\ Accepted(MarkerName(name)) <=> Bytes(name) + Growth(name) <= MaxName
        /\ Stored(name) = name /\ Stored(MarkerName(name)) = MarkerName(name)
================================================================================
