------------------------------ MODULE RecordsView ------------------------------
(***************************************************************************)
(* How a set of Porkbun records becomes one endpoint of Records, what      *)
(* AdjustEndpoints makes of the endpoint ExternalDNS wants in its place,   *)
(* and whether ExternalDNS, which only compares the two, sees exactly what *)
(* ApplyChanges would have to repair.                                      *)
(*                                                                         *)
(* One identity (name and view type); its records are those of ZoneIndex.  *)
(***************************************************************************)
EXTENDS ZoneIndex, Integers, FiniteSets, SequencesExt

CONSTANTS
    Floor,          \* defaultTTL, the least TTL Porkbun accepts
    Unreadable,     \* the ttl of a record whose TTL is absent or no number
    PlainType, AliasType,   \* the raw types behind one view type
    WantedTTLs,     \* TTLs of the sources, 0 when they state none
    ViewZones,      \* bound: the record sets to start from
    ViewFaults      \* bound: calls that fail

ASSUME ViewAssumption ==
    /\ Floor \in Nat /\ WantedTTLs \subseteq Nat
    /\ Unreadable \notin Int /\ PlainType # AliasType
    /\ Attrs \subseteq [type : {PlainType, AliasType}, ttl : Nat \cup {Unreadable}]
    /\ [type : {PlainType, AliasType}, ttl : {t \in {Floor} \cup WantedTTLs : t >= Floor}] \subseteq Attrs
    /\ \A S \in ViewZones : S \subseteq Records /\ IsFiniteSet(S) /\ \A r \in S : r.content \in Targets

VARIABLES
    rrset,          \* [of, cname, apex]: the identity, and what its type and name are
    recs,           \* its records at Porkbun
    wanted,         \* what the sources say of it
    todo,           \* the update under way: no or one task
    missed          \* calls that have failed

viewVars == <<rrset, recs, wanted, todo, missed>>
--------------------------------------------------------------------------------
(* Records. *)

EffectiveTTL(ttl) == IF ttl < Floor THEN Floor ELSE ttl

\* parseRecordTTL; what cannot be read counts as zero.
RawTTL(r) == IF r.attr.ttl = Unreadable THEN 0 ELSE r.attr.ttl

NoEndpoint == [ttl |-> 0, drift |-> FALSE, alias |-> FALSE, targets |-> [c \in Targets |-> 0]]

Empty(ep) == \A c \in Targets : ep.targets[c] = 0

\* Mutant of AddRecord: the TTL of the last record counts.
AddRecordLastTTL(ep, r) ==
    LET ttl == EffectiveTTL(RawTTL(r))
    IN  [ttl     |-> ttl,
         drift   |-> ep.drift \/ (~Empty(ep) /\ ttl # ep.ttl) \/ r.attr.ttl # ttl,
         alias   |-> ep.alias \/ r.attr.type = AliasType,
         targets |-> [ep.targets EXCEPT ![r.content] = @ + 1]]

\* One round of the grouping loop. Targets keep their multiplicity; the lowest
\* TTL counts, and a mark shows that not every record has it as it stands.
AddRecord(ep, r) ==
    LET ttl == EffectiveTTL(RawTTL(r))
    IN  [ttl     |-> IF Empty(ep) \/ ttl < ep.ttl THEN ttl ELSE ep.ttl,
         drift   |-> ep.drift \/ (~Empty(ep) /\ ttl # ep.ttl) \/ r.attr.ttl # ttl,
         alias   |-> ep.alias \/ r.attr.type = AliasType,
         targets |-> [ep.targets EXCEPT ![r.content] = @ + 1]]

\* The endpoint Records makes of the records in the order they are retrieved.
Grouped(order) == FoldLeft(AddRecord, NoEndpoint, order)

\* The same, said of the set: what the view stands for.
LowestTTL(S) == CHOOSE t \in {EffectiveTTL(RawTTL(r)) : r \in S} :
                    \A r \in S : t <= EffectiveTTL(RawTTL(r))

\* Mutant of View: the floor hides what a record really has.
ViewFloored(S) ==
    [ttl     |-> IF S = {} THEN 0 ELSE LowestTTL(S),
     drift   |-> \E r \in S : EffectiveTTL(RawTTL(r)) # LowestTTL(S),
     alias   |-> \E r \in S : r.attr.type = AliasType,
     targets |-> [c \in Targets |-> Cardinality({r \in S : r.content = c})]]

View(S) ==
    [ttl     |-> IF S = {} THEN 0 ELSE LowestTTL(S),
     drift   |-> \E r \in S : r.attr.ttl # LowestTTL(S),
     alias   |-> \E r \in S : r.attr.type = AliasType,
     targets |-> [c \in Targets |-> Cardinality({r \in S : r.content = c})]]
--------------------------------------------------------------------------------
(* Provider-specific properties: alias=true, alias=false, the internal drift   *)
(* mark and the registry's control mark. An endpoint for validation is         *)
(* [cname, apex, ownership, props].                                            *)

AliasProps == {"alias", "no-alias"}

\* Mutant of PropsAccepted: alias is judged by the type of the marker.
PropsAcceptedByType(e, desired) ==
    /\ AliasProps \cap e.props # {} => e.cname
    /\ desired => {"ttl-drift", "force-update"} \cap e.props = {}

\* normalizeProviderSpecific: which properties pass ...
PropsAccepted(e, desired) ==
    /\ AliasProps \cap e.props # {} => e.ownership \/ e.cname
    /\ desired => {"ttl-drift", "force-update"} \cap e.props = {}

\* ... and which stay: a marker has none of what it inherits.
PropsKept(e) == IF e.ownership THEN {} ELSE e.props \cap {"alias", "ttl-drift"}

\* Mutant of WithApex: only what the sources say.
WithApexStated(e, props) == props

\* A CNAME at the apex is an ALIAS whether or not the sources say so.
WithApex(e, props) == props \cup {x \in {"alias"} : e.cname /\ e.apex /\ ~e.ownership}

\* The rules for a desired endpoint that adjustEndpoint and validateEndpoint
\* share: some target, and only one for a CNAME.
TargetsAccepted(e, targets) == targets # {} /\ (e.cname => \A t, u \in targets : t = u)

Shape(props) == [cname |-> rrset.cname, apex |-> rrset.apex, ownership |-> FALSE, props |-> props]

\* The marker ExternalDNS generates copies the properties of its record.
MarkerShape(props) == [cname |-> FALSE, apex |-> rrset.apex, ownership |-> TRUE, props |-> props]

\* AdjustEndpoints of what the sources want.
Adjusted(w) ==
    [ttl     |-> EffectiveTTL(w.ttl),
     alias   |-> "alias" \in WithApex(Shape(w.props), PropsKept(Shape(w.props))),
     targets |-> w.targets]

AdjustAccepts(w) ==
    PropsAccepted(Shape(w.props), TRUE) /\ TargetsAccepted(Shape(w.props), w.targets)
--------------------------------------------------------------------------------
(* ExternalDNS, and the update it asks for. *)

\* The planner's comparison: TTL, targets with their number, and properties,
\* of which only a current endpoint may have the drift mark.
Differs(current, desired) ==
    \/ current.ttl # desired.ttl
    \/ \E c \in Targets : current.targets[c] # IF c \in desired.targets THEN 1 ELSE 0
    \/ current.alias # desired.alias
    \/ current.drift

\* Nothing is there to compare: a create.
Due(S, w) == S = {} \/ Differs(View(S), Adjusted(w))

\* recordInput, for the type and TTL of every record written.
Input(d) == [type |-> IF d.alias \/ (rrset.cname /\ rrset.apex) THEN AliasType ELSE PlainType, ttl |-> d.ttl]

\* createEndpoint or updateEndpoint, from the view to the adjusted endpoint.
UpdateTask(S, d) ==
    [kind |-> "primary", of |-> rrset.of,
     drop |-> Contents(S, "primary", rrset.of) \ d.targets, move |-> {}, keep |-> d.targets, attr |-> Input(d)]

FreeIds == {i \in Ids : (\A r \in recs : r.id # i) /\ \A j \in Ids : (\A r \in recs : r.id # j) => i <= j}

Ask ==
    /\ todo = {} /\ Due(recs, wanted)
    /\ todo' = {UpdateTask(recs, Adjusted(wanted))}
    /\ UNCHANGED <<rrset, recs, wanted, missed>>

Write ==
    \E task \in todo, i \in FreeIds : \E call \in Calls(task, recs, i) :
        /\ recs' = Effect(recs, call)
        /\ UNCHANGED <<rrset, wanted, todo, missed>>

\* The call fails, after its effect or without it, and with it the update.
WriteFails ==
    /\ missed < ViewFaults
    /\ missed' = missed + 1
    /\ \E task \in todo, i \in FreeIds : \E call \in Calls(task, recs, i) : recs' \in {recs, Effect(recs, call)}
    /\ todo' = {}
    /\ UNCHANGED <<rrset, wanted>>

Finish ==
    /\ \E task \in todo : Done(task, recs)
    /\ todo' = {}
    /\ UNCHANGED <<rrset, recs, wanted, missed>>

ViewInit ==
    /\ rrset \in [of : Owned, cname : BOOLEAN, apex : BOOLEAN] /\ (rrset.apex => rrset.cname)
    /\ recs \in {S \in ViewZones :
                   \A r \in S : r.kind = "primary" /\ r.of = rrset.of /\ (r.attr.type = AliasType => rrset.cname)}
    /\ wanted \in {w \in [targets : SUBSET Targets, ttl : WantedTTLs, props : {{}} \cup {{x} : x \in AliasProps}] :
                      AdjustAccepts(w)}
    /\ todo = {} /\ missed = 0

ViewNext == Ask \/ Write \/ WriteFails \/ Finish

ViewSpec == ViewInit /\ [][ViewNext]_viewVars

ViewFairness == WF_viewVars(Ask \/ Write \/ Finish)
--------------------------------------------------------------------------------
(* Properties. *)

\* The endpoint of an RRset does not depend on the order in which Porkbun
\* lists its records (the grouping loop of Records compares with the lowest
\* TTL so far).
ViewOrderFree == \A order \in SetToSeqs(recs) : Grouped(order) = View(recs)

\* ExternalDNS sees a difference exactly when an update would have something to
\* call: no duplicate, TTL below the floor, absent or mixed TTL and no wrong
\* raw type stays hidden behind the view, and none is reported for ever
\* without a call that ends it.
NoHiddenDrift ==
    recs # {} =>
        (Differs(View(recs), Adjusted(wanted)) <=> ~Done(UpdateTask(recs, Adjusted(wanted)), recs))

\* The endpoint in the zone, the adjusted one, and the markers ExternalDNS
\* copies from them are never what validateChanges rejects: one such endpoint
\* would keep the whole batch from being applied, now and at every retry.
CurrentProps == {x \in {"alias", "ttl-drift"} : (x = "alias" /\ View(recs).alias) \/ (x = "ttl-drift" /\ View(recs).drift)}
DesiredProps == {x \in {"alias"} : Adjusted(wanted).alias}

NeverRejected ==
    /\ \A extra \in SUBSET {"force-update"} :
          \A e \in {Shape(CurrentProps \cup extra), MarkerShape(CurrentProps \cup extra)} : PropsAccepted(e, FALSE)
    /\ \A e \in {Shape(DesiredProps), MarkerShape(DesiredProps)} : PropsAccepted(e, TRUE)
    /\ TargetsAccepted(Shape(DesiredProps), Adjusted(wanted).targets)
    /\ PropsKept(Shape(DesiredProps)) = DesiredProps /\ PropsKept(MarkerShape(DesiredProps)) = {}

\* Reconciling comes to rest once calls stop failing.
Settles == <>[](~Due(recs, wanted))
================================================================================
