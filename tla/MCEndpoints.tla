------------------------------ MODULE MCEndpoints ------------------------------
(* RegistryLayout, RecordsView, DomainScope and RecordCodec, one at a time: two *)
(* names with three types each for the lists; up to three records of one        *)
(* identity for the view; names of up to four labels in a zone of one for the  *)
(* scope; numbers at both ends of their range for the codec.                    *)
EXTENDS RegistryLayout, RecordsView, DomainScope, RecordCodec

VARIABLE part       \* which of the four a behaviour is about

CONSTANTS x

Rec(i, c, type, ttl) ==
    [id |-> i, kind |-> "primary", of |-> x, content |-> c, attr |-> [type |-> type, ttl |-> ttl]]

AnyAttrs == [type : {PlainType, AliasType}, ttl : {Unreadable, 300, Floor, 900}]

PlainRec(i) == {Rec(i, c, PlainType, ttl) : c \in Targets, ttl \in {Unreadable, 300, Floor, 900}}
AnyRec(i) == PlainRec(i) \cup {Rec(i, c, AliasType, ttl) : c \in Targets, ttl \in {Unreadable, 300, Floor, 900}}

\* No record, any one or two, any three of the plain type.
SmallZones ==
    {{}} \cup {{r} : r \in AnyRec(1)}
         \cup {{r, q} : r \in AnyRec(1), q \in AnyRec(2)}
         \cup {{r, q, t} : r \in PlainRec(1), q \in PlainRec(2), t \in PlainRec(3)}

\* The parts that are not under way: an empty list, a settled identity, the
\* default filter.
NoList == planned = <<>> /\ unmarked = <<>> /\ existing = {}

Settled1 ==
    /\ rrset = [of |-> x, cname |-> FALSE, apex |-> FALSE]
    /\ recs = {Rec(1, 1, PlainType, Floor)}
    /\ wanted = [targets |-> {1}, ttl |-> 0, props |-> {}]
    /\ todo = {} /\ missed = 0

NoFilter == include = Included({}) /\ name = <<>>

NoTarget == at = "none" /\ text = NoText /\ asked = NoText

\* Names of up to four labels about the limit of 253 bytes: three of the longest
\* labels with "mid" have a marker of 253, with "over" or a wildcard one of 254.
MCSize == [l \in {"com", "a", "mid", "over", "long", "*", "prefix", "wild"} |->
             CASE l \in {"com", "a"} -> 63 [] l = "mid" -> 42 [] l \in {"over", "wild"} -> 43
               [] l = "long" -> 64 [] l = "*" -> 1 [] l = "prefix" -> 18]

MCZone  == <<"com">>
MCBases == {<<"com">>, <<"com", "a">>, <<"a">>}

EndpointsInit ==
    \/ part = "layout" /\ Init /\ Settled1 /\ NoFilter /\ NoTarget
    \/ part = "view" /\ NoList /\ ViewInit /\ NoFilter /\ NoTarget
    \/ part = "scope" /\ NoList /\ Settled1 /\ ScopeInit /\ NoTarget
    \/ part = "codec" /\ NoList /\ Settled1 /\ NoFilter /\ CodecInit

EndpointsNext ==
    \/ part = "layout" /\ Next /\ UNCHANGED <<viewVars, scopeVars, codecVars, part>>
    \/ part = "view" /\ ViewNext /\ UNCHANGED <<vars, scopeVars, codecVars, part>>
    \/ part = "scope" /\ ScopeNext /\ UNCHANGED <<vars, viewVars, codecVars, part>>
    \/ part = "codec" /\ CodecNext /\ UNCHANGED <<vars, viewVars, scopeVars, part>>

EndpointsSpec ==
    EndpointsInit /\ [][EndpointsNext]_<<vars, viewVars, scopeVars, codecVars, part>> /\ ViewFairness
================================================================================
