------------------------------ MODULE RecordCodec ------------------------------
(***************************************************************************)
(* The way of one target from ExternalDNS to Porkbun and back. It is       *)
(* brought to canonical form by AdjustEndpoints, by validateEndpoint and   *)
(* by recordInput, taken apart for Porkbun, listed by Porkbun in a form    *)
(* of its own, and put together by Records; as a current target of the     *)
(* next batch it goes through validateEndpoint again. What the provider    *)
(* looks up, compares and writes is right only if none of these changes    *)
(* the target once it is canonical. One thing does change: each of them    *)
(* removes a pair of quotes from a TXT value that has one left.            *)
(*                                                                         *)
(* The priority of MX and SRV, their numbers, hosts and the quotes of a    *)
(* TXT value are what differs between the forms; the rest of a target is   *)
(* left out. Types whose canonical form is that of a DNS library (CAA,     *)
(* HTTPS, SVCB) or of net/netip are not here.                              *)
(***************************************************************************)
EXTENDS Integers

CONSTANTS
    NumberSpace,    \* 2^16
    Numbers,        \* values of numeric fields
    Layers,         \* bound: pairs of quotes around a TXT value of a source
    NoText          \* no target yet

ASSUME CodecAssumption ==
    NumberSpace \in Nat \ {0} /\ Numbers \subseteq Nat /\ 0 \in Numbers /\ Layers \in Nat

VARIABLES
    at,             \* where the target is on its way
    text,           \* the target, or the record, as it stands there
    asked           \* its first canonical form: what the planner compares with

codecVars == <<at, text, asked>>

Blank == [value |-> 0, form |-> "blank"]
Plain(n) == [value |-> n, form |-> "plain"]
Written == [value : Numbers, form : {"plain", "padded"}]

Root  == [root |-> TRUE, dot |-> TRUE, upper |-> FALSE]
Hosts == {Root} \cup [root : {FALSE}, dot : BOOLEAN, upper : BOOLEAN]

\* prio, nums (weight and port), host and layers; each type uses some of them.
Texts(prios, layers) ==
    [type : {"MX"}, prio : prios, nums : {Blank}, host : Hosts, layers : {0}]
    \cup [type : {"SRV"}, prio : prios, nums : Written, host : Hosts, layers : {0}]
    \cup [type : {"CNAME", "NS"}, prio : {Blank}, nums : {Blank}, host : Hosts, layers : {0}]
    \cup [type : {"TXT"}, prio : {Blank}, nums : {Blank}, host : {Root}, layers : layers]

\* canonicalUint, canonicalHost and normaliseContent.
Uint(n) == IF n.form = "blank" THEN n ELSE Plain(n.value)

CanonicalHost(h, trailingDot) == IF h.root THEN h ELSE [root |-> FALSE, dot |-> trailingDot, upper |-> FALSE]

Unwrap(layers) == IF layers > 0 THEN layers - 1 ELSE 0

\* canonicalEndpointTarget: what it refuses ...
Accepts(t) ==
    /\ t.prio.value < NumberSpace /\ t.nums.value < NumberSpace
    /\ t.type \in {"CNAME", "NS"} => ~t.host.root

\* ... and what it makes of the rest.
Canonical(t) ==
    [type |-> t.type, prio |-> Uint(t.prio), nums |-> Uint(t.nums),
     host |-> CanonicalHost(t.host, t.type = "SRV"), layers |-> Unwrap(t.layers)]

\* trimRootDot, and a name with its final dot.
Dotted(h, dot) == IF h.root THEN h ELSE [root |-> FALSE, dot |-> dot, upper |-> h.upper]

\* recordInput: canonical once more, and the priority in a field of its own.
Sent(t) ==
    LET c == Canonical(t)
    IN  [type |-> c.type, prio |-> c.prio, nums |-> c.nums, host |-> Dotted(c.host, FALSE),
         layers |-> Unwrap(c.layers)]

\* Mutant of Priority: the field as Porkbun lists it.
PriorityAsListed(r) == r.prio

\* canonicalPriority of a record: an empty one counts as zero.
Priority(r) == IF r.type \in {"MX", "SRV"} /\ r.prio = Blank THEN Plain(0) ELSE r.prio

Joined(r, layers) == [type |-> r.type, prio |-> Priority(r), nums |-> r.nums, host |-> r.host, layers |-> layers]

\* recordToEndpointTarget.
Target(r) == Canonical(Joined(r, Unwrap(r.layers)))

\* Porkbun: an empty field for priority zero, a final dot, quotes around a TXT
\* value are its choice.
Listed(r, in) ==
    \E p \in {in.prio, Blank}, h \in {in.host, Dotted(in.host, TRUE)}, n \in {in.layers, in.layers + 1} :
        /\ p # in.prio => in.prio = Plain(0)
        /\ n # in.layers => in.type = "TXT"
        /\ r = [type |-> in.type, prio |-> p, nums |-> in.nums, host |-> h, layers |-> n]

\* A source states a target, or somebody has made a record by hand.
CodecInit ==
    /\ \/ at = "source" /\ text \in {t \in Texts(Written, 0..Layers) : Accepts(t)}
       \/ at = "listed" /\ text \in {t \in Texts(Written \cup {Blank}, 0..Layers + 1) : Accepts(t)}
    /\ asked = NoText

AdjustEndpoints ==
    /\ at = "source" /\ at' = "adjusted"
    /\ text' = Canonical(text)
    /\ asked' = text'

\* Desired and current endpoints alike.
ValidateEndpoint ==
    /\ at \in {"adjusted", "seen"} /\ at' = "validated"
    /\ text' = Canonical(text)
    /\ UNCHANGED asked

RecordInput ==
    /\ at = "validated" /\ at' = "sent"
    /\ text' = Sent(text)
    /\ UNCHANGED asked

List ==
    /\ at = "sent" /\ at' = "listed"
    /\ text' \in {r \in Texts(Written \cup {Blank}, 0..Layers + 1) : Listed(r, text)}
    /\ UNCHANGED asked

ReadRecord ==
    /\ at = "listed" /\ at' = "seen"
    /\ text' = Target(text)
    /\ asked' = IF asked = NoText THEN text' ELSE asked

CodecNext == AdjustEndpoints \/ ValidateEndpoint \/ RecordInput \/ List \/ ReadRecord

CodecSpec == CodecInit /\ [][CodecNext]_codecVars
--------------------------------------------------------------------------------
(* Properties. *)

\* The target asked for, which may have lost pairs of quotes since.
Kept(t) == t.layers <= asked.layers /\ t = [asked EXCEPT !.layers = t.layers]

\* A canonical target stays what it is through validation, writing, Porkbun's
\* listing and reading, however often, but for the quotes a TXT value came with
\* beyond its first pair: the planner does not see the target it asked for as
\* another one, a delete finds the record its target was read from, and
\* recordMatchesInput finds nothing to edit in a record just written.
TargetsStable ==
    /\ at \in {"adjusted", "validated", "seen"} => Accepts(text) /\ Kept(text)
    /\ at = "sent" => Kept(Target(text))
    /\ at = "listed" /\ asked # NoText => Kept(Target(text))

\* README.md:86: "The webhook removes one matching outer pair of double
\* quotes when ExternalDNS supplies it". Of what ExternalDNS hands to
\* ApplyChanges, validateEndpoint, recordInput and serialiseContent remove a
\* pair each.
OnePairRemoved == at = "sent" => text.layers + 1 >= asked.layers
================================================================================
