---------------------------- MODULE EndpointProofs ----------------------------
(***************************************************************************)
(* Proofs about what the provider makes of single endpoints: the chain of  *)
(* canonical forms of a target, the comparison ExternalDNS makes of the    *)
(* view of a record set with the endpoint it wants there, and the names    *)
(* the provider takes.                                                     *)
(***************************************************************************)
EXTENDS RecordCodec, RecordsView, DomainScope, ZoneIndexProofs, FiniteSetTheorems, SequenceTheorems

Fields ==
    [type : {"MX", "SRV", "CNAME", "NS", "TXT"}, prio : {Blank} \cup Written, nums : {Blank} \cup Written,
     host : Hosts, layers : Nat]

\* Every target and every record has the fields, and blanks where its type
\* does not use them.
WellFormed(t) ==
    /\ t \in Fields
    /\ IF t.type = "SRV" THEN t.nums \in Written ELSE t.nums = Blank
    /\ t.type \notin {"MX", "SRV"} => t.prio = Blank

LEMMA TextFields ==
    ASSUME NEW prios \in SUBSET ({Blank} \cup Written), NEW layers \in SUBSET Nat, NEW t \in Texts(prios, layers)
    PROVE  WellFormed(t) /\ t.layers \in {0} \cup layers /\ (t.type \in {"MX", "SRV"} => t.prio \in prios)
<1>1. Root \in Hosts /\ 0 \in Nat
  BY DEF Hosts
<1>2. CASE t \in [type : {"MX"}, prio : prios, nums : {Blank}, host : Hosts, layers : {0}]
  BY <1>1, <1>2 DEF Fields, WellFormed
<1>3. CASE t \in [type : {"SRV"}, prio : prios, nums : Written, host : Hosts, layers : {0}]
  BY <1>1, <1>3 DEF Fields, WellFormed
<1>4. CASE t \in [type : {"CNAME", "NS"}, prio : {Blank}, nums : {Blank}, host : Hosts, layers : {0}]
  BY <1>1, <1>4 DEF Fields, WellFormed
<1>5. CASE t \in [type : {"TXT"}, prio : {Blank}, nums : {Blank}, host : {Root}, layers : layers]
  BY <1>1, <1>5 DEF Fields, WellFormed
<1> QED
  BY <1>2, <1>3, <1>4, <1>5 DEF Texts

\* What AdjustEndpoints and Records both end in, type by type; the quotes that
\* are left are not of the form.
IsCanonical(t) ==
    /\ t \in Fields
    /\ Accepts(t)
    /\ IF t.type \in {"MX", "SRV"} THEN t.prio = Plain(t.prio.value) ELSE t.prio = Blank
    /\ IF t.type = "SRV" THEN t.nums = Plain(t.nums.value) ELSE t.nums = Blank
    /\ t.host = CanonicalHost(t.host, t.type = "SRV")

LEMMA HostForms ==
    ASSUME NEW h \in Hosts, NEW d \in BOOLEAN
    PROVE  /\ CanonicalHost(h, d) \in Hosts
           /\ CanonicalHost(CanonicalHost(h, d), d) = CanonicalHost(h, d)
           /\ CanonicalHost(h, d).root = h.root
           /\ \A e \in BOOLEAN : CanonicalHost(Dotted(h, e), d) = CanonicalHost(h, d) /\ Dotted(h, e) \in Hosts
<1>1. CASE h = Root
  <2>1. h.root /\ CanonicalHost(h, d) = h /\ \A e \in BOOLEAN : Dotted(h, e) = h
    BY <1>1 DEF Root, CanonicalHost, Dotted
  <2> QED
    BY <2>1
<1>2. CASE h # Root
  <2> DEFINE c == [root |-> FALSE, dot |-> d, upper |-> FALSE]
             u(e) == [root |-> FALSE, dot |-> e, upper |-> h.upper]
  <2>1. h \in [root : {FALSE}, dot : BOOLEAN, upper : BOOLEAN]
    BY <1>2 DEF Hosts
  <2>2. h.root = FALSE /\ h.upper \in BOOLEAN
    BY <2>1
  <2>3. CanonicalHost(h, d) = c /\ \A e \in BOOLEAN : Dotted(h, e) = u(e)
    BY <2>2 DEF CanonicalHost, Dotted
  <2>4. c \in Hosts /\ \A e \in BOOLEAN : u(e) \in Hosts
    BY <2>2 DEF Hosts
  <2>5. CanonicalHost(c, d) = c /\ \A e \in BOOLEAN : CanonicalHost(u(e), d) = c
    BY DEF CanonicalHost
  <2>6. c.root = FALSE
    OBVIOUS
  <2> QED
    BY <2>2, <2>3, <2>4, <2>5, <2>6
<1> QED
  BY <1>1, <1>2

LEMMA NumberForms ==
    ASSUME NEW n \in {Blank} \cup Written
    PROVE  /\ Uint(n) \in {Blank} \cup Written
           /\ Uint(n).value = n.value
           /\ Uint(Uint(n)) = Uint(n)
           /\ n \in Written => Uint(n) = Plain(n.value)
           /\ n = Blank <=> n.form = "blank"
           /\ Uint(Blank) = Blank
           /\ n = Plain(n.value) => Uint(n) = n
BY DEF Blank, Written, Uint, Plain

LEMMA UnwrapFacts == \A n \in Nat : Unwrap(n) \in Nat /\ Unwrap(n) <= n /\ Unwrap(n + 1) = n
BY DEF Unwrap

\* A canonical target loses a pair of quotes, and nothing else, by being made
\* canonical again (validateEndpoint).
LEMMA CanonicalFixed ==
    ASSUME NEW t, IsCanonical(t)
    PROVE  IsCanonical(Canonical(t)) /\ Canonical(t) = [t EXCEPT !.layers = Unwrap(t.layers)]
<1>1. Uint(t.prio) = t.prio /\ Uint(t.nums) = t.nums
  BY NumberForms DEF IsCanonical, Fields
<1>2. Canonical(t) = [type |-> t.type, prio |-> t.prio, nums |-> t.nums, host |-> t.host, layers |-> Unwrap(t.layers)]
  BY <1>1 DEF IsCanonical, Canonical
<1>3. t \in Fields /\ Unwrap(t.layers) \in Nat
  BY UnwrapFacts DEF IsCanonical, Fields
<1>4. Canonical(t) = [t EXCEPT !.layers = Unwrap(t.layers)] /\ Canonical(t) \in Fields
  BY <1>2, <1>3 DEF Fields
<1>5. IsCanonical(Canonical(t))
  BY <1>2, <1>4 DEF IsCanonical, Accepts
<1> QED
  BY <1>4, <1>5

\* An accepted target becomes canonical.
LEMMA BecomesCanonical ==
    ASSUME NEW t, WellFormed(t), Accepts(t),
           t.type \in {"MX", "SRV"} => t.prio \in Written
    PROVE  IsCanonical(Canonical(t))
<1> DEFINE c == Canonical(t)
<1>1. /\ t \in Fields
      /\ t.type # "SRV" => t.nums = Blank
      /\ t.type = "SRV" => t.nums \in Written
      /\ t.type \notin {"MX", "SRV"} => t.prio = Blank
  BY DEF WellFormed
<1>2. c = [type |-> t.type, prio |-> Uint(t.prio), nums |-> Uint(t.nums),
           host |-> CanonicalHost(t.host, t.type = "SRV"), layers |-> Unwrap(t.layers)]
  BY DEF Canonical
<1>3. t.prio \in {Blank} \cup Written /\ t.nums \in {Blank} \cup Written /\ t.host \in Hosts
  BY <1>1 DEF Fields
<1>4. Unwrap(t.layers) \in Nat
  BY <1>1, UnwrapFacts DEF Fields
<1> HIDE DEF c
<1>5. c \in Fields
  <2>1. Uint(t.prio) \in {Blank} \cup Written /\ Uint(t.nums) \in {Blank} \cup Written
    BY <1>3, NumberForms
  <2>2. CanonicalHost(t.host, t.type = "SRV") \in Hosts
    BY <1>3, HostForms
  <2> QED
    BY <1>1, <1>2, <1>4, <2>1, <2>2 DEF Fields
<1>6. Accepts(c)
  BY <1>2, <1>3, NumberForms, HostForms DEF Accepts
<1>7. IF c.type \in {"MX", "SRV"} THEN c.prio = Plain(c.prio.value) ELSE c.prio = Blank
  BY <1>1, <1>2, <1>3, NumberForms
<1>8. IF c.type = "SRV" THEN c.nums = Plain(c.nums.value) ELSE c.nums = Blank
  BY <1>1, <1>2, <1>3, NumberForms
<1>9. c.host = CanonicalHost(c.host, c.type = "SRV")
  BY <1>2, <1>3, HostForms
<1> QED
  BY <1>5, <1>6, <1>7, <1>8, <1>9 DEF IsCanonical, c

\* A record that Porkbun lists reads as a canonical target.
LEMMA ReadsCanonical ==
    ASSUME NEW r, WellFormed(r), Accepts(r)
    PROVE  IsCanonical(Target(r))
<1> DEFINE j == Joined(r, Unwrap(r.layers))
<1>1. r \in Fields /\ r.prio \in {Blank} \cup Written
  BY DEF WellFormed, Fields
<1>2. Plain(0) \in Written /\ Plain(0).value = 0 /\ 0 < NumberSpace
  BY CodecAssumption DEF Plain, Written
<1>3. /\ Priority(r) \in {Blank} \cup Written /\ Priority(r).value < NumberSpace
      /\ r.type \in {"MX", "SRV"} => Priority(r) \in Written
      /\ r.type \notin {"MX", "SRV"} => Priority(r) = Blank
  BY <1>1, <1>2 DEF Priority, WellFormed, Accepts
<1>4. Unwrap(r.layers) \in Nat
  BY <1>1, UnwrapFacts DEF Fields
<1>5. j = [type |-> r.type, prio |-> Priority(r), nums |-> r.nums, host |-> r.host, layers |-> Unwrap(r.layers)]
  BY DEF Joined
<1> HIDE DEF j
<1>6. WellFormed(j)
  BY <1>1, <1>3, <1>4, <1>5 DEF WellFormed, Fields
<1>7. Accepts(j) /\ (j.type \in {"MX", "SRV"} => j.prio \in Written)
  BY <1>3, <1>4, <1>5 DEF Accepts
<1> QED
  BY <1>6, <1>7, BecomesCanonical DEF Target, j

\* What is written comes back as it was but for quotes, in whatever form
\* Porkbun lists it.
LEMMA ComesBack ==
    ASSUME NEW t, IsCanonical(t), NEW r, Listed(r, Sent(t))
    PROVE  /\ Target(r) \in Fields /\ Target(r).layers <= t.layers
           /\ Target(r) = [t EXCEPT !.layers = Target(r).layers]
           /\ IsCanonical(Target(r))
<1>1. /\ t \in Fields /\ t.layers \in Nat
      /\ t.prio \in {Blank} \cup Written /\ t.nums \in {Blank} \cup Written /\ t.host \in Hosts
  BY DEF IsCanonical, Fields
<1> DEFINE l == Unwrap(Unwrap(t.layers))
<1>l. l \in Nat /\ l <= t.layers
  BY <1>1, UnwrapFacts
<1>2. Sent(t) = [type |-> t.type, prio |-> t.prio, nums |-> t.nums, host |-> Dotted(t.host, FALSE), layers |-> l]
  <2> DEFINE c == Canonical(t)
  <2>1. c = [t EXCEPT !.layers = Unwrap(t.layers)]
    BY CanonicalFixed
  <2>2. c.type = t.type /\ c.prio = t.prio /\ c.nums = t.nums /\ c.host = t.host /\ c.layers = Unwrap(t.layers)
    BY <1>1, <2>1 DEF Fields
  <2> HIDE DEF c
  <2>3. Sent(t) = [type |-> c.type, prio |-> c.prio, nums |-> c.nums, host |-> Dotted(c.host, FALSE),
                   layers |-> Unwrap(c.layers)]
    BY DEF Sent, c
  <2> QED
    BY <2>2, <2>3
<1> DEFINE s == Sent(t)
<1>s. s.type = t.type /\ s.prio = t.prio /\ s.nums = t.nums /\ s.host = Dotted(t.host, FALSE) /\ s.layers = l
  BY <1>2
<1> HIDE DEF s, l
<1>3. PICK p \in {t.prio, Blank}, h \in {Dotted(t.host, FALSE), Dotted(Dotted(t.host, FALSE), TRUE)}, n \in {l, l + 1} :
         /\ p # t.prio => t.prio = Plain(0)
         /\ r = [type |-> t.type, prio |-> p, nums |-> t.nums, host |-> h, layers |-> n]
  <2>1. PICK p \in {s.prio, Blank}, h \in {s.host, Dotted(s.host, TRUE)}, n \in {s.layers, s.layers + 1} :
           /\ p # s.prio => s.prio = Plain(0)
           /\ r = [type |-> s.type, prio |-> p, nums |-> s.nums, host |-> h, layers |-> n]
    BY Zenon DEF Listed, s
  <2>2. n \in {l, l + 1}
    BY <1>s, <2>1
  <2>3. p \in {t.prio, Blank} /\ h \in {Dotted(t.host, FALSE), Dotted(Dotted(t.host, FALSE), TRUE)}
    BY <1>s, <2>1
  <2>4. p # t.prio => t.prio = Plain(0)
    BY <1>s, <2>1
  <2>5. r = [type |-> t.type, prio |-> p, nums |-> t.nums, host |-> h, layers |-> n]
    BY <1>s, <2>1
  <2> QED
    BY <2>2, <2>3, <2>4, <2>5
<1>4. Priority(r) = t.prio
  <2>1. Blank # Plain(0)
    BY DEF Blank, Plain
  <2>2. t.type \notin {"MX", "SRV"} => t.prio = Blank
    BY DEF IsCanonical
  <2>3. t.type \in {"MX", "SRV"} => t.prio # Blank
    BY DEF IsCanonical, Plain, Blank
  <2> QED
    BY <1>3, <2>1, <2>2, <2>3 DEF Priority
<1>5. CanonicalHost(h, t.type = "SRV") = t.host
  <2>1. Dotted(t.host, FALSE) \in Hosts /\ (t.type = "SRV") \in BOOLEAN
    BY <1>1, HostForms
  <2>2. CanonicalHost(h, t.type = "SRV") = CanonicalHost(t.host, t.type = "SRV")
    BY <1>1, <1>3, <2>1, HostForms
  <2> QED
    BY <2>2 DEF IsCanonical
<1>6. Unwrap(Unwrap(n)) \in Nat /\ Unwrap(Unwrap(n)) <= l
  <2>1. n \in Nat /\ Unwrap(n) \in Nat /\ Unwrap(n) <= l
    BY <1>3, <1>l, UnwrapFacts
  <2>2. Unwrap(Unwrap(n)) \in Nat /\ Unwrap(Unwrap(n)) <= Unwrap(n)
    BY <2>1, UnwrapFacts
  <2> QED
    BY <1>l, <2>1, <2>2
<1>7. Uint(t.prio) = t.prio /\ Uint(t.nums) = t.nums
  BY <1>1, NumberForms DEF IsCanonical
<1> DEFINE u == [type |-> t.type, prio |-> t.prio, nums |-> t.nums, host |-> t.host, layers |-> Unwrap(Unwrap(n))]
<1>8. Target(r) = u
  BY <1>3, <1>4, <1>5, <1>7 DEF Target, Joined, Canonical
<1>9. u \in Fields /\ u.layers <= t.layers /\ u = [t EXCEPT !.layers = u.layers]
  BY <1>1, <1>l, <1>6 DEF Fields
<1>10. IsCanonical(u)
  BY <1>9 DEF IsCanonical, Accepts
<1> HIDE DEF u
<1> QED
  BY <1>8, <1>9, <1>10

\* What is sent and listed stems from a canonical target.
CodecInv ==
    \/ at = "source" /\ text \in Texts(Written, 0..Layers) /\ Accepts(text)
    \/ at \in {"adjusted", "validated", "seen"} /\ IsCanonical(asked) /\ IsCanonical(text) /\ Kept(text)
    \/ at = "sent" /\ IsCanonical(asked) /\ \E t : IsCanonical(t) /\ Kept(t) /\ text = Sent(t)
    \/ at = "listed" /\ IsCanonical(asked) /\ \E t : IsCanonical(t) /\ Kept(t) /\ Listed(text, Sent(t))
    \/ at = "listed" /\ asked = NoText /\ text \in Texts(Written \cup {Blank}, 0..Layers + 1) /\ Accepts(text)

LEMMA KeptLess ==
    ASSUME IsCanonical(asked), NEW t, IsCanonical(t), Kept(t),
           NEW l \in Nat, l <= t.layers, NEW u, u = [t EXCEPT !.layers = l]
    PROVE  Kept(u)
<1>1. asked \in Fields /\ t \in Fields /\ t.layers <= asked.layers /\ t = [asked EXCEPT !.layers = t.layers]
  BY DEF IsCanonical, Kept
<1>2. u.layers = l /\ u = [asked EXCEPT !.layers = l] /\ l <= asked.layers
  BY <1>1 DEF Fields
<1> QED
  BY <1>2 DEF Kept

\* A target on its way back is the one asked for.
LEMMA KeptBack ==
    ASSUME IsCanonical(asked), NEW t, IsCanonical(t), Kept(t), NEW r, Listed(r, Sent(t))
    PROVE  IsCanonical(Target(r)) /\ Kept(Target(r))
<1>1. /\ IsCanonical(Target(r)) /\ Target(r).layers \in Nat /\ Target(r).layers <= t.layers
      /\ Target(r) = [t EXCEPT !.layers = Target(r).layers]
  BY ComesBack DEF Fields
<1> QED
  BY <1>1, KeptLess

LEMMA KeptFirst ==
    ASSUME IsCanonical(asked)
    PROVE  Kept(asked)
BY DEF IsCanonical, Kept, Fields

LEMMA CodecStep == CodecInv /\ [CodecNext]_codecVars => CodecInv'
<1> SUFFICES ASSUME CodecInv, [CodecNext]_codecVars PROVE CodecInv'
  OBVIOUS
<1>1. CASE AdjustEndpoints
  <2>1. text \in Texts(Written, 0..Layers) /\ Accepts(text)
    BY <1>1 DEF AdjustEndpoints, CodecInv
  <2>2. Written \in SUBSET ({Blank} \cup Written) /\ 0..Layers \in SUBSET Nat
    BY CodecAssumption
  <2>3. WellFormed(text) /\ (text.type \in {"MX", "SRV"} => text.prio \in Written)
    BY <2>1, <2>2, TextFields
  <2>4. at' = "adjusted" /\ text' = Canonical(text) /\ asked' = text'
    BY <1>1 DEF AdjustEndpoints
  <2>5. IsCanonical(text)'
    BY <2>1, <2>3, <2>4, BecomesCanonical DEF IsCanonical, Fields, Accepts
  <2>6. Kept(text)' /\ IsCanonical(asked)'
    BY <2>4, <2>5 DEF IsCanonical, Kept, Fields, Accepts
  <2> QED
    BY <2>4, <2>5, <2>6 DEF CodecInv
<1>2. CASE ValidateEndpoint
  <2>1. at' = "validated" /\ text' = Canonical(text) /\ asked' = asked
    BY <1>2 DEF ValidateEndpoint
  <2>2. IsCanonical(asked) /\ IsCanonical(text) /\ Kept(text)
    BY <1>2 DEF ValidateEndpoint, CodecInv
  <2>3. Unwrap(text.layers) \in Nat /\ Unwrap(text.layers) <= text.layers
    BY <2>2, UnwrapFacts DEF IsCanonical, Fields
  <2>4. IsCanonical(Canonical(text)) /\ Kept(Canonical(text))
    BY <2>2, <2>3, CanonicalFixed, KeptLess
  <2> QED
    BY <2>1, <2>2, <2>4 DEF CodecInv, Kept
<1>3. CASE RecordInput
  BY <1>3 DEF RecordInput, CodecInv, Kept
<1>4. CASE List
  BY <1>4 DEF List, CodecInv, Kept
<1>5. CASE ReadRecord
  <2>1. CASE IsCanonical(asked) /\ \E t : IsCanonical(t) /\ Kept(t) /\ Listed(text, Sent(t))
    <3>1. IsCanonical(Target(text)) /\ Kept(Target(text))
      BY <2>1, KeptBack
    <3>2. at' = "seen" /\ text' = Target(text) /\ asked' = IF asked = NoText THEN text' ELSE asked
      BY <1>5 DEF ReadRecord
    <3>3. CASE asked = NoText
      <4>1. Kept(text)'
        BY <3>1, <3>2, <3>3 DEF IsCanonical, Kept, Fields
      <4> QED
        BY <3>1, <3>2, <3>3, <4>1 DEF CodecInv
    <3>4. CASE asked # NoText
      BY <2>1, <3>1, <3>2, <3>4 DEF CodecInv, Kept
    <3> QED
      BY <3>3, <3>4
  <2>2. CASE asked = NoText /\ text \in Texts(Written \cup {Blank}, 0..Layers + 1) /\ Accepts(text)
    <3>1. Written \cup {Blank} \in SUBSET ({Blank} \cup Written) /\ 0..Layers + 1 \in SUBSET Nat
      BY CodecAssumption
    <3>2. WellFormed(text)
      BY <2>2, <3>1, TextFields
    <3>3. at' = "seen" /\ text' = Target(text) /\ asked' = text' /\ IsCanonical(Target(text))
      BY <1>5, <2>2, <3>2, ReadsCanonical DEF ReadRecord
    <3>4. Kept(text)'
      BY <3>3 DEF IsCanonical, Kept, Fields
    <3> QED
      BY <3>3, <3>4 DEF CodecInv
  <2> QED
    BY <1>5, <2>1, <2>2 DEF ReadRecord, CodecInv
<1>6. CASE UNCHANGED codecVars
  BY <1>6 DEF codecVars, CodecInv, Kept
<1> QED
  BY <1>1, <1>2, <1>3, <1>4, <1>5, <1>6 DEF CodecNext

\* Whatever the numbers, hosts, quotes and lists: a target is the same at every
\* comparison from AdjustEndpoints to Porkbun and back, as often as it goes,
\* but for quotes it came with beyond the first pair.
THEOREM TargetsKeepForm == CodecSpec => []TargetsStable
<1>1. CodecInit => CodecInv
  BY DEF CodecInit, CodecInv
<1>2. CodecInv => TargetsStable
  <2> SUFFICES ASSUME CodecInv PROVE TargetsStable
    OBVIOUS
  <2>1. CASE at \in {"adjusted", "validated", "seen"}
    BY <2>1 DEF CodecInv, TargetsStable, IsCanonical
  <2>2. CASE at = "sent"
    <3>1. PICK t : IsCanonical(t) /\ Kept(t) /\ text = Sent(t)
      BY <2>2 DEF CodecInv
    <3>2. Listed(text, Sent(t)) /\ IsCanonical(asked)
      BY <2>2, <3>1 DEF Listed, Sent, CodecInv
    <3> QED
      BY <2>2, <3>1, <3>2, KeptBack DEF TargetsStable
  <2>3. CASE at = "listed"
    BY <2>3, KeptBack DEF CodecInv, TargetsStable
  <2>4. CASE at = "source"
    BY <2>4 DEF TargetsStable
  <2> QED
    BY <2>1, <2>2, <2>3, <2>4 DEF CodecInv
<1> QED
  BY <1>1, <1>2, CodecStep, PTL DEF CodecSpec
--------------------------------------------------------------------------------
(* The comparison. *)

WantedOK ==
    /\ rrset \in [of : Owned, cname : BOOLEAN, apex : BOOLEAN] /\ (rrset.apex => rrset.cname)
    /\ wanted \in [targets : SUBSET Targets, ttl : WantedTTLs, props : SUBSET AliasProps]
    /\ AdjustAccepts(wanted)

RecsOK ==
    /\ recs \subseteq Records /\ IsFiniteSet(recs)
    /\ \A r \in recs : r.kind = "primary" /\ r.of = rrset.of /\ r.content \in Targets

With(c) == {r \in recs : r.content = c}

\* The adjusted endpoint: a TTL Porkbun takes, and ALIAS only for one target.
LEMMA AdjustedFacts ==
    ASSUME WantedOK, NEW d, d = Adjusted(wanted)
    PROVE  /\ d.ttl \in Nat /\ EffectiveTTL(d.ttl) = d.ttl /\ Input(d) \in Attrs
           /\ d.targets \subseteq Targets /\ d.targets # {}
           /\ d.alias => \A t, u \in d.targets : t = u
           /\ Input(d) = [type |-> IF d.alias THEN AliasType ELSE PlainType, ttl |-> d.ttl]
<1>1. d.ttl = EffectiveTTL(wanted.ttl) /\ d.targets = wanted.targets
  BY DEF Adjusted
<1>2. wanted.ttl \in Nat /\ wanted.ttl \in WantedTTLs
  BY ViewAssumption DEF WantedOK
<1>3. d.ttl \in Nat /\ EffectiveTTL(d.ttl) = d.ttl /\ d.ttl \in {t \in {Floor} \cup WantedTTLs : t >= Floor}
  BY <1>1, <1>2, ViewAssumption DEF EffectiveTTL
<1>4. d.targets \subseteq Targets /\ d.targets # {}
  BY <1>1 DEF WantedOK, AdjustAccepts, TargetsAccepted
<1>5. d.alias <=> "alias" \in WithApex(Shape(wanted.props), PropsKept(Shape(wanted.props)))
  BY DEF Adjusted
<1>6. d.alias <=> "alias" \in wanted.props \/ (rrset.cname /\ rrset.apex)
  BY <1>5 DEF WithApex, PropsKept, Shape
<1>7. "alias" \in wanted.props => rrset.cname
  BY DEF WantedOK, AdjustAccepts, PropsAccepted, Shape, AliasProps
<1>8. d.alias => \A t, u \in d.targets : t = u
  BY <1>1, <1>6, <1>7 DEF WantedOK, AdjustAccepts, TargetsAccepted, Shape
<1>9. Input(d).type = IF d.alias THEN AliasType ELSE PlainType
  BY <1>6 DEF Input
<1>10. Input(d) \in [type : {PlainType, AliasType}, ttl : {t \in {Floor} \cup WantedTTLs : t >= Floor}]
  BY <1>3, <1>9 DEF Input
<1>11. Input(d) \in Attrs
  BY <1>10, ViewAssumption
<1> QED
  BY <1>3, <1>4, <1>8, <1>9, <1>11 DEF Input

LEMMA Counting ==
    ASSUME RecsOK, NEW c
    PROVE  /\ Cardinality(With(c)) = 0 <=> With(c) = {}
           /\ Cardinality(With(c)) = 1 <=> \E r : With(c) = {r}
<1>1. With(c) \in SUBSET recs
  BY DEF With
<1>2. IsFiniteSet(With(c))
  BY <1>1, FS_Subset DEF RecsOK
<1> QED
  BY <1>2, FS_EmptySet, FS_Singleton

\* An update is done when the records are the wanted ones.
LEMMA DoneIs ==
    ASSUME RecsOK, NEW d, d.targets \subseteq Targets
    PROVE  Done(UpdateTask(recs, d), recs)
              <=> /\ \A r \in recs : r.content \in d.targets
                  /\ \A c \in d.targets : \E r : With(c) = {r} /\ r.attr = Input(d)
<1> DEFINE task == UpdateTask(recs, d)
<1>1. /\ task.kind = "primary" /\ task.of = rrset.of /\ task.move = {} /\ task.keep = d.targets
      /\ task.attr = Input(d) /\ task.drop = Contents(recs, "primary", rrset.of) \ d.targets
  BY DEF UpdateTask
<1> HIDE DEF task
<1>2. \A cs : Match(recs, "primary", rrset.of, cs) = {r \in recs : r.content \in cs}
  BY DEF Match, RecsOK
<1>3. Match(recs, task.kind, task.of, task.move) = {}
  BY <1>1, <1>2
<1>4. Match(recs, task.kind, task.of, task.drop) = {} <=> \A r \in recs : r.content \in d.targets
  <2>1. \A r \in recs : r.content \in Contents(recs, "primary", rrset.of)
    BY DEF Contents, RecsOK
  <2> QED
    BY <1>1, <1>2, <2>1
<1>5. ASSUME NEW c
      PROVE  Settled(task, recs, c) <=> \E r : With(c) = {r} /\ r.attr = Input(d)
  <2>1. Match(recs, task.kind, task.of, {c}) = With(c)
    BY <1>1, <1>2 DEF With
  <2>2. Settled(task, recs, c) <=> \E r \in With(c) : r.attr = Input(d) /\ With(c) = {r}
    BY <1>1, <2>1 DEF Settled
  <2> QED
    BY <2>2
<1>6. Open(task, recs) = {} <=> \A c \in d.targets : \E r : With(c) = {r} /\ r.attr = Input(d)
  BY <1>1, <1>5 DEF Open
<1> QED
  BY <1>3, <1>4, <1>6 DEF Done, task

\* The planner sees no difference when the records are the wanted ones ...
LEMMA SameWhenDone ==
    ASSUME WantedOK, RecsOK, recs # {}, NEW d, d = Adjusted(wanted), Done(UpdateTask(recs, d), recs)
    PROVE  ~Differs(View(recs), d)
<1>1. /\ \A r \in recs : r.content \in d.targets
      /\ \A c \in d.targets : \E r : With(c) = {r} /\ r.attr = Input(d)
  BY AdjustedFacts, DoneIs
<1>2. \A r \in recs : r.attr = Input(d)
  BY <1>1 DEF With
<1>3. d.ttl \in Nat /\ EffectiveTTL(d.ttl) = d.ttl
  BY AdjustedFacts
<1>4. \A r \in recs : r.attr.ttl = d.ttl /\ (r.attr.type = AliasType <=> d.alias)
  BY <1>2, AdjustedFacts, ViewAssumption
<1>5. \A r \in recs : EffectiveTTL(RawTTL(r)) = d.ttl
  BY <1>3, <1>4, ViewAssumption DEF RawTTL
<1>6. LowestTTL(recs) = d.ttl
  <2>1. {EffectiveTTL(RawTTL(r)) : r \in recs} = {d.ttl}
    BY <1>5
  <2>2. \A r \in recs : d.ttl <= EffectiveTTL(RawTTL(r))
    BY <1>3, <1>5
  <2> QED
    BY <2>1, <2>2 DEF LowestTTL
<1>7. \A c \in Targets : Cardinality(With(c)) = IF c \in d.targets THEN 1 ELSE 0
  <2> SUFFICES ASSUME NEW c \in Targets PROVE Cardinality(With(c)) = IF c \in d.targets THEN 1 ELSE 0
    OBVIOUS
  <2>1. c \notin d.targets => With(c) = {}
    BY <1>1 DEF With
  <2> QED
    BY <1>1, <2>1, Counting
<1>8. View(recs).ttl = d.ttl /\ ~View(recs).drift /\ (View(recs).alias <=> d.alias)
  BY <1>4, <1>6 DEF View
<1>9. \A c \in Targets : View(recs).targets[c] = Cardinality(With(c))
  BY DEF View, With
<1>10. d.alias \in BOOLEAN /\ View(recs).alias \in BOOLEAN
  BY DEF Adjusted, View
<1>11. View(recs).alias = d.alias
  BY <1>8, <1>10
<1>12. \A c \in Targets : View(recs).targets[c] = IF c \in d.targets THEN 1 ELSE 0
  BY <1>7, <1>9
<1> QED
  BY <1>8, <1>11, <1>12, Zenon DEF Differs

\* ... and only then: neither the lowest TTL nor one ALIAS among several
\* records stands for what the others are not.
LEMMA DoneWhenSame ==
    ASSUME WantedOK, RecsOK, recs # {}, NEW d, d = Adjusted(wanted), ~Differs(View(recs), d)
    PROVE  Done(UpdateTask(recs, d), recs)
<1> DEFINE v == View(recs)
<1>1. v.ttl = d.ttl /\ ~v.drift /\ v.alias = d.alias
  BY DEF Differs
<1>2. \A c \in Targets : v.targets[c] = IF c \in d.targets THEN 1 ELSE 0
  BY DEF Differs
<1>3. \A c \in Targets : v.targets[c] = Cardinality(With(c))
  BY DEF View, With
<1>4. \A r \in recs : r.attr.ttl = d.ttl
  BY <1>1 DEF View
<1>5. \A r \in recs : r.content \in d.targets
  <2> SUFFICES ASSUME NEW r \in recs, r.content \notin d.targets PROVE FALSE
    OBVIOUS
  <2>1. With(r.content) # {} /\ r.content \in Targets
    BY DEF With, RecsOK
  <2> QED
    BY <1>2, <1>3, <2>1, Counting
<1>6. \A c \in d.targets : \E r : With(c) = {r}
  BY <1>2, <1>3, Counting, AdjustedFacts
<1>7. (\E r \in recs : r.attr.type = AliasType) <=> d.alias
  BY <1>1 DEF View
<1>8. \A r \in recs : r.attr.type = IF d.alias THEN AliasType ELSE PlainType
  <2>1. \A r \in recs : r.attr.type \in {PlainType, AliasType}
    BY ViewAssumption DEF RecsOK, Records
  <2>2. CASE ~d.alias
    BY <1>7, <2>1, <2>2
  <2>3. CASE d.alias
    <3>1. PICK q \in recs : q.attr.type = AliasType
      BY <1>7, <2>3
    <3>2. \A r \in recs : r.content = q.content
      BY <1>5, <2>3, AdjustedFacts
    <3>3. \A r \in recs : r = q
      BY <1>5, <1>6, <3>2 DEF With
    <3> QED
      BY <2>3, <3>1, <3>3
  <2> QED
    BY <2>2, <2>3
<1>9. \A r \in recs : r.attr = Input(d)
  <2>1. \A r \in recs : r.attr = [type |-> r.attr.type, ttl |-> r.attr.ttl]
    BY ViewAssumption DEF RecsOK, Records
  <2> QED
    BY <1>4, <1>8, <2>1, AdjustedFacts
<1> QED
  BY <1>5, <1>6, <1>9, AdjustedFacts, DoneIs DEF With

TasksOK ==
    \A task \in todo :
        /\ TaskOK(task) /\ task.kind = "primary" /\ task.of = rrset.of /\ task.keep \subseteq Targets

ViewInv == WantedOK /\ RecsOK /\ TasksOK

LEMMA PutOfConverge ==
    ASSUME NEW task, NEW idx, NEW c, NEW i, NEW call \in ConvergeTarget(task, idx, c, i)
    PROVE  call.put = {} \/ \E r : call.put = {r}
<1> DEFINE dups   == Match(idx, task.kind, task.of, {c})
           keeper == PreferredRecord(dups, task.attr)
           stale  == {r \in keeper : r.attr # task.attr}
<1>1. \/ call = CreateCall(task, c, i)
      \/ \E r \in stale : call = EditCall(r, task, c)
      \/ \E r \in Earliest(dups \ keeper) : call = DeleteCall(r)
  BY DEF ConvergeTarget
<1>2. CASE call = CreateCall(task, c, i)
  <2> DEFINE q == [id |-> i, kind |-> task.kind, of |-> task.of, content |-> c, attr |-> task.attr]
  <2>1. call.put = {q}
    BY <1>2 DEF CreateCall
  <2> QED
    BY <2>1
<1>3. ASSUME NEW r, call = EditCall(r, task, c) PROVE \E q : call.put = {q}
  <2> DEFINE q == [r EXCEPT !.content = c, !.attr = task.attr]
  <2>1. call.put = {q}
    BY <1>3 DEF EditCall
  <2> QED
    BY <2>1
<1>4. ASSUME NEW r, call = DeleteCall(r) PROVE call.put = {}
  BY <1>4 DEF DeleteCall
<1> QED
  BY <1>1, <1>2, <1>3, <1>4

\* Every call puts at most one record, of the same identity and with a wanted
\* content.
LEMMA CallsKeepRecs ==
    ASSUME ViewInv, NEW task \in todo, NEW i \in FreeIds, NEW call \in Calls(task, recs, i)
    PROVE  LET S == Effect(recs, call)
           IN  /\ S \subseteq Records /\ IsFiniteSet(S)
               /\ \A r \in S : r.kind = "primary" /\ r.of = rrset.of /\ r.content \in Targets
<1>1. recs \in SUBSET Records /\ IsFiniteSet(recs) /\ i \in Ids
  BY DEF ViewInv, RecsOK, FreeIds
<1>2. TaskOK(task) /\ task.kind = "primary" /\ task.of = rrset.of /\ task.keep \subseteq Targets
  BY DEF ViewInv, TasksOK
<1>3. \A r \in call.put : r \in Records /\ r.kind = "primary" /\ r.of = rrset.of /\ r.content \in Targets
  BY <1>1, <1>2, CallShape
<1>4. IsFiniteSet(call.put)
  <2>1. \/ call.put = {}
        \/ \E r : call.put = {r}
    <3> DEFINE drops == Match(recs, task.kind, task.of, task.drop)
               moves == Match(recs, task.kind, task.of, task.move)
    <3>1. CASE drops # {}
      <4>1. PICK r \in Earliest(drops) : call = DeleteCall(r)
        BY <3>1 DEF Calls
      <4> QED
        BY <4>1 DEF DeleteCall
    <3>2. CASE drops = {} /\ moves # {}
      <4>1. PICK r \in Earliest(moves), c \in task.keep : call = EditCall(r, task, c)
        BY <3>2 DEF Calls
      <4> DEFINE q == [r EXCEPT !.content = c, !.attr = task.attr]
      <4>2. call.put = {q}
        BY <4>1 DEF EditCall
      <4> QED
        BY <4>2
    <3>3. CASE drops = {} /\ moves = {}
      <4>1. PICK c \in Open(task, recs) : call \in ConvergeTarget(task, recs, c, i)
        BY <3>3 DEF Calls
      <4>2. \A e \in ConvergeTarget(task, recs, c, i) : e.put = {} \/ \E r : e.put = {r}
        BY PutOfConverge
      <4> QED
        BY <4>1, <4>2
    <3> QED
      BY <3>1, <3>2, <3>3
  <2> QED
    BY <2>1, FS_EmptySet, FS_Singleton
<1>5. IsFiniteSet(recs \ call.cut)
  BY <1>1, FS_Difference
<1>6. IsFiniteSet((recs \ call.cut) \cup call.put)
  BY <1>4, <1>5, FS_Union
<1> QED
  BY <1>1, <1>3, <1>6 DEF Effect, ViewInv, RecsOK

LEMMA ViewStep == ViewInv /\ [ViewNext]_viewVars => ViewInv'
<1> SUFFICES ASSUME ViewInv, [ViewNext]_viewVars PROVE ViewInv'
  OBVIOUS
<1> USE DEF ViewInv
<1>1. CASE Ask
  <2> DEFINE d == Adjusted(wanted)
             task == UpdateTask(recs, d)
  <2>1. d.targets \subseteq Targets /\ Input(d) \in Attrs /\ rrset.of \in Owned
    BY AdjustedFacts DEF WantedOK
  <2>2. TaskOK(task) /\ task.kind = "primary" /\ task.of = rrset.of /\ task.keep \subseteq Targets
    BY <2>1 DEF TaskOK, UpdateTask, AllContents
  <2>3. todo' = {task} /\ UNCHANGED <<rrset, recs, wanted>>
    BY <1>1 DEF Ask
  <2>4. TasksOK'
    BY <2>2, <2>3 DEF TasksOK
  <2> QED
    BY <2>3, <2>4 DEF WantedOK, RecsOK, AdjustAccepts, Shape
<1>2. CASE Write
  <2>1. UNCHANGED <<rrset, wanted, todo>>
    BY <1>2 DEF Write
  <2>2. RecsOK'
    BY <1>2, <2>1, CallsKeepRecs DEF Write, RecsOK
  <2> QED
    BY <2>1, <2>2 DEF WantedOK, TasksOK, AdjustAccepts, Shape
<1>3. CASE WriteFails
  <2>1. UNCHANGED <<rrset, wanted>> /\ todo' = {}
    BY <1>3 DEF WriteFails
  <2>2. RecsOK'
    BY <1>3, <2>1, CallsKeepRecs DEF WriteFails, RecsOK
  <2> QED
    BY <2>1, <2>2 DEF WantedOK, TasksOK, AdjustAccepts, Shape
<1>4. CASE Finish
  BY <1>4 DEF Finish, WantedOK, RecsOK, TasksOK, AdjustAccepts, Shape
<1>5. CASE UNCHANGED viewVars
  BY <1>5 DEF viewVars, WantedOK, RecsOK, TasksOK, AdjustAccepts, Shape
<1> QED
  BY <1>1, <1>2, <1>3, <1>4, <1>5 DEF ViewNext

LEMMA ViewStart == ViewInit => ViewInv
<1> SUFFICES ASSUME ViewInit PROVE ViewInv
  OBVIOUS
<1>1. WantedOK
  <2>1. wanted.props \in {{}} \cup {{y} : y \in AliasProps}
    BY DEF ViewInit
  <2> QED
    BY <2>1 DEF ViewInit, WantedOK
<1>2. RecsOK
  BY ViewAssumption DEF ViewInit, RecsOK
<1> QED
  BY <1>1, <1>2 DEF ViewInit, ViewInv, TasksOK

\* Whatever the records of an identity and whatever calls have failed before:
\* ExternalDNS sees a difference if and only if an update has something to do.
THEOREM DriftSeen == ViewSpec => []NoHiddenDrift
<1>1. ViewInv => NoHiddenDrift
  BY SameWhenDone, DoneWhenSame DEF ViewInv, NoHiddenDrift
<1> QED
  BY <1>1, ViewStart, ViewStep, PTL DEF ViewSpec
--------------------------------------------------------------------------------
(* The order of the records. *)

\* Records the grouping loop is right about.
Groupable(S) == S \subseteq Records /\ IsFiniteSet(S) /\ \A r \in S : r.content \in Targets

LEMMA TTLNat ==
    ASSUME NEW r \in Records
    PROVE  /\ EffectiveTTL(RawTTL(r)) \in Nat
           /\ EffectiveTTL(RawTTL(r)) >= Floor
           /\ r.attr.ttl \in Nat /\ r.attr.ttl >= Floor => EffectiveTTL(RawTTL(r)) = r.attr.ttl
<1>1. r.attr.ttl \in Nat \cup {Unreadable}
  BY ViewAssumption DEF Records
<1> QED
  BY <1>1, ViewAssumption DEF EffectiveTTL, RawTTL

LEMMA LowestIs ==
    ASSUME NEW S, Groupable(S), S # {}
    PROVE  /\ \A r \in S : LowestTTL(S) <= EffectiveTTL(RawTTL(r))
           /\ \E r \in S : LowestTTL(S) = EffectiveTTL(RawTTL(r))
<1> DEFINE T == {EffectiveTTL(RawTTL(r)) : r \in S}
<1>1. T \in SUBSET Nat /\ T # {}
  BY TTLNat DEF Groupable
<1>2. PICK t \in T : \A u \in T : t <= u
  <2> HIDE DEF T
  <2> QED
    BY <1>1, LeastOfNats
<1>3. \A r \in S : t <= EffectiveTTL(RawTTL(r))
  BY <1>2
<1>4. LowestTTL(S) \in T /\ \A r \in S : LowestTTL(S) <= EffectiveTTL(RawTTL(r))
  BY <1>3 DEF LowestTTL
<1> QED
  BY <1>4

LEMMA ViewOfNone == View({}) = NoEndpoint
<1>1. \A c : {r \in {} : r.content = c} = {}
  OBVIOUS
<1>2. [c \in Targets |-> Cardinality({r \in {} : r.content = c})] = [c \in Targets |-> 0]
  BY <1>1, FS_EmptySet
<1> QED
  BY <1>2 DEF View, NoEndpoint

\* A round of the loop adds the record to the view of those before it: the loop
\* invariant of the grouping in Records.
LEMMA ViewAdds ==
    ASSUME NEW S, Groupable(S), NEW q \in Records, q \notin S, q.content \in Targets
    PROVE  AddRecord(View(S), q) = View(S \cup {q})
<1> DEFINE R   == S \cup {q}
           ttl == EffectiveTTL(RawTTL(q))
           low == LowestTTL(S)
           v   == View(S)
<1>1. Groupable(R)
  BY FS_AddElement DEF Groupable
<1>2. Empty(v) <=> S = {}
  <2>1. \A c \in Targets : v.targets[c] = Cardinality({r \in S : r.content = c})
    BY DEF View
  <2>2. ASSUME NEW c PROVE Cardinality({r \in S : r.content = c}) = 0 <=> {r \in S : r.content = c} = {}
    <3> DEFINE X == {r \in S : r.content = c}
    <3>1. X \in SUBSET S
      OBVIOUS
    <3> HIDE DEF X
    <3>2. IsFiniteSet(X)
      BY <3>1, FS_Subset DEF Groupable
    <3>3. Cardinality(X) = 0 <=> X = {}
      BY <3>2, FS_EmptySet
    <3> QED
      BY <3>3 DEF X
  <2>3. ASSUME NEW r \in S PROVE ~Empty(v)
    <3>1. r.content \in Targets /\ {u \in S : u.content = r.content} # {}
      BY DEF Groupable
    <3>2. v.targets[r.content] # 0
      BY <2>1, <2>2, <3>1
    <3> QED
      BY <3>1, <3>2 DEF Empty
  <2>4. S = {} => Empty(v)
    <3> SUFFICES ASSUME S = {}, NEW c \in Targets PROVE v.targets[c] = 0
      BY DEF Empty
    <3>1. {r \in S : r.content = c} = {}
      OBVIOUS
    <3> QED
      BY <2>1, <3>1, FS_EmptySet
  <2> QED
    BY <2>3, <2>4
<1>3. ttl \in Nat /\ (q.attr.ttl \in Nat /\ q.attr.ttl >= Floor => ttl = q.attr.ttl)
  BY TTLNat
<1>4. LowestTTL(R) = IF S = {} \/ ttl < low THEN ttl ELSE low
  <2>1. LowestTTL(R) \in Nat
    BY <1>1, LowestIs, TTLNat DEF Groupable
  <2>2. LowestTTL(R) <= ttl /\ \A r \in S : LowestTTL(R) <= EffectiveTTL(RawTTL(r))
    BY <1>1, LowestIs
  <2>3. LowestTTL(R) = ttl \/ \E r \in S : LowestTTL(R) = EffectiveTTL(RawTTL(r))
    BY <1>1, LowestIs
  <2>4. ASSUME S # {}
        PROVE  /\ low \in Nat /\ \A r \in S : low <= EffectiveTTL(RawTTL(r))
               /\ \E r \in S : low = EffectiveTTL(RawTTL(r))
    BY <2>4, LowestIs, TTLNat DEF Groupable
  <2>5. CASE S = {}
    BY <2>3, <2>5
  <2>6. CASE S # {}
    <3>1. LowestTTL(R) <= low
      BY <2>2, <2>4, <2>6
    <3>2. LowestTTL(R) = ttl \/ low <= LowestTTL(R)
      BY <2>3, <2>4, <2>6
    <3> QED
      BY <1>3, <2>1, <2>2, <2>4, <2>6, <3>1, <3>2
  <2> QED
    BY <2>5, <2>6
<1>5. v.ttl = IF S = {} THEN 0 ELSE low
  BY DEF View
<1>6. (IF Empty(v) \/ ttl < v.ttl THEN ttl ELSE v.ttl) = LowestTTL(R)
  BY <1>2, <1>4, <1>5
<1>7. (v.drift \/ (~Empty(v) /\ ttl # v.ttl) \/ q.attr.ttl # ttl) <=> \E r \in R : r.attr.ttl # LowestTTL(R)
  <2>1. v.drift <=> \E r \in S : r.attr.ttl # low
    BY DEF View
  <2>2. CASE S = {}
    BY <1>2, <1>4, <2>1, <2>2
  <2>3. CASE S # {}
    <3>1. PICK s \in S : low = EffectiveTTL(RawTTL(s))
      BY <2>3, LowestIs
    <3>2. low \in Nat /\ low >= Floor /\ ttl >= Floor
      BY <3>1, TTLNat DEF Groupable
    <3>3. CASE ttl = low
      BY <1>2, <1>4, <1>5, <2>1, <2>3, <3>3
    <3>4. CASE ttl < low
      <4>1. s.attr.ttl # ttl
        BY <1>3, <3>1, <3>2, <3>4, TTLNat DEF Groupable
      <4> QED
        BY <1>2, <1>3, <1>4, <1>5, <2>3, <3>2, <3>4, <4>1
    <3>5. CASE ttl > low
      <4>1. q.attr.ttl # low
        BY <1>3, <3>2, <3>5
      <4>2. LowestTTL(R) = low /\ q \in R
        BY <1>3, <1>4, <2>3, <3>2, <3>5
      <4>3. ~Empty(v) /\ ttl # v.ttl
        BY <1>2, <1>3, <1>5, <2>3, <3>2, <3>5
      <4>4. \E r \in R : r.attr.ttl # LowestTTL(R)
        BY <4>1, <4>2
      <4> QED
        BY <4>3, <4>4, Zenon
    <3>6. ttl = low \/ ttl < low \/ ttl > low
      BY <1>3, <3>2
    <3> HIDE DEF v, ttl, low, R
    <3> QED
      BY <3>3, <3>4, <3>5, <3>6, Zenon
  <2> QED
    BY <2>2, <2>3
<1>8. (v.alias \/ q.attr.type = AliasType) <=> \E r \in R : r.attr.type = AliasType
  BY DEF View
<1>9. [v.targets EXCEPT ![q.content] = @ + 1] = [c \in Targets |-> Cardinality({r \in R : r.content = c})]
  <2>1. v.targets = [c \in Targets |-> Cardinality({r \in S : r.content = c})]
    BY DEF View
  <2>2. ASSUME NEW c \in Targets
        PROVE  Cardinality({r \in R : r.content = c}) =
                  IF c = q.content THEN Cardinality({r \in S : r.content = c}) + 1
                                   ELSE Cardinality({r \in S : r.content = c})
    <3> DEFINE X == {r \in S : r.content = c}
    <3>1. X \in SUBSET S /\ q \notin X
      OBVIOUS
    <3>2. {r \in R : r.content = c} = IF c = q.content THEN X \cup {q} ELSE X
      OBVIOUS
    <3> HIDE DEF X
    <3>3. IsFiniteSet(X)
      BY <3>1, FS_Subset DEF Groupable
    <3>4. Cardinality(X \cup {q}) = Cardinality(X) + 1
      BY <3>1, <3>3, FS_AddElement
    <3> QED
      BY <3>2, <3>4 DEF X
  <2> QED
    BY <2>1, <2>2
<1>10. View(R) = [ttl |-> LowestTTL(R), drift |-> \E r \in R : r.attr.ttl # LowestTTL(R),
                  alias |-> \E r \in R : r.attr.type = AliasType,
                  targets |-> [c \in Targets |-> Cardinality({r \in R : r.content = c})]]
  BY DEF View
<1>11. AddRecord(v, q) = [ttl |-> IF Empty(v) \/ ttl < v.ttl THEN ttl ELSE v.ttl,
                          drift |-> v.drift \/ (~Empty(v) /\ ttl # v.ttl) \/ q.attr.ttl # ttl,
                          alias |-> v.alias \/ q.attr.type = AliasType,
                          targets |-> [v.targets EXCEPT ![q.content] = @ + 1]]
  BY DEF AddRecord
<1> HIDE DEF v, ttl, low, R
<1> QED
  BY <1>6, <1>7, <1>8, <1>9, <1>10, <1>11 DEF R, v

\* The loop over all records of a set, in any order, ends with the view of the
\* set. The fold is a choice among the functions that satisfy its equation:
\* the view of the records retrieved so far satisfies it, and is the only one.
LEMMA GroupedIs ==
    ASSUME NEW S, Groupable(S), NEW order \in SetToSeqs(S)
    PROVE  Grouped(order) = View(S)
<1> DEFINE n        == Cardinality(S)
           D        == 1 .. n
           At(s)    == {order[i] : i \in s}
           Top(s)   == Max(s)
           Eqn(f)   == f = [s \in SUBSET D |-> IF s = {} THEN NoEndpoint
                                               ELSE AddRecord(f[s \ {Top(s)}], order[Top(s)])]
           iter     == CHOOSE f : Eqn(f)
           views    == [s \in SUBSET D |-> View(At(s))]
<1>1. n \in Nat
  BY FS_CardinalityType DEF Groupable
<1>2. order \in [D -> S] /\ \A i, j \in D : i # j => order[i] # order[j]
  BY DEF SetToSeqs
<1>3. Grouped(order) = iter[D]
  BY <1>2 DEF Grouped, FoldLeft, MapThenFoldSet
<1>4. IsFiniteSet(D) /\ Cardinality(D) = n
  <2>1. IsFiniteSet(1 .. n) /\ Cardinality(1 .. n) = IF 1 > n THEN 0 ELSE n - 1 + 1
    BY <1>1, FS_Interval
  <2> QED
    BY <1>1, <2>1
<1>5. At(D) = S
  <2> HIDE DEF n, D
  <2>1. order \in Injection(D, S)
    BY <1>2 DEF Injection, IsInjective
  <2>2. order \in Surjection(D, S)
    BY <1>4, <2>1, FS_Injection DEF n, Groupable
  <2> QED
    BY <1>2, <2>2 DEF Surjection
<1>6. ASSUME NEW s \in SUBSET D
      PROVE  Groupable(At(s))
  <2>1. At(s) \in SUBSET S
    BY <1>2
  <2> HIDE DEF At
  <2>2. IsFiniteSet(At(s))
    BY <2>1, FS_Subset DEF Groupable
  <2> QED
    BY <2>1, <2>2 DEF Groupable
<1>7. ASSUME NEW s \in SUBSET D, NEW t \in s
      PROVE  AddRecord(View(At(s \ {t})), order[t]) = View(At(s))
  <2>1. Groupable(At(s \ {t}))
    BY <1>6
  <2>2. order[t] \in Records /\ order[t] \notin At(s \ {t}) /\ order[t].content \in Targets
    BY <1>2 DEF Groupable
  <2>3. At(s \ {t}) \cup {order[t]} = At(s)
    OBVIOUS
  <2> HIDE DEF At
  <2> QED
    BY <2>1, <2>2, <2>3, ViewAdds
<1>8. ASSUME NEW s \in SUBSET D, s # {}
      PROVE  Top(s) \in s
  <2>1. PICK m \in {n - x : x \in s} : \A y \in {n - x : x \in s} : m <= y
    <3> DEFINE T == {n - x : x \in s}
    <3>1. \A x \in s : n - x \in Nat
      BY <1>1
    <3>2. T \in SUBSET Nat /\ T # {}
      BY <1>8, <3>1
    <3> HIDE DEF T
    <3>3. \E m \in T : \A y \in T : m <= y
      BY <3>2, LeastOfNats
    <3> QED
      BY <3>3 DEF T
  <2>2. PICK x \in s : m = n - x
    BY <2>1
  <2>3. ASSUME NEW y \in s PROVE x >= y
    <3>1. x \in Nat /\ y \in Nat /\ n - x <= n - y
      BY <1>1, <2>1, <2>2
    <3> QED
      BY <1>1, <3>1
  <2> QED
    BY <2>3 DEF Max
<1>9. Eqn(views)
  <2>1. At({}) = {}
    OBVIOUS
  <2>2. ASSUME NEW s \in SUBSET D
        PROVE  views[s] = IF s = {} THEN NoEndpoint ELSE AddRecord(views[s \ {Top(s)}], order[Top(s)])
    <3>1. views[s] = View(At(s)) /\ views[s \ {Top(s)}] = View(At(s \ {Top(s)}))
      OBVIOUS
    <3> HIDE DEF views, At, Top, D
    <3> QED
      BY <1>7, <1>8, <2>1, <3>1, ViewOfNone
  <2> QED
    BY <2>2
<1>10. Eqn(iter)
  <2> HIDE DEF Eqn, views
  <2> QED
    BY <1>9
<1>11. ASSUME NEW s \in SUBSET D
       PROVE  iter[s] = IF s = {} THEN NoEndpoint ELSE AddRecord(iter[s \ {Top(s)}], order[Top(s)])
  <2> HIDE DEF iter, D, Top
  <2> QED
    BY <1>10, <1>11
<1> HIDE DEF iter, Top
\* The fold takes the records from the last to the first, so only initial
\* segments occur.
<1>12. ASSUME NEW k \in 1 .. n
       PROVE  Top(1 .. k) = k /\ 1 .. k \in SUBSET D /\ (1 .. k) \ {k} = 1 .. k - 1
  <2>1. k \in 1 .. k /\ \A y \in 1 .. k : k >= y
    BY <1>1
  <2>2. Top(1 .. k) = k
    BY <1>1, <2>1 DEF Top, Max
  <2> QED
    BY <1>1, <2>2
<1>13. \A k \in 0 .. n : iter[1 .. k] = View(At(1 .. k))
  <2> DEFINE bad == {k \in 0 .. n : iter[1 .. k] # View(At(1 .. k))}
  <2> SUFFICES ASSUME bad # {} PROVE FALSE
    OBVIOUS
  <2>1. PICK k \in bad : \A j \in bad : k <= j
    <3>1. bad \in SUBSET Nat
      BY <1>1
    <3> HIDE DEF bad
    <3> QED
      BY <3>1, LeastOfNats
  <2>2. k \in 0 .. n /\ iter[1 .. k] # View(At(1 .. k))
    BY <2>1
  <2>3. CASE k = 0
    <3>1. 1 .. k = {} /\ {} \in SUBSET D /\ At({}) = {}
      BY <2>3
    <3> QED
      BY <1>11, <2>2, <3>1, ViewOfNone
  <2>4. CASE k \in 1 .. n
    <3>1. k - 1 \in 0 .. n /\ k - 1 \notin bad
      BY <1>1, <2>1, <2>4
    <3>2. iter[1 .. k - 1] = View(At(1 .. k - 1))
      BY <3>1
    <3>3. k \in 1 .. k /\ 1 .. k # {}
      BY <1>1, <2>4
    <3>4. Top(1 .. k) = k /\ 1 .. k \in SUBSET D /\ (1 .. k) \ {k} = 1 .. k - 1
      BY <1>12, <2>4
    <3> HIDE DEF bad, At, D, n
    <3>5. iter[1 .. k] = AddRecord(iter[1 .. k - 1], order[k])
      BY <1>11, <3>3, <3>4
    <3>6. AddRecord(View(At(1 .. k - 1)), order[k]) = View(At(1 .. k))
      BY <1>7, <3>3, <3>4
    <3> QED
      BY <2>2, <3>2, <3>5, <3>6
  <2> QED
    BY <1>1, <2>2, <2>3, <2>4
<1> QED
  BY <1>1, <1>3, <1>5, <1>13

\* However many records an identity has and in whatever order Porkbun lists
\* them: Records shows the same endpoint (the grouping loop of Records).
THEOREM OrderFree == ViewSpec => []ViewOrderFree
<1>1. ViewInv => ViewOrderFree
  <2> SUFFICES ASSUME ViewInv, NEW order \in SetToSeqs(recs) PROVE Grouped(order) = View(recs)
    BY DEF ViewOrderFree
  <2>1. Groupable(recs)
    BY DEF ViewInv, RecsOK, Groupable
  <2> QED
    BY <2>1, GroupedIs
<1> QED
  BY <1>1, ViewStart, ViewStep, PTL DEF ViewSpec
--------------------------------------------------------------------------------
(* Validation. *)

\* A record is created or edited with the attributes of its task.
LEMMA PutsTaskAttr ==
    ASSUME NEW task, NEW idx \in SUBSET Records, NEW i, NEW call \in Calls(task, idx, i), NEW q \in call.put
    PROVE  q.attr = task.attr
<1> DEFINE drops == Match(idx, task.kind, task.of, task.drop)
           moves == Match(idx, task.kind, task.of, task.move)
<1>1. ASSUME NEW r \in Records, NEW c, call = EditCall(r, task, c) PROVE q.attr = task.attr
  <2>1. q = [r EXCEPT !.content = c, !.attr = task.attr]
    BY <1>1 DEF EditCall
  <2> QED
    BY <2>1 DEF Records
<1>2. ASSUME NEW r, call = DeleteCall(r) PROVE FALSE
  BY <1>2 DEF DeleteCall
<1>3. CASE drops # {}
  BY <1>2, <1>3 DEF Calls
<1>4. CASE drops = {} /\ moves # {}
  <2>1. PICK r \in Earliest(moves), c \in task.keep : call = EditCall(r, task, c)
    BY <1>4 DEF Calls
  <2>2. r \in Records
    BY <2>1 DEF Earliest, Match
  <2> QED
    BY <1>1, <2>1, <2>2
<1>5. CASE drops = {} /\ moves = {}
  <2>1. PICK c \in Open(task, idx) : call \in ConvergeTarget(task, idx, c, i)
    BY <1>5 DEF Calls
  <2> DEFINE dups   == Match(idx, task.kind, task.of, {c})
             keeper == PreferredRecord(dups, task.attr)
             stale  == {r \in keeper : r.attr # task.attr}
  <2>2. \/ call = CreateCall(task, c, i)
        \/ \E r \in stale : call = EditCall(r, task, c)
        \/ \E r \in Earliest(dups \ keeper) : call = DeleteCall(r)
    BY <2>1 DEF ConvergeTarget
  <2>3. stale \subseteq Records
    BY DEF PreferredRecord, Match
  <2>4. CASE call = CreateCall(task, c, i)
    <3>1. q = [id |-> i, kind |-> task.kind, of |-> task.of, content |-> c, attr |-> task.attr]
      BY <2>4 DEF CreateCall
    <3> QED
      BY <3>1
  <2> QED
    BY <1>1, <1>2, <2>2, <2>3, <2>4
<1> QED
  BY <1>3, <1>4, <1>5

\* Only a CNAME has records of the raw type ALIAS, or gets any.
AliasInv ==
    /\ \A r \in recs : r.attr.type = AliasType => rrset.cname
    /\ \A task \in todo : task.attr.type = AliasType => rrset.cname

LEMMA AliasStep == ViewInv /\ AliasInv /\ [ViewNext]_viewVars => AliasInv'
<1> SUFFICES ASSUME ViewInv, AliasInv, [ViewNext]_viewVars PROVE AliasInv'
  OBVIOUS
<1> USE DEF AliasInv
<1>1. ASSUME NEW task \in todo, NEW i \in FreeIds, NEW call \in Calls(task, recs, i)
      PROVE  \A r \in Effect(recs, call) : r.attr.type = AliasType => rrset.cname
  <2>1. recs \in SUBSET Records
    BY DEF ViewInv, RecsOK
  <2>2. \A r \in call.put : r.attr = task.attr
    BY <1>1, <2>1, PutsTaskAttr
  <2> QED
    BY <2>2 DEF Effect
<1>2. CASE Ask
  <2> DEFINE d == Adjusted(wanted)
  <2>1. todo' = {UpdateTask(recs, d)} /\ UNCHANGED <<rrset, recs>>
    BY <1>2 DEF Ask
  <2>2. UpdateTask(recs, d).attr.type = AliasType => d.alias \/ (rrset.cname /\ rrset.apex)
    BY ViewAssumption DEF UpdateTask, Input
  <2>3. d.alias => rrset.cname
    BY DEF Adjusted, ViewInv, WantedOK, AdjustAccepts, PropsAccepted, WithApex, PropsKept, Shape, AliasProps
  <2> HIDE DEF d
  <2> QED
    BY <2>1, <2>2, <2>3
<1>3. CASE Write
  BY <1>1, <1>3 DEF Write
<1>4. CASE WriteFails
  BY <1>1, <1>4 DEF WriteFails
<1>5. CASE Finish \/ UNCHANGED viewVars
  BY <1>5 DEF Finish, viewVars
<1> QED
  BY <1>2, <1>3, <1>4, <1>5 DEF ViewNext

\* Neither the endpoint Records shows, nor the adjusted one, nor a marker
\* ExternalDNS copies from either is ever rejected, whatever the properties,
\* the TTLs and the raw types of the records are and whatever calls have failed
\* (normalizeProviderSpecific, validateEndpoint).
THEOREM BatchNotRejected == ViewSpec => []NeverRejected
<1>1. ViewInit => AliasInv
  BY DEF ViewInit, AliasInv
<1>2. ViewInv /\ AliasInv => NeverRejected
  <2> SUFFICES ASSUME ViewInv, AliasInv PROVE NeverRejected
    OBVIOUS
  <2>1. "alias" \in CurrentProps => rrset.cname
    BY DEF CurrentProps, View, AliasInv
  <2>2. CurrentProps \subseteq {"alias", "ttl-drift"} /\ DesiredProps \subseteq {"alias"}
    BY DEF CurrentProps, DesiredProps
  <2>3. "alias" \in DesiredProps => rrset.cname
    BY DEF DesiredProps, Adjusted, ViewInv, WantedOK, AdjustAccepts, PropsAccepted, WithApex, PropsKept, Shape,
           AliasProps
  <2>4. TargetsAccepted(Shape(DesiredProps), Adjusted(wanted).targets)
    BY DEF Adjusted, ViewInv, WantedOK, AdjustAccepts, TargetsAccepted, Shape
  <2> HIDE DEF CurrentProps, DesiredProps
  <2>5. ASSUME NEW extra \in SUBSET {"force-update"}, NEW e \in {Shape(CurrentProps \cup extra), MarkerShape(CurrentProps \cup extra)}
        PROVE  PropsAccepted(e, FALSE)
    BY <2>1, <2>2 DEF PropsAccepted, Shape, MarkerShape, AliasProps
  <2>6. ASSUME NEW e \in {Shape(DesiredProps), MarkerShape(DesiredProps)}
        PROVE  PropsAccepted(e, TRUE)
    BY <2>2, <2>3 DEF PropsAccepted, Shape, MarkerShape, AliasProps
  <2>7. PropsKept(Shape(DesiredProps)) = DesiredProps /\ PropsKept(MarkerShape(DesiredProps)) = {}
    BY <2>2 DEF PropsKept, Shape, MarkerShape
  <2> QED
    BY <2>4, <2>5, <2>6, <2>7 DEF NeverRejected
<1> QED
  BY <1>1, <1>2, ViewStart, ViewStep, AliasStep, PTL DEF ViewSpec
--------------------------------------------------------------------------------
(* Names. *)

AnyLabel == Labels \cup {PrefixLabel, WildcardLabel}

LEMMA NameIsSeq ==
    ASSUME NEW n \in Name
    PROVE  n \in Seq(AnyLabel) /\ n # <<>> /\ Len(n) \in Nat \ {0} /\ DOMAIN n = 1 .. Len(n)
<1>1. PICK m \in 0 .. MaxLabels : n \in [1 .. m -> Labels]
  BY DEF Name, BoundedSeq, SeqOf
<1>2. n \in Seq(Labels)
  BY <1>1, ScopeAssumption, SeqDef
<1>3. n \in Seq(AnyLabel)
  BY <1>2, SeqMonotonic DEF AnyLabel
<1>4. n # <<>>
  BY DEF Name
<1> QED
  BY <1>3, <1>4, EmptySeq, LenProperties

\* A prefix, label by label.
LEMMA PrefixIs ==
    ASSUME NEW s \in Seq(AnyLabel), NEW t \in Seq(AnyLabel)
    PROVE  /\ IsPrefix(s, t) <=> Len(s) <= Len(t) /\ \A i \in 1 .. Len(s) : s[i] = t[i]
           /\ IsStrictPrefix(s, t) <=> Len(s) < Len(t) /\ \A i \in 1 .. Len(s) : s[i] = t[i]
           /\ IsStrictPrefix(s, t) <=> Len(t) > Len(s) /\ SubSeq(t, 1, Len(s)) = s
<1>1. Len(s) \in Nat /\ Len(t) \in Nat
  BY LenProperties
<1>2. SubSeq(s, 1, Len(s)) = s
  BY SubSeqFull
<1>3. ASSUME Len(s) <= Len(t)
      PROVE  SubSeq(t, 1, Len(s)) = s <=> \A i \in 1 .. Len(s) : s[i] = t[i]
  <2> DEFINE u == SubSeq(t, 1, Len(s))
  <2>1. \A i \in 1 .. Len(s) : t[i] \in AnyLabel
    BY <1>1, <1>3, ElementOfSeq
  <2>2. /\ u \in Seq(AnyLabel) /\ Len(u) = Len(s)
        /\ \A i \in 1 .. Len(s) - 1 + 1 : u[i] = t[1 + i - 1]
    <3>1. /\ u \in Seq(AnyLabel)
          /\ Len(u) = IF 1 <= Len(s) THEN Len(s) - 1 + 1 ELSE 0
          /\ \A i \in 1 .. Len(s) - 1 + 1 : u[i] = t[1 + i - 1]
      BY <1>1, <2>1, SubSeqProperties
    <3> QED
      BY <1>1, <3>1
  <2>3. \A i \in 1 .. Len(s) : u[i] = t[i]
    BY <1>1, <2>2
  <2> HIDE DEF u
  <2>4. ASSUME \A i \in 1 .. Len(s) : s[i] = t[i] PROVE u = s
    BY <2>2, <2>3, <2>4, SeqEqual
  <2> QED
    BY <2>3, <2>4 DEF u
<1>4. IsPrefix(s, t) <=> Len(s) <= Len(t) /\ \A i \in 1 .. Len(s) : s[i] = t[i]
  BY <1>2, <1>3 DEF IsPrefix
<1>5. ASSUME Len(s) = Len(t), \A i \in 1 .. Len(s) : s[i] = t[i] PROVE s = t
  BY <1>5, SeqEqual
<1>6. IsStrictPrefix(s, t) <=> Len(s) < Len(t) /\ \A i \in 1 .. Len(s) : s[i] = t[i]
  BY <1>1, <1>4, <1>5 DEF IsStrictPrefix
<1> QED
  BY <1>1, <1>3, <1>4, <1>6

\* The filters are names of the zone without wildcards, however configured.
ScopeInv ==
    /\ \A f \in include :
          f.base \in Name /\ f.children \in BOOLEAN /\ ValidName(f.base, FALSE) /\ WithinZone(f.base)
    /\ name \in Name \cup {<<>>}

LEMMA ScopeAlways == ScopeSpec => []ScopeInv
<1>1. ScopeInit => ScopeInv
  <2> SUFFICES ASSUME ScopeInit PROVE ScopeInv
    OBVIOUS
  <2>1. PICK filters \in SUBSET Filters : ConfigAccepted(filters) /\ include = Included(filters)
    BY DEF ScopeInit
  <2>2. \A f \in filters : f.base \in Name /\ f.children \in BOOLEAN /\ ValidName(f.base, FALSE) /\ WithinZone(f.base)
    BY <2>1, ScopeAssumption DEF Filters, ConfigAccepted
  <2> DEFINE whole == [base |-> Zone, children |-> FALSE]
  <2>3. WithinZone(Zone)
    BY ScopeAssumption, NameIsSeq, PrefixIs DEF WithinZone
  <2>4. whole.base = Zone /\ whole.children = FALSE
    OBVIOUS
  <2>5. include = IF filters = {} THEN {whole} ELSE filters
    BY <2>1 DEF Included
  <2> HIDE DEF whole
  <2>6. \A f \in include : f.base \in Name /\ f.children \in BOOLEAN /\ ValidName(f.base, FALSE) /\ WithinZone(f.base)
    <3>1. CASE filters = {}
      BY <2>3, <2>4, <2>5, <3>1, ScopeAssumption
    <3>2. CASE filters # {}
      BY <2>2, <2>5, <3>2
    <3> QED
      BY <3>1, <3>2
  <2> QED
    BY <2>6 DEF ScopeInv, ScopeInit
<1>2. ScopeInv /\ [ScopeNext]_scopeVars => ScopeInv'
  BY DEF ScopeInv, ScopeNext, Handle, scopeVars
<1> QED
  BY <1>1, <1>2, PTL DEF ScopeSpec

\* However many filters there are and however long the names: ExternalDNS plans
\* exactly the names validateEndpoint lets through and Records shows
\* (GetDomainFilter, matchesExplicitFilters).
THEOREM PlansAccepted == ScopeSpec => []PlannedAccepted
<1>1. ScopeInv => PlannedAccepted
  <2> SUFFICES ASSUME ScopeInv, ValidName(name, TRUE)
               PROVE  (Planned(name) <=> Accepted(name)) /\ (Shown(name) <=> Accepted(name))
    BY DEF PlannedAccepted
  <2>1. name \in Seq(AnyLabel) /\ Len(name) \in Nat
    BY NameIsSeq DEF ScopeInv, ValidName
  <2>2. ASSUME NEW f \in include
        PROVE  /\ f.base \in Seq(AnyLabel) /\ Len(f.base) \in Nat
               /\ IsPrefix(Zone, f.base)
               /\ Matches(f, name) <=>
                     \/ f.children /\ Len(name) > Len(f.base) /\ SubSeq(name, 1, Len(f.base)) = f.base
                     \/ ~f.children /\ (name = f.base \/ (Len(name) > Len(f.base) /\ SubSeq(name, 1, Len(f.base)) = f.base))
    <3>1. f.base \in Name /\ f.children \in BOOLEAN /\ IsPrefix(Zone, f.base)
      BY DEF ScopeInv, WithinZone
    <3>2. f.base \in Seq(AnyLabel) /\ Len(f.base) \in Nat
      BY <3>1, NameIsSeq
    <3>3. IsStrictPrefix(f.base, name) <=> Len(name) > Len(f.base) /\ SubSeq(name, 1, Len(f.base)) = f.base
      BY <2>1, <3>2, PrefixIs
    <3>4. IsPrefix(f.base, name) <=> IsStrictPrefix(f.base, name) \/ name = f.base
      <4>1. IsPrefix(f.base, f.base)
        BY <3>2, PrefixIs
      <4> QED
        BY <4>1 DEF IsStrictPrefix
    <3> QED
      BY <3>1, <3>2, <3>3, <3>4 DEF Matches
  <2>3. Planned(name) <=> InFilter(name)
    BY <2>2 DEF Planned, InFilter
  <2>4. InFilter(name) => WithinZone(name)
    <3> SUFFICES ASSUME NEW f \in include, Matches(f, name) PROVE IsPrefix(Zone, name)
      BY DEF InFilter, WithinZone
    <3>1. IsPrefix(f.base, name)
      BY DEF Matches, IsStrictPrefix
    <3>2. Zone \in Seq(AnyLabel) /\ Len(Zone) \in Nat
      BY ScopeAssumption, NameIsSeq
    <3>3. /\ Len(Zone) <= Len(f.base) /\ Len(f.base) <= Len(name)
          /\ \A i \in 1 .. Len(Zone) : Zone[i] = f.base[i]
          /\ \A i \in 1 .. Len(f.base) : f.base[i] = name[i]
      BY <2>1, <2>2, <3>1, <3>2, PrefixIs
    <3>4. Len(Zone) <= Len(name) /\ \A i \in 1 .. Len(Zone) : Zone[i] = name[i]
      BY <2>1, <2>2, <3>2, <3>3
    <3> QED
      BY <2>1, <3>2, <3>4, PrefixIs
  <2> QED
    BY <2>3, <2>4 DEF Accepted, Shown, NameInScope
<1> QED
  BY <1>1, ScopeAlways, PTL

\* The marker of a name: one label longer, and without wildcards.
LEMMA MarkerLabels ==
    ASSUME NEW n \in Name
    PROVE  LET m == MarkerName(n)
           IN  /\ m \in Seq(AnyLabel) /\ Len(m) = Len(n) + 1
               /\ \A i \in 1 .. Len(n) : m[i] = IF n[i] = Star THEN WildcardLabel ELSE n[i]
               /\ m[Len(n) + 1] = PrefixLabel
               /\ \A i \in 1 .. Len(m) : m[i] # Star
<1> DEFINE k == Len(n)
           e(i) == IF n[i] = Star THEN WildcardLabel ELSE n[i]
           g == [i \in 1 .. k |-> e(i)]
           m == MarkerName(n)
<1>1. n \in Seq(AnyLabel) /\ k \in Nat /\ DOMAIN n = 1 .. k
  BY NameIsSeq
<1>2. \A i \in 1 .. k : e(i) \in AnyLabel /\ e(i) # Star
  <2> TAKE i \in 1 .. k
  <2>1. n[i] \in AnyLabel
    BY <1>1, ElementOfSeq
  <2> QED
    BY <2>1, ScopeAssumption DEF AnyLabel
<1>3. g \in Seq(AnyLabel)
  <2> HIDE DEF e
  <2> QED
    BY <1>1, <1>2, IsASeq
<1>4. Len(g) = k /\ \A i \in 1 .. k : g[i] = e(i)
  BY <1>1
<1>5. m = Append(g, PrefixLabel) /\ PrefixLabel \in AnyLabel /\ PrefixLabel # Star
  BY <1>1, ScopeAssumption DEF MarkerName, AnyLabel
<1> HIDE DEF g, m, e, k
<1>6. /\ m \in Seq(AnyLabel) /\ Len(m) = k + 1
      /\ \A i \in 1 .. k : m[i] = g[i]
      /\ m[k + 1] = PrefixLabel
  BY <1>3, <1>4, <1>5, AppendProperties
<1>7. \A i \in 1 .. k : m[i] = e(i)
  BY <1>4, <1>6
<1>8. \A i \in 1 .. Len(m) : m[i] # Star
  BY <1>1, <1>2, <1>5, <1>6, <1>7
<1> QED
  BY <1>6, <1>7, <1>8 DEF m, e, k

\* Porkbun gives back the name it was sent.
LEMMA StoredBack ==
    ASSUME NEW n \in Seq(AnyLabel), IsPrefix(Zone, n)
    PROVE  Stored(n) = n
<1>1. Zone \in Seq(AnyLabel) /\ Len(Zone) \in Nat /\ Len(n) \in Nat
  BY ScopeAssumption, NameIsSeq, LenProperties
<1>2. Len(Zone) <= Len(n) /\ SubSeq(n, 1, Len(Zone)) = Zone
  BY <1>1, SubSeqFull DEF IsPrefix
<1>3. SubSeq(n, 1, Len(Zone)) \o SubSeq(n, Len(Zone) + 1, Len(n)) = SubSeq(n, 1, Len(n))
  <2> DEFINE z == Len(Zone)
             l == Len(n)
  <2>1. 1 \in 1 .. l + 1 /\ z \in 1 - 1 .. l /\ l \in z .. l
    BY <1>1, <1>2
  <2> HIDE DEF z
  <2>2. SubSeq(n, 1, z) \o SubSeq(n, z + 1, l) = SubSeq(n, 1, l)
    BY <2>1, ConcatAdjacentSubSeq
  <2> QED
    BY <2>2 DEF z
<1>4. SubSeq(n, 1, Len(n)) = n
  BY SubSeqFull
<1> QED
  BY <1>2, <1>3, <1>4 DEF Stored, SubdomainOf, WithinZone

\* What a name without wildcards is a prefix of, it is a prefix of the marker of.
LEMMA MarkerBelow ==
    ASSUME NEW n \in Name, NEW b \in Name, ValidName(b, FALSE)
    PROVE  IsPrefix(b, n) => IsPrefix(b, MarkerName(n)) /\ IsStrictPrefix(b, MarkerName(n))
<1> DEFINE m == MarkerName(n)
<1>1. /\ n \in Seq(AnyLabel) /\ Len(n) \in Nat
      /\ b \in Seq(AnyLabel) /\ Len(b) \in Nat /\ DOMAIN b = 1 .. Len(b)
  BY NameIsSeq
<1>2. /\ m \in Seq(AnyLabel) /\ Len(m) = Len(n) + 1
      /\ \A i \in 1 .. Len(n) : m[i] = IF n[i] = Star THEN WildcardLabel ELSE n[i]
  BY MarkerLabels
<1> HIDE DEF m
<1>3. \A i \in 1 .. Len(b) : b[i] # Star
  <2>1. \A i \in DOMAIN b : b[i] = Star => FALSE
    BY Zenon DEF ValidName
  <2> QED
    BY <1>1, <2>1
<1>4. ASSUME IsPrefix(b, n)
      PROVE  Len(b) < Len(m) /\ \A i \in 1 .. Len(b) : b[i] = m[i]
  <2>1. Len(b) <= Len(n) /\ \A i \in 1 .. Len(b) : b[i] = n[i]
    BY <1>1, <1>4, PrefixIs
  <2> QED
    BY <1>1, <1>2, <1>3, <2>1
<1>5. ASSUME IsPrefix(b, n)
      PROVE  IsPrefix(b, m) /\ IsStrictPrefix(b, m)
  BY <1>1, <1>2, <1>4, <1>5, PrefixIs
<1> QED
  BY <1>5 DEF m

\* The bytes of the first labels of a name.
UpTo(s, j) == UNION {{i} \X (1 .. Size[s[i]]) : i \in 1 .. j}

Fits(s, j) == \A i \in 1 .. j : Size[s[i]] \in Nat /\ Size[s[i]] <= MaxLabel

LEMMA UpToIs ==
    ASSUME NEW s, NEW j \in Nat
    PROVE  \A e : e \in UpTo(s, j) <=> \E i \in 1 .. j : e \in {i} \X (1 .. Size[s[i]])
BY DEF UpTo

LEMMA UpToFinite ==
    ASSUME NEW s, NEW j \in Nat, Fits(s, j)
    PROVE  IsFiniteSet(UpTo(s, j)) /\ Cardinality(UpTo(s, j)) \in Nat
<1> DEFINE all == (1 .. j) \X (1 .. MaxLabel)
<1>1. IsFiniteSet(1 .. j) /\ IsFiniteSet(1 .. MaxLabel)
  BY ScopeAssumption, FS_Interval
<1>2. IsFiniteSet(all)
  BY <1>1, FS_Product
<1>3. \A i \in 1 .. j : {i} \X (1 .. Size[s[i]]) \subseteq all
  BY ScopeAssumption DEF Fits
<1> HIDE DEF all
<1>4. UpTo(s, j) \in SUBSET all
  BY <1>3 DEF UpTo
<1>5. IsFiniteSet(UpTo(s, j))
  BY <1>2, <1>4, FS_Subset
<1> QED
  BY <1>5, FS_CardinalityType

\* One label more.
LEMMA UpToNext ==
    ASSUME NEW s, NEW j \in Nat, Fits(s, j + 1)
    PROVE  Cardinality(UpTo(s, j + 1)) = Cardinality(UpTo(s, j)) + Size[s[j + 1]]
<1> DEFINE u == UpTo(s, j)
           l == {j + 1} \X (1 .. Size[s[j + 1]])
<1>1. Fits(s, j) /\ Size[s[j + 1]] \in Nat
  BY DEF Fits
<1>2. IsFiniteSet(u) /\ Cardinality(u) \in Nat
  BY <1>1, UpToFinite
<1>3. IsFiniteSet(l) /\ Cardinality(l) = Size[s[j + 1]]
  <2>1. IsFiniteSet({j + 1}) /\ Cardinality({j + 1}) = 1
    BY FS_Singleton
  <2>2. IsFiniteSet(1 .. Size[s[j + 1]]) /\ Cardinality(1 .. Size[s[j + 1]]) = Size[s[j + 1]]
    <3>1. \A k \in Nat : IsFiniteSet(1 .. k) /\ Cardinality(1 .. k) = IF 1 > k THEN 0 ELSE k - 1 + 1
      BY FS_Interval
    <3>2. \A k \in Nat : IsFiniteSet(1 .. k) /\ Cardinality(1 .. k) = k
      BY <3>1
    <3> QED
      BY <1>1, <3>2
  <2>3. IsFiniteSet(l) /\ Cardinality(l) = Cardinality({j + 1}) * Cardinality(1 .. Size[s[j + 1]])
    BY <2>1, <2>2, FS_Product
  <2> HIDE DEF l
  <2> QED
    BY <1>1, <2>1, <2>2, <2>3
<1>4. UpTo(s, j + 1) = u \cup l
  <2>1. 1 .. j + 1 = (1 .. j) \cup {j + 1} /\ j + 1 \in Nat
    OBVIOUS
  <2>2. \A e : e \in UpTo(s, j + 1) <=> e \in u \/ e \in l
    <3> TAKE e
    <3>1. e \in UpTo(s, j + 1) <=> \E i \in 1 .. j + 1 : e \in {i} \X (1 .. Size[s[i]])
      BY <2>1, UpToIs
    <3>2. e \in u <=> \E i \in 1 .. j : e \in {i} \X (1 .. Size[s[i]])
      BY UpToIs
    <3> QED
      BY <2>1, <3>1, <3>2
  <2> HIDE DEF u, l
  <2> QED
    BY <2>2
<1>5. u \cap l = {}
  <2>1. \A e \in u : e[1] \in 1 .. j
    BY UpToIs
  <2>2. \A e \in l : e[1] = j + 1
    OBVIOUS
  <2>3. j + 1 \notin 1 .. j
    OBVIOUS
  <2> HIDE DEF u, l
  <2> QED
    BY <2>1, <2>2, <2>3
<1> DEFINE size == Size[s[j + 1]]
<1>s. size \in Nat /\ Cardinality(l) = size
  BY <1>1, <1>3
<1> HIDE DEF u, l, size
<1>6. Cardinality(u \cup l) = Cardinality(u) + Cardinality(l) - Cardinality(u \cap l)
  BY <1>2, <1>3, FS_Union
<1>7. Cardinality(u \cap l) = 0
  BY <1>5, FS_EmptySet
<1>8. Cardinality(UpTo(s, j + 1)) = Cardinality(u) + size
  BY <1>2, <1>s, <1>4, <1>6, <1>7
<1> QED
  BY <1>8 DEF u, size

LEMMA UpToSame ==
    ASSUME NEW s, NEW t, NEW j \in Nat, \A i \in 1 .. j : s[i] = t[i]
    PROVE  UpTo(s, j) = UpTo(t, j)
<1>1. \A e : e \in UpTo(s, j) <=> \E i \in 1 .. j : e \in {i} \X (1 .. Size[s[i]])
  BY UpToIs
<1>2. \A e : e \in UpTo(t, j) <=> \E i \in 1 .. j : e \in {i} \X (1 .. Size[t[i]])
  BY UpToIs
<1>3. \A e : e \in UpTo(s, j) <=> e \in UpTo(t, j)
  BY <1>1, <1>2
<1> QED
  BY <1>3

LEMMA BytesUpTo ==
    ASSUME NEW s \in Seq(AnyLabel)
    PROVE  Bytes(s) = Cardinality(UpTo(s, Len(s))) + Len(s) - 1
<1>1. DOMAIN s = 1 .. Len(s)
  BY LenProperties
<1>2. Letters(s) = UpTo(s, Len(s))
  BY <1>1 DEF Letters, UpTo
<1> QED
  BY <1>2 DEF Bytes

\* The bytes of a marker, counted label by label.
LEMMA MarkerBytes ==
    ASSUME NEW n \in Name, ValidName(n, TRUE)
    PROVE  /\ Bytes(MarkerName(n)) = Bytes(n) + Growth(n)
           /\ \A i \in 1 .. Len(MarkerName(n)) : Size[MarkerName(n)[i]] <= MaxLabel
<1> DEFINE m == MarkerName(n)
           k == Len(n)
<1>1. n \in Seq(AnyLabel) /\ k \in Nat \ {0} /\ DOMAIN n = 1 .. k
  BY NameIsSeq
<1>2. /\ m \in Seq(AnyLabel) /\ Len(m) = k + 1
      /\ \A i \in 1 .. k : m[i] = IF n[i] = Star THEN WildcardLabel ELSE n[i]
      /\ m[k + 1] = PrefixLabel
  BY MarkerLabels
<1>3. \A i \in 1 .. k : Size[n[i]] <= MaxLabel /\ (n[i] = Star => i = k)
  <2>1. \A i \in DOMAIN n : Size[n[i]] <= MaxLabel /\ (n[i] = Star => TRUE /\ i = Len(n))
    BY DEF ValidName
  <2> QED
    BY <1>1, <2>1
<1>4. /\ \A l \in AnyLabel : Size[l] \in Nat
      /\ Size[PrefixLabel] \in Nat /\ Size[PrefixLabel] <= MaxLabel
      /\ Size[WildcardLabel] \in Nat /\ Size[WildcardLabel] <= MaxLabel
      /\ Size[Star] = 1 /\ MaxLabel \in Nat
  BY ScopeAssumption DEF AnyLabel
<1>5. Growth(n) = Size[PrefixLabel] + 1 + (IF n[k] = Star THEN Size[WildcardLabel] - 1 ELSE 0)
  <2>1. k \in 1 .. k
    BY <1>1
  <2>2. (\E i \in DOMAIN n : n[i] = Star) <=> n[k] = Star
    BY <1>1, <1>3, <2>1
  <2> QED
    BY <2>2 DEF Growth
<1> HIDE DEF m, k
<1>6. Fits(n, k)
  <2>1. \A i \in 1 .. k : n[i] \in AnyLabel
    BY <1>1, ElementOfSeq DEF k
  <2> QED
    BY <1>3, <1>4, <2>1 DEF Fits
<1>7. Fits(m, k + 1)
  <2>1. ASSUME NEW i \in 1 .. k + 1 PROVE Size[m[i]] \in Nat /\ Size[m[i]] <= MaxLabel
    <3>1. CASE i = k + 1
      BY <1>2, <1>4, <3>1
    <3>2. CASE i \in 1 .. k
      BY <1>2, <1>4, <1>6, <3>2 DEF Fits
    <3> QED
      BY <1>1, <3>1, <3>2
  <2> QED
    BY <2>1 DEF Fits
<1>8. Fits(m, k) /\ Fits(n, k - 1) /\ k - 1 \in Nat /\ (k - 1) + 1 = k
  BY <1>1, <1>6, <1>7 DEF Fits
<1>9. Cardinality(UpTo(m, k + 1)) = Cardinality(UpTo(m, k)) + Size[PrefixLabel]
  BY <1>1, <1>2, <1>7, UpToNext
<1>10. /\ Cardinality(UpTo(n, k)) = Cardinality(UpTo(n, k - 1)) + Size[n[k]]
       /\ Cardinality(UpTo(m, k)) = Cardinality(UpTo(m, k - 1)) + Size[m[k]]
  <2>1. Fits(n, (k - 1) + 1) /\ Fits(m, (k - 1) + 1)
    BY <1>6, <1>8
  <2>2. /\ Cardinality(UpTo(n, (k - 1) + 1)) = Cardinality(UpTo(n, k - 1)) + Size[n[(k - 1) + 1]]
        /\ Cardinality(UpTo(m, (k - 1) + 1)) = Cardinality(UpTo(m, k - 1)) + Size[m[(k - 1) + 1]]
    BY <1>8, <2>1, UpToNext
  <2> QED
    BY <1>8, <2>2
<1>11. UpTo(m, k - 1) = UpTo(n, k - 1)
  <2>1. \A i \in 1 .. k - 1 : m[i] = n[i]
    <3> TAKE i \in 1 .. k - 1
    <3>1. i \in 1 .. k /\ i # k
      BY <1>1
    <3> QED
      BY <1>2, <1>3, <3>1
  <2> QED
    BY <1>8, <2>1, UpToSame
<1>12. Cardinality(UpTo(n, k - 1)) \in Nat
  BY <1>8, UpToFinite
<1>13. m[k] = IF n[k] = Star THEN WildcardLabel ELSE n[k]
  BY <1>1, <1>2
<1>14. Size[n[k]] \in Nat
  BY <1>1, <1>6 DEF Fits
<1>15. Bytes(n) = Cardinality(UpTo(n, k)) + k - 1 /\ Bytes(m) = Cardinality(UpTo(m, k + 1)) + (k + 1) - 1
  BY <1>1, <1>2, BytesUpTo DEF k
<1> DEFINE before == Cardinality(UpTo(n, k - 1))
           last == Size[n[k]]
           wild == Size[WildcardLabel]
           prefix == Size[PrefixLabel]
<1>16. Bytes(m) = Bytes(n) + Growth(n)
  <2>1. before \in Nat /\ last \in Nat /\ wild \in Nat /\ prefix \in Nat /\ k \in Nat
    BY <1>1, <1>4, <1>12, <1>14
  <2>2. Bytes(n) = before + last + k - 1
    BY <1>10, <1>15
  <2>3. CASE n[k] = Star
    <3>1. Growth(n) = prefix + 1 + (wild - 1) /\ last = 1
      BY <1>4, <1>5, <2>3
    <3>2. Bytes(m) = before + wild + prefix + (k + 1) - 1
      BY <1>9, <1>10, <1>11, <1>13, <1>15, <2>3
    <3> HIDE DEF before, last, wild, prefix
    <3> QED
      BY <2>1, <2>2, <3>1, <3>2
  <2>4. CASE n[k] # Star
    <3>1. Growth(n) = prefix + 1 + 0
      BY <1>5, <2>4
    <3>2. Bytes(m) = before + last + prefix + (k + 1) - 1
      BY <1>9, <1>10, <1>11, <1>13, <1>15, <2>4
    <3> HIDE DEF before, last, wild, prefix
    <3> QED
      BY <2>1, <2>2, <3>1, <3>2
  <2> QED
    BY <2>3, <2>4
<1>17. \A i \in 1 .. Len(m) : Size[m[i]] <= MaxLabel
  BY <1>2, <1>7 DEF Fits
<1> QED
  BY <1>16, <1>17 DEF m

\* However the zone, the filters and the names are chosen: a record the
\* provider takes can bring its marker as long as the marker is not too long
\* for a name, and both come back as they were sent (nameInScope,
\* validateEndpoint, subdomainOf).
THEOREM MarkersTaken == ScopeSpec => []MarkersAccepted
<1>1. ScopeInv => MarkersAccepted
  <2> DEFINE m == MarkerName(name)
  <2> SUFFICES ASSUME ScopeInv, Accepted(name)
               PROVE  /\ Accepted(m) <=> Bytes(name) + Growth(name) <= MaxName
                      /\ Stored(name) = name /\ Stored(m) = m
    BY DEF MarkersAccepted
  <2>1. name \in Name /\ ValidName(name, TRUE) /\ WithinZone(name) /\ InFilter(name)
    BY DEF ScopeInv, Accepted, ValidName
  <2>2. m \in Seq(AnyLabel) /\ Len(m) = Len(name) + 1 /\ \A i \in 1 .. Len(m) : m[i] # Star
    BY <2>1, MarkerLabels
  <2>3. name \in Seq(AnyLabel) /\ Len(name) \in Nat
    BY <2>1, NameIsSeq
  <2>4. ValidName(m, TRUE) <=> Bytes(name) + Growth(name) <= MaxName
    <3>1. Bytes(m) = Bytes(name) + Growth(name) /\ \A i \in 1 .. Len(m) : Size[m[i]] <= MaxLabel
      BY <2>1, MarkerBytes
    <3> HIDE DEF m
    <3>2. m # <<>> /\ DOMAIN m = 1 .. Len(m)
      BY <2>2, <2>3, EmptySeq, LenProperties
    <3>3. \A i \in DOMAIN m : Size[m[i]] <= MaxLabel /\ m[i] # Star
      BY <2>2, <3>1, <3>2
    <3>4. ValidName(m, TRUE) <=> Bytes(m) <= MaxName
      BY Zenon, <3>2, <3>3 DEF ValidName
    <3> QED
      BY <3>1, <3>4
  <2> HIDE DEF m
  <2>5. WithinZone(m)
    BY <2>1, ScopeAssumption, MarkerBelow DEF WithinZone, m
  <2>6. InFilter(m)
    <3>1. PICK f \in include : Matches(f, name)
      BY <2>1 DEF InFilter
    <3>2. f.base \in Name /\ ValidName(f.base, FALSE)
      BY DEF ScopeInv
    <3>3. IsPrefix(f.base, name)
      BY <3>1 DEF Matches, IsStrictPrefix
    <3>4. IsPrefix(f.base, m) /\ IsStrictPrefix(f.base, m)
      BY <2>1, <3>2, <3>3, MarkerBelow DEF m
    <3> QED
      BY <3>4 DEF InFilter, Matches
  <2> QED
    BY <2>1, <2>2, <2>3, <2>4, <2>5, <2>6, StoredBack DEF Accepted, WithinZone
<1> QED
  BY <1>1, ScopeAlways, PTL
================================================================================
