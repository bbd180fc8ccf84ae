----------------------------- MODULE LayoutProofs -----------------------------
(***************************************************************************)
(* The pairing of records and markers, for lists of any length.            *)
(***************************************************************************)
EXTENDS RegistryLayout, SequenceTheorems, FiniteSetTheorems, TLAPS

Endpoints == [ownership : BOOLEAN, rec : Identities]

LEMMA EndpointFacts ==
    ASSUME NEW r
    PROVE  /\ Primary(r).ownership = FALSE /\ Primary(r).rec = r
           /\ Marker(r).ownership = TRUE /\ Marker(r).rec = r
           /\ r \in Identities => Primary(r) \in Endpoints /\ Marker(r) \in Endpoints
BY DEF Primary, Marker, Endpoints

\* A list of the registry: the records, then the markers it writes.
LEMMA ListShape ==
    ASSUME NEW rs \in Seq(Identities), NEW bare \in Seq(Identities)
    PROVE  LET s == RegistryCreates(rs, bare)
           IN  /\ Len(s) = Len(rs) + Len(bare) /\ DOMAIN s = 1 .. Len(rs) + Len(bare)
               /\ \A i \in 1 .. Len(rs) : s[i] = Primary(rs[i])
               /\ \A i \in 1 .. Len(bare) : s[Len(rs) + i] = Marker(bare[i])
<1> DEFINE n == Len(rs)
           m == Len(bare)
           p == Primaries(rs)
           q == Markers(bare)
           s == RegistryCreates(rs, bare)
<1>1. /\ n \in Nat /\ \A i \in 1 .. n : rs[i] \in Identities
      /\ m \in Nat /\ \A i \in 1 .. m : bare[i] \in Identities
  BY LenProperties, ElementOfSeq
<1>2. p \in Seq(Endpoints) /\ Len(p) = n /\ \A i \in 1 .. n : p[i] = Primary(rs[i])
  <2>1. \A i \in 1 .. n : Primary(rs[i]) \in Endpoints
    BY <1>1, EndpointFacts
  <2>2. [i \in 1 .. n |-> Primary(rs[i])] \in Seq(Endpoints)
    BY <1>1, <2>1, IsASeq
  <2> QED
    BY <1>1, <2>2 DEF Primaries
<1>3. q \in Seq(Endpoints) /\ Len(q) = m /\ \A i \in 1 .. m : q[i] = Marker(bare[i])
  <2>1. \A i \in 1 .. m : Marker(bare[i]) \in Endpoints
    BY <1>1, EndpointFacts
  <2>2. [i \in 1 .. m |-> Marker(bare[i])] \in Seq(Endpoints)
    BY <1>1, <2>1, IsASeq
  <2> QED
    BY <1>1, <2>2 DEF Markers
<1>4. s = p \o q
  BY DEF RegistryCreates
<1> HIDE DEF n, m, p, q, s
<1>5. /\ p \o q \in Seq(Endpoints)
      /\ Len(p \o q) = Len(p) + Len(q)
      /\ \A i \in 1 .. Len(p) + Len(q) : (p \o q)[i] = IF i <= Len(p) THEN p[i] ELSE q[i - Len(p)]
  BY <1>2, <1>3, ConcatProperties
<1>6. /\ s \in Seq(Endpoints) /\ Len(s) = n + m
      /\ \A i \in 1 .. n + m : s[i] = IF i <= n THEN p[i] ELSE q[i - n]
  BY <1>2, <1>3, <1>4, <1>5
<1>7. DOMAIN s = 1 .. n + m
  BY <1>6, LenProperties
<1>8. \A i \in 1 .. n : s[i] = Primary(rs[i])
  BY <1>1, <1>2, <1>6
<1>9. ASSUME NEW i \in 1 .. m
      PROVE  s[n + i] = Marker(bare[i])
  <2>1. n + i \in 1 .. n + m /\ ~(n + i <= n) /\ (n + i) - n = i
    BY <1>1
  <2> QED
    BY <1>3, <1>6, <2>1
<1> QED
  BY <1>6, <1>7, <1>8, <1>9 DEF n, m, s

\* The first marker is found right behind the records.
LEMMA StartFound ==
    ASSUME NEW rs \in Seq(Identities), NEW bare \in Seq(Identities)
    PROVE  /\ HasOwnership(RegistryCreates(rs, bare)) <=> bare # <<>>
           /\ bare # <<>> => OwnershipStart(RegistryCreates(rs, bare)) = Len(rs)
<1> DEFINE s == RegistryCreates(rs, bare)
           n == Len(rs)
           m == Len(bare)
           Start(k) == s[k + 1].ownership /\ \A i \in 1 .. k : ~s[i].ownership
<1>1. n \in Nat /\ m \in Nat /\ (bare # <<>> <=> m # 0)
  BY LenProperties, EmptySeq
<1>2. Len(s) = n + m /\ DOMAIN s = 1 .. n + m
  BY ListShape
<1>3. ASSUME NEW i \in 1 .. n PROVE s[i].ownership = FALSE
  <2>1. s[i] = Primary(rs[i])
    BY ListShape
  <2> QED
    BY <2>1 DEF Primary
<1>4. ASSUME NEW i \in 1 .. m PROVE s[n + i].ownership = TRUE
  <2>1. s[n + i] = Marker(bare[i])
    BY ListShape
  <2> QED
    BY <2>1 DEF Marker
<1> HIDE DEF s, n, m
<1>5. HasOwnership(s) <=> m # 0
  <2>1. ASSUME m # 0 PROVE n + 1 \in DOMAIN s /\ s[n + 1].ownership
    <3>1. 1 \in 1 .. m /\ n + 1 \in 1 .. n + m
      BY <1>1, <2>1
    <3> QED
      BY <1>2, <1>4, <3>1
  <2>2. ASSUME m = 0, NEW i \in DOMAIN s PROVE ~s[i].ownership
    <3>1. i \in 1 .. n
      BY <1>1, <1>2, <2>2
    <3> QED
      BY <1>3, <3>1
  <2> QED
    BY <1>1, <2>1, <2>2 DEF HasOwnership
<1>6. ASSUME m # 0 PROVE OwnershipStart(s) = n
  <2>1. n \in 0 .. Len(s) /\ Start(n)
    <3>1. 1 \in 1 .. m /\ n \in 0 .. n + m
      BY <1>1, <1>6
    <3> QED
      BY <1>2, <1>3, <1>4, <3>1
  <2>2. ASSUME NEW k \in 0 .. Len(s), Start(k)
        PROVE  k = n
    <3>1. ASSUME k < n PROVE FALSE
      <4>1. k + 1 \in 1 .. n
        BY <1>1, <3>1
      <4> QED
        BY <1>3, <2>2, <4>1
    <3>2. ASSUME k > n PROVE FALSE
      <4>1. n + 1 \in 1 .. k /\ 1 \in 1 .. m
        BY <1>1, <1>6, <3>2
      <4> QED
        BY <1>4, <2>2, <4>1
    <3> QED
      BY <1>1, <3>1, <3>2
  <2> QED
    BY <2>1, <2>2 DEF OwnershipStart
<1> QED
  BY <1>1, <1>5, <1>6 DEF s, n

LEMMA PairsShape ==
    ASSUME NEW rs \in Seq(Identities), rs # <<>>
    PROVE  LET s == RegistryPairs(rs)
           IN  /\ Len(rs) \in Nat \ {0}
               /\ Len(s) = 2 * Len(rs) /\ OwnershipStart(s) = Len(rs)
               /\ \A i \in 1 .. Len(rs) : s[i] = Primary(rs[i]) /\ s[Len(rs) + i] = Marker(rs[i])
<1>1. RegistryPairs(rs) = RegistryCreates(rs, rs)
  BY DEF RegistryPairs, RegistryCreates
<1>2. Len(rs) \in Nat \ {0}
  BY EmptySeq
<1>3. Len(rs) + Len(rs) = 2 * Len(rs)
  BY <1>2
<1> QED
  BY <1>1, <1>2, <1>3, ListShape, StartFound

\* Whatever the length of a delete or an update the registry sends, it is
\* accepted, and every record is paired with the marker of its own name and
\* type (registryDeletePairs, registryUpdatePairs).
THEOREM PairsFound ==
    ASSUME NEW rs \in Seq(Identities), rs # <<>>
    PROVE  LET s == RegistryPairs(rs)
           IN  /\ PairLayout(s) /\ UpdateLayout(s, s)
               /\ Pairs(s) = [i \in 1 .. Len(rs) |-> [primary |-> Primary(rs[i]), ownership |-> Marker(rs[i])]]
<1> DEFINE s == RegistryPairs(rs)
           n == Len(rs)
<1>1. n \in Nat \ {0} /\ Len(s) = 2 * n
  BY PairsShape
<1>2. \A i \in 1 .. n : s[i] = Primary(rs[i]) /\ s[n + i] = Marker(rs[i])
  BY PairsShape
<1>3. OwnershipStart(s) = n
  BY PairsShape
<1>4. PairLayout(s)
  <2>1. ASSUME NEW i \in 1 .. n
        PROVE  ~s[i].ownership /\ s[n + i].ownership /\ SameName(s[n + i], s[i])
    <3>1. /\ Primary(rs[i]).ownership = FALSE /\ Marker(rs[i]).ownership = TRUE
          /\ Primary(rs[i]).rec = rs[i] /\ Marker(rs[i]).rec = rs[i]
      BY DEF Primary, Marker
    <3> HIDE DEF s, n
    <3> QED
      BY <1>2, <3>1 DEF SameName
  <2> QED
    BY <1>1, <1>3, <2>1 DEF PairLayout
<1>5. UpdateLayout(s, s)
  BY <1>4 DEF UpdateLayout
<1>6. Pairs(s) = [i \in 1 .. n |-> [primary |-> Primary(rs[i]), ownership |-> Marker(rs[i])]]
  BY <1>2, <1>3 DEF Pairs
<1> QED
  BY <1>4, <1>5, <1>6

(***************************************************************************)
(* The lists that can be planned                                           *)
(***************************************************************************)
\* The registry writes markers for some of the planned records, for all of
\* them in their order, or leaves out one that has its marker.
LayoutInv ==
    /\ planned \in Seq(Identities) /\ unmarked \in Seq(Identities)
    /\ Len(unmarked) <= Len(planned)
    /\ \A i \in 1 .. Len(unmarked) : \E j \in 1 .. Len(planned) : planned[j] = unmarked[i]
    /\ Len(unmarked) = Len(planned) => unmarked = planned
    /\ Len(unmarked) < Len(planned) => \E i \in 1 .. Len(planned) : planned[i] \in existing

LEMMA LayoutStep == LayoutInv /\ [Next]_vars => LayoutInv'
<1> SUFFICES ASSUME LayoutInv, [Next]_vars PROVE LayoutInv'
  OBVIOUS
<1>1. Len(planned) \in Nat /\ Len(unmarked) \in Nat
  BY LenProperties DEF LayoutInv
<1>2. ASSUME NEW r \in Identities, Plan(r) PROVE LayoutInv'
  <2>1. planned' = Append(planned, r) /\ existing' = existing
    BY <1>2 DEF Plan
  <2>2. /\ planned' \in Seq(Identities) /\ Len(planned') = Len(planned) + 1
        /\ \A i \in 1 .. Len(planned) : planned'[i] = planned[i]
        /\ planned'[Len(planned) + 1] = r
    BY <2>1, AppendProperties DEF LayoutInv
  <2>3. /\ Len(planned) + 1 \in 1 .. Len(planned')
        /\ \A i \in 1 .. Len(planned) : i \in 1 .. Len(planned')
    BY <1>1, <2>2
  <2>4. CASE r \in existing
    <3>1. unmarked' = unmarked
      BY <1>2, <2>4 DEF Plan
    <3>2. Len(unmarked') < Len(planned')
      BY <1>1, <2>2, <3>1 DEF LayoutInv
    <3>3. \A i \in 1 .. Len(unmarked') : \E j \in 1 .. Len(planned') : planned'[j] = unmarked'[i]
      BY <2>2, <2>3, <3>1 DEF LayoutInv
    <3>4. \E i \in 1 .. Len(planned') : planned'[i] \in existing'
      BY <2>1, <2>2, <2>3, <2>4
    <3> QED
      BY <1>1, <2>2, <3>1, <3>2, <3>3, <3>4 DEF LayoutInv
  <2>5. CASE r \notin existing
    <3>1. unmarked' = Append(unmarked, r)
      BY <1>2, <2>5 DEF Plan
    <3>2. /\ unmarked' \in Seq(Identities) /\ Len(unmarked') = Len(unmarked) + 1
          /\ \A i \in 1 .. Len(unmarked) : unmarked'[i] = unmarked[i]
          /\ unmarked'[Len(unmarked) + 1] = r
      BY <3>1, AppendProperties DEF LayoutInv
    <3>3. Len(unmarked') <= Len(planned')
      BY <1>1, <2>2, <3>2 DEF LayoutInv
    <3>4. ASSUME NEW i \in 1 .. Len(unmarked')
          PROVE  \E j \in 1 .. Len(planned') : planned'[j] = unmarked'[i]
      <4>1. CASE i \in 1 .. Len(unmarked)
        <5>1. PICK j \in 1 .. Len(planned) : planned[j] = unmarked[i]
          BY <4>1 DEF LayoutInv
        <5> QED
          BY <2>2, <2>3, <3>2, <4>1, <5>1
      <4>2. CASE i = Len(unmarked) + 1
        BY <2>2, <2>3, <3>2, <4>2
      <4> QED
        BY <1>1, <3>2, <4>1, <4>2
    <3>5. Len(unmarked') = Len(planned') => unmarked' = planned'
      BY <1>1, <2>1, <2>2, <3>1, <3>2 DEF LayoutInv
    <3>6. ASSUME Len(unmarked') < Len(planned')
          PROVE  \E i \in 1 .. Len(planned') : planned'[i] \in existing'
      <4>1. PICK i \in 1 .. Len(planned) : planned[i] \in existing
        BY <1>1, <2>2, <3>2, <3>6 DEF LayoutInv
      <4> QED
        BY <2>1, <2>2, <2>3, <4>1
    <3> QED
      BY <2>2, <3>2, <3>3, <3>4, <3>5, <3>6 DEF LayoutInv
  <2> QED
    BY <2>4, <2>5
<1>3. CASE UNCHANGED vars
  BY <1>3 DEF vars, LayoutInv
<1> QED
  BY <1>2, <1>3 DEF Next

LEMMA LayoutAlways == Spec => []LayoutInv
<1>1. Init => LayoutInv
  BY EmptySeq DEF Init, LayoutInv
<1> QED
  BY <1>1, LayoutStep, PTL DEF Spec

\* Creates of any length, with any markers in the zone already.
LEMMA CreatesAccepted == ASSUME LayoutInv PROVE CreateLayout(Creates)
<1> DEFINE s == Creates
           n == Len(planned)
           m == Len(unmarked)
<1>1. n \in Nat /\ m \in Nat /\ m <= n
  BY LenProperties DEF LayoutInv
<1>2. planned \in Seq(Identities) /\ unmarked \in Seq(Identities) /\ s = RegistryCreates(planned, unmarked)
  BY DEF LayoutInv, Creates
<1>3. /\ Len(s) = n + m
      /\ \A i \in 1 .. n : s[i] = Primary(planned[i])
      /\ \A i \in 1 .. m : s[n + i] = Marker(unmarked[i])
  BY <1>2, ListShape
<1>4. SUFFICES ASSUME HasOwnership(s)
               PROVE  /\ n > 0 /\ Len(s) - n <= n
                      /\ \A i \in n + 1 .. Len(s) : s[i].ownership /\ \E j \in 1 .. n : SameName(s[i], s[j])
                      /\ Len(s) = 2 * n => \A i \in 1 .. n : SameName(s[n + i], s[i])
  <2>1. HasOwnership(s) => OwnershipStart(s) = n
    BY <1>2, StartFound
  <2> HIDE DEF s, n
  <2> QED
    BY <2>1 DEF CreateLayout, s
<1>5. m > 0 /\ n > 0
  <2>1. unmarked # <<>>
    BY <1>2, <1>4, StartFound
  <2> QED
    BY <1>1, <1>2, <2>1, EmptySeq
<1>6. ASSUME NEW i \in n + 1 .. Len(s)
      PROVE  s[i].ownership /\ \E j \in 1 .. n : SameName(s[i], s[j])
  <2>1. i - n \in 1 .. m /\ n + (i - n) = i
    BY <1>1, <1>3
  <2>2. s[i] = Marker(unmarked[i - n])
    BY <1>3, <2>1
  <2>3. PICK j \in 1 .. n : planned[j] = unmarked[i - n]
    BY <2>1 DEF LayoutInv
  <2>4. s[j] = Primary(planned[j])
    BY <1>3
  <2>5. s[i].ownership = TRUE /\ s[i].rec = s[j].rec
    BY <2>2, <2>3, <2>4, EndpointFacts
  <2> QED
    BY <2>5 DEF SameName
<1>7. ASSUME Len(s) = 2 * n, NEW i \in 1 .. n
      PROVE  SameName(s[n + i], s[i])
  <2>1. m = n
    BY <1>1, <1>3, <1>7
  <2>2. unmarked = planned
    BY <2>1 DEF LayoutInv
  <2>3. s[n + i] = Marker(planned[i]) /\ s[i] = Primary(planned[i])
    BY <1>3, <2>1, <2>2
  <2> HIDE DEF s, n
  <2>4. s[n + i].rec = s[i].rec
    BY <2>3 DEF Primary, Marker
  <2> QED
    BY <2>4 DEF SameName
<1> QED
  BY <1>1, <1>3, <1>5, <1>6, <1>7

\* However long the lists of a plan and whichever markers are in the zone
\* already: validateChanges accepts what the registry sends, and each record is
\* paired with the marker of its own name and type.
THEOREM BatchPaired == Spec => []RegistryPaired
<1>1. LayoutInv => RegistryPaired
  <2> DEFINE s == RegistryPairs(planned)
  <2> SUFFICES ASSUME LayoutInv
               PROVE  /\ ValidateChanges(Creates, s, s, s)
                      /\ planned # <<>> =>
                            /\ Len(s) = 2 * Len(Pairs(s))
                            /\ \A i \in DOMAIN Pairs(s) :
                                  /\ Pairs(s)[i].primary = Primary(planned[i])
                                  /\ Pairs(s)[i].ownership = Marker(planned[i])
    BY DEF RegistryPaired
  <2>1. planned \in Seq(Identities)
    BY DEF LayoutInv
  <2>2. PairLayout(s) /\ UpdateLayout(s, s)
    <3>1. CASE planned = <<>>
      <4>1. s = RegistryCreates(planned, planned)
        BY DEF RegistryPairs, RegistryCreates
      <4>2. ~HasOwnership(s)
        BY <2>1, <3>1, <4>1, StartFound
      <4> HIDE DEF s
      <4> QED
        BY <4>2 DEF PairLayout, UpdateLayout
    <3>2. CASE planned # <<>>
      BY <2>1, <3>2, PairsFound
    <3> QED
      BY <3>1, <3>2
  <2>3. ValidateChanges(Creates, s, s, s)
    <3> HIDE DEF s
    <3> QED
      BY <2>2, CreatesAccepted DEF ValidateChanges
  <2>4. ASSUME planned # <<>>
        PROVE  /\ Len(s) = 2 * Len(Pairs(s))
               /\ \A i \in DOMAIN Pairs(s) :
                     /\ Pairs(s)[i].primary = Primary(planned[i])
                     /\ Pairs(s)[i].ownership = Marker(planned[i])
    <3>1. Pairs(s) = [i \in 1 .. Len(planned) |-> [primary |-> Primary(planned[i]), ownership |-> Marker(planned[i])]]
      BY <2>1, <2>4, PairsFound
    <3>2. Len(planned) \in Nat /\ Len(s) = 2 * Len(planned)
      BY <2>1, <2>4, PairsShape
    <3>3. DOMAIN Pairs(s) = 1 .. Len(planned) /\ Len(Pairs(s)) = Len(planned)
      BY <3>1, <3>2
    <3> HIDE DEF s
    <3> QED
      BY <3>1, <3>2, <3>3
  <2> QED
    BY <2>3, <2>4
<1> QED
  BY <1>1, LayoutAlways, PTL

\* However long a list of creates is and however many records share a name: a
\* marker is never removed on the absence of another record than its own, and
\* kept for another's sake only where its own cannot be told
\* (protectedEndpointForOwnership).
THEOREM CreatesProtected == Spec => []ProtectedSound
<1>1. LayoutInv => ProtectedSound
  <2> DEFINE s == Creates
             n == Len(planned)
             m == Len(unmarked)
  <2> SUFFICES ASSUME LayoutInv, NEW c \in DOMAIN s, s[c].ownership
               PROVE  LET own == s[c].rec
                      IN  /\ own \in ProtectedBy(s, c)
                          /\ ProtectedBy(s, c) # {own} =>
                                /\ \E i, j \in DOMAIN planned :
                                      i # j /\ planned[i].name = own.name /\ planned[j].name = own.name
                                /\ \E i \in DOMAIN planned : planned[i] \in existing
    BY DEF ProtectedSound
  <2> DEFINE own   == s[c].rec
             twins == {s[i].rec : i \in {j \in 1 .. n : SameName(s[j], s[c])}}
  <2>1. n \in Nat /\ m \in Nat /\ m <= n /\ DOMAIN planned = 1 .. n
    BY LenProperties DEF LayoutInv
  <2>2. planned \in Seq(Identities) /\ unmarked \in Seq(Identities) /\ s = RegistryCreates(planned, unmarked)
    BY DEF LayoutInv, Creates
  <2>3. /\ Len(s) = n + m /\ DOMAIN s = 1 .. n + m
        /\ \A i \in 1 .. n : s[i] = Primary(planned[i])
        /\ \A i \in 1 .. m : s[n + i] = Marker(unmarked[i])
    BY <2>2, ListShape
  <2>4. c - n \in 1 .. m /\ n + (c - n) = c
    <3>1. c \notin 1 .. n
      <4> SUFFICES ASSUME c \in 1 .. n PROVE FALSE
        OBVIOUS
      <4>1. s[c] = Primary(planned[c])
        BY <2>3
      <4> QED
        BY <4>1 DEF Primary
    <3>2. c \in 1 .. n + m
      BY <2>3
    <3> QED
      BY <2>1, <3>1, <3>2
  <2>5. s[c] = Marker(unmarked[c - n]) /\ own = unmarked[c - n] /\ own \in Identities
    <3>1. s[n + (c - n)] = Marker(unmarked[c - n])
      BY <2>3, <2>4
    <3>2. s[c] = Marker(unmarked[c - n])
      BY <2>4, <3>1
    <3>3. unmarked[c - n] \in Identities
      BY <2>2, <2>4, ElementOfSeq
    <3> QED
      BY <3>2, <3>3, EndpointFacts
  <2>6. OwnershipStart(s) = n
    <3>1. unmarked # <<>>
      BY <2>1, <2>4, EmptySeq
    <3> QED
      BY <2>2, <3>1, StartFound
  <2>7. \A i \in 1 .. n : s[i].rec = planned[i] /\ (SameName(s[i], s[c]) <=> planned[i].name = own.name)
    BY <2>3, EndpointFacts DEF SameName
  <2>8. twins = {planned[i] : i \in {j \in 1 .. n : planned[j].name = own.name}}
    BY <2>7
  <2>9. own \in twins /\ own \in {r \in Identities : r.name = own.name}
    <3>1. PICK j \in 1 .. n : planned[j] = unmarked[c - n]
      BY <2>4 DEF LayoutInv
    <3> QED
      BY <2>5, <2>8, <3>1
  <2>10. CASE Len(s) = 2 * n
    <3>1. m = n
      BY <2>1, <2>3, <2>10
    <3>2. unmarked = planned
      BY <3>1 DEF LayoutInv
    <3>3. c - n \in 1 .. n
      BY <2>4, <3>1
    <3>4. s[c - n].rec = own /\ SameName(s[c - n], s[c])
      BY <2>5, <2>7, <3>2, <3>3
    <3>5. ProtectedBy(s, c) = {own}
      BY <2>6, <2>10, <3>4 DEF ProtectedBy
    <3> QED
      BY <3>5
  <2>11. CASE Len(s) # 2 * n
    <3>1. PICK e \in 1 .. n : planned[e] \in existing
      <4>1. m < n
        BY <2>1, <2>3, <2>11
      <4> QED
        BY <4>1 DEF LayoutInv
    <3>2. ProtectedBy(s, c) = IF Cardinality(twins) = 1 THEN twins ELSE {r \in Identities : r.name = own.name}
      BY <2>6, <2>11 DEF ProtectedBy
    <3>3. IsFiniteSet(twins)
      <4> DEFINE I == {j \in 1 .. n : planned[j].name = own.name}
      <4>1. IsFiniteSet(1 .. n) /\ I \in SUBSET (1 .. n)
        BY <2>1, FS_Interval
      <4>2. IsFiniteSet(I)
        BY <4>1, FS_Subset
      <4>3. IsFiniteSet({planned[i] : i \in I})
        <5> HIDE DEF I
        <5>1. [i \in I |-> planned[i]] \in Surjection(I, {planned[i] : i \in I})
          BY DEF Surjection
        <5> QED
          BY <4>2, <5>1, FS_Surjection
      <4> QED
        BY <2>8, <4>3
    <3>4. CASE Cardinality(twins) = 1
      <4>1. \E r : twins = {r}
        <5> HIDE DEF twins
        <5> QED
          BY <3>3, <3>4, FS_Singleton
      <4>2. ProtectedBy(s, c) = {own}
        <5> HIDE DEF twins, own, s
        <5> QED
          BY <2>9, <3>2, <3>4, <4>1
      <4> QED
        BY <4>2
    <3>5. CASE Cardinality(twins) # 1
      <4>1. twins # {own}
        BY <3>5, FS_Singleton
      <4>2. PICK r \in twins : r # own
        <5> HIDE DEF twins, own
        <5> QED
          BY <2>9, <4>1
      <4>3. PICK i \in 1 .. n, j \in 1 .. n :
               planned[i] = r /\ planned[i].name = own.name /\ planned[j] = own /\ planned[j].name = own.name
        <5> HIDE DEF twins, own
        <5> QED
          BY <2>8, <2>9, <4>2
      <4>4. i # j
        BY <4>2, <4>3
      <4>5. own \in ProtectedBy(s, c)
        BY <2>9, <3>2, <3>5
      <4>6. \E k, l \in DOMAIN planned : k # l /\ planned[k].name = own.name /\ planned[l].name = own.name
        BY <2>1, <4>3, <4>4
      <4>7. \E k \in DOMAIN planned : planned[k] \in existing
        BY <2>1, <3>1
      <4> HIDE DEF s
      <4> QED
        BY <4>5, <4>6, <4>7
    <3> QED
      BY <3>4, <3>5
  <2> QED
    BY <2>10, <2>11
<1> QED
  BY <1>1, LayoutAlways, PTL
===============================================================================
