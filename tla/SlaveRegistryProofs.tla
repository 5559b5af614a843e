------------------------ MODULE SlaveRegistryProofs ------------------------
(* Proofs about SlaveRegistry, for any names, addresses and ceiling, and the  *)
(* cluster that stands on it, for any files.  TypeOK and OneFact together are *)
(* inductive; everything else about the registry follows from them in one     *)
(* step.  With an accepted config they are inductive for ClusterMesh, where   *)
(* what is left is what the operators make of config and peering.             *)
EXTENDS ClusterMesh, NumberLemmas, FiniteSetTheorems, TLAPS

Ownership == TypeOK /\ OneFact

(* What a pin table is to the proofs: names to addresses, one name each. *)
LEMMA PinTableFacts ==
  ASSUME NEW p \in PinTables
  PROVE  /\ DOMAIN p \subseteq Names
         /\ \A n \in DOMAIN p : p[n] \in Addrs
         /\ \A m, n \in DOMAIN p : p[m] = p[n] => m = n
<1>1. PICK S \in SUBSET Names : p \in [S -> Addrs] BY DEF PinTables
<1>2. DOMAIN p = S /\ \A n \in S : p[n] \in Addrs BY <1>1
<1> QED BY <1>2 DEF PinTables

(* A request is granted its claim or nothing, and a grant is an address. *)
LEMMA ResolvedFacts ==
  ASSUME NEW n, NEW claim \in Claims
  PROVE  /\ Resolved(n, claim) \in {claim, NoAddr}
         /\ Resolved(n, claim) # NoAddr => Granted(n, claim) /\ claim \in Addrs
         /\ Resolved(n, claim) \in Claims
BY DEF Resolved, Granted, Claims

(* Whoever is evicted owns the claimed address, is another slave and loses    *)
(* to a claimant that is then granted it.                                     *)
LEMMA EvictedFacts ==
  ASSUME NEW n, NEW claim \in Claims, NEW o \in Evicted(n, claim)
  PROVE  /\ claim \in Addrs /\ claim \in DOMAIN byAddr /\ byAddr[claim] = o /\ o # n
         /\ LosesTo(o, n, claim) /\ PinAdmits(n, claim)
         /\ Resolved(n, claim) = claim
<1>1. claim # NoAddr /\ PinAdmits(n, claim) BY DEF Evicted
<1>2. o \in Owner(claim) /\ o # n /\ LosesTo(o, n, claim) BY <1>1 DEF Evicted
<1>3. claim \in DOMAIN byAddr /\ byAddr[claim] = o /\ Owner(claim) = {o} BY <1>2 DEF Owner
<1>4. Granted(n, claim) BY <1>1, <1>3 DEF Granted
<1> QED BY <1>1, <1>2, <1>3, <1>4 DEF Resolved, Claims

(* A granted address has no owner besides the claimant and the evicted.       *)
LEMMA GrantedFacts ==
  ASSUME NEW n, NEW claim, Granted(n, claim), claim \in DOMAIN byAddr, byAddr[claim] # n
  PROVE  byAddr[claim] \in Evicted(n, claim)
BY DEF Granted, Owner

-----------------------------------------------------------------------------
(* The initial state: nobody registered. *)
LEMMA InitOwnership == ASSUME Init PROVE Ownership
<1>1. DOMAIN slaves = {} /\ DOMAIN byAddr = {} BY DEF Init
<1>2. Cardinality(DOMAIN slaves) = 0 BY <1>1, FS_EmptySet
<1>3. Cardinality(DOMAIN slaves) <= MaxSlaves BY <1>2, RegistryAssumption
<1>4. pins \in PinTables /\ fired \in BOOLEAN BY DEF Init
<1>5. TypeOK BY <1>1, <1>3, <1>4 DEF TypeOK
<1> QED BY <1>1, <1>5 DEF Ownership, OneFact

(* A request keeps the types; the ceiling is checked before a name enters.    *)
LEMMA TouchTypes ==
  ASSUME Ownership, NEW n \in Names, NEW claim \in Claims, Touch(n, claim)
  PROVE  TypeOK'
<1> DEFINE prev == IF n \in DOMAIN slaves THEN slaves[n] ELSE NoAddr
           next == Resolved(n, claim)
<1>1. /\ slaves' = Advertised(n, Evicted(n, claim), next)
      /\ byAddr' = Claimed(n, prev, next)
      /\ fired' = Changed(prev, next)
      /\ pins' = pins /\ Admitted(n)
  BY DEF Touch
<1>2. next \in Claims BY ResolvedFacts
<1>3. NoAddr \in Claims BY DEF Claims
<1> HIDE DEF next, prev
<1>4. DOMAIN slaves' = DOMAIN slaves \cup {n} BY <1>1 DEF Advertised
<1>5. \A m \in DOMAIN slaves' : slaves'[m] \in Claims
  BY <1>1, <1>2, <1>3, <1>4 DEF Advertised, Ownership, TypeOK
<1>6. DOMAIN byAddr' \subseteq Addrs
  <2>1. {next} \ {NoAddr} \subseteq Addrs BY <1>2 DEF Claims
  <2> QED BY <2>1, <1>1 DEF Claimed, Ownership, TypeOK
<1>7. \A a \in DOMAIN byAddr' : byAddr'[a] \in Names
  BY <1>1 DEF Claimed, Ownership, TypeOK
<1>8. Cardinality(DOMAIN slaves') <= MaxSlaves
  <2>1. IsFiniteSet(DOMAIN slaves)
    BY RegistryAssumption, FS_Subset DEF Ownership, TypeOK
  <2>2. Cardinality(DOMAIN slaves) \in Nat BY <2>1, FS_CardinalityType
  <2>3. CASE n \in DOMAIN slaves
    <3>1. DOMAIN slaves' = DOMAIN slaves BY <1>4, <2>3
    <3> QED BY <3>1 DEF Ownership, TypeOK
  <2>4. CASE n \notin DOMAIN slaves
    <3>1. Cardinality(DOMAIN slaves') = Cardinality(DOMAIN slaves) + 1
      BY <1>4, <2>1, <2>4, FS_AddElement
    <3>2. Cardinality(DOMAIN slaves) < MaxSlaves BY <1>1, <2>4 DEF Admitted
    <3> QED BY <3>1, <3>2, <2>2, RegistryAssumption
  <2> QED BY <2>3, <2>4
<1>9. DOMAIN slaves' \subseteq Names BY <1>4 DEF Ownership, TypeOK
<1>10. fired' \in BOOLEAN BY <1>1 DEF Changed
<1> QED BY <1>1, <1>5, <1>6, <1>7, <1>8, <1>9, <1>10 DEF TypeOK, Ownership

(* A request keeps both halves of the ownership: what it takes it takes on    *)
(* both sides, and what it gives up it gives up on both.                      *)
LEMMA TouchKeepsOneFact ==
  ASSUME Ownership, NEW n \in Names, NEW claim \in Claims, Touch(n, claim)
  PROVE  OneFact'
<1> DEFINE prev == IF n \in DOMAIN slaves THEN slaves[n] ELSE NoAddr
           next == Resolved(n, claim)
           evicted == Evicted(n, claim)
<1>1. /\ slaves' = Advertised(n, evicted, next)
      /\ byAddr' = Claimed(n, prev, next)
  BY DEF Touch
<1>2. next \in Claims /\ next \in {claim, NoAddr} BY ResolvedFacts
<1>3. \A o \in evicted : /\ claim \in DOMAIN byAddr /\ byAddr[claim] = o /\ o # n
                         /\ next = claim
  BY EvictedFacts
<1>4. next # NoAddr /\ next \in DOMAIN byAddr /\ byAddr[next] # n
        => byAddr[next] \in evicted
  BY ResolvedFacts, GrantedFacts
<1>5. \A m \in Names, a \in Addrs :
        (a \in DOMAIN byAddr /\ byAddr[a] = m) <=> (m \in DOMAIN slaves /\ slaves[m] = a)
  BY DEF Ownership, OneFact
<1>6. \A a \in DOMAIN byAddr : byAddr[a] \in Names BY DEF Ownership, TypeOK
<1>7. prev # NoAddr => n \in DOMAIN slaves /\ slaves[n] = prev OBVIOUS
<1>8. n \in DOMAIN slaves => slaves[n] = prev OBVIOUS
<1> HIDE DEF next, prev, evicted
<1>9. Owner(prev) = {n} <=> (prev \in DOMAIN byAddr /\ byAddr[prev] = n)
  BY DEF Owner
<1>10. NoAddr \notin Addrs BY RegistryAssumption
<1> SUFFICES ASSUME NEW m \in Names, NEW a \in Addrs
             PROVE  (a \in DOMAIN byAddr' /\ byAddr'[a] = m)
                      <=> (m \in DOMAIN slaves' /\ slaves'[m] = a)
  BY DEF OneFact
<1>11. CASE a = next
  <2>1. a \in DOMAIN byAddr' /\ byAddr'[a] = n BY <1>1, <1>10, <1>11 DEF Claimed
  <2>2. m = n => m \in DOMAIN slaves' /\ slaves'[m] = a BY <1>1, <1>11 DEF Advertised
  <2>3. ASSUME m # n, m \in DOMAIN slaves', slaves'[m] = a PROVE FALSE
    <3>1. m \in DOMAIN slaves /\ m \notin evicted /\ slaves[m] = a
      BY <1>1, <1>10, <2>3 DEF Advertised
    <3>2. a \in DOMAIN byAddr /\ byAddr[a] = m BY <3>1, <1>5
    <3> QED BY <3>1, <3>2, <1>4, <1>10, <1>11, <2>3
  <2> QED BY <2>1, <2>2, <2>3
<1>12. CASE a # next
  <2>1. (a \in DOMAIN byAddr' /\ byAddr'[a] = m)
          <=> (a \in DOMAIN byAddr /\ byAddr[a] = m /\ ~(prev # next /\ a = prev /\ byAddr[a] = n))
    BY <1>1, <1>9, <1>12 DEF Claimed
  <2>2. (m \in DOMAIN slaves' /\ slaves'[m] = a)
          <=> (m # n /\ m \in DOMAIN slaves /\ m \notin evicted /\ slaves[m] = a)
    BY <1>1, <1>10, <1>12 DEF Advertised
  <2>3. CASE m = n
    <3>1. ~(a \in DOMAIN byAddr' /\ byAddr'[a] = n)
      <4>1. a \in DOMAIN byAddr /\ byAddr[a] = n => a = prev BY <1>5, <1>8
      <4> QED BY <4>1, <2>1, <2>3, <1>12
    <3> QED BY <3>1, <2>2, <2>3
  <2>4. CASE m # n
    <3>1. m \in evicted => slaves[m] = next /\ next \in Addrs
      <4>1. m \in evicted => claim \in DOMAIN byAddr /\ byAddr[claim] = m /\ next = claim BY <1>3
      <4>2. DOMAIN byAddr \subseteq Addrs BY DEF Ownership, TypeOK
      <4> QED BY <4>1, <4>2, <1>5
    <3> QED BY <3>1, <2>1, <2>2, <2>4, <1>5, <1>12
  <2> QED BY <2>3, <2>4
<1> QED BY <1>11, <1>12

(* A sweep keeps types and ownership. *)
LEMMA SweepOwnership ==
  ASSUME Ownership, NEW S \in SUBSET Names, Sweep(S)
  PROVE  Ownership'
<1> DEFINE released == {a \in DOMAIN byAddr : byAddr[a] \in S /\ slaves[byAddr[a]] = a}
<1>1. /\ slaves' = [n \in DOMAIN slaves \ S |-> slaves[n]]
      /\ byAddr' = [a \in DOMAIN byAddr \ released |-> byAddr[a]]
      /\ fired' = (released # {}) /\ pins' = pins /\ S \subseteq DOMAIN slaves
  BY DEF Sweep
<1>2. \A n \in Names, a \in Addrs :
        (a \in DOMAIN byAddr /\ byAddr[a] = n) <=> (n \in DOMAIN slaves /\ slaves[n] = a)
  BY DEF Ownership, OneFact
<1>3. DOMAIN byAddr \subseteq Addrs /\ \A a \in DOMAIN byAddr : byAddr[a] \in Names
  BY DEF Ownership, TypeOK
<1>4. \A a \in DOMAIN byAddr : a \in released <=> byAddr[a] \in S BY <1>2, <1>3
<1> HIDE DEF released
<1>5. OneFact'
  <2> SUFFICES ASSUME NEW n \in Names, NEW a \in Addrs
               PROVE  (a \in DOMAIN byAddr' /\ byAddr'[a] = n)
                        <=> (n \in DOMAIN slaves' /\ slaves'[n] = a)
    BY DEF OneFact
  <2>1. (a \in DOMAIN byAddr' /\ byAddr'[a] = n) <=> (a \in DOMAIN byAddr /\ byAddr[a] = n /\ n \notin S)
    BY <1>1, <1>4
  <2>2. (n \in DOMAIN slaves' /\ slaves'[n] = a) <=> (n \in DOMAIN slaves /\ slaves[n] = a /\ n \notin S)
    BY <1>1
  <2> QED BY <2>1, <2>2, <1>2
<1>6. Cardinality(DOMAIN slaves') <= MaxSlaves
  <2>1. IsFiniteSet(DOMAIN slaves) BY RegistryAssumption, FS_Subset DEF Ownership, TypeOK
  <2>2. DOMAIN slaves' \subseteq DOMAIN slaves BY <1>1
  <2>3. /\ Cardinality(DOMAIN slaves') <= Cardinality(DOMAIN slaves)
        /\ Cardinality(DOMAIN slaves) \in Nat /\ Cardinality(DOMAIN slaves') \in Nat
    BY <2>1, <2>2, FS_Subset, FS_CardinalityType
  <2> QED BY <2>3, RegistryAssumption DEF Ownership, TypeOK
<1>7. /\ DOMAIN slaves' \subseteq Names /\ \A n \in DOMAIN slaves' : slaves'[n] \in Claims
      /\ DOMAIN byAddr' \subseteq Addrs /\ \A a \in DOMAIN byAddr' : byAddr'[a] \in Names
  BY <1>1 DEF Ownership, TypeOK
<1> QED BY <1>1, <1>5, <1>6, <1>7 DEF Ownership, TypeOK

(* Every step keeps types and ownership. *)
LEMMA NextOwnership == ASSUME Ownership, [Next]_vars PROVE Ownership'
<1>1. ASSUME NEW n \in Names, NEW claim \in Claims, Touch(n, claim) PROVE Ownership'
  BY <1>1, TouchTypes, TouchKeepsOneFact DEF Ownership
<1>2. ASSUME NEW S \in SUBSET Names, Sweep(S) PROVE Ownership'
  BY <1>2, SweepOwnership
<1>3. CASE EditPins BY <1>3 DEF EditPins, Ownership, TypeOK, OneFact
<1>4. CASE UNCHANGED vars BY <1>4 DEF vars, Ownership, TypeOK, OneFact
<1> QED BY <1>1, <1>2, <1>3, <1>4 DEF Next

-----------------------------------------------------------------------------
(* Ownership holds in every reachable state. *)
THEOREM OwnershipHolds == Spec => []Ownership
<1>1. Init => Ownership BY InitOwnership
<1>2. Ownership /\ [Next]_vars => Ownership' BY NextOwnership
<1> QED BY <1>1, <1>2, PTL DEF Spec

(* The registry's variables keep their types and it never holds more names    *)
(* than its ceiling.                                                          *)
THEOREM RegistryTypes == Spec => []TypeOK
<1>1. Ownership => TypeOK BY DEF Ownership
<1> QED BY <1>1, OwnershipHolds, PTL

(* The claimant the ownership map names and the address a slave advertises    *)
(* stay one fact, whatever slaves claim and operators pin.                    *)
THEOREM OwnershipIsOneFact == Spec => []OneFact
<1>1. Ownership => OneFact BY DEF Ownership
<1> QED BY <1>1, OwnershipHolds, PTL

(* No two peers are probed at one address. *)
THEOREM PeersStayApart == Spec => []PeersApart
<1>1. Ownership => PeersApart
  <2> SUFFICES ASSUME Ownership, NEW m \in Peers, NEW n \in Peers, slaves[m] = slaves[n]
               PROVE  m = n
    BY DEF PeersApart
  <2>1. m \in DOMAIN slaves /\ n \in DOMAIN slaves /\ slaves[m] # NoAddr BY DEF Peers
  <2>2. m \in Names /\ n \in Names /\ slaves[m] \in Addrs
    BY <2>1 DEF Ownership, TypeOK, Claims
  <2> QED BY <2>1, <2>2 DEF Ownership, OneFact
<1> QED BY <1>1, OwnershipHolds, PTL

(* The registry is consistent in every reachable state. *)
THEOREM RegistryIsSound == Spec => []Inv
<1> QED BY RegistryTypes, OwnershipIsOneFact, PeersStayApart, PTL DEF Inv

(* A pinned slave that reports its pinned address has it afterwards: every    *)
(* other owner is pinned elsewhere or not at all, and loses.                  *)
THEOREM PinsAlwaysWin == Spec => PinWins
<1>1. ASSUME Ownership, NEW n \in DOMAIN pins, Touch(n, pins[n])
      PROVE  slaves'[n] = pins[n]
  <2>1. pins \in PinTables BY <1>1 DEF Ownership, TypeOK
  <2>2. /\ pins[n] \in Addrs
        /\ \A m \in DOMAIN pins : pins[m] = pins[n] => m = n
    BY <2>1, PinTableFacts
  <2>3. pins[n] # NoAddr BY <2>2, RegistryAssumption
  <2>4. PinAdmits(n, pins[n]) BY DEF PinAdmits
  <2>5. ASSUME NEW o \in Owner(pins[n]), o # n PROVE o \in Evicted(n, pins[n])
    <3>1. o \in DOMAIN pins => ~PinAdmits(o, pins[n]) BY <2>2, <2>5 DEF PinAdmits
    <3>2. LosesTo(o, n, pins[n]) BY <3>1 DEF LosesTo
    <3> QED BY <3>2, <2>3, <2>4, <2>5 DEF Evicted
  <2>6. Granted(n, pins[n]) BY <2>3, <2>4, <2>5 DEF Granted
  <2>7. Resolved(n, pins[n]) = pins[n] BY <2>6 DEF Resolved
  <2>8. slaves' = Advertised(n, Evicted(n, pins[n]), pins[n]) BY <1>1, <2>7 DEF Touch
  <2> QED BY <2>8 DEF Advertised
<1>2. Ownership /\ [Next]_vars
        => [\A n \in DOMAIN pins : Touch(n, pins[n]) => slaves'[n] = pins[n]]_vars
  BY <1>1
<1> QED BY <1>2, OwnershipHolds, PTL DEF Spec, PinWins

(* Whom a request evicts is no peer: the eviction and the mesh apply the same *)
(* pin rule.                                                                  *)
LEMMA EvictedIsNoPeer ==
  ASSUME NEW n, NEW claim \in Claims, NEW p \in Evicted(n, claim), p \in Peers,
         slaves[p] = claim
  PROVE  FALSE
<1>1. p # n /\ LosesTo(p, n, claim) /\ PinAdmits(n, claim) BY EvictedFacts
<1>2. PinAdmits(p, claim) BY DEF Peers
<1>3. n \in DOMAIN pins BY <1>1, <1>2 DEF LosesTo
<1>4. pins[n] = slaves[p] BY <1>1, <1>3 DEF PinAdmits
<1> QED BY <1>1, <1>3, <1>4 DEF Peers

(* Nobody else's request takes a peer out of the mesh or moves it. *)
THEOREM PeersHoldTheirPlace == Spec => PeersKeepTheirPlace
<1> DEFINE Stays == UNCHANGED pins =>
             \A n \in Peers : \/ n \in Peers' /\ slaves'[n] = slaves[n]
                              \/ \E claim \in Claims : Touch(n, claim)
                              \/ n \notin DOMAIN slaves'
<1>1. ASSUME Ownership, NEW t \in Names, NEW claim \in Claims, Touch(t, claim) PROVE Stays
  <2> SUFFICES ASSUME UNCHANGED pins, NEW n \in Peers, n # t
               PROVE  n \in Peers' /\ slaves'[n] = slaves[n]
    BY <1>1
  <2>1. n \in DOMAIN slaves BY DEF Peers
  <2>2. n \in Names BY <2>1, <1>1 DEF Ownership, TypeOK
  <2>3. n \notin Evicted(t, claim)
    <3>1. SUFFICES ASSUME n \in Evicted(t, claim) PROVE FALSE OBVIOUS
    <3>2. claim \in Addrs /\ claim \in DOMAIN byAddr /\ byAddr[claim] = n
      BY <3>1, EvictedFacts
    <3>3. slaves[n] = claim BY <3>2, <2>2, <1>1 DEF Ownership, OneFact
    <3> QED BY <3>1, <3>3, EvictedIsNoPeer
  <2>4. slaves' = Advertised(t, Evicted(t, claim), Resolved(t, claim)) BY <1>1 DEF Touch
  <2>5. n \in DOMAIN slaves' /\ slaves'[n] = slaves[n] BY <2>1, <2>3, <2>4 DEF Advertised
  <2> QED BY <2>5 DEF Peers, PinAdmits
<1>2. ASSUME NEW S \in SUBSET Names, Sweep(S) PROVE Stays
  <2> SUFFICES ASSUME UNCHANGED pins, NEW n \in Peers, n \in DOMAIN slaves'
               PROVE  n \in Peers' /\ slaves'[n] = slaves[n]
    OBVIOUS
  <2>1. slaves'[n] = slaves[n] BY <1>2 DEF Sweep
  <2> QED BY <2>1 DEF Peers, PinAdmits
<1>3. ASSUME EditPins PROVE Stays
  <2>1. slaves' = slaves BY <1>3 DEF EditPins
  <2> QED BY <2>1 DEF Peers, PinAdmits
<1> HIDE DEF Stays
<1>4. Ownership /\ [Next]_vars => [Stays]_vars
  BY <1>1, <1>2, <1>3 DEF Next
<1> QED BY <1>4, OwnershipHolds, PTL DEF Spec, PeersKeepTheirPlace, Stays

(* An address goes to the slave pinned to it, and otherwise stays with whom   *)
(* the mesh probes at it (resolveAdvertise).                                  *)
THEOREM ClaimsAreSettled == Spec => ClaimsSettled
BY PinsAlwaysWin, PeersHoldTheirPlace DEF ClaimsSettled

(* Whatever a request or a sweep does to the mesh, onChange is called. *)
THEOREM ChangesAreAnnounced == Spec => ChangeAnnounced
<1> DEFINE Quiet == UNCHANGED pins /\ ~fired' =>
                      Peers' = Peers /\ \A n \in Peers : slaves'[n] = slaves[n]
<1>1. ASSUME Ownership, NEW t \in Names, NEW claim \in Claims, Touch(t, claim) PROVE Quiet
  <2> SUFFICES ASSUME UNCHANGED pins, ~fired'
               PROVE  Peers' = Peers /\ \A n \in Peers : slaves'[n] = slaves[n]
    OBVIOUS
  <2> DEFINE prev == IF t \in DOMAIN slaves THEN slaves[t] ELSE NoAddr
  <2>1. Resolved(t, claim) = prev BY <1>1 DEF Touch, Changed
  <2>2. slaves' = Advertised(t, Evicted(t, claim), prev) BY <1>1, <2>1 DEF Touch
  <2>3. Evicted(t, claim) = {}
    <3>1. SUFFICES ASSUME NEW o \in Evicted(t, claim) PROVE FALSE OBVIOUS
    <3>2. claim \in Addrs /\ byAddr[claim] = o /\ o # t /\ prev = claim
      BY <2>1, EvictedFacts
    <3>3. t \in DOMAIN slaves /\ slaves[t] = claim BY <3>2, RegistryAssumption
    <3> QED BY <3>2, <3>3, <1>1 DEF Ownership, OneFact
  <2>4. DOMAIN slaves' = DOMAIN slaves \cup {t} BY <2>2 DEF Advertised
  <2>5. \A n \in DOMAIN slaves : slaves'[n] = slaves[n] BY <2>2, <2>3 DEF Advertised
  <2>6. t \notin DOMAIN slaves => slaves'[t] = NoAddr BY <2>2 DEF Advertised
  <2> QED BY <2>4, <2>5, <2>6 DEF Peers, PinAdmits
<1>2. ASSUME Ownership, NEW S \in SUBSET Names, Sweep(S) PROVE Quiet
  <2> SUFFICES ASSUME UNCHANGED pins, ~fired'
               PROVE  Peers' = Peers /\ \A n \in Peers : slaves'[n] = slaves[n]
    OBVIOUS
  <2>1. {a \in DOMAIN byAddr : byAddr[a] \in S /\ slaves[byAddr[a]] = a} = {}
    BY <1>2 DEF Sweep
  <2>2. \A n \in S : n \notin Peers
    <3> SUFFICES ASSUME NEW n \in S, n \in Peers PROVE FALSE OBVIOUS
    <3>1. n \in DOMAIN slaves /\ slaves[n] # NoAddr BY DEF Peers
    <3>2. slaves[n] \in Addrs /\ n \in Names BY <3>1, <1>2 DEF Ownership, TypeOK, Claims
    <3>3. slaves[n] \in DOMAIN byAddr /\ byAddr[slaves[n]] = n
      BY <3>1, <3>2, <1>2 DEF Ownership, OneFact
    <3> QED BY <3>3, <2>1
  <2>3. DOMAIN slaves' = DOMAIN slaves \ S /\ \A n \in DOMAIN slaves \ S : slaves'[n] = slaves[n]
    BY <1>2 DEF Sweep
  <2>4. \A n \in Peers : n \in DOMAIN slaves \ S BY <2>2 DEF Peers
  <2> QED BY <2>3, <2>4 DEF Peers, PinAdmits
<1>3. ASSUME EditPins PROVE Quiet
  <2>1. slaves' = slaves BY <1>3 DEF EditPins
  <2> QED BY <2>1 DEF Peers, PinAdmits
<1>4. Ownership /\ [Next]_vars => [Quiet]_vars
  BY <1>1, <1>2, <1>3 DEF Next
<1>5. Quiet => (UNCHANGED pins /\ (Peers' # Peers \/ \E n \in Peers : slaves'[n] # slaves[n]) => fired')
  OBVIOUS
<1> HIDE DEF Quiet
<1>6. Ownership /\ [Next]_vars =>
        [UNCHANGED pins /\ (Peers' # Peers \/ \E n \in Peers : slaves'[n] # slaves[n]) => fired']_vars
  BY <1>4, <1>5
<1> QED BY <1>6, OwnershipHolds, PTL DEF Spec, ChangeAnnounced

-----------------------------------------------------------------------------
(* A list is one of its own elements. *)
LEMMA ListFacts ==
  ASSUME NEW S, NEW s \in Seq(S)
  PROVE  IsList(s) /\ \A i \in DOMAIN s : s[i] \in ToSet(s)
<1>1. s \in [1..Len(s) -> S] /\ DOMAIN s = 1..Len(s) /\ Len(s) \in Nat
  OBVIOUS
<1>2. \A i \in DOMAIN s : s[i] \in ToSet(s)
  BY DEF ToSet
<1>3. s \in [1..Len(s) -> ToSet(s)]
  BY <1>1, <1>2
<1> QED BY <1>1, <1>2, <1>3 DEF IsList

(* The target at a place, under its group. *)
RefAt(groups, r) == [group |-> groups[r[1]].group, target |-> groups[r[1]].targets[r[2]]]

(* A config's targets are those at its places. *)
LEMMA TargetsAtPlaces == ASSUME NEW groups PROVE AllTargets(groups) = {RefAt(groups, r) : r \in RefsIn(groups)}
<1>1. ASSUME NEW x \in AllTargets(groups) PROVE \E r \in RefsIn(groups) : x = RefAt(groups, r)
  <2>1. PICK i \in DOMAIN groups : \E j \in DOMAIN groups[i].targets :
          x = [group |-> groups[i].group, target |-> groups[i].targets[j]]
    BY DEF AllTargets
  <2>2. PICK j \in DOMAIN groups[i].targets :
          x = [group |-> groups[i].group, target |-> groups[i].targets[j]]
    BY <2>1
  <2>3. <<i, j>> \in RefsIn(groups)
    BY DEF RefsIn
  <2>4. x = RefAt(groups, <<i, j>>)
    BY <2>2 DEF RefAt
  <2> QED BY <2>3, <2>4
<1>2. ASSUME NEW r \in RefsIn(groups) PROVE RefAt(groups, r) \in AllTargets(groups)
  BY DEF AllTargets, RefsIn, RefAt
<1> QED BY <1>1, <1>2

(* Narrowing keeps a list of groups one, its targets are those at the places  *)
(* that are kept, and no two places become one.                               *)
LEMMA KeptFacts ==
  ASSUME NEW groups, IsGroups(groups), NEW refs \in SUBSET RefsIn(groups)
  PROVE  /\ IsGroups(Kept(groups, refs))
         /\ AllTargets(Kept(groups, refs)) = {RefAt(groups, r) : r \in refs}
         /\ NoDuplicate(groups) => NoDuplicate(Kept(groups, refs))
<1> DEFINE at(i) == {j \in DOMAIN groups[i].targets : <<i, j>> \in refs}
           thin == [i \in DOMAIN groups |->
                      [group |-> groups[i].group, targets |-> Picked(groups[i].targets, at(i))]]
           full == {i \in DOMAIN groups : thin[i].targets # <<>>}
           K == Kept(groups, refs)
           Turned(i, t) ==
             /\ t \in [DOMAIN thin[i].targets -> at(i)]
             /\ \A k \in DOMAIN thin[i].targets : thin[i].targets[k] = groups[i].targets[t[k]]
             /\ \A k, l \in DOMAIN thin[i].targets : t[k] = t[l] => k = l
             /\ \A j \in at(i) : \E k \in DOMAIN thin[i].targets : t[k] = j
           turn == [i \in DOMAIN groups |-> CHOOSE t : Turned(i, t)]
<1>1. /\ \A i \in DOMAIN groups : IsGroup(groups[i])
      /\ DOMAIN groups = 1..Len(groups) /\ Len(groups) \in Nat
  BY DEF IsGroups, IsList
<1>2. ASSUME NEW i \in DOMAIN groups PROVE IsGroup(thin[i]) /\ \E t : Turned(i, t)
  <2>1. /\ groups[i].targets \in Seq(ToSet(groups[i].targets))
        /\ \A j \in DOMAIN groups[i].targets : IsTarget(groups[i].targets[j])
    BY <1>1 DEF IsGroup, IsList
  <2> DEFINE G == groups[i].targets
             P == at(i)
             Q == Picked(G, P)
  <2>2. G \in Seq(ToSet(G)) /\ P \in SUBSET DOMAIN G
    BY <2>1
  <2>3. thin[i].group = groups[i].group /\ thin[i].targets = Q /\ thin[i] = [group |-> thin[i].group, targets |-> thin[i].targets]
    OBVIOUS
  <2> HIDE DEF P, G, thin
  <2>4. /\ Cardinality(P) \in Nat
        /\ Q \in Seq(ToSet(G)) /\ Len(Q) = Cardinality(P)
        /\ \E f : Picks(f, G, P)
    BY <2>2, PickedFacts
  <2>11. PICK t : Picks(t, G, P)
    BY <2>4
  <2>5. /\ t \in [1..Cardinality(P) -> P]
        /\ \A k \in 1..Cardinality(P) : Q[k] = G[t[k]]
        /\ \A k, l \in 1..Cardinality(P) : k < l => t[k] < t[l]
        /\ \A j \in P : \E k \in 1..Cardinality(P) : t[k] = j
    BY <2>11 DEF Picks
  <2>6. DOMAIN Q = 1..Cardinality(P) /\ IsList(Q)
    BY <2>4, ListFacts
  <2>7. \A k, l \in DOMAIN Q : t[k] = t[l] => k = l
    <3>1. \A k \in DOMAIN Q : t[k] \in Int
      <4>1. P \subseteq Int
        BY <2>2
      <4> QED BY <2>5, <2>6, <4>1
    <3> QED BY <2>4, <2>5, <2>6, <3>1
  <2>8. Turned(i, t)
    BY <2>3, <2>5, <2>6, <2>7 DEF P, G
  <2>9. \A k \in DOMAIN Q : IsTarget(Q[k])
    BY <2>1, <2>2, <2>5, <2>6 DEF G
  <2>10. IsGroup(thin[i])
    BY <2>3, <2>6, <2>9 DEF IsGroup
  <2> QED BY <2>8, <2>10
<1>3. \A i \in DOMAIN groups : Turned(i, turn[i])
  <2> HIDE DEF thin, at, Turned
  <2> QED BY <1>2
<1>4. K = Picked(thin, full)
  BY DEF Kept
<1>5. thin \in Seq(ToSet(thin)) /\ full \in SUBSET DOMAIN thin /\ DOMAIN thin = DOMAIN groups
  <2>1. DOMAIN thin = 1..Len(groups) /\ \A i \in DOMAIN thin : thin[i] \in ToSet(thin)
    BY <1>1 DEF ToSet
  <2>2. full \in SUBSET DOMAIN thin
    OBVIOUS
  <2>3. thin = [i \in 1..Len(groups) |-> thin[i]]
    BY <1>1
  <2> HIDE DEF thin, full
  <2>4. thin \in [1..Len(groups) -> ToSet(thin)]
    BY <2>1, <2>3
  <2> QED BY <1>1, <2>1, <2>2, <2>4
<1>6. \A i \in DOMAIN groups : i \in full <=> at(i) # {}
  <2> SUFFICES ASSUME NEW i \in DOMAIN groups PROVE thin[i].targets # <<>> <=> at(i) # {}
    OBVIOUS
  <2>1. Turned(i, turn[i]) /\ IsList(thin[i].targets)
    BY <1>2, <1>3 DEF IsGroup
  <2> HIDE DEF thin, at, turn
  <2>2. thin[i].targets # <<>> <=> DOMAIN thin[i].targets # {}
    BY <2>1 DEF IsList
  <2> QED BY <2>1, <2>2
<1>7. \A i \in DOMAIN groups : thin[i].group = groups[i].group
  OBVIOUS
<1>8. refs \in SUBSET RefsIn(groups) /\ \A i \in DOMAIN groups : \A j : j \in at(i) <=> <<i, j>> \in refs
  <2>1. \A i \in DOMAIN groups : \A j : <<i, j>> \in refs => j \in DOMAIN groups[i].targets
    BY DEF RefsIn
  <2> QED BY <2>1
<1> HIDE DEF thin, full, at, turn, K
<1>18. PICK f : Picks(f, thin, full)
  BY <1>5, PickedFacts
<1>9. /\ f \in [1..Cardinality(full) -> full]
      /\ \A k \in 1..Cardinality(full) : K[k] = thin[f[k]]
      /\ \A k, l \in 1..Cardinality(full) : k < l => f[k] < f[l]
      /\ \A i \in full : \E k \in 1..Cardinality(full) : f[k] = i
  BY <1>4, <1>18 DEF Picks
<1>10. DOMAIN K = 1..Cardinality(full) /\ Cardinality(full) \in Nat /\ IsList(K)
  <2>1. Cardinality(full) \in Nat /\ K \in Seq(ToSet(thin)) /\ Len(K) = Cardinality(full)
    BY <1>4, <1>5, PickedFacts
  <2> QED BY <2>1, ListFacts
<1>11. \A k \in DOMAIN K : f[k] \in full /\ f[k] \in DOMAIN groups /\ f[k] \in Int
  BY <1>1, <1>5, <1>9, <1>10
<1>12. \A k, l \in DOMAIN K : f[k] = f[l] => k = l
  <2> SUFFICES ASSUME NEW k \in DOMAIN K, NEW l \in DOMAIN K, k # l PROVE f[k] # f[l]
    OBVIOUS
  <2>1. k < l \/ l < k
    BY <1>10
  <2>2. f[k] \in Int /\ f[l] \in Int
    BY <1>11
  <2> QED BY <1>9, <1>10, <2>1, <2>2
<1>13. IsGroups(K)
  BY <1>2, <1>9, <1>10, <1>11 DEF IsGroups
<1> DEFINE place(r) == <<f[r[1]], turn[f[r[1]]][r[2]]>>
<1>14. ASSUME NEW r \in RefsIn(K)
       PROVE  /\ r = <<r[1], r[2]>> /\ r[1] \in DOMAIN K
              /\ r[2] \in DOMAIN thin[f[r[1]]].targets
              /\ place(r) \in refs /\ RefAt(K, r) = RefAt(groups, place(r))
  <2>1. r = <<r[1], r[2]>> /\ r[1] \in DOMAIN K /\ r[2] \in DOMAIN K[r[1]].targets
    BY DEF RefsIn
  <2>2. K[r[1]] = thin[f[r[1]]]
    BY <1>9, <1>10, <2>1
  <2>3. Turned(f[r[1]], turn[f[r[1]]])
    BY <1>3, <1>11, <2>1
  <2>4. turn[f[r[1]]][r[2]] \in at(f[r[1]])
    BY <2>1, <2>2, <2>3
  <2>5. place(r) \in refs
    BY <1>8, <1>11, <2>1, <2>4
  <2>6. K[r[1]].targets[r[2]] = groups[f[r[1]]].targets[turn[f[r[1]]][r[2]]]
    BY <2>1, <2>2, <2>3
  <2>7. K[r[1]].group = groups[f[r[1]]].group
    BY <1>7, <1>11, <2>1, <2>2
  <2>8. RefAt(K, r) = RefAt(groups, place(r))
    BY <2>6, <2>7 DEF RefAt
  <2> QED BY <2>1, <2>2, <2>5, <2>8
<1>15. ASSUME NEW q \in refs PROVE \E r \in RefsIn(K) : place(r) = q
  <2>1. q = <<q[1], q[2]>> /\ q[1] \in DOMAIN groups
    BY <1>8 DEF RefsIn
  <2>2. q[2] \in at(q[1])
    BY <1>8, <2>1
  <2>3. q[1] \in full
    BY <1>6, <2>1, <2>2
  <2>4. PICK k \in 1..Cardinality(full) : f[k] = q[1]
    BY <1>9, <2>3
  <2>5. Turned(q[1], turn[q[1]])
    BY <1>3, <2>1
  <2>6. PICK l \in DOMAIN thin[q[1]].targets : turn[q[1]][l] = q[2]
    BY <2>2, <2>5
  <2>7. K[k] = thin[q[1]]
    BY <1>9, <2>4
  <2>8. <<k, l>> \in RefsIn(K)
    BY <1>10, <2>6, <2>7 DEF RefsIn
  <2>9. place(<<k, l>>) = <<q[1], q[2]>>
    BY <2>4, <2>6
  <2> QED BY <2>1, <2>8, <2>9
<1>16. AllTargets(K) = {RefAt(groups, r) : r \in refs}
  <2> HIDE DEF place
  <2>1. AllTargets(K) = {RefAt(K, r) : r \in RefsIn(K)}
    BY TargetsAtPlaces
  <2> QED BY <1>14, <1>15, <2>1
<1>17. ASSUME NoDuplicate(groups) PROVE NoDuplicate(K)
  <2> SUFFICES ASSUME NEW r \in RefsIn(K), NEW s \in RefsIn(K), IDAt(K, r) = IDAt(K, s) PROVE r = s
    BY DEF NoDuplicate
  <2>1. \A u \in RefsIn(K) : IDAt(K, u) = IDAt(groups, place(u))
    <3> SUFFICES ASSUME NEW u \in RefsIn(K) PROVE IDAt(K, u) = IDAt(groups, place(u))
      OBVIOUS
    <3> HIDE DEF place
    <3>1. RefAt(K, u) = RefAt(groups, place(u))
      BY <1>14
    <3>2. \A g, v : IDAt(g, v) = <<RefAt(g, v).group, RefAt(g, v).target.name>>
      BY DEF IDAt, RefAt
    <3> QED BY <3>1, <3>2
  <2>2. place(r) = place(s)
    <3> HIDE DEF place
    <3>1. place(r) \in RefsIn(groups) /\ place(s) \in RefsIn(groups)
      BY <1>8, <1>14
    <3>2. IDAt(groups, place(r)) = IDAt(groups, place(s))
      BY <2>1
    <3> QED BY <1>17, <3>1, <3>2 DEF NoDuplicate
  <2>3. f[r[1]] = f[s[1]] /\ turn[f[r[1]]][r[2]] = turn[f[s[1]]][s[2]]
    BY <2>2
  <2>4. r[1] = s[1]
    BY <1>12, <1>14, <2>3
  <2>5. r[2] = s[2]
    <3> DEFINE i == f[r[1]]
    <3>0. i \in DOMAIN groups
      BY <1>11, <1>14
    <3>1. Turned(i, turn[i])
      <4> HIDE DEF i, Turned
      <4> QED BY <1>3, <3>0
    <3>2. /\ r[2] \in DOMAIN thin[i].targets /\ s[2] \in DOMAIN thin[i].targets
          /\ turn[i][r[2]] = turn[i][s[2]]
      BY <1>14, <2>3, <2>4
    <3> HIDE DEF i
    <3> QED BY <3>1, <3>2
  <2> QED BY <1>14, <2>4, <2>5
<1> QED BY <1>13, <1>16, <1>17 DEF K

(* A set in some order. *)
LEMMA SetInOrder ==
  ASSUME NEW S, IsFiniteSet(S)
  PROVE  /\ SetToSeq(S) \in Seq(S)
         /\ ToSet(SetToSeq(S)) = S
         /\ \A i, j \in DOMAIN SetToSeq(S) : SetToSeq(S)[i] = SetToSeq(S)[j] => i = j
<1> DEFINE m == Cardinality(S)
           s == SetToSeq(S)
<1>1. m \in Nat /\ \E f : f \in Bijection(1..m, S)
  BY FS_CardinalityType DEF ExistsBijection
<1>2. PICK f \in Bijection(1..m, S) : TRUE
  BY <1>1
<1>3. f \in [1..m -> S] /\ IsInjective(f)
  BY <1>2 DEF Bijection, Injection, IsInjective
<1>4. s \in [1..m -> S] /\ IsInjective(s)
  BY <1>3 DEF SetToSeq
<1> HIDE DEF s
<1>5. \A i, j \in 1..m : s[i] = s[j] => i = j
  BY <1>4 DEF IsInjective
<1>6. IsFiniteSet(1..m) /\ Cardinality(1..m) = m
  <2>1. IsFiniteSet(1..m) /\ Cardinality(1..m) = IF 1 > m THEN 0 ELSE m - 1 + 1
    BY <1>1, FS_Interval
  <2> HIDE DEF m
  <2> QED BY <1>1, <2>1
<1>7. s \in Surjection(1..m, S)
  <2>1. s \in Injection(1..m, S)
    BY <1>4 DEF Injection, IsInjective
  <2> QED BY <1>6, <2>1, FS_Injection
<1>8. \A x \in S : \E i \in 1..m : s[i] = x
  BY <1>7 DEF Surjection
<1>9. s \in Seq(S) /\ DOMAIN s = 1..m
  BY <1>1, <1>4
<1>10. ToSet(s) = S
  BY <1>4, <1>8, <1>9 DEF ToSet
<1> QED BY <1>5, <1>9, <1>10 DEF s

-----------------------------------------------------------------------------
(* The targets of two lists of groups are those of the one and the other.     *)
LEMMA JoinedGroups ==
  ASSUME NEW a, NEW b, IsGroups(a), IsGroups(b)
  PROVE  /\ IsGroups(a \o b)
         /\ AllTargets(a \o b) = AllTargets(a) \cup AllTargets(b)
         /\ NoDuplicate(a) /\ NoDuplicate(b)
              /\ (\A x \in AllTargets(a), y \in AllTargets(b) : x.group # y.group)
              => NoDuplicate(a \o b)
<1> DEFINE T == ToSet(a) \cup ToSet(b)
           c == a \o b
<1>1. a \in Seq(T) /\ b \in Seq(T)
  BY DEF IsGroups, IsList
<1> HIDE DEF T
<1>2. /\ c \in Seq(T) /\ DOMAIN a = 1..Len(a) /\ DOMAIN b = 1..Len(b)
      /\ Len(a) \in Nat /\ Len(b) \in Nat /\ DOMAIN c = 1..(Len(a) + Len(b))
      /\ \A i \in DOMAIN a : c[i] = a[i]
      /\ \A i \in DOMAIN c \ DOMAIN a : i - Len(a) \in DOMAIN b /\ c[i] = b[i - Len(a)]
      /\ \A i \in DOMAIN b : Len(a) + i \in DOMAIN c \ DOMAIN a /\ c[Len(a) + i] = b[i]
  BY <1>1
<1> HIDE DEF c
<1>3. IsGroups(c)
  <2>1. IsList(c)
    BY <1>2, ListFacts
  <2> QED BY <1>2, <2>1 DEF IsGroups
<1> DEFINE Targets(g) == {[group |-> g.group, target |-> g.targets[j]] : j \in DOMAIN g.targets}
<1>4. \A x : x \in AllTargets(c) <=> x \in AllTargets(a) \cup AllTargets(b)
  <2>1. /\ AllTargets(a) = UNION {Targets(a[i]) : i \in DOMAIN a}
        /\ AllTargets(b) = UNION {Targets(b[i]) : i \in DOMAIN b}
        /\ AllTargets(c) = UNION {Targets(c[i]) : i \in DOMAIN c}
    BY DEF AllTargets
  <2> HIDE DEF Targets
  <2>2. \A x \in AllTargets(c) : x \in AllTargets(a) \cup AllTargets(b)
    BY <1>2, <2>1
  <2>3. \A x \in AllTargets(a) : x \in AllTargets(c)
    BY <1>2, <2>1
  <2>4. \A x \in AllTargets(b) : x \in AllTargets(c)
    BY <1>2, <2>1
  <2> QED BY <2>2, <2>3, <2>4
<1>5. ASSUME NoDuplicate(a), NoDuplicate(b),
             \A x \in AllTargets(a), y \in AllTargets(b) : x.group # y.group
      PROVE  NoDuplicate(c)
  <2> DEFINE Back(r) == IF r[1] \in DOMAIN a THEN r ELSE <<r[1] - Len(a), r[2]>>
  <2>1. ASSUME NEW r \in RefsIn(c)
        PROVE  /\ r = <<r[1], r[2]>> /\ r[1] \in DOMAIN c /\ r[2] \in DOMAIN c[r[1]].targets
               /\ r[1] \in DOMAIN a => /\ r \in RefsIn(a) /\ IDAt(c, r) = IDAt(a, r)
                                       /\ IDAt(a, r)[1] = RefAt(a, r).group
               /\ r[1] \notin DOMAIN a =>
                    /\ Back(r) \in RefsIn(b) /\ IDAt(c, r) = IDAt(b, Back(r))
                    /\ IDAt(b, Back(r))[1] = RefAt(b, Back(r)).group
    BY <1>2 DEF RefsIn, IDAt, RefAt
  <2> SUFFICES ASSUME NEW r \in RefsIn(c), NEW s \in RefsIn(c), IDAt(c, r) = IDAt(c, s) PROVE r = s
    BY DEF NoDuplicate
  <2>2. CASE r[1] \in DOMAIN a /\ s[1] \in DOMAIN a
    BY <1>5, <2>1, <2>2 DEF NoDuplicate
  <2>3. CASE r[1] \notin DOMAIN a /\ s[1] \notin DOMAIN a
    <3>1. Back(r) = Back(s)
      <4> HIDE DEF Back
      <4> QED BY <1>5, <2>1, <2>3 DEF NoDuplicate
    <3>2. r[1] - Len(a) = s[1] - Len(a) /\ r[2] = s[2]
      BY <2>3, <3>1
    <3>3. r[1] \in Int /\ s[1] \in Int
      <4>1. r[1] \in DOMAIN c /\ s[1] \in DOMAIN c
        BY <2>1
      <4>2. DOMAIN c \subseteq Int
        BY <1>2
      <4> QED BY <4>1, <4>2
    <3>4. r[1] = s[1]
      BY <1>2, <3>2, <3>3
    <3> QED BY <2>1, <3>2, <3>4
  <2>4. ASSUME NEW u \in RefsIn(c), NEW v \in RefsIn(c), u[1] \in DOMAIN a, v[1] \notin DOMAIN a
        PROVE  IDAt(c, u) # IDAt(c, v)
    <3>1. RefAt(a, u) \in AllTargets(a) /\ RefAt(b, Back(v)) \in AllTargets(b)
      <4> HIDE DEF Back
      <4> QED BY <2>1, <2>4, TargetsAtPlaces
    <3>2. RefAt(a, u).group # RefAt(b, Back(v)).group
      <4> HIDE DEF Back
      <4> QED BY <1>5, <3>1
    <3> HIDE DEF Back
    <3> QED BY <2>1, <2>4, <3>2
  <2> QED BY <2>2, <2>3, <2>4
<1> QED BY <1>3, <1>4, <1>5 DEF c

(* Rendered as it is, a list of groups stays what it is.                      *)
LEMMA RenderedAsIs == ASSUME NEW groups, IsGroups(groups) PROVE Rendered(groups, AsIs) = groups
<1>1. DOMAIN groups = 1..Len(groups) /\ groups = [i \in DOMAIN groups |-> groups[i]]
  BY DEF IsGroups, IsList
<1>2. ASSUME NEW i \in DOMAIN groups
      PROVE  [group |-> groups[i].group,
              targets |-> [j \in DOMAIN groups[i].targets |-> AsIs(groups[i].targets[j])]] = groups[i]
  <2>1. groups[i] = [group |-> groups[i].group, targets |-> groups[i].targets]
        /\ groups[i].targets \in Seq(ToSet(groups[i].targets))
    BY DEF IsGroups, IsGroup, IsList
  <2>2. groups[i].targets = [j \in DOMAIN groups[i].targets |-> groups[i].targets[j]]
    BY <2>1
  <2> QED BY <2>1, <2>2 DEF AsIs
<1> QED BY <1>1, <1>2 DEF Rendered

(* A target loses its two lists. *)
LEMMA Sanitized ==
  ASSUME NEW t, IsTarget(t)
  PROVE  SanitizeTarget(t)
           = [name |-> t.name, host |-> t.host, probe |-> t.probe, slaves |-> <<>>, alerts |-> <<>>]
<1> DEFINE v == [t EXCEPT !.slaves = <<>>]
<1>1. t = [name |-> t.name, host |-> t.host, probe |-> t.probe, slaves |-> t.slaves, alerts |-> t.alerts]
  BY DEF IsTarget
<1>2. v = [name |-> t.name, host |-> t.host, probe |-> t.probe, slaves |-> <<>>, alerts |-> t.alerts]
  BY <1>1
<1>3. SanitizeTarget(t) = [v EXCEPT !.alerts = <<>>]
  BY DEF SanitizeTarget
<1> HIDE DEF v
<1> QED BY <1>2, <1>3

(* A target as it is shipped. *)
Shipped(ref) == [group |-> ref.group, target |-> SanitizeTarget(ref.target)]

(* Rendered for the wire it has the same places and identities.               *)
LEMMA RenderedForTheWire ==
  ASSUME NEW groups, IsGroups(groups)
  PROVE  LET sent == Rendered(groups, SanitizeTarget)
         IN  /\ IsGroups(sent) /\ RefsIn(sent) = RefsIn(groups)
             /\ \A r \in RefsIn(groups) : RefAt(sent, r) = Shipped(RefAt(groups, r))
             /\ NoDuplicate(groups) => NoDuplicate(sent)
<1> DEFINE sent == Rendered(groups, SanitizeTarget)
<1>1. DOMAIN groups = 1..Len(groups) /\ Len(groups) \in Nat
      /\ \A i \in DOMAIN groups : IsGroup(groups[i])
  BY DEF IsGroups, IsList
<1>2. /\ DOMAIN sent = DOMAIN groups /\ sent = [i \in 1..Len(groups) |-> sent[i]]
      /\ \A i \in DOMAIN groups :
        /\ sent[i] = [group |-> groups[i].group,
                      targets |-> [j \in DOMAIN groups[i].targets |-> SanitizeTarget(groups[i].targets[j])]]
        /\ sent[i].group = groups[i].group
        /\ DOMAIN sent[i].targets = DOMAIN groups[i].targets
        /\ \A j \in DOMAIN groups[i].targets :
             sent[i].targets[j] = SanitizeTarget(groups[i].targets[j])
  BY <1>1 DEF Rendered
<1> HIDE DEF sent
<1>3. ASSUME NEW i \in DOMAIN groups, NEW j \in DOMAIN groups[i].targets
      PROVE  IsTarget(SanitizeTarget(groups[i].targets[j]))
             /\ SanitizeTarget(groups[i].targets[j]).name = groups[i].targets[j].name
  <2> DEFINE t == groups[i].targets[j]
             u == SanitizeTarget(t)
  <2>1. IsTarget(t)
    BY <1>1 DEF IsGroup
  <2> HIDE DEF t
  <2>2. u = [name |-> t.name, host |-> t.host, probe |-> t.probe, slaves |-> <<>>, alerts |-> <<>>]
    BY <2>1, Sanitized
  <2>3. IsList(<<>>)
    BY DEF IsList
  <2> QED BY <2>2, <2>3 DEF IsTarget, t
<1>4. ASSUME NEW i \in DOMAIN groups PROVE IsGroup(sent[i])
  <2> DEFINE G == groups[i].targets
             W == sent[i].targets
  <2>1. G \in Seq(ToSet(G))
    BY <1>1 DEF IsGroup, IsList
  <2>2. W = [j \in 1..Len(G) |-> SanitizeTarget(G[j])] /\ Len(G) \in Nat /\ DOMAIN G = 1..Len(G)
    <3>1. Len(G) \in Nat /\ DOMAIN G = 1..Len(G)
      BY <2>1
    <3>2. sent[i] = [group |-> groups[i].group,
                     targets |-> [j \in DOMAIN G |-> SanitizeTarget(G[j])]]
      BY <1>2
    <3>3. W = [j \in DOMAIN G |-> SanitizeTarget(G[j])]
      BY <3>2
    <3> HIDE DEF G, W
    <3> QED BY <3>1, <3>3
  <2>5. sent[i] = [group |-> sent[i].group, targets |-> W]
    <3> DEFINE X == [j \in DOMAIN groups[i].targets |-> SanitizeTarget(groups[i].targets[j])]
    <3>1. sent[i] = [group |-> groups[i].group, targets |-> X]
      BY <1>2
    <3> HIDE DEF X
    <3> QED BY <3>1
  <2> HIDE DEF G, W
  <2>3. IsList(W)
    <3>1. W \in Seq({SanitizeTarget(G[j]) : j \in 1..Len(G)})
      BY <2>2
    <3> QED BY <3>1, ListFacts
  <2>4. \A j \in DOMAIN W : IsTarget(W[j])
    BY <1>2, <1>3 DEF W, G
  <2> QED BY <2>3, <2>4, <2>5 DEF IsGroup, W
<1>5. IsGroups(sent)
  <2>1. sent \in Seq({sent[i] : i \in 1..Len(groups)})
    BY <1>1, <1>2
  <2>2. IsList(sent)
    BY <2>1, ListFacts
  <2> QED BY <1>2, <1>4, <2>2 DEF IsGroups
<1>6. RefsIn(sent) = RefsIn(groups)
  <2>1. \A i \in DOMAIN groups : {i} \X DOMAIN sent[i].targets = {i} \X DOMAIN groups[i].targets
    BY <1>2
  <2>2. {{i} \X DOMAIN sent[i].targets : i \in DOMAIN groups}
          = {{i} \X DOMAIN groups[i].targets : i \in DOMAIN groups}
    BY <2>1
  <2>3. DOMAIN sent = DOMAIN groups
    BY <1>2
  <2> QED BY <2>2, <2>3 DEF RefsIn
<1>7. ASSUME NEW r \in RefsIn(groups)
      PROVE  RefAt(sent, r) = Shipped(RefAt(groups, r)) /\ IDAt(sent, r) = IDAt(groups, r)
  <2>1. r[1] \in DOMAIN groups /\ r[2] \in DOMAIN groups[r[1]].targets
    BY DEF RefsIn
  <2>2. /\ sent[r[1]].group = groups[r[1]].group
        /\ sent[r[1]].targets[r[2]] = SanitizeTarget(groups[r[1]].targets[r[2]])
        /\ sent[r[1]].targets[r[2]].name = groups[r[1]].targets[r[2]].name
    <3> DEFINE i == r[1]
               j == r[2]
    <3>1. i \in DOMAIN groups /\ j \in DOMAIN groups[i].targets
      BY <2>1
    <3> HIDE DEF i, j
    <3>2. sent[i].group = groups[i].group /\ sent[i].targets[j] = SanitizeTarget(groups[i].targets[j])
      BY <1>2, <3>1
    <3>3. SanitizeTarget(groups[i].targets[j]).name = groups[i].targets[j].name
      BY <1>3, <3>1
    <3> QED BY <3>2, <3>3 DEF i, j
  <2> QED BY <2>2 DEF RefAt, Shipped, IDAt
<1>8. NoDuplicate(groups) => NoDuplicate(sent)
  BY <1>6, <1>7 DEF NoDuplicate
<1> QED BY <1>5, <1>6, <1>7, <1>8 DEF sent

-----------------------------------------------------------------------------
(* The views of a config and a peering.                                       *)

(* A peer as a target. *)
HealthRef(c, p, n) == [group |-> HealthGroup, target |-> HealthTarget(c, p, n)]

(* The health group of the peers but one. *)
LEMMA HealthGroupFacts ==
  ASSUME NEW c, IsList(c.alerts), NEW p, IsFiniteSet(DOMAIN p), NEW e
  PROVE  LET health == HealthTargets(c, p, e)
             peers == DOMAIN p \ {e}
         IN  /\ IsGroups(health) /\ NoDuplicate(health)
             /\ AllTargets(health) = {HealthRef(c, p, n) : n \in peers}
             /\ health = <<>> <=> peers = {}
<1> DEFINE S == DOMAIN p \ {e}
           peers == SetToSeq(S)
           ts == [i \in DOMAIN peers |-> HealthTarget(c, p, peers[i])]
           g == [group |-> HealthGroup, targets |-> ts]
           health == HealthTargets(c, p, e)
<1>1. IsFiniteSet(S)
  BY FS_Subset
<1> HIDE DEF S
<1>2. /\ peers \in Seq(S) /\ ToSet(peers) = S
      /\ \A i, j \in DOMAIN peers : peers[i] = peers[j] => i = j
  BY <1>1, SetInOrder
<1>3. health = IF peers = <<>> THEN <<>> ELSE <<g>>
  BY DEF HealthTargets, S
<1>4. peers = <<>> <=> S = {}
  BY <1>2 DEF ToSet
<1>5. /\ DOMAIN peers = 1..Len(peers) /\ Len(peers) \in Nat
      /\ \A i \in DOMAIN peers : peers[i] \in S
      /\ \A n \in S : \E i \in DOMAIN peers : peers[i] = n
  BY <1>2 DEF ToSet
<1> HIDE DEF peers
<1>6. ASSUME NEW n PROVE HealthTarget(c, p, n).name = n /\ IsTarget(HealthTarget(c, p, n))
  <2>1. HealthTarget(c, p, n)
          = [name |-> n, host |-> p[n], probe |-> HealthProbe, slaves |-> <<>>, alerts |-> c.alerts]
    BY DEF HealthTarget
  <2>2. IsList(<<>>)
    BY DEF IsList
  <2> QED BY <2>1, <2>2 DEF IsTarget
<1>7. IsList(ts) /\ DOMAIN ts = DOMAIN peers /\ \A i \in DOMAIN ts : ts[i] = HealthTarget(c, p, peers[i])
  <2>1. ts \in Seq({HealthTarget(c, p, n) : n \in S})
    BY <1>5
  <2>2. IsList(ts)
    <3> HIDE DEF ts
    <3> QED BY <2>1, ListFacts
  <2> QED BY <2>2
<1> HIDE DEF ts
<1>8. IsGroup(g) /\ g.group = HealthGroup /\ g.targets = ts
  BY <1>6, <1>7 DEF IsGroup
<1> HIDE DEF g
<1>9. IsGroups(<<>>) /\ IsGroups(<<g>>)
  <2>1. IsList(<<>>) /\ IsList(<<g>>)
    <3>1. <<g>> \in Seq({g}) /\ <<>> \in Seq({g})
      OBVIOUS
    <3> QED BY <3>1, ListFacts
  <2> QED BY <1>8, <2>1 DEF IsGroups
<1>10. AllTargets(<<>>) = {} /\ NoDuplicate(<<>>)
  BY DEF AllTargets, NoDuplicate, RefsIn
<1>11. RefsIn(<<g>>) = {1} \X DOMAIN ts
  BY <1>8 DEF RefsIn
<1>12. AllTargets(<<g>>) = {HealthRef(c, p, n) : n \in S}
  <2>1. AllTargets(<<g>>) = {RefAt(<<g>>, r) : r \in {1} \X DOMAIN ts}
    BY <1>11, TargetsAtPlaces
  <2>2. \A r \in {1} \X DOMAIN ts : r[2] \in DOMAIN peers /\ RefAt(<<g>>, r) = HealthRef(c, p, peers[r[2]])
    BY <1>7, <1>8 DEF RefAt, HealthRef
  <2>3. \A i \in DOMAIN peers : <<1, i>> \in {1} \X DOMAIN ts /\ <<1, i>>[2] = i
    BY <1>7
  <2>4. ASSUME NEW x \in AllTargets(<<g>>) PROVE x \in {HealthRef(c, p, n) : n \in S}
    BY <1>5, <2>1, <2>2
  <2>5. ASSUME NEW n \in S PROVE HealthRef(c, p, n) \in AllTargets(<<g>>)
    <3>1. PICK i \in DOMAIN peers : peers[i] = n
      BY <1>5
    <3>2. RefAt(<<g>>, <<1, i>>) = HealthRef(c, p, n)
      BY <2>2, <2>3, <3>1
    <3> QED BY <2>1, <2>3, <3>2
  <2> QED BY <2>4, <2>5
<1>13. NoDuplicate(<<g>>)
  <2> SUFFICES ASSUME NEW r \in {1} \X DOMAIN ts, NEW s \in {1} \X DOMAIN ts,
                      IDAt(<<g>>, r) = IDAt(<<g>>, s) PROVE r = s
    BY <1>11 DEF NoDuplicate
  <2>1. r = <<1, r[2]>> /\ s = <<1, s[2]>> /\ r[2] \in DOMAIN peers /\ s[2] \in DOMAIN peers
    BY <1>7
  <2>2. IDAt(<<g>>, r) = <<HealthGroup, peers[r[2]]>> /\ IDAt(<<g>>, s) = <<HealthGroup, peers[s[2]]>>
    BY <1>6, <1>7, <1>8, <2>1 DEF IDAt
  <2> QED BY <1>2, <2>1, <2>2 DEF peers
<1> QED BY <1>3, <1>4, <1>9, <1>10, <1>12, <1>13 DEF S, health

(* What reading and validating a config give the views of it. *)
Accepted(c) ==
  /\ IsGroups(c.groups) /\ IsList(c.alerts)
  /\ NoDuplicate(c.groups)
  /\ \A ref \in AllTargets(c.groups) : ref.group # HealthGroup

(* Every config a cluster runs was accepted. *)
LEMMA ConfigsAreAccepted == ASSUME NEW c \in Configs PROVE Accepted(c)
<1>1. c \in Files /\ Validate(c)
  BY DEF Configs
<1>2. IsGroups(c.groups) /\ IsList(c.alerts)
  BY <1>1, FilesAssumption
<1>3. \A ref \in AllTargets(c.groups) : ref.group # HealthGroup
  BY <1>1 DEF Validate, AllTargets
<1> QED BY <1>1, <1>2, <1>3 DEF Accepted, Validate

(* What the master runs: its own targets and every peer.                      *)
LEMMA LocalView ==
  ASSUME NEW c, Accepted(c), NEW p, IsFiniteSet(DOMAIN p), "" \notin DOMAIN p
  PROVE  LET groups == LocalTargets(c, p).groups
         IN  /\ IsGroups(groups) /\ NoDuplicate(groups)
             /\ AllTargets(groups) = {ref \in AllTargets(c.groups) : ref.target.slaves = <<>>}
                                       \cup {HealthRef(c, p, n) : n \in DOMAIN p}
<1> DEFINE own == {r \in RefsIn(c.groups) : c.groups[r[1]].targets[r[2]].slaves = <<>>}
           kept == Kept(c.groups, own)
           health == HealthTargets(c, p, "")
<1>1. LocalTargets(c, p).groups = kept \o health
  <2>1. Rendered(c.groups, AsIs) = c.groups
    BY RenderedAsIs DEF Accepted
  <2>2. LocalTargets(c, p).groups = Filtered(c.groups, LAMBDA t : t.slaves = <<>>, AsIs) \o health
    BY DEF LocalTargets
  <2> QED BY <2>1, <2>2 DEF Filtered
<1>2. /\ IsGroups(kept) /\ NoDuplicate(kept)
      /\ AllTargets(kept) = {RefAt(c.groups, r) : r \in own}
  BY KeptFacts DEF Accepted
<1>3. /\ IsGroups(health) /\ NoDuplicate(health)
      /\ AllTargets(health) = {HealthRef(c, p, n) : n \in DOMAIN p}
  <2>1. DOMAIN p \ {""} = DOMAIN p
    OBVIOUS
  <2>2. IsList(c.alerts)
    BY DEF Accepted
  <2>3. /\ IsGroups(health) /\ NoDuplicate(health)
        /\ AllTargets(health) = {HealthRef(c, p, n) : n \in DOMAIN p \ {""}}
    BY <2>2, HealthGroupFacts
  <2> HIDE DEF health
  <2> QED BY <2>1, <2>3
<1>4. AllTargets(kept) = {ref \in AllTargets(c.groups) : ref.target.slaves = <<>>}
  <2>1. \A r : RefAt(c.groups, r).target = c.groups[r[1]].targets[r[2]]
    BY DEF RefAt
  <2>2. AllTargets(c.groups) = {RefAt(c.groups, r) : r \in RefsIn(c.groups)}
    BY TargetsAtPlaces
  <2> HIDE DEF kept
  <2> QED BY <1>2, <2>1, <2>2
<1>5. \A x \in AllTargets(kept), y \in AllTargets(health) : x.group # y.group
  <2>1. \A x \in AllTargets(kept) : x.group # HealthGroup
    BY <1>4 DEF Accepted
  <2>2. \A y \in AllTargets(health) : y.group = HealthGroup
    <3>1. \A n : HealthRef(c, p, n).group = HealthGroup
      BY DEF HealthRef
    <3> HIDE DEF health
    <3> QED BY <1>3, <3>1
  <2> QED BY <2>1, <2>2
<1> HIDE DEF kept, health
<1>6. /\ IsGroups(kept \o health) /\ NoDuplicate(kept \o health)
      /\ AllTargets(kept \o health) = AllTargets(kept) \cup AllTargets(health)
  BY <1>2, <1>3, <1>5, JoinedGroups
<1> QED BY <1>1, <1>3, <1>4, <1>6

(* The targets at some places, as they are shipped. *)
LEMMA ShippedTargets ==
  ASSUME NEW groups, IsGroups(groups), NoDuplicate(groups), NEW refs \in SUBSET RefsIn(groups)
  PROVE  LET kept == Kept(Rendered(groups, SanitizeTarget), refs)
         IN  /\ IsGroups(kept) /\ NoDuplicate(kept)
             /\ AllTargets(kept) = {Shipped(RefAt(groups, r)) : r \in refs}
<1> DEFINE sent == Rendered(groups, SanitizeTarget)
<1>1. /\ IsGroups(sent) /\ RefsIn(sent) = RefsIn(groups) /\ NoDuplicate(sent)
      /\ \A r \in RefsIn(groups) : RefAt(sent, r) = Shipped(RefAt(groups, r))
  BY RenderedForTheWire
<1> HIDE DEF sent
<1>2. /\ IsGroups(Kept(sent, refs)) /\ NoDuplicate(Kept(sent, refs))
      /\ AllTargets(Kept(sent, refs)) = {RefAt(sent, r) : r \in refs}
  BY <1>1, KeptFacts
<1>3. {RefAt(sent, r) : r \in refs} = {Shipped(RefAt(groups, r)) : r \in refs}
  BY <1>1
<1> QED BY <1>2, <1>3 DEF sent

(* What a slave runs: the targets it is to see, and every peer but itself.    *)
LEMMA SlaveView ==
  ASSUME NEW c, Accepted(c), NEW p, IsFiniteSet(DOMAIN p), NEW n
  PROVE  LET groups == BuildShim(c, p, n).groups
             seen == {ref \in AllTargets(c.groups) : TargetVisibleToSlave(ref.target, n)}
         IN  /\ IsGroups(groups) /\ NoDuplicate(groups)
             /\ AllTargets(groups) = {Shipped(ref) : ref \in seen}
                                       \cup {Shipped(HealthRef(c, p, m)) : m \in DOMAIN p \ {n}}
<1> DEFINE seen == {ref \in AllTargets(c.groups) : TargetVisibleToSlave(ref.target, n)}
           visible == {r \in RefsIn(c.groups) : TargetVisibleToSlave(c.groups[r[1]].targets[r[2]], n)}
           own == Kept(Rendered(c.groups, SanitizeTarget), visible)
           health == HealthTargets(c, p, n)
           mesh == Kept(Rendered(health, SanitizeTarget), RefsIn(health))
           resp == own \o mesh
           others == {r \in RefsIn(resp) : IDAt(resp, r) # <<HealthGroup, n>>}
           peers == {Shipped(HealthRef(c, p, m)) : m \in DOMAIN p \ {n}}
<1>1. BuildShim(c, p, n).groups = Kept(resp, others)
  <2>1. Filtered(health, LAMBDA t : TRUE, SanitizeTarget) = mesh
    BY DEF Filtered
  <2>2. Filtered(c.groups, LAMBDA t : TargetVisibleToSlave(t, n), SanitizeTarget) = own
    BY DEF Filtered
  <2>3. BuildClusterConfig(c, p, n).groups
          = Filtered(c.groups, LAMBDA t : TargetVisibleToSlave(t, n), SanitizeTarget)
              \o Filtered(health, LAMBDA t : TRUE, SanitizeTarget)
    BY DEF BuildClusterConfig
  <2>4. BuildClusterConfig(c, p, n).groups = resp
    BY <2>1, <2>2, <2>3
  <2>5. BuildShim(c, p, n).groups = DropSelfFromHealthGroup(BuildClusterConfig(c, p, n).groups, n)
    BY DEF BuildShim
  <2> HIDE DEF resp
  <2> QED BY <2>4, <2>5 DEF DropSelfFromHealthGroup
<1>2. IsGroups(own) /\ NoDuplicate(own) /\ AllTargets(own) = {Shipped(ref) : ref \in seen}
  <2>1. /\ IsGroups(own) /\ NoDuplicate(own)
        /\ AllTargets(own) = {Shipped(RefAt(c.groups, r)) : r \in visible}
    BY ShippedTargets DEF Accepted
  <2>2. seen = {RefAt(c.groups, r) : r \in visible}
    <3>1. AllTargets(c.groups) = {RefAt(c.groups, r) : r \in RefsIn(c.groups)}
      BY TargetsAtPlaces
    <3>2. \A r : RefAt(c.groups, r).target = c.groups[r[1]].targets[r[2]]
      BY DEF RefAt
    <3> QED BY <3>1, <3>2
  <2> HIDE DEF own, seen, visible
  <2> QED BY <2>1, <2>2
<1>3. IsGroups(mesh) /\ NoDuplicate(mesh) /\ AllTargets(mesh) = peers
  <2>1. IsList(c.alerts)
    BY DEF Accepted
  <2>2. /\ IsGroups(health) /\ NoDuplicate(health)
        /\ AllTargets(health) = {HealthRef(c, p, m) : m \in DOMAIN p \ {n}}
    BY <2>1, HealthGroupFacts
  <2> HIDE DEF health
  <2>3. /\ IsGroups(mesh) /\ NoDuplicate(mesh)
        /\ AllTargets(mesh) = {Shipped(RefAt(health, r)) : r \in RefsIn(health)}
    BY <2>2, ShippedTargets
  <2>4. AllTargets(health) = {RefAt(health, r) : r \in RefsIn(health)}
    BY TargetsAtPlaces
  <2> HIDE DEF mesh
  <2> QED BY <2>2, <2>3, <2>4
<1>4. \A x \in AllTargets(own) : x.group # HealthGroup
  <2>1. \A ref : Shipped(ref).group = ref.group
    BY DEF Shipped
  <2> HIDE DEF own
  <2> QED BY <1>2, <2>1 DEF Accepted
<1>5. \A y \in AllTargets(mesh) : y.group = HealthGroup /\ \E m \in DOMAIN p \ {n} : y.target.name = m
  <2>1. \A m : Shipped(HealthRef(c, p, m)).group = HealthGroup
    BY DEF Shipped, HealthRef
  <2>2. ASSUME NEW m PROVE Shipped(HealthRef(c, p, m)).target.name = m
    <3> DEFINE t == HealthTarget(c, p, m)
    <3>1. SanitizeTarget(t).name = m
      <4>1. t = [name |-> m, host |-> p[m], probe |-> HealthProbe, slaves |-> <<>>, alerts |-> c.alerts]
        BY DEF HealthTarget
      <4>2. IsTarget(t)
        <5>1. IsList(<<>>)
          BY DEF IsList
        <5> HIDE DEF t
        <5> QED BY <4>1, <5>1 DEF IsTarget, Accepted
      <4> HIDE DEF t
      <4> QED BY <4>1, <4>2, Sanitized
    <3> HIDE DEF t
    <3> QED BY <3>1 DEF Shipped, HealthRef, t
  <2> HIDE DEF mesh
  <2> QED BY <1>3, <2>1, <2>2
<1> HIDE DEF own, mesh, seen, peers
<1>6. /\ IsGroups(resp) /\ NoDuplicate(resp)
      /\ AllTargets(resp) = AllTargets(own) \cup AllTargets(mesh)
  <2>1. \A x \in AllTargets(own), y \in AllTargets(mesh) : x.group # y.group
    BY <1>4, <1>5
  <2> QED BY <1>2, <1>3, <2>1, JoinedGroups
<1> HIDE DEF resp
<1>7. others = RefsIn(resp)
  <2> SUFFICES ASSUME NEW r \in RefsIn(resp) PROVE IDAt(resp, r) # <<HealthGroup, n>>
    OBVIOUS
  <2>1. RefAt(resp, r) \in AllTargets(resp)
    BY TargetsAtPlaces
  <2>2. RefAt(resp, r).group # HealthGroup \/ RefAt(resp, r).target.name # n
    BY <1>4, <1>5, <1>6, <2>1
  <2> QED BY <2>2 DEF RefAt, IDAt
<1>8. /\ IsGroups(Kept(resp, others)) /\ NoDuplicate(Kept(resp, others))
      /\ AllTargets(Kept(resp, others)) = AllTargets(resp)
  <2>1. /\ IsGroups(Kept(resp, others)) /\ NoDuplicate(Kept(resp, others))
        /\ AllTargets(Kept(resp, others)) = {RefAt(resp, r) : r \in RefsIn(resp)}
    <3> HIDE DEF others
    <3> QED BY <1>6, <1>7, KeptFacts
  <2> HIDE DEF others
  <2> QED BY <2>1, TargetsAtPlaces
<1> QED BY <1>1, <1>2, <1>3, <1>6, <1>8 DEF seen, peers

-----------------------------------------------------------------------------
(* What holds in every state of the mesh. *)
MeshIInv == Ownership /\ config \in Configs

(* The config's own targets. *)
Own == AllTargets(config.groups)

(* A peer at its address. *)
Peer(n) == HealthRef(config, Peering, n)

(* The peers are slaves, finitely many, and not the master.                   *)
LEMMA PeersFacts ==
  ASSUME MeshIInv
  PROVE  /\ DOMAIN Peering = Peers /\ Peers \subseteq Registered /\ Registered \subseteq Names
         /\ IsFiniteSet(DOMAIN Peering) /\ "" \notin Peers /\ config.source \notin Registered
         /\ Accepted(config)
<1>1. DOMAIN Peering = Peers /\ Peers \subseteq Registered
  BY DEF Peering, Peers, Registered
<1>2. Registered \subseteq Names
  BY DEF MeshIInv, Ownership, TypeOK, Registered
<1>3. config.source \notin Names /\ "" \notin Names
  BY MeshAssumption DEF MeshIInv, Configs
<1>4. IsFiniteSet(DOMAIN Peering)
  BY <1>1, <1>2, RegistryAssumption, FS_Subset
<1>5. Accepted(config)
  BY ConfigsAreAccepted DEF MeshIInv
<1> QED BY <1>1, <1>2, <1>3, <1>4, <1>5

(* The identities of the two kinds of targets, and that the wire keeps them.  *)
LEMMA Identities ==
  ASSUME MeshIInv
  PROVE  /\ \A ref \in Own : ref.group # HealthGroup /\ IsTarget(ref.target)
                             /\ ID(Shipped(ref)) = ID(ref)
         /\ \A ref, other \in Own : ID(ref) = ID(other) => ref = other
         /\ \A n : /\ ID(Peer(n)) = <<HealthGroup, n>> /\ ID(Shipped(Peer(n))) = <<HealthGroup, n>>
                   /\ IsTarget(Peer(n).target)
<1>1. Accepted(config)
  BY PeersFacts
<1>2. ASSUME NEW ref, IsTarget(ref.target) PROVE ID(Shipped(ref)) = ID(ref)
  BY <1>2, Sanitized DEF ID, Shipped
<1>3. ASSUME NEW ref \in Own PROVE IsTarget(ref.target)
  <2>1. PICK r \in RefsIn(config.groups) : ref = RefAt(config.groups, r)
    BY TargetsAtPlaces DEF Own
  <2>2. r[1] \in DOMAIN config.groups /\ r[2] \in DOMAIN config.groups[r[1]].targets
    BY DEF RefsIn
  <2>3. IsTarget(config.groups[r[1]].targets[r[2]])
    BY <1>1, <2>2 DEF Accepted, IsGroups, IsGroup
  <2> QED BY <2>1, <2>3 DEF RefAt
<1>4. ASSUME NEW ref \in Own, NEW other \in Own, ID(ref) = ID(other) PROVE ref = other
  <2>1. PICK r \in RefsIn(config.groups) : ref = RefAt(config.groups, r)
    BY TargetsAtPlaces DEF Own
  <2>2. PICK s \in RefsIn(config.groups) : other = RefAt(config.groups, s)
    BY TargetsAtPlaces DEF Own
  <2>3. \A v : IDAt(config.groups, v) = ID(RefAt(config.groups, v))
    BY DEF IDAt, RefAt, ID
  <2>4. IDAt(config.groups, r) = IDAt(config.groups, s)
    BY <1>4, <2>1, <2>2, <2>3
  <2> QED BY <1>1, <2>1, <2>2, <2>4 DEF Accepted, NoDuplicate
<1>5. ASSUME NEW n PROVE IsTarget(Peer(n).target) /\ ID(Peer(n)) = <<HealthGroup, n>>
  <2>1. Peer(n).target = [name |-> n, host |-> Peering[n], probe |-> HealthProbe, slaves |-> <<>>,
                          alerts |-> config.alerts] /\ Peer(n).group = HealthGroup
    BY DEF Peer, HealthRef, HealthTarget
  <2>2. IsList(<<>>) /\ IsList(config.alerts)
    BY <1>1 DEF IsList, Accepted
  <2> QED BY <2>1, <2>2 DEF IsTarget, ID
<1>6. \A ref \in Own : ref.group # HealthGroup
  BY <1>1 DEF Accepted, Own
<1> QED BY <1>2, <1>3, <1>4, <1>5, <1>6

(* What the nodes run. *)
LEMMA RunsFacts ==
  ASSUME MeshIInv
  PROVE  /\ Runs(config.source) = {ref \in Own : ref.target.slaves = <<>>} \cup {Peer(n) : n \in Peers}
         /\ \A m \in Registered :
              Runs(m) = {Shipped(ref) : ref \in {r \in Own : TargetVisibleToSlave(r.target, m)}}
                          \cup {Shipped(Peer(n)) : n \in Peers \ {m}}
<1>1. /\ DOMAIN Peering = Peers /\ IsFiniteSet(DOMAIN Peering) /\ "" \notin DOMAIN Peering
      /\ config.source \notin Registered /\ Accepted(config)
  BY PeersFacts
<1>2. ViewOf(config.source) = LocalTargets(config, Peering)
  BY DEF ViewOf
<1>3. \A m \in Registered : ViewOf(m) = BuildShim(config, Peering, m)
  BY <1>1 DEF ViewOf
<1>4. Runs(config.source) = {ref \in Own : ref.target.slaves = <<>>} \cup {Peer(n) : n \in Peers}
  BY <1>1, <1>2, LocalView DEF Runs, Own, Peer
<1>5. ASSUME NEW m \in Registered
      PROVE  Runs(m) = {Shipped(ref) : ref \in {r \in Own : TargetVisibleToSlave(r.target, m)}}
                          \cup {Shipped(Peer(n)) : n \in Peers \ {m}}
  BY <1>1, <1>3, SlaveView DEF Runs, Own, Peer
<1> QED BY <1>4, <1>5

(* Their identities. *)
LEMMA RunsByIdentity ==
  ASSUME MeshIInv
  PROVE  /\ \A id : id \in IDs(Runs(config.source)) <=>
              \/ \E ref \in Own : id = ID(ref) /\ ref.target.slaves = <<>>
              \/ \E n \in Peers : id = <<HealthGroup, n>>
         /\ \A m \in Registered : \A id : id \in IDs(Runs(m)) <=>
              \/ \E ref \in Own : id = ID(ref) /\ TargetVisibleToSlave(ref.target, m)
              \/ \E n \in Peers \ {m} : id = <<HealthGroup, n>>
<1>1. \A id, R : id \in IDs(R) <=> \E r \in R : id = ID(r)
  BY DEF IDs
<1>2. \A id : id \in IDs(Runs(config.source)) <=>
              \/ \E ref \in Own : id = ID(ref) /\ ref.target.slaves = <<>>
              \/ \E n \in Peers : id = <<HealthGroup, n>>
  BY <1>1, RunsFacts, Identities
<1>3. ASSUME NEW m \in Registered, NEW id
      PROVE  id \in IDs(Runs(m)) <=>
              \/ \E ref \in Own : id = ID(ref) /\ TargetVisibleToSlave(ref.target, m)
              \/ \E n \in Peers \ {m} : id = <<HealthGroup, n>>
  BY <1>1, RunsFacts, Identities
<1> QED BY <1>2, <1>3

(* Every target the API lists is probed by those it names.                    *)
LEMMA ProbedAsListed ==
  ASSUME MeshIInv, NEW ref \in ListTargets
  PROVE  {n \in Nodes : ID(ref) \in IDs(Runs(n))} = SourcesFor(ref)
<1>1. /\ Peers \subseteq Registered /\ config.source \notin Registered
      /\ Nodes = {config.source} \cup Registered
  BY PeersFacts DEF Nodes
<1>2. CASE ref \in Own
  <2>1. ID(ref)[1] # HealthGroup /\ ref.group # HealthGroup
    BY <1>2, Identities DEF ID
  <2>2. SourcesFor(ref) = IF ref.target.slaves = <<>> THEN {config.source} \cup Registered
                          ELSE Registered \cap ToSet(ref.target.slaves)
    BY <2>1 DEF SourcesFor, EffectiveSources
  <2>3. ID(ref) \in IDs(Runs(config.source)) <=> ref.target.slaves = <<>>
    <3>1. \A n : ID(ref) # <<HealthGroup, n>>
      BY <2>1
    <3>2. \A other \in Own : ID(ref) = ID(other) => ref = other
      BY <1>2, Identities
    <3> QED BY <1>2, <3>1, <3>2, RunsByIdentity
  <2>4. ASSUME NEW m \in Registered
        PROVE  ID(ref) \in IDs(Runs(m)) <=> ref.target.slaves = <<>> \/ m \in ToSet(ref.target.slaves)
    <3>1. \A n : ID(ref) # <<HealthGroup, n>>
      BY <2>1
    <3>2. \A other \in Own : ID(ref) = ID(other) => ref = other
      BY <1>2, Identities
    <3>3. ID(ref) \in IDs(Runs(m)) <=> TargetVisibleToSlave(ref.target, m)
      BY <1>2, <3>1, <3>2, RunsByIdentity
    <3> QED BY <3>3 DEF TargetVisibleToSlave
  <2> QED BY <1>1, <2>2, <2>3, <2>4
<1>3. ASSUME NEW n \in Peers, ref = [group |-> HealthGroup, target |-> [HealthTarget(config, Peering, n) EXCEPT !.host = NoAddr]]
      PROVE  {m \in Nodes : ID(ref) \in IDs(Runs(m))} = SourcesFor(ref)
  <2>1. ref.group = HealthGroup /\ ref.target.name = n
    BY <1>3 DEF HealthTarget
  <2>2. ID(ref) = <<HealthGroup, n>> /\ SourcesFor(ref) = {config.source} \cup (Registered \ {n})
    BY <2>1 DEF ID, SourcesFor, HealthSources
  <2>3. \A other \in Own : ID(other) # ID(ref)
    <3>1. \A other \in Own : ID(other)[1] # HealthGroup
      BY Identities DEF ID
    <3> QED BY <2>2, <3>1
  <2>4. ID(ref) \in IDs(Runs(config.source))
    BY <2>2, RunsByIdentity
  <2>5. ASSUME NEW m \in Registered PROVE ID(ref) \in IDs(Runs(m)) <=> m # n
    <3>1. \A k : <<HealthGroup, n>> = <<HealthGroup, k>> <=> k = n
      OBVIOUS
    <3> QED BY <2>2, <2>3, <3>1, RunsByIdentity
  <2> QED BY <1>1, <2>2, <2>4, <2>5
<1> QED BY <1>2, <1>3 DEF ListTargets, Public, Own

(* The targets the ingest adds to the config's. *)
LEMMA MeshTargets ==
  ASSUME MeshIInv
  PROVE  AllTargets(HealthTargets(config, Peering, "")) = {Peer(m) : m \in Peers}
<1>1. /\ DOMAIN Peering = Peers /\ IsFiniteSet(DOMAIN Peering) /\ "" \notin Peers
      /\ Accepted(config)
  BY PeersFacts
<1>2. IsList(config.alerts)
  BY <1>1 DEF Accepted
<1> DEFINE c == config
           p == Peering
<1>3. IsList(c.alerts) /\ IsFiniteSet(DOMAIN p)
  BY <1>1, <1>2
<1>4. DOMAIN p \ {""} = Peers
  BY <1>1
<1> HIDE DEF c, p
<1>5. AllTargets(HealthTargets(c, p, "")) = {HealthRef(c, p, m) : m \in DOMAIN p \ {""}}
  BY <1>3, HealthGroupFacts
<1>6. AllTargets(HealthTargets(c, p, "")) = {HealthRef(c, p, m) : m \in Peers}
  BY <1>4, <1>5
<1> QED BY <1>6 DEF Peer, c, p

(* Every cycle a node may send is about a target the API lists and the ingest *)
(* finds.                                                                     *)
LEMMA RunsAreKnown ==
  ASSUME MeshIInv, NEW n \in Nodes
  PROVE  IDs(Runs(n)) \subseteq IDs(ListTargets) \cap IDs(IngestTargets)
<1> SUFFICES ASSUME NEW id \in IDs(Runs(n)) PROVE id \in IDs(ListTargets) /\ id \in IDs(IngestTargets)
  OBVIOUS
<1>1. \/ \E ref \in Own : id = ID(ref)
      \/ \E m \in Peers : id = <<HealthGroup, m>>
  <2>1. n = config.source \/ n \in Registered
    BY DEF Nodes
  <2> QED BY <2>1, RunsByIdentity
<1>2. AllTargets(HealthTargets(config, Peering, "")) = {Peer(m) : m \in Peers}
  BY MeshTargets
<1>3. CASE \E ref \in Own : id = ID(ref)
  BY <1>3 DEF IDs, ListTargets, IngestTargets, Own
<1>4. ASSUME NEW m \in Peers, id = <<HealthGroup, m>>
      PROVE  id \in IDs(ListTargets) /\ id \in IDs(IngestTargets)
  <2> DEFINE shown == [group |-> HealthGroup, target |-> [HealthTarget(config, Peering, m) EXCEPT !.host = NoAddr]]
  <2>1. shown \in ListTargets
    BY DEF ListTargets, Public
  <2>2. ID(shown) = id
    BY <1>4 DEF ID, HealthTarget
  <2> HIDE DEF shown
  <2>3. Peer(m) \in IngestTargets /\ ID(Peer(m)) = id
    BY <1>2, <1>4, Identities DEF IngestTargets
  <2> QED BY <2>1, <2>2, <2>3 DEF IDs
<1> QED BY <1>1, <1>3, <1>4

(* A target has the same alerts wherever it is looked up. *)
LEMMA AlertsAreTheSame ==
  ASSUME MeshIInv, NEW ref \in ListTargets, NEW other \in IngestTargets \cup Runs(config.source),
         ID(ref) = ID(other)
  PROVE  ref.target.alerts = other.target.alerts
<1>1. other \in Own \/ \E m \in Peers : other = Peer(m)
  <2>1. other \in IngestTargets => other \in Own \/ \E m \in Peers : other = Peer(m)
    BY MeshTargets DEF IngestTargets, Own
  <2>2. other \in Runs(config.source) => other \in Own \/ \E m \in Peers : other = Peer(m)
    BY RunsFacts
  <2> QED BY <2>1, <2>2
<1>2. \A x \in Own : \A m : ID(x) # <<HealthGroup, m>>
  BY Identities DEF ID
<1>3. CASE ref \in Own
  <2>1. other \in Own
    BY <1>1, <1>2, <1>3, Identities
  <2> QED BY <1>3, <2>1, Identities
<1>4. ASSUME NEW n \in Peers,
             ref = [group |-> HealthGroup, target |-> [HealthTarget(config, Peering, n) EXCEPT !.host = NoAddr]]
      PROVE  ref.target.alerts = other.target.alerts
  <2>1. ref.target.alerts = config.alerts /\ ID(ref) = <<HealthGroup, n>>
    BY <1>4 DEF HealthTarget, ID
  <2>2. PICK m \in Peers : other = Peer(m)
    BY <1>1, <1>2, <2>1
  <2>3. Peer(m).target.alerts = config.alerts
    BY DEF Peer, HealthRef, HealthTarget
  <2> QED BY <2>1, <2>2, <2>3
<1> QED BY <1>3, <1>4 DEF ListTargets, Public, Own

-----------------------------------------------------------------------------
(* What is accepted can be run.                                               *)

(* What Validate says of a target, wherever it stands. *)
LEMMA AcceptedTargets ==
  ASSUME MeshIInv, NEW ref \in Own
  PROVE  /\ ref.target.probe \in DOMAIN config.shape.probes
         /\ ToSet(ref.target.alerts) \subseteq DOMAIN config.defined
         /\ {ref.group, ref.target.name, ref.target.probe} \cap LongLabels = {}
<1>1. PICK r \in RefsIn(config.groups) : ref = RefAt(config.groups, r)
  BY TargetsAtPlaces DEF Own
<1>2. r[1] \in DOMAIN config.groups /\ r[2] \in DOMAIN config.groups[r[1]].targets
  BY DEF RefsIn
<1>3. Validate(config)
  BY DEF MeshIInv, Configs
<1>4. ref.group = config.groups[r[1]].group /\ ref.target = config.groups[r[1]].targets[r[2]]
  BY <1>1 DEF RefAt
<1>5. Label(ref.group) /\ ValidTarget(config, ref.target)
  BY <1>2, <1>3, <1>4 DEF Validate
<1> QED BY <1>5 DEF ValidTarget, Label

(* The probes of a view: the config's and, if it has peers, the mesh's.       *)
LEMMA ProbesOfViews ==
  ASSUME MeshIInv, NEW e
  PROVE  LET health == HealthTargets(config, Peering, e)
             probes == ProbesOf([shape |-> config.shape, health |-> ProbeDef(config, health)])
         IN  /\ DOMAIN config.shape.probes \subseteq DOMAIN probes
             /\ \A p \in DOMAIN config.shape.probes : probes[p] = config.shape.probes[p]
             /\ TypesIn(probes) \subseteq TypesIn(config.shape.probes) \cup {"icmp"}
             /\ Peers \ {e} # {} => HealthProbe \in DOMAIN probes
<1> DEFINE health == HealthTargets(config, Peering, e)
           def == ProbeDef(config, health)
           view == [shape |-> config.shape, health |-> def]
           own == config.shape.probes
           probes == ProbesOf(view)
<1>1. HealthProbe \notin DOMAIN own
  BY DEF MeshIInv, Configs, Validate
<1>2. health = <<>> <=> Peers \ {e} = {}
  <2> DEFINE c == config
             p == Peering
  <2>1. IsList(c.alerts) /\ IsFiniteSet(DOMAIN p) /\ DOMAIN p = Peers
    BY PeersFacts DEF Accepted
  <2> HIDE DEF c, p
  <2>2. HealthTargets(c, p, e) = <<>> <=> DOMAIN p \ {e} = {}
    BY <2>1, HealthGroupFacts
  <2> QED BY <2>1, <2>2 DEF c, p
<1>3. Peers \ {e} # {} <=> def # <<>>
  BY <1>2 DEF ProbeDef
<1>4. ASSUME def = <<>>
      PROVE  /\ DOMAIN own \subseteq DOMAIN probes
             /\ \A p \in DOMAIN own : probes[p] = own[p]
             /\ TypesIn(probes) \subseteq TypesIn(own) \cup {"icmp"}
             /\ def # <<>> => HealthProbe \in DOMAIN probes
  <2>1. probes = own
    BY <1>4 DEF ProbesOf
  <2> HIDE DEF probes, own, def
  <2> QED BY <1>4, <2>1
<1>5. ASSUME def # <<>>
      PROVE  /\ DOMAIN own \subseteq DOMAIN probes
             /\ \A p \in DOMAIN own : probes[p] = own[p]
             /\ TypesIn(probes) \subseteq TypesIn(own) \cup {"icmp"}
             /\ def # <<>> => HealthProbe \in DOMAIN probes
  <2>1. /\ DOMAIN probes = DOMAIN own \cup {HealthProbe}
        /\ probes[HealthProbe].type = "icmp"
        /\ \A p \in DOMAIN own : p # HealthProbe => probes[p] = own[p]
    <3> HIDE DEF def
    <3> QED BY <1>5 DEF ProbesOf
  <2> HIDE DEF probes, own, def
  <2>2. TypesIn(probes) \subseteq TypesIn(own) \cup {"icmp"}
    BY <2>1 DEF TypesIn
  <2> QED BY <1>1, <2>1, <2>2
<1>6. /\ DOMAIN own \subseteq DOMAIN probes
      /\ \A p \in DOMAIN own : probes[p] = own[p]
      /\ TypesIn(probes) \subseteq TypesIn(own) \cup {"icmp"}
      /\ def # <<>> => HealthProbe \in DOMAIN probes
  <2> HIDE DEF probes, own, def
  <2> QED BY <1>4, <1>5
<1> QED BY <1>3, <1>6

(* Every view of an armed cluster builds. *)
LEMMA ViewsAreRunnable ==
  ASSUME MeshIInv, config.token, TypesIn(config.shape.probes) \subseteq ProbeTypes, NEW n \in Nodes
  PROVE  Runnable(ViewOf(n))
<1> DEFINE view == ViewOf(n)
           e == IF n = config.source THEN "" ELSE n
           def == ProbeDef(config, HealthTargets(config, Peering, e))
           probes == ProbesOf(view)
           own == config.shape.probes
<1>1. n = config.source \/ n \in Registered
  BY DEF Nodes
<1>2. /\ DOMAIN Peering = Peers /\ IsFiniteSet(DOMAIN Peering) /\ "" \notin Peers
      /\ config.source \notin Registered /\ Accepted(config) /\ Peers \subseteq Names
  BY PeersFacts
<1>3. view.shape = config.shape /\ view.health = def
  <2>1. CASE n = config.source
    <3>1. view = LocalTargets(config, Peering) /\ e = ""
      BY <2>1 DEF ViewOf
    <3> HIDE DEF view, e
    <3> QED BY <3>1 DEF LocalTargets
  <2>2. CASE n \in Registered
    <3>1. view = BuildShim(config, Peering, n) /\ e = n
      BY <1>2, <2>2 DEF ViewOf
    <3> HIDE DEF view, e
    <3> QED BY <3>1 DEF BuildShim, BuildClusterConfig
  <2> QED BY <1>1, <2>1, <2>2
<1>4. probes = ProbesOf([shape |-> config.shape, health |-> def])
  <2> HIDE DEF view, def
  <2> QED BY <1>3 DEF ProbesOf
<1>5. /\ DOMAIN own \subseteq DOMAIN probes /\ \A p \in DOMAIN own : probes[p] = own[p]
      /\ TypesIn(probes) \subseteq TypesIn(own) \cup {"icmp"}
      /\ Peers \ {e} # {} => HealthProbe \in DOMAIN probes
  <2> HIDE DEF view, e
  <2> QED BY <1>4, ProbesOfViews
<1>6. NoDuplicate(view.groups)
  <2>1. CASE n = config.source
    <3>1. view = LocalTargets(config, Peering) /\ "" \notin DOMAIN Peering
      BY <1>2, <2>1 DEF ViewOf
    <3> HIDE DEF view
    <3> QED BY <1>2, <3>1, LocalView
  <2>2. CASE n \in Registered
    <3>1. view = BuildShim(config, Peering, n)
      BY <1>2, <2>2 DEF ViewOf
    <3> HIDE DEF view
    <3> QED BY <1>2, <3>1, SlaveView
  <2> QED BY <1>1, <2>1, <2>2
<1>7. ASSUME NEW ref \in AllTargets(view.groups)
      PROVE  \/ \E r \in Own : /\ ref.group = r.group /\ ref.target.name = r.target.name
                               /\ ref.target.probe = r.target.probe
                               /\ ToSet(ref.target.alerts) \subseteq ToSet(r.target.alerts)
             \/ \E m \in Peers \ {e} : /\ ref.group = HealthGroup /\ ref.target.name = m
                                       /\ ref.target.probe = HealthProbe
                                       /\ ToSet(ref.target.alerts) \subseteq ToSet(config.alerts)
  <2>1. ToSet(<<>>) = {}
    BY DEF ToSet
  <2>2. \A m : /\ Peer(m).group = HealthGroup /\ Peer(m).target.name = m
               /\ Peer(m).target.probe = HealthProbe /\ Peer(m).target.alerts = config.alerts
    BY DEF Peer, HealthRef, HealthTarget
  <2>3. ASSUME NEW r, IsTarget(r.target)
        PROVE  /\ Shipped(r).group = r.group /\ Shipped(r).target.name = r.target.name
               /\ Shipped(r).target.probe = r.target.probe /\ ToSet(Shipped(r).target.alerts) = {}
    BY <2>1, <2>3, Sanitized DEF Shipped
  <2>4. (\A r \in Own : IsTarget(r.target)) /\ \A m : IsTarget(Peer(m).target)
    BY Identities
  <2>5. ref \in Runs(n)
    BY DEF Runs
  <2>6. CASE n = config.source
    <3>1. Peers \ {e} = Peers
      BY <1>2, <2>6
    <3> HIDE DEF e
    <3>2. (\E r \in Own : ref = r) \/ (\E m \in Peers : ref = Peer(m))
      BY <2>5, <2>6, RunsFacts
    <3>3. CASE \E r \in Own : ref = r
      BY <3>3
    <3>4. CASE \E m \in Peers : ref = Peer(m)
      <4>1. PICK m \in Peers : ref = Peer(m)
        BY <3>4
      <4>2. /\ m \in Peers \ {e} /\ ref.group = HealthGroup /\ ref.target.name = m
            /\ ref.target.probe = HealthProbe
            /\ ToSet(ref.target.alerts) \subseteq ToSet(config.alerts)
        BY <2>2, <3>1, <4>1
      <4> QED BY <4>2
    <3> QED BY <3>2, <3>3, <3>4
  <2>7. CASE n \in Registered
    <3>1. e = n
      BY <1>2, <2>7
    <3> HIDE DEF e
    <3>2. \/ \E r \in Own : ref = Shipped(r)
          \/ \E m \in Peers \ {n} : ref = Shipped(Peer(m))
      BY <2>5, <2>7, RunsFacts
    <3>3. CASE \E r \in Own : ref = Shipped(r)
      <4>1. PICK r \in Own : ref = Shipped(r)
        BY <3>3
      <4>2. /\ ref.group = r.group /\ ref.target.name = r.target.name
            /\ ref.target.probe = r.target.probe
            /\ ToSet(ref.target.alerts) \subseteq ToSet(r.target.alerts)
        BY <2>3, <2>4, <4>1
      <4> QED BY <4>2
    <3>4. CASE \E m \in Peers \ {n} : ref = Shipped(Peer(m))
      <4>1. PICK m \in Peers \ {n} : ref = Shipped(Peer(m))
        BY <3>4
      <4>2. /\ m \in Peers \ {e} /\ ref.group = HealthGroup /\ ref.target.name = m
            /\ ref.target.probe = HealthProbe
            /\ ToSet(ref.target.alerts) \subseteq ToSet(config.alerts)
        BY <2>2, <2>3, <2>4, <3>1, <4>1
      <4> QED BY <4>2
    <3> QED BY <3>2, <3>3, <3>4
  <2> QED BY <1>1, <2>6, <2>7
<1>8. /\ Validate(config) /\ (Names \cup {HealthGroup, HealthProbe}) \cap LongLabels = {}
      /\ ToSet(config.alerts) \subseteq DOMAIN config.defined
  BY MeshAssumption DEF MeshIInv, Configs, Validate
<1> HIDE DEF view, e, probes, own, def
<1>9. ASSUME NEW ref \in AllTargets(view.groups)
      PROVE  /\ ref.target.probe \in DOMAIN probes
             /\ ref.group = HealthGroup \/ probes[ref.target.probe] = own[ref.target.probe]
             /\ ToSet(ref.target.alerts) \subseteq DOMAIN config.defined
             /\ {ref.group, ref.target.name, ref.target.probe} \cap LongLabels = {}
  <2>1. ASSUME NEW r \in Own, ref.group = r.group, ref.target.name = r.target.name,
               ref.target.probe = r.target.probe,
               ToSet(ref.target.alerts) \subseteq ToSet(r.target.alerts)
        PROVE  /\ ref.target.probe \in DOMAIN probes
               /\ ref.group = HealthGroup \/ probes[ref.target.probe] = own[ref.target.probe]
               /\ ToSet(ref.target.alerts) \subseteq DOMAIN config.defined
               /\ {ref.group, ref.target.name, ref.target.probe} \cap LongLabels = {}
    BY <1>5, <2>1, AcceptedTargets DEF own
  <2>2. ASSUME NEW m \in Peers \ {e}, ref.group = HealthGroup, ref.target.name = m,
               ref.target.probe = HealthProbe,
               ToSet(ref.target.alerts) \subseteq ToSet(config.alerts)
        PROVE  /\ ref.target.probe \in DOMAIN probes
               /\ ref.group = HealthGroup \/ probes[ref.target.probe] = own[ref.target.probe]
               /\ ToSet(ref.target.alerts) \subseteq DOMAIN config.defined
               /\ {ref.group, ref.target.name, ref.target.probe} \cap LongLabels = {}
    BY <1>2, <1>5, <1>8, <2>2
  <2> QED BY <1>7, <2>1, <2>2
<1>10. Built(view.shape.interval, view.shape.pings, probes)
  <2>1. TypesIn(probes) \subseteq Scheduled(config) /\ TypesIn(probes) \subseteq ProbeTypes
    BY <1>5 DEF Scheduled, ProbeTypes, own
  <2>2. ValidSchedule(config.shape.interval, config.shape.pings, Scheduled(config))
    BY <1>8 DEF Validate
  <2>3. ValidSchedule(config.shape.interval, config.shape.pings, TypesIn(probes))
    BY <2>1, <2>2 DEF ValidSchedule
  <2> QED BY <1>3, <2>1, <2>3 DEF Built
<1> QED BY <1>6, <1>9, <1>10 DEF Runnable, view, probes, own

(* The mesh takes only steps of the registry, and the config stays accepted.  *)
LEMMA MeshKeeps == MeshSpec => []MeshIInv
<1>1. MeshInit => MeshIInv
  BY InitOwnership DEF MeshInit, MeshIInv
<1>2. ASSUME MeshIInv, [MeshNext]_meshVars PROVE MeshIInv'
  <2>1. [Next]_vars /\ config' \in Configs
    BY <1>2 DEF MeshIInv, MeshNext, RegistryStep, Reload, Next, meshVars, vars
  <2> QED BY <1>2, <2>1, NextOwnership DEF MeshIInv
<1> QED BY <1>1, <1>2, PTL DEF MeshSpec

(* One view of the cluster (config.go, inbound.go, configshim.go, api.go), of *)
(* any config that is accepted and any peering.                               *)
THEOREM ClusterHasOneView == MeshSpec => []OneView
<1>1. MeshIInv => OneView
  BY ProbedAsListed, RunsAreKnown, AlertsAreTheSame, ViewsAreRunnable DEF OneView
<1> QED BY <1>1, MeshKeeps, PTL


-----------------------------------------------------------------------------
(* Fingerprints.  A list is cut where its marks are.                          *)

(* Two lists of one length with the same elements are one list.               *)
LEMMA SameLists ==
  ASSUME NEW a, NEW b, IsList(a), IsList(b), Len(a) = Len(b),
         \A i \in 1..Len(a) : a[i] = b[i]
  PROVE  a = b
<1>1. a \in Seq(ToSet(a)) /\ b \in Seq(ToSet(b))
  BY DEF IsList
<1>2. DOMAIN a = 1..Len(a) /\ DOMAIN b = 1..Len(b)
  BY <1>1
<1>3. a = [i \in 1..Len(a) |-> a[i]] /\ b = [i \in 1..Len(b) |-> b[i]]
  BY <1>1
<1> QED BY <1>3

(* A list has its length, its places and its elements. *)
LEMMA ListShape ==
  ASSUME NEW a, IsList(a)
  PROVE  Len(a) \in Nat /\ DOMAIN a = 1..Len(a)
<1>1. a \in Seq(ToSet(a))
  BY DEF IsList
<1> QED BY <1>1

(* One list after another. *)
LEMMA JoinedLists ==
  ASSUME NEW a, NEW b, IsList(a), IsList(b)
  PROVE  /\ IsList(a \o b) /\ Len(a \o b) = Len(a) + Len(b)
         /\ \A i \in 1..Len(a) : (a \o b)[i] = a[i]
         /\ \A i \in 1..Len(b) : (a \o b)[Len(a) + i] = b[i]
         /\ \A i \in (Len(a) + 1)..(Len(a) + Len(b)) : (a \o b)[i] = b[i - Len(a)]
<1> DEFINE T == ToSet(a) \cup ToSet(b)
           c == a \o b
<1>1. a \in Seq(T) /\ b \in Seq(T)
  BY DEF IsList
<1> HIDE DEF T
<1>2. /\ c \in Seq(T) /\ Len(c) = Len(a) + Len(b)
      /\ \A i \in 1..Len(a) : c[i] = a[i]
      /\ \A i \in 1..Len(b) : c[Len(a) + i] = b[i]
      /\ \A i \in (Len(a) + 1)..(Len(a) + Len(b)) : c[i] = b[i - Len(a)]
  BY <1>1
<1>3. IsList(c)
  <2> HIDE DEF c
  <2> QED BY <1>2, ListFacts
<1> QED BY <1>2, <1>3

(* Two ways to make one list of two. *)
SameJoin(a, x, b, y) ==
  IsList(a) /\ IsList(x) /\ IsList(b) /\ IsList(y) /\ a \o x = b \o y

(* Where both begin with as much, both parts are the same. *)
LEMMA SameFront ==
  ASSUME NEW a, NEW b, NEW x, NEW y, SameJoin(a, x, b, y), Len(a) = Len(b)
  PROVE  a = b /\ x = y
<1>0. IsList(a) /\ IsList(x) /\ IsList(b) /\ IsList(y) /\ a \o x = b \o y
  BY DEF SameJoin
<1>1. Len(a) \in Nat /\ Len(b) \in Nat /\ Len(x) \in Nat /\ Len(y) \in Nat
  BY <1>0, ListShape
<1>2. Len(x) = Len(y)
  BY <1>0, <1>1, JoinedLists
<1>3. \A i \in 1..Len(a) : a[i] = b[i]
  BY <1>0, <1>1, JoinedLists
<1>4. \A i \in 1..Len(x) : x[i] = y[i]
  <2>1. \A i \in 1..Len(x) : (a \o x)[Len(a) + i] = x[i]
    <3>1. IsList(a) /\ IsList(x)
      BY <1>0
    <3> QED BY <3>1, JoinedLists
  <2>2. \A i \in 1..Len(y) : (b \o y)[Len(b) + i] = y[i]
    BY <1>0, JoinedLists
  <2> QED BY <1>0, <1>2, <2>1, <2>2
<1> QED BY <1>0, <1>2, <1>3, <1>4, SameLists

(* So they are where both end with as much. *)
LEMMA SameBack ==
  ASSUME NEW a, NEW b, NEW x, NEW y, SameJoin(a, x, b, y), Len(x) = Len(y)
  PROVE  a = b /\ x = y
<1>0. IsList(a) /\ IsList(x) /\ IsList(b) /\ IsList(y) /\ a \o x = b \o y
  BY DEF SameJoin
<1>1. Len(a) \in Nat /\ Len(b) \in Nat /\ Len(x) \in Nat /\ Len(y) \in Nat
  BY <1>0, ListShape
<1>2. Len(a) + Len(x) = Len(b) + Len(y)
  BY <1>0, JoinedLists
<1>3. Len(a) = Len(b)
  BY <1>1, <1>2
<1> QED BY <1>3, SameFront

(* Lists without a mark, lists that end with it, and segments, which end with *)
(* their only one.                                                            *)
Free(s, d) == IsList(s) /\ \A i \in 1..Len(s) : s[i] # d
Closed(s, d) == IsList(s) /\ (Len(s) = 0 \/ s[Len(s)] = d)
Segment(s, d) ==
  /\ IsList(s) /\ Len(s) # 0 /\ s[Len(s)] = d
  /\ \A i \in 1..(Len(s) - 1) : s[i] # d

(* What follows the last mark is found again. *)
LEMMA LastCut ==
  ASSUME NEW d, NEW a, NEW b, NEW x, NEW y, Closed(a, d), Closed(b, d), Free(x, d), Free(y, d),
         SameJoin(a, x, b, y)
  PROVE  a = b /\ x = y
<1>1. IsList(a) /\ IsList(b) /\ IsList(x) /\ IsList(y) /\ a \o x = b \o y
  BY DEF SameJoin
<1>2. /\ Len(a) \in Nat /\ Len(b) \in Nat /\ Len(x) \in Nat /\ Len(y) \in Nat
      /\ Len(a) + Len(x) = Len(b) + Len(y)
  BY <1>1, ListShape, JoinedLists
<1>3. ASSUME NEW p, NEW q, NEW u, NEW v, Closed(q, d), Free(u, d), IsList(p), IsList(v),
             p \o u = q \o v, Len(p) < Len(q)
      PROVE  FALSE
  <2>1. IsList(q) /\ IsList(u)
    BY <1>3 DEF Closed, Free
  <2>2. /\ Len(p) \in Nat /\ Len(q) \in Nat /\ Len(u) \in Nat /\ Len(v) \in Nat
        /\ Len(p) + Len(u) = Len(q) + Len(v)
    BY <1>3, <2>1, ListShape, JoinedLists
  <2>3. (p \o u)[Len(q)] = u[Len(q) - Len(p)]
    <3>1. \A i \in (Len(p) + 1)..(Len(p) + Len(u)) : (p \o u)[i] = u[i - Len(p)]
      BY <1>3, <2>1, JoinedLists
    <3>2. Len(q) \in (Len(p) + 1)..(Len(p) + Len(u))
      BY <1>3, <2>2
    <3> QED BY <3>1, <3>2
  <2>4. (q \o v)[Len(q)] = q[Len(q)]
    BY <1>3, <2>1, <2>2, JoinedLists
  <2>5. q[Len(q)] = d
    BY <1>3, <2>2 DEF Closed
  <2>6. Len(q) - Len(p) \in 1..Len(u)
    BY <1>3, <2>2
  <2> QED BY <1>3, <2>3, <2>4, <2>5, <2>6 DEF Free
<1>4. ~(Len(a) < Len(b)) /\ ~(Len(b) < Len(a))
  BY <1>1, <1>3
<1>5. Len(a) = Len(b)
  BY <1>2, <1>4
<1> QED BY <1>1, <1>5, SameFront

(* So is the last segment. *)
LEMMA LastSegment ==
  ASSUME NEW d, NEW a, NEW b, NEW x, NEW y, Closed(a, d), Closed(b, d), Segment(x, d), Segment(y, d),
         SameJoin(a, x, b, y)
  PROVE  a = b /\ x = y
<1>1. IsList(a) /\ IsList(b) /\ IsList(x) /\ IsList(y) /\ a \o x = b \o y
  BY DEF SameJoin
<1>2. /\ Len(a) \in Nat /\ Len(b) \in Nat /\ Len(x) \in Nat /\ Len(y) \in Nat
      /\ Len(a) + Len(x) = Len(b) + Len(y)
  BY <1>1, ListShape, JoinedLists
<1>3. ASSUME NEW p, NEW q, NEW u, NEW v, Closed(q, d), Segment(u, d), IsList(p), IsList(v), Len(v) # 0,
             p \o u = q \o v, Len(p) < Len(q)
      PROVE  FALSE
  <2>1. IsList(q) /\ IsList(u)
    BY <1>3 DEF Closed, Segment
  <2>2. /\ Len(p) \in Nat /\ Len(q) \in Nat /\ Len(u) \in Nat /\ Len(v) \in Nat
        /\ Len(p) + Len(u) = Len(q) + Len(v)
    BY <1>3, <2>1, ListShape, JoinedLists
  <2>3. (p \o u)[Len(q)] = u[Len(q) - Len(p)]
    <3>1. \A i \in (Len(p) + 1)..(Len(p) + Len(u)) : (p \o u)[i] = u[i - Len(p)]
      BY <1>3, <2>1, JoinedLists
    <3>2. Len(q) \in (Len(p) + 1)..(Len(p) + Len(u))
      BY <1>3, <2>2
    <3> QED BY <3>1, <3>2
  <2>4. (q \o v)[Len(q)] = q[Len(q)]
    BY <1>3, <2>1, <2>2, JoinedLists
  <2>5. q[Len(q)] = d
    BY <1>3, <2>2 DEF Closed
  <2>6. Len(q) - Len(p) \in 1..(Len(u) - 1)
    BY <1>3, <2>2
  <2> QED BY <1>3, <2>3, <2>4, <2>5, <2>6 DEF Segment
<1>4. Len(x) # 0 /\ Len(y) # 0
  BY DEF Segment
<1>5. ~(Len(a) < Len(b)) /\ ~(Len(b) < Len(a))
  BY <1>1, <1>3, <1>4
<1>6. Len(a) = Len(b)
  BY <1>2, <1>5
<1> QED BY <1>1, <1>6, SameFront

(* What a flattened list is made of: g[k] is its first k parts, one after the *)
(* other.                                                                     *)
FirstParts(g, parts) ==
  /\ g[0] = <<>>
  /\ \A k \in 0..Len(parts) : IsList(g[k])
  /\ \A k \in 1..Len(parts) : g[k] = g[k - 1] \o parts[k]

(* The equation FlattenSeq solves. *)
FlattenEquation(f, parts) ==
  f = [i \in 1..Len(parts) |-> IF i = 1 THEN parts[i] ELSE f[i - 1] \o parts[i]]

(* Flattening puts the parts one after the other. *)
LEMMA FlattenFacts ==
  ASSUME NEW parts, IsList(parts), \A k \in 1..Len(parts) : IsList(parts[k])
  PROVE  \E g : FirstParts(g, parts) /\ FlattenSeq(parts) = g[Len(parts)]
<1> DEFINE n == Len(parts)
           S == UNION {ToSet(parts[k]) : k \in 1..n}
           step == [k \in 1..n |-> [v \in Seq(S) |-> v \o parts[k]]]
           f == CHOOSE h : FlattenEquation(h, parts)
<1>1. n \in Nat /\ DOMAIN parts = 1..n
  BY ListShape
<1>2. ASSUME NEW k \in 1..n PROVE parts[k] \in Seq(S)
  <2>1. parts[k] \in Seq(ToSet(parts[k])) /\ ToSet(parts[k]) \subseteq S
    BY DEF IsList
  <2> HIDE DEF S
  <2> QED BY <2>1
<1> HIDE DEF S
<1>3. PICK h : Follows(h, n, Seq(S), <<>>, step)
  <2>1. ASSUME NEW k \in 1..n, NEW v \in Seq(S) PROVE v \o parts[k] \in Seq(S)
    BY <1>2
  <2>2. IsStep(step, n, Seq(S)) /\ <<>> \in Seq(S)
    BY <2>1 DEF IsStep
  <2> HIDE DEF step, n
  <2> QED BY <1>1, <2>2, PrimitiveRecursion
<1>4. /\ h \in [0..n -> Seq(S)] /\ h[0] = <<>>
      /\ \A k \in 1..n : h[k] = h[k - 1] \o parts[k]
  <2>1. /\ h \in [0..n -> Seq(S)] /\ h[0] = <<>>
        /\ \A k \in 1..n : h[k] = step[k][h[k - 1]]
    <3> HIDE DEF step, n
    <3> QED BY <1>3 DEF Follows
  <2>2. ASSUME NEW k \in 1..n PROVE h[k] = h[k - 1] \o parts[k]
    <3>1. h[k - 1] \in Seq(S)
      BY <1>1, <2>1
    <3> QED BY <2>1, <3>1
  <2> QED BY <2>1, <2>2
<1>5. CASE n = 0
  <2>1. FlattenSeq(parts) = parts /\ parts = <<>>
    <3>1. parts \in Seq(ToSet(parts))
      BY DEF IsList
    <3> QED BY <1>5, <3>1 DEF FlattenSeq
  <2>2. IsList(<<>>)
    <3>1. <<>> \in Seq({})
      OBVIOUS
    <3> QED BY <3>1, ListFacts
  <2> DEFINE g == [k \in 0..0 |-> <<>>]
  <2>3. FirstParts(g, parts) /\ g[n] = <<>>
    BY <1>5, <2>2 DEF FirstParts
  <2> HIDE DEF g
  <2> QED BY <2>1, <2>3
<1>6. CASE n # 0
  <2>1. FlattenSeq(parts) = f[n]
    BY <1>6, Zenon DEF FlattenSeq, FlattenEquation
  <2>2. FlattenEquation(f, parts)
    <3> DEFINE p == [i \in 1..n |-> h[i]]
    <3>1. FlattenEquation(p, parts)
      <4>1. ASSUME NEW i \in 1..n PROVE h[i] = IF i = 1 THEN parts[i] ELSE p[i - 1] \o parts[i]
        <5>1. CASE i = 1
          <6>0. i - 1 = 0
            BY <5>1
          <6>1. h[i] = h[i - 1] \o parts[i] /\ i - 1 = 0 /\ parts[i] \in Seq(S)
            BY <1>2, <1>4, <6>0, Zenon
          <6>2. h[i - 1] = <<>>
            BY <1>4, <6>1
          <6>3. h[i] = <<>> \o parts[i]
            BY <6>1, <6>2, Zenon
          <6>4. <<>> \o parts[i] = parts[i]
            BY <6>1
          <6> QED BY <5>1, <6>3, <6>4
        <5>2. CASE i # 1
          <6>1. i - 1 \in 1..n
            BY <1>1, <5>2
          <6> QED BY <1>4, <5>2, <6>1
        <5> QED BY <5>1, <5>2
      <4> QED BY <4>1 DEF FlattenEquation
    <3> HIDE DEF p
    <3> QED BY <3>1
  <2> HIDE DEF f
  <2> DEFINE g == [k \in 0..n |-> IF k = 0 THEN <<>> ELSE f[k]]
  <2>3. /\ g[0] = <<>> /\ g[n] = f[n]
        /\ \A k \in 1..n : g[k] = f[k]
    BY <1>1, <1>6
  <2>4. \A k \in 1..n : g[k] = g[k - 1] \o parts[k]
    <3> SUFFICES ASSUME NEW k \in 1..n PROVE g[k] = g[k - 1] \o parts[k]
      OBVIOUS
    <3>1. g[k] = IF k = 1 THEN parts[k] ELSE f[k - 1] \o parts[k]
      <4>1. f[k] = IF k = 1 THEN parts[k] ELSE f[k - 1] \o parts[k]
        BY <2>2 DEF FlattenEquation
      <4> HIDE DEF g
      <4> QED BY <2>3, <4>1, Zenon
    <3>2. CASE k = 1
      <4>1. g[k - 1] = <<>> /\ g[k] = parts[k]
        BY <2>3, <3>1, <3>2
      <4>2. parts[k] \in Seq(S)
        BY <1>2
      <4>3. <<>> \o parts[k] = parts[k]
        BY <4>2
      <4> HIDE DEF g
      <4> QED BY <4>1, <4>3, Zenon
    <3>3. CASE k # 1
      <4>1. k - 1 \in 1..n
        BY <1>1, <3>3
      <4> QED BY <2>3, <3>1, <3>3, <4>1
    <3> QED BY <3>2, <3>3
  <2> HIDE DEF g
  <2>5. \A k \in 0..n : g[k] \in Seq(S)
    <3> DEFINE T == {k \in Nat : g[k] \in Seq(S)}
    <3>1. 0 \in T
      <4>1. g[0] = <<>> /\ <<>> \in Seq(S)
        BY <2>3
      <4>2. g[0] \in Seq(S)
        BY <4>1, Zenon
      <4> QED BY <4>2
    <3>2. ASSUME NEW i \in 0..(n - 1), i \in T PROVE i + 1 \in T
      <4>1. i + 1 \in 1..n /\ i + 1 - 1 = i /\ i + 1 \in Nat
        BY <1>1
      <4>2. parts[i + 1] \in Seq(S)
        BY <1>2, <4>1
      <4>3. g[i + 1] = g[i] \o parts[i + 1]
        <5> DEFINE k == i + 1
        <5>1. k \in 1..n /\ k - 1 = i
          BY <4>1
        <5> HIDE DEF k, n
        <5>2. g[k] = g[k - 1] \o parts[k]
          BY <2>4, <5>1
        <5>3. g[k] = g[i] \o parts[k]
          BY <5>1, <5>2, Zenon
        <5> QED BY <5>3 DEF k
      <4>4. g[i] \o parts[i + 1] \in Seq(S)
        BY <3>2, <4>2
      <4>5. g[i + 1] \in Seq(S)
        BY <4>3, <4>4, Zenon
      <4> QED BY <4>1, <4>5
    <3>3. \A i \in 0..n : i \in T
      <4> HIDE DEF T, n
      <4> QED BY <1>1, <3>1, <3>2, UpToInduction
    <3> QED BY <3>3
  <2>6. FirstParts(g, parts)
    BY <2>3, <2>4, <2>5, ListFacts DEF FirstParts
  <2> QED BY <2>1, <2>3, <2>6
<1> QED BY <1>5, <1>6

(* Flattened segments end with their mark, and a mark in no part is in none   *)
(* of what they make up.                                                      *)
LEMMA FlattenedMarks ==
  ASSUME NEW d, NEW parts, IsList(parts)
  PROVE  /\ (\A k \in 1..Len(parts) : Segment(parts[k], d)) => Closed(FlattenSeq(parts), d)
         /\ (\A k \in 1..Len(parts) : Free(parts[k], d)) => Free(FlattenSeq(parts), d)
<1> DEFINE n == Len(parts)
<1>1. n \in Nat
  BY ListShape
<1>2. ASSUME \A k \in 1..n : Segment(parts[k], d) PROVE Closed(FlattenSeq(parts), d)
  <2>1. \A k \in 1..n : IsList(parts[k])
    BY <1>2 DEF Segment
  <2>2. PICK g : FirstParts(g, parts) /\ FlattenSeq(parts) = g[n]
    BY <2>1, FlattenFacts
  <2>3. CASE n = 0
    <3>1. g[n] = <<>> /\ IsList(g[n]) /\ Len(<<>>) = 0
      BY <2>2, <2>3 DEF FirstParts
    <3> QED BY <2>2, <3>1 DEF Closed
  <2>4. CASE n # 0
    <3>1. /\ n \in 1..n /\ n - 1 \in 0..n /\ n \in 0..n
      BY <1>1, <2>4
    <3>2. /\ IsList(g[n]) /\ IsList(g[n - 1]) /\ g[n] = g[n - 1] \o parts[n]
      BY <2>2, <3>1, Zenon DEF FirstParts
    <3> DEFINE a == g[n - 1]
               b == parts[n]
    <3>3. IsList(a) /\ IsList(b) /\ Len(b) # 0 /\ b[Len(b)] = d
      BY <1>2, <3>1, <3>2 DEF Segment
    <3> HIDE DEF a, b
    <3>4. Len(a) \in Nat /\ Len(b) \in Nat
      BY <3>3, ListShape
    <3>5. Len(a \o b) = Len(a) + Len(b) /\ (a \o b)[Len(a) + Len(b)] = b[Len(b)]
      BY <3>3, <3>4, JoinedLists
    <3>6. IsList(a \o b) /\ (a \o b)[Len(a \o b)] = d
      BY <3>3, <3>5, JoinedLists
    <3>7. FlattenSeq(parts) = a \o b
      BY <2>2, <3>2 DEF a, b
    <3> QED BY <3>6, <3>7, Zenon DEF Closed
  <2> QED BY <2>3, <2>4
<1>3. ASSUME \A k \in 1..n : Free(parts[k], d) PROVE Free(FlattenSeq(parts), d)
  <2>1. \A k \in 1..n : IsList(parts[k])
    BY <1>3 DEF Free
  <2>2. PICK g : FirstParts(g, parts) /\ FlattenSeq(parts) = g[n]
    BY <2>1, FlattenFacts
  <2> DEFINE T == {k \in Nat : Free(g[k], d)}
  <2>3. 0 \in T
    <3>1. g[0] = <<>> /\ IsList(g[0]) /\ Len(<<>>) = 0
      BY <1>1, <2>2 DEF FirstParts
    <3>2. Free(g[0], d)
      BY <3>1 DEF Free
    <3> QED BY <3>2
  <2>4. ASSUME NEW k \in 0..(n - 1), k \in T PROVE k + 1 \in T
    <3>1. k + 1 \in 1..n /\ k + 1 - 1 = k /\ k + 1 \in Nat
      BY <1>1
    <3> DEFINE a == g[k]
               b == parts[k + 1]
    <3>2. g[k + 1] = a \o b
      <4> DEFINE l == k + 1
      <4>1. l \in 1..n /\ l - 1 = k
        BY <3>1
      <4> HIDE DEF l
      <4>2. g[l] = g[l - 1] \o parts[l]
        BY <2>2, <4>1 DEF FirstParts
      <4>3. g[l] = g[k] \o parts[l]
        BY <4>1, <4>2, Zenon
      <4> QED BY <4>3 DEF l
    <3>3. Free(a, d) /\ Free(b, d)
      BY <1>3, <2>4, <3>1
    <3> HIDE DEF a, b
    <3>4. Free(a \o b, d)
      <4>1. IsList(a) /\ IsList(b)
        BY <3>3 DEF Free
      <4>2. Len(a) \in Nat /\ Len(b) \in Nat
        BY <4>1, ListShape
      <4>3. ASSUME NEW i \in 1..(Len(a) + Len(b)) PROVE (a \o b)[i] # d
        <5>1. CASE i \in 1..Len(a)
          BY <3>3, <4>1, <5>1, JoinedLists DEF Free
        <5>2. CASE i \in (Len(a) + 1)..(Len(a) + Len(b))
          <6>1. (a \o b)[i] = b[i - Len(a)] /\ i - Len(a) \in 1..Len(b)
            BY <4>1, <4>2, <5>2, JoinedLists
          <6> QED BY <3>3, <6>1 DEF Free
        <5> QED BY <4>2, <5>1, <5>2
      <4> QED BY <4>1, <4>3, JoinedLists DEF Free
    <3> QED BY <3>1, <3>2, <3>4
  <2>5. \A k \in 0..n : k \in T
    <3> HIDE DEF T, n
    <3> QED BY <1>1, <2>3, <2>4, UpToInduction
  <2>6. n \in T
    <3> HIDE DEF T
    <3> QED BY <1>1, <2>5
  <2> QED BY <2>2, <2>6
<1> QED BY <1>2, <1>3

(* Segments are found again: two lists of segments that make up the same are  *)
(* the same.                                                                  *)
LEMMA SegmentsAreFound ==
  ASSUME NEW d, NEW s, NEW t, IsList(s), IsList(t),
         \A k \in 1..Len(s) : Segment(s[k], d), \A k \in 1..Len(t) : Segment(t[k], d),
         FlattenSeq(s) = FlattenSeq(t)
  PROVE  s = t
<1> DEFINE n == Len(s)
           m == Len(t)
<1>1. n \in Nat /\ m \in Nat
  BY ListShape
<1>2. PICK g : FirstParts(g, s) /\ FlattenSeq(s) = g[n]
  <2>1. \A k \in 1..n : IsList(s[k])
    BY DEF Segment
  <2> QED BY <2>1, FlattenFacts
<1>3. PICK h : FirstParts(h, t) /\ FlattenSeq(t) = h[m]
  <2>1. \A k \in 1..m : IsList(t[k])
    BY DEF Segment
  <2> QED BY <2>1, FlattenFacts
<1>4. ASSUME NEW f, NEW parts, FirstParts(f, parts), Len(parts) \in Nat,
             \A k \in 1..Len(parts) : Segment(parts[k], d), NEW k \in 0..Len(parts)
      PROVE  /\ Closed(f[k], d)
             /\ k = 0 => Len(f[k]) = 0
             /\ k # 0 => /\ Len(f[k]) # 0 /\ f[k] = f[k - 1] \o parts[k] /\ k - 1 \in 0..Len(parts)
                         /\ Segment(parts[k], d)
  <2>1. CASE k = 0
    <3>1. f[k] = <<>> /\ IsList(f[k]) /\ Len(<<>>) = 0
      BY <1>4, <2>1 DEF FirstParts
    <3> QED BY <2>1, <3>1 DEF Closed
  <2>2. CASE k # 0
    <3>1. k \in 1..Len(parts) /\ k - 1 \in 0..Len(parts)
      BY <1>4, <2>2
    <3>2. /\ f[k] = f[k - 1] \o parts[k] /\ IsList(f[k - 1]) /\ Segment(parts[k], d)
      BY <1>4, <3>1, Zenon DEF FirstParts
    <3> DEFINE a == f[k - 1]
               b == parts[k]
    <3>3. IsList(a) /\ IsList(b) /\ Len(b) # 0 /\ b[Len(b)] = d
      BY <3>2 DEF Segment
    <3> HIDE DEF a, b
    <3>4. Len(a) \in Nat /\ Len(b) \in Nat
      BY <3>3, ListShape
    <3>5. /\ Len(a \o b) = Len(a) + Len(b) /\ (a \o b)[Len(a) + Len(b)] = b[Len(b)]
          /\ IsList(a \o b)
      BY <3>3, <3>4, JoinedLists
    <3>6. Closed(a \o b, d) /\ Len(a \o b) # 0
      <4>1. (a \o b)[Len(a \o b)] = d /\ Len(a \o b) # 0
        BY <3>3, <3>4, <3>5
      <4> QED BY <3>5, <4>1 DEF Closed
    <3>7. f[k] = a \o b
      BY <3>2 DEF a, b
    <3>8. Closed(f[k], d) /\ Len(f[k]) # 0
      BY <3>6, <3>7, Zenon
    <3> QED BY <2>2, <3>1, <3>2, <3>8
  <2> QED BY <2>1, <2>2
<1> DEFINE Ends(f, parts, k) ==
             /\ Closed(f[k], d)
             /\ k = 0 => Len(f[k]) = 0
             /\ k # 0 => /\ Len(f[k]) # 0 /\ f[k] = f[k - 1] \o parts[k] /\ k - 1 \in 0..Len(parts)
                         /\ Segment(parts[k], d)
<1>41. ASSUME NEW k \in 0..n PROVE Ends(g, s, k)
  BY <1>1, <1>2, <1>4
<1>42. ASSUME NEW k \in 0..m PROVE Ends(h, t, k)
  BY <1>1, <1>3, <1>4
<1> DEFINE Matched(k) == \A l \in 0..m : g[k] = h[l] => k = l /\ \A i \in 1..k : s[i] = t[i]
           T == {k \in Nat : Matched(k)}
<1>5. 0 \in T
  <2>1. ASSUME NEW l \in 0..m, g[0] = h[l] PROVE 0 = l
    <3>1. Len(g[0]) = 0
      <4>1. 0 \in 0..n
        BY <1>1
      <4> QED BY <1>1, <1>41, <4>1
    <3>2. l # 0 => Len(h[l]) # 0
      BY <1>1, <1>42
    <3> QED BY <2>1, <3>1, <3>2
  <2>2. \A i \in 1..0 : s[i] = t[i]
    OBVIOUS
  <2> QED BY <2>1, <2>2
<1>6. ASSUME NEW k \in 0..(n - 1), k \in T PROVE k + 1 \in T
  <2>1. k + 1 \in 0..n /\ k + 1 # 0 /\ k + 1 - 1 = k /\ k + 1 \in Nat /\ k \in 0..n
    BY <1>1
  <2>2. ASSUME NEW l \in 0..m, g[k + 1] = h[l]
        PROVE  k + 1 = l /\ \A i \in 1..(k + 1) : s[i] = t[i]
    <3>1. Len(g[k + 1]) # 0
      BY <1>1, <1>41, <2>1
    <3>2. l # 0
      BY <1>1, <1>42, <2>2, <3>1
    <3> DEFINE p == g[k]
               x == s[k + 1]
               q == h[l - 1]
               y == t[l]
    <3>3. g[k + 1] = p \o x /\ Segment(x, d) /\ Closed(p, d)
      <4>1. g[k + 1] = g[k] \o s[k + 1] /\ Segment(s[k + 1], d)
        <5> DEFINE j == k + 1
        <5>1. j \in 0..n /\ j # 0 /\ j - 1 = k
          BY <2>1
        <5> HIDE DEF j, n
        <5>2. g[j] = g[j - 1] \o s[j] /\ Segment(s[j], d)
          BY <1>41, <5>1
        <5>3. g[j] = g[k] \o s[j] /\ Segment(s[j], d)
          BY <5>1, <5>2, Zenon
        <5> QED BY <5>3 DEF j
      <4>2. Closed(g[k], d)
        BY <1>1, <1>41, <2>1
      <4> QED BY <4>1, <4>2, Zenon
    <3>4. h[l] = q \o y /\ Segment(y, d) /\ Closed(q, d) /\ l - 1 \in 0..m
      <4>1. h[l] = h[l - 1] \o t[l] /\ Segment(t[l], d) /\ l - 1 \in 0..m
        BY <1>1, <1>42, <3>2
      <4>2. Closed(h[l - 1], d)
        BY <1>1, <1>42, <4>1
      <4> QED BY <4>1, <4>2
    <3>5. p = q /\ x = y
      <4> HIDE DEF p, q, x, y
      <4>1. SameJoin(p, x, q, y)
        BY <2>2, <3>3, <3>4, Zenon DEF SameJoin, Closed, Segment
      <4> QED BY <3>3, <3>4, <4>1, LastSegment
    <3>6. k = l - 1 /\ \A i \in 1..k : s[i] = t[i]
      BY <1>6, <3>4, <3>5
    <3>7. k + 1 = l
      BY <3>6
    <3>8. s[k + 1] = t[k + 1]
      BY <3>5, <3>7
    <3> QED BY <3>6, <3>7, <3>8
  <2> QED BY <2>1, <2>2
<1>7. \A k \in 0..n : k \in T
  <2> HIDE DEF T, n
  <2> QED BY <1>1, <1>5, <1>6, UpToInduction
<1>8. Matched(n)
  <2>1. n \in T
    <3> HIDE DEF T
    <3> QED BY <1>1, <1>7
  <2> QED BY <2>1
<1>9. n = m /\ \A i \in 1..n : s[i] = t[i]
  <2>1. m \in 0..m
    BY <1>1
  <2>2. g[n] = h[m]
    BY <1>2, <1>3, Zenon
  <2> QED BY <1>8, <2>1, <2>2
<1> QED BY <1>9, SameLists

(* What lists without a mark make up, alone and with the mark behind them.    *)
LEMMA JoinedMarks ==
  ASSUME NEW d, NEW a, NEW b
  PROVE  /\ Free(a, d) /\ Free(b, d) => Free(a \o b, d)
         /\ IsList(a) => Closed(a \o <<d>>, d)
         /\ Free(a, d) => Segment(a \o <<d>>, d)
<1>1. IsList(<<d>>) /\ Len(<<d>>) = 1 /\ <<d>>[1] = d
  <2>1. <<d>> \in Seq({d})
    OBVIOUS
  <2> QED BY <2>1, ListFacts
<1>2. ASSUME Free(a, d), Free(b, d) PROVE Free(a \o b, d)
  <2>1. IsList(a) /\ IsList(b)
    BY <1>2 DEF Free
  <2>2. Len(a) \in Nat /\ Len(b) \in Nat
    BY <2>1, ListShape
  <2>3. ASSUME NEW i \in 1..(Len(a) + Len(b)) PROVE (a \o b)[i] # d
    <3>1. CASE i \in 1..Len(a)
      BY <1>2, <2>1, <3>1, JoinedLists DEF Free
    <3>2. CASE i \in (Len(a) + 1)..(Len(a) + Len(b))
      <4>1. (a \o b)[i] = b[i - Len(a)] /\ i - Len(a) \in 1..Len(b)
        BY <2>1, <2>2, <3>2, JoinedLists
      <4> QED BY <1>2, <4>1 DEF Free
    <3> QED BY <2>2, <3>1, <3>2
  <2> QED BY <2>1, <2>3, JoinedLists DEF Free
<1> DEFINE e == <<d>>
<1>3. IsList(e) /\ Len(e) = 1 /\ e[1] = d
  BY <1>1
<1> HIDE DEF e
<1>4. ASSUME IsList(a)
      PROVE  /\ IsList(a \o e) /\ Len(a) \in Nat /\ Len(a \o e) = Len(a) + 1 /\ (a \o e)[Len(a) + 1] = d
             /\ \A i \in 1..Len(a) : (a \o e)[i] = a[i]
  <2>1. 1 \in 1..Len(e) /\ Len(a) \in Nat
    BY <1>3, <1>4, ListShape
  <2>2. \A i \in 1..Len(e) : (a \o e)[Len(a) + i] = e[i]
    BY <1>3, <1>4, JoinedLists
  <2>3. IsList(a \o e) /\ Len(a \o e) = Len(a) + Len(e) /\ \A i \in 1..Len(a) : (a \o e)[i] = a[i]
    BY <1>3, <1>4, JoinedLists
  <2> QED BY <1>3, <2>1, <2>2, <2>3
<1>5. ASSUME IsList(a) PROVE Closed(a \o e, d)
  <2>1. IsList(a \o e) /\ (a \o e)[Len(a \o e)] = d
    BY <1>4, <1>5
  <2> QED BY <2>1 DEF Closed
<1>6. ASSUME Free(a, d) PROVE Segment(a \o e, d)
  <2>1. IsList(a) /\ \A i \in 1..Len(a) : a[i] # d
    BY <1>6 DEF Free
  <2>2. /\ IsList(a \o e) /\ Len(a) \in Nat /\ Len(a \o e) = Len(a) + 1 /\ (a \o e)[Len(a \o e)] = d
        /\ \A i \in 1..Len(a) : (a \o e)[i] = a[i]
    BY <1>4, <2>1
  <2>3. Len(a \o e) # 0 /\ Len(a \o e) - 1 = Len(a)
    BY <2>2
  <2> QED BY <2>1, <2>2, <2>3 DEF Segment
<1> QED BY <1>2, <1>5, <1>6 DEF e

(* The symbols of a fingerprint. *)
Word(x) == <<"field", x>>
Sign(level) == <<"mark", level>>

(* A field is one word and a mark one sign, and neither is taken for another. *)
LEMMA Symbols ==
  /\ \A x, l : Word(x) # Sign(l)
  /\ \A x, y : Word(x) = Word(y) => x = y
  /\ \A l, m : Sign(l) = Sign(m) => l = m
  /\ \A x : Field(x) = <<Word(x)>> /\ IsList(Field(x)) /\ Len(Field(x)) = 1 /\ Field(x)[1] = Word(x)
  /\ \A l : Mark(l) = <<Sign(l)>> /\ IsList(Mark(l)) /\ Len(Mark(l)) = 1 /\ Mark(l)[1] = Sign(l)
  /\ \A x, l : Free(Field(x), Sign(l))
  /\ \A l, m : l # m => Free(Mark(l), Sign(m))
<1>1. \A x, l : Word(x) # Sign(l)
  BY DEF Word, Sign
<1>2. (\A x, y : Word(x) = Word(y) => x = y) /\ \A l, m : Sign(l) = Sign(m) => l = m
  BY DEF Word, Sign
<1>3. \A x : Field(x) = <<Word(x)>> /\ IsList(Field(x)) /\ Len(Field(x)) = 1 /\ Field(x)[1] = Word(x)
  <2> SUFFICES ASSUME NEW x
               PROVE  Field(x) = <<Word(x)>> /\ IsList(Field(x)) /\ Len(Field(x)) = 1 /\ Field(x)[1] = Word(x)
    OBVIOUS
  <2>1. Field(x) = <<Word(x)>>
    BY DEF Field, Word
  <2>2. <<Word(x)>> \in Seq({Word(x)})
    OBVIOUS
  <2>3. IsList(<<Word(x)>>)
    BY <2>2, ListFacts
  <2> QED BY <2>1, <2>3
<1>4. \A l : Mark(l) = <<Sign(l)>> /\ IsList(Mark(l)) /\ Len(Mark(l)) = 1 /\ Mark(l)[1] = Sign(l)
  <2> SUFFICES ASSUME NEW l
               PROVE  Mark(l) = <<Sign(l)>> /\ IsList(Mark(l)) /\ Len(Mark(l)) = 1 /\ Mark(l)[1] = Sign(l)
    OBVIOUS
  <2>1. Mark(l) = <<Sign(l)>>
    BY DEF Mark, Sign
  <2>2. <<Sign(l)>> \in Seq({Sign(l)})
    OBVIOUS
  <2>3. IsList(<<Sign(l)>>)
    BY <2>2, ListFacts
  <2> QED BY <2>1, <2>3
<1>5. ASSUME NEW s, IsList(s), Len(s) = 1, NEW d, s[1] # d PROVE Free(s, d)
  BY <1>5 DEF Free
<1>6. \A x, l : Free(Field(x), Sign(l))
  BY <1>1, <1>3, <1>5
<1>7. \A l, m : l # m => Free(Mark(l), Sign(m))
  BY <1>2, <1>4, <1>5
<1> QED BY <1>1, <1>2, <1>3, <1>4, <1>6, <1>7

(* The fields of a list are its elements. *)
LEMMA FieldsFacts ==
  ASSUME NEW s, IsList(s)
  PROVE  /\ IsList(FieldsOf(s)) /\ Len(FieldsOf(s)) = Len(s)
         /\ \A i \in 1..Len(s) : FieldsOf(s)[i] = Word(s[i])
         /\ \A l : Free(FieldsOf(s), Sign(l))
<1> DEFINE n == Len(s)
           parts == [i \in DOMAIN s |-> Field(s[i])]
<1>1. n \in Nat /\ DOMAIN s = 1..n
  BY ListShape
<1>2. IsList(parts) /\ Len(parts) = n /\ \A k \in 1..n : parts[k] = Field(s[k])
  <2> DEFINE S == {Field(s[i]) : i \in DOMAIN s}
  <2>1. parts \in [1..n -> S]
    BY <1>1
  <2>2. parts \in Seq(S)
    <3> HIDE DEF parts, S, n
    <3> QED BY <1>1, <2>1
  <2>3. Len(parts) = n
    <3> HIDE DEF parts, S, n
    <3> QED BY <1>1, <2>1
  <2>4. \A k \in 1..n : parts[k] = Field(s[k])
    BY <1>1
  <2> HIDE DEF parts
  <2> QED BY <2>2, <2>3, <2>4, ListFacts
<1>3. FieldsOf(s) = FlattenSeq(parts)
  BY DEF FieldsOf
<1> HIDE DEF parts
<1>4. PICK g : FirstParts(g, parts) /\ FlattenSeq(parts) = g[n]
  <2>1. \A k \in 1..n : IsList(parts[k])
    BY <1>2, Symbols
  <2> QED BY <1>2, <2>1, FlattenFacts
<1> DEFINE Spelt(k) == Len(g[k]) = k /\ \A i \in 1..k : g[k][i] = Word(s[i])
           T == {k \in Nat : Spelt(k)}
<1>5. 0 \in T
  <2>1. g[0] = <<>>
    BY <1>4 DEF FirstParts
  <2>2. Len(g[0]) = 0
    BY <2>1
  <2> QED BY <2>2
<1>6. ASSUME NEW k \in 0..(n - 1), k \in T PROVE k + 1 \in T
  <2> DEFINE j == k + 1
  <2>1. j \in 1..n /\ j - 1 = k /\ k \in 0..n /\ k \in Nat /\ j \in Nat
    BY <1>1
  <2> HIDE DEF j, n
  <2> DEFINE a == g[k]
             b == Field(s[j])
  <2>2. g[j] = a \o b
    <3>1. g[j] = g[j - 1] \o parts[j]
      BY <1>2, <1>4, <2>1 DEF FirstParts
    <3> QED BY <1>2, <2>1, <3>1, Zenon
  <2>3. IsList(a) /\ IsList(b) /\ Len(b) = 1 /\ b[1] = Word(s[j])
    BY <1>2, <1>4, <2>1, Symbols DEF FirstParts
  <2>4. Len(a) = k /\ \A i \in 1..k : a[i] = Word(s[i])
    BY <1>6
  <2> HIDE DEF a, b
  <2>5. Len(a \o b) = k + 1 /\ \A i \in 1..k : (a \o b)[i] = Word(s[i])
    <3>1. IsList(a) /\ IsList(b)
      BY <2>3
    <3>2. Len(a \o b) = Len(a) + Len(b) /\ \A i \in 1..Len(a) : (a \o b)[i] = a[i]
      BY <3>1, JoinedLists
    <3> QED BY <2>3, <2>4, <3>2
  <2>6. (a \o b)[k + 1] = Word(s[j])
    <3>1. \A i \in 1..Len(b) : (a \o b)[Len(a) + i] = b[i]
      BY <2>3, JoinedLists
    <3>2. 1 \in 1..Len(b)
      BY <2>3
    <3> QED BY <2>3, <2>4, <3>1, <3>2
  <2>7. Len(a \o b) = j /\ \A i \in 1..j : (a \o b)[i] = Word(s[i])
    BY <2>1, <2>5, <2>6 DEF j
  <2>8. Spelt(j)
    BY <2>2, <2>7, Zenon
  <2> QED BY <2>1, <2>8 DEF j
<1>7. \A k \in 0..n : k \in T
  <2> HIDE DEF T, n
  <2> QED BY <1>1, <1>5, <1>6, UpToInduction
<1>8. Spelt(n)
  <2>1. n \in T
    <3> HIDE DEF T
    <3> QED BY <1>1, <1>7
  <2> QED BY <2>1
<1>9. IsList(g[n])
  <2>1. n \in 0..n
    BY <1>1
  <2> QED BY <1>2, <1>4, <2>1 DEF FirstParts
<1>10. \A l : Free(g[n], Sign(l))
  BY <1>8, <1>9, Symbols DEF Free
<1>11. FieldsOf(s) = g[n]
  BY <1>3, <1>4
<1> QED BY <1>8, <1>9, <1>10, <1>11

(* So lists with the same fields are the same. *)
LEMMA FieldsAreRead ==
  ASSUME NEW s, NEW t, IsList(s), IsList(t), FieldsOf(s) = FieldsOf(t)
  PROVE  s = t
<1>1. Len(s) = Len(t)
  BY FieldsFacts
<1>2. ASSUME NEW i \in 1..Len(s) PROVE s[i] = t[i]
  <2>1. Word(s[i]) = Word(t[i])
    BY <1>1, FieldsFacts
  <2> QED BY <2>1, Symbols
<1> QED BY <1>1, <1>2, SameLists

(* A function of a list's places is a list of its length. *)
LEMMA OverPlaces ==
  ASSUME NEW s, IsList(s), NEW parts, parts = [i \in DOMAIN s |-> parts[i]]
  PROVE  IsList(parts) /\ Len(parts) = Len(s) /\ DOMAIN parts = 1..Len(s)
<1> DEFINE n == Len(s)
           S == {parts[i] : i \in 1..n}
<1>1. n \in Nat /\ DOMAIN s = 1..n
  BY ListShape
<1>2. parts = [i \in 1..n |-> parts[i]]
  BY <1>1
<1>3. parts \in [1..n -> S]
  BY <1>2
<1> HIDE DEF S, n
<1>4. parts \in Seq(S) /\ Len(parts) = n
  BY <1>1, <1>3
<1> QED BY <1>3, <1>4, ListFacts DEF n

-----------------------------------------------------------------------------
(* A target's fields: three words, then its two lists. *)
Head3(t) == Field(t.name) \o Field(t.probe) \o Field(t.host)
WithSlaves(t) == Head3(t) \o FieldsOf(t.slaves)
WithLists(t) == (WithSlaves(t) \o Mark("list")) \o FieldsOf(t.alerts)

(* Three fields are three words. *)
LEMMA HeadFacts ==
  ASSUME NEW t
  PROVE  /\ IsList(Head3(t)) /\ Len(Head3(t)) = 3 /\ \A l : Free(Head3(t), Sign(l))
         /\ Head3(t)[1] = Word(t.name) /\ Head3(t)[2] = Word(t.probe) /\ Head3(t)[3] = Word(t.host)
<1> DEFINE a == Field(t.name)
           b == Field(t.probe)
           c == Field(t.host)
<1>1. /\ IsList(a) /\ Len(a) = 1 /\ a[1] = Word(t.name) /\ \A l : Free(a, Sign(l))
      /\ IsList(b) /\ Len(b) = 1 /\ b[1] = Word(t.probe) /\ \A l : Free(b, Sign(l))
      /\ IsList(c) /\ Len(c) = 1 /\ c[1] = Word(t.host) /\ \A l : Free(c, Sign(l))
  BY Symbols
<1>2. Head3(t) = (a \o b) \o c
  BY DEF Head3
<1> HIDE DEF a, b, c
<1> DEFINE ab == a \o b
<1>3. /\ IsList(ab) /\ Len(ab) = 2 /\ \A l : Free(ab, Sign(l))
      /\ ab[1] = Word(t.name) /\ ab[2] = Word(t.probe)
  <2>1. IsList(ab) /\ Len(ab) = Len(a) + Len(b)
    BY <1>1, JoinedLists
  <2>3. \A i \in 1..Len(a) : ab[i] = a[i]
    BY <1>1, JoinedLists
  <2>4. \A i \in 1..Len(b) : ab[Len(a) + i] = b[i]
    <3>1. IsList(a) /\ IsList(b)
      BY <1>1
    <3> QED BY <3>1, JoinedLists
  <2>5. ab[Len(a) + 1] = b[1]
    <3>1. 1 \in 1..Len(b)
      BY <1>1
    <3> QED BY <2>4, <3>1
  <2>2. \A l : Free(ab, Sign(l))
    BY <1>1, JoinedMarks
  <2> HIDE DEF ab
  <2> QED BY <1>1, <2>1, <2>2, <2>3, <2>5
<1> HIDE DEF ab
<1> DEFINE abc == ab \o c
<1>4. /\ IsList(abc) /\ Len(abc) = 3 /\ \A l : Free(abc, Sign(l))
      /\ abc[1] = Word(t.name) /\ abc[2] = Word(t.probe) /\ abc[3] = Word(t.host)
  <2>1. IsList(abc) /\ Len(abc) = Len(ab) + Len(c)
    BY <1>1, <1>3, JoinedLists
  <2>3. \A i \in 1..Len(ab) : abc[i] = ab[i]
    BY <1>1, <1>3, JoinedLists
  <2>4. \A i \in 1..Len(c) : abc[Len(ab) + i] = c[i]
    <3>1. IsList(ab) /\ IsList(c)
      BY <1>1, <1>3
    <3> QED BY <3>1, JoinedLists
  <2>5. abc[Len(ab) + 1] = c[1]
    <3>1. 1 \in 1..Len(c)
      BY <1>1, <1>3
    <3> QED BY <2>4, <3>1
  <2>2. \A l : Free(abc, Sign(l))
    BY <1>1, <1>3, JoinedMarks
  <2> HIDE DEF abc
  <2> QED BY <1>1, <1>3, <2>1, <2>2, <2>3, <2>5
<1> QED BY <1>2, <1>4 DEF ab

(* A target is an entry, and has one mark inside, between its lists.          *)
LEMMA TargetIsEntry ==
  ASSUME NEW t, IsTarget(t)
  PROVE  /\ TargetFields(t) = WithLists(t) \o Mark("entry")
         /\ Segment(TargetFields(t), Sign("entry")) /\ Free(TargetFields(t), Sign("block"))
         /\ IsList(WithLists(t)) /\ IsList(WithSlaves(t))
         /\ Closed(WithSlaves(t) \o Mark("list"), Sign("list"))
         /\ Free(FieldsOf(t.alerts), Sign("list"))
<1> DEFINE a == WithSlaves(t)
           b == a \o Mark("list")
           c == b \o FieldsOf(t.alerts)
<1>1. TargetFields(t) = c \o Mark("entry") /\ c = WithLists(t)
  BY DEF TargetFields, WithLists, WithSlaves, Head3
<1>2. IsList(t.slaves) /\ IsList(t.alerts)
  BY DEF IsTarget
<1>3. \A l : Free(a, Sign(l))
  BY <1>2, HeadFacts, FieldsFacts, JoinedMarks DEF WithSlaves
<1>4. Free(b, Sign("entry")) /\ Free(b, Sign("block")) /\ Closed(b, Sign("list"))
  <2>1. Mark("list") = <<Sign("list")>> /\ Free(Mark("list"), Sign("entry")) /\ Free(Mark("list"), Sign("block"))
    BY Symbols
  <2>2. IsList(a)
    BY <1>3 DEF Free
  <2> HIDE DEF a
  <2> QED BY <1>3, <2>1, <2>2, JoinedMarks
<1> HIDE DEF a, b
<1>5. Free(c, Sign("entry")) /\ Free(c, Sign("block"))
  BY <1>2, <1>4, FieldsFacts, JoinedMarks
<1> HIDE DEF c
<1>6. Segment(c \o Mark("entry"), Sign("entry")) /\ Free(c \o Mark("entry"), Sign("block"))
  <2>1. Mark("entry") = <<Sign("entry")>> /\ Free(Mark("entry"), Sign("block"))
    BY Symbols
  <2> QED BY <1>5, <2>1, JoinedMarks
<1>7. IsList(a) /\ IsList(c) /\ Free(FieldsOf(t.alerts), Sign("list"))
  BY <1>2, <1>3, <1>5, FieldsFacts DEF Free
<1> QED BY <1>1, <1>4, <1>6, <1>7 DEF a, b

(* A target is read back from its fields. *)
LEMMA TargetIsRead ==
  ASSUME NEW t, NEW u, IsTarget(t), IsTarget(u), TargetFields(t) = TargetFields(u)
  PROVE  t = u
<1>0. \A l : IsList(Mark(l)) /\ Len(Mark(l)) = 1
  BY Symbols
<1>1. WithLists(t) = WithLists(u)
  <2>1. SameJoin(WithLists(t), Mark("entry"), WithLists(u), Mark("entry"))
    BY <1>0, TargetIsEntry DEF SameJoin
  <2> QED BY <2>1, SameBack
<1>2. IsList(t.slaves) /\ IsList(t.alerts) /\ IsList(u.slaves) /\ IsList(u.alerts)
  BY DEF IsTarget
<1>3. /\ WithSlaves(t) \o Mark("list") = WithSlaves(u) \o Mark("list")
      /\ FieldsOf(t.alerts) = FieldsOf(u.alerts)
  <2> DEFINE a == WithSlaves(t) \o Mark("list")
             b == WithSlaves(u) \o Mark("list")
             x == FieldsOf(t.alerts)
             y == FieldsOf(u.alerts)
  <2>1. /\ Closed(a, Sign("list")) /\ Closed(b, Sign("list"))
        /\ Free(x, Sign("list")) /\ Free(y, Sign("list"))
    BY TargetIsEntry
  <2>2. a \o x = b \o y
    BY <1>1 DEF WithLists
  <2> HIDE DEF a, b, x, y
  <2>3. SameJoin(a, x, b, y)
    BY <2>1, <2>2 DEF SameJoin, Closed, Free
  <2>4. a = b /\ x = y
    BY <2>1, <2>3, LastCut
  <2> QED BY <2>4 DEF a, b, x, y
<1>4. WithSlaves(t) = WithSlaves(u)
  <2>1. SameJoin(WithSlaves(t), Mark("list"), WithSlaves(u), Mark("list"))
    BY <1>0, <1>3, TargetIsEntry DEF SameJoin
  <2> QED BY <2>1, SameBack
<1>5. Head3(t) = Head3(u) /\ FieldsOf(t.slaves) = FieldsOf(u.slaves)
  <2>1. SameJoin(Head3(t), FieldsOf(t.slaves), Head3(u), FieldsOf(u.slaves))
    BY <1>2, <1>4, HeadFacts, FieldsFacts DEF SameJoin, WithSlaves
  <2>2. Len(Head3(t)) = Len(Head3(u))
    BY HeadFacts
  <2> QED BY <2>1, <2>2, SameFront
<1>6. t.slaves = u.slaves /\ t.alerts = u.alerts
  BY <1>2, <1>3, <1>5, FieldsAreRead
<1>7. t.name = u.name /\ t.probe = u.probe /\ t.host = u.host
  <2>1. Word(t.name) = Word(u.name) /\ Word(t.probe) = Word(u.probe) /\ Word(t.host) = Word(u.host)
    BY <1>5, HeadFacts
  <2> QED BY <2>1, Symbols
<1> QED BY <1>6, <1>7 DEF IsTarget

(* The entries of a group. *)
Entries(g) == [i \in DOMAIN g.targets |-> TargetFields(g.targets[i])]

(* A group is a block. *)
LEMMA GroupIsBlock ==
  ASSUME NEW g, IsGroup(g)
  PROVE  /\ GroupFields(g) = (Field(g.group) \o FlattenSeq(Entries(g))) \o Mark("block")
         /\ Segment(GroupFields(g), Sign("block"))
         /\ IsList(Entries(g)) /\ Len(Entries(g)) = Len(g.targets)
         /\ \A i \in 1..Len(g.targets) : /\ Entries(g)[i] = TargetFields(g.targets[i])
                                         /\ IsTarget(g.targets[i])
                                         /\ Segment(Entries(g)[i], Sign("entry"))
         /\ IsList(FlattenSeq(Entries(g)))
<1> DEFINE e == Entries(g)
<1>1. IsList(g.targets) /\ DOMAIN g.targets = 1..Len(g.targets) /\ \A i \in DOMAIN g.targets : IsTarget(g.targets[i])
  BY ListShape DEF IsGroup
<1>2. IsList(e) /\ Len(e) = Len(g.targets)
  <2>1. e = [i \in DOMAIN g.targets |-> e[i]]
    BY DEF Entries
  <2> HIDE DEF e
  <2> QED BY <1>1, <2>1, OverPlaces
<1>3. \A i \in 1..Len(g.targets) : e[i] = TargetFields(g.targets[i]) /\ IsTarget(g.targets[i])
  BY <1>1 DEF Entries
<1>4. \A i \in 1..Len(g.targets) : Segment(e[i], Sign("entry")) /\ Free(e[i], Sign("block"))
  BY <1>3, TargetIsEntry
<1>5. Free(FlattenSeq(e), Sign("block"))
  BY <1>2, <1>4, FlattenedMarks
<1> DEFINE a == Field(g.group)
           b == FlattenSeq(e)
<1>6. GroupFields(g) = (a \o b) \o Mark("block")
  BY DEF GroupFields, Entries
<1>7. Free(a, Sign("block")) /\ Mark("block") = <<Sign("block")>>
  BY Symbols
<1> HIDE DEF a, b
<1>8. Segment((a \o b) \o Mark("block"), Sign("block"))
  BY <1>5, <1>7, JoinedMarks DEF b
<1>9. IsList(b)
  BY <1>5 DEF Free, b
<1> QED BY <1>2, <1>3, <1>4, <1>6, <1>8, <1>9 DEF a, b

(* A group is read back from its fields. *)
LEMMA GroupIsRead ==
  ASSUME NEW g, NEW h, IsGroup(g), IsGroup(h), GroupFields(g) = GroupFields(h)
  PROVE  g = h
<1> DEFINE a(k) == Field(k.group) \o FlattenSeq(Entries(k))
<1>1. \A k : IsList(Field(k.group)) /\ Len(Field(k.group)) = 1 /\ Field(k.group)[1] = Word(k.group)
  BY Symbols
<1>2. IsList(FlattenSeq(Entries(g))) /\ IsList(FlattenSeq(Entries(h)))
  BY GroupIsBlock
<1>3. a(g) = a(h)
  <2>1. IsList(a(g)) /\ IsList(a(h))
    BY <1>1, <1>2, JoinedLists
  <2>2. a(g) \o Mark("block") = a(h) \o Mark("block")
    BY GroupIsBlock
  <2>3. IsList(Mark("block"))
    BY Symbols
  <2> DEFINE p == a(g)
             q == a(h)
             m == Mark("block")
  <2>4. SameJoin(p, m, q, m)
    BY <2>1, <2>2, <2>3 DEF SameJoin
  <2> HIDE DEF p, q, m
  <2>5. p = q
    BY <2>4, SameBack
  <2> QED BY <2>5 DEF p, q
<1>4. Field(g.group) = Field(h.group) /\ FlattenSeq(Entries(g)) = FlattenSeq(Entries(h))
  <2> DEFINE p == Field(g.group)
             q == Field(h.group)
             x == FlattenSeq(Entries(g))
             y == FlattenSeq(Entries(h))
  <2>1. IsList(p) /\ IsList(q) /\ IsList(x) /\ IsList(y) /\ p \o x = q \o y /\ Len(p) = Len(q)
    BY <1>1, <1>2, <1>3
  <2> HIDE DEF p, q, x, y
  <2>3. SameJoin(p, x, q, y)
    BY <2>1 DEF SameJoin
  <2>2. p = q /\ x = y
    BY <2>1, <2>3, SameFront
  <2> QED BY <2>2 DEF p, q, x, y
<1>5. g.group = h.group
  <2>1. Word(g.group) = Word(h.group)
    BY <1>1, <1>4
  <2> QED BY <2>1, Symbols
<1>6. Entries(g) = Entries(h)
  <2> DEFINE x == Entries(g)
             y == Entries(h)
  <2>1. /\ IsList(x) /\ IsList(y) /\ FlattenSeq(x) = FlattenSeq(y)
        /\ \A i \in 1..Len(x) : Segment(x[i], Sign("entry"))
        /\ \A i \in 1..Len(y) : Segment(y[i], Sign("entry"))
    BY <1>4, GroupIsBlock
  <2> HIDE DEF x, y
  <2>2. x = y
    BY <2>1, SegmentsAreFound
  <2> QED BY <2>2 DEF x, y
<1>7. g.targets = h.targets
  <2>1. Len(g.targets) = Len(h.targets) /\ IsList(g.targets) /\ IsList(h.targets)
    BY <1>6, GroupIsBlock DEF IsGroup
  <2>2. ASSUME NEW i \in 1..Len(g.targets) PROVE g.targets[i] = h.targets[i]
    <3>1. /\ TargetFields(g.targets[i]) = TargetFields(h.targets[i])
          /\ IsTarget(g.targets[i]) /\ IsTarget(h.targets[i])
      BY <1>6, <2>1, GroupIsBlock
    <3> QED BY <3>1, TargetIsRead
  <2> QED BY <2>1, <2>2, SameLists
<1> QED BY <1>5, <1>7 DEF IsGroup

-----------------------------------------------------------------------------
(* What a scheduler is built from.  Ahead of the groups stand the shape, the  *)
(* source and the health probe.                                               *)
IsView(v) ==
  /\ v = [source |-> v.source, shape |-> v.shape, health |-> v.health, groups |-> v.groups]
  /\ IsList(v.health) /\ IsGroups(v.groups)

Start4(v) == Field(v.shape) \o Mark("block") \o Field(v.source) \o Mark("block")
Preamble(v) == (Start4(v) \o FieldsOf(v.health)) \o Mark("block")
Blocks(v) == [i \in DOMAIN v.groups |-> GroupFields(v.groups[i])]

(* The four symbols it starts with. *)
LEMMA StartFacts ==
  ASSUME NEW v
  PROVE  /\ IsList(Start4(v)) /\ Len(Start4(v)) = 4
         /\ Start4(v)[1] = Word(v.shape) /\ Start4(v)[3] = Word(v.source)
<1> DEFINE a == Field(v.shape)
           m == Mark("block")
           b == Field(v.source)
<1>1. /\ IsList(a) /\ Len(a) = 1 /\ a[1] = Word(v.shape)
      /\ IsList(b) /\ Len(b) = 1 /\ b[1] = Word(v.source)
      /\ IsList(m) /\ Len(m) = 1
  BY Symbols
<1>2. Start4(v) = ((a \o m) \o b) \o m
  BY DEF Start4
<1> HIDE DEF a, b, m
<1> DEFINE x == a \o m
<1>3. IsList(x) /\ Len(x) = 2 /\ x[1] = Word(v.shape)
  <2>1. IsList(x) /\ Len(x) = Len(a) + Len(m)
    BY <1>1, JoinedLists
  <2>2. \A i \in 1..Len(a) : x[i] = a[i]
    BY <1>1, JoinedLists
  <2> HIDE DEF x
  <2> QED BY <1>1, <2>1, <2>2
<1> HIDE DEF x
<1> DEFINE y == x \o b
<1>4. IsList(y) /\ Len(y) = 3 /\ y[1] = Word(v.shape) /\ y[3] = Word(v.source)
  <2>1. IsList(y) /\ Len(y) = Len(x) + Len(b)
    BY <1>1, <1>3, JoinedLists
  <2>2. \A i \in 1..Len(x) : y[i] = x[i]
    BY <1>1, <1>3, JoinedLists
  <2>3. \A i \in 1..Len(b) : y[Len(x) + i] = b[i]
    <3>1. IsList(x) /\ IsList(b)
      BY <1>1, <1>3
    <3> QED BY <3>1, JoinedLists
  <2>4. y[Len(x) + 1] = b[1]
    <3>1. 1 \in 1..Len(b)
      BY <1>1
    <3> QED BY <2>3, <3>1
  <2> HIDE DEF y
  <2> QED BY <1>1, <1>3, <2>1, <2>2, <2>4
<1> HIDE DEF y
<1> DEFINE z == y \o m
<1>5. IsList(z) /\ Len(z) = 4 /\ z[1] = Word(v.shape) /\ z[3] = Word(v.source)
  <2>1. IsList(z) /\ Len(z) = Len(y) + Len(m)
    BY <1>1, <1>4, JoinedLists
  <2>2. \A i \in 1..Len(y) : z[i] = y[i]
    BY <1>1, <1>4, JoinedLists
  <2> HIDE DEF z
  <2> QED BY <1>1, <1>4, <2>1, <2>2
<1> QED BY <1>2, <1>5 DEF x, y

(* The preamble ends with the first mark behind those four. *)
LEMMA PreambleFacts ==
  ASSUME NEW v, IsList(v.health)
  PROVE  LET n == Len(v.health)
         IN  /\ n \in Nat /\ IsList(Preamble(v)) /\ Len(Preamble(v)) = n + 5
             /\ Preamble(v)[n + 5] = Sign("block")
             /\ \A i \in 1..n : Preamble(v)[4 + i] = Word(v.health[i])
             /\ Preamble(v)[1] = Word(v.shape) /\ Preamble(v)[3] = Word(v.source)
             /\ Closed(Preamble(v), Sign("block"))
<1> DEFINE n == Len(v.health)
           a == Start4(v)
           b == FieldsOf(v.health)
           m == Mark("block")
           x == a \o b
           y == x \o m
<1>1. /\ IsList(a) /\ Len(a) = 4 /\ a[1] = Word(v.shape) /\ a[3] = Word(v.source)
      /\ IsList(b) /\ Len(b) = n /\ n \in Nat /\ \A i \in 1..n : b[i] = Word(v.health[i])
      /\ IsList(m) /\ Len(m) = 1 /\ m[1] = Sign("block") /\ m = <<Sign("block")>>
  BY StartFacts, FieldsFacts, Symbols, ListShape
<1>2. Preamble(v) = y
  BY DEF Preamble
<1> HIDE DEF a, b, m, n
<1>3. /\ IsList(x) /\ Len(x) = n + 4
      /\ \A i \in 1..4 : x[i] = a[i]
      /\ \A i \in 1..n : x[4 + i] = Word(v.health[i])
  <2>1. IsList(x) /\ Len(x) = Len(a) + Len(b)
    BY <1>1, JoinedLists
  <2>2. \A i \in 1..Len(a) : x[i] = a[i]
    <3>1. IsList(a) /\ IsList(b)
      BY <1>1
    <3> QED BY <3>1, JoinedLists
  <2>3. \A i \in 1..Len(b) : x[Len(a) + i] = b[i]
    <3>1. IsList(a) /\ IsList(b)
      BY <1>1
    <3> QED BY <3>1, JoinedLists
  <2> HIDE DEF x
  <2> QED BY <1>1, <2>1, <2>2, <2>3
<1> HIDE DEF x
<1>4. /\ IsList(y) /\ Len(y) = n + 5 /\ y[n + 5] = Sign("block")
      /\ \A i \in 1..(n + 4) : y[i] = x[i]
  <2>1. IsList(y) /\ Len(y) = Len(x) + Len(m)
    BY <1>1, <1>3, JoinedLists
  <2>2. \A i \in 1..Len(x) : y[i] = x[i]
    BY <1>1, <1>3, JoinedLists
  <2>3. \A i \in 1..Len(m) : y[Len(x) + i] = m[i]
    BY <1>1, <1>3, JoinedLists
  <2>4. y[Len(x) + 1] = m[1]
    <3>1. 1 \in 1..Len(m)
      BY <1>1
    <3> QED BY <2>3, <3>1
  <2> HIDE DEF y
  <2> QED BY <1>1, <1>3, <2>1, <2>2, <2>4
<1>5. Closed(y, Sign("block"))
  BY <1>1, <1>3, JoinedMarks
<1> HIDE DEF y
<1>6. /\ \A i \in 1..n : y[4 + i] = Word(v.health[i])
      /\ y[1] = Word(v.shape) /\ y[3] = Word(v.source)
  <2>1. \A i \in 1..n : 4 + i \in 1..(n + 4)
    BY <1>1
  <2>2. 1 \in 1..(n + 4) /\ 3 \in 1..(n + 4)
    BY <1>1
  <2> QED BY <1>1, <1>3, <1>4, <2>1, <2>2
<1> QED BY <1>1, <1>2, <1>4, <1>5, <1>6 DEF n

(* The groups are blocks. *)
LEMMA BlocksFacts ==
  ASSUME NEW v, IsView(v)
  PROVE  /\ Fingerprint(v) = Preamble(v) \o FlattenSeq(Blocks(v))
         /\ IsList(Blocks(v)) /\ Len(Blocks(v)) = Len(v.groups)
         /\ \A i \in 1..Len(v.groups) : /\ Blocks(v)[i] = GroupFields(v.groups[i]) /\ IsGroup(v.groups[i])
                                        /\ Segment(Blocks(v)[i], Sign("block"))
         /\ Closed(FlattenSeq(Blocks(v)), Sign("block")) /\ IsList(FlattenSeq(Blocks(v)))
<1>1. /\ IsList(v.groups) /\ DOMAIN v.groups = 1..Len(v.groups)
      /\ \A i \in 1..Len(v.groups) : IsGroup(v.groups[i])
  BY ListShape DEF IsView, IsGroups
<1> DEFINE b == Blocks(v)
<1>2. IsList(b) /\ Len(b) = Len(v.groups)
  <2>1. b = [i \in DOMAIN v.groups |-> b[i]]
    BY DEF Blocks
  <2> HIDE DEF b
  <2> QED BY <1>1, <2>1, OverPlaces
<1>3. \A i \in 1..Len(v.groups) : b[i] = GroupFields(v.groups[i]) /\ Segment(b[i], Sign("block"))
  BY <1>1, GroupIsBlock DEF Blocks
<1>4. Fingerprint(v) = Preamble(v) \o FlattenSeq(b)
  BY DEF Fingerprint, Preamble, Start4, Blocks
<1>5. Closed(FlattenSeq(b), Sign("block"))
  <2> HIDE DEF b
  <2> QED BY <1>2, <1>3, FlattenedMarks
<1>6. IsList(FlattenSeq(b))
  BY <1>5 DEF Closed
<1> QED BY <1>1, <1>2, <1>3, <1>4, <1>5, <1>6

(* A view is read back from its fingerprint. *)
LEMMA FingerprintIsRead ==
  ASSUME NEW v, NEW w, IsView(v), IsView(w), Fingerprint(v) = Fingerprint(w)
  PROVE  v = w
<1>1. IsList(v.health) /\ IsList(w.health) /\ IsList(v.groups) /\ IsList(w.groups)
  BY DEF IsView, IsGroups
<1>2. ASSUME NEW x, NEW y, IsView(x), IsView(y), Fingerprint(x) = Fingerprint(y),
             Len(x.health) < Len(y.health)
      PROVE  FALSE
  <2> DEFINE n == Len(x.health)
             m == Len(y.health)
             a == Preamble(x)
             b == Preamble(y)
             u == FlattenSeq(Blocks(x))
             t == FlattenSeq(Blocks(y))
  <2>1. IsList(x.health) /\ IsList(y.health)
    BY <1>2 DEF IsView
  <2>2. /\ n \in Nat /\ IsList(a) /\ Len(a) = n + 5 /\ a[n + 5] = Sign("block")
        /\ m \in Nat /\ IsList(b) /\ Len(b) = m + 5 /\ \A i \in 1..m : b[4 + i] = Word(y.health[i])
    BY <2>1, PreambleFacts
  <2>3. IsList(u) /\ IsList(t) /\ a \o u = b \o t
    BY <1>2, BlocksFacts
  <2> HIDE DEF a, b, u, t, n, m
  <2>4. n + 5 \in 1..Len(a) /\ n + 5 \in 1..Len(b) /\ n + 1 \in 1..m /\ 4 + (n + 1) = n + 5
    BY <1>2, <2>2 DEF n, m
  <2>5. (a \o u)[n + 5] = a[n + 5]
    BY <2>2, <2>3, <2>4, JoinedLists
  <2>6. (b \o t)[n + 5] = b[n + 5]
    BY <2>2, <2>3, <2>4, JoinedLists
  <2>7. b[n + 5] = Word(y.health[n + 1])
    <3>1. b[4 + (n + 1)] = Word(y.health[n + 1])
      BY <2>2, <2>4
    <3> QED BY <2>4, <3>1, Zenon
  <2>8. Sign("block") = Word(y.health[n + 1])
    BY <2>2, <2>3, <2>5, <2>6, <2>7, Zenon
  <2> QED BY <2>8, Symbols
<1>3. Len(v.health) = Len(w.health)
  <2>1. Len(v.health) \in Nat /\ Len(w.health) \in Nat
    BY <1>1, ListShape
  <2>2. ~(Len(v.health) < Len(w.health)) /\ ~(Len(w.health) < Len(v.health))
    BY <1>2
  <2> QED BY <2>1, <2>2
<1>4. Preamble(v) = Preamble(w) /\ FlattenSeq(Blocks(v)) = FlattenSeq(Blocks(w))
  <2> DEFINE a == Preamble(v)
             b == Preamble(w)
             u == FlattenSeq(Blocks(v))
             t == FlattenSeq(Blocks(w))
  <2>1. IsList(a) /\ IsList(b) /\ Len(a) = Len(b)
    BY <1>1, <1>3, PreambleFacts
  <2>2. IsList(u) /\ IsList(t) /\ a \o u = b \o t
    BY BlocksFacts
  <2> HIDE DEF a, b, u, t
  <2>3. SameJoin(a, u, b, t)
    BY <2>1, <2>2 DEF SameJoin
  <2>4. a = b /\ u = t
    BY <2>1, <2>3, SameFront
  <2> QED BY <2>4 DEF a, b, u, t
<1>5. v.shape = w.shape /\ v.source = w.source
  <2>1. Word(v.shape) = Word(w.shape) /\ Word(v.source) = Word(w.source)
    BY <1>1, <1>4, PreambleFacts
  <2> QED BY <2>1, Symbols
<1>6. v.health = w.health
  <2>1. ASSUME NEW i \in 1..Len(v.health) PROVE v.health[i] = w.health[i]
    <3>1. Word(v.health[i]) = Word(w.health[i])
      BY <1>1, <1>3, <1>4, PreambleFacts
    <3> QED BY <3>1, Symbols
  <2> QED BY <1>1, <1>3, <2>1, SameLists
<1>7. v.groups = w.groups
  <2> DEFINE x == Blocks(v)
             y == Blocks(w)
  <2>1. /\ IsList(x) /\ IsList(y) /\ FlattenSeq(x) = FlattenSeq(y)
        /\ \A i \in 1..Len(x) : Segment(x[i], Sign("block"))
        /\ \A i \in 1..Len(y) : Segment(y[i], Sign("block"))
    BY <1>4, BlocksFacts
  <2> HIDE DEF x, y
  <2>2. x = y
    BY <2>1, SegmentsAreFound
  <2>3. Len(v.groups) = Len(w.groups)
    BY <2>2, BlocksFacts DEF x, y
  <2>4. ASSUME NEW i \in 1..Len(v.groups) PROVE v.groups[i] = w.groups[i]
    <3>1. /\ GroupFields(v.groups[i]) = GroupFields(w.groups[i])
          /\ IsGroup(v.groups[i]) /\ IsGroup(w.groups[i])
      BY <2>2, <2>3, BlocksFacts DEF x, y
    <3> QED BY <3>1, GroupIsRead
  <2> QED BY <1>1, <2>3, <2>4, SameLists
<1> QED BY <1>5, <1>6, <1>7 DEF IsView

-----------------------------------------------------------------------------
(* Joining three lists, either pair first. *)
LEMMA Rejoined ==
  ASSUME NEW a, NEW b, NEW c, IsList(a), IsList(b), IsList(c)
  PROVE  a \o (b \o c) = (a \o b) \o c
<1> DEFINE T == ToSet(a) \cup ToSet(b) \cup ToSet(c)
<1>1. a \in Seq(T) /\ b \in Seq(T) /\ c \in Seq(T)
  BY DEF IsList
<1> HIDE DEF T
<1> QED BY <1>1

(* One field and its end; two fields and their end. *)
Alone(x) == Field(x) \o Mark("entry")
Pair(x, y) == (Field(x) \o Field(y)) \o Mark("entry")

(* Both are entries and are read back. *)
LEMMA ShortEntries ==
  ASSUME NEW x, NEW y, NEW u, NEW v
  PROVE  /\ Segment(Alone(x), Sign("entry")) /\ Free(Alone(x), Sign("block"))
         /\ Segment(Pair(x, y), Sign("entry")) /\ Free(Pair(x, y), Sign("block"))
         /\ Alone(x) = Alone(u) => x = u
         /\ Pair(x, y) = Pair(u, v) => x = u /\ y = v
<1> DEFINE e == Mark("entry")
<1>1. /\ \A w : /\ IsList(Field(w)) /\ Len(Field(w)) = 1 /\ Field(w)[1] = Word(w)
                /\ Free(Field(w), Sign("entry")) /\ Free(Field(w), Sign("block"))
      /\ IsList(e) /\ Len(e) = 1 /\ e = <<Sign("entry")>> /\ Free(e, Sign("block"))
  BY Symbols
<1>2. \A w : Segment(Alone(w), Sign("entry")) /\ Free(Alone(w), Sign("block"))
  <2> HIDE DEF e
  <2>1. \A w : Alone(w) = Field(w) \o e
    BY DEF Alone, e
  <2> QED BY <1>1, <2>1, JoinedMarks
<1>3. \A w, z : /\ Free(Field(w) \o Field(z), Sign("entry")) /\ Free(Field(w) \o Field(z), Sign("block"))
                /\ IsList(Field(w) \o Field(z))
  <2>1. \A w, z : Free(Field(w) \o Field(z), Sign("entry")) /\ Free(Field(w) \o Field(z), Sign("block"))
    BY <1>1, JoinedMarks
  <2> QED BY <2>1 DEF Free
<1>4. Segment(Pair(x, y), Sign("entry")) /\ Free(Pair(x, y), Sign("block"))
  <2> DEFINE w == Field(x) \o Field(y)
  <2>1. Free(w, Sign("entry")) /\ Free(w, Sign("block")) /\ Pair(x, y) = w \o e
    BY <1>3 DEF Pair
  <2> HIDE DEF w, e
  <2> QED BY <1>1, <2>1, JoinedMarks
<1>5. ASSUME Alone(x) = Alone(u) PROVE x = u
  <2>1. SameJoin(Field(x), e, Field(u), e)
    BY <1>1, <1>5 DEF SameJoin, Alone
  <2>2. Field(x) = Field(u)
    <3> HIDE DEF e
    <3> QED BY <2>1, SameBack
  <2>3. Word(x) = Word(u)
    BY <1>1, <2>2
  <2> QED BY <2>3, Symbols
<1>6. ASSUME Pair(x, y) = Pair(u, v) PROVE x = u /\ y = v
  <2> DEFINE p == Field(x) \o Field(y)
             q == Field(u) \o Field(v)
  <2>1. SameJoin(p, e, q, e)
    BY <1>1, <1>3, <1>6 DEF SameJoin, Pair
  <2>2. p = q
    <3> HIDE DEF e, p, q
    <3> QED BY <2>1, SameBack
  <2>3. SameJoin(Field(x), Field(y), Field(u), Field(v)) /\ Len(Field(x)) = Len(Field(u))
    BY <1>1, <2>2 DEF SameJoin
  <2>4. Field(x) = Field(u) /\ Field(y) = Field(v)
    BY <2>3, SameFront
  <2>5. Word(x) = Word(u) /\ Word(y) = Word(v)
    BY <1>1, <2>4
  <2> QED BY <2>5, Symbols
<1> QED BY <1>2, <1>4, <1>5, <1>6

(* The mesh's part of the master's fingerprint: who is where, and the alerts. *)
Members(p) == [i \in DOMAIN SetToSeq(DOMAIN p) |->
                 Pair(SetToSeq(DOMAIN p)[i], p[SetToSeq(DOMAIN p)[i]])]
Attached(c) == [i \in DOMAIN c.alerts |-> Alone(c.alerts[i])]

(* Its entries. *)
LEMMA MeshEntries ==
  ASSUME NEW c, IsList(c.alerts), NEW p, IsFiniteSet(DOMAIN p)
  PROVE  LET peers == SetToSeq(DOMAIN p)
         IN  /\ HealthFingerprint(c, p) = (FlattenSeq(Members(p)) \o Mark("block")) \o FlattenSeq(Attached(c))
             /\ IsList(peers) /\ ToSet(peers) = DOMAIN p
             /\ IsList(Members(p)) /\ Len(Members(p)) = Len(peers)
             /\ \A i \in 1..Len(peers) : /\ Members(p)[i] = Pair(peers[i], p[peers[i]])
                                         /\ Segment(Members(p)[i], Sign("entry"))
             /\ IsList(Attached(c)) /\ Len(Attached(c)) = Len(c.alerts)
             /\ \A i \in 1..Len(c.alerts) : /\ Attached(c)[i] = Alone(c.alerts[i])
                                            /\ Segment(Attached(c)[i], Sign("entry"))
             /\ Free(FlattenSeq(Members(p)), Sign("block")) /\ Free(FlattenSeq(Attached(c)), Sign("block"))
<1> DEFINE peers == SetToSeq(DOMAIN p)
           m == Members(p)
           a == Attached(c)
<1>1. IsList(peers) /\ ToSet(peers) = DOMAIN p
  BY SetInOrder, ListFacts
<1>2. DOMAIN peers = 1..Len(peers) /\ DOMAIN c.alerts = 1..Len(c.alerts)
  BY <1>1, ListShape
<1>3. HealthFingerprint(c, p) = (FlattenSeq(m) \o Mark("block")) \o FlattenSeq(a)
  BY DEF HealthFingerprint, Members, Attached, Pair, Alone
<1>4. IsList(m) /\ Len(m) = Len(peers) /\ \A i \in 1..Len(peers) : m[i] = Pair(peers[i], p[peers[i]])
  <2>1. m = [i \in DOMAIN peers |-> m[i]]
    BY DEF Members
  <2>2. \A i \in 1..Len(peers) : m[i] = Pair(peers[i], p[peers[i]])
    BY <1>2 DEF Members
  <2> HIDE DEF m, peers
  <2> QED BY <1>1, <2>1, <2>2, OverPlaces
<1>5. IsList(a) /\ Len(a) = Len(c.alerts) /\ \A i \in 1..Len(c.alerts) : a[i] = Alone(c.alerts[i])
  <2>1. a = [i \in DOMAIN c.alerts |-> a[i]]
    BY DEF Attached
  <2>2. \A i \in 1..Len(c.alerts) : a[i] = Alone(c.alerts[i])
    BY <1>2 DEF Attached
  <2> HIDE DEF a
  <2> QED BY <2>1, <2>2, OverPlaces
<1>6. \A i \in 1..Len(peers) : Segment(m[i], Sign("entry")) /\ Free(m[i], Sign("block"))
  <2> HIDE DEF m, peers
  <2> QED BY <1>4, ShortEntries
<1>7. \A i \in 1..Len(c.alerts) : Segment(a[i], Sign("entry")) /\ Free(a[i], Sign("block"))
  <2> HIDE DEF a
  <2>1. \A x : Segment(Alone(x), Sign("entry")) /\ Free(Alone(x), Sign("block"))
    BY ShortEntries
  <2> QED BY <1>5, <2>1
<1>8. Free(FlattenSeq(m), Sign("block")) /\ Free(FlattenSeq(a), Sign("block"))
  <2> HIDE DEF m, a, peers
  <2> QED BY <1>4, <1>5, <1>6, <1>7, FlattenedMarks
<1> QED BY <1>1, <1>3, <1>4, <1>5, <1>6, <1>7, <1>8

(* Two peerings of one list are one peering. *)
LEMMA MembersAreRead ==
  ASSUME NEW p, NEW q, IsFiniteSet(DOMAIN p), IsFiniteSet(DOMAIN q), p = [n \in DOMAIN p |-> p[n]],
         q = [n \in DOMAIN q |-> q[n]], NEW c, IsList(c.alerts),
         FlattenSeq(Members(p)) = FlattenSeq(Members(q))
  PROVE  p = q
<1> DEFINE s == SetToSeq(DOMAIN p)
           t == SetToSeq(DOMAIN q)
<1>1. /\ IsList(s) /\ ToSet(s) = DOMAIN p /\ IsList(Members(p)) /\ Len(Members(p)) = Len(s)
      /\ \A i \in 1..Len(s) : Members(p)[i] = Pair(s[i], p[s[i]]) /\ Segment(Members(p)[i], Sign("entry"))
  BY MeshEntries
<1>2. /\ IsList(t) /\ ToSet(t) = DOMAIN q /\ IsList(Members(q)) /\ Len(Members(q)) = Len(t)
      /\ \A i \in 1..Len(t) : Members(q)[i] = Pair(t[i], q[t[i]]) /\ Segment(Members(q)[i], Sign("entry"))
  BY MeshEntries
<1> HIDE DEF s, t
<1>3. Members(p) = Members(q)
  BY <1>1, <1>2, SegmentsAreFound
<1>4. Len(s) = Len(t) /\ \A i \in 1..Len(s) : s[i] = t[i] /\ p[s[i]] = q[t[i]]
  <2>1. Len(s) = Len(t)
    BY <1>1, <1>2, <1>3
  <2>2. ASSUME NEW i \in 1..Len(s) PROVE s[i] = t[i] /\ p[s[i]] = q[t[i]]
    <3>1. Pair(s[i], p[s[i]]) = Pair(t[i], q[t[i]])
      BY <1>1, <1>2, <1>3, <2>1
    <3> QED BY <3>1, ShortEntries
  <2> QED BY <2>1, <2>2
<1>5. s = t
  BY <1>1, <1>2, <1>4, SameLists
<1>6. DOMAIN p = DOMAIN q
  BY <1>1, <1>2, <1>5
<1>7. ASSUME NEW n \in DOMAIN p PROVE p[n] = q[n]
  <2>1. PICK i \in DOMAIN s : s[i] = n
    BY <1>1 DEF ToSet
  <2>2. i \in 1..Len(s)
    BY <1>1, <2>1, ListShape
  <2> QED BY <1>4, <2>1, <2>2
<1> QED BY <1>6, <1>7

(* Health alerts of one list are one list. *)
LEMMA AttachedAreRead ==
  ASSUME NEW c, NEW d, IsList(c.alerts), IsList(d.alerts), NEW p, IsFiniteSet(DOMAIN p),
         FlattenSeq(Attached(c)) = FlattenSeq(Attached(d))
  PROVE  c.alerts = d.alerts
<1>1. \A e \in {c, d} :
        /\ IsList(Attached(e)) /\ Len(Attached(e)) = Len(e.alerts)
        /\ \A i \in 1..Len(e.alerts) : /\ Attached(e)[i] = Alone(e.alerts[i])
                                       /\ Segment(Attached(e)[i], Sign("entry"))
  BY MeshEntries
<1>2. Attached(c) = Attached(d)
  BY <1>1, SegmentsAreFound
<1>3. Len(c.alerts) = Len(d.alerts)
  BY <1>1, <1>2
<1>4. ASSUME NEW i \in 1..Len(c.alerts) PROVE c.alerts[i] = d.alerts[i]
  <2>1. Alone(c.alerts[i]) = Alone(d.alerts[i])
    BY <1>1, <1>2, <1>3
  <2> QED BY <2>1, ShortEntries
<1> QED BY <1>3, <1>4, SameLists

(* The master's fingerprint gives back the stored config, the peering and the *)
(* alerts of the mesh.                                                        *)
LEMMA MasterFingerprintIsRead ==
  ASSUME NEW c, NEW d, IsView(Stored(c)), IsView(Stored(d)), IsList(c.alerts), IsList(d.alerts),
         NEW p, NEW q, IsFiniteSet(DOMAIN p), IsFiniteSet(DOMAIN q),
         p = [n \in DOMAIN p |-> p[n]], q = [n \in DOMAIN q |-> q[n]],
         MasterFingerprint(c, p) = MasterFingerprint(d, q)
  PROVE  Stored(c) = Stored(d) /\ p = q /\ c.alerts = d.alerts
<1> DEFINE m == Mark("block")
           f1 == Fingerprint(Stored(c))
           f2 == Fingerprint(Stored(d))
           e1 == FlattenSeq(Members(p))
           e2 == FlattenSeq(Members(q))
           t1 == FlattenSeq(Attached(c))
           t2 == FlattenSeq(Attached(d))
<1>1. IsList(m) /\ Len(m) = 1 /\ m = <<Sign("block")>>
  BY Symbols
<1>2. IsList(f1) /\ IsList(f2)
  <2>1. \A v : IsView(v) => IsList(Fingerprint(v))
    <3> SUFFICES ASSUME NEW v, IsView(v) PROVE IsList(Fingerprint(v))
      OBVIOUS
    <3>1. IsList(v.health)
      BY DEF IsView
    <3> DEFINE x == Preamble(v)
               y == FlattenSeq(Blocks(v))
    <3>2. IsList(x) /\ IsList(y) /\ Fingerprint(v) = x \o y
      BY <3>1, PreambleFacts, BlocksFacts
    <3> HIDE DEF x, y
    <3>3. IsList(x \o y)
      BY <3>2, JoinedLists
    <3> QED BY <3>2, <3>3
  <2> QED BY <2>1
<1>3. /\ Free(e1, Sign("block")) /\ Free(e2, Sign("block"))
      /\ Free(t1, Sign("block")) /\ Free(t2, Sign("block"))
  BY MeshEntries
<1>4. IsList(e1) /\ IsList(e2) /\ IsList(t1) /\ IsList(t2)
  BY <1>3 DEF Free
<1>5. (f1 \o m) \o ((e1 \o m) \o t1) = (f2 \o m) \o ((e2 \o m) \o t2)
  BY MeshEntries DEF MasterFingerprint
<1> HIDE DEF m, f1, f2, e1, e2, t1, t2
<1>6. ASSUME NEW f, NEW e, NEW t, IsList(f), IsList(e), IsList(t)
      PROVE  /\ (f \o m) \o ((e \o m) \o t) = (((f \o m) \o e) \o m) \o t
             /\ IsList(f \o m) /\ IsList((f \o m) \o e) /\ IsList(((f \o m) \o e) \o m)
  <2> DEFINE a == f \o m
             b == e \o m
             ae == a \o e
             aem == ae \o m
  <2>1. IsList(a)
    BY <1>1, <1>6, JoinedLists
  <2>2. IsList(b)
    BY <1>1, <1>6, JoinedLists
  <2>3. IsList(ae)
    <3> HIDE DEF a
    <3> QED BY <1>6, <2>1, JoinedLists
  <2>4. IsList(aem)
    <3> HIDE DEF ae
    <3> QED BY <1>1, <2>3, JoinedLists
  <2>5. a \o (b \o t) = (a \o b) \o t
    <3> HIDE DEF a, b
    <3> QED BY <1>6, <2>1, <2>2, Rejoined
  <2>6. a \o b = aem
    <3> HIDE DEF a
    <3> QED BY <1>1, <1>6, <2>1, Rejoined
  <2> QED BY <2>1, <2>3, <2>4, <2>5, <2>6
<1> DEFINE g1 == f1 \o m
           g2 == f2 \o m
           h1 == g1 \o e1
           h2 == g2 \o e2
           k1 == h1 \o m
           k2 == h2 \o m
<1>7. /\ k1 \o t1 = k2 \o t2
      /\ IsList(g1) /\ IsList(h1) /\ IsList(k1)
      /\ IsList(g2) /\ IsList(h2) /\ IsList(k2)
  <2>1. /\ g1 \o ((e1 \o m) \o t1) = k1 \o t1
        /\ IsList(g1) /\ IsList(h1) /\ IsList(k1)
    BY <1>2, <1>4, <1>6
  <2>2. /\ g2 \o ((e2 \o m) \o t2) = k2 \o t2
        /\ IsList(g2) /\ IsList(h2) /\ IsList(k2)
    BY <1>2, <1>4, <1>6
  <2>3. g1 \o ((e1 \o m) \o t1) = g2 \o ((e2 \o m) \o t2)
    BY <1>5
  <2> HIDE DEF g1, h1, k1, g2, h2, k2
  <2> QED BY <2>1, <2>2, <2>3
<1>8. k1 = k2 /\ t1 = t2
  <2>1. Closed(k1, Sign("block")) /\ Closed(k2, Sign("block"))
    <3> HIDE DEF h1, h2
    <3> QED BY <1>1, <1>7, JoinedMarks
  <2> HIDE DEF k1, k2
  <2>2. SameJoin(k1, t1, k2, t2)
    BY <1>4, <1>7 DEF SameJoin
  <2> QED BY <1>3, <2>1, <2>2, LastCut
<1>9. h1 = h2
  <2> HIDE DEF h1, h2
  <2>1. SameJoin(h1, m, h2, m)
    BY <1>1, <1>7, <1>8 DEF SameJoin
  <2> QED BY <2>1, SameBack
<1>10. g1 = g2 /\ e1 = e2
  <2>1. Closed(g1, Sign("block")) /\ Closed(g2, Sign("block"))
    BY <1>1, <1>2, JoinedMarks
  <2> HIDE DEF g1, g2
  <2>2. SameJoin(g1, e1, g2, e2)
    BY <1>4, <1>7, <1>9 DEF SameJoin
  <2> QED BY <1>3, <2>1, <2>2, LastCut
<1>11. f1 = f2
  <2>1. SameJoin(f1, m, f2, m)
    BY <1>1, <1>2, <1>10 DEF SameJoin
  <2> QED BY <2>1, SameBack
<1>12. Stored(c) = Stored(d)
  BY <1>11, FingerprintIsRead DEF f1, f2
<1>13. p = q
  BY <1>10, MembersAreRead DEF e1, e2
<1>14. c.alerts = d.alerts
  BY <1>8, AttachedAreRead DEF t1, t2
<1> QED BY <1>12, <1>13, <1>14

(* Every peering there may be. *)
Peerings == {p \in UNION {[S -> Addrs] : S \in SUBSET Names} :
               \A m, n \in DOMAIN p : p[m] = p[n] => m = n}

(* Whatever there may be is finite and well formed. *)
LEMMA MomentsFacts ==
  ASSUME NEW c \in Configs, NEW p \in Peerings
  PROVE  /\ IsFiniteSet(DOMAIN p) /\ p = [n \in DOMAIN p |-> p[n]]
         /\ Accepted(c) /\ IsView(Stored(c)) /\ IsList(c.alerts)
         /\ \A n : IsView(BuildShim(c, p, n))
<1>1. PICK S \in SUBSET Names : p \in [S -> Addrs]
  BY DEF Peerings
<1>2. DOMAIN p = S /\ p = [n \in DOMAIN p |-> p[n]]
  BY <1>1
<1>3. IsFiniteSet(DOMAIN p)
  BY <1>1, <1>2, FS_Subset, RegistryAssumption
<1>4. Accepted(c)
  BY ConfigsAreAccepted
<1>5. IsGroups(c.groups) /\ IsList(c.alerts)
  BY <1>4 DEF Accepted
<1>6. IsList(<<>>) /\ \A x : IsList(<<x>>)
  <2>1. <<>> \in Seq({})
    OBVIOUS
  <2>2. \A x : <<x>> \in Seq({x})
    OBVIOUS
  <2> QED BY <2>1, <2>2, ListFacts
<1>7. IsView(Stored(c))
  BY <1>5, <1>6 DEF IsView, Stored
<1>8. ASSUME NEW n PROVE IsView(BuildShim(c, p, n))
  <2> DEFINE v == BuildShim(c, p, n)
  <2>1. IsGroups(v.groups)
    BY <1>3, <1>4, SlaveView
  <2>2. v.health = ProbeDef(c, HealthTargets(c, p, n))
    BY DEF BuildShim, BuildClusterConfig
  <2>3. IsList(v.health)
    <3> HIDE DEF v
    <3> QED BY <1>6, <2>2 DEF ProbeDef
  <2>4. v = [source |-> v.source, shape |-> v.shape, health |-> v.health, groups |-> v.groups]
    BY DEF BuildShim
  <2>5. IsView(v)
    <3> HIDE DEF v
    <3> QED BY <2>1, <2>3, <2>4 DEF IsView
  <2> QED BY <2>5 DEF v
<1> QED BY <1>2, <1>3, <1>4, <1>5, <1>7, <1>8

(* What the master runs is made of what its fingerprint gives back, but for   *)
(* cluster.health_hops.                                                       *)
LEMMA LocalTargetsAgree ==
  ASSUME NEW c, NEW d, NEW p, NEW q, Stored(c) = Stored(d), p = q, c.alerts = d.alerts, c.hops = d.hops
  PROVE  LocalTargets(c, p) = LocalTargets(d, q)
<1>1. c.source = d.source /\ c.shape = d.shape /\ c.groups = d.groups
  BY DEF Stored
<1>2. \A n : HealthTarget(c, p, n) = HealthTarget(d, q, n)
  BY DEF HealthTarget
<1>3. HealthTargets(c, p, "") = HealthTargets(d, q, "")
  BY <1>2 DEF HealthTargets
<1>4. \A h : ProbeDef(c, h) = ProbeDef(d, h)
  BY DEF ProbeDef
<1> QED BY <1>1, <1>3, <1>4 DEF LocalTargets

(* Views and keys of all moments, compared with those of now.                 *)
LEMMA ChangesAreSeen == MeshIInv => RebuildSeesChange
<1> SUFFICES ASSUME MeshIInv PROVE RebuildSeesChange
  OBVIOUS
<1>1. Moments = Configs \X Peerings
  BY DEF Moments, Peerings
<1>2. config \in Configs /\ Peering \in Peerings
  <2>1. config \in Configs
    BY DEF MeshIInv
  <2>2. Peering \in [Peers -> Addrs] /\ Peers \subseteq Names
    BY DEF MeshIInv, Ownership, TypeOK, Peering, Peers, Claims
  <2>3. \A m, n \in DOMAIN Peering : Peering[m] = Peering[n] => m = n
    <3>1. PeersApart
      BY DEF MeshIInv, Ownership, OneFact, PeersApart, Peers, TypeOK, Claims
    <3> QED BY <3>1 DEF PeersApart, Peering
  <2>4. Peering \in UNION {[S -> Addrs] : S \in SUBSET Names}
    BY <2>2
  <2> QED BY <2>1, <2>3, <2>4 DEF Peerings
<1>3. ASSUME NEW k \in MasterKeys, k[1] = config.hops, k[3] = MasterFingerprint(config, Peering)
      PROVE  k[2] = LocalTargets(config, Peering)
  <2>1. PICK m \in Moments : k = <<m[1].hops, LocalTargets(m[1], m[2]), MasterFingerprint(m[1], m[2])>>
    BY DEF MasterKeys
  <2> DEFINE c == m[1]
             p == m[2]
  <2>2. c \in Configs /\ p \in Peerings
    BY <1>1
  <2>3. /\ k[1] = c.hops /\ k[2] = LocalTargets(c, p) /\ k[3] = MasterFingerprint(c, p)
    BY <2>1
  <2> HIDE DEF c, p
  <2>4. Stored(c) = Stored(config) /\ p = Peering /\ c.alerts = config.alerts
    BY <1>2, <1>3, <2>2, <2>3, MomentsFacts, MasterFingerprintIsRead
  <2>5. c.hops = config.hops
    BY <1>3, <2>3
  <2>6. LocalTargets(c, p) = LocalTargets(config, Peering)
    BY <2>4, <2>5, LocalTargetsAgree
  <2> QED BY <2>3, <2>6
<1>4. ASSUME NEW n \in Registered, NEW k \in AllSlaveKeys[n], k[2] = Fingerprint(BuildShim(config, Peering, n))
      PROVE  k[1] = BuildShim(config, Peering, n)
  <2>1. n \in Names
    BY PeersFacts
  <2>2. k \in SlaveKeys(n)
    BY <2>1 DEF AllSlaveKeys
  <2>3. PICK m \in Moments : k = <<BuildShim(m[1], m[2], n), Fingerprint(BuildShim(m[1], m[2], n))>>
    BY <2>2 DEF SlaveKeys
  <2> DEFINE v == BuildShim(m[1], m[2], n)
             w == BuildShim(config, Peering, n)
  <2>4. IsView(v) /\ IsView(w)
    <3>1. m[1] \in Configs /\ m[2] \in Peerings
      BY <1>1
    <3> QED BY <1>2, <3>1, MomentsFacts
  <2>5. k[1] = v /\ k[2] = Fingerprint(v)
    BY <2>3
  <2> HIDE DEF v, w
  <2> QED BY <1>4, <2>4, <2>5, FingerprintIsRead DEF w
<1> QED BY <1>3, <1>4 DEF RebuildSeesChange

(* A rebuild is never missed: of all configs and peerings there may be, those *)
(* with the fingerprint of now give the node what it runs now, at the master  *)
(* as long as cluster.health_hops is the same (fingerprint.go lines 10 to 36, *)
(* slavehealth.go lines 163 to 181, lifecycle.go's comparison of the two).    *)
THEOREM RebuildsFollowChanges == MeshSpec => []RebuildSeesChange
BY ChangesAreSeen, MeshKeeps, PTL
=============================================================================
