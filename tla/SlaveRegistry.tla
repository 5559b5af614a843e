---------------------------- MODULE SlaveRegistry ----------------------------
(* The master's slave registry, internal/cluster/master/registry.go: which    *)
(* slaves exist and which address each may be health-probed at.  An address   *)
(* has one claimant, and an operator's pin names the rightful one.  Every     *)
(* operation runs under the registry's lock and is one action; only the       *)
(* callbacks come later, and fired says whether the last operation calls      *)
(* onChange.                                                                  *)
EXTENDS Naturals, FiniteSets

CONSTANTS
  Names,      \* slave names
  Addrs,      \* reachable addresses
  NoAddr,     \* the zero address: no health entry
  MaxSlaves   \* maxRegisteredSlaves

ASSUME RegistryAssumption ==
  /\ NoAddr \notin Addrs
  /\ IsFiniteSet(Names)
  /\ MaxSlaves \in Nat

VARIABLES
  slaves,   \* registered name -> the address it advertises, or NoAddr
  byAddr,   \* claimed address -> its claimant
  pins,     \* cluster.slave_addrs: pinned name -> its address
  fired     \* the last operation fires onChange

vars == <<slaves, byAddr, pins, fired>>

(* What a request's advertise header amounts to: an address, or nothing the   *)
(* registry would retain (absent, over-long or unparseable).                  *)
Claims == Addrs \cup {NoAddr}

PinTables == {p \in UNION {[S -> Addrs] : S \in SUBSET Names} :
                \A m, n \in DOMAIN p : p[m] = p[n] => m = n}

-----------------------------------------------------------------------------
Owner(a) == IF a \in DOMAIN byAddr THEN {byAddr[a]} ELSE {}

PinAdmits(n, a) == n \in DOMAIN pins => pins[n] = a

(* The owner's own pin excludes the address, or the claimant is pinned to it  *)
(* and the owner to nothing.  (A definition named X_Y is X with the mistake   *)
(* Y; no behaviour uses it.)                                                  *)
LosesTo_OwnPinOnly(owner, n, a) == ~PinAdmits(owner, a)
LosesTo(owner, n, a) ==
  ~PinAdmits(owner, a) \/ (n \in DOMAIN pins /\ owner \notin DOMAIN pins)

(* resolveAdvertise: the owners that lose address a to n, and whether n gets  *)
(* it.                                                                        *)
Evicted(n, a) ==
  IF a = NoAddr \/ ~PinAdmits(n, a) THEN {}
  ELSE {o \in Owner(a) : o # n /\ LosesTo(o, n, a)}

Granted(n, a) ==
  /\ a # NoAddr
  /\ PinAdmits(n, a)
  /\ Owner(a) \ Evicted(n, a) \subseteq {n}

Resolved(n, claim) == IF Granted(n, claim) THEN claim ELSE NoAddr

(* A new name enters only below the ceiling; a change is one of the address.  *)
Admitted(n) == n \in DOMAIN slaves \/ Cardinality(DOMAIN slaves) < MaxSlaves

Changed_Gained(prev, next) == next # NoAddr /\ next # prev
Changed(prev, next) == next # prev

(* Both sides of the ownership, after n moved from one address to another.    *)
Claimed_Leaking(n, prev, next) ==
  [a \in DOMAIN byAddr \cup ({next} \ {NoAddr}) |-> IF a = next THEN n ELSE byAddr[a]]

Claimed(n, prev, next) ==
  LET released == IF prev # next /\ Owner(prev) = {n} THEN {prev} ELSE {}
  IN  [a \in (DOMAIN byAddr \ released) \cup ({next} \ {NoAddr}) |->
        IF a = next THEN n ELSE byAddr[a]]

Advertised(n, evicted, next) ==
  [m \in DOMAIN slaves \cup {n} |->
    IF m = n THEN next ELSE IF m \in evicted THEN NoAddr ELSE slaves[m]]

-----------------------------------------------------------------------------
Init == slaves = <<>> /\ byAddr = <<>> /\ pins \in PinTables /\ fired = FALSE

(* Touch: every authenticated request of a slave. *)
Touch(n, claim) ==
  /\ Admitted(n)
  /\ LET prev == IF n \in DOMAIN slaves THEN slaves[n] ELSE NoAddr
         next == Resolved(n, claim)
     IN  /\ slaves' = Advertised(n, Evicted(n, claim), next)
         /\ byAddr' = Claimed(n, prev, next)
         /\ fired' = Changed(prev, next)
  /\ UNCHANGED pins

(* Sweep drops the names not heard from for a day. *)
Sweep(S) ==
  /\ S # {} /\ S \subseteq DOMAIN slaves
  /\ LET released == {a \in DOMAIN byAddr : byAddr[a] \in S /\ slaves[byAddr[a]] = a}
     IN  /\ byAddr' = [a \in DOMAIN byAddr \ released |-> byAddr[a]]
         /\ fired' = (released # {})
  /\ slaves' = [n \in DOMAIN slaves \ S |-> slaves[n]]
  /\ UNCHANGED pins

(* A reload publishes another pin table; the registry reads it at each use.   *)
EditPins ==
  /\ pins' \in PinTables
  /\ fired' = FALSE
  /\ UNCHANGED <<slaves, byAddr>>

Next ==
  \/ \E n \in Names, claim \in Claims : Touch(n, claim)
  \/ \E S \in SUBSET Names : Sweep(S)
  \/ EditPins

Spec == Init /\ [][Next]_vars

-----------------------------------------------------------------------------
(* Peers: the mesh every node probes.  Both halves of the pin rule are        *)
(* checked again, against the pins of now.                                    *)
Peers ==
  {n \in DOMAIN slaves :
    /\ slaves[n] # NoAddr
    /\ PinAdmits(n, slaves[n])
    /\ \A m \in DOMAIN pins : pins[m] = slaves[n] => m = n}

(* The type of every variable; the registry never exceeds its ceiling. *)
TypeOK ==
  /\ DOMAIN slaves \subseteq Names /\ \A n \in DOMAIN slaves : slaves[n] \in Claims
  /\ DOMAIN byAddr \subseteq Addrs /\ \A a \in DOMAIN byAddr : byAddr[a] \in Names
  /\ pins \in PinTables
  /\ fired \in BOOLEAN
  /\ Cardinality(DOMAIN slaves) <= MaxSlaves

(* byAddr[X] = name and slaves[name].Advertise = X are one fact (registry.go  *)
(* lines 285 to 288): a half left behind hands a live claimant's address      *)
(* away, or keeps it from everybody.                                          *)
OneFact ==
  \A n \in Names, a \in Addrs :
    (a \in DOMAIN byAddr /\ byAddr[a] = n) <=> (n \in DOMAIN slaves /\ slaves[n] = a)

(* No two peers are probed at one address (byAddr's comment, lines 58 to 60). *)
PeersApart == \A m, n \in Peers : slaves[m] = slaves[n] => m = n

(* The registry stays consistent through claims, evictions, sweeps and edits  *)
(* of the pins: the ceiling, both halves of ownership, and one peer an        *)
(* address.                                                                   *)
Inv == TypeOK /\ OneFact /\ PeersApart

(* A pin beats every squatter: a pinned slave that reports its pinned address *)
(* has it from then on, also over an owner that keeps heartbeating (lines 289 *)
(* to 306).                                                                   *)
PinWins ==
  [][\A n \in DOMAIN pins :
       Touch(n, pins[n]) => slaves'[n] = pins[n]]_vars

(* Only its own requests, a sweep or a pin edit takes a peer out of the mesh  *)
(* or moves it: what evicts an owner never evicts one that is being probed,   *)
(* because Peers leaves out whom the pins of now exclude (lines 387 to 399).  *)
PeersKeepTheirPlace ==
  [][UNCHANGED pins =>
       \A n \in Peers : \/ n \in Peers' /\ slaves'[n] = slaves[n]
                        \/ \E claim \in Claims : Touch(n, claim)
                        \/ n \notin DOMAIN slaves']_vars

(* Who holds an address is settled by the pins first and by possession next.  *)
ClaimsSettled == PinWins /\ PeersKeepTheirPlace

(* No change of the mesh goes unannounced: whatever a request or a sweep does *)
(* to the peers, onChange is called (lines 83 to 93, 216, 440 to 447).        *)
ChangeAnnounced ==
  [][UNCHANGED pins /\ (Peers' # Peers \/ \E n \in Peers : slaves'[n] # slaves[n]) => fired']_vars
=============================================================================
