----------------------------- MODULE CycleDedup -----------------------------
(* The master's redelivery guard, internal/cluster/master/dedup.go, with the  *)
(* handlers that call it (server.go, inbound.go) and the registry events that *)
(* release a source's window (registry.go).  Delivery is at least once, so    *)
(* every cycle passes cycleDedup.admit before the fanout.                     *)
(*                                                                            *)
(* An operation under d.mu is one action, except where it reads the registry, *)
(* which has a lock of its own: evictLRU asks it once per window and          *)
(* forgetSource once before it deletes, and registrations and sweeps may come *)
(* in between.  The interned target names carry no decision and are left out. *)
EXTENDS Integers, Sequences, FiniteSets

CONSTANTS
  Sources,     \* slave names
  Ids,         \* measurement identities: target and timestamp
  Requests,    \* handlers of POST /cycles
  Window,      \* dedupWindowPerSource
  MaxSources,  \* dedupMaxSources, which is maxRegisteredSlaves
  MaxAdmits    \* bound: calls of admit in a behaviour

NoSource == "no source"

ASSUME DedupAssumption ==
  /\ NoSource \notin Sources
  /\ Window \in Nat \ {0}
  /\ MaxSources \in Nat \ {0}
  /\ MaxAdmits \in Nat

VARIABLES
  bySource,    \* the windows, a function on the sources that have one
  clock,       \* calls of admit so far
  mutex,       \* "free", "evict" or "forget": the operation in the middle of d.mu
  caller,      \* the request whose admission evicts
  left,        \* windows evictLRU has not looked at
  victim,      \* the one it would drop so far
  victimDead,  \* whether the registry had released it
  forgetting,  \* the source forgetSource is about to drop
  registered,  \* the registry's names
  swept,       \* names Sweep removed and has not reported to forgetSource
  request,     \* what each handler is doing
  disturbed,   \* the registry changed since evictLRU began
  fresh        \* sources that ingested a cycle since they last registered

dedup    == <<bySource, clock>>
walk     == <<caller, left, victim, victimDead, disturbed>>
registry == <<registered, swept>>

vars == <<dedup, mutex, walk, forgetting, registry, request, fresh>>

IsWindow(w) ==
  \E S \in SUBSET Ids :
    w \in [seen : [S -> Nat], ring : Seq(Ids), inserted : Nat, used : Nat]

EmptyWindow(at) == [seen |-> <<>>, ring |-> <<>>, inserted |-> 0, used |-> at]

Idle == [stage |-> "idle"]

-----------------------------------------------------------------------------
Without(f, x) == [y \in DOMAIN f \ {x} |-> f[y]]
With(f, x, v) == [y \in DOMAIN f \cup {x} |-> IF y = x THEN v ELSE f[y]]

(* The slot of the ring the next insertion overwrites once the ring is full.  *)
Slot(w) == (w.inserted % Window) + 1

(* sourceWindow.admit of an identity that is not remembered.  The slot's old  *)
(* identity is forgotten only if that slot is still the one that put it there.*)
(* (A definition named X_Y is X with the mistake Y; no behaviour uses it.)    *)
StillOwned_Always(w, id) == id \in DOMAIN w.seen
StillOwned_Never(w, id) == FALSE
StillOwned(w, id) == id \in DOMAIN w.seen /\ w.seen[id] = w.inserted - Window

Inserted(w, id) ==
  LET full    == Len(w.ring) = Window
      evicted == w.ring[Slot(w)]
      kept    == IF full /\ StillOwned(w, evicted) THEN Without(w.seen, evicted) ELSE w.seen
  IN  [w EXCEPT !.ring = IF full THEN [@ EXCEPT ![Slot(w)] = id] ELSE Append(@, id),
                !.seen = With(kept, id, w.inserted),
                !.inserted = @ + 1]

Remembers(w, id) == id \in DOMAIN w.seen

HasRoom(s) == s \in DOMAIN bySource \/ Cardinality(DOMAIN bySource) < MaxSources

WindowOf(s) == IF s \in DOMAIN bySource THEN bySource[s] ELSE EmptyWindow(0)

-----------------------------------------------------------------------------
Init ==
  /\ bySource = <<>> /\ clock = 0
  /\ mutex = "free"
  /\ caller = NoSource /\ left = {} /\ victim = NoSource /\ victimDead = FALSE
  /\ disturbed = FALSE
  /\ forgetting = NoSource
  /\ registered = {} /\ swept = {}
  /\ request = [r \in Requests |-> Idle]
  /\ fresh = {}

(* Touch: a name is entered unless the registry is full. *)
Entered(s) ==
  /\ registered' = IF Cardinality(registered) < MaxSources THEN registered \cup {s} ELSE registered
  /\ fresh' = IF s \in registered THEN fresh ELSE fresh \ {s}
  /\ disturbed' = (disturbed \/ (mutex = "evict" /\ registered' # registered))

(* POST /register or GET /config. *)
Register(s) ==
  /\ s \notin registered
  /\ Entered(s)
  /\ UNCHANGED <<dedup, mutex, caller, left, victim, victimDead, forgetting, swept, request>>

(* Sweep drops the names it has not heard from, then reports them one by one. *)
Sweep ==
  /\ swept = {}
  /\ \E S \in SUBSET registered \ {{}} :
       /\ registered' = registered \ S
       /\ swept' = S
  /\ disturbed' = (mutex = "evict")
  /\ UNCHANGED <<dedup, mutex, caller, left, victim, victimDead, forgetting, request, fresh>>

(* forgetSource takes d.mu and asks the registry again. *)
ForgetSource ==
  /\ mutex = "free"
  /\ \E s \in swept :
       /\ swept' = swept \ {s}
       /\ IF s \in registered THEN UNCHANGED <<mutex, forgetting>>
          ELSE mutex' = "forget" /\ forgetting' = s
  /\ UNCHANGED <<dedup, walk, registered, request, fresh>>

ForgetSourceDelete ==
  /\ mutex = "forget"
  /\ bySource' = Without(bySource, forgetting)
  /\ mutex' = "free" /\ forgetting' = NoSource
  /\ UNCHANGED <<clock, walk, registry, request, fresh>>

(* handleCycles refuses a name the registry does not hold ...                 *)
Begin(r) ==
  /\ request[r] = Idle
  /\ \E s \in registered :
       request' = [request EXCEPT ![r] = [stage |-> "touch", source |-> s]]
  /\ UNCHANGED <<dedup, mutex, walk, forgetting, registry, fresh>>

(* ... and touches it, which enters it again if Sweep came in between.        *)
TouchSource(r) ==
  /\ request[r].stage = "touch"
  /\ Entered(request[r].source)
  /\ request' = [request EXCEPT ![r].stage = "batch"]
  /\ UNCHANGED <<dedup, mutex, caller, left, victim, victimDead, forgetting, swept>>

(* admit, once the window w of the request's source is there.  The position   *)
(* the identity was given stays with the request that delivers it.            *)
AdmitInto(r, windows, w, id, now) ==
  LET s    == request[r].source
      used == [w EXCEPT !.used = now]
  IN  IF Remembers(w, id)
      THEN /\ bySource' = With(windows, s, used)
           /\ request' = [request EXCEPT ![r] = [stage |-> "batch", source |-> s]]
           /\ UNCHANGED fresh
      ELSE /\ bySource' = With(windows, s, Inserted(used, id))
           /\ request' = [request EXCEPT ![r] =
                [stage |-> "deliver", source |-> s, id |-> id, at |-> w.inserted]]
           /\ fresh' = IF s \in registered THEN fresh \cup {s} ELSE fresh

(* ingestBatch offers the next cycle of the batch. *)
Admit(r, id) ==
  /\ mutex = "free"
  /\ request[r].stage = "batch"
  /\ clock < MaxAdmits
  /\ HasRoom(request[r].source)
  /\ clock' = clock + 1
  /\ AdmitInto(r, bySource, WindowOf(request[r].source), id, clock + 1)
  /\ UNCHANGED <<mutex, walk, forgetting, registry>>

(* The same for a source that needs a window of its own when all are taken.   *)
EvictBegin(r, id) ==
  /\ mutex = "free"
  /\ request[r].stage = "batch"
  /\ clock < MaxAdmits
  /\ ~HasRoom(request[r].source)
  /\ clock' = clock + 1
  /\ mutex' = "evict"
  /\ caller' = r /\ left' = DOMAIN bySource /\ victim' = NoSource /\ victimDead' = FALSE
  /\ request' = [request EXCEPT ![r] =
       [stage |-> "evict", source |-> request[r].source, id |-> id]]
  /\ UNCHANGED <<bySource, disturbed, forgetting, registry, fresh>>

(* evictLRU looks at one more window, in the map's order, which is any. *)
Preferred_OldestOnly(s, dead) == bySource[s].used < bySource[victim].used
Preferred(s, dead) ==
  \/ dead /\ ~victimDead
  \/ dead = victimDead /\ bySource[s].used < bySource[victim].used

EvictLook ==
  /\ mutex = "evict"
  /\ \E s \in left :
       LET dead == s \notin registered
       IN  /\ left' = left \ {s}
           /\ IF victim = NoSource \/ Preferred(s, dead)
              THEN victim' = s /\ victimDead' = dead
              ELSE UNCHANGED <<victim, victimDead>>
  /\ UNCHANGED <<dedup, mutex, caller, disturbed, forgetting, registry, request, fresh>>

EvictDone ==
  /\ mutex = "evict"
  /\ left = {}
  /\ AdmitInto(caller, Without(bySource, victim), EmptyWindow(0), request[caller].id, clock)
  /\ mutex' = "free"
  /\ caller' = NoSource /\ victim' = NoSource /\ victimDead' = FALSE
  /\ disturbed' = FALSE
  /\ UNCHANGED <<clock, left, forgetting, registry>>

(* The sink returns: the cycle counts as delivered. *)
Delivered(r) ==
  /\ request[r].stage = "deliver"
  /\ request' = [request EXCEPT ![r] = [stage |-> "batch", source |-> request[r].source]]
  /\ UNCHANGED <<dedup, mutex, walk, forgetting, registry, fresh>>

(* The sink never returns: deliver's deferred call forgets the identity and   *)
(* the panic ends the request.                                                *)
Forgotten(w, id) == [w EXCEPT !.seen = Without(@, id)]

DeliveryPanics(r) ==
  /\ mutex = "free"
  /\ request[r].stage = "deliver"
  /\ LET s == request[r].source
     IN  bySource' = IF s \in DOMAIN bySource
                     THEN [bySource EXCEPT ![s] = Forgotten(@, request[r].id)]
                     ELSE bySource
  /\ request' = [request EXCEPT ![r] = Idle]
  /\ UNCHANGED <<clock, mutex, walk, forgetting, registry, fresh>>

(* The batch is through. *)
End(r) ==
  /\ request[r].stage = "batch"
  /\ request' = [request EXCEPT ![r] = Idle]
  /\ UNCHANGED <<dedup, mutex, walk, forgetting, registry, fresh>>

Next ==
  \/ \E s \in Sources : Register(s)
  \/ Sweep
  \/ ForgetSource
  \/ ForgetSourceDelete
  \/ EvictLook
  \/ EvictDone
  \/ \E r \in Requests :
       \/ Begin(r) \/ TouchSource(r) \/ Delivered(r) \/ DeliveryPanics(r) \/ End(r)
       \/ \E id \in Ids : Admit(r, id) \/ EvictBegin(r, id)

Spec == Init /\ [][Next]_vars

-----------------------------------------------------------------------------
(* The type of every variable. *)
TypeOK ==
  /\ DOMAIN bySource \subseteq Sources
  /\ \A s \in DOMAIN bySource : IsWindow(bySource[s])
  /\ clock \in Nat
  /\ mutex \in {"free", "evict", "forget"}
  /\ caller \in Requests \cup {NoSource}
  /\ left \subseteq DOMAIN bySource
  /\ victim \in DOMAIN bySource \cup {NoSource}
  /\ victimDead \in BOOLEAN /\ disturbed \in BOOLEAN
  /\ forgetting \in Sources \cup {NoSource}
  /\ registered \subseteq Sources /\ swept \subseteq Sources /\ fresh \subseteq Sources
  /\ request \in [Requests ->
       {Idle} \cup [stage : {"touch", "batch"}, source : Sources]
         \cup [stage : {"evict"}, source : Sources, id : Ids]
         \cup [stage : {"deliver"}, source : Sources, id : Ids, at : Nat]]

(* seen points at the ring: an identity is remembered exactly at the live     *)
(* slot that holds it, so the map never outgrows the ring and forgetting      *)
(* leaks nothing (dedup.go lines 34 to 53 and 73 to 80).                      *)
SeenIsInRing ==
  \A s \in DOMAIN bySource :
    LET w == bySource[s]
    IN  /\ Len(w.ring) <= Window
        /\ \A id \in DOMAIN w.seen :
             /\ w.seen[id] \in w.inserted - Len(w.ring) .. w.inserted - 1
             /\ w.ring[(w.seen[id] % Window) + 1] = id

(* There are never more windows than the registry can have names (lines 26 to *)
(* 29).                                                                       *)
WindowsBounded == Cardinality(DOMAIN bySource) <= MaxSources

(* The window table keeps its shape: the map and the ring of every window are *)
(* one fact, and there is never a window too many.                            *)
Inv == TypeOK /\ SeenIsInRing /\ WindowsBounded

(* A registered source in need of a window never costs another registered     *)
(* source its own, as long as the registry stands still during the walk: with *)
(* the ceilings equal one window belongs to nobody (evictLRU, lines 152 to    *)
(* 157).                                                                      *)
SparesRegistered ==
  [][\A s \in DOMAIN bySource :
       s \notin DOMAIN bySource' /\ mutex = "evict" /\ ~disturbed
         /\ request[caller].source \in registered
       => s \notin registered]_vars

(* forgetSource never drops a window that ingested a cycle of the source's    *)
(* current registration, however late Sweep reports it (lines 137 to 142).    *)
KeepsReregistered ==
  [][\A s \in DOMAIN bySource :
       s \notin DOMAIN bySource' /\ mutex = "forget" => s \notin fresh \cap registered]_vars

(* Neither a walk for room nor a late report takes the window of a registered *)
(* source that needs it.                                                      *)
RegisteredKeepWindows == SparesRegistered /\ KeepsReregistered

(* Read in the order of insertion, a window is the promised one. *)
InOrder(w) ==
  LET n == Len(w.ring)
  IN  [i \in 1..n |->
        LET pos == w.inserted - n + i - 1
            id  == w.ring[(pos % Window) + 1]
        IN  [id |-> id, live |-> id \in DOMAIN w.seen /\ w.seen[id] = pos]]

Recent(s) == InOrder(WindowOf(s))

Reading == [s \in Sources |-> Recent(s)]

Promise == INSTANCE RecentWindow WITH recent <- Reading

(* The windows implement the promise: an identity inside the last Window      *)
(* insertions is never ingested twice unless its delivery was given up        *)
(* (admit, lines 55 to 82 and 104 to 120).                                    *)
ImplementsRecentWindow == Promise!Spec
=============================================================================
