--------------------------- MODULE SchedulerProofs ---------------------------
(* Theorems about the scheduler: the lifecycle that follows config and        *)
(* registry, and the loop of one target with the way its cycles take, the     *)
(* views of what is stored included.  They share nothing: each theorem is     *)
(* about one of them.                                                         *)
EXTENDS SchedulerLifecycle, MeasurementPath, NumberLemmas, SequenceTheorems, FiniteSetTheorems,
        TLAPS

-----------------------------------------------------------------------------
(* The scheduler lifecycle.                                                   *)

(* A wakeup the lifecycle has not taken will reach it: a reload is published  *)
(* but not announced, or the change of a claim is between the registry and    *)
(* the channel.                                                               *)
Coming ==
  \/ \E r \in Reloaders : reload[r] # Nothing /\ reload[r].published
  \/ announcing > 0 \/ raw \/ armed \/ signals

(* Unless one is coming, what the lifecycle holds at its place is what the    *)
(* live config and registry say, or it is about to look.                      *)
WakeupKept ==
  \/ Coming
  \/ pc \in {"subscribe", "initial", "current", "exited"}
  \/ pc = "fingerprint" /\ taken = cur
  \/ pc = "compare" /\ taken = cur /\ heard = cur.alerts
  \/ pc \in {"build", "construct", "swap"} /\ pending = CurrentView
  \/ pc = "wait" /\ (fp = CurrentView \/ failed)

Unpublished(r) == reload[r] # Nothing /\ ~reload[r].published

(* What is loaded and not published is the file, and the store will hold it,  *)
(* unless a reload is due, the file is refused or two reloads overlapped.     *)
LoadsAreCurrent ==
  \/ overlapped
  \/ file = Broken
  \/ reloadDue > 0
  \/ /\ \A r \in Reloaders : Unpublished(r) => reload[r].cfg = file
     /\ cur = file \/ \E r \in Reloaders : Unpublished(r)

LifeInv ==
  /\ TypeOK
  /\ ~subscribed => pc = "subscribe"
  /\ pc \in {"fingerprint", "compare", "build", "construct", "swap"} => taken \in Configs
  /\ pc \in {"compare", "construct"} => heard \in AlertLists
  /\ WakeupKept
  /\ LoadsAreCurrent

(* A config has the parts its readers take.                                   *)
LEMMA ConfigParts ==
  ASSUME NEW c \in Configs
  PROVE  c.shape \in Shapes /\ c.alerts \in AlertLists /\ c.pins \in Pins
BY LifecycleAssumption

(* The claims make peers under any config's pins. *)
LEMMA PeersType ==
  ASSUME cur \in Configs, claims \in Claims
  PROVE  Peers \in PeerLists /\ cur.alerts \in AlertLists
<1>1. cur.pins \in Pins /\ cur.alerts \in AlertLists
  BY ConfigParts
<1>2. claims \in [Pins -> PeerLists]
  BY LifecycleAssumption
<1> QED BY <1>1, <1>2 DEF Peers

(* What the parts of a mesh are.                                              *)
PartsType == ({"alerts"} \X AlertLists) \cup ({"peers"} \X PeerLists)

LEMMA PartsFacts ==
  ASSUME cur \in Configs, claims \in Claims
  PROVE  Parts \subseteq PartsType
BY PeersType DEF Parts, PartsType

(* What healthSet and the fingerprint are made of. *)
LEMMA ViewFacts ==
  ASSUME TypeOK, NEW c \in Configs, heard \in AlertLists
  PROVE  View(c) \in Views
BY PeersType, ConfigParts DEF View, Views, TypeOK

(* A master starts with a config that builds, and wakes nobody.               *)
LEMMA InitLife == ASSUME Init PROVE LifeInv
<1>1. cur \in Configs /\ file = cur /\ claims \in Claims
  BY LifecycleAssumption DEF Init
<1>2. TypeOK
  <2>1. cur \in Configs
    BY <1>1
  <2>2. been \subseteq PartsType
    BY <1>1, PartsFacts DEF Init
  <2>3. reload \in [Reloaders -> {Nothing} \cup Reloading]
    BY DEF Init
  <2>4. /\ reloadDue = 0 /\ announcing = 0 /\ edits = 0 /\ pc = "subscribe" /\ taken = Nothing
        /\ heard = Nothing /\ pending = Nothing /\ candidate = Nothing /\ fp = Nothing /\ running = Nothing
        /\ raw = FALSE /\ armed = FALSE /\ signals = FALSE /\ subscribed = FALSE /\ failed = FALSE
        /\ returned = FALSE /\ overlapped = FALSE
    BY DEF Init
  <2>5. 0 \in Nat /\ 0 \in 0..MaxEdits
    BY LifecycleAssumption
  <2> QED BY <1>1, <2>2, <2>3, <2>4, <2>5 DEF TypeOK, PartsType
<1>3. WakeupKept
  BY DEF Init, WakeupKept
<1>4. LoadsAreCurrent
  BY DEF Init, LoadsAreCurrent, Unpublished
<1> QED BY <1>2, <1>3, <1>4 DEF Init, LifeInv

(* What is remembered of a change are parts of a mesh.                        *)
LEMMA RememberedParts ==
  ASSUME LifeInv, RememberParts, cur' \in Configs, claims' \in Claims
  PROVE  been' \subseteq PartsType /\ returned' \in BOOLEAN
<1>1. been \subseteq PartsType /\ returned \in BOOLEAN
  BY DEF LifeInv, TypeOK, PartsType
<1>2. Parts' \subseteq PartsType
  <2>1. cur'.alerts \in AlertLists /\ cur'.pins \in Pins /\ claims' \in [Pins -> PeerLists]
    BY ConfigParts, LifecycleAssumption
  <2> QED BY <2>1 DEF Parts, Peers, PartsType
<1> QED BY <1>1, <1>2 DEF RememberParts

(* The steps of the Store and of the registry leave the lifecycle where it    *)
(* is, those of the lifecycle leave the Store and the registry.               *)
LEMMA StoreSteps ==
  ASSUME LifeInv,
         \/ EditFile \/ ChangeClaims \/ (\E r \in Reloaders : Reload(r)) \/ Debounce
  PROVE  /\ TypeOK'
         /\ UNCHANGED <<subscribed, pc, taken, heard, pending, candidate, fp, running, failed>>
<1> USE DEF LifeInv, TypeOK
<1>1. CASE EditFile
  BY <1>1, LifecycleAssumption DEF EditFile, mesh, lifecycle
<1>2. CASE ChangeClaims
  <2>1. cur' \in Configs /\ claims' \in Claims
    BY <1>2 DEF ChangeClaims, store
  <2>2. been' \subseteq PartsType /\ returned' \in BOOLEAN
    BY <1>2, <2>1, RememberedParts DEF ChangeClaims
  <2> QED BY <1>2, <2>1, <2>2, LifecycleAssumption DEF ChangeClaims, store, lifecycle, PartsType
<1>3. ASSUME NEW r \in Reloaders, Load(r)
      PROVE  TypeOK' /\ UNCHANGED <<subscribed, pc, taken, heard, pending, candidate, fp, running, failed>>
  <2>1. reload' \in [Reloaders -> {Nothing} \cup Reloading]
    BY <1>3 DEF Load, Reloading
  <2>2. reloadDue' \in Nat
    BY <1>3 DEF Load
  <2> QED BY <1>3, <2>1, <2>2 DEF Load, mesh, lifecycle
<1>4. ASSUME NEW r \in Reloaders, Publish(r)
      PROVE  TypeOK' /\ UNCHANGED <<subscribed, pc, taken, heard, pending, candidate, fp, running, failed>>
  <2>1. reload[r] \in Reloading
    BY <1>4 DEF Publish
  <2>2. cur' \in Configs /\ reload' \in [Reloaders -> {Nothing} \cup Reloading]
    BY <1>4, <2>1 DEF Publish, Reloading
  <2>3. been' \subseteq PartsType /\ returned' \in BOOLEAN
    <3>1. claims' \in Claims
      BY <1>4 DEF Publish, mesh
    <3> QED BY <1>4, <2>2, <3>1, RememberedParts DEF Publish
  <2> QED BY <1>4, <2>2, <2>3 DEF Publish, mesh, lifecycle, PartsType
<1>5. ASSUME NEW r \in Reloaders, Notify(r)
      PROVE  TypeOK' /\ UNCHANGED <<subscribed, pc, taken, heard, pending, candidate, fp, running, failed>>
  <2>1. reload' \in [Reloaders -> {Nothing} \cup Reloading]
    BY <1>5 DEF Notify
  <2> QED BY <1>5, <2>1 DEF Notify, mesh, lifecycle, history
<1>6. CASE Debounce
  <2>1. /\ UNCHANGED <<file, cur, reload, reloadDue, claims, edits, been, returned, overlapped>>
        /\ UNCHANGED <<subscribed, pc, taken, heard, pending, candidate, fp, running, failed>>
    BY <1>6 DEF Debounce, OnChange, Arm, Fire, store, lifecycle, history
  <2>2. announcing' \in Nat /\ raw' \in BOOLEAN /\ armed' \in BOOLEAN /\ signals' \in BOOLEAN
    <3>1. CASE OnChange
      BY <3>1 DEF OnChange
    <3>2. CASE Arm
      BY <3>2 DEF Arm
    <3>3. CASE Fire
      BY <3>3 DEF Fire
    <3> QED BY <1>6, <3>1, <3>2, <3>3 DEF Debounce
  <2> QED BY <2>1, <2>2
<1> QED BY <1>1, <1>2, <1>3, <1>4, <1>5, <1>6 DEF Reload

(* RunLifecycle at each of its places.                                        *)
LEMMA LifecycleSteps ==
  ASSUME LifeInv, Lifecycle
  PROVE  /\ TypeOK'
         /\ ~subscribed' => pc' = "subscribe"
         /\ pc' \in {"fingerprint", "compare", "build", "construct", "swap"} => taken' \in Configs
         /\ pc' \in {"compare", "construct"} => heard' \in AlertLists
         /\ UNCHANGED <<file, cur, reload, reloadDue, claims, announcing, raw, armed,
                        edits, been, returned, overlapped>>
<1>1. UNCHANGED <<file, cur, reload, reloadDue, claims, announcing, raw, armed,
                  edits, been, returned, overlapped>>
  BY DEF Lifecycle, Subscribe, Initial, TakeSignal, Current,
     HealthAlerts, Fingerprint, Build, Swap, store, mesh, history
<1>2. CASE Subscribe \/ Initial \/ TakeSignal \/ Current
  <2>1. CASE Subscribe
    BY <1>1, <2>1 DEF LifeInv, TypeOK, Subscribe
  <2>2. CASE Initial
    BY <1>1, <2>2 DEF LifeInv, TypeOK, Initial
  <2>3. CASE TakeSignal
    BY <1>1, <2>3 DEF LifeInv, TypeOK, TakeSignal
  <2>4. CASE Current
    BY <1>1, <2>4 DEF LifeInv, TypeOK, Current
  <2> QED BY <1>2, <2>1, <2>2, <2>3, <2>4
<1>3. CASE Fingerprint
  <2>1. View(taken) \in Views
    BY <1>3, ViewFacts DEF LifeInv, Fingerprint
  <2> QED BY <1>1, <1>3, <2>1 DEF LifeInv, TypeOK, Fingerprint
<1>4. CASE Build
  <2>1. View(taken) \in Views
    BY <1>4, ViewFacts DEF LifeInv, Build
  <2> QED BY <1>1, <1>4, <2>1 DEF LifeInv, TypeOK, Build
<1>5. CASE Swap
  BY <1>1, <1>5 DEF LifeInv, TypeOK, Swap
<1>6. CASE HealthAlerts
  <2>1. cur.alerts \in AlertLists
    BY PeersType DEF LifeInv, TypeOK
  <2> QED BY <1>1, <1>6, <2>1 DEF LifeInv, TypeOK, HealthAlerts
<1> QED BY <1>1, <1>2, <1>3, <1>4, <1>5, <1>6 DEF Lifecycle

(* A wakeup is lost by no step: who changes the config or the claims has one  *)
(* to announce, who announces one finds the channel with room or with one in  *)
(* it, and who takes one looks at the Store afterwards.                       *)
LEMMA WakeupStep ==
  ASSUME LifeInv, Next PROVE WakeupKept'
<1>0. TypeOK /\ WakeupKept /\ (~subscribed => pc = "subscribe")
  BY DEF LifeInv
<1>1. ASSUME UNCHANGED <<cur, claims>>,
             UNCHANGED <<subscribed, pc, taken, heard, pending, fp, failed>>,
             Coming => Coming' \/ pc = "subscribe"
      PROVE  WakeupKept'
  <2>1. CurrentView' = CurrentView
    BY <1>1 DEF CurrentView, Peers
  <2> QED BY <1>0, <1>1, <2>1 DEF WakeupKept
<1>2. CASE EditFile
  BY <1>1, <1>2 DEF EditFile, mesh, lifecycle, Coming
<1>3. CASE ChangeClaims
  BY <1>0, <1>3 DEF ChangeClaims, WakeupKept, Coming, TypeOK
<1>4. ASSUME NEW r \in Reloaders, Load(r) PROVE WakeupKept'
  <2>1. \A q \in Reloaders : reload[q] # Nothing => reload'[q] = reload[q]
    BY <1>0, <1>4 DEF Load, TypeOK
  <2>2. Coming => Coming'
    BY <1>4, <2>1 DEF Load, mesh, Coming
  <2> QED BY <1>1, <1>4, <2>2 DEF Load, mesh, lifecycle
<1>5. ASSUME NEW r \in Reloaders, Publish(r) PROVE WakeupKept'
  <2>1. reload[r] \in Reloading /\ reload'[r] = [reload[r] EXCEPT !.published = TRUE]
    BY <1>0, <1>5 DEF Publish, TypeOK
  <2>2. reload'[r] \in Reloading /\ reload'[r].published
    BY <2>1 DEF Reloading
  <2>3. reload'[r] # Nothing
    BY <2>2, LifecycleAssumption
  <2> QED BY <2>2, <2>3 DEF WakeupKept, Coming
<1>6. ASSUME NEW r \in Reloaders, Notify(r) PROVE WakeupKept'
  <2>1. subscribed => Coming'
    BY <1>6 DEF Notify, Coming
  <2>2. ~subscribed => pc = "subscribe"
    BY <1>0
  <2> QED BY <1>1, <1>6, <2>1, <2>2 DEF Notify, mesh, lifecycle, WakeupKept
<1>7. CASE Debounce
  <2>1. Coming'
    BY <1>7 DEF Debounce, OnChange, Arm, Fire, Coming
  <2> QED BY <2>1 DEF WakeupKept
<1>8. CASE Lifecycle
  <2>1. UNCHANGED <<reload, announcing, raw, armed>> /\ CurrentView' = CurrentView
    BY <1>8, LifecycleSteps DEF CurrentView, Peers
  <2>2. CASE Subscribe
    BY <2>2 DEF Subscribe, WakeupKept
  <2>3. CASE Initial \/ Current
    BY <2>3 DEF Initial, Current, store, WakeupKept
  <2>4. CASE TakeSignal
    BY <2>4 DEF TakeSignal, WakeupKept
  <2>5. CASE Fingerprint
    <3>1. Coming' = Coming
      BY <2>1, <2>5 DEF Fingerprint, Coming
    <3>2. CASE Coming
      BY <3>1, <3>2 DEF WakeupKept
    <3>3. CASE ~Coming
      <4>1. taken = cur /\ View(taken) = CurrentView
        BY <1>0, <2>5, <3>3 DEF WakeupKept, Fingerprint, CurrentView, View
      <4> QED BY <2>1, <2>5, <4>1 DEF WakeupKept, Fingerprint
    <3> QED BY <3>2, <3>3
  <2>6. CASE Build
    <3>1. Coming' = Coming
      BY <2>1, <2>6 DEF Build, Coming
    <3> QED BY <1>0, <2>1, <2>6, <3>1 DEF WakeupKept, Build
  <2>7. CASE Swap
    <3>1. Coming' = Coming
      BY <2>1, <2>7 DEF Swap, Coming
    <3> QED BY <1>0, <2>1, <2>7, <3>1 DEF WakeupKept, Swap
  <2>8. CASE HealthAlerts
    <3>1. Coming' = Coming
      BY <2>1, <2>8 DEF HealthAlerts, Coming
    <3> QED BY <1>0, <2>1, <2>8, <3>1 DEF WakeupKept, HealthAlerts, store
  <2> QED BY <1>8, <2>2, <2>3, <2>4, <2>5, <2>6, <2>7, <2>8 DEF Lifecycle
<1> QED BY <1>2, <1>3, <1>4, <1>5, <1>6, <1>7, <1>8 DEF Next, Reload

(* A load that is overtaken by an edit is followed by another one.            *)
LEMMA LoadsStep ==
  ASSUME LifeInv, Next PROVE LoadsAreCurrent'
<1>0. TypeOK /\ LoadsAreCurrent
  BY DEF LifeInv
<1>1. CASE EditFile
  BY <1>0, <1>1 DEF EditFile, LoadsAreCurrent, TypeOK
<1>2. ASSUME UNCHANGED <<file, cur, reload, reloadDue, overlapped>> PROVE LoadsAreCurrent'
  BY <1>0, <1>2 DEF LoadsAreCurrent, Unpublished
<1>3. CASE ChangeClaims
  BY <1>2, <1>3 DEF ChangeClaims, store
<1>4. CASE Debounce
  BY <1>2, <1>4 DEF Debounce, OnChange, Arm, Fire, store, history
<1>5. CASE Lifecycle
  BY <1>2, <1>5, LifecycleSteps
<1>6. ASSUME NEW r \in Reloaders, Load(r), file # Broken, ~overlapped' PROVE LoadsAreCurrent'
  <2>1. /\ reload' = [reload EXCEPT ![r] = [cfg |-> file, published |-> FALSE]]
        /\ UNCHANGED <<file, cur>> /\ reload[r] = Nothing
    BY <1>6 DEF Load
  <2>2. file \in Configs /\ reload \in [Reloaders -> {Nothing} \cup Reloading]
    BY <1>0, <1>6 DEF TypeOK
  <2>3. /\ reload'[r].cfg = file /\ ~reload'[r].published /\ reload'[r] \in Reloading
        /\ \A q \in Reloaders : q # r => reload'[q] = reload[q]
    BY <2>1, <2>2 DEF Reloading
  <2>4. reload'[r] # Nothing
    BY <2>3, LifecycleAssumption
  <2>5. \A q \in Reloaders : Unpublished(q) => reload[q].cfg = file
    BY <1>6 DEF Load, Unpublished
  <2>6. \A q \in Reloaders : Unpublished(q)' => reload'[q].cfg = file'
    BY <2>1, <2>3, <2>5 DEF Unpublished
  <2>7. \E q \in Reloaders : Unpublished(q)'
    BY <2>3, <2>4 DEF Unpublished
  <2> QED BY <2>6, <2>7 DEF LoadsAreCurrent
<1>7. ASSUME NEW r \in Reloaders, Load(r) PROVE LoadsAreCurrent'
  BY <1>6, <1>7 DEF LoadsAreCurrent, Load
<1>8. ASSUME NEW r \in Reloaders, Publish(r) PROVE LoadsAreCurrent'
  <2>1. UNCHANGED <<file, reloadDue, overlapped>> /\ Unpublished(r) /\ cur' = reload[r].cfg
    BY <1>8 DEF Publish, Unpublished
  <2>2. \A q \in Reloaders : Unpublished(q)' => Unpublished(q) /\ reload'[q].cfg = reload[q].cfg
    <3>1. reload[r] \in Reloading
      BY <1>0, <1>8 DEF Publish, TypeOK
    <3>2. reload'[r].published /\ \A q \in Reloaders : q # r => reload'[q] = reload[q]
      BY <1>0, <1>8, <3>1 DEF Publish, Reloading, TypeOK
    <3> QED BY <3>2 DEF Unpublished
  <2> QED BY <1>0, <2>1, <2>2 DEF LoadsAreCurrent
<1>9. ASSUME NEW r \in Reloaders, Notify(r) PROVE LoadsAreCurrent'
  <2>1. UNCHANGED <<file, cur, reloadDue, overlapped>> /\ ~Unpublished(r)
    BY <1>9 DEF Notify, history, Unpublished
  <2>2. \A q \in Reloaders : (Unpublished(q)' <=> Unpublished(q)) /\ (Unpublished(q) => reload'[q] = reload[q])
    <3>1. reload'[r] = Nothing /\ \A q \in Reloaders : q # r => reload'[q] = reload[q]
      BY <1>0, <1>9 DEF Notify, TypeOK
    <3> QED BY <2>1, <3>1 DEF Unpublished
  <2> QED BY <1>0, <2>1, <2>2 DEF LoadsAreCurrent
<1> QED BY <1>1, <1>3, <1>4, <1>5, <1>7, <1>8, <1>9 DEF Next, Reload

(* Every step keeps the invariant. *)
LEMMA LifeStep ==
  ASSUME LifeInv, [Next]_vars PROVE LifeInv'
<1>1. CASE Next
  <2>1. WakeupKept' /\ LoadsAreCurrent'
    BY <1>1, WakeupStep, LoadsStep
  <2>2. CASE Lifecycle
    BY <2>1, <2>2, LifecycleSteps DEF LifeInv
  <2>3. CASE ~Lifecycle
    <3>1. /\ TypeOK'
          /\ UNCHANGED <<subscribed, pc, taken, heard, pending, candidate, fp, running, failed>>
      BY <1>1, <2>3, StoreSteps DEF Next
    <3> QED BY <2>1, <3>1 DEF LifeInv
  <2> QED BY <2>2, <2>3
<1>2. CASE UNCHANGED vars
  <2>1. UNCHANGED <<file, cur, reload, reloadDue, claims, announcing, raw, armed, signals, subscribed,
                    pc, taken, heard, pending, candidate, fp, running, failed, edits, been, returned, overlapped>>
    BY <1>2 DEF vars, store, mesh, lifecycle, history
  <2>2. TypeOK'
    BY <2>1 DEF LifeInv, TypeOK
  <2>3. WakeupKept' /\ LoadsAreCurrent'
    BY <2>1 DEF LifeInv, WakeupKept, Coming, LoadsAreCurrent, Unpublished,
       CurrentView, Peers
  <2> QED BY <2>1, <2>2, <2>3 DEF LifeInv
<1> QED BY <1>1, <1>2

(* No wakeup is lost and the file comes into force, whatever reloads, claims, *)
(* debounce and lifecycle do between each other: at rest the recorded         *)
(* fingerprint is that of the live config and registry, or the last Build     *)
(* failed (reload.go lines 20 to 84, health_signal.go lines 14 to 22,         *)
(* lifecycle.go lines 21 to 24).                                              *)
THEOREM NoWakeupIsLost == Spec => []Inv
<1>1. Init => LifeInv
  BY InitLife
<1>2. LifeInv /\ [Next]_vars => LifeInv'
  BY LifeStep
<1>3. LifeInv => Inv
  <2> SUFFICES ASSUME LifeInv PROVE Inv
    OBVIOUS
  <2>1. NoLostWakeup
    <3>1. Settled => ~Coming /\ pc = "wait"
      BY DEF Settled, Coming, LifeInv, TypeOK
    <3> QED BY <3>1 DEF LifeInv, WakeupKept, NoLostWakeup
  <2>2. FileInForce
    BY DEF LifeInv, LoadsAreCurrent, Unpublished, FileInForce
  <2> QED BY <2>1, <2>2 DEF LifeInv, Inv
<1> QED BY <1>1, <1>2, <1>3, PTL DEF Spec

(* A part of the mesh that was there and, if it is there now, came back.      *)
Left(part) == part \in been /\ (part \in Parts => returned)

(* What was fingerprinted as w may be running as v only if a part of it       *)
(* changed in between, so that it can only be there because it came back.     *)
BuiltFor(v, w) ==
  v = w \/ Left(<<"alerts", w[2]>>) \/ Left(<<"peers", w[3]>>)

PendingParts ==
  /\ pending = <<taken.shape, pending[2], pending[3]>>
  /\ <<"alerts", pending[2]>> \in been /\ <<"peers", pending[3]>> \in been

SchedulerInv ==
  /\ Parts \subseteq been
  /\ pc = "compare" => <<"alerts", heard>> \in been
  /\ pc \in {"build", "construct"} => PendingParts
  /\ pc = "construct" => heard = pending[2] \/ Left(<<"alerts", pending[2]>>)
  /\ pc = "swap" => BuiltFor(candidate, pending)
  /\ BuiltFor(running, fp)

(* At rest the scheduler runs what the live config and registry say, unless   *)
(* the last Build failed or a part of the mesh came back that had been gone.  *)
RestIsCurrent == Settled => running = CurrentView \/ failed \/ returned

(* A change of the mesh is remembered, and so is a return of its parts.       *)
LEMMA PartsStep ==
  ASSUME SchedulerInv, UNCHANGED <<pc, taken, heard, pending, candidate, fp, running>>,
         UNCHANGED <<cur, claims, been, returned>> \/ RememberParts
  PROVE  SchedulerInv'
<1>1. CASE UNCHANGED <<cur, claims, been, returned>>
  <2>1. Parts' = Parts
    BY <1>1 DEF Parts, Peers
  <2> QED BY <1>1, <2>1 DEF SchedulerInv, PendingParts, BuiltFor, Left
<1>2. CASE RememberParts
  <2>1. been \subseteq been' /\ Parts' \subseteq been' /\ (returned => returned')
    BY <1>2 DEF RememberParts
  <2>2. ASSUME NEW part, Left(part) PROVE Left(part)'
    <3>1. CASE part \in Parts
      BY <2>1, <2>2, <3>1 DEF Left
    <3>2. CASE part \notin Parts
      <4>1. part \in Parts' => returned'
        BY <1>2, <2>2, <3>2 DEF RememberParts, Left
      <4> QED BY <2>1, <2>2, <4>1 DEF Left
    <3> QED BY <3>1, <3>2
  <2>3. /\ Left(<<"alerts", fp[2]>>) => Left(<<"alerts", fp[2]>>)'
        /\ Left(<<"peers", fp[3]>>) => Left(<<"peers", fp[3]>>)'
        /\ Left(<<"alerts", pending[2]>>) => Left(<<"alerts", pending[2]>>)'
        /\ Left(<<"peers", pending[3]>>) => Left(<<"peers", pending[3]>>)'
    BY <2>2 DEF Left
  <2> QED BY <2>1, <2>3 DEF SchedulerInv, PendingParts, BuiltFor
<1> QED BY <1>1, <1>2

(* A part that was there and is not the one there now.                        *)
LEMMA GoneParts ==
  ASSUME NEW a, NEW p
  PROVE  /\ <<"alerts", a>> \in been /\ a # cur.alerts => Left(<<"alerts", a>>)
         /\ <<"peers", p>> \in been /\ p # Peers => Left(<<"peers", p>>)
<1>1. a # cur.alerts => <<"alerts", a>> \notin Parts
  BY DEF Parts
<1>2. p # Peers => <<"peers", p>> \notin Parts
  BY DEF Parts
<1> QED BY <1>1, <1>2 DEF Left

(* Store and registry change the mesh, the lifecycle looks at it four times.  *)
LEMMA SchedulerStep ==
  ASSUME LifeInv, SchedulerInv, [Next]_vars
  PROVE  SchedulerInv'
<1>1. CASE EditFile
  BY <1>1, PartsStep DEF EditFile, mesh, lifecycle
<1>2. CASE ChangeClaims
  BY <1>2, PartsStep DEF ChangeClaims, lifecycle
<1>3. ASSUME NEW r \in Reloaders, Load(r) PROVE SchedulerInv'
  BY <1>3, PartsStep DEF Load, mesh, lifecycle
<1>4. ASSUME NEW r \in Reloaders, Publish(r) PROVE SchedulerInv'
  BY <1>4, PartsStep DEF Publish, lifecycle
<1>5. ASSUME NEW r \in Reloaders, Notify(r) PROVE SchedulerInv'
  BY <1>5, PartsStep DEF Notify, mesh, lifecycle, history
<1>6. CASE Debounce
  BY <1>6, PartsStep DEF Debounce, OnChange, Arm, Fire,
     store, lifecycle, history
<1>7. CASE Lifecycle
  <2>1. UNCHANGED <<cur, claims, been, returned>>
    BY <1>7, LifecycleSteps
  <2>2. Peers' = Peers /\ Parts' = Parts
    BY <2>1 DEF Parts, Peers
  <2>3. /\ Parts' \subseteq been'
        /\ UNCHANGED <<fp, running>> => BuiltFor(running, fp)'
    BY <2>1, <2>2 DEF SchedulerInv, BuiltFor, Left
  <2>4. CASE Subscribe \/ Initial \/ TakeSignal \/ Current
    BY <2>3, <2>4 DEF SchedulerInv, Subscribe, Initial, TakeSignal, Current
  <2>5. CASE HealthAlerts
    <3>1. UNCHANGED <<taken, pending, candidate, fp, running>> /\ heard' = cur.alerts
      BY <2>5 DEF HealthAlerts
    <3>2. <<"alerts", heard'>> \in been'
      BY <2>1, <3>1 DEF SchedulerInv, Parts
    <3>3. pc = "build" => PendingParts /\ PendingParts'
      BY <2>1, <3>1 DEF SchedulerInv, PendingParts
    <3>4. pc = "build" => heard' = pending'[2] \/ Left(<<"alerts", pending[2]>>)'
      <4>1. pc = "build" => pending[2] = cur.alerts \/ Left(<<"alerts", pending[2]>>)
        BY <3>3, GoneParts DEF PendingParts
      <4> QED BY <2>1, <2>2, <3>1, <4>1 DEF Left
    <3> QED BY <2>3, <2>5, <3>1, <3>2, <3>3, <3>4 DEF SchedulerInv, HealthAlerts
  <2>6. CASE Fingerprint
    <3>1. <<"alerts", heard>> \in been /\ <<"peers", Peers>> \in been
      BY <2>6 DEF SchedulerInv, Fingerprint, Parts
    <3>2. pc' = "build" => PendingParts'
      BY <2>1, <2>6, <3>1 DEF Fingerprint, PendingParts, View
    <3> QED BY <2>3, <2>6, <3>2 DEF SchedulerInv, Fingerprint
  <2>7. CASE Build
    <3>1. /\ PendingParts
          /\ heard = pending[2] \/ Left(<<"alerts", pending[2]>>)
      BY <2>7 DEF SchedulerInv, Build
    <3>2. pc' = "swap" => candidate' = <<taken.shape, heard, Peers>> /\ pending' = pending
      BY <2>7 DEF Build, View
    <3>3. pc' = "swap" => \/ candidate' = pending'
                          \/ Left(<<"alerts", pending[2]>>) \/ Left(<<"peers", pending[3]>>)
      <4>1. Peers = pending[3] \/ Left(<<"peers", pending[3]>>)
        BY <3>1, GoneParts DEF PendingParts
      <4> QED BY <3>1, <3>2, <4>1 DEF PendingParts
    <3>4. pc' = "swap" => BuiltFor(candidate, pending)'
      BY <2>1, <2>2, <3>2, <3>3 DEF BuiltFor, Left
    <3> QED BY <2>3, <2>7, <3>4 DEF SchedulerInv, Build
  <2>8. CASE Swap
    <3>1. BuiltFor(candidate, pending) /\ running' = candidate /\ fp' = pending
      BY <2>8 DEF SchedulerInv, Swap
    <3>2. BuiltFor(running, fp)'
      BY <2>1, <2>2, <3>1 DEF BuiltFor, Left
    <3> QED BY <2>3, <2>8, <3>2 DEF SchedulerInv, Swap
  <2> QED BY <1>7, <2>4, <2>5, <2>6, <2>7, <2>8 DEF Lifecycle
<1>8. CASE UNCHANGED vars
  BY <1>8, PartsStep DEF vars, store, mesh, lifecycle, history
<1> QED BY <1>1, <1>2, <1>3, <1>4, <1>5, <1>6, <1>7, <1>8 DEF Next, Reload

(* At rest the scheduler runs what config and registry say, though alerts and *)
(* peers are read twice and at four moments: what it may run instead needs a  *)
(* failed Build, or a part of the mesh that came back after it was gone (the  *)
(* comment at lifecycle.go lines 66 to 75 thinks of one that stays changed).  *)
THEOREM RestRunsTheCurrentView == Spec => []RestIsCurrent
<1>1. Init => LifeInv /\ SchedulerInv
  BY InitLife DEF Init, SchedulerInv, BuiltFor
<1>2. LifeInv /\ SchedulerInv /\ [Next]_vars => LifeInv' /\ SchedulerInv'
  BY LifeStep, SchedulerStep
<1>3. LifeInv /\ SchedulerInv => RestIsCurrent
  <2> SUFFICES ASSUME LifeInv, SchedulerInv, Settled, ~failed, running # CurrentView
               PROVE  returned
    BY DEF RestIsCurrent
  <2>1. fp = CurrentView
    <3>1. ~Coming /\ pc = "wait"
      BY DEF Settled, Coming, LifeInv, TypeOK
    <3> QED BY <3>1 DEF LifeInv, WakeupKept
  <2>2. <<"alerts", fp[2]>> \in Parts /\ <<"peers", fp[3]>> \in Parts
    BY <2>1 DEF CurrentView, Parts
  <2>3. Left(<<"alerts", fp[2]>>) \/ Left(<<"peers", fp[3]>>)
    BY <2>1 DEF SchedulerInv, BuiltFor
  <2> QED BY <2>2, <2>3 DEF Left
<1> QED BY <1>1, <1>2, <1>3, PTL DEF Spec

-----------------------------------------------------------------------------
(* The loop of one target.                                                    *)

(* Where the batch is: only the attempts up to the current one were made, and *)
(* a batch that has drawn no sequence numbers has made none.                  *)
BatchPlace ==
  /\ n < Count /\ (stage = "gap" => n < Count - 1)
  /\ \A k \in DOMAIN fate : k > n => fate[k] = "unsent"
  /\ stage = "ready" => fate[n] = "unsent"
  /\ \A k \in DOMAIN fate : fate[k] = "pending" <=> stage = "wait" /\ k = n
  /\ stage \in {"off", "resolve", "nil"} =>
       sent = 0 /\ lost = 0 /\ rtts = <<>> /\ \A k \in DOMAIN fate : fate[k] = "unsent"
  /\ Echoing => \/ base \in BaseSeqs
                \/ /\ stage \notin {"ready", "wait", "gap"}
                   /\ \A k \in DOMAIN fate : fate[k] = "unsent"

(* When the attempt was made and when its time is up. *)
BatchTimes ==
  stage = "wait" =>
    /\ began <= now
    /\ cut \/ promised <= until \/ Interval <= promised

LostFates == {"silent", "refused"} \cup (IF Echoing THEN {} ELSE {"interrupted"})

AnsweredPings == WithFate({"answered"})
LostPings == WithFate(LostFates)
MisreadPings == WithFate({"misread"})

(* The Result so far is what became of the attempts. *)
BatchAccount ==
  /\ MisreadPings = {}
  /\ Len(rtts) = Cardinality(AnsweredPings)
  /\ lost = Cardinality(LostPings)
  /\ sent = lost + Len(rtts) + (IF stage = "wait" THEN 1 ELSE 0)
  /\ sent <= n + (IF stage = "ready" THEN 0 ELSE 1)

BatchInv == BatchTypeOK /\ BatchPlace /\ BatchTimes /\ BatchAccount

(* Where the walk is: a step has a TTL, the rounds before this one are        *)
(* complete, and a read ends with the cycle at the latest.                    *)
WalkPlace ==
  /\ walk # "off" => Echoing
  /\ walk \in {"step", "wait", "gap"} => ttl \in Depths
  /\ ~WalkEnded => attempted = round /\ round < RoundsToWalk
  /\ walk = "wait" => wuntil <= Interval

WalkInv == WalkTypeOK /\ WalkPlace /\ ~misled

(* What the sinks are given is what the probe returned. *)
CycleIsResult ==
  loop = "sinks" =>
    /\ stage \in {"over", "nil"}
    /\ IF stage = "nil" /\ kind # "mtr"
       THEN \/ cycle = NoCycle /\ stopping
            \/ cycle = [NoCycle EXCEPT !.sent = Pings, !.lost = Pings]
       ELSE cycle = [sent |-> sent, lost |-> lost, rtts |-> rtts,
                     hops |-> IF walk = "done" THEN Hops ELSE <<>>]

LoopIInv ==
  /\ LoopInv
  /\ loop = "probing" => stage # "off"
  /\ BatchInv /\ WalkInv /\ CycleIsResult

-----------------------------------------------------------------------------
(* The numbers of a cycle.                                                    *)

(* A product grows with its first factor. *)
LEMMA ProductGrows ==
  ASSUME NEW a \in Nat, NEW b \in Nat, NEW m \in Nat, a <= b
  PROVE  a * m \in Nat /\ b * m \in Nat /\ a * m <= b * m /\ (a + 1) * m = a * m + m
<1>1. PICK c \in Nat : b = a + c
  <2>1. b - a \in Nat /\ b = a + (b - a)
    OBVIOUS
  <2> QED BY <2>1
<1>2. b * m = a * m + c * m /\ c * m \in Nat /\ a * m \in Nat /\ (a + 1) * m = a * m + m
  BY <1>1
<1> QED BY <1>2

(* How many attempts and rounds there are, and what the walk leaves of the    *)
(* sequence numbers.                                                          *)
LEMMA CountFacts ==
  ASSUME kind \in Kinds
  PROVE  /\ Count \in 1..Pings /\ RoundsToWalk \in 1..WalkRounds
         /\ TraceSeqCeil \in Nat /\ TraceSeqCeil <= SeqSpace - Count
<1>1. /\ Pings \in Nat \ {0} /\ HTTPRequests \in Nat \ {0} /\ WalkRounds \in Nat \ {0}
      /\ WalkDepth \in Nat \ {0} /\ SeqSpace \in Nat /\ SeqSpace >= TraceSeqCeil + Pings
  BY BatchAssumption DEF TraceSeqCeil
<1>2. TraceSeqCeil \in Nat
  BY <1>1, ProductGrows DEF TraceSeqCeil
<1>3. Count \in 1..Pings
  BY <1>1 DEF Count, AtMost
<1>4. RoundsToWalk \in 1..WalkRounds
  BY <1>1 DEF RoundsToWalk, Count, AtMost
<1> QED BY <1>1, <1>2, <1>3, <1>4

(* The sequence numbers of the pings lie above the walk's and do not wrap. *)
LEMMA PingSeqs ==
  ASSUME kind \in Kinds, base \in BaseSeqs, NEW k \in 0..(Count - 1)
  PROVE  SeqOf(k) = base + k /\ SeqOf(k) \in Nat /\ TraceSeqCeil <= SeqOf(k)
<1>1. /\ Count \in 1..Pings /\ TraceSeqCeil \in Nat /\ TraceSeqCeil <= SeqSpace - Count
      /\ SeqSpace \in Nat /\ Pings \in Nat
  BY CountFacts, BatchAssumption
<1>2. base \in Nat /\ TraceSeqCeil <= base /\ base <= SeqSpace - Count
  BY <1>1 DEF BaseSeqs
<1>3. base + k \in 0..(SeqSpace - 1) /\ SeqSpace \in Nat \ {0} /\ TraceSeqCeil <= base + k
  BY <1>1, <1>2
<1>4. (base + k) % SeqSpace = base + k
  BY <1>3, ModSmall
<1> QED BY <1>3, <1>4 DEF SeqOf

(* Every step of a walk has a sequence number of its own, below the pings'. *)
LEMMA WalkSeqs ==
  ASSUME NEW r \in Rounds, NEW t \in Depths
  PROVE  /\ WalkSeq(r, t) \in Nat /\ WalkSeq(r, t) < TraceSeqCeil
         /\ \A q \in Rounds, u \in Depths : WalkSeq(q, u) = WalkSeq(r, t) => q = r /\ u = t
<1> DEFINE m == WalkDepth + 1
<1>1. WalkRounds \in Nat \ {0} /\ WalkDepth \in Nat /\ m \in Nat
  BY BatchAssumption
<1>2. \A q \in Rounds : q \in Nat /\ q + 1 \in Nat /\ q + 1 <= WalkRounds
  BY <1>1 DEF Rounds
<1>3. \A u \in Depths : u \in Nat /\ 1 <= u /\ u < m
  BY <1>1 DEF Depths
<1>4. \A a, b \in Nat : a <= b => /\ a * m \in Nat /\ b * m \in Nat /\ a * m <= b * m
                                  /\ (a + 1) * m = a * m + m
  BY <1>1, ProductGrows
<1>5. TraceSeqCeil = WalkRounds * m /\ \A q, u : WalkSeq(q, u) = q * m + u
  BY DEF TraceSeqCeil, WalkSeq
<1> HIDE DEF m
<1>6. WalkSeq(r, t) \in Nat /\ WalkSeq(r, t) < TraceSeqCeil
  <2>1. r * m \in Nat /\ (r + 1) * m <= WalkRounds * m /\ (r + 1) * m = r * m + m
        /\ WalkRounds * m \in Nat
    BY <1>1, <1>2, <1>4
  <2> QED BY <1>1, <1>3, <1>5, <2>1
<1>7. ASSUME NEW q \in Rounds, NEW u \in Depths, WalkSeq(q, u) = WalkSeq(r, t)
      PROVE  q = r /\ u = t
  <2>1. q * m + u = r * m + t /\ q * m \in Nat /\ r * m \in Nat /\ q \in Nat /\ r \in Nat
    BY <1>2, <1>4, <1>5, <1>7
  <2>2. ~(q + 1 <= r)
    <3>1. q + 1 <= r => q * m + m <= r * m
      BY <1>2, <1>4, <2>1
    <3> QED BY <1>1, <1>3, <2>1, <3>1
  <2>3. ~(r + 1 <= q)
    <3>1. r + 1 <= q => r * m + m <= q * m
      BY <1>2, <1>4, <2>1
    <3> QED BY <1>1, <1>3, <2>1, <3>1
  <2>4. q = r
    BY <2>1, <2>2, <2>3
  <2>5. u \in Nat /\ t \in Nat
    BY <1>3
  <2> QED BY <2>1, <2>4, <2>5
<1> QED BY <1>6, <1>7

(* An attempt's share of the cycle. *)
LEMMA BudgetFacts ==
  ASSUME kind \in Kinds, now \in Nat, NEW k \in 0..(Count - 1)
  PROVE  Budget(k) \in Nat
<1> DEFINE left == Interval - now - (Count - 1 - k) * Spacing
           m == Count - k
<1>1. /\ Interval \in Nat /\ Timeout \in Nat /\ Spacing \in Nat /\ Count \in Nat
  BY CountFacts, BatchAssumption, IntervalAssumption
<1>2. left \in Int /\ m \in Nat \ {0}
  <2>1. Count - 1 - k \in Nat
    BY <1>1
  <2>2. (Count - 1 - k) * Spacing \in Nat
    BY <1>1, <2>1, ProductGrows
  <2> QED BY <1>1, <2>2
<1>3. Budget(k) = IF left <= 0 THEN 0 ELSE AtMost(left \div m, Timeout)
  BY DEF Budget
<1> HIDE DEF left, m
<1>4. left > 0 => left \div m \in Nat
  <2>1. left = m * (left \div m) + (left % m) /\ left \div m \in Int /\ left % m \in 0..(m - 1)
    BY <1>2, ModDef, ModRange
  <2>2. ASSUME left > 0, left \div m < 0 PROVE FALSE
    <3>1. -(left \div m) \in Nat /\ 1 <= -(left \div m)
      BY <2>1, <2>2
    <3>2. m <= (-(left \div m)) * m
      BY <1>2, <3>1, ProductGrows
    <3> QED BY <1>2, <2>1, <2>2, <3>2
  <2> QED BY <2>1, <2>2
<1> QED BY <1>1, <1>2, <1>3, <1>4 DEF AtMost

-----------------------------------------------------------------------------
(* What a read may take for the answer.                                       *)

(* The pings in the air are the attempts made. *)
LEMMA PingsInTheAir ==
  ASSUME BatchInv, NEW d \in EchoWire
  PROVE  \E k \in 0..(Count - 1) :
           /\ fate[k] # "unsent" /\ d.id = Own /\ d.seq = SeqOf(k)
           /\ d.about = <<"ping", k>> \/ d.type = "request" \/ d.from = "router"
           /\ d.type \in {"reply", "request"}
<1>1. PICK k \in DOMAIN fate :
        /\ fate[k] # "unsent"
        /\ d \in {Datagram("target", "reply", Own, SeqOf(k), <<"ping", k>>),
                  Datagram("router", "reply", Own, SeqOf(k), <<"impostor">>),
                  Datagram("target", "request", Own, SeqOf(k), <<"impostor">>)}
  BY DEF EchoWire
<1>2. k \in 0..(Count - 1)
  BY <1>1, CountFacts DEF BatchInv, BatchTypeOK, BatchPlace
<1> QED BY <1>1, <1>2 DEF Datagram

(* The walk's datagrams of this trace are answers to its steps, or a router's *)
(* reply in the target's place.                                               *)
LEMMA StepsInTheAir ==
  ASSUME WalkTypeOK, NEW d \in WalkWire, d.id = Own
  PROVE  \E r \in Rounds, t \in Depths :
           /\ d.seq = WalkSeq(r, t)
           /\ d.about = <<"step", r, t>> \/ (d.type = "reply" /\ d.from = "router")
<1>1. d \notin StrangerAnswers
  BY DEF StrangerAnswers, Datagram, Own, Other
<1>2. PICK r \in Rounds : d \in UNION {StepAnswers(r, t) : t \in 1..last[r]}
  BY <1>1 DEF WalkWire
<1>5. PICK t \in 1..last[r] : d \in StepAnswers(r, t)
  BY <1>2
<1>3. t \in Depths
  BY <1>5, BatchAssumption DEF WalkTypeOK, Depths
<1>4. /\ d.seq = WalkSeq(r, t)
      /\ d.about = <<"step", r, t>> \/ (d.type = "reply" /\ d.from = "router")
  BY <1>5 DEF StepAnswers, Datagram
<1> QED BY <1>3, <1>4

(* What has been sent has a number the batch drew. *)
LEMMA Drawn ==
  ASSUME BatchInv, Echoing, stage = "wait" \/ \E k \in DOMAIN fate : fate[k] # "unsent"
  PROVE  base \in BaseSeqs
BY DEF BatchInv, BatchPlace

(* A reply that matches the attempt is the answer to it, though the walk uses *)
(* the same identifier.                                                       *)
LEMMA MatchIsAnswer ==
  ASSUME BatchInv, WalkTypeOK, Echoing, stage = "wait", NEW d \in Air, MatchEchoReply(d)
  PROVE  d.about = <<"ping", n>>
<1>0. kind \in Kinds /\ n \in 0..(Count - 1)
  BY CountFacts DEF BatchInv, BatchTypeOK, BatchPlace
<1>1. base \in BaseSeqs
  BY Drawn
<1>2. d.type = "reply" /\ d.id = Own /\ d.seq = SeqOf(n) /\ d.from = "target"
  BY DEF MatchEchoReply
<1>3. CASE d \in EchoWire
  <2>1. PICK k \in 0..(Count - 1) : d.seq = SeqOf(k) /\ d.about = <<"ping", k>>
    BY <1>2, <1>3, PingsInTheAir
  <2>2. SeqOf(k) = base + k /\ SeqOf(n) = base + n
    BY <1>0, <1>1, <2>1, PingSeqs
  <2>3. base \in Int /\ Count \in Int
    BY <1>0, <1>1, CountFacts, BatchAssumption DEF BaseSeqs
  <2>4. base + k = base + n
    BY <1>2, <2>1, <2>2
  <2>5. k = n
    BY <1>0, <2>1, <2>3, <2>4
  <2> QED BY <2>1, <2>5
<1>4. CASE d \in WalkWire
  <2>1. PICK r \in Rounds, t \in Depths : d.seq = WalkSeq(r, t)
    BY <1>2, <1>4, StepsInTheAir
  <2>2. WalkSeq(r, t) \in Nat /\ WalkSeq(r, t) < TraceSeqCeil
    BY <2>1, WalkSeqs
  <2>3. TraceSeqCeil <= SeqOf(n) /\ SeqOf(n) \in Nat /\ TraceSeqCeil \in Nat
    BY <1>0, <1>1, PingSeqs, CountFacts
  <2> QED BY <1>2, <2>1, <2>2, <2>3
<1> QED BY <1>3, <1>4 DEF Air

(* An answer the walk accepts is one to its step. *)
LEMMA ClassifiedIsAnswer ==
  ASSUME BatchInv, WalkTypeOK, Echoing, round \in Rounds, ttl \in Depths,
         NEW d \in Air, ClassifyReply(d) # "none"
  PROVE  d.about = <<"step", round, ttl>>
<1>0. kind \in Kinds
  BY DEF BatchInv, BatchTypeOK
<1>1. /\ d.id = Own /\ d.seq = WalkSeq(round, ttl)
      /\ d.type # "request" /\ (d.type = "reply" => d.from = "target")
  BY DEF ClassifyReply, Quotes
<1>2. CASE d \in EchoWire
  <2>1. PICK k \in 0..(Count - 1) : fate[k] # "unsent" /\ d.seq = SeqOf(k)
    BY <1>2, PingsInTheAir
  <2>2. k \in DOMAIN fate
    BY <1>0, <2>1, CountFacts, BatchAssumption DEF BatchInv, BatchTypeOK
  <2>3. base \in BaseSeqs
    BY <2>1, <2>2, Drawn
  <2>4. TraceSeqCeil <= SeqOf(k) /\ SeqOf(k) \in Nat /\ TraceSeqCeil \in Nat
    BY <1>0, <2>1, <2>3, PingSeqs, CountFacts
  <2>5. WalkSeq(round, ttl) \in Nat /\ WalkSeq(round, ttl) < TraceSeqCeil
    BY WalkSeqs
  <2> QED BY <1>1, <2>1, <2>4, <2>5
<1>3. CASE d \in WalkWire
  <2>1. PICK r \in Rounds, t \in Depths : d.seq = WalkSeq(r, t) /\ d.about = <<"step", r, t>>
    BY <1>1, <1>3, StepsInTheAir
  <2>2. r = round /\ t = ttl
    BY <1>1, <2>1, WalkSeqs
  <2> QED BY <2>1, <2>2
<1> QED BY <1>2, <1>3 DEF Air

-----------------------------------------------------------------------------
(* The batch.                                                                 *)

(* One attempt meets its fate. *)
LEMMA Fated ==
  ASSUME BatchTypeOK, NEW k \in DOMAIN fate, NEW as, fate' = [fate EXCEPT ![k] = as],
         NEW F, fate[k] \notin F
  PROVE  /\ Cardinality(WithFate(F)) \in Nat
         /\ Cardinality({j \in DOMAIN fate' : fate'[j] \in F})
              = Cardinality(WithFate(F)) + (IF as \in F THEN 1 ELSE 0)
<1> DEFINE S == WithFate(F)
           T == {j \in DOMAIN fate' : fate'[j] \in F}
<1>1. fate \in [0..(Pings - 1) -> Fates] /\ DOMAIN fate = 0..(Pings - 1) /\ DOMAIN fate' = DOMAIN fate
  BY DEF BatchTypeOK
<1>2. IsFiniteSet(DOMAIN fate)
  BY <1>1, FS_Interval, BatchAssumption
<1>3. S \subseteq DOMAIN fate /\ k \notin S
  BY DEF WithFate
<1>4. IsFiniteSet(S)
  BY <1>2, <1>3, FS_Subset
<1>5. fate'[k] = as /\ \A j \in DOMAIN fate : j # k => fate'[j] = fate[j]
  BY <1>1
<1>6. T = IF as \in F THEN S \cup {k} ELSE S
  BY <1>1, <1>3, <1>5 DEF WithFate
<1>7. Cardinality(S \cup {k}) = Cardinality(S) + 1 /\ Cardinality(S) \in Nat
  BY <1>3, <1>4, FS_AddElement, FS_CardinalityType
<1> HIDE DEF S, T
<1>8. CASE as \in F
  <2>1. Cardinality(T) = Cardinality(S) + 1
    BY <1>6, <1>7, <1>8
  <2>2. (IF as \in F THEN 1 ELSE 0) = 1
    BY <1>8
  <2> QED BY <1>7, <2>1, <2>2 DEF S, T
<1>9. CASE as \notin F
  <2>1. Cardinality(T) = Cardinality(S) + 0
    BY <1>6, <1>7, <1>9
  <2>2. (IF as \in F THEN 1 ELSE 0) = 0
    BY <1>9
  <2> QED BY <1>7, <2>1, <2>2 DEF S, T
<1> QED BY <1>8, <1>9

(* What became of the attempts after one has met its fate. *)
LEMMA FatesThen ==
  ASSUME BatchInv, NEW k \in DOMAIN fate, fate[k] \in {"unsent", "pending"},
         NEW as \in Fates \ {"misread"}, fate' = [fate EXCEPT ![k] = as], kind' = kind
  PROVE  /\ Cardinality(AnsweredPings) \in Nat /\ Cardinality(LostPings) \in Nat
         /\ Cardinality(AnsweredPings') = Cardinality(AnsweredPings) + (IF as = "answered" THEN 1 ELSE 0)
         /\ Cardinality(LostPings') = Cardinality(LostPings) + (IF as \in LostFates THEN 1 ELSE 0)
         /\ MisreadPings' = {}
<1>0. BatchTypeOK /\ MisreadPings = {}
  BY DEF BatchInv, BatchAccount
<1>1. \A F : fate[k] \notin F =>
        /\ Cardinality(WithFate(F)) \in Nat
        /\ Cardinality({j \in DOMAIN fate' : fate'[j] \in F})
             = Cardinality(WithFate(F)) + (IF as \in F THEN 1 ELSE 0)
  BY <1>0, Fated
<1>2. LostFates' = LostFates /\ fate[k] \notin LostFates /\ fate[k] \notin {"answered"}
  BY DEF LostFates, Echoing
<1>3. /\ AnsweredPings' = {j \in DOMAIN fate' : fate'[j] \in {"answered"}}
      /\ LostPings' = {j \in DOMAIN fate' : fate'[j] \in LostFates}
  BY <1>2 DEF AnsweredPings, LostPings, WithFate
<1>4. MisreadPings' = {}
  <2>1. \A j \in DOMAIN fate : fate[j] # "misread"
    BY <1>0 DEF MisreadPings, WithFate
  <2>2. \A j \in DOMAIN fate' : fate'[j] # "misread"
    BY <2>1
  <2> QED BY <2>2 DEF MisreadPings, WithFate
<1>5. /\ Cardinality(AnsweredPings) \in Nat
      /\ Cardinality(AnsweredPings') = Cardinality(AnsweredPings) + (IF as \in {"answered"} THEN 1 ELSE 0)
  BY <1>1, <1>2, <1>3 DEF AnsweredPings
<1>6. /\ Cardinality(LostPings) \in Nat
      /\ Cardinality(LostPings') = Cardinality(LostPings) + (IF as \in LostFates THEN 1 ELSE 0)
  BY <1>1, <1>2, <1>3 DEF LostPings
<1> QED BY <1>4, <1>5, <1>6

(* An attempt that was made ends one way or the other. *)
LEMMA EndOfAttempt ==
  ASSUME BatchInv, stage = "wait", NEW as \in Fates \ {"unsent", "pending"},
         fate' = [fate EXCEPT ![n] = as], UNCHANGED <<kind, n, base, now>>,
         stage' \in {"over", "gap"}, stage' = "gap" => n # Count - 1
  PROVE  /\ n \in DOMAIN fate /\ fate[n] = "pending"
         /\ fate' \in [0..(Pings - 1) -> Fates]
         /\ BatchPlace' /\ BatchTimes'
<1>0. /\ n \in 0..(Pings - 1) /\ fate \in [0..(Pings - 1) -> Fates] /\ kind \in Kinds
      /\ DOMAIN fate = 0..(Pings - 1)
  BY DEF BatchInv, BatchTypeOK
<1>1. n \in DOMAIN fate /\ fate[n] = "pending"
  BY <1>0 DEF BatchInv, BatchPlace
<1>2. /\ fate' \in [0..(Pings - 1) -> Fates] /\ DOMAIN fate' = DOMAIN fate
      /\ fate'[n] = as /\ \A k \in DOMAIN fate : k # n => fate'[k] = fate[k]
  BY <1>0
<1>3. Count' = Count /\ (Echoing' <=> Echoing) /\ Count \in 1..Pings /\ Pings \in Nat
  BY <1>0, CountFacts, BatchAssumption DEF Count, Echoing
<1>4. BaseSeqs' = BaseSeqs
  BY <1>3 DEF BaseSeqs
<1>5. n' < Count' /\ (stage' = "gap" => n' < Count' - 1)
  BY <1>0, <1>3 DEF BatchInv, BatchPlace
<1>6. /\ \A k \in DOMAIN fate' : k > n' => fate'[k] = "unsent"
      /\ \A k \in DOMAIN fate' : fate'[k] # "pending"
  BY <1>0, <1>2 DEF BatchInv, BatchPlace
<1>7. Echoing => base \in BaseSeqs
  BY Drawn
<1>8. BatchPlace'
  BY <1>3, <1>4, <1>5, <1>6, <1>7 DEF BatchPlace
<1>9. BatchTimes'
  BY DEF BatchTimes
<1> QED BY <1>1, <1>2, <1>8, <1>9

(* An answer. *)
LEMMA SuccessKeeps ==
  ASSUME BatchInv, stage = "wait", now \in 0..Interval, Succeeds("answered"), now' = now
  PROVE  BatchInv'
<1> USE IntervalAssumption
<1>0. BatchTypeOK /\ BatchPlace /\ BatchTimes /\ BatchAccount
  BY DEF BatchInv
<1>1. /\ stage' \in {"over", "gap"} /\ (stage' = "gap" => n # Count - 1)
      /\ fate' = [fate EXCEPT ![n] = "answered"] /\ rtts' = Append(rtts, now - began)
      /\ UNCHANGED <<kind, n, base, sent, lost, now>>
      /\ began' = 0 /\ promised' = 0 /\ cut' = FALSE /\ until' \in {0, now + Spacing}
  BY DEF Succeeds, Onward
<1>2. /\ n \in DOMAIN fate /\ fate[n] = "pending"
      /\ fate' \in [0..(Pings - 1) -> Fates]
      /\ BatchPlace' /\ BatchTimes'
  BY <1>1, EndOfAttempt DEF Fates
<1>3. now - began \in 0..Interval
  BY <1>0 DEF BatchTypeOK, BatchTimes
<1>4. rtts' \in Seq(0..Interval) /\ Len(rtts') = Len(rtts) + 1 /\ Len(rtts) \in Nat
  BY <1>0, <1>1, <1>3 DEF BatchTypeOK
<1>5. BatchTypeOK'
  <2>1. 0 \in Nat /\ now + Spacing \in Nat
    BY BatchAssumption
  <2>2. {began, until, promised}' \subseteq Nat /\ cut' \in BOOLEAN
    BY <1>1, <2>1
  <2> QED BY <1>0, <1>1, <1>2, <1>4, <2>2 DEF BatchTypeOK, Ended
<1>6. /\ Cardinality(AnsweredPings') = Cardinality(AnsweredPings) + 1
      /\ Cardinality(LostPings') = Cardinality(LostPings)
      /\ MisreadPings' = {}
  <2>1. "answered" \notin LostFates /\ "answered" \in Fates \ {"misread"}
    BY DEF LostFates, Fates
  <2>2. Cardinality(LostPings') = Cardinality(LostPings) + 0 /\ Cardinality(LostPings) \in Nat
    BY <1>1, <1>2, <2>1, FatesThen
  <2>3. Cardinality(AnsweredPings') = Cardinality(AnsweredPings) + 1 /\ MisreadPings' = {}
    BY <1>1, <1>2, <2>1, FatesThen
  <2> QED BY <2>2, <2>3
<1>7. BatchAccount'
  <2>1. sent \in Nat /\ lost \in Nat /\ n \in Nat
    BY <1>0 DEF BatchTypeOK
  <2>2. sent = lost + Len(rtts) + 1 /\ sent <= n + 1
    BY <1>0 DEF BatchAccount
  <2>4. stage' # "wait" /\ stage' # "ready" /\ n' = n /\ sent' = sent /\ lost' = lost
    BY <1>1
  <2>5. sent' = lost' + Len(rtts') + 0 /\ sent' <= n' + 1
    BY <1>4, <2>1, <2>2, <2>4
  <2>3. sent' = lost' + Len(rtts') + (IF stage' = "wait" THEN 1 ELSE 0)
        /\ sent' <= n' + (IF stage' = "ready" THEN 0 ELSE 1)
    BY <2>4, <2>5
  <2> QED BY <1>0, <1>1, <1>4, <1>6, <2>3 DEF BatchAccount
<1> QED BY <1>2, <1>5, <1>7 DEF BatchInv

(* A loss. *)
LEMMA LossKeeps ==
  ASSUME BatchInv, stage = "wait", NEW as \in LostFates, Loses(as), now \in 0..Interval, now' = now
  PROVE  BatchInv'
<1> USE IntervalAssumption
<1>0. BatchTypeOK /\ BatchPlace /\ BatchTimes /\ BatchAccount
  BY DEF BatchInv
<1>1. /\ stage' \in {"over", "gap"} /\ (stage' = "gap" => n # Count - 1)
      /\ fate' = [fate EXCEPT ![n] = as] /\ lost' = lost + 1
      /\ UNCHANGED <<kind, n, base, sent, rtts, now>>
      /\ began' = 0 /\ promised' = 0 /\ cut' = FALSE /\ until' \in {0, now + Spacing}
  BY DEF Loses, Onward
<1>2. as \in {"silent", "refused", "interrupted"}
  BY DEF LostFates
<1>3. /\ n \in DOMAIN fate /\ fate[n] = "pending"
      /\ fate' \in [0..(Pings - 1) -> Fates]
      /\ BatchPlace' /\ BatchTimes'
  BY <1>1, <1>2, EndOfAttempt DEF Fates
<1>4. sent = lost + Len(rtts) + 1 /\ Len(rtts) \in Nat /\ lost \in Nat /\ sent \in 0..Pings
  BY <1>0 DEF BatchAccount, BatchTypeOK
<1>5. BatchTypeOK'
  <2>1. 0 \in Nat /\ now + Spacing \in Nat
    BY BatchAssumption
  <2>2. {began, until, promised}' \subseteq Nat /\ cut' \in BOOLEAN
    BY <1>1, <2>1
  <2>3. lost' \in 0..Pings
    BY <1>1, <1>4, BatchAssumption
  <2> QED BY <1>0, <1>1, <1>3, <2>2, <2>3 DEF BatchTypeOK, Ended
<1>6. /\ Cardinality(AnsweredPings') = Cardinality(AnsweredPings)
      /\ Cardinality(LostPings') = Cardinality(LostPings) + 1
      /\ MisreadPings' = {}
  <2>1. as # "answered" /\ as \in Fates \ {"misread"}
    BY <1>2 DEF Fates
  <2>2. Cardinality(AnsweredPings') = Cardinality(AnsweredPings) + 0 /\ Cardinality(AnsweredPings) \in Nat
    BY <1>1, <1>3, <2>1, FatesThen
  <2>3. Cardinality(LostPings') = Cardinality(LostPings) + 1 /\ MisreadPings' = {}
    BY <1>1, <1>3, <2>1, FatesThen
  <2> QED BY <2>2, <2>3
<1>7. BatchAccount'
  <2>1. n \in Nat /\ sent <= n + 1
    BY <1>0 DEF BatchTypeOK, BatchAccount
  <2>3. sent' = lost' + Len(rtts') + (IF stage' = "wait" THEN 1 ELSE 0)
        /\ sent' <= n' + (IF stage' = "ready" THEN 0 ELSE 1)
    BY <1>1, <1>4, <2>1
  <2> QED BY <1>0, <1>1, <1>6, <2>3 DEF BatchAccount
<1> QED BY <1>3, <1>5, <1>7 DEF BatchInv

(* What an attempt that is not counted leaves. *)
LEMMA TakenBackKeeps ==
  ASSUME BatchInv, stage = "wait", Echoing, now \in 0..Interval, now' = now,
         sent' = sent - 1, fate' = [fate EXCEPT ![n] = "interrupted"],
         stage' = "over" /\ began' = 0 /\ until' = 0 /\ promised' = 0 /\ cut' = FALSE,
         UNCHANGED <<kind, n, base, lost, rtts>>
  PROVE  BatchInv'
<1>0. BatchTypeOK /\ BatchAccount
  BY DEF BatchInv
<1>1. /\ n \in DOMAIN fate /\ fate[n] = "pending"
      /\ fate' \in [0..(Pings - 1) -> Fates]
      /\ BatchPlace' /\ BatchTimes'
  BY EndOfAttempt DEF Fates
<1>2. /\ sent = lost + Len(rtts) + 1 /\ sent <= n + 1
      /\ sent \in Nat /\ lost \in Nat /\ n \in Nat /\ Len(rtts) \in Nat /\ sent <= Pings /\ Pings \in Nat
  BY <1>0, BatchAssumption DEF BatchAccount, BatchTypeOK
<1>3. sent' \in 0..Pings /\ sent' = lost' + Len(rtts') + 0 /\ sent' <= n' + 1
  BY <1>2
<1>4. BatchTypeOK'
  <2>1. began' \in Nat /\ until' \in Nat /\ promised' \in Nat
    OBVIOUS
  <2>2. cut' \in BOOLEAN
    OBVIOUS
  <2> QED BY <1>0, <1>1, <1>3, <2>1, <2>2 DEF BatchTypeOK, Ended
<1>5. /\ Cardinality(AnsweredPings') = Cardinality(AnsweredPings)
      /\ Cardinality(LostPings') = Cardinality(LostPings)
      /\ MisreadPings' = {}
  <2>1. "interrupted" \notin LostFates /\ "interrupted" \in Fates \ {"misread"}
    BY DEF LostFates, Fates
  <2>2. /\ Cardinality(AnsweredPings') = Cardinality(AnsweredPings) + 0 /\ Cardinality(AnsweredPings) \in Nat
        /\ Cardinality(LostPings') = Cardinality(LostPings) + 0 /\ Cardinality(LostPings) \in Nat
    BY <1>1, <2>1, FatesThen
  <2>3. MisreadPings' = {}
    BY <1>1, <2>1, FatesThen
  <2> QED BY <2>2, <2>3
<1>6. BatchAccount'
  BY <1>0, <1>3, <1>5 DEF BatchAccount
<1> QED BY <1>1, <1>4, <1>6 DEF BatchInv

(* Attempt and the steps that leave the attempts alone. *)
LEMMA StillCounted ==
  ASSUME BatchAccount, UNCHANGED <<kind, fate, sent, lost, rtts>>,
         stage' = "wait" <=> stage = "wait",
         sent' <= n' + (IF stage' = "ready" THEN 0 ELSE 1)
  PROVE  BatchAccount'
<1>1. AnsweredPings' = AnsweredPings /\ LostPings' = LostPings /\ MisreadPings' = MisreadPings
  BY DEF AnsweredPings, LostPings, MisreadPings, WithFate, LostFates, Echoing
<1>2. (IF stage' = "wait" THEN 1 ELSE 0) = (IF stage = "wait" THEN 1 ELSE 0)
  OBVIOUS
<1> QED BY <1>1, <1>2 DEF BatchAccount

(* An attempt is made. *)
LEMMA AttemptKeeps ==
  ASSUME BatchInv, now \in 0..Interval, now' = now, Attempt
  PROVE  BatchInv'
<1> USE IntervalAssumption
<1>0. BatchTypeOK /\ BatchPlace /\ BatchAccount
  BY DEF BatchInv
<1>1. stage = "ready" /\ UNCHANGED <<kind, n, base, lost, rtts, now>>
  BY DEF Attempt
<1>2. /\ kind \in Kinds /\ n \in 0..(Pings - 1) /\ Pings \in Nat /\ n \in Nat /\ n < Count
      /\ fate \in [0..(Pings - 1) -> Fates] /\ n \in DOMAIN fate /\ fate[n] = "unsent"
      /\ sent \in Nat /\ lost \in Nat /\ Len(rtts) \in Nat
      /\ sent <= n + 0 /\ sent = lost + Len(rtts) + 0
  BY <1>0, <1>1, BatchAssumption DEF BatchTypeOK, BatchPlace, BatchAccount
<1>3. Count' = Count /\ (Echoing' <=> Echoing) /\ BaseSeqs' = BaseSeqs /\ Count \in 1..Pings
  BY <1>1, <1>2, CountFacts DEF Count, Echoing, BaseSeqs
<1>4. Echoing => base \in BaseSeqs
  BY <1>0, <1>1 DEF BatchPlace
<1>5. CASE Done \/ (Echoing /\ Budget(n) = 0)
  <2>1. stage' = "over" /\ UNCHANGED <<began, until, promised, cut, sent, fate>>
    BY <1>5 DEF Attempt
  <2>2. BatchTypeOK'
    BY <1>0, <1>1, <2>1 DEF BatchTypeOK, Ended
  <2>3. BatchPlace'
    BY <1>0, <1>1, <1>3, <1>4, <2>1 DEF BatchPlace
  <2>4. sent' <= n' + 1
    BY <1>1, <1>2, <2>1
  <2>5. BatchAccount'
    BY <1>0, <1>1, <2>1, <2>4, StillCounted
  <2> QED BY <2>1, <2>2, <2>3, <2>5 DEF BatchInv, BatchTimes
<1>6. CASE ~(Done \/ (Echoing /\ Budget(n) = 0))
  <2>1. /\ stage' = "wait" /\ began' = now /\ until' = ReadUntil(promised') /\ cut' = FALSE
        /\ promised' = now + (IF Echoing THEN Budget(n) ELSE Timeout)
        /\ sent' = sent + 1 /\ fate' = [fate EXCEPT ![n] = "pending"]
    BY <1>6 DEF Attempt
  <2>2. promised' \in Nat
    <3>1. Budget(n) \in Nat /\ Timeout \in Nat
      BY <1>2, <1>3, BudgetFacts, BatchAssumption
    <3> QED BY <2>1, <3>1
  <2>3. until' \in Nat /\ (promised' <= until' \/ Interval <= promised')
    BY <2>1, <2>2 DEF ReadUntil, AtMost
  <2>4. sent' \in 0..Pings
    BY <1>2, <2>1
  <2>5. /\ fate' \in [0..(Pings - 1) -> Fates] /\ DOMAIN fate' = DOMAIN fate
        /\ fate'[n] = "pending" /\ \A k \in DOMAIN fate : k # n => fate'[k] = fate[k]
    BY <1>2, <2>1 DEF Fates
  <2>6. BatchTypeOK'
    <3>1. began' \in Nat /\ until' \in Nat /\ promised' \in Nat
      BY <2>1, <2>2, <2>3
    <3>2. cut' \in BOOLEAN
      BY <2>1
    <3> QED BY <1>0, <1>1, <2>1, <2>4, <2>5, <3>1, <3>2 DEF BatchTypeOK
  <2>7. BatchPlace'
    <3>1. n' < Count' /\ stage' # "gap" /\ stage' # "ready" /\ stage' \notin {"off", "resolve", "nil"}
      BY <1>1, <1>2, <1>3, <2>1
    <3>2. /\ \A k \in DOMAIN fate' : k > n' => fate'[k] = "unsent"
          /\ \A k \in DOMAIN fate' : fate'[k] = "pending" <=> k = n
      BY <1>0, <1>1, <1>2, <2>5 DEF BatchPlace
    <3> QED BY <1>1, <1>3, <1>4, <2>1, <3>1, <3>2 DEF BatchPlace
  <2>8. BatchTimes'
    BY <1>1, <2>1, <2>3 DEF BatchTimes
  <2>9. BatchAccount'
    <3>1. /\ Cardinality(AnsweredPings') = Cardinality(AnsweredPings)
          /\ Cardinality(LostPings') = Cardinality(LostPings)
          /\ MisreadPings' = {}
      <4>1. "pending" \notin LostFates /\ "pending" \in Fates \ {"misread"}
        BY DEF LostFates, Fates
      <4>2. /\ Cardinality(AnsweredPings') = Cardinality(AnsweredPings) + 0
            /\ Cardinality(LostPings') = Cardinality(LostPings) + 0
            /\ Cardinality(AnsweredPings) \in Nat /\ Cardinality(LostPings) \in Nat
        BY <1>1, <1>2, <2>1, <4>1, FatesThen
      <4>3. MisreadPings' = {}
        BY <1>1, <1>2, <2>1, <4>1, FatesThen
      <4> QED BY <4>2, <4>3
    <3>2. sent' = lost' + Len(rtts') + 1 /\ sent' <= n' + 1
      BY <1>1, <1>2, <2>1
    <3> QED BY <1>0, <1>1, <2>1, <3>1, <3>2 DEF BatchAccount
  <2> QED BY <2>6, <2>7, <2>8, <2>9 DEF BatchInv
<1> QED BY <1>5, <1>6

(* The steps that make no attempt and end none. *)
LEMMA BetweenKeeps ==
  ASSUME BatchInv, now' = now,
         ResolveFails \/ ListenFails \/ Listen \/ Gap \/ BatchPanics
  PROVE  BatchInv'
<1>0. BatchTypeOK /\ BatchPlace /\ BatchAccount
  BY DEF BatchInv
<1>1. /\ UNCHANGED <<kind, began, promised, cut, sent, lost, rtts, fate, now>>
      /\ stage # "wait" /\ stage' # "wait"
  BY DEF ResolveFails, ListenFails, Listen, Gap, BatchPanics
<1>2. /\ kind \in Kinds /\ n \in 0..(Pings - 1) /\ Pings \in Nat /\ n \in Nat /\ n < Count
      /\ sent \in Nat /\ fate \in [0..(Pings - 1) -> Fates] /\ DOMAIN fate = 0..(Pings - 1)
      /\ Count \in 1..Pings
  BY <1>0, CountFacts, BatchAssumption DEF BatchTypeOK, BatchPlace
<1>3. Count' = Count /\ (Echoing' <=> Echoing) /\ BaseSeqs' = BaseSeqs
  BY <1>1 DEF Count, Echoing, BaseSeqs
<1>4. BatchTimes'
  BY <1>1 DEF BatchTimes
<1>5. CASE ResolveFails \/ ListenFails \/ BatchPanics
  <2>1. stage' \in Ended /\ UNCHANGED <<n, base, until>> /\ (stage' = "nil" => stage = "resolve")
        /\ (stage' = "panicked" => stage = "ready")
        /\ stage \in {"resolve", "ready"}
    BY <1>5 DEF ResolveFails, ListenFails, BatchPanics, Ended
  <2>2. BatchTypeOK'
    BY <1>0, <1>1, <2>1 DEF BatchTypeOK
  <2>3. BatchPlace'
    BY <1>0, <1>1, <1>3, <2>1 DEF BatchPlace, Ended
  <2>4. sent' <= n' + (IF stage' = "ready" THEN 0 ELSE 1)
    <3>1. sent <= n + 1
      BY <1>0, <1>2 DEF BatchAccount
    <3> QED BY <1>1, <2>1, <3>1 DEF Ended
  <2> QED BY <1>0, <1>1, <1>4, <2>2, <2>3, <2>4, StillCounted DEF BatchInv
<1>6. CASE Listen
  <2>1. stage = "resolve" /\ stage' = "ready" /\ base' \in BaseSeqs /\ UNCHANGED <<n, until>>
    BY <1>6 DEF Listen
  <2>2. base' \in 0..(SeqSpace - 1)
    BY <1>2, <2>1, CountFacts, BatchAssumption DEF BaseSeqs
  <2>3. BatchTypeOK'
    BY <1>0, <1>1, <2>1, <2>2 DEF BatchTypeOK
  <2>4. BatchPlace'
    BY <1>0, <1>1, <1>2, <1>3, <2>1 DEF BatchPlace
  <2>5. sent' <= n' + (IF stage' = "ready" THEN 0 ELSE 1)
    <3>1. sent = 0
      BY <1>0, <2>1 DEF BatchPlace
    <3> QED BY <1>1, <1>2, <2>1, <3>1
  <2> QED BY <1>0, <1>1, <1>4, <2>3, <2>4, <2>5, StillCounted DEF BatchInv
<1>7. CASE Gap
  <2>1. stage = "gap" /\ until' = 0 /\ UNCHANGED base
        /\ \/ stage' = "ready" /\ n' = n + 1
           \/ stage' = "over" /\ n' = n
    BY <1>7 DEF Gap
  <2>2. n + 1 < Count /\ n + 1 \in 0..(Pings - 1)
    BY <1>0, <1>2, <2>1 DEF BatchPlace
  <2>3. n' \in 0..(Pings - 1) /\ n' < Count
    BY <1>2, <2>1, <2>2
  <2>4. BatchTypeOK'
    BY <1>0, <1>1, <2>1, <2>3 DEF BatchTypeOK, Ended
  <2>5. BatchPlace'
    <3>1. \A k \in DOMAIN fate' : k > n' => fate'[k] = "unsent"
      BY <1>0, <1>1, <1>2, <2>1 DEF BatchPlace
    <3>2. stage' = "ready" => fate'[n'] = "unsent"
      BY <1>0, <1>1, <1>2, <2>1, <2>2 DEF BatchPlace
    <3>3. \A k \in DOMAIN fate' : fate'[k] # "pending"
      BY <1>0, <1>1 DEF BatchPlace
    <3>4. Echoing => base' \in BaseSeqs
      BY <1>0, <2>1 DEF BatchPlace
    <3> QED BY <1>1, <1>3, <2>1, <2>3, <3>1, <3>2, <3>3, <3>4 DEF BatchPlace
  <2>6. sent' <= n' + (IF stage' = "ready" THEN 0 ELSE 1)
    <3>1. sent <= n + 1
      BY <1>0, <2>1 DEF BatchAccount
    <3>2. CASE stage' = "ready" /\ n' = n + 1
      BY <1>1, <1>2, <3>1, <3>2
    <3>3. CASE stage' = "over" /\ n' = n
      BY <1>1, <1>2, <3>1, <3>3
    <3> QED BY <2>1, <3>2, <3>3
  <2> QED BY <1>0, <1>1, <1>4, <2>4, <2>5, <2>6, StillCounted DEF BatchInv
<1> QED BY <1>5, <1>6, <1>7

(* The context ends a read early. *)
LEMMA InterruptKeeps ==
  ASSUME BatchInv, now \in 0..Interval, now' = now, Interrupt
  PROVE  BatchInv'
<1> USE IntervalAssumption
<1>0. BatchTypeOK /\ BatchPlace /\ BatchTimes /\ BatchAccount
  BY DEF BatchInv
<1>1. /\ stage = "wait" /\ until' = now /\ cut' = (now < promised)
      /\ UNCHANGED <<kind, stage, n, began, promised, base, sent, lost, rtts, fate, now>>
  BY DEF Interrupt
<1>2. BatchTypeOK'
  <2>1. cut' \in BOOLEAN
    BY <1>1
  <2> QED BY <1>0, <1>1, <2>1 DEF BatchTypeOK
<1>3. BatchPlace'
  BY <1>0, <1>1 DEF BatchPlace, Count, Echoing, BaseSeqs
<1>4. BatchTimes'
  <2>1. promised \in Nat /\ (now < promised \/ promised <= now)
    BY <1>0 DEF BatchTypeOK
  <2>2. cut' \/ promised' <= until'
    BY <1>1, <2>1
  <2> QED BY <1>0, <1>1, <2>2 DEF BatchTimes
<1>5. sent' <= n' + (IF stage' = "ready" THEN 0 ELSE 1)
  BY <1>0, <1>1 DEF BatchAccount
<1> QED BY <1>0, <1>1, <1>2, <1>3, <1>4, <1>5, StillCounted DEF BatchInv

(* A read runs out of time. *)
LEMMA TimeOutKeeps ==
  ASSUME BatchInv, now \in 0..Interval, now' = now, TimeOut
  PROVE  BatchInv'
<1> USE IntervalAssumption
<1>1. stage = "wait" /\ now >= until
  BY DEF TimeOut
<1>2. CASE Echoing /\ BlameContext
  BY <1>1, <1>2, TakenBackKeeps DEF TimeOut
<1>3. CASE ~(Echoing /\ BlameContext)
  <2>1. Loses(IF now >= promised THEN "silent" ELSE "interrupted")
    BY <1>3 DEF TimeOut
  <2>2. CASE Echoing
    <3>1. ~cut /\ ~(Interval <= promised)
      BY <1>3, <2>2 DEF BlameContext
    <3>2. promised <= until /\ promised \in Nat /\ until \in Nat
      BY <1>1, <3>1 DEF BatchInv, BatchTypeOK, BatchTimes
    <3>3. now >= promised
      BY <1>1, <3>2
    <3>4. Loses("silent") /\ "silent" \in LostFates
      BY <2>1, <3>3 DEF LostFates
    <3> QED BY <1>1, <3>4, LossKeeps
  <2>3. CASE ~Echoing
    <3>1. "silent" \in LostFates /\ "interrupted" \in LostFates
      BY <2>3 DEF LostFates
    <3>2. Loses("silent") \/ Loses("interrupted")
      BY <2>1
    <3> QED BY <1>1, <3>1, <3>2, LossKeeps
  <2> QED BY <2>2, <2>3
<1> QED BY <1>2, <1>3

(* Every step of the batch. *)
LEMMA BatchKeeps ==
  ASSUME BatchInv, WalkTypeOK, now \in 0..Interval, now' = now, BatchStep(Air)
  PROVE  BatchInv'
<1>1. CASE Receive(Air)
  <2>1. stage = "wait" /\ Echoing
    BY <1>1 DEF Receive
  <2>2. PICK d \in Air : /\ MatchEchoReply(d)
                         /\ Succeeds(IF d.about = <<"ping", n>> THEN "answered" ELSE "misread")
    BY <1>1 DEF Receive
  <2>3. d.about = <<"ping", n>>
    BY <2>1, <2>2, MatchIsAnswer
  <2>4. Succeeds("answered")
    BY <2>2, <2>3
  <2> QED BY <2>1, <2>4, SuccessKeeps
<1>2. CASE Connect \/ Lookup \/ Respond
  BY <1>2, SuccessKeeps DEF Connect, Lookup, Respond
<1>3. CASE Refused
  <2>1. "refused" \in LostFates
    BY DEF LostFates
  <2> QED BY <1>3, <2>1, LossKeeps DEF Refused
<1> QED BY <1>1, <1>2, <1>3, BetweenKeeps, AttemptKeeps, InterruptKeeps, TimeOutKeeps DEF BatchStep

(* The batch of a cycle that has not begun. *)
FreshBatch ==
  /\ kind \in Kinds
  /\ stage \in {"off", "resolve", "ready", "over"} /\ (stage = "ready" => ~Echoing)
  /\ n = 0 /\ base \in 0..(SeqSpace - 1)
  /\ began \in Nat /\ until \in Nat /\ promised \in Nat /\ cut \in BOOLEAN
  /\ sent = 0 /\ lost = 0 /\ rtts = <<>>
  /\ fate = [k \in 0..(Pings - 1) |-> "unsent"]

(* It is as it should be. *)
LEMMA FreshBatchKeeps == FreshBatch => BatchInv
<1> SUFFICES ASSUME FreshBatch PROVE BatchInv
  OBVIOUS
<1>1. Count \in 1..Pings /\ Pings \in Nat \ {0}
  BY CountFacts, BatchAssumption DEF FreshBatch
<1>2. /\ fate \in [0..(Pings - 1) -> Fates] /\ DOMAIN fate = 0..(Pings - 1)
      /\ \A k \in DOMAIN fate : fate[k] = "unsent"
  BY DEF Fates, FreshBatch
<1>3. rtts \in Seq(0..Interval) /\ Len(rtts) = 0
  BY DEF FreshBatch
<1>4. n \in 0..(Pings - 1) /\ 0 \in DOMAIN fate /\ sent \in 0..Pings /\ lost \in 0..Pings
  BY <1>1, <1>2 DEF FreshBatch
<1>5. BatchTypeOK
  BY <1>2, <1>3, <1>4 DEF BatchTypeOK, Ended, FreshBatch
<1>6. BatchPlace
  <2>1. n < Count /\ stage # "gap" /\ stage # "wait"
    BY <1>1 DEF FreshBatch
  <2>2. fate[n] = "unsent" /\ \A k \in DOMAIN fate : fate[k] # "pending"
    BY <1>2, <1>4
  <2>3. Echoing => stage \notin {"ready", "wait", "gap"}
    BY DEF FreshBatch
  <2>4. sent = 0 /\ lost = 0 /\ rtts = <<>>
    BY DEF FreshBatch
  <2> QED BY <1>2, <2>1, <2>2, <2>3, <2>4 DEF BatchPlace
<1>7. AnsweredPings = {} /\ LostPings = {} /\ MisreadPings = {}
  BY <1>2 DEF AnsweredPings, LostPings, MisreadPings, WithFate, LostFates
<1>8. Cardinality({}) = 0
  BY FS_EmptySet
<1>9. BatchAccount
  BY <1>3, <1>7, <1>8 DEF BatchAccount, FreshBatch
<1> QED BY <1>5, <1>6, <1>9 DEF BatchInv, BatchTimes, FreshBatch

-----------------------------------------------------------------------------
(* The walk.                                                                  *)

(* What a step leaves: the next one, the next round or the end.               *)
LEMMA AfterStepKeeps ==
  ASSUME WalkInv, kind \in Kinds, now \in Nat, walk \in {"step", "wait"},
         NEW terminal \in BOOLEAN, NEW echo \in BOOLEAN, AfterStep(terminal, echo),
         last' \in [Rounds -> 0..WalkDepth], misled' = misled, kind' = kind
  PROVE  WalkInv'
<1>0. WalkTypeOK /\ WalkPlace /\ ~misled /\ Echoing /\ ~WalkEnded
  BY DEF WalkInv, WalkPlace, WalkEnded
<1>1. RoundsToWalk \in 1..WalkRounds /\ WalkRounds \in Nat /\ WalkDepth \in Nat /\ Spacing \in Nat
      /\ TraceSpacing \in Nat /\ RoundsToWalk' = RoundsToWalk /\ Echoing'
  BY <1>0, CountFacts, BatchAssumption, WalkAssumption DEF RoundsToWalk, Count, Echoing
<1>2. /\ round \in Nat /\ round < RoundsToWalk /\ attempted = round
      /\ ttl \in Nat /\ 1 <= ttl /\ ttl <= WalkDepth
      /\ reached \in Nat /\ reached <= attempted
  BY <1>0, <1>1 DEF WalkTypeOK, WalkPlace, Rounds, Depths
<1>3. CASE terminal \/ ttl = WalkDepth
  <2>1. /\ attempted' = attempted + 1 /\ reached' \in {reached, reached + 1}
        /\ ttl' = 0 /\ wuntil' = 0
        /\ \/ walk' = "done" /\ round' = round
           \/ walk' = "round" /\ round' = round + 1 /\ round # RoundsToWalk - 1
    BY <1>3 DEF AfterStep
  <2>2. /\ attempted' \in 0..WalkRounds /\ reached' \in 0..attempted'
        /\ round' \in Rounds /\ ttl' \in 0..WalkDepth
    BY <1>1, <1>2, <2>1 DEF Rounds
  <2>3. WalkTypeOK'
    BY <1>0, <2>1, <2>2 DEF WalkTypeOK
  <2>4. walk' = "round" => attempted' = round' /\ round' < RoundsToWalk'
    BY <1>1, <1>2, <2>1
  <2>5. WalkPlace'
    BY <1>1, <2>1, <2>4 DEF WalkPlace, WalkEnded
  <2> QED BY <1>0, <2>3, <2>5 DEF WalkInv
<1>4. CASE ~(terminal \/ ttl = WalkDepth)
  <2>1. /\ walk' = "gap" /\ ttl' = ttl + 1 /\ wuntil' = now + TraceSpacing
        /\ UNCHANGED <<round, attempted, reached>>
    BY <1>4 DEF AfterStep
  <2>2. ttl' \in Depths /\ ttl' \in 0..WalkDepth /\ wuntil' \in Nat
    BY <1>1, <1>2, <1>4, <2>1 DEF Depths
  <2>3. WalkTypeOK'
    BY <1>0, <2>1, <2>2 DEF WalkTypeOK
  <2>4. WalkPlace'
    BY <1>1, <1>2, <2>1, <2>2 DEF WalkPlace, WalkEnded
  <2> QED BY <1>0, <2>3, <2>4 DEF WalkInv
<1> QED BY <1>3, <1>4

(* Every step of the walk. *)
LEMMA WalkKeeps ==
  ASSUME WalkInv, BatchInv, now \in Nat, UNCHANGED <<now, kind>>, WalkStep(Air)
  PROVE  WalkInv'
<1>0. WalkTypeOK /\ WalkPlace /\ ~misled /\ kind \in Kinds
  BY DEF WalkInv, BatchInv, BatchTypeOK
<1>1. RoundsToWalk' = RoundsToWalk /\ (Echoing' <=> Echoing)
  BY DEF RoundsToWalk, Count, Echoing
<1>2. CASE WalkFails
  <2>1. walk = "resolve" /\ walk' = "failed"
        /\ UNCHANGED <<round, ttl, wuntil, seen, attempted, reached, last, misled>>
    BY <1>2 DEF WalkFails
  <2> QED BY <1>0, <1>1, <2>1 DEF WalkInv, WalkTypeOK, WalkPlace, WalkEnded
<1>3. CASE WalkRound
  <2>1. /\ walk \in {"resolve", "round"} /\ UNCHANGED <<round, wuntil, seen, attempted, reached, last, misled>>
        /\ \/ walk' = "done" /\ ttl' = ttl
           \/ walk' = "step" /\ ttl' = 1
    BY <1>3 DEF WalkRound
  <2>2. 1 \in Depths /\ 1 \in 0..WalkDepth
    BY BatchAssumption DEF Depths
  <2> QED BY <1>0, <1>1, <2>1, <2>2 DEF WalkInv, WalkTypeOK, WalkPlace, WalkEnded
<1>4. CASE WalkSend
  <2>1. walk = "step" /\ UNCHANGED <<round, ttl, seen, attempted, reached, misled>>
    BY <1>4 DEF WalkSend
  <2>2. CASE Done
    <3>1. walk' = "done" /\ UNCHANGED <<wuntil, last>>
      BY <1>4, <2>2 DEF WalkSend
    <3> QED BY <1>0, <1>1, <2>1, <3>1 DEF WalkInv, WalkTypeOK, WalkPlace, WalkEnded
  <2>3. CASE ~Done
    <3>1. walk' = "wait" /\ wuntil' = AtMost(now + TraceTimeout, Interval)
          /\ last' = [last EXCEPT ![round] = ttl]
      BY <1>4, <2>3 DEF WalkSend
    <3>2. wuntil' \in Nat /\ wuntil' <= Interval
      BY <3>1, WalkAssumption, IntervalAssumption DEF AtMost
    <3>3. last' \in [Rounds -> 0..WalkDepth]
      BY <1>0, <3>1 DEF WalkTypeOK
    <3> QED BY <1>0, <1>1, <2>1, <3>1, <3>2, <3>3 DEF WalkInv, WalkTypeOK, WalkPlace, WalkEnded
  <2> QED BY <2>2, <2>3
<1>5. CASE WalkReceive(Air)
  <2>1. walk = "wait" /\ last' = last
    BY <1>5 DEF WalkReceive
  <2>2. PICK d \in Air :
          /\ ClassifyReply(d) # "none"
          /\ misled' = (misled \/ d.about # <<"step", round, ttl>>)
          /\ AfterStep(ClassifyReply(d) # "exceeded", ClassifyReply(d) = "echo")
    BY <1>5 DEF WalkReceive
  <2>3. Echoing /\ round \in Rounds /\ ttl \in Depths
    BY <1>0, <2>1 DEF WalkTypeOK, WalkPlace
  <2>4. d.about = <<"step", round, ttl>>
    BY <1>0, <2>2, <2>3, ClassifiedIsAnswer
  <2>5. misled' = misled
    BY <1>0, <2>2, <2>4 DEF WalkTypeOK
  <2>6. (ClassifyReply(d) # "exceeded") \in BOOLEAN /\ (ClassifyReply(d) = "echo") \in BOOLEAN
    OBVIOUS
  <2>7. last' \in [Rounds -> 0..WalkDepth]
    BY <1>0, <2>1 DEF WalkTypeOK
  <2> QED BY <1>0, <2>1, <2>2, <2>5, <2>6, <2>7, AfterStepKeeps
<1>6. CASE WalkLoses \/ WalkUnsent
  <2>1. walk \in {"step", "wait"} /\ Lost
    BY <1>6 DEF WalkLoses, WalkUnsent
  <2>2. last' = [last EXCEPT ![round] = ttl] /\ AfterStep(FALSE, FALSE) /\ misled' = misled
    BY <2>1 DEF Lost
  <2>3. last' \in [Rounds -> 0..WalkDepth]
    BY <1>0, <2>2 DEF WalkTypeOK
  <2> QED BY <1>0, <2>1, <2>2, <2>3, AfterStepKeeps
<1>7. CASE WalkGap
  <2>1. walk = "gap" /\ walk' = "step" /\ wuntil' = 0
        /\ UNCHANGED <<round, ttl, seen, attempted, reached, last, misled>>
    BY <1>7 DEF WalkGap
  <2> QED BY <1>0, <1>1, <2>1 DEF WalkInv, WalkTypeOK, WalkPlace, WalkEnded
<1> QED BY <1>2, <1>3, <1>4, <1>5, <1>6, <1>7 DEF WalkStep

(* The walk of a cycle that has not begun. *)
FreshWalk ==
  /\ kind \in Kinds
  /\ walk \in {"off", "resolve"} /\ (walk = "resolve" => Echoing)
  /\ round = 0 /\ ttl = 0 /\ wuntil = 0
  /\ seen = [t \in Depths |-> Nobody]
  /\ attempted = 0 /\ reached = 0
  /\ last = [r \in Rounds |-> 0] /\ misled = FALSE

(* It is as it should be. *)
LEMMA FreshWalkKeeps == FreshWalk => WalkInv
<1> SUFFICES ASSUME FreshWalk PROVE WalkInv
  OBVIOUS
<1>1. WalkRounds \in Nat \ {0} /\ WalkDepth \in Nat
  BY BatchAssumption
<1>2. 0 \in Rounds /\ 0 \in 0..WalkDepth /\ 0 \in 0..WalkRounds
  BY <1>1 DEF Rounds
<1>3. WalkTypeOK
  <2>1. last \in [Rounds -> 0..WalkDepth] /\ misled \in BOOLEAN
    BY <1>2 DEF FreshWalk
  <2>2. attempted \in 0..WalkRounds /\ reached \in 0..attempted /\ wuntil \in Nat
    BY <1>1 DEF FreshWalk
  <2> QED BY <1>2, <2>1, <2>2 DEF WalkTypeOK, FreshWalk
<1>4. RoundsToWalk \in 1..WalkRounds
  BY CountFacts DEF FreshWalk
<1>5. WalkPlace
  BY <1>1, <1>4 DEF WalkPlace, WalkEnded, FreshWalk
<1> QED BY <1>3, <1>5 DEF WalkInv, FreshWalk

(* A cycle begins, and ends, with both as new. *)
LEMMA Freshly == (FreshBatch' => BatchInv') /\ (FreshWalk' => WalkInv')
BY FreshBatchKeeps, FreshWalkKeeps, PTL

-----------------------------------------------------------------------------
(* The loop.                                                                  *)

(* A batch is not touched by time going on. *)
LEMMA BatchAged ==
  ASSUME BatchInv, UNCHANGED batchVars, now \in Nat, now' \in Nat, now <= now'
  PROVE  BatchInv'
<1>1. BatchTypeOK' /\ BatchPlace'
  BY DEF BatchInv, BatchTypeOK, BatchPlace, batchVars, Count, Echoing, BaseSeqs
<1>2. BatchTimes'
  <2>1. ASSUME stage = "wait" PROVE began <= now' /\ (cut \/ promised <= until \/ Interval <= promised)
    BY <2>1 DEF BatchInv, BatchTimes, BatchTypeOK
  <2> QED BY <2>1 DEF BatchTimes, batchVars
<1>3. BatchAccount'
  BY DEF BatchInv, BatchAccount, AnsweredPings, LostPings, MisreadPings, LostFates, WithFate,
         Echoing, batchVars
<1> QED BY <1>1, <1>2, <1>3 DEF BatchInv

(* Nor is a walk by what the batch does. *)
LEMMA WalkStays ==
  ASSUME WalkInv, UNCHANGED <<walkVars, kind>>
  PROVE  WalkInv' /\ (WalkEnded' <=> WalkEnded) /\ Hops' = Hops
<1>1. WalkInv' /\ (WalkEnded' <=> WalkEnded)
  BY DEF WalkInv, WalkTypeOK, WalkPlace, WalkEnded, walkVars, Echoing, RoundsToWalk, Count
<1>2. Hops' = Hops
  BY DEF Hops, HopsAt, Shown, Echoed, walkVars
<1> QED BY <1>1, <1>2

(* No cycle in the sinks, nothing to say of it. *)
LEMMA NotInSinks == ASSUME loop' # "sinks" PROVE CycleIsResult'
BY DEF CycleIsResult

(* What the sinks have stays what the probe returned. *)
LEMMA StaysResult ==
  ASSUME CycleIsResult, WalkInv, UNCHANGED <<batchVars, walkVars, loop, cycle>>, stopping => stopping'
  PROVE  CycleIsResult'
<1>1. Hops' = Hops
  BY WalkStays DEF batchVars
<1>2. UNCHANGED <<kind, stage, sent, lost, rtts, walk>>
  BY DEF batchVars, walkVars
<1> QED BY <1>1, <1>2 DEF CycleIsResult
(* What the invariant is made of. *)
LEMMA LoopParts ==
  ASSUME ClockTypeOK', BatchInv', WalkInv', CycleIsResult',
         loop' \in {"jitter", "waiting", "probing", "sinks", "exited"},
         given' \in 0..(Sinks - 1),
         loop' # "probing" => WalkEnded',
         loop' = "probing" => now' <= Interval /\ stage' # "off"
  PROVE  LoopIInv'
BY DEF LoopIInv, LoopInv, BatchInv, WalkInv

(* The loop begins outside a cycle. *)
LEMMA InitLoop == LoopInit => LoopIInv
<1> SUFFICES ASSUME LoopInit PROVE LoopIInv
  OBVIOUS
<1>1. BatchInv
  <2>1. 0 \in 0..(SeqSpace - 1)
    <3>1. WalkRounds \in Nat /\ WalkDepth + 1 \in Nat /\ Pings \in Nat \ {0} /\ SeqSpace \in Nat
          /\ SeqSpace >= TraceSeqCeil + Pings
      BY BatchAssumption DEF TraceSeqCeil
    <3>2. TraceSeqCeil \in Nat
      BY <3>1, ProductGrows DEF TraceSeqCeil
    <3> QED BY <3>1, <3>2
  <2>2. /\ began = 0 /\ until = 0 /\ promised = 0 /\ cut = FALSE /\ base = 0 /\ n = 0
        /\ kind \in Kinds /\ stage = "off" /\ sent = 0 /\ lost = 0 /\ rtts = <<>>
        /\ fate = [k \in 0..(Pings - 1) |-> "unsent"]
    BY DEF LoopInit, BatchInit
  <2>3. FreshBatch
    BY <2>1, <2>2 DEF FreshBatch
  <2> QED BY <2>3, FreshBatchKeeps
<1>2. WalkInv
  <2>1. FreshWalk
    BY DEF LoopInit, BatchInit, WalkInit, FreshWalk
  <2> QED BY <2>1, FreshWalkKeeps
<1>3. 0 \in 0..(Sinks - 1)
  BY LoopAssumption
<1>4. ClockTypeOK
  BY DEF LoopInit, ClockTypeOK
<1>5. loop = "jitter" /\ given = 0 /\ walk = "off"
  BY DEF LoopInit, WalkInit
<1> QED BY <1>1, <1>2, <1>3, <1>4, <1>5 DEF LoopIInv, LoopInv, BatchInv, WalkInv, WalkEnded, CycleIsResult

(* What the frames of a cycle held is gone. *)
LEMMA ReturnKeeps ==
  ASSUME LoopIInv, Return
  PROVE  LoopIInv'
<1>0. ClockTypeOK /\ BatchInv /\ BatchTypeOK
  BY DEF LoopIInv, LoopInv
<1>1. FreshBatch'
  <2>1. 0 \in 0..(SeqSpace - 1)
    BY <1>0, CountFacts, BatchAssumption DEF BatchTypeOK
  <2>2. began' \in Nat /\ until' \in Nat /\ promised' \in Nat /\ cut' \in BOOLEAN /\ kind' \in Kinds
    BY <1>0 DEF Return, BatchTypeOK
  <2>3. fate' = [k \in 0..(Pings - 1) |-> "unsent"]
    BY <1>0 DEF Return, BatchTypeOK
  <2>4. base' = 0 /\ stage' = "off"
    BY DEF Return
  <2> QED BY <2>1, <2>2, <2>3, <2>4 DEF FreshBatch, Return
<1>2. FreshWalk'
  BY <1>0 DEF FreshWalk, Return, BatchTypeOK
<1>3. loop' = "waiting" /\ given' = 0 /\ walk' = "off" /\ UNCHANGED <<now, ctx, stopping>>
  BY DEF Return, clockVars
<1>4. 0 \in 0..(Sinks - 1)
  BY LoopAssumption
<1>5. ClockTypeOK' /\ WalkEnded' /\ CycleIsResult'
  BY <1>0, <1>3, NotInSinks DEF ClockTypeOK, WalkEnded
<1> QED BY <1>1, <1>2, <1>3, <1>4, <1>5, Freshly, LoopParts

(* A cycle begins. *)
LEMMA BeginKeepsLoop ==
  ASSUME LoopIInv, BeginCycle
  PROVE  LoopIInv'
<1>0. ClockTypeOK /\ BatchInv /\ BatchTypeOK /\ WalkInv /\ given \in 0..(Sinks - 1)
  BY DEF LoopIInv, LoopInv
<1>1. /\ loop' = "probing" /\ given' = given /\ kind' = kind
      /\ now' = 0 /\ ctx' = (IF stopping THEN "cancelled" ELSE "live") /\ stopping' = stopping
      /\ BatchStart(stopping)
  BY DEF BeginCycle, ClockStart, BatchStart
<1>2. stage' \in {"resolve", "ready", "over"} /\ (stage' = "ready" => ~Echoing')
  BY <1>1 DEF BatchStart, Echoing
<1>3. FreshBatch'
  <2>1. 0 \in 0..(SeqSpace - 1)
    BY <1>0, CountFacts, BatchAssumption DEF BatchTypeOK
  <2>2. began' \in Nat /\ until' \in Nat /\ promised' \in Nat /\ cut' \in BOOLEAN /\ base' = 0
    BY <1>1 DEF BatchStart
  <2>3. kind' \in Kinds
    BY <1>0, <1>1 DEF BatchTypeOK
  <2> QED BY <1>1, <1>2, <2>1, <2>2, <2>3 DEF FreshBatch, BatchStart
<1>4. WalkInv'
  <2>1. CASE kind = "mtr"
    <3>1. FreshWalk'
      BY <1>0, <1>1, <2>1 DEF BeginCycle, WalkStart, FreshWalk, BatchTypeOK, Echoing
    <3> QED BY <3>1, Freshly
  <2>2. CASE kind # "mtr"
    BY <1>0, <1>1, <2>2, WalkStays DEF BeginCycle
  <2> QED BY <2>1, <2>2
<1>5. ClockTypeOK' /\ now' <= Interval
  BY <1>0, <1>1, IntervalAssumption DEF ClockTypeOK
<1> QED BY <1>0, <1>1, <1>2, <1>3, <1>4, <1>5, Freshly, NotInSinks, LoopParts

(* A step of the batch, and the walk icmp starts with it. *)
LEMMA MeasureKeeps ==
  ASSUME LoopIInv, Measure
  PROVE  LoopIInv'
<1>0. ClockTypeOK /\ BatchInv /\ BatchTypeOK /\ WalkInv /\ WalkTypeOK /\ given \in 0..(Sinks - 1)
  BY DEF LoopIInv, LoopInv
<1>1. loop = "probing" /\ BatchStep(Air) /\ UNCHANGED <<now, ctx, stopping, loop, given>>
  BY DEF Measure, clockVars, loopVars
<1>2. now \in 0..Interval
  BY <1>0, <1>1, IntervalAssumption DEF LoopIInv, LoopInv, ClockTypeOK
<1>3. BatchInv'
  BY <1>0, <1>1, <1>2, BatchKeeps
<1>4. stage' # "off" /\ kind' = kind
  BY <1>1 DEF BatchStep, ResolveFails, ListenFails, Listen, Attempt, Receive, Connect, Lookup, Respond,
              Refused, Interrupt, TimeOut, Gap, BatchPanics, Succeeds, Loses, Onward
<1>5. WalkInv'
  <2>1. CASE WalkStart /\ kind = "icmp"
    <3>1. FreshWalk'
      BY <1>0, <1>4, <2>1 DEF WalkStart, FreshWalk, BatchTypeOK, Echoing
    <3> QED BY <3>1, Freshly
  <2>2. CASE UNCHANGED walkVars
    BY <1>0, <1>4, <2>2, WalkStays
  <2> QED BY <2>1, <2>2 DEF Measure
<1>6. ClockTypeOK' /\ now' <= Interval
  BY <1>0, <1>1, <1>2 DEF ClockTypeOK
<1> QED BY <1>0, <1>1, <1>3, <1>4, <1>5, <1>6, NotInSinks, LoopParts

(* A step of the walk. *)
LEMMA TraceKeeps ==
  ASSUME LoopIInv, Trace
  PROVE  LoopIInv'
<1>0. ClockTypeOK /\ BatchInv /\ WalkInv /\ given \in 0..(Sinks - 1)
  BY DEF LoopIInv, LoopInv
<1>1. WalkStep(Air) /\ UNCHANGED <<now, ctx, stopping, loop, given>> /\ UNCHANGED batchVars /\ UNCHANGED <<stage, kind>>
  BY DEF Trace, clockVars, loopVars, batchVars
<1>2. ~WalkEnded
  BY <1>1 DEF WalkStep, WalkFails, WalkRound, WalkSend, WalkReceive, WalkLoses, WalkUnsent, WalkGap, WalkEnded
<1>3. loop = "probing" /\ stage # "off" /\ now <= Interval /\ now \in Nat
  BY <1>0, <1>2 DEF LoopIInv, LoopInv, ClockTypeOK
<1>4. WalkInv'
  BY <1>0, <1>1, <1>3, WalkKeeps
<1>5. BatchInv'
  BY <1>0, <1>1, <1>3, BatchAged
<1>6. ClockTypeOK'
  BY <1>0, <1>1 DEF ClockTypeOK
<1> QED BY <1>0, <1>1, <1>3, <1>4, <1>5, <1>6, NotInSinks, LoopParts

(* The result is taken: an empty one where nothing came back. *)
LEMMA TakeKeeps ==
  ASSUME LoopIInv, TakeResult
  PROVE  LoopIInv'
<1>0. ClockTypeOK /\ BatchInv /\ WalkInv /\ given \in 0..(Sinks - 1)
  BY DEF LoopIInv, LoopInv
<1>1. /\ stage \in Ended /\ WalkEnded /\ stage # "panicked"
      /\ loop' = "sinks" /\ cycle' = Result
      /\ UNCHANGED clockVars /\ UNCHANGED batchVars /\ UNCHANGED walkVars /\ given' = given
  BY DEF TakeResult, Joined
<1>2. /\ UNCHANGED <<now, ctx, stopping>> /\ UNCHANGED <<kind, stage, sent, lost, rtts>>
      /\ walk' = walk /\ UNCHANGED <<walkVars, kind>>
  BY <1>1 DEF clockVars, batchVars, walkVars
<1>3. BatchInv' /\ ClockTypeOK'
  BY <1>0, <1>1, <1>2, BatchAged DEF ClockTypeOK
<1>4. WalkInv' /\ WalkEnded' /\ Hops' = Hops
  BY <1>0, <1>1, <1>2, WalkStays
<1>5. CycleIsResult'
  <2>1. stage' \in {"over", "nil"}
    BY <1>1, <1>2 DEF Ended
  <2>2. CASE stage = "nil" /\ kind # "mtr"
    BY <1>1, <1>2, <2>1, <2>2 DEF CycleIsResult, Result, NothingCameBack
  <2>3. CASE ~(stage = "nil" /\ kind # "mtr")
    BY <1>1, <1>2, <1>4, <2>1, <2>3 DEF CycleIsResult, Result
  <2> QED BY <2>2, <2>3
<1> QED BY <1>0, <1>1, <1>3, <1>4, <1>5, LoopParts

(* Steps of the clock and the loop that leave the batch, the walk and the     *)
(* cycle alone.                                                               *)
LEMMA ClockKeeps ==
  ASSUME LoopIInv, UNCHANGED <<batchVars, walkVars, cycle>>, ClockTypeOK', now <= now',
         loop' = loop \/ loop' = "exited", loop = "exited" => loop' = "exited",
         loop = "probing" => loop' = "probing",
         given' \in 0..(Sinks - 1), loop = "probing" => now' <= Interval, stopping => stopping'
  PROVE  LoopIInv'
<1>0. ClockTypeOK /\ BatchInv /\ WalkInv
      /\ loop \in {"jitter", "waiting", "probing", "sinks", "exited"}
  BY DEF LoopIInv, LoopInv
<1>1. UNCHANGED batchVars /\ UNCHANGED walkVars /\ UNCHANGED <<walkVars, kind>> /\ stage' = stage
  BY DEF batchVars
<1>2. BatchInv'
  BY <1>0, <1>1, BatchAged DEF ClockTypeOK
<1>3. WalkInv' /\ (WalkEnded' <=> WalkEnded)
  BY <1>0, <1>1, WalkStays
<1>4. CycleIsResult'
  <2>1. CASE loop' = loop
    BY <1>0, <1>1, <2>1, StaysResult DEF LoopIInv
  <2>2. CASE loop' = "exited"
    BY <2>2, NotInSinks
  <2> QED BY <2>1, <2>2
<1>5. loop' # "probing" => WalkEnded'
  BY <1>3 DEF LoopIInv, LoopInv
<1>6. loop' = "probing" => now' <= Interval /\ stage' # "off"
  BY <1>0, <1>1 DEF LoopIInv
<1> QED BY <1>0, <1>2, <1>3, <1>4, <1>5, <1>6, LoopParts

(* A tick never leaves the cycle's interval while the probe runs: whatever    *)
(* the probe waits for is due by then.                                        *)
LEMMA TickKeeps ==
  ASSUME LoopIInv, Tick
  PROVE  LoopIInv'
<1>0. ClockTypeOK /\ given \in 0..(Sinks - 1) /\ now \in Nat /\ Interval \in Nat
      /\ BatchTypeOK /\ WalkTypeOK
  BY IntervalAssumption DEF LoopIInv, LoopInv, ClockTypeOK
<1>1. now' = now + 1 /\ UNCHANGED <<ctx, stopping, loop, given>> /\ UNCHANGED <<batchVars, walkVars, cycle>>
  BY DEF Tick, loopVars
<1>2. ASSUME loop = "probing" PROVE now' <= Interval
  <2>1. now <= Interval /\ stage # "off"
    BY <1>2 DEF LoopIInv, LoopInv
  <2>2. SUFFICES ASSUME now = Interval PROVE FALSE
    BY <1>0, <1>1, <2>1
  <2>3. Done
    BY <1>0, <2>2 DEF Tick, Done
  <2>4. ~Joined /\ ~BatchDue /\ ~WalkDue
    BY <1>2 DEF Tick
  <2>5. stage \in Ended
    BY <1>0, <2>1, <2>3, <2>4 DEF BatchDue, BatchTypeOK
  <2>6. WalkEnded
    <3>1. walk = "wait" => now >= wuntil
      BY <1>0, <2>2 DEF LoopIInv, WalkInv, WalkPlace, WalkTypeOK
    <3> QED BY <1>0, <2>3, <2>4, <3>1 DEF WalkDue, WalkTypeOK, WalkEnded
  <2> QED BY <2>4, <2>5, <2>6 DEF Joined
<1>3. ClockTypeOK' /\ now <= now'
  BY <1>0, <1>1 DEF ClockTypeOK
<1> QED BY <1>0, <1>1, <1>2, <1>3, ClockKeeps

(* Every step of the loop keeps the invariant. *)
LEMMA LoopKeeps ==
  ASSUME LoopIInv, [LoopNext]_cycleVars
  PROVE  LoopIInv'
<1>0. ClockTypeOK /\ given \in 0..(Sinks - 1) /\ now \in Nat /\ Sinks \in Nat
  BY LoopAssumption DEF LoopIInv, LoopInv, ClockTypeOK
<1>1. CASE Exit
  <2>1. /\ loop \in {"jitter", "waiting"} /\ loop' = "exited"
        /\ UNCHANGED <<batchVars, walkVars, cycle>> /\ UNCHANGED <<now, ctx, stopping, given>>
    BY <1>1 DEF Exit, clockVars
  <2>2. ClockTypeOK' /\ now <= now'
    BY <1>0, <2>1 DEF ClockTypeOK
  <2> QED BY <1>0, <2>1, <2>2, ClockKeeps
<1>2. CASE ProbePanicked
  BY <1>2, ReturnKeeps DEF ProbePanicked
<1>3. CASE OnCycle
  <2>1. CASE given + 1 = Sinks
    BY <1>3, <2>1, ReturnKeeps DEF OnCycle
  <2>2. CASE given + 1 # Sinks
    <3>1. /\ loop = "sinks" /\ given' = given + 1 /\ loop' = loop
          /\ UNCHANGED <<batchVars, walkVars, cycle>> /\ UNCHANGED <<now, ctx, stopping>>
      BY <1>3, <2>2 DEF OnCycle, clockVars
    <3>2. given' \in 0..(Sinks - 1)
      BY <1>0, <2>2, <3>1
    <3>3. ClockTypeOK' /\ now <= now'
      BY <1>0, <3>1 DEF ClockTypeOK
    <3> QED BY <3>1, <3>2, <3>3, ClockKeeps
  <2> QED BY <2>1, <2>2
<1>4. CASE ContextEnds
  <2>1. /\ ctx' = "expired" /\ UNCHANGED <<now, stopping, loop, given>>
        /\ UNCHANGED <<batchVars, walkVars, cycle>>
    BY <1>4 DEF ContextEnds, Expire, loopVars
  <2>2. ClockTypeOK' /\ now <= now'
    BY <1>0, <2>1 DEF ClockTypeOK
  <2>3. loop = "probing" => now' <= Interval
    BY <2>1 DEF LoopIInv, LoopInv
  <2> QED BY <1>0, <2>1, <2>2, <2>3, ClockKeeps
<1>5. CASE Shutdown
  <2>1. /\ stopping' = TRUE /\ ctx' = (IF Done THEN ctx ELSE "cancelled") /\ UNCHANGED <<now, loop, given>>
        /\ UNCHANGED <<batchVars, walkVars, cycle>>
    BY <1>5 DEF Shutdown, Stop, loopVars
  <2>2. ClockTypeOK' /\ now <= now'
    BY <1>0, <2>1 DEF ClockTypeOK
  <2>3. loop = "probing" => now' <= Interval
    BY <2>1 DEF LoopIInv, LoopInv
  <2> QED BY <1>0, <2>1, <2>2, <2>3, ClockKeeps
<1>6. CASE UNCHANGED cycleVars
  <2>1. UNCHANGED <<now, ctx, stopping, loop, given>> /\ UNCHANGED <<batchVars, walkVars, cycle>>
    BY <1>6 DEF cycleVars, clockVars, loopVars
  <2>2. ClockTypeOK' /\ now <= now'
    BY <1>0, <2>1 DEF ClockTypeOK
  <2>3. loop = "probing" => now' <= Interval
    BY <2>1 DEF LoopIInv, LoopInv
  <2> QED BY <1>0, <2>1, <2>2, <2>3, ClockKeeps
<1> QED BY <1>1, <1>2, <1>3, <1>4, <1>5, <1>6, BeginKeepsLoop, MeasureKeeps, TraceKeeps, TakeKeeps, TickKeeps
       DEF LoopNext, Loop

(* For any schedule, probe and walk nothing of a cycle outlives it: the walk  *)
(* is joined before the probe returns, and the cycle is over by its deadline. *)
THEOREM LoopIsSound == LoopSpec => []LoopInv
<1>1. LoopInit => LoopIInv
  BY InitLoop
<1>2. LoopIInv /\ [LoopNext]_cycleVars => LoopIInv'
  BY LoopKeeps
<1>3. LoopIInv => LoopInv
  BY DEF LoopIInv
<1> QED BY <1>1, <1>2, <1>3, PTL DEF LoopSpec

(* What the invariant says of the record in the sinks. *)
LEMMA RecordIsMeasured == LoopIInv => MeasuredOnly
<1> SUFFICES ASSUME LoopIInv, loop = "sinks" PROVE MeasuredOnly
  BY DEF MeasuredOnly
<1>1. BatchPlace /\ BatchAccount /\ CycleIsResult /\ BatchTypeOK
  BY DEF LoopIInv, BatchInv
<1>2. /\ WithFate({"misread"}) = {} /\ Len(rtts) = Cardinality(WithFate({"answered"}))
      /\ lost = Cardinality(WithFate({"silent", "refused"} \cup (IF Echoing THEN {} ELSE {"interrupted"})))
  BY <1>1 DEF BatchAccount, AnsweredPings, LostPings, MisreadPings, LostFates
<1>3. stage \in {"over", "nil"} /\ lost \in Nat /\ Len(rtts) \in Nat
  BY <1>1 DEF CycleIsResult, BatchTypeOK
<1>4. sent = lost + Len(rtts)
  BY <1>1, <1>3 DEF BatchAccount
<1>5. CASE stage = "nil" /\ kind # "mtr"
  <2>1. rtts = <<>> /\ Len(rtts) = 0
    BY <1>1, <1>5 DEF BatchPlace
  <2>2. /\ cycle.rtts = <<>> /\ cycle.lost = cycle.sent /\ cycle.sent \in {0, Pings}
        /\ cycle.sent = 0 => stopping
    <3>1. \/ cycle = NoCycle /\ stopping
          \/ cycle = [NoCycle EXCEPT !.sent = Pings, !.lost = Pings]
      BY <1>1, <1>5 DEF CycleIsResult
    <3>2. CASE cycle = NoCycle /\ stopping
      BY <3>2 DEF NoCycle
    <3>3. CASE cycle = [NoCycle EXCEPT !.sent = Pings, !.lost = Pings]
      <4>1. cycle.rtts = <<>> /\ cycle.lost = Pings /\ cycle.sent = Pings
        BY <3>3 DEF NoCycle
      <4> QED BY <4>1, BatchAssumption
    <3> QED BY <3>1, <3>2, <3>3
  <2>3. Len(cycle.rtts) = Cardinality(WithFate({"answered"}))
    BY <1>2, <2>1, <2>2
  <2> QED BY <1>2, <1>5, <2>2, <2>3 DEF MeasuredOnly
<1>6. CASE ~(stage = "nil" /\ kind # "mtr")
  <2>1. cycle.sent = sent /\ cycle.lost = lost /\ cycle.rtts = rtts
    BY <1>1, <1>6 DEF CycleIsResult
  <2> QED BY <1>2, <1>4, <1>6, <2>1 DEF MeasuredOnly
<1> QED BY <1>5, <1>6

(* A record says what was measured: every RTT is the target's own answer to a *)
(* ping of the cycle, nothing cut off is counted, and full loss without a     *)
(* ping means that the name did not resolve while nothing was stopping.       *)
THEOREM OnlyWhatWasMeasured == LoopSpec => []MeasuredOnly
<1>1. LoopInit => LoopIInv
  BY InitLoop
<1>2. LoopIInv /\ [LoopNext]_cycleVars => LoopIInv'
  BY LoopKeeps
<1> QED BY <1>1, <1>2, RecordIsMeasured, PTL DEF LoopSpec

-----------------------------------------------------------------------------
(* The path.                                                                  *)

(* What walkRounds keeps of one TTL, and the hop rows made of it. *)
AnswerRow ==
  [who : {"router", "target"}, echo : BOOLEAN, sent : Nat \ {0}, unreach : BOOLEAN]

Account == [rows : Seq(AnswerRow), lost : Nat]

HopRow ==
  [index : Depths, who : {"nobody", "router", "target"}, echo : BOOLEAN, unreach : BOOLEAN,
   sent : Nat \ {0}, lost : Nat]

HopsOf(a, t) ==
  IF a.rows = <<>>
  THEN IF a.lost = 0 THEN <<>>
       ELSE <<[index |-> t, who |-> "nobody", echo |-> FALSE, unreach |-> FALSE,
               sent |-> a.lost, lost |-> a.lost]>>
  ELSE [i \in 1..Len(a.rows) |->
         [index |-> t, who |-> a.rows[i].who, echo |-> a.rows[i].echo,
          unreach |-> a.rows[i].unreach,
          sent |-> a.rows[i].sent + (IF i = 1 THEN a.lost ELSE 0),
          lost |-> IF i = 1 THEN a.lost ELSE 0]]

(* An echo and an error of one address are two rows, no others are alike. *)
RowsApart(a) ==
  \A i, j \in 1..Len(a.rows) :
    a.rows[i].who = a.rows[j].who /\ a.rows[i].echo = a.rows[j].echo => i = j

(* The steps that rows speak of, numbered in each row. *)
Shares(s) == UNION {{<<i, k>> : k \in 0..(s[i].sent - 1)} : i \in 1..Len(s)}

(* The rounds that came to a TTL. *)
StepsAt(t) == {r \in Rounds : last[r] >= t}

InTheAir(t) == IF walk = "wait" /\ ttl = t THEN 1 ELSE 0

(* The rounds are walked one after the other, each from the first TTL.        *)
RoundsInOrder ==
  /\ \A r \in Rounds : r > round => last[r] = 0
  /\ walk \in {"off", "resolve", "round"} => last[round] = 0
  /\ walk \in {"step", "gap"} => last[round] = ttl - 1
  /\ walk = "wait" => last[round] = ttl

(* The rows of a TTL and the step under way are the steps made there.         *)
StepsBooked(t) ==
  /\ IsFiniteSet(Shares(HopsOf(seen[t], t)))
  /\ Cardinality(Shares(HopsOf(seen[t], t))) + InTheAir(t) = Cardinality(StepsAt(t))

PathInv ==
  /\ \A t \in Depths : seen[t] \in Account /\ RowsApart(seen[t]) /\ StepsBooked(t)
  /\ seen = [t \in Depths |-> seen[t]]
  /\ RoundsInOrder

(* What is known of an account. *)
LEMMA AccountFacts ==
  ASSUME NEW a \in Account
  PROVE  /\ a.rows \in Seq(AnswerRow) /\ a.lost \in Nat /\ Len(a.rows) \in Nat
         /\ a = [rows |-> a.rows, lost |-> a.lost]
         /\ \A i \in 1..Len(a.rows) :
              /\ a.rows[i] \in AnswerRow
              /\ a.rows[i].sent \in Nat /\ a.rows[i].sent # 0
<1>1. a.rows \in Seq(AnswerRow) /\ a.lost \in Nat /\ a = [rows |-> a.rows, lost |-> a.lost]
  BY DEF Account
<1>2. Len(a.rows) \in Nat
  BY <1>1
<1>3. ASSUME NEW i \in 1..Len(a.rows)
      PROVE  a.rows[i] \in AnswerRow /\ a.rows[i].sent \in Nat /\ a.rows[i].sent # 0
  <2>1. a.rows[i] \in AnswerRow
    BY <1>1, ElementOfSeq
  <2> QED BY <2>1 DEF AnswerRow
<1> QED BY <1>1, <1>2, <1>3

(* What the hop rows of a TTL look like.                                      *)
LEMMA HopsShape ==
  ASSUME NEW a \in Account, NEW t \in Depths
  PROVE  /\ HopsOf(a, t) \in Seq(HopRow)
         /\ Len(HopsOf(a, t)) = IF a.rows = <<>> THEN (IF a.lost = 0 THEN 0 ELSE 1)
                                ELSE Len(a.rows)
         /\ \A i \in 1..Len(HopsOf(a, t)) :
              /\ HopsOf(a, t)[i].index = t
              /\ HopsOf(a, t)[i].echo => i \in 1..Len(a.rows) /\ a.rows[i].echo
              /\ HopsOf(a, t)[i].sent =
                   (IF a.rows = <<>> THEN 0 ELSE a.rows[i].sent) + (IF i = 1 THEN a.lost ELSE 0)
<1>1. a.rows \in Seq(AnswerRow) /\ a.lost \in Nat
  BY AccountFacts
<1>2. CASE a.rows = <<>> /\ a.lost = 0
  <2>1. HopsOf(a, t) = <<>>
    BY <1>2 DEF HopsOf
  <2>2. HopsOf(a, t) \in Seq(HopRow) /\ Len(HopsOf(a, t)) = 0
    BY <2>1
  <2> QED BY <1>2, <2>2
<1>3. CASE a.rows = <<>> /\ a.lost # 0
  <2> DEFINE h == [index |-> t, who |-> "nobody", echo |-> FALSE, unreach |-> FALSE,
                   sent |-> a.lost, lost |-> a.lost]
  <2>1. HopsOf(a, t) = <<h>>
    BY <1>3 DEF HopsOf
  <2>2. h \in HopRow
    BY <1>1, <1>3 DEF HopRow
  <2>3. h.index = t /\ ~h.echo /\ h.sent = 0 + a.lost
    BY <1>1
  <2> HIDE DEF h
  <2>4. <<h>> \in Seq(HopRow) /\ Len(<<h>>) = 1 /\ <<h>>[1] = h
    BY <2>2
  <2>5. \A i \in 1..1 : i = 1
    OBVIOUS
  <2> QED BY <1>3, <2>1, <2>3, <2>4, <2>5
<1>4. CASE a.rows # <<>>
  <2> DEFINE h(i) == [index |-> t, who |-> a.rows[i].who, echo |-> a.rows[i].echo,
                      unreach |-> a.rows[i].unreach,
                      sent |-> a.rows[i].sent + (IF i = 1 THEN a.lost ELSE 0),
                      lost |-> IF i = 1 THEN a.lost ELSE 0]
  <2>1. HopsOf(a, t) = [i \in 1..Len(a.rows) |-> h(i)]
    BY <1>4 DEF HopsOf
  <2>2. ASSUME NEW i \in 1..Len(a.rows)
        PROVE  /\ h(i) \in HopRow /\ h(i).index = t /\ h(i).echo = a.rows[i].echo
               /\ h(i).sent = a.rows[i].sent + (IF i = 1 THEN a.lost ELSE 0)
    <3>1. a.rows[i] \in AnswerRow
      BY AccountFacts
    <3>2. a.rows[i].sent + (IF i = 1 THEN a.lost ELSE 0) \in Nat \ {0}
      BY <1>1, <3>1 DEF AnswerRow
    <3> QED BY <1>1, <3>1, <3>2 DEF HopRow, AnswerRow
  <2> HIDE DEF h
  <2>3. Len(a.rows) \in Nat
    BY <1>1
  <2>4. [i \in 1..Len(a.rows) |-> h(i)] \in Seq(HopRow)
    BY <2>2, <2>3
  <2>5. Len([i \in 1..Len(a.rows) |-> h(i)]) = Len(a.rows)
    BY <2>3, <2>4
  <2> QED BY <1>4, <2>1, <2>2, <2>4, <2>5
<1> QED BY <1>2, <1>3, <1>4

(* In row j, which may be new, the rows z speak of one step more than s: its  *)
(* number there is m.                                                         *)
OneMore(s, z, j, m) ==
  /\ Len(s) \in Nat /\ Len(z) \in Nat /\ j \in 1..Len(z) /\ m \in Nat
  /\ z[j].sent = m + 1
  /\ IF j <= Len(s) THEN s[j].sent = m ELSE m = 0
  /\ Len(s) = Len(z) \/ (Len(s) + 1 = Len(z) /\ j = Len(z))
  /\ \A i \in (1..Len(z)) \ {j} : s[i].sent = z[i].sent

(* One more step in one row is one more share. *)
LEMMA ShareAdded ==
  ASSUME NEW s, NEW z, NEW j, NEW m, OneMore(s, z, j, m)
  PROVE  /\ <<j, m>> \notin Shares(s)
         /\ Shares(z) = Shares(s) \cup {<<j, m>>}
<1> USE DEF OneMore
<1>1. ASSUME NEW p PROVE p \in Shares(s) <=> \E i \in 1..Len(s) : \E k \in 0..(s[i].sent - 1) : p = <<i, k>>
  BY DEF Shares
<1>2. ASSUME NEW p PROVE p \in Shares(z) <=> \E i \in 1..Len(z) : \E k \in 0..(z[i].sent - 1) : p = <<i, k>>
  BY SMTT(30) DEF Shares
<1>3. <<j, m>> \notin Shares(s)
  <2> SUFFICES ASSUME <<j, m>> \in Shares(s) PROVE FALSE
    OBVIOUS
  <2>0. PICK i \in 1..Len(s) : \E k \in 0..(s[i].sent - 1) : <<j, m>> = <<i, k>>
    BY <1>1
  <2>1. PICK k \in 0..(s[i].sent - 1) : <<j, m>> = <<i, k>>
    BY <2>0
  <2>2. i = j /\ k = m
    BY <2>1
  <2>3. j <= Len(s) /\ m \in 0..(m - 1)
    BY <2>1, <2>2
  <2> QED BY <2>3
<1>4. ASSUME NEW p \in Shares(s) PROVE p \in Shares(z)
  <2>0. PICK i \in 1..Len(s) : \E k \in 0..(s[i].sent - 1) : p = <<i, k>>
    BY <1>1
  <2>1. PICK k \in 0..(s[i].sent - 1) : p = <<i, k>>
    BY <2>0
  <2>2. i \in 1..Len(z)
    BY <2>1
  <2>3. k \in 0..(z[i].sent - 1)
    <3>1. CASE i = j
      <4>1. s[j].sent = m
        BY <3>1
      <4>2. k \in 0..(m - 1)
        BY <2>1, <3>1, <4>1
      <4> QED BY <3>1, <4>2
    <3>2. CASE i # j
      BY <2>1, <2>2, <3>2
    <3> QED BY <3>1, <3>2
  <2> QED BY <1>2, <2>1, <2>2, <2>3
<1>5. <<j, m>> \in Shares(z)
  <2>1. m \in 0..(z[j].sent - 1)
    OBVIOUS
  <2> QED BY <1>2, <2>1
<1>6. ASSUME NEW p \in Shares(z), p # <<j, m>> PROVE p \in Shares(s)
  <2>0. PICK i \in 1..Len(z) : \E k \in 0..(z[i].sent - 1) : p = <<i, k>>
    BY <1>2
  <2>1. PICK k \in 0..(z[i].sent - 1) : p = <<i, k>>
    BY <2>0
  <2>2. CASE i = j
    <3>1. k # m /\ k \in 0..m
      BY <1>6, <2>1, <2>2
    <3>2. j <= Len(s) /\ s[j].sent = m
      BY <3>1
    <3>3. k \in 0..(m - 1)
      BY <3>1
    <3>4. k \in 0..(s[j].sent - 1) /\ j \in 1..Len(s)
      BY <3>2, <3>3
    <3> QED BY <1>1, <2>1, <2>2, <3>4
  <2>3. CASE i # j
    <3>1. i \in 1..Len(s) /\ s[i].sent = z[i].sent
      BY <2>1, <2>3
    <3> QED BY <1>1, <2>1, <3>1
  <2> QED BY <2>2, <2>3
<1> QED BY <1>3, <1>4, <1>5, <1>6

(* An answer is one more share. *)
LEMMA AnswerAdds ==
  ASSUME NEW a \in Account, RowsApart(a), NEW t \in Depths, NEW who \in {"router", "target"},
         NEW echo \in BOOLEAN, NEW unreach \in BOOLEAN
  PROVE  /\ WithAnswer(a, who, echo, unreach) \in Account
         /\ RowsApart(WithAnswer(a, who, echo, unreach))
         /\ \E p : /\ p \notin Shares(HopsOf(a, t))
                   /\ Shares(HopsOf(WithAnswer(a, who, echo, unreach), t))
                        = Shares(HopsOf(a, t)) \cup {p}
<1> DEFINE z == WithAnswer(a, who, echo, unreach)
<1>1. /\ a.rows \in Seq(AnswerRow) /\ a.lost \in Nat /\ a = [rows |-> a.rows, lost |-> a.lost]
      /\ Len(a.rows) \in Nat
      /\ \A i \in 1..Len(a.rows) :
           a.rows[i] \in AnswerRow /\ a.rows[i].sent \in Nat /\ a.rows[i].sent # 0
  BY AccountFacts
<1>2. HopsOf(a, t) \in Seq(HopRow) /\ Len(HopsOf(a, t)) \in Nat
  BY HopsShape
<1>3. CASE RowOf(a, who, echo) = {}
  <2> DEFINE new == [who |-> who, echo |-> echo, sent |-> 1, unreach |-> unreach]
             m == IF a.rows = <<>> THEN a.lost ELSE 0
             j == Len(a.rows) + 1
  <2>1. z = [rows |-> Append(a.rows, new), lost |-> a.lost]
    BY <1>1, <1>3 DEF WithAnswer
  <2>2. new \in AnswerRow
    BY DEF AnswerRow
  <2> HIDE DEF new
  <2>3. /\ z.rows \in Seq(AnswerRow) /\ Len(z.rows) = j /\ z.lost = a.lost /\ z.rows # <<>>
        /\ z.rows[j] = new
        /\ \A i \in 1..Len(a.rows) : z.rows[i] = a.rows[i]
    BY <1>1, <2>1, <2>2
  <2>4. z \in Account
    BY <1>1, <2>1, <2>3 DEF Account
  <2>5. RowsApart(z)
    <3> SUFFICES ASSUME NEW i \in 1..j, NEW k \in 1..j, z.rows[i].who = z.rows[k].who,
                        z.rows[i].echo = z.rows[k].echo
                 PROVE  i = k
      BY <2>3 DEF RowsApart
    <3>1. ASSUME NEW l \in 1..Len(a.rows) PROVE ~(a.rows[l].who = who /\ a.rows[l].echo = echo)
      BY <1>3 DEF RowOf
    <3>2. new.who = who /\ new.echo = echo
      BY DEF new
    <3>3. CASE i \in 1..Len(a.rows) /\ k \in 1..Len(a.rows)
      BY <2>3, <3>3 DEF RowsApart
    <3>4. CASE i \in 1..Len(a.rows) /\ k = j
      BY <2>3, <3>1, <3>2, <3>4
    <3>5. CASE i = j /\ k \in 1..Len(a.rows)
      BY <2>3, <3>1, <3>2, <3>5
    <3> QED BY <1>1, <3>3, <3>4, <3>5
  <2>6. /\ HopsOf(z, t) \in Seq(HopRow) /\ Len(HopsOf(z, t)) = j
        /\ \A i \in 1..j : HopsOf(z, t)[i].sent = z.rows[i].sent + (IF i = 1 THEN z.lost ELSE 0)
    BY <2>3, <2>4, HopsShape
  <2>7. /\ m \in Nat /\ j \in 1..j /\ HopsOf(z, t)[j].sent = m + 1
    <3>1. z.rows[j].sent = 1
      BY <2>3 DEF new
    <3>2. a.rows = <<>> <=> j = 1
      BY <1>1
    <3>3. j \in 1..j
      BY <1>1
    <3> QED BY <1>1, <2>3, <2>6, <3>1, <3>2, <3>3
  <2>8. IF j <= Len(HopsOf(a, t)) THEN HopsOf(a, t)[j].sent = m ELSE m = 0
    <3>1. CASE a.rows = <<>>
      <4>1. j = 1 /\ Len(HopsOf(a, t)) = IF a.lost = 0 THEN 0 ELSE 1
        BY <3>1, HopsShape
      <4>3. a.lost # 0 => 1 \in 1..Len(HopsOf(a, t))
        BY <4>1
      <4>2. a.lost # 0 => HopsOf(a, t)[1].sent = 0 + a.lost
        BY <3>1, <4>3, HopsShape
      <4> QED BY <1>1, <3>1, <4>1, <4>2
    <3>2. CASE a.rows # <<>>
      <4>1. Len(HopsOf(a, t)) = Len(a.rows)
        BY <3>2, HopsShape
      <4> QED BY <1>1, <3>2, <4>1
    <3> QED BY <3>1, <3>2
  <2>9. /\ Len(HopsOf(a, t)) = j \/ Len(HopsOf(a, t)) + 1 = j
        /\ \A i \in (1..j) \ {j} : HopsOf(a, t)[i].sent = HopsOf(z, t)[i].sent
    <3>1. CASE a.rows = <<>>
      <4>1. Len(HopsOf(a, t)) = IF a.lost = 0 THEN 0 ELSE 1
        BY <3>1, HopsShape
      <4>2. j = 1
        BY <3>1
      <4>3. (1..j) \ {j} = {}
        BY <4>2
      <4> HIDE DEF j
      <4> QED BY <4>1, <4>2, <4>3
    <3>2. CASE a.rows # <<>>
      <4>1. Len(HopsOf(a, t)) = Len(a.rows)
            /\ \A i \in 1..Len(a.rows) :
                 HopsOf(a, t)[i].sent = a.rows[i].sent + (IF i = 1 THEN a.lost ELSE 0)
        BY <3>2, HopsShape
      <4>2. Len(a.rows) + 1 = j /\ \A i \in (1..j) \ {j} : i \in 1..Len(a.rows)
        BY <1>1
      <4> HIDE DEF j, z
      <4> QED BY <2>3, <2>6, <4>1, <4>2
    <3> QED BY <3>1, <3>2
  <2> HIDE DEF z, m, j
  <2>10. <<j, m>> \notin Shares(HopsOf(a, t))
         /\ Shares(HopsOf(z, t)) = Shares(HopsOf(a, t)) \cup {<<j, m>>}
    <3>1. Len(HopsOf(z, t)) \in Nat /\ j \in 1..Len(HopsOf(z, t))
      BY <2>6, <2>7
    <3>2. Len(HopsOf(z, t)) = j
      BY <2>6
    <3>3. /\ \/ Len(HopsOf(a, t)) = Len(HopsOf(z, t))
             \/ Len(HopsOf(a, t)) + 1 = Len(HopsOf(z, t)) /\ j = Len(HopsOf(z, t))
          /\ \A i \in (1..Len(HopsOf(z, t))) \ {j} : HopsOf(a, t)[i].sent = HopsOf(z, t)[i].sent
      BY <2>9, <3>2
    <3>4. OneMore(HopsOf(a, t), HopsOf(z, t), j, m)
      BY <1>2, <2>7, <2>8, <3>1, <3>3 DEF OneMore
    <3> QED BY <3>4, ShareAdded
  <2> QED BY <2>4, <2>5, <2>10 DEF z
<1>4. CASE RowOf(a, who, echo) # {}
  <2>1. PICK j \in 1..Len(a.rows) : a.rows[j].who = who /\ a.rows[j].echo = echo
    BY <1>4 DEF RowOf
  <2>2. \A i \in 1..Len(a.rows) : i \in RowOf(a, who, echo) <=> i = j
    BY <2>1 DEF RowOf, RowsApart
  <2> DEFINE more == [i \in 1..Len(a.rows) |-> IF i = j
                        THEN [a.rows[i] EXCEPT !.sent = @ + 1, !.unreach = @ \/ unreach]
                        ELSE a.rows[i]]
             m == a.rows[j].sent + (IF j = 1 THEN a.lost ELSE 0)
  <2>3. z = [rows |-> more, lost |-> a.lost]
    <3>0. WithAnswer(a, who, echo, unreach)
            = [a EXCEPT !.rows = [i \in 1..Len(a.rows) |-> IF i \in RowOf(a, who, echo)
                        THEN [a.rows[i] EXCEPT !.sent = @ + 1, !.unreach = @ \/ unreach]
                        ELSE a.rows[i]]]
      BY Zenon, <1>4 DEF WithAnswer
    <3>1. z = [a EXCEPT !.rows = [i \in 1..Len(a.rows) |-> IF i \in RowOf(a, who, echo)
                        THEN [a.rows[i] EXCEPT !.sent = @ + 1, !.unreach = @ \/ unreach]
                        ELSE a.rows[i]]]
      BY <3>0
    <3>2. [i \in 1..Len(a.rows) |-> IF i \in RowOf(a, who, echo)
             THEN [a.rows[i] EXCEPT !.sent = @ + 1, !.unreach = @ \/ unreach]
             ELSE a.rows[i]] = more
      BY <2>2
    <3>3. z = [a EXCEPT !.rows = more]
      BY <3>1, <3>2
    <3> HIDE DEF z, more
    <3> QED BY <1>1, <3>3
  <2>4. ASSUME NEW i \in 1..Len(a.rows)
        PROVE  /\ more[i] \in AnswerRow /\ more[i].who = a.rows[i].who /\ more[i].echo = a.rows[i].echo
               /\ more[i].sent = IF i = j THEN a.rows[i].sent + 1 ELSE a.rows[i].sent
    <3>1. CASE i = j
      <4> DEFINE u == a.rows[i].unreach \/ unreach
      <4>1. a.rows[i] \in AnswerRow /\ a.rows[i].sent \in Nat
        BY <1>1
      <4>2. u \in BOOLEAN
        BY Zenon
      <4>3. more[i] = [a.rows[i] EXCEPT !.sent = @ + 1, !.unreach = u]
        BY <3>1
      <4> HIDE DEF u, more
      <4>4. more[i] = [who |-> a.rows[i].who, echo |-> a.rows[i].echo,
                       sent |-> a.rows[i].sent + 1, unreach |-> u]
        BY <4>1, <4>3 DEF AnswerRow
      <4> QED BY <3>1, <4>1, <4>2, <4>4 DEF AnswerRow
    <3>2. CASE i # j
      BY <1>1, <3>2
    <3> QED BY <3>1, <3>2
  <2> HIDE DEF more
  <2>5. more \in Seq(AnswerRow) /\ Len(more) = Len(a.rows) /\ more # <<>>
    <3>1. more = [i \in 1..Len(a.rows) |-> more[i]]
      BY DEF more
    <3>2. more \in [1..Len(a.rows) -> AnswerRow]
      BY <2>4, <3>1
    <3>3. Len(a.rows) \in Nat /\ Len(a.rows) >= 1
      BY <1>1, <2>1
    <3>4. more \in Seq(AnswerRow) /\ Len(more) = Len(a.rows)
      BY <3>2, <3>3
    <3> QED BY <3>3, <3>4
  <2>6. z.rows = more /\ z.lost = a.lost /\ z \in Account
    BY <1>1, <2>3, <2>5 DEF Account
  <2>7. RowsApart(z)
    BY <2>4, <2>5, <2>6 DEF RowsApart
  <2>8. /\ HopsOf(z, t) \in Seq(HopRow) /\ Len(HopsOf(z, t)) = Len(a.rows)
        /\ \A i \in 1..Len(a.rows) :
             HopsOf(z, t)[i].sent = more[i].sent + (IF i = 1 THEN a.lost ELSE 0)
    BY <2>5, <2>6, HopsShape
  <2>9. /\ Len(HopsOf(a, t)) = Len(a.rows)
        /\ \A i \in 1..Len(a.rows) :
             HopsOf(a, t)[i].sent = a.rows[i].sent + (IF i = 1 THEN a.lost ELSE 0)
    <3>1. a.rows # <<>>
      BY <2>1
    <3> QED BY <3>1, HopsShape
  <2>10. m \in Nat /\ HopsOf(z, t)[j].sent = m + 1 /\ HopsOf(a, t)[j].sent = m
    <3>1. a.rows[j].sent \in Nat
      BY <1>1 DEF AnswerRow
    <3> QED BY <1>1, <2>4, <2>8, <2>9, <3>1
  <2>11. \A i \in (1..Len(a.rows)) \ {j} : HopsOf(a, t)[i].sent = HopsOf(z, t)[i].sent
    BY <2>4, <2>8, <2>9
  <2> HIDE DEF z, m
  <2>12. <<j, m>> \notin Shares(HopsOf(a, t))
         /\ Shares(HopsOf(z, t)) = Shares(HopsOf(a, t)) \cup {<<j, m>>}
    <3>1. Len(HopsOf(z, t)) \in Nat /\ j \in 1..Len(HopsOf(z, t)) /\ j <= Len(HopsOf(a, t))
      BY <1>1, <2>8, <2>9
    <3>2. /\ IF j <= Len(HopsOf(a, t)) THEN HopsOf(a, t)[j].sent = m ELSE m = 0
          /\ Len(HopsOf(a, t)) = Len(HopsOf(z, t))
          /\ \A i \in (1..Len(HopsOf(z, t))) \ {j} : HopsOf(a, t)[i].sent = HopsOf(z, t)[i].sent
      BY <2>8, <2>9, <2>10, <2>11, <3>1
    <3>3. OneMore(HopsOf(a, t), HopsOf(z, t), j, m)
      BY <1>2, <2>10, <3>1, <3>2 DEF OneMore
    <3> QED BY <3>3, ShareAdded
  <2> QED BY <2>6, <2>7, <2>12 DEF z
<1> QED BY <1>3, <1>4

(* So is a loss. *)
LEMMA LossAdds ==
  ASSUME NEW a \in Account, RowsApart(a), NEW t \in Depths
  PROVE  /\ [a EXCEPT !.lost = @ + 1] \in Account
         /\ RowsApart([a EXCEPT !.lost = @ + 1])
         /\ \E p : /\ p \notin Shares(HopsOf(a, t))
                   /\ Shares(HopsOf([a EXCEPT !.lost = @ + 1], t))
                        = Shares(HopsOf(a, t)) \cup {p}
<1> DEFINE z == [a EXCEPT !.lost = @ + 1]
           m == (IF a.rows = <<>> THEN 0 ELSE a.rows[1].sent) + a.lost
<1>1. /\ a.rows \in Seq(AnswerRow) /\ a.lost \in Nat /\ a = [rows |-> a.rows, lost |-> a.lost]
      /\ Len(a.rows) \in Nat
      /\ \A i \in 1..Len(a.rows) :
           a.rows[i] \in AnswerRow /\ a.rows[i].sent \in Nat /\ a.rows[i].sent # 0
  BY AccountFacts
<1>2. HopsOf(a, t) \in Seq(HopRow) /\ Len(HopsOf(a, t)) \in Nat
  BY HopsShape
<1>3. z = [rows |-> a.rows, lost |-> a.lost + 1]
  BY <1>1
<1>4. z \in Account /\ z.rows = a.rows /\ z.lost = a.lost + 1 /\ z.lost # 0
  BY <1>1, <1>3 DEF Account
<1> HIDE DEF z
<1>5. RowsApart(z)
  BY <1>4 DEF RowsApart
<1>6. HopsOf(z, t) \in Seq(HopRow) /\ Len(HopsOf(z, t)) = IF a.rows = <<>> THEN 1 ELSE Len(a.rows)
  BY <1>4, HopsShape
<1>7. 1 \in 1..Len(HopsOf(z, t)) /\ Len(HopsOf(z, t)) \in Nat
  BY <1>1, <1>6
<1>8. \A i \in 1..Len(HopsOf(z, t)) : HopsOf(z, t)[i].sent =
        (IF a.rows = <<>> THEN 0 ELSE a.rows[i].sent) + (IF i = 1 THEN a.lost + 1 ELSE 0)
  BY <1>4, HopsShape
<1>9. a.rows # <<>> => a.rows[1].sent \in Nat /\ a.rows[1].sent # 0
  BY <1>1 DEF AnswerRow
<1>10. m \in Nat /\ HopsOf(z, t)[1].sent = m + 1
  BY <1>1, <1>7, <1>8, <1>9
<1>11. IF 1 <= Len(HopsOf(a, t)) THEN HopsOf(a, t)[1].sent = m ELSE m = 0
  <2>1. CASE 1 <= Len(HopsOf(a, t))
    <3>1. 1 \in 1..Len(HopsOf(a, t))
      BY <1>2, <2>1
    <3> QED BY <2>1, <3>1, HopsShape
  <2>2. CASE ~(1 <= Len(HopsOf(a, t)))
    <3>1. Len(HopsOf(a, t)) = IF a.rows = <<>> THEN (IF a.lost = 0 THEN 0 ELSE 1)
                              ELSE Len(a.rows)
      BY HopsShape
    <3>2. a.rows # <<>> => Len(a.rows) >= 1
      BY <1>1
    <3>3. a.rows = <<>> /\ a.lost = 0
      BY <1>1, <2>2, <3>1, <3>2
    <3> QED BY <2>2, <3>3
  <2> QED BY <2>1, <2>2
<1>12. /\ \/ Len(HopsOf(a, t)) = Len(HopsOf(z, t))
          \/ Len(HopsOf(a, t)) + 1 = Len(HopsOf(z, t)) /\ 1 = Len(HopsOf(z, t))
       /\ \A i \in (1..Len(HopsOf(z, t))) \ {1} : HopsOf(a, t)[i].sent = HopsOf(z, t)[i].sent
  <2>1. CASE a.rows = <<>>
    <3>1. Len(HopsOf(a, t)) = IF a.lost = 0 THEN 0 ELSE 1
      BY <2>1, HopsShape
    <3>2. Len(HopsOf(z, t)) = 1
      BY <1>6, <2>1
    <3>3. (1..1) \ {1} = {}
      OBVIOUS
    <3> QED BY <3>1, <3>2, <3>3
  <2>2. CASE a.rows # <<>>
    <3>1. Len(HopsOf(a, t)) = Len(a.rows) /\ Len(HopsOf(z, t)) = Len(a.rows)
      BY <1>6, <2>2, HopsShape
    <3>2. \A i \in 1..Len(a.rows) : HopsOf(a, t)[i].sent = a.rows[i].sent + (IF i = 1 THEN a.lost ELSE 0)
      BY <2>2, <3>1, HopsShape
    <3> QED BY <1>8, <2>2, <3>1, <3>2
  <2> QED BY <2>1, <2>2
<1> HIDE DEF m
<1>13. <<1, m>> \notin Shares(HopsOf(a, t))
       /\ Shares(HopsOf(z, t)) = Shares(HopsOf(a, t)) \cup {<<1, m>>}
  <2>1. OneMore(HopsOf(a, t), HopsOf(z, t), 1, m)
    BY <1>2, <1>7, <1>10, <1>11, <1>12 DEF OneMore
  <2> QED BY <2>1, ShareAdded
<1> QED BY <1>4, <1>5, <1>13 DEF z

(* The rounds that came to a TTL are finitely many.                           *)
LEMMA StepsFinite == ASSUME NEW t PROVE IsFiniteSet(StepsAt(t)) /\ Cardinality(StepsAt(t)) \in Nat
<1>1. WalkRounds - 1 \in Int
  BY BatchAssumption
<1>2. IsFiniteSet(Rounds)
  BY <1>1, FS_Interval DEF Rounds
<1>3. StepsAt(t) \in SUBSET Rounds
  BY DEF StepsAt
<1>4. IsFiniteSet(StepsAt(t))
  BY <1>2, <1>3, FS_Subset
<1> QED BY <1>4, FS_CardinalityType

(* A step is made: one round more came to its TTL, and to no other.           *)
LEMMA StepTaken ==
  ASSUME WalkTypeOK, RoundsInOrder, walk = "step", ttl \in Depths,
         last' = [last EXCEPT ![round] = ttl], NEW t \in Depths
  PROVE  Cardinality(StepsAt(t)') = Cardinality(StepsAt(t)) + (IF t = ttl THEN 1 ELSE 0)
<1>1. /\ round \in Rounds /\ last \in [Rounds -> 0..WalkDepth] /\ WalkDepth \in Nat
      /\ last[round] = ttl - 1 /\ ttl \in Nat /\ t \in Nat
  BY BatchAssumption DEF WalkTypeOK, RoundsInOrder, Depths
<1>2. last'[round] = ttl /\ \A r \in Rounds : r # round => last'[r] = last[r]
  BY <1>1
<1>3. StepsAt(t)' = {r \in Rounds : last'[r] >= t}
  BY DEF StepsAt
<1>4. CASE t = ttl
  <2>1. round \notin StepsAt(t)
    BY <1>1, <1>4 DEF StepsAt
  <2>2. StepsAt(t)' = StepsAt(t) \cup {round}
    BY <1>1, <1>2, <1>3, <1>4 DEF StepsAt
  <2> QED BY <1>4, <2>1, <2>2, StepsFinite, FS_AddElement
<1>5. CASE t # ttl
  <2>1. round \in StepsAt(t) <=> ttl >= t
    BY <1>1, <1>5 DEF StepsAt
  <2>2. StepsAt(t)' = StepsAt(t)
    BY <1>1, <1>2, <1>3, <2>1 DEF StepsAt
  <2> QED BY <1>5, <2>2, StepsFinite
<1> QED BY <1>4, <1>5

(* An answer or a loss is booked, for a step under way or one never sent.     *)
LEMMA StepBooked ==
  ASSUME \A t \in Depths : seen[t] \in Account /\ RowsApart(seen[t]) /\ StepsBooked(t),
         seen = [t \in Depths |-> seen[t]], walk \in {"step", "wait"}, walk' # "wait", ttl \in Depths,
         NEW z \in Account, RowsApart(z), seen' = [seen EXCEPT ![ttl] = z],
         \E p : /\ p \notin Shares(HopsOf(seen[ttl], ttl))
                /\ Shares(HopsOf(z, ttl)) = Shares(HopsOf(seen[ttl], ttl)) \cup {p},
         \A t \in Depths : Cardinality(StepsAt(t)')
            = Cardinality(StepsAt(t)) + (IF t = ttl /\ walk = "step" THEN 1 ELSE 0)
  PROVE  /\ \A t \in Depths : (seen[t] \in Account /\ RowsApart(seen[t]) /\ StepsBooked(t))'
         /\ (seen = [t \in Depths |-> seen[t]])'
<1>1. seen'[ttl] = z /\ \A t \in Depths : t # ttl => seen'[t] = seen[t]
  OBVIOUS
<1>2. \A t \in Depths : InTheAir(t)' = 0 /\ InTheAir(t) = IF walk = "wait" /\ t = ttl THEN 1 ELSE 0
  BY DEF InTheAir
<1>3. ASSUME NEW t \in Depths PROVE StepsBooked(t)'
  <2> DEFINE s == Shares(HopsOf(seen[t], t))
             c == Cardinality(StepsAt(t))
  <2>1. IsFiniteSet(s) /\ Cardinality(s) + InTheAir(t) = c /\ c \in Nat /\ Cardinality(s) \in Nat
    BY StepsFinite, FS_CardinalityType DEF StepsBooked
  <2>2. StepsBooked(t)' <=> /\ IsFiniteSet(Shares(HopsOf(seen'[t], t)))
                            /\ Cardinality(Shares(HopsOf(seen'[t], t))) + InTheAir(t)' = Cardinality(StepsAt(t)')
    BY DEF StepsBooked
  <2> HIDE DEF c
  <2>3. CASE t = ttl
    <3>1. PICK p : p \notin s /\ Shares(HopsOf(z, t)) = s \cup {p}
      BY <2>3
    <3> HIDE DEF s
    <3>2. IsFiniteSet(s \cup {p}) /\ Cardinality(s \cup {p}) = Cardinality(s) + 1
      BY <2>1, <3>1, FS_AddElement
    <3>3. IsFiniteSet(Shares(HopsOf(seen'[t], t))) /\ Cardinality(Shares(HopsOf(seen'[t], t))) = Cardinality(s) + 1
      BY <1>1, <2>3, <3>1, <3>2
    <3>4. Cardinality(StepsAt(t)') = c + (IF walk = "step" THEN 1 ELSE 0)
      BY <2>3 DEF c
    <3>5. InTheAir(t)' = 0 /\ InTheAir(t) = IF walk = "wait" THEN 1 ELSE 0
      BY <1>2, <2>3
    <3> QED BY <2>1, <2>2, <3>3, <3>4, <3>5
  <2>4. CASE t # ttl
    <3>1. seen'[t] = seen[t] /\ InTheAir(t)' = 0 /\ InTheAir(t) = 0
      BY <1>1, <1>2, <2>4
    <3>2. Cardinality(StepsAt(t)') = c
      BY <2>1, <2>4 DEF c
    <3> QED BY <2>1, <2>2, <3>1, <3>2
  <2> QED BY <2>3, <2>4
<1>4. ASSUME NEW t \in Depths PROVE seen'[t] \in Account /\ RowsApart(seen'[t])
  <2>1. CASE t = ttl
    BY <1>1, <2>1
  <2>2. CASE t # ttl
    BY <1>1, <2>2
  <2> QED BY <2>1, <2>2
<1>5. \A t \in Depths : RowsApart(seen[t])' <=> RowsApart(seen'[t])
  BY DEF RowsApart
<1> QED BY <1>3, <1>4, <1>5

(* The path is untouched while no step begins or ends.                        *)
LEMMA StillBooked ==
  ASSUME \A t \in Depths : seen[t] \in Account /\ RowsApart(seen[t]) /\ StepsBooked(t),
         seen = [t \in Depths |-> seen[t]], UNCHANGED <<seen, last>>,
         \A t \in Depths : InTheAir(t)' = InTheAir(t)
  PROVE  /\ \A t \in Depths : (seen[t] \in Account /\ RowsApart(seen[t]) /\ StepsBooked(t))'
         /\ (seen = [t \in Depths |-> seen[t]])'
<1>1. ASSUME NEW t \in Depths PROVE StepsBooked(t)'
  BY <1>1 DEF StepsBooked, StepsAt
<1>2. \A t \in Depths : RowsApart(seen[t])' <=> RowsApart(seen[t])
  BY DEF RowsApart
<1> QED BY <1>1, <1>2

(* After a step of a round the next ones of it, and the rounds to come, are   *)
(* untouched.                                                                 *)
LEMMA AfterStepInOrder ==
  ASSUME WalkTypeOK, ttl \in Depths, NEW terminal \in BOOLEAN, NEW echo \in BOOLEAN,
         AfterStep(terminal, echo), last' \in [Rounds -> 0..WalkDepth], last'[round] = ttl,
         \A r \in Rounds : r > round => last'[r] = 0, round' \in Rounds
  PROVE  RoundsInOrder'
<1>1. round \in Int /\ ttl \in Int /\ round' \in Int /\ \A r \in Rounds : r \in Int
  BY DEF WalkTypeOK, Rounds, Depths
<1>2. \/ walk' = "done" /\ round' = round
      \/ walk' = "round" /\ round' = round + 1
      \/ walk' = "gap" /\ ttl' = ttl + 1 /\ round' = round
  BY DEF AfterStep
<1>3. \A r \in Rounds : r > round' => last'[r] = 0
  BY <1>1, <1>2
<1>4. walk' = "round" => last'[round'] = 0
  BY <1>1, <1>2
<1>5. walk' = "gap" => last'[round'] = ttl' - 1
  BY <1>1, <1>2
<1> QED BY <1>2, <1>3, <1>4, <1>5 DEF RoundsInOrder

(* Every datagram comes from the target or a router.                          *)
LEMMA Senders == ASSUME NEW d \in Air PROVE d.from \in {"target", "router"}
<1>1. CASE d \in EchoWire
  BY <1>1 DEF EchoWire, Datagram
<1>2. CASE d \in StrangerAnswers
  BY <1>2 DEF StrangerAnswers, Datagram
<1>3. CASE d \in UNION {UNION {StepAnswers(r, t) : t \in 1..last[r]} : r \in Rounds}
  <2>1. PICK r \in Rounds : d \in UNION {StepAnswers(r, t) : t \in 1..last[r]}
    BY <1>3
  <2>2. PICK t \in 1..last[r] : d \in StepAnswers(r, t)
    BY <2>1
  <2> QED BY <2>2 DEF StepAnswers, Datagram
<1> QED BY <1>1, <1>2, <1>3 DEF Air, WalkWire

(* Every step of the walk keeps the account.                                  *)
LEMMA WalkBooks ==
  ASSUME PathInv, WalkInv, WalkInv', WalkStep(Air)
  PROVE  PathInv'
<1>0. /\ WalkTypeOK /\ WalkPlace /\ RoundsInOrder
      /\ round \in Rounds /\ last \in [Rounds -> 0..WalkDepth] /\ ttl \in 0..WalkDepth
      /\ round' \in Rounds /\ last' \in [Rounds -> 0..WalkDepth] /\ \A r \in Rounds : r \in Int
      /\ \A t \in Depths : seen[t] \in Account /\ RowsApart(seen[t]) /\ StepsBooked(t)
      /\ seen = [t \in Depths |-> seen[t]]
  BY DEF WalkInv, WalkTypeOK, PathInv, Rounds
<1>1. CASE UNCHANGED <<round, seen, last>> /\ walk \notin {"wait", "off"} /\ walk' # "wait"
           /\ RoundsInOrder'
  <2>1. \A t \in Depths : InTheAir(t)' = InTheAir(t)
    BY <1>1 DEF InTheAir
  <2> QED BY <1>0, <1>1, <2>1, StillBooked DEF PathInv
<1>2. CASE WalkFails
  <2>1. UNCHANGED <<round, seen, last>> /\ walk = "resolve" /\ walk' = "failed"
    BY <1>2 DEF WalkFails
  <2>2. RoundsInOrder'
    BY <1>0, <2>1 DEF RoundsInOrder
  <2> QED BY <1>1, <2>1, <2>2
<1>3. CASE WalkRound
  <2>1. /\ UNCHANGED <<round, seen, last>> /\ walk \in {"resolve", "round"}
        /\ walk' = "done" \/ (walk' = "step" /\ ttl' = 1)
    BY <1>3 DEF WalkRound
  <2>2. RoundsInOrder'
    BY <1>0, <2>1 DEF RoundsInOrder
  <2> QED BY <1>1, <2>1, <2>2
<1>4. CASE WalkGap
  <2>1. UNCHANGED <<round, seen, last, ttl>> /\ walk = "gap" /\ walk' = "step"
    BY <1>4 DEF WalkGap
  <2>2. RoundsInOrder'
    BY <1>0, <2>1 DEF RoundsInOrder
  <2> QED BY <1>1, <2>1, <2>2
<1>5. CASE WalkSend
  <2>1. walk = "step" /\ UNCHANGED <<round, ttl, seen>> /\ ttl \in Depths
    BY <1>0, <1>5 DEF WalkSend, WalkPlace
  <2>2. CASE Done
    <3>1. walk' = "done" /\ last' = last
      BY <1>5, <2>2 DEF WalkSend
    <3>2. RoundsInOrder'
      BY <1>0, <2>1, <3>1 DEF RoundsInOrder
    <3> QED BY <1>1, <2>1, <3>1, <3>2
  <2>3. CASE ~Done
    <3>1. walk' = "wait" /\ last' = [last EXCEPT ![round] = ttl]
      BY <1>5, <2>3 DEF WalkSend
    <3>2. RoundsInOrder'
      BY <1>0, <2>1, <3>1 DEF RoundsInOrder
    <3>3. ASSUME NEW t \in Depths PROVE StepsBooked(t)'
      <4>1. Cardinality(StepsAt(t)') = Cardinality(StepsAt(t)) + (IF t = ttl THEN 1 ELSE 0)
        BY <1>0, <2>1, <3>1, StepTaken
      <4>2. InTheAir(t) = 0 /\ InTheAir(t)' = IF t = ttl THEN 1 ELSE 0
        BY <2>1, <3>1 DEF InTheAir
      <4>3. /\ IsFiniteSet(Shares(HopsOf(seen[t], t)))
            /\ Cardinality(Shares(HopsOf(seen[t], t))) + InTheAir(t) = Cardinality(StepsAt(t))
            /\ Cardinality(Shares(HopsOf(seen[t], t))) \in Nat
        BY <1>0, FS_CardinalityType DEF StepsBooked
      <4>4. Cardinality(Shares(HopsOf(seen[t], t))) + InTheAir(t)' = Cardinality(StepsAt(t)')
        BY <4>1, <4>2, <4>3
      <4> QED BY <2>1, <4>3, <4>4 DEF StepsBooked
    <3>4. \A t \in Depths : RowsApart(seen[t])' <=> RowsApart(seen[t])
      BY <2>1 DEF RowsApart
    <3> QED BY <1>0, <2>1, <3>2, <3>3, <3>4 DEF PathInv
  <2> QED BY <2>2, <2>3
<1>6. CASE WalkReceive(Air)
  <2>1. walk = "wait" /\ last' = last /\ ttl \in Depths
    BY <1>0, <1>6 DEF WalkReceive, WalkPlace
  <2>2. PICK d \in Air :
          /\ seen' = [seen EXCEPT ![ttl] = WithAnswer(seen[ttl], d.from,
                        ClassifyReply(d) = "echo", ClassifyReply(d) = "unreach")]
          /\ AfterStep(ClassifyReply(d) # "exceeded", ClassifyReply(d) = "echo")
    BY <1>6 DEF WalkReceive
  <2> DEFINE echo == ClassifyReply(d) = "echo"
             unreach == ClassifyReply(d) = "unreach"
             z == WithAnswer(seen[ttl], d.from, echo, unreach)
  <2>3. d.from \in {"router", "target"} /\ echo \in BOOLEAN /\ unreach \in BOOLEAN
        /\ (ClassifyReply(d) # "exceeded") \in BOOLEAN
    BY Senders
  <2>4. walk' # "wait"
    BY <2>2 DEF AfterStep
  <2>5. last'[round] = ttl /\ \A r \in Rounds : r > round => last'[r] = 0
    BY <1>0, <2>1 DEF RoundsInOrder
  <2>6. RoundsInOrder'
    BY <1>0, <2>1, <2>2, <2>3, <2>5, AfterStepInOrder
  <2>7. seen' = [seen EXCEPT ![ttl] = z]
    BY <2>2
  <2> HIDE DEF echo, unreach
  <2>8. /\ z \in Account /\ RowsApart(z)
        /\ \E p : /\ p \notin Shares(HopsOf(seen[ttl], ttl))
                  /\ Shares(HopsOf(z, ttl)) = Shares(HopsOf(seen[ttl], ttl)) \cup {p}
    BY <1>0, <2>1, <2>3, AnswerAdds
  <2> HIDE DEF z
  <2>9. \A t \in Depths : Cardinality(StepsAt(t)')
           = Cardinality(StepsAt(t)) + (IF t = ttl /\ walk = "step" THEN 1 ELSE 0)
    <3>1. \A t \in Depths : StepsAt(t)' = StepsAt(t)
      BY <2>1 DEF StepsAt
    <3> QED BY <2>1, <3>1, StepsFinite
  <2> QED BY <1>0, <2>1, <2>4, <2>6, <2>7, <2>8, <2>9, StepBooked DEF PathInv
<1>7. CASE WalkLoses \/ WalkUnsent
  <2>1. walk \in {"step", "wait"} /\ Lost /\ ttl \in Depths
    BY <1>0, <1>7 DEF WalkLoses, WalkUnsent, WalkPlace
  <2>2. /\ seen' = [seen EXCEPT ![ttl].lost = @ + 1]
        /\ last' = [last EXCEPT ![round] = ttl] /\ AfterStep(FALSE, FALSE)
    BY <2>1 DEF Lost
  <2> DEFINE z == [seen[ttl] EXCEPT !.lost = @ + 1]
  <2>3. seen' = [seen EXCEPT ![ttl] = z]
    BY <2>2
  <2>4. walk' # "wait"
    BY <2>2 DEF AfterStep
  <2>5. last'[round] = ttl /\ \A r \in Rounds : r > round => last'[r] = 0
    BY <1>0, <2>2 DEF RoundsInOrder
  <2>6. RoundsInOrder'
    BY <1>0, <2>1, <2>2, <2>5, AfterStepInOrder
  <2>7. /\ z \in Account /\ RowsApart(z)
        /\ \E p : /\ p \notin Shares(HopsOf(seen[ttl], ttl))
                  /\ Shares(HopsOf(z, ttl)) = Shares(HopsOf(seen[ttl], ttl)) \cup {p}
    BY <1>0, <2>1, LossAdds
  <2> HIDE DEF z
  <2>8. ASSUME NEW t \in Depths
        PROVE  Cardinality(StepsAt(t)')
                 = Cardinality(StepsAt(t)) + (IF t = ttl /\ walk = "step" THEN 1 ELSE 0)
    <3>1. CASE walk = "step"
      <4>1. Cardinality(StepsAt(t)') = Cardinality(StepsAt(t)) + (IF t = ttl THEN 1 ELSE 0)
        BY <1>0, <2>1, <2>2, <3>1, StepTaken
      <4> QED BY <3>1, <4>1
    <3>2. CASE walk = "wait"
      <4>1. last' = last
        BY <1>0, <2>2, <3>2 DEF RoundsInOrder
      <4>2. StepsAt(t)' = StepsAt(t)
        BY <4>1 DEF StepsAt
      <4> QED BY <3>2, <4>2, StepsFinite
    <3> QED BY <2>1, <3>1, <3>2
  <2> QED BY <1>0, <2>1, <2>3, <2>4, <2>6, <2>7, <2>8, StepBooked DEF PathInv
<1> QED BY <1>2, <1>3, <1>4, <1>5, <1>6, <1>7 DEF WalkStep

(* A walk that has not begun has nothing to account for.                      *)
LEMMA FreshPath == FreshWalk => PathInv
<1> SUFFICES ASSUME FreshWalk PROVE PathInv
  OBVIOUS
<1>1. /\ seen = [t \in Depths |-> Nobody] /\ last = [r \in Rounds |-> 0]
      /\ walk \in {"off", "resolve"} /\ round = 0
  BY DEF FreshWalk
<1>2. Nobody \in Account /\ Nobody.rows = <<>> /\ Nobody.lost = 0 /\ RowsApart(Nobody)
  BY DEF Nobody, Account, RowsApart
<1>3. ASSUME NEW t \in Depths PROVE StepsBooked(t)
  <2>1. HopsOf(Nobody, t) = <<>>
    BY <1>2 DEF HopsOf
  <2>2. Shares(HopsOf(Nobody, t)) = {}
    BY <2>1 DEF Shares
  <2>3. StepsAt(t) = {}
    BY <1>1 DEF StepsAt, Depths
  <2>4. InTheAir(t) = 0
    BY <1>1 DEF InTheAir
  <2> QED BY <1>1, <2>2, <2>3, <2>4, FS_EmptySet DEF StepsBooked
<1>4. RoundsInOrder
  <2>1. 0 \in Rounds
    BY BatchAssumption DEF Rounds
  <2> QED BY <1>1, <2>1 DEF RoundsInOrder
<1> QED BY <1>1, <1>2, <1>3, <1>4 DEF PathInv

(* The account of the path is always right. *)
LEMMA PathAccount == LoopSpec => []PathInv
<1>1. LoopInit => PathInv
  <2> SUFFICES ASSUME LoopInit PROVE PathInv
    OBVIOUS
  <2>1. FreshWalk
    BY DEF LoopInit, BatchInit, WalkInit, FreshWalk
  <2> QED BY <2>1, FreshPath
<1>2. (FreshWalk' => PathInv')
  BY FreshPath, PTL
<1>3. PathInv /\ LoopIInv /\ LoopIInv' /\ [LoopNext]_cycleVars => PathInv'
  <2> SUFFICES ASSUME PathInv, LoopIInv, LoopIInv', [LoopNext]_cycleVars PROVE PathInv'
    OBVIOUS
  <2>1. WalkInv /\ WalkInv' /\ kind \in Kinds
    BY DEF LoopIInv, BatchInv, BatchTypeOK
  <2>2. CASE UNCHANGED walkVars
    BY <2>2 DEF PathInv, StepsBooked, StepsAt, InTheAir, RoundsInOrder, RowsApart, walkVars
  <2>3. CASE FreshWalk'
    BY <1>2, <2>3
  <2>4. CASE Trace
    <3>1. WalkStep(Air)
      BY <2>4 DEF Trace
    <3> QED BY <2>1, <3>1, WalkBooks
  <2>5. CASE WalkStart /\ kind' = kind /\ Echoing'
    <3>1. FreshWalk'
      BY <2>1, <2>5 DEF WalkStart, FreshWalk
    <3> QED BY <2>3, <3>1
  <2>6. CASE Return
    <3>1. FreshWalk'
      BY <2>1, <2>6 DEF Return, FreshWalk
    <3> QED BY <2>3, <3>1
  <2>7. CASE BeginCycle
    <3>1. kind' = kind /\ (kind = "mtr" => WalkStart /\ Echoing') /\ (kind # "mtr" => UNCHANGED walkVars)
      BY <2>7 DEF BeginCycle, BatchStart, Echoing
    <3> QED BY <2>2, <2>5, <3>1
  <2>8. CASE Measure
    <3>1. BatchStep(Air)
      BY <2>8 DEF Measure
    <3>2. kind' = kind
      BY <3>1 DEF BatchStep, ResolveFails, ListenFails, Listen, Attempt, Receive, Connect, Lookup,
                  Respond, Refused, Interrupt, TimeOut, Gap, BatchPanics, Succeeds, Loses, Onward
    <3>3. UNCHANGED walkVars \/ (kind = "icmp" /\ WalkStart)
      BY <2>8 DEF Measure
    <3> QED BY <2>2, <2>5, <3>2, <3>3 DEF Echoing
  <2>9. CASE TakeResult \/ Exit \/ Tick \/ ContextEnds \/ Shutdown \/ UNCHANGED cycleVars
    BY <2>2, <2>9 DEF TakeResult, Exit, Tick, ContextEnds, Shutdown, cycleVars
  <2>10. CASE ProbePanicked \/ OnCycle
    BY <2>2, <2>6, <2>10 DEF ProbePanicked, OnCycle
  <2> QED BY <2>4, <2>7, <2>8, <2>9, <2>10 DEF LoopNext, Loop
<1>4. LoopSpec => []LoopIInv
  BY InitLoop, LoopKeeps, PTL DEF LoopSpec
<1> QED BY <1>1, <1>3, <1>4, PTL DEF LoopSpec

-----------------------------------------------------------------------------
(* The rows of the path.                                                      *)

(* The equation of the sum of the sent counts over a set of rows.             *)
SumIs(it, h, R) ==
  it = [s \in SUBSET R |-> IF s = {} THEN 0
          ELSE h[CHOOSE x \in s : TRUE].sent + it[s \ {CHOOSE x \in s : TRUE}]]

SharesIn(h, s) == UNION {{<<i, k>> : k \in 0..(h[i].sent - 1)} : i \in s}

(* What a share of a set of rows is. *)
LEMMA ShareOf ==
  ASSUME NEW h, NEW s, NEW p
  PROVE  p \in SharesIn(h, s) <=> \E i \in s : \E k \in 0..(h[i].sent - 1) : p = <<i, k>>
BY DEF SharesIn

(* The shares of one row. *)
LEMMA SharesOfRow ==
  ASSUME NEW h, NEW x, h[x].sent \in Nat
  PROVE  IsFiniteSet(SharesIn(h, {x})) /\ Cardinality(SharesIn(h, {x})) = h[x].sent
<1> DEFINE c == h[x].sent
           S == {<<x, k>> : k \in 0..(c - 1)}
           f == [k \in 0..(c - 1) |-> <<x, k>>]
<1>1. SharesIn(h, {x}) = S
  BY DEF SharesIn
<1>2. f \in Bijection(0..(c - 1), S)
  <2>1. f \in [0..(c - 1) -> S]
    OBVIOUS
  <2>2. \A k, l \in 0..(c - 1) : f[k] = f[l] => k = l
    OBVIOUS
  <2>3. \A p \in S : \E k \in 0..(c - 1) : f[k] = p
    OBVIOUS
  <2> HIDE DEF S, f
  <2> QED BY <2>1, <2>2, <2>3 DEF Bijection, Injection, Surjection, IsInjective
<1> HIDE DEF S, f
<1>0. c \in Nat
  OBVIOUS
<1> HIDE DEF c
<1>3. IsFiniteSet(0..(c - 1)) /\ Cardinality(0..(c - 1)) = c
  <2>1. 0 \in Int /\ c - 1 \in Int
    BY <1>0
  <2>2. IsFiniteSet(0..(c - 1)) /\ Cardinality(0..(c - 1)) = IF 0 > c - 1 THEN 0 ELSE c - 1 - 0 + 1
    BY <2>1, FS_Interval
  <2> QED BY <1>0, <2>2
<1>4. IsFiniteSet(S) /\ Cardinality(S) = c
  BY <1>2, <1>3, FS_Bijection DEF ExistsBijection
<1> QED BY <1>1, <1>4 DEF c

(* A sum of sent counts is the number of shares. *)
LEMMA SumCountsShares ==
  ASSUME NEW h, NEW R, IsFiniteSet(R), \A x \in R : h[x].sent \in Nat, IsFiniteSet(SharesIn(h, R))
  PROVE  (CHOOSE it : SumIs(it, h, R))[R] = Cardinality(SharesIn(h, R))
<1> DEFINE F == [s \in SUBSET R |-> Cardinality(SharesIn(h, s))]
           pick(s) == CHOOSE x \in s : TRUE
<1>1. ASSUME NEW s \in SUBSET R, NEW x \in s PROVE F[s] = h[x].sent + F[s \ {x}]
  <2>1. SharesIn(h, s) = SharesIn(h, s \ {x}) \cup SharesIn(h, {x})
    BY DEF SharesIn
  <2>2. SharesIn(h, s \ {x}) \cap SharesIn(h, {x}) = {}
    BY DEF SharesIn
  <2>3. SharesIn(h, s \ {x}) \in SUBSET SharesIn(h, R)
    BY DEF SharesIn
  <2>4. IsFiniteSet(SharesIn(h, s \ {x})) /\ Cardinality(SharesIn(h, s \ {x})) \in Nat
    BY <2>3, FS_Subset, FS_CardinalityType
  <2>5. IsFiniteSet(SharesIn(h, {x})) /\ Cardinality(SharesIn(h, {x})) = h[x].sent /\ h[x].sent \in Nat
    BY SharesOfRow
  <2>6. Cardinality(SharesIn(h, s)) = Cardinality(SharesIn(h, s \ {x})) + h[x].sent
    <3>1. Cardinality(SharesIn(h, s)) = Cardinality(SharesIn(h, s \ {x})) + Cardinality(SharesIn(h, {x}))
            - Cardinality(SharesIn(h, s \ {x}) \cap SharesIn(h, {x}))
      BY <2>1, <2>4, <2>5, FS_Union
    <3>2. Cardinality(SharesIn(h, s \ {x}) \cap SharesIn(h, {x})) = 0
      BY <2>2, FS_EmptySet
    <3> QED BY <2>4, <2>5, <3>1, <3>2
  <2> QED BY <2>4, <2>5, <2>6
<1>2. F[{}] = 0
  <2>1. SharesIn(h, {}) = {}
    BY DEF SharesIn
  <2> QED BY <2>1, FS_EmptySet
<1>3. \A s \in SUBSET R : s # {} => pick(s) \in s
  OBVIOUS
<1>4. SumIs(F, h, R)
  <2> DEFINE G == [s \in SUBSET R |-> IF s = {} THEN 0 ELSE h[pick(s)].sent + F[s \ {pick(s)}]]
  <2>1. ASSUME NEW s \in SUBSET R PROVE F[s] = G[s]
    <3>1. CASE s = {}
      BY <1>2, <3>1
    <3>2. CASE s # {}
      <4>1. pick(s) \in s
        BY <1>3, <3>2
      <4> HIDE DEF F, pick
      <4> QED BY <1>1, <3>2, <4>1
    <3> QED BY <3>1, <3>2
  <2>2. F = G
    BY <2>1
  <2> QED BY <2>2 DEF SumIs
<1> DEFINE it == CHOOSE f : SumIs(f, h, R)
<1>5. SumIs(it, h, R)
  <2> HIDE DEF F
  <2> QED BY <1>4
<1>6. /\ it[{}] = 0
      /\ \A s \in SUBSET R : s # {} => it[s] = h[pick(s)].sent + it[s \ {pick(s)}]
  <2> HIDE DEF it
  <2> QED BY <1>5 DEF SumIs
<1> HIDE DEF it, F, pick
<1> DEFINE S == {m \in Nat : \A s \in SUBSET R : Cardinality(s) = m => it[s] = F[s]}
<1>7. 0 \in S
  <2>1. ASSUME NEW s \in SUBSET R, Cardinality(s) = 0 PROVE s = {}
    BY <2>1, FS_Subset, FS_EmptySet
  <2> QED BY <1>2, <1>6, <2>1
<1>8. ASSUME NEW m \in S PROVE m + 1 \in S
  <2>1. ASSUME NEW s \in SUBSET R, Cardinality(s) = m + 1 PROVE it[s] = F[s]
    <3>1. IsFiniteSet(s) /\ s # {}
      BY <2>1, FS_Subset, FS_EmptySet
    <3>2. pick(s) \in s
      BY <1>3, <3>1
    <3>3. Cardinality(s \ {pick(s)}) = m
      <4>1. Cardinality(s \ {pick(s)}) = Cardinality(s) - 1
        BY <3>1, <3>2, FS_RemoveElement
      <4> QED BY <2>1, <4>1
    <3>4. it[s \ {pick(s)}] = F[s \ {pick(s)}]
      BY <3>3
    <3> HIDE DEF S
    <3> QED BY <1>1, <1>6, <3>1, <3>2, <3>4
  <2> QED BY <2>1
<1>9. S = Nat
  <2>1. S \in SUBSET Nat
    OBVIOUS
  <2> HIDE DEF S
  <2> QED BY <1>7, <1>8, <2>1, NatSetInduction
<1>10. Cardinality(R) \in S
  <2>1. Cardinality(R) \in Nat
    BY FS_CardinalityType
  <2> HIDE DEF S
  <2> QED BY <1>9, <2>1
<1>11. it[R] = F[R]
  BY <1>10
<1> QED BY <1>11 DEF it, F

-----------------------------------------------------------------------------
Block(t) == IF t \in Shown THEN HopsAt(t) ELSE <<>>

UpTo(f) == f = [t \in 0..WalkDepth |-> IF t = 0 THEN <<>> ELSE f[t - 1] \o Block(t)]

(* The rows of a TTL. *)
LEMMA BlockShape ==
  ASSUME PathInv, NEW t \in Depths
  PROVE  /\ Block(t) \in Seq(HopRow) /\ Len(Block(t)) \in Nat
         /\ \A j \in 1..Len(Block(t)) :
              /\ Block(t)[j].index = t /\ t \in Shown /\ Block(t)[j].sent \in Nat
              /\ Block(t)[j].echo => Echoed(t)
<1>1. HopsAt(t) = HopsOf(seen[t], t)
  BY DEF HopsAt, HopsOf
<1>2. seen[t] \in Account
  BY DEF PathInv
<1>3. HopsAt(t) \in Seq(HopRow)
  BY <1>1, <1>2, HopsShape
<1>4. ASSUME NEW j \in 1..Len(HopsAt(t))
      PROVE  HopsAt(t)[j].index = t /\ (HopsAt(t)[j].echo => Echoed(t)) /\ HopsAt(t)[j].sent \in Nat
  <2>1. HopsAt(t)[j] \in HopRow
    BY <1>3, ElementOfSeq
  <2>2. HopsAt(t)[j].index = t /\ (HopsAt(t)[j].echo => j \in 1..Len(seen[t].rows) /\ seen[t].rows[j].echo)
    BY <1>1, <1>2, HopsShape
  <2>3. HopsAt(t)[j].sent \in Nat
    BY <2>1 DEF HopRow
  <2> QED BY <2>2, <2>3 DEF Echoed
<1> QED BY <1>3, <1>4 DEF Block

(* Hops joins the rows of the TTLs one by one. *)
LEMMA HopsUnfold ==
  ASSUME PathInv
  PROVE  \E f : /\ Hops = f[WalkDepth] /\ f \in [0..WalkDepth -> Seq(HopRow)] /\ f[0] = <<>>
                /\ \A t \in Depths : f[t] = f[t - 1] \o Block(t)
<1>0. WalkDepth \in Nat
  BY BatchAssumption
<1> DEFINE step == [t \in 1..WalkDepth |-> [s \in Seq(HopRow) |-> s \o Block(t)]]
<1>1. ASSUME NEW t \in 1..WalkDepth, NEW s \in Seq(HopRow) PROVE s \o Block(t) \in Seq(HopRow)
  BY BlockShape, ConcatProperties DEF Depths
<1>2. IsStep(step, WalkDepth, Seq(HopRow))
  BY <1>1 DEF IsStep
<1>3. <<>> \in Seq(HopRow)
  OBVIOUS
<1>4. PICK g : Follows(g, WalkDepth, Seq(HopRow), <<>>, step)
  <2> HIDE DEF step
  <2> QED BY <1>0, <1>2, <1>3, PrimitiveRecursion
<1>5. g \in [0..WalkDepth -> Seq(HopRow)] /\ g[0] = <<>> /\ \A t \in 1..WalkDepth : g[t] = step[t][g[t - 1]]
  <2> HIDE DEF step
  <2> QED BY <1>4 DEF Follows
<1>6. UpTo(g)
  <2>1. ASSUME NEW t \in 1..WalkDepth PROVE g[t] = g[t - 1] \o Block(t)
    <3>1. t - 1 \in 0..WalkDepth
      BY <1>0
    <3>2. g[t - 1] \in Seq(HopRow)
      BY <1>5, <3>1
    <3> QED BY <1>5, <3>2
  <2>2. \A t \in 0..WalkDepth : g[t] = IF t = 0 THEN <<>> ELSE g[t - 1] \o Block(t)
    <3>1. g[0] = <<>> /\ \A t \in 0..WalkDepth : t # 0 => t \in 1..WalkDepth
      BY <1>0, <1>5
    <3> HIDE DEF step
    <3> QED BY <2>1, <3>1, Zenon
  <2> HIDE DEF step
  <2> QED BY <1>5, <2>2 DEF UpTo
<1> DEFINE f == CHOOSE u : UpTo(u)
<1>7. UpTo(f)
  BY <1>6
<1>8. Hops = f[WalkDepth]
  BY Zenon DEF Hops, UpTo, Block
<1> HIDE DEF f
<1>9. f[0] = <<>> /\ DOMAIN f = 0..WalkDepth /\ \A t \in Depths : f[t] = f[t - 1] \o Block(t)
  <2>1. f = [t \in 0..WalkDepth |-> IF t = 0 THEN <<>> ELSE f[t - 1] \o Block(t)]
    BY <1>7 DEF UpTo
  <2>2. DOMAIN f = 0..WalkDepth /\ \A t \in 0..WalkDepth : f[t] = IF t = 0 THEN <<>> ELSE f[t - 1] \o Block(t)
    BY <2>1, Zenon
  <2>3. 0 \in 0..WalkDepth /\ \A t \in Depths : t \in 0..WalkDepth /\ t # 0
    BY <1>0 DEF Depths
  <2> QED BY <2>2, <2>3, Zenon
<1> DEFINE S == {t \in 0..WalkDepth : f[t] \in Seq(HopRow)}
<1>10. \A t \in 0..WalkDepth : t \in S
  <2>1. 0 \in S
    <3>1. 0 \in 0..WalkDepth
      BY <1>0
    <3>2. f[0] \in Seq(HopRow)
      BY <1>3, <1>9, Zenon
    <3> QED BY <3>1, <3>2
  <2>2. ASSUME NEW t \in 0..(WalkDepth - 1), t \in S PROVE t + 1 \in S
    <3>1. t + 1 \in 1..WalkDepth /\ t + 1 \in Depths /\ t + 1 - 1 = t
      BY <1>0 DEF Depths
    <3>2. f[t + 1] = f[t] \o Block(t + 1)
      <4>1. PICK u \in Depths : u = t + 1
        BY <3>1
      <4>2. f[u] = f[u - 1] \o Block(u)
        BY <1>9
      <4>3. u - 1 = t
        BY <3>1, <4>1
      <4> QED BY <4>1, <4>2, <4>3
    <3>3. f[t] \in Seq(HopRow)
      BY <2>2
    <3>4. f[t + 1] \in Seq(HopRow)
      BY <1>1, <3>1, <3>2, <3>3
    <3> QED BY <3>1, <3>4
  <2> HIDE DEF S
  <2> QED BY <1>0, <2>1, <2>2, UpToInduction
<1>11. f \in [0..WalkDepth -> Seq(HopRow)]
  <2>1. f = [t \in 0..WalkDepth |-> f[t]]
    BY <1>7, <1>9 DEF UpTo
  <2> QED BY <1>10, <2>1
<1> QED BY <1>8, <1>9, <1>11

(* What a path up to a TTL consists of: one block for each, in order.         *)
Blocks(s, m) ==
  /\ \A i \in 1..Len(s) :
       s[i].index \in 1..m /\ s[i].index \in Shown /\ (s[i].echo => Echoed(s[i].index))
  /\ \A t \in 1..m : \E o \in Nat :
       /\ \A i \in 1..Len(s) : s[i].index = t <=> i \in (o + 1)..(o + Len(Block(t)))
       /\ o + Len(Block(t)) <= Len(s)
       /\ \A j \in 1..Len(Block(t)) : s[o + j] = Block(t)[j]

(* The next block. *)
LEMMA NextBlock ==
  ASSUME PathInv, NEW m \in Nat, m + 1 \in Depths, NEW s \in Seq(HopRow), Blocks(s, m)
  PROVE  Blocks(s \o Block(m + 1), m + 1)
<1> DEFINE b == Block(m + 1)
           z == s \o b
<1>1. /\ b \in Seq(HopRow) /\ Len(b) \in Nat /\ Len(s) \in Nat
      /\ \A j \in 1..Len(b) : /\ b[j].index = m + 1 /\ m + 1 \in Shown
                              /\ b[j].echo => Echoed(m + 1)
  BY BlockShape
<1>2. /\ Len(z) = Len(s) + Len(b)
      /\ \A i \in 1..Len(s) : z[i] = s[i]
      /\ \A j \in 1..Len(b) : z[Len(s) + j] = b[j]
  <2> HIDE DEF b
  <2> QED BY <1>1
<1>3. ASSUME NEW i \in 1..Len(z), i \notin 1..Len(s)
      PROVE  i - Len(s) \in 1..Len(b) /\ z[i] = b[i - Len(s)]
  <2> HIDE DEF b, z
  <2>1. i - Len(s) \in 1..Len(b) /\ Len(s) + (i - Len(s)) = i
    BY <1>1, <1>2, <1>3
  <2> QED BY <1>2, <2>1
<1> HIDE DEF b, z
<1>4. ASSUME NEW i \in 1..Len(z)
      PROVE  z[i].index \in 1..(m + 1) /\ z[i].index \in Shown /\ (z[i].echo => Echoed(z[i].index))
  <2>1. CASE i \in 1..Len(s)
    <3>1. z[i] = s[i] /\ s[i].index \in 1..m
      BY <1>2, <2>1 DEF Blocks
    <3>2. s[i].index \in 1..(m + 1)
      BY <3>1
    <3> QED BY <2>1, <3>1, <3>2 DEF Blocks
  <2>2. CASE i \notin 1..Len(s)
    <3>1. z[i] = b[i - Len(s)] /\ i - Len(s) \in 1..Len(b)
      BY <1>3, <2>2
    <3>2. z[i].index = m + 1 /\ m + 1 \in Shown /\ (z[i].echo => Echoed(m + 1))
      BY <1>1, <3>1
    <3>3. m + 1 \in 1..(m + 1)
      OBVIOUS
    <3> QED BY <3>2, <3>3
  <2> QED BY <2>1, <2>2
<1>5. ASSUME NEW t \in 1..(m + 1)
      PROVE  \E o \in Nat :
               /\ \A i \in 1..Len(z) : z[i].index = t <=> i \in (o + 1)..(o + Len(Block(t)))
               /\ o + Len(Block(t)) <= Len(z)
               /\ \A j \in 1..Len(Block(t)) : z[o + j] = Block(t)[j]
  <2>1. CASE t \in 1..m
    <3>1. PICK o \in Nat :
            /\ \A i \in 1..Len(s) : s[i].index = t <=> i \in (o + 1)..(o + Len(Block(t)))
            /\ o + Len(Block(t)) <= Len(s)
            /\ \A j \in 1..Len(Block(t)) : s[o + j] = Block(t)[j]
      BY <2>1 DEF Blocks
    <3>2. t \in Depths
      BY <2>1, BatchAssumption DEF Depths
    <3>3. Len(Block(t)) \in Nat
      BY <3>2, BlockShape
    <3>4. ASSUME NEW i \in 1..Len(z)
          PROVE  z[i].index = t <=> i \in (o + 1)..(o + Len(Block(t)))
      <4>1. CASE i \in 1..Len(s)
        BY <1>2, <3>1, <4>1
      <4>2. CASE i \notin 1..Len(s)
        <5>1. z[i].index = m + 1
          BY <1>1, <1>3, <4>2
        <5>2. t # m + 1
          BY <2>1
        <5>3. i \notin (o + 1)..(o + Len(Block(t)))
          BY <1>1, <1>2, <3>1, <3>3, <4>2
        <5> QED BY <5>1, <5>2, <5>3
      <4> QED BY <4>1, <4>2
    <3>5. o + Len(Block(t)) <= Len(z)
      BY <1>1, <1>2, <3>1, <3>3
    <3>6. ASSUME NEW j \in 1..Len(Block(t)) PROVE z[o + j] = Block(t)[j]
      <4>1. o + j \in 1..Len(s)
        BY <1>1, <3>1, <3>3
      <4> QED BY <1>2, <3>1, <4>1
    <3> QED BY <3>4, <3>5, <3>6
  <2>2. CASE t = m + 1
    <3>1. Block(t) = b
      BY <2>2 DEF b
    <3>2. ASSUME NEW i \in 1..Len(z)
          PROVE  z[i].index = t <=> i \in (Len(s) + 1)..(Len(s) + Len(b))
      <4>1. CASE i \in 1..Len(s)
        <5>1. s[i].index \in 1..m /\ z[i] = s[i]
          BY <1>2, <4>1 DEF Blocks
        <5>2. z[i].index # t
          BY <2>2, <5>1
        <5> QED BY <1>1, <4>1, <5>2
      <4>2. CASE i \notin 1..Len(s)
        <5>1. z[i].index = t
          BY <1>1, <1>3, <2>2, <4>2
        <5>2. i \in (Len(s) + 1)..(Len(s) + Len(b))
          BY <1>1, <1>2, <4>2
        <5> QED BY <5>1, <5>2
      <4> QED BY <4>1, <4>2
    <3>3. Len(s) + Len(b) <= Len(z)
      BY <1>1, <1>2
    <3> QED BY <1>1, <1>2, <3>1, <3>2, <3>3
  <2>3. t \in 1..m \/ t = m + 1
    OBVIOUS
  <2> QED BY <2>1, <2>2, <2>3
<1>6. Blocks(z, m + 1)
  BY <1>4, <1>5 DEF Blocks
<1> QED BY <1>6 DEF z, b

(* The hop rows are a block for each TTL. *)
LEMMA HopsInBlocks == ASSUME PathInv PROVE Hops \in Seq(HopRow) /\ Blocks(Hops, WalkDepth)
<1>0. WalkDepth \in Nat
  BY BatchAssumption
<1>1. PICK f : /\ Hops = f[WalkDepth] /\ f \in [0..WalkDepth -> Seq(HopRow)] /\ f[0] = <<>>
               /\ \A t \in Depths : f[t] = f[t - 1] \o Block(t)
  BY HopsUnfold
<1> DEFINE S == {t \in 0..WalkDepth : Blocks(f[t], t)}
<1>2. 0 \in S
  <2>1. Blocks(<<>>, 0)
    BY DEF Blocks
  <2> QED BY <1>0, <1>1, <2>1
<1>3. ASSUME NEW t \in 0..(WalkDepth - 1), t \in S PROVE t + 1 \in S
  <2>1. t + 1 \in Depths /\ t + 1 \in 0..WalkDepth /\ t + 1 - 1 = t /\ t \in Nat
    BY <1>0 DEF Depths
  <2>2. PICK u \in Depths : u = t + 1 /\ u - 1 = t
    BY <2>1
  <2>3. f[t + 1] = f[t] \o Block(t + 1)
    BY <1>1, <2>2
  <2>4. f[t] \in Seq(HopRow) /\ Blocks(f[t], t)
    BY <1>1, <1>3
  <2>5. Blocks(f[t + 1], t + 1)
    BY <2>1, <2>3, <2>4, NextBlock
  <2> QED BY <2>1, <2>5
<1>4. \A t \in 0..WalkDepth : t \in S
  <2> HIDE DEF S
  <2> QED BY <1>0, <1>2, <1>3, UpToInduction
<1>5. WalkDepth \in 0..WalkDepth
  BY <1>0
<1> QED BY <1>1, <1>4, <1>5

(* The shares of a block are those of the rows it is made of. *)
LEMMA SharesOfBlock ==
  ASSUME NEW h, NEW b, NEW o \in Nat, Len(b) \in Nat, IsFiniteSet(Shares(b)),
         \A j \in 1..Len(b) : h[o + j] = b[j]
  PROVE  /\ IsFiniteSet(SharesIn(h, (o + 1)..(o + Len(b))))
         /\ Cardinality(SharesIn(h, (o + 1)..(o + Len(b)))) = Cardinality(Shares(b))
<1> DEFINE R == (o + 1)..(o + Len(b))
           T == SharesIn(h, R)
           f == [p \in Shares(b) |-> <<o + p[1], p[2]>>]
<1>1. \A p : p \in Shares(b) <=> \E j \in 1..Len(b) : \E k \in 0..(b[j].sent - 1) : p = <<j, k>>
  BY SMTT(30) DEF Shares
<1>2. ASSUME NEW p
      PROVE  p \in T <=> \E i \in R : \E k \in 0..(h[i].sent - 1) : p = <<i, k>>
  <2> HIDE DEF R
  <2> QED BY ShareOf
<1> HIDE DEF T
<1>3. ASSUME NEW p \in Shares(b) PROVE f[p] \in T
  <2>1. PICK j \in 1..Len(b) : \E k \in 0..(b[j].sent - 1) : p = <<j, k>>
    BY <1>1
  <2>2. PICK k \in 0..(b[j].sent - 1) : p = <<j, k>>
    BY <2>1
  <2>3. o + j \in (o + 1)..(o + Len(b)) /\ h[o + j] = b[j] /\ f[p] = <<o + j, k>>
    BY <2>2
  <2> HIDE DEF f
  <2> QED BY <1>2, <2>2, <2>3
<1>4. ASSUME NEW p \in Shares(b), NEW q \in Shares(b), f[p] = f[q] PROVE p = q
  <2>1. PICK j \in 1..Len(b) : \E k \in 0..(b[j].sent - 1) : p = <<j, k>>
    BY <1>1
  <2>2. PICK l \in 1..Len(b) : \E k \in 0..(b[l].sent - 1) : q = <<l, k>>
    BY <1>1
  <2>3. o + j = o + l
    BY <1>4, <2>1, <2>2
  <2>4. j = l
    BY <2>3
  <2> QED BY <1>4, <2>1, <2>2, <2>4
<1>5. ASSUME NEW q \in T PROVE \E p \in Shares(b) : f[p] = q
  <2>1. PICK i \in R : \E k \in 0..(h[i].sent - 1) : q = <<i, k>>
    BY <1>2
  <2>2. PICK k \in 0..(h[i].sent - 1) : q = <<i, k>>
    BY <2>1
  <2>3. i - o \in 1..Len(b) /\ o + (i - o) = i
    BY <2>1
  <2>4. h[i] = b[i - o]
    BY <2>3
  <2>5. <<i - o, k>> \in Shares(b)
    BY <1>1, <2>2, <2>3, <2>4
  <2>6. f[<<i - o, k>>] = q
    BY <2>2, <2>3, <2>5
  <2> QED BY <2>5, <2>6
<1>6. f \in Bijection(Shares(b), T)
  <2>1. f \in [Shares(b) -> T]
    BY <1>3
  <2> HIDE DEF f
  <2> QED BY <1>4, <1>5, <2>1 DEF Bijection, Injection, Surjection, IsInjective
<1> HIDE DEF f
<1>7. IsFiniteSet(T) /\ Cardinality(T) = Cardinality(Shares(b))
  BY <1>6, FS_Bijection DEF ExistsBijection
<1> QED BY <1>7 DEF T

(* The path in the sinks is one the probes took. *)
LEMMA RecordedPathIsReal == PathInv /\ LoopIInv => PathIsReal
<1> DEFINE Adds(t) == MapThenSumSet(LAMBDA i : cycle.hops[i].sent, RowsAt(t))
                         = Cardinality({r \in Rounds : last[r] >= t})
<1> SUFFICES ASSUME PathInv, LoopIInv, loop = "sinks" PROVE
      /\ ~misled
      /\ Cardinality(EchoedTTLs) <= 1
      /\ \A t \in EchoedTTLs, i \in DOMAIN cycle.hops : cycle.hops[i].index <= t
      /\ \A t \in Depths : RowsAt(t) # {} => Adds(t)
  BY DEF PathIsReal
<1> HIDE DEF Adds
<1>1. ~misled
  BY DEF LoopIInv, WalkInv
<1>2. cycle.hops = <<>> \/ (cycle.hops = Hops /\ walk = "done")
  <2>1. \/ cycle = NoCycle \/ cycle = [NoCycle EXCEPT !.sent = Pings, !.lost = Pings]
        \/ cycle = [sent |-> sent, lost |-> lost, rtts |-> rtts, hops |-> IF walk = "done" THEN Hops ELSE <<>>]
    BY DEF LoopIInv, CycleIsResult
  <2>2. NoCycle.hops = <<>> /\ [NoCycle EXCEPT !.sent = Pings, !.lost = Pings].hops = <<>>
    BY DEF NoCycle
  <2>3. CASE cycle = [sent |-> sent, lost |-> lost, rtts |-> rtts,
                      hops |-> IF walk = "done" THEN Hops ELSE <<>>]
    <3>1. cycle.hops = IF walk = "done" THEN Hops ELSE <<>>
      BY <2>3
    <3> QED BY <3>1
  <2> QED BY <2>1, <2>2, <2>3
<1>3. CASE cycle.hops = <<>>
  <2>1. EchoedTTLs = {} /\ DOMAIN cycle.hops = {}
    BY <1>3 DEF EchoedTTLs
  <2>2. \A t \in Depths : RowsAt(t) = {}
    BY <1>3 DEF RowsAt
  <2>3. Cardinality(EchoedTTLs) <= 1
    BY <2>1, FS_EmptySet
  <2> QED BY <1>1, <2>1, <2>2, <2>3
<1>4. CASE cycle.hops = Hops /\ walk = "done"
  <2>1. /\ Hops \in Seq(HopRow) /\ Blocks(Hops, WalkDepth) /\ Len(Hops) \in Nat
        /\ DOMAIN Hops = 1..Len(Hops)
    BY HopsInBlocks
  <2>2. ASSUME NEW t \in EchoedTTLs PROVE t \in Depths /\ t \in Shown /\ Echoed(t)
    <3>1. PICK i \in DOMAIN Hops : Hops[i].echo /\ Hops[i].index = t
      BY <1>4 DEF EchoedTTLs
    <3> QED BY <2>1, <3>1 DEF Blocks, Depths
  <2>3. ASSUME NEW t \in EchoedTTLs, NEW u \in Shown PROVE u <= t
    <3>1. t \in Nat /\ t >= 1 /\ u \in Nat /\ \A v \in 1..(u - 1) : ~Echoed(v)
      BY <2>2 DEF Shown, Depths
    <3>2. CASE u > t
      <4>1. t \in 1..(u - 1)
        BY <3>1, <3>2
      <4> QED BY <2>2, <3>1, <4>1
    <3> QED BY <3>1, <3>2
  <2>4. \A t \in EchoedTTLs, i \in DOMAIN cycle.hops : cycle.hops[i].index <= t
    BY <1>4, <2>1, <2>3 DEF Blocks
  <2>5. Cardinality(EchoedTTLs) <= 1
    <3>1. CASE EchoedTTLs = {}
      BY <3>1, FS_EmptySet
    <3>2. CASE EchoedTTLs # {}
      <4>1. PICK t : t \in EchoedTTLs
        BY <3>2
      <4>2. ASSUME NEW u \in EchoedTTLs PROVE u = t
        <5>1. u <= t /\ t <= u /\ t \in Nat /\ u \in Nat
          BY <2>2, <2>3, <4>1 DEF Depths
        <5> QED BY <5>1
      <4>3. EchoedTTLs = {t}
        BY <4>1, <4>2
      <4>4. Cardinality({t}) = 1
        BY FS_Singleton
      <4> QED BY <4>3, <4>4
    <3> QED BY <3>1, <3>2
  <2>6. ASSUME NEW t \in Depths, RowsAt(t) # {} PROVE Adds(t)
    <3>1. PICK o \in Nat :
            /\ \A i \in 1..Len(Hops) : Hops[i].index = t <=> i \in (o + 1)..(o + Len(Block(t)))
            /\ o + Len(Block(t)) <= Len(Hops)
            /\ \A j \in 1..Len(Block(t)) : Hops[o + j] = Block(t)[j]
      BY <2>1 DEF Blocks, Depths
    <3>2. Len(Block(t)) \in Nat
      BY BlockShape
    <3>3. RowsAt(t) = (o + 1)..(o + Len(Block(t)))
      BY <1>4, <2>1, <3>1, <3>2 DEF RowsAt
    <3>4. t \in Shown
      <4>1. PICK i \in DOMAIN Hops : Hops[i].index = t
        BY <1>4, <2>6 DEF RowsAt
      <4> QED BY <2>1, <4>1 DEF Blocks
    <3>5. Block(t) = HopsOf(seen[t], t)
      BY <3>4 DEF Block, HopsAt, HopsOf
    <3>6. IsFiniteSet(Shares(Block(t))) /\ Cardinality(Shares(Block(t))) = Cardinality(StepsAt(t))
      <4>1. StepsBooked(t) /\ InTheAir(t) = 0
        BY <1>4 DEF PathInv, InTheAir
      <4>2. Cardinality(Shares(Block(t))) \in Nat
        BY <3>5, <4>1, FS_CardinalityType DEF StepsBooked
      <4> QED BY <3>5, <4>1, <4>2 DEF StepsBooked
    <3>7. /\ IsFiniteSet(SharesIn(Hops, RowsAt(t)))
          /\ Cardinality(SharesIn(Hops, RowsAt(t))) = Cardinality(StepsAt(t))
      BY <3>1, <3>2, <3>3, <3>6, SharesOfBlock
    <3>8. IsFiniteSet(RowsAt(t))
      BY <3>2, <3>3, FS_Interval
    <3>9. \A i \in RowsAt(t) : Hops[i].sent \in Nat
      <4>1. \A i \in 1..Len(Hops) : Hops[i] \in HopRow
        BY <2>1, ElementOfSeq
      <4>2. RowsAt(t) \in SUBSET (1..Len(Hops))
        BY <1>4, <2>1 DEF RowsAt
      <4> QED BY <4>1, <4>2 DEF HopRow
    <3>10. (CHOOSE it : SumIs(it, Hops, RowsAt(t)))[RowsAt(t)] = Cardinality(StepsAt(t))
      BY <3>7, <3>8, <3>9, SumCountsShares
    <3>11. MapThenSumSet(LAMBDA i : cycle.hops[i].sent, RowsAt(t))
             = (CHOOSE it : SumIs(it, cycle.hops, RowsAt(t)))[RowsAt(t)]
      BY Zenon DEF MapThenSumSet, MapThenFoldSet, SumIs
    <3> QED BY <1>4, <3>10, <3>11 DEF StepsAt, Adds
  <2> QED BY <1>1, <2>4, <2>5, <2>6
<1> QED BY <1>2, <1>3, <1>4

(* For any route, any answers and any walk the path of a record is one the    *)
(* probes took: every row answers a step of its TTL, the target closes it at  *)
(* one TTL, and the rows of a TTL add up to the steps made there.             *)
THEOREM PathIsTaken == LoopSpec => []PathIsReal
<1>1. LoopSpec => []LoopIInv
  BY InitLoop, LoopKeeps, PTL DEF LoopSpec
<1> QED BY <1>1, PathAccount, RecordedPathIsReal, PTL

-----------------------------------------------------------------------------
(* The grids of the query windows.                                            *)

(* A window of at most k widths is cut into at most one slot more, wherever   *)
(* it begins.                                                                 *)
LEMMA SlotsWithin ==
  ASSUME NEW step \in Nat \ {0}, NEW k \in Nat, NEW span \in Nat, span <= step * k,
         NEW from \in Nat
  PROVE  SlotsOf(from, from + span, step) <= k + 1
<1> DEFINE q == from \div step
           p == (from + span - 1) \div step
<1>1. q \in Int /\ from < step * q + step
  BY QuotientIs
<1>2. from + span - 1 < step * (q + 1 + k)
  <2>1. step * (q + 1 + k) = step * q + step + step * k
    BY <1>1
  <2>2. step * q \in Int /\ step * k \in Int
    BY <1>1
  <2> HIDE DEF q
  <2> QED BY <1>1, <2>1, <2>2
<1>3. p \in Int /\ p < q + 1 + k
  <2>1. from + span - 1 \in Int /\ q + 1 + k \in Int
    BY <1>1
  <2> HIDE DEF q
  <2> QED BY <1>2, <2>1, QuotientBelow, QuotientIs
<1> HIDE DEF p, q
<1>4. p - q + 1 <= k + 1
  BY <1>1, <1>3
<1> QED BY <1>4 DEF SlotsOf, p, q
(* The widths in seconds. *)
LEMMA Widths ==
  /\ Second \in Nat \ {0}
  /\ Minute = 60 * Second /\ Hour = 3600 * Second /\ Day = 86400 * Second
  /\ MaxHopGridSlots = 673 /\ MinHopStep = 11 * Second
<1>1. Second \in Nat \ {0}
  BY SecondAssumption
<1>2. Minute = 60 * Second /\ Hour = 3600 * Second /\ Day = 86400 * Second
  BY <1>1 DEF Minute, Hour, Day
<1>3. MaxHopGridSlots = 673
  <2>1. MaxHopTimelineWindow = 672 * (15 * Minute) /\ 15 * Minute \in Nat \ {0}
    BY <1>1, <1>2 DEF MaxHopTimelineWindow
  <2>2. MaxHopTimelineWindow \div (15 * Minute) = 672
    BY <2>1, QuotientOfMultiple
  <2> QED BY <2>2 DEF MaxHopGridSlots
<1>4. FinestHopTierSpan = 7200 * Second
  BY <1>1, <1>2 DEF FinestHopTierSpan
<1>5. FinestHopTierSpan \div Second = 7200
  BY <1>1, <1>4, QuotientOfMultiple
<1>6. MinHopStep = 11 * Second
  <2>1. (7200 + 673 - 2) \div (673 - 1) = 11
    OBVIOUS
  <2> QED BY <1>3, <1>5, <2>1 DEF MinHopStep
<1> QED BY <1>1, <1>2, <1>3, <1>6

(* The step of a hop query is whole seconds, no finer than the probing        *)
(* interval nor than its tier.                                                *)
LEMMA HopStepFacts ==
  ASSUME NEW span \in Nat, NEW interval \in Nat \ {0}, HopWindowServed(span)
  PROVE  LET step == PickHopStep(span, interval)
         IN  /\ step \in Nat \ {0} /\ step >= interval /\ step % Second = 0
             /\ span <= step * 672
<1> DEFINE tier == CASE span <= FinestHopTierSpan -> MinHopStep
                     [] span > FinestHopTierSpan /\ span <= Day -> 5 * Minute
                     [] OTHER -> 15 * Minute
           step == PickHopStep(span, interval)
<1>1. /\ Second \in Nat \ {0} /\ FinestHopTierSpan = 7200 * Second /\ Day = 86400 * Second
      /\ span <= 604800 * Second /\ Minute = 60 * Second /\ MinHopStep = 11 * Second
  BY Widths DEF HopWindowServed, MaxHopTimelineWindow, FinestHopTierSpan
<1>2. PICK m \in {11, 300, 900} : tier = m * Second /\ span <= (m * Second) * 672
  <2>1. CASE span <= FinestHopTierSpan
    <3>1. tier = 11 * Second /\ span <= (11 * Second) * 672
      BY <1>1, <2>1
    <3> HIDE DEF tier
    <3> QED BY <3>1
  <2>2. CASE span > FinestHopTierSpan /\ span <= Day
    <3>1. tier = 300 * Second /\ span <= (300 * Second) * 672
      BY <1>1, <2>2
    <3> HIDE DEF tier
    <3> QED BY <3>1
  <2>3. CASE span > Day
    <3>1. tier = 900 * Second /\ span <= (900 * Second) * 672
      BY <1>1, <2>3
    <3> HIDE DEF tier
    <3> QED BY <3>1
  <2> HIDE DEF tier
  <2> QED BY <1>1, <2>1, <2>2, <2>3
<1>3. step = IF interval > tier THEN WholeSecondsUp(interval) ELSE tier
  BY DEF PickHopStep
<1> HIDE DEF tier, step
<1>4. tier \in Nat \ {0} /\ tier % Second = 0 /\ span <= tier * 672
  BY <1>1, <1>2, QuotientOfMultiple
<1>5. WholeSecondsUp(interval) \in Nat /\ WholeSecondsUp(interval) >= interval
      /\ WholeSecondsUp(interval) % Second = 0
  <2> DEFINE q == (interval + Second - 1) \div Second
  <2>1. q \in Int /\ interval + Second - 1 < Second * q + Second
    BY <1>1, QuotientIs
  <2> HIDE DEF q
  <2>2. q * Second >= interval /\ q * Second \in Nat
    BY <1>1, <2>1
  <2>3. (q * Second) % Second = 0
    BY <1>1, <2>1, QuotientOfMultiple
  <2> QED BY <2>2, <2>3 DEF WholeSecondsUp, q
<1>6. step \in Nat \ {0} /\ step >= interval /\ step >= tier /\ step % Second = 0
  BY <1>3, <1>4, <1>5
<1>7. span <= step * 672
  BY <1>4, <1>6
<1> QED BY <1>6, <1>7 DEF step

(* Whatever is asked for, the hop grid fits, from wherever it begins.         *)
LEMMA HopGridsFit ==
  ASSUME NEW spans \in SUBSET Nat, NEW intervals \in SUBSET (Nat \ {0})
  PROVE  HopGridFits(spans, intervals)
<1>1. SUFFICES ASSUME NEW span \in spans, HopWindowServed(span), NEW interval \in intervals
               PROVE  LET step == PickHopStep(span, interval)
                      IN  /\ step % Second = 0 /\ step >= interval /\ step > 0
                          /\ \A from \in {0, 1, step \div 2, step - 1} :
                               SlotsOf(from, from + span, step) <= MaxHopGridSlots
  BY DEF HopGridFits
<1> DEFINE step == PickHopStep(span, interval)
<1>2. step \in Nat \ {0} /\ step >= interval /\ step % Second = 0 /\ span <= step * 672
  BY <1>1, HopStepFacts
<1> HIDE DEF step
<1>3. ASSUME NEW from \in Nat PROVE SlotsOf(from, from + span, step) <= MaxHopGridSlots
  <2> DEFINE most == 672
  <2>1. most \in Nat /\ span \in Nat /\ span <= step * most
    BY <1>2
  <2>2. MaxHopGridSlots = most + 1
    BY Widths
  <2> HIDE DEF most
  <2> QED BY <1>2, <2>1, <2>2, SlotsWithin
<1>4. {0, 1, step \div 2, step - 1} \subseteq Nat
  <2>1. step \div 2 \in Int /\ 0 <= step \div 2
    BY <1>2, QuotientFrom, QuotientIs
  <2> QED BY <1>2, <2>1
<1>5. step > 0
  BY <1>2
<1> QED BY <1>2, <1>3, <1>4, <1>5 DEF step
(* The ladder's step, and that it leaves a window of a thousand days no more  *)
(* slots than an override may have.                                           *)
LEMMA LadderFacts ==
  ASSUME NEW span \in Nat
  PROVE  LET own == PickCycleStep(span)
         IN  /\ own \in Nat
             /\ own = 0 => span <= 2 * Hour
             /\ own # 0 /\ span <= 1000 * Day => span < own * 1001
             /\ span > 1000 * Day => own = Day
<1> DEFINE own == PickCycleStep(span)
<1>1. /\ Second \in Nat \ {0} /\ Minute = 60 * Second /\ Hour = 3600 * Second
      /\ Day = 86400 * Second
  BY Widths
<1>2. \/ span <= 2 * Hour /\ own = 0
      \/ span > 2 * Hour /\ span <= Day /\ own = 2 * Minute
      \/ span > Day /\ span <= 7 * Day /\ own = 15 * Minute
      \/ span > 7 * Day /\ span <= 30 * Day /\ own = Hour
      \/ span > 30 * Day /\ span <= 180 * Day /\ own = 6 * Hour
      \/ span > 180 * Day /\ own = Day
  BY <1>1 DEF PickCycleStep
<1> HIDE DEF own
<1>3. own \in Nat /\ (own = 0 => span <= 2 * Hour) /\ (span > 1000 * Day => own = Day)
  BY <1>1, <1>2
<1>4. ASSUME own # 0, span <= 1000 * Day PROVE span < own * 1001
  BY <1>1, <1>2, <1>4
<1> QED BY <1>3, <1>4 DEF own

(* A window of a thousand days at most that an override is accepted for is    *)
(* less than a thousand and one of its widths; a longer one is not accepted   *)
(* for a finer width than the ladder's.                                       *)
LEMMA OverrideFacts ==
  ASSUME NEW span \in Nat, NEW step \in Nat \ {0}, WithinOverrideBuckets(step, span),
         step \in {Hour, Day}
  PROVE  /\ span <= 1000 * Day => span < step * 1001
         /\ span > 1000 * Day => step = Day
<1> DEFINE own == PickCycleStep(span)
<1>1. /\ own \in Nat /\ (own = 0 => span <= 2 * Hour)
      /\ own # 0 /\ span <= 1000 * Day => span < own * 1001
      /\ span > 1000 * Day => own = Day
  BY LadderFacts
<1>2. span \div step <= (IF own = 0 THEN 1000 ELSE Larger(1000, span \div own))
  BY DEF WithinOverrideBuckets, MaxOverrideBuckets
<1>3. Second \in Nat \ {0} /\ Hour = 3600 * Second /\ Day = 86400 * Second
  BY Widths
<1> HIDE DEF own
<1>4. span \div step \in Int /\ span < step * (span \div step) + step
  BY QuotientIs
<1>5. ASSUME span <= 1000 * Day PROVE span < step * 1001
  <2>1. own # 0 => span \div own < 1001
    <3> SUFFICES ASSUME own # 0 PROVE span \div own < 1001
      OBVIOUS
    <3> DEFINE most == 1001
    <3>1. most \in Int /\ own \in Nat \ {0} /\ span < own * most
      BY <1>1, <1>5
    <3> HIDE DEF most
    <3>2. span \div own < most
      BY <3>1, QuotientBelow
    <3> QED BY <3>2 DEF most
  <2>2. own # 0 => span \div own \in Int
    BY <1>1, QuotientIs
  <2>3. span \div step <= 1000
    BY <1>2, <1>4, <2>1, <2>2 DEF Larger
  <2> DEFINE q == span \div step
  <2>4. q \in Int /\ q <= 1000 /\ span < step * q + step
    BY <1>4, <2>3
  <2> HIDE DEF q
  <2>5. step * q <= step * 1000
    BY <2>4
  <2>6. step * q \in Int
    BY <2>4
  <2> QED BY <2>4, <2>5, <2>6
<1>6. ASSUME span > 1000 * Day, step = Hour PROVE FALSE
  <2> DEFINE d == span \div Day
             h == span \div Hour
  <2>1. own = Day /\ Day \in Nat \ {0} /\ Hour \in Nat \ {0} /\ Day = 24 * Hour
    BY <1>1, <1>3, <1>6
  <2>2. d \in Int /\ Day * d <= span /\ 1000 <= d
    <3> DEFINE most == 1000
    <3>1. most \in Int /\ Day * most <= span
      BY <1>6, <2>1
    <3> HIDE DEF most
    <3>2. most <= d
      BY <2>1, <3>1, QuotientFrom
    <3>3. d \in Int /\ Day * d <= span
      BY <2>1, QuotientIs
    <3> HIDE DEF d
    <3> QED BY <3>2, <3>3 DEF most
  <2>3. 24 * d <= h
    <3>1. Hour * (24 * d) <= span /\ 24 * d \in Int
      <4> HIDE DEF d
      <4> QED BY <2>1, <2>2
    <3> DEFINE k == 24 * d
    <3> HIDE DEF d, k
    <3>2. Hour * k <= span /\ k \in Int
      BY <3>1 DEF k
    <3>3. k <= span \div Hour
      BY <2>1, <3>2, QuotientFrom
    <3> QED BY <3>3 DEF k
  <2>4. h \in Int /\ h <= (IF own = 0 THEN 1000 ELSE Larger(1000, span \div own))
    BY <1>2, <1>6, <2>1, QuotientIs
  <2>5. h <= Larger(1000, d)
    BY <2>1, <2>4
  <2> HIDE DEF d, h
  <2> QED BY <2>2, <2>3, <2>4, <2>5 DEF Larger
<1> QED BY <1>5, <1>6

(* Of a window of k widths at most, the widest cut is k and two slots.        *)
LEMMA ServedSlots ==
  ASSUME NEW span \in Nat, NEW step \in Nat \ {0}, span < step * 1001
  PROVE  SlotsOf(step - 1, step - 1 + span, step) <= MaxOverrideBuckets + 2
<1> DEFINE most == 1001
           from == step - 1
<1>1. most \in Nat /\ span <= step * most /\ from \in Nat
  OBVIOUS
<1>2. MaxOverrideBuckets + 2 = most + 1
  BY DEF MaxOverrideBuckets
<1> HIDE DEF most, from
<1>3. SlotsOf(from, from + span, step) <= most + 1
  BY <1>1, SlotsWithin
<1> QED BY <1>2, <1>3 DEF from

(* What is served: raw rows, an override, or the ladder's step. *)
LEMMA PickFacts ==
  ASSUME NEW span \in Nat, NEW override \in Overrides
  PROVE  LET pick == PickStep(override, span)
             own == PickCycleStep(span)
         IN  /\ pick.ok /\ pick.step = 0 => span <= 2 * Hour
             /\ pick.ok /\ pick.step # 0 /\ span <= MaxOverrideBuckets * Day =>
                  SlotsOf(pick.step - 1, pick.step - 1 + span, pick.step) <= MaxOverrideBuckets + 2
             /\ pick.ok /\ pick.step # 0 /\ own # 0 /\ span > MaxOverrideBuckets * Day =>
                  pick.step >= own
             /\ pick.step = own => pick.ok
<1> DEFINE pick == PickStep(override, span)
           own == PickCycleStep(span)
<1>1. /\ own \in Nat /\ (own = 0 => span <= 2 * Hour)
      /\ own # 0 /\ span <= 1000 * Day => span < own * 1001
      /\ span > 1000 * Day => own = Day
  BY LadderFacts
<1>2. \/ pick = [step |-> 0, ok |-> own = 0]
      \/ pick = [step |-> Hour, ok |-> WithinOverrideBuckets(Hour, span)]
      \/ pick = [step |-> Day, ok |-> WithinOverrideBuckets(Day, span)]
      \/ pick = [step |-> own, ok |-> TRUE]
  BY DEF PickStep, Overrides
<1>3. Hour \in Nat \ {0} /\ Day \in Nat \ {0} /\ Hour < Day
  BY Widths
<1> HIDE DEF pick, own
<1>4. CASE pick = [step |-> 0, ok |-> own = 0]
  <2>1. pick.step = 0 /\ pick.ok = (own = 0)
    BY <1>4
  <2>2. own = 0 => span <= 2 * Hour
    BY <1>1
  <2>3. pick.ok <=> own = 0
    BY <2>1
  <2>4. /\ pick.ok => span <= 2 * Hour
        /\ pick.step = own => pick.ok
    BY <2>1, <2>2, <2>3
  <2> QED BY <2>1, <2>4 DEF own, pick
<1>5. CASE pick = [step |-> own, ok |-> TRUE]
  <2>1. pick.step = own /\ pick.ok = TRUE
    BY <1>5
  <2>2. own # 0 /\ span <= 1000 * Day =>
          SlotsOf(own - 1, own - 1 + span, own) <= MaxOverrideBuckets + 2
    BY <1>1, ServedSlots
  <2>3. own >= own
    BY <1>1
  <2> QED BY <1>1, <2>1, <2>2, <2>3 DEF own, pick, MaxOverrideBuckets
<1>6. ASSUME NEW step \in {Hour, Day},
             pick = [step |-> step, ok |-> WithinOverrideBuckets(step, span)]
      PROVE  /\ pick.step # 0 /\ pick.ok = WithinOverrideBuckets(step, span) /\ pick.step = step
             /\ pick.ok /\ span <= 1000 * Day =>
                  SlotsOf(step - 1, step - 1 + span, step) <= MaxOverrideBuckets + 2
             /\ pick.ok /\ span > 1000 * Day => step >= own
             /\ step = own => WithinOverrideBuckets(step, span)
  <2>1. pick.step = step /\ pick.ok = WithinOverrideBuckets(step, span) /\ step \in Nat \ {0}
    BY <1>3, <1>6
  <2>2. ASSUME pick.ok PROVE /\ span <= 1000 * Day => span < step * 1001
                             /\ span > 1000 * Day => step = Day
    <3>1. WithinOverrideBuckets(step, span)
      BY <2>1, <2>2, Zenon
    <3> QED BY <2>1, <3>1, OverrideFacts
  <2>3. ASSUME pick.ok, span <= 1000 * Day
        PROVE  SlotsOf(step - 1, step - 1 + span, step) <= MaxOverrideBuckets + 2
    BY <2>1, <2>2, <2>3, ServedSlots
  <2>4. ASSUME pick.ok, span > 1000 * Day PROVE step >= own
    BY <1>1, <1>3, <2>2, <2>4
  <2>5. ASSUME step = own PROVE WithinOverrideBuckets(step, span)
    <3>1. own # 0 /\ span \div step \in Int
      BY <2>1, <2>5, QuotientIs
    <3> DEFINE q == span \div step
    <3> HIDE DEF q
    <3>2. q \in Int /\ q <= Larger(1000, q)
      BY <3>1 DEF Larger, q
    <3> QED BY <2>5, <3>1, <3>2 DEF WithinOverrideBuckets, MaxOverrideBuckets, own, q
  <2> QED BY <2>1, <2>3, <2>4, <2>5
<1>7. CASE \E step \in {Hour, Day} :
             pick = [step |-> step, ok |-> WithinOverrideBuckets(step, span)]
  <2>1. PICK step \in {Hour, Day} :
               pick = [step |-> step, ok |-> WithinOverrideBuckets(step, span)]
    BY <1>7
  <2>2. /\ pick.step # 0 /\ pick.ok = WithinOverrideBuckets(step, span) /\ pick.step = step
        /\ pick.ok /\ span <= 1000 * Day =>
             SlotsOf(step - 1, step - 1 + span, step) <= MaxOverrideBuckets + 2
        /\ pick.ok /\ span > 1000 * Day => step >= own
        /\ step = own => WithinOverrideBuckets(step, span)
    BY <1>6, <2>1
  <2> QED BY <2>2 DEF own, pick, MaxOverrideBuckets
<1> QED BY <1>2, <1>4, <1>5, <1>7

(* A wider window is not cut finer. *)
LEMMA LadderGrows ==
  ASSUME NEW a \in Nat, NEW b \in Nat, a <= b
  PROVE  PickCycleStep(a) <= PickCycleStep(b)
<1>1. /\ Second \in Nat \ {0} /\ Minute = 60 * Second /\ Hour = 3600 * Second
      /\ Day = 86400 * Second
  BY Widths
<1> DEFINE Rung(s, v) ==
      \/ s <= 2 * Hour /\ v = 0
      \/ s > 2 * Hour /\ s <= Day /\ v = 2 * Minute
      \/ s > Day /\ s <= 7 * Day /\ v = 15 * Minute
      \/ s > 7 * Day /\ s <= 30 * Day /\ v = Hour
      \/ s > 30 * Day /\ s <= 180 * Day /\ v = 6 * Hour
      \/ s > 180 * Day /\ v = Day
<1>2. ASSUME NEW s \in Nat PROVE Rung(s, PickCycleStep(s))
  BY <1>1 DEF PickCycleStep
<1>3. ASSUME NEW v, NEW w, Rung(a, v), Rung(b, w) PROVE v <= w
  BY <1>1, <1>3
<1> HIDE DEF Rung
<1> QED BY <1>2, <1>3

(* Whatever is asked for, the cycle grid fits. *)
LEMMA CycleGridsFit ==
  ASSUME NEW spans \in SUBSET Nat
  PROVE  CycleGridFits(spans)
<1>1. \A span \in spans, override \in Overrides :
        LET pick == PickStep(override, span)
            own == PickCycleStep(span)
        IN  /\ pick.ok /\ pick.step = 0 => span <= 2 * Hour
            /\ pick.ok /\ pick.step # 0 /\ span <= MaxOverrideBuckets * Day =>
                 SlotsOf(pick.step - 1, pick.step - 1 + span, pick.step) <= MaxOverrideBuckets + 2
            /\ pick.ok /\ pick.step # 0 /\ own # 0 /\ span > MaxOverrideBuckets * Day =>
                 pick.step >= own
            /\ pick.step = own => pick.ok
  BY PickFacts
<1>2. \A a, b \in spans : a <= b => PickCycleStep(a) <= PickCycleStep(b)
  BY LadderGrows
<1> QED BY <1>1, <1>2, Zenon DEF CycleGridFits

(* No window, interval or override whatsoever is served with more slots than  *)
(* the row caps count on, or with slots finer than what fills them.           *)
THEOREM GridsAreBounded == LoopSpec => []GridsFit
<1>1. Spans \in SUBSET Nat /\ ScheduleIntervals \in SUBSET (Nat \ {0})
  BY GridAssumption
<1>2. HopGridFits(Spans, ScheduleIntervals) /\ CycleGridFits(Spans)
  BY <1>1, HopGridsFit, CycleGridsFit
<1>3. ASSUME NEW i \in ScheduleIntervals PROVE StatusWindow(i) <= Day
  <2>1. Day \in Nat /\ StatusRecentCycles * i \in Nat
    BY <1>1, <1>3, Widths DEF StatusRecentCycles
  <2> QED BY <2>1 DEF StatusWindow, Smaller
<1>4. GridsFit
  BY <1>2, <1>3 DEF GridsFit, EveryGridFits
<1> QED BY <1>4, PTL


-----------------------------------------------------------------------------
(* The views of the stored cycles.                                            *)

-----------------------------------------------------------------------------
(* What the writer stored: rows with an attempt. *)
Stored(table) == IsTable(table) /\ \A i \in DOMAIN table : table[i].sent > 0

(* What a row amounts to. *)
LEMMA RowMeans ==
  ASSUME NEW table, Stored(table), NEW i \in DOMAIN table
  PROVE  LET r == table[i]
         IN  /\ r \in CycleRows
             /\ EffectiveSent(r) \in Nat /\ r.lost \in Nat /\ r.lost <= EffectiveSent(r)
             /\ Weight(r) \in Nat /\ (Weight(r) > 0 <=> r.max > 0)
             /\ (r.max > 0 => r.median > 0 /\ r.lost < r.sent /\ EffectiveSent(r) = r.sent)
             /\ (r.max = 0 => EffectiveSent(r) = r.lost)
<1> DEFINE r == table[i]
<1>1. r \in CycleRows /\ r.lost <= r.sent /\ (r.max > 0 => r.lost < r.sent /\ r.median > 0)
  BY DEF Stored, IsTable
<1>2. /\ r.lost \in Nat /\ r.sent \in Nat /\ r.max \in Nat
  BY <1>1 DEF CycleRows
<1> HIDE DEF r
<1>3. EffectiveSent(r) = IF r.max = 0 THEN r.lost ELSE r.sent
  BY DEF EffectiveSent
<1>4. Weight(r) = EffectiveSent(r) - r.lost
  BY DEF Weight
<1> QED BY <1>1, <1>2, <1>3, <1>4 DEF r

(* Some rows of a table, as they were, are a table. *)
LEMMA PartOfTable ==
  ASSUME NEW table, IsTable(table), NEW P \in SUBSET (DOMAIN table)
  PROVE  LET part == Picked(table, P)
         IN  /\ IsTable(part) /\ IsFiniteSet(P) /\ Len(part) = Cardinality(P)
             /\ \E f : /\ Lists(f, table, P, {p \in P \X P : p[1] < p[2]})
                       /\ \A k \in DOMAIN part : f[k] \in P /\ part[k] = table[f[k]]
<1> DEFINE B == {p \in P \X P : p[1] < p[2]}
           part == Picked(table, P)
<1>1. table \in Seq(CycleRows) /\ OneRowPerKey(table)
  BY DEF IsTable
<1>2. part = Listed(table, P, B)
  BY DEF Picked
<1>3. IsOrder(P, B)
  <2>1. P \in SUBSET Int
    BY <1>1
  <2> QED BY <2>1, PlacesInOrder
<1> HIDE DEF B
<1>4. /\ part \in Seq(CycleRows) /\ Len(part) = Cardinality(P) /\ IsFiniteSet(P)
      /\ \E f : Lists(f, table, P, B)
  BY <1>1, <1>2, <1>3, ListedFacts
<1>5. PICK f : Lists(f, table, P, B)
  BY <1>4
<1> HIDE DEF part
<1>6. \A k \in DOMAIN part : f[k] \in P /\ part[k] = table[f[k]]
  BY <1>2, <1>4, <1>5 DEF Lists
<1>7. IsTable(part)
  <2>1. \A k \in DOMAIN part : f[k] \in DOMAIN table
    BY <1>6
  <2>2. OneRowPerKey(part)
    BY <1>1, <1>6, <2>1 DEF OneRowPerKey
  <2>3. \A k \in DOMAIN part :
          LET r == part[k]
          IN  r.lost <= r.sent /\ (r.max > 0 => r.lost < r.sent /\ r.median > 0)
    BY <1>6, <2>1 DEF IsTable
  <2> QED BY <1>4, <2>2, <2>3 DEF IsTable
<1> QED BY <1>4, <1>5, <1>6, <1>7 DEF part, B

(* The rows that get into probe_cycle. *)
LEMMA StoredCyclesFacts ==
  ASSUME NEW cycles, IsTable(cycles)
  PROVE  LET table == StoredCycles(cycles)
         IN  /\ Stored(table)
             /\ \A k \in DOMAIN table : \E i \in DOMAIN cycles : table[k] = cycles[i]
             /\ \A i \in DOMAIN cycles : cycles[i].sent > 0 => \E k \in DOMAIN table : table[k] = cycles[i]
<1> DEFINE P == {i \in DOMAIN cycles : cycles[i].sent > 0}
           table == Picked(cycles, P)
           B == {p \in P \X P : p[1] < p[2]}
<1>1. StoredCycles(cycles) = table
  BY DEF StoredCycles, Chosen
<1>2. P \in SUBSET (DOMAIN cycles)
  OBVIOUS
<1>3. /\ IsTable(table) /\ Len(table) = Cardinality(P)
      /\ \E f : /\ Lists(f, cycles, P, B)
                /\ \A k \in DOMAIN table : f[k] \in P /\ table[k] = cycles[f[k]]
  <2> HIDE DEF P
  <2> QED BY <1>2, PartOfTable
<1>4. PICK f : /\ Lists(f, cycles, P, B)
               /\ \A k \in DOMAIN table : f[k] \in P /\ table[k] = cycles[f[k]]
  BY <1>3
<1>5. DOMAIN table = 1..Cardinality(P)
  BY <1>3 DEF IsTable
<1> HIDE DEF table, B
<1>6. Stored(table)
  BY <1>3, <1>4 DEF Stored
<1>7. \A k \in DOMAIN table : \E i \in DOMAIN cycles : table[k] = cycles[i]
  BY <1>4
<1>8. ASSUME NEW i \in DOMAIN cycles, cycles[i].sent > 0 PROVE \E k \in DOMAIN table : table[k] = cycles[i]
  <2>1. i \in P
    BY <1>8
  <2>2. PICK k \in 1..Cardinality(P) : f[k] = i
    BY <1>4, <2>1 DEF Lists
  <2> QED BY <1>4, <1>5, <2>2
<1> QED BY <1>1, <1>6, <1>7, <1>8

(* f names the rows of P that the points are. *)
PointsOf(f, points, table, P) ==
  /\ f \in [1..Len(points) -> P]
  /\ \A k, l \in 1..Len(points) : f[k] = f[l] => k = l
  /\ \A i \in P : \E k \in 1..Len(points) : f[k] = i
  /\ \A k \in 1..Len(points) : points[k] = table[f[k]]
  /\ \A k, l \in 1..Len(points) : k < l => points[k].time <= points[l].time

(* The raw points are the attempted rows by time. *)
LEMMA RawFacts ==
  ASSUME NEW table, Stored(table), NEW sources, NEW from, NEW to
  PROVE  LET P == Attempted(table, sources, from, to)
             listed == RawPoints(table, sources, from, to)
         IN  /\ P \in SUBSET (DOMAIN table) /\ IsFiniteSet(P)
             /\ listed \in Seq(CycleRows) /\ Len(listed) = Cardinality(P)
             /\ \E f : PointsOf(f, listed, table, P)
<1> DEFINE P == Attempted(table, sources, from, to)
           listed == RawPoints(table, sources, from, to)
           key == [i \in DOMAIN table |-> table[i].time]
           B == ByKey(P, key)
<1>1. table \in Seq(CycleRows) /\ \A i \in DOMAIN table : table[i].time \in Nat
  <2>1. table \in Seq(CycleRows)
    BY DEF Stored, IsTable
  <2>2. \A i \in DOMAIN table : table[i] \in CycleRows
    BY <2>1
  <2>3. \A r \in CycleRows : r.time \in Nat
    BY DEF CycleRows
  <2> QED BY <2>1, <2>2, <2>3
<1>2. P \in SUBSET (DOMAIN table)
  BY DEF Attempted, Admitted
<1>3. listed = Listed(table, P, B)
  <2> DEFINE C == {p \in P \X P :
                     \/ table[p[1]].time < table[p[2]].time
                     \/ p[1] < p[2] /\ ~(table[p[2]].time < table[p[1]].time)}
  <2>1. listed = Listed(table, P, C)
    BY DEF RawPoints, Ordered
  <2>2. C = B
    <3> HIDE DEF P
    <3> QED BY <1>2 DEF ByKey
  <2> QED BY <2>1, <2>2
<1> HIDE DEF P, listed
<1>4. /\ IsOrder(P, B)
      /\ \A i, j \in P : <<i, j>> \in B <=> key[i] < key[j] \/ (key[i] = key[j] /\ i < j)
  <2>1. P \in SUBSET Int /\ \A i \in P : key[i] \in Int
    BY <1>1, <1>2
  <2> HIDE DEF key
  <2> QED BY <2>1, ByKeyIsOrder
<1>5. \A i, j \in P : <<i, j>> \in B => table[i].time <= table[j].time
  BY <1>1, <1>2, <1>4
<1> HIDE DEF B
<1>6. /\ IsFiniteSet(P) /\ listed \in Seq(CycleRows) /\ Len(listed) = Cardinality(P)
      /\ \E f : Lists(f, table, P, B)
  BY <1>1, <1>2, <1>3, <1>4, ListedFacts
<1>7. PICK f : Lists(f, table, P, B)
  BY <1>6
<1>8. \A k, l \in 1..Len(listed) : k < l => listed[k].time <= listed[l].time
  <2> SUFFICES ASSUME NEW k \in 1..Len(listed), NEW l \in 1..Len(listed), k < l
               PROVE  listed[k].time <= listed[l].time
    OBVIOUS
  <2>1. f[k] \in P /\ f[l] \in P /\ <<f[k], f[l]>> \in B
    BY <1>6, <1>7 DEF Lists
  <2>2. listed[k] = table[f[k]] /\ listed[l] = table[f[l]]
    BY <1>3, <1>6, <1>7 DEF Lists
  <2> QED BY <1>5, <2>1, <2>2
<1>9. PointsOf(f, listed, table, P)
  BY <1>3, <1>6, <1>7, <1>8 DEF PointsOf, Lists
<1> QED BY <1>2, <1>6, <1>9 DEF P, listed

(* What each row adds to the attempts and to the losses.                      *)
SentBy(table) == [i \in DOMAIN table |-> EffectiveSent(table[i])]
LostBy(table) == [i \in DOMAIN table |-> table[i].lost]

(* A point of one part of the rows, as the buckets and the timeline have it.  *)
PartPoint(table, at, g, source) ==
  [time |-> g.time, source |-> source,
   sent |-> SumFunctionOnSet(SentBy(table), at), lost |-> SumFunctionOnSet(LostBy(table), at)]

(* One for each part. *)
PartPoints(table, T, s, step) ==
  {PartPoint(table, PlacesIn(table, T, g, step), g, s) : g \in GroupsOf(table, T, step)}

(* The sums of the views, over the places of one part. *)
LEMMA PartSums ==
  ASSUME NEW table, Stored(table), NEW at \in SUBSET (DOMAIN table)
  PROVE  /\ SumOver(at, LAMBDA i : EffectiveSent(table[i])) = SumFunctionOnSet(SentBy(table), at)
         /\ SumOver(at, LAMBDA i : table[i].lost) = SumFunctionOnSet(LostBy(table), at)
         /\ IsFiniteSet(at) /\ Weights(SentBy(table), at) /\ Weights(LostBy(table), at)
<1>1. \A i \in DOMAIN table : SentBy(table)[i] \in Nat /\ LostBy(table)[i] \in Nat
  BY RowMeans DEF SentBy, LostBy
<1>2. IsFiniteSet(at)
  <2>1. DOMAIN table = 1..Len(table) /\ Len(table) \in Nat
    BY DEF Stored, IsTable
  <2>2. IsFiniteSet(1..Len(table))
    BY <2>1, FS_Interval
  <2> QED BY <2>1, <2>2, FS_Subset
<1>3. Weights(SentBy(table), at) /\ Weights(LostBy(table), at)
  BY <1>1, <1>2 DEF Weights
<1>4. SumOver(at, LAMBDA i : EffectiveSent(table[i])) = SumFunctionOnSet(SentBy(table), at)
  <2> DEFINE v == [i \in at |-> EffectiveSent(table[i])]
  <2>1. \A i \in at : v[i] = SentBy(table)[i]
    BY DEF SentBy
  <2> HIDE DEF v
  <2>2. SumFunctionOnSet(v, at) = SumFunctionOnSet(SentBy(table), at)
    BY <1>3, <2>1, SameSums
  <2> QED BY <2>2 DEF v, SumOver
<1>5. SumOver(at, LAMBDA i : table[i].lost) = SumFunctionOnSet(LostBy(table), at)
  <2> DEFINE v == [i \in at |-> table[i].lost]
  <2>1. \A i \in at : v[i] = LostBy(table)[i]
    BY DEF LostBy
  <2> HIDE DEF v
  <2>2. SumFunctionOnSet(v, at) = SumFunctionOnSet(LostBy(table), at)
    BY <1>3, <2>1, SameSums
  <2> QED BY <2>2 DEF v, SumOver
<1> QED BY <1>2, <1>3, <1>4, <1>5

(* The timeline: one point for each part of the rows, and the sum of a column *)
(* over its points is the sum over the rows.                                  *)
LEMMA TimelineFacts ==
  ASSUME NEW table, Stored(table), NEW s, NEW from, NEW to, NEW step
  PROVE  LET T == Attempted(table, {s}, from, to)
         IN  /\ TimelineLoss(table, s, from, to, step) = PartPoints(table, T, s, step)
             /\ \A g \in GroupsOf(table, T, step) : g = [time |-> g.time, source |-> s]
             /\ T \in SUBSET (DOMAIN table)
<1> DEFINE T == Attempted(table, {s}, from, to)
           at(g) == PlacesIn(table, T, g, step)
<1>1. T \in SUBSET (DOMAIN table) /\ \A i \in T : table[i].source = s
  BY DEF Attempted, Admitted
<1>2. \A g \in GroupsOf(table, T, step) : g = [time |-> g.time, source |-> s]
  BY <1>1 DEF GroupsOf
<1>3. \A g : at(g) \in SUBSET (DOMAIN table)
  BY <1>1 DEF PlacesIn
<1>4. \A g : [time |-> g.time, source |-> s,
              sent |-> SumOver(at(g), LAMBDA i : EffectiveSent(table[i])),
              lost |-> SumOver(at(g), LAMBDA i : table[i].lost)] = PartPoint(table, at(g), g, s)
  <2> HIDE DEF at
  <2> QED BY <1>3, PartSums DEF PartPoint
<1>5. TimelineLoss(table, s, from, to, step)
        = {[time |-> g.time, source |-> s,
            sent |-> SumOver(at(g), LAMBDA i : EffectiveSent(table[i])),
            lost |-> SumOver(at(g), LAMBDA i : table[i].lost)] : g \in GroupsOf(table, T, step)}
  BY DEF TimelineLoss
<1> HIDE DEF at, T
<1>6. TimelineLoss(table, s, from, to, step)
        = {PartPoint(table, at(g), g, s) : g \in GroupsOf(table, T, step)}
  BY <1>4, <1>5
<1> QED BY <1>1, <1>2, <1>6 DEF at, T, PartPoints

(* Adding up the points of a partition. *)
LEMMA PointsAddUp ==
  ASSUME NEW table, Stored(table), NEW s, NEW T \in SUBSET (DOMAIN table),
         \A i \in T : table[i].source = s, NEW step
  PROVE  LET points == PartPoints(table, T, s, step)
         IN  /\ SumFunctionOnSet([p \in points |-> p.sent], points) = SumFunctionOnSet(SentBy(table), T)
             /\ SumFunctionOnSet([p \in points |-> p.lost], points) = SumFunctionOnSet(LostBy(table), T)
<1> DEFINE at(g) == PlacesIn(table, T, g, step)
           G == GroupsOf(table, T, step)
           points == PartPoints(table, T, s, step)
           label == [i \in T |-> [time |-> Slot(table[i].time, step), source |-> table[i].source]]
           h == [g \in G |-> PartPoint(table, at(g), g, s)]
<1>0. points = {PartPoint(table, at(g), g, s) : g \in G}
  BY DEF PartPoints
<1>1. G = {label[i] : i \in T}
  BY DEF GroupsOf
<1>2. \A g \in G : g = [time |-> g.time, source |-> s]
  BY DEF GroupsOf
<1>3. \A g \in G : at(g) = {i \in T : label[i] = g}
  BY <1>2 DEF PlacesIn
<1>4. h \in [G -> points] /\ \A g, k \in G : h[g] = h[k] => g = k
  <2>1. \A g, k \in G : h[g] = h[k] => g.time = k.time
    BY DEF PartPoint
  <2>2. h \in [G -> points]
    BY <1>0
  <2> QED BY <1>2, <2>1, <2>2
<1>5. \A p \in points : \E g \in G : h[g] = p
  BY <1>0
<1>6. ASSUME NEW w, Weights(w, T), NEW u,
             \A g \in G : u[h[g]] = SumFunctionOnSet(w, at(g))
      PROVE  SumFunctionOnSet(u, points) = SumFunctionOnSet(w, T)
  <2> DEFINE q == [g \in G |-> SumFunctionOnSet(w, at(g))]
  <2>1. \A g \in G : q[g] = SumFunctionOnSet(w, {i \in T : label[i] = g})
    BY <1>3
  <2>2. \A g \in G : u[h[g]] = q[g]
    BY <1>6
  <2> HIDE DEF q, G, label, at, h, points
  <2>3. Weights(q, G) /\ SumFunctionOnSet(q, G) = SumFunctionOnSet(w, T)
    <3>1. Parted(q, G, label, w, T)
      BY <1>1, <2>1 DEF Parted
    <3> QED BY <1>6, <3>1, SumOfParts
  <2>4. Weights(u, points)
    <3>1. h \in Surjection(G, points)
      BY <1>4, <1>5 DEF Surjection
    <3>2. IsFiniteSet(points)
      BY <2>3, <3>1, FS_Surjection DEF Weights
    <3> QED BY <1>5, <2>2, <2>3, <3>2 DEF Weights
  <2>5. Carries(h, q, G, u, points)
    BY <1>4, <1>5, <2>2 DEF Carries
  <2> QED BY <2>3, <2>4, <2>5, SumsAlike
<1>7. Weights(SentBy(table), T) /\ Weights(LostBy(table), T)
  BY PartSums
<1>8. SumFunctionOnSet([p \in points |-> p.sent], points) = SumFunctionOnSet(SentBy(table), T)
  <2> DEFINE u == [p \in points |-> p.sent]
  <2>1. \A g \in G : u[h[g]] = SumFunctionOnSet(SentBy(table), at(g))
    <3>1. \A g \in G : h[g].sent = SumFunctionOnSet(SentBy(table), at(g))
      BY DEF PartPoint
    <3>2. \A g \in G : h[g] \in points
      BY <1>4
    <3> HIDE DEF h, at, G, points
    <3> QED BY <3>1, <3>2
  <2> HIDE DEF u, h, at, G, points
  <2> QED BY <1>6, <1>7, <2>1 DEF u
<1>9. SumFunctionOnSet([p \in points |-> p.lost], points) = SumFunctionOnSet(LostBy(table), T)
  <2> DEFINE u == [p \in points |-> p.lost]
  <2>1. \A g \in G : u[h[g]] = SumFunctionOnSet(LostBy(table), at(g))
    <3>1. \A g \in G : h[g].lost = SumFunctionOnSet(LostBy(table), at(g))
      BY DEF PartPoint
    <3>2. \A g \in G : h[g] \in points
      BY <1>4
    <3> HIDE DEF h, at, G, points
    <3> QED BY <3>1, <3>2
  <2> HIDE DEF u, h, at, G, points
  <2> QED BY <1>6, <1>7, <2>1 DEF u
<1> QED BY <1>8, <1>9

(* The buckets are the timeline's points, with more columns.                  *)
LEMMA BucketsAreTimeline ==
  ASSUME NEW table, Stored(table), NEW s, NEW from, NEW to, NEW step
  PROVE  LET T == Attempted(table, {s}, from, to)
         IN  {[time |-> b.time, source |-> s, sent |-> b.sent, lost |-> b.lost]
                : b \in BucketedPoints(table, {s}, from, to, step)}
               = PartPoints(table, T, s, step)
<1> DEFINE T == Attempted(table, {s}, from, to)
           A == Admitted(table, {s}, from, to)
           at(g) == PlacesIn(table, T, g, step)
           in(g) == PlacesIn(table, A, g, step)
           points == PartPoints(table, T, s, step)
           sums(g) == PartPoint(table, in(g), g, s)
           buckets == BucketedPoints(table, {s}, from, to, step)
           plain(b) == [time |-> b.time, source |-> s, sent |-> b.sent, lost |-> b.lost]
<1>1. A \in SUBSET (DOMAIN table) /\ T = {i \in A : EffectiveSent(table[i]) > 0}
  BY DEF Attempted, Admitted
<1>2. \A g : in(g) \in SUBSET (DOMAIN table) /\ at(g) = {i \in in(g) : EffectiveSent(table[i]) > 0}
  BY <1>1 DEF PlacesIn
<1>3. {plain(b) : b \in buckets} = {sums(g) : g \in {k \in GroupsOf(table, A, step) : sums(k).sent > 0}}
  <2> DEFINE measured(g) == {i \in in(g) : Weight(table[i]) > 0}
             point(g) ==
               [time |-> g.time, source |-> g.source,
                sent |-> SumOver(in(g), LAMBDA i : EffectiveSent(table[i])),
                lost |-> SumOver(in(g), LAMBDA i : table[i].lost),
                min |-> IF measured(g) = {} THEN 0 ELSE Min({table[i].min : i \in measured(g)}),
                median |-> QuantileExactWeighted(in(g), [i \in in(g) |-> table[i].median],
                                                 [i \in in(g) |-> Weight(table[i])], 50),
                max |-> Max({table[i].max : i \in in(g)})]
  <2>1. buckets = {p \in {point(g) : g \in GroupsOf(table, A, step)} : p.sent > 0}
    BY DEF BucketedPoints
  <2>2. ASSUME NEW g PROVE plain(point(g)) = sums(g) /\ point(g).sent = sums(g).sent
    <3>1. /\ point(g).sent = SumFunctionOnSet(SentBy(table), in(g))
          /\ point(g).lost = SumFunctionOnSet(LostBy(table), in(g))
      <4>1. /\ point(g).sent = SumOver(in(g), LAMBDA i : EffectiveSent(table[i]))
            /\ point(g).lost = SumOver(in(g), LAMBDA i : table[i].lost)
        OBVIOUS
      <4> HIDE DEF in, point
      <4> QED BY <1>2, <4>1, PartSums
    <3>2. point(g).time = g.time
      OBVIOUS
    <3> HIDE DEF point
    <3> QED BY <3>1, <3>2 DEF PartPoint
  <2> HIDE DEF point, buckets, sums, plain, A
  <2> QED BY <2>1, <2>2
<1>4. ASSUME NEW g
      PROVE  /\ sums(g).sent > 0 <=> at(g) # {}
             /\ sums(g) = PartPoint(table, at(g), g, s)
  <2>1. /\ Weights(SentBy(table), in(g)) /\ Weights(LostBy(table), in(g))
        /\ at(g) \in SUBSET in(g)
    <3> HIDE DEF in, at
    <3> QED BY <1>2, PartSums
  <2>2. \A i \in in(g) : /\ SentBy(table)[i] = EffectiveSent(table[i]) /\ SentBy(table)[i] \in Nat
                         /\ LostBy(table)[i] # 0 => SentBy(table)[i] > 0
    <3>1. \A i \in DOMAIN table : /\ SentBy(table)[i] = EffectiveSent(table[i]) /\ LostBy(table)[i] = table[i].lost
                                  /\ table[i].lost \in Nat /\ EffectiveSent(table[i]) \in Nat
                                  /\ table[i].lost <= EffectiveSent(table[i])
      BY RowMeans DEF SentBy, LostBy
    <3> HIDE DEF in
    <3> QED BY <1>2, <3>1
  <2>3. \A i \in in(g) : i \in at(g) <=> SentBy(table)[i] > 0
    <3> HIDE DEF in, at
    <3> QED BY <1>2, <2>2
  <2> DEFINE a == at(g)
             whole == in(g)
  <2> HIDE DEF a, whole
  <2>4. /\ SumFunctionOnSet(SentBy(table), whole) = SumFunctionOnSet(SentBy(table), a)
        /\ SumFunctionOnSet(LostBy(table), whole) = SumFunctionOnSet(LostBy(table), a)
    <3>1. Weights(SentBy(table), whole) /\ Weights(LostBy(table), whole) /\ a \in SUBSET whole
      BY <2>1 DEF a, whole
    <3>2. /\ \A i \in whole : SentBy(table)[i] # 0 => i \in a
          /\ \A i \in whole : LostBy(table)[i] # 0 => i \in a
      BY <2>2, <2>3 DEF a, whole
    <3>3. ASSUME NEW w, Weights(w, whole), \A i \in whole : w[i] # 0 => i \in a
          PROVE  SumFunctionOnSet(w, whole) = SumFunctionOnSet(w, a)
      BY <3>1, <3>3, SumWithoutZeros
    <3> QED BY <3>1, <3>2, <3>3
  <2>5. SumFunctionOnSet(SentBy(table), whole) > 0 <=> a # {}
    <3>1. SumFunctionOnSet(SentBy(table), whole) > 0 <=> \E i \in whole : SentBy(table)[i] > 0
      BY <2>1, SumPositive DEF whole
    <3> QED BY <2>1, <2>3, <3>1 DEF a, whole
  <2> QED BY <2>4, <2>5 DEF PartPoint, a, whole
<1>5. {k \in GroupsOf(table, A, step) : at(k) # {}} = GroupsOf(table, T, step)
  <2>1. ASSUME NEW k \in GroupsOf(table, A, step), at(k) # {} PROVE k \in GroupsOf(table, T, step)
    <3>1. PICK j \in A : k = [time |-> Slot(table[j].time, step), source |-> table[j].source]
      BY DEF GroupsOf
    <3>2. PICK i \in T : table[i].source = k.source /\ Slot(table[i].time, step) = k.time
      BY <2>1 DEF PlacesIn
    <3>3. k = [time |-> Slot(table[i].time, step), source |-> table[i].source]
      BY <3>1, <3>2
    <3> QED BY <3>3 DEF GroupsOf
  <2>2. ASSUME NEW k \in GroupsOf(table, T, step) PROVE k \in GroupsOf(table, A, step) /\ at(k) # {}
    <3>1. PICK i \in T : k = [time |-> Slot(table[i].time, step), source |-> table[i].source]
      BY DEF GroupsOf
    <3>2. i \in A
      BY <1>1
    <3>3. i \in at(k)
      BY <3>1 DEF PlacesIn
    <3> QED BY <3>1, <3>2, <3>3 DEF GroupsOf
  <2> HIDE DEF at
  <2> QED BY <2>1, <2>2
<1>6. {plain(b) : b \in buckets} = points
  <2>2. points = {PartPoint(table, at(g), g, s) : g \in GroupsOf(table, T, step)}
    BY DEF PartPoints
  <2> HIDE DEF points, buckets, plain, sums, at, in, A, T
  <2>1. {k \in GroupsOf(table, A, step) : sums(k).sent > 0} = GroupsOf(table, T, step)
    BY <1>4, <1>5
  <2> QED BY <1>3, <1>4, <2>1, <2>2
<1> QED BY <1>6

(* Every view of a table tells the same loss. *)
LEMMA LossIsOne ==
  ASSUME NEW cycles, IsTable(cycles), NEW from, NEW to, NEW step
  PROVE  LossAgrees(cycles, from, to, step)
<1> DEFINE table == StoredCycles(cycles)
<1>1. Stored(table)
  BY StoredCyclesFacts
<1> HIDE DEF table
<1>2. ASSUME NEW s \in StoreSources
      PROVE  LET listed == RawPoints(table, {s}, from, to)
                 buckets == BucketedPoints(table, {s}, from, to, step)
                 timeline == TimelineLoss(table, s, from, to, step)
             IN  /\ Totals(timeline) =
                      [sent |-> SumOver(DOMAIN listed, LAMBDA i : EffectiveSent(listed[i])),
                       lost |-> SumOver(DOMAIN listed, LAMBDA i : listed[i].lost)]
                 /\ timeline = {[time |-> b.time, source |-> s, sent |-> b.sent, lost |-> b.lost]
                                 : b \in buckets}
  <2> DEFINE T == Attempted(table, {s}, from, to)
             listed == RawPoints(table, {s}, from, to)
             timeline == TimelineLoss(table, s, from, to, step)
             buckets == BucketedPoints(table, {s}, from, to, step)
             points == PartPoints(table, T, s, step)
  <2>1. timeline = points /\ T \in SUBSET (DOMAIN table)
    BY <1>1, TimelineFacts
  <2>2. {[time |-> b.time, source |-> s, sent |-> b.sent, lost |-> b.lost] : b \in buckets} = points
    BY <1>1, BucketsAreTimeline
  <2>3. /\ SumFunctionOnSet([p \in points |-> p.sent], points) = SumFunctionOnSet(SentBy(table), T)
        /\ SumFunctionOnSet([p \in points |-> p.lost], points) = SumFunctionOnSet(LostBy(table), T)
    <3>1. \A i \in T : table[i].source = s
      BY DEF Attempted, Admitted
    <3> HIDE DEF T
    <3> QED BY <1>1, <2>1, <3>1, PointsAddUp
  <2>4. /\ listed \in Seq(CycleRows) /\ IsFiniteSet(T)
        /\ \E f : PointsOf(f, listed, table, T)
    BY <1>1, RawFacts
  <2> HIDE DEF T, listed, timeline, buckets, points
  <2>5. PICK f : PointsOf(f, listed, table, T)
    BY <2>4
  <2>6. DOMAIN listed = 1..Len(listed)
    BY <2>4
  <2>7. ASSUME NEW w, Weights(w, T), NEW v, \A i \in DOMAIN listed : v[i] = w[f[i]]
        PROVE  SumFunctionOnSet(v, DOMAIN listed) = SumFunctionOnSet(w, T)
    <3>1. IsFiniteSet(DOMAIN listed)
      <4>1. Len(listed) \in Nat
        BY <2>4
      <4> QED BY <2>6, <4>1, FS_Interval
    <3>2. \A i \in DOMAIN listed : f[i] \in T
      BY <2>5, <2>6 DEF PointsOf
    <3>3. Weights(v, DOMAIN listed)
      BY <2>7, <3>1, <3>2 DEF Weights
    <3>4. Carries(f, v, DOMAIN listed, w, T)
      BY <2>5, <2>6, <2>7 DEF Carries, PointsOf
    <3> QED BY <2>7, <3>3, <3>4, SumsAlike
  <2>8. Weights(SentBy(table), T) /\ Weights(LostBy(table), T)
    BY <1>1, <2>1, PartSums
  <2>9. \A i \in DOMAIN listed : listed[i] = table[f[i]] /\ f[i] \in DOMAIN table
    BY <2>1, <2>5, <2>6 DEF PointsOf
  <2>10. SumOver(DOMAIN listed, LAMBDA i : EffectiveSent(listed[i])) = SumFunctionOnSet(SentBy(table), T)
    <3> DEFINE v == [i \in DOMAIN listed |-> EffectiveSent(listed[i])]
    <3>1. \A i \in DOMAIN listed : v[i] = SentBy(table)[f[i]]
      BY <2>9 DEF SentBy
    <3> HIDE DEF v
    <3>2. SumFunctionOnSet(v, DOMAIN listed) = SumFunctionOnSet(SentBy(table), T)
      BY <2>7, <2>8, <3>1
    <3> QED BY <3>2 DEF SumOver, v
  <2>11. SumOver(DOMAIN listed, LAMBDA i : listed[i].lost) = SumFunctionOnSet(LostBy(table), T)
    <3> DEFINE v == [i \in DOMAIN listed |-> listed[i].lost]
    <3>1. \A i \in DOMAIN listed : v[i] = LostBy(table)[f[i]]
      BY <2>9 DEF LostBy
    <3> HIDE DEF v
    <3>2. SumFunctionOnSet(v, DOMAIN listed) = SumFunctionOnSet(LostBy(table), T)
      BY <2>7, <2>8, <3>1
    <3> QED BY <3>2 DEF SumOver, v
  <2>12. Totals(timeline) = [sent |-> SumFunctionOnSet(SentBy(table), T),
                             lost |-> SumFunctionOnSet(LostBy(table), T)]
    BY <2>1, <2>3 DEF Totals, SumOver
  <2>13. timeline = {[time |-> b.time, source |-> s, sent |-> b.sent, lost |-> b.lost] : b \in buckets}
    BY <2>1, <2>2
  <2>14. /\ Totals(timeline) = [sent |-> SumOver(DOMAIN listed, LAMBDA i : EffectiveSent(listed[i])),
                                lost |-> SumOver(DOMAIN listed, LAMBDA i : listed[i].lost)]
    BY <2>10, <2>11, <2>12
  <2> QED BY <2>13, <2>14 DEF timeline, listed, buckets
<1> QED BY <1>2 DEF LossAgrees, table

-----------------------------------------------------------------------------
(* The pinned reads.                                                          *)

(* Each pinned source has a cycle of its pinned time.                         *)
Pinned(cycles, pins) ==
  /\ IsFiniteSet(DOMAIN pins)
  /\ \A s \in DOMAIN pins : \E i \in DOMAIN cycles : cycles[i].source = s /\ cycles[i].time = pins[s]

(* The rows of a table, as numbers. *)
LEMMA TableTypes ==
  ASSUME NEW cycles, IsTable(cycles)
  PROVE  /\ cycles \in Seq(CycleRows) /\ DOMAIN cycles = 1..Len(cycles) /\ Len(cycles) \in Nat
         /\ \A i \in DOMAIN cycles :
              /\ cycles[i] \in CycleRows /\ cycles[i].source \in StoreSources /\ cycles[i].source \in Nat
              /\ cycles[i].time \in Nat /\ cycles[i].max \in Nat /\ cycles[i].median \in Nat
              /\ cycles[i].sent \in Nat /\ cycles[i].lost \in Nat
<1>1. cycles \in Seq(CycleRows)
  BY DEF IsTable
<1>2. \A i \in DOMAIN cycles : cycles[i] \in CycleRows
  BY <1>1
<1>3. \A r \in CycleRows : /\ r.source \in StoreSources /\ r.time \in Nat /\ r.max \in Nat /\ r.median \in Nat
                           /\ r.sent \in Nat /\ r.lost \in Nat
  BY DEF CycleRows
<1>4. StoreSources \subseteq Nat
  BY StoreAssumption
<1>5. DOMAIN cycles = 1..Len(cycles) /\ Len(cycles) \in Nat
  BY <1>1
<1>6. \A i \in DOMAIN cycles :
        /\ cycles[i].source \in StoreSources /\ cycles[i].source \in Nat
        /\ cycles[i].time \in Nat /\ cycles[i].max \in Nat /\ cycles[i].median \in Nat
        /\ cycles[i].sent \in Nat /\ cycles[i].lost \in Nat
  BY <1>2, <1>3, <1>4
<1> QED BY <1>1, <1>2, <1>5, <1>6

(* Both ways to pin do that. *)
LEMMA PinsFacts ==
  ASSUME NEW cycles, IsTable(cycles), NEW floor, NEW at, NEW half, NEW clock,
         NEW pins \in LatestPins(cycles, floor, clock) \cup NearestPins(cycles, at, half, clock)
  PROVE  Pinned(cycles, pins)
<1> DEFINE src == [i \in DOMAIN cycles |-> cycles[i].source]
           times == [i \in DOMAIN cycles |-> cycles[i].time]
<1>1. /\ cycles \in Seq(CycleRows)
      /\ \A i \in DOMAIN cycles : cycles[i].time \in Nat /\ src[i] = cycles[i].source
  BY TableTypes
<1>2. ASSUME NEW P \in SUBSET (DOMAIN cycles)
      PROVE  IsFiniteSet({cycles[i].source : i \in P}) /\ IsFiniteSet({cycles[i].time : i \in P})
  <2>1. IsFiniteSet({src[i] : i \in P})
    <3> HIDE DEF src
    <3> QED BY <1>1, PlacesFinite, ZenonT(30)
  <2>2. IsFiniteSet({times[i] : i \in P})
    <3> HIDE DEF times
    <3> QED BY <1>1, PlacesFinite
  <2>3. /\ {src[i] : i \in P} = {cycles[i].source : i \in P}
        /\ {times[i] : i \in P} = {cycles[i].time : i \in P}
    OBVIOUS
  <2> QED BY <2>1, <2>2, <2>3
<1>3. CASE pins \in LatestPins(cycles, floor, clock)
  <2> DEFINE fresh == {i \in DOMAIN cycles : floor <= cycles[i].time /\ cycles[i].time <= clock + FutureSkew}
             D == {cycles[i].source : i \in fresh}
  <2>1. pins = [s \in D |-> Max(TimesOf(cycles, fresh, s))]
    BY <1>3 DEF LatestPins
  <2>2. fresh \in SUBSET (DOMAIN cycles)
    OBVIOUS
  <2>3. IsFiniteSet(D)
    <3> HIDE DEF fresh
    <3> QED BY <1>2, <2>2
  <2>4. ASSUME NEW s \in D PROVE Max(TimesOf(cycles, fresh, s)) \in TimesOf(cycles, fresh, s)
    <3> DEFINE P == {i \in fresh : cycles[i].source = s}
               T == TimesOf(cycles, fresh, s)
    <3>1. T = {cycles[i].time : i \in P}
      BY <2>2 DEF TimesOf
    <3>2. IsFiniteSet(T)
      <4>1. P \in SUBSET (DOMAIN cycles)
        OBVIOUS
      <4>2. IsFiniteSet({cycles[i].time : i \in P})
        <5> HIDE DEF P
        <5> QED BY <1>2, <4>1
      <4> QED BY <3>1, <4>2
    <3>3. T \in SUBSET Int /\ T # {}
      BY <1>1 DEF TimesOf
    <3> HIDE DEF T
    <3>4. Max(T) \in T
      BY <3>2, <3>3, MaxMinFacts
    <3> QED BY <3>4 DEF T
  <2>5. \A s \in D : \E i \in DOMAIN cycles : cycles[i].source = s /\ cycles[i].time = pins[s]
    <3> SUFFICES ASSUME NEW s \in D
                 PROVE  \E i \in DOMAIN cycles : cycles[i].source = s /\ cycles[i].time = pins[s]
      OBVIOUS
    <3>1. pins[s] \in TimesOf(cycles, fresh, s)
      BY <2>1, <2>4
    <3> QED BY <2>2, <3>1 DEF TimesOf
  <2>6. DOMAIN pins = D
    BY <2>1
  <2> HIDE DEF D
  <2> QED BY <2>3, <2>5, <2>6 DEF Pinned
<1>4. CASE pins \in NearestPins(cycles, at, half, clock)
  <2> DEFINE near == {i \in DOMAIN cycles :
                       /\ at - half <= cycles[i].time /\ cycles[i].time < at + half
                       /\ cycles[i].time <= clock + FutureSkew}
             D == {cycles[i].source : i \in near}
  <2>1. /\ pins \in [D -> {cycles[i].time : i \in near}]
        /\ \A s \in D : pins[s] \in TimesOf(cycles, near, s)
    BY <1>4 DEF NearestPins
  <2>2. near \in SUBSET (DOMAIN cycles)
    OBVIOUS
  <2>3. IsFiniteSet(D)
    <3> HIDE DEF near
    <3> QED BY <1>2, <2>2
  <2>4. \A s \in D : \E i \in DOMAIN cycles : cycles[i].source = s /\ cycles[i].time = pins[s]
    BY <2>1, <2>2 DEF TimesOf
  <2>5. DOMAIN pins = D
    BY <2>1
  <2> HIDE DEF D
  <2> QED BY <2>3, <2>4, <2>5 DEF Pinned
<1> QED BY <1>3, <1>4

(* The rows of a path: those of the pinned cycles. *)
LEMMA PathFacts ==
  ASSUME NEW cycles, IsTable(cycles), NEW pins, Pinned(cycles, pins)
  PROVE  LET path == PinnedHopRows(cycles, pins)
         IN  /\ path \in Seq(CycleRows)
             /\ \A r \in Range(path) : r.source \in DOMAIN pins /\ r.time = pins[r.source]
             /\ \A s \in DOMAIN pins : \E r \in Range(path) : r.source = s
<1> DEFINE path == PinnedHopRows(cycles, pins)
           P == {i \in DOMAIN cycles : cycles[i].source \in DOMAIN pins /\ pins[cycles[i].source] = cycles[i].time}
           key == [i \in DOMAIN cycles |-> cycles[i].source]
           B == ByKey(P, key)
<1>1. /\ cycles \in Seq(CycleRows) /\ DOMAIN cycles = 1..Len(cycles)
      /\ \A i \in DOMAIN cycles : cycles[i].source \in Nat
  BY TableTypes
<1>2. P \in SUBSET (DOMAIN cycles)
  OBVIOUS
<1>3. path = Listed(cycles, P, B)
  <2> DEFINE C == {p \in P \X P :
                     \/ cycles[p[1]].source < cycles[p[2]].source
                     \/ p[1] < p[2] /\ ~(cycles[p[2]].source < cycles[p[1]].source)}
  <2>1. path = Listed(cycles, P, C)
    BY DEF PinnedHopRows, Ordered
  <2>2. C = B
    <3> HIDE DEF P
    <3> QED BY <1>2 DEF ByKey
  <2> QED BY <2>1, <2>2
<1>4. IsOrder(P, B)
  <2>1. P \in SUBSET Int /\ \A i \in P : key[i] \in Int
    BY <1>1
  <2> HIDE DEF key, P
  <2> QED BY <2>1, ByKeyIsOrder
<1> HIDE DEF path, B
<1>5. /\ path \in Seq(CycleRows) /\ Len(path) = Cardinality(P)
      /\ \E f : Lists(f, cycles, P, B)
  <2> HIDE DEF P
  <2> QED BY <1>1, <1>2, <1>3, <1>4, ListedFacts
<1>6. PICK f : Lists(f, cycles, P, B)
  BY <1>5
<1>7. DOMAIN path = 1..Cardinality(P)
  BY <1>5
<1>8. \A k \in DOMAIN path : f[k] \in P /\ path[k] = cycles[f[k]]
  <2> HIDE DEF P
  <2> QED BY <1>3, <1>6, <1>7 DEF Lists
<1>9. \A i \in P : \E k \in DOMAIN path : f[k] = i
  <2> HIDE DEF P
  <2> QED BY <1>6, <1>7 DEF Lists
<1>10. \A r \in Range(path) : r.source \in DOMAIN pins /\ r.time = pins[r.source]
  BY <1>8 DEF Range
<1>11. ASSUME NEW s \in DOMAIN pins PROVE \E r \in Range(path) : r.source = s
  <2>1. PICK i \in DOMAIN cycles : cycles[i].source = s /\ cycles[i].time = pins[s]
    BY DEF Pinned
  <2>2. i \in P
    BY <2>1
  <2>3. PICK k \in DOMAIN path : f[k] = i
    BY <1>9, <2>2
  <2>4. path[k].source = s /\ path[k] \in Range(path)
    BY <1>8, <2>1, <2>3 DEF Range
  <2> QED BY <2>4
<1> QED BY <1>5, <1>10, <1>11 DEF path

(* The keys of a list of rows: each once.                                     *)
LEMMA KeysFacts ==
  ASSUME NEW path \in Seq(CycleRows)
  PROVE  LET keys == CycleKeys(path)
         IN  /\ keys \in Seq({Key(r) : r \in CycleRows})
             /\ \A k \in DOMAIN keys : \E r \in Range(path) : keys[k] = Key(r)
             /\ \A r \in Range(path) : \E k \in DOMAIN keys : keys[k] = Key(r)
             /\ \A k, l \in DOMAIN keys : keys[k] = keys[l] => k = l
<1> DEFINE all == [i \in DOMAIN path |-> Key(path[i])]
           P == {i \in DOMAIN path : \A j \in 1..(i - 1) : Key(path[j]) # Key(path[i])}
           keys == CycleKeys(path)
           K == {Key(r) : r \in CycleRows}
           B == {p \in P \X P : p[1] < p[2]}
<1>1. DOMAIN path = 1..Len(path) /\ Len(path) \in Nat /\ \A i \in DOMAIN path : path[i] \in CycleRows
  OBVIOUS
<1>2. all \in Seq(K) /\ DOMAIN all = DOMAIN path /\ \A i \in DOMAIN path : all[i] = Key(path[i])
  BY <1>1
<1>3. P \in SUBSET (DOMAIN all)
  BY <1>2
<1>4. keys = Listed(all, P, B)
  BY DEF CycleKeys, Picked
<1>5. IsOrder(P, B)
  <2>1. P \in SUBSET Int
    BY <1>1
  <2> QED BY <2>1, PlacesInOrder
<1>6. \A i, j \in P : all[i] = all[j] => i = j
  <2> SUFFICES ASSUME NEW i \in P, NEW j \in P, all[i] = all[j] PROVE i = j
    OBVIOUS
  <2>1. i \in Nat /\ j \in Nat /\ i >= 1 /\ j >= 1 /\ Key(path[i]) = Key(path[j])
    BY <1>1, <1>2
  <2>2. ~(j \in 1..(i - 1)) /\ ~(i \in 1..(j - 1))
    BY <2>1
  <2> QED BY <2>1, <2>2
<1>7. ASSUME NEW i \in DOMAIN path PROVE \E j \in P : all[j] = Key(path[i])
  <2> DEFINE E == {j \in DOMAIN path : Key(path[j]) = Key(path[i])}
             m == Min(E)
  <2>1. E \in SUBSET Int /\ E # {} /\ IsFiniteSet(E)
    <3>1. E \in SUBSET (DOMAIN path)
      OBVIOUS
    <3>2. IsFiniteSet(E)
      <4> HIDE DEF E
      <4> QED BY <3>1, PlacesFinite
    <3> QED BY <1>1, <3>2
  <2>2. m \in E /\ \A j \in E : m <= j
    <3> HIDE DEF E
    <3> QED BY <2>1, MaxMinFacts
  <2> HIDE DEF m
  <2>3. m \in DOMAIN path /\ Key(path[m]) = Key(path[i])
    BY <2>2
  <2>4. \A j \in 1..(m - 1) : Key(path[j]) # Key(path[m])
    <3> SUFFICES ASSUME NEW j \in 1..(m - 1), Key(path[j]) = Key(path[m]) PROVE FALSE
      OBVIOUS
    <3>1. j \in DOMAIN path /\ j < m
      BY <1>1, <2>3
    <3>2. j \in E
      BY <2>3, <3>1
    <3> QED BY <1>1, <2>2, <2>3, <3>1, <3>2
  <2> QED BY <1>2, <2>3, <2>4
<1> HIDE DEF all, P, B, keys, K
<1>8. /\ keys \in Seq(K) /\ Len(keys) = Cardinality(P)
      /\ \E f : Lists(f, all, P, B)
  BY <1>2, <1>3, <1>4, <1>5, ListedFacts
<1>9. PICK f : Lists(f, all, P, B)
  BY <1>8
<1>10. DOMAIN keys = 1..Cardinality(P)
  BY <1>8
<1>11. \A k \in DOMAIN keys : f[k] \in P /\ keys[k] = all[f[k]]
  BY <1>4, <1>9, <1>10 DEF Lists
<1>12. \A k, l \in DOMAIN keys : keys[k] = keys[l] => k = l
  BY <1>6, <1>9, <1>10, <1>11 DEF Lists
<1>13. \A k \in DOMAIN keys : \E r \in Range(path) : keys[k] = Key(r)
  BY <1>2, <1>3, <1>11 DEF Range
<1>14. ASSUME NEW r \in Range(path) PROVE \E k \in DOMAIN keys : keys[k] = Key(r)
  <2>1. PICK i \in DOMAIN path : path[i] = r
    BY DEF Range
  <2>2. PICK j \in P : all[j] = Key(r)
    BY <1>7, <2>1
  <2>3. PICK k \in DOMAIN keys : f[k] = j
    BY <1>9, <1>10 DEF Lists
  <2> QED BY <1>11, <2>2, <2>3
<1> QED BY <1>8, <1>12, <1>13, <1>14 DEF keys, K

(* Past the budget, a key that is left out has more newer ones than the       *)
(* budget.                                                                    *)
LEMMA TrimmedFacts ==
  ASSUME NEW keys \in Seq({Key(r) : r \in CycleRows}),
         \A k, l \in DOMAIN keys : keys[k] = keys[l] => k = l
  PROVE  LET asked == Range(TrimmedKeys(keys))
             all == Range(keys)
         IN  /\ asked \subseteq all /\ IsFiniteSet(all)
             /\ \A k \in all \ asked : Cardinality({q \in all : q.time >= k.time}) > MaxCycleCounterKeys
<1> DEFINE K == {Key(r) : r \in CycleRows}
           P == DOMAIN keys
           all == Range(keys)
           asked == Range(TrimmedKeys(keys))
           key == [i \in P |-> 0 - keys[i].time]
           B == ByKey(P, key)
           sorted == Listed(keys, P, B)
           size == Len(keys)
           budget == MaxCycleCounterKeys
<1>0. budget \in Nat \ {0}
  BY StoreAssumption
<1>1. P = 1..size /\ size \in Nat /\ \A i \in P : keys[i] \in K /\ keys[i].time \in Nat
  <2>1. \A k \in K : k.time \in Nat
    BY DEF Key, CycleRows
  <2>2. P = 1..size /\ size \in Nat /\ \A i \in P : keys[i] \in K
    OBVIOUS
  <2> HIDE DEF K, P, size
  <2> QED BY <2>1, <2>2
<1>2. IsFiniteSet(all)
  <2>1. all = {keys[i] : i \in P}
    BY DEF Range
  <2>2. IsFiniteSet({keys[i] : i \in P})
    <3>1. P \in SUBSET (DOMAIN keys)
      OBVIOUS
    <3> HIDE DEF P
    <3> QED BY <3>1, PlacesFinite
  <2> QED BY <2>1, <2>2
<1>3. CASE size <= budget
  <2>1. TrimmedKeys(keys) = keys
    BY <1>3 DEF TrimmedKeys
  <2> QED BY <1>2, <2>1
<1>4. CASE ~(size <= budget)
  <2>1. Ordered(keys, P, LAMBDA a, b : a.time > b.time) = sorted
    <3> DEFINE C == {p \in P \X P :
                       \/ keys[p[1]].time > keys[p[2]].time
                       \/ p[1] < p[2] /\ ~(keys[p[2]].time > keys[p[1]].time)}
    <3>1. Ordered(keys, P, LAMBDA a, b : a.time > b.time) = Listed(keys, P, C)
      BY DEF Ordered
    <3>2. \A i, j \in P : keys[i].time > keys[j].time <=> key[i] < key[j]
      BY <1>1
    <3>3. C = B
      <4> HIDE DEF key, P
      <4> QED BY <3>2 DEF ByKey
    <3> QED BY <3>1, <3>3
  <2>2. TrimmedKeys(keys) = SubSeq(sorted, 1, budget)
    <3>1. TrimmedKeys(keys) = SubSeq(Ordered(keys, P, LAMBDA a, b : a.time > b.time), 1, budget)
      BY <1>4 DEF TrimmedKeys
    <3> HIDE DEF sorted, B
    <3> QED BY <2>1, <3>1
  <2>3. /\ IsOrder(P, B)
        /\ \A i, j \in P : <<i, j>> \in B <=> key[i] < key[j] \/ (key[i] = key[j] /\ i < j)
    <3>1. P \in SUBSET Int /\ \A i \in P : key[i] \in Int
      BY <1>1
    <3> HIDE DEF key, P
    <3> QED BY <3>1, ByKeyIsOrder
  <2>4. \A i, j \in P : <<i, j>> \in B => keys[i].time >= keys[j].time
    <3>1. \A i, j \in P : (key[i] < key[j] \/ key[i] = key[j]) => keys[i].time >= keys[j].time
      BY <1>1
    <3> QED BY <2>3, <3>1
  <2>5. /\ sorted \in Seq(K) /\ Len(sorted) = Cardinality(P) /\ \E f : Lists(f, keys, P, B)
    <3>1. P \in SUBSET (DOMAIN keys)
      OBVIOUS
    <3>2. keys \in Seq(K)
      OBVIOUS
    <3>3. IsOrder(P, B)
      BY <2>3
    <3> HIDE DEF P, B, K, sorted
    <3>4. sorted = Listed(keys, P, B)
      BY DEF sorted
    <3> QED BY <3>1, <3>2, <3>3, <3>4, ListedFacts, SMTT(30)
  <2>6. Cardinality(P) = size
    <3>1. Cardinality(1..size) = size
      BY <1>1, FS_Interval
    <3> QED BY <1>1, <3>1
  <2> HIDE DEF sorted, B, key, K
  <2>7. PICK f : Lists(f, keys, P, B)
    BY <2>5
  <2>8. /\ f \in [1..size -> P] /\ \A k \in 1..size : sorted[k] = keys[f[k]]
        /\ \A k, l \in 1..size : k < l <=> <<f[k], f[l]>> \in B
        /\ \A i \in P : \E k \in 1..size : f[k] = i
        /\ \A k, l \in 1..size : f[k] = f[l] => k = l
    BY <2>6, <2>7 DEF Lists, sorted
  <2>9. asked = {sorted[k] : k \in 1..budget}
    <3>1. /\ DOMAIN SubSeq(sorted, 1, budget) = 1..budget
          /\ \A k \in 1..budget : SubSeq(sorted, 1, budget)[k] = sorted[k]
      BY <1>0, <1>1, <1>4, <2>5, <2>6
    <3> QED BY <2>2, <3>1 DEF Range
  <2>10. asked \subseteq all
    <3>1. \A k \in 1..budget : k \in 1..size
      BY <1>0, <1>1, <1>4
    <3>2. \A k \in 1..size : sorted[k] \in all
      BY <2>8 DEF Range
    <3> HIDE DEF all, asked
    <3> QED BY <2>9, <3>1, <3>2
  <2>11. ASSUME NEW q \in all, q \notin asked
         PROVE  Cardinality({p \in all : p.time >= q.time}) > budget
    <3>1. PICK i \in P : keys[i] = q
      BY DEF Range
    <3>2. PICK m \in 1..size : f[m] = i
      BY <2>8
    <3>3. sorted[m] = q /\ m > budget
      <4>1. sorted[m] = q
        BY <2>8, <3>1, <3>2
      <4>2. m \notin 1..budget
        BY <2>9, <2>11, <4>1
      <4> QED BY <1>0, <1>1, <4>1, <4>2
    <3> DEFINE E == {p \in all : p.time >= q.time}
               h == [k \in 1..m |-> keys[f[k]]]
    <3>4. ASSUME NEW k \in 1..m PROVE keys[f[k]] \in E
      <4>1. k \in 1..size /\ f[k] \in P /\ f[m] \in P
        <5>1. k \in 1..size
          BY <1>1
        <5> QED BY <2>8, <5>1
      <4>2. CASE k = m
        BY <1>1, <3>1, <3>2, <4>1, <4>2 DEF Range
      <4>3. CASE k # m
        <5>1. k < m
          BY <1>1, <4>3
        <5>2. <<f[k], f[m]>> \in B
          BY <2>8, <4>1, <5>1
        <5>3. keys[f[k]].time >= q.time
          BY <2>4, <3>1, <3>2, <4>1, <5>2
        <5> QED BY <4>1, <5>3 DEF Range
      <4> QED BY <4>2, <4>3
    <3>5. h \in Injection(1..m, E)
      <4>1. h \in [1..m -> E]
        BY <3>4
      <4>2. ASSUME NEW k \in 1..m, NEW l \in 1..m, h[k] = h[l] PROVE k = l
        <5>1. k \in 1..size /\ l \in 1..size
          BY <1>1
        <5>2. keys[f[k]] = keys[f[l]]
          BY <4>2
        <5>3. f[k] \in DOMAIN keys /\ f[l] \in DOMAIN keys
          BY <2>8, <5>1
        <5> QED BY <2>8, <5>1, <5>2, <5>3
      <4> HIDE DEF h, E
      <4> QED BY <4>1, <4>2 DEF Injection, IsInjective
    <3>6. IsFiniteSet(E)
      <4>1. E \in SUBSET all
        OBVIOUS
      <4> HIDE DEF E, all
      <4> QED BY <1>2, <4>1, FS_Subset
    <3> HIDE DEF E, h
    <3>7. m <= Cardinality(E) /\ Cardinality(E) \in Nat
      <4>1. Cardinality(1..m) = m
        <5>1. m \in Int /\ 1 \in Int /\ m >= 1
          BY <1>1
        <5>2. Cardinality(1..m) = IF 1 > m THEN 0 ELSE m - 1 + 1
          BY <5>1, FS_Interval
        <5> QED BY <5>1, <5>2
      <4> QED BY <3>5, <3>6, <4>1, FS_Injection, FS_CardinalityType
    <3>8. Cardinality(E) > budget
      BY <1>0, <1>1, <3>3, <3>7
    <3> QED BY <3>8 DEF E
  <2> QED BY <1>2, <2>10, <2>11
<1> QED BY <1>1, <1>3, <1>4

(* What the counters of a path are: for each key that is asked about and has  *)
(* an attempt, the counts of one of its rows.                                 *)
LEMMA CountersFacts ==
  ASSUME NEW table, IsTable(table), NEW path
  PROVE  LET asked == Range(TrimmedKeys(CycleKeys(path)))
             counters == CycleCounters(table, path)
         IN  /\ \A c \in counters :
                  /\ Key(c) \in asked
                  /\ \E i \in DOMAIN table : /\ Key(table[i]) = Key(c)
                                             /\ EffectiveSent(table[i]) = c.sent /\ table[i].lost = c.lost
             /\ \A c, d \in counters : Key(c) = Key(d) => c = d
             /\ \A i \in DOMAIN table : EffectiveSent(table[i]) > 0 /\ Key(table[i]) \in asked =>
                  \E c \in counters : Key(c) = Key(table[i])
             /\ IsFiniteSet(counters)
<1> DEFINE asked == Range(TrimmedKeys(CycleKeys(path)))
           counters == CycleCounters(table, path)
           rows == {i \in DOMAIN table : EffectiveSent(table[i]) > 0 /\ Key(table[i]) \in asked}
           pick(k) == Min({i \in rows : Key(table[i]) = k})
           count(k) == [source |-> k.source, time |-> k.time,
                        sent |-> EffectiveSent(table[pick(k)]), lost |-> table[pick(k)].lost]
           named == {Key(table[i]) : i \in rows}
<1>1. table \in Seq(CycleRows) /\ DOMAIN table = 1..Len(table)
  BY TableTypes
<1>2. counters = {count(k) : k \in named}
  BY DEF CycleCounters
<1>3. rows \in SUBSET (DOMAIN table) /\ rows \in SUBSET Int
  BY <1>1
<1>4. ASSUME NEW k \in named PROVE pick(k) \in rows /\ Key(table[pick(k)]) = k /\ Key(count(k)) = k
  <2> DEFINE E == {i \in rows : Key(table[i]) = k}
  <2>1. E # {} /\ E \in SUBSET Int /\ E \in SUBSET (DOMAIN table)
    BY <1>3
  <2>2. IsFiniteSet(E)
    <3> HIDE DEF E
    <3> QED BY <1>1, <2>1, PlacesFinite
  <2>3. Min(E) \in E
    <3> HIDE DEF E
    <3> QED BY <2>1, <2>2, MaxMinFacts
  <2>4. Key(count(k)) = k
    <3>0. PICK i \in rows : k = Key(table[i])
      OBVIOUS
    <3>1. k = [source |-> k.source, time |-> k.time]
      BY <3>0 DEF Key
    <3> QED BY <3>1 DEF Key
  <2> QED BY <2>3, <2>4
<1>5. ASSUME NEW c \in counters
      PROVE  /\ Key(c) \in named /\ c = count(Key(c))
  <2>1. PICK k \in named : c = count(k)
    BY <1>2
  <2> HIDE DEF count, named
  <2> QED BY <1>4, <2>1
<1>6. \A c \in counters :
        /\ Key(c) \in asked
        /\ \E i \in DOMAIN table : /\ Key(table[i]) = Key(c)
                                   /\ EffectiveSent(table[i]) = c.sent /\ table[i].lost = c.lost
  <2> SUFFICES ASSUME NEW c \in counters
               PROVE  /\ Key(c) \in asked
                      /\ \E i \in DOMAIN table : /\ Key(table[i]) = Key(c)
                                                 /\ EffectiveSent(table[i]) = c.sent /\ table[i].lost = c.lost
    OBVIOUS
  <2> DEFINE i == pick(Key(c))
  <2>1. c.sent = EffectiveSent(table[i]) /\ c.lost = table[i].lost
    <3>1. count(Key(c)).sent = EffectiveSent(table[i]) /\ count(Key(c)).lost = table[i].lost
      OBVIOUS
    <3> HIDE DEF count, i
    <3> QED BY <1>5, <3>1
  <2>2. i \in rows /\ Key(table[i]) = Key(c)
    BY <1>4, <1>5
  <2> HIDE DEF i
  <2> QED BY <2>1, <2>2
<1>7. \A c, d \in counters : Key(c) = Key(d) => c = d
  <2> HIDE DEF count
  <2> QED BY <1>5
<1>8. ASSUME NEW i \in rows PROVE \E c \in counters : Key(c) = Key(table[i])
  <2>1. Key(table[i]) \in named
    OBVIOUS
  <2> HIDE DEF named, count
  <2> QED BY <1>2, <1>4, <2>1
<1>9. IsFiniteSet(counters)
  <2> DEFINE f == [i \in rows |-> count(Key(table[i]))]
  <2>1. counters = {f[i] : i \in rows}
    <3> HIDE DEF count
    <3> QED BY <1>2
  <2>2. IsFiniteSet({f[i] : i \in rows})
    <3> HIDE DEF f, rows
    <3> QED BY <1>1, <1>3, PlacesFinite
  <2> QED BY <2>1, <2>2
<1> HIDE DEF asked, counters
<1> QED BY <1>6, <1>7, <1>8, <1>9 DEF asked, counters

(* A path is of one cycle per source, with that cycle's counts. *)
LEMMA PathIsPaired ==
  ASSUME NEW cycles, IsTable(cycles), NEW pins, Pinned(cycles, pins)
  PROVE  PathIsOneCycle(cycles, pins)
<1> DEFINE table == StoredCycles(cycles)
           path == PinnedHopRows(StoredHops(cycles), pins)
           counters == CycleCounters(table, path)
           keys == CycleKeys(path)
           asked == Range(TrimmedKeys(keys))
           counted(r) == \E c \in counters : Key(c) = Key(r)
           measured(r) == \E i \in DOMAIN table : Key(table[i]) = Key(r) /\ EffectiveSent(table[i]) > 0
<1>1. IsTable(table)
  BY StoredCyclesFacts DEF Stored
<1>2. /\ path \in Seq(CycleRows)
      /\ \A r \in Range(path) : r.source \in DOMAIN pins /\ r.time = pins[r.source]
      /\ \A s \in DOMAIN pins : \E r \in Range(path) : r.source = s
  BY PathFacts DEF StoredHops
<1> HIDE DEF path
<1>3. /\ keys \in Seq({Key(r) : r \in CycleRows})
      /\ \A k \in DOMAIN keys : \E r \in Range(path) : keys[k] = Key(r)
      /\ \A r \in Range(path) : \E k \in DOMAIN keys : keys[k] = Key(r)
      /\ \A k, l \in DOMAIN keys : keys[k] = keys[l] => k = l
  BY <1>2, KeysFacts
<1> HIDE DEF table
<1>4. /\ \A c \in counters :
           /\ Key(c) \in asked
           /\ \E i \in DOMAIN table : /\ Key(table[i]) = Key(c)
                                      /\ EffectiveSent(table[i]) = c.sent /\ table[i].lost = c.lost
      /\ \A c, d \in counters : Key(c) = Key(d) => c = d
      /\ \A i \in DOMAIN table : EffectiveSent(table[i]) > 0 /\ Key(table[i]) \in asked =>
           \E c \in counters : Key(c) = Key(table[i])
      /\ IsFiniteSet(counters)
  BY <1>1, CountersFacts
<1> HIDE DEF keys
<1>5. /\ asked \subseteq Range(keys) /\ IsFiniteSet(Range(keys))
      /\ \A k \in Range(keys) \ asked :
           Cardinality({q \in Range(keys) : q.time >= k.time}) > MaxCycleCounterKeys
  BY <1>3, TrimmedFacts
<1> HIDE DEF asked, counters
<1>6. Range(keys) = {Key(r) : r \in Range(path)}
  BY <1>3 DEF Range
<1>7. {r.source : r \in Range(path)} = DOMAIN pins
  BY <1>2
<1>8. \A r, q \in Range(path) : r.source = q.source => r.time = q.time
  BY <1>2
<1>9. ASSUME NEW c \in counters PROVE \E r \in Range(path) : Key(r) = Key(c)
  BY <1>4, <1>5, <1>6
<1>10. \A c, d \in counters : c.source = d.source => c = d
  <2> SUFFICES ASSUME NEW c \in counters, NEW d \in counters, c.source = d.source PROVE c = d
    OBVIOUS
  <2>1. PICK r \in Range(path) : Key(r) = Key(c)
    BY <1>9
  <2>2. PICK q \in Range(path) : Key(q) = Key(d)
    BY <1>9
  <2>3. r.source = c.source /\ r.time = c.time /\ q.source = d.source /\ q.time = d.time
    BY <2>1, <2>2 DEF Key
  <2>4. Key(c) = Key(d)
    BY <1>8, <2>3 DEF Key
  <2> QED BY <1>4, <2>4
<1>11. Cardinality(counters) = Cardinality({c.source : c \in counters})
  <2> DEFINE S == {c.source : c \in counters}
             h == [c \in counters |-> c.source]
  <2>1. h \in Surjection(counters, S)
    BY DEF Surjection
  <2>2. h \in Injection(counters, S)
    BY <1>10 DEF Injection, IsInjective
  <2> HIDE DEF h, S
  <2>3. Cardinality(S) = Cardinality(counters)
    BY <1>4, <2>1, <2>2, FS_Surjection
  <2> QED BY <2>3 DEF S
<1>12. ASSUME NEW r \in Range(path), measured(r), ~counted(r)
       PROVE  Cardinality({q \in DOMAIN pins : pins[q] >= r.time}) > MaxCycleCounterKeys
  <2>1. Key(r) \notin asked
    <3>1. PICK i \in DOMAIN table : Key(table[i]) = Key(r) /\ EffectiveSent(table[i]) > 0
      BY <1>12
    <3> QED BY <1>4, <1>12, <3>1
  <2>2. Key(r) \in Range(keys) \ asked
    BY <1>6, <2>1
  <2> DEFINE E == {q \in Range(keys) : q.time >= Key(r).time}
             D == {q \in DOMAIN pins : pins[q] >= r.time}
             h == [q \in E |-> q.source]
  <2>3. Cardinality(E) > MaxCycleCounterKeys
    BY <1>5, <2>2
  <2>4. \A q \in Range(keys) : q = [source |-> q.source, time |-> pins[q.source]] /\ q.source \in DOMAIN pins
    BY <1>2, <1>6 DEF Key
  <2>5. h \in Injection(E, D)
    <3>1. \A q \in E : q.source \in D
      BY <2>4 DEF Key
    <3>2. \A p, q \in E : p.source = q.source => p = q
      BY <2>4
    <3>3. h \in [E -> D] /\ \A p, q \in E : h[p] = h[q] => p = q
      BY <3>1, <3>2
    <3> HIDE DEF h, E, D
    <3> QED BY <3>3 DEF Injection, IsInjective
  <2>6. IsFiniteSet(D)
    BY FS_Subset DEF Pinned
  <2> HIDE DEF E, D, h
  <2>7. Cardinality(E) <= Cardinality(D) /\ Cardinality(E) \in Nat /\ Cardinality(D) \in Nat
    BY <2>5, <2>6, FS_Injection, FS_CardinalityType
  <2>8. Cardinality(D) > MaxCycleCounterKeys
    <3>1. MaxCycleCounterKeys \in Nat
      BY StoreAssumption
    <3> QED BY <2>3, <2>7, <3>1
  <2> QED BY <2>8 DEF D
<1>13. \A r \in Range(path) : measured(r) /\ ~counted(r) =>
         Cardinality({q \in DOMAIN pins : pins[q] >= r.time}) > MaxCycleCounterKeys
  BY <1>12
<1>14. \A c \in counters :
         /\ \E r \in Range(path) : Key(r) = Key(c)
         /\ \E i \in DOMAIN table :
              Key(table[i]) = Key(c) /\ EffectiveSent(table[i]) = c.sent /\ table[i].lost = c.lost
  BY <1>4, <1>9
<1> QED BY <1>7, <1>8, <1>11, <1>13, <1>14 DEF PathIsOneCycle, table, path, counters

(* Every pinned read of a table, at any instant. *)
LEMMA PathsArePaired ==
  ASSUME NEW cycles, IsTable(cycles), NEW clock, NEW half
  PROVE  PathsAreOneCycle(cycles, clock, half)
<1>1. ASSUME NEW at, NEW pins \in LatestPins(cycles, at, clock) \cup NearestPins(cycles, at, half, clock)
      PROVE  PathIsOneCycle(cycles, pins)
  BY PinsFacts, PathIsPaired
<1> QED BY <1>1 DEF PathsAreOneCycle, StoredHops

-----------------------------------------------------------------------------
(* The status strip.                                                          *)

(* The newest point of a source is one of its points. *)
LEMMA NewestFacts ==
  ASSUME NEW points \in Seq(CycleRows), NEW s \in SourcesIn(points)
  PROVE  /\ NewestOf(points, s) \in Nat
         /\ \E i \in DOMAIN points : points[i].source = s /\ points[i].time = NewestOf(points, s)
         /\ \A i \in DOMAIN points : points[i].source = s => points[i].time <= NewestOf(points, s)
<1> DEFINE P == {i \in DOMAIN points : points[i].source = s}
           part == Picked(points, P)
           T == {p.time : p \in Range(part)}
           Times == {points[i].time : i \in P}
<1>1. NewestOf(points, s) = Max(T)
  BY DEF NewestOf, OfSource, Chosen
<1>2. P \in SUBSET (DOMAIN points)
  OBVIOUS
<1>3. \A x : x \in Range(part) <=> \E i \in P : points[i] = x
  <2> HIDE DEF P
  <2> QED BY <1>2, PickedIs
<1>4. T = Times
  <2> HIDE DEF part, P
  <2> QED BY <1>3
<1> HIDE DEF part, T
<1>5. \A i \in DOMAIN points : points[i].time \in Nat
  <2>1. \A i \in DOMAIN points : points[i] \in CycleRows
    OBVIOUS
  <2>2. \A r \in CycleRows : r.time \in Nat
    BY DEF CycleRows
  <2> QED BY <2>1, <2>2
<1>6. \E i \in DOMAIN points : points[i].source = s
  BY DEF SourcesIn, Range
<1>7. IsFiniteSet(Times)
  <2> DEFINE f == [i \in DOMAIN points |-> points[i].time]
  <2>1. IsFiniteSet({f[i] : i \in P})
    <3> HIDE DEF P, f
    <3> QED BY <1>2, PlacesFinite
  <2>2. {f[i] : i \in P} = Times
    BY <1>2
  <2> QED BY <2>1, <2>2
<1>8. Times \in SUBSET Int /\ Times # {} /\ Times \in SUBSET Nat
  BY <1>5, <1>6
<1> HIDE DEF Times
<1>9. Max(Times) \in Times /\ \A x \in Times : x <= Max(Times)
  BY <1>7, <1>8, MaxMinFacts
<1>10. PICK i \in P : points[i].time = Max(Times)
  BY <1>9 DEF Times
<1>11. \A j \in P : points[j].time <= Max(Times)
  BY <1>9 DEF Times
<1> QED BY <1>1, <1>4, <1>8, <1>9, <1>10, <1>11

(* The sources of a list of rows. *)
LEMMA SourcesFacts ==
  ASSUME NEW points \in Seq(CycleRows)
  PROVE  /\ SourcesIn(points) \in SUBSET Nat /\ IsFiniteSet(SourcesIn(points))
         /\ \A s : s \in SourcesIn(points) <=> \E i \in DOMAIN points : points[i].source = s
<1>1. \A s : s \in SourcesIn(points) <=> \E i \in DOMAIN points : points[i].source = s
  BY DEF SourcesIn, Range
<1>2. \A i \in DOMAIN points : points[i].source \in Nat
  <2>1. \A i \in DOMAIN points : points[i] \in CycleRows
    OBVIOUS
  <2>2. \A r \in CycleRows : r.source \in Nat
    BY StoreAssumption DEF CycleRows
  <2> QED BY <2>1, <2>2
<1>3. IsFiniteSet(SourcesIn(points))
  <2> DEFINE f == [i \in DOMAIN points |-> points[i].source]
             P == DOMAIN points
  <2>1. IsFiniteSet({f[i] : i \in P})
    <3>1. P \in SUBSET (DOMAIN points)
      OBVIOUS
    <3> HIDE DEF f, P
    <3> QED BY <3>1, PlacesFinite
  <2>2. {f[i] : i \in P} = SourcesIn(points)
    BY <1>1
  <2> QED BY <2>1, <2>2
<1> QED BY <1>1, <1>2, <1>3

(* How many points of its source come after a place. *)
NewerThan(points, i) == Cardinality({j \in (i + 1)..Len(points) : points[j].source = points[i].source})

(* The places that trimming leaves. *)
NewestPlaces(points, most) == {i \in DOMAIN points : NewerThan(points, i) < most}

(* Trimming a list that is in the order of time keeps the newest of each      *)
(* source, so the sources and their newest times.                             *)
LEMMA TrimKeepsNewest ==
  ASSUME NEW points \in Seq(CycleRows), NEW most \in Nat \ {0},
         \A k, l \in DOMAIN points : k < l => points[k].time <= points[l].time
  PROVE  LET trimmed == TrimPerSource(points, most)
         IN  /\ trimmed = Picked(points, NewestPlaces(points, most)) /\ trimmed \in Seq(CycleRows)
             /\ SourcesIn(trimmed) = SourcesIn(points)
             /\ \A s \in SourcesIn(points) : NewestOf(trimmed, s) = NewestOf(points, s)
<1> DEFINE A == NewestPlaces(points, most)
           trimmed == TrimPerSource(points, most)
<1>1. trimmed = Picked(points, A)
  BY DEF TrimPerSource, NewestPlaces, NewerThan
<1>2. A \in SUBSET (DOMAIN points)
  BY DEF NewestPlaces
<1>3. DOMAIN points = 1..Len(points) /\ Len(points) \in Nat
  OBVIOUS
<1> HIDE DEF trimmed, A
<1>4. /\ trimmed \in Seq(CycleRows)
      /\ \A x : x \in Range(trimmed) <=> \E i \in A : points[i] = x
  BY <1>1, <1>2, PickedIs
<1>5. \A i \in DOMAIN points : points[i].time \in Nat
  <2>1. \A i \in DOMAIN points : points[i] \in CycleRows
    OBVIOUS
  <2>2. \A r \in CycleRows : r.time \in Nat
    BY DEF CycleRows
  <2> QED BY <2>1, <2>2
<1>6. ASSUME NEW s \in SourcesIn(points)
      PROVE  \E i \in A : points[i].source = s /\ points[i].time = NewestOf(points, s)
  <2> DEFINE D == {i \in DOMAIN points : points[i].source = s}
             final == Max(D)
  <2>1. D \in SUBSET Int /\ D # {} /\ IsFiniteSet(D)
    <3>1. D # {}
      BY SourcesFacts
    <3>2. D \in SUBSET (DOMAIN points)
      OBVIOUS
    <3> HIDE DEF D
    <3>3. IsFiniteSet(D)
      BY <3>2, PlacesFinite
    <3>4. DOMAIN points \in SUBSET Int
      BY <1>3
    <3> QED BY <3>1, <3>2, <3>3, <3>4
  <2>2. final \in D /\ \A i \in D : i <= final
    <3> HIDE DEF D
    <3> QED BY <2>1, MaxMinFacts
  <2>3. /\ final \in DOMAIN points /\ points[final].source = s
        /\ \A i \in DOMAIN points : points[i].source = s => i <= final
    BY <2>2
  <2> HIDE DEF D, final
  <2>4. {j \in (final + 1)..Len(points) : points[j].source = points[final].source} = {}
    BY <1>3, <2>3
  <2>5. final \in A
    <3>1. NewerThan(points, final) = 0
      BY <2>4, FS_EmptySet DEF NewerThan
    <3> QED BY <2>3, <3>1 DEF A, NewestPlaces
  <2>6. PICK i \in DOMAIN points : points[i].source = s /\ points[i].time = NewestOf(points, s)
    BY NewestFacts
  <2>7. points[final].time <= NewestOf(points, s) /\ NewestOf(points, s) \in Nat
    BY <2>3, NewestFacts
  <2>8. points[i].time <= points[final].time
    <3>1. i <= final
      BY <2>3, <2>6
    <3>2. CASE i = final
      BY <1>5, <2>6, <3>2
    <3>3. CASE i < final
      BY <2>3, <2>6, <3>3
    <3> QED BY <1>3, <2>3, <2>6, <3>1, <3>2, <3>3
  <2>9. points[final].time = NewestOf(points, s)
    BY <1>5, <2>3, <2>6, <2>7, <2>8
  <2> QED BY <2>3, <2>5, <2>9
<1>7. DOMAIN trimmed = 1..Len(trimmed) /\ \A x : x \in Range(trimmed) <=> \E k \in DOMAIN trimmed : trimmed[k] = x
  BY <1>4 DEF Range
<1>8. \A k \in DOMAIN trimmed : \E i \in A : points[i] = trimmed[k]
  BY <1>4, <1>7
<1>9. \A i \in A : \E k \in DOMAIN trimmed : points[i] = trimmed[k]
  BY <1>4, <1>7
<1>10. SourcesIn(trimmed) = SourcesIn(points)
  <2>1. ASSUME NEW s \in SourcesIn(trimmed) PROVE s \in SourcesIn(points)
    <3>1. PICK k \in DOMAIN trimmed : trimmed[k].source = s
      BY <1>4, SourcesFacts
    <3>2. PICK i \in A : points[i] = trimmed[k]
      BY <1>8
    <3> QED BY <1>2, <3>1, <3>2, SourcesFacts
  <2>2. ASSUME NEW s \in SourcesIn(points) PROVE s \in SourcesIn(trimmed)
    <3>1. PICK i \in A : points[i].source = s
      BY <1>6
    <3>2. PICK k \in DOMAIN trimmed : points[i] = trimmed[k]
      BY <1>9
    <3> QED BY <1>4, <3>1, <3>2, SourcesFacts
  <2> QED BY <2>1, <2>2
<1>11. ASSUME NEW s \in SourcesIn(points) PROVE NewestOf(trimmed, s) = NewestOf(points, s)
  <2>1. s \in SourcesIn(trimmed)
    BY <1>10
  <2>2. /\ NewestOf(trimmed, s) \in Nat
        /\ \E k \in DOMAIN trimmed : trimmed[k].source = s /\ trimmed[k].time = NewestOf(trimmed, s)
        /\ \A k \in DOMAIN trimmed : trimmed[k].source = s => trimmed[k].time <= NewestOf(trimmed, s)
    BY <1>4, <2>1, NewestFacts
  <2>3. /\ NewestOf(points, s) \in Nat
        /\ \A i \in DOMAIN points : points[i].source = s => points[i].time <= NewestOf(points, s)
    BY NewestFacts
  <2>4. PICK i \in A : points[i].source = s /\ points[i].time = NewestOf(points, s)
    BY <1>6
  <2>5. PICK k \in DOMAIN trimmed : trimmed[k] = points[i]
    BY <1>9
  <2>6. NewestOf(points, s) <= NewestOf(trimmed, s)
    BY <2>2, <2>4, <2>5
  <2>7. PICK l \in DOMAIN trimmed : trimmed[l].source = s /\ trimmed[l].time = NewestOf(trimmed, s)
    BY <2>2
  <2>8. PICK j \in A : points[j] = trimmed[l]
    BY <1>8
  <2>9. NewestOf(trimmed, s) <= NewestOf(points, s)
    BY <1>2, <2>3, <2>7, <2>8
  <2> QED BY <2>2, <2>3, <2>6, <2>9
<1> QED BY <1>1, <1>4, <1>10, <1>11 DEF trimmed, A

(* The sources that are kept are the first few by their newest points. *)
AheadOf(points, s) ==
  {q \in SourcesIn(points) :
     \/ NewestOf(points, q) > NewestOf(points, s)
     \/ NewestOf(points, q) = NewestOf(points, s) /\ q < s}
KeptSources(points, most) == {s \in SourcesIn(points) : Cardinality(AheadOf(points, s)) < most}

LEMMA KeptAreNewest ==
  ASSUME NEW points \in Seq(CycleRows), NEW most \in Nat
  PROVE  LET kept == KeptSources(points, most)
         IN  /\ Cardinality(kept) = Min({Cardinality(SourcesIn(points)), most})
             /\ kept \in SUBSET SourcesIn(points)
             /\ \A s \in kept, q \in SourcesIn(points) \ kept :
                  NewestOf(points, s) >= NewestOf(points, q)
<1> DEFINE S == SourcesIn(points)
           B == {p \in S \X S : \/ NewestOf(points, p[1]) > NewestOf(points, p[2])
                                \/ NewestOf(points, p[1]) = NewestOf(points, p[2]) /\ p[1] < p[2]}
           kept == KeptSources(points, most)
           new == [s \in S |-> NewestOf(points, s)]
<1>1. S \in SUBSET Nat /\ IsFiniteSet(S) /\ \A s \in S : NewestOf(points, s) \in Nat
  BY SourcesFacts, NewestFacts
<1>2. \A s \in S : new[s] = NewestOf(points, s)
  OBVIOUS
<1>3. \A s \in S : new[s] \in Nat
  BY <1>1, <1>2
<1>4. \A q, s \in S : <<q, s>> \in B <=> new[q] > new[s] \/ (new[q] = new[s] /\ q < s)
  BY <1>2
<1> HIDE DEF S, B, new
<1>5. IsOrder(S, B)
  <2>1. \A i, j \in S : i # j => (<<i, j>> \in B \/ <<j, i>> \in B)
    BY <1>1, <1>3, <1>4
  <2>2. \A i, j \in S : <<i, j>> \in B => <<j, i>> \notin B
    BY <1>1, <1>3, <1>4
  <2>3. ASSUME NEW i \in S, NEW j \in S, NEW k \in S, <<i, j>> \in B, <<j, k>> \in B
        PROVE  <<i, k>> \in B
    <3>1. /\ new[i] > new[j] \/ (new[i] = new[j] /\ i < j)
          /\ new[j] > new[k] \/ (new[j] = new[k] /\ j < k)
      BY <1>4, <2>3
    <3>2. i \in Int /\ j \in Int /\ k \in Int /\ new[i] \in Int /\ new[j] \in Int /\ new[k] \in Int
      BY <1>1, <1>3
    <3>3. new[i] > new[k] \/ (new[i] = new[k] /\ i < k)
      BY <3>1, <3>2
    <3> QED BY <1>4, <3>3
  <2> QED BY <2>1, <2>2, <2>3 DEF IsOrder
<1>6. \A s \in S : AheadOf(points, s) = Earlier(S, B, s)
  BY <1>2, <1>4 DEF AheadOf, Earlier, S
<1>7. kept = {s \in S : Cardinality(Earlier(S, B, s)) < most}
  BY <1>6 DEF KeptSources, S
<1> HIDE DEF kept
<1>8. /\ Cardinality(kept) = Min({Cardinality(S), most})
      /\ \A s \in kept, q \in S \ kept : <<s, q>> \in B
  <2> DEFINE E == {s \in S : Cardinality(Earlier(S, B, s)) < most}
  <2>1. Cardinality(E) = Min({Cardinality(S), most}) /\ \A i \in E, j \in S \ E : <<i, j>> \in B
    BY <1>1, <1>5, FirstOfOrder
  <2>2. kept = E
    BY <1>7
  <2> HIDE DEF E
  <2> QED BY <2>1, <2>2
<1>9. kept \in SUBSET S
  BY <1>7
<1>10. \A s \in kept, q \in S \ kept : NewestOf(points, s) >= NewestOf(points, q)
  <2> SUFFICES ASSUME NEW s \in kept, NEW q \in S \ kept PROVE NewestOf(points, s) >= NewestOf(points, q)
    OBVIOUS
  <2>1. s \in S /\ q \in S /\ <<s, q>> \in B
    BY <1>8, <1>9
  <2>2. new[s] >= new[q]
    BY <1>3, <1>4, <2>1
  <2> QED BY <1>2, <2>1, <2>2
<1> QED BY <1>8, <1>9, <1>10 DEF kept, S

(* Of a trimmed list, a source has the last few of its points. *)
LEMMA TrimIsSuffix ==
  ASSUME NEW points \in Seq(CycleRows), NEW most \in Nat \ {0}, NEW s
  PROVE  LET all == OfSource(points, s)
         IN  Picked(points, {i \in NewestPlaces(points, most) : points[i].source = s})
               = SubSeq(all, Max({1, Len(all) - most + 1}), Len(all))
<1> DEFINE R == {i \in DOMAIN points : points[i].source = s}
           all == Picked(points, R)
           size == Len(all)
           low == Max({1, size - most + 1})
           m == low - 1
           Q == {i \in NewestPlaces(points, most) : points[i].source = s}
<1>1. OfSource(points, s) = all
  BY DEF OfSource, Chosen
<1>2. R \in SUBSET (DOMAIN points) /\ Q \in SUBSET R /\ \A i \in R : i \in Q <=> NewerThan(points, i) < most
  BY DEF NewestPlaces
<1>3. DOMAIN points = 1..Len(points) /\ Len(points) \in Nat /\ R \in SUBSET Int
  OBVIOUS
<1>4. \A i \in R : NewerThan(points, i) = Cardinality({j \in R : j > i})
  <2> SUFFICES ASSUME NEW i \in R
               PROVE  {j \in (i + 1)..Len(points) : points[j].source = points[i].source} = {j \in R : j > i}
    BY DEF NewerThan
  <2> QED BY <1>3
<1> HIDE DEF R, Q
<1>5. /\ all \in Seq(CycleRows) /\ DOMAIN all = 1..size /\ size \in Nat
      /\ \E f : Climbs(f, size, R) /\ \A k \in DOMAIN all : all[k] = points[f[k]] /\ f[k] \in R
  BY <1>2, PickedIs
<1>6. PICK f : Climbs(f, size, R) /\ \A k \in DOMAIN all : all[k] = points[f[k]] /\ f[k] \in R
  BY <1>5
<1> HIDE DEF all
<1> HIDE DEF size
<1>7. low \in Nat /\ low >= 1 /\ low >= size - most + 1 /\ (low = 1 \/ low = size - most + 1) /\ m \in 0..size
  <2>1. {1, size - most + 1} \in SUBSET Int /\ {1, size - most + 1} # {} /\ IsFiniteSet({1, size - most + 1})
    <3>1. IsFiniteSet({1}) /\ {1} \cup {size - most + 1} = {1, size - most + 1}
      BY FS_Singleton
    <3>2. IsFiniteSet({1} \cup {size - most + 1})
      BY <3>1, FS_AddElement
    <3>3. size - most + 1 \in Int
      BY <1>5
    <3> QED BY <3>1, <3>2, <3>3
  <2>2. low \in {1, size - most + 1} /\ \A x \in {1, size - most + 1} : x <= low
    BY <2>1, MaxMinFacts
  <2> HIDE DEF low
  <2>3. low \in Int /\ low >= 1 /\ low >= size - most + 1 /\ (low = 1 \/ low = size - most + 1)
    BY <1>5, <2>2
  <2> QED BY <1>5, <2>3
<1> HIDE DEF low
<1>8. ASSUME NEW k \in 1..size PROVE NewerThan(points, f[k]) = size - k
  <2> DEFINE L == {j \in R : j > f[k]}
             g == [l \in 1..(size - k) |-> f[k + l]]
  <2>1. \A l \in 1..size : f[l] \in L <=> l > k
    <3> SUFFICES ASSUME NEW l \in 1..size PROVE f[l] > f[k] <=> l > k
      BY <1>5, <1>6
    <3>1. l > k => f[l] > f[k]
      BY <1>6 DEF Climbs
    <3>2. l < k => f[l] < f[k]
      BY <1>6 DEF Climbs
    <3>3. l \in Int /\ k \in Int /\ f[l] \in Int /\ f[k] \in Int
      <4>1. f[l] \in R /\ f[k] \in R
        BY <1>5, <1>6
      <4>2. \A i \in R : i \in Int
        BY <1>3
      <4>3. l \in Int /\ k \in Int
        BY <1>5
      <4> QED BY <4>1, <4>2, <4>3
    <3> QED BY <3>1, <3>2, <3>3
  <2>2. L \in SUBSET R /\ k \in 0..size
    OBVIOUS
  <2> HIDE DEF L
  <2>3. Climbs(g, size - k, L)
    BY <1>3, <1>6, <2>1, <2>2, ClimbsOn
  <2> HIDE DEF g
  <2>4. Cardinality(L) = size - k
    <3>1. L \in SUBSET (DOMAIN points)
      BY <1>2, <2>2
    <3> QED BY <2>3, <3>1, OneWayUp
  <2> QED BY <1>4, <1>5, <1>6, <2>4 DEF L
<1>9. \A k \in 1..size : f[k] \in Q <=> k > m
  <2> SUFFICES ASSUME NEW k \in 1..size PROVE f[k] \in Q <=> k > m
    OBVIOUS
  <2>1. f[k] \in R /\ NewerThan(points, f[k]) = size - k
    BY <1>5, <1>6, <1>8
  <2>2. f[k] \in Q <=> size - k < most
    BY <1>2, <2>1
  <2> QED BY <1>5, <1>7, <2>2
<1> DEFINE h == [k \in 1..(size - m) |-> f[m + k]]
<1> HIDE DEF m
<1>10. Climbs(h, size - m, Q)
  BY <1>2, <1>3, <1>6, <1>7, <1>9, ClimbsOn
<1>11. Picked(points, Q) = [k \in 1..(size - m) |-> points[h[k]]]
  <2>1. Q \in SUBSET (DOMAIN points)
    BY <1>2
  <2> HIDE DEF h
  <2> QED BY <1>10, <2>1, OneWayUp
<1>12. \A k \in 1..(size - m) : points[h[k]] = all[m + k]
  <2> SUFFICES ASSUME NEW k \in 1..(size - m) PROVE points[f[m + k]] = all[m + k]
    OBVIOUS
  <2>1. m + k \in 1..size
    BY <1>5, <1>7
  <2> QED BY <1>5, <1>6, <2>1
<1>13. SubSeq(all, low, size) = [k \in 1..(size - m) |-> all[m + k]]
  <2>1. SubSeq(all, low, size) = [k \in 1..(size - low + 1) |-> all[low + k - 1]]
    BY <1>5, <1>7
  <2>2. size - low + 1 = size - m /\ low = m + 1
    BY <1>5, <1>7 DEF m
  <2>3. \A k \in 1..(size - m) : low + k - 1 = m + k
    BY <1>7, <2>2
  <2> QED BY <2>1, <2>2, <2>3
<1>14. Picked(points, Q) = SubSeq(all, low, size)
  <2> HIDE DEF h
  <2> QED BY <1>11, <1>12, <1>13
<1> QED BY <1>1, <1>14 DEF Q, low, size

(* The strip of every table: StatusIsRecent (api.go lines 841 to 943).        *)
LEMMA StatusIsNewest ==
  ASSUME NEW cycles, IsTable(cycles), NEW from, NEW to
  PROVE  StatusIsRecent(cycles, from, to)
<1> DEFINE table == StoredCycles(cycles)
           listed == RawPoints(table, StoreSources, from, to)
           trimmed == TrimPerSource(listed, StatusCycles)
           A == NewestPlaces(listed, StatusCycles)
           kept == KeptSources(trimmed, StatusMaxSources)
           status == StatusOf(table, StoreSources, from, to)
           shown == Chosen(trimmed, LAMBDA p : p.source \in kept)
<1>1. StatusCycles \in Nat \ {0} /\ StatusMaxSources \in Nat
  BY StoreAssumption
<1>2. Stored(table)
  BY StoredCyclesFacts
<1>3. status.points = shown /\ status.omitted = Cardinality(SourcesIn(trimmed) \ kept)
  BY DEF StatusOf, KeepRecentSources, KeptSources, AheadOf
<1> HIDE DEF table, status
<1>4. listed \in Seq(CycleRows) /\ DOMAIN listed = 1..Len(listed) /\ Len(listed) \in Nat
      /\ \A k, l \in DOMAIN listed : k < l => listed[k].time <= listed[l].time
  <2>1. /\ listed \in Seq(CycleRows)
        /\ \E f : PointsOf(f, listed, table, Attempted(table, StoreSources, from, to))
    BY <1>2, RawFacts
  <2>2. \A k, l \in 1..Len(listed) : k < l => listed[k].time <= listed[l].time
    BY <2>1 DEF PointsOf
  <2> HIDE DEF listed
  <2>3. DOMAIN listed = 1..Len(listed) /\ Len(listed) \in Nat
    BY <2>1
  <2> QED BY <2>1, <2>2, <2>3
<1> HIDE DEF listed
<1>5. /\ trimmed = Picked(listed, A) /\ trimmed \in Seq(CycleRows)
      /\ SourcesIn(trimmed) = SourcesIn(listed)
      /\ \A s \in SourcesIn(listed) : NewestOf(trimmed, s) = NewestOf(listed, s)
  BY <1>1, <1>4, TrimKeepsNewest
<1> HIDE DEF trimmed
<1>6. /\ Cardinality(kept) = Min({Cardinality(SourcesIn(listed)), StatusMaxSources})
      /\ kept \in SUBSET SourcesIn(listed)
      /\ \A s \in kept, q \in SourcesIn(listed) \ kept : NewestOf(trimmed, s) >= NewestOf(trimmed, q)
  BY <1>1, <1>5, KeptAreNewest
<1>7. A \in SUBSET (DOMAIN listed)
  BY DEF NewestPlaces
<1> HIDE DEF kept, A
<1>8. \A s \in kept, q \in SourcesIn(listed) \ kept : NewestOf(listed, s) >= NewestOf(listed, q)
  BY <1>5, <1>6
<1> DEFINE T == {r \in CycleRows : r.source \in kept}
           P == {k \in DOMAIN trimmed : trimmed[k].source \in kept}
           Q == {i \in A : listed[i].source \in kept}
<1>9. \A i \in DOMAIN listed : listed[i] \in CycleRows
  BY <1>4
<1>10. \A k \in DOMAIN trimmed : trimmed[k] \in CycleRows
  BY <1>5
<1>11. shown = Picked(trimmed, P)
  BY DEF Chosen
<1>12. shown = Picked(listed, Q)
  <2>1. P = {k \in DOMAIN trimmed : trimmed[k] \in T}
    BY <1>10
  <2>2. Q = {i \in A : listed[i] \in T}
    BY <1>7, <1>9
  <2>3. Sifted(P, Picked(listed, A), DOMAIN Picked(listed, A), T) /\ Sifted(Q, listed, A, T)
    BY <1>5, <2>1, <2>2 DEF Sifted
  <2> HIDE DEF T, P, Q, shown
  <2>4. Picked(Picked(listed, A), P) = Picked(listed, Q)
    BY <1>4, <1>7, <2>3, PickedTwice
  <2> QED BY <1>5, <1>11, <2>4
<1> HIDE DEF shown, T, P
<1>13. Q \in SUBSET (DOMAIN listed)
  BY <1>7
<1>14. shown \in Seq(CycleRows) /\ \A x : x \in Range(shown) <=> \E i \in Q : listed[i] = x
  <2> HIDE DEF Q
  <2> QED BY <1>4, <1>12, <1>13, PickedIs
<1>15. SourcesIn(shown) = kept
  <2>1. \A s : s \in SourcesIn(shown) <=> \E i \in Q : listed[i].source = s
    <3> HIDE DEF Q
    <3> QED BY <1>14 DEF SourcesIn
  <2>2. ASSUME NEW s \in kept PROVE \E i \in Q : listed[i].source = s
    <3>1. s \in SourcesIn(trimmed)
      BY <1>5, <1>6
    <3>2. PICK k \in DOMAIN trimmed : trimmed[k].source = s
      BY <1>5, <3>1, SourcesFacts
    <3>3. \A x : x \in Range(trimmed) <=> \E i \in A : listed[i] = x
      BY <1>4, <1>5, <1>7, PickedIs
    <3>4. PICK i \in A : listed[i] = trimmed[k]
      BY <3>3 DEF Range
    <3> QED BY <3>2, <3>4
  <2> QED BY <2>1, <2>2
<1>16. ASSUME NEW s \in kept
       PROVE  OfSource(shown, s)
                = SubSeq(OfSource(listed, s), Max({1, Len(OfSource(listed, s)) - StatusCycles + 1}),
                         Len(OfSource(listed, s)))
  <2> DEFINE U == {r \in CycleRows : r.source = s}
             V == {k \in DOMAIN shown : shown[k].source = s}
             W == {i \in A : listed[i].source = s}
  <2>1. OfSource(shown, s) = Picked(shown, V)
    BY DEF OfSource, Chosen
  <2>2. V = {k \in DOMAIN shown : shown[k] \in U}
    <3>1. \A k \in DOMAIN shown : shown[k] \in CycleRows
      BY <1>14
    <3> QED BY <3>1
  <2>3. W = {i \in Q : listed[i] \in U}
    BY <1>7, <1>9
  <2>4. Sifted(V, Picked(listed, Q), DOMAIN Picked(listed, Q), U) /\ Sifted(W, listed, Q, U)
    <3> HIDE DEF Q, U
    <3> QED BY <1>12, <2>2, <2>3 DEF Sifted
  <2> HIDE DEF U, V, W, Q
  <2>5. OfSource(shown, s) = Picked(listed, W)
    <3>1. Picked(Picked(listed, Q), V) = Picked(listed, W)
      BY <1>4, <1>13, <2>4, PickedTwice
    <3> QED BY <1>12, <2>1, <3>1
  <2>6. Picked(listed, W)
          = SubSeq(OfSource(listed, s), Max({1, Len(OfSource(listed, s)) - StatusCycles + 1}),
                   Len(OfSource(listed, s)))
    BY <1>1, <1>4, TrimIsSuffix DEF W, A
  <2> QED BY <2>5, <2>6
<1>17. status.points = shown /\ status.omitted = Cardinality(SourcesIn(listed) \ kept)
  BY <1>3, <1>5 DEF shown
<1> HIDE DEF Q
<1>18. /\ Cardinality(SourcesIn(status.points)) = Min({Cardinality(SourcesIn(listed)), StatusMaxSources})
       /\ status.omitted = Cardinality(SourcesIn(listed) \ SourcesIn(status.points))
  BY <1>6, <1>15, <1>17
<1>19. \A s \in SourcesIn(status.points) :
         OfSource(status.points, s)
           = SubSeq(OfSource(listed, s), Max({1, Len(OfSource(listed, s)) - StatusCycles + 1}),
                    Len(OfSource(listed, s)))
  BY <1>15, <1>16, <1>17
<1>20. \A s \in SourcesIn(status.points), q \in SourcesIn(listed) \ SourcesIn(status.points) :
         NewestOf(listed, s) >= NewestOf(listed, q)
  BY <1>8, <1>15, <1>17
<1> QED BY <1>18, <1>19, <1>20 DEF StatusIsRecent, listed, status, table

-----------------------------------------------------------------------------
(* Weighted quantiles.                                                        *)

(* The weight of the values up to v, and the places a quantile may be of.     *)
WeightUpTo(places, value, weight, v) == SumOver({i \in places : value[i] <= v}, LAMBDA i : weight[i])
AllOf(places, weight) == SumOver(places, LAMBDA i : weight[i])
Reaching(places, value, weight, level) ==
  {j \in places : /\ weight[j] > 0
                  /\ 100 * WeightUpTo(places, value, weight, value[j]) >= level * AllOf(places, weight)}

(* The definition, in those terms. *)
LEMMA QuantileIs ==
  ASSUME NEW places, NEW value, NEW weight, NEW level
  PROVE  QuantileExactWeighted(places, value, weight, level)
           = IF AllOf(places, weight) = 0 THEN 0
             ELSE Min({value[i] : i \in Reaching(places, value, weight, level)})
<1> DEFINE weighty == {i \in places : weight[i] > 0}
           all == AllOf(places, weight)
           up(v) == WeightUpTo(places, value, weight, v)
<1>1. QuantileExactWeighted(places, value, weight, level)
        = IF all = 0 THEN 0
          ELSE Min({value[i] : i \in {j \in weighty : 100 * up(value[j]) >= level * all}})
  BY DEF QuantileExactWeighted, AllOf, WeightUpTo
<1>2. {j \in weighty : 100 * up(value[j]) >= level * all} = Reaching(places, value, weight, level)
  <2> HIDE DEF all, up
  <2>1. {j \in weighty : 100 * up(value[j]) >= level * all}
          = {j \in places : weight[j] > 0 /\ 100 * up(value[j]) >= level * all}
    OBVIOUS
  <2> QED BY <2>1 DEF Reaching, up, all
<1> HIDE DEF all, up, weighty
<1> QED BY <1>1, <1>2 DEF all

(* The sums of a quantile. *)
LEMMA QuantileSums ==
  ASSUME NEW places, NEW weight, Weights(weight, places), NEW value, NEW v
  PROVE  LET S == {i \in places : value[i] <= v}
         IN  /\ WeightUpTo(places, value, weight, v) = SumFunctionOnSet(weight, S)
             /\ AllOf(places, weight) = SumFunctionOnSet(weight, places)
             /\ S \in SUBSET places /\ Weights(weight, S)
             /\ WeightUpTo(places, value, weight, v) \in Nat /\ AllOf(places, weight) \in Nat
<1> DEFINE S == {i \in places : value[i] <= v}
<1>1. S \in SUBSET places
  OBVIOUS
<1>2. ASSUME NEW R \in SUBSET places
      PROVE  Weights(weight, R) /\ SumOver(R, LAMBDA i : weight[i]) = SumFunctionOnSet(weight, R)
  <2> DEFINE w == [i \in R |-> weight[i]]
  <2>1. Weights(weight, R)
    BY FS_Subset DEF Weights
  <2>2. \A i \in R : w[i] = weight[i]
    OBVIOUS
  <2> HIDE DEF w
  <2>3. SumFunctionOnSet(w, R) = SumFunctionOnSet(weight, R)
    BY <2>1, <2>2, SameSums
  <2> QED BY <2>1, <2>3 DEF SumOver, w
<1>3. WeightUpTo(places, value, weight, v) = SumFunctionOnSet(weight, S) /\ Weights(weight, S)
  <2>1. WeightUpTo(places, value, weight, v) = SumOver(S, LAMBDA i : weight[i])
    BY DEF WeightUpTo
  <2> HIDE DEF S
  <2> QED BY <1>1, <1>2, <2>1
<1>4. AllOf(places, weight) = SumFunctionOnSet(weight, places)
  BY <1>2 DEF AllOf
<1>5. SumFunctionOnSet(weight, S) \in Nat /\ SumFunctionOnSet(weight, places) \in Nat
  <2> HIDE DEF S
  <2> QED BY <1>3, SumPositive
<1> QED BY <1>1, <1>3, <1>4, <1>5

(* Places of the same values and weights have the same quantiles.             *)
LEMMA QuantileAlike ==
  ASSUME NEW P, NEW weight, Weights(weight, P), NEW Q, NEW less, Weights(less, Q),
         NEW h, Carries(h, less, Q, weight, P), NEW value, NEW other, \A x \in Q : value[h[x]] = other[x],
         NEW level
  PROVE  /\ AllOf(P, weight) = AllOf(Q, less)
         /\ QuantileExactWeighted(P, value, weight, level) = QuantileExactWeighted(Q, other, less, level)
<1>1. AllOf(P, weight) = AllOf(Q, less)
  <2>1. SumFunctionOnSet(weight, P) = SumFunctionOnSet(less, Q)
    BY SumsAlike
  <2> QED BY <2>1, QuantileSums
<1>2. /\ h \in [Q -> P] /\ \A x, y \in Q : h[x] = h[y] => x = y
      /\ \A x \in Q : weight[h[x]] = less[x]
      /\ \A y \in P : weight[y] # 0 => \E x \in Q : h[x] = y
  BY DEF Carries
<1>3. ASSUME NEW v PROVE WeightUpTo(P, value, weight, v) = WeightUpTo(Q, other, less, v)
  <2> DEFINE R == {i \in P : value[i] <= v}
             S == {x \in Q : other[x] <= v}
             g == [x \in S |-> h[x]]
  <2>1. Weights(weight, R) /\ WeightUpTo(P, value, weight, v) = SumFunctionOnSet(weight, R)
    BY QuantileSums
  <2>2. Weights(less, S) /\ WeightUpTo(Q, other, less, v) = SumFunctionOnSet(less, S)
    BY QuantileSums
  <2>3. \A x \in Q : h[x] \in R <=> x \in S
    BY <1>2
  <2>4. R \in SUBSET P /\ S \in SUBSET Q
    OBVIOUS
  <2> HIDE DEF R, S
  <2>5. \A x \in S : g[x] = h[x] /\ x \in Q
    BY <2>4
  <2>6. g \in [S -> R]
    BY <2>3, <2>4
  <2> HIDE DEF g
  <2>7. \A y \in R : weight[y] # 0 => \E x \in S : g[x] = y
    BY <1>2, <2>3, <2>4, <2>5
  <2>8. \A x, y \in S : g[x] = g[y] => x = y
    BY <1>2, <2>5
  <2>9. \A x \in S : weight[g[x]] = less[x]
    BY <1>2, <2>5
  <2>10. Carries(g, less, S, weight, R)
    BY <2>6, <2>7, <2>8, <2>9 DEF Carries
  <2> QED BY <2>1, <2>2, <2>10, SumsAlike
<1>4. {value[i] : i \in Reaching(P, value, weight, level)} = {other[x] : x \in Reaching(Q, other, less, level)}
  <2>1. ASSUME NEW x \in Reaching(Q, other, less, level)
        PROVE  \E i \in Reaching(P, value, weight, level) : value[i] = other[x]
    <3>1. x \in Q /\ less[x] > 0 /\ 100 * WeightUpTo(Q, other, less, other[x]) >= level * AllOf(Q, less)
      BY DEF Reaching
    <3>2. h[x] \in P /\ weight[h[x]] > 0 /\ value[h[x]] = other[x]
      BY <1>2, <3>1
    <3>3. 100 * WeightUpTo(P, value, weight, value[h[x]]) >= level * AllOf(P, weight)
      BY <1>1, <1>3, <3>1, <3>2
    <3>4. h[x] \in Reaching(P, value, weight, level)
      BY <3>2, <3>3 DEF Reaching
    <3> QED BY <3>2, <3>4
  <2>2. ASSUME NEW i \in Reaching(P, value, weight, level)
        PROVE  \E x \in Reaching(Q, other, less, level) : value[i] = other[x]
    <3>1. i \in P /\ weight[i] > 0 /\ 100 * WeightUpTo(P, value, weight, value[i]) >= level * AllOf(P, weight)
      BY DEF Reaching
    <3>2. weight[i] # 0
      BY <3>1
    <3>3. PICK x \in Q : h[x] = i
      BY <1>2, <3>1, <3>2
    <3>4. less[x] > 0 /\ value[i] = other[x]
      BY <1>2, <3>1, <3>3
    <3>5. 100 * WeightUpTo(Q, other, less, other[x]) >= level * AllOf(Q, less)
      BY <1>1, <1>3, <3>1, <3>4
    <3>6. x \in Reaching(Q, other, less, level)
      BY <3>3, <3>4, <3>5 DEF Reaching
    <3> QED BY <3>4, <3>6
  <2> QED BY <2>1, <2>2
<1>5. /\ QuantileExactWeighted(P, value, weight, level)
           = IF AllOf(P, weight) = 0 THEN 0
             ELSE Min({value[i] : i \in Reaching(P, value, weight, level)})
      /\ QuantileExactWeighted(Q, other, less, level)
           = IF AllOf(Q, less) = 0 THEN 0
             ELSE Min({other[i] : i \in Reaching(Q, other, less, level)})
  BY QuantileIs
<1> QED BY <1>1, <1>4, <1>5

(* A quantile is a value that has a weight, where there is one.               *)
LEMMA QuantileIsValue ==
  ASSUME NEW P, NEW weight, Weights(weight, P), NEW value, \A i \in P : value[i] \in Nat,
         NEW level \in 0..100
  PROVE  LET q == QuantileExactWeighted(P, value, weight, level)
         IN  /\ q \in Nat
             /\ IF \E i \in P : weight[i] > 0 THEN \E i \in P : weight[i] > 0 /\ q = value[i]
                ELSE q = 0
<1> DEFINE q == QuantileExactWeighted(P, value, weight, level)
           all == AllOf(P, weight)
           R == Reaching(P, value, weight, level)
           Values == {value[i] : i \in R}
<1>1. q = IF all = 0 THEN 0 ELSE Min(Values)
  BY QuantileIs
<1>2. all = SumFunctionOnSet(weight, P) /\ all \in Nat
  BY QuantileSums
<1>3. all > 0 <=> \E i \in P : weight[i] > 0
  BY <1>2, SumPositive
<1> HIDE DEF q, all
<1>4. ASSUME all > 0 PROVE \E i \in P : weight[i] > 0 /\ q = value[i]
  <2> DEFINE W == {i \in P : weight[i] > 0}
             T == {value[i] : i \in W}
             f == [i \in W |-> value[i]]
  <2>1. IsFiniteSet(W)
    BY FS_Subset DEF Weights
  <2>2. f \in Surjection(W, T)
    BY DEF Surjection
  <2>3. T # {} /\ T \in SUBSET Int /\ T \in SUBSET Nat
    BY <1>3, <1>4
  <2>4. IsFiniteSet(T)
    <3> HIDE DEF W, T, f
    <3> QED BY <2>1, <2>2, FS_Surjection
  <2>5. PICK top \in T : \A t \in T : t <= top
    <3> HIDE DEF T
    <3> QED BY <2>3, <2>4, MaxMinFacts
  <2>6. PICK j \in W : value[j] = top
    BY <2>5
  <2>7. \A i \in W : value[i] <= value[j]
    BY <2>5, <2>6
  <2>8. WeightUpTo(P, value, weight, value[j]) = all
    <3> DEFINE S == {i \in P : value[i] <= value[j]}
    <3>1. S \in SUBSET P /\ \A i \in P : weight[i] # 0 => i \in S
      BY <2>7 DEF Weights
    <3> HIDE DEF S, W
    <3>2. SumFunctionOnSet(weight, P) = SumFunctionOnSet(weight, S)
      BY <3>1, SumWithoutZeros
    <3>3. WeightUpTo(P, value, weight, value[j]) = SumFunctionOnSet(weight, S)
      BY QuantileSums DEF S
    <3> QED BY <1>2, <3>2, <3>3
  <2>9. j \in R
    <3>1. 100 * all >= level * all
      <4>1. level <= 100 /\ level \in Nat
        OBVIOUS
      <4> QED BY <1>2, <4>1
    <3>2. j \in P /\ weight[j] > 0
      BY <2>6
    <3> QED BY <2>8, <3>1, <3>2 DEF Reaching, all
  <2>10. R \in SUBSET W
    BY DEF Reaching
  <2>11. Values \in SUBSET T /\ Values # {}
    BY <2>9, <2>10
  <2>12. IsFiniteSet(Values)
    <3> HIDE DEF T, Values
    <3> QED BY <2>4, <2>11, FS_Subset
  <2>13. Min(Values) \in Values
    <3>1. Values \in SUBSET Int
      BY <2>3, <2>11
    <3> HIDE DEF Values
    <3> QED BY <2>11, <2>12, <3>1, MaxMinFacts
  <2>14. q \in Values
    BY <1>1, <1>4, <2>13
  <2>15. q \in T
    BY <2>11, <2>14
  <2> QED BY <2>15
<1>5. ASSUME ~(all > 0) PROVE q = 0
  BY <1>1, <1>2, <1>5
<1> QED BY <1>3, <1>4, <1>5 DEF q

-----------------------------------------------------------------------------
(* The cycles with a latency.                                                 *)

(* Q is the places, among the measured rows, of the rows that P is the places *)
(* of and that have a latency.                                                *)
Measures(h, Q, measured, P, table) ==
  /\ Stored(table) /\ Stored(measured)
  /\ P \in SUBSET (DOMAIN table) /\ Q \in SUBSET (DOMAIN measured)
  /\ h \in [Q -> P] /\ \A k, l \in Q : h[k] = h[l] => k = l
  /\ \A k \in Q : measured[k] = table[h[k]] /\ measured[k].max > 0
  /\ \A i \in P : table[i].max > 0 => \E k \in Q : h[k] = i
Measured(table) == Chosen(table, LAMBDA r : r.max > 0)

(* All of them. *)
LEMMA MeasuredFacts ==
  ASSUME NEW table, Stored(table)
  PROVE  LET measured == Measured(table)
         IN  \E h : Measures(h, DOMAIN measured, measured, DOMAIN table, table)
<1> DEFINE P == {i \in DOMAIN table : table[i].max > 0}
           measured == Picked(table, P)
<1>1. Measured(table) = measured
  BY DEF Measured, Chosen
<1>2. P \in SUBSET (DOMAIN table) /\ IsTable(table)
  BY DEF Stored
<1>3. table \in Seq(CycleRows)
  BY <1>2 DEF IsTable
<1> HIDE DEF P
<1>4. IsTable(measured)
  BY <1>2, PartOfTable
<1>5. /\ DOMAIN measured = 1..Len(measured) /\ Len(measured) \in Nat
      /\ \E f : Climbs(f, Len(measured), P) /\ \A k \in DOMAIN measured : measured[k] = table[f[k]] /\ f[k] \in P
  BY <1>2, <1>3, PickedIs
<1>6. PICK f : Climbs(f, Len(measured), P) /\ \A k \in DOMAIN measured : measured[k] = table[f[k]] /\ f[k] \in P
  BY <1>5
<1> HIDE DEF measured
<1> DEFINE size == Len(measured)
<1> HIDE DEF size
<1>7. /\ f \in [1..size -> P] /\ \A k, l \in 1..size : k < l => f[k] < f[l]
      /\ \A i \in P : \E k \in 1..size : f[k] = i
  BY <1>6 DEF Climbs, size
<1>8. DOMAIN measured = 1..size /\ size \in Nat
  BY <1>5 DEF size
<1>9. \A i \in P : i \in DOMAIN table /\ i \in Int /\ table[i].max > 0 /\ table[i].sent > 0
  <2>1. \A i \in DOMAIN table : i \in Int /\ table[i].sent > 0
    BY <1>3 DEF Stored
  <2> QED BY <1>2, <2>1 DEF P
<1>10. \A k, l \in 1..size : f[k] = f[l] => k = l
  <2> SUFFICES ASSUME NEW k \in 1..size, NEW l \in 1..size, f[k] = f[l] PROVE k = l
    OBVIOUS
  <2>1. f[k] \in Int /\ f[l] \in Int
    BY <1>7, <1>9
  <2>2. ~(k < l) /\ ~(l < k)
    BY <1>7, <2>1
  <2> QED BY <1>8, <2>2
<1>11. \A k \in 1..size : measured[k] = table[f[k]] /\ measured[k].max > 0 /\ measured[k].sent > 0
  BY <1>6, <1>8, <1>9
<1>12. Stored(measured)
  BY <1>4, <1>8, <1>11 DEF Stored
<1>13. f \in [1..size -> DOMAIN table]
  BY <1>7, <1>9
<1>14. \A i \in DOMAIN table : table[i].max > 0 => \E k \in 1..size : f[k] = i
  BY <1>7 DEF P
<1>15. Measures(f, DOMAIN measured, measured, DOMAIN table, table)
  BY <1>8, <1>10, <1>11, <1>12, <1>13, <1>14 DEF Measures
<1> QED BY <1>1, <1>15

(* And of a part of the rows. *)
LEMMA MeasuresPart ==
  ASSUME NEW table, NEW measured, NEW P, NEW Q, NEW h, Measures(h, Q, measured, P, table),
         NEW R \in SUBSET P, NEW S \in SUBSET Q, \A k \in Q : k \in S <=> h[k] \in R
  PROVE  \E g : Measures(g, S, measured, R, table)
<1> DEFINE g == [k \in S |-> h[k]]
<1>1. /\ Stored(table) /\ Stored(measured)
      /\ P \in SUBSET (DOMAIN table) /\ Q \in SUBSET (DOMAIN measured)
      /\ h \in [Q -> P] /\ \A k, l \in Q : h[k] = h[l] => k = l
      /\ \A k \in Q : measured[k] = table[h[k]] /\ measured[k].max > 0
      /\ \A i \in P : table[i].max > 0 => \E k \in Q : h[k] = i
  BY DEF Measures
<1>2. \A k \in S : g[k] = h[k] /\ k \in Q
  OBVIOUS
<1>3. g \in [S -> R]
  OBVIOUS
<1> HIDE DEF g
<1>4. \A i \in R : table[i].max > 0 => \E k \in S : g[k] = i
  BY <1>1, <1>2
<1>5. \A k, l \in S : g[k] = g[l] => k = l
  BY <1>1, <1>2
<1>6. \A k \in S : measured[k] = table[g[k]] /\ measured[k].max > 0
  BY <1>1, <1>2
<1>7. R \in SUBSET (DOMAIN table) /\ S \in SUBSET (DOMAIN measured)
  BY <1>1
<1>8. Measures(g, S, measured, R, table)
  BY <1>1, <1>3, <1>4, <1>5, <1>6, <1>7 DEF Measures
<1> QED BY <1>8

-----------------------------------------------------------------------------
(* What the views compute of the rows at some places.                         *)
RecvOf(table, P) == SumOver(P, LAMBDA i : Weight(table[i]))
MedianOf(table, P) ==
  QuantileExactWeighted(P, [i \in P |-> table[i].median], [i \in P |-> Weight(table[i])], 50)
PeakOf(table, P) == Max({table[i].max : i \in P})
LeastsOf(table, P) == {table[i].min : i \in {j \in P : Weight(table[j]) > 0}}

(* The rows at some places, as weights. *)
LEMMA RowWeights ==
  ASSUME NEW table, Stored(table), NEW P \in SUBSET (DOMAIN table)
  PROVE  LET w == [i \in P |-> Weight(table[i])]
         IN  /\ Weights(w, P) /\ RecvOf(table, P) = AllOf(P, w) /\ RecvOf(table, P) \in Nat
             /\ RecvOf(table, P) > 0 <=> \E i \in P : table[i].max > 0
             /\ \A i \in P : w[i] > 0 <=> table[i].max > 0
             /\ \A i \in P : table[i].median \in Nat /\ table[i].max \in Nat
             /\ IsFiniteSet(P)
<1> DEFINE w == [i \in P |-> Weight(table[i])]
<1>1. table \in Seq(CycleRows) /\ IsTable(table)
  BY DEF Stored, IsTable
<1>2. IsFiniteSet(P)
  BY <1>1, PlacesFinite
<1>3. \A i \in P : w[i] = Weight(table[i])
  OBVIOUS
<1>4. \A i \in P : w[i] \in Nat /\ (w[i] > 0 <=> table[i].max > 0)
  BY <1>3, RowMeans
<1>5. \A i \in P : table[i].median \in Nat /\ table[i].max \in Nat
  BY <1>1, TableTypes
<1>6. RecvOf(table, P) = SumFunctionOnSet(w, P)
  BY DEF RecvOf, SumOver
<1> HIDE DEF w
<1>7. Weights(w, P)
  BY <1>2, <1>4 DEF Weights
<1>8. AllOf(P, w) = SumFunctionOnSet(w, P)
  BY <1>7, QuantileSums
<1>9. RecvOf(table, P) \in Nat /\ (RecvOf(table, P) > 0 <=> \E i \in P : w[i] > 0)
  BY <1>6, <1>7, SumPositive
<1> QED BY <1>2, <1>4, <1>5, <1>6, <1>7, <1>8, <1>9 DEF w

(* The peak is one of the latencies and none is above it. *)
LEMMA PeakFacts ==
  ASSUME NEW table, Stored(table), NEW P \in SUBSET (DOMAIN table), P # {}
  PROVE  /\ PeakOf(table, P) \in Nat /\ \E i \in P : table[i].max = PeakOf(table, P)
         /\ \A i \in P : table[i].max <= PeakOf(table, P)
<1> DEFINE T == {table[i].max : i \in P}
           f == [i \in P |-> table[i].max]
<1>0. IsFiniteSet(P) /\ \A i \in P : table[i].max \in Nat
  BY RowWeights
<1>1. T \in SUBSET Int /\ T \in SUBSET Nat /\ T # {} /\ IsFiniteSet(P)
  BY <1>0
<1>2. f \in Surjection(P, T)
  BY DEF Surjection
<1> HIDE DEF f, T
<1>3. IsFiniteSet(T)
  BY <1>1, <1>2, FS_Surjection
<1>4. Max(T) \in T /\ \A x \in T : x <= Max(T)
  BY <1>1, <1>3, MaxMinFacts
<1>5. Max(T) \in Nat
  BY <1>1, <1>4
<1> QED BY <1>4, <1>5 DEF PeakOf, T

(* Rows without a latency change none of them. *)
LEMMA MeasuresAlike ==
  ASSUME NEW table, NEW measured, NEW P, NEW Q, NEW h, Measures(h, Q, measured, P, table)
  PROVE  /\ RecvOf(table, P) = RecvOf(measured, Q) /\ RecvOf(table, P) \in Nat
         /\ RecvOf(table, P) > 0 <=> Q # {}
         /\ Q # {} <=> \E i \in P : table[i].max > 0
         /\ MedianOf(table, P) = MedianOf(measured, Q) /\ MedianOf(table, P) \in Nat
         /\ MedianOf(table, P) > 0 <=> Q # {}
         /\ Q # {} => PeakOf(table, P) = PeakOf(measured, Q) /\ PeakOf(table, P) > 0
         /\ LeastsOf(table, P) = LeastsOf(measured, Q)
<1> DEFINE w == [i \in P |-> Weight(table[i])]
           v == [k \in Q |-> Weight(measured[k])]
           median == [i \in P |-> table[i].median]
           other == [k \in Q |-> measured[k].median]
<1>1. /\ Stored(table) /\ Stored(measured)
      /\ P \in SUBSET (DOMAIN table) /\ Q \in SUBSET (DOMAIN measured)
      /\ h \in [Q -> P] /\ \A k, l \in Q : h[k] = h[l] => k = l
      /\ \A k \in Q : measured[k] = table[h[k]] /\ measured[k].max > 0
      /\ \A i \in P : table[i].max > 0 => \E k \in Q : h[k] = i
  BY DEF Measures
<1>2. /\ Weights(w, P) /\ RecvOf(table, P) = AllOf(P, w) /\ RecvOf(table, P) \in Nat
      /\ RecvOf(table, P) > 0 <=> \E i \in P : table[i].max > 0
      /\ \A i \in P : w[i] > 0 <=> table[i].max > 0
      /\ \A i \in P : table[i].median \in Nat /\ table[i].max \in Nat
  BY <1>1, RowWeights
<1>3. /\ Weights(v, Q) /\ RecvOf(measured, Q) = AllOf(Q, v)
      /\ \A k \in Q : v[k] > 0 <=> measured[k].max > 0
  BY <1>1, RowWeights
<1>4. Q # {} <=> \E i \in P : table[i].max > 0
  BY <1>1
<1>5. /\ \A k \in Q : median[h[k]] = other[k] /\ w[h[k]] = v[k]
      /\ \A i \in P : median[i] = table[i].median /\ w[i] = Weight(table[i])
      /\ \A k \in Q : v[k] = Weight(measured[k])
  BY <1>1
<1>6. /\ MedianOf(table, P) = QuantileExactWeighted(P, median, w, 50)
      /\ MedianOf(measured, Q) = QuantileExactWeighted(Q, other, v, 50)
  BY DEF MedianOf
<1> HIDE DEF w, v, median, other
<1>7. Carries(h, v, Q, w, P)
  <2>1. ASSUME NEW y \in P, w[y] # 0 PROVE \E x \in Q : h[x] = y
    <3>1. w[y] > 0
      BY <1>2, <2>1 DEF Weights
    <3> QED BY <1>1, <1>2, <3>1
  <2> QED BY <1>1, <1>5, <2>1 DEF Carries
<1>8. AllOf(P, w) = AllOf(Q, v) /\ MedianOf(table, P) = MedianOf(measured, Q)
  BY <1>2, <1>3, <1>5, <1>6, <1>7, QuantileAlike
<1>9. /\ MedianOf(table, P) \in Nat
      /\ IF \E i \in P : w[i] > 0 THEN \E i \in P : w[i] > 0 /\ MedianOf(table, P) = median[i]
         ELSE MedianOf(table, P) = 0
  <2>1. \A i \in P : median[i] \in Nat
    BY <1>2, <1>5
  <2> QED BY <1>2, <1>6, <2>1, QuantileIsValue
<1>10. \A i \in P : table[i].max > 0 => table[i].median > 0
  BY <1>1, RowMeans
<1>11. MedianOf(table, P) > 0 <=> Q # {}
  <2>1. CASE \E i \in P : w[i] > 0
    BY <1>2, <1>4, <1>5, <1>9, <1>10, <2>1
  <2>2. CASE ~\E i \in P : w[i] > 0
    BY <1>2, <1>4, <1>9, <2>2
  <2> QED BY <2>1, <2>2
<1>12. ASSUME Q # {} PROVE PeakOf(table, P) = PeakOf(measured, Q) /\ PeakOf(table, P) > 0
  <2>1. /\ PeakOf(table, P) \in Nat /\ \E i \in P : table[i].max = PeakOf(table, P)
        /\ \A i \in P : table[i].max <= PeakOf(table, P)
    BY <1>1, <1>4, <1>12, PeakFacts
  <2>2. /\ PeakOf(measured, Q) \in Nat /\ \E k \in Q : measured[k].max = PeakOf(measured, Q)
        /\ \A k \in Q : measured[k].max <= PeakOf(measured, Q)
    BY <1>1, <1>12, PeakFacts
  <2>3. PICK k \in Q : measured[k].max = PeakOf(measured, Q)
    BY <2>2
  <2>4. PeakOf(measured, Q) <= PeakOf(table, P) /\ PeakOf(measured, Q) > 0
    BY <1>1, <2>1, <2>3
  <2>5. PICK i \in P : table[i].max = PeakOf(table, P)
    BY <2>1
  <2>6. table[i].max > 0
    BY <2>1, <2>2, <2>4, <2>5
  <2>7. PICK l \in Q : h[l] = i
    BY <1>1, <2>6
  <2>8. PeakOf(table, P) <= PeakOf(measured, Q)
    BY <1>1, <2>2, <2>5, <2>7
  <2> QED BY <2>1, <2>2, <2>4, <2>8
<1>13. LeastsOf(table, P) = LeastsOf(measured, Q)
  <2>1. \A i \in P : Weight(table[i]) > 0 <=> table[i].max > 0
    BY <1>2, <1>5
  <2>2. \A k \in Q : Weight(measured[k]) > 0
    BY <1>1, <1>3, <1>5
  <2>3. LeastsOf(table, P) = {table[i].min : i \in {j \in P : table[j].max > 0}}
    BY <2>1 DEF LeastsOf
  <2>4. LeastsOf(measured, Q) = {measured[k].min : k \in Q}
    BY <2>2 DEF LeastsOf
  <2>5. {table[i].min : i \in {j \in P : table[j].max > 0}} = {measured[k].min : k \in Q}
    BY <1>1
  <2> QED BY <2>3, <2>4, <2>5
<1> QED BY <1>2, <1>3, <1>4, <1>8, <1>9, <1>11, <1>12, <1>13

-----------------------------------------------------------------------------
(* The bands of the buckets.                                                  *)

(* A bucket and its band. *)
BucketPoint(table, at, g) ==
  [time |-> g.time, source |-> g.source,
   sent |-> SumOver(at, LAMBDA i : EffectiveSent(table[i])),
   lost |-> SumOver(at, LAMBDA i : table[i].lost),
   min |-> IF {i \in at : Weight(table[i]) > 0} = {} THEN 0
           ELSE Min({table[i].min : i \in {j \in at : Weight(table[j]) > 0}}),
   median |-> MedianOf(table, at), max |-> PeakOf(table, at)]
BandAt(table, at, g) ==
  [time |-> g.time, source |-> g.source,
   min |-> IF LeastsOf(table, at) = {} THEN 0 ELSE Min(LeastsOf(table, at)),
   median |-> MedianOf(table, at), max |-> PeakOf(table, at)]

(* The buckets, in those terms. *)
LEMMA BucketsAre ==
  ASSUME NEW table, NEW sources, NEW from, NEW to, NEW step
  PROVE  LET rows == Admitted(table, sources, from, to)
         IN  BucketedPoints(table, sources, from, to, step)
               = {p \in {BucketPoint(table, PlacesIn(table, rows, g, step), g) : g \in GroupsOf(table, rows, step)} :
                    p.sent > 0}
BY DEF BucketedPoints, BucketPoint, MedianOf, PeakOf

(* What is asked of a bucket. *)
LEMMA BucketMeans ==
  ASSUME NEW table, Stored(table), NEW at \in SUBSET (DOMAIN table), NEW g
  PROVE  LET p == BucketPoint(table, at, g)
         IN  /\ Band(p) = BandAt(table, at, g)
             /\ p.lost < p.sent <=> \E i \in at : table[i].max > 0
             /\ p.lost < p.sent => p.sent > 0
<1> DEFINE p == BucketPoint(table, at, g)
<1>1. p.sent = SumFunctionOnSet(SentBy(table), at) /\ p.lost = SumFunctionOnSet(LostBy(table), at)
  <2>1. /\ p.sent = SumOver(at, LAMBDA i : EffectiveSent(table[i]))
        /\ p.lost = SumOver(at, LAMBDA i : table[i].lost)
    BY DEF BucketPoint
  <2> HIDE DEF p
  <2> QED BY <2>1, PartSums
<1>2. Band(p) = BandAt(table, at, g)
  <2>1. LeastsOf(table, at) = {} <=> {i \in at : Weight(table[i]) > 0} = {}
    BY DEF LeastsOf
  <2> QED BY <2>1 DEF Band, BandAt, BucketPoint, LeastsOf
<1> HIDE DEF p
<1>3. Weights(SentBy(table), at) /\ Weights(LostBy(table), at)
  BY PartSums
<1>4. \A i \in at : /\ LostBy(table)[i] <= SentBy(table)[i]
                    /\ LostBy(table)[i] < SentBy(table)[i] <=> table[i].max > 0
  <2> SUFFICES ASSUME NEW i \in at
               PROVE  /\ LostBy(table)[i] <= SentBy(table)[i]
                      /\ LostBy(table)[i] < SentBy(table)[i] <=> table[i].max > 0
    OBVIOUS
  <2>1. i \in DOMAIN table /\ LostBy(table)[i] = table[i].lost /\ SentBy(table)[i] = EffectiveSent(table[i])
    BY DEF LostBy, SentBy
  <2>2. /\ EffectiveSent(table[i]) \in Nat /\ table[i].lost \in Nat /\ table[i].lost <= EffectiveSent(table[i])
        /\ Weight(table[i]) > 0 <=> table[i].max > 0
    BY <2>1, RowMeans
  <2>3. Weight(table[i]) = EffectiveSent(table[i]) - table[i].lost
    BY DEF Weight
  <2> QED BY <2>1, <2>2, <2>3
<1>5. p.lost < p.sent <=> \E i \in at : table[i].max > 0
  <2>1. SumFunctionOnSet(LostBy(table), at) < SumFunctionOnSet(SentBy(table), at)
          <=> \E i \in at : LostBy(table)[i] < SentBy(table)[i]
    BY <1>3, <1>4, SumsApart
  <2> QED BY <1>1, <1>4, <2>1
<1>6. p.lost \in Nat /\ p.sent \in Nat
  BY <1>1, <1>3, SumPositive
<1> QED BY <1>2, <1>5, <1>6 DEF p

(* The bands of the rows with a latency.                                      *)
LEMMA BandsAreMeasured ==
  ASSUME NEW table, Stored(table), NEW sources, NEW from, NEW to, NEW step
  PROVE  {Band(b) : b \in {p \in BucketedPoints(table, sources, from, to, step) : p.lost < p.sent}}
           = {Band(b) : b \in BucketedPoints(Measured(table), sources, from, to, step)}
<1> DEFINE measured == Measured(table)
           A == Admitted(table, sources, from, to)
           B == Admitted(measured, sources, from, to)
           at(g) == PlacesIn(table, A, g, step)
           in(g) == PlacesIn(measured, B, g, step)
           G == GroupsOf(table, A, step)
           H == GroupsOf(measured, B, step)
           buckets == BucketedPoints(table, sources, from, to, step)
           others == BucketedPoints(measured, sources, from, to, step)
<1>1. PICK h : Measures(h, DOMAIN measured, measured, DOMAIN table, table)
  BY MeasuredFacts
<1> HIDE DEF measured
<1>2. /\ buckets = {p \in {BucketPoint(table, at(g), g) : g \in G} : p.sent > 0}
      /\ others = {p \in {BucketPoint(measured, in(g), g) : g \in H} : p.sent > 0}
  BY BucketsAre
<1>3. Stored(measured) /\ \A k \in DOMAIN measured : measured[k].max > 0
  BY <1>1 DEF Measures
<1>4. /\ A \in SUBSET (DOMAIN table) /\ B \in SUBSET (DOMAIN measured)
      /\ \A g : at(g) \in SUBSET (DOMAIN table) /\ in(g) \in SUBSET (DOMAIN measured)
  BY DEF Admitted, PlacesIn
<1>5. \A g : \E f : Measures(f, in(g), measured, at(g), table)
  <2> SUFFICES ASSUME NEW g PROVE \E f : Measures(f, in(g), measured, at(g), table)
    OBVIOUS
  <2>1. \A k \in DOMAIN measured : k \in in(g) <=> h[k] \in at(g)
    <3>1. \A k \in DOMAIN measured : measured[k] = table[h[k]] /\ h[k] \in DOMAIN table
      BY <1>1 DEF Measures
    <3> QED BY <3>1 DEF PlacesIn, Admitted
  <2>2. at(g) \in SUBSET (DOMAIN table) /\ in(g) \in SUBSET (DOMAIN measured)
    BY <1>4
  <2> HIDE DEF at, in
  <2> QED BY <1>1, <2>1, <2>2, MeasuresPart
<1>6. ASSUME NEW g
      PROVE  /\ g \in H <=> g \in G /\ \E i \in at(g) : table[i].max > 0
             /\ g \in H => in(g) # {} /\ \E k \in in(g) : measured[k].max > 0
  <2>1. g \in G <=> at(g) # {} /\ \E i \in A : g = [time |-> Slot(table[i].time, step), source |-> table[i].source]
    BY DEF GroupsOf, PlacesIn
  <2>2. g \in H <=> /\ in(g) # {}
                    /\ \E k \in B : g = [time |-> Slot(measured[k].time, step), source |-> measured[k].source]
    BY DEF GroupsOf, PlacesIn
  <2>3. PICK f : Measures(f, in(g), measured, at(g), table)
    BY <1>5
  <2>4. in(g) # {} <=> \E i \in at(g) : table[i].max > 0
    BY <2>3, MeasuresAlike
  <2>5. \A k \in in(g) : measured[k].max > 0
    BY <1>3, <1>4
  <2>6. ASSUME g \in H PROVE g \in G
    <3>1. PICK k \in B : g = [time |-> Slot(measured[k].time, step), source |-> measured[k].source]
      BY <2>2, <2>6
    <3>2. measured[k] = table[h[k]] /\ h[k] \in DOMAIN table
      BY <1>1, <1>4 DEF Measures
    <3>3. h[k] \in A
      BY <3>2 DEF Admitted
    <3> QED BY <3>1, <3>2, <3>3 DEF GroupsOf
  <2>7. ASSUME g \in G, in(g) # {} PROVE g \in H
    <3>1. PICK i \in A : g = [time |-> Slot(table[i].time, step), source |-> table[i].source]
      BY <2>1, <2>7
    <3>2. PICK k \in B : measured[k].source = g.source /\ Slot(measured[k].time, step) = g.time
      BY <2>7 DEF PlacesIn
    <3>3. g = [time |-> Slot(measured[k].time, step), source |-> measured[k].source]
      BY <3>1, <3>2
    <3> QED BY <3>2, <3>3 DEF GroupsOf
  <2> HIDE DEF G, H, at, in
  <2> QED BY <2>2, <2>4, <2>5, <2>6, <2>7
<1>7. ASSUME NEW g, in(g) # {} PROVE BandAt(table, at(g), g) = BandAt(measured, in(g), g)
  <2>1. PICK f : Measures(f, in(g), measured, at(g), table)
    BY <1>5
  <2> HIDE DEF at, in
  <2>2. /\ MedianOf(table, at(g)) = MedianOf(measured, in(g))
        /\ PeakOf(table, at(g)) = PeakOf(measured, in(g))
        /\ LeastsOf(table, at(g)) = LeastsOf(measured, in(g))
    BY <1>7, <2>1, MeasuresAlike
  <2> QED BY <2>2 DEF BandAt
<1>8. ASSUME NEW g
      PROVE  LET p == BucketPoint(table, at(g), g)
             IN  /\ Band(p) = BandAt(table, at(g), g)
                 /\ p.lost < p.sent <=> \E i \in at(g) : table[i].max > 0
                 /\ p.lost < p.sent => p.sent > 0
  <2> HIDE DEF at
  <2> QED BY <1>4, BucketMeans
<1>9. ASSUME NEW g
      PROVE  LET p == BucketPoint(measured, in(g), g)
             IN  /\ Band(p) = BandAt(measured, in(g), g)
                 /\ p.lost < p.sent <=> \E k \in in(g) : measured[k].max > 0
                 /\ p.lost < p.sent => p.sent > 0
  <2> HIDE DEF in
  <2> QED BY <1>3, <1>4, BucketMeans
<1> DEFINE mine(g) == BucketPoint(table, at(g), g)
           theirs(g) == BucketPoint(measured, in(g), g)
<1>10. {Band(b) : b \in {p \in buckets : p.lost < p.sent}} = {BandAt(table, at(g), g) : g \in H}
  <2>1. \A g : /\ Band(mine(g)) = BandAt(table, at(g), g)
               /\ g \in H <=> g \in G /\ mine(g).lost < mine(g).sent
               /\ mine(g).lost < mine(g).sent => mine(g).sent > 0
    BY <1>6, <1>8
  <2>2. buckets = {p \in {mine(g) : g \in G} : p.sent > 0}
    BY <1>2
  <2> HIDE DEF mine, buckets, G, H, at
  <2> QED BY <2>1, <2>2
<1>11. {Band(b) : b \in others} = {BandAt(measured, in(g), g) : g \in H}
  <2>1. \A g : Band(theirs(g)) = BandAt(measured, in(g), g) /\ (g \in H => theirs(g).sent > 0)
    BY <1>6, <1>9
  <2>2. others = {p \in {theirs(g) : g \in H} : p.sent > 0}
    BY <1>2
  <2> HIDE DEF theirs, others, H, in
  <2> QED BY <2>1, <2>2
<1>12. {BandAt(table, at(g), g) : g \in H} = {BandAt(measured, in(g), g) : g \in H}
  <2>1. \A g \in H : BandAt(table, at(g), g) = BandAt(measured, in(g), g)
    <3> HIDE DEF H, at, in
    <3> QED BY <1>6, <1>7
  <2> HIDE DEF H, at, in
  <2> QED BY <2>1
<1> HIDE DEF buckets, others, H, at, in
<1> QED BY <1>10, <1>11, <1>12 DEF buckets, others, measured

-----------------------------------------------------------------------------
(* The overview.                                                              *)

(* The slots of a sparkline, and the loss in one. *)
SlotOf(table, i, from, to) == (table[i].time - from) \div Max({(to - from) \div SparkBuckets, 1})
InSlot(table, P, b, from, to) == {i \in P : SlotOf(table, i, from, to) = b}
UsedSlots(table, P, from, to) == {SlotOf(table, i, from, to) : i \in P}
SlotLoss(table, at) == SumOver(at, LAMBDA i : LossPct(table[i])) \div Cardinality(at)

(* What a row has, that is: Q is where its source was measured.               *)
Shows(row, only, Q) ==
  /\ row.has_rtt \in BOOLEAN /\ (row.has_rtt <=> Q # {})
  /\ Q # {} => /\ row.sparkline = only.sparkline
               /\ row.rtt_median = only.rtt_median /\ row.rtt_max = only.rtt_max
               /\ row.rtt_median > 0 /\ row.rtt_max > 0
  /\ row.rtt_median \in Nat
  /\ \A b \in 0..(SparkBuckets - 1) :
       row.sparkline[b] = NoValue \/ (row.sparkline[b] \in Nat /\ row.sparkline[b] > 0)

(* The rows without a latency do not show in the row.                         *)
LEMMA RowsShow ==
  ASSUME NEW table, NEW measured, NEW h, Measures(h, DOMAIN measured, measured, DOMAIN table, table),
         NEW s, NEW from, NEW to
  PROVE  Shows(OverviewRow(table, s, from, to), OverviewRow(measured, s, from, to),
               Attempted(measured, {s}, from, to))
<1> DEFINE P == Attempted(table, {s}, from, to)
           Q == Attempted(measured, {s}, from, to)
           used == UsedSlots(table, P, from, to)
           less == UsedSlots(measured, Q, from, to)
           at(b) == InSlot(table, P, b, from, to)
           in(b) == InSlot(measured, Q, b, from, to)
           row == OverviewRow(table, s, from, to)
           only == OverviewRow(measured, s, from, to)
           recv == [b \in used |-> RecvOf(table, at(b))]
           other == [b \in less |-> RecvOf(measured, in(b))]
           median == [b \in used |-> MedianOf(table, at(b))]
           theirs == [b \in less |-> MedianOf(measured, in(b))]
<1>1. /\ row.rtt_median = QuantileExactWeighted(used, median, recv, 50)
      /\ row.rtt_max = PeakOf(table, P)
      /\ row.has_rtt = (SumOver(used, LAMBDA b : RecvOf(table, at(b))) > 0)
      /\ row.sparkline = [b \in 0..(SparkBuckets - 1) |->
            IF b \in used /\ RecvOf(table, at(b)) > 0 THEN MedianOf(table, at(b)) ELSE NoValue]
  <2>1. row.rtt_median = QuantileExactWeighted(used, median, recv, 50)
    BY DEF OverviewRow, UsedSlots, InSlot, SlotOf, MedianOf, RecvOf, PeakOf
  <2>2. row.rtt_max = PeakOf(table, P)
    BY DEF OverviewRow, UsedSlots, InSlot, SlotOf, MedianOf, RecvOf, PeakOf
  <2>3. row.has_rtt = (SumOver(used, LAMBDA b : RecvOf(table, at(b))) > 0)
    BY DEF OverviewRow, UsedSlots, InSlot, SlotOf, MedianOf, RecvOf, PeakOf
  <2>4. row.sparkline = [b \in 0..(SparkBuckets - 1) |->
            IF b \in used /\ RecvOf(table, at(b)) > 0 THEN MedianOf(table, at(b)) ELSE NoValue]
    BY DEF OverviewRow, UsedSlots, InSlot, SlotOf, MedianOf, RecvOf, PeakOf
  <2> HIDE DEF row, used, median, recv, at, P
  <2> QED BY <2>1, <2>2, <2>3, <2>4
<1>2. /\ only.rtt_median = QuantileExactWeighted(less, theirs, other, 50)
      /\ only.rtt_max = PeakOf(measured, Q)
      /\ only.sparkline = [b \in 0..(SparkBuckets - 1) |->
            IF b \in less /\ RecvOf(measured, in(b)) > 0 THEN MedianOf(measured, in(b)) ELSE NoValue]
  <2>1. only.rtt_median = QuantileExactWeighted(less, theirs, other, 50)
    BY DEF OverviewRow, UsedSlots, InSlot, SlotOf, MedianOf, RecvOf, PeakOf
  <2>2. only.rtt_max = PeakOf(measured, Q)
    BY DEF OverviewRow, UsedSlots, InSlot, SlotOf, MedianOf, RecvOf, PeakOf
  <2>3. only.sparkline = [b \in 0..(SparkBuckets - 1) |->
            IF b \in less /\ RecvOf(measured, in(b)) > 0 THEN MedianOf(measured, in(b)) ELSE NoValue]
    BY DEF OverviewRow, UsedSlots, InSlot, SlotOf, MedianOf, RecvOf, PeakOf
  <2> HIDE DEF only, less, theirs, other, in, Q
  <2> QED BY <2>1, <2>2, <2>3
<1>3. Stored(table) /\ Stored(measured) /\ \A k \in DOMAIN measured : measured[k] = table[h[k]] /\ h[k] \in DOMAIN table
  BY DEF Measures
<1>4. P \in SUBSET (DOMAIN table) /\ Q \in SUBSET (DOMAIN measured) /\ \A k \in DOMAIN measured : k \in Q <=> h[k] \in P
  BY <1>3 DEF Attempted, Admitted
<1>5. /\ used = {SlotOf(table, i, from, to) : i \in P}
      /\ less = {SlotOf(measured, k, from, to) : k \in Q}
      /\ \A b : at(b) = {i \in P : SlotOf(table, i, from, to) = b}
      /\ \A b : in(b) = {k \in Q : SlotOf(measured, k, from, to) = b}
  BY DEF UsedSlots, InSlot
<1>6. \A k \in DOMAIN measured : SlotOf(measured, k, from, to) = SlotOf(table, h[k], from, to)
  BY <1>3 DEF SlotOf
<1>7. /\ \A b \in used : recv[b] = RecvOf(table, at(b)) /\ median[b] = MedianOf(table, at(b))
      /\ \A b \in less : other[b] = RecvOf(measured, in(b)) /\ theirs[b] = MedianOf(measured, in(b))
  OBVIOUS
<1>8. SumOver(used, LAMBDA b : RecvOf(table, at(b))) = SumFunctionOnSet(recv, used)
  BY DEF SumOver
<1> HIDE DEF P, Q, used, less, at, in, row, only, recv, other, median, theirs
<1>9. \A b : \E f : Measures(f, in(b), measured, at(b), table)
  <2> SUFFICES ASSUME NEW b PROVE \E f : Measures(f, in(b), measured, at(b), table)
    OBVIOUS
  <2>1. \A k \in DOMAIN measured : k \in in(b) <=> h[k] \in at(b)
    BY <1>4, <1>5, <1>6
  <2>2. at(b) \in SUBSET (DOMAIN table) /\ in(b) \in SUBSET (DOMAIN measured)
    BY <1>4, <1>5
  <2> QED BY <2>1, <2>2, MeasuresPart
<1>10. ASSUME NEW b
       PROVE  /\ RecvOf(table, at(b)) = RecvOf(measured, in(b)) /\ RecvOf(table, at(b)) \in Nat
              /\ RecvOf(table, at(b)) > 0 <=> in(b) # {}
              /\ MedianOf(table, at(b)) = MedianOf(measured, in(b)) /\ MedianOf(table, at(b)) \in Nat
              /\ MedianOf(table, at(b)) > 0 <=> in(b) # {}
  <2>1. PICK f : Measures(f, in(b), measured, at(b), table)
    BY <1>9
  <2> QED BY <2>1, MeasuresAlike
<1>11. \A b : b \in less <=> in(b) # {}
  BY <1>5
<1>12. less \in SUBSET used
  BY <1>4, <1>5, <1>6
<1>13. IsFiniteSet(used) /\ IsFiniteSet(less)
  <2> DEFINE f == [i \in P |-> SlotOf(table, i, from, to)]
  <2>1. f \in Surjection(P, used)
    BY <1>5 DEF Surjection
  <2>2. IsFiniteSet(P)
    BY <1>3, <1>4, RowWeights
  <2> HIDE DEF f
  <2>3. IsFiniteSet(used)
    BY <2>1, <2>2, FS_Surjection
  <2> QED BY <1>12, <2>3, FS_Subset
<1>14. Weights(recv, used) /\ Weights(other, less)
  <2>1. \A b \in used : recv[b] \in Nat
    BY <1>7, <1>10
  <2>2. \A b \in less : other[b] \in Nat
    BY <1>7, <1>10
  <2> QED BY <1>13, <2>1, <2>2 DEF Weights
<1>15. \A b \in used : (recv[b] > 0 <=> b \in less) /\ (recv[b] # 0 => b \in less)
  <2> SUFFICES ASSUME NEW b \in used PROVE (recv[b] > 0 <=> b \in less) /\ (recv[b] # 0 => b \in less)
    OBVIOUS
  <2>1. recv[b] \in Nat /\ (recv[b] > 0 <=> in(b) # {})
    BY <1>7, <1>10
  <2> QED BY <1>11, <2>1
<1>16. row.has_rtt \in BOOLEAN /\ (row.has_rtt <=> Q # {})
  <2>1. SumFunctionOnSet(recv, used) > 0 <=> \E b \in used : recv[b] > 0
    BY <1>14, SumPositive
  <2>2. row.has_rtt = (SumFunctionOnSet(recv, used) > 0)
    BY <1>1, <1>8
  <2>3. Q # {} <=> less # {}
    BY <1>5
  <2>4. less # {} <=> \E b \in used : recv[b] > 0
    BY <1>12, <1>15
  <2>5. ASSUME Q # {} PROVE row.has_rtt = TRUE
    BY <2>1, <2>2, <2>3, <2>4, <2>5
  <2>6. ASSUME Q = {} PROVE row.has_rtt = FALSE
    <3>1. ~(SumFunctionOnSet(recv, used) > 0)
      BY <2>1, <2>3, <2>4, <2>6
    <3> DEFINE some == SumFunctionOnSet(recv, used) > 0
    <3>2. row.has_rtt = some /\ ~some /\ some \in BOOLEAN
      BY <2>2, <3>1
    <3> HIDE DEF some
    <3> QED BY <3>2
  <2> QED BY <2>5, <2>6
<1>17. ASSUME Q # {} PROVE row.rtt_max = only.rtt_max /\ row.rtt_max > 0
  <2>1. \E f : Measures(f, Q, measured, P, table)
    BY <1>4, MeasuresPart
  <2>2. PeakOf(table, P) = PeakOf(measured, Q) /\ PeakOf(table, P) > 0
    BY <1>17, <2>1, MeasuresAlike
  <2> QED BY <1>1, <1>2, <2>2
<1>18. row.rtt_median = only.rtt_median
  <2> DEFINE f == [b \in less |-> b]
  <2>1. \A b \in less : f[b] = b
    OBVIOUS
  <2>2. f \in [less -> used]
    BY <1>12
  <2> HIDE DEF f
  <2>3. \A b \in less : recv[b] = other[b] /\ median[b] = theirs[b]
    BY <1>7, <1>10, <1>12
  <2>4. Carries(f, other, less, recv, used)
    BY <1>15, <2>1, <2>2, <2>3 DEF Carries
  <2>5. \A b \in less : median[f[b]] = theirs[b]
    BY <2>1, <2>3
  <2>6. QuantileExactWeighted(used, median, recv, 50) = QuantileExactWeighted(less, theirs, other, 50)
    BY <1>14, <2>4, <2>5, QuantileAlike
  <2> QED BY <1>1, <1>2, <2>6
<1>19. row.rtt_median \in Nat /\ (Q # {} => row.rtt_median > 0)
  <2>1. \A b \in used : median[b] \in Nat
    BY <1>7, <1>10
  <2>2. /\ row.rtt_median \in Nat
        /\ IF \E b \in used : recv[b] > 0 THEN \E b \in used : recv[b] > 0 /\ row.rtt_median = median[b]
           ELSE row.rtt_median = 0
    <3> DEFINE q == QuantileExactWeighted(used, median, recv, 50)
    <3>1. /\ q \in Nat
          /\ IF \E b \in used : recv[b] > 0 THEN \E b \in used : recv[b] > 0 /\ q = median[b]
             ELSE q = 0
      BY <1>14, <2>1, QuantileIsValue
    <3>2. row.rtt_median = q
      BY <1>1
    <3> HIDE DEF q
    <3> QED BY <3>1, <3>2
  <2>3. ASSUME Q # {} PROVE row.rtt_median > 0
    <3>1. \E b \in used : recv[b] > 0
      BY <1>5, <1>12, <1>15, <2>3
    <3>2. PICK b \in used : recv[b] > 0 /\ row.rtt_median = median[b]
      BY <2>2, <3>1
    <3>3. in(b) # {}
      BY <1>11, <1>15, <3>2
    <3> QED BY <1>7, <1>10, <3>2, <3>3
  <2> QED BY <2>2, <2>3
<1>20. row.sparkline = only.sparkline
  <2>1. \A b : /\ b \in used /\ RecvOf(table, at(b)) > 0 <=> b \in less /\ RecvOf(measured, in(b)) > 0
               /\ MedianOf(table, at(b)) = MedianOf(measured, in(b))
    BY <1>10, <1>11, <1>12
  <2> QED BY <1>1, <1>2, <2>1
<1>21. \A b \in 0..(SparkBuckets - 1) :
         row.sparkline[b] = NoValue \/ (row.sparkline[b] \in Nat /\ row.sparkline[b] > 0)
  BY <1>1, <1>10
<1> QED BY <1>16, <1>17, <1>18, <1>19, <1>20, <1>21 DEF Shows, Q, row, only

(* The greatest of the values there are. *)
LEMMA MostOfFacts ==
  ASSUME NEW V, IsFiniteSet(V), \A v \in V : v = NoValue \/ (v \in Nat /\ v > 0)
  PROVE  /\ MostOf(V) # 0
         /\ \A v \in V : v <= MostOf(V)
         /\ MostOf(V) = NoValue \/ MostOf(V) \in V
<1>1. V \in SUBSET Int
  BY DEF NoValue
<1>2. CASE V \subseteq {NoValue}
  <2>1. MostOf(V) = NoValue
    BY <1>2 DEF MostOf
  <2> QED BY <1>2, <2>1 DEF NoValue
<1>3. CASE ~(V \subseteq {NoValue})
  <2>1. MostOf(V) = Max(V) /\ V # {}
    BY <1>3 DEF MostOf
  <2>2. Max(V) \in V /\ \A v \in V : v <= Max(V)
    BY <1>1, <2>1, MaxMinFacts
  <2>3. Max(V) # 0
    BY <2>2 DEF NoValue
  <2> QED BY <2>1, <2>2, <2>3
<1> QED BY <1>2, <1>3

(* The numbers of a row. *)
LEMMA RowNumbers ==
  ASSUME NEW table, Stored(table), NEW s, NEW from, NEW to, Attempted(table, {s}, from, to) # {}
  PROVE  LET row == OverviewRow(table, s, from, to)
         IN  row.source = s /\ row.loss_avg \in Nat /\ row.rtt_max \in Nat /\ row.last_seen \in Nat
<1> DEFINE P == Attempted(table, {s}, from, to)
           used == UsedSlots(table, P, from, to)
           at(b) == InSlot(table, P, b, from, to)
           row == OverviewRow(table, s, from, to)
           T == {table[i].time : i \in P}
<1>1. row.source = s
  BY DEF OverviewRow
<1>2. row.loss_avg = SumOver(used, LAMBDA b : SlotLoss(table, at(b))) \div Cardinality(used)
  BY DEF OverviewRow, UsedSlots, InSlot, SlotOf, SlotLoss
<1>3. row.rtt_max = PeakOf(table, P)
  BY DEF OverviewRow, PeakOf
<1>4. row.last_seen = Max(T)
  BY DEF OverviewRow
<1>5. P \in SUBSET (DOMAIN table) /\ P # {}
  BY DEF Attempted, Admitted
<1>6. /\ used = {SlotOf(table, i, from, to) : i \in P}
      /\ \A b : at(b) = {i \in P : SlotOf(table, i, from, to) = b}
  BY DEF UsedSlots, InSlot
<1> HIDE DEF P, used, at, row
<1>7. IsFiniteSet(P)
  BY <1>5, RowWeights
<1>8. \A i \in P : LossPct(table[i]) \in Nat
  <2> SUFFICES ASSUME NEW i \in P PROVE LossPct(table[i]) \in Nat
    OBVIOUS
  <2>1. EffectiveSent(table[i]) \in Nat /\ table[i].lost \in Nat
    BY <1>5, RowMeans
  <2> DEFINE gone == table[i].lost
             tried == EffectiveSent(table[i])
  <2>2. LossPct(table[i]) = IF tried = 0 THEN 0 ELSE (100 * gone) \div tried
    BY DEF LossPct, Percent
  <2> HIDE DEF gone, tried
  <2>3. tried \in Nat /\ gone \in Nat /\ 100 * gone \in Nat
    BY <2>1 DEF gone, tried
  <2>4. tried # 0 => (100 * gone) \div tried \in Nat
    BY <2>3, NaturalQuotient
  <2> QED BY <2>2, <2>4
<1>9. ASSUME NEW b \in used PROVE SlotLoss(table, at(b)) \in Nat
  <2> DEFINE a == at(b)
             v == [i \in a |-> LossPct(table[i])]
  <2>1. a \in SUBSET P /\ a # {}
    BY <1>6
  <2> HIDE DEF a
  <2>2. IsFiniteSet(a)
    BY <1>7, <2>1, FS_Subset
  <2>3. \A i \in a : v[i] \in Nat
    BY <1>8, <2>1
  <2>4. SlotLoss(table, a) = SumFunctionOnSet(v, a) \div Cardinality(a)
    BY DEF SlotLoss, SumOver
  <2> HIDE DEF v
  <2>5. Weights(v, a)
    BY <2>2, <2>3 DEF Weights
  <2>6. SumFunctionOnSet(v, a) \in Nat
    BY <2>5, SumPositive
  <2>7. Cardinality(a) \in Nat \ {0}
    BY <2>1, <2>2, FS_CardinalityType, FS_EmptySet
  <2>8. SlotLoss(table, a) \in Nat
    BY <2>4, <2>6, <2>7, NaturalQuotient
  <2> QED BY <2>8 DEF a
<1>10. row.loss_avg \in Nat
  <2> DEFINE f == [i \in P |-> SlotOf(table, i, from, to)]
             v == [b \in used |-> SlotLoss(table, at(b))]
  <2>1. f \in Surjection(P, used)
    BY <1>6 DEF Surjection
  <2> HIDE DEF f
  <2>2. IsFiniteSet(used)
    BY <1>7, <2>1, FS_Surjection
  <2>3. used # {}
    BY <1>5, <1>6
  <2>4. \A b \in used : v[b] \in Nat
    BY <1>9
  <2>5. row.loss_avg = SumFunctionOnSet(v, used) \div Cardinality(used)
    BY <1>2 DEF SumOver
  <2> HIDE DEF v
  <2>6. Weights(v, used)
    BY <2>2, <2>4 DEF Weights
  <2>7. SumFunctionOnSet(v, used) \in Nat
    BY <2>6, SumPositive
  <2>8. Cardinality(used) \in Nat \ {0}
    BY <2>2, <2>3, FS_CardinalityType, FS_EmptySet
  <2> QED BY <2>5, <2>7, <2>8, NaturalQuotient
<1>11. row.rtt_max \in Nat
  BY <1>3, <1>5, PeakFacts
<1>12. row.last_seen \in Nat
  <2> DEFINE f == [i \in P |-> table[i].time]
  <2>0. \A i \in DOMAIN table : table[i].time \in Nat
    BY TableTypes DEF Stored
  <2>1. f \in Surjection(P, T)
    BY DEF Surjection
  <2>2. T \in SUBSET Int /\ T \in SUBSET Nat /\ T # {}
    BY <1>5, <2>0
  <2> HIDE DEF f, T
  <2>3. IsFiniteSet(T)
    BY <1>7, <2>1, FS_Surjection
  <2>4. Max(T) \in T
    BY <2>2, <2>3, MaxMinFacts
  <2> QED BY <1>4, <2>2, <2>4
<1> QED BY <1>1, <1>10, <1>11, <1>12 DEF row

(* The rows that report on a window of what was measured. *)
SeenIn(measured, from, to) == {i \in DOMAIN measured : from <= measured[i].time /\ measured[i].time < to}
SeenOf(measured, s, from, to) == {i \in SeenIn(measured, from, to) : measured[i].source = s}
Reports(rows, measured, from, to) ==
  /\ IsFiniteSet(rows)
  /\ \A r \in rows : r.source \in Nat /\ r.loss_avg \in Nat /\ r.rtt_max \in Nat /\ r.last_seen \in Nat
  /\ \A r, q \in rows : r.source = q.source => r = q
  /\ \A r \in rows : Shows(r, OverviewRow(measured, r.source, from, to), SeenOf(measured, r.source, from, to))
  /\ \A i \in SeenIn(measured, from, to) : \E r \in rows : r.source = measured[i].source

(* Where a source was measured. *)
LEMMA MeasuredThere ==
  ASSUME NEW measured, Stored(measured), \A i \in DOMAIN measured : measured[i].max > 0,
         NEW s, NEW from, NEW to
  PROVE  Attempted(measured, {s}, from, to) = SeenOf(measured, s, from, to)
<1>1. \A i \in DOMAIN measured : EffectiveSent(measured[i]) > 0
  <2> SUFFICES ASSUME NEW i \in DOMAIN measured PROVE EffectiveSent(measured[i]) > 0
    OBVIOUS
  <2>1. EffectiveSent(measured[i]) = measured[i].sent
    BY RowMeans
  <2> QED BY <2>1 DEF Stored
<1> QED BY <1>1 DEF Attempted, Admitted, SeenIn, SeenOf

(* The overview is such rows. *)
LEMMA OverviewReports ==
  ASSUME NEW table, NEW measured, NEW h, Measures(h, DOMAIN measured, measured, DOMAIN table, table),
         NEW from, NEW to
  PROVE  Reports(QueryOverview(table, from, to), measured, from, to)
<1> DEFINE A == Attempted(table, StoreSources, from, to)
           S == {table[i].source : i \in A}
           row(s) == OverviewRow(table, s, from, to)
           rows == QueryOverview(table, from, to)
           near == SeenIn(measured, from, to)
           Q(s) == SeenOf(measured, s, from, to)
<1>1. rows = {row(s) : s \in S}
  BY DEF QueryOverview
<1>2. /\ Stored(table) /\ Stored(measured)
      /\ \A k \in DOMAIN measured : measured[k] = table[h[k]] /\ measured[k].max > 0 /\ h[k] \in DOMAIN table
  BY DEF Measures
<1>3. \A i \in DOMAIN table : table[i].source \in StoreSources /\ table[i].source \in Nat
  BY <1>2, TableTypes DEF Stored
<1>4. A \in SUBSET (DOMAIN table) /\ \A s : \A i \in A : table[i].source = s => i \in Attempted(table, {s}, from, to)
  BY DEF Attempted, Admitted
<1>5. S \in SUBSET Nat /\ IsFiniteSet(S)
  <2>1. S \in SUBSET Nat
    BY <1>3, <1>4
  <2> DEFINE f == [i \in DOMAIN table |-> table[i].source]
  <2>2. {f[i] : i \in A} = S
    BY <1>4
  <2>3. table \in Seq(CycleRows)
    BY <1>2 DEF Stored, IsTable
  <2> HIDE DEF f, S, A
  <2>4. IsFiniteSet({f[i] : i \in A})
    BY <1>4, <2>3, PlacesFinite
  <2> QED BY <2>1, <2>2, <2>4
<1>6. \A s \in S : Attempted(table, {s}, from, to) # {}
  BY <1>4
<1> HIDE DEF row, rows, S
<1>7. \A s \in S : row(s).source = s /\ row(s).loss_avg \in Nat /\ row(s).rtt_max \in Nat /\ row(s).last_seen \in Nat
  <2> SUFFICES ASSUME NEW s \in S
               PROVE  row(s).source = s /\ row(s).loss_avg \in Nat /\ row(s).rtt_max \in Nat /\ row(s).last_seen \in Nat
    OBVIOUS
  <2> QED BY <1>2, <1>6, RowNumbers DEF row
<1>8. ASSUME NEW r \in rows PROVE r.source \in S /\ r = row(r.source)
  BY <1>1, <1>7
<1>9. IsFiniteSet(rows)
  <2> DEFINE f == [s \in S |-> row(s)]
  <2>1. f \in Surjection(S, rows)
    BY <1>1 DEF Surjection
  <2> HIDE DEF f
  <2> QED BY <1>5, <2>1, FS_Surjection
<1>10. ASSUME NEW r \in rows
       PROVE  Shows(r, OverviewRow(measured, r.source, from, to), Q(r.source))
  <2> DEFINE s == r.source
  <2>1. Shows(row(s), OverviewRow(measured, s, from, to), Attempted(measured, {s}, from, to))
    BY RowsShow DEF row
  <2>2. Attempted(measured, {s}, from, to) = Q(s)
    <3> HIDE DEF s
    <3> QED BY <1>2, MeasuredThere
  <2>3. r = row(s)
    BY <1>8
  <2> HIDE DEF s, Q
  <2>4. Shows(r, OverviewRow(measured, s, from, to), Q(s))
    BY <2>1, <2>2, <2>3
  <2> QED BY <2>4 DEF s
<1>11. ASSUME NEW k \in near PROVE \E r \in rows : r.source = measured[k].source
  <2>1. k \in DOMAIN measured
    BY DEF SeenIn
  <2>2. EffectiveSent(table[h[k]]) > 0
    <3>1. h[k] \in DOMAIN table /\ table[h[k]].max > 0
      BY <1>2, <2>1
    <3>2. EffectiveSent(table[h[k]]) = table[h[k]].sent
      BY <1>2, <3>1, RowMeans
    <3> QED BY <1>2, <3>1, <3>2 DEF Stored
  <2>3. h[k] \in A
    BY <1>2, <1>3, <2>1, <2>2 DEF Attempted, Admitted, SeenIn
  <2>4. measured[k].source \in S
    BY <1>2, <2>1, <2>3 DEF S
  <2> QED BY <1>1, <1>7, <2>4
<1>12. \A r \in rows : r.source \in Nat /\ r.loss_avg \in Nat /\ r.rtt_max \in Nat /\ r.last_seen \in Nat
  BY <1>5, <1>7, <1>8
<1>13. \A r, q \in rows : r.source = q.source => r = q
  BY <1>8
<1> HIDE DEF near
<1> QED BY <1>9, <1>10, <1>11, <1>12, <1>13 DEF Reports, rows, near

(* The worst of the rows. *)
LEMMA WorstIs ==
  ASSUME NEW rows, IsFiniteSet(rows), rows # {},
         \A r \in rows : r.source \in Nat /\ r.loss_avg \in Nat /\ r.rtt_max \in Nat,
         \A r, q \in rows : r.source = q.source => r = q
  PROVE  LET worst == CHOOSE r \in rows : \A q \in rows \ {r} : Worse(r, q)
         IN  worst \in rows /\ \A q \in rows : q.loss_avg <= worst.loss_avg
<1> DEFINE B == {p \in rows \X rows : Worse(p[1], p[2])}
           worst == CHOOSE r \in rows : \A q \in rows \ {r} : Worse(r, q)
<1>1. \A r, q \in rows : <<r, q>> \in B <=> Worse(r, q)
  OBVIOUS
<1> HIDE DEF B
<1>2. \A r, q \in rows : r # q => (<<r, q>> \in B \/ <<q, r>> \in B)
  BY <1>1 DEF Worse
<1>3. \A r, q \in rows : <<r, q>> \in B => <<q, r>> \notin B
  BY <1>1 DEF Worse
<1>4. ASSUME NEW r \in rows, NEW q \in rows, NEW p \in rows, <<r, q>> \in B, <<q, p>> \in B
      PROVE  <<r, p>> \in B
  <2>1. Worse(r, q) /\ Worse(q, p)
    BY <1>1, <1>4
  <2>2. Worse(r, p)
    BY <2>1 DEF Worse
  <2> QED BY <1>1, <2>2
<1>5. IsOrder(rows, B)
  BY <1>2, <1>3, <1>4 DEF IsOrder
<1>6. \E r \in rows : \A q \in rows \ {r} : <<r, q>> \in B
  BY <1>5, FirstIs
<1>7. \E r \in rows : \A q \in rows \ {r} : Worse(r, q)
  BY <1>1, <1>6
<1>8. worst \in rows /\ \A q \in rows \ {worst} : Worse(worst, q)
  BY <1>7
<1> HIDE DEF worst
<1>9. \A q \in rows : q.loss_avg <= worst.loss_avg
  <2> SUFFICES ASSUME NEW q \in rows PROVE q.loss_avg <= worst.loss_avg
    OBVIOUS
  <2>1. CASE q = worst
    BY <1>8, <2>1
  <2>2. CASE q # worst
    <3>1. Worse(worst, q)
      BY <1>8, <2>2
    <3> QED BY <1>8, <3>1 DEF Worse
  <2> QED BY <2>1, <2>2
<1> QED BY <1>8, <1>9 DEF worst

(* What the collapsed row shows. *)
LEMMA CollapsedShows ==
  ASSUME NEW measured, Stored(measured), \A i \in DOMAIN measured : measured[i].max > 0, NEW from, NEW to,
         NEW rows, Reports(rows, measured, from, to), rows # {}
  PROVE  LET shown == CollapseSources(rows)
         IN  /\ shown.rtt_max = MostOf({measured[i].max : i \in SeenIn(measured, from, to)})
             /\ 0 \notin Range(shown.sparkline) \cup {shown.rtt_median, shown.rtt_max}
             /\ \A r \in rows : r.loss_avg <= shown.loss_avg /\ r.last_seen <= shown.last_seen
<1> DEFINE shown == CollapseSources(rows)
           worst == CHOOSE r \in rows : \A q \in rows \ {r} : Worse(r, q)
           near == SeenIn(measured, from, to)
           Q(s) == SeenOf(measured, s, from, to)
           answered == {r \in rows : r.has_rtt}
           peaks == {r.rtt_max : r \in answered}
           maxima == {measured[i].max : i \in near}
           times == {r.last_seen : r \in rows}
           at(b) == {r.sparkline[b] : r \in rows}
<1>1. /\ shown.rtt_max = MostOf(peaks)
      /\ shown.rtt_median = IF worst.has_rtt THEN worst.rtt_median ELSE NoValue
      /\ shown.loss_avg = worst.loss_avg
      /\ shown.last_seen = Max(times)
      /\ shown.sparkline = [b \in 0..(SparkBuckets - 1) |-> MostOf(at(b))]
  BY DEF CollapseSources
<1>2. /\ IsFiniteSet(rows)
      /\ \A r \in rows : r.source \in Nat /\ r.loss_avg \in Nat /\ r.rtt_max \in Nat /\ r.last_seen \in Nat
      /\ \A r, q \in rows : r.source = q.source => r = q
      /\ \A r \in rows : Shows(r, OverviewRow(measured, r.source, from, to), Q(r.source))
      /\ \A i \in near : \E r \in rows : r.source = measured[i].source
  BY DEF Reports
<1>3. worst \in rows /\ \A q \in rows : q.loss_avg <= worst.loss_avg
  BY <1>2, WorstIs
<1> HIDE DEF shown, worst, near
<1>4. near \in SUBSET (DOMAIN measured)
  BY DEF near, SeenIn
<1>5. \A r \in rows : /\ r.has_rtt <=> Q(r.source) # {}
                      /\ Q(r.source) # {} => /\ r.rtt_max = OverviewRow(measured, r.source, from, to).rtt_max
                                             /\ r.rtt_max > 0 /\ r.rtt_median > 0
                      /\ r.rtt_median \in Nat
                      /\ \A b \in 0..(SparkBuckets - 1) :
                           r.sparkline[b] = NoValue \/ (r.sparkline[b] \in Nat /\ r.sparkline[b] > 0)
  BY <1>2 DEF Shows
<1>6. ASSUME NEW r \in rows, Q(r.source) # {}
      PROVE  /\ r.rtt_max \in Nat /\ r.rtt_max > 0
             /\ \E i \in near : measured[i].max = r.rtt_max
             /\ \A i \in near : measured[i].source = r.source => measured[i].max <= r.rtt_max
  <2> DEFINE s == r.source
             q == Q(s)
  <2>1. OverviewRow(measured, s, from, to).rtt_max = PeakOf(measured, Attempted(measured, {s}, from, to))
    BY DEF OverviewRow, PeakOf
  <2>2. Attempted(measured, {s}, from, to) = q
    BY MeasuredThere
  <2>3. r.rtt_max = PeakOf(measured, q)
    BY <1>5, <1>6, <2>1, <2>2
  <2>4. \A i : i \in q <=> i \in near /\ measured[i].source = r.source
    BY DEF near, SeenOf
  <2>5. q \in SUBSET (DOMAIN measured) /\ q # {}
    BY <1>4, <1>6, <2>4
  <2> HIDE DEF q
  <2>6. /\ PeakOf(measured, q) \in Nat /\ \E i \in q : measured[i].max = PeakOf(measured, q)
        /\ \A i \in q : measured[i].max <= PeakOf(measured, q)
    BY <2>5, PeakFacts
  <2> QED BY <1>5, <1>6, <2>3, <2>4, <2>6
<1>7. \A r \in answered : r \in rows /\ Q(r.source) # {}
  BY <1>5
<1>8. \A i \in near : measured[i].max \in Nat /\ measured[i].max > 0
  <2>1. \A i \in DOMAIN measured : measured[i].max \in Nat
    BY TableTypes DEF Stored
  <2> QED BY <1>4, <2>1
<1>9. /\ IsFiniteSet(peaks) /\ \A v \in peaks : v \in Nat /\ v > 0
      /\ IsFiniteSet(maxima) /\ \A v \in maxima : v \in Nat /\ v > 0
  <2>1. IsFiniteSet(peaks)
    <3> DEFINE f == [r \in answered |-> r.rtt_max]
    <3>1. f \in Surjection(answered, peaks)
      BY DEF Surjection
    <3>2. answered \in SUBSET rows
      OBVIOUS
    <3> HIDE DEF f, peaks, answered
    <3>3. IsFiniteSet(answered)
      BY <1>2, <3>2, FS_Subset
    <3> QED BY <3>1, <3>3, FS_Surjection
  <2>2. \A v \in peaks : v \in Nat /\ v > 0
    BY <1>6, <1>7
  <2>3. IsFiniteSet(maxima)
    <3> DEFINE f == [i \in near |-> measured[i].max]
    <3>1. f \in Surjection(near, maxima)
      BY DEF Surjection
    <3> HIDE DEF f, maxima
    <3>2. IsFiniteSet(near)
      BY <1>4, RowWeights
    <3> QED BY <3>1, <3>2, FS_Surjection
  <2>4. \A v \in maxima : v \in Nat /\ v > 0
    BY <1>8
  <2> HIDE DEF peaks, maxima
  <2> QED BY <2>1, <2>2, <2>3, <2>4
<1>10. /\ MostOf(peaks) # 0 /\ \A v \in peaks : v <= MostOf(peaks)
       /\ MostOf(peaks) = NoValue \/ MostOf(peaks) \in peaks
       /\ MostOf(maxima) # 0 /\ \A v \in maxima : v <= MostOf(maxima)
       /\ MostOf(maxima) = NoValue \/ MostOf(maxima) \in maxima
  <2> HIDE DEF peaks, maxima
  <2> QED BY <1>9, MostOfFacts
<1>11. peaks \in SUBSET maxima
  BY <1>6, <1>7
<1>12. \A v \in maxima : \E u \in peaks : v <= u
  <2> SUFFICES ASSUME NEW i \in near PROVE \E u \in peaks : measured[i].max <= u
    OBVIOUS
  <2>1. PICK r \in rows : r.source = measured[i].source
    BY <1>2
  <2>2. Q(r.source) # {}
    BY <2>1 DEF near, SeenOf
  <2>3. r \in answered /\ measured[i].max <= r.rtt_max
    BY <1>5, <1>6, <2>1, <2>2
  <2> QED BY <2>3
<1>13. MostOf(peaks) = MostOf(maxima)
  <2> HIDE DEF peaks, maxima
  <2>1. CASE maxima = {}
    <3>1. peaks = maxima
      BY <1>11, <2>1
    <3> QED BY <3>1
  <2>2. CASE maxima # {}
    <3>1. peaks # {}
      BY <1>12, <2>2
    <3>2. MostOf(peaks) \in peaks /\ MostOf(maxima) \in maxima
      <4>1. MostOf(peaks) # NoValue
        <5>1. PICK v \in peaks : v \in Nat /\ v <= MostOf(peaks)
          BY <1>9, <1>10, <3>1
        <5> QED BY <5>1 DEF NoValue
      <4>2. MostOf(maxima) # NoValue
        <5>1. PICK v \in maxima : v \in Nat /\ v <= MostOf(maxima)
          BY <1>9, <1>10, <2>2
        <5> QED BY <5>1 DEF NoValue
      <4> QED BY <1>10, <4>1, <4>2
    <3>3. MostOf(peaks) <= MostOf(maxima)
      BY <1>10, <1>11, <3>2
    <3>4. PICK u \in peaks : MostOf(maxima) <= u
      BY <1>12, <3>2
    <3>5. u <= MostOf(peaks)
      BY <1>10
    <3>6. MostOf(peaks) \in Nat /\ MostOf(maxima) \in Nat /\ u \in Nat
      BY <1>9, <3>2
    <3> QED BY <3>3, <3>4, <3>5, <3>6
  <2> QED BY <2>1, <2>2
<1>14. shown.rtt_max # 0
  <2> HIDE DEF peaks
  <2> QED BY <1>1, <1>10
<1>15. shown.rtt_median # 0
  <2>1. worst.has_rtt => worst.rtt_median > 0 /\ worst.rtt_median \in Nat
    BY <1>3, <1>5
  <2> QED BY <1>1, <2>1 DEF NoValue
<1>16. ASSUME NEW b \in 0..(SparkBuckets - 1) PROVE MostOf(at(b)) # 0
  <2> DEFINE V == at(b)
             f == [r \in rows |-> r.sparkline[b]]
  <2>1. f \in Surjection(rows, V)
    BY DEF Surjection
  <2>2. \A v \in V : v = NoValue \/ (v \in Nat /\ v > 0)
    BY <1>5
  <2> HIDE DEF f, V
  <2>3. IsFiniteSet(V)
    BY <1>2, <2>1, FS_Surjection
  <2>4. MostOf(V) # 0
    BY <2>2, <2>3, MostOfFacts
  <2> QED BY <2>4 DEF V
<1>17. 0 \notin Range(shown.sparkline)
  <2> HIDE DEF at
  <2> QED BY <1>1, <1>16 DEF Range
<1>18. \A r \in rows : r.last_seen <= shown.last_seen
  <2> DEFINE f == [r \in rows |-> r.last_seen]
  <2>1. f \in Surjection(rows, times)
    BY DEF Surjection
  <2>2. times \in SUBSET Int /\ times # {}
    BY <1>2
  <2>3. \A r \in rows : r.last_seen \in times
    OBVIOUS
  <2> HIDE DEF f, times
  <2>4. IsFiniteSet(times)
    BY <1>2, <2>1, FS_Surjection
  <2>5. \A x \in times : x <= Max(times)
    BY <2>2, <2>4, MaxMinFacts
  <2> QED BY <1>1, <2>3, <2>5
<1>19. \A r \in rows : r.loss_avg <= shown.loss_avg
  BY <1>1, <1>3
<1> HIDE DEF peaks, maxima, answered, times, at
<1> QED BY <1>1, <1>13, <1>14, <1>15, <1>17, <1>18, <1>19 DEF shown, maxima, near

(* LatencyIsMeasured, of every table (reader.go lines 84 to 280; overview.go; *)
(* api/overview.go lines 237 to 299).                                         *)
LEMMA LatencyWasMeasured ==
  ASSUME NEW cycles, IsTable(cycles), NEW from, NEW to, NEW step
  PROVE  LatencyIsMeasured(cycles, from, to, step)
<1> DEFINE table == StoredCycles(cycles)
           measured == Measured(table)
           places == SeenIn(measured, from, to)
           rows == QueryOverview(table, from, to)
           shown == CollapseSources(rows)
<1>1. Stored(table)
  BY StoredCyclesFacts
<1> HIDE DEF table
<1>2. PICK h : Measures(h, DOMAIN measured, measured, DOMAIN table, table)
  BY <1>1, MeasuredFacts
<1>3. {Band(b) : b \in {p \in BucketedPoints(table, StoreSources, from, to, step) : p.lost < p.sent}}
        = {Band(b) : b \in BucketedPoints(measured, StoreSources, from, to, step)}
  BY <1>1, BandsAreMeasured
<1> HIDE DEF measured
<1>4. Stored(measured) /\ \A i \in DOMAIN measured : measured[i].max > 0
  BY <1>2 DEF Measures
<1>5. Reports(rows, measured, from, to)
  BY <1>2, OverviewReports
<1> HIDE DEF rows
<1>6. rows # {} =>
        /\ shown.rtt_max = MostOf({measured[i].max : i \in places})
        /\ 0 \notin Range(shown.sparkline) \cup {shown.rtt_median, shown.rtt_max}
        /\ \A r \in rows : r.loss_avg <= shown.loss_avg /\ r.last_seen <= shown.last_seen
  BY <1>4, <1>5, CollapsedShows
<1> HIDE DEF shown, places
<1>7. ASSUME NEW r \in rows
      PROVE  IF r.has_rtt
             THEN /\ \E i \in places : measured[i].source = r.source
                  /\ LET only == OverviewRow(measured, r.source, from, to)
                     IN  /\ r.sparkline = only.sparkline
                         /\ r.rtt_median = only.rtt_median /\ r.rtt_max = only.rtt_max
             ELSE \A i \in places : measured[i].source # r.source
  <2> DEFINE Q == SeenOf(measured, r.source, from, to)
  <2>1. Shows(r, OverviewRow(measured, r.source, from, to), Q)
    BY <1>5 DEF Reports, places
  <2>2. Q # {} <=> \E i \in places : measured[i].source = r.source
    BY DEF SeenOf, places
  <2> HIDE DEF Q
  <2> QED BY <2>1, <2>2 DEF Shows
<1> QED BY <1>3, <1>6, <1>7 DEF LatencyIsMeasured, table, measured, Measured, Chosen, places, SeenIn, rows, shown

(* Whatever tables of cycles the writer may have left, their views agree: no  *)
(* loss is told twice or differently, no latency is shown that was not        *)
(* measured, a path goes with its own cycle's loss, and the strip has the     *)
(* newest (reader.go lines 84 to 280, 410 to 718; overview.go; api.go lines   *)
(* 841 to 943; api/overview.go lines 237 to 299).                             *)
THEOREM EveryTableAgrees == LoopSpec => []ViewsAgree
<1>1. ASSUME NEW cycles \in Tables
      PROVE  /\ LossAgrees(cycles, 0, WindowEnd, Step)
             /\ LatencyIsMeasured(cycles, 0, WindowEnd, Step)
             /\ PathsAreOneCycle(cycles, WindowEnd - 1, Step)
             /\ StatusIsRecent(cycles, 0, WindowEnd)
  <2>1. IsTable(cycles)
    BY TableAssumption
  <2>2. LossAgrees(cycles, 0, WindowEnd, Step)
    BY <2>1, LossIsOne
  <2>3. LatencyIsMeasured(cycles, 0, WindowEnd, Step)
    BY <2>1, LatencyWasMeasured
  <2>4. PathsAreOneCycle(cycles, WindowEnd - 1, Step)
    BY <2>1, PathsArePaired
  <2>5. StatusIsRecent(cycles, 0, WindowEnd)
    BY <2>1, StatusIsNewest
  <2> QED BY <2>2, <2>3, <2>4, <2>5
<1>2. ViewsAgree
  BY <1>1 DEF ViewsAgree, EveryViewAgrees
<1> QED BY <1>2, PTL

-----------------------------------------------------------------------------
(* The record of a cycle on its way.                                          *)

(* Only a probe that sends echoes resolves its target before it measures.     *)
EchoesResolve == stage \in {"resolve", "nil"} => Echoing

(* So every pass keeps it. *)
LEMMA StagesOfEchoes == LoopSpec => []EchoesResolve
<1>1. LoopInit => EchoesResolve
  BY DEF LoopInit, BatchInit, EchoesResolve
<1>2. EchoesResolve /\ [LoopNext]_cycleVars => EchoesResolve'
  <2> SUFFICES ASSUME EchoesResolve, [LoopNext]_cycleVars PROVE EchoesResolve'
    OBVIOUS
  <2>1. CASE BatchStep(Air)
    BY <2>1 DEF EchoesResolve, Echoing, BatchStep, ResolveFails, ListenFails, Listen, Attempt, Receive,
                Connect, Lookup, Respond, Refused, Interrupt, TimeOut, Gap, BatchPanics, Succeeds, Loses,
                Onward
  <2>2. CASE BeginCycle
    BY <2>2 DEF BeginCycle, BatchStart, EchoesResolve, Echoing
  <2>3. CASE Return
    BY <2>3 DEF Return, EchoesResolve
  <2>4. CASE UNCHANGED batchVars
    BY <2>4 DEF batchVars, EchoesResolve, Echoing
  <2>5. [LoopNext]_cycleVars => BatchStep(Air) \/ BeginCycle \/ Return \/ UNCHANGED batchVars
    BY DEF LoopNext, Loop, Measure, Trace, TakeResult, ProbePanicked, OnCycle, Exit, Tick, ContextEnds,
           Shutdown, cycleVars
  <2> QED BY <2>1, <2>2, <2>3, <2>4, <2>5
<1> QED BY <1>1, <1>2, PTL DEF LoopSpec

(* The rows of a path, no more than the rounds and none of more steps.        *)
RowsWithin(s, m) ==
  /\ s \in Seq(HopRow) /\ Len(s) <= m
  /\ \A i \in 1..Len(s) : s[i].sent <= WalkRounds /\ s[i].lost <= s[i].sent

(* The steps of a TTL are rounds, and each of its rows rests on one of them.  *)
LEMMA BlockWithin ==
  ASSUME PathInv, WalkEnded, NEW t \in Depths
  PROVE  RowsWithin(Block(t), WalkRounds)
<1>0. WalkRounds \in Nat
  BY BatchAssumption
<1> DEFINE h == HopsAt(t)
<1>1. h = HopsOf(seen[t], t) /\ seen[t] \in Account
  BY DEF HopsAt, HopsOf, PathInv
<1>2. h \in Seq(HopRow)
  BY <1>1, HopsShape
<1>3. IsFiniteSet(Shares(h)) /\ Cardinality(Shares(h)) <= WalkRounds /\ Cardinality(Shares(h)) \in Nat
  <2>1. IsFiniteSet(Shares(h)) /\ Cardinality(Shares(h)) + InTheAir(t) = Cardinality(StepsAt(t))
    BY <1>1 DEF PathInv, StepsBooked
  <2>2. InTheAir(t) = 0
    BY DEF InTheAir, WalkEnded
  <2>3. IsFiniteSet(0..(WalkRounds - 1)) /\ Cardinality(0..(WalkRounds - 1)) = WalkRounds
    <3>1. 0 \in Int /\ WalkRounds - 1 \in Int
      BY <1>0
    <3>2. /\ IsFiniteSet(0..(WalkRounds - 1))
          /\ Cardinality(0..(WalkRounds - 1)) = IF 0 > WalkRounds - 1 THEN 0 ELSE WalkRounds - 1 - 0 + 1
      BY <3>1, FS_Interval
    <3> QED BY <1>0, <3>2
  <2>4. Cardinality(StepsAt(t)) <= WalkRounds
    <3>1. StepsAt(t) \in SUBSET (0..(WalkRounds - 1))
      BY DEF StepsAt, Rounds
    <3> QED BY <2>3, <3>1, FS_Subset, ZenonT(30)
  <2>5. Cardinality(Shares(h)) \in Nat
    BY <2>1, FS_CardinalityType
  <2> HIDE DEF h
  <2> QED BY <2>1, <2>2, <2>4, <2>5
<1> HIDE DEF h
<1>4. Len(h) \in Nat /\ \A i \in 1..Len(h) : h[i] \in HopRow /\ h[i].sent \in Nat \ {0}
  <2>1. ASSUME NEW i \in 1..Len(h) PROVE h[i] \in HopRow
    BY <1>2, ElementOfSeq
  <2> QED BY <1>2, <2>1 DEF HopRow
<1>5. Len(h) <= WalkRounds
  <2> DEFINE N == Len(h)
             S == {<<i, 0>> : i \in 1..N}
             f == [i \in 1..N |-> <<i, 0>>]
  <2>1. f \in Bijection(1..N, S)
    <3>1. f \in [1..N -> S]
      OBVIOUS
    <3>2. \A k, l \in 1..N : f[k] = f[l] => k = l
      OBVIOUS
    <3>3. \A p \in S : \E k \in 1..N : f[k] = p
      OBVIOUS
    <3> HIDE DEF S, f
    <3> QED BY <3>1, <3>2, <3>3 DEF Bijection, Injection, Surjection, IsInjective
  <2>2. S \in SUBSET Shares(h)
    <3>1. ASSUME NEW i \in 1..N PROVE <<i, 0>> \in Shares(h)
      <4>1. 0 \in 0..(h[i].sent - 1)
        BY <1>4
      <4> QED BY <4>1 DEF Shares
    <3> QED BY <3>1
  <2> HIDE DEF S, f
  <2>3. IsFiniteSet(1..N) /\ Cardinality(1..N) = N
    <3>1. 1 \in Int /\ N \in Int
      BY <1>4
    <3>2. IsFiniteSet(1..N) /\ Cardinality(1..N) = IF 1 > N THEN 0 ELSE N - 1 + 1
      BY <3>1, FS_Interval
    <3> QED BY <1>4, <3>2
  <2>4. Cardinality(S) = N
    BY <2>1, <2>3, FS_Bijection DEF ExistsBijection
  <2>5. Cardinality(S) <= Cardinality(Shares(h))
    BY <1>3, <2>2, FS_Subset
  <2> QED BY <1>0, <1>3, <1>4, <2>4, <2>5
<1>6. ASSUME NEW i \in 1..Len(h) PROVE h[i].sent <= WalkRounds /\ h[i].lost <= h[i].sent
  <2>1. IsFiniteSet(SharesIn(h, {i})) /\ Cardinality(SharesIn(h, {i})) = h[i].sent
    BY <1>4, SharesOfRow
  <2>2. SharesIn(h, {i}) \in SUBSET Shares(h)
    BY DEF SharesIn, Shares
  <2>3. Cardinality(SharesIn(h, {i})) <= Cardinality(Shares(h))
    BY <1>3, <2>2, FS_Subset
  <2>4. h[i].sent <= WalkRounds
    BY <1>0, <1>3, <1>4, <2>1, <2>3
  <2>5. h[i].lost <= h[i].sent
    <3> DEFINE a == seen[t]
    <3>1. a \in Account /\ a.lost \in Nat /\ a.rows \in Seq(AnswerRow)
      BY <1>1, AccountFacts
    <3>2. CASE a.rows = <<>> /\ a.lost = 0
      BY <1>1, <3>2 DEF HopsOf
    <3>3. CASE a.rows = <<>> /\ a.lost # 0
      <4>1. h = <<[index |-> t, who |-> "nobody", echo |-> FALSE, unreach |-> FALSE,
                   sent |-> a.lost, lost |-> a.lost]>>
        BY <1>1, <3>3 DEF HopsOf
      <4>2. i = 1
        BY <4>1
      <4> QED BY <3>1, <4>1, <4>2
    <3>4. CASE a.rows # <<>>
      <4> DEFINE row(j) == [index |-> t, who |-> a.rows[j].who, echo |-> a.rows[j].echo,
                            unreach |-> a.rows[j].unreach,
                            sent |-> a.rows[j].sent + (IF j = 1 THEN a.lost ELSE 0),
                            lost |-> IF j = 1 THEN a.lost ELSE 0]
      <4>1. h = [j \in 1..Len(a.rows) |-> row(j)]
        BY <1>1, <3>4 DEF HopsOf
      <4>2. i \in 1..Len(a.rows) /\ Len(a.rows) \in Nat
        BY <1>4, <3>1, <4>1
      <4>3. h[i] = row(i)
        BY <4>1, <4>2
      <4>4. a.rows[i].sent \in Nat
        BY <3>1, <4>2, AccountFacts
      <4>5. row(i).lost <= row(i).sent
        BY <3>1, <4>4
      <4> HIDE DEF row
      <4> QED BY <4>3, <4>5
    <3> QED BY <3>2, <3>3, <3>4
  <2> QED BY <2>4, <2>5
<1>7. CASE t \in Shown
  BY <1>2, <1>5, <1>6, <1>7 DEF Block, h, RowsWithin
<1>8. CASE t \notin Shown
  BY <1>0, <1>8 DEF Block, RowsWithin
<1> QED BY <1>7, <1>8
(* Rows put after rows. *)
LEMMA RowsJoin ==
  ASSUME NEW s, NEW z, NEW a \in Nat, NEW b \in Nat, RowsWithin(s, a), RowsWithin(z, b)
  PROVE  RowsWithin(s \o z, a + b)
<1>1. s \in Seq(HopRow) /\ z \in Seq(HopRow) /\ Len(s) \in Nat /\ Len(z) \in Nat
  BY DEF RowsWithin
<1>2. /\ s \o z \in Seq(HopRow) /\ Len(s \o z) = Len(s) + Len(z)
      /\ \A i \in 1..(Len(s) + Len(z)) :
           (s \o z)[i] = IF i <= Len(s) THEN s[i] ELSE z[i - Len(s)]
  BY <1>1, ConcatProperties
<1>3. Len(s \o z) <= a + b
  BY <1>1, <1>2 DEF RowsWithin
<1>4. ASSUME NEW i \in 1..Len(s \o z)
      PROVE  (s \o z)[i].sent <= WalkRounds /\ (s \o z)[i].lost <= (s \o z)[i].sent
  <2>1. CASE i <= Len(s)
    <3>1. i \in 1..Len(s) /\ (s \o z)[i] = s[i]
      BY <1>1, <1>2, <2>1
    <3> QED BY <3>1 DEF RowsWithin
  <2>2. CASE ~(i <= Len(s))
    <3>1. i - Len(s) \in 1..Len(z) /\ (s \o z)[i] = z[i - Len(s)]
      BY <1>1, <1>2, <2>2
    <3> QED BY <3>1 DEF RowsWithin
  <2> QED BY <2>1, <2>2
<1> QED BY <1>2, <1>3, <1>4 DEF RowsWithin

(* A path has no more rows than a walk has steps. *)
LEMMA HopsWithin ==
  ASSUME PathInv, WalkEnded
  PROVE  RowsWithin(Hops, WalkRounds * WalkDepth)
<1>0. WalkDepth \in Nat /\ WalkRounds \in Nat
  BY BatchAssumption
<1>1. PICK f : /\ Hops = f[WalkDepth] /\ f \in [0..WalkDepth -> Seq(HopRow)] /\ f[0] = <<>>
               /\ \A t \in Depths : f[t] = f[t - 1] \o Block(t)
  BY HopsUnfold
<1> DEFINE S == {t \in 0..WalkDepth : RowsWithin(f[t], WalkRounds * t)}
<1>2. 0 \in S
  <2>1. RowsWithin(<<>>, WalkRounds * 0)
    BY <1>0 DEF RowsWithin
  <2> QED BY <1>0, <1>1, <2>1
<1>3. ASSUME NEW t \in 0..(WalkDepth - 1), t \in S PROVE t + 1 \in S
  <2>1. t + 1 \in Depths /\ t + 1 \in 0..WalkDepth /\ (t + 1) - 1 = t /\ t \in Nat
    BY <1>0 DEF Depths
  <2>2. f[t + 1] = f[t] \o Block(t + 1)
    <3>1. PICK u \in Depths : u = t + 1
      BY <2>1
    <3>2. f[u] = f[u - 1] \o Block(u) /\ u - 1 = t
      BY <1>1, <2>1, <3>1
    <3> QED BY <3>1, <3>2
  <2>3. RowsWithin(Block(t + 1), WalkRounds)
    BY <2>1, BlockWithin
  <2>4. WalkRounds * t \in Nat
    BY <1>0, <2>1, NaturalProduct
  <2>5. RowsWithin(f[t], WalkRounds * t)
    BY <1>3
  <2>6. RowsWithin(f[t + 1], WalkRounds * t + WalkRounds)
    <3> HIDE DEF S
    <3> QED BY <1>0, <2>2, <2>3, <2>4, <2>5, RowsJoin
  <2>7. WalkRounds * t + WalkRounds = WalkRounds * (t + 1)
    BY <1>0, <2>1
  <2> QED BY <2>1, <2>6, <2>7
<1> HIDE DEF S
<1>4. \A t \in 0..WalkDepth : t \in S
  BY <1>0, <1>2, <1>3, UpToInduction
<1>5. WalkDepth \in S
  BY <1>0, <1>4
<1> QED BY <1>1, <1>5 DEF S

(* The cycle in the sinks. *)
LEMMA CycleFacts ==
  ASSUME LoopIInv, PathInv, EchoesResolve, loop = "sinks"
  PROVE  /\ cycle.sent \in 0..Pings /\ cycle.lost \in Nat /\ cycle.rtts \in Seq(0..Interval)
         /\ cycle.sent = cycle.lost + Len(cycle.rtts)
         /\ kind = "http" => cycle.sent <= HTTPRequests
         /\ RowsWithin(cycle.hops, WalkRounds * WalkDepth)
<1>1. BatchPlace /\ BatchAccount /\ CycleIsResult /\ BatchTypeOK /\ WalkEnded
  BY DEF LoopIInv, LoopInv, BatchInv
<1>2. Pings \in Nat /\ Interval \in Nat /\ HTTPRequests \in Nat
  BY BatchAssumption, IntervalAssumption
<1>3. RowsWithin(<<>>, WalkRounds * WalkDepth)
  <2>1. WalkRounds * WalkDepth \in Nat
    BY BatchAssumption, NaturalProduct
  <2> QED BY <2>1 DEF RowsWithin
<1>4. CASE stage = "nil" /\ kind # "mtr"
  <2>1. kind # "http"
    BY <1>4 DEF EchoesResolve, Echoing
  <2>2. \/ cycle = NoCycle
        \/ cycle = [NoCycle EXCEPT !.sent = Pings, !.lost = Pings]
    BY <1>1, <1>4 DEF CycleIsResult
  <2>3. /\ cycle.rtts = <<>> /\ cycle.hops = <<>>
        /\ cycle.sent = 0 \/ cycle.sent = Pings
        /\ cycle.lost = cycle.sent
    <3>1. CASE cycle = NoCycle
      BY <3>1 DEF NoCycle
    <3>2. CASE cycle = [NoCycle EXCEPT !.sent = Pings, !.lost = Pings]
      <4>1. cycle = [sent |-> Pings, lost |-> Pings, rtts |-> <<>>, hops |-> <<>>]
        BY <3>2 DEF NoCycle
      <4> QED BY <4>1
    <3> QED BY <2>2, <3>1, <3>2
  <2>4. cycle.rtts \in Seq(0..Interval) /\ Len(cycle.rtts) = 0
    BY <2>3
  <2>5. RowsWithin(cycle.hops, WalkRounds * WalkDepth)
    BY <1>3, <2>3
  <2>6. cycle.sent \in 0..Pings /\ cycle.lost \in Nat /\ cycle.sent = cycle.lost + 0
    BY <1>2, <2>3
  <2> QED BY <2>1, <2>4, <2>5, <2>6
<1>5. CASE ~(stage = "nil" /\ kind # "mtr")
  <2>1. /\ cycle = [sent |-> sent, lost |-> lost, rtts |-> rtts,
                    hops |-> IF walk = "done" THEN Hops ELSE <<>>]
        /\ stage \in {"over", "nil"}
    BY <1>1, <1>5 DEF CycleIsResult
  <2>2. /\ cycle.sent = sent /\ cycle.lost = lost /\ cycle.rtts = rtts
        /\ cycle.hops = IF walk = "done" THEN Hops ELSE <<>>
    BY <2>1
  <2>3. sent \in 0..Pings /\ lost \in 0..Pings /\ rtts \in Seq(0..Interval) /\ Len(rtts) \in Nat
    BY <1>1 DEF BatchTypeOK
  <2>4. sent = lost + Len(rtts)
    BY <1>1, <2>1, <2>3 DEF BatchAccount
  <2>5. kind = "http" => sent <= HTTPRequests
    <3> SUFFICES ASSUME kind = "http" PROVE sent <= HTTPRequests
      OBVIOUS
    <3>1. Count <= HTTPRequests /\ Count \in Nat
      BY <1>2 DEF Count, AtMost
    <3>2. sent <= n + 1 /\ n < Count /\ n \in Nat
      <4>1. sent <= n + (IF stage = "ready" THEN 0 ELSE 1) /\ n < Count /\ n \in 0..(Pings - 1)
        BY <1>1 DEF BatchAccount, BatchPlace, BatchTypeOK
      <4> QED BY <1>2, <2>1, <4>1
    <3> QED BY <1>2, <2>3, <3>1, <3>2
  <2>6. RowsWithin(cycle.hops, WalkRounds * WalkDepth)
    BY <1>1, <1>3, <2>2, HopsWithin
  <2> QED BY <1>2, <2>2, <2>3, <2>4, <2>5, <2>6
<1> QED BY <1>4, <1>5
(* What the configuration bounds. *)
LEMMA ConfigFacts ==
  /\ Interval \in Nat /\ Interval <= MaxSampleRTT /\ Pings \in Nat /\ Pings <= MaxPingsPerCycle
  /\ WalkRounds \in Nat /\ WalkDepth \in Nat /\ WalkRounds * WalkDepth <= MaxHopsPerCycle
  /\ WalkRounds <= MaxCounter /\ WalkRounds <= MaxRTTsPerHop /\ WalkDepth <= MaxHopIndex
<1>1. /\ Interval \in Nat /\ Pings \in Nat /\ WalkRounds \in Nat /\ WalkDepth \in Nat
  BY IntervalAssumption, BatchAssumption
<1>2. Interval <= MaxSampleRTT /\ Pings <= MaxPingsPerCycle
  BY ConfigAssumption DEF Config!ValidSchedule, Config!ValidateInterval, Config!ValidatePingCount
<1>3. WalkRounds <= MaxTraceRounds /\ WalkDepth <= MaxTraceTTL
  BY ConfigAssumption
<1>4. /\ MaxTraceRounds \in Nat /\ MaxTraceTTL \in Nat /\ MaxCounter \in Nat /\ MaxRTTsPerHop \in Nat
      /\ MaxHopIndex \in Nat /\ MaxTraceRounds <= MaxCounter /\ MaxTraceRounds <= MaxRTTsPerHop
      /\ MaxTraceTTL <= MaxHopIndex
  BY ProtocolAssumption
<1>5. WalkRounds * WalkDepth <= MaxHopsPerCycle
  <2>1. WalkRounds * WalkDepth <= MaxTraceRounds * WalkDepth
    BY <1>1, <1>3, <1>4
  <2>2. MaxTraceRounds * WalkDepth <= MaxTraceRounds * MaxTraceTTL
    BY <1>1, <1>3, <1>4
  <2>3. WalkRounds * WalkDepth \in Nat /\ MaxTraceRounds * WalkDepth \in Nat /\ MaxTraceRounds * MaxTraceTTL \in Nat
    BY <1>1, <1>4, NaturalProduct
  <2> QED BY <2>1, <2>2, <2>3 DEF MaxHopsPerCycle
<1> QED BY <1>1, <1>2, <1>3, <1>4, <1>5

(* The fields of the record. *)
LEMMA RecordFields ==
  /\ Recorded.time = now /\ Recorded.sent = cycle.sent /\ Recorded.lost = cycle.lost
  /\ Recorded.rtts = cycle.rtts /\ Recorded.summary = Compute(cycle.rtts)
  /\ FromCycle(Recorded) = Recorded
<1> DEFINE hops == Recorded.hops
           samples == Recorded.samples
<1>1. Recorded = [time |-> now, sent |-> cycle.sent, lost |-> cycle.lost, rtts |-> cycle.rtts,
                  summary |-> Compute(cycle.rtts), hops |-> hops, samples |-> samples]
  BY DEF Recorded
<1> HIDE DEF hops, samples
<1> QED BY <1>1 DEF FromCycle

(* The text of a responder is one that ingest keeps. *)
LEMMA TextKept ==
  ASSUME NEW who \in {"nobody", "router", "target"}
  PROVE  /\ HopText(who) = NoText \/ ParseHopAddr(HopText(who))
         /\ CanonicalHopAddr(HopText(who)) = HopText(who)
<1>1. MaxInterfaceNameLen \in Nat
  BY ProtocolAssumption
<1>2. CASE who = "nobody"
  BY <1>2 DEF HopText, CanonicalHopAddr, ParseHopAddr, NoText
<1>3. ASSUME NEW zone, zone \in {NoZone, Zone(MaxInterfaceNameLen, TRUE)},
             HopText(who) = AddrText(who, zone, "canonical")
      PROVE  ParseHopAddr(HopText(who)) /\ CanonicalHopAddr(HopText(who)) = HopText(who)
  <2>1. zone.length <= MaxHopZoneLen /\ zone.clean
    BY <1>1, <1>3 DEF NoZone, Zone, MaxHopZoneLen
  <2>2. HopText(who) = [kind |-> "addr", addr |-> who, zone |-> zone, spelling |-> "canonical"]
    BY <1>3 DEF AddrText
  <2>3. ParseHopAddr(HopText(who))
    BY <2>1, <2>2 DEF ParseHopAddr, InterfaceZoneShaped
  <2>4. [HopText(who) EXCEPT !.spelling = "canonical"] = HopText(who)
    BY <2>2
  <2> QED BY <2>3, <2>4 DEF CanonicalHopAddr
<1>4. CASE who = "target"
  <2>1. HopText(who) = AddrText(who, NoZone, "canonical")
    BY <1>4 DEF HopText
  <2> QED BY <1>3, <2>1
<1>5. CASE who = "router"
  <2>1. HopText(who) = AddrText(who, Zone(MaxInterfaceNameLen, TRUE), "canonical")
    BY <1>5 DEF HopText
  <2> QED BY <1>3, <2>1
<1> QED BY <1>2, <1>4, <1>5

(* The hop row of the record that was made of a row of the path. *)
RecordedHop(h) ==
  [index |-> h.index, addr |-> HopText(h.who), target |-> h.echo,
   unreach |-> IF h.unreach THEN "host-unreachable" ELSE "",
   sent |-> h.sent, lost |-> h.lost,
   rtts |-> [k \in 1..(h.sent - h.lost) |-> Smaller(TraceTimeout, Interval)]]

(* The recorded path, row by row. *)
LEMMA RecordedHops ==
  Recorded.hops = [i \in DOMAIN cycle.hops |-> RecordedHop(cycle.hops[i])]
BY DEF Recorded, RecordedHop

(* A row of a path is one that ingest accepts and keeps. *)
LEMMA HopValid ==
  ASSUME NEW h \in HopRow, h.sent <= WalkRounds, h.lost <= h.sent
  PROVE  /\ ValidHop(RecordedHop(h))
         /\ [RecordedHop(h) EXCEPT !.addr = CanonicalHopAddr(@), !.unreach = CanonicalUnreach(@)]
              = RecordedHop(h)
<1> DEFINE r == RecordedHop(h)
           latencies == [k \in 1..(h.sent - h.lost) |-> Smaller(TraceTimeout, Interval)]
           reason == IF h.unreach THEN "host-unreachable" ELSE ""
<1>1. /\ h.index \in Depths /\ h.who \in {"nobody", "router", "target"}
      /\ h.sent \in Nat /\ h.lost \in Nat
  BY DEF HopRow
<1>2. r = [index |-> h.index, addr |-> HopText(h.who), target |-> h.echo, unreach |-> reason,
           sent |-> h.sent, lost |-> h.lost, rtts |-> latencies]
  BY DEF RecordedHop
<1>3. Len(latencies) = h.sent - h.lost /\ Range(latencies) \subseteq 0..MaxSampleRTT
  <2> DEFINE d == Smaller(TraceTimeout, Interval)
  <2>1. d \in 0..MaxSampleRTT
    <3>1. TraceTimeout \in Nat /\ MaxSampleRTT \in Nat
      BY WalkAssumption, ProtocolAssumption
    <3> QED BY <3>1, ConfigFacts DEF Smaller
  <2> HIDE DEF d
  <2>2. h.sent - h.lost \in Nat
    BY <1>1
  <2>3. Len([k \in 1..(h.sent - h.lost) |-> d]) = h.sent - h.lost
    BY <2>2
  <2>4. Range([k \in 1..(h.sent - h.lost) |-> d]) \subseteq {d}
    BY DEF Range
  <2> QED BY <2>1, <2>3, <2>4 DEF d
<1>4. CanonicalUnreach(reason) = reason
  BY DEF CanonicalUnreach, UnreachLabels
<1>5. /\ HopText(h.who) = NoText \/ ParseHopAddr(HopText(h.who))
      /\ CanonicalHopAddr(HopText(h.who)) = HopText(h.who)
  BY <1>1, TextKept
<1>6. h.index \in 0..MaxHopIndex
  <2>1. MaxHopIndex \in Nat
    BY ProtocolAssumption
  <2> QED BY <1>1, <2>1, ConfigFacts DEF Depths
<1>7. BoundCounters(h.sent, h.lost)
  <2>1. MaxCounter \in Nat
    BY ProtocolAssumption
  <2>2. h.sent \in 0..MaxCounter /\ h.lost \in 0..MaxCounter
    BY <1>1, <2>1, ConfigFacts
  <2> QED BY <2>2 DEF BoundCounters
<1>8. Len(latencies) <= MaxRTTsPerHop
  <2>1. MaxRTTsPerHop \in Nat
    BY ProtocolAssumption
  <2> HIDE DEF latencies
  <2> QED BY <1>1, <1>3, <2>1, ConfigFacts
<1> HIDE DEF r, latencies, reason
<1>9. /\ r.index = h.index /\ r.addr = HopText(h.who) /\ r.sent = h.sent /\ r.lost = h.lost
      /\ r.rtts = latencies
  BY <1>2
<1>10. ValidHop(r)
  BY <1>3, <1>5, <1>6, <1>7, <1>8, <1>9 DEF ValidHop, BoundRTTs
<1>11. [r EXCEPT !.addr = CanonicalHopAddr(@), !.unreach = CanonicalUnreach(@)] = r
  <2>1. r.addr = HopText(h.who) /\ r.unreach = reason
    BY <1>2
  <2>2. CanonicalHopAddr(r.addr) = r.addr /\ CanonicalUnreach(r.unreach) = r.unreach
    BY <1>4, <1>5, <2>1
  <2> QED BY <1>2, <2>2
<1> QED BY <1>10, <1>11 DEF r
(* The samples of the record: one for each request that was counted.         *)
LEMMA SamplesValid ==
  ASSUME ClockTypeOK, cycle.sent \in Nat, cycle.rtts \in Seq(0..Interval),
         kind = "http" => cycle.sent <= HTTPRequests, NEW at \in IngestClocks
  PROVE  /\ Len(Recorded.samples) <= MaxHTTPSamplesPerCycle
         /\ \A i \in DOMAIN Recorded.samples : ValidSample(Recorded.samples[i], at)
<1> DEFINE one(i) == [time |-> 0, status |-> IF i <= Len(cycle.rtts) THEN 200 ELSE 0,
                      rtt |-> IF i <= Len(cycle.rtts) THEN cycle.rtts[i] ELSE 0]
           all == Recorded.samples
<1>1. /\ HTTPRequests \in Nat /\ MaxHTTPSamplesPerCycle \in Nat
      /\ HTTPRequests <= MaxHTTPSamplesPerCycle /\ MaxSampleRTT \in Nat
  BY BatchAssumption, ProtocolAssumption, ConfigAssumption
<1>2. all = IF kind # "http" THEN <<>> ELSE [i \in 1..cycle.sent |-> one(i)]
  BY DEF Recorded
<1>3. CASE kind # "http"
  <2>1. Recorded.samples = <<>>
    BY <1>2, <1>3
  <2> QED BY <1>1, <2>1
<1>4. CASE kind = "http"
  <2>1. all = [i \in 1..cycle.sent |-> one(i)]
    BY <1>2, <1>4
  <2>2. ASSUME NEW i \in 1..cycle.sent PROVE ValidSample(one(i), at)
    <3>1. InWindow(0, at)
      <4>1. now \in Nat /\ MaxCycleAge \in Nat /\ MaxFutureSkew \in Nat
        BY ProtocolAssumption DEF ClockTypeOK
      <4>2. at \in (now - MaxFutureSkew)..(MaxCycleAge + Interval) /\ at <= MaxCycleAge
        BY DEF IngestClocks
      <4>3. MaxCycleAge + Interval \in Nat
        BY <4>1, ConfigFacts
      <4> QED BY <4>1, <4>2, <4>3 DEF InWindow
    <3>2. one(i).rtt \in 0..MaxSampleRTT
      <4>1. CASE i <= Len(cycle.rtts)
        <5>1. i \in 1..Len(cycle.rtts)
          BY <4>1
        <5>2. cycle.rtts[i] \in 0..Interval
          BY <5>1, ElementOfSeq
        <5> QED BY <1>1, <4>1, <5>2, ConfigFacts
      <4>2. CASE ~(i <= Len(cycle.rtts))
        BY <1>1, <4>2
      <4> QED BY <4>1, <4>2
    <3>3. one(i).status \in 0..999 /\ one(i).time = 0
      OBVIOUS
    <3> HIDE DEF one
    <3> QED BY <3>1, <3>2, <3>3 DEF ValidSample, BoundRTTs
  <2> HIDE DEF one, all
  <2>3. Len(all) = cycle.sent /\ DOMAIN all = 1..cycle.sent /\ \A i \in 1..cycle.sent : all[i] = one(i)
    BY <2>1
  <2>4. cycle.sent <= MaxHTTPSamplesPerCycle
    BY <1>1, <1>4
  <2> QED BY <2>2, <2>3, <2>4 DEF all
<1> QED BY <1>3, <1>4

(* No record is refused: not for its time, whatever delay and skew the ends   *)
(* bear, nor for its counts, its figures, its samples or its path.            *)
LEMMA RecordValid ==
  ASSUME LoopIInv, PathInv, EchoesResolve, loop = "sinks", NEW at \in IngestClocks
  PROVE  Validate(<<FromCycle(Recorded)>>, at)
<1> DEFINE c == Recorded
<1>0. ClockTypeOK
  BY DEF LoopIInv, LoopInv
<1>1. /\ cycle.sent \in 0..Pings /\ cycle.lost \in Nat /\ cycle.rtts \in Seq(0..Interval)
      /\ cycle.sent = cycle.lost + Len(cycle.rtts)
      /\ kind = "http" => cycle.sent <= HTTPRequests
      /\ RowsWithin(cycle.hops, WalkRounds * WalkDepth)
  BY CycleFacts
<1>2. /\ c.time = now /\ c.sent = cycle.sent /\ c.lost = cycle.lost /\ c.rtts = cycle.rtts
      /\ c.summary = Compute(cycle.rtts) /\ FromCycle(c) = c
  BY RecordFields
<1> HIDE DEF c
<1>3. /\ MaxCycleAge \in Nat /\ MaxFutureSkew \in Nat /\ MaxCounter \in Nat /\ MaxSampleRTT \in Nat
      /\ MaxPingsPerCycle \in Nat /\ MaxCyclesPerBatch \in Nat /\ 1 <= MaxCyclesPerBatch
      /\ MaxPingsPerCycle <= MaxCounter
  BY ProtocolAssumption
<1>4. Len(cycle.rtts) \in Nat /\ Pings \in Nat /\ Pings <= MaxPingsPerCycle /\ cycle.sent \in Nat
  BY <1>1, ConfigFacts
<1>5. InWindow(c.time, at)
  <2>1. now \in Nat
    BY <1>0 DEF ClockTypeOK
  <2>2. at \in (now - MaxFutureSkew)..(MaxCycleAge + Interval) /\ at <= MaxCycleAge
    BY DEF IngestClocks
  <2>3. MaxCycleAge + Interval \in Nat
    BY <1>3, ConfigFacts
  <2> QED BY <1>2, <1>3, <2>1, <2>2, <2>3 DEF InWindow
<1>6. BoundCounters(c.sent, c.lost)
  <2>1. c.sent \in 0..MaxCounter /\ c.lost \in 0..MaxCounter /\ c.lost <= c.sent
    BY <1>1, <1>2, <1>3, <1>4
  <2> QED BY <2>1 DEF BoundCounters
<1>7. Len(c.rtts) <= MaxPingsPerCycle /\ Len(c.rtts) <= c.sent - c.lost
  BY <1>1, <1>2, <1>3, <1>4
<1>8. BoundRTTs(Range(c.rtts))
  <2>1. \A i \in 1..Len(cycle.rtts) : cycle.rtts[i] \in 0..Interval
    BY <1>1, ElementOfSeq
  <2>2. DOMAIN cycle.rtts = 1..Len(cycle.rtts)
    BY <1>1
  <2>3. Range(cycle.rtts) \subseteq 0..Interval
    BY <2>1, <2>2 DEF Range
  <2> QED BY <1>2, <1>3, <2>3, ConfigFacts DEF BoundRTTs
<1>9. BoundSummary(c.summary)
  <2> DEFINE s == Compute(cycle.rtts)
  <2>1. Figures(s) \subseteq 0..Interval
    BY <1>1, SummaryWithin, ConfigFacts
  <2> HIDE DEF s
  <2>2. Figures(s) \subseteq 0..MaxSampleRTT
    BY <1>3, <2>1, ConfigFacts
  <2> QED BY <1>2, <2>2 DEF BoundSummary, BoundRTTs, Figures, s
<1>10. /\ Len(c.samples) <= MaxHTTPSamplesPerCycle
       /\ \A i \in DOMAIN c.samples : ValidSample(c.samples[i], at)
  BY <1>0, <1>1, <1>4, SamplesValid DEF c
<1>11. Len(c.hops) <= MaxHopsPerCycle /\ \A i \in DOMAIN c.hops : ValidHop(c.hops[i])
  <2>1. /\ cycle.hops \in Seq(HopRow) /\ Len(cycle.hops) <= WalkRounds * WalkDepth
        /\ \A i \in 1..Len(cycle.hops) :
             cycle.hops[i].sent <= WalkRounds /\ cycle.hops[i].lost <= cycle.hops[i].sent
    BY <1>1 DEF RowsWithin
  <2>2. DOMAIN cycle.hops = 1..Len(cycle.hops) /\ Len(cycle.hops) \in Nat
    BY <2>1
  <2>3. c.hops = [i \in DOMAIN cycle.hops |-> RecordedHop(cycle.hops[i])]
    BY RecordedHops DEF c
  <2>4. ASSUME NEW i \in DOMAIN c.hops PROVE ValidHop(c.hops[i])
    <3>1. i \in 1..Len(cycle.hops) /\ c.hops[i] = RecordedHop(cycle.hops[i])
      BY <2>2, <2>3, <2>4
    <3>2. cycle.hops[i] \in HopRow
      BY <2>1, <3>1, ElementOfSeq
    <3> QED BY <2>1, <3>1, <3>2, HopValid
  <2>5. Len(c.hops) = Len(cycle.hops)
    BY <2>2, <2>3
  <2>6. Len(c.hops) <= MaxHopsPerCycle
    <3>1. WalkRounds * WalkDepth \in Nat /\ MaxHopsPerCycle \in Nat
      <4>1. MaxTraceRounds \in Nat /\ MaxTraceTTL \in Nat
        BY ProtocolAssumption
      <4>2. MaxTraceRounds * MaxTraceTTL \in Nat
        BY <4>1, NaturalProduct
      <4> QED BY <4>2, NaturalProduct, ConfigFacts DEF MaxHopsPerCycle
    <3>2. WalkRounds * WalkDepth <= MaxHopsPerCycle
      BY ConfigFacts
    <3> QED BY <2>1, <2>2, <2>5, <3>1, <3>2
  <2> QED BY <2>4, <2>6
<1>12. ValidCycle(c, at)
  BY <1>5, <1>6, <1>7, <1>8, <1>9, <1>10, <1>11 DEF ValidCycle
<1>13. Len(<<c>>) <= MaxCyclesPerBatch /\ \A i \in DOMAIN <<c>> : ValidCycle(<<c>>[i], at)
  <2>1. Len(<<c>>) = 1 /\ DOMAIN <<c>> = {1} /\ <<c>>[1] = c
    OBVIOUS
  <2> QED BY <1>3, <1>12, <2>1
<1>14. FromCycle(c) = c
  BY <1>2
<1> QED BY <1>13, <1>14 DEF Validate, c

(* The master rebuilds the record. *)
LEMMA RecordRebuilt ==
  ASSUME LoopIInv, PathInv, EchoesResolve, loop = "sinks"
  PROVE  ToCycle(FromCycle(Recorded)) = Recorded
<1> DEFINE c == Recorded
           hops == c.hops
           samples == c.samples
           kept(h) == [h EXCEPT !.addr = CanonicalHopAddr(@), !.unreach = CanonicalUnreach(@)]
<1>1. /\ cycle.sent = cycle.lost + Len(cycle.rtts)
      /\ RowsWithin(cycle.hops, WalkRounds * WalkDepth)
  BY CycleFacts
<1>2. c = [time |-> now, sent |-> cycle.sent, lost |-> cycle.lost, rtts |-> cycle.rtts,
           summary |-> Compute(cycle.rtts), hops |-> hops, samples |-> samples]
  BY DEF Recorded
<1>3. FromCycle(c) = c
  BY RecordFields
<1>4. hops = [i \in DOMAIN cycle.hops |-> RecordedHop(cycle.hops[i])]
  BY RecordedHops
<1> HIDE DEF c, hops, samples
<1>5. [i \in DOMAIN hops |-> kept(hops[i])] = hops
  <2>1. ASSUME NEW i \in DOMAIN cycle.hops PROVE kept(RecordedHop(cycle.hops[i])) = RecordedHop(cycle.hops[i])
    <3>1. cycle.hops \in Seq(HopRow) /\ i \in 1..Len(cycle.hops)
      BY <1>1 DEF RowsWithin
    <3>2. cycle.hops[i] \in HopRow
      BY <3>1, ElementOfSeq
    <3>3. cycle.hops[i].sent <= WalkRounds /\ cycle.hops[i].lost <= cycle.hops[i].sent
      BY <1>1, <3>1 DEF RowsWithin
    <3> QED BY <3>2, <3>3, HopValid
  <2> HIDE DEF kept
  <2>2. DOMAIN hops = DOMAIN cycle.hops
    BY <1>4
  <2>3. \A i \in DOMAIN hops : kept(hops[i]) = hops[i]
    BY <1>4, <2>1
  <2>4. [i \in DOMAIN hops |-> kept(hops[i])] = [i \in DOMAIN hops |-> hops[i]]
    BY <2>3, Zenon
  <2>5. [i \in DOMAIN hops |-> hops[i]] = hops
    BY <1>4
  <2> QED BY <2>4, <2>5
<1>6. ToCycle(c) = [time |-> c.time, lost |-> c.lost, rtts |-> c.rtts, samples |-> c.samples,
                    sent |-> c.lost + Len(c.rtts), summary |-> Compute(c.rtts),
                    hops |-> [i \in DOMAIN c.hops |-> kept(c.hops[i])]]
  BY DEF ToCycle
<1> HIDE DEF kept
<1>7. /\ c.time = now /\ c.lost = cycle.lost /\ c.rtts = cycle.rtts /\ c.samples = samples /\ c.hops = hops
  BY <1>2
<1>8. ToCycle(c) = [time |-> now, lost |-> cycle.lost, rtts |-> cycle.rtts, samples |-> samples,
                    sent |-> cycle.sent, summary |-> Compute(cycle.rtts), hops |-> hops]
  BY <1>1, <1>5, <1>6, <1>7
<1>9. ToCycle(c) = c
  BY <1>2, <1>8
<1> QED BY <1>3, <1>9 DEF c
(* A list of no places, and of one. *)
LEMMA ListedFew ==
  /\ \A seq, B : Listed(seq, {}, B) = <<>>
  /\ \A seq, B, j : <<j, j>> \notin B => Listed(seq, {j}, B) = <<seq[j]>>
<1>1. ASSUME NEW seq, NEW B PROVE Listed(seq, {}, B) = <<>>
  <2>1. 1..Cardinality({}) = {}
    BY FS_EmptySet
  <2> QED BY <2>1 DEF Listed
<1>2. ASSUME NEW seq, NEW B, NEW j, <<j, j>> \notin B PROVE Listed(seq, {j}, B) = <<seq[j]>>
  <2> DEFINE turn(k) == CHOOSE i \in {j} : Cardinality({x \in {j} : <<x, i>> \in B}) = k - 1
  <2>1. 1..Cardinality({j}) = {1}
    <3>1. Cardinality({j}) = 1
      BY FS_Singleton
    <3> QED BY <3>1
  <2>2. turn(1) = j
    <3>1. {x \in {j} : <<x, j>> \in B} = {}
      BY <1>2
    <3>2. Cardinality({x \in {j} : <<x, j>> \in B}) = 0
      BY <3>1, FS_EmptySet
    <3>3. \E i \in {j} : Cardinality({x \in {j} : <<x, i>> \in B}) = 1 - 1
      BY <3>2
    <3> QED BY <3>3
  <2>3. Listed(seq, {j}, B) = [k \in 1..Cardinality({j}) |-> seq[turn(k)]]
    BY DEF Listed
  <2> HIDE DEF turn
  <2>4. Listed(seq, {j}, B) = [k \in {1} |-> seq[turn(k)]]
    BY <2>1, <2>3
  <2>5. [k \in {1} |-> seq[turn(k)]] = [k \in {1} |-> seq[j]]
    BY <2>2
  <2>6. [k \in {1} |-> seq[j]] = <<seq[j]>>
    OBVIOUS
  <2> QED BY <2>4, <2>5, <2>6
<1> QED BY <1>1, <1>2

(* The row of the record. *)
Row == WriterRow(now, 1, cycle.sent, cycle.lost, Micros(Compute(cycle.rtts), cycle.rtts # <<>>))

(* It shows the cycle's attempts, its losses and its round trips.             *)
LEMMA RowFacts ==
  ASSUME cycle.sent \in Nat, cycle.lost \in Nat, cycle.rtts \in Seq(0..Interval),
         cycle.sent = cycle.lost + Len(cycle.rtts)
  PROVE  /\ Row.time = now /\ Row.source = 1 /\ Row.sent = cycle.sent /\ Row.lost = cycle.lost
         /\ Row.max \in Nat /\ (Row.max > 0 <=> cycle.rtts # <<>>)
         /\ EffectiveSent(Row) = cycle.sent
<1> DEFINE s == Compute(cycle.rtts)
           us(d) == IF cycle.rtts # <<>> THEN d + 1 ELSE 0
<1>1. Row = [time |-> now, source |-> 1, sent |-> cycle.sent, lost |-> cycle.lost,
             min |-> us(s.min), median |-> us(s.median), max |-> us(s.max)]
  BY DEF Row, WriterRow, Micros
<1>2. s.max \in Nat
  <2>1. Figures(s) \subseteq 0..Interval /\ Interval \in Nat
    BY SummaryWithin, ConfigFacts
  <2> HIDE DEF s
  <2> QED BY <2>1 DEF Figures
<1> HIDE DEF s
<1>3. /\ Row.time = now /\ Row.source = 1 /\ Row.sent = cycle.sent /\ Row.lost = cycle.lost
      /\ Row.max = us(s.max)
  BY <1>1
<1>4. Row.max \in Nat /\ (Row.max > 0 <=> cycle.rtts # <<>>)
  BY <1>2, <1>3
<1>5. EffectiveSent(Row) = cycle.sent
  <2>1. CASE cycle.rtts = <<>>
    <3>1. Row.max = 0 /\ cycle.lost = cycle.sent
      BY <1>3, <2>1
    <3> QED BY <1>3, <3>1 DEF EffectiveSent
  <2>2. CASE cycle.rtts # <<>>
    BY <1>3, <1>4, <2>2 DEF EffectiveSent
  <2> QED BY <2>1, <2>2
<1> QED BY <1>3, <1>4, <1>5

(* It is the one point of the record, and there is none when nothing was sent. *)
LEMMA RecordPoints ==
  ASSUME now \in Nat, cycle.sent \in Nat, cycle.lost \in Nat, cycle.rtts \in Seq(0..Interval),
         cycle.sent = cycle.lost + Len(cycle.rtts)
  PROVE  RawPoints(StoredRows(Recorded), {1}, now, now + 1)
           = IF cycle.sent = 0 THEN <<>> ELSE <<Row>>
<1> DEFINE table == StoredRows(Recorded)
           places == Attempted(table, {1}, now, now + 1)
           B == {p \in places \X places :
                   \/ table[p[1]].time < table[p[2]].time
                   \/ p[1] < p[2] /\ ~(table[p[2]].time < table[p[1]].time)}
<1>1. RawPoints(table, {1}, now, now + 1) = Listed(table, places, B)
  BY DEF RawPoints, Ordered
<1>2. /\ Row.time = now /\ Row.source = 1 /\ Row.sent = cycle.sent
      /\ EffectiveSent(Row) = cycle.sent
  BY RowFacts
<1>3. table = IF cycle.sent = 0 THEN <<>> ELSE <<Row>>
  <2> DEFINE S == {i \in {1} : Row.sent > 0}
             O == {p \in S \X S : p[1] < p[2]}
  <2>1. StoredRows(Recorded) = StoredCycles(<<Row>>)
    BY RecordFields DEF StoredRows, Row
  <2>2. StoredCycles(<<Row>>) = Listed(<<Row>>, S, O)
    <3> HIDE DEF Row
    <3>1. {i \in DOMAIN <<Row>> : <<Row>>[i].sent > 0} = S
      OBVIOUS
    <3> HIDE DEF S
    <3> QED BY <3>1 DEF StoredCycles, Chosen, Picked
  <2>3. CASE cycle.sent = 0
    <3>1. S = {}
      BY <1>2, <2>3
    <3> HIDE DEF S, O
    <3> QED BY <2>1, <2>2, <2>3, <3>1, ListedFew
  <2>4. CASE cycle.sent # 0
    <3>1. S = {1}
      BY <1>2, <2>4
    <3>2. <<1, 1>> \notin O
      OBVIOUS
    <3>3. <<Row>>[1] = Row
      OBVIOUS
    <3> HIDE DEF S, O
    <3> QED BY <2>1, <2>2, <2>4, <3>1, <3>2, <3>3, ListedFew
  <2> QED BY <2>3, <2>4
<1> HIDE DEF table
<1>4. CASE cycle.sent = 0
  <2>1. table = <<>>
    BY <1>3, <1>4
  <2>2. places = {}
    BY <2>1 DEF Attempted, Admitted
  <2> HIDE DEF places, B
  <2> QED BY <1>1, <1>4, <2>2, ListedFew DEF table
<1>5. CASE cycle.sent # 0
  <2>1. table = <<Row>>
    BY <1>3, <1>5
  <2>2. DOMAIN table = {1} /\ table[1] = Row
    BY <2>1
  <2>3. places = {1}
    <3>1. Row.source \in {1} /\ now <= Row.time /\ Row.time < now + 1 /\ EffectiveSent(Row) > 0
      BY <1>2, <1>5
    <3> QED BY <2>2, <3>1 DEF Attempted, Admitted
  <2>4. <<1, 1>> \notin B
    BY <1>2, <2>2
  <2> HIDE DEF places, B
  <2>5. Listed(table, places, B) = <<Row>>
    BY <2>2, <2>3, <2>4, ListedFew
  <2> QED BY <1>1, <1>5, <2>5 DEF table
<1> QED BY <1>4, <1>5
(* An alert and the point of the record agree: a threshold of whole percents  *)
(* is reached by the fraction exactly when it is by the percents shown.       *)
LEMMA LossIsShown ==
  ASSUME cycle.sent \in Nat \ {0}, cycle.lost \in Nat, EffectiveSent(Row) = cycle.sent,
         Row.lost = cycle.lost, NEW v \in Nat, NEW op \in {">=", "<"}
  PROVE  Eval("loss_pct", op, v, Recorded) = Compared(LossPct(Row), op, v)
<1> DEFINE a == 100 * cycle.lost
           b == cycle.sent
<1>1. Recorded.sent = b /\ Recorded.lost = cycle.lost
  BY RecordFields
<1>2. LossPct(Row) = a \div b
  BY DEF LossPct, Percent
<1>3. Reading("loss_pct", Recorded) = <<a, b>>
  BY <1>1 DEF Reading
<1>4. a \in Nat /\ b \in Nat \ {0}
  OBVIOUS
<1> HIDE DEF a, b
<1>5. a \div b \in Int
  BY <1>4, QuotientIs
<1>6. v * b = b * v /\ v * b \in Nat
  BY <1>4
<1>7. a >= v * b <=> a \div b >= v
  <2>1. CASE b * v <= a
    <3>1. v <= a \div b
      BY <1>4, <2>1, QuotientFrom
    <3> QED BY <1>4, <1>5, <1>6, <2>1, <3>1
  <2>2. CASE a < b * v
    <3>1. a \div b < v
      BY <1>4, <2>2, QuotientBelow
    <3> QED BY <1>4, <1>5, <1>6, <2>2, <3>1
  <2> QED BY <1>4, <1>6, <2>1, <2>2
<1>8. a < v * b <=> a \div b < v
  BY <1>4, <1>5, <1>6, <1>7
<1>9. Eval("loss_pct", op, v, Recorded) = Compared(a, op, v * b)
  BY <1>3 DEF Eval
<1>10. CASE op = ">="
  <2>1. Compared(a, op, v * b) = (a >= v * b) /\ Compared(a \div b, op, v) = (a \div b >= v)
    BY <1>10 DEF Compared
  <2>2. (a >= v * b) = (a \div b >= v)
    BY <1>7
  <2>3. Compared(a, op, v * b) = Compared(a \div b, op, v)
    BY <2>1, <2>2, Zenon
  <2> QED BY <1>2, <1>9, <2>3, Zenon
<1>11. CASE op = "<"
  <2>1. Compared(a, op, v * b) = (a < v * b) /\ Compared(a \div b, op, v) = (a \div b < v)
    BY <1>11 DEF Compared
  <2>2. (a < v * b) = (a \div b < v)
    BY <1>8
  <2>3. Compared(a, op, v * b) = Compared(a \div b, op, v)
    BY <2>1, <2>2, Zenon
  <2> QED BY <1>2, <1>9, <2>3, Zenon
<1> QED BY <1>10, <1>11

(* All of the loss is of a target that did not answer, and no latency of such *)
(* a one is above a threshold.                                                *)
LEMMA SilentIsLost ==
  ASSUME cycle.sent \in Nat \ {0}, cycle.lost \in Nat, cycle.rtts \in Seq(0..Interval),
         cycle.sent = cycle.lost + Len(cycle.rtts)
  PROVE  /\ Eval("loss_pct", "==", 100, Recorded) <=> cycle.rtts = <<>>
         /\ \A f \in RTTFields : Eval(f, ">", 0, Recorded) => cycle.rtts # <<>>
<1> DEFINE c == Recorded
           s == Compute(cycle.rtts)
<1>1. c.sent = cycle.sent /\ c.lost = cycle.lost /\ c.summary = s
  BY RecordFields
<1>2. Eval("loss_pct", "==", 100, c) <=> cycle.rtts = <<>>
  <2>1. Reading("loss_pct", c) = <<100 * cycle.lost, cycle.sent>>
    BY <1>1 DEF Reading
  <2>2. Eval("loss_pct", "==", 100, c) = (100 * cycle.lost = 100 * cycle.sent)
    BY <2>1 DEF Eval, Compared
  <2>3. Len(cycle.rtts) \in Nat /\ (Len(cycle.rtts) = 0 <=> cycle.rtts = <<>>)
    BY EmptySeq
  <2>4. 100 * cycle.lost = 100 * cycle.sent <=> cycle.rtts = <<>>
    BY <2>3
  <2> QED BY <2>2, <2>4, Zenon
<1>3. ASSUME NEW f \in RTTFields, cycle.rtts = <<>> PROVE ~Eval(f, ">", 0, c)
  <2>1. Figures(s) \subseteq {0}
    BY <1>3, SummaryWithin, ConfigFacts
  <2> HIDE DEF c, s
  <2>2. /\ s.min = 0 /\ s.max = 0 /\ s.mean = 0 /\ s.median = 0 /\ s.stddev = 0
        /\ \A p \in PercentileSet : s.percentiles[p] = 0
    BY <2>1 DEF Figures
  <2>3. 5 \in PercentileSet /\ 95 \in PercentileSet
    <3>1. 5 = 5 * 1 /\ 95 = 5 * 19 /\ 1 \in 1..19 /\ 19 \in 1..19
      OBVIOUS
    <3> QED BY <3>1 DEF PercentileSet
  <2>4. s.percentiles[5] = 0 /\ s.percentiles[95] = 0
    BY <2>2, <2>3
  <2>5. Reading(f, c) = <<0, 1>>
    BY <1>1, <2>2, <2>4 DEF Reading, RTTFields
  <2>6. <<0, 1>>[1] = 0 /\ <<0, 1>>[2] = 1 /\ 0 * 1 = 0 /\ ~(0 > 0)
    OBVIOUS
  <2>7. Eval(f, ">", 0, c) = Compared(0, ">", 0)
    BY <2>5, <2>6, Zenon DEF Eval
  <2>8. ~Compared(0, ">", 0)
    BY <2>6 DEF Compared
  <2> QED BY <2>7, <2>8, Zenon
<1> QED BY <1>2, <1>3

(* What a sink is given arrives.                                              *)
LEMMA RecordKept ==
  ASSUME LoopIInv, PathInv, EchoesResolve
  PROVE  RecordArrives
<1> SUFFICES ASSUME loop = "sinks"
             PROVE  LET c == Recorded
                        points == RawPoints(StoredRows(c), {1}, now, now + 1)
                    IN  /\ \A at \in IngestClocks : Validate(<<FromCycle(c)>>, at)
                        /\ ToCycle(FromCycle(c)) = c
                        /\ SummaryIsOrdered(cycle.rtts)
                        /\ Len(points) = (IF cycle.sent = 0 THEN 0 ELSE 1)
                        /\ \A i \in DOMAIN points :
                             /\ points[i].sent = cycle.sent /\ points[i].lost = cycle.lost
                             /\ points[i].max > 0 <=> cycle.rtts # <<>>
                        /\ AlertsReadTheRecord(c, points)
  BY Zenon DEF RecordArrives
<1> DEFINE points == RawPoints(StoredRows(Recorded), {1}, now, now + 1)
<1>1. /\ cycle.sent \in Nat /\ cycle.lost \in Nat /\ cycle.rtts \in Seq(0..Interval)
      /\ cycle.sent = cycle.lost + Len(cycle.rtts)
  <2>1. Pings \in Nat
    BY ConfigFacts
  <2> QED BY <2>1, CycleFacts
<1>2. now \in Nat
  BY DEF LoopIInv, LoopInv, ClockTypeOK
<1>3. points = IF cycle.sent = 0 THEN <<>> ELSE <<Row>>
  BY <1>1, <1>2, RecordPoints
<1>4. /\ Row.sent = cycle.sent /\ Row.lost = cycle.lost /\ (Row.max > 0 <=> cycle.rtts # <<>>)
      /\ EffectiveSent(Row) = cycle.sent
  BY <1>1, RowFacts
<1> HIDE DEF points
<1>5. Len(points) = (IF cycle.sent = 0 THEN 0 ELSE 1)
  BY <1>3
<1>6. \A i \in DOMAIN points : cycle.sent # 0 /\ points[i] = Row
  BY <1>3
<1>7. ASSUME NEW i \in DOMAIN points
      PROVE  /\ points[i].sent = cycle.sent /\ points[i].lost = cycle.lost
             /\ points[i].max > 0 <=> cycle.rtts # <<>>
  BY <1>4, <1>6
<1>8. SummaryIsOrdered(cycle.rtts)
  <2>1. cycle.rtts \in Seq(Nat)
    BY <1>1, ConfigFacts
  <2> QED BY <2>1, SummariesAreOrdered
<1>9. AlertsReadTheRecord(Recorded, points)
  <2>1. SUFFICES ASSUME cycle.sent > 0
                 PROVE  /\ \A i \in DOMAIN points, v \in {0, 1, 50, 51, 100}, op \in {">=", "<"} :
                             Eval("loss_pct", op, v, Recorded) = Compared(LossPct(points[i]), op, v)
                        /\ Eval("loss_pct", "==", 100, Recorded) <=> Recorded.rtts = <<>>
                        /\ \A f \in RTTFields : Eval(f, ">", 0, Recorded) => Recorded.rtts # <<>>
    BY RecordFields, Zenon DEF AlertsReadTheRecord
  <2>2. cycle.sent \in Nat \ {0}
    BY <1>1, <2>1
  <2>3. ASSUME NEW i \in DOMAIN points, NEW v \in {0, 1, 50, 51, 100}, NEW op \in {">=", "<"}
        PROVE  Eval("loss_pct", op, v, Recorded) = Compared(LossPct(points[i]), op, v)
    <3>1. v \in Nat /\ points[i] = Row
      BY <1>6
    <3>2. Eval("loss_pct", op, v, Recorded) = Compared(LossPct(Row), op, v)
      BY <1>1, <1>4, <2>2, <3>1, LossIsShown
    <3> QED BY <3>1, <3>2
  <2>4. /\ Eval("loss_pct", "==", 100, Recorded) <=> cycle.rtts = <<>>
        /\ \A f \in RTTFields : Eval(f, ">", 0, Recorded) => cycle.rtts # <<>>
    BY <1>1, <2>2, SilentIsLost
  <2>5. Recorded.rtts = cycle.rtts
    BY RecordFields
  <2> QED BY <2>3, <2>4, <2>5
<1>10. \A at \in IngestClocks : Validate(<<FromCycle(Recorded)>>, at)
  BY RecordValid
<1>11. ToCycle(FromCycle(Recorded)) = Recorded
  BY RecordRebuilt
<1> QED BY <1>5, <1>7, <1>8, <1>9, <1>10, <1>11, Zenon DEF points

(* A cycle that any probe can make is accepted at ingest for any delay and    *)
(* skew, rebuilt as it was, stored as one point with its attempts and losses, *)
(* and read by an alert as that point shows it.                               *)
THEOREM RecordsArrive == LoopSpec => []RecordArrives
<1>1. LoopSpec => []LoopIInv
  BY InitLoop, LoopKeeps, PTL DEF LoopSpec
<1> QED BY <1>1, PathAccount, StagesOfEchoes, RecordKept, PTL

=============================================================================
