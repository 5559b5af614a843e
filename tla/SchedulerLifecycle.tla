------------------------- MODULE SchedulerLifecycle -------------------------
(* How a master's running scheduler follows its config file and its slaves:   *)
(* config.Store (internal/config/reload.go) with its SIGHUP and file-watcher  *)
(* goroutines, the registry's change callback and its debounce                *)
(* (cmd/gosmokeping/run_node.go, health_signal.go), and RunLifecycle          *)
(* (internal/scheduler/lifecycle.go, supervisor.go), all feeding one channel  *)
(* that holds one wakeup.                                                     *)
(*                                                                            *)
(* A config is what its reader tells apart: the shape a scheduler is built    *)
(* from, and what it contributes to the health mesh: the alert names and the  *)
(* pins.  The other half of the mesh is what the registry's slaves claim,     *)
(* which the pins turn into the peers that are probed.  healthSet reads the   *)
(* alerts and then the peers, at two moments, and it is called twice in a     *)
(* rebuild, for the fingerprint and for the Build.                            *)
EXTENDS Naturals, Sequences

CONSTANTS
  Shapes,      \* what config.Fingerprint and Build take from a config
  AlertLists,  \* cluster.health_alerts
  Pins,        \* cluster.slave_addrs
  PeerLists,   \* what Registry.Peers returns
  Configs,     \* the configs that validate
  Starts,      \* those the process may start with
  Claims,      \* what the registry's slaves advertise: the peers under each pins
  Unbuildable, \* shapes probe.Build refuses
  Reloaders,   \* goroutines that may be inside Store.Reload
  Broken,      \* a file that Load or the validator refuses
  Nothing,     \* no config, view or reload
  MaxEdits     \* bound: edits of the file and changes of the claims

(* What a reloader holds from its load to the end of its notification. *)
Reloading == [cfg : Configs, published : BOOLEAN]

ASSUME LifecycleAssumption ==
  /\ Unbuildable \subseteq Shapes
  /\ Configs \subseteq [shape : Shapes, alerts : AlertLists, pins : Pins]
  /\ Starts \subseteq Configs
  /\ Claims \subseteq [Pins -> PeerLists]
  /\ Nothing \notin Reloading
  /\ MaxEdits \in Nat

(* What a scheduler runs, and what a fingerprint is taken of. *)
Views == Shapes \X AlertLists \X PeerLists

VARIABLES
  file,        \* the config file's content
  cur,         \* Store.cur
  reload,      \* per reloader: what it has loaded and whether it published it
  reloadDue,   \* SIGHUPs and expired watcher timers not served yet
  claims,      \* the registry
  announcing,  \* changes whose onChange is still to be called
  raw,         \* rawSignals holds a signal
  armed,       \* the debounce timer runs
  signals,     \* schedulerSignals holds a wakeup
  subscribed,  \* the Supervisor has subscribed to the Store
  pc,          \* where RunLifecycle is
  taken,       \* the config it took from the Store
  heard,       \* the alerts healthSet has read, the peers still to be asked for
  pending,     \* the fingerprint it computed, not recorded yet
  candidate,   \* the scheduler it has built, not started yet
  fp,          \* the recorded fingerprint
  running,     \* what the running scheduler was built from
  failed,      \* the last wakeup's Build failed
  edits,       \* edits so far
  been,        \* the parts of a mesh there have been
  returned,    \* a part of the mesh came back after it was gone
  overlapped   \* a reload loaded while another held an earlier file, unpublished

store     == <<file, cur, reload, reloadDue>>
mesh      == <<claims, announcing, raw, armed>>
lifecycle == <<subscribed, pc, taken, heard, pending, candidate, fp, running, failed>>
history   == <<edits, been, returned, overlapped>>
vars      == <<store, mesh, signals, lifecycle, history>>

(* Registry.Peers: claims and pins are read under the registry's lock.        *)
Peers == claims[cur.pins]
CurrentView == <<cur.shape, cur.alerts, Peers>>

(* What healthSet saw of the live Store and the live registry, whatever       *)
(* config the lifecycle has taken.                                            *)
View(c) == <<c.shape, heard, Peers>>

(* The parts a mesh is made of, which a reader may take from different ones.  *)
Parts == {<<"alerts", cur.alerts>>, <<"peers", Peers>>}

RememberParts ==
  /\ been' = been \cup Parts'
  /\ returned' = (returned \/ \E part \in Parts' \ Parts : part \in been)

-----------------------------------------------------------------------------
Init ==
  /\ cur \in Starts /\ file = cur
  /\ cur.shape \notin Unbuildable
  /\ reload = [r \in Reloaders |-> Nothing] /\ reloadDue = 0
  /\ claims \in Claims
  /\ announcing = 0 /\ raw = FALSE /\ armed = FALSE /\ signals = FALSE
  /\ subscribed = FALSE
  /\ pc = "subscribe"
  /\ taken = Nothing /\ heard = Nothing /\ pending = Nothing /\ candidate = Nothing
  /\ fp = Nothing /\ running = Nothing /\ failed = FALSE
  /\ edits = 0 /\ been = Parts /\ returned = FALSE /\ overlapped = FALSE

(* An operator edits the file, which the watcher or a SIGHUP reports. *)
EditFile ==
  /\ edits < MaxEdits /\ edits' = edits + 1
  /\ file' \in (Configs \cup {Broken}) \ {file}
  /\ reloadDue' = reloadDue + 1
  /\ UNCHANGED <<cur, reload, mesh, signals, lifecycle, been, returned, overlapped>>

(* Store.Reload: load and validate ... *)
Load(r) ==
  /\ reloadDue > 0
  /\ reload[r] = Nothing
  /\ reloadDue' = reloadDue - 1
  /\ reload' = IF file = Broken THEN reload
               ELSE [reload EXCEPT ![r] = [cfg |-> file, published |-> FALSE]]
  /\ overlapped' = (overlapped \/ \E q \in Reloaders :
                      reload[q] # Nothing /\ ~reload[q].published /\ file \notin {Broken, reload[q].cfg})
  /\ UNCHANGED <<file, cur, mesh, signals, lifecycle, edits, been, returned>>

(* ... publish ... *)
Publish(r) ==
  /\ reload[r] # Nothing
  /\ ~reload[r].published
  /\ cur' = reload[r].cfg
  /\ reload' = [reload EXCEPT ![r].published = TRUE]
  /\ UNCHANGED <<file, reloadDue, mesh, signals, lifecycle, edits, overlapped>>
  /\ RememberParts

(* ... and wake the subscriber, if there is one, unless a wakeup waits.       *)
Notify(r) ==
  /\ reload[r] # Nothing
  /\ reload[r].published
  /\ signals' = (signals \/ subscribed)
  /\ reload' = [reload EXCEPT ![r] = Nothing]
  /\ UNCHANGED <<file, cur, reloadDue, mesh, lifecycle, history>>

(* A request or a sweep changes what the slaves claim; onChange follows once  *)
(* the registry is unlocked.                                                  *)
ChangeClaims ==
  /\ edits < MaxEdits /\ edits' = edits + 1
  /\ claims' \in Claims \ {claims}
  /\ announcing' = announcing + 1
  /\ UNCHANGED <<store, raw, armed, signals, lifecycle, overlapped>>
  /\ RememberParts

OnChange ==
  /\ announcing > 0
  /\ announcing' = announcing - 1
  /\ raw' = TRUE
  /\ UNCHANGED <<store, claims, armed, signals, lifecycle, history>>

(* debounce: a signal (re)arms the timer, the timer forwards one wakeup.      *)
Arm ==
  /\ raw
  /\ raw' = FALSE /\ armed' = TRUE
  /\ UNCHANGED <<store, claims, announcing, signals, lifecycle, history>>

(* (A definition named X_Y is X with the mistake Y; no behaviour uses it.)    *)
Fire_Unarmed ==
  /\ armed
  /\ armed' = FALSE /\ signals' = signals
  /\ UNCHANGED <<store, claims, announcing, raw, lifecycle, history>>

Fire ==
  /\ armed
  /\ armed' = FALSE /\ signals' = TRUE
  /\ UNCHANGED <<store, claims, announcing, raw, lifecycle, history>>

-----------------------------------------------------------------------------
(* Supervisor.Run subscribes and then reads the config it starts from. *)
Subscribe ==
  /\ pc = "subscribe"
  /\ subscribed' = TRUE
  /\ pc' = "initial"
  /\ UNCHANGED <<store, mesh, signals, taken, heard, pending, candidate, fp, running, failed, history>>

Initial ==
  /\ pc = "initial"
  /\ taken' = cur
  /\ pc' = "fingerprint"
  /\ UNCHANGED <<store, mesh, signals, subscribed, heard, pending, candidate, fp, running, failed, history>>

(* RunLifecycle takes a wakeup and then asks the Store. *)
TakeSignal ==
  /\ pc = "wait"
  /\ signals
  /\ signals' = FALSE
  /\ pc' = "current"
  /\ UNCHANGED <<store, mesh, subscribed, taken, heard, pending, candidate, fp, running, failed, history>>

Current ==
  /\ pc = "current"
  /\ taken' = cur
  /\ pc' = "fingerprint"
  /\ UNCHANGED <<store, mesh, signals, subscribed, heard, pending, candidate, fp, running, failed, history>>

(* healthSet, for the fingerprint and again for the Build: the alerts first.  *)
HealthAlerts ==
  /\ pc \in {"fingerprint", "build"}
  /\ heard' = cur.alerts
  /\ pc' = IF pc = "fingerprint" THEN "compare" ELSE "construct"
  /\ UNCHANGED <<store, mesh, signals, subscribed, taken, pending, candidate, fp, running,
                 failed, history>>

(* With the peers the fingerprint is complete; equal ones end the wakeup.     *)
Fingerprint ==
  /\ pc = "compare"
  /\ IF View(taken) = fp THEN pc' = "wait" /\ UNCHANGED pending
     ELSE pc' = "build" /\ pending' = View(taken)
  /\ heard' = Nothing /\ failed' = FALSE
  /\ UNCHANGED <<store, mesh, signals, subscribed, taken, candidate, fp, running, history>>

(* The Build, from what healthSet saw this time.  Its failure leaves the old  *)
(* scheduler and the old fingerprint; the first one ends the process.         *)
Build ==
  /\ pc = "construct"
  /\ heard' = Nothing
  /\ IF taken.shape \in Unbuildable
     THEN /\ pc' = IF running = Nothing THEN "exited" ELSE "wait"
          /\ pending' = Nothing /\ failed' = TRUE
          /\ UNCHANGED candidate
     ELSE /\ pc' = "swap"
          /\ candidate' = View(taken)
          /\ UNCHANGED <<pending, failed>>
  /\ UNCHANGED <<store, mesh, signals, subscribed, taken, fp, running, history>>

Swap_Refingerprinted ==
  /\ pc = "swap"
  /\ fp' = <<taken.shape, cur.alerts, Peers>> /\ running' = candidate
  /\ pending' = Nothing /\ candidate' = Nothing
  /\ pc' = "wait"
  /\ UNCHANGED <<store, mesh, signals, subscribed, taken, heard, failed, history>>

(* The old scheduler is cancelled and has exited: the new one starts. *)
Swap ==
  /\ pc = "swap"
  /\ fp' = pending /\ running' = candidate
  /\ pending' = Nothing /\ candidate' = Nothing
  /\ pc' = "wait"
  /\ UNCHANGED <<store, mesh, signals, subscribed, taken, heard, failed, history>>

-----------------------------------------------------------------------------
Lifecycle ==
  \/ Subscribe \/ Initial \/ TakeSignal \/ Current
  \/ HealthAlerts \/ Fingerprint \/ Build \/ Swap

Debounce == OnChange \/ Arm \/ Fire

Reload(r) == Load(r) \/ Publish(r) \/ Notify(r)

Next ==
  \/ EditFile \/ ChangeClaims
  \/ \E r \in Reloaders : Reload(r)
  \/ Debounce
  \/ Lifecycle

(* Edits end; the goroutines run on. *)
Fairness ==
  WF_vars(Lifecycle) /\ WF_vars(Debounce) /\ \A r \in Reloaders : WF_vars(Reload(r))

Spec == Init /\ [][Next]_vars /\ Fairness

-----------------------------------------------------------------------------
(* The type of every variable. *)
TypeOK ==
  /\ file \in Configs \cup {Broken} /\ cur \in Configs
  /\ reload \in [Reloaders -> {Nothing} \cup Reloading]
  /\ reloadDue \in Nat
  /\ claims \in Claims /\ announcing \in Nat
  /\ raw \in BOOLEAN /\ armed \in BOOLEAN /\ signals \in BOOLEAN /\ subscribed \in BOOLEAN
  /\ pc \in {"subscribe", "initial", "wait", "current", "fingerprint", "compare", "build", "construct",
            "swap", "exited"}
  /\ taken \in Configs \cup {Nothing} /\ heard \in AlertLists \cup {Nothing}
  /\ {pending, candidate, fp, running} \subseteq Views \cup {Nothing}
  /\ failed \in BOOLEAN /\ edits \in 0..MaxEdits
  /\ been \subseteq ({"alerts"} \X AlertLists) \cup ({"peers"} \X PeerLists)
  /\ returned \in BOOLEAN /\ overlapped \in BOOLEAN

(* Nothing is on its way to the lifecycle, which waits. *)
Settled ==
  /\ \A r \in Reloaders : reload[r] = Nothing
  /\ announcing = 0 /\ ~raw /\ ~armed /\ ~signals
  /\ pc = "wait"

(* No wakeup is lost: at rest the recorded fingerprint is that of the live    *)
(* config and registry, or the last Build failed.  Coalescing in two          *)
(* channels, the late callback, the subscription during startup and the       *)
(* re-read of the Store are what makes it so (lifecycle.go lines 21 to 24,    *)
(* reload.go lines 20 to 25, health_signal.go lines 14 to 22).                *)
NoLostWakeup == Settled => fp = CurrentView \/ failed

(* Once every reload is served, what is in force is what the file says, or    *)
(* the file is one that was refused, or two reloads overlapped: nothing holds *)
(* a lock from Load to the publication (reload.go lines 71 to 84), so the     *)
(* later publication may be of the earlier load.                              *)
FileInForce ==
  reloadDue = 0 /\ (\A r \in Reloaders : reload[r] = Nothing) =>
    cur = file \/ file = Broken \/ overlapped

(* Only a config that validates is ever in use, the file's in the end, and no *)
(* wakeup is lost.                                                            *)
Inv == TypeOK /\ NoLostWakeup /\ FileInForce

(* Whatever interleaves, once the edits stop the scheduler comes to run the   *)
(* current config and mesh, unless the Build failed or a part of the mesh,    *)
(* the alerts or the peers, came back that had been gone: a Build that read   *)
(* the part in between keeps running then, under a fingerprint that matches   *)
(* again (the comment at lines 66 to 75 of lifecycle.go thinks of a mesh that *)
(* stays changed).  The mesh as a whole need not have been there before: the  *)
(* fingerprint may join the alerts of one mesh to the peers of another.       *)
SchedulerCatchesUp ==
  <>[](running = CurrentView \/ failed \/ returned)
=============================================================================
