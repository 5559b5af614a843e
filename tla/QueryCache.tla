----------------------------- MODULE QueryCache -----------------------------
(* The query cache of the read API, CachingReader in                          *)
(* internal/storage/cache.go: an LRU whose expired entries stay to stand in   *)
(* for a failing database, and single flight over detached leaders.  The      *)
(* cycles and the hops caches are two copies of the same algorithm with a     *)
(* lock each; one is modelled.                                                *)
(*                                                                            *)
(* A critical section is an action.  Between them run the first lookup, the   *)
(* second one with the flight table, the query (which reads the database at   *)
(* some moment), the leader's store, and the close of `done'.  What a key     *)
(* quantises and the hit counters are left out; an entry may expire at any    *)
(* moment.                                                                    *)
EXTENDS Integers, Sequences, FiniteSets

CONSTANTS
  Keys,        \* cache keys
  Callers,     \* requests
  MaxEntries,  \* cyclesMax, hopsMax
  MaxLeaders,  \* maxInflightLeaders
  MaxRequests, \* bound: requests begun
  MaxVersion   \* bound: changes of the data

ASSUME CacheAssumption ==
  /\ MaxEntries \in Nat \ {0}
  /\ MaxLeaders \in Nat \ {0}
  /\ MaxRequests \in Nat /\ MaxVersion \in Nat

VARIABLES
  data,      \* the version of the database; version 0 has no rows
  items,     \* c.items
  order,     \* c.order, most recently used first
  inflight,  \* c.inflight
  calls,     \* the leaders, by a number, and where each is
  requests,  \* requests begun so far
  caller,    \* what each of those running is doing
  newest     \* the newest version any request was told, by key

cache == <<items, order>>

cacheVars == <<data, cache, inflight, calls, requests, caller, newest>>

Versions == 0..MaxVersion
Idle     == [stage |-> "idle"]

(* The two values a Go function returns. *)
Rows(version) == [rows |-> version, err |-> "nil"]
Error(e)      == [rows |-> 0, err |-> e]

-----------------------------------------------------------------------------
CacheInit ==
  /\ data = 0
  /\ items = <<>> /\ order = <<>>
  /\ inflight = <<>> /\ calls = <<>> /\ requests = 0
  /\ caller = [r \in Callers |-> Idle]
  /\ newest = [k \in Keys |-> 0]

Write ==
  /\ data < MaxVersion
  /\ data' = data + 1
  /\ UNCHANGED <<cache, inflight, calls, requests, caller, newest>>

(* The TTL runs out.  The entry stays. *)
Expire(k) ==
  /\ k \in DOMAIN items /\ items[k].fresh
  /\ items' = [items EXCEPT ![k].fresh = FALSE]
  /\ UNCHANGED <<data, order, inflight, calls, requests, caller, newest>>

Hit(k) == k \in DOMAIN items /\ items[k].fresh

(* Where the element of a key is; that of a new one comes behind them all.    *)
Place(k) ==
  IF k \in DOMAIN items THEN CHOOSE i \in 1..Len(order) : order[i] = k ELSE Len(order) + 1

(* MoveToFront and PushFront. *)
ToFront(k) ==
  [j \in 1..(IF k \in DOMAIN items THEN Len(order) ELSE Len(order) + 1) |->
     IF j = 1 THEN k ELSE IF j <= Place(k) THEN order[j - 1] ELSE order[j]]

Without(f, x) == [y \in DOMAIN f \ {x} |-> f[y]]

With(f, x, v) == [y \in DOMAIN f \cup {x} |-> IF y = x THEN v ELSE f[y]]

(* A request returns. *)
Told(r, what) ==
  /\ caller' = [caller EXCEPT ![r] = Idle]
  /\ newest' = IF what.err = "nil" /\ what.rows > newest[caller[r].key]
               THEN [newest EXCEPT ![caller[r].key] = what.rows] ELSE newest

Begin(r, k) ==
  /\ caller[r] = Idle
  /\ requests < MaxRequests
  /\ requests' = requests + 1
  /\ caller' = [caller EXCEPT ![r] = [stage |-> "lookup", key |-> k, floor |-> newest[k]]]
  /\ UNCHANGED <<data, cache, inflight, calls, newest>>

(* lookup. *)
Lookup(r) ==
  /\ caller[r].stage = "lookup"
  /\ LET k == caller[r].key
     IN  IF Hit(k) THEN Told(r, Rows(items[k].rows)) /\ order' = ToFront(k)
         ELSE /\ caller' = [caller EXCEPT ![r].stage = "missed"]
              /\ UNCHANGED <<order, newest>>
  /\ UNCHANGED <<data, items, inflight, calls, requests>>

(* fetchCycles under c.mu: a leader may have stored its answer since.         *)
(* (A definition named X_Y is X with the mistake Y; no behaviour uses it.)    *)
Rehit(r) ==
  LET k == caller[r].key
  IN  /\ caller[r].stage = "missed"
      /\ Hit(k)
      /\ Told(r, Rows(items[k].rows)) /\ order' = ToFront(k)
      /\ UNCHANGED <<data, items, inflight, calls, requests>>

Waiting(r, c) ==
  caller' = [caller EXCEPT ![r] =
    [stage |-> "waiting", key |-> @.key, floor |-> @.floor, call |-> c]]

Join(r) ==
  LET k == caller[r].key
  IN  /\ caller[r].stage = "missed"
      /\ ~Hit(k) /\ k \in DOMAIN inflight
      /\ Waiting(r, inflight[k])
      /\ UNCHANGED <<data, cache, inflight, calls, requests, newest>>

Overloaded(r) ==
  LET k == caller[r].key
  IN  /\ caller[r].stage = "missed"
      /\ ~Hit(k) /\ k \notin DOMAIN inflight
      /\ Cardinality(DOMAIN inflight) >= MaxLeaders
      /\ Told(r, Error("overloaded"))
      /\ UNCHANGED <<data, cache, inflight, calls, requests>>

(* The caller's key is new: a leader is registered and runs on its own.       *)
NewCall == CHOOSE c \in 1..MaxRequests : c \notin DOMAIN calls

Started(r, k) ==
  /\ calls' = With(calls, NewCall, [key |-> k, stage |-> "querying"])
  /\ inflight' = With(inflight, k, NewCall)
  /\ Waiting(r, NewCall)

Lead_Anew(r) ==
  LET k == caller[r].key
  IN  /\ caller[r].stage = "missed"
      /\ ~Hit(k)
      /\ k \in DOMAIN inflight \/ Cardinality(DOMAIN inflight) < MaxLeaders
      /\ Started(r, k)
      /\ UNCHANGED <<data, cache, requests, newest>>

Lead(r) ==
  LET k == caller[r].key
  IN  /\ caller[r].stage = "missed"
      /\ ~Hit(k) /\ k \notin DOMAIN inflight
      /\ Cardinality(DOMAIN inflight) < MaxLeaders
      /\ Started(r, k)
      /\ UNCHANGED <<data, cache, requests, newest>>

-----------------------------------------------------------------------------
(* The query reads the database, fails (an error, its own deadline), or is    *)
(* refused (rows truncated, or a panic).                                      *)
Query(c) ==
  /\ calls[c].stage = "querying"
  /\ \E outcome \in {Rows(data), Error("failed"), Error("refused")} :
       calls' = [calls EXCEPT ![c] = [key |-> @.key, stage |-> "answered", result |-> outcome]]
  /\ UNCHANGED <<data, cache, inflight, requests, caller, newest>>

(* storeLocked. *)
Evicted(o) == SubSeq(o, 1, IF Len(o) > MaxEntries THEN MaxEntries ELSE Len(o))

Store(k, version) ==
  LET kept == Evicted(ToFront(k))
  IN  /\ order' = kept
      /\ items' = [x \in {kept[i] : i \in 1..Len(kept)} |->
                     IF x = k THEN [rows |-> version, fresh |-> TRUE] ELSE items[x]]

(* Whether what is cached stands in for an error. *)
StandsIn(k, result) ==
  result.err = "failed" /\ k \in DOMAIN items /\ items[k].rows # 0

Stage(c, stage, result) ==
  calls' = [calls EXCEPT ![c] = [key |-> @.key, stage |-> stage, result |-> result]]

(* runCyclesLeader: the answer is stored and the slot released in one         *)
(* critical section, failures included ...                                    *)
Finish_KeepsSlot(c) ==
  LET k == calls[c].key  result == calls[c].result
  IN  /\ calls[c].stage = "answered"
      /\ IF result.err = "nil" THEN Store(k, result.rows) ELSE UNCHANGED cache
      /\ Stage(c, "finished", IF StandsIn(k, result) THEN Rows(items[k].rows) ELSE result)
      /\ inflight' = IF result.err = "nil" THEN Without(inflight, k) ELSE inflight
      /\ UNCHANGED <<data, requests, caller, newest>>

Finish(c) ==
  LET k == calls[c].key  result == calls[c].result
  IN  /\ calls[c].stage = "answered"
      /\ IF result.err = "nil" THEN Store(k, result.rows) ELSE UNCHANGED cache
      /\ Stage(c, "finished", IF StandsIn(k, result) THEN Rows(items[k].rows) ELSE result)
      /\ inflight' = Without(inflight, k)
      /\ UNCHANGED <<data, requests, caller, newest>>

(* ... and whoever waits hears of it. *)
Woken(c) ==
  [r \in Callers |->
     IF caller[r].stage = "waiting" /\ caller[r].call = c
     THEN [stage |-> "woken", key |-> caller[r].key, floor |-> caller[r].floor,
           result |-> calls[c].result]
     ELSE caller[r]]

CloseDone_OnSuccess(c) ==
  /\ calls[c].stage = "finished" /\ calls[c].result.err = "nil"
  /\ caller' = Woken(c)
  /\ calls' = Without(calls, c)
  /\ UNCHANGED <<data, cache, inflight, requests, newest>>

CloseDone(c) ==
  /\ calls[c].stage = "finished"
  /\ caller' = Woken(c)
  /\ calls' = Without(calls, c)
  /\ UNCHANGED <<data, cache, inflight, requests, newest>>

Return(r) ==
  /\ caller[r].stage = "woken"
  /\ Told(r, caller[r].result)
  /\ UNCHANGED <<data, cache, inflight, calls, requests>>

(* The request is cancelled; its query goes on. *)
Cancelled(r) ==
  /\ caller[r].stage \in {"waiting", "woken"}
  /\ Told(r, Error("cancelled"))
  /\ UNCHANGED <<data, cache, inflight, calls, requests>>

Fetch(r) == Lookup(r) \/ Rehit(r) \/ Join(r) \/ Overloaded(r) \/ Lead(r) \/ Return(r)

Leader(c) == Query(c) \/ Finish(c) \/ CloseDone(c)

CacheNext ==
  \/ Write
  \/ \E k \in Keys : Expire(k)
  \/ \E r \in Callers : (\E k \in Keys : Begin(r, k)) \/ Fetch(r) \/ Cancelled(r)
  \/ \E c \in DOMAIN calls : Leader(c)

(* A request runs, and a query ends by its own deadline at the latest.        *)
CacheFairness ==
  /\ \A r \in Callers : WF_cacheVars(Fetch(r))
  /\ \A c \in 1..MaxRequests : WF_cacheVars(c \in DOMAIN calls /\ Leader(c))

CacheSpec == CacheInit /\ [][CacheNext]_cacheVars /\ CacheFairness

-----------------------------------------------------------------------------
(* The type of every variable; the list and the map of the LRU hold the same  *)
(* keys, each once, and no more than MaxEntries.                              *)
CacheTypeOK ==
  /\ data \in Versions /\ requests \in 0..MaxRequests
  /\ \A k \in DOMAIN items : items[k] \in [rows : Versions, fresh : BOOLEAN]
  /\ order \in Seq(Keys) /\ Len(order) = Cardinality(DOMAIN items)
  /\ {order[i] : i \in 1..Len(order)} = DOMAIN items
  /\ Len(order) <= MaxEntries
  /\ DOMAIN inflight \subseteq Keys /\ \A k \in DOMAIN inflight : inflight[k] \in DOMAIN calls
  /\ \A r \in Callers : caller[r].stage \in {"idle", "lookup", "missed", "waiting", "woken"}
  /\ \A c \in DOMAIN calls : calls[c].stage \in {"querying", "answered", "finished"}
  /\ newest \in [Keys -> Versions]

Running == {c \in DOMAIN calls : calls[c].stage \in {"querying", "answered"}}

(* Single flight: the flight table is exactly the queries that run, one per   *)
(* key and no more than the ceiling, whatever fails or is cancelled.  A slot  *)
(* without a leader would take every later request of its key as a waiter     *)
(* that nobody answers (fetchCycles, runCyclesLeader, the comment on          *)
(* queryMaxDuration).                                                         *)
SlotsAreLeaders ==
  /\ Running = {inflight[k] : k \in DOMAIN inflight}
  /\ \A k \in DOMAIN inflight : calls[inflight[k]].key = k
  /\ Cardinality(Running) <= MaxLeaders

(* The flight table and the LRU are sound, whatever fails or is cancelled.    *)
CacheInv == CacheTypeOK /\ SlotsAreLeaders

AboutToBeTold(r) ==
  IF caller[r].stage \in {"lookup", "missed"} /\ Hit(caller[r].key)
  THEN {items[caller[r].key].rows}
  ELSE IF caller[r].stage = "woken" /\ caller[r].result.err = "nil"
  THEN {caller[r].result.rows}
  ELSE {}

(* No request is sent back in time: what it is told is at least as new as     *)
(* anything any request was told for that key before it began, through        *)
(* expiry, eviction, failed queries and stale answers.  It rests on one       *)
(* leader per key at a time and on the store and the release being one step.  *)
NeverBackInTime ==
  \A r \in Callers : \A version \in AboutToBeTold(r) : version >= caller[r].floor

(* A request is always answered: whatever leads may be cancelled, fail or     *)
(* panic.                                                                     *)
EveryCallerAnswered ==
  \A r \in Callers : caller[r].stage # "idle" ~> caller[r].stage = "idle"
=============================================================================
