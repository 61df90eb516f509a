----------------------------- MODULE LruCache -----------------------------
(***************************************************************************)
(* lrucache/cache.go: the thread-safe LRU cache with TTL, used by several  *)
(* goroutines at once.                                                     *)
(*                                                                         *)
(* An action is what a goroutine does between two points at which another  *)
(* goroutine can interfere: one critical section of Cache.mutex, one       *)
(* cond.Wait, one call of computeValue.  The two loops that run with the   *)
(* mutex held (the eviction loop of Get, the range loop of Keys) take one  *)
(* step per iteration and keep the mutex.                                  *)
(***************************************************************************)
EXTENDS LruList

CONSTANTS
  Thread,     (* goroutines that call the cache                            *)
  Key,        (* cache keys                                                *)
  NoKey,      (* the key of an entry that is not allocated yet             *)
  NoValue,    (* the nil value                                             *)
  NoThread,   (* nobody holds the mutex                                    *)
  Ttl,        (* time-to-live arguments and results, negative ones allowed *)
  Size,       (* size arguments and results                                *)
  MaxMemory,  (* the maxmemory argument of New                             *)
  CanPanic,   (* may computeValue panic?                                   *)
  Epoch,      (* reading of the clock at the start                         *)
  MaxClock,   (* bound: the clock stops here                               *)
  MaxCalls    (* bound: calls that each goroutine makes                    *)

ASSUME KeyAssumption    == NoKey \notin Key /\ NoValue \notin Key
ASSUME ThreadAssumption == NoThread \notin Thread /\ IsFiniteSet(Thread)
ASSUME NumberAssumption ==
  /\ Size \subseteq Nat
  /\ Ttl \subseteq Int
  /\ MaxMemory \in Int
  /\ CanPanic \in BOOLEAN
  /\ Epoch \in Nat \ {0}
  /\ MaxClock \in Nat
  /\ MaxCalls \in Nat
  /\ \A d \in Ttl : Epoch + d > 0    \* now.Add(ttl) is never the zero time

VARIABLES
  mutex,       \* the goroutine that keeps Cache.mutex after its step
  entries,     \* Cache.entries: Key -> entry, Nil where there is none
  usedmemory,  \* Cache.usedmemory
  list,        \* Cache.head, Cache.tail and the next and prev of all entries
  ekey,        \* cacheEntry.key
  value,       \* cacheEntry.value: the key a value was made for, or NoValue
  expiration,  \* cacheEntry.expiration, 0 is the zero time
  size,        \* cacheEntry.size
  waitingForComputation,  \* cacheEntry.waitingForComputation
  pc,          \* where each goroutine is
  call,        \* the operation it runs and its key
  now,         \* its local variable now
  at,          \* the entry it waits for or computes, or evictionCandidate
  ret,         \* what its last Get returned
  scan,        \* the locals of Keys: keys still to visit and the size so far
  failure,     \* the last internal panic of Keys, "none" if there was none
  clock,       \* wall clock
  calls        \* calls started by each goroutine

entryVars  == <<ekey, value, expiration, size, waitingForComputation>>
threadVars == <<pc, call, now, at, ret>>
cacheVars  == <<entries, usedmemory, list>>
boundVars  == <<clock, calls>>
vars == <<mutex, cacheVars, entryVars, threadVars, scan, failure, boundVars>>

Op == {"get", "lookup", "put", "del", "keys"}   \* "lookup" is Get(key, nil)
Failure == {"none", "key mismatch", "list corrupted",
            "size calculations failed", "head/tail corrupted"}
NoScan == [todo |-> {}, size |-> 0]
NoCall == [op |-> "none", key |-> NoKey]
Location == {"idle", "locking", "waiting", "woken", "computing",
             "evicting", "scanning", "returning"}

Init ==
  /\ mutex = NoThread
  /\ entries = [k \in Key |-> Nil]
  /\ usedmemory = 0
  /\ list = EmptyList
  /\ ekey = [e \in Entry |-> NoKey]
  /\ value = [e \in Entry |-> NoValue]
  /\ expiration = [e \in Entry |-> 0]
  /\ size = [e \in Entry |-> 0]
  /\ waitingForComputation = [e \in Entry |-> 0]
  /\ pc = [t \in Thread |-> "idle"]
  /\ call = [t \in Thread |-> NoCall]
  /\ now = [t \in Thread |-> Epoch]
  /\ at = [t \in Thread |-> Nil]
  /\ ret = [t \in Thread |-> NoValue]
  /\ scan = NoScan
  /\ failure = "none"
  /\ clock = Epoch
  /\ calls = [t \in Thread |-> 0]
-----------------------------------------------------------------------------
(* Helpers.                                                                *)

IsZero(e) == expiration[e] = 0

(* now.After(e.expiration) in goroutine t *)
Expired(t, e) == now[t] > expiration[e]

KeyOf(t) == call[t].key

(* A goroutine returns v to its caller; its local variables are gone. *)
Return(t, v) ==
  /\ pc' = [pc EXCEPT ![t] = "idle"]
  /\ ret' = [ret EXCEPT ![t] = v]
  /\ at' = [at EXCEPT ![t] = Nil]
  /\ call' = [call EXCEPT ![t] = NoCall]
  /\ now' = [now EXCEPT ![t] = Epoch]

NotNeededStored(e, wait) == ~IsZero(e)   \* mutant: who was woken is forgotten

(* evictEntry refuses to remove an entry that goroutines still need. *)
NotNeeded(e, wait) == wait[e] = 0

EvictedKeepsMemory(e) ==   \* mutant: usedmemory only ever grows
  /\ list' = UnlinkEntry(list, e)
  /\ UNCHANGED usedmemory

(* What evictEntry does to the cache when it does not refuse. *)
Evicted(e) ==
  /\ list' = UnlinkEntry(list, e)
  /\ usedmemory' = usedmemory - size[e]

Unallocated == {e \in Entry : ekey[e] = NoKey}

NewEntry == CHOOSE e \in Entry : ekey[e] = NoKey

(* Insert a new entry for the key of t and compute its value outside of    *)
(* the mutex.  ents and wait are the map and the waiters left so far.      *)
StartComputation(t, ents, wait) ==
  /\ Unallocated # {}
  /\ entries' = [ents EXCEPT ![KeyOf(t)] = NewEntry]
  /\ ekey' = [ekey EXCEPT ![NewEntry] = KeyOf(t)]
  /\ waitingForComputation' = [wait EXCEPT ![NewEntry] = 1]
  /\ at' = [at EXCEPT ![t] = NewEntry]
  /\ pc' = [pc EXCEPT ![t] = "computing"]
  /\ UNCHANGED <<call, now, ret, value, expiration, size>>

(* The end of Get when there is no usable entry. *)
Miss(t, ents, wait) ==
  \/ /\ call[t].op = "get"
     /\ StartComputation(t, ents, wait)
  \/ /\ call[t].op = "lookup"
     /\ Return(t, NoValue)
     /\ entries' = ents
     /\ waitingForComputation' = wait
     /\ UNCHANGED <<ekey, value, expiration, size>>

CountDownForgotten(e) == waitingForComputation   \* mutant

(* One goroutine less needs e. *)
CountDown(e) == [waitingForComputation EXCEPT ![e] = @ - 1]

AwokenByTwo(waiters) ==   \* mutant: a single waiter is not woken
  IF waiters > 1 THEN {t \in Thread : pc[t] = "waiting"} ELSE {}

(* cond.Broadcast, if goroutines wait for the entry just computed: all     *)
(* that wait, whatever entry they wait for, are woken.                     *)
Awoken(waiters) ==
  IF waiters > 0 THEN {t \in Thread : pc[t] = "waiting"} ELSE {}

(* cond.Wait on entry e: t is counted and the mutex released. *)
WaitFor(t, e, wait) ==
  /\ pc' = [pc EXCEPT ![t] = "waiting"]
  /\ at' = [at EXCEPT ![t] = e]
  /\ waitingForComputation' = [wait EXCEPT ![e] = @ + 1]
  /\ UNCHANGED <<cacheVars, ekey, value, expiration, size, call, now, ret>>

(* Get unlocks the mutex first and then reads the value of e. *)
UnlockThenRead(t, e) ==
  /\ pc' = [pc EXCEPT ![t] = "returning"]
  /\ at' = [at EXCEPT ![t] = e]
  /\ UNCHANGED <<call, now, ret>>
-----------------------------------------------------------------------------
(* Get, from the point at which the entry e of the key is computed.        *)

GetFresh(t, e, wait) ==
  /\ ~Expired(t, e)
  /\ list' = MoveToFront(list, e)
  /\ UnlockThenRead(t, e)
  /\ waitingForComputation' = wait
  /\ UNCHANGED <<entries, usedmemory, ekey, value, expiration, size>>

(* evictEntry refuses since others still wait: the old value is served. *)
GetStale(t, e, wait) ==
  /\ Expired(t, e)
  /\ ~NotNeeded(e, wait)
  /\ UnlockThenRead(t, e)
  /\ waitingForComputation' = wait
  /\ UNCHANGED <<cacheVars, ekey, value, expiration, size>>

GetExpiredForced(t, e, wait) ==   \* mutant: evicts although others wait
  /\ Expired(t, e)
  /\ Evicted(e)
  /\ Miss(t, [entries EXCEPT ![ekey[e]] = Nil], wait)

GetExpired(t, e, wait) ==
  /\ Expired(t, e)
  /\ NotNeeded(e, wait)
  /\ Evicted(e)
  /\ Miss(t, [entries EXCEPT ![ekey[e]] = Nil], wait)

GetComputed(t, e, wait) ==
  GetFresh(t, e, wait) \/ GetStale(t, e, wait) \/ GetExpired(t, e, wait)

(* Put on an existing entry: new value, size and expiration, and to front. *)
PutExisting(t, e, s, d, wait) ==
  /\ usedmemory' = usedmemory - size[e] + s
  /\ expiration' = [expiration EXCEPT ![e] = now[t] + d]
  /\ size' = [size EXCEPT ![e] = s]
  /\ value' = [value EXCEPT ![e] = KeyOf(t)]
  /\ list' = InsertFront(UnlinkEntry(list, e), e)
  /\ waitingForComputation' = wait
  /\ Return(t, NoValue)
  /\ UNCHANGED <<entries, ekey>>

(* Put of a new entry.  The argument size is not looked at. *)
PutNew(t, s, d) ==
  /\ Unallocated # {}
  /\ entries' = [entries EXCEPT ![KeyOf(t)] = NewEntry]
  /\ ekey' = [ekey EXCEPT ![NewEntry] = KeyOf(t)]
  /\ value' = [value EXCEPT ![NewEntry] = KeyOf(t)]
  /\ expiration' = [expiration EXCEPT ![NewEntry] = now[t] + d]
  /\ list' = InsertFront(list, NewEntry)
  /\ Return(t, NoValue)
  /\ UNCHANGED <<usedmemory, size, waitingForComputation>>
-----------------------------------------------------------------------------
(* Actions.                                                                *)

Tick ==
  /\ clock < MaxClock
  /\ clock' = clock + 1
  /\ UNCHANGED <<mutex, cacheVars, entryVars, threadVars, scan, failure, calls>>

(* A goroutine calls the cache.  Get and Put read the clock before they    *)
(* ask for the mutex.                                                      *)
Invoke(t) ==
  /\ pc[t] = "idle"
  /\ calls[t] < MaxCalls
  /\ \E op \in Op, k \in Key :
       call' = [call EXCEPT ![t] = [op |-> op, key |-> k]]
  /\ now' = [now EXCEPT ![t] = clock]
  /\ pc' = [pc EXCEPT ![t] = "locking"]
  /\ calls' = [calls EXCEPT ![t] = @ + 1]
  /\ ret' = [ret EXCEPT ![t] = NoValue]
  /\ UNCHANGED <<mutex, cacheVars, entryVars, at, scan, failure, clock>>

(* t is in a critical section that it leaves at the end of this step. *)
InCriticalSection(t, loc) ==
  /\ pc[t] = loc
  /\ mutex = NoThread
  /\ UNCHANGED <<mutex, scan, failure, boundVars>>

Get(t) ==
  /\ InCriticalSection(t, "locking")
  /\ call[t].op \in {"get", "lookup"}
  /\ LET e == entries[KeyOf(t)]
         w == waitingForComputation
     IN  \/ /\ e # Nil
            /\ IsZero(e)
            /\ WaitFor(t, e, w)
         \/ /\ e # Nil
            /\ ~IsZero(e)
            /\ GetComputed(t, e, w)
         \/ /\ e = Nil
            /\ Miss(t, entries, w)
            /\ UNCHANGED <<usedmemory, list>>

Put(t) ==
  /\ InCriticalSection(t, "locking")
  /\ call[t].op = "put"
  /\ LET e == entries[KeyOf(t)]
         w == waitingForComputation
     IN  \/ /\ e # Nil
            /\ IsZero(e)
            /\ WaitFor(t, e, w)
         \/ /\ e # Nil
            /\ ~IsZero(e)
            /\ \E s \in Size, d \in Ttl : PutExisting(t, e, s, d, w)
         \/ /\ e = Nil
            /\ \E s \in Size, d \in Ttl : PutNew(t, s, d)

(* The return statement of a hit, which runs without the mutex: the value  *)
(* may be another one than at the time of the lookup.                      *)
ReadValue(t) ==
  /\ pc[t] = "returning"
  /\ Return(t, value[at[t]])
  /\ UNCHANGED <<mutex, cacheVars, entryVars, scan, failure, boundVars>>

(* The condition of the loop around cond.Wait. *)
WaitsAgain(e) == IsZero(e)

(* A broadcast reached t.  It takes the mutex again and looks once more at *)
(* the entry it has waited for, whatever the map says now.                 *)
Wake(t) ==
  /\ InCriticalSection(t, "woken")
  /\ LET e == at[t]
         w == CountDown(e)
     IN  \/ /\ WaitsAgain(e)
            /\ WaitFor(t, e, w)
         \/ /\ ~WaitsAgain(e)
            /\ call[t].op \in {"get", "lookup"}
            /\ GetComputed(t, e, w)
         \/ /\ ~WaitsAgain(e)
            /\ call[t].op = "put"
            /\ \E s \in Size, d \in Ttl : PutExisting(t, e, s, d, w)

Del(t) ==
  /\ InCriticalSection(t, "locking")
  /\ call[t].op = "del"
  /\ LET e == entries[KeyOf(t)]
     IN  IF e # Nil /\ NotNeeded(e, waitingForComputation)
         THEN /\ Evicted(e)
              /\ entries' = [entries EXCEPT ![ekey[e]] = Nil]
         ELSE UNCHANGED cacheVars
  /\ Return(t, NoValue)
  /\ UNCHANGED entryVars

FirstCandidateNewest(l) == l.head   \* mutant: evicts the most recently used

(* Where the eviction loop begins. *)
FirstCandidate(l) == l.tail

(* computeValue has returned: publish the value, wake the waiters if there *)
(* are any, and go on to the eviction loop with the mutex held.            *)
ComputeReturns(t) ==
  /\ pc[t] = "computing"
  /\ mutex = NoThread
  /\ LET e == at[t]
     IN  /\ \E s \in Size, d \in Ttl :
              /\ expiration' = [expiration EXCEPT ![e] = now[t] + d]
              /\ size' = [size EXCEPT ![e] = s]
              /\ usedmemory' = usedmemory + s
         /\ value' = [value EXCEPT ![e] = KeyOf(t)]
         /\ waitingForComputation' = CountDown(e)
         /\ list' = InsertFront(list, e)
         /\ pc' = [x \in Thread |->
                     IF x = t THEN "evicting"
                     ELSE IF x \in Awoken(waitingForComputation'[e]) THEN "woken"
                     ELSE pc[x]]
         /\ at' = [at EXCEPT ![t] = FirstCandidate(list')]
         /\ mutex' = t
  /\ ret' = [ret EXCEPT ![t] = KeyOf(t)]
  /\ UNCHANGED <<entries, ekey, call, now, scan, failure, boundVars>>

(* The condition under which the eviction loop drops its candidate. *)
Evictable(t, e) ==
  /\ size[e] > 0 \/ Expired(t, e)
  /\ NotNeeded(e, waitingForComputation)

NextCandidate(e) == list.prev[e]

(* One iteration of the eviction loop, or its end and the end of Get. *)
EvictNext(t) ==
  /\ pc[t] = "evicting"
  /\ usedmemory > MaxMemory
  /\ at[t] # Nil
  /\ LET e == at[t]
     IN  /\ at' = [at EXCEPT ![t] = NextCandidate(e)]
         /\ IF Evictable(t, e)
            THEN /\ Evicted(e)
                 /\ entries' = [entries EXCEPT ![ekey[e]] = Nil]
            ELSE UNCHANGED cacheVars
  /\ UNCHANGED <<mutex, entryVars, pc, call, now, ret, scan, failure, boundVars>>

EvictDone(t) ==
  /\ pc[t] = "evicting"
  /\ usedmemory <= MaxMemory \/ at[t] = Nil
  /\ Return(t, ret[t])
  /\ mutex' = NoThread
  /\ UNCHANGED <<cacheVars, entryVars, scan, failure, boundVars>>

(* computeValue has panicked: the deferred function removes what the map   *)
(* holds for the key and marks the entry.  It wakes nobody up.  The caller *)
(* recovers.                                                               *)
ComputePanics(t) ==
  /\ CanPanic
  /\ InCriticalSection(t, "computing")
  /\ entries' = [entries EXCEPT ![KeyOf(t)] = Nil]
  /\ expiration' = [expiration EXCEPT ![at[t]] = now[t]]
  /\ waitingForComputation' = CountDown(at[t])
  /\ Return(t, NoValue)
  /\ UNCHANGED <<usedmemory, list, ekey, value, size>>
-----------------------------------------------------------------------------
(* Keys                                                                    *)

KeysBegin(t) ==
  /\ pc[t] = "locking"
  /\ call[t].op = "keys"
  /\ mutex = NoThread
  /\ mutex' = t
  /\ now' = [now EXCEPT ![t] = clock]
  /\ scan' = [todo |-> {k \in Key : entries[k] # Nil}, size |-> 0]
  /\ pc' = [pc EXCEPT ![t] = "scanning"]
  /\ UNCHANGED <<cacheVars, entryVars, call, at, ret, failure, boundVars>>

(* The checks that Keys makes of one entry. *)
Corrupted(e) ==
  \/ list.prev[e] # Nil /\ list.next[list.prev[e]] # e
  \/ list.next[e] # Nil /\ list.prev[list.next[e]] # e

(* A panic of Keys: its deferred function unlocks the mutex. *)
KeysPanics(t, what) ==
  /\ failure' = what
  /\ mutex' = NoThread
  /\ scan' = NoScan
  /\ Return(t, NoValue)
  /\ UNCHANGED cacheVars

(* One iteration of the range loop, in whatever order the map gives. *)
KeysVisit(t, k) ==
  /\ pc[t] = "scanning"
  /\ k \in scan.todo
  /\ LET e == entries[k]
         expired == Expired(t, e) /\ NotNeeded(e, waitingForComputation)
         rest == scan.todo \ {k}
     IN  IF ekey[e] # k THEN KeysPanics(t, "key mismatch")
         ELSE IF expired
         THEN /\ Evicted(e)
              /\ entries' = [entries EXCEPT ![k] = Nil]
              /\ scan' = [scan EXCEPT !.todo = rest]
              /\ UNCHANGED <<mutex, failure, threadVars>>
         ELSE IF Corrupted(e) THEN KeysPanics(t, "list corrupted")
         ELSE /\ scan' = [todo |-> rest, size |-> scan.size + size[e]]
              /\ UNCHANGED <<mutex, failure, threadVars, cacheVars>>
  /\ UNCHANGED <<entryVars, boundVars>>

EndsCorrupted ==
  \/ list.head # Nil /\ (list.tail = Nil \/ list.prev[list.head] # Nil)
  \/ list.tail # Nil /\ (list.head = Nil \/ list.next[list.tail] # Nil)

(* The final checks of Keys. *)
KeysEnd(t) ==
  /\ pc[t] = "scanning"
  /\ scan.todo = {}
  /\ IF scan.size # usedmemory THEN KeysPanics(t, "size calculations failed")
     ELSE IF EndsCorrupted THEN KeysPanics(t, "head/tail corrupted")
     ELSE /\ mutex' = NoThread
          /\ scan' = NoScan
          /\ Return(t, NoValue)
          /\ UNCHANGED <<failure, cacheVars>>
  /\ UNCHANGED <<entryVars, boundVars>>
-----------------------------------------------------------------------------
(* Every goroutine has made its calls and is back: the bounded end. *)
Finished ==
  /\ \A t \in Thread : pc[t] = "idle" /\ calls[t] = MaxCalls
  /\ UNCHANGED vars

Locked(t)  == Get(t) \/ Put(t) \/ Del(t) \/ Wake(t) \/ KeysBegin(t)
Compute(t) == ComputeReturns(t) \/ ComputePanics(t)
Loop(t)    == ReadValue(t) \/ EvictNext(t) \/ EvictDone(t) \/ KeysEnd(t)
              \/ \E k \in Key : KeysVisit(t, k)

Step(t) == Invoke(t) \/ Locked(t) \/ Compute(t) \/ Loop(t)

Next == Tick \/ Finished \/ \E t \in Thread : Step(t)

Spec == Init /\ [][Next]_vars

(***************************************************************************)
(* A goroutine that runs keeps running and a call of computeValue ends.    *)
(* sync.Mutex hands the mutex over to a goroutine that has waited long, so *)
(* a goroutine that wants it again and again gets it: strong fairness.     *)
(***************************************************************************)
FairSpec ==
  /\ Spec
  /\ \A t \in Thread : SF_vars(Locked(t)) /\ SF_vars(Compute(t))
                       /\ WF_vars(Loop(t))
=============================================================================
