--------------------------- MODULE LruCacheProps ---------------------------
(***************************************************************************)
(* The properties of lrucache/cache.go, stated about LruCache.             *)
(***************************************************************************)
EXTENDS LruCache, Functions, SequencesExt

(* Every variable has its type (the fields of Cache and cacheEntry).       *)
TypeOK ==
  /\ mutex \in Thread \cup {NoThread}
  /\ entries \in [Key -> Pointer]
  /\ usedmemory \in Int
  /\ list \in List
  /\ ekey \in [Entry -> Key \cup {NoKey}]
  /\ value \in [Entry -> Key \cup {NoValue}]
  /\ expiration \in [Entry -> Int]
  /\ size \in [Entry -> Nat]
  /\ waitingForComputation \in [Entry -> Nat]
  /\ pc \in [Thread -> Location]
  /\ call \in [Thread -> [op : Op, key : Key] \cup {NoCall}]
  /\ now \in [Thread -> Nat]
  /\ at \in [Thread -> Pointer]
  /\ ret \in [Thread -> Key \cup {NoValue}]
  /\ scan \in [todo : SUBSET Key, size : Nat]
  /\ failure \in Failure
  /\ clock \in Nat
  /\ calls \in [Thread -> Nat]

Present(k) == entries[k] # Nil

(* The entries whose value is there. *)
Linked == {e \in Entry : ~IsZero(e) /\ \E k \in Key : entries[k] = e}

Computes(t, e) == pc[t] = "computing" /\ at[t] = e
WaitsFor(t, e) == pc[t] \in {"waiting", "woken"} /\ at[t] = e
-----------------------------------------------------------------------------
(* The map and the list hold the same computed entries: following next     *)
(* from the head meets each of them once, following prev from the tail     *)
(* gives the reverse.  Evictions, expiries, deletions and moves to the     *)
(* front all change both structures and must change them alike.            *)
ListMirrorsMap ==
  /\ ToSet(Forward(list)) = Linked
  /\ Len(Forward(list)) = Cardinality(Linked)
  /\ Backward(list) = Reverse(Forward(list))

(* usedmemory is the sum of the sizes of the entries in the map, with the  *)
(* mutex free or in the middle of an eviction loop: the sum that Keys      *)
(* recomputes and compares.                                                *)
UsedMemoryExact ==
  usedmemory = FoldFunctionOnSet(LAMBDA x, y : x + y, 0,
                 [k \in Key |-> size[entries[k]]], {k \in Key : Present(k)})

(* None of the internal panics of Keys ("key mismatch", "list corrupted",  *)
(* "size calculations failed", "head/tail corrupted") ever happens.        *)
KeysNeverFails == failure = "none"

(* What the operations of several goroutines keep together: map, list and  *)
(* memory counter, and so none of the checks of Keys fails.                *)
StructuresAgree == ListMirrorsMap /\ UsedMemoryExact /\ KeysNeverFails

(* "Only one goroutine will execute computeValue for a given key at a      *)
(* time" (the comment on Get).                                             *)
SingleComputation ==
  \A t, u \in Thread :
    /\ pc[t] = "computing"
    /\ pc[u] = "computing"
    /\ KeyOf(t) = KeyOf(u)
    => t = u

(* waitingForComputation counts the goroutines that still need the entry:  *)
(* its computing one, those asleep and those woken that do not run yet.    *)
WaitersCounted ==
  \A e \in Entry :
    waitingForComputation[e] =
      Cardinality({t \in Thread : Computes(t, e) \/ WaitsFor(t, e)})

(* A goroutine that still needs an entry finds it in the map under its key *)
(* when it runs again: nobody has evicted, deleted or replaced it.         *)
NeededEntriesStay ==
  \A t \in Thread :
    pc[t] \in {"waiting", "woken", "computing"} => entries[KeyOf(t)] = at[t]

(* No lost wakeup: whoever sleeps in cond.Wait sleeps for an entry that a  *)
(* goroutine is computing, and that goroutine will broadcast.              *)
NoLostWakeup ==
  \A t \in Thread :
    pc[t] = "waiting" => \E u \in Thread : Computes(u, at[t])

(* Whoever needs an entry is counted, finds it in the map and is going to  *)
(* be woken, whatever the goroutines with other keys do.                   *)
WaitersAreServed == WaitersCounted /\ NeededEntriesStay /\ NoLostWakeup

(* A Get with a closure returns a value made for its own key, whether it   *)
(* computed it, found it or waited for it.                                 *)
GetReturnsValue ==
  [][\A t \in Thread :
       call[t].op = "get" /\ pc[t] # "idle" /\ pc'[t] = "idle"
         => ret'[t] = KeyOf(t)]_vars

(* When the eviction loop drops an entry, every less recently used entry   *)
(* that is left was one it may not drop.                                   *)
EvictsOldestFirst ==
  [][\A t \in Thread, i, j \in 1..Cardinality(Entry) :
       LET order == Forward(list)
       IN  /\ pc[t] = "evicting"
           /\ i < j /\ j <= Len(order)
           /\ list' # list
           /\ order[i] \notin ToSet(Forward(list)')
           => ~Evictable(t, order[j])]_vars

(* When a computing Get returns, the memory limit holds or nothing is left *)
(* in the list that the eviction loop may drop.                            *)
MemoryRespected ==
  [][\A t \in Thread :
       pc[t] = "evicting" /\ pc'[t] = "idle"
         => \/ usedmemory <= MaxMemory
            \/ \A e \in ToSet(Forward(list)) : ~Evictable(t, e)]_vars

(* Eviction makes the room it has to make, and drops what was used longest *)
(* ago.                                                                    *)
EvictionIsRight == EvictsOldestFirst /\ MemoryRespected

(* Every call returns, the ones that wait for the computation of another   *)
(* goroutine included.                                                     *)
EveryCallReturns ==
  \A t \in Thread : (pc[t] # "idle") ~> (pc[t] = "idle")
-----------------------------------------------------------------------------
(* The key that t computes is t's, every other entry of the map is stored. *)
Slot ==
  [k \in Key |->
     IF ~Present(k) THEN "absent"
     ELSE IF \E t \in Thread : Computes(t, entries[k])
          THEN CHOOSE t \in Thread : Computes(t, entries[k])
          ELSE "stored"]

(* The cache implements what it promises the callers of Get.               *)
Flight == INSTANCE SingleFlight
            WITH slot <- Slot, Absent <- "absent", Stored <- "stored"
ImplementsSingleFlight == Flight!Spec

(* The linked list implements the order of use: every operation moves at   *)
(* most one entry, to the front or out of the list.                        *)
Recency == INSTANCE RecencyOrder WITH order <- Forward(list)
ImplementsRecencyOrder == Recency!Spec
=============================================================================
