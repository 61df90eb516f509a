--------------------------- MODULE SingleFlight ---------------------------
(***************************************************************************)
(* What lrucache promises to the callers of Get (the comments on Cache and *)
(* Get in lrucache/cache.go), without list, memory, time or waiters: every *)
(* key is absent, stored, or being computed by one goroutine.  Until that  *)
(* goroutine delivers, nobody else computes, stores or removes the key.    *)
(***************************************************************************)
CONSTANTS Thread, Key, Absent, Stored

VARIABLE slot   \* Key -> Absent, Stored or the computing goroutine

Init == slot = [k \in Key |-> Absent]

(* t begins to compute k, which was absent or is replaced. *)
Start(t, k) ==
  /\ slot[k] \in {Absent, Stored}
  /\ \A j \in Key : slot[j] # t
  /\ slot' = [slot EXCEPT ![k] = t]

(* t delivers the value that it alone has computed. *)
Deliver(t, k) ==
  /\ slot[k] = t
  /\ slot' = [slot EXCEPT ![k] = Stored]

(* Put; overwriting a stored value changes nothing here. *)
Store(k) ==
  /\ slot[k] = Absent
  /\ slot' = [slot EXCEPT ![k] = Stored]

(* Del, expiry and eviction. *)
Remove(k) ==
  /\ slot[k] = Stored
  /\ slot' = [slot EXCEPT ![k] = Absent]

Next == \E k \in Key : \/ Store(k)
                       \/ Remove(k)
                       \/ \E t \in Thread : Start(t, k) \/ Deliver(t, k)

Spec == Init /\ [][Next]_slot
=============================================================================
