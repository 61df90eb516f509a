------------------------------ MODULE LruList ------------------------------
(***************************************************************************)
(* The doubly-linked list of lrucache/cache.go.  A list is a record        *)
(*                                                                         *)
(*    [head |-> e, tail |-> e, next |-> function, prev |-> function]       *)
(*                                                                         *)
(* whose head and tail are the fields of Cache and whose next and prev are *)
(* the fields of every cacheEntry.  unlinkEntry leaves the pointers of the *)
(* removed entry as they were, and so does UnlinkEntry.                    *)
(***************************************************************************)
EXTENDS Integers, FiniteSets, Sequences

CONSTANTS
  Entry,   (* identities of the cacheEntry objects  *)
  Nil      (* the nil pointer                       *)

ASSUME NilAssumption   == Nil \notin Entry
ASSUME EntryAssumption == IsFiniteSet(Entry)   \* a bound: objects ever allocated

Pointer == Entry \cup {Nil}

List == [head : Pointer, tail : Pointer,
         next : [Entry -> Pointer], prev : [Entry -> Pointer]]

EmptyList == [head |-> Nil, tail |-> Nil,
              next |-> [e \in Entry |-> Nil], prev |-> [e \in Entry |-> Nil]]

InsertFrontAtBack(l, e) ==   \* mutant: the new entry goes to the tail
  [head |-> IF l.head = Nil THEN e ELSE l.head,
   tail |-> e,
   next |-> [x \in Entry |-> IF x = l.tail THEN e
                             ELSE IF x = e THEN Nil ELSE l.next[x]],
   prev |-> [l.prev EXCEPT ![e] = l.tail]]

(* Put e in front: it becomes the most recently used entry. *)
InsertFront(l, e) ==
  [head |-> e,
   tail |-> IF l.tail = Nil THEN e ELSE l.tail,
   next |-> [l.next EXCEPT ![e] = l.head],
   prev |-> [x \in Entry |-> IF x = l.head THEN e
                             ELSE IF x = e THEN Nil ELSE l.prev[x]]]

(* Take e out of the list; e keeps its own pointers. *)
UnlinkEntry(l, e) ==
  [head |-> IF e = l.head THEN l.next[e] ELSE l.head,
   tail |-> IF e = l.tail THEN l.prev[e] ELSE l.tail,
   next |-> [x \in Entry |-> IF x = l.prev[e] THEN l.next[e] ELSE l.next[x]],
   prev |-> [x \in Entry |-> IF x = l.next[e] THEN l.prev[e] ELSE l.prev[x]]]

MoveToFront(l, e) ==
  IF e = l.head THEN l ELSE InsertFront(UnlinkEntry(l, e), e)
-----------------------------------------------------------------------------
(***************************************************************************)
(* l is a correctly linked list of exactly the entries S, as far as single *)
(* pointers can tell: head and tail are the two ends and next and prev are *)
(* inverse to each other.                                                  *)
(***************************************************************************)
Ends(l, S) ==
  /\ (l.head = Nil) <=> (l.tail = Nil)
  /\ l.head # Nil => l.head \in S /\ l.prev[l.head] = Nil
  /\ l.tail # Nil => l.tail \in S /\ l.next[l.tail] = Nil

Links(l, S) ==
  \A e \in S :
    /\ l.next[e] = Nil => e = l.tail
    /\ l.prev[e] = Nil => e = l.head
    /\ l.next[e] # Nil => l.next[e] \in S /\ l.prev[l.next[e]] = e
    /\ l.prev[e] # Nil => l.prev[e] \in S /\ l.next[l.prev[e]] = e

WellLinked(l, S) == Ends(l, S) /\ Links(l, S)

(* The entries met when following the pointers link from start, at most as *)
(* many as there are.                                                      *)
Chain(start, link) ==
  LET N == Cardinality(Entry)
      at[i \in 1..N] == IF i = 1 THEN start
                        ELSE IF at[i-1] = Nil THEN Nil ELSE link[at[i-1]]
  IN  [i \in 1..Cardinality({i \in 1..N : at[i] # Nil}) |-> at[i]]

(* From most to least recently used, and back. *)
Forward(l)  == Chain(l.head, l.next)
Backward(l) == Chain(l.tail, l.prev)
=============================================================================
