----------------------------- MODULE MCLruCache -----------------------------
(* Small instances of LruCache for TLC. *)
EXTENDS LruCacheProps

SomeTtl == {0, 2}        \* expired after a tick of the clock; good for long
OneTtl  == {0}
SomeSize == {0, 2}       \* entries that are never evicted for their size, and others
OneSize == {2}

(* A closure panics only when nobody waits for its value: what a waiter    *)
(* meets after that is the subject of a run of its own.                    *)
PanicsUnwatched ==
  \A t \in Thread :
    pc[t] = "computing" /\ pc'[t] = "idle"
      => \A u \in Thread : ~WaitsFor(u, at[t])

Symmetric == Permutations(Thread) \cup Permutations(Key)
=============================================================================
