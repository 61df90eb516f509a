--------------------------- MODULE NatsSinkProps ---------------------------
(***************************************************************************)
(* The properties of sinks/natsSink.go, stated about NatsSink.             *)
(***************************************************************************)
EXTENDS NatsSink

(* Every variable has its type (the fields of NatsSink and the locals of   *)
(* Write and Flush).                                                       *)
TypeOK ==
  /\ delayed \in BOOLEAN
  /\ encoder \in SUBSET Message
  /\ encErr \in BOOLEAN
  /\ timer \in Timer
  /\ DOMAIN pc = Goroutine /\ \A g \in Goroutine : pc[g] \in Location(g)
  /\ buf \in [Goroutine -> SUBSET Message]
  /\ written \in 0..MaxWrites
  /\ delivered \in SUBSET Message
  /\ reported \in SUBSET Message

Running(c) == pc[c] # "idle"

(* timerLock is held exactly while the timer is armed or a callback runs,  *)
(* and never for two of them, although Write, Close and the callback all   *)
(* start, stop and unlock.                                                 *)
TimerLockOwned ==
  /\ timer.locked <=> Armed(timer) \/ \E c \in Callback : Running(c)
  /\ Armed(timer) => \A c \in Callback : ~Running(c)
  /\ \A c, d \in Callback : Running(c) /\ Running(d) => c = d

(* A batch that was taken from the encoder is settled, and timerLock is    *)
(* given back for the next timer, also when Close comes in between.        *)
TimerIsFreed ==
  timer.locked ~> ~timer.locked /\ \A c \in Callback : buf[c] = {}

(* The lock of the timer always has an owner who gives it back.            *)
TimerSettles == [](TypeOK /\ TimerLockOwned) /\ TimerIsFreed
-----------------------------------------------------------------------------
(* The sink implements what it promises the callers of Write.              *)
Promise == INSTANCE Outbox
             WITH buffered <- encoder,
                  flying <- {buf[g] : g \in Goroutine} \ {{}}
ImplementsOutbox == Promise!Spec
=============================================================================
