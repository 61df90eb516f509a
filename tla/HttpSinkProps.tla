--------------------------- MODULE HttpSinkProps ---------------------------
(***************************************************************************)
(* The properties of sinks/httpSink.go, stated about HttpSink.             *)
(***************************************************************************)
EXTENDS HttpSink

(* Every variable has its type (the fields of HttpSink and the locals of   *)
(* Write and Flush).                                                       *)
TypeOK ==
  /\ delayed \in BOOLEAN
  /\ encoder \in SUBSET Message
  /\ encErr \in BOOLEAN
  /\ timer \in Timer
  /\ pc \in [Goroutine -> Location]
  /\ buf \in [Goroutine -> SUBSET Message]
  /\ try \in [Goroutine -> 0..MaxRetries]
  /\ written \in 0..MaxWrites
  /\ delivered \in SUBSET Message
  /\ reported \in SUBSET Message
  /\ closing \in BOOLEAN

Running(c) == pc[c] # "idle"

(* timerLock is held exactly while the timer is armed or a callback runs,  *)
(* and never for two of them: no flush overtakes another one's timer, and  *)
(* neither Close nor a callback unlocks a mutex that is not locked, which  *)
(* would end the program.                                                  *)
TimerLockOwned ==
  /\ timer.locked <=> Armed(timer) \/ \E c \in Callback : Running(c)
  /\ Armed(timer) => \A c \in Callback : ~Running(c)
  /\ \A c, d \in Callback : Running(c) /\ Running(d) => c = d

(* A message is in one place: in the encoder or in the batch of a single   *)
(* goroutine, however Write, Flush, Close and the timer interleave, and a  *)
(* message that was reported as lost is in neither.                        *)
OneBatchPerMessage ==
  \A g \in Goroutine :
    /\ buf[g] \cap (encoder \cup reported) = {}
    /\ encoder \cap (delivered \cup reported) = {}
    /\ \A h \in Goroutine : buf[g] \cap buf[h] # {} => g = h

(* After Close the encoder is empty and stays so: the last flush took all. *)
ClosedIsEmpty == pc[Manager] = "closed" => encoder = {} /\ buf[Manager] = {}

(* The three together: what a step of the manager and one of a callback    *)
(* could break between them.                                               *)
BatchesAreKept == TimerLockOwned /\ OneBatchPerMessage /\ ClosedIsEmpty

(* A message in the encoder while the timer is armed reaches the server or *)
(* is reported, whatever the manager does next, and the encoder forgets    *)
(* its error.  Without a timer neither holds: a message that follows a     *)
(* failed one is buffered, but Write returns before it starts a timer.     *)
ArmedBatchSettles ==
  /\ \A m \in Message :
       Armed(timer) /\ m \in encoder ~> m \in delivered \cup reported
  /\ Armed(timer) /\ encErr ~> ~encErr

(* Close returns; in the end nothing is buffered or under way and the lock *)
(* is free.                                                                *)
CloseSettles ==
  closing ~> /\ pc[Manager] = "closed"
             /\ encoder = {}
             /\ \A g \in Goroutine : buf[g] = {}
             /\ ~timer.locked

(* Whatever is buffered is settled, by the timer or by Close.              *)
SinkSettles == ArmedBatchSettles /\ CloseSettles
-----------------------------------------------------------------------------
(* The sink implements what it promises the callers of Write.              *)
Promise == INSTANCE Outbox
             WITH buffered <- encoder,
                  flying <- {buf[g] : g \in Goroutine} \ {{}}
ImplementsOutbox == Promise!Spec
=============================================================================
