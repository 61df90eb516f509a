-------------------------- MODULE InfluxSinkProps --------------------------
(***************************************************************************)
(* The properties of sinks/influxSink.go, stated about InfluxSink.         *)
(***************************************************************************)
EXTENDS InfluxSink

(* Every variable has its type (the fields of InfluxSink and the locals of *)
(* Write and Flush).                                                       *)
TypeOK ==
  /\ delayed \in BOOLEAN /\ drops \in BOOLEAN
  /\ encoderLock \in BOOLEAN
  /\ encoder \in SUBSET Message
  /\ numRecordsInEncoder \in Nat
  /\ encErr \in BOOLEAN
  /\ uncounted \in SUBSET Message
  /\ timer \in Timer
  /\ pc \in [Goroutine -> Location]
  /\ buf \in [Goroutine -> SUBSET Message]
  /\ flying \in SUBSET SUBSET Message
  /\ written \in 0..MaxWrites
  /\ delivered \in SUBSET Message
  /\ reported \in SUBSET Message
  /\ closing \in BOOLEAN
  /\ fatal \in BOOLEAN

Running(c) == pc[c] # "idle"
HoldsEncoder(g) == pc[g] \in {"written", "taking"}

(* timerLock is held exactly while the timer is armed or a callback runs,  *)
(* and never for two of them, although Write, a full batch, Close and the  *)
(* callback all stop, start and unlock.                                    *)
TimerLockOwned ==
  /\ timer.locked <=> Armed(timer) \/ \E c \in Callback : Running(c)
  /\ Armed(timer) => \A c \in Callback : ~Running(c)
  /\ \A c, d \in Callback : Running(c) /\ Running(d) => c = d

(* If no message is dropped, encoderLock is free or held by exactly one    *)
(* goroutine, on every path through Write and Flush, and the program never *)
(* ends on an Unlock.                                                      *)
EncoderLockOwned ==
  drops \/
  /\ encoderLock <=> \E g \in Goroutine : HoldsEncoder(g)
  /\ \A g, h \in Goroutine : HoldsEncoder(g) /\ HoldsEncoder(h) => g = h
  /\ ~fatal

(* Both locks have one owner, and everything has its type.                 *)
LocksOwned == TypeOK /\ TimerLockOwned /\ EncoderLockOwned

(* "Maximum number of points sent to server in single request" (the        *)
(* comment on BatchSize) holds for the records that Write counts: no batch *)
(* has more of them, and numRecordsInEncoder is their number.  Others are  *)
(* in the buffer only after an error that the encoder still keeps; with    *)
(* them a batch has no limit.                                              *)
Counted(b) == Cardinality(b \ uncounted)

BatchLimit ==
  /\ numRecordsInEncoder = Counted(encoder)
  /\ encErr \/ encoder \cap uncounted = {}
  /\ \A b \in {encoder} \cup flying \cup {buf[g] : g \in Goroutine} :
       Counted(b) <= BatchSize

(* "If batch_size is reached before the end of flush_delay, the metrics    *)
(* are sent without further delay" (influxSink.md): an encoder with as     *)
(* many counted records is about to be flushed by Write or Close itself.   *)
FullBatchLeaves ==
  Counted(encoder) = BatchSize =>
    pc[Manager] \in {"written", "stopping", "flush", "taking"}

(* A message is in one place: in the encoder, in the hands of a single     *)
(* goroutine that flushes, or in a single batch that is being sent.        *)
OneBatchPerMessage ==
  /\ \A g \in Goroutine : buf[g] \cap (encoder \cup UNION flying) = {}
  /\ \A b \in flying : encoder \cap b = {}
  /\ \A g, h \in Goroutine : buf[g] \cap buf[h] # {} => g = h
  /\ \A b, c \in flying : b \cap c # {} => b = c

(* Batches keep their limit, leave when they are full, and share nothing.  *)
BatchesAreRight == BatchLimit /\ FullBatchLeaves /\ OneBatchPerMessage

(* If no message is dropped, Close returns; in the end nothing is buffered *)
(* or under way and the locks are free.                                    *)
CloseSettles ==
  closing /\ ~drops ~> /\ pc[Manager] = "closed"
             /\ encoder = {} /\ flying = {}
             /\ \A g \in Goroutine : buf[g] = {}
             /\ ~timer.locked /\ ~encoderLock

(* A message in the encoder while the timer is armed reaches the server or *)
(* is reported, whatever the manager does next (if no message is dropped), *)
(* and the encoder forgets its error.                                      *)
ArmedBatchSettles ==
  /\ \A m \in Message :
       ~drops /\ Armed(timer) /\ m \in encoder ~> m \in delivered \cup reported
  /\ ~drops /\ Armed(timer) /\ encErr ~> ~encErr

(* Whatever is buffered is settled, by the timer or by Close.              *)
SinkSettles == ArmedBatchSettles /\ CloseSettles

(* A message that the configured rules drop ("Process messages with given  *)
(* rules before progressing or dropping", influxSink.md) does not end the  *)
(* program.                                                                *)
NeverFatal == ~fatal
-----------------------------------------------------------------------------
(* The sink implements what it promises the callers of Write.              *)
Promise == INSTANCE Outbox
             WITH buffered <- encoder,
                  flying <- (flying \cup {buf[g] : g \in Goroutine}) \ {{}}
ImplementsOutbox == Promise!Spec
=============================================================================
