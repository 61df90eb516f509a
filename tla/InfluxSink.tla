---------------------------- MODULE InfluxSink ----------------------------
(***************************************************************************)
(* sinks/influxSink.go: messages are encoded into one buffer, which goes   *)
(* to the InfluxDB server when the flush timer fires, when a batch is      *)
(* full, on Flush, on Close, or after every message if there is no flush   *)
(* delay.  A goroutine of its own (of sendWaitGroup) sends each batch.     *)
(*                                                                         *)
(* The sink manager calls Write, Flush and Close from one goroutine, the   *)
(* Manager; a Callback goroutine runs when the timer fires.  Write keeps   *)
(* encoderLock while it decides about the timer.  It unlocks it also when  *)
(* ProcessMessage has dropped the message and it was never locked: that is *)
(* an error of the runtime which ends the program.                         *)
(***************************************************************************)
EXTENDS FlushTimer, Integers, FiniteSets

CONSTANTS
  Manager,     (* the goroutine that owns the sink                          *)
  Callback,    (* goroutines that timers start, reused when they have ended *)
  BatchSize,   (* config.BatchSize                                          *)
  MaxWrites    (* bound: messages written                                   *)

ASSUME GoroutineAssumption == Manager \notin Callback
ASSUME NumberAssumption ==
  BatchSize \in Nat \ {0} /\ MaxWrites \in Nat

Goroutine == Callback \cup {Manager}
Message == 1..MaxWrites

VARIABLES
  delayed,      \* config.flushDelay # 0
  drops,        \* config.MessageProcessor has a rule that drops messages
  encoderLock,  \* is the mutex encoderLock locked?
  encoder,      \* messages in the encoder's buffer
  numRecordsInEncoder,
  encErr,       \* encoder.Err(), the first error since the last Reset, is not nil
  uncounted,    \* history: messages that are buffered after such an error
  timer,        \* flushTimer and timerLock
  pc,           \* where each goroutine is
  buf,          \* the local buf of Flush: the messages of a batch
  flying,       \* batches that a goroutine of sendWaitGroup sends
  written,      \* messages written so far, without those whose encoding failed
  delivered,    \* messages the server has got
  reported,     \* messages of the batches whose WriteRecord failed
  closing,      \* Close has been called
  fatal         \* the runtime has ended the program

config == <<delayed, drops>>
failures == <<encErr, uncounted>>
vars == <<config, encoderLock, encoder, numRecordsInEncoder, failures, timer, pc,
          buf, flying, written, delivered, reported, closing, fatal>>

Location == {"idle", "written", "stopping", "flush", "taking", "spawn",
             "unlock", "waiting", "closed"}

Init ==
  /\ delayed \in BOOLEAN
  /\ drops \in BOOLEAN
  /\ encoderLock = FALSE
  /\ encoder = {}
  /\ numRecordsInEncoder = 0
  /\ encErr = FALSE
  /\ uncounted = {}
  /\ timer = NewTimer
  /\ pc = [g \in Goroutine |-> "idle"]
  /\ buf = [g \in Goroutine |-> {}]
  /\ flying = {}
  /\ written = 0
  /\ delivered = {}
  /\ reported = {}
  /\ closing = FALSE
  /\ fatal = FALSE

(* g is at loc, and the program has not ended. *)
At(g, loc) == pc[g] = loc /\ ~fatal

GoTo(g, loc) == pc' = [pc EXCEPT ![g] = loc]

LockEncoder == ~encoderLock /\ encoderLock' = TRUE

(* Unlock of a mutex that is not locked is fatal. *)
UnlockEncoder == encoderLock' = FALSE /\ fatal' = ~encoderLock

(* Where g is when Flush has returned. *)
AfterFlush(g) ==
  IF g \in Callback THEN "unlock" ELSE IF closing THEN "waiting" ELSE "idle"
-----------------------------------------------------------------------------
(* Write has encoded the message and keeps encoderLock. *)
WriteEncodes ==
  /\ LockEncoder
  /\ ~encErr
  /\ written' = written + 1
  /\ encoder' = encoder \cup {written + 1}
  /\ numRecordsInEncoder' = numRecordsInEncoder + 1
  /\ GoTo(Manager, "written")
  /\ UNCHANGED failures

(* Write unlocks and returns the error.  The library drops the line of the *)
(* message that failed (it gets no number here), and keeps the error.      *)
WriteFails ==
  /\ ~encoderLock
  /\ encErr' = TRUE
  /\ UNCHANGED <<encoderLock, encoder, numRecordsInEncoder, uncounted, pc, written>>

(* After an error every message is buffered until Reset, but Write returns *)
(* the old error for it and does not count it.                             *)
WriteFollows ==
  /\ ~encoderLock
  /\ encErr
  /\ written' = written + 1
  /\ encoder' = encoder \cup {written + 1}
  /\ uncounted' = uncounted \cup {written + 1}
  /\ UNCHANGED <<encoderLock, numRecordsInEncoder, encErr, pc>>

(* ProcessMessage has dropped the message; nothing was locked. *)
WriteDrops ==
  /\ drops
  /\ written' = written + 1
  /\ GoTo(Manager, "written")
  /\ UNCHANGED <<encoderLock, encoder, numRecordsInEncoder, failures>>

Write ==
  /\ At(Manager, "idle")
  /\ written < MaxWrites
  /\ WriteEncodes \/ WriteFails \/ WriteFollows \/ WriteDrops
  /\ UNCHANGED <<config, timer, buf, flying, delivered, reported, closing,
                 fatal>>

WriteFlushes ==
  /\ At(Manager, "written")
  /\ ~delayed
  /\ UnlockEncoder
  /\ GoTo(Manager, "flush")
  /\ UNCHANGED <<config, encoder, numRecordsInEncoder, failures, timer, buf, flying,
                 written, delivered, reported, closing>>

IsFullLate == numRecordsInEncoder > BatchSize   \* mutant: off by one

IsFull == numRecordsInEncoder = BatchSize

WriteFull ==
  /\ At(Manager, "written")
  /\ delayed
  /\ IsFull
  /\ UnlockEncoder
  /\ GoTo(Manager, "stopping")
  /\ UNCHANGED <<config, encoder, numRecordsInEncoder, failures, timer, buf, flying,
                 written, delivered, reported, closing>>

(* The batch is full: stop the timer, then flush. *)
WriteStops ==
  /\ At(Manager, "stopping")
  /\ timer' = Stopped(timer)
  /\ GoTo(Manager, "flush")
  /\ UNCHANGED <<config, encoderLock, encoder, numRecordsInEncoder, failures, buf,
                 flying, written, delivered, reported, closing, fatal>>

WriteArmsKeepsEncoder ==   \* mutant: the last Unlock of Write is missing
  /\ At(Manager, "written")
  /\ delayed
  /\ ~IsFull
  /\ timer' = IF timer.locked THEN timer ELSE Arm(timer)
  /\ GoTo(Manager, "idle")
  /\ UNCHANGED <<config, encoderLock, encoder, numRecordsInEncoder, failures, buf,
                 flying, written, delivered, reported, closing, fatal>>

(* TryLock on timerLock; the timer is started if it succeeds. *)
WriteArms ==
  /\ At(Manager, "written")
  /\ delayed
  /\ ~IsFull
  /\ timer' = IF timer.locked THEN timer ELSE Arm(timer)
  /\ UnlockEncoder
  /\ GoTo(Manager, "idle")
  /\ UNCHANGED <<config, encoder, numRecordsInEncoder, failures, buf, flying, written,
                 delivered, reported, closing>>

Flush ==
  /\ At(Manager, "idle")
  /\ GoTo(Manager, "flush")
  /\ UNCHANGED <<config, encoderLock, encoder, numRecordsInEncoder, failures, timer,
                 buf, flying, written, delivered, reported, closing, fatal>>

(* The runtime starts the callback of the timer. *)
Fire(c) ==
  /\ Armed(timer)
  /\ At(c, "idle")
  /\ timer' = Fired(timer)
  /\ GoTo(c, "flush")
  /\ UNCHANGED <<config, encoderLock, encoder, numRecordsInEncoder, failures, buf,
                 flying, written, delivered, reported, closing, fatal>>

FlushLocks(g) ==
  /\ At(g, "flush")
  /\ LockEncoder
  /\ GoTo(g, "taking")
  /\ UNCHANGED <<config, encoder, numRecordsInEncoder, failures, timer, buf, flying,
                 written, delivered, reported, closing, fatal>>

(* Clone the buffer, reset the encoder and unlock. *)
FlushTakes(g) ==
  /\ At(g, "taking")
  /\ buf' = [buf EXCEPT ![g] = encoder]
  /\ encoder' = {}
  /\ numRecordsInEncoder' = 0
  /\ encErr' = FALSE
  /\ UnlockEncoder
  /\ GoTo(g, IF encoder = {} THEN AfterFlush(g) ELSE "spawn")
  /\ UNCHANGED <<config, uncounted, timer, flying, written, delivered, reported,
                 closing>>

FlushSpawnsNothing(g) ==   \* mutant: the batch is dropped
  /\ At(g, "spawn")
  /\ buf' = [buf EXCEPT ![g] = {}]
  /\ GoTo(g, AfterFlush(g))
  /\ UNCHANGED <<config, encoderLock, encoder, numRecordsInEncoder, failures, timer,
                 flying, written, delivered, reported, closing, fatal>>

(* sendWaitGroup.Go: the batch gets its own goroutine. *)
FlushSpawns(g) ==
  /\ At(g, "spawn")
  /\ flying' = flying \cup {buf[g]}
  /\ buf' = [buf EXCEPT ![g] = {}]
  /\ GoTo(g, AfterFlush(g))
  /\ UNCHANGED <<config, encoderLock, encoder, numRecordsInEncoder, failures, timer,
                 written, delivered, reported, closing, fatal>>

(* WriteRecord returns, with an error or without; the server may have got  *)
(* the batch even if there is an error.                                    *)
Send(b) ==
  /\ ~fatal
  /\ flying' = flying \ {b}
  /\ \/ delivered' = delivered \cup b /\ UNCHANGED reported
     \/ reported' = reported \cup b /\ delivered' \in {delivered, delivered \cup b}
  /\ UNCHANGED <<config, encoderLock, encoder, numRecordsInEncoder, failures, timer,
                 pc, buf, written, closing, fatal>>

(* The deferred call of the callback. *)
Unlock(c) ==
  /\ At(c, "unlock")
  /\ timer' = Unlocked(timer)
  /\ GoTo(c, "idle")
  /\ UNCHANGED <<config, encoderLock, encoder, numRecordsInEncoder, failures, buf,
                 flying, written, delivered, reported, closing, fatal>>

(* Stop the timer, then flush. *)
Close ==
  /\ At(Manager, "idle")
  /\ timer' = Stopped(timer)
  /\ closing' = TRUE
  /\ GoTo(Manager, "flush")
  /\ UNCHANGED <<config, encoderLock, encoder, numRecordsInEncoder, failures, buf,
                 flying, written, delivered, reported, fatal>>

(* sendWaitGroup.Wait returns, and the client is closed. *)
CloseWaits ==
  /\ At(Manager, "waiting")
  /\ flying = {}
  /\ GoTo(Manager, "closed")
  /\ UNCHANGED <<config, encoderLock, encoder, numRecordsInEncoder, failures, timer,
                 buf, flying, written, delivered, reported, closing, fatal>>

(* The program has ended, or the sink is closed and nothing is under way. *)
Finished ==
  /\ fatal \/ /\ pc[Manager] = "closed"
              /\ flying = {}
              /\ \A c \in Callback : pc[c] = "idle"
  /\ UNCHANGED vars
-----------------------------------------------------------------------------
WriteEnds == WriteFlushes \/ WriteFull \/ WriteStops \/ WriteArms
Flushing(g) == FlushTakes(g) \/ FlushSpawns(g)

Next ==
  \/ Write \/ WriteEnds \/ Flush \/ Close \/ CloseWaits \/ Finished
  \/ \E g \in Goroutine : FlushLocks(g) \/ Flushing(g)
  \/ \E c \in Callback : Fire(c) \/ Unlock(c)
  \/ \E b \in flying : Send(b)

Spec == Init /\ [][Next]_vars

(***************************************************************************)
(* Goroutines that run keep running, WriteRecord ends, an armed timer      *)
(* fires unless it is stopped, and sync.Mutex hands encoderLock over to a  *)
(* goroutine that has waited long.  Nobody has to call Write, Flush or     *)
(* Close.                                                                  *)
(***************************************************************************)
FairSpec ==
  /\ Spec
  /\ WF_vars(WriteEnds) /\ WF_vars(CloseWaits)
  /\ \A g \in Goroutine : SF_vars(FlushLocks(g)) /\ WF_vars(Flushing(g))
  /\ WF_vars(\E c \in Callback : Fire(c))
  /\ \A c \in Callback : WF_vars(Unlock(c))
  /\ WF_vars(\E b \in flying : Send(b))
=============================================================================
