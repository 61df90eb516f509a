----------------------------- MODULE NatsSink -----------------------------
(***************************************************************************)
(* sinks/natsSink.go: messages are encoded into one buffer, which is       *)
(* published when the flush timer fires, on Flush, or after every message  *)
(* if there is no flush delay.                                             *)
(*                                                                         *)
(* The sink manager calls Write, Flush and Close from one goroutine, the   *)
(* Manager; a Callback goroutine runs when the timer fires.  The pieces of *)
(* code under encoderLock are single steps.  A message is its number in    *)
(* the order of writing.                                                   *)
(***************************************************************************)
EXTENDS FlushTimer, Naturals, FiniteSets

CONSTANTS
  Manager,     (* the goroutine that owns the sink                          *)
  Callback,    (* goroutines that timers start, reused when they have ended *)
  MaxWrites    (* bound: messages written                                   *)

ASSUME GoroutineAssumption == Manager \notin Callback
ASSUME NumberAssumption == MaxWrites \in Nat

Goroutine == Callback \cup {Manager}
Message == 1..MaxWrites

VARIABLES
  delayed,    \* config.flushDelay # 0
  encoder,    \* messages in the encoder's buffer
  encErr,     \* encoder.Err(), the first error since the last Reset, is not nil
  timer,      \* flushTimer and timerLock
  pc,         \* where each goroutine is
  buf,        \* the local buf of Flush: the messages of a batch
  written,    \* messages written so far
  delivered,  \* messages the NATS client has taken
  reported    \* messages of the batches whose Publish failed

vars == <<delayed, encoder, encErr, timer, pc, buf, written, delivered, reported>>

(* Write and Close belong to the manager, unlocking to the callbacks. *)
Location(g) ==
  {"idle", "flush", "publish"} \cup
    IF g \in Callback THEN {"unlock"} ELSE {"written", "closed"}

Init ==
  /\ delayed \in BOOLEAN
  /\ encoder = {}
  /\ encErr = FALSE
  /\ timer = NewTimer
  /\ pc = [g \in Goroutine |-> "idle"]
  /\ buf = [g \in Goroutine |-> {}]
  /\ written = 0
  /\ delivered = {}
  /\ reported = {}

GoTo(g, loc) == pc' = [pc EXCEPT ![g] = loc]

(* Where g is when Flush has returned. *)
AfterFlush(g) == IF g \in Callback THEN "unlock" ELSE "idle"
-----------------------------------------------------------------------------
(* EncoderAdd reports the first error since the last Reset: once one       *)
(* message has failed (the library drops its line), every later message    *)
(* is buffered and Write returns the old error for it all the same.        *)
WriteEncodes ==
  \/ /\ ~encErr
     /\ encoder' = encoder \cup {written + 1}
     /\ GoTo(Manager, "written")
     /\ UNCHANGED encErr
  \/ encErr' = TRUE /\ UNCHANGED <<encoder, pc>>
  \/ encErr /\ encoder' = encoder \cup {written + 1} /\ UNCHANGED <<encErr, pc>>

(* ProcessMessage has dropped the message, and Write goes on without it.   *)
WriteDrops == GoTo(Manager, "written") /\ UNCHANGED <<encoder, encErr>>

Write ==
  /\ pc[Manager] = "idle"
  /\ written < MaxWrites
  /\ written' = written + 1
  /\ WriteEncodes \/ WriteDrops
  /\ UNCHANGED <<delayed, timer, buf, delivered, reported>>

WriteFlushes ==
  /\ pc[Manager] = "written"
  /\ ~delayed
  /\ GoTo(Manager, "flush")
  /\ UNCHANGED <<delayed, encoder, encErr, timer, buf, written, delivered, reported>>

(* TryLock on timerLock; the timer is started if it succeeds. *)
WriteArms ==
  /\ pc[Manager] = "written"
  /\ delayed
  /\ timer' = IF timer.locked THEN timer ELSE Arm(timer)
  /\ GoTo(Manager, "idle")
  /\ UNCHANGED <<delayed, encoder, encErr, buf, written, delivered, reported>>

Flush ==
  /\ pc[Manager] = "idle"
  /\ GoTo(Manager, "flush")
  /\ UNCHANGED <<delayed, encoder, encErr, timer, buf, written, delivered, reported>>

(* The runtime starts the callback of the timer. *)
Fire(c) ==
  /\ Armed(timer)
  /\ pc[c] = "idle"
  /\ timer' = Fired(timer)
  /\ GoTo(c, "flush")
  /\ UNCHANGED <<delayed, encoder, encErr, buf, written, delivered, reported>>

(* Flush clones the buffer and resets the encoder. *)
FlushTakes(g) ==
  /\ pc[g] = "flush"
  /\ buf' = [buf EXCEPT ![g] = encoder]
  /\ encoder' = {}
  /\ encErr' = FALSE
  /\ GoTo(g, IF encoder = {} THEN AfterFlush(g) ELSE "publish")
  /\ UNCHANGED <<delayed, timer, written, delivered, reported>>

PublishSilently(g) ==   \* mutant: the error of Publish is not returned
  /\ pc[g] = "publish"
  /\ delivered' \in {delivered, delivered \cup buf[g]}
  /\ buf' = [buf EXCEPT ![g] = {}]
  /\ GoTo(g, AfterFlush(g))
  /\ UNCHANGED <<delayed, encoder, encErr, timer, written, reported>>

(* client.Publish fails whenever the client is closed.  It can also fail   *)
(* on an open one: its buffer is full while it reconnects.                 *)
Publish(g) ==
  /\ pc[g] = "publish"
  /\ \/ /\ pc[Manager] # "closed"
        /\ delivered' = delivered \cup buf[g]
        /\ UNCHANGED reported
     \/ reported' = reported \cup buf[g] /\ UNCHANGED delivered
  /\ buf' = [buf EXCEPT ![g] = {}]
  /\ GoTo(g, AfterFlush(g))
  /\ UNCHANGED <<delayed, encoder, encErr, timer, written>>

(* The deferred call of the callback. *)
Unlock(c) ==
  /\ pc[c] = "unlock"
  /\ timer' = Unlocked(timer)
  /\ GoTo(c, "idle")
  /\ UNCHANGED <<delayed, encoder, encErr, buf, written, delivered, reported>>

(* Stop the timer and close the client; what is buffered stays there. *)
Close ==
  /\ pc[Manager] = "idle"
  /\ timer' = Stopped(timer)
  /\ GoTo(Manager, "closed")
  /\ UNCHANGED <<delayed, encoder, encErr, buf, written, delivered, reported>>

(* The sink is closed and nothing is under way. *)
Finished ==
  /\ pc[Manager] = "closed"
  /\ \A c \in Callback : pc[c] = "idle"
  /\ UNCHANGED vars
-----------------------------------------------------------------------------
WriteEnds == WriteFlushes \/ WriteArms
Sending(g) == FlushTakes(g) \/ Publish(g)

Next ==
  \/ Write \/ WriteEnds \/ Flush \/ Close \/ Finished
  \/ \E g \in Goroutine : Sending(g)
  \/ \E c \in Callback : Fire(c) \/ Unlock(c)

Spec == Init /\ [][Next]_vars

(***************************************************************************)
(* Goroutines that run keep running, and an armed timer fires unless it is *)
(* stopped.  Nobody has to call Write, Flush or Close.                     *)
(***************************************************************************)
FairSpec ==
  /\ Spec
  /\ WF_vars(WriteEnds)
  /\ \A g \in Goroutine : WF_vars(Sending(g))
  /\ WF_vars(\E c \in Callback : Fire(c))
  /\ \A c \in Callback : WF_vars(Unlock(c))
=============================================================================
