----------------------------- MODULE HttpSink -----------------------------
(***************************************************************************)
(* sinks/httpSink.go: messages are encoded into one buffer, and the buffer *)
(* is posted to a server when the flush timer fires, on Flush, on Close,   *)
(* or after every message if there is no flush delay.                      *)
(*                                                                         *)
(* The sink manager calls Write, Flush and Close from one goroutine, the   *)
(* Manager.  Each time the timer fires a Callback goroutine flushes in     *)
(* parallel.  encoderLock protects pieces of straight-line code (encoding  *)
(* one message; cloning and resetting the buffer), which are single steps  *)
(* here.  Messages are numbered in the order in which they are written.    *)
(***************************************************************************)
EXTENDS FlushTimer, Naturals, FiniteSets

CONSTANTS
  Manager,     (* the goroutine that owns the sink                         *)
  Callback,    (* goroutines that timers start, reused when they have ended *)
  MaxRetries,  (* config.MaxRetries                                        *)
  MaxWrites    (* bound: messages written                                  *)

ASSUME GoroutineAssumption == Manager \notin Callback
ASSUME NumberAssumption == MaxRetries \in Nat /\ MaxWrites \in Nat

Goroutine == Callback \cup {Manager}
Message == 1..MaxWrites

VARIABLES
  delayed,    \* config.flushDelay # 0
  encoder,    \* messages in the encoder's buffer
  encErr,     \* encoder.Err(), the first error since the last Reset, is not nil
  timer,      \* flushTimer and timerLock
  pc,         \* where each goroutine is
  buf,        \* the local buf of Flush: the messages of a batch
  try,        \* the local i of Flush
  written,    \* messages written so far
  delivered,  \* messages the server has got
  reported,   \* messages of the batches whose Flush returned an error
  closing     \* Close has been called

vars == <<delayed, encoder, encErr, timer, pc, buf, try, written, delivered, reported,
          closing>>

Location == {"idle", "written", "flush", "send", "unlock", "closed"}

Init ==
  /\ delayed \in BOOLEAN
  /\ encoder = {}
  /\ encErr = FALSE
  /\ timer = NewTimer
  /\ pc = [g \in Goroutine |-> "idle"]
  /\ buf = [g \in Goroutine |-> {}]
  /\ try = [g \in Goroutine |-> 0]
  /\ written = 0
  /\ delivered = {}
  /\ reported = {}
  /\ closing = FALSE

GoTo(g, loc) == pc' = [pc EXCEPT ![g] = loc]

(* Where g is when Flush has returned. *)
AfterFlush(g) ==
  IF g \in Callback THEN "unlock" ELSE IF closing THEN "closed" ELSE "idle"
-----------------------------------------------------------------------------
(* EncoderAdd reports the first error since the last Reset: once one       *)
(* message has failed (the library drops its line), every later message    *)
(* is buffered and Write returns the old error for it all the same.        *)
WriteEncodes ==
  \/ /\ ~encErr
     /\ encoder' = encoder \cup {written + 1}
     /\ GoTo(Manager, "written")
     /\ UNCHANGED encErr
  \/ encErr' = TRUE /\ UNCHANGED <<encoder, pc>>
  \/ encErr /\ encoder' = encoder \cup {written + 1} /\ UNCHANGED <<encErr, pc>>

(* ProcessMessage has dropped the message, and Write goes on without it.   *)
WriteDrops == GoTo(Manager, "written") /\ UNCHANGED <<encoder, encErr>>

Write ==
  /\ pc[Manager] = "idle"
  /\ written < MaxWrites
  /\ written' = written + 1
  /\ WriteEncodes \/ WriteDrops
  /\ UNCHANGED <<delayed, timer, buf, try, delivered, reported, closing>>

WriteFlushes ==
  /\ pc[Manager] = "written"
  /\ ~delayed
  /\ GoTo(Manager, "flush")
  /\ UNCHANGED <<delayed, encoder, encErr, timer, buf, try, written, delivered,
                 reported, closing>>

WriteArmsUnlocked ==   \* mutant: the timer is restarted without TryLock
  /\ pc[Manager] = "written"
  /\ delayed
  /\ timer' = Arm(timer)
  /\ GoTo(Manager, "idle")
  /\ UNCHANGED <<delayed, encoder, encErr, buf, try, written, delivered, reported,
                 closing>>

(* timerLock.TryLock succeeds. *)
WriteArms ==
  /\ pc[Manager] = "written"
  /\ delayed
  /\ ~timer.locked
  /\ timer' = Arm(timer)
  /\ GoTo(Manager, "idle")
  /\ UNCHANGED <<delayed, encoder, encErr, buf, try, written, delivered, reported,
                 closing>>

(* timerLock.TryLock fails. *)
WriteFindsTimer ==
  /\ pc[Manager] = "written"
  /\ delayed
  /\ timer.locked
  /\ GoTo(Manager, "idle")
  /\ UNCHANGED <<delayed, encoder, encErr, timer, buf, try, written, delivered,
                 reported, closing>>

Flush ==
  /\ pc[Manager] = "idle"
  /\ GoTo(Manager, "flush")
  /\ UNCHANGED <<delayed, encoder, encErr, timer, buf, try, written, delivered,
                 reported, closing>>

(* The runtime starts the callback of the timer. *)
Fire(c) ==
  /\ Armed(timer)
  /\ pc[c] = "idle"
  /\ timer' = Fired(timer)
  /\ GoTo(c, "flush")
  /\ UNCHANGED <<delayed, encoder, encErr, buf, try, written, delivered, reported,
                 closing>>

(* Flush clones the buffer and resets the encoder. *)
FlushTakes(g) ==
  /\ pc[g] = "flush"
  /\ buf' = [buf EXCEPT ![g] = encoder]
  /\ encoder' = {}
  /\ encErr' = FALSE
  /\ GoTo(g, IF encoder = {} THEN AfterFlush(g) ELSE "send")
  /\ UNCHANGED <<delayed, timer, try, written, delivered, reported, closing>>

(* Flush returns: with the buffer goes everything it held. *)
FlushEnds(g) ==
  /\ buf' = [buf EXCEPT ![g] = {}]
  /\ try' = [try EXCEPT ![g] = 0]
  /\ GoTo(g, AfterFlush(g))

(* client.Do succeeds and the status is 200. *)
PostOk(g) ==
  /\ delivered' = delivered \cup buf[g]
  /\ FlushEnds(g)
  /\ UNCHANGED reported

(* The server answers with another status, or there is no request to send. *)
PostRefused(g) ==
  /\ reported' = reported \cup buf[g]
  /\ FlushEnds(g)
  /\ UNCHANGED delivered

(* client.Do fails, and the server may have got the batch all the same.    *)
PostFails(g) ==
  /\ delivered' \in {delivered, delivered \cup buf[g]}
  /\ try' = [try EXCEPT ![g] = @ + 1]
  /\ UNCHANGED <<pc, buf, reported>>

Post(g) ==
  /\ pc[g] = "send"
  /\ try[g] < MaxRetries
  /\ PostOk(g) \/ PostRefused(g) \/ PostFails(g)
  /\ UNCHANGED <<delayed, encoder, encErr, timer, written, closing>>

GiveUpSilently(g) ==   \* mutant: no error after the last attempt
  /\ pc[g] = "send"
  /\ try[g] = MaxRetries
  /\ FlushEnds(g)
  /\ UNCHANGED <<delayed, encoder, encErr, timer, written, delivered, reported, closing>>

(* No attempt is left and there is no response. *)
GiveUp(g) ==
  /\ pc[g] = "send"
  /\ try[g] = MaxRetries
  /\ reported' = reported \cup buf[g]
  /\ FlushEnds(g)
  /\ UNCHANGED <<delayed, encoder, encErr, timer, written, delivered, closing>>

(* The deferred call of the callback. *)
Unlock(c) ==
  /\ pc[c] = "unlock"
  /\ timer' = Unlocked(timer)
  /\ GoTo(c, "idle")
  /\ UNCHANGED <<delayed, encoder, encErr, buf, try, written, delivered, reported,
                 closing>>

(* Stop the timer and flush. *)
Close ==
  /\ pc[Manager] = "idle"
  /\ timer' = Stopped(timer)
  /\ closing' = TRUE
  /\ GoTo(Manager, "flush")
  /\ UNCHANGED <<delayed, encoder, encErr, buf, try, written, delivered, reported>>

(* The sink is closed and nothing is under way. *)
Finished ==
  /\ pc[Manager] = "closed"
  /\ \A c \in Callback : pc[c] = "idle"
  /\ UNCHANGED vars
-----------------------------------------------------------------------------
WriteEnds == WriteFlushes \/ WriteArms \/ WriteFindsTimer
Sending(g) == FlushTakes(g) \/ Post(g) \/ GiveUp(g)

Next ==
  \/ Write \/ WriteEnds \/ Flush \/ Close \/ Finished
  \/ \E g \in Goroutine : Sending(g)
  \/ \E c \in Callback : Fire(c) \/ Unlock(c)

Spec == Init /\ [][Next]_vars

(***************************************************************************)
(* Goroutines that run keep running, every request ends (client.Timeout),  *)
(* and an armed timer fires unless it is stopped.  Nobody has to call      *)
(* Write, Flush or Close.                                                  *)
(***************************************************************************)
FairSpec ==
  /\ Spec
  /\ WF_vars(WriteEnds)
  /\ \A g \in Goroutine : WF_vars(Sending(g))
  /\ WF_vars(\E c \in Callback : Fire(c))
  /\ \A c \in Callback : WF_vars(Unlock(c))
=============================================================================
