---------------------------- MODULE FlushTimer ----------------------------
(***************************************************************************)
(* The pair flushTimer and timerLock that sinks/httpSink.go, natsSink.go   *)
(* and influxSink.go share: a time.Timer made by time.AfterFunc and a      *)
(* mutex that is held from the arming of the timer until its callback has  *)
(* ended or the timer is stopped.  A timer is a record                     *)
(*                                                                         *)
(*    [state |-> "none", "idle" or "armed", locked |-> BOOLEAN]            *)
(*                                                                         *)
(* with state "none" while flushTimer is the nil pointer.  The mutex has   *)
(* no owner: one goroutine locks it, another one unlocks it.               *)
(***************************************************************************)
Timer == [state : {"none", "idle", "armed"}, locked : BOOLEAN]

NewTimer == [state |-> "none", locked |-> FALSE]

Armed(tm) == tm.state = "armed"

(* TryLock has succeeded: create the timer or restart it. *)
Arm(tm) == [state |-> "armed", locked |-> TRUE]

(* The delay is over and the runtime starts the callback. *)
Fired(tm) == [tm EXCEPT !.state = "idle"]

StoppedKeepsLock(tm) ==   \* mutant: the lock of a stopped timer is kept
  IF Armed(tm) THEN [tm EXCEPT !.state = "idle"] ELSE tm

(* Stop, and give the lock back if the callback will not do it. *)
Stopped(tm) ==
  IF Armed(tm) THEN [state |-> "idle", locked |-> FALSE] ELSE tm

(* timerLock.Unlock at the end of the callback. *)
Unlocked(tm) == [tm EXCEPT !.locked = FALSE]
=============================================================================
