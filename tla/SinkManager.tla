---------------------------- MODULE SinkManager ----------------------------
(***************************************************************************)
(* sinks/sinkManager.go: one goroutine reads messages from the channel     *)
(* input and writes each of them to every sink, until Close asks it to end *)
(* over the channel done.  The same channel, closed, is the answer.        *)
(*                                                                         *)
(* Messages are numbered modulo Modulus, so that the producers never have  *)
(* to stop; the variables taken and count are history.                     *)
(***************************************************************************)
EXTENDS Naturals, Sequences

CONSTANTS
  Sink,        (* the sinks that AddOutput has made             *)
  Capacity,    (* of the channel that AddInput was given        *)
  MaxForward,  (* sm.maxForward                                 *)
  Modulus      (* bound: messages are numbered modulo this      *)

ASSUME NumberAssumption ==
  /\ Capacity \in Nat \ {0} /\ MaxForward \in Nat
  /\ Modulus \in Nat /\ Modulus > Capacity + 1

Message == 0..(Modulus - 1)

VARIABLES
  input,     \* the channel of messages
  sent,      \* the number of the next message
  pc,        \* where the goroutine of Start is
  todo,      \* the sinks that the range over sm.sinks has still to visit
  message,   \* the local p
  forward,   \* the local i
  closer,    \* where the goroutine that calls Close is
  closed,    \* the sinks that are closed
  taken,     \* the number of the next message that leaves the channel
  got,       \* the last message that each sink was given
  count      \* how many messages each sink was given, modulo Modulus

vars == <<input, sent, pc, todo, message, forward, closer, closed, taken, got,
          count>>

Succ(n) == (n + 1) % Modulus

Init ==
  /\ input = <<>>
  /\ sent = 0
  /\ pc = "created"
  /\ todo = {}
  /\ message = 0
  /\ forward = 0
  /\ closer = "idle"
  /\ closed = {}
  /\ taken = 0
  /\ got = [s \in Sink |-> Modulus - 1]
  /\ count = [s \in Sink |-> 0]
-----------------------------------------------------------------------------
(* A collector or receiver sends a message; the send blocks while the      *)
(* channel is full.                                                        *)
Produce ==
  /\ Len(input) < Capacity
  /\ input' = Append(input, sent)
  /\ sent' = Succ(sent)
  /\ UNCHANGED <<pc, todo, message, forward, closer, closed, taken, got, count>>

Start ==
  /\ pc = "created"
  /\ pc' = "select"
  /\ UNCHANGED <<input, sent, todo, message, forward, closer, closed, taken,
                 got, count>>

(* p is received, and the range over the sinks begins. *)
Receive ==
  /\ input # <<>>
  /\ message' = Head(input)
  /\ input' = Tail(input)
  /\ taken' = Succ(taken)
  /\ todo' = Sink

SelectInput ==
  /\ pc = "select"
  /\ Receive
  /\ pc' = "writing"
  /\ forward' = 0
  /\ UNCHANGED <<sent, closer, closed, got, count>>

WriteTo(s) ==
  /\ got' = [got EXCEPT ![s] = message]
  /\ count' = [count EXCEPT ![s] = Succ(@)]

WriteStopsAtError(s) ==   \* mutant: a failed write ends the range
  /\ pc = "writing"
  /\ s \in todo
  /\ WriteTo(s)
  /\ todo' \in {todo \ {s}, {}}
  /\ UNCHANGED <<input, sent, pc, message, forward, closer, closed, taken>>

(* s.Write(p); an error is only logged.  The order of a range over a map   *)
(* is arbitrary.                                                           *)
Write(s) ==
  /\ pc = "writing"
  /\ s \in todo
  /\ WriteTo(s)
  /\ todo' = todo \ {s}
  /\ UNCHANGED <<input, sent, pc, message, forward, closer, closed, taken>>

ForwardUnbounded ==   \* mutant: the loop runs until the channel is empty
  /\ pc = "writing"
  /\ todo = {}
  /\ Receive
  /\ UNCHANGED <<sent, pc, forward, closer, closed, got, count>>

(* The inner loop takes one more message without a look at done. *)
Forward ==
  /\ pc = "writing"
  /\ todo = {}
  /\ forward < MaxForward
  /\ Receive
  /\ forward' = forward + 1
  /\ UNCHANGED <<sent, pc, closer, closed, got, count>>

IterationEnds ==
  /\ pc = "writing"
  /\ todo = {}
  /\ input = <<>> \/ forward = MaxForward
  /\ pc' = "select"
  /\ UNCHANGED <<input, sent, todo, message, forward, closer, closed, taken,
                 got, count>>

(* Close begins to send on done, which has no buffer. *)
Close ==
  /\ closer = "idle"
  /\ closer' = "sending"
  /\ UNCHANGED <<input, sent, pc, todo, message, forward, closed, taken, got,
                 count>>

(* The select receives from done, and with it Close is past its send. *)
SelectDone ==
  /\ pc = "select"
  /\ closer = "sending"
  /\ closer' = "waiting"
  /\ pc' = "closing"
  /\ todo' = Sink
  /\ UNCHANGED <<input, sent, message, forward, closed, taken, got, count>>

CloseSink(s) ==
  /\ pc = "closing"
  /\ s \in todo
  /\ closed' = closed \cup {s}
  /\ todo' = todo \ {s}
  /\ UNCHANGED <<input, sent, pc, message, forward, closer, taken, got, count>>

(* close(sm.done) *)
CloseDone ==
  /\ pc = "closing"
  /\ todo = {}
  /\ pc' = "done"
  /\ UNCHANGED <<input, sent, todo, message, forward, closer, closed, taken,
                 got, count>>

(* The receive from the closed channel done succeeds. *)
CloseReturns ==
  /\ closer = "waiting"
  /\ pc = "done"
  /\ closer' = "returned"
  /\ UNCHANGED <<input, sent, pc, todo, message, forward, closed, taken, got,
                 count>>

(* The manager has ended, and whoever sends a message waits for ever. *)
Finished ==
  /\ closer = "returned"
  /\ Len(input) = Capacity
  /\ UNCHANGED vars
-----------------------------------------------------------------------------
Loop ==
  \/ SelectInput
  \/ \E s \in Sink : Write(s)
  \/ Forward
  \/ IterationEnds
  \/ \E s \in Sink : CloseSink(s)
  \/ CloseDone

Next ==
  \/ Produce \/ Start \/ Close \/ SelectDone \/ CloseReturns \/ Finished
  \/ Loop

Spec == Init /\ [][Next]_vars

(***************************************************************************)
(* The goroutine keeps running: Write and Close of the sinks return.       *)
(* select chooses among the ready channels at random, so that done, which  *)
(* stays ready, is chosen in the end.  Nobody has to send or to close.     *)
(***************************************************************************)
FairSpec ==
  /\ Spec
  /\ WF_vars(Loop) /\ SF_vars(SelectDone) /\ WF_vars(CloseReturns)
=============================================================================
