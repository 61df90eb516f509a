------------------------------ MODULE Outbox ------------------------------
(***************************************************************************)
(* What a sink that sends batches promises to the caller of Write          *)
(* (sinks/README.md): an accepted message waits in the buffer, leaves it   *)
(* in one batch, and that batch is delivered or its failure is reported.   *)
(* A batch may arrive before the sink knows, and then arrive again.        *)
(***************************************************************************)
EXTENDS Naturals

CONSTANT Message

VARIABLES
  buffered,    \* accepted messages that no batch has taken yet
  flying,      \* the batches on their way, sets of messages
  delivered,   \* messages that have reached the server
  reported     \* messages of the batches that ended in an error

outbox == <<buffered, flying, delivered, reported>>

Init ==
  /\ buffered = {}
  /\ flying = {}
  /\ delivered = {}
  /\ reported = {}

(* Every message of the sink, wherever it is. *)
Known == buffered \cup (UNION flying) \cup delivered \cup reported

Accept(m) ==
  /\ m \notin Known
  /\ buffered' = buffered \cup {m}
  /\ UNCHANGED <<flying, delivered, reported>>

Depart ==
  /\ buffered # {}
  /\ flying' = flying \cup {buffered}
  /\ buffered' = {}
  /\ UNCHANGED <<delivered, reported>>

Arrive(b) ==
  /\ delivered' = delivered \cup b
  /\ UNCHANGED <<buffered, flying, reported>>

Land(b) ==
  /\ flying' = flying \ {b}
  /\ \/ delivered' = delivered \cup b /\ UNCHANGED reported
     \/ reported' = reported \cup b /\ delivered' \in {delivered, delivered \cup b}
  /\ UNCHANGED buffered

Next ==
  \/ \E m \in Message : Accept(m)
  \/ Depart
  \/ \E b \in flying : Arrive(b) \/ Land(b)

Spec == Init /\ [][Next]_outbox
=============================================================================
