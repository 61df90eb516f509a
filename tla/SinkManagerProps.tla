------------------------- MODULE SinkManagerProps -------------------------
(***************************************************************************)
(* The properties of sinks/sinkManager.go, stated about SinkManager.       *)
(***************************************************************************)
EXTENDS SinkManager

(* Every variable has its type (the fields of sinkManager, the locals of   *)
(* Start and the history).                                                 *)
TypeOK ==
  /\ input \in Seq(Message) /\ Len(input) <= Capacity
  /\ sent \in Message
  /\ pc \in {"created", "select", "writing", "closing", "done"}
  /\ todo \in SUBSET Sink
  /\ message \in Message
  /\ forward \in 0..MaxForward
  /\ closer \in {"idle", "sending", "waiting", "returned"}
  /\ closed \in SUBSET Sink
  /\ taken \in Message
  /\ got \in [Sink -> Message]
  /\ count \in [Sink -> Message]

(* No sink misses a message, gets one twice or out of order: the n-th      *)
(* message that it is given is message n, and the sinks that the range has *)
(* visited have got all messages that were taken from the channel.         *)
EverySinkGetsEveryMessage ==
  \A s \in Sink :
    /\ count[s] = Succ(got[s])
    /\ pc # "writing" \/ s \notin todo => count[s] = taken
    /\ pc = "writing" /\ s \in todo => Succ(count[s]) = taken

(* A sink is closed once all sinks have got the same messages, and is      *)
(* never written to or closed again.                                       *)
ClosedSinksAreQuiet ==
  [][/\ closed # {} => UNCHANGED <<got, count, message>>
     /\ closed' # closed => \A s, r \in Sink : count[s] = count[r]]_vars

(* When Close has returned all sinks are closed: what they hold back       *)
(* is flushed before the program goes on.                                  *)
ClosedMeansClosed == closer = "returned" => closed = Sink
=============================================================================
