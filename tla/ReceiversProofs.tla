-------------------------- MODULE ReceiversProofs --------------------------
(***************************************************************************)
(* Proofs about SinkManager, for any sinks, channel, MaxForward and        *)
(* numbers of messages; about Receivers, for any configurations: lists of  *)
(* hosts, fanouts, and numbers of messages; and that the sink manager      *)
(* keeps its promises when the receivers are what sends to it.             *)
(***************************************************************************)
EXTENDS ReceiversProps, FiniteSetTheorems, TLAPS

-----------------------------------------------------------------------------
(* The sink manager.                                                       *)

USE NumberAssumption DEF Message

(* The channel holds the messages taken, taken + 1, ..., sent - 1.         *)
Consecutive ==
  /\ input = <<>> => sent = taken
  /\ input # <<>> => input[1] = taken /\ sent = Succ(input[Len(input)])
  /\ \A i \in 1..(Len(input) - 1) : input[i + 1] = Succ(input[i])

(* What the goroutine is doing, against its locals and the caller of Close *)
Stages ==
  /\ pc = "writing" => taken = Succ(message)
  /\ pc \in {"created", "select", "done"} => todo = {}
  /\ closed # {} => pc \in {"closing", "done"}
  /\ pc = "closing" => closed = Sink \ todo
  /\ pc = "done" => closed = Sink
  /\ closer \in {"idle", "sending"} => pc \notin {"closing", "done"}
  /\ closer = "returned" => pc = "done"

ManagerInv == TypeOK /\ Consecutive /\ Stages /\ EverySinkGetsEveryMessage

(* The successor of a message number is a message number.                  *)
LEMMA SuccType == ASSUME NEW n \in Nat PROVE Succ(n) \in Message
BY DEF Succ

(* The steps of Next. *)
LEMMA Steps ==
  ASSUME [Next]_vars,
         NEW P,
         Produce => P, Start => P, Close => P, SelectDone => P,
         CloseReturns => P, SelectInput => P, Forward => P,
         IterationEnds => P, CloseDone => P, UNCHANGED vars => P,
         ASSUME NEW s \in Sink, Write(s) PROVE P,
         ASSUME NEW s \in Sink, CloseSink(s) PROVE P
  PROVE  P
BY DEF Next, Loop, Finished

(* Receiving from the channel leaves it as it should be. *)
LEMMA ReceiveTakesNext ==
  ASSUME TypeOK, Consecutive, Receive, sent' = sent
  PROVE  /\ input' \in Seq(Message) /\ Len(input') <= Capacity
         /\ message' = taken /\ message' \in Message
         /\ taken' = Succ(taken) /\ taken' \in Message
         /\ Consecutive'
<1> USE DEF TypeOK, Receive
<1>1. input' \in Seq(Message) /\ Len(input') = Len(input) - 1
  OBVIOUS
<1>2. \A i \in 1..Len(input') : input'[i] = input[i + 1]
  OBVIOUS
<1>3. message' = taken
  BY DEF Consecutive
<1>4. taken' = Succ(taken) /\ taken' \in Message
  BY SuccType
<1>5. \A i \in 1..(Len(input') - 1) : input'[i + 1] = Succ(input'[i])
  BY <1>1, <1>2 DEF Consecutive
<1>6. input' = <<>> => sent' = taken'
  <2> SUFFICES ASSUME input' = <<>> PROVE sent' = taken'
    OBVIOUS
  <2>1. Len(<<>>) = 0
    OBVIOUS
  <2>2. Len(input) = 1
    <3> HIDE DEF Receive
    <3> QED BY <1>1, <2>1
  <2> QED
    BY <1>4, <2>2 DEF Consecutive
<1>7. input' # <<>> => input'[1] = taken' /\ sent' = Succ(input'[Len(input')])
  <2> SUFFICES ASSUME input' # <<>>
               PROVE  input'[1] = taken' /\ sent' = Succ(input'[Len(input')])
    OBVIOUS
  <2>1. Len(input') \in 1..Len(input') /\ 1 \in 1..Len(input') /\ Len(input') + 1 = Len(input)
    BY <1>1
  <2>2. input'[1] = taken'
    BY <1>2, <1>4, <2>1 DEF Consecutive
  <2>3. input'[Len(input')] = input[Len(input)]
    BY <1>2, <2>1
  <2> QED
    BY <2>2, <2>3 DEF Consecutive
<1>8. Consecutive'
  BY <1>5, <1>6, <1>7 DEF Consecutive
<1>9. Len(input') <= Capacity
  BY <1>1
<1> QED BY <1>1, <1>3, <1>4, <1>8, <1>9

(* Sending to the channel leaves it as it should be.                       *)
LEMMA ProduceAppends ==
  ASSUME TypeOK, Consecutive, Produce
  PROVE  TypeOK' /\ Consecutive'
<1> USE DEF TypeOK, Produce
<1>1. sent' \in Message
  BY SuccType
<1>2. TypeOK'
  BY <1>1
<1>3. Len(input') = Len(input) + 1 /\ input'[Len(input')] = sent
  OBVIOUS
<1>4. \A i \in 1..Len(input) : input'[i] = input[i]
  OBVIOUS
<1>5. \A i \in 1..(Len(input') - 1) : input'[i + 1] = Succ(input'[i])
  BY <1>3, <1>4 DEF Consecutive
<1>6. input'[1] = taken'
  BY <1>3, <1>4 DEF Consecutive
<1>7. input' # <<>> /\ sent' = Succ(input'[Len(input')])
  BY <1>3
<1>8. Consecutive'
  <2> QED BY ONLY <1>5, <1>6, <1>7 DEF Consecutive
<1> QED
  BY <1>2, <1>8

(* An empty channel and a goroutine that has not been started.             *)
LEMMA InitManager == Init => ManagerInv
BY DEF Init, ManagerInv, TypeOK, Consecutive, Stages, EverySinkGetsEveryMessage,
   Succ

(* Every step keeps the order of the messages and the stage of the loop.   *)
LEMMA NextManager == ManagerInv /\ [Next]_vars => ManagerInv'
<1> SUFFICES ASSUME ManagerInv, [Next]_vars PROVE ManagerInv'
  OBVIOUS
<1> USE DEF ManagerInv
<1> DEFINE Others == Stages /\ EverySinkGetsEveryMessage
<1>1. Produce => ManagerInv'
  <2> SUFFICES ASSUME Produce PROVE Others'
    BY ProduceAppends
  <2> QED
    BY DEF Produce, Stages, EverySinkGetsEveryMessage
<1>2. Start => ManagerInv'
  BY DEF Start, TypeOK, Consecutive, Stages, EverySinkGetsEveryMessage
<1>3. Close => ManagerInv'
  BY DEF Close, TypeOK, Consecutive, Stages, EverySinkGetsEveryMessage
<1>4. SelectDone => ManagerInv'
  BY DEF SelectDone, TypeOK, Consecutive, Stages, EverySinkGetsEveryMessage
<1>5. CloseReturns => ManagerInv'
  BY DEF CloseReturns, TypeOK, Consecutive, Stages, EverySinkGetsEveryMessage
<1>6. SelectInput => ManagerInv'
  <2> SUFFICES ASSUME SelectInput PROVE ManagerInv'
    OBVIOUS
  <2>1. Receive /\ sent' = sent
    BY DEF SelectInput
  <2>2. TypeOK' /\ Consecutive'
    BY <2>1, ReceiveTakesNext DEF SelectInput, TypeOK, Receive
  <2>3. Others'
    BY <2>1, ReceiveTakesNext
       DEF SelectInput, Receive, TypeOK, Stages, EverySinkGetsEveryMessage
  <2> QED
    BY <2>2, <2>3
<1>7. Forward => ManagerInv'
  <2> SUFFICES ASSUME Forward PROVE ManagerInv'
    OBVIOUS
  <2>1. Receive /\ sent' = sent
    BY DEF Forward
  <2>2. TypeOK' /\ Consecutive'
    BY <2>1, ReceiveTakesNext DEF Forward, TypeOK, Receive
  <2>3. Others'
    BY <2>1, ReceiveTakesNext
       DEF Forward, Receive, TypeOK, Stages, EverySinkGetsEveryMessage
  <2> QED
    BY <2>2, <2>3
<1>8. IterationEnds => ManagerInv'
  BY DEF IterationEnds, TypeOK, Consecutive, Stages, EverySinkGetsEveryMessage
<1>9. CloseDone => ManagerInv'
  BY DEF CloseDone, TypeOK, Consecutive, Stages, EverySinkGetsEveryMessage
<1>10. UNCHANGED vars => ManagerInv'
  BY DEF vars, TypeOK, Consecutive, Stages, EverySinkGetsEveryMessage
<1>11. ASSUME NEW s \in Sink, Write(s) PROVE ManagerInv'
  <2>1. count'[s] \in Message
    BY <1>11, SuccType DEF Write, WriteTo, TypeOK
  <2>2. TypeOK' /\ Consecutive' /\ Stages'
    BY <1>11, <2>1 DEF Write, WriteTo, TypeOK, Consecutive, Stages
  <2>3. EverySinkGetsEveryMessage'
    BY <1>11 DEF Write, WriteTo, TypeOK, Stages, EverySinkGetsEveryMessage
  <2> QED
    BY <2>2, <2>3
<1>12. ASSUME NEW s \in Sink, CloseSink(s) PROVE ManagerInv'
  BY <1>12 DEF CloseSink, TypeOK, Consecutive, Stages, EverySinkGetsEveryMessage
<1> QED
  BY <1>1, <1>2, <1>3, <1>4, <1>5, <1>6, <1>7, <1>8, <1>9, <1>10, <1>11, <1>12,
     Steps
-----------------------------------------------------------------------------
(* The inductive invariant of the sink manager. *)
THEOREM ManagerInvHolds == Spec => []ManagerInv
BY InitManager, NextManager, PTL DEF Spec

(* Every variable of the sink manager keeps its type. *)
THEOREM TypesAreKept == Spec => []TypeOK
<1>1. ManagerInv => TypeOK
  BY DEF ManagerInv
<1> QED BY <1>1, ManagerInvHolds, PTL

(* No sink misses a message, gets one twice or out of order. *)
THEOREM NoMessageIsMissed == Spec => []EverySinkGetsEveryMessage
<1>1. ManagerInv => EverySinkGetsEveryMessage
  BY DEF ManagerInv
<1> QED BY <1>1, ManagerInvHolds, PTL

(* When Close has returned all sinks are closed. *)
THEOREM CloseClosesAll == Spec => []ClosedMeansClosed
<1>1. ManagerInv => ClosedMeansClosed
  BY DEF ManagerInv, Stages, ClosedMeansClosed
<1> QED BY <1>1, ManagerInvHolds, PTL

(* Sinks are closed when all have got the same messages, and then rest. *)
THEOREM NoWriteAfterClose == Spec => ClosedSinksAreQuiet
<1> DEFINE Quiet == /\ closed # {} => UNCHANGED <<got, count, message>>
                    /\ closed' # closed => \A s, r \in Sink : count[s] = count[r]
<1>1. ManagerInv /\ [Next]_vars => [Quiet]_vars
  <2> SUFFICES ASSUME ManagerInv, [Next]_vars PROVE Quiet
    OBVIOUS
  <2> USE DEF ManagerInv, Stages, TypeOK
  <2>1. Produce => Quiet
    BY DEF Produce
  <2>2. Start => Quiet
    BY DEF Start
  <2>3. Close => Quiet
    BY DEF Close
  <2>4. SelectDone => Quiet
    BY DEF SelectDone
  <2>5. CloseReturns => Quiet
    BY DEF CloseReturns
  <2>6. SelectInput => Quiet
    BY DEF SelectInput
  <2>7. Forward => Quiet
    BY DEF Forward
  <2>8. IterationEnds => Quiet
    BY DEF IterationEnds
  <2>9. CloseDone => Quiet
    BY DEF CloseDone
  <2>10. UNCHANGED vars => Quiet
    BY DEF vars
  <2>11. ASSUME NEW s \in Sink, Write(s) PROVE Quiet
    BY <2>11 DEF Write, WriteTo
  <2>12. ASSUME NEW s \in Sink, CloseSink(s) PROVE Quiet
    BY <2>12 DEF CloseSink, EverySinkGetsEveryMessage
  <2> HIDE DEF Quiet
  <2> QED
    BY <2>1, <2>2, <2>3, <2>4, <2>5, <2>6, <2>7, <2>8, <2>9, <2>10, <2>11, <2>12,
       Steps
<1> QED
  BY <1>1, ManagerInvHolds, PTL DEF Spec, ClosedSinksAreQuiet

HIDE NumberAssumption DEF Message
-----------------------------------------------------------------------------
(* The receive manager and its receivers.                                  *)

LoopState == {"created", "round", "distribute", "waiting", "scan", "ticker", "ended",
              "panicked"}
WorkerState == {Idle, Gone} \cup [at : Host, left : Nat]

Managers(c) ==
  [config : {c}, inputs : Seq(Receiver), sinked : SUBSET Receiver,
   stage : {"setup", "wired", "running", "closed"},
   loop : [Receiver -> LoopState], done : SUBSET Receiver,
   next : Nat \ {0}, queue : Seq(Host), worker : [1..Fanout(c) -> WorkerState],
   polled : SUBSET Host, readings : Nat]

RmType == rm.config \in Config /\ rm \in Managers(rm.config)

Busy(w) == rm.worker[w] \notin {Idle, Gone}

(* The hosts of this round that have been put into the channel. *)
Handed(h, m) == \E j \in 1..(m.next - 1) :
                   j \in DOMAIN m.config.hosts /\ h = m.config.hosts[j]

(* A goroutine runs for those only that AddInput made. *)
Made ==
  /\ \A r \in Receiver : rm.loop[r] # "created" => IsInput(r)
  /\ IsInput("redfish") => Accepted(rm.config.hosts)
  /\ rm.stage \in {"setup", "wired"} => \A r \in Receiver : rm.loop[r] = "created"
  /\ rm.stage = "closed" => \A r \in Receiver : rm.loop[r] \in {"created", "ended"}

(* When workers exist: between the start of a round and its end; the first *)
(* of them ends when the channel is closed and empty.  Without any the     *)
(* channel has no room.                                                    *)
Rounds ==
  /\ rm.loop["redfish"] \notin {"distribute", "waiting", "panicked"} =>
       rm.queue = <<>> /\ \A w \in Pool : rm.worker[w] = Gone
  /\ rm.loop["redfish"] = "distribute" => \A w \in Pool : rm.worker[w] # Gone
  /\ rm.loop["redfish"] = "waiting" =>
       rm.queue = <<>> \/ \A w \in Pool : rm.worker[w] # Gone
  /\ Pool = {} => rm.queue = <<>>

(* Who has a host has it from the list, and nobody else has it. *)
Shares ==
  /\ \A k \in DOMAIN rm.queue : Handed(rm.queue[k], rm)
  /\ \A w \in Pool : Busy(w) => Handed(rm.worker[w].at, rm)
  /\ \A k, l \in DOMAIN rm.queue : rm.queue[k] = rm.queue[l] => k = l

ReceiversInv == RmType /\ Made /\ Rounds /\ Shares /\ OneWorkerPerHost
-----------------------------------------------------------------------------
(* A configuration has its parts. *)
LEMMA ConfigParts ==
  ASSUME NEW c \in Config
  PROVE  /\ c.receivers \subseteq Receiver /\ c.hosts \in Seq(Host)
         /\ Len(c.hosts) \in Nat /\ DOMAIN c.hosts = 1..Len(c.hosts)
         /\ c.readings \in Nat /\ Fanout(c) \in Int
<1>1. c.hosts \in Seq(Host) /\ c.fanout \in Int
  BY ReceiverAssumption
<1>2. Len(c.hosts) \in Nat /\ DOMAIN c.hosts = 1..Len(c.hosts)
  BY <1>1
<1>3. Fanout(c) \in Int
  BY <1>1, <1>2 DEF Fanout
<1> QED BY <1>1, <1>2, <1>3, ReceiverAssumption

(* Nothing is made and no goroutine runs. *)
LEMMA InitReceivers == ReceiversInit => ReceiversInv
<1> SUFFICES ASSUME ReceiversInit PROVE ReceiversInv
  OBVIOUS
<1>1. PICK c \in Config :
        rm = [config |-> c, inputs |-> <<>>, sinked |-> {}, stage |-> "setup",
              loop |-> [r \in Receiver |-> "created"], done |-> {},
              next |-> 1, queue |-> <<>>,
              worker |-> [w \in 1..Fanout(c) |-> Gone], polled |-> {},
              readings |-> 0]
  BY DEF ReceiversInit
<1>2. RmType
  BY <1>1 DEF RmType, Managers, LoopState, WorkerState
<1>3. ~IsInput("redfish") /\ "redfish" \in Receiver
  BY <1>1 DEF IsInput, Receiver
<1> QED
  BY <1>1, <1>2, <1>3
     DEF ReceiversInv, Made, Rounds, Shares, OneWorkerPerHost, Pool, Busy

(* The steps of ReceiversNext. *)
LEMMA ReceiversSteps ==
  ASSUME [ReceiversNext]_allVars,
         NEW P,
         ManagerStep => P, UNCHANGED allVars => P,
         AddOutput => P, StartReceivers => P, ReceiversClosed => P,
         StartWorkers => P, PoolPanics => P, Distribute => P, DistributionStops => P,
         Distributed => P, RoundEnds => P, RunSensors => P, ScanLine => P,
         ScanEnds => P,
         ASSUME NEW r \in Receiver, AddInput(r) PROVE P,
         ASSUME NEW r \in Receiver, Tick(r) PROVE P,
         ASSUME NEW r \in Receiver, End(r) PROVE P,
         ASSUME NEW k \in 1..2, CloseReceiver(k) PROVE P,
         ASSUME NEW w \in Pool, Take(w) PROVE P,
         ASSUME NEW w \in Pool, SendReading(w) PROVE P,
         ASSUME NEW w \in Pool, ReadingPanics(w) PROVE P,
         ASSUME NEW w \in Pool, NextClient(w) PROVE P,
         ASSUME NEW w \in Pool, WorkerEnds(w) PROVE P
  PROVE  P
BY DEF ReceiversNext, WorkerStep, RedfishLoop, IpmiLoop

(* Every step keeps the types. *)
LEMMA NextRmType ==
  ASSUME RmType, [ReceiversNext]_allVars PROVE RmType'
<1> DEFINE C == rm.config
           T == rm' \in Managers(C) /\ rm'.config = C
<1> SUFFICES T
  BY DEF RmType
<1>0. C \in Config /\ rm \in Managers(C)
  BY DEF RmType
<1>1. rm' = rm => T
  BY <1>0 DEF Managers
<1> HIDE DEF C
<1>2. "redfish" \in Receiver /\ "ipmi" \in Receiver
  BY DEF Receiver
<1>3. /\ "round" \in LoopState /\ "distribute" \in LoopState
      /\ "waiting" \in LoopState /\ "scan" \in LoopState
      /\ "ticker" \in LoopState /\ "ended" \in LoopState
      /\ "panicked" \in LoopState
  BY DEF LoopState
<1>4. Idle \in WorkerState /\ Gone \in WorkerState
  BY DEF WorkerState
<1>5. <<>> \in Seq(Host)
  OBVIOUS
<1>6. AddOutput => T
  BY <1>0 DEF AddOutput, Managers
<1>7. StartReceivers => T
  <2> SUFFICES ASSUME StartReceivers PROVE T
    OBVIOUS
  <2> DEFINE l == [r \in Receiver |-> IF IsInput(r) THEN "round" ELSE rm.loop[r]]
  <2>1. rm' = [rm EXCEPT !.stage = "running", !.loop = l]
    BY DEF StartReceivers
  <2>2. l \in [Receiver -> LoopState]
    BY <1>0, <1>3 DEF Managers
  <2> HIDE DEF l
  <2> QED BY <1>0, <2>1, <2>2 DEF Managers
<1>8. ReceiversClosed => T
  BY <1>0 DEF ReceiversClosed, Managers
<1>9. StartWorkers => T
  <2> SUFFICES ASSUME StartWorkers PROVE T
    OBVIOUS
  <2> DEFINE ws == [w \in Pool |-> Idle]
  <2>1. rm' = [rm EXCEPT !.loop["redfish"] = "distribute", !.next = 1,
                          !.polled = {}, !.worker = ws]
    BY DEF StartWorkers
  <2>2. ws \in [1..Fanout(C) -> WorkerState]
    BY <1>0, <1>4 DEF Pool, Managers
  <2>3. 1 \in Nat \ {0}
    OBVIOUS
  <2> HIDE DEF ws
  <2> QED BY <1>0, <1>2, <1>3, <2>1, <2>2, <2>3 DEF Managers
<1>10. Distribute => T
  <2> SUFFICES ASSUME Distribute PROVE T
    OBVIOUS
  <2> DEFINE h == rm.config.hosts[rm.next]
  <2>1. rm' = [rm EXCEPT !.queue = Append(@, h), !.next = @ + 1]
    BY DEF Distribute
  <2>2. h \in Host
    BY <1>0, ConfigParts DEF Distribute, C, Managers
  <2>3. Append(rm.queue, h) \in Seq(Host) /\ rm.next + 1 \in Nat \ {0}
    BY <1>0, <2>2 DEF Managers
  <2> HIDE DEF h
  <2> QED BY <1>0, <2>1, <2>3 DEF Managers
<1>11. DistributionStops => T
  <2> SUFFICES ASSUME DistributionStops PROVE T
    OBVIOUS
  <2>1. rm' = [rm EXCEPT !.loop["redfish"] = "waiting", !.queue = <<>>]
    BY DEF DistributionStops
  <2> QED BY <1>0, <2>1, <1>2, <1>3, <1>5 DEF Managers
<1>12. Distributed => T
  <2> SUFFICES ASSUME Distributed PROVE T
    OBVIOUS
  <2>1. rm' = [rm EXCEPT !.loop["redfish"] = "waiting"]
    BY DEF Distributed
  <2> QED BY <1>0, <2>1, <1>2, <1>3 DEF Managers
<1>13. RoundEnds => T
  <2> SUFFICES ASSUME RoundEnds PROVE T
    OBVIOUS
  <2>1. rm' = [rm EXCEPT !.loop["redfish"] = "ticker"]
    BY DEF RoundEnds
  <2> QED BY <1>0, <2>1, <1>2, <1>3 DEF Managers
<1>14. RunSensors => T
  <2> SUFFICES ASSUME RunSensors PROVE T
    OBVIOUS
  <2>1. PICK n \in 0..rm.config.readings :
          rm' = [rm EXCEPT !.loop["ipmi"] = "scan", !.readings = n]
    BY DEF RunSensors
  <2>2. n \in Nat
    BY <1>0, ConfigParts DEF C
  <2> QED BY <1>0, <1>2, <1>3, <2>1, <2>2 DEF Managers
<1>15. ScanLine => T
  <2> SUFFICES ASSUME ScanLine PROVE T
    OBVIOUS
  <2>1. rm' = [rm EXCEPT !.readings = @ - 1] /\ rm.readings > 0
    BY DEF ScanLine
  <2>2. rm.readings - 1 \in Nat
    BY <1>0, <2>1 DEF Managers
  <2> QED BY <1>0, <2>1, <2>2 DEF Managers
<1>16. ScanEnds => T
  <2> SUFFICES ASSUME ScanEnds PROVE T
    OBVIOUS
  <2>1. rm' = [rm EXCEPT !.loop["ipmi"] = "ticker"]
    BY DEF ScanEnds
  <2> QED BY <1>0, <2>1, <1>2, <1>3 DEF Managers
<1>17. ASSUME NEW r \in Receiver, AddInput(r) PROVE T
  <2>1. rm' = [rm EXCEPT !.inputs = Append(@, r)]
    BY <1>17 DEF AddInput
  <2>2. Append(rm.inputs, r) \in Seq(Receiver)
    BY <1>0 DEF Managers
  <2> QED BY <1>0, <2>1, <2>2 DEF Managers
<1>18. ASSUME NEW r \in Receiver, Tick(r) PROVE T
  BY <1>18, <1>0, <1>3 DEF Tick, Managers
<1>19. ASSUME NEW r \in Receiver, End(r) PROVE T
  BY <1>19, <1>0, <1>3 DEF End, Managers
<1>20. ASSUME NEW k \in 1..2, CloseReceiver(k) PROVE T
  <2>1. rm' = [rm EXCEPT !.done = @ \cup {rm.inputs[k]}]
    BY <1>20 DEF CloseReceiver
  <2>2. rm.inputs[k] \in Receiver
    BY <1>20, <1>0 DEF CloseReceiver, Managers
  <2> QED BY <1>0, <2>1, <2>2 DEF Managers
<1>21. ASSUME NEW w \in Pool, Take(w) PROVE T
  <2>1. PICK n \in 0..rm.config.readings :
          rm' = [rm EXCEPT !.worker[w] = [at |-> Head(rm.queue), left |-> n],
                           !.polled = @ \cup {Head(rm.queue)}, !.queue = Tail(@)]
    BY <1>21 DEF Take
  <2>2. n \in Nat
    BY <1>0, ConfigParts DEF C
  <2>3. Head(rm.queue) \in Host /\ Tail(rm.queue) \in Seq(Host)
    BY <1>21, <1>0 DEF Take, Managers
  <2>4. [at |-> Head(rm.queue), left |-> n] \in WorkerState
    BY <2>2, <2>3 DEF WorkerState
  <2> QED BY <1>0, <2>1, <2>3, <2>4 DEF Managers
<1>22. ASSUME NEW w \in Pool, SendReading(w) PROVE T
  <2> DEFINE e == [rm.worker[w] EXCEPT !.left = @ - 1]
  <2>1. rm' = [rm EXCEPT !.worker[w] = e] /\ rm.worker[w].left > 0
    BY <1>22 DEF SendReading
  <2>2. rm.worker[w] \in WorkerState
    BY <1>0 DEF Managers, Pool
  <2>3. e \in WorkerState
    BY <2>1, <2>2 DEF WorkerState, Idle, Gone
  <2> HIDE DEF e
  <2> QED BY <1>0, <2>1, <2>3 DEF Managers
<1>23. ASSUME NEW w \in Pool, NextClient(w) PROVE T
  BY <1>23, <1>0, <1>4 DEF NextClient, Managers
<1>24. ASSUME NEW w \in Pool, WorkerEnds(w) PROVE T
  BY <1>24, <1>0, <1>4 DEF WorkerEnds, Managers
<1>25. ManagerStep \/ UNCHANGED allVars => T
  BY <1>1 DEF ManagerStep, allVars
<1>26. PoolPanics => T
  <2> SUFFICES ASSUME PoolPanics PROVE T
    OBVIOUS
  <2>1. rm' = [rm EXCEPT !.loop["redfish"] = "panicked"]
    BY DEF PoolPanics
  <2> QED BY <1>0, <2>1, <1>2, <1>3 DEF Managers
<1>27. ASSUME NEW w \in Pool, ReadingPanics(w) PROVE T
  <2>1. rm' = [rm EXCEPT !.loop["redfish"] = "panicked"]
    BY <1>27 DEF ReadingPanics
  <2> QED BY <1>0, <2>1, <1>2, <1>3 DEF Managers
<1> HIDE DEF T
<1> QED BY <1>6, <1>7, <1>8, <1>9, <1>10, <1>11, <1>12, <1>13, <1>14, <1>15, <1>16,
           <1>17, <1>18, <1>19, <1>20, <1>21, <1>22, <1>23, <1>24, <1>25,
           <1>26, <1>27, ReceiversSteps

(* A worker has a host or none. *)
LEMMA WorkerHost ==
  ASSUME NEW e \in WorkerState
  PROVE  e \notin {Idle, Gone} <=> e.at \in Host
BY DEF WorkerState, Idle, Gone, Host

(* Steps that are not about the pool leave it alone. *)
LEMMA PoolRests ==
  ASSUME Rounds, Shares, OneWorkerPerHost,
         rm'.config = rm.config, rm'.next = rm.next, rm'.queue = rm.queue,
         rm'.worker = rm.worker,
         \/ rm'.loop["redfish"] = rm.loop["redfish"]
         \/ /\ rm.loop["redfish"] \notin {"distribute", "waiting", "panicked"}
            /\ rm'.loop["redfish"] \notin {"distribute", "waiting"}
         \/ rm'.loop["redfish"] = "panicked"
  PROVE  Rounds' /\ Shares' /\ OneWorkerPerHost'
<1>1. Rounds'
  BY DEF Rounds, Pool
<1>2. Shares'
  BY DEF Shares, Busy, Handed, Pool
<1>3. OneWorkerPerHost'
  BY DEF OneWorkerPerHost, Pool
<1> QED BY <1>1, <1>2, <1>3

(* Neither AddInput nor a loop. *)
LEMMA MadeRests ==
  ASSUME Made, rm'.config = rm.config, rm'.inputs = rm.inputs,
         rm'.stage = rm.stage, rm'.loop = rm.loop
  PROVE  Made'
BY DEF Made, IsInput

(* A loop that runs moves on. *)
LEMMA LoopMoves ==
  ASSUME RmType, Made, NEW r \in Receiver,
         rm.loop[r] \notin {"created", "ended"},
         NEW l \in LoopState, l # "created",
         rm'.loop = [rm.loop EXCEPT ![r] = l],
         rm'.config = rm.config, rm'.inputs = rm.inputs, rm'.stage = rm.stage
  PROVE  Made'
<1>1. \A q \in Receiver : rm'.loop[q] = IF q = r THEN l ELSE rm.loop[q]
  BY DEF RmType, Managers
<1>2. \A q \in Receiver : IsInput(q)' = IsInput(q)
  BY DEF IsInput
<1>3. IsInput("redfish")' = IsInput("redfish")
  BY DEF IsInput
<1>4. rm.stage \notin {"setup", "wired", "closed"}
  BY DEF Made
<1> QED BY <1>1, <1>2, <1>3, <1>4 DEF Made

(* A worker that goes on with its host, or has none any more. *)
LEMMA WorkerMoves ==
  ASSUME RmType, RmType', Shares, OneWorkerPerHost, NEW w \in Pool, NEW e,
         \/ Busy(w) /\ e.at = rm.worker[w].at
         \/ e \in {Idle, Gone},
         rm'.worker = [rm.worker EXCEPT ![w] = e],
         rm'.config = rm.config, rm'.next = rm.next, rm'.queue = rm.queue
  PROVE  Shares' /\ OneWorkerPerHost'
<1>1. Pool' = Pool /\ \A v \in Pool : rm'.worker[v] = IF v = w THEN e ELSE rm.worker[v]
  BY DEF RmType, Managers, Pool
<1>2. \A v \in Pool : /\ Busy(v) <=> rm.worker[v].at \in Host
                      /\ Busy(v)' <=> rm'.worker[v].at \in Host
  BY <1>1, WorkerHost DEF RmType, Managers, Pool, Busy
<1>3. \A v \in Pool : Busy(v)' => Busy(v) /\ rm'.worker[v].at = rm.worker[v].at
  BY <1>1, <1>2 DEF Busy
<1>4. \A h : Handed(h, rm') = Handed(h, rm)
  BY DEF Handed
<1>5. Shares'
  BY <1>1, <1>3, <1>4 DEF Shares
<1>6. OneWorkerPerHost'
  BY <1>1, <1>2, <1>3 DEF OneWorkerPerHost, Busy
<1> QED BY <1>5, <1>6

(* Every step keeps the invariant. *)
LEMMA NextReceivers == ReceiversInv /\ [ReceiversNext]_allVars => ReceiversInv'
<1> SUFFICES ASSUME ReceiversInv, [ReceiversNext]_allVars PROVE ReceiversInv'
  OBVIOUS
<1> DEFINE Inv == Made' /\ Rounds' /\ Shares' /\ OneWorkerPerHost'
<1>0. RmType /\ RmType' /\ Made /\ Rounds /\ Shares /\ OneWorkerPerHost
  BY NextRmType DEF ReceiversInv
<1> USE DEF RmType, Managers
<1>1. rm' = rm => Inv
  BY <1>0, PoolRests, MadeRests
<1>2. ManagerStep \/ UNCHANGED allVars => Inv
  BY <1>1 DEF ManagerStep, allVars
<1>3. "redfish" \in Receiver /\ "ipmi" \in Receiver
  BY DEF Receiver
<1>4. /\ "round" \in LoopState /\ "distribute" \in LoopState
      /\ "waiting" \in LoopState /\ "scan" \in LoopState
      /\ "ticker" \in LoopState /\ "ended" \in LoopState
      /\ "panicked" \in LoopState
  BY DEF LoopState
<1>5. AddOutput => Inv
  <2> SUFFICES ASSUME AddOutput PROVE Inv
    OBVIOUS
  <2>1. /\ rm'.config = rm.config /\ rm'.inputs = rm.inputs
        /\ rm'.next = rm.next /\ rm'.queue = rm.queue
        /\ rm'.worker = rm.worker /\ rm'.loop = rm.loop
        /\ rm.stage = "setup" /\ rm'.stage = "wired"
    BY <1>0 DEF AddOutput
  <2>2. Made'
    BY <1>0, <2>1 DEF Made, IsInput
  <2> QED BY <1>0, <2>1, <2>2, PoolRests
<1>6. StartReceivers => Inv
  <2> SUFFICES ASSUME StartReceivers PROVE Inv
    OBVIOUS
  <2>1. /\ rm'.config = rm.config /\ rm'.inputs = rm.inputs
        /\ rm'.next = rm.next /\ rm'.queue = rm.queue
        /\ rm'.worker = rm.worker
        /\ rm.stage = "wired" /\ rm'.stage = "running"
        /\ rm'.loop = [r \in Receiver |->
                         IF IsInput(r) THEN "round" ELSE rm.loop[r]]
    BY <1>0 DEF StartReceivers
  <2>2. \A r \in Receiver : rm.loop[r] = "created"
    BY <1>0, <2>1 DEF Made
  <2>3. Made'
    BY <1>0, <2>1, <2>2 DEF Made, IsInput
  <2>4. rm.loop["redfish"] \notin {"distribute", "waiting", "panicked"}
    BY <1>3, <2>2
  <2>5. rm'.loop["redfish"] \notin {"distribute", "waiting"}
    BY <1>3, <2>1, <2>2
  <2> QED BY <1>0, <2>1, <2>3, <2>4, <2>5, PoolRests
<1>7. ReceiversClosed => Inv
  <2> SUFFICES ASSUME ReceiversClosed PROVE Inv
    OBVIOUS
  <2>1. /\ rm'.config = rm.config /\ rm'.inputs = rm.inputs
        /\ rm'.next = rm.next /\ rm'.queue = rm.queue
        /\ rm'.worker = rm.worker /\ rm'.loop = rm.loop
        /\ rm'.stage = "closed"
    BY <1>0 DEF ReceiversClosed
  <2>2. \A r \in Receiver : rm.loop[r] \in {"created", "ended"}
    BY <1>0 DEF Made, IsInput, ReceiversClosed
  <2>3. Made'
    BY <1>0, <2>1, <2>2 DEF Made, IsInput
  <2> QED BY <1>0, <2>1, <2>3, PoolRests
<1>8. StartWorkers => Inv
  <2> SUFFICES ASSUME StartWorkers PROVE Inv
    OBVIOUS
  <2>1. /\ rm'.config = rm.config /\ rm'.inputs = rm.inputs
        /\ rm'.stage = rm.stage /\ rm'.queue = rm.queue
        /\ rm'.worker = [w \in Pool |-> Idle]
        /\ rm.loop["redfish"] = "round"
        /\ rm'.loop = [rm.loop EXCEPT !["redfish"] = "distribute"]
    BY <1>0, <1>3 DEF StartWorkers
  <2>2. Made'
    BY <1>0, <1>3, <1>4, <2>1, LoopMoves
  <2>3. rm'.queue = <<>> /\ rm'.loop["redfish"] = "distribute"
    BY <1>0, <1>3, <2>1 DEF Rounds
  <2>4. \A w \in Pool' : rm'.worker[w] = Idle
    BY <2>1 DEF Pool
  <2>5. Idle # Gone
    BY DEF Idle, Gone
  <2> QED BY <2>2, <2>3, <2>4, <2>5 DEF Rounds, Shares, OneWorkerPerHost, Busy
<1>9. Distribute => Inv
  <2> SUFFICES ASSUME Distribute PROVE Inv
    OBVIOUS
  <2> DEFINE h == rm.config.hosts[rm.next]
             n == Len(rm.queue)
             last == n + 1
  <2>1. /\ rm'.config = rm.config /\ rm'.inputs = rm.inputs
        /\ rm'.stage = rm.stage /\ rm'.queue = Append(rm.queue, h)
        /\ rm'.worker = rm.worker /\ rm'.loop = rm.loop
        /\ rm.loop["redfish"] = "distribute" /\ rm'.next = rm.next + 1
    BY <1>0 DEF Distribute
  <2>2. Made'
    BY <1>0, <2>1, MadeRests
  <2> DEFINE room == Cardinality(Pool)
  <2>30. Pool # {}
    <3>1. n \in Nat /\ n < room
      BY <1>0 DEF Distribute
    <3> HIDE DEF room, n
    <3>2. room # 0
      BY <3>1
    <3> QED BY ONLY <3>2, FS_EmptySet DEF room
  <2>3. Rounds'
    BY <1>0, <2>1, <2>30 DEF Rounds, Pool
  <2>4. rm.next \in DOMAIN rm.config.hosts /\ rm.next \in Nat \ {0}
    BY <1>0, ConfigParts DEF Distribute
  <2>5. Accepted(rm.config.hosts)
    BY <1>0, <1>3, <2>1 DEF Made
  <2>6. ~Handed(h, rm)
    BY <2>4, <2>5 DEF Accepted, Handed
  <2>7. \A x : Handed(x, rm) => Handed(x, rm')
    BY <2>1, <2>4 DEF Handed
  <2>8. Handed(h, rm')
    BY <2>1, <2>4 DEF Handed
  <2>9. rm.queue \in Seq(Host)
    BY <1>0
  <2> HIDE DEF h
  <2>10. /\ n \in Nat /\ last = n + 1
         /\ DOMAIN rm.queue = 1..n /\ DOMAIN rm'.queue = 1..last
         /\ \A k \in 1..n : rm'.queue[k] = rm.queue[k]
         /\ rm'.queue[last] = h
    BY <2>1, <2>9
  <2>11. \A k \in 1..last : k = last \/ k \in 1..n
    BY <2>9
  <2> HIDE DEF n, last
  <2>12. \A k \in 1..n : rm.queue[k] # h
    BY <1>0, <2>6, <2>10 DEF Shares
  <2>13. \A k \in DOMAIN rm'.queue : Handed(rm'.queue[k], rm')
    BY <1>0, <2>7, <2>8, <2>10, <2>11 DEF Shares
  <2>14. \A w \in Pool' : Busy(w)' => Handed(rm'.worker[w].at, rm')
    BY <1>0, <2>1, <2>7 DEF Shares, Busy, Pool
  <2>15. \A k, l \in DOMAIN rm'.queue : rm'.queue[k] = rm'.queue[l] => k = l
    BY <1>0, <2>10, <2>11, <2>12 DEF Shares
  <2>16. Shares'
    BY <2>13, <2>14, <2>15 DEF Shares
  <2>17. OneWorkerPerHost'
    BY <1>0, <2>1, <2>6, <2>10, <2>11 DEF OneWorkerPerHost, Shares, Busy, Pool
  <2> QED BY <2>2, <2>3, <2>16, <2>17
<1>10. DistributionStops => Inv
  <2> SUFFICES ASSUME DistributionStops PROVE Inv
    OBVIOUS
  <2>1. /\ rm'.config = rm.config /\ rm'.inputs = rm.inputs
        /\ rm'.stage = rm.stage /\ rm'.queue = <<>>
        /\ rm'.worker = rm.worker /\ rm'.next = rm.next
        /\ rm.loop["redfish"] = "distribute"
        /\ rm'.loop = [rm.loop EXCEPT !["redfish"] = "waiting"]
    BY <1>0, <1>3 DEF DistributionStops
  <2>2. Made'
    BY <1>0, <1>3, <1>4, <2>1, LoopMoves
  <2>3. rm'.loop["redfish"] = "waiting"
    BY <1>0, <1>3, <2>1
  <2>4. Rounds'
    BY <2>1, <2>3 DEF Rounds
  <2>5. Shares'
    BY <1>0, <2>1 DEF Shares, Busy, Handed, Pool
  <2>6. OneWorkerPerHost'
    BY <1>0, <2>1 DEF OneWorkerPerHost, Pool
  <2> QED BY <2>2, <2>4, <2>5, <2>6
<1>11. Distributed => Inv
  <2> SUFFICES ASSUME Distributed PROVE Inv
    OBVIOUS
  <2>1. /\ rm'.config = rm.config /\ rm'.inputs = rm.inputs
        /\ rm'.stage = rm.stage /\ rm'.queue = rm.queue
        /\ rm'.worker = rm.worker /\ rm'.next = rm.next
        /\ rm.loop["redfish"] = "distribute"
        /\ rm'.loop = [rm.loop EXCEPT !["redfish"] = "waiting"]
    BY <1>0, <1>3 DEF Distributed
  <2>2. Made'
    BY <1>0, <1>3, <1>4, <2>1, LoopMoves
  <2>3. rm'.loop["redfish"] = "waiting"
    BY <1>0, <1>3, <2>1
  <2>4. Rounds'
    BY <1>0, <2>1, <2>3 DEF Rounds, Pool
  <2>5. Shares'
    BY <1>0, <2>1 DEF Shares, Busy, Handed, Pool
  <2>6. OneWorkerPerHost'
    BY <1>0, <2>1 DEF OneWorkerPerHost, Pool
  <2> QED BY <2>2, <2>4, <2>5, <2>6
<1>12. RoundEnds => Inv
  <2> SUFFICES ASSUME RoundEnds PROVE Inv
    OBVIOUS
  <2>1. /\ rm'.config = rm.config /\ rm'.inputs = rm.inputs
        /\ rm'.stage = rm.stage /\ rm'.queue = rm.queue
        /\ rm'.worker = rm.worker /\ rm'.next = rm.next
        /\ rm.loop["redfish"] = "waiting"
        /\ rm'.loop = [rm.loop EXCEPT !["redfish"] = "ticker"]
    BY <1>0, <1>3 DEF RoundEnds
  <2>2. Made'
    BY <1>0, <1>3, <1>4, <2>1, LoopMoves
  <2>3. rm'.loop["redfish"] = "ticker"
    BY <1>0, <1>3, <2>1
  <2>6. \A w \in Pool : rm.worker[w] = Gone
    BY DEF RoundEnds
  <2>7. rm.queue = <<>>
    BY <1>0, <2>1, <2>6 DEF Rounds
  <2>8. Rounds'
    BY <2>1, <2>3, <2>6, <2>7 DEF Rounds, Pool
  <2>9. Shares'
    BY <1>0, <2>1 DEF Shares, Busy, Handed, Pool
  <2>10. OneWorkerPerHost'
    BY <1>0, <2>1 DEF OneWorkerPerHost, Pool
  <2> QED BY <2>2, <2>8, <2>9, <2>10
<1>13. RunSensors => Inv
  <2> SUFFICES ASSUME RunSensors PROVE Inv
    OBVIOUS
  <2>1. /\ rm'.config = rm.config /\ rm'.inputs = rm.inputs
        /\ rm'.stage = rm.stage /\ rm'.queue = rm.queue
        /\ rm'.worker = rm.worker /\ rm'.next = rm.next
        /\ rm.loop["ipmi"] = "round"
        /\ rm'.loop = [rm.loop EXCEPT !["ipmi"] = "scan"]
    BY <1>0, <1>3 DEF RunSensors
  <2>2. Made'
    BY <1>0, <1>3, <1>4, <2>1, LoopMoves
  <2>3. rm'.loop["redfish"] = rm.loop["redfish"]
    BY <1>0, <1>3, <2>1
  <2> QED BY <1>0, <2>1, <2>2, <2>3, PoolRests
<1>14. ScanLine => Inv
  <2> SUFFICES ASSUME ScanLine PROVE Inv
    OBVIOUS
  <2>1. /\ rm'.config = rm.config /\ rm'.inputs = rm.inputs
        /\ rm'.stage = rm.stage /\ rm'.queue = rm.queue
        /\ rm'.worker = rm.worker /\ rm'.next = rm.next
        /\ rm'.loop = rm.loop
    BY <1>0 DEF ScanLine
  <2> QED BY <1>0, <2>1, MadeRests, PoolRests
<1>15. ScanEnds => Inv
  <2> SUFFICES ASSUME ScanEnds PROVE Inv
    OBVIOUS
  <2>1. /\ rm'.config = rm.config /\ rm'.inputs = rm.inputs
        /\ rm'.stage = rm.stage /\ rm'.queue = rm.queue
        /\ rm'.worker = rm.worker /\ rm'.next = rm.next
        /\ rm.loop["ipmi"] = "scan"
        /\ rm'.loop = [rm.loop EXCEPT !["ipmi"] = "ticker"]
    BY <1>0, <1>3 DEF ScanEnds
  <2>2. Made'
    BY <1>0, <1>3, <1>4, <2>1, LoopMoves
  <2>3. rm'.loop["redfish"] = rm.loop["redfish"]
    BY <1>0, <1>3, <2>1
  <2> QED BY <1>0, <2>1, <2>2, <2>3, PoolRests
<1>16. ASSUME NEW r \in Receiver, AddInput(r) PROVE Inv
  <2>1. /\ rm'.config = rm.config /\ rm'.inputs = Append(rm.inputs, r)
        /\ rm'.stage = rm.stage /\ rm'.queue = rm.queue
        /\ rm'.worker = rm.worker /\ rm'.next = rm.next
        /\ rm'.loop = rm.loop
        /\ rm.stage \in {"setup", "wired"}
        /\ r = "redfish" => Accepted(rm.config.hosts)
    BY <1>0, <1>16 DEF AddInput
  <2>2. rm.inputs \in Seq(Receiver)
    BY <1>0
  <2>3. \A q : IsInput(q)' <=> IsInput(q) \/ q = r
    BY <2>1, <2>2 DEF IsInput
  <2>4. Made'
    BY <1>0, <2>1, <2>3 DEF Made
  <2> QED BY <1>0, <2>1, <2>4, PoolRests
<1>17. ASSUME NEW r \in Receiver, Tick(r) PROVE Inv
  <2>1. /\ rm'.config = rm.config /\ rm'.inputs = rm.inputs
        /\ rm'.stage = rm.stage /\ rm'.queue = rm.queue
        /\ rm'.worker = rm.worker /\ rm'.next = rm.next
        /\ rm.loop[r] = "ticker"
        /\ rm'.loop = [rm.loop EXCEPT ![r] = "round"]
    BY <1>0, <1>17 DEF Tick
  <2>2. Made'
    BY <1>0, <1>4, <2>1, LoopMoves
  <2>3. rm'.loop["redfish"] = IF r = "redfish" THEN "round" ELSE rm.loop["redfish"]
    BY <1>0, <1>3, <2>1
  <2> QED BY <1>0, <2>1, <2>2, <2>3, PoolRests
<1>18. ASSUME NEW r \in Receiver, End(r) PROVE Inv
  <2>1. /\ rm'.config = rm.config /\ rm'.inputs = rm.inputs
        /\ rm'.stage = rm.stage /\ rm'.queue = rm.queue
        /\ rm'.worker = rm.worker /\ rm'.next = rm.next
        /\ rm.loop[r] = "ticker"
        /\ rm'.loop = [rm.loop EXCEPT ![r] = "ended"]
    BY <1>0, <1>18 DEF End
  <2>2. Made'
    BY <1>0, <1>4, <2>1, LoopMoves
  <2>3. rm'.loop["redfish"] = IF r = "redfish" THEN "ended" ELSE rm.loop["redfish"]
    BY <1>0, <1>3, <2>1
  <2> QED BY <1>0, <2>1, <2>2, <2>3, PoolRests
<1>19. ASSUME NEW k \in 1..2, CloseReceiver(k) PROVE Inv
  <2>1. /\ rm'.config = rm.config /\ rm'.inputs = rm.inputs
        /\ rm'.stage = rm.stage /\ rm'.queue = rm.queue
        /\ rm'.worker = rm.worker /\ rm'.next = rm.next
        /\ rm'.loop = rm.loop
    BY <1>0, <1>19 DEF CloseReceiver
  <2> QED BY <1>0, <2>1, MadeRests, PoolRests
<1>20. ASSUME NEW w \in Pool, Take(w) PROVE Inv
  <2> DEFINE h == Head(rm.queue)
             n == Len(rm.queue)
  <2>1. PICK left \in 0..rm.config.readings :
          rm' = [rm EXCEPT !.worker[w] = [at |-> h, left |-> left],
                           !.polled = @ \cup {h}, !.queue = Tail(@)]
    BY <1>20 DEF Take
  <2> DEFINE e == [at |-> h, left |-> left]
  <2>2. /\ rm'.config = rm.config /\ rm'.inputs = rm.inputs
        /\ rm'.stage = rm.stage /\ rm'.queue = Tail(rm.queue)
        /\ rm'.worker = [rm.worker EXCEPT ![w] = e]
        /\ rm'.next = rm.next /\ rm'.loop = rm.loop
    BY <1>0, <2>1
  <2>3. rm.queue \in Seq(Host) /\ rm.queue # <<>> /\ rm.worker[w] = Idle
    BY <1>0, <1>20 DEF Take
  <2>4. /\ n \in Nat \ {0} /\ DOMAIN rm.queue = 1..n
        /\ DOMAIN rm'.queue = 1..(n - 1) /\ h = rm.queue[1] /\ h \in Host
        /\ \A k \in 1..(n - 1) : rm'.queue[k] = rm.queue[k + 1]
    BY <2>2, <2>3
  <2>5. Pool' = Pool /\ \A v \in Pool : rm'.worker[v] = IF v = w THEN e ELSE rm.worker[v]
    BY <1>0, <2>2 DEF Pool
  <2>6. e.at = h /\ e # Gone
    BY <2>4 DEF Gone, Host
  <2>7. \A v \in Pool : Busy(v) <=> rm.worker[v].at \in Host
    BY <1>0, WorkerHost DEF Busy, Pool
  <2> HIDE DEF h, n, e
  <2>8. Made'
    BY <1>0, <2>2, MadeRests
  <2>9. Idle # Gone
    BY DEF Idle, Gone
  <2>10. Rounds'
    BY <1>0, <2>2, <2>3, <2>5, <2>6, <2>9 DEF Rounds
  <2>11. \A x : Handed(x, rm') = Handed(x, rm)
    BY <2>2 DEF Handed
  <2> HIDE DEF RmType, Managers
  <2>12. ASSUME NEW k \in 1..(n - 1)
         PROVE  k + 1 \in DOMAIN rm.queue /\ rm'.queue[k] = rm.queue[k + 1]
                /\ k + 1 # 1 /\ k \in Nat
    BY <2>4
  <2>13. 1 \in DOMAIN rm.queue
    BY <2>4
  <2>14. ASSUME NEW k \in DOMAIN rm'.queue PROVE rm'.queue[k] # h
    <3>1. rm.queue[k + 1] # rm.queue[1]
      BY <1>0, <2>4, <2>12, <2>13 DEF Shares
    <3> QED BY <2>4, <2>12, <3>1
  <2>15. ASSUME NEW k \in DOMAIN rm'.queue, NEW l \in DOMAIN rm'.queue,
                rm'.queue[k] = rm'.queue[l]
         PROVE  k = l
    <3>1. rm.queue[k + 1] = rm.queue[l + 1]
      BY <2>4, <2>12, <2>15
    <3>2. k + 1 = l + 1
      BY <1>0, <2>4, <2>12, <3>1 DEF Shares
    <3> QED BY <2>4, <2>12, <3>2
  <2>16. \A k \in DOMAIN rm'.queue : Handed(rm'.queue[k], rm')
    BY <1>0, <2>4, <2>11, <2>12 DEF Shares
  <2>17. \A v \in Pool' : Busy(v)' => Handed(rm'.worker[v].at, rm')
    BY <1>0, <2>4, <2>5, <2>6, <2>11, <2>13 DEF Shares, Busy
  <2>18. Shares'
    BY <2>15, <2>16, <2>17 DEF Shares
  <2>19. \A v \in Pool : Busy(v) => rm.worker[v].at # h
    BY <1>0, <2>4, <2>13 DEF OneWorkerPerHost, Busy
  <2>20. \A v \in Pool : v # w => rm'.worker[v].at # h
    BY <2>4, <2>5, <2>7, <2>19
  <2>21. ASSUME NEW v \in Pool, Busy(v), NEW k \in DOMAIN rm'.queue
         PROVE  rm'.queue[k] # rm.worker[v].at
    <3>1. \A l \in DOMAIN rm.queue : rm.queue[l] # rm.worker[v].at
      BY <1>0, <2>21 DEF OneWorkerPerHost, Busy
    <3> QED BY <2>4, <2>12, <2>21, <3>1
  <2>22. ASSUME NEW v \in Pool, NEW u \in Pool, Busy(v)',
                rm'.worker[u].at = rm'.worker[v].at
         PROVE  u = v
    BY <1>0, <2>5, <2>6, <2>20, <2>22 DEF OneWorkerPerHost, Busy
  <2>23. ASSUME NEW v \in Pool, Busy(v)', NEW k \in DOMAIN rm'.queue
         PROVE  rm'.queue[k] # rm'.worker[v].at
    BY <2>5, <2>6, <2>14, <2>21, <2>23 DEF Busy
  <2>24. OneWorkerPerHost'
    BY <2>5, <2>22, <2>23 DEF OneWorkerPerHost, Busy
  <2> QED BY <2>8, <2>10, <2>18, <2>24
<1>21. ASSUME NEW w \in Pool, SendReading(w) PROVE Inv
  <2> DEFINE e == [rm.worker[w] EXCEPT !.left = @ - 1]
  <2>1. /\ rm'.config = rm.config /\ rm'.inputs = rm.inputs
        /\ rm'.stage = rm.stage /\ rm'.queue = rm.queue
        /\ rm'.worker = [rm.worker EXCEPT ![w] = e]
        /\ rm'.next = rm.next /\ rm'.loop = rm.loop
    BY <1>0, <1>21 DEF SendReading
  <2>2. rm.worker[w] \in WorkerState /\ rm.worker[w].left > 0
    BY <1>0, <1>21 DEF SendReading, Pool
  <2>3. Busy(w) /\ e.at = rm.worker[w].at
    BY <2>2 DEF Busy, WorkerState, Idle, Gone
  <2>4. e # Gone
    BY <2>2, <2>3, WorkerHost DEF Busy, Gone, Host
  <2> HIDE DEF e
  <2>5. Shares' /\ OneWorkerPerHost'
    BY <1>0, <2>1, <2>3, WorkerMoves
  <2>6. Rounds'
    BY <1>0, <2>1, <2>3, <2>4 DEF Rounds, Pool, Busy
  <2>7. Made'
    BY <1>0, <2>1, MadeRests
  <2> QED BY <2>5, <2>6, <2>7
<1>22. ASSUME NEW w \in Pool, NextClient(w) PROVE Inv
  <2>1. /\ rm'.config = rm.config /\ rm'.inputs = rm.inputs
        /\ rm'.stage = rm.stage /\ rm'.queue = rm.queue
        /\ rm'.worker = [rm.worker EXCEPT ![w] = Idle]
        /\ rm'.next = rm.next /\ rm'.loop = rm.loop
    BY <1>0, <1>22 DEF NextClient
  <2>2. rm.worker[w] # Gone /\ Idle # Gone
    BY <1>22 DEF NextClient, Idle, Gone
  <2>3. Shares' /\ OneWorkerPerHost'
    BY <1>0, <2>1, WorkerMoves
  <2>4. Rounds'
    BY <1>0, <2>1, <2>2 DEF Rounds, Pool
  <2>5. Made'
    BY <1>0, <2>1, MadeRests
  <2> QED BY <2>3, <2>4, <2>5
<1>23. ASSUME NEW w \in Pool, WorkerEnds(w) PROVE Inv
  <2>1. /\ rm'.config = rm.config /\ rm'.inputs = rm.inputs
        /\ rm'.stage = rm.stage /\ rm'.queue = rm.queue
        /\ rm'.worker = [rm.worker EXCEPT ![w] = Gone]
        /\ rm'.next = rm.next /\ rm'.loop = rm.loop
        /\ rm.queue = <<>> /\ rm.loop["redfish"] = "waiting"
    BY <1>0, <1>23 DEF WorkerEnds
  <2>2. Shares' /\ OneWorkerPerHost'
    BY <1>0, <2>1, WorkerMoves
  <2>3. Rounds'
    BY <2>1 DEF Rounds
  <2>4. Made'
    BY <1>0, <2>1, MadeRests
  <2> QED BY <2>2, <2>3, <2>4
<1>25. PoolPanics => Inv
  <2> SUFFICES ASSUME PoolPanics PROVE Inv
    OBVIOUS
  <2>1. /\ rm'.config = rm.config /\ rm'.inputs = rm.inputs
        /\ rm'.stage = rm.stage /\ rm'.queue = rm.queue
        /\ rm'.worker = rm.worker /\ rm'.next = rm.next
        /\ rm.loop["redfish"] = "round"
        /\ rm'.loop = [rm.loop EXCEPT !["redfish"] = "panicked"]
    BY <1>0, <1>3 DEF PoolPanics
  <2>2. Made'
    BY <1>0, <1>3, <1>4, <2>1, LoopMoves
  <2>3. rm'.loop["redfish"] = "panicked"
    BY <1>0, <1>3, <2>1
  <2> QED BY <1>0, <2>1, <2>2, <2>3, PoolRests
<1>26. ASSUME NEW w \in Pool, ReadingPanics(w) PROVE Inv
  <2>1. /\ rm'.config = rm.config /\ rm'.inputs = rm.inputs
        /\ rm'.stage = rm.stage /\ rm'.queue = rm.queue
        /\ rm'.worker = rm.worker /\ rm'.next = rm.next
        /\ rm'.loop = [rm.loop EXCEPT !["redfish"] = "panicked"]
        /\ rm.worker[w] # Gone
    BY <1>0, <1>3, <1>26 DEF ReadingPanics
  <2>2. rm.loop["redfish"] \notin {"created", "ended"}
    BY <1>0, <2>1 DEF Rounds
  <2>3. Made'
    BY <1>0, <1>3, <1>4, <2>1, <2>2, LoopMoves
  <2>4. rm'.loop["redfish"] = "panicked"
    BY <1>0, <1>3, <2>1
  <2> QED BY <1>0, <2>1, <2>3, <2>4, PoolRests
<1> HIDE DEF RmType, Managers
<1>24. Inv
  <2> HIDE DEF Inv
  <2> QED BY <1>2, <1>5, <1>6, <1>7, <1>8, <1>9, <1>10, <1>11, <1>12, <1>13,
             <1>14, <1>15, <1>16, <1>17, <1>18, <1>19, <1>20, <1>21, <1>22,
             <1>23, <1>25, <1>26, ReceiversSteps
<1> QED BY <1>0, <1>24 DEF ReceiversInv
-----------------------------------------------------------------------------
(* The inductive invariant of the receivers. *)
THEOREM ReceiversInvHolds == ReceiversSpec => []ReceiversInv
BY InitReceivers, NextReceivers, PTL DEF ReceiversSpec

(* The parts of the manager and its receivers keep their types. *)
THEOREM RmTypeHolds == ReceiversSpec => []RmType
<1>1. ReceiversInv => RmType
  BY DEF ReceiversInv
<1> QED BY <1>1, ReceiversInvHolds, PTL

(* No two workers have the same host, and none has one that waits in the   *)
(* channel, for any list of hosts and any fanout.                          *)
THEOREM HostsAreNotShared == ReceiversSpec => []OneWorkerPerHost
<1>1. ReceiversInv => OneWorkerPerHost
  BY DEF ReceiversInv
<1> QED BY <1>1, ReceiversInvHolds, PTL

(* After Close of the receive manager nothing is sent. *)
THEOREM NothingSentAfterClose == ReceiversSpec => ClosedReceiversAreQuiet
<1> DEFINE Quiet == rm.stage = "closed" => sent' = sent
<1>1. ReceiversInv /\ [ReceiversNext]_allVars => [Quiet]_allVars
  <2> SUFFICES ASSUME ReceiversInv, [ReceiversNext]_allVars PROVE Quiet
    OBVIOUS
  <2>1. rm.stage = "closed" => \A r \in Receiver : rm.loop[r] \in {"created", "ended"}
    BY DEF ReceiversInv, Made
  <2>2. "redfish" \in Receiver /\ "ipmi" \in Receiver
    BY DEF Receiver
  <2>3. ManagerStep => Quiet
    BY DEF ManagerStep, Start, Close, SelectDone, CloseReturns, Loop, SelectInput,
       Write, Forward, IterationEnds, CloseSink, CloseDone
  <2>4. UNCHANGED allVars => Quiet
    BY DEF allVars, vars
  <2>5. UNCHANGED vars => Quiet
    BY DEF vars
  <2>6. ScanLine => Quiet
    BY <2>1, <2>2 DEF ScanLine
  <2>7. ASSUME NEW w \in Pool, SendReading(w) PROVE Quiet
    <3>1. rm.worker[w].left > 0 /\ rm.worker[w] \in WorkerState
      BY <2>7 DEF SendReading, ReceiversInv, RmType, Managers, Pool
    <3>2. rm.worker[w] # Gone
      BY <3>1 DEF Gone
    <3>3. rm.loop["redfish"] \in {"distribute", "waiting", "panicked"}
      BY <3>2 DEF ReceiversInv, Rounds
    <3> QED BY <2>1, <2>2, <3>3
  <2> HIDE DEF Quiet
  <2> QED
    BY <2>3, <2>4, <2>5, <2>6, <2>7, ReceiversSteps
       DEF AddOutput, StartReceivers, ReceiversClosed, StartWorkers, PoolPanics, Distribute,
           DistributionStops, Distributed, RoundEnds, RunSensors, ScanEnds,
           AddInput, Tick, End, CloseReceiver, Take, ReadingPanics, NextClient, WorkerEnds
<1> QED
  BY <1>1, ReceiversInvHolds, PTL DEF ReceiversSpec, ClosedReceiversAreQuiet

(* Who had a turn has it from the list; and unless the round is cut short, *)
(* who was put into the channel had a turn or waits there, and the whole   *)
(* list was put into it when the channel is closed.                        *)
Waits(h, m) == \E k \in DOMAIN m.queue : m.queue[k] = h
Turns ==
  /\ \A h \in rm.polled : Handed(h, rm)
  /\ \/ "redfish" \in rm.done
     \/ rm.loop["redfish"] \notin {"distribute", "waiting"}
     \/ \A h : Handed(h, rm) => h \in rm.polled \/ Waits(h, rm)
  /\ \/ "redfish" \in rm.done
     \/ rm.loop["redfish"] # "waiting"
     \/ rm.next > Len(rm.config.hosts)

(* Steps that are not about the clients leave them alone. *)
LEMMA TurnsRest ==
  ASSUME Turns, rm'.config = rm.config, rm'.next = rm.next, rm'.queue = rm.queue,
         rm'.polled = rm.polled, rm.done \subseteq rm'.done,
         \/ rm'.loop["redfish"] = rm.loop["redfish"]
         \/ rm'.loop["redfish"] \notin {"distribute", "waiting"}
  PROVE  Turns'
BY DEF Turns, Handed, Waits

(* Every step keeps the turns. *)
LEMMA NextTurns == ReceiversInv /\ Turns /\ [ReceiversNext]_allVars => Turns'
<1> SUFFICES ASSUME ReceiversInv, Turns, [ReceiversNext]_allVars PROVE Turns'
  OBVIOUS
<1>0. /\ rm.config \in Config /\ rm \in Managers(rm.config)
      /\ rm' \in Managers(rm'.config) /\ Rounds
  BY NextRmType DEF ReceiversInv, RmType
<1> DEFINE Same == /\ rm'.config = rm.config /\ rm'.next = rm.next
                   /\ rm'.queue = rm.queue /\ rm'.polled = rm.polled
                   /\ rm.done \subseteq rm'.done
           Stays == Same /\ rm'.loop["redfish"] = rm.loop["redfish"]
           Leaves == Same /\ rm'.loop["redfish"] \notin {"distribute", "waiting"}
<1>1. "redfish" \in Receiver /\ "ipmi" \in Receiver
  BY DEF Receiver
<1>2. rm' = rm => Stays
  OBVIOUS
<1>3. ManagerStep \/ UNCHANGED allVars => Stays
  BY <1>2 DEF ManagerStep, allVars
<1> HIDE <1>2
<1>4. AddOutput \/ ReceiversClosed \/ ScanLine => Stays
  BY <1>0 DEF AddOutput, ReceiversClosed, ScanLine, Managers
<1>5. StartReceivers => Stays \/ Leaves
  <2> SUFFICES ASSUME StartReceivers PROVE Stays \/ Leaves
    OBVIOUS
  <2>1. Same
    BY <1>0 DEF StartReceivers, Managers
  <2>2. rm'.loop = [r \in Receiver |-> IF IsInput(r) THEN "round" ELSE rm.loop[r]]
    BY <1>0 DEF StartReceivers, Managers
  <2>3. rm'.loop["redfish"] \in {"round", rm.loop["redfish"]}
    BY <1>1, <2>2
  <2> QED BY <2>1, <2>3
<1>6. RunSensors \/ ScanEnds => Stays
  <2>1. RunSensors \/ ScanEnds => Same
    BY <1>0 DEF RunSensors, ScanEnds, Managers
  <2>2. RunSensors => rm'.loop = [rm.loop EXCEPT !["ipmi"] = "scan"]
    BY <1>0 DEF RunSensors, Managers
  <2>3. ScanEnds => rm'.loop = [rm.loop EXCEPT !["ipmi"] = "ticker"]
    BY <1>0 DEF ScanEnds, Managers
  <2>4. RunSensors \/ ScanEnds => rm'.loop["redfish"] = rm.loop["redfish"]
    BY <1>0, <1>1, <2>2, <2>3 DEF Managers
  <2> QED BY <2>1, <2>4
<1>7. PoolPanics \/ RoundEnds => Leaves
  <2>1. PoolPanics \/ RoundEnds => Same
    BY <1>0 DEF PoolPanics, RoundEnds, Managers
  <2>2. PoolPanics => rm'.loop = [rm.loop EXCEPT !["redfish"] = "panicked"]
    BY <1>0 DEF PoolPanics, Managers
  <2>3. RoundEnds => rm'.loop = [rm.loop EXCEPT !["redfish"] = "ticker"]
    BY <1>0 DEF RoundEnds, Managers
  <2>4. PoolPanics \/ RoundEnds => rm'.loop["redfish"] \in {"panicked", "ticker"}
    BY <1>0, <1>1, <2>2, <2>3 DEF Managers
  <2> QED BY <2>1, <2>4
<1>8. ASSUME NEW r \in Receiver, AddInput(r) PROVE Stays
  BY <1>8, <1>0 DEF AddInput, Managers
<1>9. ASSUME NEW r \in Receiver, Tick(r) \/ End(r) PROVE Stays \/ Leaves
  BY <1>9, <1>0, <1>1 DEF Tick, End, Managers
<1>10. ASSUME NEW k \in 1..2, CloseReceiver(k) PROVE Stays
  BY <1>10, <1>0 DEF CloseReceiver, Managers
<1>11. ASSUME NEW w \in Pool, SendReading(w) \/ NextClient(w) \/ WorkerEnds(w)
       PROVE  Stays
  BY <1>11, <1>0 DEF SendReading, NextClient, WorkerEnds, Managers
<1>18. ASSUME NEW w \in Pool, ReadingPanics(w) PROVE Leaves
  <2>1. rm'.loop = [rm.loop EXCEPT !["redfish"] = "panicked"]
    BY <1>18, <1>0 DEF ReadingPanics, Managers
  <2>2. rm'.loop["redfish"] = "panicked"
    BY <1>0, <1>1, <2>1 DEF Managers
  <2> QED BY <1>18, <1>0, <2>2 DEF ReadingPanics, Managers
<1>12. Stays \/ Leaves => Turns'
  BY TurnsRest
<1> HIDE DEF Stays, Leaves
<1>13. StartWorkers => Turns'
  <2> SUFFICES ASSUME StartWorkers PROVE Turns'
    OBVIOUS
  <2>1. /\ rm'.polled = {} /\ rm'.next = 1 /\ rm'.loop["redfish"] = "distribute"
    BY <1>0, <1>1 DEF StartWorkers, Managers
  <2>2. \A h : ~Handed(h, rm')
    BY <2>1 DEF Handed
  <2> QED BY <2>1, <2>2 DEF Turns
<1>14. Distribute => Turns'
  <2> SUFFICES ASSUME Distribute PROVE Turns'
    OBVIOUS
  <2> DEFINE h == rm.config.hosts[rm.next]
             n == Len(rm.queue)
  <2>1. /\ rm'.polled = rm.polled /\ rm'.next = rm.next + 1
        /\ rm'.queue = Append(rm.queue, h) /\ rm'.config = rm.config
        /\ rm'.done = rm.done /\ rm'.loop = rm.loop
        /\ rm.loop["redfish"] = "distribute"
    BY <1>0 DEF Distribute, Managers
  <2>2. rm.next \in Nat \ {0} /\ rm.queue \in Seq(Host)
    BY <1>0 DEF Managers
  <2> HIDE DEF h
  <2>3. /\ n \in Nat /\ n + 1 \in 1..(n + 1)
        /\ DOMAIN rm.queue = 1..n /\ DOMAIN rm'.queue = 1..(n + 1)
        /\ \A k \in 1..n : k \in 1..(n + 1) /\ rm'.queue[k] = rm.queue[k]
        /\ rm'.queue[n + 1] = h
    BY <2>1, <2>2
  <2> HIDE DEF n
  <2>4. \A x : Handed(x, rm) => Handed(x, rm')
    BY <2>1, <2>2 DEF Handed
  <2>5. \A x : Handed(x, rm') => Handed(x, rm) \/ x = h
    BY <2>1, <2>2 DEF Handed, h
  <2>6. \A x : Waits(x, rm) => Waits(x, rm')
    BY <2>3 DEF Waits
  <2>7. Waits(h, rm')
    BY <2>3 DEF Waits
  <2> QED BY <2>1, <2>4, <2>5, <2>6, <2>7 DEF Turns
<1>15. DistributionStops => Turns'
  <2> SUFFICES ASSUME DistributionStops PROVE Turns'
    OBVIOUS
  <2>1. /\ rm'.polled = rm.polled /\ rm'.next = rm.next /\ rm'.config = rm.config
        /\ rm'.done = rm.done /\ "redfish" \in rm.done
    BY <1>0 DEF DistributionStops, Managers
  <2> QED BY <2>1 DEF Turns, Handed
<1>16. Distributed => Turns'
  <2> SUFFICES ASSUME Distributed PROVE Turns'
    OBVIOUS
  <2>1. /\ rm'.polled = rm.polled /\ rm'.next = rm.next /\ rm'.config = rm.config
        /\ rm'.done = rm.done /\ rm'.queue = rm.queue
        /\ rm.loop["redfish"] = "distribute" /\ rm.next > Len(rm.config.hosts)
    BY <1>0 DEF Distributed, Managers
  <2> QED BY <2>1 DEF Turns, Handed, Waits
<1>17. ASSUME NEW w \in Pool, Take(w) PROVE Turns'
  <2> DEFINE h == Head(rm.queue)
  <2>1. /\ rm'.polled = rm.polled \cup {h} /\ rm'.next = rm.next
        /\ rm'.config = rm.config /\ rm'.queue = Tail(rm.queue)
        /\ rm'.done = rm.done /\ rm'.loop = rm.loop /\ rm.queue # <<>>
    BY <1>0, <1>17 DEF Take, Managers
  <2>2. rm.queue \in Seq(Host)
    BY <1>0 DEF Managers
  <2>3. /\ Len(rm.queue) \in Nat \ {0} /\ DOMAIN rm.queue = 1..Len(rm.queue)
        /\ DOMAIN rm'.queue = 1..(Len(rm.queue) - 1) /\ h = rm.queue[1]
        /\ \A k \in 2..Len(rm.queue) : rm'.queue[k - 1] = rm.queue[k]
    BY <2>1, <2>2
  <2>4. \A x : Handed(x, rm') = Handed(x, rm)
    BY <2>1 DEF Handed
  <2>5. Handed(h, rm)
    BY <2>3 DEF ReceiversInv, Shares
  <2> HIDE DEF h
  <2>6. ASSUME NEW x, Waits(x, rm), x # h PROVE Waits(x, rm')
    <3>1. PICK k \in 1..Len(rm.queue) : rm.queue[k] = x
      BY <2>3, <2>6 DEF Waits
    <3>2. k - 1 \in 1..(Len(rm.queue) - 1) /\ k \in 2..Len(rm.queue)
      BY <2>3, <2>6, <3>1
    <3> QED BY <2>3, <3>1, <3>2 DEF Waits
  <2> QED BY <2>1, <2>4, <2>5, <2>6 DEF Turns
<1> QED
  BY <1>3, <1>4, <1>5, <1>6, <1>7, <1>8, <1>9, <1>10, <1>11, <1>12, <1>13, <1>14,
     <1>15, <1>16, <1>17, <1>18, ReceiversSteps

(* A round that is not cut short ends when every host of the list was with *)
(* a worker, for any list and any fanout.                                  *)
THEOREM RoundsPollAll == ReceiversSpec => EveryHostIsPolled
<1> DEFINE All == rm.loop["redfish"] = "waiting" /\ rm'.loop["redfish"] = "ticker"
                    => "redfish" \in rm.done \/ rm.polled = Hosts(rm.config)
<1>1. ReceiversInit => Turns
  <2> SUFFICES ASSUME ReceiversInit PROVE Turns
    OBVIOUS
  <2>1. rm.polled = {} /\ rm.loop = [r \in Receiver |-> "created"]
    BY DEF ReceiversInit
  <2>2. rm.loop["redfish"] = "created"
    BY <2>1 DEF Receiver
  <2> QED BY <2>1, <2>2 DEF Turns
<1>2. ReceiversInv /\ Turns /\ [ReceiversNext]_allVars => [All]_allVars
  <2> SUFFICES ASSUME ReceiversInv, Turns, [ReceiversNext]_allVars,
                      rm.loop["redfish"] = "waiting",
                      rm'.loop["redfish"] = "ticker", "redfish" \notin rm.done
               PROVE  rm.polled = Hosts(rm.config)
    OBVIOUS
  <2>0. rm.config \in Config /\ rm \in Managers(rm.config) /\ Rounds
    BY DEF ReceiversInv, RmType
  <2>1. Len(rm.config.hosts) \in Nat /\ DOMAIN rm.config.hosts = 1..Len(rm.config.hosts)
    BY <2>0, ConfigParts
  <2>2. rm.next \in Nat /\ rm.next > Len(rm.config.hosts)
    BY <2>0 DEF Turns, Managers
  <2>3. rm.queue = <<>>
    <3> DEFINE G == rm.queue = <<>>
    <3>1. (\A w \in Pool : rm.worker[w] = Gone) => G
      BY <2>0 DEF Rounds
    <3>2. "redfish" \in Receiver /\ "ipmi" \in Receiver
      BY DEF Receiver
    <3>3. RoundEnds => G
      BY <3>1 DEF RoundEnds
    <3>4. rm'.loop = rm.loop => G
      OBVIOUS
    <3>5. ManagerStep \/ UNCHANGED allVars => G
      BY <3>4 DEF ManagerStep, allVars
    <3>6. AddOutput \/ ReceiversClosed \/ ScanLine => G
      BY <2>0, <3>4 DEF AddOutput, ReceiversClosed, ScanLine, Managers
    <3>7. \A r \in Receiver : AddInput(r) => G
      BY <2>0, <3>4 DEF AddInput, Managers
    <3>8. \A k \in 1..2 : CloseReceiver(k) => G
      BY <2>0, <3>4 DEF CloseReceiver, Managers
    <3>9. \A w \in Pool : Take(w) \/ SendReading(w) \/ NextClient(w) \/ WorkerEnds(w) => G
      BY <2>0, <3>4 DEF Take, SendReading, NextClient, WorkerEnds, Managers
    <3>10. RunSensors \/ ScanEnds => G
      BY <2>0, <3>2 DEF RunSensors, ScanEnds, Managers
    <3>11. StartReceivers => G
      BY <2>0, <3>2 DEF StartReceivers, Managers
    <3>15. \A w \in Pool : ReadingPanics(w) => G
      BY <2>0, <3>2 DEF ReadingPanics, Managers
    <3>12. \A r \in Receiver : Tick(r) \/ End(r) => G
      BY <2>0, <3>2 DEF Tick, End, Managers
    <3>13. StartWorkers \/ PoolPanics \/ Distribute \/ DistributionStops \/ Distributed => G
      BY <2>0, <3>2
         DEF StartWorkers, PoolPanics, Distribute, DistributionStops, Distributed, Managers
    <3> HIDE DEF G
    <3>14. G
      BY <3>3, <3>5, <3>6, <3>7, <3>8, <3>9, <3>10, <3>11, <3>12, <3>13,
         <3>15, ReceiversSteps
    <3> QED BY <3>14 DEF G
  <2>4. \A h : ~Waits(h, rm)
    BY <2>3 DEF Waits
  <2>5. \A h \in Hosts(rm.config) : Handed(h, rm)
    BY <2>1, <2>2 DEF Hosts, Handed
  <2>6. Hosts(rm.config) \subseteq rm.polled
    BY <2>4, <2>5 DEF Turns
  <2>7. rm.polled \subseteq Hosts(rm.config)
    BY DEF Turns, Handed, Hosts
  <2> QED BY <2>6, <2>7
<1> QED
  BY <1>1, <1>2, NextTurns, ReceiversInvHolds, PTL DEF ReceiversSpec, EveryHostIsPolled

(* With the receivers in front of it the sink manager does nothing that it *)
(* could not do on its own: they only decide when messages are sent.       *)
THEOREM ReceiversKeepSinkManager == ReceiversSpec => Spec
<1>1. ReceiversInit => Init
  BY DEF ReceiversInit
<1>2. [ReceiversNext]_allVars => [Next]_vars
  <2> SUFFICES ASSUME [ReceiversNext]_allVars PROVE [Next]_vars
    OBVIOUS
  <2>1. ManagerStep => [Next]_vars
    BY DEF ManagerStep, Next
  <2>2. UNCHANGED allVars => [Next]_vars
    BY DEF allVars
  <2>3. UNCHANGED vars => [Next]_vars
    OBVIOUS
  <2>4. Produce => [Next]_vars
    BY DEF Next
  <2> DEFINE P == [Next]_vars
  <2> HIDE DEF P
  <2>5. ReceiversNext \/ UNCHANGED allVars => P
    BY <2>1, <2>2, <2>3, <2>4, ReceiversSteps
       DEF P, AddOutput, StartReceivers, ReceiversClosed, StartWorkers, PoolPanics, Distribute,
           DistributionStops, Distributed, RoundEnds, RunSensors, ScanLine,
           ScanEnds, AddInput, Tick, End, CloseReceiver, Take, SendReading,
           ReadingPanics, NextClient, WorkerEnds
  <2> QED BY <2>5 DEF P
<1> QED
  BY <1>1, <1>2, PTL DEF ReceiversSpec, Spec

(* Hence every sink gets every message that a receiver sends, in order. *)
THEOREM ReadingsReachEverySink == ReceiversSpec => []EverySinkGetsEveryMessage
BY ReceiversKeepSinkManager, NoMessageIsMissed, PTL

(* And no sink is written to once it is closed, while receivers send.      *)
THEOREM ReadingsStopAtClose == ReceiversSpec => ClosedSinksAreQuiet
BY ReceiversKeepSinkManager, NoWriteAfterClose, PTL
=============================================================================
