-------------------------- MODULE HttpSinkProofs --------------------------
(***************************************************************************)
(* Proofs about HttpSink for every set of callback goroutines, every       *)
(* MaxRetries and every number of messages.                                *)
(***************************************************************************)
EXTENDS HttpSinkProps, TLAPS

(* Where the goroutines can be, and that only a goroutine in "send" has a  *)
(* batch.                                                                  *)
Places ==
  /\ pc[Manager] # "unlock"
  /\ \A c \in Callback : pc[c] \in {"idle", "flush", "send", "unlock"}
  /\ \A g \in Goroutine : buf[g] # {} <=> pc[g] = "send"
  /\ closing => pc[Manager] \in {"flush", "send", "closed"}
  /\ pc[Manager] = "closed" => closing
  /\ closing /\ pc[Manager] # "flush" => encoder = {}

(* Messages that have not been written yet are nowhere. *)
Unwritten ==
  \A m \in Message :
    m \in encoder \cup delivered \cup reported \cup UNION {buf[g] : g \in Goroutine}
      => m <= written

SinkInv == TypeOK /\ Places /\ TimerLockOwned /\ Unwritten /\ OneBatchPerMessage

USE DEF Goroutine, Message

(* The steps of Next, each with its goroutine. *)
LEMMA Steps ==
  ASSUME [Next]_vars,
         NEW P,
         Write => P, WriteFlushes => P, WriteArms => P, WriteFindsTimer => P,
         Flush => P, Close => P, UNCHANGED vars => P,
         ASSUME NEW g \in Goroutine, FlushTakes(g) PROVE P,
         ASSUME NEW g \in Goroutine, Post(g) PROVE P,
         ASSUME NEW g \in Goroutine, GiveUp(g) PROVE P,
         ASSUME NEW c \in Callback, Fire(c) PROVE P,
         ASSUME NEW c \in Callback, Unlock(c) PROVE P
  PROVE  P
BY DEF Next, WriteEnds, Sending, Finished

(* No step of Write, Flush, Close or a callback breaks a type.             *)
LEMMA Typing == TypeOK /\ Places /\ [Next]_vars => TypeOK'
<1> SUFFICES ASSUME TypeOK, Places, [Next]_vars PROVE TypeOK'
  OBVIOUS
<1> USE DEF TypeOK, Timer, GoTo
<1>1. Write => TypeOK'
  <2> SUFFICES ASSUME Write PROVE TypeOK'
    OBVIOUS
  <2>1. written' \in 0..MaxWrites /\ written + 1 \in 1..MaxWrites
    BY NumberAssumption DEF Write, WriteEncodes, WriteDrops
  <2> QED
    BY <2>1 DEF Write, WriteEncodes, WriteDrops, Location
<1>2. WriteFlushes => TypeOK'
  BY DEF WriteFlushes, Location
<1>3. WriteArms => TypeOK'
  BY DEF WriteArms, Arm, Location
<1>4. WriteFindsTimer => TypeOK'
  BY DEF WriteFindsTimer, Location
<1>5. Flush => TypeOK'
  BY DEF Flush, Location
<1>6. Close => TypeOK'
  BY DEF Close, Stopped, Location
<1>7. UNCHANGED vars => TypeOK'
  BY DEF vars
<1>8. ASSUME NEW g \in Goroutine, FlushTakes(g) PROVE TypeOK'
  BY <1>8 DEF FlushTakes, AfterFlush, Location
<1>9. ASSUME NEW g \in Goroutine, Post(g) PROVE TypeOK'
  <2>1. AfterFlush(g) \in Location
    BY DEF AfterFlush, Location
  <2>2. try' \in [Goroutine -> 0..MaxRetries]
    BY <1>9, NumberAssumption DEF Post, PostOk, PostRefused, PostFails, FlushEnds
  <2>3. buf' \in [Goroutine -> SUBSET Message]
    BY <1>9 DEF Post, PostOk, PostRefused, PostFails, FlushEnds
  <2>4. pc' \in [Goroutine -> Location]
    BY <1>9, <2>1 DEF Post, PostOk, PostRefused, PostFails, FlushEnds
  <2>5. delivered' \in SUBSET Message /\ reported' \in SUBSET Message
    <3>1. buf[g] \in SUBSET Message
      OBVIOUS
    <3> QED
      BY <1>9, <3>1 DEF Post, PostOk, PostRefused, PostFails
  <2> QED
    BY <1>9, <2>2, <2>3, <2>4, <2>5 DEF Post
<1>10. ASSUME NEW g \in Goroutine, GiveUp(g) PROVE TypeOK'
  <2>1. AfterFlush(g) \in Location
    BY DEF AfterFlush, Location
  <2>2. try' \in [Goroutine -> 0..MaxRetries]
    BY <1>10, NumberAssumption DEF GiveUp, FlushEnds
  <2>3. buf' \in [Goroutine -> SUBSET Message]
    BY <1>10 DEF GiveUp, FlushEnds
  <2>4. pc' \in [Goroutine -> Location]
    BY <1>10, <2>1 DEF GiveUp, FlushEnds
  <2>5. reported' \in SUBSET Message
    BY <1>10 DEF GiveUp
  <2> QED
    BY <1>10, <2>2, <2>3, <2>4, <2>5 DEF GiveUp
<1>11. ASSUME NEW c \in Callback, Fire(c) PROVE TypeOK'
  BY <1>11 DEF Fire, Fired, Location
<1>12. ASSUME NEW c \in Callback, Unlock(c) PROVE TypeOK'
  BY <1>12 DEF Unlock, Unlocked, Location
<1> QED
  BY <1>1, <1>2, <1>3, <1>4, <1>5, <1>6, <1>7, <1>8, <1>9, <1>10, <1>11, <1>12,
     Steps

(* What each goroutine holds fits the place where it is.                   *)
LEMMA PlacesStep == SinkInv /\ [Next]_vars => Places'
<1> SUFFICES ASSUME SinkInv, [Next]_vars PROVE Places'
  OBVIOUS
<1> USE GoroutineAssumption DEF SinkInv, TypeOK, Places, GoTo, AfterFlush, Timer
<1>1. Write => Places'
  BY DEF Write, WriteEncodes, WriteDrops
<1>2. WriteFlushes => Places'
  BY DEF WriteFlushes
<1>3. WriteArms => Places'
  BY DEF WriteArms, Arm
<1>4. WriteFindsTimer => Places'
  BY DEF WriteFindsTimer
<1>5. Flush => Places'
  BY DEF Flush
<1>6. Close => Places'
  BY DEF Close, Stopped
<1>7. UNCHANGED vars => Places'
  BY DEF vars
<1>8. ASSUME NEW g \in Goroutine, FlushTakes(g) PROVE Places'
  BY <1>8 DEF FlushTakes
<1>9. ASSUME NEW g \in Goroutine, Post(g) PROVE Places'
  BY <1>9 DEF Post, PostOk, PostRefused, PostFails, FlushEnds
<1>10. ASSUME NEW g \in Goroutine, GiveUp(g) PROVE Places'
  BY <1>10 DEF GiveUp, FlushEnds
<1>11. ASSUME NEW c \in Callback, Fire(c) PROVE Places'
  BY <1>11 DEF Fire, Fired
<1>12. ASSUME NEW c \in Callback, Unlock(c) PROVE Places'
  BY <1>12 DEF Unlock, Unlocked
<1> QED
  BY <1>1, <1>2, <1>3, <1>4, <1>5, <1>6, <1>7, <1>8, <1>9, <1>10, <1>11, <1>12,
     Steps

(* Lock, TryLock, Stop and Unlock keep timerLock with one owner.           *)
LEMMA TimerLockStep == SinkInv /\ [Next]_vars => TimerLockOwned'
<1> SUFFICES ASSUME SinkInv, [Next]_vars PROVE TimerLockOwned'
  OBVIOUS
<1> USE GoroutineAssumption DEF SinkInv, TypeOK, Places, TimerLockOwned, Running, Armed, GoTo, AfterFlush, Timer
<1>1. Write => TimerLockOwned'
  BY DEF Write, WriteEncodes, WriteDrops
<1>2. WriteFlushes => TimerLockOwned'
  BY DEF WriteFlushes
<1>3. WriteArms => TimerLockOwned'
  BY DEF WriteArms, Arm
<1>4. WriteFindsTimer => TimerLockOwned'
  BY DEF WriteFindsTimer
<1>5. Flush => TimerLockOwned'
  BY DEF Flush
<1>6. Close => TimerLockOwned'
  BY DEF Close, Stopped
<1>7. UNCHANGED vars => TimerLockOwned'
  BY DEF vars
<1>8. ASSUME NEW g \in Goroutine, FlushTakes(g) PROVE TimerLockOwned'
  BY <1>8 DEF FlushTakes
<1>9. ASSUME NEW g \in Goroutine, Post(g) PROVE TimerLockOwned'
  BY <1>9 DEF Post, PostOk, PostRefused, PostFails, FlushEnds
<1>10. ASSUME NEW g \in Goroutine, GiveUp(g) PROVE TimerLockOwned'
  BY <1>10 DEF GiveUp, FlushEnds
<1>11. ASSUME NEW c \in Callback, Fire(c) PROVE TimerLockOwned'
  BY <1>11 DEF Fire, Fired
<1>12. ASSUME NEW c \in Callback, Unlock(c) PROVE TimerLockOwned'
  BY <1>12 DEF Unlock, Unlocked
<1> QED
  BY <1>1, <1>2, <1>3, <1>4, <1>5, <1>6, <1>7, <1>8, <1>9, <1>10, <1>11, <1>12,
     Steps

(* Messages that Write has yet to take are nowhere in the sink.            *)
LEMMA UnwrittenStep == SinkInv /\ [Next]_vars => Unwritten'
<1> SUFFICES ASSUME SinkInv, [Next]_vars PROVE Unwritten'
  OBVIOUS
<1> USE GoroutineAssumption DEF SinkInv, TypeOK, Places, Unwritten
<1>1. Write => Unwritten'
  BY DEF Write, WriteEncodes, WriteDrops
<1>2. WriteFlushes => Unwritten'
  BY DEF WriteFlushes
<1>3. WriteArms => Unwritten'
  BY DEF WriteArms, Arm
<1>4. WriteFindsTimer => Unwritten'
  BY DEF WriteFindsTimer
<1>5. Flush => Unwritten'
  BY DEF Flush
<1>6. Close => Unwritten'
  BY DEF Close, Stopped
<1>7. UNCHANGED vars => Unwritten'
  BY DEF vars
<1>8. ASSUME NEW g \in Goroutine, FlushTakes(g) PROVE Unwritten'
  BY <1>8 DEF FlushTakes
<1>9. ASSUME NEW g \in Goroutine, Post(g) PROVE Unwritten'
  BY <1>9 DEF Post, PostOk, PostRefused, PostFails, FlushEnds
<1>10. ASSUME NEW g \in Goroutine, GiveUp(g) PROVE Unwritten'
  BY <1>10 DEF GiveUp, FlushEnds
<1>11. ASSUME NEW c \in Callback, Fire(c) PROVE Unwritten'
  BY <1>11 DEF Fire, Fired
<1>12. ASSUME NEW c \in Callback, Unlock(c) PROVE Unwritten'
  BY <1>12 DEF Unlock, Unlocked
<1> QED
  BY <1>1, <1>2, <1>3, <1>4, <1>5, <1>6, <1>7, <1>8, <1>9, <1>10, <1>11, <1>12,
     Steps

(* Taking a batch empties the encoder, and a batch is its taker's alone.   *)
LEMMA OneBatchStep == SinkInv /\ [Next]_vars => OneBatchPerMessage'
<1> SUFFICES ASSUME SinkInv, [Next]_vars PROVE OneBatchPerMessage'
  OBVIOUS
<1> USE GoroutineAssumption DEF SinkInv, TypeOK, Places, Unwritten, OneBatchPerMessage
<1>1. Write => OneBatchPerMessage'
  BY DEF Write, WriteEncodes, WriteDrops
<1>2. WriteFlushes => OneBatchPerMessage'
  BY DEF WriteFlushes
<1>3. WriteArms => OneBatchPerMessage'
  BY DEF WriteArms, Arm
<1>4. WriteFindsTimer => OneBatchPerMessage'
  BY DEF WriteFindsTimer
<1>5. Flush => OneBatchPerMessage'
  BY DEF Flush
<1>6. Close => OneBatchPerMessage'
  BY DEF Close, Stopped
<1>7. UNCHANGED vars => OneBatchPerMessage'
  BY DEF vars
<1>8. ASSUME NEW g \in Goroutine, FlushTakes(g) PROVE OneBatchPerMessage'
  BY <1>8 DEF FlushTakes
<1>9. ASSUME NEW g \in Goroutine, Post(g) PROVE OneBatchPerMessage'
  BY <1>9 DEF Post, PostOk, PostRefused, PostFails, FlushEnds
<1>10. ASSUME NEW g \in Goroutine, GiveUp(g) PROVE OneBatchPerMessage'
  BY <1>10 DEF GiveUp, FlushEnds
<1>11. ASSUME NEW c \in Callback, Fire(c) PROVE OneBatchPerMessage'
  BY <1>11 DEF Fire, Fired
<1>12. ASSUME NEW c \in Callback, Unlock(c) PROVE OneBatchPerMessage'
  BY <1>12 DEF Unlock, Unlocked
<1> QED
  BY <1>1, <1>2, <1>3, <1>4, <1>5, <1>6, <1>7, <1>8, <1>9, <1>10, <1>11, <1>12,
     Steps
-----------------------------------------------------------------------------
(* A new sink has no messages, no timer and a free timerLock.              *)
LEMMA InitSink == Init => SinkInv
<1> SUFFICES ASSUME Init PROVE SinkInv
  OBVIOUS
<1> USE NumberAssumption, GoroutineAssumption DEF Init
<1>1. TypeOK
  <2>1. timer \in Timer /\ pc \in [Goroutine -> Location]
    BY DEF Timer, NewTimer, Location
  <2>2. try \in [Goroutine -> 0..MaxRetries] /\ written \in 0..MaxWrites
    OBVIOUS
  <2> QED
    BY <2>1, <2>2 DEF TypeOK
<1>2. Places
  BY DEF Places
<1>3. TimerLockOwned
  BY DEF TimerLockOwned, NewTimer, Running, Armed
<1>4. Unwritten
  BY DEF Unwritten
<1>5. OneBatchPerMessage
  BY DEF OneBatchPerMessage
<1> QED
  BY <1>1, <1>2, <1>3, <1>4, <1>5 DEF SinkInv

(* The inductive invariant: the types, where goroutines and messages can   *)
(* be, and who holds timerLock.                                            *)
THEOREM SinkInvHolds == Spec => []SinkInv
<1>1. SinkInv /\ [Next]_vars => SinkInv'
  BY Typing, PlacesStep, TimerLockStep, UnwrittenStep, OneBatchStep DEF SinkInv
<1> QED
  BY InitSink, <1>1, PTL DEF Spec

(* Every variable keeps its type.                                          *)
THEOREM TypesHold == Spec => []TypeOK
<1>1. SinkInv => TypeOK
  BY DEF SinkInv
<1> QED
  BY SinkInvHolds, <1>1, PTL

(* timerLock always has exactly one owner: the armed timer or the callback *)
(* that runs, so that no goroutine unlocks it for another one.             *)
THEOREM TimerLockHasOneOwner == Spec => []TimerLockOwned
<1>1. SinkInv => TimerLockOwned
  BY DEF SinkInv
<1> QED
  BY SinkInvHolds, <1>1, PTL

(* No message is in two batches, or in a batch and in the encoder.         *)
THEOREM MessagesAreInOneBatch == Spec => []OneBatchPerMessage
<1>1. SinkInv => OneBatchPerMessage
  BY DEF SinkInv
<1> QED
  BY SinkInvHolds, <1>1, PTL

(* The last flush of Close takes everything.                               *)
THEOREM CloseEmptiesTheEncoder == Spec => []ClosedIsEmpty
<1>1. SinkInv => ClosedIsEmpty
  BY DEF SinkInv, Places, ClosedIsEmpty
<1> QED
  BY SinkInvHolds, <1>1, PTL

(* The three together: no interleaving of Write, Flush, Close and the      *)
(* callbacks loses the lock or a batch.                                    *)
THEOREM NoBatchIsLost == Spec => []BatchesAreKept
<1>1. SinkInv => BatchesAreKept
  BY DEF SinkInv, Places, TimerLockOwned, OneBatchPerMessage, ClosedIsEmpty, BatchesAreKept
<1> QED
  BY <1>1, SinkInvHolds, PTL
-----------------------------------------------------------------------------
(* The refinement: every step of the sink is a step of Outbox or none.     *)

Flying == {buf[g] : g \in Goroutine} \ {{}}

(* Steps that move no message are stuttering steps of the outbox.          *)
LEMMA StutterSteps ==
  UNCHANGED <<encoder, buf, delivered, reported>> => UNCHANGED Promise!outbox
BY DEF Promise!outbox

(* A batch that is settled leaves the set of batches under way, since no   *)
(* other goroutine has an equal one.                                       *)
LEMMA BatchLeaves ==
  ASSUME SinkInv, NEW g \in Goroutine, pc[g] = "send",
         buf' = [buf EXCEPT ![g] = {}]
  PROVE  /\ buf[g] \in Flying
         /\ Flying' = Flying \ {buf[g]}
BY DEF SinkInv, TypeOK, Places, OneBatchPerMessage, Flying

(* A request that arrives, and a batch that is settled, are outbox steps.  *)
LEMMA BatchSteps ==
  ASSUME NEW b \in Flying, Promise!Arrive(b) \/ Promise!Land(b)
  PROVE  Promise!Next
BY DEF Promise!Next, Flying

(* Every step of the sink maps to a step of the outbox or to none.         *)
LEMMA OutboxStep == SinkInv /\ [Next]_vars => [Promise!Next]_(Promise!outbox)
<1> SUFFICES ASSUME SinkInv, [Next]_vars
             PROVE  [Promise!Next]_(Promise!outbox)
  OBVIOUS
<1> USE GoroutineAssumption
<1>1. Write => [Promise!Next]_(Promise!outbox)
  <2>1. CASE Write /\ encoder' = encoder \cup {written + 1}
    <3>1. written + 1 \in Message
      BY <2>1, NumberAssumption DEF Write, WriteEncodes, WriteDrops, SinkInv, TypeOK
    <3>2. written + 1 \notin Promise!Known
      <4>1. UNION Flying = UNION {buf[g] : g \in Goroutine}
        BY DEF Flying
      <4>2. written \in Nat
        BY NumberAssumption DEF SinkInv, TypeOK
      <4>3. Promise!Known = encoder \cup (UNION Flying) \cup delivered \cup reported
        BY DEF Promise!Known, Flying
      <4>4. ~(written + 1 <= written)
        BY <4>2
      <4>5. Promise!Known \subseteq encoder \cup delivered \cup reported
                                  \cup UNION {buf[g] : g \in Goroutine}
        BY <4>1, <4>3
      <4> QED
        BY <3>1, <4>4, <4>5 DEF SinkInv, Unwritten
    <3>3. Promise!Accept(written + 1)
      BY <2>1, <3>2 DEF Write, WriteEncodes, WriteDrops, Promise!Accept
    <3> QED
      BY <3>1, <3>3 DEF Promise!Next
  <2>2. CASE Write /\ encoder' = encoder
    BY <2>2, StutterSteps DEF Write, WriteEncodes, WriteDrops
  <2> QED
    BY <2>1, <2>2 DEF Write, WriteEncodes, WriteDrops
<1>2. WriteFlushes => [Promise!Next]_(Promise!outbox)
  BY StutterSteps DEF WriteFlushes
<1>3. WriteArms => [Promise!Next]_(Promise!outbox)
  BY StutterSteps DEF WriteArms
<1>4. WriteFindsTimer => [Promise!Next]_(Promise!outbox)
  BY StutterSteps DEF WriteFindsTimer
<1>5. Flush => [Promise!Next]_(Promise!outbox)
  BY StutterSteps DEF Flush
<1>6. Close => [Promise!Next]_(Promise!outbox)
  BY StutterSteps DEF Close
<1>7. UNCHANGED vars => [Promise!Next]_(Promise!outbox)
  BY StutterSteps DEF vars
<1>8. ASSUME NEW g \in Goroutine, FlushTakes(g)
      PROVE  [Promise!Next]_(Promise!outbox)
  <2>1. buf[g] = {}
    BY <1>8 DEF FlushTakes, SinkInv, Places
  <2>2. CASE encoder = {}
    <3>1. buf' = buf
      BY <1>8, <2>1, <2>2 DEF FlushTakes, SinkInv, TypeOK
    <3> QED
      BY <1>8, <2>2, <3>1, StutterSteps DEF FlushTakes
  <2>3. CASE encoder # {}
    <3>1. Flying' = Flying \cup {encoder}
      BY <1>8, <2>1, <2>3 DEF FlushTakes, SinkInv, TypeOK, Flying
    <3>2. Promise!Depart
      BY <1>8, <2>3, <3>1 DEF FlushTakes, Flying, Promise!Depart
    <3> QED
      BY <3>2 DEF Promise!Next
  <2> QED
    BY <2>2, <2>3
<1>9. ASSUME NEW g \in Goroutine, Post(g)
      PROVE  [Promise!Next]_(Promise!outbox)
  <2>1. CASE PostOk(g) \/ PostRefused(g)
    <3>1. buf[g] \in Flying
      BY <1>9, <2>1, BatchLeaves DEF Post, PostOk, PostRefused, FlushEnds
    <3>2. Flying' = Flying \ {buf[g]}
      BY <1>9, <2>1, BatchLeaves DEF Post, PostOk, PostRefused, FlushEnds
    <3>3. PICK b \in Flying : b = buf[g]
      BY <3>1
    <3>4. Promise!Land(b)
      BY <1>9, <2>1, <3>2, <3>3
         DEF Post, PostOk, PostRefused, Flying, Promise!Land
    <3> QED
      BY <3>4, BatchSteps
  <2>2. CASE PostFails(g) /\ delivered' = delivered
    BY <1>9, <2>2, StutterSteps DEF Post, PostFails
  <2>3. CASE PostFails(g) /\ delivered' = delivered \cup buf[g]
    <3>1. buf[g] \in Flying
      BY <1>9 DEF Post, SinkInv, Places, Flying
    <3>2. PICK b \in Flying : b = buf[g]
      BY <3>1
    <3>3. Promise!Arrive(b)
      BY <1>9, <2>3, <3>2 DEF Post, PostFails, Promise!Arrive
    <3> QED
      BY <3>3, BatchSteps
  <2> QED
    BY <1>9, <2>1, <2>2, <2>3 DEF Post, PostFails
<1>10. ASSUME NEW g \in Goroutine, GiveUp(g)
       PROVE  [Promise!Next]_(Promise!outbox)
  <2>1. buf[g] \in Flying
    BY <1>10, BatchLeaves DEF GiveUp, FlushEnds
  <2>2. Flying' = Flying \ {buf[g]}
    BY <1>10, BatchLeaves DEF GiveUp, FlushEnds
  <2>3. PICK b \in Flying : b = buf[g]
    BY <2>1
  <2>4. Promise!Land(b)
    BY <1>10, <2>2, <2>3 DEF GiveUp, Flying, Promise!Land
  <2> QED
    BY <2>4, BatchSteps
<1>11. ASSUME NEW c \in Callback, Fire(c)
       PROVE  [Promise!Next]_(Promise!outbox)
  BY <1>11, StutterSteps DEF Fire
<1>12. ASSUME NEW c \in Callback, Unlock(c)
       PROVE  [Promise!Next]_(Promise!outbox)
  BY <1>12, StutterSteps DEF Unlock
<1> QED
  BY <1>1, <1>2, <1>3, <1>4, <1>5, <1>6, <1>7, <1>8, <1>9, <1>10, <1>11, <1>12,
     Steps

(* HttpSink implements Outbox: a message that was accepted leaves in one   *)
(* batch, and that batch is delivered or reported.                         *)
THEOREM HttpSinkImplementsOutbox == Spec => ImplementsOutbox
<1>1. Init => Promise!Init
  BY GoroutineAssumption DEF Init, Promise!Init
<1> QED
  BY <1>1, OutboxStep, SinkInvHolds, PTL
     DEF Spec, ImplementsOutbox, Promise!Spec
=============================================================================
