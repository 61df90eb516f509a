-------------------------- MODULE NatsSinkProofs --------------------------
(***************************************************************************)
(* Proofs about NatsSink for every set of callback goroutines and every    *)
(* number of messages.                                                     *)
(***************************************************************************)
EXTENDS NatsSinkProps, TLAPS

USE GoroutineAssumption, NumberAssumption DEF Goroutine

(* Only a goroutine that is about to publish has a batch. *)
Places ==
  /\ pc \in [Goroutine -> Location(Manager) \cup {"unlock"}]
  /\ \A g \in Goroutine : buf[g] # {} <=> pc[g] = "publish"

(* Messages that have not been written yet are nowhere. *)
Held ==
  {m \in Message : m \in encoder \cup delivered \cup reported
                   \/ \E g \in Goroutine : m \in buf[g]}
Unwritten == \A m \in Held : m <= written

(* No message is in two batches, or in a batch and in the encoder. *)
Apart ==
  \A g \in Goroutine :
    /\ buf[g] \cap encoder = {}
    /\ \A h \in Goroutine : buf[g] \cap buf[h] # {} => g = h

SinkInv == TypeOK /\ Places /\ TimerLockOwned /\ Unwritten /\ Apart

(* The steps of Next, each with its goroutine. *)
LEMMA Steps ==
  ASSUME [Next]_vars,
         NEW P,
         Write => P, WriteFlushes => P, WriteArms => P, Flush => P, Close => P,
         UNCHANGED vars => P,
         ASSUME NEW g \in Goroutine, FlushTakes(g) PROVE P,
         ASSUME NEW g \in Goroutine, Publish(g) PROVE P,
         ASSUME NEW c \in Callback, Fire(c) PROVE P,
         ASSUME NEW c \in Callback, Unlock(c) PROVE P
  PROVE  P
BY DEF Next, WriteEnds, Sending, Finished

(* Every goroutine stays where its kind can be, and has a batch only when  *)
(* it is about to publish it.                                              *)
LEMMA PlacesStep ==
  SinkInv /\ [Next]_vars => Places' /\ \A g \in Goroutine : pc'[g] \in Location(g)
<1> DEFINE P == Places' /\ \A g \in Goroutine : pc'[g] \in Location(g)
<1> SUFFICES ASSUME SinkInv, [Next]_vars PROVE P
  OBVIOUS
<1> USE DEF SinkInv, TypeOK, Places, GoTo, Location
<1>1. Write => P
  BY DEF Write, WriteEncodes, WriteDrops
<1>2. WriteFlushes => P
  BY DEF WriteFlushes
<1>3. WriteArms => P
  BY DEF WriteArms
<1>4. Flush => P
  BY DEF Flush
<1>5. Close => P
  BY DEF Close
<1>6. UNCHANGED vars => P
  BY DEF vars
<1>7. ASSUME NEW g \in Goroutine, FlushTakes(g) PROVE P
  BY <1>7 DEF FlushTakes, AfterFlush
<1>8. ASSUME NEW g \in Goroutine, Publish(g) PROVE P
  BY <1>8 DEF Publish, AfterFlush
<1>9. ASSUME NEW c \in Callback, Fire(c) PROVE P
  BY <1>9 DEF Fire
<1>10. ASSUME NEW c \in Callback, Unlock(c) PROVE P
  BY <1>10 DEF Unlock
<1> HIDE DEF P
<1> QED
  BY <1>1, <1>2, <1>3, <1>4, <1>5, <1>6, <1>7, <1>8, <1>9, <1>10, Steps

(* Lock, TryLock, Stop and Unlock keep timerLock with one owner.           *)
LEMMA TimerLockStep == SinkInv /\ [Next]_vars => timer' \in Timer /\ TimerLockOwned'
<1> DEFINE P == timer' \in Timer /\ TimerLockOwned'
<1> SUFFICES ASSUME SinkInv, [Next]_vars PROVE P
  OBVIOUS
<1> USE DEF SinkInv, TypeOK, Places, Location, TimerLockOwned, Running, Armed, Timer, GoTo
<1>1. Write => P
  BY DEF Write, WriteEncodes, WriteDrops
<1>2. WriteFlushes => P
  BY DEF WriteFlushes
<1>3. WriteArms => P
  BY DEF WriteArms, Arm
<1>4. Flush => P
  BY DEF Flush
<1>5. Close => P
  BY DEF Close, Stopped
<1>6. UNCHANGED vars => P
  BY DEF vars
<1>7. ASSUME NEW g \in Goroutine, FlushTakes(g) PROVE P
  BY <1>7 DEF FlushTakes, AfterFlush
<1>8. ASSUME NEW g \in Goroutine, Publish(g) PROVE P
  BY <1>8 DEF Publish, AfterFlush
<1>9. ASSUME NEW c \in Callback, Fire(c) PROVE P
  BY <1>9 DEF Fire, Fired
<1>10. ASSUME NEW c \in Callback, Unlock(c) PROVE P
  BY <1>10 DEF Unlock, Unlocked
<1> HIDE DEF P
<1> QED
  BY <1>1, <1>2, <1>3, <1>4, <1>5, <1>6, <1>7, <1>8, <1>9, <1>10, Steps

(* A step writes a message, takes or publishes a batch, or moves nothing.  *)
Moves == <<encoder, buf, delivered, reported, written>>

Writes ==
  /\ written < MaxWrites
  /\ written' = written + 1
  /\ UNCHANGED <<buf, delivered, reported>>
  /\ encoder' = encoder \cup {written + 1} \/ UNCHANGED encoder

Takes(g) ==
  /\ pc[g] = "flush"
  /\ buf' = [buf EXCEPT ![g] = encoder]
  /\ encoder' = {}
  /\ UNCHANGED <<delivered, reported, written>>

Publishes(g) ==
  /\ pc[g] = "publish"
  /\ \/ delivered' = delivered \cup buf[g] /\ UNCHANGED reported
     \/ reported' = reported \cup buf[g] /\ UNCHANGED delivered
  /\ buf' = [buf EXCEPT ![g] = {}]
  /\ UNCHANGED <<encoder, written>>

LEMMA MessageSteps ==
  ASSUME [Next]_vars,
         NEW P, UNCHANGED Moves => P, Writes => P,
         ASSUME NEW g \in Goroutine, Takes(g) PROVE P,
         ASSUME NEW g \in Goroutine, Publishes(g) PROVE P
  PROVE  P
<1>1. Write => P
  BY DEF Write, WriteEncodes, WriteDrops, Writes
<1>2. WriteFlushes \/ WriteArms \/ Flush \/ Close \/ UNCHANGED vars => P
  BY DEF WriteFlushes, WriteArms, Flush, Close, vars, Moves
<1>3. ASSUME NEW g \in Goroutine, FlushTakes(g) PROVE P
  BY <1>3 DEF FlushTakes, Takes
<1>4. ASSUME NEW g \in Goroutine, Publish(g) PROVE P
  BY <1>4 DEF Publish, Publishes
<1>5. ASSUME NEW c \in Callback, Fire(c) \/ Unlock(c) PROVE P
  BY <1>5 DEF Fire, Unlock, Moves
<1> QED BY <1>1, <1>2, <1>3, <1>4, <1>5, Steps

(* The next message is nowhere in the sink.                                *)
LEMMA NextIsNew == ASSUME SinkInv PROVE written + 1 \notin Held
BY DEF SinkInv, TypeOK, Unwritten

(* Messages keep their types and are in one batch at most.                 *)
LEMMA MessagesStep ==
  SinkInv /\ [Next]_vars =>
    /\ encoder' \in SUBSET Message /\ buf' \in [Goroutine -> SUBSET Message]
    /\ delivered' \in SUBSET Message /\ reported' \in SUBSET Message
    /\ written' \in 0..MaxWrites
    /\ Apart'
<1> DEFINE P == /\ encoder' \in SUBSET Message /\ buf' \in [Goroutine -> SUBSET Message]
                /\ delivered' \in SUBSET Message /\ reported' \in SUBSET Message
                /\ written' \in 0..MaxWrites
                /\ Apart'
<1> SUFFICES ASSUME SinkInv, [Next]_vars PROVE P
  OBVIOUS
<1>1. UNCHANGED Moves => P
  BY DEF Moves, SinkInv, TypeOK, Apart
<1>2. Writes => P
  <2> SUFFICES ASSUME Writes PROVE P
    OBVIOUS
  <2>1. written + 1 \in Message /\ written' \in 0..MaxWrites
    BY DEF Writes, SinkInv, TypeOK, Message
  <2>2. \A g \in Goroutine : written + 1 \notin buf[g]
    BY <2>1, NextIsNew DEF Held
  <2> QED BY <2>1, <2>2 DEF Writes, SinkInv, TypeOK, Apart
<1>3. ASSUME NEW g \in Goroutine, Takes(g) PROVE P
  BY <1>3 DEF Takes, SinkInv, TypeOK, Apart
<1>4. ASSUME NEW g \in Goroutine, Publishes(g) PROVE P
  <2>1. buf[g] \in SUBSET Message
    BY DEF SinkInv, TypeOK
  <2> QED BY <1>4, <2>1 DEF Publishes, SinkInv, TypeOK, Apart
<1> HIDE DEF P
<1> QED BY <1>1, <1>2, <1>3, <1>4, MessageSteps

(* Messages that Write has yet to take stay out of the sink.               *)
LEMMA UnwrittenStep == SinkInv /\ [Next]_vars => Unwritten'
<1> SUFFICES ASSUME SinkInv, [Next]_vars PROVE Unwritten'
  OBVIOUS
<1>1. \/ Held' \subseteq Held \cup {written + 1} /\ written' = written + 1
      \/ Held' \subseteq Held /\ written' = written
  <2> DEFINE P == \/ Held' \subseteq Held \cup {written + 1} /\ written' = written + 1
                  \/ Held' \subseteq Held /\ written' = written
  <2>1. UNCHANGED Moves => P
    BY DEF Moves, Held
  <2>2. Writes => P
    <3> SUFFICES ASSUME Writes PROVE P
      OBVIOUS
    <3>1. /\ written' = written + 1 /\ encoder' \subseteq encoder \cup {written + 1}
          /\ UNCHANGED <<buf, delivered, reported>>
      BY DEF Writes
    <3>2. Held' \subseteq Held \cup {written + 1}
      BY <3>1 DEF Held
    <3> QED BY <3>1, <3>2
  <2>3. ASSUME NEW g \in Goroutine, Takes(g) PROVE P
    BY <2>3 DEF Takes, Held, SinkInv, TypeOK
  <2>4. ASSUME NEW g \in Goroutine, Publishes(g) PROVE P
    BY <2>4 DEF Publishes, Held, SinkInv, TypeOK
  <2> HIDE DEF P
  <2>5. P
    BY <2>1, <2>2, <2>3, <2>4, MessageSteps
  <2> QED BY <2>5 DEF P
<1>2. \A m \in Held : m <= written /\ m \in Nat
  BY DEF SinkInv, TypeOK, Unwritten, Held, Message
<1>3. written \in Nat
  BY DEF SinkInv, TypeOK
<1> QED BY <1>1, <1>2, <1>3 DEF Unwritten
-----------------------------------------------------------------------------
(* A new sink has no messages, no timer and a free timerLock.              *)
LEMMA InitSink == Init => SinkInv
<1> SUFFICES ASSUME Init PROVE SinkInv
  OBVIOUS
<1> USE DEF Init
<1>1. Places /\ \A g \in Goroutine : pc[g] \in Location(g)
  BY DEF Places, Location
<1>2. timer \in Timer /\ TimerLockOwned
  BY DEF TimerLockOwned, Timer, NewTimer, Running, Armed
<1>3. buf \in [Goroutine -> SUBSET Message] /\ written \in 0..MaxWrites
  OBVIOUS
<1>4. TypeOK
  BY <1>1, <1>2, <1>3 DEF TypeOK
<1>5. Unwritten /\ Apart
  BY DEF Unwritten, Held, Apart
<1> QED BY <1>1, <1>2, <1>4, <1>5 DEF SinkInv

(* The inductive invariant: the types, where goroutines and messages can   *)
(* be, and who holds timerLock.                                            *)
THEOREM SinkInvHolds == Spec => []SinkInv
<1>1. SinkInv /\ [Next]_vars => SinkInv'
  <2> SUFFICES ASSUME SinkInv, [Next]_vars PROVE SinkInv'
    OBVIOUS
  <2>1. delayed' \in BOOLEAN /\ encErr' \in BOOLEAN
    <3>1. delayed' = delayed
      BY DEF Next, Write, WriteEncodes, WriteDrops, WriteEnds, WriteFlushes, WriteArms, Flush, Close, Finished,
             Sending, FlushTakes, Publish, Fire, Unlock, vars
    <3>2. encErr' \in {encErr, TRUE, FALSE}
      BY DEF Next, Write, WriteEncodes, WriteDrops, WriteEnds, WriteFlushes, WriteArms,
             Flush, Close, Finished, Sending, FlushTakes, Publish, Fire, Unlock, vars
    <3> QED BY <3>1, <3>2 DEF SinkInv, TypeOK
  <2>2. DOMAIN pc' = Goroutine
    BY PlacesStep DEF Places
  <2>3. TypeOK'
    BY <2>1, <2>2, PlacesStep, TimerLockStep, MessagesStep DEF TypeOK, Location
  <2> QED BY <2>3, PlacesStep, TimerLockStep, MessagesStep, UnwrittenStep DEF SinkInv
<1> QED BY InitSink, <1>1, PTL DEF Spec

(* Every variable keeps its type, and timerLock always has one owner, the  *)
(* armed timer or the callback that runs: the safety part of TimerSettles. *)
THEOREM TimerLockHasOneOwner == Spec => [](TypeOK /\ TimerLockOwned)
<1>1. SinkInv => TypeOK /\ TimerLockOwned
  BY DEF SinkInv
<1> QED BY SinkInvHolds, <1>1, PTL
-----------------------------------------------------------------------------
(* The refinement: every step of the sink is a step of Outbox or none.     *)

Flying == {buf[g] : g \in Goroutine} \ {{}}

(* Every message that the outbox knows is in the sink.                     *)
LEMMA KnownIsHeld == ASSUME SinkInv PROVE Promise!Known \cap Message \subseteq Held
<1>1. Promise!Known = encoder \cup (UNION Flying) \cup delivered \cup reported
  BY DEF Promise!Known, Flying
<1>2. \A b \in Flying : \E g \in Goroutine : b = buf[g]
  BY DEF Flying
<1>3. \A m \in UNION Flying : \E g \in Goroutine : m \in buf[g]
  BY <1>2
<1> QED BY <1>1, <1>3 DEF Held

(* Every step of the sink maps to a step of the outbox or to none.         *)
LEMMA OutboxStep == SinkInv /\ [Next]_vars => [Promise!Next]_(Promise!outbox)
<1> SUFFICES ASSUME SinkInv, [Next]_vars
             PROVE  [Promise!Next]_(Promise!outbox)
  OBVIOUS
<1>1. UNCHANGED <<encoder, Flying, delivered, reported>>
        => [Promise!Next]_(Promise!outbox)
  BY DEF Promise!outbox, Flying
<1>2. UNCHANGED Moves => [Promise!Next]_(Promise!outbox)
  BY <1>1 DEF Moves, Flying
<1>3. Writes => [Promise!Next]_(Promise!outbox)
  <2> SUFFICES ASSUME Writes PROVE [Promise!Next]_(Promise!outbox)
    OBVIOUS
  <2>1. UNCHANGED <<Flying, delivered, reported>>
    BY DEF Writes, Flying
  <2>2. CASE encoder' = encoder \cup {written + 1}
    <3>1. written + 1 \in Message
      BY DEF Writes, SinkInv, TypeOK, Message
    <3>2. written + 1 \notin Promise!Known
      BY <3>1, NextIsNew, KnownIsHeld
    <3>3. Promise!Accept(written + 1)
      BY <2>1, <2>2, <3>2 DEF Promise!Accept, Flying
    <3> QED BY <3>1, <3>3 DEF Promise!Next
  <2>3. CASE encoder' = encoder
    BY <1>1, <2>1, <2>3
  <2> QED BY <2>2, <2>3 DEF Writes
<1>4. ASSUME NEW g \in Goroutine, Takes(g) PROVE [Promise!Next]_(Promise!outbox)
  <2>1. buf[g] = {}
    BY <1>4 DEF Takes, SinkInv, Places
  <2>2. CASE encoder = {}
    <3>1. buf' = buf
      BY <1>4, <2>1, <2>2 DEF Takes, SinkInv, TypeOK
    <3> QED BY <1>1, <1>4, <2>2, <3>1 DEF Takes, Flying
  <2>3. CASE encoder # {}
    <3>1. Flying' = Flying \cup {encoder}
      BY <1>4, <2>1, <2>3 DEF Takes, SinkInv, TypeOK, Flying
    <3>2. Promise!Depart
      BY <1>4, <2>3, <3>1 DEF Takes, Flying, Promise!Depart
    <3> QED BY <3>2 DEF Promise!Next
  <2> QED BY <2>2, <2>3
<1>5. ASSUME NEW g \in Goroutine, Publishes(g) PROVE [Promise!Next]_(Promise!outbox)
  <2>1. buf[g] # {} /\ \A h \in Goroutine \ {g} : buf[h] # buf[g]
    BY <1>5 DEF Publishes, SinkInv, Places, Apart
  <2>2. buf[g] \in Flying /\ Flying' = Flying \ {buf[g]}
    BY <1>5, <2>1 DEF Publishes, SinkInv, TypeOK, Flying
  <2>3. PICK b \in Flying : b = buf[g]
    BY <2>2
  <2>4. Promise!Land(b)
    BY <1>5, <2>2, <2>3 DEF Publishes, Flying, Promise!Land
  <2> QED BY <2>4 DEF Promise!Next, Flying
<1> QED BY <1>2, <1>3, <1>4, <1>5, MessageSteps

(* NatsSink implements Outbox: a message that was accepted leaves in one   *)
(* batch, and that batch is delivered or reported.                         *)
THEOREM NatsSinkImplementsOutbox == Spec => ImplementsOutbox
<1>1. Init => Promise!Init
  BY DEF Init, Promise!Init
<1> QED
  BY <1>1, OutboxStep, SinkInvHolds, PTL
     DEF Spec, ImplementsOutbox, Promise!Spec
=============================================================================
