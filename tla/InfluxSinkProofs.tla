------------------------- MODULE InfluxSinkProofs -------------------------
(***************************************************************************)
(* Proofs about InfluxSink for every set of callback goroutines, every     *)
(* batch size and every number of messages, whether messages are dropped   *)
(* or not.                                                                 *)
(***************************************************************************)
EXTENDS InfluxSinkProps, FiniteSetTheorems, TLAPS

USE GoroutineAssumption, NumberAssumption DEF Goroutine

(* Where the goroutines can be, and that only a goroutine that is about to *)
(* send a batch has one.                                                   *)
Places ==
  /\ pc[Manager] # "unlock"
  /\ \A c \in Callback : pc[c] \in {"idle", "flush", "taking", "spawn", "unlock"}
  /\ \A g \in Goroutine : buf[g] # {} <=> pc[g] = "spawn"
  /\ {} \notin flying

(* Messages that have not been written yet are nowhere. *)
Held ==
  {m \in Message : \/ m \in encoder \cup delivered \cup reported
                   \/ \E b \in flying : m \in b
                   \/ \E g \in Goroutine : m \in buf[g]}
Unwritten == \A m \in Held \cup uncounted : m <= written

SinkInv == TypeOK /\ Places /\ TimerLockOwned /\ EncoderLockOwned
           /\ Unwritten /\ OneBatchPerMessage /\ BatchLimit /\ FullBatchLeaves

(* The steps of Next, each with its goroutine or batch. *)
LEMMA Steps ==
  ASSUME [Next]_vars,
         NEW P,
         Write => P, WriteFlushes => P, WriteFull => P, WriteStops => P,
         WriteArms => P, Flush => P, Close => P, CloseWaits => P,
         UNCHANGED vars => P,
         ASSUME NEW g \in Goroutine, FlushLocks(g) PROVE P,
         ASSUME NEW g \in Goroutine, FlushTakes(g) PROVE P,
         ASSUME NEW g \in Goroutine, FlushSpawns(g) PROVE P,
         ASSUME NEW c \in Callback, Fire(c) PROVE P,
         ASSUME NEW c \in Callback, Unlock(c) PROVE P,
         ASSUME NEW b \in flying, Send(b) PROVE P
  PROVE  P
BY DEF Next, WriteEnds, Flushing, Finished

(* No step breaks a type.                                                  *)
LEMMA Typing == TypeOK /\ [Next]_vars => TypeOK'
<1> SUFFICES ASSUME TypeOK, [Next]_vars PROVE TypeOK'
  OBVIOUS
<1> USE DEF TypeOK, Timer, GoTo, At, LockEncoder, UnlockEncoder, config, failures
<1>1. Write => TypeOK'
  <2> SUFFICES ASSUME Write PROVE TypeOK'
    OBVIOUS
  <2>1. written + 1 \in 0..MaxWrites /\ written + 1 \in Message
    BY DEF Write, Message
  <2>2. CASE WriteEncodes
    BY <2>1, <2>2 DEF Write, WriteEncodes, Location
  <2>3. CASE WriteFails
    BY <2>1, <2>3 DEF Write, WriteFails
  <2>4. CASE WriteFollows
    BY <2>1, <2>4 DEF Write, WriteFollows
  <2>5. CASE WriteDrops
    BY <2>1, <2>5 DEF Write, WriteDrops, Location
  <2> QED BY <2>2, <2>3, <2>4, <2>5 DEF Write
<1>2. WriteFlushes => TypeOK'
  BY DEF WriteFlushes, Location
<1>3. WriteFull => TypeOK'
  BY DEF WriteFull, Location
<1>4. WriteStops => TypeOK'
  BY DEF WriteStops, Stopped, Location
<1>5. WriteArms => TypeOK'
  <2> SUFFICES ASSUME WriteArms PROVE TypeOK'
    OBVIOUS
  <2>1. timer' \in Timer
    BY DEF WriteArms, Arm
  <2> QED BY <2>1 DEF WriteArms, Location
<1>6. Flush => TypeOK'
  BY DEF Flush, Location
<1>7. Close => TypeOK'
  BY DEF Close, Stopped, Location
<1>8. CloseWaits => TypeOK'
  BY DEF CloseWaits, Location
<1>9. UNCHANGED vars => TypeOK'
  BY DEF vars
<1>10. ASSUME NEW g \in Goroutine, FlushLocks(g) PROVE TypeOK'
  BY <1>10 DEF FlushLocks, Location
<1>11. ASSUME NEW g \in Goroutine, FlushTakes(g) PROVE TypeOK'
  <2>1. AfterFlush(g) \in Location /\ "spawn" \in Location
    BY DEF AfterFlush, Location
  <2> QED BY <1>11, <2>1 DEF FlushTakes
<1>12. ASSUME NEW g \in Goroutine, FlushSpawns(g) PROVE TypeOK'
  <2>1. AfterFlush(g) \in Location /\ buf[g] \in SUBSET Message
    BY DEF AfterFlush, Location
  <2> QED BY <1>12, <2>1 DEF FlushSpawns
<1>13. ASSUME NEW c \in Callback, Fire(c) PROVE TypeOK'
  BY <1>13 DEF Fire, Fired, Location
<1>14. ASSUME NEW c \in Callback, Unlock(c) PROVE TypeOK'
  BY <1>14 DEF Unlock, Unlocked, Location
<1>15. ASSUME NEW b \in flying, Send(b) PROVE TypeOK'
  BY <1>15 DEF Send
<1> QED
  BY <1>1, <1>2, <1>3, <1>4, <1>5, <1>6, <1>7, <1>8, <1>9, <1>10, <1>11, <1>12,
     <1>13, <1>14, <1>15, Steps

(* What each goroutine holds fits the place where it is.                   *)
LEMMA PlacesStep == SinkInv /\ [Next]_vars => Places'
<1> SUFFICES ASSUME SinkInv, [Next]_vars PROVE Places'
  OBVIOUS
<1> USE DEF SinkInv, TypeOK, Places, GoTo, At, config
<1>1. Write => Places'
  BY DEF Write, WriteEncodes, WriteFails, WriteFollows, WriteDrops, failures
<1>2. WriteFlushes => Places'
  BY DEF WriteFlushes
<1>3. WriteFull => Places'
  BY DEF WriteFull
<1>4. WriteStops => Places'
  BY DEF WriteStops, Stopped
<1>5. WriteArms => Places'
  BY DEF WriteArms, Arm
<1>6. Flush => Places'
  BY DEF Flush
<1>7. Close => Places'
  BY DEF Close, Stopped
<1>8. CloseWaits => Places'
  BY DEF CloseWaits
<1>9. UNCHANGED vars => Places'
  BY DEF vars
<1>10. ASSUME NEW g \in Goroutine, FlushLocks(g) PROVE Places'
  BY <1>10 DEF FlushLocks
<1>11. ASSUME NEW g \in Goroutine, FlushTakes(g) PROVE Places'
  BY <1>11 DEF FlushTakes, AfterFlush
<1>12. ASSUME NEW g \in Goroutine, FlushSpawns(g) PROVE Places'
  BY <1>12 DEF FlushSpawns, AfterFlush
<1>13. ASSUME NEW c \in Callback, Fire(c) PROVE Places'
  BY <1>13 DEF Fire, Fired
<1>14. ASSUME NEW c \in Callback, Unlock(c) PROVE Places'
  BY <1>14 DEF Unlock, Unlocked
<1>15. ASSUME NEW b \in flying, Send(b) PROVE Places'
  BY <1>15 DEF Send
<1> QED
  BY <1>1, <1>2, <1>3, <1>4, <1>5, <1>6, <1>7, <1>8, <1>9, <1>10, <1>11, <1>12,
     <1>13, <1>14, <1>15, Steps

(* Lock, TryLock, Stop and Unlock keep timerLock with one owner.           *)
LEMMA TimerLockStep == SinkInv /\ [Next]_vars => TimerLockOwned'
<1> SUFFICES ASSUME SinkInv, [Next]_vars PROVE TimerLockOwned'
  OBVIOUS
<1> USE DEF SinkInv, TypeOK, Places, TimerLockOwned, Running, Armed, Timer, GoTo, At
<1>1. Write => TimerLockOwned'
  BY DEF Write, WriteEncodes, WriteFails, WriteFollows, WriteDrops, failures
<1>2. WriteFlushes => TimerLockOwned'
  BY DEF WriteFlushes
<1>3. WriteFull => TimerLockOwned'
  BY DEF WriteFull
<1>4. WriteStops => TimerLockOwned'
  BY DEF WriteStops, Stopped
<1>5. WriteArms => TimerLockOwned'
  BY DEF WriteArms, Arm
<1>6. Flush => TimerLockOwned'
  BY DEF Flush
<1>7. Close => TimerLockOwned'
  BY DEF Close, Stopped
<1>8. CloseWaits => TimerLockOwned'
  BY DEF CloseWaits
<1>9. UNCHANGED vars => TimerLockOwned'
  BY DEF vars
<1>10. ASSUME NEW g \in Goroutine, FlushLocks(g) PROVE TimerLockOwned'
  BY <1>10 DEF FlushLocks
<1>11. ASSUME NEW g \in Goroutine, FlushTakes(g) PROVE TimerLockOwned'
  BY <1>11 DEF FlushTakes, AfterFlush
<1>12. ASSUME NEW g \in Goroutine, FlushSpawns(g) PROVE TimerLockOwned'
  BY <1>12 DEF FlushSpawns, AfterFlush
<1>13. ASSUME NEW c \in Callback, Fire(c) PROVE TimerLockOwned'
  BY <1>13 DEF Fire, Fired
<1>14. ASSUME NEW c \in Callback, Unlock(c) PROVE TimerLockOwned'
  BY <1>14 DEF Unlock, Unlocked
<1>15. ASSUME NEW b \in flying, Send(b) PROVE TimerLockOwned'
  BY <1>15 DEF Send
<1> QED
  BY <1>1, <1>2, <1>3, <1>4, <1>5, <1>6, <1>7, <1>8, <1>9, <1>10, <1>11, <1>12,
     <1>13, <1>14, <1>15, Steps

(* Write and Flush unlock encoderLock only when they have locked it.       *)
LEMMA EncoderLockStep == SinkInv /\ [Next]_vars => EncoderLockOwned'
<1> SUFFICES ASSUME SinkInv, [Next]_vars PROVE EncoderLockOwned'
  OBVIOUS
<1> USE DEF SinkInv, TypeOK, Places, EncoderLockOwned, HoldsEncoder, LockEncoder, UnlockEncoder, GoTo, At, config
<1>1. Write => EncoderLockOwned'
  BY DEF Write, WriteEncodes, WriteFails, WriteFollows, WriteDrops, failures
<1>2. WriteFlushes => EncoderLockOwned'
  BY DEF WriteFlushes
<1>3. WriteFull => EncoderLockOwned'
  BY DEF WriteFull
<1>4. WriteStops => EncoderLockOwned'
  BY DEF WriteStops, Stopped
<1>5. WriteArms => EncoderLockOwned'
  BY DEF WriteArms, Arm
<1>6. Flush => EncoderLockOwned'
  BY DEF Flush
<1>7. Close => EncoderLockOwned'
  BY DEF Close, Stopped
<1>8. CloseWaits => EncoderLockOwned'
  BY DEF CloseWaits
<1>9. UNCHANGED vars => EncoderLockOwned'
  BY DEF vars
<1>10. ASSUME NEW g \in Goroutine, FlushLocks(g) PROVE EncoderLockOwned'
  BY <1>10 DEF FlushLocks
<1>11. ASSUME NEW g \in Goroutine, FlushTakes(g) PROVE EncoderLockOwned'
  BY <1>11 DEF FlushTakes, AfterFlush
<1>12. ASSUME NEW g \in Goroutine, FlushSpawns(g) PROVE EncoderLockOwned'
  BY <1>12 DEF FlushSpawns, AfterFlush
<1>13. ASSUME NEW c \in Callback, Fire(c) PROVE EncoderLockOwned'
  BY <1>13 DEF Fire, Fired
<1>14. ASSUME NEW c \in Callback, Unlock(c) PROVE EncoderLockOwned'
  BY <1>14 DEF Unlock, Unlocked
<1>15. ASSUME NEW b \in flying, Send(b) PROVE EncoderLockOwned'
  BY <1>15 DEF Send
<1> QED
  BY <1>1, <1>2, <1>3, <1>4, <1>5, <1>6, <1>7, <1>8, <1>9, <1>10, <1>11, <1>12,
     <1>13, <1>14, <1>15, Steps

(* A step writes a message, moves a batch on its way, or moves nothing.    *)
Moves ==
  <<encoder, numRecordsInEncoder, uncounted, encErr, buf, flying, delivered, reported,
    written>>

Writes ==
  /\ pc[Manager] = "idle" /\ written < MaxWrites
  /\ UNCHANGED <<buf, flying, delivered, reported>>
  /\ \/ /\ ~encErr
        /\ written' = written + 1
        /\ encoder' = encoder \cup {written + 1}
        /\ numRecordsInEncoder' = numRecordsInEncoder + 1
        /\ UNCHANGED <<uncounted, encErr>>
     \/ /\ encErr
        /\ written' = written + 1
        /\ encoder' = encoder \cup {written + 1}
        /\ uncounted' = uncounted \cup {written + 1}
        /\ UNCHANGED <<numRecordsInEncoder, encErr>>
     \/ /\ written' \in {written, written + 1}
        /\ encErr' \in {encErr, TRUE}
        /\ UNCHANGED <<encoder, uncounted, numRecordsInEncoder>>

Takes(g) ==
  /\ pc[g] = "taking"
  /\ buf' = [buf EXCEPT ![g] = encoder]
  /\ encoder' = {} /\ numRecordsInEncoder' = 0
  /\ UNCHANGED <<uncounted, flying, delivered, reported, written>>

Spawns(g) ==
  /\ pc[g] = "spawn"
  /\ flying' = flying \cup {buf[g]}
  /\ buf' = [buf EXCEPT ![g] = {}]
  /\ UNCHANGED <<encoder, numRecordsInEncoder, uncounted, encErr, delivered, reported,
                 written>>

Sends(b) ==
  /\ flying' = flying \ {b}
  /\ \/ delivered' = delivered \cup b /\ UNCHANGED reported
     \/ reported' = reported \cup b /\ delivered' \in {delivered, delivered \cup b}
  /\ UNCHANGED <<encoder, numRecordsInEncoder, uncounted, encErr, buf, written>>

LEMMA MessageSteps ==
  ASSUME [Next]_vars,
         NEW P, UNCHANGED Moves => P, Writes => P,
         ASSUME NEW g \in Goroutine, Takes(g) PROVE P,
         ASSUME NEW g \in Goroutine, Spawns(g) PROVE P,
         ASSUME NEW b \in flying, Sends(b) PROVE P
  PROVE  P
<1>1. Write => P
  BY DEF Write, WriteEncodes, WriteFails, WriteFollows, WriteDrops, failures, At, Writes
<1>2. WriteFlushes \/ WriteFull \/ WriteStops \/ WriteArms => P
  BY DEF WriteFlushes, WriteFull, WriteStops, WriteArms, failures, Moves
<1>3. Flush \/ Close \/ CloseWaits \/ UNCHANGED vars => P
  BY DEF Flush, Close, CloseWaits, vars, failures, Moves
<1>4. ASSUME NEW g \in Goroutine, FlushLocks(g) PROVE P
  BY <1>4 DEF FlushLocks, failures, Moves
<1>5. ASSUME NEW g \in Goroutine, FlushTakes(g) PROVE P
  BY <1>5 DEF FlushTakes, At, Takes
<1>6. ASSUME NEW g \in Goroutine, FlushSpawns(g) PROVE P
  BY <1>6 DEF FlushSpawns, failures, At, Spawns
<1>7. ASSUME NEW c \in Callback, Fire(c) \/ Unlock(c) PROVE P
  BY <1>7 DEF Fire, Unlock, failures, Moves
<1>8. ASSUME NEW b \in flying, Send(b) PROVE P
  BY <1>8 DEF Send, failures, Sends
<1> QED BY <1>1, <1>2, <1>3, <1>4, <1>5, <1>6, <1>7, <1>8, Steps

(* The next message is nowhere in the sink.                                *)
LEMMA NextIsNew == ASSUME SinkInv PROVE written + 1 \notin Held
BY DEF SinkInv, TypeOK, Unwritten

(* Messages that Write has yet to take stay out of the sink.               *)
LEMMA UnwrittenStep == SinkInv /\ [Next]_vars => Unwritten'
<1> SUFFICES ASSUME SinkInv, [Next]_vars PROVE Unwritten'
  OBVIOUS
<1> DEFINE Seen == Held \cup uncounted
<1>1. \/ Seen' \subseteq Seen \cup {written + 1} /\ written' = written + 1
      \/ Seen' \subseteq Seen /\ written' \in {written, written + 1}
  <2> DEFINE P == \/ Seen' \subseteq Seen \cup {written + 1} /\ written' = written + 1
                  \/ Seen' \subseteq Seen /\ written' \in {written, written + 1}
  <2>1. UNCHANGED Moves => P
    BY DEF Moves, Held
  <2>2. Writes => P
    <3> SUFFICES ASSUME Writes PROVE P
      OBVIOUS
    <3>1. UNCHANGED <<buf, flying, delivered, reported>>
      BY DEF Writes
    <3>2. CASE /\ written' = written + 1 /\ encoder' \subseteq encoder \cup {written + 1}
               /\ uncounted' \subseteq uncounted \cup {written + 1}
      <4>1. Held' \subseteq Held \cup {written + 1}
        BY <3>1, <3>2 DEF Held
      <4> QED BY <3>2, <4>1
    <3>3. CASE UNCHANGED <<encoder, uncounted>> /\ written' \in {written, written + 1}
      <4>1. Held' = Held
        BY <3>1, <3>3 DEF Held
      <4> QED BY <3>3, <4>1
    <3> QED BY <3>2, <3>3 DEF Writes
  <2>3. ASSUME NEW g \in Goroutine, Takes(g) PROVE P
    BY <2>3 DEF Takes, Held, SinkInv, TypeOK
  <2>4. ASSUME NEW g \in Goroutine, Spawns(g) PROVE P
    BY <2>4 DEF Spawns, Held, SinkInv, TypeOK
  <2>5. ASSUME NEW b \in flying, Sends(b) PROVE P
    BY <2>5 DEF Sends, Held
  <2> HIDE DEF P
  <2>6. P
    BY <2>1, <2>2, <2>3, <2>4, <2>5, MessageSteps
  <2> QED BY <2>6 DEF P
<1>2. \A m \in Seen : m <= written /\ m \in Int
  BY DEF SinkInv, TypeOK, Unwritten, Held, Message
<1>3. written \in Int
  BY DEF SinkInv, TypeOK
<1> HIDE DEF Seen
<1>4. \A m \in Seen' : m <= written'
  BY <1>1, <1>2, <1>3
<1> QED BY <1>4 DEF Unwritten, Seen

(* Taking a batch empties the encoder, and a batch is its taker's alone    *)
(* until it is one of those under way.                                     *)
LEMMA OneBatchStep == SinkInv /\ [Next]_vars => OneBatchPerMessage'
<1> SUFFICES ASSUME SinkInv, [Next]_vars PROVE OneBatchPerMessage'
  OBVIOUS
<1> USE DEF OneBatchPerMessage
<1>1. UNCHANGED Moves => OneBatchPerMessage'
  BY DEF Moves, SinkInv
<1>2. Writes => OneBatchPerMessage'
  <2> SUFFICES ASSUME Writes PROVE OneBatchPerMessage'
    OBVIOUS
  <2>1. /\ \A g \in Goroutine : written + 1 \notin buf[g]
        /\ \A b \in flying : written + 1 \notin b
    BY NextIsNew DEF Held, SinkInv, TypeOK
  <2>2. encoder' \subseteq encoder \cup {written + 1} /\ UNCHANGED <<buf, flying>>
    BY DEF Writes
  <2> QED BY <2>1, <2>2 DEF SinkInv
<1>3. ASSUME NEW g \in Goroutine, Takes(g) PROVE OneBatchPerMessage'
  BY <1>3 DEF Takes, SinkInv, TypeOK
<1>4. ASSUME NEW g \in Goroutine, Spawns(g) PROVE OneBatchPerMessage'
  BY <1>4 DEF Spawns, SinkInv, TypeOK
<1>5. ASSUME NEW b \in flying, Sends(b) PROVE OneBatchPerMessage'
  BY <1>5 DEF Sends, SinkInv
<1> QED BY <1>1, <1>2, <1>3, <1>4, <1>5, MessageSteps

(* Sets of messages are finite.                                            *)
LEMMA MessagesFinite ==
  \A b \in SUBSET Message : IsFiniteSet(b) /\ Cardinality(b) \in Nat
<1>1. IsFiniteSet(Message)
  BY FS_Interval DEF Message
<1> QED BY <1>1, FS_Subset, FS_CardinalityType

(* What the number of counted messages of a batch is.                      *)
LEMMA CountedIsNumber ==
  ASSUME TypeOK, NEW b \in SUBSET Message PROVE Counted(b) \in Nat
<1>1. b \ uncounted \in SUBSET Message
  OBVIOUS
<1> QED BY <1>1, MessagesFinite DEF Counted

(* Write counts what it encodes without an error, and stops at the size of *)
(* a batch; a message that follows an error changes no count.              *)
LEMMA BatchLimitStep == SinkInv /\ [Next]_vars => BatchLimit'
<1> SUFFICES ASSUME SinkInv, [Next]_vars PROVE BatchLimit'
  OBVIOUS
<1> DEFINE Fits(b) == Cardinality(b \ uncounted) <= BatchSize
           FitsNext(b) == Cardinality(b \ uncounted') <= BatchSize
<1>1. /\ numRecordsInEncoder = Cardinality(encoder \ uncounted) /\ Fits(encoder)
      /\ encErr \/ encoder \cap uncounted = {}
      /\ \A b \in flying : Fits(b)
      /\ \A g \in Goroutine : Fits(buf[g])
  BY DEF SinkInv, BatchLimit, Counted
<1>2. \A S : Cardinality({} \ S) = 0 /\ 0 <= BatchSize
  <2>1. \A S : {} \ S = {}
    OBVIOUS
  <2> QED BY <2>1, FS_EmptySet
<1> DEFINE Limit == /\ numRecordsInEncoder' = Cardinality(encoder' \ uncounted')
                    /\ FitsNext(encoder')
                    /\ encErr' \/ encoder' \cap uncounted' = {}
                    /\ \A b \in flying' : FitsNext(b)
                    /\ \A g \in Goroutine : FitsNext(buf'[g])
<1>3. UNCHANGED Moves => Limit
  BY <1>1 DEF Moves
<1>4. Writes => Limit
  <2> SUFFICES ASSUME Writes PROVE Limit
    OBVIOUS
  <2> DEFINE new == written + 1
  <2>1. CASE /\ UNCHANGED <<encoder, uncounted, numRecordsInEncoder>>
             /\ encErr' \in {encErr, TRUE}
    <3>1. encErr' = encErr \/ encErr' = TRUE
      BY <2>1
    <3> QED BY <1>1, <2>1, <3>1 DEF Writes
  <2>2. CASE /\ encoder' = encoder \cup {new} /\ UNCHANGED <<uncounted, encErr>>
             /\ ~encErr
             /\ numRecordsInEncoder' = numRecordsInEncoder + 1
    <3>1. /\ encoder \ uncounted \in SUBSET Message /\ new \notin encoder
          /\ new \notin uncounted
      BY NextIsNew DEF Held, SinkInv, TypeOK, Unwritten
    <3>2. encoder' \ uncounted' = (encoder \ uncounted) \cup {new}
      BY <2>2, <3>1
    <3>3. Cardinality(encoder' \ uncounted') = Cardinality(encoder \ uncounted) + 1
      BY <3>1, <3>2, MessagesFinite, FS_AddElement
    <3>4. Cardinality(encoder \ uncounted) # BatchSize
      BY DEF Writes, SinkInv, FullBatchLeaves, Counted
    <3>5. Cardinality(encoder \ uncounted) \in Nat
      BY <3>1, MessagesFinite
    <3>6. FitsNext(encoder')
      BY <1>1, <3>3, <3>4, <3>5
    <3>7. encoder' \cap uncounted' = {}
      BY <1>1, <2>2, <3>1
    <3> QED BY <1>1, <2>2, <3>3, <3>6, <3>7 DEF Writes
  <2>3. CASE /\ encoder' = encoder \cup {new} /\ uncounted' = uncounted \cup {new}
             /\ encErr /\ UNCHANGED <<encErr, numRecordsInEncoder>>
    <3>1. /\ new \notin encoder
          /\ \A b \in flying : new \notin b
          /\ \A g \in Goroutine : new \notin buf[g]
      BY NextIsNew DEF Held, SinkInv, TypeOK
    <3>2. encoder' \ uncounted' = encoder \ uncounted
      BY <2>3, <3>1
    <3>3. \A b \in flying : b \ uncounted' = b \ uncounted
      BY <2>3, <3>1
    <3>4. \A g \in Goroutine : buf[g] \ uncounted' = buf[g] \ uncounted
      BY <2>3, <3>1
    <3> QED BY <1>1, <2>3, <3>2, <3>3, <3>4 DEF Writes
  <2> HIDE DEF Limit
  <2> QED BY <2>1, <2>2, <2>3 DEF Writes
<1>5. ASSUME NEW g \in Goroutine, Takes(g) PROVE Limit
  BY <1>1, <1>2, <1>5 DEF Takes, SinkInv, TypeOK
<1>6. ASSUME NEW g \in Goroutine, Spawns(g) PROVE Limit
  BY <1>1, <1>2, <1>6 DEF Spawns, SinkInv, TypeOK
<1>7. ASSUME NEW b \in flying, Sends(b) PROVE Limit
  BY <1>1, <1>7 DEF Sends
<1> HIDE DEF Limit
<1>8. Limit
  BY <1>3, <1>4, <1>5, <1>6, <1>7, MessageSteps
<1> QED BY <1>8 DEF Limit, BatchLimit, Counted

(* A full encoder keeps the manager on its way to a flush.                 *)
LEMMA FullBatchStep == SinkInv /\ [Next]_vars => FullBatchLeaves'
<1> SUFFICES ASSUME SinkInv, [Next]_vars PROVE FullBatchLeaves'
  OBVIOUS
<1> USE DEF SinkInv, TypeOK, FullBatchLeaves, Counted, GoTo, At, failures
<1>1. Write => FullBatchLeaves'
  <2> SUFFICES ASSUME Write PROVE FullBatchLeaves'
    OBVIOUS
  <2>1. CASE WriteEncodes \/ WriteDrops
    BY <2>1 DEF Write, WriteEncodes, WriteDrops
  <2>2. CASE WriteFails
    BY <2>2 DEF Write, WriteFails
  <2>3. CASE WriteFollows
    <3>1. encoder' \ uncounted' = encoder \ uncounted
      BY <2>3, NextIsNew DEF WriteFollows, Write, Held, Message
    <3> QED BY <2>3, <3>1 DEF WriteFollows
  <2> QED BY <2>1, <2>2, <2>3 DEF Write
<1>2. WriteFlushes => FullBatchLeaves'
  BY DEF WriteFlushes
<1>3. WriteFull => FullBatchLeaves'
  BY DEF WriteFull
<1>4. WriteStops => FullBatchLeaves'
  BY DEF WriteStops
<1>5. WriteArms => FullBatchLeaves'
  BY DEF WriteArms, IsFull, BatchLimit
<1>6. Flush => FullBatchLeaves'
  BY DEF Flush
<1>7. Close => FullBatchLeaves'
  BY DEF Close
<1>8. CloseWaits => FullBatchLeaves'
  BY DEF CloseWaits
<1>9. UNCHANGED vars => FullBatchLeaves'
  BY DEF vars
<1>10. ASSUME NEW g \in Goroutine, FlushLocks(g) PROVE FullBatchLeaves'
  BY <1>10 DEF FlushLocks
<1>11. ASSUME NEW g \in Goroutine, FlushTakes(g) PROVE FullBatchLeaves'
  <2>1. {} \ uncounted = {}
    OBVIOUS
  <2>2. Cardinality(encoder' \ uncounted') # BatchSize
    BY <1>11, <2>1, FS_EmptySet DEF FlushTakes
  <2> QED BY <2>2
<1>12. ASSUME NEW g \in Goroutine, FlushSpawns(g) PROVE FullBatchLeaves'
  BY <1>12 DEF FlushSpawns
<1>13. ASSUME NEW c \in Callback, Fire(c) PROVE FullBatchLeaves'
  BY <1>13 DEF Fire
<1>14. ASSUME NEW c \in Callback, Unlock(c) PROVE FullBatchLeaves'
  BY <1>14 DEF Unlock
<1>15. ASSUME NEW b \in flying, Send(b) PROVE FullBatchLeaves'
  BY <1>15 DEF Send
<1> QED
  BY <1>1, <1>2, <1>3, <1>4, <1>5, <1>6, <1>7, <1>8, <1>9, <1>10, <1>11, <1>12,
     <1>13, <1>14, <1>15, Steps
-----------------------------------------------------------------------------
(* A new sink has no messages, no timer and free locks.                    *)
LEMMA InitSink == Init => SinkInv
<1> SUFFICES ASSUME Init PROVE SinkInv
  OBVIOUS
<1> USE DEF Init
<1>1. TypeOK
  <2>1. timer \in Timer /\ pc \in [Goroutine -> Location]
    BY DEF Timer, NewTimer, Location
  <2>2. buf \in [Goroutine -> SUBSET Message] /\ written \in 0..MaxWrites
    OBVIOUS
  <2> QED BY <2>1, <2>2 DEF TypeOK
<1>2. Places
  BY DEF Places
<1>3. TimerLockOwned /\ EncoderLockOwned
  BY DEF TimerLockOwned, EncoderLockOwned, HoldsEncoder, NewTimer, Running, Armed
<1>4. Unwritten
  BY DEF Unwritten, Held
<1>5. OneBatchPerMessage
  BY DEF OneBatchPerMessage
<1>6. BatchLimit /\ FullBatchLeaves
  <2>1. {} \ uncounted = {}
    OBVIOUS
  <2> QED BY <2>1, FS_EmptySet DEF BatchLimit, FullBatchLeaves, Counted
<1> QED
  BY <1>1, <1>2, <1>3, <1>4, <1>5, <1>6 DEF SinkInv

(* The inductive invariant: the types, where goroutines and messages can   *)
(* be, who holds the two locks, and the sizes of the batches.              *)
THEOREM SinkInvHolds == Spec => []SinkInv
<1>1. SinkInv /\ [Next]_vars => SinkInv'
  BY Typing, PlacesStep, TimerLockStep, EncoderLockStep, UnwrittenStep, OneBatchStep,
     BatchLimitStep, FullBatchStep DEF SinkInv
<1> QED
  BY InitSink, <1>1, PTL DEF Spec

(* Both locks always have one owner, and as long as no message is dropped  *)
(* the program does not end on the Unlock of a free mutex.                 *)
THEOREM LocksAlwaysOwned == Spec => []LocksOwned
<1>1. SinkInv => LocksOwned
  BY DEF SinkInv, LocksOwned
<1> QED
  BY SinkInvHolds, <1>1, PTL

(* Batches keep their limit, leave when they are full, and share nothing.  *)
THEOREM BatchesAlwaysRight == Spec => []BatchesAreRight
<1>1. SinkInv => BatchesAreRight
  BY DEF SinkInv, BatchesAreRight
<1> QED
  BY SinkInvHolds, <1>1, PTL
-----------------------------------------------------------------------------
(* The refinement: every step of the sink is a step of Outbox or none.     *)

Flying == (flying \cup {buf[g] : g \in Goroutine}) \ {{}}

(* Every message that the outbox knows is in the sink.                     *)
LEMMA KnownIsHeld == ASSUME SinkInv PROVE Promise!Known \cap Message \subseteq Held
<1>1. Promise!Known = encoder \cup (UNION Flying) \cup delivered \cup reported
  BY DEF Promise!Known, Flying
<1>2. UNION Flying \subseteq Message
  BY DEF SinkInv, TypeOK, Flying
<1>3. \A b \in Flying : b \in flying \/ \E g \in Goroutine : b = buf[g]
  BY DEF Flying
<1>4. UNION Flying \subseteq Held
  BY <1>2, <1>3 DEF Held
<1> QED BY <1>1, <1>4 DEF Held

(* Every step of the sink maps to a step of the outbox or to none.         *)
LEMMA OutboxStep == SinkInv /\ [Next]_vars => [Promise!Next]_(Promise!outbox)
<1> SUFFICES ASSUME SinkInv, [Next]_vars
             PROVE  [Promise!Next]_(Promise!outbox)
  OBVIOUS
<1>1. UNCHANGED <<encoder, Flying, delivered, reported>>
        => [Promise!Next]_(Promise!outbox)
  BY DEF Promise!outbox, Flying
<1>2. UNCHANGED Moves => [Promise!Next]_(Promise!outbox)
  BY <1>1 DEF Moves, Flying
<1>3. Writes => [Promise!Next]_(Promise!outbox)
  <2> SUFFICES ASSUME Writes PROVE [Promise!Next]_(Promise!outbox)
    OBVIOUS
  <2>1. UNCHANGED <<Flying, delivered, reported>>
    BY DEF Writes, Flying
  <2>2. CASE encoder' = encoder \cup {written + 1}
    <3>1. written + 1 \in Message
      BY DEF Writes, SinkInv, TypeOK, Message
    <3>2. written + 1 \notin Promise!Known
      BY <3>1, NextIsNew, KnownIsHeld
    <3>3. Promise!Accept(written + 1)
      BY <2>1, <2>2, <3>2 DEF Promise!Accept, Flying
    <3> QED BY <3>1, <3>3 DEF Promise!Next
  <2>3. CASE encoder' = encoder
    BY <1>1, <2>1, <2>3
  <2> QED BY <2>2, <2>3 DEF Writes
<1>4. ASSUME NEW g \in Goroutine, Takes(g) PROVE [Promise!Next]_(Promise!outbox)
  <2>1. buf[g] = {}
    BY <1>4 DEF Takes, SinkInv, Places
  <2>2. CASE encoder = {}
    <3>1. buf' = buf
      BY <1>4, <2>1, <2>2 DEF Takes, SinkInv, TypeOK
    <3> QED BY <1>1, <1>4, <2>2, <3>1 DEF Takes, Flying
  <2>3. CASE encoder # {}
    <3>1. Flying' = Flying \cup {encoder}
      BY <1>4, <2>1, <2>3 DEF Takes, SinkInv, TypeOK, Flying
    <3>2. Promise!Depart
      BY <1>4, <2>3, <3>1 DEF Takes, Flying, Promise!Depart
    <3> QED BY <3>2 DEF Promise!Next
  <2> QED BY <2>2, <2>3
<1>5. ASSUME NEW g \in Goroutine, Spawns(g) PROVE [Promise!Next]_(Promise!outbox)
  <2>1. Flying' = Flying
    BY <1>5 DEF Spawns, SinkInv, TypeOK, Flying
  <2> QED BY <1>1, <1>5, <2>1 DEF Spawns
<1>6. ASSUME NEW b \in flying, Sends(b) PROVE [Promise!Next]_(Promise!outbox)
  <2>1. b # {} /\ \A g \in Goroutine : buf[g] # b
    BY DEF SinkInv, Places, OneBatchPerMessage
  <2>2. b \in Flying /\ Flying' = Flying \ {b}
    BY <1>6, <2>1 DEF Sends, Flying
  <2>3. Promise!Land(b)
    BY <1>6, <2>2 DEF Sends, Flying, Promise!Land
  <2> QED BY <2>2, <2>3 DEF Promise!Next, Flying
<1> QED BY <1>2, <1>3, <1>4, <1>5, <1>6, MessageSteps

(* InfluxSink implements Outbox: a message that was accepted leaves in one *)
(* batch, and that batch is delivered or reported.                         *)
THEOREM InfluxSinkImplementsOutbox == Spec => ImplementsOutbox
<1>1. Init => Promise!Init
  BY DEF Init, Promise!Init
<1> QED
  BY <1>1, OutboxStep, SinkInvHolds, PTL
     DEF Spec, ImplementsOutbox, Promise!Spec
=============================================================================
