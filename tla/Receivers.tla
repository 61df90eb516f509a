----------------------------- MODULE Receivers -----------------------------
(***************************************************************************)
(* receivers/receiveManager.go with the two receivers that poll devices,   *)
(* receivers/redfishReceiver.go (a pool of workers per round) and          *)
(* receivers/ipmiReceiver.go (one loop), in front of the sink manager:     *)
(* what they send goes into the channel that the sink manager reads.       *)
(*                                                                         *)
(* Which readings of a device become messages is the subject of            *)
(* DeviceReadings; here a device yields some number of messages.           *)
(***************************************************************************)
EXTENDS SinkManager, Integers, FiniteSets

CONSTANTS
  Config   (* possible configurations: the receivers, the hosts of the    *)
           (* Redfish clients and their fanout, and a bound on the        *)
           (* messages that a device yields per round                     *)

Receiver == {"redfish", "ipmi"}

(* The names of hosts; the two others stand for a worker without one. *)
Host == STRING \ {"idle", "gone"}

ASSUME ReceiverAssumption ==
  \A c \in Config : /\ c.receivers \subseteq Receiver
                     /\ c.hosts \in Seq(Host)
                     /\ c.fanout \in Int /\ c.readings \in Nat

(***************************************************************************)
(* rm is the state of the receive manager and of its receivers:            *)
(*   config     the configuration                                          *)
(*   inputs     rm.inputs                                                  *)
(*   sinked     the receivers on which SetSink was called                  *)
(*   stage      of the calls of the program: setup, wired, running, closed *)
(*   loop       where the goroutine of each receiver's Start is            *)
(*   done       the receivers whose channel done is closed                 *)
(*   next       the local i of its doReadMetric                            *)
(*   queue      its channel workerInput, closed when loop is "waiting"     *)
(*   worker     its config.fanout workers                                  *)
(*   polled     history: the hosts that had their turn since it began      *)
(*   readings   the lines that ipmi-sensors has still to print             *)
(***************************************************************************)
VARIABLE rm

Idle == [at |-> "idle", left |-> 0]
Gone == [at |-> "gone", left |-> 0]

AcceptedUnchecked(c) == c # <<>>   \* mutant: duplicates are not searched for

(* NewRedfishReceiver refuses an empty list and a host that occurs twice. *)
Accepted(c) == c # <<>> /\ \A i, j \in DOMAIN c : c[i] = c[j] => i = j

(* min(numClients, configJSON.Fanout): nobody refuses 0 or less. *)
Fanout(c) == IF Len(c.hosts) < c.fanout THEN Len(c.hosts) ELSE c.fanout

ReceiversInit ==
  /\ Init
  /\ \E c \in Config :
       rm = [config |-> c, inputs |-> <<>>, sinked |-> {}, stage |-> "setup",
             loop |-> [r \in Receiver |-> "created"], done |-> {},
             next |-> 1, queue |-> <<>>,
             worker |-> [w \in 1..Fanout(c) |-> Gone], polled |-> {},
             readings |-> 0]

IsInput(r) == \E k \in DOMAIN rm.inputs : rm.inputs[k] = r
Pool == DOMAIN rm.worker

(* A panic in any goroutine ends the program. *)
Alive == rm.loop["redfish"] # "panicked"
-----------------------------------------------------------------------------
(* A receiver that cannot be made is skipped. *)
AddInput(r) ==
  /\ rm.stage \in {"setup", "wired"} /\ r \in rm.config.receivers /\ ~IsInput(r)
  /\ r = "redfish" => Accepted(rm.config.hosts)
  /\ rm' = [rm EXCEPT !.inputs = Append(@, r)]
  /\ UNCHANGED vars

(* Only the receivers that are there by now get the channel. *)
AddOutput ==
  /\ rm.stage = "setup"
  /\ rm' = [rm EXCEPT !.stage = "wired",
                      !.sinked = {r \in Receiver : IsInput(r)}]
  /\ UNCHANGED vars

StartReceivers ==
  /\ rm.stage = "wired"
  /\ rm' = [rm EXCEPT !.stage = "running",
                      !.loop = [r \in Receiver |->
                                  IF IsInput(r) THEN "round" ELSE @[r]]]
  /\ UNCHANGED vars

(* Close goes through the receivers: each closes done and waits for its    *)
(* goroutine before the next one is asked.                                 *)
CloseReceiver(k) ==
  /\ rm.stage = "running"
  /\ k \in DOMAIN rm.inputs
  /\ \A j \in 1..(k - 1) : rm.loop[rm.inputs[j]] = "ended"
  /\ rm.inputs[k] \notin rm.done
  /\ rm' = [rm EXCEPT !.done = @ \cup {rm.inputs[k]}]
  /\ UNCHANGED vars

ReceiversClosedUnwaited ==   \* mutant: r.wg.Wait() is missing
  /\ rm.stage = "running"
  /\ \A k \in DOMAIN rm.inputs : rm.inputs[k] \in rm.done
  /\ rm' = [rm EXCEPT !.stage = "closed"]
  /\ UNCHANGED vars

ReceiversClosed ==
  /\ rm.stage = "running"
  /\ \A k \in DOMAIN rm.inputs :
       rm.inputs[k] \in rm.done /\ rm.loop[rm.inputs[k]] = "ended"
  /\ rm' = [rm EXCEPT !.stage = "closed"]
  /\ UNCHANGED vars
-----------------------------------------------------------------------------
(* Between two rounds a select waits for the ticker and for done; when     *)
(* both are ready it takes either.                                         *)
Tick(r) ==
  /\ rm.loop[r] = "ticker"
  /\ rm' = [rm EXCEPT !.loop[r] = "round"]
  /\ UNCHANGED vars

End(r) ==
  /\ rm.loop[r] = "ticker" /\ r \in rm.done
  /\ rm' = [rm EXCEPT !.loop[r] = "ended"]
  /\ UNCHANGED vars

(* Redfish: a round starts the workers and hands them the clients, until   *)
(* done is closed, which empties their channel.  Without workers nobody    *)
(* receives from it.                                                       *)
StartWorkers ==
  /\ rm.loop["redfish"] = "round" /\ Fanout(rm.config) >= 0
  /\ rm' = [rm EXCEPT !.loop["redfish"] = "distribute", !.next = 1, !.polled = {},
                      !.worker = [w \in Pool |-> Idle]]
  /\ UNCHANGED vars

(* make(chan, n) panics when n is negative. *)
PoolPanics ==
  /\ rm.loop["redfish"] = "round" /\ Fanout(rm.config) < 0
  /\ rm' = [rm EXCEPT !.loop["redfish"] = "panicked"]
  /\ UNCHANGED vars

Distribute ==
  /\ rm.loop["redfish"] = "distribute" /\ rm.next <= Len(rm.config.hosts)
  /\ Len(rm.queue) < Cardinality(Pool)
  /\ rm' = [rm EXCEPT !.queue = Append(@, rm.config.hosts[rm.next]), !.next = @ + 1]
  /\ UNCHANGED vars

DistributionStopsOnce ==   \* mutant: Close sends on done, once, and does not close it
  /\ rm.loop["redfish"] = "distribute" /\ rm.next <= Len(rm.config.hosts)
  /\ "redfish" \in rm.done
  /\ rm' = [rm EXCEPT !.loop["redfish"] = "waiting", !.queue = <<>>,
                      !.done = @ \ {"redfish"}]
  /\ UNCHANGED vars

DistributionStops ==
  /\ rm.loop["redfish"] = "distribute" /\ rm.next <= Len(rm.config.hosts)
  /\ "redfish" \in rm.done
  /\ rm' = [rm EXCEPT !.loop["redfish"] = "waiting", !.queue = <<>>]
  /\ UNCHANGED vars

DistributedEarly ==   \* mutant: the last client is forgotten
  /\ rm.loop["redfish"] = "distribute" /\ rm.next >= Len(rm.config.hosts)
  /\ rm' = [rm EXCEPT !.loop["redfish"] = "waiting"]
  /\ UNCHANGED vars

Distributed ==
  /\ rm.loop["redfish"] = "distribute" /\ rm.next > Len(rm.config.hosts)
  /\ rm' = [rm EXCEPT !.loop["redfish"] = "waiting"]
  /\ UNCHANGED vars

RoundEnds ==
  /\ rm.loop["redfish"] = "waiting"
  /\ \A w \in Pool : rm.worker[w] = Gone
  /\ rm' = [rm EXCEPT !.loop["redfish"] = "ticker"]
  /\ UNCHANGED vars

(* readMetrics of one client; a device that cannot be reached yields       *)
(* nothing.                                                                *)
Take(w) ==
  /\ rm.worker[w] = Idle /\ rm.queue # <<>>
  /\ \E n \in 0..rm.config.readings :
       rm' = [rm EXCEPT !.worker[w] = [at |-> Head(rm.queue), left |-> n],
                        !.polled = @ \cup {Head(rm.queue)}, !.queue = Tail(@)]
  /\ UNCHANGED vars

(* r.sink <- m waits for room in the channel, and without a channel for    *)
(* ever; done is not looked at.                                            *)
SendReading(w) ==
  /\ rm.worker[w].left > 0 /\ "redfish" \in rm.sinked
  /\ rm' = [rm EXCEPT !.worker[w].left = @ - 1]
  /\ Produce

(* readMetrics may panic, which DeviceReadings is about. *)
ReadingPanics(w) ==
  /\ rm.worker[w] \notin {Idle, Gone}
  /\ rm' = [rm EXCEPT !.loop["redfish"] = "panicked"]
  /\ UNCHANGED vars

NextClient(w) ==
  /\ rm.worker[w] \notin {Idle, Gone} /\ rm.worker[w].left = 0
  /\ rm' = [rm EXCEPT !.worker[w] = Idle]
  /\ UNCHANGED vars

WorkerEndsEarly(w) ==   \* mutant: a worker ends when the channel is empty
  /\ rm.worker[w] = Idle /\ rm.queue = <<>>
  /\ rm' = [rm EXCEPT !.worker[w] = Gone]
  /\ UNCHANGED vars

WorkerEnds(w) ==
  /\ rm.worker[w] = Idle /\ rm.queue = <<>> /\ rm.loop["redfish"] = "waiting"
  /\ rm' = [rm EXCEPT !.worker[w] = Gone]
  /\ UNCHANGED vars

(* IPMI: the goroutine itself runs ipmi-sensors and sends what it prints.  *)
RunSensors ==
  /\ rm.loop["ipmi"] = "round"
  /\ \E n \in 0..rm.config.readings :
       rm' = [rm EXCEPT !.loop["ipmi"] = "scan", !.readings = n]
  /\ UNCHANGED vars

ScanLine ==
  /\ rm.loop["ipmi"] = "scan" /\ rm.readings > 0 /\ "ipmi" \in rm.sinked
  /\ rm' = [rm EXCEPT !.readings = @ - 1]
  /\ Produce

ScanEnds ==
  /\ rm.loop["ipmi"] = "scan" /\ rm.readings = 0
  /\ rm' = [rm EXCEPT !.loop["ipmi"] = "ticker"]
  /\ UNCHANGED vars
-----------------------------------------------------------------------------
WorkerStep(w) == Take(w) \/ SendReading(w) \/ NextClient(w) \/ WorkerEnds(w)
RedfishLoop == \/ StartWorkers \/ PoolPanics \/ Distribute \/ DistributionStops
               \/ Distributed \/ RoundEnds
IpmiLoop == RunSensors \/ ScanLine \/ ScanEnds
ManagerStep ==
  (Start \/ Close \/ SelectDone \/ CloseReturns \/ Loop) /\ UNCHANGED rm

ReceiversNext ==
  /\ Alive
  /\ \/ \E r \in Receiver : AddInput(r) \/ Tick(r) \/ End(r)
     \/ AddOutput \/ StartReceivers \/ ReceiversClosed
     \/ \E k \in 1..2 : CloseReceiver(k)
     \/ \E w \in Pool : WorkerStep(w) \/ ReadingPanics(w)
     \/ RedfishLoop \/ IpmiLoop
     \/ ManagerStep

(***************************************************************************)
(* Goroutines run, devices answer or time out, tickers tick, select        *)
(* chooses at random among the cases that are ready, and a channel serves  *)
(* those that wait for it in their order: hence strong fairness where a    *)
(* step may be disabled again.  The first Close is a free choice.          *)
(***************************************************************************)
allVars == <<vars, rm>>

ReceiversSpec ==
  /\ ReceiversInit /\ [][ReceiversNext]_allVars
  /\ WF_allVars(Alive /\ Loop /\ UNCHANGED rm)
  /\ WF_allVars(Alive /\ CloseReturns /\ UNCHANGED rm)
  /\ SF_allVars(Alive /\ SelectDone /\ UNCHANGED rm)
  /\ WF_allVars(RedfishLoop \/ Tick("redfish"))
  /\ SF_allVars(Alive /\ (IpmiLoop \/ Tick("ipmi")))
  /\ \A r \in Receiver : SF_allVars(Alive /\ End(r))
  /\ \A w \in 1..2 : SF_allVars(Alive /\ w \in Pool /\ WorkerStep(w))
  /\ WF_allVars(Alive /\ (CloseReceiver(2) \/ ReceiversClosed))
=============================================================================
