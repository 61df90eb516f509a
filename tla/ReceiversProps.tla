-------------------------- MODULE ReceiversProps --------------------------
(***************************************************************************)
(* The properties of the receive manager and its polling receivers, and    *)
(* of the way from them through the sink manager.                          *)
(***************************************************************************)
EXTENDS Receivers, SinkManagerProps

(* A device gets one session at a time, and the maps of its entry of       *)
(* ClientConfigs (readSensorURLs and skipProcessorMetricsURL) are used     *)
(* without a lock: no two workers have the same host, and no worker has    *)
(* one that waits in the channel, in this round or left over from the one  *)
(* before.  Hosts are named once, so that a host stands for its entry.     *)
OneWorkerPerHost ==
  \A w \in Pool : rm.worker[w] \notin {Idle, Gone} =>
    /\ \A v \in Pool : rm.worker[v].at = rm.worker[w].at => v = w
    /\ \A k \in DOMAIN rm.queue : rm.queue[k] # rm.worker[w].at

(* When Close of the receive manager has returned, no goroutine is left    *)
(* that sends to the channel.                                              *)
ClosedReceiversAreQuiet ==
  [][rm.stage = "closed" => sent' = sent]_allVars

Hosts(c) == {c.hosts[k] : k \in DOMAIN c.hosts}
Flows == pc # "created" /\ closer = "idle"

(* Every host has its turn in every round that Close does not cut short:   *)
(* a round ends only when all hosts of the list have been with a worker    *)
(* since it began.                                                         *)
EveryHostIsPolled ==
  [][rm.loop["redfish"] = "waiting" /\ rm'.loop["redfish"] = "ticker"
       => "redfish" \in rm.done \/ rm.polled = Hosts(rm.config)]_allVars

(* When rounds need not go on: the sink manager does not take messages,    *)
(* Close has been called, the receiver has no channel, or no workers, or a *)
(* panic has ended the program.                                            *)
Halted == \/ ~Flows \/ rm.done # {} \/ "redfish" \notin rm.sinked
          \/ rm.config.fanout < 1 \/ ~Alive

(* Every round ends and is followed by another one, however long devices   *)
(* take.  With a fanout of 0, which nobody refuses, the first round waits  *)
(* for Close; with less, making the channel panics.                        *)
RoundsGoOn ==
  /\ rm.loop["redfish"] \in {"round", "distribute", "waiting"}
       ~> rm.loop["redfish"] = "ticker" \/ Halted
  /\ rm.loop["redfish"] = "ticker" ~> rm.loop["redfish"] = "distribute" \/ Halted

(* Close of the receive manager returns, if every receiver was given the   *)
(* channel, the sink manager takes the messages, and nothing panics.       *)
ReceiversCloseEnds ==
  rm.done # {}
    ~> \/ rm.stage = "closed" \/ ~Flows \/ ~Alive
       \/ \E r \in Receiver : IsInput(r) /\ r \notin rm.sinked

(* Close of a started sink manager returns, although producers may keep    *)
(* the channel filled for ever, unless the program ends before.            *)
CloseEnds == closer # "idle" /\ pc # "created" ~> closer = "returned" \/ ~Alive
=============================================================================
