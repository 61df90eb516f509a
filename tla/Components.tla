----------------------------- MODULE Components -----------------------------
(***************************************************************************)
(* The components that keep no state between calls, or only that of one    *)
(* object, in one state space: a behaviour is about one of them, which its *)
(* initial state chooses together with the input.                          *)
(***************************************************************************)
EXTENDS DeviceReadings, ReceiverConfigs, JobMetrics, Units, NodeTopology,
        Resampling, Users, CcMessages, PushReceivers, OtherSinks

(* Algorithms: nothing happens after the initial state. *)
InputInit ==
  \/ IpmiInit \/ ConfigInit \/ JobMetricInit \/ UnitInit \/ TopologyInit
  \/ ResampleInit \/ UserInit \/ MessageInit \/ PushInit
  \/ SinkInit

Init ==
  InputInit \/ RedfishInit \/ AnalysisInit \/ PrometheusInit \/ AsyncInit

Next ==
  \/ ReadDevice
  \/ NewTask \/ AddToTask \/ AnalyseJob \/ ResetJob
  \/ WriteGauge
  \/ AsyncWrite \/ AsyncAssigns \/ AsyncFires \/ AsyncFlush \/ AsyncClose

Spec == Init /\ [][Next]_st
-----------------------------------------------------------------------------
(* The answers of the schema package about a job's node and about its user *)
(* do not contradict each other (schema/cluster.go, schema/user.go).       *)
SchemaAnswersAgree == ExclusiveIsAll /\ RolesAgree
=============================================================================
