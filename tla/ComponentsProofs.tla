-------------------------- MODULE ComponentsProofs --------------------------
(***************************************************************************)
(* The components of one run: what those with state promise for every      *)
(* value of the constants, and those without for inputs of every size, in  *)
(* the lemmas whose names begin with Any.  A behaviour is about the        *)
(* component that its initial state chooses, and stays about it.           *)
(***************************************************************************)
EXTENDS Components, FiniteSetTheorems, FunctionTheorems, SequenceTheorems, TLAPS

(* The behaviours that the theorems are about. *)
Covered ==
  {"redfish", "analysis", "prometheus", "async", "resample", "user",
   "newRedfish", "newIpmi", "unit", "message", "push", "scrape", "pushConfig", "rank",
   "topology", "gangliaName", "column", "jobMetric"}

(* Every initial state says which component it is about.                   *)
LEMMA InitChooses ==
  ASSUME Init
  PROVE  /\ "kind" \in DOMAIN st
         /\ st.kind \in Covered => \/ RedfishInit /\ Is("redfish")
                                   \/ AnalysisInit /\ Is("analysis")
                                   \/ PrometheusInit /\ Is("prometheus")
                                   \/ AsyncInit /\ Is("async")
                                   \/ ResampleInit /\ Is("resample")
                                   \/ UserInit /\ Is("user")
                                   \/ ConfigInit /\ (Is("newRedfish") \/ Is("newIpmi"))
                                   \/ UnitInit /\ Is("unit")
                                   \/ MessageInit /\ Is("message")
                                   \/ RequestInit /\ Is("push")
                                   \/ ScrapeInit /\ Is("scrape")
                                   \/ PushConfigInit /\ Is("pushConfig")
                                   \/ RankInit /\ Is("rank")
                                   \/ TopologyInit /\ Is("topology")
                                   \/ GangliaNameInit /\ Is("gangliaName")
                                   \/ ColumnInit /\ Is("column")
                                   \/ JobMetricInit /\ Is("jobMetric")
<1>1. CASE RedfishInit
  <2>1. PICK e, p : st = [kind |-> "redfish", cc |-> [excluded |-> e, do |-> p,
                                                     dropped |-> {"fan_speed"}],
                          cache |-> [urls |-> Unread, skip |-> FALSE], sent |-> {},
                          end |-> "none", readable |-> {}, healthy |-> Unread,
                          blind |-> FALSE, absent |-> FALSE, round |-> 0]
    BY <1>1, Zenon DEF RedfishInit
  <2> QED BY ONLY <1>1, <2>1 DEF Is
<1>2. CASE AnalysisInit
  BY <1>2 DEF AnalysisInit, Is
<1>3. CASE PrometheusInit
  BY <1>3 DEF PrometheusInit, Is
<1>4. CASE AsyncInit
  BY <1>4 DEF AsyncInit, Is
<1>5. CASE IpmiInit
  BY <1>5 DEF IpmiInit, Covered
<1>6. CASE ConfigInit
  <2>1. PICK kind \in {"newRedfish", "newIpmi"} : \E cfg : st = [kind |-> kind, cfg |-> cfg]
    BY <1>6, Zenon DEF ConfigInit
  <2> QED BY ONLY <1>6, <2>1 DEF Is
<1>7. CASE JobMetricInit
  <2>1. \E a, b, c, d \in Data,
           hosts \in {<<"h", "h", "h", "h">>, <<"h", "i", "h", "i">>},
           more \in {<<>>, <<<<{4}>>>>} :
          LET data == <<a, b, c, d>> \o more IN
            st = [kind |-> "jobMetric",
                  jm |-> [series |-> [j \in DOMAIN data |->
                                        SeriesOf((hosts \o <<"h">>)[j], data[j])],
                          stats |-> <<>>]]
    BY <1>7, Zenon DEF JobMetricInit
  <2>2. \E jm : st = [kind |-> "jobMetric", jm |-> jm]
    BY <2>1, Zenon
  <2>3. PICK jm : st = [kind |-> "jobMetric", jm |-> jm]
    BY <2>2
  <2> QED BY ONLY <1>7, <2>3 DEF Is
<1>8. CASE UnitInit
  <2>1. PICK in, out : st = [kind |-> "unit", in |-> in, out |-> out]
    BY <1>8, Zenon DEF UnitInit
  <2> QED BY ONLY <1>8, <2>1 DEF Is
<1>9. CASE TopologyInit
  <2>1. PICK topo, list : st = [kind |-> "topology", topo |-> topo, list |-> list]
    BY <1>9, Zenon DEF TopologyInit
  <2> QED BY ONLY <1>9, <2>1 DEF Is
<1>10. CASE ResampleInit
  <2>1. PICK data, old, new :
          st = [kind |-> "resample", data |-> data, old |-> old, new |-> new]
    BY <1>10, Zenon DEF ResampleInit
  <2> QED BY ONLY <1>10, <2>1 DEF Is
<1>11. CASE UserInit
  <2>1. PICK roles, query :
          st = [kind |-> "user", user |-> [roles |-> roles], query |-> query]
    BY <1>11, Zenon DEF UserInit
  <2> QED BY ONLY <1>11, <2>1 DEF Is
<1>12. CASE MessageInit
  <2>1. PICK name, tags, meta, fields, time, keys, added :
          st = [kind |-> "message", name |-> name, tags |-> tags, meta |-> meta,
                fields |-> fields, time |-> time, metaAsTags |-> keys, added |-> added]
    BY <1>12, Zenon DEF MessageInit
  <2> QED BY ONLY <1>12, <2>1 DEF Is
<1>13. CASE PushInit
  <2>1. CASE RequestInit
    <3>1. PICK a, b, c, d : st = [kind |-> "push", lines |-> a, sink |-> b,
                                   method |-> c, auth |-> d]
      BY <2>1, Zenon DEF RequestInit
    <3> QED BY ONLY <2>1, <3>1 DEF Is
  <2>2. CASE ScrapeInit
    <3>1. PICK a, b : st = [kind |-> "scrape", samples |-> a, got |-> b]
      BY <2>2, Zenon DEF ScrapeInit
    <3> QED BY ONLY <2>2, <3>1 DEF Is
  <2>3. CASE PushConfigInit
    <3>1. PICK user, password \in {"", "x"}, processor \in {"none", "bad"} :
            \E interval \in {"5m", "soon"}, n \in {0, 4}, nkeyFile \in {"", "there", "missing"} :
              st = [kind |-> "pushConfig", port |-> "8080", addr |-> "host",
                    subject |-> "s", user |-> user, password |-> password,
                    processor |-> processor, ssl |-> TRUE, interval |-> interval,
                    bufferLength |-> n, nkeyFile |-> nkeyFile]
      BY <2>3, Zenon DEF PushConfigInit
    <3>2. PICK i, n, k :
            st = [kind |-> "pushConfig", port |-> "8080", addr |-> "host",
                  subject |-> "s", user |-> user, password |-> password,
                  processor |-> processor, ssl |-> TRUE, interval |-> i,
                  bufferLength |-> n, nkeyFile |-> k]
      BY <3>1, Zenon
    <3> QED BY ONLY <2>3, <3>2, Zenon DEF Is
  <2>4. CASE RankInit
    <3>1. PICK a, b, c, d :
            st = [kind |-> "rank", rankTag |-> a, rankField |-> b, pidTag |-> c,
                  jobid |-> d, application |-> "app"]
      BY <2>4, Zenon DEF RankInit
    <3> QED BY ONLY <2>4, <3>1 DEF Is
  <2> QED BY <1>13, <2>1, <2>2, <2>3, <2>4 DEF PushInit
<1>14. CASE SinkInit
  <2>1. CASE GangliaNameInit
    <3>1. PICK name \in {<<"cpu", "_", "load">>, <<"load">>}, type \in {"", "cpu", "socket"} :
            \E id \in {"", "0", "1"}, device \in {"", "eth0"} :
              st = [kind |-> "gangliaName", name |-> name, type |-> type, id |-> id,
                    device |-> device]
      BY <2>1, Zenon DEF GangliaNameInit
    <3>2. PICK i, d : st = [kind |-> "gangliaName", name |-> name, type |-> type, id |-> i,
                            device |-> d]
      BY <3>1, Zenon
    <3> QED BY ONLY <2>1, <3>2, Zenon DEF Is
  <2>2. CASE GangliaInit
    <3>1. PICK a, b, c :
            st = [kind |-> "ganglia", plain |-> a, oldname |-> b, value |-> c]
      BY <2>2, Zenon DEF GangliaInit
    <3> QED BY ONLY <3>1 DEF Covered
  <2>3. CASE QuestDBInit
    <3>1. PICK a, b, c, d :
            st = [kind |-> "questdb", user |-> a, password |-> b, token |-> c,
                  interval |-> d]
      BY <2>3, Zenon DEF QuestDBInit
    <3> QED BY ONLY <3>1 DEF Covered
  <2>4. CASE ColumnInit
    <3>1. PICK a : st = [kind |-> "column", field |-> a]
      BY <2>4, Zenon DEF ColumnInit
    <3> QED BY ONLY <2>4, <3>1 DEF Is
  <2> QED BY <1>14, <2>1, <2>2, <2>3, <2>4 DEF SinkInit
<1> QED BY <1>1, <1>2, <1>3, <1>4, <1>5, <1>6, <1>7, <1>8, <1>9, <1>10, <1>11, <1>12,
           <1>13, <1>14 DEF Init, InputInit

(* A step is one of the component that the behaviour is about.             *)
Chosen == "kind" \in DOMAIN st

LEMMA KindStays ==
  ASSUME Chosen, [Next]_st
  PROVE  Chosen' /\ st'.kind = st.kind
<1>1. CASE ReadDevice
  BY <1>1 DEF ReadDevice, Chosen
<1>2. CASE NewTask
  BY <1>2, Zenon DEF NewTask, Chosen
<1>8. CASE AddToTask
  BY <1>8 DEF AddToTask, Chosen
<1>9. CASE AnalyseJob
  BY <1>9 DEF AnalyseJob, Chosen
<1>3. CASE ResetJob
  BY <1>3 DEF ResetJob, Chosen
<1>4. CASE WriteGauge
  BY <1>4 DEF WriteGauge, SetPlain, SetLabelled, Register, Chosen
<1>5. CASE AsyncWrite \/ AsyncAssigns \/ AsyncFires
  BY <1>5 DEF AsyncWrite, AsyncAssigns, AsyncFires, Chosen
<1>6. CASE AsyncFlush \/ AsyncClose
  BY <1>6 DEF AsyncFlush, AsyncClose, Chosen
<1>7. CASE UNCHANGED st
  BY <1>7 DEF Chosen
<1> QED BY <1>1, <1>2, <1>3, <1>4, <1>5, <1>6, <1>7, <1>8, <1>9 DEF Next


LEMMA StepsAreOwn ==
  ASSUME Next
  PROVE  \/ Is("redfish") /\ ReadDevice
         \/ Is("analysis") /\ (NewTask \/ AddToTask \/ AnalyseJob \/ ResetJob)
         \/ Is("prometheus") /\ WriteGauge
         \/ Is("async") /\ \/ AsyncWrite \/ AsyncAssigns \/ AsyncFires
                           \/ AsyncFlush \/ AsyncClose
<1>1. /\ ReadDevice => Is("redfish")
      /\ AddToTask \/ AnalyseJob \/ ResetJob => Is("analysis")
      /\ WriteGauge => Is("prometheus")
      /\ AsyncWrite \/ AsyncAssigns \/ AsyncFires \/ AsyncFlush \/ AsyncClose => Is("async")
  BY Zenon DEF ReadDevice, AddToTask, AnalyseJob, ResetJob, WriteGauge, AsyncWrite, AsyncAssigns,
         AsyncFires, AsyncFlush, AsyncClose
<1>2. NewTask => Is("analysis")
  BY Zenon DEF NewTask
<1> QED BY <1>1, <1>2, SMTT(20) DEF Next
-----------------------------------------------------------------------------
(***************************************************************************)
(* The flush timer of the asynchronous sink.  At most one callback is      *)
(* under way, and while the timer is neither set nor being set there is    *)
(* none: so the clock that a message starts then is the only one.          *)
(***************************************************************************)
Pending == st.clocks + st.flushing + st.resetting

AsyncInv ==
  Is("async") =>
    /\ DOMAIN st = {"kind", "timer", "assigning", "clocks", "flushing", "resetting",
                    "buffered", "overtaken", "closed"}
    /\ st.timer \in BOOLEAN /\ st.assigning \in BOOLEAN /\ st.overtaken \in BOOLEAN
    /\ st.clocks \in Nat /\ st.flushing \in Nat /\ st.resetting \in Nat
    /\ Pending <= 1
    /\ ~st.timer /\ ~st.assigning => Pending = 0
    /\ st.assigning /\ st.clocks = 0 => st.overtaken
    /\ st.assigning => ~st.timer
    /\ st.timer /\ Pending = 0 => st.overtaken

LEMMA AsyncInvHolds == Spec => [](Chosen /\ AsyncInv)
<1>1. Init => Chosen /\ AsyncInv
  <2>1. Init => Chosen /\ (Is("async") => AsyncInit)
    BY InitChooses DEF Chosen, Is, Covered
  <2>2. AsyncInit => AsyncInv
    BY DEF AsyncInv, AsyncInit, Pending
  <2> QED BY <2>1, <2>2 DEF AsyncInv
<1>2. Chosen /\ AsyncInv /\ [Next]_st => (Chosen /\ AsyncInv)'
  <2> SUFFICES ASSUME Chosen, AsyncInv, [Next]_st PROVE AsyncInv'
    BY KindStays
  <2>1. st'.kind = st.kind
    BY KindStays
  <2>2. CASE ~Is("async")
    BY <2>1, <2>2 DEF AsyncInv, Is
  <2>3. CASE Is("async") /\ UNCHANGED st
    BY <2>1, <2>3 DEF AsyncInv, Is, Pending
  <2>4. CASE Is("async") /\ Next
    <3>1. \/ AsyncWrite \/ AsyncAssigns \/ AsyncFires \/ AsyncFlush \/ AsyncClose
      BY <2>4, StepsAreOwn DEF Is
    <3>2. CASE AsyncWrite
      <4>1. CASE st.timer
        BY <2>1, <2>4, <3>2, <4>1 DEF AsyncWrite, AsyncInv, Pending, Is
      <4>2. CASE ~st.timer
        BY <2>1, <2>4, <3>2, <4>2 DEF AsyncWrite, AsyncInv, Pending, Is
      <4> QED BY <4>1, <4>2
    <3>3. CASE AsyncAssigns
      BY <2>1, <2>4, <3>3 DEF AsyncAssigns, AsyncInv, Pending, Is
    <3>4. CASE AsyncFires
      BY <2>1, <2>4, <3>4 DEF AsyncFires, AsyncInv, Pending, Is
    <3>5. CASE AsyncFlush
      <4>1. \/ /\ st.flushing > 0
               /\ st' = [st EXCEPT !.flushing = @ - 1, !.resetting = @ + 1, !.buffered = FALSE]
            \/ /\ st.resetting > 0
               /\ st' = [st EXCEPT !.resetting = @ - 1, !.timer = FALSE]
        BY <3>5 DEF AsyncFlush
      <4>2. CASE /\ st.flushing > 0
                 /\ st' = [st EXCEPT !.flushing = @ - 1, !.resetting = @ + 1,
                                     !.buffered = FALSE]
        BY <2>1, <2>4, <4>2 DEF AsyncInv, Pending, Is
      <4>3. CASE /\ st.resetting > 0
                 /\ st' = [st EXCEPT !.resetting = @ - 1, !.timer = FALSE]
        BY <2>1, <2>4, <4>3 DEF AsyncInv, Pending, Is
      <4> QED BY <4>1, <4>2, <4>3
    <3>6. CASE AsyncClose
      BY <2>1, <2>4, <3>6 DEF AsyncClose, AsyncInv, Pending, Is
    <3> QED BY <3>1, <3>2, <3>3, <3>4, <3>5, <3>6
  <2> QED BY <2>2, <2>3, <2>4
<1> QED BY <1>1, <1>2, PTL DEF Spec

(* The callbacks of two timers never overlap, and a timer that will not    *)
(* fire any more is remembered only if its callback overtook the           *)
(* assignment (Write, Flush of sinks/influxAsyncSink.go).                  *)
THEOREM TimersTakeTurns == Spec => []FlushesDoNotOverlap
<1>1. AsyncInv => FlushesDoNotOverlap
  BY DEF AsyncInv, FlushesDoNotOverlap, Pending, Is
<1> QED BY <1>1, AsyncInvHolds, PTL

-----------------------------------------------------------------------------
(***************************************************************************)
(* The gauges of the Prometheus sink.  Once there is a vector of gauges,   *)
(* every series that the sink could set has as many labels as the vector,  *)
(* and unless a message without labels came first the vector is what is    *)
(* registered, with a latest value for every combination of label values.  *)
(***************************************************************************)
Written == DOMAIN st.latest
Alike ==
  Unlabelled \notin Written /\ \A a, b \in Written : Len(a.names) = Len(b.names)

WrittenInv ==   \* series have as many values as names; writes are counted
  /\ \A s \in Written : /\ s = [names |-> s.names, values |-> s.values]
                        /\ Len(s.names) = Len(s.values)
                        /\ s.names = <<>> <=> s.values = <<>>
  /\ st.writes \in Nat /\ (st.writes = 0 <=> Written = {})

GaugeInv ==   \* what the registered gauge shows
  st.gauge = IF st.node = "served" THEN st.latest[Unlabelled] ELSE st.first

VecInv ==   \* there is a vector
  /\ DOMAIN st.vec = {"names", "at"}
  /\ st.vec.names # <<>>
  /\ \E s \in Written : s.names = st.vec.names
  /\ st.panicked => ~Alike
  /\ ~st.panicked => (st.node = "none" <=> Unlabelled \notin Written)
  /\ ~st.panicked /\ Unlabelled \in Written => st.registered = "gauge" /\ GaugeInv
  /\ ~st.panicked => \A s \in Written : s # Unlabelled => Len(s.names) = Len(st.vec.names)
  /\ ~st.panicked /\ Unlabelled \notin Written =>
       /\ st.registered = "vec"
       /\ DOMAIN st.vec.at = {s.values : s \in Written}
       /\ \A v \in DOMAIN st.vec.at :
            \E s \in Written : s.values = v /\ st.vec.at[v] = st.latest[s]

NoVecInv ==   \* there is none yet
  /\ st.vec = NoVec /\ ~st.panicked /\ Written \subseteq {Unlabelled}
  /\ st.registered = IF Written = {} THEN "nothing" ELSE "gauge"
  /\ st.node = "none" <=> Written = {}
  /\ Written # {} => st.gauge = st.first /\ GaugeInv

PrometheusInv ==
  Is("prometheus") =>
    /\ DOMAIN st = {"kind", "vec", "registered", "gauge", "node", "latest", "first",
                    "writes", "panicked"}
    /\ st.panicked \in BOOLEAN
    /\ WrittenInv
    /\ VecInv \/ NoVecInv

LEMMA NamesMatchValues ==
  ASSUME NEW m
  PROVE  /\ Len(GetLabelNames(m)) = Len(GetLabelValue(m))
         /\ GetLabelNames(m) = <<>> <=> GetLabelValue(m) = <<>>
<1>1. CASE m.type = "none" /\ m.device = "none"
  BY <1>1 DEF GetLabelNames, GetLabelValue
<1>2. CASE m.type = "none" /\ m.device # "none"
  BY <1>2 DEF GetLabelNames, GetLabelValue
<1>3. CASE m.type # "none" /\ m.device = "none"
  BY <1>3 DEF GetLabelNames, GetLabelValue
<1>4. CASE m.type # "none" /\ m.device # "none"
  BY <1>4 DEF GetLabelNames, GetLabelValue
<1> QED BY <1>1, <1>2, <1>3, <1>4

LEMMA WriteGaugeKeeps ==
  ASSUME Is("prometheus"), PrometheusInv, WriteGauge
  PROVE  PrometheusInv'
<1>1. PICK m \in Series, v \in {1, 2} :
        st' = [IF GetLabelValue(m) = <<>> THEN SetPlain(st, v) ELSE SetLabelled(st, m, v)
               EXCEPT !.latest = Assign(@, GaugeSeries(m), v), !.writes = @ + 1,
                      !.first = IF st.writes = 0 THEN v ELSE @]
  BY Zenon DEF WriteGauge
<1> DEFINE labels == GetLabelValue(m)
           names == GetLabelNames(m)
           series == GaugeSeries(m)
           next == IF labels = <<>> THEN SetPlain(st, v) ELSE SetLabelled(st, m, v)
           Fields == {"kind", "vec", "registered", "gauge", "node", "latest", "first",
                      "writes", "panicked"}
           after == Assign(st.latest, series, v)
           Untouched(s) == /\ DOMAIN s = Fields /\ s.latest = st.latest /\ s.writes = st.writes
                      /\ s.first = st.first
<1>2. /\ Len(names) = Len(labels) /\ (names = <<>> <=> labels = <<>>)
  BY NamesMatchValues
<1>3. ~st.panicked /\ DOMAIN st = Fields /\ WrittenInv
  BY DEF PrometheusInv, WriteGauge
<1>4. st' = [next EXCEPT !.latest = Assign(@, series, v), !.writes = @ + 1,
                         !.first = IF st.writes = 0 THEN v ELSE @]
  BY <1>1
<1>5. /\ series.names = names /\ series.values = labels
      /\ series = [names |-> series.names, values |-> series.values]
      /\ (series = Unlabelled <=> labels = <<>>)
  <2>1. series = [names |-> names, values |-> labels]
    BY Zenon DEF GaugeSeries
  <2> HIDE DEF series, names, labels
  <2>2. series.names = names /\ series.values = labels
    BY ONLY <2>1
  <2>3. labels = <<>> => series = Unlabelled
    BY ONLY <1>2, <2>1 DEF Unlabelled
  <2>4. Unlabelled.values = <<>>
    BY ONLY DEF Unlabelled
  <2> QED BY ONLY <2>1, <2>2, <2>3, <2>4
<1> HIDE DEF labels, names, series
<1>6. ASSUME Untouched(next)
      PROVE  /\ DOMAIN st' = Fields /\ st'.vec = next.vec /\ st'.gauge = next.gauge
             /\ st'.registered = next.registered /\ st'.panicked = next.panicked
             /\ st'.node = next.node /\ st'.latest = after /\ st'.writes = st.writes + 1
             /\ st'.first = IF st.writes = 0 THEN v ELSE st.first
  <2> HIDE DEF next, after
  <2> QED BY <1>4, <1>6 DEF after
<1>7. /\ DOMAIN after = Written \cup {series} /\ after[series] = v
      /\ \A s \in Written : s # series => after[s] = st.latest[s]
  <2> DEFINE f == st.latest
  <2>1. Written = DOMAIN f /\ after = Assign(f, series, v)
    BY DEF Written
  <2> HIDE DEF f, after
  <2>2. /\ DOMAIN Assign(f, series, v) = DOMAIN f \cup {series}
        /\ Assign(f, series, v)[series] = v
        /\ \A s \in DOMAIN f : s # series => Assign(f, series, v)[s] = f[s]
    BY ONLY DEF Assign
  <2>3. /\ DOMAIN after = Written \cup {series} /\ after[series] = v
        /\ \A s \in Written : s # series => after[s] = f[s]
    BY ONLY <2>1, <2>2
  <2> QED BY ONLY <2>3 DEF f
<1> HIDE DEF after
<1>8. ASSUME Untouched(next)
      PROVE  /\ Written' = Written \cup {series} /\ WrittenInv'
             /\ st'.first = IF Written = {} THEN v ELSE st.first
  <2> HIDE DEF next
  <2>1. Written' = Written \cup {series}
    BY <1>6, <1>7, <1>8 DEF Written
  <2>2. st.writes \in Nat /\ (st.writes = 0 <=> Written = {})
    BY <1>3 DEF WrittenInv
  <2>3. st'.writes = st.writes + 1 /\ st'.first = IF st.writes = 0 THEN v ELSE st.first
    BY <1>6, <1>8
  <2>4. \A s \in Written' : /\ s = [names |-> s.names, values |-> s.values]
                            /\ Len(s.names) = Len(s.values)
                            /\ s.names = <<>> <=> s.values = <<>>
    BY ONLY <1>2, <1>3, <1>5, <2>1, ZenonT(30) DEF WrittenInv
  <2>5. st'.writes \in Nat /\ st'.writes # 0 /\ Written' # {}
    BY ONLY <2>1, <2>2, <2>3
  <2> QED BY ONLY <2>1, <2>2, <2>3, <2>4, <2>5, ZenonT(30) DEF WrittenInv
<1>9. ASSUME labels = <<>>, NoVecInv PROVE PrometheusInv'
  <2> DEFINE made == [st EXCEPT !.node = IF st.registered = "nothing" THEN "served"
                                         ELSE "other"]
  <2>1. next = Register(made, "gauge", v)
    BY <1>9, Zenon DEF SetPlain, NoVecInv
  <2>2. /\ Untouched(made) /\ made.vec = NoVec /\ made.panicked = FALSE
        /\ made.registered = st.registered /\ made.gauge = st.gauge
        /\ made.node = IF Written = {} THEN "served" ELSE "other"
    BY <1>3, <1>9 DEF NoVecInv
  <2>3. next = IF made.registered # "nothing" THEN made
               ELSE [made EXCEPT !.registered = "gauge", !.gauge = v]
    BY <2>1 DEF Register
  <2> HIDE DEF made, next
  <2>4. /\ Untouched(next) /\ next.vec = NoVec /\ next.panicked = FALSE
        /\ next.registered = "gauge" /\ next.node = made.node
        /\ next.gauge = IF Written = {} THEN v ELSE st.gauge
    <3>1. CASE Written = {}
      BY <1>9, <2>2, <2>3, <3>1 DEF NoVecInv
    <3>2. CASE Written # {}
      BY <1>9, <2>2, <2>3, <3>2 DEF NoVecInv
    <3> QED BY <3>1, <3>2
  <2>5. Written' = {Unlabelled}
    BY <1>5, <1>8, <1>9, <2>4 DEF NoVecInv
  <2>6. /\ st'.node = IF Written = {} THEN "served" ELSE "other"
        /\ st'.gauge = st'.first
        /\ Written = {} => st'.latest[Unlabelled] = st'.gauge
    BY <1>5, <1>6, <1>7, <1>8, <1>9, <2>2, <2>4 DEF NoVecInv
  <2>7. st'.node # "none" /\ GaugeInv'
    <3>1. st'.node = "served" => st'.latest[Unlabelled] = st'.gauge
      BY ONLY <2>6
    <3> QED BY ONLY <2>6, <3>1 DEF GaugeInv
  <2>8. /\ st'.vec = NoVec /\ st'.panicked = FALSE /\ DOMAIN st' = Fields
        /\ st'.registered = "gauge" /\ WrittenInv'
    BY <1>6, <1>8, <2>4
  <2>9. NoVecInv'
    BY ONLY <2>5, <2>6, <2>7, <2>8 DEF NoVecInv
  <2> QED BY <2>8, <2>9 DEF PrometheusInv
<1>10. ASSUME labels = <<>>, VecInv PROVE PrometheusInv'
  <2> DEFINE gauge == IF st.node = "served" THEN v ELSE st.gauge
  <2>1. next = [st EXCEPT !.panicked = (st.node = "none"), !.gauge = gauge]
    BY <1>10 DEF SetPlain, VecInv, NoVec
  <2> HIDE DEF gauge
  <2>2. /\ Untouched(next) /\ next.vec = st.vec /\ next.registered = st.registered
        /\ next.panicked = (st.node = "none") /\ next.gauge = gauge /\ next.node = st.node
    BY <1>3, <2>1
  <2> HIDE DEF next
  <2>3. /\ Written' = Written \cup {Unlabelled} /\ series = Unlabelled /\ WrittenInv'
        /\ st'.first = IF Written = {} THEN v ELSE st.first
    BY <1>5, <1>8, <1>10, <2>2
  <2>4. /\ st'.vec = st.vec /\ st'.registered = st.registered /\ DOMAIN st' = Fields
        /\ st'.panicked = (st.node = "none") /\ st'.gauge = gauge /\ st'.node = st.node
        /\ st'.latest = after
    BY <1>6, <2>2
  <2>5. ~Alike'
    BY <2>3 DEF Alike
  <2>6. st.node = "none" <=> Unlabelled \notin Written
    BY <1>3, <1>10 DEF VecInv
  <2>7. ~st'.panicked => st'.registered = "gauge" /\ GaugeInv'
    <3> SUFFICES ASSUME st.node # "none" PROVE st'.registered = "gauge" /\ GaugeInv'
      BY <2>4
    <3>1. Unlabelled \in Written /\ st'.first = st.first /\ st'.latest[Unlabelled] = v
      BY <1>7, <2>3, <2>4, <2>6
    <3>2. st.registered = "gauge" /\ GaugeInv
      BY <1>3, <1>10, <3>1 DEF VecInv
    <3> QED BY <2>4, <3>1, <3>2 DEF GaugeInv, gauge
  <2>8. /\ DOMAIN st.vec = {"names", "at"} /\ st.vec.names # <<>>
        /\ \E s \in Written : s.names = st.vec.names
        /\ \A s \in Written : s # Unlabelled => Len(s.names) = Len(st.vec.names)
    BY <1>3, <1>10 DEF VecInv
  <2>9. VecInv'
    BY ONLY <2>3, <2>4, <2>5, <2>6, <2>7, <2>8 DEF VecInv
  <2> QED BY <2>3, <2>4, <2>9 DEF PrometheusInv
<1>11. ASSUME labels # <<>>, NoVecInv PROVE PrometheusInv'
  <2> DEFINE vec == [names |-> names, at |-> Assign(<<>>, labels, v)]
             made == [st EXCEPT !.vec = vec]
  <2>1. next = Register(made, "vec", 0)
    BY <1>11 DEF SetLabelled, NoVecInv, labels, names
  <2>2. /\ DOMAIN vec = {"names", "at"} /\ vec.names = names
        /\ DOMAIN vec.at = {labels} /\ vec.at[labels] = v
    <3>1. DOMAIN Assign(<<>>, labels, v) = {labels} /\ Assign(<<>>, labels, v)[labels] = v
      BY DEF Assign
    <3> QED BY <3>1
  <2> HIDE DEF vec
  <2>3. /\ Untouched(made) /\ made.vec = vec /\ made.panicked = FALSE
        /\ made.registered = st.registered /\ made.gauge = st.gauge /\ made.node = st.node
    BY <1>3, <1>11 DEF NoVecInv
  <2>4. next = IF made.registered # "nothing" THEN made
               ELSE [made EXCEPT !.registered = "vec", !.gauge = 0]
    BY <2>1 DEF Register
  <2> HIDE DEF made, next
  <2>5. /\ Untouched(next) /\ next.vec = vec /\ next.panicked = FALSE /\ next.node = st.node
        /\ next.registered = IF Written = {} THEN "vec" ELSE "gauge"
        /\ Written # {} => next.gauge = st.gauge
    <3>1. CASE Written = {}
      BY <1>11, <2>3, <2>4, <3>1 DEF NoVecInv
    <3>2. CASE Written # {}
      BY <1>11, <2>3, <2>4, <3>2 DEF NoVecInv
    <3> QED BY <3>1, <3>2
  <2>6. /\ Written' = Written \cup {series} /\ series # Unlabelled /\ WrittenInv'
        /\ Written # {} => st'.first = st.first
    BY <1>5, <1>8, <1>11, <2>5
  <2>7. /\ st'.vec = vec /\ st'.panicked = FALSE /\ DOMAIN st' = Fields
        /\ st'.node = st.node /\ st'.latest = after
        /\ st'.registered = IF Written = {} THEN "vec" ELSE "gauge"
        /\ Written # {} => st'.gauge = st.gauge
    BY <1>6, <2>5
  <2>8. Written = {} \/ Written = {Unlabelled}
    BY <1>11 DEF NoVecInv
  <2>9. CASE Written = {}
    <3>1. st'.node = "none" /\ st'.registered = "vec" /\ Written' = {series}
      BY <1>11, <2>6, <2>7, <2>9 DEF NoVecInv
    <3>2. st'.latest[series] = v
      BY <1>7, <2>7
    <3>3. VecInv'
      BY ONLY <1>2, <1>5, <1>11, <2>2, <2>6, <2>7, <3>1, <3>2 DEF VecInv
    <3> QED BY <2>6, <2>7, <3>3 DEF PrometheusInv
  <2>10. CASE Written = {Unlabelled}
    <3>1. st.node # "none" /\ GaugeInv /\ Written # {}
      BY <1>11, <2>10 DEF NoVecInv
    <3>2. st'.latest[Unlabelled] = st.latest[Unlabelled]
      BY <1>7, <2>6, <2>7, <2>10
    <3>3. GaugeInv'
      BY ONLY <2>6, <2>7, <3>1, <3>2 DEF GaugeInv
    <3>4. st'.registered = "gauge"
      BY <2>7, <2>10
    <3>5. Written' = {Unlabelled, series}
      BY <2>6, <2>10
    <3>6. VecInv'
      BY ONLY <1>2, <1>5, <1>11, <2>2, <2>6, <2>7, <3>1, <3>3, <3>4, <3>5 DEF VecInv
    <3> QED BY <2>6, <2>7, <3>6 DEF PrometheusInv
  <2> QED BY <2>8, <2>9, <2>10
<1>12. ASSUME labels # <<>>, VecInv, Len(st.vec.names) = Len(labels) PROVE PrometheusInv'
  <2>1. next = [st EXCEPT !.vec.at = Assign(@, labels, v)]
    BY <1>12 DEF SetLabelled, VecInv, NoVec, labels
  <2> DEFINE at == Assign(st.vec.at, labels, v)
  <2>2. /\ Untouched(next) /\ next.gauge = st.gauge /\ next.node = st.node
        /\ next.panicked = FALSE /\ next.registered = st.registered
        /\ DOMAIN next.vec = {"names", "at"} /\ next.vec.names = st.vec.names
        /\ next.vec.at = at
    BY <1>3, <1>12, <2>1 DEF VecInv
  <2>3. /\ DOMAIN at = DOMAIN st.vec.at \cup {labels} /\ at[labels] = v
        /\ \A w \in DOMAIN st.vec.at : w # labels => at[w] = st.vec.at[w]
    <3> DEFINE f == st.vec.at
    <3> HIDE DEF f
    <3>1. /\ DOMAIN Assign(f, labels, v) = DOMAIN f \cup {labels}
          /\ Assign(f, labels, v)[labels] = v
          /\ \A w \in DOMAIN f : w # labels => Assign(f, labels, v)[w] = f[w]
      BY ONLY DEF Assign
    <3> QED BY ONLY <3>1 DEF f
  <2> HIDE DEF next, at
  <2>4. /\ Written' = Written \cup {series} /\ series # Unlabelled /\ WrittenInv'
        /\ Written # {} => st'.first = st.first
    BY <1>5, <1>8, <1>12, <2>2
  <2>5. /\ st'.vec = next.vec /\ st'.panicked = FALSE /\ DOMAIN st' = Fields
        /\ st'.registered = st.registered /\ st'.gauge = st.gauge /\ st'.node = st.node
        /\ st'.latest = after
    BY <1>6, <2>2
  <2>6. /\ st.vec.names # <<>> /\ (\E s \in Written : s.names = st.vec.names)
        /\ st.node = "none" <=> Unlabelled \notin Written
        /\ Unlabelled \in Written => st.registered = "gauge" /\ GaugeInv
        /\ \A s \in Written : s # Unlabelled => Len(s.names) = Len(st.vec.names)
        /\ Unlabelled \notin Written =>
             /\ st.registered = "vec"
             /\ DOMAIN st.vec.at = {s.values : s \in Written}
             /\ \A w \in DOMAIN st.vec.at :
                  \E s \in Written : s.values = w /\ st.vec.at[w] = st.latest[s]
    BY <1>3, <1>12, ZenonT(30) DEF VecInv
  <2>7. ASSUME Unlabelled \in Written PROVE GaugeInv'
    <3>1. st'.latest[Unlabelled] = st.latest[Unlabelled] /\ st'.first = st.first
      BY <1>7, <2>4, <2>5, <2>7
    <3>2. GaugeInv /\ st'.gauge = st.gauge /\ st'.node = st.node
      BY ONLY <2>5, <2>6, <2>7
    <3> QED BY ONLY <3>1, <3>2 DEF GaugeInv
  <2>8. \A s \in Written' : s # Unlabelled => Len(s.names) = Len(st.vec.names)
    BY <1>2, <1>5, <1>12, <2>4, <2>6
  <2>9. ASSUME Unlabelled \notin Written
        PROVE  /\ DOMAIN at = {s.values : s \in Written'}
               /\ \A w \in DOMAIN at : \E s \in Written' : s.values = w /\ at[w] = after[s]
    <3>1. DOMAIN at = {s.values : s \in Written'}
      BY ONLY <1>5, <2>3, <2>4, <2>6, <2>9
    <3>2. ASSUME NEW w \in DOMAIN at
          PROVE  \E s \in Written' : s.values = w /\ at[w] = after[s]
      <4>1. CASE w = labels
        BY ONLY <1>5, <1>7, <2>3, <2>4, <4>1
      <4>2. CASE w # labels
        <5>1. PICK s \in Written : s.values = w /\ st.vec.at[w] = st.latest[s]
          BY ONLY <2>3, <2>6, <2>9, <3>2, <4>2
        <5>2. s # series
          BY ONLY <1>5, <4>2, <5>1
        <5> QED BY ONLY <1>7, <2>3, <2>4, <3>2, <4>2, <5>1, <5>2
      <4> QED BY <4>1, <4>2
    <3> QED BY <3>1, <3>2
  <2>10. VecInv'
    <3>1. /\ DOMAIN st'.vec = {"names", "at"} /\ st'.vec.names = st.vec.names
          /\ st'.vec.at = at
      BY ONLY <2>2, <2>5
    <3>2. Unlabelled \in Written' <=> Unlabelled \in Written
      BY ONLY <2>4
    <3>3. \E s \in Written' : s.names = st.vec.names
      BY ONLY <2>4, <2>6
    <3>4. /\ st'.vec.names # <<>> /\ st'.panicked = FALSE
          /\ st'.node = "none" <=> Unlabelled \notin Written'
      BY ONLY <2>5, <2>6, <3>1, <3>2
    <3>5. Unlabelled \in Written' => st'.registered = "gauge" /\ GaugeInv'
      BY ONLY <2>5, <2>6, <2>7, <3>2
    <3>6. \A s \in Written' : s # Unlabelled => Len(s.names) = Len(st'.vec.names)
      BY ONLY <2>8, <3>1
    <3>7. Unlabelled \notin Written' => st'.registered = "vec"
      BY ONLY <2>5, <2>6, <3>2
    <3>8. Unlabelled \notin Written' =>
            /\ DOMAIN st'.vec.at = {s.values : s \in Written'}
            /\ \A w \in DOMAIN st'.vec.at :
                 \E s \in Written' : s.values = w /\ st'.vec.at[w] = st'.latest[s]
      BY ONLY <2>5, <2>9, <3>1, <3>2
    <3>9. \E s \in Written' : s.names = st'.vec.names
      BY ONLY <3>1, <3>3
    <3> QED BY ONLY <3>1, <3>4, <3>5, <3>6, <3>7, <3>8, <3>9 DEF VecInv
  <2> QED BY <2>4, <2>5, <2>10 DEF PrometheusInv
<1>13. ASSUME labels # <<>>, VecInv, Len(st.vec.names) # Len(labels) PROVE PrometheusInv'
  <2>1. next = [st EXCEPT !.panicked = TRUE]
    BY <1>13 DEF SetLabelled, VecInv, NoVec, labels
  <2>2. /\ Untouched(next) /\ next.vec = st.vec /\ next.panicked = TRUE /\ next.node = st.node
    BY <1>3, <2>1
  <2> HIDE DEF next
  <2>3. /\ Written' = Written \cup {series} /\ series # Unlabelled /\ WrittenInv'
    BY <1>5, <1>8, <1>13, <2>2
  <2>4. /\ st'.vec = st.vec /\ st'.panicked = TRUE /\ DOMAIN st' = Fields
        /\ st'.node = st.node
    BY <1>6, <2>2
  <2>5. /\ DOMAIN st.vec = {"names", "at"} /\ st.vec.names # <<>>
        /\ (\E s \in Written : s.names = st.vec.names)
        /\ st.node = "none" <=> Unlabelled \notin Written
    BY <1>3, <1>13 DEF VecInv
  <2>6. ~Alike'
    BY ONLY <1>2, <1>5, <1>13, <2>3, <2>5 DEF Alike
  <2>7. VecInv'
    BY ONLY <2>3, <2>4, <2>5, <2>6 DEF VecInv
  <2> QED BY <2>3, <2>4, <2>7 DEF PrometheusInv
<1> QED BY <1>9, <1>10, <1>11, <1>12, <1>13 DEF PrometheusInv

LEMMA PrometheusInvHolds == Spec => [](Chosen /\ PrometheusInv)
<1>1. Init => Chosen /\ PrometheusInv
  <2>1. Init => Chosen /\ (Is("prometheus") => PrometheusInit)
    BY InitChooses DEF Chosen, Is, Covered
  <2>2. PrometheusInit => PrometheusInv
    BY DEF PrometheusInv, PrometheusInit, NoVecInv, Written, WrittenInv
  <2> QED BY <2>1, <2>2 DEF PrometheusInv
<1>2. Chosen /\ PrometheusInv /\ [Next]_st => (Chosen /\ PrometheusInv)'
  <2> SUFFICES ASSUME Chosen, PrometheusInv, [Next]_st PROVE PrometheusInv'
    BY KindStays
  <2>1. st'.kind = st.kind
    BY KindStays
  <2>2. CASE ~Is("prometheus")
    BY <2>1, <2>2 DEF PrometheusInv, Is
  <2>3. CASE Is("prometheus") /\ UNCHANGED st
    BY <2>3 DEF PrometheusInv, Is, VecInv, NoVecInv, Written, Alike, WrittenInv, GaugeInv
  <2>4. CASE Is("prometheus") /\ Next
    BY <2>4, StepsAreOwn, WriteGaugeKeeps DEF Is
  <2> QED BY <2>2, <2>3, <2>4
<1> QED BY <1>1, <1>2, PTL DEF Spec

(* As long as all messages of a metric have the same labels, what          *)
(* Prometheus scrapes is the latest value of every series, and no message  *)
(* makes the sink panic; with other labels that are equally many, series   *)
(* of the same label values are one, with the latest value of one of them; *)
(* with more or fewer the sink panics; and once a metric came without      *)
(* labels it is served without (updateMetric, newMetric).                  *)
THEOREM ScrapesAreCurrent == Spec => []LabelledAreCurrent
<1>1. ASSUME PrometheusInv PROVE LabelledAreCurrent
  <2> SUFFICES ASSUME Is("prometheus") PROVE LabelledAreCurrent
    BY DEF LabelledAreCurrent
  <2> DEFINE labels == {s.names : s \in Written}
             at == st.vec.at
  <2>1. WrittenInv /\ (VecInv \/ NoVecInv) /\ st.panicked \in BOOLEAN
    BY <1>1 DEF PrometheusInv
  <2>2. Unlabelled = [names |-> <<>>, values |-> <<>>] /\ Unlabelled.names = <<>>
    BY DEF Unlabelled
  <2>3. <<>> \in labels <=> Unlabelled \in Written
    <3>1. ASSUME NEW s \in Written, s.names = <<>> PROVE s = Unlabelled
      BY <2>1, <2>2, <3>1 DEF WrittenInv
    <3> QED BY <2>2, <3>1
  <2>4. labels # {} /\ ~st.panicked => VecInv \/ <<>> \in labels
    BY <2>1, <2>2 DEF NoVecInv
  <2>5. ASSUME <<>> \notin labels, \A a, b \in labels : Len(a) = Len(b) PROVE ~st.panicked
    BY <2>1, <2>3, <2>5 DEF VecInv, NoVecInv, Alike
  <2>6. ASSUME <<>> \notin labels, labels # {}, ~st.panicked
        PROVE  /\ st.registered = "vec" /\ DOMAIN at = {s.values : s \in Written}
               /\ \A v \in DOMAIN at : \E s \in Written : s.values = v /\ at[v] = st.latest[s]
               /\ st.vec.names \in labels
               /\ \A n \in labels : Len(n) = Len(st.vec.names)
    <3>1. VecInv /\ Unlabelled \notin Written
      BY <2>3, <2>4, <2>6
    <3> QED BY <2>6, <3>1 DEF VecInv
  <2>7. ASSUME NEW n \in labels, labels = {n}, n # <<>>
        PROVE  /\ ~st.panicked /\ st.registered = "vec" /\ st.vec.names = n
               /\ DOMAIN at = {s.values : s \in Written}
               /\ \A s \in Written : at[s.values] = st.latest[s]
    <3>1. <<>> \notin labels /\ ~st.panicked
      BY <2>5, <2>7
    <3>2. /\ st.registered = "vec" /\ st.vec.names = n
          /\ DOMAIN at = {s.values : s \in Written}
      BY <2>6, <2>7, <3>1
    <3>3. ASSUME NEW s \in Written PROVE at[s.values] = st.latest[s]
      <4>1. PICK t \in Written : t.values = s.values /\ at[s.values] = st.latest[t]
        BY <2>6, <2>7, <3>1, <3>2
      <4>2. s.names = n /\ t.names = n
        BY <2>7
      <4>3. s = [names |-> s.names, values |-> s.values]
            /\ t = [names |-> t.names, values |-> t.values]
        BY <2>1 DEF WrittenInv
      <4>4. s = t
        BY ONLY <4>1, <4>2, <4>3
      <4> QED BY <4>1, <4>4
    <3> QED BY <3>1, <3>2, <3>3
  <2>8. ASSUME <<>> \notin labels, \A a, b \in labels : Len(a) = Len(b),
               NEW v \in DOMAIN at
        PROVE  \E s \in Written : s.values = v /\ at[v] = st.latest[s]
    <3>1. CASE labels = {}
      <4>1. NoVecInv
        BY <2>1, <3>1 DEF VecInv
      <4>2. st.vec = NoVec /\ DOMAIN NoVec.at = {}
        BY <4>1 DEF NoVecInv, NoVec
      <4> QED BY <2>8, <4>2
    <3>2. CASE labels # {}
      BY <2>5, <2>6, <2>8, <3>2
    <3> QED BY <3>1, <3>2
  <2>9. ASSUME <<>> \notin labels, \E a, b \in labels : Len(a) # Len(b) PROVE st.panicked
    BY <2>6, <2>9
  <2>10. ASSUME <<>> \in labels, ~st.panicked
         PROVE  st.registered = "gauge" /\ GaugeInv
    BY <2>1, <2>3, <2>10 DEF VecInv, NoVecInv
  <2> QED BY ONLY <2>5, <2>7, <2>8, <2>9, <2>10, ZenonT(60)
          DEF LabelledAreCurrent, GaugeInv, Written
<1> QED BY <1>1, PrometheusInvHolds, PTL

-----------------------------------------------------------------------------
(***************************************************************************)
(* The readings of a device.  Each part of a round leaves the list of      *)
(* sensors as it is once it is made, never forgets that the metrics of the *)
(* processor were not found, and sends nothing that is excluded; only one  *)
(* of them is about sensors.                                               *)
(***************************************************************************)
CacheFor(cc, c) ==
  /\ DOMAIN c = {"urls", "skip"} /\ c.skip \in BOOLEAN
  /\ c.urls # Unread => c.urls \cap cc.excluded = {}

Reading(cc, c, d, r) ==   \* r is what a part, or several, make of cache c
  /\ DOMAIN r = {"sent", "cache", "end"}
  /\ CacheFor(cc, r.cache)
  /\ c.skip => r.cache.skip
  /\ c.urls # Unread => r.cache.urls = c.urls
  /\ c.urls = Unread => \/ r.cache.urls = Unread
                        \/ r.cache.urls = IF "sensors" \in d.broken THEN {} ELSE Kept(cc, d)
  /\ \A m \in r.sent :
       /\ m.metric \notin cc.excluded
       /\ m.from = "sensor" => r.cache.urls # Unread /\ m.metric \in r.cache.urls
       /\ m.from = "processor" => ~r.cache.skip

Unprocessed(r) == \A m \in r.sent : m.from # "processor"

Silent(c, r) == r.cache.urls = c.urls /\ \A m \in r.sent : m.from # "sensor"
Answered(d, r) == r.end = "done" => FromSensors(r.sent) = r.cache.urls \cap d.read

Healthy(d) == "unread" \notin d.good \cup d.read

LEMMA NothingIsReading ==
  ASSUME NEW cc, NEW d, NEW c, CacheFor(cc, c)
  PROVE  /\ Reading(cc, c, d, Nothing(c)) /\ Unprocessed(Nothing(c))
         /\ Reading(cc, c, d, Failure(c)) /\ Unprocessed(Failure(c))
         /\ Silent(c, Nothing(c)) /\ Silent(c, Failure(c)) /\ Failure(c).end = "failed"
BY DEF Nothing, Failure, Reading, Unprocessed, CacheFor, Silent

(* What is sent with the cache unchanged, to the end or up to a panic.     *)
LEMMA SendingIsReading ==
  ASSUME NEW cc, NEW d, NEW c, CacheFor(cc, c), NEW sent,
         \A m \in sent : /\ m.metric \notin cc.excluded
                         /\ m.from = "sensor" => c.urls # Unread /\ m.metric \in c.urls
                         /\ m.from = "processor" => ~c.skip
  PROVE  /\ Reading(cc, c, d, [Nothing(c) EXCEPT !.sent = sent])
         /\ Reading(cc, c, d, Panic(c, sent))
BY DEF Nothing, Panic, Reading, CacheFor

(* And when nothing of it is from a sensor.                                *)
LEMMA SendingIsSilent ==
  ASSUME NEW c, NEW sent, \A m \in sent : m.from # "sensor"
  PROVE  Silent(c, [Nothing(c) EXCEPT !.sent = sent]) /\ Silent(c, Panic(c, sent))
BY DEF Nothing, Panic, Silent

LEMMA SensorMessages ==
  ASSUME NEW S PROVE FromSensors({Msg(s, "sensor") : s \in S}) = S
<1> DEFINE sent == {Msg(s, "sensor") : s \in S}
<1>1. \A s : Msg(s, "sensor").metric = s /\ Msg(s, "sensor").from = "sensor"
  BY DEF Msg
<1>2. {m \in sent : m.from = "sensor"} = sent
  BY <1>1
<1>3. FromSensors(sent) = {m.metric : m \in sent}
  BY <1>2 DEF FromSensors
<1>4. \A x : x \in FromSensors(sent) <=> x \in S
  BY <1>1, <1>3
<1> QED BY <1>4

LEMMA SensorsAreReading ==
  ASSUME NEW cc, NEW d, Healthy(d), NEW c, CacheFor(cc, c)
  PROVE  /\ Reading(cc, c, d, ReadSensors(cc, c, d)) /\ Unprocessed(ReadSensors(cc, c, d))
         /\ Answered(d, ReadSensors(cc, c, d))
<1>1. CASE c.urls # Unread /\ c.urls \cap d.lost = {}
  <2> DEFINE sent == {Msg(s, "sensor") : s \in c.urls \cap d.read}
  <2>1. ReadSensors(cc, c, d) = [Nothing(c) EXCEPT !.sent = sent]
    BY <1>1 DEF ReadSensors
  <2>2. \A m \in sent : m.metric \in c.urls /\ m.from = "sensor"
    BY DEF Msg
  <2>21. FromSensors(sent) = c.urls \cap d.read
    BY SensorMessages
  <2> HIDE DEF sent
  <2>3. \A m \in sent : m.metric \notin cc.excluded
    BY <1>1, <2>2 DEF CacheFor
  <2>4. Reading(cc, c, d, [Nothing(c) EXCEPT !.sent = sent])
    BY <1>1, <2>2, <2>3, SendingIsReading
  <2>5. Unprocessed([Nothing(c) EXCEPT !.sent = sent])
    BY <2>2 DEF Unprocessed, Nothing
  <2>6. Answered(d, [Nothing(c) EXCEPT !.sent = sent])
    BY <2>21 DEF Answered, Nothing
  <2> QED BY <2>1, <2>4, <2>5, <2>6
<1>4. CASE c.urls # Unread /\ c.urls \cap d.lost # {}
  <2> DEFINE sent == {Msg(s, "sensor") : s \in c.urls \cap d.read \cap d.early}
  <2>1. ReadSensors(cc, c, d) = Panic(c, sent)
    BY <1>4 DEF ReadSensors
  <2>2. \A m \in sent : m.metric \in c.urls /\ m.from = "sensor"
    BY DEF Msg
  <2> HIDE DEF sent
  <2>3. \A m \in sent : m.metric \notin cc.excluded
    BY <1>4, <2>2 DEF CacheFor
  <2>4. Reading(cc, c, d, Panic(c, sent))
    BY <1>4, <2>2, <2>3, SendingIsReading
  <2>5. Unprocessed(Panic(c, sent)) /\ Answered(d, Panic(c, sent))
    BY <2>2 DEF Unprocessed, Answered, Panic
  <2> QED BY <2>1, <2>4, <2>5
<1>2. CASE c.urls = Unread /\ "sensors" \in d.broken
  <2>1. ReadSensors(cc, c, d) = Failure([c EXCEPT !.urls = {}])
    BY <1>2 DEF ReadSensors
  <2> QED BY <1>2, <2>1 DEF Failure, Nothing, Reading, Unprocessed, CacheFor, Unread, Answered
<1>3. CASE c.urls = Unread /\ "sensors" \notin d.broken
  <2> DEFINE sent == {Msg(s, "sensor") : s \in Kept(cc, d) \cap d.read}
             kept == Kept(cc, d)
  <2>1. ReadSensors(cc, c, d) = [sent |-> sent, cache |-> [c EXCEPT !.urls = kept],
                                 end |-> "done"]
    BY <1>3 DEF ReadSensors
  <2>2. \A m \in sent : m.metric \in kept /\ m.from = "sensor"
    BY DEF Msg
  <2>21. FromSensors(sent) = kept \cap d.read
    BY SensorMessages
  <2>3. kept \subseteq d.good /\ kept \cap cc.excluded = {} /\ kept # Unread
    BY DEF Kept, Healthy, Unread
  <2> HIDE DEF sent
  <2>4. kept = IF "sensors" \in d.broken THEN {} ELSE Kept(cc, d)
    BY <1>3
  <2> HIDE DEF kept
  <2>5. Answered(d, ReadSensors(cc, c, d))
    BY <2>1, <2>21 DEF Answered, CacheFor
  <2> QED BY <1>3, <2>1, <2>2, <2>3, <2>4, <2>5 DEF Reading, Unprocessed, CacheFor
<1> QED BY <1>1, <1>2, <1>3, <1>4

LEMMA ThermalIsReading ==
  ASSUME NEW cc, NEW d, NEW c, CacheFor(cc, c)
  PROVE  /\ Reading(cc, c, d, ReadThermalMetrics(cc, c, d))
         /\ Unprocessed(ReadThermalMetrics(cc, c, d))
         /\ Silent(c, ReadThermalMetrics(cc, c, d))
<1>1. CASE "thermal" \in d.broken
  BY <1>1, NothingIsReading DEF ReadThermalMetrics
<1>2. CASE "thermal" \notin d.broken
  <2> DEFINE wanted == {m \in {"temperature", "fan_speed"} :
                          /\ m \notin cc.excluded /\ m \in d.values
                          /\ d.status = "Enabled" \/ (m = "temperature" /\ d.status = "")}
             sent == {Msg(m, "thermal") : m \in wanted}
  <2>1. ReadThermalMetrics(cc, c, d) = [Nothing(c) EXCEPT !.sent = sent]
    BY <1>2 DEF ReadThermalMetrics
  <2>2. \A m \in sent : m.metric \notin cc.excluded /\ m.from = "thermal"
    <3>1. \A m \in wanted : m \notin cc.excluded
      BY Zenon
    <3> HIDE DEF wanted
    <3> QED BY <3>1 DEF Msg
  <2> HIDE DEF sent
  <2>3. Reading(cc, c, d, [Nothing(c) EXCEPT !.sent = sent])
    BY <2>2, SendingIsReading
  <2>4. Unprocessed([Nothing(c) EXCEPT !.sent = sent])
    BY <2>2 DEF Unprocessed, Nothing
  <2>5. Silent(c, [Nothing(c) EXCEPT !.sent = sent])
    BY <2>2 DEF Silent, Nothing
  <2> QED BY <2>1, <2>3, <2>4, <2>5
<1> QED BY <1>1, <1>2

LEMMA PowerIsReading ==
  ASSUME NEW cc, NEW d, NEW c, CacheFor(cc, c)
  PROVE  /\ Reading(cc, c, d, ReadPowerMetrics(cc, c, d))
         /\ Unprocessed(ReadPowerMetrics(cc, c, d))
         /\ Silent(c, ReadPowerMetrics(cc, c, d))
<1>1. CASE "power" \in d.broken \/ d.status \notin {"", "Enabled"}
  BY <1>1, NothingIsReading, Zenon DEF ReadPowerMetrics
<1>2. CASE "power" \notin d.broken /\ d.status \in {"", "Enabled"}
  <2> DEFINE sent == {Msg(m, "power") : m \in (PowerMetric \ cc.excluded) \cap d.values}
  <2>1. ReadPowerMetrics(cc, c, d) = [Nothing(c) EXCEPT !.sent = sent]
    BY <1>2, Zenon DEF ReadPowerMetrics
  <2>2. \A m \in sent : m.metric \notin cc.excluded /\ m.from = "power"
    BY DEF Msg
  <2> HIDE DEF sent
  <2>3. Reading(cc, c, d, [Nothing(c) EXCEPT !.sent = sent])
    BY <2>2, SendingIsReading
  <2>4. Unprocessed([Nothing(c) EXCEPT !.sent = sent])
    BY <2>2 DEF Unprocessed, Nothing
  <2>5. Silent(c, [Nothing(c) EXCEPT !.sent = sent])
    BY <2>2 DEF Silent, Nothing
  <2> QED BY <2>1, <2>3, <2>4, <2>5
<1> QED BY <1>1, <1>2, Zenon

LEMMA ProcessorIsReading ==
  ASSUME NEW cc, NEW d, NEW c, CacheFor(cc, c)
  PROVE  /\ Reading(cc, c, d, ReadProcessorMetrics(cc, c, d))
         /\ Silent(c, ReadProcessorMetrics(cc, c, d))
<1>1. CASE c.skip
  BY <1>1, NothingIsReading DEF ReadProcessorMetrics
<1>2. CASE ~c.skip /\ d.processor = "notFound"
  <2> DEFINE q == [c EXCEPT !.skip = TRUE]
  <2>1. ReadProcessorMetrics(cc, c, d) = Nothing(q)
    BY <1>2 DEF ReadProcessorMetrics
  <2>2. CacheFor(cc, q) /\ q.skip /\ q.urls = c.urls
    BY DEF CacheFor
  <2> HIDE DEF q
  <2> QED BY <2>1, <2>2 DEF Nothing, Reading, Silent
<1>3. CASE ~c.skip /\ d.processor = "error"
  BY <1>3, NothingIsReading DEF ReadProcessorMetrics
<1>5. CASE ~c.skip /\ d.processor = "noAnswer"
  <2>1. ReadProcessorMetrics(cc, c, d) = Panic(c, {})
    BY <1>5 DEF ReadProcessorMetrics
  <2> DEFINE sent == {}
  <2>2. \A m \in sent : m.metric \notin cc.excluded /\ m.from = "processor"
    OBVIOUS
  <2> HIDE DEF sent
  <2>3. Reading(cc, c, d, Panic(c, sent))
    BY <1>5, <2>2, SendingIsReading
  <2>4. Silent(c, Panic(c, sent))
    BY <2>2 DEF Silent, Panic
  <2> QED BY <2>1, <2>3, <2>4 DEF sent
<1>4. CASE ~c.skip /\ d.processor \notin {"notFound", "error", "noAnswer"}
  <2> DEFINE sent == {Msg(m, "processor") :
                        m \in {"consumed_power", "temperature"} \ cc.excluded}
                     \ (IF d.processor = "65535"
                        THEN {Msg("consumed_power", "processor")} ELSE {})
  <2>1. ReadProcessorMetrics(cc, c, d) = [Nothing(c) EXCEPT !.sent = sent]
    BY <1>4 DEF ReadProcessorMetrics
  <2>2. \A m \in sent : m.metric \notin cc.excluded /\ m.from = "processor"
    BY DEF Msg
  <2> HIDE DEF sent
  <2>3. Reading(cc, c, d, [Nothing(c) EXCEPT !.sent = sent])
    BY <1>4, <2>2, SendingIsReading
  <2>4. Silent(c, [Nothing(c) EXCEPT !.sent = sent])
    BY <2>2 DEF Silent, Nothing
  <2> QED BY <2>1, <2>3, <2>4
<1> QED BY <1>1, <1>2, <1>3, <1>4, <1>5

(* One part after the other.                                               *)
LEMMA ThenIsReading ==
  ASSUME NEW cc, NEW d, NEW c, NEW r, Reading(cc, c, d, r), Unprocessed(r),
         NEW q, Reading(cc, r.cache, d, q)
  PROVE  /\ Reading(cc, c, d, [q EXCEPT !.sent = @ \cup r.sent])
         /\ Unprocessed(q) => Unprocessed([q EXCEPT !.sent = @ \cup r.sent])
         /\ r.end = "done" /\ Answered(d, r) /\ Silent(r.cache, q) =>
              Answered(d, [q EXCEPT !.sent = @ \cup r.sent])
<1> DEFINE both == [q EXCEPT !.sent = @ \cup r.sent]
<1>1. /\ DOMAIN both = {"sent", "cache", "end"} /\ both.cache = q.cache
      /\ both.sent = q.sent \cup r.sent
  BY DEF Reading
<1> HIDE DEF both
<1>2. Unprocessed(q) => Unprocessed(both)
  BY <1>1 DEF Unprocessed
<1>3. /\ c.skip => q.cache.skip
      /\ c.urls # Unread => q.cache.urls = c.urls
      /\ c.urls = Unread => \/ q.cache.urls = Unread
                            \/ q.cache.urls = IF "sensors" \in d.broken THEN {}
                                              ELSE Kept(cc, d)
  BY DEF Reading
<1>4. ASSUME NEW m \in q.sent \cup r.sent
      PROVE  /\ m.metric \notin cc.excluded
             /\ m.from = "sensor" => q.cache.urls # Unread /\ m.metric \in q.cache.urls
             /\ m.from = "processor" => ~q.cache.skip
  BY <1>4 DEF Reading, Unprocessed
<1>5. Reading(cc, c, d, both)
  BY <1>1, <1>3, <1>4 DEF Reading
<1>6. ASSUME r.end = "done", Answered(d, r), Silent(r.cache, q) PROVE Answered(d, both)
  <2>1. \A m \in both.sent : m.from = "sensor" <=> m \in r.sent /\ m.from = "sensor"
    BY <1>1, <1>6 DEF Silent
  <2>2. {m \in both.sent : m.from = "sensor"} = {m \in r.sent : m.from = "sensor"}
    BY <1>1, <2>1
  <2>3. FromSensors(both.sent) = FromSensors(r.sent)
    BY <2>2, Zenon DEF FromSensors
  <2> QED BY <1>1, <1>6, <2>3 DEF Answered, Silent
<1> QED BY <1>2, <1>5, <1>6 DEF both

LEMMA RoundIsReading ==
  ASSUME NEW cc, NEW d, Healthy(d), NEW c, CacheFor(cc, c)
  PROVE  /\ Reading(cc, c, d, ReadMetrics(cc, c, d))
         /\ "sensors" \in cc.do => Answered(d, ReadMetrics(cc, c, d))
<1> DEFINE n == Nothing(c)
           a == Then(n, "sensors" \in cc.do, LAMBDA k : ReadSensors(cc, k, d))
           b == Then(a, "thermal" \in cc.do, LAMBDA k : ReadThermalMetrics(cc, k, d))
           e == Then(b, "power" \in cc.do, LAMBDA k : ReadPowerMetrics(cc, k, d))
           f == Then(e, "processor" \in cc.do, LAMBDA k : ReadProcessorMetrics(cc, k, d))
<1>1. ReadMetrics(cc, c, d) \in {Failure(c), f}
  BY DEF ReadMetrics
<1>2. Reading(cc, c, d, n) /\ Unprocessed(n)
  BY NothingIsReading
<1>3. Reading(cc, c, d, a) /\ Unprocessed(a) /\ ("sensors" \in cc.do => Answered(d, a))
  <2>5. ASSUME "sensors" \in cc.do PROVE Answered(d, a)
    <3> DEFINE q == ReadSensors(cc, c, d)
    <3>1. a = [q EXCEPT !.sent = @ \cup {}]
      BY <2>5 DEF Then, Nothing
    <3>2. Reading(cc, c, d, q) /\ Answered(d, q)
      BY SensorsAreReading
    <3> HIDE DEF a, q
    <3>3. a.sent = q.sent /\ a.end = q.end /\ a.cache = q.cache
      BY <3>1, <3>2 DEF Reading
    <3> QED BY <3>2, <3>3 DEF Answered
  <2> HIDE DEF n
  <2>1. a = n \/ a = [ReadSensors(cc, n.cache, d) EXCEPT !.sent = @ \cup n.sent]
    BY DEF Then
  <2>2. CacheFor(cc, n.cache)
    BY <1>2 DEF Reading
  <2> HIDE DEF a
  <2> QED BY <1>2, <2>1, <2>2, <2>5, SensorsAreReading, ThenIsReading
<1>4. Reading(cc, c, d, b) /\ Unprocessed(b) /\ ("sensors" \in cc.do => Answered(d, b))
  <2> HIDE DEF a
  <2>1. \/ b = a
        \/ /\ b = [ReadThermalMetrics(cc, a.cache, d) EXCEPT !.sent = @ \cup a.sent]
           /\ a.end = "done"
    BY DEF Then
  <2>2. CacheFor(cc, a.cache)
    BY <1>3 DEF Reading
  <2> HIDE DEF b
  <2> QED BY <1>3, <2>1, <2>2, ThermalIsReading, ThenIsReading
<1>5. Reading(cc, c, d, e) /\ Unprocessed(e) /\ ("sensors" \in cc.do => Answered(d, e))
  <2> HIDE DEF b
  <2>1. \/ e = b
        \/ /\ e = [ReadPowerMetrics(cc, b.cache, d) EXCEPT !.sent = @ \cup b.sent]
           /\ b.end = "done"
    BY DEF Then
  <2>2. CacheFor(cc, b.cache)
    BY <1>4 DEF Reading
  <2> HIDE DEF e
  <2> QED BY <1>4, <2>1, <2>2, PowerIsReading, ThenIsReading
<1>6. Reading(cc, c, d, f) /\ ("sensors" \in cc.do => Answered(d, f))
  <2> HIDE DEF e
  <2>1. \/ f = e
        \/ /\ f = [ReadProcessorMetrics(cc, e.cache, d) EXCEPT !.sent = @ \cup e.sent]
           /\ e.end = "done"
    BY DEF Then
  <2>2. CacheFor(cc, e.cache)
    BY <1>5 DEF Reading
  <2> HIDE DEF f
  <2> QED BY <1>5, <2>1, <2>2, ProcessorIsReading, ThenIsReading
<1> HIDE DEF f
<1>7. Answered(d, Failure(c))
  BY NothingIsReading DEF Answered
<1> QED BY <1>1, <1>6, <1>7, NothingIsReading

RedfishFields == {"kind", "cc", "cache", "sent", "end", "readable", "healthy", "blind",
                  "absent", "round"}

RedfishInv ==
  Is("redfish") =>
    /\ DOMAIN st = RedfishFields
    /\ CacheFor(st.cc, st.cache)
    /\ st.absent \in BOOLEAN /\ (st.absent => st.cache.skip)
    /\ st.cache.urls = Unread <=> st.healthy = Unread
    /\ st.blind \in BOOLEAN /\ (st.cache.urls = Unread => ~st.blind)
    /\ st.cache.urls # Unread =>
         st.cache.urls = IF st.blind THEN {}
                         ELSE st.healthy \ (st.cc.excluded \cup {"unknown"})
    /\ \A m \in st.sent : /\ m.metric \notin st.cc.excluded \cup st.cc.dropped
                          /\ m.from = "processor" => ~st.absent
    /\ FromSensors(st.sent) \subseteq Wanted
    /\ st.end = "done" /\ "sensors" \in st.cc.do =>
         FromSensors(st.sent) = Wanted \cap st.readable

LEMMA SendMetricsDrops ==
  ASSUME NEW cc, NEW sent
  PROVE  FromSensors(SendMetrics(cc, sent)) = FromSensors(sent) \ cc.dropped
<1>1. {m \in SendMetrics(cc, sent) : m.from = "sensor"}
        = {m \in {m \in sent : m.from = "sensor"} : m.metric \notin cc.dropped}
  BY DEF SendMetrics
<1> QED BY <1>1 DEF FromSensors

LEMMA ReadDeviceKeeps ==
  ASSUME Is("redfish"), RedfishInv, ReadDevice
  PROVE  RedfishInv'
<1>1. PICK d \in Device :
        st' = [st EXCEPT !.cache = ReadMetrics(st.cc, st.cache, d).cache,
                         !.sent = SendMetrics(st.cc, ReadMetrics(st.cc, st.cache, d).sent),
                         !.round = @ + 1, !.end = ReadMetrics(st.cc, st.cache, d).end,
                         !.readable = d.read,
                         !.healthy = IF /\ @ = Unread
                                        /\ ReadMetrics(st.cc, st.cache, d).cache.urls # Unread
                                     THEN d.good ELSE @,
                         !.blind = @ \/ /\ st.cache.urls = Unread
                                        /\ ReadMetrics(st.cc, st.cache, d).cache.urls # Unread
                                        /\ "sensors" \in d.broken,
                         !.absent = @ \/ /\ ReadMetrics(st.cc, st.cache, d).cache # st.cache
                                         /\ ReadMetrics(st.cc, st.cache, d).cache.skip]
  BY Zenon DEF ReadDevice
<1> DEFINE r == ReadMetrics(st.cc, st.cache, d)
<1>2. Healthy(d) /\ d.good # Unread
  BY Zenon DEF Device, Healthy, Unread, Sensor
<1>3. DOMAIN st = RedfishFields /\ CacheFor(st.cc, st.cache)
  BY DEF RedfishInv
<1>4. Reading(st.cc, st.cache, d, r) /\ ("sensors" \in st.cc.do => Answered(d, r))
  BY <1>2, <1>3, RoundIsReading
<1> HIDE DEF r
<1>5. /\ DOMAIN st' = RedfishFields
      /\ st'.cc = st.cc /\ st'.cache = r.cache /\ st'.sent = SendMetrics(st.cc, r.sent)
      /\ st'.end = r.end /\ st'.readable = d.read
      /\ st'.healthy = IF st.healthy = Unread /\ r.cache.urls # Unread THEN d.good
                       ELSE st.healthy
      /\ st'.blind = (st.blind \/ /\ st.cache.urls = Unread /\ r.cache.urls # Unread
                                  /\ "sensors" \in d.broken)
      /\ st'.absent = (st.absent \/ (r.cache # st.cache /\ r.cache.skip))
  BY <1>1, <1>3 DEF r, RedfishFields
<1>6. CacheFor(st.cc, r.cache)
  BY <1>4 DEF Reading
<1>7. st'.absent \in BOOLEAN /\ (st'.absent => r.cache.skip)
  BY <1>4, <1>5, <1>6 DEF RedfishInv, Reading
<1>8. r.cache.urls = Unread <=> st'.healthy = Unread
  BY <1>2, <1>4, <1>5 DEF RedfishInv, Reading
<1>9. st'.blind \in BOOLEAN /\ (r.cache.urls = Unread => ~st'.blind)
  BY <1>4, <1>5 DEF RedfishInv, Reading
<1>10. r.cache.urls # Unread =>
         r.cache.urls = IF st'.blind THEN {}
                        ELSE st'.healthy \ (st.cc.excluded \cup {"unknown"})
  <2>1. CASE st.cache.urls = Unread
    <3>1. r.cache.urls # Unread => st'.healthy = d.good
      BY <1>5, <2>1 DEF RedfishInv
    <3>2. r.cache.urls # Unread => (st'.blind <=> "sensors" \in d.broken)
      BY <1>5, <2>1 DEF RedfishInv
    <3> QED BY <1>4, <2>1, <3>1, <3>2 DEF Reading, Kept
  <2>2. CASE st.cache.urls # Unread
    <3>1. r.cache.urls = st.cache.urls /\ st'.healthy = st.healthy /\ st'.blind = st.blind
      BY <1>4, <1>5, <2>2 DEF RedfishInv, Reading
    <3> QED BY <2>2, <3>1 DEF RedfishInv
  <2> QED BY <2>1, <2>2
<1>11. ASSUME NEW m \in st'.sent
       PROVE  /\ m.metric \notin st.cc.excluded \cup st.cc.dropped
              /\ m.from = "processor" => ~st'.absent
  <2>1. m \in r.sent /\ m.metric \notin st.cc.dropped
    BY <1>5, <1>11 DEF SendMetrics
  <2> QED BY <1>4, <1>7, <2>1 DEF Reading
<1>12. FromSensors(st'.sent) = FromSensors(r.sent) \ st.cc.dropped
  BY <1>5, SendMetricsDrops
<1>13. r.cache.urls # Unread => Wanted' = r.cache.urls \ st.cc.dropped
  BY <1>5, <1>10 DEF Wanted
<1>14. FromSensors(r.sent) \subseteq r.cache.urls
       /\ (r.cache.urls = Unread => FromSensors(r.sent) = {})
  BY <1>4 DEF Reading, FromSensors
<1>15. FromSensors(st'.sent) \subseteq Wanted'
  BY <1>12, <1>13, <1>14
<1>16. st'.end = "done" /\ "sensors" \in st.cc.do =>
         FromSensors(st'.sent) = Wanted' \cap st'.readable
  <2> SUFFICES ASSUME st'.end = "done", "sensors" \in st.cc.do
               PROVE  FromSensors(st'.sent) = Wanted' \cap st'.readable
    OBVIOUS
  <2>1. FromSensors(r.sent) = r.cache.urls \cap d.read
    BY <1>4, <1>5 DEF Answered
  <2>2. CASE r.cache.urls = Unread
    <3>1. Wanted' \subseteq Unread
      BY <1>5, <1>8, <1>9, <2>2 DEF Wanted
    <3>2. Unread \cap d.read = {}
      BY <1>2 DEF Healthy, Unread
    <3>3. FromSensors(st'.sent) = {}
      BY <1>12, <1>14, <2>2
    <3> QED BY <1>5, <3>1, <3>2, <3>3
  <2>3. CASE r.cache.urls # Unread
    BY <1>5, <1>12, <1>13, <2>1, <2>3
  <2> QED BY <2>2, <2>3
<1>17. Is("redfish")'
  BY <1>1, <1>3 DEF Is, RedfishFields
<1>18. /\ DOMAIN st' = RedfishFields /\ CacheFor(st'.cc, st'.cache)
       /\ st'.absent \in BOOLEAN /\ (st'.absent => st'.cache.skip)
       /\ st'.cache.urls = Unread <=> st'.healthy = Unread
       /\ st'.blind \in BOOLEAN /\ (st'.cache.urls = Unread => ~st'.blind)
  BY <1>5, <1>6, <1>7, <1>8, <1>9
<1>19. st'.cache.urls # Unread =>
         st'.cache.urls = IF st'.blind THEN {}
                          ELSE st'.healthy \ (st'.cc.excluded \cup {"unknown"})
  BY <1>5, <1>10
<1>20. /\ \A m \in st'.sent : /\ m.metric \notin st'.cc.excluded \cup st'.cc.dropped
                              /\ m.from = "processor" => ~st'.absent
       /\ st'.end = "done" /\ "sensors" \in st'.cc.do =>
            FromSensors(st'.sent) = Wanted' \cap st'.readable
  BY <1>5, <1>11, <1>16
<1> QED BY ONLY <1>15, <1>17, <1>18, <1>19, <1>20 DEF RedfishInv

LEMMA RedfishInvHolds == Spec => [](Chosen /\ RedfishInv)
<1>1. Init => Chosen /\ RedfishInv
  <2>1. Init => Chosen /\ (Is("redfish") => RedfishInit)
    BY InitChooses DEF Chosen, Is, Covered
  <2>2. RedfishInit => RedfishInv
    <3> SUFFICES ASSUME NEW e, NEW p,
                        st = [kind |-> "redfish", cc |-> [excluded |-> e, do |-> p,
                                                          dropped |-> {"fan_speed"}],
                              cache |-> [urls |-> Unread, skip |-> FALSE], sent |-> {},
                              end |-> "none", readable |-> {}, healthy |-> Unread,
                              blind |-> FALSE, absent |-> FALSE, round |-> 0]
                 PROVE  RedfishInv
      BY Zenon DEF RedfishInit
    <3>1. FromSensors(st.sent) = {}
      BY DEF FromSensors
    <3> QED BY <3>1 DEF RedfishInv, RedfishFields, CacheFor
  <2> QED BY <2>1, <2>2 DEF RedfishInv
<1>2. Chosen /\ RedfishInv /\ [Next]_st => (Chosen /\ RedfishInv)'
  <2> SUFFICES ASSUME Chosen, RedfishInv, [Next]_st PROVE RedfishInv'
    BY KindStays
  <2>1. st'.kind = st.kind
    BY KindStays
  <2>2. CASE ~Is("redfish")
    BY <2>1, <2>2 DEF RedfishInv, Is
  <2>3. CASE Is("redfish") /\ UNCHANGED st
    BY <2>3 DEF RedfishInv, Is, CacheFor, Wanted
  <2>4. CASE Is("redfish") /\ Next
    BY <2>4, StepsAreOwn, ReadDeviceKeeps DEF Is
  <2> QED BY <2>2, <2>3, <2>4
<1> QED BY <1>1, <1>2, PTL DEF Spec

(* A line of ipmi-sensors that becomes a message.                          *)
LEMMA LineIsRight ==
  ASSUME NEW cc, NEW l, NEW m \in ReadLine(cc, l)
  PROVE  /\ m.host \in cc.hosts /\ m.metric \notin cc.excluded
         /\ m.unit \in CanonicalUnit[m.metric]
<1> DEFINE c == Classify(l)
<1>1. /\ l.host \in cc.hosts /\ c # <<>> /\ c[1] \notin cc.excluded
      /\ m = [metric |-> c[1], unit |-> c[2], host |-> l.host]
  BY DEF ReadLine
<1>2. c \in {<<>>, <<"power", "Watts">>, <<"voltage", "Volts">>, <<"current", "Ampere">>,
             <<"temperature", "degC">>, <<"temperature", "degF">>, <<"fan_speed", "RPM">>,
             <<"air_flow", "CubicFeetPerMinute">>, <<"utilization", "percent">>}
  BY DEF Classify
<1> HIDE DEF c
<1>3. c[2] \in CanonicalUnit[c[1]]
  BY <1>1, <1>2 DEF CanonicalUnit
<1> QED BY <1>1, <1>3

(* What the caches remember is used for ever: exactly the sensors that     *)
(* were healthy and wanted when the list was made send their values in     *)
(* every round that is not cut short, none if making it failed; nothing    *)
(* that is excluded is sent, and processors that were not found are silent *)
(* (readMetrics of receivers/redfishReceiver.go, doReadMetric of           *)
(* receivers/ipmiReceiver.go).                                             *)
THEOREM ReadingsStayRight == Spec => []ReadingsAreRight
<1>1. RedfishInv => ReadingsAreRight
  BY LineIsRight DEF RedfishInv, ReadingsAreRight
<1> QED BY <1>1, RedfishInvHolds, PTL

-----------------------------------------------------------------------------
(***************************************************************************)
(* The phases of a job.  After an event every buffer has at most one       *)
(* value, and each value that comes in makes one buffer longer by one: no  *)
(* buffer is longer than the number of fresh values and one more.  Only a  *)
(* buffer of three values can make the verdict change.                     *)
(***************************************************************************)
IsEndOf(s, t) ==   \* s is the end of t
  Len(s) <= Len(t) /\ \A i \in 1..Len(s) : s[i] = t[Len(t) - Len(s) + i]

Buffer(s, t, fresh) ==   \* of the values t of a rank
  /\ s \in Seq(Reports) /\ t \in Seq(Reports)
  /\ IsEndOf(s, t) /\ Len(s) <= BufferLength /\ Len(s) <= fresh + 1

AnalysisInv ==
  Is("analysis") =>
    /\ DOMAIN st = {"kind", "tasks", "adding", "verdict", "reported", "fresh", "panicked",
                    "event"}
    /\ IsFiniteSet(DOMAIN st.tasks) /\ DOMAIN st.reported = DOMAIN st.tasks
    /\ st.fresh \in Nat
    /\ \A r \in DOMAIN st.tasks : Buffer(st.tasks[r], st.reported[r], st.fresh)
    /\ st.adding # <<>> => st.adding[1] \in DOMAIN st.tasks /\ st.adding[2] \in Reports
    /\ st.verdict = "changed" => st.fresh >= 2

LEMMA EndIsSuffix ==
  ASSUME NEW s \in Seq(Reports), NEW t \in Seq(Reports), IsEndOf(s, t)
  PROVE  IsSuffix(s, t)
<1> DEFINE n == Len(s)
           m == Len(t)
<1>1. n \in Nat /\ m \in Nat /\ n <= m
  BY DEF IsEndOf
<1>2. Len(Reverse(s)) = n /\ Len(Reverse(t)) = m
  BY DEF Reverse
<1>3. ASSUME NEW i \in 1..n PROVE Reverse(s)[i] = Reverse(t)[i]
  <2>1. Reverse(s)[i] = s[n - i + 1] /\ Reverse(t)[i] = t[m - i + 1]
    BY <1>1 DEF Reverse
  <2>2. n - i + 1 \in 1..n /\ m - n + (n - i + 1) = m - i + 1
    BY <1>1
  <2> QED BY <2>1, <2>2 DEF IsEndOf
<1>4. SubSeq(Reverse(s), 1, n) = SubSeq(Reverse(t), 1, n)
  <2>1. /\ Reverse(s) \in Seq(Reports) /\ Reverse(t) \in Seq(Reports)
    BY DEF Reverse
  <2> QED BY <1>1, <1>2, <1>3, <2>1
<1> QED BY <1>1, <1>2, <1>4 DEF IsSuffix, IsPrefix

(* One more value.                                                         *)
LEMMA AddKeepsBuffer ==
  ASSUME NEW s, NEW t, NEW fresh \in Nat, Buffer(s, t, fresh), NEW v \in Reports
  PROVE  Buffer(AddValue(s, v), Append(t, v), fresh + 1)
<1> DEFINE longer == Append(s, v)
           all == Append(t, v)
<1>1. /\ s \in Seq(Reports) /\ t \in Seq(Reports) /\ longer \in Seq(Reports)
      /\ all \in Seq(Reports) /\ Len(longer) = Len(s) + 1 /\ Len(all) = Len(t) + 1
  BY DEF Buffer
<1>2. IsEndOf(longer, all)
  <2> SUFFICES ASSUME NEW i \in 1..Len(longer)
               PROVE  longer[i] = all[Len(all) - Len(longer) + i]
    <3>1. Len(longer) <= Len(all)
      BY <1>1 DEF IsEndOf, Buffer
    <3> HIDE DEF longer, all
    <3> QED BY <3>1 DEF IsEndOf
  <2>1. CASE i = Len(longer)
    BY <1>1, <2>1
  <2>2. CASE i # Len(longer)
    BY <1>1, <2>2 DEF IsEndOf, Buffer
  <2> QED BY <2>1, <2>2
<1> HIDE DEF longer, all
<1>3. CASE Len(longer) > BufferLength
  <2>1. /\ Tail(longer) \in Seq(Reports) /\ Len(Tail(longer)) = Len(longer) - 1
        /\ \A i \in 1..Len(Tail(longer)) : Tail(longer)[i] = longer[i + 1]
    BY <1>1
  <2> DEFINE rest == Tail(longer)
  <2>2. IsEndOf(rest, all)
    <3>1. Len(rest) \in Nat /\ Len(rest) + 1 = Len(longer) /\ Len(longer) <= Len(all)
          /\ Len(all) \in Nat
      BY <1>1, <1>2, <2>1 DEF IsEndOf
    <3>2. ASSUME NEW i \in 1..Len(rest) PROVE rest[i] = all[Len(all) - Len(rest) + i]
      <4>1. i + 1 \in 1..Len(longer) /\ rest[i] = longer[i + 1]
        BY <2>1, <3>1
      <4>2. longer[i + 1] = all[Len(all) - Len(longer) + (i + 1)]
        BY <1>2, <4>1 DEF IsEndOf
      <4> HIDE DEF rest
      <4> QED BY <3>1, <4>1, <4>2
    <3> HIDE DEF rest
    <3> QED BY <3>1, <3>2 DEF IsEndOf
  <2>3. AddValue(s, v) = Tail(longer)
    BY <1>3 DEF AddValue, longer
  <2>4. Len(Tail(longer)) <= BufferLength /\ Len(Tail(longer)) <= fresh + 1 + 1
    BY <1>1, <2>1, BufferAssumption DEF Buffer
  <2> QED BY <1>1, <2>1, <2>2, <2>3, <2>4 DEF Buffer, all
<1>4. CASE ~(Len(longer) > BufferLength)
  <2>1. AddValue(s, v) = longer
    BY <1>4 DEF AddValue, longer
  <2>2. Len(longer) <= BufferLength /\ Len(longer) <= fresh + 1 + 1
    BY <1>1, <1>4, BufferAssumption DEF Buffer
  <2> QED BY <1>1, <1>2, <2>1, <2>2 DEF Buffer, all
<1> QED BY <1>3, <1>4

(* After an event the last value of a buffer is all there is.              *)
LEMMA ResetKeepsBuffer ==
  ASSUME NEW s, NEW t, NEW fresh \in Nat, Buffer(s, t, fresh)
  PROVE  Buffer(IF s = <<>> THEN <<>> ELSE <<Last(s)>>, t, 0)
<1>1. CASE s = <<>>
  BY <1>1 DEF Buffer, IsEndOf
<1>2. CASE s # <<>>
  <2>1. Len(s) \in Nat /\ Len(s) >= 1 /\ Last(s) = s[Len(s)] /\ s[Len(s)] \in Reports
    BY <1>2 DEF Buffer, Last
  <2> DEFINE one == <<Last(s)>>
  <2>2. Len(one) = 1 /\ one \in Seq(Reports) /\ one[1] = s[Len(s)]
    BY <2>1
  <2> HIDE DEF one
  <2>3. IsEndOf(one, t)
    BY <2>1, <2>2 DEF IsEndOf, Buffer
  <2>4. Buffer(one, t, 0)
    BY <2>1, <2>2, <2>3, BufferAssumption DEF Buffer
  <2> QED BY <1>2, <2>4 DEF one
<1> QED BY <1>1, <1>2

(* Buffers of less than three values say nothing.                          *)
SumUp(tasks, sum, rank) ==
  LET x == AnalyseTask(tasks[rank])
  IN <<sum[1] * x[2] + x[1] * sum[2], sum[2] * x[2]>>
AnyOf(T) == CHOOSE r \in T : TRUE
NothingYet(tasks, T, sum) == sum = <<0, 1>>
Ranks == INSTANCE Folding WITH Op <- SumUp, Choose <- AnyOf, Keeps <- NothingYet

LEMMA ShortBuffersAreSame ==
  ASSUME NEW tasks, IsFiniteSet(DOMAIN tasks),
         \A r \in DOMAIN tasks : tasks[r] \in Seq(Reports) /\ Len(tasks[r]) < 3
  PROVE  Analyse(tasks) = <<0, 1>>
<1> DEFINE S == DOMAIN tasks
<1>1. \A r \in S : AnalyseTask(tasks[r]) = <<0, 1>>
  BY Zenon DEF AnalyseTask
<1>2. \A T \in SUBSET S : T # {} => AnyOf(T) \in T
  BY DEF AnyOf
<1>3. \A T \in SUBSET S : \A a :
        T # {} /\ NothingYet(tasks, T \ {AnyOf(T)}, a)
          => NothingYet(tasks, T, SumUp(tasks, a, AnyOf(T)))
  <2> SUFFICES ASSUME NEW T \in SUBSET S, T # {}
               PROVE  SumUp(tasks, <<0, 1>>, AnyOf(T)) = <<0, 1>>
    BY DEF NothingYet
  <2>1. AnalyseTask(tasks[AnyOf(T)]) = <<0, 1>>
    BY <1>1, <1>2
  <2> QED BY <2>1 DEF SumUp
<1>4. NothingYet(tasks, {}, <<0, 1>>)
  BY DEF NothingYet
<1>5. NothingYet(tasks, S, Ranks!Folded(tasks, <<0, 1>>, S))
  <2>1. Ranks!IsFiniteSet(S)
    BY Zenon DEF IsFiniteSet, Ranks!IsFiniteSet
  <2> HIDE DEF S
  <2> QED BY ONLY <2>1, <1>2, <1>3, <1>4, Ranks!FoldKeeps
<1>6. Analyse(tasks) = Ranks!Folded(tasks, <<0, 1>>, S)
  BY Zenon DEF Analyse, FoldSet, Ranks!Folded, SumUp, AnyOf, MapThenFoldSet, Ranks!MapThenFoldSet
<1> QED BY <1>5, <1>6 DEF NothingYet

LEMMA NewTaskKeeps ==
  ASSUME Is("analysis"), AnalysisInv, NewTask PROVE AnalysisInv'
<1>1. PICK rank \in {0, 1}, v \in Reports :
        st' = [st EXCEPT !.tasks = AssignNew(@, rank, <<>>),
                         !.reported = AssignNew(@, rank, <<>>),
                         !.adding = <<rank, v>>, !.event = FALSE]
  BY Zenon DEF NewTask
<1> DEFINE tasks == AssignNew(st.tasks, rank, <<>>)
           reported == AssignNew(st.reported, rank, <<>>)
<1>2. /\ DOMAIN st' = DOMAIN st /\ st'.tasks = tasks /\ st'.reported = reported
      /\ st'.adding = <<rank, v>> /\ st'.verdict = st.verdict /\ st'.fresh = st.fresh
  BY <1>1 DEF AnalysisInv
<1>3. DOMAIN tasks = DOMAIN st.tasks \cup {rank} /\ DOMAIN reported = DOMAIN tasks
  BY DEF AnalysisInv, AssignNew, Assign
<1>4. IsFiniteSet(DOMAIN tasks)
  <2>1. IsFiniteSet(DOMAIN st.tasks)
    BY DEF AnalysisInv
  <2>2. IsFiniteSet(DOMAIN st.tasks \cup {rank})
    BY <2>1, FS_AddElement
  <2> HIDE DEF tasks
  <2> QED BY <1>3, <2>2
<1>5. ASSUME NEW r \in DOMAIN tasks PROVE Buffer(tasks[r], reported[r], st.fresh)
  <2>1. CASE r \in DOMAIN st.tasks
    <3>1. tasks[r] = st.tasks[r] /\ reported[r] = st.reported[r]
      BY <2>1 DEF AssignNew, Assign, AnalysisInv
    <3> HIDE DEF tasks, reported
    <3> QED BY <2>1, <3>1 DEF AnalysisInv
  <2>2. CASE r \notin DOMAIN st.tasks
    <3>1. tasks[r] = <<>> /\ reported[r] = <<>>
      BY <2>2 DEF AssignNew, Assign, AnalysisInv
    <3>2. Buffer(<<>>, <<>>, st.fresh)
      BY BufferAssumption DEF Buffer, IsEndOf, AnalysisInv
    <3> HIDE DEF tasks, reported
    <3> QED BY <3>1, <3>2
  <2> QED BY <2>1, <2>2
<1> HIDE DEF tasks, reported
<1> QED BY <1>2, <1>3, <1>4, <1>5 DEF AnalysisInv

LEMMA AddToTaskKeeps ==
  ASSUME Is("analysis"), AnalysisInv, AddToTask PROVE AnalysisInv'
<1> DEFINE rank == st.adding[1]
           v == st.adding[2]
<1>1. /\ st.adding # <<>>
      /\ st' = [st EXCEPT !.tasks[rank] = AddValue(@, v), !.adding = <<>>,
                          !.reported[rank] = Append(@, v), !.fresh = @ + 1,
                          !.event = FALSE]
  BY DEF AddToTask
<1>2. rank \in DOMAIN st.tasks /\ v \in Reports
  BY <1>1 DEF AnalysisInv
<1>3. /\ DOMAIN st' = DOMAIN st /\ st'.tasks = [st.tasks EXCEPT ![rank] = AddValue(@, v)]
      /\ st'.reported = [st.reported EXCEPT ![rank] = Append(@, v)]
      /\ st'.adding = <<>> /\ st'.verdict = st.verdict /\ st'.fresh = st.fresh + 1
  BY <1>1 DEF AnalysisInv
<1> HIDE DEF rank, v
<1>4. DOMAIN st'.tasks = DOMAIN st.tasks /\ DOMAIN st'.reported = DOMAIN st.reported
  BY <1>3
<1>5. ASSUME NEW r \in DOMAIN st.tasks
      PROVE  Buffer(st'.tasks[r], st'.reported[r], st.fresh + 1)
  <2>1. Buffer(st.tasks[r], st.reported[r], st.fresh) /\ st.fresh \in Nat
    BY DEF AnalysisInv
  <2>2. CASE r = rank
    <3>1. st'.tasks[r] = AddValue(st.tasks[r], v) /\ st'.reported[r] = Append(st.reported[r], v)
      BY <1>3, <2>2 DEF AnalysisInv
    <3> QED BY <1>2, <2>1, <3>1, AddKeepsBuffer
  <2>3. CASE r # rank
    <3>1. st'.tasks[r] = st.tasks[r] /\ st'.reported[r] = st.reported[r]
      BY <1>3, <2>3 DEF AnalysisInv
    <3> QED BY <2>1, <3>1 DEF Buffer
  <2> QED BY <2>2, <2>3
<1> QED BY <1>3, <1>4, <1>5 DEF AnalysisInv

LEMMA AnalyseJobKeeps ==
  ASSUME Is("analysis"), AnalysisInv, AnalyseJob PROVE AnalysisInv'
<1> DEFINE sum == Analyse(st.tasks)
           verdict == IF 10000 * sum[1] > ChiSquareLimit(st.tasks) * sum[2]
                      THEN "changed" ELSE "same"
<1>1. st' = [st EXCEPT !.verdict = verdict, !.event = FALSE]
  BY DEF AnalyseJob
<1>2. verdict = "changed" => st.fresh >= 2
  <2> SUFFICES ASSUME ~(st.fresh >= 2) PROVE verdict = "same"
    BY DEF AnalysisInv
  <2>1. ASSUME NEW r \in DOMAIN st.tasks
        PROVE  st.tasks[r] \in Seq(Reports) /\ Len(st.tasks[r]) < 3
    <3>1. /\ st.tasks[r] \in Seq(Reports) /\ Len(st.tasks[r]) <= st.fresh + 1
          /\ st.fresh \in Nat
      BY DEF AnalysisInv, Buffer
    <3> DEFINE n == Len(st.tasks[r])
    <3>2. n \in Nat
      BY <3>1
    <3> HIDE DEF n
    <3>3. n < 3
      BY <3>1, <3>2 DEF n
    <3> QED BY <3>1, <3>3 DEF n
  <2>2. sum = <<0, 1>>
    BY <2>1, ShortBuffersAreSame DEF AnalysisInv
  <2>3. ChiSquareLimit(st.tasks) \in {38145, 78147}
    BY DEF ChiSquareLimit
  <2> HIDE DEF sum
  <2> QED BY <2>2, <2>3
<1> HIDE DEF verdict
<1>3. /\ DOMAIN st' = DOMAIN st /\ st'.tasks = st.tasks /\ st'.reported = st.reported
      /\ st'.adding = st.adding /\ st'.verdict = verdict /\ st'.fresh = st.fresh
  BY <1>1 DEF AnalysisInv
<1> QED BY <1>2, <1>3 DEF AnalysisInv

LEMMA ResetJobKeepsBuffers ==
  ASSUME Is("analysis"), AnalysisInv, ResetJob PROVE AnalysisInv'
<1>1. CASE st.verdict = "same"
  <2>1. st' = [st EXCEPT !.verdict = "none", !.event = FALSE]
    BY <1>1 DEF ResetJob
  <2>2. /\ DOMAIN st' = DOMAIN st /\ st'.tasks = st.tasks /\ st'.reported = st.reported
        /\ st'.adding = st.adding /\ st'.verdict = "none" /\ st'.fresh = st.fresh
    BY <2>1 DEF AnalysisInv
  <2> QED BY <2>2 DEF AnalysisInv
<1>2. CASE st.verdict # "same"
  <2> DEFINE tasks == [r \in DOMAIN st.tasks |->
                         IF st.tasks[r] = <<>> THEN <<>> ELSE <<Last(st.tasks[r])>>]
             panicked == \E r \in DOMAIN st.tasks : st.tasks[r] = <<>>
  <2>1. st' = [st EXCEPT !.verdict = "none", !.event = TRUE, !.fresh = 0,
                         !.panicked = panicked, !.tasks = tasks]
    BY <1>2 DEF ResetJob
  <2>2. ASSUME NEW r \in DOMAIN st.tasks PROVE Buffer(tasks[r], st.reported[r], 0)
    <3>1. Buffer(st.tasks[r], st.reported[r], st.fresh) /\ st.fresh \in Nat
      BY DEF AnalysisInv
    <3>2. tasks[r] = IF st.tasks[r] = <<>> THEN <<>> ELSE <<Last(st.tasks[r])>>
      OBVIOUS
    <3> HIDE DEF tasks
    <3> QED BY <3>1, <3>2, ResetKeepsBuffer
  <2>3. DOMAIN tasks = DOMAIN st.tasks
    OBVIOUS
  <2> HIDE DEF tasks, panicked
  <2>4. /\ DOMAIN st' = DOMAIN st /\ st'.tasks = tasks /\ st'.reported = st.reported
        /\ st'.adding = st.adding /\ st'.verdict = "none" /\ st'.fresh = 0
    BY <2>1 DEF AnalysisInv
  <2> QED BY <2>2, <2>3, <2>4 DEF AnalysisInv
<1> QED BY <1>1, <1>2

LEMMA AnalysisInvHolds == Spec => [](Chosen /\ AnalysisInv)
<1>1. Init => Chosen /\ AnalysisInv
  <2>1. Init => Chosen /\ (Is("analysis") => AnalysisInit)
    BY InitChooses DEF Chosen, Is, Covered
  <2>2. AnalysisInit => AnalysisInv
    BY FS_EmptySet DEF AnalysisInv, AnalysisInit, NoTask
  <2> QED BY <2>1, <2>2 DEF AnalysisInv
<1>2. Chosen /\ AnalysisInv /\ [Next]_st => (Chosen /\ AnalysisInv)'
  <2> SUFFICES ASSUME Chosen, AnalysisInv, [Next]_st PROVE AnalysisInv'
    BY KindStays
  <2>1. st'.kind = st.kind
    BY KindStays
  <2>2. CASE ~Is("analysis")
    BY <2>1, <2>2 DEF AnalysisInv, Is
  <2>3. CASE Is("analysis") /\ UNCHANGED st
    BY <2>3 DEF AnalysisInv, Is
  <2>4. CASE Is("analysis") /\ Next
    BY <2>4, StepsAreOwn, NewTaskKeeps, AddToTaskKeeps, AnalyseJobKeeps,
       ResetJobKeepsBuffers DEF Is
  <2> QED BY <2>2, <2>3, <2>4
<1> QED BY <1>1, <1>2, PTL DEF Spec

(* The buffer of a rank has its latest values, and no event of a new phase *)
(* follows another before at least two values have come in (Analyse, Reset *)
(* and Add of receivers/eecptReceiver.go).                                 *)
THEOREM PhasesStayApart == Spec => []PhasesAreToldOnce
<1>1. AnalysisInv => PhasesAreToldOnce
  BY EndIsSuffix DEF AnalysisInv, Buffer, PhasesAreToldOnce
<1> QED BY <1>1, AnalysisInvHolds, PTL
-----------------------------------------------------------------------------
(***************************************************************************)
(* Coarser series.  The limits of the buckets increase, so that no bucket  *)
(* is empty and the point picked in one is before those of the next; the   *)
(* points of a step are those from k * step on.                            *)
(***************************************************************************)
(* A Float is NaN or a number.                                             *)
IsFloat(x) == x = {} \/ \E v \in Int : x = {v}
IsSeries(data) ==
  \E n \in Nat : DOMAIN data = 1..n /\ Len(data) = n /\ \A i \in 1..n : IsFloat(data[i])

(* The limit between bucket k and the one before it.                       *)
Low(n, m, k) ==
  IF k = 0 THEN 1
  ELSE IF k = 1 THEN (n - 2) \div (m - 2) + 1
  ELSE Min({n - 2, (k * (n - 2)) \div (m - 2) + 1})

LEMMA MinOfTwo ==
  ASSUME NEW a \in Int, NEW b \in Int
  PROVE  Min({a, b}) = IF a <= b THEN a ELSE b
BY DEF Min

LEMMA Division ==
  ASSUME NEW a \in Nat, NEW d \in Nat \ {0}
  PROVE  a \div d \in Nat /\ (a \div d) * d <= a /\ a < (a \div d + 1) * d
OBVIOUS

LEMMA DivisionIs ==
  ASSUME NEW a \in Nat, NEW d \in Nat \ {0}, NEW q \in Nat, q * d <= a, a < (q + 1) * d
  PROVE  a \div d = q
OBVIOUS

LEMMA LimitsIncrease ==
  ASSUME NEW n \in Nat, NEW m \in Nat, m > 2, n > m, NEW k \in 0..m - 3
  PROVE  /\ Low(n, m, k) \in Nat /\ Low(n, m, k + 1) \in Nat
         /\ 1 <= Low(n, m, k) /\ Low(n, m, k) < Low(n, m, k + 1)
         /\ Low(n, m, k + 1) <= n - 1
<1> DEFINE N == n - 2
           M == m - 2
           B(i) == (i * N) \div M + 1
<1>1. N \in Nat /\ M \in Nat \ {0} /\ N > M /\ k \in Nat /\ k + 1 <= M
  OBVIOUS
<1> HIDE DEF N, M
<1>2. B(k) \in Nat /\ 1 <= B(k) /\ B(k + 1) \in Nat /\ B(k) < B(k + 1)
  <2> DEFINE p == (k * N) \div M
             q == ((k + 1) * N) \div M
  <2>1. p \in Nat /\ p * M <= k * N /\ q \in Nat /\ (k + 1) * N < (q + 1) * M
    <3>1. k * N \in Nat /\ (k + 1) * N \in Nat
      BY <1>1
    <3> QED BY <1>1, <3>1, Division
  <2> HIDE DEF p, q
  <2>2. (k + 1) * N = k * N + N
    BY <1>1
  <2>3. p * M + M < (q + 1) * M
    <3>1. k * N \in Int /\ p * M \in Int /\ (q + 1) * M \in Int
      BY <1>1, <2>1
    <3> QED BY <1>1, <2>1, <2>2, <3>1
  <2>4. (p + 1) * M < (q + 1) * M
    BY <1>1, <2>1, <2>3
  <2>5. p < q
    BY <1>1, <2>1, <2>4
  <2> QED BY <2>1, <2>5 DEF p, q
<1>3. B(k) < N
  <2> DEFINE p == (k * N) \div M
  <2>1. p \in Nat /\ p * M <= k * N
    <3>1. k * N \in Nat
      BY <1>1
    <3> QED BY <1>1, <3>1, Division
  <2> HIDE DEF p
  <2>2. k * N <= (M - 1) * N
    BY <1>1
  <2>3. (M - 1) * N = M * N - N
    BY <1>1
  <2>4. M * N - N < M * N - M
    <3>1. M * N \in Int
      BY <1>1
    <3> QED BY <1>1, <3>1
  <2>5. p * M < (N - 1) * M
    <3>1. (N - 1) * M = M * N - M /\ M * N \in Int /\ p * M \in Int /\ k * N \in Int
      BY <1>1, <2>1
    <3> QED BY <1>1, <2>1, <2>2, <2>3, <2>4, <3>1
  <2>6. p < N - 1
    BY <1>1, <2>1, <2>5
  <2> QED BY <1>1, <2>1, <2>6 DEF p
<1>4. B(0) = 1
  BY <1>1, DivisionIs
<1>5. B(1) = N \div M + 1
  BY <1>1
<1>6. B(1) <= N + 1
  <2> DEFINE p == (1 * N) \div M
  <2>1. p \in Nat /\ p * M <= N
    <3>1. 1 * N \in Nat /\ 1 * N = N
      BY <1>1
    <3> QED BY <1>1, <3>1, Division
  <2> HIDE DEF p
  <2>2. p <= N
    BY <1>1, <2>1
  <2> QED BY <1>1, <2>1, <2>2 DEF p
<1>7. ASSUME NEW i \in {k, k + 1}
      PROVE  Low(n, m, i) = IF i <= 1 THEN B(i) ELSE IF N <= B(i) THEN N ELSE B(i)
  <2>1. B(i) \in Nat
    BY <1>2
  <2>2. CASE i = 0
    BY <1>4, <2>2 DEF Low
  <2>3. CASE i = 1
    BY <1>5, <2>3 DEF Low, N, M
  <2>4. CASE i # 0 /\ i # 1
    <3>1. Low(n, m, i) = Min({N, B(i)})
      BY <2>4 DEF Low, N, M
    <3>2. i > 1
      BY <1>1, <2>4
    <3> HIDE DEF B
    <3> QED BY <1>1, <2>1, <3>1, <3>2, MinOfTwo
  <2> QED BY <2>2, <2>3, <2>4
<1> HIDE DEF B
<1>8. n - 1 = N + 1
  BY DEF N
<1> QED BY <1>1, <1>2, <1>3, <1>4, <1>6, <1>7, <1>8

(* The area of a triangle is a number, or NaN.                             *)
AddUp(fs, sum, i) == AddFloats(fs[i], sum)
FloatSoFar(fs, T, sum) == IsFloat(sum)
Sums == INSTANCE Folding WITH Op <- AddUp, Choose <- AnyOf, Keeps <- FloatSoFar

(* A finite set has an element on which f is largest.                      *)
LEMMA SomeIsLargest ==
  ASSUME NEW S, IsFiniteSet(S), S # {}, NEW f \in [S -> Int]
  PROVE  \E x \in S : \A y \in S : f[y] <= f[x]
<1> DEFINE Has(T) == \E x \in T : \A y \in T : f[y] <= f[x]
           Good == {n \in Nat : \A T \in SUBSET S : T # {} /\ Cardinality(T) <= n => Has(T)}
<1>1. \A T \in SUBSET S : IsFiniteSet(T) /\ Cardinality(T) \in Nat
  BY FS_Subset, FS_CardinalityType
<1>2. 0 \in Good
  <2>1. \A T \in SUBSET S : Cardinality(T) <= 0 => T = {}
    BY <1>1, FS_EmptySet
  <2> QED BY <2>1
<1>3. ASSUME NEW n \in Nat, n \in Good PROVE n + 1 \in Good
  <2> SUFFICES ASSUME NEW T \in SUBSET S, T # {}, Cardinality(T) <= n + 1 PROVE Has(T)
    OBVIOUS
  <2>1. PICK z \in T : TRUE
    OBVIOUS
  <2>2. Cardinality(T \ {z}) <= n /\ T \ {z} \in SUBSET S
    BY <1>1, FS_RemoveElement
  <2>3. CASE T \ {z} = {}
    BY <2>3
  <2>4. CASE T \ {z} # {}
    <3>1. Has(T \ {z})
      <4> HIDE DEF Has
      <4> QED BY <1>3, <2>2, <2>4
    <3>2. PICK u \in T \ {z} : \A y \in T \ {z} : f[y] <= f[u]
      BY <3>1
    <3>3. CASE f[z] <= f[u]
      BY <3>2, <3>3
    <3>4. CASE f[u] <= f[z]
      BY <3>2, <3>4
    <3> QED BY <3>3, <3>4
  <2> QED BY <2>3, <2>4
<1>4. Nat \subseteq Good
  <2> HIDE DEF Good
  <2> QED BY <1>2, <1>3, Sums!NumbersInduction
<1>5. Has(S)
  <2> HIDE DEF Has
  <2> QED BY <1>1, <1>4
<1> QED BY <1>5

(* The largest and the smallest of some integers are among them.           *)
LEMMA ExtremesAreElements ==
  ASSUME NEW S \in SUBSET Int, S # {}, IsFiniteSet(S)
  PROVE  /\ Max(S) \in S /\ Min(S) \in S
         /\ \A x \in S : Min(S) <= x /\ x <= Max(S)
<1>1. \E x \in S : \A y \in S : x >= y
  <2> DEFINE f == [z \in S |-> z]
  <2>1. f \in [S -> Int]
    OBVIOUS
  <2>2. PICK x \in S : \A y \in S : f[y] <= f[x]
    <3> HIDE DEF f
    <3> QED BY <2>1, SomeIsLargest
  <2> QED BY <2>2
<1>2. \E x \in S : \A y \in S : x <= y
  <2> DEFINE f == [z \in S |-> -z]
  <2>1. f \in [S -> Int]
    OBVIOUS
  <2>2. PICK x \in S : \A y \in S : f[y] <= f[x]
    <3> HIDE DEF f
    <3> QED BY <2>1, SomeIsLargest
  <2> QED BY <2>2
<1> QED BY <1>1, <1>2 DEF Max, Min

LEMMA AddFloatsIsFloat ==
  ASSUME NEW x, NEW y, IsFloat(x), IsFloat(y)
  PROVE  IsFloat(AddFloats(x, y))
<1>1. CASE x = {} \/ y = {}
  <2>1. AddFloats(x, y) = {}
    BY <1>1 DEF AddFloats
  <2> QED BY <2>1 DEF IsFloat
<1>2. CASE x # {} /\ y # {}
  <2>1. PICK v \in Int, w \in Int : x = {v} /\ y = {w}
    BY <1>2 DEF IsFloat
  <2>2. AddFloats(x, y) = {v + w}
    BY <2>1 DEF AddFloats
  <2> QED BY <2>2 DEF IsFloat
<1> QED BY <1>1, <1>2

LEMMA SumIsFloat ==
  ASSUME NEW data, IsSeries(data), NEW low \in Nat, NEW high \in Nat, high < Len(data)
  PROVE  IsFloat(SumY(data, low, high))
<1> DEFINE fs == [k \in 1..high - low + 1 |-> At(data, low + k - 1)]
           S == DOMAIN fs
<1>1. S = 1..high - low + 1 /\ \A i \in S : IsFloat(fs[i])
  BY DEF IsSeries, At
<1>2. IsFiniteSet(S)
  BY <1>1, FS_Interval
<1>3. \A T \in SUBSET S : T # {} => AnyOf(T) \in T
  BY DEF AnyOf
<1>4. SumY(data, low, high) = Sums!Folded(fs, {0}, S)
  BY Zenon DEF SumY, FoldSeq, FoldFunction, FoldFunctionOnSet, Sums!Folded, AddUp, AnyOf,
               MapThenFoldSet, Sums!MapThenFoldSet
<1>5. FloatSoFar(fs, {}, {0})
  BY DEF FloatSoFar, IsFloat
<1> HIDE DEF fs
<1>6. \A T \in SUBSET S : \A a :
        T # {} /\ FloatSoFar(fs, T \ {AnyOf(T)}, a) => FloatSoFar(fs, T, AddUp(fs, a, AnyOf(T)))
  <2> SUFFICES ASSUME NEW T \in SUBSET S, NEW a, T # {}, IsFloat(a)
               PROVE  IsFloat(AddUp(fs, a, AnyOf(T)))
    BY DEF FloatSoFar
  <2>1. IsFloat(fs[AnyOf(T)])
    BY <1>1, <1>3
  <2> QED BY <2>1, AddFloatsIsFloat DEF AddUp
<1>7. Sums!IsFiniteSet(S)
  BY <1>2, Zenon DEF IsFiniteSet, Sums!IsFiniteSet
<1>8. FloatSoFar(fs, S, Sums!Folded(fs, {0}, S))
  <2> HIDE DEF S
  <2> QED BY ONLY <1>7, <1>3, <1>5, <1>6, Sums!FoldKeeps
<1> QED BY <1>4, <1>8 DEF FloatSoFar

LEMMA AreaIsFloat ==
  ASSUME NEW data, IsSeries(data), NEW low \in Nat, NEW high \in Nat, high < Len(data),
         NEW a \in Nat, a < Len(data), NEW c \in Nat, c < Len(data)
  PROVE  IsFloat(Area(data, a, low, high, c))
<1> DEFINE n == high - low + 1
           sumX == ((low + high) * n) \div 2
           total == IF n = 0 THEN {} ELSE SumY(data, low, high)
<1>1. IsFloat(total) /\ IsFloat(At(data, a)) /\ IsFloat(At(data, c))
  <2>1. IsFloat({})
    BY DEF IsFloat
  <2>2. n # 0 => IsFloat(SumY(data, low, high))
    BY SumIsFloat
  <2>3. \A i \in Nat : i < Len(data) => IsFloat(At(data, i))
    BY DEF IsSeries, At
  <2> HIDE DEF n
  <2> QED BY <2>1, <2>2, <2>3
<1>2. \A z : z \in Area(data, a, low, high, c)
               <=> \E y \in At(data, a), cy \in At(data, c), sy \in total :
                     z = AreaOf(a, y, n, sumX, sy, c, cy)
  BY DEF Area
<1>3. n \in Int /\ sumX \in Int
  OBVIOUS
<1> HIDE DEF n, sumX, total
<1>4. CASE total = {} \/ At(data, a) = {} \/ At(data, c) = {}
  BY <1>2, <1>4 DEF IsFloat
<1>5. CASE total # {} /\ At(data, a) # {} /\ At(data, c) # {}
  <2>1. PICK sy \in Int, y \in Int, cy \in Int :
          total = {sy} /\ At(data, a) = {y} /\ At(data, c) = {cy}
    BY <1>1, <1>5 DEF IsFloat
  <2>2. Area(data, a, low, high, c) = {AreaOf(a, y, n, sumX, sy, c, cy)}
    BY <1>2, <2>1
  <2>3. AreaOf(a, y, n, sumX, sy, c, cy) \in Int
    BY <1>3, <2>1 DEF AreaOf
  <2> QED BY <2>2, <2>3 DEF IsFloat
<1> QED BY <1>4, <1>5

(* A bucket has a point that is taken.                                     *)
LEMMA PointIsInBucket ==
  ASSUME NEW data, IsSeries(data), NEW a \in Nat, a < Len(data),
         NEW b, b.low \in Nat, b.middle \in Nat, b.high \in Nat,
         b.low < b.middle, b.middle <= Len(data), b.high < Len(data)
  PROVE  MaxAreaPoint(data, a, b) \in b.low..b.middle - 1
<1> DEFINE AreaTo(c) == Area(data, a, b.middle, b.high, c)
           points == Points(b)
           nans == {c \in points : AreaTo(c) = {}}
           widest == {c \in points : \A o \in points : Max(AreaTo(o)) <= Max(AreaTo(c))}
<1>1. /\ points = b.low..b.middle - 1 /\ points \subseteq Int /\ b.low \in points
      /\ IsFiniteSet(points)
  <2>1. points = b.low..b.middle - 1
    BY DEF Points
  <2>2. IsFiniteSet(b.low..b.middle - 1)
    <3>1. b.low \in Int /\ b.middle - 1 \in Int
      OBVIOUS
    <3> QED BY <3>1, FS_Interval
  <2> QED BY <2>1, <2>2
<1>2. Len(data) \in Nat
  BY DEF IsSeries
<1>3. \A c \in points : IsFloat(AreaTo(c))
  BY <1>1, <1>2, AreaIsFloat
<1>4. MaxAreaPoint(data, a, b) = IF nans # {} THEN Max(nans) ELSE Min(widest)
  BY Zenon DEF MaxAreaPoint
<1> HIDE DEF AreaTo, points
<1>5. CASE nans # {}
  <2>1. nans \in SUBSET Int /\ nans \subseteq points /\ IsFiniteSet(nans)
    BY <1>1, FS_Subset
  <2>2. Max(nans) \in nans
    <3> HIDE DEF nans
    <3> QED BY <1>5, <2>1, ExtremesAreElements
  <2> QED BY <1>1, <1>4, <1>5, <2>1, <2>2
<1>6. CASE nans = {}
  <2>1. \A c \in points : Max(AreaTo(c)) \in Int
    <3> SUFFICES ASSUME NEW c \in points PROVE Max(AreaTo(c)) \in Int
      OBVIOUS
    <3>1. PICK v \in Int : AreaTo(c) = {v}
      BY <1>3, <1>6 DEF IsFloat
    <3>2. Max({v}) = v
      BY DEF Max
    <3> QED BY <3>1, <3>2
  <2>2. [c \in points |-> Max(AreaTo(c))] \in [points -> Int]
    BY <2>1
  <2>3. points # {}
    BY <1>1
  <2>4. PICK c \in points : \A o \in points : [x \in points |-> Max(AreaTo(x))][o]
                                              <= [x \in points |-> Max(AreaTo(x))][c]
    BY ONLY <1>1, <2>2, <2>3, SomeIsLargest
  <2>5. c \in widest
    BY <2>4
  <2>6. widest \in SUBSET Int /\ widest # {} /\ widest \subseteq points /\ IsFiniteSet(widest)
    BY <1>1, <2>5, FS_Subset
  <2>7. Min(widest) \in widest
    <3> HIDE DEF widest
    <3> QED BY <2>6, ExtremesAreElements
  <2> QED BY <1>1, <1>4, <1>6, <2>6, <2>7
<1> QED BY <1>5, <1>6

(* The points that are kept, bucket by bucket.                             *)
Places(c) == [i \in 1..IF c.m > 2 THEN c.m - 2 ELSE 0 |-> i]
NextNth(c, b, i) == NextBucket(c.data, c.m, b, Places(c)[i] - 1)
Picked(c, k, b) ==   \* in the first k buckets
  /\ b.points \in Seq(Nat) /\ Len(b.points) = k + 1 /\ b.points[1] = 0
  /\ \A i \in 1..k : b.points[i] < b.points[i + 1]
  /\ b.points[k + 1] < b.low
  /\ b.low = Low(Len(c.data), c.m, k)
  /\ c.m > 2 => b.middle = Low(Len(c.data), c.m, k + 1)
PickedSoFar(c, T, b) == \A k \in Nat : T = 1..k => Picked(c, k, b)
Buckets == INSTANCE Folding WITH Op <- NextNth, Choose <- Max, Keeps <- PickedSoFar

LEMMA BucketHighIsLimit ==
  ASSUME NEW n \in Nat, NEW m \in Nat, m > 2, n > m, NEW k \in Nat
  PROVE  /\ BucketHigh(n, m, k) = Low(n, m, k + 2)
         /\ BucketHigh(n, m, k) \in Nat /\ BucketHigh(n, m, k) < n
<1> DEFINE N == n - 2
           M == m - 2
           B == ((k + 2) * N) \div M + 1
<1>1. N \in Nat /\ M \in Nat \ {0} /\ N < n /\ k + 2 \in Nat
  OBVIOUS
<1>2. BucketHigh(n, m, k) = Min({N, B})
  BY DEF BucketHigh
<1>3. Low(n, m, k + 2) = Min({N, B})
  BY <1>1 DEF Low
<1> HIDE DEF N, M
<1>4. B \in Nat
  <2>1. (k + 2) * N \in Nat
    BY <1>1
  <2> QED BY <1>1, <2>1, Division
<1> HIDE DEF B
<1> QED BY <1>1, <1>2, <1>3, <1>4, MinOfTwo

LEMMA BucketIsPicked ==
  ASSUME NEW c, IsSeries(c.data), c.m \in Nat, c.m < Len(c.data),
         NEW k \in Nat, k < c.m - 2, NEW b, Picked(c, k, b)
  PROVE  Picked(c, k + 1, NextNth(c, b, k + 1))
<1> DEFINE n == Len(c.data)
           m == c.m
           bucket == [low |-> b.low, middle |-> b.middle, high |-> BucketHigh(n, m, k)]
           a == Last(b.points)
           p == MaxAreaPoint(c.data, a, bucket)
           next == NextNth(c, b, k + 1)
<1>1. n \in Nat /\ m \in Nat /\ m > 2 /\ n > m /\ k \in 0..m - 3
  BY DEF IsSeries
<1>2. next = [low |-> b.middle, middle |-> bucket.high, points |-> Append(b.points, p)]
  <2>1. Places(c)[k + 1] - 1 = k
    BY <1>1 DEF Places
  <2> QED BY <2>1 DEF NextNth, NextBucket
<1>3. b.low = Low(n, m, k) /\ b.middle = Low(n, m, k + 1)
  BY <1>1 DEF Picked
<1>4. /\ b.low \in Nat /\ b.middle \in Nat /\ b.low < b.middle /\ b.middle <= n - 1
  BY <1>1, <1>3, LimitsIncrease
<1>5. /\ bucket.high = Low(n, m, k + 2) /\ bucket.high \in Nat /\ bucket.high < n
  BY <1>1, BucketHighIsLimit
<1>6. a \in Nat /\ a < b.low /\ a = b.points[k + 1]
  BY DEF Picked, Last
<1>7. p \in b.low..b.middle - 1
  <2>1. bucket.low = b.low /\ bucket.middle = b.middle
    OBVIOUS
  <2> HIDE DEF bucket, a
  <2>2. bucket.low \in Nat /\ bucket.middle \in Nat /\ bucket.low < bucket.middle
        /\ bucket.middle <= n /\ bucket.high < n /\ a < n
    BY <1>1, <1>4, <1>5, <1>6, <2>1, SMTT(20)
  <2> QED BY <1>5, <1>6, <2>1, <2>2, PointIsInBucket
<1>8. next.low = b.middle /\ next.middle = bucket.high /\ next.points = Append(b.points, p)
  BY <1>2
<1> HIDE DEF next, p, bucket, a
<1>9. /\ next.points \in Seq(Nat) /\ Len(next.points) = k + 2 /\ next.points[k + 2] = p
      /\ \A i \in 1..k + 1 : next.points[i] = b.points[i]
  <2>1. b.points \in Seq(Nat) /\ Len(b.points) = k + 1 /\ k \in Nat
    BY <1>1 DEF Picked
  <2>2. p \in Nat
    BY <1>4, <1>7
  <2> QED BY ONLY <1>8, <2>1, <2>2
<1>10. \A i \in 1..k + 1 : next.points[i] < next.points[i + 1]
  <2>1. next.points[k + 1] < next.points[(k + 1) + 1]
    <3>1. next.points[k + 1] = a /\ next.points[(k + 1) + 1] = p
      <4>1. k + 1 \in 1..k + 1 /\ (k + 1) + 1 = k + 2
        OBVIOUS
      <4> QED BY <1>6, <1>9, <4>1
    <3> QED BY <1>4, <1>6, <1>7, <3>1
  <2>2. ASSUME NEW i \in 1..k PROVE next.points[i] < next.points[i + 1]
    <3>1. i \in 1..k + 1 /\ i + 1 \in 1..k + 1
      OBVIOUS
    <3>2. b.points[i] < b.points[i + 1]
      BY DEF Picked
    <3> QED BY <1>9, <3>1, <3>2
  <2>3. \A i \in 1..k + 1 : i \in 1..k \/ i = k + 1
    OBVIOUS
  <2> QED BY <2>1, <2>2, <2>3
<1>11. next.points[1] = 0 /\ next.points[k + 2] < next.low
  BY <1>4, <1>7, <1>8, <1>9, SMTT(20) DEF Picked
<1>12. (k + 1) + 1 = k + 2
  OBVIOUS
<1>13. next.low = Low(n, m, k + 1) /\ next.middle = Low(n, m, (k + 1) + 1)
  BY <1>3, <1>5, <1>8, <1>12
<1>14. /\ next.points \in Seq(Nat) /\ Len(next.points) = (k + 1) + 1
       /\ next.points[(k + 1) + 1] < next.low
  BY <1>9, <1>11, <1>12
<1>15. Picked(c, k + 1, next)
  BY ONLY <1>10, <1>11, <1>13, <1>14 DEF Picked, n, m
<1> QED BY <1>15 DEF next

(* The triangles pick points in the order of time, first and last among    *)
(* them, as many as there are to be.                                       *)
LEMMA TrianglesKeepOrder ==
  ASSUME NEW c, IsSeries(c.data), c.m \in Nat \ {0}, c.m < Len(c.data)
  PROVE  LET points == LargestTriangleThreeBucket(c.data, c.m)
         IN /\ points \in Seq(Nat)
            /\ Len(points) = IF c.m > 2 THEN c.m ELSE 2
            /\ points[1] = 0 /\ points[Len(points)] = Len(c.data) - 1
            /\ \A i \in 1..Len(points) - 1 : points[i] < points[i + 1]
<1> DEFINE n == Len(c.data)
           K == IF c.m > 2 THEN c.m - 2 ELSE 0
           first == FirstBucket(n, c.m)
           S == DOMAIN Places(c)
           all == Buckets!Folded(c, first, S)
<1>1. n \in Nat /\ n >= 2 /\ K \in Nat /\ S = 1..K
  BY DEF IsSeries, Places
<1>2. LargestTriangleThreeBucket(c.data, c.m) = Append(all.points, n - 1)
  BY Zenon DEF LargestTriangleThreeBucket, FoldLeft, Places, NextNth, Buckets!Folded,
               MapThenFoldSet, Buckets!MapThenFoldSet
<1>3. \A T \in SUBSET S : T # {} => Max(T) \in T
  <2> SUFFICES ASSUME NEW T \in SUBSET S, T # {} PROVE Max(T) \in T
    OBVIOUS
  <2>1. T \in SUBSET Int /\ IsFiniteSet(T)
    <3>1. IsFiniteSet(1..K)
      <4> HIDE DEF K
      <4> QED BY <1>1, FS_Interval
    <3> HIDE DEF K
    <3> QED BY <1>1, <3>1, FS_Subset
  <2> QED BY <2>1, ExtremesAreElements
<1>4. PickedSoFar(c, {}, first)
  <2>1. \A k \in Nat : {} = 1..k => k = 0
    OBVIOUS
  <2>2. /\ first.low = 1 /\ first.points = <<0>>
        /\ c.m > 2 => first.middle = (n - 2) \div (c.m - 2) + 1
    BY DEF FirstBucket
  <2>3. Picked(c, 0, first)
    <3> HIDE DEF first
    <3> QED BY <2>2 DEF Picked, Low
  <2> QED BY <2>1, <2>3 DEF PickedSoFar
<1>5. \A T \in SUBSET S : \A b :
        T # {} /\ PickedSoFar(c, T \ {Max(T)}, b) => PickedSoFar(c, T, NextNth(c, b, Max(T)))
  <2> SUFFICES ASSUME NEW T \in SUBSET S, NEW b, T # {}, PickedSoFar(c, T \ {Max(T)}, b),
                      NEW k \in Nat, T = 1..k
               PROVE  Picked(c, k, NextNth(c, b, Max(T)))
    BY DEF PickedSoFar
  <2>1. k # 0 /\ k <= K
    BY <1>1
  <2>2. Max(T) = k
    <3>1. k \in T /\ \A y \in T : y <= k
      BY <2>1
    <3>2. \A y \in T : y \in Nat
      OBVIOUS
    <3> HIDE DEF S, K
    <3> QED BY <3>1, <3>2 DEF Max
  <2>3. T \ {Max(T)} = 1..k - 1 /\ k - 1 \in Nat
    BY <2>1, <2>2
  <2>4. Picked(c, k - 1, b)
    BY <2>3 DEF PickedSoFar
  <2>5. k - 1 < c.m - 2
    BY <2>1
  <2>6. Picked(c, (k - 1) + 1, NextNth(c, b, (k - 1) + 1))
    BY <2>3, <2>4, <2>5, BucketIsPicked
  <2>7. (k - 1) + 1 = k
    OBVIOUS
  <2> QED BY <2>2, <2>6, <2>7
<1>6. PickedSoFar(c, S, all)
  <2>1. Buckets!IsFiniteSet(S)
    <3>1. IsFiniteSet(1..K)
      <4> HIDE DEF K
      <4> QED BY <1>1, FS_Interval
    <3>2. IsFiniteSet(S)
      BY <1>1, <3>1
    <3> QED BY <3>2, Zenon DEF IsFiniteSet, Buckets!IsFiniteSet
  <2> HIDE DEF S, first
  <2> QED BY ONLY <2>1, <1>3, <1>4, <1>5, Buckets!FoldKeeps
<1>7. Picked(c, K, all)
  BY <1>1, <1>6 DEF PickedSoFar
<1>8. all.low <= n - 1
  <2>1. CASE K = 0
    BY <1>1, <1>7, <2>1 DEF Picked, Low
  <2>2. CASE K # 0
    <3>1. c.m > 2 /\ K = (c.m - 3) + 1 /\ c.m - 3 \in 0..c.m - 3
      BY <2>2
    <3>2. all.low = Low(n, c.m, (c.m - 3) + 1)
      BY <1>7, <3>1 DEF Picked
    <3> QED BY <1>1, <3>1, <3>2, LimitsIncrease
  <2> QED BY <2>1, <2>2
<1> DEFINE points == Append(all.points, n - 1)
<1> HIDE DEF all
<1> HIDE DEF K
<1>9. all.points \in Seq(Nat) /\ Len(all.points) = K + 1 /\ all.points[K + 1] < n - 1
  <2>1. all.points \in Seq(Nat) /\ Len(all.points) = K + 1 /\ all.points[K + 1] < all.low
        /\ all.low = Low(n, c.m, K)
    BY <1>7 DEF Picked
  <2>2. all.low \in Int
    <3>1. CASE K = 0
      BY <2>1, <3>1 DEF Low
    <3>2. CASE K # 0
      <4>1. c.m > 2 /\ K = (c.m - 3) + 1 /\ c.m - 3 \in 0..c.m - 3
        BY <3>2 DEF K
      <4>2. Low(n, c.m, (c.m - 3) + 1) \in Nat
        BY <1>1, <4>1, LimitsIncrease
      <4> QED BY <2>1, <4>1, <4>2
    <3> QED BY <3>1, <3>2
  <2> QED BY <1>1, <1>8, <2>1, <2>2
<1>10. /\ points \in Seq(Nat) /\ Len(points) = K + 2 /\ points[K + 2] = n - 1
       /\ \A i \in 1..K + 1 : points[i] = all.points[i]
  BY <1>1, <1>9
<1>11. points[1] = 0 /\ \A i \in 1..K + 1 : points[i] < points[i + 1]
  BY <1>1, <1>7, <1>9, <1>10 DEF Picked
<1>12. K + 2 = IF c.m > 2 THEN c.m ELSE 2
  BY DEF K
<1>13. K + 1 = Len(points) - 1
  BY <1>1, <1>10
<1>14. points = LargestTriangleThreeBucket(c.data, c.m)
  BY <1>2 DEF points
<1> HIDE DEF points
<1> QED BY <1>10, <1>11, <1>12, <1>13, <1>14

(* The points of step k.                                                   *)
Own(data, step, k) == {i \in DOMAIN data : (i - 1) \div step = k - 1}
PresentIn(data, step, k) == {i \in Own(data, step, k) : data[i] # {}}   \* those with a value

LEMMA OwnPoints ==
  ASSUME NEW data, NEW n \in Nat, DOMAIN data = 1..n, NEW step \in Nat \ {0},
         NEW length \in Nat, length * step <= n, NEW k \in 1..length
  PROVE  /\ (k - 1) * step \in Nat
         /\ \A j \in 0..step - 1 : (k - 1) * step + j + 1 \in Own(data, step, k)
         /\ \A i \in Own(data, step, k) : i - 1 - (k - 1) * step \in 0..step - 1
<1> DEFINE first == (k - 1) * step
<1>1. first \in Nat /\ first + step = k * step /\ k * step <= length * step
  BY DEF first
<1>2. length * step \in Int
  OBVIOUS
<1>3. first + step <= n
  BY <1>1, <1>2
<1>4. ASSUME NEW j \in 0..step - 1 PROVE (first + j) \div step = k - 1
  <2>1. first + j \in Nat /\ (k - 1) * step <= first + j /\ first + j < ((k - 1) + 1) * step
    BY <1>1
  <2>2. k - 1 \in Nat
    OBVIOUS
  <2> HIDE DEF first
  <2> QED BY <2>1, <2>2, DivisionIs
<1>5. ASSUME NEW i \in 1..n, (i - 1) \div step = k - 1
      PROVE  first <= i - 1 /\ i - 1 < first + step
  <2>1. i - 1 \in Nat /\ ((k - 1) + 1) * step = first + step
    BY <1>1
  <2>2. ((i - 1) \div step) * step <= i - 1 /\ i - 1 < ((i - 1) \div step + 1) * step
    BY <2>1, Division
  <2> QED BY <1>5, <2>1, <2>2
<1> HIDE DEF first
<1>6. ASSUME NEW j \in 0..step - 1 PROVE first + j + 1 \in Own(data, step, k)
  <2>1. first + j + 1 \in 1..n /\ (first + j + 1) - 1 = first + j
    BY <1>1, <1>3
  <2> QED BY <1>4, <2>1 DEF Own
<1>7. ASSUME NEW i \in Own(data, step, k) PROVE i - 1 - first \in 0..step - 1
  <2>1. i \in 1..n /\ (i - 1) \div step = k - 1
    BY DEF Own
  <2> QED BY <1>1, <1>5, <2>1
<1> QED BY <1>1, <1>6, <1>7 DEF first

LEMMA FirstOfOwn ==
  ASSUME NEW data, NEW n \in Nat, DOMAIN data = 1..n, NEW step \in Nat \ {0},
         NEW length \in Nat, length * step <= n, NEW k \in 1..length
  PROVE  Min(Own(data, step, k)) = (k - 1) * step + 1
<1> DEFINE first == (k - 1) * step
           own == Own(data, step, k)
<1>1. first \in Nat /\ first + 1 \in own /\ \A i \in own : i - 1 - first \in 0..step - 1
  <2>1. first \in Nat /\ \A i \in own : i - 1 - first \in 0..step - 1
    BY OwnPoints
  <2>2. 0 \in 0..step - 1
    OBVIOUS
  <2>3. first + 0 + 1 \in own
    BY <2>2, OwnPoints
  <2>4. first + 0 + 1 = first + 1
    BY <2>1
  <2> HIDE DEF first, own
  <2> QED BY <2>1, <2>3, <2>4
<1>2. \A i \in own : i \in Int
  BY DEF Own
<1> HIDE DEF first, own
<1>3. first + 1 \in own /\ \A i \in own : first + 1 <= i
  BY <1>1, <1>2
<1>4. Min(own) = first + 1
  BY <1>1, <1>2, <1>3 DEF Min
<1> QED BY <1>4 DEF first, own

(* The mean of a step counts the points of the step that are there.        *)
LEMMA MeanCountsOwn ==
  ASSUME NEW data, NEW n \in Nat, DOMAIN data = 1..n, NEW step \in Nat \ {0},
         NEW length \in Nat, length * step <= n, NEW k \in 1..length
  PROVE  Average(data, step, length)[k].of = Cardinality(PresentIn(data, step, k))
<1> DEFINE first == (k - 1) * step
           floats == [j \in 0..step - 1 |-> At(data, first + j)]
           there == {j \in DOMAIN floats : floats[j] # {}}
           own == PresentIn(data, step, k)
           f == [j \in there |-> first + j + 1]
<1>1. /\ first \in Nat
      /\ \A j \in 0..step - 1 : first + j + 1 \in Own(data, step, k)
      /\ \A i \in Own(data, step, k) : i - 1 - first \in 0..step - 1
  BY OwnPoints
<1>2. Average(data, step, length)[k] = MeanOf(floats)
  BY DEF Average
<1>3. Average(data, step, length)[k].of = Cardinality(there)
  <2>1. MeanOf(floats).of = Cardinality({j \in DOMAIN floats : floats[j] # {}})
    <3> HIDE DEF floats
    <3> QED BY Zenon DEF MeanOf
  <2> QED BY <1>2, <2>1
<1> HIDE DEF first
<1>4. there = {j \in 0..step - 1 : data[first + j + 1] # {}}
  BY DEF At
<1>5. IsFiniteSet(there)
  <2>1. IsFiniteSet(0..step - 1) /\ there \in SUBSET (0..step - 1)
    BY FS_Interval
  <2> HIDE DEF there
  <2> QED BY <2>1, FS_Subset
<1> HIDE DEF there
<1>6. ExistsBijection(there, own)
  <2>1. f \in [there -> own]
    BY <1>1, <1>4 DEF PresentIn
  <2>2. \A a, b \in there : f[a] = f[b] => a = b
    BY <1>1, <1>4
  <2>3. \A i \in own : \E j \in there : f[j] = i
    <3> SUFFICES ASSUME NEW i \in own PROVE \E j \in there : f[j] = i
      OBVIOUS
    <3>1. i \in Int /\ i - 1 - first \in 0..step - 1
      BY <1>1 DEF Own, PresentIn
    <3>2. first + (i - 1 - first) + 1 = i
      BY <1>1, <3>1
    <3>3. i - 1 - first \in there
      BY <1>4, <3>1, <3>2 DEF PresentIn
    <3> QED BY <3>2, <3>3
  <2> HIDE DEF f, own
  <2> QED BY <2>1, <2>2, <2>3
      DEF ExistsBijection, Bijection, Injection, Surjection, IsInjective
<1> QED BY <1>3, <1>5, <1>6, FS_Bijection

(* It adds up these.                                                       *)
AddFloat(floats, sum, j) == sum + (CHOOSE v \in floats[j] : TRUE)
Within(floats, T, sum) == sum \in 0..2 * Cardinality(T)
Means == INSTANCE Folding WITH Op <- AddFloat, Choose <- AnyOf, Keeps <- Within

LEMMA MeanIsWithin ==
  ASSUME NEW floats, IsFiniteSet(DOMAIN floats),
         \A j \in DOMAIN floats : floats[j] \in {{}, {0}, {2}}
  PROVE  MeanOf(floats).sum \in 0..2 * MeanOf(floats).of
<1> DEFINE S == {j \in DOMAIN floats : floats[j] # {}}
<1>1. MeanOf(floats).of = Cardinality(S)
  BY Zenon DEF MeanOf
<1>2. MeanOf(floats).sum = Means!Folded(floats, 0, S)
  <2>1. MeanOf(floats).sum = FoldFunctionOnSet(
          LAMBDA x, sum : sum + (CHOOSE v \in x : TRUE), 0, floats, S)
    BY Zenon DEF MeanOf
  <2>2. Means!Folded(floats, 0, S) = FoldFunctionOnSet(
          LAMBDA x, sum : sum + (CHOOSE v \in x : TRUE), 0, floats, S)
    BY Zenon DEF FoldFunctionOnSet, Means!Folded, AddFloat, AnyOf, MapThenFoldSet,
                 Means!MapThenFoldSet
  <2> QED BY <2>1, <2>2, Zenon
<1>3. IsFiniteSet(S) /\ \A T \in SUBSET S : IsFiniteSet(T) /\ Cardinality(T) \in Nat
  <2>1. S \in SUBSET DOMAIN floats
    OBVIOUS
  <2> HIDE DEF S
  <2> QED BY <2>1, FS_Subset, FS_CardinalityType
<1>4. \A T \in SUBSET S : T # {} => AnyOf(T) \in T
  BY DEF AnyOf
<1>5. Within(floats, {}, 0)
  BY FS_EmptySet DEF Within
<1>6. \A T \in SUBSET S : \A a :
        T # {} /\ Within(floats, T \ {AnyOf(T)}, a)
          => Within(floats, T, AddFloat(floats, a, AnyOf(T)))
  <2> SUFFICES ASSUME NEW T \in SUBSET S, NEW a, T # {}, Within(floats, T \ {AnyOf(T)}, a)
               PROVE  Within(floats, T, AddFloat(floats, a, AnyOf(T)))
    OBVIOUS
  <2> DEFINE v == CHOOSE w \in floats[AnyOf(T)] : TRUE
  <2>1. AnyOf(T) \in T
    BY <1>4
  <2>2. v \in {0, 2}
    <3>1. floats[AnyOf(T)] = {0} \/ floats[AnyOf(T)] = {2}
      BY <2>1
    <3> QED BY <3>1
  <2>3. Cardinality(T \ {AnyOf(T)}) = Cardinality(T) - 1
    BY <1>3, <2>1, FS_RemoveElement
  <2>4. Cardinality(T) \in Nat
    BY <1>3
  <2> HIDE DEF v
  <2>5. a + v \in 0..2 * Cardinality(T)
    BY <2>2, <2>3, <2>4 DEF Within
  <2> QED BY <2>5 DEF v, Within, AddFloat
<1>7. Means!IsFiniteSet(S)
  BY <1>3, Zenon DEF IsFiniteSet, Means!IsFiniteSet
<1>8. Within(floats, S, Means!Folded(floats, 0, S))
  <2> HIDE DEF S
  <2> QED BY ONLY <1>7, <1>4, <1>5, <1>6, Means!FoldKeeps
<1> QED BY <1>1, <1>2, <1>8 DEF Within

(* What it means that the frequencies ask for a coarser series.            *)
LEMMA FrequenciesAskForLess ==
  ASSUME NEW n \in Nat, NEW old \in Nat, NEW new \in Nat,
         ValidateFrequency(n, old, new).length > 0
  PROVE  LET v == ValidateFrequency(n, old, new)
         IN /\ v.length \in Nat \ {0} /\ v.step \in Nat \ {0} /\ v.length < n
            /\ v.length * v.step <= n /\ v.length * new <= n * old
<1> DEFINE step == new \div old
           length == n \div step
<1>1. old \in Nat \ {0} /\ new > old /\ new % old = 0
  BY DEF ValidateFrequency, Unchanged, Refuse
<1>2. new = step * old /\ step \in Nat \ {0}
  <2>1. new = old * (new \div old) + (new % old) /\ step \in Nat
    BY <1>1
  <2> HIDE DEF step
  <2>2. step # 0
    BY <1>1, <2>1 DEF step
  <2> QED BY <1>1, <2>1, <2>2 DEF step
<1>3. ValidateFrequency(n, old, new) = [error |-> FALSE, length |-> length, step |-> step]
      /\ length # 0 /\ length < n
  BY <1>1 DEF ValidateFrequency, Unchanged, Refuse
<1> HIDE DEF step
<1>4. length \in Nat /\ length * step <= n
  BY <1>2, Division
<1> HIDE DEF length
<1>5. length * new <= n * old
  <2>1. length * new = (length * step) * old
    BY <1>1, <1>2, <1>4
  <2>2. length * step \in Nat /\ old \in Nat
    BY <1>2, <1>4
  <2>3. \A a, b, d \in Nat : a <= b => a * d <= b * d
    OBVIOUS
  <2> QED BY <1>4, <2>1, <2>2, <2>3
<1> QED BY <1>2, <1>3, <1>4, <1>5

LEMMA SeriesAreResampled ==
  ASSUME NEW n \in Nat, st.data \in [1..n -> FloatValues], st.old \in Nat, st.new \in Nat
  PROVE  ResamplingKeepsOrder
<1> DEFINE v == ValidateFrequency(Len(st.data), st.old, st.new)
<1> SUFFICES ASSUME v.length > 0
             PROVE  LET points == LargestTriangleThreeBucket(st.data, v.length)
                        means == Average(st.data, v.step, v.length)
                    IN /\ v.length * st.new <= Len(st.data) * st.old
                       /\ Len(points) = Max({v.length, 2})
                       /\ points[1] = 0 /\ Last(points) = Len(st.data) - 1
                       /\ \A i \in 1..Len(points) - 1 : points[i] < points[i + 1]
                       /\ \A k \in 1..v.length :
                            LET own == {i \in DOMAIN st.data : (i - 1) \div v.step = k - 1} IN
                              /\ Simple(st.data, v.step, v.length)[k] = st.data[Min(own)]
                              /\ means[k].of = Cardinality({i \in own : st.data[i] # {}})
                              /\ means[k].sum \in 0..2 * means[k].of
  BY DEF ResamplingKeepsOrder
<1>1. DOMAIN st.data = 1..n /\ Len(st.data) = n /\ \A i \in 1..n : st.data[i] \in FloatValues
  <2>1. st.data \in Seq(FloatValues)
    OBVIOUS
  <2> QED BY <2>1
<1>2. /\ v.length \in Nat \ {0} /\ v.step \in Nat \ {0} /\ v.length < n
      /\ v.length * v.step <= n /\ v.length * st.new <= n * st.old
  BY <1>1, FrequenciesAskForLess
<1> HIDE DEF v
<1> DEFINE points == LargestTriangleThreeBucket(st.data, v.length)
           means == Average(st.data, v.step, v.length)
<1>3. /\ points \in Seq(Nat)
      /\ Len(points) = IF v.length > 2 THEN v.length ELSE 2
      /\ points[1] = 0 /\ points[Len(points)] = n - 1
      /\ \A i \in 1..Len(points) - 1 : points[i] < points[i + 1]
  <2> DEFINE c == [data |-> st.data, m |-> v.length]
  <2>1. IsSeries(st.data)
    <3>1. \A x \in FloatValues : IsFloat(x)
      BY DEF IsFloat, FloatValues
    <3> QED BY <1>1, <3>1 DEF IsSeries
  <2>2. c.data = st.data /\ c.m = v.length
    OBVIOUS
  <2> HIDE DEF c
  <2> QED BY <1>1, <1>2, <2>1, <2>2, TrianglesKeepOrder
<1> HIDE DEF points
<1>4. Last(points) = n - 1
  BY <1>3 DEF Last
<1>5. Max({v.length, 2}) = IF v.length > 2 THEN v.length ELSE 2
  BY <1>2 DEF Max
<1>6. ASSUME NEW k \in 1..v.length
      PROVE  /\ Simple(st.data, v.step, v.length)[k] = st.data[Min(Own(st.data, v.step, k))]
             /\ means[k].of = Cardinality({i \in Own(st.data, v.step, k) : st.data[i] # {}})
             /\ means[k].sum \in 0..2 * means[k].of
  <2>1. Min(Own(st.data, v.step, k)) = (k - 1) * v.step + 1
    BY <1>1, <1>2, FirstOfOwn, ZenonT(30)
  <2>2. Simple(st.data, v.step, v.length)[k] = st.data[(k - 1) * v.step + 1]
    BY DEF Simple, At
  <2>3. means[k].of = Cardinality({i \in Own(st.data, v.step, k) : st.data[i] # {}})
    <3>1. DOMAIN st.data = 1..n /\ v.step \in Nat \ {0} /\ v.length \in Nat
          /\ v.length * v.step <= n
      BY <1>1, <1>2
    <3>2. means[k].of = Cardinality(PresentIn(st.data, v.step, k))
      BY <3>1, MeanCountsOwn
    <3> QED BY <3>2 DEF PresentIn
  <2>4. means[k].sum \in 0..2 * means[k].of
    <3> DEFINE floats == [j \in 0..v.step - 1 |-> At(st.data, (k - 1) * v.step + j)]
    <3>1. means[k] = MeanOf(floats)
      BY DEF Average
    <3>2. DOMAIN floats = 0..v.step - 1
      OBVIOUS
    <3>3. IsFiniteSet(DOMAIN floats)
      <4> DEFINE last == v.step - 1
      <4>1. last \in Int
        BY <1>2
      <4> HIDE DEF last
      <4>2. IsFiniteSet(0..last)
        BY <4>1, FS_Interval
      <4> QED BY <3>2, <4>2, Zenon DEF last
    <3>4. ASSUME NEW j \in 0..v.step - 1 PROVE floats[j] \in {{}, {0}, {2}}
      <4>1. (k - 1) * v.step + j + 1 \in Own(st.data, v.step, k)
        BY <1>1, <1>2, OwnPoints
      <4>2. (k - 1) * v.step + j + 1 \in 1..n
        BY <1>1, <4>1 DEF Own
      <4> QED BY <1>1, <4>2 DEF At, FloatValues
    <3> HIDE DEF floats, means
    <3> QED BY <3>1, <3>2, <3>3, <3>4, MeanIsWithin
  <2> QED BY <2>1, <2>2, <2>3, <2>4
<1> HIDE DEF means
<1>7. ASSUME NEW k \in 1..v.length
      PROVE  LET own == {i \in DOMAIN st.data : (i - 1) \div v.step = k - 1} IN
               /\ Simple(st.data, v.step, v.length)[k] = st.data[Min(own)]
               /\ means[k].of = Cardinality({i \in own : st.data[i] # {}})
               /\ means[k].sum \in 0..2 * means[k].of
  BY <1>6, Zenon DEF Own
<1>8. /\ v.length * st.new <= Len(st.data) * st.old
      /\ Len(points) = Max({v.length, 2})
      /\ points[1] = 0 /\ Last(points) = Len(st.data) - 1
      /\ \A i \in 1..Len(points) - 1 : points[i] < points[i + 1]
  BY <1>1, <1>2, <1>3, <1>4, <1>5
<1> QED BY <1>7, <1>8, Zenon DEF points, means

(* A series that is to be made coarser stays as it is.                     *)
ResampleInv ==
  Is("resample") =>
    /\ \E n \in Nat : st.data \in [1..n -> FloatValues]
    /\ st.old \in Nat /\ st.new \in Nat

LEMMA ResampleInvHolds == Spec => [](Chosen /\ ResampleInv)
<1>1. Init => Chosen /\ ResampleInv
  <2>1. Init => Chosen /\ (Is("resample") => ResampleInit)
    BY InitChooses DEF Chosen, Is, Covered
  <2>2. ResampleInit => ResampleInv
    <3> SUFFICES ASSUME NEW n \in 0..MaxPoints, NEW old \in 0..2, NEW new \in 0..5,
                        NEW data \in SeriesOfLength(n),
                        st = [kind |-> "resample", data |-> data, old |-> old, new |-> new]
                 PROVE  ResampleInv
      BY Zenon DEF ResampleInit
    <3>1. n \in Nat
      BY ResamplingAssumption
    <3>2. data \in [1..n -> FloatValues]
      <4>1. ASSUME NEW base \in {0, 2}, NEW peaks, NEW gaps
            PROVE  Sparse(n, base, peaks, gaps) \in [1..n -> FloatValues]
        BY DEF Sparse, FloatValues
      <4> QED BY <4>1 DEF SeriesOfLength, SparseSeries
    <3> QED BY <3>1, <3>2 DEF ResampleInv
  <2> QED BY <2>1, <2>2 DEF ResampleInv
<1>2. Chosen /\ ResampleInv /\ [Next]_st => (Chosen /\ ResampleInv)'
  <2> SUFFICES ASSUME Chosen, ResampleInv, [Next]_st PROVE ResampleInv'
    BY KindStays
  <2>1. st'.kind = st.kind
    BY KindStays
  <2>2. CASE ~Is("resample")
    BY <2>1, <2>2 DEF ResampleInv, Is
  <2>3. CASE Is("resample")
    <3>1. UNCHANGED st
      BY <2>3, StepsAreOwn DEF Is
    <3> QED BY <3>1 DEF ResampleInv, Is
  <2> QED BY <2>2, <2>3
<1> QED BY <1>1, <1>2, PTL DEF Spec

(* For series of every length and every smallest length that is made       *)
(* coarser: the points that are kept are in the order of time, as many as  *)
(* the new frequency asks for, the first and the last among them, and a    *)
(* mean counts the points of its own step (resampler/resampler.go).        *)
THEOREM SeriesKeepOrder == Spec => []ResamplingKeepsOrder
<1>1. ResampleInv => ResamplingKeepsOrder
  <2>1. CASE Is("resample")
    BY <2>1, SeriesAreResampled DEF ResampleInv
  <2>2. CASE ~Is("resample")
    BY <2>2 DEF ResamplingKeepsOrder
  <2> QED BY <2>1, <2>2
<1> QED BY <1>1, ResampleInvHolds, PTL
-----------------------------------------------------------------------------
(***************************************************************************)
(* The roles of a user.  HasAllRoles and HasNotRoles count the roles of    *)
(* the user that are asked for; without duplicates on either side this is  *)
(* the number of the roles asked for that the user has.                    *)
(***************************************************************************)
IsDistinct(q) == \A i, j \in DOMAIN q : q[i] = q[j] => i = j

LEMMA RoleNamesDiffer ==
  /\ DOMAIN RoleNames = Role
  /\ \A r, p \in Role : RoleNames[r] = RoleNames[p] => r = p
<1>1. DOMAIN RoleNames = Role
  BY DEF RoleNames, Role
<1>2. /\ RoleNames[1] = "anonymous" /\ RoleNames[2] = "api" /\ RoleNames[3] = "user"
      /\ RoleNames[4] = "manager" /\ RoleNames[5] = "support" /\ RoleNames[6] = "admin"
  BY DEF RoleNames
<1>3. \A r \in Role : r = 1 \/ r = 2 \/ r = 3 \/ r = 4 \/ r = 5 \/ r = 6
  BY DEF Role
<1>4. \A r, p \in Role : RoleNames[r] = RoleNames[p] => r = p
  BY <1>2, <1>3
<1> QED BY <1>1, <1>4

Held(roles, r) == \E i \in DOMAIN roles : roles[i] = RoleNames[r]

LEMMA HasRoleIs ==
  ASSUME NEW u, NEW r \in Role
  PROVE  HasRole(u, r) <=> Held(u.roles, r)
BY DEF HasRole, ToSet, Held

(* The places of a list of roles where one that is asked for is.           *)
Matching(roles, q) ==
  {i \in DOMAIN roles : \E k \in DOMAIN q : roles[i] = RoleNames[q[k]]}

(* A list without duplicates holds all the roles that are asked for if it  *)
(* holds as many of them as there are.                                     *)
LEMMA AllAreCounted ==
  ASSUME NEW roles, NEW n \in Nat, DOMAIN roles = 1..n, IsDistinct(roles),
         NEW q, NEW m \in Nat, DOMAIN q = 1..m, IsDistinct(q), \A k \in 1..m : q[k] \in Role
  PROVE  /\ Cardinality(Matching(roles, q)) = m <=> \A k \in 1..m : Held(roles, q[k])
         /\ Cardinality(Matching(roles, q)) = 0 <=> ~\E k \in 1..m : Held(roles, q[k])
<1> DEFINE S == Matching(roles, q)
           held == {k \in 1..m : Held(roles, q[k])}
           PlaceOf(k) == CHOOSE i \in 1..n : roles[i] = RoleNames[q[k]]
           f == [k \in held |-> PlaceOf(k)]
<1>1. IsFiniteSet(1..n) /\ IsFiniteSet(1..m) /\ Cardinality(1..m) = m
  BY FS_Interval
<1>2. IsFiniteSet(held) /\ IsFiniteSet(S)
  <2>1. held \in SUBSET (1..m) /\ S \in SUBSET (1..n)
    BY DEF Matching
  <2> HIDE DEF held, S
  <2> QED BY <1>1, <2>1, FS_Subset
<1>3. \A k \in held : PlaceOf(k) \in 1..n /\ roles[PlaceOf(k)] = RoleNames[q[k]]
  BY DEF Held
<1> HIDE DEF PlaceOf
<1>4. Cardinality(held) = Cardinality(S)
  <2>1. f \in [held -> S]
    BY <1>3 DEF Matching
  <2>2. \A a, b \in held : f[a] = f[b] => a = b
    <3> SUFFICES ASSUME NEW a \in held, NEW b \in held, PlaceOf(a) = PlaceOf(b) PROVE a = b
      OBVIOUS
    <3>1. RoleNames[q[a]] = RoleNames[q[b]]
      BY <1>3
    <3>2. a \in 1..m /\ b \in 1..m /\ q[a] \in Role /\ q[b] \in Role
      OBVIOUS
    <3> HIDE DEF held
    <3>3. q[a] = q[b]
      BY <3>1, <3>2, RoleNamesDiffer
    <3> QED BY <3>2, <3>3 DEF IsDistinct
  <2>3. \A i \in S : \E k \in held : f[k] = i
    <3> SUFFICES ASSUME NEW i \in S PROVE \E k \in held : PlaceOf(k) = i
      OBVIOUS
    <3>1. PICK k \in 1..m : roles[i] = RoleNames[q[k]]
      BY DEF Matching
    <3>2. i \in 1..n
      BY DEF Matching
    <3>3. k \in held
      BY <3>1, <3>2 DEF Held
    <3>4. roles[PlaceOf(k)] = roles[i] /\ PlaceOf(k) \in 1..n
      BY <1>3, <3>1, <3>3
    <3> HIDE DEF held, S
    <3>5. PlaceOf(k) = i
      BY <3>2, <3>4 DEF IsDistinct
    <3> QED BY <3>3, <3>5
  <2>4. ExistsBijection(held, S)
    <3> HIDE DEF f, S, held
    <3> QED BY <2>1, <2>2, <2>3
        DEF ExistsBijection, Bijection, Injection, Surjection, IsInjective
  <2> HIDE DEF f, S, held
  <2> QED BY <1>2, <2>4, FS_Bijection
<1>5. Cardinality(held) = m <=> held = 1..m
  <2>1. held \subseteq 1..m
    OBVIOUS
  <2> HIDE DEF held
  <2>2. Cardinality(1..m) = Cardinality(held) => 1..m = held
    BY <1>1, <2>1, FS_Subset
  <2> QED BY <1>1, <2>2
<1>6. Cardinality(held) = 0 <=> held = {}
  <2> HIDE DEF held
  <2> QED BY <1>2, FS_EmptySet
<1>7. (Cardinality(S) = m <=> held = 1..m) /\ (Cardinality(S) = 0 <=> held = {})
  <2> HIDE DEF held, S
  <2> QED BY <1>4, <1>5, <1>6
<1> QED BY <1>7

(* The questions about roles agree for any user and any question.          *)
LEMMA UsersAreAsked ==
  ASSUME NEW u, NEW Names, u.roles \in Seq(Names), IsDistinct(u.roles),
         NEW q \in Seq(Role), IsDistinct(q)
  PROVE  /\ HasAllRoles(u, q) <=> \A i \in DOMAIN q : HasRole(u, q[i])
         /\ HasNotRoles(u, q) <=> ~HasAnyRole(u, q)
<1> DEFINE n == Len(u.roles)
           m == Len(q)
<1>1. n \in Nat /\ m \in Nat /\ DOMAIN u.roles = 1..n /\ DOMAIN q = 1..m
      /\ \A k \in 1..m : q[k] \in Role
  OBVIOUS
<1>2. Matches(u, q) = Cardinality(Matching(u.roles, q))
  BY DEF Matches, Matching
<1>3. \A k \in 1..m : HasRole(u, q[k]) <=> Held(u.roles, q[k])
  BY <1>1, HasRoleIs
<1> HIDE DEF n, m
<1>4. /\ Cardinality(Matching(u.roles, q)) = m <=> \A k \in 1..m : Held(u.roles, q[k])
      /\ Cardinality(Matching(u.roles, q)) = 0 <=> ~\E k \in 1..m : Held(u.roles, q[k])
  BY <1>1, AllAreCounted
<1>5. HasAllRoles(u, q) <=> \A k \in 1..m : HasRole(u, q[k])
  BY <1>2, <1>3, <1>4 DEF HasAllRoles, m
<1>6. HasNotRoles(u, q) <=> ~\E k \in 1..m : HasRole(u, q[k])
  BY <1>2, <1>3, <1>4 DEF HasNotRoles
<1> QED BY <1>1, <1>5, <1>6 DEF HasAnyRole

LEMMA LevelIsHighest ==
  ASSUME NEW u
  PROVE  /\ \A r \in Role : HasRole(u, r) => GetAuthLevel(u) \in Role /\ GetAuthLevel(u) >= r
         /\ GetAuthLevel(u) # RoleError =>
              GetAuthLevel(u) \in Role /\ HasRole(u, GetAuthLevel(u))
<1> DEFINE T == {r \in Role : HasRole(u, r)}
<1>1. ASSUME T # {}
      PROVE  Max(T) \in T /\ \A r \in T : r <= Max(T)
  <2>1. \E x \in T : \A y \in T : y <= x
    <3> DEFINE H(r) == HasRole(u, r)
    <3>1. \A r : r \in T <=> r \in 1..6 /\ H(r)
      BY DEF Role
    <3> HIDE DEF H, T
    <3>2. CASE H(6)
      BY <3>1, <3>2
    <3>3. CASE ~H(6) /\ H(5)
      BY <3>1, <3>3
    <3>4. CASE ~H(6) /\ ~H(5) /\ H(4)
      BY <3>1, <3>4
    <3>5. CASE ~H(6) /\ ~H(5) /\ ~H(4) /\ H(3)
      BY <3>1, <3>5
    <3>6. CASE ~H(6) /\ ~H(5) /\ ~H(4) /\ ~H(3) /\ H(2)
      BY <3>1, <3>6
    <3>7. CASE ~H(6) /\ ~H(5) /\ ~H(4) /\ ~H(3) /\ ~H(2)
      BY <1>1, <3>1, <3>7
    <3> QED BY <3>2, <3>3, <3>4, <3>5, <3>6, <3>7
  <2> HIDE DEF T
  <2>2. Max(T) = CHOOSE x \in T : \A y \in T : x >= y
    BY DEF Max
  <2> QED BY <2>1, <2>2
<1>2. GetAuthLevel(u) = IF T # {} THEN Max(T) ELSE RoleError
  BY DEF GetAuthLevel
<1>3. \A r \in T : r \in Role /\ HasRole(u, r)
  OBVIOUS
<1>4. \A r \in Role : HasRole(u, r) => r \in T
  OBVIOUS
<1> HIDE DEF T
<1> QED BY <1>1, <1>2, <1>3, <1>4 DEF Role

LEMMA RolesOfAnyUserAgree ==
  ASSUME NEW Names, st.user.roles \in Seq(Names), IsDistinct(st.user.roles),
         st.query \in Seq(Role), IsDistinct(st.query)
  PROVE  RolesAgree
<1> DEFINE u == st.user
           level == GetAuthLevel(u)
<1>1. /\ HasAllRoles(u, st.query) <=> \A i \in DOMAIN st.query : HasRole(u, st.query[i])
      /\ HasNotRoles(u, st.query) <=> ~HasAnyRole(u, st.query)
  BY UsersAreAsked
<1>2. /\ \A r \in Role : HasRole(u, r) => level \in Role /\ level >= r
      /\ level # RoleError => level \in Role /\ HasRole(u, level)
  BY LevelIsHighest
<1>3. level # RoleError => HasValidRole(u, RoleNames[level]).hasRole
  <2> HIDE DEF u, level
  <2> SUFFICES ASSUME level \in Role, HasRole(u, level)
               PROVE  HasValidRole(u, RoleNames[level]).hasRole
    BY <1>2
  <2>1. RoleNames[level] \in ToSet(RoleNames)
    BY RoleNamesDiffer DEF ToSet
  <2> QED BY <2>1 DEF HasValidRole, IsValidRole, HasRole
<1>4. GetValidRoles(u) # {} => level = 6
  <2>1. GetValidRoles(u) # {} => HasRole(u, 6)
    BY DEF GetValidRoles
  <2> HIDE DEF u, level
  <2> QED BY <1>2, <2>1 DEF Role
<1>5. GetValidRolesMap(u) = {} => HasRole(u, 1)
  <2>1. GetValidRolesMap(u) = {} => ~HasNotRoles(u, <<1>>)
    <3>1. RoleNames[2] \in {RoleNames[r] : r \in 2..6}
      OBVIOUS
    <3> QED BY <3>1 DEF GetValidRolesMap
  <2>2. <<1>> \in Seq(Role) /\ IsDistinct(<<1>>)
    BY DEF Role, IsDistinct
  <2>3. HasNotRoles(u, <<1>>) <=> ~HasAnyRole(u, <<1>>)
    BY <2>2, UsersAreAsked
  <2>4. HasAnyRole(u, <<1>>) <=> HasRole(u, 1)
    BY DEF HasAnyRole
  <2> QED BY <2>1, <2>3, <2>4
<1> QED BY <1>1, <1>2, <1>3, <1>4, <1>5 DEF RolesAgree

(* A user and the question stay as they are.                               *)
UserInv ==
  Is("user") =>
    /\ \E Names : st.user.roles \in Seq(Names)
    /\ IsDistinct(st.user.roles)
    /\ st.query \in Seq(Role) /\ IsDistinct(st.query)

LEMMA DistinctIs ==
  ASSUME NEW S, NEW n \in Nat, NEW q \in Distinct(S, n)
  PROVE  q \in Seq(S) /\ IsDistinct(q)
<1>1. PICK k \in 0..n : q \in [1..k -> S] /\ \A i, j \in 1..k : q[i] = q[j] => i = j
  BY DEF Distinct
<1> QED BY <1>1 DEF IsDistinct

LEMMA UserInvHolds == Spec => [](Chosen /\ UserInv)
<1>1. Init => Chosen /\ UserInv
  <2>1. Init => Chosen /\ (Is("user") => UserInit)
    BY InitChooses DEF Chosen, Is, Covered
  <2>2. UserInit => UserInv
    <3> DEFINE names == ToSet(RoleNames) \cup {"other"}
    <3> SUFFICES ASSUME NEW roles \in Distinct(names, 3), NEW query \in Distinct(Role, 2),
                        st = [kind |-> "user", user |-> [roles |-> roles], query |-> query]
                 PROVE  UserInv
      BY Zenon DEF UserInit
    <3> HIDE DEF names
    <3>1. roles \in Seq(names) /\ IsDistinct(roles) /\ query \in Seq(Role) /\ IsDistinct(query)
      BY DistinctIs
    <3> QED BY <3>1 DEF UserInv
  <2> QED BY <2>1, <2>2 DEF UserInv
<1>2. Chosen /\ UserInv /\ [Next]_st => (Chosen /\ UserInv)'
  <2> SUFFICES ASSUME Chosen, UserInv, [Next]_st PROVE UserInv'
    BY KindStays
  <2>1. st'.kind = st.kind
    BY KindStays
  <2>2. CASE ~Is("user")
    BY <2>1, <2>2 DEF UserInv, Is
  <2>3. CASE Is("user")
    <3>1. UNCHANGED st
      BY <2>3, StepsAreOwn DEF Is
    <3> QED BY <3>1 DEF UserInv, Is
  <2> QED BY <2>2, <2>3
<1> QED BY <1>1, <1>2, PTL DEF Spec

(* Users: what is asked of all roles, of any and of none is answered alike,*)
(* and the level of a user is the highest role held.  The lemma behind it  *)
(* is for lists of roles of any length (schema/user.go).                   *)
THEOREM QuestionsAgree == Spec => []RolesAgree
<1>1. UserInv => RolesAgree
  <2>1. CASE Is("user")
    BY <2>1, RolesOfAnyUserAgree DEF UserInv
  <2>2. CASE ~Is("user")
    BY <2>2 DEF RolesAgree
  <2> QED BY <2>1, <2>2
<1> QED BY <1>1, UserInvHolds, PTL
-----------------------------------------------------------------------------
(* The configuration of the polling receivers.                             *)
(* The union of as many finite sets as a sequence is long.                 *)
LEMMA FiniteUnion ==
  ASSUME NEW n \in Nat, NEW f, \A i \in 1..n : IsFiniteSet(f[i])
  PROVE  IsFiniteSet(UNION {f[i] : i \in 1..n})
<1> DEFINE T == {f[i] : i \in 1..n}
           g == [i \in 1..n |-> f[i]]
<1>1. IsFiniteSet(1..n)
  BY FS_Interval
<1>2. g \in Surjection(1..n, T)
  BY DEF Surjection
<1>3. \A t \in T : IsFiniteSet(t)
  OBVIOUS
<1> HIDE DEF T, g
<1>4. IsFiniteSet(T)
  BY <1>1, <1>2, FS_Surjection
<1>5. IsFiniteSet(UNION T)
  BY <1>3, <1>4, FS_UNION
<1> QED BY <1>5 DEF T

(* A range of numbers, and a list of hosts, as they are parsed.            *)
IsParsed(number) == number.value \in Nat /\ number.width \in Nat
                    /\ Digits(number.value) <= number.width
IsParsedPart(part) ==
  /\ \E n \in Nat : DOMAIN part.ranges = 1..n
  /\ \A k \in DOMAIN part.ranges :
       IsParsed(part.ranges[k].lo) /\ IsParsed(part.ranges[k].hi)
IsParsedList(parts) ==
  /\ \E n \in Nat : DOMAIN parts = 1..n
  /\ \A i \in DOMAIN parts : IsParsedPart(parts[i])

Width(r) == IF Padded(r) THEN r.lo.width ELSE 1
NthHost(part, r, n) == Host(part.prefix, Number(n, Width(r)), part.suffix)

(* A range has a host for every number.                                    *)
LEMMA HostsOfRange ==
  ASSUME NEW part, NEW r, r.lo.value \in Nat, r.hi.value \in Nat
  PROVE  /\ IsFiniteSet(RangeHosts(part, r))
         /\ r.lo.value <= r.hi.value =>
              Cardinality(RangeHosts(part, r)) = r.hi.value - r.lo.value + 1
<1> DEFINE S == r.lo.value..r.hi.value
           H == RangeHosts(part, r)
           f == [n \in S |-> NthHost(part, r, n)]
<1>1. IsFiniteSet(S) /\ (r.lo.value <= r.hi.value =>
                           Cardinality(S) = r.hi.value - r.lo.value + 1)
  <2> DEFINE a == r.lo.value
             b == r.hi.value
  <2>1. a \in Int /\ b \in Int /\ a \in Nat /\ b \in Nat
    OBVIOUS
  <2> HIDE DEF a, b
  <2>2. IsFiniteSet(a..b) /\ Cardinality(a..b) = IF a > b THEN 0 ELSE b - a + 1
    BY <2>1, FS_Interval
  <2>3. a <= b => Cardinality(a..b) = b - a + 1
    BY <2>1, <2>2
  <2> QED BY <2>2, <2>3 DEF a, b
<1>2. H = {NthHost(part, r, n) : n \in S}
  BY DEF RangeHosts, NthHost, Width
<1>3. \A n, m \in S : NthHost(part, r, n) = NthHost(part, r, m) => n = m
  <2> SUFFICES ASSUME NEW n \in S, NEW m \in S,
                      NthHost(part, r, n) = NthHost(part, r, m)
               PROVE  n = m
    OBVIOUS
  <2>1. NthHost(part, r, n).number.value = n /\ NthHost(part, r, m).number.value = m
    BY DEF NthHost, Host, Number
  <2> QED BY <2>1
<1> HIDE DEF H, S
<1>4. f \in [S -> H] /\ IsInjective(f) /\ (\A t \in H : \E s \in S : f[s] = t)
  BY <1>2, <1>3 DEF IsInjective
<1>5. ExistsBijection(S, H)
  <2> HIDE DEF f
  <2> QED BY <1>4 DEF ExistsBijection, Bijection, Injection, Surjection
<1>6. IsFiniteSet(H) /\ Cardinality(H) = Cardinality(S)
  BY <1>1, <1>5, FS_Bijection
<1> QED BY <1>1, <1>6 DEF H, S

HostsOfPart(part) ==
  IF part.ranges = <<>> THEN {Host(part.prefix, NoNumber, "")}
  ELSE UNION {RangeHosts(part, part.ranges[k]) : k \in DOMAIN part.ranges}

(* A list of hosts is finite.                                              *)
LEMMA ExpandIsFinite ==
  ASSUME NEW parts, IsParsedList(parts) PROVE IsFiniteSet(Expand(parts))
<1>1. ASSUME NEW i \in DOMAIN parts PROVE IsFiniteSet(HostsOfPart(parts[i]))
  <2> DEFINE part == parts[i]
             g == [k \in DOMAIN part.ranges |-> RangeHosts(part, part.ranges[k])]
  <2>1. IsParsedPart(part)
    BY DEF IsParsedList
  <2>2. PICK n \in Nat : DOMAIN part.ranges = 1..n
    BY <2>1 DEF IsParsedPart
  <2>3. \A k \in 1..n : IsFiniteSet(g[k])
    <3> SUFFICES ASSUME NEW k \in 1..n PROVE IsFiniteSet(g[k])
      OBVIOUS
    <3>1. IsParsed(part.ranges[k].lo) /\ IsParsed(part.ranges[k].hi)
      BY <2>1, <2>2 DEF IsParsedPart
    <3>2. IsFiniteSet(RangeHosts(part, part.ranges[k]))
      BY <3>1, HostsOfRange DEF IsParsed
    <3> QED BY <2>2, <3>2
  <2>4. {g[k] : k \in 1..n} = {RangeHosts(part, part.ranges[k]) : k \in DOMAIN part.ranges}
    BY <2>2
  <2> HIDE DEF g, part
  <2>5. IsFiniteSet(UNION {g[k] : k \in 1..n})
    BY <2>3, FiniteUnion
  <2>6. IsFiniteSet(HostsOfPart(part))
    BY <2>4, <2>5, FS_Singleton, Zenon DEF HostsOfPart
  <2> QED BY <2>6 DEF part
<1> DEFINE f == [i \in DOMAIN parts |-> HostsOfPart(parts[i])]
<1>2. PICK n \in Nat : DOMAIN parts = 1..n
  BY DEF IsParsedList
<1>3. Expand(parts) = UNION {f[i] : i \in 1..n}
  <2>1. Expand(parts) = UNION {HostsOfPart(parts[i]) : i \in DOMAIN parts}
    BY DEF Expand, HostsOfPart
  <2> QED BY <1>2, <2>1
<1>4. \A i \in 1..n : IsFiniteSet(f[i])
  BY <1>1, <1>2
<1> HIDE DEF f
<1> QED BY <1>3, <1>4, FiniteUnion

-----------------------------------------------------------------------------
(* Clients and pairs of an entry and a host are one to one.                *)
Clients(cfg, hosts) ==
  UNION {{RedfishClient(cfg, cfg.clients[i], h) : h \in hosts[i]} : i \in DOMAIN hosts}
HostPairs(hosts) == UNION {{i} \X hosts[i] : i \in DOMAIN hosts}

LEMMA ClientIsOfHost ==
  ASSUME NEW cfg, NEW c, NEW h
  PROVE  /\ RedfishClient(cfg, c, h).hostname = h
         /\ RedfishClient(cfg, c, h).do \cap cfg.disable = {}
         /\ cfg.exclude \subseteq RedfishClient(cfg, c, h).excluded
BY DEF RedfishClient, IsExcluded

LEMMA ClientsAreCounted ==
  ASSUME NEW cfg, NEW n \in Nat, NEW hosts, DOMAIN hosts = 1..n,
         \A i \in 1..n : IsFiniteSet(hosts[i]), ~IsDuplicate(hosts)
  PROVE  /\ Cardinality(Clients(cfg, hosts)) = NumClients(hosts)
         /\ NumClients(hosts) \in Nat
<1> DEFINE P == HostPairs(hosts)
           C == Clients(cfg, hosts)
           f == [p \in P |-> RedfishClient(cfg, cfg.clients[p[1]], p[2])]
           g == [i \in 1..n |-> {i} \X hosts[i]]
<1>1. IsFiniteSet(P)
  <2>1. \A i \in 1..n : IsFiniteSet(g[i])
    BY FS_Singleton, FS_Product
  <2>2. P = UNION {g[i] : i \in 1..n}
    BY DEF HostPairs
  <2> HIDE DEF g, P
  <2> QED BY <2>1, <2>2, FiniteUnion
<1>2. \A p \in P : p = <<p[1], p[2]>> /\ p[1] \in 1..n /\ p[2] \in hosts[p[1]]
  BY DEF HostPairs
<1>3. \A i \in 1..n : \A h \in hosts[i] : <<i, h>> \in P
  BY DEF HostPairs
<1>4. \A c \in C : \E i \in 1..n : \E h \in hosts[i] : c = RedfishClient(cfg, cfg.clients[i], h)
  BY DEF Clients
<1>5. \A i \in 1..n : \A h \in hosts[i] : RedfishClient(cfg, cfg.clients[i], h) \in C
  BY DEF Clients
<1> HIDE DEF P, C
<1>6. f \in [P -> C]
  BY <1>2, <1>5
<1>7. ASSUME NEW p \in P, NEW q \in P, f[p] = f[q] PROVE p = q
  <2>1. p[2] = q[2]
    <3>1. f[p].hostname = p[2] /\ f[q].hostname = q[2]
      BY ClientIsOfHost
    <3> QED BY <1>7, <3>1
  <2>2. p[1] = q[1]
    <3>1. p[2] \in hosts[p[1]] \cap hosts[q[1]] /\ p[1] \in DOMAIN hosts /\ q[1] \in DOMAIN hosts
      BY <1>2, <2>1
    <3> QED BY <3>1 DEF IsDuplicate
  <2> QED BY <1>2, <2>1, <2>2
<1>8. \A c \in C : \E p \in P : f[p] = c
  <2> SUFFICES ASSUME NEW c \in C PROVE \E p \in P : f[p] = c
    OBVIOUS
  <2>1. PICK i \in 1..n : \E h \in hosts[i] : c = RedfishClient(cfg, cfg.clients[i], h)
    BY <1>4
  <2>2. PICK h \in hosts[i] : c = RedfishClient(cfg, cfg.clients[i], h)
    BY <2>1
  <2>3. <<i, h>> \in P
    BY <1>3
  <2> QED BY <2>2, <2>3
<1> HIDE DEF f
<1>9. ExistsBijection(P, C)
  BY <1>6, <1>7, <1>8 DEF ExistsBijection, Bijection, Injection, Surjection, IsInjective
<1>10. Cardinality(C) = Cardinality(P) /\ Cardinality(P) \in Nat
  BY <1>1, <1>9, FS_Bijection, FS_CardinalityType
<1>11. NumClients(hosts) = Cardinality(P)
  BY DEF NumClients, P, HostPairs
<1> QED BY <1>10, <1>11 DEF C

(* What the invariant says of any accepted configuration whose lists were  *)
(* parsed, with any fanout.                                                *)
LEMMA AcceptedRedfishIsSound ==
  ASSUME NEW cfg, NEW n \in Nat, DOMAIN cfg.clients = 1..n,
         \A i \in 1..n : IsParsedList(cfg.clients[i].hosts),
         cfg.fanout \in Int,
         NewRedfishReceiver(cfg).ok
  PROVE  LET r == NewRedfishReceiver(cfg) IN
           /\ {c.hostname : c \in r.clients}
                = UNION {Expand(cfg.clients[i].hosts) : i \in DOMAIN cfg.clients}
           /\ \A c, d \in r.clients : c.hostname = d.hostname => c = d
           /\ r.fanout <= Cardinality(r.clients)
           /\ r.fanout >= 1 <=> cfg.fanout >= 1
           /\ \A c \in r.clients : /\ cfg.disable \cap c.do = {}
                                   /\ cfg.exclude \subseteq c.excluded
<1> DEFINE r == NewRedfishReceiver(cfg)
           hosts == [i \in DOMAIN cfg.clients |-> Expand(cfg.clients[i].hosts)]
           number == NumClients(hosts)
           C == UNION {{RedfishClient(cfg, cfg.clients[i], h) : h \in hosts[i]} :
                         i \in DOMAIN cfg.clients}
           refused == \/ \E i \in DOMAIN cfg.clients :
                           \/ ~HasSettings(cfg, cfg.clients[i])
                           \/ ~IsHostList(cfg.clients[i].hosts)
                      \/ number = 0
                      \/ IsDuplicate(hosts)
           fanout == IF number < cfg.fanout THEN number ELSE cfg.fanout
<1>1. r = IF refused THEN Failed ELSE [ok |-> TRUE, clients |-> C, fanout |-> fanout]
  BY Zenon DEF NewRedfishReceiver
<1>2. Failed.ok = FALSE
  BY DEF Failed
<1>3. DOMAIN hosts = 1..n /\ \A i \in 1..n : hosts[i] = Expand(cfg.clients[i].hosts)
  OBVIOUS
<1>4. C = Clients(cfg, hosts)
  BY DEF Clients
<1>5. ~refused /\ r.clients = C /\ r.fanout = fanout
  <2> HIDE DEF r, refused, C, fanout
  <2> QED BY <1>1, <1>2 DEF r
<1>6. number # 0 /\ ~IsDuplicate(hosts)
  BY <1>5
<1> HIDE DEF r, C, hosts, refused
<1>7. \A i \in 1..n : IsFiniteSet(hosts[i])
  BY <1>3, ExpandIsFinite
<1>8. Cardinality(C) = number /\ number \in Nat
  BY <1>3, <1>4, <1>6, <1>7, ClientsAreCounted
<1>9. r.fanout <= Cardinality(r.clients) /\ (r.fanout >= 1 <=> cfg.fanout >= 1)
  <2> HIDE DEF number
  <2> QED BY <1>5, <1>6, <1>8
<1>10. \A c : c \in C <=> \E i \in 1..n : \E h \in hosts[i] :
                            c = RedfishClient(cfg, cfg.clients[i], h)
  BY <1>3, <1>4 DEF Clients
<1>11. \A c, d \in C : c.hostname = d.hostname => c = d
  <2> SUFFICES ASSUME NEW c \in C, NEW d \in C, c.hostname = d.hostname PROVE c = d
    OBVIOUS
  <2>1. PICK i \in 1..n : \E h \in hosts[i] : c = RedfishClient(cfg, cfg.clients[i], h)
    BY <1>10
  <2>2. PICK h \in hosts[i] : c = RedfishClient(cfg, cfg.clients[i], h)
    BY <2>1
  <2>3. PICK j \in 1..n : \E x \in hosts[j] : d = RedfishClient(cfg, cfg.clients[j], x)
    BY <1>10
  <2>4. PICK x \in hosts[j] : d = RedfishClient(cfg, cfg.clients[j], x)
    BY <2>3
  <2>5. h = x
    BY <2>2, <2>4, ClientIsOfHost
  <2>6. i = j
    BY <1>3, <1>6, <2>5 DEF IsDuplicate
  <2> QED BY <2>2, <2>4, <2>5, <2>6
<1>12. \A c \in C : cfg.disable \cap c.do = {} /\ cfg.exclude \subseteq c.excluded
  BY <1>10, ClientIsOfHost
<1>13. {c.hostname : c \in C} = UNION {hosts[i] : i \in 1..n}
  <2>1. \A h : h \in {c.hostname : c \in C} <=> \E i \in 1..n : h \in hosts[i]
    BY <1>10, ClientIsOfHost
  <2> QED BY <2>1
<1>14. UNION {hosts[i] : i \in 1..n} =
         UNION {Expand(cfg.clients[i].hosts) : i \in DOMAIN cfg.clients}
  BY <1>3
<1> QED BY <1>5, <1>9, <1>11, <1>12, <1>13, <1>14 DEF r

(* Addresses made from the names of hosts tell them apart.                 *)
LEMMA OwnAddress ==
  ASSUME NEW pattern, pattern.perHost, NEW g, NEW h, Address(pattern, g) = Address(pattern, h)
  PROVE  g = h
BY DEF Address

(* A host that answers is one of the list and has the address; with        *)
(* addresses of their own all hosts of the list can answer.                *)
LEMMA AcceptedIpmiIsSound ==
  ASSUME NEW cfg, NewIPMIReceiver(cfg).ok, NEW c \in NewIPMIReceiver(cfg).clients
  PROVE  \E i \in DOMAIN cfg.clients :
           LET e == cfg.clients[i]
               pattern == Head(Setting(cfg, e, "endpoint"))
           IN /\ \A a \in DOMAIN c.mapping : /\ c.mapping[a] \in Expand(e.hosts)
                                             /\ Address(pattern, c.mapping[a]) = a
              /\ pattern.perHost => \A h \in Expand(e.hosts) :
                   \E a \in DOMAIN c.mapping : c.mapping[a] = h
<1> DEFINE r == NewIPMIReceiver(cfg)
           entries == {cfg.clients[i] : i \in DOMAIN cfg.clients}
           C == {IpmiClient(cfg, e) : e \in entries}
           refused == \/ \E e \in entries : \/ ~HasSettings(cfg, e)
                                            \/ DriverType(cfg, e) \notin {"LAN", "LAN_2_0"}
                                            \/ ~Head(Setting(cfg, e, "endpoint")).protocol
                                            \/ ~IsHostList(e.hosts)
                                            \/ e.options \cap Refused # {}
                      \/ \A e \in entries : Expand(e.hosts) = {}
<1>1. r = IF refused THEN Failed ELSE [ok |-> TRUE, clients |-> C]
  BY Zenon DEF NewIPMIReceiver
<1>2. ~refused /\ r.clients = C
  <2>1. Failed.ok = FALSE
    BY DEF Failed
  <2> HIDE DEF r, refused, C
  <2> QED BY <1>1, <2>1 DEF r
<1> HIDE DEF r
<1>3. PICK e \in entries : c = IpmiClient(cfg, e)
  <2>1. c \in C
    BY <1>2 DEF r
  <2> QED BY <2>1
<1> DEFINE H == Expand(e.hosts)
           pattern == Head(Setting(cfg, e, "endpoint"))
<1>4. c.mapping = Mapping(pattern, H)
  BY <1>3 DEF IpmiClient
<1>5. PICK i \in DOMAIN cfg.clients : e = cfg.clients[i]
  OBVIOUS
<1> HIDE DEF H, pattern
<1>6. c.mapping = [b \in {Address(pattern, h) : h \in H} |->
                     CHOOSE h \in H : Address(pattern, h) = b]
  BY <1>4 DEF Mapping
<1>7. ASSUME NEW a \in DOMAIN c.mapping
      PROVE  c.mapping[a] \in H /\ Address(pattern, c.mapping[a]) = a
  <2>1. a \in {Address(pattern, h) : h \in H}
    BY <1>6
  <2>2. \E h \in H : Address(pattern, h) = a
    BY <2>1
  <2>3. c.mapping[a] = CHOOSE h \in H : Address(pattern, h) = a
    BY <1>6, <2>1
  <2> QED BY <2>2, <2>3
<1>8. ASSUME pattern.perHost, NEW h \in H PROVE \E a \in DOMAIN c.mapping : c.mapping[a] = h
  <2> DEFINE a == Address(pattern, h)
  <2>1. a \in DOMAIN c.mapping
    BY <1>6
  <2>2. Address(pattern, c.mapping[a]) = Address(pattern, h)
    BY <1>7, <2>1
  <2>3. c.mapping[a] = h
    BY <1>8, <2>2, OwnAddress
  <2> QED BY <2>1, <2>3
<1> QED BY <1>5, <1>7, <1>8 DEF H, pattern

(* A longer number is not shorter in the text.                             *)
LEMMA DigitsIncrease ==
  ASSUME NEW m \in Nat, NEW n \in Nat, m <= n PROVE Digits(m) <= Digits(n)
BY DEF Digits

(* What the invariant says of the hosts of one range.                      *)
LEMMA RangeKeepsPadding ==
  ASSUME NEW part, NEW r, IsParsed(r.lo), IsParsed(r.hi), IsRange(r)
  PROVE  /\ Cardinality(RangeHosts(part, r)) = r.hi.value - r.lo.value + 1
         /\ StartsWithZero(r.lo) => \A h \in RangeHosts(part, r) : h.number.width = r.lo.width
<1>1. Cardinality(RangeHosts(part, r)) = r.hi.value - r.lo.value + 1
  BY HostsOfRange DEF IsParsed, IsRange
<1>2. ASSUME StartsWithZero(r.lo), NEW h \in RangeHosts(part, r)
      PROVE  h.number.width = r.lo.width
  <2>1. Padded(r)
    BY <1>2 DEF IsRange
  <2>2. PICK n \in r.lo.value..r.hi.value :
          h = Host(part.prefix, Number(n, r.lo.width), part.suffix)
    BY <2>1 DEF RangeHosts
  <2>3. h.number.width = IF r.lo.width < Digits(n) THEN Digits(n) ELSE r.lo.width
    BY <2>2 DEF Host, Number
  <2> DEFINE a == r.lo.value
             b == r.hi.value
             w == r.lo.width
  <2>4. a \in Nat /\ b \in Nat /\ w \in Nat /\ n \in Nat /\ n <= b
    BY DEF IsParsed
  <2>5. Digits(b) <= w
    BY <2>1 DEF IsParsed, Padded
  <2> HIDE DEF a, b, w
  <2>6. Digits(n) <= Digits(b)
    BY <2>4, DigitsIncrease
  <2>7. Digits(n) \in Nat /\ Digits(b) \in Nat
    BY DEF Digits
  <2>8. ~(w < Digits(n))
    BY <2>4, <2>5, <2>6, <2>7
  <2> QED BY <2>3, <2>8 DEF w
<1> QED BY <1>1, <1>2

(* A configuration with lists of hosts as they are parsed.                 *)
ConfigInv ==
  st.kind \in {"newRedfish", "newIpmi"} =>
    /\ \E n \in Nat : DOMAIN st.cfg.clients = 1..n
    /\ \A i \in DOMAIN st.cfg.clients : IsParsedList(st.cfg.clients[i].hosts)
    /\ st.cfg.fanout \in Int

LEMMA AnyConfigIsSound == ASSUME ConfigInv PROVE ConfigsAreSound
<1>1. RedfishConfigIsSound
  <2> SUFFICES ASSUME Is("newRedfish"), NewRedfishReceiver(st.cfg).ok PROVE RedfishConfigIsSound
    BY Zenon DEF RedfishConfigIsSound
  <2>1. /\ \A i \in DOMAIN st.cfg.clients : IsParsedList(st.cfg.clients[i].hosts)
        /\ st.cfg.fanout \in Int
    BY DEF ConfigInv, Is
  <2>2. PICK n \in Nat : DOMAIN st.cfg.clients = 1..n
    BY DEF ConfigInv, Is
  <2> QED BY <2>1, <2>2, AcceptedRedfishIsSound DEF RedfishConfigIsSound
<1>2. AnswersFindTheirHost
  BY AcceptedIpmiIsSound, ZenonT(30) DEF AnswersFindTheirHost
<1>3. PaddingIsKept
  <2> SUFFICES ASSUME st.kind \in {"newRedfish", "newIpmi"},
                      NEW i \in DOMAIN st.cfg.clients,
                      NEW k \in DOMAIN st.cfg.clients[i].hosts,
                      IsHostList(<<st.cfg.clients[i].hosts[k]>>),
                      NEW j \in DOMAIN st.cfg.clients[i].hosts[k].ranges
               PROVE  LET part == st.cfg.clients[i].hosts[k]
                          r == part.ranges[j]
                          hosts == RangeHosts(part, r)
                      IN /\ Cardinality(hosts) = r.hi.value - r.lo.value + 1
                         /\ StartsWithZero(r.lo) =>
                              \A h \in hosts : h.number.width = r.lo.width
    BY Zenon DEF PaddingIsKept
  <2> DEFINE part == st.cfg.clients[i].hosts[k]
             r == part.ranges[j]
  <2>1. IsParsedPart(part)
    BY SMTT(20) DEF ConfigInv, IsParsedList
  <2>2. IsParsed(r.lo) /\ IsParsed(r.hi)
    BY <2>1 DEF IsParsedPart
  <2>3. IsRange(r)
    <3> DEFINE q == <<part>>
    <3>1. IsHostList(q) /\ j \in DOMAIN part.ranges
      OBVIOUS
    <3> HIDE DEF part
    <3>2. q[1] = part /\ 1 \in DOMAIN q
      OBVIOUS
    <3> HIDE DEF q
    <3> QED BY <3>1, <3>2 DEF IsHostList
  <2> HIDE DEF part, r
  <2> QED BY <2>2, <2>3, RangeKeepsPadding, Zenon DEF part, r
<1> QED BY <1>1, <1>2, <1>3 DEF ConfigsAreSound

-----------------------------------------------------------------------------
(* Units.                                                                  *)
Token == Prefix \cup Measure \cup {"ackets", "vents"}
Unit(p, m, d) == [prefix |-> p, measure |-> m, div |-> d]

LEMMA MeasureTexts ==
  /\ MeasureText("packets") = <<"P", "ackets">> /\ MeasureText("events") = <<"E", "vents">>
  /\ \A m \in Measure : m \notin {"packets", "events"} => MeasureText(m) = <<m>>
<1>1. MeasureText("packets") = <<"P", "ackets">>
  BY DEF MeasureText
<1>2. MeasureText("events") = <<"E", "vents">>
  BY DEF MeasureText
<1>3. ASSUME NEW m, m \notin {"packets", "events"} PROVE MeasureText(m) = <<m>>
  BY <1>3 DEF MeasureText
<1> QED BY <1>1, <1>2, <1>3

(* The tokens of a pair and of a single one.                               *)
LEMMA Pairs ==
  ASSUME NEW S, NEW a \in S, NEW b \in S
  PROVE  /\ <<a, b>> \in Seq(S) /\ Len(<<a, b>>) = 2 /\ Head(<<a, b>>) = a
         /\ Tail(<<a, b>>) = <<b>>
         /\ <<a, b>> # <<>> /\ <<a, b>>[1] = a /\ <<a, b>>[2] = b
<1>1. <<a, b>> \in Seq(S) /\ Len(<<a, b>>) = 2 /\ Head(<<a, b>>) = a /\ <<a, b>> # <<>>
  OBVIOUS
<1>2. Tail(<<a, b>>) = <<b>>
  OBVIOUS
<1>3. <<a, b>>[1] = a /\ <<a, b>>[2] = b
  OBVIOUS
<1> QED BY <1>1, <1>2, <1>3

LEMMA Singles ==
  ASSUME NEW S, NEW a \in S
  PROVE  /\ <<a>> \in Seq(S) /\ Len(<<a>>) = 1 /\ Head(<<a>>) = a
         /\ <<a>> # <<>> /\ <<a>>[1] = a
OBVIOUS

LEMMA Prefixed ==
  ASSUME NEW S, NEW a \in S, NEW t \in Seq(S)
  PROVE  /\ <<a>> \o t \in Seq(S) /\ <<a>> \o t # <<>>
         /\ Head(<<a>> \o t) = a /\ Tail(<<a>> \o t) = t
         /\ Len(<<a>> \o t) = Len(t) + 1 /\ (<<a>> \o t)[1] = a
         /\ \A i \in 1..Len(t) : (<<a>> \o t)[i + 1] = t[i]
<1>1. <<a>> \in Seq(S) /\ Len(<<a>>) = 1 /\ <<a>>[1] = a
  BY Singles
<1> DEFINE c == <<a>> \o t
<1>2. /\ c \in Seq(S) /\ Len(c) = Len(<<a>>) + Len(t)
      /\ \A i \in 1..Len(<<a>>) + Len(t) :
           c[i] = IF i <= Len(<<a>>) THEN <<a>>[i] ELSE t[i - Len(<<a>>)]
  BY <1>1, ConcatProperties
<1>3. c \in Seq(S) /\ Len(c) = 1 + Len(t) /\ c[1] = a /\ Len(t) \in Nat
      /\ \A i \in 1..Len(t) : c[i + 1] = t[i]
  <2> DEFINE q == <<a>>
  <2>1. Len(q) = 1 /\ q[1] = a /\ Len(c) = Len(q) + Len(t)
        /\ \A i \in 1..Len(q) + Len(t) : c[i] = IF i <= Len(q) THEN q[i] ELSE t[i - Len(q)]
    BY <1>1, <1>2
  <2> HIDE DEF c, q
  <2>2. c[1] = a
    BY <2>1
  <2>3. \A i \in 1..Len(t) : c[i + 1] = t[i]
    BY <2>1
  <2> QED BY <1>2, <2>1, <2>2, <2>3
<1> HIDE DEF c
<1>4. c # <<>> /\ Head(c) = a
  BY <1>3
<1>5. Tail(c) = t
  <2>1. Tail(c) \in Seq(S) /\ Len(Tail(c)) = Len(t)
        /\ \A i \in 1..Len(t) : Tail(c)[i] = c[i + 1]
    BY <1>3, <1>4, HeadTailProperties
  <2> DEFINE u == Tail(c)
  <2> HIDE DEF u
  <2>2. u \in Seq(S) /\ Len(u) = Len(t) /\ \A i \in 1..Len(t) : u[i] = t[i]
    BY <1>3, <2>1 DEF u
  <2>3. u = t
    BY <2>2, SeqEqual
  <2> QED BY <2>3 DEF u
<1>6. Len(c) = Len(t) + 1
  BY <1>3
<1> QED BY <1>3, <1>4, <1>5, <1>6 DEF c

LEMMA PairIs ==
  ASSUME NEW S, NEW a \in S, NEW b \in S PROVE <<a>> \o <<b>> = <<a, b>>
<1> DEFINE c == <<a>> \o <<b>>
           d == <<a, b>>
<1>1. <<b>> \in Seq(S) /\ Len(<<b>>) = 1 /\ <<b>>[1] = b
  BY Singles
<1>2. /\ c \in Seq(S) /\ Len(c) = Len(<<b>>) + 1 /\ c[1] = a
      /\ \A i \in 1..Len(<<b>>) : c[i + 1] = <<b>>[i]
  BY <1>1, Prefixed
<1>3. d \in Seq(S) /\ Len(d) = 2 /\ d[1] = a /\ d[2] = b
  BY Pairs
<1> HIDE DEF c, d
<1>4. Len(c) = 2 /\ c[2] = b
  <2> DEFINE q == <<b>>
  <2>1. Len(q) = 1 /\ q[1] = b /\ Len(c) = Len(q) + 1
        /\ \A i \in 1..Len(q) : c[i + 1] = q[i]
    BY <1>1, <1>2
  <2> HIDE DEF q
  <2> QED BY <2>1
<1>5. \A i \in 1..2 : c[i] = d[i]
  BY <1>2, <1>3, <1>4
<1>6. c = d
  BY <1>2, <1>3, <1>4, <1>5, SeqEqual
<1> QED BY <1>6 DEF c, d
-----------------------------------------------------------------------------
LEMMA TextsAreTokens ==
  ASSUME NEW m \in Measure
  PROVE  MeasureText(m) \in Seq(Token)
<1>1. {"P", "E", "ackets", "vents"} \subseteq Token /\ Measure \subseteq Token
  BY Zenon DEF Token, Prefix
<1>2. CASE m = "packets"
  <2>1. <<"P", "ackets">> \in Seq(Token)
    BY <1>1, Pairs
  <2> QED BY <1>2, <2>1, MeasureTexts
<1>3. CASE m = "events"
  <2>1. <<"E", "vents">> \in Seq(Token)
    BY <1>1, Pairs
  <2> QED BY <1>3, <2>1, MeasureTexts
<1>4. CASE m \notin {"packets", "events"}
  <2>1. m \in Token
    BY <1>1
  <2> QED BY <1>4, <2>1, MeasureTexts, Singles
<1> QED BY <1>2, <1>3, <1>4

(* Which tokens stand for a measure, by their number.                      *)
LEMMA TextsByLength ==
  ASSUME NEW m \in Measure
  PROVE  /\ m \notin {"packets", "events"} =>
              Len(MeasureText(m)) = 1 /\ MeasureText(m)[1] = m
         /\ m = "packets" => Len(MeasureText(m)) = 2 /\ MeasureText(m)[1] = "P"
                             /\ MeasureText(m)[2] = "ackets"
         /\ m = "events" => Len(MeasureText(m)) = 2 /\ MeasureText(m)[1] = "E"
                             /\ MeasureText(m)[2] = "vents"
<1>1. CASE m = "packets"
  BY <1>1, MeasureTexts, Pairs
<1>2. CASE m = "events"
  BY <1>2, MeasureTexts, Pairs
<1>3. CASE m \notin {"packets", "events"}
  BY <1>3, MeasureTexts, Singles
<1> QED BY <1>1, <1>2, <1>3

LEMMA MeasureIsRead ==
  ASSUME NEW m \in Measure PROVE NewMeasure(MeasureText(m)) = m
<1>1. \A n \in Measure : MeasureText(n) = MeasureText(m) => n = m
  <2> SUFFICES ASSUME NEW n \in Measure, MeasureText(n) = MeasureText(m) PROVE n = m
    OBVIOUS
  <2> DEFINE a == MeasureText(m)
             b == MeasureText(n)
             kind(k) == k \notin {"packets", "events"}
  <2>1. /\ kind(m) => Len(a) = 1 /\ a[1] = m
        /\ m = "packets" => Len(a) = 2 /\ a[1] = "P"
        /\ m = "events" => Len(a) = 2 /\ a[1] = "E"
    BY TextsByLength
  <2>2. /\ kind(n) => Len(b) = 1 /\ b[1] = n
        /\ n = "packets" => Len(b) = 2 /\ b[1] = "P"
        /\ n = "events" => Len(b) = 2 /\ b[1] = "E"
    BY TextsByLength
  <2>3. a = b
    OBVIOUS
  <2> HIDE DEF a, b
  <2> QED BY <2>1, <2>2, <2>3
<1> QED BY <1>1, Zenon DEF NewMeasure

LEMMA OneMore == \A n \in {1, 2} : n + 1 # 1
OBVIOUS

LEMMA NotAMeasure ==
  /\ NewMeasure(<<"ackets">>) = Invalid /\ NewMeasure(<<"vents">>) = Invalid
  /\ \A p \in {"u", "n"}, m \in Measure : NewMeasure(<<p>> \o MeasureText(m)) = Invalid
<1>1. ASSUME NEW t, \A n \in Measure : MeasureText(n) # t PROVE NewMeasure(t) = Invalid
  BY <1>1 DEF NewMeasure
<1>2. ASSUME NEW a \in {"ackets", "vents"} PROVE \A n \in Measure : MeasureText(n) # <<a>>
  <2> SUFFICES ASSUME NEW n \in Measure, MeasureText(n) = <<a>> PROVE FALSE
    OBVIOUS
  <2>1. Len(<<a>>) = 1 /\ <<a>>[1] = a
    BY Singles
  <2>2. n # a
    BY DEF Measure
  <2> QED BY <2>1, <2>2, TextsByLength
<1>3. ASSUME NEW p \in {"u", "n"}, NEW m \in Measure
      PROVE  \A n \in Measure : MeasureText(n) # <<p>> \o MeasureText(m)
  <2> SUFFICES ASSUME NEW n \in Measure, MeasureText(n) = <<p>> \o MeasureText(m)
               PROVE  FALSE
    OBVIOUS
  <2> DEFINE t == MeasureText(m)
             c == <<p>> \o t
             b == MeasureText(n)
  <2>1. p \in Token /\ t \in Seq(Token)
    BY TextsAreTokens, Zenon DEF Token, Prefix
  <2>2. Len(c) = Len(t) + 1 /\ c[1] = p
    <3> HIDE DEF t
    <3> QED BY <2>1, Prefixed
  <2>3. Len(t) \in {1, 2}
    BY TextsByLength
  <2>4. /\ n \notin {"packets", "events"} => Len(b) = 1
        /\ n = "packets" => b[1] = "P"
        /\ n = "events" => b[1] = "E"
    BY TextsByLength
  <2>5. b = c
    OBVIOUS
  <2> HIDE DEF t, c, b
  <2>6. Len(b) # 1
    BY <2>2, <2>3, <2>5, OneMore
  <2>7. b[1] \in {"u", "n"}
    BY <2>2, <2>5
  <2>8. n = "packets" \/ n = "events"
    BY <2>4, <2>6
  <2> QED BY <2>4, <2>7, <2>8
<1> QED BY <1>1, <1>2, <1>3

(* What NewUnit reads, by the kind of prefix and of measure.               *)
UnitOf(text, s) ==
  LET asWhole == /\ NewMeasure(s.rest) = Invalid /\ s.prefix \in {"P", "E"}
                 /\ NewMeasure(<<s.prefix>> \o s.rest) # Invalid
      measure == NewMeasure(IF asWhole THEN <<s.prefix>> \o s.rest ELSE s.rest)
      prefix == IF asWhole \/ measure = "%" THEN ""
                ELSE IF s.prefix = "m" /\ measure \in Counted THEN "M"
                ELSE s.prefix
  IN IF measure = Invalid THEN InvalidUnit
     ELSE [prefix |-> prefix, measure |-> measure, div |-> text.div]

LEMMA NewUnitIs == ASSUME NEW text PROVE NewUnit(text) = UnitOf(text, Split(text.tokens))
BY Zenon DEF NewUnit, UnitOf

LEMMA UnitIsWhole ==
  ASSUME NEW text, NEW s, NEW a \in {"P", "E"}, NEW r, s.prefix = a, s.rest = r,
         NewMeasure(r) = Invalid,
         NEW m, m # Invalid, NewMeasure(<<a>> \o r) = m
  PROVE  UnitOf(text, s) = Unit("", m, text.div)
BY Zenon DEF UnitOf, Unit

LEMMA UnitIsRest ==
  ASSUME NEW text, NEW s, NEW m, m # Invalid, NewMeasure(s.rest) = m
  PROVE  UnitOf(text, s) =
           Unit(IF m = "%" THEN "" ELSE IF s.prefix = "m" /\ m \in Counted THEN "M"
                ELSE s.prefix, m, text.div)
BY Zenon DEF UnitOf, Unit

LEMMA SplitsPrefix ==
  ASSUME NEW tokens, tokens # <<>>, Head(tokens) \in SplitPrefix
  PROVE  Split(tokens).prefix = Head(tokens) /\ Split(tokens).rest = Tail(tokens)
BY DEF Split

LEMMA SplitsNothing ==
  ASSUME NEW tokens, ~(tokens # <<>> /\ Head(tokens) \in SplitPrefix)
  PROVE  Split(tokens).prefix = "" /\ Split(tokens).rest = tokens
BY Zenon DEF Split

LEMMA UnitIsInvalid ==
  ASSUME NEW text, NEW s, NewMeasure(s.rest) = Invalid, s.prefix \notin {"P", "E"}
  PROVE  UnitOf(text, s) = InvalidUnit
BY DEF UnitOf

ReadPrefix(p, m) ==
  IF m = "%" THEN "" ELSE IF p = "m" /\ m \in Counted THEN "M" ELSE p

(* The text of any unit, read back.                                        *)
LEMMA UnitIsReadBack ==
  ASSUME NEW p \in Prefix, NEW m \in Measure, NEW d
  PROVE  LET again == NewUnit(Short(Unit(p, m, d))) IN
           /\ p \in {"u", "n"} => again = InvalidUnit
           /\ p \notin {"u", "n"} => again = Unit(ReadPrefix(p, m), m, d)
<1> DEFINE u == Unit(p, m, d)
           text == Short(u)
           t == MeasureText(m)
           s == Split(text.tokens)
<1>1. u.prefix = p /\ u.measure = m /\ u.div = d
  BY DEF Unit
<1> HIDE DEF u
<1>2. /\ text.tokens = (IF p = "" THEN <<>> ELSE <<p>>) \o t
      /\ text.div = d
  BY <1>1, Zenon DEF Short
<1> HIDE DEF text
<1>3. p \in Token /\ t \in Seq(Token) /\ NewMeasure(t) = m /\ m # Invalid
  BY TextsAreTokens, MeasureIsRead DEF Token, Measure, Invalid
<1>4. CASE p = ""
  <2>1. text.tokens = t
    <3>1. <<>> \o t = t
      BY <1>3, ConcatEmptySeq
    <3> QED BY <1>2, <1>4, <3>1, Zenon
  <2>2. CASE m \notin {"packets", "events"}
    <3>1. t = <<m>>
      BY <2>2, MeasureTexts
    <3>2. t # <<>> /\ Head(t) = m
      BY <3>1, Singles
    <3>3. m \notin SplitPrefix
      BY Zenon DEF Measure, SplitPrefix, Prefix
    <3>4. ~(t # <<>> /\ Head(t) \in SplitPrefix)
      BY <3>2, <3>3
    <3>5. s.prefix = "" /\ s.rest = t
      <4> HIDE DEF t
      <4> QED BY <2>1, <3>4, SplitsNothing, Zenon
    <3> HIDE DEF s, t
    <3>6. UnitOf(text, s) = Unit("", m, d)
      BY <1>2, <1>3, <3>5, UnitIsRest, Zenon
    <3> QED BY <1>4, <3>6, NewUnitIs, Zenon DEF ReadPrefix, text, u, s
  <2>3. ASSUME NEW a \in {"P", "E"}, NEW b \in {"ackets", "vents"}, t = <<a, b>>
        PROVE  NewUnit(text) = Unit("", m, d)
    <3>1. a \in Token /\ b \in Token /\ a \in SplitPrefix
      BY Zenon DEF Token, Prefix, SplitPrefix
    <3>2. t # <<>> /\ Head(t) = a /\ Tail(t) = <<b>>
      BY <2>3, <3>1, Pairs
    <3>3. s = [prefix |-> a, rest |-> <<b>>]
      BY <2>1, <3>1, <3>2, Zenon DEF Split
    <3>4. s.prefix = a /\ s.rest = <<b>>
      BY <3>3
    <3>5. <<a>> \o <<b>> = t
      BY <2>3, <3>1, PairIs
    <3>6. NewMeasure(<<b>>) = Invalid
      BY NotAMeasure
    <3> HIDE DEF s, t
    <3>7. NewMeasure(<<a>> \o <<b>>) = m
      BY <1>3, <3>5
    <3>8. UnitOf(text, s) = Unit("", m, text.div)
      BY <1>3, <3>4, <3>6, <3>7, UnitIsWhole, Zenon
    <3> QED BY <1>2, <3>8, NewUnitIs, Zenon DEF s
  <2>4. CASE m \in {"packets", "events"}
    <3>1. NewUnit(text) = Unit("", m, d)
      BY <2>3, <2>4, MeasureTexts, Zenon
    <3> QED BY <1>4, <2>4, <3>1, Zenon DEF ReadPrefix, text, u
  <2> QED BY <2>2, <2>4
<1>5. CASE p # ""
  <2>1. text.tokens = <<p>> \o t
    BY <1>2, <1>5, Zenon
  <2>2. <<p>> \o t # <<>> /\ Head(<<p>> \o t) = p /\ Tail(<<p>> \o t) = t
    <3> HIDE DEF t
    <3> QED BY <1>3, Prefixed
  <2>3. CASE p \notin {"u", "n"}
    <3>1. p \in SplitPrefix
      BY <1>5, <2>3, Zenon DEF SplitPrefix
    <3>2. s = [prefix |-> p, rest |-> t]
      BY <2>1, <2>2, <3>1 DEF Split
    <3>3. s.prefix = p /\ s.rest = t
      BY <3>2
    <3> HIDE DEF s, t
    <3>4. UnitOf(text, s) = Unit(ReadPrefix(p, m), m, d)
      BY <1>2, <1>3, <3>3, UnitIsRest, Zenon DEF ReadPrefix
    <3> QED BY <2>3, <3>4, NewUnitIs DEF text, u, s
  <2>4. CASE p \in {"u", "n"}
    <3>1. p \notin SplitPrefix
      BY <2>4, Zenon DEF SplitPrefix
    <3>2. ~(<<p>> \o t # <<>> /\ Head(<<p>> \o t) \in SplitPrefix)
      BY <2>2, <3>1
    <3>3. s.prefix = "" /\ s.rest = <<p>> \o t
      <4> HIDE DEF t
      <4> QED BY <2>1, <3>2, SplitsNothing, Zenon
    <3>4. NewMeasure(<<p>> \o t) = Invalid
      BY <2>4, NotAMeasure
    <3> HIDE DEF s, t
    <3>5. UnitOf(text, s) = InvalidUnit
      BY <3>3, <3>4, UnitIsInvalid, Zenon
    <3> QED BY <2>4, <3>5, NewUnitIs DEF text, u, s
  <2> QED BY <2>3, <2>4
<1> QED BY <1>4, <1>5, Zenon

LEMMA NewPrefixOf ==
  ASSUME NEW q, NEW m, NEW d, NEW out
  PROVE  [Unit(q, m, d) EXCEPT !.prefix = out] = Unit(out, m, d)
BY DEF Unit

LEMMA NotEmptyPair == \A a, b : <<a, b>> # <<>>
OBVIOUS

LEMMA NotOneScale == \A m : {m, m} # {"degC", "degF"}
OBVIOUS

(* The unit of a metric stays as it is.                                    *)
UnitInv ==
  Is("unit") => \E p \in Prefix, m \in Measure : \E d : st.in = Unit(p, m, d)

(* Units with any denominator, and any new prefix.                         *)
LEMMA AnyUnitSurvives == ASSUME UnitInv PROVE UnitsSurvive
<1> SUFFICES ASSUME Is("unit") PROVE UnitsSurvive
  BY Zenon DEF UnitsSurvive
<1>0. PICK p \in Prefix, m \in Measure : \E x : st.in = Unit(p, m, x)
  BY DEF UnitInv
<1>1. PICK d : st.in = Unit(p, m, d)
  BY <1>0
<1> DEFINE u == st.in
           out == st.out
           again == NewUnit(Short(u))
           new == GetUnitPrefixFactor(u, out)
           usual == p \notin {"u", "n"}
<1>2. u.prefix = p /\ u.measure = m /\ u.div = d
  BY <1>1 DEF Unit
<1>3. /\ ~usual => again = InvalidUnit
      /\ usual => again = Unit(ReadPrefix(p, m), m, d)
  BY <1>1, UnitIsReadBack
<1>4. new = IF Valid(again)
            THEN [conv |-> <<u.prefix, out>>, unit |-> [again EXCEPT !.prefix = out]]
            ELSE [conv |-> <<>>, unit |-> InvalidUnit]
  BY DEF GetUnitPrefixFactor, GetPrefixPrefixFactor
<1>5. [u EXCEPT !.prefix = out] = Unit(out, m, d)
  BY <1>1, NewPrefixOf
<1>6. GetUnitUnitFactor(u, Unit(out, m, d)) = <<p, out>>
  <2>1. Unit(out, m, d).measure = m /\ Unit(out, m, d).div = d /\ Unit(out, m, d).prefix = out
    BY DEF Unit
  <2> HIDE DEF u, out
  <2> QED BY <1>2, <2>1, NotOneScale DEF GetUnitUnitFactor, GetPrefixPrefixFactor
<1>7. /\ \/ again = u \/ u.prefix \in {"u", "n"} \/ u.measure = "%"
         \/ u.prefix = "m" /\ u.measure \in Counted
      /\ (new.conv # <<>>) <=> u.prefix \notin {"u", "n"}
      /\ new.conv # <<>> =>
           /\ new.unit = [u EXCEPT !.prefix = out]
           /\ new.conv = GetUnitUnitFactor(u, new.unit)
  <2>1. CASE usual
    <3>1. again = Unit(ReadPrefix(p, m), m, d)
      BY <1>3, <2>1
    <3>2. Valid(again)
      <4>1. again.prefix = ReadPrefix(p, m) /\ again.measure = m
        BY <3>1 DEF Unit
      <4>2. ReadPrefix(p, m) # Invalid /\ m # Invalid
        BY Zenon DEF ReadPrefix, Prefix, Measure, Invalid
      <4> HIDE DEF again
      <4> QED BY <4>1, <4>2 DEF Valid
    <3>3. [again EXCEPT !.prefix = out] = Unit(out, m, d)
      BY <3>1, NewPrefixOf
    <3> HIDE DEF new, again, u, out
    <3>4. new.conv = <<p, out>> /\ new.unit = Unit(out, m, d)
      BY <1>2, <1>4, <3>2, <3>3
    <3>5. again = u \/ m = "%" \/ (p = "m" /\ m \in Counted)
      BY <1>1, <3>1, Zenon DEF ReadPrefix, u
    <3>6. new.conv # <<>>
      BY <3>4, NotEmptyPair
    <3> QED BY <1>2, <1>5, <1>6, <2>1, <3>4, <3>5, <3>6
  <2>2. CASE ~usual
    <3>1. ~Valid(again)
      BY <1>3, <2>2 DEF Valid, InvalidUnit, Invalid
    <3> HIDE DEF new, again, u, out
    <3>2. new.conv = <<>>
      BY <1>4, <3>1
    <3> QED BY <1>2, <2>2, <3>2
  <2> QED BY <2>1, <2>2
<1> QED BY <1>7, Zenon DEF UnitsSurvive

-----------------------------------------------------------------------------
(* Messages.                                                               *)
(* No integer is not a number. *)
AreValues(fields) ==
  \A k \in DOMAIN fields :
    fields[k].value = "NaN" =>
      fields[k].type \notin {"int8", "int32", "int64", "uint8", "uint64"}

(* A field as convertField leaves it. *)
IsConverted(f) ==
  /\ f = [type |-> f.type, value |-> f.value]
  /\ f.type \in {"int64", "uint64", "float64", "string", "bool"}
  /\ f.value # "nil" /\ (f.value = "NaN" => f.type \in {"string", "bool"})

AreConverted(fields) ==
  /\ fields = [k \in DOMAIN fields |-> fields[k]]
  /\ DOMAIN fields # {} /\ "" \notin DOMAIN fields
  /\ \A k \in DOMAIN fields : IsConverted(fields[k])

Message(name, tags, meta, fields, time) ==
  [name |-> name, tags |-> tags, meta |-> meta, time |-> time, fields |-> fields]

IsMap(f) == f = [k \in DOMAIN f |-> f[k]]

(* The message has what it was made of, with fields of the few types. *)
IsMadeOf(m, name, tags, meta, fields, time) ==
  /\ m = Message(name, tags, meta, m.fields, time)
  /\ name # "" /\ time # "zero" /\ "" \notin DOMAIN tags \cup DOMAIN meta
  /\ AreConverted(m.fields) /\ DOMAIN m.fields \subseteq DOMAIN fields
  /\ \A k \in DOMAIN m.fields : ConvertField(fields[k]) = m.fields[k].type
                                /\ m.fields[k].value = fields[k].value

(* An accepted message has what was given, and fields of the few types.    *)
LEMMA NewMessageConverts ==
  ASSUME NEW name, NEW tags, NEW meta, NEW fields, NEW time,
         AreValues(fields), IsMessage(NewMessage(name, tags, meta, fields, time))
  PROVE  IsMadeOf(NewMessage(name, tags, meta, fields, time), name, tags, meta, fields, time)
<1> DEFINE kept == {k \in DOMAIN fields : ConvertField(fields[k]) # "nil"}
           given == [k \in kept |-> [type |-> ConvertField(fields[k]),
                                     value |-> fields[k].value]]
           m == NewMessage(name, tags, meta, fields, time)
<1>1. /\ m = Message(name, tags, meta, given, time)
      /\ name # "" /\ time # "zero"
      /\ "" \notin DOMAIN tags \cup DOMAIN meta \cup DOMAIN fields
      /\ kept # {} /\ \A k \in kept : ~NotFinite(fields[k])
  BY Zenon DEF NewMessage, IsMessage, Message
<1>2. m.fields = given
  <2> HIDE DEF m, given
  <2> QED BY <1>1, Zenon DEF Message
<1>3. ASSUME NEW k \in kept
      PROVE  /\ IsConverted(given[k]) /\ given[k].type = ConvertField(fields[k])
             /\ given[k].value = fields[k].value
  <2>1. fields[k].type \in DOMAIN Target /\ fields[k].value # "nil"
        /\ ConvertField(fields[k]) = Target[fields[k].type]
    BY DEF ConvertField
  <2>2. fields[k].value = "NaN" => Target[fields[k].type] \in {"string", "bool"}
    <3>1. fields[k].value = "NaN" =>
            fields[k].type \notin {"int8", "int32", "int64", "uint8", "uint64"}
      BY DEF AreValues
    <3>2. \A t \in DOMAIN Target :
            \/ t \in {"int8", "int32", "int64", "uint8", "uint64"}
            \/ Target[t] = "float64" \/ Target[t] \in {"string", "bool"}
      BY DEF Target
    <3> QED BY <1>1, <2>1, <3>1, <3>2, Zenon DEF NotFinite
  <2>3. Target[fields[k].type] \in {"int64", "uint64", "float64", "string", "bool"}
    BY <2>1 DEF Target
  <2>4. given[k] = [type |-> ConvertField(fields[k]), value |-> fields[k].value]
    OBVIOUS
  <2> HIDE DEF given, kept
  <2> QED BY <2>1, <2>2, <2>3, <2>4 DEF IsConverted
<1>4. AreConverted(given) /\ DOMAIN given \subseteq DOMAIN fields
  <2>1. DOMAIN given = kept /\ given = [k \in kept |-> given[k]]
    OBVIOUS
  <2>2. kept \subseteq DOMAIN fields
    OBVIOUS
  <2> HIDE DEF given, kept
  <2> QED BY <1>1, <1>3, <2>1, <2>2, Zenon DEF AreConverted
<1>5. DOMAIN given = kept
  OBVIOUS
<1> HIDE DEF m, given, kept
<1>6. IsMadeOf(m, name, tags, meta, fields, time)
  BY <1>1, <1>2, <1>3, <1>4, <1>5, Zenon DEF IsMadeOf
<1> QED BY <1>6 DEF m

LEMMA TargetKeeps ==
  \A t \in {"int64", "uint64", "float64", "string", "bool"} :
    t \in DOMAIN Target /\ Target[t] = t
BY DEF Target

(* Fields of these types are taken as they are.                            *)
LEMMA ConvertedAreKept ==
  ASSUME NEW name, NEW tags, NEW meta, NEW fields, NEW time,
         name # "", time # "zero", "" \notin DOMAIN tags \cup DOMAIN meta,
         AreConverted(fields)
  PROVE  NewMessage(name, tags, meta, fields, time) = Message(name, tags, meta, fields, time)
         /\ IsMessage(NewMessage(name, tags, meta, fields, time))
<1> DEFINE kept == {k \in DOMAIN fields : ConvertField(fields[k]) # "nil"}
           given == [k \in kept |-> [type |-> ConvertField(fields[k]),
                                     value |-> fields[k].value]]
<1>1. ASSUME NEW k \in DOMAIN fields
      PROVE  /\ ConvertField(fields[k]) = fields[k].type
             /\ ConvertField(fields[k]) # "nil" /\ ~NotFinite(fields[k])
             /\ fields[k] = [type |-> fields[k].type, value |-> fields[k].value]
  <2>1. IsConverted(fields[k])
    BY Zenon DEF AreConverted
  <2>2. Target[fields[k].type] = fields[k].type /\ fields[k].type \in DOMAIN Target
    BY <2>1, TargetKeeps, Zenon DEF IsConverted
  <2> QED BY <2>1, <2>2, Zenon DEF IsConverted, ConvertField, NotFinite
<1>2. kept = DOMAIN fields
  BY <1>1, Zenon
<1>3. given = fields
  <2>1. given = [k \in DOMAIN fields |-> [type |-> ConvertField(fields[k]),
                                          value |-> fields[k].value]]
    BY <1>2, Zenon
  <2>2. given = [k \in DOMAIN fields |-> fields[k]]
    <3> HIDE DEF kept
    <3> QED BY <1>1, <2>1, Zenon
  <2> HIDE DEF given
  <2> QED BY <2>2, Zenon DEF AreConverted
<1>4. kept # {} /\ "" \notin DOMAIN fields /\ \A k \in kept : ~NotFinite(fields[k])
  BY <1>1, <1>2, Zenon DEF AreConverted
<1>5. NewMessage(name, tags, meta, fields, time) =
        IF \/ name = "" \/ time = "zero"
           \/ "" \in DOMAIN tags \cup DOMAIN meta \cup DOMAIN fields
           \/ kept = {} \/ \E k \in kept : NotFinite(fields[k])
        THEN NoMessage ELSE Message(name, tags, meta, given, time)
  BY Zenon DEF NewMessage, Message
<1> HIDE DEF given, kept
<1>6. NewMessage(name, tags, meta, fields, time) = Message(name, tags, meta, fields, time)
  BY <1>3, <1>4, <1>5, Zenon
<1>7. Message(name, tags, meta, fields, time) # NoMessage
  BY Zenon DEF Message, NoMessage
<1> QED BY <1>6, <1>7, Zenon DEF IsMessage

(* Fields of JSON are still ones that are taken as they are.               *)
LEMMA JsonIsConverted ==
  ASSUME NEW f, IsConverted(f)
  PROVE  /\ IsConverted(AsJSON(f))
         /\ AsJSON(f).type = "string" <=> f.type = "string"
         /\ f.value # "noUTF8" /\ (f.value = "big" => f.type = "string")
              => AsJSON(f).value = f.value
<1>1. CASE f.type \in {"int64", "uint64", "float64"}
  <2> DEFINE v == IF f.value = "big" THEN "rounded" ELSE f.value
  <2>1. AsJSON(f) = [type |-> "float64", value |-> v]
    BY <1>1 DEF AsJSON, IsConverted, Numbers
  <2>2. v # "nil" /\ (f.value # "big" => v = f.value)
        /\ (f.value # "big" => ~(f.type = "float64" /\ f.value = "NaN"))
    BY DEF IsConverted
  <2> QED BY <1>1, <2>1, <2>2 DEF IsConverted
<1>2. CASE f.type = "string"
  <2>1. AsJSON(f) = [type |-> "string", value |-> Legible(f.value)]
    BY <1>2 DEF AsJSON, IsConverted, Numbers
  <2>2. Legible(f.value) # "nil" /\ (f.value # "noUTF8" => Legible(f.value) = f.value)
    BY DEF Legible, IsConverted
  <2> QED BY <1>2, <2>1, <2>2 DEF IsConverted
<1>3. CASE f.type = "bool"
  <2>1. AsJSON(f) = f
    BY <1>3 DEF AsJSON, IsConverted, Numbers
  <2> QED BY <1>3, <2>1 DEF IsConverted
<1> QED BY <1>1, <1>2, <1>3 DEF IsConverted

LEMMA JsonsAreConverted ==
  ASSUME NEW fields, AreConverted(fields)
  PROVE  /\ AreConverted(Jsons(fields)) /\ DOMAIN Jsons(fields) = DOMAIN fields
         /\ \A k \in DOMAIN fields :
              /\ Jsons(fields)[k].type = "string" <=> fields[k].type = "string"
              /\ fields[k].value # "noUTF8" /\ (fields[k].value = "big" => fields[k].type = "string")
                   => Jsons(fields)[k].value = fields[k].value
<1>1. \A k \in DOMAIN fields : Jsons(fields)[k] = AsJSON(fields[k])
  BY DEF Jsons
<1>2. DOMAIN Jsons(fields) = DOMAIN fields
      /\ Jsons(fields) = [k \in DOMAIN Jsons(fields) |-> Jsons(fields)[k]]
  BY DEF Jsons
<1>3. \A k \in DOMAIN fields : IsConverted(fields[k])
  BY Zenon DEF AreConverted
<1>4. \A k \in DOMAIN fields :
        /\ IsConverted(AsJSON(fields[k]))
        /\ AsJSON(fields[k]).type = "string" <=> fields[k].type = "string"
        /\ fields[k].value # "noUTF8" /\ (fields[k].value = "big" => fields[k].type = "string")
             => AsJSON(fields[k]).value = fields[k].value
  BY <1>3, JsonIsConverted
<1>5. DOMAIN fields # {} /\ "" \notin DOMAIN fields
  BY Zenon DEF AreConverted
<1>6. AreConverted(Jsons(fields))
  BY <1>1, <1>2, <1>4, <1>5, Zenon DEF AreConverted
<1> QED BY <1>1, <1>2, <1>4, <1>6

(* What the line protocol takes are fields that are taken as they are.     *)
LEMMA LinesAreConverted ==
  ASSUME NEW fields, DOMAIN fields # {}, "" \notin DOMAIN fields,
         \A k \in DOMAIN fields : IsLineValue(fields[k])
  PROVE  AreConverted(Lined(fields))
<1>1. ASSUME NEW k \in DOMAIN fields PROVE IsConverted(Lined(fields)[k])
  <2> DEFINE f == fields[k]
             t == IF f.type = "bytes" THEN "string" ELSE f.type
  <2>1. Lined(fields)[k] = [type |-> t, value |-> f.value]
    BY DEF Lined
  <2>2. IsLineValue(f)
    OBVIOUS
  <2> HIDE DEF f
  <2>3. t \in {"int64", "uint64", "float64", "string", "bool"}
        /\ f.value # "nil" /\ (f.value = "NaN" => t \in {"string", "bool"})
    BY <2>2 DEF IsLineValue
  <2>4. IsConverted([type |-> t, value |-> f.value])
    <3> HIDE DEF t
    <3> QED BY ONLY <2>3 DEF IsConverted
  <2> HIDE DEF t
  <2> QED BY ONLY <2>1, <2>4, Zenon
<1>2. DOMAIN Lined(fields) = DOMAIN fields
      /\ Lined(fields) = [k \in DOMAIN Lined(fields) |-> Lined(fields)[k]]
  BY DEF Lined
<1> HIDE DEF Lined
<1> QED BY <1>1, <1>2, Zenon DEF AreConverted

(* A message that was read back has the kind of the one that was written.  *)
LEMMA KindIsOfFields ==
  ASSUME NEW m, NEW n, DOMAIN m.fields = DOMAIN n.fields,
         \A k \in DOMAIN m.fields : m.fields[k].type = "string" <=> n.fields[k].type = "string"
  PROVE  /\ MessageType(m) = MessageType(n)
         /\ IsMetric(m) <=> IsMetric(n)
         /\ IsEvent(m) <=> IsEvent(n)
BY DEF MessageType, IsMetric, IsEvent, HasStringField, HasField

LEMMA TypeIsOfFields ==
  ASSUME NEW m
  PROVE  /\ IsMetric(m) => MessageType(m) = "metric"
         /\ MessageType(m) # "invalid" => HasField(m, FieldKey[MessageType(m)])
<1>1. /\ FieldKey["metric"] = "value" /\ FieldKey["event"] = "event"
      /\ FieldKey["log"] = "log" /\ FieldKey["control"] = "control"
      /\ FieldKey["query"] = "query"
  BY DEF FieldKey
<1> QED BY <1>1 DEF IsMetric, MessageType

LEMMA NoTagsAreNone == \A k : k \notin DOMAIN NoTags
BY DEF NoTags

LEMMA SingleIs ==
  ASSUME NEW b PROVE <<b>>[1] = b /\ DOMAIN <<b>> = {1} /\ <<b>> = [i \in {1} |-> b]
<1>1. <<b>>[1] = b
  OBVIOUS
<1>2. DOMAIN <<b>> = {1}
  OBVIOUS
<1>3. <<b>> = [i \in 1..1 |-> b]
  OBVIOUS
<1>4. 1..1 = {1}
  OBVIOUS
<1> QED BY <1>1, <1>2, <1>3, <1>4

(* What the line protocol and JSON read back.                              *)
LEMMA LinesAreRead ==
  ASSUME NEW m, m.name # "", m.time # "zero", "" \notin DOMAIN m.tags,
         DOMAIN m.fields # {}, "" \notin DOMAIN m.fields
  PROVE  IsLineRead(m)
<1> SUFFICES ASSUME IsMessage(Bytes(m)) PROVE IsLineRead(m)
  BY DEF IsLineRead
<1> DEFINE n == Message(m.name, m.tags, NoTags, Lined(m.fields), m.time)
           lines == <<Bytes(m)>>
           read == [i \in DOMAIN lines |->
                      NewMessage(lines[i].name, lines[i].tags, NoTags, lines[i].fields,
                                 lines[i].time)]
<1>1. /\ \A k \in DOMAIN m.fields : IsLineValue(m.fields[k])
      /\ Bytes(m) = [name |-> m.name, tags |-> m.tags, fields |-> Lined(m.fields),
                     time |-> m.time]
  BY Zenon DEF Bytes, IsMessage
<1>2. /\ lines[1].name = m.name /\ lines[1].tags = m.tags /\ lines[1].time = m.time
      /\ lines[1].fields = Lined(m.fields) /\ DOMAIN lines = {1}
  <2>1. lines[1] = Bytes(m) /\ DOMAIN lines = {1}
    BY SingleIs, Zenon
  <2>2. /\ Bytes(m).name = m.name /\ Bytes(m).tags = m.tags /\ Bytes(m).time = m.time
        /\ Bytes(m).fields = Lined(m.fields)
    BY ONLY <1>1
  <2> HIDE DEF lines
  <2> QED BY <2>1, <2>2, Zenon
<1>3. NewMessage(m.name, m.tags, NoTags, Lined(m.fields), m.time) = n
      /\ NewMessage(m.name, m.tags, NoTags, Lined(m.fields), m.time) # NoMessage
  <2>1. "" \notin DOMAIN m.tags \cup DOMAIN NoTags
    BY NoTagsAreNone, Zenon
  <2>2. AreConverted(Lined(m.fields))
    BY <1>1, LinesAreConverted, Zenon
  <2> QED BY <2>1, <2>2, ConvertedAreKept, Zenon DEF IsMessage
<1>4. DOMAIN read = {1} /\ read[1] = n /\ read[1] # NoMessage
  <2> HIDE DEF lines, n
  <2> QED BY <1>2, <1>3, Zenon
<1>5. read = <<n>>
  <2>1. read = [i \in {1} |-> read[i]]
    <3> HIDE DEF lines
    <3> QED BY <1>2, Zenon
  <2>2. <<n>> = [i \in {1} |-> n]
    BY SingleIs, Zenon
  <2> HIDE DEF read, n
  <2> QED BY <1>4, <2>1, <2>2, Zenon
<1>6. FromBytes(lines) = IF \E i \in DOMAIN read : read[i] = NoMessage
                         THEN <<NoMessage>> ELSE read
  BY Zenon DEF FromBytes
<1>7. FromBytes(lines) = <<n>>
  <2> HIDE DEF n, lines, read
  <2> QED BY <1>4, <1>5, <1>6, Zenon
<1>8. ~HasNaN(m)
  BY <1>1 DEF HasNaN, IsLineValue
<1>9. IsMessage(ToJSON(m, NoTags).text)
  <2> DEFINE tags == Over(MetaTags(m, DOMAIN NoTags), m.tags)
  <2>1. ToJSON(m, NoTags).text = JSONText(m, tags)
    BY Zenon DEF ToJSON
  <2> HIDE DEF tags
  <2>2. JSONText(m, tags) # NoMessage
    BY <1>8, Zenon DEF JSONText, NoMessage
  <2> QED BY <2>1, <2>2, Zenon DEF IsMessage
<1>10. n = [name |-> m.name, tags |-> m.tags, meta |-> NoTags, time |-> m.time,
            fields |-> Lined(m.fields)]
  BY Zenon DEF Message
<1> HIDE DEF n, read
<1> QED BY <1>7, <1>9, <1>10, Zenon DEF IsLineRead

LEMMA NothingIsOver ==
  ASSUME NEW m, IsMap(m.tags)
  PROVE  Over(MetaTags(m, DOMAIN NoTags), m.tags) = m.tags
<1> DEFINE e == MetaTags(m, DOMAIN NoTags)
<1>1. DOMAIN e = {}
  BY NoTagsAreNone DEF MetaTags
<1> HIDE DEF e
<1>2. Over(e, m.tags) = [k \in DOMAIN m.tags |-> m.tags[k]]
  BY <1>1 DEF Over
<1> QED BY <1>2 DEF IsMap, e

(* Converted fields are never too much for JSON.                           *)
LEMMA NumbersAreFinite ==
  ASSUME NEW m, AreConverted(m.fields) PROVE ~HasNaN(m)
<1>1. \A k \in DOMAIN m.fields : IsConverted(m.fields[k])
  BY Zenon DEF AreConverted
<1> QED BY <1>1 DEF IsConverted, HasNaN

IsReadAs(m, plain) ==
  LET json == ToJSON(m, NoTags).text IN
    FromJSON(json) = plain /\ IsMessage(plain) /\ UnmarshalJSON(json) = plain

LEMMA JsonIsRead ==
  ASSUME NEW m, m.name # "", m.time # "zero", "" \notin DOMAIN m.tags,
         AreConverted(m.fields), IsMap(m.tags)
  PROVE  IsReadAs(m, Message(Legible(m.name), Legibles(m.tags), NoTags, Jsons(m.fields),
                             m.time))
<1> DEFINE json == ToJSON(m, NoTags).text
           name == Legible(m.name)
           tags == Legibles(m.tags)
           fields == Jsons(m.fields)
           plain == Message(name, tags, NoTags, fields, m.time)
<1>2. Over(MetaTags(m, DOMAIN NoTags), m.tags) = m.tags
  BY NothingIsOver, Zenon
<1>3. json = [name |-> name, tags |-> tags, time |-> m.time, fields |-> fields]
  <2>1. json = JSONText(m, Over(MetaTags(m, DOMAIN NoTags), m.tags))
    BY Zenon DEF ToJSON
  <2>2. json = JSONText(m, m.tags)
    <3> HIDE DEF json
    <3> QED BY <1>2, <2>1, Zenon
  <2>3. ~HasNaN(m)
    BY NumbersAreFinite, Zenon
  <2> HIDE DEF json
  <2> QED BY <2>2, <2>3, Zenon DEF JSONText
<1>4. name # "" /\ "" \notin DOMAIN tags \cup DOMAIN NoTags
  BY NoTagsAreNone DEF Legible, Legibles
<1>5. AreConverted(fields)
  BY JsonsAreConverted, Zenon
<1> HIDE DEF json, name, tags, fields
<1>6. /\ json.name = name /\ json.tags = tags /\ json.time = m.time /\ json.fields = fields
  BY <1>3, Zenon
<1>7. UnmarshalJSON(json) = plain
  BY <1>6, Zenon DEF UnmarshalJSON, Message
<1>8. FromJSON(json) = NewMessage(name, tags, NoTags, fields, m.time)
  BY <1>6, Zenon DEF FromJSON
<1>9. NewMessage(name, tags, NoTags, fields, m.time) = plain
      /\ IsMessage(NewMessage(name, tags, NoTags, fields, m.time))
  BY <1>4, <1>5, ConvertedAreKept, Zenon
<1> HIDE DEF plain
<1>10. FromJSON(json) = plain /\ IsMessage(plain)
  BY <1>8, <1>9, Zenon
<1>11. IsReadAs(m, plain)
  BY <1>7, <1>10, Zenon DEF json, IsReadAs
<1> QED BY <1>11, Zenon DEF plain, name, tags, fields

(* JSON has every tag of the line protocol that stands for meta data.      *)
LEMMA JsonHasTagsOfPoint ==
  ASSUME NEW m, NEW keys, NEW k \in DOMAIN m.tags, ~HasNaN(m),
         ToPoint(m, keys).tags[k] # m.tags[k]
  PROVE  ToJSON(m, keys).text.tags[k] = Legible(ToPoint(m, keys).tags[k])
<1> DEFINE p == MetaTags(m, {j \in DOMAIN keys : keys[j]})
           q == MetaTags(m, DOMAIN keys)
           all == Over(q, m.tags)
<1>1. ToPoint(m, keys).tags = Over(p, m.tags)
  BY DEF ToPoint
<1>2. /\ DOMAIN p \subseteq DOMAIN q /\ \A j \in DOMAIN p : p[j] = q[j]
  BY DEF MetaTags
<1>3. ToJSON(m, keys).text.tags = Legibles(all)
  <2>1. ToJSON(m, keys).text = JSONText(m, all)
    BY Zenon DEF ToJSON
  <2> HIDE DEF all
  <2>2. JSONText(m, all).tags = Legibles(all)
    BY Zenon DEF JSONText
  <2> QED BY <2>1, <2>2, Zenon
<1> HIDE DEF p, q
<1>4. /\ Over(p, m.tags)[k] = IF k \in DOMAIN p THEN p[k] ELSE m.tags[k]
      /\ all[k] = IF k \in DOMAIN q THEN q[k] ELSE m.tags[k]
      /\ k \in DOMAIN all
  BY DEF Over
<1>5. Legibles(all)[k] = Legible(all[k])
  <2> HIDE DEF all
  <2> QED BY <1>4 DEF Legibles
<1> HIDE DEF all
<1> QED BY <1>1, <1>2, <1>3, <1>4, <1>5

(* A control message is one, whatever it is about.                         *)
LEMMA ControlsAreRead ==
  ASSUME NEW name, NEW tags, NEW meta, NEW time,
         IsMessage(NewControl("PUT", name, tags, meta, "1", time))
  PROVE  LET c == NewControl("PUT", name, tags, meta, "1", time) IN
           /\ IsControl(c) /\ MessageType(c) = "control" /\ IsLineRead(c)
<1> DEFINE fields == [control |-> [type |-> "string", value |-> "1"]]
           m == NewMessage(name, tags, meta, fields, time)
           after == Assign(tags, "method", "PUT")
           c == NewControl("PUT", name, tags, meta, "1", time)
<1>1. c = IF m = NoMessage THEN m ELSE [m EXCEPT !.tags = Assign(@, "method", "PUT")]
  BY Zenon DEF NewControl
<1>2. IsMessage(m)
  <2> HIDE DEF m
  <2> QED BY <1>1 DEF IsMessage
<1>a. AreValues(fields) /\ DOMAIN fields = {"control"}
      /\ ConvertField(fields["control"]) = "string"
  BY DEF AreValues, ConvertField, Target
<1> HIDE DEF fields
<1>3. IsMadeOf(m, name, tags, meta, fields, time)
  BY <1>2, <1>a, NewMessageConverts
<1> DEFINE kept == m.fields
<1> HIDE DEF m
<1>4. c.name = name /\ c.time = time /\ c.tags = after /\ c.fields = kept
  <2>1. c = [Message(name, tags, meta, kept, time) EXCEPT !.tags = Assign(@, "method", "PUT")]
    BY <1>1, <1>2, <1>3, Zenon DEF IsMessage, IsMadeOf
  <2> DEFINE e == [Message(name, tags, meta, kept, time)
                     EXCEPT !.tags = Assign(@, "method", "PUT")]
  <2> HIDE DEF kept, c
  <2>2. e.name = name /\ e.time = time /\ e.tags = after /\ e.fields = kept
    BY DEF Message
  <2> HIDE DEF e, after
  <2> QED BY <2>1, <2>2 DEF e
<1>5. DOMAIN kept = {"control"} /\ kept["control"].type = "string"
  <2>1. DOMAIN kept # {}
    BY <1>3, Zenon DEF IsMadeOf, AreConverted
  <2> QED BY <1>3, <1>a, <2>1, Zenon DEF IsMadeOf
<1>6. "" \notin DOMAIN after /\ "method" \in DOMAIN after /\ after["method"] = "PUT"
  BY <1>3, Zenon DEF Assign, IsMadeOf
<1>7. name # "" /\ time # "zero"
  BY <1>3, Zenon DEF IsMadeOf
<1> HIDE DEF c, after, kept
<1>8. IsControl(c) /\ MessageType(c) = "control"
  BY <1>4, <1>5, <1>6, Zenon DEF IsControl, MessageType, HasStringField, HasField
<1>9. IsLineRead(c)
  <2>1. DOMAIN c.fields # {} /\ "" \notin DOMAIN c.fields
    BY <1>4, <1>5
  <2> QED BY <1>4, <1>6, <1>7, <2>1, LinesAreRead, Zenon
<1> QED BY <1>8, <1>9 DEF c

(* What the invariant says of one accepted message.                        *)
LEMMA AcceptedSurvives ==
  ASSUME NEW m, NEW keys, m.name # "", m.time # "zero", "" \notin DOMAIN m.tags,
         AreConverted(m.fields), IsMap(m.tags)
  PROVE  IsReadBack(m, keys)
<1> DEFINE kept == m.fields
           json == ToJSON(m, NoTags).text
           plain == FromJSON(json)
<1>1. ~HasNaN(m)
  BY NumbersAreFinite, Zenon
<1>2. /\ plain = Message(Legible(m.name), Legibles(m.tags), NoTags, Jsons(kept), m.time)
      /\ IsMessage(plain) /\ UnmarshalJSON(json) = plain
  <2> DEFINE b == Message(Legible(m.name), Legibles(m.tags), NoTags, Jsons(kept), m.time)
  <2>1. IsReadAs(m, b)
    BY JsonIsRead, Zenon
  <2> HIDE DEF b
  <2>2. plain = b /\ IsMessage(plain) /\ UnmarshalJSON(json) = plain
    BY <2>1 DEF IsReadAs
  <2> QED BY <2>2 DEF b
<1>3. IsMessage(ToJSON(m, keys).text)
  <2> DEFINE tags == Over(MetaTags(m, DOMAIN keys), m.tags)
  <2>1. ToJSON(m, keys).text = JSONText(m, tags)
    BY Zenon DEF ToJSON
  <2> HIDE DEF tags
  <2>2. JSONText(m, tags) # NoMessage
    BY <1>1, Zenon DEF JSONText, NoMessage
  <2> QED BY <2>1, <2>2, Zenon DEF IsMessage
<1>4. ASSUME m.name \notin Unwritable, \A k \in DOMAIN m.tags : m.tags[k] \notin Unwritable,
             \A k \in DOMAIN m.fields : m.fields[k].type = "string"
                                          => m.fields[k].value # "noUTF8"
      PROVE  IsMessage(Bytes(m))
  <2>1. \A k \in DOMAIN m.fields : IsConverted(m.fields[k])
    BY Zenon DEF AreConverted
  <2>2. \A k \in DOMAIN m.fields : IsLineValue(m.fields[k])
    BY <1>4, <2>1 DEF IsConverted, IsLineValue
  <2>3. Bytes(m) = [name |-> m.name, tags |-> m.tags, fields |-> Lined(m.fields),
                    time |-> m.time]
    BY <1>4, <2>2, Zenon DEF Bytes
  <2>4. Bytes(m).name = m.name /\ NoMessage.name = ""
    BY ONLY <2>3 DEF NoMessage
  <2> QED BY <2>4, Zenon DEF IsMessage
<1> HIDE DEF plain, json
<1>5. plain.tags = Legibles(m.tags) /\ plain.fields = Jsons(kept)
  <2> DEFINE b == Message(Legible(m.name), Legibles(m.tags), NoTags, Jsons(kept), m.time)
  <2>1. b.tags = Legibles(m.tags) /\ b.fields = Jsons(kept)
    BY Zenon DEF Message
  <2>2. plain = b
    BY <1>2, Zenon
  <2> HIDE DEF b
  <2> QED BY <2>1, <2>2, Zenon
<1>7. /\ DOMAIN Jsons(kept) = DOMAIN kept
      /\ \A k \in DOMAIN kept :
           /\ Jsons(kept)[k].type = "string" <=> kept[k].type = "string"
           /\ kept[k].value # "noUTF8" /\ (kept[k].value = "big" => kept[k].type = "string")
                => Jsons(kept)[k].value = kept[k].value
  BY JsonsAreConverted, Zenon
<1>8. /\ MessageType(plain) = MessageType(m)
      /\ IsMetric(plain) <=> IsMetric(m)
      /\ IsEvent(plain) <=> IsEvent(m)
  BY <1>5, <1>7, KindIsOfFields
<1>9. \A k \in DOMAIN m.fields :
        m.fields[k].value \notin {"big", "noUTF8"}
          => plain.fields[k].value = m.fields[k].value
  BY <1>5, <1>7
<1>10. \A k \in DOMAIN m.tags :
         ToPoint(m, keys).tags[k] # m.tags[k]
           => ToJSON(m, keys).text.tags[k] = Legible(ToPoint(m, keys).tags[k])
  BY <1>1, JsonHasTagsOfPoint
<1>11. /\ IsMetric(m) => MessageType(m) = "metric"
       /\ MessageType(m) # "invalid" => HasField(m, FieldKey[MessageType(m)])
  BY TypeIsOfFields
<1>12. IsEvent(m) /\ GetJob(m) # "noUTF8" => GetJob(plain) = GetJob(m)
  <2>1. IsEvent(m) => kept["event"].type = "string" /\ "event" \in DOMAIN kept
    BY DEF IsEvent, HasStringField, HasField
  <2>2. IsEvent(m) => GetJob(m) = m.fields["event"].value
    BY DEF GetJob
  <2>3. IsEvent(m) /\ GetJob(m) # "noUTF8"
          => plain.fields["event"].value = m.fields["event"].value
    BY <1>5, <1>7, <2>1, <2>2
  <2> QED BY <1>8, <2>2, <2>3 DEF GetJob
<1>13. IsJobEvent(m) => IsEvent(m)
  BY DEF IsJobEvent
<1> QED BY ONLY <1>2, <1>3, <1>4, <1>5, <1>8, <1>9, <1>10, <1>11, <1>12, <1>13, Zenon
     DEF plain, json, IsReadBack

LEMMA EventsHaveJob ==
  ASSUME NEW name, name # "" PROVE GetJob(NewJobEvent(name, "job")) = "job"
<1> DEFINE fields == [event |-> [type |-> "string", value |-> "job"]]
<1>1. fields = [k \in DOMAIN fields |-> fields[k]] /\ DOMAIN fields = {"event"}
      /\ fields["event"] = [type |-> "string", value |-> "job"]
  BY Zenon
<1>7. fields["event"].type = "string" /\ fields["event"].value = "job"
  BY Zenon
<1>2. NewJobEvent(name, "job") = NewMessage(name, NoTags, NoTags, fields, "start")
  BY Zenon DEF NewJobEvent
<1> HIDE DEF fields
<1>3. IsConverted(fields["event"])
  <2> DEFINE f == fields["event"]
  <2>1. f.type = "string" /\ f.value = "job"
    BY <1>7, Zenon
  <2>2. f = [type |-> f.type, value |-> f.value]
    BY <1>1, Zenon
  <2> HIDE DEF f
  <2> QED BY <2>1, <2>2, Zenon DEF IsConverted, f
<1>4. AreConverted(fields)
  BY <1>1, <1>3, Zenon DEF AreConverted
<1>5. NewMessage(name, NoTags, NoTags, fields, "start") =
        Message(name, NoTags, NoTags, fields, "start")
  BY <1>4, NoTagsAreNone, ConvertedAreKept, Zenon
<1>6. NewJobEvent(name, "job").fields = fields
  <2>1. Message(name, NoTags, NoTags, fields, "start").fields = fields
    BY Zenon DEF Message
  <2> QED BY <1>2, <1>5, <2>1, Zenon
<1> QED BY <1>1, <1>6, <1>7, Zenon DEF GetJob, IsEvent, HasStringField, HasField

(* The input: its tags are a map, no integer is not a number, and what is  *)
(* added has a key.                                                        *)
MessageInv ==
  Is("message") => /\ IsMap(st.tags) /\ AreValues(st.fields)
                   /\ st.added # <<>> => st.added[1] # ""

LEMMA AnyMessageSurvives ==
  ASSUME MessageInv PROVE MessagesSurvive
<1> SUFFICES ASSUME Is("message") PROVE MessagesSurvive
  BY DEF MessagesSurvive
<1> DEFINE m == NewMessage(st.name, st.tags, st.meta, st.fields, st.time)
           more == IF st.added = <<>> THEN m ELSE AddField(m, st.added[1], st.added[2])
           control == NewControl("PUT", st.name, st.tags, st.meta, "1", st.time)
<1>1. ASSUME IsMessage(m)
      PROVE  IsReadBack(m, st.metaAsTags) /\ IsLineRead(more)
  <2>1. IsMadeOf(m, st.name, st.tags, st.meta, st.fields, st.time)
    BY <1>1, NewMessageConverts DEF MessageInv
  <2> HIDE DEF m
  <2>2. /\ m = Message(st.name, st.tags, st.meta, m.fields, st.time)
        /\ st.name # "" /\ st.time # "zero" /\ "" \notin DOMAIN st.tags
        /\ AreConverted(m.fields)
    BY <2>1, Zenon DEF IsMadeOf
  <2>3. m.name = st.name /\ m.tags = st.tags /\ m.time = st.time
    <3> DEFINE a == Message(st.name, st.tags, st.meta, m.fields, st.time)
    <3>1. a.name = st.name /\ a.tags = st.tags /\ a.time = st.time
      BY Zenon DEF Message
    <3>2. m = a
      BY <2>2, Zenon
    <3> HIDE DEF a
    <3> QED BY <3>1, <3>2, Zenon
  <2>4. IsReadBack(m, st.metaAsTags)
    BY <2>2, <2>3, AcceptedSurvives, Zenon DEF MessageInv
  <2>5. DOMAIN m.fields # {} /\ "" \notin DOMAIN m.fields
    BY <2>2, Zenon DEF AreConverted
  <2>6. CASE st.added = <<>>
    <3>1. more = m
      BY <2>6, Zenon
    <3>2. IsLineRead(m)
      BY <2>2, <2>3, <2>5, LinesAreRead, Zenon
    <3> QED BY <2>4, <3>1, <3>2, Zenon
  <2>7. CASE st.added # <<>>
    <3> DEFINE key == st.added[1]
               with == AddField(m, key, st.added[2])
    <3>1. with.name = m.name /\ with.tags = m.tags /\ with.time = m.time
          /\ with.fields = Assign(m.fields, key, st.added[2])
      <4> DEFINE a == Message(st.name, st.tags, st.meta, m.fields, st.time)
                 new == Assign(m.fields, key, st.added[2])
                 e == [a EXCEPT !.fields = Assign(@, key, st.added[2])]
      <4>1. a.name = st.name /\ a.tags = st.tags /\ a.time = st.time
            /\ a.fields = m.fields
            /\ DOMAIN a = {"name", "tags", "meta", "time", "fields"}
        BY Zenon DEF Message
      <4>2. m = a
        BY <2>2, Zenon
      <4> HIDE DEF a
      <4>3. with = e
        BY <4>2 DEF AddField
      <4> HIDE DEF with, key
      <4>4. e.name = a.name /\ e.tags = a.tags /\ e.time = a.time /\ e.fields = new
        BY <4>1
      <4> HIDE DEF e, new
      <4> QED BY <2>3, <4>1, <4>3, <4>4 DEF new
    <3>2. DOMAIN with.fields = DOMAIN m.fields \cup {key}
      <4> HIDE DEF with, key
      <4> QED BY <3>1, Zenon DEF Assign
    <3>3. key # ""
      BY <2>7, Zenon DEF MessageInv
    <3>4. DOMAIN with.fields # {} /\ "" \notin DOMAIN with.fields
      <4> HIDE DEF with, key
      <4> QED BY <2>5, <3>2, <3>3, Zenon
    <3>5. more = with
      BY <2>7, Zenon
    <3> HIDE DEF more, with, key
    <3>6. IsLineRead(with)
      BY <2>2, <2>3, <3>1, <3>4, LinesAreRead, Zenon
    <3> QED BY <2>4, <3>5, <3>6, Zenon
  <2> HIDE DEF more
  <2> QED BY <2>6, <2>7, Zenon
<1>2. IsMessage(control) =>
        /\ IsControl(control) /\ MessageType(control) = "control" /\ IsLineRead(control)
  BY ControlsAreRead, Zenon
<1>3. GetJob(NewJobEvent("stop_job", "job")) = "job"
  BY EventsHaveJob, Zenon
<1>4. ToJSON(more, st.metaAsTags).after = more
  <2> HIDE DEF more
  <2> QED BY Zenon DEF ToJSON
<1> HIDE DEF m, control
<1> QED BY <1>1, <1>2, <1>3, <1>4, Zenon DEF MessagesSurvive, m, control

-----------------------------------------------------------------------------
(* What is pushed to the receivers.                                        *)
(* What a loop over a sequence keeps, place by place. *)
AppendNth(c, out, i) == IF c.s[i] \in c.S THEN Append(out, c.s[i]) ELSE out
SomeOfElements(c, T, out) == \A X : c.s \in Seq(X) => out \in Seq(X)
Filter == INSTANCE Folding WITH Op <- AppendNth, Choose <- Max, Keeps <- SomeOfElements

LEMMA LastPlace ==
  ASSUME NEW n \in Nat, NEW T \in SUBSET (1..n), T # {} PROVE Max(T) \in T
BY Filter!MaxIsElement DEF Max, Filter!Max

LEMMA PlacesAreFinite ==
  ASSUME NEW n \in Nat PROVE Filter!IsFiniteSet(1..n)
<1>1. IsFiniteSet(1..n)
  BY FS_Interval
<1> QED BY <1>1, Zenon DEF IsFiniteSet, Filter!IsFiniteSet

LEMMA OnlyIsFold ==
  ASSUME NEW c PROVE Only(c.s, c.S) = Filter!Folded(c, <<>>, DOMAIN c.s)
BY Zenon DEF AppendNth, Only, FoldLeft, Filter!Folded, MapThenFoldSet, Filter!MapThenFoldSet

(* One more line of a beginning is appended or not.                        *)
LEMMA OnlyOfNext ==
  ASSUME NEW X, NEW s \in Seq(X), NEW S, NEW k \in Nat, k < Len(s)
  PROVE  Only(SubSeq(s, 1, k + 1), S) =
           IF s[k + 1] \in S THEN Append(Only(SubSeq(s, 1, k), S), s[k + 1])
                             ELSE Only(SubSeq(s, 1, k), S)
<1> DEFINE c == [s |-> SubSeq(s, 1, k), S |-> S]
           d == [s |-> SubSeq(s, 1, k + 1), S |-> S]
           T == 1..k + 1
<1>1. /\ c.s = SubSeq(s, 1, k) /\ c.S = S /\ d.s = SubSeq(s, 1, k + 1) /\ d.S = S
  OBVIOUS
<1> HIDE DEF c, d
<1>2. /\ DOMAIN c.s = 1..k /\ DOMAIN d.s = T
      /\ \A i \in 1..k : c.s[i] = d.s[i]
      /\ d.s[k + 1] = s[k + 1]
  <2>1. /\ SubSeq(s, 1, k) \in Seq(X) /\ Len(SubSeq(s, 1, k)) = k
        /\ \A i \in 1..k : SubSeq(s, 1, k)[i] = s[i]
    BY SubSeqProperties
  <2>2. /\ SubSeq(s, 1, k + 1) \in Seq(X) /\ Len(SubSeq(s, 1, k + 1)) = k + 1
        /\ \A i \in 1..k + 1 : SubSeq(s, 1, k + 1)[i] = s[i]
    BY SubSeqProperties
  <2> QED BY <1>1, <2>1, <2>2
<1>0. k + 1 \in Nat /\ k + 1 \in T
  OBVIOUS
<1>3. Filter!IsFiniteSet(T) /\ T # {}
  BY <1>0, PlacesAreFinite
<1>4. \A U \in SUBSET T : U # {} => Max(U) \in U
  BY <1>0, LastPlace
<1>5. Max(T) = k + 1
  BY DEF Max
<1>6. T \ {Max(T)} = 1..k
  BY <1>5
<1>7. \A U \in SUBSET (T \ {Max(T)}) :
        U # {} => \A a : AppendNth(c, a, Max(U)) = AppendNth(d, a, Max(U))
  <2> SUFFICES ASSUME NEW U \in SUBSET (1..k), U # {}, NEW a
               PROVE  AppendNth(c, a, Max(U)) = AppendNth(d, a, Max(U))
    BY <1>6
  <2>1. Max(U) \in 1..k
    BY LastPlace
  <2> QED BY <1>1, <1>2, <2>1 DEF AppendNth
<1> HIDE DEF T
<1>8. Filter!Folded(d, <<>>, T) = AppendNth(d, Filter!Folded(c, <<>>, T \ {Max(T)}), Max(T))
  BY ONLY <1>3, <1>4, <1>7, Filter!FoldSplits
<1>9. /\ Only(SubSeq(s, 1, k), S) = Filter!Folded(c, <<>>, 1..k)
      /\ Only(SubSeq(s, 1, k + 1), S) = Filter!Folded(d, <<>>, T)
  BY <1>1, <1>2, OnlyIsFold
<1> QED BY <1>1, <1>2, <1>5, <1>6, <1>8, <1>9 DEF AppendNth

LEMMA OnlyOfNone ==
  ASSUME NEW X, NEW s \in Seq(X), NEW S PROVE Only(SubSeq(s, 1, 0), S) = <<>>
<1> DEFINE c == [s |-> SubSeq(s, 1, 0), S |-> S]
<1>1. c.s = SubSeq(s, 1, 0) /\ c.S = S
  OBVIOUS
<1> HIDE DEF c
<1>2. DOMAIN c.s = {}
  <2>1. SubSeq(s, 1, 0) = <<>>
    BY SubSeqEmpty
  <2> QED BY <1>1, <2>1
<1>3. Filter!Folded(c, <<>>, {}) = <<>>
  BY Filter!EmptyFold
<1> QED BY <1>1, <1>2, <1>3, OnlyIsFold

(* What is appended are elements, and what was appended stays.             *)
LEMMA OnlyGrows ==
  ASSUME NEW X, NEW s \in Seq(X), NEW S, NEW k \in 0..Len(s), NEW n \in k..Len(s)
  PROVE  /\ Only(SubSeq(s, 1, n), S) \in Seq(X)
         /\ IsPrefix(Only(SubSeq(s, 1, k), S), Only(SubSeq(s, 1, n), S))
<1> DEFINE Out(i) == Only(SubSeq(s, 1, i), S)
           Typed == {i \in Nat : i <= Len(s) => Out(i) \in Seq(X)}
           Longer == {i \in Nat : k + i <= Len(s) => IsPrefix(Out(k), Out(k + i))}
<1>1. Out(0) \in Seq(X)
  <2>1. Out(0) = <<>>
    BY OnlyOfNone
  <2> HIDE DEF Out
  <2> QED BY <2>1, EmptySeq
<1>2. ASSUME NEW i \in Nat, i < Len(s)
      PROVE  Out(i + 1) = IF s[i + 1] \in S THEN Append(Out(i), s[i + 1]) ELSE Out(i)
  BY <1>2, OnlyOfNext
<1> HIDE DEF Out
<1>3. Nat \subseteq Typed
  <2>1. 0 \in Typed
    BY <1>1
  <2>2. ASSUME NEW i \in Nat, i \in Typed PROVE i + 1 \in Typed
    <3> SUFFICES ASSUME i < Len(s) PROVE Out(i + 1) \in Seq(X)
      OBVIOUS
    <3>1. Out(i) \in Seq(X) /\ s[i + 1] \in X
      BY <2>2
    <3>2. Append(Out(i), s[i + 1]) \in Seq(X)
      BY <3>1, AppendProperties
    <3>3. Out(i + 1) = IF s[i + 1] \in S THEN Append(Out(i), s[i + 1]) ELSE Out(i)
      BY <1>2
    <3> QED BY <3>1, <3>2, <3>3
  <2> HIDE DEF Typed
  <2> QED BY <2>1, <2>2, Filter!NumbersInduction
<1>4. ASSUME NEW i \in 0..Len(s) PROVE Out(i) \in Seq(X)
  BY <1>3
<1>5. Nat \subseteq Longer
  <2>1. 0 \in Longer
    <3>1. k + 0 = k /\ Out(k) \in Seq(X)
      BY <1>4
    <3>2. IsPrefix(Out(k), Out(k))
      BY <3>1 DEF IsPrefix
    <3> QED BY <3>1, <3>2
  <2>2. ASSUME NEW i \in Nat, i \in Longer PROVE i + 1 \in Longer
    <3> SUFFICES ASSUME k + i < Len(s) PROVE IsPrefix(Out(k), Out(k + (i + 1)))
      OBVIOUS
    <3> DEFINE j == k + i
    <3>1. j \in Nat /\ j < Len(s) /\ k + (i + 1) = j + 1 /\ j \in 0..Len(s)
      OBVIOUS
    <3>2. IsPrefix(Out(k), Out(j))
      BY <2>2
    <3> HIDE DEF j
    <3>3. Out(k) \in Seq(X) /\ Out(j) \in Seq(X)
      BY <1>4, <3>1
    <3>4. Out(j + 1) = IF s[j + 1] \in S THEN Append(Out(j), s[j + 1]) ELSE Out(j)
      BY <1>2, <3>1
    <3>5. ASSUME NEW x PROVE IsPrefix(Out(k), Append(Out(j), x))
      BY <3>2, <3>3 DEF IsPrefix
    <3> QED BY <3>1, <3>2, <3>4, <3>5
  <2> HIDE DEF Longer
  <2> QED BY <2>1, <2>2, Filter!NumbersInduction
<1>6. n - k \in Nat /\ k + (n - k) = n /\ n <= Len(s) /\ n \in 0..Len(s)
  OBVIOUS
<1>7. IsPrefix(Out(k), Out(n))
  <2>1. n - k \in Longer
    <3> HIDE DEF Longer
    <3> QED BY <1>5, <1>6
  <2> QED BY <1>6, <2>1
<1> QED BY <1>4, <1>6, <1>7 DEF Out

(* Some of n places: not more than n, and n only if they are all.          *)
LEMMA PartsAreCounted ==
  ASSUME NEW n \in Nat, NEW S \in SUBSET (1..n)
  PROVE  /\ IsFiniteSet(S) /\ Cardinality(S) \in Nat /\ Cardinality(S) <= n
         /\ \A T \in SUBSET S : Cardinality(T) <= Cardinality(S)
         /\ Cardinality((1..n) \ S) = n - Cardinality(S)
         /\ Cardinality(S) = n => S = 1..n
<1>1. IsFiniteSet(1..n) /\ Cardinality(1..n) = n
  BY FS_Interval
<1>2. IsFiniteSet(S) /\ Cardinality(S) \in Nat /\ Cardinality(S) <= n
  BY <1>1, FS_Subset, FS_CardinalityType
<1>3. \A T \in SUBSET S : Cardinality(T) <= Cardinality(S)
  BY <1>2, FS_Subset
<1>4. (1..n) \cap S = S
  OBVIOUS
<1>5. Cardinality((1..n) \ S) = n - Cardinality(S)
  BY <1>1, <1>4, FS_Difference, ZenonT(30)
<1>6. Cardinality(S) = n => S = 1..n
  BY <1>1, FS_Subset
<1> QED BY <1>2, <1>3, <1>5, <1>6

(* A loop that appends those of S has appended nothing else, and as many   *)
(* as there are places of them; if all are of S, it has copied the list.   *)
LEMMA OnlyIsCounted ==
  ASSUME NEW X, NEW s \in Seq(X), NEW S
  PROVE  /\ Only(s, S) \in Seq(X \cap S)
         /\ Len(Only(s, S)) = Cardinality({j \in 1..Len(s) : s[j] \in S})
<1> DEFINE Out(i) == Only(SubSeq(s, 1, i), S)
           Taken(i) == {j \in 1..i : s[j] \in S}
           Good == {i \in Nat : i <= Len(s) => /\ Out(i) \in Seq(X \cap S)
                                               /\ Len(Out(i)) = Cardinality(Taken(i))}
<1>1. 0 \in Good
  <2>1. Out(0) = <<>>
    BY OnlyOfNone
  <2>2. Taken(0) = {}
    OBVIOUS
  <2> HIDE DEF Out, Taken
  <2>3. Out(0) \in Seq(X \cap S) /\ Len(Out(0)) = 0 /\ Cardinality(Taken(0)) = 0
    BY <2>1, <2>2, FS_EmptySet, EmptySeq
  <2> QED BY <2>3
<1>2. ASSUME NEW i \in Nat, i \in Good PROVE i + 1 \in Good
  <2> SUFFICES ASSUME i < Len(s)
               PROVE  /\ Out(i + 1) \in Seq(X \cap S)
                      /\ Len(Out(i + 1)) = Cardinality(Taken(i + 1))
    OBVIOUS
  <2>1. Out(i) \in Seq(X \cap S) /\ Len(Out(i)) = Cardinality(Taken(i))
    BY <1>2
  <2>2. Out(i + 1) = IF s[i + 1] \in S THEN Append(Out(i), s[i + 1]) ELSE Out(i)
    BY OnlyOfNext
  <2>3. Taken(i + 1) = IF s[i + 1] \in S THEN Taken(i) \cup {i + 1} ELSE Taken(i)
    OBVIOUS
  <2>4. Taken(i) \in SUBSET (1..i) /\ i + 1 \notin Taken(i)
    OBVIOUS
  <2> HIDE DEF Taken, Out
  <2>5. IsFiniteSet(Taken(i)) /\ Cardinality(Taken(i)) \in Nat
    BY <2>4, PartsAreCounted
  <2>6. CASE s[i + 1] \in S
    <3>1. s[i + 1] \in X \cap S
      BY <2>6
    <3>2. Append(Out(i), s[i + 1]) \in Seq(X \cap S)
          /\ Len(Append(Out(i), s[i + 1])) = Len(Out(i)) + 1
      BY <2>1, <3>1, AppendProperties
    <3>3. Cardinality(Taken(i) \cup {i + 1}) = Cardinality(Taken(i)) + 1
      BY <2>4, <2>5, FS_AddElement
    <3> QED BY <2>1, <2>2, <2>3, <2>6, <3>2, <3>3
  <2>7. CASE s[i + 1] \notin S
    BY <2>1, <2>2, <2>3, <2>7
  <2> QED BY <2>6, <2>7
<1>3. Nat \subseteq Good
  <2> HIDE DEF Good
  <2> QED BY <1>1, <1>2, Filter!NumbersInduction
<1>4. Len(s) \in Nat /\ Len(s) <= Len(s) /\ SubSeq(s, 1, Len(s)) = s
  BY SubSeqFull
<1>5. Out(Len(s)) \in Seq(X \cap S) /\ Len(Out(Len(s))) = Cardinality(Taken(Len(s)))
  <2> HIDE DEF Out, Taken
  <2> QED BY <1>3, <1>4
<1>6. Only(s, S) \in Seq(X \cap S) /\ Len(Only(s, S)) = Cardinality(Taken(Len(s)))
  BY <1>4, <1>5
<1> QED BY <1>6

LEMMA OnlyOfAll ==
  ASSUME NEW X, NEW s \in Seq(X), NEW S, \A j \in 1..Len(s) : s[j] \in S
  PROVE  Only(s, S) = s
<1> DEFINE Out(i) == Only(SubSeq(s, 1, i), S)
           Good == {i \in Nat : i <= Len(s) => Out(i) = SubSeq(s, 1, i)}
<1>1. 0 \in Good
  <2>1. Out(0) = <<>> /\ SubSeq(s, 1, 0) = <<>>
    BY OnlyOfNone, SubSeqEmpty
  <2> HIDE DEF Out
  <2> QED BY <2>1
<1>2. ASSUME NEW i \in Nat, i \in Good PROVE i + 1 \in Good
  <2> SUFFICES ASSUME i < Len(s) PROVE Out(i + 1) = SubSeq(s, 1, i + 1)
    OBVIOUS
  <2>1. Out(i) = SubSeq(s, 1, i)
    BY <1>2
  <2>2. Out(i + 1) = IF s[i + 1] \in S THEN Append(Out(i), s[i + 1]) ELSE Out(i)
    BY OnlyOfNext
  <2>3. s[i + 1] \in S
    OBVIOUS
  <2>4. Append(SubSeq(s, 1, i), s[i + 1]) = SubSeq(s, 1, i + 1)
    OBVIOUS
  <2> HIDE DEF Out
  <2> QED BY <2>1, <2>2, <2>3, <2>4
<1>3. Nat \subseteq Good
  <2> HIDE DEF Good
  <2> QED BY <1>1, <1>2, Filter!NumbersInduction
<1>4. Len(s) \in Nat /\ Len(s) <= Len(s) /\ SubSeq(s, 1, Len(s)) = s
  BY SubSeqFull
<1>5. Out(Len(s)) = SubSeq(s, 1, Len(s))
  <2> HIDE DEF Out
  <2> QED BY <1>3, <1>4
<1> QED BY <1>4, <1>5
-----------------------------------------------------------------------------
(* The loop that reads lines ends before the first that ends it.           *)
StopsAt(lines, ends, k) ==
  /\ k \in 0..Len(lines) /\ Upto(lines, ends).lines = SubSeq(lines, 1, k)
  /\ \A i \in 1..k : lines[i] \notin ends
  /\ k = Len(lines) => Upto(lines, ends).end = "done"
  /\ k < Len(lines) => /\ Upto(lines, ends).end = lines[k + 1]
                       /\ lines[k + 1] \in ends

LEMMA UptoStops ==
  ASSUME NEW X, NEW lines \in Seq(X), NEW ends
  PROVE  \E k : StopsAt(lines, ends, k)
<1> DEFINE I == {i \in 1..Len(lines) : lines[i] \in ends}
           n == SelectInSeq(lines, LAMBDA l : l \in ends)
<1>1. n = IF I = {} THEN 0 ELSE Min(I)
  BY Zenon DEF SelectInSeq
<1>2. Upto(lines, ends) =
        IF n = 0 THEN [lines |-> lines, end |-> "done"]
        ELSE [lines |-> SubSeq(lines, 1, n - 1), end |-> lines[n]]
  BY Zenon DEF Upto
<1> HIDE DEF n
<1>3. CASE I = {}
  <2>1. /\ Upto(lines, ends).lines = lines /\ Upto(lines, ends).end = "done"
    BY <1>1, <1>2, <1>3
  <2>2. SubSeq(lines, 1, Len(lines)) = lines
    BY SubSeqFull
  <2>3. StopsAt(lines, ends, Len(lines))
    BY <1>3, <2>1, <2>2 DEF StopsAt
  <2> QED BY <2>3
<1>4. CASE I # {}
  <2>1. n \in I /\ \A i \in I : n <= i
    <3>1. Min(I) \in I /\ \A i \in I : Min(I) <= i
      <4>1. I \subseteq Nat
        OBVIOUS
      <4> HIDE DEF I
      <4>2. \E i \in I : \A j \in I : i <= j
        <5> DEFINE R == {ss \in Nat \X Nat : ss[1] < ss[2]}
        <5>1. IsWellFoundedOn(R, Nat)
          BY NatLessThanWellFounded DEF OpToRel
        <5>2. PICK i \in I : \A j \in I : ~(<<j, i>> \in R)
          <6> HIDE DEF R
          <6> QED BY <1>4, <4>1, <5>1, WFMin
        <5>3. ASSUME NEW j \in I PROVE i <= j
          <6>1. i \in Nat /\ j \in Nat
            BY <4>1
          <6>2. j < i => <<j, i>> \in R
            BY <6>1
          <6>3. ~(<<j, i>> \in R)
            BY <5>2
          <6> HIDE DEF R
          <6> QED BY <6>1, <6>2, <6>3
        <5> QED BY <5>3
      <4> QED BY <4>2 DEF Min
    <3> QED BY <1>1, <1>4, <3>1
  <2>2. n \in 1..Len(lines) /\ lines[n] \in ends
    BY <2>1
  <2>3. /\ Upto(lines, ends).lines = SubSeq(lines, 1, n - 1)
        /\ Upto(lines, ends).end = lines[n]
    BY <1>2, <2>2
  <2>4. \A i \in 1..n - 1 : lines[i] \notin ends
    BY <2>1, <2>2
  <2>5. StopsAt(lines, ends, n - 1)
    <3>1. n - 1 \in 0..Len(lines) /\ n - 1 # Len(lines) /\ (n - 1) + 1 = n
      BY <2>2
    <3> HIDE DEF I
    <3> QED BY <2>2, <2>3, <2>4, <3>1 DEF StopsAt
  <2> QED BY <2>5
<1> QED BY <1>3, <1>4

(* What the loop has read before it stops, and that it read all of the     *)
(* lines if it was not one of them that ended it.                          *)
LEMMA ReadIsBeginning ==
  ASSUME NEW X, "done" \notin X, NEW lines \in Seq(X), NEW ends, NEW S
  PROVE  /\ Only(lines, S) \in Seq(X) /\ Only(Upto(lines, ends).lines, S) \in Seq(X)
         /\ IsPrefix(Only(Upto(lines, ends).lines, S), Only(lines, S))
         /\ Upto(lines, ends).end = "done" => Upto(lines, ends).lines = lines
<1> DEFINE read == Upto(lines, ends)
<1>1. PICK k : StopsAt(lines, ends, k)
  BY UptoStops, Zenon
<1>2. read.lines = SubSeq(lines, 1, k) /\ k \in 0..Len(lines)
  BY <1>1, SMTT(20) DEF StopsAt
<1>3. SubSeq(lines, 1, Len(lines)) = lines
  BY SubSeqFull
<1>4. k < Len(lines) => read.end \in X
  BY <1>1 DEF StopsAt
<1>5. Len(lines) \in k..Len(lines) /\ k \in k..Len(lines) /\ Len(lines) \in Nat
  BY <1>2
<1>6. read.end = "done" => read.lines = lines
  <2> HIDE DEF read
  <2>1. read.end = "done" => k = Len(lines)
    BY <1>2, <1>4, <1>5
  <2> QED BY <1>2, <1>3, <2>1, Zenon
<1>7. /\ Only(SubSeq(lines, 1, k), S) \in Seq(X)
      /\ Only(SubSeq(lines, 1, Len(lines)), S) \in Seq(X)
      /\ IsPrefix(Only(SubSeq(lines, 1, k), S), Only(SubSeq(lines, 1, Len(lines)), S))
  BY <1>2, <1>5, OnlyGrows
<1> HIDE DEF read
<1>8. /\ Only(lines, S) \in Seq(X) /\ Only(read.lines, S) \in Seq(X)
      /\ IsPrefix(Only(read.lines, S), Only(lines, S))
  BY ONLY <1>2, <1>3, <1>7, Zenon
<1> QED BY ONLY <1>6, <1>8, Zenon DEF read

(* What was read before the loop stops is the beginning of what is read of *)
(* the lines that can be.                                                  *)
LEMMA BeginningIsReadAgain ==
  ASSUME NEW X, "done" \notin X, NEW lines \in Seq(X), NEW ends, NEW S
  PROVE  LET rest == Only(lines, X \ ends)
         IN /\ Upto(rest, ends) = [lines |-> rest, end |-> "done"]
            /\ IsPrefix(Only(Upto(lines, ends).lines, S), Only(rest, S))
<1> DEFINE rest == Only(lines, X \ ends)
           begun == Upto(lines, ends).lines
<1>1. PICK k : StopsAt(lines, ends, k)
  BY UptoStops, Zenon
<1>2. begun = SubSeq(lines, 1, k) /\ k \in 0..Len(lines)
      /\ \A i \in 1..k : lines[i] \notin ends
  BY <1>1, SMTT(20) DEF StopsAt
<1>3. begun \in Seq(X) /\ \A i \in 1..Len(begun) : begun[i] \in X \ ends
  <2>1. SubSeq(lines, 1, k) \in Seq(X) /\ Len(SubSeq(lines, 1, k)) = k
        /\ \A i \in 1..k : SubSeq(lines, 1, k)[i] = lines[i] /\ lines[i] \in X
    BY <1>2
  <2> HIDE DEF begun
  <2> QED BY <1>2, <2>1
<1> HIDE DEF begun
<1>4. Only(begun, X \ ends) = begun
  BY <1>3, OnlyOfAll
<1>5. rest \in Seq(X \cap (X \ ends))
  BY OnlyIsCounted
<1>6. IsPrefix(begun, rest)
  <2>1. SubSeq(lines, 1, Len(lines)) = lines
    BY SubSeqFull
  <2>2. Len(lines) \in k..Len(lines)
    BY <1>2
  <2>3. IsPrefix(Only(SubSeq(lines, 1, k), X \ ends),
                 Only(SubSeq(lines, 1, Len(lines)), X \ ends))
    BY <1>2, <2>2, OnlyGrows
  <2> QED BY <1>2, <1>4, <2>1, <2>3
<1> HIDE DEF rest
<1>7. rest \in Seq(X) /\ \A i \in 1..Len(rest) : rest[i] \notin ends
  BY <1>5
<1>8. Upto(rest, ends) = [lines |-> rest, end |-> "done"]
  <2> DEFINE n == SelectInSeq(rest, LAMBDA l : l \in ends)
  <2>1. {i \in 1..Len(rest) : rest[i] \in ends} = {}
    BY <1>7
  <2>2. n = 0
    BY <2>1, Zenon DEF SelectInSeq
  <2> HIDE DEF n
  <2>3. Upto(rest, ends) = IF n = 0 THEN [lines |-> rest, end |-> "done"]
                           ELSE [lines |-> SubSeq(rest, 1, n - 1), end |-> rest[n]]
    BY Zenon DEF Upto, n
  <2> QED BY <2>2, <2>3
<1>9. IsPrefix(Only(begun, S), Only(rest, S))
  <2> DEFINE n == Len(begun)
  <2>1. n \in 0..Len(rest) /\ begun = SubSeq(rest, 1, n)
    BY <1>3, <1>6, <1>7 DEF IsPrefix
  <2>2. SubSeq(rest, 1, Len(rest)) = rest /\ Len(rest) \in n..Len(rest)
    BY <1>7, <2>1, SubSeqFull
  <2> HIDE DEF n
  <2>3. IsPrefix(Only(SubSeq(rest, 1, n), S), Only(SubSeq(rest, 1, Len(rest)), S))
    BY <1>7, <2>1, <2>2, OnlyGrows
  <2> QED BY ONLY <2>1, <2>2, <2>3, Zenon
<1> QED BY ONLY <1>8, <1>9, Zenon DEF rest, begun

(* The handler of the eecpt receiver stops where the other does or before, *)
(* and hands on the line where it stops.                                   *)
LEMMA PanicIsEarlier ==
  ASSUME NEW lines \in Seq(PushedLine), NEW k, NEW j,
         StopsAt(lines, Unreadable, k),
         StopsAt(lines, Unreadable \cup {"pid"}, j),
         Upto(lines, Unreadable \cup {"pid"}).end = "pid"
  PROVE  IsPrefix(Append(Sent(SubSeq(lines, 1, j)), "pid"), Sent(SubSeq(lines, 1, k)))
<1> DEFINE S == PushedLine \ {"dropped", "failing"}
<1>1. "pid" \in S /\ "done" # "pid"
  BY DEF PushedLine
<1>2. /\ j \in Nat /\ k \in Nat /\ k <= Len(lines) /\ j < Len(lines) /\ lines[j + 1] = "pid"
  BY DEF StopsAt
<1>3. \A i \in 1..j + 1 : lines[i] \notin Unreadable
  <2>1. "pid" \notin Unreadable
    BY DEF Unreadable
  <2>2. \A i \in 1..j : lines[i] \notin Unreadable
    BY DEF StopsAt
  <2>3. \A i \in 1..j + 1 : i \in 1..j \/ i = j + 1
    BY <1>2
  <2> QED BY <1>2, <2>1, <2>2, <2>3
<1>4. j + 1 <= k
  <2> SUFFICES ASSUME k < j + 1 PROVE FALSE
    BY <1>2
  <2>1. k < Len(lines) /\ k + 1 \in 1..j + 1
    BY <1>2
  <2>2. lines[k + 1] \in Unreadable
    BY <2>1 DEF StopsAt
  <2> QED BY <1>3, <2>1, <2>2
<1> HIDE DEF S
<1>5. Only(SubSeq(lines, 1, j + 1), S) = Append(Only(SubSeq(lines, 1, j), S), "pid")
  <2>1. Only(SubSeq(lines, 1, j + 1), S) =
          IF lines[j + 1] \in S THEN Append(Only(SubSeq(lines, 1, j), S), lines[j + 1])
                                ELSE Only(SubSeq(lines, 1, j), S)
    BY <1>2, OnlyOfNext
  <2> QED BY <1>1, <1>2, <2>1
<1>6. IsPrefix(Only(SubSeq(lines, 1, j + 1), S), Only(SubSeq(lines, 1, k), S))
  <2>1. j + 1 \in 0..Len(lines) /\ k \in (j + 1)..Len(lines)
    BY <1>2, <1>4
  <2> QED BY <2>1, OnlyGrows
<1> QED BY <1>5, <1>6 DEF Sent, S

(* What SenderIsToldRight says of one request, and of the corrected one.   *)
ToldRight(r, fixed) ==
  LET http == ServerHttp(r)
      eecpt == ServerHttpEECPT(r)
  IN /\ http.status = 200 /\ r.sink => http.sent = Sent(r.lines)
     /\ IsPrefix(http.sent, Sent(r.lines))
     /\ http.status = 500 => /\ ServerHttp(fixed).status = 200
                             /\ IsPrefix(http.sent, ServerHttp(fixed).sent)
     /\ IsPrefix(eecpt.sent, http.sent)
     /\ eecpt.status = 200 => eecpt = http
     /\ http.status \in {200, 500} => NatsReceive(r) = http.sent

LEMMA AnyLinesAreHandedOn ==
  ASSUME NEW r, r.lines \in Seq(PushedLine),
         NEW fixed, fixed.lines = Only(r.lines, PushedLine \ Unreadable),
         fixed.method = r.method, fixed.auth = r.auth, fixed.sink = r.sink
  PROVE  ToldRight(r, fixed)
<1> DEFINE lines == r.lines
           read == Upto(lines, Unreadable)
           early == Upto(lines, Unreadable \cup {"pid"})
           again == ServerHttp(fixed)
           http == ServerHttp(r)
           eecpt == ServerHttpEECPT(r)
           taken == r.method = "POST" /\ r.auth # "wrong" /\ r.sink
           refused == ~(r.method = "POST") \/ r.auth = "wrong" 
<1>1. PICK k : StopsAt(lines, Unreadable, k)
  BY UptoStops, Zenon
<1>2. PICK j : StopsAt(lines, Unreadable \cup {"pid"}, j)
  BY UptoStops, Zenon
<1>3. read.lines = SubSeq(lines, 1, k) /\ early.lines = SubSeq(lines, 1, j)
      /\ k \in 0..Len(lines) /\ j \in 0..Len(lines)
  BY ONLY <1>1, <1>2, Zenon DEF StopsAt
<1>4. /\ read.end = "done" => read.lines = lines
      /\ Sent(lines) \in Seq(PushedLine) /\ Sent(read.lines) \in Seq(PushedLine)
      /\ IsPrefix(Sent(read.lines), Sent(lines))
  <2>1. "done" \notin PushedLine
    BY DEF PushedLine
  <2> QED BY <2>1, ReadIsBeginning, ZenonT(30) DEF Sent
<1>5. early.end = "pid" => IsPrefix(Append(Sent(early.lines), "pid"), Sent(read.lines))
  BY <1>1, <1>2, <1>3, PanicIsEarlier
<1>6. taken => again.status = 200 /\ IsPrefix(Sent(read.lines), again.sent)
  <2> DEFINE rest == fixed.lines
  <2>1. "done" \notin PushedLine
    BY DEF PushedLine
  <2>2. /\ Upto(rest, Unreadable) = [lines |-> rest, end |-> "done"]
        /\ IsPrefix(Sent(read.lines), Sent(rest))
    BY <2>1, BeginningIsReadAgain, ZenonT(30) DEF Sent
  <2>3. taken => again = [status |-> IF Upto(rest, Unreadable).end = "done" THEN 200 ELSE 500,
                          sent |-> Sent(Upto(rest, Unreadable).lines)]
    BY Zenon DEF ServerHttp
  <2> HIDE DEF again, read, rest, taken
  <2>4. /\ Upto(rest, Unreadable).lines = rest
        /\ Upto(rest, Unreadable).end = "done"
    BY ONLY <2>2
  <2>5. taken => again = [status |-> 200, sent |-> Sent(rest)]
    BY ONLY <2>3, <2>4
  <2>6. taken => again.status = 200 /\ again.sent = Sent(rest)
    BY ONLY <2>5
  <2> QED BY ONLY <2>2, <2>6
<1>7. /\ taken => http = [status |-> IF read.end = "done" THEN 200 ELSE 500,
                          sent |-> Sent(read.lines)]
      /\ ~taken => http.sent = <<>>
      /\ http.status \in {200, 500} => taken \/ ~r.sink
      /\ http.status = 200 => (taken /\ read.end = "done") \/ ~r.sink
      /\ http.status = 500 => taken
  <2>1. CASE r.method # "POST"
    BY <2>1 DEF ServerHttp
  <2>2. CASE r.method = "POST" /\ r.auth = "wrong"
    BY <2>2 DEF ServerHttp
  <2>3. CASE r.method = "POST" /\ r.auth # "wrong" /\ ~r.sink
    BY <2>3 DEF ServerHttp
  <2>4. CASE taken
    <3>1. http = [status |-> IF read.end = "done" THEN 200 ELSE 500,
                  sent |-> Sent(read.lines)]
      BY <2>4, Zenon DEF ServerHttp
    <3> HIDE DEF http, read
    <3> QED BY <2>4, <3>1
  <2> QED BY <2>1, <2>2, <2>3, <2>4
<1>8. /\ taken /\ early.end = "pid" =>
           eecpt = [status |-> 0, sent |-> Append(Sent(early.lines), "pid")]
      /\ ~(taken /\ early.end = "pid") => eecpt = http
  BY Zenon DEF ServerHttpEECPT
<1>9. NatsReceive(r) = IF ~r.sink THEN <<>> ELSE Sent(read.lines)
  BY Zenon DEF NatsReceive
<1> HIDE DEF http, eecpt, read, early, again
<1>10. \A s \in Seq(PushedLine) : IsPrefix(<<>>, s) /\ IsPrefix(s, s)
  BY EmptySeq DEF IsPrefix
<1>11. taken => http.sent = Sent(read.lines)
  BY <1>7
<1>12. http.status = 200 /\ r.sink => http.sent = Sent(lines)
  BY <1>4, <1>7, <1>11
<1>13. IsPrefix(http.sent, Sent(lines))
  BY <1>4, <1>7, <1>10, <1>11
<1>14. IsPrefix(http.sent, http.sent)
  BY <1>4, <1>7, <1>10, <1>11, EmptySeq
<1>15. IsPrefix(eecpt.sent, http.sent)
  <2>1. taken /\ early.end = "pid" => eecpt.sent = Append(Sent(early.lines), "pid")
    BY <1>8
  <2>2. ~(taken /\ early.end = "pid") => eecpt.sent = http.sent
    BY <1>8
  <2> QED BY <1>5, <1>11, <1>14, <2>1, <2>2
<1>16. eecpt.status = 200 => eecpt = http
  BY <1>8
<1>17. http.status \in {200, 500} => NatsReceive(r) = http.sent
  BY <1>7, <1>9, <1>11
<1>18. http.status = 500 => again.status = 200 /\ IsPrefix(http.sent, again.sent)
  BY <1>6, <1>7, <1>11
<1> QED BY ONLY <1>12, <1>13, <1>15, <1>16, <1>17, <1>18 DEF ToldRight, http, eecpt, lines, again

(* The numbers of any page.                                                *)
LEMMA AnyPageIsHandedOn ==
  ASSUME NEW page, page.samples \in Seq(Sample)
  PROVE  /\ IsPrefix(Scrape(page).sent, Only(page.samples, Numeric))
         /\ Scrape(page).end = "done" => Scrape(page).sent = Only(page.samples, Numeric)
<1> DEFINE read == Upto(page.samples, {"spaced", "blank", "no value"})
           out == Only(page.samples, Numeric)
           begun == Only(read.lines, Numeric)
           scraped == Scrape(page)
<1>1. "done" \notin Sample
  BY DEF Sample
<1>2. /\ out \in Seq(Sample) /\ IsPrefix(begun, out)
      /\ read.end = "done" => read.lines = page.samples
  BY <1>1, ReadIsBeginning, ZenonT(30)
<1>3. read.end = "done" => begun = out
  BY <1>2
<1>4. scraped = IF ~page.got THEN [sent |-> <<>>, end |-> "fatal"]
                ELSE [sent |-> begun, end |-> read.end]
  BY Zenon DEF Scrape
<1> HIDE DEF read, begun, out, scraped
<1>5. IsPrefix(<<>>, out)
  BY <1>2, EmptySeq DEF IsPrefix
<1>6. ASSUME page.got
      PROVE  IsPrefix(scraped.sent, out) /\ (scraped.end = "done" => scraped.sent = out)
  <2>1. scraped = [sent |-> begun, end |-> read.end]
    BY ONLY <1>4, <1>6, Zenon
  <2>2. scraped.sent = begun /\ scraped.end = read.end
    BY ONLY <2>1
  <2> QED BY ONLY <1>2, <1>3, <2>2, Zenon
<1>7. ASSUME ~page.got
      PROVE  IsPrefix(scraped.sent, out) /\ (scraped.end = "done" => scraped.sent = out)
  <2>1. scraped = [sent |-> <<>>, end |-> "fatal"]
    BY ONLY <1>4, <1>7, Zenon
  <2>2. scraped.sent = <<>> /\ scraped.end # "done"
    BY ONLY <2>1
  <2> QED BY ONLY <1>5, <2>2, Zenon
<1> QED BY ONLY <1>6, <1>7 DEF scraped, out

LEMMA BufferIsPositive ==
  ASSUME NEW c, c.bufferLength \in Int PROVE NewEECPTReceiver(c, 4).bufferSize > 0
<1> DEFINE n == c.bufferLength
           new == NewEECPTReceiver(c, 4)
<1>1. n <= 0 \/ n > 0
  OBVIOUS
<1>2. CASE c.port = "" \/ WrongAuth(c) \/ n <= 0
  <2>1. new = [receiver |-> NoReceiver, bufferSize |-> 4]
    BY <1>2, Zenon DEF NewEECPTReceiver
  <2>2. new.bufferSize = 4
    BY <2>1
  <2>3. 4 > 0
    OBVIOUS
  <2> HIDE DEF new
  <2>4. new.bufferSize > 0
    BY <2>2, <2>3
  <2> QED BY <2>4 DEF new
<1>3. CASE ~(c.port = "" \/ WrongAuth(c) \/ n <= 0)
  <2>1. new.bufferSize = n
    BY <1>3, Zenon DEF NewEECPTReceiver
  <2> HIDE DEF new, n
  <2>2. new.bufferSize > 0
    BY <1>1, <1>3, <2>1, Zenon
  <2> QED BY <2>2 DEF new
<1> QED BY <1>2, <1>3, Zenon

(* Who asks for credentials has both.                                      *)
LEMMA CredentialsAreWhole ==
  ASSUME NEW c,
         NEW new \in {NewHttpReceiver(c), NewEECPTReceiver(c, 4).receiver}, new # NoReceiver
  PROVE  new.useBasicAuth <=> c.user # "" /\ c.password # ""
<1> DEFINE used == c.user # "" \/ c.password # ""
           http == [useBasicAuth |-> used, idleTimeout |-> Duration(c.interval)]
           eecpt == [useBasicAuth |-> used, analysisInterval |-> Duration(c.interval)]
<1>1. ~WrongAuth(c) => (used <=> c.user # "" /\ c.password # "")
  BY Zenon DEF WrongAuth
<1>2. CASE new = NewHttpReceiver(c)
  <2>1. new = http /\ ~WrongAuth(c)
    BY <1>2, Zenon DEF NewHttpReceiver
  <2> HIDE DEF used
  <2>2. new.useBasicAuth = used
    BY ONLY <2>1
  <2> QED BY <1>1, <2>1, <2>2, Zenon
<1>3. CASE new = NewEECPTReceiver(c, 4).receiver
  <2> DEFINE n == c.bufferLength
             refused == c.port = "" \/ WrongAuth(c) \/ n <= 0
             made == IF c.processor = "bad" THEN NoReceiver ELSE eecpt
  <2>1. NewEECPTReceiver(c, 4) =
          IF refused THEN [receiver |-> NoReceiver, bufferSize |-> 4]
          ELSE [receiver |-> made, bufferSize |-> n]
    BY Zenon DEF NewEECPTReceiver
  <2>2. ~refused => ~WrongAuth(c)
    BY Zenon
  <2> HIDE DEF refused, made, n
  <2>3. new = IF refused THEN NoReceiver ELSE made
    BY <1>3, <2>1
  <2>4. new = eecpt /\ ~refused
    BY <2>3, Zenon DEF made
  <2> HIDE DEF used
  <2>5. new.useBasicAuth = used
    BY ONLY <2>4
  <2> QED BY <1>1, <2>2, <2>4, <2>5, Zenon
<1> QED BY <1>2, <1>3

LEMMA RanksAreNumbers ==
  /\ \A s \in Seq(Nat) : s # <<>> => s[1] \in Nat
  /\ \A n \in Nat : n # -1
OBVIOUS

LEMMA AnyRankIsFound ==
  ASSUME NEW m, m.rankTag \in Seq(Nat), m.rankField \in Seq(Nat), m.pidTag \in Seq(Nat),
         m.application # ""
  PROVE  /\ RankOf(m) = -1 <=> m.rankTag = <<>> /\ m.rankField = <<>> /\ m.pidTag = <<>>
         /\ JobOf(m) # ""
<1>3. RankOf(m) = -1 <=> m.rankTag = <<>> /\ m.rankField = <<>> /\ m.pidTag = <<>>
  BY RanksAreNumbers, Zenon DEF RankOf
<1> QED BY <1>3, Zenon DEF JobOf

(* What is pushed: lines, a page, a configuration, or a message whose      *)
(* ranks are numbers.                                                      *)
PushInv ==
  /\ Is("push") => st.lines \in Seq(PushedLine)
  /\ Is("scrape") => st.samples \in Seq(Sample)
  /\ Is("pushConfig") => st.bufferLength \in Int
  /\ Is("rank") => /\ st.rankTag \in Seq(Nat) /\ st.rankField \in Seq(Nat)
                   /\ st.pidTag \in Seq(Nat) /\ st.application # ""

LEMMA AnyPushIsHandedOn == ASSUME PushInv PROVE AcceptedIsHandedOn
<1>1. SenderIsToldRight
  <2> DEFINE fixed == [method |-> st.method, auth |-> st.auth, sink |-> st.sink,
                       lines |-> Only(st.lines, PushedLine \ Unreadable)]
  <2>1. /\ fixed.lines = Only(st.lines, PushedLine \ Unreadable)
        /\ fixed.method = st.method /\ fixed.auth = st.auth /\ fixed.sink = st.sink
    BY ONLY Zenon
  <2>2. Is("push") => st.lines \in Seq(PushedLine)
    BY DEF PushInv
  <2> HIDE DEF fixed
  <2>3. ASSUME Is("push")
        PROVE  ToldRight(st, fixed)
    BY ONLY <2>1, <2>2, <2>3, AnyLinesAreHandedOn
  <2> QED BY ONLY <2>3, Zenon DEF ToldRight, SenderIsToldRight, fixed
<1>2. NumbersAreHandedOn
  BY AnyPageIsHandedOn, Zenon DEF PushInv, NumbersAreHandedOn
<1>3. PushedIsUnderstood
  BY CredentialsAreWhole, BufferIsPositive, AnyRankIsFound, Zenon DEF PushInv, PushedIsUnderstood
<1> QED BY <1>1, <1>2, <1>3 DEF AcceptedIsHandedOn

-----------------------------------------------------------------------------
(* The threads of a node and its parts.                                    *)
(* A list without duplicates has as many members of a set as the set has of*)
(* the list.                                                               *)
IsOnce(q) == \A i, j \in DOMAIN q : q[i] = q[j] => i = j
PlacesOf(q, S) == {i \in DOMAIN q : q[i] \in S}

LEMMA MembersAreCounted ==
  ASSUME NEW X, NEW q \in Seq(X), IsOnce(q), NEW S
  PROVE  /\ IsFiniteSet(ToSet(q)) /\ IsFiniteSet(ToSet(q) \cap S)
         /\ Cardinality(PlacesOf(q, S)) = Cardinality(ToSet(q) \cap S)
         /\ Cardinality(ToSet(q)) = Len(q)
<1> DEFINE I == PlacesOf(q, S)
           R == ToSet(q)
           T == R \cap S
           f == [i \in I |-> q[i]]
           g == [i \in DOMAIN q |-> q[i]]
<1>1. DOMAIN q = 1..Len(q) /\ Len(q) \in Nat
  OBVIOUS
<1>2. IsFiniteSet(DOMAIN q) /\ Cardinality(DOMAIN q) = Len(q)
  BY <1>1, FS_Interval
<1>3. IsFiniteSet(I)
  BY <1>2, FS_Subset DEF PlacesOf
<1>4. f \in Bijection(I, T)
  BY DEF Bijection, Injection, Surjection, IsInjective, IsOnce, PlacesOf, ToSet
<1>5. g \in Bijection(DOMAIN q, R)
  BY DEF Bijection, Injection, Surjection, IsInjective, IsOnce, ToSet
<1>6. ExistsBijection(I, T) /\ ExistsBijection(DOMAIN q, R)
  BY <1>4, <1>5 DEF ExistsBijection
<1> HIDE DEF I, R, T, f, g
<1>7. IsFiniteSet(T) /\ Cardinality(T) = Cardinality(I)
  BY <1>3, <1>6, FS_Bijection
<1>8. IsFiniteSet(R) /\ Cardinality(R) = Len(q)
  BY <1>2, <1>6, FS_Bijection
<1> QED BY <1>7, <1>8 DEF I, R, T

(* SetToSeq: a finite set as a sequence, each element once.                *)
LEMMA SeqOfSet ==
  ASSUME NEW S, IsFiniteSet(S)
  PROVE  SetToSeq(S) \in Seq(S) /\ ToSet(SetToSeq(S)) = S /\ IsOnce(SetToSeq(S))
<1> DEFINE n == Cardinality(S)
           q == SetToSeq(S)
<1>1. n \in Nat /\ ExistsBijection(1..n, S)
  BY FS_CardinalityType
<1>2. PICK f : f \in Bijection(1..n, S)
  BY <1>1 DEF ExistsBijection
<1>3. f \in [1..n -> S] /\ \A a, b \in DOMAIN f : f[a] = f[b] => a = b
  BY <1>2 DEF Bijection, Injection, IsInjective
<1>4. q = CHOOSE h \in [1..n -> S] : \A a, b \in DOMAIN h : h[a] = h[b] => a = b
  BY DEF SetToSeq, IsInjective
<1>5. q \in [1..n -> S] /\ \A a, b \in DOMAIN q : q[a] = q[b] => a = b
  <2> HIDE DEF n, q
  <2> QED BY <1>3, <1>4, ZenonT(30)
<1> HIDE DEF q, n
<1>6. q \in Injection(1..n, S)
  BY <1>5 DEF Injection, IsInjective
<1>7. IsFiniteSet(1..n) /\ Cardinality(1..n) = n
  BY <1>1, FS_Interval
<1>8. q \in Surjection(1..n, S)
  BY <1>6, <1>7, FS_Injection DEF n
<1>9. ToSet(q) = S
  BY <1>5, <1>8 DEF Surjection, ToSet
<1>10. q \in Seq(S)
  BY <1>1, <1>5
<1> QED BY <1>5, <1>9, <1>10 DEF q, IsOnce

(* A loop that appends those of S to its result has appended all of them.  *)
LEMMA OnlyHasAll ==
  ASSUME NEW X, NEW s \in Seq(X), NEW S, NEW k \in 1..Len(s), s[k] \in S
  PROVE  s[k] \in ToSet(Only(s, S))
<1> DEFINE out == Only(SubSeq(s, 1, k), S)
           all == Only(SubSeq(s, 1, Len(s)), S)
           before == Only(SubSeq(s, 1, k - 1), S)
<1>1. k \in Nat /\ k >= 1 /\ Len(s) \in Nat /\ k <= Len(s) /\ k - 1 \in Nat /\ k - 1 < Len(s)
      /\ (k - 1) + 1 = k /\ k - 1 \in 0..Len(s) /\ k \in 0..Len(s)
      /\ k - 1 \in k - 1..Len(s) /\ Len(s) \in k..Len(s)
  OBVIOUS
<1>2. before \in Seq(X)
  BY <1>1, OnlyGrows
<1>3. all \in Seq(X) /\ IsPrefix(out, all)
  BY <1>1, OnlyGrows
<1>4. out = Append(before, s[k])
  <2>1. Only(SubSeq(s, 1, (k - 1) + 1), S) =
          IF s[(k - 1) + 1] \in S THEN Append(before, s[(k - 1) + 1]) ELSE before
    BY <1>1, OnlyOfNext
  <2> QED BY <1>1, <2>1
<1>5. SubSeq(s, 1, Len(s)) = s
  BY SubSeqFull
<1> HIDE DEF out, all, before
<1>6. s[k] \in X
  OBVIOUS
<1>7. out \in Seq(X) /\ Len(out) >= 1 /\ out[Len(out)] = s[k] /\ Len(out) \in Nat
  BY <1>2, <1>4, <1>6
<1>8. all[Len(out)] = out[Len(out)] /\ Len(out) \in DOMAIN all
  BY <1>3, <1>7 DEF IsPrefix
<1>9. s[k] \in ToSet(all)
  BY <1>7, <1>8 DEF ToSet
<1> QED BY <1>5, <1>9 DEF all

(* A topology: no thread is twice in a part, and every thread on a socket  *)
(* is in a core.                                                           *)
IsParts(parts) ==
  /\ \E n \in Nat : DOMAIN parts = 1..n
  /\ \A p \in DOMAIN parts : parts[p] \in Seq(Nat) /\ IsOnce(parts[p])
IsTopology(topo) ==
  /\ IsParts(topo.socket) /\ IsParts(topo.core) /\ IsParts(topo.memoryDomain)
  /\ \A s \in DOMAIN topo.socket : \A t \in ToSet(topo.socket[s]) :
       \E c \in DOMAIN topo.core : t \in ToSet(topo.core[c])

ThreadsOf(parts, list) == UNION {Of(parts, list[i]) : i \in DOMAIN list}
PlacesIn(parts, list, p) == {i \in DOMAIN list : p \in Of(parts, list[i])}
HasAll(parts, list, p) == Cardinality(PlacesIn(parts, list, p)) = Len(parts[p])

LEMMA FromThreads ==
  ASSUME NEW parts, NEW list
  PROVE  GetFromHWThreads(parts, list) =
           [ids |-> ThreadsOf(parts, list),
            exclusive |-> \A p \in ThreadsOf(parts, list) : HasAll(parts, list, p)]
BY Zenon DEF GetFromHWThreads, Ids, ThreadsOf, HasAll, PlacesIn

LEMMA AllIsCounted ==
  ASSUME NEW parts, IsParts(parts), NEW list \in Seq(Nat), IsOnce(list),
         NEW p \in DOMAIN parts
  PROVE  HasAll(parts, list, p) <=> ToSet(parts[p]) \subseteq ToSet(list)
<1> DEFINE S == ToSet(parts[p])
           J == ToSet(list)
<1>1. PlacesIn(parts, list, p) = PlacesOf(list, S)
  BY DEF Of, PlacesIn, PlacesOf
<1>2. Cardinality(PlacesOf(list, S)) = Cardinality(J \cap S) /\ IsFiniteSet(J \cap S)
  BY MembersAreCounted
<1>3. Cardinality(S) = Len(parts[p]) /\ IsFiniteSet(S)
  <2> DEFINE part == parts[p]
  <2>1. part \in Seq(Nat) /\ IsOnce(part)
    BY DEF IsParts
  <2> HIDE DEF part
  <2>2. Cardinality(ToSet(part)) = Len(part) /\ IsFiniteSet(ToSet(part))
    BY <2>1, MembersAreCounted
  <2> QED BY <2>2 DEF part
<1> HIDE DEF S, J
<1>4. Cardinality(S) = Cardinality(J \cap S) => S = J \cap S
  BY <1>3, FS_Subset
<1>5. S = J \cap S <=> S \subseteq J
  OBVIOUS
<1> QED BY <1>1, <1>2, <1>3, <1>4, <1>5 DEF HasAll, S, J

(* What is said of the threads of a job, for any kind of part.             *)
LEMMA ThreadsAreAsked ==
  ASSUME NEW parts, IsParts(parts), NEW list \in Seq(Nat), IsOnce(list)
  PROVE  LET r == GetFromHWThreads(parts, list) IN
           /\ \A p : p \in r.ids <=>
                /\ p \in DOMAIN parts
                /\ \E t \in ToSet(list) : t \in ToSet(parts[p])
           /\ r.exclusive <=> \A p \in r.ids : ToSet(parts[p]) \subseteq ToSet(list)
           /\ IsFiniteSet(r.ids)
<1> DEFINE r == GetFromHWThreads(parts, list)
           ids == ThreadsOf(parts, list)
<1>1. /\ r.ids = ids
      /\ r.exclusive <=> \A p \in ids : HasAll(parts, list, p)
  BY FromThreads, Zenon
<1>2. \A p : p \in ids <=> /\ p \in DOMAIN parts
                           /\ \E t \in ToSet(list) : t \in ToSet(parts[p])
  <2>1. \A t : t \in ToSet(list) <=> \E i \in DOMAIN list : t = list[i]
    BY DEF ToSet
  <2>2. \A t, p : p \in Of(parts, t) <=> p \in DOMAIN parts /\ t \in ToSet(parts[p])
    BY DEF Of
  <2>3. \A p : p \in ids <=> \E i \in DOMAIN list : p \in Of(parts, list[i])
    BY DEF ThreadsOf
  <2> HIDE DEF ids
  <2> QED BY <2>1, <2>2, <2>3
<1>3. \A p \in ids : HasAll(parts, list, p) <=> ToSet(parts[p]) \subseteq ToSet(list)
  BY <1>2, AllIsCounted
<1>4. IsFiniteSet(ids)
  <2>1. PICK n \in Nat : DOMAIN parts = 1..n
    BY DEF IsParts
  <2>2. ids \subseteq 1..n
    BY <1>2, <2>1
  <2> HIDE DEF ids
  <2>3. IsFiniteSet(1..n)
    BY FS_Interval
  <2> QED BY <2>2, <2>3, FS_Subset
<1> HIDE DEF r, ids
<1> QED BY <1>1, <1>2, <1>3, <1>4 DEF r

SocketsOf(topo, cores) == UNION {CoreToSocket(topo, cores[i]) : i \in DOMAIN cores}
PlacesOn(topo, cores, s) == {i \in DOMAIN cores : s \in CoreToSocket(topo, cores[i])}
HasCores(topo, cores, s) ==
  Cardinality(PlacesOn(topo, cores, s)) = Cardinality(CoresPerSocket(topo, s))

LEMMA FromCores ==
  ASSUME NEW topo, NEW cores
  PROVE  GetSocketsFromCores(topo, cores) =
           [ids |-> SocketsOf(topo, cores),
            exclusive |-> \A s \in SocketsOf(topo, cores) : HasCores(topo, cores, s)]
BY Zenon DEF GetSocketsFromCores, Ids, SocketsOf, HasCores, PlacesOn

LEMMA CoreIsOnSocket ==
  ASSUME NEW topo, NEW c
  PROVE  \A s : s \in CoreToSocket(topo, c) <=>
           /\ s \in DOMAIN topo.socket
           /\ \E t \in ToSet(topo.core[c]) : t \in ToSet(topo.socket[s])
BY DEF CoreToSocket, Of

LEMMA SocketHasCores ==
  ASSUME NEW topo, NEW s
  PROVE  \A c : c \in CoresPerSocket(topo, s) <=>
           c \in DOMAIN topo.core /\ s \in CoreToSocket(topo, c)
BY DEF CoresPerSocket

(* The sockets of the cores of a job, which are a set.                     *)
LEMMA CoresAreAsked ==
  ASSUME NEW topo, NEW ids, IsFiniteSet(ids), ids \subseteq DOMAIN topo.core
  PROVE  LET r == GetSocketsFromCores(topo, SetToSeq(ids)) IN
           /\ \A s : s \in r.ids <=> \E c \in ids : s \in CoreToSocket(topo, c)
           /\ (\A s \in r.ids : CoresPerSocket(topo, s) \subseteq ids) => r.exclusive
<1> DEFINE cores == SetToSeq(ids)
           r == GetSocketsFromCores(topo, cores)
           on == SocketsOf(topo, cores)
<1>1. cores \in Seq(ids) /\ ToSet(cores) = ids /\ IsOnce(cores)
  BY SeqOfSet
<1>2. \A c : c \in ids <=> \E i \in DOMAIN cores : c = cores[i]
  BY <1>1 DEF ToSet
<1> HIDE DEF cores
<1>3. /\ r.ids = on
      /\ r.exclusive <=> \A s \in on : HasCores(topo, cores, s)
  BY FromCores, Zenon
<1> HIDE DEF r
<1>4. \A s : s \in on <=> \E i \in DOMAIN cores : s \in CoreToSocket(topo, cores[i])
  BY DEF SocketsOf
<1> HIDE DEF on
<1>5. \A s : s \in on <=> \E c \in ids : s \in CoreToSocket(topo, c)
  BY <1>2, <1>4
<1>6. ASSUME NEW s, CoresPerSocket(topo, s) \subseteq ids PROVE HasCores(topo, cores, s)
  <2> DEFINE S == CoresPerSocket(topo, s)
  <2>1. PlacesOn(topo, cores, s) = PlacesOf(cores, S)
    <3>1. \A i \in DOMAIN cores : cores[i] \in S <=> s \in CoreToSocket(topo, cores[i])
      BY <1>2, SocketHasCores
    <3> HIDE DEF S
    <3> QED BY <3>1 DEF PlacesOn, PlacesOf
  <2> HIDE DEF S
  <2>2. Cardinality(PlacesOf(cores, S)) = Cardinality(ToSet(cores) \cap S)
    BY <1>1, MembersAreCounted
  <2>3. ToSet(cores) \cap S = S
    BY <1>1, <1>6 DEF S
  <2> QED BY <2>1, <2>2, <2>3 DEF HasCores, S
<1> QED BY <1>3, <1>5, <1>6 DEF cores, r

(* Where a memory domain is put: on a socket that has its first thread.    *)
LEMMA DomainIsOnSocket ==
  ASSUME NEW topo, IsTopology(topo), NEW d, MemoryDomainToSocket(topo, d) # {}
  PROVE  \E s \in DOMAIN topo.socket :
           /\ MemoryDomainToSocket(topo, d) = {s}
           /\ \E t \in ToSet(topo.memoryDomain[d]) : t \in ToSet(topo.socket[s])
<1> DEFINE t == topo.memoryDomain[d][1]
           sockets == Of(topo.socket, t)
<1>1. d \in DOMAIN topo.memoryDomain /\ topo.memoryDomain[d] # <<>> /\ sockets # {}
  BY DEF MemoryDomainToSocket
<1>2. MemoryDomainToSocket(topo, d) = {Min(sockets)}
  BY <1>1 DEF MemoryDomainToSocket
<1>3. PICK n \in Nat : DOMAIN topo.socket = 1..n
  BY DEF IsTopology, IsParts
<1>4. sockets \subseteq 1..n
  BY <1>3 DEF Of
<1>5. Min(sockets) \in sockets
  <2> HIDE DEF sockets
  <2>1. IsFiniteSet(1..n)
    BY FS_Interval
  <2>2. sockets \in SUBSET (1..n) /\ sockets \in SUBSET Int
    BY <1>4
  <2>3. IsFiniteSet(sockets)
    BY <2>1, <2>2, FS_Subset
  <2> QED BY <1>1, <2>2, <2>3, ExtremesAreElements
<1>6. Min(sockets) \in DOMAIN topo.socket /\ t \in ToSet(topo.socket[Min(sockets)])
  BY <1>5 DEF Of
<1>7. t \in ToSet(topo.memoryDomain[d])
  <2> DEFINE q == topo.memoryDomain[d]
  <2>1. q \in Seq(Nat) /\ q # <<>>
    BY <1>1 DEF IsTopology, IsParts
  <2> HIDE DEF q
  <2>2. 1 \in DOMAIN q
    BY <2>1
  <2> QED BY <2>2 DEF q, ToSet
<1> HIDE DEF sockets, t
<1> QED BY <1>2, <1>6, <1>7

(* Domains are grouped without loss.                                       *)
LEMMA DomainsAreGrouped ==
  ASSUME NEW topo, IsTopology(topo), NEW ids, IsFiniteSet(ids),
         GetMemoryDomainsBySocket(topo, SetToSeq(ids)).ok, NEW d \in ids
  PROVE  LET groups == GetMemoryDomainsBySocket(topo, SetToSeq(ids)).groups IN
           \E s \in DOMAIN groups :
             /\ d \in ToSet(groups[s])
             /\ ToSet(topo.memoryDomain[d]) \cap ToSet(topo.socket[s]) # {}
<1> DEFINE domains == SetToSeq(ids)
           r == GetMemoryDomainsBySocket(topo, domains)
           On(s) == {x \in ToSet(domains) : MemoryDomainToSocket(topo, x) = {s}}
           used == UNION {MemoryDomainToSocket(topo, domains[i]) : i \in DOMAIN domains}
           made == [s \in used |-> Only(domains, On(s))]
<1>1. domains \in Seq(ids) /\ ToSet(domains) = ids
  BY SeqOfSet
<1>2. PICK k \in DOMAIN domains : d = domains[k]
  BY <1>1 DEF ToSet
<1>3. \A i \in DOMAIN domains : MemoryDomainToSocket(topo, domains[i]) # {}
  BY DEF GetMemoryDomainsBySocket
<1>4. r.groups = made
  BY <1>3 DEF GetMemoryDomainsBySocket
<1> HIDE DEF domains, r
<1>5. PICK s \in DOMAIN topo.socket :
        /\ MemoryDomainToSocket(topo, d) = {s}
        /\ \E t \in ToSet(topo.memoryDomain[d]) : t \in ToSet(topo.socket[s])
  BY <1>2, <1>3, DomainIsOnSocket
<1>6. s \in used
  BY <1>2, <1>5
<1>7. d \in ToSet(Only(domains, On(s)))
  <2>1. d \in On(s)
    BY <1>1, <1>5
  <2>2. k \in 1..Len(domains)
    BY <1>1
  <2> HIDE DEF On
  <2> QED BY <1>1, <1>2, <2>1, <2>2, OnlyHasAll
<1>8. made[s] = Only(domains, On(s)) /\ DOMAIN made = used
  BY <1>6
<1> HIDE DEF made, used, On
<1>9. s \in DOMAIN r.groups /\ d \in ToSet(r.groups[s])
  BY <1>4, <1>6, <1>7, <1>8
<1> QED BY <1>5, <1>9 DEF r, domains

TopologyInv ==
  Is("topology") => IsTopology(st.topo) /\ st.list \in Seq(Nat) /\ IsOnce(st.list)

(* The answers about the threads of a job do not contradict each other.    *)
LEMMA AnyTopologyAgrees == ASSUME TopologyInv PROVE ExclusiveIsAll
<1> SUFFICES ASSUME Is("topology") PROVE ExclusiveIsAll
  BY Zenon DEF ExclusiveIsAll
<1> DEFINE topo == st.topo
           list == st.list
           job == ToSet(list)
           sockets == GetSocketsFromHWThreads(topo, list)
           cores == GetCoresFromHWThreads(topo, list)
           domains == GetMemoryDomainsFromHWThreads(topo, list)
           viaCores == GetSocketsFromCores(topo, SetToSeq(cores.ids))
           groups == GetMemoryDomainsBySocket(topo, SetToSeq(domains.ids))
           All(parts, r) == r.exclusive <=> \A p \in r.ids : ToSet(parts[p]) \subseteq job
<1>1. IsTopology(topo) /\ list \in Seq(Nat) /\ IsOnce(list)
  BY DEF TopologyInv
<1>2. /\ IsParts(topo.socket) /\ IsParts(topo.core) /\ IsParts(topo.memoryDomain)
      /\ \A s \in DOMAIN topo.socket : \A t \in ToSet(topo.socket[s]) :
           \E c \in DOMAIN topo.core : t \in ToSet(topo.core[c])
  BY <1>1 DEF IsTopology
<1> HIDE DEF topo, list
<1>3. /\ \A p : p \in sockets.ids <=>
           p \in DOMAIN topo.socket /\ \E t \in job : t \in ToSet(topo.socket[p])
      /\ All(topo.socket, sockets)
  BY <1>1, <1>2, ThreadsAreAsked DEF GetSocketsFromHWThreads
<1>4. /\ \A p : p \in cores.ids <=>
           p \in DOMAIN topo.core /\ \E t \in job : t \in ToSet(topo.core[p])
      /\ All(topo.core, cores) /\ IsFiniteSet(cores.ids)
  BY <1>1, <1>2, ThreadsAreAsked DEF GetCoresFromHWThreads
<1>5. All(topo.memoryDomain, domains) /\ IsFiniteSet(domains.ids)
  BY <1>1, <1>2, ThreadsAreAsked DEF GetMemoryDomainsFromHWThreads
<1> HIDE DEF sockets, cores, domains, job
<1>6. /\ \A s : s \in viaCores.ids <=> \E c \in cores.ids : s \in CoreToSocket(topo, c)
      /\ (\A s \in viaCores.ids : CoresPerSocket(topo, s) \subseteq cores.ids)
           => viaCores.exclusive
  BY <1>4, CoresAreAsked
<1> HIDE DEF viaCores
<1>7. sockets.ids \subseteq viaCores.ids
  <2> SUFFICES ASSUME NEW s \in sockets.ids PROVE s \in viaCores.ids
    OBVIOUS
  <2>1. s \in DOMAIN topo.socket
    BY <1>3
  <2>2. PICK t \in job : t \in ToSet(topo.socket[s])
    BY <1>3
  <2>3. PICK c \in DOMAIN topo.core : t \in ToSet(topo.core[c])
    BY <1>2, <2>1, <2>2
  <2>4. c \in cores.ids
    BY <1>4, <2>2, <2>3
  <2>5. s \in CoreToSocket(topo, c)
    BY <2>1, <2>2, <2>3, CoreIsOnSocket
  <2> QED BY <1>6, <2>4, <2>5
<1>8. ASSUME sockets.exclusive, viaCores.ids = sockets.ids PROVE viaCores.exclusive
  <2> SUFFICES ASSUME NEW s \in viaCores.ids, NEW c \in CoresPerSocket(topo, s)
               PROVE  c \in cores.ids
    BY <1>6
  <2>1. c \in DOMAIN topo.core /\ s \in CoreToSocket(topo, c)
    BY SocketHasCores
  <2>2. PICK t \in ToSet(topo.core[c]) : t \in ToSet(topo.socket[s])
    BY <2>1, CoreIsOnSocket
  <2>3. ToSet(topo.socket[s]) \subseteq job
    BY <1>3, <1>8
  <2> QED BY <1>4, <2>1, <2>2, <2>3
<1>9. groups.ok =>
        \A d \in domains.ids :
          \E s \in DOMAIN groups.groups :
            /\ d \in ToSet(groups.groups[s])
            /\ ToSet(topo.memoryDomain[d]) \cap ToSet(topo.socket[s]) # {}
  BY <1>1, <1>5, DomainsAreGrouped
<1> HIDE DEF groups
<1>10. /\ All(topo.socket, sockets) /\ All(topo.core, cores)
       /\ All(topo.memoryDomain, domains)
       /\ sockets.ids \subseteq viaCores.ids
       /\ sockets.exclusive /\ viaCores.ids = sockets.ids => viaCores.exclusive
       /\ groups.ok =>
            \A d \in domains.ids :
              \E s \in DOMAIN groups.groups :
                /\ d \in ToSet(groups.groups[s])
                /\ ToSet(topo.memoryDomain[d]) \cap ToSet(topo.socket[s]) # {}
  BY <1>3, <1>4, <1>5, <1>7, <1>8, <1>9
<1> QED BY <1>10, Zenon DEF ExclusiveIsAll, topo, list, job, sockets, cores, domains,
           viaCores, groups

(* The parts and lists of threads that the runs have.                      *)
IsThreads(q) == q \in Seq(Nat) /\ IsOnce(q) /\ ToSet(q) \subseteq 0..3

LEMMA ThreadsAreThreads ==
  /\ IsThreads(<<>>) /\ \A a \in 0..3 : IsThreads(<<a>>)
  /\ \A a, b \in 0..3 : a # b => IsThreads(<<a, b>>)
  /\ IsThreads(<<0, 1, 2, 3>>)
<1>1. IsThreads(<<>>)
  BY DEF IsThreads, IsOnce, ToSet
<1>2. ASSUME NEW a \in 0..3 PROVE IsThreads(<<a>>)
  BY DEF IsThreads, IsOnce, ToSet
<1>3. ASSUME NEW a \in 0..3, NEW b \in 0..3, a # b PROVE IsThreads(<<a, b>>)
  BY <1>3 DEF IsThreads, IsOnce, ToSet
<1>4. IsThreads(<<0, 1, 2, 3>>)
  BY DEF IsThreads, IsOnce, ToSet
<1> QED BY <1>1, <1>2, <1>3, <1>4

AreThreads(parts) ==
  (\E n \in Nat : DOMAIN parts = 1..n) /\ \A p \in DOMAIN parts : IsThreads(parts[p])

LEMMA PartsAreThreads ==
  /\ \A a : IsThreads(a) => AreThreads(<<a>>)
  /\ \A a, b : IsThreads(a) /\ IsThreads(b) => AreThreads(<<a, b>>)
  /\ \A a, b, c : IsThreads(a) /\ IsThreads(b) /\ IsThreads(c) => AreThreads(<<a, b, c>>)
  /\ \A a, b, c, d : IsThreads(a) /\ IsThreads(b) /\ IsThreads(c) /\ IsThreads(d) =>
       AreThreads(<<a, b, c, d>>)
<1>1. ASSUME NEW a, IsThreads(a) PROVE AreThreads(<<a>>)
  BY <1>1 DEF AreThreads
<1>2. ASSUME NEW a, IsThreads(a), NEW b, IsThreads(b) PROVE AreThreads(<<a, b>>)
  BY <1>2 DEF AreThreads
<1>3. ASSUME NEW a, IsThreads(a), NEW b, IsThreads(b), NEW c, IsThreads(c)
      PROVE  AreThreads(<<a, b, c>>)
  BY <1>3 DEF AreThreads
<1>4. ASSUME NEW a, IsThreads(a), NEW b, IsThreads(b), NEW c, IsThreads(c),
             NEW d, IsThreads(d)
      PROVE  AreThreads(<<a, b, c, d>>)
  BY <1>4 DEF AreThreads
<1> QED BY <1>1, <1>2, <1>3, <1>4

LEMMA SocketsAreThreads == \A s \in Sockets \cup Domains : AreThreads(s)
<1>1. AreThreads(<<<<0, 1, 2, 3>>>>)
  BY ThreadsAreThreads, PartsAreThreads
<1>2. /\ IsThreads(<<0, 1>>) /\ IsThreads(<<2, 3>>) /\ IsThreads(<<0, 2>>)
      /\ IsThreads(<<3, 1>>) /\ IsThreads(<<0>>) /\ IsThreads(<<3, 2>>)
  BY ThreadsAreThreads
<1>3. AreThreads(<<<<0, 1>>, <<2, 3>>>>)
  BY <1>2, PartsAreThreads
<1>4. AreThreads(<<<<0, 2>>, <<3, 1>>>>)
  BY <1>2, PartsAreThreads
<1>5. AreThreads(<<<<0>>, <<2, 3>>>>)
  BY <1>2, PartsAreThreads
<1>6. AreThreads(<<<<>>, <<3, 2>>, <<0, 1>>>>)
  BY <1>2, ThreadsAreThreads, PartsAreThreads
<1>7. ASSUME NEW s \in Sockets \cup Domains
      PROVE  \/ s = <<<<0, 1, 2, 3>>>> \/ s = <<<<0, 1>>, <<2, 3>>>>
             \/ s = <<<<0, 2>>, <<3, 1>>>> \/ s = <<<<0>>, <<2, 3>>>>
             \/ s = <<<<>>, <<3, 2>>, <<0, 1>>>>
  BY Zenon DEF Sockets, Domains
<1> QED BY <1>1, <1>3, <1>4, <1>5, <1>6, <1>7, Zenon

(* Every thread of the runs is in a core.                                  *)
HoldAll(parts) == \A t \in 0..3 : \E p \in DOMAIN parts : t \in ToSet(parts[p])

LEMMA CoresAreThreads ==
  \A c \in {<<<<0>>, <<1>>, <<2>>, <<3>>>>, <<<<0, 1>>, <<2, 3>>>>, <<<<0, 2>>, <<1, 3>>>>} :
    AreThreads(c) /\ HoldAll(c)
<1>1. \A a : a \in ToSet(<<a>>)
  BY DEF ToSet
<1>2. \A a, b : a \in ToSet(<<a, b>>) /\ b \in ToSet(<<a, b>>)
  BY DEF ToSet
<1>3. \A t \in 0..3 : t = 0 \/ t = 1 \/ t = 2 \/ t = 3
  OBVIOUS
<1>4. ASSUME NEW a, NEW b, NEW c, NEW d, 0 \in ToSet(a), 1 \in ToSet(b), 2 \in ToSet(c),
             3 \in ToSet(d)
      PROVE  HoldAll(<<a, b, c, d>>)
  <2>1. /\ DOMAIN <<a, b, c, d>> = 1..4 /\ <<a, b, c, d>>[1] = a /\ <<a, b, c, d>>[2] = b
        /\ <<a, b, c, d>>[3] = c /\ <<a, b, c, d>>[4] = d
    OBVIOUS
  <2> DEFINE q == <<a, b, c, d>>
  <2> HIDE DEF q
  <2>2. 1 \in DOMAIN q /\ 2 \in DOMAIN q /\ 3 \in DOMAIN q /\ 4 \in DOMAIN q
    BY <2>1 DEF q
  <2>3. 0 \in ToSet(q[1]) /\ 1 \in ToSet(q[2]) /\ 2 \in ToSet(q[3]) /\ 3 \in ToSet(q[4])
    BY <1>4, <2>1 DEF q
  <2>4. HoldAll(q)
    BY ONLY <1>3, <2>2, <2>3, Zenon DEF HoldAll
  <2> QED BY <2>4 DEF q
<1>5. ASSUME NEW a, NEW b, \A t \in 0..3 : t \in ToSet(a) \/ t \in ToSet(b)
      PROVE  HoldAll(<<a, b>>)
  BY <1>5 DEF HoldAll
<1>6. AreThreads(<<<<0>>, <<1>>, <<2>>, <<3>>>>) /\ HoldAll(<<<<0>>, <<1>>, <<2>>, <<3>>>>)
  <2>1. IsThreads(<<0>>) /\ IsThreads(<<1>>) /\ IsThreads(<<2>>) /\ IsThreads(<<3>>)
    BY ThreadsAreThreads
  <2> QED BY <1>1, <1>4, <2>1, PartsAreThreads
<1>7. AreThreads(<<<<0, 1>>, <<2, 3>>>>) /\ HoldAll(<<<<0, 1>>, <<2, 3>>>>)
  <2>1. IsThreads(<<0, 1>>) /\ IsThreads(<<2, 3>>)
    BY ThreadsAreThreads
  <2> QED BY <1>2, <1>3, <1>5, <2>1, PartsAreThreads
<1>8. AreThreads(<<<<0, 2>>, <<1, 3>>>>) /\ HoldAll(<<<<0, 2>>, <<1, 3>>>>)
  <2>1. IsThreads(<<0, 2>>) /\ IsThreads(<<1, 3>>)
    BY ThreadsAreThreads
  <2> QED BY <1>2, <1>3, <1>5, <2>1, PartsAreThreads
<1> QED BY <1>6, <1>7, <1>8, Zenon

LEMMA TopologyInitIs == TopologyInit => TopologyInv
<1> SUFFICES ASSUME TopologyInit PROVE TopologyInv
  OBVIOUS
<1> DEFINE Cores == {<<<<0>>, <<1>>, <<2>>, <<3>>>>, <<<<0, 1>>, <<2, 3>>>>,
                     <<<<0, 2>>, <<1, 3>>>>}
<1>1. PICK s \in Sockets, c \in Cores, d \in Domains, list \in Lists(0..3) :
        st = [kind |-> "topology", topo |-> [socket |-> s, core |-> c, memoryDomain |-> d],
              list |-> list]
  BY Zenon DEF TopologyInit
<1>2. AreThreads(s) /\ AreThreads(d)
  BY SocketsAreThreads
<1>3. AreThreads(c) /\ HoldAll(c)
  BY CoresAreThreads, Zenon
<1> HIDE DEF Cores
<1>4. list \in Seq(Nat) /\ IsOnce(list)
  <2>1. CASE list = <<0, 1, 2, 3>>
    BY <2>1, ThreadsAreThreads DEF IsThreads
  <2>2. CASE list # <<0, 1, 2, 3>>
    <3>1. PICK n \in 0..3 : /\ list \in [1..n -> 0..3]
                            /\ \A i, j \in 1..n : list[i] = list[j] => i = j
      BY <2>2 DEF Lists
    <3> QED BY <3>1 DEF IsOnce
  <2> QED BY <2>1, <2>2
<1>5. IsParts(s) /\ IsParts(c) /\ IsParts(d)
  BY <1>2, <1>3 DEF AreThreads, IsThreads, IsParts
<1>6. \A p \in DOMAIN s : ToSet(s[p]) \subseteq 0..3
  BY <1>2 DEF AreThreads, IsThreads
<1>7. /\ st.topo.socket = s /\ st.topo.core = c /\ st.topo.memoryDomain = d
      /\ st.list = list
  BY ONLY <1>1
<1>8. IsTopology(st.topo)
  BY ONLY <1>3, <1>5, <1>6, <1>7 DEF IsTopology, HoldAll
<1> QED BY ONLY <1>4, <1>7, <1>8 DEF TopologyInv
-----------------------------------------------------------------------------
(* The names of Ganglia and the columns of QuestDB.                         *)
(* What is made of the parts of a name, place by place. *)
AppendPart(c, out, i) ==
  out \o (IF c.name[i] = c.type THEN <<c.type, c.id>> ELSE <<c.name[i]>>)
AnyName(c, T, out) == TRUE
Renaming == INSTANCE Folding WITH Op <- AppendPart, Choose <- Max, Keeps <- AnyName

NamedUpto(c, k) == Renaming!Folded(c, <<>>, 1..k)
PartOfName(c, i) == IF c.name[i] = c.type THEN <<c.type, c.id>> ELSE <<c.name[i]>>
IsNaming(c, X) == c.name \in Seq(X) /\ c.type \in X /\ c.id \in X

LEMMA ReplacedIsUpto ==
  ASSUME NEW X, NEW c, IsNaming(c, X)
  PROVE  Replaced(c.name, c.type, <<c.type, c.id>>) = NamedUpto(c, Len(c.name))
<1>1. Replaced(c.name, c.type, <<c.type, c.id>>) = Renaming!Folded(c, <<>>, DOMAIN c.name)
  BY Zenon DEF AppendPart, Replaced, FoldLeft, Renaming!Folded, MapThenFoldSet,
     Renaming!MapThenFoldSet
<1>2. DOMAIN c.name = 1..Len(c.name)
  BY DEF IsNaming
<1> QED BY <1>1, <1>2 DEF NamedUpto

LEMMA UptoIsStepwise ==
  ASSUME NEW c
  PROVE  /\ NamedUpto(c, 0) = <<>>
         /\ \A k \in Nat : NamedUpto(c, k + 1) = NamedUpto(c, k) \o PartOfName(c, k + 1)
<1>1. NamedUpto(c, 0) = <<>>
  <2>1. 1..0 = {}
    OBVIOUS
  <2> QED BY <2>1, Renaming!EmptyFold DEF NamedUpto
<1>2. ASSUME NEW k \in Nat PROVE NamedUpto(c, k + 1) = NamedUpto(c, k) \o PartOfName(c, k + 1)
  <2> DEFINE T == 1..k + 1
  <2>1. k + 1 \in Nat /\ k + 1 \in T
    OBVIOUS
  <2>2. Renaming!IsFiniteSet(T)
    <3>1. IsFiniteSet(T)
      BY <2>1, FS_Interval
    <3> QED BY <3>1, Zenon DEF IsFiniteSet, Renaming!IsFiniteSet
  <2>3. \A U \in SUBSET T : U # {} => Max(U) \in U
    BY <2>1, Renaming!MaxIsElement DEF Max, Renaming!Max
  <2>4. Max(T) = k + 1
    BY DEF Max
  <2>5. T \ {Max(T)} = 1..k
    BY <2>4
  <2> HIDE DEF T
  <2>6. Renaming!Folded(c, <<>>, T) =
          AppendPart(c, Renaming!Folded(c, <<>>, T \ {Max(T)}), Max(T))
    BY ONLY <2>1, <2>2, <2>3, Renaming!FoldSplits
  <2> QED BY <2>4, <2>5, <2>6 DEF NamedUpto, AppendPart, PartOfName, T
<1> QED BY <1>1, <1>2

LEMMA PartOfNameIs ==
  ASSUME NEW X, NEW c, IsNaming(c, X), NEW i \in 1..Len(c.name)
  PROVE  /\ PartOfName(c, i) \in Seq(X)
         /\ c.name[i] # c.type => /\ Len(PartOfName(c, i)) = 1
                                  /\ PartOfName(c, i)[1] = c.name[i]
         /\ c.name[i] = c.type => /\ Len(PartOfName(c, i)) = 2
                                  /\ PartOfName(c, i)[1] = c.name[i]
                                  /\ PartOfName(c, i)[2] = c.id
<1>1. c.name[i] \in X /\ c.type \in X /\ c.id \in X
  BY DEF IsNaming
<1>2. ASSUME NEW a \in X, NEW b \in X
      PROVE  <<a, b>> \in Seq(X) /\ Len(<<a, b>>) = 2 /\ <<a, b>>[1] = a /\ <<a, b>>[2] = b
  OBVIOUS
<1>3. ASSUME NEW a \in X PROVE <<a>> \in Seq(X) /\ Len(<<a>>) = 1 /\ <<a>>[1] = a
  OBVIOUS
<1> QED BY <1>1, <1>2, <1>3 DEF PartOfName

(* What was made stays, and the parts that are no type are as they were.   *)
HasBeginning(a, b) ==
  Len(a) <= Len(b) /\ \A j \in 1..Len(a) : b[j] = a[j]

LEMMA Lengthened ==
  ASSUME NEW X, NEW a \in Seq(X), NEW b \in Seq(X), NEW c \in Seq(X), HasBeginning(a, b)
  PROVE  HasBeginning(a, b \o c) /\ b \o c \in Seq(X) /\ Len(b \o c) = Len(b) + Len(c)
         /\ \A j \in 1..Len(c) : (b \o c)[Len(b) + j] = c[j]
<1>1. /\ b \o c \in Seq(X) /\ Len(b \o c) = Len(b) + Len(c)
      /\ \A j \in 1..Len(b) + Len(c) :
           (b \o c)[j] = IF j <= Len(b) THEN b[j] ELSE c[j - Len(b)]
  BY ConcatProperties
<1> DEFINE d == b \o c
<1> HIDE DEF d
<1>2. /\ d \in Seq(X) /\ Len(d) = Len(b) + Len(c)
      /\ \A j \in 1..Len(b) + Len(c) : d[j] = IF j <= Len(b) THEN b[j] ELSE c[j - Len(b)]
  BY <1>1 DEF d
<1>3. Len(a) \in Nat /\ Len(b) \in Nat /\ Len(c) \in Nat
  OBVIOUS
<1>4. \A j \in 1..Len(a) : d[j] = a[j]
  BY <1>2, <1>3 DEF HasBeginning
<1>5. \A j \in 1..Len(c) : d[Len(b) + j] = c[j]
  BY <1>2, <1>3
<1>6. Len(a) <= Len(d)
  BY <1>2, <1>3 DEF HasBeginning
<1> QED BY <1>2, <1>4, <1>5, <1>6 DEF HasBeginning, d

LEMMA UptoGrows ==
  ASSUME NEW X, NEW c, IsNaming(c, X), NEW k \in 0..Len(c.name), NEW n \in k..Len(c.name)
  PROVE  /\ NamedUpto(c, n) \in Seq(X) /\ HasBeginning(NamedUpto(c, k), NamedUpto(c, n))
         /\ (\A m \in k + 1..n : c.name[m] # c.type) =>
              Len(NamedUpto(c, n)) = Len(NamedUpto(c, k)) + (n - k)
<1> DEFINE N == Len(c.name)
           Out(i) == NamedUpto(c, i)
           Typed == {i \in Nat : i <= N => Out(i) \in Seq(X)}
           Plain(i) == \A m \in k + 1..k + i : c.name[m] # c.type
           Longer == {i \in Nat : k + i <= N =>
                        /\ HasBeginning(Out(k), Out(k + i))
                        /\ Plain(i) => Len(Out(k + i)) = Len(Out(k)) + i}
<1>0. N \in Nat /\ c.name \in Seq(X)
  BY DEF IsNaming
<1>1. Out(0) = <<>>
  BY UptoIsStepwise
<1>2. \A i \in Nat : Out(i + 1) = Out(i) \o PartOfName(c, i + 1)
  BY UptoIsStepwise
<1> HIDE DEF Out, N
<1>3. Nat \subseteq Typed
  <2>1. 0 \in Typed
    <3>1. <<>> \in Seq(X)
      OBVIOUS
    <3>2. Out(0) \in Seq(X)
      BY <1>1, <3>1, Zenon
    <3> QED BY <3>2
  <2>2. ASSUME NEW i \in Nat, i \in Typed PROVE i + 1 \in Typed
    <3> SUFFICES ASSUME i + 1 <= N PROVE Out(i + 1) \in Seq(X)
      OBVIOUS
    <3>1. Out(i) \in Seq(X) /\ PartOfName(c, i + 1) \in Seq(X)
      BY <1>0, <2>2, PartOfNameIs DEF N
    <3>2. Out(i) \o PartOfName(c, i + 1) \in Seq(X)
      BY <3>1, ConcatProperties
    <3> QED BY <1>2, <3>2
  <2> HIDE DEF Typed
  <2> QED BY <2>1, <2>2, Renaming!NumbersInduction
<1>4. ASSUME NEW i \in Nat, i <= N PROVE Out(i) \in Seq(X)
  BY <1>3, <1>4
<1>5. Nat \subseteq Longer
  <2>1. 0 \in Longer
    <3>1. k + 0 = k /\ k \in Nat
      BY <1>0 DEF N
    <3>2. k <= N => Out(k) \in Seq(X)
      BY <1>4, <3>1
    <3>3. k <= N => HasBeginning(Out(k), Out(k)) /\ Len(Out(k)) = Len(Out(k)) + 0
      BY <3>2 DEF HasBeginning
    <3> QED BY <3>1, <3>3
  <2>2. ASSUME NEW i \in Nat, i \in Longer PROVE i + 1 \in Longer
    <3> SUFFICES ASSUME k + (i + 1) <= N
                 PROVE  /\ HasBeginning(Out(k), Out(k + (i + 1)))
                        /\ Plain(i + 1) => Len(Out(k + (i + 1))) = Len(Out(k)) + (i + 1)
      OBVIOUS
    <3> DEFINE j == k + i
               p == PartOfName(c, j + 1)
    <3>1. j \in Nat /\ j <= N /\ k + (i + 1) = j + 1 /\ j + 1 \in 1..N /\ k \in Nat /\ k <= N
      BY <1>0 DEF N
    <3>2. HasBeginning(Out(k), Out(j)) /\ (Plain(i) => Len(Out(j)) = Len(Out(k)) + i)
      BY <2>2, <3>1
    <3>3. Plain(i + 1) => Plain(i) /\ c.name[j + 1] # c.type
      BY <3>1
    <3>4. p \in Seq(X) /\ (c.name[j + 1] # c.type => Len(p) = 1)
      BY <3>1, PartOfNameIs DEF N
    <3> HIDE DEF p, Plain
    <3>5. Out(k) \in Seq(X) /\ Out(j) \in Seq(X)
      BY <1>4, <3>1
    <3>6. Out(j + 1) = Out(j) \o p
      BY <1>2, <3>1 DEF p
    <3> HIDE DEF j
    <3>7. HasBeginning(Out(k), Out(j) \o p) /\ Len(Out(j) \o p) = Len(Out(j)) + Len(p)
      BY <3>2, <3>4, <3>5, Lengthened
    <3>8. Len(Out(k)) \in Nat
      BY <3>5
    <3>9. HasBeginning(Out(k), Out(j + 1)) /\ Len(Out(j + 1)) = Len(Out(j)) + Len(p)
      BY <3>6, <3>7, Zenon
    <3>10. Plain(i + 1) => Len(Out(j + 1)) = Len(Out(k)) + (i + 1)
      <4>1. ASSUME Plain(i + 1)
            PROVE  Len(Out(j + 1)) = Len(Out(k)) + (i + 1)
        <5>1. Len(p) = 1 /\ Len(Out(j)) = Len(Out(k)) + i
          BY <3>2, <3>3, <3>4, <4>1, Zenon
        <5>2. Len(Out(j + 1)) = (Len(Out(k)) + i) + 1
          BY <3>9, <5>1, Zenon
        <5>3. \A l \in Nat : (l + i) + 1 = l + (i + 1)
          OBVIOUS
        <5> QED BY <3>8, <5>2, <5>3, Zenon
      <4> QED BY <4>1, Zenon
    <3> QED BY ONLY <3>1, <3>9, <3>10
  <2> HIDE DEF Longer
  <2> QED BY <2>1, <2>2, Renaming!NumbersInduction
<1>6. n - k \in Nat /\ k + (n - k) = n /\ n \in Nat /\ n <= N
  BY <1>0 DEF N
<1>7. n - k \in Longer
  <2> HIDE DEF Longer
  <2> QED BY <1>5, <1>6
<1>8. /\ HasBeginning(Out(k), Out(n))
      /\ (\A m \in k + 1..n : c.name[m] # c.type) => Len(Out(n)) = Len(Out(k)) + (n - k)
  BY <1>6, <1>7
<1>9. Out(n) \in Seq(X)
  BY <1>4, <1>6
<1> QED BY <1>8, <1>9 DEF Out

LastPart(c, i) == PartOfName(c, i)[Len(PartOfName(c, i))]

(* Two namings of a name that come out alike end alike at the last place   *)
(* that either of them changes.                                            *)
LEMMA SameEnd ==
  ASSUME NEW X, NEW c, NEW d, IsNaming(c, X), IsNaming(d, X), c.name = d.name,
         NEW k \in 1..Len(c.name),
         \A m \in k + 1..Len(c.name) : c.name[m] # c.type /\ c.name[m] # d.type,
         NamedUpto(c, Len(c.name)) = NamedUpto(d, Len(c.name))
  PROVE  LastPart(c, k) = LastPart(d, k)
<1> DEFINE N == Len(c.name)
<1>0. N \in Nat /\ k - 1 \in Nat /\ k \in 0..N /\ N \in k..N /\ k - 1 \in 0..N
      /\ k \in k - 1..N /\ (k - 1) + 1 = k
  BY DEF IsNaming
<1>1. ASSUME NEW e, IsNaming(e, X), e.name = c.name,
             \A m \in k + 1..N : c.name[m] # e.type
      PROVE  \E l \in Nat : /\ l >= 1 /\ l + (N - k) = Len(NamedUpto(e, N))
                            /\ NamedUpto(e, N)[l] = LastPart(e, k)
  <2> DEFINE b == NamedUpto(e, k - 1)
             p == PartOfName(e, k)
             u == NamedUpto(e, k)
  <2>1. b \in Seq(X) /\ u \in Seq(X)
    BY <1>0, <1>1, UptoGrows
  <2>2. p \in Seq(X) /\ Len(p) \in {1, 2}
    BY <1>0, <1>1, PartOfNameIs
  <2>3. u = b \o p
    BY <1>0, UptoIsStepwise
  <2>4. HasBeginning(u, NamedUpto(e, N)) /\ Len(NamedUpto(e, N)) = Len(u) + (N - k)
    <3>1. /\ k \in 0..Len(e.name) /\ N \in k..Len(e.name)
          /\ \A m \in k + 1..N : e.name[m] # e.type
      BY <1>0, <1>1
    <3>2. /\ HasBeginning(NamedUpto(e, k), NamedUpto(e, N))
          /\ Len(NamedUpto(e, N)) = Len(NamedUpto(e, k)) + (N - k)
      BY <1>1, <3>1, UptoGrows, ZenonT(30)
    <3> QED BY <3>2
  <2> HIDE DEF b, p, u
  <2>5. Len(u) = Len(b) + Len(p) /\ u[Len(b) + Len(p)] = p[Len(p)]
    <3>1. HasBeginning(b, b)
      BY <2>1 DEF HasBeginning
    <3>2. /\ Len(b \o p) = Len(b) + Len(p)
          /\ \A j \in 1..Len(p) : (b \o p)[Len(b) + j] = p[j]
      BY ONLY <2>1, <2>2, <3>1, Lengthened
    <3>3. Len(p) \in 1..Len(p)
      BY ONLY <2>2, SMTT(20)
    <3> QED BY ONLY <2>3, <3>2, <3>3
  <2>6. Len(u) \in Nat /\ Len(u) >= 1
    <3>1. Len(b) \in Nat /\ Len(u) \in Nat
      BY <2>1
    <3>2. ASSUME NEW x \in Nat, NEW y \in {1, 2} PROVE x + y >= 1
      OBVIOUS
    <3> QED BY <2>2, <2>5, <3>1, <3>2, Zenon
  <2>7. NamedUpto(e, N)[Len(u)] = u[Len(u)]
    BY <2>4, <2>6 DEF HasBeginning
  <2>8. u[Len(u)] = LastPart(e, k)
    BY <2>5 DEF LastPart, p
  <2> QED BY <2>4, <2>6, <2>7, <2>8
<1>2. PICK l \in Nat : /\ l >= 1 /\ l + (N - k) = Len(NamedUpto(c, N))
                 /\ NamedUpto(c, N)[l] = LastPart(c, k)
  BY <1>1
<1>3. PICK m \in Nat : /\ m >= 1 /\ m + (N - k) = Len(NamedUpto(d, N))
                 /\ NamedUpto(d, N)[m] = LastPart(d, k)
  BY <1>1
<1>4. l = m
  BY <1>0, <1>2, <1>3
<1> QED BY <1>2, <1>3, <1>4

(* A naming that changes a part of the name begins as the name does.       *)
LEMMA SameBeginning ==
  ASSUME NEW X, NEW c, IsNaming(c, X), Len(c.name) > 0
  PROVE  NamedUpto(c, Len(c.name))[1] = c.name[1]
<1> DEFINE N == Len(c.name)
<1>0. N \in Nat /\ 1 \in 0..N /\ N \in 1..N /\ 1 \in 1..N
  BY DEF IsNaming
<1>1. NamedUpto(c, 1) = PartOfName(c, 1)
  <2>1. NamedUpto(c, 1) = <<>> \o PartOfName(c, 1)
    <3>1. 0 \in Nat /\ 0 + 1 = 1
      OBVIOUS
    <3> QED BY <3>1, UptoIsStepwise, Zenon
  <2>2. PartOfName(c, 1) \in Seq(X)
    BY <1>0, PartOfNameIs
  <2> QED BY <2>1, <2>2
<1>2. HasBeginning(NamedUpto(c, 1), NamedUpto(c, N))
  BY <1>0, UptoGrows
<1>3. Len(PartOfName(c, 1)) \in {1, 2} /\ PartOfName(c, 1)[1] = c.name[1]
  BY <1>0, PartOfNameIs
<1> QED BY <1>1, <1>2, <1>3 DEF HasBeginning

(* A nonempty set of places has a last one.                                *)
LEMMA LastOfPlaces ==
  ASSUME NEW n \in Nat, NEW T \in SUBSET (1..n), T # {}
  PROVE  \E x \in T : \A m \in x + 1..n : m \notin T
<1> DEFINE Bound == {k \in Nat : \A U \in SUBSET (1..k) :
                       U # {} => \E x \in U : \A y \in U : x >= y}
<1>1. 0 \in Bound
  <2>1. 1..0 = {}
    OBVIOUS
  <2> QED BY <2>1
<1>2. ASSUME NEW k \in Nat, k \in Bound PROVE k + 1 \in Bound
  <2> SUFFICES ASSUME NEW U \in SUBSET (1..(k + 1)), U # {}
               PROVE  \E x \in U : \A y \in U : x >= y
    OBVIOUS
  <2>1. CASE k + 1 \in U
    BY <2>1
  <2>2. CASE k + 1 \notin U
    <3>1. U \in SUBSET (1..k)
      BY <2>2
    <3> QED BY <1>2, <3>1
  <2> QED BY <2>1, <2>2
<1>3. n \in Bound
  <2> HIDE DEF Bound
  <2> QED BY <1>1, <1>2, Renaming!NumbersInduction
<1>4. PICK x \in T : \A y \in T : x >= y
  BY <1>3
<1> QED BY <1>4

IsNamed(c) == c.type \in ToSet(c.name)

(* Two namings that come out alike are of one type and one id.             *)
LEMMA NamingsDiffer ==
  ASSUME NEW X, NEW c, NEW d, IsNaming(c, X), IsNaming(d, X), c.name = d.name,
         IsNamed(c), IsNamed(d), c.id # c.type, d.id # d.type,
         NamedUpto(c, Len(c.name)) = NamedUpto(d, Len(c.name))
  PROVE  c.type = d.type /\ c.id = d.id
<1> DEFINE N == Len(c.name)
           T == {i \in 1..N : c.name[i] = c.type \/ c.name[i] = d.type}
<1>0. N \in Nat /\ DOMAIN c.name = 1..N
  BY DEF IsNaming
<1>1. T # {}
  BY <1>0 DEF IsNamed, ToSet
<1>2. PICK k \in T : \A m \in k + 1..N : m \notin T
  <2>1. T \in SUBSET (1..N)
    OBVIOUS
  <2> HIDE DEF T, N
  <2> QED BY <1>0, <1>1, <2>1, LastOfPlaces
<1>3. k \in 1..N /\ \A m \in k + 1..N : c.name[m] # c.type /\ c.name[m] # d.type
  BY <1>0, <1>2
<1>4. LastPart(c, k) = LastPart(d, k)
  BY <1>3, SameEnd
<1>5. ASSUME NEW e, IsNaming(e, X), e.name = c.name
      PROVE  LastPart(e, k) = IF c.name[k] = e.type THEN e.id ELSE c.name[k]
  <2>1. k \in 1..Len(e.name)
    BY <1>3, <1>5
  <2>2. /\ e.name[k] # e.type => /\ Len(PartOfName(e, k)) = 1
                                /\ PartOfName(e, k)[1] = e.name[k]
        /\ e.name[k] = e.type => /\ Len(PartOfName(e, k)) = 2
                                /\ PartOfName(e, k)[2] = e.id
    BY ONLY <1>5, <2>1, PartOfNameIs
  <2> QED BY ONLY <1>5, <2>2, Zenon DEF LastPart
<1>6. /\ LastPart(c, k) = IF c.name[k] = c.type THEN c.id ELSE c.name[k]
      /\ LastPart(d, k) = IF c.name[k] = d.type THEN d.id ELSE c.name[k]
  BY <1>5
<1>7. c.name[k] = c.type \/ c.name[k] = d.type
  BY <1>2
<1> QED BY <1>4, <1>6, <1>7, Zenon

(* What is put before a name that the type is not in.                      *)
Put(a, b, e, q) == <<a, b, e>> \o q

LEMMA PutBefore ==
  ASSUME NEW X, NEW a \in X, NEW b \in X, NEW e \in X, NEW q \in Seq(X)
  PROVE  Put(a, b, e, q)[1] = a /\ Put(a, b, e, q)[2] = b
<1> DEFINE p == <<a, b, e>>
<1>1. p \in Seq(X) /\ Len(p) = 3 /\ p[1] = a /\ p[2] = b
  OBVIOUS
<1> HIDE DEF p
<1>2. \A j \in 1..Len(p) + Len(q) : (p \o q)[j] = IF j <= Len(p) THEN p[j] ELSE q[j - Len(p)]
  BY <1>1, ConcatProperties
<1>3. Len(q) \in Nat
  OBVIOUS
<1>4. /\ 1 \in 1..Len(p) + Len(q) /\ 2 \in 1..Len(p) + Len(q)
      /\ 1 <= Len(p) /\ 2 <= Len(p)
  BY <1>1, <1>3
<1>5. (p \o q)[1] = a /\ (p \o q)[2] = b
  BY <1>1, <1>2, <1>4, Zenon
<1> QED BY <1>5 DEF Put, p

LEMMA PlacesOfNames ==
  \A X : \A q \in Seq(X) : DOMAIN q = 1..Len(q) /\ Len(q) \in Nat
OBVIOUS

(* The name of a metric of a part of the node tells which part it is.      *)
Naming(c) == IF IsNamed(c) THEN NamedUpto(c, Len(c.name)) ELSE <<c.type, c.id, "_">> \o c.name

LEMMA NamesTellParts ==
  ASSUME NEW X, NEW c, NEW d, IsNaming(c, X), IsNaming(d, X), c.name = d.name, "_" \in X,
         c.id # c.type, d.id # d.type, Naming(c) = Naming(d)
  PROVE  c.type = d.type /\ c.id = d.id
<1>1. ASSUME NEW e, IsNaming(e, X), IsNamed(e)
      PROVE  Naming(e)[1] = e.name[1] /\ 1 \in DOMAIN e.name
  <2>1. Len(e.name) > 0 /\ 1 \in DOMAIN e.name
    <3>1. DOMAIN e.name = 1..Len(e.name) /\ Len(e.name) \in Nat
      <4>1. e.name \in Seq(X)
        BY <1>1, Zenon DEF IsNaming
      <4> QED BY ONLY <4>1, PlacesOfNames, Zenon
    <3>2. \E i \in DOMAIN e.name : TRUE
      BY <1>1, Zenon DEF IsNamed, ToSet
    <3> QED BY ONLY <3>1, <3>2
  <2> QED BY <1>1, <2>1, SameBeginning, Zenon DEF Naming
<1>2. ASSUME NEW e, IsNaming(e, X), ~IsNamed(e)
      PROVE  Naming(e)[1] = e.type /\ Naming(e)[2] = e.id
  <2>1. Naming(e) = Put(e.type, e.id, "_", e.name)
    BY <1>2, Zenon DEF Naming, Put
  <2>2. e.type \in X /\ e.id \in X /\ e.name \in Seq(X)
    BY <1>2, Zenon DEF IsNaming
  <2> HIDE DEF IsNaming
  <2>3. Put(e.type, e.id, "_", e.name)[1] = e.type /\ Put(e.type, e.id, "_", e.name)[2] = e.id
    <3>1. \A a \in X : \A b \in X : \A f \in X : \A q \in Seq(X) :
            Put(a, b, f, q)[1] = a /\ Put(a, b, f, q)[2] = b
      BY ONLY PutBefore, Zenon
    <3>2. \A f \in X : \A q \in Seq(X) :
            Put(e.type, e.id, f, q)[1] = e.type /\ Put(e.type, e.id, f, q)[2] = e.id
      BY ONLY <2>2, <3>1, Zenon
    <3>3. \A q \in Seq(X) :
            Put(e.type, e.id, "_", q)[1] = e.type /\ Put(e.type, e.id, "_", q)[2] = e.id
      BY <3>2, Zenon
    <3> QED BY ONLY <2>2, <3>3, Zenon
  <2> QED BY <2>1, <2>3, Zenon
<1>3. ASSUME NEW e, ~IsNamed(e), 1 \in DOMAIN e.name PROVE e.name[1] # e.type
  BY <1>3, Zenon DEF IsNamed, ToSet
<1>4. CASE IsNamed(c) /\ IsNamed(d)
  <2>1. NamedUpto(c, Len(c.name)) = NamedUpto(d, Len(c.name))
    BY <1>4, Zenon DEF Naming
  <2> QED BY <1>4, <2>1, NamingsDiffer, Zenon
<1>5. CASE IsNamed(c) /\ ~IsNamed(d)
  BY <1>1, <1>2, <1>3, <1>5, Zenon
<1>6. CASE ~IsNamed(c) /\ IsNamed(d)
  BY <1>1, <1>2, <1>3, <1>6, Zenon
<1>7. CASE ~IsNamed(c) /\ ~IsNamed(d)
  BY <1>2, <1>7, Zenon
<1> QED BY <1>4, <1>5, <1>6, <1>7, Zenon

-----------------------------------------------------------------------------
(* A message for Ganglia whose id is not its type, and a number.           *)
SinkInv ==
  /\ Is("gangliaName") =>
       /\ \E X : st.name \in Seq(X)
       /\ {"name", "id", "type"} \subseteq DOMAIN st /\ IsMap(st)
       /\ st.id # "" => st.id # st.type
  /\ Is("column") => st.field.value \in Int

LEMMA WiderLists == ASSUME NEW X, NEW Y, X \subseteq Y, NEW q \in Seq(X) PROVE q \in Seq(Y)
OBVIOUS

(* The name that is asked for is the name of a part.                       *)
LEMMA NameIsNaming ==
  ASSUME NEW X, NEW c, IsNaming(c, X), c.type # "", c.id # ""
  PROVE  GangliaMetricName(c) = Naming(c)
<1>1. GangliaMetricName(c) = IF c.type \in ToSet(c.name)
                             THEN Replaced(c.name, c.type, <<c.type, c.id>>)
                             ELSE <<c.type, c.id, "_">> \o c.name
  BY Zenon DEF GangliaMetricName
<1>2. Replaced(c.name, c.type, <<c.type, c.id>>) = NamedUpto(c, Len(c.name))
  BY ReplacedIsUpto, Zenon
<1> QED BY <1>1, <1>2, Zenon DEF Naming, IsNamed

LEMMA NamesDiffer ==
  ASSUME SinkInv, Is("gangliaName"), NEW id \in {"0", "1"}, NEW type \in {"cpu", "socket"},
         st.id # "", st.type # "",
         GangliaMetricName([st EXCEPT !.id = id, !.type = type]) = GangliaMetricName(st)
  PROVE  [st EXCEPT !.id = id, !.type = type] = st
<1> DEFINE n == [st EXCEPT !.id = id, !.type = type]
<1>1. n.id = id /\ n.type = type /\ n.name = st.name
  BY Zenon DEF SinkInv, IsMap
<1>2. id = st.id /\ type = st.type => n = st
  BY Zenon DEF SinkInv, IsMap
<1>3. PICK X : st.name \in Seq(X)
  BY Zenon DEF SinkInv
<1> DEFINE Y == X \cup {"_", st.id, st.type, id, type}
<1>4. X \subseteq Y /\ st.id \in Y /\ st.type \in Y /\ id \in Y /\ type \in Y /\ "_" \in Y
  BY Zenon
<1>5. id # "" /\ type # "" /\ id # type
  BY Zenon
<1>6. GangliaMetricName(n) = GangliaMetricName(st) /\ st.id # st.type
  BY Zenon DEF SinkInv
<1> HIDE DEF Y, n
<1>7. st.name \in Seq(Y)
  BY <1>3, <1>4, WiderLists, Zenon
<1>8. IsNaming(st, Y) /\ IsNaming(n, Y)
  BY <1>1, <1>4, <1>7, Zenon DEF IsNaming
<1>9. GangliaMetricName(st) = Naming(st) /\ GangliaMetricName(n) = Naming(n)
  BY <1>1, <1>5, <1>8, NameIsNaming, Zenon
<1>10. n.type = st.type /\ n.id = st.id
  BY ONLY <1>1, <1>4, <1>5, <1>6, <1>8, <1>9, NamesTellParts, Zenon
<1> QED BY <1>1, <1>2, <1>10, Zenon DEF n

LEMMA RenamedOnce ==
  \A n : /\ GangliaMetricRename(GangliaMetricRename(n)) = GangliaMetricRename(n)
         /\ GangliaMetricRename(n) # n => GangliaMetricRename(n) \in CommonGangliaMetrics
<1> SUFFICES ASSUME NEW n
             PROVE  /\ GangliaMetricRename(GangliaMetricRename(n)) = GangliaMetricRename(n)
                    /\ GangliaMetricRename(n) # n =>
                         GangliaMetricRename(n) \in CommonGangliaMetrics
  OBVIOUS
<1>1. {"bytes_in", "bytes_out", "pkts_in", "pkts_out", "cpu_wio"} \subseteq CommonGangliaMetrics
  BY DEF CommonGangliaMetrics, Cpu
<1>2. /\ n = "net_bytes_in" => GangliaMetricRename(n) = "bytes_in"
      /\ n = "net_bytes_out" => GangliaMetricRename(n) = "bytes_out"
      /\ n = "net_pkts_in" => GangliaMetricRename(n) = "pkts_in"
      /\ n = "net_pkts_out" => GangliaMetricRename(n) = "pkts_out"
      /\ n = "cpu_iowait" => GangliaMetricRename(n) = "cpu_wio"
  BY DEF GangliaMetricRename
<1>3. \A m : m \notin {"net_bytes_in", "net_bytes_out", "net_pkts_in", "net_pkts_out",
                       "cpu_iowait"} => GangliaMetricRename(m) = m
  BY Zenon DEF GangliaMetricRename
<1>4. \A m \in {"bytes_in", "bytes_out", "pkts_in", "pkts_out", "cpu_wio"} :
        GangliaMetricRename(m) = m
  BY DEF GangliaMetricRename
<1> QED BY <1>1, <1>2, <1>3, <1>4

LEMMA AnnouncedAsKnown ==
  ASSUME NEW m
  PROVE  /\ GangliaWrite(m).type # ""
         /\ GangliaMetricRename(GangliaWrite(m).name) = GangliaWrite(m).name
<1> DEFINE o == IF m.oldname # "" THEN m.oldname ELSE m.plain
           name == GangliaMetricRename(o)
           common == GetCommonGangliaConfig(name)
           own == GetGangliaConfig(name, m.value)
<1>1. GangliaWrite(m) = IF common.type # "" THEN common ELSE own
  BY DEF GangliaWrite
<1>2. GangliaMetricRename(name) = name
  <2> HIDE DEF o
  <2> QED BY RenamedOnce
<1> HIDE DEF name
<1>3. common.type # "" => common.name = name
  BY Zenon DEF GetCommonGangliaConfig
<1>4. own.name = name
  BY DEF GetGangliaConfig
<1>5. own.type # ""
  <2> DEFINE kind == CASE m.value \in {"float64", "none"} -> "double"
                       [] m.value = "int64" -> "int32" [] m.value = "uint64" -> "uint32"
                       [] m.value = "string" -> "string" [] OTHER -> "invalid"
  <2>1. own.type = kind
    BY DEF GetGangliaConfig
  <2>2. kind # ""
    BY Zenon
  <2> QED BY <2>1, <2>2
<1> HIDE DEF common, own
<1> QED BY <1>1, <1>2, <1>3, <1>4, <1>5, Zenon

LEMMA ColumnsAreTrue ==
  ASSUME NEW f, f.value \in Int, NEW c \in Column(f)
  PROVE  c.value = f.value \/ (f.type = "uint64" /\ f.value >= 8)
<1>1. CASE f.type = "uint64"
  <2>1. Column(f) = {[type |-> "int64",
                      value |-> IF f.value < 8 THEN f.value ELSE f.value - 16]}
    BY <1>1 DEF Column
  <2>2. c.value = IF f.value < 8 THEN f.value ELSE f.value - 16
    BY <2>1
  <2> QED BY <1>1, <2>2
<1>2. CASE f.type # "uint64"
  <2>1. c \in {f}
    BY <1>2 DEF Column
  <2> QED BY <2>1
<1> QED BY <1>1, <1>2

LEMMA AnySinkIsFaithful == ASSUME SinkInv PROVE OtherSinksAreFaithful
<1>1. ASSUME Is("gangliaName"), NEW id \in {"0", "1"}, NEW type \in {"cpu", "socket"},
             st.id # "", st.type # "",
             GangliaMetricName([st EXCEPT !.id = id, !.type = type]) = GangliaMetricName(st)
      PROVE  [st EXCEPT !.id = id, !.type = type] = st
  BY <1>1, NamesDiffer, Zenon
<1>2. /\ GangliaWrite(st).type # ""
      /\ GangliaMetricRename(GangliaWrite(st).name) = GangliaWrite(st).name
      /\ \A n \in {st.plain, st.oldname} :
           GangliaMetricRename(n) # n => GangliaMetricRename(n) \in CommonGangliaMetrics
  BY AnnouncedAsKnown, RenamedOnce, Zenon
<1>3. Is("column") => \A c \in Column(st.field) :
        c.value = st.field.value \/ (st.field.type = "uint64" /\ st.field.value >= 8)
  BY ColumnsAreTrue, Zenon DEF SinkInv
<1>4. NewQuestDBSink(st) = "basic" => st.token = "" /\ st.password # ""
  BY Zenon DEF NewQuestDBSink
<1> QED BY <1>1, <1>2, <1>3, <1>4, Zenon DEF OtherSinksAreFaithful

LEMMA NamesOfRuns ==
  \A name \in {<<"cpu", "_", "load">>, <<"load">>} : \E X : name \in Seq(X)
<1>1. <<"cpu", "_", "load">> \in Seq({"cpu", "_", "load"})
  OBVIOUS
<1>2. <<"load">> \in Seq({"load"})
  OBVIOUS
<1> QED BY <1>1, <1>2, Zenon

LEMMA SinkInitIs ==
  /\ GangliaNameInit /\ Is("gangliaName") => SinkInv
  /\ ColumnInit /\ Is("column") => SinkInv
<1>1. ASSUME GangliaNameInit, Is("gangliaName") PROVE SinkInv
  <2>1. PICK name \in {<<"cpu", "_", "load">>, <<"load">>}, type \in {"", "cpu", "socket"} :
          \E id \in {"", "0", "1"}, device \in {"", "eth0"} :
            st = [kind |-> "gangliaName", name |-> name, type |-> type, id |-> id,
                  device |-> device]
    BY <1>1, Zenon DEF GangliaNameInit
  <2>2. PICK id \in {"", "0", "1"} : \E d :
          st = [kind |-> "gangliaName", name |-> name, type |-> type, id |-> id,
                device |-> d]
    BY <2>1, Zenon
  <2>3. PICK d : st = [kind |-> "gangliaName", name |-> name, type |-> type, id |-> id,
                       device |-> d]
    BY <2>2, Zenon
  <2>4. st.name = name /\ st.id = id /\ st.type = type
    BY ONLY <2>3, Zenon
  <2>5. \E X : name \in Seq(X)
    BY NamesOfRuns, Zenon
  <2>6. {"name", "id", "type"} \subseteq DOMAIN st /\ IsMap(st)
    BY ONLY <2>3, Zenon DEF IsMap
  <2>7. id # "" => id # type
    BY Zenon
  <2> QED BY ONLY <1>1, <2>4, <2>5, <2>6, <2>7, Zenon DEF SinkInv, Is
<1>2. ASSUME ColumnInit, Is("column") PROVE SinkInv
  <2>1. PICK v \in 0..15 : \E t : st = [kind |-> "column", field |-> [type |-> t, value |-> v]]
    BY <1>2, Zenon DEF ColumnInit
  <2>2. PICK t : st = [kind |-> "column", field |-> [type |-> t, value |-> v]]
    BY <2>1
  <2>3. st.field.value = v
    BY ONLY <2>2
  <2>4. v \in Int
    OBVIOUS
  <2> QED BY ONLY <1>2, <2>3, <2>4 DEF SinkInv, Is
<1> QED BY <1>1, <1>2
-----------------------------------------------------------------------------
(* The statistics of a job.                                                *)
(* The places of numbers below v, not above it, and not below it.          *)
Below(n, w, v) == {j \in 1..n : w[j] < v}
UpTo(n, w, v) == {j \in 1..n : w[j] <= v}
FromOn(n, w, v) == {j \in 1..n : w[j] >= v}
(* v is what stands at place i when the n numbers of w are sorted.         *)
IsAtPlace(n, w, i, v) ==
  /\ \E k \in 1..n : v = w[k]
  /\ Cardinality(Below(n, w, v)) < i
  /\ i <= Cardinality(UpTo(n, w, v))

LEMMA PlaceIsTaken ==
  ASSUME NEW n \in Nat, NEW w \in [1..n -> Int], NEW i \in 1..n
  PROVE  \E v \in Int : IsAtPlace(n, w, i, v)
<1> DEFINE High == {k \in 1..n : i <= Cardinality(UpTo(n, w, w[k]))}
<1>1. /\ \A v : Below(n, w, v) \in SUBSET (1..n) /\ UpTo(n, w, v) \in SUBSET (1..n)
      /\ i \in Int /\ i >= 1 /\ i <= n
  BY DEF Below, UpTo
<1>2. High # {}
  <2>1. IsFiniteSet(1..n) /\ 1..n # {} /\ Cardinality(1..n) = n
    <3>1. IsFiniteSet(1..n) /\ Cardinality(1..n) = n
      BY FS_Interval
    <3> QED BY <3>1
  <2>2. PICK k \in 1..n : \A j \in 1..n : w[j] <= w[k]
    BY <2>1, SomeIsLargest
  <2>3. UpTo(n, w, w[k]) = 1..n
    BY <2>2 DEF UpTo
  <2> QED BY <1>1, <2>1, <2>3
<1>3. PICK k \in High : \A j \in High : w[k] <= w[j]
  <2> DEFINE f == [j \in High |-> -w[j]]
  <2>1. IsFiniteSet(High) /\ f \in [High -> Int]
    <3>1. High \in SUBSET (1..n) /\ f \in [High -> Int]
      OBVIOUS
    <3> HIDE DEF High, f
    <3> QED BY <3>1, PartsAreCounted
  <2>2. PICK k \in High : \A j \in High : f[j] <= f[k]
    <3> HIDE DEF High, f
    <3> QED BY <1>2, <2>1, SomeIsLargest
  <2>3. ASSUME NEW j \in High PROVE w[k] <= w[j]
    <3>1. f[j] <= f[k] /\ f[j] = -w[j] /\ f[k] = -w[k] /\ w[j] \in Int /\ w[k] \in Int
      BY <2>2
    <3> QED BY ONLY <3>1
  <2> QED BY <2>3
<1>4. Cardinality(Below(n, w, w[k])) < i
  <2> DEFINE L == Below(n, w, w[k])
  <2> SUFFICES ASSUME ~(Cardinality(L) < i) PROVE FALSE
    OBVIOUS
  <2>1. IsFiniteSet(L) /\ Cardinality(L) \in Nat /\ i <= Cardinality(L) /\ L \in SUBSET (1..n)
    <3>1. L \in SUBSET (1..n)
      BY <1>1
    <3> HIDE DEF L
    <3>2. IsFiniteSet(L) /\ Cardinality(L) \in Nat
      BY <3>1, PartsAreCounted
    <3> QED BY <1>1, <3>1, <3>2
  <2>2. L # {}
    <3> HIDE DEF L
    <3> QED BY <1>1, <2>1, FS_EmptySet
  <2> DEFINE f == [j \in L |-> w[j]]
  <2>3. PICK m \in L : \A j \in L : f[j] <= f[m]
    <3>1. f \in [L -> Int]
      BY <2>1
    <3> HIDE DEF L, f
    <3> QED BY <2>1, <2>2, <3>1, SomeIsLargest
  <2>4. L \subseteq UpTo(n, w, w[m])
    BY <2>1, <2>3 DEF UpTo
  <2>5. Cardinality(L) <= Cardinality(UpTo(n, w, w[m])) /\ Cardinality(UpTo(n, w, w[m])) \in Nat
    <3> HIDE DEF L
    <3> QED BY <1>1, <2>4, PartsAreCounted
  <2>6. m \in High
    <3> HIDE DEF L
    <3> QED BY <1>1, <2>1, <2>3, <2>5
  <2>7. w[m] < w[k] /\ w[m] \in Int /\ w[k] \in Int
    BY <2>3 DEF Below
  <2> QED BY <1>3, <2>6, <2>7
<1>5. IsAtPlace(n, w, i, w[k]) /\ w[k] \in Int
  BY <1>4 DEF IsAtPlace
<1> QED BY <1>5

(* What stands at a later place is not less.                               *)
LEMMA PlacesIncrease ==
  ASSUME NEW n \in Nat, NEW w \in [1..n -> Int], NEW i \in 1..n, NEW j \in i..n,
         NEW u \in Int, NEW v \in Int, IsAtPlace(n, w, i, u), IsAtPlace(n, w, j, v)
  PROVE  u <= v
<1> SUFFICES ASSUME v < u PROVE FALSE
  OBVIOUS
<1>1. UpTo(n, w, v) \subseteq Below(n, w, u) /\ Below(n, w, u) \in SUBSET (1..n)
  BY DEF UpTo, Below
<1>2. Cardinality(UpTo(n, w, v)) <= Cardinality(Below(n, w, u))
  BY <1>1, PartsAreCounted
<1>3. Cardinality(UpTo(n, w, v)) \in Nat /\ Cardinality(Below(n, w, u)) \in Nat
  BY <1>1, PartsAreCounted
<1>4. Cardinality(Below(n, w, u)) < i /\ j <= Cardinality(UpTo(n, w, v))
      /\ i \in Int /\ j \in Int /\ i <= j
  BY DEF IsAtPlace
<1> QED BY ONLY <1>2, <1>3, <1>4

(* Half of the numbers are on either side of the middle.                   *)
LEMMA HalfIsBelow ==
  ASSUME NEW n \in Nat, NEW w \in [1..n -> Int], NEW i \in 1..n, NEW v \in Int,
         IsAtPlace(n, w, i, v), NEW m \in Int
  PROVE  /\ v <= m => Cardinality(UpTo(n, w, m)) >= i
         /\ m <= v => Cardinality(FromOn(n, w, m)) >= n - i + 1
<1>1. /\ Below(n, w, v) \in SUBSET (1..n) /\ UpTo(n, w, v) \in SUBSET (1..n)
      /\ Cardinality(Below(n, w, v)) < i
      /\ i <= Cardinality(UpTo(n, w, v)) /\ i \in Int
  BY DEF IsAtPlace, Below, UpTo
<1>2. /\ Cardinality(UpTo(n, w, v)) \in Nat /\ Cardinality(Below(n, w, v)) \in Nat
      /\ Cardinality((1..n) \ Below(n, w, v)) = n - Cardinality(Below(n, w, v))
  BY <1>1, PartsAreCounted
<1>3. ASSUME v <= m PROVE Cardinality(UpTo(n, w, m)) >= i
  <2> DEFINE S == UpTo(n, w, m)
  <2>1. UpTo(n, w, v) \subseteq S /\ S \in SUBSET (1..n)
    BY <1>3 DEF UpTo
  <2> HIDE DEF S
  <2>2. Cardinality(UpTo(n, w, v)) <= Cardinality(S) /\ Cardinality(S) \in Nat
    BY <2>1, PartsAreCounted
  <2>3. Cardinality(S) >= i
    BY ONLY <1>1, <1>2, <2>2
  <2> QED BY <2>3 DEF S
<1>4. ASSUME m <= v PROVE Cardinality(FromOn(n, w, m)) >= n - i + 1
  <2> DEFINE S == FromOn(n, w, m)
             A == (1..n) \ Below(n, w, v)
  <2>1. A \subseteq S /\ S \in SUBSET (1..n)
    BY <1>4 DEF Below, FromOn
  <2> HIDE DEF S
  <2>2. Cardinality(A) <= Cardinality(S) /\ Cardinality(S) \in Nat
    BY <2>1, PartsAreCounted
  <2>3. Cardinality(S) >= n - i + 1
    BY <1>1, <1>2, <2>2
  <2> QED BY <2>3 DEF S
<1> QED BY <1>3, <1>4

(* A row in which no series has NaN, of the numbers w.                     *)
Whole(n, w) == [j \in 1..n |-> {w[j]}]

LEMMA NumberIsItself ==
  ASSUME NEW v PROVE ZeroForNaN({v}) = v /\ {v} # {} /\ (CHOOSE x \in {v} : TRUE) = v
BY DEF ZeroForNaN

LEMMA BeforeIsLess == ASSUME NEW u, NEW v PROVE IsBefore({u}, {v}) <=> u < v
<1>1. ZeroForNaN({u}) = u /\ ZeroForNaN({v}) = v /\ {u} # {} /\ {v} # {}
  BY NumberIsItself
<1>2. IsBefore({u}, {v}) <=>
        {v} # {} /\ ({u} = {} \/ ZeroForNaN({u}) < ZeroForNaN({v}))
  BY DEF IsBefore
<1> QED BY ONLY <1>1, <1>2

LEMMA OnlyOfOne == ASSUME NEW v \in Int PROVE Min({v}) = v /\ Max({v}) = v
BY DEF Min, Max

LEMMA SortedIsInPlace ==
  ASSUME NEW n \in Nat, NEW w \in [1..n -> Int], NEW i \in 1..n
  PROVE  \E v \in Int : Sorted(Whole(n, w))[i] = {v} /\ IsAtPlace(n, w, i, v)
<1> DEFINE row == Whole(n, w)
           Fits(x) == /\ Cardinality({j \in DOMAIN row : IsBefore(row[j], x)}) < i
                      /\ i <= Cardinality({j \in DOMAIN row : ~IsBefore(x, row[j])})
<1>1. DOMAIN row = 1..n /\ \A j \in 1..n : row[j] = {w[j]} /\ w[j] \in Int
  BY DEF Whole
<1>2. ToSet(row) = {{w[j]} : j \in 1..n}
  BY <1>1, Zenon DEF ToSet
<1> HIDE DEF row
<1>3. ASSUME NEW v \in Int
      PROVE  /\ {j \in DOMAIN row : IsBefore(row[j], {v})} = Below(n, w, v)
             /\ {j \in DOMAIN row : ~IsBefore({v}, row[j])} = UpTo(n, w, v)
  <2>1. \A u : IsBefore({u}, {v}) <=> u < v
    BY BeforeIsLess, Zenon
  <2>2. \A u : IsBefore({v}, {u}) <=> v < u
    BY BeforeIsLess, Zenon
  <2>3. \A j \in 1..n : w[j] <= v <=> ~(v < w[j])
    BY <1>1
  <2>4. \A j \in 1..n : (IsBefore(row[j], {v}) <=> w[j] < v)
                       /\ (~IsBefore({v}, row[j]) <=> w[j] <= v)
    BY <1>1, <2>1, <2>2, <2>3, ZenonT(30)
  <2> QED BY <1>1, <2>4 DEF Below, UpTo
<1>4. \E x \in ToSet(row) : Fits(x)
  <2>1. PICK v \in Int : IsAtPlace(n, w, i, v)
    BY PlaceIsTaken
  <2>2. {v} \in ToSet(row)
    BY <1>2, <2>1 DEF IsAtPlace
  <2>3. Fits({v})
    BY <1>3, <2>1 DEF IsAtPlace
  <2> HIDE DEF Fits
  <2> QED BY <2>2, <2>3
<1>5. Sorted(row)[i] = CHOOSE x \in ToSet(row) : Fits(x)
  BY <1>1, Zenon DEF Sorted
<1>6. Sorted(row)[i] \in ToSet(row) /\ Fits(Sorted(row)[i])
  <2> HIDE DEF Fits
  <2> QED BY <1>4, <1>5
<1>7. PICK k \in 1..n : Sorted(row)[i] = {w[k]} /\ w[k] \in Int
  BY <1>1, <1>2, <1>6
<1>8. IsAtPlace(n, w, i, w[k])
  <2>1. Fits({w[k]})
    <3> HIDE DEF Fits
    <3> QED BY <1>6, <1>7
  <2> QED BY <1>3, <1>7, <2>1 DEF IsAtPlace
<1> QED BY <1>7, <1>8 DEF row

(* Half of the values are not above the median, half are not below it.     *)
LEMMA MedianIsMiddle ==
  ASSUME NEW n \in Nat, n >= 1, NEW w \in [1..n -> Int]
  PROVE  \E m \in Int : /\ Median(Whole(n, w)) = m
                        /\ 2 * Cardinality(UpTo(n, w, m)) >= n
                        /\ 2 * Cardinality(FromOn(n, w, m)) >= n
<1> DEFINE row == Whole(n, w)
           half == n \div 2
           Nth(i) == ZeroForNaN(Sorted(row)[i])
<1>1. Len(row) = n
  BY DEF Whole
<1>2. Median(row) = IF n % 2 = 0 THEN (Nth(half) + Nth(half + 1)) \div 2 ELSE Nth(half + 1)
  BY <1>1, Zenon DEF Median
<1>3. /\ n % 2 = 0 => n = 2 * half /\ half \in 1..n /\ half + 1 \in half..n /\ half + 1 \in 1..n
      /\ n % 2 # 0 => n = 2 * half + 1 /\ half + 1 \in 1..n
  OBVIOUS
<1>4. \A i \in 1..n : Nth(i) \in Int /\ IsAtPlace(n, w, i, Nth(i))
  <2> SUFFICES ASSUME NEW i \in 1..n PROVE Nth(i) \in Int /\ IsAtPlace(n, w, i, Nth(i))
    OBVIOUS
  <2>1. PICK v \in Int : Sorted(row)[i] = {v} /\ IsAtPlace(n, w, i, v)
    BY SortedIsInPlace
  <2>2. Nth(i) = v
    BY <2>1, NumberIsItself
  <2> QED BY <2>1, <2>2
<1>5. ASSUME NEW i \in 1..n, NEW m \in Int
      PROVE  /\ Nth(i) <= m => Cardinality(UpTo(n, w, m)) >= i
             /\ m <= Nth(i) => Cardinality(FromOn(n, w, m)) >= n - i + 1
  <2>1. PICK v \in Int : v = Nth(i) /\ IsAtPlace(n, w, i, v)
    BY <1>4
  <2> HIDE DEF Nth
  <2>2. /\ v <= m => Cardinality(UpTo(n, w, m)) >= i
        /\ m <= v => Cardinality(FromOn(n, w, m)) >= n - i + 1
    BY <2>1, HalfIsBelow
  <2> QED BY <2>1, <2>2
<1>6. \A m : Cardinality(UpTo(n, w, m)) \in Nat /\ Cardinality(FromOn(n, w, m)) \in Nat
  <2> SUFFICES ASSUME NEW m
               PROVE  /\ Cardinality(UpTo(n, w, m)) \in Nat
                      /\ Cardinality(FromOn(n, w, m)) \in Nat
    OBVIOUS
  <2>1. UpTo(n, w, m) \in SUBSET (1..n) /\ FromOn(n, w, m) \in SUBSET (1..n)
    BY DEF UpTo, FromOn
  <2> QED BY <2>1, PartsAreCounted
<1> HIDE DEF Nth, half
<1>7. CASE n % 2 = 0
  <2> DEFINE a == Nth(half)
             b == Nth(half + 1)
             m == (a + b) \div 2
  <2>1. /\ half \in 1..n /\ half + 1 \in 1..n /\ half + 1 \in half..n /\ n = 2 * half
        /\ half \in Int
    BY <1>3, <1>7
  <2>2. a \in Int /\ b \in Int /\ IsAtPlace(n, w, half, a) /\ IsAtPlace(n, w, half + 1, b)
    BY <1>4, <2>1
  <2> HIDE DEF a, b
  <2>3. a <= b
    BY <2>1, <2>2, PlacesIncrease
  <2>4. m \in Int /\ a <= m /\ m <= b
    BY ONLY <2>2, <2>3
  <2>5. Median(row) = m
    BY <1>2, <1>7 DEF a, b
  <2> HIDE DEF m
  <2>6. Cardinality(UpTo(n, w, m)) >= half /\ Cardinality(FromOn(n, w, m)) >= n - (half + 1) + 1
    BY <1>5, <2>1, <2>4 DEF a, b
  <2>7. /\ Cardinality(UpTo(n, w, m)) \in Nat /\ Cardinality(FromOn(n, w, m)) \in Nat
    BY <1>6
  <2>8. 2 * Cardinality(UpTo(n, w, m)) >= n /\ 2 * Cardinality(FromOn(n, w, m)) >= n
    BY ONLY <2>1, <2>6, <2>7
  <2> QED BY <2>4, <2>5, <2>8
<1>8. CASE n % 2 # 0
  <2> DEFINE m == Nth(half + 1)
  <2>1. half + 1 \in 1..n /\ n = 2 * half + 1 /\ half \in Int
    <3>1. half \in Int
      BY DEF half
    <3> QED BY <1>3, <1>8, <3>1
  <2>2. m \in Int /\ m <= m
    BY <1>4, <2>1
  <2>3. Median(row) = m
    BY <1>2, <1>8
  <2>4. Cardinality(UpTo(n, w, m)) >= half + 1 /\ Cardinality(FromOn(n, w, m)) >= n - (half + 1) + 1
    BY <1>5, <2>1, <2>2
  <2> HIDE DEF m
  <2>5. Cardinality(UpTo(n, w, m)) \in Nat /\ Cardinality(FromOn(n, w, m)) \in Nat
    BY <1>6
  <2>6. 2 * Cardinality(UpTo(n, w, m)) >= n /\ 2 * Cardinality(FromOn(n, w, m)) >= n
    BY ONLY <2>1, <2>4, <2>5
  <2> QED BY <2>2, <2>3, <2>6
<1> QED BY <1>7, <1>8

(* The lower quartile is not above the upper one.                          *)
LEMMA PercentilesIncrease ==
  ASSUME NEW n \in Nat, n >= 4, NEW w \in [1..n -> Int]
  PROVE  Min(Percentile(Sorted(Whole(n, w)), 25)) <= Min(Percentile(Sorted(Whole(n, w)), 75))
<1> DEFINE sorted == Sorted(Whole(n, w))
           i == (n * 25) \div 100 + 1
           j == (n * 75) \div 100 + 1
<1>1. Len(sorted) = n
  BY DEF Sorted, Whole
<1>2. i \in 1..n /\ j \in 1..n /\ j \in i..n
  OBVIOUS
<1>3. Percentile(sorted, 25) = sorted[i] /\ Percentile(sorted, 75) = sorted[j]
  BY <1>1, Zenon DEF Percentile
<1> HIDE DEF i, j, sorted
<1>4. PICK u \in Int : sorted[i] = {u} /\ IsAtPlace(n, w, i, u)
  BY <1>2, SortedIsInPlace DEF sorted
<1>5. PICK v \in Int : sorted[j] = {v} /\ IsAtPlace(n, w, j, v)
  BY <1>2, SortedIsInPlace DEF sorted
<1>6. u <= v
  BY <1>2, <1>4, <1>5, PlacesIncrease
<1>7. Min(sorted[i]) = u /\ Min(sorted[j]) = v
  BY <1>4, <1>5, OnlyOfOne
<1> QED BY <1>3, <1>6, <1>7 DEF sorted

(* A sum of Floats is NaN exactly if one of them is.                       *)
AddNth(floats, sum, i) == FloatAdd(sum, floats[i])
NoneIsNaN(floats, T, sum) == sum # {} <=> \A i \in T : floats[i] # {}
Totals == INSTANCE Folding WITH Op <- AddNth, Choose <- Max, Keeps <- NoneIsNaN

LEMMA FloatIsAdded ==
  ASSUME NEW x, NEW y PROVE FloatAdd(x, y) # {} <=> x # {} /\ y # {}
<1>1. ASSUME NEW a \in x, NEW b \in y PROVE a + b \in FloatAdd(x, y)
  BY DEF FloatAdd
<1>2. ASSUME NEW c \in FloatAdd(x, y) PROVE x # {} /\ y # {}
  BY DEF FloatAdd
<1> QED BY <1>1, <1>2

LEMMA SumIsOfAll ==
  ASSUME NEW floats, NEW n \in Nat, DOMAIN floats = 1..n
  PROVE  FloatSum(floats) # {} <=> \A i \in 1..n : floats[i] # {}
<1>1. FloatSum(floats) = Totals!Folded(floats, {0}, DOMAIN floats)
  BY ONLY Zenon DEF FloatSum, AddNth, FoldLeft, Totals!Folded, MapThenFoldSet, Totals!MapThenFoldSet
<1>2. \A T \in SUBSET (1..n) : T # {} => Max(T) \in T
  BY LastPlace
<1>3. NoneIsNaN(floats, {}, {0})
  BY DEF NoneIsNaN
<1>4. ASSUME NEW T \in SUBSET (1..n), NEW a, T # {}, NoneIsNaN(floats, T \ {Max(T)}, a)
      PROVE  NoneIsNaN(floats, T, AddNth(floats, a, Max(T)))
  <2>1. Max(T) \in T
    BY <1>2, <1>4
  <2>2. AddNth(floats, a, Max(T)) # {} <=> a # {} /\ floats[Max(T)] # {}
    BY FloatIsAdded DEF AddNth
  <2> QED BY <1>4, <2>1, <2>2 DEF NoneIsNaN
<1>5. NoneIsNaN(floats, 1..n, Totals!Folded(floats, {0}, 1..n))
  BY <1>2, <1>3, <1>4, Totals!FoldOverPlaces
<1> QED BY <1>1, <1>5 DEF NoneIsNaN

(* The extremes of a step are values of it, the others are between them.   *)
LEMMA ExtremesAreBounds ==
  ASSUME NEW n \in Nat, NEW row, DOMAIN row = 1..n, \A j \in 1..n : IsFloat(row[j]),
         Step(row).min # {}
  PROVE  /\ Step(row).min \cup Step(row).max \subseteq Values(row)
         /\ \A v \in Values(row) : Min(Step(row).min) <= v /\ v <= Max(Step(row).max)
<1> DEFINE all == Values(row)
           nothing == [min |-> {}, max |-> {}, median |-> {}]
           middle == Median([j \in DOMAIN row |-> {ZeroForNaN(row[j])}])
<1>1. Step(row) = IF Cardinality(NotNaN(row)) < 3 THEN nothing
                  ELSE [min |-> {Min(all)}, max |-> {Max(all)}, median |-> {middle}]
  BY Zenon DEF Step
<1> HIDE DEF middle
<1>2. ~(Cardinality(NotNaN(row)) < 3) /\ Step(row).min = {Min(all)} /\ Step(row).max = {Max(all)}
  <2>1. nothing.min = {}
    OBVIOUS
  <2> HIDE DEF all
  <2> QED BY <1>1, <2>1
<1>3. all \in SUBSET Int
  BY DEF Values, IsFloat
<1>4. IsFiniteSet(all)
  <2>1. \A j \in 1..n : IsFiniteSet(row[j])
    <3> SUFFICES ASSUME NEW j \in 1..n PROVE IsFiniteSet(row[j])
      OBVIOUS
    <3>1. row[j] = {} \/ \E v \in Int : row[j] = {v}
      BY DEF IsFloat
    <3>2. \A v : IsFiniteSet({v})
      BY FS_Singleton
    <3> QED BY <3>1, <3>2, FS_EmptySet
  <2>2. IsFiniteSet(UNION {row[j] : j \in 1..n})
    BY <2>1, FiniteUnion
  <2> QED BY <2>2 DEF Values
<1>5. all # {}
  <2>1. NotNaN(row) # {}
    <3>1. CASE NotNaN(row) = {}
      <4>1. Cardinality(NotNaN(row)) = 0
        BY <3>1, FS_EmptySet
      <4> QED BY ONLY <1>2, <4>1
    <3> QED BY <3>1
  <2> QED BY <2>1 DEF NotNaN, Values
<1> HIDE DEF all
<1>6. Max(all) \in all /\ Min(all) \in all /\ \A v \in all : Min(all) <= v /\ v <= Max(all)
  BY <1>3, <1>4, <1>5, ExtremesAreElements
<1>7. Min({Min(all)}) = Min(all) /\ Max({Max(all)}) = Max(all)
  BY <1>3, <1>6, OnlyOfOne
<1>8. Step(row).min \cup Step(row).max \subseteq all
  BY <1>2, <1>6
<1>9. ASSUME NEW v \in all PROVE Min(Step(row).min) <= v /\ v <= Max(Step(row).max)
  BY <1>2, <1>6, <1>7
<1> QED BY <1>8, <1>9 DEF all

(* Where every series has a value, so has the row, and its median.         *)
LEMMA RowIsWhole ==
  ASSUME NEW n \in Nat, NEW row, DOMAIN row = 1..n, row = [j \in 1..n |-> row[j]],
         \A j \in 1..n : IsFloat(row[j]), Cardinality(NotNaN(row)) = n
  PROVE  \E w \in [1..n -> Int] : row = Whole(n, w)
<1>1. NotNaN(row) \in SUBSET (1..n)
  BY DEF NotNaN
<1>2. NotNaN(row) = 1..n
  BY <1>1, PartsAreCounted
<1>3. \A j \in 1..n : \E v \in Int : row[j] = {v}
  BY <1>2 DEF NotNaN, IsFloat
<1> DEFINE w == [j \in 1..n |-> CHOOSE v \in Int : row[j] = {v}]
<1>4. w \in [1..n -> Int] /\ \A j \in 1..n : row[j] = {w[j]}
  BY <1>3
<1> HIDE DEF w
<1>5. row = [j \in 1..n |-> {w[j]}]
  BY <1>4
<1> QED BY <1>4, <1>5 DEF Whole

LEMMA MedianOfWhole ==
  ASSUME NEW n \in Nat, n >= 3, NEW w \in [1..n -> Int]
  PROVE  \E m \in Int : /\ Step(Whole(n, w)).median = {m}
                        /\ 2 * Cardinality(UpTo(n, w, m)) >= n
                        /\ 2 * Cardinality(FromOn(n, w, m)) >= n
<1> DEFINE row == Whole(n, w)
<1>1. DOMAIN row = 1..n /\ \A j \in 1..n : row[j] = {w[j]}
  BY DEF Whole
<1>2. NotNaN(row) = 1..n
  <2> HIDE DEF row
  <2> QED BY <1>1 DEF NotNaN
<1>3. ~(Cardinality(NotNaN(row)) < 3)
  <2>1. Cardinality(1..n) = n
    BY FS_Interval
  <2> HIDE DEF row
  <2> QED BY <1>2, <2>1
<1>4. [j \in DOMAIN row |-> {ZeroForNaN(row[j])}] = row
  <2>1. \A j \in 1..n : ZeroForNaN(row[j]) = w[j]
    <3> HIDE DEF row
    <3> QED BY <1>1, NumberIsItself
  <2>2. [j \in DOMAIN row |-> {ZeroForNaN(row[j])}] = [j \in 1..n |-> {w[j]}]
    <3> HIDE DEF row
    <3> QED BY <1>1, <2>1
  <2> QED BY <2>2 DEF Whole
<1> DEFINE slice == [j \in DOMAIN row |-> {ZeroForNaN(row[j])}]
<1>5. Step(row) = IF Cardinality(NotNaN(row)) < 3
                  THEN [min |-> {}, max |-> {}, median |-> {}]
                  ELSE [min |-> {Min(Values(row))}, max |-> {Max(Values(row))},
                        median |-> {Median(slice)}]
  BY Zenon DEF Step
<1> HIDE DEF row, slice
<1>6. Step(row).median = {Median(slice)}
  BY <1>3, <1>5
<1>7. Median(slice) = Median(row)
  BY <1>4 DEF slice
<1>8. n >= 1
  OBVIOUS
<1>9. PICK m \in Int : /\ Median(row) = m
                       /\ 2 * Cardinality(UpTo(n, w, m)) >= n
                       /\ 2 * Cardinality(FromOn(n, w, m)) >= n
  BY <1>8, MedianIsMiddle DEF row
<1> QED BY <1>6, <1>7, <1>9 DEF row

(* The series of a job, before anything was computed from them.            *)
IsMeasured(series) == \A j \in DOMAIN series : IsSeries(series[j].data)

LEMMA LengthsAreBounds ==
  ASSUME NEW X, NEW series \in Seq(X), Len(series) >= 1, IsMeasured(series)
  PROVE  /\ Min(Lengths(series)) \in Nat /\ Max(Lengths(series)) \in Nat
         /\ Min(Lengths(series)) <= Max(Lengths(series))
         /\ \A j \in 1..Len(series) : /\ Min(Lengths(series)) <= Len(series[j].data)
                                      /\ Len(series[j].data) <= Max(Lengths(series))
                                      /\ Len(series[j].data) \in Nat
         /\ \E j \in 1..Len(series) : Len(series[j].data) = Min(Lengths(series))
<1> DEFINE n == Len(series)
           f == [j \in 1..n |-> Len(series[j].data)]
           all == Lengths(series)
<1>1. n \in Nat /\ DOMAIN series = 1..n /\ n >= 1
  OBVIOUS
<1>2. all = {f[j] : j \in 1..n}
  BY <1>1 DEF Lengths
<1>3. \A j \in 1..n : f[j] \in Nat
  BY <1>1 DEF IsMeasured, IsSeries
<1>4. \A j \in 1..n : f[j] = Len(series[j].data)
  OBVIOUS
<1>5. IsFiniteSet(all)
  <2>1. IsFiniteSet(1..n)
    BY <1>1, FS_Interval
  <2>2. f \in Surjection(1..n, all)
    <3>1. f \in [1..n -> all]
      BY <1>2
    <3> HIDE DEF f, all, n
    <3> QED BY <1>2, <3>1 DEF Surjection
  <2> HIDE DEF f, all, n
  <2> QED BY <2>1, <2>2, FS_Surjection
<1> HIDE DEF f, all, n
<1>6. all \in SUBSET Int /\ all # {} /\ all \in SUBSET Nat
  BY <1>1, <1>2, <1>3
<1>7. Max(all) \in all /\ Min(all) \in all /\ \A v \in all : Min(all) <= v /\ v <= Max(all)
  BY <1>5, <1>6, ExtremesAreElements
<1>8. Max(all) \in Nat /\ Min(all) \in Nat /\ Min(all) <= Max(all)
  BY <1>6, <1>7
<1>9. \E j \in 1..n : f[j] = Min(all)
  BY <1>2, <1>7
<1>10. \A j \in 1..n : Min(all) <= f[j] /\ f[j] <= Max(all)
  BY <1>2, <1>7
<1> QED BY <1>3, <1>4, <1>8, <1>9, <1>10 DEF all, n

(* The percentile p at every step. *)
Grown(series, p) ==
  [t \in 1..Max(Lengths(series)) |->
     Percentile(SortedRow(t, [series |-> series, stats |-> <<>>]), p)]
Steps(series) ==
  [t \in 1..Max(Lengths(series)) |->
     IF t <= Min(Lengths(series)) THEN Step(Row(t, [series |-> series, stats |-> <<>>]))
     ELSE [min |-> {}, max |-> {}, median |-> {}]]
Computed(series, P) ==
  [series |-> series,
   stats |-> <<[steps |-> Steps(series), percentiles |-> [p \in P |-> Grown(series, p)]]>>]

LEMMA RowsAreOfSeries ==
  ASSUME NEW series, NEW stats, NEW t
  PROVE  /\ SortedRow(t, [series |-> series, stats |-> stats]) =
              SortedRow(t, [series |-> series, stats |-> <<>>])
         /\ Row(t, [series |-> series, stats |-> stats]) =
              Row(t, [series |-> series, stats |-> <<>>])
<1> DEFINE a == [series |-> series, stats |-> stats]
           b == [series |-> series, stats |-> <<>>]
<1>1. a.series = b.series
  OBVIOUS
<1> HIDE DEF a, b
<1>2. SortedRow(t, a) = SortedRow(t, b)
  BY <1>1, Zenon DEF SortedRow
<1>3. Row(t, a) = Row(t, b)
  BY <1>1, Zenon DEF Row
<1> QED BY <1>2, <1>3 DEF a, b

(* The first call computes the statistics, every call adds the percentiles *)
(* that are missing.                                                       *)
LEMMA StatisticsAreAdded ==
  ASSUME NEW X, NEW series \in Seq(X), Len(series) >= 4
  PROVE  /\ AddStatisticsSeries([series |-> series, stats |-> <<>>]) = Computed(series, {})
         /\ \A P : AddStatisticsSeries(Computed(series, P)) = Computed(series, P)
<1> DEFINE jm == [series |-> series, stats |-> <<>>]
           stats == <<[steps |-> Steps(series), percentiles |-> [p \in {} |-> <<>>]]>>
<1>1. jm.series = series /\ jm.stats = <<>> /\ ~(Len(series) < 4)
  OBVIOUS
<1>2. [jm EXCEPT !.stats = stats] = [series |-> series, stats |-> stats]
  <2> HIDE DEF stats
  <2> QED OBVIOUS
<1>3. AddStatisticsSeries(jm) = [jm EXCEPT !.stats = stats]
  <2> HIDE DEF jm
  <2>1. AddStatisticsSeries(jm) =
          IF jm.stats # <<>> \/ Len(jm.series) < 4 THEN jm
          ELSE [jm EXCEPT !.stats =
                  <<[steps |-> [t \in 1..Max(Lengths(jm.series)) |->
                                  IF t <= Min(Lengths(jm.series)) THEN Step(Row(t, jm))
                                  ELSE [min |-> {}, max |-> {}, median |-> {}]],
                     percentiles |-> [p \in {} |-> <<>>]]>>]
    BY Zenon DEF AddStatisticsSeries
  <2>2. Steps(series) = [t \in 1..Max(Lengths(jm.series)) |->
                                  IF t <= Min(Lengths(jm.series)) THEN Step(Row(t, jm))
                                  ELSE [min |-> {}, max |-> {}, median |-> {}]]
    BY <1>1, Zenon DEF Steps, jm
  <2> QED BY <1>1, <2>1, <2>2, Zenon
<1>4. [p \in {} |-> <<>>] = [p \in {} |-> Grown(series, p)]
  OBVIOUS
<1>5. AddStatisticsSeries(jm) = Computed(series, {})
  <2> HIDE DEF jm
  <2> QED BY <1>2, <1>3, <1>4, Zenon DEF Computed
<1>6. ASSUME NEW P PROVE AddStatisticsSeries(Computed(series, P)) = Computed(series, P)
  <2> DEFINE c == Computed(series, P)
  <2>1. c.stats # <<>>
    BY DEF Computed
  <2> HIDE DEF c
  <2>2. AddStatisticsSeries(c) = c
    BY <2>1, Zenon DEF AddStatisticsSeries
  <2> QED BY <2>2 DEF c
<1> QED BY <1>5, <1>6

LEMMA PercentilesAreAdded ==
  ASSUME NEW X, NEW series \in Seq(X), Len(series) >= 4, NEW P, NEW Q, P \subseteq Q,
         NEW jm, jm.series = series, AddStatisticsSeries(jm) = Computed(series, P),
         \A t : SortedRow(t, jm) = SortedRow(t, [series |-> series, stats |-> <<>>])
  PROVE  AddPercentiles(jm, Q) = Computed(series, Q)
<1> DEFINE s == AddStatisticsSeries(jm)
           new == [p \in Q |-> [t \in 1..Max(Lengths(jm.series)) |->
                                  Percentile(SortedRow(t, jm), p)]]
           old == [p \in P |-> Grown(series, p)]
           more == <<[steps |-> s.stats[1].steps,
                      percentiles |-> Over(s.stats[1].percentiles, new)]>>
<1>1. AddPercentiles(jm, Q) =
        IF Len(jm.series) < 3 \/ s.stats = <<>> THEN s ELSE [s EXCEPT !.stats = more]
  BY Zenon DEF AddPercentiles
<1>2. s = [series |-> series, stats |-> <<[steps |-> Steps(series), percentiles |-> old]>>]
  BY DEF Computed
<1>3. new = [p \in Q |-> Grown(series, p)]
  <2>1. \A p : [t \in 1..Max(Lengths(jm.series)) |-> Percentile(SortedRow(t, jm), p)] =
               Grown(series, p)
    <3> SUFFICES ASSUME NEW p
                 PROVE  [t \in 1..Max(Lengths(jm.series)) |-> Percentile(SortedRow(t, jm), p)] =
                        Grown(series, p)
      OBVIOUS
    <3>1. Grown(series, p) =
            [t \in 1..Max(Lengths(jm.series)) |->
               Percentile(SortedRow(t, [series |-> series, stats |-> <<>>]), p)]
      BY Zenon DEF Grown
    <3> QED BY <3>1, Zenon
  <2> QED BY <2>1, Zenon
<1> HIDE DEF new
<1>4. Over(old, new) = new
  <2>1. DOMAIN old = P /\ DOMAIN new = Q /\ P \cup Q = Q
    BY <1>3
  <2>2. \A p \in P : old[p] = new[p]
    BY <1>3
  <2>3. Over(old, new) = [p \in P \cup Q |-> IF p \in P THEN old[p] ELSE new[p]]
    <3> HIDE DEF old
    <3> QED BY <2>1, Zenon DEF Over
  <2> HIDE DEF old
  <2>4. [p \in P \cup Q |-> IF p \in P THEN old[p] ELSE new[p]] = [p \in Q |-> new[p]]
    BY <2>1, <2>2
  <2>5. new = [p \in Q |-> new[p]]
    BY <1>3
  <2> QED BY <2>3, <2>4, <2>5
<1> HIDE DEF old, s
<1>5. /\ s.stats[1].steps = Steps(series) /\ s.stats[1].percentiles = old
      /\ s.stats # <<>> /\ ~(Len(jm.series) < 3)
  <2>1. s.stats = <<[steps |-> Steps(series), percentiles |-> old]>>
    BY <1>2
  <2> QED BY <2>1
<1>6. more = <<[steps |-> Steps(series), percentiles |-> [p \in Q |-> Grown(series, p)]]>>
  BY <1>3, <1>4, <1>5
<1> HIDE DEF more
<1>7. [s EXCEPT !.stats = more] = [series |-> series, stats |-> more]
  BY <1>2
<1> QED BY <1>1, <1>5, <1>6, <1>7 DEF Computed

(* At a step that all series reach, the values are sorted as they are.     *)
LEMMA RowIsSorted ==
  ASSUME NEW X, NEW series \in Seq(X), Len(series) >= 1, IsMeasured(series),
         NEW t \in 1..Min(Lengths(series))
  PROVE  SortedRow(t, [series |-> series, stats |-> <<>>]) =
           Sorted(Row(t, [series |-> series, stats |-> <<>>]))
<1> DEFINE jm == [series |-> series, stats |-> <<>>]
           S == {s \in ToSet(series) : t <= Len(s.data)}
<1>1. jm.series = series
  OBVIOUS
<1> HIDE DEF jm
<1>2. ASSUME NEW j \in 1..Len(series) PROVE series[j] \in S
  <2>1. Min(Lengths(series)) \in Nat /\ Len(series[j].data) \in Nat
        /\ Min(Lengths(series)) <= Len(series[j].data)
    BY LengthsAreBounds
  <2>2. t <= Len(series[j].data)
    BY <2>1
  <2>3. series[j] \in ToSet(series)
    BY DEF ToSet
  <2> QED BY <2>2, <2>3
<1> HIDE DEF S
<1>3. Only(series, S) = series
  BY <1>2, OnlyOfAll
<1>4. Only(jm.series, {s \in ToSet(jm.series) : t <= Len(s.data)}) = jm.series
  BY <1>1, <1>3 DEF S
<1>5. SortedRow(t, jm) = Sorted([j \in DOMAIN jm.series |-> jm.series[j].data[t]])
  BY <1>4, Zenon DEF SortedRow
<1>6. SortedRow(t, jm) = Sorted(Row(t, jm))
  BY <1>5, Zenon DEF Row
<1> QED BY <1>6 DEF jm

(* The series of a host has a value where all its parts have one.          *)
LEMMA NodeAddsUp ==
  ASSUME NEW X, NEW series \in Seq(X), IsMeasured(series), NEW k \in 1..Len(series),
         NEW h, h = series[k].host
  PROVE  AddsUp([series |-> series, stats |-> <<>>],
                NodeSeries(h, [series |-> series, stats |-> <<>>]))
<1> DEFINE jm == [series |-> series, stats |-> <<>>]
           S == {s \in ToSet(jm.series) : s.host = h}
           own == Only(jm.series, S)
           node == NodeSeries(h, jm)
           parts == {j \in DOMAIN series : series[j].host = h}
           sum == FoldLeft(LAMBDA n, s : n + s.stat.avg.sum, 0, own)
           RowAt(t) == [j \in DOMAIN own |-> own[j].data[t]]
<1>1. jm.series = series
  OBVIOUS
<1> HIDE DEF jm
<1>2. node = [host |-> h,
              data |-> [t \in 1..Max(Lengths(own)) |->
                          IF t <= Min(Lengths(own)) THEN FloatSum(RowAt(t)) ELSE {}],
              stat |-> [min |-> Min({own[j].stat.min : j \in DOMAIN own}),
                        max |-> Max({own[j].stat.max : j \in DOMAIN own}),
                        avg |-> [sum |-> sum, of |-> Len(own)]]]
  BY Zenon DEF NodeSeries
<1>3. /\ DOMAIN series = 1..Len(series) /\ Len(series) \in Nat
      /\ \A j \in 1..Len(series) : series[j] \in X /\ series[j] \in ToSet(series)
      /\ \A s : s \in S <=> s \in ToSet(series) /\ s.host = h
  BY <1>1 DEF ToSet
<1>4. parts = {j \in 1..Len(series) : series[j] \in S}
  BY <1>3
<1>5. own = Only(series, S)
  BY <1>1
<1> HIDE DEF S, parts, own, sum, node, RowAt
<1>6. own \in Seq(X \cap S) /\ Len(own) = Cardinality(parts)
  <2>1. /\ Only(series, S) \in Seq(X \cap S)
        /\ Len(Only(series, S)) = Cardinality({j \in 1..Len(series) : series[j] \in S})
    BY OnlyIsCounted, ZenonT(30)
  <2> QED BY ONLY <1>4, <1>5, <2>1
<1>7. \A j \in parts : \E i \in 1..Len(own) : own[i] = series[j]
  <2> SUFFICES ASSUME NEW j \in parts PROVE \E i \in 1..Len(own) : own[i] = series[j]
    OBVIOUS
  <2>1. j \in 1..Len(series) /\ series[j] \in S
    BY <1>4
  <2>2. series[j] \in ToSet(own)
    BY <1>5, <2>1, OnlyHasAll
  <2> QED BY <1>6, <2>2 DEF ToSet
<1>8. \A i \in 1..Len(own) : \E j \in parts : own[i] = series[j]
  <2> SUFFICES ASSUME NEW i \in 1..Len(own) PROVE \E j \in parts : own[i] = series[j]
    OBVIOUS
  <2>1. own[i] \in S
    BY <1>6
  <2>2. PICK j \in 1..Len(series) : own[i] = series[j]
    BY <1>3, <2>1 DEF ToSet
  <2>3. j \in parts
    BY <1>4, <2>1, <2>2
  <2> QED BY <2>2, <2>3
<1>9. k \in parts
  BY <1>3, <1>4
<1>10. /\ Len(own) >= 1 /\ Len(own) \in Nat /\ DOMAIN own = 1..Len(own)
       /\ own \in Seq(X \cap S)
  BY <1>6, <1>7, <1>9
<1>11. IsMeasured(own)
  BY <1>4, <1>8, <1>10, <1>3 DEF IsMeasured
<1>12. /\ Min(Lengths(own)) \in Nat
       /\ \A i \in 1..Len(own) : /\ Min(Lengths(own)) <= Len(own[i].data)
                                 /\ Len(own[i].data) \in Nat
       /\ \E i \in 1..Len(own) : Len(own[i].data) = Min(Lengths(own))
  BY <1>10, <1>11, LengthsAreBounds
<1>13. /\ node.host = h /\ node.stat.avg.of = Len(own)
       /\ DOMAIN node.data = 1..Max(Lengths(own))
       /\ \A t \in DOMAIN node.data :
            node.data[t] = IF t <= Min(Lengths(own)) THEN FloatSum(RowAt(t)) ELSE {}
  <2>1. node.host = h /\ node.stat.avg.of = Len(own)
    BY ONLY <1>2
  <2>2. node.data = [t \in 1..Max(Lengths(own)) |->
                       IF t <= Min(Lengths(own)) THEN FloatSum(RowAt(t)) ELSE {}]
    BY ONLY <1>2
  <2> QED BY ONLY <2>1, <2>2
<1>14. ASSUME NEW t \in DOMAIN node.data
       PROVE  node.data[t] # {} <=>
                \A j \in parts : t <= Len(series[j].data) /\ series[j].data[t] # {}
  <2>1. t \in Int
    BY <1>13
  <2>2. (\A j \in parts : t <= Len(series[j].data) /\ series[j].data[t] # {}) <=>
        (\A i \in 1..Len(own) : t <= Len(own[i].data) /\ own[i].data[t] # {})
    BY ONLY <1>7, <1>8
  <2>3. CASE t <= Min(Lengths(own))
    <3>1. node.data[t] = FloatSum(RowAt(t))
      BY <1>13, <2>3
    <3>2. DOMAIN RowAt(t) = 1..Len(own) /\ \A i \in 1..Len(own) : RowAt(t)[i] = own[i].data[t]
      BY <1>10 DEF RowAt
    <3>3. FloatSum(RowAt(t)) # {} <=> \A i \in 1..Len(own) : RowAt(t)[i] # {}
      BY <1>10, <3>2, SumIsOfAll
    <3>4. \A i \in 1..Len(own) : t <= Len(own[i].data)
      BY ONLY <1>12, <2>1, <2>3
    <3> QED BY ONLY <2>2, <3>1, <3>2, <3>3, <3>4
  <2>4. CASE ~(t <= Min(Lengths(own)))
    <3>1. node.data[t] = {}
      BY <1>13, <2>4
    <3>2. \E i \in 1..Len(own) : ~(t <= Len(own[i].data))
      BY ONLY <1>12, <2>1, <2>4
    <3> QED BY ONLY <2>2, <3>1, <3>2
  <2> QED BY <2>3, <2>4
<1>15. node.stat.avg.of = Cardinality(parts)
  BY <1>6, <1>13
<1>16. AddsUp(jm, node)
  <2>1. parts = {j \in DOMAIN jm.series : jm.series[j].host = node.host}
    BY <1>1, <1>13 DEF parts
  <2> QED BY ONLY <1>1, <1>14, <1>15, <2>1 DEF AddsUp
<1> QED BY <1>16 DEF node, jm

(* The node's series of two finer scopes are those of the coarser one.     *)
LEMMA CoreIsCoarser == MaxScope({"core", "hwthread"}) = "core"
<1> DEFINE S == {"core", "hwthread"}
<1>1. /\ Granularity["core"] = 3 /\ Granularity["hwthread"] = 2
  BY DEF Granularity
<1>2. \A s \in S : (\A o \in S : Granularity[o] <= Granularity[s]) <=> s = "core"
  BY <1>1
<1>3. MaxScope(S) = CHOOSE s \in S : \A o \in S : Granularity[o] <= Granularity[s]
  BY Zenon DEF MaxScope
<1>4. "core" \in S
  OBVIOUS
<1> HIDE DEF S
<1>5. \A s \in S : (\A o \in S : Granularity[o] <= Granularity[s]) => s = "core"
  BY <1>2
<1>6. \A o \in S : Granularity[o] <= Granularity["core"]
  BY <1>2, <1>4
<1>7. MaxScope(S) = "core"
  BY ONLY <1>3, <1>4, <1>5, <1>6
<1> QED BY <1>7 DEF S

LEMMA NodeIsOfCore ==
  ASSUME NEW jm, NEW hosts, hosts = {jm.series[j].host : j \in DOMAIN jm.series}
  PROVE  AddNodeScope([k \in {"core", "hwthread"} |-> jm])["node"].series =
           SetToSeq({NodeSeries(h, jm) : h \in hosts})
<1> DEFINE scopes == [k \in {"core", "hwthread"} |-> jm]
           all == SetToSeq({NodeSeries(h, jm) : h \in hosts})
           new == [series |-> all, stats |-> <<>>]
<1>1. /\ DOMAIN scopes = {"core", "hwthread"} /\ DOMAIN scopes # {}
      /\ MaxScope(DOMAIN scopes) = "core" /\ MaxScope(DOMAIN scopes) # "node"
      /\ scopes["core"] = jm
  BY CoreIsCoarser
<1> HIDE DEF scopes
<1>2. AddNodeScope(scopes) = Assign(scopes, "node", new)
  BY <1>1, Zenon DEF AddNodeScope
<1> HIDE DEF all
<1>3. Assign(scopes, "node", new)["node"] = new
  <2> HIDE DEF new
  <2> QED BY DEF Assign
<1>4. new.series = all
  OBVIOUS
<1> HIDE DEF new
<1>5. AddNodeScope(scopes)["node"].series = all
  BY ONLY <1>2, <1>3, <1>4, Zenon
<1> QED BY <1>5 DEF scopes, all

(* A job with four series or more, of any lengths and with any values.     *)
JobInv ==
  Is("jobMetric") =>
    /\ st.jm = [series |-> st.jm.series, stats |-> <<>>]
    /\ \E X : st.jm.series \in Seq(X)
    /\ Len(st.jm.series) >= 4
    /\ IsMeasured(st.jm.series)

LEMMA StepsAreSound ==
  ASSUME NEW X, NEW series \in Seq(X), Len(series) >= 4, IsMeasured(series),
         NEW t \in 1..Min(Lengths(series)), NEW s, s.steps = Steps(series),
         s.percentiles[25] = Grown(series, 25), s.percentiles[75] = Grown(series, 75)
  PROVE  StepIsSound([series |-> series, stats |-> <<>>], s, t)
<1> DEFINE n == Len(series)
           jm == [series |-> series, stats |-> <<>>]
           row == Row(t, jm)
           step == Steps(series)[t]
           m == CHOOSE v \in step.median : TRUE
<1>1. n \in Nat /\ n >= 4 /\ n >= 3 /\ n >= 1 /\ DOMAIN series = 1..n
  OBVIOUS
<1>2. row = [j \in 1..n |-> series[j].data[t]]
  <2>1. jm.series = series
    OBVIOUS
  <2> HIDE DEF jm
  <2> QED BY <1>1, <2>1, Zenon DEF Row
<1>3. /\ Min(Lengths(series)) \in Nat /\ Max(Lengths(series)) \in Nat
      /\ Min(Lengths(series)) <= Max(Lengths(series))
      /\ \A j \in 1..n : Len(series[j].data) \in Nat
                         /\ Min(Lengths(series)) <= Len(series[j].data)
  BY <1>1, LengthsAreBounds
<1>4. t \in 1..Max(Lengths(series)) /\ t <= Min(Lengths(series))
  BY <1>3
<1>5. step = Step(row)
  <2>1. Steps(series) = [i \in 1..Max(Lengths(series)) |->
                           IF i <= Min(Lengths(series)) THEN Step(Row(i, jm))
                           ELSE [min |-> {}, max |-> {}, median |-> {}]]
    BY Zenon DEF Steps
  <2> QED BY <1>4, <2>1, Zenon
<1>6. \A p : Grown(series, p)[t] = Percentile(Sorted(row), p)
  <2> SUFFICES ASSUME NEW p PROVE Grown(series, p)[t] = Percentile(Sorted(row), p)
    OBVIOUS
  <2>1. Grown(series, p)[t] = Percentile(SortedRow(t, jm), p)
    BY <1>4, Zenon DEF Grown
  <2>2. SortedRow(t, jm) = Sorted(row)
    BY <1>1, RowIsSorted
  <2> QED BY <2>1, <2>2, Zenon
<1>7. \A j \in 1..n : IsFloat(row[j])
  <2> SUFFICES ASSUME NEW j \in 1..n PROVE IsFloat(series[j].data[t])
    BY <1>2
  <2>1. IsSeries(series[j].data)
    BY <1>1 DEF IsMeasured
  <2>2. t <= Len(series[j].data)
    BY <1>3, <1>4
  <2> QED BY <2>1, <2>2 DEF IsSeries
<1> HIDE DEF row, jm, step
<1>8. DOMAIN row = 1..n /\ row = [j \in 1..n |-> row[j]]
  BY <1>2
<1>9. step.min # {} => /\ step.min \cup step.max \subseteq Values(row)
                       /\ \A v \in Values(row) : Min(step.min) <= v /\ v <= Max(step.max)
  BY <1>1, <1>5, <1>7, <1>8, ExtremesAreBounds
<1>10. ASSUME Cardinality(NotNaN(row)) = n
       PROVE  /\ 2 * Cardinality({j \in DOMAIN row : Min(row[j]) <= m}) >= n
              /\ 2 * Cardinality({j \in DOMAIN row : Min(row[j]) >= m}) >= n
              /\ Min(Grown(series, 25)[t]) <= Min(Grown(series, 75)[t])
  <2>1. PICK w \in [1..n -> Int] : row = Whole(n, w)
    BY <1>1, <1>7, <1>8, <1>10, RowIsWhole
  <2>2. PICK u \in Int : /\ Step(Whole(n, w)).median = {u}
                         /\ 2 * Cardinality(UpTo(n, w, u)) >= n
                         /\ 2 * Cardinality(FromOn(n, w, u)) >= n
    BY <1>1, MedianOfWhole
  <2>3. m = u
    <3>1. step.median = {u}
      BY <1>5, <2>1, <2>2
    <3> QED BY <3>1, NumberIsItself
  <2> HIDE DEF m
  <2>4. \A j \in 1..n : Min(row[j]) = w[j]
    <3>1. \A j \in 1..n : row[j] = {w[j]} /\ w[j] \in Int
      BY <2>1 DEF Whole
    <3> QED BY <3>1, OnlyOfOne
  <2>5. /\ {j \in DOMAIN row : Min(row[j]) <= m} = UpTo(n, w, u)
        /\ {j \in DOMAIN row : Min(row[j]) >= m} = FromOn(n, w, u)
    BY <1>8, <2>3, <2>4 DEF UpTo, FromOn
  <2>6. Min(Percentile(Sorted(row), 25)) <= Min(Percentile(Sorted(row), 75))
    BY <1>1, <2>1, PercentilesIncrease
  <2> QED BY <1>6, <2>2, <2>5, <2>6
<1>11. jm.series = series /\ step = s.steps[t]
  BY DEF jm, step
<1>12. StepIsSound(jm, s, t)
  <2>1. /\ step.min # {} => \A v \in Values(row) : Min(step.min) <= v /\ v <= Max(step.max)
        /\ step.min # {} => step.min \cup step.max \subseteq Values(row)
        /\ Cardinality(NotNaN(row)) = n =>
             /\ 2 * Cardinality({j \in DOMAIN row : Min(row[j]) <= m}) >= n
             /\ 2 * Cardinality({j \in DOMAIN row : Min(row[j]) >= m}) >= n
             /\ Min(s.percentiles[25][t]) <= Min(s.percentiles[75][t])
    BY <1>9, <1>10
  <2> QED BY <1>11, <2>1, ZenonT(30) DEF StepIsSound, row
<1> QED BY <1>12 DEF jm

(* The statistics of any such job are sound.                               *)
LEMMA AnyStatisticIsSound == ASSUME JobInv PROVE StatisticsAreSound
<1> SUFFICES ASSUME Is("jobMetric") PROVE StatisticsAreSound
  BY DEF StatisticsAreSound
<1> DEFINE jm == st.jm
           series == jm.series
           once == AddPercentiles(jm, {25, 75})
           node == AddNodeScope([k \in {"core", "hwthread"} |-> jm])["node"]
           hosts == {jm.series[j].host : j \in DOMAIN jm.series}
           all == {NodeSeries(h, jm) : h \in hosts}
<1>1. /\ jm = [series |-> series, stats |-> <<>>] /\ Len(series) >= 4 /\ IsMeasured(series)
      /\ Len(series) >= 1
  <2>1. jm = [series |-> series, stats |-> <<>>] /\ Len(series) >= 4 /\ IsMeasured(series)
    BY DEF JobInv
  <2>2. PICK X : series \in Seq(X)
    BY DEF JobInv
  <2> QED BY <2>1, <2>2
<1>2. PICK X : series \in Seq(X)
  BY DEF JobInv
<1>3. \A t : /\ SortedRow(t, jm) = SortedRow(t, [series |-> series, stats |-> <<>>])
             /\ Row(t, jm) = Row(t, [series |-> series, stats |-> <<>>])
  BY <1>1
<1>4. AddStatisticsSeries(jm) = Computed(series, {})
  BY <1>1, <1>2, StatisticsAreAdded
<1>5. node.series = SetToSeq(all)
  BY NodeIsOfCore
<1> DEFINE first == Computed(series, {25})
<1> HIDE DEF series, jm, node, all, hosts
<1>6. AddPercentiles(jm, {25, 75}) = Computed(series, {25, 75})
      /\ AddPercentiles(jm, {25}) = first
  <2>1. jm.series = series
    BY DEF series
  <2>2. \A P : {} \subseteq P
    OBVIOUS
  <2> QED BY <1>1, <1>2, <1>3, <1>4, <2>1, <2>2, PercentilesAreAdded
<1>7. AddPercentiles(first, {25, 75}) = Computed(series, {25, 75})
  <2>1. first.series = series
    BY DEF Computed
  <2>2. AddStatisticsSeries(first) = first
    BY <1>1, <1>2, StatisticsAreAdded
  <2>3. \A t : SortedRow(t, first) = SortedRow(t, [series |-> series, stats |-> <<>>])
    BY RowsAreOfSeries DEF Computed
  <2>4. {25} \subseteq {25, 75}
    OBVIOUS
  <2> QED BY <1>1, <1>2, <2>1, <2>2, <2>3, <2>4, PercentilesAreAdded
<1>8. AddPercentiles(AddPercentiles(jm, {25}), {25, 75}) = once
  BY <1>6, <1>7
<1>9. /\ once.stats[1].steps = Steps(series)
      /\ once.stats[1].percentiles[25] = Grown(series, 25)
      /\ once.stats[1].percentiles[75] = Grown(series, 75)
  <2>1. once.stats[1] = [steps |-> Steps(series),
                         percentiles |-> [p \in {25, 75} |-> Grown(series, p)]]
    BY <1>6 DEF Computed
  <2> HIDE DEF once
  <2> QED BY <2>1
<1> HIDE DEF once, first
<1>10. jm.series = series
  BY DEF series
<1>11. ASSUME NEW t \in 1..Min(Lengths(jm.series)) PROVE StepIsSound(jm, once.stats[1], t)
  <2>1. t \in 1..Min(Lengths(series)) /\ Len(series) >= 4 /\ IsMeasured(series)
    BY <1>1, <1>10
  <2>2. StepIsSound([series |-> series, stats |-> <<>>], once.stats[1], t)
    BY ONLY <1>2, <1>9, <2>1, StepsAreSound
  <2> QED BY <1>1, <2>2
<1>12. ASSUME NEW k \in DOMAIN node.series
       PROVE  \E h : /\ h \in hosts
                     /\ node.series[k] = NodeSeries(h, jm)
  <2>1. IsFiniteSet(all)
    <3>1. IsFiniteSet(DOMAIN series) /\ DOMAIN series = DOMAIN jm.series
      <4>1. DOMAIN series = 1..Len(series) /\ Len(series) \in Nat
        BY <1>2
      <4> QED BY <1>10, <4>1, FS_Interval
    <3> DEFINE f == [j \in DOMAIN series |-> NodeSeries(jm.series[j].host, jm)]
    <3>2. f \in Surjection(DOMAIN series, all)
      BY <1>10 DEF Surjection, all, hosts
    <3> HIDE DEF f
    <3> QED BY <3>1, <3>2, FS_Surjection
  <2>2. node.series \in Seq(all)
    BY <1>5, <2>1, SeqOfSet
  <2>3. node.series[k] \in all
    BY <2>2
  <2> QED BY <2>3 DEF all
<1>13. ASSUME NEW k \in DOMAIN node.series PROVE AddsUp(jm, node.series[k])
  <2>1. PICK h \in hosts : node.series[k] = NodeSeries(h, jm)
    BY <1>12
  <2>2. PICK i \in 1..Len(series) : h = series[i].host
    BY <1>2, <1>10, <2>1 DEF hosts
  <2>3. AddsUp([series |-> series, stats |-> <<>>],
               NodeSeries(h, [series |-> series, stats |-> <<>>]))
    BY ONLY <1>1, <1>2, <2>2, NodeAddsUp
  <2> QED BY <1>1, <2>1, <2>3
<1>14. StatisticsAreSound <=>
         (Is("jobMetric") =>
            /\ AddPercentiles(AddPercentiles(jm, {25}), {25, 75}) = once
            /\ \A t \in 1..Min(Lengths(jm.series)) : StepIsSound(jm, once.stats[1], t)
            /\ \A k \in DOMAIN node.series : AddsUp(jm, node.series[k]))
  BY Zenon DEF StatisticsAreSound, jm, node, once
<1> QED BY <1>8, <1>11, <1>13, <1>14, Zenon

LEMMA DataAreSeries == \A data \in Data \cup {<<{4}>>} : IsSeries(data)
<1> SUFFICES ASSUME NEW data \in Data \cup {<<{4}>>} PROVE IsSeries(data)
  OBVIOUS
<1>1. \A x \in {{}, {2}, {4}, {6}} : IsFloat(x)
  BY DEF IsFloat
<1>2. ASSUME NEW x \in {{}, {2}, {4}, {6}}, data = <<x>> PROVE IsSeries(data)
  <2>1. DOMAIN data = 1..1 /\ Len(data) = 1 /\ data[1] = x
    BY <1>2
  <2> QED BY <1>1, <2>1 DEF IsSeries
<1>3. ASSUME NEW x \in {{}, {2}, {4}, {6}}, NEW y \in {{}, {2}, {4}, {6}}, data = <<x, y>>
      PROVE  IsSeries(data)
  <2>1. DOMAIN data = 1..2 /\ Len(data) = 2 /\ data[1] = x /\ data[2] = y
    BY <1>3
  <2> QED BY <1>1, <2>1 DEF IsSeries
<1> QED BY <1>2, <1>3 DEF Data

LEMMA JobMetricInitIs == JobMetricInit => JobInv
<1> SUFFICES ASSUME JobMetricInit PROVE JobInv
  OBVIOUS
<1>1. PICK a, b, c, d \in Data,
           hosts \in {<<"h", "h", "h", "h">>, <<"h", "i", "h", "i">>},
           more \in {<<>>, <<<<{4}>>>>} :
        LET data == <<a, b, c, d>> \o more IN
          st = [kind |-> "jobMetric",
                jm |-> [series |-> [j \in DOMAIN data |->
                                      SeriesOf((hosts \o <<"h">>)[j], data[j])],
                        stats |-> <<>>]]
  BY Zenon DEF JobMetricInit
<1> DEFINE data == <<a, b, c, d>> \o more
           S(j) == SeriesOf((hosts \o <<"h">>)[j], data[j])
           series == [j \in DOMAIN data |-> S(j)]
           jm == [series |-> series, stats |-> <<>>]
<1>2. st = [kind |-> "jobMetric", jm |-> jm]
  BY <1>1
<1>3. /\ Len(data) \in Nat /\ Len(data) >= 4 /\ DOMAIN data = 1..Len(data)
      /\ \A j \in DOMAIN data : data[j] \in Data \cup {<<{4}>>}
  <2> DEFINE D == Data \cup {<<{4}>>}
  <2>1. <<a, b, c, d>> \in Seq(D) /\ Len(<<a, b, c, d>>) = 4
    OBVIOUS
  <2>2. more \in Seq(D)
    <3>1. more = <<>> \/ more = <<<<{4}>>>>
      BY <1>1
    <3>2. <<{4}>> \in D
      OBVIOUS
    <3>3. \A x \in D : <<x>> \in Seq(D)
      OBVIOUS
    <3>4. <<>> \in Seq(D)
      OBVIOUS
    <3> HIDE DEF D
    <3> QED BY ONLY <3>1, <3>2, <3>3, <3>4
  <2> HIDE DEF D
  <2>3. data \in Seq(D) /\ Len(data) = 4 + Len(more) /\ Len(more) \in Nat
    BY <2>1, <2>2, ConcatProperties
  <2> QED BY <2>3 DEF D
<1>4. \A j \in DOMAIN data : S(j).data = data[j]
  BY Zenon DEF SeriesOf
<1> HIDE DEF data, S
<1>5. /\ DOMAIN series = 1..Len(data) /\ \A j \in DOMAIN series : series[j] = S(j)
      /\ series \in Seq({S(j) : j \in DOMAIN data}) /\ Len(series) >= 4
  BY <1>3
<1> HIDE DEF series
<1>6. IsMeasured(series)
  BY <1>3, <1>4, <1>5, DataAreSeries DEF IsMeasured
<1>7. st.jm = jm /\ jm.series = series
  BY ONLY <1>2
<1> HIDE DEF jm
<1>8. \E X : st.jm.series \in Seq(X)
  BY <1>5, <1>7
<1>9. st.jm = [series |-> st.jm.series, stats |-> <<>>]
  BY <1>7 DEF jm
<1> QED BY <1>5, <1>6, <1>7, <1>8, <1>9 DEF JobInv
-----------------------------------------------------------------------------
(***************************************************************************)
(* Inputs of the components without a state stay as they are, so that what *)
(* holds of any of them holds always.                                      *)
(***************************************************************************)
InputInv ==
  ConfigInv /\ UnitInv /\ MessageInv /\ PushInv /\ TopologyInv /\ SinkInv /\ JobInv

(* A number is never shorter than its digits.                              *)
LEMMA NumbersAreParsed ==
  ASSUME NEW v \in Nat, NEW w \in Nat PROVE IsParsed(Number(v, w))
BY DEF IsParsed, Number, Digits

LEMMA HostListsAreParsed ==
  /\ \A list \in HostLists : IsParsedList(list)
  /\ IsParsedList(Other.hosts)
<1>2. IsParsedPart(PartOf(<<>>))
  <2>1. PartOf(<<>>).ranges = <<>>
    BY DEF PartOf
  <2>2. DOMAIN <<>> = 1..0
    BY SMTT(20)
  <2> QED BY <2>1, <2>2 DEF IsParsedPart
<1>3. ASSUME NEW r, IsParsed(r.lo), IsParsed(r.hi) PROVE IsParsedPart(PartOf(<<r>>))
  BY <1>3 DEF PartOf, IsParsedPart
<1>4. ASSUME NEW r, IsParsed(r.lo), IsParsed(r.hi), NEW q, IsParsed(q.lo), IsParsed(q.hi)
      PROVE  IsParsedPart(PartOf(<<q, r>>))
  BY <1>4 DEF PartOf, IsParsedPart
<1>5. ASSUME NEW part, IsParsedPart(part) PROVE IsParsedList(<<part>>)
  BY <1>5 DEF IsParsedList
<1>6. ASSUME NEW r \in Ranges PROVE IsParsed(r.lo) /\ IsParsed(r.hi)
  BY NumbersAreParsed DEF Ends, Ranges
<1> DEFINE first == [lo |-> Number(8, 1), hi |-> Number(9, 1)]
           other == [lo |-> Number(8, 1), hi |-> Number(8, 1)]
<1>7. IsParsed(first.lo) /\ IsParsed(first.hi) /\ IsParsed(other.lo) /\ IsParsed(other.hi)
  BY NumbersAreParsed
<1>8. Other.hosts = <<PartOf(<<other>>)>>
  BY DEF Other
<1> HIDE DEF first
<1>9. \A list \in HostLists :
        \/ list = <<>> \/ list = <<PartOf(<<>>)>>
        \/ \E r \in Ranges : list = <<PartOf(<<r>>)>> \/ list = <<PartOf(<<first, r>>)>>
  BY DEF HostLists, first
<1> HIDE DEF other
<1>10. IsParsedList(<<>>)
  BY DEF IsParsedList
<1>11. ASSUME NEW r \in Ranges
       PROVE  IsParsedList(<<PartOf(<<r>>)>>) /\ IsParsedList(<<PartOf(<<first, r>>)>>)
  BY <1>3, <1>4, <1>5, <1>6, <1>7
<1>12. IsParsedList(<<PartOf(<<>>)>>) /\ IsParsedList(<<PartOf(<<other>>)>>)
  BY <1>2, <1>3, <1>5, <1>7
<1> QED BY <1>8, <1>9, <1>10, <1>11, <1>12

LEMMA PairOfClients ==
  \A c, o : /\ DOMAIN (<<c>> \o <<>>) = 1..1 /\ (<<c>> \o <<>>)[1] = c
            /\ DOMAIN (<<c>> \o <<o>>) = 1..2
            /\ (<<c>> \o <<o>>)[1] = c /\ (<<c>> \o <<o>>)[2] = o
OBVIOUS

LEMMA ConfigInitIs == ConfigInit => ConfigInv
<1> SUFFICES ASSUME ConfigInit PROVE ConfigInv
  OBVIOUS
<1>1. PICK kind \in {"newRedfish", "newIpmi"}, c \in Entry, p \in Patterns,
           more \in {<<>>, <<Other>>}, fanout \in Fanouts :
        st = [kind |-> kind, cfg |-> ConfigOf(p, fanout, <<c>> \o more)]
  BY Zenon DEF ConfigInit
<1>2. st.cfg.clients = <<c>> \o more /\ st.cfg.fanout = fanout
  BY ONLY <1>1 DEF ConfigOf
<1>21. fanout \in Int
  BY DEF Fanouts
<1>3. c.hosts \in HostLists
  BY Zenon DEF Entry
<1>4. IsParsedList(c.hosts) /\ IsParsedList(Other.hosts)
  BY <1>3, HostListsAreParsed
<1> DEFINE clients == <<c>> \o more
<1>5. \/ DOMAIN clients = 1..1 /\ clients[1] = c
      \/ DOMAIN clients = 1..2 /\ clients[1] = c /\ clients[2] = Other
  <2>1. more = <<>> \/ more = <<Other>>
    OBVIOUS
  <2>2. CASE more = <<>>
    BY ONLY <2>2, PairOfClients, Zenon
  <2>3. CASE more = <<Other>>
    BY ONLY <2>3, PairOfClients, Zenon
  <2> QED BY <2>1, <2>2, <2>3
<1> HIDE DEF clients
<1>6. /\ \E n \in Nat : DOMAIN clients = 1..n
      /\ \A i \in DOMAIN clients : clients[i] = c \/ clients[i] = Other
  <2>1. CASE DOMAIN clients = 1..1 /\ clients[1] = c
    <3>1. \A i \in DOMAIN clients : clients[i] = c
      BY ONLY <2>1
    <3>2. 1 \in Nat /\ DOMAIN clients = 1..1
      BY <2>1
    <3> QED BY ONLY <3>1, <3>2, Zenon
  <2>2. CASE DOMAIN clients = 1..2 /\ clients[1] = c /\ clients[2] = Other
    <3>1. \A i \in 1..2 : i = 1 \/ i = 2
      OBVIOUS
    <3>2. \A i \in DOMAIN clients : clients[i] = c \/ clients[i] = Other
      BY ONLY <2>2, <3>1
    <3>3. 2 \in Nat /\ DOMAIN clients = 1..2
      BY <2>2
    <3> QED BY ONLY <3>2, <3>3, Zenon
  <2> QED BY <1>5, <2>1, <2>2
<1>7. st.cfg.clients = clients
  BY <1>2 DEF clients
<1> QED BY ONLY <1>2, <1>21, <1>4, <1>6, <1>7 DEF ConfigInv

LEMMA UnitInitIs == UnitInit => UnitInv
<1> SUFFICES ASSUME UnitInit PROVE UnitInv
  OBVIOUS
<1>1. PICK p \in Prefix, m \in Measure : \E d, out :
        st = [kind |-> "unit", in |-> [prefix |-> p, measure |-> m, div |-> d], out |-> out]
  BY Zenon DEF UnitInit
<1>2. PICK d, out :
        st = [kind |-> "unit", in |-> [prefix |-> p, measure |-> m, div |-> d], out |-> out]
  BY <1>1
<1>3. st.in = Unit(p, m, d)
  BY ONLY <1>2 DEF Unit
<1> QED BY ONLY <1>3 DEF UnitInv

LEMMA TaggingsAreMaps == \A t \in Tagging : IsMap(t[1])
<1> DEFINE get == [method |-> "GET"]
           post == [method |-> "POST", unit |-> "B"]
           refused == [method |-> "control"]
           unnamed == "" :> "x"
<1>1. IsMap(<<>>)
  BY DEF IsMap
<1>2. IsMap(get)
  BY DEF IsMap
<1>3. IsMap(post)
  BY DEF IsMap
<1>4. IsMap(unnamed)
  BY Zenon DEF IsMap
<1>a. IsMap(refused)
  BY DEF IsMap
<1>5. ASSUME NEW t \in Tagging
      PROVE  \E a \in {<<>>, get, post, refused, unnamed} : \E b : t = <<a, b>>
  BY Zenon DEF Tagging, NoTags
<1> HIDE DEF get, post, refused, unnamed
<1>6. ASSUME NEW t, NEW a, NEW b, t = <<a, b>> PROVE t[1] = a
  BY <1>6
<1> QED BY <1>1, <1>2, <1>3, <1>4, <1>a, <1>5, <1>6

LEMMA MessageInitIs == MessageInit => MessageInv
<1> SUFFICES ASSUME MessageInit PROVE MessageInv
  OBVIOUS
<1> DEFINE Is1(K, fields, t, all, added, n) ==
      /\ fields \in [K -> FieldValue] /\ t \in Tagging /\ added \in Added
      /\ st = [kind |-> "message", name |-> n[1], tags |-> t[1], meta |-> t[2],
               fields |-> fields, time |-> n[2], metaAsTags |-> [unit |-> all],
               added |-> added]
<1>1. \E K, fields, t, all, added, n : Is1(K, fields, t, all, added, n)
  BY ZenonT(30) DEF MessageInit
<1> HIDE DEF Is1
<1>2. PICK K, fields, t, all, added, n : Is1(K, fields, t, all, added, n)
  BY <1>1
<1>3. /\ fields \in [K -> FieldValue] /\ t \in Tagging /\ added \in Added
      /\ st = [kind |-> "message", name |-> n[1], tags |-> t[1], meta |-> t[2],
               fields |-> fields, time |-> n[2], metaAsTags |-> [unit |-> all],
               added |-> added]
  BY <1>2 DEF Is1
<1>4. st.tags = t[1] /\ st.fields = fields /\ st.added = added
  BY ONLY <1>3
<1>5. IsMap(t[1])
  BY <1>3, TaggingsAreMaps
<1>6. \A v \in FieldValue :
        v.value = "NaN" => v.type \notin {"int8", "int32", "int64", "uint8", "uint64"}
  BY DEF FieldValue
<1>7. DOMAIN fields = K /\ \A k \in K : fields[k] \in FieldValue
  BY ONLY <1>3
<1>8. AreValues(fields)
  BY ONLY <1>6, <1>7 DEF AreValues
<1>9. added # <<>> => added[1] # ""
  <2>1. added # <<>> => \E k \in {"value", "log", "event"} : \E f : added = <<k, f>>
    BY <1>3, Zenon DEF Added
  <2>2. ASSUME NEW k \in {"value", "log", "event"}, NEW f, added = <<k, f>>
        PROVE  added[1] # ""
    BY ONLY <2>2
  <2> QED BY ONLY <2>1, <2>2
<1> QED BY ONLY <1>4, <1>5, <1>8, <1>9 DEF MessageInv

LEMMA TagsAreRanks == \A q \in {<<>>, <<7>>, <<9>>} : q \in Seq(Nat)
<1>1. <<7>> \in Seq(Nat) /\ <<9>> \in Seq(Nat) /\ <<>> \in Seq(Nat)
  OBVIOUS
<1> QED BY <1>1

LEMMA LengthsAreNumbers == \A n \in {0, 4} : n \in Int
OBVIOUS

LEMMA PushInitIs ==
  /\ RequestInit /\ Is("push") => PushInv
  /\ ScrapeInit /\ Is("scrape") => PushInv
  /\ PushConfigInit /\ Is("pushConfig") => PushInv
  /\ RankInit /\ Is("rank") => PushInv
<1>1. ASSUME RequestInit, Is("push") PROVE PushInv
  <2>1. PICK n \in 0..3 : \E lines \in [1..n -> PushedLine] : \E a, b, d :
          st = [kind |-> "push", lines |-> lines, sink |-> a, method |-> b, auth |-> d]
    BY <1>1, Zenon DEF RequestInit
  <2>2. PICK lines \in [1..n -> PushedLine] : \E a, b, d :
          st = [kind |-> "push", lines |-> lines, sink |-> a, method |-> b, auth |-> d]
    BY <2>1
  <2>3. PICK a, b, d :
          st = [kind |-> "push", lines |-> lines, sink |-> a, method |-> b, auth |-> d]
    BY <2>2
  <2>4. st.lines = lines
    BY ONLY <2>3
  <2>5. lines \in Seq(PushedLine)
    OBVIOUS
  <2> QED BY ONLY <1>1, <2>4, <2>5 DEF PushInv, Is
<1>2. ASSUME PushConfigInit, Is("pushConfig") PROVE PushInv
  <2>0. PICK u, w \in {"", "x"}, r \in {"none", "bad"} :
          \E i \in {"5m", "soon"}, n \in {0, 4}, k \in {"", "there", "missing"} :
            st = [kind |-> "pushConfig", port |-> "8080", addr |-> "host", subject |-> "s",
                  user |-> u, password |-> w, processor |-> r, ssl |-> TRUE,
                  interval |-> i, bufferLength |-> n, nkeyFile |-> k]
    BY <1>2, Zenon DEF PushConfigInit
  <2>1. \E i \in {"5m", "soon"}, n \in {0, 4} : \E k :
          st = [kind |-> "pushConfig", port |-> "8080", addr |-> "host", subject |-> "s",
                user |-> u, password |-> w, processor |-> r, ssl |-> TRUE,
                interval |-> i, bufferLength |-> n, nkeyFile |-> k]
    BY <2>0, Zenon
  <2>2. PICK i \in {"5m", "soon"}, n \in {0, 4} : \E k :
          st = [kind |-> "pushConfig", port |-> "8080", addr |-> "host", subject |-> "s",
                user |-> u, password |-> w, processor |-> r, ssl |-> TRUE,
                interval |-> i, bufferLength |-> n, nkeyFile |-> k]
    BY <2>1, Zenon
  <2>3. PICK k :
          st = [kind |-> "pushConfig", port |-> "8080", addr |-> "host", subject |-> "s",
                user |-> u, password |-> w, processor |-> r, ssl |-> TRUE,
                interval |-> i, bufferLength |-> n, nkeyFile |-> k]
    BY <2>2, Zenon
  <2>4. st.bufferLength = n
    BY ONLY <2>3, Zenon
  <2>5. n \in Int
    BY LengthsAreNumbers, Zenon
  <2> QED BY ONLY <1>2, <2>4, <2>5, Zenon DEF PushInv, Is
<1>3. ASSUME RankInit, Is("rank") PROVE PushInv
  <2>1. PICK a, b, c \in {<<>>, <<7>>, <<9>>} : \E j :
          st = [kind |-> "rank", rankTag |-> a, rankField |-> b, pidTag |-> c,
                jobid |-> j, application |-> "app"]
    BY <1>3, ZenonT(30) DEF RankInit
  <2>2. PICK j : st = [kind |-> "rank", rankTag |-> a, rankField |-> b, pidTag |-> c,
                       jobid |-> j, application |-> "app"]
    BY <2>1
  <2>3. /\ st.rankTag = a /\ st.rankField = b /\ st.pidTag = c
        /\ st.application = "app"
    BY ONLY <2>2
  <2>4. a \in Seq(Nat) /\ b \in Seq(Nat) /\ c \in Seq(Nat)
    BY TagsAreRanks
  <2> QED BY ONLY <1>3, <2>3, <2>4 DEF PushInv, Is
<1>4. ASSUME ScrapeInit, Is("scrape") PROVE PushInv
  <2>1. PICK n \in 0..3 : \E samples \in [1..n -> Sample] : \E a :
          st = [kind |-> "scrape", samples |-> samples, got |-> a]
    BY <1>4, Zenon DEF ScrapeInit
  <2>2. PICK samples \in [1..n -> Sample] : \E a :
          st = [kind |-> "scrape", samples |-> samples, got |-> a]
    BY <2>1
  <2>3. PICK a : st = [kind |-> "scrape", samples |-> samples, got |-> a]
    BY <2>2
  <2>4. st.samples = samples
    BY ONLY <2>3
  <2>5. samples \in Seq(Sample)
    OBVIOUS
  <2> QED BY ONLY <1>4, <2>4, <2>5 DEF PushInv, Is
<1> QED BY <1>1, <1>2, <1>3, <1>4

LEMMA InputInvHolds == Spec => []InputInv
<1> DEFINE Inputs == {"newRedfish", "newIpmi", "unit", "message", "push", "scrape", "pushConfig",
                      "rank", "topology", "gangliaName", "column", "jobMetric"}
<1>1. Init => Chosen /\ InputInv
  <2> SUFFICES ASSUME Init PROVE Chosen /\ InputInv
    OBVIOUS
  <2>1. st.kind \notin Inputs => InputInv
    BY Zenon DEF InputInv, ConfigInv, UnitInv, MessageInv, PushInv, TopologyInv, SinkInv, JobInv, Is
  <2>2. (st.kind \in {"newRedfish", "newIpmi"} /\ ConfigInv) => InputInv
    BY Zenon DEF InputInv, UnitInv, MessageInv, PushInv, TopologyInv, SinkInv, JobInv, Is
  <2>3. (Is("unit") /\ UnitInv) => InputInv
    BY DEF InputInv, ConfigInv, MessageInv, PushInv, TopologyInv, SinkInv, JobInv, Is
  <2>4. (Is("message") /\ MessageInv) => InputInv
    BY DEF InputInv, ConfigInv, UnitInv, PushInv, TopologyInv, SinkInv, JobInv, Is
  <2>5. (st.kind \in {"push", "scrape", "pushConfig", "rank"} /\ PushInv) => InputInv
    BY Zenon DEF InputInv, ConfigInv, UnitInv, MessageInv, TopologyInv, SinkInv, JobInv, Is
  <2>9. (Is("topology") /\ TopologyInv) => InputInv
    BY DEF InputInv, ConfigInv, UnitInv, MessageInv, PushInv, SinkInv, JobInv, Is
  <2>10. (st.kind \in {"gangliaName", "column"} /\ SinkInv) => InputInv
    BY Zenon DEF InputInv, ConfigInv, UnitInv, MessageInv, PushInv, TopologyInv, JobInv, Is
  <2>11. (Is("jobMetric") /\ JobInv) => InputInv
    BY DEF InputInv, ConfigInv, UnitInv, MessageInv, PushInv, TopologyInv, SinkInv, Is
  <2>6. Chosen
    BY InitChooses DEF Chosen
  <2>7. st.kind \in Inputs =>
          \/ ConfigInit /\ (Is("newRedfish") \/ Is("newIpmi"))
          \/ UnitInit /\ Is("unit")
          \/ MessageInit /\ Is("message")
          \/ RequestInit /\ Is("push")
          \/ ScrapeInit /\ Is("scrape")
          \/ PushConfigInit /\ Is("pushConfig")
          \/ RankInit /\ Is("rank")
          \/ TopologyInit /\ Is("topology")
          \/ GangliaNameInit /\ Is("gangliaName")
          \/ ColumnInit /\ Is("column")
          \/ JobMetricInit /\ Is("jobMetric")
    <3>1. Inputs \subseteq Covered
      BY DEF Covered
    <3>2. /\ Is("redfish") \/ Is("analysis") \/ Is("prometheus") => st.kind \notin Inputs
          /\ Is("async") \/ Is("resample") \/ Is("user") => st.kind \notin Inputs
      BY DEF Is
    <3> HIDE DEF Inputs
    <3> QED BY <3>1, <3>2, InitChooses, Zenon
  <2>8. /\ Is("newRedfish") \/ Is("newIpmi") => st.kind \in {"newRedfish", "newIpmi"}
        /\ Is("push") \/ Is("scrape") \/ Is("pushConfig") \/ Is("rank") =>
             st.kind \in {"push", "scrape", "pushConfig", "rank"}
        /\ Is("gangliaName") \/ Is("column") => st.kind \in {"gangliaName", "column"}
    BY DEF Is
  <2> HIDE DEF Inputs
  <2> QED BY <2>1, <2>2, <2>3, <2>4, <2>5, <2>6, <2>7, <2>8,
             <2>9, <2>10, <2>11, ConfigInitIs, UnitInitIs, MessageInitIs, PushInitIs,
             TopologyInitIs, SinkInitIs, JobMetricInitIs, Zenon
<1>2. Chosen /\ InputInv /\ [Next]_st => (Chosen /\ InputInv)'
  <2> SUFFICES ASSUME Chosen, InputInv, [Next]_st PROVE InputInv'
    BY KindStays
  <2>1. st'.kind = st.kind
    BY KindStays
  <2>2. CASE st.kind \notin Inputs
    BY <2>1, <2>2, Zenon
       DEF InputInv, ConfigInv, UnitInv, MessageInv, PushInv, TopologyInv, SinkInv, JobInv, Is
  <2>3. CASE st.kind \in Inputs
    <3>1. UNCHANGED st
      BY <2>3, StepsAreOwn DEF Is
    <3> QED BY <3>1, ZenonT(30)
             DEF InputInv, ConfigInv, UnitInv, MessageInv, PushInv, TopologyInv, SinkInv, JobInv, Is
  <2> QED BY <2>2, <2>3
<1> QED BY <1>1, <1>2, PTL DEF Spec

(* Every host is polled by one client, the pool has not more workers than  *)
(* hosts and one at least exactly if the fanout asks for one, what is      *)
(* disabled or excluded for all is so for each, an answer is reported for  *)
(* a host with its address (NewRedfishReceiver, NewIPMIReceiver,           *)
(* hostlist.Expand).  AnyConfigIsSound says so of any fanout and of any    *)
(* number of entries with any lists of hosts.                              *)
THEOREM ConfigsStaySound == Spec => []ConfigsAreSound
<1>1. InputInv => ConfigsAreSound
  BY AnyConfigIsSound DEF InputInv
<1> QED BY <1>1, InputInvHolds, PTL

(* A unit is read back from its text but for the named exceptions, and a   *)
(* conversion keeps the measure (NewUnit, Short, GetUnitPrefixFactor).     *)
(* AnyUnitSurvives says so of any denominator and any new prefix.          *)
THEOREM UnitsStayReadable == Spec => []UnitsSurvive
<1>1. InputInv => UnitsSurvive
  BY AnyUnitSurvives DEF InputInv
<1> QED BY <1>1, InputInvHolds, PTL

(* A message that is accepted is not changed by being written and is read  *)
(* back (NewMessage, ToLineProtocol, ToJSON, FromJSON).                    *)
(* AnyMessageSurvives says so of any tags, meta data and fields.           *)
THEOREM MessagesStayReadable == Spec => []MessagesSurvive
<1>1. InputInv => MessagesSurvive
  BY AnyMessageSurvives DEF InputInv
<1> QED BY <1>1, InputInvHolds, PTL

(* What the sender of a request is told was accepted has been handed on,   *)
(* by every way in, and of a refused one a beginning (ServerHttp, the      *)
(* eecpt receiver, _NatsReceive, toAnalysis).  AnyPushIsHandedOn says so   *)
(* of any number of lines.                                                 *)
THEOREM PushedIsHandedOn == Spec => []AcceptedIsHandedOn
<1>1. InputInv => AcceptedIsHandedOn
  BY AnyPushIsHandedOn DEF InputInv
<1> QED BY <1>1, InputInvHolds, PTL

(* A job has a part for itself exactly if it has all threads of it, every  *)
(* memory domain of it is listed with a socket that it shares a thread     *)
(* with, and the questions about the roles of a user do not contradict     *)
(* each other (schema/cluster.go, schema/user.go).  AnyTopologyAgrees says *)
(* so of any number of parts in which no thread is twice and whose sockets *)
(* have only threads of cores.                                             *)
THEOREM SchemaStaysConsistent == Spec => []SchemaAnswersAgree
<1>1. InputInv => ExclusiveIsAll
  BY AnyTopologyAgrees DEF InputInv
<1>2. Spec => []ExclusiveIsAll
  BY <1>1, InputInvHolds, PTL
<1>3. ExclusiveIsAll /\ RolesAgree => SchemaAnswersAgree
  BY DEF SchemaAnswersAgree
<1> QED BY <1>2, <1>3, QuestionsAgree, PTL

(* What the parts of a node report for one metric gets names that differ,  *)
(* every metric has a type and the name that Ganglia knows, and QuestDB    *)
(* gets every number it can represent as it is (GangliaMetricName, Write,  *)
(* NewQuestDBSink).  AnySinkIsFaithful says so of names of any parts with  *)
(* any id that is not the type.                                            *)
THEOREM SinksStayFaithful == Spec => []OtherSinksAreFaithful
<1>1. InputInv => OtherSinksAreFaithful
  BY AnySinkIsFaithful DEF InputInv
<1> QED BY <1>1, InputInvHolds, PTL

(* The values of a step are between its extremes, half of them on either   *)
(* side of the median, a higher percentile is not less and adding one      *)
(* leaves the others alone, and the node's series has a value exactly      *)
(* where all its parts have one (AddStatisticsSeries, AddPercentiles,      *)
(* AddNodeScope, util.Median).  AnyStatisticIsSound says so of any four    *)
(* series or more of any lengths and values.                               *)
THEOREM StatisticsStaySound == Spec => []StatisticsAreSound
<1>1. InputInv => StatisticsAreSound
  BY AnyStatisticIsSound DEF InputInv
<1> QED BY <1>1, InputInvHolds, PTL
=============================================================================
