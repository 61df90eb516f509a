--------------------------- MODULE DeviceReadings ---------------------------
(***************************************************************************)
(* What the polling receivers make of a device: readMetrics and the parts  *)
(* it calls in receivers/redfishReceiver.go, with the caches they keep     *)
(* from one round to the next, and the lines that doReadMetric of          *)
(* receivers/ipmiReceiver.go reads from ipmi-sensors.                      *)
(*                                                                         *)
(* A message is a record of its metric and where the value comes from; the *)
(* tags and the wording of the names are left out.                         *)
(***************************************************************************)
EXTENDS Component, Naturals, FiniteSets, Sequences

CONSTANTS
  Excluded,    (* possible sets of excluded metrics        *)
  MaxRounds    (* bound: rounds in which a device is read  *)

(* The sensors of the chassis: one of each class, named for the metric it  *)
(* gives, and one whose type or unit is not known.                         *)
Sensor == {"power", "fan_speed", "temperature", "unknown"}
Unread == {"unread"}   \* no entry for the chassis in readSensorURLs
PowerMetric == {"consumed_watts", "average_consumed_watts",
                "min_consumed_watts", "max_consumed_watts"}

Msg(metric, from) == [metric |-> metric, from |-> from]
Nothing(cache) == [sent |-> {}, cache |-> cache, end |-> "done"]
Failure(cache) == [Nothing(cache) EXCEPT !.end = "failed"]
Panic(cache, sent) == [sent |-> sent, cache |-> cache, end |-> "panicked"]
-----------------------------------------------------------------------------
(***************************************************************************)
(* A device d has answers: whether a session can be made (up), the parts   *)
(* that answer with an error (broken), the sensors, temperatures and so on *)
(* that are enabled and healthy (good) and those with a value (read), the  *)
(* sensors that cannot be got one by one (lost), after which others have   *)
(* been (early), the status of its fans and controls, and an answer for    *)
(* its processor.                                                          *)
(***************************************************************************)

(* The message processors of the client and of the receiver may drop a     *)
(* message on its way to the channel.                                      *)
SendMetrics(cc, messages) == {m \in messages : m.metric \notin cc.dropped}

KeptExcluded(cc, d) == d.good \ {"unknown"}   \* mutant: isExcluded is not looked at

Kept(cc, d) == d.good \ (cc.excluded \cup {"unknown"})

(* The first time the sensors worth reading are noted, before it is known  *)
(* whether there is an answer; from then on only these are asked, and no   *)
(* status is looked at.  One that cannot be got is logged, and the use of  *)
(* the nil that stands for it panics.                                      *)
ReadSensors(cc, cache, d) ==
  IF cache.urls = Unread
  THEN IF "sensors" \in d.broken
       THEN Failure([cache EXCEPT !.urls = {}])
       ELSE [sent |-> {Msg(s, "sensor") : s \in Kept(cc, d) \cap d.read},
             cache |-> [cache EXCEPT !.urls = Kept(cc, d)], end |-> "done"]
  ELSE IF cache.urls \cap d.lost = {}
  THEN [Nothing(cache) EXCEPT
          !.sent = {Msg(s, "sensor") : s \in cache.urls \cap d.read}]
  ELSE Panic(cache, {Msg(s, "sensor") : s \in cache.urls \cap d.read \cap d.early})

(* Temperatures without a status count as enabled, fans do not. *)
ReadThermalMetrics(cc, cache, d) ==
  IF "thermal" \in d.broken THEN Failure(cache)
  ELSE [Nothing(cache) EXCEPT
          !.sent = {Msg(m, "thermal") :
                      m \in {m \in {"temperature", "fan_speed"} :
                               /\ m \notin cc.excluded /\ m \in d.values
                               /\ d.status = "Enabled"
                                  \/ (m = "temperature" /\ d.status = "")}}]

ReadPowerMetrics(cc, cache, d) ==
  IF "power" \in d.broken THEN Failure(cache)
  ELSE IF d.status \notin {"", "Enabled"} THEN Nothing(cache)
  ELSE [Nothing(cache) EXCEPT
          !.sent = {Msg(m, "power") :
                      m \in (PowerMetric \ cc.excluded) \cap d.values}]

(* A URL that is not found is remembered and not asked again.  An error of *)
(* the connection is not a *schemas.Error, which the code takes it for.    *)
ReadProcessorMetrics(cc, cache, d) ==
  IF cache.skip THEN Nothing(cache)
  ELSE IF d.processor = "notFound" THEN Nothing([cache EXCEPT !.skip = TRUE])
  ELSE IF d.processor = "error" THEN Failure(cache)
  ELSE IF d.processor = "noAnswer" THEN Panic(cache, {})
  ELSE [Nothing(cache) EXCEPT
          !.sent = {Msg(m, "processor") :
                      m \in {"consumed_power", "temperature"} \ cc.excluded}
                   \ (IF d.processor = "65535"
                      THEN {Msg("consumed_power", "processor")} ELSE {})]

(* One part after the other, as far as they are wanted, until one fails or *)
(* panics.                                                                 *)
Then(r, wanted, Part(_)) ==
  IF r.end # "done" \/ ~wanted THEN r
  ELSE LET q == Part(r.cache) IN [q EXCEPT !.sent = @ \cup r.sent]

(* Without a session, or without the list of chassis or of systems that a  *)
(* wanted part needs, nothing is read.                                     *)
ReadMetrics(cc, cache, d) ==
  IF \/ ~d.up
     \/ cc.do \cap {"sensors", "thermal", "power"} # {} /\ "chassis" \in d.broken
     \/ "processor" \in cc.do /\ "systems" \in d.broken
  THEN Failure(cache)
  ELSE LET a == Then(Nothing(cache), "sensors" \in cc.do, LAMBDA c : ReadSensors(cc, c, d))
           b == Then(a, "thermal" \in cc.do, LAMBDA c : ReadThermalMetrics(cc, c, d))
           e == Then(b, "power" \in cc.do, LAMBDA c : ReadPowerMetrics(cc, c, d))
       IN Then(e, "processor" \in cc.do, LAMBDA c : ReadProcessorMetrics(cc, c, d))
-----------------------------------------------------------------------------
(* One line of ipmi-sensors: the first pattern that fits decides the name  *)
(* of the metric and its unit; other lines are dropped.                    *)
Utilization == {"cpu_utilization", "io_utilization", "mem_utilization",
                "sys_utilization"}

Classify(l) ==
  CASE l.unit = "Watts" -> <<"power", "Watts">>
    [] l.type = "voltage" /\ l.unit = "Volts" -> <<"voltage", "Volts">>
    [] l.type = "current" /\ l.unit = "Amps" -> <<"current", "Ampere">>
    [] l.type = "temperature" /\ l.unit = "degrees C" -> <<"temperature", "degC">>
    [] l.type = "temperature" /\ l.unit = "degrees F" -> <<"temperature", "degF">>
    [] l.type = "fan" /\ l.unit = "RPM" -> <<"fan_speed", "RPM">>
    [] /\ l.type \in {"cooling device", "other units based sensor"}
       /\ l.name = "system_air_flow" /\ l.unit = "CFM" ->
         <<"air_flow", "CubicFeetPerMinute">>
    [] /\ l.type \in {"processor", "other units based sensor"}
       /\ l.name \in Utilization /\ l.unit \in {"unspecified", "%"} ->
         <<"utilization", "percent">>
    [] OTHER -> <<>>

(* The host has to be one that was asked for, the value a number. *)
ReadLine(cc, l) ==
  LET c == Classify(l) IN
    IF l.host \notin cc.hosts \/ l.reading # "number" \/ c = <<>> THEN {}
    ELSE IF c[1] \in cc.excluded THEN {}
    ELSE {[metric |-> c[1], unit |-> c[2], host |-> l.host]}
-----------------------------------------------------------------------------
Part == {"sensors", "thermal", "power", "processor"}
Device ==
  [up : BOOLEAN, broken : {{}, {"chassis"}, {"systems"}} \cup {{p} : p \in Part},
   good : {{}, Sensor, {"power", "unknown"}, Sensor \ {"power"}},
   read : {Sensor, {"power"}}, lost : {{}, {"power"}}, early : {{}, {"temperature"}},
   status : {"", "Enabled", "Absent"},
   values : {{"temperature", "fan_speed"} \cup PowerMetric},
   processor : {"ok", "65535", "notFound", "error", "noAnswer"}]

RedfishInit ==
  \E e \in Excluded, p \in {Part, {"sensors"}, {"processor", "thermal"}} :
    st = [kind |-> "redfish", cc |-> [excluded |-> e, do |-> p,
                                   dropped |-> {"fan_speed"}],
          cache |-> [urls |-> Unread, skip |-> FALSE], sent |-> {},
          end |-> "none", readable |-> {}, healthy |-> Unread, blind |-> FALSE,
          absent |-> FALSE, round |-> 0]

(* A worker reads the metrics of a device, unless a panic has ended the    *)
(* program.  History: the sensors with a value, those that were healthy    *)
(* when the list was made, whether they could be listed then, and whether  *)
(* the metrics of the processor were ever not found.                       *)
ReadDevice ==
  /\ Is("redfish") /\ st.round < MaxRounds /\ st.end # "panicked"
  /\ \E d \in Device :
       LET r == ReadMetrics(st.cc, st.cache, d) IN
         st' = [st EXCEPT !.cache = r.cache, !.sent = SendMetrics(st.cc, r.sent),
                          !.round = @ + 1, !.end = r.end, !.readable = d.read,
                          !.healthy = IF @ = Unread /\ r.cache.urls # Unread
                                      THEN d.good ELSE @,
                          !.blind = @ \/ /\ st.cache.urls = Unread
                                         /\ r.cache.urls # Unread
                                         /\ "sensors" \in d.broken,
                          !.absent = @ \/ (r.cache # st.cache /\ r.cache.skip)]

Line == [host : {"asked", "other"}, reading : {"number", "text"},
         type : {"voltage", "current", "temperature", "fan", "processor",
                 "other units based sensor", "cooling device"},
         name : {"cpu_utilization", "system_air_flow", "x"},
         unit : {"Watts", "Volts", "Amps", "degrees C", "degrees F", "RPM",
                 "CFM", "%", "unspecified"}]

IpmiInit ==
  \E e \in Excluded, l \in Line :
    st = [kind |-> "ipmi", cc |-> [excluded |-> e, hosts |-> {"asked"}],
          line |-> l]
-----------------------------------------------------------------------------
CanonicalUnit ==
  [power |-> {"Watts"}, voltage |-> {"Volts"}, current |-> {"Ampere"},
   temperature |-> {"degC", "degF"}, fan_speed |-> {"RPM"},
   air_flow |-> {"CubicFeetPerMinute"}, utilization |-> {"percent"}]

(* What the caches remember is used for ever.  A round that is neither cut *)
(* short nor ended by a panic sends exactly the sensors that have a value  *)
(* among those that were healthy and wanted when the list was made, and    *)
(* none for ever if making it failed; others send no more than that.       *)
(* Nothing that is excluded is sent in any round, and processors that were *)
(* not found are silent (readSensorURLs, skipProcessorMetricsURL).         *)
(* A line of ipmi-sensors becomes a message only for a host that was asked *)
(* for and a metric that is wanted, and its unit is one the metric has     *)
(* throughout ClusterCockpit, never the wording of the tool.               *)
FromSensors(sent) == {m.metric : m \in {m \in sent : m.from = "sensor"}}

Wanted == IF st.blind THEN {}
          ELSE st.healthy \ (st.cc.excluded \cup st.cc.dropped \cup {"unknown"})

ReadingsAreRight ==
  /\ Is("redfish") =>
       /\ \A m \in st.sent : /\ m.metric \notin st.cc.excluded \cup st.cc.dropped
                             /\ m.from = "processor" => ~st.absent
       /\ FromSensors(st.sent) \subseteq Wanted
       /\ st.end = "done" /\ "sensors" \in st.cc.do =>
            FromSensors(st.sent) = Wanted \cap st.readable
  /\ Is("ipmi") =>
       \A m \in ReadLine(st.cc, st.line) :
         /\ m.host \in st.cc.hosts /\ m.metric \notin st.cc.excluded
         /\ m.unit \in CanonicalUnit[m.metric]
=============================================================================
