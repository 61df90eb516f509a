----------------------------- MODULE OtherSinks -----------------------------
(***************************************************************************)
(* The sinks that leave buffering to a library: the gauges of              *)
(* sinks/prometheusSink.go against the registry of the Prometheus client,  *)
(* the flush timer of sinks/influxAsyncSink.go that two goroutines use     *)
(* without a lock, the names and types that sinks/gangliaCommon.go,        *)
(* gangliaSink.go and libgangliaSink.go give to metrics, and the columns   *)
(* of sinks/questDbSink.go.                                                *)
(***************************************************************************)
EXTENDS Component, Integers, SequencesExt

CONSTANT MaxWrites   (* bound: messages written to the gauges of a metric *)

-----------------------------------------------------------------------------
(***************************************************************************)
(* Prometheus.  All messages are of one metric (and one namespace).  vec   *)
(* is its GaugeVec (labelMetrics) with the names of the labels and the     *)
(* value for each combination of label values.  registered is what the     *)
(* registry has under the name: the vec, or the first gauge without labels *)
(* with the value gauge, or nothing.  node is the gauge in nodeMetrics:    *)
(* none, the served one, which is registered, or another.  latest and      *)
(* first are history: the last value of each series that was written, a    *)
(* series being the names of its labels and their values, and the value of *)
(* the first message.                                                      *)
(***************************************************************************)
Series == [type : {"none", "hwthread", "socket"}, id : {"0", "1"},
           device : {"none", "tag", "meta"}]
NoVec == [names |-> <<>>, at |-> <<>>]

GetLabelValue(m) ==
  (IF m.type = "none" THEN <<>> ELSE <<m.id>>)
    \o (IF m.device = "none" THEN <<>> ELSE <<m.device>>)
GetLabelNames(m) ==
  (IF m.type = "none" THEN <<>> ELSE <<m.type>>)
    \o (IF m.device = "none" THEN <<>> ELSE <<"device">>)

GaugeSeries(m) == [names |-> GetLabelNames(m), values |-> GetLabelValue(m)]
Unlabelled == [names |-> <<>>, values |-> <<>>]

PrometheusInit ==
  st = [kind |-> "prometheus", vec |-> NoVec, registered |-> "nothing", gauge |-> 0,
        node |-> "none", latest |-> <<>>, first |-> 0, writes |-> 0, panicked |-> FALSE]

(* A second collector of the name is refused by the registry; the sink     *)
(* does not look at that.                                                  *)
Register(s, what, value) ==
  IF s.registered # "nothing" THEN s
  ELSE [s EXCEPT !.registered = what, !.gauge = value]

SetLabelledOnce(s, m, v) ==   \* mutant: only a new series is set
  IF s.vec = NoVec
  THEN Register([s EXCEPT !.vec = [names |-> GetLabelNames(m),
                                   at |-> Assign(<<>>, GetLabelValue(m), v)]], "vec", 0)
  ELSE IF Len(s.vec.names) # Len(GetLabelValue(m)) THEN [s EXCEPT !.panicked = TRUE]
  ELSE [s EXCEPT !.vec.at = @ @@ (GetLabelValue(m) :> v)]

SetLabelled(s, m, v) ==
  IF s.vec = NoVec
  THEN Register([s EXCEPT !.vec = [names |-> GetLabelNames(m),
                                   at |-> Assign(<<>>, GetLabelValue(m), v)]], "vec", 0)
  ELSE IF Len(s.vec.names) # Len(GetLabelValue(m)) THEN [s EXCEPT !.panicked = TRUE]
  ELSE [s EXCEPT !.vec.at = Assign(@, GetLabelValue(m), v)]

(* Whether there is a gauge is looked up among the ones with labels: as    *)
(* long as there is none each message makes a new gauge, of which only the *)
(* first is registered; then the last that was made is set, if any was.    *)
SetPlain(s, v) ==
  IF s.vec = NoVec
  THEN Register([s EXCEPT !.node = IF s.registered = "nothing" THEN "served" ELSE "other"],
                "gauge", v)
  ELSE [s EXCEPT !.panicked = (s.node = "none"),
                 !.gauge = IF s.node = "served" THEN v ELSE @]

(* The message that was given is used, not the one that the rules made of  *)
(* it.  A value that is no number is refused.                              *)
WriteGauge ==
  /\ Is("prometheus") /\ st.writes < MaxWrites /\ ~st.panicked
  /\ \E m \in Series, v \in {1, 2} :
       st' = [IF GetLabelValue(m) = <<>> THEN SetPlain(st, v) ELSE SetLabelled(st, m, v)
              EXCEPT !.latest = Assign(@, GaugeSeries(m), v), !.writes = @ + 1,
                     !.first = IF st.writes = 0 THEN v ELSE @]
-----------------------------------------------------------------------------
(***************************************************************************)
(* Asynchronous InfluxDB.  flushTimer is set after time.AfterFunc has      *)
(* started the clock: the callback may come first.  The write API of the   *)
(* client is external: it buffers points, and Flush sends them.            *)
(***************************************************************************)
AsyncInit ==
  st = [kind |-> "async", timer |-> FALSE, assigning |-> FALSE, clocks |-> 0,
        flushing |-> 0, resetting |-> 0, buffered |-> FALSE, overtaken |-> FALSE,
        closed |-> FALSE]

AsyncWrite ==   \* Write up to AfterFunc, or all of it
  /\ Is("async") /\ ~st.assigning /\ ~st.closed
  /\ st' = IF st.timer THEN [st EXCEPT !.buffered = TRUE]
           ELSE [st EXCEPT !.clocks = @ + 1, !.assigning = TRUE, !.overtaken = FALSE]

AsyncAssigns ==
  /\ Is("async") /\ st.assigning
  /\ st' = [st EXCEPT !.timer = TRUE, !.assigning = FALSE, !.buffered = TRUE]

AsyncFires ==
  /\ Is("async") /\ st.clocks > 0
  /\ st' = [st EXCEPT !.clocks = @ - 1, !.flushing = @ + 1,
                      !.overtaken = st.assigning]

AsyncFlushResetsFirst ==   \* mutant: the timer is reset before the library flushes
  /\ Is("async") /\ st.flushing > 0
  /\ \/ st.timer /\ st' = [st EXCEPT !.timer = FALSE]
     \/ st' = [st EXCEPT !.flushing = @ - 1, !.buffered = FALSE]

AsyncFlush ==   \* Flush: the library first, then the timer
  /\ Is("async")
  /\ \/ /\ st.flushing > 0
        /\ st' = [st EXCEPT !.flushing = @ - 1, !.resetting = @ + 1, !.buffered = FALSE]
     \/ /\ st.resetting > 0
        /\ st' = [st EXCEPT !.resetting = @ - 1, !.timer = FALSE]

AsyncClose ==   \* does not stop the timer
  /\ Is("async") /\ ~st.assigning /\ ~st.closed
  /\ st' = [st EXCEPT !.closed = TRUE, !.buffered = FALSE]
-----------------------------------------------------------------------------
(* Ganglia.  A name is a sequence of parts, the type of a message may be   *)
(* one of them.                                                            *)
Replaced(name, type, parts) ==
  FoldLeft(LAMBDA out, part : out \o (IF part = type THEN parts ELSE <<part>>), <<>>, name)

GangliaMetricNameShared(m) ==   \* mutant: the id is forgotten in the second case
  IF m.type = "" \/ m.id = "" THEN m.name
  ELSE IF m.type \in ToSet(m.name) THEN Replaced(m.name, m.type, <<m.type, m.id>>)
  ELSE <<m.type, "_">> \o m.name

(* Every name contains the empty type: an id without type is put before    *)
(* and behind every letter.                                                *)
GangliaMetricName(m) ==
  IF m.type = "" /\ m.id # ""
  THEN <<m.id>> \o FlattenSeq([i \in DOMAIN m.name |-> <<m.name[i], m.id>>])
  ELSE IF m.id # "" /\ m.type \in ToSet(m.name)
  THEN Replaced(m.name, m.type, <<m.type, m.id>>)
  ELSE IF m.type # "" /\ m.id # "" THEN <<m.type, m.id, "_">> \o m.name
  ELSE IF m.device # "" THEN m.name \o <<"_", m.device>> ELSE m.name

GangliaMetricRename(name) ==
  CASE name = "net_bytes_in" -> "bytes_in" [] name = "net_bytes_out" -> "bytes_out"
    [] name = "net_pkts_in" -> "pkts_in" [] name = "net_pkts_out" -> "pkts_out"
    [] name = "cpu_iowait" -> "cpu_wio" [] OTHER -> name

(* The metrics that Ganglia knows, by the type and the slope they have. *)
Strings == {"machine_type", "os_name", "os_release"}
Constants == {"mem_total", "swap_total", "cpu_num", "cpu_speed", "boottime", "sys_clock"}
              \cup Strings
Counts == {"cpu_num", "cpu_speed", "proc_run", "proc_total", "boottime", "sys_clock", "mtu"}
Doubles == {"disk_total", "disk_free"}
Cpu == {"cpu_num", "cpu_speed", "cpu_user", "cpu_nice", "cpu_system", "cpu_idle",
        "cpu_aidle", "cpu_wio", "cpu_intr", "cpu_sintr", "cpu_steal", "cpu_guest",
        "cpu_gnice"}
Memory == {"mem_total", "swap_total", "mem_free", "mem_shared", "mem_buffers",
           "mem_cached", "swap_free", "mem_sreclaimable", "mem_slab"}
CommonGangliaMetrics ==
  Cpu \cup Memory \cup Constants \cup Counts \cup Doubles
    \cup {"load_one", "load_five", "load_fifteen", "part_max_used",
          "bytes_out", "bytes_in", "pkts_in", "pkts_out"}

GetCommonGangliaConfig(name) ==
  IF name \notin CommonGangliaMetrics THEN [name |-> "", type |-> "", slope |-> ""]
  ELSE [name |-> name, slope |-> IF name \in Constants THEN "zero" ELSE "both",
        type |-> IF name \in Strings THEN "string"
                 ELSE IF name \in Counts THEN "uint32"
                 ELSE IF name \in Doubles THEN "double" ELSE "float"]

(* Integers are announced with half of their width; a message without      *)
(* value is announced as a double.                                         *)
GetGangliaConfig(name, value) ==
  [name |-> name, slope |-> "both",
   type |-> CASE value \in {"float64", "none"} -> "double"
              [] value = "int64" -> "int32" [] value = "uint64" -> "uint32"
              [] value = "string" -> "string" [] OTHER -> "invalid"]

(* Write of both sinks: the name that was replaced counts, if there is one. *)
GangliaWrite(m) ==
  LET name == GangliaMetricRename(IF m.oldname # "" THEN m.oldname ELSE m.plain)
      common == GetCommonGangliaConfig(name)
  IN IF common.type # "" THEN common ELSE GetGangliaConfig(name, m.value)
-----------------------------------------------------------------------------
(* QuestDB.  A field is a column of one of three types; an unsigned number *)
(* becomes a signed one of the same width (here 4 bits), and a field of    *)
(* another type is left out.                                               *)
Column(field) ==
  CASE field.type \in {"float64", "int64", "string"} -> {field}
    [] field.type = "uint64" ->
         {[type |-> "int64",
           value |-> IF field.value < 8 THEN field.value ELSE field.value - 16]}
    [] OTHER -> {}

NewQuestDBSink(c) ==
  CASE c.interval = "unparsable" -> "error"
    [] c.interval # "unparsable" /\ (c.user = "") # (c.password = "") -> "error"
    [] c.interval # "unparsable" /\ c.user # "" /\ c.password # "" ->
         IF c.token # "" THEN "error" ELSE "basic"
    [] OTHER -> IF c.token # "" THEN "bearer" ELSE "none"
-----------------------------------------------------------------------------
GangliaNameInit ==
  \E name \in {<<"cpu", "_", "load">>, <<"load">>}, type \in {"", "cpu", "socket"} :
  \E id \in {"", "0", "1"}, device \in {"", "eth0"} :
    st = [kind |-> "gangliaName", name |-> name, type |-> type, id |-> id,
          device |-> device]
GangliaInit ==
  \E plain, oldname \in {"net_pkts_in", "cpu_iowait", "mem_total", "flops", ""} :
  \E value \in {"float64", "int64", "uint64", "string", "bool", "none"} :
    st = [kind |-> "ganglia", plain |-> plain, oldname |-> oldname, value |-> value]
QuestDBInit ==
  \E user, password, token \in {"", "x"}, interval \in {"5s", "unparsable"} :
    st = [kind |-> "questdb", user |-> user, password |-> password, token |-> token,
          interval |-> interval]
ColumnInit ==
  \E type \in {"float64", "int64", "uint64", "string", "bool"}, v \in 0..15 :
    st = [kind |-> "column", field |-> [type |-> type, value |-> v]]

SinkInit == GangliaNameInit \/ GangliaInit \/ QuestDBInit \/ ColumnInit
-----------------------------------------------------------------------------
(* As long as all messages of a metric have the same labels, what          *)
(* Prometheus scrapes is the latest value of every series, each under its  *)
(* own labels, and no message makes the sink panic.  Otherwise it is not:  *)
(* if the labels are others but equally many, series with the same values  *)
(* of them (hwthread 0 and socket 0) are one series under the labels that  *)
(* came first, which has the latest value of one of them; if they are more *)
(* or fewer, the sink panics; and a metric that once came without labels   *)
(* either makes it panic or is served without labels, with its latest such *)
(* value only if a single message without labels came before the first     *)
(* with labels, else with its first for ever (updateMetric, newMetric).    *)
LabelledAreCurrent ==
  Is("prometheus") =>
    LET written == DOMAIN st.latest
        labels == {s.names : s \in written}
        at == st.vec.at
    IN /\ \A n \in labels :
            labels = {n} /\ n # <<>> =>
              /\ ~st.panicked /\ st.registered = "vec" /\ st.vec.names = n
              /\ DOMAIN at = {s.values : s \in written}
              /\ \A s \in written : at[s.values] = st.latest[s]
       /\ <<>> \notin labels /\ (\A a, b \in labels : Len(a) = Len(b)) =>
              /\ ~st.panicked
              /\ \A v \in DOMAIN at :
                   \E s \in written : s.values = v /\ at[v] = st.latest[s]
       /\ <<>> \notin labels /\ (\E a, b \in labels : Len(a) # Len(b)) => st.panicked
       /\ <<>> \in labels /\ ~st.panicked =>
              /\ st.registered = "gauge"
              /\ st.gauge = IF st.node = "served" THEN st.latest[Unlabelled] ELSE st.first

(* The callbacks of two timers never overlap, and a timer that will not    *)
(* fire any more is remembered only if its callback came before the        *)
(* assignment: otherwise the next message starts a new one (Write, Flush   *)
(* of the asynchronous sink).                                              *)
FlushesDoNotOverlap ==
  Is("async") =>
    /\ st.clocks + st.flushing + st.resetting <= 1
    /\ st.timer /\ st.clocks + st.flushing + st.resetting = 0 => st.overtaken

(* What the parts of a node report for one metric gets names that differ,  *)
(* a metric that Ganglia knows under another name is found under it, and a *)
(* type is always announced, so that no message is refused for the lack of *)
(* one; QuestDB gets every number it can represent as it is, and never two *)
(* kinds of credentials (GangliaMetricName, Write, NewQuestDBSink).        *)
OtherSinksAreFaithful ==
  /\ Is("gangliaName") =>
       \A id \in {"0", "1"}, type \in {"cpu", "socket"} :
         LET n == [st EXCEPT !.id = id, !.type = type]
         IN st.id # "" /\ st.type # "" /\ GangliaMetricName(n) = GangliaMetricName(st)
              => n = st
  /\ Is("ganglia") =>
       LET c == GangliaWrite(st) IN
         /\ c.type # "" /\ GangliaMetricRename(c.name) = c.name
         /\ \A n \in {st.plain, st.oldname} :
              GangliaMetricRename(n) # n => GangliaMetricRename(n) \in CommonGangliaMetrics
  /\ Is("column") =>
       \A c \in Column(st.field) :
         c.value = st.field.value \/ (st.field.type = "uint64" /\ st.field.value >= 8)
  /\ Is("questdb") =>
       (NewQuestDBSink(st) = "basic" => st.token = "" /\ st.password # "")
=============================================================================
