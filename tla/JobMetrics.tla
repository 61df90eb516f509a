------------------------------ MODULE JobMetrics ------------------------------
(***************************************************************************)
(* schema/metrics.go and util/statistics.go: what is computed from the     *)
(* time series of a job.  A Float is the set of its value, NaN the empty   *)
(* set, so that arithmetic passes NaN on.  Values are even, so that the    *)
(* mean of two is a whole number; an average is a sum and a count.         *)
(***************************************************************************)
EXTENDS Component, Integers, SequencesExt

Row(t, jm) == [j \in DOMAIN jm.series |-> jm.series[j].data[t]]
Lengths(series) == {Len(series[j].data) : j \in DOMAIN series}
Values(floats) == UNION {floats[j] : j \in DOMAIN floats}
ZeroForNaN(x) == IF x = {} THEN 0 ELSE CHOOSE v \in x : TRUE
NotNaN(floats) == {j \in DOMAIN floats : floats[j] # {}}

(* NaN is before every number, as sort.Float64s puts it. *)
IsBefore(x, y) == y # {} /\ (x = {} \/ ZeroForNaN(x) < ZeroForNaN(y))

(* At place i is the element that fewer than i are before, and at least i  *)
(* not after.                                                              *)
Sorted(row) ==
  [i \in DOMAIN row |->
     CHOOSE x \in ToSet(row) :
       /\ Cardinality({j \in DOMAIN row : IsBefore(row[j], x)}) < i
       /\ i <= Cardinality({j \in DOMAIN row : ~IsBefore(x, row[j])})]

MedianUnsorted(c) == ZeroForNaN(c[Len(c) \div 2 + 1])   \* mutant: not of a sorted copy

Median(c) ==
  LET l == Len(c)
      At(i) == ZeroForNaN(Sorted(c)[i])
  IN IF l % 2 = 0 THEN (At(l \div 2) + At(l \div 2 + 1)) \div 2 ELSE At(l \div 2 + 1)

(* The statistics at one step: NaN where fewer than three series have a    *)
(* value.  The slice for the median has a place for every series, and a    *)
(* zero is left in it for NaN.                                             *)
Step(row) ==
  IF Cardinality(NotNaN(row)) < 3 THEN [min |-> {}, max |-> {}, median |-> {}]
  ELSE [min |-> {Min(Values(row))}, max |-> {Max(Values(row))},
        median |-> {Median([j \in DOMAIN row |-> {ZeroForNaN(row[j])}])}]

(* Beyond the shortest series everything is NaN. *)
AddStatisticsSeries(jm) ==
  IF jm.stats # <<>> \/ Len(jm.series) < 4 THEN jm
  ELSE [jm EXCEPT !.stats =
          <<[steps |-> [t \in 1..Max(Lengths(jm.series)) |->
                          IF t <= Min(Lengths(jm.series)) THEN Step(Row(t, jm))
                          ELSE [min |-> {}, max |-> {}, median |-> {}]],
             percentiles |-> [p \in {} |-> <<>>]]>>]

(* The values at one step, as far as the series reach. *)
SortedRow(t, jm) ==
  LET there == Only(jm.series, {s \in ToSet(jm.series) : t <= Len(s.data)})
  IN Sorted([j \in DOMAIN there |-> there[j].data[t]])

Percentile(sorted, p) == sorted[(Len(sorted) * p) \div 100 + 1]

(* Fewer than three series have no percentiles.  Three have no statistics  *)
(* to add them to either: the code then dereferences nil.                  *)
AddPercentiles(jm, ps) ==
  LET s == AddStatisticsSeries(jm) IN
    IF Len(jm.series) < 3 \/ s.stats = <<>> THEN s
    ELSE [s EXCEPT !.stats =
            <<[steps |-> s.stats[1].steps,
               percentiles |->
                 Over(s.stats[1].percentiles,
                      [p \in ps |-> [t \in 1..Max(Lengths(jm.series)) |->
                                       Percentile(SortedRow(t, jm), p)]])]>>]

Granularity == [node |-> 10, socket |-> 5, memoryDomain |-> 4, core |-> 3, hwthread |-> 2,
                accelerator |-> 1]
MaxScope(scopes) ==
  CHOOSE s \in scopes : \A o \in scopes : Granularity[o] <= Granularity[s]

FloatAdd(x, y) == {a + b : a \in x, b \in y}
FloatSum(floats) == FoldLeft(FloatAdd, {0}, floats)

(* The series of a host become one: the sum where all have data.           *)
NodeSeries(host, jm) ==
  LET series == Only(jm.series, {s \in ToSet(jm.series) : s.host = host}) IN
    [host |-> host,
     data |-> [t \in 1..Max(Lengths(series)) |->
                 IF t <= Min(Lengths(series))
                 THEN FloatSum([j \in DOMAIN series |-> series[j].data[t]]) ELSE {}],
     stat |-> [min |-> Min({series[j].stat.min : j \in DOMAIN series}),
               max |-> Max({series[j].stat.max : j \in DOMAIN series}),
               avg |-> [sum |-> FoldLeft(LAMBDA n, s : n + s.stat.avg.sum, 0, series),
                        of |-> Len(series)]]]

AddNodeScope(scopes) ==
  IF DOMAIN scopes = {} \/ MaxScope(DOMAIN scopes) = "node" THEN scopes
  ELSE LET jm == scopes[MaxScope(DOMAIN scopes)]
           hosts == {jm.series[j].host : j \in DOMAIN jm.series}
       IN Assign(scopes, "node",
                 [series |-> SetToSeq({NodeSeries(h, jm) : h \in hosts}), stats |-> <<>>])
-----------------------------------------------------------------------------
SeriesOf(host, data) ==
  [host |-> host, data |-> data,
   stat |-> [min |-> Min(Values(data) \cup {6}), max |-> Max(Values(data) \cup {0}),
             avg |-> [sum |-> ZeroForNaN(data[1]), of |-> 1]]]
Data == {<<v>> : v \in {{}, {2}, {4}}} \cup {<<{2}, {6}>>, <<{4}, {}>>}

JobMetricInit ==
  \E a, b, c, d \in Data, hosts \in {<<"h", "h", "h", "h">>, <<"h", "i", "h", "i">>},
     more \in {<<>>, <<<<{4}>>>>} :
    LET data == <<a, b, c, d>> \o more IN
      st = [kind |-> "jobMetric",
            jm |-> [series |-> [j \in DOMAIN data |->
                                  SeriesOf((hosts \o <<"h">>)[j], data[j])],
                    stats |-> <<>>]]
-----------------------------------------------------------------------------
(* What is known of step t: the values are between the extremes, which are *)
(* among them; where all series have one, half of them are on either side  *)
(* of the median, and a higher percentile is not less.                     *)
StepIsSound(jm, s, t) ==
  LET row == Row(t, jm)
      step == s.steps[t]
      half(S) == 2 * Cardinality(S) >= Len(jm.series)
  IN /\ step.min # {} => \A v \in Values(row) : Min(step.min) <= v /\ v <= Max(step.max)
     /\ step.min # {} => step.min \cup step.max \subseteq Values(row)
     /\ Cardinality(NotNaN(row)) = Len(jm.series) =>
          LET m == CHOOSE v \in step.median : TRUE IN
            /\ half({j \in DOMAIN row : Min(row[j]) <= m})
            /\ half({j \in DOMAIN row : Min(row[j]) >= m})
            /\ Min(s.percentiles[25][t]) <= Min(s.percentiles[75][t])

(* The series of a host is of all its parts, and has nothing where one of  *)
(* them has nothing.                                                       *)
AddsUp(jm, node) ==
  LET parts == {j \in DOMAIN jm.series : jm.series[j].host = node.host}
  IN /\ node.stat.avg.of = Cardinality(parts)
     /\ \A t \in DOMAIN node.data :
          node.data[t] # {} <=>
            \A j \in parts : t <= Len(jm.series[j].data) /\ jm.series[j].data[t] # {}

(* The statistics of a step have the values of that step between their     *)
(* extremes and, where all series have one, the median too, half of them   *)
(* on either side; percentiles grow with p, and adding one later leaves    *)
(* the earlier ones alone.  The node's series is of all its parts, with a  *)
(* value exactly where all of them have one (AddStatisticsSeries,          *)
(* AddPercentiles, AddNodeScope).                                          *)
StatisticsAreSound ==
  Is("jobMetric") =>
    LET jm == st.jm
        once == AddPercentiles(jm, {25, 75})
        node == AddNodeScope([k \in {"core", "hwthread"} |-> jm])["node"]
    IN /\ AddPercentiles(AddPercentiles(jm, {25}), {25, 75}) = once
       /\ \A t \in 1..Min(Lengths(jm.series)) : StepIsSound(jm, once.stats[1], t)
       /\ \A k \in DOMAIN node.series : AddsUp(jm, node.series[k])
=============================================================================
