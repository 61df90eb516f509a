------------------------------ MODULE Resampling ------------------------------
(***************************************************************************)
(* resampler/resampler.go: three ways to make a time series coarser.  A    *)
(* Float is the set of its value, NaN the empty set, so that arithmetic    *)
(* passes NaN on.  Bucket limits and areas are exact, where the code       *)
(* rounds to float64.                                                      *)
(***************************************************************************)
EXTENDS Component, Integers, SequencesExt

CONSTANTS
  MinimumRequiredPoints,   (* shorter series are left alone   *)
  MaxPoints,               (* bound: the longest series       *)
  DensePoints,             (* bound: up to which every series of FloatValues is tried *)
  MaxPeaks                 (* bound: points that differ in a longer one *)

ASSUME ResamplingAssumption == /\ MinimumRequiredPoints \in Nat \ {0, 1}
                               /\ MaxPoints \in Nat
                               /\ DensePoints \in Nat /\ MaxPeaks \in Nat

Refuse == [error |-> TRUE, length |-> 0, step |-> 0]
Unchanged == [error |-> FALSE, length |-> -1, step |-> 0]

ValidateFrequency(lenData, oldFrequency, newFrequency) ==
  IF oldFrequency = 0 \/ newFrequency = 0 \/ newFrequency <= oldFrequency THEN Unchanged
  ELSE IF newFrequency % oldFrequency # 0 THEN Refuse
  ELSE LET step == newFrequency \div oldFrequency
           length == lenData \div step
       IN IF length = 0 \/ lenData < MinimumRequiredPoints \/ length >= lenData
          THEN Unchanged
          ELSE [error |-> FALSE, length |-> length, step |-> step]

(* Points are numbered from 0, as in the code. *)
At(data, i) == data[i + 1]

Simple(data, step, length) == [k \in 1..length |-> At(data, (k - 1) * step)]

(* The mean of what is there, as a sum and a count. *)
MeanOf(floats) ==
  LET there == {j \in DOMAIN floats : floats[j] # {}}
  IN [sum |-> FoldFunctionOnSet(LAMBDA x, sum : sum + (CHOOSE v \in x : TRUE), 0,
                                floats, there),
      of |-> Cardinality(there)]
Average(data, step, length) ==
  [k \in 1..length |-> MeanOf([j \in 0..step - 1 |-> At(data, (k - 1) * step + j)])]

(* Twice the area of the triangle of a point a, the mean of points low..   *)
(* high and a point c, times the number of these points; the mean of no    *)
(* points is NaN.                                                          *)
AddFloats(x, y) == {v + w : v \in x, w \in y}
SumY(data, low, high) ==
  FoldSeq(AddFloats, {0}, [k \in 1..high - low + 1 |-> At(data, low + k - 1)])
AreaSigned(x, y, n, sumX, sumY, cx, cy) ==   \* mutant: a valley has a negative area
  (x - cx) * (sumY - n * y) - (n * x - sumX) * (cy - y)
AreaOf(x, y, n, sumX, sumY, cx, cy) ==
  LET area == (x - cx) * (sumY - n * y) - (n * x - sumX) * (cy - y)
  IN IF area < 0 THEN -area ELSE area
Area(data, a, low, high, c) ==
  LET n == high - low + 1
      sumX == ((low + high) * n) \div 2
  IN {AreaOf(a, y, n, sumX, sumY, c, cy) :
        y \in At(data, a), cy \in At(data, c),
        sumY \in IF n = 0 THEN {} ELSE SumY(data, low, high)}

PointsInclusive(b) == b.low..b.middle   \* mutant: the first of the next bucket too
Points(b) == b.low..b.middle - 1

(* In a bucket the first of the largest areas is taken, but an area that   *)
(* is NaN over all others, and the last of them.                           *)
MaxAreaPoint(data, prev, b) ==
  LET Of(c) == Area(data, prev, b.middle, b.high, c)
      points == Points(b)
      nans == {c \in points : Of(c) = {}}
  IN IF nans # {} THEN Max(nans)
     ELSE Min({c \in points : \A o \in points : Max(Of(o)) <= Max(Of(c))})

BucketHigh(n, m, i) ==
  Min({n - 2, ((i + 2) * (n - 2)) \div (m - 2) + 1})

(* The points that are kept: the first, one of each bucket, the last.      *)
FirstBucket(n, m) ==
  [low |-> 1, middle |-> IF m > 2 THEN (n - 2) \div (m - 2) + 1 ELSE 1, points |-> <<0>>]
NextBucket(data, m, b, i) ==
  LET bucket == [low |-> b.low, middle |-> b.middle, high |-> BucketHigh(Len(data), m, i)]
  IN [low |-> b.middle, middle |-> bucket.high,
      points |-> Append(b.points, MaxAreaPoint(data, Last(b.points), bucket))]

LargestTriangleThreeBucket(data, m) ==
  LET all == FoldLeft(LAMBDA b, i : NextBucket(data, m, b, i - 1), FirstBucket(Len(data), m),
                      [i \in 1..IF m > 2 THEN m - 2 ELSE 0 |-> i])
  IN Append(all.points, Len(data) - 1)

FloatValues == {{}, {0}, {2}}
Sparse(n, base, peaks, gaps) ==
  [i \in 1..n |-> IF i \in gaps THEN {} ELSE IF i \in peaks THEN {2 - base} ELSE {base}]
SparseSeries(n) ==
  {Sparse(n, base, peaks, gaps) :
     base \in {0, 2}, peaks \in {P \in SUBSET (1..n) : Cardinality(P) <= MaxPeaks},
     gaps \in {G \in SUBSET (1..n) : Cardinality(G) <= 1}}
SeriesOfLength(n) == IF n <= DensePoints THEN [1..n -> FloatValues] ELSE SparseSeries(n)

ResampleInit ==
  \E n \in 0..MaxPoints, old \in 0..2, new \in 0..5 :
    \E data \in SeriesOfLength(n) :
      st = [kind |-> "resample", data |-> data, old |-> old, new |-> new]
-----------------------------------------------------------------------------
(* Whatever the frequencies, a coarser series keeps the order of time: the *)
(* triangles pick points one after the other, each once, first and last    *)
(* among them, and a mean is made of the points of its own step.  All      *)
(* three have as many points as the new frequency asks for, but for one    *)
(* point, where the triangles give two (SimpleResampler, AverageResampler, *)
(* LargestTriangleThreeBucket).                                            *)
ResamplingKeepsOrder ==
  Is("resample") =>
    LET v == ValidateFrequency(Len(st.data), st.old, st.new)
        points == LargestTriangleThreeBucket(st.data, v.length)
        means == Average(st.data, v.step, v.length)
    IN v.length > 0 =>
         /\ v.length * st.new <= Len(st.data) * st.old
         /\ Len(points) = Max({v.length, 2})
         /\ points[1] = 0 /\ Last(points) = Len(st.data) - 1
         /\ \A i \in 1..Len(points) - 1 : points[i] < points[i + 1]
         /\ \A k \in 1..v.length :
              LET own == {i \in DOMAIN st.data : (i - 1) \div v.step = k - 1} IN
                /\ Simple(st.data, v.step, v.length)[k] = st.data[Min(own)]
                /\ means[k].of = Cardinality({i \in own : st.data[i] # {}})
                /\ means[k].sum \in 0..2 * means[k].of

(* The triangles keep what stands out: the one point in which a series     *)
(* without NaN differs is kept wherever it is, but for the last but one,   *)
(* which lies in no bucket.  The only bucket of a series of three points   *)
(* is followed by none, so that every area is NaN and its last point is    *)
(* taken whatever it is (LargestTriangleThreeBucket; "ensures that         *)
(* important peaks, valleys, and trends are retained").                    *)
PeaksAreKept ==
  Is("resample") =>
    LET n == Len(st.data)
        v == ValidateFrequency(n, st.old, st.new)
        points == LargestTriangleThreeBucket(st.data, v.length)
        lone == {p \in 1..n : \A i, j \in (1..n) \ {p} :
                   st.data[i] = st.data[j] /\ st.data[p] # st.data[i]}
    IN v.length > 0 =>
         /\ v.length = 3 => points = <<0, n - 2, n - 1>>
         /\ v.length > 3 /\ {} \notin Range(st.data) =>
              \A p \in lone : p - 1 # n - 2 => p - 1 \in Range(points)
=============================================================================
