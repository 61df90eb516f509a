-------------------------------- MODULE Units --------------------------------
(***************************************************************************)
(* ccUnits: a unit is a prefix, a measure and perhaps a denominator; its   *)
(* text is a sequence of tokens.  A measure whose name starts like a       *)
(* prefix has that letter as a token of its own.  Spelling variants are    *)
(* left out; a prefix is written as its short text.                        *)
(***************************************************************************)
EXTENDS Component, Integers, Sequences

Prefix == {"", "K", "M", "G", "T", "P", "E", "Z", "Y", "m", "u", "n", "Ki", "Mi"}
Measure == {"B", "Flops", "%", "degC", "degF", "Hz", "s", "W", "cyc", "requests",
            "packets", "events"}
Invalid == "inval"
InvalidUnit == [prefix |-> Invalid, measure |-> Invalid, div |-> Invalid]

Valid(u) == u.prefix # Invalid /\ u.measure # Invalid

MeasureText(m) ==
  CASE m = "packets" -> <<"P", "ackets">> [] m = "events" -> <<"E", "vents">>
    [] OTHER -> <<m>>
Short(u) ==
  [tokens |-> (IF u.prefix = "" THEN <<>> ELSE <<u.prefix>>) \o MeasureText(u.measure),
   div |-> u.div]

NewMeasure(tokens) ==
  IF \E m \in Measure : MeasureText(m) = tokens
  THEN CHOOSE m \in Measure : MeasureText(m) = tokens ELSE Invalid

(* PrefixUnitSplitRegexStr: neither micro nor nano is looked for. *)
SplitPrefix == Prefix \ {"", "u", "n"}
Split(tokens) ==
  IF tokens # <<>> /\ Head(tokens) \in SplitPrefix
  THEN [prefix |-> Head(tokens), rest |-> Tail(tokens)]
  ELSE [prefix |-> "", rest |-> tokens]

(* The m of bytes and other things that are counted is meant to be mega. *)
Counted == {"B", "Flops", "packets", "events", "cyc", "requests"}

NewUnitGreedy(text) ==   \* mutant: packets and events lose their first letter
  LET s == Split(text.tokens)
      measure == NewMeasure(s.rest)
      prefix == IF s.prefix = "m" /\ measure \in Counted THEN "M" ELSE s.prefix
  IN IF measure = Invalid THEN InvalidUnit
     ELSE [prefix |-> prefix, measure |-> measure, div |-> text.div]

NewUnit(text) ==
  LET s == Split(text.tokens)
      asWhole == /\ NewMeasure(s.rest) = Invalid /\ s.prefix \in {"P", "E"}
                 /\ NewMeasure(<<s.prefix>> \o s.rest) # Invalid
      measure == NewMeasure(IF asWhole THEN <<s.prefix>> \o s.rest ELSE s.rest)
      prefix == IF asWhole \/ measure = "%" THEN ""
                ELSE IF s.prefix = "m" /\ measure \in Counted THEN "M"
                ELSE s.prefix
  IN IF measure = Invalid THEN InvalidUnit
     ELSE [prefix |-> prefix, measure |-> measure, div |-> text.div]

(* What a value is multiplied by to get from one prefix to another. *)
GetPrefixPrefixFactor(in, out) == <<in, out>>

(* The unit after the conversion is read from the text of the one before. *)
GetUnitPrefixFactor(in, out) ==
  LET outUnit == NewUnit(Short(in)) IN
    IF Valid(outUnit)
    THEN [conv |-> GetPrefixPrefixFactor(in.prefix, out),
          unit |-> [outUnit EXCEPT !.prefix = out]]
    ELSE [conv |-> <<>>, unit |-> InvalidUnit]

(* Temperatures are converted whatever their prefixes and denominators. *)
GetUnitUnitFactor(in, out) ==
  IF {in.measure, out.measure} = {"degC", "degF"} THEN <<in.measure, out.measure>>
  ELSE IF in.measure # out.measure \/ in.div # out.div THEN <<>>
  ELSE GetPrefixPrefixFactor(in.prefix, out.prefix)

UnitInit ==
  \E p \in Prefix, m \in Measure, d \in {Invalid, "s", "cyc"}, out \in Prefix \ {""} :
    st = [kind |-> "unit", in |-> [prefix |-> p, measure |-> m, div |-> d], out |-> out]
-----------------------------------------------------------------------------
(* The text of a unit is read back as that unit, but for prefixes that are *)
(* not looked for (micro, nano), that a counted measure does not have      *)
(* (milli) or that are ignored (of percent); and a new prefix leaves the   *)
(* measure and the denominator alone, so that value and unit of a metric   *)
(* keep saying the same (NewUnit, Short, GetUnitPrefixFactor).             *)
UnitsSurvive ==
  Is("unit") =>
    LET u == st.in
        again == NewUnit(Short(u))
        new == GetUnitPrefixFactor(u, st.out)
    IN /\ \/ again = u \/ u.prefix \in {"u", "n"} \/ u.measure = "%"
          \/ u.prefix = "m" /\ u.measure \in Counted
       /\ new.conv # <<>> <=> u.prefix \notin {"u", "n"}
       /\ new.conv # <<>> =>
            /\ new.unit = [u EXCEPT !.prefix = st.out]
            /\ new.conv = GetUnitUnitFactor(u, new.unit)
=============================================================================
