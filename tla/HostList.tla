------------------------------ MODULE HostList ------------------------------
(***************************************************************************)
(* hostlist/hostlist.go: a list of hosts is a sequence of parsed parts,    *)
(* each a prefix with optional ranges and a suffix; matching the text with *)
(* the regular expression is left out.  A number in the text is a record   *)
(* of its value and its width in characters, a host name is the prefix,    *)
(* such a number and the suffix.  A single number is a range whose ends    *)
(* are the same.                                                           *)
(***************************************************************************)
EXTENDS Naturals, Sequences

Digits(n) == IF n < 10 THEN 1 ELSE IF n < 100 THEN 2 ELSE 3
Number(n, width) == [value |-> n, width |-> IF width < Digits(n) THEN Digits(n) ELSE width]
NoNumber == [value |-> 0, width |-> 0]
Host(prefix, number, suffix) == [prefix |-> prefix, number |-> number, suffix |-> suffix]

StartsWithZero(number) == number.value = 0 \/ number.width > Digits(number.value)
Padded(r) == r.lo.width = r.hi.width

(* A range is refused that decreases, or whose ends have different widths  *)
(* and look padded.                                                        *)
IsRange(r) ==
  /\ r.lo.value <= r.hi.value
  /\ Padded(r) \/ ~(StartsWithZero(r.lo) \/ StartsWithZero(r.hi))

RangeHosts(part, r) ==
  {Host(part.prefix, Number(n, IF Padded(r) THEN r.lo.width ELSE 1), part.suffix) :
     n \in r.lo.value..r.hi.value}

IsHostList(parts) ==
  \A i \in DOMAIN parts : \A k \in DOMAIN parts[i].ranges : IsRange(parts[i].ranges[k])

(* The names without duplicates; that they are also sorted is left out. *)
Expand(parts) ==
  UNION {IF parts[i].ranges = <<>>
         THEN {Host(parts[i].prefix, NoNumber, "")}
         ELSE UNION {RangeHosts(parts[i], parts[i].ranges[k]) :
                       k \in DOMAIN parts[i].ranges} : i \in DOMAIN parts}
=============================================================================
