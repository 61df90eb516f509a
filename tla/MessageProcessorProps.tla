------------------------ MODULE MessageProcessorProps ------------------------
(***************************************************************************)
(* What the message processor promises.                                    *)
(***************************************************************************)
EXTENDS MessageProcessor

Spec == MessageProcessorInit /\ [][NextProcessor]_st

(* Whatever stages, rules and orders a message goes through, the           *)
(* conditions of later rules see the name, the fields, the tags and the    *)
(* meta data as the earlier rules left them (the params map in all         *)
(* functions of messageProcessorFuncs.go).  They do not see:               *)
(* - a tag or an entry type-id by the name that a rule writes it with;     *)
(* - the unit, once a prefix has been changed (they see the unit of before *)
(*   the change: lines 252 and 271) or a unit in the tags normalized (they *)
(*   see it in the meta data: line 222);                                   *)
(* - the type of the message as the rules have made it: the type stays     *)
(*   that of a field of the message as it was given, also when that field  *)
(*   is moved away or a field of another type is added.                    *)
EnvMirrorsMessage ==
  \A s \in st.out :
    LET hidden == {"type-id", "typeid"} \cup IF s.stale THEN {"unit"} ELSE {}
        Seen(f) == Restrict(f, DOMAIN f \ hidden)
    IN /\ s.env.name = s.msg.name
       /\ s.env.field = s.msg.field
       /\ \A loc \in {"tag", "meta"} : Seen(s.env[loc]) = Seen(s.msg[loc])
       /\ s.env.type \in {TypeOfKey(k) : k \in DOMAIN s.given.field}

(* The value of a metric is scaled to the prefix of its unit, however many *)
(* units are normalized and prefixes changed and in whatever order         *)
(* (normalizeUnits, changeUnitPrefix).                                     *)
ValueMatchesUnit ==
  \A s \in st.out : IsMetric(s.msg) =>
    \A l \in UnitPlace(s.msg) :
      Valid(UnitOf(s.msg[l].unit)) =>
        s.msg.field.value[2] = UnitOf(s.msg[l].unit).prefix

(* That holds of messages with one unit, to whose prefix the value is      *)
(* scaled at first, if its text is read back as that unit also after any   *)
(* change of prefix that a rule asks for.                                  *)
Places == {"tag", "meta", "field"}
UnitsOf(m) ==
  {p \in UNION {{<<loc, k>> : k \in DOMAIN m[loc]} : loc \in Places} :
     m[p[1]][p[2]][1] = "unit"}

Asked == Request \cup UNION {ToSet(c.rules) : c \in ConfigFile}
PrefixesAsked == {r.value : r \in {r \in Asked : r.stage = "change_unit_prefix"}}

ReadBack(u) == NewUnit(Short(u)) = u
Readable(u) ==
  Valid(u) => /\ ReadBack(u)
              /\ \A p \in PrefixesAsked \ {Invalid} : ReadBack([u EXCEPT !.prefix = p])

InStep(m) ==
  /\ \A p, q \in UnitsOf(m) : p = q
  /\ \A p \in UnitsOf(m) :
       LET u == UnitOf(m[p[1]][p[2]])
       IN Readable(u) /\ (Valid(u) /\ IsMetric(m) => m.field.value[2] = u.prefix)

UnitsAreReadable == \A m \in Message : InStep(m)

(* A rule whose removal was the last call is gone, and no message is       *)
(* changed by it any more (removeTagConfig and the other removals).        *)
RemovedRuleIsGone == \A r \in st.rules : <<r.stage, r.cond>> # st.removed

(* That holds of a condition that calls use for one rule only; and this    *)
(* rule can be found, to be removed, as long as it is there.               *)
RulesAreRemoved ==
  \A r \in st.rules :
    r.cond \notin st.shared =>
      /\ <<r.stage, r.cond>> # st.removed
      /\ r.cond \in DOMAIN st.mapping /\ st.mapping[r.cond] = r.id
=============================================================================
