-------------------------- MODULE MessageProcessor --------------------------
(***************************************************************************)
(* messageProcessor: rules that drop, rename and change messages, added    *)
(* and removed while messages are processed.  st is the processor with the *)
(* call of ProcessMessage that is under way.                               *)
(*                                                                         *)
(* A value is a pair of what it is and of its content: a text, a unit (its *)
(* tokens, see Units), a number (the prefix it is scaled to) or the digits *)
(* of a number.  Expressions are compiled and evaluated by a library: here *)
(* a condition is one of the few kinds that Holds tells apart.             *)
(***************************************************************************)
EXTENDS Units, SequencesExt

CONSTANTS
  Request,    (* the rules that calls add: [stage, cond, key, value]       *)
  Message,    (* the messages: [name, tag, meta, field]                    *)
  StageLists, (* the arguments of SetStages                                *)
  ConfigFile, (* the arguments of FromConfigJSON                           *)
  MaxRules    (* bound: the rules that are compiled in a behaviour         *)

AddTo == [add_tag |-> "tag", add_meta |-> "meta", add_field |-> "field"]
DeleteFrom == [delete_tag |-> "tag", delete_meta |-> "meta", delete_field |-> "field"]
MoveFromTo ==
  [move_tag_to_meta |-> <<"tag", "meta">>, move_tag_to_fields |-> <<"tag", "field">>,
   move_meta_to_tags |-> <<"meta", "tag">>, move_meta_to_fields |-> <<"meta", "field">>,
   move_field_to_tags |-> <<"field", "tag">>, move_field_to_meta |-> <<"field", "meta">>]

(* The stages whose rules are looked up by a name instead of a condition. *)
ByName == {"drop_by_name", "drop_by_type", "rename"}

(* A rule belongs to a stage; the stage normalize_unit has none. *)
Rule ==
  [stage : ByName \cup {"drop_if", "rename_if", "change_unit_prefix"} \cup DOMAIN AddTo
             \cup DOMAIN DeleteFrom \cup DOMAIN MoveFromTo,
   cond : Seq(STRING), key : STRING, value : STRING]

ASSUME RuleAssumption ==
  /\ Request \subseteq Rule
  /\ StageLists \subseteq Seq(STRING)
  /\ \A c \in ConfigFile : c.stages \in Seq(STRING) /\ c.rules \in Seq(Rule)

ASSUME MessageAssumption ==
  \A m \in Message : DOMAIN m = {"name", "tag", "meta", "field"}

StageNames ==
  <<"drop_by_name", "drop_by_type", "drop_if", "add_tag", "delete_tag",
    "move_tag_to_meta", "move_tag_to_fields", "add_meta", "delete_meta",
    "move_meta_to_tags", "move_meta_to_fields", "add_field", "delete_field",
    "move_field_to_tags", "move_field_to_meta", "rename", "rename_if",
    "change_unit_prefix", "normalize_unit">>

Protected == {"value", "event", "log", "control"}
DropType == {"metric", "event", "control", "log"}

SanitizeExprString(key) == IF key = "type-id" THEN "typeid" ELSE key
Sanitized(f) ==
  [k \in {SanitizeExprString(j) : j \in DOMAIN f} |->
     f[CHOOSE j \in DOMAIN f : SanitizeExprString(j) = k]]

TypeOfKey(k) ==
  CASE k = "value" -> "metric" [] k \in {"event", "control", "log"} -> k
    [] OTHER -> "unknown"

(* The type (messagetype, msgtype) is that of the field that the loop over *)
(* the map sees last; no rule changes it later.  The parameters value,     *)
(* metric, event, control and log are not in baseenv: no condition names   *)
(* them.  The parameter message is the message itself.                     *)
GetParamMap(m) ==
  {[name |-> m.name, type |-> TypeOfKey(k), field |-> m.field,
    tag |-> Sanitized(m.tag), meta |-> Sanitized(m.meta)] : k \in DOMAIN m.field}

Holds(cond, env) ==
  \/ cond[1] = "always"
  \/ cond[1] = "has" /\ SanitizeExprString(cond[3]) \in DOMAIN env[cond[2]]
  \/ cond[1] = "named" /\ env.name = cond[2]
  \/ cond[1] = "typed" /\ env.type = cond[2]
-----------------------------------------------------------------------------
(* The message, what the conditions know of it, and the result so far.     *)
(* Two fields are no state of the code: the message as it was given, and   *)
(* whether the unit that the conditions see has come to lag behind.        *)
Put(s, loc, key, v) ==
  [s EXCEPT !.msg[loc] = Assign(@, key, v), !.env[loc] = Assign(@, key, v)]
Without(s, loc, key) ==
  [s EXCEPT !.msg[loc] = Restrict(@, DOMAIN @ \ {key}),
            !.env[loc] = Restrict(@, DOMAIN @ \ {key})]
Ends(s, result) == [s EXCEPT !.result = result]

Stringified(v) == IF v[1] = "number" THEN <<"digits", v[2]>> ELSE v

MoveInMessageLeaves(s, from, to, key, newKey) ==   \* mutant: still seen at from
  IF key \notin DOMAIN s.msg[from] THEN s
  ELSE Put([s EXCEPT !.msg[from] = Restrict(@, DOMAIN @ \ {key})],
           to, newKey, Stringified(s.msg[from][key]))

MoveInMessage(s, from, to, key, newKey) ==
  IF key \notin DOMAIN s.msg[from] THEN s
  ELSE Put(Without(s, from, key), to, newKey, Stringified(s.msg[from][key]))

DeleteIf(s, loc, key) ==
  IF loc = "field" /\ key \in Protected THEN Ends(s, "error")
  ELSE Without(s, loc, key)

Rename(s, new) ==
  Put([s EXCEPT !.msg.name = new, !.env.name = new],
      "meta", "oldname", <<"text", s.msg.name>>)

UnitOf(v) == IF v[1] = "unit" THEN NewUnit(v[2]) ELSE InvalidUnit

(* Where the unit of a message is: in its meta data, else in its tags. *)
UnitPlace(m) == {l \in {"meta", "tag"} : "unit" \in DOMAIN m[l]
                                          /\ (l = "tag" => "unit" \notin DOMAIN m.meta)}

(* What the conditions see goes into the meta data wherever the unit is. *)
PutUnit(s, loc, u, seen) ==
  [s EXCEPT !.msg[loc].unit = <<"unit", Short(u)>>,
            !.env.meta = Assign(@, "unit", <<"unit", Short(seen)>>),
            !.stale = @ \/ loc = "tag" \/ u # seen]

NormalizeUnits(s) ==
  IF \E l \in UnitPlace(s.msg) : Valid(UnitOf(s.msg[l].unit))
  THEN LET l == CHOOSE l \in UnitPlace(s.msg) : TRUE
           u == UnitOf(s.msg[l].unit)
       IN PutUnit(s, l, u, u)
  ELSE s

Converted(v, conv) ==
  IF v[1] # "number" THEN v
  ELSE <<"number", IF v[2] = conv[1] THEN conv[2] ELSE Invalid>>

ChangeUnitPrefixFromText(s, prefix) ==   \* mutant: takes the text for normalized
  LET l == CHOOSE l \in UnitPlace(s.msg) : TRUE
      text == s.msg[l].unit[2].tokens
      in == IF text[1] \in Prefix THEN text[1] ELSE ""
      u == UnitOf(s.msg[l].unit)
  IN IF UnitPlace(s.msg) = {} \/ "value" \notin DOMAIN s.msg.field \/ ~Valid(u) THEN s
     ELSE PutUnit(Put(s, "field", "value", Converted(s.msg.field.value, <<in, prefix>>)),
                  l, [u EXCEPT !.prefix = prefix], u)

ChangeUnitPrefix(s, prefix) ==
  LET l == CHOOSE l \in UnitPlace(s.msg) : TRUE
      u == UnitOf(s.msg[l].unit)
      new == GetUnitPrefixFactor(u, prefix)
  IN IF \/ UnitPlace(s.msg) = {} \/ prefix = Invalid \/ ~Valid(u)
        \/ new.conv = <<>> \/ "value" \notin DOMAIN s.msg.field
     THEN s
     ELSE PutUnit(Put(s, "field", "value", Converted(s.msg.field.value, new.conv)),
                  l, new.unit, u)

Effect(r, s) ==
  CASE r.stage = "drop_if" -> Ends(s, "dropped")
    [] r.stage = "rename_if" -> Rename(s, r.value)
    [] r.stage = "change_unit_prefix" -> ChangeUnitPrefix(s, r.value)
    [] r.stage \in DOMAIN AddTo -> Put(s, AddTo[r.stage], r.key, <<"text", r.value>>)
    [] r.stage \in DOMAIN DeleteFrom -> DeleteIf(s, DeleteFrom[r.stage], r.key)
    [] OTHER -> MoveInMessage(s, MoveFromTo[r.stage][1], MoveFromTo[r.stage][2],
                              r.key, r.value)

(* The first rule that fails, or drops the message, is the last one. *)
Apply(s, r) ==
  IF s.result # "message" THEN s
  ELSE IF r.cond[1] = "fails" THEN Ends(s, "error")
  ELSE IF Holds(r.cond, s.env) THEN Effect(r, s) ELSE s

IsMetric(m) == "value" \in DOMAIN m.field /\ m.field.value[1] = "number"

Named(mp, stage, key) == {r \in mp.named : r.stage = stage /\ r.key = key}

(* The results of a stage, one for each order in which the loop over the   *)
(* map of its rules may go.                                                *)
Stage(mp, stage, s) ==
  CASE s.result # "message" -> {s}
    [] stage = "drop_by_name" ->
         {IF Named(mp, stage, s.env.name) # {} THEN Ends(s, "dropped") ELSE s}
    [] stage = "drop_by_type" ->
         {IF Named(mp, stage, s.env.type) # {} THEN Ends(s, "dropped") ELSE s}
    [] stage = "rename" ->
         {IF Named(mp, stage, s.env.name) = {} THEN s
          ELSE Rename(s, (CHOOSE r \in Named(mp, stage, s.env.name) : TRUE).value)}
    [] stage = "normalize_unit" ->
         {IF mp.normalize /\ IsMetric(s.msg) THEN NormalizeUnits(s) ELSE s}
    [] stage = "change_unit_prefix" /\ ~IsMetric(s.msg) -> {s}
    [] OTHER -> {FoldLeft(Apply, s, order) :
                   order \in SetToSeqs({r \in mp.rules : r.stage = stage})}

Process(mp, m) ==
  FoldLeft(LAMBDA S, stage : UNION {Stage(mp, stage, s) : s \in S},
           {[msg |-> m, env |-> env, result |-> "message", given |-> m, stale |-> FALSE] :
              env \in GetParamMap(m)},
           mp.stages)
-----------------------------------------------------------------------------
(***************************************************************************)
(* The mapping from a condition to its compiled program is shared by all   *)
(* kinds of rules.  shared is no state of the code: the conditions that    *)
(* calls used for a second rule while there was a first, or to remove a    *)
(* rule of another kind.                                                   *)
(***************************************************************************)
Accepts(r) ==
  /\ r.cond[1] # "uncompilable"
  /\ r.stage = "drop_by_type" => r.key \in DropType

Add(mp, r) ==
  IF r.stage \in ByName
  THEN [mp EXCEPT !.named = IF Named(mp, r.stage, r.key) = {} THEN @ \cup {r} ELSE @]
  ELSE [mp EXCEPT
          !.rules = @ \cup {[id |-> mp.next, stage |-> r.stage, cond |-> r.cond,
                              key |-> r.key, value |-> r.value]},
          !.mapping = Assign(@, r.cond, mp.next),
          !.next = @ + 1,
          !.shared = @ \cup {q.cond : q \in {q \in mp.rules : q.cond = r.cond}}]

RemoveRuleKeepsProgram(mp, r) ==   \* mutant: the program stays in the map of rules
  [mp EXCEPT !.named = @ \ Named(mp, r.stage, r.key),
             !.mapping = Restrict(@, DOMAIN @ \ {r.cond})]

RemoveRule(mp, r) ==
  IF r.stage \in ByName
  THEN [mp EXCEPT !.named = @ \ Named(mp, r.stage, r.key)]
  ELSE IF r.cond \notin DOMAIN mp.mapping THEN mp
  ELSE [mp EXCEPT
          !.mapping = Restrict(@, DOMAIN @ \ {r.cond}),
          !.rules = {q \in @ : q.stage # r.stage \/ q.id # mp.mapping[r.cond]},
          !.shared = @ \cup {q.cond : q \in {q \in mp.rules :
                                q.stage # r.stage /\ q.id = mp.mapping[r.cond]}}]

SetStages(mp, stages) ==
  IF ToSet(stages) \subseteq ToSet(StageNames)
  THEN [mp EXCEPT !.stages = stages] ELSE mp

(* The rules of a file are added one by one up to the first that is        *)
(* refused; those before it stay.  c.rules has the order of the lists.     *)
FromConfigJSON(mp, c) ==
  LET stages == IF c.stages = <<>> THEN StageNames ELSE c.stages
      Step(a, r) == IF a.error \/ ~Accepts(r) THEN [a EXCEPT !.error = TRUE]
                    ELSE [a EXCEPT !.mp = Add(@, r)]
      end == FoldLeft(Step, [mp |-> SetStages(mp, stages), error |-> FALSE], c.rules)
  IN IF ~(ToSet(stages) \subseteq ToSet(StageNames)) THEN mp
     ELSE IF end.error THEN end.mp
     ELSE [end.mp EXCEPT !.normalize = c.normalize]

MessageProcessorInit ==
  st = [kind |-> "processor", stages |-> <<>>, rules |-> {}, named |-> {},
        mapping |-> <<>>, normalize |-> FALSE, next |-> 1, shared |-> {},
        called |-> <<>>, out |-> {}, removed |-> <<>>]

AddRule ==
  \E r \in Request :
    /\ Accepts(r)
    /\ st.next <= MaxRules
    /\ st' = [Add(st, r) EXCEPT !.removed = <<>>]

RemoveRuleCall ==
  \E r \in Request :
    st' = [RemoveRule(st, r) EXCEPT !.removed = <<r.stage, r.cond>>]

SetStagesCall == \E stages \in StageLists : st' = SetStages(st, stages)

SetNormalizeUnits == st' = [st EXCEPT !.normalize = TRUE]

ReadConfig ==
  \E c \in ConfigFile :
    /\ st.next = 1
    /\ st' = [FromConfigJSON(st, c) EXCEPT !.removed = <<>>]

(* Stages that are not set are set before the lock is taken. *)
CallProcessMessage ==
  \E m \in Message :
    /\ st.called = <<>>
    /\ st' = [st EXCEPT !.stages = IF @ = <<>> THEN StageNames ELSE @,
                        !.called = <<m>>, !.out = {}]

ProcessMessage ==
  /\ st.called # <<>>
  /\ \E s \in Process(st, st.called[1]) :
       st' = [st EXCEPT !.called = <<>>, !.out = {s}]

NextProcessor ==
  \/ AddRule \/ RemoveRuleCall \/ SetStagesCall \/ SetNormalizeUnits
  \/ ReadConfig \/ CallProcessMessage \/ ProcessMessage
=============================================================================
