----------------------- MODULE MessageProcessorProofs -----------------------
(***************************************************************************)
(* The message processor, for every set of rules, messages, lists of       *)
(* stages and configuration files, and any number of calls.                *)
(***************************************************************************)
EXTENDS MessageProcessorProps, FiniteSetTheorems, TLAPS

USE RuleAssumption

(* A processor has all of its fields.                                      *)
HasFields(mp) ==
  mp = [kind |-> mp.kind, stages |-> mp.stages, rules |-> mp.rules, named |-> mp.named,
        mapping |-> mp.mapping, normalize |-> mp.normalize, next |-> mp.next,
        shared |-> mp.shared, called |-> mp.called, out |-> mp.out,
        removed |-> mp.removed]

(* The program of a rule whose condition is its own is under the condition.*)
Findable(mp) ==
  \A r \in mp.rules :
    r.cond \notin mp.shared => r.cond \in DOMAIN mp.mapping /\ mp.mapping[r.cond] = r.id

(* A rule does what a call or a configuration file asks for.               *)
IsAsked(r) == \E q \in Asked : r.stage = q.stage /\ r.value = q.value

IsList(q) == \E n \in Nat : DOMAIN q = 1..n

Sound(mp) ==
  /\ HasFields(mp)
  /\ IsList(mp.stages)
  /\ IsFiniteSet(mp.rules)
  /\ \A r \in mp.rules : r.stage \notin ByName /\ IsAsked(r)
  /\ Findable(mp)

Gone(mp) == \A r \in mp.rules : r.cond \notin mp.shared => <<r.stage, r.cond>> # mp.removed

RulesInv == Sound(st) /\ Gone(st)

(* One rule of a configuration file after the other; the call under way   *)
(* and its results are not touched.                                        *)
SameCall(mp, old) == mp.called = old.called /\ mp.out = old.out

AddNth(c, a, i) ==
  IF a.error \/ ~Accepts(c.rules[i]) THEN [a EXCEPT !.error = TRUE]
  ELSE [a EXCEPT !.mp = Add(@, c.rules[i])]
SoundSoFar(c, T, a) ==
  a = [mp |-> a.mp, error |-> a.error] /\ Sound(a.mp) /\ SameCall(a.mp, c.mp)
Configured == INSTANCE Folding WITH Op <- AddNth, Choose <- Max, Keeps <- SoundSoFar

(* The last of some places in a sequence.                                  *)
LEMMA LastIsElement ==
  ASSUME NEW n \in Nat, NEW T \in SUBSET (1..n), T # {} PROVE Max(T) \in T
BY Configured!MaxIsElement DEF Max, Configured!Max

LEMMA AskedAreRules ==
  /\ Request \subseteq Asked
  /\ \A c \in ConfigFile : \A i \in DOMAIN c.rules : c.rules[i] \in Asked
  /\ Asked \subseteq Rule
BY DEF Asked, ToSet

(* Lists of stages are finite.                                             *)
LEMMA ListsOfStages ==
  IsList(StageNames) /\ \A q \in Seq(STRING) : IsList(q)
BY DEF StageNames, IsList
-----------------------------------------------------------------------------
(* A new rule has the program under its condition, and any other of the    *)
(* condition is shared from now on.                                        *)
LEMMA AddIsSound ==
  ASSUME NEW mp, Sound(mp), NEW r \in Asked
  PROVE  Sound(Add(mp, r)) /\ SameCall(Add(mp, r), mp)
<1>1. CASE r.stage \in ByName
  BY <1>1 DEF Add, Sound, HasFields, Findable, SameCall
<1>2. CASE r.stage \notin ByName
  <2> DEFINE n == [id |-> mp.next, stage |-> r.stage, cond |-> r.cond,
                   key |-> r.key, value |-> r.value]
             new == Add(mp, r)
  <2>1. n.id = mp.next /\ n.stage = r.stage /\ n.cond = r.cond /\ n.value = r.value
    OBVIOUS
  <2>2. /\ new.rules = mp.rules \cup {n}
        /\ new.mapping = Assign(mp.mapping, r.cond, mp.next)
        /\ new.shared = mp.shared \cup {q.cond : q \in {q \in mp.rules : q.cond = r.cond}}
        /\ new.stages = mp.stages
        /\ HasFields(new) /\ SameCall(new, mp)
    BY <1>2 DEF Add, Sound, HasFields, SameCall
  <2> HIDE DEF n, new
  <2>3. IsFiniteSet(new.rules)
    <3>1. IsFiniteSet(mp.rules)
      BY DEF Sound
    <3> QED BY ONLY <2>2, <3>1, FS_AddElement
  <2>4. \A q \in new.rules : q.stage \notin ByName /\ IsAsked(q)
    BY <1>2, <2>1, <2>2 DEF Sound, IsAsked
  <2>5. Findable(new)
    <3> SUFFICES ASSUME NEW q \in new.rules, q.cond \notin new.shared
                 PROVE  q.cond \in DOMAIN new.mapping /\ new.mapping[q.cond] = q.id
      BY DEF Findable
    <3>1. CASE q.cond = r.cond
      <4>1. q = n
        BY <2>2, <3>1
      <4> QED BY <2>1, <2>2, <3>1, <4>1 DEF Assign
    <3>2. CASE q.cond # r.cond
      <4>1. q \in mp.rules /\ q.cond \notin mp.shared
        BY <2>1, <2>2, <3>2
      <4>2. q.cond \in DOMAIN mp.mapping /\ mp.mapping[q.cond] = q.id
        BY <4>1 DEF Sound, Findable
      <4> QED BY <2>2, <3>2, <4>2 DEF Assign
    <3> QED BY <3>1, <3>2
  <2> QED BY <2>2, <2>3, <2>4, <2>5 DEF Sound, new
<1> QED BY <1>1, <1>2

(* A removal takes out the rule it is called for, if no other rule shares  *)
(* its condition; a rule of another kind it finds instead is marked.       *)
LEMMA RemoveIsSound ==
  ASSUME NEW mp, Sound(mp), NEW r \in Rule
  PROVE  LET new == RemoveRule(mp, r)
         IN /\ Sound(new)
            /\ SameCall(new, mp)
            /\ \A q \in new.rules : q.cond \notin new.shared
                 => <<q.stage, q.cond>> # <<r.stage, r.cond>>
<1> DEFINE new == RemoveRule(mp, r)
<1>1. CASE r.stage \in ByName
  <2>1. new.rules = mp.rules /\ Sound(new) /\ SameCall(new, mp)
    BY <1>1 DEF RemoveRule, Sound, HasFields, Findable, SameCall
  <2>2. \A q \in new.rules : q.stage # r.stage
    <3> HIDE DEF new
    <3> QED BY <1>1, <2>1 DEF Sound
  <2> QED BY <2>1, <2>2
<1>2. CASE r.stage \notin ByName /\ r.cond \notin DOMAIN mp.mapping
  <2>1. new = mp
    BY <1>2 DEF RemoveRule
  <2>2. \A q \in mp.rules : q.cond \notin mp.shared => q.cond # r.cond
    BY <1>2 DEF Sound, Findable
  <2> QED BY <2>1, <2>2 DEF SameCall
<1>3. CASE r.stage \notin ByName /\ r.cond \in DOMAIN mp.mapping
  <2> DEFINE id == mp.mapping[r.cond]
  <2>1. /\ new.rules = {q \in mp.rules : q.stage # r.stage \/ q.id # id}
        /\ new.mapping = Restrict(mp.mapping, DOMAIN mp.mapping \ {r.cond})
        /\ new.shared = mp.shared \cup {q.cond : q \in {q \in mp.rules :
                                                    q.stage # r.stage /\ q.id = id}}
        /\ new.stages = mp.stages
        /\ HasFields(new) /\ SameCall(new, mp)
    BY <1>3 DEF RemoveRule, Sound, HasFields, SameCall
  <2> HIDE DEF new
  <2>2. ASSUME NEW q \in new.rules, q.cond \notin new.shared
        PROVE  /\ q.cond # r.cond
               /\ q.cond \in DOMAIN new.mapping /\ new.mapping[q.cond] = q.id
    <3>1. q \in mp.rules /\ q.cond \notin mp.shared
      BY <2>1, <2>2
    <3>2. q.cond \in DOMAIN mp.mapping /\ mp.mapping[q.cond] = q.id
      BY <3>1 DEF Sound, Findable
    <3>3. q.cond # r.cond
      BY <2>1, <2>2, <3>2
    <3> QED BY <2>1, <3>2, <3>3 DEF Restrict
  <2>3. IsFiniteSet(new.rules)
    <3>1. IsFiniteSet(mp.rules) /\ new.rules \subseteq mp.rules
      BY <2>1 DEF Sound
    <3> QED BY ONLY <3>1, FS_Subset
  <2>4. Sound(new)
    BY <2>1, <2>2, <2>3 DEF Sound, Findable
  <2> QED BY <2>1, <2>2, <2>4 DEF new
<1> QED BY <1>1, <1>2, <1>3

SetUp(c) == IF c.stages = <<>> THEN StageNames ELSE c.stages

(* The rules of a file are added one by one.                               *)
LEMMA ConfigIsSound ==
  ASSUME NEW mp, Sound(mp), NEW c \in ConfigFile
  PROVE  Sound(FromConfigJSON(mp, c)) /\ SameCall(FromConfigJSON(mp, c), mp)
<1> DEFINE rules == c.rules
           D == DOMAIN rules
           x == [rules |-> rules, mp |-> mp]
           start == [mp |-> SetStages(mp, SetUp(c)), error |-> FALSE]
           end == Configured!Folded(x, start, D)
<1>1. IsList(SetUp(c)) /\ rules \in Seq(Rule)
  BY ListsOfStages DEF SetUp
<1>2. Sound(SetStages(mp, SetUp(c))) /\ SameCall(SetStages(mp, SetUp(c)), mp)
  BY <1>1 DEF SetStages, Sound, HasFields, Findable, SameCall
<1>3. PICK n \in Nat : D = 1..n
  BY <1>1
<1>4. SoundSoFar(x, {}, start)
  BY <1>2 DEF SoundSoFar
<1> HIDE DEF start
<1>5. ASSUME NEW T \in SUBSET D, NEW a, T # {}, SoundSoFar(x, T \ {Max(T)}, a)
      PROVE  SoundSoFar(x, T, AddNth(x, a, Max(T)))
  <2>1. Max(T) \in D
    BY <1>3, <1>5, LastIsElement
  <2>2. rules[Max(T)] \in Asked
    BY <2>1, AskedAreRules
  <2> HIDE DEF rules
  <2>3. a = [mp |-> a.mp, error |-> a.error] /\ Sound(a.mp) /\ SameCall(a.mp, mp)
    BY <1>5 DEF SoundSoFar
  <2> DEFINE r == rules[Max(T)]
             added == Add(a.mp, r)
  <2> HIDE DEF x, rules
  <2>4. Sound(added) /\ SameCall(added, a.mp)
    BY ONLY <2>2, <2>3, AddIsSound
  <2> HIDE DEF added
  <2>5. SameCall(added, mp)
    BY <2>3, <2>4 DEF SameCall
  <2>6. x.rules[Max(T)] = r /\ x.mp = mp
    BY DEF x, rules
  <2>7. AddNth(x, a, Max(T)) = IF a.error \/ ~Accepts(r) THEN [a EXCEPT !.error = TRUE]
                               ELSE [a EXCEPT !.mp = added]
    BY <2>6 DEF AddNth, added
  <2> QED BY <2>3, <2>4, <2>5, <2>6, <2>7 DEF SoundSoFar
<1>6. SoundSoFar(x, D, end)
  <2> HIDE DEF D, x
  <2>1. \A T \in SUBSET D : T # {} => Max(T) \in T
    BY <1>3, LastIsElement
  <2>2. \A T \in SUBSET D : \A a :
          T # {} /\ SoundSoFar(x, T \ {Max(T)}, a) => SoundSoFar(x, T, AddNth(x, a, Max(T)))
    BY <1>5
  <2> QED BY ONLY <1>3, <1>4, <2>1, <2>2, Configured!FoldOverPlaces
<1>7. FromConfigJSON(mp, c) =
        IF ~(ToSet(SetUp(c)) \subseteq ToSet(StageNames)) THEN mp
        ELSE IF end.error THEN end.mp
        ELSE [end.mp EXCEPT !.normalize = c.normalize]
  <2> DEFINE Step(a, r) == IF a.error \/ ~Accepts(r) THEN [a EXCEPT !.error = TRUE]
                           ELSE [a EXCEPT !.mp = Add(@, r)]
             fold == FoldLeft(Step, start, rules)
  <2>1. end = fold
    BY Zenon DEF AddNth, Configured!Folded, FoldLeft, MapThenFoldSet, Configured!MapThenFoldSet
  <2>2. FromConfigJSON(mp, c) =
          IF ~(ToSet(SetUp(c)) \subseteq ToSet(StageNames)) THEN mp
          ELSE IF fold.error THEN fold.mp
          ELSE [fold.mp EXCEPT !.normalize = c.normalize]
    BY Zenon DEF FromConfigJSON, SetUp, start
  <2> HIDE DEF fold, end
  <2> QED BY <2>1, <2>2
<1> HIDE DEF end
<1>8. SameCall(mp, mp)
  BY DEF SameCall
<1> QED BY <1>6, <1>7, <1>8 DEF SoundSoFar, SameCall, Sound, HasFields, Findable

(* Every call leaves the processor sound, and what a removal was called    *)
(* for stays away until the next rule is added.                            *)
LEMMA RulesInvHolds == Spec => []RulesInv
<1>1. MessageProcessorInit => RulesInv
  <2> SUFFICES ASSUME MessageProcessorInit PROVE RulesInv
    OBVIOUS
  <2>1. /\ HasFields(st) /\ st.rules = {} /\ st.stages = <<>>
    BY DEF MessageProcessorInit, HasFields
  <2>2. IsFiniteSet(st.rules)
    BY <2>1, FS_EmptySet
  <2>3. IsList(st.stages)
    <3>1. <<>> \in Seq(STRING)
      OBVIOUS
    <3> QED BY <2>1, <3>1, ListsOfStages
  <2> QED BY <2>1, <2>2, <2>3 DEF RulesInv, Sound, Findable, Gone
<1>2. RulesInv /\ [NextProcessor]_st => RulesInv'
  <2> SUFFICES ASSUME RulesInv, [NextProcessor]_st PROVE RulesInv'
    OBVIOUS
  <2> USE DEF RulesInv
  <2>1. CASE AddRule
    <3>1. PICK r \in Request : st' = [Add(st, r) EXCEPT !.removed = <<>>]
      BY <2>1 DEF AddRule
    <3> DEFINE new == Add(st, r)
    <3>2. Sound(new)
      BY AddIsSound, AskedAreRules
    <3> HIDE DEF new
    <3>3. Sound([new EXCEPT !.removed = <<>>]) /\ Gone([new EXCEPT !.removed = <<>>])
      BY <3>2 DEF Sound, HasFields, Findable, Gone
    <3> QED BY <3>1, <3>3 DEF new, Sound, Gone, HasFields, Findable
  <2>2. CASE RemoveRuleCall
    <3>1. PICK r \in Request :
            st' = [RemoveRule(st, r) EXCEPT !.removed = <<r.stage, r.cond>>]
      BY <2>2 DEF RemoveRuleCall
    <3> DEFINE new == RemoveRule(st, r)
               last == [new EXCEPT !.removed = <<r.stage, r.cond>>]
    <3>2. /\ Sound(new)
          /\ \A q \in new.rules : q.cond \notin new.shared
               => <<q.stage, q.cond>> # <<r.stage, r.cond>>
      BY RemoveIsSound
    <3> HIDE DEF new
    <3>3. Sound(last) /\ Gone(last)
      BY <3>2 DEF Sound, HasFields, Findable, Gone
    <3> QED BY <3>1, <3>3 DEF new, Sound, Gone, HasFields, Findable
  <2>3. CASE SetStagesCall
    <3>1. PICK stages \in StageLists : st' = SetStages(st, stages)
      BY <2>3 DEF SetStagesCall
    <3>2. IsList(stages)
      BY ListsOfStages
    <3> QED BY <3>1, <3>2 DEF SetStages, Sound, HasFields, Findable, Gone
  <2>4. CASE SetNormalizeUnits
    BY <2>4 DEF SetNormalizeUnits, Sound, HasFields, Findable, Gone
  <2>5. CASE ReadConfig
    <3>1. PICK c \in ConfigFile : st' = [FromConfigJSON(st, c) EXCEPT !.removed = <<>>]
      BY <2>5 DEF ReadConfig
    <3> DEFINE new == FromConfigJSON(st, c)
    <3>2. Sound(new)
      BY ConfigIsSound
    <3> HIDE DEF new
    <3>3. Sound([new EXCEPT !.removed = <<>>]) /\ Gone([new EXCEPT !.removed = <<>>])
      BY <3>2 DEF Sound, HasFields, Findable, Gone
    <3> QED BY <3>1, <3>3 DEF new, Sound, Gone, HasFields, Findable
  <2>6. CASE CallProcessMessage
    <3>1. PICK m \in Message :
            st' = [st EXCEPT !.stages = IF @ = <<>> THEN StageNames ELSE @,
                             !.called = <<m>>, !.out = {}]
      BY <2>6 DEF CallProcessMessage
    <3>2. IsList(st'.stages)
      BY <3>1, ListsOfStages DEF Sound, HasFields
    <3> HIDE DEF IsList
    <3> QED BY <3>1, <3>2 DEF Sound, HasFields, Findable, Gone
  <2>7. CASE ProcessMessage
    <3>1. PICK s : st' = [st EXCEPT !.called = <<>>, !.out = {s}]
      BY <2>7 DEF ProcessMessage
    <3> QED BY <3>1 DEF Sound, HasFields, Findable, Gone
  <2>8. CASE UNCHANGED st
    BY <2>8 DEF Sound, HasFields, Findable, Gone
  <2> QED BY <2>1, <2>2, <2>3, <2>4, <2>5, <2>6, <2>7, <2>8 DEF NextProcessor
<1> QED BY <1>1, <1>2, PTL DEF Spec

(* A rule is gone after its removal, and can be found to be removed as     *)
(* long as it is there, unless another rule has used its condition.        *)
THEOREM RemovalsFindTheirRule == Spec => []RulesAreRemoved
<1>1. RulesInv => RulesAreRemoved
  BY DEF RulesInv, Sound, Findable, Gone, RulesAreRemoved
<1> QED BY <1>1, RulesInvHolds, PTL

-----------------------------------------------------------------------------
(* Later rules see what the earlier ones left.  Two maps are alike if they *)
(* differ at most in what the conditions may see otherwise.                *)
Hidden(stale) == {"type-id", "typeid"} \cup IF stale THEN {"unit"} ELSE {}
Alike(stale, f, g) ==
  \A k : k \notin Hidden(stale) =>
    (k \in DOMAIN f <=> k \in DOMAIN g) /\ (k \in DOMAIN f => f[k] = g[k])

HasParts(s) == DOMAIN s = {"msg", "env", "result", "given", "stale"}

Mirrors(s) ==
  /\ HasParts(s)
  /\ s.stale \in BOOLEAN
  /\ DOMAIN s.msg = {"name", "tag", "meta", "field"}
  /\ DOMAIN s.env = {"name", "type", "field", "tag", "meta"}
  /\ s.env.name = s.msg.name
  /\ Alike(s.stale, s.env.tag, s.msg.tag)
  /\ Alike(s.stale, s.env.meta, s.msg.meta)
  /\ s.env.field = s.msg.field
  /\ s.env.type \in {TypeOfKey(k) : k \in DOMAIN s.given.field}

LEMMA AlikeAreSeen ==
  ASSUME NEW stale, NEW f, NEW g, Alike(stale, f, g)
  PROVE  Restrict(f, DOMAIN f \ Hidden(stale)) = Restrict(g, DOMAIN g \ Hidden(stale))
<1>1. DOMAIN f \ Hidden(stale) = DOMAIN g \ Hidden(stale)
  BY DEF Alike
<1>2. \A k \in DOMAIN f \ Hidden(stale) : f[k] = g[k]
  BY DEF Alike
<1> QED BY <1>1, <1>2 DEF Restrict

LEMMA AssignAlike ==
  ASSUME NEW stale, NEW f, NEW g, Alike(stale, f, g), NEW k, NEW v
  PROVE  /\ Alike(stale, Assign(f, k, v), Assign(g, k, v))
         /\ k \in Hidden(stale) => Alike(stale, Assign(f, k, v), g)
BY DEF Alike, Assign

LEMMA RestrictAlike ==
  ASSUME NEW stale, NEW f, NEW g, Alike(stale, f, g), NEW k
  PROVE  Alike(stale, Restrict(f, DOMAIN f \ {k}), Restrict(g, DOMAIN g \ {k}))
BY DEF Alike, Restrict

(* What lags behind stays so.                                              *)
LEMMA LaterAlike ==
  ASSUME NEW stale \in BOOLEAN, NEW f, NEW g, Alike(stale, f, g)
  PROVE  Alike(TRUE, f, g)
BY DEF Alike, Hidden

(* At first the conditions see the message itself; the other spelling of   *)
(* type-id is hidden on both sides.                                        *)
LEMMA SanitizedAlike == \A f : Alike(FALSE, Sanitized(f), f)
<1> SUFFICES ASSUME NEW f, NEW k, k \notin Hidden(FALSE)
             PROVE  /\ k \in DOMAIN Sanitized(f) <=> k \in DOMAIN f
                    /\ k \in DOMAIN Sanitized(f) => Sanitized(f)[k] = f[k]
  BY DEF Alike
<1>1. \A j \in DOMAIN f : SanitizeExprString(j) = k <=> j = k
  BY DEF SanitizeExprString, Hidden
<1>2. k \in DOMAIN Sanitized(f) <=> k \in DOMAIN f
  BY <1>1 DEF Sanitized
<1>3. ASSUME k \in DOMAIN f PROVE Sanitized(f)[k] = f[k]
  <2>1. (CHOOSE j \in DOMAIN f : SanitizeExprString(j) = k) = k
    BY <1>1, <1>3
  <2> QED BY <1>2, <1>3, <2>1 DEF Sanitized
<1> QED BY <1>2, <1>3

Start(m, env) ==
  [msg |-> m, env |-> env, result |-> "message", given |-> m, stale |-> FALSE]

LEMMA ParamsMirror ==
  ASSUME NEW m \in Message, NEW env \in GetParamMap(m)
  PROVE  Mirrors(Start(m, env))
<1>1. PICK k \in DOMAIN m.field :
        env = [name |-> m.name, type |-> TypeOfKey(k), field |-> m.field,
               tag |-> Sanitized(m.tag), meta |-> Sanitized(m.meta)]
  BY DEF GetParamMap
<1>2. DOMAIN m = {"name", "tag", "meta", "field"}
  BY MessageAssumption
<1>3. Alike(FALSE, env.tag, m.tag) /\ Alike(FALSE, env.meta, m.meta)
  BY <1>1, SanitizedAlike
<1>4. env.type \in {TypeOfKey(j) : j \in DOMAIN m.field}
  BY <1>1
<1>5. env.name = m.name /\ env.field = m.field
      /\ DOMAIN env = {"name", "type", "field", "tag", "meta"}
  BY <1>1
<1> QED BY ONLY <1>2, <1>3, <1>4, <1>5 DEF Mirrors, Start, HasParts

(* Two maps of one place are replaced by maps that are alike.              *)
LEMMA ReplacedMirrors ==
  ASSUME NEW s, Mirrors(s), NEW loc \in Places, NEW seen, NEW map,
         loc = "field" => seen = map, loc # "field" => Alike(s.stale, seen, map)
  PROVE  Mirrors([s EXCEPT !.msg[loc] = map, !.env[loc] = seen])
<1> DEFINE new == [s EXCEPT !.msg[loc] = map, !.env[loc] = seen]
<1>1. /\ new.msg = [s.msg EXCEPT ![loc] = map]
      /\ new.env = [s.env EXCEPT ![loc] = seen]
      /\ new.given = s.given /\ new.stale = s.stale
      /\ HasParts(new)
  BY DEF Mirrors, HasParts
<1> HIDE DEF new
<1>2. ASSUME loc = "tag" PROVE Mirrors(new)
  BY <1>1, <1>2 DEF Mirrors
<1>3. ASSUME loc = "meta" PROVE Mirrors(new)
  BY <1>1, <1>3 DEF Mirrors
<1>4. ASSUME loc = "field" PROVE Mirrors(new)
  BY <1>1, <1>4 DEF Mirrors
<1> QED BY <1>2, <1>3, <1>4 DEF Places, new

LEMMA PutMirrors ==
  ASSUME NEW s, Mirrors(s), NEW loc \in Places, NEW k, NEW v
  PROVE  Mirrors(Put(s, loc, k, v))
<1> DEFINE seen == Assign(s.env[loc], k, v)
           map == Assign(s.msg[loc], k, v)
<1>1. (loc = "field" => seen = map) /\ (loc # "field" => Alike(s.stale, seen, map))
  <2>1. IF loc = "field" THEN s.env[loc] = s.msg[loc]
        ELSE Alike(s.stale, s.env[loc], s.msg[loc])
    BY DEF Mirrors, Places
  <2> QED BY <2>1, AssignAlike
<1>2. Put(s, loc, k, v) = [s EXCEPT !.msg[loc] = map, !.env[loc] = seen]
  BY DEF Put, Mirrors, HasParts
<1> HIDE DEF seen, map
<1>3. Mirrors([s EXCEPT !.msg[loc] = map, !.env[loc] = seen])
  BY <1>1, ReplacedMirrors
<1> QED BY <1>2, <1>3

LEMMA WithoutMirrors ==
  ASSUME NEW s, Mirrors(s), NEW loc \in Places, NEW k
  PROVE  Mirrors(Without(s, loc, k))
<1> DEFINE seen == Restrict(s.env[loc], DOMAIN s.env[loc] \ {k})
           map == Restrict(s.msg[loc], DOMAIN s.msg[loc] \ {k})
<1>1. (loc = "field" => seen = map) /\ (loc # "field" => Alike(s.stale, seen, map))
  <2>1. IF loc = "field" THEN s.env[loc] = s.msg[loc]
        ELSE Alike(s.stale, s.env[loc], s.msg[loc])
    BY DEF Mirrors, Places
  <2> QED BY <2>1, RestrictAlike
<1>2. Without(s, loc, k) = [s EXCEPT !.msg[loc] = map, !.env[loc] = seen]
  BY DEF Without, Mirrors, HasParts
<1> HIDE DEF seen, map
<1>3. Mirrors([s EXCEPT !.msg[loc] = map, !.env[loc] = seen])
  BY <1>1, ReplacedMirrors
<1> QED BY <1>2, <1>3

LEMMA EndsMirrors ==
  ASSUME NEW s, Mirrors(s), NEW result PROVE Mirrors(Ends(s, result))
BY DEF Ends, Mirrors, HasParts

LEMMA RenameMirrors ==
  ASSUME NEW s, Mirrors(s), NEW new PROVE Mirrors(Rename(s, new))
<1> DEFINE named == [s EXCEPT !.msg.name = new, !.env.name = new]
<1>1. Mirrors(named)
  <2>1. /\ named.msg = [s.msg EXCEPT !.name = new]
        /\ named.env = [s.env EXCEPT !.name = new]
        /\ named.given = s.given /\ named.stale = s.stale
        /\ HasParts(named)
    BY DEF Mirrors, HasParts
  <2> HIDE DEF named
  <2> QED BY <2>1 DEF Mirrors
<1> HIDE DEF named
<1>2. Mirrors(Put(named, "meta", "oldname", <<"text", s.msg.name>>))
  BY <1>1, PutMirrors DEF Places
<1> QED BY <1>2 DEF Rename, named

(* The unit is hidden where what is written differs from what is seen.     *)
LEMMA PutUnitMirrors ==
  ASSUME NEW s, Mirrors(s), NEW loc \in {"meta", "tag"}, "unit" \in DOMAIN s.msg[loc],
         NEW u, NEW seen
  PROVE  Mirrors(PutUnit(s, loc, u, seen))
<1> DEFINE new == PutUnit(s, loc, u, seen)
           map == [s.msg[loc] EXCEPT !["unit"] = <<"unit", Short(u)>>]
           other == Assign(s.env.meta, "unit", <<"unit", Short(seen)>>)
<1>1. /\ new.msg = [s.msg EXCEPT ![loc] = map]
      /\ new.env = [s.env EXCEPT !["meta"] = other]
      /\ new.given = s.given
      /\ new.stale = (s.stale \/ loc = "tag" \/ u # seen)
      /\ HasParts(new)
  BY DEF PutUnit, Mirrors, HasParts
<1>2. new.stale \in BOOLEAN /\ (s.stale => new.stale)
  BY <1>1 DEF Mirrors
<1>3. Alike(new.stale, s.env.tag, s.msg.tag) /\ Alike(new.stale, s.env.meta, s.msg.meta)
  <2>1. /\ Alike(s.stale, s.env.tag, s.msg.tag) /\ Alike(s.stale, s.env.meta, s.msg.meta)
        /\ s.stale \in BOOLEAN
    BY DEF Mirrors
  <2> HIDE DEF new
  <2>2. CASE new.stale
    <3>1. new.stale = TRUE
      BY <1>2, <2>2
    <3> QED BY <2>1, <3>1, LaterAlike
  <2>3. CASE ~new.stale
    <3>1. new.stale = s.stale
      BY <1>2, <2>1, <2>3
    <3> QED BY <2>1, <3>1
  <2> QED BY <2>2, <2>3
<1>4. new.stale => Alike(new.stale, s.env[loc], map)
  <2> HIDE DEF new
  <2> QED BY <1>3 DEF Alike, Hidden
<1>5. ASSUME loc = "meta" PROVE Alike(new.stale, other, map)
  <2>1. CASE new.stale
    <3> HIDE DEF new, map
    <3> QED BY <1>4, <1>5, <2>1, AssignAlike DEF Hidden
  <2>2. CASE ~new.stale
    <3>1. u = seen
      BY <1>1, <2>2
    <3> HIDE DEF new
    <3> QED BY <1>3, <1>5, <3>1 DEF Alike, Assign
  <2> QED BY <2>1, <2>2
<1>6. new.stale => Alike(new.stale, other, s.msg.meta)
  <2> HIDE DEF new
  <2> QED BY <1>3, AssignAlike DEF Hidden
<1>7. s.env.field = s.msg.field /\ s.env.name = s.msg.name
  BY DEF Mirrors
<1>8. loc = "tag" => new.stale
  BY <1>1
<1> HIDE DEF new, map, other
<1>9. ASSUME loc = "tag" PROVE Mirrors(new)
  <2>1. new.msg = [s.msg EXCEPT !["tag"] = map] /\ Alike(new.stale, s.env.tag, map)
    BY <1>1, <1>4, <1>8, <1>9
  <2> QED BY <1>1, <1>2, <1>6, <1>8, <1>9, <2>1 DEF Mirrors
<1>10. ASSUME loc = "meta" PROVE Mirrors(new)
  <2>1. new.msg = [s.msg EXCEPT !["meta"] = map]
    BY <1>1, <1>10
  <2> QED BY <1>1, <1>2, <1>3, <1>5, <1>10, <2>1 DEF Mirrors
<1> QED BY <1>9, <1>10 DEF new

LEMMA MoveMirrors ==
  ASSUME NEW s, Mirrors(s), NEW from \in Places, NEW to \in Places, NEW key, NEW newKey
  PROVE  Mirrors(MoveInMessage(s, from, to, key, newKey))
<1> DEFINE without == Without(s, from, key)
           v == Stringified(s.msg[from][key])
<1>1. Mirrors(without)
  BY WithoutMirrors
<1> HIDE DEF without, v
<1>2. Mirrors(Put(without, to, newKey, v))
  BY <1>1, PutMirrors
<1>3. MoveInMessage(s, from, to, key, newKey) =
        IF key \notin DOMAIN s.msg[from] THEN s ELSE Put(without, to, newKey, v)
  BY Zenon DEF MoveInMessage, without, v
<1> QED BY <1>2, <1>3

LEMMA UnitPlaceIs ==
  ASSUME NEW m, UnitPlace(m) # {}
  PROVE  LET l == CHOOSE l \in UnitPlace(m) : TRUE
         IN l \in {"meta", "tag"} /\ "unit" \in DOMAIN m[l]
BY DEF UnitPlace

LEMMA NormalizeMirrors ==
  ASSUME NEW s, Mirrors(s) PROVE Mirrors(NormalizeUnits(s))
<1> DEFINE l == CHOOSE l \in UnitPlace(s.msg) : TRUE
           u == UnitOf(s.msg[l].unit)
<1>1. CASE \E x \in UnitPlace(s.msg) : Valid(UnitOf(s.msg[x].unit))
  <2>1. l \in {"meta", "tag"} /\ "unit" \in DOMAIN s.msg[l]
    BY <1>1, UnitPlaceIs
  <2>2. NormalizeUnits(s) = PutUnit(s, l, u, u)
    BY Zenon, <1>1 DEF NormalizeUnits
  <2> HIDE DEF l, u
  <2>3. Mirrors(PutUnit(s, l, u, u))
    BY <2>1, PutUnitMirrors
  <2> QED BY <2>2, <2>3
<1>2. CASE ~\E x \in UnitPlace(s.msg) : Valid(UnitOf(s.msg[x].unit))
  <2>1. NormalizeUnits(s) = s
    BY Zenon, <1>2 DEF NormalizeUnits
  <2> QED BY <2>1
<1> QED BY <1>1, <1>2

LEMMA ChangePrefixMirrors ==
  ASSUME NEW s, Mirrors(s), NEW prefix PROVE Mirrors(ChangeUnitPrefix(s, prefix))
<1> DEFINE l == CHOOSE l \in UnitPlace(s.msg) : TRUE
           u == UnitOf(s.msg[l].unit)
           new == GetUnitPrefixFactor(u, prefix)
           refused == \/ UnitPlace(s.msg) = {} \/ prefix = Invalid \/ ~Valid(u)
                      \/ new.conv = <<>> \/ "value" \notin DOMAIN s.msg.field
           v == Converted(s.msg.field.value, new.conv)
           scaled == Put(s, "field", "value", v)
<1>1. ChangeUnitPrefix(s, prefix) =
        IF refused THEN s ELSE PutUnit(scaled, l, new.unit, u)
  BY Zenon DEF ChangeUnitPrefix
<1>2. ~refused => l \in {"meta", "tag"} /\ "unit" \in DOMAIN scaled.msg[l]
  <2>1. ~refused => l \in {"meta", "tag"} /\ "unit" \in DOMAIN s.msg[l]
    BY UnitPlaceIs
  <2>2. \A loc \in {"meta", "tag"} : scaled.msg[loc] = s.msg[loc]
    BY DEF Put, Mirrors, HasParts
  <2> HIDE DEF refused, l, scaled
  <2> QED BY <2>1, <2>2
<1>3. Mirrors(scaled)
  <2> HIDE DEF v
  <2> QED BY PutMirrors DEF Places
<1> HIDE DEF l, u, new, refused, scaled
<1>4. ~refused => Mirrors(PutUnit(scaled, l, new.unit, u))
  BY <1>2, <1>3, PutUnitMirrors
<1> QED BY <1>1, <1>4
-----------------------------------------------------------------------------
(* The value of a message and its unit stay in step.                       *)
UnitAt(m, loc, k) == loc \in Places /\ k \in DOMAIN m[loc] /\ m[loc][k][1] = "unit"
OneUnit(m) ==
  \A loc, k, other, j : UnitAt(m, loc, k) /\ UnitAt(m, other, j) => loc = other /\ k = j
ScaledTo(m, u) ==
  Readable(u) /\ (Valid(u) /\ IsMetric(m) => m.field.value[2] = u.prefix)

LEMMA InStepIs ==
  ASSUME NEW m
  PROVE  InStep(m) <=>
           OneUnit(m) /\ \A loc, k : UnitAt(m, loc, k) => ScaledTo(m, UnitOf(m[loc][k]))
<1>1. \A p : p \in UnitsOf(m) <=> \E loc, k : p = <<loc, k>> /\ UnitAt(m, loc, k)
  BY DEF UnitsOf, UnitAt
<1>2. (\A p, q \in UnitsOf(m) : p = q) <=> OneUnit(m)
  <2>1. ASSUME \A p, q \in UnitsOf(m) : p = q,
               NEW loc, NEW k, NEW other, NEW j, UnitAt(m, loc, k), UnitAt(m, other, j)
        PROVE  loc = other /\ k = j
    <3>1. <<loc, k>> = <<other, j>>
      BY <1>1, <2>1
    <3> QED BY <3>1
  <2>2. ASSUME OneUnit(m), NEW p \in UnitsOf(m), NEW q \in UnitsOf(m) PROVE p = q
    BY <1>1, <2>2 DEF OneUnit
  <2> QED BY <2>1, <2>2 DEF OneUnit
<1>3. (\A p \in UnitsOf(m) : ScaledTo(m, UnitOf(m[p[1]][p[2]])))
        <=> \A loc, k : UnitAt(m, loc, k) => ScaledTo(m, UnitOf(m[loc][k]))
  <2>1. ASSUME \A p \in UnitsOf(m) : ScaledTo(m, UnitOf(m[p[1]][p[2]])),
               NEW loc, NEW k, UnitAt(m, loc, k)
        PROVE  ScaledTo(m, UnitOf(m[loc][k]))
    <3>1. <<loc, k>> \in UnitsOf(m)
      BY <1>1, <2>1
    <3>2. <<loc, k>>[1] = loc /\ <<loc, k>>[2] = k
      OBVIOUS
    <3>3. ScaledTo(m, UnitOf(m[<<loc, k>>[1]][<<loc, k>>[2]]))
      BY <2>1, <3>1
    <3> QED BY <3>2, <3>3
  <2>2. ASSUME \A loc, k : UnitAt(m, loc, k) => ScaledTo(m, UnitOf(m[loc][k])),
               NEW p \in UnitsOf(m)
        PROVE  ScaledTo(m, UnitOf(m[p[1]][p[2]]))
    <3>1. PICK loc, k : p = <<loc, k>> /\ UnitAt(m, loc, k)
      BY <1>1
    <3> QED BY <2>2, <3>1
  <2> QED BY <2>1, <2>2
<1>4. InStep(m) <=> /\ \A p, q \in UnitsOf(m) : p = q
                    /\ \A p \in UnitsOf(m) : ScaledTo(m, UnitOf(m[p[1]][p[2]]))
  BY Zenon DEF InStep, ScaledTo
<1> QED BY <1>2, <1>3, <1>4

(* What else is taken away or changed does not matter.                     *)
LEMMA FewerInStep ==
  ASSUME NEW m, InStep(m), NEW n,
         \A loc, k : UnitAt(n, loc, k) => UnitAt(m, loc, k) /\ n[loc][k] = m[loc][k],
         IsMetric(n) => IsMetric(m) /\ n.field.value = m.field.value
  PROVE  InStep(n)
<1>1. OneUnit(m) /\ \A loc, k : UnitAt(m, loc, k) => ScaledTo(m, UnitOf(m[loc][k]))
  BY InStepIs
<1>2. OneUnit(n)
  BY <1>1 DEF OneUnit
<1>3. ASSUME NEW loc, NEW k, UnitAt(n, loc, k) PROVE ScaledTo(n, UnitOf(n[loc][k]))
  <2>1. ScaledTo(m, UnitOf(m[loc][k])) /\ n[loc][k] = m[loc][k]
    BY <1>1, <1>3
  <2> QED BY <2>1 DEF ScaledTo
<1> QED BY <1>2, <1>3, InStepIs

(* A message with maps in its places.                                      *)
IsMessage(m) == DOMAIN m = {"name", "tag", "meta", "field"}

With(m, loc, k, v) == [m EXCEPT ![loc] = Assign(m[loc], k, v)]
Less(m, loc, k) == [m EXCEPT ![loc] = Restrict(m[loc], DOMAIN m[loc] \ {k})]
WithUnit(m, loc, u) ==
  [m EXCEPT ![loc] = [m[loc] EXCEPT !["unit"] = <<"unit", Short(u)>>]]

LEMMA AssignInStep ==
  ASSUME NEW m, IsMessage(m), InStep(m), NEW loc \in Places, NEW k, NEW v,
         v[1] # "unit", v[1] # "number"
  PROVE  InStep(With(m, loc, k, v))
<1> DEFINE n == With(m, loc, k, v)
<1>1. \A l \in Places : n[l] = IF l = loc THEN Assign(m[loc], k, v) ELSE m[l]
  BY DEF With, IsMessage, Places
<1> HIDE DEF n
<1>2. ASSUME NEW l, NEW j, UnitAt(n, l, j)
      PROVE  UnitAt(m, l, j) /\ n[l][j] = m[l][j]
  <2>1. l \in Places /\ j \in DOMAIN n[l] /\ n[l][j][1] = "unit"
    BY <1>2 DEF UnitAt
  <2>2. CASE l # loc
    BY <1>1, <2>1, <2>2 DEF UnitAt
  <2>3. CASE l = loc
    <3>1. n[l] = Assign(m[l], k, v)
      BY <1>1, <2>3
    <3>2. j # k
      BY <2>1, <3>1 DEF Assign
    <3>3. j \in DOMAIN m[l] /\ n[l][j] = m[l][j]
      BY <2>1, <3>1, <3>2 DEF Assign
    <3> QED BY <2>1, <3>3 DEF UnitAt
  <2> QED BY <2>2, <2>3
<1>3. ASSUME IsMetric(n) PROVE IsMetric(m) /\ n.field.value = m.field.value
  <2>1. CASE loc # "field"
    BY <1>1, <1>3, <2>1 DEF IsMetric, Places
  <2>2. CASE loc = "field"
    BY <1>1, <1>3, <2>2 DEF IsMetric, Places, Assign
  <2> QED BY <2>1, <2>2
<1>4. InStep(n)
  BY <1>2, <1>3, FewerInStep
<1> QED BY <1>4 DEF n

LEMMA RestrictInStep ==
  ASSUME NEW m, IsMessage(m), InStep(m), NEW loc \in Places, NEW k
  PROVE  InStep(Less(m, loc, k))
<1> DEFINE n == Less(m, loc, k)
<1>1. \A l \in Places :
        n[l] = IF l = loc THEN Restrict(m[loc], DOMAIN m[loc] \ {k}) ELSE m[l]
  BY DEF Less, IsMessage, Places
<1> HIDE DEF n
<1>2. ASSUME NEW l, NEW j, UnitAt(n, l, j)
      PROVE  UnitAt(m, l, j) /\ n[l][j] = m[l][j]
  <2>1. l \in Places /\ j \in DOMAIN n[l] /\ n[l][j][1] = "unit"
    BY <1>2 DEF UnitAt
  <2>2. CASE l # loc
    BY <1>1, <2>1, <2>2 DEF UnitAt
  <2>3. CASE l = loc
    BY <1>1, <2>1, <2>3 DEF UnitAt, Restrict
  <2> QED BY <2>2, <2>3
<1>3. ASSUME IsMetric(n) PROVE IsMetric(m) /\ n.field.value = m.field.value
  <2>1. CASE loc # "field"
    BY <1>1, <1>3, <2>1 DEF IsMetric, Places
  <2>2. CASE loc = "field"
    BY <1>1, <1>3, <2>2 DEF IsMetric, Places, Restrict
  <2> QED BY <2>1, <2>2
<1>4. InStep(n)
  BY <1>2, <1>3, FewerInStep
<1> QED BY <1>4 DEF n

(* A unit is put in the place of the one before, and the value scaled.     *)
LEMMA UnitInStep ==
  ASSUME NEW m, IsMessage(m), OneUnit(m), NEW loc \in Places, UnitAt(m, loc, "unit"),
         NEW u, Readable(u), Valid(u),
         IsMetric(m) => m.field.value[2] = u.prefix
  PROVE  InStep(WithUnit(m, loc, u))
<1> DEFINE text == <<"unit", Short(u)>>
           map == [m[loc] EXCEPT !["unit"] = text]
           n == WithUnit(m, loc, u)
<1>1. \A l \in Places : n[l] = IF l = loc THEN map ELSE m[l]
  BY DEF WithUnit, IsMessage, Places
<1>2. DOMAIN map = DOMAIN m[loc] /\ \A k \in DOMAIN m[loc] : k # "unit" => map[k] = m[loc][k]
  OBVIOUS
<1>3. map["unit"] = text
  BY DEF UnitAt
<1>4. text[1] = "unit" /\ UnitOf(text) = u
  BY DEF UnitOf, Readable, ReadBack
<1> HIDE DEF n, map, text
<1>5. ASSUME NEW l, NEW k, UnitAt(n, l, k) PROVE l = loc /\ k = "unit"
  <2>1. l \in Places /\ k \in DOMAIN n[l] /\ n[l][k][1] = "unit"
    BY <1>5 DEF UnitAt
  <2>2. CASE l # loc
    <3>1. UnitAt(m, l, k)
      BY <1>1, <2>1, <2>2 DEF UnitAt
    <3> QED BY <2>2, <3>1 DEF OneUnit
  <2>3. CASE l = loc /\ k # "unit"
    <3>1. UnitAt(m, l, k)
      BY <1>1, <1>2, <2>1, <2>3 DEF UnitAt
    <3> QED BY <2>3, <3>1 DEF OneUnit
  <2> QED BY <2>2, <2>3
<1>6. OneUnit(n)
  BY <1>5 DEF OneUnit
<1>7. ASSUME IsMetric(n) PROVE n.field.value[2] = u.prefix
  <2>1. CASE loc = "field"
    <3>1. IsMetric(m) /\ n.field.value = m.field.value
      BY <1>1, <1>2, <1>7, <2>1 DEF IsMetric, Places
    <3> QED BY <3>1
  <2>2. CASE loc # "field"
    <3>1. n.field = m.field
      BY <1>1, <2>2 DEF Places
    <3> QED BY <1>7, <3>1 DEF IsMetric
  <2> QED BY <2>1, <2>2
<1>8. ASSUME NEW l, NEW k, UnitAt(n, l, k) PROVE ScaledTo(n, UnitOf(n[l][k]))
  <2>1. n[l][k] = text
    BY <1>1, <1>3, <1>5, <1>8
  <2> QED BY <1>4, <1>7, <2>1 DEF ScaledTo
<1>9. InStep(n)
  BY <1>6, <1>8, InStepIs
<1> QED BY <1>9 DEF n, map, text

(* The unit of a message that has no other moves to another place.         *)
LEMMA MovedInStep ==
  ASSUME NEW m, IsMessage(m), \A loc, k : ~UnitAt(m, loc, k),
         NEW loc \in Places, NEW k, NEW v, v[1] = "unit", ScaledTo(m, UnitOf(v))
  PROVE  InStep(With(m, loc, k, v))
<1> DEFINE n == With(m, loc, k, v)
<1>1. \A l \in Places : n[l] = IF l = loc THEN Assign(m[loc], k, v) ELSE m[l]
  BY DEF With, IsMessage, Places
<1> HIDE DEF n
<1>2. ASSUME NEW l, NEW j, UnitAt(n, l, j) PROVE l = loc /\ j = k /\ n[l][j] = v
  <2>1. l \in Places /\ j \in DOMAIN n[l] /\ n[l][j][1] = "unit" /\ ~UnitAt(m, l, j)
    BY <1>2 DEF UnitAt
  <2>2. l = loc
    BY <1>1, <2>1 DEF UnitAt
  <2>3. n[l] = Assign(m[l], k, v)
    BY <1>1, <2>1, <2>2
  <2>4. j = k
    BY <2>1, <2>3 DEF UnitAt, Assign
  <2>5. n[l][k] = v
    BY <2>3 DEF Assign
  <2> QED BY <2>2, <2>4, <2>5
<1>3. ASSUME IsMetric(n) PROVE IsMetric(m) /\ n.field.value = m.field.value
  <2>1. CASE loc # "field"
    BY <1>1, <1>3, <2>1 DEF IsMetric, Places
  <2>2. CASE loc = "field"
    BY <1>1, <1>3, <2>2 DEF IsMetric, Places, Assign
  <2> QED BY <2>1, <2>2
<1>4. OneUnit(n)
  BY <1>2 DEF OneUnit
<1>5. ASSUME NEW l, NEW j, UnitAt(n, l, j) PROVE ScaledTo(n, UnitOf(n[l][j]))
  <2>1. n[l][j] = v
    BY <1>2, <1>5
  <2> QED BY <1>3, <2>1 DEF ScaledTo
<1>6. InStep(n)
  BY <1>4, <1>5, InStepIs
<1> QED BY <1>6 DEF n

LEMMA MoveInStep ==
  ASSUME NEW m, IsMessage(m), InStep(m), NEW from \in Places, NEW to \in Places,
         NEW key \in DOMAIN m[from], NEW newKey
  PROVE  InStep(With(Less(m, from, key), to, newKey, Stringified(m[from][key])))
<1> DEFINE v == m[from][key]
           w == Stringified(v)
           left == Less(m, from, key)
<1>1. IsMessage(left) /\ InStep(left)
  BY RestrictInStep DEF IsMessage, Less
<1>2. ASSUME v[1] = "unit"
      PROVE  InStep(With(left, to, newKey, w))
  <2>1. UnitAt(m, from, key) /\ w = v
    BY <1>2 DEF UnitAt, Stringified
  <2>2. OneUnit(m) /\ ScaledTo(m, UnitOf(v))
    BY <2>1, InStepIs
  <2>3. \A l \in Places : left[l] = IF l = from THEN Restrict(m[from], DOMAIN m[from] \ {key})
                                    ELSE m[l]
    BY DEF Less, IsMessage, Places
  <2> HIDE DEF left
  <2>4. ASSUME NEW l, NEW k, UnitAt(left, l, k) PROVE FALSE
    <3>1. l \in Places /\ k \in DOMAIN left[l] /\ left[l][k][1] = "unit"
      BY <2>4 DEF UnitAt
    <3>2. CASE l # from
      <4>1. UnitAt(m, l, k)
        BY <2>3, <3>1, <3>2 DEF UnitAt
      <4> QED BY <2>1, <2>2, <3>2, <4>1 DEF OneUnit
    <3>3. CASE l = from
      <4>1. UnitAt(m, l, k) /\ k # key
        <5>1. left[l] = Restrict(m[l], DOMAIN m[l] \ {key})
          BY <2>3, <3>1, <3>3
        <5>2. k \in DOMAIN m[l] \ {key} /\ left[l][k] = m[l][k]
          BY <3>1, <5>1 DEF Restrict
        <5> QED BY <3>1, <5>2 DEF UnitAt
      <4> QED BY <2>1, <2>2, <4>1 DEF OneUnit
    <3> QED BY <3>2, <3>3
  <2>5. IsMetric(left) => IsMetric(m) /\ left.field.value = m.field.value
    BY <2>3 DEF IsMetric, Places, Restrict
  <2>6. ScaledTo(left, UnitOf(w)) /\ w[1] = "unit"
    BY <1>2, <2>1, <2>2, <2>5 DEF ScaledTo
  <2> HIDE DEF v, w
  <2> QED BY <1>1, <2>4, <2>6, MovedInStep
<1>3. ASSUME v[1] # "unit"
      PROVE  InStep(With(left, to, newKey, w))
  <2>1. w[1] # "unit" /\ w[1] # "number"
    BY <1>3 DEF Stringified
  <2> HIDE DEF w
  <2> QED BY <1>1, <2>1, AssignInStep
<1> QED BY <1>2, <1>3 DEF v, w, left

(* The value and the unit get the prefix that is asked for.                *)
LEMMA PrefixInStep ==
  ASSUME NEW m, IsMessage(m), InStep(m), NEW loc \in {"meta", "tag"},
         "unit" \in DOMAIN m[loc], "value" \in DOMAIN m.field,
         NEW u, u = UnitOf(m[loc]["unit"]), Valid(u),
         NEW prefix \in PrefixesAsked, prefix # Invalid,
         NEW new, new = GetUnitPrefixFactor(u, prefix),
         NEW v, v = Converted(m.field.value, new.conv)
  PROVE  InStep(WithUnit(With(m, "field", "value", v), loc, new.unit))
<1> DEFINE to == [u EXCEPT !.prefix = prefix]
           left == With(m, "field", "value", v)
<1>1. m[loc]["unit"][1] = "unit"
  BY DEF UnitOf, InvalidUnit, Valid
<1>2. UnitAt(m, loc, "unit") /\ loc \in Places
  BY <1>1 DEF UnitAt, Places
<1>3. OneUnit(m) /\ ScaledTo(m, u)
  BY <1>2, InStepIs
<1>4. Readable(u) /\ ReadBack(u) /\ ReadBack(to)
  BY <1>3 DEF ScaledTo, Readable
<1>5. new.unit = to /\ new.conv = <<u.prefix, prefix>>
  BY <1>4 DEF GetUnitPrefixFactor, GetPrefixPrefixFactor, ReadBack
<1>6. DOMAIN u = {"prefix", "measure", "div"}
  BY <1>1 DEF UnitOf, NewUnit, InvalidUnit
<1>7. Valid(to) /\ to.prefix = prefix
  BY <1>6 DEF Valid
<1>8. Readable(to)
  <2>1. ASSUME NEW p PROVE [to EXCEPT !.prefix = p] = [u EXCEPT !.prefix = p]
    BY <1>6
  <2> HIDE DEF to
  <2> QED BY <1>3, <1>4, <2>1 DEF Readable, ScaledTo
<1>9. /\ IsMessage(left)
      /\ left["field"] = Assign(m["field"], "value", v)
      /\ \A l \in Places : l # "field" => left[l] = m[l]
  BY DEF With, IsMessage, Places
<1> HIDE DEF left
<1>10. ASSUME NEW l, NEW k, UnitAt(left, l, k) PROVE UnitAt(m, l, k)
  <2>1. v[1] = "unit" => m.field.value[1] = "unit"
    BY DEF Converted
  <2>2. CASE l = "field"
    BY <1>9, <1>10, <2>1, <2>2 DEF UnitAt, Assign
  <2>3. CASE l # "field"
    BY <1>9, <1>10, <2>3 DEF UnitAt
  <2> QED BY <2>2, <2>3
<1>11. OneUnit(left)
  BY <1>3, <1>10 DEF OneUnit
<1>12. UnitAt(left, loc, "unit")
  BY <1>2, <1>9 DEF UnitAt
<1>13. IsMetric(left) => left.field.value[2] = prefix
  <2>1. left.field.value = v
    BY <1>9 DEF Assign
  <2>2. ASSUME v[1] = "number" PROVE v[2] = prefix
    <3>1. m.field.value[1] = "number"
      BY <2>2 DEF Converted
    <3>2. m.field.value[2] = u.prefix
      BY <1>3, <3>1 DEF ScaledTo, IsMetric
    <3> QED BY <1>5, <3>1, <3>2 DEF Converted
  <2> QED BY <2>1, <2>2 DEF IsMetric
<1> HIDE DEF to
<1>14. InStep(WithUnit(left, loc, to))
  BY <1>2, <1>7, <1>8, <1>9, <1>11, <1>12, <1>13, UnitInStep
<1> QED BY <1>5, <1>14 DEF left
-----------------------------------------------------------------------------
(* What a message is, and what the conditions see, after every rule.       *)
Kept(s) == Mirrors(s) /\ (UnitsAreReadable => InStep(s.msg))

LEMMA ShapeOf ==
  ASSUME NEW s, Mirrors(s)
  PROVE  HasParts(s) /\ IsMessage(s.msg)
BY DEF Mirrors, IsMessage

LEMMA PutIs ==
  ASSUME NEW s, HasParts(s), NEW loc, NEW k, NEW v
  PROVE  Put(s, loc, k, v).msg = With(s.msg, loc, k, v)
BY DEF Put, With, HasParts

LEMMA WithoutIs ==
  ASSUME NEW s, HasParts(s), NEW loc, NEW k
  PROVE  Without(s, loc, k).msg = Less(s.msg, loc, k)
BY DEF Without, Less, HasParts

LEMMA PutUnitIs ==
  ASSUME NEW s, HasParts(s), NEW loc, NEW u, NEW seen
  PROVE  PutUnit(s, loc, u, seen).msg = WithUnit(s.msg, loc, u)
BY DEF PutUnit, WithUnit, HasParts

LEMMA PutKept ==
  ASSUME NEW s, Kept(s), NEW loc \in Places, NEW k, NEW v, v[1] # "unit", v[1] # "number"
  PROVE  Kept(Put(s, loc, k, v))
<1> DEFINE m == s.msg
           n == Put(s, loc, k, v).msg
<1>1. Mirrors(s) /\ Mirrors(Put(s, loc, k, v))
  BY PutMirrors DEF Kept
<1>2. IsMessage(m) /\ n = With(m, loc, k, v)
  BY <1>1, ShapeOf, PutIs
<1>3. InStep(m) => InStep(n)
  <2> HIDE DEF m, n
  <2>1. InStep(m) => InStep(With(m, loc, k, v))
    BY <1>2, AssignInStep
  <2> QED BY <1>2, <2>1
<1> QED BY <1>1, <1>3 DEF Kept

LEMMA WithoutKept ==
  ASSUME NEW s, Kept(s), NEW loc \in Places, NEW k
  PROVE  Kept(Without(s, loc, k))
<1> DEFINE m == s.msg
           n == Without(s, loc, k).msg
<1>1. Mirrors(s) /\ Mirrors(Without(s, loc, k))
  BY WithoutMirrors DEF Kept
<1>2. IsMessage(m) /\ n = Less(m, loc, k)
  BY <1>1, ShapeOf, WithoutIs
<1>3. InStep(m) => InStep(n)
  <2> HIDE DEF m, n
  <2>1. InStep(m) => InStep(Less(m, loc, k))
    BY <1>2, RestrictInStep
  <2> QED BY <1>2, <2>1
<1> QED BY <1>1, <1>3 DEF Kept

LEMMA EndsKept ==
  ASSUME NEW s, Kept(s), NEW result PROVE Kept(Ends(s, result))
<1>1. Mirrors(s) /\ Mirrors(Ends(s, result))
  BY EndsMirrors DEF Kept
<1>2. Ends(s, result).msg = s.msg
  BY <1>1 DEF Ends, Mirrors, HasParts
<1> QED BY <1>1, <1>2 DEF Kept

LEMMA RenameKept ==
  ASSUME NEW s, Kept(s), NEW new PROVE Kept(Rename(s, new))
<1> DEFINE named == [s EXCEPT !.msg.name = new, !.env.name = new]
           text == <<"text", s.msg.name>>
<1>1. Mirrors(Rename(s, new))
  BY RenameMirrors DEF Kept
<1>2. IsMessage(s.msg) /\ HasParts(s)
  BY DEF Kept, Mirrors, IsMessage
<1>3. named.msg = [s.msg EXCEPT !.name = new] /\ HasParts(named)
  BY <1>2 DEF HasParts
<1>4. ASSUME UnitsAreReadable PROVE InStep(Rename(s, new).msg)
  <2> DEFINE m == named.msg
             n == Rename(s, new).msg
  <2>1. InStep(s.msg)
    BY <1>4 DEF Kept
  <2>2. IsMessage(m) /\ \A l \in Places : m[l] = s.msg[l]
    BY <1>2, <1>3 DEF IsMessage, Places
  <2>3. InStep(m)
    <3> HIDE DEF m
    <3> QED BY <2>1, <2>2, FewerInStep DEF UnitAt, IsMetric, Places
  <2>4. n = With(m, "meta", "oldname", text)
    <3>1. Rename(s, new) = Put(named, "meta", "oldname", text)
      BY Zenon DEF Rename
    <3>2. HasParts(named)
      BY <1>2, <1>3
    <3> HIDE DEF named, text
    <3> QED BY <3>1, <3>2, PutIs
  <2>5. text[1] # "unit" /\ text[1] # "number"
    OBVIOUS
  <2> HIDE DEF m, n, text
  <2>6. InStep(With(m, "meta", "oldname", text))
    BY <2>2, <2>3, <2>5, AssignInStep DEF Places
  <2>7. InStep(n)
    BY <2>4, <2>6
  <2> QED BY <2>7 DEF n
<1> QED BY <1>1, <1>4 DEF Kept

LEMMA MoveKept ==
  ASSUME NEW s, Kept(s), NEW from \in Places, NEW to \in Places, NEW key, NEW newKey
  PROVE  Kept(MoveInMessage(s, from, to, key, newKey))
<1> DEFINE without == Without(s, from, key)
           v == Stringified(s.msg[from][key])
           new == Put(without, to, newKey, v)
<1>1. Mirrors(MoveInMessage(s, from, to, key, newKey))
  BY MoveMirrors DEF Kept
<1>2. MoveInMessage(s, from, to, key, newKey) =
        IF key \notin DOMAIN s.msg[from] THEN s ELSE new
  BY Zenon DEF MoveInMessage
<1>3. Mirrors(s) /\ Mirrors(without)
  BY WithoutMirrors DEF Kept
<1>4. IsMessage(s.msg) /\ HasParts(without)
  BY <1>3, ShapeOf
<1>5. ASSUME UnitsAreReadable, key \in DOMAIN s.msg[from] PROVE InStep(new.msg)
  <2> DEFINE m == s.msg
             left == without.msg
             n == new.msg
  <2>1. n = With(left, to, newKey, Stringified(m[from][key]))
    <3> HIDE DEF without, v
    <3>1. n = With(left, to, newKey, v)
      BY <1>4, PutIs
    <3> QED BY <3>1 DEF v
  <2>2. left = Less(m, from, key)
    BY <1>3, ShapeOf, WithoutIs
  <2>3. InStep(m) /\ IsMessage(m) /\ key \in DOMAIN m[from]
    BY <1>4, <1>5 DEF Kept
  <2> HIDE DEF m, left, n
  <2>4. InStep(With(left, to, newKey, Stringified(m[from][key])))
    BY <2>2, <2>3, MoveInStep
  <2>5. InStep(n)
    BY <2>1, <2>4
  <2> QED BY <2>5 DEF n
<1> HIDE DEF new
<1> QED BY <1>1, <1>2, <1>5 DEF Kept

LEMMA NormalizeKept ==
  ASSUME NEW s, Kept(s) PROVE Kept(NormalizeUnits(s))
<1> DEFINE l == CHOOSE l \in UnitPlace(s.msg) : TRUE
           u == UnitOf(s.msg[l].unit)
           m == s.msg
           n == NormalizeUnits(s).msg
<1>1. Mirrors(s) /\ Mirrors(NormalizeUnits(s))
  BY NormalizeMirrors DEF Kept
<1>2. CASE \E x \in UnitPlace(m) : Valid(UnitOf(m[x].unit))
  <2>1. l \in UnitPlace(m) /\ Valid(u)
    BY <1>2 DEF UnitPlace
  <2>2. NormalizeUnits(s) = PutUnit(s, l, u, u)
    BY Zenon, <1>2 DEF NormalizeUnits
  <2>3. l \in {"meta", "tag"} /\ l \in Places /\ "unit" \in DOMAIN m[l]
    BY <2>1 DEF UnitPlace, Places
  <2>4. IsMessage(m) /\ n = WithUnit(m, l, u)
    <3> HIDE DEF l, u
    <3> QED BY <1>1, <2>2, ShapeOf, PutUnitIs
  <2>5. m[l]["unit"][1] = "unit"
    <3>1. UnitOf(m[l]["unit"]) = u
      OBVIOUS
    <3> HIDE DEF l, m, u
    <3> QED BY <2>1, <3>1 DEF UnitOf, Valid, InvalidUnit
  <2>6. UnitAt(m, l, "unit")
    BY <2>3, <2>5 DEF UnitAt
  <2>7. u = UnitOf(m[l]["unit"])
    OBVIOUS
  <2> HIDE DEF l, u, n
  <2>8. InStep(m) => InStep(n)
    <3> HIDE DEF m
    <3> SUFFICES ASSUME InStep(m) PROVE InStep(n)
      OBVIOUS
    <3>1. OneUnit(m) /\ ScaledTo(m, u)
      BY <2>6, <2>7, InStepIs
    <3>2. InStep(WithUnit(m, l, u))
      BY <2>1, <2>3, <2>4, <2>6, <3>1, UnitInStep DEF ScaledTo
    <3> QED BY <2>4, <3>2
  <2> QED BY <1>1, <2>8 DEF Kept, n
<1>3. CASE ~\E x \in UnitPlace(m) : Valid(UnitOf(m[x].unit))
  <2>1. NormalizeUnits(s) = s
    BY Zenon, <1>3 DEF NormalizeUnits
  <2> QED BY <2>1
<1> QED BY <1>2, <1>3

LEMMA ChangePrefixKept ==
  ASSUME NEW s, Kept(s), NEW prefix \in PrefixesAsked
  PROVE  Kept(ChangeUnitPrefix(s, prefix))
<1> DEFINE l == CHOOSE l \in UnitPlace(s.msg) : TRUE
           u == UnitOf(s.msg[l].unit)
           new == GetUnitPrefixFactor(u, prefix)
           refused == \/ UnitPlace(s.msg) = {} \/ prefix = Invalid \/ ~Valid(u)
                      \/ new.conv = <<>> \/ "value" \notin DOMAIN s.msg.field
           v == Converted(s.msg.field.value, new.conv)
           scaled == Put(s, "field", "value", v)
           m == s.msg
           n == PutUnit(scaled, l, new.unit, u).msg
<1>1. ChangeUnitPrefix(s, prefix) =
        IF refused THEN s ELSE PutUnit(scaled, l, new.unit, u)
  BY Zenon DEF ChangeUnitPrefix
<1>2. Mirrors(s) /\ Mirrors(ChangeUnitPrefix(s, prefix))
  BY ChangePrefixMirrors DEF Kept
<1>3. Mirrors(scaled)
  <2> HIDE DEF v
  <2> QED BY <1>2, PutMirrors DEF Places
<1>4. n = WithUnit(With(m, "field", "value", v), l, new.unit)
  <2> HIDE DEF l, u, new, v
  <2>1. scaled.msg = With(m, "field", "value", v)
    BY <1>2, ShapeOf, PutIs
  <2> HIDE DEF scaled
  <2>2. n = WithUnit(scaled.msg, l, new.unit)
    BY <1>3, ShapeOf, PutUnitIs
  <2> QED BY <2>1, <2>2
<1>5. ~refused => /\ l \in UnitPlace(m) /\ Valid(u) /\ prefix # Invalid
                  /\ "value" \in DOMAIN m.field
  BY DEF UnitPlace
<1>6. /\ u = UnitOf(m[l]["unit"])
      /\ new = GetUnitPrefixFactor(u, prefix)
      /\ v = Converted(m.field.value, new.conv)
  OBVIOUS
<1>7. IsMessage(m)
  BY <1>2, ShapeOf
<1> HIDE DEF l, u, new, refused, v, scaled, n
<1>8. ASSUME ~refused, InStep(m) PROVE InStep(n)
  <2> HIDE DEF m
  <2>1. l \in {"meta", "tag"} /\ "unit" \in DOMAIN m[l]
    BY <1>5, <1>8 DEF UnitPlace
  <2>2. InStep(WithUnit(With(m, "field", "value", v), l, new.unit))
    BY <1>5, <1>6, <1>7, <1>8, <2>1, PrefixInStep
  <2> QED BY <1>4, <2>2
<1> QED BY <1>1, <1>2, <1>8 DEF Kept, n

LEMMA ParamsKept ==
  ASSUME NEW m \in Message, NEW env \in GetParamMap(m)
  PROVE  Kept(Start(m, env))
BY ParamsMirror DEF Kept, UnitsAreReadable, Start

(* What the rules of all other stages than those by name do.               *)
LEMMA EffectKept ==
  ASSUME NEW s, Kept(s), NEW r, r.stage \notin ByName, IsAsked(r)
  PROVE  Kept(Effect(r, s))
<1> DEFINE add == AddTo[r.stage]
           from == MoveFromTo[r.stage][1]
           to == MoveFromTo[r.stage][2]
<1>0. /\ DOMAIN AddTo = {"add_tag", "add_meta", "add_field"}
      /\ DOMAIN DeleteFrom = {"delete_tag", "delete_meta", "delete_field"}
      /\ DOMAIN MoveFromTo =
           {"move_tag_to_meta", "move_tag_to_fields", "move_meta_to_tags",
            "move_meta_to_fields", "move_field_to_tags", "move_field_to_meta"}
  BY DEF AddTo, DeleteFrom, MoveFromTo
<1>1. CASE r.stage = "drop_if"
  <2>1. Effect(r, s) = Ends(s, "dropped")
    BY <1>0, <1>1 DEF Effect
  <2> QED BY <2>1, EndsKept
<1>2. CASE r.stage = "rename_if"
  <2>1. Effect(r, s) = Rename(s, r.value)
    BY <1>0, <1>2 DEF Effect
  <2> QED BY <2>1, RenameKept
<1>3. CASE r.stage = "change_unit_prefix"
  <2>1. Effect(r, s) = ChangeUnitPrefix(s, r.value)
    BY <1>0, <1>3 DEF Effect
  <2>2. r.value \in PrefixesAsked
    BY <1>3 DEF IsAsked, PrefixesAsked
  <2> QED BY <2>1, <2>2, ChangePrefixKept
<1>4. CASE r.stage \in DOMAIN AddTo
  <2>1. Effect(r, s) = Put(s, add, r.key, <<"text", r.value>>)
    BY <1>0, <1>4 DEF Effect
  <2>2. add \in Places
    BY <1>4 DEF AddTo, Places
  <2>3. <<"text", r.value>>[1] # "unit" /\ <<"text", r.value>>[1] # "number"
    OBVIOUS
  <2> HIDE DEF add
  <2> QED BY <2>1, <2>2, <2>3, PutKept
<1>5. CASE r.stage \in DOMAIN DeleteFrom
  <2> DEFINE loc == DeleteFrom[r.stage]
  <2>1. Effect(r, s) = DeleteIf(s, loc, r.key)
    BY <1>0, <1>5 DEF Effect
  <2>2. loc \in Places
    BY <1>5 DEF DeleteFrom, Places
  <2> HIDE DEF loc
  <2> QED BY <2>1, <2>2, EndsKept, WithoutKept DEF DeleteIf
<1>6. CASE r.stage \in DOMAIN MoveFromTo
  <2>1. Effect(r, s) = MoveInMessage(s, from, to, r.key, r.value)
    BY <1>0, <1>6 DEF Effect
  <2>2. from \in Places /\ to \in Places
    BY <1>6 DEF MoveFromTo, Places
  <2> HIDE DEF from, to
  <2> QED BY <2>1, <2>2, MoveKept
<1>7. PICK q \in Rule : r.stage = q.stage
  BY AskedAreRules DEF IsAsked
<1> QED BY <1>0, <1>1, <1>2, <1>3, <1>4, <1>5, <1>6, <1>7 DEF Rule, ByName

LEMMA ApplyKept ==
  ASSUME NEW s, Kept(s), NEW r, r.stage \notin ByName, IsAsked(r)
  PROVE  Kept(Apply(s, r))
BY EffectKept, EndsKept DEF Apply

(* The rules of a stage one after the other, in any order.                 *)
ApplyNth(order, s, i) == Apply(s, order[i])
KeptSoFar(order, T, s) == Kept(s)
InOrder == INSTANCE Folding WITH Op <- ApplyNth, Choose <- Max, Keeps <- KeptSoFar

LEMMA OrderKept ==
  ASSUME NEW mp, Sound(mp), NEW R \in SUBSET mp.rules, NEW order \in SetToSeqs(R),
         NEW s, Kept(s)
  PROVE  Kept(FoldLeft(Apply, s, order))
<1> DEFINE n == Cardinality(R)
           D == DOMAIN order
<1>1. IsFiniteSet(R)
  <2>1. IsFiniteSet(mp.rules)
    BY DEF Sound
  <2> QED BY ONLY <2>1, FS_Subset, R \in SUBSET mp.rules
<1>2. n \in Nat
  BY <1>1, FS_CardinalityType
<1>3. order \in [1..n -> R] /\ D = 1..n
  BY DEF SetToSeqs
<1> HIDE DEF n
<1>4. \A i \in 1..n : order[i].stage \notin ByName /\ IsAsked(order[i])
  <2>1. \A i \in 1..n : order[i] \in mp.rules
    BY <1>3
  <2> QED BY <2>1 DEF Sound
<1>5. \A T \in SUBSET (1..n) : T # {} => Max(T) \in T
  BY <1>2, LastIsElement
<1>6. \A T \in SUBSET (1..n) : \A a :
        T # {} /\ KeptSoFar(order, T \ {Max(T)}, a)
          => KeptSoFar(order, T, ApplyNth(order, a, Max(T)))
  <2> SUFFICES ASSUME NEW T \in SUBSET (1..n), NEW a, T # {}, Kept(a)
               PROVE  Kept(Apply(a, order[Max(T)]))
    BY DEF KeptSoFar, ApplyNth
  <2>1. Max(T) \in 1..n
    BY <1>5
  <2> QED BY <1>4, <2>1, ApplyKept
<1>7. KeptSoFar(order, {}, s)
  BY DEF KeptSoFar
<1>8. KeptSoFar(order, 1..n, InOrder!Folded(order, s, 1..n))
  BY ONLY <1>2, <1>5, <1>6, <1>7, InOrder!FoldOverPlaces
<1>9. FoldLeft(Apply, s, order) = InOrder!Folded(order, s, D)
  BY Zenon DEF ApplyNth, InOrder!Folded, FoldLeft, MapThenFoldSet, InOrder!MapThenFoldSet
<1> QED BY <1>3, <1>8, <1>9 DEF KeptSoFar

(* Every stage, and all stages of a message.                               *)
LEMMA StageKept ==
  ASSUME NEW mp, Sound(mp), NEW stage, NEW s, Kept(s), NEW t \in Stage(mp, stage, s)
  PROVE  Kept(t)
<1> DEFINE R == {r \in mp.rules : r.stage = stage}
           new == (CHOOSE r \in Named(mp, stage, s.env.name) : TRUE).value
<1>1. \/ t \in {s, Ends(s, "dropped"), Rename(s, new), NormalizeUnits(s)}
      \/ \E order \in SetToSeqs(R) : t = FoldLeft(Apply, s, order)
  <2> DEFINE orders == {FoldLeft(Apply, s, order) : order \in SetToSeqs(R)}
  <2>1. Stage(mp, stage, s) \in
          {{s}, {Ends(s, "dropped")}, {Rename(s, new)}, {NormalizeUnits(s)}, orders}
    BY DEF Stage
  <2>2. t \in orders => \E order \in SetToSeqs(R) : t = FoldLeft(Apply, s, order)
    OBVIOUS
  <2> HIDE DEF orders, new
  <2> QED BY <2>1, <2>2
<1>2. R \in SUBSET mp.rules
  OBVIOUS
<1>3. \A order \in SetToSeqs(R) : Kept(FoldLeft(Apply, s, order))
  <2> HIDE DEF R
  <2> QED BY <1>2, OrderKept
<1>4. /\ Kept(Ends(s, "dropped"))
      /\ Kept(Rename(s, new))
      /\ Kept(NormalizeUnits(s))
  <2> HIDE DEF new
  <2> QED BY EndsKept, RenameKept, NormalizeKept
<1> HIDE DEF R, new
<1> QED BY <1>1, <1>3, <1>4

NthStage(mp, S, i) == UNION {Stage(mp, mp.stages[i], s) : s \in S}
AllKept(mp, T, S) == \A s \in S : Kept(s)
InStages == INSTANCE Folding WITH Op <- NthStage, Choose <- Max, Keeps <- AllKept

LEMMA ProcessKept ==
  ASSUME NEW mp, Sound(mp), NEW m \in Message
  PROVE  \A s \in Process(mp, m) : Kept(s)
<1> DEFINE D == DOMAIN mp.stages
           start == {Start(m, env) : env \in GetParamMap(m)}
<1>1. PICK n \in Nat : D = 1..n
  BY DEF Sound, IsList
<1>2. \A T \in SUBSET D : T # {} => Max(T) \in T
  BY <1>1, LastIsElement
<1>3. AllKept(mp, {}, start)
  BY ParamsKept DEF AllKept
<1>4. \A T \in SUBSET D : \A a :
        T # {} /\ AllKept(mp, T \ {Max(T)}, a)
          => AllKept(mp, T, NthStage(mp, a, Max(T)))
  <2> SUFFICES ASSUME NEW T \in SUBSET D, NEW a, \A s \in a : Kept(s),
                      NEW t \in NthStage(mp, a, Max(T))
               PROVE  Kept(t)
    BY DEF AllKept
  <2>1. PICK s \in a : t \in Stage(mp, mp.stages[Max(T)], s)
    BY DEF NthStage
  <2> QED BY <2>1, StageKept
<1>5. AllKept(mp, D, InStages!Folded(mp, start, D))
  <2> HIDE DEF D, start
  <2> QED BY ONLY <1>1, <1>2, <1>3, <1>4, InStages!FoldOverPlaces
<1>6. Process(mp, m) = InStages!Folded(mp, start, D)
  BY Zenon DEF Process, Start, NthStage, InStages!Folded, FoldLeft, MapThenFoldSet,
               InStages!MapThenFoldSet
<1> QED BY <1>5, <1>6 DEF AllKept

(* A call under way is one for a message; its result mirrors it.           *)
ResultsInv ==
  /\ st.called = <<>> \/ \E m \in Message : st.called = <<m>>
  /\ \A s \in st.out : Kept(s)

LEMMA ResultsInvHolds == Spec => []ResultsInv
<1>1. MessageProcessorInit => ResultsInv
  BY DEF MessageProcessorInit, ResultsInv
<1>2. RulesInv /\ ResultsInv /\ [NextProcessor]_st => ResultsInv'
  <2> SUFFICES ASSUME RulesInv, ResultsInv, [NextProcessor]_st PROVE ResultsInv'
    OBVIOUS
  <2>1. Sound(st) /\ HasFields(st)
    BY DEF RulesInv, Sound
  <2>2. CASE SameCall(st', st)
    BY <2>2 DEF SameCall, ResultsInv
  <2>3. CASE AddRule
    <3>1. PICK r \in Request : st' = [Add(st, r) EXCEPT !.removed = <<>>]
      BY <2>3 DEF AddRule
    <3> QED BY <2>1, <2>2, <3>1, AddIsSound, AskedAreRules DEF SameCall
  <2>4. CASE RemoveRuleCall
    <3>1. PICK r \in Request :
            st' = [RemoveRule(st, r) EXCEPT !.removed = <<r.stage, r.cond>>]
      BY <2>4 DEF RemoveRuleCall
    <3> QED BY <2>1, <2>2, <3>1, RemoveIsSound DEF SameCall
  <2>5. CASE SetStagesCall \/ SetNormalizeUnits \/ UNCHANGED st
    <3>1. SameCall(st', st)
      BY <2>1, <2>5 DEF SetStagesCall, SetNormalizeUnits, SetStages, SameCall, HasFields
    <3> QED BY <2>2, <3>1
  <2>6. CASE ReadConfig
    <3>1. PICK c \in ConfigFile : st' = [FromConfigJSON(st, c) EXCEPT !.removed = <<>>]
      BY <2>6 DEF ReadConfig
    <3> QED BY <2>1, <2>2, <3>1, ConfigIsSound DEF SameCall
  <2>7. CASE CallProcessMessage
    <3>1. PICK m \in Message :
            st' = [st EXCEPT !.stages = IF @ = <<>> THEN StageNames ELSE @,
                             !.called = <<m>>, !.out = {}]
      BY <2>7 DEF CallProcessMessage
    <3>2. st'.called = <<m>> /\ st'.out = {}
      BY <2>1, <3>1 DEF HasFields
    <3> QED BY <3>2 DEF ResultsInv
  <2>8. CASE ProcessMessage
    <3>1. PICK s \in Process(st, st.called[1]) :
            st' = [st EXCEPT !.called = <<>>, !.out = {s}]
      BY <2>8 DEF ProcessMessage
    <3>2. PICK m \in Message : st.called = <<m>>
      BY <2>8 DEF ProcessMessage, ResultsInv
    <3>3. st.called[1] = m
      BY <3>2
    <3>4. Kept(s)
      BY <2>1, <3>3, ProcessKept
    <3>5. st'.called = <<>> /\ st'.out = {s}
      BY <2>1, <3>1 DEF HasFields
    <3> QED BY <3>4, <3>5 DEF ResultsInv
  <2> QED BY <2>3, <2>4, <2>5, <2>6, <2>7, <2>8 DEF NextProcessor
<1> QED BY <1>1, <1>2, RulesInvHolds, PTL DEF Spec

(* Through every stage, in every order of the rules, and for every         *)
(* message, later conditions see what the earlier rules did, but a type-id *)
(* that a rule has written, a unit whose prefix has been changed, and the  *)
(* type, which stays that of the message as it was given.                  *)
THEOREM ConditionsSeeTheMessage == Spec => []EnvMirrorsMessage
<1>1. ResultsInv => EnvMirrorsMessage
  <2> SUFFICES ASSUME ResultsInv, NEW s \in st.out
               PROVE  /\ s.env.name = s.msg.name
                      /\ s.env.field = s.msg.field
                      /\ s.env.type \in {TypeOfKey(k) : k \in DOMAIN s.given.field}
                      /\ \A loc \in {"tag", "meta"} :
                           Restrict(s.env[loc], DOMAIN s.env[loc] \ Hidden(s.stale))
                             = Restrict(s.msg[loc], DOMAIN s.msg[loc] \ Hidden(s.stale))
    BY Zenon DEF EnvMirrorsMessage, Hidden
  <2>1. Mirrors(s)
    BY DEF ResultsInv, Kept
  <2>2. \A loc \in {"tag", "meta"} : Alike(s.stale, s.env[loc], s.msg[loc])
    BY <2>1 DEF Mirrors
  <2> QED BY <2>1, <2>2, AlikeAreSeen DEF Mirrors
<1> QED BY <1>1, ResultsInvHolds, PTL

(* For messages of one unit that is read back, the value of every metric   *)
(* that comes out is scaled to the prefix of its unit.                     *)
THEOREM ValueFollowsUnit ==
  ASSUME UnitsAreReadable PROVE Spec => []ValueMatchesUnit
<1>1. ResultsInv => ValueMatchesUnit
  <2> SUFFICES ASSUME ResultsInv, NEW s \in st.out, IsMetric(s.msg),
                      NEW l \in UnitPlace(s.msg), Valid(UnitOf(s.msg[l]["unit"]))
               PROVE  s.msg.field.value[2] = UnitOf(s.msg[l]["unit"]).prefix
    BY DEF ValueMatchesUnit
  <2>1. InStep(s.msg)
    BY DEF ResultsInv, Kept
  <2>2. l \in Places /\ "unit" \in DOMAIN s.msg[l] /\ s.msg[l]["unit"][1] = "unit"
    BY DEF UnitPlace, Places, UnitOf, Valid, InvalidUnit
  <2>3. ScaledTo(s.msg, UnitOf(s.msg[l]["unit"]))
    BY <2>1, <2>2, InStepIs DEF UnitAt
  <2> QED BY <2>3 DEF ScaledTo
<1> QED BY <1>1, ResultsInvHolds, PTL
=============================================================================
