----------------------------- MODULE CcMessages -----------------------------
(***************************************************************************)
(* ccMessage: how messages are made, told apart, written and read back.    *)
(* A blank string is "".  A field has a Go type and a value, "nil" for a    *)
(* pointer to nothing; "big" is an integer above 2^53.  "control" is a     *)
(* text with control characters, "noUTF8" one of other bytes: the encoders *)
(* are libraries, of the line protocol one that refuses such texts, of     *)
(* JSON one that replaces bytes that are no UTF-8.                         *)
(***************************************************************************)
EXTENDS Component, Naturals, FiniteSets, TLC

Target ==   \* the type that convertField gives to a field
  [int8 |-> "int64", int32 |-> "int64", int64 |-> "int64", uint8 |-> "uint64",
   uint64 |-> "uint64", float32 |-> "float64", float64 |-> "float64",
   bytes |-> "string", string |-> "string", bool |-> "bool"]

NoTags == <<>>
NoMessage == [name |-> ""]
IsMessage(m) == m # NoMessage

(* convertField: nil pointers and other types give nil. *)
ConvertField(f) ==
  IF f.type \notin DOMAIN Target \/ f.value = "nil" THEN "nil"
  ELSE Target[f.type]

NotFiniteAsGiven(f) ==   \* mutant: looks at the value before it is converted
  f.type = "float64" /\ f.value = "NaN"
NotFinite(f) == Target[f.type] = "float64" /\ f.value = "NaN"

NewMessage(name, tags, meta, fields, time) ==
  LET kept == {k \in DOMAIN fields : ConvertField(fields[k]) # "nil"} IN
    IF \/ name = "" \/ time = "zero"
       \/ "" \in DOMAIN tags \cup DOMAIN meta \cup DOMAIN fields
       \/ kept = {} \/ \E k \in kept : NotFinite(fields[k])
    THEN NoMessage
    ELSE [name |-> name, tags |-> tags, meta |-> meta, time |-> time,
          fields |-> [k \in kept |-> [type |-> ConvertField(fields[k]),
                                      value |-> fields[k].value]]]

FieldKey ==
  [metric |-> "value", event |-> "event", log |-> "log", control |-> "control",
   query |-> "query"]
HasField(m, key) == key \in DOMAIN m.fields
HasStringField(m, key) == HasField(m, key) /\ m.fields[key].type = "string"

MessageType(m) ==
  IF HasField(m, "value") THEN "metric"
  ELSE IF HasField(m, "event") THEN "event"
  ELSE IF HasField(m, "log") THEN "log"
  ELSE IF HasField(m, "control") THEN "control"
  ELSE IF HasField(m, "query") THEN "query" ELSE "invalid"

IsMetric(m) == HasField(m, "value") /\ ~HasStringField(m, "value")
IsEvent(m) == HasStringField(m, "event")
IsControl(m) ==
  /\ HasStringField(m, "control")
  /\ "method" \in DOMAIN m.tags /\ m.tags["method"] \in {"GET", "PUT"}

NewControl(method, name, tags, meta, value, time) ==
  LET m == NewMessage(name, tags, meta,
                      [control |-> [type |-> "string", value |-> value]], time)
  IN IF m = NoMessage THEN m ELSE [m EXCEPT !.tags = Assign(@, "method", method)]

(* A job starts and stops with an event of its start time. *)
NewJobEvent(name, job) ==
  NewMessage(name, NoTags, NoTags, [event |-> [type |-> "string", value |-> job]], "start")
IsJobEvent(m) == IsEvent(m) /\ m.name \in {"start_job", "stop_job"}
GetJob(m) == IF IsEvent(m) THEN m.fields["event"].value ELSE "error"
-----------------------------------------------------------------------------
(* AddField takes a value as it is, neither converted nor checked. *)
AddField(m, key, f) == [m EXCEPT !.fields = Assign(@, key, f)]

(* Every key of metaAsTags counts for JSON, the true ones for the line     *)
(* protocol; what a meta key says replaces the tag of that name.           *)
MetaTags(m, keys) == [k \in keys \cap DOMAIN m.meta |-> m.meta[k]]

(* Numbers of JSON have one type, bytes become a text, nil is null. *)
Legible(text) == IF text = "noUTF8" THEN "replaced" ELSE text
Numbers == {"int8", "int32", "int64", "uint8", "uint64", "float32", "float64"}
AsJSON(f) ==
  IF f.value = "nil" THEN [type |-> "null", value |-> "nil"]
  ELSE IF f.type \in Numbers
  THEN [type |-> "float64", value |-> IF f.value = "big" THEN "rounded" ELSE f.value]
  ELSE IF f.type = "bytes" THEN [type |-> "string", value |-> "base64"]
  ELSE IF f.type = "string" THEN [type |-> "string", value |-> Legible(f.value)]
  ELSE f

Legibles(tags) == [k \in DOMAIN tags |-> Legible(tags[k])]
Jsons(fields) == [k \in DOMAIN fields |-> AsJSON(fields[k])]

(* json.Marshal fails on a float that is not a number. *)
HasNaN(m) ==
  \E k \in DOMAIN m.fields : /\ m.fields[k].type \in {"float32", "float64"}
                             /\ m.fields[k].value = "NaN"
JSONText(m, tags) ==
  IF HasNaN(m) THEN NoMessage
  ELSE [name |-> Legible(m.name), tags |-> Legibles(tags), time |-> m.time,
        fields |-> Jsons(m.fields)]

(* The text, and the message as the encoding leaves it. *)
ToJSON(m, metaAsTags) ==
  [text |-> JSONText(m, Over(MetaTags(m, DOMAIN metaAsTags), m.tags)), after |-> m]

FromJSON(j) == NewMessage(j.name, j.tags, NoTags, j.fields, j.time)

(* The method of json.Unmarshaler does not check what it reads. *)
UnmarshalJSON(j) ==
  [name |-> j.name, tags |-> j.tags, meta |-> NoTags, time |-> j.time, fields |-> j.fields]

ToPoint(m, metaAsTags) ==
  [name |-> m.name, fields |-> m.fields, time |-> m.time,
   tags |-> Over(MetaTags(m, {k \in DOMAIN metaAsTags : metaAsTags[k]}), m.tags)]

(* The encoder of the line protocol refuses texts, and values of all but a *)
(* few types; Bytes gives an error then.                                   *)
Unwritable == {"control", "noUTF8"}
IsLineValue(f) ==
  /\ f.type \in {"int64", "uint64", "float64", "bool", "string", "bytes"}
  /\ f.value # "nil"
  /\ f.value = "NaN" => f.type \in {"bool", "string", "bytes"}
  /\ f.value = "noUTF8" => f.type \notin {"string", "bytes"}
Lined(fields) ==
  [k \in DOMAIN fields |->
     [type |-> IF fields[k].type = "bytes" THEN "string" ELSE fields[k].type,
      value |-> fields[k].value]]

Bytes(m) ==
  IF \/ m.name \in Unwritable \/ \E k \in DOMAIN m.tags : m.tags[k] \in Unwritable
     \/ \E k \in DOMAIN m.fields : ~IsLineValue(m.fields[k])
  THEN NoMessage
  ELSE [name |-> m.name, tags |-> m.tags, fields |-> Lined(m.fields), time |-> m.time]
FromBytes(lines) ==
  LET read == [i \in DOMAIN lines |->
                 NewMessage(lines[i].name, lines[i].tags, NoTags, lines[i].fields,
                            lines[i].time)]
  IN IF \E i \in DOMAIN read : read[i] = NoMessage THEN <<NoMessage>> ELSE read
-----------------------------------------------------------------------------
FieldValue ==
  {[type |-> t, value |-> "1"] : t \in {"uint8", "bytes", "bool", "struct"}}
  \cup {[type |-> "float32", value |-> "NaN"], [type |-> "uint64", value |-> "big"],
        [type |-> "float64", value |-> "nil"], [type |-> "float64", value |-> "1"],
        [type |-> "string", value |-> "noUTF8"]}
Tagging ==   \* tags and meta data
  {<<NoTags, NoTags>>, <<[method |-> "GET"], [unit |-> "s"]>>,
   <<[method |-> "POST", unit |-> "B"], [unit |-> "noUTF8"]>>,
   <<[method |-> "control"], NoTags>>, <<"" :> "x", NoTags>>}
Added ==     \* by AddField, in an accepted message
  {<<>>, <<"value", [type |-> "float64", value |-> "NaN"]>>,
   <<"log", [type |-> "int8", value |-> "1"]>>, <<"event", [type |-> "bytes", value |-> "1"]>>}

MessageInit ==
  \E K \in {K \in SUBSET {"value", "event", "control", "log", "query", ""} :
              Cardinality(K) <= 2} :
  \E fields \in [K -> FieldValue], t \in Tagging, all \in BOOLEAN, added \in Added :
  \E n \in {<<"start_job", "now">>, <<"noUTF8", "now">>, <<"", "now">>, <<"start_job", "zero">>} :
    st = [kind |-> "message", name |-> n[1], tags |-> t[1], meta |-> t[2],
          fields |-> fields, time |-> n[2], metaAsTags |-> [unit |-> all], added |-> added]
-----------------------------------------------------------------------------
(* An accepted message is never too much for JSON, for the line protocol   *)
(* only because of a text that it refuses, and JSON reads it back as the   *)
(* same kind of message.                                                   *)
IsReadBack(m, metaAsTags) ==
  LET json == ToJSON(m, metaAsTags)
      plain == FromJSON(ToJSON(m, NoTags).text)
  IN /\ IsMessage(json.text)
     /\ (/\ m.name \notin Unwritable /\ \A k \in DOMAIN m.tags : m.tags[k] \notin Unwritable
         /\ \A k \in DOMAIN m.fields : m.fields[k].type = "string"
                                         => m.fields[k].value # "noUTF8")
          => IsMessage(Bytes(m))
     /\ IsMessage(plain) /\ MessageType(plain) = MessageType(m)
     /\ plain.tags = Legibles(m.tags) /\ UnmarshalJSON(ToJSON(m, NoTags).text) = plain
     /\ \A k \in DOMAIN m.fields :
          m.fields[k].value \notin {"big", "noUTF8"}
            => plain.fields[k].value = m.fields[k].value
     /\ \A k \in DOMAIN m.tags : ToPoint(m, metaAsTags).tags[k] # m.tags[k]
                                   => json.text.tags[k] = Legible(ToPoint(m, metaAsTags).tags[k])
     /\ IsMetric(m) => MessageType(m) = "metric" /\ IsMetric(plain)
     /\ MessageType(m) # "invalid" => HasField(m, FieldKey[MessageType(m)])
     /\ IsJobEvent(m) /\ GetJob(m) # "noUTF8" => GetJob(plain) = GetJob(m)

(* What is written as a line can be written as JSON as well and is read    *)
(* back but for the meta data, bytes as a text.                            *)
IsLineRead(m) ==
  IsMessage(Bytes(m)) =>
    /\ IsMessage(ToJSON(m, NoTags).text)
    /\ FromBytes(<<Bytes(m)>>) =
         <<[name |-> m.name, tags |-> m.tags, meta |-> NoTags, time |-> m.time,
            fields |-> Lined(m.fields)]>>

(* No encoding changes a message.  One that NewMessage accepted is always  *)
(* written as JSON, as a line unless it has a text that the line protocol  *)
(* refuses, and read back as the same kind of message with its name, time, *)
(* tags and fields; of its meta data remains what becomes tags, the same   *)
(* in JSON as in the line protocol.  If AddField puts in what NewMessage   *)
(* would have refused, both may fail; but no line is written that cannot   *)
(* be read (ccMessage.go; README: "Bytes conversion can fail", "JSON       *)
(* conversion can fail").                                                  *)
MessagesSurvive ==
  Is("message") =>
    LET m == NewMessage(st.name, st.tags, st.meta, st.fields, st.time)
        more == IF st.added = <<>> THEN m ELSE AddField(m, st.added[1], st.added[2])
        control == NewControl("PUT", st.name, st.tags, st.meta, "1", st.time)
    IN /\ IsMessage(m) => /\ IsReadBack(m, st.metaAsTags) /\ IsLineRead(more)
                          /\ ToJSON(more, st.metaAsTags).after = more
       /\ IsMessage(control) =>
            /\ IsControl(control) /\ MessageType(control) = "control"
            /\ IsLineRead(control)
       /\ GetJob(NewJobEvent("stop_job", "job")) = "job"
=============================================================================
