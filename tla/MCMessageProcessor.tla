------------------------- MODULE MCMessageProcessor -------------------------
(***************************************************************************)
(* A small instance of the message processor.                              *)
(***************************************************************************)
EXTENDS MessageProcessorProps

Always == <<"always">>
R(stage, cond, key, value) == [stage |-> stage, cond |-> cond, key |-> key, value |-> value]
KiloByte == <<"unit", [tokens |-> <<"K", "B">>, div |-> Invalid]>>
Mega == <<"unit", [tokens |-> <<"m", "B">>, div |-> Invalid]>>   \* normalized: MB

MCRequest ==
  {R("move_tag_to_meta", Always, "unit", "unit"),
   R("move_field_to_tags", <<"has", "tag", "type-id">>, "value", "reading"),
   R("change_unit_prefix", Always, "", "G"),
   R("change_unit_prefix", <<"has", "meta", "unit">>, "", "K"),
   R("add_tag", Always, "type-id", "0"),
   R("add_meta", <<"named", "net">>, "source", "switch"),
   R("rename_if", <<"has", "meta", "source">>, "", "net"),
   R("rename", <<"">>, "mem", "memory"),
   R("drop_by_name", <<"">>, "memory", ""),
   R("delete_field", <<"typed", "metric">>, "value", ""),
   R("drop_if", <<"fails">>, "", "")}

MCMessage ==
  {[name |-> "mem", tag |-> [unit |-> Mega], meta |-> <<>>,
    field |-> [value |-> <<"number", "M">>]],
   [name |-> "net", tag |-> ("type-id" :> <<"text", "1">>),
    meta |-> [unit |-> KiloByte],
    field |-> [value |-> <<"number", "K">>, extra |-> <<"text", "x">>]]}

MCStageLists ==
  {<<>>, <<"change_unit_prefix", "normalize_unit", "change_unit_prefix">>,
   <<"rename", "drop_by_name", "no such stage">>}

MCConfigFile ==
  {[stages |-> <<>>, normalize |-> TRUE,
    rules |-> <<R("drop_by_name", <<"">>, "memory", ""),
                R("drop_by_type", <<"">>, "log", ""),
                R("change_unit_prefix", Always, "", "M"),
                R("delete_meta", Always, "oldname", ""),
                R("drop_by_type", <<"">>, "query", "")>>],
   [stages |-> <<"rename", "drop_by_name", "add_field", "move_meta_to_fields">>,
    normalize |-> FALSE,
    rules |-> <<R("rename", <<"">>, "mem", "memory"),
                R("add_field", Always, "extra", "y"),
                R("move_meta_to_fields", <<"has", "field", "extra">>, "unit", "unit")>>]}

ASSUME MCUnitsAreReadable == UnitsAreReadable
=============================================================================
