------------------------------ MODULE Options ------------------------------
(***************************************************************************)
(* The options tree (options_impl, dynamic_options_impl) with the typed    *)
(* items of data_parser behind it, set from configuration lines, and the   *)
(* command lines of program_options.                                       *)
(*                                                                         *)
(* A name is a sequence of its parts between dots.  A text is an element   *)
(* of Texts: [num |-> its leading digits as a number or NoNumber,          *)
(* rest |-> what follows them].                                            *)
(***************************************************************************)
EXTENDS Integers, Sequences, FiniteSets, SequencesExt

CONSTANTS Magnitude,     \* factor between two units (1000 or 1024)
          Width,         \* number of values of the option's integer type
          MaxSets,       \* bound on calls
          Args           \* arguments of a command line, sequences of characters

VARIABLES o_dynamic, o_items, o_nodes, o_last, o_torn, o_calls, o_line, o_args

optionsVars == <<o_dynamic, o_items, o_nodes, o_last, o_torn, o_calls, o_line, o_args>>

NoNumber == -1
Text(num, rest) == [num |-> num, rest |-> rest]
Texts == {Text(3, ""), Text(3, "K"), Text(2, "T"), Text(4, "?"),
          Text(NoNumber, "true"), Text(NoNumber, "off"), Text(1, ""), Text(NoNumber, "WARN")}

-----------------------------------------------------------------------------
(* The items: what do_parse makes of a text.  ok is what it returns, value *)
(* what it leaves in the option.                                           *)

\* [util/data_parser.hpp 174-188 string_item_parser::do_parse]
parse_string(text, old) == [ok |-> TRUE, value |-> text]

\* [util/data_parser.hpp 189-207 number_parser::do_parse]
parse_number(text, old) ==
  IF text.num # NoNumber /\ text.rest = "" THEN [ok |-> TRUE, value |-> text.num]
                                           ELSE [ok |-> FALSE, value |-> old]

\* [util/data_parser.hpp 242-254 numeric_units::calc_level_unit]
\* A product that wraps at the width of the type.
calc_level_unit(level) ==
  FoldLeft(LAMBDA val, i : (val * Magnitude) % Width, 1, [i \in 1 .. level |-> i])

\* [util/data_parser.hpp 269-289 binary_byte_count_units::binary_byte_count_units]
unit_level(name) == CASE name = "K" -> 1 [] name = "M" -> 2 [] name = "G" -> 3
                      [] name = "T" -> 4 [] name = "P" -> 5 [] OTHER -> 0

\* [util/data_parser.hpp 324-339 numeric_units_item_parser::do_parse]
\* The number is stored before the unit is looked up.
parse_unit(text, old) ==
  IF text.num = NoNumber THEN [ok |-> FALSE, value |-> old]
  ELSE IF text.rest = "" THEN [ok |-> TRUE, value |-> text.num]
  ELSE IF unit_level(text.rest) = 0 THEN [ok |-> FALSE, value |-> text.num]
  ELSE [ok |-> TRUE, value |-> (text.num * calc_level_unit(unit_level(text.rest))) % Width]

\* [util/data_parser.hpp 344-369 switch_parser::do_parse]
parse_switch(text, old) ==
  IF text \in {Text(NoNumber, "on"), Text(NoNumber, "true"), Text(NoNumber, "yes"), Text(1, "")}
  THEN [ok |-> TRUE, value |-> TRUE]
  ELSE IF text \in {Text(NoNumber, "off"), Text(NoNumber, "false"), Text(NoNumber, "no"), Text(0, "")}
  THEN [ok |-> TRUE, value |-> FALSE]
  ELSE [ok |-> FALSE, value |-> old]

\* [util/data_parser.hpp 370-395 bool_parser::do_parse]
parse_bool(text, old) ==
  IF text \in {Text(NoNumber, "true"), Text(NoNumber, "yes")} THEN [ok |-> TRUE, value |-> TRUE]
  ELSE IF text \in {Text(NoNumber, "false"), Text(NoNumber, "no")} THEN [ok |-> TRUE, value |-> FALSE]
  ELSE [ok |-> FALSE, value |-> old]

\* [data/enum.hpp 11-58 enum_metadata::try_parse]
\* Names of the metadata, here those of log_levels.
EnumNames == {"FATAL", "ERROR", "EVENT", "WARN", "INFO", "DEBUG"}

\* [util/data_parser.hpp 396-408 enum_parser::do_parse]
parse_enum(text, old) ==
  IF text.num = NoNumber /\ text.rest \in EnumNames THEN [ok |-> TRUE, value |-> text.rest]
                                                    ELSE [ok |-> FALSE, value |-> old]

do_parse(kind, text, old) ==
  CASE kind = "string" -> parse_string(text, old)
    [] kind = "number" -> parse_number(text, old)
    [] kind = "unit"   -> parse_unit(text, old)
    [] kind = "switch" -> parse_switch(text, old)
    [] kind = "bool"   -> parse_bool(text, old)
    [] kind = "enum"   -> parse_enum(text, old)

\* [util/data_parser.hpp 33-52 data_item_parser::parse]
\* A frozen option refuses; a parsed one is marked modified.
parse(item, text) ==
  LET r == do_parse(item.kind, text, item.value)
  IN  IF item.freezed THEN [ok |-> FALSE, item |-> item]
      ELSE [ok |-> r.ok,
            item |-> [item EXCEPT !.value = r.value, !.modified = @ \/ r.ok]]

\* [util/data_parser.hpp 135-149 data_item_parser_impl::reset]
\* Whether the option is frozen is not asked.
reset_item(item) == [item EXCEPT !.value = item.default, !.modified = FALSE]

\* [util/options_wrapper.hpp 108-112 options_wrapper::do_add]
do_add(kind, default) ==
  reset_item([kind |-> kind, default |-> default, value |-> default,
              freezed |-> FALSE, modified |-> FALSE])

-----------------------------------------------------------------------------
(* The tree.  A node is the sequence of names that leads to it.            *)

\* [util/detail/options_impl.hpp 31-50 options_impl::set]
\* An option that exists is parsed, an unknown one is an error.
set_item(name, text, item, nodes) ==
  LET r == parse(item, text)
  IN  /\ o_nodes' = o_nodes \cup nodes
      /\ o_items' = [n \in DOMAIN o_items \cup {name} |-> IF n = name THEN r.item ELSE o_items[n]]
      /\ o_last' = IF ~r.ok THEN o_last
                   ELSE [n \in DOMAIN o_last \cup {name} |-> IF n = name THEN r.item.value ELSE o_last[n]]
      /\ o_torn' = IF r.ok THEN o_torn \ {name}
                   ELSE IF item.value # r.item.value THEN o_torn \cup {name} ELSE o_torn

\* [util/detail/dynamic_options_impl.hpp 18-49 dynamic_options_impl::set]
\* In a dynamic tree an unknown option is added as a string, together with the
\* nodes that lead to it.
set(name, text) ==
  LET nodes == {SubSeq(name, 1, n) : n \in 1 .. Len(name) - 1}
  IN  IF name \in DOMAIN o_items /\ nodes \subseteq o_nodes
      THEN set_item(name, text, o_items[name], {})
      ELSE IF o_dynamic THEN set_item(name, text, do_add("string", Text(NoNumber, "")), nodes)
      ELSE UNCHANGED <<o_items, o_nodes, o_last, o_torn>>

\* [util/options_utils.hpp 48-71 options_utils::parse_conf]
\* One line of a configuration file: its name and value, or a comment.
parse_line(name, text) ==
  /\ o_calls < MaxSets
  /\ o_calls' = o_calls + 1
  /\ set(name, text)
  /\ UNCHANGED <<o_dynamic, o_line, o_args>>

\* [util/detail/options_impl.hpp 52-62 options_impl::reset]
reset ==
  /\ o_calls < MaxSets
  /\ o_calls' = o_calls + 1
  /\ o_items' = [n \in DOMAIN o_items |-> reset_item(o_items[n])]
  /\ o_last' = [n \in DOMAIN o_last |-> o_items[n].default]
  /\ o_torn' = {}
  /\ UNCHANGED <<o_dynamic, o_nodes, o_line, o_args>>

\* [util/detail/options_impl.hpp 128-138 options_impl::freeze]
\* Only an option of this node is found, never one named with dots.
freeze(name) ==
  /\ o_calls < MaxSets
  /\ o_calls' = o_calls + 1
  /\ o_items' = IF <<name>> \in DOMAIN o_items THEN [o_items EXCEPT ![<<name>>].freezed = TRUE]
                                               ELSE o_items
  /\ UNCHANGED <<o_dynamic, o_nodes, o_last, o_torn, o_line, o_args>>

\* [util/detail/options_impl.hpp 105-115 options_impl::mark_initialized]
mark_initialized ==
  /\ o_calls < MaxSets
  /\ o_calls' = o_calls + 1
  /\ o_items' = [n \in DOMAIN o_items |-> [o_items[n] EXCEPT !.modified = FALSE]]
  /\ UNCHANGED <<o_dynamic, o_nodes, o_last, o_torn, o_line, o_args>>

-----------------------------------------------------------------------------
(* Command lines.                                                          *)

\* [util/simple_program_options.hpp 97-113 simple_program_options::do_assemble]
do_assemble(args) ==
  FlattenSeq([i \in DOMAIN args |->
    IF \E c \in {" ", "tab"} : Contains(args[i], c)
    THEN <<"quote">> \o args[i] \o <<"quote", " ">>
    ELSE Append(args[i], " ")])

\* [util/program_options.hpp 18-57 program_options::split_command_line]
split_command_line(cmdline) ==
  LET push(s) == [s EXCEPT !.args = Append(@, s.token), !.token = <<>>]
      step(s, a) ==
        IF s.quoted
        THEN IF a = "quote" THEN [push(s) EXCEPT !.quoted = FALSE]
                            ELSE [s EXCEPT !.token = Append(@, a)]
        ELSE CASE a = "quote" -> [s EXCEPT !.quoted = TRUE]
               [] a \in {" ", "tab"} -> IF s.token = <<>> THEN s ELSE push(s)
               [] OTHER -> [s EXCEPT !.token = Append(@, a)]
      end == FoldLeft(step, [args |-> <<>>, token |-> <<>>, quoted |-> FALSE], cmdline)
  IN  IF end.token = <<>> THEN end.args ELSE push(end).args

\* [util/simple_program_options.hpp 91-95 simple_program_options::do_load]
load_command_line(args) ==
  /\ o_calls = 0
  /\ o_calls' = MaxSets
  /\ o_args' = args
  /\ o_line' = do_assemble(args)
  /\ UNCHANGED <<o_dynamic, o_items, o_nodes, o_last, o_torn>>

-----------------------------------------------------------------------------
\* The options of a program: one of each kind, some of them under a node.
Declared == [n \in {<<"name">>, <<"size">>, <<"on">>, <<"log", "flag">>, <<"log", "level">>, <<"log", "n">>} |->
               CASE n = <<"name">> -> do_add("string", Text(NoNumber, ""))
                 [] n = <<"size">> -> do_add("unit", 0)
                 [] n = <<"on">> -> do_add("switch", FALSE)
                 [] n = <<"log", "flag">> -> do_add("bool", FALSE)
                 [] n = <<"log", "level">> -> do_add("enum", "INFO")
                 [] n = <<"log", "n">> -> do_add("number", 0)]

\* [util/detail/options_impl.hpp 25-29 options_impl::options_impl]
OptionsInit ==
  /\ \/ o_dynamic = FALSE /\ o_items = Declared /\ o_nodes = {<<"log">>}
     \/ o_dynamic = TRUE /\ o_items = <<>> /\ o_nodes = {}
  /\ o_last = [n \in DOMAIN o_items |-> o_items[n].default]
  /\ o_torn = {} /\ o_calls = 0 /\ o_line = <<>> /\ o_args = <<>>

Names == DOMAIN Declared \cup {<<"log", "other">>, <<"other">>}

OptionsNext ==
  \/ \E name \in Names, text \in Texts : parse_line(name, text)
  \/ reset \/ mark_initialized
  \/ \E name \in {"size", "log"} : freeze(name)
  \/ \E args \in Args : load_command_line(args)

-----------------------------------------------------------------------------
\* The options hold what was last set successfully, or their default, whatever
\* was refused in between: an unknown name, a text that cannot be parsed, a
\* frozen option.  The exception is the number of a text with an unknown unit
\* (numeric_units_item_parser stores it and then fails).
HoldsLastSet ==
  /\ DOMAIN o_items = DOMAIN o_last
  /\ \A n \in DOMAIN o_items :
       \/ o_items[n].value = o_last[n]
       \/ o_items[n].kind = "unit" /\ n \in o_torn

\* The command line put together from arguments splits into the same arguments,
\* spaces in them included (no argument is empty or has a quotation mark).
CommandLineSplits == o_args # <<>> => split_command_line(o_line) = o_args
=============================================================================
