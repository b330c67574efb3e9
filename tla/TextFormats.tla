---------------------------- MODULE TextFormats ----------------------------
(***************************************************************************)
(* Text output: the JSON and XML writers, driven call by call, and the     *)
(* encodings of bytes as text (base64, hex, percent encoding of URLs, XML  *)
(* escapes).                                                               *)
(*                                                                         *)
(* The writers' output is a sequence of tokens; a linefeed and its         *)
(* indentation are one token <<"line", spaces>>.  The encodings work on    *)
(* character codes.                                                        *)
(***************************************************************************)
EXTENDS Integers, Sequences, FiniteSets, SequencesExt

CONSTANTS MaxWrites,   \* bound on calls of a writer
          MaxDepth,    \* bound on open elements
          Characters,  \* codes of the text that is encoded, none of them 0
          MaxText      \* bound on its length

VARIABLES x_format,    \* "json" or "xml"
          x_compressed,
          x_contexts,  \* m_contexts
          x_indent,    \* m_current_indentation
          x_out,
          x_calls,
          x_text, x_encoded

textVars == <<x_format, x_compressed, x_contexts, x_indent, x_out, x_calls, x_text, x_encoded>>
callerVars == <<x_format, x_compressed, x_text, x_encoded>>

Names == {"a", "b"}

-----------------------------------------------------------------------------
(* The writers.                                                            *)

IndentationUnit == 2

\* [text/structured_text_writer.hpp 188-211 structured_text_writer::write_indentation]
Line(indent) == IF x_compressed THEN <<>> ELSE <<<<"line", indent>>>>

Mark(t)  == <<t, "">>
Name(n)  == <<"name", n>>
Open(n)  == <<"open", n>>
Close(n) == <<"close", n>>

\* [text/structured_text_writer.hpp 138-141 structured_text_writer::get_context]
Within(type) == x_contexts # <<>> /\ Last(x_contexts).type = type

\* The context of the item that is started has had an item now.
Used == IF x_contexts = <<>> THEN <<>>
        ELSE [x_contexts EXCEPT ![Len(x_contexts)].is_first_item = FALSE]
Comma == IF x_contexts # <<>> /\ ~Last(x_contexts).is_first_item THEN <<Mark(",")>> ELSE <<>>

\* [text/json_writer.hpp 18-39 json_writer::start_scalar]
json_scalar(name, value) ==
  /\ x_out' = x_out \o Comma \o Line(x_indent)
              \o (IF Within("array") THEN <<>> ELSE <<Name(name)>>) \o <<value>>
  /\ x_contexts' = Used
  /\ x_indent' = x_indent

\* [text/xml_writer.hpp 22-31 xml_writer::start_scalar]
xml_scalar(name, value) ==
  /\ x_out' = x_out \o Line(x_indent) \o <<Open(name), value, Close(name)>>
  /\ UNCHANGED <<x_contexts, x_indent>>

\* [text/json_writer.hpp 41-78 json_writer::write_element_start]
\* The outermost element has an object around it, of which it is the only entry.
json_element_start(name, type) ==
  LET outermost == x_contexts = <<>>
      indent    == IF outermost THEN x_indent + IndentationUnit ELSE x_indent
  IN  /\ x_out' = x_out \o (IF outermost THEN <<Mark("{")>> ELSE Comma) \o Line(indent)
                  \o (IF Within("array") THEN <<>> ELSE <<Name(name)>>)
                  \o (IF type = "object" THEN <<Mark("{")>> ELSE <<Mark("[")>>)
      /\ x_indent' = indent + IndentationUnit
      /\ x_contexts' = Append(Used, [name |-> name, type |-> type, is_first_item |-> TRUE])

\* [text/json_writer.hpp 79-103 json_writer::write_element_end]
json_element_end ==
  LET inner == x_indent - IndentationUnit
      end   == IF Within("object") THEN <<Mark("}")>> ELSE <<Mark("]")>>
      last  == Len(x_contexts) = 1
      outer == inner - IndentationUnit
  IN  /\ x_out' = x_out \o Line(inner) \o end
                  \o (IF last THEN (IF x_compressed THEN <<>> ELSE <<<<"line", 0>>>>) \o <<Mark("}")>> ELSE <<>>)
      /\ x_indent' = IF last THEN outer ELSE inner
      /\ x_contexts' = Front(x_contexts)

\* [text/xml_writer.hpp 32-58 xml_writer::write_element_start]
xml_element_start(name, type) ==
  /\ x_out' = x_out \o (IF x_contexts = <<>> THEN <<Mark("declaration")>> ELSE Line(x_indent)) \o <<Open(name)>>
  /\ x_indent' = x_indent + IndentationUnit
  /\ x_contexts' = Append(x_contexts, [name |-> name, type |-> type, is_first_item |-> TRUE])

\* [text/xml_writer.hpp 59-71 xml_writer::write_element_end]
xml_element_end ==
  /\ x_out' = x_out \o Line(x_indent - IndentationUnit) \o <<Close(Last(x_contexts).name)>>
  /\ x_indent' = x_indent - IndentationUnit
  /\ x_contexts' = Front(x_contexts)

Call == x_text = <<>> /\ x_calls < MaxWrites /\ x_calls' = x_calls + 1

\* [io/structured_writer.hpp 45-180 structured_writer::write]
\* A scalar of any type, inside an element.
write(name) ==
  /\ Call /\ x_contexts # <<>>
  /\ IF x_format = "json" THEN json_scalar(name, Mark("value")) ELSE xml_scalar(name, Mark("value"))
  /\ UNCHANGED callerVars

\* [text/structured_text_writer.hpp 143-171 structured_text_writer::start_dict]
\* One outermost element for a writer.
start(name, type) ==
  /\ Call /\ Len(x_contexts) < MaxDepth
  /\ x_contexts = <<>> => x_out = <<>>
  /\ IF x_format = "json" THEN json_element_start(name, type) ELSE xml_element_start(name, type)
  /\ UNCHANGED callerVars

\* [text/structured_text_writer.hpp 152-182 structured_text_writer::end_dict]
\* The call for the innermost element.
end_element ==
  /\ Call /\ x_contexts # <<>>
  /\ IF x_format = "json" THEN json_element_end ELSE xml_element_end
  /\ UNCHANGED callerVars

-----------------------------------------------------------------------------
(* The encodings.  A six-bit digit of base64 stands for its letter, Pad for *)
(* the padding.                                                            *)

Pad == 64

\* [text/base64_encoding.hpp 134-187 base64_encoding::do_encode]
do_encode(src) ==
  LET at(i)    == IF i <= Len(src) THEN src[i] ELSE 0
      group(g) == LET c1 == at(3 * g - 2)
                      c2 == at(3 * g - 1)
                      c3 == at(3 * g)
                      left == Len(src) - 3 * (g - 1)
                  IN  <<c1 \div 4, (c1 % 4) * 16 + c2 \div 16,
                        IF left < 2 THEN Pad ELSE (c2 % 16) * 4 + c3 \div 64,
                        IF left < 3 THEN Pad ELSE c3 % 64>>
  IN  FlattenSeq([g \in 1 .. (Len(src) + 2) \div 3 |-> group(g)])

\* [text/base64_encoding.hpp 189-225 base64_encoding::do_decode]
do_decode(src) ==
  LET group(g) == LET d(i) == src[4 * (g - 1) + i] % 64
                      pads == IF src[4 * g - 1] = Pad THEN 2 ELSE IF src[4 * g] = Pad THEN 1 ELSE 0
                  IN  SubSeq(<<d(1) * 4 + d(2) \div 16, (d(2) % 16) * 16 + d(3) \div 4,
                               (d(3) % 4) * 64 + d(4)>>, 1, 3 - pads)
  IN  FlattenSeq([g \in 1 .. Len(src) \div 4 |-> group(g)])

\* [text/base64_encoding.hpp 228-244 base64_encoding::calc_enough_encoded_length]
calc_enough_encoded_length(length) ==
  LET len == 4 * ((length + 2) \div 3) IN len + 2 * ((len + 71) \div 72)

\* [text/hex_encoding.hpp 18-43 hex_encoding::get_lower_hex_letters]
HexLetter(digit) == IF digit < 10 THEN 48 + digit ELSE 97 + digit - 10

\* [text/hex_encoding.hpp 142-152 hex_encoding::decode_hex_byte]
HexDigit(ch) == IF ch \in 48 .. 57 THEN ch - 48 ELSE IF ch \in 65 .. 90 THEN ch - 65 + 10 ELSE ch - 97 + 10

isxdigit(ch) == ch \in (48 .. 57) \cup (65 .. 70) \cup (97 .. 102)

\* [text/hex_encoding.hpp 45-80 hex_encoding::encode]
hex_encode(data) == FlattenSeq([i \in DOMAIN data |-> <<HexLetter(data[i] \div 16), HexLetter(data[i] % 16)>>])

\* [text/hex_encoding.hpp 82-140 hex_encoding::decode]
\* Refuses an odd number of letters and anything that is not a hex digit.
hex_decode(str) ==
  IF Len(str) % 2 # 0 \/ \E i \in DOMAIN str : ~isxdigit(str[i])
  THEN [ok |-> FALSE, bytes |-> <<>>]
  ELSE [ok |-> TRUE, bytes |-> [i \in 1 .. Len(str) \div 2 |->
                                  HexDigit(str[2 * i - 1]) * 16 + HexDigit(str[2 * i])]]

\* [net/url_encoding.hpp 26-42 url_encoding::encode]
Plain(ch) == ch \in (48 .. 57) \cup (65 .. 90) \cup (97 .. 122) \cup {45, 95, 46, 126, 44, 59}

\* [net/url_encoding.hpp 65-74 url_encoding::encode]
url_encode(str) ==
  FlattenSeq([i \in DOMAIN str |-> IF Plain(str[i]) THEN <<str[i]>>
                ELSE <<37, HexLetter(str[i] \div 16), HexLetter(str[i] % 16)>>])

\* [net/url_encoding.hpp 44-63 url_encoding::decode]
\* A % without two characters behind it is dropped.
url_decode(str) ==
  LET step(s, i) ==
        IF i < s.next THEN s
        ELSE CASE str[i] = 37 /\ i + 2 <= Len(str) ->
                    [next |-> i + 3,
                     out |-> Append(s.out, HexDigit(str[i + 1]) * 16 + HexDigit(str[i + 2]))]
               [] str[i] = 37 /\ i + 2 > Len(str) -> s
               [] str[i] = 43 -> [s EXCEPT !.out = Append(@, 32)]
               [] OTHER -> [s EXCEPT !.out = Append(@, str[i])]
  IN  FoldLeft(step, [next |-> 1, out |-> <<>>], [i \in DOMAIN str |-> i]).out

\* [text/xml_escape_sequence.hpp 44-63 xml_escape_sequence::escape_table]
\* < > & ' " and the codes of what stands for them between & and ;.
Escapes == [ch \in {60, 62, 38, 39, 34} |->
              CASE ch = 60 -> <<108, 116>> [] ch = 62 -> <<103, 116>> [] ch = 38 -> <<97, 109, 112>>
                [] ch = 39 -> <<97, 112, 111, 115>> [] ch = 34 -> <<113, 117, 111, 116>>]

\* [text/xml_escape_sequence.hpp 17-42 xml_escape_sequence::write]
xml_escape(val) ==
  FlattenSeq([i \in DOMAIN val |-> IF val[i] \in DOMAIN Escapes THEN <<38>> \o Escapes[val[i]] \o <<59>>
                                                               ELSE <<val[i]>>])

encode(text) ==
  /\ x_text' = text
  /\ x_encoded' = [base64 |-> do_encode(text), hex |-> hex_encode(text), url |-> url_encode(text),
                   xml |-> xml_escape(text)]
  /\ UNCHANGED <<x_format, x_compressed, x_contexts, x_indent, x_out, x_calls>>

-----------------------------------------------------------------------------
\* [text/structured_text_writer.hpp 56-68 structured_text_writer::structured_text_writer]
TextInit ==
  /\ x_format \in {"json", "xml"} /\ x_compressed \in BOOLEAN
  /\ x_contexts = <<>> /\ x_indent = 0 /\ x_out = <<>> /\ x_calls = 0
  /\ x_text = <<>> /\ x_encoded = <<>>

TextNext ==
  \/ \E name \in Names : write(name) \/ start(name, "object") \/ start(name, "array")
  \/ end_element
  \/ /\ x_calls = 0 /\ x_text = <<>>
     /\ \E n \in 1 .. MaxText : \E text \in [1 .. n -> Characters] : encode(text)

-----------------------------------------------------------------------------
(* What JSON and XML are, without the line breaks.                         *)

Tokens == SelectSeq(x_out, LAMBDA t : t[1] \notin {"line", "declaration"})

RECURSIVE JsonValue(_, _), JsonItems(_, _, _)

\* The position behind the value that starts at i, or 0.
JsonValue(s, i) ==
  IF i = 0 \/ i > Len(s) THEN 0
  ELSE CASE s[i][1] = "value" -> i + 1
         [] s[i][1] = "{" -> IF i < Len(s) /\ s[i + 1][1] = "}" THEN i + 2 ELSE JsonItems(s, i + 1, TRUE)
         [] s[i][1] = "[" -> IF i < Len(s) /\ s[i + 1][1] = "]" THEN i + 2 ELSE JsonItems(s, i + 1, FALSE)
         [] OTHER -> 0

JsonItems(s, i, named) ==
  LET isName == i <= Len(s) /\ s[i][1] = "name"
      next   == JsonValue(s, IF named THEN i + 1 ELSE i)
  IN  IF named # isName \/ next = 0 \/ next > Len(s) THEN 0
      ELSE CASE s[next][1] = "," -> JsonItems(s, next + 1, named)
             [] s[next][1] = (IF named THEN "}" ELSE "]") -> next + 1
             [] OTHER -> 0

\* What is open in a sequence of tags, or FALSE in bad once a tag closes another.
Nesting(s) ==
  FoldLeft(LAMBDA acc, t : CASE t[1] = "open" -> [acc EXCEPT !.open = Append(@, t[2])]
                             [] t[1] = "close" -> IF acc.open # <<>> /\ Last(acc.open) = t[2]
                                                  THEN [acc EXCEPT !.open = Front(@)]
                                                  ELSE [acc EXCEPT !.bad = TRUE],
           [open |-> <<>>, bad |-> FALSE], SelectSeq(s, LAMBDA t : t[1] # "value"))

\* Whatever has been written, closing what is open makes it one JSON value, with
\* names exactly in objects and commas exactly between items, or XML in which
\* each tag closes the one opened last; the indentation is that of the depth and
\* none at the end.
WellFormed ==
  x_out # <<>> =>
    IF x_format = "json"
    THEN LET closing == FlattenSeq([i \in 1 .. Len(x_contexts) |->
                           IF x_contexts[Len(x_contexts) + 1 - i].type = "object" THEN <<Mark("}")>> ELSE <<Mark("]")>>])
             whole   == Tokens \o (IF x_contexts = <<>> THEN <<>> ELSE Append(closing, Mark("}")))
         IN  /\ JsonValue(whole, 1) = Len(whole) + 1
             /\ x_indent = IF x_contexts = <<>> THEN 0 ELSE IndentationUnit * (Len(x_contexts) + 1)
    ELSE LET n == Nesting(Tokens)
         IN  /\ ~n.bad /\ n.open = [i \in DOMAIN x_contexts |-> x_contexts[i].name]
             /\ x_indent = IndentationUnit * Len(x_contexts)

RECURSIVE Unescaped(_)

\* What an XML reader makes of escaped text.
Unescaped(s) ==
  IF s = <<>> THEN <<>>
  ELSE IF Head(s) # 38 THEN <<Head(s)>> \o Unescaped(Tail(s))
  ELSE LET end == SelectInSeq(s, LAMBDA ch : ch = 59)
           ch  == CHOOSE c \in DOMAIN Escapes : Escapes[c] = SubSeq(s, 2, end - 1)
       IN  <<ch>> \o Unescaped(SubSeq(s, end + 1, Len(s)))

\* Every encoding decodes to the text it was made from, base64 fits the buffer
\* reserved for it, a URL value has none of the characters that delimit it, XML
\* text none of its markup, and a hex string that lost a letter is refused.
EncodingsReverse ==
  x_text # <<>> =>
    /\ do_decode(x_encoded.base64) = x_text
    /\ Len(x_encoded.base64) <= calc_enough_encoded_length(Len(x_text))
    /\ hex_decode(x_encoded.hex) = [ok |-> TRUE, bytes |-> x_text]
    /\ ~hex_decode(Front(x_encoded.hex)).ok
    /\ url_decode(x_encoded.url) = x_text
    /\ \A i \in DOMAIN x_encoded.url : x_encoded.url[i] \notin {32, 35, 38, 43, 61, 63}
    /\ Unescaped(x_encoded.xml) = x_text
    /\ \A i \in DOMAIN x_encoded.xml : x_encoded.xml[i] \notin {34, 39, 60, 62}
=============================================================================
