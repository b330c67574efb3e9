---------------------------- MODULE WireFormats ----------------------------
(***************************************************************************)
(* The binary formats above the data streams: AMF0 as C++ and as Lua write *)
(* and read it, the binary message format (bmf), the counted items of      *)
(* variant_writer and variant_reader, and Lua's struct.pack and unpack.    *)
(*                                                                         *)
(* A value is written, the bytes may be cut short on their way, and what   *)
(* arrives is read.  A byte is a number, of 0 .. 255 for the formats with  *)
(* tags and of 0 .. Radix - 1 for struct; a string is a sequence of bytes. *)
(* An AMF or bmf value is [type |-> its type, value |-> its value]; a dict is a   *)
(* sequence of <<key, value>>.                                             *)
(***************************************************************************)
EXTENDS Integers, Sequences, FiniteSets, SequencesExt

CONSTANTS Radix,       \* values of a byte of struct; 256 in the code
          LengthMax,   \* values of the length type of a counted item
          MaxCounted,  \* bound on elements of a counted item
          MaxFormat    \* bound on options of a struct format

VARIABLES w_format, w_value, w_bytes, w_whole, w_read

wireVars == <<w_format, w_value, w_bytes, w_whole, w_read>>

Num(v)  == [type |-> "number", value |-> v]
Str(v)  == [type |-> "string", value |-> v]
Bool(v) == [type |-> "bool", value |-> v]
List(v) == [type |-> "list", value |-> v]
Dict(v) == [type |-> "dict", value |-> v]
Nil     == [type |-> "nil", value |-> 0]

-----------------------------------------------------------------------------
(* The stream that is read: st.pos is the next byte, and a data_input_stream *)
(* that is not good fails everything from then on.                         *)

\* [io/data_input_stream.hpp 86-91 data_input_stream::is_available]
Available(data, st, n) == st.good /\ st.pos + n - 1 <= Len(data)

Take(data, st, n) == SubSeq(data, st.pos, st.pos + n - 1)
Skip(st, n) == [st EXCEPT !.pos = @ + n]
Bad(st) == [st EXCEPT !.good = FALSE]

-----------------------------------------------------------------------------
(* AMF0.                                                                   *)

\* [io/amf_types.hpp 7-106 amf0_types]
amf0 == [number |-> 0, boolean |-> 1, string |-> 2, object |-> 3, null |-> 5, undefined |-> 6,
         end_of_object |-> 9, array |-> 10]

\* A double is eight bytes in the code; here two, enough to be cut in half.
DoubleSize == 2
double(v)  == <<64, v>>

uint16(n) == <<n \div 256, n % 256>>

\* [io/amf_writer.hpp 94-98 amf0_writer::write_key]
write_key(key) == uint16(Len(key)) \o key

RECURSIVE write_element(_, _)

\* [lua/io/lua_amf_writer.hpp 155-209 lua_amf0_writer::write_dict]
\* A boolean or nil in a table is left out.
write_dict(items) ==
  <<amf0.object>> \o FlattenSeq([i \in DOMAIN items |-> write_element(items[i][1], items[i][2])])
  \o <<0, 0, amf0.end_of_object>>

\* [lua/io/lua_amf_writer.hpp 83-148 lua_amf0_writer::do_write_one]
do_write_one(val) ==
  CASE val.type = "string" -> <<amf0.string>> \o uint16(Len(val.value)) \o val.value
    [] val.type = "number" -> <<amf0.number>> \o double(val.value)
    [] val.type = "dict"   -> write_dict(val.value)
    [] val.type = "bool"   -> <<amf0.boolean, IF val.value THEN 1 ELSE 0>>
    [] val.type = "nil"    -> <<amf0.null>>

\* [io/amf_writer.hpp 40-92 amf0_writer::write_string_element]
write_element(key, val) ==
  IF val.type \in {"number", "string", "dict"} THEN write_key(key) \o do_write_one(val) ELSE <<>>

\* [lua/io/lua_amf_writer.hpp 73-81 lua_amf0_writer::write_multiple]
write_multiple(vals) == FlattenSeq([i \in DOMAIN vals |-> do_write_one(vals[i])])

\* [io/amf_reader.hpp 98-107 amf0_reader::try_read_string]
try_read_string(data, st) ==
  IF ~Available(data, st, 2) THEN [ok |-> FALSE, v |-> <<>>, st |-> Bad(st)]
  ELSE LET len == data[st.pos] * 256 + data[st.pos + 1]
           rest == Skip(st, 2)
       IN  IF Available(data, rest, len)
           THEN [ok |-> TRUE, v |-> Take(data, rest, len), st |-> Skip(rest, len)]
           ELSE [ok |-> FALSE, v |-> <<>>, st |-> Bad(rest)]

\* [io/amf_reader.hpp 71-97 amf0_reader::read_bool]
\* What read_byte(val) returns is assigned over the byte it stored: a boolean
\* that can be read reads as true.
read_scalar(tag, data, st) ==
  LET fail(s) == [ok |-> FALSE, v |-> Nil, st |-> s]
      s       == try_read_string(data, st)
  IN  CASE tag \in {amf0.null, amf0.undefined} -> [ok |-> TRUE, v |-> Nil, st |-> st]
        [] tag = amf0.boolean -> IF Available(data, st, 1)
                                 THEN [ok |-> TRUE, v |-> Bool(TRUE), st |-> Skip(st, 1)]
                                 ELSE fail(Bad(st))
        [] tag = amf0.number -> IF Available(data, st, DoubleSize)
                                THEN [ok |-> TRUE, v |-> Num(data[st.pos + 1]), st |-> Skip(st, DoubleSize)]
                                ELSE fail(Bad(st))
        [] tag = amf0.string -> IF s.ok THEN [ok |-> TRUE, v |-> Str(s.v), st |-> s.st] ELSE fail(s.st)
        [] OTHER -> fail(st)

Set(items, key, val) == Append(SelectSeq(items, LAMBDA item : item[1] # key), <<key, val>>)

RECURSIVE amf0_read(_, _), amf0_read_dict(_, _, _)

\* [io/amf_reader.hpp 124-141 amf0_reader::read_dict]
\* The end of the object is not known here: it reads as an entry with the key
\* "" and no value, and the loop runs to the end of the stream.
amf0_read_dict(data, st, items) ==
  LET key  == try_read_string(data, st)
      item == amf0_read(data, key.st)
  IN  IF ~Available(data, st, 1) THEN [v |-> items, st |-> st]
      ELSE IF ~key.ok THEN [v |-> items, st |-> key.st]
      ELSE amf0_read_dict(data, item.st, IF item.ok THEN Set(items, key.v, item.v) ELSE items)

\* [io/amf_reader.hpp 37-70 amf0_reader::read]
\* read_list has no end either and returns false at the end of the stream.
amf0_read(data, st) ==
  IF ~Available(data, st, 1) THEN [ok |-> FALSE, v |-> Nil, st |-> st]
  ELSE LET tag  == data[st.pos]
           rest == Skip(st, 1)
           dict == amf0_read_dict(data, rest, <<>>)
       IN  IF tag = amf0.object THEN [ok |-> TRUE, v |-> Dict(dict.v), st |-> dict.st]
           ELSE read_scalar(tag, data, rest)

RECURSIVE amf0_read_many(_, _)

\* [io/amf_reader.hpp 48-62 amf0_reader::read_many]
amf0_read_many(data, st) ==
  LET item == amf0_read(data, st)
  IN  IF item.ok THEN <<item.v>> \o amf0_read_many(data, item.st) ELSE <<>>

RECURSIVE lua_amf0_read(_, _), lua_read_dict(_, _, _)

\* [lua/io/lua_amf_reader.hpp 167-206 lua_amf0_reader::read_dict]
\* left is how many values a failed read has left on the Lua stack: the table
\* and, when an item fails, what that left, one popped.
lua_read_dict(data, st, items) ==
  LET key  == try_read_string(data, st)
      end  == key.v = <<>> /\ Available(data, key.st, 1) /\ data[key.st.pos] = amf0.end_of_object
      from == IF key.v = <<>> THEN Skip(key.st, 1) ELSE key.st
      item == lua_amf0_read(data, from)
  IN  IF ~Available(data, st, 1) \/ ~key.ok
      THEN [ok |-> FALSE, v |-> Nil, st |-> key.st, left |-> 1]
      ELSE IF end THEN [ok |-> TRUE, v |-> Dict(items), st |-> Skip(key.st, 1), left |-> 0]
      ELSE IF ~item.ok THEN [ok |-> FALSE, v |-> Nil, st |-> item.st, left |-> item.left + 1]
      ELSE lua_read_dict(data, item.st, IF item.v = Nil THEN items ELSE Set(items, key.v, item.v))

\* [lua/io/lua_amf_reader.hpp 69-166 lua_amf0_reader::read_item]
\* A list (no writer makes one) has no end: it fails with the first thing that
\* cannot be read and leaves its table at least.
lua_amf0_read(data, st) ==
  IF ~Available(data, st, 1) THEN [ok |-> FALSE, v |-> Nil, st |-> st, left |-> 0]
  ELSE LET tag  == data[st.pos]
           rest == Skip(st, 1)
           item == read_scalar(tag, data, rest)
       IN  CASE tag = amf0.object -> lua_read_dict(data, rest, <<>>)
             [] tag = amf0.array  -> [ok |-> FALSE, v |-> Nil, st |-> rest, left |-> 1]
             [] OTHER -> [ok |-> item.ok, v |-> item.v, st |-> item.st, left |-> 0]

RECURSIVE lua_read_many(_, _, _)

\* [lua/io/lua_amf_reader.hpp 42-67 lua_amf0_reader::read_many]
\* One value is popped after a failure: the table of the items is on top only if
\* the failed read left nothing.
lua_read_many(data, st, items) ==
  LET item == lua_amf0_read(data, st)
  IN  IF item.ok THEN lua_read_many(data, item.st, Append(items, item.v))
      ELSE [items |-> items, on_top |-> item.left = 0]

-----------------------------------------------------------------------------
(* bmf.  The integers of bmf_integer_encoding, here below 64, are one byte. *)

\* [io/bmf_format.hpp 18-31 bmf_format]
bmf == [integer |-> 1, string |-> 7, list |-> 10, dict |-> 13, end |-> 17]

RECURSIVE bmf_write(_)

\* [io/bmf_writer.hpp 30-94 bmf_writer]
bmf_write(val) ==
  CASE val.type = "number" -> <<bmf.integer, 128 + val.value>>
    [] val.type = "string" -> <<bmf.string, 128 + Len(val.value)>> \o val.value
    [] val.type = "list"   -> <<bmf.list>> \o FlattenSeq([i \in DOMAIN val.value |-> bmf_write(val.value[i])])
                           \o <<bmf.end>>
    [] val.type = "dict"   -> <<bmf.dict>>
                           \o FlattenSeq([i \in DOMAIN val.value |->
                                bmf_write(Str(val.value[i][1])) \o bmf_write(val.value[i][2])])
                           \o <<bmf.end>>

\* [io/bmf_integer_encoding.hpp 65-78 bmf_integer_encoding::decode]
\* A first byte from 64 up announces more of them.
bmf_decode(data, pos) ==
  LET following == Cardinality({flag \in {64, 96, 112, 120, 124, 125, 126, 127} : data[pos] % 128 >= flag})
  IN  IF pos > Len(data) \/ pos + following > Len(data)
      THEN [ok |-> FALSE, v |-> 0, pos |-> IF pos > Len(data) THEN pos ELSE pos + 1]
      ELSE [ok |-> TRUE, pos |-> pos + 1 + following,
            v |-> FoldLeft(LAMBDA n, b : n * 256 + b,
                           IF following = 0 THEN data[pos] % 128 ELSE data[pos] % 4,
                           SubSeq(data, pos + 1, pos + following))]

\* [io/bmf_reader.hpp 95-106 bmf_reader::try_read_string]
\* memory_input_stream takes nothing when it has too little: what there is of a
\* cut string is read again, as tags.
bmf_try_read_string(data, pos) ==
  LET len == bmf_decode(data, pos)
  IN  IF ~len.ok \/ len.pos + len.v - 1 > Len(data) THEN [ok |-> FALSE, v |-> <<>>, pos |-> len.pos]
      ELSE [ok |-> TRUE, v |-> SubSeq(data, len.pos, len.pos + len.v - 1), pos |-> len.pos + len.v]

RECURSIVE bmf_read(_, _), bmf_read_list(_, _, _), bmf_read_dict(_, _, _)

\* [io/bmf_reader.hpp 107-120 bmf_reader::read_list]
bmf_read_list(data, pos, items) ==
  LET item == bmf_read(data, pos)
  IN  IF pos > Len(data) THEN [v |-> Nil, pos |-> pos]
      ELSE IF data[pos] = bmf.end THEN [v |-> List(items), pos |-> pos + 1]
      ELSE bmf_read_list(data, item.pos, Append(items, item.v))

\* [io/bmf_reader.hpp 121-139 bmf_reader::read_dict]
bmf_read_dict(data, pos, items) ==
  LET key  == bmf_try_read_string(data, pos + 1)
      item == bmf_read(data, key.pos)
  IN  IF pos > Len(data) THEN [v |-> Nil, pos |-> pos]
      ELSE IF data[pos] = bmf.end THEN [v |-> Dict(items), pos |-> pos + 1]
      ELSE IF data[pos] # bmf.string THEN [v |-> Nil, pos |-> pos + 1]
      ELSE IF ~key.ok THEN [v |-> Nil, pos |-> key.pos]
      ELSE bmf_read_dict(data, item.pos, Append(items, <<key.v, item.v>>))

\* [io/bmf_reader.hpp 36-94 bmf_reader::read]
\* Nil stands for the empty boost::any.
bmf_read(data, pos) ==
  IF pos > Len(data) THEN [v |-> Nil, pos |-> pos]
  ELSE CASE data[pos] = bmf.integer -> LET n == bmf_decode(data, pos + 1)
                                       IN  [v |-> IF n.ok THEN Num(n.v) ELSE Nil, pos |-> n.pos]
         [] data[pos] = bmf.string  -> LET s == bmf_try_read_string(data, pos + 1)
                                       IN  [v |-> IF s.ok THEN Str(s.v) ELSE Nil, pos |-> s.pos]
         [] data[pos] = bmf.list    -> bmf_read_list(data, pos + 1, <<>>)
         [] data[pos] = bmf.dict    -> bmf_read_dict(data, pos + 1, <<>>)
         [] OTHER -> [v |-> Nil, pos |-> pos + 1]

-----------------------------------------------------------------------------
(* Counted items: a length of type LengthT, then the elements.             *)

\* [io/variant_writer.hpp 21-98 variant_string_writer]
\* The length is cast to LengthT; only an assert keeps it in range.
write_counted(items) == <<Len(items) % LengthMax>> \o items

\* [io/variant_reader.hpp 141-219 variant_string_reader]
\* More than max_count elements (0: no limit) make the stream bad.
read_counted(data, st, max_count) ==
  LET len  == data[st.pos]
      rest == Skip(st, 1)
  IN  IF ~Available(data, st, 1) THEN [v |-> <<>>, st |-> Bad(st)]
      ELSE IF \/ max_count > 0 /\ len > max_count
              \/ ~Available(data, rest, len)
      THEN [v |-> <<>>, st |-> Bad(rest)]
      ELSE [v |-> Take(data, rest, len), st |-> Skip(rest, len)]

\* [io/data_encoding.hpp 25-32 data_encoding::encode]
data_encode(args) == FlattenSeq([i \in DOMAIN args |-> write_counted(args[i])])

\* [io/data_encoding.hpp 33-62 data_encoding::decode]
\* All arguments are read, the stream tells at the end whether they could be.
data_decode(data, count, max_count) ==
  FoldLeft(LAMBDA acc, i : LET r == read_counted(data, acc.st, max_count)
                           IN  [args |-> Append(acc.args, r.v), st |-> r.st],
           [args |-> <<>>, st |-> [pos |-> 1, good |-> TRUE]], [i \in 1 .. count |-> i])

-----------------------------------------------------------------------------
(* struct.  An option is [opt |-> its letter, n |-> the number behind it]. *)

IntegerOptions == {"b", "B", "h", "H", "i", "I"}
Signed    == {"b", "h", "i"}
Control   == {">", "<", "!"}

\* [lua/util/lua_struct.hpp 308-327 lua_struct::optsize]
optsize(o) == CASE o.opt \in {"b", "B", "x"} -> 1
                [] o.opt \in {"h", "H"} -> 2
                [] o.opt \in {"i", "I", "c"} -> o.n
                [] OTHER -> 0

\* [lua/util/lua_struct.hpp 329-334 lua_struct::gettoalign]
\* (size - (len & (size - 1))) & (size - 1), for a size that is a power of 2.
gettoalign(len, h, o, size) ==
  LET unit == IF size > h.align THEN h.align ELSE size
  IN  IF size = 0 \/ o.opt = "c" THEN 0 ELSE (unit - (len % unit)) % unit

\* [lua/util/lua_struct.hpp 336-354 lua_struct::controloptions]
controloptions(h, o) == CASE o.opt = ">" -> [h EXCEPT !.little = FALSE]
                          [] o.opt = "<" -> [h EXCEPT !.little = TRUE]
                          [] o.opt = "!" -> [h EXCEPT !.align = o.n]
                          [] OTHER -> h

\* [lua/util/lua_struct.hpp 270-297 lua_struct::putinteger]
putinteger(n, h, size) ==
  LET bytes == [i \in 1 .. size |-> (n \div Radix ^ (i - 1)) % Radix]
  IN  IF h.little THEN bytes ELSE Reverse(bytes)

\* [lua/util/lua_struct.hpp 240-269 lua_struct::getinteger]
getinteger(buff, h, issigned) ==
  LET l == FoldRight(LAMBDA b, n : n * Radix + b, IF h.little THEN buff ELSE Reverse(buff), 0)
      range == Radix ^ Len(buff)
  IN  IF issigned /\ 2 * l >= range THEN l - range ELSE l

Zeros(n) == [i \in 1 .. n |-> 0]
Header == [little |-> TRUE, align |-> 1]

\* [lua/util/lua_struct.hpp 92-150 lua_struct::b_pack]
b_pack(fmt, args) ==
  LET step(s, o) ==
        LET size == optsize(o)
            buf  == s.buf \o Zeros(gettoalign(Len(s.buf), s.h, o, size))
            arg  == Head(s.args)
            used == IF size = 0 THEN Len(arg) ELSE size
        IN  CASE o.opt \in IntegerOptions -> [s EXCEPT !.buf = buf \o putinteger(arg, s.h, size), !.args = Tail(@)]
              [] o.opt = "x" -> [s EXCEPT !.buf = Append(buf, 0)]
              [] o.opt = "c" -> [s EXCEPT !.buf = buf \o SubSeq(arg, 1, used), !.args = Tail(@)]
              [] o.opt = "s" -> [s EXCEPT !.buf = Append(buf \o arg, 0), !.args = Tail(@)]
              [] OTHER -> [s EXCEPT !.h = controloptions(@, o)]
  IN  FoldLeft(step, [buf |-> <<>>, args |-> args, h |-> Header], fmt).buf

\* [lua/util/lua_struct.hpp 152-224 lua_struct::b_unpack]
\* pos counts from 0.  c0 takes its length from the value read before it.
b_unpack(fmt, data) ==
  LET bytes(pos, n) == SubSeq(data, pos + 1, pos + n)
      step(s, o) ==
        LET size == optsize(o)
            pos  == s.pos + gettoalign(s.pos, s.h, o, size)
            c0   == o.opt = "c" /\ size = 0
            len  == IF c0 THEN Last(s.out) ELSE size
            end  == SelectInSubSeq(data, pos + 1, Len(data), LAMBDA b : b = 0)
        IN  IF s.error \/ pos + size > Len(data) \/ (c0 /\ pos + len > Len(data))
               \/ (o.opt = "s" /\ end = 0)
            THEN [s EXCEPT !.error = TRUE]
            ELSE CASE o.opt \in IntegerOptions -> [s EXCEPT !.pos = pos + size,
                                 !.out = Append(@, getinteger(bytes(pos, size), s.h, o.opt \in Signed))]
                   [] o.opt = "x" -> [s EXCEPT !.pos = pos + 1]
                   [] o.opt = "c" -> [s EXCEPT !.pos = pos + len,
                                 !.out = Append(IF c0 THEN Front(@) ELSE @, bytes(pos, len))]
                   [] o.opt = "s" -> [s EXCEPT !.pos = end, !.out = Append(@, bytes(pos, end - 1 - pos))]
                   [] OTHER -> [s EXCEPT !.h = controloptions(@, o), !.pos = pos]
  IN  FoldLeft(step, [pos |-> 0, out |-> <<>>, h |-> Header, error |-> FALSE], fmt)

\* [lua/util/lua_struct.hpp 70-90 lua_struct::b_size]
b_size(fmt) ==
  FoldLeft(LAMBDA s, o : [pos |-> s.pos + gettoalign(s.pos, s.h, o, optsize(o)) + optsize(o),
                          h |-> IF o.opt \in Control THEN controloptions(s.h, o) ELSE s.h],
           [pos |-> 0, h |-> Header], fmt).pos

-----------------------------------------------------------------------------
(* What is written, over small sets of values.                             *)

AmfScalars == {Num(9), Str(<<>>), Str(<<0, 9>>), Bool(FALSE), Nil}
AmfKeys    == {<<97>>, <<0, 9>>}
AmfDicts(vals) == {Dict(<<>>)} \cup {Dict(<<<<k, v>>>>) : k \in AmfKeys, v \in vals}
AmfNested  == {Dict(<<<<<<97>>, v>>, <<<<0, 9>>, d>>>>) : v \in {Num(9), Nil}, d \in AmfDicts(AmfScalars)}
AmfValues  == AmfScalars \cup AmfDicts(AmfScalars) \cup AmfNested

BmfScalars == {Num(0), Num(17), Str(<<>>), Str(<<100, 10>>)}
BmfInner   == BmfScalars \cup {List(<<>>), List(<<Num(17), Str(<<10>>)>>), Dict(<<<<<<10>>, Num(7)>>>>)}
BmfValues  == BmfInner \cup {List(<<u, v>>) : u, v \in BmfInner}
              \cup {Dict(<<<<<<97>>, u>>, <<<<>>, v>>>>) : u, v \in BmfInner}

Options  == {[opt |-> o, n |-> 0] : o \in {"b", "H", "x", "c", "s", "<", ">"}}
            \cup {[opt |-> o, n |-> 4] : o \in {"i", "!"}} \cup {[opt |-> "c", n |-> 2]}
Formats  == UNION {[1 .. k -> Options] : k \in 1 .. MaxFormat}
Usable(fmt) == \A i \in DOMAIN fmt : fmt[i].opt = "c" /\ fmt[i].n = 0 => i > 1 /\ fmt[i - 1].opt = "H"
\* Arguments for a format: the extreme integers, strings without a zero; a count
\* that c0 will use is the length of the string.
ArgumentsFor(fmt, low) ==
  LET arg(i) == CASE i < Len(fmt) /\ fmt[i + 1].opt = "c" /\ fmt[i + 1].n = 0 -> <<2>>
                  [] fmt[i].opt \in Signed -> LET half == Radix ^ optsize(fmt[i]) \div 2
                                             IN  <<IF low THEN - half ELSE half - 1>>
                  [] fmt[i].opt \in IntegerOptions -> <<IF low THEN 0 ELSE Radix ^ optsize(fmt[i]) - 1>>
                  [] fmt[i].opt \in {"c", "s"} -> <<<<1, 2>>>>
                  [] OTHER -> <<>>
  IN  FlattenSeq([i \in DOMAIN fmt |-> arg(i)])

-----------------------------------------------------------------------------
WireInit == /\ w_format = "none" /\ w_value = <<>> /\ w_bytes = <<>> /\ w_whole = TRUE
            /\ w_read = <<>>

Write(format, value, bytes) ==
  /\ w_format' = format /\ w_value' = value /\ w_bytes' = bytes
  /\ UNCHANGED <<w_whole, w_read>>

\* Only a part of what was written has come.
cut(n) ==
  /\ w_format # "none" /\ w_whole /\ w_read = <<>> /\ n < Len(w_bytes)
  /\ w_bytes' = SubSeq(w_bytes, 1, n)
  /\ w_whole' = FALSE
  /\ UNCHANGED <<w_format, w_value, w_read>>

Start == [pos |-> 1, good |-> TRUE]

\* What was read, in a sequence of one element.
read ==
  /\ w_format # "none" /\ w_read = <<>>
  /\ w_read' = CASE w_format = "amf" -> <<[cpp |-> amf0_read_many(w_bytes, Start),
                                          lua |-> lua_read_many(w_bytes, Start, <<>>)]>>
                 [] w_format = "bmf" -> <<bmf_read(w_bytes, 1).v>>
                 [] w_format = "counted" -> <<data_decode(w_bytes, Len(w_value), MaxCounted)>>
                 [] w_format = "struct" -> <<b_unpack(w_value.fmt, w_bytes)>>
  /\ UNCHANGED <<w_format, w_value, w_bytes, w_whole>>

WriteAny ==
  \/ \E u \in AmfValues, v \in AmfScalars \cup {Dict(<<<<<<97>>, Num(9)>>>>)} :
       Write("amf", <<u, v>>, write_multiple(<<u, v>>))
  \/ \E v \in BmfValues : Write("bmf", v, bmf_write(v))
  \/ \E m, n \in 0 .. LengthMax - 1 :
       Write("counted", <<Zeros(m), Zeros(n)>>, data_encode(<<Zeros(m), Zeros(n)>>))
  \/ \E fmt \in Formats, low \in BOOLEAN :
       /\ Usable(fmt)
       /\ Write("struct", [fmt |-> fmt, args |-> ArgumentsFor(fmt, low)], b_pack(fmt, ArgumentsFor(fmt, low)))

WireNext ==
  \/ w_format = "none" /\ WriteAny
  \/ \E n \in 0 .. 16 : cut(n)
  \/ read

-----------------------------------------------------------------------------
\* What AMF makes of a value: a boolean comes back true (amf0_reader::read_bool),
\* and in a table not at all (lua_amf0_writer::write_dict).
RECURSIVE AmfOf(_)
AmfOf(val) ==
  CASE val.type = "bool" -> Bool(TRUE)
    [] val.type = "dict" -> LET kept == SelectSeq(val.value, LAMBDA item : item[2].type \notin {"bool", "nil"})
                         IN  Dict([i \in DOMAIN kept |-> <<kept[i][1], AmfOf(kept[i][2])>>])
    [] OTHER -> val

\* The values whose bytes have all come.
AmfArrived == LET whole(n) == Len(write_multiple(SubSeq(w_value, 1, n))) <= Len(w_bytes)
                  count    == CHOOSE n \in 0 .. 2 : whole(n) /\ (n = 2 \/ ~whole(n + 1))
              IN  [i \in 1 .. count |-> AmfOf(w_value[i])]

\* The values that come whole are what lua_amf0_reader::read_many and, of values
\* without an object, amf0_reader::read_many read.  The table of them is on top
\* of the Lua stack unless the bytes end inside an object, which leaves its
\* unfinished table below it.
AmfReadBack ==
  w_format = "amf" /\ w_read # <<>> =>
    LET r    == w_read[1]
        next == Len(AmfArrived) + 1
    IN  /\ r.lua.items = AmfArrived
        /\ (\A i \in 1 .. 2 : w_value[i].type # "dict") => r.cpp = AmfArrived
        /\ (next > 2 \/ w_value[next].type # "dict") => r.lua.on_top

\* A bmf value is read back as it was written, or, when some of it is missing,
\* not at all: a cut string, whose bytes are then read as tags, never completes
\* the value around it.  (No byte of a string here is 17, the end tag: with it
\* a cut list would be taken for a whole one.)
BmfWholeOrNothing ==
  w_format = "bmf" /\ w_read # <<>> => w_read[1] = IF w_whole THEN w_value ELSE Nil

\* Counted items are all read back, or the stream is bad: some of their bytes are
\* missing, or there are more of them than the reader allows.
CountedReadBack ==
  w_format = "counted" /\ w_read # <<>> =>
    LET fits == \A i \in DOMAIN w_value : Len(w_value[i]) <= MaxCounted
    IN  /\ w_read[1].st.good <=> w_whole /\ fits
        /\ w_read[1].st.good => w_read[1].args = w_value

\* struct.unpack gives back what struct.pack was given, signs, byte orders and
\* padding included, struct.size is the size of a format without strings, and
\* what is missing at the end is an error.
StructReadBack ==
  w_format = "struct" /\ w_read # <<>> =>
    LET r     == w_read[1]
        fmt   == w_value.fmt
        c0(i) == i <= Len(fmt) /\ fmt[i].opt = "c" /\ fmt[i].n = 0
        given == FlattenSeq([i \in DOMAIN fmt |->
                   LET before == Len(ArgumentsFor(SubSeq(fmt, 1, i - 1), TRUE))
                   IN  IF c0(i + 1) \/ fmt[i].opt \in Control \cup {"x"} THEN <<>>
                       ELSE <<w_value.args[before + 1]>>])
    IN  /\ w_whole => ~r.error /\ r.out = given /\ r.pos = Len(w_bytes)
        /\ ~w_whole => r.error
        /\ w_whole /\ (\A i \in DOMAIN fmt : fmt[i].opt # "s" /\ ~c0(i)) => b_size(fmt) = Len(w_bytes)
=============================================================================
