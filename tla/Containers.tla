----------------------------- MODULE Containers -----------------------------
(***************************************************************************)
(* The containers of xul/data and xul/util: the two string tables (an      *)
(* array in the order of insertion and a tree), byte_buffer, variant and   *)
(* handle_map.  A behaviour uses the objects of one of them, beside a      *)
(* record of what was stored.                                              *)
(***************************************************************************)
EXTENDS Strings, TLC

CONSTANTS MaxContainerCalls,  \* bound on the calls
          MaxBuffer,          \* bound on the capacity of a buffer
          FirstHandles,       \* the handles handle_map tries first (99 in the code)
          MaxHandle           \* the largest handle it gives out (1000000 in the code)

VARIABLES c_part,      \* the container: "table", "buffer", "variant" or "handle"
          c_now,       \* its state
          c_stored,    \* what a reader of the calls so far expects of it
          c_calls

containerVars == <<c_part, c_now, c_stored, c_calls>>

Call(part) == c_part = part /\ c_calls < MaxContainerCalls /\ c_calls' = c_calls + 1 /\ UNCHANGED c_part

-----------------------------------------------------------------------------
(* String tables that ignore case.  tree: the entries in the order of the  *)
(* keys; position and at: the iterators of the array and of the tree, seen *)
(* the keys they have shown; sparse: a key was removed since they began.   *)

Ordered == << <<"Accept">>, <<"Host">>, <<"Range">> >>
Spellings == {Ordered[i] : i \in DOMAIN Ordered} \cup {<<"HOST">>}
Values == {"1", "2"}

\* [std/istring_less.hpp 9-16 istring_less]
Rank(key) == CHOOSE i \in DOMAIN Ordered : IEqual(Ordered[i], key)

\* [data/tree_map.hpp 161-164 tree_map::set]
\* operator[] of std::map keeps the key that is there.
tree_set(tree, key, val) ==
  IF table_contains(tree, key, TRUE) THEN table_set(tree, key, val, TRUE)
  ELSE LET before == Cardinality({i \in DOMAIN tree : Rank(tree[i][1]) < Rank(key)})
       IN  InsertAt(tree, before + 1, <<key, val>>)

\* [data/tree_map.hpp 165-178 tree_map::get]
\* The default of the caller is not used: a key that is missing gives NULL.
tree_get(tree, key, default) == table_get(tree, key, "NULL", TRUE)

\* [data/tree_map.hpp 189-194 tree_map::remove]
tree_remove(tree, key) == table_remove(tree, key, TRUE)

\* [data/tree_map.hpp 145-160 tree_map::iterate]
NoIterator == [position |-> 0, at |-> 0, seen |-> <<>>, seenTree |-> <<>>, had |-> {}, sparse |-> FALSE]

NewTables == [array |-> <<>>, tree |-> <<>>, iterating |-> FALSE, iter |-> NoIterator]

\* The rank of the first entry of the tree after rank r, 0 at its end.
After(tree, r) ==
  LET more == {Rank(tree[i][1]) : i \in DOMAIN tree} \ (0 .. r) IN IF more = {} THEN 0 ELSE Min(more)

set_key(key, val) ==
  /\ Call("table")
  /\ c_now' = [c_now EXCEPT !.array = table_set(@, key, val, TRUE), !.tree = tree_set(@, key, val)]
  /\ c_stored' = (Rank(key) :> val) @@ c_stored

\* An iterator of the tree does not survive the removal of its entry.
remove_key(key) ==
  /\ Call("table")
  /\ c_now.iterating => Rank(key) # c_now.iter.at
  /\ c_now' = [c_now EXCEPT !.array = table_remove(@, key, TRUE), !.tree = tree_remove(@, key),
                            !.iter.sparse = @ \/ table_contains(c_now.array, key, TRUE)]
  /\ c_stored' = [r \in DOMAIN c_stored \ {Rank(key)} |-> c_stored[r]]

\* [data/associative_string_array.hpp 154-161 associative_string_array::clear]
clear_tables ==
  /\ Call("table") /\ ~c_now.iterating
  /\ c_now' = NewTables /\ c_stored' = <<>>

\* [data/associative_string_array.hpp 162-176 associative_string_array::clone]
\* Of a copy: the entries move over, then both are iterated from the start.
iterate_clone ==
  /\ Call("table") /\ ~c_now.iterating
  /\ c_now' = [c_now EXCEPT !.iterating = TRUE,
                            !.iter = [NoIterator EXCEPT !.position = 1, !.at = After(c_now.tree, 0),
                                                        !.had = DOMAIN c_stored]]
  /\ UNCHANGED c_stored

\* [data/tree_map.hpp 88-142 tree_map::item_iterator]
\* While available(), element() shows an entry and next() moves on; the
\* iterator of the array is a position, the one of the tree an entry.
next ==
  /\ Call("table") /\ c_now.iterating
  /\ LET i == c_now.iter
     IN  c_now' = [c_now EXCEPT !.iter.position = IF @ \in DOMAIN c_now.array THEN @ + 1 ELSE @,
                                !.iter.seen = IF i.position \in DOMAIN c_now.array
                                              THEN Append(@, Rank(c_now.array[i.position][1])) ELSE @,
                                !.iter.seenTree = IF i.at = 0 THEN @ ELSE Append(@, i.at),
                                !.iter.at = IF @ = 0 THEN 0 ELSE After(c_now.tree, @)]
  /\ UNCHANGED c_stored

\* [data/tree_map.hpp 55-86 tree_map::item_entry]
\* set_value of the entry the iterator of the tree stands on.
set_value(val) ==
  /\ Call("table") /\ c_now.iterating /\ c_now.iter.at # 0
  /\ LET key == Ordered[c_now.iter.at]
     IN  c_now' = [c_now EXCEPT !.tree = tree_set(@, key, val), !.array = table_set(@, key, val, TRUE)]
  /\ c_stored' = (c_now.iter.at :> val) @@ c_stored

-----------------------------------------------------------------------------
(* Buffers.  data has a byte for every one of the capacity.                *)

Unset == 0       \* a byte malloc() left as it was
Bytes == {1, 2}
Names == {"a", "b"}

\* [data/byte_buffer.hpp 53-66 byte_buffer::byte_buffer]
NewBuffer(n) == [data |-> [i \in 1 .. n |-> Unset], size |-> n]

\* Mutant of reserve: the old bytes are not copied.
reserve_without_copy(b, n) == IF Len(b.data) >= n THEN b ELSE [NewBuffer(n) EXCEPT !.size = b.size]

\* [data/byte_buffer.hpp 101-114 byte_buffer::reserve]
reserve(b, n) ==
  IF Len(b.data) >= n THEN b
  ELSE [NewBuffer(n) EXCEPT !.size = b.size,
                            !.data = [i \in 1 .. n |-> IF i <= b.size THEN b.data[i] ELSE Unset]]

\* [data/byte_buffer.hpp 116-121 byte_buffer::resize]
resize(b, n) == [reserve(b, n) EXCEPT !.size = n]

\* [data/byte_buffer.hpp 122-126 byte_buffer::ensure_size]
ensure_size(b, n) == resize(resize(b, 0), n)

\* memcpy and fill_n into the bytes from a position on.
Copied(b, at, bytes) ==
  [b EXCEPT !.data = [i \in DOMAIN b.data |-> IF i - at \in DOMAIN bytes THEN bytes[i - at] ELSE b.data[i]]]

\* [data/byte_buffer.hpp 191-208 byte_buffer::data]
Contents(b) == SubSeq(b.data, 1, b.size)

\* [data/byte_buffer.hpp 136-154 byte_buffer::assign]
assign(b, src) == IF src = <<>> THEN resize(b, 0) ELSE Copied(resize(b, Len(src)), 0, src)

\* [data/byte_buffer.hpp 128-134 byte_buffer::assign]
assign_elem(b, elem) == Copied(b, 0, [i \in 1 .. b.size |-> elem])

\* [data/byte_buffer.hpp 156-161 byte_buffer::append]
append(b, src) == Copied(resize(b, b.size + Len(src)), b.size, src)

\* [data/byte_buffer.hpp 163-168 byte_buffer::append]
\* fill_n takes the count first: elem bytes of the value n are written.
append_elem(b, n, elem) == Copied(resize(b, b.size + n), b.size, [i \in 1 .. elem |-> n])

\* [data/byte_buffer.hpp 38-52 byte_buffer::byte_buffer]
construct_bytes(x, src) ==
  /\ Call("buffer") /\ Len(src) <= MaxBuffer
  /\ c_now' = [c_now EXCEPT ![x] = [data |-> src, size |-> Len(src)]]
  /\ c_stored' = [c_stored EXCEPT ![x] = src]

\* [data/byte_buffer.hpp 67-99 byte_buffer::byte_buffer]
\* A buffer takes the place of another one, which is destroyed.
construct_filled(x, n, elem) ==
  /\ Call("buffer")
  /\ c_now' = [c_now EXCEPT ![x] = assign_elem(NewBuffer(n), elem)]
  /\ c_stored' = [c_stored EXCEPT ![x] = [i \in 1 .. n |-> elem]]

Cut(stored, n) == [i \in 1 .. n |-> IF i <= Len(stored) THEN stored[i] ELSE Unset]

reserve_buffer(x, n) ==
  /\ Call("buffer") /\ c_now' = [c_now EXCEPT ![x] = reserve(@, n)] /\ UNCHANGED c_stored

resize_buffer(x, n) ==
  /\ Call("buffer")
  /\ c_now' = [c_now EXCEPT ![x] = resize(@, n)]
  /\ c_stored' = [c_stored EXCEPT ![x] = Cut(@, n)]

ensure_buffer(x, n) ==
  /\ Call("buffer")
  /\ c_now' = [c_now EXCEPT ![x] = ensure_size(@, n)]
  /\ c_stored' = [c_stored EXCEPT ![x] = Cut(<<>>, n)]

assign_buffer(x, y) ==
  /\ Call("buffer") /\ x # y
  /\ c_now' = [c_now EXCEPT ![x] = assign(@, Contents(c_now[y]))]
  /\ c_stored' = [c_stored EXCEPT ![x] = c_stored[y]]

fill_buffer(x, elem) ==
  /\ Call("buffer")
  /\ c_now' = [c_now EXCEPT ![x] = assign_elem(@, elem)]
  /\ c_stored' = [c_stored EXCEPT ![x] = [i \in DOMAIN @ |-> elem]]

append_bytes(x, src) ==
  /\ Call("buffer") /\ c_now[x].size + Len(src) <= MaxBuffer
  /\ c_now' = [c_now EXCEPT ![x] = append(@, src)]
  /\ c_stored' = [c_stored EXCEPT ![x] = @ \o src]

\* [data/byte_buffer.hpp 170-173 byte_buffer::append]
\* Of another buffer: resize() may free the bytes of this one.
append_buffer(x, y) ==
  /\ Call("buffer") /\ x # y /\ c_now[x].size + c_now[y].size <= MaxBuffer
  /\ c_now' = [c_now EXCEPT ![x] = append(@, Contents(c_now[y]))]
  /\ c_stored' = [c_stored EXCEPT ![x] = @ \o c_stored[y]]

\* A caller cannot tell what the bytes will be; more than n of them would be
\* written past the end.
append_count(x, n, elem) ==
  /\ Call("buffer") /\ elem <= n /\ c_now[x].size + n <= MaxBuffer
  /\ c_now' = [c_now EXCEPT ![x] = append_elem(@, n, elem)]
  /\ c_stored' = [c_stored EXCEPT ![x] = @ \o [i \in 1 .. n |-> Unset]]

\* [data/byte_buffer.hpp 175-179 byte_buffer::clear]
clear_buffer(x) ==
  /\ Call("buffer")
  /\ c_now' = [c_now EXCEPT ![x] = NewBuffer(0)]
  /\ c_stored' = [c_stored EXCEPT ![x] = <<>>]

\* [data/byte_buffer.hpp 181-189 byte_buffer::swap]
swap_buffers ==
  /\ Call("buffer")
  /\ c_now' = [a |-> c_now.b, b |-> c_now.a]
  /\ c_stored' = [a |-> c_stored.b, b |-> c_stored.a]

BufferNext ==
  \/ swap_buffers
  \/ \E x \in Names :
       \/ clear_buffer(x)
       \/ \E elem \in Bytes : fill_buffer(x, elem)
       \/ \E n \in 0 .. MaxBuffer : reserve_buffer(x, n) \/ resize_buffer(x, n) \/ ensure_buffer(x, n)
       \/ \E src \in {<<1>>, <<1, 2>>} : construct_bytes(x, src) \/ append_bytes(x, src)
       \/ \E n \in 0 .. 2, elem \in Bytes : construct_filled(x, n, elem) \/ append_count(x, n, elem)
       \/ \E y \in Names : assign_buffer(x, y) \/ append_buffer(x, y)

-----------------------------------------------------------------------------
(* Variants: one field for each type beside the type of the value.  A      *)
(* field keeps its value, and an object its reference, when the type       *)
(* changes.                                                                *)

ScalarTypes == {"bool", "integer", "float", "string", "pointer"}
ObjectTypes == {"object", "list", "dict", "tagged_buffer"}

\* [data/detail/variant_impl.hpp 17-34 variant_impl::set_null]
NullVariant == [type |-> "null", fields |-> [t \in ScalarTypes \cup ObjectTypes |-> "unset"]]

set_null == Call("variant") /\ c_now' = [c_now EXCEPT !.type = "null"] /\ c_stored' = <<>>

\* [data/detail/variant_impl.hpp 36-150 variant_impl::set_integer]
set_scalar(type, val) ==
  /\ Call("variant")
  /\ c_now' = [c_now EXCEPT !.fields[type] = val, !.type = type]
  /\ c_stored' = <<type, val>>

\* [data/detail/variant_impl.hpp 152-217 variant_impl::set_object]
\* The field takes a reference to the new object and drops the one it had.
set_object(type, obj) ==
  /\ Call("variant")
  /\ c_now' = [c_now EXCEPT !.fields[type] = obj, !.type = type]
  /\ c_stored' = <<type, obj>>

\* [data/variant.hpp 114-203 set_variant_value]
\* Every integral type of C++ is stored as an integer, float as a double.
set_variant_value(ctype, val) ==
  set_scalar(CASE ctype \in {"int", "short", "long", "unsigned"} -> "integer"
               [] ctype \in {"float", "double"} -> "float"
               [] OTHER -> ctype, val)

\* [data/detail/variant_impl.hpp 113-126 variant_impl::get_string]
get_variant(v, type, default) == IF v.type = type THEN v.fields[type] ELSE default

-----------------------------------------------------------------------------
(* Handles.  The objects are numbered in the order of add().               *)

\* [util/handle_map.hpp 16-40 handle_map::add]
add ==
  /\ Call("handle")
  /\ LET obj   == c_calls + 1
         free  == (1 .. FirstHandles) \ DOMAIN c_now
         large == Max(DOMAIN c_now) + 1
     IN  IF free # {} \/ large <= MaxHandle
         THEN LET handle == IF free # {} THEN Min(free) ELSE large
              IN  /\ c_now' = (handle :> obj) @@ c_now
                  /\ c_stored' = c_stored \cup {<<handle, obj>>}
         ELSE UNCHANGED <<c_now, c_stored>>

\* [util/handle_map.hpp 42-53 handle_map::find]
find(handle) == IF handle \in DOMAIN c_now THEN c_now[handle] ELSE 0

\* [util/handle_map.hpp 54-67 handle_map::remove]
remove_handle(handle) ==
  /\ Call("handle")
  /\ c_now' = [h \in DOMAIN c_now \ {handle} |-> c_now[h]]
  /\ c_stored' = {s \in c_stored : s[2] # find(handle)}

-----------------------------------------------------------------------------
ContainersInit ==
  /\ c_calls = 0
  /\ \/ c_part = "table"   /\ c_now = NewTables                              /\ c_stored = <<>>
     \/ c_part = "buffer"  /\ c_now = [x \in Names |-> NewBuffer(0)]         /\ c_stored = [x \in Names |-> <<>>]
     \/ c_part = "variant" /\ c_now = NullVariant                            /\ c_stored = <<>>
     \/ c_part = "handle"  /\ c_now = <<>>                                   /\ c_stored = {}

ContainersNext ==
  \/ \E key \in Spellings : remove_key(key) \/ \E val \in Values : set_key(key, val)
  \/ \E val \in Values : set_value(val)
  \/ clear_tables \/ iterate_clone \/ next
  \/ BufferNext
  \/ set_null
  \/ \E val \in Values : \/ \E ctype \in {"int", "short", "long", "unsigned", "float", "double", "bool", "string", "pointer"} :
                              set_variant_value(ctype, val)
                         \/ \E type \in ObjectTypes : set_object(type, val)
  \/ add \/ \E handle \in 1 .. MaxHandle : remove_handle(handle)

-----------------------------------------------------------------------------
(* Properties.                                                             *)

\* The two string tables hold the same pairs, the last value set under each
\* key however the key was spelt, and the array holds no key twice; an
\* iterator that has come to the end has shown every key of the array once
\* and in its order, those set meanwhile too (unless one was removed, which
\* makes it skip another), and every key the tree had all along.
TablesAgree ==
  c_part = "table" =>
    LET i == c_now.iter
        shown(keys) == {keys[k] : k \in DOMAIN keys}
    IN  /\ \A key \in Spellings :
             LET val == table_get(c_now.array, key, "NULL", TRUE)
             IN  /\ val = (IF Rank(key) \in DOMAIN c_stored THEN c_stored[Rank(key)] ELSE "NULL")
                 /\ tree_get(c_now.tree, key, "none") = val
        /\ Len(c_now.array) = Len(c_now.tree) /\ Len(c_now.array) = Cardinality(DOMAIN c_stored)
        /\ c_now.iterating /\ i.position > Len(c_now.array) /\ ~i.sparse =>
             i.seen = [k \in DOMAIN c_now.array |-> Rank(c_now.array[k][1])]
        /\ c_now.iterating /\ i.at = 0 =>
             /\ (i.had \cap DOMAIN c_stored) \ shown(i.seenTree) = {}
             /\ \A k \in 1 .. Len(i.seenTree) - 1 : i.seenTree[k] < i.seenTree[k + 1]

\* What was stored comes back: the bytes of a buffer that were set and not
\* cut off, through every reallocation and swap; the value of a variant under
\* its last type, and nothing under another; the object that a handle was
\* given for, until the handle is removed.
StoredComesBack ==
  /\ c_part = "buffer" =>
       \A x \in Names : /\ c_now[x].size = Len(c_stored[x]) /\ c_now[x].size <= Len(c_now[x].data)
                        /\ \A i \in DOMAIN c_stored[x] :
                             c_stored[x][i] # Unset => c_now[x].data[i] = c_stored[x][i]
  /\ c_part = "variant" =>
       \A type \in ScalarTypes \cup ObjectTypes :
         get_variant(c_now, type, "none") =
           IF c_stored # <<>> /\ c_stored[1] = type THEN c_stored[2] ELSE "none"
  /\ c_part = "handle" => \A s \in c_stored : find(s[1]) = s[2]
=============================================================================
