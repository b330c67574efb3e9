------------------------------ MODULE Strings ------------------------------
(***************************************************************************)
(* xul::strings and xul::basic_paths: the operations on text that the      *)
(* parsers of HTTP messages, URIs, ranges and paths are built from.  A text *)
(* is a sequence of tokens; a token is a delimiter or a whole word.        *)
(***************************************************************************)
EXTENDS Integers, Sequences, FiniteSets, SequencesExt

\* The positions of the delimiters, in order.
Cuts(src, delimiters) == SelectSeq([i \in DOMAIN src |-> i], LAMBDA i : src[i] \in delimiters)

\* [std/strings.hpp 233-258 strings::split_of]
\* maxSplit = 0: no limit on the number of parts.
split_of(src, delimiters, maxSplit) ==
  LET all  == Cuts(src, delimiters)
      cuts == IF maxSplit > 0 /\ Len(all) >= maxSplit THEN SubSeq(all, 1, maxSplit - 1) ELSE all
      from(k) == IF k = 1 THEN 1 ELSE cuts[k - 1] + 1
      to(k)   == IF k = Len(cuts) + 1 THEN Len(src) ELSE cuts[k] - 1
  IN  [k \in 1 .. Len(cuts) + 1 |-> SubSeq(src, from(k), to(k))]

\* [std/strings.hpp 165-193 strings::split]
\* An empty text has no parts.
split(src, delimiter) == IF src = <<>> THEN <<>> ELSE split_of(src, {delimiter}, 0)

\* [std/strings.hpp 260-270 strings::split_pair]
split_pair(src, delimiter) ==
  LET parts == split_of(src, {delimiter}, 2)
  IN  <<parts[1], IF Len(parts) = 2 THEN parts[2] ELSE <<>>>>

\* [std/strings.hpp 127-133 strings::extract_string]
\* From a position up to, not including, another; end = 0 stands for npos.
extract_string(s, start, end) == SubSeq(s, start, IF end = 0 THEN Len(s) ELSE end - 1)

\* [std/strings.hpp 343-357 strings::trim]
trim(s) ==
  LET solid == {i \in 1 .. Len(s) : s[i] \notin {" ", "CR", "LF"}}
  IN  IF solid = {} THEN <<>> ELSE SubSeq(s, Min(solid), Max(solid))

\* [std/strings.hpp 152-163 strings::join]
Joined(sep, parts) ==
  FlattenSeq([k \in DOMAIN parts |-> IF k = 1 THEN parts[k] ELSE <<sep>> \o parts[k]])

\* std::string::find of one character, from a position; 0 stands for npos.
Find(s, c, start) ==
  LET at == {i \in start .. Len(s) : s[i] = c} IN IF at = {} THEN 0 ELSE Min(at)

-----------------------------------------------------------------------------
(* String tables: associative_string_array keeps its entries, pairs of a   *)
(* key and a value, in the order in which the keys were first set.  The    *)
(* headers of a message compare their names without regard to case, the    *)
(* parameters of a URI do not.                                             *)

\* [std/strings.hpp 481-488 string_iequal_to]
\* "HOST" stands for another spelling of "Host".
IEqual(a, b) ==
  LET Lower(s) == [i \in DOMAIN s |-> IF s[i] = "HOST" THEN "Host" ELSE s[i]] IN Lower(a) = Lower(b)

\* The comparison of a table's keys: CompareT of associative_string_array.
Same(a, b, anycase) == IF anycase THEN IEqual(a, b) ELSE a = b

\* The position of a key, 0 if it is not there.
TablePosition(table, key, anycase) ==
  LET at == {i \in DOMAIN table : Same(table[i][1], key, anycase)} IN IF at = {} THEN 0 ELSE Min(at)

\* [data/associative_string_array.hpp 94-107 associative_string_array::contains]
table_contains(table, key, anycase) == TablePosition(table, key, anycase) # 0

\* [data/associative_string_array.hpp 109-121 associative_string_array::get]
table_get(table, key, default, anycase) ==
  LET i == TablePosition(table, key, anycase) IN IF i = 0 THEN default ELSE table[i][2]

\* [data/associative_string_array.hpp 122-138 associative_string_array::set]
\* The entry keeps its place and the spelling of its key.
table_set(table, key, val, anycase) ==
  LET i == TablePosition(table, key, anycase)
  IN  IF i = 0 THEN Append(table, <<key, val>>) ELSE [table EXCEPT ![i][2] = val]

\* [data/associative_string_array.hpp 139-153 associative_string_array::remove]
table_remove(table, key, anycase) ==
  LET i == TablePosition(table, key, anycase) IN IF i = 0 THEN table ELSE RemoveAt(table, i)

\* All the pairs set one after another.
TableOf(pairs, anycase) == FoldLeft(LAMBDA t, p : table_set(t, p[1], p[2], anycase), <<>>, pairs)

\* [data/associative_string_array.hpp 39-90 associative_string_array::string_pair_iterator]
\* Every entry in turn, its value replaced by the one at its place.
Iterated(table, vals) == [i \in DOMAIN table |-> <<table[i][1], vals[i]>>]

-----------------------------------------------------------------------------
(* Paths, with the POSIX traits.                                           *)

\* [os/paths.hpp 91-122 posix_path_traits]
Separator == "/"
ExtensionSeparator == "."

\* [os/paths.hpp 312-317 basic_paths::has_trailing_separator]
has_trailing_separator(path) == path # <<>> /\ Last(path) = Separator

\* [os/paths.hpp 319-326 basic_paths::add_trailing_separator]
add_trailing_separator(path) == IF has_trailing_separator(path) THEN path ELSE Append(path, Separator)

\* [os/paths.hpp 328-338 basic_paths::remove_trailing_separator]
remove_trailing_separator(path) ==
  IF has_trailing_separator(path) /\ Len(path) > 1 THEN Front(path) ELSE path

\* [os/paths.hpp 140-146 basic_paths::join]
path_join(dir, filename) == IF dir = <<>> THEN filename ELSE add_trailing_separator(dir) \o filename

\* [os/paths.hpp 148-162 basic_paths::join]
join_parts(parts) ==
  FlattenSeq([k \in DOMAIN parts |->
                IF k = 1 \/ has_trailing_separator(parts[k - 1]) THEN parts[k] ELSE <<Separator>> \o parts[k]])

\* [os/paths.hpp 164-189 basic_paths::split_filename]
\* The separator itself belongs to neither part, unless it is the root.
split_filename(path) ==
  LET cuts == Cuts(path, {Separator})
      pos  == Last(cuts)
  IN  IF cuts = <<>> THEN <<<<>>, path>>
      ELSE <<SubSeq(path, 1, IF pos = 1 THEN 1 ELSE pos - 1), SubSeq(path, pos + 1, Len(path))>>

\* [os/paths.hpp 191-216 basic_paths::split_extension]
\* The extension keeps its dot.
split_extension(path) ==
  LET cuts == Cuts(path, {Separator, ExtensionSeparator})
      pos  == Last(cuts)
  IN  IF cuts = <<>> \/ path[pos] = Separator THEN <<path, <<>>>>
      ELSE <<SubSeq(path, 1, pos - 1), SubSeq(path, pos, Len(path))>>

\* [os/paths.hpp 218-241 basic_paths::split]
\* The first part keeps its separator; with ignore_empty FALSE.
path_split(path) ==
  LET parts == split_of(path, {Separator}, 0)
  IN  [k \in DOMAIN parts |-> IF k = 1 /\ Len(parts) > 1 THEN Append(parts[1], Separator) ELSE parts[k]]

\* [os/paths.hpp 243-246 basic_paths::get_directory]
get_directory(path) == remove_trailing_separator(split_filename(path)[1])

\* [os/paths.hpp 253-256 basic_paths::get_filename]
get_filename(path) == split_filename(path)[2]

\* [os/paths.hpp 258-267 basic_paths::get_extension]
get_extension(path)    == split_extension(path)[2]
remove_extension(path) == split_extension(path)[1]

\* [os/paths.hpp 269-272 basic_paths::get_basename]
get_basename(path) == remove_extension(get_filename(path))

\* [os/paths.hpp 281-285 basic_paths::replace_directory]
replace_directory(path, newDir) == path_join(newDir, get_filename(path))

\* [os/paths.hpp 287-291 basic_paths::replace_filename]
replace_filename(path, newFilename) == path_join(get_directory(path), newFilename)

\* [os/paths.hpp 293-297 basic_paths::replace_extension]
replace_extension(path, newExt) == remove_extension(path) \o newExt

\* [os/paths.hpp 299-304 basic_paths::replace_basename]
\* The extension comes with its dot and gets another.
replace_basename(path, newBasename) ==
  LET dirs == split_filename(path)
  IN  path_join(dirs[1], newBasename \o <<ExtensionSeparator>> \o split_extension(dirs[2])[2])
=============================================================================
