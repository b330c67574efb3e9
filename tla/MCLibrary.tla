----------------------------- MODULE MCLibrary ------------------------------
(***************************************************************************)
(* The library below the network.  What goes over a wire or into a text:   *)
(* the data streams, the binary formats built on them, HTTP's content      *)
(* filters and the packet pipe, the HTTP messages with their URIs, and the *)
(* text formats.  What programs keep: the Lua bindings, options, numbers   *)
(* and meters, containers, files, and tables by name.  A behaviour is      *)
(* about one of the eleven; the others keep one state.                     *)
(***************************************************************************)
EXTENDS DataStreams

CONSTANTS MaxContent, MaxPackets, MaxMessage
CONSTANTS Radix, LengthMax, MaxCounted, MaxFormat
CONSTANTS MaxWrites, MaxDepth, Characters, MaxText
CONSTANTS MaxBufferSize, MaxSize, MaxPath
CONSTANTS MaxObjects, MaxUserdata, MaxFunctions, MaxEvents, MaxCalls
CONSTANTS Magnitude, Width, MaxSets
CONSTANTS Bits, ByteCount, Units, MaxTime, MaxAdds, Sizes
CONSTANTS MaxContainerCalls, MaxBuffer, FirstHandles, MaxHandle
CONSTANTS MaxFile, Quota, LinePiece, BlockSize, MaxFileCalls
CONSTANTS MaxObjectCalls

VARIABLES part
VARIABLES chain, stream, filter, content_out, finishes, aborts, ended, content, intact
VARIABLES w_format, w_value, w_bytes, w_whole, w_read
VARIABLES x_format, x_compressed, x_contexts, x_indent, x_out, x_calls, x_text, x_encoded
VARIABLES lb_refs, lb_class, lb_userdata, lb_registry, lb_listener, lb_wanted, lb_functions,
          lb_invoked, lb_stack, lb_results, lb_events, lb_call, lb_value, lb_calls
VARIABLES o_dynamic, o_items, o_nodes, o_last, o_torn, o_calls, o_line, o_args
VARIABLES n_part, n_input, n_time, n_updated, n_meter, n_simple, n_log
VARIABLES s_kind, s_now, s_expected, s_calls

\* One item of each kind.
Item(k, v) == [kind |-> k, val |-> v]
OneOfEach ==
    {Item("uint8", <<7>>), Item("uint16", <<1, 2>>), Item("uint32", <<1, 2, 3, 4>>),
     Item("uint64", <<1, 2, 3, 4, 5, 6, 7, 8>>), Item("bytes", <<>>),
     Item("bytes", <<5, 6, 7>>), Item("vector", <<1, 2, 3, 4>>),
     Item("bmf", <<1, 0, 0, 0, 0, 0, 0, 32, 0>>)}

\* Integers on both sides of every limit of the bmf encoding: the most that place
\* p can hold beside the flags followed by ones, one more followed by zeros, and
\* the first and last numbers that begin in that place.
Limit(p) == IF p < 4 THEN 0 ELSE 2 ^ (p - 2) - 1
Leading(p) == {<<1, 0>>, <<127, 255>>, <<Limit(p), 255>>, <<Limit(p) + 1, 0>>}
IntegersAt(p) ==
    {Item("bmf", <<s>> \o [i \in 1 .. 8 |-> IF i < p THEN 0 ELSE IF i = p THEN b[1] ELSE b[2]]) :
       s \in {0, 1}, b \in Leading(p)}
Integers64 == UNION {IntegersAt(p) : p \in 1 .. 8}
Extremes ==
    {Item("bmf", <<0, 0, 0, 0, 0, 0, 0, 0, 0>>),
     Item("bmf", <<1, 128, 0, 0, 0, 0, 0, 0, 0>>)}

\* Every kind before a byte, a word and a counted item, and single integers.
Followers == {Item("uint8", <<7>>), Item("uint32", <<1, 2, 3, 4>>), Item("bytes", <<5, 6, 7>>)}
MCMessages ==
    {<<a, b>> : a \in OneOfEach, b \in Followers} \cup {<<a>> : a \in Integers64 \cup Extremes}

MCOffsets == {-3, 2}

\* Values of a header, and what stands between the '&' of a query.
HeaderValues == {<<>>, <<"v", ":", "v">>}
QueryItems == {<<>>, <<"k">>, <<"k", "=", "v">>, <<"l", "=", "%26", "=">>, <<"k", "=", "+">>,
               <<"=", "v">>, <<"l", "=", "%2b", "/", ":", "/", "/">>}

\* Command lines of up to two arguments, with spaces in any place.
Arguments == UNION {[1 .. n -> {"a", " "}] : n \in 1 .. 3}
Args == UNION {[1 .. n -> Arguments] : n \in 1 .. 2}

streamVars == <<message, done, big, host, m_capacity, out, phase, m_buffer, m_position, m_good, last,
                allread>>
filterVars == <<chain, stream, filter, content_out, finishes, aborts, ended, content, intact>>
wireVars   == <<w_format, w_value, w_bytes, w_whole, w_read>>
textVars   == <<x_format, x_compressed, x_contexts, x_indent, x_out, x_calls, x_text, x_encoded>>
luaVars       == <<lb_refs, lb_class, lb_userdata, lb_registry, lb_listener, lb_wanted, lb_functions,
                   lb_invoked, lb_stack, lb_results, lb_events, lb_call, lb_value, lb_calls>>
optionVars    == <<o_dynamic, o_items, o_nodes, o_last, o_torn, o_calls, o_line, o_args>>
numberVars    == <<n_part, n_input, n_time, n_updated, n_meter, n_simple, n_log>>

\* HTTP messages, containers, files and tables by name have one object each that
\* calls are made on: its kind, its state, what its user expects, and the calls.
objectVars    == <<s_kind, s_now, s_expected, s_calls>>

libraryVars == <<part, streamVars, filterVars, wireVars, textVars, luaVars, optionVars, numberVars, objectVars>>

Filters == INSTANCE HttpFilters WITH out <- content_out
Wire    == INSTANCE WireFormats
Text    == INSTANCE TextFormats
Http    == INSTANCE HttpMessages WITH h_part <- s_kind, h_input <- s_expected, h_fed <- s_calls,
                                      h_reader <- s_now
Lua     == INSTANCE LuaBindings
Opts    == INSTANCE Options
Num     == INSTANCE Numbers
Store   == INSTANCE Containers WITH c_part <- s_kind, c_now <- s_now, c_stored <- s_expected, c_calls <- s_calls
Disk    == INSTANCE Files WITH f_part <- s_kind, f_now <- s_now, f_ideal <- s_expected, f_calls <- s_calls
Tables  == INSTANCE Objects WITH k_part <- s_kind, k_now <- s_now, k_log <- s_expected, k_calls <- s_calls,
                                 PointerThreads <- {}, MaxShared <- 0, SharesCObjects <- FALSE

NoStreams ==
  /\ message = <<>> /\ done = 0 /\ big = "big" /\ host = <<>> /\ m_capacity = 0
  /\ out = <<>> /\ phase = "none" /\ m_buffer = <<>> /\ m_position = 0 /\ m_good = FALSE
  /\ last = <<>> /\ allread = FALSE

NoNumbers ==
  /\ n_part = "none" /\ n_input = <<>> /\ n_time = 0 /\ n_updated = 0 /\ n_meter = <<>>
  /\ n_simple = <<>> /\ n_log = <<>>

NoObject == s_kind = "none" /\ s_now = <<>> /\ s_expected = <<>> /\ s_calls = 0

LibraryInit ==
  /\ part \in {"streams", "filters", "wire", "text", "http",
               "lua", "options", "numbers", "containers", "files", "tables"}
  /\ IF part = "streams" THEN Init ELSE NoStreams
  /\ IF part = "numbers" THEN Num!NumbersInit ELSE NoNumbers
  /\ CASE part = "http"       -> Http!HttpMessagesInit
       [] part = "containers" -> Store!ContainersInit
       [] part = "files"      -> Disk!FilesInit
       [] part = "tables"     -> Tables!ObjectsInit /\ s_kind \in {"repository", "backup"}
       [] OTHER               -> NoObject
  /\ Filters!Init /\ Wire!WireInit /\ Text!TextInit /\ Lua!LuaInit /\ Opts!OptionsInit
  /\ part # "text" => x_format = "json" /\ x_compressed
  /\ part # "options" => ~o_dynamic

ObjectNext ==
  \/ part = "http" /\ Http!HttpMessagesNext
  \/ part = "containers" /\ Store!ContainersNext
  \/ part = "files" /\ Disk!FilesNext
  \/ part = "tables" /\ Tables!ObjectsNext

LibraryNext ==
  /\ UNCHANGED part
  /\ \/ part = "streams" /\ Next
        /\ UNCHANGED <<filterVars, wireVars, textVars, luaVars, optionVars, numberVars, objectVars>>
     \/ part = "filters" /\ Filters!Next
        /\ UNCHANGED <<streamVars, wireVars, textVars, luaVars, optionVars, numberVars, objectVars>>
     \/ part = "wire" /\ Wire!WireNext
        /\ UNCHANGED <<streamVars, filterVars, textVars, luaVars, optionVars, numberVars, objectVars>>
     \/ part = "text" /\ Text!TextNext
        /\ UNCHANGED <<streamVars, filterVars, wireVars, luaVars, optionVars, numberVars, objectVars>>
     \/ part = "lua" /\ Lua!LuaNext
        /\ UNCHANGED <<streamVars, filterVars, wireVars, textVars, optionVars, numberVars, objectVars>>
     \/ part = "options" /\ Opts!OptionsNext
        /\ UNCHANGED <<streamVars, filterVars, wireVars, textVars, luaVars, numberVars, objectVars>>
     \/ part = "numbers" /\ Num!NumbersNext
        /\ UNCHANGED <<streamVars, filterVars, wireVars, textVars, luaVars, optionVars, objectVars>>
     \/ ObjectNext
        /\ UNCHANGED <<streamVars, filterVars, wireVars, textVars, luaVars, optionVars, numberVars>>

LibrarySpec == LibraryInit /\ [][LibraryNext]_libraryVars


\* However reads cut what arrives, the packet pipe delivers whole packets and the
\* HTTP readers the message; the content filters deliver the content once and in
\* order, the chunked one until a read ends where it loses the rest.
DecodedHoweverCut ==
  Filters!ContentDecoded /\ Filters!PacketsRead /\ Http!DecodedHoweverSplit

\* A script and the objects it uses agree: an object lives as long as a userdata
\* refers to it, a callback calls the function last set with a clean stack, and
\* arguments, results and variants arrive as they were passed.
ScriptsSeeObjects ==
  /\ Lua!HeldObjectsLive /\ Lua!CallbackCallsItsFunction /\ Lua!OnlyResultsLeft
  /\ Lua!CallsMatchScript /\ Lua!VariantsReturn

\* A value stored is the value found: of options after refused settings, of big
\* numbers, bytes and meters at their carries and wrap-arounds, and of tables,
\* buffers, variants and handles through reallocation and iteration; a class by the
\* name it was first registered with, and a host's addresses in the backup.
ValuesKept ==
  /\ Opts!HoldsLastSet /\ Opts!CommandLineSplits
  /\ Num!BigNumbersCompute /\ Num!BytesAndClocks /\ Num!RecentFlow
  /\ Store!TablesAgree /\ Store!StoredComesBack
  /\ Tables!FirstRegistered /\ Tables!BackupAnswers

\* A file holds what was flushed to it, through a crash and a full disk; a copy
\* that succeeds has the whole source at the start of its target; directories are
\* made unless another process makes one after it was found missing.
FilesKept == Disk!FilesHold /\ Disk!CopiesAndDirectories
=============================================================================
