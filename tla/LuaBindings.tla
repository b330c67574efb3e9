---------------------------- MODULE LuaBindings ----------------------------
(***************************************************************************)
(* The Lua bindings: the methods a script calls, the C++ objects it holds  *)
(* through userdata, the Lua functions that C++ calls back, and values     *)
(* converted between the two.                                              *)
(*                                                                         *)
(* A method is what it does to the Lua stack: at which index it looks for  *)
(* its object, at which indexes for its arguments, how many values it      *)
(* pushes and how many it says it returns.                                 *)
(***************************************************************************)
EXTENDS Integers, Sequences, FiniteSets, SequencesExt, FiniteSetsExt

CONSTANTS MaxObjects,    \* bound on C++ objects made by the script
          MaxUserdata,   \* bound on userdata the script holds at a time
          MaxFunctions,  \* bound on listeners the script sets
          MaxEvents,     \* bound on callbacks
          MaxCalls       \* bound on plain method calls and conversions

VARIABLES lb_refs,      \* references to each object; 0 before it is made and once deleted
          lb_class,     \* the class of each object, in the order they were made
          lb_userdata,  \* object behind each userdata; 0 a free one
          lb_registry,  \* function behind each reference of the registry; 0 a free one
          lb_listener,  \* reference held by the handler of each object; 0 none
          lb_wanted,    \* the function the script last gave to each object; 0 none
          lb_functions, \* how many functions were given
          lb_invoked,   \* function wanted and function called, in the last callback
          lb_stack,     \* what callbacks have left on the Lua stack
          lb_results,   \* how many of these are results of a function or its error
          lb_events,
          lb_call,      \* the last plain call and what it met
          lb_value,     \* the last converted value and what came back
          lb_calls

luaVars == <<lb_refs, lb_class, lb_userdata, lb_registry, lb_listener, lb_wanted, lb_functions,
             lb_invoked, lb_stack, lb_results, lb_events, lb_call, lb_value, lb_calls>>
lifeVars == <<lb_refs, lb_class, lb_userdata>>
backVars == <<lb_registry, lb_listener, lb_wanted, lb_functions, lb_invoked, lb_stack, lb_results, lb_events>>
callVars == <<lb_call, lb_value, lb_calls>>

-----------------------------------------------------------------------------
(* The methods of the classes.                                             *)

Method(cls, name, self, args, pushed, returned) ==
  [cls |-> cls, name |-> name, self |-> self, args |-> args, pushed |-> pushed, returned |-> returned]

\* Methods of n arguments that follow their object, which is at index 1.
Getters(cls, names, n) == {Method(cls, m, 1, [i \in 1 .. n |-> i + 1], 1, 1) : m \in names}
Setters(cls, names, n) == {Method(cls, m, 1, [i \in 1 .. n |-> i + 1], 0, 0) : m \in names}
\* Methods that count from the top of the stack.
TopGetters(cls, names, n) == {Method(cls, m, -1 - n, [i \in 1 .. n |-> i - n - 1], 1, 1) : m \in names}
TopSetters(cls, names, n) == {Method(cls, m, -1 - n, [i \in 1 .. n |-> i - n - 1], 0, 0) : m \in names}
\* Functions of n arguments without an object.
Functions(cls, names, n) == {Method(cls, m, 0, [i \in 1 .. n |-> i], 1, 1) : m \in names}

\* [lua/lang/lua_object.hpp 15-40 lua_object]
lua_object == TopGetters("object", {"get_reference_count"}, 0)

\* [lua/util/lua_timer.hpp 42-111 lua_timer]
lua_timer == Getters("timer", {"is_started", "get_times"}, 0) \cup Setters("timer", {"stop"}, 0)
             \cup Setters("timer", {"start", "set_listener"}, 1)

\* [lua/util/lua_options.hpp 15-139 lua_options]
\* set pushes whether it succeeded; new and the index metamethod count from the top.
lua_options == TopGetters("options", {"new"}, 0) \cup TopGetters("options_table", {"index_table"}, 1)
               \cup Getters("options", {"set"}, 2) \cup Setters("options", {"update"}, 1)
               \cup Setters("options", {"dump"}, 2) \cup Functions("xul", {"create_dynamic_options"}, 0)

\* [lua/util/lua_time_counter.hpp 13-36 lua_time_counter]
lua_time_counter == Functions("xul", {"get_time_count"}, 0)
                    \cup {Method("xul", "gettimeofday", 0, <<>>, 2, 2)}

\* [lua/net/lua_uri.hpp 11-111 lua_uri]
lua_uri == Functions("uri", {"new"}, 0) \cup TopGetters("uri", {"parse", "get_param"}, 1)
           \cup TopGetters("uri", {"get_host", "get_port", "get_path", "get_params",
                                   "get_original_string"}, 0)

\* [lua/net/lua_url_message.hpp 12-137 lua_url_message]
lua_url_message ==
  Getters("url_message", {"get_protocol_name", "get_protocol_version", "get_headers"}, 0)
  \cup Setters("url_message", {"clear"}, 0)
  \cup Setters("url_message", {"set_protocol_name", "set_protocol_version"}, 1)
  \cup Getters("url_message", {"get_header"}, 2) \cup Setters("url_message", {"set_header"}, 2)

\* [lua/net/lua_url_request.hpp 12-110 lua_url_request]
lua_url_request == Getters("url_request", {"create_wrapper", "get_method", "get_url", "get_uri"}, 0)
                   \cup Setters("url_request", {"set_method", "set_url"}, 1)

\* [lua/net/lua_url_response.hpp 12-89 lua_url_response]
lua_url_response == Getters("url_response", {"get_status_code", "get_status_description"}, 0)
                    \cup Setters("url_response", {"set_status_code", "set_status_description"}, 1)

\* [lua/net/lua_url_session.hpp 13-157 lua_url_session]
lua_url_session ==
  Getters("url_session", {"create_wrapper", "get_connection", "get_response", "send_header", "is_chunked"}, 0)
  \cup Getters("url_session", {"send_data"}, 1) \cup Setters("url_session", {"set_chunked"}, 1)
  \cup Setters("url_session", {"close", "finish"}, 0)

\* [lua/net/lua_url_session.hpp 158-228 lua_url_session]
\* redirect_permanently reads the address where the session is.
lua_url_session_responses ==
  {Method("url_session", "send_empty_response", 1, <<-1>>, 1, 1),
   Method("url_session", "redirect_permanently", 1, <<1>>, 1, 1)}
  \cup Getters("url_session", {"send_simple_response"}, 3)
  \cup Getters("url_session", {"send_plain_text"}, 2) \cup Getters("url_session", {"redirect_temporarily"}, 1)

\* [lua/net/lua_io_service.hpp 18-122 lua_io_service]
lua_io_service ==
  Functions("io_service", {"new"}, 0) \cup TopSetters("io_service", {"start", "wait", "stop"}, 0)
  \cup TopGetters("io_service", {"create_periodic_timer", "create_once_timer", "create_tcp_socket",
                                 "create_tcp_acceptor"}, 0)

\* [lua/net/lua_tcp_socket.hpp 85-249 lua_tcp_socket]
lua_tcp_socket ==
  Functions("tcp_socket", {"new"}, 1)
  \cup {Method("tcp_socket", "set_max_sending_queue_size", 1, <<-1>>, 0, 0)}
  \cup Getters("tcp_socket", {"get_remote_address", "get_sending_queue_size"}, 0)
  \cup Getters("tcp_socket", {"send"}, 1) \cup Setters("tcp_socket", {"connect"}, 2)
  \cup Setters("tcp_socket", {"receive", "set_listener"}, 1)
  \cup Setters("tcp_socket", {"reset_listener", "close", "destroy"}, 0)

\* [lua/net/lua_tcp_acceptor.hpp 59-136 lua_tcp_acceptor]
lua_tcp_acceptor ==
  Functions("tcp_acceptor", {"new"}, 1) \cup Getters("tcp_acceptor", {"open"}, 2)
  \cup Setters("tcp_acceptor", {"set_handler"}, 1) \cup Setters("tcp_acceptor", {"reset_listener", "close"}, 0)

\* [lua/net/lua_socket_address.hpp 41-67 lua_ipv4]
lua_ipv4 == {Method("ipv4", "tostring", 0, <<-1>>, 1, 1)}

\* [lua/net/lua_inet4_address.hpp 11-49 lua_inet4_address]
lua_inet4_address == Functions("inet4_address", {"get_host_address", "to_string"}, 1)

\* [lua/net/http/lua_http_connection.hpp 94-221 lua_http_connection]
lua_http_connection ==
  Functions("http_connection", {"new", "create_concurrent"}, 1)
  \cup Getters("http_connection", {"download"}, 4)
  \cup Getters("http_connection", {"is_started", "is_paused", "get_options"}, 0)
  \cup Setters("http_connection", {"set_handler", "set_receive_buffer_size"}, 1)
  \cup Setters("http_connection", {"close", "pause", "resume"}, 0)

\* [lua/net/http/lua_http_client.hpp 45-119 lua_http_client]
\* is_started returns 0 after its push.
lua_http_client ==
  Functions("http_client", {"new"}, 1)
  \cup {Method("http_client", "is_started", -1, <<>>, 1, 0)}
  \cup TopSetters("http_client", {"close"}, 0) \cup TopSetters("http_client", {"post_data"}, 4)
  \cup Setters("http_client", {"download_data"}, 3)

\* [lua/net/http/lua_http_server.hpp 95-151 lua_simple_http_server_router]
lua_simple_http_server_router ==
  Functions("simple_http_server_router", {"new"}, 0) \cup Setters("simple_http_server_router", {"add"}, 2)
  \cup Setters("simple_http_server_router", {"set_not_found_handler"}, 1)

\* [lua/net/http/lua_http_server.hpp 154-257 lua_http_server]
lua_http_server ==
  Functions("http_server", {"new"}, 1) \cup Getters("http_server", {"start"}, 1)
  \cup Setters("http_server", {"set_router", "enable_reuse_address"}, 1)
  \cup Setters("http_server", {"stop"}, 0) \cup Getters("http_server", {"get_session_count"}, 0)

\* [lua/log/lua_logger.hpp 10-62 lua_logger]
lua_logger == Functions("logger", {"new"}, 1)

\* [lua/log/lua_logger.hpp 79-196 lua_logger::do_log]
\* The object a message is about and then any number of values, here two.
do_log == Setters("logger", {"debug", "info", "warn", "event", "error", "fatal"}, 3)

\* [lua/log/lua_log_manager.hpp 11-45 lua_log_manager]
lua_log_manager == Functions("log_manager", {"configure_filter_chain"}, 1)
                   \cup Functions("log_manager", {"start_console_log_service"}, 2)

\* [lua/lua_encoding.hpp 12-48 lua_hex_encoding]
lua_hex_encoding == Functions("hex_encoding", {"decode", "encode"}, 1)

\* [lua/lua_encoding.hpp 51-84 lua_base64]
lua_base64 == Functions("base64", {"decode", "encode"}, 1)

\* [lua/lua_os.hpp 10-36 lua_paths]
lua_paths == Functions("paths", {"join"}, 2)

\* [lua/hash/lua_hasher.hpp 12-39 lua_hasher]
lua_hasher == Functions("hasher", {"hash"}, 1)

\* [lua/data/lua_byte_order.hpp 10-39 lua_byte_order]
lua_byte_order == Functions("bytes_order", {"convert_dword"}, 2)

\* [lua/data/lua_numerics.hpp 10-34 lua_numerics]
lua_numerics == Functions("numerics", {"parse"}, 1)

\* [lua/data/lua_string.hpp 10-66 lua_string]
lua_string == Functions("string", {"read_memory"}, 4)

\* [lua/data/lua_block_pool.hpp 10-93 lua_block_pool]
lua_block_pool == Getters("block_pool", {"get_block_size", "get_used_count", "get_max_count", "allocate"}, 0)
                  \cup Setters("block_pool", {"free"}, 1)

\* [lua/data/lua_buffer.hpp 10-132 lua_buffer]
lua_buffer == Functions("buffer", {"new", "total_count"}, 0)
              \cup Setters("buffer", {"reserve", "resize", "ensure_size"}, 1) \cup Setters("buffer", {"assign"}, 2)

\* [lua/data/lua_buffer.hpp 133-241 lua_buffer]
lua_buffer_contents == Setters("buffer", {"append"}, 2) \cup Setters("buffer", {"clear"}, 0)
                       \cup Getters("buffer", {"size", "capacity", "empty", "data", "str"}, 0)
                       \cup Getters("buffer", {"sub"}, 2)

\* [lua/data/lua_string_tokenizer.hpp 12-121 lua_string_tokenizer]
lua_string_tokenizer ==
  Functions("string_tokenizer", {"new"}, 0) \cup Setters("string_tokenizer", {"reset"}, 0)
  \cup Setters("string_tokenizer", {"set_max_buffer_size", "set_delimiter", "set_include_delimiter"}, 1)
  \cup Getters("string_tokenizer", {"is_delimiter_included"}, 0) \cup Setters("string_tokenizer", {"feed"}, 2)

\* [lua/data/lua_string_tokenizer.hpp 122-188 lua_string_tokenizer]
lua_string_tokenizer_tokens ==
  Getters("string_tokenizer", {"next_token", "next_token_buffer", "get_remains", "get_remains_buffer"}, 0)

\* [lua/io/lua_structured_writer.hpp 11-56 lua_string_output_stream]
lua_string_output_stream == Functions("string_output_stream", {"new"}, 0)
                            \cup TopGetters("string_output_stream", {"get_string"}, 0)

\* [lua/io/lua_structured_writer.hpp 59-156 lua_structured_writer]
lua_structured_writer ==
  Functions("xul", {"create_xml_writer", "create_json_writer"}, 2)
  \cup Setters("structured_writer", {"start_dict"}, 1) \cup Setters("structured_writer", {"start_list"}, 2)
  \cup Setters("structured_writer", {"end_dict", "end_list"}, 0)

\* [lua/io/lua_structured_writer.hpp 157-216 lua_structured_writer::write_item]
lua_structured_writer_items == Setters("structured_writer", {"write", "write_item"}, 2)

\* [lua/io/lua_message_packet_pipe.hpp 11-71 lua_message_packet_pipe]
lua_message_packet_pipe ==
  Functions("message_pipe", {"new"}, 2) \cup Setters("message_pipe", {"feed"}, 2)
  \cup {Method("message_pipe", "read", 1, <<2>>, 2, 2)}

\* [lua/net/lua_net.hpp 22-42 register_lua_net]
register_lua_net ==
  UNION {lua_object, lua_io_service, lua_timer, lua_uri, lua_tcp_socket, lua_tcp_acceptor, lua_inet4_address,
         lua_ipv4, lua_url_session, lua_url_session_responses, lua_url_request, lua_url_response,
         lua_url_message, lua_http_connection, lua_http_client, lua_http_server, lua_simple_http_server_router}

\* [lua/lua_bindings.hpp 25-46 register_lua]
register_lua ==
  UNION {lua_logger, do_log, lua_log_manager, lua_string_output_stream, lua_structured_writer,
         lua_structured_writer_items, lua_message_packet_pipe, lua_options, lua_base64, lua_hex_encoding,
         lua_hasher, lua_string, lua_byte_order, lua_buffer, lua_buffer_contents, lua_numerics, lua_block_pool,
         lua_string_tokenizer, lua_string_tokenizer_tokens, lua_time_counter, lua_paths, register_lua_net}

\* The place in a frame of n values that an index names.
AbsIndex(i, n) == IF i < 0 THEN n + 1 + i ELSE i

\* A script calls a method on an object with its arguments; the method may
\* find something else than its object, and what it leaves on the stack above
\* the returned values is dropped.
\* [external lua_call of a C function]
call(m) ==
  LET n == Len(m.args) + (IF m.self = 0 THEN 0 ELSE 1)
  IN  /\ lb_calls' = lb_calls + 1
      /\ lb_call' = [method |-> <<m.cls, m.name>>, self |-> AbsIndex(m.self, n),
                     args |-> [i \in DOMAIN m.args |-> AbsIndex(m.args[i], n)],
                     first |-> IF m.self = 0 THEN 0 ELSE 1,
                     missing |-> m.pushed - m.returned]
      /\ UNCHANGED <<lifeVars, backVars, lb_value>>

-----------------------------------------------------------------------------
(* Objects and userdata.                                                   *)

Objects == 1 .. MaxObjects
Userdata == 1 .. MaxUserdata
Free(f, S) == {x \in S : f[x] = 0}

\* Classes of objects with a listener: how their handler is kept.
Raw == {"timer", "tcp_socket"}            \* a plain pointer to a handler nobody deletes
Counted == {"http_connection"}            \* an intrusive pointer

\* [lua/lua_utility.hpp 389-399 lua_utility::register_object]
register_object(o, refs) ==
  \E u \in Free(lb_userdata, Userdata) :
    /\ lb_userdata' = [lb_userdata EXCEPT ![u] = o]
    /\ lb_refs' = [refs EXCEPT ![o] = @ + 1]

\* A binding that makes an object: io_service.create_tcp_socket and the like.
\* [lua/lua_utility.hpp 353-388 lua_utility::register_cobject_class]
new(c) ==
  /\ Len(lb_class) < MaxObjects /\ lb_calls = 0
  /\ lb_class' = Append(lb_class, c)
  /\ register_object(Len(lb_class) + 1, lb_refs)
  /\ UNCHANGED <<backVars, callVars>>

\* url_session.create_wrapper and every getter that pushes an object again.
\* [lua/lua_utility.hpp 414-432 lua_utility::get_object_pointer]
wrap(u) ==
  /\ lb_userdata[u] # 0
  /\ register_object(lb_userdata[u], lb_refs)
  /\ UNCHANGED <<lb_class, backVars, callVars>>

\* [lua/lua_utility.hpp 400-412 lua_utility::destroy_object]
\* The last reference deletes the object, and a handler it counts with it.
destroy_object(u) ==
  LET o    == lb_userdata[u]
      last == lb_refs[o] = 1
      slot == lb_listener[o]
  IN  /\ o # 0 /\ lb_refs[o] > 0
      /\ lb_userdata' = [lb_userdata EXCEPT ![u] = 0]
      /\ lb_refs' = [lb_refs EXCEPT ![o] = @ - 1]
      /\ lb_listener' = IF last THEN [lb_listener EXCEPT ![o] = 0] ELSE lb_listener
      /\ lb_wanted' = IF last THEN [lb_wanted EXCEPT ![o] = 0] ELSE lb_wanted
      /\ lb_registry' = IF last /\ lb_class[o] \in Counted /\ slot # 0
                        THEN [lb_registry EXCEPT ![slot] = 0] ELSE lb_registry
      /\ UNCHANGED <<lb_class, lb_functions, lb_invoked, lb_stack, lb_results, lb_events, callVars>>

-----------------------------------------------------------------------------
(* Callbacks.                                                              *)

\* [external luaL_ref]
FirstFree(registry) == Min(Free(registry, DOMAIN registry))

\* [lua/lua_callback.hpp 11-36 lua_callback::lua_callback]
\* The function on the top of the stack goes to the registry, for as long as
\* the handler lives.
lua_callback(registry) == [registry EXCEPT ![FirstFree(registry)] = lb_functions + 1]

\* Mutant of set_raw_listener: the handler is deleted when the binding returns.
set_raw_listener_counted(o) ==
  /\ lb_listener' = [lb_listener EXCEPT ![o] = FirstFree(lb_registry)]
  /\ lb_registry' = lb_registry

\* [lua/net/lua_tcp_socket.hpp 169-182 lua_tcp_socket::set_listener]
\* The handler made before stays allocated and registered.
set_raw_listener(o) ==
  /\ lb_listener' = [lb_listener EXCEPT ![o] = FirstFree(lb_registry)]
  /\ lb_registry' = lua_callback(lb_registry)

\* [lua/net/http/lua_http_connection.hpp 160-166 lua_http_connection::set_handler]
\* The new handler is made before the old one is deleted.
set_counted_handler(o) ==
  LET old == lb_listener[o]
      new_registry == lua_callback(lb_registry)
  IN  /\ lb_listener' = [lb_listener EXCEPT ![o] = FirstFree(lb_registry)]
      /\ lb_registry' = IF old = 0 THEN new_registry ELSE [new_registry EXCEPT ![old] = 0]

set_listener(u) ==
  LET o == lb_userdata[u]
  IN  /\ o # 0
      /\ lb_functions < MaxFunctions
      /\ IF lb_class[o] \in Raw THEN set_raw_listener(o) ELSE set_counted_handler(o)
      /\ lb_functions' = lb_functions + 1
      /\ lb_wanted' = [lb_wanted EXCEPT ![o] = lb_functions + 1]
      /\ UNCHANGED <<lifeVars, lb_invoked, lb_stack, lb_results, lb_events, callVars>>

\* [util/listenable_mixin.hpp 43-46 listenable_mixin::reset_listener]
reset_listener(u) ==
  LET o == lb_userdata[u]
  IN  /\ o # 0 /\ lb_class[o] = "tcp_socket" /\ lb_listener[o] # 0
      /\ lb_listener' = [lb_listener EXCEPT ![o] = 0]
      /\ lb_wanted' = [lb_wanted EXCEPT ![o] = 0]
      /\ UNCHANGED <<lifeVars, lb_registry, lb_functions, lb_invoked, lb_stack, lb_results, lb_events, callVars>>

\* What a handler does with an event: how it finds its function, how many
\* arguments it pushes and says it pushed, whether it restores the stack.
Event(prepare, pushed, nargs, cleaner) ==
  [prepare |-> prepare, pushed |-> pushed, nargs |-> nargs, cleaner |-> cleaner]

\* [lua/net/lua_tcp_socket.hpp 13-83 lua_tcp_socket_handler]
lua_tcp_socket_handler == {Event("object", n, n, TRUE) : n \in {1, 2}}

\* [lua/net/lua_tcp_acceptor.hpp 13-57 lua_tcp_acceptor_handler]
lua_tcp_acceptor_handler == {Event("object", n, n, TRUE) : n \in {2, 3}}

\* [lua/net/lua_url_handler.hpp 16-128 lua_url_handler]
lua_url_handler == {Event("object", n, n, TRUE) : n \in {1, 2}}

\* [lua/net/http/lua_http_connection.hpp 15-91 lua_http_connection_handler]
lua_http_connection_handler == {Event("object", n, n, TRUE) : n \in {2, 3}}

\* [lua/util/lua_timer.hpp 13-40 lua_timer_listener]
lua_timer_listener == {Event("function", 0, 0, FALSE)}

\* [lua/net/http/lua_http_client.hpp 15-42 lua_http_client_callback]
lua_http_client_callback == {Event("function", 4, 4, FALSE)}

\* [lua/net/http/lua_http_server.hpp 60-93 lua_http_server_route_handler]
lua_http_server_route_handler == {Event("function", 0, 0, FALSE)}

EventsOf(c) ==
  CASE c = "timer" -> lua_timer_listener \cup lua_http_client_callback \cup lua_http_server_route_handler
    [] c = "tcp_socket" -> lua_tcp_socket_handler \cup lua_tcp_acceptor_handler \cup lua_url_handler
    [] c = "http_connection" -> lua_http_connection_handler

\* What the script registered: a plain table, a table with a metatable, or
\* one that has no function for the event.
Tables == {"table", "object", "incomplete"}

\* [lua/lua_callback.hpp 53-80 lua_callback::prepare_object_invoke]
prepare_object_invoke(table) ==
  CASE table = "table" -> <<"table", "function">>
    [] table = "object" -> <<"table", "metatable", "function">>
    [] table = "incomplete" -> <<"table", "nil">>

\* [lua/lua_callback.hpp 100-109 lua_callback::prepare_function_invoke]
prepare_function_invoke == <<"function">>

\* [lua/lua_utility.hpp 94-121 lua_utility::pcall]
\* Function and arguments are replaced by the results or by an error message.
pcall(stack, nargs, results) ==
  LET at == Len(stack) - nargs
  IN  [called |-> IF at >= 1 THEN stack[at] ELSE "none",
       stack |-> SubSeq(stack, 1, at - 1) \o [i \in 1 .. results |-> "result"]]

\* [lua/lua_stack.hpp 31-46 lua_auto_stack_cleaner]
restore(stack, top) == SubSeq(stack, 1, top)

\* [lua/net/lua_tcp_socket.hpp 24-79 lua_tcp_socket_handler::on_socket_receive]
on_event(o, e, table, results) ==
  LET prepared == lb_stack \o (IF e.prepare = "function" THEN prepare_function_invoke
                                                         ELSE prepare_object_invoke(table))
      ignored  == Last(prepared) # "function"
      run      == pcall(prepared \o [i \in 1 .. e.pushed |-> "arg"], e.nargs, results)
      left     == IF ignored THEN prepared ELSE run.stack
  IN  /\ lb_stack' = IF e.cleaner THEN restore(left, Len(lb_stack)) ELSE left
      /\ lb_results' = IF e.cleaner THEN lb_results ELSE lb_results + results
      /\ lb_invoked' = IF ignored THEN lb_invoked
                       ELSE [wanted |-> lb_wanted[o], found |-> lb_registry[lb_listener[o]],
                             called |-> run.called]

\* Something happens to an object that has a listener, while C++ keeps it alive.
event(o, e, table, results) ==
  /\ lb_events < MaxEvents
  /\ lb_refs[o] > 0 /\ lb_listener[o] # 0
  /\ lb_events' = lb_events + 1
  /\ on_event(o, e, table, results)
  /\ UNCHANGED <<lifeVars, lb_registry, lb_listener, lb_wanted, lb_functions, callVars>>

-----------------------------------------------------------------------------
(* Values.  A variant or a Lua value is a record; a Lua table is the       *)
(* sequence of its keys and values in the order of lua_next.               *)

Val(t, v) == [type |-> t, value |-> v]
Scalars == {Val("null", 0), Val("bool", TRUE), Val("integer", 2), Val("string", "s")}
Keys == {"k", "1"}
Flat == Scalars \cup {Val("list", s) : s \in {<<>>, <<Val("integer", 2)>>}}
                \cup {Val("dict", s) : s \in {<<>>, <<[key |-> "k", val |-> Val("string", "s")]>>}}
Variants == Flat \cup {Val("list", <<a, b>>) : a, b \in Flat}
                 \cup {Val("dict", <<[key |-> k, val |-> a]>>) : k \in Keys, a \in Flat}

RECURSIVE push_variant(_), load_variant(_, _)

\* [lua/lua_utility.hpp 535-571 lua_utility::push_variant_list]
push_variant_list(items) ==
  [i \in DOMAIN items |-> [key |-> Val("number", i), val |-> push_variant(items[i])]]

\* [lua/lua_utility.hpp 673-765 lua_utility::push_variant]
push_variant(var) ==
  CASE var.type = "null"    -> Val("lightuserdata", 0)
    [] var.type = "bool"    -> Val("boolean", var.value)
    [] var.type = "integer" -> Val("number", var.value)
    [] var.type = "string"  -> Val("string", var.value)
    [] var.type = "list"    -> Val("table", push_variant_list(var.value))
    [] var.type = "dict"    -> Val("table", [i \in DOMAIN var.value |->
                              [key |-> Val("string", var.value[i].key), val |-> push_variant(var.value[i].val)]])

\* [external lua_isnumber]
IsNumber(lv) == lv.type = "number" \/ lv = Val("string", "1")

\* [lua/lua_utility.hpp 573-652 lua_utility::load_variant]
\* Whether a table is a list is read from its first key; an empty table has
\* none, and the value below it on the stack is asked instead.
load_variant(lv, below) ==
  LET first == IF lv.value = <<>> THEN below ELSE lv.value[1].key
  IN  CASE lv.type = "lightuserdata" -> Val("null", 0)
        [] lv.type = "boolean"       -> Val("bool", lv.value)
        [] lv.type = "number"        -> Val("integer", lv.value)
        [] lv.type = "string"        -> Val("string", lv.value)
        [] lv.type = "table" /\ IsNumber(first) ->
             Val("list", [i \in DOMAIN lv.value |-> load_variant(lv.value[i].val, lv.value[i].key)])
        [] OTHER ->
             Val("dict", [i \in DOMAIN lv.value |->
               [key |-> lv.value[i].key.value, val |-> load_variant(lv.value[i].val, lv.value[i].key)]])

\* A value goes to a script and comes back as the argument of a method.
convert(var) ==
  /\ lb_calls' = lb_calls + 1
  /\ lb_value' = <<var, load_variant(push_variant(var), Val("userdata", 1))>>
  /\ UNCHANGED <<lifeVars, backVars, lb_call>>

-----------------------------------------------------------------------------
NoCall == [method |-> <<>>, self |-> 0, args |-> <<>>, first |-> 0, missing |-> 0]

LuaInit ==
  /\ lb_refs = [o \in Objects |-> 0] /\ lb_class = <<>>
  /\ lb_userdata = [u \in Userdata |-> 0]
  /\ lb_registry = [r \in 1 .. MaxFunctions + 1 |-> 0]
  /\ lb_listener = [o \in Objects |-> 0] /\ lb_wanted = [o \in Objects |-> 0]
  /\ lb_functions = 0
  /\ lb_invoked = [wanted |-> 0, found |-> 0, called |-> "function"]
  /\ lb_stack = <<>> /\ lb_results = 0 /\ lb_events = 0
  /\ lb_call = NoCall /\ lb_value = <<>> /\ lb_calls = 0

LuaNext ==
  \/ \E c \in Raw \cup Counted : new(c)
  \/ \E u \in Userdata : wrap(u) \/ destroy_object(u) \/ set_listener(u) \/ reset_listener(u)
  \/ \E o \in DOMAIN lb_class : \E e \in EventsOf(lb_class[o]), table \in Tables, results \in 0 .. 1 :
       event(o, e, table, results)
  \/ /\ lb_calls < MaxCalls /\ lb_class = <<>>    \* none of the objects above is touched
     /\ \/ \E m \in register_lua : call(m)
        \/ \E var \in Variants : convert(var)

-----------------------------------------------------------------------------
\* An object is alive exactly as long as a userdata of the script refers to it,
\* however many userdata its getters made and in whatever order they are collected.
HeldObjectsLive ==
  \A o \in DOMAIN lb_class : lb_refs[o] = Cardinality({u \in Userdata : lb_userdata[u] = o})

\* A callback calls the function that was last set on its object: its registry
\* reference was not given to another function meanwhile, and pcall finds the
\* function below exactly the arguments that were pushed.
CallbackCallsItsFunction ==
  lb_invoked.found = lb_invoked.wanted /\ lb_invoked.called = "function"

\* Callbacks leave nothing on the Lua stack but the results of timer, route and
\* download functions, which have no lua_auto_stack_cleaner.
OnlyResultsLeft == Len(lb_stack) = lb_results

\* Called with its arguments a method finds its object and every argument where
\* the script put it, and the script receives what the method pushed.  The two
\* that do not: http_client.is_started returns 0 after its push, and
\* url_session.redirect_permanently takes the session for the address.
CallsMatchScript ==
  \/ lb_call.method \in {<<"http_client", "is_started">>, <<"url_session", "redirect_permanently">>}
  \/ /\ lb_call.self = lb_call.first
     /\ lb_call.args = [i \in DOMAIN lb_call.args |-> lb_call.first + i]
     /\ lb_call.missing = 0

\* What load_variant makes of a variant that push_variant pushed: the same,
\* except that tables whose first key looks like a number are lists, and empty
\* ones are whatever the value below them suggests.
RECURSIVE AsLoaded(_, _)
AsLoaded(var, inList) ==
  CASE var.type \in {"list", "dict"} /\ var.value = <<>> -> Val(IF inList THEN "list" ELSE "dict", <<>>)
    [] var.type = "list" -> Val("list", [i \in DOMAIN var.value |-> AsLoaded(var.value[i], TRUE)])
    [] var.type = "dict" /\ var.value[1].key = "1" -> Val("list", [i \in DOMAIN var.value |-> AsLoaded(var.value[i].val, TRUE)])
    [] var.type = "dict" -> Val("dict", [i \in DOMAIN var.value |->
                           [key |-> var.value[i].key, val |-> AsLoaded(var.value[i].val, FALSE)]])
    [] OTHER -> var

\* Converting a value to Lua and back follows AsLoaded.
VariantsReturn == lb_value # <<>> => lb_value[2] = AsLoaded(lb_value[1], FALSE)
=============================================================================
