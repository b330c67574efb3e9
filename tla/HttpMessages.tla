---------------------------- MODULE HttpMessages ----------------------------
(***************************************************************************)
(* HTTP messages as text: printing and parsing requests and responses, the *)
(* three readers that find the header in what arrives (the decoders of     *)
(* requests and responses and the extractor of the HTTP connection), URIs, *)
(* byte ranges, and the paths of files.                                    *)
(*                                                                         *)
(* A message arrives in reads of any size, a URI is set by the client and  *)
(* the server.  Ranges and paths are pure functions: an initial state      *)
(* holds an input.                                                         *)
(***************************************************************************)
EXTENDS Strings, TLC

CONSTANTS HeaderValues,   \* values of a header: sequences of tokens
          MaxBufferSize,  \* m_max_buffer_size of a reader
          QueryItems,     \* what may stand between the '&' of a query
          MaxSize,        \* largest file size, range position and length
          MaxPath         \* bound on the tokens of a path

VARIABLES h_part,      \* what this behaviour is about: "message", "uri", "range" or "path"
          h_input,
          h_fed,       \* tokens of the message read so far, or times the URI was parsed
          h_reader     \* the state of the reader and what it has reported, or the URI

httpMessageVars == <<h_part, h_input, h_fed, h_reader>>

-----------------------------------------------------------------------------
(* Numbers as text.                                                        *)

Numerals == <<"0", "1", "2", "3", "4", "5", "6", "7", "8", "9">>
Larger   == (80 :> "80") @@ (200 :> "200") @@ (206 :> "206") @@ (416 :> "416") @@ (554 :> "554")

\* [data/numerics.hpp 201-208 numerics::format]
format(n) == IF n \in DOMAIN Larger THEN <<Larger[n]>> ELSE <<Numerals[n + 1]>>

\* [data/numerics.hpp 184-199 numerics::parse]
parse_number(s, default) ==
  LET small == {i \in DOMAIN Numerals : s # <<>> /\ s[1] = Numerals[i]}
      large == {n \in DOMAIN Larger : s # <<>> /\ s[1] = Larger[n]}
  IN  IF small # {} THEN Min(small) - 1 ELSE IF large # {} THEN Min(large) ELSE default

-----------------------------------------------------------------------------
(* Messages.  The headers are a string table.                              *)

Crlf == <<"CR", "LF">>

\* [net/http/http_message.hpp 35-44 http_message::write_headers]
write_headers(headers) ==
  FlattenSeq([i \in DOMAIN headers |-> headers[i][1] \o <<":", " ">> \o headers[i][2] \o Crlf]) \o Crlf

\* [net/http/http_request.hpp 72-76 http_request::print]
print_request(r) ==
  <<r.method, " ">> \o r.url \o <<" ", r.protocol, "/", r.version>> \o Crlf \o write_headers(r.headers)

\* [net/http/http_response.hpp 52-59 http_response::print]
print_response(r) ==
  <<r.protocol, "/", r.version, " ">> \o format(r.status) \o <<" ">> \o r.description \o Crlf
  \o write_headers(r.headers)

\* [net/http/http_status_code.hpp 39-75 http_status_code::get_description]
get_description(code) ==
  CASE code = 200 -> <<"OK">> [] code = 206 -> <<"Partial", " ", "Content">>
    [] code = 416 -> <<"Requested", " ", "Range">> [] OTHER -> <<>>

\* [net/http/http_response.hpp 28-34 http_response::set_status_code]
set_status_code(r, code) ==
  [r EXCEPT !.status = code,
            !.description = IF get_description(code) = <<>> THEN @ ELSE get_description(code)]

\* [net/http/http_message.hpp 46-51 http_message::clear]
Cleared == [protocol |-> "HTTP", version |-> "1.0", headers |-> <<>>]

Failed == [ok |-> FALSE]

\* [net/http/http_message_parser.hpp 108-117 http_message_parser::parse_protocol]
parse_protocol(s) ==
  LET parts == split_of(s, {"/"}, 0)
  IN  IF Len(parts) = 2 THEN [ok |-> TRUE, protocol |-> parts[1], version |-> parts[2]] ELSE Failed

\* [net/http/http_request_parser.hpp 39-52 http_request_parser::parse_first_line]
parse_request_line(line) ==
  LET parts == split_of(line, {" "}, 0)
      proto == parse_protocol(parts[3])
  IN  IF Len(parts) # 3 THEN Failed
      ELSE IF ~proto.ok THEN Failed
      ELSE [ok |-> TRUE, first |-> <<parts[1], parts[2], proto.protocol, proto.version>>]

\* [net/http/http_response_parser.hpp 42-57 http_response_parser::parse_first_line]
\* The description may hold spaces.
parse_status_line(line) ==
  LET parts == split_of(line, {" "}, 3)
      proto == parse_protocol(parts[1])
  IN  IF Len(parts) # 3 THEN Failed
      ELSE IF ~proto.ok THEN Failed
      ELSE IF parse_number(parts[2], -1) < 0 THEN Failed
      ELSE [ok |-> TRUE, first |-> <<proto.protocol, proto.version, parts[2], parts[3]>>]

\* [net/http/http_message_parser.hpp 97-106 http_message_parser::parse_header]
\* <<ok, name, value>>.
parse_header(line) ==
  LET keyvals == split_pair(line, ":")
  IN  <<keyvals[1] # <<>> /\ keyvals[1] # line, trim(keyvals[1]), trim(keyvals[2])>>

\* [net/http/http_message_parser.hpp 24-34 http_message_parser::find_line_end]
LineEnds(data) ==
  SelectSeq([i \in DOMAIN data |-> i], LAMBDA i : i < Len(data) /\ SubSeq(data, i, i + 1) = Crlf)

\* [net/http/http_message_parser.hpp 58-95 http_message_parser::parse]
\* The header ends with the first empty line, so every line before that one
\* is parsed; a header that comes twice keeps its last value.
parse(type, data) ==
  LET ends    == LineEnds(data)
      line(k) == SubSeq(data, IF k = 1 THEN 1 ELSE ends[k - 1] + 2, ends[k] - 1)
      first   == IF type = "request" THEN parse_request_line(line(1)) ELSE parse_status_line(line(1))
      lines   == [k \in 1 .. Len(ends) - 2 |-> parse_header(line(k + 1))]
      pairs   == [k \in DOMAIN lines |-> <<lines[k][2], lines[k][3]>>]
  IN  IF ~first.ok \/ \E k \in DOMAIN lines : ~lines[k][1] THEN Failed
      ELSE [ok |-> TRUE, first |-> first.first, headers |-> TableOf(pairs, TRUE)]

\* [net/http/http_message.hpp 17-25 http_message::find_header_end]
\* The number of tokens up to and including the empty line; 0 if it is not there.
HeaderSize(data) ==
  LET at == {i \in 1 .. Len(data) - 3 : SubSeq(data, i, i + 3) = Crlf \o Crlf}
  IN  IF at = {} THEN 0 ELSE Min(at) + 3

-----------------------------------------------------------------------------
(* The readers.  reported: the parsed header, then the body; errors: calls *)
(* of on_decoder_error, or failed calls of the extractor.                  *)

NoReader == [type |-> "none"]

\* [net/http/http_response_decoder.hpp 119-156 http_response_decoder::reset]
NewReader(type) ==
  [type |-> type, m_buffer |-> <<>>, m_receiving_header |-> TRUE, message |-> <<>>, body |-> <<>>,
   errors |-> 0, refused |-> FALSE]

\* What a reader makes of data that holds the whole header, and of what follows it.
\* The request decoder reports its own error and decode_buffer a second one.
Parsed(r, parsed, rest) ==
  IF parsed.ok
  THEN [r EXCEPT !.m_receiving_header = FALSE, !.message = <<parsed>>, !.body = rest, !.m_buffer = <<>>]
  ELSE [r EXCEPT !.errors = IF r.type = "request" THEN 2 ELSE 1, !.m_buffer = <<>>]

Header(r, data, size) ==
  Parsed(r, parse(IF r.type = "request" THEN "request" ELSE "response", SubSeq(data, 1, size)),
         SubSeq(data, size + 1, Len(data)))

\* [net/http/http_response_decoder.hpp 74-95 http_response_extractor::try_parse]
\* The two decoders do the same with the data that may hold the header.
try_parse(r, data) == IF HeaderSize(data) = 0 THEN [r EXCEPT !.m_buffer = data] ELSE Header(r, data, HeaderSize(data))

\* [net/http/http_response_decoder.hpp 159-196 http_response_decoder::do_decode]
response_do_decode(r, data) ==
  IF ~r.m_receiving_header THEN [r EXCEPT !.body = @ \o data] ELSE try_parse(r, data)

\* More than the buffer of a reader may hold.
TooLong(r, data) == r.m_buffer # <<>> /\ Len(r.m_buffer) + Len(data) > MaxBufferSize

\* [net/http/http_response_decoder.hpp 126-142 http_response_decoder::feed]
response_feed(r, data) ==
  IF TooLong(r, data) THEN [r EXCEPT !.refused = TRUE]
  ELSE response_do_decode([r EXCEPT !.m_buffer = <<>>], r.m_buffer \o data)

\* [net/http/http_response_decoder.hpp 32-67 http_response_extractor::feed]
\* The caller gives what follows the consumed part to the content filters.
extractor_feed(r, data) ==
  IF ~r.m_receiving_header THEN [r EXCEPT !.body = @ \o data]
  ELSE IF TooLong(r, data) THEN [r EXCEPT !.errors = 1, !.refused = TRUE]
  ELSE try_parse([r EXCEPT !.m_buffer = <<>>], r.m_buffer \o data)

\* [xio/net/http_request_decoder.hpp 39-68 http_request_decoder::do_decode]
request_do_decode(r, data) ==
  IF ~r.m_receiving_header THEN [r EXCEPT !.body = @ \o data, !.m_buffer = <<>>]
  ELSE try_parse(r, data)

\* [io/codec/buffered_message_decoder.hpp 37-77 buffered_message_decoder::feed]
request_feed(r, data) ==
  IF TooLong(r, data) THEN [r EXCEPT !.errors = 1, !.refused = TRUE]
  ELSE request_do_decode([r EXCEPT !.m_buffer = <<>>], r.m_buffer \o data)

\* A read delivers some of what was sent.  The connection is closed after an error.
feed(n) ==
  /\ h_part = "message"
  /\ h_reader.errors = 0 /\ ~h_reader.refused
  /\ LET data == SubSeq(h_input.wire, h_fed + 1, h_fed + n)
     IN  h_reader' = CASE h_reader.type = "response"  -> response_feed(h_reader, data)
                       [] h_reader.type = "extractor" -> extractor_feed(h_reader, data)
                       [] OTHER                       -> request_feed(h_reader, data)
  /\ h_fed' = h_fed + n
  /\ UNCHANGED <<h_part, h_input>>

-----------------------------------------------------------------------------
(* URIs.  An escape such as "%26" is one token.                            *)

Escapes == ("&" :> "%26") @@ ("=" :> "%3d") @@ ("/" :> "%2f") @@ (":" :> "%3a") @@ (" " :> "%20") @@ ("+" :> "%2b")
Words == {"http", "xyz", "rtsp", "host", "p", "k", "l", "v", "f"}

\* [net/url_encoding.hpp 26-42 url_encoding::encode]
url_encode(s) == [i \in DOMAIN s |-> IF s[i] \in DOMAIN Escapes THEN Escapes[s[i]] ELSE s[i]]

\* [net/url_encoding.hpp 44-63 url_encoding::decode]
url_decode(s) ==
  LET plain(c) == {d \in DOMAIN Escapes : Escapes[d] = c}
  IN  [i \in DOMAIN s |-> IF s[i] = "+" THEN " "
                          ELSE IF plain(s[i]) # {} THEN CHOOSE d \in plain(s[i]) : TRUE ELSE s[i]]

\* [net/well_known_ports.hpp 10-49 well_known_ports::get_port]
get_port(scheme) == CASE scheme = "http" -> 80 [] scheme = "rtsp" -> 554 [] OTHER -> 0

\* [net/simple_uri.hpp 37-51 simple_uri::clear]
NoUri == [scheme |-> "", host |-> <<>>, port |-> 0, path |-> <<>>, filename |-> <<>>, query |-> <<>>,
          fragment |-> <<>>, params |-> <<>>, ok |-> TRUE, original |-> <<>>]

\* [std/maps.hpp 390-405 string_dicts::parse]
\* An item without a key is dropped, a key that comes twice has its last value
\* in its first place.
parse_dict(src, firstKey, secondKey) ==
  LET items == split(src, firstKey)
      pairs == [k \in DOMAIN items |-> split_pair(items[k], secondKey)]
  IN  TableOf(SelectSeq(pairs, LAMBDA p : p[1] # <<>>), FALSE)

\* [net/simple_uri.hpp 199-210 simple_uri::parse_params]
parse_params(u, s, offset, end) ==
  LET query == extract_string(s, offset + 1, end)
      params == parse_dict(query, "&", "=")
  IN  [u EXCEPT !.query = query,
                !.params = Iterated(params, [i \in DOMAIN params |-> url_decode(params[i][2])])]

\* [net/simple_uri.hpp 193-198 simple_uri::parse_fragment]
parse_fragment(u, s, offset) == IF offset = 0 THEN u ELSE [u EXCEPT !.fragment = SubSeq(s, offset + 1, Len(s))]

\* [net/simple_uri.hpp 211-235 simple_uri::parse_path]
\* Nothing, and no error, for a URI without a path (offset = 0).
parse_path(u, s, offset) ==
  LET paramsPos   == Find(s, "?", offset)
      fragmentPos == Find(s, "#", IF paramsPos = 0 THEN offset ELSE paramsPos + 1)
      withoutPath == IF paramsPos = 0 THEN parse_fragment(u, s, fragmentPos)
                     ELSE parse_params(parse_fragment(u, s, fragmentPos), s, paramsPos, fragmentPos)
      path        == extract_string(s, offset, IF paramsPos = 0 THEN fragmentPos ELSE paramsPos)
  IN  IF offset = 0 THEN u ELSE [withoutPath EXCEPT !.path = path, !.filename = get_filename(path)]

\* [net/simple_uri.hpp 236-256 simple_uri::parse_host_and_port]
parse_host_and_port(u, s, start, end) ==
  LET pos  == Find(s, ":", start)
      port == parse_number(SubSeq(s, pos + 1, end - 1), -1)
  IN  IF pos # 0 /\ pos < end
      THEN [u EXCEPT !.host = SubSeq(s, start, pos - 1), !.ok = port >= 0, !.port = IF port >= 0 THEN port ELSE @]
      ELSE [u EXCEPT !.host = SubSeq(s, start, end - 1), !.port = get_port(u.scheme)]

\* [net/simple_uri.hpp 257-270 simple_uri::parse_with_scheme]
parse_with_scheme(u, s, offset) ==
  LET pathPos == Find(s, "/", offset)
      hosted  == IF pathPos > offset THEN parse_host_and_port(u, s, offset, pathPos) ELSE u
  IN  IF hosted.ok THEN parse_path(hosted, s, pathPos) ELSE hosted

\* [net/simple_uri.hpp 87-111 simple_uri::parse]
parse_uri(s) ==
  LET marks     == {i \in 1 .. Len(s) - 2 : SubSeq(s, i, i + 2) = <<":", "/", "/">>}
      schemePos == Min(marks)
      u         == [NoUri EXCEPT !.original = s]
  IN  IF marks = {} \/ \E i \in 1 .. schemePos - 1 : s[i] \notin Words THEN parse_path(u, s, 1)
      ELSE parse_with_scheme([u EXCEPT !.scheme = IF schemePos = 1 THEN "" ELSE s[1]], s, schemePos + 3)

\* [net/simple_uri.hpp 178-192 simple_uri::assemble_query]
assemble_query(params) ==
  Joined("&", [i \in DOMAIN params |-> params[i][1] \o <<"=">> \o params[i][2]])

\* [net/simple_uri.hpp 139-156 simple_uri::assemble]
assemble(u) ==
  (IF u.host = <<>> THEN <<>>
   ELSE (IF u.scheme = "" THEN <<>> ELSE <<u.scheme, ":", "/", "/">>) \o u.host
        \o (IF u.port > 0 /\ ~(u.scheme = "http" /\ u.port = 80) THEN <<":">> \o format(u.port) ELSE <<>>))
  \o u.path
  \o (IF u.query = <<>> THEN <<>> ELSE <<"?">> \o u.query)
  \o (IF u.fragment = <<>> THEN <<>> ELSE <<"#">> \o u.fragment)

\* [net/simple_uri.hpp 161-171 simple_uri::encode]
encode(u) ==
  LET params  == Iterated(u.params, [i \in DOMAIN u.params |-> url_encode(u.params[i][2])])
      encoded == [u EXCEPT !.params = params, !.query = assemble_query(params)]
  IN  [encoded EXCEPT !.original = assemble(encoded)]

\* [net/http/http_request.hpp 57-70 http_request::set_url]
\* The client sets the URL of its request; the server sets it again from the
\* encoded URI that the client printed.
set_url ==
  /\ h_part = "uri" /\ h_fed < 2 /\ h_fed' = h_fed + 1
  /\ \E u \in {parse_uri(IF h_fed = 0 THEN h_input.text ELSE h_reader.encoded_uri.original)} :
       h_reader' = [uri |-> u, encoded_uri |-> encode(u),
                    asked |-> IF h_fed = 0 THEN NoUri ELSE h_reader.uri]
  /\ UNCHANGED <<h_part, h_input>>

-----------------------------------------------------------------------------
(* Ranges.                                                                 *)

\* [net/http/http_range.hpp 57-67 http_range::str]
range_str(range) ==
  <<"bytes", "=">> \o (IF range.start < 0 THEN <<>> ELSE format(range.start)) \o <<"-">>
  \o (IF range.end < 0 THEN <<>> ELSE format(range.end))

\* [net/http/http_range.hpp 68-82 http_range::parse]
range_parse(s) ==
  LET parts == split_pair(s, "=")
      ends  == split_pair(parts[2], "-")
  IN  IF parts[1] # <<"bytes">> \/ parts[2] = <<>> THEN [start |-> -1, end |-> -1]
      ELSE [start |-> parse_number(ends[1], -1), end |-> parse_number(ends[2], -1)]

\* [net/http/http_range.hpp 38-43 http_range::get_length]
get_length(range) == IF range.start < 0 \/ range.end < 0 THEN -1 ELSE range.end - range.start + 1

\* [net/url_messages.hpp 112-122 url_messages::set_range]
set_range(pos, len) == range_str([start |-> pos, end |-> IF len > 0 THEN pos + len - 1 ELSE -1])

\* [net/url_messages.hpp 106-110 url_messages::set_content_range]
\* Its assertion; the header has the three numbers as they are.
set_content_range(range) == range.end > 0

\* [net/url_messages.hpp 124-171 url_messages::set_total_size]
\* The answer, and whether the assertions on the way hold.  Without them the
\* code goes on as if they did.
set_total_size(range, total_size) ==
  LET Answer(status, length) ==
        [status |-> status, content_length |-> length, content_range |-> <<>>, asserts |-> TRUE]
      contentRange == [start |-> range.start, total_size |-> total_size,
                       end |-> IF range.end < 0 THEN total_size - 1 ELSE range.end]
      length == IF get_length(range) >= 0 /\ range.end < total_size THEN get_length(range)
                ELSE total_size - (IF range.start >= 0 THEN range.start ELSE 0)
  IN  IF range.start < 0 /\ range.end < 0 THEN Answer(200, total_size)
      ELSE IF total_size < 0 /\ range.start <= 0 THEN Answer(200, total_size)
      ELSE IF range.start >= total_size THEN Answer(416, 0)
      ELSE [Answer(206, length) EXCEPT
              !.content_range = contentRange,
              !.asserts = /\ range.start >= 0 /\ contentRange.end >= 0
                          /\ set_content_range(contentRange)]

-----------------------------------------------------------------------------
(* Inputs.                                                                 *)

\* The headers that set_header leaves, of up to two calls in any order.
Headers ==
  {TableOf(pairs, TRUE) :
     pairs \in {<<>>} \cup {<< <<<<n>>, v>> >> : n \in {"Host", "HOST"}, v \in HeaderValues}
              \cup {<< <<<<n[1]>>, v>>, <<<<n[2]>>, w>> >> : v, w \in HeaderValues,
                     n \in {<<"Host", "Range">>, <<"Range", "HOST">>, <<"Host", "HOST">>}}}

Requests  == [method : {"GET"}, url : {<<"/">>, <<"/", "p">>}, protocol : {"HTTP"}, version : {"1.1"}, headers : Headers]
Responses == {set_status_code([protocol |-> "HTTP", version |-> "1.1", status |-> 0, description |-> <<>>,
                               headers |-> h], code) : h \in Headers, code \in {6, 200, 206}}

Body == <<"b1", "b2">>

\* The text of a message, with one of its tokens lost when lost > 0.
Wire(text, lost) == IF lost = 0 THEN text ELSE RemoveAt(text, lost)

InitMessage ==
  /\ h_part = "message" /\ h_fed = 0
  /\ \/ \E r \in Requests, lost \in 0 .. 24 :
          /\ lost <= Len(print_request(r))
          /\ h_input = [wire |-> Wire(print_request(r), lost) \o Body, lost |-> lost, message |-> r]
          /\ h_reader = NewReader("request")
     \/ \E r \in Responses, lost \in 0 .. 24, type \in {"response", "extractor"} :
          /\ lost <= Len(print_response(r))
          /\ h_input = [wire |-> Wire(print_response(r), lost) \o Body, lost |-> lost, message |-> r]
          /\ h_reader = NewReader(type)

UriText(scheme, port, path, query, fragment) ==
  (IF scheme = "" THEN <<>> ELSE <<scheme, ":", "/", "/", "host">>)
  \o (IF scheme = "" \/ port = 0 THEN <<>> ELSE <<":">> \o format(port))
  \o path \o (IF query = <<>> THEN <<>> ELSE <<"?">> \o Joined("&", query))
  \o (IF fragment THEN <<"#", "f">> ELSE <<>>)

InitUri ==
  /\ h_part = "uri" /\ h_fed = 0 /\ h_reader = NoReader
  /\ \E scheme \in {"", "http", "rtsp", "xyz"}, port \in {0, 5, 80}, fragment \in BOOLEAN,
        path \in {<<"/">>, <<"/", "p">>, <<"/", "p", "/", "p">>}, query \in SeqOf(QueryItems, 2) :
       h_input = [scheme |-> scheme, port |-> IF scheme = "" THEN 0 ELSE IF port = 0 THEN get_port(scheme) ELSE port,
                  path |-> path, query |-> query, fragment |-> fragment,
                  text |-> UriText(scheme, port, path, query, fragment)]

\* The header that set_range writes, or one that only another client writes: a
\* suffix (no start), or an end before the start.  A file may be of unknown size.
InitRange ==
  /\ h_part = "range" /\ h_fed = 0 /\ h_reader = NoReader
  /\ \E start \in -1 .. MaxSize, end \in -1 .. 2 * MaxSize - 1, total \in -1 .. MaxSize :
       h_input = [start |-> start, end |-> end, total |-> total,
                  text |-> IF start >= 0 /\ (end < 0 \/ end >= start)
                           THEN set_range(start, IF end < 0 THEN 0 ELSE end - start + 1)
                           ELSE range_str([start |-> start, end |-> end])]

InitPath ==
  /\ h_part = "path" /\ h_fed = 0 /\ h_reader = NoReader
  /\ \E path \in SeqOf({"a", Separator, ExtensionSeparator}, MaxPath) : h_input = path

HttpMessagesInit == InitMessage \/ InitUri \/ InitRange \/ InitPath

HttpMessagesNext ==
  \/ h_part = "message" /\ \E n \in 1 .. Len(h_input.wire) - h_fed : feed(n)
  \/ set_url

-----------------------------------------------------------------------------
(* Properties.                                                             *)

\* The parsed form of a message that was printed.
AsParsed(m) ==
  [ok |-> TRUE,
   first |-> IF h_reader.type = "request" THEN <<<<m.method>>, m.url, <<m.protocol>>, <<m.version>>>>
             ELSE <<<<m.protocol>>, <<m.version>>, format(m.status), m.description>>,
   headers |-> m.headers]

\* However a message is cut into reads, its reader reports the header once,
\* as it was printed, as soon as all of it is there, and then the body up to
\* the last token read; of a message that lost a token it reports what it
\* would report had everything come in one read.
DecodedHoweverSplit ==
  h_part = "message" /\ ~h_reader.refused =>
    LET read == SubSeq(h_input.wire, 1, h_fed)
        size == HeaderSize(read)
    IN  IF size = 0 THEN h_reader.message = <<>> /\ h_reader.errors = 0
        ELSE /\ h_reader.errors = 0 => /\ h_reader.message = <<Header(NewReader(h_reader.type), read, size).message[1]>>
                                       /\ h_reader.body = SubSeq(read, size + 1, h_fed)
             /\ h_input.lost = 0 => h_reader.message = <<AsParsed(h_input.message)>>

\* A URI is taken apart into the parts it was made of, and the encoded URI
\* that http_request prints means the same to the server that parses it: the
\* same host, port, path, parameters and fragment.
UriSurvivesEncoding ==
  h_part = "uri" /\ h_fed > 0 =>
    LET u == h_reader.uri
        a == h_reader.asked
    IN  /\ u.ok /\ u.port = h_input.port /\ u.path = h_input.path
        /\ u.host = (IF h_input.scheme = "" THEN <<>> ELSE <<"host">>)
        /\ u.fragment = (IF h_input.fragment THEN <<"f">> ELSE <<>>)
        /\ h_fed = 2 => <<u.scheme, u.params>> = <<a.scheme, a.params>>

\* A range that begins in a file of known size is answered with the number of
\* its bytes that the file has, and a Content-Range that begins where it begins;
\* it ends at the last of these bytes unless the range was asked for beyond the
\* end of the file, whose end is then announced as it was asked.  A range that
\* begins behind the file is refused; of a file of unknown size only one that
\* begins at 0 is not.  The assertions of set_total_size and set_content_range
\* (lines 108, 149, 158) hold except for a suffix of the file, which the code
\* does not know, and for a range whose last byte is byte 0: bytes=0-0, and
\* bytes=0- of a file of one byte.
RangeServed ==
  h_part = "range" =>
    LET in     == h_input
        resp   == set_total_size(range_parse(in.text), in.total)
        wanted == {b \in 0 .. in.total - 1 : b >= in.start /\ (in.end >= 0 => b <= in.end)}
        suffix == in.start < 0 /\ in.end >= 0
    IN  /\ in.start >= 0 /\ (in.end < 0 \/ in.end >= in.start) /\ in.total >= 0 =>
             /\ resp.content_length = Cardinality(wanted)
             /\ resp.status = IF wanted = {} THEN 416 ELSE 206
             /\ wanted # {} =>
                  /\ resp.content_range.start = Min(wanted)
                  /\ resp.content_range.end = IF in.end < in.total THEN Max(wanted) ELSE in.end
        /\ in.start >= 0 /\ in.total < 0 => resp.status = IF in.start = 0 THEN 200 ELSE 416
        /\ ~resp.asserts <=>
             /\ in.total >= 0
             /\ \/ suffix
                \/ in.start >= 0 /\ in.start < in.total
                     /\ (in.end = 0 \/ (in.end < 0 /\ in.total = 1))

\* What a path is split into makes the path again.  (A directory that ends
\* in several separators loses one of them, replace_basename doubles the dot.)
PathsRejoin ==
  h_part = "path" =>
    LET path   == h_input
        single == ~\E i \in 1 .. Len(path) - 1 : path[i] = Separator /\ path[i + 1] = Separator
    IN  /\ join_parts(path_split(path)) = path
        /\ replace_extension(path, get_extension(path)) = path
        /\ single => /\ replace_filename(path, get_filename(path)) = path
                     /\ replace_directory(path, get_directory(path)) = path
                     /\ get_extension(get_filename(path)) = get_extension(path)
=============================================================================
