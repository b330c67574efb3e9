----------------------------- MODULE HttpFilters ----------------------------
(***************************************************************************)
(* The filters a response's body passes through: chunked_http_filter,      *)
(* gzip_http_filter and the end_filter of the request, in the chain        *)
(* init_filters() builds, fed with reads of the encoded body, and          *)
(* message_packet_pipe, fed with reads of length-prefixed packets.         *)
(*                                                                         *)
(* A byte is a pair: <<"size", n>> the digits of a chunk's size or of a    *)
(* packet's length, <<"cr", 0>>, <<"lf", 0>>, or <<"b", i>>, byte i of the *)
(* content.  zlib's inflate is external: one byte in, one byte out.        *)
(***************************************************************************)
EXTENDS Integers, Sequences, SequencesExt

CONSTANTS
    MaxContent,     \* bound: bytes of content
    MaxPackets,     \* bound: packets through the pipe
    MaxMessage      \* maxMsgSize of the pipe

VARIABLES
    chain,          \* the filters in front of the end filter, "pipe" or "none"
    stream,         \* encoded bytes not yet read
    filter,         \* the fields of the filters
    out,            \* bytes passed to on_http_data, or messages read
    finishes,       \* calls of on_complete
    aborts,         \* calls of abort_handling
    ended,          \* the connection has ended
    content,        \* history: what was encoded
    intact          \* history: the bytes passed on when a read ended badly, or -1

vars == <<chain, stream, filter, out, finishes, aborts, ended, content, intact>>

CR == <<"cr", 0>>
LF == <<"lf", 0>>
Size(n) == <<"size", n>>
Bytes(a, b) == [i \in 1 .. b - a + 1 |-> <<"b", a + i - 1>>]
Rest(s, n) == SubSeq(s, n + 1, Len(s))

\* std::search: where t first occurs in s, or 0.
Find(s, t) ==
    LET at == {i \in 1 .. Len(s) - Len(t) + 1 : SubSeq(s, i, i + Len(t) - 1) = t}
    IN  IF at = {} THEN 0 ELSE CHOOSE i \in at : \A j \in at : i <= j

----------------------------------------------------------------------------
(* The filters: operators on their fields f.                               *)

\* [net/http/detail/chunked_http_filter.hpp 80-88 chunked_http_filter::reset_state]
NewFilter(length, gzipped) ==
    [m_current_chunk_size |-> -1, m_received_chunk_size |-> 0,
     gzip_length |-> IF gzipped THEN length ELSE -1, gzip_received |-> 0,
     m_content_length |-> IF gzipped THEN -1 ELSE length, m_received_size |-> 0,
     m_finished |-> FALSE, got |-> <<>>, completes |-> 0, aborts |-> 0]

\* [net/http/detail/http_connection_request_info.hpp 61-72 end_filter::finish]
end_finish(f) ==
    IF f.m_finished THEN [f EXCEPT !.aborts = @ + 1]
    ELSE [f EXCEPT !.m_finished = TRUE, !.completes = @ + 1]

\* [net/http/detail/http_connection_request_info.hpp 78-93 end_filter::process]
end_process(f, d) ==
    LET known == f.m_content_length >= 0
        n == IF known /\ f.m_received_size + Len(d) > f.m_content_length
             THEN f.m_content_length - f.m_received_size ELSE Len(d)
        g == [f EXCEPT !.m_received_size = @ + n, !.got = @ \o SubSeq(d, 1, n)]
    IN  IF known /\ g.m_received_size >= g.m_content_length THEN end_finish(g) ELSE g

\* gzip_http_filter::finish and check_finish.
\* [net/http/detail/gzip_http_filter.hpp 72-128 gzip_http_filter::finish]
gzip_check_finish(f) ==
    IF f.gzip_length >= 0 /\ f.gzip_received >= f.gzip_length THEN end_finish(f) ELSE f

\* [net/http/detail/gzip_http_filter.hpp 44-54 gzip_http_filter::process]
gzip_process(f, d) ==
    LET n == IF f.gzip_length >= 0 /\ f.gzip_received + Len(d) > f.gzip_length
             THEN f.gzip_length - f.gzip_received ELSE Len(d)
        g == [f EXCEPT !.gzip_received = @ + n]
    IN  gzip_check_finish(IF n > 0 THEN end_process(g, SubSeq(d, 1, n)) ELSE g)

Gzipped == chain \in {"gzip", "chunked+gzip"}
Chunked == chain \in {"chunked", "chunked+gzip"}
next_process(f, d) ==
    IF Gzipped THEN gzip_process(f, d) ELSE end_process(f, d)

\* Each decode step gives the fields after it and the bytes it took; taking
\* nothing ends the loop of process().
Step(f, n) == [f |-> f, n |-> n]

\* Mutant: what came of a chunk is not counted.
decode_chunk_data_uncounted(f, d) ==
    LET left == f.m_current_chunk_size - f.m_received_chunk_size
    IN  IF Len(d) >= left + 2
        THEN Step(next_process([f EXCEPT !.m_current_chunk_size = -1], SubSeq(d, 1, left)), left + 2)
        ELSE IF Len(d) < left THEN Step(next_process(f, d), Len(d))
        ELSE Step(f, 0)

\* The chunk with its end; or a part of it; a chunk whose end is incomplete is
\* left alone.
\* [net/http/detail/chunked_http_filter.hpp 103-134 chunked_http_filter::decode_chunk_data]
decode_chunk_data(f, d) ==
    LET left == f.m_current_chunk_size - f.m_received_chunk_size
    IN  IF Len(d) >= left + 2
        THEN IF SubSeq(d, left + 1, left + 2) # <<CR, LF>> THEN Step(f, 0)
             ELSE Step(next_process([f EXCEPT !.m_current_chunk_size = -1,
                                              !.m_received_chunk_size = 0],
                                    SubSeq(d, 1, left)), left + 2)
        ELSE IF Len(d) < left
        THEN Step(next_process([f EXCEPT !.m_received_chunk_size = @ + Len(d)], d), Len(d))
        ELSE Step(f, 0)

\* [net/http/detail/chunked_http_filter.hpp 135-155 chunked_http_filter::decode_chunk_trailer]
decode_chunk_trailer(f, d) ==
    IF Len(d) < 2 THEN Step(f, 0)
    ELSE IF SubSeq(d, 1, 2) = <<CR, LF>>
    THEN Step(end_finish(f), 2)
    ELSE LET at == Find(d, <<CR, LF, CR, LF>>)
         IN  Step(f, IF at = 0 THEN 0 ELSE Len(d) - at + 1)

\* [net/http/detail/chunked_http_filter.hpp 156-172 chunked_http_filter::decode_chunk_start]
decode_chunk_start(f, d) ==
    LET at == Find(d, <<CR, LF>>)
    IN  IF at = 0 \/ d[1][1] # "size" THEN Step(f, 0)
        ELSE Step([f EXCEPT !.m_current_chunk_size = d[1][2]], at + 1)

\* [net/http/detail/chunked_http_filter.hpp 91-102 chunked_http_filter::decode_once]
decode_once(f, d) ==
    IF f.m_current_chunk_size = 0 THEN decode_chunk_trailer(f, d)
    ELSE IF f.m_current_chunk_size > 0 THEN decode_chunk_data(f, d)
    ELSE decode_chunk_start(f, d)

\* The fields after a read.  What of it cannot be decoded yet is dropped: the
\* next read is decoded without it.
\* [net/http/detail/chunked_http_filter.hpp 31-46 chunked_http_filter::process]
RECURSIVE chunked_process(_, _)
chunked_process(f, d) ==
    IF d = <<>> THEN f
    ELSE LET s == decode_once(f, d)
         IN  IF s.n = 0 THEN s.f ELSE chunked_process(s.f, Rest(d, s.n))

----------------------------------------------------------------------------
(* A response.                                                             *)

\* Content of n bytes in chunks that end at the places in cuts, and the last,
\* empty chunk.
Encode(n, cuts) ==
    LET ends == cuts \cup {n}
        begin(e) == LET before == {c \in ends : c < e} \cup {0}
                    IN  (CHOOSE b \in before : \A c \in before : c <= b) + 1
        Chunk(e) == <<Size(e - begin(e) + 1), CR, LF>> \o Bytes(begin(e), e) \o <<CR, LF>>
        At[i \in 0 .. n] == IF i = 0 THEN <<>>
                            ELSE IF i \in ends THEN At[i - 1] \o Chunk(i) ELSE At[i - 1]
    IN  At[n] \o <<Size(0), CR, LF, CR, LF>>

\* init_filters(): the response's header decides the chain.
\* [net/http/detail/http_connection_request_info.hpp 296-313 http_connection_request_info::init_filters]
init_filters ==
    /\ chain = "none"
    /\ chain' \in {"plain", "chunked", "gzip", "chunked+gzip"}
    /\ \E n \in 1 .. MaxContent :
         /\ content' = Bytes(1, n)
         /\ IF chain' \in {"plain", "gzip"}
            THEN /\ stream' = Bytes(1, n)
                 /\ filter' = NewFilter(n, chain' = "gzip")
            ELSE /\ \E cuts \in SUBSET (1 .. n - 1) : stream' = Encode(n, cuts)
                 /\ filter' = NewFilter(-1, chain' = "chunked+gzip")
    /\ UNCHANGED <<out, finishes, aborts, ended, intact>>

Pass(f) == filter' = f /\ out' = f.got /\ finishes' = f.completes /\ aborts' = f.aborts

\* A read ends badly inside a chunk's size line, between its data and the end
\* of their line, or inside the end tag: what follows it, rest, begins there.
EndsWell(rest) ==
    rest = <<>> \/ rest[1][1] \in {"size", "b"} \/ rest = <<CR, LF>>

\* A read of k bytes goes to the first filter.
\* [net/http/detail/http_connection_request_info.hpp 219-222 http_connection_request_info::process_body_data]
process_body_data ==
    /\ chain \notin {"none", "pipe"} /\ ~ended /\ finishes = 0
    /\ \E k \in 1 .. Len(stream) :
         LET d == SubSeq(stream, 1, k)
         IN  /\ stream' = Rest(stream, k)
             /\ Pass(IF Chunked THEN chunked_process(filter, d) ELSE next_process(filter, d))
    /\ intact' = IF intact >= 0 \/ EndsWell(stream') THEN intact ELSE Len(out')
    /\ UNCHANGED <<chain, ended, content>>

\* The connection ends: handle_error finishes the response.
\* [net/http/detail/chunked_http_filter.hpp 65-69 chunked_http_filter::finish]
connection_ends ==
    /\ chain \notin {"none", "pipe"} /\ ~ended /\ finishes = 0
    /\ ended' = TRUE
    /\ Pass(end_finish(filter))
    /\ UNCHANGED <<chain, stream, content, intact>>

----------------------------------------------------------------------------
(* message_packet_pipe: filter.m_buffer and filter.m_position.             *)

\* The length field is LengthBytes bytes.
LengthBytes == 2
Packet(m) == [i \in 1 .. LengthBytes |-> Size(Len(m))] \o m
MessageLength == filter.m_buffer[filter.m_position + 1][2]
DataPos == filter.m_position + LengthBytes

\* [io/codec/message_packet_pipe.hpp 17-26 message_packet_pipe::message_packet_pipe]
new_pipe ==
    /\ chain = "none" /\ chain' = "pipe"
    /\ filter' = [m_buffer |-> <<>>, m_position |-> 0]
    /\ \E n \in 1 .. MaxPackets : \E len \in [1 .. n -> 0 .. MaxMessage + 1] :
         content' = [i \in 1 .. n |-> [j \in 1 .. len[i] |-> <<"b", i>>]]
    /\ stream' = FlattenSeq([i \in DOMAIN content' |-> Packet(content'[i])])
    /\ UNCHANGED <<out, finishes, aborts, ended, intact>>

\* [io/codec/message_packet_pipe.hpp 33-37 message_packet_pipe::feed]
feed ==
    /\ chain = "pipe"
    /\ \E k \in 1 .. Len(stream) :
         /\ filter' = [m_buffer |-> Rest(filter.m_buffer, filter.m_position)
                                      \o SubSeq(stream, 1, k),
                       m_position |-> 0]
         /\ stream' = Rest(stream, k)
    /\ UNCHANGED <<chain, out, finishes, aborts, ended, content, intact>>

\* A message is whole, and neither empty nor longer than the maximum: at such a
\* one the pipe stays for ever.
\* [io/codec/message_packet_pipe.hpp 41-56 message_packet_pipe::read]
Readable ==
    /\ chain = "pipe" /\ DataPos <= Len(filter.m_buffer)
    /\ MessageLength \in 1 .. MaxMessage
    /\ DataPos + MessageLength <= Len(filter.m_buffer)

\* read(), when it returns a message.
\* [io/codec/message_packet_pipe.hpp 39-60 message_packet_pipe::read]
read ==
    /\ Readable
    /\ out' = Append(out, SubSeq(filter.m_buffer, DataPos + 1, DataPos + MessageLength))
    /\ filter' = [filter EXCEPT !.m_position = DataPos + MessageLength]
    /\ UNCHANGED <<chain, stream, finishes, aborts, ended, content, intact>>

----------------------------------------------------------------------------
Init ==
    /\ chain = "none" /\ stream = <<>> /\ filter = NewFilter(-1, FALSE)
    /\ out = <<>> /\ finishes = 0 /\ aborts = 0 /\ ended = FALSE /\ content = <<>> /\ intact = -1

Next ==
    \/ init_filters \/ process_body_data \/ connection_ends
    \/ new_pipe \/ feed \/ read

Spec == Init /\ [][Next]_vars

----------------------------------------------------------------------------
(* Properties.                                                             *)

\* However reads cut a body, through a chain without the chunked filter, or
\* with it as long as no read has ended inside a chunk's size line, before the end
\* of its data's line or inside the end tag, the listener gets the content and nothing
\* else, in order; the response is complete exactly when all of it was delivered,
\* and then once.  From a read that ends at such a place on the chunked filter has
\* lost its place in the stream: only what was delivered up to then is the
\* content's, what follows may be anything, and the response may be called
\* complete all the same, at most once, or wait for the end of the connection.
ContentDecoded ==
    chain \notin {"none", "pipe"} =>
      /\ finishes <= 1
      /\ IsPrefix(IF intact < 0 THEN out ELSE SubSeq(out, 1, intact), content)
      /\ intact < 0 =>
           /\ aborts = 0
           /\ finishes = 1 /\ ~ended => out = content
           /\ stream = <<>> => out = content /\ finishes = 1

\* The messages read from the pipe are those fed, in order and whole; once all
\* bytes are fed, only an empty or an oversized packet keeps one from being read.
PacketsRead ==
    chain = "pipe" =>
      /\ IsPrefix(out, content)
      /\ stream = <<>> /\ ~Readable =>
           \/ out = content
           \/ Len(content[Len(out) + 1]) \notin 1 .. MaxMessage
=============================================================================
