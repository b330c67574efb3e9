----------------------------- MODULE DataStreams -----------------------------
(***************************************************************************)
(* data_output_stream over memory_output_stream, data_input_stream over    *)
(* memory_input_stream, byte_order, and the variable-length integers of    *)
(* bmf_integer_encoding: a message is written item by item, its bytes or a *)
(* prefix of them reach a reader on a host of any byte order, and the      *)
(* reader reads, skips and seeks as it likes.                              *)
(*                                                                         *)
(* A number is the sequence of its bytes, the highest first, so that the   *)
(* 64-bit values keep their width; a bmf integer is <<sign>> (1: negative) *)
(* followed by the eight bytes of its magnitude.                           *)
(***************************************************************************)
EXTENDS Integers, Sequences, SequencesExt

CONSTANTS
    Messages,      \* sequences of items [kind, val]
    Capacities,    \* capacities of the memory the writer is given
    Offsets        \* bound: arguments of skip() and seek()

Words == {"uint16", "uint32", "uint64"}
Counted == {"bytes", "vector"}          \* a vector's elements are words of two bytes
Kinds == Words \cup Counted \cup {"uint8", "bmf"}

ASSUME DataStreamsAssumption ==
    /\ \A msg \in Messages : \A i \in DOMAIN msg : msg[i].kind \in Kinds
    /\ Capacities \subseteq Nat \ {0} /\ Offsets \subseteq Int

VARIABLES
    message, done,         \* what is written, the number of items written
    big,                   \* the byte order both streams are set to
    host,                  \* the hosts' orders, of "writer" and "reader"
    m_capacity, out,       \* the writer's memory and what it holds
    phase,                 \* "writing", "overflow", "reading"
    m_buffer, m_position,  \* memory_input_stream
    m_good,
    last,                  \* the last read: where, what, and its result
    allread                \* ghost: no read or skip failed since the last seek

writer == <<message, done, big, host, m_capacity, out>>
reader == <<m_buffer, m_position, m_good, last, allread>>
vars == <<writer, phase, reader>>

----------------------------------------------------------------------------
(* byte_order.                                                             *)

\* Memory holds a number in the order of its host.
Memory(h, v) == IF host[h] = "big" THEN v ELSE Reverse(v)

\* convert_word, convert_dword, convert_qword, convert_double.
convert(h, v) == IF host[h] = big THEN v ELSE Reverse(v)

\* The bytes of a number on the wire, and the number in bytes off the wire.
ToWire(v) == Memory("writer", convert("writer", v))
FromWire(b) == convert("reader", Memory("reader", b))

----------------------------------------------------------------------------
(* bmf_integer_encoding.                                                   *)

flag_bytes == <<0, 64, 96, 112, 120, 124, 125, 126, 127>>


byte_limits == <<63, 31, 15, 7, 3, 0, 0, 0, 0>>

\* After i bytes were taken off, what remains fits beside the flag.
Fits(mag, i) ==
    /\ \A j \in 1 .. 7 - i : mag[j] = 0
    /\ i < 8 => mag[8 - i] <= byte_limits[i + 1]

encode(val) ==
    LET mag == Tail(val)
        i == CHOOSE n \in 0 .. 8 : Fits(mag, n) /\ \A k \in 0 .. n - 1 : ~Fits(mag, k)
        top == IF i = 8 THEN 0 ELSE mag[8 - i]
    IN  <<(1 - val[1]) * 128 + flag_bytes[i + 1] + top>> \o SubSeq(mag, 9 - i, 8)

\* The number of bytes that follow the first one.
Following(first) ==
    LET flag == first % 128
    IN  CHOOSE n \in 0 .. 8 : /\ n < 8 => flag < flag_bytes[n + 2]
                              /\ \A k \in 0 .. n - 1 : flag >= flag_bytes[k + 2]

Zeros(n) == [i \in 1 .. n |-> 0]

\* The value in the first byte and the bytes that follow.
decode(first, rest) ==
    LET n == Following(first)
        top == (first % 128) % (byte_limits[n + 1] + 1)
        mag == IF n = 8 THEN rest ELSE Zeros(7 - n) \o <<top>> \o rest
    IN  <<IF first >= 128 \/ mag = Zeros(8) THEN 0 ELSE 1>> \o mag

----------------------------------------------------------------------------
(* Writing.                                                                *)

WordsOf(val) == [i \in 1 .. Len(val) \div 2 |-> SubSeq(val, 2 * i - 1, 2 * i)]

\* write_uint8 .. write_uint64, write_array, write_bytes, encode.
Encoded(item) ==
    CASE item.kind \in Words -> ToWire(item.val)
      [] item.kind = "vector" ->
           LET words == WordsOf(item.val)
           IN  FlattenSeq([i \in DOMAIN words |-> ToWire(words[i])])
      [] item.kind \in {"uint8", "bytes"} -> item.val
      [] item.kind = "bmf" -> encode(item.val)

\* The pieces an item is written in: the elements of a vector one by one.
Pieces(item) ==
    IF item.kind = "vector" THEN Len(item.val) \div 2 ELSE 1

\* write_bytes after check_available; an exception leaves what was written, the
\* elements of a vector that fitted included.
write_item ==
    LET bytes == Encoded(message[done + 1])
        piece == Len(bytes) \div Pieces(message[done + 1])
    IN  /\ phase = "writing" /\ done < Len(message)
        /\ IF Len(out) + Len(bytes) <= m_capacity
           THEN /\ out' = out \o bytes
                /\ done' = done + 1
                /\ UNCHANGED phase
           ELSE /\ out' = out \o SubSeq(bytes, 1,
                             piece * ((m_capacity - Len(out)) \div piece))
                /\ phase' = "overflow"
                /\ UNCHANGED done
        /\ UNCHANGED <<message, big, host, m_capacity, reader>>

\* The reader gets a prefix of what was written (memory_data_input_stream).
attach ==
    /\ phase # "reading" /\ (phase = "overflow" \/ done = Len(message))
    /\ \E n \in 0 .. Len(out) : m_buffer' = SubSeq(out, 1, n)
    /\ m_position' = 0 /\ m_good' = TRUE /\ allread' = TRUE
    /\ UNCHANGED last
    /\ phase' = "reading"
    /\ UNCHANGED writer

----------------------------------------------------------------------------
(* Reading.                                                                *)

\* m_position + n <= m_size, compared as unsigned numbers: a negative sum is
\* greater than any size.
is_available(n) == 0 <= m_position + n /\ m_position + n <= Len(m_buffer)

Bytes(n) == SubSeq(m_buffer, m_position + 1, m_position + n)

Outcome(k, n, ok, val) ==
    last' = [kind |-> k, n |-> n, good |-> m_good, from |-> m_position,
             to |-> m_position', ok |-> ok, val |-> val]

\* The shapes of the reads that the reader tries: those of the message's items.
Shapes == {<<message[i].kind, Len(message[i].val)>> : i \in DOMAIN message}

\* read_uint8 .. read_uint64, read_double: nothing from a stream that failed,
\* otherwise read_n or read_byte, whose result becomes m_good.
read_number(k, n) ==
    /\ phase = "reading"
    /\ LET ok == m_good /\ is_available(n)
       IN  /\ m_position' = IF ok THEN m_position + n ELSE m_position
           /\ m_good' = ok
           /\ allread' = (allread /\ ok)
           /\ Outcome(k, n, ok, IF ok THEN FromWire(Bytes(n)) ELSE <<>>)
    /\ UNCHANGED <<writer, phase, m_buffer>>

\* read_buffer, read_string, read_vector: try_read_bytes, then the bytes or the
\* elements.
read_counted(k, n) ==
    /\ phase = "reading"
    /\ LET ok == m_good /\ is_available(n)
           words == WordsOf(Bytes(n))
       IN  /\ m_position' = IF ok THEN m_position + n ELSE m_position
           /\ m_good' = ok
           /\ allread' = (allread /\ ok)
           /\ Outcome(k, n, ok,
                IF ~ok THEN <<>>
                ELSE IF k = "bytes" THEN Bytes(n)
                ELSE FlattenSeq([i \in DOMAIN words |-> FromWire(words[i])]))
    /\ UNCHANGED <<writer, phase, m_buffer>>

\* bmf_integer_encoding::decode.  At the end of the input it fails and the stream
\* stays good; without the bytes that follow, the first byte is gone.
read_integer ==
    /\ phase = "reading"
    /\ IF ~m_good \/ ~is_available(1)
       THEN /\ UNCHANGED <<m_position, m_good, allread>>
            /\ Outcome("bmf", 9, FALSE, <<>>)
       ELSE LET first == m_buffer[m_position + 1]
                n == Following(first)
                ok == is_available(1 + n)
            IN  /\ m_position' = IF ok THEN m_position + 1 + n ELSE m_position + 1
                /\ m_good' = ok
                /\ allread' = (allread /\ ok)
                /\ Outcome("bmf", 9, ok,
                     IF ok THEN decode(first, Tail(Bytes(1 + n))) ELSE <<>>)
    /\ UNCHANGED <<writer, phase, m_buffer>>

skip(n) ==
    /\ phase = "reading" /\ m_good
    /\ LET ok == n = 0 \/ is_available(n)
       IN  /\ m_position' = IF ok THEN m_position + n ELSE m_position
           /\ m_good' = ok
           /\ allread' = (allread /\ ok)
    /\ UNCHANGED <<writer, phase, m_buffer, last>>

\* seek: the comparison is unsigned too.  Success makes the stream good again.
seek(p) ==
    /\ phase = "reading"
    /\ 0 <= p /\ p <= Len(m_buffer)
    /\ m_position' = p /\ m_good' = TRUE /\ allread' = TRUE
    /\ UNCHANGED <<writer, phase, m_buffer, last>>

----------------------------------------------------------------------------
Init ==
    /\ message \in Messages /\ done = 0
    /\ big \in {"big", "little"}
    /\ host \in [{"writer", "reader"} -> {"big", "little"}]
    /\ m_capacity \in Capacities
    /\ out = <<>> /\ phase = "writing"
    /\ m_buffer = <<>> /\ m_position = 0 /\ m_good = FALSE /\ allread = FALSE
    /\ last = [kind |-> "none", n |-> 0, good |-> FALSE, from |-> 0, to |-> 0,
               ok |-> FALSE, val |-> <<>>]

Read(k, n) ==
    \/ k \in Words \cup {"uint8"} /\ read_number(k, n)
    \/ k \in Counted /\ read_counted(k, n)
    \/ k = "bmf" /\ read_integer

Next ==
    \/ write_item \/ attach
    \/ \E s \in Shapes : Read(s[1], s[2])
    \/ \E n \in Offsets : skip(n) \/ seek(n)

Spec == Init /\ [][Next]_vars

----------------------------------------------------------------------------
(* Properties.                                                             *)

\* Where item i begins.
Start(i) == Len(FlattenSeq([j \in 1 .. i - 1 |-> Encoded(message[j])]))

\* A read of the right type where an item begins returns the item that was
\* written, whatever the hosts and the byte order, and leaves the stream at the
\* next item; it fails only if the stream had failed or the item is not whole.
ReadBack ==
    \A i \in 1 .. done :
      /\ last.from = Start(i)
      /\ last.kind = message[i].kind /\ last.n = Len(message[i].val)
      => \/ last.ok /\ last.val = message[i].val /\ last.to = Start(i + 1)
         \/ ~last.ok /\ (~last.good \/ Start(i + 1) > Len(m_buffer))

\* The position stays inside the buffer, after skips backwards and failures too.
InsideBuffer == 0 <= m_position /\ m_position <= Len(m_buffer)

\* What data_encoding::decode returns: the stream is good only if every read
\* since it was attached or since the last successful seek succeeded.
GoodMeansAllRead == phase = "reading" => (m_good <=> allread)
=============================================================================
