------------------------------ MODULE Numbers ------------------------------
(***************************************************************************)
(* Arithmetic on bytes and on time: big_number, bit_converter, the time    *)
(* counters and time spans, and the two flow meters.                       *)
(*                                                                         *)
(* A byte has Bits bits instead of eight, so that every big number of a few *)
(* bytes can be tried.  A big number is a sequence of bytes, the lowest     *)
(* first.  The flow meters are driven by a clock of half seconds.          *)
(***************************************************************************)
EXTENDS Integers, Sequences, FiniteSets, SequencesExt, FiniteSetsExt

CONSTANTS Bits,        \* bits of a byte
          ByteCount,   \* byte_count of big_number
          Units,       \* unit_count of the flow meters
          MaxTime,     \* bound on the clock, in half seconds
          MaxAdds,     \* bound on calls of add()
          Sizes        \* the sizes passed to it

VARIABLES n_part,      \* "numbers", "spans" or "flow"
          n_input,
          n_time, n_updated,  \* the clock, and its value at the last update()
          n_meter,            \* the flow_meter
          n_simple,           \* the simple_flow_meter
          n_log               \* history: the calls of add()

numberVars == <<n_part, n_input, n_time, n_updated, n_meter, n_simple, n_log>>

-----------------------------------------------------------------------------
(* Big numbers.                                                            *)

Byte     == 2 ^ Bits
BitCount == Bits * ByteCount
Modulus  == 2 ^ BitCount
Index    == 1 .. ByteCount

\* Bitwise or of two bytes that have no bit in common.
Or(x, y) == x + y

\* [data/big_number.hpp 470-472 big_number::m_bytes]
Bytes(n) == [i \in Index |-> (n \div Byte ^ (i - 1)) % Byte]
Value(a) == FoldLeft(LAMBDA v, i : v + a[i] * Byte ^ (i - 1), 0, [i \in Index |-> i])

\* [data/big_number.hpp 84-88 big_number::flip]
flip(a) == [i \in Index |-> Byte - 1 - a[i]]

\* [data/big_number.hpp 95-100 big_number::increment]
\* The carry goes on while the bytes become zero.
increment(a) == [i \in Index |-> IF \A k \in 1 .. i - 1 : a[k] = Byte - 1 THEN (a[i] + 1) % Byte ELSE a[i]]

\* [data/big_number.hpp 101-106 big_number::decrement]
decrement(a) == [i \in Index |-> IF \A k \in 1 .. i - 1 : a[k] = 0 THEN (a[i] - 1) % Byte ELSE a[i]]

\* [data/big_number.hpp 89-93 big_number::negate]
negate(a) == increment(flip(a))

\* [data/big_number.hpp 251-296 big_number::operator-]
Negative(a) == increment(flip(a))

\* [data/big_number.hpp 50-83 big_number::assign]
\* A signed number that fits.
assign(n) == IF n >= 0 THEN Bytes(n) ELSE negate(Bytes(-n))

\* [data/big_number.hpp 108-123 big_number::bits]
bits(a) ==
  LET solid == {i \in Index : a[i] # 0}
      pos   == Max(solid)
      top   == Max({n \in 0 .. Bits - 1 : a[pos] >= 2 ^ n})
  IN  IF solid = {} THEN 0 ELSE Bits * (pos - 1) + top + 1

\* [data/big_number.hpp 141-181 big_number::compare]
compare(a, b) ==
  LET differ == {i \in Index : a[i] # b[i]}
      top    == Max(differ)
  IN  IF differ = {} THEN 0 ELSE IF a[top] < b[top] THEN -1 ELSE 1

\* [data/big_number.hpp 189-199 big_number::operator+=]
Plus(a, b) ==
  FoldLeft(LAMBDA r, i : LET n == r.carry + a[i] + b[i]
                         IN  [bytes |-> Append(r.bytes, n % Byte), carry |-> n \div Byte],
           [bytes |-> <<>>, carry |-> 0], [i \in Index |-> i]).bytes

\* [data/big_number.hpp 201-205 big_number::operator-=]
Minus(a, b) == Plus(a, Negative(b))

\* [data/big_number.hpp 207-222 big_number::operator*=]
\* n is a number of twice the width of a byte.
Times(a, b) ==
  LET row(bytes, j) ==
        FoldLeft(LAMBDA r, i : LET n == (r.carry + r.bytes[i + j - 1] + a[j] * b[i]) % (Byte * Byte)
                               IN  [bytes |-> [r.bytes EXCEPT ![i + j - 1] = n % Byte], carry |-> n \div Byte],
                 [bytes |-> bytes, carry |-> 0], [i \in 1 .. ByteCount - j + 1 |-> i]).bytes
  IN  FoldLeft(row, Bytes(0), [j \in Index |-> j])

\* [data/big_number.hpp 339-374 big_number::operator<<=]
ShiftLeft(a, shift) ==
  LET byteShift == shift \div Bits
      bitShift  == shift % Bits
      at(i)     == IF i >= 1 THEN a[i] ELSE 0
      byte(i)   == IF bitShift = 0 THEN at(i - byteShift)
                   ELSE Or((at(i - byteShift) * 2 ^ bitShift) % Byte, at(i - byteShift - 1) \div 2 ^ (Bits - bitShift))
  IN  IF shift >= BitCount THEN Bytes(0) ELSE [i \in Index |-> byte(i)]

\* [data/big_number.hpp 377-413 big_number::operator>>=]
ShiftRight(a, shift) ==
  LET byteShift == shift \div Bits
      bitShift  == shift % Bits
      at(i)     == IF i <= ByteCount THEN a[i] ELSE 0
      byte(i)   == IF bitShift = 0 THEN at(i + byteShift)
                   ELSE Or(at(i + byteShift) \div 2 ^ bitShift,
                           (at(i + byteShift + 1) * 2 ^ (Bits - bitShift)) % Byte)
  IN  IF shift >= BitCount THEN Bytes(0) ELSE [i \in Index |-> byte(i)]

\* [data/big_number.hpp 223-248 big_number::operator/=]
\* Schoolbook division, bit by bit; b is not zero.
Divided(a, b) ==
  LET shift == bits(a) - bits(b)
      step(r, k) ==
        LET fits == compare(r.num, r.div) >= 0
            at   == (shift - k) \div Bits + 1
        IN  [num |-> IF fits THEN Minus(r.num, r.div) ELSE r.num,
             div |-> ShiftRight(r.div, 1),
             quotient |-> IF fits THEN [r.quotient EXCEPT ![at] = Or(@, 2 ^ ((shift - k) % Bits))] ELSE r.quotient]
  IN  IF shift < 0 THEN Bytes(0)
      ELSE FoldLeft(step, [num |-> a, div |-> ShiftLeft(b, shift), quotient |-> Bytes(0)],
                    [k \in 1 .. shift + 1 |-> k - 1]).quotient

\* [data/big_number.hpp 438-442 big_number::format]
\* The highest byte first.
big_format(a) == Reverse(a)

\* [data/big_number.hpp 448-464 big_number::try_parse]
big_parse(s) == Reverse(s)

-----------------------------------------------------------------------------
(* bit_converter: a number of 2, 4 or 8 bytes in a given order.            *)

\* [data/bit_converter.hpp 154-216 bit_converter::from_dword]
from_word(x, size, big) ==
  LET low == [i \in 1 .. size |-> (x \div Byte ^ (i - 1)) % Byte] IN IF big THEN Reverse(low) ELSE low

\* [data/bit_converter.hpp 89-139 bit_converter::to_dword]
to_word(data, big) ==
  LET low == IF big THEN Reverse(data) ELSE data
  IN  FoldLeft(LAMBDA v, i : v + low[i] * Byte ^ (i - 1), 0, [i \in DOMAIN data |-> i])

-----------------------------------------------------------------------------
(* Time counters and spans.                                                *)

\* [util/time_counter.hpp 36-66 simple_time_counter::get_elapsed]
\* A counter of as many bits as a big number; unsigned subtraction.
Elapsed(synced, now) == ((now % Modulus) - (synced % Modulus)) % Modulus

TicksPerSecond == 1000
TicksPerMinute == 60 * TicksPerSecond
TicksPerHour   == 60 * TicksPerMinute
TicksPerDay    == 24 * TicksPerHour

\* [util/time_counter.hpp 458-507 time_span]
Span(ticks) ==
  [days    |-> ticks \div TicksPerDay,
   hours   |-> (ticks % TicksPerDay) \div TicksPerHour,
   minutes |-> (ticks % TicksPerHour) \div TicksPerMinute,
   seconds |-> (ticks % TicksPerMinute) \div TicksPerSecond,
   milliseconds |-> ticks % TicksPerSecond]

-----------------------------------------------------------------------------
(* Flow meters.  A meter_count is its bytes: packets are counted like bytes *)
(* of which every call of add() brings one.                                *)

\* [util/flow_meter.hpp 109-121 flow_meter::clear]
NewMeter == [m_counts |-> [i \in 0 .. Units - 1 |-> 0], m_recent |-> 0, m_latest |-> 0, m_update_times |-> 0]

\* [util/flow_meter.hpp 53-62 flow_meter::add]
meter_add(m, count) == [m EXCEPT !.m_latest = @ + count, !.m_recent = @ + count]

\* [util/flow_meter.hpp 65-77 flow_meter::update]
meter_update(m) ==
  LET position == m.m_update_times % Units
  IN  [m EXCEPT !.m_recent = @ - m.m_counts[position], !.m_counts[position] = m.m_latest, !.m_latest = 0,
                !.m_update_times = @ + 1]

\* [util/flow_meter.hpp 78-103 flow_meter::get_rate]
\* In bytes per second; used_time in half seconds.
get_rate(m, elapsed) ==
  LET times     == IF m.m_update_times < Units THEN m.m_update_times ELSE Units
      used_time == 2 * times + elapsed
  IN  IF m.m_update_times = 0 THEN m.m_latest ELSE (2 * m.m_recent) \div used_time

\* [util/flow_meter.hpp 203-217 simple_flow_meter::clear]
NewSimple == [m_counts |-> [i \in 0 .. Units - 1 |-> 0], m_recent |-> 0, m_update_times |-> 0, m_last_position |-> 0]

\* Seconds since the start, rounded up.
PosDiff == (n_time + 1) \div 2

\* [util/flow_meter.hpp 220-238 simple_flow_meter::step_next]
\* Empties every position up to the new one.
step_next(s, pos) ==
  LET to     == IF pos < s.m_last_position THEN pos + Units ELSE pos
      passed == {i % Units : i \in s.m_last_position + 1 .. to}
  IN  [s EXCEPT !.m_recent = @ - FoldLeft(LAMBDA v, i : v + s.m_counts[i], 0, SetToSeq(passed)),
                !.m_counts = [i \in DOMAIN @ |-> IF i \in passed THEN 0 ELSE @[i]],
                !.m_update_times = @ + Cardinality(passed),
                !.m_last_position = pos]

\* [util/flow_meter.hpp 166-175 simple_flow_meter::update]
simple_update(s) ==
  LET pos == PosDiff % Units IN IF pos # s.m_last_position THEN step_next(s, pos) ELSE s

\* [util/flow_meter.hpp 147-163 simple_flow_meter::add]
simple_add(s, count) ==
  LET at == simple_update(s)
  IN  [at EXCEPT !.m_counts[at.m_last_position] = @ + count, !.m_recent = @ + count]

add(count) ==
  /\ n_part = "flow" /\ Len(n_log) < MaxAdds
  /\ n_meter' = meter_add(n_meter, count)
  /\ n_simple' = simple_add(n_simple, count)
  /\ n_log' = Append(n_log, [size |-> count, second |-> PosDiff, interval |-> n_meter.m_update_times])
  /\ UNCHANGED <<n_part, n_input, n_time, n_updated>>

\* "Should be called once every second": half a second early or late.
update ==
  /\ n_part = "flow" /\ n_time > n_updated
  /\ n_meter' = meter_update(n_meter)
  /\ n_simple' = simple_update(n_simple)
  /\ n_updated' = n_time
  /\ UNCHANGED <<n_part, n_input, n_time, n_log>>

Tick ==
  /\ n_part = "flow" /\ n_time < MaxTime /\ n_time - n_updated < 3
  /\ n_time' = n_time + 1
  /\ UNCHANGED <<n_part, n_input, n_updated, n_meter, n_simple, n_log>>

-----------------------------------------------------------------------------
NumbersInit ==
  /\ n_time = 0 /\ n_updated = 0 /\ n_meter = NewMeter /\ n_simple = NewSimple /\ n_log = <<>>
  /\ \/ n_part = "numbers" /\ \E x, y \in 0 .. Modulus - 1 : n_input = <<x, y>>
     \/ n_part = "spans" /\ \E k \in 0 .. 3, unit \in {TicksPerSecond, TicksPerMinute, TicksPerHour, TicksPerDay},
                               d \in {-1, 0, 1, 61001} : k * unit + d >= 0 /\ n_input = <<k * unit + d, k>>
     \/ n_part = "flow" /\ n_input = <<0, 0>>

NumbersNext == (\E count \in Sizes : add(count)) \/ update \/ Tick

-----------------------------------------------------------------------------
(* Properties.                                                             *)

Mod(n) == n % Modulus

\* Every operation of big_number computes what its sign says, modulo the
\* width of the number: the carries of addition, increment and negation, the
\* double-width partial products, the aligned shifts of the division, and
\* the order.  A number survives printing and parsing.
BigNumbersCompute ==
  n_part = "numbers" =>
    LET x == n_input[1]
        y == n_input[2]
        a == Bytes(x)
        b == Bytes(y)
    IN  /\ Value(Plus(a, b)) = Mod(x + y)
        /\ Value(Minus(a, b)) = Mod(x - y)
        /\ Value(Times(a, b)) = Mod(x * y)
        /\ y # 0 => Value(Divided(a, b)) = x \div y
        /\ compare(a, b) = (IF x < y THEN -1 ELSE IF x = y THEN 0 ELSE 1)
        /\ Value(increment(a)) = Mod(x + 1) /\ Value(decrement(a)) = Mod(x - 1)
        /\ y <= BitCount => /\ Value(ShiftLeft(a, y)) = Mod(x * 2 ^ y)
                            /\ Value(ShiftRight(a, y)) = x \div 2 ^ y
        /\ assign(x - Modulus) = assign(x)
        /\ x # 0 => 2 ^ (bits(a) - 1) <= x /\ x < 2 ^ bits(a)
        /\ big_parse(big_format(a)) = a

\* A number is read back from the bytes it was stored in, in either order
\* and width; elapsed time is right although the counter wraps around
\* between the two readings; a time span is the sum of its parts.
BytesAndClocks ==
  /\ n_part = "numbers" =>
       LET x == n_input[1] * Modulus + n_input[2]
       IN  /\ \A big \in BOOLEAN, size \in {4, 8} : x < Byte ^ size => to_word(from_word(x, size, big), big) = x
           /\ Elapsed(x, x + n_input[1]) = n_input[1]
  /\ n_part = "spans" =>
       LET s == Span(n_input[1])
       IN  /\ s.days * TicksPerDay + s.hours * TicksPerHour + s.minutes * TicksPerMinute
                + s.seconds * TicksPerSecond + s.milliseconds = n_input[1]
           /\ s.hours < 24 /\ s.minutes < 60 /\ s.seconds < 60

Sum(log) == FoldLeft(LAMBDA v, e : v + e.size, 0, log)

\* Both meters report the bytes of the recent past exactly: flow_meter those
\* of the current interval and the Units before it, simple_flow_meter those
\* of the last Units seconds it has looked at; no count ever goes negative.
RecentFlow ==
  n_part = "flow" =>
    LET times == n_meter.m_update_times
        since == SelectSeq(n_log, LAMBDA e : e.interval >= times - Units)
        seen  == Max({n_updated \div 2} \cup {(n_updated + 1) \div 2} \cup {n_log[k].second : k \in DOMAIN n_log})
    IN  /\ n_meter.m_recent = Sum(since)
        /\ n_simple.m_recent = Sum(SelectSeq(n_log, LAMBDA e : e.second > seen - Units))
        /\ get_rate(n_meter, n_time - n_updated) >= 0
        /\ 2 * Min({times, Units}) + n_time - n_updated <= 2 * (Units + 1) + 1
=============================================================================
