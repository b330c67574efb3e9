------------------------------- MODULE Files -------------------------------
(***************************************************************************)
(* Files: stdfile over the buffered files of stdio with crashes and full   *)
(* disks, file_system's copying of files and making of directories while   *)
(* another process works in the same place, and the streams over           *)
(* std::istream and std::ostream.                                          *)
(***************************************************************************)
EXTENDS Integers, Sequences, FiniteSets, SequencesExt

CONSTANTS MaxFile,      \* bound on the length of a file
          Quota,        \* bytes of a file that fit on the disk
          LinePiece,    \* characters read_line takes at most (4095 in the code)
          BlockSize,    \* block of create_file and of api_copy_file
          MaxFileCalls

VARIABLES f_part,   \* "stdio", "copy", "directories" or "stream"
          f_now,    \* the state of the code and of the operating system
          f_ideal,  \* what a reader of the calls expects
          f_calls

fileVars == <<f_part, f_now, f_ideal, f_calls>>

Data == {<<"a">>, <<"n">>, <<"a", "b">>}     \* "n" is a newline
Missing == <<"missing">>

\* Bytes put over a content at a place, which may be its end.
Put(content, at, bytes) ==
  [i \in 1 .. (IF at + Len(bytes) > Len(content) THEN at + Len(bytes) ELSE Len(content)) |->
     IF i > at /\ i <= at + Len(bytes) THEN bytes[i - at] ELSE content[i]]

-----------------------------------------------------------------------------
(* stdio.  pending: what was written and not given to the system yet, as   *)
(* pairs of a place and a byte.                                            *)

\* [io/stdfile.hpp 71-77 stdfile::stdfile]
NoFile(disk) == [disk |-> disk, open |-> FALSE, mode |-> "none", pos |-> 0, pending |-> <<>>, last |-> "none",
                 failed |-> FALSE]

\* [external fwrite]
Stored(disk, pending) ==
  FoldLeft(LAMBDA d, p : IF p[1] <= Len(d) /\ p[1] < Quota THEN Put(d, p[1], <<p[2]>>) ELSE d, disk, pending)

\* [io/stdfile.hpp 445-458 stdfile::flush]
\* fflush: what does not fit is lost and the error of the stream is set.
flush(f) ==
  LET disk == Stored(f.disk, f.pending)
  IN  [f EXCEPT !.disk = disk, !.pending = <<>>, !.last = "none",
                !.failed = @ \/ \E i \in DOMAIN f.pending : f.pending[i][1] >= Quota]

\* [io/stdfile.hpp 217-229 stdfile::close]
close(f) == IF f.open THEN NoFile(flush(f).disk) ELSE f

\* [io/stdfile.hpp 244-253 stdfile::open]
open(f, mode) ==
  IF mode \in {"rb", "rb+"} /\ f.disk = Missing THEN f
  ELSE [NoFile(IF mode \in {"wb", "w+b"} \/ f.disk = Missing THEN <<>> ELSE f.disk) EXCEPT !.open = TRUE, !.mode = mode]

\* [io/stdfile.hpp 268-286 stdfile::open_binary_write]
ReadModes  == {"rb", "w+b", "rb+"}

\* [io/stdfile.hpp 543-567 stdfile_writer::open_binary_appending]
WriteModes == {"wb", "w+b", "rb+", "ab"}

\* What the file holds once everything written has reached it.
Content(f) == flush(f).disk

\* [io/stdfile.hpp 149-166 stdfile::seek]
\* fseek writes what is pending before it moves.
seek(f, place) == [flush(f) EXCEPT !.pos = place]

\* [io/stdfile.hpp 133-148 stdfile::get_position]
get_position(f) == f.pos

\* [io/stdfile.hpp 193-207 stdfile::get_size]
get_size(f) ==
  LET pos == get_position(f)
      end == seek(f, Len(Content(f)))
  IN  [f |-> seek(end, pos), len |-> get_position(end)]

\* [io/stdfile.hpp 380-435 stdfile::write]
write(f, bytes) ==
  LET at == IF f.mode = "ab" THEN Len(Content(f)) ELSE f.pos
  IN  [f EXCEPT !.pending = @ \o [i \in DOMAIN bytes |-> <<at + i - 1, bytes[i]>>],
                !.pos = at + Len(bytes), !.last = "write"]

\* [io/stdfile.hpp 288-307 stdfile::read]
ReadBytes(f, n) == SubSeq(f.disk, f.pos + 1, IF f.pos + n > Len(f.disk) THEN Len(f.disk) ELSE f.pos + n)

\* [io/stdfile.hpp 309-341 stdfile::read_line]
\* A line with its newline, or the next piece of a long one.
LineBytes(f) ==
  LET ends == {i \in f.pos + 1 .. Len(f.disk) : f.disk[i] = "n"}
      stop == {f.pos + LinePiece, Len(f.disk)} \cup ends
  IN  SubSeq(f.disk, f.pos + 1, CHOOSE i \in stop : \A j \in stop : i <= j)

\* [io/stdfile.hpp 490-521 stdfile_reader::read_binary]
read_binary(disk, maxSize) ==
  LET f    == open(NoFile(disk), "rb")
      size == get_size(f)
      buf  == ReadBytes(size.f, size.len)
  IN  IF ~f.open \/ size.len > maxSize THEN [ok |-> FALSE, buf |-> <<>>]
      ELSE IF size.len <= 0 THEN [ok |-> TRUE, buf |-> <<>>]
      ELSE [ok |-> Len(buf) = size.len, buf |-> buf]

\* [io/stdfile.hpp 569-578 stdfile_writer::write_binary]
\* TRUE whatever flush() returned; the destructor closes the file.
write_binary(disk, bytes) == close(flush(write(open(NoFile(disk), "wb"), bytes)))

\* [os/file_system.hpp 276-299 file_system::create_file]
\* The blocks hold whatever was in the memory ("?").
create_file(disk, fileSize) ==
  LET block(n)    == [i \in 1 .. n |-> "?"]
      blockCount  == fileSize \div BlockSize
      paddingSize == fileSize % BlockSize
      blocks      == [i \in 1 .. blockCount |-> block(BlockSize)] \o (IF paddingSize > 0 THEN <<block(paddingSize)>> ELSE <<>>)
  IN  close(flush(FoldLeft(write, open(NoFile(disk), "wb"), blocks)))

\* f_ideal: the content and the place the calls ask for, the content at the
\* last flush, what was written since, and what was read since the last move.
NewIdeal(content) == [content |-> content, place |-> 0, flushed |-> content, since |-> <<>>, got |-> <<>>, from |-> 0]

Call(part) == f_part = part /\ f_calls < MaxFileCalls /\ f_calls' = f_calls + 1 /\ UNCHANGED f_part

open_file(mode) ==
  /\ Call("stdio") /\ ~f_now.open
  /\ f_now' = open(f_now, mode)
  /\ f_ideal' = IF f_now'.open THEN NewIdeal(f_now'.disk) ELSE f_ideal

write_file(bytes) ==
  /\ Call("stdio") /\ f_now.open /\ f_now.mode \in WriteModes /\ f_now.last # "read"
  /\ Len(Content(f_now)) + Len(bytes) <= MaxFile
  /\ f_now' = write(f_now, bytes)
  /\ LET at == IF f_now.mode = "ab" THEN Len(f_ideal.content) ELSE f_ideal.place
     IN  f_ideal' = [f_ideal EXCEPT !.content = Put(@, at, bytes), !.place = at + Len(bytes),
                                    !.since = Append(@, <<at, bytes>>), !.got = <<>>, !.from = at + Len(bytes)]

\* read, read_byte, read_struct and read_line.
read_file(bytes) ==
  /\ Call("stdio") /\ f_now.open /\ f_now.mode \in ReadModes /\ f_now.last # "write"
  /\ f_now' = [f_now EXCEPT !.pos = @ + Len(bytes), !.last = "read"]
  /\ f_ideal' = [f_ideal EXCEPT !.place = @ + Len(bytes), !.got = @ \o bytes]

seek_file(place) ==
  /\ Call("stdio") /\ f_now.open
  /\ f_now' = seek(f_now, place)
  /\ f_ideal' = [f_ideal EXCEPT !.place = place, !.got = <<>>, !.from = place,
                                !.flushed = @, !.since = @]

size_file ==
  /\ Call("stdio") /\ f_now.open
  /\ f_now' = get_size(f_now).f
  /\ UNCHANGED f_ideal

flush_file ==
  /\ Call("stdio") /\ f_now.open
  /\ f_now' = flush(f_now)
  /\ f_ideal' = IF f_now'.failed THEN f_ideal ELSE [f_ideal EXCEPT !.flushed = f_ideal.content, !.since = <<>>]

\* [io/stdfile.hpp 528-541 stdfile_writer::close]
close_file ==
  /\ Call("stdio") /\ f_now.open
  /\ f_now' = close(flush(f_now))
  /\ f_ideal' = IF f_now.failed \/ flush(f_now).failed THEN f_ideal
                ELSE [f_ideal EXCEPT !.flushed = f_ideal.content, !.since = <<>>]

\* [external setvbuf]
\* The buffer of stdio is full: its first bytes go to the system.
Spill ==
  /\ f_part = "stdio" /\ f_now.pending # <<>> /\ f_now.pending[1][1] < Quota
  /\ f_now' = [f_now EXCEPT !.disk = Stored(@, <<Head(f_now.pending)>>), !.pending = Tail(@)]
  /\ UNCHANGED <<f_part, f_ideal, f_calls>>

\* [external abort]
\* The process ends without running any destructor.
Crash ==
  /\ Call("stdio") /\ f_now.open
  /\ f_now' = NoFile(f_now.disk)
  /\ UNCHANGED f_ideal

whole_file ==
  /\ Call("stdio") /\ ~f_now.open
  /\ \E bytes \in Data \cup {<<"?">>} :
       LET size == MaxFile - 1
       IN  /\ f_now' = IF bytes = <<"?">> THEN create_file(f_now.disk, size) ELSE write_binary(f_now.disk, bytes)
           /\ f_ideal' = NewIdeal(IF bytes # <<"?">> THEN SubSeq(bytes, 1, IF Len(bytes) < Quota THEN Len(bytes) ELSE Quota)
                                  ELSE [i \in 1 .. (IF size < Quota THEN size ELSE Quota) |-> "?"])

StdioNext ==
  \/ \E mode \in ReadModes \cup WriteModes : open_file(mode)
  \/ \E bytes \in Data : write_file(bytes)
  \/ \E n \in 1 .. 2 : f_now.open /\ read_file(ReadBytes(f_now, n))
  \/ f_now.open /\ read_file(LineBytes(f_now))
  \/ \E place \in 0 .. Len(f_ideal.content) : seek_file(place)
  \/ size_file \/ flush_file \/ close_file \/ Spill \/ Crash \/ whole_file

-----------------------------------------------------------------------------
(* Copying, one system call a step.                                        *)

Sources == {<<>>, <<"a", "b", "c">>}
Targets == {Missing, <<"x">>, <<"x", "x", "x", "x">>}

NewCopy(src, dst, overwrite) ==
  [pc |-> "open", src |-> src, dst |-> dst, overwrite |-> overwrite, read |-> 0, buf |-> <<>>, written |-> 0,
   at |-> 0, ok |-> TRUE]

CopyStep(pc) == f_part = "copy" /\ f_now.pc = pc /\ UNCHANGED <<f_part, f_ideal, f_calls>>

\* [os/file_system.hpp 88-107 api_copy_file]
\* An existing target is opened as it is: its bytes are not cut off.
open_copy ==
  /\ CopyStep("open")
  /\ f_now' = IF ~f_now.overwrite /\ f_now.dst # Missing THEN [f_now EXCEPT !.pc = "done", !.ok = FALSE]
              ELSE [f_now EXCEPT !.pc = "read", !.dst = IF @ = Missing THEN <<>> ELSE @]

\* [external read]
\* Any number of bytes up to the end, or an error.
read_copy(n) ==
  /\ CopyStep("read")
  /\ n <= Len(f_now.src) - f_now.read
  /\ n = 0 => f_now.read = Len(f_now.src)
  /\ f_now' = IF n < 0 THEN [f_now EXCEPT !.pc = "close", !.ok = FALSE]
              ELSE IF n = 0 THEN [f_now EXCEPT !.pc = "close"]
              ELSE [f_now EXCEPT !.pc = "write", !.buf = SubSeq(f_now.src, f_now.read + 1, f_now.read + n),
                                 !.read = @ + n, !.written = 0]

\* [os/file_system.hpp 109-126 api_copy_file]
write_copy(n) ==
  /\ CopyStep("write")
  /\ n <= Len(f_now.buf) - f_now.written
  /\ f_now' = IF n < 0 THEN [f_now EXCEPT !.pc = "close", !.ok = FALSE]
              ELSE LET sent == f_now.written + n
                   IN  [f_now EXCEPT !.dst = Put(@, f_now.at, SubSeq(f_now.buf, f_now.written + 1, sent)),
                                     !.at = @ + n, !.written = sent,
                                     !.pc = IF sent < Len(f_now.buf) THEN "write" ELSE "read"]

\* [os/file_system.hpp 128-132 api_copy_file]
close_copy ==
  /\ CopyStep("close")
  /\ \E closed \in BOOLEAN : f_now' = [f_now EXCEPT !.pc = "done", !.ok = @ /\ closed]

CopyNext ==
  \/ open_copy \/ close_copy
  \/ \E n \in {-1} \cup 0 .. BlockSize : read_copy(n)
  \/ \E n \in {-1} \cup 1 .. BlockSize : write_copy(n)

-----------------------------------------------------------------------------
(* Directories.  A path is the sequence of its names; dirs: the ones that  *)
(* exist.  depth: the prefix of path that do_create_directories is at;     *)
(* late: those another process made after they were found missing.         *)

Goal == <<"a", "b", "c">>
Prefix(n) == SubSeq(Goal, 1, n)
Goals == {Prefix(n) : n \in 1 .. Len(Goal)}

NewDirectories(dirs) == [pc |-> "test", dirs |-> dirs, depth |-> Len(Goal), ok |-> TRUE, late |-> {}]

DirectoryStep(pc) == f_part = "directories" /\ f_now.pc = pc /\ UNCHANGED <<f_part, f_ideal, f_calls>>

\* [os/file_system.hpp 174-187 file_system::directory_exists]
directory_exists(path) == path \in f_now.dirs

\* [os/file_system.hpp 345-354 file_system::do_create_directories]
\* Down to the first directory that exists.
test_directory ==
  /\ DirectoryStep("test")
  /\ f_now' = IF directory_exists(Prefix(f_now.depth)) THEN [f_now EXCEPT !.pc = "made"]
              ELSE IF f_now.depth = 1 THEN [f_now EXCEPT !.pc = "make"]
              ELSE [f_now EXCEPT !.depth = @ - 1]

\* [os/file_system.hpp 203-214 file_system::create_directories]
\* The call for this prefix has returned true.
return_directory ==
  /\ DirectoryStep("made")
  /\ f_now' = IF f_now.depth = Len(Goal) THEN [f_now EXCEPT !.pc = "done"]
              ELSE [f_now EXCEPT !.pc = "make", !.depth = @ + 1]

\* [os/file_system.hpp 134-139 api_create_directory]
\* mkdir fails when another process has made the directory meanwhile: the
\* assertion fails, or without assertions the answer is false.
make_directory ==
  /\ DirectoryStep("make")
  /\ LET dir == Prefix(f_now.depth)
     IN  f_now' = IF dir \in f_now.dirs THEN [f_now EXCEPT !.pc = "done", !.ok = FALSE]
                  ELSE [f_now EXCEPT !.pc = "made", !.dirs = @ \cup {dir}]

\* [external mkdir]
\* Another process makes a directory in a parent that exists.
OtherMakes ==
  /\ f_part = "directories" /\ f_now.pc # "done"
  /\ \E n \in 1 .. Len(Goal) :
       /\ Prefix(n) \notin f_now.dirs /\ (n = 1 \/ Prefix(n - 1) \in f_now.dirs)
       /\ f_now' = [f_now EXCEPT !.dirs = @ \cup {Prefix(n)},
                                 !.late = IF f_now.pc # "test" \/ n > f_now.depth
                                          THEN @ \cup {Prefix(n)} ELSE @]
  /\ UNCHANGED <<f_part, f_ideal, f_calls>>

DirectoryNext == test_directory \/ return_directory \/ make_directory \/ OtherMakes

-----------------------------------------------------------------------------
(* Streams over std::istream and std::ostream.  place is -1 after a read   *)
(* beyond the end: tellg() of a stream that has failed.                    *)

StreamContent == <<"a", "b", "c">>

\* [io/istream_stream.hpp 21-27 istream_stream::istream_stream]
\* The size is found at the end, and the place is restored.
NewStreams == [in |-> 0, m_size |-> Len(StreamContent), out |-> <<>>, place |-> 0]

\* [io/istream_stream.hpp 45-50 istream_stream::available]
available == f_now.m_size - f_now.in

\* Mutant of read_stream: the stream stays where it was.
read_stream_again(n) ==
  /\ Call("stream") /\ n <= available
  /\ f_now' = f_now
  /\ f_ideal' = [f_ideal EXCEPT !.got = @ \o SubSeq(StreamContent, f_now.in + 1, f_now.in + n), !.asked = @ + n]

\* [io/istream_stream.hpp 30-43 istream_stream::read]
\* The answer is the size asked for, however many bytes there were.
read_stream(n) ==
  /\ Call("stream")
  /\ n <= available \/ f_ideal.careless
  /\ f_now' = [f_now EXCEPT !.in = IF @ >= 0 /\ @ + n <= Len(StreamContent) THEN @ + n ELSE -1]
  /\ f_ideal' = [f_ideal EXCEPT !.got = IF f_now.in < 0 THEN @
                                        ELSE @ \o SubSeq(StreamContent, f_now.in + 1,
                                                         IF f_now'.in < 0 THEN Len(StreamContent) ELSE f_now'.in),
                                !.asked = @ + n]

\* [io/istream_stream.hpp 52-69 istream_stream::skip]
skip_stream(n) ==
  /\ Call("stream") /\ n <= available /\ f_now.in >= 0
  /\ f_now' = [f_now EXCEPT !.in = @ + n]
  /\ f_ideal' = [f_ideal EXCEPT !.got = @ \o SubSeq(StreamContent, f_now.in + 1, f_now.in + n), !.asked = @ + n]

\* [io/ostream_stream.hpp 29-36 ostream_stream::size]
\* To the end and back: the place does not change.
out_size == Len(f_now.out)

\* [io/ostream_stream.hpp 38-71 ostream_stream::write_chars]
write_stream(bytes) ==
  /\ Call("stream") /\ f_now.place + Len(bytes) <= MaxFile
  /\ f_now' = [f_now EXCEPT !.out = Put(@, f_now.place, bytes), !.place = @ + Len(bytes)]
  /\ f_ideal' = [f_ideal EXCEPT !.out = Put(@, f_ideal.place, bytes), !.place = @ + Len(bytes)]

\* [io/ostream_stream.hpp 73-86 ostream_stream::seek]
seek_stream(place) ==
  /\ Call("stream")
  /\ f_now' = IF place > out_size THEN f_now ELSE [f_now EXCEPT !.place = place]
  /\ f_ideal' = [f_ideal EXCEPT !.place = IF place > Len(f_ideal.out) THEN @ ELSE place]

StreamNext ==
  \/ \E n \in 1 .. 2 : read_stream(n) \/ skip_stream(n)
  \/ \E bytes \in Data : write_stream(bytes)
  \/ \E place \in 0 .. MaxFile : seek_stream(place)

-----------------------------------------------------------------------------
FilesInit ==
  /\ f_calls = 0
  /\ \/ \E disk \in {Missing, <<"a", "n">>} :
          f_part = "stdio" /\ f_now = NoFile(disk) /\ f_ideal = NewIdeal(disk)
     \/ \E src \in Sources, dst \in Targets, overwrite \in BOOLEAN :
          f_part = "copy" /\ f_now = NewCopy(src, dst, overwrite) /\ f_ideal = dst
     \/ \E n \in 0 .. Len(Goal) :
          f_part = "directories" /\ f_now = NewDirectories({Prefix(i) : i \in 1 .. n}) /\ f_ideal = <<>>
     \/ \E careless \in BOOLEAN :
          /\ f_part = "stream" /\ f_now = NewStreams
          /\ f_ideal = [got |-> <<>>, asked |-> 0, careless |-> careless, out |-> <<>>, place |-> 0]

FilesNext ==
  \/ f_part = "stdio" /\ StdioNext
  \/ f_part = "copy" /\ CopyNext
  \/ f_part = "directories" /\ DirectoryNext
  \/ f_part = "stream" /\ StreamNext

-----------------------------------------------------------------------------
(* Properties.                                                             *)

\* The writes of a sequence, one byte after another.
Singles(since) ==
  FlattenSeq([k \in DOMAIN since |-> [i \in DOMAIN since[k][2] |-> <<since[k][1] + i - 1, since[k][2][i]>>]])

\* A file, and a stream, is an array of bytes with a place: asking for its
\* size does not move the place, reads give its bytes in order, and what
\* read_binary returns is all of it.  After a crash the file holds what the
\* last flush() that returned true left, followed by some of what was written
\* since and nothing else.  (A disk that is full is reported by flush() only.)
FilesHold ==
  /\ f_part = "stdio" =>
       /\ f_now.open /\ ~f_now.failed /\ Len(f_ideal.content) <= Quota =>
            /\ Content(f_now) = f_ideal.content
            /\ get_position(f_now) = f_ideal.place
            /\ get_size(f_now).len = Len(f_ideal.content)
            /\ f_ideal.got = SubSeq(f_ideal.content, f_ideal.from + 1, f_ideal.place)
       /\ f_now.disk # Missing =>
            LET since == Singles(f_ideal.since)
            IN  \E n \in 0 .. Len(since) : f_now.disk = Stored(f_ideal.flushed, SubSeq(since, 1, n))
       /\ \A maxSize \in 0 .. MaxFile :
            LET r == read_binary(f_now.disk, maxSize)
            IN  r.ok = (f_now.disk # Missing /\ Len(f_now.disk) <= maxSize) /\ (r.ok => r.buf = f_now.disk)
  /\ f_part = "stream" =>
       /\ ~f_ideal.careless => /\ f_ideal.asked = Len(f_ideal.got)
                               /\ f_ideal.got = SubSeq(StreamContent, 1, f_ideal.asked)
                               /\ available = Len(StreamContent) - f_ideal.asked
       /\ IsPrefix(f_ideal.got, StreamContent)
       /\ f_now.out = f_ideal.out /\ f_now.place = f_ideal.place

\* A copy that returns true has laid its source over the start of the target,
\* whatever single reads and writes return; the end of a longer target stays
\* behind it (there is no O_TRUNC).  Without overwrite an existing target is left
\* alone.  create_directories makes every directory of the path, those that
\* another process makes before they are looked for included; it fails, in the
\* assertion of api_create_directory (line 137), exactly when another process makes
\* one after it was found missing.
CopiesAndDirectories ==
  /\ f_part = "copy" /\ f_now.pc = "done" =>
       IF ~f_now.overwrite /\ f_ideal # Missing THEN ~f_now.ok /\ f_now.dst = f_ideal
       ELSE f_now.ok => f_now.dst = Put(IF f_ideal = Missing THEN <<>> ELSE f_ideal, 0, f_now.src)
  /\ f_part = "directories" /\ f_now.pc = "done" =>
       /\ f_now.ok => Goals \subseteq f_now.dirs
       /\ f_now.ok <=> f_now.late = {}
=============================================================================
