-------------------------------- MODULE FdIo --------------------------------
(***************************************************************************)
(* write_to_fd and read_from_fd of src/util.c over one direction of a      *)
(* connection.  A kernel accepts and hands out any number of bytes at a    *)
(* time, holds a bounded number of them, and tells the reader of the       *)
(* writer's end by an end of file or an error.                             *)
(*                                                                         *)
(* The writer builds a packet in a few buffers (write_to_fd once each),    *)
(* the reader takes it apart in others, usually one for each field.  Byte  *)
(* i is the i-th byte the writer means to write; all the buffers of a side *)
(* are laid end to end, so that byte i belongs at place i on both sides.   *)
(* The callers look at no result, and a call that failed is followed by    *)
(* the next.                                                               *)
(***************************************************************************)
EXTENDS Integers, Sequences

CONSTANTS Total,    \* the bytes of the packets
          Writes,   \* calls of write_to_fd
          Reads,    \* calls of read_from_fd
          WriteEnd, \* where the buffer of each write ends, and likewise ...
          ReadEnd,  \* ... that of each read
          Capacity  \* the bytes a connection holds

IsCutting(end, calls) ==
    /\ end \in [0 .. calls -> 0 .. Total]
    /\ end[0] = 0 /\ end[calls] = Total
    /\ \A k \in 1 .. calls : end[k - 1] <= end[k]

ASSUME FdIoAssumption ==
    /\ Total \in Nat /\ Writes \in Nat /\ Reads \in Nat
    /\ Capacity \in Nat \ {0}
    /\ IsCutting(WriteEnd, Writes)
    /\ IsCutting(ReadEnd, Reads)

Place == 1 .. Total
Nothing == 0        \* what a buffer holds before it is written
Running == -2       \* the result of a call that has not returned

VARIABLES
    link,    \* "open", or the writer's end: "ended" in order, "reset"
    call,    \* the write_to_fd at work
    written, \* its counter
    stream,  \* the bytes the kernel has accepted, in the order it did
    sent,    \* how many
    taken,   \* how many it has handed out
    reader,  \* "up" or "gone"
    field,   \* the read_from_fd at work
    _read,   \* its counter
    buffer,  \* the memory of the reader
    result   \* what the reads have returned

writerVars == <<call, written>>
readerVars == <<field, _read, buffer, result>>
vars == <<link, stream, sent, taken, reader, writerVars, readerVars>>

Init ==
    /\ link = "open"
    /\ call = 1 /\ written = 0
    /\ stream = [i \in Place |-> Nothing]
    /\ sent = 0 /\ taken = 0
    /\ reader = "up"
    /\ field = 1 /\ _read = 0
    /\ buffer = [i \in Place |-> Nothing]
    /\ result = [k \in 1 .. Reads |-> Running]

-----------------------------------------------------------------------------
(* write_to_fd.                                                            *)

IsWriting == link = "open" /\ call \in 1 .. Writes
WriteSize == WriteEnd[call] - WriteEnd[call - 1]

\* The kernel accepts n bytes of the writer's memory, from the given place on.
Accepts(n, from) ==
    /\ sent - taken + n <= Capacity
    /\ stream' = [i \in Place |-> IF i \in sent + 1 .. sent + n THEN from + i - sent
                                  ELSE stream[i]]
    /\ sent' = sent + n
    /\ UNCHANGED <<link, taken, reader, call, readerVars>>

\* Faulty variant: the buffer is started again, write(fd, buffer, size - written).
WriteFromStart(n) ==
    /\ IsWriting /\ reader = "up"
    /\ n <= WriteSize - written
    /\ Accepts(n, WriteEnd[call - 1])
    /\ written' = written + n

\* Faulty variant: everything at once or nothing.
WriteAtOnce(n) ==
    /\ IsWriting /\ reader = "up"
    /\ n = WriteSize - written
    /\ Accepts(n, WriteEnd[call - 1] + written)
    /\ written' = written + n

\* write() returns n.
Write(n) ==
    /\ IsWriting /\ reader = "up"
    /\ n <= WriteSize - written
    /\ Accepts(n, WriteEnd[call - 1] + written)
    /\ written' = written + n

\* The loop is left, and the writer goes on to its next buffer.
WriteReturns ==
    /\ IsWriting
    /\ written = WriteSize
    /\ call' = call + 1
    /\ written' = 0
    /\ UNCHANGED <<link, stream, sent, taken, reader, readerVars>>

\* Nobody reads any more: the bytes are accepted as long as that is not known, then
\* write() returns -1, ...
WriteFails ==
    /\ IsWriting /\ reader = "gone"
    /\ written < WriteSize
    /\ \/ written' \in written + 1 .. WriteSize /\ UNCHANGED call
       \/ call' = call + 1 /\ written' = 0
    /\ UNCHANGED <<link, stream, sent, taken, reader, readerVars>>

\* ... or SIGPIPE ends the process.  A process may also end, or close its end of the
\* connection, at any other time.  What the kernel has accepted is still delivered.
WriterEnds ==
    /\ link = "open"
    /\ link' = "ended"
    /\ UNCHANGED <<stream, sent, taken, reader, writerVars, readerVars>>

\* The connection was closed with unread data: a reset, which may overtake bytes.
WriterResets ==
    /\ link = "open"
    /\ link' = "reset"
    /\ sent' \in taken .. sent
    /\ UNCHANGED <<stream, taken, reader, writerVars, readerVars>>

-----------------------------------------------------------------------------
(* read_from_fd.                                                           *)

IsReading == reader = "up" /\ field \in 1 .. Reads
Size(k) == ReadEnd[k] - ReadEnd[k - 1]

\* read() returns n bytes, and puts them into the reader's memory after the given place.
Fetches(n, after) ==
    /\ n <= sent - taken
    /\ buffer' = [i \in Place |-> IF i \in after + 1 .. after + n THEN stream[taken + i - after]
                                  ELSE buffer[i]]
    /\ taken' = taken + n
    /\ UNCHANGED <<link, stream, sent, reader, writerVars, field, result>>

\* Faulty variant: read(fd, buffer, size - _read).
ReadToStart(n) ==
    /\ IsReading
    /\ n <= Size(field) - _read
    /\ Fetches(n, ReadEnd[field - 1])
    /\ _read' = _read + n

\* Faulty variant: read(fd, buffer + _read, size).
ReadPastEnd(n) ==
    /\ IsReading
    /\ n <= Size(field)
    /\ Fetches(n, ReadEnd[field - 1] + _read)
    /\ _read' = _read + n

\* read() returns n.
Read(n) ==
    /\ IsReading
    /\ n <= Size(field) - _read
    /\ Fetches(n, ReadEnd[field - 1] + _read)
    /\ _read' = _read + n

Returns(value) ==
    /\ result' = [result EXCEPT ![field] = value]
    /\ field' = field + 1
    /\ _read' = 0
    /\ UNCHANGED <<stream, sent, taken, reader, writerVars, buffer>>

\* The loop is left: there is nothing to read for an empty field.
ReadReturns == IsReading /\ _read = Size(field) /\ Returns(_read) /\ UNCHANGED link

AtEnd == IsReading /\ _read < Size(field) /\ taken = sent

\* Faulty variant: what has been read is returned at the end of file.
EofReturnsRead == AtEnd /\ link = "ended" /\ Returns(Size(field)) /\ UNCHANGED link

\* read() returns 0, and so does read_from_fd.
ReadEof == AtEnd /\ link = "ended" /\ Returns(0) /\ UNCHANGED link

\* read() returns -1, once.
ReadError == AtEnd /\ link = "reset" /\ Returns(-1) /\ link' = "ended"

ReaderEnds ==
    /\ reader = "up"
    /\ reader' = "gone"
    /\ UNCHANGED <<link, stream, sent, taken, writerVars, readerVars>>

-----------------------------------------------------------------------------
WriterStep == (\E n \in Place : Write(n)) \/ WriteReturns \/ WriteFails
ReaderStep == (\E n \in Place : Read(n)) \/ ReadReturns \/ ReadEof \/ ReadError

Next == WriterStep \/ ReaderStep \/ WriterEnds \/ WriterResets \/ ReaderEnds

Spec == Init /\ [][Next]_vars

\* Both processes run, and the kernel accepts and delivers what it can.
FairSpec == Spec /\ WF_vars(WriterStep) /\ WF_vars(ReaderStep)

-----------------------------------------------------------------------------
TypeOK ==
    /\ link \in {"open", "ended", "reset"}
    /\ call \in 1 .. Writes + 1
    /\ written \in Nat /\ (call <= Writes => written <= WriteSize)
    /\ stream \in [Place -> Place \cup {Nothing}]
    /\ sent \in 0 .. Total
    /\ taken \in 0 .. sent
    /\ reader \in {"up", "gone"}
    /\ field \in 1 .. Reads + 1
    /\ _read \in Nat /\ (field <= Reads => _read <= Size(field))
    /\ buffer \in [Place -> Place \cup {Nothing}]
    /\ result \in [1 .. Reads -> {Running, -1} \cup 0 .. Total]

Bytes(k) == ReadEnd[k - 1] + 1 .. ReadEnd[k]
IsWhole(k) == \A i \in Bytes(k) : buffer[i] = i

\* What read_from_fd returns tells the caller whether the buffer holds the field: its
\* size if every byte is in its place, and otherwise 0 or -1, with at least one byte
\* that was never written.
ResultTellsTheField ==
    \A k \in 1 .. field - 1 :
       \/ result[k] = Size(k) /\ IsWhole(k)
       \/ result[k] \in {0, -1} /\ \E i \in Bytes(k) : buffer[i] = Nothing

\* A call writes nothing outside of its buffer: what is to hold later fields is as it was,
\* and no byte is ever at another's place.
BuffersAreApart ==
    \A i \in Place : /\ buffer[i] \in {i, Nothing}
                     /\ field <= Reads /\ i > ReadEnd[field - 1] + _read => buffer[i] = Nothing

\* The reader's calls implement FieldStream.
Stream == INSTANCE FieldStream
          WITH Fields <- Reads,
               Empty <- {k \in 1 .. Reads : Size(k) = 0},
               got <- [k \in 1 .. field - 1 |-> IF IsWhole(k) THEN "whole" ELSE "cut"]
IsAFieldStream == Stream!Spec

\* Packets larger than the connection can hold arrive all the same, also when the writer
\* ends as soon as its last write has returned, unless the reader ends, the writer ends
\* in the middle, or the connection is reset.
PacketsArrive ==
    <>(\/ \A k \in 1 .. Reads : IsWhole(k)
       \/ reader = "gone"
       \/ link = "ended" /\ call <= Writes
       \/ link = "reset" \/ \E k \in 1 .. Reads : result[k] = -1)
=============================================================================
