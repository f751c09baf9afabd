----------------------------- MODULE FdIoProofs -----------------------------
(***************************************************************************)
(* FdIo, for packets of any length, cut in any way, over connections of    *)
(* any capacity: what a read returns tells whether its buffer holds the    *)
(* field, buffers do not run into each other, and the calls of the reader  *)
(* implement FieldStream.                                                  *)
(*                                                                         *)
(* IInv says that the reader's memory is what it has taken from the        *)
(* kernel, byte for byte and in order, and that once a read has failed     *)
(* nothing is left to take.                                                *)
(***************************************************************************)
EXTENDS FdIo, TLAPS

\* A read of at least one byte has come to the end of the connection.
HasFailed == \E k \in 1 .. field - 1 : Size(k) > 0 /\ result[k] # Size(k)

StreamInv ==
    /\ link = "open" /\ reader = "up" => sent = WriteEnd[call - 1] + written
    /\ \A i \in 1 .. sent : stream[i] = i

TakenInv ==
    /\ taken <= ReadEnd[field - 1] + _read
    /\ ~HasFailed => taken = ReadEnd[field - 1] + _read
    /\ HasFailed => link = "ended" /\ taken = sent /\ _read = 0

MemoryInv == \A i \in Place : buffer[i] = IF i <= taken THEN i ELSE Nothing

ResultInv ==
    \A k \in 1 .. field - 1 :
       \/ result[k] = Size(k) /\ (Size(k) = 0 \/ ReadEnd[k] <= taken)
       \/ result[k] \in {0, -1} /\ Size(k) > 0 /\ taken < ReadEnd[k]

IInv == TypeOK /\ StreamInv /\ TakenInv /\ MemoryInv /\ ResultInv

-----------------------------------------------------------------------------
\* The ends of the buffers of both sides are places, in their order.
LEMMA Cuttings ==
    /\ \A k \in 0 .. Writes : WriteEnd[k] \in 0 .. Total
    /\ \A k \in 1 .. Writes : WriteEnd[k - 1] <= WriteEnd[k] /\ WriteEnd[k - 1] \in 0 .. Total
    /\ \A k \in 0 .. Reads : ReadEnd[k] \in 0 .. Total
    /\ \A k \in 1 .. Reads : /\ ReadEnd[k - 1] <= ReadEnd[k] /\ ReadEnd[k - 1] \in 0 .. Total
                             /\ Size(k) \in 0 .. Total
    /\ WriteEnd[0] = 0 /\ ReadEnd[0] = 0
    /\ Total \in Nat /\ Writes \in Nat /\ Reads \in Nat /\ Capacity \in Nat
BY FdIoAssumption DEF IsCutting, Size

\* At the start nothing has been sent, taken or returned.
LEMMA InitIInv == Init => IInv
<1> SUFFICES ASSUME Init PROVE IInv
    OBVIOUS
<1> USE Cuttings DEF Init
<1>1. TypeOK
    BY DEF TypeOK, WriteSize, Place, Nothing, Running, Size
<1>2. StreamInv
    BY DEF StreamInv
<1>3. TakenInv
    BY DEF TakenInv, HasFailed
<1>4. MemoryInv
    BY DEF MemoryInv, Place, Nothing
<1>5. ResultInv
    BY DEF ResultInv
<1> QED
    BY <1>1, <1>2, <1>3, <1>4, <1>5 DEF IInv

\* The reader's half of IInv does not depend on the rest, as long as nothing taken is
\* lost and, once a read has failed, nothing comes after it.
LEMMA ReaderUntouched ==
    ASSUME IInv, UNCHANGED <<field, _read, buffer, result, taken>>,
           HasFailed => link' = link /\ sent' = sent
    PROVE  TakenInv' /\ MemoryInv' /\ ResultInv'
<1>1. HasFailed' <=> HasFailed
    BY DEF HasFailed, Size
<1>2. TakenInv'
    BY <1>1, Cuttings DEF IInv, TakenInv, TypeOK
<1>3. MemoryInv' /\ ResultInv'
    BY DEF IInv, MemoryInv, ResultInv, Size
<1> QED
    BY <1>2, <1>3

\* While a connection is open no read has failed.
LEMMA OpenMeansSound == IInv /\ link # "ended" => ~HasFailed
BY DEF IInv, TakenInv

\* The part of TypeOK that speaks of the reader.
ReaderOK ==
    /\ field \in 1 .. Reads + 1
    /\ _read \in Nat /\ (field <= Reads => _read <= Size(field))
    /\ buffer \in [Place -> Place \cup {Nothing}]
    /\ result \in [1 .. Reads -> {Running, -1} \cup 0 .. Total]

\* write() has accepted n bytes.
LEMMA WriteStep ==
    ASSUME IInv, NEW n \in Place, Write(n)
    PROVE  IInv'
<1>0. ReaderOK /\ UNCHANGED <<field, _read, buffer, result, taken>>
    BY DEF IInv, TypeOK, ReaderOK, Write, Accepts, readerVars
<1>1. /\ n \in 1 .. Total /\ sent \in Nat /\ taken \in Nat /\ taken <= sent
      /\ call \in 1 .. Writes /\ written \in Nat
      /\ link = "open" /\ reader = "up"
      /\ sent = WriteEnd[call - 1] + written
      /\ written + n <= WriteEnd[call] - WriteEnd[call - 1]
  <2>1. /\ link = "open" /\ reader = "up" /\ call \in 1 .. Writes
        /\ n <= WriteEnd[call] - WriteEnd[call - 1] - written
      BY DEF Write, IsWriting, WriteSize
  <2>2. /\ n \in 1 .. Total /\ sent \in Nat /\ taken \in Nat /\ taken <= sent
        /\ written \in Nat
      BY Cuttings DEF IInv, TypeOK, Place
  <2>3. sent = WriteEnd[call - 1] + written
      BY <2>1 DEF IInv, StreamInv
  <2>4. WriteEnd[call] \in Nat /\ WriteEnd[call - 1] \in Nat
      BY <2>1, Cuttings
  <2> QED
      BY <2>1, <2>2, <2>3, <2>4
<1>2. /\ sent' = sent + n /\ written' = written + n
      /\ UNCHANGED <<link, call, reader>>
    BY DEF Write, Accepts
<1>3. stream' = [i \in Place |-> IF i \in sent + 1 .. sent + n THEN i ELSE stream[i]]
  <2>1. WriteEnd[call - 1] \in Nat
      BY <1>1, Cuttings
  <2>2. \A i \in Place : WriteEnd[call - 1] + written + i - sent = i
      BY <2>1, <1>1 DEF Place
  <2> QED
      BY <2>2 DEF Write, Accepts
<1>4. sent' \in 0 .. Total
    BY <1>1, <1>2, Cuttings
<1>5. stream' \in [Place -> Place \cup {Nothing}]
    BY <1>3 DEF IInv, TypeOK
<1>6. TypeOK'
    BY <1>0, <1>1, <1>2, <1>4, <1>5 DEF TypeOK, ReaderOK, WriteSize, IInv, Size
<1>7. \A i \in 1 .. sent' : stream'[i] = i
  <2>1. \A i \in 1 .. sent : stream[i] = i
      BY DEF IInv, StreamInv
  <2>2. \A i \in 1 .. sent' : i \in Place
      BY <1>4, Cuttings DEF Place
  <2>3. \A i \in 1 .. sent' : i \in 1 .. sent \/ i \in sent + 1 .. sent + n
      BY <1>1, <1>2
  <2> QED
      BY <1>3, <2>1, <2>2, <2>3
<1>8. StreamInv'
    BY <1>1, <1>2, <1>7, Cuttings DEF StreamInv
<1>9. TakenInv' /\ MemoryInv' /\ ResultInv'
    BY <1>0, <1>1, OpenMeansSound, ReaderUntouched
<1> QED
    BY <1>6, <1>8, <1>9 DEF IInv

\* write_to_fd returns, or fails because nobody reads.
LEMMA WriteEndsStep ==
    ASSUME IInv, WriteReturns \/ WriteFails
    PROVE  IInv'
<1>1. UNCHANGED <<link, stream, sent, reader, taken, field, _read, buffer, result>>
    BY DEF WriteReturns, WriteFails, readerVars
<1>2. call \in 1 .. Writes /\ written \in Nat /\ link = "open"
    BY DEF IInv, TypeOK, WriteReturns, WriteFails, IsWriting
<1>3. WriteEnd[call - 1] \in 0 .. Total /\ WriteEnd[call] \in 0 .. Total
    BY <1>2, Cuttings
<1>4. CASE call' = call + 1 /\ written' = 0 /\ (reader = "gone" \/ written = WriteSize)
  <2>1. call' \in 1 .. Writes + 1 /\ (call' <= Writes => 0 <= WriteEnd[call'] - WriteEnd[call' - 1])
      BY <1>2, <1>4, Cuttings
  <2>2. TypeOK'
      BY <1>1, <1>4, <2>1 DEF IInv, TypeOK, WriteSize, Size
  <2>3. reader = "up" => sent = WriteEnd[call' - 1] + written'
      BY <1>2, <1>3, <1>4 DEF IInv, StreamInv, WriteSize
  <2>4. StreamInv'
      BY <1>1, <2>3 DEF IInv, StreamInv
  <2> QED
      BY <1>1, <2>2, <2>4, ReaderUntouched DEF IInv
<1>5. CASE call' = call /\ written' \in written + 1 .. WriteSize /\ reader = "gone"
  <2>1. written' \in Nat /\ written' <= WriteSize
      BY <1>2, <1>3, <1>5 DEF WriteSize
  <2>2. TypeOK'
      BY <1>1, <1>5, <2>1 DEF IInv, TypeOK, WriteSize, Size
  <2>3. StreamInv'
      BY <1>1, <1>5 DEF IInv, StreamInv
  <2> QED
      BY <1>1, <2>2, <2>3, ReaderUntouched DEF IInv
<1> QED
    BY <1>4, <1>5 DEF WriteReturns, WriteFails

\* The writer's end is closed, in order or by a reset that overtakes bytes.
LEMMA WriterStops ==
    ASSUME IInv, WriterEnds \/ WriterResets
    PROVE  IInv'
<1>1. /\ UNCHANGED <<stream, call, written, reader, taken, field, _read, buffer, result>>
      /\ link = "open" /\ link' \in {"ended", "reset"}
      /\ sent' \in taken .. sent
    BY DEF WriterEnds, WriterResets, writerVars, readerVars, IInv, TypeOK
<1>2. sent' \in 0 .. Total /\ taken \in 0 .. sent'
    BY <1>1, Cuttings DEF IInv, TypeOK
<1>3. TypeOK'
    BY <1>1, <1>2 DEF IInv, TypeOK, WriteSize, Size
<1>4. StreamInv'
    BY <1>1, <1>2 DEF IInv, TypeOK, StreamInv
<1> QED
    BY <1>1, <1>3, <1>4, OpenMeansSound, ReaderUntouched DEF IInv

\* read() has returned n bytes: they are the next ones, and they go where they belong.
LEMMA ReadStep ==
    ASSUME IInv, NEW n \in Place, Read(n)
    PROVE  IInv' /\ ~HasFailed
<1>1. /\ n \in 1 .. Total /\ sent \in 0 .. Total /\ taken \in Nat /\ taken + n <= sent
      /\ field \in 1 .. Reads /\ _read \in Nat
      /\ _read + n <= Size(field) /\ Size(field) = ReadEnd[field] - ReadEnd[field - 1]
    BY Cuttings DEF IInv, TypeOK, Read, Fetches, IsReading, Place, Size
<1>2. ~HasFailed /\ taken = ReadEnd[field - 1] + _read
    BY <1>1 DEF IInv, TakenInv
<1>3. /\ taken' = taken + n /\ _read' = _read + n
      /\ UNCHANGED <<link, stream, sent, reader, call, written, field, result>>
    BY DEF Read, Fetches, writerVars
<1>4. buffer' = [i \in Place |-> IF i \in taken + 1 .. taken + n THEN stream[i] ELSE buffer[i]]
  <2>1. \A i \in Place : taken + i - taken = i
      BY <1>1 DEF Place
  <2> QED
      BY <1>2, <2>1 DEF Read, Fetches
<1>5. \A i \in taken + 1 .. taken + n : i \in Place /\ stream[i] = i
  <2>1. \A i \in 1 .. sent : stream[i] = i
      BY DEF IInv, StreamInv
  <2>2. \A i \in taken + 1 .. taken + n : i \in 1 .. sent /\ i \in Place
      BY <1>1, Cuttings DEF Place
  <2> QED
      BY <2>1, <2>2
<1>6. MemoryInv'
    BY <1>1, <1>3, <1>4, <1>5 DEF IInv, MemoryInv, Place
<1>7. buffer' \in [Place -> Place \cup {Nothing}]
    BY <1>4, <1>5 DEF IInv, TypeOK
<1>8. taken' \in 0 .. sent' /\ _read' \in Nat /\ _read' <= Size(field)
    BY <1>1, <1>3
<1>9. TypeOK'
    BY <1>3, <1>7, <1>8 DEF IInv, TypeOK, WriteSize, Size
<1>10. StreamInv'
    BY <1>3 DEF IInv, StreamInv
<1>11. ~HasFailed'
    BY <1>2, <1>3 DEF HasFailed, Size
<1>12. TakenInv'
    BY <1>1, <1>2, <1>3, <1>11, Cuttings DEF TakenInv
<1>13. ResultInv'
  <2> SUFFICES ASSUME NEW k \in 1 .. field - 1
               PROVE  result[k] = Size(k) /\ (Size(k) = 0 \/ ReadEnd[k] <= taken')
      BY <1>3 DEF ResultInv, Size
  <2>1. k \in 1 .. Reads
      BY <1>1, Cuttings
  <2>2. Size(k) \in Nat /\ ReadEnd[k] \in Nat
      BY <2>1, Cuttings
  <2>3. Size(k) = 0 \/ result[k] = Size(k)
      BY <1>2, <2>2 DEF HasFailed
  <2>4. \/ result[k] = Size(k) /\ (Size(k) = 0 \/ ReadEnd[k] <= taken)
        \/ Size(k) > 0 /\ result[k] \in {0, -1}
      BY DEF IInv, ResultInv
  <2> QED
      BY <1>1, <1>3, <2>2, <2>3, <2>4
<1> QED
    BY <1>2, <1>6, <1>9, <1>10, <1>12, <1>13 DEF IInv

\* What every way for a read to return has in common.
LEMMA ReturnFacts ==
    ASSUME IInv, NEW value, IsReading, Returns(value)
    PROVE  /\ field \in 1 .. Reads /\ field' = field + 1 /\ _read \in Nat /\ _read' = 0
           /\ Size(field) \in 0 .. Total /\ _read <= Size(field)
           /\ Size(field) = ReadEnd[field] - ReadEnd[field - 1]
           /\ ReadEnd[field] \in Nat /\ ReadEnd[field - 1] \in Nat
           /\ taken \in Nat /\ sent \in Nat /\ taken <= sent
           /\ \A k \in 1 .. Reads : result'[k] = IF k = field THEN value ELSE result[k]
           /\ UNCHANGED <<stream, sent, taken, reader, call, written, buffer>>
<1>1. field \in 1 .. Reads /\ _read \in Nat /\ _read <= Size(field)
    BY DEF IInv, TypeOK, IsReading
<1>2. Size(field) = ReadEnd[field] - ReadEnd[field - 1]
    BY DEF Size
<1>3. taken \in Nat /\ sent \in Nat /\ taken <= sent
    BY Cuttings DEF IInv, TypeOK
<1>4. \A k \in 1 .. Reads : result'[k] = IF k = field THEN value ELSE result[k]
    BY DEF IInv, TypeOK, Returns
<1>5. /\ field' = field + 1 /\ _read' = 0
      /\ UNCHANGED <<stream, sent, taken, reader, call, written, buffer>>
    BY DEF Returns, writerVars
<1> QED
    BY <1>1, <1>2, <1>3, <1>4, <1>5, Cuttings

\* A read returns: because its buffer is full, at the end of file, or with an error.
LEMMA ReturnStep ==
    ASSUME IInv, NEW value \in {Running, -1} \cup 0 .. Total, IsReading, Returns(value),
           \/ _read = Size(field) /\ value = _read /\ link' = link
           \/ /\ _read < Size(field) /\ value \in {0, -1}
              /\ taken = sent /\ link # "open" /\ link' = "ended"
    PROVE  IInv'
<1>1. /\ field \in 1 .. Reads /\ field' = field + 1 /\ _read \in Nat /\ _read' = 0
      /\ Size(field) \in 0 .. Total /\ _read <= Size(field)
      /\ Size(field) = ReadEnd[field] - ReadEnd[field - 1]
      /\ ReadEnd[field] \in Nat /\ ReadEnd[field - 1] \in Nat
      /\ taken \in Nat /\ sent \in Nat /\ taken <= sent
      /\ \A k \in 1 .. Reads : result'[k] = IF k = field THEN value ELSE result[k]
      /\ UNCHANGED <<stream, sent, taken, reader, call, written, buffer>>
    BY ReturnFacts
<1>2. TypeOK'
  <2>1. link' \in {"open", "ended", "reset"}
      BY DEF IInv, TypeOK
  <2>2. field' \in 1 .. Reads + 1 /\ (field' <= Reads => 0 <= Size(field'))
      BY <1>1, Cuttings
  <2>3. result' \in [1 .. Reads -> {Running, -1} \cup 0 .. Total]
      BY DEF IInv, TypeOK, Returns
  <2> QED
      BY <1>1, <2>1, <2>2, <2>3 DEF IInv, TypeOK, WriteSize, Size
<1>3. StreamInv'
    BY <1>1 DEF IInv, StreamInv
<1>4. MemoryInv'
    BY <1>1 DEF IInv, MemoryInv
<1>5. HasFailed' <=> HasFailed \/ (Size(field) > 0 /\ value # Size(field))
  <2>1. \A k \in 1 .. field : k \in 1 .. Reads /\ (k \in 1 .. field - 1 \/ k = field)
      BY <1>1, Cuttings
  <2>2. HasFailed' <=> \E k \in 1 .. field : Size(k) > 0 /\ result'[k] # Size(k)
    <3>1. field' - 1 = field
        BY <1>1
    <3> QED
        BY <3>1 DEF HasFailed, Size
  <2>3. HasFailed <=> \E k \in 1 .. field - 1 : Size(k) > 0 /\ result'[k] # Size(k)
    <3>1. \A k \in 1 .. field - 1 : result'[k] = result[k]
        BY <1>1, Cuttings
    <3> QED
        BY <3>1 DEF HasFailed
  <2>4. \A k \in 1 .. field - 1 : k \in 1 .. field
      BY <1>1
  <2>5. field \in 1 .. field /\ result'[field] = value
      BY <1>1
  <2> QED
      BY <2>1, <2>2, <2>3, <2>4, <2>5
<1>6. /\ HasFailed => link = "ended" /\ taken = sent /\ _read = 0
      /\ ~HasFailed => taken = ReadEnd[field - 1] + _read
      /\ taken <= ReadEnd[field - 1] + _read
    BY DEF IInv, TakenInv
<1>7. TakenInv'
  <2>1. taken <= ReadEnd[field]
      BY <1>1, <1>6
  <2>2. CASE _read = Size(field) /\ value = _read /\ link' = link
    <3>1. HasFailed' <=> HasFailed
        BY <1>5, <2>2
    <3>2. ~HasFailed => taken = ReadEnd[field]
        BY <1>1, <1>6, <2>2
    <3> QED
        BY <1>1, <1>6, <2>1, <2>2, <3>1, <3>2 DEF TakenInv
  <2>3. CASE /\ _read < Size(field) /\ value \in {0, -1}
             /\ taken = sent /\ link # "open" /\ link' = "ended"
    <3>1. Size(field) > 0 /\ value # Size(field)
        BY <1>1, <2>3
    <3>2. HasFailed'
        BY <1>5, <3>1
    <3> QED
        BY <1>1, <2>1, <2>3, <3>2 DEF TakenInv
  <2> QED
      BY <2>2, <2>3
<1>8. \/ value = Size(field) /\ (Size(field) = 0 \/ ReadEnd[field] <= taken)
      \/ value \in {0, -1} /\ Size(field) > 0 /\ taken < ReadEnd[field]
  <2>1. CASE _read = Size(field) /\ value = _read
      BY <1>1, <1>6, <2>1
  <2>2. CASE _read < Size(field) /\ value \in {0, -1}
      BY <1>1, <1>6, <2>2
  <2> QED
      BY <2>1, <2>2
<1>9. ResultInv'
  <2> SUFFICES ASSUME NEW k \in 1 .. field
               PROVE  \/ result'[k] = Size(k) /\ (Size(k) = 0 \/ ReadEnd[k] <= taken)
                      \/ result'[k] \in {0, -1} /\ Size(k) > 0 /\ taken < ReadEnd[k]
    <3>1. field' - 1 = field
        BY <1>1
    <3> QED
        BY <1>1, <3>1 DEF ResultInv, Size
  <2>1. k \in 1 .. Reads /\ (k = field \/ (k \in 1 .. field - 1 /\ k # field))
      BY <1>1, Cuttings
  <2>2. CASE k = field
      BY <1>1, <1>8, <2>2
  <2>3. CASE k \in 1 .. field - 1 /\ k # field
    <3>1. result'[k] = result[k]
        BY <1>1, <2>1, <2>3
    <3> QED
        BY <2>3, <3>1 DEF IInv, ResultInv
  <2> QED
      BY <2>1, <2>2, <2>3
<1> QED
    BY <1>2, <1>3, <1>4, <1>7, <1>9 DEF IInv

\* The three actions in which read_from_fd returns.
LEMMA ReadEndsStep ==
    ASSUME IInv, ReadReturns \/ ReadEof \/ ReadError
    PROVE  IInv'
<1>1. CASE ReadReturns
  <2>1. _read \in 0 .. Total
    <3>1. _read \in Nat /\ _read = Size(field) /\ field \in 1 .. Reads
        BY <1>1 DEF IInv, TypeOK, ReadReturns, IsReading
    <3> QED
        BY <3>1, Cuttings
  <2> QED
      BY <1>1, <2>1, ReturnStep DEF ReadReturns
<1>2. CASE ReadEof
    BY <1>2, ReturnStep, Cuttings DEF ReadEof, AtEnd
<1>3. CASE ReadError
    BY <1>3, ReturnStep, Cuttings DEF ReadError, AtEnd
<1> QED
    BY <1>1, <1>2, <1>3

\* The reader's process ends.
LEMMA ReaderEndsStep ==
    ASSUME IInv, ReaderEnds
    PROVE  IInv'
<1>1. /\ UNCHANGED <<link, stream, sent, call, written, taken, field, _read, buffer, result>>
      /\ reader' = "gone"
    BY DEF ReaderEnds, writerVars, readerVars
<1>2. TypeOK'
    BY <1>1 DEF IInv, TypeOK, WriteSize, Size
<1>3. StreamInv'
    BY <1>1 DEF IInv, StreamInv
<1> QED
    BY <1>1, <1>2, <1>3, ReaderUntouched DEF IInv

\* IInv is inductive.
LEMMA StepIInv == IInv /\ [Next]_vars => IInv'
<1> SUFFICES ASSUME IInv, [Next]_vars PROVE IInv'
    OBVIOUS
<1>1. CASE WriterStep
    BY <1>1, WriteStep, WriteEndsStep DEF WriterStep
<1>2. CASE ReaderStep
    BY <1>2, ReadStep, ReadEndsStep DEF ReaderStep
<1>3. CASE WriterEnds \/ WriterResets
    BY <1>3, WriterStops
<1>4. CASE ReaderEnds
    BY <1>4, ReaderEndsStep
<1>5. CASE UNCHANGED vars
  <2>1. UNCHANGED <<link, stream, sent, call, written, reader, taken, field, _read, buffer, result>>
      BY <1>5 DEF vars, writerVars, readerVars
  <2>2. TypeOK'
      BY <2>1 DEF IInv, TypeOK, WriteSize, Size
  <2>3. StreamInv'
      BY <2>1 DEF IInv, StreamInv
  <2> QED
      BY <2>1, <2>2, <2>3, ReaderUntouched DEF IInv
<1> QED
    BY <1>1, <1>2, <1>3, <1>4, <1>5 DEF Next

\* Both sides keep IInv, in every behaviour of Spec.
LEMMA Invariance == Spec => []IInv
BY InitIInv, StepIInv, PTL DEF Spec

-----------------------------------------------------------------------------
\* The memory says of a field whether it is whole.
LEMMA WholeFields ==
    ASSUME IInv, NEW k \in 1 .. Reads
    PROVE  /\ IsWhole(k) <=> Size(k) = 0 \/ ReadEnd[k] <= taken
           /\ ~IsWhole(k) => ReadEnd[k] \in Bytes(k) /\ buffer[ReadEnd[k]] = Nothing
<1>1. /\ ReadEnd[k] \in 0 .. Total /\ ReadEnd[k - 1] \in 0 .. Total /\ ReadEnd[k - 1] <= ReadEnd[k]
      /\ Size(k) = ReadEnd[k] - ReadEnd[k - 1] /\ Total \in Nat
    BY Cuttings DEF Size
<1>2. taken \in Nat
    BY Cuttings DEF IInv, TypeOK
<1>3. \A i \in Bytes(k) : /\ i \in Nat /\ i \in Place /\ i <= ReadEnd[k] /\ i # Nothing
                          /\ buffer[i] = IF i <= taken THEN i ELSE Nothing
  <2>1. \A i \in Bytes(k) : i \in Nat /\ i \in Place /\ i <= ReadEnd[k] /\ i # Nothing
      BY <1>1 DEF Bytes, Place, Nothing
  <2> QED
      BY <2>1 DEF IInv, MemoryInv
<1>4. Size(k) = 0 => Bytes(k) = {}
    BY <1>1 DEF Bytes
<1>5. Size(k) # 0 => ReadEnd[k] \in Bytes(k)
    BY <1>1 DEF Bytes
<1>6. ReadEnd[k] <= taken => IsWhole(k)
    BY <1>1, <1>2, <1>3 DEF IsWhole
<1>7. Size(k) # 0 /\ ~(ReadEnd[k] <= taken)
         => ~IsWhole(k) /\ ReadEnd[k] \in Bytes(k) /\ buffer[ReadEnd[k]] = Nothing
    BY <1>3, <1>5 DEF IsWhole
<1> QED
    BY <1>4, <1>6, <1>7 DEF IsWhole

\* The same after a step.
LEMMA WholeFieldsAfter ==
    ASSUME IInv', NEW k \in 1 .. Reads
    PROVE  IsWhole(k)' <=> Size(k) = 0 \/ ReadEnd[k] <= taken'
<1>1. /\ ReadEnd[k] \in 0 .. Total /\ ReadEnd[k - 1] \in 0 .. Total /\ ReadEnd[k - 1] <= ReadEnd[k]
      /\ Size(k) = ReadEnd[k] - ReadEnd[k - 1] /\ Total \in Nat
    BY Cuttings DEF Size
<1>2. taken' \in Nat
    BY Cuttings DEF IInv, TypeOK
<1>3. \A i \in Bytes(k) : i \in Nat /\ i \in Place /\ i <= ReadEnd[k] /\ i # Nothing
    BY <1>1 DEF Bytes, Place, Nothing
<1>4. \A i \in Bytes(k) : buffer'[i] = IF i <= taken' THEN i ELSE Nothing
    BY <1>3 DEF IInv, MemoryInv
<1>5. IsWhole(k)' <=> \A i \in Bytes(k) : buffer'[i] = i
    BY DEF IsWhole, Bytes
<1>6. Size(k) = 0 => Bytes(k) = {}
    BY <1>1 DEF Bytes
<1>7. Size(k) # 0 => ReadEnd[k] \in Bytes(k)
    BY <1>1 DEF Bytes
<1> QED
    BY <1>1, <1>2, <1>3, <1>4, <1>5, <1>6, <1>7

\* For packets of any length and any cut, the variables of a connection and of both calls
\* keep their types and their bounds.
THEOREM FdIoTypeCorrect == Spec => []TypeOK
BY Invariance, PTL DEF IInv

\* What read_from_fd returns tells, for every field of every packet, whether the caller's
\* buffer holds the field.
THEOREM ResultsTellTheFields == Spec => []ResultTellsTheField
<1>1. IInv => ResultTellsTheField
  <2> SUFFICES ASSUME IInv, NEW k \in 1 .. field - 1
               PROVE  \/ result[k] = Size(k) /\ IsWhole(k)
                      \/ result[k] \in {0, -1} /\ \E i \in Bytes(k) : buffer[i] = Nothing
      BY DEF ResultTellsTheField
  <2>1. k \in 1 .. Reads
      BY Cuttings DEF IInv, TypeOK
  <2>2. \/ result[k] = Size(k) /\ (Size(k) = 0 \/ ReadEnd[k] <= taken)
        \/ result[k] \in {0, -1} /\ Size(k) > 0 /\ taken < ReadEnd[k]
      BY DEF IInv, ResultInv
  <2>3. taken \in Nat /\ ReadEnd[k] \in Nat /\ Size(k) \in Nat
      BY <2>1, Cuttings DEF IInv, TypeOK
  <2> QED
      BY <2>1, <2>2, <2>3, WholeFields
<1> QED
    BY <1>1, Invariance, PTL

\* No call of read_from_fd writes outside of its buffer, and no byte is ever at another's
\* place.
THEOREM BuffersStayApart == Spec => []BuffersAreApart
<1>1. IInv => BuffersAreApart
  <2> SUFFICES ASSUME IInv, NEW i \in Place
               PROVE  /\ buffer[i] \in {i, Nothing}
                      /\ field <= Reads /\ i > ReadEnd[field - 1] + _read => buffer[i] = Nothing
      BY DEF BuffersAreApart
  <2>1. buffer[i] = IF i <= taken THEN i ELSE Nothing
      BY DEF IInv, MemoryInv
  <2>2. taken <= ReadEnd[field - 1] + _read
      BY DEF IInv, TakenInv
  <2>3. i \in Nat /\ taken \in Nat /\ _read \in Nat /\ ReadEnd[field - 1] \in Nat
    <3>1. field - 1 \in 0 .. Reads
        BY Cuttings DEF IInv, TypeOK
    <3> QED
        BY <3>1, Cuttings DEF IInv, TypeOK, Place
  <2> QED
      BY <2>1, <2>2, <2>3
<1> QED
    BY <1>1, Invariance, PTL

-----------------------------------------------------------------------------
(* The refinement.                                                         *)

Got == [k \in 1 .. field - 1 |-> IF IsWhole(k) THEN "whole" ELSE "cut"]
EmptyFields == {k \in 1 .. Reads : Size(k) = 0}

\* Got is a sequence, of the fields asked for so far.
LEMMA GotFacts ==
    ASSUME IInv
    PROVE  /\ field - 1 \in 0 .. Reads
           /\ Got \in Seq({"whole", "cut"}) /\ Len(Got) = field - 1
           /\ Stream!IsCut <=> \E k \in 1 .. field - 1 : ~IsWhole(k)
<1>1. field - 1 \in 0 .. Reads /\ field - 1 \in Nat
    BY Cuttings DEF IInv, TypeOK
<1>2. Got \in Seq({"whole", "cut"}) /\ Len(Got) = field - 1
    BY <1>1 DEF Got
<1>3. Stream!IsCut <=> \E k \in 1 .. field - 1 : ~IsWhole(k)
    BY DEF Stream!IsCut
<1> QED
    BY <1>1, <1>2, <1>3

\* A step that leaves field and the fields that have been returned alone is a stutter.
LEMMA GotStutters ==
    ASSUME IInv, field' = field, \A k \in 1 .. field - 1 : IsWhole(k)' <=> IsWhole(k)
    PROVE  Got' = Got
BY DEF Got

\* A read returns a whole field, or one cut off.
LEMMA ReturnIsAStep ==
    ASSUME IInv, IInv', field \in 1 .. Reads, field' = field + 1, buffer' = buffer
    PROVE  Stream!Next
<1>1. /\ field - 1 \in 0 .. Reads /\ Got \in Seq({"whole", "cut"}) /\ Len(Got) = field - 1
      /\ Stream!IsCut <=> \E k \in 1 .. field - 1 : ~IsWhole(k)
    BY GotFacts
<1>2. \A k : IsWhole(k)' <=> IsWhole(k)
    BY DEF IsWhole, Bytes
<1>3. Got' = [k \in 1 .. field |-> IF IsWhole(k) THEN "whole" ELSE "cut"]
  <2>1. field' - 1 = field
      BY <1>1
  <2> QED
      BY <1>2, <2>1 DEF Got
<1>4. ASSUME NEW v, v = IF IsWhole(field) THEN "whole" ELSE "cut"
      PROVE  Got' = Append(Got, v)
    BY <1>1, <1>3, <1>4 DEF Got
<1>5. Len(Got) + 1 = field /\ Len(Got) < Reads
    BY <1>1, Cuttings
<1>6. CASE IsWhole(field)
  <2>1. Stream!IsCut => field \in EmptyFields
    <3> SUFFICES ASSUME NEW k \in 1 .. field - 1, ~IsWhole(k)
                 PROVE  Size(field) = 0
        BY <1>1 DEF EmptyFields
    <3>1. k \in 1 .. Reads /\ k \in 1 .. field' - 1
        BY <1>1, Cuttings
    <3>2. ReadEnd[k] \in Nat /\ taken \in Nat /\ Size(k) \in Nat
      <4>1. taken \in 0 .. sent /\ sent \in 0 .. Total
          BY DEF IInv, TypeOK
      <4> QED
          BY <3>1, <4>1, Cuttings
    <3>3. Size(k) # 0 /\ ~(ReadEnd[k] <= taken)
        BY <3>1, WholeFields
    <3>4. HasFailed
        BY <3>2, <3>3 DEF IInv, ResultInv, HasFailed
    <3>5. taken <= ReadEnd[field - 1]
      <4>1. _read = 0 /\ taken <= ReadEnd[field - 1] + _read
          BY <3>4 DEF IInv, TakenInv
      <4> QED
          BY <1>1, <4>1, Cuttings
    <3>6. Size(field) = 0 \/ ReadEnd[field] <= taken
        BY <1>6, WholeFields
    <3>7. Size(field) = ReadEnd[field] - ReadEnd[field - 1]
        BY DEF Size
    <3> QED
        BY <3>2, <3>5, <3>6, <3>7, Cuttings
  <2> QED
      BY <1>4, <1>5, <1>6, <2>1 DEF Stream!Next, Stream!Whole, Got, EmptyFields
<1>7. CASE ~IsWhole(field)
  <2>1. field \notin EmptyFields
      BY <1>7, WholeFields DEF EmptyFields
  <2> QED
      BY <1>4, <1>5, <1>7, <2>1 DEF Stream!Next, Stream!Cut, Got, EmptyFields
<1> QED
    BY <1>6, <1>7

\* Every step of the two processes is a step of FieldStream or none at all.
LEMMA StepRefines == IInv /\ IInv' /\ [Next]_vars => [Stream!Next]_Got
<1> SUFFICES ASSUME IInv, IInv', [Next]_vars PROVE [Stream!Next]_Got
    OBVIOUS
<1>1. CASE ReadReturns \/ ReadEof \/ ReadError
  <2>1. field \in 1 .. Reads /\ field' = field + 1 /\ buffer' = buffer
      BY <1>1 DEF ReadReturns, ReadEof, ReadError, AtEnd, IsReading, Returns
  <2> QED
      BY <2>1, ReturnIsAStep
<1>2. CASE \E n \in Place : Read(n)
  <2> PICK n \in Place : Read(n)
      BY <1>2
  <2>1. ~HasFailed
      BY ReadStep
  <2>2. field' = field /\ taken' = taken + n /\ result' = result
      BY DEF Read, Fetches
  <2>3. \A k \in 1 .. field - 1 : IsWhole(k) /\ IsWhole(k)'
    <3> SUFFICES ASSUME NEW k \in 1 .. field - 1
                 PROVE  IsWhole(k) /\ IsWhole(k)'
        OBVIOUS
    <3>1. k \in 1 .. Reads
        BY Cuttings DEF IInv, TypeOK
    <3>2. Size(k) = 0 \/ ReadEnd[k] <= taken
      <4>1. ~(Size(k) > 0 /\ result[k] # Size(k))
          BY <2>1 DEF HasFailed
      <4>2. \/ result[k] = Size(k) /\ (Size(k) = 0 \/ ReadEnd[k] <= taken)
            \/ result[k] \in {0, -1} /\ Size(k) > 0 /\ taken < ReadEnd[k]
          BY DEF IInv, ResultInv
      <4> QED
          BY <4>1, <4>2, <3>1, Cuttings
    <3>3. Size(k) = 0 \/ ReadEnd[k] <= taken'
      <4>1. taken \in Nat /\ n \in Nat /\ ReadEnd[k] \in Nat
          BY <3>1, Cuttings DEF IInv, TypeOK, Place
      <4> QED
          BY <2>2, <3>2, <4>1
    <3>4. Size(k)' = Size(k)
        BY DEF Size
    <3>5. IsWhole(k)
        BY <3>1, <3>2, WholeFields
    <3>6. IsWhole(k)'
      <4>1. IInv' => (IsWhole(k)' <=> Size(k) = 0 \/ ReadEnd[k] <= taken')
          BY <3>1, WholeFieldsAfter
      <4> QED
          BY <3>3, <4>1
    <3> QED
        BY <3>5, <3>6
  <2> QED
      BY <2>2, <2>3, GotStutters
<1>3. CASE field' = field /\ buffer' = buffer
  <2>1. \A k : IsWhole(k)' <=> IsWhole(k)
      BY <1>3 DEF IsWhole, Bytes
  <2> QED
      BY <1>3, <2>1, GotStutters
<1>4. WriterStep \/ WriterEnds \/ WriterResets \/ ReaderEnds \/ UNCHANGED vars
         => field' = field /\ buffer' = buffer
    BY DEF WriterStep, Write, Accepts, WriteReturns, WriteFails, WriterEnds, WriterResets,
           ReaderEnds, vars, readerVars
<1> QED
    BY <1>1, <1>2, <1>3, <1>4 DEF Next, ReaderStep

\* write_to_fd and read_from_fd give the caller a stream of fields, whatever the kernel
\* does with the bytes, for packets of any length, cut in any way, over connections of any
\* capacity.
THEOREM FieldsAreAStream == Spec => IsAFieldStream
<1>1. Init => Stream!Init
  <2> SUFFICES ASSUME Init PROVE Got = << >>
      BY DEF Stream!Init, Got
  <2>1. field - 1 = 0
      BY DEF Init
  <2> QED
      BY <2>1 DEF Got
<1>2. IInv /\ IInv' /\ [Next]_vars => [Stream!Next]_Got
    BY StepRefines
<1> QED
    BY <1>1, <1>2, Invariance, PTL DEF Spec, IsAFieldStream, Stream!Spec, Got
=============================================================================
