------------------------------- MODULE MCFdIo -------------------------------
(* An instance of FdIo for TLC: a packet of an opcode, an empty field, a   *)
(* field and an opcode, written with two calls and read with four.         *)
EXTENDS FdIo

MCWriteEnd == [k \in 0 .. 2 |-> <<0, 5, 8>>[k + 1]]
MCReadEnd == [k \in 0 .. 4 |-> <<0, 1, 1, 7, 8>>[k + 1]]
=============================================================================
