-------------------------- MODULE DialectBytecode ---------------------------
(* DialectBytecodeWriter and DialectBytecodeReader of MLIR, as the bytecode  *)
(* interfaces of VHLO and StableHLO use them.                                *)
(*                                                                           *)
(* Bytecode is a sequence of items <<form, value>>: "varint", "svarint",     *)
(* "byte", "string", "blob".  A write is the sequence of the items written.  *)
(* A read takes and returns a reader: ok, the values read so far in the      *)
(* current frame, and what is left to read.  A read that expects another     *)
(* form of item than the next one fails, and a failed reader stays failed.   *)
(* MLIR writes a nested type or attribute as a reference to a table; here it *)
(* is written in place.                                                      *)
EXTENDS Integers, Sequences

VarInt(n) == <<<<"varint", n>>>>

SignedVarInt(n) == <<<<"svarint", n>>>>

\* A number of a known width: a byte, or a signed varint for more than 8 bits.
APInt(width, n) == <<<<IF width <= 8 THEN "byte" ELSE "svarint", n>>>>

\* One list after the other.
RECURSIVE Concat(_)
Concat(lists) == IF lists = <<>> THEN <<>> ELSE Head(lists) \o Concat(Tail(lists))

\* writeList of what was written for each element.
WriteList(elements) == VarInt(Len(elements)) \o Concat(elements)

WriteSignedVarInts(ns) == WriteList([i \in 1 .. Len(ns) |-> SignedVarInt(ns[i])])

Reader(bytes) == [ok |-> TRUE, values |-> <<>>, left |-> bytes]

Failed == [ok |-> FALSE, values |-> <<>>, left |-> <<>>]

Read(r, form) ==
    IF r.ok /\ r.left # <<>> /\ Head(r.left)[1] = form
    THEN [r EXCEPT !.values = Append(@, Head(r.left)[2]), !.left = Tail(@)]
    ELSE Failed

ReadAPInt(r, width) == Read(r, IF width <= 8 THEN "byte" ELSE "svarint")

\* The value that a reader has just read.
Value(r) == r.values[Len(r.values)]

\* r goes on after inner, a reader of a frame of its own that made one value.
Resume(r, inner) ==
    IF inner.ok THEN [inner EXCEPT !.values = Append(r.values, Value(inner))] ELSE Failed

\* A frame's values become one value.
Collected(r) == [r EXCEPT !.values = <<@>>]

InEmptyFrame(r) == [r EXCEPT !.values = <<>>]

\* A code or a count, in a frame of its own.
Coded(r) == Read(InEmptyFrame(r), "varint")

RECURSIVE ReadNumbers(_, _, _)
ReadNumbers(r, form, n) == IF n = 0 \/ ~r.ok THEN r ELSE ReadNumbers(Read(r, form), form, n - 1)

\* readList of items of one form.
ReadCounted(r, form, count) ==
    IF count.ok
    THEN Resume(r, Collected(ReadNumbers(InEmptyFrame(count), form, Value(count)))) ELSE Failed

ReadItems(r, form) == ReadCounted(r, form, Coded(r))

ReadSignedVarInts(r) == ReadItems(r, "svarint")

\* A reader of one kind starts in an empty frame and makes of the values that it
\* reads the one value that it returns.
Made(kind, r) == IF r.ok THEN [r EXCEPT !.values = <<<<kind>> \o @>>] ELSE Failed

=============================================================================
