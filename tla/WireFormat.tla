------------------------------ MODULE WireFormat ------------------------------
(***************************************************************************)
(* The two ways the proxy reads the body of a frame, from                    *)
(* src/internal/tunnels/manager.go: as a protobuf message, whose fields are   *)
(* a tag and data of a length that the tag's type or a varint gives, or as    *)
(* records of a tag, a length of one byte or of two, and a value.             *)
(*                                                                          *)
(* A byte has two halves of Cont values each: varints carry on in the upper  *)
(* one.                                                                     *)
(***************************************************************************)
EXTENDS Naturals, Sequences, SequencesExt, FiniteSetsExt

CONSTANTS
    Cont,                \* 128 in the code: values of a byte's half
    MaxVarint,           \* 10: bytes a varint has at most
    Fixed64, Fixed32     \* 8 and 4: bytes of the fixed wire types

ASSUME WidthsAssumption ==
    /\ Cont \in Nat /\ Cont > 1
    /\ {MaxVarint, Fixed64, Fixed32} \subseteq Nat

Byte == 0 .. 2 * Cont - 1
Bytes == Seq(Byte)
Take(b, n) == SubSeq(b, 1, n)
Drop(b, n) == SubSeq(b, n + 1, Len(b))

(***************************************************************************)
(* Varints                                                                 *)
(***************************************************************************)
\* The number that the lower halves of the bytes of b make up.
ValueOf[b \in Bytes] == IF b = <<>> THEN 0 ELSE (Head(b) % Cont) + Cont * ValueOf[Tail(b)]

\* Value and length; length 0 when no varint ends within its limit.
FirstN(b, n) == [n |-> n, value |-> ValueOf[Take(b, n)]]
consumeProtobufVarint(b) ==
    LET ends == {k \in 1 .. Len(b) : k <= MaxVarint /\ b[k] < Cont /\ (k = MaxVarint => b[k] <= 1)}
    IN  FirstN(b, IF ends = {} THEN 0 ELSE Min(ends))

\* Mutant: the lowest half only.
OneByte(x) == <<x % Cont>>

Varint[x \in Nat] == IF x < Cont THEN <<x>> ELSE <<Cont + (x % Cont)>> \o Varint[x \div Cont]
appendProtobufVarint(x) == Varint[x]

(***************************************************************************)
(* Messages                                                                *)
(***************************************************************************)
\* The first field of b: number, wire type, tag and data as they stand, the
\* value of a varint and the chunk of a length-delimited field.  tag is the
\* varint that b begins with, v the one after it if there is one.
FieldOf(b, tag, v) ==
    LET wt == tag.value % 8
        rest == Drop(b, tag.n)
        size == CASE tag.n = 0 -> 0
                  [] tag.n > 0 /\ wt = 0 -> v.n
                  [] tag.n > 0 /\ wt = 1 -> Fixed64
                  [] tag.n > 0 /\ wt = 5 -> Fixed32
                  [] tag.n > 0 /\ wt = 2 /\ v.n > 0 -> v.n + v.value
                  [] OTHER -> 0
        have == Min({size, Len(rest)})
    IN  [ok |-> size > 0 /\ size <= Len(rest), size |-> tag.n + size,
         num |-> tag.value \div 8, wt |-> wt, tag |-> Take(b, tag.n),
         data |-> Take(rest, have), value |-> v.value, chunk |-> SubSeq(rest, v.n + 1, have)]

Field(b) == LET tag == consumeProtobufVarint(b)
            IN  FieldOf(b, tag, consumeProtobufVarint(Drop(b, tag.n)))

\* The whole fields that b begins with and what is left, which may be nothing.
First(r, more) == [list |-> <<r>> \o more.list, rest |-> more.rest]
Wire[b \in Bytes] ==
    LET f == Field(b) IN IF f.ok THEN First(f, Wire[Drop(b, f.size)]) ELSE [list |-> <<>>, rest |-> b]
Fields(b) == Wire[b].list
protobufWireConsumesFully(b) == Wire[b].rest = <<>>

\* The last field of a number and a type, as a set.
LastOf(fs, num, wt) ==
    LET hits == {i \in DOMAIN fs : fs[i].num = num /\ fs[i].wt = wt}
    IN  {fs[i] : i \in {j \in hits : \A k \in hits : k <= j}}

(***************************************************************************)
(* Records: a tag, a length of one byte or of two, a value                 *)
(***************************************************************************)
Widths == {1, 2}
RecordLen(b, width) == 1 + width + b[2] + (IF width = 2 THEN 2 * Cont * b[3] ELSE 0)
HasRecord(b, width) == Len(b) > width /\ Len(b) >= RecordLen(b, width)
LenBytes(n, width) == IF width = 1 THEN <<n>> ELSE <<n % (2 * Cont), n \div (2 * Cont)>>

\* A value longer than its length can say is cut.
MaxLen(width) == IF width = 1 THEN 2 * Cont - 1 ELSE 4 * Cont * Cont - 1
CutTo(v, width) == IF Len(v) > MaxLen(width) THEN Take(v, MaxLen(width)) ELSE v

RecordOf(b, width) == [tag |-> b[1], value |-> SubSeq(b, 2 + width, RecordLen(b, width))]
RecordBytes(tag, v, width) == <<tag>> \o LenBytes(Len(v), width) \o v

\* The whole records b begins with, and what is left.
Records(width) ==
    LET records[b \in Bytes] ==
            IF HasRecord(b, width)
            THEN First(RecordOf(b, width), records[Drop(b, RecordLen(b, width))])
            ELSE [list |-> <<>>, rest |-> b]
    IN  records
=============================================================================
