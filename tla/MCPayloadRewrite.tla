--------------------------- MODULE MCPayloadRewrite ---------------------------
(***************************************************************************)
(* Texts are ASCII modulo the smaller byte's half.  "2.1" and "1." are game  *)
(* hosts, "9.34" is the proxy.  "1.:57" has the bytes of a message, "2.1:57" *)
(* has not.  5 and 57 are in the game range, and the text of one begins that   *)
(* of the other; "2.1" has legs for both.  8 is a port of an HTTP server.  Of   *)
(* the client ports one takes two bytes as a varint, like 57, two take one.   *)
(* Ranges over the map meet one of the two legs last, and then the other.     *)
(***************************************************************************)
EXTENDS PayloadRewrite

CONSTANTS Host, Lookalike, Proxy

GameAddr == <<Host, 57>>
OtherAddr == <<Host, 5>>
LookAddr == <<Lookalike, 57>>
HttpAddr == <<Host, 8>>
AddrsDef == {GameAddr, OtherAddr, LookAddr, HttpAddr, <<Proxy, 57>>}
IpTextDef == (Host :> <<18, 14, 17>>) @@ (Lookalike :> <<17, 14>>) @@ (Proxy :> <<25, 14, 19, 20>>)
PortTextDef == (0 :> <<16>>) @@ (36 :> <<19, 22>>) @@ (6 :> <<22>>) @@ (7 :> <<23>>)
               @@ (8 :> <<24>>) @@ (9 :> <<25>>) @@ (57 :> <<21, 23>>) @@ (5 :> <<21>>)
LocalPortDef == [a \in AddrsDef |-> IF a = HttpAddr THEN 9 ELSE 0]
UDPClientPortDef == (GameAddr :> 36) @@ (OtherAddr :> 7) @@ (LookAddr :> 6) @@ (HttpAddr :> 0) @@ (<<Proxy, 57>> :> 36)
HttpDef == <<8, 20, 20>>
Meets(last) == [near \in SUBSET AddrsDef \ {{}} |->
                   IF last \in near THEN last ELSE CHOOSE a \in near : TRUE]
IterationsDef == <<Meets(GameAddr), Meets(OtherAddr)>>
DigitsDef == 16 .. 25
PathBytesDef == {8, 14, 15, 20, 26} \cup 16 .. 25

Bare == <<18, 14, 17>>
Game == Bare \o <<26, 21, 23>>
Look == <<17, 14, 26, 21, 23>>
Proxied == IpTextDef[Proxy] \o <<26, 21, 23>>
URL == HttpDef \o Bare \o <<26, 24>>
Texts == {<<>>, Bare, <<17, 14>>, Game, Game \o <<0>>, Look, URL, URL \o <<15, 1>>,
          <<1>> \o URL \o <<15>> \o URL, HttpDef \o Game \o <<15>>, HttpDef \o Proxied, Proxied}

\* Field 1 with the game port or a small one, field 2 with a text, field 3 with
\* a length written in two bytes, with messages within, one of which outgrows
\* the lengths of one byte, and the fixed types.
Chunk(tag, c) == <<tag>> \o appendProtobufVarint(Len(c)) \o c
MessagePieces == {<<8, 57, 1>>, <<8, 5>>, <<8, 6>>, <<26, 35, 0, 1, 2, 3>>, <<17, 1, 2>>, <<21, 3>>}
    \cup {Chunk(18, c) : c \in Texts} \cup {Chunk(26, Chunk(18, c)) : c \in {Bare, Game, URL}}
    \cup {Chunk(26, Chunk(26, Chunk(18, Game)))}
    \cup {Chunk(26, Chunk(18, Game) \o Chunk(18, Game) \o Chunk(18, Game) \o <<26, 35, 0, 1, 2, 3>>)}

\* Records of either width, and a value that no longer fits its length of one byte.
Record(tag, c, width) == <<tag>> \o LenBytes(Len(c), width) \o c
RecordPieces(width) ==
    {Record(tag, c, width) : tag \in {12, 18}, c \in {Bare, Game, <<17, 14>>}}
    \cup {Record(27, c, width) : c \in {URL, Game}} \cup {Record(7, c, width) : c \in {Bare, Game, Look}}
Longest == Record(27, URL \o [i \in 1 .. 63 - Len(URL) |-> 15], 1)

After2(first, P) == {p \o q : p \in first \cup {<<>>}, q \in P}
Cut(b) == SubSeq(b, 1, Len(b) - 1)
MessagesDef == After2({<<8, 57, 1>>, Chunk(18, Game), Chunk(26, Chunk(18, URL))}, MessagePieces)
    \cup {p \o Chunk(18, Bare) \o q : p \in {<<8, 5>>, <<8, 57, 1>>}, q \in {<<8, 6>>, Chunk(18, Bare), Chunk(26, Chunk(18, Look))}}
Records1 == After2({Record(18, Bare, 1), Record(7, Look, 1)}, RecordPieces(1))
Records2 == After2({Record(18, Bare, 2), Record(7, Look, 2)}, RecordPieces(2))
BodiesDef ==
    MessagesDef \cup Records1 \cup Records2 \cup {Cut(b) : b \in Records1}
    \cup {Longest, Longest \o <<9>>}
    \cup UNION {[1 .. n -> {1, 8, 33}] : n \in 0 .. 3}
=============================================================================
