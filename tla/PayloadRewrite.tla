---------------------------- MODULE PayloadRewrite ----------------------------
(***************************************************************************)
(* What the remote-to-client copier does to a frame before it passes it on: *)
(* rewriteTunnelPayload of src/internal/tunnels/manager.go, with its walk    *)
(* over protobuf messages, its fallback to tag-length-value records and its  *)
(* search for URLs, and the tunnels it has made on the way.                  *)
(*                                                                          *)
(* A frame is the length it declares and the bytes after its eight bytes of *)
(* header.  An address is a few bytes of text, as what matters of a text is  *)
(* whether it can be taken for something else.  Spaces around texts, zeros    *)
(* before numbers and URLs of what is no address are left out.              *)
(*                                                                          *)
(* The registry of TunnelManager is the set of addresses with a tunnel here, *)
(* and whose UDP leg the reaper has closed.  The rewriting of one frame is    *)
(* one step: what others do to the registry meanwhile is in refused and       *)
(* closed, the same for every call the step makes.  The functions that the    *)
(* code has as methods take the registry m and answer the one they leave      *)
(* behind.  TCPPayloadRewrite is on.                                         *)
(***************************************************************************)
EXTENDS WireFormat

CONSTANTS
    MaxDepth,            \* 12: nesting of messages
    ProxyIP,
    Addrs,               \* pairs of a host and a port that frames speak of
    GamePorts,           \* ports of the UDP range
    LocalPort, UDPClientPort,    \* the ports of the tunnel of each address
    Iterations,          \* which of several tunnels a range over the map meets last
    IpText, PortText,    \* what hosts and ports are written like
    Digits, MaxDigits,   \* what ports are made of, and 5: how many of them
    Colon, Slash, Http,  \* ':', '/' and 'http://'
    PathBytes,           \* what a path is made of
    MaxText,             \* 28: characters of the longest URL of the proxy
    Bodies               \* bound: what comes after the header of frames

IPs == {a[1] : a \in Addrs}
Ports == {0} \cup UNION {{a[2], LocalPort[a], UDPClientPort[a]} : a \in Addrs}
Foreign == {a \in Addrs : a[1] # ProxyIP}
isRemoteGameUDPPort(port) == port \in GamePorts

\* Mutant: the proxy's own address is one like any other.
AllGameAddrs == {a \in Addrs : isRemoteGameUDPPort(a[2])}

GameAddrs == {a \in Foreign : isRemoteGameUDPPort(a[2])}
HeaderLen == 8

VARIABLES
    tunnels,     \* the addresses that have a tunnel
    refused,     \* the addresses EnsureTunnel fails for
    closed,      \* those whose UDP leg the reaper has closed
    round,       \* the first range over the map that a frame is rewritten with
    pc,
    before,      \* the tunnels there were when the frame came (history)
    frame,       \* the frame read
    walked,      \* the frame after the protobuf or record walk (history)
    sent         \* the frame written

vars == <<tunnels, refused, closed, round, pc, before, frame, walked, sent>>

\* The registry, as far as the rewriting sees it.
Managers == [tunnels : SUBSET Addrs, refused : SUBSET Addrs, closed : SUBSET Addrs,
             round : DOMAIN Iterations]
Manager == [tunnels |-> tunnels, refused |-> refused, closed |-> closed, round |-> round]

\* What a rewriting answers: the bytes, and the registry after it.
Answer(out, m) == [out |-> out, m |-> m]
After(out, more) == Answer(out \o more.out, more.m)

(***************************************************************************)
(* Texts and tunnels                                                       *)
(***************************************************************************)
\* Zeros at the end of a text are padding.
TrimRight(s) == Take(s, Max({0} \cup {i \in DOMAIN s : s[i] # 0}))

HostText(ip, port) == IpText[ip] \o <<Colon>> \o PortText[port]
Text(a) == HostText(a[1], a[2])
ProxyText(port) == HostText(ProxyIP, port)

\* EnsureTunnel for the addresses of A; one that has a tunnel is not refused.
EnsureTunnels(A, m) == [m EXCEPT !.tunnels = @ \cup (A \ m.refused)]

\* What EnsureTunnel answers: a leg closed under the call leaves port 0.
ClientPort(a, m) == IF a \in m.closed THEN 0 ELSE UDPClientPort[a]
ClientAdvertisedPort(a, m) == IF LocalPort[a] > 0 THEN LocalPort[a] ELSE ClientPort(a, m)
The(A) == CHOOSE a \in A : TRUE

\* Mutant: the answer's error is not looked at.
AnsweredAnyway(A, m) == A

Answered(A, m) == A \cap EnsureTunnels(A, m).tunnels

\* tunnelForRemoteIP: the tunnels of the host that have a leg, of which it finds
\* the one that its range over the map meets last, every time another.
tunnelForRemoteIP(ip, m) == {a \in m.tunnels : a[1] = ip /\ ClientPort(a, m) > 0}
LastMet(near, m) == Iterations[m.round][near]
Ranged(m) == [m EXCEPT !.round = (@ % Len(Iterations)) + 1]

\* rewriteIPAddress: an address of a game server, or a bare IP, which is
\* answered from the tunnels there are; the record tag 0x0c wants no port.
\* named and bare are the addresses and the hosts that v is the text of.
IPAnswer(v, tag, m, named, bare) ==
    LET near == UNION {tunnelForRemoteIP(ip, m) : ip \in bare}
        answered == Answered(named, m) # {}
    IN  Answer(CASE answered -> ProxyText(ClientAdvertisedPort(The(named), m))
                 [] ~answered /\ bare # {} /\ tag = 12 -> IpText[ProxyIP]
                 [] ~answered /\ near # {} /\ tag # 12 -> ProxyText(ClientPort(LastMet(near, m), m))
                 [] OTHER -> v,
               Ranged(EnsureTunnels(named, m)))

rewriteIPAddress(v, tag, m) ==
    IPAnswer(v, tag, m, {a \in GameAddrs : Text(a) = TrimRight(v)},
             {ip \in IPs \ {ProxyIP} : IpText[ip] = TrimRight(v)})

\* The address of the URL that b begins with, with all the digits the pattern can
\* take, and what the client gets for it.
URLText(a) == Http \o Text(a)
Matches(text, next, b) == IsPrefix(text, b) /\ (Len(b) > Len(text) => b[Len(text) + 1] \in next)
AllDigits(a) == IF Len(PortText[a[2]]) < MaxDigits THEN Byte \ Digits ELSE Byte
URLOf(b) == {a \in Addrs : Matches(URLText(a), AllDigits(a), b)}
ProxyURL(a, m) == Http \o ProxyText(ClientAdvertisedPort(a, m))

\* rewriteHTTPURL: a text s that is the URL of an address; the path stays.
URLAnswer(v, s, url, m) ==
    Answer(IF Answered(url, m) = {} THEN v
           ELSE ProxyURL(The(url), m) \o Drop(s, Len(URLText(The(url)))),
           EnsureTunnels(url, m))

rewriteHTTPURL(v, m) ==
    LET s == TrimRight(v)
    IN  URLAnswer(v, s, {a \in Foreign : Matches(URLText(a), {Slash}, s)}, m)

\* The path b begins with: upstreamHTTPURLPattern takes all it can.
PathLen(b) == IF b = <<>> \/ Head(b) # Slash THEN 0
              ELSE Max({n \in DOMAIN b : \A i \in 1 .. n : b[i] \in PathBytes})

\* rewriteHTTPURLBytes: URLs anywhere in the bytes; none is looked for in the
\* path of another, be that one rewritten or not.  url is the address that the
\* URL at the beginning of b has, host the length of it without its path, or
\* one byte that begins none.
Replaced(b, url, host, m) ==
    IF Answered(url, m) = {} THEN Take(b, host) ELSE ProxyURL(The(url), m)
MatchLen(b, match) == IF match = {} THEN 1 ELSE Len(URLText(The(match)))
PathAfter(b, match, host) == host + (IF match = {} THEN 0 ELSE PathLen(Drop(b, host)))

rewriteHTTPURLBytes[b \in Bytes] == [m \in Managers |->
    LET match == URLOf(b)
        url == match \cap Foreign
        host == MatchLen(b, match)
        n == PathAfter(b, match, host)
    IN  IF b = <<>> THEN Answer(b, m)
        ELSE After(Replaced(b, url, host, m) \o SubSeq(b, host + 1, n),
                   rewriteHTTPURLBytes[Drop(b, n)][EnsureTunnels(url, m)])]

(***************************************************************************)
(* Assumptions on the constants                                            *)
(***************************************************************************)
\* Tunnels to the game range have a UDP leg and no TCP side, others have one.  A
\* port is written as a varint.  A range over the map may meet any tunnel last.
Fits(x) == Len(appendProtobufVarint(x)) < MaxVarint
ASSUME PortsAssumption ==
    /\ MaxDepth \in Nat /\ GamePorts \subseteq Nat /\ Addrs \subseteq IPs \X Ports
    /\ LocalPort \in [Addrs -> Nat] /\ UDPClientPort \in [Addrs -> Nat]
    /\ \A a \in Foreign : (a \in GameAddrs) <=> LocalPort[a] = 0
    /\ \A a \in GameAddrs : UDPClientPort[a] > 0 /\ Fits(UDPClientPort[a])
    /\ Iterations \in Seq([SUBSET Addrs \ {{}} -> Addrs]) /\ Iterations # <<>>
    /\ \A n \in DOMAIN Iterations : \A near \in SUBSET Addrs \ {{}} : Iterations[n][near] \in near

\* No text is padded.  A port is a few digits, a host has neither a colon nor a
\* slash and does not begin like a URL, and no two hosts or ports share a text.
Unpadded == Seq(Byte \ {0})
ASSUME TextsAssumption ==
    /\ {Colon, Slash} \subseteq Byte \ {0} /\ Http \in Unpadded /\ Http # <<>>
    /\ Slash \in PathBytes /\ Digits \subseteq Byte \ {0, Slash} /\ MaxDigits \in Nat
    /\ IpText \in [IPs \cup {ProxyIP} -> Seq(Byte \ {0, Colon, Slash})]
    /\ \A ip \in IPs : IpText[ip] # <<>> /\ Head(IpText[ip]) # Head(Http)
    /\ \A ip, jp \in IPs : IpText[ip] = IpText[jp] => ip = jp
    /\ PortText \in [Ports -> Seq(Digits)]
    /\ \A p \in Ports : Len(PortText[p]) <= MaxDigits
    /\ \A p, q \in Ports : PortText[p] = PortText[q] => p = q
    /\ MaxText \in Nat /\ \A port \in Ports : Len(Http \o ProxyText(port)) <= MaxText

(***************************************************************************)
(* The protobuf walk                                                       *)
(***************************************************************************)
\* parseLobbyProtobufContext: a game port in field 1 and a bare IP in field 2,
\* the last of each, as the set of the address they make up.
parseLobbyProtobufContext(b) ==
    {a \in GameAddrs : /\ protobufWireConsumesFully(b)
                       /\ \E f \in LastOf(Fields(b), 1, 0) : f.value = a[2]
                       /\ \E f \in LastOf(Fields(b), 2, 2) : TrimRight(f.chunk) = IpText[a[1]]}

\* depth is what is left of MaxDepth.
Messages(chunk, depth) ==
    depth > 0 /\ Len(chunk) > 2 /\ protobufWireConsumesFully(chunk)

\* Mutant: the port of field 1 is left to the client.
PortKept(f, lobby, m) == f.data

\* Of the fields that are not length-delimited only the lobby's port changes.
PortField(f, lobby, m) ==
    IF f.num = 1 /\ f.wt = 0 /\ lobby # {} /\ ClientPort(The(lobby), m) > 0
    THEN appendProtobufVarint(ClientPort(The(lobby), m))
    ELSE f.data

\* The new chunk of a length-delimited field, and the data with its length.
LenDelim(f, lobby, inner, m) ==
    IF lobby # {} /\ f.num = 2 /\ TrimRight(f.chunk) = IpText[The(lobby)[1]]
    THEN Answer(IpText[ProxyIP], m)
    ELSE inner[f.chunk][m]
WithLen(chunk) == appendProtobufVarint(Len(chunk)) \o chunk
NewData(f, lobby, inner, m) ==
    IF f.wt # 2 THEN Answer(PortField(f, lobby, m), m)
    ELSE LET r == LenDelim(f, lobby, inner, m) IN Answer(WithLen(r.out), r.m)

\* tryRewriteProtobuf: field for field, every chunk by inner.  lobby is the
\* address of the message's own context, empty in nested ones.
Message(inner, lobby) ==
    LET walk[b \in Bytes] == [m \in Managers |->
            LET f == Field(b)
                new == NewData(f, lobby, inner, m)
            IN  IF f.ok THEN After(f.tag \o new.out, walk[Drop(b, f.size)][new.m])
                ELSE Answer(<<>>, m)]
    IN  walk

\* rewriteProtobufLenDelim, with depth messages to go down to.
rewriteProtobufLenDelim[depth \in Nat] ==
    [chunk \in Bytes |-> [m \in Managers |->
        CASE Messages(chunk, depth) -> Message(rewriteProtobufLenDelim[depth - 1], {})[chunk][m]
          [] ~Messages(chunk, depth) /\ IsPrefix(Http, chunk) -> rewriteHTTPURL(chunk, m)
          [] OTHER -> rewriteIPAddress(chunk, 18, m)]]

tryRewriteProtobuf(b, lobby, m) == Message(rewriteProtobufLenDelim[MaxDepth], lobby)[b][m]

(***************************************************************************)
(* Records                                                                 *)
(***************************************************************************)
\* Mutant: nothing made beforehand.
NoneAhead(list) == {}

\* precreateTunnelsFromTLVPayload: the game addresses named in any record.
Ahead(list) == {a \in GameAddrs : \E i \in DOMAIN list : TrimRight(list[i].value) = Text(a)}

processTLVValue(r, m) ==
    CASE r.tag \in {12, 18} -> rewriteIPAddress(r.value, r.tag, m)
      [] r.tag = 27 -> rewriteHTTPURL(r.value, m)
      [] r.tag \notin {12, 18, 27} /\ \E a \in Addrs : Text(a) = TrimRight(r.value) ->
            rewriteIPAddress(r.value, r.tag, m)
      [] OTHER -> Answer(r.value, m)

\* The whole records rewritten one by one, the rest as it is.
TLVs(width) ==
    LET walk[b \in Bytes] == [m \in Managers |->
            LET r == RecordOf(b, width)
                new == processTLVValue(r, m)
            IN  IF HasRecord(b, width)
                THEN After(RecordBytes(r.tag, CutTo(new.out, width), width),
                           walk[Drop(b, RecordLen(b, width))][new.m])
                ELSE Answer(b, m)]
    IN  walk

rewriteTLVPayloadWithWidth(b, width, m) ==
    TLVs(width)[b][EnsureTunnels(Ahead(Records(width)[b].list), m)]

\* Lengths of one byte, else of two, else what the first try made of it.
AllRecords(b, width) == Records(width)[b].rest = <<>>
BestOf(b, one, two) == IF ~AllRecords(b, 1) /\ AllRecords(b, 2) THEN two ELSE Answer(one.out, two.m)
rewriteTLVPayload(b, m) ==
    LET one == rewriteTLVPayloadWithWidth(b, 1, m)
    IN  IF AllRecords(b, 1) THEN one
        ELSE BestOf(b, one, rewriteTLVPayloadWithWidth(b, 2, one.m))

(***************************************************************************)
(* The copier                                                              *)
(***************************************************************************)
\* Bodies are bytes.  Twice a rewritten body is at most Growth times as long as it
\* was, as every two bytes may be a field whose chunk becomes an address and its
\* length a varint; lengths of frames are far below the largest varint.  The
\* host of a split address has no chunks in it but empty ones, as no text of an
\* IPv4 address has.
Growth == 2 + MaxVarint + MaxText
ASSUME BodiesAssumption ==
    /\ Bodies \subseteq Bytes
    /\ \A body \in Bodies : Fits(Growth * Len(body))
    /\ \A body \in Bodies : \A f \in LastOf(Fields(body), 2, 2) :
          (\E a \in GameAddrs : TrimRight(f.chunk) = IpText[a[1]]) =>
             \A i \in DOMAIN Fields(f.chunk) :
                Fields(f.chunk)[i].wt = 2 => Fields(f.chunk)[i].data = <<0>>

NoFrame == [total |-> 0, body |-> <<>>]

Init == /\ tunnels = {} /\ refused = {} /\ closed = {} /\ before = {}
        /\ round = 1 /\ pc = "read" /\ frame = NoFrame /\ walked = NoFrame /\ sent = NoFrame

\* Other goroutines make tunnels.
Elsewhere(a) ==
    /\ pc = "read" /\ a \notin tunnels
    /\ tunnels' = tunnels \cup {a}
    /\ UNCHANGED <<refused, closed, round, pc, before, frame, walked, sent>>

\* The reaper takes a leg, and the tunnel with it if it has no other side.  An
\* object the copier has already found stays in its hands with port 0.
Reap(a) ==
    /\ pc \in {"read", "rewrite"}
    /\ a \in tunnels \ closed /\ UDPClientPort[a] > 0
    /\ IF pc = "read" /\ a \in GameAddrs
       THEN tunnels' = tunnels \ {a} /\ UNCHANGED closed
       ELSE closed' = closed \cup {a} /\ UNCHANGED tunnels
    /\ UNCHANGED <<refused, round, pc, before, frame, walked, sent>>

\* A frame as the server sends it.  At most one address is refused while it is
\* dealt with; a bound of the model.  The ranges over the map that it takes are
\* any that follow one another.
ReadFrame(body) ==
    /\ pc = "read"
    /\ frame' = [total |-> HeaderLen + Len(body), body |-> body]
    /\ refused' \in {{}} \cup {{a} : a \in Foreign \ tunnels}
    /\ round' \in DOMAIN Iterations
    /\ before' = tunnels
    /\ pc' = "rewrite"
    /\ UNCHANGED <<tunnels, closed, walked, sent>>

\* A message that is walked gets its length anew; records leave the header as
\* it is.  The lobby address is answered if m has a tunnel for it.
Walk(f, m) ==
    LET split == parseLobbyProtobufContext(f.body)
        m1 == EnsureTunnels(split, m)
    IN  IF protobufWireConsumesFully(f.body) THEN tryRewriteProtobuf(f.body, split \cap m1.tunnels, m1)
        ELSE rewriteTLVPayload(f.body, m1)
TotalAfter(f, out) ==
    IF protobufWireConsumesFully(f.body) THEN HeaderLen + Len(out) ELSE f.total

\* The search for URLs comes last, and leaves the header as it is.
rewriteTunnelPayload ==
    /\ pc = "rewrite"
    /\ \E first \in {Walk(frame, Manager)} :
       \E last \in {rewriteHTTPURLBytes[first.out][first.m]} :
          /\ walked' = [total |-> TotalAfter(frame, first.out), body |-> first.out]
          /\ sent' = [total |-> TotalAfter(frame, first.out), body |-> last.out]
          /\ tunnels' = last.m.tunnels
    /\ pc' = "write"
    /\ UNCHANGED <<refused, closed, round, before, frame>>

WriteFrame ==
    /\ pc = "write"
    /\ pc' = "read"
    /\ refused' = {} /\ before' = {} /\ round' = 1
    /\ closed' = closed \ GameAddrs
    /\ tunnels' = tunnels \ (closed \cap GameAddrs)
    /\ frame' = NoFrame /\ walked' = NoFrame /\ sent' = NoFrame

Next == \/ \E a \in Foreign : Elsewhere(a) \/ Reap(a)
        \/ \E body \in Bodies : ReadFrame(body)
        \/ rewriteTunnelPayload \/ WriteFrame

Spec == Init /\ [][Next]_vars

-----------------------------------------------------------------------------
\* Tunnels lead to other hosts than the proxy, the registry says what is closed,
\* and a frame is bytes (Manager, copyTCPRemoteToClientFramed).
TypeOK ==
    /\ tunnels \subseteq Foreign /\ before \subseteq Foreign
    /\ refused \subseteq Foreign \ before
    /\ closed \subseteq tunnels /\ round \in DOMAIN Iterations
    /\ pc \in {"read", "rewrite", "write"}
    /\ \A f \in {frame, walked, sent} : f.total \in Nat /\ f.body \in Bytes

IsMessage == protobufWireConsumesFully(frame.body)
Width == IF AllRecords(frame.body, 1) \/ ~AllRecords(frame.body, 2) THEN 1 ELSE 2

\* The texts that a record's tag has looked at, and those of a message's chunks.
KindsOf(tag) == CASE tag = 12 -> {"address", "bare host"}
                  [] tag = 18 -> {"address", "host"}
                  [] tag = 27 -> {"url"}
                  [] OTHER -> {"address"}
ChunkKinds == {"address", "host", "url"}

\* What the client may get for the text v.  A host may be answered from any
\* tunnel m has in the end, and must be if there was one in had.
Substitutes(v, kinds, had, m) ==
    LET s == TrimRight(v)
        named == {a \in GameAddrs \ m.refused : "address" \in kinds /\ Text(a) = s}
        url == {a \in Foreign \ m.refused :
                   "url" \in kinds /\ (URLText(a) = s \/ IsPrefix(URLText(a) \o <<Slash>>, s))}
        bare == {ip \in IPs \ {ProxyIP} : "bare host" \in kinds /\ IpText[ip] = s}
        legsOf(L) == {a \in L : "host" \in kinds /\ IpText[a[1]] = s /\ ClientPort(a, m) > 0}
    IN  {ProxyText(ClientAdvertisedPort(a, m)) : a \in named}
        \cup {ProxyURL(a, m) \o Drop(s, Len(URLText(a))) : a \in url}
        \cup {IpText[ProxyIP] : ip \in bare}
        \cup {ProxyText(ClientPort(a, m)) : a \in legsOf(m.tunnels)}
        \cup {w \in {v} : named = {} /\ url = {} /\ bare = {} /\ legsOf(had) = {}}

\* Message c says what b said: field for field the same number, type and value,
\* nested messages too, and every other chunk is replaced whole or not at all.
\* split is the lobby address of the message, inner what its chunks may become.
SameField(f, g, split, inner, m) ==
    /\ f.tag = g.tag
    /\ f.wt # 2 => \/ g.data = f.data
                   \/ \E a \in split : f.num = 1 /\ g.value = UDPClientPort[a]
    /\ f.wt = 2 => IF f.num = 2 /\ \E a \in split \ m.refused : TrimRight(f.chunk) = IpText[a[1]]
                   THEN g.chunk = IpText[ProxyIP]
                   ELSE g.chunk \in inner[f.chunk]
SameMessage(b, c, split, inner, m) ==
    /\ protobufWireConsumesFully(c) /\ Len(Fields(b)) = Len(Fields(c))
    /\ \A i \in DOMAIN Fields(b) : SameField(Fields(b)[i], Fields(c)[i], split, inner, m)
SameChunk(had, m) ==
    LET same[depth \in Nat] == [b \in Bytes |->
            IF Messages(b, depth) THEN {c \in Bytes : SameMessage(b, c, {}, same[depth - 1], m)}
            ELSE Substitutes(b, ChunkKinds, had, m)]
    IN  same
SaysTheSame(b, c, had, m) ==
    SameMessage(b, c, parseLobbyProtobufContext(b), SameChunk(had, m)[MaxDepth], m)

Occurs(text, b) == \E i \in DOMAIN b : IsPrefix(text, Drop(b, i - 1))

\* A message that the walk has been through declares its length, and says what
\* it said, with the addresses in it replaced; lengths nested in lengths follow
\* what is within (tryRewriteProtobuf).  What looks like a message is one, also
\* if it is a text: an address the bytes of which are fields goes through.  The
\* search for URLs that follows leaves a message without any alone.
MeaningKept ==
    pc = "write" /\ IsMessage =>
        /\ walked.total = HeaderLen + Len(walked.body)
        /\ SaysTheSame(frame.body, walked.body, before, Manager)
        /\ (\A a \in Foreign : ~Occurs(URLText(a), walked.body)) => sent = walked

\* A lobby address split over two fields is replaced in both, as the client puts
\* the two together (manager.go:788), but for the port of a leg closed under the
\* call.  One that is refused keeps its port; its host is then looked at as any
\* other, and stays only if there was no leg to it, or it looks like a message.
SplitTogether ==
    pc = "write" => \A a \in parseLobbyProtobufContext(frame.body) :
        LET legs(L) == {b \in L \ closed : b[1] = a[1] /\ UDPClientPort[b] > 0}
        IN  \E port \in LastOf(Fields(walked.body), 1, 0), ip \in LastOf(Fields(walked.body), 2, 2) :
               /\ a \notin refused => ip.chunk = IpText[ProxyIP]
               /\ a \notin refused \cup closed => port.value = UDPClientPort[a]
               /\ a \in refused =>
                     /\ port.value = a[2]
                     /\ \/ /\ TrimRight(ip.chunk) = IpText[a[1]]
                           /\ legs(before) = {} \/ Messages(ip.chunk, MaxDepth)
                        \/ \E b \in legs(tunnels) : ip.chunk = ProxyText(UDPClientPort[b])

\* Records keep their tags and their number, and their values but for addresses;
\* one that its length cannot say any more is cut.  A host on its own is answered
\* from an address that any record of the frame names, before it or after it;
\* what follows the last whole record is kept (rewriteTLVPayload,
\* precreateTunnelsFromTLVPayload).
RecordsKept ==
    pc = "write" /\ ~IsMessage =>
        LET old == Records(Width)[frame.body]
            new == Records(Width)[walked.body]
            named == {a \in GameAddrs \ refused :
                         \E i \in DOMAIN old.list : Text(a) = TrimRight(old.list[i].value)}
        IN  /\ walked.total = frame.total
            /\ new.rest = old.rest /\ Len(new.list) = Len(old.list)
            /\ \A i \in DOMAIN old.list :
                  /\ new.list[i].tag = old.list[i].tag
                  /\ \E v \in Substitutes(old.list[i].value, KindsOf(old.list[i].tag), before \cup named, Manager) :
                        new.list[i].value = CutTo(v, Width)

\* What the search for URLs may make of b: some of them are those of tunnels.
URLsProxied(m) ==
    LET from[b \in Bytes] == {c \in Bytes :
            IF b = <<>> THEN c = <<>>
            ELSE \/ /\ c # <<>> /\ Head(c) = Head(b)
                    /\ Tail(c) \in from[Tail(b)]
                 \/ \E a \in URLOf(b) \cap Foreign \cap m.tunnels :
                       /\ IsPrefix(ProxyURL(a, m), c)
                       /\ Drop(c, Len(ProxyURL(a, m))) \in from[Drop(b, Len(URLText(a)))]}
    IN  from

\* Tunnels are made for addresses that the frame names, and for no others: as a
\* text, if the port is one of the game's, over two fields, or in a URL; and the
\* search for URLs puts nothing into a frame but URLs of tunnels, each where one
\* of the address it leads to was.  The first of them is replaced
\* (rewriteHTTPURLBytes, EnsureTunnel).
LeadsWhereTheFrameSaid ==
    pc = "write" =>
        /\ \A a \in tunnels \ before :
              \/ a \in GameAddrs /\ Occurs(Text(a), frame.body)
              \/ a \in parseLobbyProtobufContext(frame.body)
              \/ Occurs(URLText(a), frame.body) \/ Occurs(URLText(a), walked.body)
        /\ sent.body \in URLsProxied(Manager)[walked.body]
        /\ \A i \in DOMAIN walked.body : \A a \in URLOf(Drop(walked.body, i - 1)) \cap Foreign :
              a \notin refused /\ (\A j \in 1 .. i - 1 : URLOf(Drop(walked.body, j - 1)) = {}) =>
                 IsPrefix(Take(walked.body, i - 1) \o ProxyURL(a, Manager), sent.body)

\* The frame written declares its own length, which is how the client finds the
\* next one (manager.go:823).
FrameLengthTrue == pc = "write" => sent.total = HeaderLen + Len(sent.body)
=============================================================================
