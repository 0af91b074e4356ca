------------------------- MODULE PayloadRewriteProofs -------------------------
(***************************************************************************)
(* That the copier's frames are typed, that a message that has been walked    *)
(* says what it said, a split address stays together and records are kept,   *)
(* and that tunnels are made for what the frame names and URLs of tunnels    *)
(* take the place of the URLs that they lead to.                             *)
(*                                                                           *)
(* A frame is dealt with in one step, so the inductive invariant IInv says   *)
(* no more than that what was written is what rewriteTunnelPayload makes of  *)
(* the frame and the registry it found; all the rest is about the            *)
(* functions. They are followed by induction on the length of the bytes and  *)
(* on the depth of messages. Two things make the walk over messages hard:    *)
(* what was written must be read back as the fields it was written for, for  *)
(* which its lengths must stay within a varint (Growth), and what a chunk    *)
(* becomes depends on the registry at its turn, which is later than the one  *)
(* the frame found and earlier than the last (Later).                        *)
(***************************************************************************)
EXTENDS PayloadRewrite, WireFormatProofs

(***************************************************************************)
(* Texts                                                                   *)
(***************************************************************************)
\* The greatest of a set of bounded numbers.
LEMMA MaxProperties ==
    ASSUME NEW S, NEW n \in Nat, S \subseteq 0 .. n, S # {}
    PROVE  Max(S) \in S /\ \A y \in S : y <= Max(S)
<1>. DEFINE U == {u \in Nat : \A y \in S : y <= u}
<1>1. n \in U
  OBVIOUS
<1>2. PICK u \in U : \A w \in U : u <= w
  BY <1>1, LeastNumber
<1>3. u \in S
  <2>1. SUFFICES ASSUME u \notin S PROVE FALSE
    OBVIOUS
  <2>2. PICK y \in S : TRUE
    OBVIOUS
  <2>3. u > 0 /\ u - 1 \in Nat
    BY <2>1, <2>2
  <2>4. u - 1 \in U
    BY <2>1, <2>3
  <2>. QED
    BY <1>2, <2>3, <2>4
<1>4. \E x \in S : \A y \in S : x >= y
  BY <1>3
<1>5. Max(S) \in S /\ \A y \in S : Max(S) >= y
  BY <1>4 DEF Max
<1>. QED
  BY <1>5

\* IsPrefix, by what it takes and byte by byte.
LEMMA PrefixProperties ==
    ASSUME NEW x \in Bytes, NEW s \in Bytes
    PROVE  /\ IsPrefix(x, s) <=> Len(x) <= Len(s) /\ Take(s, Len(x)) = x
           /\ IsPrefix(x, s) <=> Len(x) <= Len(s) /\ \A i \in 1 .. Len(x) : x[i] = s[i]
<1>1. Len(x) \in Nat /\ Len(s) \in Nat
  BY BytesAreNumbers
<1>2. SubSeq(x, 1, Len(x)) = x
  BY SubSeqFull DEF Bytes
<1>3. IsPrefix(x, s) <=> Len(x) <= Len(s) /\ Take(s, Len(x)) = x
  BY <1>2 DEF IsPrefix, Take
<1>4. ASSUME Len(x) <= Len(s)
      PROVE  Take(s, Len(x)) = x <=> \A i \in 1 .. Len(x) : x[i] = s[i]
  <2>1. Take(s, Len(x)) \in Seq(Byte) /\ Len(Take(s, Len(x))) = Len(x)
        /\ \A i \in 1 .. Len(x) : Take(s, Len(x))[i] = s[i]
    <3>1. Len(x) \in 0 .. Len(s)
      BY <1>1, <1>4
    <3>. QED
      BY <3>1, TakeProperties DEF Bytes
  <2>2. ASSUME \A i \in 1 .. Len(x) : x[i] = s[i]
        PROVE  Take(s, Len(x)) = x
    <3>1. \A i \in 1 .. Len(x) : Take(s, Len(x))[i] = x[i]
      BY <2>1, <2>2
    <3>. QED
      BY <2>1, <3>1, SeqEqual DEF Bytes
  <2>. QED
    BY <2>1, <2>2
<1>. QED
  BY <1>3, <1>4

\* A text without padding at the end or within is Unpadded.
LEMMA UnpaddedProperties ==
    ASSUME NEW x \in Unpadded
    PROVE  x \in Bytes /\ \A i \in 1 .. Len(x) : x[i] # 0
BY ElementOfSeq DEF Unpadded, Bytes

\* TrimRight takes zeros off the end and nothing else.
LEMMA TrimProperties ==
    ASSUME NEW s \in Bytes
    PROVE  /\ TrimRight(s) \in Bytes /\ Len(TrimRight(s)) <= Len(s)
           /\ \A i \in 1 .. Len(TrimRight(s)) : TrimRight(s)[i] = s[i]
           /\ \A i \in 1 .. Len(s) : s[i] # 0 => i <= Len(TrimRight(s))
<1>. DEFINE S == {0} \cup {i \in DOMAIN s : s[i] # 0}
            n == Max(S)
<1>1. Len(s) \in Nat /\ DOMAIN s = 1 .. Len(s)
  BY BytesAreNumbers, LenProperties DEF Bytes
<1>2. n \in S /\ \A y \in S : y <= n
  <2>1. S \subseteq 0 .. Len(s) /\ S # {}
    BY <1>1
  <2>. QED
    BY <1>1, <2>1, MaxProperties
<1>3. n \in 0 .. Len(s)
  BY <1>1, <1>2
<1>4. \A i \in 1 .. Len(s) : s[i] # 0 => i <= n
  BY <1>1, <1>2
<1>5. TrimRight(s) = Take(s, n)
  BY DEF TrimRight
<1>. HIDE DEF n
<1>6. Take(s, n) \in Bytes /\ Len(Take(s, n)) = n /\ \A i \in 1 .. n : Take(s, n)[i] = s[i]
  BY <1>3, TakeProperties DEF Bytes
<1>. QED
  BY <1>1, <1>3, <1>4, <1>5, <1>6

\* A text without zeros is the beginning of padded bytes if it is that of what is left.
LEMMA TrimKeepsPrefix ==
    ASSUME NEW s \in Bytes, NEW x \in Unpadded
    PROVE  IsPrefix(x, TrimRight(s)) <=> IsPrefix(x, s)
<1>. DEFINE t == TrimRight(s)
<1>1. /\ t \in Bytes /\ Len(t) <= Len(s) /\ \A i \in 1 .. Len(t) : t[i] = s[i]
      /\ \A i \in 1 .. Len(s) : s[i] # 0 => i <= Len(t)
  BY TrimProperties
<1>. HIDE DEF t
<1>2. x \in Bytes /\ Len(x) \in Nat /\ Len(t) \in Nat /\ Len(s) \in Nat /\ \A i \in 1 .. Len(x) : x[i] # 0
  BY <1>1, UnpaddedProperties, BytesAreNumbers
<1>3. IsPrefix(x, t) <=> Len(x) <= Len(t) /\ \A i \in 1 .. Len(x) : x[i] = t[i]
  BY <1>1, <1>2, PrefixProperties
<1>4. IsPrefix(x, s) <=> Len(x) <= Len(s) /\ \A i \in 1 .. Len(x) : x[i] = s[i]
  BY <1>2, PrefixProperties
<1>5. ASSUME IsPrefix(x, t) PROVE IsPrefix(x, s)
  BY <1>1, <1>2, <1>3, <1>4, <1>5
<1>6. ASSUME IsPrefix(x, s) PROVE IsPrefix(x, t)
  <2>1. Len(x) <= Len(s) /\ \A i \in 1 .. Len(x) : x[i] = s[i]
    BY <1>4, <1>6
  <2>2. Len(x) <= Len(t)
    <3>1. CASE Len(x) = 0
      BY <1>2, <3>1
    <3>2. CASE Len(x) > 0
      <4>1. Len(x) \in 1 .. Len(x) /\ Len(x) \in 1 .. Len(s)
        BY <1>2, <2>1, <3>2
      <4>2. s[Len(x)] # 0
        BY <1>2, <2>1, <4>1
      <4>. QED
        BY <1>1, <4>1, <4>2
    <3>. QED
      BY <1>2, <3>1, <3>2
  <2>. QED
    BY <1>1, <1>2, <1>3, <2>1, <2>2
<1>. QED
  BY <1>5, <1>6 DEF t

\* Texts are bytes, those of the proxy short ones.
LEMMA TextsTyped ==
    /\ Http \in Unpadded /\ Http # <<>> /\ Http \in Bytes /\ Len(Http) > 0
    /\ \A ip \in IPs \cup {ProxyIP} : IpText[ip] \in Unpadded /\ IpText[ip] \in Bytes
    /\ \A ip \in IPs \cup {ProxyIP}, port \in Ports : HostText(ip, port) \in Unpadded
    /\ \A a \in Addrs : Text(a) \in Unpadded /\ URLText(a) \in Unpadded /\ Text(a) \in Bytes
    /\ \A a \in Addrs : URLText(a) \in Bytes /\ Len(URLText(a)) = Len(Http) + Len(Text(a))
    /\ \A port \in Ports : /\ ProxyText(port) \in Bytes /\ Len(ProxyText(port)) <= MaxText
                           /\ Http \o ProxyText(port) \in Bytes /\ Len(Http \o ProxyText(port)) <= MaxText
    /\ IpText[ProxyIP] \in Bytes /\ Len(IpText[ProxyIP]) <= MaxText
    /\ MaxText \in Nat
<1>1. /\ Http \in Unpadded /\ Http # <<>> /\ MaxText \in Nat /\ <<Colon>> \in Unpadded
      /\ \A ip \in IPs \cup {ProxyIP} : IpText[ip] \in Unpadded
      /\ \A port \in Ports : PortText[port] \in Unpadded
      /\ \A port \in Ports : Len(Http \o ProxyText(port)) <= MaxText
  BY TextsAssumption DEF Unpadded
<1>2. ASSUME NEW ip \in IPs \cup {ProxyIP}, NEW port \in Ports
      PROVE  /\ HostText(ip, port) \in Unpadded
             /\ Len(HostText(ip, port)) = Len(IpText[ip]) + 1 + Len(PortText[port])
  <2>. DEFINE h == IpText[ip] \o <<Colon>>
  <2>1. IpText[ip] \in Seq(Byte \ {0}) /\ <<Colon>> \in Seq(Byte \ {0}) /\ PortText[port] \in Seq(Byte \ {0})
        /\ Len(<<Colon>>) = 1
    BY <1>1 DEF Unpadded
  <2>2. h \in Seq(Byte \ {0}) /\ Len(h) = Len(IpText[ip]) + 1
    BY <2>1, ConcatProperties
  <2>. HIDE DEF h
  <2>3. h \o PortText[port] \in Seq(Byte \ {0}) /\ Len(h \o PortText[port]) = Len(h) + Len(PortText[port])
    BY <2>1, <2>2, ConcatProperties
  <2>4. HostText(ip, port) = h \o PortText[port]
    BY DEF HostText, h
  <2>. QED
    BY <2>2, <2>3, <2>4 DEF Unpadded
<1>3. ASSUME NEW t \in Unpadded
      PROVE  Http \o t \in Unpadded /\ Len(Http \o t) = Len(Http) + Len(t)
  BY <1>1, ConcatProperties DEF Unpadded
<1>4. ASSUME NEW a \in Addrs
      PROVE  /\ Text(a) \in Unpadded /\ URLText(a) \in Unpadded
             /\ Len(URLText(a)) = Len(Http) + Len(Text(a))
  <2>1. a[1] \in IPs /\ a[2] \in Ports
    BY DEF IPs, Ports
  <2>2. Text(a) \in Unpadded
    BY <1>2, <2>1 DEF Text
  <2>. QED
    BY <1>3, <2>2 DEF URLText
<1>5. \A t \in Unpadded : t \in Bytes /\ Len(t) \in Nat
  BY UnpaddedProperties, BytesAreNumbers
<1>6. Len(Http) > 0
  <2>1. Len(Http) # 0
    BY <1>1, EmptySeq DEF Unpadded
  <2>. QED
    BY <1>1, <1>5, <2>1
<1>7. ASSUME NEW port \in Ports
      PROVE  /\ ProxyText(port) \in Bytes /\ Len(ProxyText(port)) <= MaxText
             /\ Http \o ProxyText(port) \in Bytes /\ Len(Http \o ProxyText(port)) <= MaxText
             /\ Len(IpText[ProxyIP]) <= MaxText
  <2>. DEFINE t == ProxyText(port)
  <2>1. t \in Unpadded /\ Len(t) = Len(IpText[ProxyIP]) + 1 + Len(PortText[port])
    BY <1>2 DEF ProxyText
  <2>2. Len(Http \o t) <= MaxText
    BY <1>1
  <2>3. Len(IpText[ProxyIP]) \in Nat /\ Len(PortText[port]) \in Nat /\ Len(Http) \in Nat
    BY <1>1, <1>5
  <2>. HIDE DEF t
  <2>4. Http \o t \in Unpadded /\ Len(Http \o t) = Len(Http) + Len(t) /\ Len(t) \in Nat
    BY <1>3, <1>5, <2>1
  <2>5. Len(t) <= MaxText
    BY <1>1, <2>2, <2>3, <2>4
  <2>6. Len(IpText[ProxyIP]) <= MaxText
    <3>. DEFINE k == Len(IpText[ProxyIP])
                l == Len(PortText[port])
    <3>1. k \in Nat /\ l \in Nat /\ k + 1 + l <= MaxText /\ MaxText \in Nat
      BY <1>1, <2>1, <2>3, <2>5
    <3>. HIDE DEF k, l
    <3>2. k <= MaxText
      BY <3>1
    <3>. QED
      BY <3>2 DEF k
  <2>. QED
    BY <1>5, <2>1, <2>2, <2>4, <2>5, <2>6 DEF t
<1>8. 0 \in Ports
  BY DEF Ports
<1>. QED
  BY <1>1, <1>2, <1>4, <1>5, <1>6, <1>7, <1>8

\* What the client gets is a port.
LEMMA PortsTyped ==
    ASSUME NEW a \in Addrs, NEW m \in Managers
    PROVE  /\ ClientPort(a, m) \in Ports /\ ClientPort(a, m) \in Nat
           /\ ClientAdvertisedPort(a, m) \in Ports
<1>1. LocalPort[a] \in Nat /\ UDPClientPort[a] \in Nat
  BY PortsAssumption
<1>2. LocalPort[a] \in Ports /\ UDPClientPort[a] \in Ports /\ 0 \in Ports
  BY DEF Ports
<1>. QED
  BY <1>1, <1>2 DEF ClientPort, ClientAdvertisedPort

\* Where host, colon and port are in an address.
LEMMA TextBytes ==
    ASSUME NEW a \in Addrs
    PROVE  /\ IpText[a[1]] \in Bytes /\ PortText[a[2]] \in Bytes /\ Text(a) \in Bytes
           /\ Len(IpText[a[1]]) \in Nat /\ Len(PortText[a[2]]) \in Nat
           /\ Len(Text(a)) = Len(IpText[a[1]]) + 1 + Len(PortText[a[2]])
           /\ \A i \in 1 .. Len(IpText[a[1]]) : Text(a)[i] = IpText[a[1]][i] /\ Text(a)[i] # Colon
           /\ Text(a)[Len(IpText[a[1]]) + 1] = Colon
           /\ \A i \in 1 .. Len(PortText[a[2]]) : /\ Text(a)[Len(IpText[a[1]]) + 1 + i] = PortText[a[2]][i]
                                                  /\ PortText[a[2]][i] \in Digits
<1>. DEFINE h == IpText[a[1]]
            p == PortText[a[2]]
            k == Len(h)
<1>1. a[1] \in IPs /\ a[2] \in Ports
  BY DEF IPs, Ports
<1>2. h \in Seq(Byte \ {0, Colon, Slash}) /\ p \in Seq(Digits) /\ <<Colon>> \in Seq(Byte) /\ Digits \subseteq Byte
  BY <1>1, TextsAssumption
<1>3. h \in Bytes /\ p \in Bytes
  BY <1>2 DEF Bytes
<1>4. (\A i \in 1 .. Len(h) : h[i] # Colon) /\ (\A i \in 1 .. Len(p) : p[i] \in Digits)
  <2>1. \A i \in 1 .. Len(h) : h[i] \in Byte \ {0, Colon, Slash}
    BY <1>2, ElementOfSeq
  <2>2. \A i \in 1 .. Len(p) : p[i] \in Digits
    BY <1>2, ElementOfSeq
  <2>. QED
    BY <2>1, <2>2
<1>5. k \in Nat /\ Len(p) \in Nat
  BY <1>3, BytesAreNumbers
<1>6. Text(a) = (h \o <<Colon>>) \o p
  BY DEF Text, HostText
<1>. HIDE DEF h, p
<1>7. h \in Seq(Byte) /\ p \in Seq(Byte)
  BY <1>3 DEF Bytes
<1>8. /\ h \o <<Colon>> \in Seq(Byte) /\ Len(h \o <<Colon>>) = k + 1
      /\ \A i \in 1 .. k + 1 : (h \o <<Colon>>)[i] = IF i <= k THEN h[i] ELSE <<Colon>>[i - k]
  <2>1. Len(<<Colon>>) = 1
    OBVIOUS
  <2>. QED
    BY <1>2, <1>7, <2>1, ConcatProperties
<1>. DEFINE hc == h \o <<Colon>>
<1>9. (\A i \in 1 .. k : hc[i] = h[i]) /\ hc[k + 1] = Colon
  BY <1>5, <1>8
<1>. HIDE DEF k
<1>10. /\ hc \o p \in Seq(Byte) /\ Len(hc \o p) = (k + 1) + Len(p)
       /\ \A i \in 1 .. (k + 1) + Len(p) : (hc \o p)[i] = IF i <= k + 1 THEN hc[i] ELSE p[i - (k + 1)]
  <2>1. hc \in Seq(Byte) /\ Len(hc) = k + 1
    BY <1>8
  <2>. HIDE DEF hc
  <2>2. /\ hc \o p \in Seq(Byte) /\ Len(hc \o p) = Len(hc) + Len(p)
        /\ \A i \in 1 .. Len(hc) + Len(p) : (hc \o p)[i] = IF i <= Len(hc) THEN hc[i] ELSE p[i - Len(hc)]
    BY <1>7, <2>1, ConcatProperties
  <2>. QED
    BY <2>1, <2>2
<1>. HIDE DEF hc
<1>11. Len(hc \o p) = k + 1 + Len(p)
  BY <1>5, <1>10
<1>12. \A i \in 1 .. k : (hc \o p)[i] = h[i]
  BY <1>5, <1>9, <1>10
<1>13. (hc \o p)[k + 1] = Colon
  BY <1>5, <1>9, <1>10
<1>14. \A i \in 1 .. Len(p) : (hc \o p)[k + 1 + i] = p[i]
  <2>. SUFFICES ASSUME NEW i \in 1 .. Len(p) PROVE (hc \o p)[k + 1 + i] = p[i]
    OBVIOUS
  <2>1. k + 1 + i \in 1 .. (k + 1) + Len(p) /\ ~(k + 1 + i <= k + 1) /\ (k + 1 + i) - (k + 1) = i
    BY <1>5
  <2>. QED
    BY <1>10, <2>1
<1>15. Text(a) = hc \o p
  BY <1>6 DEF hc
<1>. HIDE DEF k, hc
<1>16. /\ Text(a) \in Bytes /\ Len(Text(a)) = k + 1 + Len(p)
       /\ (\A i \in 1 .. k : Text(a)[i] = h[i]) /\ Text(a)[k + 1] = Colon
       /\ \A i \in 1 .. Len(p) : Text(a)[k + 1 + i] = p[i]
  BY <1>10, <1>11, <1>12, <1>13, <1>14, <1>15 DEF Bytes
<1>17. \A i \in 1 .. k : Text(a)[i] # Colon
  BY <1>4, <1>16 DEF k
<1>. QED
  BY <1>3, <1>4, <1>5, <1>16, <1>17 DEF h, p, k

\* An address in a text ends where its digits do.
LEMMA TextsOverlap ==
    ASSUME NEW a \in Addrs, NEW b \in Addrs, NEW s \in Bytes,
           IsPrefix(Text(a), s), IsPrefix(Text(b), s), Len(Text(a)) <= Len(Text(b))
    PROVE  a = b \/ /\ Len(PortText[a[2]]) < Len(PortText[b[2]])
                    /\ Len(Text(a)) < Len(s) /\ s[Len(Text(a)) + 1] \in Digits
<1>. DEFINE h == IpText[a[1]]
            g == IpText[b[1]]
            p == PortText[a[2]]
            q == PortText[b[2]]
            t == Text(a)
            u == Text(b)
<1>1. /\ h \in Bytes /\ g \in Bytes /\ p \in Bytes /\ q \in Bytes /\ t \in Bytes /\ u \in Bytes
      /\ Len(h) \in Nat /\ Len(g) \in Nat /\ Len(p) \in Nat /\ Len(q) \in Nat
      /\ Len(t) = Len(h) + 1 + Len(p) /\ Len(u) = Len(g) + 1 + Len(q)
      /\ \A i \in 1 .. Len(h) : t[i] = h[i] /\ t[i] # Colon
      /\ \A i \in 1 .. Len(g) : u[i] = g[i] /\ u[i] # Colon
      /\ t[Len(h) + 1] = Colon /\ u[Len(g) + 1] = Colon
      /\ \A i \in 1 .. Len(p) : t[Len(h) + 1 + i] = p[i]
      /\ \A i \in 1 .. Len(q) : u[Len(g) + 1 + i] = q[i] /\ q[i] \in Digits
  BY TextBytes
<1>2. /\ Len(t) <= Len(s) /\ \A i \in 1 .. Len(t) : t[i] = s[i]
      /\ Len(u) <= Len(s) /\ \A i \in 1 .. Len(u) : u[i] = s[i]
  BY <1>1, PrefixProperties
<1>3. Len(t) <= Len(u) /\ Len(s) \in Nat
  BY BytesAreNumbers
<1>. HIDE DEF h, g, p, q, t, u
<1>4. Len(h) = Len(g)
  <2>1. ASSUME Len(h) < Len(g) PROVE FALSE
    <3>1. Len(h) + 1 \in 1 .. Len(g) /\ Len(h) + 1 \in 1 .. Len(t) /\ Len(h) + 1 \in 1 .. Len(u)
      BY <1>1, <2>1
    <3>. QED
      BY <1>1, <1>2, <3>1
  <2>2. ASSUME Len(g) < Len(h) PROVE FALSE
    <3>1. Len(g) + 1 \in 1 .. Len(h) /\ Len(g) + 1 \in 1 .. Len(t) /\ Len(g) + 1 \in 1 .. Len(u)
      BY <1>1, <2>2
    <3>. QED
      BY <1>1, <1>2, <3>1
  <2>. QED
    BY <1>1, <2>1, <2>2
<1>5. h = g
  <2>1. \A i \in 1 .. Len(h) : h[i] = g[i]
    <3>. SUFFICES ASSUME NEW i \in 1 .. Len(h) PROVE h[i] = g[i]
      OBVIOUS
    <3>1. i \in 1 .. Len(g) /\ i \in 1 .. Len(t) /\ i \in 1 .. Len(u)
      BY <1>1, <1>4
    <3>. QED
      BY <1>1, <1>2, <3>1
  <2>. QED
    BY <1>1, <1>4, <2>1, SeqEqual DEF Bytes
<1>6. \A i \in 1 .. Len(p) : i \in 1 .. Len(q) /\ p[i] = q[i]
  <2>. SUFFICES ASSUME NEW i \in 1 .. Len(p) PROVE i \in 1 .. Len(q) /\ p[i] = q[i]
    OBVIOUS
  <2>1. /\ i \in 1 .. Len(q) /\ Len(h) + 1 + i \in 1 .. Len(t) /\ Len(g) + 1 + i \in 1 .. Len(u)
        /\ Len(h) + 1 + i = Len(g) + 1 + i
    <3>. DEFINE lh == Len(h)
                lp == Len(p)
                lq == Len(q)
                lt == Len(t)
                lu == Len(u)
    <3>1. /\ lh \in Nat /\ lp \in Nat /\ lq \in Nat /\ lt = lh + 1 + lp /\ lu = lh + 1 + lq /\ lt <= lu
          /\ i \in 1 .. lp /\ Len(g) = lh
      BY <1>1, <1>3, <1>4
    <3>. HIDE DEF lh, lp, lq, lt, lu
    <3>2. i \in 1 .. lq /\ lh + 1 + i \in 1 .. lt /\ lh + 1 + i \in 1 .. lu
      BY <3>1
    <3>. QED
      BY <3>1, <3>2 DEF lh, lp, lq, lt, lu
  <2>2. t[Len(h) + 1 + i] = p[i] /\ u[Len(g) + 1 + i] = q[i]
    BY <1>1, <2>1
  <2>3. t[Len(h) + 1 + i] = s[Len(h) + 1 + i] /\ u[Len(g) + 1 + i] = s[Len(g) + 1 + i]
    BY <1>2, <2>1
  <2>. QED
    BY <2>1, <2>2, <2>3
<1>7. CASE Len(p) = Len(q)
  <2>1. p = q
    BY <1>1, <1>6, <1>7, SeqEqual DEF Bytes
  <2>2. a[1] \in IPs /\ b[1] \in IPs /\ a[2] \in Ports /\ b[2] \in Ports
    BY DEF IPs, Ports
  <2>3. a[1] = b[1] /\ a[2] = b[2]
    <3>1. a[1] = b[1]
      BY <1>5, <2>2, TextsAssumption DEF h, g
    <3>2. a[2] = b[2]
      BY <2>1, <2>2, TextsAssumption DEF p, q
    <3>. QED
      BY <3>1, <3>2
  <2>4. a \in IPs \X Ports /\ b \in IPs \X Ports
    BY PortsAssumption
  <2>. QED
    BY <2>3, <2>4
<1>8. CASE Len(p) < Len(q)
  <2>1. Len(p) + 1 \in 1 .. Len(q) /\ Len(t) + 1 \in 1 .. Len(u) /\ Len(g) + 1 + (Len(p) + 1) = Len(t) + 1
    <3>. DEFINE lh == Len(h)
                lp == Len(p)
                lq == Len(q)
                lt == Len(t)
                lu == Len(u)
    <3>1. /\ lh \in Nat /\ lp \in Nat /\ lq \in Nat /\ lt = lh + 1 + lp /\ lu = lh + 1 + lq /\ lp < lq
          /\ Len(g) = lh
      BY <1>1, <1>4, <1>8
    <3>. HIDE DEF lh, lp, lq, lt, lu
    <3>2. lp + 1 \in 1 .. lq /\ lt + 1 \in 1 .. lu /\ lh + 1 + (lp + 1) = lt + 1
      BY <3>1
    <3>. QED
      BY <3>1, <3>2 DEF lp, lq, lt, lu
  <2>2. u[Len(t) + 1] \in Digits
    BY <1>1, <2>1
  <2>3. s[Len(t) + 1] \in Digits
    BY <1>2, <2>1, <2>2
  <2>4. Len(t) < Len(s)
    <3>. DEFINE x == Len(t)
                y == Len(u)
                z == Len(s)
    <3>1. x \in Nat /\ y \in Nat /\ z \in Nat /\ x + 1 <= y /\ y <= z
      BY <1>1, <1>2, <1>3, <2>1
    <3>. HIDE DEF x, y, z
    <3>2. x < z
      BY <3>1
    <3>. QED
      BY <3>2 DEF x, z
  <2>. QED
    BY <1>8, <2>3, <2>4 DEF p, q, t
<1>9. Len(p) <= Len(q)
  BY <1>1, <1>3, <1>4
<1>. QED
  BY <1>1, <1>7, <1>8, <1>9

\* One address, one text; one host, one text; none is an address or begins a URL.
LEMMA TextsDiffer ==
    /\ \A a, b \in Addrs : Text(a) = Text(b) => a = b
    /\ \A a \in Addrs, ip \in IPs : IpText[ip] # Text(a)
    /\ \A ip, jp \in IPs : IpText[ip] = IpText[jp] => ip = jp
    /\ \A ip \in IPs : ~IsPrefix(Http, IpText[ip])
    /\ \A a \in Addrs : ~IsPrefix(Http, Text(a))
<1>1. \A ip, jp \in IPs : IpText[ip] = IpText[jp] => ip = jp
  BY TextsAssumption
<1>2. ASSUME NEW a \in Addrs, NEW b \in Addrs, Text(a) = Text(b)
      PROVE  a = b
  <2>1. Text(a) \in Bytes /\ Len(Text(a)) \in Nat
    BY TextsTyped, BytesAreNumbers
  <2>2. IsPrefix(Text(a), Text(a))
    BY <2>1, PrefixProperties
  <2>3. a = b \/ Len(Text(a)) < Len(Text(a))
    BY <1>2, <2>1, <2>2, TextsOverlap
  <2>. QED
    BY <2>1, <2>3
<1>3. ASSUME NEW a \in Addrs, NEW ip \in IPs, IpText[ip] = Text(a)
      PROVE  FALSE
  <2>. DEFINE t == Text(a)
              k == Len(IpText[a[1]]) + 1
  <2>1. t \in Bytes /\ k \in 1 .. Len(t) /\ t[k] = Colon
    <3>. DEFINE x == Len(IpText[a[1]])
                y == Len(PortText[a[2]])
                l == Len(t)
    <3>1. t \in Bytes /\ x \in Nat /\ y \in Nat /\ l = x + 1 + y /\ t[k] = Colon /\ k = x + 1
      BY TextBytes
    <3>. HIDE DEF x, y, l, k
    <3>2. k \in 1 .. l
      BY <3>1
    <3>. QED
      BY <3>1, <3>2 DEF l
  <2>2. t \in Seq(Byte \ {0, Colon, Slash})
    BY <1>3, TextsAssumption
  <2>. HIDE DEF t, k
  <2>3. t[k] \in Byte \ {0, Colon, Slash}
    BY <2>1, <2>2, ElementOfSeq
  <2>. QED
    BY <2>1, <2>3
<1>4. ASSUME NEW t \in Bytes, IsPrefix(Http, t)
      PROVE  Len(t) > 0 /\ t[1] = Http[1]
  <2>1. Http \in Bytes /\ Len(Http) > 0 /\ Len(Http) \in Nat /\ Len(t) \in Nat
    BY TextsTyped, BytesAreNumbers
  <2>2. Len(Http) <= Len(t) /\ \A i \in 1 .. Len(Http) : Http[i] = t[i]
    BY <1>4, <2>1, PrefixProperties
  <2>. QED
    BY <2>1, <2>2
<1>5. ASSUME NEW ip \in IPs
      PROVE  IpText[ip] \in Bytes /\ Len(IpText[ip]) > 0 /\ IpText[ip][1] # Http[1]
  <2>. DEFINE h == IpText[ip]
  <2>1. h \in Bytes /\ h # <<>> /\ Head(h) # Head(Http) /\ Http \in Bytes /\ Http # <<>>
    BY TextsAssumption, TextsTyped
  <2>. HIDE DEF h
  <2>2. Len(h) \in Nat /\ Len(h) # 0 /\ Head(h) = h[1] /\ Head(Http) = Http[1]
    BY <2>1, BytesAreNumbers, EmptySeq DEF Bytes
  <2>. QED
    BY <2>1, <2>2 DEF h
<1>6. ASSUME NEW a \in Addrs
      PROVE  ~IsPrefix(Http, Text(a))
  <2>. DEFINE h == IpText[a[1]]
              t == Text(a)
  <2>1. a[1] \in IPs
    BY DEF IPs
  <2>2. t \in Bytes /\ Len(h) > 0 /\ h[1] # Http[1] /\ Len(h) \in Nat /\ \A i \in 1 .. Len(h) : t[i] = h[i]
    BY <1>5, <2>1, TextBytes
  <2>. HIDE DEF h, t
  <2>3. t[1] = h[1]
    BY <2>2
  <2>4. ~IsPrefix(Http, t)
    BY <1>4, <2>2, <2>3
  <2>. QED
    BY <2>4 DEF t
<1>. QED
  BY <1>1, <1>2, <1>3, <1>4, <1>5, <1>6

\* A URL in a text is an address after "http://".
LEMMA URLsAreTexts ==
    ASSUME NEW s \in Bytes, NEW a \in Addrs, IsPrefix(URLText(a), s)
    PROVE  /\ Drop(s, Len(Http)) \in Bytes /\ IsPrefix(Text(a), Drop(s, Len(Http)))
           /\ Len(Drop(s, Len(Http))) = Len(s) - Len(Http)
           /\ Len(URLText(a)) = Len(Http) + Len(Text(a)) /\ Len(Http) \in Nat /\ Len(Text(a)) \in Nat
           /\ Len(URLText(a)) <= Len(s)
           /\ \A i \in 1 .. Len(s) - Len(Http) : Drop(s, Len(Http))[i] = s[Len(Http) + i]
<1>. DEFINE n == Len(Http)
            t == Text(a)
            x == URLText(a)
            d == Drop(s, n)
<1>1. /\ x \in Bytes /\ t \in Bytes /\ Http \in Bytes /\ Len(x) = n + Len(t)
      /\ n \in Nat /\ Len(t) \in Nat /\ Len(s) \in Nat
  BY TextsTyped, BytesAreNumbers
<1>2. Len(x) <= Len(s) /\ \A i \in 1 .. Len(x) : x[i] = s[i]
  BY <1>1, PrefixProperties
<1>3. x = Http \o t
  BY DEF URLText
<1>4. \A i \in 1 .. Len(t) : x[n + i] = t[i]
  <2>. SUFFICES ASSUME NEW i \in 1 .. Len(t) PROVE x[n + i] = t[i]
    OBVIOUS
  <2>1. Http \in Seq(Byte) /\ t \in Seq(Byte)
    BY <1>1 DEF Bytes
  <2>2. n + i \in 1 .. Len(Http) + Len(t) /\ ~(n + i <= Len(Http)) /\ (n + i) - Len(Http) = i
    BY <1>1
  <2>. QED
    BY <1>3, <2>1, <2>2, ConcatProperties
<1>5. d \in Bytes /\ Len(d) = Len(s) - n /\ \A i \in 1 .. Len(s) - n : d[i] = s[n + i]
  <2>1. n \in 0 .. Len(s)
    BY <1>1, <1>2
  <2>2. s \in Seq(Byte)
    BY DEF Bytes
  <2>. QED
    BY <2>1, <2>2, DropProperties DEF Bytes
<1>. HIDE DEF n, t, x, d
<1>6. Len(t) <= Len(d) /\ \A i \in 1 .. Len(t) : t[i] = d[i]
  <2>1. Len(t) <= Len(d)
    BY <1>1, <1>2, <1>5
  <2>2. ASSUME NEW i \in 1 .. Len(t) PROVE t[i] = d[i]
    <3>1. n + i \in 1 .. Len(x) /\ i \in 1 .. Len(s) - n
      BY <1>1, <1>2
    <3>. QED
      BY <1>2, <1>4, <1>5, <3>1
  <2>. QED
    BY <2>1, <2>2
<1>7. IsPrefix(t, d)
  BY <1>1, <1>5, <1>6, PrefixProperties
<1>. QED
  BY <1>1, <1>2, <1>5, <1>7 DEF n, t, x, d

\* A URL ends where its digits do, so two of those that begin a text are one.
LEMMA URLsEnd ==
    ASSUME NEW s \in Bytes, NEW next, NEW a \in Addrs, NEW b \in Addrs,
           Matches(URLText(a), next, s), IsPrefix(URLText(b), s),
           Len(URLText(a)) <= Len(URLText(b)),
           Len(PortText[a[2]]) < Len(PortText[b[2]]) => next \cap Digits = {}
    PROVE  a = b
<1>. DEFINE n == Len(Http)
            d == Drop(s, n)
            la == Len(Text(a))
            lb == Len(Text(b))
<1>1. IsPrefix(URLText(a), s) /\ (Len(s) > Len(URLText(a)) => s[Len(URLText(a)) + 1] \in next)
  BY DEF Matches
<1>2. /\ d \in Bytes /\ IsPrefix(Text(a), d) /\ IsPrefix(Text(b), d) /\ Len(d) = Len(s) - n
      /\ Len(URLText(a)) = n + la /\ Len(URLText(b)) = n + lb
      /\ n \in Nat /\ la \in Nat /\ lb \in Nat /\ Len(s) \in Nat
      /\ \A i \in 1 .. Len(s) - n : d[i] = s[n + i]
  BY <1>1, URLsAreTexts, BytesAreNumbers
<1>. HIDE DEF n, d
<1>3. la <= lb
  BY <1>2
<1>4. a = b \/ (Len(PortText[a[2]]) < Len(PortText[b[2]]) /\ la < Len(d) /\ d[la + 1] \in Digits)
  BY <1>2, <1>3, TextsOverlap
<1>5. ASSUME la < Len(d), d[la + 1] \in Digits, Len(PortText[a[2]]) < Len(PortText[b[2]])
      PROVE  FALSE
  <2>. HIDE DEF la, lb
  <2>1. la + 1 \in 1 .. Len(s) - n /\ n + (la + 1) = (n + la) + 1 /\ Len(s) > n + la
    BY <1>2, <1>5
  <2>2. s[(n + la) + 1] \in next
    BY <1>1, <1>2, <2>1
  <2>3. s[(n + la) + 1] \in Digits
    BY <1>2, <1>5, <2>1
  <2>. QED
    BY <1>5, <2>2, <2>3
<1>. QED
  BY <1>4, <1>5

\* Two URLs that begin a text are one.
LEMMA URLsDiffer ==
    ASSUME NEW s \in Bytes, NEW a \in URLOf(s), NEW b \in URLOf(s)
    PROVE  a = b
<1>1. ASSUME NEW c \in URLOf(s), NEW d \in URLOf(s), Len(URLText(c)) <= Len(URLText(d))
      PROVE  c = d
  <2>1. c \in Addrs /\ d \in Addrs /\ Matches(URLText(c), AllDigits(c), s) /\ IsPrefix(URLText(d), s)
    BY DEF URLOf, Matches
  <2>2. ASSUME Len(PortText[c[2]]) < Len(PortText[d[2]])
        PROVE  AllDigits(c) \cap Digits = {}
    <3>1. d[2] \in Ports /\ Len(PortText[d[2]]) <= MaxDigits /\ MaxDigits \in Nat
      <4>1. d[2] \in Ports
        BY <2>1 DEF Ports
      <4>. QED
        BY <4>1, TextsAssumption
    <3>2. Len(PortText[c[2]]) \in Nat /\ Len(PortText[d[2]]) \in Nat
      BY <2>1, TextBytes
    <3>3. Len(PortText[c[2]]) < MaxDigits
      <4>. DEFINE x == Len(PortText[c[2]])
                  y == Len(PortText[d[2]])
      <4>1. x \in Nat /\ y \in Nat /\ x < y /\ y <= MaxDigits /\ MaxDigits \in Nat
        BY <2>2, <3>1, <3>2
      <4>. HIDE DEF x, y
      <4>2. x < MaxDigits
        BY <4>1
      <4>. QED
        BY <4>2 DEF x
    <3>. QED
      BY <3>3 DEF AllDigits
  <2>. QED
    BY <1>1, <2>1, <2>2, URLsEnd
<1>2. Len(URLText(a)) \in Nat /\ Len(URLText(b)) \in Nat
  BY TextsTyped, BytesAreNumbers DEF URLOf
<1>. QED
  BY <1>1, <1>2

\* Of the URLs that a text is, with or without a path, there is one.
LEMMA WholeURLsDiffer ==
    ASSUME NEW s \in Bytes, NEW a \in Addrs, NEW b \in Addrs,
           Matches(URLText(a), {Slash}, s), Matches(URLText(b), {Slash}, s)
    PROVE  a = b
<1>1. {Slash} \cap Digits = {}
  BY TextsAssumption
<1>2. Len(URLText(a)) \in Nat /\ Len(URLText(b)) \in Nat
  BY TextsTyped, BytesAreNumbers
<1>3. IsPrefix(URLText(a), s) /\ IsPrefix(URLText(b), s)
  BY DEF Matches
<1>4. CASE Len(URLText(a)) <= Len(URLText(b))
  BY <1>1, <1>3, <1>4, URLsEnd
<1>5. CASE Len(URLText(b)) <= Len(URLText(a))
  BY <1>1, <1>3, <1>5, URLsEnd
<1>. QED
  BY <1>2, <1>4, <1>5

(***************************************************************************)
(* The registry                                                            *)
(***************************************************************************)
\* Registries that the rewriting may meet.
Registries == {m \in Managers : m.tunnels \subseteq Foreign /\ m.tunnels \cap m.refused = {}}

\* The registry only grows, by tunnels that are not refused.
Later(m, n) == /\ n \in Managers /\ n.refused = m.refused /\ n.closed = m.closed
               /\ m.tunnels \subseteq n.tunnels /\ n.tunnels \subseteq m.tunnels \cup (Foreign \ m.refused)

\* Registries grow step by step.
LEMMA LaterProperties ==
    /\ \A m \in Managers : Later(m, m)
    /\ \A m, n, o \in Managers : Later(m, n) /\ Later(n, o) => Later(m, o)
    /\ \A m \in Registries, n \in Managers : Later(m, n) => n \in Registries
    /\ Registries \subseteq Managers
BY DEF Later, Registries, Managers

\* EnsureTunnel makes the registry grow by what is not refused.
LEMMA EnsureTunnelsProperties ==
    ASSUME NEW m \in Managers, NEW A \in SUBSET Foreign
    PROVE  /\ EnsureTunnels(A, m) \in Managers /\ Later(m, EnsureTunnels(A, m))
           /\ EnsureTunnels(A, m).tunnels = m.tunnels \cup (A \ m.refused)
BY DEF EnsureTunnels, Managers, Later, Foreign

\* It answers for all that are not refused.
LEMMA AnsweredProperties ==
    ASSUME NEW m \in Registries, NEW A \in SUBSET Foreign
    PROVE  Answered(A, m) = A \ m.refused
BY EnsureTunnelsProperties DEF Answered, Registries

\* The first of the iterations is one.
LEMMA FirstRound == 1 \in DOMAIN Iterations
<1>. DEFINE n == Len(Iterations)
            C == [SUBSET Addrs \ {{}} -> Addrs]
<1>1. Iterations \in Seq(C) /\ Iterations # <<>>
  BY PortsAssumption
<1>2. n \in Nat /\ n # 0 /\ DOMAIN Iterations = 1 .. n
  <2>. HIDE DEF C
  <2>. QED
    BY <1>1, EmptySeq, LenProperties
<1>. QED
  BY <1>2

\* A range over the map leaves the tunnels as they are, and meets one of several last.
LEMMA RangedProperties ==
    ASSUME NEW m \in Managers
    PROVE  /\ Ranged(m) \in Managers /\ Later(m, Ranged(m))
           /\ Ranged(m).tunnels = m.tunnels
           /\ \A near \in SUBSET Addrs \ {{}} : LastMet(near, m) \in near
<1>. DEFINE n == Len(Iterations)
            C == [SUBSET Addrs \ {{}} -> Addrs]
<1>1. Iterations \in Seq(C) /\ Iterations # <<>>
  BY PortsAssumption
<1>2. n \in Nat /\ n # 0 /\ DOMAIN Iterations = 1 .. n
  <2>. HIDE DEF C
  <2>. QED
    BY <1>1, EmptySeq, LenProperties
<1>3. m.round \in 1 .. n
  BY <1>2 DEF Managers
<1>4. (m.round % n) + 1 \in 1 .. n
  <2>. HIDE DEF n
  <2>1. m.round \in Nat /\ n \in Nat /\ n > 0
    BY <1>2, <1>3
  <2>2. m.round % n \in 0 .. n - 1
    BY <2>1
  <2>. QED
    BY <2>1, <2>2
<1>5. Ranged(m) = [m EXCEPT !.round = (m.round % n) + 1]
  BY DEF Ranged
<1>. HIDE DEF n
<1>6. Ranged(m) \in Managers /\ Later(m, Ranged(m)) /\ Ranged(m).tunnels = m.tunnels
  BY <1>2, <1>4, <1>5 DEF Managers, Later
<1>7. \A near \in SUBSET Addrs \ {{}} : LastMet(near, m) \in near
  BY <1>2, <1>3, PortsAssumption DEF LastMet
<1>. QED
  BY <1>6, <1>7

(***************************************************************************)
(* What a text becomes                                                     *)
(***************************************************************************)
Answers == [out : Bytes, m : Managers]

\* A set that has something in it gives it.
LEMMA TheProperties ==
    ASSUME NEW A, A # {}
    PROVE  The(A) \in A
BY DEF The

\* The tunnels of several hosts that have a leg.
LEMMA LegsProperties ==
    ASSUME NEW m \in Managers, NEW ips
    PROVE  /\ UNION {tunnelForRemoteIP(ip, m) : ip \in ips} =
                 {a \in m.tunnels : a[1] \in ips /\ ClientPort(a, m) > 0}
           /\ UNION {tunnelForRemoteIP(ip, m) : ip \in ips} \subseteq Addrs
BY DEF tunnelForRemoteIP, Managers

\* What rewriteIPAddress answers is bytes, at most a text longer, and a later registry.
LEMMA IPAnswerTyped ==
    ASSUME NEW v \in Bytes, NEW tag, NEW m \in Managers, NEW named \in SUBSET GameAddrs, NEW bare
    PROVE  /\ IPAnswer(v, tag, m, named, bare) \in Answers
           /\ Later(m, IPAnswer(v, tag, m, named, bare).m)
           /\ IPAnswer(v, tag, m, named, bare).m = Ranged(EnsureTunnels(named, m))
           /\ Len(IPAnswer(v, tag, m, named, bare).out) <= MaxText + Len(v)
<1>. DEFINE near == UNION {tunnelForRemoteIP(ip, m) : ip \in bare}
            answered == Answered(named, m) # {}
            byName == ProxyText(ClientAdvertisedPort(The(named), m))
            byHost == ProxyText(ClientPort(LastMet(near, m), m))
            out == CASE answered -> byName
                     [] ~answered /\ bare # {} /\ tag = 12 -> IpText[ProxyIP]
                     [] ~answered /\ near # {} /\ tag # 12 -> byHost
                     [] OTHER -> v
            r == IPAnswer(v, tag, m, named, bare)
<1>1. r = [out |-> out, m |-> Ranged(EnsureTunnels(named, m))]
  BY DEF IPAnswer, Answer
<1>2. named \subseteq Foreign /\ named \subseteq Addrs
  BY DEF GameAddrs, Foreign
<1>3. Ranged(EnsureTunnels(named, m)) \in Managers /\ Later(m, Ranged(EnsureTunnels(named, m)))
  <2>. DEFINE o == EnsureTunnels(named, m)
  <2>1. o \in Managers /\ Later(m, o)
    BY <1>2, EnsureTunnelsProperties
  <2>. HIDE DEF o
  <2>2. Ranged(o) \in Managers /\ Later(o, Ranged(o))
    BY <2>1, RangedProperties
  <2>3. Later(m, Ranged(o))
    BY <2>1, <2>2, LaterProperties
  <2>. QED
    BY <2>2, <2>3 DEF o
<1>4. MaxText \in Nat /\ Len(v) \in Nat
  BY TextsTyped, BytesAreNumbers
<1>5. answered => byName \in Bytes /\ Len(byName) <= MaxText
  <2>1. answered => The(named) \in Addrs
    BY <1>2, TheProperties DEF Answered
  <2>2. answered => ClientAdvertisedPort(The(named), m) \in Ports
    BY <2>1, PortsTyped
  <2>. QED
    BY <2>2, TextsTyped
<1>6. near # {} => byHost \in Bytes /\ Len(byHost) <= MaxText
  <2>1. near # {} => LastMet(near, m) \in Addrs
    <3>1. near \subseteq Addrs
      BY LegsProperties
    <3>. HIDE DEF near
    <3>. QED
      BY <3>1, RangedProperties
  <2>2. near # {} => ClientPort(LastMet(near, m), m) \in Ports
    BY <2>1, PortsTyped
  <2>. QED
    BY <2>2, TextsTyped
<1>7. IpText[ProxyIP] \in Bytes /\ Len(IpText[ProxyIP]) <= MaxText
  BY TextsTyped
<1>. HIDE DEF answered, near, byName, byHost, r
<1>8. (out \in Bytes /\ Len(out) <= MaxText) \/ out = v
  <2>1. CASE answered
    BY <1>5, <2>1
  <2>2. CASE ~answered /\ bare # {} /\ tag = 12
    BY <1>7, <2>2
  <2>3. CASE ~answered /\ near # {} /\ tag # 12
    BY <1>6, <2>3
  <2>4. CASE ~answered /\ ~(bare # {} /\ tag = 12) /\ ~(near # {} /\ tag # 12)
    BY <2>4
  <2>. QED
    BY <2>1, <2>2, <2>3, <2>4
<1>. HIDE DEF out
<1>9. out \in Bytes /\ Len(out) <= MaxText + Len(v)
  <2>1. CASE out = v
    BY <1>4, <2>1
  <2>2. CASE out \in Bytes /\ Len(out) <= MaxText
    <3>1. Len(out) \in Nat
      BY <2>2, BytesAreNumbers
    <3>. QED
      BY <1>4, <2>2, <3>1
  <2>. QED
    BY <1>8, <2>1, <2>2
<1>. QED
  BY <1>1, <1>3, <1>9 DEF Answers, r

\* What rewriteHTTPURL answers is bytes, at most a text longer, and a later registry.
LEMMA URLAnswerTyped ==
    ASSUME NEW v \in Bytes, NEW s \in Bytes, Len(s) <= Len(v), NEW m \in Managers,
           NEW url \in SUBSET Foreign, \A b \in url : IsPrefix(URLText(b), s)
    PROVE  /\ URLAnswer(v, s, url, m) \in Answers
           /\ Later(m, URLAnswer(v, s, url, m).m)
           /\ URLAnswer(v, s, url, m).m = EnsureTunnels(url, m)
           /\ Len(URLAnswer(v, s, url, m).out) <= MaxText + Len(v)
<1>. DEFINE answered == Answered(url, m) # {}
            a == The(url)
            p == ProxyURL(a, m)
            d == Drop(s, Len(URLText(a)))
            out == IF ~answered THEN v ELSE p \o d
            r == URLAnswer(v, s, url, m)
<1>1. r = [out |-> out, m |-> EnsureTunnels(url, m)]
  BY DEF URLAnswer, Answer
<1>2. EnsureTunnels(url, m) \in Managers /\ Later(m, EnsureTunnels(url, m))
  BY EnsureTunnelsProperties
<1>3. MaxText \in Nat /\ Len(v) \in Nat /\ Len(s) \in Nat
  BY TextsTyped, BytesAreNumbers
<1>4. out \in Bytes /\ Len(out) <= MaxText + Len(v)
  <2>1. CASE ~answered
    BY <1>3, <2>1
  <2>2. CASE answered
    <3>1. a \in url
      BY <2>2, TheProperties DEF Answered
    <3>. HIDE DEF a
    <3>2. a \in Addrs /\ IsPrefix(URLText(a), s)
      BY <3>1 DEF Foreign
    <3>3. URLText(a) \in Bytes /\ Len(URLText(a)) \in Nat
      BY <3>2, TextsTyped, BytesAreNumbers
    <3>4. Len(URLText(a)) \in 0 .. Len(s)
      BY <1>3, <3>2, <3>3, PrefixProperties
    <3>5. d \in Seq(Byte) /\ Len(d) <= Len(s) /\ Len(d) \in Nat
      <4>1. d \in Seq(Byte) /\ Len(d) = Len(s) - Len(URLText(a))
        BY <3>4, DropProperties DEF Bytes
      <4>. QED
        BY <1>3, <3>3, <3>4, <4>1
    <3>6. p \in Seq(Byte) /\ Len(p) <= MaxText /\ Len(p) \in Nat
      <4>1. ClientAdvertisedPort(a, m) \in Ports
        BY <3>2, PortsTyped
      <4>2. p \in Bytes /\ Len(p) <= MaxText
        BY <4>1, TextsTyped DEF ProxyURL
      <4>. QED
        BY <4>2, BytesAreNumbers DEF Bytes
    <3>. HIDE DEF p, d
    <3>7. p \o d \in Seq(Byte) /\ Len(p \o d) = Len(p) + Len(d)
      BY <3>5, <3>6, ConcatProperties
    <3>. QED
      BY <1>3, <2>2, <3>5, <3>6, <3>7 DEF Bytes
  <2>. QED
    BY <2>1, <2>2
<1>. HIDE DEF out, r
<1>. QED
  BY <1>1, <1>2, <1>4 DEF Answers, r

\* The addresses, the hosts and the URL that a text may be taken for.
NamedBy(v) == {a \in GameAddrs : Text(a) = TrimRight(v)}
HostsIn(v) == {ip \in IPs \ {ProxyIP} : IpText[ip] = TrimRight(v)}
URLIn(v) == LET s == TrimRight(v)
            IN  {a \in Foreign : Matches(URLText(a), {Slash}, s)}

\* rewriteIPAddress, by the addresses and the hosts that v is taken for.
LEMMA RewriteIPTyped ==
    ASSUME NEW v \in Bytes, NEW tag, NEW m \in Managers
    PROVE  /\ rewriteIPAddress(v, tag, m) = IPAnswer(v, tag, m, NamedBy(v), HostsIn(v))
           /\ rewriteIPAddress(v, tag, m) \in Answers
           /\ Later(m, rewriteIPAddress(v, tag, m).m)
           /\ rewriteIPAddress(v, tag, m).m = Ranged(EnsureTunnels(NamedBy(v), m))
           /\ Len(rewriteIPAddress(v, tag, m).out) <= MaxText + Len(v)
<1>1. rewriteIPAddress(v, tag, m) = IPAnswer(v, tag, m, NamedBy(v), HostsIn(v))
  BY DEF rewriteIPAddress, NamedBy, HostsIn
<1>2. NamedBy(v) \in SUBSET GameAddrs
  BY DEF NamedBy
<1>. QED
  BY <1>1, <1>2, IPAnswerTyped

\* rewriteHTTPURL, by the URL that v is taken for.
LEMMA RewriteURLTyped ==
    ASSUME NEW v \in Bytes, NEW m \in Managers
    PROVE  /\ rewriteHTTPURL(v, m) = URLAnswer(v, TrimRight(v), URLIn(v), m)
           /\ rewriteHTTPURL(v, m) \in Answers
           /\ Later(m, rewriteHTTPURL(v, m).m)
           /\ rewriteHTTPURL(v, m).m = EnsureTunnels(URLIn(v), m)
           /\ Len(rewriteHTTPURL(v, m).out) <= MaxText + Len(v)
<1>1. rewriteHTTPURL(v, m) = URLAnswer(v, TrimRight(v), URLIn(v), m)
  BY DEF rewriteHTTPURL, URLIn
<1>2. URLIn(v) \in SUBSET Foreign /\ \A b \in URLIn(v) : IsPrefix(URLText(b), TrimRight(v))
  BY DEF URLIn, Matches
<1>3. TrimRight(v) \in Bytes /\ Len(TrimRight(v)) <= Len(v)
  BY TrimProperties
<1>. QED
  BY <1>1, <1>2, <1>3, URLAnswerTyped

(***************************************************************************)
(* What a text becomes is one of its substitutes                           *)
(***************************************************************************)
\* The parts of Substitutes.
SubNamed(v, kinds, m) == {a \in GameAddrs \ m.refused : "address" \in kinds /\ Text(a) = TrimRight(v)}
SubURLs(v, kinds, m) ==
    {a \in Foreign \ m.refused :
        "url" \in kinds /\ (URLText(a) = TrimRight(v) \/ IsPrefix(URLText(a) \o <<Slash>>, TrimRight(v)))}
SubHosts(v, kinds) == {ip \in IPs \ {ProxyIP} : "bare host" \in kinds /\ IpText[ip] = TrimRight(v)}
SubLegs(v, kinds, m, L) ==
    {a \in L : "host" \in kinds /\ IpText[a[1]] = TrimRight(v) /\ ClientPort(a, m) > 0}

\* Substitutes, by its parts.
LEMMA SubstitutesDef ==
    ASSUME NEW v, NEW kinds, NEW had, NEW m
    PROVE  /\ \A a \in SubNamed(v, kinds, m) :
                 ProxyText(ClientAdvertisedPort(a, m)) \in Substitutes(v, kinds, had, m)
           /\ \A a \in SubURLs(v, kinds, m) :
                 ProxyURL(a, m) \o Drop(TrimRight(v), Len(URLText(a))) \in Substitutes(v, kinds, had, m)
           /\ SubHosts(v, kinds) # {} => IpText[ProxyIP] \in Substitutes(v, kinds, had, m)
           /\ \A a \in SubLegs(v, kinds, m, m.tunnels) :
                 ProxyText(ClientPort(a, m)) \in Substitutes(v, kinds, had, m)
           /\ SubNamed(v, kinds, m) = {} /\ SubURLs(v, kinds, m) = {} /\ SubHosts(v, kinds) = {}
              /\ SubLegs(v, kinds, m, had) = {} => v \in Substitutes(v, kinds, had, m)
<1>1. Substitutes(v, kinds, had, m) =
          {ProxyText(ClientAdvertisedPort(a, m)) : a \in SubNamed(v, kinds, m)}
          \cup {ProxyURL(a, m) \o Drop(TrimRight(v), Len(URLText(a))) : a \in SubURLs(v, kinds, m)}
          \cup {IpText[ProxyIP] : ip \in SubHosts(v, kinds)}
          \cup {ProxyText(ClientPort(a, m)) : a \in SubLegs(v, kinds, m, m.tunnels)}
          \cup {w \in {v} : SubNamed(v, kinds, m) = {} /\ SubURLs(v, kinds, m) = {}
                              /\ SubHosts(v, kinds) = {} /\ SubLegs(v, kinds, m, had) = {}}
  BY DEF Substitutes, SubNamed, SubURLs, SubHosts, SubLegs
<1>. QED
  BY <1>1

\* A text that begins like a URL is neither an address nor a host.
LEMMA URLIsNoAddress ==
    ASSUME NEW v \in Bytes, IsPrefix(Http, v)
    PROVE  /\ \A a \in Addrs : Text(a) # TrimRight(v)
           /\ \A ip \in IPs : IpText[ip] # TrimRight(v)
<1>1. IsPrefix(Http, TrimRight(v))
  BY TrimKeepsPrefix, TextsTyped
<1>. QED
  BY <1>1, TextsDiffer

\* A port does not change as the registry grows.
LEMMA PortsLater ==
    ASSUME NEW m, NEW n, Later(m, n), NEW a
    PROVE  ClientPort(a, n) = ClientPort(a, m) /\ ClientAdvertisedPort(a, n) = ClientAdvertisedPort(a, m)
BY DEF Later, ClientPort, ClientAdvertisedPort

\* A text and one byte are the beginning of s if the byte comes next in it.
LEMMA LongerPrefix ==
    ASSUME NEW x \in Bytes, NEW e \in Bytes, NEW s \in Bytes, IsPrefix(x \o e, s)
    PROVE  IsPrefix(x, s)
<1>. DEFINE u == x \o e
            k == Len(x)
            n == Len(s)
            l == Len(u)
<1>1. x \in Seq(Byte) /\ e \in Seq(Byte)
  BY DEF Bytes
<1>2. u \in Seq(Byte) /\ Len(u) = Len(x) + Len(e) /\ \A i \in 1 .. Len(x) : u[i] = x[i]
  BY ONLY <1>1, ConcatProperties
<1>3. k \in Nat /\ n \in Nat /\ l \in Nat /\ Len(e) \in Nat
  BY <1>1, <1>2, BytesAreNumbers DEF Bytes
<1>4. u \in Bytes
  BY <1>2 DEF Bytes
<1>. HIDE DEF u
<1>5. l <= n /\ \A i \in 1 .. l : u[i] = s[i]
  <2>1. IsPrefix(u, s)
    BY DEF u
  <2>. QED
    BY <1>4, <2>1, PrefixProperties
<1>6. l = k + Len(e) /\ \A i \in 1 .. k : u[i] = x[i]
  BY <1>2
<1>. HIDE DEF k, n, l
<1>7. k <= l
  BY <1>3, <1>6
<1>8. k <= n
  BY <1>3, <1>5, <1>7
<1>9. \A i \in 1 .. k : x[i] = s[i]
  <2>1. \A i \in 1 .. k : i \in 1 .. l
    BY <1>3, <1>7
  <2>. QED
    BY <1>5, <1>6, <2>1
<1>. QED
  BY <1>8, <1>9, PrefixProperties DEF k, n

\* A text with a URL at its beginning begins like one.
LEMMA URLBeginsWithHttp ==
    ASSUME NEW a \in Addrs, NEW s \in Bytes,
           URLText(a) = s \/ IsPrefix(URLText(a) \o <<Slash>>, s)
    PROVE  IsPrefix(Http, s)
<1>1. /\ URLText(a) \in Bytes /\ Http \in Bytes /\ Text(a) \in Bytes
      /\ URLText(a) = Http \o Text(a)
  BY TextsTyped DEF URLText
<1>2. <<Slash>> \in Bytes
  BY TextsAssumption DEF Bytes
<1>3. IsPrefix(s, s)
  <2>1. Len(s) \in Nat
    BY BytesAreNumbers
  <2>. QED
    BY <2>1, PrefixProperties
<1>4. IsPrefix(URLText(a), s)
  <2>1. CASE URLText(a) = s
    BY <1>3, <2>1
  <2>2. CASE IsPrefix(URLText(a) \o <<Slash>>, s)
    BY <1>1, <1>2, <2>2, LongerPrefix
  <2>. QED
    BY <2>1, <2>2
<1>. QED
  BY <1>1, <1>4, LongerPrefix

\* tag is what rewriteIPAddress is told, kinds what the text may be.
LEMMA IPSubstitute ==
    ASSUME NEW v \in Bytes, NEW tag, NEW m \in Registries, NEW n, Later(rewriteIPAddress(v, tag, m).m, n),
           NEW had, had \subseteq m.tunnels, NEW kinds, "address" \in kinds,
           "bare host" \in kinds <=> tag = 12,
           "url" \in kinds => ~IsPrefix(Http, v),
           tag = 12 => "host" \notin kinds,
           tag # 12 => "host" \in kinds \/ HostsIn(v) = {}
    PROVE  rewriteIPAddress(v, tag, m).out \in Substitutes(v, kinds, had, n)
<1>. DEFINE named == NamedBy(v)
            bare == HostsIn(v)
            near == UNION {tunnelForRemoteIP(ip, m) : ip \in bare}
            answered == Answered(named, m) # {}
            r == rewriteIPAddress(v, tag, m)
            out == CASE answered -> ProxyText(ClientAdvertisedPort(The(named), m))
                     [] ~answered /\ bare # {} /\ tag = 12 -> IpText[ProxyIP]
                     [] ~answered /\ near # {} /\ tag # 12 -> ProxyText(ClientPort(LastMet(near, m), m))
                     [] OTHER -> v
<1>1. m \in Managers /\ r.m \in Managers /\ Later(m, r.m)
  BY RewriteIPTyped, LaterProperties DEF Later
<1>2. Later(m, n) /\ n.refused = m.refused /\ m.tunnels \subseteq n.tunnels
  <2>1. n \in Managers
    BY DEF Later
  <2>2. Later(m, n)
    BY <1>1, <2>1, LaterProperties
  <2>. QED
    BY <2>2 DEF Later
<1>3. r.out = out
  <2>1. r = IPAnswer(v, tag, m, named, bare)
    BY <1>1, RewriteIPTyped
  <2>2. r = [out |-> out, m |-> Ranged(EnsureTunnels(named, m))]
    BY ONLY <2>1 DEF IPAnswer, Answer
  <2>. HIDE DEF r, out
  <2>. QED
    BY ONLY <2>2
<1>4. named \subseteq GameAddrs /\ named \subseteq Foreign /\ named \subseteq Addrs
      /\ \A a \in named : Text(a) = TrimRight(v)
  BY DEF NamedBy, GameAddrs, Foreign
<1>5. Answered(named, m) = named \ m.refused
  BY <1>4, AnsweredProperties
<1>6. SubNamed(v, kinds, n) = named \ m.refused
  BY <1>2 DEF SubNamed, NamedBy
<1>7. SubURLs(v, kinds, n) = {}
  <2>. SUFFICES ASSUME NEW a \in SubURLs(v, kinds, n) PROVE FALSE
    OBVIOUS
  <2>1. "url" \in kinds /\ a \in Addrs
        /\ (URLText(a) = TrimRight(v) \/ IsPrefix(URLText(a) \o <<Slash>>, TrimRight(v)))
    BY DEF SubURLs, Foreign
  <2>2. IsPrefix(Http, TrimRight(v))
    BY <2>1, TrimProperties, URLBeginsWithHttp
  <2>. QED
    BY <2>1, <2>2, TrimKeepsPrefix, TextsTyped
<1>8. SubHosts(v, kinds) = IF tag = 12 THEN bare ELSE {}
  BY DEF SubHosts, HostsIn
<1>9. near = {a \in m.tunnels : a[1] \in bare /\ ClientPort(a, m) > 0} /\ near \subseteq Addrs
  BY <1>1, LegsProperties
<1>10. "host" \in kinds => near \subseteq SubLegs(v, kinds, n, n.tunnels)
  <2>1. \A a : ClientPort(a, n) = ClientPort(a, m)
    BY <1>2, PortsLater
  <2>. QED
    BY <1>2, <1>9, <2>1 DEF SubLegs, HostsIn
<1>11. near = {} => SubLegs(v, kinds, n, had) = {}
  <2>. SUFFICES ASSUME near = {}, NEW a \in SubLegs(v, kinds, n, had)
                PROVE  FALSE
    OBVIOUS
  <2>1. a \in m.tunnels /\ IpText[a[1]] = TrimRight(v) /\ ClientPort(a, n) > 0
    BY DEF SubLegs
  <2>2. a \in Foreign
    BY <2>1 DEF Registries
  <2>3. a[1] \in bare
    BY <2>1, <2>2 DEF HostsIn, Foreign, IPs
  <2>4. ClientPort(a, m) > 0
    BY <1>2, <2>1, PortsLater
  <2>. QED
    BY <1>9, <2>1, <2>3, <2>4
<1>12. tag = 12 => SubLegs(v, kinds, n, had) = {}
  BY DEF SubLegs
<1>13. bare = {} => near = {}
  BY <1>9
<1>14. CASE answered
  <2>. DEFINE a == The(named)
  <2>1. a \in named
    BY <1>14, <1>5, TheProperties
  <2>. HIDE DEF a
  <2>2. PICK b \in named : b \notin m.refused
    BY <1>14, <1>5
  <2>3. a = b
    BY <1>4, <2>1, <2>2, TextsDiffer
  <2>4. a \in SubNamed(v, kinds, n)
    BY <1>6, <2>1, <2>2, <2>3
  <2>5. out = ProxyText(ClientAdvertisedPort(a, n))
    BY <1>2, <1>14, PortsLater DEF a
  <2>. QED
    BY <1>3, <2>4, <2>5, SubstitutesDef
<1>15. CASE ~answered /\ bare # {} /\ tag = 12
  <2>1. out = IpText[ProxyIP]
    BY <1>15
  <2>. QED
    BY <1>3, <1>8, <1>15, <2>1, SubstitutesDef
<1>16. CASE ~answered /\ near # {} /\ tag # 12
  <2>. DEFINE a == LastMet(near, m)
  <2>1. a \in near
    <3>. HIDE DEF near
    <3>. QED
      BY <1>1, <1>9, <1>16, RangedProperties
  <2>2. out = ProxyText(ClientPort(a, m))
    BY <1>16
  <2>. HIDE DEF a
  <2>3. a \in SubLegs(v, kinds, n, n.tunnels)
    BY <1>10, <1>13, <1>16, <2>1
  <2>4. out = ProxyText(ClientPort(a, n))
    BY <1>2, <2>2, PortsLater
  <2>. QED
    BY <1>3, <2>3, <2>4, SubstitutesDef
<1>17. CASE ~answered /\ ~(bare # {} /\ tag = 12) /\ ~(near # {} /\ tag # 12)
  <2>1. out = v
    BY <1>17
  <2>2. SubNamed(v, kinds, n) = {}
    BY <1>5, <1>6, <1>17
  <2>3. SubHosts(v, kinds) = {}
    BY <1>8, <1>17
  <2>4. SubLegs(v, kinds, n, had) = {}
    BY <1>11, <1>12, <1>17
  <2>. QED
    BY <1>3, <1>7, <2>1, <2>2, <2>3, <2>4, SubstitutesDef
<1>. QED
  BY <1>14, <1>15, <1>16, <1>17

(***************************************************************************)
(* URLs                                                                      *)
(***************************************************************************)
\* The same for the slash after an address.
LEMMA PrefixAndOneMore ==
    ASSUME NEW x \in Bytes, NEW s \in Bytes, IsPrefix(x, s), NEW c \in Byte,
           NEW path, path = Drop(s, Len(x))
    PROVE  /\ path = <<>> <=> x = s
           /\ path # <<>> => (Head(path) = c <=> IsPrefix(x \o <<c>>, s))
<1>. DEFINE k == Len(x)
            n == Len(s)
            u == x \o <<c>>
<1>1. k \in Nat /\ n \in Nat /\ x \in Seq(Byte) /\ s \in Seq(Byte) /\ <<c>> \in Seq(Byte)
  BY BytesAreNumbers DEF Bytes
<1>2. k <= n /\ (\A i \in 1 .. k : x[i] = s[i]) /\ Take(s, k) = x
  BY PrefixProperties
<1>3. path \in Seq(Byte) /\ Len(path) = n - k /\ \A i \in 1 .. n - k : path[i] = s[k + i]
  <2>1. k \in 0 .. n
    BY <1>1, <1>2
  <2>. QED
    BY <1>1, <2>1, DropProperties
<1>4. u \in Seq(Byte) /\ Len(u) = k + 1 /\ (\A i \in 1 .. k : u[i] = x[i]) /\ u[k + 1] = c
  <2>1. Len(<<c>>) = 1 /\ <<c>>[1] = c
    OBVIOUS
  <2>. QED
    BY <1>1, <2>1, ConcatProperties
<1>5. path = <<>> <=> x = s
  <2>1. path = <<>> => Len(path) = 0
    OBVIOUS
  <2>2. path = <<>> => Take(s, n) = s /\ k = n
    BY <1>1, <1>3, <2>1, SubSeqFull DEF Take
  <2>3. x = s => Len(path) = 0
    BY <1>1, <1>3
  <2>4. x = s => path = <<>>
    BY <1>3, <2>3, EmptySeq
  <2>. QED
    BY <1>2, <2>2, <2>4
<1>6. ASSUME path # <<>> PROVE Head(path) = c <=> IsPrefix(u, s)
  <2>1. Len(path) # 0
    BY <1>3, <1>6, EmptySeq
  <2>2. k + 1 <= n
    BY <1>1, <1>2, <1>3, <2>1
  <2>3. Head(path) = s[k + 1]
    <3>1. Head(path) = path[1]
      BY <1>3, <1>6
    <3>2. 1 \in 1 .. n - k
      BY <1>1, <2>2
    <3>. QED
      BY <1>3, <3>1, <3>2
  <2>4. IsPrefix(u, s) <=> \A i \in 1 .. k + 1 : u[i] = s[i]
    <3>. HIDE DEF u
    <3>1. u \in Bytes
      BY <1>4 DEF Bytes
    <3>. QED
      BY <1>4, <2>2, <3>1, PrefixProperties
  <2>. HIDE DEF u, k
  <2>5. (\A i \in 1 .. k + 1 : u[i] = s[i]) <=> u[k + 1] = s[k + 1]
    <3>1. \A i \in 1 .. k : u[i] = s[i]
      BY <1>2, <1>4
    <3>2. \A i \in 1 .. k + 1 : i \in 1 .. k \/ i = k + 1
      BY <1>1
    <3>3. k + 1 \in 1 .. k + 1
      BY <1>1
    <3>. QED
      BY <3>1, <3>2, <3>3
  <2>. QED
    BY <1>4, <2>3, <2>4, <2>5
<1>. QED
  BY <1>5, <1>6

\* The URL that a text is taken for is the one that Substitutes speaks of.
LEMMA URLsInAText ==
    ASSUME NEW v \in Bytes
    PROVE  URLIn(v) = {a \in Foreign : \/ URLText(a) = TrimRight(v)
                                       \/ IsPrefix(URLText(a) \o <<Slash>>, TrimRight(v))}
<1>. DEFINE s == TrimRight(v)
<1>1. s \in Bytes
  BY TrimProperties
<1>. HIDE DEF s
<1>2. Slash \in Byte /\ <<Slash>> \in Bytes
  BY TextsAssumption DEF Bytes
<1>3. IsPrefix(s, s)
  <2>1. Len(s) \in Nat
    BY <1>1, BytesAreNumbers
  <2>. QED
    BY <1>1, <2>1, PrefixProperties
<1>4. ASSUME NEW a \in Foreign
      PROVE  a \in URLIn(v) <=> URLText(a) = s \/ IsPrefix(URLText(a) \o <<Slash>>, s)
  <2>. DEFINE path == Drop(s, Len(URLText(a)))
              x == URLText(a)
  <2>1. a \in Addrs /\ x \in Bytes
    BY TextsTyped DEF Foreign
  <2>2. a \in URLIn(v) <=> IsPrefix(x, s) /\ (path = <<>> \/ Head(path) = Slash)
    <3>1. a \in URLIn(v) <=> IsPrefix(x, s) /\ (Len(s) > Len(x) => s[Len(x) + 1] = Slash)
      BY DEF URLIn, Matches, s
    <3>. HIDE DEF x
    <3>2. ASSUME IsPrefix(x, s)
          PROVE  (Len(s) > Len(x) => s[Len(x) + 1] = Slash) <=> (path = <<>> \/ Head(path) = Slash)
      <4>1. Len(x) \in Nat /\ Len(s) \in Nat /\ Len(x) <= Len(s)
        BY <1>1, <2>1, <3>2, BytesAreNumbers, PrefixProperties
      <4>2. /\ path \in Seq(Byte) /\ Len(path) = Len(s) - Len(x)
            /\ \A i \in 1 .. Len(s) - Len(x) : path[i] = s[Len(x) + i]
        <5>1. Len(x) \in 0 .. Len(s) /\ s \in Seq(Byte)
          BY <1>1, <4>1 DEF Bytes
        <5>. QED
          BY <5>1, DropProperties DEF x
      <4>. HIDE DEF path
      <4>3. CASE Len(s) = Len(x)
        <5>1. path = <<>>
          BY <4>1, <4>2, <4>3, EmptySeq
        <5>. QED
          BY <4>1, <4>3, <5>1
      <4>4. CASE Len(s) > Len(x)
        <5>1. path # <<>> /\ path[1] = s[Len(x) + 1]
          BY <4>1, <4>2, <4>4, EmptySeq
        <5>2. Head(path) = path[1]
          BY <4>2, <5>1
        <5>. QED
          BY <4>4, <5>1, <5>2
      <4>. QED
        BY <4>1, <4>3, <4>4
    <3>. QED
      BY <3>1, <3>2
  <2>. HIDE DEF x
  <2>3. (x = s \/ IsPrefix(x \o <<Slash>>, s)) => IsPrefix(x, s)
    BY <1>1, <1>2, <1>3, <2>1, LongerPrefix
  <2>4. IsPrefix(x, s) => (path = <<>> <=> x = s)
    BY <1>1, <1>2, <2>1, PrefixAndOneMore DEF x
  <2>5. IsPrefix(x, s) => (path # <<>> => (Head(path) = Slash <=> IsPrefix(x \o <<Slash>>, s)))
    BY <1>1, <1>2, <2>1, PrefixAndOneMore DEF x
  <2>6. path = <<>> => (path = <<>> \/ Head(path) = Slash)
    OBVIOUS
  <2>7. x = s => ~IsPrefix(x \o <<Slash>>, s)
    <3>. SUFFICES ASSUME x = s, IsPrefix(s \o <<Slash>>, s) PROVE FALSE
      OBVIOUS
    <3>1. s \o <<Slash>> \in Bytes /\ Len(s \o <<Slash>>) = Len(s) + 1
      <4>1. s \in Seq(Byte) /\ <<Slash>> \in Seq(Byte) /\ Len(<<Slash>>) = 1
        BY <1>1, <1>2 DEF Bytes
      <4>. QED
        BY <4>1, ConcatProperties DEF Bytes
    <3>2. Len(s \o <<Slash>>) <= Len(s)
      BY <1>1, <3>1, PrefixProperties
    <3>. QED
      BY <1>1, <3>1, <3>2, BytesAreNumbers
  <2>. QED
    BY <2>2, <2>3, <2>4, <2>5, <2>7 DEF x
<1>5. URLIn(v) \subseteq Foreign
  BY DEF URLIn
<1>. QED
  BY <1>4, <1>5 DEF s

\* What rewriteHTTPURL makes of a text is one of its substitutes.
LEMMA URLSubstitute ==
    ASSUME NEW v \in Bytes, NEW m \in Registries, NEW n, Later(rewriteHTTPURL(v, m).m, n),
           NEW had, NEW kinds, "url" \in kinds, kinds = {"url"} \/ IsPrefix(Http, v),
           had \subseteq Foreign
    PROVE  rewriteHTTPURL(v, m).out \in Substitutes(v, kinds, had, n)
<1>. DEFINE s == TrimRight(v)
            url == URLIn(v)
            answered == Answered(url, m) # {}
            a == The(url)
            r == rewriteHTTPURL(v, m)
            out == IF ~answered THEN v ELSE ProxyURL(a, m) \o Drop(s, Len(URLText(a)))
<1>1. m \in Managers /\ r.m \in Managers /\ Later(m, r.m) /\ s \in Bytes
  BY RewriteURLTyped, LaterProperties, TrimProperties DEF Later
<1>2. Later(m, n) /\ n.refused = m.refused
  <2>1. n \in Managers
    BY DEF Later
  <2>2. Later(m, n)
    BY <1>1, <2>1, LaterProperties
  <2>. QED
    BY <2>2 DEF Later
<1>3. r.out = out
  <2>1. r = URLAnswer(v, s, url, m)
    BY <1>1, RewriteURLTyped
  <2>2. r = [out |-> out, m |-> EnsureTunnels(url, m)]
    BY ONLY <2>1 DEF URLAnswer, Answer
  <2>. HIDE DEF r, out
  <2>. QED
    BY ONLY <2>2
<1>. HIDE DEF r
<1>4. /\ url \subseteq Foreign /\ url \subseteq Addrs
      /\ \A b \in url : Matches(URLText(b), {Slash}, s)
  BY DEF URLIn, Foreign
<1>5. Answered(url, m) = url \ m.refused
  BY <1>4, AnsweredProperties
<1>6. SubURLs(v, kinds, n) = url \ m.refused
  BY <1>2, URLsInAText DEF SubURLs
<1>7. CASE answered
  <2>1. a \in url
    BY <1>5, <1>7, TheProperties
  <2>2. PICK b \in url : b \notin m.refused
    BY <1>5, <1>7
  <2>3. out = ProxyURL(a, m) \o Drop(s, Len(URLText(a)))
    BY <1>7
  <2>. HIDE DEF a, out
  <2>4. a = b
    BY <1>1, <1>4, <2>1, <2>2, WholeURLsDiffer
  <2>5. a \in SubURLs(v, kinds, n)
    BY <1>6, <2>2, <2>4
  <2>6. ProxyURL(a, m) = ProxyURL(a, n)
    BY <1>2, PortsLater DEF ProxyURL
  <2>. QED
    BY <1>3, <2>3, <2>5, <2>6, SubstitutesDef DEF r
<1>8. CASE ~answered
  <2>1. out = v
    BY <1>8
  <2>2. SubURLs(v, kinds, n) = {}
    BY <1>5, <1>6, <1>8
  <2>3. SubNamed(v, kinds, n) = {} /\ SubHosts(v, kinds) = {} /\ SubLegs(v, kinds, n, had) = {}
    <3>1. CASE kinds = {"url"}
      BY <3>1 DEF SubNamed, SubHosts, SubLegs
    <3>2. CASE IsPrefix(Http, v)
      <4>1. \A b \in had : b[1] \in IPs
        BY DEF Foreign, IPs
      <4>. QED
        BY <3>2, <4>1, URLIsNoAddress DEF SubNamed, SubHosts, SubLegs, GameAddrs, Foreign
    <3>. QED
      BY <3>1, <3>2
  <2>. QED
    BY <1>3, <2>1, <2>2, <2>3, SubstitutesDef DEF r
<1>. QED
  BY <1>7, <1>8

(***************************************************************************)
(* Values of records, and chunks that are no message                         *)
(***************************************************************************)
\* processTLVValue, by the tag.
LEMMA ValueCases ==
    ASSUME NEW r \in RecordSet, NEW m
    PROVE  \/ r.tag \in {12, 18} /\ processTLVValue(r, m) = rewriteIPAddress(r.value, r.tag, m)
           \/ r.tag = 27 /\ processTLVValue(r, m) = rewriteHTTPURL(r.value, m)
           \/ /\ r.tag \notin {12, 18, 27} /\ \E a \in Addrs : Text(a) = TrimRight(r.value)
              /\ processTLVValue(r, m) = rewriteIPAddress(r.value, r.tag, m)
           \/ /\ r.tag \notin {12, 18, 27} /\ ~\E a \in Addrs : Text(a) = TrimRight(r.value)
              /\ processTLVValue(r, m) = Answer(r.value, m)
<1>1. CASE r.tag \in {12, 18}
  BY <1>1 DEF processTLVValue
<1>2. CASE r.tag = 27
  BY <1>2 DEF processTLVValue
<1>. DEFINE named == \E a \in Addrs : Text(a) = TrimRight(r.value)
<1>3. CASE r.tag \notin {12, 18, 27}
  <2>1. processTLVValue(r, m) = CASE r.tag \in {12, 18} -> rewriteIPAddress(r.value, r.tag, m)
      [] r.tag = 27 -> rewriteHTTPURL(r.value, m)
      [] r.tag \notin {12, 18, 27} /\ named -> rewriteIPAddress(r.value, r.tag, m)
      [] OTHER -> Answer(r.value, m)
    BY DEF processTLVValue
  <2>. HIDE DEF named
  <2>2. CASE named
    <3>1. processTLVValue(r, m) = rewriteIPAddress(r.value, r.tag, m)
      BY <1>3, <2>1, <2>2
    <3>. QED
      BY <1>3, <2>2, <3>1 DEF named
  <2>3. CASE ~named
    <3>1. processTLVValue(r, m) = Answer(r.value, m)
      BY <1>3, <2>1, <2>3
    <3>. QED
      BY <1>3, <2>3, <3>1 DEF named
  <2>. QED
    BY <2>2, <2>3
<1>. QED
  BY <1>1, <1>2, <1>3

\* What a value becomes is bytes, and the registry a later one.
LEMMA ValueTyped ==
    ASSUME NEW r \in RecordSet, NEW m \in Managers
    PROVE  processTLVValue(r, m) \in Answers /\ Later(m, processTLVValue(r, m).m)
<1>1. r.value \in Bytes
  BY DEF RecordSet
<1>2. Answer(r.value, m) \in Answers /\ Later(m, Answer(r.value, m).m)
  BY <1>1, LaterProperties DEF Answer, Answers
<1>3. \A tag : rewriteIPAddress(r.value, tag, m) \in Answers /\ Later(m, rewriteIPAddress(r.value, tag, m).m)
  BY <1>1, RewriteIPTyped
<1>4. rewriteHTTPURL(r.value, m) \in Answers /\ Later(m, rewriteHTTPURL(r.value, m).m)
  BY <1>1, RewriteURLTyped
<1>. DEFINE new == processTLVValue(r, m)
<1>5. \/ new = rewriteIPAddress(r.value, r.tag, m) \/ new = rewriteHTTPURL(r.value, m)
      \/ new = Answer(r.value, m)
  BY ValueCases
<1>. HIDE DEF new
<1>6. new \in Answers /\ Later(m, new.m)
  BY <1>2, <1>3, <1>4, <1>5
<1>. QED
  BY <1>6 DEF new

\* It is one of the substitutes of its tag.
LEMMA ValueSubstitute ==
    ASSUME NEW r \in RecordSet, NEW m \in Registries, NEW n, Later(processTLVValue(r, m).m, n),
           NEW had, had \subseteq m.tunnels
    PROVE  processTLVValue(r, m).out \in Substitutes(r.value, KindsOf(r.tag), had, n)
<1>. DEFINE v == r.value
            new == processTLVValue(r, m)
            kinds == KindsOf(r.tag)
<1>1. v \in Bytes /\ m \in Managers /\ had \subseteq Foreign
  BY LaterProperties DEF RecordSet, Registries
<1>2. CASE r.tag \in {12, 18} /\ new = rewriteIPAddress(v, r.tag, m)
  <2>1. kinds = IF r.tag = 12 THEN {"address", "bare host"} ELSE {"address", "host"}
    <3>1. CASE r.tag = 12
      BY <3>1 DEF KindsOf
    <3>2. CASE r.tag = 18
      BY <3>2 DEF KindsOf
    <3>. QED
      BY <1>2, <3>1, <3>2
  <2>. HIDE DEF kinds
  <2>2. new.out \in Substitutes(v, kinds, had, n)
    <3>1. "address" \in kinds /\ ("bare host" \in kinds <=> r.tag = 12) /\ "url" \notin kinds
          /\ (r.tag = 12 => "host" \notin kinds) /\ (r.tag # 12 => "host" \in kinds)
      BY <1>2, <2>1
    <3>. HIDE DEF v, new
    <3>2. Later(rewriteIPAddress(v, r.tag, m).m, n)
      BY <1>2 DEF new
    <3>3. rewriteIPAddress(v, r.tag, m).out \in Substitutes(v, kinds, had, n)
      BY <1>1, <3>1, <3>2, IPSubstitute
    <3>. QED
      BY <1>2, <3>3
  <2>. QED
    BY <2>2 DEF kinds
<1>3. CASE r.tag = 27 /\ new = rewriteHTTPURL(v, m)
  <2>1. kinds = {"url"}
    BY <1>3 DEF KindsOf
  <2>2. Later(rewriteHTTPURL(v, m).m, n)
    BY <1>3
  <2>. HIDE DEF kinds, v, new
  <2>3. rewriteHTTPURL(v, m).out \in Substitutes(v, kinds, had, n)
    BY <1>1, <2>1, <2>2, URLSubstitute
  <2>. QED
    BY <1>3, <2>3 DEF kinds, v, new
<1>4. CASE /\ r.tag \notin {12, 18, 27} /\ \E a \in Addrs : Text(a) = TrimRight(v)
           /\ new = rewriteIPAddress(v, r.tag, m)
  <2>1. kinds = {"address"}
    BY <1>4 DEF KindsOf
  <2>2. Later(rewriteIPAddress(v, r.tag, m).m, n)
    BY <1>4
  <2>3. HostsIn(v) = {}
    BY <1>4, TextsDiffer DEF HostsIn
  <2>. HIDE DEF kinds, v, new
  <2>4. rewriteIPAddress(v, r.tag, m).out \in Substitutes(v, kinds, had, n)
    BY <1>1, <1>4, <2>1, <2>2, <2>3, IPSubstitute
  <2>. QED
    BY <1>4, <2>4 DEF kinds, v, new
<1>5. CASE /\ r.tag \notin {12, 18, 27} /\ ~\E a \in Addrs : Text(a) = TrimRight(v)
           /\ new = Answer(v, m)
  <2>1. kinds = {"address"}
    BY <1>5 DEF KindsOf
  <2>2. SubNamed(v, kinds, n) = {} /\ SubURLs(v, kinds, n) = {} /\ SubHosts(v, kinds) = {}
        /\ SubLegs(v, kinds, n, had) = {}
    BY <1>5, <2>1 DEF SubNamed, SubURLs, SubHosts, SubLegs, GameAddrs, Foreign
  <2>3. v \in Substitutes(v, kinds, had, n)
    BY <2>2, SubstitutesDef
  <2>4. new.out = v
    BY <1>5 DEF Answer
  <2>. QED
    BY <2>3, <2>4
<1>. HIDE DEF v, new, kinds
<1>6. \/ r.tag \in {12, 18} /\ new = rewriteIPAddress(v, r.tag, m)
      \/ r.tag = 27 /\ new = rewriteHTTPURL(v, m)
      \/ /\ r.tag \notin {12, 18, 27} /\ \E a \in Addrs : Text(a) = TrimRight(v)
         /\ new = rewriteIPAddress(v, r.tag, m)
      \/ /\ r.tag \notin {12, 18, 27} /\ ~\E a \in Addrs : Text(a) = TrimRight(v)
         /\ new = Answer(v, m)
  BY ValueCases DEF v, new
<1>. QED
  BY <1>2, <1>3, <1>4, <1>5, <1>6 DEF v, new, kinds

\* What a chunk becomes that is no message.
Leaf(chunk, m) == IF IsPrefix(Http, chunk) THEN rewriteHTTPURL(chunk, m) ELSE rewriteIPAddress(chunk, 18, m)

\* It is bytes, at most a text longer, and the registry a later one.
LEMMA LeafTyped ==
    ASSUME NEW chunk \in Bytes, NEW m \in Managers
    PROVE  Leaf(chunk, m) \in Answers /\ Later(m, Leaf(chunk, m).m) /\ Len(Leaf(chunk, m).out) <= MaxText + Len(chunk)
<1>1. CASE IsPrefix(Http, chunk)
  <2>1. Leaf(chunk, m) = rewriteHTTPURL(chunk, m)
    BY <1>1 DEF Leaf
  <2>. QED
    BY <2>1, RewriteURLTyped
<1>2. CASE ~IsPrefix(Http, chunk)
  <2>1. Leaf(chunk, m) = rewriteIPAddress(chunk, 18, m)
    BY <1>2 DEF Leaf
  <2>. QED
    BY <2>1, RewriteIPTyped
<1>. QED
  BY <1>1, <1>2

\* It is one of the chunk's substitutes.
LEMMA LeafSubstitute ==
    ASSUME NEW chunk \in Bytes, NEW m \in Registries, NEW n, Later(Leaf(chunk, m).m, n),
           NEW had, had \subseteq m.tunnels
    PROVE  Leaf(chunk, m).out \in Substitutes(chunk, ChunkKinds, had, n)
<1>1. had \subseteq Foreign
  BY DEF Registries
<1>2. "address" \in ChunkKinds /\ "bare host" \notin ChunkKinds /\ "host" \in ChunkKinds /\ "url" \in ChunkKinds
  BY DEF ChunkKinds
<1>3. CASE IsPrefix(Http, chunk)
  <2>1. Leaf(chunk, m) = rewriteHTTPURL(chunk, m)
    BY <1>3 DEF Leaf
  <2>. QED
    BY <1>1, <1>2, <1>3, <2>1, URLSubstitute
<1>4. CASE ~IsPrefix(Http, chunk)
  <2>1. Leaf(chunk, m) = rewriteIPAddress(chunk, 18, m)
    BY <1>4 DEF Leaf
  <2>2. ASSUME NEW tag, tag = 18
        PROVE  rewriteIPAddress(chunk, tag, m).out \in Substitutes(chunk, ChunkKinds, had, n)
    <3>1. Later(rewriteIPAddress(chunk, tag, m).m, n) /\ tag # 12
      BY <2>1, <2>2
    <3>. QED
      BY <1>2, <1>4, <3>1, IPSubstitute
  <2>. QED
    BY <2>1, <2>2
<1>. QED
  BY <1>3, <1>4

(***************************************************************************)
(* Walks: functions of bytes and a registry that take something off the      *)
(* bytes and go on with the rest                                             *)
(***************************************************************************)
\* The functions that rewrite bytes.
Rewritings == Maps(Bytes, Maps(Managers, Answers))

\* A rewriting goes from b to next[b], with head[b] before what comes of that,
\* until it meets one of Stop, which it leaves as tail.
Walking(Stop, next, tail, head) ==
    /\ Stop \in SUBSET Bytes /\ next \in Maps(Bytes, Bytes) /\ tail \in Maps(Bytes, Bytes)
    /\ head \in Rewritings
    /\ \A b \in Bytes \ Stop : Len(next[b]) < Len(b)
    /\ \A b \in Bytes \ Stop, m \in Managers : Later(m, head[b][m].m)
IsWalk(f, Stop, next, tail, head) ==
    /\ f = [b \in Bytes |-> [m \in Managers |-> f[b][m]]]
    /\ \A b \in Bytes, m \in Managers :
          f[b][m] = IF b \in Stop THEN Answer(tail[b], m)
                    ELSE After(head[b][m].out, f[next[b]][head[b][m].m])

\* One answer after another.
LEMMA AfterTyped ==
    ASSUME NEW out \in Bytes, NEW more \in Answers
    PROVE  After(out, more) \in Answers /\ After(out, more).out = out \o more.out /\ After(out, more).m = more.m
<1>1. out \o more.out \in Bytes
  <2>1. out \in Seq(Byte) /\ more.out \in Seq(Byte)
    BY DEF Bytes, Answers
  <2>. QED
    BY <2>1, ConcatProperties DEF Bytes
<1>2. more.m \in Managers
  BY DEF Answers
<1>3. After(out, more) = [out |-> out \o more.out, m |-> more.m]
  BY DEF After, Answer
<1>. QED
  BY <1>1, <1>2, <1>3 DEF Answers

\* There is a function that a walk's equation describes.
LEMMA WalkExists ==
    ASSUME NEW Stop, NEW next, NEW tail, NEW head, Walking(Stop, next, tail, head)
    PROVE  \E f : IsWalk(f, Stop, next, tail, head)
<1>. DEFINE Y == Maps(Managers, Answers)
            size == [b \in Bytes |-> Len(b)]
            last == [b \in Bytes |-> [m \in Managers |-> Answer(tail[b], m)]]
            G(b, y) == [m \in Managers |-> After(head[b][m].out, y[head[b][m].m])]
            step == [p \in Bytes \X Y |-> G(p[1], p[2])]
<1>1. /\ Stop \in SUBSET Bytes /\ next \in Maps(Bytes, Bytes) /\ tail \in Maps(Bytes, Bytes)
      /\ head \in Maps(Bytes, Y) /\ \A b \in Bytes \ Stop : Len(next[b]) < Len(b)
  BY DEF Walking, Rewritings
<1>2. ASSUME NEW b \in Bytes, NEW m \in Managers
      PROVE  head[b][m] \in Answers /\ head[b][m].out \in Bytes /\ head[b][m].m \in Managers /\ tail[b] \in Bytes
  BY <1>1 DEF Maps, Answers
<1>3. ASSUME NEW b \in Bytes, NEW y \in Y PROVE G(b, y) \in Y
  <2>1. ASSUME NEW m \in Managers PROVE After(head[b][m].out, y[head[b][m].m]) \in Answers
    <3>1. y[head[b][m].m] \in Answers
      BY <1>2 DEF Maps
    <3>. QED
      BY <1>2, <3>1, AfterTyped
  <2>. QED
    BY <2>1 DEF Maps
<1>4. size \in Maps(Bytes, Nat)
  BY BytesAreNumbers DEF Maps
<1>5. last \in Maps(Bytes, Y)
  BY <1>2 DEF Maps, Answer, Answers
<1>6. step \in Maps(Bytes \X Y, Y)
  <2>1. \A p \in Bytes \X Y : G(p[1], p[2]) \in Y
    BY <1>3
  <2>. HIDE DEF G, Y
  <2>. QED
    BY <2>1 DEF Maps
<1>7. \A b \in Bytes \ Stop : size[next[b]] < size[b]
  BY <1>1 DEF Maps
<1>8. Recursion(Bytes, Y, size, Stop, next, last, step)
  <2>. HIDE DEF Y, size, last, step
  <2>. QED
    BY <1>1, <1>4, <1>5, <1>6, <1>7 DEF Recursion
<1>9. PICK f \in Maps(Bytes, Y) :
         \A b \in Bytes : f[b] = IF b \in Stop THEN last[b] ELSE step[<<b, f[next[b]]>>]
  <2>. HIDE DEF Y, size, last, step
  <2>. QED
    BY ONLY <1>8, MeasuredRecursion, SMT
<1>10. ASSUME NEW b \in Bytes, NEW m \in Managers
       PROVE  f[b][m] = IF b \in Stop THEN Answer(tail[b], m)
                        ELSE After(head[b][m].out, f[next[b]][head[b][m].m])
  <2>1. CASE b \in Stop
    <3>1. f[b] = last[b]
      BY <1>9, <2>1
    <3>. QED
      BY <2>1, <3>1
  <2>2. CASE b \notin Stop
    <3>1. f[b] = step[<<b, f[next[b]]>>] /\ f[next[b]] \in Y
      <4>1. next[b] \in Bytes
        BY <1>1 DEF Maps
      <4>. HIDE DEF Y, step
      <4>. QED
        BY <1>9, <2>2, <4>1 DEF Maps
    <3>2. f[b] = G(b, f[next[b]])
      <4>. HIDE DEF Y, G
      <4>. QED
        BY <3>1
    <3>. QED
      BY <2>2, <3>2
  <2>. QED
    BY <2>1, <2>2
<1>11. f = [b \in Bytes |-> [m \in Managers |-> f[b][m]]]
  BY <1>9 DEF Maps
<1>. QED
  BY <1>10, <1>11 DEF IsWalk

\* A walk leaves a later registry behind.
LEMMA WalkLater ==
    ASSUME NEW Stop, NEW next, NEW tail, NEW head, Walking(Stop, next, tail, head),
           NEW f, IsWalk(f, Stop, next, tail, head), NEW b \in Bytes, NEW m \in Managers
    PROVE  f[b][m] \in Answers /\ Later(m, f[b][m].m)
<1>. DEFINE T == {c \in Bytes : \A o \in Managers : f[c][o] \in Answers /\ Later(o, f[c][o].m)}
<1>1. ASSUME NEW c \in Seq(Byte), \A d \in Seq(Byte) : Len(d) < Len(c) => d \in T
      PROVE  c \in T
  <2>. SUFFICES ASSUME NEW o \in Managers PROVE f[c][o] \in Answers /\ Later(o, f[c][o].m)
    BY DEF Bytes
  <2>1. c \in Bytes
    BY DEF Bytes
  <2>2. CASE c \in Stop
    <3>1. f[c][o] = [out |-> tail[c], m |-> o]
      BY <2>1, <2>2 DEF IsWalk, Answer
    <3>2. tail[c] \in Bytes
      BY <2>1 DEF Walking, Maps
    <3>. QED
      BY <3>1, <3>2, LaterProperties DEF Answers
  <2>3. CASE c \notin Stop
    <3>. DEFINE p == head[c][o].m
                d == next[c]
    <3>1. f[c][o] = After(head[c][o].out, f[d][p])
      BY <2>1, <2>3 DEF IsWalk
    <3>2. d \in Bytes /\ Len(d) < Len(c) /\ p \in Managers /\ Later(o, p) /\ head[c][o].out \in Bytes
      BY <2>1, <2>3 DEF Walking, Maps, Rewritings, Answers
    <3>. HIDE DEF d, p
    <3>3. f[d][p] \in Answers /\ Later(p, f[d][p].m)
      BY <1>1, <3>2 DEF Bytes
    <3>4. f[c][o] \in Answers /\ f[c][o].m = f[d][p].m
      BY <3>1, <3>2, <3>3, AfterTyped
    <3>5. f[d][p].m \in Managers
      BY <3>3 DEF Answers
    <3>. QED
      BY <3>2, <3>3, <3>4, <3>5, LaterProperties
  <2>. QED
    BY <2>2, <2>3
<1>2. Seq(Byte) \subseteq T
  <2>. HIDE DEF T
  <2>. QED
    BY <1>1, InductionOnLength
<1>. QED
  BY <1>2 DEF Bytes

\* Rewritings that only let the registry grow.
Growing == {f \in Rewritings : \A b \in Bytes, m \in Managers : Later(m, f[b][m].m)}

\* A walk is a rewriting whose registries grow.
LEMMA WalkGrows ==
    ASSUME NEW Stop, NEW next, NEW tail, NEW head, Walking(Stop, next, tail, head),
           NEW f, IsWalk(f, Stop, next, tail, head)
    PROVE  f \in Growing
<1>1. \A b \in Bytes, m \in Managers : f[b][m] \in Answers /\ Later(m, f[b][m].m)
  BY WalkLater
<1>2. f = [b \in Bytes |-> [m \in Managers |-> f[b][m]]]
  BY DEF IsWalk
<1>3. ASSUME NEW b \in Bytes PROVE [m \in Managers |-> f[b][m]] \in Maps(Managers, Answers)
  BY <1>1 DEF Maps
<1>. DEFINE G(b) == [m \in Managers |-> f[b][m]]
<1>4. [b \in Bytes |-> G(b)] \in Rewritings
  <2>1. \A b \in Bytes : G(b) \in Maps(Managers, Answers)
    BY <1>3
  <2>. HIDE DEF G
  <2>. QED
    BY <2>1 DEF Rewritings, Maps
<1>. QED
  BY <1>1, <1>2, <1>4 DEF Growing

(***************************************************************************)
(* The walk over records                                                     *)
(***************************************************************************)
\* What a value is cut to fits its length.
LEMMA CutToTyped ==
    ASSUME NEW width \in Widths, NEW v \in Bytes
    PROVE  CutTo(v, width) \in Bytes /\ Len(CutTo(v, width)) <= MaxLen(width)
<1>1. MaxLen(width) \in Nat /\ Len(v) \in Nat
  <2>1. Cont \in Nat /\ Cont > 1
    BY WidthsAssumption
  <2>2. 2 * Cont - 1 \in Nat
    BY <2>1
  <2>3. 4 * Cont * Cont - 1 \in Nat
    <3>1. Cont * Cont \in Nat /\ Cont * Cont >= Cont
      BY <2>1
    <3>. QED
      BY <2>1, <3>1
  <2>. QED
    BY <2>2, <2>3, BytesAreNumbers DEF MaxLen
<1>. DEFINE k == MaxLen(width)
<1>. HIDE DEF k
<1>2. CASE Len(v) > k
  <2>1. k \in 0 .. Len(v)
    BY <1>1, <1>2 DEF k
  <2>2. Take(v, k) \in Bytes /\ Len(Take(v, k)) = k
    BY <2>1, TakeProperties DEF Bytes
  <2>. QED
    BY <1>1, <1>2, <2>2 DEF CutTo, k
<1>3. CASE ~(Len(v) > k)
  BY <1>1, <1>3 DEF CutTo, k
<1>. QED
  BY <1>2, <1>3

\* A record that is written is bytes.
LEMMA RecordBytesTyped ==
    ASSUME NEW width \in Widths, NEW tag \in Byte, NEW v \in Bytes
    PROVE  RecordBytes(tag, CutTo(v, width), width) \in Bytes
BY CutToTyped, RecordRoundTrip, EmptyBytes

\* What becomes of the record that b begins with.
NewRecord(b, width, m) ==
    LET r == RecordOf(b, width)
        new == processTLVValue(r, m)
    IN  Answer(RecordBytes(r.tag, CutTo(new.out, width), width), new.m)

\* So is a rewritten one.
LEMMA NewRecordTyped ==
    ASSUME NEW width \in Widths, NEW b \in Bytes, HasRecord(b, width), NEW m \in Managers
    PROVE  NewRecord(b, width, m) \in Answers /\ Later(m, NewRecord(b, width, m).m)
<1>. DEFINE r == RecordOf(b, width)
            new == processTLVValue(r, m)
            out == RecordBytes(r.tag, CutTo(new.out, width), width)
<1>1. r \in RecordSet
  BY RecordProperties
<1>2. r.tag \in Byte
  BY <1>1 DEF RecordSet
<1>3. new \in Answers /\ Later(m, new.m)
  BY <1>1, ValueTyped
<1>4. new.out \in Bytes /\ new.m \in Managers
  BY <1>3 DEF Answers
<1>5. NewRecord(b, width, m) = [out |-> out, m |-> new.m]
  BY DEF NewRecord, Answer
<1>. HIDE DEF new, r
<1>6. out \in Bytes
  BY <1>2, <1>4, RecordBytesTyped
<1>. HIDE DEF out
<1>. QED
  BY <1>3, <1>4, <1>5, <1>6 DEF Answers

\* TLVs is what its definition says, and its registries grow.
LEMMA TLVsDef ==
    ASSUME NEW width \in Widths
    PROVE  /\ TLVs(width) \in Growing
           /\ \A b \in Bytes, m \in Managers : TLVs(width)[b][m] =
                 IF HasRecord(b, width)
                 THEN After(NewRecord(b, width, m).out,
                            TLVs(width)[Drop(b, RecordLen(b, width))][NewRecord(b, width, m).m])
                 ELSE Answer(b, m)
<1>. DEFINE Has(b) == HasRecord(b, width)
            More(b) == Drop(b, RecordLen(b, width))
            R(b, m) == NewRecord(b, width, m)
            Stop == {b \in Bytes : ~Has(b)}
            next == [b \in Bytes |-> IF Has(b) THEN More(b) ELSE b]
            tail == [b \in Bytes |-> b]
            head == [b \in Bytes |-> [m \in Managers |-> IF Has(b) THEN R(b, m) ELSE Answer(b, m)]]
            V(g, b, m) == LET r == RecordOf(b, width)
                              new == processTLVValue(r, m)
                          IN  IF HasRecord(b, width)
                              THEN After(RecordBytes(r.tag, CutTo(new.out, width), width),
                                         g[Drop(b, RecordLen(b, width))][new.m])
                              ELSE Answer(b, m)
            EE(g) == [b \in Bytes |-> [m \in Managers |-> V(g, b, m)]]
            E(g) == [b \in Bytes |-> [m \in Managers |->
                        IF Has(b) THEN After(R(b, m).out, g[More(b)][R(b, m).m]) ELSE Answer(b, m)]]
<1>1. \A b \in Bytes : Has(b) => More(b) \in Bytes /\ Len(More(b)) < Len(b)
  BY RecordProperties
<1>2. \A b \in Bytes, m \in Managers : Has(b) => R(b, m) \in Answers /\ Later(m, R(b, m).m)
  BY NewRecordTyped
<1>3. \A b \in Bytes, m \in Managers : Answer(b, m) \in Answers
  BY DEF Answer, Answers
<1>4. (\E g : g = EE(g)) => TLVs(width) = EE(TLVs(width))
  BY Zenon DEF TLVs
<1>5. ASSUME NEW g PROVE EE(g) = E(g)
  <2>1. ASSUME NEW b, NEW m
        PROVE  V(g, b, m) = IF Has(b) THEN After(R(b, m).out, g[More(b)][R(b, m).m]) ELSE Answer(b, m)
    BY DEF NewRecord, Answer
  <2>. HIDE DEF Has, More, R, V
  <2>. QED
    BY <2>1, Zenon
<1>. HIDE DEF Has, More, R, V, EE
<1>6. Walking(Stop, next, tail, head)
  <2>1. Stop \in SUBSET Bytes /\ next \in Maps(Bytes, Bytes) /\ tail \in Maps(Bytes, Bytes)
    BY <1>1 DEF Maps
  <2>2. head \in Rewritings
    BY <1>2, <1>3 DEF Maps, Rewritings
  <2>3. \A b \in Bytes \ Stop : Len(next[b]) < Len(b)
    BY <1>1
  <2>4. \A b \in Bytes \ Stop, m \in Managers : Later(m, head[b][m].m)
    BY <1>2
  <2>. HIDE DEF Stop, next, tail, head
  <2>. QED
    BY <2>1, <2>2, <2>3, <2>4 DEF Walking
<1>7. ASSUME NEW f
      PROVE  IsWalk(f, Stop, next, tail, head) <=> f = E(f)
  <2>1. ASSUME NEW b \in Bytes, NEW m \in Managers
        PROVE  (IF b \in Stop THEN Answer(tail[b], m) ELSE After(head[b][m].out, f[next[b]][head[b][m].m]))
               = E(f)[b][m]
    OBVIOUS
  <2>2. f = E(f) => f = [b \in Bytes |-> [m \in Managers |-> f[b][m]]]
    OBVIOUS
  <2>3. f = [b \in Bytes |-> [m \in Managers |-> f[b][m]]]
        /\ (\A b \in Bytes, m \in Managers : f[b][m] = E(f)[b][m]) => f = E(f)
    OBVIOUS
  <2>. HIDE DEF E, Stop, next, tail, head
  <2>. QED
    BY <2>1, <2>2, <2>3 DEF IsWalk
<1>8. PICK f : IsWalk(f, Stop, next, tail, head)
  <2>. HIDE DEF Stop, next, tail, head
  <2>. QED
    BY <1>6, WalkExists
<1>9. TLVs(width) = E(TLVs(width))
  <2>1. f = EE(f)
    BY <1>5, <1>7, <1>8
  <2>. HIDE DEF E
  <2>. QED
    BY <1>4, <1>5, <2>1
<1>10. TLVs(width) \in Growing
  <2>1. IsWalk(TLVs(width), Stop, next, tail, head)
    <3>. HIDE DEF E, Stop, next, tail, head
    <3>. QED
      BY <1>7, <1>9
  <2>. HIDE DEF Stop, next, tail, head
  <2>. QED
    BY <1>6, <2>1, WalkGrows
<1>11. \A b \in Bytes, m \in Managers : TLVs(width)[b][m] =
          IF Has(b) THEN After(R(b, m).out, TLVs(width)[More(b)][R(b, m).m]) ELSE Answer(b, m)
  BY <1>9
<1>. QED
  BY <1>10, <1>11 DEF Has, More, R

(***************************************************************************)
(* The search for URLs                                                       *)
(***************************************************************************)
\* Where the URL that b begins with ends, without its path and with it.
URLHost(b) == MatchLen(b, URLOf(b))
URLEnd(b) == PathAfter(b, URLOf(b), URLHost(b))
NewURL(b, m) ==
    Answer(Replaced(b, URLOf(b) \cap Foreign, URLHost(b), m) \o SubSeq(b, URLHost(b) + 1, URLEnd(b)),
           EnsureTunnels(URLOf(b) \cap Foreign, m))

\* A path ends within the bytes.
LEMMA PathLenRange ==
    ASSUME NEW b \in Bytes
    PROVE  PathLen(b) \in 0 .. Len(b)
<1>. DEFINE S == {n \in DOMAIN b : \A i \in 1 .. n : b[i] \in PathBytes}
<1>1. Len(b) \in Nat /\ DOMAIN b = 1 .. Len(b)
  BY BytesAreNumbers, LenProperties DEF Bytes
<1>2. CASE b = <<>> \/ Head(b) # Slash
  BY <1>1, <1>2 DEF PathLen
<1>3. CASE ~(b = <<>> \/ Head(b) # Slash)
  <2>1. b[1] = Slash /\ 1 \in 1 .. Len(b)
    <3>1. b \in Seq(Byte) /\ b # <<>>
      BY <1>3 DEF Bytes
    <3>2. Head(b) = b[1] /\ Len(b) # 0
      BY <3>1, EmptySeq
    <3>. QED
      BY <1>1, <1>3, <3>2
  <2>2. 1 \in S
    <3>1. \A i \in 1 .. 1 : i = 1
      OBVIOUS
    <3>. QED
      BY <1>1, <2>1, <3>1, TextsAssumption
  <2>3. S \subseteq 0 .. Len(b)
    BY <1>1
  <2>. HIDE DEF S
  <2>4. Max(S) \in S
    BY <1>1, <2>2, <2>3, MaxProperties
  <2>5. PathLen(b) = Max(S)
    BY <1>3 DEF PathLen, S
  <2>. QED
    BY <2>3, <2>4, <2>5
<1>. QED
  BY <1>2, <1>3

\* A URL has a byte at least and ends within the bytes.
LEMMA URLRange ==
    ASSUME NEW b \in Bytes, b # <<>>
    PROVE  /\ URLHost(b) \in 1 .. Len(b) /\ URLHost(b) \in Nat
           /\ URLEnd(b) \in URLHost(b) .. Len(b) /\ URLEnd(b) \in 1 .. Len(b)
           /\ URLOf(b) # {} => URLHost(b) = Len(URLText(The(URLOf(b)))) /\ The(URLOf(b)) \in URLOf(b)
<1>. DEFINE match == URLOf(b)
            a == The(match)
            host == URLHost(b)
            k == Len(b)
<1>1. k \in Nat /\ k # 0
  <2>1. b \in Seq(Byte)
    BY DEF Bytes
  <2>. QED
    BY <2>1, EmptySeq, BytesAreNumbers
<1>2. host \in 1 .. k /\ (match # {} => host = Len(URLText(a)) /\ a \in match)
  <2>1. CASE match = {}
    <3>1. host = 1
      BY <2>1 DEF URLHost, MatchLen
    <3>. HIDE DEF host
    <3>. QED
      BY <1>1, <2>1, <3>1
  <2>2. CASE match # {}
    <3>1. host = Len(URLText(a))
      BY <2>2 DEF URLHost, MatchLen
    <3>2. a \in match
      BY <2>2, TheProperties
    <3>. HIDE DEF host, a
    <3>3. a \in Addrs /\ IsPrefix(URLText(a), b)
      BY <3>2 DEF URLOf, Matches
    <3>. DEFINE l == Len(URLText(a))
                h == Len(Http)
    <3>4. URLText(a) \in Bytes /\ l = h + Len(Text(a)) /\ Text(a) \in Bytes /\ h > 0 /\ Http \in Bytes
      BY <3>3, TextsTyped
    <3>5. l \in Nat /\ Len(Text(a)) \in Nat /\ h \in Nat
      BY <3>4, BytesAreNumbers
    <3>6. l <= k
      BY <3>3, <3>4, PrefixProperties
    <3>. HIDE DEF h
    <3>7. l >= 1
      BY <3>4, <3>5
    <3>. HIDE DEF l, k
    <3>8. host = l
      BY <3>1 DEF l
    <3>. QED
      BY <1>1, <3>1, <3>2, <3>5, <3>6, <3>7, <3>8
  <2>. QED
    BY <2>1, <2>2
<1>3. URLEnd(b) = host + (IF match = {} THEN 0 ELSE PathLen(Drop(b, host)))
  BY DEF URLEnd, PathAfter
<1>. HIDE DEF host, match
<1>4. Drop(b, host) \in Bytes /\ Len(Drop(b, host)) = k - host
  BY <1>1, <1>2, DropProperties DEF Bytes
<1>5. PathLen(Drop(b, host)) \in 0 .. k - host
  BY <1>4, PathLenRange
<1>6. URLEnd(b) \in host .. k /\ URLEnd(b) \in 1 .. k
  <2>. HIDE DEF k
  <2>. QED
    BY <1>1, <1>2, <1>3, <1>5
<1>. QED
  BY <1>1, <1>2, <1>6 DEF host, match

\* What a URL becomes is bytes, and the registry a later one.
LEMMA NewURLTyped ==
    ASSUME NEW b \in Bytes, b # <<>>, NEW m \in Managers
    PROVE  NewURL(b, m) \in Answers /\ Later(m, NewURL(b, m).m)
<1>. DEFINE url == URLOf(b) \cap Foreign
            host == URLHost(b)
            x == Replaced(b, url, host, m)
            y == SubSeq(b, host + 1, URLEnd(b))
<1>1. EnsureTunnels(url, m) \in Managers /\ Later(m, EnsureTunnels(url, m))
  BY EnsureTunnelsProperties
<1>2. y \in Bytes
  <2>1. URLEnd(b) \in 0 .. Len(b) /\ host \in Nat
    BY URLRange
  <2>. QED
    BY <2>1, SubSeqOfBytes
<1>3. x \in Bytes
  <2>1. CASE Answered(url, m) = {}
    <3>1. x = Take(b, host)
      BY <2>1 DEF Replaced
    <3>2. host \in 0 .. Len(b)
      BY URLRange
    <3>. HIDE DEF host, x
    <3>3. Take(b, host) \in Bytes
      BY <3>2, TakeProperties DEF Bytes
    <3>. QED
      BY <3>1, <3>3
  <2>2. CASE Answered(url, m) # {}
    <3>1. The(url) \in Addrs
      BY <2>2, TheProperties DEF Answered, Foreign
    <3>2. ClientAdvertisedPort(The(url), m) \in Ports
      BY <3>1, PortsTyped
    <3>3. ProxyURL(The(url), m) \in Bytes
      BY <3>2, TextsTyped DEF ProxyURL
    <3>. QED
      BY <2>2, <3>3 DEF Replaced
  <2>. QED
    BY <2>1, <2>2
<1>4. x \o y \in Bytes
  <2>. HIDE DEF x, y
  <2>1. x \in Seq(Byte) /\ y \in Seq(Byte)
    BY <1>2, <1>3 DEF Bytes
  <2>. QED
    BY <2>1, ConcatProperties DEF Bytes
<1>5. NewURL(b, m) = [out |-> x \o y, m |-> EnsureTunnels(url, m)]
  BY DEF NewURL, Answer
<1>. HIDE DEF x, y
<1>. QED
  BY <1>1, <1>4, <1>5 DEF Answers

\* rewriteHTTPURLBytes is what its definition says, and its registries grow.
LEMMA HTTPURLBytesDef ==
    /\ rewriteHTTPURLBytes \in Growing
    /\ \A b \in Bytes, m \in Managers : rewriteHTTPURLBytes[b][m] =
          IF b = <<>> THEN Answer(b, m)
          ELSE After(NewURL(b, m).out, rewriteHTTPURLBytes[Drop(b, URLEnd(b))][NewURL(b, m).m])
<1>. DEFINE More(b) == Drop(b, URLEnd(b))
            R(b, m) == NewURL(b, m)
            Stop == {b \in Bytes : b = <<>>}
            next == [b \in Bytes |-> IF b # <<>> THEN More(b) ELSE b]
            tail == [b \in Bytes |-> b]
            head == [b \in Bytes |-> [m \in Managers |-> IF b # <<>> THEN R(b, m) ELSE Answer(b, m)]]
            V(g, b, m) == LET match == URLOf(b)
                              url == match \cap Foreign
                              host == MatchLen(b, match)
                              n == PathAfter(b, match, host)
                          IN  IF b = <<>> THEN Answer(b, m)
                              ELSE After(Replaced(b, url, host, m) \o SubSeq(b, host + 1, n),
                                         g[Drop(b, n)][EnsureTunnels(url, m)])
            EE(g) == [b \in Bytes |-> [m \in Managers |-> V(g, b, m)]]
            E(g) == [b \in Bytes |-> [m \in Managers |->
                        IF b = <<>> THEN Answer(b, m) ELSE After(R(b, m).out, g[More(b)][R(b, m).m])]]
<1>1. \A b \in Bytes : b # <<>> => More(b) \in Bytes /\ Len(More(b)) < Len(b)
  <2>. SUFFICES ASSUME NEW b \in Bytes, b # <<>> PROVE More(b) \in Bytes /\ Len(More(b)) < Len(b)
    OBVIOUS
  <2>. DEFINE n == URLEnd(b)
  <2>1. n \in 1 .. Len(b) /\ Len(b) \in Nat
    BY URLRange, BytesAreNumbers
  <2>. HIDE DEF n
  <2>2. Drop(b, n) \in Bytes /\ Len(Drop(b, n)) = Len(b) - n
    BY <2>1, DropProperties DEF Bytes
  <2>. QED
    BY <2>1, <2>2 DEF n
<1>2. \A b \in Bytes, m \in Managers : b # <<>> => R(b, m) \in Answers /\ Later(m, R(b, m).m)
  BY NewURLTyped
<1>3. \A b \in Bytes, m \in Managers : Answer(b, m) \in Answers
  BY DEF Answer, Answers
<1>4. (\E g : g = EE(g)) => rewriteHTTPURLBytes = EE(rewriteHTTPURLBytes)
  BY Zenon DEF rewriteHTTPURLBytes
<1>5. ASSUME NEW g PROVE EE(g) = E(g)
  <2>1. ASSUME NEW b, NEW m
        PROVE  V(g, b, m) = IF b = <<>> THEN Answer(b, m) ELSE After(R(b, m).out, g[More(b)][R(b, m).m])
    BY DEF NewURL, Answer, URLEnd, URLHost
  <2>. HIDE DEF More, R, V
  <2>. QED
    BY <2>1, Zenon
<1>. HIDE DEF More, R, V, EE
<1>6. Walking(Stop, next, tail, head)
  <2>1. Stop \in SUBSET Bytes /\ next \in Maps(Bytes, Bytes) /\ tail \in Maps(Bytes, Bytes)
    BY <1>1 DEF Maps
  <2>2. head \in Rewritings
    BY <1>2, <1>3 DEF Maps, Rewritings
  <2>3. \A b \in Bytes \ Stop : Len(next[b]) < Len(b)
    BY <1>1
  <2>4. \A b \in Bytes \ Stop, m \in Managers : Later(m, head[b][m].m)
    BY <1>2
  <2>. HIDE DEF Stop, next, tail, head
  <2>. QED
    BY <2>1, <2>2, <2>3, <2>4 DEF Walking
<1>7. ASSUME NEW f
      PROVE  IsWalk(f, Stop, next, tail, head) <=> f = E(f)
  <2>1. ASSUME NEW b \in Bytes, NEW m \in Managers
        PROVE  (IF b \in Stop THEN Answer(tail[b], m) ELSE After(head[b][m].out, f[next[b]][head[b][m].m]))
               = E(f)[b][m]
    OBVIOUS
  <2>2. f = E(f) => f = [b \in Bytes |-> [m \in Managers |-> f[b][m]]]
    OBVIOUS
  <2>3. f = [b \in Bytes |-> [m \in Managers |-> f[b][m]]]
        /\ (\A b \in Bytes, m \in Managers : f[b][m] = E(f)[b][m]) => f = E(f)
    OBVIOUS
  <2>. HIDE DEF E, Stop, next, tail, head
  <2>. QED
    BY <2>1, <2>2, <2>3 DEF IsWalk
<1>8. PICK f : IsWalk(f, Stop, next, tail, head)
  <2>. HIDE DEF Stop, next, tail, head
  <2>. QED
    BY <1>6, WalkExists
<1>9. rewriteHTTPURLBytes = E(rewriteHTTPURLBytes)
  <2>1. f = EE(f)
    BY <1>5, <1>7, <1>8
  <2>. HIDE DEF E
  <2>. QED
    BY <1>4, <1>5, <2>1
<1>10. rewriteHTTPURLBytes \in Growing
  <2>1. IsWalk(rewriteHTTPURLBytes, Stop, next, tail, head)
    <3>. HIDE DEF E, Stop, next, tail, head
    <3>. QED
      BY <1>7, <1>9
  <2>. HIDE DEF Stop, next, tail, head
  <2>. QED
    BY <1>6, <2>1, WalkGrows
<1>11. \A b \in Bytes, m \in Managers : rewriteHTTPURLBytes[b][m] =
          IF b = <<>> THEN Answer(b, m) ELSE After(R(b, m).out, rewriteHTTPURLBytes[More(b)][R(b, m).m])
  BY <1>9
<1>. QED
  BY <1>10, <1>11 DEF More, R

(***************************************************************************)
(* The walk over messages                                                    *)
(***************************************************************************)
\* A chunk with its length is bytes.
LEMMA WithLenTyped ==
    ASSUME NEW chunk \in Bytes
    PROVE  WithLen(chunk) \in Bytes /\ Varint[Len(chunk)] \in Bytes
<1>1. Varint[Len(chunk)] \in Bytes
  BY BytesAreNumbers, VarintDef
<1>2. Varint[Len(chunk)] \in Seq(Byte) /\ chunk \in Seq(Byte)
  BY <1>1 DEF Bytes
<1>3. Varint[Len(chunk)] \o chunk \in Seq(Byte)
  BY <1>2, ConcatProperties
<1>. QED
  BY <1>1, <1>3 DEF WithLen, appendProtobufVarint, Bytes

\* So is a port's field.
LEMMA PortFieldTyped ==
    ASSUME NEW f \in FieldSet, NEW lobby \in SUBSET GameAddrs, NEW m \in Managers
    PROVE  PortField(f, lobby, m) \in Bytes
<1>1. f.data \in Bytes
  BY DEF FieldSet
<1>2. lobby # {} => Varint[ClientPort(The(lobby), m)] \in Bytes
  <2>. SUFFICES ASSUME lobby # {} PROVE Varint[ClientPort(The(lobby), m)] \in Bytes
    OBVIOUS
  <2>1. The(lobby) \in Addrs
    BY TheProperties DEF GameAddrs, Foreign
  <2>2. ClientPort(The(lobby), m) \in Nat
    BY <2>1, PortsTyped
  <2>. QED
    BY <2>2, VarintDef
<1>. QED
  BY <1>1, <1>2 DEF PortField, appendProtobufVarint

\* A chunk becomes bytes, and the registry a later one.
LEMMA LenDelimTyped ==
    ASSUME NEW f \in FieldSet, NEW lobby, NEW inner \in Growing, NEW m \in Managers
    PROVE  LenDelim(f, lobby, inner, m) \in Answers /\ Later(m, LenDelim(f, lobby, inner, m).m)
<1>1. f.chunk \in Bytes
  BY DEF FieldSet
<1>2. inner[f.chunk][m] \in Answers /\ Later(m, inner[f.chunk][m].m)
  BY <1>1 DEF Growing, Rewritings, Maps
<1>3. Answer(IpText[ProxyIP], m) \in Answers /\ Later(m, Answer(IpText[ProxyIP], m).m)
  BY TextsTyped, LaterProperties DEF Answer, Answers
<1>. QED
  BY <1>2, <1>3 DEF LenDelim

\* The data of a field becomes bytes, and the registry a later one.
LEMMA NewDataTyped ==
    ASSUME NEW f \in FieldSet, NEW lobby \in SUBSET GameAddrs, NEW inner \in Growing, NEW m \in Managers
    PROVE  NewData(f, lobby, inner, m) \in Answers /\ Later(m, NewData(f, lobby, inner, m).m)
<1>1. CASE f.wt # 2
  <2>1. NewData(f, lobby, inner, m) = [out |-> PortField(f, lobby, m), m |-> m]
    BY <1>1 DEF NewData, Answer
  <2>. QED
    BY <2>1, PortFieldTyped, LaterProperties DEF Answers
<1>2. CASE f.wt = 2
  <2>. DEFINE r == LenDelim(f, lobby, inner, m)
  <2>1. NewData(f, lobby, inner, m) = [out |-> WithLen(r.out), m |-> r.m]
    BY <1>2 DEF NewData, Answer
  <2>2. r \in Answers /\ Later(m, r.m)
    BY LenDelimTyped
  <2>. HIDE DEF r
  <2>3. WithLen(r.out) \in Bytes /\ r.m \in Managers
    BY <2>2, WithLenTyped DEF Answers
  <2>. QED
    BY <2>1, <2>2, <2>3 DEF Answers
<1>. QED
  BY <1>1, <1>2

\* What becomes of the field that b begins with.
NewField(b, lobby, inner, m) ==
    LET new == NewData(Field(b), lobby, inner, m) IN Answer(Field(b).tag \o new.out, new.m)

\* So does the field.
LEMMA NewFieldTyped ==
    ASSUME NEW b \in Bytes, NEW lobby \in SUBSET GameAddrs, NEW inner \in Growing, NEW m \in Managers
    PROVE  NewField(b, lobby, inner, m) \in Answers /\ Later(m, NewField(b, lobby, inner, m).m)
<1>. DEFINE f == Field(b)
            new == NewData(f, lobby, inner, m)
<1>1. f \in FieldSet /\ f.tag \in Seq(Byte)
  BY FieldProperties DEF FieldSet, Bytes
<1>. HIDE DEF f
<1>2. new \in Answers /\ Later(m, new.m)
  BY <1>1, NewDataTyped
<1>3. NewField(b, lobby, inner, m) = [out |-> f.tag \o new.out, m |-> new.m]
  BY DEF NewField, Answer, f
<1>. HIDE DEF new
<1>4. new.out \in Seq(Byte) /\ new.m \in Managers
  BY <1>2 DEF Answers, Bytes
<1>5. f.tag \o new.out \in Bytes
  BY <1>1, <1>4, ConcatProperties DEF Bytes
<1>. QED
  BY <1>2, <1>3, <1>4, <1>5 DEF Answers

\* Message is what its definition says, and its registries grow if inner's do.
LEMMA MessageDef ==
    ASSUME NEW inner \in Growing, NEW lobby \in SUBSET GameAddrs
    PROVE  /\ Message(inner, lobby) \in Growing
           /\ \A b \in Bytes, m \in Managers : Message(inner, lobby)[b][m] =
                 IF Field(b).ok
                 THEN After(NewField(b, lobby, inner, m).out,
                            Message(inner, lobby)[Drop(b, Field(b).size)][NewField(b, lobby, inner, m).m])
                 ELSE Answer(<<>>, m)
<1>. DEFINE Ok(b) == Field(b).ok
            More(b) == Drop(b, Field(b).size)
            R(b, m) == NewField(b, lobby, inner, m)
            Stop == {b \in Bytes : ~Ok(b)}
            next == [b \in Bytes |-> IF Ok(b) THEN More(b) ELSE b]
            tail == [b \in Bytes |-> <<>>]
            head == [b \in Bytes |-> [m \in Managers |-> IF Ok(b) THEN R(b, m) ELSE Answer(b, m)]]
            V(g, b, m) == LET f == Field(b)
                              new == NewData(f, lobby, inner, m)
                          IN  IF f.ok THEN After(f.tag \o new.out, g[Drop(b, f.size)][new.m])
                              ELSE Answer(<<>>, m)
            EE(g) == [b \in Bytes |-> [m \in Managers |-> V(g, b, m)]]
            E(g) == [b \in Bytes |-> [m \in Managers |->
                        IF Ok(b) THEN After(R(b, m).out, g[More(b)][R(b, m).m]) ELSE Answer(<<>>, m)]]
<1>1. \A b \in Bytes : Ok(b) => More(b) \in Bytes /\ Len(More(b)) < Len(b)
  BY FieldThatIs
<1>2. \A b \in Bytes, m \in Managers : Ok(b) => R(b, m) \in Answers /\ Later(m, R(b, m).m)
  BY NewFieldTyped
<1>3. \A b \in Bytes, m \in Managers : Answer(b, m) \in Answers
  BY DEF Answer, Answers
<1>4. (\E g : g = EE(g)) => Message(inner, lobby) = EE(Message(inner, lobby))
  BY Zenon DEF Message
<1>5. ASSUME NEW g PROVE EE(g) = E(g)
  <2>1. ASSUME NEW b, NEW m
        PROVE  V(g, b, m) = IF Ok(b) THEN After(R(b, m).out, g[More(b)][R(b, m).m]) ELSE Answer(<<>>, m)
    BY DEF NewField, Answer
  <2>. HIDE DEF Ok, More, R, V
  <2>. QED
    BY <2>1, Zenon
<1>. HIDE DEF Ok, More, R, V, EE
<1>6. Walking(Stop, next, tail, head)
  <2>1. Stop \in SUBSET Bytes /\ next \in Maps(Bytes, Bytes) /\ tail \in Maps(Bytes, Bytes)
    BY <1>1, EmptyBytes DEF Maps
  <2>2. head \in Rewritings
    BY <1>2, <1>3 DEF Maps, Rewritings
  <2>3. \A b \in Bytes \ Stop : Len(next[b]) < Len(b)
    BY <1>1
  <2>4. \A b \in Bytes \ Stop, m \in Managers : Later(m, head[b][m].m)
    BY <1>2
  <2>. HIDE DEF Stop, next, tail, head
  <2>. QED
    BY <2>1, <2>2, <2>3, <2>4 DEF Walking
<1>7. ASSUME NEW f
      PROVE  IsWalk(f, Stop, next, tail, head) <=> f = E(f)
  <2>1. ASSUME NEW b \in Bytes, NEW m \in Managers
        PROVE  (IF b \in Stop THEN Answer(tail[b], m) ELSE After(head[b][m].out, f[next[b]][head[b][m].m]))
               = E(f)[b][m]
    OBVIOUS
  <2>2. f = E(f) => f = [b \in Bytes |-> [m \in Managers |-> f[b][m]]]
    OBVIOUS
  <2>3. f = [b \in Bytes |-> [m \in Managers |-> f[b][m]]]
        /\ (\A b \in Bytes, m \in Managers : f[b][m] = E(f)[b][m]) => f = E(f)
    OBVIOUS
  <2>. HIDE DEF E, Stop, next, tail, head
  <2>. QED
    BY <2>1, <2>2, <2>3 DEF IsWalk
<1>8. PICK f : IsWalk(f, Stop, next, tail, head)
  <2>. HIDE DEF Stop, next, tail, head
  <2>. QED
    BY <1>6, WalkExists
<1>9. Message(inner, lobby) = E(Message(inner, lobby))
  <2>1. f = EE(f)
    BY <1>5, <1>7, <1>8
  <2>. HIDE DEF E
  <2>. QED
    BY <1>4, <1>5, <2>1
<1>10. Message(inner, lobby) \in Growing
  <2>1. IsWalk(Message(inner, lobby), Stop, next, tail, head)
    <3>. HIDE DEF E, Stop, next, tail, head
    <3>. QED
      BY <1>7, <1>9
  <2>. HIDE DEF Stop, next, tail, head
  <2>. QED
    BY <1>6, <2>1, WalkGrows
<1>11. \A b \in Bytes, m \in Managers : Message(inner, lobby)[b][m] =
          IF Ok(b) THEN After(R(b, m).out, Message(inner, lobby)[More(b)][R(b, m).m]) ELSE Answer(<<>>, m)
  BY <1>9
<1>. QED
  BY <1>10, <1>11 DEF Ok, More, R

\* A chunk is taken for a message or for a text.
LEMMA LenDelimDef ==
    /\ \A depth \in Nat : rewriteProtobufLenDelim[depth] \in Growing
    /\ \A depth \in Nat, chunk \in Bytes, m \in Managers :
          rewriteProtobufLenDelim[depth][chunk][m] =
             IF Messages(chunk, depth) THEN Message(rewriteProtobufLenDelim[depth - 1], {})[chunk][m]
             ELSE Leaf(chunk, m)
<1>. DEFINE V(g, depth, chunk, m) ==
                CASE Messages(chunk, depth) -> Message(g[depth - 1], {})[chunk][m]
                  [] ~Messages(chunk, depth) /\ IsPrefix(Http, chunk) -> rewriteHTTPURL(chunk, m)
                  [] OTHER -> rewriteIPAddress(chunk, 18, m)
            E(g) == [depth \in Nat |-> [chunk \in Bytes |-> [m \in Managers |-> V(g, depth, chunk, m)]]]
            Deep(chunk) == Len(chunk) > 2 /\ protobufWireConsumesFully(chunk)
            W(h, chunk, m) == IF Deep(chunk) THEN Message(h, {})[chunk][m] ELSE Leaf(chunk, m)
            F(h) == [chunk \in Bytes |-> [m \in Managers |-> W(h, chunk, m)]]
            first == [chunk \in Bytes |-> [m \in Managers |-> Leaf(chunk, m)]]
            step == [h \in Growing |-> F(h)]
<1>1. first \in Growing
  <2>1. \A chunk \in Bytes, m \in Managers : Leaf(chunk, m) \in Answers /\ Later(m, Leaf(chunk, m).m)
    BY LeafTyped
  <2>. QED
    BY <2>1 DEF Growing, Rewritings, Maps
<1>2. ASSUME NEW h \in Growing PROVE F(h) \in Growing
  <2>1. Message(h, {}) \in Growing
    BY MessageDef
  <2>2. \A chunk \in Bytes, m \in Managers : W(h, chunk, m) \in Answers /\ Later(m, W(h, chunk, m).m)
    BY <2>1, LeafTyped DEF Growing, Rewritings, Maps
  <2>. HIDE DEF W
  <2>. QED
    BY <2>2 DEF Growing, Rewritings, Maps
<1>3. PICK f \in Maps(Nat, Growing) : f[0] = first /\ \A n \in Nat : f[n + 1] = step[f[n]]
  <2>1. step \in Maps(Growing, Growing)
    <3>. HIDE DEF F
    <3>. QED
      BY <1>2 DEF Maps
  <2>. HIDE DEF first, step
  <2>. QED
    BY <1>1, <2>1, PrimitiveRecursion
<1>4. ASSUME NEW g, NEW chunk, NEW m
      PROVE  /\ V(g, 0, chunk, m) = Leaf(chunk, m)
             /\ \A n \in Nat : V(g, n + 1, chunk, m) = W(g[n], chunk, m)
  <2>1. ~Messages(chunk, 0)
    BY DEF Messages
  <2>2. V(g, 0, chunk, m) = Leaf(chunk, m)
    BY <2>1 DEF Leaf
  <2>3. ASSUME NEW n \in Nat PROVE V(g, n + 1, chunk, m) = W(g[n], chunk, m)
    <3>1. n + 1 > 0 /\ (n + 1) - 1 = n
      OBVIOUS
    <3>2. Messages(chunk, n + 1) <=> Deep(chunk)
      BY <3>1 DEF Messages
    <3>. HIDE DEF Deep
    <3>3. CASE Deep(chunk)
      BY <3>1, <3>2, <3>3
    <3>4. CASE ~Deep(chunk)
      BY <3>1, <3>2, <3>4 DEF Leaf
    <3>. QED
      BY <3>3, <3>4
  <2>. QED
    BY <2>2, <2>3
<1>. HIDE DEF V, W, Deep
<1>5. ASSUME NEW g
      PROVE  /\ E(g)[0] = first
             /\ \A n \in Nat : E(g)[n + 1] = F(g[n])
  <2>1. \A n \in Nat : E(g)[n] = [chunk \in Bytes |-> [m \in Managers |-> V(g, n, chunk, m)]]
    OBVIOUS
  <2>. HIDE DEF E
  <2>2. E(g)[0] = first
    BY <1>4, <2>1
  <2>3. ASSUME NEW n \in Nat PROVE E(g)[n + 1] = F(g[n])
    <3>1. n + 1 \in Nat
      OBVIOUS
    <3>2. E(g)[n + 1] = [chunk \in Bytes |-> [m \in Managers |-> V(g, n + 1, chunk, m)]]
      BY <2>1, <3>1
    <3>3. \A chunk, m : V(g, n + 1, chunk, m) = W(g[n], chunk, m)
      BY <1>4
    <3>. QED
      BY <3>2, <3>3
  <2>. QED
    BY <2>2, <2>3
<1>6. \A n \in Nat : n = 0 \/ (n - 1 \in Nat /\ n = (n - 1) + 1)
  OBVIOUS
<1>7. f = E(f)
  <2>1. \A n \in Nat : f[n] = E(f)[n]
    <3>1. \A n \in Nat : f[n + 1] = F(f[n])
      <4>. HIDE DEF F
      <4>. QED
        BY <1>3 DEF Maps
    <3>. HIDE DEF E, F, first
    <3>. QED
      BY <1>3, <1>5, <1>6, <3>1
  <2>. DEFINE D(n) == [chunk \in Bytes |-> [m \in Managers |-> V(f, n, chunk, m)]]
  <2>2. E(f) = [n \in Nat |-> D(n)]
    OBVIOUS
  <2>. HIDE DEF E, D
  <2>. QED
    BY <1>3, <2>1, <2>2 DEF Maps
<1>8. rewriteProtobufLenDelim = E(rewriteProtobufLenDelim)
  <2>1. \E g : g = E(g)
    BY <1>7
  <2>. QED
    BY <2>1, Zenon DEF rewriteProtobufLenDelim, V
<1>. DEFINE r == rewriteProtobufLenDelim
<1>9. r[0] = first /\ \A n \in Nat : r[n + 1] = F(r[n])
  <2>. HIDE DEF E, F, first
  <2>. QED
    BY <1>5, <1>8
<1>10. \A depth \in Nat : r[depth] \in Growing
  <2>. DEFINE S == {n \in Nat : r[n] \in Growing}
  <2>1. ASSUME NEW n \in Nat, \A k \in 0 .. n - 1 : k \in S PROVE n \in S
    <3>1. CASE n = 0
      BY <1>1, <1>9, <3>1
    <3>2. CASE n # 0
      <4>1. n - 1 \in 0 .. n - 1 /\ n - 1 \in Nat /\ n = (n - 1) + 1
        BY <3>2
      <4>2. r[n - 1] \in Growing
        BY <2>1, <4>1
      <4>. HIDE DEF F, r
      <4>3. r[n] = F(r[n - 1])
        BY <1>9, <4>1
      <4>. QED
        BY <1>2, <4>2, <4>3
    <3>. QED
      BY <3>1, <3>2
  <2>2. Nat \subseteq S
    <3>. HIDE DEF S
    <3>. QED
      BY <2>1, Induction
  <2>. QED
    BY <2>2
<1>11. ASSUME NEW depth \in Nat, NEW chunk \in Bytes, NEW m \in Managers
       PROVE  r[depth][chunk][m] = IF Messages(chunk, depth) THEN Message(r[depth - 1], {})[chunk][m]
                                   ELSE Leaf(chunk, m)
  <2>1. r[depth][chunk][m] = V(r, depth, chunk, m)
    BY <1>8
  <2>. HIDE DEF r
  <2>. QED
    BY <2>1 DEF V, Leaf
<1>. QED
  BY <1>10, <1>11

(***************************************************************************)
(* The copier                                                                *)
(***************************************************************************)
\* Records become bytes, and the registry a later one.
LEMMA WithWidthTyped ==
    ASSUME NEW width \in Widths, NEW b \in Bytes, NEW m \in Managers
    PROVE  /\ rewriteTLVPayloadWithWidth(b, width, m) \in Answers
           /\ Later(m, rewriteTLVPayloadWithWidth(b, width, m).m)
<1>. DEFINE A == Ahead(Records(width)[b].list)
            m1 == EnsureTunnels(A, m)
            r == TLVs(width)[b][m1]
<1>1. A \in SUBSET Foreign
  BY DEF Ahead, GameAddrs
<1>. HIDE DEF A
<1>2. m1 \in Managers /\ Later(m, m1)
  BY <1>1, EnsureTunnelsProperties
<1>. HIDE DEF m1
<1>3. r \in Answers /\ Later(m1, r.m)
  BY <1>2, TLVsDef DEF Growing, Rewritings, Maps
<1>4. rewriteTLVPayloadWithWidth(b, width, m) = r
  BY DEF rewriteTLVPayloadWithWidth, m1, A
<1>. HIDE DEF r
<1>5. r.m \in Managers
  BY <1>3 DEF Answers
<1>. QED
  BY <1>2, <1>3, <1>4, <1>5, LaterProperties

\* What the records of b become, and which width they were read with.
LEMMA TLVPayloadTyped ==
    ASSUME NEW b \in Bytes, NEW m \in Managers
    PROVE  rewriteTLVPayload(b, m) \in Answers /\ Later(m, rewriteTLVPayload(b, m).m)
<1>. DEFINE one == rewriteTLVPayloadWithWidth(b, 1, m)
            two == rewriteTLVPayloadWithWidth(b, 2, one.m)
<1>1. 1 \in Widths /\ 2 \in Widths
  BY DEF Widths
<1>2. one \in Answers /\ Later(m, one.m)
  BY <1>1, WithWidthTyped
<1>. HIDE DEF one
<1>3. one.m \in Managers /\ one.out \in Bytes
  BY <1>2 DEF Answers
<1>4. two \in Answers /\ Later(one.m, two.m)
  BY <1>1, <1>3, WithWidthTyped
<1>. HIDE DEF two
<1>5. two.m \in Managers /\ Later(m, two.m)
  BY <1>2, <1>3, <1>4, LaterProperties DEF Answers
<1>6. Answer(one.out, two.m) \in Answers /\ Later(m, Answer(one.out, two.m).m)
  BY <1>3, <1>5 DEF Answer, Answers
<1>7. rewriteTLVPayload(b, m) \in {one, two, Answer(one.out, two.m)}
  BY DEF rewriteTLVPayload, BestOf, one, two
<1>. QED
  BY <1>2, <1>4, <1>5, <1>6, <1>7

\* A frame becomes bytes, and the registry a later one.
LEMMA WalkTyped ==
    ASSUME NEW f, f.body \in Bytes, NEW m \in Managers
    PROVE  Walk(f, m) \in Answers /\ Later(m, Walk(f, m).m)
<1>. DEFINE b == f.body
            split == parseLobbyProtobufContext(b)
            m1 == EnsureTunnels(split, m)
            lobby == split \cap m1.tunnels
            inner == rewriteProtobufLenDelim[MaxDepth]
            message == Message(inner, lobby)[b][m1]
            records == rewriteTLVPayload(b, m1)
<1>1. split \in SUBSET Foreign /\ split \in SUBSET GameAddrs
  BY DEF parseLobbyProtobufContext, GameAddrs
<1>. HIDE DEF split
<1>2. m1 \in Managers /\ Later(m, m1)
  BY <1>1, EnsureTunnelsProperties
<1>. HIDE DEF m1
<1>3. inner \in Growing
  BY PortsAssumption, LenDelimDef
<1>. HIDE DEF inner
<1>4. message \in Answers /\ Later(m1, message.m)
  <2>1. Message(inner, lobby) \in Growing
    BY <1>1, <1>3, MessageDef
  <2>. QED
    BY <1>2, <2>1 DEF Growing, Rewritings, Maps
<1>5. records \in Answers /\ Later(m1, records.m)
  BY <1>2, TLVPayloadTyped
<1>6. Walk(f, m) \in {message, records}
  BY DEF Walk, tryRewriteProtobuf, m1, split, inner
<1>. HIDE DEF message, records
<1>7. message.m \in Managers /\ records.m \in Managers
  BY <1>4, <1>5 DEF Answers
<1>8. Later(m, message.m) /\ Later(m, records.m)
  BY <1>2, <1>4, <1>5, <1>7, LaterProperties
<1>. QED
  BY <1>4, <1>5, <1>6, <1>8

-----------------------------------------------------------------------------
\* The registry as the rewriting of the frame found it.
Found == [tunnels |-> before, refused |-> refused, closed |-> closed, round |-> round]
Walked == Walk(frame, Found)
Searched == rewriteHTTPURLBytes[Walked.out][Walked.m]

FrameRead == /\ frame.body \in Bodies
             /\ frame.total = HeaderLen + Len(frame.body)
Rewritten == /\ walked = [total |-> TotalAfter(frame, Walked.out), body |-> Walked.out]
             /\ sent = [total |-> TotalAfter(frame, Walked.out), body |-> Searched.out]
             /\ tunnels = Searched.m.tunnels

IInv == /\ TypeOK
        /\ pc = "read" => refused = {}
        /\ pc = "rewrite" => FrameRead /\ before = tunnels
        /\ pc = "write" => FrameRead /\ Rewritten

\* What is computed from a frame that has been read.
LEMMA RewrittenTyped ==
    ASSUME TypeOK, FrameRead
    PROVE  /\ Found \in Managers
           /\ Walked \in Answers /\ Walked.out \in Bytes /\ Walked.m \in Managers /\ Later(Found, Walked.m)
           /\ Searched \in Answers /\ Searched.out \in Bytes /\ Later(Walked.m, Searched.m)
           /\ Later(Found, Searched.m)
<1>1. Found \in Managers
  BY DEF TypeOK, Found, Managers, Foreign
<1>2. frame.body \in Bytes
  BY DEF TypeOK
<1>3. Walked \in Answers /\ Later(Found, Walked.m)
  BY <1>1, <1>2, WalkTyped DEF Walked
<1>4. Walked.out \in Bytes /\ Walked.m \in Managers
  BY <1>3 DEF Answers
<1>5. Searched \in Answers /\ Later(Walked.m, Searched.m)
  BY <1>4, HTTPURLBytesDef DEF Searched, Growing, Rewritings, Maps
<1>6. Searched.out \in Bytes /\ Searched.m \in Managers
  BY <1>5 DEF Answers
<1>. QED
  BY <1>1, <1>3, <1>4, <1>5, <1>6, LaterProperties

\* The length declared is a number.
LEMMA FrameTotals ==
    ASSUME FrameRead, NEW out \in Bytes
    PROVE  TotalAfter(frame, out) \in Nat
<1>1. frame.body \in Bytes
  BY BodiesAssumption DEF FrameRead
<1>2. Len(frame.body) \in Nat /\ Len(out) \in Nat
  BY <1>1, BytesAreNumbers
<1>. QED
  BY <1>2 DEF TotalAfter, FrameRead, HeaderLen

\* No frame has been read at first.
LEMMA InitIInv == Init => IInv
<1>. SUFFICES ASSUME Init PROVE IInv
  OBVIOUS
<1>1. NoFrame.total = 0 /\ NoFrame.body = <<>>
  BY DEF NoFrame
<1>2. \A f \in {frame, walked, sent} : f.total \in Nat /\ f.body \in Bytes
  BY <1>1, EmptyBytes DEF Init
<1>3. 1 \in DOMAIN Iterations
  BY FirstRound
<1>. QED
  BY <1>2, <1>3 DEF Init, IInv, TypeOK

\* No step disturbs the invariant: others touch the registry only while there is
\* nothing to remember, or what the rewriting does not look at.
LEMMA NextIInv == IInv /\ [Next]_vars => IInv'
<1>. SUFFICES ASSUME IInv, [Next]_vars PROVE IInv'
  OBVIOUS
<1>. USE DEF IInv
<1>1. ASSUME NEW a \in Foreign, Elsewhere(a) PROVE IInv'
  <2>1. TypeOK'
    BY <1>1 DEF Elsewhere, TypeOK
  <2>. QED
    BY <1>1, <2>1 DEF Elsewhere
<1>2. ASSUME NEW a \in Foreign, Reap(a) PROVE IInv'
  <2>1. TypeOK'
    BY <1>2 DEF Reap, TypeOK
  <2>2. pc' = "read" => refused' = {}
    BY <1>2 DEF Reap
  <2>3. pc' = "rewrite" => FrameRead' /\ before' = tunnels'
    BY <1>2 DEF Reap, FrameRead
  <2>4. pc' # "write"
    BY <1>2 DEF Reap
  <2>. QED
    BY <2>1, <2>2, <2>3, <2>4
<1>3. ASSUME NEW body \in Bodies, ReadFrame(body) PROVE IInv'
  <2>1. body \in Bytes /\ Len(body) \in Nat
    BY BodiesAssumption, BytesAreNumbers
  <2>2. frame'.total = HeaderLen + Len(body) /\ frame'.body = body
    BY <1>3 DEF ReadFrame
  <2>3. frame'.total \in Nat
    BY <2>1, <2>2 DEF HeaderLen
  <2>4. TypeOK'
    BY <1>3, <2>1, <2>2, <2>3 DEF ReadFrame, TypeOK
  <2>5. FrameRead'
    BY <2>2 DEF FrameRead
  <2>. QED
    BY <1>3, <2>4, <2>5 DEF ReadFrame
<1>4. ASSUME rewriteTunnelPayload PROVE IInv'
  <2>1. pc = "rewrite" /\ pc' = "write" /\ FrameRead /\ before = tunnels /\ TypeOK
        /\ UNCHANGED <<refused, closed, round, before, frame>>
    BY <1>4 DEF rewriteTunnelPayload
  <2>2. Manager = Found
    BY <2>1 DEF Manager, Found
  <2>3. /\ walked' = [total |-> TotalAfter(frame, Walked.out), body |-> Walked.out]
        /\ sent' = [total |-> TotalAfter(frame, Walked.out), body |-> Searched.out]
        /\ tunnels' = Searched.m.tunnels
    BY <1>4, <2>2 DEF rewriteTunnelPayload, Walked, Searched
  <2>4. FrameRead' /\ Rewritten'
    BY <2>1, <2>3 DEF FrameRead, Rewritten, Walked, Searched, Found
  <2>5. /\ Walked.out \in Bytes /\ Searched.out \in Bytes /\ Later(Found, Searched.m)
        /\ TotalAfter(frame, Walked.out) \in Nat
    BY <2>1, RewrittenTyped, FrameTotals
  <2>6. Found.tunnels = tunnels /\ Found.refused = refused
    BY <2>1 DEF Found
  <2>7. tunnels' \subseteq Foreign /\ tunnels \subseteq tunnels'
    BY <2>1, <2>3, <2>5, <2>6 DEF Later, TypeOK
  <2>. HIDE DEF IInv
  <2>8. \A f \in {frame', walked', sent'} : f.total \in Nat /\ f.body \in Bytes
    BY <2>1, <2>3, <2>5 DEF TypeOK
  <2>9. TypeOK'
    BY <2>1, <2>7, <2>8 DEF TypeOK
  <2>. QED
    BY <2>1, <2>4, <2>9 DEF IInv
<1>5. ASSUME WriteFrame PROVE IInv'
  <2>1. NoFrame.total = 0 /\ NoFrame.body = <<>>
    BY DEF NoFrame
  <2>2. \A f \in {frame', walked', sent'} : f.total \in Nat /\ f.body \in Bytes
    BY <1>5, <2>1, EmptyBytes DEF WriteFrame
  <2>3. TypeOK'
    BY <1>5, <2>2, FirstRound DEF WriteFrame, TypeOK
  <2>. QED
    BY <1>5, <2>3 DEF WriteFrame
<1>6. ASSUME UNCHANGED vars PROVE IInv'
  BY <1>6 DEF vars, TypeOK, FrameRead, Rewritten, Walked, Searched, Found
<1>. QED
  BY <1>1, <1>2, <1>3, <1>4, <1>5, <1>6 DEF Next

\* IInv is an invariant.
THEOREM Invariance == Spec => []IInv
BY InitIInv, NextIInv, PTL DEF Spec

\* Frames are bytes, the tunnels lead to other hosts than the proxy, and those closed
\* are tunnels.
THEOREM TypeCorrect == Spec => []TypeOK
<1>1. IInv => TypeOK
  BY DEF IInv
<1>. QED
  BY <1>1, Invariance, PTL

(***************************************************************************)
(* Records are kept                                                          *)
(***************************************************************************)
\* Record for record c is what b may become for registries had and n.
RecordKept(r, s, width, had, n) ==
    /\ s.tag = r.tag
    /\ \E v \in Substitutes(r.value, KindsOf(r.tag), had, n) : s.value = CutTo(v, width)
Kept(b, c, width, had, n) ==
    LET old == Records(width)[b]
        new == Records(width)[c]
    IN  /\ new.rest = old.rest /\ Len(new.list) = Len(old.list)
        /\ \A i \in DOMAIN old.list : RecordKept(old.list[i], new.list[i], width, had, n)

\* A record more at the beginning of both.
LEMMA FirstKept ==
    ASSUME NEW width, NEW had, NEW n, NEW r \in RecordSet, NEW s \in RecordSet,
           NEW old \in Lists, NEW new \in Lists, RecordKept(r, s, width, had, n),
           new.rest = old.rest, Len(new.list) = Len(old.list),
           \A i \in DOMAIN old.list : RecordKept(old.list[i], new.list[i], width, had, n),
           NEW o, o = First(r, old), NEW w, w = First(s, new)
    PROVE  /\ w.rest = o.rest /\ Len(w.list) = Len(o.list)
           /\ \A i \in DOMAIN o.list : RecordKept(o.list[i], w.list[i], width, had, n)
<1>1. old.list \in Seq(RecordSet) /\ new.list \in Seq(RecordSet)
  BY DEF Lists
<1>. DEFINE k == Len(old.list)
<1>2. k \in Nat /\ DOMAIN old.list = 1 .. k /\ Len(new.list) = k
  BY <1>1, LenProperties
<1>3. /\ o.list \in Seq(RecordSet) /\ o.rest = old.rest /\ Len(o.list) = k + 1 /\ o.list[1] = r
      /\ \A i \in 1 .. k : o.list[i + 1] = old.list[i]
  BY <1>1, FirstProperties
<1>4. /\ w.rest = new.rest /\ Len(w.list) = k + 1 /\ w.list[1] = s
      /\ \A i \in 1 .. k : w.list[i + 1] = new.list[i]
  BY <1>1, <1>2, FirstProperties
<1>. HIDE DEF k
<1>5. DOMAIN o.list = 1 .. k + 1
  BY <1>3, LenProperties
<1>6. ASSUME NEW i \in 1 .. k + 1 PROVE RecordKept(o.list[i], w.list[i], width, had, n)
  <2>1. CASE i = 1
    BY <1>3, <1>4, <2>1
  <2>2. CASE i # 1
    <3>1. i - 1 \in 1 .. k /\ (i - 1) + 1 = i
      BY <1>2, <2>2
    <3>2. o.list[i] = old.list[i - 1] /\ w.list[i] = new.list[i - 1]
      BY <1>3, <1>4, <3>1
    <3>. QED
      BY <1>2, <3>1, <3>2
  <2>. QED
    BY <2>1, <2>2
<1>. QED
  BY <1>3, <1>4, <1>5, <1>6

\* Record for record, the walk makes what may become of it.
LEMMA TLVsKeep ==
    ASSUME NEW width \in Widths, NEW b \in Bytes, NEW m \in Registries, NEW n,
           Later(TLVs(width)[b][m].m, n), NEW had, had \subseteq m.tunnels
    PROVE  Kept(b, TLVs(width)[b][m].out, width, had, n)
<1>. DEFINE W == TLVs(width)
            T == {c \in Bytes : \A o \in Registries :
                    had \subseteq o.tunnels /\ Later(W[c][o].m, n) => Kept(c, W[c][o].out, width, had, n)}
<1>1. ASSUME NEW c \in Seq(Byte), \A d \in Seq(Byte) : Len(d) < Len(c) => d \in T
      PROVE  c \in T
  <2>. SUFFICES ASSUME NEW o \in Registries, had \subseteq o.tunnels, Later(W[c][o].m, n)
                PROVE  Kept(c, W[c][o].out, width, had, n)
    BY DEF Bytes
  <2>1. c \in Bytes /\ o \in Managers
    BY LaterProperties DEF Bytes
  <2>2. CASE HasRecord(c, width)
    <3>. DEFINE r == RecordOf(c, width)
                new == processTLVValue(r, o)
                d == Drop(c, RecordLen(c, width))
                w == CutTo(new.out, width)
                s == RecordBytes(r.tag, w, width)
                more == W[d][new.m]
    <3>1. r \in RecordSet /\ r.tag \in Byte /\ d \in Bytes /\ Len(d) < Len(c)
      BY <2>1, <2>2, RecordProperties DEF RecordSet
    <3>2. new \in Answers /\ Later(o, new.m) /\ new.out \in Bytes /\ new.m \in Managers
      BY <2>1, <3>1, ValueTyped DEF Answers
    <3>3. W[c][o] = After(s, more)
      <4>1. NewRecord(c, width, o) = [out |-> s, m |-> new.m]
        BY DEF NewRecord, Answer
      <4>2. W[c][o] = After(NewRecord(c, width, o).out, W[d][NewRecord(c, width, o).m])
        BY <2>1, <2>2, TLVsDef
      <4>3. ASSUME NEW q, NEW x, NEW y, q = [out |-> x, m |-> y] PROVE q.out = x /\ q.m = y
        BY <4>3
      <4>. HIDE DEF s, new, W, d
      <4>. QED
        BY <4>1, <4>2, <4>3
    <3>4. more \in Answers /\ Later(new.m, more.m)
      BY <3>1, <3>2, TLVsDef DEF Growing, Rewritings, Maps
    <3>. HIDE DEF more, new, W, r, d
    <3>5. w \in Bytes /\ Len(w) <= MaxLen(width)
      BY <3>2, CutToTyped
    <3>6. s \in Bytes
      BY <3>1, <3>2, RecordBytesTyped
    <3>. HIDE DEF w
    <3>7. W[c][o].out = s \o more.out /\ W[c][o].m = more.m
      BY <3>3, <3>4, <3>6, AfterTyped
    <3>8. more.out \in Bytes /\ more.m \in Managers
      BY <3>4 DEF Answers
    <3>. DEFINE e == s \o more.out
    <3>9. /\ e \in Bytes /\ HasRecord(e, width) /\ RecordOf(e, width) = [tag |-> r.tag, value |-> w]
          /\ Drop(e, RecordLen(e, width)) = more.out
      BY <3>1, <3>5, <3>8, RecordRoundTrip
    <3>. HIDE DEF e, s
    <3>10. Later(more.m, n) /\ Later(new.m, n)
      <4>1. Later(more.m, n) /\ n \in Managers
        BY <3>7 DEF Later
      <4>. QED
        BY <3>2, <3>4, <3>8, <4>1, LaterProperties
    <3>11. new.m \in Registries /\ had \subseteq new.m.tunnels
      BY <3>2, LaterProperties DEF Later
    <3>12. Kept(d, more.out, width, had, n)
      <4>1. d \in T
        BY <1>1, <3>1 DEF Bytes
      <4>. QED
        BY <3>10, <3>11, <4>1 DEF more
    <3>13. new.out \in Substitutes(r.value, KindsOf(r.tag), had, n)
      BY <3>1, <3>10, ValueSubstitute DEF new
    <3>. DEFINE old == Records(width)[d]
                next == Records(width)[more.out]
                q == [tag |-> r.tag, value |-> w]
    <3>14. old \in Lists /\ next \in Lists
      BY <3>1, <3>8, RecordsDef
    <3>15. Records(width)[c] = First(r, old)
      BY <2>1, <2>2, RecordsDef DEF r, d
    <3>16. Records(width)[e] = First(q, next)
      BY <3>9, RecordsDef
    <3>17. q \in RecordSet
      BY <3>1, <3>5 DEF RecordSet
    <3>18. RecordKept(r, q, width, had, n)
      BY <3>13 DEF RecordKept, w
    <3>19. /\ next.rest = old.rest /\ Len(next.list) = Len(old.list)
           /\ \A i \in DOMAIN old.list : RecordKept(old.list[i], next.list[i], width, had, n)
      BY <3>12 DEF Kept
    <3>. HIDE DEF old, next, q
    <3>. DEFINE f == First(r, old)
                g == First(q, next)
    <3>20. /\ g.rest = f.rest /\ Len(g.list) = Len(f.list)
           /\ \A i \in DOMAIN f.list : RecordKept(f.list[i], g.list[i], width, had, n)
      BY <3>1, <3>14, <3>17, <3>18, <3>19, FirstKept
    <3>. HIDE DEF f, g
    <3>21. Kept(c, e, width, had, n)
      BY <3>15, <3>16, <3>20 DEF Kept, f, g
    <3>. QED
      BY <3>7, <3>21 DEF e
  <2>3. CASE ~HasRecord(c, width)
    <3>1. W[c][o] = [out |-> c, m |-> o]
      BY <2>1, <2>3, TLVsDef DEF Answer
    <3>2. W[c][o].out = c
      BY <3>1
    <3>3. Records(width)[c].list = <<>>
      <4>1. Records(width)[c] = [list |-> <<>>, rest |-> c]
        BY <2>1, <2>3, RecordsDef
      <4>. QED
        BY <4>1
    <3>4. DOMAIN <<>> = {}
      OBVIOUS
    <3>. HIDE DEF W
    <3>. QED
      BY <3>2, <3>3, <3>4 DEF Kept
  <2>. QED
    BY <2>2, <2>3
<1>2. Seq(Byte) \subseteq T
  <2>. HIDE DEF T
  <2>. QED
    BY <1>1, InductionOnLength
<1>. QED
  BY <1>2 DEF Bytes

\* The same after the tunnels for all addresses of the payload have been made.
LEMMA WithWidthKeeps ==
    ASSUME NEW width \in Widths, NEW b \in Bytes, NEW m \in Registries, NEW n,
           Later(rewriteTLVPayloadWithWidth(b, width, m).m, n), NEW had, had \subseteq m.tunnels
    PROVE  Kept(b, rewriteTLVPayloadWithWidth(b, width, m).out, width,
                had \cup (Ahead(Records(width)[b].list) \ m.refused), n)
<1>. DEFINE A == Ahead(Records(width)[b].list)
            m1 == EnsureTunnels(A, m)
<1>1. A \in SUBSET Foreign
  BY DEF Ahead, GameAddrs
<1>. HIDE DEF A
<1>2. m \in Managers
  BY LaterProperties
<1>3. m1 \in Managers /\ Later(m, m1) /\ m1.tunnels = m.tunnels \cup (A \ m.refused)
  BY <1>1, <1>2, EnsureTunnelsProperties
<1>4. m1 \in Registries
  BY <1>3, LaterProperties
<1>5. rewriteTLVPayloadWithWidth(b, width, m) = TLVs(width)[b][m1]
  BY DEF rewriteTLVPayloadWithWidth, A
<1>. HIDE DEF m1
<1>6. Kept(b, TLVs(width)[b][m1].out, width, had \cup (A \ m.refused), n)
  BY <1>3, <1>4, <1>5, TLVsKeep
<1>. QED
  BY <1>5, <1>6 DEF A

\* What is known of the registries when a frame has been rewritten.
LEMMA Afterwards ==
    ASSUME IInv, pc = "write"
    PROVE  /\ TypeOK /\ FrameRead /\ frame.body \in Bytes
           /\ Found \in Registries /\ Found.tunnels = before /\ Found.refused = refused
           /\ Walked \in Answers /\ Walked.m \in Registries /\ Later(Found, Walked.m)
           /\ Later(Walked.m, Manager) /\ Later(Found, Manager) /\ Manager \in Registries
           /\ Manager.refused = refused /\ Manager.closed = closed /\ Manager.tunnels = tunnels
           /\ walked.body = Walked.out /\ walked.total = TotalAfter(frame, Walked.out)
           /\ sent.body = Searched.out /\ sent.total = TotalAfter(frame, Walked.out)
<1>1. TypeOK /\ FrameRead /\ Rewritten
  BY DEF IInv
<1>2. frame.body \in Bytes
  BY <1>1 DEF TypeOK
<1>3. Found.tunnels = before /\ Found.refused = refused /\ Found.closed = closed
  BY DEF Found
<1>4. /\ Found \in Managers /\ Walked \in Answers /\ Walked.m \in Managers /\ Later(Found, Walked.m)
      /\ Later(Walked.m, Searched.m) /\ Later(Found, Searched.m)
  BY <1>1, RewrittenTyped
<1>5. Found \in Registries
  BY <1>1, <1>3, <1>4 DEF Registries, TypeOK
<1>6. Searched.m \in Managers /\ Searched.m.refused = refused /\ Searched.m.closed = closed
      /\ Searched.m.tunnels = tunnels
  BY <1>1, <1>3, <1>4 DEF Later, Rewritten
<1>7. Manager \in Managers /\ Later(Searched.m, Manager) /\ Later(Walked.m, Manager) /\ Later(Found, Manager)
  <2>1. Manager.tunnels = tunnels /\ Manager.refused = refused /\ Manager.closed = closed
    BY DEF Manager
  <2>2. Manager \in Managers
    BY <1>1 DEF TypeOK, Manager, Managers, Foreign
  <2>3. Later(Searched.m, Manager)
    BY <1>6, <2>1, <2>2 DEF Later
  <2>. QED
    BY <1>4, <1>6, <2>2, <2>3, LaterProperties
<1>8. Walked.m \in Registries /\ Manager \in Registries
  BY <1>4, <1>5, <1>6, <1>7, LaterProperties
<1>9. /\ walked.body = Walked.out /\ walked.total = TotalAfter(frame, Walked.out)
      /\ sent.body = Searched.out /\ sent.total = TotalAfter(frame, Walked.out)
  <2>1. walked = [total |-> TotalAfter(frame, Walked.out), body |-> Walked.out]
        /\ sent = [total |-> TotalAfter(frame, Walked.out), body |-> Searched.out]
    BY <1>1 DEF Rewritten
  <2>. QED
    BY <2>1
<1>. QED
  BY <1>1, <1>2, <1>3, <1>4, <1>5, <1>6, <1>7, <1>8, <1>9 DEF Manager

\* Whichever width the payload was read with, and whatever the first try with the
\* other one has done to the registry.
LEMMA RecordsKeptHolds == IInv => RecordsKept
<1>. SUFFICES ASSUME IInv, pc = "write", ~IsMessage PROVE RecordsKept
  BY DEF RecordsKept
<1>. DEFINE b == frame.body
            split == parseLobbyProtobufContext(b)
            m == EnsureTunnels(split, Found)
            one == rewriteTLVPayloadWithWidth(b, 1, m)
            two == rewriteTLVPayloadWithWidth(b, 2, one.m)
            named(w) == {a \in GameAddrs \ refused :
                            \E i \in DOMAIN Records(w)[b].list : Text(a) = TrimRight(Records(w)[b].list[i].value)}
<1>1. /\ b \in Bytes /\ Found \in Registries /\ Found \in Managers /\ Found.tunnels = before
      /\ Found.refused = refused /\ Later(Found, Walked.m)
      /\ Later(Walked.m, Manager) /\ Walked.m \in Managers /\ Manager \in Managers
      /\ walked.body = Walked.out /\ walked.total = TotalAfter(frame, Walked.out)
  BY Afterwards, LaterProperties
<1>2. split \in SUBSET Foreign
  BY DEF parseLobbyProtobufContext, GameAddrs
<1>3. m \in Registries /\ m \in Managers /\ before \subseteq m.tunnels /\ m.refused = refused
  <2>. HIDE DEF split
  <2>1. m \in Managers /\ Later(Found, m)
    BY <1>1, <1>2, EnsureTunnelsProperties
  <2>. HIDE DEF m
  <2>. QED
    BY <1>1, <2>1, LaterProperties DEF Later
<1>4. ~protobufWireConsumesFully(b)
  BY DEF IsMessage
<1>5. Walked = rewriteTLVPayload(b, m)
  BY <1>4 DEF Walked, Walk
<1>6. walked.total = frame.total
  BY <1>1, <1>4 DEF TotalAfter
<1>7. 1 \in Widths /\ 2 \in Widths
  BY DEF Widths
<1>. HIDE DEF b, m
<1>8. one \in Answers /\ Later(m, one.m)
  BY <1>1, <1>3, <1>7, WithWidthTyped
<1>9. one.m \in Managers /\ one.m \in Registries /\ before \subseteq one.m.tunnels /\ one.m.refused = refused
  BY <1>3, <1>8, LaterProperties DEF Answers, Later
<1>10. two \in Answers /\ Later(one.m, two.m) /\ two.m \in Managers
  <2>. HIDE DEF one
  <2>1. two \in Answers /\ Later(one.m, two.m)
    BY <1>1, <1>7, <1>9, WithWidthTyped
  <2>. QED
    BY <2>1 DEF Answers
<1>11. ASSUME NEW w
       PROVE  before \cup (Ahead(Records(w)[b].list) \ refused) = before \cup named(w)
  BY DEF Ahead
<1>12. ASSUME Later(one.m, Manager)
       PROVE  Kept(b, one.out, 1, before \cup named(1), Manager)
  <2>1. Kept(b, one.out, 1, before \cup (Ahead(Records(1)[b].list) \ m.refused), Manager)
    <3>. HIDE DEF named
    <3>. QED
      BY <1>1, <1>3, <1>7, <1>12, WithWidthKeeps
  <2>. QED
    BY <1>3, <1>11, <2>1
<1>13. ASSUME Later(two.m, Manager)
       PROVE  Kept(b, two.out, 2, before \cup named(2), Manager)
  <2>1. Kept(b, two.out, 2, before \cup (Ahead(Records(2)[b].list) \ one.m.refused), Manager)
    <3>. HIDE DEF named, one
    <3>. QED
      BY <1>1, <1>7, <1>9, <1>13, WithWidthKeeps
  <2>. QED
    BY <1>9, <1>11, <2>1
<1>. HIDE DEF named, two, one
<1>14. Kept(b, Walked.out, Width, before \cup named(Width), Manager)
  <2>1. CASE AllRecords(b, 1)
    <3>1. Walked = one /\ Width = 1
      BY <1>5, <2>1 DEF rewriteTLVPayload, one, Width, b
    <3>. QED
      BY <1>1, <1>12, <3>1
  <2>2. CASE ~AllRecords(b, 1) /\ AllRecords(b, 2)
    <3>1. Walked = two /\ Width = 2
      BY <1>5, <2>2 DEF rewriteTLVPayload, BestOf, one, two, Width, b
    <3>. QED
      BY <1>1, <1>13, <3>1
  <2>3. CASE ~AllRecords(b, 1) /\ ~AllRecords(b, 2)
    <3>1. Walked = Answer(one.out, two.m) /\ Width = 1
      BY <1>5, <2>3 DEF rewriteTLVPayload, BestOf, one, two, Width, b
    <3>2. Walked.out = one.out /\ Walked.m = two.m
      <4>1. \A x, y : Answer(x, y).out = x /\ Answer(x, y).m = y
        BY DEF Answer
      <4>. QED
        BY <3>1, <4>1
    <3>3. Later(one.m, Manager)
      BY <1>1, <1>9, <1>10, <3>2, LaterProperties
    <3>. QED
      BY <1>12, <3>1, <3>2, <3>3
  <2>. QED
    BY <2>1, <2>2, <2>3
<1>. QED
  BY <1>1, <1>6, <1>14 DEF RecordsKept, Kept, RecordKept, named, b

\* Records keep their number, their tags and what follows them, and their values but
\* for addresses (rewriteTLVPayload, precreateTunnelsFromTLVPayload).
THEOREM RecordsAreKept == Spec => []RecordsKept
BY RecordsKeptHolds, Invariance, PTL

(***************************************************************************)
(* How long a rewritten message gets, and that its fields can be read back   *)
(***************************************************************************)
\* What a large number's varint fits, a small one's does.
LEMMA FitsBelow ==
    ASSUME NEW y \in Nat, Fits(y), NEW x \in 0 .. y
    PROVE  Fits(x) /\ Consumable(Varint[x]) /\ Len(Varint[x]) \in Nat /\ Len(Varint[x]) <= MaxVarint
<1>1. Varint[x] \in Bytes /\ Varint[y] \in Bytes /\ x \in Nat
  BY VarintDef
<1>. DEFINE k == Len(Varint[x])
            l == Len(Varint[y])
<1>2. k \in Nat /\ l \in Nat /\ MaxVarint \in Nat
  BY <1>1, BytesAreNumbers, WidthsAssumption
<1>3. k <= l
  BY VarintLength
<1>4. l < MaxVarint
  BY DEF Fits, appendProtobufVarint
<1>5. IsVarint(Varint[x])
  BY <1>1, VarintValue
<1>. HIDE DEF k, l
<1>6. k < MaxVarint /\ k <= MaxVarint /\ k # MaxVarint
  BY <1>2, <1>3, <1>4
<1>. QED
  BY <1>2, <1>5, <1>6 DEF Fits, appendProtobufVarint, Consumable, k

\* A chunk with its length is read back.
LEMMA WithLenParsed ==
    ASSUME NEW x \in Bytes, Fits(Len(x))
    PROVE  /\ WithLen(x) \in Bytes /\ IsData(2, WithLen(x))
           /\ Drop(WithLen(x), consumeProtobufVarint(WithLen(x)).n) = x
           /\ Len(WithLen(x)) <= MaxVarint + Len(x)
<1>. DEFINE v == Varint[Len(x)]
            d == WithLen(x)
            c == consumeProtobufVarint(d)
<1>1. Len(x) \in Nat /\ v \in Bytes /\ d \in Bytes /\ d = v \o x
  BY BytesAreNumbers, WithLenTyped DEF WithLen, appendProtobufVarint
<1>2. Consumable(v) /\ Len(v) \in Nat /\ Len(v) <= MaxVarint /\ Fits(Len(x))
  <2>1. Len(x) \in 0 .. Len(x)
    BY <1>1
  <2>. QED
    BY <1>1, <2>1, FitsBelow
<1>3. ValueOf[v] = Len(x) /\ IsVarint(v)
  BY <1>1, VarintValue
<1>. HIDE DEF v
<1>4. c = [n |-> Len(v), value |-> Len(x)]
  BY <1>1, <1>2, <1>3, ConsumeVarint
<1>. HIDE DEF c, d
<1>5. c.n = Len(v) /\ c.value = Len(x)
  BY <1>4
<1>6. v \in Seq(Byte) /\ x \in Seq(Byte)
  BY <1>1 DEF Bytes
<1>7. Len(d) = Len(v) + Len(x) /\ Drop(d, Len(v)) = x
  BY <1>1, <1>6, ConcatProperties, SplitConcat
<1>8. Len(v) > 0
  BY <1>3 DEF IsVarint
<1>. DEFINE k == Len(v)
            l == Len(x)
            s == Len(d)
<1>9. k \in Nat /\ l \in Nat /\ s = k + l /\ k > 0 /\ k <= MaxVarint /\ MaxVarint \in Nat
  BY <1>1, <1>2, <1>7, <1>8, WidthsAssumption
<1>. HIDE DEF k, l, s
<1>10. s > 0 /\ s <= MaxVarint + l
  BY <1>9
<1>11. c.n > 0 /\ c.n + c.value = Len(d)
  BY <1>5, <1>9 DEF k, l, s
<1>12. IsData(2, d)
  BY <1>1, <1>10, <1>11 DEF IsData, c, s
<1>. QED
  BY <1>1, <1>5, <1>7, <1>10, <1>12 DEF c, d, s, l

\* A chunk is shorter than its field's data.
LEMMA ChunkWithin ==
    ASSUME NEW f, NEW k \in Nat, IsField(f, k), f.wt = 2
    PROVE  /\ f.chunk \in Bytes /\ Len(f.chunk) \in Nat
           /\ Len(f.tag) >= 1 /\ Len(f.tag) \in Nat /\ Len(f.data) \in Nat
           /\ Len(f.chunk) + 1 <= Len(f.data)
<1>. DEFINE d == f.data
            c == consumeProtobufVarint(d)
<1>1. f.chunk = Drop(d, c.n) /\ d \in Bytes /\ f.tag \in Bytes /\ f.chunk \in Bytes
  BY DEF IsField, Says
<1>2. c.n > 0
  BY DEF IsField, IsData
<1>3. c.n \in 0 .. Len(d) /\ c.n \in Nat
  BY <1>1, ConsumeRange
<1>4. Len(f.tag) > 0
  BY DEF IsField, Consumable, IsVarint
<1>. HIDE DEF c, d
<1>5. Len(f.chunk) = Len(d) - c.n
  BY <1>1, <1>3, DropProperties DEF Bytes
<1>6. Len(f.tag) \in Nat /\ Len(d) \in Nat /\ Len(f.chunk) \in Nat
  BY <1>1, BytesAreNumbers
<1>. DEFINE x == Len(f.chunk)
            y == Len(d)
            z == Len(f.tag)
<1>7. x \in Nat /\ y \in Nat /\ z \in Nat /\ x = y - c.n /\ z > 0
  BY <1>4, <1>5, <1>6
<1>. HIDE DEF x, y, z
<1>8. x + 1 <= y /\ z >= 1
  BY <1>2, <1>3, <1>7
<1>. QED
  BY <1>1, <1>6, <1>8 DEF x, y, z, d

\* Rewritings that make something of chunks of up to size / Growth bytes.
Bounded(inner, size) ==
    \A c \in Bytes, m \in Managers :
        Growth * Len(c) <= size => 2 * Len(inner[c][m].out) <= Growth * Len(c) + 2 * MaxText

\* How much a message may grow.
LEMMA GrowthTyped == Growth \in Nat /\ Growth = 2 + MaxVarint + MaxText /\ MaxVarint \in Nat /\ MaxText \in Nat
BY WidthsAssumption, TextsTyped DEF Growth

\* t, d, c and x are lengths of a tag, of data, of the chunk in it and of what it
\* becomes; v is that of a varint.
LEMMA Products ==
    ASSUME NEW x \in Nat, NEW y \in Nat, x <= y
    PROVE  /\ Growth * x \in Nat /\ Growth * y \in Nat /\ Growth * x <= Growth * y
           /\ Growth * (x + y) = Growth * x + Growth * y
<1>1. Growth \in Nat
  BY GrowthTyped
<1>. QED
  BY <1>1

\* A field does not grow more, if its chunk does not.
LEMMA FieldGrowth ==
    ASSUME NEW t \in Nat, t >= 1, NEW d \in Nat, d >= 1, NEW v \in Nat, v <= MaxVarint, NEW x \in Nat,
           \/ v + x <= d \/ (x = 0)
           \/ \E c \in Nat : c + 1 <= d /\ 2 * x <= Growth * c + 2 * MaxText
    PROVE  2 * (t + v + x) <= Growth * (t + d)
<1>1. Growth \in Nat /\ Growth = 2 + MaxVarint + MaxText /\ MaxVarint \in Nat /\ MaxText \in Nat
  BY GrowthTyped
<1>. DEFINE g == MaxVarint + MaxText
<1>2. Growth * (t + d) = 2 * t + 2 * d + g * t + g * d
  BY <1>1
<1>3. g * t >= g /\ g * d >= g /\ g \in Nat
  BY <1>1
<1>4. CASE v + x <= d
  BY <1>1, <1>2, <1>3, <1>4
<1>5. CASE x = 0
  BY <1>1, <1>2, <1>3, <1>5
<1>6. ASSUME NEW c \in Nat, c + 1 <= d, 2 * x <= Growth * c + 2 * MaxText
      PROVE  2 * (t + v + x) <= Growth * (t + d)
  <2>1. Growth * c = 2 * c + g * c
    BY <1>1
  <2>2. g * (c + 1) <= g * d /\ g * (c + 1) = g * c + g
    BY <1>1, <1>3, <1>6
  <2>. QED
    BY <1>1, <1>2, <1>3, <1>6, <2>1, <2>2
<1>. QED
  BY <1>4, <1>5, <1>6

\* The port that the lobby's field may get.
LEMMA LobbyPort ==
    ASSUME NEW a \in GameAddrs, NEW m \in Managers, ClientPort(a, m) > 0
    PROVE  /\ ClientPort(a, m) = UDPClientPort[a] /\ UDPClientPort[a] \in Nat
           /\ Consumable(Varint[UDPClientPort[a]]) /\ Varint[UDPClientPort[a]] \in Bytes
           /\ Len(Varint[UDPClientPort[a]]) \in Nat /\ Len(Varint[UDPClientPort[a]]) <= MaxVarint
           /\ ValueOf[Varint[UDPClientPort[a]]] = UDPClientPort[a]
<1>. DEFINE p == UDPClientPort[a]
<1>1. p \in Nat /\ Fits(p)
  BY PortsAssumption DEF GameAddrs, Foreign
<1>2. ClientPort(a, m) = p
  <2>1. CASE a \in m.closed
    BY <2>1 DEF ClientPort
  <2>2. CASE a \notin m.closed
    BY <2>2 DEF ClientPort
  <2>. QED
    BY <2>1, <2>2
<1>. HIDE DEF p
<1>3. p \in 0 .. p
  BY <1>1
<1>4. Consumable(Varint[p]) /\ Len(Varint[p]) \in Nat /\ Len(Varint[p]) <= MaxVarint
  BY <1>1, <1>3, FitsBelow
<1>. QED
  BY <1>1, <1>2, <1>4, VarintValue, VarintDef DEF p

\* The port is left, or is that of the lobby's tunnel.
LEMMA PortFieldCases ==
    ASSUME NEW f, NEW lobby \in SUBSET GameAddrs, NEW m \in Managers
    PROVE  \/ PortField(f, lobby, m) = f.data
           \/ \E a \in lobby : /\ f.num = 1 /\ f.wt = 0 /\ ClientPort(a, m) > 0
                               /\ PortField(f, lobby, m) = Varint[UDPClientPort[a]]
<1>1. CASE f.num = 1 /\ f.wt = 0 /\ lobby # {} /\ ClientPort(The(lobby), m) > 0
  <2>1. The(lobby) \in lobby
    BY <1>1, TheProperties
  <2>2. PortField(f, lobby, m) = Varint[ClientPort(The(lobby), m)]
    BY <1>1 DEF PortField, appendProtobufVarint
  <2>. QED
    BY <1>1, <2>1, <2>2, LobbyPort
<1>2. CASE ~(f.num = 1 /\ f.wt = 0 /\ lobby # {} /\ ClientPort(The(lobby), m) > 0)
  BY <1>2 DEF PortField
<1>. QED
  BY <1>1, <1>2

\* A chunk grows by a text at most, besides.
LEMMA LenDelimGrowth ==
    ASSUME NEW f \in FieldSet, NEW lobby, NEW size \in Nat, NEW inner \in Growing, Bounded(inner, size),
           NEW m \in Managers, Growth * Len(f.chunk) <= size
    PROVE  2 * Len(LenDelim(f, lobby, inner, m).out) <= Growth * Len(f.chunk) + 2 * MaxText
<1>1. f.chunk \in Bytes
  BY DEF FieldSet
<1>2. Len(f.chunk) \in Nat
  BY <1>1, BytesAreNumbers
<1>3. CASE lobby # {} /\ f.num = 2 /\ TrimRight(f.chunk) = IpText[The(lobby)[1]]
  <2>1. LenDelim(f, lobby, inner, m) = [out |-> IpText[ProxyIP], m |-> m]
    BY <1>3 DEF LenDelim, Answer
  <2>. DEFINE k == Len(IpText[ProxyIP])
              l == Growth * Len(f.chunk)
  <2>2. k \in Nat /\ k <= MaxText /\ l \in Nat /\ MaxText \in Nat
    <3>1. k \in Nat /\ k <= MaxText /\ MaxText \in Nat
      BY TextsTyped, BytesAreNumbers
    <3>2. l \in Nat
      <4>1. \A x \in Nat : Growth * x \in Nat
        BY GrowthTyped
      <4>. QED
        BY <1>2, <4>1
    <3>. QED
      BY <3>1, <3>2
  <2>3. LenDelim(f, lobby, inner, m).out = IpText[ProxyIP]
    BY <2>1
  <2>. HIDE DEF k, l
  <2>4. 2 * k <= l + 2 * MaxText
    BY <2>2
  <2>. QED
    BY <2>3, <2>4 DEF k, l
<1>4. CASE ~(lobby # {} /\ f.num = 2 /\ TrimRight(f.chunk) = IpText[The(lobby)[1]])
  <2>1. LenDelim(f, lobby, inner, m) = inner[f.chunk][m]
    BY <1>4 DEF LenDelim
  <2>. QED
    BY <1>1, <2>1 DEF Bounded
<1>. QED
  BY <1>3, <1>4

\* The new data of a field is data of its type, and not too long.
LEMMA NewDataParsed ==
    ASSUME NEW f \in FieldSet, NEW k \in Nat, IsField(f, k), NEW size \in Nat, Fits(size), Growth * k <= size,
           NEW inner \in Growing, Bounded(inner, size), NEW lobby \in SUBSET GameAddrs, NEW m \in Managers,
           NEW out, out = NewData(f, lobby, inner, m).out
    PROVE  /\ out \in Bytes /\ IsData(f.wt, out)
           /\ 2 * (Len(f.tag) + Len(out)) <= Growth * (Len(f.tag) + Len(f.data))
           /\ f.wt = 2 => Drop(out, consumeProtobufVarint(out).n) = LenDelim(f, lobby, inner, m).out
<1>. DEFINE t == Len(f.tag)
            d == Len(f.data)
            n == Len(out)
<1>1. /\ f.tag \in Bytes /\ f.data \in Bytes /\ IsData(f.wt, f.data) /\ Consumable(f.tag)
      /\ t + d <= k
  BY DEF IsField
<1>2. t \in Nat /\ d \in Nat
  BY <1>1, BytesAreNumbers
<1>3. t >= 1 /\ d >= 1
  <2>1. t > 0 /\ d > 0
    BY <1>1 DEF Consumable, IsVarint, IsData
  <2>. HIDE DEF t, d
  <2>. QED
    BY <1>2, <2>1
<1>4. out \in Bytes
  BY NewDataTyped DEF Answers
<1>5. n \in Nat
  BY <1>4, BytesAreNumbers
<1>6. CASE f.wt # 2
  <2>1. out = PortField(f, lobby, m)
    BY <1>6 DEF NewData, Answer
  <2>2. CASE out = f.data
    <3>1. n = d /\ d + 0 <= d
      BY <1>2, <2>2
    <3>. HIDE DEF t, d, n
    <3>2. 2 * (t + n + 0) <= Growth * (t + d)
      <4>1. 2 * (t + d) <= Growth * (t + d)
        <5>1. Growth \in Nat /\ Growth >= 2 /\ t + d \in Nat
          BY <1>2, GrowthTyped
        <5>. HIDE DEF Growth
        <5>. QED
          BY <5>1
      <4>. QED
        BY <1>2, <3>1, <4>1
    <3>3. 2 * (t + n) <= Growth * (t + d)
      BY <1>2, <1>5, <3>2
    <3>. QED
      BY <1>1, <1>4, <1>6, <2>2, <3>3 DEF t, d, n
  <2>3. CASE \E a \in lobby : /\ f.num = 1 /\ f.wt = 0 /\ ClientPort(a, m) > 0
                              /\ out = Varint[UDPClientPort[a]]
    <3>1. f.wt = 0 /\ Consumable(out) /\ n <= MaxVarint
      BY <2>3, LobbyPort
    <3>2. IsData(f.wt, out)
      <4>1. Len(out) > 0
        BY <3>1 DEF Consumable, IsVarint
      <4>. QED
        BY <1>4, <3>1, <4>1 DEF IsData
    <3>. HIDE DEF t, d, n
    <3>3. 2 * (t + n + 0) <= Growth * (t + d)
      <4>1. ASSUME NEW z \in Nat, z = 0 PROVE 2 * (t + n + z) <= Growth * (t + d)
        BY <1>2, <1>3, <1>5, <3>1, <4>1, FieldGrowth
      <4>. QED
        BY <4>1
    <3>4. 2 * (t + n) <= Growth * (t + d)
      BY <1>2, <1>5, <3>3
    <3>5. 2 * (Len(f.tag) + Len(out)) <= Growth * (Len(f.tag) + Len(f.data))
      BY <3>4 DEF t, d, n
    <3>6. f.wt = 2 => Drop(out, consumeProtobufVarint(out).n) = LenDelim(f, lobby, inner, m).out
      BY <1>6
    <3>. HIDE DEF Growth
    <3>. QED
      BY ONLY <1>4, <3>2, <3>5, <3>6, Zenon
  <2>. QED
    BY <2>1, <2>2, <2>3, PortFieldCases
<1>7. CASE f.wt = 2
  <2>. DEFINE r == LenDelim(f, lobby, inner, m)
              x == Len(r.out)
              c == Len(f.chunk)
              v == n - x
  <2>1. out = WithLen(r.out)
    BY <1>7 DEF NewData, Answer
  <2>2. r.out \in Bytes
    BY LenDelimTyped DEF Answers
  <2>3. c \in Nat /\ c + 1 <= d
    BY <1>7, ChunkWithin
  <2>4. Growth * c <= size
    <3>. HIDE DEF t, c, d
    <3>1. c <= k
      BY <1>1, <1>2, <2>3
    <3>2. Growth * c <= Growth * k /\ Growth * c \in Nat /\ Growth * k \in Nat
      BY <2>3, <3>1, Products
    <3>. QED
      BY <3>2
  <2>5. 2 * x <= Growth * c + 2 * MaxText
    BY <2>4, LenDelimGrowth
  <2>6. x \in Nat
    BY <2>2, BytesAreNumbers
  <2>7. x <= size
    <3>. HIDE DEF t, c, d, x
    <3>1. c + 2 <= k
      BY <1>1, <1>2, <1>3, <2>3
    <3>2. Growth * (c + 2) <= Growth * k /\ Growth * (c + 2) \in Nat /\ Growth * k \in Nat
      <4>1. c + 2 \in Nat
        BY <2>3
      <4>. QED
        BY <3>1, <4>1, Products
    <3>3. Growth * (c + 2) = Growth * c + Growth * 2 /\ Growth * c \in Nat /\ Growth \in Nat
      BY <2>3, GrowthTyped
    <3>4. Growth >= MaxText /\ MaxText \in Nat
      BY GrowthTyped
    <3>. DEFINE gc == Growth * c
                gk == Growth * k
    <3>5. gc \in Nat /\ gk \in Nat /\ gc + Growth * 2 <= gk /\ 2 * x <= gc + 2 * MaxText /\ gk <= size
      BY <2>5, <3>2, <3>3
    <3>. HIDE DEF gc, gk, Growth
    <3>. QED
      BY <2>6, <3>3, <3>4, <3>5
  <2>8. Fits(x)
    <3>1. x \in 0 .. size
      BY <2>6, <2>7
    <3>. QED
      BY <3>1, FitsBelow
  <2>9. /\ IsData(2, out) /\ Drop(out, consumeProtobufVarint(out).n) = r.out /\ n <= MaxVarint + x
    BY <2>1, <2>2, <2>8, WithLenParsed
  <2>10. n = Len(Varint[x]) + x /\ Len(Varint[x]) \in Nat
    <3>1. Varint[x] \in Bytes
      BY <2>6, VarintDef
    <3>2. Varint[x] \in Seq(Byte) /\ r.out \in Seq(Byte) /\ out = Varint[x] \o r.out
      BY <2>1, <2>2, <3>1 DEF Bytes, WithLen, appendProtobufVarint
    <3>. QED
      BY <3>1, <3>2, ConcatProperties, BytesAreNumbers
  <2>. HIDE DEF t, d, n, c, x
  <2>11. 2 * (t + n) <= Growth * (t + d)
    <3>1. v \in Nat /\ v <= MaxVarint
      BY <2>6, <2>9, <2>10, GrowthTyped
    <3>2. 2 * (t + v + x) <= Growth * (t + d)
      <4>. HIDE DEF v
      <4>. QED
        BY <1>2, <1>3, <2>3, <2>5, <2>6, <3>1, FieldGrowth
    <3>3. t + v + x = t + n
      BY <1>2, <1>5, <2>6
    <3>. QED
      BY <3>2, <3>3
  <2>. QED
    BY <1>4, <1>7, <2>9, <2>11 DEF t, d, n
<1>. QED
  BY <1>6, <1>7

(***************************************************************************)
(* A message is rewritten field for field                                    *)
(***************************************************************************)
\* What a field becomes in a rewriting that goes from registry m to n.
Becomes(f, g, lobby, inner, m, n) ==
    \E o \in Managers :
        LET new == NewData(f, lobby, inner, o)
        IN  /\ Later(m, o) /\ Later(new.m, n)
            /\ g.tag = f.tag /\ g.num = f.num /\ g.wt = f.wt /\ g.data = new.out
            /\ g.wt = 0 => g.value = ValueOf[g.data]
            /\ g.wt = 2 => g.chunk = LenDelim(f, lobby, inner, o).out
Rewrites(b, c, lobby, inner, m, n) ==
    /\ protobufWireConsumesFully(c) /\ Len(Fields(c)) = Len(Fields(b))
    /\ \A i \in DOMAIN Fields(b) : Becomes(Fields(b)[i], Fields(c)[i], lobby, inner, m, n)

\* A rewriting may have begun with an earlier registry.
LEMMA BecomesEarlier ==
    ASSUME NEW f, NEW g, NEW lobby, NEW inner, NEW m \in Managers, NEW o \in Managers, Later(m, o), NEW n,
           Becomes(f, g, lobby, inner, o, n)
    PROVE  Becomes(f, g, lobby, inner, m, n)
<1>1. PICK p \in Managers :
        LET new == NewData(f, lobby, inner, p)
        IN  /\ Later(o, p) /\ Later(new.m, n)
            /\ g.tag = f.tag /\ g.num = f.num /\ g.wt = f.wt /\ g.data = new.out
            /\ g.wt = 0 => g.value = ValueOf[g.data]
            /\ g.wt = 2 => g.chunk = LenDelim(f, lobby, inner, p).out
  BY DEF Becomes
<1>2. Later(m, p)
  BY <1>1, LaterProperties
<1>. QED
  BY <1>1, <1>2 DEF Becomes

\* The first field and the others.
LEMMA FirstRewritten ==
    ASSUME NEW lobby, NEW inner, NEW m, NEW n, NEW b \in Bytes, Field(b).ok, NEW c \in Bytes, Field(c).ok,
           NEW d, d = Drop(b, Field(b).size), NEW e, e = Drop(c, Field(c).size),
           Becomes(Field(b), Field(c), lobby, inner, m, n), Rewrites(d, e, lobby, inner, m, n)
    PROVE  Rewrites(b, c, lobby, inner, m, n)
<1>. DEFINE k == Len(Fields(d))
            p == Fields(b)
            q == Fields(c)
<1>1. /\ d \in Bytes /\ Len(p) = k + 1 /\ p[1] = Field(b) /\ p \in Seq(FieldSet)
      /\ \A i \in 1 .. k : p[i + 1] = Fields(d)[i]
      /\ Fields(d) \in Seq(FieldSet)
  BY FieldsDef
<1>2. /\ e \in Bytes /\ Len(q) = Len(Fields(e)) + 1 /\ q[1] = Field(c)
      /\ \A i \in 1 .. Len(Fields(e)) : q[i + 1] = Fields(e)[i]
      /\ protobufWireConsumesFully(c) <=> protobufWireConsumesFully(e)
  BY FieldsDef
<1>3. /\ protobufWireConsumesFully(e) /\ Len(Fields(e)) = k
      /\ \A i \in DOMAIN Fields(d) : Becomes(Fields(d)[i], Fields(e)[i], lobby, inner, m, n)
  BY DEF Rewrites
<1>4. k \in Nat /\ DOMAIN Fields(d) = 1 .. k /\ DOMAIN p = 1 .. k + 1
  BY <1>1, LenProperties
<1>. HIDE DEF k, p, q
<1>5. ASSUME NEW i \in 1 .. k + 1 PROVE Becomes(p[i], q[i], lobby, inner, m, n)
  <2>1. CASE i = 1
    BY <1>1, <1>2, <2>1
  <2>2. CASE i # 1
    <3>1. i - 1 \in 1 .. k /\ (i - 1) + 1 = i
      BY <1>4, <2>2
    <3>2. p[i] = Fields(d)[i - 1] /\ q[i] = Fields(e)[i - 1]
      BY <1>1, <1>2, <1>3, <3>1
    <3>. QED
      BY <1>3, <1>4, <3>1, <3>2
  <2>. QED
    BY <2>1, <2>2
<1>6. protobufWireConsumesFully(c) /\ Len(q) = Len(p)
  BY <1>1, <1>2, <1>3
<1>. QED
  BY <1>4, <1>5, <1>6 DEF Rewrites, p, q

\* One step of the walk.
FieldWalked(b, m, rest, n, c, inner, lobby, size) ==
    /\ inner \in Growing /\ size \in Nat /\ Fits(size) /\ Bounded(inner, size)
    /\ lobby \in SUBSET GameAddrs /\ b \in Bytes /\ Growth * Len(b) <= size /\ Field(b).ok
    /\ m \in Managers /\ rest \in Bytes /\ Later(NewData(Field(b), lobby, inner, m).m, n)
    /\ c = Field(b).tag \o NewData(Field(b), lobby, inner, m).out \o rest
    /\ 2 * Len(rest) <= Growth * Len(Drop(b, Field(b).size))

\* The first field is read back from what has been written, and the rest follows it.
LEMMA FieldRewritten ==
    ASSUME NEW b, NEW m, NEW rest, NEW n, NEW c, NEW inner, NEW lobby, NEW size,
           FieldWalked(b, m, rest, n, c, inner, lobby, size)
    PROVE  /\ c \in Bytes /\ Field(c).ok /\ Drop(c, Field(c).size) = rest
           /\ Becomes(Field(b), Field(c), lobby, inner, m, n)
           /\ 2 * Len(c) <= Growth * Len(b)
<1>0. PICK new : new = NewData(Field(b), lobby, inner, m)
  OBVIOUS
<1>. /\ inner \in Growing /\ size \in Nat /\ Fits(size) /\ Bounded(inner, size)
     /\ lobby \in SUBSET GameAddrs /\ b \in Bytes /\ Growth * Len(b) <= size /\ Field(b).ok
     /\ m \in Managers /\ rest \in Bytes
     /\ 2 * Len(rest) <= Growth * Len(Drop(b, Field(b).size))
     /\ Later(new.m, n) /\ c = Field(b).tag \o new.out \o rest
  BY <1>0 DEF FieldWalked
<1>. DEFINE f == Field(b)
            g == Field(c)
            t == f.tag
            d == Drop(b, f.size)
<1>1. f \in FieldSet
  BY FieldProperties
<1>2. /\ Consumable(t) /\ IsData(f.wt, f.data) /\ Says(f, t, f.data)
      /\ t \in Bytes /\ f.data \in Bytes /\ f.chunk \in Bytes
      /\ f.size \in 1 .. Len(b)
      /\ d \in Bytes /\ Len(d) = Len(b) - f.size
  BY FieldThatIs
<1>3. f.size = Len(t) + Len(f.data) /\ f.num = ValueOf[t] \div 8 /\ f.wt = ValueOf[t] % 8
  BY <1>2 DEF Says
<1>4. Len(b) \in Nat /\ Len(t) \in Nat /\ Len(f.data) \in Nat
  BY <1>2, BytesAreNumbers
<1>5. IsField(f, Len(b))
  <2>1. Len(t) + Len(f.data) <= Len(b)
    <3>1. f.size <= Len(b)
      BY <1>2, <1>4
    <3>. HIDE DEF f, t
    <3>. QED
      BY <1>3, <3>1
  <2>. QED
    BY <1>2, <2>1 DEF IsField
<1>. HIDE DEF f
<1>6. /\ new.out \in Bytes /\ IsData(f.wt, new.out)
      /\ 2 * (Len(t) + Len(new.out)) <= Growth * (Len(t) + Len(f.data))
      /\ f.wt = 2 => Drop(new.out, consumeProtobufVarint(new.out).n) = LenDelim(f, lobby, inner, m).out
  BY <1>0, <1>1, <1>4, <1>5, NewDataParsed DEF f
<1>7. c \in Bytes /\ Says(g, t, new.out) /\ Drop(c, g.size) = rest
  <2>1. c = t \o new.out \o rest
    BY DEF f
  <2>2. IsData(ValueOf[t] % 8, new.out)
    BY <1>3, <1>6
  <2>. HIDE DEF g, t
  <2>. QED
    BY <1>2, <1>6, <2>1, <2>2, FieldOfParts DEF g
<1>8. /\ g.ok /\ g.tag = t /\ g.data = new.out /\ g.num = f.num /\ g.wt = f.wt
      /\ g.wt = 0 => g.value = ValueOf[new.out]
      /\ g.wt = 2 => g.chunk = Drop(new.out, consumeProtobufVarint(new.out).n)
  BY <1>3, <1>7 DEF Says
<1>9. Becomes(f, g, lobby, inner, m, n)
  <2>1. Later(m, m) /\ new = NewData(f, lobby, inner, m)
    BY <1>0, LaterProperties DEF f
  <2>. HIDE DEF g
  <2>. QED
    BY <1>6, <1>8, <2>1 DEF Becomes
<1>10. 2 * Len(c) <= Growth * Len(b)
  <2>. DEFINE k == Len(t)
              l == Len(f.data)
              x == Len(new.out)
              y == Len(rest)
              z == Len(d)
              u == Len(b)
  <2>1. Len(c) = k + x + y
    <3>1. t \in Seq(Byte) /\ new.out \in Seq(Byte) /\ rest \in Seq(Byte)
      BY <1>2, <1>6 DEF Bytes
    <3>2. t \o new.out \in Seq(Byte) /\ Len(t \o new.out) = k + x
      BY <3>1, ConcatProperties
    <3>3. Len((t \o new.out) \o rest) = k + x + y
      BY <3>1, <3>2, ConcatProperties
    <3>. QED
      BY <3>3 DEF f
  <2>2. k \in Nat /\ l \in Nat /\ x \in Nat /\ y \in Nat /\ z \in Nat /\ u \in Nat
    BY <1>2, <1>4, <1>6, BytesAreNumbers
  <2>3. z = u - (k + l) /\ 2 * (k + x) <= Growth * (k + l) /\ 2 * y <= Growth * z
    BY <1>2, <1>3, <1>6 DEF f
  <2>. HIDE DEF k, l, x, y, z, u, Growth
  <2>4. u = (k + l) + z /\ k + l \in Nat
    BY <2>2, <2>3
  <2>5. Growth * u = Growth * (k + l) + Growth * z /\ Growth * (k + l) \in Nat /\ Growth * z \in Nat
    <3>1. ASSUME NEW p \in Nat, NEW q \in Nat
          PROVE  Growth * (p + q) = Growth * p + Growth * q /\ Growth * p \in Nat /\ Growth * q \in Nat
      BY GrowthTyped
    <3>. QED
      BY <2>2, <2>4, <3>1
  <2>. DEFINE gp == Growth * (k + l)
              gz == Growth * z
  <2>6. gp \in Nat /\ gz \in Nat /\ 2 * (k + x) <= gp /\ 2 * y <= gz /\ Growth * u = gp + gz
    BY <2>3, <2>5
  <2>. HIDE DEF gp, gz
  <2>7. 2 * (k + x + y) <= gp + gz
    BY <2>2, <2>6
  <2>. QED
    BY <2>1, <2>6, <2>7 DEF u
<1>. QED
  BY <1>7, <1>8, <1>9, <1>10 DEF f

\* A message is rewritten field for field, and does not grow too much.
LEMMA MessageRewritten ==
    ASSUME NEW inner \in Growing, NEW size \in Nat, Fits(size), Bounded(inner, size),
           NEW lobby \in SUBSET GameAddrs, NEW b \in Bytes, Growth * Len(b) <= size, NEW m \in Managers,
           NEW n, Later(Message(inner, lobby)[b][m].m, n)
    PROVE  /\ Message(inner, lobby)[b][m].out \in Bytes
           /\ Rewrites(b, Message(inner, lobby)[b][m].out, lobby, inner, m, n)
           /\ 2 * Len(Message(inner, lobby)[b][m].out) <= Growth * Len(b)
<1>. DEFINE W == Message(inner, lobby)
            Good(c, o) == /\ Rewrites(c, W[c][o].out, lobby, inner, o, n)
                          /\ 2 * Len(W[c][o].out) <= Growth * Len(c)
            T == {c \in Bytes : Growth * Len(c) <= size =>
                    \A o \in Managers : Later(W[c][o].m, n) => Good(c, o)}
<1>1. \A c \in Bytes, o \in Managers : W[c][o] \in Answers /\ Later(o, W[c][o].m)
  BY MessageDef DEF Growing, Rewritings, Maps
<1>2. ASSUME NEW c \in Seq(Byte), \A d \in Seq(Byte) : Len(d) < Len(c) => d \in T
      PROVE  c \in T
  <2>. SUFFICES ASSUME Growth * Len(c) <= size, NEW o \in Managers, Later(W[c][o].m, n)
                PROVE  Good(c, o)
    BY DEF Bytes
  <2>1. c \in Bytes
    BY DEF Bytes
  <2>2. CASE ~Field(c).ok
    <3>1. W[c][o].out = <<>>
      <4>1. W[c][o] = [out |-> <<>>, m |-> o]
        BY <2>1, <2>2, MessageDef DEF Answer
      <4>. HIDE DEF W
      <4>. QED
        BY <4>1
    <3>2. Fields(c) = <<>>
      BY <2>1, <2>2, FieldsDef
    <3>3. ~Field(<<>>).ok
      <4>1. Field(<<>>).ok => Field(<<>>).size \in 1 .. Len(<<>>)
        BY EmptyBytes, FieldThatIs
      <4>2. Len(<<>>) = 0 /\ 1 .. 0 = {}
        OBVIOUS
      <4>. QED
        BY <4>1, <4>2
    <3>4. Fields(<<>>) = <<>> /\ protobufWireConsumesFully(<<>>)
      BY <3>3, EmptyBytes, FieldsDef
    <3>5. DOMAIN <<>> = {} /\ Len(<<>>) = 0
      OBVIOUS
    <3>6. Rewrites(c, <<>>, lobby, inner, o, n)
      BY <3>2, <3>4, <3>5 DEF Rewrites
    <3>7. Growth * Len(c) \in Nat
      <4>1. \A x \in Nat : Growth * x \in Nat
        BY GrowthTyped
      <4>. QED
        BY <2>1, <4>1, BytesAreNumbers
    <3>8. 2 * Len(<<>>) <= Growth * Len(c)
      <4>. DEFINE g == Growth * Len(c)
      <4>1. g \in Nat
        BY <3>7
      <4>. HIDE DEF g
      <4>2. 2 * Len(<<>>) <= g
        BY <3>5, <4>1
      <4>. QED
        BY <4>2 DEF g
    <3>. HIDE DEF W
    <3>. QED
      BY <3>1, <3>6, <3>8
  <2>3. CASE Field(c).ok
    <3>. DEFINE f == Field(c)
                new == NewData(f, lobby, inner, o)
                d == Drop(c, f.size)
                more == W[d][new.m]
                e == f.tag \o new.out \o more.out
    <3>1. f \in FieldSet /\ f.tag \in Bytes /\ d \in Bytes /\ Len(d) < Len(c)
      BY <2>1, <2>3, FieldProperties, FieldThatIs
    <3>. HIDE DEF d
    <3>2. new \in Answers /\ Later(o, new.m) /\ new.out \in Bytes /\ new.m \in Managers
      <4>. HIDE DEF f
      <4>. QED
        BY <3>1, NewDataTyped DEF Answers
    <3>3. W[c][o] = After(f.tag \o new.out, more)
      <4>1. NewField(c, lobby, inner, o) = [out |-> f.tag \o new.out, m |-> new.m]
        BY DEF NewField, Answer
      <4>2. W[c][o] = After(NewField(c, lobby, inner, o).out, W[d][NewField(c, lobby, inner, o).m])
        BY <2>1, <2>3, MessageDef DEF d
      <4>3. ASSUME NEW q, NEW x, NEW y, q = [out |-> x, m |-> y] PROVE q.out = x /\ q.m = y
        BY <4>3
      <4>. HIDE DEF f, new, W
      <4>. QED
        BY <4>1, <4>2, <4>3
    <3>. HIDE DEF new
    <3>4. more \in Answers /\ Later(new.m, more.m) /\ more.out \in Bytes /\ more.m \in Managers
      <4>. HIDE DEF W
      <4>. QED
        BY <1>1, <3>1, <3>2 DEF Answers
    <3>. HIDE DEF more, W
    <3>5. f.tag \o new.out \in Bytes
      <4>1. f.tag \in Seq(Byte) /\ new.out \in Seq(Byte)
        BY <3>1, <3>2 DEF Bytes
      <4>. QED
        BY <4>1, ConcatProperties DEF Bytes
    <3>6. W[c][o].out = e /\ W[c][o].m = more.m
      <4>. HIDE DEF f
      <4>1. After(f.tag \o new.out, more).out = (f.tag \o new.out) \o more.out
            /\ After(f.tag \o new.out, more).m = more.m
        BY <3>4, <3>5, AfterTyped
      <4>. QED
        BY <3>3, <4>1
    <3>. HIDE DEF e
    <3>7. Later(more.m, n) /\ Later(new.m, n) /\ n \in Managers
      <4>1. Later(more.m, n) /\ n \in Managers
        BY <3>6 DEF Later
      <4>. QED
        BY <3>2, <3>4, <4>1, LaterProperties
    <3>8. Growth * Len(d) <= size
      <4>. DEFINE x == Len(d)
                  y == Len(c)
      <4>1. x \in Nat /\ y \in Nat /\ x <= y
        BY <2>1, <3>1, BytesAreNumbers
      <4>. HIDE DEF x, y
      <4>2. Growth * x \in Nat /\ Growth * y \in Nat /\ Growth * x <= Growth * y
        BY <4>1, Products
      <4>. DEFINE p == Growth * x
                  q == Growth * y
      <4>3. p \in Nat /\ q \in Nat /\ p <= q
        BY <4>2
      <4>4. q <= size
        BY DEF y
      <4>. HIDE DEF p, q
      <4>5. p <= size
        BY <4>3, <4>4
      <4>. QED
        BY <4>5 DEF p, x
    <3>9. Good(d, new.m)
      <4>1. d \in T
        BY <1>2, <3>1 DEF Bytes
      <4>. QED
        BY <3>2, <3>7, <3>8, <4>1 DEF more
    <3>10. 2 * Len(more.out) <= Growth * Len(d) /\ Rewrites(d, more.out, lobby, inner, new.m, n)
      BY <3>9 DEF more
    <3>. HIDE DEF Good
    <3>11. /\ e \in Bytes /\ Field(e).ok /\ Drop(e, Field(e).size) = more.out
           /\ Becomes(f, Field(e), lobby, inner, o, n)
           /\ 2 * Len(e) <= Growth * Len(c)
      <4>1. new = NewData(Field(c), lobby, inner, o)
        BY DEF new
      <4>2. e = Field(c).tag \o new.out \o more.out
        BY DEF e
      <4>3. 2 * Len(more.out) <= Growth * Len(Drop(c, Field(c).size))
        BY <3>10 DEF d
      <4>4. Field(c).ok
        BY <2>3
      <4>5. /\ e \in Bytes /\ Field(e).ok /\ Drop(e, Field(e).size) = more.out
            /\ Becomes(Field(c), Field(e), lobby, inner, o, n)
            /\ 2 * Len(e) <= Growth * Len(c)
        <5>1. /\ inner \in Growing /\ size \in Nat /\ Fits(size) /\ Bounded(inner, size)
              /\ lobby \in SUBSET GameAddrs /\ c \in Bytes /\ o \in Managers /\ more.out \in Bytes
              /\ Growth * Len(c) <= size /\ Later(new.m, n)
          BY <2>1, <3>4, <3>7
        <5>2. FieldWalked(c, o, more.out, n, e, inner, lobby, size)
          <6>. HIDE DEF f
          <6>. QED
            BY <4>1, <4>2, <4>3, <4>4, <5>1 DEF FieldWalked
        <5>. QED
          BY ONLY <5>2, FieldRewritten
      <4>. QED
        BY <4>5
    <3>12. Rewrites(d, more.out, lobby, inner, o, n)
      <4>1. \A i \in DOMAIN Fields(d) : Becomes(Fields(d)[i], Fields(more.out)[i], lobby, inner, o, n)
        BY <3>2, <3>10, BecomesEarlier DEF Rewrites
      <4>. QED
        BY <3>10, <4>1 DEF Rewrites
    <3>13. Rewrites(c, e, lobby, inner, o, n)
      BY <2>1, <2>3, <3>11, <3>12, FirstRewritten DEF d
    <3>. QED
      BY <3>6, <3>11, <3>13 DEF Good
  <2>. QED
    BY <2>2, <2>3
<1>3. Seq(Byte) \subseteq T
  <2>. HIDE DEF T
  <2>. QED
    BY <1>2, InductionOnLength
<1>4. W[b][m].out \in Bytes
  BY <1>1 DEF Answers
<1>. QED
  BY <1>3, <1>4 DEF Bytes

\* What a rewriting answers.
LEMMA GrowingTyped ==
    ASSUME NEW g \in Growing, NEW c \in Bytes, NEW m \in Managers
    PROVE  /\ g[c][m] \in Answers /\ g[c][m].out \in Bytes /\ g[c][m].m \in Managers
           /\ Later(m, g[c][m].m)
BY DEF Growing, Rewritings, Maps, Answers

Lengths == {size \in Nat : Fits(size)}

\* A text grows by a text at most.
LEMMA LeafBounded ==
    ASSUME NEW c \in Bytes, NEW m \in Managers
    PROVE  2 * Len(Leaf(c, m).out) <= Growth * Len(c) + 2 * MaxText
<1>. DEFINE x == Len(c)
            y == Len(Leaf(c, m).out)
<1>1. y <= MaxText + x /\ x \in Nat /\ y \in Nat /\ MaxText \in Nat
  <2>1. Leaf(c, m).out \in Bytes /\ y <= MaxText + x
    BY LeafTyped DEF Answers
  <2>. QED
    BY <2>1, BytesAreNumbers, TextsTyped
<1>. HIDE DEF x, y
<1>2. Growth * x >= 2 * x /\ Growth * x \in Nat
  BY <1>1, GrowthTyped
<1>. DEFINE z == Growth * x
<1>. HIDE DEF z
<1>3. 2 * y <= z + 2 * MaxText
  BY <1>1, <1>2 DEF z
<1>. QED
  BY <1>3 DEF x, y, z

\* A message does not grow too much, if its chunks do not.
LEMMA MessageBounded ==
    ASSUME NEW size \in Lengths, NEW inner \in Growing, Bounded(inner, size), NEW lobby \in SUBSET GameAddrs,
           NEW c \in Bytes, Growth * Len(c) <= size, NEW m \in Managers
    PROVE  2 * Len(Message(inner, lobby)[c][m].out) <= Growth * Len(c)
<1>1. size \in Nat /\ Fits(size)
  BY DEF Lengths
<1>. DEFINE n == Message(inner, lobby)[c][m].m
<1>2. Later(n, n)
  <2>1. n \in Managers
    <3>1. Message(inner, lobby) \in Growing
      BY MessageDef
    <3>. QED
      BY <3>1, GrowingTyped
  <2>. HIDE DEF n
  <2>. QED
    BY <2>1, LaterProperties
<1>. QED
  BY <1>1, <1>2, MessageRewritten

\* Nor does a chunk, at any depth.
LEMMA LenDelimBounded ==
    ASSUME NEW size \in Lengths, NEW depth \in Nat
    PROVE  Bounded(rewriteProtobufLenDelim[depth], size)
<1>. DEFINE r == rewriteProtobufLenDelim
            S == {k \in Nat : Bounded(r[k], size)}
<1>1. ASSUME NEW k \in Nat, \A l \in 0 .. k - 1 : l \in S PROVE k \in S
  <2>. SUFFICES ASSUME NEW c \in Bytes, NEW m \in Managers, Growth * Len(c) <= size
                PROVE  2 * Len(r[k][c][m].out) <= Growth * Len(c) + 2 * MaxText
    BY DEF Bounded
  <2>1. CASE Messages(c, k)
    <3>1. k - 1 \in Nat /\ k - 1 \in 0 .. k - 1
      BY <2>1 DEF Messages
    <3>2. r[k - 1] \in Growing /\ Bounded(r[k - 1], size)
      BY <1>1, <3>1, LenDelimDef
    <3>3. r[k][c][m] = Message(r[k - 1], {})[c][m]
      BY <2>1, LenDelimDef
    <3>. HIDE DEF r
    <3>. DEFINE x == Len(Message(r[k - 1], {})[c][m].out)
                y == Growth * Len(c)
    <3>4. 2 * x <= y
      <4>1. {} \in SUBSET GameAddrs
        OBVIOUS
      <4>. QED
        BY <3>2, <4>1, MessageBounded
    <3>5. x \in Nat /\ y \in Nat /\ MaxText \in Nat
      <4>1. Message(r[k - 1], {})[c][m].out \in Bytes
        <5>1. {} \in SUBSET GameAddrs
          OBVIOUS
        <5>2. Message(r[k - 1], {}) \in Growing
          BY <3>2, <5>1, MessageDef
        <5>. QED
          BY <5>2, GrowingTyped
      <4>2. \A p \in Nat : Growth * p \in Nat
        BY GrowthTyped
      <4>. QED
        BY <4>1, <4>2, BytesAreNumbers, TextsTyped
    <3>. HIDE DEF x, y
    <3>6. 2 * x <= y + 2 * MaxText
      BY <3>4, <3>5
    <3>. QED
      BY <3>3, <3>6 DEF x, y
  <2>2. CASE ~Messages(c, k)
    <3>1. r[k][c][m] = Leaf(c, m)
      BY <2>2, LenDelimDef
    <3>. HIDE DEF r
    <3>. QED
      BY <3>1, LeafBounded
  <2>. QED
    BY <2>1, <2>2
<1>2. Nat \subseteq S
  <2>. HIDE DEF S
  <2>. QED
    BY <1>1, Induction
<1>. QED
  BY <1>2

\* SameChunk, without its recursion.
LEMMA SameChunkDef ==
    ASSUME NEW had, NEW m, NEW depth \in Nat, NEW b \in Bytes
    PROVE  SameChunk(had, m)[depth][b] =
              IF Messages(b, depth) THEN {c \in Bytes : SameMessage(b, c, {}, SameChunk(had, m)[depth - 1], m)}
              ELSE Substitutes(b, ChunkKinds, had, m)
<1>. DEFINE V(g, n, x) == IF Messages(x, n) THEN {c \in Bytes : SameMessage(x, c, {}, g[n - 1], m)}
                          ELSE Substitutes(x, ChunkKinds, had, m)
            E(g) == [n \in Nat |-> [x \in Bytes |-> V(g, n, x)]]
            Leaves(x) == Substitutes(x, ChunkKinds, had, m)
            U == SUBSET (Bytes \cup UNION {Leaves(x) : x \in Bytes})
            Deep(x) == Len(x) > 2 /\ protobufWireConsumesFully(x)
            W(h, x) == IF Deep(x) THEN {c \in Bytes : SameMessage(x, c, {}, h, m)} ELSE Leaves(x)
            F(h) == [x \in Bytes |-> W(h, x)]
            first == [x \in Bytes |-> Leaves(x)]
            S == Maps(Bytes, U)
            step == [h \in S |-> F(h)]
<1>1. first \in S
  <2>. HIDE DEF Leaves
  <2>. QED
    BY DEF Maps
<1>2. ASSUME NEW h PROVE F(h) \in S
  <2>1. \A x \in Bytes : W(h, x) \in U
    <3>. HIDE DEF Leaves, Deep
    <3>. QED
      OBVIOUS
  <2>. HIDE DEF W, U
  <2>. QED
    BY <2>1 DEF Maps
<1>3. PICK f \in Maps(Nat, S) : f[0] = first /\ \A n \in Nat : f[n + 1] = step[f[n]]
  <2>1. step \in Maps(S, S)
    <3>. HIDE DEF F, S
    <3>. QED
      BY <1>2 DEF Maps
  <2>. HIDE DEF first, step, S
  <2>. QED
    BY <1>1, <2>1, PrimitiveRecursion
<1>4. ASSUME NEW g, NEW x
      PROVE  /\ V(g, 0, x) = Leaves(x)
             /\ \A n \in Nat : V(g, n + 1, x) = W(g[n], x)
  <2>1. ~Messages(x, 0)
    BY DEF Messages
  <2>2. ASSUME NEW n \in Nat PROVE V(g, n + 1, x) = W(g[n], x)
    <3>1. n + 1 > 0 /\ (n + 1) - 1 = n
      OBVIOUS
    <3>2. Messages(x, n + 1) <=> Deep(x)
      BY <3>1 DEF Messages
    <3>. HIDE DEF Deep
    <3>3. CASE Deep(x)
      BY <3>1, <3>2, <3>3
    <3>4. CASE ~Deep(x)
      BY <3>1, <3>2, <3>4
    <3>. QED
      BY <3>3, <3>4
  <2>. QED
    BY <2>1, <2>2
<1>. HIDE DEF W, Deep, Leaves
<1>5. ASSUME NEW g
      PROVE  /\ E(g)[0] = first
             /\ \A n \in Nat : E(g)[n + 1] = F(g[n])
  <2>. HIDE DEF V
  <2>1. \A n \in Nat : E(g)[n] = [x \in Bytes |-> V(g, n, x)]
    OBVIOUS
  <2>. HIDE DEF E
  <2>2. E(g)[0] = first
    BY <1>4, <2>1
  <2>3. ASSUME NEW n \in Nat PROVE E(g)[n + 1] = F(g[n])
    <3>1. n + 1 \in Nat
      OBVIOUS
    <3>2. E(g)[n + 1] = [x \in Bytes |-> V(g, n + 1, x)]
      BY <2>1, <3>1
    <3>3. \A x : V(g, n + 1, x) = W(g[n], x)
      BY <1>4
    <3>. QED
      BY <3>2, <3>3
  <2>. QED
    BY <2>2, <2>3
<1>6. \A n \in Nat : n = 0 \/ (n - 1 \in Nat /\ n = (n - 1) + 1)
  OBVIOUS
<1>7. f = E(f)
  <2>1. \A n \in Nat : f[n] = E(f)[n]
    <3>1. \A n \in Nat : f[n + 1] = F(f[n])
      <4>. HIDE DEF F, S
      <4>. QED
        BY <1>3 DEF Maps
    <3>. HIDE DEF E, F, first
    <3>. QED
      BY <1>3, <1>5, <1>6, <3>1
  <2>. DEFINE D(n) == [x \in Bytes |-> V(f, n, x)]
  <2>2. E(f) = [n \in Nat |-> D(n)]
    OBVIOUS
  <2>. HIDE DEF E, D, S
  <2>. QED
    BY <1>3, <2>1, <2>2 DEF Maps
<1>8. SameChunk(had, m) = E(SameChunk(had, m))
  <2>1. \E g : g = E(g)
    BY <1>7
  <2>. QED
    BY <2>1, Zenon DEF SameChunk
<1>. HIDE DEF V
<1>9. SameChunk(had, m)[depth][b] = V(SameChunk(had, m), depth, b)
  BY <1>8
<1>. QED
  BY <1>9 DEF V

(***************************************************************************)
(* Messages say what they said                                               *)
(***************************************************************************)
\* What a rewriting of chunks makes, with registries from had to n, is in same.
Follows(inner, same, had, n, size) ==
    \A c \in Bytes, o \in Registries :
        Growth * Len(c) <= size /\ had \subseteq o.tunnels /\ Later(inner[c][o].m, n)
            => inner[c][o].out \in same[c]

\* Less of the same.
LEMMA ProductsBelow ==
    ASSUME NEW x \in Nat, NEW y \in Nat, x <= y, NEW size \in Nat, Growth * y <= size
    PROVE  Growth * x <= size
<1>. DEFINE p == Growth * x
            q == Growth * y
<1>1. p \in Nat /\ q \in Nat /\ p <= q /\ q <= size
  BY Products
<1>. HIDE DEF p, q
<1>2. p <= size
  BY <1>1
<1>. QED
  BY <1>2 DEF p

\* A field says the same, if its chunk does.
LEMMA FieldKeepsMeaning ==
    ASSUME NEW k \in Nat, NEW f \in FieldSet, IsField(f, k), NEW size \in Nat, Growth * k <= size,
           NEW inner, NEW same, NEW had, NEW m \in Registries, had \subseteq m.tunnels, NEW n,
           Follows(inner, same, had, n, size),
           NEW split \in SUBSET GameAddrs, \A a, b \in split : a = b,
           NEW lobby, lobby = split \ n.refused, NEW g, Becomes(f, g, lobby, inner, m, n)
    PROVE  SameField(f, g, split, same, n)
<1>1. PICK o \in Managers :
        LET new == NewData(f, lobby, inner, o)
        IN  /\ Later(m, o) /\ Later(new.m, n)
            /\ g.tag = f.tag /\ g.num = f.num /\ g.wt = f.wt /\ g.data = new.out
            /\ g.wt = 0 => g.value = ValueOf[g.data]
            /\ g.wt = 2 => g.chunk = LenDelim(f, lobby, inner, o).out
  BY DEF Becomes
<1>2. o \in Registries /\ had \subseteq o.tunnels
  BY <1>1, LaterProperties DEF Later
<1>3. ASSUME f.wt # 2
      PROVE  g.data = f.data \/ \E a \in split : f.num = 1 /\ g.value = UDPClientPort[a]
  <2>1. NewData(f, lobby, inner, o) = [out |-> PortField(f, lobby, o), m |-> o]
    BY <1>3 DEF NewData, Answer
  <2>2. g.data = PortField(f, lobby, o)
    <3>1. NewData(f, lobby, inner, o).out = PortField(f, lobby, o)
      BY <2>1
    <3>. QED
      BY <1>1, <3>1
  <2>3. CASE \E a \in lobby : /\ f.num = 1 /\ f.wt = 0 /\ ClientPort(a, o) > 0
                              /\ PortField(f, lobby, o) = Varint[UDPClientPort[a]]
    <3>1. PICK a \in lobby : /\ f.num = 1 /\ f.wt = 0 /\ ClientPort(a, o) > 0
                             /\ PortField(f, lobby, o) = Varint[UDPClientPort[a]]
      BY <2>3
    <3>2. a \in split /\ a \in GameAddrs
      OBVIOUS
    <3>3. g.value = UDPClientPort[a]
      BY <1>1, <2>2, <3>1, <3>2, LobbyPort
    <3>. QED
      BY <3>1, <3>2, <3>3
  <2>. QED
    BY <2>2, <2>3, PortFieldCases
<1>4. ASSUME f.wt = 2
      PROVE  IF f.num = 2 /\ \E a \in split \ n.refused : TrimRight(f.chunk) = IpText[a[1]]
             THEN g.chunk = IpText[ProxyIP]
             ELSE g.chunk \in same[f.chunk]
  <2>1. g.chunk = LenDelim(f, lobby, inner, o).out
    BY <1>1, <1>4
  <2>2. Later(LenDelim(f, lobby, inner, o).m, n)
    <3>1. NewData(f, lobby, inner, o) = [out |-> WithLen(LenDelim(f, lobby, inner, o).out),
                                         m |-> LenDelim(f, lobby, inner, o).m]
      BY <1>4 DEF NewData, Answer
    <3>2. NewData(f, lobby, inner, o).m = LenDelim(f, lobby, inner, o).m
      <4>1. ASSUME NEW q, NEW x, NEW y, q = [out |-> x, m |-> y] PROVE q.m = y
        BY <4>1
      <4>. QED
        BY <3>1, <4>1
    <3>. QED
      BY <1>1, <3>2
  <2>3. (\E a \in split \ n.refused : TrimRight(f.chunk) = IpText[a[1]])
            <=> lobby # {} /\ TrimRight(f.chunk) = IpText[The(lobby)[1]]
    BY TheProperties
  <2>4. CASE f.num = 2 /\ \E a \in split \ n.refused : TrimRight(f.chunk) = IpText[a[1]]
    <3>1. LenDelim(f, lobby, inner, o) = [out |-> IpText[ProxyIP], m |-> o]
      BY <2>3, <2>4 DEF LenDelim, Answer
    <3>2. LenDelim(f, lobby, inner, o).out = IpText[ProxyIP]
      BY <3>1
    <3>. QED
      BY <2>1, <2>4, <3>2
  <2>5. CASE ~(f.num = 2 /\ \E a \in split \ n.refused : TrimRight(f.chunk) = IpText[a[1]])
    <3>1. LenDelim(f, lobby, inner, o) = inner[f.chunk][o]
      BY <2>3, <2>5 DEF LenDelim
    <3>2. f.chunk \in Bytes /\ Growth * Len(f.chunk) <= size
      <4>. DEFINE x == Len(f.chunk)
                  d == Len(f.data)
                  t == Len(f.tag)
      <4>1. f.chunk \in Bytes /\ x \in Nat /\ d \in Nat /\ t \in Nat /\ x + 1 <= d
        BY <1>4, ChunkWithin
      <4>2. t + d <= k
        BY DEF IsField
      <4>. HIDE DEF x, d, t
      <4>3. x <= k
        BY <4>1, <4>2
      <4>. QED
        BY <4>1, <4>3, ProductsBelow DEF x
    <3>3. inner[f.chunk][o].out \in same[f.chunk]
      BY <1>2, <2>2, <3>1, <3>2 DEF Follows
    <3>. QED
      BY <2>1, <2>5, <3>1, <3>3
  <2>. QED
    BY <2>4, <2>5
<1>. QED
  BY <1>1, <1>3, <1>4 DEF SameField

\* So does a message.
LEMMA MessageKeepsMeaning ==
    ASSUME NEW b \in Bytes, NEW size \in Nat, Growth * Len(b) <= size,
           NEW inner, NEW same, NEW had, NEW m \in Registries, had \subseteq m.tunnels, NEW n,
           Follows(inner, same, had, n, size),
           NEW split \in SUBSET GameAddrs, \A a, a2 \in split : a = a2,
           NEW lobby, lobby = split \ n.refused, NEW c, Rewrites(b, c, lobby, inner, m, n)
    PROVE  SameMessage(b, c, split, same, n)
<1>1. ASSUME NEW i \in DOMAIN Fields(b)
      PROVE  SameField(Fields(b)[i], Fields(c)[i], split, same, n)
  <2>1. IsField(Fields(b)[i], Len(b)) /\ Len(b) \in Nat
    BY FieldsAreFields, BytesAreNumbers
  <2>2. Fields(b)[i] \in FieldSet
    BY FieldsDef, LenProperties, ElementOfSeq
  <2>3. Becomes(Fields(b)[i], Fields(c)[i], lobby, inner, m, n)
    BY DEF Rewrites
  <2>. QED
    BY <2>1, <2>2, <2>3, FieldKeepsMeaning
<1>. QED
  BY <1>1 DEF SameMessage, Rewrites

\* So does a chunk, at any depth.
LEMMA ChunkKeepsMeaning ==
    ASSUME NEW size \in Lengths, NEW had, NEW n, NEW depth \in Nat
    PROVE  Follows(rewriteProtobufLenDelim[depth], SameChunk(had, n)[depth], had, n, size)
<1>. DEFINE r == rewriteProtobufLenDelim
            S == {k \in Nat : Follows(r[k], SameChunk(had, n)[k], had, n, size)}
<1>1. ASSUME NEW k \in Nat, \A l \in 0 .. k - 1 : l \in S PROVE k \in S
  <2>. SUFFICES ASSUME NEW c \in Bytes, NEW o \in Registries, Growth * Len(c) <= size,
                       had \subseteq o.tunnels, Later(r[k][c][o].m, n)
                PROVE  r[k][c][o].out \in SameChunk(had, n)[k][c]
    BY DEF Follows
  <2>0. o \in Managers /\ size \in Nat /\ Fits(size)
    BY LaterProperties DEF Lengths
  <2>1. CASE Messages(c, k)
    <3>1. k - 1 \in Nat /\ k - 1 \in 0 .. k - 1
      BY <2>1 DEF Messages
    <3>. DEFINE inner == r[k - 1]
                same == SameChunk(had, n)[k - 1]
                new == Message(inner, {})[c][o]
    <3>2. inner \in Growing /\ Bounded(inner, size) /\ Follows(inner, same, had, n, size)
      BY <1>1, <3>1, LenDelimDef, LenDelimBounded
    <3>3. r[k][c][o] = new
      BY <2>0, <2>1, LenDelimDef
    <3>4. SameChunk(had, n)[k][c] = {d \in Bytes : SameMessage(c, d, {}, same, n)}
      BY <2>1, SameChunkDef
    <3>5. Later(new.m, n)
      BY <3>3
    <3>. HIDE DEF inner, same, r
    <3>6. new.out \in Bytes /\ Rewrites(c, new.out, {}, inner, o, n)
      <4>1. {} \in SUBSET GameAddrs
        OBVIOUS
      <4>. QED
        BY <2>0, <3>2, <3>5, <4>1, MessageRewritten
    <3>. HIDE DEF new
    <3>7. SameMessage(c, new.out, {}, same, n)
      <4>1. \A split : split = {} => split \in SUBSET GameAddrs /\ (\A a, a2 \in split : a = a2) /\ {} = split \ n.refused
        OBVIOUS
      <4>. QED
        BY <2>0, <3>2, <3>6, <4>1, MessageKeepsMeaning
    <3>. QED
      BY <3>3, <3>4, <3>6, <3>7
  <2>2. CASE ~Messages(c, k)
    <3>1. r[k][c][o] = Leaf(c, o)
      BY <2>0, <2>2, LenDelimDef
    <3>2. SameChunk(had, n)[k][c] = Substitutes(c, ChunkKinds, had, n)
      BY <2>2, SameChunkDef
    <3>. HIDE DEF r
    <3>. QED
      BY <3>1, <3>2, LeafSubstitute
  <2>. QED
    BY <2>1, <2>2
<1>2. Nat \subseteq S
  <2>. HIDE DEF S
  <2>. QED
    BY <1>1, Induction
<1>. QED
  BY <1>2

\* The parts of a split address make up one.
LEMMA LastOfUnique ==
    ASSUME NEW fs, NEW num, NEW wt, NEW f \in LastOf(fs, num, wt), NEW g \in LastOf(fs, num, wt),
           NEW n \in Nat, DOMAIN fs = 1 .. n
    PROVE  f = g
<1>. DEFINE hits == {i \in DOMAIN fs : fs[i].num = num /\ fs[i].wt = wt}
<1>1. PICK i \in hits : f = fs[i] /\ \A k \in hits : k <= i
  BY DEF LastOf
<1>2. PICK j \in hits : g = fs[j] /\ \A k \in hits : k <= j
  BY DEF LastOf
<1>3. i \in Nat /\ j \in Nat
  OBVIOUS
<1>4. i <= j /\ j <= i
  BY <1>1, <1>2
<1>5. i = j
  BY <1>3, <1>4
<1>. QED
  BY <1>1, <1>2, <1>5

\* A message has one lobby address at most.
LEMMA SplitUnique ==
    ASSUME NEW b \in Bytes
    PROVE  /\ parseLobbyProtobufContext(b) \in SUBSET GameAddrs
           /\ \A a, c \in parseLobbyProtobufContext(b) : a = c
<1>1. ASSUME NEW a \in parseLobbyProtobufContext(b), NEW c \in parseLobbyProtobufContext(b)
      PROVE  a = c
  <2>1. Len(Fields(b)) \in Nat /\ DOMAIN Fields(b) = 1 .. Len(Fields(b))
    BY FieldsDef, LenProperties
  <2>2. PICK f \in LastOf(Fields(b), 1, 0), g \in LastOf(Fields(b), 2, 2) :
           f.value = a[2] /\ TrimRight(g.chunk) = IpText[a[1]]
    BY DEF parseLobbyProtobufContext
  <2>3. PICK p \in LastOf(Fields(b), 1, 0), q \in LastOf(Fields(b), 2, 2) :
           p.value = c[2] /\ TrimRight(q.chunk) = IpText[c[1]]
    BY DEF parseLobbyProtobufContext
  <2>4. f = p /\ g = q
    BY <2>1, LastOfUnique
  <2>5. a \in Addrs /\ c \in Addrs /\ a[1] \in IPs /\ c[1] \in IPs
    BY DEF parseLobbyProtobufContext, GameAddrs, Foreign, IPs
  <2>6. a[1] = c[1] /\ a[2] = c[2]
    BY <2>2, <2>3, <2>4, <2>5, TextsDiffer
  <2>7. Text(a) = Text(c)
    BY <2>6 DEF Text
  <2>. QED
    BY <2>5, <2>7, TextsDiffer
<1>. QED
  BY <1>1 DEF parseLobbyProtobufContext

\* A beginning in two parts.
LEMMA SplitTake ==
    ASSUME NEW S, NEW b \in Seq(S), NEW n \in 0 .. Len(b), NEW m \in 0 .. n
    PROVE  SubSeq(b, 1, n) = SubSeq(b, 1, m) \o SubSeq(b, m + 1, n)
<1>. DEFINE c == Take(b, n)
<1>1. c \in Seq(S) /\ Len(c) = n /\ \A i \in 1 .. n : c[i] = b[i]
  BY TakeProperties
<1>2. Len(b) \in Nat /\ n \in Nat /\ m \in Nat
  OBVIOUS
<1>. HIDE DEF c
<1>3. Take(c, m) \o Drop(c, m) = c
  BY <1>1, TakeThenDrop
<1>4. Take(c, m) = Take(b, m)
  <2>1. /\ Take(c, m) \in Seq(S) /\ Len(Take(c, m)) = m
        /\ \A i \in 1 .. m : Take(c, m)[i] = c[i]
    BY <1>1, TakeProperties
  <2>2. /\ Take(b, m) \in Seq(S) /\ Len(Take(b, m)) = m
        /\ \A i \in 1 .. m : Take(b, m)[i] = b[i]
    <3>1. m \in 0 .. Len(b)
      BY <1>2
    <3>. QED
      BY <3>1, TakeProperties
  <2>3. \A i \in 1 .. m : i \in 1 .. n
    BY <1>2
  <2>. HIDE DEF Take
  <2>. QED
    BY <1>1, <2>1, <2>2, <2>3, SeqEqual
<1>5. Drop(c, m) = SubSeq(b, m + 1, n)
  <2>1. /\ Drop(c, m) \in Seq(S) /\ Len(Drop(c, m)) = n - m
        /\ \A i \in 1 .. n - m : Drop(c, m)[i] = c[m + i]
    BY <1>1, DropProperties
  <2>2. /\ SubSeq(b, m + 1, n) \in Seq(S) /\ Len(SubSeq(b, m + 1, n)) = n - m
        /\ \A i \in 1 .. n - m : SubSeq(b, m + 1, n)[i] = b[m + i]
    BY <1>2, SubSeqProperties
  <2>3. \A i \in 1 .. n - m : m + i \in 1 .. n
    BY <1>2
  <2>. DEFINE x == Drop(c, m)
              y == SubSeq(b, m + 1, n)
  <2>. HIDE DEF x, y
  <2>. QED
    BY <1>1, <2>1, <2>2, <2>3, SeqEqual DEF x, y
<1>. QED
  BY <1>3, <1>4, <1>5 DEF c, Take

\* Bytes without a URL are left as they are.
LEMMA NoURLs ==
    ASSUME NEW b \in Bytes, \A a \in Foreign : ~Occurs(URLText(a), b), NEW m \in Managers
    PROVE  rewriteHTTPURLBytes[b][m].out = b
<1>. DEFINE W == rewriteHTTPURLBytes
            None(c) == \A a \in Foreign : ~Occurs(URLText(a), c)
            T == {c \in Bytes : None(c) => \A o \in Managers : W[c][o].out = c}
<1>1. ASSUME NEW c \in Seq(Byte), \A d \in Seq(Byte) : Len(d) < Len(c) => d \in T
      PROVE  c \in T
  <2>. SUFFICES ASSUME None(c), NEW o \in Managers PROVE W[c][o].out = c
    BY DEF Bytes
  <2>1. c \in Bytes /\ Len(c) \in Nat /\ DOMAIN c = 1 .. Len(c)
    BY BytesAreNumbers, LenProperties DEF Bytes
  <2>2. CASE c = <<>>
    <3>1. W[c][o] = [out |-> c, m |-> o]
      BY <2>1, <2>2, HTTPURLBytesDef DEF Answer
    <3>. HIDE DEF W
    <3>. QED
      BY <3>1
  <2>3. CASE c # <<>>
    <3>. DEFINE host == URLHost(c)
                n == URLEnd(c)
                d == Drop(c, n)
                r == NewURL(c, o)
                more == W[d][r.m]
    <3>1. /\ host \in 1 .. Len(c) /\ host \in Nat /\ n \in host .. Len(c) /\ n \in 1 .. Len(c)
          /\ host \in 0 .. Len(c) /\ n \in 0 .. Len(c) /\ n \in Nat /\ host <= n
      BY <2>1, <2>3, URLRange
    <3>2. d \in Seq(Byte) /\ Len(d) = Len(c) - n /\ \A i \in 1 .. Len(c) - n : d[i] = c[n + i]
      BY <3>1, DropProperties
    <3>3. URLOf(c) \cap Foreign = {}
      <4>. SUFFICES ASSUME NEW a \in Foreign, IsPrefix(URLText(a), c) PROVE FALSE
        BY DEF URLOf, Matches
      <4>1. 1 \in DOMAIN c /\ Drop(c, 1 - 1) = c
        <5>1. 1 \in DOMAIN c
          BY <2>1, <3>1
        <5>2. SubSeq(c, 1, Len(c)) = c
          BY SubSeqFull
        <5>. QED
          BY <5>1, <5>2 DEF Drop
      <4>2. Occurs(URLText(a), c)
        BY <4>1 DEF Occurs
      <4>. QED
        BY <4>2
    <3>4. r = [out |-> Take(c, host) \o SubSeq(c, host + 1, n), m |-> EnsureTunnels({}, o)]
      <4>1. Answered({}, o) = {}
        BY DEF Answered
      <4>. QED
        BY <3>3, <4>1 DEF NewURL, Answer, Replaced
    <3>5. Take(c, host) \o SubSeq(c, host + 1, n) = Take(c, n)
      <4>1. SubSeq(c, 1, n) = SubSeq(c, 1, host) \o SubSeq(c, host + 1, n)
        <5>. HIDE DEF host, n
        <5>. QED
          BY <3>1, SplitTake
      <4>. QED
        BY <4>1 DEF Take
    <3>. HIDE DEF host, n
    <3>6. r.out = Take(c, n) /\ r \in Answers /\ r.m \in Managers
      <4>1. r.out = Take(c, host) \o SubSeq(c, host + 1, n)
        <5>1. ASSUME NEW q, NEW x, NEW y, q = [out |-> x, m |-> y] PROVE q.out = x
          BY <5>1
        <5>. HIDE DEF r
        <5>. QED
          BY <3>4, <5>1
      <4>2. r \in Answers
        BY <2>1, <2>3, NewURLTyped
      <4>. QED
        BY <3>5, <4>1, <4>2 DEF Answers
    <3>. HIDE DEF r
    <3>7. None(d)
      <4>. SUFFICES ASSUME NEW a \in Foreign, Occurs(URLText(a), d) PROVE FALSE
        OBVIOUS
      <4>. HIDE DEF d
      <4>1. PICK i \in DOMAIN d : IsPrefix(URLText(a), Drop(d, i - 1))
        BY DEF Occurs
      <4>2. i \in 1 .. Len(c) - n
        BY <3>2, LenProperties
      <4>3. n + i \in DOMAIN c /\ i - 1 \in 0 .. Len(c) - n /\ (n + i) - 1 = n + (i - 1)
        BY <2>1, <3>1, <4>2
      <4>4. Drop(d, i - 1) = Drop(c, n + (i - 1))
        BY <3>1, <4>3, DropOfDrop DEF d
      <4>5. Occurs(URLText(a), c)
        BY <4>1, <4>3, <4>4 DEF Occurs
      <4>. QED
        BY <4>5
    <3>8. Len(d) < Len(c)
      <4>. HIDE DEF d
      <4>. QED
        BY <2>1, <3>1, <3>2
    <3>. HIDE DEF d, None
    <3>9. more.out = d
      <4>1. d \in T
        BY <1>1, <3>2, <3>8
      <4>. QED
        BY <3>6, <3>7, <4>1
    <3>10. W[c][o] = After(r.out, more)
      BY <2>1, <2>3, HTTPURLBytesDef DEF r, d, n
    <3>11. W[c][o].out = r.out \o more.out
      <4>1. more \in Answers
        BY <2>1, <3>2, <3>6, HTTPURLBytesDef DEF Bytes, Growing, Rewritings, Maps
      <4>2. r.out \in Bytes
        BY <3>6 DEF Answers
      <4>. HIDE DEF W, more
      <4>3. After(r.out, more).out = r.out \o more.out
        BY <4>1, <4>2, AfterTyped
      <4>. QED
        BY <3>10, <4>3
    <3>12. Take(c, n) \o d = c
      BY <3>1, TakeThenDrop DEF d
    <3>. HIDE DEF W, more
    <3>. QED
      BY <3>6, <3>9, <3>11, <3>12
  <2>. QED
    BY <2>2, <2>3
<1>2. Seq(Byte) \subseteq T
  <2>. HIDE DEF T
  <2>. QED
    BY <1>1, InductionOnLength
<1>. QED
  BY <1>2 DEF Bytes

\* What is known of a message when it has been rewritten.
MessageWalked(split, lobby, inner, m) ==
    /\ split = parseLobbyProtobufContext(frame.body) /\ lobby = split \ refused
    /\ inner = rewriteProtobufLenDelim[MaxDepth]
    /\ m = EnsureTunnels(split, Found)
    /\ Walked = Message(inner, lobby)[frame.body][m]
    /\ split \in SUBSET GameAddrs /\ lobby \in SUBSET GameAddrs
    /\ m \in Registries /\ m \in Managers /\ before \subseteq m.tunnels /\ Later(m, Manager)
    /\ \A a \in lobby : a \in m.tunnels
    /\ inner \in Growing

\* A message has been walked with its own lobby address, if there is a tunnel for it.
LEMMA WalkedMessage ==
    ASSUME IInv, pc = "write", IsMessage
    PROVE  \E split, lobby, inner, m : MessageWalked(split, lobby, inner, m)
<1>. DEFINE b == frame.body
            split == parseLobbyProtobufContext(b)
            m == EnsureTunnels(split, Found)
            inner == rewriteProtobufLenDelim[MaxDepth]
            lobby == split \ refused
<1>1. /\ b \in Bytes /\ Found \in Registries /\ Found \in Managers /\ Found.tunnels = before
      /\ Found.refused = refused
      /\ Later(Walked.m, Manager) /\ Walked.m \in Managers /\ Manager \in Managers
  BY Afterwards, LaterProperties
<1>2. split \in SUBSET GameAddrs /\ split \in SUBSET Foreign
  BY SplitUnique, <1>1 DEF GameAddrs
<1>3. inner \in Growing
  BY PortsAssumption, LenDelimDef
<1>. HIDE DEF split, inner
<1>4. m \in Managers /\ Later(Found, m) /\ m.tunnels = before \cup (split \ refused)
  BY <1>1, <1>2, EnsureTunnelsProperties
<1>5. split \cap m.tunnels = lobby
  <2>1. Found.tunnels \cap Found.refused = {}
    BY <1>1 DEF Registries
  <2>. QED
    BY <1>1, <1>4, <2>1
<1>6. Walked = Message(inner, lobby)[b][m]
  BY <1>5 DEF Walked, Walk, IsMessage, tryRewriteProtobuf, split, inner
<1>. HIDE DEF m
<1>7. m \in Registries
  BY <1>1, <1>4, LaterProperties
<1>8. Later(m, Manager)
  <2>1. Message(inner, lobby) \in Growing
    BY <1>2, <1>3, MessageDef
  <2>2. Later(m, Walked.m)
    BY <1>1, <1>4, <1>6, <2>1, GrowingTyped
  <2>. QED
    BY <1>1, <1>4, <2>2, LaterProperties
<1>9. MessageWalked(split, lobby, inner, m)
  <2>1. lobby \in SUBSET GameAddrs
    BY <1>2
  <2>2. \A a \in lobby : a \in m.tunnels
    BY <1>4
  <2>3. before \subseteq m.tunnels
    BY <1>4
  <2>. QED
    BY <1>2, <1>3, <1>4, <1>6, <1>7, <1>8, <2>1, <2>2, <2>3 DEF MessageWalked, m, split, inner
<1>. QED
  BY <1>9

\* It has been rewritten field for field.
LEMMA MessageIsRewritten ==
    ASSUME IInv, pc = "write", IsMessage, NEW split, NEW lobby, NEW inner, NEW m,
           MessageWalked(split, lobby, inner, m)
    PROVE  /\ Growth * Len(frame.body) \in Lengths
           /\ Rewrites(frame.body, walked.body, lobby, inner, m, Manager)
<1>. DEFINE b == frame.body
            size == Growth * Len(b)
            c == Message(inner, lobby)[b][m].out
<1>1. /\ b \in Bytes /\ b \in Bodies /\ walked.body = Walked.out /\ Later(Walked.m, Manager)
  BY Afterwards DEF FrameRead
<1>2. size \in Nat
  <2>1. \A x \in Nat : Growth * x \in Nat
    BY GrowthTyped
  <2>. QED
    BY <1>1, <2>1, BytesAreNumbers
<1>3. Fits(size)
  BY <1>1, BodiesAssumption
<1>. HIDE DEF size
<1>4. size \in Lengths /\ size <= size
  BY <1>2, <1>3 DEF Lengths
<1>5. MaxDepth \in Nat /\ inner = rewriteProtobufLenDelim[MaxDepth]
  BY PortsAssumption DEF MessageWalked
<1>6. Bounded(inner, size)
  BY <1>4, <1>5, LenDelimBounded
<1>7. /\ lobby \in SUBSET GameAddrs /\ m \in Managers /\ inner \in Growing
      /\ Walked = Message(inner, lobby)[b][m]
  BY DEF MessageWalked
<1>8. Later(Message(inner, lobby)[b][m].m, Manager)
  BY <1>1, <1>7
<1>9. Growth * Len(b) <= size
  BY <1>4 DEF size
<1>10. Rewrites(b, c, lobby, inner, m, Manager)
  BY <1>1, <1>2, <1>3, <1>6, <1>7, <1>8, <1>9, MessageRewritten
<1>11. walked.body = c
  BY <1>1, <1>7
<1>. QED
  BY <1>4, <1>10, <1>11 DEF size

\* The walk keeps the meaning, and the search for URLs has nothing to do without any.
LEMMA MeaningKeptHolds == IInv => MeaningKept
<1>. SUFFICES ASSUME IInv, pc = "write", IsMessage PROVE MeaningKept
  BY DEF MeaningKept
<1>. DEFINE b == frame.body
            c == walked.body
            size == Growth * Len(b)
<1>1. /\ b \in Bytes /\ Walked.out \in Bytes /\ Walked.m \in Managers
      /\ walked.body = Walked.out /\ walked.total = TotalAfter(frame, Walked.out)
      /\ sent.body = Searched.out /\ sent.total = TotalAfter(frame, Walked.out)
      /\ Manager.refused = refused /\ Rewritten
  BY Afterwards, LaterProperties DEF Answers, IInv
<1>2. walked.total = HeaderLen + Len(walked.body)
  BY <1>1 DEF TotalAfter, IsMessage
<1>3. PICK split, lobby, inner, m : MessageWalked(split, lobby, inner, m)
  BY WalkedMessage
<1>4. size \in Lengths /\ size \in Nat /\ size <= size /\ Rewrites(b, c, lobby, inner, m, Manager)
  BY <1>3, MessageIsRewritten DEF Lengths
<1>5. SaysTheSame(b, c, before, Manager)
  <2>. DEFINE same == SameChunk(before, Manager)[MaxDepth]
  <2>1. /\ split = parseLobbyProtobufContext(b) /\ lobby = split \ Manager.refused
        /\ inner = rewriteProtobufLenDelim[MaxDepth] /\ MaxDepth \in Nat
        /\ m \in Registries /\ before \subseteq m.tunnels
    BY <1>1, <1>3, PortsAssumption DEF MessageWalked
  <2>2. split \in SUBSET GameAddrs /\ \A a, a2 \in split : a = a2
    BY <1>1, <2>1, SplitUnique
  <2>3. Follows(inner, same, before, Manager, size)
    <3>. HIDE DEF size
    <3>. QED
      BY <1>4, <2>1, ChunkKeepsMeaning
  <2>. HIDE DEF same
  <2>4. SameMessage(b, c, split, same, Manager)
    <3>1. Growth * Len(b) <= size
      BY <1>4
    <3>. HIDE DEF size
    <3>. QED
      BY <1>1, <1>4, <2>1, <2>2, <2>3, <3>1, MessageKeepsMeaning
  <2>. QED
    BY <2>1, <2>4 DEF SaysTheSame, same
<1>6. ASSUME \A a \in Foreign : ~Occurs(URLText(a), walked.body) PROVE sent = walked
  <2>1. Searched.out = Walked.out
    BY <1>1, <1>6, NoURLs DEF Searched
  <2>. QED
    BY <1>1, <2>1 DEF Rewritten
<1>. QED
  BY <1>2, <1>5, <1>6 DEF MeaningKept

\* A rewritten message declares its length and says what it said, with the addresses
\* in it replaced (tryRewriteProtobuf, rewriteProtobufLenDelim).
THEOREM MeaningIsKept == Spec => []MeaningKept
BY MeaningKeptHolds, Invariance, PTL

(***************************************************************************)
(* Split addresses stay together                                             *)
(***************************************************************************)
\* A text that names no address, and a host without a leg, are left as they are.
LEMMA NothingFound ==
    ASSUME NEW v \in Bytes, NEW m \in Managers, ~IsPrefix(Http, v), NamedBy(v) = {},
           \A x \in m.tunnels : x[1] \in HostsIn(v) => ClientPort(x, m) = 0
    PROVE  Leaf(v, m).out = v
<1>. DEFINE near == UNION {tunnelForRemoteIP(ip, m) : ip \in HostsIn(v)}
<1>1. near = {}
  <2>1. near = {x \in m.tunnels : x[1] \in HostsIn(v) /\ ClientPort(x, m) > 0}
    BY LegsProperties
  <2>2. ~(0 > 0)
    OBVIOUS
  <2>. HIDE DEF near
  <2>. QED
    BY <2>1, <2>2
<1>2. Answered({}, m) = {}
  BY DEF Answered
<1>3. ASSUME NEW tag, tag = 18 PROVE rewriteIPAddress(v, tag, m) = [out |-> v, m |-> Ranged(EnsureTunnels({}, m))]
  <2>1. tag # 12
    BY <1>3
  <2>2. rewriteIPAddress(v, tag, m) = IPAnswer(v, tag, m, {}, HostsIn(v))
    BY RewriteIPTyped
  <2>3. UNION {tunnelForRemoteIP(ip, m) : ip \in HostsIn(v)} = {}
    BY <1>1
  <2>. QED
    BY <1>2, <2>1, <2>2, <2>3 DEF IPAnswer, Answer
<1>4. Leaf(v, m) = [out |-> v, m |-> Ranged(EnsureTunnels({}, m))]
  BY <1>3 DEF Leaf
<1>. QED
  BY <1>4

\* Nothing becomes nothing.
LEMMA NothingLeft ==
    ASSUME NEW depth \in Nat, NEW m \in Managers
    PROVE  rewriteProtobufLenDelim[depth][<<>>][m].out = <<>>
<1>1. <<>> \in Bytes /\ Len(<<>>) = 0
  BY EmptyBytes
<1>2. ~Messages(<<>>, depth)
  BY <1>1 DEF Messages
<1>3. rewriteProtobufLenDelim[depth][<<>>][m] = Leaf(<<>>, m)
  BY <1>1, <1>2, LenDelimDef
<1>4. TrimRight(<<>>) = <<>>
  <2>1. TrimRight(<<>>) \in Bytes /\ Len(TrimRight(<<>>)) <= 0
    BY <1>1, TrimProperties
  <2>2. Len(TrimRight(<<>>)) = 0
    BY <2>1, BytesAreNumbers
  <2>. QED
    BY <2>1, <2>2, EmptySeq DEF Bytes
<1>5. ~IsPrefix(Http, <<>>)
  <2>1. Len(Http) > 0 /\ Http \in Bytes /\ Len(Http) \in Nat
    BY TextsTyped, BytesAreNumbers
  <2>2. ~(Len(Http) <= 0)
    BY <2>1
  <2>. QED
    BY <1>1, <2>1, <2>2, PrefixProperties
<1>6. NamedBy(<<>>) = {}
  <2>. SUFFICES ASSUME NEW a \in GameAddrs, Text(a) = <<>> PROVE FALSE
    BY <1>4 DEF NamedBy
  <2>1. a \in Addrs /\ a[1] \in IPs /\ a[2] \in Ports
    BY DEF GameAddrs, Foreign, IPs, Ports
  <2>2. IpText[a[1]] \in Seq(Byte) /\ PortText[a[2]] \in Seq(Byte) /\ Colon \in Byte
    BY <2>1, TextsAssumption, TextsTyped, UnpaddedProperties DEF Bytes
  <2>3. <<Colon>> \in Seq(Byte) /\ Len(<<Colon>>) = 1
    BY <2>2
  <2>4. IpText[a[1]] \o <<Colon>> \in Seq(Byte) /\ Len(IpText[a[1]] \o <<Colon>>) = Len(IpText[a[1]]) + 1
    BY <2>2, <2>3, ConcatProperties
  <2>. DEFINE x == IpText[a[1]] \o <<Colon>>
              y == PortText[a[2]]
  <2>. HIDE DEF x, y
  <2>5. x \in Seq(Byte) /\ y \in Seq(Byte) /\ Len(x) = Len(IpText[a[1]]) + 1 /\ Len(IpText[a[1]]) \in Nat
        /\ Len(y) \in Nat
    BY <2>2, <2>4, BytesAreNumbers DEF x, y, Bytes
  <2>6. Len(x \o y) = Len(x) + Len(y)
    BY <2>5, ConcatProperties
  <2>7. Text(a) = x \o y
    BY DEF Text, HostText, x, y
  <2>. DEFINE k == Len(IpText[a[1]])
              l == Len(y)
  <2>8. Len(Text(a)) = k + 1 + l /\ k \in Nat /\ l \in Nat
    BY <2>5, <2>6, <2>7
  <2>. HIDE DEF k, l
  <2>9. Len(Text(a)) # 0
    BY <2>8
  <2>. QED
    BY <1>1, <2>9
<1>7. HostsIn(<<>>) = {}
  BY <1>4, TextsAssumption DEF HostsIn
<1>8. Leaf(<<>>, m).out = <<>>
  BY <1>1, <1>5, <1>6, <1>7, NothingFound
<1>. QED
  BY <1>3, <1>8

\* A message whose chunks are empty.
Empty(c) == \A i \in DOMAIN Fields(c) : Fields(c)[i].wt = 2 => Fields(c)[i].data = <<0>>

\* A field with an empty chunk, or none, is written as it was.
LEMMA EmptyField ==
    ASSUME NEW b \in Bytes, Field(b).ok, Field(b).wt = 2 => Field(b).data = << 0 >>,
           NEW inner, \A o \in Managers : inner[<<>>][o].out = <<>>, NEW m \in Managers
    PROVE  NewData(Field(b), {}, inner, m).out = Field(b).data
<1>. DEFINE f == Field(b)
<1>1. CASE f.wt # 2
  <2>1. PortField(f, {}, m) = f.data
    BY DEF PortField
  <2>2. NewData(f, {}, inner, m) = [out |-> f.data, m |-> m]
    BY <1>1, <2>1 DEF NewData, Answer
  <2>. HIDE DEF f
  <2>. QED
    BY <2>2 DEF f
<1>2. CASE f.wt = 2
  <2>0. f.data = <<0>> /\ Len(<<0>>) = 1
    BY <1>2
  <2>. DEFINE n == Len(f.tag) + Len(f.data)
  <2>1. IsField(f, n) /\ n \in Nat /\ f.chunk \in Bytes
    <3>1. /\ Consumable(f.tag) /\ IsData(f.wt, f.data) /\ Says(f, f.tag, f.data)
          /\ f.tag \in Bytes /\ f.data \in Bytes /\ f.chunk \in Bytes
      BY FieldThatIs
    <3>2. Len(f.tag) \in Nat /\ Len(f.data) \in Nat
      BY <3>1, BytesAreNumbers
    <3>3. n \in Nat /\ n <= n
      <4>1. \A x, y \in Nat : x + y \in Nat /\ x + y <= x + y
        OBVIOUS
      <4>. HIDE DEF f
      <4>. QED
        BY <3>2, <4>1
    <3>. HIDE DEF f
    <3>. QED
      BY <3>1, <3>3 DEF IsField
  <2>. HIDE DEF f, n
  <2>2. Len(f.chunk) + 1 <= Len(f.data) /\ Len(f.chunk) \in Nat
    BY <1>2, <2>1, ChunkWithin
  <2>3. Len(f.chunk) = 0
    BY <2>0, <2>2
  <2>4. f.chunk = <<>>
    BY <2>1, <2>3, EmptySeq DEF Bytes
  <2>5. LenDelim(f, {}, inner, m).out = <<>>
    <3>1. LenDelim(f, {}, inner, m) = inner[f.chunk][m]
      BY DEF LenDelim
    <3>. QED
      BY <2>4, <3>1
  <2>6. NewData(f, {}, inner, m).out = WithLen(LenDelim(f, {}, inner, m).out)
    <3>1. NewData(f, {}, inner, m) = [out |-> WithLen(LenDelim(f, {}, inner, m).out),
                                      m |-> LenDelim(f, {}, inner, m).m]
      BY <1>2 DEF NewData, Answer
    <3>2. ASSUME NEW q, NEW x, NEW y, q = [out |-> x, m |-> y] PROVE q.out = x
      BY <3>2
    <3>. QED
      BY <3>1, <3>2
  <2>7. WithLen(<<>>) = <<0>>
    <3>1. 0 < Cont /\ Len(<<>>) = 0
      BY WidthsAssumption
    <3>2. Varint[0] = <<0>>
      <4>1. ASSUME NEW z \in Nat, z = 0 PROVE Varint[z] = <<z>>
        BY <3>1, <4>1, VarintDef
      <4>. QED
        BY <4>1
    <3>3. <<0>> \o <<>> = <<0>>
      OBVIOUS
    <3>. QED
      BY <3>1, <3>2, <3>3 DEF WithLen, appendProtobufVarint
  <2>. QED
    BY <2>0, <2>5, <2>6, <2>7 DEF f
<1>. QED
  BY <1>1, <1>2

\* A message of such fields is left as it is.
LEMMA EmptyMessageKept ==
    ASSUME NEW inner \in Growing, \A o \in Managers : inner[<<>>][o].out = <<>>,
           NEW b \in Bytes, Empty(b), protobufWireConsumesFully(b), NEW m \in Managers
    PROVE  Message(inner, {})[b][m].out = b
<1>. DEFINE W == Message(inner, {})
            T == {c \in Bytes : Empty(c) /\ protobufWireConsumesFully(c) => \A o \in Managers : W[c][o].out = c}
<1>1. {} \in SUBSET GameAddrs
  OBVIOUS
<1>2. ASSUME NEW c \in Seq(Byte), \A d \in Seq(Byte) : Len(d) < Len(c) => d \in T
      PROVE  c \in T
  <2>. SUFFICES ASSUME Empty(c), protobufWireConsumesFully(c), NEW o \in Managers PROVE W[c][o].out = c
    BY DEF Bytes
  <2>1. c \in Bytes
    BY DEF Bytes
  <2>2. CASE ~Field(c).ok
    <3>1. c = <<>>
      BY <2>1, <2>2, FieldsDef
    <3>2. W[c][o] = [out |-> <<>>, m |-> o]
      BY <1>1, <2>1, <2>2, MessageDef DEF Answer
    <3>. HIDE DEF W
    <3>3. W[c][o].out = <<>>
      BY <3>2
    <3>. QED
      BY <3>1, <3>3
  <2>3. CASE Field(c).ok
    <3>. DEFINE f == Field(c)
                new == NewData(f, {}, inner, o)
                d == Drop(c, f.size)
                more == W[d][new.m]
    <3>1. /\ f \in FieldSet /\ f.tag \in Bytes /\ f.data \in Bytes /\ d \in Bytes /\ Len(d) < Len(c)
          /\ c = f.tag \o f.data \o d
      BY <2>1, <2>3, FieldProperties, FieldThatIs
    <3>2. /\ Fields(c) \in Seq(FieldSet) /\ Len(Fields(c)) = Len(Fields(d)) + 1 /\ Fields(c)[1] = f
          /\ Fields(d) \in Seq(FieldSet)
          /\ \A i \in 1 .. Len(Fields(d)) : Fields(c)[i + 1] = Fields(d)[i]
          /\ protobufWireConsumesFully(d)
      BY <2>1, <2>3, <3>1, FieldsDef
    <3>3. new \in Answers /\ new.m \in Managers
      BY <1>1, <3>1, NewDataTyped DEF Answers
    <3>. HIDE DEF d
    <3>4. W[c][o] = After(f.tag \o new.out, more)
      <4>1. NewField(c, {}, inner, o) = [out |-> f.tag \o new.out, m |-> new.m]
        BY DEF NewField, Answer
      <4>2. W[c][o] = After(NewField(c, {}, inner, o).out, W[d][NewField(c, {}, inner, o).m])
        BY <1>1, <2>1, <2>3, MessageDef DEF d
      <4>4. NewField(c, {}, inner, o).out = f.tag \o new.out /\ NewField(c, {}, inner, o).m = new.m
        <5>. DEFINE r == NewField(c, {}, inner, o)
                    u == f.tag \o new.out
                    v == new.m
        <5>1. r = [out |-> u, m |-> v]
          BY <4>1
        <5>. HIDE DEF r, u, v
        <5>2. r.out = u /\ r.m = v
          BY <5>1
        <5>. QED
          BY <5>2 DEF r, u, v
      <4>. HIDE DEF f, new, W
      <4>. QED
        BY <4>2, <4>4
    <3>5. 1 \in DOMAIN Fields(c) /\ \A i \in DOMAIN Fields(d) : i + 1 \in DOMAIN Fields(c)
      <4>. DEFINE k == Len(Fields(d))
      <4>1. k \in Nat /\ DOMAIN Fields(d) = 1 .. k /\ DOMAIN Fields(c) = 1 .. k + 1
        BY <3>2, LenProperties
      <4>. HIDE DEF k
      <4>. QED
        BY <4>1
    <3>6. DOMAIN Fields(d) = 1 .. Len(Fields(d))
      BY <3>2, LenProperties
    <3>7. Empty(d) /\ (f.wt = 2 => f.data = <<0>>)
      <4>. HIDE DEF f
      <4>. QED
        BY <3>2, <3>5, <3>6 DEF Empty
    <3>8. new.out = f.data
      BY <2>1, <2>3, <3>7, EmptyField
    <3>. HIDE DEF new
    <3>9. d \in T
      BY <1>2, <3>1 DEF Bytes
    <3>10. more.out = d
      BY <3>2, <3>3, <3>7, <3>9
    <3>11. more \in Answers
      BY <1>1, <3>1, <3>3, MessageDef, GrowingTyped
    <3>. HIDE DEF more, W, f
    <3>12. f.tag \o f.data \in Bytes
      <4>1. f.tag \in Seq(Byte) /\ f.data \in Seq(Byte)
        BY <3>1 DEF Bytes
      <4>. QED
        BY <4>1, ConcatProperties DEF Bytes
    <3>13. W[c][o].out = (f.tag \o f.data) \o more.out
      <4>1. After(f.tag \o f.data, more).out = (f.tag \o f.data) \o more.out
        BY <3>11, <3>12, AfterTyped
      <4>. QED
        BY <3>4, <3>8, <4>1
    <3>14. W[c][o].out = f.tag \o f.data \o d
      BY <3>10, <3>13
    <3>. QED
      BY <3>1, <3>14
  <2>. QED
    BY <2>2, <2>3
<1>3. Seq(Byte) \subseteq T
  <2>. HIDE DEF T
  <2>. QED
    BY <1>2, InductionOnLength
<1>. QED
  BY <1>3 DEF Bytes

\* The legs that there are to a host.
LegsTo(ip, m) == {x \in m.tunnels : x[1] = ip /\ ClientPort(x, m) > 0}

\* The host of a split address that is refused is kept, or answered from another leg.
RefusedHost(chunk, out, ip, depth, m) ==
    \/ out = chunk /\ (Messages(chunk, depth) \/ LegsTo(ip, m) = {})
    \/ \E x \in LegsTo(ip, m) : out = ProxyText(ClientPort(x, m))

\* What the host of a split address that is refused becomes.
LEMMA RefusedHostKept ==
    ASSUME NEW a \in GameAddrs, NEW chunk \in Bytes, TrimRight(chunk) = IpText[a[1]], Empty(chunk),
           NEW m \in Registries, NEW depth \in Nat
    PROVE  RefusedHost(chunk, rewriteProtobufLenDelim[depth][chunk][m].out, a[1], depth, m)
<1>0. m \in Managers
  BY LaterProperties
<1>1. CASE Messages(chunk, depth)
  <2>1. depth - 1 \in Nat
    BY <1>1 DEF Messages
  <2>. DEFINE inner == rewriteProtobufLenDelim[depth - 1]
  <2>2. inner \in Growing /\ \A o \in Managers : inner[<<>>][o].out = <<>>
    BY <2>1, LenDelimDef, NothingLeft
  <2>3. rewriteProtobufLenDelim[depth][chunk][m] = Message(inner, {})[chunk][m]
    BY <1>0, <1>1, LenDelimDef
  <2>4. protobufWireConsumesFully(chunk)
    BY <1>1 DEF Messages
  <2>. HIDE DEF inner
  <2>5. rewriteProtobufLenDelim[depth][chunk][m].out = chunk
    BY <1>0, <2>2, <2>3, <2>4, EmptyMessageKept
  <2>. QED
    BY <1>1, <2>5 DEF RefusedHost
<1>2. CASE ~Messages(chunk, depth)
  <2>1. rewriteProtobufLenDelim[depth][chunk][m] = Leaf(chunk, m)
    BY <1>0, <1>2, LenDelimDef
  <2>2. a \in Addrs /\ a \in Foreign /\ a[1] \in IPs /\ a[1] # ProxyIP
    BY DEF GameAddrs, Foreign, IPs
  <2>3. ~IsPrefix(Http, chunk)
    <3>1. ~IsPrefix(Http, IpText[a[1]])
      BY <2>2, TextsDiffer
    <3>. QED
      BY <3>1, TrimKeepsPrefix, TextsTyped
  <2>4. NamedBy(chunk) = {}
    BY <2>2, TextsDiffer DEF NamedBy, GameAddrs, Foreign
  <2>5. HostsIn(chunk) = {a[1]}
    BY <2>2, TextsDiffer DEF HostsIn
  <2>. DEFINE near == UNION {tunnelForRemoteIP(ip, m) : ip \in HostsIn(chunk)}
  <2>6. near = LegsTo(a[1], m) /\ near \subseteq Addrs
    BY <1>0, <2>5, LegsProperties DEF LegsTo
  <2>7. CASE near = {}
    <3>1. \A x \in m.tunnels : x[1] \in HostsIn(chunk) => ClientPort(x, m) = 0
      <4>. SUFFICES ASSUME NEW x \in m.tunnels, x[1] \in HostsIn(chunk) PROVE ClientPort(x, m) = 0
        OBVIOUS
      <4>1. x \in Addrs
        BY DEF Registries, Foreign
      <4>2. ClientPort(x, m) \in Nat
        BY <1>0, <4>1, PortsTyped
      <4>3. ~(ClientPort(x, m) > 0)
        BY <2>5, <2>6, <2>7 DEF LegsTo
      <4>. QED
        BY <4>2, <4>3
    <3>2. Leaf(chunk, m).out = chunk
      BY <1>0, <2>3, <2>4, <3>1, NothingFound
    <3>. QED
      BY <2>1, <2>6, <2>7, <3>2 DEF RefusedHost
  <2>8. CASE near # {}
    <3>. DEFINE x == LastMet(near, m)
    <3>1. x \in near
      <4>. HIDE DEF near
      <4>. QED
        BY <1>0, <2>6, <2>8, RangedProperties
    <3>2. Answered({}, m) = {}
      BY DEF Answered
    <3>3. ASSUME NEW tag, tag = 18
          PROVE  rewriteIPAddress(chunk, tag, m).out = ProxyText(ClientPort(x, m))
      <4>1. rewriteIPAddress(chunk, tag, m) = IPAnswer(chunk, tag, m, {}, HostsIn(chunk))
        BY <1>0, <2>4, RewriteIPTyped
      <4>2. tag # 12
        BY <3>3
      <4>3. IPAnswer(chunk, tag, m, {}, HostsIn(chunk)) =
              [out |-> ProxyText(ClientPort(x, m)), m |-> Ranged(EnsureTunnels({}, m))]
        BY <2>8, <3>2, <4>2 DEF IPAnswer, Answer
      <4>. QED
        BY <4>1, <4>3
    <3>. HIDE DEF x
    <3>4. Leaf(chunk, m) = rewriteIPAddress(chunk, 18, m)
      BY <2>3 DEF Leaf
    <3>5. Leaf(chunk, m).out = ProxyText(ClientPort(x, m))
      BY <3>3, <3>4
    <3>. QED
      BY <2>1, <2>6, <3>1, <3>5 DEF RefusedHost
  <2>. QED
    BY <2>7, <2>8
<1>. QED
  BY <1>1, <1>2

\* The last field of a number and a type becomes the last one.
LEMMA LastRewritten ==
    ASSUME NEW b \in Bytes, NEW c \in Bytes, NEW lobby, NEW inner, NEW m, NEW n,
           Rewrites(b, c, lobby, inner, m, n), NEW num, NEW wt, NEW f \in LastOf(Fields(b), num, wt)
    PROVE  /\ f \in FieldSet /\ IsField(f, Len(b)) /\ f.num = num /\ f.wt = wt
           /\ \E g \in LastOf(Fields(c), num, wt) : Becomes(f, g, lobby, inner, m, n)
<1>. DEFINE fs == Fields(b)
            gs == Fields(c)
            k == Len(fs)
<1>1. /\ k \in Nat /\ DOMAIN fs = 1 .. k /\ DOMAIN gs = 1 .. k
      /\ fs \in Seq(FieldSet)
  <2>1. fs \in Seq(FieldSet) /\ gs \in Seq(FieldSet) /\ Len(gs) = k
    BY FieldsDef DEF Rewrites
  <2>. QED
    BY <2>1, LenProperties
<1>2. \A i \in 1 .. k : Becomes(fs[i], gs[i], lobby, inner, m, n)
  BY <1>1 DEF Rewrites
<1>3. \A i \in 1 .. k : gs[i].num = fs[i].num /\ gs[i].wt = fs[i].wt
  BY <1>2 DEF Becomes
<1>4. \A i \in 1 .. k : IsField(fs[i], Len(b)) /\ fs[i] \in FieldSet
  BY <1>1, FieldsAreFields, ElementOfSeq
<1>. HIDE DEF fs, gs, k
<1>5. PICK i \in 1 .. k : /\ f = fs[i] /\ fs[i].num = num /\ fs[i].wt = wt
                          /\ \A j \in 1 .. k : fs[j].num = num /\ fs[j].wt = wt => j <= i
  BY <1>1 DEF LastOf, fs
<1>6. gs[i] \in LastOf(gs, num, wt)
  BY <1>1, <1>3, <1>5 DEF LastOf
<1>. QED
  BY <1>2, <1>4, <1>5, <1>6 DEF gs

\* What the port and the host of a split address become.
LEMMA PortRewritten ==
    ASSUME NEW f \in FieldSet, NEW k, IsField(f, k), f.num = 1, f.wt = 0,
           NEW g, NEW lobby \in SUBSET GameAddrs, NEW inner, NEW m, NEW n, Becomes(f, g, lobby, inner, m, n)
    PROVE  /\ lobby = {} => g.value = f.value
           /\ \A a \in lobby : lobby = {a} /\ a \notin m.closed => g.value = UDPClientPort[a]
<1>1. PICK o \in Managers :
        LET new == NewData(f, lobby, inner, o)
        IN  /\ Later(m, o) /\ g.data = new.out
            /\ g.wt = f.wt /\ (g.wt = 0 => g.value = ValueOf[g.data])
  BY DEF Becomes
<1>2. g.data = PortField(f, lobby, o)
  <2>1. NewData(f, lobby, inner, o) = [out |-> PortField(f, lobby, o), m |-> o]
    BY DEF NewData, Answer
  <2>2. NewData(f, lobby, inner, o).out = PortField(f, lobby, o)
    BY <2>1
  <2>. QED
    BY <1>1, <2>2
<1>3. g.value = ValueOf[g.data]
  BY <1>1
<1>4. ASSUME lobby = {} PROVE g.value = f.value
  <2>1. f.value = ValueOf[f.data]
    BY DEF IsField, Says
  <2>. QED
    BY <1>2, <1>3, <1>4, <2>1 DEF PortField
<1>5. ASSUME NEW a \in lobby, lobby = {a}, a \notin m.closed PROVE g.value = UDPClientPort[a]
  <2>1. o.closed = m.closed
    BY <1>1 DEF Later
  <2>2. ClientPort(a, o) = UDPClientPort[a]
    BY <1>5, <2>1 DEF ClientPort
  <2>3. ClientPort(a, o) > 0
    <3>1. UDPClientPort[a] > 0
      BY PortsAssumption
    <3>. QED
      BY <2>2, <3>1
  <2>4. The(lobby) = a /\ lobby # {}
    BY <1>5, TheProperties
  <2>5. g.data = Varint[UDPClientPort[a]]
    BY <1>2, <2>2, <2>3, <2>4 DEF PortField, appendProtobufVarint
  <2>. QED
    BY <1>3, <2>3, <2>5, LobbyPort
<1>. QED
  BY <1>4, <1>5

\* The host becomes the proxy's if the port is answered; if it is refused it is
\* answered from the legs there are at its turn.
LEMMA HostRewritten ==
    ASSUME NEW a \in GameAddrs, NEW f \in FieldSet, f.num = 2, f.wt = 2, TrimRight(f.chunk) = IpText[a[1]],
           Empty(f.chunk), NEW g, NEW lobby \in SUBSET {a}, NEW inner, NEW m \in Registries, NEW n,
           Becomes(f, g, lobby, inner, m, n), NEW depth \in Nat, inner = rewriteProtobufLenDelim[depth]
    PROVE  /\ lobby = {a} => g.chunk = IpText[ProxyIP]
           /\ lobby = {} => \E o \in Registries : /\ Later(m, o) /\ Later(o, n)
                                                 /\ RefusedHost(f.chunk, g.chunk, a[1], depth, o)
<1>1. PICK o \in Managers :
        /\ Later(m, o) /\ Later(NewData(f, lobby, inner, o).m, n) /\ g.wt = f.wt
        /\ g.wt = 2 => g.chunk = LenDelim(f, lobby, inner, o).out
  BY DEF Becomes
<1>2. g.chunk = LenDelim(f, lobby, inner, o).out /\ f.chunk \in Bytes
  BY <1>1 DEF FieldSet
<1>3. ASSUME lobby = {a} PROVE g.chunk = IpText[ProxyIP]
  <2>1. The(lobby) = a /\ lobby # {}
    BY <1>3, TheProperties
  <2>2. LenDelim(f, lobby, inner, o) = [out |-> IpText[ProxyIP], m |-> o]
    BY <2>1 DEF LenDelim, Answer
  <2>. QED
    BY <1>2, <2>2
<1>4. ASSUME lobby = {} PROVE \E x \in Registries : /\ Later(m, x) /\ Later(x, n)
                                                   /\ RefusedHost(f.chunk, g.chunk, a[1], depth, x)
  <2>1. o \in Registries
    BY <1>1, LaterProperties
  <2>2. LenDelim(f, lobby, inner, o) = inner[f.chunk][o]
    BY <1>4 DEF LenDelim
  <2>3. RefusedHost(f.chunk, inner[f.chunk][o].out, a[1], depth, o)
    BY <1>2, <2>1, RefusedHostKept
  <2>4. Later(o, n)
    <3>1. NewData(f, lobby, inner, o).m = inner[f.chunk][o].m
      BY <2>2 DEF NewData, Answer
    <3>2. inner[f.chunk][o] \in Answers /\ Later(o, inner[f.chunk][o].m)
      BY <1>2, LenDelimDef DEF Growing, Rewritings, Maps
    <3>. QED
      BY <1>1, <3>1, <3>2, LaterProperties DEF Answers, Later
  <2>. QED
    BY <1>1, <1>2, <2>1, <2>2, <2>3, <2>4
<1>. QED
  BY <1>3, <1>4

\* Port and host are the last fields of their kind before and after.
LEMMA SplitTogetherHolds == IInv => SplitTogether
<1>. DEFINE legs(ip, L) == {x \in L \ closed : x[1] = ip /\ UDPClientPort[x] > 0}
<1>. SUFFICES ASSUME IInv, pc = "write", NEW a \in parseLobbyProtobufContext(frame.body)
              PROVE  \E port \in LastOf(Fields(walked.body), 1, 0), ip \in LastOf(Fields(walked.body), 2, 2) :
                        /\ a \notin refused => ip.chunk = IpText[ProxyIP]
                        /\ a \notin refused \cup closed => port.value = UDPClientPort[a]
                        /\ a \in refused =>
                              /\ port.value = a[2]
                              /\ \/ /\ TrimRight(ip.chunk) = IpText[a[1]]
                                    /\ legs(a[1], before) = {} \/ Messages(ip.chunk, MaxDepth)
                                 \/ \E x \in legs(a[1], tunnels) : ip.chunk = ProxyText(UDPClientPort[x])
  BY DEF SplitTogether
<1>. HIDE DEF legs
<1>. DEFINE b == frame.body
            c == walked.body
<1>1. /\ b \in Bytes /\ b \in Bodies /\ c \in Bytes
      /\ Manager.refused = refused /\ Manager.closed = closed /\ TypeOK
  BY Afterwards DEF FrameRead, TypeOK
<1>2. IsMessage /\ a \in GameAddrs
  BY DEF parseLobbyProtobufContext, IsMessage
<1>3. PICK split, lobby, inner, m : MessageWalked(split, lobby, inner, m)
  BY <1>2, WalkedMessage
<1>4. Rewrites(b, c, lobby, inner, m, Manager)
  BY <1>2, <1>3, MessageIsRewritten
<1>5. /\ split = parseLobbyProtobufContext(b) /\ lobby = split \ refused
      /\ inner = rewriteProtobufLenDelim[MaxDepth] /\ MaxDepth \in Nat
      /\ m \in Registries /\ m.refused = refused /\ m.closed = closed /\ before \subseteq m.tunnels
  <2>1. Later(m, Manager) /\ m \in Registries /\ before \subseteq m.tunnels
    BY <1>3 DEF MessageWalked
  <2>2. m.refused = refused /\ m.closed = closed
    BY <1>1, <2>1 DEF Later
  <2>. QED
    BY <1>3, <2>1, <2>2, PortsAssumption DEF MessageWalked
<1>6. split = {a}
  BY <1>1, <1>5, SplitUnique
<1>7. PICK p \in LastOf(Fields(b), 1, 0), h \in LastOf(Fields(b), 2, 2) :
        p.value = a[2] /\ TrimRight(h.chunk) = IpText[a[1]]
  BY DEF parseLobbyProtobufContext
<1>8. /\ p \in FieldSet /\ IsField(p, Len(b)) /\ p.num = 1 /\ p.wt = 0
      /\ \E g \in LastOf(Fields(c), 1, 0) : Becomes(p, g, lobby, inner, m, Manager)
  BY <1>1, <1>4, LastRewritten
<1>9. /\ h \in FieldSet /\ h.num = 2 /\ h.wt = 2
      /\ \E g \in LastOf(Fields(c), 2, 2) : Becomes(h, g, lobby, inner, m, Manager)
  BY <1>1, <1>4, LastRewritten
<1>10. PICK port \in LastOf(Fields(c), 1, 0), ip \in LastOf(Fields(c), 2, 2) :
         Becomes(p, port, lobby, inner, m, Manager) /\ Becomes(h, ip, lobby, inner, m, Manager)
  BY <1>8, <1>9
<1>11. Empty(h.chunk)
  BY <1>1, <1>2, <1>7, BodiesAssumption DEF Empty
<1>12. lobby \in SUBSET GameAddrs /\ lobby \in SUBSET {a}
  BY <1>2, <1>5, <1>6
<1>13. /\ lobby = {} => port.value = p.value
       /\ \A x \in lobby : lobby = {x} /\ x \notin m.closed => port.value = UDPClientPort[x]
  BY <1>8, <1>10, <1>12, PortRewritten
<1>14. /\ lobby = {a} => ip.chunk = IpText[ProxyIP]
       /\ lobby = {} => \E o \in Registries : /\ Later(m, o) /\ Later(o, Manager)
                                              /\ RefusedHost(h.chunk, ip.chunk, a[1], MaxDepth, o)
  BY <1>2, <1>5, <1>7, <1>9, <1>10, <1>11, <1>12, HostRewritten
<1>15. CASE a \in refused
  <2>1. lobby = {}
    BY <1>5, <1>6, <1>15
  <2>2. port.value = a[2]
    BY <1>7, <1>13, <2>1
  <2>3. PICK o \in Registries : /\ Later(m, o) /\ Later(o, Manager)
                                /\ RefusedHost(h.chunk, ip.chunk, a[1], MaxDepth, o)
    BY <1>14, <2>1
  <2>4. before \subseteq o.tunnels /\ o.tunnels \subseteq tunnels /\ o.closed = closed
    BY <1>1, <1>5, <2>3 DEF Later, Manager
  <2>5. ASSUME NEW x \in Addrs
        PROVE  /\ ClientPort(x, o) > 0 <=> x \notin closed /\ UDPClientPort[x] > 0
               /\ x \notin closed => ClientPort(x, o) = UDPClientPort[x]
    <3>1. ~(0 > 0)
      OBVIOUS
    <3>. QED
      BY <2>4, <3>1 DEF ClientPort
  <2>6. o.tunnels \subseteq Addrs /\ before \subseteq Addrs /\ tunnels \subseteq Addrs
    BY <1>1 DEF Registries, Foreign, TypeOK
  <2>7. CASE ip.chunk = h.chunk /\ (Messages(h.chunk, MaxDepth) \/ LegsTo(a[1], o) = {})
    <3>1. legs(a[1], before) \subseteq LegsTo(a[1], o)
      BY <2>4, <2>5, <2>6 DEF legs, LegsTo
    <3>2. TrimRight(ip.chunk) = IpText[a[1]]
      BY <1>7, <2>7
    <3>. QED
      BY <1>15, <2>2, <2>7, <3>1, <3>2
  <2>8. CASE \E x \in LegsTo(a[1], o) : ip.chunk = ProxyText(ClientPort(x, o))
    <3>1. PICK x \in LegsTo(a[1], o) : ip.chunk = ProxyText(ClientPort(x, o))
      BY <2>8
    <3>2. x \in legs(a[1], tunnels) /\ ClientPort(x, o) = UDPClientPort[x]
      BY <2>4, <2>5, <2>6 DEF legs, LegsTo
    <3>. QED
      BY <1>15, <2>2, <3>1, <3>2
  <2>. QED
    BY <2>3, <2>7, <2>8 DEF RefusedHost
<1>16. CASE a \notin refused
  <2>1. lobby = {a}
    BY <1>5, <1>6, <1>16
  <2>2. ip.chunk = IpText[ProxyIP] /\ (a \notin closed => port.value = UDPClientPort[a])
    BY <1>5, <1>13, <1>14, <2>1
  <2>. QED
    BY <1>16, <2>2
<1>. QED
  BY <1>15, <1>16

\* The host and the port of a split lobby address are replaced together; a refused one
\* keeps its port, and its host unless another leg answers for it
\* (parseLobbyProtobufContext, tryRewriteProtobuf).
THEOREM SplitStaysTogether == Spec => []SplitTogether
BY SplitTogetherHolds, Invariance, PTL

(***************************************************************************)
(* Tunnels are made for what the frame names                                 *)
(***************************************************************************)
\* c is a part of b, at i.
At(c, b, i) == Len(c) <= Len(b) - i /\ \A j \in 1 .. Len(c) : c[j] = b[i + j]
Within(c, b) == \E i \in 0 .. Len(b) : At(c, b, i)

\* Occurs, byte by byte.
LEMMA OccursAt ==
    ASSUME NEW x \in Bytes, NEW b \in Bytes
    PROVE  Occurs(x, b) <=> \E i \in 0 .. Len(b) - 1 : At(x, b, i)
<1>. DEFINE n == Len(b)
            k == Len(x)
<1>1. n \in Nat /\ k \in Nat /\ DOMAIN b = 1 .. n
  BY BytesAreNumbers, LenProperties DEF Bytes
<1>2. ASSUME NEW i \in 0 .. n - 1
      PROVE  IsPrefix(x, Drop(b, i)) <=> At(x, b, i)
  <2>1. i \in 0 .. n
    BY <1>1
  <2>2. Drop(b, i) \in Bytes /\ Len(Drop(b, i)) = n - i /\ \A j \in 1 .. n - i : Drop(b, i)[j] = b[i + j]
    BY <2>1, DropProperties DEF Bytes
  <2>. HIDE DEF n, k
  <2>3. IsPrefix(x, Drop(b, i)) <=> k <= n - i /\ \A j \in 1 .. k : x[j] = Drop(b, i)[j]
    BY <2>2, PrefixProperties DEF k
  <2>4. ASSUME k <= n - i, NEW j \in 1 .. k PROVE Drop(b, i)[j] = b[i + j]
    <3>1. j \in 1 .. n - i
      BY <1>1, <2>1, <2>4
    <3>. QED
      BY <2>2, <3>1
  <2>5. At(x, b, i) <=> k <= n - i /\ \A j \in 1 .. k : x[j] = b[i + j]
    BY DEF At, k, n
  <2>. QED
    BY <2>3, <2>4, <2>5
<1>3. ASSUME NEW i \in 1 .. n PROVE i - 1 \in 0 .. n - 1
  BY <1>1, <1>3
<1>4. ASSUME NEW i \in 0 .. n - 1 PROVE i + 1 \in 1 .. n /\ (i + 1) - 1 = i
  BY <1>1, <1>4
<1>5. Occurs(x, b) <=> \E i \in 1 .. n : IsPrefix(x, Drop(b, i - 1))
  BY <1>1 DEF Occurs
<1>. HIDE DEF n, k
<1>6. (\E i \in 1 .. n : IsPrefix(x, Drop(b, i - 1))) => \E i \in 0 .. n - 1 : At(x, b, i)
  BY <1>2, <1>3
<1>7. (\E i \in 0 .. n - 1 : At(x, b, i)) => \E i \in 1 .. n : IsPrefix(x, Drop(b, i - 1))
  BY <1>2, <1>4
<1>. QED
  BY <1>5, <1>6, <1>7 DEF n

\* What occurs in a part of b occurs in b.
LEMMA OccursWithin ==
    ASSUME NEW x \in Bytes, NEW c \in Bytes, NEW b \in Bytes, Occurs(x, c), Within(c, b)
    PROVE  Occurs(x, b)
<1>1. Len(x) \in Nat /\ Len(c) \in Nat /\ Len(b) \in Nat
  BY BytesAreNumbers
<1>2. PICK i \in 0 .. Len(c) - 1 : At(x, c, i)
  BY OccursAt
<1>3. PICK k \in 0 .. Len(b) : At(c, b, k)
  BY DEF Within
<1>4. k + i \in 0 .. Len(b) - 1
  BY <1>1, <1>2, <1>3 DEF At
<1>5. Len(x) <= Len(b) - (k + i)
  BY <1>1, <1>2, <1>3 DEF At
<1>6. ASSUME NEW j \in 1 .. Len(x) PROVE x[j] = b[(k + i) + j]
  <2>1. i + j \in 1 .. Len(c) /\ k + (i + j) = (k + i) + j
    BY <1>1, <1>2, <1>3 DEF At
  <2>2. x[j] = c[i + j]
    BY <1>2 DEF At
  <2>3. c[i + j] = b[k + (i + j)]
    BY <1>3, <2>1 DEF At
  <2>. QED
    BY <2>1, <2>2, <2>3
<1>7. At(x, b, k + i)
  BY <1>5, <1>6 DEF At
<1>. QED
  BY <1>4, <1>7, OccursAt

\* What begins something occurs in it.
LEMMA PrefixOccurs ==
    ASSUME NEW x \in Bytes, NEW b \in Bytes, IsPrefix(x, b), x # <<>>
    PROVE  Occurs(x, b)
<1>1. Len(x) \in Nat /\ Len(b) \in Nat /\ Len(x) # 0
  <2>1. x \in Seq(Byte)
    BY DEF Bytes
  <2>. QED
    BY <2>1, BytesAreNumbers, EmptySeq
<1>2. Len(x) <= Len(b) /\ \A i \in 1 .. Len(x) : x[i] = b[i]
  BY PrefixProperties
<1>3. 0 \in 0 .. Len(b) - 1
  BY <1>1, <1>2
<1>4. At(x, b, 0)
  BY <1>1, <1>2 DEF At
<1>. QED
  BY <1>3, <1>4, OccursAt

\* What is left of b is a part of it.
LEMMA DropWithin ==
    ASSUME NEW b \in Bytes, NEW n \in 0 .. Len(b)
    PROVE  Within(Drop(b, n), b)
<1>1. Len(Drop(b, n)) = Len(b) - n /\ \A i \in 1 .. Len(b) - n : Drop(b, n)[i] = b[n + i]
  BY DropProperties DEF Bytes
<1>2. Len(b) \in Nat
  BY BytesAreNumbers
<1>3. At(Drop(b, n), b, n)
  BY <1>1, <1>2 DEF At
<1>. QED
  BY <1>3 DEF Within

\* So is what is between two places.
LEMMA SubSeqWithin ==
    ASSUME NEW b \in Bytes, NEW m \in Nat, NEW n \in m .. Len(b)
    PROVE  SubSeq(b, m + 1, n) \in Bytes /\ Within(SubSeq(b, m + 1, n), b)
<1>. DEFINE c == SubSeq(b, m + 1, n)
<1>1. Len(b) \in Nat
  BY BytesAreNumbers
<1>2. n \in 0 .. Len(b) /\ m \in 0 .. Len(b)
  BY <1>1
<1>3. c \in Bytes
  BY <1>2, SubSeqOfBytes
<1>4. Len(c) = n - m /\ \A i \in 1 .. n - m : c[i] = b[m + i]
  <2>1. b \in Seq(Byte) /\ m + 1 \in Int /\ n \in Int /\ \A i \in m + 1 .. n : b[i] \in Byte
    <3>1. \A i \in m + 1 .. n : i \in 1 .. Len(b)
      BY <1>1
    <3>. QED
      BY <1>1, <3>1, BytesAreNumbers DEF Bytes
  <2>. QED
    BY <1>1, <2>1
<1>5. At(c, b, m)
  <2>. HIDE DEF c
  <2>. QED
    BY <1>1, <1>4 DEF At
<1>. QED
  BY <1>2, <1>3, <1>5 DEF Within

\* So is each of several things put together.
LEMMA ConcatWithin ==
    ASSUME NEW x \in Bytes, NEW y \in Bytes, NEW z \in Bytes
    PROVE  x \o y \o z \in Bytes /\ Within(y, x \o y \o z)
<1>. DEFINE xy == x \o y
            b == xy \o z
<1>1. Len(x) \in Nat /\ Len(y) \in Nat /\ Len(z) \in Nat /\ x \in Seq(Byte) /\ y \in Seq(Byte) /\ z \in Seq(Byte)
  BY BytesAreNumbers DEF Bytes
<1>2. /\ xy \in Seq(Byte) /\ Len(xy) = Len(x) + Len(y)
      /\ \A i \in 1 .. Len(x) + Len(y) : xy[i] = IF i <= Len(x) THEN x[i] ELSE y[i - Len(x)]
  BY <1>1, ConcatProperties
<1>. HIDE DEF xy
<1>3. /\ b \in Seq(Byte) /\ Len(b) = Len(xy) + Len(z)
      /\ \A i \in 1 .. Len(xy) + Len(z) : b[i] = IF i <= Len(xy) THEN xy[i] ELSE z[i - Len(xy)]
  <2>1. xy \in Seq(Byte) /\ z \in Seq(Byte)
    BY <1>1, <1>2
  <2>. QED
    BY ONLY <2>1, ConcatProperties
<1>. HIDE DEF b
<1>4. ASSUME NEW j \in 1 .. Len(y) PROVE y[j] = b[Len(x) + j]
  <2>1. /\ Len(x) + j \in 1 .. Len(x) + Len(y) /\ ~(Len(x) + j <= Len(x)) /\ (Len(x) + j) - Len(x) = j
        /\ Len(x) + j \in 1 .. Len(xy) + Len(z) /\ Len(x) + j <= Len(xy)
    BY <1>1, <1>2
  <2>. QED
    BY <1>2, <1>3, <2>1
<1>5. Len(y) <= Len(b) - Len(x) /\ Len(x) \in 0 .. Len(b)
  BY <1>1, <1>2, <1>3
<1>6. At(y, b, Len(x))
  BY <1>4, <1>5 DEF At
<1>. QED
  BY <1>3, <1>5, <1>6 DEF Within, Bytes, b, xy

\* The addresses that b names, as a text or in a URL.
NamedURLs(b) == {a \in Foreign : Occurs(URLText(a), b)}
Named(b) == {a \in GameAddrs : Occurs(Text(a), b)} \cup NamedURLs(b)

\* A part of b names nothing else.
LEMMA NamedWithin ==
    ASSUME NEW c \in Bytes, NEW b \in Bytes, Within(c, b)
    PROVE  Named(c) \subseteq Named(b) /\ NamedURLs(c) \subseteq NamedURLs(b)
<1>1. \A a \in Foreign : Occurs(URLText(a), c) => Occurs(URLText(a), b)
  BY TextsTyped, OccursWithin DEF Foreign
<1>2. \A a \in GameAddrs : Occurs(Text(a), c) => Occurs(Text(a), b)
  BY TextsTyped, OccursWithin DEF GameAddrs, Foreign
<1>. QED
  BY <1>1, <1>2 DEF Named, NamedURLs

\* What a text is taken for, it names.
LEMMA TextNames ==
    ASSUME NEW v \in Bytes
    PROVE  NamedBy(v) \subseteq Named(v) /\ URLIn(v) \subseteq Named(v)
<1>1. ASSUME NEW x \in Unpadded, x # <<>>, IsPrefix(x, TrimRight(v)) PROVE Occurs(x, v)
  BY <1>1, UnpaddedProperties, TrimKeepsPrefix, PrefixOccurs
<1>2. ASSUME NEW a \in Addrs PROVE Text(a) \in Unpadded /\ Text(a) # <<>> /\ URLText(a) \in Unpadded /\ URLText(a) # <<>>
  <2>1. Text(a) \in Unpadded /\ URLText(a) \in Unpadded /\ Len(URLText(a)) = Len(Http) + Len(Text(a)) /\ Len(Http) > 0
        /\ Http \in Bytes
    BY TextsTyped
  <2>2. Len(Text(a)) = Len(IpText[a[1]]) + 1 + Len(PortText[a[2]]) /\ Len(IpText[a[1]]) \in Nat /\ Len(PortText[a[2]]) \in Nat
    BY TextBytes
  <2>3. Len(Text(a)) > 0 /\ Len(Text(a)) \in Nat /\ Len(Http) \in Nat
    <3>. DEFINE x == Len(IpText[a[1]])
                y == Len(PortText[a[2]])
                z == Len(Text(a))
    <3>1. z = x + 1 + y /\ x \in Nat /\ y \in Nat
      BY <2>2
    <3>. HIDE DEF x, y, z
    <3>2. z > 0 /\ z \in Nat
      BY <3>1
    <3>. QED
      BY <2>1, <3>2, BytesAreNumbers DEF z
  <2>4. Len(URLText(a)) > 0
    BY <2>1, <2>3
  <2>5. Len(<< >>) = 0
    OBVIOUS
  <2>. QED
    BY <2>1, <2>3, <2>4, <2>5
<1>3. ASSUME NEW a \in NamedBy(v) PROVE a \in Named(v)
  <2>1. a \in GameAddrs /\ a \in Addrs /\ Text(a) = TrimRight(v)
    BY <1>3 DEF NamedBy, GameAddrs, Foreign
  <2>2. IsPrefix(Text(a), TrimRight(v))
    <3>1. Text(a) \in Bytes /\ Len(Text(a)) \in Nat
      BY <2>1, TextsTyped, BytesAreNumbers
    <3>. QED
      BY <2>1, <3>1, PrefixProperties
  <2>. QED
    BY <1>1, <1>2, <2>1, <2>2 DEF Named
<1>4. ASSUME NEW a \in URLIn(v) PROVE a \in Named(v)
  <2>1. a \in Foreign /\ a \in Addrs /\ IsPrefix(URLText(a), TrimRight(v))
    BY <1>4 DEF URLIn, Matches, Foreign
  <2>. QED
    BY <1>1, <1>2, <2>1 DEF Named, NamedURLs
<1>. QED
  BY <1>3, <1>4

\* Rewritings that make tunnels for what N says of the bytes only.
Naming(N) == {f \in Growing : \A b \in Bytes, m \in Managers : f[b][m].m.tunnels \subseteq m.tunnels \cup N[b]}

\* It does so for what the bytes begin with, and goes on with the rest of them.
HeadNamed(N, f, next, b, m) ==
    /\ next[b] \in Bytes /\ Len(next[b]) < Len(b) /\ N[next[b]] \subseteq N[b]
    /\ \E n \in Managers : n.tunnels \subseteq m.tunnels \cup N[b] /\ f[b][m].m = f[next[b]][n].m
StepsName(N, f, next) ==
    \A b \in Bytes, m \in Managers :
       f[b][m].m.tunnels \subseteq m.tunnels \cup N[b] \/ HeadNamed(N, f, next, b, m)

\* Tunnels are made for the head, and for what comes after it.
LEMMA WalkNames ==
    ASSUME NEW N, NEW f \in Growing, NEW next, StepsName(N, f, next)
    PROVE  f \in Naming(N)
<1>. DEFINE T == {b \in Bytes : \A m \in Managers : f[b][m].m.tunnels \subseteq m.tunnels \cup N[b]}
<1>1. ASSUME NEW b \in Seq(Byte), \A c \in Seq(Byte) : Len(c) < Len(b) => c \in T
      PROVE  b \in T
  <2>1. b \in Bytes
    BY DEF Bytes
  <2>. SUFFICES ASSUME NEW m \in Managers PROVE f[b][m].m.tunnels \subseteq m.tunnels \cup N[b]
    BY <2>1
  <2>2. ASSUME next[b] \in Bytes, Len(next[b]) < Len(b), N[next[b]] \subseteq N[b], NEW n \in Managers,
               n.tunnels \subseteq m.tunnels \cup N[b], f[b][m].m = f[next[b]][n].m
        PROVE  f[b][m].m.tunnels \subseteq m.tunnels \cup N[b]
    <3>1. next[b] \in T
      BY <1>1, <2>2 DEF Bytes
    <3>2. f[next[b]][n].m.tunnels \subseteq n.tunnels \cup N[next[b]]
      BY <3>1
    <3>. QED
      BY <2>2, <3>2
  <2>. QED
    BY <2>1, <2>2 DEF StepsName, HeadNamed
<1>2. Seq(Byte) \subseteq T
  <2>. HIDE DEF T
  <2>. QED
    BY <1>1, InductionOnLength
<1>. QED
  BY <1>2 DEF Naming, Bytes

\* A text makes tunnels for what it names.
LEMMA LeafNames ==
    ASSUME NEW v \in Bytes, NEW m \in Managers
    PROVE  /\ \A tag : rewriteIPAddress(v, tag, m).m.tunnels \subseteq m.tunnels \cup Named(v)
           /\ rewriteHTTPURL(v, m).m.tunnels \subseteq m.tunnels \cup Named(v)
           /\ Leaf(v, m).m.tunnels \subseteq m.tunnels \cup Named(v)
<1>1. NamedBy(v) \in SUBSET Foreign /\ URLIn(v) \in SUBSET Foreign
  BY DEF NamedBy, URLIn, GameAddrs
<1>2. ASSUME NEW tag PROVE rewriteIPAddress(v, tag, m).m.tunnels \subseteq m.tunnels \cup Named(v)
  <2>. DEFINE n == EnsureTunnels(NamedBy(v), m)
  <2>1. rewriteIPAddress(v, tag, m).m = Ranged(n)
    BY RewriteIPTyped
  <2>2. n \in Managers /\ n.tunnels \subseteq m.tunnels \cup NamedBy(v)
    BY <1>1, EnsureTunnelsProperties
  <2>. HIDE DEF n
  <2>3. Ranged(n).tunnels = n.tunnels
    BY <2>2, RangedProperties
  <2>. QED
    BY <2>1, <2>2, <2>3, TextNames
<1>3. rewriteHTTPURL(v, m).m.tunnels \subseteq m.tunnels \cup Named(v)
  <2>1. rewriteHTTPURL(v, m).m = EnsureTunnels(URLIn(v), m)
    BY RewriteURLTyped
  <2>2. EnsureTunnels(URLIn(v), m).tunnels \subseteq m.tunnels \cup URLIn(v)
    BY <1>1, EnsureTunnelsProperties
  <2>. QED
    BY <2>1, <2>2, TextNames
<1>. QED
  BY <1>2, <1>3 DEF Leaf

\* Records make tunnels for what is in them.
LEMMA RecordNames ==
    ASSUME NEW width \in Widths, NEW b \in Bytes, HasRecord(b, width)
    PROVE  /\ Named(RecordOf(b, width).value) \subseteq Named(b)
           /\ Drop(b, RecordLen(b, width)) \in Bytes
           /\ Len(Drop(b, RecordLen(b, width))) < Len(b)
           /\ Named(Drop(b, RecordLen(b, width))) \subseteq Named(b)
<1>. DEFINE k == RecordLen(b, width)
<1>1. /\ k \in 1 + width .. Len(b) /\ Len(b) \in Nat /\ width \in Nat
      /\ Drop(b, k) \in Bytes /\ Len(Drop(b, k)) < Len(b)
  BY RecordProperties, BytesAreNumbers DEF Widths
<1>2. RecordOf(b, width).value = SubSeq(b, (1 + width) + 1, k)
  <2>1. 2 + width = (1 + width) + 1
    BY <1>1
  <2>. QED
    BY <2>1 DEF RecordOf
<1>. HIDE DEF k
<1>3. 1 + width \in Nat /\ k \in 0 .. Len(b)
  BY <1>1
<1>4. SubSeq(b, (1 + width) + 1, k) \in Bytes /\ Within(SubSeq(b, (1 + width) + 1, k), b)
  BY <1>1, <1>3, SubSeqWithin
<1>5. Within(Drop(b, k), b)
  BY <1>3, DropWithin
<1>. QED
  BY <1>1, <1>2, <1>4, <1>5, NamedWithin DEF k

\* Those made beforehand, too.
LEMMA AheadNames ==
    ASSUME NEW width \in Widths, NEW b \in Bytes
    PROVE  Ahead(Records(width)[b].list) \subseteq Named(b)
<1>. DEFINE T == {c \in Bytes : Ahead(Records(width)[c].list) \subseteq Named(c)}
<1>1. ASSUME NEW c \in Seq(Byte), \A d \in Seq(Byte) : Len(d) < Len(c) => d \in T
      PROVE  c \in T
  <2>. DEFINE list == Records(width)[c].list
              more == Drop(c, RecordLen(c, width))
              r == RecordOf(c, width)
  <2>1. c \in Bytes
    BY DEF Bytes
  <2>2. CASE ~HasRecord(c, width)
    <3>1. list = << >>
      <4>1. Records(width)[c] = [list |-> << >>, rest |-> c]
        BY <2>1, <2>2, RecordsDef
      <4>. QED
        BY <4>1
    <3>2. DOMAIN list = {}
      BY <3>1
    <3>. QED
      BY <2>1, <3>2 DEF Ahead
  <2>3. CASE HasRecord(c, width)
    <3>1. /\ Named(r.value) \subseteq Named(c) /\ more \in Bytes /\ Len(more) < Len(c)
          /\ Named(more) \subseteq Named(c) /\ r \in RecordSet
      BY <2>1, <2>3, RecordNames, RecordProperties
    <3>2. list = First(r, Records(width)[more]).list /\ Records(width)[more].list \in Seq(RecordSet)
      BY <2>1, <2>3, <3>1, RecordsDef DEF Lists
    <3>3. Ahead(Records(width)[more].list) \subseteq Named(more)
      <4>1. more \in T
        BY <1>1, <3>1 DEF Bytes
      <4>. QED
        BY <4>1
    <3>. DEFINE rest == Records(width)[more].list
    <3>. HIDE DEF more, r
    <3>4. /\ list \in Seq(RecordSet) /\ Len(list) = Len(rest) + 1 /\ list[1] = r
          /\ \A i \in 1 .. Len(rest) : list[i + 1] = rest[i]
      BY <3>1, <3>2, FirstProperties
    <3>. HIDE DEF list, rest
    <3>5. Len(rest) \in Nat /\ DOMAIN rest = 1 .. Len(rest) /\ DOMAIN list = 1 .. Len(list)
      BY <3>2, <3>4, LenProperties DEF rest
    <3>6. ASSUME NEW a \in GameAddrs, NEW i \in DOMAIN list, TrimRight(list[i].value) = Text(a)
          PROVE  a \in Named(c)
      <4>1. CASE i = 1
        <5>1. a \in NamedBy(r.value) /\ r.value \in Bytes
          BY <3>1, <3>4, <3>6, <4>1 DEF NamedBy, RecordSet
        <5>. QED
          BY <3>1, <5>1, TextNames
      <4>2. CASE i # 1
        <5>1. i - 1 \in DOMAIN rest /\ list[i] = rest[i - 1]
          <6>1. i - 1 \in 1 .. Len(rest) /\ (i - 1) + 1 = i
            BY <3>4, <3>5, <4>2
          <6>. QED
            BY <3>4, <3>5, <6>1
        <5>2. a \in Ahead(rest)
          BY <3>6, <5>1 DEF Ahead
        <5>. QED
          BY <3>1, <3>3, <5>2 DEF rest
      <4>. QED
        BY <4>1, <4>2
    <3>7. Ahead(list) \subseteq Named(c)
      BY <3>6 DEF Ahead
    <3>. QED
      BY <2>1, <3>7 DEF list
  <2>. QED
    BY <2>2, <2>3
<1>2. Seq(Byte) \subseteq T
  <2>. HIDE DEF T
  <2>. QED
    BY <1>1, InductionOnLength
<1>. QED
  BY <1>2 DEF Bytes

\* The rewriting of records makes tunnels for what they name.
LEMMA TLVsName ==
    ASSUME NEW width \in Widths, NEW b \in Bytes, NEW m \in Managers
    PROVE  rewriteTLVPayloadWithWidth(b, width, m).m.tunnels \subseteq m.tunnels \cup Named(b)
<1>. DEFINE N == [c \in Bytes |-> Named(c)]
            next == [c \in Bytes |-> Drop(c, RecordLen(c, width))]
            f == TLVs(width)
<1>1. ASSUME NEW c \in Bytes, NEW o \in Managers
      PROVE  f[c][o].m.tunnels \subseteq o.tunnels \cup N[c] \/ HeadNamed(N, f, next, c, o)
  <2>1. CASE ~HasRecord(c, width)
    <3>1. f[c][o] = Answer(c, o)
      BY <2>1, TLVsDef
    <3>2. f[c][o].m = o
      BY <3>1 DEF Answer
    <3>. QED
      BY <3>2
  <2>2. CASE HasRecord(c, width)
    <3>. DEFINE new == NewRecord(c, width, o)
                r == RecordOf(c, width)
                n == processTLVValue(r, o).m
                more == Drop(c, RecordLen(c, width))
    <3>1. r \in RecordSet /\ r.value \in Bytes /\ Named(r.value) \subseteq Named(c)
          /\ more \in Bytes /\ Len(more) < Len(c) /\ Named(more) \subseteq Named(c)
      BY <2>2, RecordProperties, RecordNames DEF RecordSet
    <3>2. f[c][o] = After(new.out, f[more][new.m]) /\ new.m = n
      BY <2>2, TLVsDef DEF NewRecord, Answer
    <3>3. n \in Managers
      BY <3>1, ValueTyped DEF Answers
    <3>. HIDE DEF r
    <3>4. n.tunnels \subseteq o.tunnels \cup Named(r.value)
      <4>1. \/ n = rewriteIPAddress(r.value, r.tag, o).m \/ n = rewriteHTTPURL(r.value, o).m
            \/ n = Answer(r.value, o).m
        BY <3>1, ValueCases
      <4>2. Answer(r.value, o).m = o
        BY DEF Answer
      <4>. QED
        BY <3>1, <4>1, <4>2, LeafNames
    <3>5. f[c][o].m = f[more][n].m
      <4>1. \A x, y : After(x, y).m = y.m
        BY DEF After, Answer
      <4>. QED
        BY <3>2, <4>1
    <3>6. next[c] = more /\ N[c] = Named(c) /\ N[more] = Named(more)
      BY <3>1
    <3>. HIDE DEF f, N, next, n, more
    <3>. QED
      BY <3>1, <3>3, <3>4, <3>5, <3>6 DEF HeadNamed
  <2>. QED
    BY <2>1, <2>2
<1>2. f \in Naming(N)
  <2>1. f \in Growing
    BY TLVsDef
  <2>. HIDE DEF f, N, next
  <2>2. StepsName(N, f, next)
    BY <1>1 DEF StepsName
  <2>. QED
    BY <2>1, <2>2, WalkNames
<1>. DEFINE A == Ahead(Records(width)[b].list)
            m1 == EnsureTunnels(A, m)
<1>3. A \subseteq Named(b) /\ A \in SUBSET Foreign
  BY AheadNames DEF Ahead, GameAddrs
<1>. HIDE DEF A, f
<1>4. m1 \in Managers /\ m1.tunnels \subseteq m.tunnels \cup A
  BY <1>3, EnsureTunnelsProperties
<1>5. rewriteTLVPayloadWithWidth(b, width, m) = f[b][m1]
  BY DEF rewriteTLVPayloadWithWidth, f, A
<1>. HIDE DEF m1
<1>6. f[b][m1].m.tunnels \subseteq m1.tunnels \cup Named(b)
  BY <1>2, <1>4 DEF Naming
<1>. QED
  BY <1>3, <1>4, <1>5, <1>6

\* The chunk of a message's first field, and what comes after it, are parts of it.
LEMMA FieldNames ==
    ASSUME NEW b \in Bytes, Field(b).ok
    PROVE  /\ Field(b) \in FieldSet
           /\ Field(b).wt = 2 => Field(b).chunk \in Bytes /\ Named(Field(b).chunk) \subseteq Named(b)
           /\ Drop(b, Field(b).size) \in Bytes /\ Len(Drop(b, Field(b).size)) < Len(b)
           /\ Named(Drop(b, Field(b).size)) \subseteq Named(b)
<1>. DEFINE f == Field(b)
            d == f.data
            rest == Drop(b, f.size)
            n == consumeProtobufVarint(d).n
<1>1. /\ IsData(f.wt, d) /\ Says(f, f.tag, d) /\ f.tag \in Bytes /\ d \in Bytes /\ f.chunk \in Bytes
      /\ f.size \in 1 .. Len(b) /\ rest \in Bytes /\ Len(rest) < Len(b) /\ b = f.tag \o d \o rest
  BY FieldThatIs
<1>2. f.size \in 0 .. Len(b)
  BY <1>1
<1>. HIDE DEF rest
<1>3. Named(rest) \subseteq Named(b)
  <2>1. Within(rest, b)
    BY <1>2, DropWithin DEF rest
  <2>. QED
    BY <1>1, <2>1, NamedWithin
<1>4. Named(d) \subseteq Named(b)
  <2>1. Within(d, f.tag \o d \o rest)
    BY <1>1, ConcatWithin
  <2>2. Within(d, b)
    BY <1>1, <2>1
  <2>. QED
    BY <1>1, <2>2, NamedWithin
<1>5. f.wt = 2 => Named(f.chunk) \subseteq Named(b)
  <2>. SUFFICES ASSUME f.wt = 2 PROVE Named(f.chunk) \subseteq Named(b)
    OBVIOUS
  <2>1. f.chunk = Drop(d, n)
    BY <1>1 DEF Says
  <2>2. n \in 0 .. Len(d)
    BY <1>1, ConsumeRange
  <2>. HIDE DEF n, d
  <2>3. Within(f.chunk, d)
    BY <1>1, <2>1, <2>2, DropWithin
  <2>. QED
    BY <1>1, <1>4, <2>3, NamedWithin
<1>6. f \in FieldSet
  BY FieldProperties
<1>. QED
  BY <1>1, <1>3, <1>5, <1>6 DEF rest

\* So a message makes tunnels for what it names, if its chunks do.
LEMMA MessageNames ==
    ASSUME NEW N, N = [c \in Bytes |-> Named(c)], NEW inner \in Naming(N), NEW lobby \in SUBSET GameAddrs
    PROVE  Message(inner, lobby) \in Naming(N)
<1>. DEFINE f == Message(inner, lobby)
            next == [c \in Bytes |-> Drop(c, Field(c).size)]
<1>1. inner \in Growing /\ \A c \in Bytes, m \in Managers : inner[c][m].m.tunnels \subseteq m.tunnels \cup Named(c)
  BY DEF Naming
<1>2. ASSUME NEW c \in Bytes, NEW o \in Managers
      PROVE  f[c][o].m.tunnels \subseteq o.tunnels \cup N[c] \/ HeadNamed(N, f, next, c, o)
  <2>1. CASE ~Field(c).ok
    <3>1. f[c][o] = Answer(<<>>, o)
      BY <1>1, <2>1, MessageDef
    <3>2. f[c][o].m = o
      BY <3>1 DEF Answer
    <3>. QED
      BY <3>2
  <2>2. CASE Field(c).ok
    <3>. DEFINE g == Field(c)
                new == NewField(c, lobby, inner, o)
                n == NewData(g, lobby, inner, o).m
                more == Drop(c, g.size)
    <3>1. /\ g \in FieldSet /\ (g.wt = 2 => g.chunk \in Bytes /\ Named(g.chunk) \subseteq Named(c))
          /\ more \in Bytes /\ Len(more) < Len(c) /\ Named(more) \subseteq Named(c)
      BY <2>2, FieldNames
    <3>2. f[c][o] = After(new.out, f[more][new.m]) /\ new.m = n
      <4>1. f[c][o] = After(new.out, f[more][new.m])
        BY <1>1, <2>2, MessageDef
      <4>2. new.m = n
        BY DEF NewField, Answer
      <4>. QED
        BY <4>1, <4>2
    <3>3. n \in Managers
      BY <1>1, <3>1, NewDataTyped DEF Answers
    <3>4. n.tunnels \subseteq o.tunnels \cup Named(c)
      <4>1. \A x, y : Answer(x, y).m = y
        BY DEF Answer
      <4>2. CASE g.wt # 2
        <5>1. n = o
          BY <4>1, <4>2 DEF NewData
        <5>. QED
          BY <5>1
      <4>3. CASE g.wt = 2
        <5>1. n = LenDelim(g, lobby, inner, o).m
          BY <4>1, <4>3 DEF NewData
        <5>2. n = o \/ n = inner[g.chunk][o].m
          BY <4>1, <5>1 DEF LenDelim
        <5>3. inner[g.chunk][o].m.tunnels \subseteq o.tunnels \cup Named(g.chunk)
          BY <1>1, <3>1, <4>3
        <5>. QED
          BY <3>1, <4>3, <5>2, <5>3
      <4>. QED
        BY <4>2, <4>3
    <3>5. f[c][o].m = f[more][n].m
      <4>1. \A x, y : After(x, y).m = y.m
        BY DEF After, Answer
      <4>. QED
        BY <3>2, <4>1
    <3>6. next[c] = more /\ N[c] = Named(c) /\ N[more] = Named(more)
      BY <3>1
    <3>. HIDE DEF f, next, n, more
    <3>. QED
      BY <3>1, <3>3, <3>4, <3>5, <3>6 DEF HeadNamed
  <2>. QED
    BY <2>1, <2>2
<1>3. f \in Growing
  BY <1>1, MessageDef
<1>. HIDE DEF f, next
<1>4. StepsName(N, f, next)
  BY <1>2 DEF StepsName
<1>. QED
  BY <1>3, <1>4, WalkNames DEF f

\* So do chunks, down to any depth.
LEMMA ChunkNames ==
    ASSUME NEW N, N = [c \in Bytes |-> Named(c)], NEW depth \in Nat
    PROVE  rewriteProtobufLenDelim[depth] \in Naming(N)
<1>. DEFINE r == rewriteProtobufLenDelim
            S == {n \in Nat : r[n] \in Naming(N)}
<1>1. ASSUME NEW n \in Nat, \A k \in 0 .. n - 1 : k \in S PROVE n \in S
  <2>1. ASSUME NEW c \in Bytes, NEW m \in Managers PROVE r[n][c][m].m.tunnels \subseteq m.tunnels \cup N[c]
    <3>1. CASE ~Messages(c, n)
      <4>1. r[n][c][m] = Leaf(c, m)
        BY <3>1, LenDelimDef
      <4>. QED
        BY <4>1, LeafNames
    <3>2. CASE Messages(c, n)
      <4>1. n > 0
        BY <3>2 DEF Messages
      <4>2. n - 1 \in 0 .. n - 1
        BY <4>1
      <4>3. r[n - 1] \in Naming(N)
        BY <1>1, <4>2
      <4>4. Message(r[n - 1], {}) \in Naming(N)
        BY <4>3, MessageNames
      <4>5. r[n][c][m] = Message(r[n - 1], {})[c][m]
        BY <3>2, LenDelimDef
      <4>. QED
        BY <4>4, <4>5 DEF Naming
    <3>. QED
      BY <3>1, <3>2
  <2>2. r[n] \in Growing
    BY LenDelimDef
  <2>. HIDE DEF r
  <2>. QED
    BY <2>1, <2>2 DEF Naming
<1>2. Nat \subseteq S
  <2>. HIDE DEF S
  <2>. QED
    BY <1>1, Induction
<1>. QED
  BY <1>2

\* The walk over a frame makes tunnels for what it names, and for its lobby address.
LEMMA WalkedNames ==
    ASSUME NEW f, f.body \in Bytes, NEW m \in Managers
    PROVE  Walk(f, m).m.tunnels \subseteq m.tunnels \cup parseLobbyProtobufContext(f.body) \cup Named(f.body)
<1>. DEFINE b == f.body
            split == parseLobbyProtobufContext(b)
            m1 == EnsureTunnels(split, m)
            lobby == split \cap m1.tunnels
            inner == rewriteProtobufLenDelim[MaxDepth]
            N == [c \in Bytes |-> Named(c)]
<1>1. split \in SUBSET Foreign /\ split \in SUBSET GameAddrs
  BY DEF parseLobbyProtobufContext, GameAddrs
<1>. HIDE DEF split
<1>2. m1 \in Managers /\ m1.tunnels \subseteq m.tunnels \cup split
  BY <1>1, EnsureTunnelsProperties
<1>3. CASE protobufWireConsumesFully(b)
  <2>1. inner \in Naming(N)
    BY PortsAssumption, ChunkNames
  <2>2. lobby \in SUBSET GameAddrs
    BY <1>1
  <2>3. Walk(f, m) = Message(inner, lobby)[b][m1]
    BY <1>3 DEF Walk, tryRewriteProtobuf, split
  <2>. HIDE DEF inner, lobby, m1
  <2>4. Message(inner, lobby) \in Naming(N)
    BY <2>1, <2>2, MessageNames
  <2>5. Walk(f, m).m.tunnels \subseteq m1.tunnels \cup Named(b)
    BY <1>2, <2>3, <2>4 DEF Naming
  <2>. QED
    BY <1>2, <2>5 DEF split
<1>4. CASE ~protobufWireConsumesFully(b)
  <2>. DEFINE one == rewriteTLVPayloadWithWidth(b, 1, m1)
              two == rewriteTLVPayloadWithWidth(b, 2, one.m)
  <2>1. Walk(f, m) = rewriteTLVPayload(b, m1)
    BY <1>4 DEF Walk, split
  <2>. HIDE DEF m1
  <2>2. 1 \in Widths /\ 2 \in Widths
    BY DEF Widths
  <2>3. one.m \in Managers /\ one.m.tunnels \subseteq m1.tunnels \cup Named(b)
    BY <1>2, <2>2, WithWidthTyped, TLVsName DEF Answers
  <2>4. rewriteTLVPayload(b, m1).m \in {one.m, two.m}
    <3>1. \A x, y : Answer(x, y).m = y
      BY DEF Answer
    <3>. QED
      BY <3>1 DEF rewriteTLVPayload, BestOf
  <2>. HIDE DEF one
  <2>5. two.m.tunnels \subseteq one.m.tunnels \cup Named(b)
    BY <2>2, <2>3, TLVsName
  <2>. QED
    BY <1>2, <2>1, <2>3, <2>4, <2>5 DEF split
<1>. QED
  BY <1>3, <1>4

\* The search makes tunnels for URLs, and for nothing else.
LEMMA SearchNames ==
    ASSUME NEW b \in Bytes, NEW m \in Managers
    PROVE  rewriteHTTPURLBytes[b][m].m.tunnels \subseteq m.tunnels \cup NamedURLs(b)
<1>. DEFINE N == [c \in Bytes |-> NamedURLs(c)]
            next == [c \in Bytes |-> Drop(c, URLEnd(c))]
            f == rewriteHTTPURLBytes
<1>1. ASSUME NEW c \in Bytes, NEW o \in Managers
      PROVE  f[c][o].m.tunnels \subseteq o.tunnels \cup N[c] \/ HeadNamed(N, f, next, c, o)
  <2>1. CASE c = <<>>
    <3>1. f[c][o] = Answer(c, o)
      BY <2>1, HTTPURLBytesDef
    <3>2. f[c][o].m = o
      BY <3>1 DEF Answer
    <3>. QED
      BY <3>2
  <2>2. CASE c # <<>>
    <3>. DEFINE url == URLOf(c) \cap Foreign
                n == EnsureTunnels(url, o)
                k == URLEnd(c)
                more == Drop(c, k)
    <3>1. f[c][o] = After(NewURL(c, o).out, f[more][NewURL(c, o).m])
      BY <2>2, HTTPURLBytesDef
    <3>2. NewURL(c, o).m = n
      BY DEF NewURL, Answer
    <3>3. f[c][o].m = f[more][n].m
      <4>1. \A x, y : After(x, y).m = y.m
        BY DEF After, Answer
      <4>. QED
        BY <3>1, <3>2, <4>1
    <3>4. k \in 1 .. Len(c) /\ k \in 0 .. Len(c) /\ Len(c) \in Nat
      BY <2>2, URLRange, BytesAreNumbers
    <3>. HIDE DEF k
    <3>5. more \in Bytes /\ Len(more) < Len(c) /\ NamedURLs(more) \subseteq NamedURLs(c)
      <4>1. more \in Bytes /\ Len(more) = Len(c) - k
        BY <3>4, DropProperties DEF Bytes
      <4>2. Within(more, c)
        BY <3>4, DropWithin
      <4>. HIDE DEF more
      <4>3. Len(more) < Len(c)
        BY <3>4, <4>1
      <4>. QED
        BY <4>1, <4>2, <4>3, NamedWithin
    <3>6. url \subseteq NamedURLs(c)
      <4>. SUFFICES ASSUME NEW a \in url PROVE Occurs(URLText(a), c)
        BY DEF NamedURLs
      <4>1. a \in Addrs /\ IsPrefix(URLText(a), c)
        BY DEF URLOf, Matches
      <4>2. URLText(a) \in Bytes /\ Len(URLText(a)) = Len(Http) + Len(Text(a)) /\ Len(Http) > 0
            /\ Http \in Bytes /\ Text(a) \in Bytes
        BY <4>1, TextsTyped
      <4>3. Len(Http) \in Nat /\ Len(Text(a)) \in Nat /\ Len(<<>>) = 0
        BY <4>2, BytesAreNumbers
      <4>4. URLText(a) # <<>>
        BY <4>2, <4>3
      <4>. QED
        BY <4>1, <4>2, <4>4, PrefixOccurs
    <3>7. n \in Managers /\ n.tunnels \subseteq o.tunnels \cup url
      BY EnsureTunnelsProperties
    <3>8. next[c] = more /\ N[c] = NamedURLs(c) /\ N[more] = NamedURLs(more)
      BY <3>5 DEF k
    <3>. HIDE DEF f, N, next, n, more, url
    <3>. QED
      BY <3>3, <3>5, <3>6, <3>7, <3>8 DEF HeadNamed
  <2>. QED
    BY <2>1, <2>2
<1>2. f \in Growing
  BY HTTPURLBytesDef
<1>. HIDE DEF f, next
<1>3. StepsName(N, f, next)
  <2>. HIDE DEF N
  <2>. QED
    BY <1>1 DEF StepsName
<1>4. f \in Naming(N)
  <2>. HIDE DEF N
  <2>. QED
    BY <1>2, <1>3, WalkNames
<1>. QED
  BY <1>4 DEF Naming, f

(***************************************************************************)
(* The search puts URLs of tunnels where URLs were                           *)
(***************************************************************************)
\* What a step makes of a function at x it makes of what that is below x.
Local(X, Y, size, step) ==
    /\ size \in Maps(X, Nat) /\ step \in Maps(Maps(X, Y), Maps(X, Y))
    /\ \A g, h \in Maps(X, Y), x \in X :
          (\A y \in X : size[y] < size[x] => g[y] = h[y]) => step[g][x] = step[h][x]

\* A function that calls itself on any arguments of smaller size exists.
LEMMA LocalRecursion ==
    ASSUME NEW X, NEW Y, NEW y0 \in Y, NEW size, NEW step, Local(X, Y, size, step)
    PROVE  \E f \in Maps(X, Y) : f = step[f]
<1>. DEFINE G == Maps(X, Y)
            g0 == [x \in X |-> y0]
<1>1. /\ step \in Maps(G, G) /\ \A x \in X : size[x] \in Nat
      /\ \A g, h \in G, x \in X : (\A y \in X : size[y] < size[x] => g[y] = h[y]) => step[g][x] = step[h][x]
  BY DEF Local, Maps
<1>2. g0 \in G
  BY DEF Maps
<1>. HIDE DEF G, g0
<1>3. PICK it \in Maps(Nat, G) : it[0] = g0 /\ \A n \in Nat : it[n + 1] = step[it[n]]
  BY <1>1, <1>2, PrimitiveRecursion
<1>4. \A n \in Nat : it[n] \in G
  BY <1>3 DEF Maps
<1>. DEFINE S == {n \in Nat : \A x \in X : size[x] < n => it[n + 1][x] = it[n][x]}
<1>5. ASSUME NEW n \in Nat, \A k \in 0 .. n - 1 : k \in S PROVE n \in S
  <2>. SUFFICES ASSUME NEW x \in X, size[x] < n PROVE it[n + 1][x] = it[n][x]
    OBVIOUS
  <2>1. n - 1 \in 0 .. n - 1 /\ n - 1 \in Nat /\ (n - 1) + 1 = n /\ size[x] <= n - 1 /\ size[x] \in Nat
    BY <1>1
  <2>2. it[n + 1] = step[it[n]] /\ it[n] = step[it[n - 1]]
    <3>1. it[(n - 1) + 1] = step[it[n - 1]]
      BY <1>3, <2>1
    <3>. QED
      BY <1>3, <2>1, <3>1
  <2>3. ASSUME NEW y \in X, size[y] < size[x] PROVE it[n][y] = it[n - 1][y]
    <3>1. n - 1 \in S
      BY <1>5, <2>1
    <3>2. size[y] < n - 1
      BY <1>1, <2>1, <2>3
    <3>3. it[(n - 1) + 1][y] = it[n - 1][y]
      BY <3>1, <3>2
    <3>. QED
      BY <2>1, <3>3
  <2>4. it[n] \in G /\ it[n - 1] \in G
    BY <1>4, <2>1
  <2>. QED
    BY <1>1, <2>2, <2>3, <2>4
<1>6. ASSUME NEW n \in Nat, NEW x \in X, size[x] < n PROVE it[n + 1][x] = it[n][x]
  <2>1. Nat \subseteq S
    <3>. HIDE DEF S
    <3>. QED
      BY <1>5, Induction
  <2>. QED
    BY <1>6, <2>1
<1>7. ASSUME NEW x \in X, NEW n \in Nat, size[x] < n PROVE it[n][x] = it[size[x] + 1][x]
  <2>. DEFINE U == {k \in Nat : size[x] < k => it[k][x] = it[size[x] + 1][x]}
  <2>1. ASSUME NEW k \in Nat, \A j \in 0 .. k - 1 : j \in U PROVE k \in U
    <3>1. CASE k <= size[x] + 1
      <4>1. size[x] < k => k = size[x] + 1
        BY <1>1, <3>1
      <4>. QED
        BY <4>1
    <3>2. CASE k > size[x] + 1
      <4>1. k - 1 \in 0 .. k - 1 /\ k - 1 \in Nat /\ (k - 1) + 1 = k /\ size[x] < k - 1
        BY <1>1, <3>2
      <4>2. it[k - 1][x] = it[size[x] + 1][x]
        BY <2>1, <4>1
      <4>3. it[(k - 1) + 1][x] = it[k - 1][x]
        BY <1>6, <4>1
      <4>. QED
        BY <4>1, <4>2, <4>3
    <3>. QED
      BY <1>1, <3>1, <3>2
  <2>2. Nat \subseteq U
    <3>. HIDE DEF U
    <3>. QED
      BY <2>1, Induction
  <2>. QED
    BY <1>7, <2>2
<1>. DEFINE f == [x \in X |-> it[size[x] + 1][x]]
<1>8. f \in G
  <2>1. \A x \in X : it[size[x] + 1][x] \in Y
    <3>. SUFFICES ASSUME NEW x \in X PROVE it[size[x] + 1][x] \in Y
      OBVIOUS
    <3>1. size[x] + 1 \in Nat
      BY <1>1
    <3>. QED
      BY <1>4, <3>1 DEF G, Maps
  <2>. QED
    BY <2>1 DEF G, Maps
<1>9. \A x \in X : f[x] = it[size[x] + 1][x]
  OBVIOUS
<1>. HIDE DEF f
<1>10. ASSUME NEW x \in X PROVE f[x] = step[f][x]
  <2>1. size[x] \in Nat
    BY <1>1
  <2>2. f[x] = step[it[size[x]]][x]
    BY <1>3, <1>9, <2>1
  <2>3. ASSUME NEW y \in X, size[y] < size[x] PROVE it[size[x]][y] = f[y]
    BY <1>7, <1>9, <2>1, <2>3
  <2>4. it[size[x]] \in G
    BY <1>4, <2>1
  <2>. QED
    BY <1>1, <1>8, <2>2, <2>3, <2>4
<1>11. f = step[f]
  <2>1. step[f] \in G
    BY <1>1, <1>8 DEF Maps
  <2>. QED
    BY <1>8, <1>10, <2>1 DEF G, Maps
<1>. QED
  BY <1>8, <1>11 DEF G

\* What the search may make of b, if it has the set P[c] for what is left.
SearchStep(P, b, c, m) ==
    IF b = <<>> THEN c = <<>>
    ELSE \/ /\ c # <<>> /\ Head(c) = Head(b)
            /\ Tail(c) \in P[Tail(b)]
         \/ \E a \in URLOf(b) \cap Foreign \cap m.tunnels :
               /\ IsPrefix(ProxyURL(a, m), c)
               /\ Drop(c, Len(ProxyURL(a, m))) \in P[Drop(b, Len(URLText(a)))]

\* What is left is shorter.
LEMMA URLTaken ==
    ASSUME NEW b \in Bytes, NEW a \in URLOf(b)
    PROVE  /\ Len(URLText(a)) \in 1 .. Len(b) /\ Len(URLText(a)) \in 0 .. Len(b)
           /\ Drop(b, Len(URLText(a))) \in Bytes /\ Len(Drop(b, Len(URLText(a)))) < Len(b)
           /\ b # <<>>
<1>. DEFINE l == Len(URLText(a))
            h == Len(Http)
            t == Len(Text(a))
            k == Len(b)
<1>1. a \in Addrs /\ IsPrefix(URLText(a), b)
  BY DEF URLOf, Matches
<1>2. URLText(a) \in Bytes /\ l = h + t /\ h > 0 /\ Http \in Bytes /\ Text(a) \in Bytes
  BY <1>1, TextsTyped
<1>3. l <= k
  BY <1>1, <1>2, PrefixProperties
<1>4. h \in Nat /\ t \in Nat /\ k \in Nat
  BY <1>2, BytesAreNumbers
<1>. HIDE DEF l, h, t
<1>5. l \in 1 .. k /\ l \in 0 .. k
  BY <1>2, <1>3, <1>4
<1>6. Drop(b, l) \in Bytes /\ Len(Drop(b, l)) = k - l
  BY <1>5, DropProperties DEF Bytes
<1>7. Len(Drop(b, l)) < k
  <2>. HIDE DEF k
  <2>. QED
    BY <1>4, <1>5, <1>6
<1>8. k # 0
  BY <1>4, <1>5
<1>9. b # <<>>
  <2>1. Len(<<>>) = 0
    OBVIOUS
  <2>. QED
    BY <1>8, <2>1
<1>. QED
  BY <1>5, <1>6, <1>7, <1>9 DEF l

\* URLsProxied is what its definition says.
LEMMA URLsProxiedDef ==
    ASSUME NEW m, NEW b \in Bytes
    PROVE  URLsProxied(m)[b] = {c \in Bytes : SearchStep(URLsProxied(m), b, c, m)}
<1>. DEFINE V(g, x, c) ==
                IF x = <<>> THEN c = <<>>
                ELSE \/ /\ c # <<>> /\ Head(c) = Head(x)
                        /\ Tail(c) \in g[Tail(x)]
                     \/ \E a \in URLOf(x) \cap Foreign \cap m.tunnels :
                           /\ IsPrefix(ProxyURL(a, m), c)
                           /\ Drop(c, Len(ProxyURL(a, m))) \in g[Drop(x, Len(URLText(a)))]
            EE(g) == [x \in Bytes |-> {c \in Bytes : V(g, x, c)}]
            P == SUBSET Bytes
            G == Maps(Bytes, P)
            size == [x \in Bytes |-> Len(x)]
            step == [g \in G |-> EE(g)]
<1>1. (\E g : g = EE(g)) => URLsProxied(m) = EE(URLsProxied(m))
  BY Zenon DEF URLsProxied
<1>2. ASSUME NEW g, NEW x, NEW c PROVE V(g, x, c) = SearchStep(g, x, c, m)
  BY DEF SearchStep
<1>3. ASSUME NEW g PROVE EE(g) = [x \in Bytes |-> {c \in Bytes : SearchStep(g, x, c, m)}]
  <2>. HIDE DEF V
  <2>. QED
    BY <1>2, Zenon
<1>. HIDE DEF V, EE
<1>4. ASSUME NEW g \in G, NEW h \in G, NEW x \in Bytes,
             \A y \in Bytes : Len(y) < Len(x) => g[y] = h[y], NEW c \in Bytes
      PROVE  SearchStep(g, x, c, m) <=> SearchStep(h, x, c, m)
  <2>1. CASE x = <<>>
    BY <2>1 DEF SearchStep
  <2>2. CASE x # <<>>
    <3>1. g[Tail(x)] = h[Tail(x)]
      BY <1>4, <2>2, HeadAndTail
    <3>2. \A a \in URLOf(x) : g[Drop(x, Len(URLText(a)))] = h[Drop(x, Len(URLText(a)))]
      BY <1>4, URLTaken
    <3>. QED
      BY <2>2, <3>1, <3>2 DEF SearchStep
  <2>. QED
    BY <2>1, <2>2
<1>5. ASSUME NEW g \in G, NEW h \in G, NEW x \in Bytes, \A y \in Bytes : size[y] < size[x] => g[y] = h[y]
      PROVE  step[g][x] = step[h][x]
  <2>1. \A y \in Bytes : Len(y) < Len(x) => g[y] = h[y]
    BY <1>5
  <2>2. \A c \in Bytes : SearchStep(g, x, c, m) <=> SearchStep(h, x, c, m)
    <3>. HIDE DEF G, step, size
    <3>. QED
      BY <1>4, <2>1
  <2>3. step[g][x] = {c \in Bytes : SearchStep(g, x, c, m)} /\ step[h][x] = {c \in Bytes : SearchStep(h, x, c, m)}
    <3>1. step[g] = EE(g) /\ step[h] = EE(h)
      <4>. HIDE DEF G
      <4>. QED
        OBVIOUS
    <3>. QED
      BY <1>3, <3>1
  <2>. QED
    BY <2>2, <2>3
<1>6. Local(Bytes, P, size, step)
  <2>1. size \in Maps(Bytes, Nat)
    BY BytesAreNumbers DEF Maps
  <2>2. \A g : EE(g) \in G
    BY <1>3 DEF Maps
  <2>3. step \in Maps(G, G)
    <3>. HIDE DEF G
    <3>. QED
      BY <2>2 DEF Maps
  <2>. HIDE DEF size, step, P
  <2>. QED
    BY <1>5, <2>1, <2>3 DEF Local
<1>7. PICK f \in G : f = step[f]
  <2>1. {} \in P
    OBVIOUS
  <2>. HIDE DEF size, step, P
  <2>. QED
    BY <1>6, <2>1, LocalRecursion
<1>8. f = EE(f)
  <2>. HIDE DEF G
  <2>. QED
    BY <1>7
<1>9. URLsProxied(m) = EE(URLsProxied(m))
  BY <1>1, <1>8
<1>. QED
  BY <1>3, <1>9

\* The first byte of two things put together, and what is left of them.
LEMMA HeadOfConcat ==
    ASSUME NEW x \in Bytes, x # <<>>, NEW r \in Bytes
    PROVE  /\ x \o r \in Bytes /\ x \o r # <<>> /\ Tail(x) \in Bytes /\ Len(Tail(x)) < Len(x)
           /\ Head(x \o r) = Head(x) /\ Tail(x \o r) = Tail(x) \o r
<1>1. x \in Seq(Byte) /\ r \in Seq(Byte) /\ Tail(x) \in Bytes /\ Len(Tail(x)) < Len(x)
  BY HeadAndTail DEF Bytes
<1>2. x \o r \in Seq(Byte) /\ Len(x \o r) = Len(x) + Len(r)
      /\ \A i \in 1 .. Len(x) + Len(r) : (x \o r)[i] = IF i <= Len(x) THEN x[i] ELSE r[i - Len(x)]
  BY <1>1, ConcatProperties
<1>3. Len(x) \in Nat /\ Len(x) # 0 /\ Len(r) \in Nat
  BY <1>1, EmptySeq, LenProperties
<1>4. x \o r # <<>>
  BY <1>1, ConcatEqualIffEmpty
<1>5. (x \o r)[1] = x[1]
  BY <1>2, <1>3
<1>. DEFINE y == x \o r
<1>6. Tail(y) = Drop(y, 1) /\ Tail(x) = Drop(x, 1)
  <2>1. y \in Seq(Byte) /\ y # <<>>
    BY <1>2, <1>4
  <2>. HIDE DEF y
  <2>. QED
    BY <1>1, <2>1, TailIsSubSeq DEF Drop
<1>7. Drop(y, 1) = Drop(x, 1) \o r
  <2>1. 1 \in 0 .. Len(x)
    BY <1>3
  <2>. QED
    BY <1>1, <2>1, DropOfConcat
<1>8. Head(y) = y[1] /\ Head(x) = x[1]
  <2>. HIDE DEF y
  <2>. QED
    OBVIOUS
<1>. QED
  BY <1>1, <1>2, <1>4, <1>5, <1>6, <1>7, <1>8 DEF Bytes

\* The search may copy anything.
LEMMA Copied ==
    ASSUME NEW m, NEW x \in Bytes, NEW d \in Bytes, NEW r \in URLsProxied(m)[d]
    PROVE  r \in Bytes /\ x \o r \in URLsProxied(m)[x \o d]
<1>. DEFINE P == URLsProxied(m)
            T == {y \in Bytes : y \o r \in P[y \o d]}
<1>1. r \in Bytes
  BY URLsProxiedDef
<1>2. ASSUME NEW y \in Seq(Byte), \A z \in Seq(Byte) : Len(z) < Len(y) => z \in T PROVE y \in T
  <2>1. y \in Bytes
    BY DEF Bytes
  <2>2. CASE y = <<>>
    <3>1. y \o r = r /\ y \o d = d
      BY <1>1, <2>2, ConcatEmptySeq DEF Bytes
    <3>. QED
      BY <2>1, <3>1
  <2>3. CASE y # <<>>
    <3>1. /\ y \o r \in Bytes /\ y \o r # <<>> /\ Tail(y) \in Bytes /\ Len(Tail(y)) < Len(y)
          /\ Head(y \o r) = Head(y) /\ Tail(y \o r) = Tail(y) \o r
      BY <1>1, <2>1, <2>3, HeadOfConcat
    <3>2. /\ y \o d \in Bytes /\ y \o d # <<>>
          /\ Head(y \o d) = Head(y) /\ Tail(y \o d) = Tail(y) \o d
      BY <2>1, <2>3, HeadOfConcat
    <3>3. Tail(y) \o r \in P[Tail(y) \o d]
      BY <1>2, <3>1 DEF Bytes
    <3>. HIDE DEF P
    <3>4. SearchStep(P, y \o d, y \o r, m)
      BY <3>1, <3>2, <3>3 DEF SearchStep
    <3>5. P[y \o d] = {c \in Bytes : SearchStep(P, y \o d, c, m)}
      BY <3>2, URLsProxiedDef DEF P
    <3>. QED
      BY <2>1, <3>1, <3>4, <3>5
  <2>. QED
    BY <2>2, <2>3
<1>3. Seq(Byte) \subseteq T
  <2>. HIDE DEF T
  <2>. QED
    BY <1>2, InductionOnLength
<1>. QED
  BY <1>1, <1>3 DEF Bytes

\* Bytes put together may be taken apart again.
LEMMA ThreeParts ==
    ASSUME NEW x \in Bytes, NEW y \in Bytes, NEW z \in Bytes
    PROVE  (x \o y) \o z = x \o (y \o z)
BY ConcatAssociative DEF Bytes

\* URLs begin with what the proxy is called, whatever the registry.
LEMMA ProxyURLTyped ==
    ASSUME NEW a \in Addrs, NEW m \in Managers
    PROVE  /\ ProxyURL(a, m) \in Bytes
           /\ \A n : Later(m, n) => ProxyURL(a, n) = ProxyURL(a, m)
BY PortsTyped, PortsLater, TextsTyped DEF ProxyURL

\* What b begins with is left as it is, or is a URL that becomes one of the proxy.
LEMMA NewURLCases ==
    ASSUME NEW b \in Bytes, b # <<>>, NEW m \in Registries
    PROVE  \/ /\ (URLOf(b) \cap Foreign) \ m.refused = {}
              /\ NewURL(b, m).out = Take(b, URLEnd(b))
           \/ \E a \in URLOf(b) \cap Foreign :
                 /\ a \notin m.refused /\ a \in NewURL(b, m).m.tunnels
                 /\ URLHost(b) = Len(URLText(a))
                 /\ NewURL(b, m).out = ProxyURL(a, m) \o SubSeq(b, URLHost(b) + 1, URLEnd(b))
<1>. DEFINE url == URLOf(b) \cap Foreign
            host == URLHost(b)
            n == URLEnd(b)
            new == NewURL(b, m)
            rest == SubSeq(b, host + 1, n)
<1>1. m \in Managers /\ url \in SUBSET Foreign
  BY LaterProperties
<1>2. Answered(url, m) = url \ m.refused
  BY <1>1, AnsweredProperties
<1>3. new.m.tunnels = m.tunnels \cup (url \ m.refused)
  <2>1. new.m = EnsureTunnels(url, m)
    BY DEF NewURL, Answer
  <2>. QED
    BY <1>1, <2>1, EnsureTunnelsProperties
<1>4. new.out = Replaced(b, url, host, m) \o rest
  BY DEF NewURL, Answer
<1>5. CASE Answered(url, m) = {}
  <2>1. Replaced(b, url, host, m) = Take(b, host)
    BY <1>5 DEF Replaced
  <2>2. host \in Nat /\ n \in Nat /\ host <= n /\ n <= Len(b) /\ n \in 0 .. Len(b) /\ host \in 0 .. Len(b) /\ n \in host .. Len(b)
    BY URLRange, BytesAreNumbers
  <2>. HIDE DEF host, n
  <2>3. SubSeq(b, 1, n) = SubSeq(b, 1, host) \o SubSeq(b, host + 1, n)
    BY <2>2, SplitTake
  <2>4. new.out = Take(b, n)
    <3>. HIDE DEF new
    <3>. QED
      BY <1>4, <2>1, <2>3 DEF Take
  <2>. QED
    BY <1>2, <1>5, <2>4 DEF n
<1>6. CASE Answered(url, m) # {}
  <2>. DEFINE a == The(url)
  <2>1. a \in url
    BY <1>2, <1>6, TheProperties
  <2>. HIDE DEF a
  <2>2. Replaced(b, url, host, m) = ProxyURL(a, m)
    BY <1>6 DEF Replaced, a
  <2>3. \A c \in URLOf(b) : c = a
    BY <2>1, URLsDiffer
  <2>4. a \notin m.refused
    BY <1>2, <1>6, <2>3
  <2>5. host = Len(URLText(a))
    <3>1. URLOf(b) # {} /\ host = Len(URLText(The(URLOf(b)))) /\ The(URLOf(b)) \in URLOf(b)
      BY <2>1, URLRange
    <3>. HIDE DEF host
    <3>2. The(URLOf(b)) = a
      BY <2>3, <3>1
    <3>. QED
      BY <3>1, <3>2
  <2>6. a \in new.m.tunnels
    BY <1>3, <2>1, <2>4
  <2>. HIDE DEF new
  <2>7. new.out = ProxyURL(a, m) \o rest
    BY <1>4, <2>2
  <2>. QED
    BY <2>1, <2>4, <2>5, <2>6, <2>7 DEF new
<1>. QED
  BY <1>5, <1>6

\* What the search makes of bytes that there are.
LEMMA SearchTaken ==
    ASSUME NEW b \in Bytes, b # <<>>, NEW m \in Registries
    PROVE  /\ URLEnd(b) \in 0 .. Len(b) /\ URLEnd(b) \in Nat
           /\ Drop(b, URLEnd(b)) \in Bytes /\ Len(Drop(b, URLEnd(b))) < Len(b)
           /\ NewURL(b, m).out \in Bytes /\ NewURL(b, m).m \in Registries
           /\ rewriteHTTPURLBytes[Drop(b, URLEnd(b))][NewURL(b, m).m] \in Answers
           /\ Later(NewURL(b, m).m, rewriteHTTPURLBytes[Drop(b, URLEnd(b))][NewURL(b, m).m].m)
           /\ rewriteHTTPURLBytes[b][m].out =
                 NewURL(b, m).out \o rewriteHTTPURLBytes[Drop(b, URLEnd(b))][NewURL(b, m).m].out
           /\ rewriteHTTPURLBytes[b][m].m = rewriteHTTPURLBytes[Drop(b, URLEnd(b))][NewURL(b, m).m].m
<1>. DEFINE n == URLEnd(b)
            d == Drop(b, n)
            r == NewURL(b, m)
            W == rewriteHTTPURLBytes
<1>1. n \in 1 .. Len(b) /\ Len(b) \in Nat /\ m \in Managers
  BY URLRange, BytesAreNumbers, LaterProperties
<1>2. n \in 0 .. Len(b) /\ n \in Nat
  BY <1>1
<1>3. d \in Bytes /\ Len(d) = Len(b) - n
  <2>. HIDE DEF n
  <2>. QED
    BY <1>2, DropProperties DEF Bytes
<1>4. Len(d) < Len(b)
  <2>. HIDE DEF d, n
  <2>. QED
    BY <1>1, <1>3
<1>5. r \in Answers /\ Later(m, r.m)
  BY <1>1, NewURLTyped
<1>6. W[b][m] = After(r.out, W[d][r.m])
  BY <1>1, HTTPURLBytesDef
<1>. HIDE DEF r, d, W
<1>7. r.out \in Bytes /\ r.m \in Managers /\ r.m \in Registries
  BY <1>5, LaterProperties DEF Answers
<1>8. W[d][r.m] \in Answers /\ Later(r.m, W[d][r.m].m)
  BY <1>3, <1>7, HTTPURLBytesDef DEF W, Growing, Rewritings, Maps
<1>9. W[b][m].out = r.out \o W[d][r.m].out /\ W[b][m].m = W[d][r.m].m
  BY <1>6, <1>7, <1>8, AfterTyped
<1>. QED
  BY <1>2, <1>3, <1>4, <1>7, <1>8, <1>9 DEF r, d, W, n

\* The search puts URLs of tunnels where URLs were, and copies the rest.
LEMMA SearchProxies ==
    ASSUME NEW b \in Bytes, NEW m \in Registries, NEW n, Later(rewriteHTTPURLBytes[b][m].m, n)
    PROVE  rewriteHTTPURLBytes[b][m].out \in URLsProxied(n)[b]
<1>. DEFINE W == rewriteHTTPURLBytes
            P == URLsProxied(n)
            T == {c \in Bytes : \A o \in Registries : Later(W[c][o].m, n) => W[c][o].out \in P[c]}
<1>1. ASSUME NEW c \in Seq(Byte), \A d \in Seq(Byte) : Len(d) < Len(c) => d \in T
      PROVE  c \in T
  <2>1. c \in Bytes
    BY DEF Bytes
  <2>. SUFFICES ASSUME NEW o \in Registries, Later(W[c][o].m, n) PROVE W[c][o].out \in P[c]
    BY <2>1
  <2>2. o \in Managers
    BY LaterProperties
  <2>3. P[c] = {e \in Bytes : SearchStep(P, c, e, n)}
    BY <2>1, URLsProxiedDef
  <2>4. CASE c = <<>>
    <3>1. W[c][o] = [out |-> c, m |-> o]
      BY <2>1, <2>2, <2>4, HTTPURLBytesDef DEF Answer
    <3>2. W[c][o].out = c
      BY <3>1
    <3>. HIDE DEF W, P
    <3>. QED
      BY <2>1, <2>3, <2>4, <3>2 DEF SearchStep
  <2>5. CASE c # <<>>
    <3>. DEFINE k == URLEnd(c)
                host == URLHost(c)
                d == Drop(c, k)
                r == NewURL(c, o)
                more == W[d][r.m]
    <3>1. /\ k \in 0 .. Len(c) /\ k \in Nat /\ d \in Bytes /\ Len(d) < Len(c)
          /\ r.out \in Bytes /\ r.m \in Registries
          /\ more \in Answers /\ Later(r.m, more.m)
          /\ W[c][o].out = r.out \o more.out /\ W[c][o].m = more.m
      BY <2>1, <2>5, SearchTaken
    <3>2. more.out \in P[d] /\ more.out \in Bytes
      <4>1. d \in T
        BY <1>1, <3>1 DEF Bytes
      <4>. HIDE DEF W, P, r, d
      <4>. QED
        BY <3>1, <4>1 DEF Answers
    <3>3. Take(c, k) \o d = c
      BY <2>1, <3>1, TakeThenDrop DEF Bytes
    <3>4. CASE r.out = Take(c, k)
      <4>1. Take(c, k) \in Bytes
        BY <3>1, <3>4
      <4>. HIDE DEF W, r, d, k, P, more
      <4>2. Take(c, k) \o more.out \in P[Take(c, k) \o d]
        BY <3>1, <3>2, <4>1, Copied DEF P
      <4>. QED
        BY <3>1, <3>3, <3>4, <4>2
    <3>5. ASSUME NEW a \in URLOf(c) \cap Foreign, a \in r.m.tunnels, host = Len(URLText(a)),
                 r.out = ProxyURL(a, o) \o SubSeq(c, host + 1, k)
          PROVE  W[c][o].out \in P[c]
      <4>. DEFINE x == ProxyURL(a, o)
                  y == SubSeq(c, host + 1, k)
                  z == more.out
      <4>1. a \in Addrs
        BY DEF Foreign
      <4>2. more.m \in Managers
        BY <3>1 DEF Answers
      <4>3. Later(o, r.m) /\ Later(o, n)
        <5>1. Later(o, r.m)
          BY <2>1, <2>2, <2>5, NewURLTyped
        <5>. HIDE DEF W, r, more, P
        <5>2. r.m \in Managers /\ n \in Managers /\ Later(more.m, n)
          BY <3>1, LaterProperties DEF Later
        <5>3. Later(o, more.m)
          BY <2>2, <3>1, <4>2, <5>1, <5>2, LaterProperties
        <5>4. Later(o, n)
          BY <2>2, <4>2, <5>2, <5>3, LaterProperties
        <5>. QED
          BY <5>1, <5>4
      <4>4. a \in n.tunnels
        <5>. HIDE DEF W, r, more
        <5>. QED
          BY <3>1, <3>5 DEF Later
      <4>5. x \in Bytes /\ ProxyURL(a, n) = x
        BY <2>2, <4>1, <4>3, ProxyURLTyped
      <4>6. host \in 0 .. Len(c) /\ host \in Nat /\ k \in host .. Len(c)
        BY <2>1, <2>5, URLRange, BytesAreNumbers
      <4>7. y \in Bytes
        BY <2>1, <3>1, <4>6, SubSeqOfBytes
      <4>8. Drop(c, host) = y \o d
        <5>1. host + 1 \in 1 .. Len(c) + 1 /\ k \in (host + 1) - 1 .. Len(c) /\ Len(c) \in k .. Len(c)
          <6>. HIDE DEF host, k
          <6>1. Len(c) \in Nat
            BY <2>1, BytesAreNumbers
          <6>. QED
            BY <3>1, <4>6, <6>1
        <5>. HIDE DEF host, k
        <5>2. SubSeq(c, host + 1, k) \o SubSeq(c, k + 1, Len(c)) = SubSeq(c, host + 1, Len(c))
          BY <5>1, ConcatAdjacentSubSeq
        <5>. QED
          BY <5>2 DEF Drop
      <4>9. y \o z \in P[Drop(c, host)]
        <5>. HIDE DEF W, r, d, P, y, more
        <5>1. y \o z \in P[y \o d]
          BY <3>1, <3>2, <4>7, Copied DEF P
        <5>. QED
          BY <4>8, <5>1
      <4>10. W[c][o].out = x \o (y \o z)
        <5>1. W[c][o].out = (x \o y) \o z
          BY <3>1, <3>5
        <5>. HIDE DEF W, r, x, y, more
        <5>2. (x \o y) \o z = x \o (y \o z)
          BY <3>2, <4>5, <4>7, ThreeParts
        <5>. QED
          BY <5>1, <5>2
      <4>. DEFINE yz == y \o z
      <4>. HIDE DEF x, y, W, r, d, more, P
      <4>11. yz \in Seq(Byte) /\ x \in Seq(Byte)
        <5>1. y \in Seq(Byte) /\ z \in Seq(Byte)
          BY <3>2, <4>7 DEF Bytes
        <5>. QED
          BY <4>5, <5>1, ConcatProperties DEF Bytes
      <4>. HIDE DEF yz
      <4>12. /\ x \o yz \in Bytes /\ IsPrefix(x, x \o yz) /\ Drop(x \o yz, Len(x)) = yz
        <5>1. Take(x \o yz, Len(x)) = x /\ Drop(x \o yz, Len(x)) = yz
          BY <4>11, SplitConcat
        <5>2. x \o yz \in Seq(Byte) /\ Len(x \o yz) = Len(x) + Len(yz) /\ Len(x) \in Nat /\ Len(yz) \in Nat
          BY <4>11, ConcatProperties, LenProperties
        <5>3. Len(x) <= Len(x \o yz) /\ x \o yz \in Bytes
          BY <5>2 DEF Bytes
        <5>4. IsPrefix(x, x \o yz)
          BY <4>5, <5>1, <5>3, PrefixProperties
        <5>. QED
          BY <5>1, <5>3, <5>4
      <4>13. SearchStep(P, c, x \o yz, n)
        <5>1. yz \in P[Drop(c, Len(URLText(a)))]
          BY <3>5, <4>9 DEF yz
        <5>. QED
          BY <2>5, <4>4, <4>5, <4>12, <5>1 DEF SearchStep
      <4>. QED
        BY <2>3, <4>10, <4>12, <4>13 DEF yz
    <3>. QED
      BY <2>1, <2>5, <3>4, <3>5, NewURLCases
  <2>. QED
    BY <2>4, <2>5
<1>2. Seq(Byte) \subseteq T
  <2>. HIDE DEF T
  <2>. QED
    BY <1>1, InductionOnLength
<1>. QED
  BY <1>2 DEF Bytes

\* What two things put together begin with.
LEMMA PrefixOfConcat ==
    ASSUME NEW x \in Bytes, NEW y \in Bytes
    PROVE  /\ x \o y \in Bytes /\ IsPrefix(x, x \o y)
           /\ \A e \in Bytes : IsPrefix(e, y) => IsPrefix(x \o e, x \o y)
<1>1. x \in Seq(Byte) /\ y \in Seq(Byte) /\ Len(x) \in Nat /\ Len(y) \in Nat
  BY BytesAreNumbers DEF Bytes
<1>2. /\ x \o y \in Bytes /\ Len(x \o y) = Len(x) + Len(y)
      /\ \A i \in 1 .. Len(x) + Len(y) : (x \o y)[i] = IF i <= Len(x) THEN x[i] ELSE y[i - Len(x)]
  BY <1>1, ConcatProperties DEF Bytes
<1>. DEFINE xy == x \o y
<1>. HIDE DEF xy
<1>3. IsPrefix(x, xy)
  <2>1. xy \in Bytes /\ Len(x) <= Len(xy) /\ \A i \in 1 .. Len(x) : x[i] = xy[i]
    BY <1>1, <1>2 DEF xy
  <2>. QED
    BY <2>1, PrefixProperties
<1>4. ASSUME NEW e \in Bytes, IsPrefix(e, y) PROVE IsPrefix(x \o e, xy)
  <2>. DEFINE xe == x \o e
  <2>1. Len(e) \in Nat /\ Len(e) <= Len(y) /\ \A i \in 1 .. Len(e) : e[i] = y[i]
    BY <1>4, PrefixProperties, BytesAreNumbers
  <2>2. /\ xe \in Bytes /\ Len(xe) = Len(x) + Len(e)
        /\ \A i \in 1 .. Len(x) + Len(e) : xe[i] = IF i <= Len(x) THEN x[i] ELSE e[i - Len(x)]
    <3>1. e \in Seq(Byte)
      BY DEF Bytes
    <3>. QED
      BY <1>1, <3>1, ConcatProperties DEF Bytes
  <2>. HIDE DEF xe
  <2>3. ASSUME NEW i \in 1 .. Len(xe) PROVE xe[i] = xy[i]
    <3>1. i \in 1 .. Len(x) + Len(e) /\ i \in 1 .. Len(x) + Len(y)
      BY <1>1, <2>1, <2>2
    <3>2. xy[i] = IF i <= Len(x) THEN x[i] ELSE y[i - Len(x)]
      BY <1>2, <3>1 DEF xy
    <3>3. CASE i <= Len(x)
      BY <2>2, <3>1, <3>2, <3>3
    <3>4. CASE ~(i <= Len(x))
      <4>1. i - Len(x) \in 1 .. Len(e)
        BY <1>1, <2>1, <3>1, <3>4
      <4>. QED
        BY <2>1, <2>2, <3>1, <3>2, <3>4, <4>1
    <3>. QED
      BY <3>3, <3>4
  <2>4. Len(xe) <= Len(xy) /\ xy \in Bytes
    BY <1>1, <1>2, <2>1, <2>2 DEF xy
  <2>5. IsPrefix(xe, xy)
    BY <2>2, <2>3, <2>4, PrefixProperties
  <2>. QED
    BY <2>5 DEF xe
<1>. QED
  BY <1>2, <1>3, <1>4 DEF xy

\* A beginning of what is left of b is between two places of it.
LEMMA TakeOfDrop ==
    ASSUME NEW b \in Bytes, NEW m \in 0 .. Len(b), NEW n \in 0 .. Len(b) - m
    PROVE  Take(Drop(b, m), n) = SubSeq(b, m + 1, m + n)
<1>1. Len(b) \in Nat /\ m \in Nat /\ n \in Nat /\ m + n <= Len(b)
  BY BytesAreNumbers
<1>2. Drop(b, m) \in Seq(Byte) /\ Len(Drop(b, m)) = Len(b) - m /\ \A i \in 1 .. Len(b) - m : Drop(b, m)[i] = b[m + i]
  BY DropProperties DEF Bytes
<1>. DEFINE d == Drop(b, m)
            s == Take(d, n)
            t == SubSeq(b, m + 1, m + n)
<1>. HIDE DEF d
<1>3. s \in Seq(Byte) /\ Len(s) = n /\ \A i \in 1 .. n : s[i] = d[i]
  <2>1. n \in 0 .. Len(d) /\ d \in Seq(Byte)
    BY <1>2 DEF d
  <2>. QED
    BY <2>1, TakeProperties
<1>4. t \in Seq(Byte) /\ Len(t) = n /\ \A i \in 1 .. n : t[i] = b[m + i]
  <2>1. m + 1 \in Int /\ m + n \in Int /\ \A i \in m + 1 .. m + n : b[i] \in Byte
    <3>1. \A i \in m + 1 .. m + n : i \in 1 .. Len(b)
      BY <1>1
    <3>. QED
      BY <1>1, <3>1, BytesAreNumbers
  <2>. QED
    BY <1>1, <2>1
<1>5. \A i \in 1 .. n : d[i] = b[m + i]
  <2>1. \A i \in 1 .. n : i \in 1 .. Len(b) - m
    BY <1>1
  <2>. QED
    BY <1>2, <2>1 DEF d
<1>. HIDE DEF s, t
<1>6. s = t
  <2>1. Len(s) = Len(t) /\ \A i \in 1 .. Len(s) : s[i] = t[i]
    BY <1>3, <1>4, <1>5
  <2>. QED
    BY ONLY <1>3, <1>4, <2>1, SeqEqual
<1>. QED
  BY <1>6 DEF s, t, d

\* The first URL in b is that of a, at i.
FirstAt(b, i, a) == a \in URLOf(Drop(b, i - 1)) /\ \A j \in 1 .. i - 1 : URLOf(Drop(b, j - 1)) = {}

\* The search replaces the first URL there is.
LEMMA FirstURLReplaced ==
    ASSUME NEW b \in Bytes, NEW m \in Registries, NEW n, Later(rewriteHTTPURLBytes[b][m].m, n),
           NEW i \in 1 .. Len(b), NEW a \in Foreign, a \notin m.refused, FirstAt(b, i, a)
    PROVE  IsPrefix(Take(b, i - 1) \o ProxyURL(a, n), rewriteHTTPURLBytes[b][m].out)
<1>. DEFINE W == rewriteHTTPURLBytes
            Good(c, o, k) == IsPrefix(Take(c, k - 1) \o ProxyURL(a, n), W[c][o].out)
            T == {c \in Bytes : \A o \in Registries, k \in 1 .. Len(c) :
                     Later(W[c][o].m, n) /\ a \notin o.refused /\ FirstAt(c, k, a) => Good(c, o, k)}
<1>1. ASSUME NEW c \in Seq(Byte), \A d \in Seq(Byte) : Len(d) < Len(c) => d \in T
      PROVE  c \in T
  <2>1. c \in Bytes /\ Len(c) \in Nat
    BY BytesAreNumbers DEF Bytes
  <2>. SUFFICES ASSUME NEW o \in Registries, NEW k \in 1 .. Len(c), Later(W[c][o].m, n), a \notin o.refused,
                       FirstAt(c, k, a)
                PROVE  Good(c, o, k)
    BY <2>1
  <2>. DEFINE e == URLEnd(c)
              host == URLHost(c)
              d == Drop(c, e)
              r == NewURL(c, o)
              more == W[d][r.m]
              x == ProxyURL(a, n)
  <2>2. c # <<>> /\ o \in Managers /\ a \in Addrs
    <3>1. Len(<<>>) = 0
      OBVIOUS
    <3>. QED
      BY <2>1, <3>1, LaterProperties DEF Foreign
  <2>3. /\ e \in 0 .. Len(c) /\ e \in Nat /\ d \in Bytes /\ Len(d) < Len(c)
        /\ r.out \in Bytes /\ r.m \in Registries
        /\ more \in Answers /\ Later(r.m, more.m)
        /\ W[c][o].out = r.out \o more.out /\ W[c][o].m = more.m
    BY <2>1, <2>2, SearchTaken
  <2>4. more.out \in Bytes /\ more.m \in Managers
    BY <2>3 DEF Answers
  <2>5. Later(o, r.m)
    BY <2>1, <2>2, NewURLTyped
  <2>6. ProxyURL(a, o) \in Bytes /\ x = ProxyURL(a, o) /\ x \in Bytes
    <3>. HIDE DEF W, r, more, d
    <3>1. r.m \in Managers /\ n \in Managers /\ Later(more.m, n)
      BY <2>3, LaterProperties DEF Later
    <3>2. Later(o, more.m)
      BY <2>2, <2>3, <2>4, <2>5, <3>1, LaterProperties
    <3>3. Later(o, n)
      BY <2>2, <2>4, <3>1, <3>2, LaterProperties
    <3>. QED
      BY <2>2, <3>3, ProxyURLTyped
  <2>7. CASE k = 1
    <3>1. Drop(c, 1 - 1) = c
      <4>1. SubSeq(c, 1, Len(c)) = c
        BY SubSeqFull
      <4>. QED
        BY <4>1 DEF Drop
    <3>2. a \in URLOf(c)
      BY <2>7, <3>1 DEF FirstAt
    <3>3. r.out = x \o SubSeq(c, host + 1, e)
      <4>1. (URLOf(c) \cap Foreign) \ o.refused # {}
        BY <3>2
      <4>2. PICK a1 \in URLOf(c) \cap Foreign : r.out = ProxyURL(a1, o) \o SubSeq(c, host + 1, e)
        BY <2>1, <2>2, <4>1, NewURLCases
      <4>3. a1 = a
        BY <2>1, <3>2, URLsDiffer
      <4>. HIDE DEF r, e, host, x
      <4>. QED
        BY <2>6, <4>2, <4>3
    <3>4. Take(c, k - 1) \o x = x
      <4>1. Take(c, k - 1) = <<>>
        <5>1. Take(c, 0) \in Seq(Byte) /\ Len(Take(c, 0)) = 0
          BY <2>1, TakeProperties
        <5>2. Take(c, 0) = <<>>
          BY <5>1, EmptySeq
        <5>. QED
          BY <2>7, <5>2
      <4>. HIDE DEF x
      <4>. QED
        BY <2>6, <4>1, ConcatEmptySeq DEF Bytes
    <3>. DEFINE y == SubSeq(c, host + 1, e)
                z == more.out
    <3>5. y \in Bytes
      <4>1. host \in Nat
        BY <2>1, <2>2, URLRange
      <4>. HIDE DEF host, e
      <4>. QED
        BY <2>1, <2>3, <4>1, SubSeqOfBytes
    <3>6. W[c][o].out = (x \o y) \o z
      BY <2>3, <3>3
    <3>. HIDE DEF W, r, x, y, z, e, d, more
    <3>7. (x \o y) \o z = x \o (y \o z)
      BY <2>4, <2>6, <3>5, ThreeParts DEF z
    <3>8. y \o z \in Bytes
      BY <2>4, <3>5, PrefixOfConcat DEF z
    <3>9. IsPrefix(x, x \o (y \o z))
      BY <2>6, <3>8, PrefixOfConcat
    <3>. QED
      BY <3>4, <3>6, <3>7, <3>9 DEF x
  <2>8. CASE k # 1
    <3>1. k - 1 \in 1 .. Len(c) - 1 /\ 1 \in 1 .. k - 1 /\ 1 \in 0 .. Len(c) /\ k \in Nat
      BY <2>1, <2>8
    <3>2. URLOf(c) = {}
      <4>1. Drop(c, 1 - 1) = c
        <5>1. SubSeq(c, 1, Len(c)) = c
          BY SubSeqFull
        <5>. QED
          BY <5>1 DEF Drop
      <4>2. URLOf(Drop(c, 1 - 1)) = {}
        BY <3>1 DEF FirstAt
      <4>. QED
        BY <4>1, <4>2
    <3>3. e = 1
      <4>1. host = 1
        BY <3>2 DEF URLHost, MatchLen
      <4>2. e = host + 0
        BY <3>2 DEF URLEnd, PathAfter
      <4>. QED
        BY <4>1, <4>2
    <3>4. r.out = Take(c, 1)
      <4>1. r.out = Take(c, e)
        BY <2>1, <2>2, <3>2, NewURLCases
      <4>. HIDE DEF r, e
      <4>. QED
        BY <3>3, <4>1
    <3>. HIDE DEF r, e, W
    <3>5. d = Drop(c, 1)
      BY <3>3
    <3>. HIDE DEF d
    <3>6. d \in Seq(Byte) /\ Len(d) = Len(c) - 1
      BY <2>1, <3>1, <3>5, DropProperties
    <3>7. ASSUME NEW j \in 1 .. k - 1 PROVE Drop(d, j - 1) = Drop(c, (j + 1) - 1)
      <4>1. j - 1 \in 0 .. Len(c) - 1 /\ 1 + (j - 1) = (j + 1) - 1
        BY <2>1, <3>1
      <4>2. Drop(Drop(c, 1), j - 1) = Drop(c, 1 + (j - 1))
        BY <3>1, <4>1, DropOfDrop
      <4>. QED
        BY <3>5, <4>1, <4>2
    <3>8. FirstAt(d, k - 1, a)
      <4>1. k - 1 \in 1 .. k - 1 /\ (k - 1) + 1 = k
        BY <3>1
      <4>2. a \in URLOf(Drop(d, (k - 1) - 1))
        <5>1. Drop(d, (k - 1) - 1) = Drop(c, k - 1)
          BY <3>7, <4>1
        <5>. QED
          BY <5>1 DEF FirstAt
      <4>3. ASSUME NEW j \in 1 .. (k - 1) - 1 PROVE URLOf(Drop(d, j - 1)) = {}
        <5>1. j \in 1 .. k - 1 /\ j + 1 \in 1 .. k - 1
          BY <3>1
        <5>2. Drop(d, j - 1) = Drop(c, (j + 1) - 1)
          BY <3>7, <5>1
        <5>. QED
          BY <5>1, <5>2 DEF FirstAt
      <4>. QED
        BY <4>2, <4>3 DEF FirstAt
    <3>9. Good(d, r.m, k - 1)
      <4>1. d \in T
        BY <1>1, <2>3, <3>6
      <4>2. k - 1 \in 1 .. Len(d) /\ a \notin r.m.refused /\ r.m \in Registries /\ Later(W[d][r.m].m, n)
        BY <2>3, <2>5, <3>1, <3>6 DEF Later
      <4>. HIDE DEF Good
      <4>. QED
        BY <3>8, <4>1, <4>2
    <3>. DEFINE t == Take(d, (k - 1) - 1)
                w == t \o x
                v == Take(c, 1)
    <3>10. t \in Bytes /\ v \in Bytes
      <4>1. (k - 1) - 1 \in 0 .. Len(d) /\ 1 \in 0 .. Len(c)
        BY <2>1, <3>1, <3>6
      <4>. QED
        BY <2>1, <3>6, <4>1, TakeProperties DEF Bytes
    <3>11. Take(c, k - 1) = v \o t
      <4>1. Take(Drop(c, 1), k - 2) = SubSeq(c, 1 + 1, 1 + (k - 2))
        <5>1. k - 2 \in 0 .. Len(c) - 1
          BY <2>1, <3>1
        <5>. QED
          BY <2>1, <3>1, <5>1, TakeOfDrop
      <4>2. (k - 1) - 1 = k - 2 /\ 1 + (k - 2) = k - 1
        BY <3>1
      <4>3. t = SubSeq(c, 1 + 1, k - 1)
        BY <3>5, <4>1, <4>2
      <4>4. k - 1 \in 0 .. Len(c) /\ 1 \in 0 .. k - 1
        BY <2>1, <3>1
      <4>5. SubSeq(c, 1, k - 1) = SubSeq(c, 1, 1) \o SubSeq(c, 1 + 1, k - 1)
        BY <4>4, SplitTake
      <4>. HIDE DEF t
      <4>. QED
        BY <4>3, <4>5 DEF Take
    <3>. HIDE DEF t, v, x
    <3>12. w \in Bytes /\ (v \o t) \o x = v \o w
      <4>1. x \in Bytes /\ t \in Bytes /\ v \in Bytes
        BY <2>6, <3>10
      <4>2. t \o x \in Bytes
        BY ONLY <4>1, PrefixOfConcat
      <4>3. (v \o t) \o x = v \o (t \o x)
        BY ONLY <4>1, ThreeParts
      <4>. QED
        BY <4>2, <4>3
    <3>13. IsPrefix(w, more.out)
      BY <3>9 DEF t, x
    <3>. HIDE DEF w, more
    <3>14. IsPrefix(v \o w, v \o more.out)
      BY <2>4, <3>10, <3>12, <3>13, PrefixOfConcat
    <3>15. W[c][o].out = v \o more.out
      BY <2>3, <3>4 DEF v
    <3>16. Take(c, k - 1) \o x = v \o w
      BY <3>11, <3>12
    <3>. QED
      BY <3>14, <3>15, <3>16 DEF x
  <2>. QED
    BY <2>7, <2>8
<1>2. Seq(Byte) \subseteq T
  <2>. HIDE DEF T
  <2>. QED
    BY <1>1, InductionOnLength
<1>3. b \in T
  BY <1>2 DEF Bytes
<1>. QED
  BY <1>3

\* Everything that the invariant says of the frame written, followed from the frame
\* that was read.
LEMMA LeadsHolds == IInv => LeadsWhereTheFrameSaid
<1>. SUFFICES ASSUME IInv, pc = "write" PROVE LeadsWhereTheFrameSaid
  BY DEF LeadsWhereTheFrameSaid
<1>1. /\ TypeOK /\ FrameRead /\ Rewritten /\ frame.body \in Bytes
      /\ Found \in Registries /\ Found \in Managers /\ Found.tunnels = before
      /\ Walked.m \in Registries /\ Walked.m \in Managers /\ Later(Found, Walked.m)
      /\ Manager.refused = refused /\ Manager.closed = closed /\ Manager.tunnels = tunnels
      /\ Manager \in Managers /\ Later(Walked.m, Manager)
      /\ walked.body = Walked.out /\ sent.body = Searched.out
  BY Afterwards, LaterProperties DEF IInv
<1>2. Walked.out \in Bytes /\ Later(Walked.m, Searched.m) /\ Searched.m \in Managers /\ Searched.m.tunnels = tunnels
  BY <1>1, RewrittenTyped DEF Rewritten, Answers
<1>3. Later(Searched.m, Manager)
  BY <1>1, <1>2 DEF Later
<1>4. ASSUME NEW a \in tunnels \ before
      PROVE  \/ a \in GameAddrs /\ Occurs(Text(a), frame.body)
             \/ a \in parseLobbyProtobufContext(frame.body)
             \/ Occurs(URLText(a), frame.body) \/ Occurs(URLText(a), walked.body)
  <2>1. Walked.m.tunnels \subseteq before \cup parseLobbyProtobufContext(frame.body) \cup Named(frame.body)
    BY <1>1, WalkedNames DEF Walked
  <2>2. Searched.m.tunnels \subseteq Walked.m.tunnels \cup NamedURLs(Walked.out)
    BY <1>1, <1>2, SearchNames DEF Searched
  <2>. QED
    BY <1>1, <1>2, <1>4, <2>1, <2>2 DEF Named, NamedURLs
<1>5. sent.body \in URLsProxied(Manager)[walked.body]
  BY <1>1, <1>2, <1>3, SearchProxies DEF Searched
<1>6. ASSUME NEW i \in DOMAIN walked.body, NEW a \in URLOf(Drop(walked.body, i - 1)) \cap Foreign,
             a \notin refused, \A j \in 1 .. i - 1 : URLOf(Drop(walked.body, j - 1)) = {}
      PROVE  IsPrefix(Take(walked.body, i - 1) \o ProxyURL(a, Manager), sent.body)
  <2>1. FirstAt(walked.body, i, a)
    BY <1>6 DEF FirstAt
  <2>2. i \in 1 .. Len(walked.body)
    BY <1>1, <1>2, LenProperties DEF Bytes
  <2>3. a \notin Walked.m.refused
    BY <1>1, <1>6 DEF Later
  <2>. QED
    BY <1>1, <1>2, <1>3, <2>1, <2>2, <2>3, FirstURLReplaced DEF Searched
<1>. QED
  BY <1>4, <1>5, <1>6 DEF LeadsWhereTheFrameSaid

\* Tunnels are made for addresses that the frame names, and for no others; the search
\* for URLs puts nothing into a frame but URLs of tunnels, each where one of the
\* address it leads to was (EnsureTunnel, rewriteHTTPURLBytes).
THEOREM LeadsWhereItSaid == Spec => []LeadsWhereTheFrameSaid
BY LeadsHolds, Invariance, PTL

===============================================================================
