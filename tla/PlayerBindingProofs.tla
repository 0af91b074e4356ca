------------------------- MODULE PlayerBindingProofs -------------------------
(***************************************************************************)
(* What PlayerBinding promises, for any sessions, addresses, accounts,      *)
(* characters, nicks, maps, game servers and tunnels.                       *)
(***************************************************************************)
EXTENDS PlayerBinding, WellFoundedInduction, SequenceTheorems, TLAPS

(***************************************************************************)
(* The inductive invariant                                                 *)
(***************************************************************************)
\* A client is shown only characters whose nicks are remembered, so its
\* selections find them.
NicksComeFirst ==
    \A s \in Sessions : \A c \in shown[s] \cup frame[s] : nicks[s][c] # Empty

\* What a copier has found out at each step of a binding.
Bound ==
    \A s \in Sessions :
        /\ pc[s] \in {"snapshot", "lookup"} => binding[s].key \in Keys
        /\ pc[s] \in {"lookup", "map", "upsert"} => binding[s].nick \in Nicks
        /\ pc[s] \in {"map", "upsert"} => binding[s].tunnel \in TunnelIds

\* The maps a session may be listed with.
Chosen(s) == {binding[s].mapThen} \cup binding[s].selected

\* Until it is read, the map of the session is one of those.
MapKnown ==
    \A s \in Sessions : /\ MapUnread(s) => identity[s].map \in Chosen(s)
                        /\ pc[s] = "upsert" => binding[s].map \in Chosen(s)

PairOf(e) == [account |-> e.account, peer |-> e.peer]

\* Who is listed was given to the tunnel.
ListedWereBound ==
    \A t \in TunnelIds : \A i \in DOMAIN udpPlayers[t] : PairOf(udpPlayers[t][i]) \in bound[t]

IInv == /\ TypeOK
        /\ NicksComeFirst /\ Bound /\ MapKnown
        /\ ListedWereBound /\ OneEntryAPlayer /\ PlayersStayListed

\* The initial state satisfies the invariant.
LEMMA InitIInv == Init => IInv
<1> SUFFICES ASSUME Init PROVE IInv
    OBVIOUS
<1>1. TypeOK
    BY DEF Init, TypeOK, NoIdentity, NoBinding, Named, Identities, Bindings
<1>2. NicksComeFirst /\ Bound /\ MapKnown
    BY DEF Init, NicksComeFirst, Bound, MapKnown, MapUnread
<1>3. ListedWereBound /\ OneEntryAPlayer /\ PlayersStayListed
    BY DEF Init, ListedWereBound, OneEntryAPlayer, PlayersStayListed
<1> QED
    BY <1>1, <1>2, <1>3 DEF IInv

(***************************************************************************)
(* An upsert                                                               *)
(***************************************************************************)
Less == {pq \in Nat \X Nat : pq[1] < pq[2]}

LEMMA LessIsWellFounded == IsWellFoundedOn(Less, Nat)
BY NatLessThanWellFounded DEF OpToRel, Less

\* A set of numbers that is not empty has a first one.
LEMMA FirstNumber ==
    ASSUME NEW S, S \subseteq Nat, S # {}
    PROVE  \E m \in S : \A k \in S : m <= k
<1>1. PICK m \in S : \A k \in S : ~ (<<k, m>> \in Less)
    BY LessIsWellFounded, WFMin, Zenon
<1>2. ASSUME NEW k \in S PROVE m <= k
  <2>1. m \in Nat /\ k \in Nat /\ ~ (<<k, m>> \in Less)
    BY <1>1
  <2> QED
    BY <2>1 DEF Less
<1> QED
    BY <1>2

\* An upsert appends a player whom no entry matches, or puts him in the place of
\* one that does.
LEMMA UpsertedIs ==
    ASSUME NEW list \in Seq(Entry), NEW p \in Entry
    PROVE  \/ /\ \A i \in DOMAIN list : ~Matches(list[i], p)
              /\ Upserted(list, p) = Append(list, p)
           \/ \E h \in DOMAIN list :
                 /\ Matches(list[h], p)
                 /\ Upserted(list, p) = [list EXCEPT ![h] = p]
<1> DEFINE hits == {i \in DOMAIN list : Matches(list[i], p)}
<1>1. CASE hits = {}
    BY <1>1 DEF Upserted
<1>2. CASE hits # {}
  <2>1. hits \subseteq Nat
    OBVIOUS
  <2>2. \E m \in hits : \A k \in hits : m <= k
    BY <1>2, <2>1, FirstNumber
  <2>3. PICK h \in hits : h = CHOOSE i \in hits : \A j \in hits : i <= j
    BY <2>2
  <2>4. Upserted(list, p) = [list EXCEPT ![h] = p]
    BY <1>2, <2>3 DEF Upserted
  <2> QED
    BY <2>3, <2>4
<1> QED
    BY <1>1, <1>2

\* The two conditions on what was given to a tunnel, for any such record B.
Own(B, a) == \A e, f \in B : e.account = a /\ f.peer = e.peer => f.account = a
From(B, q) == \A e, f \in B : e.peer = q /\ e.account # Empty /\ f.account = e.account => f.peer = q

\* The three promises about a list and the record of it.
Recorded(list, B) == \A i \in DOMAIN list : PairOf(list[i]) \in B
Once(list, B) ==
    \A i, j \in DOMAIN list :
        /\ list[i].account = list[j].account /\ list[i].account # Empty
           /\ Own(B, list[i].account) => i = j
        /\ list[i].peer = list[j].peer /\ From(B, list[i].peer) => i = j
Staying(list, B) ==
    \A e \in B :
        /\ e.account # Empty /\ Own(B, e.account) =>
              \E i \in DOMAIN list : list[i].account = e.account
        /\ From(B, e.peer) => \E i \in DOMAIN list : list[i].peer = e.peer

\* A longer record fulfils the conditions for nobody new.
LEMMA Narrower ==
    ASSUME NEW B, NEW C, B \subseteq C
    PROVE  /\ \A a : Own(C, a) => Own(B, a)
           /\ \A q : From(C, q) => From(B, q)
BY DEF Own, From

\* An entry that an upsert of p may replace has the account and the address of p
\* as far as the conditions say so.
LEMMA MatchedIsOwn ==
    ASSUME NEW e, NEW p, NEW C, PairOf(e) \in C, PairOf(p) \in C, Matches(e, p)
    PROVE  /\ Own(C, p.account) => e.account = p.account
           /\ Own(C, e.account) => p.account = e.account
           /\ From(C, p.peer) => e.peer = p.peer
           /\ From(C, e.peer) => p.peer = e.peer
<1>1. /\ PairOf(e).account = e.account /\ PairOf(e).peer = e.peer
      /\ PairOf(p).account = p.account /\ PairOf(p).peer = p.peer
    BY DEF PairOf
<1>2. (p.account # Empty /\ e.account = p.account) \/ e.peer = p.peer
    BY DEF Matches
<1> QED
    BY <1>1, <1>2 DEF Own, From

\* The promises survive the upsert of a player whom no entry matches,
LEMMA AppendedKeeps ==
    ASSUME NEW list \in Seq(Entry), NEW p \in Entry, NEW B,
           \A i \in DOMAIN list : ~Matches(list[i], p),
           Recorded(list, B), Once(list, B), Staying(list, B)
    PROVE  LET new == Append(list, p)
               C == B \cup {PairOf(p)} IN
           Recorded(new, C) /\ Once(new, C) /\ Staying(new, C)
<1> DEFINE new == Append(list, p)
           C == B \cup {PairOf(p)}
           n == Len(list) + 1
<1>1. /\ DOMAIN list = 1 .. Len(list) /\ DOMAIN new = 1 .. n /\ Len(list) \in Nat
      /\ new[n] = p /\ \A i \in DOMAIN list : new[i] = list[i]
    OBVIOUS
<1>2. /\ DOMAIN new = DOMAIN list \cup {n} /\ n \notin DOMAIN list
    BY <1>1
<1>3. PairOf(p).account = p.account /\ PairOf(p).peer = p.peer
    BY DEF PairOf
<1>4. /\ \A a : Own(C, a) => Own(B, a)
      /\ \A q : From(C, q) => From(B, q)
    BY Narrower
<1>5. \A i \in DOMAIN list : /\ list[i].peer # p.peer
                             /\ p.account # Empty => list[i].account # p.account
    BY DEF Matches
<1> HIDE DEF new, C, n
<1>6. Recorded(new, C)
    BY <1>1, <1>2 DEF Recorded, C
<1>7. Once(new, C)
  <2> SUFFICES ASSUME NEW i \in DOMAIN new, NEW j \in DOMAIN new
               PROVE  /\ new[i].account = new[j].account /\ new[i].account # Empty
                         /\ Own(C, new[i].account) => i = j
                      /\ new[i].peer = new[j].peer /\ From(C, new[i].peer) => i = j
    BY DEF Once
  <2>1. CASE i \in DOMAIN list /\ j \in DOMAIN list
    BY <1>1, <1>4, <2>1 DEF Once
  <2>2. CASE i = n \/ j = n
    BY <1>1, <1>2, <1>5, <2>2
  <2> QED
    BY <1>2, <2>1, <2>2
<1>8. Staying(new, C)
  <2> SUFFICES ASSUME NEW e \in C
               PROVE  /\ e.account # Empty /\ Own(C, e.account) =>
                            \E i \in DOMAIN new : new[i].account = e.account
                      /\ From(C, e.peer) => \E i \in DOMAIN new : new[i].peer = e.peer
    BY DEF Staying
  <2>1. CASE e \in B
    BY <1>1, <1>2, <1>4, <2>1 DEF Staying
  <2>2. CASE e = PairOf(p)
    BY <1>1, <1>2, <1>3, <2>2
  <2> QED
    BY <2>1, <2>2 DEF C
<1> QED
    BY <1>6, <1>7, <1>8 DEF new, C

\* ... and that of one who takes the place of an entry that matches.
LEMMA ReplacedKeeps ==
    ASSUME NEW list \in Seq(Entry), NEW p \in Entry, NEW B,
           NEW h \in DOMAIN list, Matches(list[h], p),
           Recorded(list, B), Once(list, B), Staying(list, B)
    PROVE  LET new == [list EXCEPT ![h] = p]
               C == B \cup {PairOf(p)} IN
           Recorded(new, C) /\ Once(new, C) /\ Staying(new, C)
<1> DEFINE new == [list EXCEPT ![h] = p]
           C == B \cup {PairOf(p)}
<1>1. /\ DOMAIN new = DOMAIN list /\ new[h] = p
      /\ \A i \in DOMAIN list : i # h => new[i] = list[i]
    OBVIOUS
<1>2. PairOf(p).account = p.account /\ PairOf(p).peer = p.peer
    BY DEF PairOf
<1>3. /\ \A a : Own(C, a) => Own(B, a)
      /\ \A q : From(C, q) => From(B, q)
    BY Narrower
<1>4. PairOf(list[h]) \in C /\ PairOf(p) \in C
    BY DEF Recorded
<1> HIDE DEF new, C
<1>5. /\ Own(C, p.account) => list[h].account = p.account
      /\ Own(C, list[h].account) => p.account = list[h].account
      /\ From(C, p.peer) => list[h].peer = p.peer
      /\ From(C, list[h].peer) => p.peer = list[h].peer
    BY <1>4, MatchedIsOwn
<1>6. Recorded(new, C)
    BY <1>1 DEF Recorded, C
<1>7. Once(new, C)
  <2> SUFFICES ASSUME NEW i \in DOMAIN list, NEW j \in DOMAIN list
               PROVE  /\ new[i].account = new[j].account /\ new[i].account # Empty
                         /\ Own(C, new[i].account) => i = j
                      /\ new[i].peer = new[j].peer /\ From(C, new[i].peer) => i = j
    BY <1>1 DEF Once
  <2>1. CASE i # h /\ j # h
    BY <1>1, <1>3, <2>1 DEF Once
  <2>2. CASE i = h /\ j # h
    <3>1. new[i] = p /\ new[j] = list[j]
      BY <1>1, <2>2
    <3>2. ASSUME p.account = list[j].account, p.account # Empty, Own(C, p.account) PROVE FALSE
      BY <1>3, <1>5, <2>2, <3>2 DEF Once
    <3>3. ASSUME p.peer = list[j].peer, From(C, p.peer) PROVE FALSE
      BY <1>3, <1>5, <2>2, <3>3 DEF Once
    <3> QED
      BY <3>1, <3>2, <3>3
  <2>3. CASE i # h /\ j = h
    <3>1. new[i] = list[i] /\ new[j] = p
      BY <1>1, <2>3
    <3>2. ASSUME p.account = list[i].account, p.account # Empty, Own(C, p.account) PROVE FALSE
      BY <1>3, <1>5, <2>3, <3>2 DEF Once
    <3>3. ASSUME p.peer = list[i].peer, From(C, p.peer) PROVE FALSE
      BY <1>3, <1>5, <2>3, <3>3 DEF Once
    <3> QED
      BY <3>1, <3>2, <3>3
  <2> QED
    BY <2>1, <2>2, <2>3
<1>8. Staying(new, C)
  <2> SUFFICES ASSUME NEW e \in C
               PROVE  /\ e.account # Empty /\ Own(C, e.account) =>
                            \E i \in DOMAIN list : new[i].account = e.account
                      /\ From(C, e.peer) => \E i \in DOMAIN list : new[i].peer = e.peer
    BY <1>1 DEF Staying
  <2>1. CASE e \in B
    <3>1. ASSUME e.account # Empty, Own(C, e.account)
          PROVE  \E i \in DOMAIN list : new[i].account = e.account
      <4>1. PICK i \in DOMAIN list : list[i].account = e.account
        BY <1>3, <2>1, <3>1 DEF Staying
      <4> QED
        BY <1>1, <1>5, <3>1, <4>1
    <3>2. ASSUME From(C, e.peer)
          PROVE  \E i \in DOMAIN list : new[i].peer = e.peer
      <4>1. PICK i \in DOMAIN list : list[i].peer = e.peer
        BY <1>3, <2>1, <3>2 DEF Staying
      <4> QED
        BY <1>1, <1>5, <3>2, <4>1
    <3> QED
      BY <3>1, <3>2
  <2>2. CASE e = PairOf(p)
    BY <1>1, <1>2, <2>2
  <2> QED
    BY <2>1, <2>2 DEF C
<1> QED
    BY <1>6, <1>7, <1>8 DEF new, C

\* So they survive every upsert, and a list of entries stays one.
LEMMA UpsertedKeeps ==
    ASSUME NEW list \in Seq(Entry), NEW p \in Entry, NEW B,
           Recorded(list, B), Once(list, B), Staying(list, B)
    PROVE  LET new == Upserted(list, p)
               C == B \cup {PairOf(p)} IN
           /\ new \in Seq(Entry)
           /\ Recorded(new, C) /\ Once(new, C) /\ Staying(new, C)
<1>1. CASE /\ \A i \in DOMAIN list : ~Matches(list[i], p)
           /\ Upserted(list, p) = Append(list, p)
  <2>1. Append(list, p) \in Seq(Entry)
    OBVIOUS
  <2> QED
    BY <1>1, <2>1, AppendedKeeps
<1>2. ASSUME NEW h \in DOMAIN list, Matches(list[h], p),
             Upserted(list, p) = [list EXCEPT ![h] = p]
      PROVE  LET new == Upserted(list, p)
                 C == B \cup {PairOf(p)} IN
             /\ new \in Seq(Entry)
             /\ Recorded(new, C) /\ Once(new, C) /\ Staying(new, C)
  <2> DEFINE put == [list EXCEPT ![h] = p]
             C == B \cup {PairOf(p)}
  <2>1. put \in Seq(Entry)
    BY ExceptSeq
  <2>2. Recorded(put, C) /\ Once(put, C) /\ Staying(put, C)
    BY <1>2, ReplacedKeeps
  <2>3. Upserted(list, p) = put
    BY <1>2
  <2> HIDE DEF put, C
  <2>4. /\ Upserted(list, p) \in Seq(Entry)
        /\ Recorded(Upserted(list, p), C) /\ Once(Upserted(list, p), C)
        /\ Staying(Upserted(list, p), C)
    BY <2>1, <2>2, <2>3
  <2> QED
    BY <2>4 DEF C
<1> QED
    BY <1>1, <1>2, UpsertedIs

(***************************************************************************)
(* Types                                                                   *)
(***************************************************************************)
Pcs == {"read", "write", "snapshot", "lookup", "map", "upsert"}

\* A session without a binding has one of the right type.
LEMMA NoBindingType == NoBinding \in Bindings
BY DEF NoBinding, Bindings, Named

\* The field that is filled in has the type of what it is filled in from.
LEMMA OrElseType ==
    ASSUME NEW S, NEW x \in Named(S), NEW y \in Named(S)
    PROVE  /\ OrElse(x, y) \in Named(S)
           /\ OrElse(x, y) # Empty => OrElse(x, y) \in S
BY DEF OrElse, Named

\* Identities and bindings with some of their fields written anew.
LEMMA IdentityPatched ==
    ASSUME NEW id \in Identities, NEW c \in Named(Characters), NEW n \in Named(Nicks),
           NEW a \in Named(Accounts), NEW tag \in Named(Maps)
    PROVE  /\ [id EXCEPT !.account = a] \in Identities
           /\ [id EXCEPT !.character = c, !.nick = n] \in Identities
           /\ [id EXCEPT !.character = c, !.nick = n, !.account = a] \in Identities
           /\ patchMatchSelection(id, tag) \in Identities
<1>1. [id EXCEPT !.account = a] \in Identities
    BY DEF Identities
<1>2. [id EXCEPT !.character = c, !.nick = n] \in Identities
    BY DEF Identities
<1>3. [id EXCEPT !.character = c, !.nick = n, !.account = a] \in Identities
    BY DEF Identities
<1>4. [id EXCEPT !.map = tag] \in Identities
    BY DEF Identities
<1> QED
    BY <1>1, <1>2, <1>3, <1>4 DEF patchMatchSelection

LEMMA BindingPatched ==
    ASSUME NEW b \in Bindings, NEW t \in TunnelIds \cup {NoTunnel}, NEW tag \in Named(Maps),
           NEW n \in Named(Nicks), NEW a \in Named(Accounts), NEW M \in SUBSET Maps
    PROVE  /\ [b EXCEPT !.tunnel = t] \in Bindings
           /\ [b EXCEPT !.map = tag] \in Bindings
           /\ [b EXCEPT !.selected = M] \in Bindings
           /\ [b EXCEPT !.nick = n, !.account = a] \in Bindings
<1>1. [b EXCEPT !.tunnel = t] \in Bindings
    BY DEF Bindings
<1>2. [b EXCEPT !.map = tag] \in Bindings
    BY DEF Bindings
<1>3. [b EXCEPT !.selected = M] \in Bindings
    BY DEF Bindings
<1>4. [b EXCEPT !.nick = n, !.account = a] \in Bindings
    BY DEF Bindings
<1> QED
    BY <1>1, <1>2, <1>3, <1>4

\* A step that changes only pc and the binding of a session.
LEMMA CopierStep ==
    ASSUME TypeOK, NEW s \in Sessions, NEW b \in Bindings, NEW to \in Pcs,
           binding' = [binding EXCEPT ![s] = b], pc' = [pc EXCEPT ![s] = to],
           UNCHANGED <<session, frame, registry>>
    PROVE  TypeOK'
<1>1. binding' \in [Sessions -> Bindings]
    BY DEF TypeOK
<1>2. pc' \in [Sessions -> Pcs]
    BY DEF TypeOK, Pcs
<1> QED
    BY <1>1, <1>2 DEF TypeOK, session, registry, Pcs

\* A step that changes only the identity of a session.
LEMMA IdentityStep ==
    ASSUME TypeOK, NEW s \in Sessions, NEW id \in Identities,
           identity' = [identity EXCEPT ![s] = id],
           UNCHANGED <<peer, withTCP, nicks, shown, copier, registry>>
    PROVE  TypeOK'
<1>1. identity' \in [Sessions -> Identities]
    BY DEF TypeOK
<1> QED
    BY <1>1 DEF TypeOK, copier, registry

\* The nicks a list leaves a session with.
LEMMA RememberedType ==
    ASSUME NEW old \in [Characters -> Named(Nicks)], NEW C \in SUBSET Characters,
           NEW list \in [C -> Named(Nicks)]
    PROVE  /\ Remembered(old, list) \in [Characters -> Named(Nicks)]
           /\ WithNick(list) \subseteq C
BY DEF Remembered, WithNick

\* What the upsert of a session has in its hands.
LEMMA PlayerType ==
    ASSUME TypeOK, Bound, NEW s \in Sessions, pc[s] = "upsert"
    PROVE  Player(s) \in Entry /\ binding[s].tunnel \in TunnelIds
BY DEF TypeOK, Bound, Bindings, Player, Entry

\* Clearing the players of an object keeps the types of lists and records.
LEMMA ClearedType ==
    ASSUME TypeOK, NEW t \in TunnelIds, Cleared(t)
    PROVE  /\ udpPlayers' \in [TunnelIds -> Seq(Entry)]
           /\ bound' \in [TunnelIds -> SUBSET Pair]
<1>1. <<>> \in Seq(Entry) /\ {} \in SUBSET Pair
    OBVIOUS
<1>2. udpPlayers \in [TunnelIds -> Seq(Entry)] /\ bound \in [TunnelIds -> SUBSET Pair]
    BY DEF TypeOK
<1>3. udpPlayers' \in [TunnelIds -> Seq(Entry)]
    BY <1>1, <1>2 DEF Cleared
<1>4. bound' \in [TunnelIds -> SUBSET Pair]
    BY <1>1, <1>2 DEF Cleared
<1> QED
    BY <1>3, <1>4

\* What EnsureTunnel does to the registry.
LEMMA EnsureType ==
    ASSUME TypeOK, NEW k \in Keys, EnsureTunnel(k)
    PROVE  /\ tunnels' \in [Keys -> TunnelIds \cup {NoTunnel}] /\ legs' \subseteq TunnelIds
           /\ udpPlayers' \in [TunnelIds -> Seq(Entry)] /\ bound' \in [TunnelIds -> SUBSET Pair]
           /\ tunnels'[k] # NoTunnel
           /\ \/ UNCHANGED <<udpPlayers, bound>>
              \/ \E t \in TunnelIds : Cleared(t)
<1>1. CASE tunnels[k] # NoTunnel /\ UNCHANGED registry
    BY <1>1 DEF TypeOK, registry
<1>2. ASSUME NEW t \in Fresh, tunnels' = [tunnels EXCEPT ![k] = t],
             legs' \in {legs \cup {t}} \cup (IF k \in withTCP THEN {legs \ {t}} ELSE {}),
             Cleared(t)
      PROVE  /\ tunnels' \in [Keys -> TunnelIds \cup {NoTunnel}] /\ legs' \subseteq TunnelIds
             /\ udpPlayers' \in [TunnelIds -> Seq(Entry)]
             /\ bound' \in [TunnelIds -> SUBSET Pair]
             /\ tunnels'[k] # NoTunnel /\ t \in TunnelIds
  <2>0. t \in TunnelIds
    BY DEF Fresh
  <2>1. t \in TunnelIds /\ tunnels' \in [Keys -> TunnelIds \cup {NoTunnel}] /\ tunnels'[k] = t
    BY <1>2, <2>0 DEF TypeOK
  <2>2. udpPlayers' \in [TunnelIds -> Seq(Entry)] /\ bound' \in [TunnelIds -> SUBSET Pair]
    BY <1>2, <2>0, ClearedType
  <2>3. legs' \subseteq TunnelIds
    BY <1>2, <2>1 DEF TypeOK
  <2> QED
    BY <2>1, <2>2, <2>3, NamesAssumption
<1> QED
    BY <1>1, <1>2 DEF EnsureTunnel

\* Every step keeps every variable in its type.
LEMMA TypeStep ==
    ASSUME TypeOK, Bound, [Next]_vars
    PROVE  TypeOK'
<1>0. ASSUME UNCHANGED vars PROVE TypeOK'
    BY <1>0 DEF TypeOK, vars, session, copier, registry
<1>a. \A s \in Sessions : identity[s] \in Identities /\ binding[s] \in Bindings
    BY DEF TypeOK
<1>b. /\ Empty \in Named(Accounts) /\ Empty \in Named(Characters) /\ Empty \in Named(Nicks)
      /\ Empty \in Named(Maps)
    BY DEF Named
<1>1. ASSUME NEW s \in Sessions, AccountLoginRes(s) PROVE TypeOK'
  <2>1. PICK a \in Accounts : identity' = [identity EXCEPT ![s].account = a]
    BY <1>1 DEF AccountLoginRes
  <2>2. [identity[s] EXCEPT !.account = a] \in Identities
    BY <1>a, <1>b, IdentityPatched DEF Named
  <2>3. identity' = [identity EXCEPT ![s] = [identity[s] EXCEPT !.account = a]]
    BY <2>1
  <2> QED
    BY <1>1, <2>2, <2>3, IdentityStep DEF AccountLoginRes
<1>2. ASSUME NEW s \in Sessions, AccountCharacterListRes(s) PROVE TypeOK'
  <2>2. PICK D \in SUBSET Characters : \E l \in [D -> Named(Nicks)] :
          /\ nicks' = [nicks EXCEPT ![s] = Remembered(@, l)]
          /\ frame' = [frame EXCEPT ![s] = WithNick(l)]
    BY <1>2 DEF AccountCharacterListRes
  <2>3. PICK l \in [D -> Named(Nicks)] :
          /\ nicks' = [nicks EXCEPT ![s] = Remembered(nicks[s], l)]
          /\ frame' = [frame EXCEPT ![s] = WithNick(l)]
    BY <2>2
  <2>4. nicks[s] \in [Characters -> Named(Nicks)]
    BY DEF TypeOK
  <2>5. Remembered(nicks[s], l) \in [Characters -> Named(Nicks)] /\ WithNick(l) \subseteq Characters
    BY <2>4, RememberedType
  <2>6. /\ nicks' \in [Sessions -> [Characters -> Named(Nicks)]]
        /\ frame' \in [Sessions -> SUBSET Characters]
    BY <2>3, <2>5 DEF TypeOK
  <2> QED
    BY <1>2, <2>6 DEF AccountCharacterListRes, TypeOK, registry
<1>3. ASSUME NEW s \in Sessions, WriteToClient(s) PROVE TypeOK'
    BY <1>3 DEF WriteToClient, TypeOK, registry
<1>4. ASSUME NEW s \in Sessions, LobbyCharacterInfoRes(s) PROVE TypeOK'
  <2>1. PICK c \in Named(Characters), n \in Named(Nicks), a \in Named(Accounts) :
          /\ identity' = [identity EXCEPT
                            ![s].character = OrElse(c, @),
                            ![s].nick = IF c = Empty THEN @ ELSE OrElse(n, @),
                            ![s].account = OrElse(a, @)]
          /\ nicks' = IF c = Empty THEN nicks ELSE [nicks EXCEPT ![s][c] = OrElse(n, @)]
    BY <1>4 DEF LobbyCharacterInfoRes
  <2> DEFINE id == identity[s]
             ch == OrElse(c, id.character)
             ni == IF c = Empty THEN id.nick ELSE OrElse(n, id.nick)
             ac == OrElse(a, id.account)
  <2>2. id.character \in Named(Characters) /\ id.nick \in Named(Nicks) /\ id.account \in Named(Accounts)
    BY <1>a DEF Identities
  <2>3. ch \in Named(Characters) /\ ni \in Named(Nicks) /\ ac \in Named(Accounts)
    BY <2>2, OrElseType
  <2>4. identity' = [identity EXCEPT ![s] = [id EXCEPT !.character = ch, !.nick = ni, !.account = ac]]
    BY <1>a, <2>1 DEF Identities
  <2> HIDE DEF ch, ni, ac
  <2>5. [id EXCEPT !.character = ch, !.nick = ni, !.account = ac] \in Identities
    BY <1>a, <1>b, <2>3, IdentityPatched
  <2>6. identity' \in [Sessions -> Identities]
    BY <2>4, <2>5 DEF TypeOK
  <2>7. nicks' \in [Sessions -> [Characters -> Named(Nicks)]]
    <3>1. CASE c = Empty
      BY <2>1, <3>1 DEF TypeOK
    <3>2. CASE c # Empty
      <4>1. c \in Characters /\ nicks[s] \in [Characters -> Named(Nicks)]
        BY <3>2 DEF TypeOK, Named
      <4>2. OrElse(n, nicks[s][c]) \in Named(Nicks)
        BY <4>1, OrElseType
      <4>3. nicks' = [nicks EXCEPT ![s] = [nicks[s] EXCEPT ![c] = OrElse(n, nicks[s][c])]]
        BY <2>1, <3>2
      <4>4. [nicks[s] EXCEPT ![c] = OrElse(n, nicks[s][c])] \in [Characters -> Named(Nicks)]
        BY <4>1, <4>2
      <4> QED
        BY <4>3, <4>4 DEF TypeOK
    <3> QED
      BY <3>1, <3>2
  <2> QED
    BY <1>4, <2>6, <2>7 DEF LobbyCharacterInfoRes, TypeOK, copier, registry
<1>5. ASSUME NEW s \in Sessions, GameTypeFromRemote(s) PROVE TypeOK'
  <2>1. PICK tag \in Named(Maps) :
          identity' = [identity EXCEPT ![s] = patchMatchSelection(identity[s], tag)]
    BY <1>5 DEF GameTypeFromRemote
  <2>2. patchMatchSelection(identity[s], tag) \in Identities
    BY <1>a, <1>b, IdentityPatched
  <2> QED
    BY <1>5, <2>1, <2>2, IdentityStep DEF GameTypeFromRemote
<1>6. ASSUME NEW s \in Sessions, LobbyEnterReq(s) PROVE TypeOK'
  <2>1. PICK c \in Characters :
          identity' = [identity EXCEPT ![s].character = c, ![s].nick = OrElse(nicks[s][c], @)]
    BY <1>6 DEF LobbyEnterReq
  <2> DEFINE ni == OrElse(nicks[s][c], identity[s].nick)
  <2>2. ni \in Named(Nicks)
    <3>1. nicks[s][c] \in Named(Nicks) /\ identity[s].nick \in Named(Nicks)
      BY <1>a DEF TypeOK, Identities
    <3> QED
      BY <3>1, OrElseType
  <2>3. identity' = [identity EXCEPT ![s] = [identity[s] EXCEPT !.character = c, !.nick = ni]]
    BY <1>a, <2>1 DEF Identities
  <2> HIDE DEF ni
  <2>4. [identity[s] EXCEPT !.character = c, !.nick = ni] \in Identities
    BY <1>a, <1>b, <2>2, IdentityPatched DEF Named
  <2> QED
    BY <1>6, <2>3, <2>4, IdentityStep DEF LobbyEnterReq
<1>7. ASSUME NEW s \in Sessions, GameTypeFromClient(s) PROVE TypeOK'
  <2>1. PICK tag \in Named(Maps) :
          /\ identity' = [identity EXCEPT ![s] = patchMatchSelection(identity[s], tag)]
          /\ binding' = IF MapUnread(s) /\ tag # Empty
                        THEN [binding EXCEPT ![s].selected = @ \cup {tag}] ELSE binding
    BY <1>7 DEF GameTypeFromClient
  <2>2. patchMatchSelection(identity[s], tag) \in Identities
    BY <1>a, <1>b, IdentityPatched
  <2>3. binding' \in [Sessions -> Bindings]
    <3>1. CASE ~(MapUnread(s) /\ tag # Empty)
      BY <2>1, <3>1 DEF TypeOK
    <3>2. CASE MapUnread(s) /\ tag # Empty
      <4> DEFINE M == binding[s].selected \cup {tag}
      <4>1. M \in SUBSET Maps
        BY <1>a, <3>2 DEF Bindings, Named
      <4>2. binding' = [binding EXCEPT ![s] = [binding[s] EXCEPT !.selected = M]]
        BY <2>1, <3>2
      <4> HIDE DEF M
      <4>3. [binding[s] EXCEPT !.selected = M] \in Bindings
        BY <1>a, <1>b, <4>1, BindingPatched
      <4> QED
        BY <4>2, <4>3 DEF TypeOK
    <3> QED
      BY <3>1, <3>2
  <2>4. identity' \in [Sessions -> Identities]
    BY <2>1, <2>2 DEF TypeOK
  <2> QED
    BY <1>7, <2>3, <2>4 DEF GameTypeFromClient, TypeOK, registry
<1>8. ASSUME NEW s \in Sessions, EnterGameServerNot(s) PROVE TypeOK'
  <2>1. PICK k \in Keys, n \in Named(Nicks), a \in Named(Accounts) :
          /\ EnsureTunnel(k)
          /\ binding' = [binding EXCEPT ![s] =
                           [NoBinding EXCEPT !.key = k, !.nick = n, !.account = a,
                                             !.mapThen = identity[s].map]]
    BY <1>8 DEF EnterGameServerNot
  <2>2. [NoBinding EXCEPT !.key = k, !.nick = n, !.account = a, !.mapThen = identity[s].map]
          \in Bindings
    BY <1>a DEF NoBinding, Bindings, Identities, Named
  <2>3. /\ tunnels' \in [Keys -> TunnelIds \cup {NoTunnel}] /\ legs' \subseteq TunnelIds
        /\ udpPlayers' \in [TunnelIds -> Seq(Entry)] /\ bound' \in [TunnelIds -> SUBSET Pair]
    BY <2>1, EnsureType
  <2> QED
    BY <1>8, <2>1, <2>2, <2>3 DEF EnterGameServerNot, session, TypeOK
<1>9. ASSUME NEW s \in Sessions, IdentitySnapshot(s) PROVE TypeOK'
  <2>1. NickOf(s) \in Named(Nicks) /\ AccountOf(s) \in Named(Accounts)
    <3>1. /\ binding[s].nick \in Named(Nicks) /\ identity[s].nick \in Named(Nicks)
          /\ binding[s].account \in Named(Accounts) /\ identity[s].account \in Named(Accounts)
      BY <1>a DEF Bindings, Identities
    <3> QED
      BY <3>1, OrElseType DEF NickOf, AccountOf
  <2>2. CASE NickOf(s) = Empty
    BY <1>9, <2>2, NoBindingType, CopierStep DEF IdentitySnapshot, Leave, Pcs
  <2>3. CASE NickOf(s) # Empty
    <3>1. [binding[s] EXCEPT !.nick = NickOf(s), !.account = AccountOf(s)] \in Bindings
      <4>1. {} \in SUBSET Maps
        OBVIOUS
      <4> QED
        BY <1>a, <1>b, <2>1, <4>1, BindingPatched
    <3>2. binding' = [binding EXCEPT ![s] =
                        [binding[s] EXCEPT !.nick = NickOf(s), !.account = AccountOf(s)]]
      BY <1>9, <2>3 DEF IdentitySnapshot
    <3> QED
      BY <1>9, <2>3, <3>1, <3>2, CopierStep DEF IdentitySnapshot, Pcs
  <2> QED
    BY <2>2, <2>3
<1>10. ASSUME NEW s \in Sessions, LookupTunnel(s) PROVE TypeOK'
  <2> DEFINE t == tunnels[binding[s].key]
  <2>1. t \in TunnelIds \cup {NoTunnel}
    BY <1>10 DEF LookupTunnel, Bound, TypeOK
  <2>2. CASE t = NoTunnel
    BY <1>10, <2>2, NoBindingType, CopierStep DEF LookupTunnel, Leave, Pcs
  <2>3. CASE t # NoTunnel
    <3>1. binding' = [binding EXCEPT ![s] = [binding[s] EXCEPT !.tunnel = t]]
      BY <1>10, <2>3 DEF LookupTunnel
    <3>2. pc' = [pc EXCEPT ![s] = "map"] /\ UNCHANGED <<session, frame, registry>>
      BY <1>10, <2>3 DEF LookupTunnel
    <3> HIDE DEF t
    <3>3. [binding[s] EXCEPT !.tunnel = t] \in Bindings
      <4>1. {} \in SUBSET Maps
        OBVIOUS
      <4> QED
        BY <1>a, <1>b, <2>1, <4>1, BindingPatched
    <3> QED
      BY <3>1, <3>2, <3>3, CopierStep DEF Pcs
  <2> QED
    BY <2>2, <2>3
<1>11. ASSUME NEW s \in Sessions, currentMap(s) PROVE TypeOK'
  <2>1. [binding[s] EXCEPT !.map = identity[s].map] \in Bindings
    <3>1. identity[s].map \in Named(Maps) /\ {} \in SUBSET Maps
      BY <1>a DEF Identities
    <3> QED
      BY <1>a, <1>b, <3>1, BindingPatched
  <2>2. binding' = [binding EXCEPT ![s] = [binding[s] EXCEPT !.map = identity[s].map]]
    BY <1>11 DEF currentMap
  <2> QED
    BY <1>11, <2>1, <2>2, CopierStep DEF currentMap, Pcs
<1>12. ASSUME NEW s \in Sessions, upsertUDPPlayer(s) PROVE TypeOK'
  <2> DEFINE t == binding[s].tunnel
             p == Player(s)
  <2>1. p \in Entry /\ t \in TunnelIds
    BY <1>12, PlayerType DEF upsertUDPPlayer
  <2>2. PairOf(p) \in Pair
    BY <2>1 DEF PairOf, Entry, Pair
  <2>3. udpPlayers[t] \in Seq(Entry)
    BY <2>1 DEF TypeOK
  <2>4. Upserted(udpPlayers[t], p) \in Seq(Entry)
    <3>1. Append(udpPlayers[t], p) \in Seq(Entry)
      BY <2>1, <2>3
    <3>2. \A h \in DOMAIN udpPlayers[t] : [udpPlayers[t] EXCEPT ![h] = p] \in Seq(Entry)
      BY <2>1, <2>3, ExceptSeq
    <3>3. \/ Upserted(udpPlayers[t], p) = Append(udpPlayers[t], p)
          \/ \E h \in DOMAIN udpPlayers[t] :
                Upserted(udpPlayers[t], p) = [udpPlayers[t] EXCEPT ![h] = p]
      <4> HIDE DEF t, p
      <4> QED
        BY <2>1, <2>3, UpsertedIs
    <3> HIDE DEF t, p
    <3> QED
      BY <3>1, <3>2, <3>3
  <2>5. /\ udpPlayers' = [udpPlayers EXCEPT ![t] = Upserted(udpPlayers[t], p)]
        /\ bound' = [bound EXCEPT ![t] = bound[t] \cup {PairOf(p)}]
        /\ pc' = [pc EXCEPT ![s] = "read"] /\ binding' = [binding EXCEPT ![s] = NoBinding]
        /\ UNCHANGED <<session, frame, tunnels, legs>>
    BY <1>12 DEF upsertUDPPlayer, Leave, PairOf
  <2> HIDE DEF t, p
  <2>6. udpPlayers' \in [TunnelIds -> Seq(Entry)] /\ bound' \in [TunnelIds -> SUBSET Pair]
    BY <2>1, <2>2, <2>4, <2>5 DEF TypeOK
  <2>7. binding' \in [Sessions -> Bindings]
    BY <2>5, NoBindingType DEF TypeOK
  <2> QED
    BY <2>5, <2>6, <2>7 DEF TypeOK, session
<1>13. ASSUME NEW k \in Keys, CloseLeg(k) \/ CloseTunnel(k) PROVE TypeOK'
  <2>1. /\ tunnels[k] # NoTunnel /\ legs' = legs \ {tunnels[k]} /\ Cleared(tunnels[k])
        /\ tunnels' \in {tunnels, [tunnels EXCEPT ![k] = NoTunnel]}
        /\ UNCHANGED <<session, copier>>
    BY <1>13, NamesAssumption DEF CloseLeg, CloseTunnel, TypeOK
  <2>2. tunnels[k] \in TunnelIds
    BY <2>1 DEF TypeOK
  <2>3. udpPlayers' \in [TunnelIds -> Seq(Entry)] /\ bound' \in [TunnelIds -> SUBSET Pair]
    BY <2>1, <2>2, ClearedType
  <2>4. tunnels' \in [Keys -> TunnelIds \cup {NoTunnel}] /\ legs' \subseteq TunnelIds
    BY <2>1 DEF TypeOK
  <2> QED
    BY <2>1, <2>3, <2>4 DEF session, copier, TypeOK
<1> QED
    BY <1>0, <1>1, <1>2, <1>3, <1>4, <1>5, <1>6, <1>7, <1>8, <1>9, <1>10, <1>11, <1>12, <1>13
    DEF Next, ObservesRemote, ObservesClient, GoesOn

(***************************************************************************)
(* Nicks, bindings and maps                                                *)
(***************************************************************************)
\* What the actions that write no nick leave alone.
LEMMA NicksKept ==
    ASSUME NEW s \in Sessions,
           \/ AccountLoginRes(s) \/ GameTypeFromRemote(s) \/ EnterGameServerNot(s)
           \/ ObservesClient(s) \/ IdentitySnapshot(s) \/ LookupTunnel(s) \/ currentMap(s)
           \/ upsertUDPPlayer(s)
    PROVE  UNCHANGED <<nicks, shown, frame>>
BY DEF AccountLoginRes, GameTypeFromRemote, EnterGameServerNot, ObservesClient, LobbyEnterReq,
       GameTypeFromClient, IdentitySnapshot, LookupTunnel, currentMap, upsertUDPPlayer, session, copier

\* No nick once remembered is forgotten, and no character is shown before.
LEMMA NicksStep ==
    ASSUME TypeOK, NicksComeFirst, [Next]_vars
    PROVE  /\ NicksComeFirst'
           /\ \A s \in Sessions : \A c \in Characters : nicks[s][c] # Empty => nicks'[s][c] # Empty
<1> DEFINE Goal == /\ NicksComeFirst'
                   /\ \A s \in Sessions : \A c \in Characters :
                         nicks[s][c] # Empty => nicks'[s][c] # Empty
<1>0. ASSUME UNCHANGED <<nicks, shown, frame>> PROVE Goal
    BY <1>0 DEF NicksComeFirst
<1>1. ASSUME UNCHANGED vars PROVE Goal
    BY <1>0, <1>1 DEF vars, session, copier
<1>2. ASSUME NEW s \in Sessions, AccountCharacterListRes(s) PROVE Goal
  <2>1. PICK C \in SUBSET Characters : \E l \in [C -> Named(Nicks)] :
          /\ nicks' = [nicks EXCEPT ![s] = Remembered(@, l)]
          /\ frame' = [frame EXCEPT ![s] = WithNick(l)]
    BY <1>2 DEF AccountCharacterListRes
  <2>2. PICK l \in [C -> Named(Nicks)] :
          /\ nicks' = [nicks EXCEPT ![s] = Remembered(nicks[s], l)]
          /\ frame' = [frame EXCEPT ![s] = WithNick(l)]
    BY <2>1
  <2>3. /\ nicks'[s] = Remembered(nicks[s], l) /\ frame'[s] = WithNick(l)
        /\ \A r \in Sessions \ {s} : nicks'[r] = nicks[r] /\ frame'[r] = frame[r]
        /\ shown' = shown
    BY <1>2, <2>2 DEF AccountCharacterListRes, TypeOK
  <2>4. \A c \in Characters : /\ c \in WithNick(l) => nicks'[s][c] # Empty
                              /\ nicks[s][c] # Empty => nicks'[s][c] # Empty
    BY <2>3 DEF Remembered, WithNick
  <2>5. WithNick(l) \subseteq Characters /\ \A r \in Sessions : shown[r] \subseteq Characters
    BY DEF WithNick, TypeOK
  <2> QED
    BY <2>3, <2>4, <2>5 DEF NicksComeFirst
<1>3. ASSUME NEW s \in Sessions, WriteToClient(s) PROVE Goal
    BY <1>3 DEF WriteToClient, NicksComeFirst, TypeOK
<1>4. ASSUME NEW s \in Sessions, LobbyCharacterInfoRes(s) PROVE Goal
  <2>1. PICK c \in Named(Characters), n \in Named(Nicks) :
          nicks' = IF c = Empty THEN nicks ELSE [nicks EXCEPT ![s][c] = OrElse(n, @)]
    BY <1>4 DEF LobbyCharacterInfoRes
  <2>2. UNCHANGED <<shown, frame>>
    BY <1>4 DEF LobbyCharacterInfoRes, copier
  <2>3. \A r \in Sessions : \A d \in Characters : nicks'[r][d] \in {nicks[r][d], OrElse(n, nicks[r][d])}
    <3>1. CASE c = Empty
      BY <2>1, <3>1
    <3>2. CASE c # Empty
      <4>1. nicks' = [nicks EXCEPT ![s] = [nicks[s] EXCEPT ![c] = OrElse(n, nicks[s][c])]]
        BY <2>1, <3>2
      <4>2. nicks \in [Sessions -> [Characters -> Named(Nicks)]]
        BY DEF TypeOK
      <4> QED
        BY <4>1, <4>2
    <3> QED
      BY <3>1, <3>2
  <2>4. \A x : x # Empty => OrElse(n, x) # Empty
    BY DEF OrElse
  <2>5. \A r \in Sessions : \A d \in Characters : nicks[r][d] # Empty => nicks'[r][d] # Empty
    BY <2>3, <2>4
  <2>6. \A r \in Sessions : shown[r] \subseteq Characters /\ frame[r] \subseteq Characters
    BY DEF TypeOK
  <2> QED
    BY <2>2, <2>5, <2>6 DEF NicksComeFirst
<1>5. ASSUME NEW k \in Keys, CloseLeg(k) \/ CloseTunnel(k) PROVE Goal
    BY <1>0, <1>5 DEF CloseLeg, CloseTunnel, session, copier
<1> QED
    BY <1>0, <1>1, <1>2, <1>3, <1>4, <1>5, NicksKept DEF Next, ObservesRemote, GoesOn

\* What a copier has found out stays so until it leaves.
LEMMA BoundStep ==
    ASSUME TypeOK, Bound, [Next]_vars
    PROVE  Bound'
<1>0. ASSUME UNCHANGED <<pc, binding>> PROVE Bound'
    BY <1>0 DEF Bound
<1>1. ASSUME UNCHANGED vars PROVE Bound'
    BY <1>0, <1>1 DEF vars, copier
<1>2. ASSUME NEW s \in Sessions,
             AccountLoginRes(s) \/ LobbyCharacterInfoRes(s) \/ GameTypeFromRemote(s) \/ LobbyEnterReq(s)
      PROVE  Bound'
    BY <1>0, <1>2 DEF AccountLoginRes, LobbyCharacterInfoRes, GameTypeFromRemote, LobbyEnterReq, copier
<1>3. ASSUME NEW s \in Sessions, AccountCharacterListRes(s) \/ WriteToClient(s) PROVE Bound'
    BY <1>3 DEF AccountCharacterListRes, WriteToClient, Bound, TypeOK
<1>4. ASSUME NEW s \in Sessions, GameTypeFromClient(s) PROVE Bound'
  <2>1. PICK tag \in Named(Maps) :
          binding' = IF MapUnread(s) /\ tag # Empty
                     THEN [binding EXCEPT ![s].selected = @ \cup {tag}] ELSE binding
    BY <1>4 DEF GameTypeFromClient
  <2>2. /\ \A r \in Sessions : /\ binding'[r].key = binding[r].key /\ binding'[r].nick = binding[r].nick
                               /\ binding'[r].tunnel = binding[r].tunnel
        /\ pc' = pc
    BY <1>4, <2>1 DEF GameTypeFromClient, TypeOK, Bindings
  <2> QED
    BY <2>2 DEF Bound
<1>5. ASSUME NEW s \in Sessions, EnterGameServerNot(s) PROVE Bound'
  <2>1. /\ binding'[s].key \in Keys /\ pc' = [pc EXCEPT ![s] = "snapshot"]
        /\ \A r \in Sessions \ {s} : binding'[r] = binding[r]
    BY <1>5 DEF EnterGameServerNot, NoBinding, TypeOK
  <2> QED
    BY <2>1 DEF Bound, TypeOK
<1>6. ASSUME NEW s \in Sessions, pc' = [pc EXCEPT ![s] = "read"],
             binding' = [binding EXCEPT ![s] = NoBinding]
      PROVE  Bound'
    BY <1>6 DEF Bound, TypeOK
<1>7. ASSUME NEW s \in Sessions, IdentitySnapshot(s) PROVE Bound'
  <2>1. CASE NickOf(s) = Empty
    BY <1>6, <1>7, <2>1 DEF IdentitySnapshot, Leave
  <2>2. CASE NickOf(s) # Empty
    <3>1. NickOf(s) \in Nicks
      BY <2>2 DEF NickOf, OrElse, TypeOK, Bindings, Identities, Named
    <3>2. /\ binding' = [binding EXCEPT ![s].nick = NickOf(s), ![s].account = AccountOf(s)]
          /\ pc[s] = "snapshot" /\ pc' = [pc EXCEPT ![s] = "lookup"]
      BY <1>7, <2>2 DEF IdentitySnapshot
    <3>3. /\ binding'[s].nick = NickOf(s) /\ binding'[s].key = binding[s].key
          /\ \A r \in Sessions \ {s} : binding'[r] = binding[r]
      BY <3>2 DEF TypeOK, Bindings
    <3> QED
      BY <3>1, <3>2, <3>3 DEF Bound, TypeOK
  <2> QED
    BY <2>1, <2>2
<1>8. ASSUME NEW s \in Sessions, LookupTunnel(s) PROVE Bound'
  <2> DEFINE t == tunnels[binding[s].key]
  <2>1. CASE t = NoTunnel
    BY <1>6, <1>8, <2>1 DEF LookupTunnel, Leave
  <2>2. CASE t # NoTunnel
    <3>1. t \in TunnelIds
      BY <1>8, <2>2 DEF LookupTunnel, Bound, TypeOK
    <3>2. /\ binding' = [binding EXCEPT ![s].tunnel = t]
          /\ pc[s] = "lookup" /\ pc' = [pc EXCEPT ![s] = "map"]
      BY <1>8, <2>2 DEF LookupTunnel
    <3> HIDE DEF t
    <3>3. /\ binding'[s].tunnel = t /\ binding'[s].nick = binding[s].nick
          /\ \A r \in Sessions \ {s} : binding'[r] = binding[r]
      BY <3>2 DEF TypeOK, Bindings
    <3> QED
      BY <3>1, <3>2, <3>3 DEF Bound, TypeOK
  <2> QED
    BY <2>1, <2>2
<1>9. ASSUME NEW s \in Sessions, currentMap(s) PROVE Bound'
  <2>1. /\ binding' = [binding EXCEPT ![s].map = identity[s].map]
        /\ pc[s] = "map" /\ pc' = [pc EXCEPT ![s] = "upsert"]
    BY <1>9 DEF currentMap
  <2>2. /\ binding'[s].tunnel = binding[s].tunnel /\ binding'[s].nick = binding[s].nick
        /\ \A r \in Sessions \ {s} : binding'[r] = binding[r]
    BY <2>1 DEF TypeOK, Bindings
  <2> QED
    BY <2>1, <2>2 DEF Bound, TypeOK
<1>10. ASSUME NEW s \in Sessions, upsertUDPPlayer(s) PROVE Bound'
    BY <1>6, <1>10 DEF upsertUDPPlayer, Leave
<1>11. ASSUME NEW k \in Keys, CloseLeg(k) \/ CloseTunnel(k) PROVE Bound'
    BY <1>0, <1>11 DEF CloseLeg, CloseTunnel, copier
<1> QED
    BY <1>1, <1>2, <1>3, <1>4, <1>5, <1>7, <1>8, <1>9, <1>10, <1>11
    DEF Next, ObservesRemote, ObservesClient, GoesOn

\* The map of a binding stays one of those chosen.
LEMMA MapStep ==
    ASSUME TypeOK, MapKnown, [Next]_vars
    PROVE  MapKnown'
<1> DEFINE Same(r) == /\ binding'[r] = binding[r] /\ pc'[r] = pc[r]
                      /\ identity'[r].map = identity[r].map
           Fine(r) == /\ MapUnread(r)' => identity'[r].map \in Chosen(r)'
                      /\ pc'[r] = "upsert" => binding'[r].map \in Chosen(r)'
<1>0. \A r \in Sessions : Same(r) => Fine(r)
    BY DEF MapKnown, MapUnread, Chosen
<1>a. ASSUME \A r \in Sessions : Same(r) PROVE MapKnown'
    BY <1>0, <1>a DEF MapKnown
<1>b. ASSUME NEW s \in Sessions, Fine(s), \A r \in Sessions \ {s} : Same(r) PROVE MapKnown'
    BY <1>0, <1>b DEF MapKnown
<1>c. ASSUME NEW s \in Sessions, pc' = [pc EXCEPT ![s] = "read"],
             \A r \in Sessions \ {s} : binding'[r] = binding[r], UNCHANGED identity
      PROVE  MapKnown'
  <2>1. pc'[s] = "read" /\ \A r \in Sessions \ {s} : Same(r)
    BY <1>c DEF TypeOK
  <2> QED
    BY <1>b, <2>1 DEF MapUnread
<1>1. ASSUME UNCHANGED vars PROVE MapKnown'
    BY <1>a, <1>1 DEF vars, session, copier
<1>2. ASSUME NEW s \in Sessions, AccountLoginRes(s) PROVE MapKnown'
    BY <1>a, <1>2 DEF AccountLoginRes, copier, TypeOK, Identities
<1>3. ASSUME NEW s \in Sessions, LobbyCharacterInfoRes(s) PROVE MapKnown'
  <2>1. PICK c \in Named(Characters), n \in Named(Nicks), a \in Named(Accounts) :
          identity' = [identity EXCEPT
                         ![s].character = OrElse(c, @),
                         ![s].nick = IF c = Empty THEN @ ELSE OrElse(n, @),
                         ![s].account = OrElse(a, @)]
    BY <1>3 DEF LobbyCharacterInfoRes
  <2>2. \A r \in Sessions : identity'[r].map = identity[r].map
    BY <2>1 DEF TypeOK, Identities
  <2> QED
    BY <1>a, <1>3, <2>2 DEF LobbyCharacterInfoRes, copier
<1>4. ASSUME NEW s \in Sessions, AccountCharacterListRes(s) \/ WriteToClient(s) PROVE MapKnown'
  <2>1. /\ pc'[s] \in {"read", "write"} /\ UNCHANGED <<identity, binding>>
        /\ \A r \in Sessions \ {s} : Same(r)
    BY <1>4 DEF AccountCharacterListRes, WriteToClient, TypeOK
  <2> QED
    BY <1>b, <2>1 DEF MapUnread
<1>5. ASSUME NEW s \in Sessions, GameTypeFromRemote(s) PROVE MapKnown'
  <2>1. /\ pc'[s] = "read" /\ \A r \in Sessions \ {s} : Same(r)
    BY <1>5 DEF GameTypeFromRemote, copier, TypeOK
  <2> QED
    BY <1>b, <2>1 DEF MapUnread
<1>6. ASSUME NEW s \in Sessions, LobbyEnterReq(s) PROVE MapKnown'
  <2>1. PICK c \in Characters :
          identity' = [identity EXCEPT ![s].character = c, ![s].nick = OrElse(nicks[s][c], @)]
    BY <1>6 DEF LobbyEnterReq
  <2>2. \A r \in Sessions : identity'[r].map = identity[r].map
    BY <2>1 DEF TypeOK, Identities
  <2> QED
    BY <1>a, <1>6, <2>2 DEF LobbyEnterReq, copier
<1>7. ASSUME NEW s \in Sessions, GameTypeFromClient(s) PROVE MapKnown'
  <2>1. PICK tag \in Named(Maps) :
          /\ identity' = [identity EXCEPT ![s] = patchMatchSelection(identity[s], tag)]
          /\ binding' = IF MapUnread(s) /\ tag # Empty
                        THEN [binding EXCEPT ![s].selected = @ \cup {tag}] ELSE binding
    BY <1>7 DEF GameTypeFromClient
  <2>2. pc' = pc /\ \A r \in Sessions \ {s} : Same(r)
    BY <1>7, <2>1 DEF GameTypeFromClient, TypeOK
  <2>3. CASE tag = Empty
    BY <1>a, <2>1, <2>2, <2>3 DEF patchMatchSelection, TypeOK
  <2>4. CASE tag # Empty /\ MapUnread(s)
    <3>1. identity'[s].map = tag
      BY <2>1, <2>4 DEF patchMatchSelection, TypeOK, Identities
    <3>2. binding'[s].selected = binding[s].selected \cup {tag}
      BY <2>1, <2>4 DEF TypeOK, Bindings
    <3>3. Fine(s)
      BY <2>2, <2>4, <3>1, <3>2 DEF MapUnread, Chosen
    <3> QED
      BY <1>b, <2>2, <3>3
  <2>5. CASE tag # Empty /\ ~MapUnread(s)
    <3>1. Fine(s)
      BY <2>1, <2>2, <2>5 DEF MapUnread, Chosen, MapKnown
    <3> QED
      BY <1>b, <2>2, <3>1
  <2> QED
    BY <2>3, <2>4, <2>5
<1>8. ASSUME NEW s \in Sessions, EnterGameServerNot(s) PROVE MapKnown'
  <2>1. /\ binding'[s].mapThen = identity[s].map /\ pc'[s] = "snapshot" /\ identity' = identity
        /\ \A r \in Sessions \ {s} : Same(r)
    BY <1>8 DEF EnterGameServerNot, NoBinding, session, TypeOK
  <2>2. Fine(s)
    BY <2>1 DEF Chosen
  <2> QED
    BY <1>b, <2>1, <2>2
<1>9. ASSUME NEW s \in Sessions, IdentitySnapshot(s) PROVE MapKnown'
  <2>1. CASE NickOf(s) = Empty
    BY <1>c, <1>9, <2>1 DEF IdentitySnapshot, Leave, session, TypeOK
  <2>2. CASE NickOf(s) # Empty
    <3>1. /\ binding' = [binding EXCEPT ![s].nick = NickOf(s), ![s].account = AccountOf(s)]
          /\ pc[s] = "snapshot" /\ pc' = [pc EXCEPT ![s] = "lookup"] /\ identity' = identity
      BY <1>9, <2>2 DEF IdentitySnapshot, session
    <3>2. /\ binding'[s].mapThen = binding[s].mapThen /\ binding'[s].selected = binding[s].selected
          /\ pc'[s] = "lookup" /\ \A r \in Sessions \ {s} : Same(r)
      BY <3>1 DEF TypeOK, Bindings
    <3>3. Fine(s)
      BY <3>1, <3>2 DEF MapKnown, MapUnread, Chosen
    <3> QED
      BY <1>b, <3>2, <3>3
  <2> QED
    BY <2>1, <2>2
<1>10. ASSUME NEW s \in Sessions, LookupTunnel(s) PROVE MapKnown'
  <2> DEFINE t == tunnels[binding[s].key]
  <2>1. CASE t = NoTunnel
    BY <1>c, <1>10, <2>1 DEF LookupTunnel, Leave, session, TypeOK
  <2>2. CASE t # NoTunnel
    <3>1. /\ binding' = [binding EXCEPT ![s].tunnel = t]
          /\ pc[s] = "lookup" /\ pc' = [pc EXCEPT ![s] = "map"] /\ identity' = identity
      BY <1>10, <2>2 DEF LookupTunnel, session
    <3> HIDE DEF t
    <3>2. /\ binding'[s].mapThen = binding[s].mapThen /\ binding'[s].selected = binding[s].selected
          /\ pc'[s] = "map" /\ \A r \in Sessions \ {s} : Same(r)
      BY <3>1 DEF TypeOK, Bindings
    <3>3. Fine(s)
      BY <3>1, <3>2 DEF MapKnown, MapUnread, Chosen
    <3> QED
      BY <1>b, <3>2, <3>3
  <2> QED
    BY <2>1, <2>2
<1>11. ASSUME NEW s \in Sessions, currentMap(s) PROVE MapKnown'
  <2>1. /\ binding' = [binding EXCEPT ![s].map = identity[s].map]
        /\ pc[s] = "map" /\ pc' = [pc EXCEPT ![s] = "upsert"] /\ identity' = identity
    BY <1>11 DEF currentMap, session
  <2>2. /\ binding'[s].mapThen = binding[s].mapThen /\ binding'[s].selected = binding[s].selected
        /\ binding'[s].map = identity[s].map
        /\ pc'[s] = "upsert" /\ \A r \in Sessions \ {s} : Same(r)
    BY <2>1 DEF TypeOK, Bindings
  <2>3. Fine(s)
    BY <2>1, <2>2 DEF MapKnown, MapUnread, Chosen
  <2> QED
    BY <1>b, <2>2, <2>3
<1>12. ASSUME NEW s \in Sessions, upsertUDPPlayer(s) PROVE MapKnown'
    BY <1>c, <1>12 DEF upsertUDPPlayer, Leave, session, TypeOK
<1>13. ASSUME NEW k \in Keys, CloseLeg(k) \/ CloseTunnel(k) PROVE MapKnown'
    BY <1>a, <1>13 DEF CloseLeg, CloseTunnel, session, copier
<1> QED
    BY <1>1, <1>2, <1>3, <1>4, <1>5, <1>6, <1>7, <1>8, <1>9, <1>10, <1>11, <1>12, <1>13
    DEF Next, ObservesRemote, ObservesClient, GoesOn

(***************************************************************************)
(* The lists of players                                                    *)
(***************************************************************************)
Fine(list, B) == Recorded(list, B) /\ Once(list, B) /\ Staying(list, B)

\* Nothing is promised of an object nobody has been given to.
LEMMA EmptyIsFine == Fine(<<>>, {})
BY DEF Fine, Recorded, Once, Staying

\* Every step leaves the list and the record of an object alone, clears both, or
\* adds a player to both.
LEMMA ListsStep ==
    ASSUME IInv, [Next]_vars
    PROVE  ListedWereBound' /\ OneEntryAPlayer' /\ PlayersStayListed'
<1> DEFINE Kept == \A t \in TunnelIds : Fine(udpPlayers[t], bound[t])'
<1>1. \A t \in TunnelIds : Fine(udpPlayers[t], bound[t])
    BY DEF IInv, ListedWereBound, OneEntryAPlayer, PlayersStayListed, OwnAddresses, OwnAccounts,
           Fine, Recorded, Once, Staying, Own, From
<1>2. TypeOK /\ Bound
    BY DEF IInv
<1>3. ASSUME UNCHANGED <<udpPlayers, bound>> PROVE Kept
    BY <1>1, <1>3
<1>4. ASSUME NEW t \in TunnelIds, Cleared(t) PROVE Kept
  <2>1. /\ udpPlayers'[t] = <<>> /\ bound'[t] = {}
        /\ \A u \in TunnelIds \ {t} : udpPlayers'[u] = udpPlayers[u] /\ bound'[u] = bound[u]
    BY <1>2, <1>4 DEF Cleared, TypeOK
  <2> QED
    BY <1>1, <2>1, EmptyIsFine
<1>5. ASSUME NEW s \in Sessions, EnterGameServerNot(s) PROVE Kept
  <2>1. PICK k \in Keys : EnsureTunnel(k)
    BY <1>5 DEF EnterGameServerNot
  <2> QED
    BY <1>2, <1>3, <1>4, <2>1, EnsureType
<1>6. ASSUME NEW s \in Sessions, upsertUDPPlayer(s) PROVE Kept
  <2> DEFINE t == binding[s].tunnel
             p == Player(s)
  <2>1. t \in TunnelIds /\ p \in Entry
    BY <1>2, <1>6, PlayerType DEF upsertUDPPlayer
  <2>2. /\ udpPlayers' = [udpPlayers EXCEPT ![t] = Upserted(@, p)]
        /\ bound' = [bound EXCEPT ![t] = @ \cup {PairOf(p)}]
    BY <1>6 DEF upsertUDPPlayer, PairOf
  <2> HIDE DEF t, p
  <2>3. /\ udpPlayers'[t] = Upserted(udpPlayers[t], p) /\ bound'[t] = bound[t] \cup {PairOf(p)}
        /\ \A u \in TunnelIds \ {t} : udpPlayers'[u] = udpPlayers[u] /\ bound'[u] = bound[u]
    BY <1>2, <2>1, <2>2 DEF TypeOK
  <2>4. udpPlayers[t] \in Seq(Entry)
    BY <1>2, <2>1 DEF TypeOK
  <2>5. Fine(Upserted(udpPlayers[t], p), bound[t] \cup {PairOf(p)})
    BY <1>1, <2>1, <2>4, UpsertedKeeps DEF Fine
  <2> QED
    BY <1>1, <2>3, <2>5
<1>7. ASSUME NEW k \in Keys, CloseLeg(k) \/ CloseTunnel(k) PROVE Kept
  <2>1. tunnels[k] \in TunnelIds /\ Cleared(tunnels[k])
    BY <1>2, <1>7 DEF CloseLeg, CloseTunnel, TypeOK
  <2> QED
    BY <1>4, <2>1
<1>8. ASSUME NEW s \in Sessions,
             \/ AccountLoginRes(s) \/ AccountCharacterListRes(s) \/ LobbyCharacterInfoRes(s)
             \/ GameTypeFromRemote(s) \/ ObservesClient(s) \/ WriteToClient(s)
             \/ IdentitySnapshot(s) \/ LookupTunnel(s) \/ currentMap(s)
      PROVE  Kept
  <2>1. UNCHANGED registry
    BY <1>8 DEF AccountLoginRes, AccountCharacterListRes, LobbyCharacterInfoRes, GameTypeFromRemote,
                ObservesClient, LobbyEnterReq, GameTypeFromClient, WriteToClient, IdentitySnapshot,
                LookupTunnel, currentMap
  <2> QED
    BY <1>3, <2>1 DEF registry
<1>9. Kept
    BY <1>3, <1>5, <1>6, <1>7, <1>8 DEF Next, ObservesRemote, GoesOn, vars, registry
<1> QED
    BY <1>9 DEF ListedWereBound, OneEntryAPlayer, PlayersStayListed, OwnAddresses, OwnAccounts,
                Fine, Recorded, Once, Staying, Own, From

(***************************************************************************)
(* The theorems                                                            *)
(***************************************************************************)
\* The inductive invariant holds: of the copiers' bindings (udp_player.go:33-98)
\* and of the lists they add to, whatever the frames say and whenever legs close.
THEOREM Invariance == Spec => []IInv
<1>1. IInv /\ [Next]_vars => IInv'
  <2> SUFFICES ASSUME IInv, [Next]_vars PROVE IInv'
    OBVIOUS
  <2>1. TypeOK /\ NicksComeFirst /\ Bound /\ MapKnown
    BY DEF IInv
  <2>2. TypeOK' /\ NicksComeFirst' /\ Bound' /\ MapKnown'
    BY <2>1, TypeStep, NicksStep, BoundStep, MapStep
  <2>3. ListedWereBound' /\ OneEntryAPlayer' /\ PlayersStayListed'
    BY ListsStep
  <2> QED
    BY <2>2, <2>3 DEF IInv
<1> QED
    BY <1>1, InitIInv, PTL DEF Spec

\* The variables keep their types; nobody is listed without a nick
\* (udp_player.go:66).
THEOREM TypeCorrect == Spec => []TypeOK
<1>1. IInv => TypeOK
    BY DEF IInv
<1> QED
    BY <1>1, Invariance, PTL

\* No tunnel lists an account twice whose addresses served nobody else, nor an
\* address whose accounts came from nowhere else (udp_player.go:17-23).
THEOREM NoDuplicates == Spec => []OneEntryAPlayer
<1>1. IInv => OneEntryAPlayer
    BY DEF IInv
<1> QED
    BY <1>1, Invariance, PTL

\* Such players stay listed, whoever else enters, until the leg is closed
\* (udp_player.go:17-30).
THEOREM NobodyReplaced == Spec => []PlayersStayListed
<1>1. IInv => PlayersStayListed
    BY DEF IInv
<1> QED
    BY <1>1, Invariance, PTL

\* The map listed is the one of the moment of ENTER_GAME or one the client selected
\* since (udp_player.go:80, tcp_identity.go:64-80).
THEOREM MapNotLost == Spec => []MapIsListed
<1>1. IInv => MapIsListed
    BY DEF IInv, MapKnown, MapIsListed, Chosen
<1> QED
    BY <1>1, Invariance, PTL

\* A client that selects a character it was shown with a nick is known by the nick
\* remembered (tcp_identity.go:109-125, 189-207).
THEOREM SelectionsNamed == Spec => SelectionNamesCharacter
<1> DEFINE NamedWell == \A s \in Sessions :
              LobbyEnterReq(s) /\ identity'[s].character \in shown[s] =>
                  /\ identity'[s].nick # Empty
                  /\ identity'[s].nick = nicks[s][identity'[s].character]
<1>1. IInv => NamedWell
  <2> SUFFICES ASSUME IInv, NEW s \in Sessions, LobbyEnterReq(s),
                      identity'[s].character \in shown[s]
               PROVE  /\ identity'[s].nick # Empty
                      /\ identity'[s].nick = nicks[s][identity'[s].character]
    OBVIOUS
  <2>1. PICK c \in Characters :
          identity' = [identity EXCEPT ![s].character = c, ![s].nick = OrElse(nicks[s][c], @)]
    BY DEF LobbyEnterReq
  <2>2. identity \in [Sessions -> Identities]
    BY DEF IInv, TypeOK
  <2>3. /\ identity'[s].character = c
        /\ identity'[s].nick = OrElse(nicks[s][c], identity[s].nick)
    BY <2>1, <2>2 DEF Identities
  <2>4. nicks[s][c] # Empty
    BY <2>3 DEF IInv, NicksComeFirst
  <2> QED
    BY <2>3, <2>4 DEF OrElse
<1>2. IInv => [NamedWell]_vars
    BY <1>1
<1> QED
    BY <1>2, Invariance, PTL DEF SelectionNamesCharacter
=============================================================================
