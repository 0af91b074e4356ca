--------------------------- MODULE MCPlayerBinding ---------------------------
EXTENDS PlayerBinding, TLC

CONSTANTS s1, s2, q1, q2, a, b, t1, t2,
    MaxFrames    \* frames observed in a behaviour

TwoSessions == {s1, s2}
TwoPeers == {q1, q2}
TwoAccounts == {a, b}
TwoTunnels == {t1, t2}

VARIABLE frames

MCInit == Init /\ frames = 0

MCNext ==
    \/ /\ frames < MaxFrames
       /\ \E s \in Sessions : ObservesRemote(s) \/ ObservesClient(s)
       /\ frames' = frames + 1
    \/ /\ (\E s \in Sessions : GoesOn(s)) \/ (\E k \in Keys : CloseLeg(k) \/ CloseTunnel(k))
       /\ UNCHANGED frames

MCSpec == MCInit /\ [][MCNext]_<<vars, frames>>

\* The players of an object that nobody holds are never seen again, and no step
\* depends on the character a session is known by.
WithoutGarbage ==
    <<peer, withTCP, [s \in Sessions |-> [identity[s] EXCEPT !.character = Empty]], nicks, shown,
      copier, tunnels, legs \ Fresh, frames,
      [t \in TunnelIds \ Fresh |-> <<udpPlayers[t], bound[t]>>]>>

Names == Permutations(TwoSessions) \cup Permutations(TwoPeers)
             \cup Permutations(TwoAccounts) \cup Permutations(TwoTunnels)
=============================================================================
