---------------------------- MODULE FramedStream ----------------------------
(***************************************************************************)
(* What one direction of a relayed TCP session promises its receiver: the  *)
(* sender's frames, each once and in order, and between them, as long as   *)
(* the stream is framed, frames of the proxy's own queue, each at most     *)
(* once and in order.  A frame of the queue may be lost; the stream may    *)
(* stop at any frame.                                                      *)
(***************************************************************************)
EXTENDS Naturals, Sequences

CONSTANTS
    Odd,             \* numbers of the frames whose length prefix is no frame length
    Own              \* the proxy's own frames

VARIABLES
    sent,            \* number of frames the sender has sent
    forwarded,       \* number of them forwarded
    pending,         \* the proxy's own frames, waiting
    out              \* what the receiver was sent

streamVars == <<sent, forwarded, pending, out>>

Framed == \A i \in 1 .. forwarded : i \notin Odd

Init == sent = 0 /\ forwarded = 0 /\ pending = <<>> /\ out = <<>>

Send == sent' = sent + 1 /\ UNCHANGED <<forwarded, pending, out>>

Forward == /\ forwarded < sent
           /\ forwarded' = forwarded + 1
           /\ out' = Append(out, <<"frame", forwarded + 1>>)
           /\ UNCHANGED <<sent, pending>>

Queue(x) == pending' = Append(pending, x) /\ UNCHANGED <<sent, forwarded, out>>

Take == pending # <<>> /\ pending' = Tail(pending) /\ UNCHANGED <<sent, forwarded>>

Inject == Take /\ Framed /\ out' = Append(out, <<"announce", Head(pending)>>)

Lose == Take /\ UNCHANGED out

Next == Send \/ Forward \/ Inject \/ Lose \/ \E x \in Own : Queue(x)

Spec == Init /\ [][Next]_streamVars
=============================================================================
