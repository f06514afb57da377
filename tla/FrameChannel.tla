----------------------------- MODULE FrameChannel -----------------------------
(* What a stream interface promises to the stack above it.  The upstream node  *)
(* writes whole packets; they are handed up in order, each once, cut at what   *)
(* the interface has room for.  A connection that breaks loses what was still  *)
(* under way from some byte on, so that the last packet handed up before the   *)
(* gap may be the beginning of one.                                            *)
EXTENDS Sequences, Naturals

CONSTANTS
    Packets,        \* the packets the upstream node sends, sequences of bytes
    Room            \* bytes of a packet the interface has room for

VARIABLES
    transit,        \* packets written and not handed up yet, oldest first
    handed          \* packets handed up, oldest first

\* The first n packets of q, and the first n with the beginning of the next.
Cuts(q) ==
    {SubSeq(q, 1, n) : n \in 0..Len(q)}
      \cup UNION {{Append(SubSeq(q, 1, n - 1), SubSeq(q[n], 1, k)) :
                        k \in 1..Len(q[n])} : n \in 1..Len(q)}

Clipped(p) == IF Len(p) > Room THEN SubSeq(p, 1, Room) ELSE p

Init == transit = <<>> /\ handed = <<>>

Write ==
    /\ \E p \in Packets : transit' = Append(transit, Clipped(p))
    /\ UNCHANGED handed

HandUp ==
    /\ transit # <<>>
    /\ handed' = Append(handed, Head(transit))
    /\ transit' = Tail(transit)

Break ==
    /\ transit' \in Cuts(transit)
    /\ UNCHANGED handed

Next == Write \/ HandUp \/ Break

Spec == Init /\ [][Next]_<<transit, handed>>
=============================================================================
