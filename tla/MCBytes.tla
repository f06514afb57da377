-------------------------------- MODULE MCBytes --------------------------------
(* Byte strings and what is laid out in them.  The handles, a MessagePack      *)
(* writer with its reader, and a packet on its way have nothing to do with     *)
(* each other: one of the three moves while the others are as they began.      *)
EXTENDS Bytes, MsgPack, Packets, TLC

SomeChunks == {<<>>, <<171>>}
SomeHexes == {<<97, 66, 57>>}       \* "aB9"
AnyAddress == Permutations(Buffers)

\* The two ends of every width.
Word(fill, t) == [i \in 1..8 |-> IF i <= 8 - Len(t) THEN fill ELSE t[i - 8 + Len(t)]]
Positive == {<<0>>, <<127>>, <<128>>, <<255>>, <<1, 0>>, <<255, 255>>, <<1, 0, 0>>,
             <<255, 255, 255, 255>>, <<1, 0, 0, 0, 0>>}
Negative == {<<255>>, <<224>>, <<223>>, <<128>>, <<127>>}
SomeCalls ==
    {<<"nil", <<1>>>>, <<"bool", <<0>>>>, <<"bool", <<1>>>>,
     <<"float", <<64, 9, 33, 251, 84, 68, 45, 24>>>>}
    \cup {<<"int", Word(0, t)>> : t \in Positive}
    \cup {<<"int", Word(255, t)>> : t \in Negative}
    \cup {<<"bin", [i \in 1..n |-> 192]>> : n \in {0, 255, 256, 65535, 65536}}
    \cup {<<"array", <<n>>>> : n \in {0, 1, 2, 16, 65536}}

\* No app data, and up to one byte more than fits with an announce.
SomePayloads == {<<>>, <<<<7>>>>, <<<<7>>, <<7>>>>, <<<<7>>, <<7>>, <<8>>>>}

MCInit == Init /\ PackInit /\ FrameInit

MCNext ==
    \/ PackInit /\ FrameInit /\ Next /\ UNCHANGED <<msgPackVars, frameVars>>
    \/ Init /\ FrameInit /\ PackNext /\ UNCHANGED <<vars, frameVars>>
    \/ Init /\ PackInit /\ FrameNext /\ UNCHANGED <<vars, msgPackVars>>

MCSpec == MCInit /\ [][MCNext]_<<vars, msgPackVars, frameVars>>
=============================================================================
