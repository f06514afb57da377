------------------------------ MODULE MCRNodeBle ------------------------------
(* Frames for TLC: one that switches the radio off, one that is answered with  *)
(* a FEND, and a packet with what an escaped FEND looks like, a byte longer    *)
(* than frame_buf.                                                             *)
EXTENDS RNodeBle

ThreeFrames == <<Frame(RADIO_STATE, <<0>>), Frame(RANDOM, <<>>),
                 Frame(DATA, <<219, 220>>)>>
JustFend == {192}
=============================================================================
