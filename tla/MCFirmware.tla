------------------------------ MODULE MCFirmware ------------------------------
(* One board with two peers; createKeys() can draw as many keys as there are  *)
(* boots.                                                                     *)
EXTENDS Firmware

TwoKeys == {"k1", "k2"}
OnePeer == {"p"}
TwoPeriods == {1, 2}
===============================================================================
