---------------------------- MODULE MCTcpInterface ----------------------------
(* Packets that need both escapes: one with a byte that is an escaped flag     *)
(* when it follows an escape, as long as the receive buffer, and one a byte    *)
(* longer, whose frame just fits the transmit buffer.                          *)
EXTENDS TcpInterface

EscapedPackets == {<<125, 94, 126>>, <<7, 126, 8, 9>>}
ReceiveRoom == 3
TransmitRoom == 8

BothTasks == {"reticulum", "main"}
=============================================================================
