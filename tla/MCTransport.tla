----------------------------- MODULE MCTransport -----------------------------
(* Small meshes for TLC.  A link is an unordered pair of interfaces that     *)
(* hear each other; an interface is named by its node and its far end.      *)
EXTENDS Transport

\* A diamond: the far node reaches the home through r or through l.
DiamondIfaces == {"h_r", "h_l", "r_h", "r_f", "l_h", "l_f", "f_r", "f_l"}
DiamondOwner == [i \in DiamondIfaces |->
  CASE i \in {"h_r", "h_l"} -> "h" [] i \in {"r_h", "r_f"} -> "r"
    [] i \in {"l_h", "l_f"} -> "l" [] OTHER -> "f"]
DiamondHears == [i \in DiamondIfaces |->
  CASE i = "h_r" -> {"r_h"} [] i = "r_h" -> {"h_r"}
    [] i = "h_l" -> {"l_h"} [] i = "l_h" -> {"h_l"}
    [] i = "r_f" -> {"f_r"} [] i = "f_r" -> {"r_f"}
    [] i = "l_f" -> {"f_l"} [] OTHER -> {"l_f"}]
FourNodes == {"h", "r", "l", "f"}

\* One destination, at h.
OneDest == {"d"}
HomeH == [d \in OneDest |-> "h"]
ToD(S) == [x \in S |-> "d"]
OneAnnounce == {"a1"}
OneData == {"p"}
AnnDestOne == ToD(OneAnnounce)
DataDestOne == ToD(OneData)
=============================================================================
