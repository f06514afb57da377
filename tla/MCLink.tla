------------------------------- MODULE MCLink -------------------------------
(* Small instances of Link: one or two links; a plain payload, or a request   *)
(* whose path the responder serves.                                          *)
EXTENDS Link

Ids == {"l1", "l2"}
OneRequest == {"l1"}
OneId == {"l1"}
Hello == {"hello"}
HelloContext == [p \in Hello |-> "NONE"]
Page == {"page"}
PageContext == [p \in Page |-> "REQUEST"]
Nothing == {}
NoContext == [p \in Nothing |-> "NONE"]
\* The default (no MTU bytes), a value that fits and one that does not.
NoMtu == {0}
SomeMtus == {0, 3, 9}
=============================================================================
