--------------------------- MODULE ResourceTransfer ---------------------------
(***************************************************************************)
(* What RNS::Resource promises: a receiver gets at most one payload, it is *)
(* the whole payload of one resource, and the sender handed all of it to   *)
(* the link before.                                                        *)
(***************************************************************************)
EXTENDS Naturals

CONSTANTS Resources, Receivers, Nothing

VARIABLES
  offered,   \* resources the sender has finished sending
  result     \* [Receivers -> what on_complete got, or Nothing]

Offer(r) ==
  /\ r \notin offered
  /\ offered' = offered \cup {r}
  /\ UNCHANGED result

Deliver(x, r) ==
  /\ result[x] = Nothing
  /\ r \in offered
  /\ result' = [result EXCEPT ![x] = r]
  /\ UNCHANGED offered

Init == offered = {} /\ result = [x \in Receivers |-> Nothing]

Next == \/ \E r \in Resources : Offer(r)
        \/ \E x \in Receivers, r \in Resources : Deliver(x, r)

Spec == Init /\ [][Next]_<<offered, result>>

=============================================================================
