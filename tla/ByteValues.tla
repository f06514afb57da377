------------------------------ MODULE ByteValues ------------------------------
(* What RNS::Bytes promises: every handle is a value of its own.  An operation *)
(* on one handle may read others and changes no other.                         *)
EXTENDS Naturals, Sequences

CONSTANTS
    Handles,        \* variables of type Bytes
    Inputs,         \* contents given from outside, sequences of bytes
    Fills,          \* bytes written in place
    MaxLen          \* bound: length of a value in place

VARIABLE value      \* [Handles -> sequence of bytes]

Becomes(h, s) == value' = [value EXCEPT ![h] = s]

\* The first n bytes, or zeros where there are none.
Resized(s, n) == [i \in 1..n |-> IF i <= Len(s) THEN s[i] ELSE 0]

Assign(h, s) == Becomes(h, s)
Extend(h, s) == Becomes(h, value[h] \o s)
Concat(h, g, k) == Becomes(h, value[g] \o value[k])
Slice(h, g, i, j) == Becomes(h, SubSeq(value[g], i, j))
Put(h, i, v) == Becomes(h, [value[h] EXCEPT ![i] = v])
Resize(h, n) == Becomes(h, Resized(value[h], n))
Fill(h, n, v) == Becomes(h, [i \in 1..n |-> v])

Init == value = [h \in Handles |-> <<>>]

Next ==
    \E h \in Handles :
      \/ \E s \in Inputs : Assign(h, s) \/ Extend(h, s)
      \/ \E g \in Handles : Assign(h, value[g])
      \/ \E g, k \in Handles : Concat(h, g, k)
      \/ \E g \in Handles :
           \E i \in 1..Len(value[g])+1, j \in 0..Len(value[g]) : Slice(h, g, i, j)
      \/ \E i \in DOMAIN value[h], v \in Fills : Put(h, i, v)
      \/ \E n \in 0..MaxLen : Resize(h, n)
      \/ \E n \in 0..MaxLen, v \in Fills : Fill(h, n, v)

Spec == Init /\ [][Next]_value
=============================================================================
