------------------------------ MODULE Allocator ------------------------------
(***************************************************************************)
(* What hw3's allocator promises its clients (src/sfmm.c): the payloads    *)
(* handed out do not overlap, and a call touches no payload but the one it *)
(* is about.                                                               *)
(*                                                                         *)
(* `payload' has the length of each payload in use, by its place.  A step  *)
(* is described by the payloads before and after it.                       *)
(***************************************************************************)
EXTENDS Integers

VARIABLE payload

Places == DOMAIN payload

\* The bytes m from place b and the bytes n from place c are different ones.
Clear(b, m, c, n) == b + m <= c \/ c + n <= b

Apart == \A b, c \in Places : b # c => Clear(b, payload[b], c, payload[c])

\* The payloads at the places S are in use as before.
Untouched(S) == \A b \in S : payload'[b] = payload[b]

Init == Places = {}

\* sf_malloc and sf_memalign.
Allocate ==
  \E b \in Places' \ Places : Places' = Places \cup {b} /\ Untouched(Places)

\* sf_free, and sf_realloc to no bytes.
Release ==
  \E b \in Places : Places' = Places \ {b} /\ Untouched(Places')

\* sf_realloc of a payload that is long enough.
Shorten ==
  \E b \in Places :
    Places' = Places /\ Untouched(Places \ {b}) /\ payload'[b] <= payload[b]

\* sf_realloc to a longer payload, into which the old one is copied before it is
\* released: it fits there, and does not overlap it.
Move ==
  \E b \in Places, c \in Places' \ Places :
    /\ Places' = (Places \ {b}) \cup {c} /\ Untouched(Places \ {b})
    /\ payload[b] <= payload'[c] /\ Clear(b, payload[b], c, payload'[c])

Next == (Allocate \/ Release \/ Shorten \/ Move) /\ Apart'

Spec == Init /\ [][Next]_payload
=============================================================================
