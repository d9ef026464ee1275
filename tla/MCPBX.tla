------------------------------- MODULE MCPBX -------------------------------
(***************************************************************************)
(* Instances of PBX for TLC.                                               *)
(***************************************************************************)
EXTENDS PBX, TLC

\* Descriptors are interchangeable: no operation compares two of them.
Symmetry == Permutations(Valid)

\* A descriptor that pbx_register refuses is refused before anything else: its
\* thread does nothing more, and no other one looks at it.
RefusedFirst ==
    \A x \in Fd \ Valid : pc[x] = "refused" \/ pc'[x] = "refused"

MCSpec == Init /\ [][Next /\ RefusedFirst]_vars
=============================================================================
