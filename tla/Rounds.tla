------------------------------- MODULE Rounds -------------------------------
(***************************************************************************)
(* What the master of polya (hw4) promises, whatever becomes of signals,   *)
(* pipes and workers: the problems are solved in rounds, one after the     *)
(* other and each once.  Workers join the round; it ends with the solution *)
(* that one of them has found since it joined, and then all of them are    *)
(* out.  The master ends when every problem is solved or every worker lost.*)
(***************************************************************************)
EXTENDS Naturals

CONSTANTS
    Worker,
    P         \* the number of problems

VARIABLES
    current,  \* the problem of this round, or NoProblem
    team,     \* the workers it was given to
    found,    \* those that have found a solution of it
    solved,   \* the problems that are solved
    lost,     \* the workers that were killed
    ended     \* the master has exited

vars == <<current, team, found, solved, lost, ended>>

NoProblem == 0

Init ==
    /\ current = NoProblem /\ team = {} /\ found = {}
    /\ solved = {} /\ lost = {} /\ ended = FALSE

\* A round begins with the next problem, for worker k.
Begin(k) ==
    /\ current = NoProblem
    /\ current' \in 1..P /\ solved = 1..(current' - 1)
    /\ team' = {k}
    /\ UNCHANGED <<found, solved, lost, ended>>

Join(k) ==
    /\ current # NoProblem /\ k \notin team
    /\ team' = team \cup {k}
    /\ UNCHANGED <<current, found, solved, lost, ended>>

Find(k) ==
    /\ k \in team \ found
    /\ found' = found \cup {k}
    /\ UNCHANGED <<current, team, solved, lost, ended>>

\* The solution of worker k is accepted.
Win(k) ==
    /\ k \in found
    /\ solved' = solved \cup {current} /\ current' = NoProblem
    /\ team' = {} /\ found' = {}
    /\ UNCHANGED <<lost, ended>>

Lose(k) ==
    /\ lost' = lost \cup {k}
    /\ UNCHANGED <<current, team, found, solved, ended>>

End ==
    /\ solved = 1..P \/ lost = Worker
    /\ ended' = TRUE
    /\ UNCHANGED <<current, team, found, solved, lost>>

Next ==
    /\ ~ended
    /\ \/ End
       \/ \E k \in Worker : Begin(k) \/ Join(k) \/ Find(k) \/ Win(k) \/ Lose(k)

Spec == Init /\ [][Next]_vars
=============================================================================
