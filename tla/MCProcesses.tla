---------------------------- MODULE MCProcesses ----------------------------
(***************************************************************************)
(* The concurrent programs of hw4 and hw5 for TLC, under weak fairness: a  *)
(* behaviour is one of the system that `system' names, and leaves the      *)
(* variables of the others at their first values.                          *)
(***************************************************************************)
EXTENDS PBXCalls, PBXServer, Polya

CONSTANTS Valid, Addr   \* PBX

VARIABLES
  system,     \* the system this behaviour is one of
  extensions, mutex, swap, allocated, state, opponent, fd, lock, pc, cmd, ext, client,
  other, told, orphaned, fault   \* PBX

Locked == INSTANCE PBX

lockedVars == <<extensions, mutex, swap, allocated, state, opponent, fd, lock, pc, cmd,
                ext, client, other, told, orphaned, fault>>

ProcessesInit ==
  /\ system \in {"PBXCalls", "PBX", "PBXServer", "Polya"}
  /\ Init /\ Locked!Init /\ ServerInit /\ PolyaInit

ProcessesNext ==
  /\ UNCHANGED system
  /\ \/ /\ system = "PBXCalls" /\ Next
        /\ UNCHANGED <<lockedVars, serverVars, polyaVars>>
     \/ /\ system = "PBX" /\ Locked!Next
        /\ UNCHANGED <<vars, serverVars, polyaVars>>
     \/ /\ system = "PBXServer" /\ ServerNext
        /\ UNCHANGED <<vars, lockedVars, polyaVars>>
     \/ /\ system = "Polya" /\ PolyaNext
        /\ UNCHANGED <<vars, lockedVars, serverVars>>

\* The fairness of PBX, PBXServer and Polya, each in its own behaviours.
Fairness ==
  /\ \A t \in Fd : WF_lockedVars(system = "PBX" /\ Locked!Operation(t))
  /\ WF_serverVars(system = "PBXServer" /\ Main)
  /\ \A t \in Conn : WF_serverVars(system = "PBXServer" /\ Service(t))
  /\ WF_polyaVars(system = "Polya" /\ MasterStep)
  /\ \A k \in Worker : WF_polyaVars(system = "Polya" /\ WorkerStep(k))

ProcessesSpec ==
  /\ ProcessesInit
  /\ [][ProcessesNext]_<<system, vars, lockedVars, serverVars, polyaVars>>
  /\ Fairness

-----------------------------------------------------------------------------
\* A thread that has pbx->swap completes its operation (pbx.c:305-333).
HolderFinishes == Locked!HolderFinishes

\* Unless somebody kills a worker, the master exits (master.c).
MasterFinishes == system = "Polya" => ExitsUnlessKilled

\* As long as one worker lives, every problem is solved (problem.c:70-95).
PolyaSolves == system = "Polya" => ProblemsAreSolved
=============================================================================
