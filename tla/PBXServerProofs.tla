--------------------------- MODULE PBXServerProofs ---------------------------
(***************************************************************************)
(* Proofs about the server's shutdown: any number of descriptors.          *)
(***************************************************************************)
EXTENDS PBXServer, TLAPS

(***************************************************************************)
(* The inductive invariant.  The loop of pbx_shutdown reads one entry at a *)
(* time, so that what it has read may have changed.  It has not for the    *)
(* connections that were shut down: their threads only leave, and no       *)
(* connection gets their descriptors any more.                             *)
(***************************************************************************)

\* A thread is in the table while it is served.
TableInv ==
    \A t \in Conn :
        /\ t \in registered <=> thread[t] \in {"serving", "hungup"}
        /\ thread[t] = "unregister" <=> holder = t
        /\ thread[t] = "started" => ~shut[t]

\* A descriptor is given to a new connection only when no thread has it.
AcceptInv ==
    main = "spawn" /\ conn # Bad => thread[conn] = "none" /\ ~shut[conn]

\* What the loop has found empty stays free of the connections shut down.
ScanInv ==
    /\ main = "wait" /\ clean =>
         \A t \in Conn : t < scan /\ shut[t] => t \notin registered
    /\ main \in {"free", "exit", "exited"} =>
         \A t \in Conn : shut[t] => t \notin registered
    /\ freed => main \in {"exit", "exited"}
    /\ main \in {"top", "accept", "spawn", "check", "shutdown"} =>
         scan = 1 /\ clean

IInv == ServerTypeOK /\ TableInv /\ AcceptInv /\ ScanInv

-----------------------------------------------------------------------------
\* The server starts with no thread.
LEMMA InitIInv == ServerInit => IInv
<1> USE NAssumption DEF ServerInit, Thread, Bad
<1>1. ServerInit => ServerTypeOK
  <2>1. 1 \in 1..N
    OBVIOUS
  <2>2. QED
    BY <2>1 DEF ServerTypeOK
<1>2. ServerInit => TableInv /\ AcceptInv /\ ScanInv
  BY DEF TableInv, AcceptInv, ScanInv, Conn, Nobody
<1>3. QED
  BY <1>1, <1>2 DEF IInv

\* The main thread, and signals.
LEMMA MainNext ==
  ASSUME IInv,
         Main \/ Sighup \/ (\E t \in Conn : Connection(t)) \/ UNCHANGED serverVars
  PROVE  IInv'
<1> USE NAssumption
      DEF IInv, ServerTypeOK, TableInv, AcceptInv, ScanInv, MainStep, Thread, Conn,
          Bad, Nobody
<1>1. CASE EnterAccept
  BY <1>1 DEF EnterAccept
<1>2. CASE Spawn
  BY <1>2 DEF Spawn
<1>3. CASE Check
  BY <1>3 DEF Check
<1>4. CASE ShutdownAll
  BY <1>4 DEF ShutdownAll
<1>5. CASE Scan
  BY <1>5 DEF Scan
<1>6. CASE Free
  BY <1>6 DEF Free
<1>7. CASE Exit
  BY <1>7 DEF Exit
<1>8. CASE Sighup
  BY <1>8 DEF Sighup, Running
<1>9. ASSUME NEW t \in Conn, Connection(t) PROVE IInv'
  BY <1>9 DEF Connection
<1>10. CASE UNCHANGED serverVars
  BY <1>10 DEF serverVars
<1>11. QED
  BY <1>1, <1>2, <1>3, <1>4, <1>5, <1>6, <1>7, <1>8, <1>9, <1>10 DEF Main

\* The service threads.
LEMMA ServiceNext ==
  ASSUME IInv,
         \/ Reject
         \/ \E t \in Conn : Service(t) \/ EofFromClient(t)
         \/ \E t \in Thread : UseFreed(t)
  PROVE  IInv'
<1> USE NAssumption
      DEF IInv, ServerTypeOK, TableInv, AcceptInv, ScanInv, ThreadStep, Thread, Conn,
          Bad, Nobody
<1>1. CASE Reject
  BY <1>1 DEF Reject
<1>2. ASSUME NEW t \in Conn, PbxRegister(t) PROVE IInv'
  BY <1>2 DEF PbxRegister
<1>3. ASSUME NEW t \in Conn, EofFromShutdown(t) PROVE IInv'
  BY <1>3 DEF EofFromShutdown
<1>4. ASSUME NEW t \in Conn, EofFromClient(t) PROVE IInv'
  BY <1>4 DEF EofFromClient
<1>5. ASSUME NEW t \in Conn, PbxUnregister(t) PROVE IInv'
  BY <1>5 DEF PbxUnregister
<1>6. ASSUME NEW t \in Conn, Leave(t) PROVE IInv'
  BY <1>6 DEF Leave
<1>7. ASSUME NEW t \in Thread, UseFreed(t) PROVE IInv'
  BY <1>7 DEF UseFreed
<1>8. QED
  BY <1>1, <1>2, <1>3, <1>4, <1>5, <1>6, <1>7 DEF Service

\* The invariant holds in every state.
LEMMA Inductive == ServerSpec => []IInv
<1>1. IInv /\ [ServerNext]_serverVars => IInv'
  BY MainNext, ServiceNext DEF ServerNext, ServerEnded
<1>2. QED
  BY <1>1, InitIInv, PTL DEF ServerSpec

-----------------------------------------------------------------------------
\* The types of the server's variables, for any number of descriptors; the
\* scan of the table stays within it (pbx.c:48-62).
THEOREM TypeCorrect == ServerSpec => []ServerTypeOK
<1>1. IInv => ServerTypeOK
  BY DEF IInv
<1>2. QED
  BY <1>1, Inductive, PTL

\* When pbx_shutdown frees pbx, no thread whose connection it has shut down
\* is being served or has yet to unregister (pbx.c:38-64).
THEOREM FreedAfter == ServerSpec => []FreedAfterService
<1>1. IInv => FreedAfterService
  BY DEF IInv, TableInv, ScanInv, FreedAfterService
<1>2. QED
  BY <1>1, Inductive, PTL
=============================================================================
