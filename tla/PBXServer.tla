----------------------------- MODULE PBXServer -----------------------------
(***************************************************************************)
(* The main thread of the hw5 server (main.c), its SIGHUP handler, the     *)
(* life of the service threads (server.c) and pbx_shutdown (pbx.c).  What  *)
(* happens between registration and EOF is module PBX's matter; here a     *)
(* service thread is serving until it sees EOF.                            *)
(*                                                                         *)
(* A connection is named by its descriptor.  Linux delivers a SIGHUP sent  *)
(* to the process to the main thread, which never blocks it.               *)
(***************************************************************************)
EXTENDS Naturals

CONSTANT N    \* the descriptors accept() may return are 1..N

ASSUME NAssumption == N \in Nat \ {0}

Conn == 1..N
Bad  == 0          \* the -1 of an accept() interrupted by the signal
Thread == {Bad} \cup Conn
Nobody == N + 1

VARIABLES
    main,        \* where the main thread is
    conn,        \* *connfdp
    finished,    \* the flag the handler sets
    thread,      \* thread[t]: where the service thread of descriptor t is
    shut,        \* shut[t]: shutdown() was called on t
    registered,  \* the descriptors with pbx->extensions[t] # NULL
    holder,      \* who holds pbx->mutex
    scan,        \* the index pbx_shutdown's loop reads next
    clean,       \* every index it has read in this round was empty
    freed,       \* pbx has been freed
    misuse       \* history: freed pbx was used

serverVars == <<main, conn, finished, thread, shut, registered, holder, scan,
                clean, freed, misuse>>

ServerInit ==
    /\ main = "top" /\ conn = Bad
    /\ finished = FALSE
    /\ thread = [t \in Thread |-> "none"]
    /\ shut = [t \in Conn |-> FALSE]
    /\ registered = {}
    /\ holder = Nobody
    /\ scan = 1 /\ clean = TRUE
    /\ freed = FALSE /\ misuse = FALSE

Running == main # "exited" /\ ~misuse

-----------------------------------------------------------------------------
(***************************************************************************)
(* The main thread.                                                        *)
(***************************************************************************)

MainStep(from, to) == Running /\ main = from /\ main' = to

\* The end of the check of `finished' and the blocking of accept() are two
\* instants: a signal may come in between.
EnterAccept ==
    /\ MainStep("top", "accept")
    /\ UNCHANGED <<conn, finished, thread, shut, registered, holder, scan,
                   clean, freed, misuse>>

\* A client connects; the kernel returns an unused descriptor.
Connection(t) ==
    /\ MainStep("accept", "spawn")
    /\ thread[t] = "none"
    /\ conn' = t
    /\ shut' = [shut EXCEPT ![t] = FALSE]
    /\ UNCHANGED <<finished, thread, registered, holder, scan, clean, freed,
                   misuse>>

\* The handler, installed without SA_RESTART: a blocked accept() returns -1.
Sighup ==
    /\ Running
    /\ finished' = TRUE
    /\ IF main = "accept" THEN main' = "spawn" /\ conn' = Bad
                          ELSE UNCHANGED <<main, conn>>
    /\ UNCHANGED <<thread, shut, registered, holder, scan, clean, freed, misuse>>

\* A thread is created whatever accept() returned.
Spawn ==
    /\ MainStep("spawn", "check")
    /\ thread' = [thread EXCEPT ![conn] = "started"]
    /\ UNCHANGED <<conn, finished, shut, registered, holder, scan, clean, freed,
                   misuse>>

\* Mutant: the flag is tested only when accept() was interrupted.
CheckOnlyInterrupted ==
    /\ MainStep("check", IF finished /\ conn = Bad THEN "shutdown" ELSE "top")
    /\ UNCHANGED <<conn, finished, thread, shut, registered, holder, scan,
                   clean, freed, misuse>>

Check ==
    /\ MainStep("check", IF finished THEN "shutdown" ELSE "top")
    /\ UNCHANGED <<conn, finished, thread, shut, registered, holder, scan,
                   clean, freed, misuse>>

\* pbx_shutdown, first half: with pbx->mutex, every registered connection is
\* shut down, so that its thread will read EOF.
ShutdownAll ==
    /\ MainStep("shutdown", "wait")
    /\ holder = Nobody
    /\ shut' = [t \in Conn |-> shut[t] \/ t \in registered]
    /\ UNCHANGED <<conn, finished, thread, registered, holder, scan, clean,
                   freed, misuse>>

\* Mutant: one empty slot is taken for an empty table.
ScanSome ==
    /\ MainStep("wait", IF scan = N /\ scan \notin registered
                        THEN "free" ELSE "wait")
    /\ scan' = IF scan = N THEN 1 ELSE scan + 1
    /\ UNCHANGED <<conn, finished, thread, shut, registered, holder, clean,
                   freed, misuse>>

\* Mutant: the loop runs one entry past the end of the table.
ScanPastEnd ==
    LET empty == clean /\ scan \notin registered IN
    /\ MainStep("wait", IF scan > N /\ empty THEN "free" ELSE "wait")
    /\ scan' = IF scan > N THEN 1 ELSE scan + 1
    /\ clean' = (scan > N \/ empty)
    /\ UNCHANGED <<conn, finished, thread, shut, registered, holder, freed,
                   misuse>>

\* Second half: the table is read over and over, without the mutex and one
\* entry at a time, until one round finds every entry empty.
Scan ==
    LET empty == clean /\ scan \notin registered IN
    /\ MainStep("wait", IF scan = N /\ empty THEN "free" ELSE "wait")
    /\ scan' = IF scan = N THEN 1 ELSE scan + 1
    /\ clean' = (scan = N \/ empty)
    /\ UNCHANGED <<conn, finished, thread, shut, registered, holder, freed,
                   misuse>>

Free ==
    /\ MainStep("free", "exit")
    /\ freed' = TRUE
    /\ UNCHANGED <<conn, finished, thread, shut, registered, holder, scan,
                   clean, misuse>>

\* exit() ends every thread.
Exit ==
    /\ MainStep("exit", "exited")
    /\ UNCHANGED <<conn, finished, thread, shut, registered, holder, scan,
                   clean, freed, misuse>>

-----------------------------------------------------------------------------
(***************************************************************************)
(* The service threads.                                                    *)
(***************************************************************************)

\* Thread t moves on; a step that uses pbx is a fault once pbx is freed.
ThreadStep(t, from, to) ==
    /\ Running /\ ~freed
    /\ thread[t] = from
    /\ thread' = [thread EXCEPT ![t] = to]

\* pbx_register returns NULL for the descriptor -1.
Reject ==
    /\ ThreadStep(Bad, "started", "none")
    /\ holder = Nobody
    /\ UNCHANGED <<main, conn, finished, shut, registered, holder, scan, clean,
                   freed, misuse>>

PbxRegister(t) ==
    /\ ThreadStep(t, "started", "serving")
    /\ holder = Nobody
    /\ registered' = registered \cup {t}
    /\ UNCHANGED <<main, conn, finished, shut, holder, scan, clean, freed,
                   misuse>>

\* The thread reads EOF because main shut the connection down: tu_hangup.
EofFromShutdown(t) ==
    /\ ThreadStep(t, "serving", "hungup")
    /\ shut[t]
    /\ UNCHANGED <<main, conn, finished, shut, registered, holder, scan, clean,
                   freed, misuse>>

\* ... or because the client closed it.
EofFromClient(t) ==
    /\ ThreadStep(t, "serving", "hungup")
    /\ ~shut[t]
    /\ UNCHANGED <<main, conn, finished, shut, registered, holder, scan, clean,
                   freed, misuse>>

\* Mutant: pbx_unregister leaves the entry in the table.
PbxUnregisterKeepsEntry(t) ==
    /\ ThreadStep(t, "hungup", "unregister")
    /\ holder = Nobody
    /\ holder' = t
    /\ UNCHANGED <<main, conn, finished, shut, registered, scan, clean, freed,
                   misuse>>

\* pbx_unregister up to the clearing of the entry ...
PbxUnregister(t) ==
    /\ ThreadStep(t, "hungup", "unregister")
    /\ holder = Nobody
    /\ holder' = t
    /\ registered' = registered \ {t}
    /\ UNCHANGED <<main, conn, finished, shut, scan, clean, freed, misuse>>

\* ... and V(&pbx->mutex), after which the thread returns.
Leave(t) ==
    /\ ThreadStep(t, "unregister", "none")
    /\ holder' = Nobody
    /\ UNCHANGED <<main, conn, finished, shut, registered, scan, clean, freed,
                   misuse>>

\* The next step of a thread uses pbx, which main has freed.
UseFreed(t) ==
    /\ Running /\ freed
    /\ thread[t] \in {"started", "serving", "hungup", "unregister"}
    /\ misuse' = TRUE
    /\ UNCHANGED <<main, conn, finished, thread, shut, registered, holder, scan,
                   clean, freed>>

-----------------------------------------------------------------------------
Main == EnterAccept \/ Spawn \/ Check \/ ShutdownAll \/ Scan \/ Free \/ Exit

Service(t) == PbxRegister(t) \/ EofFromShutdown(t) \/ PbxUnregister(t) \/ Leave(t)

\* The process has ended, or its behaviour is no longer defined.
ServerEnded == ~Running /\ UNCHANGED serverVars

ServerNext ==
    \/ Main \/ Sighup \/ Reject \/ ServerEnded
    \/ \E t \in Conn : Connection(t) \/ Service(t) \/ EofFromClient(t)
    \/ \E t \in Thread : UseFreed(t)

ServerSpec == ServerInit /\ [][ServerNext]_serverVars

\* Every thread that can go on does, and a connection that was shut down gives
\* EOF; clients need not connect or disconnect, and signals need not come.
ServerFairSpec ==
    ServerSpec /\ WF_serverVars(Main) /\ \A t \in Conn : WF_serverVars(Service(t))

-----------------------------------------------------------------------------
(***************************************************************************)
(* Properties.                                                             *)
(***************************************************************************)

\* Type invariant.
ServerTypeOK ==
    /\ main \in {"top", "accept", "spawn", "check", "shutdown", "wait", "free",
                 "exit", "exited"}
    /\ conn \in Thread
    /\ finished \in BOOLEAN
    /\ thread \in [Thread -> {"none", "started", "serving", "hungup",
                              "unregister"}]
    /\ shut \in [Conn -> BOOLEAN]
    /\ registered \subseteq Conn
    /\ holder \in Conn \cup {Nobody}
    /\ scan \in 1..N /\ clean \in BOOLEAN
    /\ freed \in BOOLEAN /\ misuse \in BOOLEAN

\* The loop of pbx_shutdown (pbx.c:48-62) reads the table without the mutex,
\* one entry at a time, while threads register and unregister.  Still, when
\* pbx is freed no thread whose connection was shut down is being served or
\* has yet to unregister: the only threads the loop may miss are those that
\* registered after the first half of pbx_shutdown.
FreedAfterService ==
    freed => \A t \in Conn :
                thread[t] \in {"serving", "hungup"} => ~shut[t]

\* Once pbx_shutdown waits, the process ends, unless a thread registered after
\* the connections were shut down (pbx.h:69-72).
ShutdownEnds ==
    main = "wait" ~> \/ main = "exited" \/ misuse
                     \/ \E t \in registered : ~shut[t]

\* A SIGHUP that comes during accept() or while a connection is handed to its
\* thread starts the shutdown (main.c:61-71).
HeardSighup ==
    finished /\ main \in {"spawn", "check"} ~> main = "shutdown" \/ misuse

\* "receipt of SIGHUP will perform a clean shutdown" (main.c:74-76): it does
\* not when it comes between the test of `finished' and accept().
SighupStartsShutdown ==
    finished ~> main \notin {"top", "accept", "spawn", "check"}

\* pbx_shutdown waits "for all server threads to terminate" before it frees
\* pbx (pbx.h:69-74): it waits for the table to be empty, and a thread may have
\* cleared its entry and not yet released pbx->mutex, or have been started with
\* the -1 of an interrupted accept() and have yet to call pbx_register.
NoUseOfFreedPbx == ~misuse
=============================================================================
