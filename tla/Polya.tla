------------------------------- MODULE Polya -------------------------------
(***************************************************************************)
(* Polya (hw4): the master process of master.c with its SIGCHLD handler,   *)
(* the worker processes of worker.c, the source of problems of problem.c,  *)
(* and what the kernel does with the signals and pipes between them.       *)
(*                                                                         *)
(* The master blocks SIGCHLD except in sigsuspend, so that its loop and    *)
(* its handler alternate.  What it does for one worker in the loop, and    *)
(* what the handler does for one child, is one step: what workers do       *)
(* meanwhile commutes with it.                                             *)
(*                                                                         *)
(* A struct problem is represented by its number, 1 for the first one that *)
(* is constructed; 0 is NULL.  The kernel keeps one status per child for   *)
(* waitpid, the most recent one.                                           *)
(***************************************************************************)
EXTENDS Naturals, Sequences

CONSTANTS
    W,          \* the number of workers
    P,          \* the number of problems to generate
    Kills       \* Bound: how many workers may be killed from outside

ASSUME PolyaAssumption == W \in Nat \ {0} /\ P \in Nat /\ Kills \in Nat

Worker == 1..W
NULL == 0
Problem == 1..P

VARIABLES
    master,     \* where the master is: "suspend", "handler", "loop", "exit"
    i,          \* the loop's index
    idle, worker_alive, aborted,
    states,     \* states[k]: what the master believes of worker k
    problems,   \* problems[k]: the problem it gave to worker k, or NULL
    current_problem, problems_remaining,
    solved,     \* history: the problems whose solution was accepted
    toWorker,   \* toWorker[k]: the pipe with problems for worker k
    toMaster,   \* toMaster[k]: the pipe with its results
    proc,       \* proc[k]: the kernel's state of worker k
    status,     \* status[k]: what waitpid has to report of it
    sigchld,    \* SIGCHLD is pending
    hup, term,  \* hup[k], term[k]: SIGHUP, SIGTERM is pending
    at,         \* at[k]: where worker k is: "raise", "read", "solve"
    canceledp,  \* canceledp[k]: its flag
    job,        \* job[k]: the problem it read last
    kills       \* how many workers were killed

masterVars == <<master, i, idle, worker_alive, aborted, states, problems>>
sourceVars == <<current_problem, problems_remaining, solved>>
kernelVars == <<proc, status, sigchld, hup, term>>
workerVars == <<at, canceledp, job>>
polyaVars == <<masterVars, sourceVars, toWorker, toMaster, kernelVars, workerVars,
          kills>>

WorkerStates == {"STARTED", "IDLE", "CONTINUED", "RUNNING", "STOPPED", "EXITED",
           "ABORTED"}

\* Once the loop has forked every worker.
PolyaInit ==
    /\ master = "suspend" /\ i = 1 /\ idle = 0
    /\ worker_alive = W /\ aborted = 0
    /\ states = [k \in Worker |-> "STARTED"]
    /\ problems = [k \in Worker |-> NULL]
    /\ current_problem = NULL /\ problems_remaining = P
    /\ solved = {}
    /\ toWorker = [k \in Worker |-> <<>>]
    /\ toMaster = [k \in Worker |-> <<>>]
    /\ proc = [k \in Worker |-> "running"]
    /\ status = [k \in Worker |-> "none"]
    /\ sigchld = FALSE
    /\ hup = [k \in Worker |-> FALSE]
    /\ term = [k \in Worker |-> FALSE]
    /\ at = [k \in Worker |-> "raise"]
    /\ canceledp = [k \in Worker |-> FALSE]
    /\ job = [k \in Worker |-> NULL]
    /\ kills = 0

-----------------------------------------------------------------------------
(***************************************************************************)
(* The worker.                                                             *)
(***************************************************************************)

\* raise(SIGSTOP); the flag was cleared before.
Raise(k) ==
    /\ proc[k] = "running" /\ at[k] = "raise"
    /\ proc' = [proc EXCEPT ![k] = "stopped"]
    /\ status' = [status EXCEPT ![k] = "stopped"]
    /\ sigchld' = TRUE
    /\ at' = [at EXCEPT ![k] = "read"]
    /\ UNCHANGED <<masterVars, sourceVars, toWorker, toMaster, hup, term,
                   canceledp, job, kills>>

\* The process is scheduled after SIGCONT: the parent is signalled, and a
\* SIGHUP that came while it was stopped is handled now.
Resume(k) ==
    /\ proc[k] = "continued" /\ ~term[k]
    /\ proc' = [proc EXCEPT ![k] = "running"]
    /\ sigchld' = TRUE
    /\ canceledp' = [canceledp EXCEPT ![k] = @ \/ hup[k]]
    /\ hup' = [hup EXCEPT ![k] = FALSE]
    /\ UNCHANGED <<masterVars, sourceVars, toWorker, toMaster, status, term,
                   at, job, kills>>

\* sigterm_handler.
Terminate(k) ==
    /\ proc[k] \in {"continued", "running"} /\ term[k]
    /\ proc' = [proc EXCEPT ![k] = "dead"]
    /\ status' = [status EXCEPT ![k] = "exited"]
    /\ sigchld' = TRUE
    /\ UNCHANGED <<masterVars, sourceVars, toWorker, toMaster, hup, term,
                   workerVars, kills>>

\* sighup_handler.
Interrupt(k) ==
    /\ proc[k] = "running" /\ hup[k]
    /\ canceledp' = [canceledp EXCEPT ![k] = TRUE]
    /\ hup' = [hup EXCEPT ![k] = FALSE]
    /\ UNCHANGED <<masterVars, sourceVars, toWorker, toMaster, proc, status,
                   sigchld, term, at, job, kills>>

Read(k) ==
    /\ proc[k] = "running" /\ at[k] = "read" /\ toWorker[k] # <<>>
    /\ job' = [job EXCEPT ![k] = Head(toWorker[k])]
    /\ toWorker' = [toWorker EXCEPT ![k] = Tail(@)]
    /\ at' = [at EXCEPT ![k] = "solve"]
    /\ UNCHANGED <<masterVars, sourceVars, toMaster, kernelVars, canceledp,
                   kills>>

\* The worker writes a result, goes round its loop and clears the flag.  A
\* SIGHUP that comes between the two is lost, like one that comes before them.
Answer(k, failed) ==
    /\ proc[k] = "running" /\ at[k] = "solve"
    /\ toMaster' = [toMaster EXCEPT
                       ![k] = Append(@, [of |-> job[k], failed |-> failed])]
    /\ canceledp' = [canceledp EXCEPT ![k] = FALSE]
    /\ at' = [at EXCEPT ![k] = "raise"]
    /\ UNCHANGED <<masterVars, sourceVars, toWorker, kernelVars, job, kills>>

\* The trivial solver never looks at the flag, and the miner may find a
\* solution just after it has.
Solve(k) == Answer(k, FALSE)

\* solve() returns NULL, and the worker writes a failed result.
Cancel(k) == canceledp[k] /\ Answer(k, TRUE)

\* Somebody kills the worker with a signal it does not handle.
Kill(k) ==
    /\ kills < Kills
    /\ proc[k] # "dead" /\ master # "exit"
    /\ proc' = [proc EXCEPT ![k] = "dead"]
    /\ status' = [status EXCEPT ![k] = "signaled"]
    /\ sigchld' = TRUE
    /\ kills' = kills + 1
    /\ UNCHANGED <<masterVars, sourceVars, toWorker, toMaster, hup, term,
                   workerVars>>

-----------------------------------------------------------------------------
(***************************************************************************)
(* The SIGCHLD handler.                                                    *)
(***************************************************************************)

Suspend ==
    /\ master = "suspend" /\ sigchld
    /\ sigchld' = FALSE
    /\ master' = "handler"
    /\ UNCHANGED <<i, idle, worker_alive, aborted, states, problems, sourceVars,
                   toWorker, toMaster, proc, status, hup, term, workerVars,
                   kills>>

\* Mutant: the first stop of a worker is taken for the end of an attempt.
AfterStatusAlwaysStopped(old, s) ==
    CASE s = "exited"    -> "EXITED"
      [] s = "continued" -> IF old = "ABORTED" THEN old ELSE "RUNNING"
      [] s = "stopped"   -> IF old = "ABORTED" THEN old ELSE "STOPPED"
      [] s = "signaled"  -> "ABORTED"

\* The state of a worker after waitpid has reported s.
AfterStatus(old, s) ==
    CASE s = "exited"    -> "EXITED"
      [] s = "continued" -> IF old = "ABORTED" THEN old ELSE "RUNNING"
      [] s = "stopped"   -> CASE old = "ABORTED" -> old
                              [] old = "STARTED" -> "IDLE"
                              [] OTHER           -> "STOPPED"
      [] s = "signaled"  -> "ABORTED"

\* waitpid reports one child, whichever it likes.
Reap(k) ==
    /\ master = "handler" /\ worker_alive > 0
    /\ status[k] # "none"
    /\ status' = [status EXCEPT ![k] = "none"]
    /\ states' = [states EXCEPT ![k] = AfterStatus(@, status[k])]
    /\ worker_alive' = IF status[k] \in {"exited", "signaled"}
                       THEN worker_alive - 1 ELSE worker_alive
    /\ aborted' = IF status[k] = "signaled" THEN aborted + 1 ELSE aborted
    /\ UNCHANGED <<master, i, idle, problems, sourceVars, toWorker, toMaster,
                   proc, sigchld, hup, term, workerVars, kills>>

\* waitpid has nothing to report: the master exits when no worker is left,
\* and otherwise goes through its loop.
Return ==
    /\ master = "handler"
    /\ \A k \in Worker : status[k] = "none"
    /\ master' = IF worker_alive = 0 THEN "exit" ELSE "loop"
    /\ i' = 1 /\ idle' = 0
    /\ UNCHANGED <<worker_alive, aborted, states, problems, sourceVars,
                   toWorker, toMaster, kernelVars, workerVars, kills>>

-----------------------------------------------------------------------------
(***************************************************************************)
(* The master's loop.                                                      *)
(***************************************************************************)

Advance ==
    /\ i' = IF i = W THEN 1 ELSE i + 1
    /\ master' = IF i = W THEN "suspend" ELSE "loop"

Skip ==
    /\ master = "loop" /\ states[i] \notin {"IDLE", "STOPPED"}
    /\ Advance
    /\ UNCHANGED <<idle, worker_alive, aborted, states, problems, sourceVars,
                   toWorker, toMaster, kernelVars, workerVars, kills>>

\* Mutant: the workers whose attempt is cancelled keep their problem.
PostKeepsProblems(k) ==
    /\ solved' = solved \cup {problems[k]}
    /\ current_problem' = IF current_problem = problems[k] THEN NULL
                                                           ELSE current_problem
    /\ hup' = [j \in Worker |-> hup[j] \/ (problems[j] = problems[k] /\ j # k
                                           /\ proc[j] # "dead")]
    /\ problems' = [problems EXCEPT ![k] = NULL]

\* Mutant: post_result leaves the problem current.
PostKeepsCurrent(k) ==
    /\ solved' = solved \cup {problems[k]}
    /\ UNCHANGED current_problem
    /\ hup' = [j \in Worker |-> hup[j] \/ (problems[j] = problems[k] /\ j # k
                                           /\ proc[j] # "dead")]
    /\ problems' = [j \in Worker |->
                       IF problems[j] = problems[k] THEN NULL ELSE problems[j]]

\* The result of worker k is a solution: the problem is freed, and the other
\* workers on it are sent SIGHUP.
Post(k) ==
    /\ solved' = solved \cup {problems[k]}
    /\ current_problem' = IF current_problem = problems[k] THEN NULL
                                                           ELSE current_problem
    /\ hup' = [j \in Worker |-> hup[j] \/ (problems[j] = problems[k] /\ j # k
                                           /\ proc[j] # "dead")]
    /\ problems' = [j \in Worker |->
                       IF problems[j] = problems[k] THEN NULL ELSE problems[j]]

\* Mutant: a result nobody waits for any more is not read.
CollectWantedOnly ==
    /\ master = "loop" /\ states[i] = "STOPPED"
    /\ toMaster[i] # <<>>
    /\ states' = [states EXCEPT ![i] = "IDLE"]
    /\ IF problems[i] # NULL
       THEN /\ toMaster' = [toMaster EXCEPT ![i] = Tail(@)]
            /\ IF Head(toMaster[i]).failed
               THEN UNCHANGED <<sourceVars, hup, problems>>
               ELSE Post(i) /\ UNCHANGED problems_remaining
       ELSE UNCHANGED <<toMaster, sourceVars, hup, problems>>
    /\ UNCHANGED <<master, i, idle, worker_alive, aborted, toWorker, proc,
                   status, sigchld, term, workerVars, kills>>

\* Mutant: the workers whose attempt is cancelled count as idle at once.
CollectIdlesAll ==
    /\ master = "loop" /\ states[i] = "STOPPED"
    /\ toMaster[i] # <<>>
    /\ toMaster' = [toMaster EXCEPT ![i] = Tail(@)]
    /\ LET cancelled == {k \in Worker : /\ problems[i] # NULL
                                       /\ problems[k] = problems[i]
                                       /\ ~Head(toMaster[i]).failed}
       IN  states' = [k \in Worker |-> IF k \in {i} \cup cancelled THEN "IDLE"
                                                                 ELSE states[k]]
    /\ IF problems[i] # NULL /\ ~Head(toMaster[i]).failed
       THEN Post(i) /\ UNCHANGED problems_remaining
       ELSE UNCHANGED <<sourceVars, hup, problems>>
    /\ UNCHANGED <<master, i, idle, worker_alive, aborted, toWorker, proc,
                   status, sigchld, term, workerVars, kills>>

\* Mutant: post_result does not look at the `failed' field.
CollectFailed ==
    /\ master = "loop" /\ states[i] = "STOPPED"
    /\ toMaster[i] # <<>>
    /\ toMaster' = [toMaster EXCEPT ![i] = Tail(@)]
    /\ states' = [states EXCEPT ![i] = "IDLE"]
    /\ IF problems[i] # NULL
       THEN /\ solved' = IF Head(toMaster[i]).failed
                         THEN solved ELSE solved \cup {problems[i]}
            /\ current_problem' = NULL
            /\ hup' = [k \in Worker |-> hup[k] \/ (problems[k] # NULL /\ k # i)]
            /\ problems' = [k \in Worker |-> NULL]
            /\ UNCHANGED problems_remaining
       ELSE UNCHANGED <<sourceVars, hup, problems>>
    /\ UNCHANGED <<master, i, idle, worker_alive, aborted, toWorker, proc,
                   status, sigchld, term, workerVars, kills>>

\* stopped_state: the result is read (a read of an empty pipe would block) and
\* posted if worker i still has a problem.  The trivial solver's checker
\* accepts every result that is not marked failed.
Collect ==
    /\ master = "loop" /\ states[i] = "STOPPED"
    /\ toMaster[i] # <<>>
    /\ toMaster' = [toMaster EXCEPT ![i] = Tail(@)]
    /\ states' = [states EXCEPT ![i] = "IDLE"]
    /\ IF problems[i] # NULL /\ ~Head(toMaster[i]).failed
       THEN Post(i) /\ UNCHANGED problems_remaining
       ELSE UNCHANGED <<sourceVars, hup, problems>>
    /\ UNCHANGED <<master, i, idle, worker_alive, aborted, toWorker, proc,
                   status, sigchld, term, workerVars, kills>>

\* SIGCONT for the workers in S.
Continue(S) ==
    LET resumed == {k \in S : proc[k] = "stopped"} IN
    /\ proc' = [k \in Worker |-> IF k \in resumed THEN "continued" ELSE proc[k]]
    /\ status' = [k \in Worker |-> IF k \in resumed THEN "continued"
                                                    ELSE status[k]]

\* Mutant: the last problem is given out once.
MoreNew == problems_remaining > 0

\* get_problem_variant has a problem to give out.
More == current_problem # NULL \/ problems_remaining > 0

\* idle_state, with a variant of the current problem or of a new one.
Assign ==
    LET p == IF current_problem # NULL THEN current_problem
                                       ELSE P - problems_remaining + 1
    IN
    /\ master = "loop" /\ states[i] = "IDLE"
    /\ More
    /\ current_problem' = p
    /\ problems_remaining' = IF current_problem # NULL
                             THEN problems_remaining ELSE problems_remaining - 1
    /\ problems' = [problems EXCEPT ![i] = p]
    /\ states' = [states EXCEPT ![i] = "CONTINUED"]
    /\ Continue({i})
    /\ toWorker' = [toWorker EXCEPT ![i] = Append(@, p)]
    /\ Advance
    /\ UNCHANGED <<idle, worker_alive, aborted, solved, toMaster, sigchld, hup,
                   term, workerVars, kills>>

\* idle_state without: worker i is idle, and if it was the last one every
\* worker is terminated.
Idle ==
    /\ master = "loop" /\ states[i] = "IDLE"
    /\ ~More
    /\ idle' = idle + 1
    /\ IF idle' = W
       THEN /\ term' = [k \in Worker |-> term[k] \/ proc[k] # "dead"]
            /\ Continue(Worker)
       ELSE UNCHANGED <<term, proc, status>>
    /\ Advance
    /\ UNCHANGED <<worker_alive, aborted, states, problems, sourceVars,
                   toWorker, toMaster, sigchld, hup, workerVars, kills>>

-----------------------------------------------------------------------------
MasterStep ==
    \/ Suspend \/ Return \/ Skip \/ Collect \/ Assign \/ Idle
    \/ \E k \in Worker : Reap(k)

WorkerStep(k) ==
    \/ Raise(k) \/ Resume(k) \/ Terminate(k) \/ Interrupt(k) \/ Read(k)
    \/ Solve(k) \/ Cancel(k)

\* The master's process has ended.
Ended == master = "exit" /\ UNCHANGED polyaVars

PolyaNext == \/ MasterStep \/ Ended
        \/ \E k \in Worker : WorkerStep(k) \/ Kill(k)

PolyaSpec == PolyaInit /\ [][PolyaNext]_polyaVars

\* Every process that can run is scheduled, and a worker's attempt ends: the
\* miner finds a solution or gives up when it is cancelled.
PolyaFairSpec ==
    PolyaSpec /\ WF_polyaVars(MasterStep) /\ \A k \in Worker : WF_polyaVars(WorkerStep(k))

-----------------------------------------------------------------------------
(***************************************************************************)
(* Properties.                                                             *)
(***************************************************************************)

\* Type invariant; no pipe ever holds more than one message.
PolyaTypeOK ==
    /\ master \in {"suspend", "handler", "loop", "exit"}
    /\ i \in Worker /\ idle \in 0..W
    /\ worker_alive \in 0..W /\ aborted \in 0..W
    /\ states \in [Worker -> WorkerStates]
    /\ problems \in [Worker -> Problem \cup {NULL}]
    /\ current_problem \in Problem \cup {NULL}
    /\ problems_remaining \in 0..P
    /\ solved \subseteq Problem
    /\ \A k \in Worker :
          /\ Len(toWorker[k]) <= 1 /\ Len(toMaster[k]) <= 1
          /\ \A n \in DOMAIN toWorker[k] : toWorker[k][n] \in Problem
          /\ \A n \in DOMAIN toMaster[k] :
                toMaster[k][n] \in [of : Problem, failed : BOOLEAN]
    /\ proc \in [Worker -> {"running", "stopped", "continued", "dead"}]
    /\ status \in [Worker -> {"none", "stopped", "continued", "exited",
                              "signaled"}]
    /\ sigchld \in BOOLEAN
    /\ hup \in [Worker -> BOOLEAN] /\ term \in [Worker -> BOOLEAN]
    /\ at \in [Worker -> {"raise", "read", "solve"}]
    /\ canceledp \in [Worker -> BOOLEAN]
    /\ job \in [Worker -> Problem \cup {NULL}]
    /\ kills \in 0..Kills

\* post_result frees the problem that was solved (problem.c:145-149) while the
\* master keeps pointers to it for every worker: none of them survives
\* (master.c:114-122).
NoStaleProblem == \A k \in Worker : problems[k] \in {NULL, current_problem}

\* The reads of stopped_state never block the master, and the result they get
\* is one for the problem it is posted against, although workers are stopped,
\* killed and continued behind the master's back (master.c:105-125).
ResultIsAwaited ==
    \A k \in Worker :
        states[k] = "STOPPED" =>
            /\ toMaster[k] # <<>>
            /\ problems[k] # NULL => Head(toMaster[k]).of = problems[k]

\* A worker the master believes to be stopped is: SIGCONT and the next problem
\* are never sent to a worker that still works (polya.h:222-225).
IdleIsStopped ==
    \A k \in Worker :
        states[k] \in {"IDLE", "STOPPED"} =>
            \/ term[k] \/ proc[k] = "dead"
            \/ proc[k] = "stopped" /\ toWorker[k] = <<>>

\* The master exits with success only when every worker has terminated and
\* every problem is solved (polya.h:294-307).
SuccessMeansSolved ==
    master = "exit" =>
        /\ \A k \in Worker : proc[k] = "dead"
        /\ aborted = 0 => solved = Problem

\* The workers with a problem, those whose solution of it is in their pipe, and
\* those that were killed.
Team == {k \in Worker : problems[k] # NULL}
Finders ==
    {k \in Team : toMaster[k] = <<[of |-> problems[k], failed |-> FALSE]>>}
Killed == {k \in Worker : status[k] = "signaled" \/ states[k] = "ABORTED"}

\* The problems are solved in rounds: one at a time and in their order, each by
\* a worker that was given it and has found its solution since, and no worker
\* keeps a solved one; the master exits when all are solved or all workers were
\* killed.  Nothing that happens to signals, results or workers changes this
\* (polya.h:175-205, 284-307).
Rounds == INSTANCE Rounds WITH
    current <- current_problem, team <- Team, found <- Finders,
    lost <- Killed, ended <- master = "exit"

ImplementsRounds == Rounds!Spec

\* The master exits, whoever is killed.
MasterExits == <>(master = "exit")

\* The master exits, unless somebody kills a worker: every SIGCHLD, SIGCONT and
\* SIGSTOP that is merged with another or comes early is made up for, and so
\* is an attempt that was cancelled by mistake.
ExitsUnlessKilled == <>(master = "exit" \/ kills > 0)

\* As long as one worker lives every problem is solved in the end: a problem is
\* not lost with the worker that was killed at work on it (problem.c:70-95).
ProblemsAreSolved == <>(solved = Problem \/ kills = W)

\* "Pointer to a flag that will be set if the current solution attempt is to
\* be canceled" (polya.h:136-137): it is set only when the problem of the
\* attempt is solved.
CancelIsCurrent ==
    \A k \in Worker : at[k] = "solve" /\ canceledp[k] => job[k] \in solved
=============================================================================
