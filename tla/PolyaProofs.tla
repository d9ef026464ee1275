----------------------------- MODULE PolyaProofs -----------------------------
(***************************************************************************)
(* Proofs about Polya: any number of workers, problems and killed workers. *)
(***************************************************************************)
EXTENDS Polya, FiniteSetTheorems, TLAPS

(***************************************************************************)
(* The inductive invariant.  What the master believes of a worker is right *)
(* only together with what waitpid has still to report of it, what is in   *)
(* its pipes and where it is: the phases a worker goes through.            *)
(***************************************************************************)

\* A pipe is empty or holds one message.
Pipe(S) == {<<>>} \cup {<<m>> : m \in S}

Result == [of : Problem, failed : BOOLEAN]

Types ==
    /\ master \in {"suspend", "handler", "loop", "exit"}
    /\ i \in Worker
    /\ states \in [Worker -> WorkerStates]
    /\ problems \in [Worker -> Problem \cup {NULL}]
    /\ toWorker \in [Worker -> Pipe(Problem)]
    /\ toMaster \in [Worker -> Pipe(Result)]
    /\ proc \in [Worker -> {"running", "stopped", "continued", "dead"}]
    /\ status \in [Worker -> {"none", "stopped", "continued", "exited",
                              "signaled"}]
    /\ sigchld \in BOOLEAN
    /\ hup \in [Worker -> BOOLEAN] /\ term \in [Worker -> BOOLEAN]
    /\ at \in [Worker -> {"raise", "read", "solve"}]
    /\ canceledp \in [Worker -> BOOLEAN]
    /\ job \in [Worker -> Problem \cup {NULL}]
    /\ kills \in 0..Kills

\* p is the problem the master waits for a solution of from worker k.
Wanted(k, p) == problems[k] # NULL => p = problems[k]

\* A result is in worker k's pipe.
HasResult(k) == \E r \in Result : toMaster[k] = <<r>> /\ Wanted(k, r.of)

Started(k) ==
    /\ states[k] = "STARTED"
    /\ toWorker[k] = <<>> /\ toMaster[k] = <<>>
    /\ \/ proc[k] = "running" /\ at[k] = "raise" /\ status[k] = "none"
       \/ proc[k] = "stopped" /\ at[k] = "read" /\ status[k] = "stopped"

Waiting(k) ==
    /\ states[k] = "IDLE"
    /\ toWorker[k] = <<>> /\ toMaster[k] = <<>>
    /\ proc[k] = "stopped" /\ at[k] = "read" /\ status[k] = "none"

\* The worker works; the master may not know yet.
Working(k) ==
    /\ states[k] \in {"CONTINUED", "RUNNING"}
    /\ status[k] \in {"none", "continued"}

Assigned(k) ==
    /\ Working(k)
    /\ \E p \in Problem : toWorker[k] = <<p>> /\ Wanted(k, p)
    /\ toMaster[k] = <<>>
    /\ proc[k] \in {"continued", "running"} /\ at[k] = "read"

Solving(k) ==
    /\ Working(k)
    /\ job[k] \in Problem /\ Wanted(k, job[k])
    /\ toWorker[k] = <<>> /\ toMaster[k] = <<>>
    /\ proc[k] = "running" /\ at[k] = "solve"

Answered(k) ==
    /\ Working(k) /\ HasResult(k)
    /\ toWorker[k] = <<>>
    /\ proc[k] = "running" /\ at[k] = "raise"

\* It has stopped after its answer; the master may not know yet.
Finished(k) ==
    /\ \/ states[k] \in {"CONTINUED", "RUNNING"} /\ status[k] = "stopped"
       \/ states[k] = "STOPPED" /\ status[k] = "none"
    /\ HasResult(k)
    /\ toWorker[k] = <<>>
    /\ proc[k] = "stopped" /\ at[k] = "read"

\* It will handle SIGTERM when it is scheduled.
Doomed(k) ==
    /\ proc[k] = "continued" /\ term[k]
    /\ states[k] \notin {"EXITED", "ABORTED"}
    /\ status[k] \in {"none", "continued"}
    /\ states[k] = "STOPPED" => HasResult(k)
    /\ toWorker[k] = <<>>

Dead(k) ==
    /\ proc[k] = "dead"
    /\ status[k] \in {"none", "exited", "signaled"}
    /\ status[k] = "none" <=> states[k] \in {"EXITED", "ABORTED"}
    /\ status[k] = "exited" \/ states[k] = "EXITED" => term[k]
    /\ states[k] = "IDLE" => toWorker[k] = <<>>
    /\ states[k] = "STOPPED" => HasResult(k) /\ toWorker[k] = <<>>

Phase(k) == \/ Started(k) \/ Waiting(k) \/ Assigned(k) \/ Solving(k)
            \/ Answered(k) \/ Finished(k) \/ Doomed(k) \/ Dead(k)

PhaseInv == \A k \in Worker : Phase(k)

\* The problems that were constructed are solved, except the current one, and
\* no worker is terminated while there is a problem to solve.
SourceInv ==
    /\ problems_remaining \in 0..P
    /\ current_problem \in {NULL} \cup 1..(P - problems_remaining)
    /\ solved = (1..(P - problems_remaining)) \ {current_problem}
    /\ \A k \in Worker : term[k] => ~More

In(S) == {k \in Worker : states[k] \in S}

\* The master's counters.
CountInv ==
    /\ worker_alive = W - Cardinality(In({"EXITED", "ABORTED"}))
    /\ aborted = Cardinality(In({"ABORTED"}))
    /\ idle \in 0..W
    /\ master = "loop" => idle < i
    /\ master = "exit" => worker_alive = 0

IInv == Types /\ PhaseInv /\ SourceInv /\ NoStaleProblem /\ CountInv

-----------------------------------------------------------------------------
\* What a pipe holds.
LEMMA OneMessage ==
  ASSUME NEW S, NEW p \in Pipe(S)
  PROVE  Len(p) <= 1 /\ \A n \in DOMAIN p : p[n] \in S
<1>1. CASE p = <<>>
  BY <1>1
<1>2. ASSUME NEW m \in S, p = <<m>>
      PROVE  Len(p) <= 1 /\ \A n \in DOMAIN p : p[n] \in S
  <2>1. Len(p) = 1 /\ DOMAIN p = {1} /\ p[1] = m
    BY <1>2
  <2>2. QED
    BY <2>1
<1>3. QED
  BY <1>1, <1>2 DEF Pipe

\* Nothing has been done when the workers have just been forked.
LEMMA InitIInv == PolyaInit => IInv
<1> SUFFICES ASSUME PolyaInit PROVE IInv
  OBVIOUS
<1> USE PolyaAssumption DEF PolyaInit
<1>1. Types
  <2>1. <<>> \in Pipe(Problem) /\ <<>> \in Pipe(Result)
    BY DEF Pipe
  <2>2. 1 \in Worker /\ 0 \in 0..Kills
    BY DEF Worker
  <2>3. toWorker \in [Worker -> Pipe(Problem)]
    BY <2>1
  <2>4. toMaster \in [Worker -> Pipe(Result)]
    BY <2>1
  <2>5. QED
    BY <2>2, <2>3, <2>4 DEF Types, WorkerStates
<1>2. PhaseInv
  BY DEF PhaseInv, Phase, Started
<1>3. SourceInv
  BY DEF SourceInv, Problem, NULL
<1>4. NoStaleProblem
  BY DEF NoStaleProblem
<1>5. CountInv
  <2>1. In({"EXITED", "ABORTED"}) = {} /\ In({"ABORTED"}) = {}
    BY DEF In
  <2>2. Cardinality({}) = 0
    BY FS_EmptySet
  <2>3. idle \in 0..W /\ W = W - 0
    OBVIOUS
  <2>4. QED
    BY <2>1, <2>2, <2>3 DEF CountInv
<1>6. QED
  BY <1>1, <1>2, <1>3, <1>4, <1>5 DEF IInv

\* A worker stays in its phase when nothing happens to it except that its
\* problem was solved by another one, or that it is terminated.
LEMMA PhaseKept ==
  ASSUME NEW k \in Worker, Phase(k),
         states'[k] = states[k], problems'[k] \in {problems[k], NULL},
         toWorker'[k] = toWorker[k], toMaster'[k] = toMaster[k],
         proc'[k] = proc[k], status'[k] = status[k], at'[k] = at[k],
         job'[k] = job[k], term[k] => term'[k]
  PROVE  Phase(k)'
<1>1. \A p : Wanted(k, p) => Wanted(k, p)'
  BY DEF Wanted
<1>2. HasResult(k) => HasResult(k)'
  BY <1>1 DEF HasResult
<1>3. CASE Started(k)
  BY <1>3 DEF Started, Phase
<1>4. CASE Waiting(k)
  BY <1>4 DEF Waiting, Phase
<1>5. CASE Assigned(k)
  <2>1. Assigned(k)'
    BY <1>1, <1>5 DEF Assigned, Working
  <2>2. QED
    BY <2>1 DEF Phase
<1>6. CASE Solving(k)
  BY <1>1, <1>6 DEF Solving, Working, Phase
<1>7. CASE Answered(k)
  BY <1>2, <1>7 DEF Answered, Working, Phase
<1>8. CASE Finished(k)
  BY <1>2, <1>8 DEF Finished, Phase
<1>9. CASE Doomed(k)
  BY <1>2, <1>9 DEF Doomed, Phase
<1>10. CASE Dead(k)
  BY <1>2, <1>10 DEF Dead, Phase
<1>11. QED
  BY <1>3, <1>4, <1>5, <1>6, <1>7, <1>8, <1>9, <1>10 DEF Phase

\* SIGCONT wakes the stopped workers of S.
LEMMA Continued ==
  ASSUME Types, NEW S \in SUBSET Worker, Continue(S)
  PROVE  /\ proc' \in [Worker -> {"running", "stopped", "continued", "dead"}]
         /\ status' \in [Worker -> {"none", "stopped", "continued", "exited",
                                    "signaled"}]
         /\ \A k \in Worker :
               IF k \in S /\ proc[k] = "stopped"
               THEN proc'[k] = "continued" /\ status'[k] = "continued"
               ELSE proc'[k] = proc[k] /\ status'[k] = status[k]
  BY DEF Types, Continue

\* The problems that are solved together with that of worker k.
LEMMA Posted ==
  ASSUME Types, NEW k \in Worker, Post(k)
  PROVE  /\ problems' \in [Worker -> Problem \cup {NULL}]
         /\ hup' \in [Worker -> BOOLEAN]
         /\ \A j \in Worker : problems'[j] \in {problems[j], NULL}
  BY DEF Types, Post

-----------------------------------------------------------------------------
\* Types, with pipes that never hold more than one message.
LEMMA TypesNext == ASSUME IInv, PolyaNext PROVE Types'
<1> USE PolyaAssumption DEF IInv, Types, WorkerStates
<1>1. ASSUME NEW k \in Worker, WorkerStep(k) PROVE Types'
  <2>1. CASE Raise(k)
    BY <2>1 DEF Raise, masterVars, sourceVars
  <2>2. CASE Resume(k)
    BY <2>2 DEF Resume, masterVars, sourceVars
  <2>3. CASE Terminate(k)
    BY <2>3 DEF Terminate, masterVars, sourceVars, workerVars
  <2>4. CASE Interrupt(k)
    BY <2>4 DEF Interrupt, masterVars, sourceVars
  <2>5. CASE Read(k)
    <3>1. PICK p \in Problem : toWorker[k] = <<p>>
      BY <2>5 DEF Read, Pipe
    <3>2. Head(toWorker[k]) \in Problem /\ Tail(toWorker[k]) = <<>>
      BY <3>1
    <3>3. QED
      BY <2>5, <3>2 DEF Read, Pipe, masterVars, sourceVars, kernelVars
  <2>6. ASSUME NEW failed \in BOOLEAN, Answer(k, failed) PROVE Types'
    <3>1. proc[k] = "running" /\ at[k] = "solve"
      BY <2>6 DEF Answer
    <3>2. job[k] \in Problem /\ toMaster[k] = <<>>
      BY <3>1 DEF PhaseInv, Phase, Started, Waiting, Assigned, Solving,
                  Answered, Finished, Doomed, Dead
    <3> DEFINE r == [of |-> job[k], failed |-> failed]
    <3>3. r \in Result /\ Append(toMaster[k], r) = <<r>>
      BY <3>2 DEF Result
    <3>4. toMaster' \in [Worker -> Pipe(Result)]
      BY <2>6, <3>3 DEF Answer, Pipe
    <3>5. QED
      BY <2>6, <3>4 DEF Answer, masterVars, sourceVars, kernelVars
  <2>7. QED
    BY <1>1, <2>1, <2>2, <2>3, <2>4, <2>5, <2>6
    DEF WorkerStep, Solve, Cancel
<1>2. ASSUME NEW k \in Worker, Kill(k) PROVE Types'
  BY <1>2 DEF Kill, masterVars, sourceVars, workerVars
<1>3. CASE Suspend
  BY <1>3 DEF Suspend, sourceVars, workerVars
<1>4. CASE Return
  BY <1>4 DEF Return, sourceVars, kernelVars, workerVars, Worker
<1>5. CASE Skip
  BY <1>5 DEF Skip, Advance, sourceVars, kernelVars, workerVars, Worker
<1>6. CASE Collect
  <2>1. PICK r \in Result : toMaster[i] = <<r>>
    BY <1>6 DEF Collect, Pipe
  <2>2. Tail(toMaster[i]) = <<>>
    BY <2>1
  <2>3. toMaster' \in [Worker -> Pipe(Result)]
    BY <1>6, <2>2 DEF Collect, Pipe
  <2>4. /\ problems' \in [Worker -> Problem \cup {NULL}]
        /\ hup' \in [Worker -> BOOLEAN]
    BY <1>6, Posted DEF Collect, sourceVars
  <2>5. QED
    BY <1>6, <2>3, <2>4 DEF Collect, workerVars
<1>7. CASE Assign
  <2> DEFINE p == IF current_problem # NULL THEN current_problem
                                            ELSE P - problems_remaining + 1
  <2>1. p \in Problem
    BY <1>7 DEF Assign, More, SourceInv, Problem, NULL
  <2>2. toWorker[i] = <<>>
    BY <1>7 DEF Assign, SourceInv, PhaseInv, Phase, Started, Waiting, Assigned,
                Solving, Answered, Finished, Doomed, Dead, Working
  <2>3. Append(toWorker[i], p) = <<p>>
    BY <2>1, <2>2
  <2>4. toWorker' \in [Worker -> Pipe(Problem)]
    BY <1>7, <2>1, <2>3 DEF Assign, Pipe
  <2>5. problems' \in [Worker -> Problem \cup {NULL}]
    BY <1>7, <2>1 DEF Assign
  <2>6. Continue({i}) /\ {i} \in SUBSET Worker
    BY <1>7 DEF Assign
  <2>7. QED
    BY <1>7, <2>4, <2>5, <2>6, Continued DEF Assign, Advance, workerVars, Worker
<1>8. CASE Idle
  <2>1. /\ proc' \in [Worker -> {"running", "stopped", "continued", "dead"}]
        /\ status' \in [Worker -> {"none", "stopped", "continued", "exited",
                                   "signaled"}]
        /\ term' \in [Worker -> BOOLEAN]
    BY <1>8, Continued DEF Idle
  <2>2. QED
    BY <1>8, <2>1 DEF Idle, Advance, sourceVars, workerVars, Worker
<1>9. ASSUME NEW k \in Worker, Reap(k) PROVE Types'
  <2>1. AfterStatus(states[k], status[k]) \in WorkerStates
    BY <1>9 DEF Reap, AfterStatus
  <2>2. QED
    BY <1>9, <2>1 DEF Reap, sourceVars, workerVars
<1>10. CASE UNCHANGED polyaVars
  BY <1>10 DEF polyaVars, masterVars, sourceVars, kernelVars, workerVars
<1>11. QED
  BY <1>1, <1>2, <1>3, <1>4, <1>5, <1>6, <1>7, <1>8, <1>9, <1>10
  DEF PolyaNext, MasterStep, Ended

-----------------------------------------------------------------------------
\* What a step of worker k leaves alone of the other workers.
LEMMA OthersKept ==
  ASSUME IInv, NEW k \in Worker, WorkerStep(k) \/ Kill(k) \/ Reap(k),
         NEW j \in Worker, j # k
  PROVE  Phase(j)'
<1>1. Phase(j)
  BY DEF IInv, PhaseInv
<1> USE <1>1, PhaseKept DEF IInv, Types
<1>2. CASE Raise(k)
  BY <1>2 DEF Raise, masterVars
<1>3. CASE Resume(k)
  BY <1>3 DEF Resume, masterVars
<1>4. CASE Terminate(k)
  BY <1>4 DEF Terminate, masterVars, workerVars
<1>5. CASE Interrupt(k)
  BY <1>5 DEF Interrupt, masterVars
<1>6. CASE Read(k)
  BY <1>6 DEF Read, masterVars, kernelVars
<1>7. ASSUME NEW failed \in BOOLEAN, Answer(k, failed) PROVE Phase(j)'
  BY <1>7 DEF Answer, masterVars, kernelVars
<1>8. CASE Kill(k)
  BY <1>8 DEF Kill, masterVars, workerVars
<1>9. CASE Reap(k)
  BY <1>9 DEF Reap, workerVars
<1>10. QED
  BY <1>2, <1>3, <1>4, <1>5, <1>6, <1>7, <1>8, <1>9
  DEF WorkerStep, Solve, Cancel

\* A worker's own steps take it from phase to phase.
LEMMA WorkerPhase ==
  ASSUME IInv, NEW k \in Worker, WorkerStep(k)
  PROVE  Phase(k)'
<1>1. Phase(k)
  BY DEF IInv, PhaseInv
<1> USE <1>1 DEF IInv, Types, Wanted
<1>2. CASE Raise(k)
  <2>1. Started(k) \/ Answered(k)
    BY <1>2 DEF Raise, Phase, Started, Waiting, Assigned, Solving, Answered,
                Finished, Doomed, Dead
  <2>2. CASE Started(k)
    BY <1>2, <2>2 DEF Raise, masterVars, Phase, Started
  <2>3. CASE Answered(k)
    <3>1. HasResult(k)'
      BY <1>2, <2>3 DEF Raise, masterVars, Answered, HasResult
    <3>2. Finished(k)'
      BY <1>2, <2>3, <3>1 DEF Raise, masterVars, Answered, Finished, Working
    <3>3. QED
      BY <3>2 DEF Phase
  <2>4. QED
    BY <2>1, <2>2, <2>3
<1>3. CASE Resume(k)
  <2>1. Assigned(k)
    BY <1>3 DEF Resume, Phase, Started, Waiting, Assigned, Solving, Answered,
                Finished, Doomed, Dead
  <2>2. Assigned(k)'
    BY <1>3, <2>1 DEF Resume, masterVars, Assigned, Working
  <2>3. QED
    BY <2>2 DEF Phase
<1>4. CASE Terminate(k)
  <2>1. /\ states[k] \notin {"EXITED", "ABORTED"}
        /\ states[k] = "STOPPED" => proc[k] = "continued" /\ HasResult(k)
    BY <1>4 DEF Terminate, Phase, Started, Waiting, Assigned, Solving,
                Answered, Finished, Doomed, Dead, Working
  <2>2. states[k] \in {"IDLE", "STOPPED"} => toWorker[k] = <<>>
    BY <1>4 DEF Terminate, Phase, Started, Waiting, Assigned, Solving,
                Answered, Finished, Doomed, Dead, Working
  <2>3. states[k] = "STOPPED" => HasResult(k)'
    BY <1>4, <2>1 DEF Terminate, masterVars, HasResult
  <2>4. Dead(k)'
    BY <1>4, <2>1, <2>2, <2>3 DEF Terminate, masterVars, Dead
  <2>5. QED
    BY <2>4 DEF Phase
<1>5. CASE Interrupt(k)
  BY <1>5, PhaseKept DEF Interrupt, masterVars
<1>6. CASE Read(k)
  <2>1. Assigned(k)
    BY <1>6 DEF Read, Phase, Started, Waiting, Assigned, Solving, Answered,
                Finished, Doomed, Dead
  <2>2. PICK p \in Problem : toWorker[k] = <<p>> /\ Wanted(k, p)
    BY <2>1 DEF Assigned
  <2>3. job'[k] = p /\ toWorker'[k] = <<>>
    BY <1>6, <2>2 DEF Read
  <2>4. Solving(k)'
    BY <1>6, <2>1, <2>2, <2>3
    DEF Read, masterVars, kernelVars, Assigned, Solving, Working
  <2>5. QED
    BY <2>4 DEF Phase
<1>7. ASSUME NEW failed \in BOOLEAN, Answer(k, failed) PROVE Phase(k)'
  <2>1. Solving(k)
    BY <1>7 DEF Answer, Phase, Started, Waiting, Assigned, Solving, Answered,
                Finished, Doomed, Dead
  <2> DEFINE r == [of |-> job[k], failed |-> failed]
  <2>2. r \in Result /\ toMaster'[k] = <<r>> /\ r.of = job[k]
    BY <1>7, <2>1 DEF Answer, Solving, Result
  <2>3. HasResult(k)'
    BY <1>7, <2>1, <2>2 DEF Answer, masterVars, Solving, HasResult
  <2>4. Answered(k)'
    BY <1>7, <2>1, <2>3
    DEF Answer, masterVars, kernelVars, Solving, Answered, Working
  <2>5. QED
    BY <2>4 DEF Phase
<1>8. QED
  BY <1>2, <1>3, <1>4, <1>5, <1>6, <1>7 DEF WorkerStep, Solve, Cancel

\* A killed worker is reported as such, once.
LEMMA KillPhase ==
  ASSUME IInv, NEW k \in Worker, Kill(k)
  PROVE  Phase(k)'
<1>1. Phase(k) /\ proc[k] # "dead"
  BY DEF IInv, PhaseInv, Kill
<1> USE DEF IInv, Types
<1>2. /\ states[k] \notin {"EXITED", "ABORTED"}
      /\ states[k] \in {"IDLE", "STOPPED"} => toWorker[k] = <<>>
      /\ states[k] = "STOPPED" => HasResult(k)
  BY <1>1 DEF Phase, Started, Waiting, Assigned, Solving, Answered, Finished,
              Doomed, Dead, Working
<1>3. states[k] = "STOPPED" => HasResult(k)'
  BY <1>2 DEF Kill, masterVars, HasResult, Wanted
<1>4. Dead(k)'
  BY <1>1, <1>2, <1>3 DEF Kill, masterVars, Dead
<1>5. QED
  BY <1>4 DEF Phase

\* What the handler makes of a report is right for the worker's phase.
LEMMA ReapPhase ==
  ASSUME IInv, NEW k \in Worker, Reap(k)
  PROVE  Phase(k)'
<1>1. Phase(k) /\ status[k] # "none"
  BY DEF IInv, PhaseInv, Reap
<1> USE DEF IInv, Types
<1>2. /\ status'[k] = "none"
      /\ states'[k] = AfterStatus(states[k], status[k])
  BY DEF Reap
<1>3. HasResult(k) => HasResult(k)'
  BY DEF Reap, HasResult, Wanted
<1>4. CASE Started(k)
  <2>1. Waiting(k)'
    BY <1>1, <1>2, <1>4 DEF Reap, workerVars, Started, Waiting, AfterStatus
  <2>2. QED
    BY <2>1 DEF Phase
<1>5. CASE Working(k) /\ ~Doomed(k) /\ ~Dead(k)
  <2>1. status[k] = "continued" /\ Working(k)'
    BY <1>1, <1>2, <1>5 DEF Working, AfterStatus
  <2>2. CASE Assigned(k)
    <3>1. Assigned(k)'
      BY <2>1, <2>2 DEF Reap, workerVars, Assigned, Wanted
    <3>2. QED
      BY <3>1 DEF Phase
  <2>3. CASE Solving(k)
    <3>1. Solving(k)'
      BY <2>1, <2>3 DEF Reap, workerVars, Solving, Wanted
    <3>2. QED
      BY <3>1 DEF Phase
  <2>4. CASE Answered(k)
    <3>1. Answered(k)'
      BY <1>3, <2>1, <2>4 DEF Reap, workerVars, Answered
    <3>2. QED
      BY <3>1 DEF Phase
  <2>5. QED
    BY <1>1, <1>5, <2>1, <2>2, <2>3, <2>4
    DEF Phase, Started, Waiting, Finished, Working
<1>6. CASE Finished(k)
  <2>1. states'[k] = "STOPPED"
    BY <1>1, <1>2, <1>6 DEF Finished, AfterStatus
  <2>2. Finished(k)'
    BY <1>2, <1>3, <1>6, <2>1 DEF Reap, workerVars, Finished
  <2>3. QED
    BY <2>2 DEF Phase
<1>7. CASE Doomed(k)
  <2>1. states'[k] = "RUNNING"
    BY <1>1, <1>2, <1>7 DEF Doomed, AfterStatus
  <2>2. Doomed(k)'
    BY <1>2, <1>7, <2>1 DEF Reap, Doomed
  <2>3. QED
    BY <2>2 DEF Phase
<1>8. CASE Dead(k)
  <2>1. states'[k] = IF status[k] = "exited" THEN "EXITED" ELSE "ABORTED"
    BY <1>1, <1>2, <1>8 DEF Dead, AfterStatus
  <2>2. Dead(k)'
    BY <1>1, <1>2, <1>8, <2>1 DEF Reap, Dead
  <2>3. QED
    BY <2>2 DEF Phase
<1>9. QED
  BY <1>1, <1>4, <1>5, <1>6, <1>7, <1>8
  DEF Phase, Waiting, Assigned, Solving, Answered

\* Each worker, however the master, the kernel and the worker take turns.
LEMMA PhaseNext == ASSUME IInv, PolyaNext PROVE PhaseInv'
<1> SUFFICES ASSUME NEW k \in Worker PROVE Phase(k)'
  BY DEF PhaseInv
<1>1. Phase(k)
  BY DEF IInv, PhaseInv
<1> USE DEF IInv, Types
<1>2. ASSUME NEW j \in Worker, WorkerStep(j) \/ Kill(j) \/ Reap(j)
      PROVE  Phase(k)'
  BY <1>2, OthersKept, WorkerPhase, KillPhase, ReapPhase
<1>3. CASE Suspend
  BY <1>1, <1>3, PhaseKept DEF Suspend, workerVars
<1>4. CASE Return
  BY <1>1, <1>4, PhaseKept DEF Return, kernelVars, workerVars
<1>5. CASE Skip
  BY <1>1, <1>5, PhaseKept DEF Skip, kernelVars, workerVars
<1>6. CASE Collect
  <2>1. /\ states[i] = "STOPPED" /\ states' = [states EXCEPT ![i] = "IDLE"]
        /\ toMaster' = [toMaster EXCEPT ![i] = Tail(@)]
        /\ UNCHANGED <<toWorker, proc, status, term, at, job>>
        /\ problems'[k] \in {problems[k], NULL}
    BY <1>6, Posted DEF Collect, workerVars
  <2>2. CASE k # i
    BY <1>1, <2>1, <2>2, PhaseKept
  <2>3. CASE k = i
    <3>1. PICK r \in Result : toMaster[k] = <<r>>
      BY <1>6, <2>3 DEF Collect, Pipe
    <3>2. toMaster'[k] = <<>> /\ states'[k] = "IDLE"
      BY <2>1, <2>3, <3>1
    <3>3. Finished(k) \/ Doomed(k) \/ Dead(k)
      BY <1>1, <2>1, <2>3
      DEF Phase, Started, Waiting, Assigned, Solving, Answered, Working
    <3>4. CASE Finished(k)
      BY <2>1, <2>3, <3>2, <3>4 DEF Phase, Finished, Waiting
    <3>5. CASE Doomed(k)
      BY <2>1, <2>3, <3>2, <3>5 DEF Phase, Doomed
    <3>6. CASE Dead(k)
      BY <2>1, <2>3, <3>2, <3>6 DEF Phase, Dead
    <3>7. QED
      BY <3>3, <3>4, <3>5, <3>6
  <2>4. QED
    BY <2>2, <2>3
<1>7. CASE Assign
  <2> DEFINE p == IF current_problem # NULL THEN current_problem
                                            ELSE P - problems_remaining + 1
  <2>1. /\ states[i] = "IDLE" /\ states' = [states EXCEPT ![i] = "CONTINUED"]
        /\ problems' = [problems EXCEPT ![i] = p]
        /\ toWorker' = [toWorker EXCEPT ![i] = Append(@, p)]
        /\ UNCHANGED <<toMaster, term, at, job>>
    BY <1>7 DEF Assign, workerVars
  <2>2. \A j \in Worker :
           IF j = i /\ proc[j] = "stopped"
           THEN proc'[j] = "continued" /\ status'[j] = "continued"
           ELSE proc'[j] = proc[j] /\ status'[j] = status[j]
    BY <1>7, Continued DEF Assign
  <2>3. CASE k # i
    BY <1>1, <2>1, <2>2, <2>3, PhaseKept
  <2>4. CASE k = i
    <3>1. p \in Problem
      BY <1>7, PolyaAssumption DEF Assign, More, SourceInv, Problem, NULL
    <3>2. ~term[k]
      BY <1>7, <2>4 DEF Assign, SourceInv
    <3>3. Waiting(k) \/ Dead(k)
      BY <1>1, <2>1, <2>4, <3>2
      DEF Phase, Started, Assigned, Solving, Answered, Finished, Doomed, Working
    <3>4. CASE Waiting(k)
      <4>1. toWorker'[k] = <<p>> /\ problems'[k] = p
        BY <2>1, <2>4, <3>1, <3>4 DEF Waiting
      <4>2. Assigned(k)'
        BY <2>1, <2>2, <2>4, <3>1, <3>4, <4>1
        DEF Waiting, Assigned, Working, Wanted
      <4>3. QED
        BY <4>2 DEF Phase
    <3>5. CASE Dead(k)
      BY <2>1, <2>2, <2>4, <3>5 DEF Phase, Dead
    <3>6. QED
      BY <3>3, <3>4, <3>5
  <2>5. QED
    BY <2>3, <2>4
<1>8. CASE Idle
  <2>1. CASE idle' = W
    <3>1. /\ Continue(Worker)
          /\ term' = [j \in Worker |-> term[j] \/ proc[j] # "dead"]
          /\ UNCHANGED <<states, problems, toWorker, toMaster, at, job>>
      BY <1>8, <2>1 DEF Idle, workerVars
    <3>2. IF proc[k] = "stopped"
          THEN proc'[k] = "continued" /\ status'[k] = "continued"
          ELSE proc'[k] = proc[k] /\ status'[k] = status[k]
      BY <3>1, Continued
    <3>3. CASE proc[k] # "stopped"
      BY <1>1, <3>1, <3>2, <3>3, PhaseKept
    <3>4. CASE proc[k] = "stopped"
      <4>1. /\ states[k] \notin {"EXITED", "ABORTED"}
            /\ states[k] = "STOPPED" => HasResult(k)
            /\ toWorker[k] = <<>>
        BY <1>1, <3>4 DEF Phase, Started, Waiting, Assigned, Solving, Answered,
                          Finished, Doomed, Dead
      <4>2. states[k] = "STOPPED" => HasResult(k)'
        BY <3>1, <4>1 DEF HasResult, Wanted
      <4>3. Doomed(k)'
        BY <3>1, <3>2, <3>4, <4>1, <4>2 DEF Doomed
      <4>4. QED
        BY <4>3 DEF Phase
    <3>5. QED
      BY <3>3, <3>4
  <2>2. CASE idle' # W
    BY <1>1, <1>8, <2>2, PhaseKept DEF Idle, workerVars
  <2>3. QED
    BY <2>1, <2>2
<1>9. CASE UNCHANGED polyaVars
  BY <1>1, <1>9, PhaseKept DEF polyaVars, masterVars, kernelVars, workerVars
<1>10. QED
  BY <1>2, <1>3, <1>4, <1>5, <1>6, <1>7, <1>8, <1>9
  DEF PolyaNext, MasterStep, Ended

\* Problems are constructed one after the other, and workers are terminated
\* only when all are solved.
LEMMA SourceNext == ASSUME IInv, PolyaNext PROVE SourceInv'
<1> USE PolyaAssumption DEF IInv, Types, SourceInv, More, NULL
<1>1. ASSUME UNCHANGED <<current_problem, problems_remaining, solved, term>>
      PROVE  SourceInv'
  BY <1>1
<1>2. ASSUME NEW k \in Worker, WorkerStep(k) \/ Kill(k) \/ Reap(k)
      PROVE  SourceInv'
  <2>1. UNCHANGED <<current_problem, problems_remaining, solved, term>>
    BY <1>2 DEF WorkerStep, Raise, Resume, Terminate, Interrupt, Read, Solve,
                Cancel, Answer, Kill, Reap, sourceVars, kernelVars
  <2>2. QED
    BY <1>1, <2>1
<1>3. CASE Suspend \/ Return \/ Skip
  BY <1>1, <1>3 DEF Suspend, Return, Skip, sourceVars, kernelVars
<1>4. CASE Collect
  <2>1. CASE UNCHANGED sourceVars
    BY <1>1, <1>4, <2>1 DEF Collect, sourceVars
  <2>2. CASE problems[i] # NULL /\ Post(i) /\ UNCHANGED problems_remaining
    <3>1. problems[i] = current_problem
      BY <2>2 DEF NoStaleProblem
    <3>2. solved' = solved \cup {current_problem} /\ current_problem' = NULL
      BY <2>2, <3>1 DEF Post
    <3>3. solved' = (1..(P - problems_remaining)) \ {NULL}
      BY <2>2, <3>1, <3>2
    <3>4. term' = term
      BY <1>4 DEF Collect
    <3>5. QED
      BY <2>2, <3>2, <3>3, <3>4
  <2>3. QED
    BY <1>4, <2>1, <2>2 DEF Collect
<1>5. CASE Assign
  <2>1. \A k \in Worker : ~term'[k]
    BY <1>5 DEF Assign
  <2>2. CASE current_problem # NULL
    BY <1>5, <2>1, <2>2 DEF Assign
  <2>3. CASE current_problem = NULL
    <3> DEFINE n == P - problems_remaining
    <3>1. /\ problems_remaining > 0 /\ n \in Nat
          /\ problems_remaining' = problems_remaining - 1
          /\ current_problem' = n + 1 /\ solved' = solved
      BY <1>5, <2>3 DEF Assign
    <3>2. P - problems_remaining' = n + 1
      BY <3>1
    <3>3. solved = 1..n /\ (1..(n + 1)) \ {n + 1} = 1..n
      BY <2>3, <3>1
    <3>4. QED
      BY <2>1, <3>1, <3>2, <3>3
  <2>4. QED
    BY <2>2, <2>3
<1>6. CASE Idle
  BY <1>6 DEF Idle, sourceVars
<1>7. CASE UNCHANGED polyaVars
  BY <1>1, <1>7 DEF polyaVars, sourceVars, kernelVars
<1>8. QED
  BY <1>2, <1>3, <1>4, <1>5, <1>6, <1>7 DEF PolyaNext, MasterStep, Ended

\* The master's pointers to problems.
LEMMA StaleNext == ASSUME IInv, PolyaNext PROVE NoStaleProblem'
<1> USE DEF IInv, Types, NoStaleProblem
<1>1. ASSUME UNCHANGED <<problems, current_problem>>
      PROVE  NoStaleProblem'
  BY <1>1
<1>2. ASSUME NEW k \in Worker, WorkerStep(k) \/ Kill(k) \/ Reap(k)
      PROVE  NoStaleProblem'
  <2>1. UNCHANGED <<problems, current_problem>>
    BY <1>2 DEF WorkerStep, Raise, Resume, Terminate, Interrupt, Read, Solve,
                Cancel, Answer, Kill, Reap, sourceVars, masterVars
  <2>2. QED
    BY <1>1, <2>1
<1>3. CASE Suspend \/ Return \/ Skip \/ Idle
  BY <1>1, <1>3 DEF Suspend, Return, Skip, Idle, sourceVars
<1>4. CASE Collect
  BY <1>4 DEF Collect, Post, sourceVars
<1>5. CASE Assign
  BY <1>5 DEF Assign
<1>6. CASE UNCHANGED polyaVars
  BY <1>1, <1>6 DEF polyaVars, sourceVars, masterVars
<1>7. QED
  BY <1>2, <1>3, <1>4, <1>5, <1>6 DEF PolyaNext, MasterStep, Ended

\* A set of workers is finite and has at most W members.
LEMMA WorkerSets ==
  ASSUME NEW S \in SUBSET Worker
  PROVE  /\ IsFiniteSet(S) /\ Cardinality(S) \in 0..W
         /\ Cardinality(S) = W => S = Worker
<1>1. IsFiniteSet(Worker) /\ Cardinality(Worker) = W
  BY FS_Interval, PolyaAssumption DEF Worker
<1>2. /\ IsFiniteSet(S) /\ Cardinality(S) <= W
      /\ Cardinality(S) = W => S = Worker
  BY <1>1, FS_Subset
<1>3. Cardinality(S) \in Nat
  BY <1>2, FS_CardinalityType
<1>4. QED
  BY <1>2, <1>3, PolyaAssumption

\* One more worker is gone.
LEMMA OneMore ==
  ASSUME NEW S \in SUBSET Worker, NEW k \in Worker, k \notin S
  PROVE  Cardinality(S \cup {k}) = Cardinality(S) + 1
  BY WorkerSets, FS_AddElement

\* The master's counters agree with its view of the workers.
LEMMA CountNext == ASSUME IInv, PolyaNext PROVE CountInv'
<1> USE PolyaAssumption DEF IInv, Types
<1>1. ASSUME UNCHANGED <<worker_alive, aborted, idle, i, master>>,
             In({"EXITED", "ABORTED"})' = In({"EXITED", "ABORTED"}),
             In({"ABORTED"})' = In({"ABORTED"})
      PROVE  CountInv'
  BY <1>1 DEF CountInv
<1>2. ASSUME NEW k \in Worker, WorkerStep(k) \/ Kill(k)
      PROVE  CountInv'
  <2>1. UNCHANGED masterVars
    BY <1>2 DEF WorkerStep, Raise, Resume, Terminate, Interrupt, Read, Solve,
                Cancel, Answer, Kill
  <2>2. QED
    BY <1>1, <2>1 DEF masterVars, In
<1>3. ASSUME NEW k \in Worker, Reap(k) PROVE CountInv'
  <2>1. Phase(k) /\ status[k] # "none"
    BY <1>3 DEF PhaseInv, Reap
  <2>2. /\ states' = [states EXCEPT ![k] = AfterStatus(states[k], status[k])]
        /\ master = "handler" /\ UNCHANGED <<idle, i, master>>
    BY <1>3 DEF Reap
  <2>3. states[k] \notin {"EXITED", "ABORTED"}
    BY <2>1 DEF Phase, Started, Waiting, Assigned, Solving, Answered, Finished,
                Doomed, Dead, Working
  <2> DEFINE Gone == In({"EXITED", "ABORTED"})
             Lost == In({"ABORTED"})
  <2>4. Gone \in SUBSET Worker /\ Lost \in SUBSET Worker
        /\ k \notin Gone /\ k \notin Lost
    BY <2>3 DEF In
  <2>5. CASE status[k] = "exited"
    <3>1. Gone' = Gone \cup {k} /\ Lost' = Lost
      BY <2>2, <2>3, <2>5 DEF In, AfterStatus
    <3>2. worker_alive' = worker_alive - 1 /\ aborted' = aborted
      BY <1>3, <2>5 DEF Reap
    <3>3. Cardinality(Gone') = Cardinality(Gone) + 1
      BY <2>4, <3>1, OneMore
    <3>4. Cardinality(Gone) \in Nat
      BY <2>4, WorkerSets
    <3>5. QED
      BY <2>2, <3>1, <3>2, <3>3, <3>4 DEF CountInv
  <2>6. CASE status[k] = "signaled"
    <3>1. Gone' = Gone \cup {k} /\ Lost' = Lost \cup {k}
      BY <2>2, <2>3, <2>6 DEF In, AfterStatus
    <3>2. worker_alive' = worker_alive - 1 /\ aborted' = aborted + 1
      BY <1>3, <2>6 DEF Reap
    <3>3. /\ Cardinality(Gone') = Cardinality(Gone) + 1
          /\ Cardinality(Lost') = Cardinality(Lost) + 1
      BY <2>4, <3>1, OneMore
    <3>4. Cardinality(Gone) \in Nat
      BY <2>4, WorkerSets
    <3>5. QED
      BY <2>2, <3>1, <3>2, <3>3, <3>4 DEF CountInv
  <2>7. CASE status[k] \in {"stopped", "continued"}
    <3>1. states'[k] \notin {"EXITED", "ABORTED"}
      BY <2>2, <2>3, <2>7 DEF AfterStatus, WorkerStates
    <3>2. Gone' = Gone /\ Lost' = Lost
      BY <2>2, <2>3, <3>1 DEF In
    <3>3. worker_alive' = worker_alive /\ aborted' = aborted
      BY <1>3, <2>7 DEF Reap
    <3>4. QED
      BY <1>1, <2>2, <3>2, <3>3
  <2>8. QED
    BY <2>1, <2>5, <2>6, <2>7
<1>4. CASE Suspend
  <2>1. /\ In({"EXITED", "ABORTED"})' = In({"EXITED", "ABORTED"})
        /\ In({"ABORTED"})' = In({"ABORTED"})
    BY <1>4 DEF Suspend, In
  <2>2. QED
    BY <1>4, <2>1 DEF Suspend, CountInv
<1>5. CASE Return
  <2>1. /\ In({"EXITED", "ABORTED"})' = In({"EXITED", "ABORTED"})
        /\ In({"ABORTED"})' = In({"ABORTED"})
    BY <1>5 DEF Return, In
  <2>2. QED
    BY <1>5, <2>1 DEF Return, CountInv
<1>6. CASE Skip
  <2>1. /\ In({"EXITED", "ABORTED"})' = In({"EXITED", "ABORTED"})
        /\ In({"ABORTED"})' = In({"ABORTED"})
    BY <1>6 DEF Skip, In
  <2>2. QED
    BY <1>6, <2>1 DEF Skip, Advance, CountInv, Worker
<1>7. CASE Collect \/ Assign
  <2>1. /\ In({"EXITED", "ABORTED"})' = In({"EXITED", "ABORTED"})
        /\ In({"ABORTED"})' = In({"ABORTED"})
    BY <1>7 DEF Collect, Assign, In
  <2>2. QED
    BY <1>7, <2>1 DEF Collect, Assign, Advance, CountInv, Worker
<1>8. CASE Idle
  <2>1. /\ In({"EXITED", "ABORTED"})' = In({"EXITED", "ABORTED"})
        /\ In({"ABORTED"})' = In({"ABORTED"})
    BY <1>8 DEF Idle, In
  <2>2. QED
    BY <1>8, <2>1 DEF Idle, Advance, CountInv, Worker
<1>9. CASE UNCHANGED polyaVars
  BY <1>1, <1>9 DEF polyaVars, masterVars, In
<1>10. QED
  BY <1>2, <1>3, <1>4, <1>5, <1>6, <1>7, <1>8, <1>9
  DEF PolyaNext, MasterStep, Ended

\* The invariant holds in every state.
LEMMA Inductive == PolyaSpec => []IInv
<1>1. ASSUME IInv, [PolyaNext]_polyaVars PROVE IInv'
  <2>1. CASE PolyaNext
    BY <1>1, <2>1, TypesNext, PhaseNext, SourceNext, StaleNext, CountNext
    DEF IInv
  <2>2. CASE UNCHANGED polyaVars
    <3>1. UNCHANGED polyaVars => Types' /\ SourceInv' /\ NoStaleProblem' /\ CountInv'
      BY <1>1 DEF IInv, Types, SourceInv, More, NoStaleProblem, CountInv, In,
                  polyaVars, masterVars, sourceVars, kernelVars, workerVars
    <3>2. PhaseInv'
      BY <1>1, <2>2, PhaseKept
      DEF IInv, Types, PhaseInv, polyaVars, masterVars, kernelVars, workerVars
    <3>3. QED
      BY <2>2, <3>1, <3>2 DEF IInv
  <2>3. QED
    BY <1>1, <2>1, <2>2
<1>2. QED
  BY <1>1, InitIInv, PTL DEF PolyaSpec

-----------------------------------------------------------------------------
\* The types of Polya's variables, for any number of workers: the counters
\* stay between 0 and the number of workers, and no pipe holds more than one
\* message (master.c:79-125, worker.c:30-58).
THEOREM TypeCorrect == PolyaSpec => []PolyaTypeOK
<1>1. ASSUME IInv PROVE PolyaTypeOK
  <2> USE <1>1, PolyaAssumption DEF IInv, Types
  <2>1. worker_alive \in 0..W /\ aborted \in 0..W
    <3>1. /\ In({"EXITED", "ABORTED"}) \in SUBSET Worker
          /\ In({"ABORTED"}) \in SUBSET Worker
      BY DEF In
    <3>2. /\ Cardinality(In({"EXITED", "ABORTED"})) \in 0..W
          /\ Cardinality(In({"ABORTED"})) \in 0..W
      BY <3>1, WorkerSets
    <3>3. QED
      BY <3>2 DEF CountInv
  <2>2. solved \subseteq Problem /\ current_problem \in Problem \cup {NULL}
    BY DEF SourceInv, Problem
  <2>3. ASSUME NEW k \in Worker
        PROVE  /\ Len(toWorker[k]) <= 1 /\ Len(toMaster[k]) <= 1
               /\ \A n \in DOMAIN toWorker[k] : toWorker[k][n] \in Problem
               /\ \A n \in DOMAIN toMaster[k] :
                     toMaster[k][n] \in [of : Problem, failed : BOOLEAN]
    <3>1. toWorker[k] \in Pipe(Problem) /\ toMaster[k] \in Pipe(Result)
      BY <2>3
    <3>2. QED
      BY <3>1, OneMessage DEF Result
  <2>4. QED
    BY <2>1, <2>2, <2>3 DEF PolyaTypeOK, SourceInv, CountInv
<1>2. QED
  BY <1>1, Inductive, PTL

\* No pointer of the master leads to a problem that post_result has freed
\* (master.c:114-122).
THEOREM NoPointerIsStale == PolyaSpec => []NoStaleProblem
<1>1. IInv => NoStaleProblem
  BY DEF IInv
<1>2. QED
  BY <1>1, Inductive, PTL

\* stopped_state never blocks, and gets the result of the problem it is
\* posted against (master.c:105-125).
THEOREM ResultsAreAwaited == PolyaSpec => []ResultIsAwaited
<1>1. ASSUME IInv PROVE ResultIsAwaited
  <2>1. ASSUME NEW k \in Worker, states[k] = "STOPPED" PROVE HasResult(k)
    BY <1>1, <2>1 DEF IInv, PhaseInv, Phase, Started, Waiting, Assigned,
       Solving, Answered, Finished, Doomed, Dead, Working
  <2>2. QED
    BY <2>1 DEF ResultIsAwaited, HasResult, Wanted
<1>2. QED
  BY <1>1, Inductive, PTL

\* The master continues only workers that are stopped, dead or terminated
\* (master.c:86-91).
THEOREM IdleWorkersAreStopped == PolyaSpec => []IdleIsStopped
<1>1. ASSUME IInv PROVE IdleIsStopped
  BY <1>1 DEF IdleIsStopped, IInv, PhaseInv, Phase, Started, Waiting, Assigned,
     Solving, Answered, Finished, Doomed, Dead, Working
<1>2. QED
  BY <1>1, Inductive, PTL

\* When worker_alive is 0 every worker is dead, and was reported.
LEMMA AllGone ==
  ASSUME IInv, worker_alive = 0, NEW k \in Worker
  PROVE  Dead(k) /\ states[k] \in {"EXITED", "ABORTED"}
<1> USE PolyaAssumption DEF IInv, Types
<1> DEFINE Gone == In({"EXITED", "ABORTED"})
<1>1. Gone \in SUBSET Worker
  BY DEF In
<1>2. Cardinality(Gone) \in 0..W
  BY <1>1, WorkerSets
<1>3. Cardinality(Gone) = W
  BY <1>2 DEF CountInv
<1>4. k \in Gone
  BY <1>1, <1>3, WorkerSets
<1>5. states[k] \in {"EXITED", "ABORTED"} /\ Phase(k)
  BY <1>4 DEF In, PhaseInv
<1>6. QED
  BY <1>5 DEF Phase, Started, Waiting, Assigned, Solving, Answered, Finished,
              Doomed, Working

\* A worker that terminated was told to, when every problem was solved.
LEMMA ExitedMeansSolved ==
  ASSUME IInv, NEW k \in Worker, Dead(k), states[k] = "EXITED"
  PROVE  solved = Problem
<1>1. term[k]
  BY DEF Dead
<1>2. ~More
  BY <1>1 DEF IInv, SourceInv
<1>3. current_problem = NULL /\ problems_remaining = 0
  BY <1>2, PolyaAssumption DEF IInv, More, SourceInv
<1>4. QED
  BY <1>3, PolyaAssumption DEF IInv, SourceInv, Problem, NULL

\* The master exits with success only when every worker has terminated and
\* every problem is solved (master.c:68-77).
THEOREM SuccessIsEarned == PolyaSpec => []SuccessMeansSolved
<1>1. ASSUME IInv, master = "exit"
      PROVE  /\ \A k \in Worker : proc[k] = "dead"
             /\ aborted = 0 => solved = Problem
  <2>1. worker_alive = 0
    BY <1>1 DEF IInv, CountInv
  <2>2. ASSUME NEW k \in Worker PROVE Dead(k)
    BY <1>1, <2>1, AllGone
  <2>3. ASSUME aborted = 0 PROVE solved = Problem
    <3>1. In({"ABORTED"}) \in SUBSET Worker
      BY DEF In
    <3>2. In({"ABORTED"}) = {}
      <4>1. /\ IsFiniteSet(In({"ABORTED"}))
            /\ Cardinality(In({"ABORTED"})) = 0
        BY <1>1, <2>3, <3>1, WorkerSets DEF IInv, CountInv
      <4>2. QED
        BY <4>1, FS_EmptySet
    <3>3. 1 \in Worker
      BY PolyaAssumption DEF Worker
    <3>4. states[1] = "EXITED" /\ Dead(1)
      BY <1>1, <2>1, <3>2, <3>3, AllGone DEF In
    <3>5. QED
      BY <1>1, <3>3, <3>4, ExitedMeansSolved
  <2>4. QED
    BY <2>2, <2>3 DEF Dead
<1>2. IInv => SuccessMeansSolved
  BY <1>1 DEF SuccessMeansSolved
<1>3. QED
  BY <1>2, Inductive, PTL

-----------------------------------------------------------------------------
(***************************************************************************)
(* Polya implements Rounds.  All the mapping needs beyond the invariant is *)
(* that the pipe of an idle worker is empty, so that a worker that joins a *)
(* round has not found a solution yet.                                     *)
(***************************************************************************)

IdleInv == \A k \in Worker : states[k] = "IDLE" => toMaster[k] = <<>>

\* What the phases say of a worker that is killed, solves, or is observed.
LEMMA PhaseFacts ==
  ASSUME IInv, NEW k \in Worker
  PROVE  /\ proc[k] # "dead" => status[k] # "signaled" /\ states[k] # "ABORTED"
         /\ status[k] # "none" => states[k] # "ABORTED"
         /\ proc[k] = "running" /\ at[k] = "solve" =>
              /\ toMaster[k] = <<>> /\ states[k] # "IDLE"
              /\ problems[k] # NULL => problems[k] = job[k]
         /\ states[k] = "STARTED" /\ status[k] = "stopped" => toMaster[k] = <<>>
         /\ states[k] = "STOPPED" => HasResult(k)
  BY DEF IInv, Types, PhaseInv, Phase, Started, Waiting, Assigned, Solving, Answered,
         Finished, Doomed, Dead, Working, Wanted

\* The pipe of a worker is emptied before it counts as idle.
LEMMA IdleNext == IInv /\ IdleInv /\ [PolyaNext]_polyaVars => IdleInv'
<1> SUFFICES ASSUME IInv, IdleInv, [PolyaNext]_polyaVars, NEW j \in Worker,
                    states'[j] = "IDLE"
             PROVE  toMaster'[j] = <<>>
  BY DEF IdleInv
<1> USE DEF IInv, Types
<1>1. CASE \E k \in Worker : Raise(k) \/ Resume(k) \/ Terminate(k) \/ Interrupt(k)
                               \/ Read(k) \/ Kill(k)
  BY <1>1 DEF IdleInv, Raise, Resume, Terminate, Interrupt, Read, Kill, masterVars
<1>2. ASSUME NEW k \in Worker, NEW f \in BOOLEAN, Answer(k, f)
      PROVE  toMaster'[j] = <<>>
  <2>1. states[j] = "IDLE" /\ states[k] # "IDLE"
    BY <1>2, PhaseFacts DEF Answer, masterVars
  <2>2. QED
    BY <1>2, <2>1 DEF IdleInv, Answer
<1>3. ASSUME NEW k \in Worker, Reap(k) PROVE toMaster'[j] = <<>>
  <2>1. toMaster'[j] = toMaster[j]
    BY <1>3 DEF Reap
  <2>2. CASE j = k
    <3>1. AfterStatus(states[k], status[k]) = "IDLE"
      BY <1>3, <2>2 DEF Reap
    <3>2. status[k] \in {"stopped", "continued", "exited", "signaled"}
      BY <1>3 DEF Reap
    <3>3. states[k] = "STARTED" /\ status[k] = "stopped"
      BY <3>1, <3>2 DEF AfterStatus
    <3>4. QED
      BY <2>1, <2>2, <3>3, PhaseFacts
  <2>3. CASE j # k
    BY <1>3, <2>1, <2>3 DEF Reap, IdleInv
  <2>4. QED
    BY <2>2, <2>3
<1>4. CASE Collect
  <2>1. CASE j = i
    <3>1. PICK r \in Result : toMaster[i] = <<r>>
      BY <1>4, PhaseFacts DEF Collect, HasResult
    <3>2. toMaster'[i] = Tail(<<r>>)
      BY <1>4, <3>1 DEF Collect
    <3>3. QED
      BY <2>1, <3>2
  <2>2. CASE j # i
    BY <1>4, <2>2 DEF Collect, IdleInv
  <2>3. QED
    BY <2>1, <2>2
<1>5. CASE Suspend \/ Return \/ Skip \/ Assign \/ Idle \/ UNCHANGED polyaVars
  BY <1>5 DEF Suspend, Return, Skip, Assign, Idle, IdleInv, polyaVars, masterVars
<1>6. QED
  BY <1>1, <1>2, <1>3, <1>4, <1>5
  DEF PolyaNext, MasterStep, WorkerStep, Solve, Cancel, Ended

\* Two sets of workers with the same members.
LEMMA SameWorkers ==
  ASSUME NEW S, NEW T, S \subseteq Worker, T \subseteq Worker,
         \A k \in Worker : k \in S <=> k \in T
  PROVE  S = T
  OBVIOUS

\* Every step of Polya is a step of Rounds, or changes nothing there.
LEMMA RoundsNext ==
  ASSUME IInv, IInv', IdleInv, [PolyaNext]_polyaVars
  PROVE  [Rounds!Next]_(Rounds!vars)
<1> USE DEF IInv, Types
<1> DEFINE Kept == /\ Team' = Team /\ Finders' = Finders /\ Killed' = Killed
                   /\ current_problem' = current_problem /\ solved' = solved
                   /\ (master' = "exit") = (master = "exit")
<1>0. /\ Team \subseteq Worker /\ Finders \subseteq Worker /\ Killed \subseteq Worker
      /\ Team' \subseteq Worker /\ Finders' \subseteq Worker /\ Killed' \subseteq Worker
  BY DEF Team, Finders, Killed
<1>1. Kept => UNCHANGED Rounds!vars
  BY DEF Rounds!vars
<1>2. ASSUME NEW k \in Worker, proc[k] # "dead"
      PROVE  master # "exit"
  <2>1. master = "exit" => worker_alive = 0
    BY DEF CountInv
  <2>2. QED
    BY <1>2, <2>1, AllGone DEF Dead
<1> HIDE DEF Kept
<1>3. ASSUME NEW k \in Worker,
             Raise(k) \/ Resume(k) \/ Terminate(k) \/ Interrupt(k) \/ Read(k)
      PROVE  Kept
  <2>1. /\ problems' = problems /\ toMaster' = toMaster /\ states' = states
        /\ current_problem' = current_problem /\ solved' = solved
        /\ master' = master
    BY <1>3 DEF Raise, Resume, Terminate, Interrupt, Read, masterVars, sourceVars
  <2>2. \A j \in Worker : status'[j] = "signaled" <=> status[j] = "signaled"
    <3>1. status[k] # "signaled"
      BY <1>3, PhaseFacts DEF Raise, Resume, Terminate, Interrupt, Read
    <3>2. CASE Raise(k) \/ Terminate(k)
      <4>1. status' = [status EXCEPT ![k] = "stopped"]
              \/ status' = [status EXCEPT ![k] = "exited"]
        BY <3>2 DEF Raise, Terminate
      <4>2. QED
        BY <3>1, <4>1
    <3>3. CASE Resume(k) \/ Interrupt(k) \/ Read(k)
      BY <3>3 DEF Resume, Interrupt, Read, kernelVars
    <3>4. QED
      BY <1>3, <3>2, <3>3
  <2>3. Team' = Team /\ Finders' = Finders /\ Killed' = Killed
    BY <2>1, <2>2 DEF Team, Finders, Killed
  <2>4. QED
    BY <2>1, <2>3 DEF Kept
<1>4. ASSUME NEW k \in Worker, NEW f \in BOOLEAN, Answer(k, f)
      PROVE  Kept \/ (Rounds!Find(k) /\ master # "exit")
  <2>1. /\ problems' = problems /\ states' = states /\ status' = status
        /\ current_problem' = current_problem /\ solved' = solved
        /\ master' = master /\ master # "exit"
    BY <1>2, <1>4 DEF Answer, masterVars, sourceVars, kernelVars
  <2>2. Team' = Team /\ Killed' = Killed
    BY <2>1 DEF Team, Killed
  <2>3. toMaster[k] = <<>> /\ (problems[k] # NULL => problems[k] = job[k])
    BY <1>4, PhaseFacts DEF Answer
  <2>4. /\ toMaster'[k] = <<[of |-> job[k], failed |-> f]>>
        /\ \A j \in Worker : j # k => toMaster'[j] = toMaster[j]
    BY <1>4, <2>3 DEF Answer
  <2>5. k \notin Finders
    BY <2>3 DEF Finders
  <2>6. CASE f = FALSE /\ k \in Team
    <3>1. Finders' = Finders \cup {k}
      BY <2>1, <2>2, <2>3, <2>4, <2>6 DEF Finders, Team
    <3>2. QED
      BY <2>1, <2>2, <2>5, <2>6, <3>1 DEF Rounds!Find
  <2>7. CASE ~(f = FALSE /\ k \in Team)
    <3>1. k \notin Finders'
      <4>1. CASE k \in Team
        <5>1. f = TRUE
          BY <2>7, <4>1
        <5>2. toMaster'[k] # <<[of |-> problems'[k], failed |-> FALSE]>>
          <6>1. toMaster'[k][1].failed = TRUE
            BY <2>4, <5>1
          <6>2. QED
            BY <6>1
        <5>3. QED
          BY <5>2 DEF Finders
      <4>2. CASE k \notin Team
        BY <2>2, <4>2 DEF Finders
      <4>3. QED
        BY <4>1, <4>2
    <3>2. Finders' = Finders
      <4>1. \A j \in Worker : j # k => (j \in Finders' <=> j \in Finders)
        BY <2>1, <2>4 DEF Finders, Team
      <4>2. QED
        BY ONLY <1>0, <2>5, <3>1, <4>1, SameWorkers
    <3>3. QED
      BY <2>1, <2>2, <3>2 DEF Kept
  <2>8. QED
    BY <2>6, <2>7
<1>5. ASSUME NEW k \in Worker, Kill(k)
      PROVE  Rounds!Lose(k) /\ master # "exit"
  <2>1. /\ problems' = problems /\ toMaster' = toMaster /\ states' = states
        /\ current_problem' = current_problem /\ solved' = solved
        /\ master' = master /\ master # "exit"
        /\ status' = [status EXCEPT ![k] = "signaled"]
    BY <1>5 DEF Kill, masterVars, sourceVars
  <2>2. Team' = Team /\ Finders' = Finders /\ Killed' = Killed \cup {k}
    BY <2>1 DEF Team, Finders, Killed
  <2>3. QED
    BY <2>1, <2>2 DEF Rounds!Lose
<1>6. ASSUME NEW k \in Worker, Reap(k) PROVE Kept
  <2>1. /\ problems' = problems /\ toMaster' = toMaster
        /\ current_problem' = current_problem /\ solved' = solved
        /\ master' = master
        /\ status' = [status EXCEPT ![k] = "none"]
        /\ states' = [states EXCEPT ![k] = AfterStatus(@, status[k])]
    BY <1>6 DEF Reap, sourceVars
  <2>2. states[k] # "ABORTED" /\ status[k] # "none"
    BY <1>6, PhaseFacts DEF Reap
  <2>3. AfterStatus(states[k], status[k]) = "ABORTED" <=> status[k] = "signaled"
    <3>1. CASE status[k] = "exited"
      BY <3>1 DEF AfterStatus
    <3>2. CASE status[k] = "continued"
      BY <2>2, <3>2 DEF AfterStatus
    <3>3. CASE status[k] = "stopped"
      BY <2>2, <3>3 DEF AfterStatus
    <3>4. CASE status[k] = "signaled"
      BY <3>4 DEF AfterStatus
    <3>5. QED
      BY <2>2, <3>1, <3>2, <3>3, <3>4
  <2>4. Killed' = Killed
    <3>1. k \in Killed' <=> k \in Killed
      BY <2>1, <2>2, <2>3 DEF Killed
    <3>2. \A j \in Worker : j # k => (j \in Killed' <=> j \in Killed)
      BY <2>1 DEF Killed
    <3>3. \A j \in Worker : j \in Killed' <=> j \in Killed
      BY <3>1, <3>2
    <3>4. QED
      BY ONLY <1>0, <3>3, SameWorkers
  <2>5. Team' = Team /\ Finders' = Finders
    BY <2>1 DEF Team, Finders
  <2>6. QED
    BY <2>1, <2>4, <2>5 DEF Kept
<1>7. CASE Suspend \/ Skip
  <2>1. /\ problems' = problems /\ toMaster' = toMaster /\ states' = states
        /\ status' = status
        /\ current_problem' = current_problem /\ solved' = solved
        /\ master # "exit" /\ master' # "exit"
    BY <1>7 DEF Suspend, Skip, Advance, sourceVars, kernelVars
  <2>2. Team' = Team /\ Finders' = Finders /\ Killed' = Killed
    BY <2>1 DEF Team, Finders, Killed
  <2>3. (master' = "exit") = (master = "exit")
    BY <2>1
  <2>4. QED
    BY <1>1, <2>1, <2>2, <2>3 DEF Kept
<1>8. CASE Return
  <2>1. /\ problems' = problems /\ toMaster' = toMaster /\ states' = states
        /\ status' = status /\ master # "exit"
        /\ current_problem' = current_problem /\ solved' = solved
        /\ master' = IF worker_alive = 0 THEN "exit" ELSE "loop"
    BY <1>8 DEF Return, sourceVars, kernelVars
  <2>2. Team' = Team /\ Finders' = Finders /\ Killed' = Killed
    BY <2>1 DEF Team, Finders, Killed
  <2>3. CASE worker_alive = 0
    <3>1. solved = 1..P \/ Killed = Worker
      <4>1. CASE \E k \in Worker : states[k] = "EXITED"
        BY <2>3, <4>1, AllGone, ExitedMeansSolved DEF Problem
      <4>2. CASE \A k \in Worker : states[k] # "EXITED"
        BY <2>3, <4>2, AllGone DEF Killed
      <4>3. QED
        BY <4>1, <4>2
    <3>2. Rounds!End
      BY <2>1, <2>2, <2>3, <3>1 DEF Rounds!End
    <3>3. QED
      BY <2>1, <3>2 DEF Rounds!Next
  <2>4. CASE worker_alive # 0
    BY <1>1, <2>1, <2>2, <2>4 DEF Kept
  <2>5. QED
    BY <2>3, <2>4
<1>9. CASE Collect
  <2>1. PICK r \in Result : toMaster[i] = <<r>> /\ Wanted(i, r.of)
    BY <1>9, PhaseFacts DEF Collect, HasResult
  <2>2. /\ toMaster' = [toMaster EXCEPT ![i] = <<>>]
        /\ states' = [states EXCEPT ![i] = "IDLE"]
        /\ states[i] = "STOPPED" /\ status' = status
        /\ master # "exit" /\ master' = master
    BY <1>9, <2>1 DEF Collect
  <2>3. Killed' = Killed
    BY <2>2 DEF Killed
  <2>4. CASE problems[i] # NULL /\ ~r.failed
    <3>1. Post(i)
      BY <1>9, <2>1, <2>4 DEF Collect
    <3>2. r.of = problems[i] /\ r.failed = FALSE
      BY <2>1, <2>4 DEF Wanted, Result
    <3>3. r = [of |-> problems[i], failed |-> FALSE]
      BY <3>2 DEF Result
    <3>4. i \in Finders
      BY <2>1, <2>4, <3>3 DEF Finders, Team
    <3>5. problems[i] = current_problem
      BY <2>4 DEF NoStaleProblem
    <3>6. \A k \in Worker : problems'[k] = NULL
      BY <3>1, <3>5 DEF Post, NoStaleProblem
    <3>7. Team' = {} /\ Finders' = {}
      BY <3>6 DEF Team, Finders
    <3>8. Rounds!Win(i)
      BY <2>2, <2>3, <3>1, <3>4, <3>5, <3>7 DEF Rounds!Win, Rounds!NoProblem, Post, NULL
    <3>9. QED
      BY <2>2, <3>8 DEF Rounds!Next
  <2>5. CASE ~(problems[i] # NULL /\ ~r.failed)
    <3>1. problems' = problems /\ current_problem' = current_problem /\ solved' = solved
      BY <1>9, <2>1, <2>5 DEF Collect, sourceVars
    <3>2. i \notin Finders /\ i \notin Finders'
      <4>1. i \notin Finders
        <5>1. toMaster[i] = <<[of |-> problems[i], failed |-> FALSE]>> => ~r.failed
          BY <2>1
        <5>2. QED
          BY <2>5, <5>1 DEF Finders, Team
      <4>2. i \notin Finders'
        BY <2>2 DEF Finders
      <4>3. QED
        BY <4>1, <4>2
    <3>3. Team' = Team
      BY <3>1 DEF Team
    <3>4. Finders' = Finders
      <4>1. \A k \in Worker : k \in Finders' <=> k \in Finders
        BY <2>2, <3>1, <3>2 DEF Finders, Team
      <4>2. QED
        BY ONLY <1>0, <4>1, SameWorkers
    <3>5. QED
      BY <1>1, <2>2, <2>3, <3>1, <3>3, <3>4 DEF Kept
  <2>6. QED
    BY <2>4, <2>5
<1>10. CASE Assign
  <2> DEFINE p == IF current_problem # NULL THEN current_problem
                                            ELSE P - problems_remaining + 1
  <2>1. /\ problems' = [problems EXCEPT ![i] = p] /\ current_problem' = p
        /\ states' = [states EXCEPT ![i] = "CONTINUED"]
        /\ toMaster' = toMaster /\ solved' = solved
        /\ states[i] = "IDLE" /\ More /\ Continue({i})
        /\ master # "exit" /\ master' # "exit"
    BY <1>10 DEF Assign, Advance
  <2>2. Killed' = Killed
    <3>1. \A k \in Worker : status'[k] = "signaled" <=> status[k] = "signaled"
      <4>1. \A k \in Worker : proc[k] = "stopped" => status[k] # "signaled"
        BY PhaseFacts
      <4>2. QED
        BY <2>1, <4>1 DEF Continue
    <3>2. \A k \in Worker : states'[k] = "ABORTED" <=> states[k] = "ABORTED"
      BY <2>1
    <3>3. QED
      BY <3>1, <3>2 DEF Killed
  <2>3. p \in 1..P /\ p # NULL
    BY <2>1, PolyaAssumption DEF More, SourceInv, NULL
  <2>4. Team' = Team \cup {i}
    <3>1. problems'[i] # NULL /\ \A k \in Worker : k # i => problems'[k] = problems[k]
      BY <2>1, <2>3
    <3>2. QED
      BY <3>1 DEF Team
  <2>5. Finders' = Finders
    <3>1. toMaster'[i] = <<>> /\ toMaster[i] = <<>>
      BY <2>1 DEF IdleInv
    <3>2. i \notin Finders /\ i \notin Finders'
      BY <3>1 DEF Finders
    <3>3. \A k \in Worker : k # i => problems'[k] = problems[k] /\ toMaster'[k] = toMaster[k]
      BY <2>1
    <3>4. \A k \in Worker : k \in Finders' <=> k \in Finders
      BY <3>2, <3>3 DEF Finders, Team
    <3>5. QED
      BY ONLY <1>0, <3>4, SameWorkers
  <2>6. CASE current_problem = NULL
    <3>1. Team = {}
      BY <2>6 DEF Team, NoStaleProblem
    <3>2. solved = 1..(p - 1)
      BY <2>6, PolyaAssumption DEF SourceInv, NULL
    <3>3. Rounds!Begin(i)
      <4>1. Team' = {i}
        BY <2>4, <3>1
      <4>2. current_problem' \in 1..P /\ solved = 1..(current_problem' - 1)
        BY <2>1, <2>3, <3>2
      <4>3. (master' = "exit") = (master = "exit")
        BY <2>1
      <4>4. QED
        BY <2>1, <2>2, <2>5, <2>6, <4>1, <4>2, <4>3 DEF Rounds!Begin, Rounds!NoProblem, NULL
    <3>4. QED
      BY <2>1, <3>3 DEF Rounds!Next
  <2>7. CASE current_problem # NULL
    <3>1. current_problem' = current_problem
      BY <2>1, <2>7
    <3>2. CASE i \in Team
      BY <1>1, <2>1, <2>2, <2>4, <2>5, <3>1, <3>2 DEF Kept
    <3>3. CASE i \notin Team
      <4>1. (master' = "exit") = (master = "exit")
        BY <2>1
      <4>2. Rounds!Join(i)
        BY <2>1, <2>2, <2>4, <2>5, <2>7, <3>1, <3>3, <4>1
        DEF Rounds!Join, Rounds!NoProblem, NULL
      <4>3. QED
        BY <2>1, <4>2 DEF Rounds!Next
    <3>4. QED
      BY <3>2, <3>3
  <2>8. QED
    BY <2>6, <2>7
<1>11. CASE Idle
  <2>1. /\ problems' = problems /\ toMaster' = toMaster /\ states' = states
        /\ current_problem' = current_problem /\ solved' = solved
        /\ master # "exit" /\ master' # "exit"
    BY <1>11 DEF Idle, Advance, sourceVars
  <2>2. \A k \in Worker : status'[k] = "signaled" <=> status[k] = "signaled"
    <3>1. \A k \in Worker : proc[k] = "stopped" => status[k] # "signaled"
      BY PhaseFacts
    <3>2. QED
      BY <1>11, <3>1 DEF Idle, Continue
  <2>3. Team' = Team /\ Finders' = Finders /\ Killed' = Killed
    BY <2>1, <2>2 DEF Team, Finders, Killed
  <2>4. QED
    BY <1>1, <2>1, <2>3 DEF Kept
<1>12. CASE UNCHANGED polyaVars
  BY <1>1, <1>12
  DEF Kept, Team, Finders, Killed, polyaVars, masterVars, sourceVars, kernelVars
<1>13. ASSUME NEW k \in Worker, NEW f \in BOOLEAN, Answer(k, f)
       PROVE  [Rounds!Next]_(Rounds!vars)
  BY <1>1, <1>4, <1>13 DEF Rounds!Next
<1>14. ASSUME NEW k \in Worker, Kill(k)
       PROVE  [Rounds!Next]_(Rounds!vars)
  BY <1>5, <1>14 DEF Rounds!Next
<1>15. ASSUME NEW k \in Worker,
              \/ Raise(k) \/ Resume(k) \/ Terminate(k) \/ Interrupt(k) \/ Read(k)
              \/ Reap(k)
       PROVE  [Rounds!Next]_(Rounds!vars)
  BY <1>1, <1>3, <1>6, <1>15
<1>16. QED
  BY <1>7, <1>8, <1>9, <1>10, <1>11, <1>12, <1>13, <1>14, <1>15
  DEF PolyaNext, MasterStep, WorkerStep, Solve, Cancel, Ended

\* The problems are solved in rounds, one at a time and in their order, by
\* workers that were given them, and the master exits only when all are solved
\* or all workers killed (master.c:79-125, problem.c:70-155).
THEOREM RoundsAreImplemented == PolyaSpec => ImplementsRounds
<1>1. PolyaInit => Rounds!Init /\ IdleInv
  <2>1. ASSUME PolyaInit PROVE Team = {} /\ Finders = {} /\ Killed = {} /\ IdleInv
    BY <2>1 DEF PolyaInit, Team, Finders, Killed, IdleInv, NULL
  <2>2. QED
    BY <2>1 DEF PolyaInit, Rounds!Init, Rounds!NoProblem, NULL
<1>2. IInv /\ IInv' /\ IdleInv /\ [PolyaNext]_polyaVars => [Rounds!Next]_(Rounds!vars)
  BY RoundsNext
<1>3. QED
  BY <1>1, <1>2, IdleNext, Inductive, PTL DEF PolyaSpec, ImplementsRounds, Rounds!Spec
=============================================================================
