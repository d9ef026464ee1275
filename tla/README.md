# A verification development for Learn_System_In_C

The repository holds six course assignments in C, from a greeting (`hw0`) to a
multi-threaded telephone exchange (`hw5`).  This directory models all of them but
the greeting in TLA+: the concurrent programs `hw5` and `hw4`, and the sequential
cores of `hw3`, `hw2` and `hw1`.  TLC checks small instances, and TLAPS proves the
safety properties of the concurrent programs for every number of clients and
workers, and those of the directory walk, the miner and the command reader for every
file system, nonce and buffer.

## 1. Inventory

| component | state | operations | talks to | what is hard |
|---|---|---|---|---|
| **hw5 PBX** (`pbx.c`) | table `extensions`, semaphores `mutex` and `swap`, and per TU (telephone unit) a state, an opponent pointer, a descriptor and a semaphore | register, unregister, shutdown, pickup, hangup, dial, chat | called by service threads; writes to the descriptors of two clients | two-mutex operations from both ends of a call, unlocking in the middle, TUs freed by their threads, notifications written by two threads |
| **hw5 service threads** (`server.c`) | the thread's TU, a command buffer | read a command, execute it, hang up and unregister at EOF | PBX, the client's socket | what happens between the last hangup and the unregistration |
| **hw5 client simulator** (`util/tester.c`) | expected states, present state, last command | send a command, read notifications, resynchronise | the server, over two streams | commands and notifications that cross |
| **hw5 main thread** (`main.c`) | flag `finished`, accepted descriptor | accept, start a thread, SIGHUP handler, terminate | PBX (`pbx_init`, `pbx_shutdown`), kernel | a signal at any instant; the wait for threads nobody counts |
| **hw4 master** (`master.c`) | per worker a state and the problem it was given; `idle`, `worker_alive`, `aborted` | SIGCHLD handler, assign, collect, cancel, terminate | workers by signals and pipes; problem source | merged and late signals, workers that die, cancellation crossing an answer |
| **hw4 worker** (`worker.c`) | flag `canceledp` | stop, read a problem, solve it or give up, answer | master; solvers | SIGHUP and SIGCONT that arrive together or early |
| **hw4 problem source** (`problem.c`) | current problem, problems still to construct | `get_problem_variant`, `post_result` | master | frees a problem the master has several pointers to |
| **hw4 solvers** (`crypto_miner.c`, `trivial.c`) | nonce, variant range | solve, check | worker, problem source | arithmetic of variant ranges |
| **hw3 allocator** (`sfmm.c`) | heap blocks, free lists | malloc, free, realloc, memalign | its callers | boundary tags, coalescing, size classes, overflow |
| **hw1 Sequitur** (`sequitur.c`, `rules.c`, `symbol.c`, `digram_hash.c`) | rules, reference counts, digram hash table with tombstones | append a symbol, create and expand a rule | format layer | two invariants (no repeated digram, rule utility) restored by mutual recursion |
| **hw1 format** (`comdec.c`, `main.c`) | block, marker and rule position | compress, decompress | Sequitur, standard streams | block boundaries |
| **hw2 inode table** (`hash.c`) | one table per device, buckets that grow | `h_enter`: insert with duplicate test | vtree | growth and index at the boundary |
| **hw2 vtree** (`vtree.c`, `direct.c`) | depth, totals, a counter per depth, `stb` | directory walk with options | inode table, file system | one `stb` and one set of counters for a recursion; links |
| **hw0** | none | greet | - | nothing |

What makes each of them correct:

* *PBX*: a call always has exactly two ends in matching states; a client is told
  of every change of its TU, in order; nothing is used after it was freed; the
  semaphores are used as locks and do not deadlock.
* *Server*: a SIGHUP ends the server; `pbx` is freed when nobody needs it any more.
* *Polya*: every problem is solved and the master then exits; a result is read
  only when there is one and is posted for the problem it answers; no pointer to
  a freed problem survives; a cancellation hits the attempt it is meant for.
* *Client simulator*: it accepts every answer of a correct exchange, however lines cross, and
  knows the state of its unit.
* *Command reader*: a line is read as it was sent, inside the buffer.
* *Miner*: no nonce is skipped between a worker's start and its present attempt.
* *Allocator*: blocks tile the heap, tags and footers agree with them, the lists hold exactly
  the free blocks, no two free blocks are neighbours, and a payload is as large and as aligned as
  its owner asked, or is refused.  `sfmm.h` also says which list a block belongs in; that and the refusal of sizes that wrap
  round are promises the code does not keep (section 5).
* *Sequitur*: the grammar stands for the bytes read, and each rule is used at least
  twice and counts its uses.
* *Format*: decompression restores the blocks of a transmission, of one that was cut the blocks that arrived whole.  That the
  blocks together are the text is not so (finding 8).
* *vtree*: the total size is that of every directory opened and every file in them, each file once or as often as the
  options say, whatever the order; the last directory is drawn with a corner.  That the keys fit into their buckets is not so (finding 9), and
  the numbers of inodes and the totals of `-v` are not what the manual says (section 5).

The hazards, each at the line where it bites and with the properties aimed at it,
are in `PROJECT.json`.

## 2. Modules

    PBXCalls  <-- implements --  PBX -- MCPBX     PBXServer         Polya [2]
     +----------------------------+--- MCProcesses -+-----------------+
     | PBXCallsProofs             | PBXProofs       | PBXServerProofs | PolyaProofs
     |                            | PBXCallsRefinement
     |
    Tester        Sfmm [1] Sequitur Utf8   Reader     Miner     Inodes
     |             |       Comdec ---+      |           |       Vtree -- MCVtree
     |             |        |               |           |        |         |
     |             |        |               +-- ProgramsProofs --+         |
     +-------------+------ MCPrograms ------+-----------+------------------+
     | TesterProofs| SfmmProofs

    [1] implements Allocator     [2] implements Rounds

### PBXCalls: what the exchange promises

Each operation of `pbx.c` is one indivisible step on `line` (the state of every
extension, or `"absent"`) and `peer` (whom its opponent pointer leads to).
`CallsAreSymmetric` and `PartyIsStable` say what a call is.

### PBX: the exchange as the code runs it

One thread per connection, named by the descriptor, which is also the extension.
A step ends where the code may have to wait: at a `P`, or at an `fflush` to a client
that may not read.  A `V` never waits and belongs to the step it follows.

| code | TLA+ |
|---|---|
| `pbx->extensions`, `pbx->mutex`, `pbx->swap` | `extensions`, `mutex`, `swap` (semaphores as numbers) |
| `malloc`/`free` of a TU | `allocated`; addresses are numbers because `reorder_mutex` compares them, and an address may be returned again |
| `tu->state`, `opponent`, `fd`, `mutex` | `state`, `opponent`, `fd`, `lock` |
| locals of the service thread and of the operation | `client`, `cmd`, `ext`, `other`, and `pc` |
| the last line written to a client | `told`; `Line(a)` is what `write_message` would print |
| a use of freed memory (undefined behaviour) | `fault`: the step is recorded and the program stops |

Each operation is a path of steps: `Receive` (and, for dial, `ReceiveDial`, which waits for
`pbx->mutex`, and `LockSwap`), then `PickupIdle`/`PickupRinging`/`Hangup`/`DialTone`/`DialOther`/`Chat`,
which take the thread's own mutex and decide whether a second TU is involved; `LockPeer` and `LockAgain`
are `reorder_mutex`; then the `...Act`/`Dial...` step changes the states; then
`NotifySelf`, `NotifyPeer` or `NotifyOnly` write to the clients, release the semaphores and return.
`Touched(t)` lists the pointers the next step of `t` follows, so that every
step whose pointers lead to freed memory is a `UseFreed` step instead.

`WaitsFor(t, u)` says that the next step of `t` waits for a semaphore that `u` holds, and `NoCircularWait` that any
threads have one among them that waits for none of the others.

### PBXServer: main thread and shutdown

`main.c`, the SIGHUP handler, the life of a service thread and the two halves
of `pbx_shutdown`.  A thread is *started*, *serving*, *hungup* (it has seen EOF
and called `tu_hangup`), in *unregister* (its entry is cleared and it still has
to release `pbx->mutex`) or gone.  The scan of the table reads one entry per step
because the code reads it without the mutex.

### Polya: master, workers, signals and pipes

`states`, `problems`, `idle`, `worker_alive` and `aborted` are the master's variables;
`current_problem` and `problems_remaining` the problem source's; `toWorker` and
`toMaster` the pipes; `proc` and `status` the kernel's view of a child and what
`waitpid` has to report of it (the most recent change only); `sigchld`, `hup` and
`term` pending signals, which are merged when they come twice; `at`, `canceledp` and
`job` the worker.  The master blocks SIGCHLD outside `sigsuspend`, so that handler
and loop alternate: `Suspend`, then `Reap` for one child at a time, then `Return`,
then per worker `Collect`, `Assign`, `Idle` or `Skip`.  One iteration of the loop for one worker is one
step.

`Rounds` is what the master promises.  A problem is given to workers one after the other, who may each find a
solution; one solution wins, the round ends for all of them, and the next problem's begins.  `Polya` implements
it (`ImplementsRounds`): the team of a round are the workers that the master keeps a problem for (`Team`), and
the finders those of them whose solution is in the pipe (`Finders`).  That a result is posted for another problem than it
answers, that a problem is skipped or solved twice, or that a worker remains in a round that is over, would be no step of `Rounds`.

### Tester: the client simulator

`tester.c` at work on the exchange of PBXCalls, which `PBX` implements.  `toServer` and `toClient` are the two
streams of a connection, `tester` has the simulator's variables, and `NextStates` is its table
`next_states`: the states that answer a command, and those that a notification which crossed the command may
bring.  `Serve` is one turn of the service thread, with the operation of PBXCalls and the lines
it tells; `ReadAnswer`, `ReadOther` and `ReadChat` are what the simulator makes of a line.

### Reader and Miner

`Reader` is `read_message` of `server.c`, one character or a carriage return with the
character after it per step.  `buffer` is what was stored, `len` and `countlen` are the code's, and
`moved` says that `realloc` has moved the buffer while `ptr` still leads to the old one.  A carriage return takes
the character after it along (`ReadReturn`); every other character is a step of its own (`ReadChar`).

`Miner` is the loop of `crypto_miner.c`: variants (`VaryNonce`), the counter over the bytes of a nonce
(`UpdateNonce`, whose carry runs up to `CarryEnds`), cancellation, and a hash that is external: every function from nonces to leading zeros that
the configuration allows.  What the master does with the workers is in `Polya`.

### Allocator and Sfmm: the allocator

`Allocator` is what a client sees: `payload` has the length of each payload in use by its place, and a step allocates, releases,
shortens or moves one and touches no other.  `Sfmm` implements it (`ImplementsAllocator`), where
`Payload` takes the lengths from the headers of the blocks.

Addresses and sizes are those of the code.  `hd[b]` and `ft[b]` are the header of a block and the footer
in front of it; `fl` has the ten lists.  Every call of the library is one action, `sf_malloc`, `sf_memalign`, `sf_free`
or `sf_realloc`; only the search of `sf_malloc`, which begins again after each page (`sfmm.c:187, 225`), is taken in
steps: `call` keeps what was asked, and `SearchAgain` goes on with it.  `live` has the blocks that clients own.
The functions of `sfmm.c` are operators from a heap to a heap: `RemoveBlock`, `FileBlock` and `AddBlock` with `Coalesce`,
`Split`, `NewPage`, `Malloc`, `Free`, `Move` (`sf_realloc` to a larger block), `Memalign`, `Valid` (`checkValid`).

`add_block` and `coalesce` call each other.  The second call of `add_block` finds no free neighbour, because two free blocks
never touch, and so `Coalesce` ends with `FileBlock`, under a `CASE` that has no value should there be one: TLC would
stop there, and the proof shows that it never comes to that.  In the same way `Free`, which the library calls itself,
has a value only where `checkValid` accepts the block.  Words that belong to no block any more are forgotten by the
operator that makes them so, so that a read of a stale header or footer is an error as well.

`SfmmAssumption` bounds what clients may ask for, and `NoSizeWraps`, a hypothesis of `PayloadsAreKept` only, bounds it a
little further: see finding 7 and *Facts met* in section 5.  `RegionsAreLargeEnough` is
what `sfmm.h` promises without such a bound.  An alignment is a power of two from
2^6 to 2^30, the greatest that TLC's integers hold.

### Sequitur, Utf8 and Comdec

`Sequitur` has the SYMBOL structures with every link, the stack of recycled symbols, reference counts and the
open-addressed table of digrams with its tombstones; `JoinSymbols` ... `CheckDigram` are the functions of
`sequitur.c`, mutually recursive as there.  Of `rules.c` only the order of rules is kept.
`Utf8` has the markers, and the values between them as bytes: `Utf8` is `convert_utf8` and `Convert` reads one back.
`Comdec` is `compress`, byte by byte (`ReadByte`, `EndOfText`), and `decompress`, value by value
(`Decode`), of a transmission that may end anywhere (`Cut`).  The history variable `sent` keeps the bytes that each block
was made of: `BlocksAreRestored` compares them with what is decompressed, and `TextIsRestored` the text itself.
A NULL that the code follows ends the program (`aborted`, `"crashed"`).

### Inodes and Vtree

`Inodes` is `h_enter`: the tables per device, the cached `tablep`, and buckets whose index is incremented
before the store.  `Vtree` is the walk of the `MEMORY_BASED` build: `stack` has one activation of `down` per
directory, in its phases `list` (readdir), `count` (`get_data(.., FALSE)`) and `descend`; `stb` and the
counters `sub_dirs` are shared by all of them, as in the code.  `FileSystem` says which inputs the walk may be given:
any finite file system, with links and loops, in which no directory has a name twice.  `FilesCountOnce` says of every
step whether it counts a file: `Seen` has the files that are in the tables, whatever device, bucket and place they are in.
`MCVtree` adds the totals that a walk should
come to, computed from the file system by recursion, and the file systems and options for TLC.

### MCProcesses and MCPrograms

`MCProcesses` checks PBXCalls, PBX, PBXServer and Polya, each by itself, where fairness and no symmetry is needed: its first state
chooses a `system`, whose specification the behaviour follows while the variables of the others keep their first values, and
each of the fairness assumptions speaks of the behaviours of its own system.  The safety of PBX, which takes three clients, is checked
with symmetry in `MCPBX`.

The modules of the second group are independent of each other; `MCPrograms` checks them in one run: it extends those
that theorems are about, so that TLC evaluates their assumptions, and instantiates `Comdec`.  Its first state
chooses a `program` in the same way.  It also holds the hash functions for TLC.

### Proofs

`PBXCallsProofs`, `PBXProofs`, `PBXCallsRefinement` (which extends `PBXProofs`), `PBXServerProofs`, `PolyaProofs`,
`TesterProofs`, `ProgramsProofs` and `SfmmProofs`; see section 4.  The definitions marked
*Mutant* in the comments are not part of the specifications: each is a form
that a plausible slip would give to the definition that follows it, and shows
that the property it is paired with in `PROJECT.json` depends on the right form.

## 3. Runs

| run | instance | states | shows |
|---|---|---|---|
| `processes` | see below | about 68 000 | the properties of PBXCalls, PBXServer and Polya, and `HolderFinishes` of PBX, under fairness |
| `pbx` | 3 valid descriptors, symmetric, one that is refused, 3 addresses | about 366 000 | `LockDiscipline`, `NoCircularWait`, `DecisionHolds`, `ClientIsUpToDate`, `FaultNeedsOrphan`, and `ImplementsCalls`: PBX implements PBXCalls |
| `programs` | see below | about 519 000 | the properties of Sfmm, Comdec, Vtree, Miner, Reader and Tester |
| `pbx_free` | 2 valid descriptors and one that is refused | - | `NoUseAfterFree` is violated (finding 1) |
| `pbxserver_sighup` | 3 descriptors | - | `SighupStartsShutdown` is violated (finding 2) |
| `pbxserver_free` | 3 descriptors | - | `NoUseOfFreedPbx` is violated (finding 3) |
| `polya_killed` | 2 workers, 1 problem, one killed | - | `MasterExits` is violated (finding 4) |
| `polya_cancel` | 2 workers, 2 problems | - | `CancelIsCurrent` is violated (finding 5) |
| `sequitur_crash` | 10 bytes of two kinds, the table size of the code | - | `CompressReturns` is violated (finding 6) |
| `sfmm_wrap` | sizes 56 and 65530, `Word` 2^16 | - | `RegionsAreLargeEnough` is violated (finding 7) |
| `comdec_loss` | 4 bytes in blocks of 2 | - | `TextIsRestored` is violated (finding 8) |
| `vtree_keys` | the file systems of `programs`, buckets that grow by 2 | - | `KeysFit` is violated (finding 9) |

What `processes` checks, by system:

| system | instance | properties |
|---|---|---|
| PBXCalls | 3 extensions | `CallsAreSymmetric`, `PartyIsStable` |
| PBX | 2 valid descriptors and one that is refused | `HolderFinishes`: who has `pbx->swap` completes its operation |
| PBXServer | 3 descriptors | `ServerTypeOK`, `FreedAfterService`, `ShutdownEnds`, `HeardSighup` |
| Polya | 2 workers, 2 problems, at most one killed | `PolyaTypeOK`, `NoStaleProblem`, `ResultIsAwaited`, `IdleIsStopped`, `SuccessMeansSolved`, `ImplementsRounds`: Polya implements Rounds; `MasterFinishes` and `PolyaSolves` (`ExitsUnlessKilled` and `ProblemsAreSolved` of Polya) |

What `programs` checks, by program:

| program | instance | properties |
|---|---|---|
| Sfmm | 2 pages, 2 live allocations, sizes from 0 to more than the heap holds, a legal and an illegal alignment | `HeapIsTiled`, `FreeBlocksAreListed`, `PayloadsAreKept`, `ValidIsFreed`, `ImplementsAllocator` |
| Comdec | texts of up to 10 bytes of two kinds, in blocks of 2 and 10; a digram table of 11 slots | `GrammarKeepsText`, `RulesAreUsed`, `BlocksAreRestored`, `WholeIsAccepted` |
| Vtree | three file systems, every combination of the options | `CornersAreLast`, `TreesAreTotalled`, `FilesCountOnce` |
| Miner | 2 workers, nonces of 2 bytes with 3 values, every hash | `NoNonceIsSkipped` |
| Reader | a buffer of 4, up to 9 characters of four classes | `LineIsRead`, `FaultNeedsLongLine` |
| Tester | 2 extensions, 2 commands and 3 lines in transit | `TesterIsSatisfied`, `TesterKnowsState` |

`processes` and `polya_killed` turn deadlock checking off because the master really waits for ever after a
worker was killed (finding 4); `programs`, and the runs of its parts that show a violation, because programs end.  `pbx` has it on.

### Bounds

* *PBX*: three clients are the least that let a third party dial one end of a call,
  or dial a TU while its peer hangs up; three addresses let every order of the two
  mutexes occur and let an address be used again.  `Register` stops once a TU is
  *orphaned* (freed while another one points to it): otherwise the dangling pointer
  might lead to a new TU, and no property says anything of that program any more.
  The invariants that hold up to an orphan name it.  A descriptor out of range is refused
  before the others begin (`RefusedFirst`): its thread does nothing else and no other looks at it, so that its place
  among the steps makes no difference; its number may still be dialled.
* *PBXServer*: with three entries the scan can meet an entry before, at and after the
  one that changes.
* *Polya*: two workers let one be cancelled while the other answers, and a killed worker leave another behind;
  with two problems a result can cross the next problem.  `Kills` bounds the workers that are killed.  The
  safety properties are proved for any number of workers and problems.
* *Sfmm*: a payload of 2200 leaves less than that of a page, so that the heap grows, remainders of several classes
  arise, and blocks are merged on both sides; 65000 is more than the heap ever has.  `Word` is 2^16 instead of 2^64; no
  size of `programs` wraps round (`NoSizeWraps`), and the one of `sfmm_wrap` that does stands for those near 2^64.
* *Comdec*: ten bytes are enough for rules within rules, for rules that are expanded and for triples; in a table
  of eleven slots searches collide, wrap round and meet tombstones (the code has 999983 slots, which hides this
  in short texts).  One of the two bytes is coded in two bytes.  Blocks of two make texts of several blocks.
* *Vtree*: of `TreesAreTotalled`, a tree is a file system in which the walk opens each directory once; with -d every file system
  counts whose links lead somewhere.  The file systems have a file under three names, inodes that share a bucket, one number on two devices, an
  unreadable directory, links upwards, and links that lead nowhere.
* *Reader*: a buffer of four is doubled once, and its end can be met, passed and met again.
* *Tester*: with two extensions each command can cross a notification caused by the other party, twice over.

### Fairness

Only weak fairness is assumed.

* `PBX!FairSpec`: a thread that can run an operation's step does; this includes that a
  client reads what is written to it (`fflush` would block otherwise, with
  locks held: listed as a hazard).  Nothing is assumed of contended semaphores, and so `HolderFinishes`
  begins where `pbx->swap` has been taken; that no thread starves before that
  point is not promised by the code.
* `PBXServer!ServerFairSpec`: the main thread and the service threads run, and a connection that
  was shut down yields EOF.  Clients need not connect or disconnect and signals need not come.
* `Polya!PolyaFairSpec`: the master and each worker run, and an attempt ends with a solution or is cancelled.

The sequential programs are checked for safety only.

## 4. Proofs

All of these are checked by TLAPS for any number of threads, extensions, addresses,
workers, problems, pages and allocations, and for every file system, buffer and nonce, from the modules' named assumptions on
their constants only: for example `AddrAssumption` (addresses are positive numbers), `ReaderAssumption` and
`MinerAssumption` (sizes are positive), `VtreeAssumption` (`Deepest` is a number, and what a walk is given is a
file system), and `SfmmAssumption` (no size is rounded up to 0).  `ClientsKeepPayloads` has one hypothesis more,
`NoSizeWraps`.

* `SymmetricCalls`, `StableParty` (PBXCallsProofs).  `CallsAreSymmetric` is inductive
  together with the types; stability follows from it, because a hangup clears the
  two pointers that lead to each other.
* `TypeCorrect`, `Locks`, `Decisions`, `OnlyOrphansFault` (PBXProofs): types and
  binary semaphores, `LockDiscipline`, `DecisionHolds` and `FaultNeedsOrphan`.
* `NoDeadlock` (PBXProofs): `NoCircularWait`.
* `ClientsAreTold` (PBXProofs): `ClientIsUpToDate`.
* `CallsAreImplemented` (PBXCallsRefinement): `ImplementsCalls`, the refinement of PBXCalls.
* `TypeCorrect`, `FreedAfter` (PBXServerProofs): types and `FreedAfterService`.
* `TypeCorrect`, `NoPointerIsStale`, `ResultsAreAwaited`, `IdleWorkersAreStopped`,
  `SuccessIsEarned` (PolyaProofs): types and every safety invariant of Polya that the run `processes` checks.
* `RoundsAreImplemented` (PolyaProofs): `ImplementsRounds`, the refinement of Rounds.
* `TesterKnows`, `TesterSatisfied` (TesterProofs): `TesterKnowsState` and `TesterIsSatisfied`.
* `CornersAreDrawn` (ProgramsProofs): `CornersAreLast` of the directory walk.
* `FilesAreCountedOnce` (ProgramsProofs): `FilesCountOnce`, what each step of the walk counts.
* `ValuesAreReadBack`, `ValuesAreIndexes` (ProgramsProofs): what `convert` makes of what `convert_utf8` wrote, and of any bytes.
* `LineIsAlwaysRead`, `ShortLinesAreSafe` (ProgramsProofs): `LineIsRead` and `FaultNeedsLongLine` of the reader.
* `NoncesAreSearched` (ProgramsProofs): `NoNonceIsSkipped` of the miner.
* `TagsAgree`, `ListsAreFreeBlocks`, `ClientsKeepPayloads`, `FreeNeverAborts` (SfmmProofs): `HeapIsTiled`,
  `FreeBlocksAreListed`, `PayloadsAreKept` and `ValidIsFreed` of the allocator.
* `PromiseIsKept` (SfmmProofs): `ImplementsAllocator`, the refinement of Allocator.

**PBX.**  The four theorems of PBXProofs rest on one inductive invariant, `IInv`.  The types are not
inductive: that a `V` finds its semaphore at 0 needs `LockDiscipline`, which
says who holds it.  `LockDiscipline` is not inductive: `reorder_mutex` lets go of the
thread's own mutex, and that nobody takes it meanwhile is `WindowInv` (only the owner
of `pbx->swap` may take the mutex of a TU in use); that a new TU's mutex is held
by nobody needs pointers to be live, which is `ThreadInv`, `HeapInv` and `NoDangling`.  Which
pointers are live depends on how TUs are linked: `LinkInv` (two TUs that point to each
other are ends of one call), `CutInv` (a TU that has left its call keeps its pointer
only while the hangup lasts) and `PhaseInv` (what a thread decided, and what it has done,
when it acts and notifies).  Each conjunct has its own lemma (`TypeNext`,
`ThreadNext`, ..., `FaultNext`); `Inductive` and PTL join them.

**No circular wait.**  The semaphores are taken in the order `pbx->mutex`, `pbx->swap`, units, but of the units a thread may hold
one and wait for another, in the order of addresses or, where `reorder_mutex` had to let go, in the other.  What
saves it is `pbx->swap`: whoever takes a second unit has it, and so whoever holds a unit that another thread
waits for is past its last `P` (`WaitsForActor`).  Of any threads one therefore waits for none of the others: one that acts
or writes, if there is one; else one that waits for a unit; else one that waits for `pbx->swap` with `pbx->mutex` held; else any.
`LockDiscipline` and `ThreadInv` are what this needs.  That nobody waits for ever does not follow (see *Fairness*).

**Notifications.**  `ToldInv` says the same as `ClientIsUpToDate` of every TU except those that the
holder of their mutex still has to report (`Pending`).  Given `IInv`, a step changes the line of a TU only where
it makes that TU pending, and no pending TU is released before it is reported.

**Refinement.**  An operation of PBXCalls happens where the code changes the states: at `PickupIdle`, at the
`...Act` and `Dial...` steps, and at `Register` and `Unregister`; every other step is not seen (`StepMaps`).  Cutting the
pointers is not seen either, because both ends have left their call by then (`PhaseInv`).  Two more
invariants are needed: an extension that `tu_dial` found empty stays empty while it has `pbx->mutex` (`AbsentInv`),
and a TU between its last hangup and its unregistration is on hook, or rung (`ByeInv`); one that is rung is
pointed to, and its unregistration orphans it.

**Server.**  `FreedAfterService` says something only at the end of `pbx_shutdown`, and so its invariant
follows the scan: `ScanInv` says what holds of the entries already passed, `TableInv`
how an entry and its thread agree, and `AcceptInv` what the main thread can still do.

**Polya.**  A worker passes through phases that the code never names: *Started*, *Waiting*,
*Assigned*, *Solving*, *Answered*, *Finished*, *Doomed* (killed, and the master does not know yet) and *Dead*.
Each phase fixes together what the master believes (`states`, `problems`), what the kernel holds (`proc`,
`status`, signals) and what is in the two pipes; `PhaseInv` says that every worker is in one of them.
The properties then read off the phases.  `SuccessMeansSolved` also needs `CountInv`: `worker_alive` and
`aborted` are tied to the number of workers in the states they count, by cardinalities of finite sets.

**Rounds.**  A step of `Polya` is mapped by what it does to the current problem, the team, the solutions in the pipes
and the killed workers; most steps change none of these (`RoundsNext`).  `Assign` begins a round or joins one, a
solution that is written is `Find`, `Collect` of a solution is `Win`, the death of a worker is `Lose`, and the `Return`
with no worker left is `End`.  `IInv` says too little in one place: that a worker
joins without a solution needs the pipe of an idle worker to be empty, which is `IdleInv`; it holds because the
state `IDLE` is entered where the pipe is read, or at the first stop.

**Tester.**  `TesterKnowsState` speaks of a simulator with nothing left to read.  The invariant `WillKnow`
follows the lines in transit: the last of them that is a state, or what the simulator holds
for its state when there is none, is the state of the unit (`Current`).  An operation that changes a
state appends it, a chat does not matter, and a line that is read becomes what the simulator holds.

`TesterIsSatisfied` speaks of the line the simulator reads next, and is far from inductive: whether that line is
allowed depends on which command was sent before, on what the exchange did meanwhile, and on what the simulator has
come to believe since.  The invariant `Understands` says it of all the lines in transit at once.  `Reads` takes them
for a chain of states from the one the simulator holds to that of its unit, in which each line was *unasked* for (a phone
that rings, a caller that gives up, a chat) or, at one place, answers the last command as the table allows.
`Agrees` says that there is such a chain, with no answer in it while a command is still to be served; `Expecting` that
the simulator expects what the table says from its present state; and `Outstanding` which commands may be in
transit.  Three facts make it inductive: an operation tells its own party an answer (`Answers`) and the others
unasked lines (`OthersChange`); both lengthen a chain (`ReadsAppend`); and what is read shortens it, where an unasked line that is
taken for the answer puts the simulator a command ahead, but only on the hook, where every answer is expected
(`HookAnswers`, `UnaskedAnswer`).  `NoSelf` (no unit is in a call with itself) is needed because a unit that called itself would be told
the line of the other party too.

**Directory walk.**  `CornersAreLast` relates a counter, taken when a directory is listed, to what is left of the list much later, after walks
below it that use the same counters.  The invariant `CInv` says of every activation of `down`, by its phase, what its
list and its counter are (`FrameOK`), and that counters below the present depth are clear (`StackOK`).  In the phase
`list` the counter is 0 and what has been kept are directories other than "."; with `-o` the entries are put in another order, and
`SortedEntries` shows that `Sorted` only moves them, and into the strict order of their names: since names differ, the
number of smaller names is an injection from the entries into as many ranks, and so reaches each of them.  `Apart` keeps what is listed and what is still to read disjoint, so that the names remain
different.  The property is only about counters the array has: `sub_dirs` has 256 entries, and nothing stops a walk
deeper than that (`vtree.c:448` would write past it).

`TablesOK` gives the tables their shape and says of each bucket that what is filled does not exceed its length;
`EnterOK` follows `h_enter` through `Locate` and `Store`.  (That the last key lies inside the length is not so: finding 9.)
`FilesCountOnce` needs that a search of the tables finds a file exactly when it was stored.  The search looks at one
table and one bucket only, and so `Kept` says that there is one table per device, that a key is in the bucket of its remainder,
and that the first place of a bucket, which is never stored to, has no key.  `SeenIsHas` then equates `Seen`, which
looks everywhere, with what `h_enter` finds; `LocateKeeps`, `StoreKeeps` and `EnterKeeps` follow a call, also where a
bucket or the list of tables grows.  `FInv` adds that in a directory `stb` describes a node that some `stat` has
found (`StbStaysFound`): after a `stat` that failed the file before is tallied again, and that one is in
the tables.

**Values.**  `ValuesAreReadBack` writes a value to the base of 64 (`Digits`), takes the four lengths one by one, and shows
that `numBytes` recognises the first byte and that `convert` puts the digits together; that no first byte is a marker
from `SOT` to `EOR` is why a decoder can tell values and markers apart.  `ValuesAreIndexes` starts from
the bytes, which may come from anywhere and end anywhere: what is not refused (`ConvertFails`) is below 2^21, the size of `rule_map`,
although four bytes may say more than 0x10FFFF.  Sets and sums have names there (`Later`, `OfFour`, ...) only so that
the leaves can keep them folded.

**Reader.**  Neither property is inductive alone, because whether a store misses depends on how often the buffer was
doubled and where its end was met.  `RInv` adds that, while the reader reads, `countlen` is the number of characters read and is
not past `len`, which is never less than `Initial`, and that nothing has moved; `RoomIsMade` is the case
distinction: after the test there is room for two characters, unless the end was passed unseen or `realloc` has
moved the buffer.

**Miner.**  `NoNonceIsSkipped` is nearly inductive once the nonces are linearly ordered (`PrecedesTotal`,
`PrecedesTransitive`, `PrecedesIrreflexive`); `MInv` adds the types.  What the proof is about is `UpdateNonceIsNext`: for nonces of any length in
any base, the counter with its carries yields the least nonce after the present one, and reports the end only after the
greatest.  The last byte that differs, and the byte where the carry ends, exist by well-foundedness
(`GreatestExists`, `LeastExists`).

**Allocator.**  Between two steps the heap is `Fine`: `Row` (headers from the prologue to the epilogue, each block as long
as the way to the next, the bit of each header says whether the block before it is in use), `Footed` (free blocks have
a footer equal to their header), `Listed` (the lists hold the free blocks, and no block is in two places, `Chains`) and `Calm`
(no two free blocks touch).  Inside a call none of this holds for long, and the proof follows the heap through it.

* Facts about the parts come first: what is put in front of a list or taken out of one (`Enlisted`, `Removed`), and four
  ways to change a row of headers (`Retagged`: bits only; `Merged`: blocks become one; `Cut`: one becomes two; `Grown`: the epilogue
  becomes a block).  `RemoveFields`, `FileFields` and `GatherFields` say what the functions of `sfmm.c` do to each field.
* `add_block` is called with a block that is in use, or that is free and not listed (`Intact`: the heap is fine except for
  this block, whose neighbours may be free).  `Filing` shows what is left when its first half has filed the block; `Neighbours` that
  the footer it reads is one; `Merging` that the merged block has no free neighbour, so that the recursion ends
  (`Settled`, `Coalescing`); and `Adding` that the heap is fine again, with the same blocks in use less this one.
* The library's own operations follow: `Removing`, `Splitting`, `Growing`, then the calls, `Mallocing`, `Freeing`, `Moving` and
  `Aligning`.  `Gained` says what a call may do: put one block in use, and another out of use, and leave
  the sizes of the others alone.  In `Aligning` the front of a block is split off and freed while its rest is taken back: `Skipped`,
  `FrontPart` and `Enough` are the arithmetic of that.
* `SInv` is the invariant: there is no heap yet, or it is fine; the blocks in use are those handed out; each is as large
  and as aligned as was asked (`Owed`); and a realloc that waits for the heap to grow still needs a longer block (`Asked`).  The
  four properties are read off it.
* The refinement needs what each step changes as well: `Changed` is proved together with `SInv` for every action, and
  `ChangedIsPromised` maps each of its cases to a step of Allocator.  That old and new block of a realloc
  do not overlap is `BlocksAreBeside`, in the heap between `sf_malloc` and `sf_free`, where both are in use.

The proof holds for every list discipline: which list a block is filed in is used nowhere, only that it is in one.  The
theorems therefore say nothing of the lists that `sfmm.h` describes, and the lists that a block is put in by mistake (section 5) do not contradict them.
`Owed` says that a block is as large as was asked unless size, alignment and 128 together reach `Word`; `NoSizeWraps` is what
excludes that in `ClientsKeepPayloads`.

Only model-checked: liveness (`HolderFinishes`, `ShutdownEnds`, `HeardSighup`, `MasterFinishes`,
`PolyaSolves`), which is out of the prover's reach; and `GrammarKeepsText`, `RulesAreUsed`, `BlocksAreRestored` and
`WholeIsAccepted` of Comdec and `TreesAreTotalled` of the walk: they are stated by recursion over the data, or about the mutually
recursive functions of `sequitur.c`, which the prover can neither unfold nor do induction over.  Every other
property of a passing run is the property of a theorem.

## 5. Findings

1. `server.c:35` - a TU dialled between `tu_hangup` and `pbx_unregister` is freed
   while its caller points to it (`pbx_free`).
2. `main.c:64` - a SIGHUP between the test of `finished` and `accept()` is acted
   upon only after the next connection (`pbxserver_sighup`).
3. `pbx.c:63` - `pbx` is freed while a thread still has to release `pbx->mutex`, or
   has been started with -1 and has yet to look at it (`pbxserver_free`).
4. `master.c:95` - once a worker was killed, `idle` never reaches the number of
   workers; the others are not terminated and the master never exits (`polya_killed`).
5. `worker.c:32` - a SIGHUP meant for an attempt that was just answered cancels the
   next one (`polya_cancel`).  `ProblemsAreSolved` shows that the problem is given out again.

6. `sequitur.c:60` - where the middle one of three equal symbols is joined to another neighbour, its digram is put
   back just before it is taken apart.  The entry left behind is found for the next digram there, which thus matches itself
   and is replaced twice: `compress` follows a NULL pointer (`sequitur_crash`).
7. `sfmm.c:194` - `size + 8` wraps round for a size near the maximum, and a block of 64 bytes is returned where `sfmm.h:179-181`
   promises a region of the requested size, or NULL and ENOMEM (`sfmm_wrap`).
8. `comdec.c:147` - the byte that is read when a block is full is dropped; each block should represent exactly `bsize` bytes of the
   input (`comdec.c:106-118`; `comdec_loss`).
9. `hash.c:132` - the index is incremented before the store: the last key of a full bucket lies one past the space allocated
   (`hash.h:14-15`; `vtree_keys`).

Other places where the models follow the code and a document says something else; no property of a run speaks of them:

* `sfmm.c:113` files the remainder of a split under the class of the request, `sfmm.h:143-147` under that of the block: a search may pass
  over it, or meet blocks that are too small.  `sfmm.c:243` subtracts a size from a pointer to `sf_block`, which the compiler scales
  by 32: a free block that is not the last of the heap may be filed as the wilderness block, against `sfmm.h:147-149`, and the last one may not be, so that
  the heap grows a page earlier than necessary.  No block is lost by either.
* `vtree.c:509`: a directory that is met twice is counted twice without `-d`, and is counted with `-i`.  `hw2_tests.c:161-163` says "one
  inode for each distinct file or directory", and `vtree.1:21-22` "excluding directories".  `TreesAreTotalled` speaks of sizes, not
  of inodes, and without `-d` only of trees.
* `vtree.c:328`: with `-v` nothing is totalled; `vtree.1:42-43` excludes "any totals other than the final totals".  `TreesAreTotalled` speaks of walks without `-v`.
* `vtree.c:480`: the result of `stat` is not looked at; with `-d` a link that leads nowhere adds the size of what was met before
  it, though `get_data` is to "get the aged data on a file whose name is given" (`vtree.c:491`).  `FilesCountOnce` shows that without
  `-d` no file is counted by it; `CornersAreLast` says nothing of a file system that has such a link, and `TreesAreTotalled` nothing with `-d`.

Facts met while modelling that the properties take into account:

* `sfmm.c:89, 194, 197`: a size from 2^64 - 71 to 2^64 - 8 is rounded up to 0; `split` then makes a block of size 0, whose
  remainder lies on it.  `sfmm.c:297`: where `size + align + 64` wraps round, the block found can be shorter than the way to the next aligned
  address.  These are the same error as finding 7, with a heap that is destroyed at once; `SfmmAssumption` leaves them out.
* `server.c:81`: the byte 255 passes for the end of input.  `server.c:72-102`: on a line as long as the buffer a store may
  miss it.
* `crypto_miner.c:250-251, 323-341`: a worker searches from the start of its variant to the last nonce, so that
  the searches overlap; a problem with no solution is handed out again and again.
* `tester.c`: a notification `ON_HOOK` that crossed a command may be taken for its answer; the simulator then is a
  command ahead.  `TesterIsSatisfied` shows that its table allows for this.

## 6. What is not modelled

* Input and output errors, parsing of arguments (`validargs`), logging, and the layout of messages and of vtree's tree.
* `csapp.c` (wrappers of system calls), descriptors as numbers near the table's end, and dialled numbers
  outside it.
* In hw4: `fork` and `execl` (the initial state has every worker forked); partial reads of a pipe;
  the event functions, which are in a binary library; the choice of problem types.
* In hw3: the contents of payloads, statistics, and pointers the caller does not own.
* In hw1: transmissions that are neither whole nor a prefix of a whole one.
* In hw2: `direct.c` (System III only), directories that can be opened but not entered, failing
  allocations, more than 50 devices, `-l`.
* hw0: nothing to model.

## 7. Plan

1. *Done*: all modules of section 2 with their runs; the proofs of every safety property that does not speak of recursive
   data, and of the three refinements (PBX of PBXCalls, Polya of Rounds, Sfmm of Allocator).
2. *Proofs* that would extend this: what can be said of Sequitur's links without its recursion; the totals of a walk
   from `FilesCountOnce`.
3. *Extensions*: descriptors as numbers in PBX.
