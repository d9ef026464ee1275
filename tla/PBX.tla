-------------------------------- MODULE PBX --------------------------------
(***************************************************************************)
(* The telephone exchange of hw5: pbx.c with the service threads of        *)
(* server.c that call it.  One thread serves one connection; a thread is   *)
(* named by the file descriptor of its connection, which is also the       *)
(* extension number.  Each step of a thread ends where it may wait for a   *)
(* semaphore (P) or for a client that does not read (fflush); a V, which   *)
(* never waits, belongs to the step it follows.                            *)
(*                                                                         *)
(* TU objects live on the heap: malloc may return the address of a TU      *)
(* that was freed, and reorder_mutex compares addresses, so an address is  *)
(* a number.  A step that would dereference a pointer to freed memory has  *)
(* no defined outcome: the model records it in `fault' and stops.          *)
(***************************************************************************)
EXTENDS Integers

CONSTANTS
    Fd,        \* the file descriptors accept() may return
    Valid,     \* those pbx_register admits as an extension (pbx.c:69)
    NoFd,      \* "no descriptor"
    Addr       \* the addresses malloc() may return

ASSUME FdAssumption == Valid \subseteq Fd /\ NoFd \notin Fd
ASSUME AddrAssumption == Addr \subseteq Nat \ {0}

VARIABLES
    extensions,  \* pbx->extensions
    mutex,       \* pbx->mutex, a semaphore
    swap,        \* pbx->swap, a semaphore
    allocated,   \* the addresses that hold a TU now
    state,       \* state[a]:    tu->state
    opponent,    \* opponent[a]: tu->opponent
    fd,          \* fd[a]:       tu->fd
    lock,        \* lock[a]:     tu->mutex, a semaphore
    pc,          \* pc[t]:       where thread t is
    cmd,         \* cmd[t]:      the operation it executes
    ext,         \* ext[t]:      the extension it dials
    client,      \* client[t]:   its own TU (server.c:23)
    other,       \* other[t]:    the local variable `other' of the operation
    told,        \* told[x]:     the last notification written to x's client
    orphaned,    \* history: a TU was freed while another one pointed to it
    fault        \* history: freed memory was dereferenced

pbxVars    == <<extensions, mutex, swap>>
heapVars   == <<allocated, state, opponent, fd, lock>>
threadVars == <<pc, cmd, ext, client, other>>
vars == <<pbxVars, heapVars, threadVars, told, orphaned, fault>>

NULL == 0

States == {"ON_HOOK", "RINGING", "DIAL_TONE", "RING_BACK", "BUSY_SIGNAL",
           "CONNECTED", "ERROR"}

InCall == {"RINGING", "RING_BACK", "CONNECTED"}

Places == {"closed", "refused", "welcome", "ready", "swap",
           "self", "chat", "peer", "again", "act", "notify", "notifyPeer",
           "unregister"}

\* "bye" is the hangup of a service thread that has read EOF.
Hangups == {"hangup", "bye"}
Commands == {"pickup", "hangup", "dial", "chat", "bye"}

NoLine == [state |-> "none", num |-> NoFd]

\* The line write_message prints for TU a: the name of its state, with its
\* own extension when on hook and the opponent's when connected.
Line(a) == [state |-> state[a],
            num   |-> CASE state[a] = "ON_HOOK"   -> fd[a]
                        [] state[a] = "CONNECTED" -> fd[opponent[a]]
                        [] OTHER                  -> NoFd]

Init ==
    /\ extensions = [x \in Fd |-> NULL]
    /\ mutex = 1 /\ swap = 1
    /\ allocated = {}
    /\ state = [a \in Addr |-> "ON_HOOK"]
    /\ opponent = [a \in Addr |-> NULL]
    /\ fd = [a \in Addr |-> NoFd]
    /\ lock = [a \in Addr |-> 1]
    /\ pc = [t \in Fd |-> "closed"]
    /\ cmd = [t \in Fd |-> "none"]
    /\ ext = [t \in Fd |-> NoFd]
    /\ client = [t \in Fd |-> NULL]
    /\ other = [t \in Fd |-> NULL]
    /\ told = [x \in Fd |-> NoLine]
    /\ orphaned = FALSE
    /\ fault = FALSE

-----------------------------------------------------------------------------
(***************************************************************************)
(* Steps of a thread.                                                      *)
(***************************************************************************)

\* The opponent pointer write_message follows for TU a, if any.
Printed(a) == IF state[a] = "CONNECTED" THEN {opponent[a]} ELSE {}

\* The pointers the next step of thread t dereferences.
Touched(t) ==
    LET a == client[t]
        b == other[t]
    IN CASE pc[t] \in {"self", "again", "unregister"} -> {a}
         [] pc[t] = "peer" -> {a, b}
         [] pc[t] = "act" ->
              CASE cmd[t] = "pickup"  -> {a, b}
                [] cmd[t] = "dial"    -> {a} \cup ({b} \ {NULL})
                [] cmd[t] = "chat"    -> {a, opponent[a]}
                [] OTHER -> {a} \cup (IF state[a] \in InCall THEN {b} ELSE {})
         [] pc[t] \in {"welcome", "chat", "notify"} -> {a} \cup Printed(a)
         [] pc[t] = "notifyPeer" ->
              {a, b} \cup (IF cmd[t] \in Hangups THEN {} ELSE Printed(b))
         [] OTHER -> {}

\* Thread t moves from one place to another; what it touches is allocated.
Go(t, from, to) ==
    /\ ~fault
    /\ pc[t] = from
    /\ Touched(t) \subseteq allocated
    /\ pc' = [pc EXCEPT ![t] = to]

\* The thread's next step dereferences freed memory.
UseFreed(t) ==
    /\ ~fault
    /\ ~(Touched(t) \subseteq allocated)
    /\ fault' = TRUE
    /\ UNCHANGED <<pbxVars, heapVars, threadVars, told, orphaned>>

-----------------------------------------------------------------------------
(***************************************************************************)
(* The life of a connection.                                               *)
(***************************************************************************)

\* main() accepts a connection and starts a thread (main.c:64-66), which
\* calls pbx_register; this step ends before the notification, which may wait
\* for the client.
\* Bound: once a TU is orphaned no further TU registers, so that the dangling
\* pointer leads to freed memory and never to a new TU at the same address;
\* no property says anything of what happens in that case.
Register(t) ==
    /\ ~orphaned
    /\ Go(t, "closed", "welcome")
    /\ mutex > 0
    /\ t \in Valid /\ extensions[t] = NULL
    /\ \E a \in Addr \ allocated :
          /\ allocated' = allocated \cup {a}
          /\ state' = [state EXCEPT ![a] = "ON_HOOK"]
          /\ opponent' = [opponent EXCEPT ![a] = NULL]
          /\ fd' = [fd EXCEPT ![a] = t]
          /\ lock' = [lock EXCEPT ![a] = 0]
          /\ extensions' = [extensions EXCEPT ![t] = a]
          /\ client' = [client EXCEPT ![t] = a]
    /\ mutex' = mutex - 1
    /\ UNCHANGED <<swap, cmd, ext, other, told, orphaned, fault>>

\* pbx_register rejects the descriptor; the thread returns without closing
\* the connection (server.c:24-26).
Refuse(t) ==
    /\ Go(t, "closed", "refused")
    /\ mutex > 0
    /\ ~(t \in Valid /\ extensions[t] = NULL)
    /\ UNCHANGED <<pbxVars, heapVars, cmd, ext, client, other, told,
                   orphaned, fault>>

Welcome(t) ==
    LET a == client[t] IN
    /\ Go(t, "welcome", "ready")
    /\ told' = [told EXCEPT ![fd[a]] = Line(a)]
    /\ lock' = [lock EXCEPT ![a] = @ + 1]
    /\ mutex' = mutex + 1
    /\ UNCHANGED <<extensions, swap, allocated, state, opponent, fd,
                   cmd, ext, client, other, orphaned, fault>>

\* The service loop reads EOF or a command that needs no argument, and the
\* operation waits for pbx->swap.
Receive(t, c) ==
    /\ Go(t, "ready", "self")
    /\ swap > 0
    /\ swap' = swap - 1
    /\ cmd' = [cmd EXCEPT ![t] = c]
    /\ UNCHANGED <<extensions, mutex, heapVars, ext, client, other, told,
                   orphaned, fault>>

\* Mutant: tu_dial without P(&pbx->mutex).
ReceiveDialUnlocked(t, x) ==
    /\ Go(t, "ready", "swap")
    /\ cmd' = [cmd EXCEPT ![t] = "dial"]
    /\ ext' = [ext EXCEPT ![t] = x]
    /\ UNCHANGED <<pbxVars, heapVars, client, other, told, orphaned, fault>>

\* It reads `dial x', and tu_dial waits for pbx->mutex first.
ReceiveDial(t, x) ==
    /\ Go(t, "ready", "swap")
    /\ mutex > 0
    /\ mutex' = mutex - 1
    /\ cmd' = [cmd EXCEPT ![t] = "dial"]
    /\ ext' = [ext EXCEPT ![t] = x]
    /\ UNCHANGED <<extensions, swap, heapVars, client, other, told,
                   orphaned, fault>>

\* pbx_unregister: the TU is freed and the descriptor closed, so that
\* accept() may return it again.  No step reads the fields of a freed TU
\* (see Go), so they go back to their initial values.
Unregister(t) ==
    LET a == client[t] IN
    /\ Go(t, "unregister", "closed")
    /\ mutex > 0
    /\ extensions[fd[a]] = a
    /\ allocated' = allocated \ {a}
    /\ state' = [state EXCEPT ![a] = "ON_HOOK"]
    /\ opponent' = [opponent EXCEPT ![a] = NULL]
    /\ fd' = [fd EXCEPT ![a] = NoFd]
    /\ lock' = [lock EXCEPT ![a] = 1]
    /\ extensions' = [extensions EXCEPT ![fd[a]] = NULL]
    /\ orphaned' = (orphaned \/ \E b \in allocated \ {a} : opponent[b] = a)
    /\ told' = [told EXCEPT ![t] = NoLine]
    /\ client' = [client EXCEPT ![t] = NULL]
    /\ UNCHANGED <<mutex, swap, cmd, ext, other, fault>>

-----------------------------------------------------------------------------
(***************************************************************************)
(* Locks.  P(&pbx->swap) is held until the TU mutexes the operation needs  *)
(* are locked.                                                             *)
(***************************************************************************)

\* tu_dial, which has pbx->mutex, takes pbx->swap.
LockSwap(t) ==
    /\ Go(t, "swap", "self")
    /\ swap > 0
    /\ swap' = swap - 1
    /\ UNCHANGED <<extensions, mutex, heapVars, cmd, ext, client, other, told,
                   orphaned, fault>>

\* The operation takes its own mutex and needs no second one.
LockSelf(t, to) ==
    LET a == client[t] IN
    /\ Go(t, "self", to)
    /\ lock[a] > 0
    /\ lock' = [lock EXCEPT ![a] = @ - 1]
    /\ swap' = swap + 1
    /\ other' = [other EXCEPT ![t] = NULL]

\* Mutant: reorder_mutex without the test tu==other.
ReorderOwn(t, from, b) ==
    LET a == client[t] IN
    /\ Go(t, from, IF b = NULL THEN "act" ELSE "peer")
    /\ other' = [other EXCEPT ![t] = b]
    /\ swap' = IF b = NULL THEN swap + 1 ELSE swap
    /\ LET held == IF b = NULL \/ a > b THEN 0 ELSE 1
       IN  lock' = [lock EXCEPT ![a] = held]

\* The operation has locked client[t] and calls reorder_mutex(client[t], b):
\* with no second TU to lock it releases pbx->swap; when the second one has
\* the higher address, the first is released and locked again after it.
Reorder(t, from, b) ==
    LET a == client[t] IN
    /\ Go(t, from, IF b \in {a, NULL} THEN "act" ELSE "peer")
    /\ other' = [other EXCEPT ![t] = b]
    /\ swap' = IF b \in {a, NULL} THEN swap + 1 ELSE swap
    /\ LET held == IF b \in {a, NULL} \/ a > b THEN 0 ELSE 1
       IN  lock' = [lock EXCEPT ![a] = held]

\* Mutant: reorder_mutex releases pbx->swap before it has its own mutex again.
LockPeerEarly(t) ==
    LET a == client[t]
        b == other[t]
    IN
    /\ Go(t, "peer", IF a > b THEN "act" ELSE "again")
    /\ lock[b] > 0
    /\ lock' = [lock EXCEPT ![b] = @ - 1]
    /\ swap' = swap + 1
    /\ UNCHANGED <<extensions, mutex, allocated, state, opponent, fd,
                   cmd, ext, client, other, told, orphaned, fault>>

LockPeer(t) ==
    LET a == client[t]
        b == other[t]
    IN
    /\ Go(t, "peer", IF a > b THEN "act" ELSE "again")
    /\ lock[b] > 0
    /\ lock' = [lock EXCEPT ![b] = @ - 1]
    /\ swap' = IF a > b THEN swap + 1 ELSE swap
    /\ UNCHANGED <<extensions, mutex, allocated, state, opponent, fd,
                   cmd, ext, client, other, told, orphaned, fault>>

LockAgain(t) ==
    LET a == client[t] IN
    /\ Go(t, "again", "act")
    /\ lock[a] > 0
    /\ lock' = [lock EXCEPT ![a] = @ - 1]
    /\ swap' = swap + 1
    /\ UNCHANGED <<extensions, mutex, allocated, state, opponent, fd,
                   cmd, ext, client, other, told, orphaned, fault>>

-----------------------------------------------------------------------------
(***************************************************************************)
(* The operations, from the point where the thread has pbx->swap.          *)
(* other[t] # NULL at "notify" says that a second TU is locked and has to  *)
(* be notified (`changed' in the code).                                    *)
(***************************************************************************)

PickupIdle(t) ==
    LET a == client[t] IN
    /\ LockSelf(t, "notify")
    /\ cmd[t] = "pickup" /\ state[a] # "RINGING"
    /\ state' = IF state[a] = "ON_HOOK" THEN [state EXCEPT ![a] = "DIAL_TONE"]
                                        ELSE state
    /\ UNCHANGED <<extensions, mutex, allocated, opponent, fd,
                   cmd, ext, client, told, orphaned, fault>>

PickupRinging(t) ==
    LET a == client[t] IN
    /\ cmd[t] = "pickup"
    /\ Reorder(t, "self", opponent[a])
    /\ lock[a] > 0 /\ state[a] = "RINGING"
    /\ UNCHANGED <<extensions, mutex, allocated, state, opponent, fd,
                   cmd, ext, client, told, orphaned, fault>>

PickupAct(t) ==
    /\ Go(t, "act", "notify")
    /\ cmd[t] = "pickup"
    /\ state' = [state EXCEPT ![client[t]] = "CONNECTED",
                              ![other[t]] = "CONNECTED"]
    /\ UNCHANGED <<pbxVars, allocated, opponent, fd, lock, cmd, ext, client,
                   other, told, orphaned, fault>>

Hangup(t) ==
    LET a == client[t] IN
    /\ cmd[t] \in Hangups
    /\ Reorder(t, "self", opponent[a])
    /\ lock[a] > 0
    /\ UNCHANGED <<extensions, mutex, allocated, state, opponent, fd,
                   cmd, ext, client, told, orphaned, fault>>

\* Mutant: the cases of the caller and the called party are exchanged.
AfterHangupExchanged(s) == IF s = "RINGING" THEN "ON_HOOK" ELSE "DIAL_TONE"

\* What the state of the other end becomes when a TU in state s hangs up.
AfterHangup(s) == IF s = "RING_BACK" THEN "ON_HOOK" ELSE "DIAL_TONE"

HangupAct(t) ==
    LET a == client[t] IN
    /\ Go(t, "act", "notify")
    /\ cmd[t] \in Hangups
    /\ state' = IF state[a] \in InCall
                THEN [state EXCEPT ![a] = "ON_HOOK",
                                   ![other[t]] = AfterHangup(state[a])]
                ELSE [state EXCEPT ![a] = "ON_HOOK"]
    /\ UNCHANGED <<pbxVars, allocated, opponent, fd, lock, cmd, ext, client,
                   other, told, orphaned, fault>>

DialTone(t) ==
    LET a == client[t] IN
    /\ cmd[t] = "dial"
    /\ Reorder(t, "self", extensions[ext[t]])
    /\ lock[a] > 0 /\ state[a] = "DIAL_TONE"
    /\ ext' = [ext EXCEPT ![t] = NoFd]
    /\ UNCHANGED <<extensions, mutex, allocated, state, opponent, fd,
                   cmd, client, told, orphaned, fault>>

DialOther(t) ==
    /\ LockSelf(t, "notify")
    /\ cmd[t] = "dial" /\ state[client[t]] # "DIAL_TONE"
    /\ ext' = [ext EXCEPT ![t] = NoFd]
    /\ UNCHANGED <<extensions, mutex, allocated, state, opponent, fd,
                   cmd, client, told, orphaned, fault>>

DialNobody(t) ==
    LET a == client[t] IN
    /\ Go(t, "act", "notify")
    /\ cmd[t] = "dial" /\ other[t] = NULL
    /\ state' = [state EXCEPT ![a] = "ERROR"]
    /\ opponent' = [opponent EXCEPT ![a] = NULL]
    /\ UNCHANGED <<pbxVars, allocated, fd, lock, cmd, ext, client, other,
                   told, orphaned, fault>>

DialIdle(t) ==
    LET a == client[t]
        b == other[t]
    IN
    /\ Go(t, "act", "notify")
    /\ cmd[t] = "dial" /\ b # NULL /\ state[b] = "ON_HOOK"
    /\ state' = [state EXCEPT ![a] = "RING_BACK", ![b] = "RINGING"]
    /\ opponent' = [opponent EXCEPT ![a] = b, ![b] = a]
    /\ UNCHANGED <<pbxVars, allocated, fd, lock, cmd, ext, client, other,
                   told, orphaned, fault>>

\* Mutant: tu_dial releases the mutex of `other' without the test tu!=other.
DialBusyTwice(t) ==
    LET a == client[t]
        b == other[t]
    IN
    /\ Go(t, "act", "notify")
    /\ cmd[t] = "dial" /\ b # NULL /\ state[b] # "ON_HOOK"
    /\ lock' = [lock EXCEPT ![b] = @ + 1]
    /\ state' = [state EXCEPT ![a] = "BUSY_SIGNAL"]
    /\ other' = [other EXCEPT ![t] = NULL]
    /\ UNCHANGED <<pbxVars, allocated, opponent, fd, cmd, ext, client,
                   told, orphaned, fault>>

\* Mutant: tu_dial keeps the mutex of a busy `other'.
DialBusyKeeps(t) ==
    /\ Go(t, "act", "notify")
    /\ cmd[t] = "dial" /\ other[t] # NULL /\ state[other[t]] # "ON_HOOK"
    /\ state' = [state EXCEPT ![client[t]] = "BUSY_SIGNAL"]
    /\ other' = [other EXCEPT ![t] = NULL]
    /\ UNCHANGED <<pbxVars, allocated, opponent, fd, lock, cmd, ext, client,
                   told, orphaned, fault>>

\* The dialled TU is released before the caller's state is set; nobody can
\* look at the caller, whose mutex is held, in between.
DialBusy(t) ==
    LET a == client[t]
        b == other[t]
    IN
    /\ Go(t, "act", "notify")
    /\ cmd[t] = "dial" /\ b # NULL /\ state[b] # "ON_HOOK"
    /\ lock' = IF b # a THEN [lock EXCEPT ![b] = @ + 1] ELSE lock
    /\ state' = [state EXCEPT ![a] = "BUSY_SIGNAL"]
    /\ other' = [other EXCEPT ![t] = NULL]
    /\ UNCHANGED <<pbxVars, allocated, opponent, fd, cmd, ext, client,
                   told, orphaned, fault>>

\* tu_chat notifies its own client first, with pbx->swap held.
Chat(t) ==
    LET a == client[t] IN
    /\ Go(t, "self", "chat")
    /\ lock[a] > 0
    /\ cmd[t] = "chat"
    /\ lock' = [lock EXCEPT ![a] = @ - 1]
    /\ UNCHANGED <<pbxVars, allocated, state, opponent, fd, cmd, ext, client,
                   other, told, orphaned, fault>>

ChatIdle(t) ==
    LET a == client[t] IN
    /\ Go(t, "chat", "ready")
    /\ state[a] # "CONNECTED"
    /\ told' = [told EXCEPT ![fd[a]] = Line(a)]
    /\ lock' = [lock EXCEPT ![a] = @ + 1]
    /\ swap' = swap + 1
    /\ cmd' = [cmd EXCEPT ![t] = "none"]
    /\ UNCHANGED <<extensions, mutex, allocated, state, opponent, fd,
                   ext, client, other, orphaned, fault>>

ChatConnected(t) ==
    LET a == client[t] IN
    /\ Reorder(t, "chat", opponent[a])
    /\ state[a] = "CONNECTED"
    /\ told' = [told EXCEPT ![fd[a]] = Line(a)]
    /\ UNCHANGED <<extensions, mutex, allocated, state, opponent, fd,
                   cmd, ext, client, orphaned, fault>>

-----------------------------------------------------------------------------
(***************************************************************************)
(* Output to the clients, and the end of an operation.                     *)
(***************************************************************************)

\* Thread t goes back to the service loop, or on to pbx_unregister after EOF;
\* tu_dial releases pbx->mutex.
Return(t, from) ==
    /\ Go(t, from, IF cmd[t] = "bye" THEN "unregister" ELSE "ready")
    /\ mutex' = IF cmd[t] = "dial" THEN mutex + 1 ELSE mutex
    /\ cmd' = [cmd EXCEPT ![t] = "none"]
    /\ other' = [other EXCEPT ![t] = NULL]

\* Only the operation's own client hears of it.
NotifyOnly(t) ==
    LET a == client[t] IN
    /\ Return(t, "notify")
    /\ other[t] = NULL
    /\ told' = [told EXCEPT ![fd[a]] = Line(a)]
    /\ lock' = [lock EXCEPT ![a] = @ + 1]
    /\ UNCHANGED <<extensions, swap, allocated, state, opponent, fd,
                   ext, client, orphaned, fault>>

NotifySelf(t) ==
    LET a == client[t] IN
    /\ Go(t, "notify", "notifyPeer")
    /\ other[t] # NULL
    /\ told' = [told EXCEPT ![fd[a]] = Line(a)]
    /\ UNCHANGED <<pbxVars, heapVars, cmd, ext, client, other, orphaned, fault>>

\* Mutant: the peer is not told that its call was hung up.
NotifyPeerSilently(t) ==
    LET a == client[t]
        b == other[t]
    IN
    /\ Return(t, "notifyPeer")
    /\ opponent' = IF cmd[t] \in Hangups
                   THEN [opponent EXCEPT ![a] = NULL, ![b] = NULL]
                   ELSE opponent
    /\ told' = IF cmd[t] \in Hangups THEN told
               ELSE [told EXCEPT ![fd[b]] = Line(b)]
    /\ lock' = [lock EXCEPT ![b] = @ + 1, ![a] = @ + 1]
    /\ UNCHANGED <<extensions, swap, allocated, state, fd, ext, client,
                   orphaned, fault>>

\* The second TU hears of its new state after the first; a hangup cuts the
\* two opponent pointers in between.
NotifyPeer(t) ==
    LET a == client[t]
        b == other[t]
    IN
    /\ Return(t, "notifyPeer")
    /\ opponent' = IF cmd[t] \in Hangups
                   THEN [opponent EXCEPT ![a] = NULL, ![b] = NULL]
                   ELSE opponent
    /\ told' = [told EXCEPT ![fd[b]] = Line(b)]
    /\ lock' = [lock EXCEPT ![b] = @ + 1, ![a] = @ + 1]
    /\ UNCHANGED <<extensions, swap, allocated, state, fd, ext, client,
                   orphaned, fault>>

\* The message goes to the file of tu->opponent, whose mutex is then released.
ChatAct(t) ==
    LET a == client[t] IN
    /\ Return(t, "act")
    /\ cmd[t] = "chat"
    /\ lock' = [lock EXCEPT ![opponent[a]] = @ + 1, ![a] = @ + 1]
    /\ UNCHANGED <<extensions, swap, allocated, state, opponent, fd,
                   ext, client, told, orphaned, fault>>

-----------------------------------------------------------------------------
Operation(t) ==
    \/ LockSwap(t)
    \/ LockPeer(t)
    \/ LockAgain(t)
    \/ PickupIdle(t)
    \/ PickupRinging(t)
    \/ PickupAct(t)
    \/ Hangup(t)
    \/ HangupAct(t)
    \/ DialTone(t)
    \/ DialOther(t)
    \/ DialNobody(t)
    \/ DialIdle(t)
    \/ DialBusy(t)
    \/ Chat(t)
    \/ ChatIdle(t)
    \/ ChatConnected(t)
    \/ ChatAct(t)
    \/ NotifyOnly(t)
    \/ NotifySelf(t)
    \/ NotifyPeer(t)
    \/ Welcome(t)

Session(t) ==
    \/ Register(t)
    \/ Refuse(t)
    \/ \E c \in Commands \ {"dial"} : Receive(t, c)
    \/ \E x \in Fd : ReceiveDial(t, x)
    \/ Unregister(t)
    \/ UseFreed(t)

\* Nothing is said of the program after its behaviour became undefined.
Undefined == fault /\ UNCHANGED vars

Next == Undefined \/ \E t \in Fd : Operation(t) \/ Session(t)

Spec == Init /\ [][Next]_vars

\* A thread that can execute an operation is scheduled, and a client reads
\* what is written to it.  Nothing is assumed of a thread that competes for a
\* semaphore over and over: weak fairness only.
FairSpec == Spec /\ \A t \in Fd : WF_vars(Operation(t))

-----------------------------------------------------------------------------
(***************************************************************************)
(* Properties.                                                             *)
(***************************************************************************)

\* Type invariant; the semaphores are binary.
TypeOK ==
    /\ extensions \in [Fd -> Addr \cup {NULL}]
    /\ mutex \in {0, 1} /\ swap \in {0, 1}
    /\ allocated \subseteq Addr
    /\ state \in [Addr -> States]
    /\ opponent \in [Addr -> Addr \cup {NULL}]
    /\ fd \in [Addr -> Fd \cup {NoFd}]
    /\ lock \in [Addr -> {0, 1}]
    /\ pc \in [Fd -> Places]
    /\ cmd \in [Fd -> Commands \cup {"none"}]
    /\ ext \in [Fd -> Fd \cup {NoFd}]
    /\ client \in [Fd -> Addr \cup {NULL}]
    /\ other \in [Fd -> Addr \cup {NULL}]
    /\ told \in [Fd -> [state : States \cup {"none"}, num : Fd \cup {NoFd}]]
    /\ orphaned \in BOOLEAN /\ fault \in BOOLEAN

\* Thread t holds the mutex of the TU at a.
Holds(t, a) ==
    \/ /\ a = client[t]
       /\ \/ pc[t] \in {"welcome", "chat", "act", "notify", "notifyPeer"}
          \/ pc[t] = "peer" /\ client[t] > other[t]
    \/ /\ a = other[t]
       /\ pc[t] \in {"again", "act", "notify", "notifyPeer"}

HoldsSwap(t) == pc[t] \in {"self", "chat", "peer", "again"}

HoldsPbx(t) ==
    \/ pc[t] = "welcome"
    \/ cmd[t] = "dial" /\ pc[t] \in {"swap", "self", "peer", "again", "act",
                                     "notify", "notifyPeer"}

SwapDiscipline ==
    /\ swap = 0 <=> \E t \in Fd : HoldsSwap(t)
    /\ \A t, u \in Fd : HoldsSwap(t) /\ HoldsSwap(u) => t = u

PbxDiscipline ==
    /\ mutex = 0 <=> \E t \in Fd : HoldsPbx(t)
    /\ \A t, u \in Fd : HoldsPbx(t) /\ HoldsPbx(u) => t = u

TUDiscipline ==
    /\ \A a \in allocated : lock[a] = 0 <=> \E t \in Fd : Holds(t, a)
    /\ \A a \in Addr : \A t, u \in Fd : Holds(t, a) /\ Holds(u, a) => t = u

\* Each semaphore is a lock: it is 0 exactly while one thread holds it, and
\* no two threads hold it together, through every path of reorder_mutex and
\* every early return (pbx.c:118-272, 311-327).
LockDiscipline == SwapDiscipline /\ PbxDiscipline /\ TUDiscipline

\* The next step of thread t waits for a semaphore that thread u holds.
WaitsFor(t, u) ==
    \/ pc[t] \in {"closed", "ready", "unregister"} /\ HoldsPbx(u)
    \/ pc[t] \in {"ready", "swap"} /\ HoldsSwap(u)
    \/ pc[t] \in {"self", "again"} /\ Holds(u, client[t])
    \/ pc[t] = "peer" /\ Holds(u, other[t])

\* Threads never wait for each other in a circle, not even where reorder_mutex
\* takes a second mutex while it has one, two ends of a call are worked on from
\* both sides, or a TU dials itself: of any threads one waits for none of the
\* others (pbx.c:118-272, 311-327).
NoCircularWait ==
    \A S \in (SUBSET Fd) \ {{}} :
        \E t \in S : \A u \in S : ~WaitsFor(t, u)

\* The comment above reorder_mutex worries that the opponent changes while
\* the thread has let go of its own mutex (pbx.c:321-322).  It does not: what
\* the operation decided before is still true when it acts.
DecisionHolds ==
    \A t \in Fd :
        pc[t] \in {"peer", "again", "act"} =>
            LET a == client[t] IN
            /\ cmd[t] = "pickup" => state[a] = "RINGING"
            /\ cmd[t] = "chat"   => state[a] = "CONNECTED"
            /\ IF cmd[t] = "dial"
               THEN state[a] = "DIAL_TONE" /\ other[t] \in allocated \cup {NULL}
               ELSE other[t] = opponent[a]

\* When the mutex of a TU is free, the last line its client got is the TU's
\* present state: no state change goes unreported, and two reports never
\* reach a client in the wrong order (pbx.h:138-195).
ClientIsUpToDate ==
    \A a \in allocated :
        lock[a] = 1 /\ ~orphaned => told[fd[a]] = Line(a)

\* Freed memory is used only after a TU was unregistered while another TU
\* pointed to it.
FaultNeedsOrphan == fault => orphaned

\* pbx_unregister frees the TU, which "must not be used again" (pbx.h:101).
NoUseAfterFree == ~fault

\* A thread that has got pbx->swap completes its operation: the two-mutex
\* locking of reorder_mutex cannot deadlock, because only the holder of
\* pbx->swap ever waits for the mutex of a TU.
HolderFinishes ==
    \A t \in Fd :
        pc[t] = "self" ~> pc[t] \in {"ready", "unregister"} \/ orphaned

\* Until a TU is orphaned, every step is a step of the abstract exchange.
Calls == INSTANCE PBXCalls WITH
    line <- [x \in Fd |-> IF extensions[x] = NULL THEN "absent"
                          ELSE state[extensions[x]]],
    peer <- [x \in Fd |->
               IF /\ extensions[x] # NULL
                  /\ state[extensions[x]] \in InCall
                  /\ opponent[extensions[x]] # NULL
               THEN fd[opponent[extensions[x]]] ELSE NoFd]

ImplementsCalls == Calls!Init /\ [][orphaned' \/ Calls!Next]_(Calls!vars)
=============================================================================
