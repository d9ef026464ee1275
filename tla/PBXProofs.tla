------------------------------ MODULE PBXProofs ------------------------------
(***************************************************************************)
(* Proofs about the exchange: any number of threads, extensions and        *)
(* addresses.                                                              *)
(***************************************************************************)
EXTENDS PBX, TLAPS

(***************************************************************************)
(* The inductive invariant.  TypeOK and LockDiscipline are not inductive:  *)
(* that a V finds its semaphore at 0 needs to know who holds it, and that  *)
(* a new TU's mutex is held by nobody needs to know that no thread works   *)
(* with a pointer to freed memory, which in turn rests on how TUs are      *)
(* linked and on what the operations have decided.                         *)
(***************************************************************************)

\* A thread, its connection's entry in the table, and the command it runs.
ThreadInv ==
    \A t \in Fd :
        /\ extensions[t] = client[t]
        /\ client[t] # NULL => client[t] \in allocated /\ fd[client[t]] = t
        /\ client[t] = NULL <=> pc[t] \in {"closed", "refused"}
        /\ cmd[t] = "none" <=>
             pc[t] \in {"closed", "refused", "welcome", "ready", "unregister"}
        /\ pc[t] = "swap" => cmd[t] = "dial"
        /\ pc[t] = "chat" => cmd[t] = "chat"
        /\ pc[t] \in {"notify", "notifyPeer"} => cmd[t] # "chat"
        /\ cmd[t] = "dial" /\ pc[t] \in {"swap", "self"} => ext[t] \in Fd
        /\ pc[t] \in {"peer", "again", "notifyPeer"} =>
             other[t] # NULL /\ other[t] # client[t]
        /\ pc[t] = "notify" => other[t] # client[t]
        /\ pc[t] = "act" /\ cmd[t] \in {"pickup", "chat"} =>
             other[t] # NULL /\ other[t] # client[t]
        /\ pc[t] = "act" /\ cmd[t] \in Hangups => other[t] # client[t]

\* Every allocated TU belongs to the thread of its descriptor; no TU is its
\* own opponent, and one that is in a call has an opponent.
HeapInv ==
    \A a \in allocated :
        /\ fd[a] \in Fd /\ client[fd[a]] = a
        /\ opponent[a] # a
        /\ state[a] \in InCall => opponent[a] # NULL

\* While reorder_mutex waits, with the thread's own mutex released or not,
\* nobody else holds that mutex: whoever takes the mutex of a TU that is in
\* use needs pbx->swap, which this thread keeps.
WindowInv ==
    \A t, u \in Fd :
        pc[t] \in {"peer", "again"} /\ u # t => ~Holds(u, client[t])

\* Thread t has hung up and has not yet cut the opponent pointers.
Cutting(t) == cmd[t] \in Hangups /\ pc[t] \in {"notify", "notifyPeer"}

\* Two TUs that point to each other are the two ends of one call.
LinkInv ==
    \A a \in allocated :
        opponent[a] \in allocated =>
            /\ opponent[opponent[a]] = a
            /\ state[a] \in InCall =>
                 <<state[a], state[opponent[a]]>> \in
                     {<<"RINGING", "RING_BACK">>, <<"RING_BACK", "RINGING">>,
                      <<"CONNECTED", "CONNECTED">>}

\* A TU that has left its call keeps a pointer only while the hangup lasts.
CutInv ==
    \A a \in allocated :
        opponent[a] # NULL /\ state[a] \notin InCall =>
            \E t \in Fd : Cutting(t) /\ Holds(t, a)

\* Until a TU is orphaned, pointers lead to TUs.
NoDangling ==
    ~orphaned => \A a \in allocated : opponent[a] \in allocated \cup {NULL}

\* What an operation has decided, and what it has done when it notifies.
PhaseInv ==
    \A t \in Fd :
        /\ pc[t] \in {"peer", "again", "act"} =>
             /\ cmd[t] = "pickup" => state[client[t]] = "RINGING"
             /\ cmd[t] = "chat"   => state[client[t]] = "CONNECTED"
             /\ cmd[t] = "dial"   => /\ state[client[t]] = "DIAL_TONE"
                                     /\ other[t] \in allocated \cup {NULL}
             /\ cmd[t] # "dial"   => other[t] = opponent[client[t]]
        /\ pc[t] \in {"notify", "notifyPeer"} /\ other[t] # NULL =>
             other[t] = opponent[client[t]]
        /\ Cutting(t) => /\ other[t] = opponent[client[t]]
                         /\ state[client[t]] = "ON_HOOK"
                         /\ other[t] # NULL =>
                              state[other[t]] \in {"ON_HOOK", "DIAL_TONE"}
        /\ pc[t] = "welcome" =>
             state[client[t]] = "ON_HOOK" /\ opponent[client[t]] = NULL

IInv == /\ TypeOK
        /\ ThreadInv
        /\ HeapInv
        /\ LockDiscipline
        /\ WindowInv
        /\ PhaseInv
        /\ LinkInv
        /\ CutInv
        /\ NoDangling
        /\ FaultNeedsOrphan

-----------------------------------------------------------------------------
\* The exchange starts with no TU, no operation and every semaphore free.
LEMMA InitIInv == Init => IInv
<1> SUFFICES ASSUME Init PROVE IInv
  OBVIOUS
<1> USE FdAssumption, AddrAssumption DEF Init, NULL
<1>1. TypeOK
  BY DEF TypeOK, States, Places, NoLine
<1>2. \A t \in Fd : /\ ~HoldsSwap(t) /\ ~HoldsPbx(t)
                    /\ \A a \in Addr : ~Holds(t, a)
  BY DEF HoldsSwap, HoldsPbx, Holds
<1>3. LockDiscipline
  BY <1>2 DEF LockDiscipline, SwapDiscipline, PbxDiscipline, TUDiscipline
<1>4. ThreadInv
  BY DEF ThreadInv, Hangups
<1>5. HeapInv /\ LinkInv /\ CutInv /\ NoDangling /\ FaultNeedsOrphan
  BY DEF HeapInv, LinkInv, CutInv, NoDangling, FaultNeedsOrphan
<1>6. WindowInv
  BY DEF WindowInv
<1>7. PhaseInv
  BY DEF PhaseInv, Cutting
<1>8. QED
  BY <1>1, <1>3, <1>4, <1>5, <1>6, <1>7 DEF IInv

\* A mutex that is held is taken.
LEMMA HeldIsTaken ==
  ASSUME TUDiscipline, NEW t \in Fd, NEW a \in allocated, Holds(t, a)
  PROVE  lock[a] = 0
  BY DEF TUDiscipline

\* Both semaphores of a call are released.
LEMMA TwoReleased ==
  ASSUME NEW f \in [Addr -> {0, 1}], NEW a \in Addr, NEW b \in Addr,
         a # b, f[a] = 0, f[b] = 0
  PROVE  [f EXCEPT ![b] = @ + 1, ![a] = @ + 1] \in [Addr -> {0, 1}]
<1>1. [f EXCEPT ![b] = @ + 1] \in [Addr -> {0, 1}]
  OBVIOUS
<1>2. QED
  BY <1>1

\* Nobody works on the TU of another thread while its mutex is held.
LEMMA OwnTU ==
  ASSUME TUDiscipline, WindowInv, NEW t \in Fd, NEW u \in Fd, u # t,
         client[u] \in Addr, Holds(t, client[u]),
         pc[u] \in {"welcome", "peer", "again", "act", "notify", "notifyPeer"}
  PROVE  FALSE
<1>1. CASE pc[u] \in {"peer", "again"}
  BY <1>1 DEF WindowInv
<1>2. CASE pc[u] \in {"welcome", "act", "notify", "notifyPeer"}
  <2>1. Holds(u, client[u])
    BY <1>2 DEF Holds
  <2>2. QED
    BY <2>1 DEF TUDiscipline
<1>3. QED
  BY <1>1, <1>2

\* Under its mutex, a TU that points to another one is in a call, unless the
\* holder of the mutex has hung up.
LEMMA PointerMeansCall ==
  ASSUME TUDiscipline, CutInv, NEW t \in Fd, ~Cutting(t),
         NEW a \in allocated, a \in Addr, Holds(t, a), opponent[a] # NULL
  PROVE  state[a] \in InCall
<1> SUFFICES ASSUME state[a] \notin InCall PROVE FALSE
  OBVIOUS
<1>1. PICK u \in Fd : Cutting(u) /\ Holds(u, a)
  BY DEF CutInv
<1>2. u = t
  BY <1>1 DEF TUDiscipline
<1>3. QED
  BY <1>1, <1>2

\* What write_message prints is a line.
LEMMA TypedLine ==
  ASSUME TypeOK, NEW a \in Addr, Printed(a) \subseteq Addr
  PROVE  Line(a) \in [state : States \cup {"none"}, num : Fd \cup {NoFd}]
  BY DEF TypeOK, Line, Printed

\* Types, and semaphores that stay binary.
LEMMA TypeNext ==
  ASSUME IInv, NEW t \in Fd, Operation(t) \/ Session(t)
  PROVE  TypeOK'
<1> USE FdAssumption, AddrAssumption, TypedLine
      DEF IInv, TypeOK, ThreadInv, HeapInv, LockDiscipline, SwapDiscipline,
          PbxDiscipline, TUDiscipline, PhaseInv, Holds, HoldsSwap, HoldsPbx,
          Places, Commands, States, Hangups, InCall, pbxVars, heapVars,
          threadVars, NULL, Touched, Printed, NoLine
<1>1. CASE LockSwap(t)
  BY <1>1 DEF LockSwap, Go
<1>2. CASE LockPeer(t)
  BY <1>2 DEF LockPeer, Go
<1>3. CASE LockAgain(t)
  BY <1>3 DEF LockAgain, Go
<1>4. CASE PickupIdle(t)
  BY <1>4 DEF PickupIdle, LockSelf, Go
<1>5. CASE PickupRinging(t)
  BY <1>5 DEF PickupRinging, Reorder, Go
<1>6. CASE PickupAct(t)
  BY <1>6 DEF PickupAct, Go
<1>7. CASE Hangup(t)
  BY <1>7 DEF Hangup, Reorder, Go
<1>8. CASE HangupAct(t)
  BY <1>8 DEF HangupAct, AfterHangup, Go
<1>9. CASE DialTone(t)
  BY <1>9 DEF DialTone, Reorder, Go
<1>10. CASE DialOther(t)
  BY <1>10 DEF DialOther, LockSelf, Go
<1>11. CASE DialNobody(t)
  BY <1>11 DEF DialNobody, Go
<1>12. CASE DialIdle(t)
  BY <1>12 DEF DialIdle, Go
<1>13. CASE DialBusy(t)
  BY <1>13 DEF DialBusy, Go
<1>14. CASE Chat(t)
  BY <1>14 DEF Chat, Go
<1>15. CASE ChatIdle(t)
  <2> DEFINE a == client[t]
  <2>1. a \in allocated /\ pc[t] = "chat" /\ Printed(a) \subseteq Addr
    BY <1>15 DEF ChatIdle, Go
  <2>2. lock[a] = 0
    <3>1. TUDiscipline
      OBVIOUS
    <3>2. Holds(t, a)
      BY <2>1
    <3> HIDE DEF IInv, TUDiscipline, Holds
    <3>3. QED
      BY <2>1, <3>1, <3>2, HeldIsTaken
  <2>3. swap = 0
    BY <2>1 DEF SwapDiscipline, HoldsSwap
  <2>4. Line(a) \in [state : States \cup {"none"}, num : Fd \cup {NoFd}]
    BY <2>1, TypedLine DEF TypeOK
  <2>5. told' \in [Fd -> [state : States \cup {"none"}, num : Fd \cup {NoFd}]]
    BY <1>15, <2>4 DEF ChatIdle
  <2>6. lock' \in [Addr -> {0, 1}]
    BY <1>15, <2>1, <2>2 DEF ChatIdle
  <2>7. QED
    BY <1>15, <2>3, <2>5, <2>6 DEF ChatIdle, Go
<1>16. CASE ChatConnected(t)
  BY <1>16 DEF ChatConnected, Reorder, Go
<1>17. CASE ChatAct(t)
  <2> DEFINE a == client[t]
             b == opponent[a]
  <2>1. a \in allocated /\ b \in allocated /\ b = other[t] /\ a # b
    BY <1>17 DEF ChatAct, Return, Go
  <2>2. lock[a] = 0 /\ lock[b] = 0
    BY <1>17, <2>1 DEF ChatAct, Return, Go, TUDiscipline
  <2>3. lock' \in [Addr -> {0, 1}]
    BY <1>17, <2>1, <2>2, TwoReleased DEF ChatAct
  <2>4. QED
    BY <1>17, <2>1, <2>3 DEF ChatAct, Return, Go
<1>18. CASE NotifyOnly(t)
  BY <1>18 DEF NotifyOnly, Return, Go
<1>19. CASE NotifySelf(t)
  BY <1>19 DEF NotifySelf, Go
<1>20. CASE NotifyPeer(t)
  <2> DEFINE a == client[t]
             b == other[t]
  <2>1. a \in allocated /\ b \in allocated /\ a # b
    BY <1>20 DEF NotifyPeer, Return, Go
  <2>2. lock[a] = 0 /\ lock[b] = 0
    BY <1>20, <2>1 DEF NotifyPeer, Return, Go, TUDiscipline
  <2>3. lock' \in [Addr -> {0, 1}]
    BY <1>20, <2>1, <2>2, TwoReleased DEF NotifyPeer
  <2>4. Printed(b) \subseteq Addr
    BY <1>20, <2>1 DEF NotifyPeer, Return, Go
  <2>5. told' \in [Fd -> [state : States \cup {"none"}, num : Fd \cup {NoFd}]]
    <3>1. Line(b) \in [state : States \cup {"none"}, num : Fd \cup {NoFd}]
      BY <2>1, <2>4, TypedLine DEF TypeOK
    <3>2. QED
      BY <1>20, <3>1 DEF NotifyPeer
  <2>6. mutex' \in {0, 1}
    BY <1>20 DEF NotifyPeer, Return, Go, PbxDiscipline, HoldsPbx
  <2>7. QED
    BY <1>20, <2>1, <2>3, <2>5, <2>6 DEF NotifyPeer, Return, Go
<1>21. CASE Welcome(t)
  BY <1>21 DEF Welcome, Go
<1>22. CASE Register(t)
  BY <1>22 DEF Register, Go
<1>23. CASE Refuse(t)
  BY <1>23 DEF Refuse, Go
<1>24. ASSUME NEW c \in Commands \ {"dial"}, Receive(t, c)
      PROVE  TypeOK'
  BY <1>24 DEF Receive, Go
<1>25. ASSUME NEW x \in Fd, ReceiveDial(t, x)
      PROVE  TypeOK'
  BY <1>25 DEF ReceiveDial, Go
<1>26. CASE Unregister(t)
  BY <1>26 DEF Unregister, Go
<1>27. CASE UseFreed(t)
  BY <1>27 DEF UseFreed
<1>28. QED
  BY <1>1, <1>2, <1>3, <1>4, <1>5, <1>6, <1>7, <1>8, <1>9, <1>10, <1>11,
     <1>12, <1>13, <1>14, <1>15, <1>16, <1>17, <1>18, <1>19, <1>20, <1>21,
     <1>22, <1>23, <1>24, <1>25, <1>26, <1>27
  DEF Operation, Session

\* Each thread, its entry in the table and its command.
LEMMA ThreadNext ==
  ASSUME IInv, NEW t \in Fd, Operation(t) \/ Session(t)
  PROVE  ThreadInv'
<1> USE FdAssumption, AddrAssumption
      DEF IInv, TypeOK, ThreadInv, HeapInv, PhaseInv, Cutting, Places,
          Commands, States, Hangups, InCall, pbxVars, heapVars, threadVars,
          NULL, Touched, Printed
<1>1. CASE LockSwap(t)
  BY <1>1 DEF LockSwap, Go
<1>2. CASE LockPeer(t)
  BY <1>2 DEF LockPeer, Go
<1>3. CASE LockAgain(t)
  BY <1>3 DEF LockAgain, Go
<1>4. CASE PickupIdle(t)
  BY <1>4 DEF PickupIdle, LockSelf, Go
<1>5. CASE PickupRinging(t)
  BY <1>5 DEF PickupRinging, Reorder, Go
<1>6. CASE PickupAct(t)
  BY <1>6 DEF PickupAct, Go
<1>7. CASE Hangup(t)
  BY <1>7 DEF Hangup, Reorder, Go
<1>8. CASE HangupAct(t)
  BY <1>8 DEF HangupAct, AfterHangup, Go
<1>9. CASE DialTone(t)
  BY <1>9 DEF DialTone, Reorder, Go
<1>10. CASE DialOther(t)
  BY <1>10 DEF DialOther, LockSelf, Go
<1>11. CASE DialNobody(t)
  BY <1>11 DEF DialNobody, Go
<1>12. CASE DialIdle(t)
  BY <1>12 DEF DialIdle, Go
<1>13. CASE DialBusy(t)
  BY <1>13 DEF DialBusy, Go
<1>14. CASE Chat(t)
  BY <1>14 DEF Chat, Go
<1>15. CASE ChatIdle(t)
  BY <1>15 DEF ChatIdle, Go
<1>16. CASE ChatConnected(t)
  BY <1>16 DEF ChatConnected, Reorder, Go
<1>17. CASE ChatAct(t)
  BY <1>17 DEF ChatAct, Return, Go
<1>18. CASE NotifyOnly(t)
  BY <1>18 DEF NotifyOnly, Return, Go
<1>19. CASE NotifySelf(t)
  BY <1>19 DEF NotifySelf, Go
<1>20. CASE NotifyPeer(t)
  BY <1>20 DEF NotifyPeer, Return, Go
<1>21. CASE Welcome(t)
  BY <1>21 DEF Welcome, Go
<1>22. CASE Register(t)
  BY <1>22 DEF Register, Go
<1>23. CASE Refuse(t)
  BY <1>23 DEF Refuse, Go
<1>24. ASSUME NEW c \in Commands \ {"dial"}, Receive(t, c)
      PROVE  ThreadInv'
  BY <1>24 DEF Receive, Go
<1>25. ASSUME NEW x \in Fd, ReceiveDial(t, x)
      PROVE  ThreadInv'
  BY <1>25 DEF ReceiveDial, Go
<1>26. CASE Unregister(t)
  BY <1>26 DEF Unregister, Go
<1>27. CASE UseFreed(t)
  BY <1>27 DEF UseFreed
<1>28. QED
  BY <1>1, <1>2, <1>3, <1>4, <1>5, <1>6, <1>7, <1>8, <1>9, <1>10, <1>11,
     <1>12, <1>13, <1>14, <1>15, <1>16, <1>17, <1>18, <1>19, <1>20, <1>21,
     <1>22, <1>23, <1>24, <1>25, <1>26, <1>27
  DEF Operation, Session

\* TUs and their owners.
LEMMA HeapNext ==
  ASSUME IInv, NEW t \in Fd, Operation(t) \/ Session(t)
  PROVE  HeapInv'
<1> USE FdAssumption, AddrAssumption
      DEF IInv, TypeOK, ThreadInv, HeapInv, PhaseInv, LinkInv, Cutting,
          Places, Commands, States, Hangups, InCall, pbxVars, heapVars,
          threadVars, NULL, Touched, Printed
<1>1. CASE LockSwap(t)
  BY <1>1 DEF LockSwap, Go
<1>2. CASE LockPeer(t)
  BY <1>2 DEF LockPeer, Go
<1>3. CASE LockAgain(t)
  BY <1>3 DEF LockAgain, Go
<1>4. CASE PickupIdle(t)
  BY <1>4 DEF PickupIdle, LockSelf, Go
<1>5. CASE PickupRinging(t)
  BY <1>5 DEF PickupRinging, Reorder, Go
<1>6. CASE PickupAct(t)
  BY <1>6 DEF PickupAct, Go
<1>7. CASE Hangup(t)
  BY <1>7 DEF Hangup, Reorder, Go
<1>8. CASE HangupAct(t)
  BY <1>8 DEF HangupAct, AfterHangup, Go
<1>9. CASE DialTone(t)
  BY <1>9 DEF DialTone, Reorder, Go
<1>10. CASE DialOther(t)
  BY <1>10 DEF DialOther, LockSelf, Go
<1>11. CASE DialNobody(t)
  BY <1>11 DEF DialNobody, Go
<1>12. CASE DialIdle(t)
  BY <1>12 DEF DialIdle, Go
<1>13. CASE DialBusy(t)
  BY <1>13 DEF DialBusy, Go
<1>14. CASE Chat(t)
  BY <1>14 DEF Chat, Go
<1>15. CASE ChatIdle(t)
  BY <1>15 DEF ChatIdle, Go
<1>16. CASE ChatConnected(t)
  BY <1>16 DEF ChatConnected, Reorder, Go
<1>17. CASE ChatAct(t)
  BY <1>17 DEF ChatAct, Return, Go
<1>18. CASE NotifyOnly(t)
  BY <1>18 DEF NotifyOnly, Return, Go
<1>19. CASE NotifySelf(t)
  BY <1>19 DEF NotifySelf, Go
<1>20. CASE NotifyPeer(t)
  BY <1>20 DEF NotifyPeer, Return, Go
<1>21. CASE Welcome(t)
  BY <1>21 DEF Welcome, Go
<1>22. CASE Register(t)
  BY <1>22 DEF Register, Go
<1>23. CASE Refuse(t)
  BY <1>23 DEF Refuse, Go
<1>24. ASSUME NEW c \in Commands \ {"dial"}, Receive(t, c)
      PROVE  HeapInv'
  BY <1>24 DEF Receive, Go
<1>25. ASSUME NEW x \in Fd, ReceiveDial(t, x)
      PROVE  HeapInv'
  BY <1>25 DEF ReceiveDial, Go
<1>26. CASE Unregister(t)
  BY <1>26 DEF Unregister, Go
<1>27. CASE UseFreed(t)
  BY <1>27 DEF UseFreed
<1>28. QED
  BY <1>1, <1>2, <1>3, <1>4, <1>5, <1>6, <1>7, <1>8, <1>9, <1>10, <1>11,
     <1>12, <1>13, <1>14, <1>15, <1>16, <1>17, <1>18, <1>19, <1>20, <1>21,
     <1>22, <1>23, <1>24, <1>25, <1>26, <1>27
  DEF Operation, Session

\* pbx->swap.
LEMMA SwapNext ==
  ASSUME IInv, NEW t \in Fd, Operation(t) \/ Session(t)
  PROVE  SwapDiscipline'
<1> USE FdAssumption, AddrAssumption
      DEF IInv, TypeOK, ThreadInv, LockDiscipline, SwapDiscipline, HoldsSwap,
          Places, Commands, States, Hangups, InCall, pbxVars, heapVars,
          threadVars, NULL
<1>1. CASE LockSwap(t)
  BY <1>1 DEF LockSwap, Go
<1>2. CASE LockPeer(t)
  BY <1>2 DEF LockPeer, Go
<1>3. CASE LockAgain(t)
  BY <1>3 DEF LockAgain, Go
<1>4. CASE PickupIdle(t)
  BY <1>4 DEF PickupIdle, LockSelf, Go
<1>5. CASE PickupRinging(t)
  BY <1>5 DEF PickupRinging, Reorder, Go
<1>6. CASE PickupAct(t)
  BY <1>6 DEF PickupAct, Go
<1>7. CASE Hangup(t)
  BY <1>7 DEF Hangup, Reorder, Go
<1>8. CASE HangupAct(t)
  BY <1>8 DEF HangupAct, AfterHangup, Go
<1>9. CASE DialTone(t)
  BY <1>9 DEF DialTone, Reorder, Go
<1>10. CASE DialOther(t)
  BY <1>10 DEF DialOther, LockSelf, Go
<1>11. CASE DialNobody(t)
  BY <1>11 DEF DialNobody, Go
<1>12. CASE DialIdle(t)
  BY <1>12 DEF DialIdle, Go
<1>13. CASE DialBusy(t)
  BY <1>13 DEF DialBusy, Go
<1>14. CASE Chat(t)
  BY <1>14 DEF Chat, Go
<1>15. CASE ChatIdle(t)
  BY <1>15 DEF ChatIdle, Go
<1>16. CASE ChatConnected(t)
  BY <1>16 DEF ChatConnected, Reorder, Go
<1>17. CASE ChatAct(t)
  BY <1>17 DEF ChatAct, Return, Go
<1>18. CASE NotifyOnly(t)
  BY <1>18 DEF NotifyOnly, Return, Go
<1>19. CASE NotifySelf(t)
  BY <1>19 DEF NotifySelf, Go
<1>20. CASE NotifyPeer(t)
  BY <1>20 DEF NotifyPeer, Return, Go
<1>21. CASE Welcome(t)
  BY <1>21 DEF Welcome, Go
<1>22. CASE Register(t)
  BY <1>22 DEF Register, Go
<1>23. CASE Refuse(t)
  BY <1>23 DEF Refuse, Go
<1>24. ASSUME NEW c \in Commands \ {"dial"}, Receive(t, c)
      PROVE  SwapDiscipline'
  BY <1>24 DEF Receive, Go
<1>25. ASSUME NEW x \in Fd, ReceiveDial(t, x)
      PROVE  SwapDiscipline'
  BY <1>25 DEF ReceiveDial, Go
<1>26. CASE Unregister(t)
  BY <1>26 DEF Unregister, Go
<1>27. CASE UseFreed(t)
  BY <1>27 DEF UseFreed
<1>28. QED
  BY <1>1, <1>2, <1>3, <1>4, <1>5, <1>6, <1>7, <1>8, <1>9, <1>10, <1>11,
     <1>12, <1>13, <1>14, <1>15, <1>16, <1>17, <1>18, <1>19, <1>20, <1>21,
     <1>22, <1>23, <1>24, <1>25, <1>26, <1>27
  DEF Operation, Session

\* pbx->mutex.
LEMMA PbxNext ==
  ASSUME IInv, NEW t \in Fd, Operation(t) \/ Session(t)
  PROVE  PbxDiscipline'
<1> USE FdAssumption, AddrAssumption
      DEF IInv, TypeOK, ThreadInv, LockDiscipline, PbxDiscipline, HoldsPbx,
          Places, Commands, States, Hangups, InCall, pbxVars, heapVars,
          threadVars, NULL
<1>1. CASE LockSwap(t)
  BY <1>1 DEF LockSwap, Go
<1>2. CASE LockPeer(t)
  BY <1>2 DEF LockPeer, Go
<1>3. CASE LockAgain(t)
  BY <1>3 DEF LockAgain, Go
<1>4. CASE PickupIdle(t)
  BY <1>4 DEF PickupIdle, LockSelf, Go
<1>5. CASE PickupRinging(t)
  BY <1>5 DEF PickupRinging, Reorder, Go
<1>6. CASE PickupAct(t)
  BY <1>6 DEF PickupAct, Go
<1>7. CASE Hangup(t)
  BY <1>7 DEF Hangup, Reorder, Go
<1>8. CASE HangupAct(t)
  BY <1>8 DEF HangupAct, AfterHangup, Go
<1>9. CASE DialTone(t)
  BY <1>9 DEF DialTone, Reorder, Go
<1>10. CASE DialOther(t)
  BY <1>10 DEF DialOther, LockSelf, Go
<1>11. CASE DialNobody(t)
  BY <1>11 DEF DialNobody, Go
<1>12. CASE DialIdle(t)
  BY <1>12 DEF DialIdle, Go
<1>13. CASE DialBusy(t)
  BY <1>13 DEF DialBusy, Go
<1>14. CASE Chat(t)
  BY <1>14 DEF Chat, Go
<1>15. CASE ChatIdle(t)
  BY <1>15 DEF ChatIdle, Go
<1>16. CASE ChatConnected(t)
  BY <1>16 DEF ChatConnected, Reorder, Go
<1>17. CASE ChatAct(t)
  BY <1>17 DEF ChatAct, Return, Go
<1>18. CASE NotifyOnly(t)
  BY <1>18 DEF NotifyOnly, Return, Go
<1>19. CASE NotifySelf(t)
  BY <1>19 DEF NotifySelf, Go
<1>20. CASE NotifyPeer(t)
  BY <1>20 DEF NotifyPeer, Return, Go
<1>21. CASE Welcome(t)
  BY <1>21 DEF Welcome, Go
<1>22. CASE Register(t)
  BY <1>22 DEF Register, Go
<1>23. CASE Refuse(t)
  BY <1>23 DEF Refuse, Go
<1>24. ASSUME NEW c \in Commands \ {"dial"}, Receive(t, c)
      PROVE  PbxDiscipline'
  BY <1>24 DEF Receive, Go
<1>25. ASSUME NEW x \in Fd, ReceiveDial(t, x)
      PROVE  PbxDiscipline'
  BY <1>25 DEF ReceiveDial, Go
<1>26. CASE Unregister(t)
  BY <1>26 DEF Unregister, Go
<1>27. CASE UseFreed(t)
  BY <1>27 DEF UseFreed
<1>28. QED
  BY <1>1, <1>2, <1>3, <1>4, <1>5, <1>6, <1>7, <1>8, <1>9, <1>10, <1>11,
     <1>12, <1>13, <1>14, <1>15, <1>16, <1>17, <1>18, <1>19, <1>20, <1>21,
     <1>22, <1>23, <1>24, <1>25, <1>26, <1>27
  DEF Operation, Session

\* The window in which reorder_mutex has let go of the thread's mutex.
LEMMA WindowNext ==
  ASSUME IInv, NEW t \in Fd, Operation(t) \/ Session(t)
  PROVE  WindowInv'
<1> USE FdAssumption, AddrAssumption
      DEF IInv, TypeOK, ThreadInv, HeapInv, LockDiscipline, SwapDiscipline,
          PbxDiscipline, TUDiscipline, WindowInv, PhaseInv, Holds, HoldsSwap,
          HoldsPbx, Cutting, Places, Commands, States, Hangups, InCall,
          pbxVars, heapVars, threadVars, NULL, Touched, Printed
<1>1. CASE LockSwap(t)
  BY <1>1 DEF LockSwap, Go
<1>2. CASE LockPeer(t)
  BY <1>2 DEF LockPeer, Go
<1>3. CASE LockAgain(t)
  BY <1>3 DEF LockAgain, Go
<1>4. CASE PickupIdle(t)
  BY <1>4 DEF PickupIdle, LockSelf, Go
<1>5. CASE PickupRinging(t)
  BY <1>5 DEF PickupRinging, Reorder, Go
<1>6. CASE PickupAct(t)
  BY <1>6 DEF PickupAct, Go
<1>7. CASE Hangup(t)
  BY <1>7 DEF Hangup, Reorder, Go
<1>8. CASE HangupAct(t)
  BY <1>8 DEF HangupAct, AfterHangup, Go
<1>9. CASE DialTone(t)
  BY <1>9 DEF DialTone, Reorder, Go
<1>10. CASE DialOther(t)
  BY <1>10 DEF DialOther, LockSelf, Go
<1>11. CASE DialNobody(t)
  BY <1>11 DEF DialNobody, Go
<1>12. CASE DialIdle(t)
  BY <1>12 DEF DialIdle, Go
<1>13. CASE DialBusy(t)
  BY <1>13 DEF DialBusy, Go
<1>14. CASE Chat(t)
  BY <1>14 DEF Chat, Go
<1>15. CASE ChatIdle(t)
  BY <1>15 DEF ChatIdle, Go
<1>16. CASE ChatConnected(t)
  BY <1>16 DEF ChatConnected, Reorder, Go
<1>17. CASE ChatAct(t)
  BY <1>17 DEF ChatAct, Return, Go
<1>18. CASE NotifyOnly(t)
  BY <1>18 DEF NotifyOnly, Return, Go
<1>19. CASE NotifySelf(t)
  BY <1>19 DEF NotifySelf, Go
<1>20. CASE NotifyPeer(t)
  BY <1>20 DEF NotifyPeer, Return, Go
<1>21. CASE Welcome(t)
  BY <1>21 DEF Welcome, Go
<1>22. CASE Register(t)
  BY <1>22 DEF Register, Go
<1>23. CASE Refuse(t)
  BY <1>23 DEF Refuse, Go
<1>24. ASSUME NEW c \in Commands \ {"dial"}, Receive(t, c)
      PROVE  WindowInv'
  BY <1>24 DEF Receive, Go
<1>25. ASSUME NEW x \in Fd, ReceiveDial(t, x)
      PROVE  WindowInv'
  BY <1>25 DEF ReceiveDial, Go
<1>26. CASE Unregister(t)
  BY <1>26 DEF Unregister, Go
<1>27. CASE UseFreed(t)
  BY <1>27 DEF UseFreed
<1>28. QED
  BY <1>1, <1>2, <1>3, <1>4, <1>5, <1>6, <1>7, <1>8, <1>9, <1>10, <1>11,
     <1>12, <1>13, <1>14, <1>15, <1>16, <1>17, <1>18, <1>19, <1>20, <1>21,
     <1>22, <1>23, <1>24, <1>25, <1>26, <1>27
  DEF Operation, Session

\* What the operations have decided stays true.
LEMMA PhaseNext ==
  ASSUME IInv, NEW t \in Fd, Operation(t) \/ Session(t)
  PROVE  PhaseInv'
<1> USE FdAssumption, AddrAssumption
      DEF IInv, TypeOK, ThreadInv, HeapInv, LockDiscipline, PbxDiscipline,
          TUDiscipline, WindowInv, PhaseInv, CutInv, Holds, HoldsPbx, Cutting,
          Places, Commands, States, Hangups, InCall, pbxVars, heapVars,
          threadVars, NULL, Touched, Printed
<1>1. CASE LockSwap(t)
  BY <1>1 DEF LockSwap, Go
<1>2. CASE LockPeer(t)
  BY <1>2 DEF LockPeer, Go
<1>3. CASE LockAgain(t)
  BY <1>3 DEF LockAgain, Go
<1>4. CASE PickupIdle(t)
  BY <1>4 DEF PickupIdle, LockSelf, Go
<1>5. CASE PickupRinging(t)
  BY <1>5 DEF PickupRinging, Reorder, Go
<1>6. CASE PickupAct(t)
  BY <1>6 DEF PickupAct, Go
<1>7. CASE Hangup(t)
  BY <1>7 DEF Hangup, Reorder, Go
<1>8. CASE HangupAct(t)
  <2> DEFINE a == client[t]
             b == other[t]
  <2>1. /\ a \in allocated /\ a \in Addr /\ Holds(t, a) /\ b = opponent[a]
        /\ b # a /\ ~Cutting(t)
    BY <1>8 DEF HangupAct, Go
  <2>2. b # NULL => state[a] \in InCall
    BY <2>1, PointerMeansCall
  <2>3. state[a] \in InCall => b \in allocated /\ Holds(t, b)
    BY <1>8, <2>1 DEF HangupAct, Go
  <2>4. /\ state'[a] = "ON_HOOK"
        /\ b # NULL => state'[b] \in {"ON_HOOK", "DIAL_TONE"}
        /\ \A c \in Addr : c # a /\ c # b => state'[c] = state[c]
    BY <1>8, <2>1, <2>2, <2>3 DEF HangupAct, AfterHangup
  <2>5. ASSUME NEW u \in Fd, u # t,
               pc[u] \in {"welcome", "peer", "again", "act", "notify",
                          "notifyPeer"}
        PROVE  state'[client[u]] = state[client[u]]
    <3>1. client[u] \in allocated /\ client[u] # a
      BY <2>1, <2>5
    <3>2. ASSUME b # NULL PROVE client[u] # b
      BY <2>2, <2>3, <2>5, <3>1, <3>2, OwnTU
    <3>3. QED
      BY <2>4, <3>1, <3>2
  <2>6. ASSUME NEW u \in Fd, u # t, Cutting(u), other[u] # NULL
        PROVE  state'[other[u]] = state[other[u]]
    <3>1. Holds(u, other[u]) /\ other[u] \in Addr
      BY <2>6
    <3>2. other[u] # a
      BY <2>1, <2>6, <3>1 DEF TUDiscipline
    <3>3. ASSUME b # NULL PROVE other[u] # b
      BY <2>1, <2>2, <2>3, <2>6, <3>1, <3>3 DEF TUDiscipline
    <3>4. QED
      BY <2>4, <3>1, <3>2, <3>3
  <2>7. QED
    BY <1>8, <2>1, <2>4, <2>5, <2>6 DEF HangupAct, Go
<1>9. CASE DialTone(t)
  BY <1>9 DEF DialTone, Reorder, Go
<1>10. CASE DialOther(t)
  BY <1>10 DEF DialOther, LockSelf, Go
<1>11. CASE DialNobody(t)
  BY <1>11 DEF DialNobody, Go
<1>12. CASE DialIdle(t)
  BY <1>12 DEF DialIdle, Go
<1>13. CASE DialBusy(t)
  BY <1>13 DEF DialBusy, Go
<1>14. CASE Chat(t)
  BY <1>14 DEF Chat, Go
<1>15. CASE ChatIdle(t)
  BY <1>15 DEF ChatIdle, Go
<1>16. CASE ChatConnected(t)
  BY <1>16 DEF ChatConnected, Reorder, Go
<1>17. CASE ChatAct(t)
  BY <1>17 DEF ChatAct, Return, Go
<1>18. CASE NotifyOnly(t)
  BY <1>18 DEF NotifyOnly, Return, Go
<1>19. CASE NotifySelf(t)
  BY <1>19 DEF NotifySelf, Go
<1>20. CASE NotifyPeer(t)
  BY <1>20 DEF NotifyPeer, Return, Go
<1>21. CASE Welcome(t)
  BY <1>21 DEF Welcome, Go
<1>22. CASE Register(t)
  BY <1>22 DEF Register, Go
<1>23. CASE Refuse(t)
  BY <1>23 DEF Refuse, Go
<1>24. ASSUME NEW c \in Commands \ {"dial"}, Receive(t, c)
      PROVE  PhaseInv'
  BY <1>24 DEF Receive, Go
<1>25. ASSUME NEW x \in Fd, ReceiveDial(t, x)
      PROVE  PhaseInv'
  BY <1>25 DEF ReceiveDial, Go
<1>26. CASE Unregister(t)
  BY <1>26 DEF Unregister, Go
<1>27. CASE UseFreed(t)
  BY <1>27 DEF UseFreed
<1>28. QED
  BY <1>1, <1>2, <1>3, <1>4, <1>5, <1>6, <1>7, <1>8, <1>9, <1>10, <1>11,
     <1>12, <1>13, <1>14, <1>15, <1>16, <1>17, <1>18, <1>19, <1>20, <1>21,
     <1>22, <1>23, <1>24, <1>25, <1>26, <1>27
  DEF Operation, Session

\* The two ends of a call.
LEMMA LinkNext ==
  ASSUME IInv, NEW t \in Fd, Operation(t) \/ Session(t)
  PROVE  LinkInv'
<1> USE FdAssumption, AddrAssumption
      DEF IInv, TypeOK, ThreadInv, HeapInv, PhaseInv, LinkInv, CutInv,
          NoDangling, LockDiscipline, TUDiscipline, Holds, Cutting, Places,
          Commands, States, Hangups, InCall, pbxVars, heapVars, threadVars,
          NULL, Touched, Printed
<1>1. CASE LockSwap(t)
  BY <1>1 DEF LockSwap, Go
<1>2. CASE LockPeer(t)
  BY <1>2 DEF LockPeer, Go
<1>3. CASE LockAgain(t)
  BY <1>3 DEF LockAgain, Go
<1>4. CASE PickupIdle(t)
  BY <1>4 DEF PickupIdle, LockSelf, Go
<1>5. CASE PickupRinging(t)
  BY <1>5 DEF PickupRinging, Reorder, Go
<1>6. CASE PickupAct(t)
  BY <1>6 DEF PickupAct, Go
<1>7. CASE Hangup(t)
  BY <1>7 DEF Hangup, Reorder, Go
<1>8. CASE HangupAct(t)
  BY <1>8 DEF HangupAct, AfterHangup, Go
<1>9. CASE DialTone(t)
  BY <1>9 DEF DialTone, Reorder, Go
<1>10. CASE DialOther(t)
  BY <1>10 DEF DialOther, LockSelf, Go
<1>11. CASE DialNobody(t)
  BY <1>11 DEF DialNobody, Go
<1>12. CASE DialIdle(t)
  BY <1>12 DEF DialIdle, Go
<1>13. CASE DialBusy(t)
  BY <1>13 DEF DialBusy, Go
<1>14. CASE Chat(t)
  BY <1>14 DEF Chat, Go
<1>15. CASE ChatIdle(t)
  BY <1>15 DEF ChatIdle, Go
<1>16. CASE ChatConnected(t)
  BY <1>16 DEF ChatConnected, Reorder, Go
<1>17. CASE ChatAct(t)
  BY <1>17 DEF ChatAct, Return, Go
<1>18. CASE NotifyOnly(t)
  BY <1>18 DEF NotifyOnly, Return, Go
<1>19. CASE NotifySelf(t)
  BY <1>19 DEF NotifySelf, Go
<1>20. CASE NotifyPeer(t)
  BY <1>20 DEF NotifyPeer, Return, Go
<1>21. CASE Welcome(t)
  BY <1>21 DEF Welcome, Go
<1>22. CASE Register(t)
  <2>1. PICK a \in Addr \ allocated :
          /\ allocated' = allocated \cup {a}
          /\ state' = [state EXCEPT ![a] = "ON_HOOK"]
          /\ opponent' = [opponent EXCEPT ![a] = NULL]
    BY <1>22 DEF Register
  <2>2. \A c \in allocated : opponent[c] \in allocated \cup {NULL}
    BY <1>22 DEF Register, NoDangling
  <2>3. QED
    BY <2>1, <2>2
<1>23. CASE Refuse(t)
  BY <1>23 DEF Refuse, Go
<1>24. ASSUME NEW c \in Commands \ {"dial"}, Receive(t, c)
      PROVE  LinkInv'
  BY <1>24 DEF Receive, Go
<1>25. ASSUME NEW x \in Fd, ReceiveDial(t, x)
      PROVE  LinkInv'
  BY <1>25 DEF ReceiveDial, Go
<1>26. CASE Unregister(t)
  BY <1>26 DEF Unregister, Go
<1>27. CASE UseFreed(t)
  BY <1>27 DEF UseFreed
<1>28. QED
  BY <1>1, <1>2, <1>3, <1>4, <1>5, <1>6, <1>7, <1>8, <1>9, <1>10, <1>11,
     <1>12, <1>13, <1>14, <1>15, <1>16, <1>17, <1>18, <1>19, <1>20, <1>21,
     <1>22, <1>23, <1>24, <1>25, <1>26, <1>27
  DEF Operation, Session

\* Pointers to TUs.
LEMMA DanglingNext ==
  ASSUME IInv, NEW t \in Fd, Operation(t) \/ Session(t)
  PROVE  NoDangling'
<1> USE FdAssumption, AddrAssumption
      DEF IInv, TypeOK, ThreadInv, HeapInv, PhaseInv, NoDangling, Places,
          Commands, States, Hangups, InCall, pbxVars, heapVars, threadVars,
          NULL, Touched, Printed
<1>1. CASE LockSwap(t)
  BY <1>1 DEF LockSwap, Go
<1>2. CASE LockPeer(t)
  BY <1>2 DEF LockPeer, Go
<1>3. CASE LockAgain(t)
  BY <1>3 DEF LockAgain, Go
<1>4. CASE PickupIdle(t)
  BY <1>4 DEF PickupIdle, LockSelf, Go
<1>5. CASE PickupRinging(t)
  BY <1>5 DEF PickupRinging, Reorder, Go
<1>6. CASE PickupAct(t)
  BY <1>6 DEF PickupAct, Go
<1>7. CASE Hangup(t)
  BY <1>7 DEF Hangup, Reorder, Go
<1>8. CASE HangupAct(t)
  BY <1>8 DEF HangupAct, AfterHangup, Go
<1>9. CASE DialTone(t)
  BY <1>9 DEF DialTone, Reorder, Go
<1>10. CASE DialOther(t)
  BY <1>10 DEF DialOther, LockSelf, Go
<1>11. CASE DialNobody(t)
  BY <1>11 DEF DialNobody, Go
<1>12. CASE DialIdle(t)
  BY <1>12 DEF DialIdle, Go
<1>13. CASE DialBusy(t)
  BY <1>13 DEF DialBusy, Go
<1>14. CASE Chat(t)
  BY <1>14 DEF Chat, Go
<1>15. CASE ChatIdle(t)
  BY <1>15 DEF ChatIdle, Go
<1>16. CASE ChatConnected(t)
  BY <1>16 DEF ChatConnected, Reorder, Go
<1>17. CASE ChatAct(t)
  BY <1>17 DEF ChatAct, Return, Go
<1>18. CASE NotifyOnly(t)
  BY <1>18 DEF NotifyOnly, Return, Go
<1>19. CASE NotifySelf(t)
  BY <1>19 DEF NotifySelf, Go
<1>20. CASE NotifyPeer(t)
  BY <1>20 DEF NotifyPeer, Return, Go
<1>21. CASE Welcome(t)
  BY <1>21 DEF Welcome, Go
<1>22. CASE Register(t)
  BY <1>22 DEF Register, Go
<1>23. CASE Refuse(t)
  BY <1>23 DEF Refuse, Go
<1>24. ASSUME NEW c \in Commands \ {"dial"}, Receive(t, c)
      PROVE  NoDangling'
  BY <1>24 DEF Receive, Go
<1>25. ASSUME NEW x \in Fd, ReceiveDial(t, x)
      PROVE  NoDangling'
  BY <1>25 DEF ReceiveDial, Go
<1>26. CASE Unregister(t)
  <2> DEFINE a == client[t]
  <2>1. SUFFICES ASSUME ~orphaned', NEW c \in allocated'
                 PROVE  opponent'[c] \in allocated' \cup {NULL}
    OBVIOUS
  <2>2. c \in allocated /\ c # a /\ allocated' = allocated \ {a}
    BY <1>26, <2>1 DEF Unregister, Go
  <2>3. ~orphaned /\ opponent[c] # a
    BY <1>26, <2>1, <2>2 DEF Unregister, Go
  <2>4. opponent'[c] = opponent[c]
    BY <1>26, <2>2 DEF Unregister, Go
  <2>5. QED
    BY <2>2, <2>3, <2>4
<1>27. CASE UseFreed(t)
  BY <1>27 DEF UseFreed
<1>28. QED
  BY <1>1, <1>2, <1>3, <1>4, <1>5, <1>6, <1>7, <1>8, <1>9, <1>10, <1>11,
     <1>12, <1>13, <1>14, <1>15, <1>16, <1>17, <1>18, <1>19, <1>20, <1>21,
     <1>22, <1>23, <1>24, <1>25, <1>26, <1>27
  DEF Operation, Session

\* What a step dereferences.
LEMMA FaultNext ==
  ASSUME IInv, NEW t \in Fd, Operation(t) \/ Session(t)
  PROVE  FaultNeedsOrphan'
<1> USE FdAssumption, AddrAssumption
      DEF IInv, TypeOK, ThreadInv, HeapInv, LockDiscipline, SwapDiscipline,
          PbxDiscipline, TUDiscipline, WindowInv, PhaseInv, Holds, HoldsSwap,
          HoldsPbx, Cutting, Places, Commands, States, Hangups, InCall,
          pbxVars, heapVars, threadVars, NULL, Touched, Printed, LinkInv,
          NoDangling, FaultNeedsOrphan
<1>1. CASE LockSwap(t)
  BY <1>1 DEF LockSwap, Go
<1>2. CASE LockPeer(t)
  BY <1>2 DEF LockPeer, Go
<1>3. CASE LockAgain(t)
  BY <1>3 DEF LockAgain, Go
<1>4. CASE PickupIdle(t)
  BY <1>4 DEF PickupIdle, LockSelf, Go
<1>5. CASE PickupRinging(t)
  BY <1>5 DEF PickupRinging, Reorder, Go
<1>6. CASE PickupAct(t)
  BY <1>6 DEF PickupAct, Go
<1>7. CASE Hangup(t)
  BY <1>7 DEF Hangup, Reorder, Go
<1>8. CASE HangupAct(t)
  BY <1>8 DEF HangupAct, AfterHangup, Go
<1>9. CASE DialTone(t)
  BY <1>9 DEF DialTone, Reorder, Go
<1>10. CASE DialOther(t)
  BY <1>10 DEF DialOther, LockSelf, Go
<1>11. CASE DialNobody(t)
  BY <1>11 DEF DialNobody, Go
<1>12. CASE DialIdle(t)
  BY <1>12 DEF DialIdle, Go
<1>13. CASE DialBusy(t)
  BY <1>13 DEF DialBusy, Go
<1>14. CASE Chat(t)
  BY <1>14 DEF Chat, Go
<1>15. CASE ChatIdle(t)
  BY <1>15 DEF ChatIdle, Go
<1>16. CASE ChatConnected(t)
  BY <1>16 DEF ChatConnected, Reorder, Go
<1>17. CASE ChatAct(t)
  BY <1>17 DEF ChatAct, Return, Go
<1>18. CASE NotifyOnly(t)
  BY <1>18 DEF NotifyOnly, Return, Go
<1>19. CASE NotifySelf(t)
  BY <1>19 DEF NotifySelf, Go
<1>20. CASE NotifyPeer(t)
  BY <1>20 DEF NotifyPeer, Return, Go
<1>21. CASE Welcome(t)
  BY <1>21 DEF Welcome, Go
<1>22. CASE Register(t)
  BY <1>22 DEF Register, Go
<1>23. CASE Refuse(t)
  BY <1>23 DEF Refuse, Go
<1>24. ASSUME NEW c \in Commands \ {"dial"}, Receive(t, c)
      PROVE  FaultNeedsOrphan'
  BY <1>24 DEF Receive, Go
<1>25. ASSUME NEW x \in Fd, ReceiveDial(t, x)
      PROVE  FaultNeedsOrphan'
  BY <1>25 DEF ReceiveDial, Go
<1>26. CASE Unregister(t)
  BY <1>26 DEF Unregister, Go
<1>27. CASE UseFreed(t)
  BY <1>27 DEF UseFreed
<1>28. QED
  BY <1>1, <1>2, <1>3, <1>4, <1>5, <1>6, <1>7, <1>8, <1>9, <1>10, <1>11,
     <1>12, <1>13, <1>14, <1>15, <1>16, <1>17, <1>18, <1>19, <1>20, <1>21,
     <1>22, <1>23, <1>24, <1>25, <1>26, <1>27
  DEF Operation, Session

-----------------------------------------------------------------------------
(***************************************************************************)
(* What a step of one thread leaves alone, and what it may do to one TU.   *)
(***************************************************************************)

\* A step of t changes nothing of what another thread holds or cuts.
OthersUnchanged(t) ==
    \A u \in Fd : u # t =>
        /\ \A a \in Addr : Holds(u, a)' <=> Holds(u, a)
        /\ Cutting(u)' <=> Cutting(u)

\* What a step of t may do with the mutex at a: leave it, take it when it is
\* free (or new), or release it when t holds it.
Moves(t, a) ==
    \/ /\ Holds(t, a)' <=> Holds(t, a)
       /\ a \in allocated' => a \in allocated /\ lock'[a] = lock[a]
    \/ /\ IF a \in allocated THEN lock[a] = 1
                             ELSE \A u \in Fd : ~Holds(u, a)
       /\ Holds(t, a)' /\ lock'[a] = 0
    \/ /\ Holds(t, a) /\ ~Holds(t, a)'
       /\ a \in allocated' => a \in allocated /\ lock'[a] = 1

\* What a step of t may do with the opponent of the TU at a, so that a
\* pointer outlives the call only during t's hangup.
Leaves(t, a) ==
    \/ opponent'[a] = NULL
    \/ state'[a] \in InCall
    \/ Cutting(t)' /\ Holds(t, a)'
    \/ /\ a \in allocated /\ opponent'[a] = opponent[a] /\ state'[a] = state[a]
       /\ ~(Cutting(t) /\ Holds(t, a))

\* A step of t leaves the other threads' locks alone.
LEMMA OthersStay ==
  ASSUME IInv, NEW t \in Fd, Operation(t) \/ Session(t)
  PROVE  OthersUnchanged(t)
<1> USE DEF IInv, TypeOK, OthersUnchanged, Holds, Cutting, pbxVars, heapVars,
            threadVars, NULL
<1>1. CASE LockSwap(t)
  BY <1>1 DEF LockSwap, Go
<1>2. CASE LockPeer(t)
  BY <1>2 DEF LockPeer, Go
<1>3. CASE LockAgain(t)
  BY <1>3 DEF LockAgain, Go
<1>4. CASE PickupIdle(t)
  BY <1>4 DEF PickupIdle, LockSelf, Go
<1>5. CASE PickupRinging(t)
  BY <1>5 DEF PickupRinging, Reorder, Go
<1>6. CASE PickupAct(t)
  BY <1>6 DEF PickupAct, Go
<1>7. CASE Hangup(t)
  BY <1>7 DEF Hangup, Reorder, Go
<1>8. CASE HangupAct(t)
  BY <1>8 DEF HangupAct, AfterHangup, Go
<1>9. CASE DialTone(t)
  BY <1>9 DEF DialTone, Reorder, Go
<1>10. CASE DialOther(t)
  BY <1>10 DEF DialOther, LockSelf, Go
<1>11. CASE DialNobody(t)
  BY <1>11 DEF DialNobody, Go
<1>12. CASE DialIdle(t)
  BY <1>12 DEF DialIdle, Go
<1>13. CASE DialBusy(t)
  BY <1>13 DEF DialBusy, Go
<1>14. CASE Chat(t)
  BY <1>14 DEF Chat, Go
<1>15. CASE ChatIdle(t)
  BY <1>15 DEF ChatIdle, Go
<1>16. CASE ChatConnected(t)
  BY <1>16 DEF ChatConnected, Reorder, Go
<1>17. CASE ChatAct(t)
  BY <1>17 DEF ChatAct, Return, Go
<1>18. CASE NotifyOnly(t)
  BY <1>18 DEF NotifyOnly, Return, Go
<1>19. CASE NotifySelf(t)
  BY <1>19 DEF NotifySelf, Go
<1>20. CASE NotifyPeer(t)
  BY <1>20 DEF NotifyPeer, Return, Go
<1>21. CASE Welcome(t)
  BY <1>21 DEF Welcome, Go
<1>22. CASE Register(t)
  BY <1>22 DEF Register, Go
<1>23. CASE Refuse(t)
  BY <1>23 DEF Refuse, Go
<1>24. ASSUME NEW c \in Commands \ {"dial"}, Receive(t, c)
      PROVE  OthersUnchanged(t)
  BY <1>24 DEF Receive, Go
<1>25. ASSUME NEW x \in Fd, ReceiveDial(t, x)
      PROVE  OthersUnchanged(t)
  BY <1>25 DEF ReceiveDial, Go
<1>26. CASE Unregister(t)
  BY <1>26 DEF Unregister, Go
<1>27. CASE UseFreed(t)
  BY <1>27 DEF UseFreed
<1>28. QED
  BY <1>1, <1>2, <1>3, <1>4, <1>5, <1>6, <1>7, <1>8, <1>9, <1>10, <1>11,
     <1>12, <1>13, <1>14, <1>15, <1>16, <1>17, <1>18, <1>19, <1>20, <1>21,
     <1>22, <1>23, <1>24, <1>25, <1>26, <1>27
  DEF Operation, Session

\* While no TU is orphaned, no thread holds the mutex of a freed TU.
LEMMA FreshNotHeld ==
  ASSUME IInv, ~orphaned, NEW a \in Addr \ allocated, NEW u \in Fd
  PROVE  ~Holds(u, a)
<1>1. a # client[u]
  BY AddrAssumption DEF IInv, ThreadInv, NULL
<1>2. ASSUME a = other[u], pc[u] \in {"again", "act", "notify", "notifyPeer"}
      PROVE  FALSE
  <2>1. client[u] \in allocated /\ a # NULL
    BY <1>2, AddrAssumption DEF IInv, ThreadInv, NULL
  <2>2. opponent[client[u]] \in allocated \cup {NULL}
    BY <2>1 DEF IInv, NoDangling
  <2>3. other[u] \in allocated \cup {NULL}
    BY <1>2, <2>1, <2>2 DEF IInv, PhaseInv
  <2>4. QED
    BY <1>2, <2>1, <2>3
<1>3. QED
  BY <1>1, <1>2 DEF Holds

\* A step that moves each mutex in one of the three ways keeps the discipline.
LEMMA TUStep ==
  ASSUME TypeOK, TUDiscipline, NEW t \in Fd, OthersUnchanged(t),
         allocated' \subseteq Addr,
         \A a \in Addr : Moves(t, a)
  PROVE  TUDiscipline'
<1>1. ASSUME NEW a \in allocated'
      PROVE  lock'[a] = 0 <=> \E u \in Fd : Holds(u, a)'
  <2>1. a \in Addr /\ lock[a] \in {0, 1}
    BY <1>1 DEF TypeOK
  <2>2. a \in allocated => (lock[a] = 0 <=> \E u \in Fd : Holds(u, a))
    BY <2>1 DEF TUDiscipline
  <2>3. \A u \in Fd : Holds(t, a) /\ Holds(u, a) => u = t
    BY <2>1 DEF TUDiscipline
  <2>4. \A u \in Fd : u # t => (Holds(u, a)' <=> Holds(u, a))
    BY <2>1 DEF OthersUnchanged
  <2>5. Moves(t, a)
    BY <2>1
  <2>6. QED
    BY <1>1, <2>1, <2>2, <2>3, <2>4, <2>5 DEF Moves
<1>2. ASSUME NEW a \in Addr, NEW u \in Fd, NEW v \in Fd,
             Holds(u, a)', Holds(v, a)'
      PROVE  u = v
  <2>1. \A w \in Fd : w # t => (Holds(w, a)' <=> Holds(w, a))
    BY DEF OthersUnchanged
  <2>2. Moves(t, a)
    OBVIOUS
  <2>3. a \in allocated => (lock[a] = 0 <=> \E w \in Fd : Holds(w, a))
    BY DEF TUDiscipline
  <2>4. \A w, z \in Fd : Holds(w, a) /\ Holds(z, a) => w = z
    BY DEF TUDiscipline
  <2>5. Holds(t, a)' => Holds(t, a) \/ \A w \in Fd : ~Holds(w, a)
    BY <2>2, <2>3 DEF Moves
  <2>6. QED
    BY <1>2, <2>1, <2>4, <2>5
<1>3. QED
  BY <1>1, <1>2 DEF TUDiscipline

\* A step that leaves each pointer in one of the four ways keeps CutInv.
LEMMA CutStep ==
  ASSUME TypeOK, CutInv, NEW t \in Fd, OthersUnchanged(t),
         allocated' \subseteq Addr,
         \A a \in allocated' : Leaves(t, a)
  PROVE  CutInv'
<1> SUFFICES ASSUME NEW a \in allocated',
                    opponent'[a] # NULL, state'[a] \notin InCall
             PROVE  \E u \in Fd : Cutting(u)' /\ Holds(u, a)'
  BY DEF CutInv, InCall, NULL
<1>1. a \in Addr /\ Leaves(t, a)
  OBVIOUS
<1>2. CASE Cutting(t)' /\ Holds(t, a)'
  BY <1>2
<1>3. CASE /\ a \in allocated /\ opponent'[a] = opponent[a]
           /\ state'[a] = state[a] /\ ~(Cutting(t) /\ Holds(t, a))
  <2>1. PICK u \in Fd : Cutting(u) /\ Holds(u, a)
    BY <1>3 DEF CutInv
  <2>2. u # t
    BY <1>3, <2>1
  <2>3. QED
    BY <1>1, <2>1, <2>2 DEF OthersUnchanged
<1>4. QED
  BY <1>1, <1>2, <1>3 DEF Leaves

\* Every action moves each mutex in one of the three ways.
LEMMA MutexMoves ==
  ASSUME IInv, NEW t \in Fd, Operation(t) \/ Session(t)
  PROVE  \A a \in Addr : Moves(t, a)
<1> USE FdAssumption, AddrAssumption
      DEF IInv, TypeOK, ThreadInv, HeapInv, LockDiscipline, TUDiscipline,
          PhaseInv, Moves, Holds, Places, Commands, States, Hangups, InCall,
          pbxVars, heapVars, threadVars, NULL, Touched, Printed
<1>1. CASE LockSwap(t)
  BY <1>1 DEF LockSwap, Go
<1>2. CASE LockPeer(t)
  BY <1>2 DEF LockPeer, Go
<1>3. CASE LockAgain(t)
  BY <1>3 DEF LockAgain, Go
<1>4. CASE PickupIdle(t)
  BY <1>4 DEF PickupIdle, LockSelf, Go
<1>5. CASE PickupRinging(t)
  BY <1>5 DEF PickupRinging, Reorder, Go
<1>6. CASE PickupAct(t)
  BY <1>6 DEF PickupAct, Go
<1>7. CASE Hangup(t)
  BY <1>7 DEF Hangup, Reorder, Go
<1>8. CASE HangupAct(t)
  BY <1>8 DEF HangupAct, AfterHangup, Go
<1>9. CASE DialTone(t)
  BY <1>9 DEF DialTone, Reorder, Go
<1>10. CASE DialOther(t)
  BY <1>10 DEF DialOther, LockSelf, Go
<1>11. CASE DialNobody(t)
  BY <1>11 DEF DialNobody, Go
<1>12. CASE DialIdle(t)
  BY <1>12 DEF DialIdle, Go
<1>13. CASE DialBusy(t)
  BY <1>13 DEF DialBusy, Go
<1>14. CASE Chat(t)
  BY <1>14 DEF Chat, Go
<1>15. CASE ChatIdle(t)
  BY <1>15 DEF ChatIdle, Go
<1>16. CASE ChatConnected(t)
  BY <1>16 DEF ChatConnected, Reorder, Go
<1>17. CASE ChatAct(t)
  BY <1>17 DEF ChatAct, Return, Go
<1>18. CASE NotifyOnly(t)
  BY <1>18 DEF NotifyOnly, Return, Go
<1>19. CASE NotifySelf(t)
  BY <1>19 DEF NotifySelf, Go
<1>20. CASE NotifyPeer(t)
  BY <1>20 DEF NotifyPeer, Return, Go
<1>21. CASE Welcome(t)
  BY <1>21 DEF Welcome, Go
<1>22. CASE Register(t)
  BY <1>22, FreshNotHeld DEF Register, Go
<1>23. CASE Refuse(t)
  BY <1>23 DEF Refuse, Go
<1>24. ASSUME NEW c \in Commands \ {"dial"}, Receive(t, c)
      PROVE  \A a \in Addr : Moves(t, a)
  BY <1>24 DEF Receive, Go
<1>25. ASSUME NEW x \in Fd, ReceiveDial(t, x)
      PROVE  \A a \in Addr : Moves(t, a)
  BY <1>25 DEF ReceiveDial, Go
<1>26. CASE Unregister(t)
  BY <1>26 DEF Unregister, Go
<1>27. CASE UseFreed(t)
  BY <1>27 DEF UseFreed
<1>28. QED
  BY <1>1, <1>2, <1>3, <1>4, <1>5, <1>6, <1>7, <1>8, <1>9, <1>10, <1>11,
     <1>12, <1>13, <1>14, <1>15, <1>16, <1>17, <1>18, <1>19, <1>20, <1>21,
     <1>22, <1>23, <1>24, <1>25, <1>26, <1>27
  DEF Operation, Session

\* Every action leaves each pointer in one of the four ways.
LEMMA PointerLeaves ==
  ASSUME IInv, NEW t \in Fd, Operation(t) \/ Session(t)
  PROVE  \A a \in allocated' : Leaves(t, a)
<1> USE FdAssumption, AddrAssumption
      DEF IInv, TypeOK, ThreadInv, HeapInv, LockDiscipline, TUDiscipline,
          PhaseInv, CutInv, Leaves, Cutting, Holds, Places, Commands, States,
          Hangups, InCall, pbxVars, heapVars, threadVars, NULL, Touched,
          Printed
<1>1. CASE LockSwap(t)
  BY <1>1 DEF LockSwap, Go
<1>2. CASE LockPeer(t)
  BY <1>2 DEF LockPeer, Go
<1>3. CASE LockAgain(t)
  BY <1>3 DEF LockAgain, Go
<1>4. CASE PickupIdle(t)
  BY <1>4 DEF PickupIdle, LockSelf, Go
<1>5. CASE PickupRinging(t)
  BY <1>5 DEF PickupRinging, Reorder, Go
<1>6. CASE PickupAct(t)
  BY <1>6 DEF PickupAct, Go
<1>7. CASE Hangup(t)
  BY <1>7 DEF Hangup, Reorder, Go
<1>8. CASE HangupAct(t)
  BY <1>8 DEF HangupAct, AfterHangup, Go
<1>9. CASE DialTone(t)
  BY <1>9 DEF DialTone, Reorder, Go
<1>10. CASE DialOther(t)
  BY <1>10 DEF DialOther, LockSelf, Go
<1>11. CASE DialNobody(t)
  BY <1>11 DEF DialNobody, Go
<1>12. CASE DialIdle(t)
  BY <1>12 DEF DialIdle, Go
<1>13. CASE DialBusy(t)
  BY <1>13 DEF DialBusy, Go
<1>14. CASE Chat(t)
  BY <1>14 DEF Chat, Go
<1>15. CASE ChatIdle(t)
  BY <1>15 DEF ChatIdle, Go
<1>16. CASE ChatConnected(t)
  BY <1>16 DEF ChatConnected, Reorder, Go
<1>17. CASE ChatAct(t)
  BY <1>17 DEF ChatAct, Return, Go
<1>18. CASE NotifyOnly(t)
  BY <1>18 DEF NotifyOnly, Return, Go
<1>19. CASE NotifySelf(t)
  BY <1>19 DEF NotifySelf, Go
<1>20. CASE NotifyPeer(t)
  BY <1>20 DEF NotifyPeer, Return, Go
<1>21. CASE Welcome(t)
  BY <1>21 DEF Welcome, Go
<1>22. CASE Register(t)
  BY <1>22 DEF Register, Go
<1>23. CASE Refuse(t)
  BY <1>23 DEF Refuse, Go
<1>24. ASSUME NEW c \in Commands \ {"dial"}, Receive(t, c)
      PROVE  \A a \in allocated' : Leaves(t, a)
  BY <1>24 DEF Receive, Go
<1>25. ASSUME NEW x \in Fd, ReceiveDial(t, x)
      PROVE  \A a \in allocated' : Leaves(t, a)
  BY <1>25 DEF ReceiveDial, Go
<1>26. CASE Unregister(t)
  BY <1>26 DEF Unregister, Go
<1>27. CASE UseFreed(t)
  BY <1>27 DEF UseFreed
<1>28. QED
  BY <1>1, <1>2, <1>3, <1>4, <1>5, <1>6, <1>7, <1>8, <1>9, <1>10, <1>11,
     <1>12, <1>13, <1>14, <1>15, <1>16, <1>17, <1>18, <1>19, <1>20, <1>21,
     <1>22, <1>23, <1>24, <1>25, <1>26, <1>27
  DEF Operation, Session

\* TUDiscipline and CutInv follow from what a step does to one TU.
LEMMA TUNext ==
  ASSUME IInv, NEW t \in Fd, Operation(t) \/ Session(t)
  PROVE  TUDiscipline'
<1>1. TypeOK /\ TUDiscipline
  BY DEF IInv, LockDiscipline
<1>2. allocated' \subseteq Addr
  BY TypeNext DEF TypeOK
<1>3. QED
  BY <1>1, <1>2, OthersStay, MutexMoves, TUStep

\* The same for the pointers.
LEMMA CutNext ==
  ASSUME IInv, NEW t \in Fd, Operation(t) \/ Session(t)
  PROVE  CutInv'
<1>1. TypeOK /\ CutInv
  BY DEF IInv
<1>2. allocated' \subseteq Addr
  BY TypeNext DEF TypeOK
<1>3. QED
  BY <1>1, <1>2, OthersStay, PointerLeaves, CutStep

-----------------------------------------------------------------------------
\* Every step of the exchange keeps the inductive invariant.
LEMMA NextIInv == IInv /\ [Next]_vars => IInv'
<1> SUFFICES ASSUME IInv, [Next]_vars PROVE IInv'
  OBVIOUS
<1>1. CASE UNCHANGED vars
  <2> USE <1>1 DEF vars, pbxVars, heapVars, threadVars, IInv
  <2>1. TypeOK'
    BY DEF TypeOK
  <2>2. LockDiscipline'
    BY DEF LockDiscipline, SwapDiscipline, PbxDiscipline, TUDiscipline,
           Holds, HoldsSwap, HoldsPbx
  <2>3. ThreadInv' /\ HeapInv'
    BY DEF ThreadInv, HeapInv
  <2>4. WindowInv'
    BY DEF WindowInv, Holds
  <2>5. PhaseInv' /\ CutInv'
    BY DEF PhaseInv, CutInv, Cutting, Holds
  <2>6. LinkInv' /\ NoDangling' /\ FaultNeedsOrphan'
    BY DEF LinkInv, NoDangling, FaultNeedsOrphan
  <2>7. QED
    BY <2>1, <2>2, <2>3, <2>4, <2>5, <2>6
<1>2. ASSUME NEW t \in Fd, Operation(t) \/ Session(t) PROVE IInv'
  <2>1. LockDiscipline'
    BY <1>2, SwapNext, PbxNext, TUNext DEF LockDiscipline
  <2>2. QED
    BY <1>2, <2>1, TypeNext, ThreadNext, HeapNext, WindowNext, PhaseNext,
       LinkNext, CutNext, DanglingNext, FaultNext DEF IInv
<1>3. QED
  BY <1>1, <1>2 DEF Next, Undefined

\* The inductive invariant holds.
LEMMA Inductive == Spec => []IInv
  BY InitIInv, NextIInv, PTL DEF Spec

-----------------------------------------------------------------------------
(***************************************************************************)
(* Theorems.                                                               *)
(***************************************************************************)

\* Every variable keeps its type and every semaphore of the exchange is
\* binary: no path of pbx.c releases a mutex it does not hold.
THEOREM TypeCorrect == Spec => []TypeOK
<1>1. IInv => TypeOK
  BY DEF IInv
<1>2. QED
  BY <1>1, Inductive, PTL

\* Each of the exchange's semaphores is 0 exactly while one thread holds it,
\* through the release and relocking of reorder_mutex (pbx.c:311-327).
THEOREM Locks == Spec => []LockDiscipline
<1>1. IInv => LockDiscipline
  BY DEF IInv
<1>2. QED
  BY <1>1, Inductive, PTL

\* A thread that waits for the mutex of a TU waits for one that writes to a
\* client or acts, and so waits for nobody: the others that hold such a mutex
\* have pbx->swap, which only this thread has.
LEMMA WaitsForActor ==
  ASSUME ThreadInv, SwapDiscipline, NEW t \in Fd, NEW u \in Fd,
         pc[t] \in {"self", "again", "peer"}, WaitsFor(t, u)
  PROVE  pc[u] \in {"welcome", "chat", "act", "notify", "notifyPeer"}
<1> SUFFICES ASSUME pc[u] \in {"peer", "again"} PROVE FALSE
  BY DEF WaitsFor, Holds
<1>1. u = t
  BY DEF SwapDiscipline, HoldsSwap
<1>2. other[t] # client[t]
  BY <1>1 DEF ThreadInv
<1>3. QED
  BY <1>1, <1>2 DEF WaitsFor, Holds

\* No threads wait for each other in a circle (pbx.c:118-272, 311-327): the
\* semaphores are taken in the order of pbx->mutex, pbx->swap and the TUs, and
\* whoever waits for a TU waits for no thread that waits.
THEOREM NoDeadlock == Spec => []NoCircularWait
<1> DEFINE Acting  == {"refused", "welcome", "chat", "act", "notify", "notifyPeer"}
           Locking == {"self", "again", "peer"}
<1>1. ASSUME IInv PROVE NoCircularWait
  <2> SUFFICES ASSUME NEW S \in (SUBSET Fd) \ {{}}
               PROVE  \E t \in S : \A u \in S : ~WaitsFor(t, u)
    BY DEF NoCircularWait
  <2>1. \A t \in S : t \in Fd /\ pc[t] \in Places
    BY <1>1 DEF IInv, TypeOK
  <2>2. CASE \E t \in S : pc[t] \in Acting
    BY <2>2 DEF WaitsFor
  <2>3. CASE /\ \E t \in S : pc[t] \in Locking
             /\ \A u \in S : pc[u] \notin Acting
    BY <1>1, <2>1, <2>3, WaitsForActor DEF IInv, LockDiscipline
  <2>4. CASE /\ \E t \in S : pc[t] = "swap"
             /\ \A u \in S : pc[u] \notin Acting \cup Locking
    BY <2>4 DEF WaitsFor, HoldsSwap
  <2>5. CASE \A u \in S : pc[u] \notin Acting \cup Locking \cup {"swap"}
    <3>1. \A u \in S : ~HoldsSwap(u) /\ ~HoldsPbx(u)
      BY <2>5 DEF HoldsSwap, HoldsPbx
    <3>2. \A u \in S : pc[u] \in {"closed", "ready", "unregister"}
      BY <2>1, <2>5 DEF Places
    <3>3. \A t, u \in S : ~WaitsFor(t, u)
      BY <3>1, <3>2 DEF WaitsFor
    <3>4. PICK t \in S : TRUE
      OBVIOUS
    <3>5. QED
      BY <3>3, <3>4
  <2>6. QED
    BY <2>2, <2>3, <2>4, <2>5
<1>2. QED
  BY <1>1, Inductive, PTL

\* The worry of the comment above reorder_mutex is unfounded: no operation
\* acts on a state or an opponent that changed after it was read.
THEOREM Decisions == Spec => []DecisionHolds
<1>1. IInv => DecisionHolds
  BY DEF IInv, PhaseInv, DecisionHolds
<1>2. QED
  BY <1>1, Inductive, PTL

\* Freed memory is dereferenced only after pbx_unregister freed a TU that
\* another TU pointed to.
THEOREM OnlyOrphansFault == Spec => []FaultNeedsOrphan
<1>1. IInv => FaultNeedsOrphan
  BY DEF IInv
<1>2. QED
  BY <1>1, Inductive, PTL

-----------------------------------------------------------------------------
(***************************************************************************)
(* Clients are told: when nobody works on a TU, the last line its client   *)
(* got is the TU's present state.                                          *)
(***************************************************************************)

\* Thread t has yet to write the state of the TU at a to its client.
Pending(t, a) ==
    \/ pc[t] = "welcome" /\ a = client[t]
    \/ pc[t] = "notify" /\ a \in {client[t], other[t]}
    \/ pc[t] = "notifyPeer" /\ a = other[t]

\* A client whose notification is not pending is up to date.  The property
\* alone is not inductive: a notification is due while the mutex is held.
ToldInv ==
    ~orphaned =>
        \A a \in allocated :
            (\A t \in Fd : ~Pending(t, a)) => told[fd[a]] = Line(a)

\* A line changes only with its TU's state, opponent and descriptors.
LEMMA LineKept ==
  ASSUME NEW a, state'[a] = state[a], fd'[a] = fd[a],
         state[a] = "CONNECTED" =>
             opponent'[a] = opponent[a] /\ fd'[opponent[a]] = fd[opponent[a]]
  PROVE  Line(a)' = Line(a)
  BY DEF Line

\* A step of thread t leaves the other threads where they are.
LEMMA OthersWait ==
  ASSUME IInv, NEW t \in Fd, Operation(t) \/ Session(t), NEW u \in Fd, u # t
  PROVE  /\ pc'[u] = pc[u] /\ client'[u] = client[u] /\ other'[u] = other[u]
         /\ \A a : Pending(u, a)' <=> Pending(u, a)
<1> USE DEF IInv, TypeOK, Go, pbxVars, heapVars, threadVars
<1>1. Operation(t) => /\ pc'[u] = pc[u] /\ client'[u] = client[u]
                      /\ other'[u] = other[u]
  BY DEF Operation, LockSwap, LockPeer, LockAgain, PickupIdle, PickupRinging,
         PickupAct, Hangup, HangupAct, DialTone, DialOther, DialNobody,
         DialIdle, DialBusy, Chat, ChatIdle, ChatConnected, ChatAct,
         NotifyOnly, NotifySelf, NotifyPeer, Welcome, LockSelf, Reorder, Return
<1>2. Session(t) => /\ pc'[u] = pc[u] /\ client'[u] = client[u]
                    /\ other'[u] = other[u]
  BY DEF Session, Register, Refuse, Receive, ReceiveDial, Unregister, UseFreed
<1>3. QED
  BY <1>1, <1>2 DEF Pending

\* No two TUs share a descriptor.
LEMMA OneEach ==
  ASSUME IInv, NEW a \in allocated, NEW b \in allocated, a # b
  PROVE  fd[a] \in Fd /\ fd[a] # fd[b]
  BY DEF IInv, HeapInv

\* A step that writes to no client and changes no TU; what thread t owes, it
\* owes afterwards.
LEMMA UntoldStep ==
  ASSUME ToldInv, NEW t \in Fd,
         \A u \in Fd \ {t} : \A a : Pending(u, a)' <=> Pending(u, a),
         UNCHANGED <<allocated, state, opponent, fd, told, orphaned>>,
         \A a : Pending(t, a) => Pending(t, a)'
  PROVE  ToldInv'
<1>1. \A a : Line(a)' = Line(a)
  BY LineKept
<1>2. QED
  BY <1>1 DEF ToldInv

\* A step that changes the TUs of S, whose clients are then owed a
\* notification, and no other ones.
LEMMA ChangeStep ==
  ASSUME ToldInv, NEW t \in Fd, NEW S,
         \A u \in Fd \ {t} : \A a : Pending(u, a)' <=> Pending(u, a),
         UNCHANGED <<allocated, fd, told, orphaned>>,
         \A a \in S : Pending(t, a)',
         \A a \in allocated \ S :
             state'[a] = state[a] /\ opponent'[a] = opponent[a],
         \A a : ~Pending(t, a)
  PROVE  ToldInv'
<1>1. \A a \in allocated \ S : Line(a)' = Line(a)
  BY LineKept
<1>2. QED
  BY <1>1 DEF ToldInv

\* A step that writes the line of the TU at b to its client, and leaves at
\* most that client's notification to be written.
LEMMA WriteStep ==
  ASSUME IInv, ToldInv, NEW t \in Fd, NEW b \in allocated,
         \A u \in Fd \ {t} : \A a : Pending(u, a)' <=> Pending(u, a),
         UNCHANGED <<allocated, state, fd, orphaned>>,
         \A a \in allocated :
             state[a] = "CONNECTED" => opponent'[a] = opponent[a],
         told' = [told EXCEPT ![fd[b]] = Line(b)],
         \A a \in allocated : a # b /\ Pending(t, a) => Pending(t, a)'
  PROVE  ToldInv'
<1>1. \A a \in allocated : Line(a)' = Line(a)
  BY LineKept
<1>2. told'[fd[b]] = Line(b)
  BY DEF IInv, TypeOK, HeapInv
<1>3. \A a \in allocated : a # b => told'[fd[a]] = told[fd[a]]
  BY OneEach DEF IInv, TypeOK
<1>4. QED
  BY <1>1, <1>2, <1>3 DEF ToldInv

\* Every step keeps the clients told.
LEMMA ToldNext ==
  ASSUME IInv, ToldInv, NEW t \in Fd, Operation(t) \/ Session(t)
  PROVE  ToldInv'
<1> DEFINE a == client[t]
           b == other[t]
<1>0. \A u \in Fd \ {t} : \A x : Pending(u, x)' <=> Pending(u, x)
  BY OthersWait
<1>1. ASSUME UNCHANGED <<allocated, state, opponent, fd, told, orphaned>>,
             pc[t] \notin {"welcome", "notify", "notifyPeer"}
      PROVE  ToldInv'
  BY <1>0, <1>1, UntoldStep DEF Pending
<1>2. ASSUME NEW S, UNCHANGED <<allocated, fd, told, orphaned>>,
             pc[t] \in {"self", "act"}, pc'[t] = "notify",
             S \subseteq {client'[t], other'[t]},
             \A x \in allocated \ S :
                 state'[x] = state[x] /\ opponent'[x] = opponent[x]
      PROVE  ToldInv'
  <2>1. (\A x \in S : Pending(t, x)') /\ \A x : ~Pending(t, x)
    BY <1>2 DEF Pending
  <2>2. QED
    BY <1>0, <1>2, <2>1, ChangeStep
<1> USE DEF Go, pbxVars, heapVars, threadVars
<1>3. pc \in [Fd -> Places] /\ other \in [Fd -> Addr \cup {NULL}]
      /\ state \in [Addr -> States] /\ allocated \subseteq Addr
      /\ opponent \in [Addr -> Addr \cup {NULL}]
  BY DEF IInv, TypeOK
<1>4. CASE \/ LockSwap(t) \/ LockPeer(t) \/ LockAgain(t) \/ PickupRinging(t)
           \/ Hangup(t) \/ DialTone(t) \/ Chat(t) \/ ChatAct(t) \/ Refuse(t)
  BY <1>1, <1>4
  DEF LockSwap, LockPeer, LockAgain, PickupRinging, Hangup, DialTone, Chat,
      ChatAct, Refuse, Reorder, Return
<1>5. ASSUME NEW c \in Commands \ {"dial"}, Receive(t, c) PROVE ToldInv'
  BY <1>1, <1>5 DEF Receive
<1>6. ASSUME NEW x \in Fd, ReceiveDial(t, x) PROVE ToldInv'
  BY <1>1, <1>6 DEF ReceiveDial
<1>7. CASE UseFreed(t)
  BY <1>0, <1>7, UntoldStep DEF UseFreed, Pending
<1>8. CASE PickupIdle(t)
  BY <1>2, <1>3, <1>8 DEF PickupIdle, LockSelf
<1>9. CASE PickupAct(t)
  BY <1>2, <1>3, <1>9 DEF PickupAct
<1>10. CASE HangupAct(t)
  BY <1>2, <1>3, <1>10 DEF HangupAct
<1>11. CASE DialOther(t)
  BY <1>2, <1>3, <1>11 DEF DialOther, LockSelf
<1>12. CASE DialNobody(t)
  BY <1>2, <1>3, <1>12 DEF DialNobody
<1>13. CASE DialIdle(t)
  BY <1>2, <1>3, <1>13 DEF DialIdle
<1>14. CASE DialBusy(t)
  BY <1>2, <1>3, <1>14 DEF DialBusy
<1>15. CASE Welcome(t)
  <2>1. a \in allocated /\ pc[t] = "welcome"
    BY <1>3, <1>15 DEF Welcome, Touched
  <2>2. \A x : x # a => ~Pending(t, x)
    BY <2>1 DEF Pending
  <2>3. QED
    BY <1>0, <1>15, <2>1, <2>2, WriteStep DEF Welcome
<1>16. CASE ChatIdle(t)
  <2>1. a \in allocated /\ pc[t] = "chat"
    BY <1>3, <1>16 DEF ChatIdle, Touched
  <2>2. \A x : ~Pending(t, x)
    BY <2>1 DEF Pending
  <2>3. QED
    BY <1>0, <1>16, <2>1, <2>2, WriteStep DEF ChatIdle
<1>17. CASE ChatConnected(t)
  <2>1. a \in allocated /\ pc[t] = "chat"
    BY <1>3, <1>17 DEF ChatConnected, Reorder, Touched
  <2>2. \A x : ~Pending(t, x)
    BY <2>1 DEF Pending
  <2>3. QED
    BY <1>0, <1>17, <2>1, <2>2, WriteStep DEF ChatConnected, Reorder
<1>18. CASE NotifyOnly(t)
  <2>1. a \in allocated /\ pc[t] = "notify" /\ b = NULL /\ NULL \notin allocated
    BY <1>3, <1>18, AddrAssumption DEF NotifyOnly, Return, Touched, NULL
  <2>2. \A x \in allocated : x # a => ~Pending(t, x)
    BY <2>1 DEF Pending
  <2>3. /\ UNCHANGED <<allocated, state, opponent, fd, orphaned>>
        /\ told' = [told EXCEPT ![fd[a]] = Line(a)]
    BY <1>18 DEF NotifyOnly
  <2>4. QED
    BY <1>0, <2>1, <2>2, <2>3, WriteStep
<1>19. CASE NotifySelf(t)
  <2>1. /\ a \in allocated /\ pc[t] = "notify" /\ pc'[t] = "notifyPeer"
        /\ other'[t] = b
    BY <1>3, <1>19 DEF NotifySelf, Touched
  <2>2. \A x \in allocated : x # a /\ Pending(t, x) => Pending(t, x)'
    BY <2>1 DEF Pending
  <2>3. QED
    BY <1>0, <1>3, <1>19, <2>1, <2>2, WriteStep DEF NotifySelf
<1>20. CASE NotifyPeer(t)
  <2>1. /\ a \in allocated /\ b \in allocated /\ pc[t] = "notifyPeer"
        /\ UNCHANGED <<allocated, state, fd, orphaned>>
        /\ told' = [told EXCEPT ![fd[b]] = Line(b)]
        /\ opponent' = IF cmd[t] \in Hangups
                       THEN [opponent EXCEPT ![a] = NULL, ![b] = NULL]
                       ELSE opponent
    BY <1>3, <1>20 DEF NotifyPeer, Return, Touched
  <2>2. cmd[t] \in Hangups =>
            state[a] # "CONNECTED" /\ state[b] # "CONNECTED"
    BY <2>1, AddrAssumption DEF IInv, TypeOK, PhaseInv, Cutting, NULL
  <2>3. \A x \in allocated : state[x] = "CONNECTED" =>
            opponent'[x] = opponent[x]
    BY <1>3, <2>1, <2>2
  <2>4. \A x \in allocated : x # b => ~Pending(t, x)
    BY <2>1 DEF Pending
  <2>5. QED
    BY <1>0, <2>1, <2>3, <2>4, WriteStep
<1>21. CASE Register(t)
  <2> SUFFICES ASSUME ~orphaned,
                      NEW x \in allocated', \A u \in Fd : ~Pending(u, x)'
               PROVE  told'[fd'[x]] = Line(x)'
    BY <1>21 DEF Register, ToldInv
  <2>1. pc'[t] = "welcome" /\ pc[t] = "closed" /\ client'[t] \notin allocated
    BY <1>3, <1>21 DEF Register, IInv, TypeOK
  <2>2. x # client'[t] /\ x \in allocated
    BY <1>21, <2>1 DEF Register, Pending, IInv, TypeOK
  <2>3. \A u \in Fd : ~Pending(u, x)
    BY <1>0, <2>1 DEF Pending
  <2>4. /\ state'[x] = state[x] /\ opponent'[x] = opponent[x]
        /\ fd'[x] = fd[x] /\ told' = told
    BY <1>3, <1>21, <2>1, <2>2 DEF Register, IInv, TypeOK
  <2>5. state[x] = "CONNECTED" => opponent[x] \in allocated
    BY <2>2 DEF IInv, HeapInv, NoDangling, InCall
  <2>6. state[x] = "CONNECTED" => fd'[opponent[x]] = fd[opponent[x]]
    BY <1>3, <1>21, <2>5 DEF Register, IInv, TypeOK
  <2>7. Line(x)' = Line(x)
    BY <2>4, <2>6, LineKept
  <2>8. QED
    BY <2>2, <2>3, <2>4, <2>7 DEF ToldInv
<1>22. CASE Unregister(t)
  <2> SUFFICES ASSUME ~orphaned', NEW x \in allocated',
                      \A u \in Fd : ~Pending(u, x)'
               PROVE  told'[fd'[x]] = Line(x)'
    BY DEF ToldInv
  <2>1. pc[t] = "unregister" /\ a \in allocated /\ fd[a] = t
    BY <1>3, <1>22 DEF Unregister, Touched, IInv, ThreadInv
  <2>2. x \in allocated /\ x # a /\ opponent[x] # a /\ ~orphaned
    BY <1>22 DEF Unregister
  <2>3. \A u \in Fd : ~Pending(u, x)
    BY <1>0, <2>1 DEF Pending
  <2>4. /\ state'[x] = state[x] /\ opponent'[x] = opponent[x]
        /\ fd'[x] = fd[x]
    BY <1>3, <1>22, <2>1, <2>2 DEF Unregister, IInv, TypeOK
  <2>5. state[x] = "CONNECTED" => opponent[x] \in allocated
    BY <2>2 DEF IInv, HeapInv, NoDangling, InCall
  <2>6. state[x] = "CONNECTED" => fd'[opponent[x]] = fd[opponent[x]]
    BY <1>3, <1>22, <2>2, <2>5 DEF Unregister, IInv, TypeOK
  <2>7. Line(x)' = Line(x)
    BY <2>4, <2>6, LineKept
  <2>8. fd[x] # t /\ fd[x] \in Fd
    BY <2>1, <2>2, OneEach
  <2>9. told'[fd[x]] = told[fd[x]]
    BY <1>22, <2>8 DEF Unregister, IInv, TypeOK
  <2>10. QED
    BY <2>2, <2>3, <2>4, <2>7, <2>9 DEF ToldInv
<1>23. QED
  BY <1>4, <1>5, <1>6, <1>7, <1>8, <1>9, <1>10, <1>11, <1>12, <1>13, <1>14,
     <1>15, <1>16, <1>17, <1>18, <1>19, <1>20, <1>21, <1>22
  DEF Operation, Session

\* A notification is due only while the TU's mutex is held.
LEMMA PendingIsHeld ==
  ASSUME IInv, NEW t \in Fd, NEW a \in allocated, Pending(t, a)
  PROVE  lock[a] = 0
<1>1. Holds(t, a)
  BY DEF Pending, Holds
<1>2. QED
  BY <1>1, HeldIsTaken DEF IInv, LockDiscipline

\* When the mutex of a TU is free, the last line its client got is the TU's
\* present state: no state change of pbx.c goes unreported, and two reports
\* never reach a client in the wrong order (pbx.h:138-195).
THEOREM ClientsAreTold == Spec => []ClientIsUpToDate
<1>1. Init => ToldInv
  BY DEF Init, ToldInv
<1>2. IInv /\ ToldInv /\ [Next]_vars => ToldInv'
  <2>1. ASSUME ToldInv, UNCHANGED vars PROVE ToldInv'
    BY <2>1 DEF ToldInv, Pending, Line, vars, pbxVars, heapVars, threadVars
  <2>2. QED
    BY <2>1, ToldNext DEF Next, Undefined
<1>3. IInv /\ ToldInv => ClientIsUpToDate
  BY PendingIsHeld DEF ToldInv, ClientIsUpToDate
<1>4. QED
  BY <1>1, <1>2, <1>3, Inductive, PTL DEF Spec
=============================================================================
