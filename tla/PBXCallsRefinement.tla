-------------------------- MODULE PBXCallsRefinement --------------------------
(***************************************************************************)
(* Proof that the exchange of pbx.c implements PBXCalls: its operations,   *)
(* made of many steps under several locks, look indivisible, for any       *)
(* number of clients, until a TU is orphaned.                              *)
(***************************************************************************)
EXTENDS PBXProofs

\* tu_dial has pbx->mutex, and so an extension that it found empty stays so.
AbsentInv ==
    \A t \in Fd :
        pc[t] = "act" /\ cmd[t] = "dial" /\ other[t] = NULL =>
            \E x \in Fd : extensions[x] = NULL

\* After its last hangup a TU is on hook, or is rung.
ByeInv ==
    \A t \in Fd :
        pc[t] = "unregister" => state[client[t]] \in {"ON_HOOK", "RINGING"}

\* The abstract state of the extensions, and their parties.
CallLine == [x \in Fd |-> IF extensions[x] = NULL THEN "absent"
                          ELSE state[extensions[x]]]

CallPeer == [x \in Fd |-> IF /\ extensions[x] # NULL
                             /\ state[extensions[x]] \in InCall
                             /\ opponent[extensions[x]] # NULL
                          THEN fd[opponent[extensions[x]]] ELSE NoFd]

Quiet == UNCHANGED <<CallLine, CallPeer>>

Maps == (orphaned' \/ Calls!Next) \/ Quiet

\* Maps says that a step is one of the abstract exchange, or is not seen.
LEMMA MapsStep == Maps => [orphaned' \/ Calls!Next]_(Calls!vars)
  BY DEF Maps, Quiet, CallLine, CallPeer, Calls!vars

\* A step that leaves the table and every TU's state, opponent and descriptor
\* alone is no step of the abstract exchange.
LEMMA QuietStep ==
  ASSUME UNCHANGED <<extensions, state, opponent, fd>>
  PROVE  Quiet
  BY DEF Quiet, CallLine, CallPeer

\* An entry of the table leads to the TU of its descriptor.
LEMMA Entry ==
  ASSUME IInv, NEW t \in Fd, client[t] # NULL
  PROVE  /\ extensions[t] = client[t] /\ client[t] \in Addr
         /\ client[t] \in allocated /\ fd[client[t]] = t
         /\ \A x \in Fd : extensions[x] = client[t] <=> x = t
  BY DEF IInv, TypeOK, ThreadInv

\* A function of the extensions that changes at one point, or at two.
LEMMA OnePoint ==
  ASSUME NEW f, NEW g, f = [x \in Fd |-> f[x]], g = [x \in Fd |-> g[x]],
         NEW t \in Fd, NEW s, g[t] = s,
         \A x \in Fd \ {t} : g[x] = f[x]
  PROVE  g = [f EXCEPT ![t] = s]
  OBVIOUS

LEMMA TwoPoints ==
  ASSUME NEW f, NEW g, f = [x \in Fd |-> f[x]], g = [x \in Fd |-> g[x]],
         NEW t \in Fd, NEW u \in Fd, t # u, NEW s, NEW r,
         g[t] = s, g[u] = r,
         \A x \in Fd \ {t, u} : g[x] = f[x]
  PROVE  g = [f EXCEPT ![t] = s, ![u] = r]
  OBVIOUS

\* The abstract state, before and after a step, as functions.
LEMMA AreFunctions ==
  /\ CallLine = [x \in Fd |-> CallLine[x]]
  /\ CallLine' = [x \in Fd |-> CallLine'[x]]
  /\ CallPeer = [x \in Fd |-> CallPeer[x]]
  /\ CallPeer' = [x \in Fd |-> CallPeer'[x]]
  BY DEF CallLine, CallPeer

\* Only the TU of thread t changes its state.
LEMMA OneMoves ==
  ASSUME IInv, NEW t \in Fd, client[t] # NULL, UNCHANGED extensions,
         \A c \in Addr \ {client[t]} : state'[c] = state[c]
  PROVE  CallLine' = [CallLine EXCEPT ![t] = state'[client[t]]]
<1>1. /\ extensions[t] = client[t]
      /\ \A x \in Fd : extensions[x] = client[t] <=> x = t
      /\ \A x \in Fd : extensions[x] \in Addr \cup {NULL}
  BY Entry DEF IInv, TypeOK
<1>2. \A x \in Fd \ {t} : CallLine'[x] = CallLine[x]
  BY <1>1 DEF CallLine
<1>3. CallLine'[t] = state'[client[t]]
  BY <1>1 DEF CallLine
<1>4. QED
  BY <1>2, <1>3, AreFunctions, OnePoint

\* Only the TUs of the threads t and u change their states.
LEMMA TwoMove ==
  ASSUME IInv, NEW t \in Fd, NEW u \in Fd, t # u,
         client[t] # NULL, client[u] # NULL, UNCHANGED extensions,
         \A c \in Addr \ {client[t], client[u]} : state'[c] = state[c]
  PROVE  CallLine' = [CallLine EXCEPT ![t] = state'[client[t]],
                                      ![u] = state'[client[u]]]
<1>1. /\ extensions[t] = client[t]
      /\ \A x \in Fd : extensions[x] = client[t] <=> x = t
      /\ \A x \in Fd : extensions[x] \in Addr \cup {NULL}
  BY Entry DEF IInv, TypeOK
<1>2. /\ extensions[u] = client[u]
      /\ \A x \in Fd : extensions[x] = client[u] <=> x = u
  BY Entry
<1>3. \A x \in Fd \ {t, u} : CallLine'[x] = CallLine[x]
  BY <1>1, <1>2 DEF CallLine
<1>4. CallLine'[t] = state'[client[t]] /\ CallLine'[u] = state'[client[u]]
  BY <1>1, <1>2 DEF CallLine
<1>5. QED
  BY <1>3, <1>4, AreFunctions, TwoPoints

\* No TU enters or leaves a call, and none in a call changes its opponent.
LEMMA PartiesKept ==
  ASSUME IInv, UNCHANGED <<extensions, fd>>,
         \A c \in Addr :
             \/ state[c] \notin InCall /\ state'[c] \notin InCall
             \/ /\ state'[c] \in InCall <=> state[c] \in InCall
                /\ opponent'[c] = opponent[c]
  PROVE  UNCHANGED CallPeer
<1>1. \A x \in Fd : CallPeer'[x] = CallPeer[x]
  <2>1. \A x \in Fd : extensions[x] \in Addr \cup {NULL}
    BY DEF IInv, TypeOK
  <2>2. QED
    BY <2>1 DEF CallPeer
<1>2. QED
  BY <1>1, AreFunctions

\* Only the TUs of the threads t and u enter or leave a call.
LEMMA TwoParties ==
  ASSUME IInv, NEW t \in Fd, NEW u \in Fd, t # u,
         client[t] # NULL, client[u] # NULL,
         UNCHANGED <<extensions, fd>>,
         \A c \in Addr \ {client[t], client[u]} :
             state'[c] = state[c] /\ opponent'[c] = opponent[c]
  PROVE  CallPeer' = [CallPeer EXCEPT ![t] = CallPeer'[t],
                                      ![u] = CallPeer'[u]]
<1>1. /\ \A x \in Fd : extensions[x] = client[t] <=> x = t
      /\ \A x \in Fd : extensions[x] \in Addr \cup {NULL}
  BY Entry DEF IInv, TypeOK
<1>2. \A x \in Fd : extensions[x] = client[u] <=> x = u
  BY Entry
<1>3. \A x \in Fd \ {t, u} : CallPeer'[x] = CallPeer[x]
  BY <1>1, <1>2 DEF CallPeer
<1>4. QED
  BY <1>3, AreFunctions, TwoPoints

\* The party of thread t's TU when it is in a call.
LEMMA PartyOf ==
  ASSUME IInv, NEW t \in Fd, client[t] # NULL, state[client[t]] \in InCall
  PROVE  CallPeer[t] = fd[opponent[client[t]]]
<1>1. opponent[client[t]] # NULL
  BY Entry DEF IInv, HeapInv
<1>2. QED
  BY <1>1, Entry DEF CallPeer

\* The two threads of a call, or of an attempt to call.
LEMMA Ends ==
  ASSUME IInv, NEW t \in Fd, NEW b \in allocated, client[t] # NULL,
         b # client[t]
  PROVE  /\ fd[b] \in Fd /\ client[fd[b]] = b /\ fd[b] # t /\ b # NULL
         /\ extensions[fd[b]] = b
         /\ CallLine[t] = state[client[t]] /\ CallLine[fd[b]] = state[b]
<1>1. b # NULL /\ fd[b] \in Fd /\ client[fd[b]] = b
  BY AddrAssumption DEF IInv, TypeOK, HeapInv, NULL
<1>2. fd[b] # t /\ extensions[fd[b]] = b /\ extensions[t] = client[t]
  BY <1>1, Entry
<1>3. QED
  BY <1>1, <1>2 DEF CallLine

\* What a thread that acts may rely on.
LEMMA Acting ==
  ASSUME IInv, NEW t \in Fd, pc[t] = "act"
  PROVE  /\ client[t] # NULL /\ client[t] \in allocated /\ client[t] \in Addr
         /\ extensions[t] = client[t] /\ fd[client[t]] = t
         /\ CallLine[t] = state[client[t]]
<1>1. client[t] # NULL
  BY DEF IInv, ThreadInv
<1>2. QED
  BY <1>1, Entry DEF CallLine

-----------------------------------------------------------------------------
\* A TU that does not ring is picked up: dial tone, or nothing.
LEMMA MapPickupIdle ==
  ASSUME IInv, NEW t \in Fd, PickupIdle(t)
  PROVE  Maps
<1> DEFINE a == client[t]
<1>1. /\ a # NULL /\ extensions[t] = a /\ a \in Addr
      /\ UNCHANGED extensions /\ UNCHANGED opponent /\ UNCHANGED fd
      /\ state \in [Addr -> States]
  BY Entry, AddrAssumption
  DEF PickupIdle, LockSelf, Go, IInv, TypeOK, ThreadInv, NULL
<1>2. CASE state[a] # "ON_HOOK"
  BY <1>1, <1>2, QuietStep DEF PickupIdle, Maps
<1>3. CASE state[a] = "ON_HOOK"
  <2>1. /\ \A c \in Addr \ {a} : state'[c] = state[c]
        /\ state'[a] = "DIAL_TONE"
    BY <1>1, <1>3 DEF PickupIdle
  <2>2. CallLine' = [CallLine EXCEPT ![t] = state'[client[t]]]
    BY <1>1, <2>1, OneMoves
  <2>3. CallLine[t] = "ON_HOOK"
    BY <1>1, <1>3 DEF CallLine
  <2>4. UNCHANGED CallPeer
    BY <1>1, <1>3, <2>1, PartiesKept DEF InCall
  <2>5. Calls!PickupIdle(t)
    BY <2>1, <2>2, <2>3, <2>4 DEF Calls!PickupIdle, CallLine, CallPeer
  <2>6. QED
    BY <2>5 DEF Maps, Calls!Next, Calls!Operate
<1>4. QED
  BY <1>2, <1>3

\* A ringing TU is picked up: both ends of the call are connected.
LEMMA MapPickupAct ==
  ASSUME IInv, NEW t \in Fd, PickupAct(t)
  PROVE  Maps
<1> DEFINE a == client[t]
           b == other[t]
           u == fd[b]
<1>1. /\ a # NULL /\ b \in allocated /\ a # b /\ a \in allocated
      /\ b = opponent[a] /\ b # NULL /\ state[a] = "RINGING"
      /\ a \in Addr /\ b \in Addr
      /\ UNCHANGED extensions /\ UNCHANGED opponent /\ UNCHANGED fd
  BY AddrAssumption
  DEF PickupAct, Go, Touched, IInv, TypeOK, ThreadInv, PhaseInv, NULL, pbxVars
<1>2. state[b] = "RING_BACK"
  BY <1>1 DEF IInv, LinkInv, InCall
<1>3. /\ u \in Fd /\ client[u] = b /\ u # t /\ client[u] # NULL
      /\ CallLine[t] = "RINGING"
  BY <1>1, Ends
<1>4. CallPeer[t] = u
  BY <1>1, PartyOf DEF InCall
<1>5. /\ \A c \in Addr \ {a, client[u]} : state'[c] = state[c]
      /\ state'[a] = "CONNECTED" /\ state'[b] = "CONNECTED"
  BY <1>1, <1>3 DEF PickupAct, IInv, TypeOK
<1>6. CallLine' = [CallLine EXCEPT ![t] = state'[client[t]],
                                   ![u] = state'[client[u]]]
  <2> HIDE DEF u
  <2>1. QED
    BY <1>1, <1>3, <1>5, TwoMove
<1>7. UNCHANGED CallPeer
  BY <1>1, <1>2, <1>3, <1>5, PartiesKept DEF InCall
<1>8. Calls!PickupRinging(t)
  BY <1>3, <1>4, <1>5, <1>6, <1>7
  DEF Calls!PickupRinging, CallLine, CallPeer
<1>9. QED
  BY <1>8 DEF Maps, Calls!Next, Calls!Operate

\* A TU that is not in a call hangs up, or is on hook already.
LEMMA MapHangupIdle ==
  ASSUME IInv, NEW t \in Fd, HangupAct(t), state[client[t]] \notin InCall
  PROVE  Maps
<1> DEFINE a == client[t]
<1>1. /\ a # NULL /\ a \in Addr /\ CallLine[t] = state[a]
      /\ UNCHANGED extensions /\ UNCHANGED opponent /\ UNCHANGED fd
      /\ state \in [Addr -> States]
  BY Acting DEF HangupAct, Go, IInv, TypeOK, pbxVars
<1>2. CASE state[a] = "ON_HOOK"
  <2>1. UNCHANGED state
    BY <1>1, <1>2 DEF HangupAct
  <2>2. QED
    BY <1>1, <2>1, QuietStep DEF Maps
<1>3. CASE state[a] # "ON_HOOK"
  <2>1. /\ \A c \in Addr \ {a} : state'[c] = state[c]
        /\ state'[a] = "ON_HOOK"
    BY <1>1 DEF HangupAct
  <2>2. CallLine' = [CallLine EXCEPT ![t] = state'[client[t]]]
    BY <1>1, <2>1, OneMoves
  <2>3. UNCHANGED CallPeer
    BY <1>1, <2>1, PartiesKept DEF InCall
  <2>4. CallLine[t] \in {"DIAL_TONE", "BUSY_SIGNAL", "ERROR"}
    BY <1>1, <1>3 DEF States, InCall
  <2>5. Calls!HangupIdle(t)
    BY <2>1, <2>2, <2>3, <2>4 DEF Calls!HangupIdle, CallLine, CallPeer
  <2>6. QED
    BY <2>5 DEF Maps, Calls!Next, Calls!Operate
<1>4. QED
  BY <1>2, <1>3

\* A call is hung up, at both ends together.
LEMMA MapHangupCall ==
  ASSUME IInv, NEW t \in Fd, HangupAct(t), state[client[t]] \in InCall
  PROVE  Maps
<1> DEFINE a == client[t]
           b == other[t]
           u == fd[b]
<1>1. /\ a # NULL /\ a \in Addr /\ a \in allocated
      /\ CallLine[t] = state[a] /\ extensions[t] = a
      /\ UNCHANGED extensions /\ UNCHANGED opponent /\ UNCHANGED fd
      /\ state \in [Addr -> States]
  BY Acting DEF HangupAct, Go, IInv, TypeOK, pbxVars
<1>2. b \in allocated /\ a # b /\ b = opponent[a] /\ b \in Addr
  BY DEF HangupAct, Hangups, Go, Touched, IInv, TypeOK, ThreadInv, PhaseInv
<1>3. /\ u \in Fd /\ client[u] = b /\ u # t /\ client[u] # NULL
      /\ extensions[u] = b
  BY <1>1, <1>2, Ends
<1>4. CallPeer[t] = u
  BY <1>1, <1>2, PartyOf
<1>5. /\ \A c \in Addr \ {a, client[u]} : state'[c] = state[c]
      /\ state'[a] = "ON_HOOK" /\ state'[b] = AfterHangup(state[a])
  BY <1>1, <1>2, <1>3 DEF HangupAct
<1>6. CallLine' = [CallLine EXCEPT ![t] = state'[client[t]],
                                   ![u] = state'[client[u]]]
  <2> HIDE DEF u
  <2>1. QED
    BY <1>1, <1>3, <1>5, TwoMove
<1>7. CallPeer' = [CallPeer EXCEPT ![t] = CallPeer'[t], ![u] = CallPeer'[u]]
  <2> HIDE DEF u
  <2>1. QED
    BY <1>1, <1>3, <1>5, TwoParties
<1>8. CallPeer'[t] = NoFd /\ CallPeer'[u] = NoFd
  BY <1>1, <1>3, <1>5 DEF CallPeer, AfterHangup, InCall
<1>9. Calls!HangupCall(t)
  <2>1. CallLine[t] \in InCall
    BY <1>1
  <2>2. CallLine' = [CallLine EXCEPT ![t] = "ON_HOOK",
                                     ![CallPeer[t]] = AfterHangup(CallLine[t])]
    BY <1>1, <1>3, <1>4, <1>5, <1>6
  <2>3. CallPeer' = [CallPeer EXCEPT ![t] = NoFd, ![CallPeer[t]] = NoFd]
    BY <1>4, <1>7, <1>8
  <2>4. QED
    BY <2>1, <2>2, <2>3
    DEF Calls!HangupCall, Calls!InCall, InCall, Calls!AfterHangup,
        AfterHangup, CallLine, CallPeer
<1>10. QED
  BY <1>9 DEF Maps, Calls!Next, Calls!Operate

\* Nobody has the dialled extension.
LEMMA MapDialNobody ==
  ASSUME IInv, AbsentInv, NEW t \in Fd, DialNobody(t)
  PROVE  Maps
<1> DEFINE a == client[t]
<1>1. /\ a # NULL /\ a \in Addr /\ CallLine[t] = state[a]
      /\ UNCHANGED extensions /\ UNCHANGED fd
      /\ state \in [Addr -> States] /\ opponent \in [Addr -> Addr \cup {NULL}]
  BY Acting DEF DialNobody, Go, IInv, TypeOK, pbxVars
<1>2. state[a] = "DIAL_TONE"
  BY DEF DialNobody, Go, IInv, PhaseInv
<1>3. PICK y \in Fd : extensions[y] = NULL
  BY DEF DialNobody, Go, AbsentInv
<1>4. /\ \A c \in Addr \ {a} :
            state'[c] = state[c] /\ opponent'[c] = opponent[c]
      /\ state'[a] = "ERROR"
  BY <1>1 DEF DialNobody
<1>5. CallLine' = [CallLine EXCEPT ![t] = state'[client[t]]]
  BY <1>1, <1>4, OneMoves
<1>6. UNCHANGED CallPeer
  BY <1>1, <1>2, <1>4, PartiesKept DEF InCall
<1>7. CallLine[y] = "absent"
  BY <1>3 DEF CallLine
<1>8. Calls!DialNobody(t, y)
  BY <1>1, <1>2, <1>4, <1>5, <1>6, <1>7
  DEF Calls!DialNobody, CallLine, CallPeer
<1>9. QED
  BY <1>8 DEF Maps, Calls!Next, Calls!Dial

\* The dialled TU is on hook: it rings.
LEMMA MapDialIdle ==
  ASSUME IInv, NEW t \in Fd, DialIdle(t)
  PROVE  Maps
<1> DEFINE a == client[t]
           b == other[t]
           u == fd[b]
<1>1. /\ a # NULL /\ a \in Addr /\ a \in allocated
      /\ CallLine[t] = state[a] /\ extensions[t] = a /\ fd[a] = t
      /\ UNCHANGED extensions /\ UNCHANGED fd
      /\ state \in [Addr -> States] /\ opponent \in [Addr -> Addr \cup {NULL}]
  BY Acting DEF DialIdle, Go, IInv, TypeOK, pbxVars
<1>2. /\ state[a] = "DIAL_TONE" /\ state[b] = "ON_HOOK"
      /\ b \in allocated /\ b \in Addr /\ a # b
  BY DEF DialIdle, Go, IInv, PhaseInv, TypeOK
<1>3. /\ u \in Fd /\ client[u] = b /\ u # t /\ client[u] # NULL
      /\ extensions[u] = b /\ CallLine[u] = "ON_HOOK"
  BY <1>1, <1>2, Ends
<1>4. /\ \A c \in Addr \ {a, client[u]} :
            state'[c] = state[c] /\ opponent'[c] = opponent[c]
      /\ state'[a] = "RING_BACK" /\ state'[b] = "RINGING"
      /\ opponent'[a] = b /\ opponent'[b] = a
  BY <1>1, <1>2, <1>3 DEF DialIdle
<1>5. CallLine' = [CallLine EXCEPT ![t] = state'[client[t]],
                                   ![u] = state'[client[u]]]
  <2> HIDE DEF u
  <2>1. QED
    BY <1>1, <1>3, <1>4, TwoMove
<1>6. CallPeer' = [CallPeer EXCEPT ![t] = CallPeer'[t], ![u] = CallPeer'[u]]
  <2> HIDE DEF u
  <2>1. QED
    BY <1>1, <1>3, <1>4, TwoParties
<1>7. CallPeer'[t] = u /\ CallPeer'[u] = t
  BY <1>1, <1>3, <1>4 DEF CallPeer, InCall
<1>8. Calls!DialIdle(t, u)
  <2>1. CallLine' = [CallLine EXCEPT ![t] = "RING_BACK", ![u] = "RINGING"]
    BY <1>3, <1>4, <1>5
  <2>2. CallPeer' = [CallPeer EXCEPT ![t] = u, ![u] = t]
    BY <1>6, <1>7
  <2>3. QED
    BY <1>1, <1>2, <1>3, <2>1, <2>2 DEF Calls!DialIdle, CallLine, CallPeer
<1>9. QED
  <2>1. Calls!Dial(t, u)
    BY <1>8 DEF Calls!Dial
  <2>2. \E y \in Fd : Calls!Dial(t, y)
    BY <1>3, <2>1
  <2>3. QED
    BY <2>2 DEF Maps, Calls!Next

\* The dialled TU is busy; it may be the caller's own.
LEMMA MapDialBusy ==
  ASSUME IInv, NEW t \in Fd, DialBusy(t)
  PROVE  Maps
<1> DEFINE a == client[t]
           b == other[t]
           u == fd[b]
<1>1. /\ a # NULL /\ a \in Addr /\ a \in allocated
      /\ CallLine[t] = state[a] /\ fd[a] = t
      /\ UNCHANGED extensions /\ UNCHANGED opponent /\ UNCHANGED fd
      /\ state \in [Addr -> States]
  BY Acting DEF DialBusy, Go, IInv, TypeOK, pbxVars
<1>2. /\ state[a] = "DIAL_TONE" /\ state[b] # "ON_HOOK"
      /\ b \in allocated /\ b \in Addr
  BY DEF DialBusy, Go, IInv, PhaseInv, TypeOK
<1>3. u \in Fd /\ CallLine[u] = state[b]
  <2>1. CASE b = a
    BY <1>1, <2>1
  <2>2. CASE b # a
    BY <1>1, <1>2, <2>2, Ends
  <2>3. QED
    BY <2>1, <2>2
<1>4. /\ \A c \in Addr \ {a} : state'[c] = state[c]
      /\ state'[a] = "BUSY_SIGNAL"
  BY <1>1 DEF DialBusy
<1>5. CallLine' = [CallLine EXCEPT ![t] = state'[client[t]]]
  BY <1>1, <1>4, OneMoves
<1>6. UNCHANGED CallPeer
  BY <1>1, <1>2, <1>4, PartiesKept DEF InCall
<1>7. state[b] # "absent"
  BY <1>1, <1>2 DEF States
<1>8. Calls!DialBusy(t, u)
  BY <1>1, <1>2, <1>3, <1>4, <1>5, <1>6, <1>7
  DEF Calls!DialBusy, CallLine, CallPeer
<1>9. QED
  <2>1. Calls!Dial(t, u)
    BY <1>8 DEF Calls!Dial
  <2>2. \E y \in Fd : Calls!Dial(t, y)
    BY <1>3, <2>1
  <2>3. QED
    BY <2>2 DEF Maps, Calls!Next

\* The two pointers of a call are cut after both ends have left it.
LEMMA MapNotifyPeer ==
  ASSUME IInv, NEW t \in Fd, NotifyPeer(t)
  PROVE  Maps
<1> DEFINE a == client[t]
           b == other[t]
<1>1. /\ UNCHANGED extensions /\ UNCHANGED state /\ UNCHANGED fd
      /\ state \in [Addr -> States] /\ opponent \in [Addr -> Addr \cup {NULL}]
      /\ pc[t] = "notifyPeer"
  BY DEF NotifyPeer, Return, Go, IInv, TypeOK
<1>2. CASE cmd[t] \notin Hangups
  BY <1>1, <1>2, QuietStep DEF NotifyPeer, Maps
<1>3. CASE cmd[t] \in Hangups
  <2>1. state[a] \notin InCall /\ state[b] \notin InCall
    BY <1>1, <1>3 DEF IInv, ThreadInv, PhaseInv, Cutting, InCall
  <2>2. \A c \in Addr \ {a, b} : opponent'[c] = opponent[c]
    BY <1>1, <1>3 DEF NotifyPeer
  <2>3. UNCHANGED CallPeer
    BY <1>1, <2>1, <2>2, PartiesKept
  <2>4. UNCHANGED CallLine
    BY <1>1 DEF CallLine
  <2>5. QED
    BY <2>3, <2>4 DEF Maps, Quiet
<1>4. QED
  BY <1>2, <1>3

\* pbx_register fills an empty entry of the table with a new TU.
LEMMA MapRegister ==
  ASSUME IInv, NEW t \in Fd, Register(t)
  PROVE  Maps
<1>1. PICK a \in Addr \ allocated :
          /\ state' = [state EXCEPT ![a] = "ON_HOOK"]
          /\ opponent' = [opponent EXCEPT ![a] = NULL]
          /\ fd' = [fd EXCEPT ![a] = t]
          /\ extensions' = [extensions EXCEPT ![t] = a]
  BY DEF Register
<1>2. /\ extensions \in [Fd -> Addr \cup {NULL}]
      /\ state \in [Addr -> States] /\ fd \in [Addr -> Fd \cup {NoFd}]
      /\ opponent \in [Addr -> Addr \cup {NULL}]
      /\ a # NULL /\ extensions[t] = NULL
  BY AddrAssumption DEF Register, IInv, TypeOK, NULL
<1>3. \A x \in Fd : extensions[x] # NULL =>
          /\ extensions[x] \in allocated /\ extensions[x] \in Addr
          /\ opponent[extensions[x]] \in allocated \cup {NULL}
  BY DEF Register, IInv, TypeOK, ThreadInv, NoDangling
<1>4. \A x \in Fd \ {t} :
          CallLine'[x] = CallLine[x] /\ CallPeer'[x] = CallPeer[x]
  <2> SUFFICES ASSUME NEW x \in Fd \ {t}
               PROVE  CallLine'[x] = CallLine[x] /\ CallPeer'[x] = CallPeer[x]
    OBVIOUS
  <2>1. extensions'[x] = extensions[x]
    BY <1>1, <1>2
  <2>2. CASE extensions[x] = NULL
    BY <2>1, <2>2 DEF CallLine, CallPeer
  <2>3. CASE extensions[x] # NULL
    <3> DEFINE c == extensions[x]
    <3>1. /\ c \in Addr /\ c # a
          /\ opponent[c] \in Addr \cup {NULL} /\ opponent[c] # a
      BY <1>2, <1>3, <2>3
    <3>2. state'[c] = state[c] /\ opponent'[c] = opponent[c]
      BY <1>1, <1>2, <3>1
    <3>3. opponent[c] # NULL => fd'[opponent[c]] = fd[opponent[c]]
      BY <1>1, <1>2, <3>1
    <3>4. QED
      BY <2>1, <3>2, <3>3 DEF CallLine, CallPeer
  <2>4. QED
    BY <2>2, <2>3
<1>5. extensions'[t] = a /\ state'[a] = "ON_HOOK"
  BY <1>1, <1>2
<1>6. /\ CallLine[t] = "absent" /\ CallLine'[t] = "ON_HOOK"
      /\ CallPeer'[t] = CallPeer[t]
  BY <1>2, <1>5 DEF CallLine, CallPeer, InCall
<1>7. CallLine' = [CallLine EXCEPT ![t] = "ON_HOOK"]
  BY <1>4, <1>6, AreFunctions, OnePoint
<1>8. UNCHANGED CallPeer
  BY <1>4, <1>6, AreFunctions
<1>9. Calls!Register(t)
  BY <1>6, <1>7, <1>8 DEF Calls!Register, CallLine, CallPeer
<1>10. QED
  BY <1>9 DEF Maps, Calls!Next, Calls!Operate

\* A TU that nobody points to is on hook when it is unregistered.
LEMMA MapUnregister ==
  ASSUME IInv, ByeInv, NEW t \in Fd, Unregister(t)
  PROVE  Maps
<1> SUFFICES ASSUME ~orphaned' PROVE Maps
  BY DEF Maps
<1> DEFINE a == client[t]
<1>1. /\ pc[t] = "unregister" /\ a # NULL /\ a \in Addr /\ a \in allocated
      /\ extensions[t] = a /\ fd[a] = t
      /\ \A x \in Fd : extensions[x] = a <=> x = t
  <2>1. pc[t] = "unregister" /\ a # NULL
    BY DEF Unregister, Go, IInv, ThreadInv
  <2>2. QED
    BY <2>1, Entry
<1>2. /\ extensions \in [Fd -> Addr \cup {NULL}]
      /\ state \in [Addr -> States] /\ fd \in [Addr -> Fd \cup {NoFd}]
      /\ opponent \in [Addr -> Addr \cup {NULL}]
  BY DEF IInv, TypeOK
<1>3. /\ state' = [state EXCEPT ![a] = "ON_HOOK"]
      /\ opponent' = [opponent EXCEPT ![a] = NULL]
      /\ fd' = [fd EXCEPT ![a] = NoFd]
      /\ extensions' = [extensions EXCEPT ![t] = NULL]
  BY <1>1 DEF Unregister
<1>4. ~orphaned /\ \A c \in allocated \ {a} : opponent[c] # a
  BY DEF Unregister
<1>5. state[a] = "ON_HOOK"
  <2>1. SUFFICES ASSUME state[a] = "RINGING" PROVE FALSE
    BY <1>1 DEF ByeInv
  <2>2. opponent[a] \in allocated /\ opponent[a] # a
    BY <1>1, <1>4, <2>1 DEF IInv, HeapInv, NoDangling, InCall
  <2>3. opponent[opponent[a]] = a
    BY <1>1, <2>2 DEF IInv, LinkInv
  <2>4. QED
    BY <1>4, <2>2, <2>3
<1>6. \A x \in Fd \ {t} :
          CallLine'[x] = CallLine[x] /\ CallPeer'[x] = CallPeer[x]
  <2> SUFFICES ASSUME NEW x \in Fd \ {t}
               PROVE  CallLine'[x] = CallLine[x] /\ CallPeer'[x] = CallPeer[x]
    OBVIOUS
  <2>1. extensions'[x] = extensions[x]
    BY <1>2, <1>3
  <2>2. CASE extensions[x] = NULL
    BY <2>1, <2>2 DEF CallLine, CallPeer
  <2>3. CASE extensions[x] # NULL
    <3> DEFINE c == extensions[x]
    <3>1. c \in Addr /\ c # a /\ c \in allocated
      BY <1>1, <1>2, <2>3 DEF IInv, ThreadInv
    <3>2. opponent[c] \in Addr \cup {NULL} /\ opponent[c] # a
      BY <1>2, <1>4, <3>1
    <3>3. state'[c] = state[c] /\ opponent'[c] = opponent[c]
      BY <1>2, <1>3, <3>1
    <3>4. opponent[c] # NULL => fd'[opponent[c]] = fd[opponent[c]]
      BY <1>2, <1>3, <3>2
    <3>5. QED
      BY <2>1, <3>3, <3>4 DEF CallLine, CallPeer
  <2>4. QED
    BY <2>2, <2>3
<1>7. /\ CallLine[t] = "ON_HOOK" /\ CallLine'[t] = "absent"
      /\ CallPeer'[t] = CallPeer[t]
  BY <1>1, <1>2, <1>3, <1>5 DEF CallLine, CallPeer, InCall
<1>8. CallLine' = [CallLine EXCEPT ![t] = "absent"]
  BY <1>6, <1>7, AreFunctions, OnePoint
<1>9. UNCHANGED CallPeer
  BY <1>6, <1>7, AreFunctions
<1>10. Calls!Unregister(t)
  BY <1>7, <1>8, <1>9 DEF Calls!Unregister, CallLine, CallPeer
<1>11. QED
  BY <1>10 DEF Maps, Calls!Next, Calls!Operate

\* Every step of a thread is a step of the abstract exchange, or is not seen.
LEMMA StepMaps ==
  ASSUME IInv, AbsentInv, ByeInv, NEW t \in Fd, Operation(t) \/ Session(t)
  PROVE  Maps
<1>1. CASE LockSwap(t) \/ LockPeer(t) \/ LockAgain(t) \/ PickupRinging(t)
           \/ Hangup(t) \/ DialTone(t) \/ DialOther(t)
  BY <1>1, QuietStep
  DEF Maps, LockSwap, LockPeer, LockAgain, PickupRinging, Hangup, DialTone,
      DialOther, heapVars
<1>2. CASE Chat(t) \/ ChatIdle(t) \/ ChatConnected(t) \/ ChatAct(t)
           \/ NotifyOnly(t) \/ NotifySelf(t) \/ Welcome(t)
  BY <1>2, QuietStep
  DEF Maps, Chat, ChatIdle, ChatConnected, ChatAct, NotifyOnly, NotifySelf,
      Welcome, pbxVars, heapVars
<1>3. CASE Refuse(t) \/ (\E c \in Commands \ {"dial"} : Receive(t, c))
           \/ (\E x \in Fd : ReceiveDial(t, x)) \/ UseFreed(t)
  BY <1>3, QuietStep
  DEF Maps, Refuse, Receive, ReceiveDial, UseFreed, pbxVars, heapVars
<1>4. CASE HangupAct(t)
  BY <1>4, MapHangupIdle, MapHangupCall
<1>5. QED
  BY <1>1, <1>2, <1>3, <1>4, MapPickupIdle, MapPickupAct, MapDialNobody,
     MapDialIdle, MapDialBusy, MapNotifyPeer, MapRegister, MapUnregister
  DEF Operation, Session

-----------------------------------------------------------------------------
\* A step of thread t leaves the other threads where they are.
LEMMA OthersKeep ==
  ASSUME IInv, NEW t \in Fd, Operation(t) \/ Session(t), NEW u \in Fd, u # t
  PROVE  /\ pc'[u] = pc[u] /\ cmd'[u] = cmd[u]
         /\ client'[u] = client[u] /\ other'[u] = other[u]
<1> USE DEF IInv, TypeOK, Go, pbxVars, heapVars, threadVars
<1>1. CASE Operation(t)
  BY <1>1
  DEF Operation, LockSwap, LockPeer, LockAgain, PickupIdle, PickupRinging,
      PickupAct, Hangup, HangupAct, DialTone, DialOther, DialNobody,
      DialIdle, DialBusy, Chat, ChatIdle, ChatConnected, ChatAct,
      NotifyOnly, NotifySelf, NotifyPeer, Welcome, LockSelf, Reorder, Return
<1>2. CASE Session(t)
  BY <1>2
  DEF Session, Register, Refuse, Receive, ReceiveDial, Unregister, UseFreed
<1>3. QED
  BY <1>1, <1>2

\* An extension gets a TU only while nobody has pbx->mutex.
LEMMA TableKept ==
  ASSUME IInv, NEW t \in Fd, Operation(t) \/ Session(t),
         NEW x \in Fd, extensions[x] = NULL, mutex = 0
  PROVE  extensions'[x] = NULL
<1> USE DEF IInv, TypeOK
<1>1. CASE Operation(t)
  <2>1. UNCHANGED extensions
    BY <1>1
    DEF Operation, LockSwap, LockPeer, LockAgain, PickupIdle, PickupRinging,
        PickupAct, Hangup, HangupAct, DialTone, DialOther, DialNobody,
        DialIdle, DialBusy, Chat, ChatIdle, ChatConnected, ChatAct,
        NotifyOnly, NotifySelf, NotifyPeer, Welcome, pbxVars
  <2>2. QED
    BY <2>1
<1>2. CASE Session(t)
  BY <1>2
  DEF Session, Register, Refuse, Receive, ReceiveDial, Unregister, UseFreed,
      pbxVars
<1>3. QED
  BY <1>1, <1>2

\* tu_dial comes to act on an empty extension by reading the table.
LEMMA AbsentNext ==
  ASSUME IInv, AbsentInv, NEW t \in Fd, Operation(t) \/ Session(t)
  PROVE  AbsentInv'
<1> SUFFICES ASSUME NEW u \in Fd,
                    pc'[u] = "act", cmd'[u] = "dial", other'[u] = NULL
             PROVE  \E x \in Fd : extensions'[x] = NULL
  BY DEF AbsentInv
<1>1. CASE u # t
  <2>1. pc[u] = "act" /\ cmd[u] = "dial" /\ other[u] = NULL
    BY <1>1, OthersKeep
  <2>2. PICK x \in Fd : extensions[x] = NULL
    BY <2>1 DEF AbsentInv
  <2>3. mutex = 0
    BY <2>1 DEF IInv, LockDiscipline, PbxDiscipline, HoldsPbx
  <2>4. QED
    BY <2>2, <2>3, TableKept
<1>2. CASE u = t
  <2> USE DEF IInv, TypeOK, ThreadInv, Go
  <2>1. DialTone(t) \/ UseFreed(t)
    <3>1. CASE Session(t)
      BY <1>2, <3>1
      DEF Session, Register, Refuse, Receive, ReceiveDial, Unregister
    <3>2. CASE LockSwap(t) \/ LockPeer(t) \/ LockAgain(t)
      BY <1>2, <3>2 DEF LockSwap, LockPeer, LockAgain
    <3>3. CASE PickupIdle(t) \/ PickupRinging(t) \/ PickupAct(t) \/ Hangup(t)
               \/ HangupAct(t) \/ DialOther(t) \/ DialNobody(t) \/ DialIdle(t)
               \/ DialBusy(t)
      BY <1>2, <3>3
      DEF PickupIdle, PickupRinging, PickupAct, Hangup, HangupAct, DialOther,
          DialNobody, DialIdle, DialBusy, LockSelf, Reorder, Hangups
    <3>4. CASE Chat(t) \/ ChatIdle(t) \/ ChatConnected(t) \/ ChatAct(t)
               \/ NotifyOnly(t) \/ NotifySelf(t) \/ NotifyPeer(t) \/ Welcome(t)
      BY <1>2, <3>4
      DEF Chat, ChatIdle, ChatConnected, ChatAct, NotifyOnly, NotifySelf,
          NotifyPeer, Welcome, Reorder, Return
    <3>5. QED
      BY <3>1, <3>2, <3>3, <3>4 DEF Operation
  <2>2. CASE DialTone(t)
    <3>1. /\ ext[t] \in Fd /\ other'[t] = extensions[ext[t]]
          /\ UNCHANGED extensions
      BY <2>2 DEF DialTone, Reorder
    <3>2. QED
      BY <1>2, <3>1
  <2>3. CASE UseFreed(t)
    <3>1. UNCHANGED pc /\ UNCHANGED cmd /\ UNCHANGED other
          /\ UNCHANGED extensions
      BY <2>3 DEF UseFreed, pbxVars, threadVars
    <3>2. QED
      BY <3>1 DEF AbsentInv
  <2>4. QED
    BY <2>1, <2>2, <2>3
<1>3. QED
  BY <1>1, <1>2

\* A step of thread t changes the state of its own TU and of the TU whose
\* mutex it holds; one that is on hook or rung stays so.
LEMMA StateKept ==
  ASSUME IInv, NEW t \in Fd, Operation(t) \/ Session(t),
         NEW c \in allocated, c # client[t], state[c] \in {"ON_HOOK", "RINGING"}
  PROVE  state'[c] \in {"ON_HOOK", "RINGING"}
<1> USE DEF IInv, TypeOK
<1>1. CASE PickupAct(t)
  <2>1. /\ client[t] \in allocated /\ other[t] \in allocated
        /\ state[client[t]] = "RINGING" /\ other[t] = opponent[client[t]]
    BY <1>1 DEF PickupAct, Go, Touched, PhaseInv
  <2>2. state[other[t]] = "RING_BACK"
    BY <2>1 DEF LinkInv, InCall
  <2>3. QED
    BY <1>1, <2>2 DEF PickupAct
<1>2. CASE HangupAct(t)
  <2>1. CASE state[client[t]] \in InCall
    <3>1. /\ client[t] \in allocated /\ other[t] \in allocated
          /\ other[t] = opponent[client[t]]
      BY <1>2, <2>1 DEF HangupAct, Go, Touched, PhaseInv, Hangups
    <3>2. other[t] = c => state[client[t]] = "RING_BACK"
      BY <2>1, <3>1 DEF LinkInv, InCall
    <3>3. QED
      BY <1>2, <2>1, <3>2 DEF HangupAct, AfterHangup
  <2>2. CASE state[client[t]] \notin InCall
    BY <1>2, <2>2 DEF HangupAct
  <2>3. QED
    BY <2>1, <2>2
<1>3. CASE PickupIdle(t) \/ DialNobody(t) \/ DialIdle(t) \/ DialBusy(t)
  BY <1>3 DEF PickupIdle, DialNobody, DialIdle, DialBusy
<1>4. CASE Register(t) \/ Unregister(t)
  BY <1>4 DEF Register, Unregister
<1>5. CASE LockSwap(t) \/ LockPeer(t) \/ LockAgain(t) \/ PickupRinging(t)
           \/ Hangup(t) \/ DialTone(t) \/ DialOther(t) \/ Chat(t)
           \/ ChatIdle(t) \/ ChatConnected(t) \/ ChatAct(t)
           \/ NotifyOnly(t) \/ NotifySelf(t) \/ NotifyPeer(t) \/ Welcome(t)
           \/ Refuse(t) \/ (\E d \in Commands \ {"dial"} : Receive(t, d))
           \/ (\E x \in Fd : ReceiveDial(t, x)) \/ UseFreed(t)
  <2>1. UNCHANGED state
    BY <1>5
    DEF LockSwap, LockPeer, LockAgain, PickupRinging, Hangup, DialTone,
        DialOther, Chat, ChatIdle, ChatConnected, ChatAct, NotifyOnly,
        NotifySelf, NotifyPeer, Welcome, Refuse, Receive, ReceiveDial,
        UseFreed, heapVars
  <2>2. QED
    BY <2>1
<1>6. QED
  BY <1>1, <1>2, <1>3, <1>4, <1>5 DEF Operation, Session

\* A thread unregisters right after its last hangup.
LEMMA ByeNext ==
  ASSUME IInv, ByeInv, NEW t \in Fd, Operation(t) \/ Session(t)
  PROVE  ByeInv'
<1> SUFFICES ASSUME NEW u \in Fd, pc'[u] = "unregister"
             PROVE  state'[client'[u]] \in {"ON_HOOK", "RINGING"}
  BY DEF ByeInv
<1>1. CASE u # t
  <2>1. pc[u] = "unregister" /\ client'[u] = client[u]
    BY <1>1, OthersKeep
  <2>2. client[u] # NULL
    BY <2>1 DEF IInv, ThreadInv
  <2>3. client[u] \in allocated /\ client[u] # client[t]
    BY <1>1, <2>2, Entry DEF IInv, ThreadInv
  <2>4. QED
    BY <2>1, <2>3, StateKept DEF ByeInv
<1>2. CASE u = t
  <2> USE DEF IInv, TypeOK, ThreadInv, Go
  <2>1. CASE Session(t)
    <3>1. CASE Register(t) \/ Refuse(t) \/ Unregister(t)
      BY <1>2, <3>1 DEF Register, Refuse, Unregister
    <3>2. CASE \/ \E c \in Commands \ {"dial"} : Receive(t, c)
               \/ \E x \in Fd : ReceiveDial(t, x)
      BY <1>2, <3>2 DEF Receive, ReceiveDial
    <3>3. CASE UseFreed(t)
      <4>1. UNCHANGED pc /\ UNCHANGED state /\ UNCHANGED client
        BY <3>3 DEF UseFreed, heapVars, threadVars
      <4>2. QED
        BY <4>1 DEF ByeInv
    <3>4. QED
      BY <2>1, <3>1, <3>2, <3>3 DEF Session
  <2>2. CASE Operation(t)
    <3>1. NotifyOnly(t) \/ NotifyPeer(t)
      <4>1. CASE LockSwap(t) \/ LockPeer(t) \/ LockAgain(t)
        BY <1>2, <4>1 DEF LockSwap, LockPeer, LockAgain
      <4>2. CASE PickupIdle(t) \/ PickupRinging(t) \/ PickupAct(t)
                 \/ Hangup(t) \/ HangupAct(t) \/ DialTone(t) \/ DialOther(t)
                 \/ DialNobody(t) \/ DialIdle(t) \/ DialBusy(t)
        BY <1>2, <4>2
        DEF PickupIdle, PickupRinging, PickupAct, Hangup, HangupAct, DialTone,
            DialOther, DialNobody, DialIdle, DialBusy, LockSelf, Reorder
      <4>3. CASE Chat(t) \/ ChatIdle(t) \/ ChatConnected(t) \/ ChatAct(t)
                 \/ NotifySelf(t) \/ Welcome(t)
        BY <1>2, <4>3
        DEF Chat, ChatIdle, ChatConnected, ChatAct, NotifySelf, Welcome,
            Reorder, Return
      <4>4. QED
        BY <2>2, <4>1, <4>2, <4>3 DEF Operation
    <3>2. /\ pc[t] \in {"notify", "notifyPeer"} /\ cmd[t] = "bye"
          /\ UNCHANGED state /\ UNCHANGED client
      BY <1>2, <3>1 DEF NotifyOnly, NotifyPeer, Return
    <3>3. state[client[t]] = "ON_HOOK"
      BY <3>2 DEF PhaseInv, Cutting, Hangups
    <3>4. QED
      BY <1>2, <3>2, <3>3
  <2>3. QED
    BY <2>1, <2>2
<1>3. QED
  BY <1>1, <1>2

-----------------------------------------------------------------------------
\* The exchange of pbx.c, with its locks, its pointers and its threads that
\* stop in the middle of an operation, does what PBXCalls says, until a TU is
\* orphaned: each operation takes effect at one instant.
THEOREM CallsAreImplemented == Spec => ImplementsCalls
<1>1. Init => Calls!Init /\ AbsentInv /\ ByeInv
  BY DEF Init, Calls!Init, AbsentInv, ByeInv
<1>2. IInv /\ AbsentInv /\ ByeInv /\ [Next]_vars =>
        /\ AbsentInv' /\ ByeInv'
        /\ [orphaned' \/ Calls!Next]_(Calls!vars)
  <2> SUFFICES ASSUME IInv, AbsentInv, ByeInv, [Next]_vars
               PROVE  /\ AbsentInv' /\ ByeInv'
                      /\ [orphaned' \/ Calls!Next]_(Calls!vars)
    OBVIOUS
  <2>1. CASE UNCHANGED vars
    BY <2>1, QuietStep, MapsStep
    DEF AbsentInv, ByeInv, Maps, vars, pbxVars, heapVars, threadVars
  <2>2. ASSUME NEW t \in Fd, Operation(t) \/ Session(t)
        PROVE  /\ AbsentInv' /\ ByeInv'
               /\ [orphaned' \/ Calls!Next]_(Calls!vars)
    BY <2>2, AbsentNext, ByeNext, StepMaps, MapsStep
  <2>3. QED
    BY <2>1, <2>2 DEF Next, Undefined
<1>3. QED
  BY <1>1, <1>2, Inductive, PTL DEF Spec, ImplementsCalls
=============================================================================
