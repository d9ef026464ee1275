----------------------------- MODULE TesterProofs -----------------------------
(***************************************************************************)
(* Proofs about the client simulator, for any number of extensions and any *)
(* number of lines and commands in transit.                                *)
(***************************************************************************)
EXTENDS Tester, PBXCallsProofs

Lines == States \cup {"CHAT"}
Expectations == [normal : SUBSET States, crossing : SUBSET States]
Testers == [running : BOOLEAN, failed : BOOLEAN, current_state : States,
            expected : Expectations, resync : BOOLEAN,
            last : {"dial", "pickup", "hangup", "chat"}]

Typed ==
    /\ TypeOK
    /\ toServer \in [Fd -> Seq(Commands)]
    /\ toClient \in [Fd -> Seq(Lines)]
    /\ tester \in [Fd -> Testers]
    /\ served \in [Fd -> {"no", "open", "hungup"}]

\* The last state among the lines of s, or c when there is none, is l.
Current(s, c, l) ==
    \/ c = l /\ \A i \in DOMAIN s : s[i] = "CHAT"
    \/ \E i \in DOMAIN s : s[i] = l /\ \A j \in i + 1 .. Len(s) : s[j] = "CHAT"

\* What a tester knows and what is on its way to it end with the state of its
\* telephone unit, which is registered.
WillKnow(x) ==
    tester[x].running =>
        /\ served[x] = "open" /\ line[x] \in States
        /\ Current(toClient[x], tester[x].current_state, line[x])

TInv == Typed /\ \A x \in Fd : WillKnow(x)

-----------------------------------------------------------------------------
(***************************************************************************)
(* Lines that are added and taken.                                         *)
(***************************************************************************)

LEMMA CurrentAppend ==
    ASSUME NEW s \in Seq(Lines), NEW c, NEW l \in States
    PROVE  Current(Append(s, l), c, l)
<1>1. /\ Len(s) + 1 \in DOMAIN Append(s, l)
      /\ Append(s, l)[Len(s) + 1] = l
      /\ Len(Append(s, l)) = Len(s) + 1
  BY DEF Lines
<1>2. QED
  BY <1>1 DEF Current

LEMMA CurrentChat ==
    ASSUME NEW s \in Seq(Lines), NEW c, NEW l \in States, Current(s, c, l)
    PROVE  Current(Append(s, "CHAT"), c, l)
<1> DEFINE u == Append(s, "CHAT")
<1>1. /\ DOMAIN u = 1 .. Len(s) + 1 /\ Len(u) = Len(s) + 1
      /\ DOMAIN s = 1 .. Len(s) /\ Len(s) \in Nat
      /\ \A i \in 1 .. Len(s) : u[i] = s[i]
      /\ u[Len(s) + 1] = "CHAT"
  BY DEF Lines
<1> HIDE DEF u
<1>2. CASE c = l /\ \A i \in DOMAIN s : s[i] = "CHAT"
  <2>1. \A i \in DOMAIN u : u[i] = "CHAT"
    BY <1>1, <1>2
  <2>2. QED
    BY <2>1, <1>2 DEF Current, u
<1>3. ASSUME NEW i \in DOMAIN s,
             s[i] = l, \A j \in i + 1 .. Len(s) : s[j] = "CHAT"
      PROVE  Current(u, c, l)
  <2>1. i \in DOMAIN u /\ u[i] = l
    BY <1>1, <1>3
  <2>2. \A j \in i + 1 .. Len(u) : u[j] = "CHAT"
    BY <1>1, <1>3
  <2>3. QED
    BY <2>1, <2>2 DEF Current
<1>4. QED
  BY <1>2, <1>3 DEF Current, u

\* Reading a state makes it the known one; a chat changes nothing.
LEMMA CurrentTail ==
    ASSUME NEW s \in Seq(Lines), NEW c, NEW l \in States, Current(s, c, l),
           s # <<>>
    PROVE  /\ Head(s) = "CHAT" => Current(Tail(s), c, l)
           /\ Head(s) # "CHAT" => Current(Tail(s), Head(s), l)
<1> DEFINE u == Tail(s)
<1>1. /\ DOMAIN s = 1 .. Len(s) /\ Len(s) \in Nat \ {0} /\ Head(s) = s[1]
      /\ DOMAIN u = 1 .. Len(s) - 1 /\ Len(u) = Len(s) - 1
      /\ \A i \in 1 .. Len(s) - 1 : u[i] = s[i + 1]
  BY DEF Lines
<1>2. l # "CHAT"
  BY DEF States
<1> HIDE DEF u
<1>3. CASE c = l /\ \A i \in DOMAIN s : s[i] = "CHAT"
  <2>1. Head(s) = "CHAT" /\ \A i \in DOMAIN u : u[i] = "CHAT"
    BY <1>1, <1>3
  <2>2. QED
    BY <2>1, <1>3 DEF Current, u
<1>4. ASSUME NEW i \in DOMAIN s,
             s[i] = l, \A j \in i + 1 .. Len(s) : s[j] = "CHAT"
      PROVE  /\ Head(s) = "CHAT" => Current(u, c, l)
             /\ Head(s) # "CHAT" => Current(u, Head(s), l)
  <2>1. CASE i = 1
    <3>1. Head(s) = l /\ \A k \in DOMAIN u : u[k] = "CHAT"
      BY <1>1, <1>4, <2>1
    <3>2. QED
      BY <3>1, <1>2 DEF Current
  <2>2. CASE i # 1
    <3>1. i - 1 \in DOMAIN u /\ u[i - 1] = l
      BY <1>1, <1>4, <2>2
    <3>2. \A j \in (i - 1) + 1 .. Len(u) : u[j] = "CHAT"
      BY <1>1, <1>4, <2>2
    <3>3. QED
      BY <3>1, <3>2 DEF Current
  <2>3. QED
    BY <2>1, <2>2
<1>5. QED
  BY <1>3, <1>4 DEF Current, u

-----------------------------------------------------------------------------
(***************************************************************************)
(* The table, and what an operation tells.                                 *)
(***************************************************************************)

LEMMA NextStatesType ==
    ASSUME NEW s \in States, NEW cmd PROVE NextStates(s, cmd) \in Expectations
<1>1. \A a \in SUBSET States, b \in SUBSET States : Expect(a, b) \in Expectations
  BY DEF Expect, Expectations
<1>2. QED
  BY <1>1 DEF NextStates, States

\* An operation changes no state to "absent", and keeps the types of line and
\* peer.
Operation ==
    /\ TypeOK'
    /\ \A y \in Fd : line[y] \in States => line'[y] \in States

LEMMA OperationsKeepLines ==
    ASSUME TypeOK, NEW x \in Fd,
           \/ Pickup(x)
           \/ Hangup(x)
           \/ \E y \in Fd : DialExt(x, y)
    PROVE  Operation
<1> USE DEF TypeOK, Operation, States
<1>1. CASE Pickup(x)
  BY <1>1 DEF Pickup, PickupIdle, PickupRinging, Idle
<1>2. CASE Hangup(x)
  BY <1>2 DEF Hangup, HangupCall, HangupIdle, AfterHangup, Idle
<1>3. ASSUME NEW y \in Fd, DialExt(x, y) PROVE Operation
  BY <1>3 DEF DialExt, Dial, DialNobody, DialIdle, DialBusy, Idle
<1>4. QED
  BY <1>1, <1>2, <1>3

\* After a Tell every tester will know the new states.
LEMMA TellInforms ==
    ASSUME TInv, NEW x \in Fd, Operation, Tell(x)
    PROVE  /\ toClient' \in [Fd -> Seq(Lines)]
           /\ \A y \in Fd :
                tester[y].running =>
                    Current(toClient'[y], tester[y].current_state, line'[y])
<1> USE DEF TInv, Typed
<1>1. ASSUME NEW y \in Fd, tester[y].running
      PROVE  line[y] \in States /\ line'[y] \in States
  BY <1>1 DEF WillKnow, Operation
<1>2. \A s \in Seq(Lines), l \in States : Append(s, l) \in Seq(Lines)
  BY DEF Lines
<1>3. toClient' \in [Fd -> Seq(Lines)]
  BY <1>1, <1>2 DEF Tell
<1>4. ASSUME NEW y \in Fd, tester[y].running
      PROVE  Current(toClient'[y], tester[y].current_state, line'[y])
  <2>1. CASE y = x \/ line'[y] # line[y]
    <3>1. toClient'[y] = Append(toClient[y], line'[y])
      BY <1>4, <2>1 DEF Tell
    <3>2. QED
      BY <3>1, <1>1, <1>4, CurrentAppend
  <2>2. CASE ~(y = x \/ line'[y] # line[y])
    <3>1. toClient'[y] = toClient[y] /\ line'[y] = line[y]
      BY <2>2 DEF Tell
    <3>2. QED
      BY <3>1, <1>4 DEF WillKnow
  <2>3. QED
    BY <2>1, <2>2
<1>5. QED
  BY <1>3, <1>4

LEMMA ChatInforms ==
    ASSUME TInv, NEW x \in Fd, ChatTo(x)
    PROVE  /\ toClient' \in [Fd -> Seq(Lines)]
           /\ \A y \in Fd :
                tester[y].running =>
                    Current(toClient'[y], tester[y].current_state, line[y])
<1> USE DEF TInv, Typed
<1>1. \A y \in Fd : tester[y].running =>
          line[y] \in States /\ Current(toClient[y], tester[y].current_state, line[y])
  BY DEF WillKnow
<1>2. \A s \in Seq(Lines), l \in Lines : Append(s, l) \in Seq(Lines)
  BY DEF Lines
<1>3. ASSUME NEW y \in Fd
      PROVE  \/ ~tester[y].running /\ toClient'[y] = toClient[y]
             \/ tester[y].running /\ toClient'[y] \in
                  {toClient[y], Append(toClient[y], line[y]), Append(toClient[y], "CHAT")}
  BY DEF ChatTo
<1>4. toClient' \in [Fd -> Seq(Lines)]
  <2>1. \A y \in Fd : toClient'[y] \in Seq(Lines)
    BY <1>1, <1>2, <1>3 DEF Lines
  <2>2. DOMAIN toClient' = Fd /\ toClient' = [y \in Fd |-> toClient'[y]]
    BY DEF ChatTo
  <2>3. QED
    BY <2>1, <2>2
<1>5. ASSUME NEW y \in Fd, tester[y].running
      PROVE  Current(toClient'[y], tester[y].current_state, line[y])
  <2>1. /\ Current(Append(toClient[y], line[y]), tester[y].current_state, line[y])
        /\ Current(Append(toClient[y], "CHAT"), tester[y].current_state, line[y])
    BY <1>1, <1>5, CurrentAppend, CurrentChat
  <2>2. QED
    BY <2>1, <1>1, <1>3, <1>5
<1>6. QED
  BY <1>4, <1>5

-----------------------------------------------------------------------------
(***************************************************************************)
(* The invariant.                                                          *)
(***************************************************************************)

LEMMA InitTInv == TesterInit => TInv
<1> SUFFICES ASSUME TesterInit PROVE TInv
  OBVIOUS
<1> USE DEF TesterInit, Init
<1>1. TypeOK /\ toServer \in [Fd -> Seq(Commands)] /\ toClient \in [Fd -> Seq(Lines)]
      /\ served \in [Fd -> {"no", "open", "hungup"}]
  BY DEF TypeOK
<1>2. NoTester \in Testers /\ ~NoTester.running
  BY DEF NoTester, NewTester, Testers, Expect, Expectations, States
<1>3. QED
  BY <1>1, <1>2 DEF TInv, Typed, WillKnow

LEMMA ConnectTInv ==
    ASSUME TInv, NEW x \in Fd, Connect(x) PROVE TInv'
<1> USE DEF TInv, Typed, Connect
<1>1. NewTester \in Testers
  BY DEF NewTester, Testers, Expect, Expectations, States
<1>2. <<"ON_HOOK">> \in Seq(Lines)
  BY DEF Lines, States
<1>3. Typed'
  BY <1>1, <1>2 DEF Register, TypeOK, States
<1>4. Current(<<"ON_HOOK">>, "ON_HOOK", "ON_HOOK")
  BY DEF Current
<1>5. WillKnow(x)'
  BY <1>4 DEF WillKnow, Register, TypeOK, NewTester, States
<1>6. ASSUME NEW y \in Fd, y # x PROVE WillKnow(y)'
  BY <1>6 DEF WillKnow, Register, TypeOK
<1>7. QED
  BY <1>3, <1>5, <1>6

LEMMA ServeTInv ==
    ASSUME TInv, NEW x \in Fd, Serve(x) PROVE TInv'
<1> USE DEF TInv, Typed
<1>1. toServer' \in [Fd -> Seq(Commands)] /\ Head(toServer[x]) \in Commands
  BY DEF Serve
<1>2. ASSUME Operation, Tell(x) PROVE TInv'
  BY <1>1, <1>2, TellInforms DEF Serve, Operation, WillKnow
<1>3. ASSUME Idle, ChatTo(x) PROVE TInv'
  BY <1>1, <1>3, ChatInforms DEF Serve, Idle, WillKnow, TypeOK
<1>4. Head(toServer[x]).cmd = "dial" => Head(toServer[x]).ext \in Fd
  BY <1>1 DEF Commands
<1>5. QED
  BY <1>2, <1>3, <1>4, OperationsKeepLines DEF Serve

LEMMA EofTInv ==
    ASSUME TInv, NEW x \in Fd, Eof(x) PROVE TInv'
<1> USE DEF TInv, Typed, Eof
<1>1. Operation
  BY OperationsKeepLines
<1>2. Typed'
  BY <1>1, TellInforms DEF Operation
<1>3. ASSUME NEW y \in Fd PROVE WillKnow(y)'
  BY <1>1, TellInforms DEF Operation, WillKnow
<1>4. QED
  BY <1>2, <1>3

LEMMA DisconnectTInv ==
    ASSUME TInv, NEW x \in Fd, Disconnect(x) PROVE TInv'
<1> USE DEF TInv, Typed, Disconnect, Unregister, TypeOK
<1>1. Typed'
  OBVIOUS
<1>2. ASSUME NEW y \in Fd PROVE WillKnow(y)'
  BY DEF WillKnow
<1>3. QED
  BY <1>1, <1>2

LEMMA ExitTInv ==
    ASSUME TInv, NEW x \in Fd, NEW failed \in BOOLEAN, Exit(x, failed),
           UNCHANGED <<line, peer, served>>, toServer' \in [Fd -> Seq(Commands)]
    PROVE  TInv'
<1> USE DEF TInv, Typed, Exit
<1>1. Typed'
  <2>1. [tester[x] EXCEPT !.running = FALSE, !.failed = failed] \in Testers
    BY DEF Testers
  <2>2. tester' \in [Fd -> Testers]
    BY <2>1
  <2>3. toClient' \in [Fd -> Seq(Lines)]
    OBVIOUS
  <2>4. QED
    BY <2>2, <2>3 DEF TypeOK
<1>2. ~tester'[x].running
  BY DEF Testers
<1>3. ASSUME NEW y \in Fd PROVE WillKnow(y)'
  BY <1>2 DEF WillKnow
<1>4. QED
  BY <1>1, <1>3

\* A tester that reads a state takes it for the current one.
LEMMA LearnTInv ==
    ASSUME TInv, NEW x \in Fd, Reading(x), Told(x) # "CHAT", Consume(x),
           NEW r \in Testers, r.current_state = Told(x),
           tester' = [tester EXCEPT ![x] = r],
           UNCHANGED <<line, peer, served>>, toServer' \in [Fd -> Seq(Commands)]
    PROVE  TInv'
<1> USE DEF TInv, Typed, Consume, Reading, Told
<1>1. Typed'
  <2>1. toClient[x] \in Seq(Lines) /\ Tail(toClient[x]) \in Seq(Lines)
    OBVIOUS
  <2>2. toClient' \in [Fd -> Seq(Lines)] /\ tester' \in [Fd -> Testers]
    BY <2>1
  <2>3. QED
    BY <2>2 DEF TypeOK
<1>2. Current(Tail(toClient[x]), Told(x), line[x])
  BY CurrentTail DEF WillKnow
<1>3. WillKnow(x)'
  BY <1>2 DEF WillKnow
<1>4. ASSUME NEW y \in Fd, y # x PROVE WillKnow(y)'
  BY <1>4 DEF WillKnow
<1>5. QED
  BY <1>1, <1>3, <1>4

LEMMA ReadChatTInv ==
    ASSUME TInv, NEW x \in Fd, ReadChat(x) PROVE TInv'
<1> USE DEF TInv, Typed, ReadChat, Reading, Told
<1>1. CASE Consume(x) /\ UNCHANGED tester
  <2>1. Typed'
    BY <1>1 DEF Consume, TypeOK
  <2>2. Current(Tail(toClient[x]), tester[x].current_state, line[x])
    BY CurrentTail DEF WillKnow
  <2>3. ASSUME NEW y \in Fd PROVE WillKnow(y)'
    BY <1>1, <2>2 DEF WillKnow, Consume
  <2>4. QED
    BY <2>1, <2>3
<1>2. CASE Exit(x, TRUE)
  BY <1>2, ExitTInv
<1>3. QED
  BY <1>1, <1>2

LEMMA ReadAnswerTInv ==
    ASSUME TInv, NEW x \in Fd, ReadAnswer(x) PROVE TInv'
<1> USE DEF TInv, Typed
<1> PICK c \in Commands :
      /\ toServer' = [toServer EXCEPT ![x] = Append(@, c)]
      /\ \/ /\ tester' = [tester EXCEPT ![x] =
                 [@ EXCEPT !.current_state = Told(x), !.resync = FALSE, !.last = c.cmd,
                           !.expected = NextStates(Told(x), c.cmd)]]
            /\ Consume(x)
         \/ Exit(x, FALSE)
  BY DEF ReadAnswer
<1>1. Told(x) \in States /\ Told(x) # "CHAT"
  BY DEF ReadAnswer, Testers, Expectations, States
<1>2. c.cmd \in {"dial", "pickup", "hangup", "chat"}
  BY DEF Commands
<1> DEFINE r == [tester[x] EXCEPT !.current_state = Told(x), !.resync = FALSE, !.last = c.cmd,
                                  !.expected = NextStates(Told(x), c.cmd)]
<1>3. r \in Testers /\ r.current_state = Told(x)
  BY <1>1, <1>2, NextStatesType DEF Testers
<1>4. toServer' \in [Fd -> Seq(Commands)]
  OBVIOUS
<1>5. CASE tester' = [tester EXCEPT ![x] = r] /\ Consume(x)
  <2> HIDE DEF r
  <2>1. QED
    BY <1>1, <1>3, <1>4, <1>5, LearnTInv DEF ReadAnswer
<1>6. CASE Exit(x, FALSE)
  BY <1>4, <1>6, ExitTInv DEF ReadAnswer
<1>7. QED
  BY <1>5, <1>6

LEMMA ReadOtherTInv ==
    ASSUME TInv, NEW x \in Fd, ReadOther(x) PROVE TInv'
<1> USE DEF TInv, Typed, ReadOther
<1> DEFINE r == [tester[x] EXCEPT !.current_state = Told(x), !.resync = TRUE,
                                  !.expected = NextStates(Told(x), tester[x].last)]
<1>1. CASE /\ Told(x) \in tester[x].expected.crossing
           /\ tester' = [tester EXCEPT ![x] = r]
           /\ Consume(x)
  <2>1. Told(x) \in States
    BY <1>1 DEF Testers, Expectations
  <2>2. r \in Testers /\ r.current_state = Told(x)
    BY <2>1, NextStatesType DEF Testers
  <2> HIDE DEF r
  <2>3. Told(x) # "CHAT"
    OBVIOUS
  <2>4. QED
    BY <1>1, <2>2, <2>3, LearnTInv
<1>2. CASE Exit(x, TRUE)
  BY <1>2, ExitTInv
<1>3. QED
  BY <1>1, <1>2

LEMMA NextTInv == TInv /\ [TesterNext]_tvars => TInv'
<1> SUFFICES ASSUME TInv, [TesterNext]_tvars PROVE TInv'
  OBVIOUS
<1>1. CASE TesterNext
  BY <1>1, ConnectTInv, ServeTInv, EofTInv, DisconnectTInv, ReadChatTInv,
     ReadAnswerTInv, ReadOtherTInv
  DEF TesterNext
<1>2. CASE UNCHANGED tvars
  BY <1>2 DEF tvars, TInv, Typed, TypeOK, WillKnow
<1>3. QED
  BY <1>1, <1>2

\* A tester that has read every line knows the state of its telephone unit,
\* however many extensions there are and however many lines and commands are
\* on their way: each change of a state is told in the order of the changes,
\* and what a tester takes for an answer or a crossing notification, it takes
\* for its state (tester.c:278-308).
THEOREM TesterKnows == TesterSpec => []TesterKnowsState
<1>1. TInv => TesterKnowsState
  BY DEF TInv, Typed, WillKnow, TesterKnowsState, Current
<1>2. QED
  BY <1>1, InitTInv, NextTInv, PTL DEF TesterSpec

-----------------------------------------------------------------------------
(***************************************************************************)
(* No tester is told of a state that its table does not allow.  What is on *)
(* its way to a tester is read as a chain of states `known', from the one  *)
(* it holds to that of its unit, in which each line came unasked or, at    *)
(* one place `answer', answers the last command.  A tester may take for    *)
(* an answer what came unasked, and is then a command ahead, but only      *)
(* while its unit is on its hook, where anything is expected.              *)
(***************************************************************************)

OnHook == {"ON_HOOK", "RINGING"}

\* The changes that come unasked, and the chats.
Unasked(l, s, u) ==
    IF l = "CHAT" THEN s = "CONNECTED" /\ u = "CONNECTED"
    ELSE /\ l = u
         /\ \/ s \in OnHook /\ u \in OnHook
            \/ s = "RING_BACK" /\ u \in {"CONNECTED", "DIAL_TONE"}
            \/ s = "CONNECTED" /\ u = "DIAL_TONE"

\* The lines q lead from state c to state l; `answer' is 0 when none of them
\* answers the command cmd.
Reads(q, c, l, cmd, known, answer) ==
    /\ known \in [0 .. Len(q) -> States] /\ answer \in 0 .. Len(q)
    /\ known[0] = c /\ known[Len(q)] = l
    /\ \A i \in 1 .. Len(q) :
         \/ Unasked(q[i], known[i - 1], known[i])
         \/ /\ i = answer /\ q[i] = known[i]
            /\ known[i] \in NextStates(known[i - 1], cmd).normal
    /\ \A i, j \in 0 .. Len(q) :
         i <= j /\ known[i] \in OnHook /\ ~(i < answer /\ answer <= j) =>
             known[j] \in OnHook

\* The commands that the service thread has yet to read: the last one is the
\* tester's last, and there are more only on the hook.
Outstanding(x) ==
    LET q == toServer[x]
    IN /\ Len(q) > 0 => q[Len(q)].cmd = tester[x].last
       /\ Len(q) > 1 => line[x] \in OnHook
       /\ \A i \in 1 .. Len(q) - 1 : q[i].cmd # "pickup"

\* A tester expects what its table says, and at first to be on the hook.
Expecting(x) ==
    \/ tester[x].expected = NextStates(tester[x].current_state, tester[x].last)
    \/ /\ tester[x].expected = Expect({"ON_HOOK"}, {})
       /\ tester[x].current_state = "ON_HOOK" /\ tester[x].last = "hangup"
       /\ toClient[x] # <<>> /\ Head(toClient[x]) = "ON_HOOK"

Agrees(x) ==
    \E known, answer :
        /\ Reads(toClient[x], tester[x].current_state, line[x], tester[x].last,
                 known, answer)
        /\ toServer[x] # <<>> => answer = 0

Understands(x) ==
    /\ ~tester[x].failed
    /\ served[x] # "open" => toServer[x] = <<>>
    /\ tester[x].running => Expecting(x) /\ Outstanding(x) /\ Agrees(x)

\* Nobody is in a call with himself.
NoSelf == \A x \in Fd : peer[x] # x

UInv == TInv /\ IInv /\ NoSelf /\ \A x \in Fd : Understands(x)

-----------------------------------------------------------------------------
(***************************************************************************)
(* The table of the tester.                                                *)
(***************************************************************************)

CommandNames == {"dial", "pickup", "hangup", "chat"}

\* What comes unasked is an answer or expected to cross the command.
LEMMA UnaskedExpected ==
    ASSUME NEW s \in States, NEW u \in States, NEW l, Unasked(l, s, u), l # "CHAT",
           NEW cmd \in CommandNames
    PROVE  u \in NextStates(s, cmd).normal \cup NextStates(s, cmd).crossing
BY DEF Unasked, OnHook, CommandNames, States, NextStates, Expect

\* It may pass for an answer only on the hook.
LEMMA UnaskedAnswer ==
    ASSUME NEW s \in States, NEW u \in States, NEW l, Unasked(l, s, u), l # "CHAT",
           NEW cmd \in CommandNames, u \in NextStates(s, cmd).normal
    PROVE  s \in OnHook /\ u \in OnHook /\ cmd # "pickup"
BY DEF Unasked, OnHook, CommandNames, States, NextStates, Expect

LEMMA HookAnswers ==
    ASSUME NEW s \in OnHook, NEW cmd \in CommandNames, cmd # "pickup",
           NEW u \in NextStates(s, cmd).normal
    PROVE  u \in OnHook
BY DEF OnHook, CommandNames, NextStates, Expect

-----------------------------------------------------------------------------
(***************************************************************************)
(* Chains of states, as lines are added and taken.                         *)
(***************************************************************************)

LEMMA ReadsAppend ==
    ASSUME NEW q \in Seq(Lines), NEW c, NEW l, NEW cmd, NEW known, NEW answer,
           Reads(q, c, l, cmd, known, answer),
           NEW m \in Lines, NEW u \in States, NEW b \in {answer, Len(q) + 1},
           \/ b = answer /\ Unasked(m, l, u)
           \/ b = Len(q) + 1 /\ answer = 0 /\ m = u /\ u \in NextStates(l, cmd).normal
    PROVE  \E k : Reads(Append(q, m), c, u, cmd, k, b)
<1> DEFINE n == Len(q)
           r == Append(q, m)
           k == [i \in 0 .. n + 1 |-> IF i = n + 1 THEN u ELSE known[i]]
<1>1. /\ Len(r) = n + 1 /\ n \in Nat /\ r[n + 1] = m
      /\ \A i \in 1 .. n : r[i] = q[i]
  OBVIOUS
<1>2. /\ k \in [0 .. n + 1 -> States] /\ k[n + 1] = u
      /\ \A i \in 0 .. n : k[i] = known[i]
      /\ known[n] = l /\ k[0] = c /\ answer \in 0 .. n /\ k[n] = l
  <2>1. /\ known \in [0 .. n -> States] /\ answer \in 0 .. n
        /\ known[0] = c /\ known[n] = l
    BY DEF Reads
  <2>2. n + 1 \in 0 .. n + 1 /\ 0 \in 0 .. n /\ n \in 0 .. n /\ 0 .. n \subseteq 0 .. n + 1
    BY <1>1
  <2> HIDE DEF r, n
  <2>3. k[n + 1] = u /\ \A i \in 0 .. n : k[i] = known[i]
    BY <1>1, <2>2
  <2>4. k \in [0 .. n + 1 -> States]
    BY <1>1, <2>1
  <2>5. QED
    BY <2>1, <2>2, <2>3, <2>4
<1> HIDE DEF k, r, n
<1>3. ASSUME NEW i \in 1 .. n + 1
      PROVE  \/ Unasked(r[i], k[i - 1], k[i])
             \/ i = b /\ r[i] = k[i] /\ k[i] \in NextStates(k[i - 1], cmd).normal
  <2>1. CASE i = n + 1
    <3>1. i - 1 = n
      BY <1>1, <2>1
    <3>2. QED
      BY <1>1, <1>2, <2>1, <3>1 DEF n
  <2>2. CASE i # n + 1
    <3>1. i \in 1 .. n /\ i - 1 \in 0 .. n /\ i \in 0 .. n
      BY <1>1, <2>2
    <3>2. r[i] = q[i] /\ k[i - 1] = known[i - 1] /\ k[i] = known[i]
      BY <1>1, <1>2, <3>1
    <3>3. i = answer => b = answer
      BY <1>1, <3>1 DEF n
    <3>4. QED
      BY <3>1, <3>2, <3>3 DEF Reads, n
  <2>3. QED
    BY <2>1, <2>2
<1>4. ASSUME NEW i \in 0 .. n + 1, NEW j \in 0 .. n + 1,
             i <= j, k[i] \in OnHook, ~(i < b /\ b <= j)
      PROVE  k[j] \in OnHook
  <2>1. CASE j = n + 1 /\ i # n + 1
    <3>1. b = answer /\ Unasked(m, l, u)
      BY <1>1, <1>2, <1>4, <2>1 DEF n
    <3>2. known[i] \in OnHook /\ i \in 0 .. n /\ n \in 0 .. n /\ i <= n
      BY <1>1, <1>2, <1>4, <2>1
    <3>3. known[n] \in OnHook
      BY <1>1, <1>2, <1>4, <2>1, <3>1, <3>2 DEF Reads, n
    <3>4. u \in OnHook
      BY <1>2, <3>1, <3>3 DEF Unasked, OnHook
    <3>5. QED
      BY <1>2, <2>1, <3>4
  <2>2. CASE j # n + 1
    <3>1. i \in 0 .. n /\ j \in 0 .. n /\ ~(i < answer /\ answer <= j)
      BY <1>1, <1>2, <1>4, <2>2 DEF n
    <3>2. QED
      BY <1>2, <1>4, <3>1 DEF Reads, n
  <2>3. CASE j = n + 1 /\ i = n + 1
    BY <1>4, <2>3
  <2>4. QED
    BY <2>1, <2>2, <2>3
<1>5. b \in 0 .. n + 1
  BY <1>1, <1>2 DEF n
<1>6. Reads(r, c, u, cmd, k, b)
  BY <1>1, <1>2, <1>3, <1>4, <1>5 DEF Reads
<1>7. QED
  BY <1>6 DEF r

\* Once the answer is read the command does not matter.
LEMMA ReadsTail ==
    ASSUME NEW q \in Seq(Lines), q # <<>>, NEW c, NEW l, NEW cmd, NEW known, NEW answer,
           Reads(q, c, l, cmd, known, answer)
    PROVE  \E k : Reads(Tail(q), known[1], l, cmd, k, IF answer = 0 THEN 0 ELSE answer - 1)
<1> DEFINE n == Len(q)
           r == Tail(q)
           k == [i \in 0 .. n - 1 |-> known[i + 1]]
           b == IF answer = 0 THEN 0 ELSE answer - 1
<1>1. n \in Nat \ {0} /\ Len(r) = n - 1 /\ \A i \in 1 .. n - 1 : r[i] = q[i + 1]
  OBVIOUS
<1>2. /\ known \in [0 .. n -> States] /\ answer \in 0 .. n /\ known[n] = l
      /\ k \in [0 .. n - 1 -> States] /\ b \in 0 .. n - 1
      /\ \A i \in 0 .. n - 1 : k[i] = known[i + 1]
  BY <1>1 DEF Reads
<1>3. k[0] = known[1] /\ k[n - 1] = l
  BY <1>1, <1>2
<1> HIDE DEF k, r, n
<1>4. ASSUME NEW i \in 1 .. n - 1
      PROVE  \/ Unasked(r[i], k[i - 1], k[i])
             \/ i = b /\ r[i] = k[i] /\ k[i] \in NextStates(k[i - 1], cmd).normal
  <2>1. /\ i + 1 \in 1 .. n /\ r[i] = q[i + 1] /\ k[i] = known[i + 1]
        /\ k[i - 1] = known[i] /\ i + 1 - 1 = i
    BY <1>1, <1>2
  <2>2. i + 1 = answer => i = b
    BY <1>1
  <2>3. \/ Unasked(q[i + 1], known[i + 1 - 1], known[i + 1])
        \/ /\ i + 1 = answer /\ q[i + 1] = known[i + 1]
           /\ known[i + 1] \in NextStates(known[i + 1 - 1], cmd).normal
    BY <2>1 DEF Reads, n
  <2>4. QED
    BY <2>1, <2>2, <2>3
<1>5. ASSUME NEW i \in 0 .. n - 1, NEW j \in 0 .. n - 1,
             i <= j, k[i] \in OnHook, ~(i < b /\ b <= j)
      PROVE  k[j] \in OnHook
  <2>1. i + 1 \in 0 .. n /\ j + 1 \in 0 .. n /\ i + 1 <= j + 1
        /\ ~(i + 1 < answer /\ answer <= j + 1)
    BY <1>1, <1>2, <1>5
  <2>2. known[i + 1] \in OnHook /\ k[j] = known[j + 1]
    BY <1>2, <1>5
  <2>3. QED
    BY <2>1, <2>2 DEF Reads, n
<1>6. Reads(r, known[1], l, cmd, k, b)
  BY <1>1, <1>2, <1>3, <1>4, <1>5 DEF Reads
<1>7. QED
  BY <1>6 DEF r

\* On the hook an answer may as well have come unasked.
LEMMA ReadsUnasked ==
    ASSUME NEW q \in Seq(Lines), NEW c, NEW l, NEW cmd \in CommandNames, NEW known, NEW answer,
           Reads(q, c, l, cmd, known, answer),
           answer = 0 \/ (c \in OnHook /\ cmd # "pickup"),
           NEW next
    PROVE  Reads(q, c, l, next, known, 0)
<1> DEFINE n == Len(q)
<1>1. n \in Nat /\ known \in [0 .. n -> States] /\ answer \in 0 .. n /\ known[0] = c
  BY DEF Reads
<1>2. CASE answer = 0
  BY <1>1, <1>2 DEF Reads
<1>3. CASE answer # 0
  <2>1. answer - 1 \in 0 .. n /\ answer \in 1 .. n /\ 0 \in 0 .. n
    BY <1>1, <1>3
  <2>2. known[answer - 1] \in OnHook
    BY <1>1, <1>3, <2>1 DEF Reads
  <2>3. \/ Unasked(q[answer], known[answer - 1], known[answer])
        \/ /\ q[answer] = known[answer]
           /\ known[answer] \in NextStates(known[answer - 1], cmd).normal
    BY <2>1 DEF Reads
  <2>4. known[answer] \in OnHook
    BY <1>3, <2>2, <2>3, HookAnswers DEF Unasked, OnHook
  <2>5. Unasked(q[answer], known[answer - 1], known[answer])
    <3>1. q[answer] = known[answer] => q[answer] # "CHAT"
      BY <2>4 DEF OnHook
    <3>2. QED
      BY <2>2, <2>3, <2>4, <3>1 DEF Unasked
  <2>6. ASSUME NEW j \in 0 .. n PROVE known[j] \in OnHook
    <3>1. CASE j < answer
      BY <1>1, <1>3, <2>1, <3>1 DEF Reads
    <3>2. CASE ~(j < answer)
      <4>1. answer \in 0 .. n /\ answer <= j /\ ~(answer < answer /\ answer <= j)
        BY <1>1, <3>2
      <4>2. QED
        BY <2>4, <4>1 DEF Reads
    <3>3. QED
      BY <3>1, <3>2
  <2>7. \A i \in 1 .. n : Unasked(q[i], known[i - 1], known[i])
    BY <2>5 DEF Reads
  <2>8. QED
    BY <1>1, <2>6, <2>7 DEF Reads
<1>4. QED
  BY <1>2, <1>3

-----------------------------------------------------------------------------
(***************************************************************************)
(* The operations: calls keep their two ends, the command gets an answer   *)
(* of the table, and to others a change comes unasked.                     *)
(***************************************************************************)

LEMMA CallsStep ==
    ASSUME TInv, [TesterNext]_tvars PROVE [Next]_vars
<1>1. ASSUME NEW x \in Fd, Pickup(x) \/ Hangup(x) \/ \E y \in Fd : DialExt(x, y)
      PROVE  [Next]_vars
  BY <1>1 DEF Next, vars, Operate, Pickup, Hangup, DialExt, Idle
<1>2. ASSUME NEW x \in Fd, Serve(x) PROVE [Next]_vars
  <2>1. Head(toServer[x]) \in Commands
    BY <1>2 DEF Serve, TInv, Typed
  <2>2. Head(toServer[x]).cmd = "dial" => Head(toServer[x]).ext \in Fd
    BY <2>1 DEF Commands
  <2>3. Idle => UNCHANGED vars
    BY DEF Idle, vars
  <2>4. QED
    BY <1>1, <1>2, <2>2, <2>3 DEF Serve
<1>3. ASSUME NEW x \in Fd, Connect(x) \/ Disconnect(x) PROVE [Next]_vars
  BY <1>3 DEF Connect, Disconnect, Next, Operate
<1>4. ASSUME NEW x \in Fd, Eof(x) PROVE [Next]_vars
  BY <1>1, <1>4 DEF Eof
<1>5. ASSUME NEW x \in Fd, ReadChat(x) \/ ReadAnswer(x) \/ ReadOther(x)
      PROVE  [Next]_vars
  BY <1>5 DEF ReadChat, ReadAnswer, ReadOther, vars
<1>6. CASE UNCHANGED tvars
  BY <1>6 DEF tvars, vars
<1>7. QED
  BY <1>2, <1>3, <1>4, <1>5, <1>6 DEF TesterNext

LEMMA NoSelfNext == IInv /\ NoSelf /\ [Next]_vars => NoSelf'
<1> SUFFICES ASSUME IInv, NoSelf, [Next]_vars PROVE NoSelf'
  OBVIOUS
<1> USE NoFdAssumption DEF IInv, TypeOK, CallsAreSymmetric, NoSelf, InCall
<1>1. ASSUME NEW x \in Fd, HangupCall(x) PROVE NoSelf'
  BY <1>1 DEF HangupCall
<1>2. ASSUME NEW x \in Fd, NEW y \in Fd, DialIdle(x, y) PROVE NoSelf'
  <2>1. x # y
    BY <1>2 DEF DialIdle
  <2>2. peer' = [peer EXCEPT ![x] = y, ![y] = x]
    BY <1>2 DEF DialIdle
  <2>3. QED
    BY <2>1, <2>2
<1>3. CASE UNCHANGED peer
  BY <1>3
<1>4. QED
  BY <1>1, <1>2, <1>3
  DEF Next, vars, Operate, Dial, Register, Unregister, PickupIdle, PickupRinging,
      HangupIdle, DialNobody, DialBusy

LEMMA OthersChange ==
    ASSUME IInv, NoSelf, NEW x \in Fd, NEW z \in Fd, z # x,
           Pickup(x) \/ Hangup(x) \/ \E y \in Fd : DialExt(x, y)
    PROVE  line'[z] = line[z] \/ Unasked(line'[z], line[z], line'[z])
<1> DEFINE Fine == line'[z] = line[z] \/ Unasked(line'[z], line[z], line'[z])
<1> USE NoFdAssumption DEF IInv, TypeOK, CallsAreSymmetric, NoSelf, InCall, CallStates,
                           Unasked, OnHook
<1>1. CASE PickupRinging(x)
  BY <1>1 DEF PickupRinging
<1>2. CASE HangupCall(x)
  BY <1>2 DEF HangupCall, AfterHangup
<1>3. ASSUME NEW y \in Fd, DialIdle(x, y) PROVE Fine
  BY <1>3 DEF DialIdle
<1>4. CASE PickupIdle(x) \/ HangupIdle(x) \/ Idle
  BY <1>4 DEF PickupIdle, HangupIdle, Idle
<1>5. ASSUME NEW y \in Fd, DialNobody(x, y) \/ DialBusy(x, y) PROVE Fine
  BY <1>5 DEF DialNobody, DialBusy
<1>6. QED
  BY <1>1, <1>2, <1>3, <1>4, <1>5 DEF Pickup, Hangup, DialExt, Dial

LEMMA Answers ==
    ASSUME IInv, NoSelf, NEW x \in Fd, line[x] \in States, NEW c \in Commands,
           \/ c.cmd = "pickup" /\ Pickup(x)
           \/ c.cmd = "hangup" /\ Hangup(x)
           \/ c.cmd = "dial" /\ DialExt(x, c.ext)
           \/ c.cmd = "chat" /\ Idle
    PROVE  line'[x] \in States /\ line'[x] \in NextStates(line[x], c.cmd).normal
<1> USE NoFdAssumption DEF IInv, TypeOK, CallsAreSymmetric, NoSelf, InCall
<1>1. \A s \in States :
        /\ s # "ON_HOOK" /\ s # "RINGING" => s \in NextStates(s, "pickup").normal
        /\ s # "DIAL_TONE" => s \in NextStates(s, "dial").normal
        /\ s \in NextStates(s, "chat").normal
        /\ "ON_HOOK" \in NextStates(s, "hangup").normal
  BY DEF NextStates, Expect, States
<1>2. /\ "DIAL_TONE" \in NextStates("ON_HOOK", "pickup").normal
      /\ "CONNECTED" \in NextStates("RINGING", "pickup").normal
      /\ {"RING_BACK", "BUSY_SIGNAL", "ERROR"} \subseteq NextStates("DIAL_TONE", "dial").normal
  BY DEF NextStates, Expect
<1>3. CASE c.cmd = "pickup" /\ Pickup(x)
  BY <1>1, <1>2, <1>3 DEF Pickup, PickupIdle, PickupRinging, Idle, States
<1>4. CASE c.cmd = "hangup" /\ Hangup(x)
  <2>1. line'[x] = "ON_HOOK"
    BY <1>4 DEF Hangup, HangupCall, HangupIdle, Idle
  <2>2. QED
    BY <1>1, <1>4, <2>1 DEF States
<1>5. CASE c.cmd = "dial" /\ DialExt(x, c.ext)
  <2>1. c.ext \in Fd
    BY <1>5 DEF Commands
  <2>2. CASE line[x] = "DIAL_TONE"
    <3>1. line'[x] \in {"RING_BACK", "BUSY_SIGNAL", "ERROR"}
      BY <1>5, <2>1, <2>2 DEF DialExt, Dial, DialNobody, DialIdle, DialBusy
    <3>2. QED
      BY <1>2, <1>5, <2>2, <3>1 DEF States
  <2>3. CASE line[x] # "DIAL_TONE"
    <3>1. line'[x] = line[x]
      BY <1>5, <2>3 DEF DialExt, Dial, DialNobody, DialIdle, DialBusy, Idle
    <3>2. QED
      BY <1>1, <1>5, <2>3, <3>1
  <2>4. QED
    BY <2>2, <2>3
<1>6. CASE c.cmd = "chat" /\ Idle
  BY <1>1, <1>6 DEF Idle
<1>7. QED
  BY <1>3, <1>4, <1>5, <1>6

-----------------------------------------------------------------------------
(***************************************************************************)
(* The steps.                                                              *)
(***************************************************************************)

LEMMA Unaffected ==
    ASSUME NEW y \in Fd, Understands(y),
           tester'[y] = tester[y], toServer'[y] = toServer[y], toClient'[y] = toClient[y],
           line'[y] = line[y], served'[y] = served[y]
    PROVE  Understands(y)'
BY DEF Understands, Expecting, Outstanding, Agrees

LEMMA EmptySeq ==
    ASSUME NEW T, NEW s \in Seq(T) PROVE Len(s) = 0 <=> s = <<>>
OBVIOUS

LEMMA FirstIsKept ==
    ASSUME NEW T, NEW s \in Seq(T), s # <<>>, NEW e \in T
    PROVE  Append(s, e) # <<>> /\ Head(Append(s, e)) = Head(s)
OBVIOUS

\* A line that comes unasked, or none.
LEMMA ToldUnasked ==
    ASSUME TInv, NEW y \in Fd, Understands(y),
           tester'[y] = tester[y], toServer'[y] = toServer[y], served'[y] = served[y],
           ~tester[y].running \/ line'[y] \in States,
           NEW m \in Lines,
           \/ ~tester[y].running
           \/ toClient'[y] = toClient[y] /\ line'[y] = line[y]
           \/ toClient'[y] = Append(toClient[y], m) /\ Unasked(m, line[y], line'[y])
    PROVE  Understands(y)'
<1>1. CASE ~tester[y].running
  BY <1>1 DEF Understands
<1>2. CASE toClient'[y] = toClient[y] /\ line'[y] = line[y]
  BY <1>2, Unaffected
<1>3. CASE /\ tester[y].running /\ line'[y] \in States
           /\ toClient'[y] = Append(toClient[y], m) /\ Unasked(m, line[y], line'[y])
  <2> DEFINE q == toClient[y]
  <2>1. q \in Seq(Lines) /\ toServer[y] \in Seq(Commands)
    BY DEF TInv, Typed
  <2>2. Agrees(y)'
    <3>1. PICK known, answer :
            /\ Reads(q, tester[y].current_state, line[y], tester[y].last, known, answer)
            /\ toServer[y] # <<>> => answer = 0
      BY <1>3 DEF Understands, Agrees
    <3>2. \E k : Reads(Append(q, m), tester[y].current_state, line'[y], tester[y].last, k, answer)
      BY <1>3, <2>1, <3>1, ReadsAppend
    <3>3. QED
      BY <1>3, <3>1, <3>2 DEF Agrees
  <2>3. q # <<>> => Append(q, m) # <<>> /\ Head(Append(q, m)) = Head(q)
    BY <2>1, FirstIsKept
  <2>4. Expecting(y)'
    BY <1>3, <2>3 DEF Understands, Expecting
  <2>5. line[y] \in OnHook => line'[y] \in OnHook
    BY <1>3 DEF Unasked, OnHook
  <2>6. Outstanding(y)'
    BY <1>3, <2>5 DEF Understands, Outstanding
  <2>7. QED
    BY <2>2, <2>4, <2>6 DEF Understands
<1>4. QED
  BY <1>1, <1>2, <1>3

\* The answer to a command.
LEMMA ToldAnswer ==
    ASSUME UInv, NEW x \in Fd, tester[x].running, toServer[x] # <<>>,
           line'[x] \in States, line'[x] \in NextStates(line[x], Head(toServer[x]).cmd).normal,
           tester'[x] = tester[x], served'[x] = served[x],
           toServer'[x] = Tail(toServer[x]),
           toClient'[x] = Append(toClient[x], line'[x])
    PROVE  Understands(x)'
<1> DEFINE q == toClient[x]
           s == toServer[x]
<1>1. /\ q \in Seq(Lines) /\ s \in Seq(Commands) /\ Head(s) = s[1] /\ Len(s) \in Nat \ {0}
      /\ Len(Tail(s)) = Len(s) - 1 /\ \A i \in 1 .. Len(s) - 1 : Tail(s)[i] = s[i + 1]
      /\ s[1] \in Commands /\ line'[x] \in Lines
  BY DEF UInv, TInv, Typed, Lines
<1>2. s[1].cmd \in CommandNames
  BY <1>1 DEF Commands, CommandNames
<1>3. PICK known :
        Reads(q, tester[x].current_state, line[x], tester[x].last, known, 0)
  BY DEF UInv, Understands, Agrees
<1>4. ~tester[x].failed /\ Expecting(x) /\ Outstanding(x) /\ served[x] = "open"
      /\ line[x] \in States
  BY DEF UInv, Understands, TInv, WillKnow
<1>5. q # <<>> => Append(q, line'[x]) # <<>> /\ Head(Append(q, line'[x])) = Head(q)
  BY <1>1, FirstIsKept
<1>6. Expecting(x)'
  BY <1>4, <1>5 DEF Expecting
<1>7. CASE Len(s) = 1
  <2>1. s[1].cmd = tester[x].last
    BY <1>4, <1>7 DEF Outstanding
  <2>2. \E k : Reads(Append(q, line'[x]), tester[x].current_state, line'[x], tester[x].last,
                     k, Len(q) + 1)
    BY <1>1, <1>3, <2>1, ReadsAppend
  <2>3. Tail(s) = <<>> /\ Len(Tail(s)) = 0
    <3> DEFINE u == Tail(s)
    <3>1. s # <<>>
      OBVIOUS
    <3>2. u \in Seq(Commands) /\ Len(u) = 0
      <4> HIDE DEF s
      <4>1. QED
        BY <1>1, <1>7, <3>1
    <3> HIDE DEF u
    <3>3. u = <<>>
      BY <3>2, EmptySeq
    <3>4. QED
      BY <3>2, <3>3 DEF u
  <2>4. Agrees(x)'
    BY <2>2, <2>3 DEF Agrees
  <2>5. Outstanding(x)'
    <3>1. Len(toServer'[x]) = 0
      BY <2>3
    <3>2. \A n : n = 0 => ~(n > 0) /\ ~(n > 1) /\ \A i \in 1 .. n - 1 : FALSE
      OBVIOUS
    <3>3. QED
      BY <3>1, <3>2, Zenon DEF Outstanding
  <2>6. QED
    BY <1>4, <1>6, <2>4, <2>5 DEF Understands
<1>8. CASE Len(s) > 1
  <2>1. line[x] \in OnHook /\ s[1].cmd # "pickup"
    BY <1>1, <1>4, <1>8 DEF Outstanding
  <2>2. line'[x] \in OnHook
    BY <1>1, <1>2, <2>1, HookAnswers
  <2>3. Unasked(line'[x], line[x], line'[x])
    BY <2>1, <2>2 DEF Unasked, OnHook
  <2>4. \E k : Reads(Append(q, line'[x]), tester[x].current_state, line'[x], tester[x].last,
                     k, 0)
    BY <1>1, <1>3, <2>3, ReadsAppend
  <2>5. Agrees(x)'
    BY <2>4 DEF Agrees
  <2>6. Outstanding(x)'
    <3>1. Tail(s)[Len(Tail(s))] = s[Len(s)]
      BY <1>1, <1>8
    <3>2. \A i \in 1 .. Len(Tail(s)) - 1 : Tail(s)[i] = s[i + 1] /\ i + 1 \in 1 .. Len(s) - 1
      BY <1>1
    <3>3. s[Len(s)].cmd = tester[x].last /\ \A i \in 1 .. Len(s) - 1 : s[i].cmd # "pickup"
      BY <1>4, <1>8 DEF Outstanding
    <3>4. QED
      BY <2>2, <3>1, <3>2, <3>3 DEF Outstanding
  <2>7. QED
    BY <1>4, <1>6, <2>5, <2>6 DEF Understands
<1> HIDE DEF s, q
<1>9. Len(s) = 1 \/ Len(s) > 1
  BY <1>1
<1>10. QED
  BY <1>7, <1>8, <1>9

\* What an operation of x tells the others comes unasked.
LEMMA TellOthers ==
    ASSUME UInv, TInv', NEW x \in Fd, Pickup(x) \/ Hangup(x) \/ \E y \in Fd : DialExt(x, y),
           Tell(x), tester' = tester,
           NEW z \in Fd, z # x, toServer'[z] = toServer[z], served'[z] = served[z]
    PROVE  Understands(z)'
<1>1. TInv /\ IInv /\ NoSelf /\ Understands(z) /\ "CHAT" \in Lines
  BY DEF UInv, Lines
<1>2. ~tester[z].running \/ line'[z] \in States
  BY <1>1 DEF TInv, WillKnow
<1>3. CASE ~tester[z].running
  BY <1>1, <1>2, <1>3, ToldUnasked
<1>4. CASE tester[z].running /\ line'[z] = line[z]
  <2>1. toClient'[z] = toClient[z]
    BY <1>4 DEF Tell
  <2>2. QED
    BY <1>1, <1>2, <1>4, <2>1, ToldUnasked
<1>5. CASE tester[z].running /\ line'[z] # line[z]
  <2>1. toClient'[z] = Append(toClient[z], line'[z]) /\ line'[z] \in Lines
    BY <1>2, <1>5 DEF Tell, Lines
  <2>2. Unasked(line'[z], line[z], line'[z])
    BY <1>1, <1>5, OthersChange
  <2>3. QED
    BY <1>1, <1>2, <1>5, <2>1, <2>2, ToldUnasked
<1>6. QED
  BY <1>3, <1>4, <1>5

LEMMA ServeUnderstands ==
    ASSUME UInv, TInv', NEW x \in Fd, Serve(x), NEW z \in Fd PROVE Understands(z)'
<1> DEFINE c == Head(toServer[x])
<1>1. TInv /\ IInv /\ NoSelf /\ Understands(z)
  BY DEF UInv
<1>2. /\ toServer \in [Fd -> Seq(Commands)] /\ toClient \in [Fd -> Seq(Lines)]
      /\ tester' = tester /\ served' = served /\ served[x] = "open" /\ toServer[x] # <<>>
      /\ toServer' = [toServer EXCEPT ![x] = Tail(@)]
  BY <1>1 DEF TInv, Typed, Serve
<1>3. c \in Commands
  BY <1>2
<1>4. c.cmd = "dial" => c.ext \in Fd
  BY <1>3 DEF Commands
<1>5. CASE z # x
  <2>1. toServer'[z] = toServer[z] /\ served'[z] = served[z]
    BY <1>2, <1>5
  <2>2. CASE (Pickup(x) \/ Hangup(x) \/ \E y \in Fd : DialExt(x, y)) /\ Tell(x)
    BY <1>2, <1>5, <2>1, <2>2, TellOthers
  <2>3. CASE Idle /\ ChatTo(x)
    <3>1. line' = line /\ (~tester[z].running \/ line'[z] \in States) /\ "CHAT" \in Lines
      BY <1>1, <2>3 DEF Idle, TInv, WillKnow, Lines
    <3>2. CASE toClient'[z] = toClient[z]
      BY <1>1, <1>2, <2>1, <3>1, <3>2, ToldUnasked
    <3>3. CASE toClient'[z] # toClient[z]
      <4>1. z = peer[x] /\ line[x] = "CONNECTED" /\ toClient'[z] = Append(toClient[z], "CHAT")
        BY <1>5, <2>3, <3>3 DEF ChatTo
      <4>2. line[z] = "CONNECTED"
        BY <1>1, <4>1, NoFdAssumption DEF IInv, CallsAreSymmetric, CallStates
      <4>3. Unasked("CHAT", line[z], line'[z])
        BY <3>1, <4>2 DEF Unasked
      <4>4. QED
        BY <1>1, <1>2, <2>1, <3>1, <4>1, <4>3, ToldUnasked
    <3>4. QED
      BY <3>2, <3>3
  <2>4. QED
    BY <1>4, <2>2, <2>3 DEF Serve
<1>6. CASE z = x /\ tester[x].running
  <2>1. line[x] \in States
    BY <1>1, <1>6 DEF TInv, WillKnow
  <2>2. /\ \/ c.cmd = "pickup" /\ Pickup(x)
           \/ c.cmd = "hangup" /\ Hangup(x)
           \/ c.cmd = "dial" /\ DialExt(x, c.ext)
           \/ c.cmd = "chat" /\ Idle
        /\ Tell(x) \/ (Idle /\ ChatTo(x))
    BY DEF Serve
  <2>3. line'[x] \in States /\ line'[x] \in NextStates(line[x], c.cmd).normal
    <3> HIDE DEF c
    <3>1. QED
      BY <1>1, <1>3, <2>1, <2>2, Answers
  <2>4. toClient'[x] = Append(toClient[x], line'[x])
    <3>1. CASE Tell(x)
      BY <1>6, <3>1 DEF Tell
    <3>2. CASE Idle /\ ChatTo(x)
      <4>1. toClient'[x] = Append(toClient[x], line[x])
        BY <1>1, <1>6, <3>2 DEF ChatTo, NoSelf
      <4>2. QED
        BY <3>2, <4>1 DEF Idle
    <3>3. QED
      BY <2>2, <3>1, <3>2
  <2>5. toServer'[x] = Tail(toServer[x])
    BY <1>2
  <2>6. QED
    BY <1>2, <1>6, <2>3, <2>4, <2>5, ToldAnswer
<1>7. CASE z = x /\ ~tester[x].running
  BY <1>1, <1>2, <1>7 DEF Understands
<1>8. QED
  BY <1>5, <1>6, <1>7

LEMMA EofUnderstands ==
    ASSUME UInv, TInv', NEW x \in Fd, Eof(x), NEW z \in Fd PROVE Understands(z)'
<1>1. TInv /\ Understands(z) /\ tester' = tester /\ toServer' = toServer /\ Hangup(x) /\ Tell(x)
  BY DEF UInv, Eof
<1>2. CASE z # x
  <2>1. served'[z] = served[z]
    BY <1>1, <1>2 DEF TInv, Typed, Eof
  <2>2. QED
    BY <1>1, <1>2, <2>1, TellOthers
<1>3. CASE z = x
  BY <1>1, <1>3 DEF Eof, Understands
<1>4. QED
  BY <1>2, <1>3

LEMMA DisconnectUnderstands ==
    ASSUME UInv, NEW x \in Fd, Disconnect(x), NEW z \in Fd PROVE Understands(z)'
<1>1. TInv /\ Understands(z)
  BY DEF UInv
<1>2. CASE z = x
  BY <1>1, <1>2 DEF Disconnect, Understands, TInv, Typed, WillKnow
<1>3. CASE z # x
  <2>1. line'[z] = line[z] /\ served'[z] = served[z]
    BY <1>1, <1>3 DEF Disconnect, Unregister, TInv, Typed, TypeOK
  <2>2. QED
    BY <1>1, <2>1, Unaffected DEF Disconnect
<1>4. QED
  BY <1>2, <1>3

LEMMA ConnectUnderstands ==
    ASSUME UInv, NEW x \in Fd, Connect(x), NEW z \in Fd PROVE Understands(z)'
<1>1. TInv /\ Understands(z)
  BY DEF UInv
<1>2. CASE z # x
  <2>1. /\ line'[z] = line[z] /\ served'[z] = served[z] /\ tester'[z] = tester[z]
        /\ toClient'[z] = toClient[z] /\ toServer'[z] = toServer[z]
    BY <1>1, <1>2 DEF Connect, Register, TInv, Typed, TypeOK
  <2>2. QED
    BY <1>1, <2>1, Unaffected
<1>3. CASE z = x
  <2> DEFINE known == [i \in 0 .. 1 |-> "ON_HOOK"]
  <2>1. /\ tester'[x] = NewTester /\ toClient'[x] = <<"ON_HOOK">> /\ served'[x] = "open"
        /\ line'[x] = "ON_HOOK" /\ toServer'[x] = <<>>
    BY <1>1, <1>3 DEF Connect, Register, TInv, Typed, TypeOK, Understands
  <2>2. Reads(<<"ON_HOOK">>, "ON_HOOK", "ON_HOOK", "hangup", known, 0)
    <3>1. Len(<<"ON_HOOK">>) = 1 /\ <<"ON_HOOK">>[1] = "ON_HOOK"
      OBVIOUS
    <3>2. known \in [0 .. 1 -> States] /\ \A i \in 0 .. 1 : known[i] = "ON_HOOK"
      BY DEF States
    <3> HIDE DEF known
    <3>3. Unasked("ON_HOOK", "ON_HOOK", "ON_HOOK")
      BY DEF Unasked, OnHook
    <3>4. \A i \in 1 .. 1 : i = 1 /\ i - 1 = 0 /\ i - 1 \in 0 .. 1 /\ i \in 0 .. 1
      OBVIOUS
    <3>5. 0 \in 0 .. 1 /\ 1 \in 0 .. 1
      OBVIOUS
    <3>6. QED
      BY <3>1, <3>2, <3>3, <3>4, <3>5 DEF Reads, OnHook
  <2>3. Agrees(x)'
    BY <2>1, <2>2 DEF Agrees, NewTester
  <2>4. Expecting(x)'
    BY <2>1 DEF Expecting, NewTester
  <2>5. Outstanding(x)'
    <3>1. Len(toServer'[x]) = 0
      BY <2>1
    <3>2. \A n : n = 0 => ~(n > 0) /\ ~(n > 1) /\ \A i \in 1 .. n - 1 : FALSE
      OBVIOUS
    <3>3. QED
      BY <3>1, <3>2, Zenon DEF Outstanding
  <2>6. QED
    BY <1>3, <2>1, <2>3, <2>4, <2>5 DEF Understands, NewTester
<1>4. QED
  BY <1>2, <1>3

LEMMA ExitUnderstands ==
    ASSUME UInv, NEW x \in Fd, tester[x].running, Exit(x, FALSE), served' = served,
           line' = line, NEW s \in Seq(Commands), toServer' = [toServer EXCEPT ![x] = s],
           NEW z \in Fd
    PROVE  Understands(z)'
<1>1. TInv /\ Understands(z) /\ Understands(x)
  BY DEF UInv
<1>2. CASE z # x
  <2>1. tester'[z] = tester[z] /\ toClient'[z] = toClient[z] /\ toServer'[z] = toServer[z]
    BY <1>1, <1>2 DEF Exit, TInv, Typed
  <2>2. QED
    BY <1>1, <2>1, Unaffected
<1>3. CASE z = x
  <2>1. tester[x] \in Testers
    BY <1>1 DEF TInv, Typed
  <2>2. ~tester'[x].running /\ ~tester'[x].failed
    BY <1>1, <2>1 DEF Exit, TInv, Typed, Testers
  <2>3. served'[x] = "open"
    BY <1>1 DEF TInv, WillKnow
  <2>4. QED
    BY <1>3, <2>2, <2>3 DEF Understands
<1>4. QED
  BY <1>2, <1>3

\* A tester expects the answers of its table, and the line it reads came
\* unasked or is the answer.
LEMMA FirstLine ==
    ASSUME UInv, NEW x \in Fd, Reading(x)
    PROVE  LET q == toClient[x]
               c == tester[x].current_state
               cmd == tester[x].last
           IN /\ q \in Seq(Lines) /\ Told(x) = q[1] /\ c \in States /\ cmd \in CommandNames
              /\ tester[x].expected.normal = NextStates(c, cmd).normal
              /\ \/ tester[x].expected = NextStates(c, cmd)
                 \/ Told(x) = "ON_HOOK" /\ "ON_HOOK" \in tester[x].expected.normal
              /\ \E known, answer :
                   /\ Reads(q, c, line[x], cmd, known, answer)
                   /\ toServer[x] # <<>> => answer = 0
                   /\ known[0] = c /\ known[1] \in States /\ answer \in Nat
                   /\ known[Len(q)] = line[x]
                   /\ \/ Unasked(q[1], c, known[1])
                      \/ /\ answer = 1 /\ q[1] = known[1]
                         /\ known[1] \in NextStates(c, cmd).normal
<1> DEFINE q == toClient[x]
           c == tester[x].current_state
           cmd == tester[x].last
<1>1. q \in Seq(Lines) /\ tester[x] \in Testers /\ tester[x].running /\ q # <<>>
      /\ Understands(x)
  BY DEF UInv, TInv, Typed, Reading
<1>2. c \in States /\ cmd \in CommandNames
  BY <1>1 DEF Testers, CommandNames
<1>3. Told(x) = q[1] /\ Len(q) \in Nat \ {0}
  BY <1>1 DEF Told
<1>4. NextStates("ON_HOOK", "hangup").normal = {"ON_HOOK"}
  BY DEF NextStates, Expect
<1>5. \/ tester[x].expected = NextStates(c, cmd)
      \/ /\ tester[x].expected = Expect({"ON_HOOK"}, {}) /\ Told(x) = "ON_HOOK"
         /\ c = "ON_HOOK" /\ cmd = "hangup"
  BY <1>1 DEF Understands, Expecting, Told
<1>6. Expect({"ON_HOOK"}, {}).normal = {"ON_HOOK"}
  BY DEF Expect
<1>7. tester[x].expected.normal = NextStates(c, cmd).normal
  BY <1>4, <1>5, <1>6
<1>8. PICK known, answer :
        Reads(q, c, line[x], cmd, known, answer) /\ (toServer[x] # <<>> => answer = 0)
  BY <1>1 DEF Understands, Agrees
<1>9. /\ known \in [0 .. Len(q) -> States] /\ known[0] = c /\ known[Len(q)] = line[x]
      /\ answer \in 0 .. Len(q)
  BY <1>8 DEF Reads
<1>10. 1 \in 1 .. Len(q) /\ 1 \in 0 .. Len(q) /\ 1 - 1 = 0
  BY <1>3
<1>11. known[1] \in States /\ answer \in Nat
  BY <1>3, <1>9, <1>10
<1>12. \/ Unasked(q[1], known[1 - 1], known[1])
       \/ /\ 1 = answer /\ q[1] = known[1]
          /\ known[1] \in NextStates(known[1 - 1], cmd).normal
  <2> HIDE DEF q, c, cmd
  <2>1. QED
    BY <1>8, <1>10 DEF Reads
<1> HIDE DEF q, c, cmd
<1>13. \E k, a :
         /\ Reads(q, c, line[x], cmd, k, a)
         /\ toServer[x] # <<>> => a = 0
         /\ k[0] = c /\ k[1] \in States /\ a \in Nat
         /\ k[Len(q)] = line[x]
         /\ \/ Unasked(q[1], c, k[1])
            \/ a = 1 /\ q[1] = k[1] /\ k[1] \in NextStates(c, cmd).normal
  BY <1>8, <1>9, <1>10, <1>11, <1>12
<1>14. QED
  BY <1>1, <1>2, <1>3, <1>5, <1>6, <1>7, <1>13 DEF q, c, cmd

LEMMA ReadChatUnderstands ==
    ASSUME UInv, NEW x \in Fd, ReadChat(x), NEW z \in Fd PROVE Understands(z)'
<1> DEFINE q == toClient[x]
           c == tester[x].current_state
           cmd == tester[x].last
<1>1. TInv /\ Understands(z) /\ Understands(x) /\ Reading(x) /\ Told(x) = "CHAT"
  BY DEF UInv, ReadChat
<1>2. PICK known, answer :
        /\ Reads(q, c, line[x], cmd, known, answer) /\ (toServer[x] # <<>> => answer = 0)
        /\ known[1] \in States
        /\ \/ Unasked(q[1], c, known[1])
           \/ q[1] = known[1]
  BY <1>1, FirstLine
<1>3. /\ q[1] = "CHAT" /\ q \in Seq(Lines) /\ q # <<>>
      /\ tester[x].expected = NextStates(c, cmd)
  BY <1>1, FirstLine DEF Reading
<1>4. c = "CONNECTED" /\ known[1] = c
  BY <1>2, <1>3 DEF Unasked, States
<1>5. tester' = tester /\ toClient' = [toClient EXCEPT ![x] = Tail(q)]
      /\ toServer' = toServer /\ line' = line /\ served' = served
  BY <1>4 DEF ReadChat, Consume
<1>6. toClient'[x] = Tail(q) /\ (z # x => toClient'[z] = toClient[z])
  BY <1>1, <1>5 DEF TInv, Typed
<1>7. CASE z # x
  BY <1>1, <1>5, <1>6, <1>7, Unaffected
<1>8. CASE z = x
  <2>1. \E k : Reads(Tail(q), c, line[x], cmd, k, IF answer = 0 THEN 0 ELSE answer - 1)
    <3> HIDE DEF q, c, cmd
    <3>1. QED
      BY <1>2, <1>3, <1>4, ReadsTail
  <2>2. Agrees(x)'
    <3> DEFINE b == IF answer = 0 THEN 0 ELSE answer - 1
    <3>1. toServer[x] # <<>> => b = 0
      BY <1>2
    <3>2. \E k : Reads(Tail(q), c, line[x], cmd, k, b)
      BY <2>1
    <3> HIDE DEF b
    <3>3. QED
      BY <1>5, <1>6, <3>1, <3>2 DEF Agrees
  <2>3. Expecting(x)'
    BY <1>3, <1>5 DEF Expecting
  <2>4. tester[x].running /\ Outstanding(x)'
    BY <1>1, <1>5 DEF Understands, Outstanding, Reading
  <2>5. QED
    BY <1>1, <1>5, <1>8, <2>2, <2>3, <2>4 DEF Understands
<1>9. QED
  BY <1>7, <1>8

\* A tester that learns a state from an unasked line or the answer.
LEMMA Learns ==
    ASSUME UInv, NEW x \in Fd, Reading(x), Told(x) \in States,
           NEW r \in Testers, r.current_state = Told(x), ~r.failed, r.running,
           r.expected = NextStates(Told(x), r.last),
           tester' = [tester EXCEPT ![x] = r], Consume(x), line' = line, served' = served,
           NEW s \in Seq(Commands), toServer' = [toServer EXCEPT ![x] = s],
           Outstanding(x)',
           \E k, a : /\ Reads(Tail(toClient[x]), Told(x), line[x], r.last, k, a)
                     /\ s # <<>> => a = 0,
           NEW z \in Fd
    PROVE  Understands(z)'
<1>1. TInv /\ Understands(z)
  BY DEF UInv
<1>2. CASE z # x
  <2>1. tester'[z] = tester[z] /\ toClient'[z] = toClient[z] /\ toServer'[z] = toServer[z]
    BY <1>1, <1>2 DEF Consume, TInv, Typed
  <2>2. QED
    BY <1>1, <2>1, Unaffected
<1>3. CASE z = x
  <2>1. tester'[x] = r /\ toClient'[x] = Tail(toClient[x]) /\ toServer'[x] = s
    BY <1>1 DEF Consume, TInv, Typed
  <2>2. served'[x] = "open"
    BY <1>1 DEF TInv, WillKnow, Reading
  <2>3. Agrees(x)' /\ Expecting(x)'
    BY <2>1 DEF Agrees, Expecting
  <2>4. QED
    BY <1>3, <2>1, <2>2, <2>3 DEF Understands
<1>4. QED
  BY <1>2, <1>3

LEMMA ReadOtherUnderstands ==
    ASSUME UInv, NEW x \in Fd, ReadOther(x), NEW z \in Fd PROVE Understands(z)'
<1> DEFINE q == toClient[x]
           c == tester[x].current_state
           cmd == tester[x].last
           r == [tester[x] EXCEPT !.current_state = Told(x), !.resync = TRUE,
                                  !.expected = NextStates(Told(x), tester[x].last)]
<1>1. /\ TInv /\ Understands(x) /\ Reading(x)
      /\ Told(x) \notin tester[x].expected.normal /\ Told(x) # "CHAT"
      /\ toServer' = toServer /\ line' = line /\ served' = served
  BY DEF UInv, ReadOther
<1>2. /\ q \in Seq(Lines) /\ q # <<>> /\ Told(x) = q[1] /\ c \in States /\ cmd \in CommandNames
      /\ tester[x].expected.normal = NextStates(c, cmd).normal
      /\ tester[x].expected = NextStates(c, cmd)
  BY <1>1, FirstLine DEF Reading
<1>3. PICK known, answer :
        /\ Reads(q, c, line[x], cmd, known, answer) /\ (toServer[x] # <<>> => answer = 0)
        /\ known[1] \in States
        /\ \/ Unasked(q[1], c, known[1])
           \/ q[1] = known[1] /\ known[1] \in NextStates(c, cmd).normal
  BY <1>1, FirstLine
<1>4. Unasked(q[1], c, known[1]) /\ Told(x) = known[1]
  BY <1>1, <1>2, <1>3 DEF Unasked
<1>5. Told(x) \in tester[x].expected.crossing
  BY <1>1, <1>2, <1>3, <1>4, UnaskedExpected
<1>6. tester' = [tester EXCEPT ![x] = r] /\ Consume(x)
  BY <1>1, <1>5 DEF ReadOther
<1>7. \E k : Reads(Tail(q), Told(x), line[x], cmd, k, IF answer = 0 THEN 0 ELSE answer - 1)
  <2> HIDE DEF q, c, cmd
  <2>1. QED
    BY <1>2, <1>3, <1>4, ReadsTail
<1>8. /\ r \in Testers /\ r.current_state = Told(x) /\ ~r.failed /\ r.running /\ r.last = cmd
      /\ r.expected = NextStates(Told(x), r.last)
  BY <1>1, <1>3, <1>4, NextStatesType DEF TInv, Typed, Testers, Understands, Reading
<1>9. Outstanding(x)'
  <2>1. tester'[x].last = tester[x].last
    BY <1>1, <1>6, <1>8 DEF TInv, Typed
  <2>2. QED
    BY <1>1, <2>1 DEF Outstanding, Understands, Reading
<1>10. toServer[x] \in Seq(Commands) /\ toServer' = [toServer EXCEPT ![x] = toServer[x]]
  BY <1>1 DEF TInv, Typed
<1>11. \E k, a : Reads(Tail(q), Told(x), line[x], r.last, k, a) /\ (toServer[x] # <<>> => a = 0)
  <2> DEFINE b == IF answer = 0 THEN 0 ELSE answer - 1
  <2>1. toServer[x] # <<>> => b = 0
    BY <1>3
  <2>2. \E k : Reads(Tail(q), Told(x), line[x], r.last, k, b)
    BY <1>7, <1>8
  <2> HIDE DEF b, r, q
  <2>3. QED
    BY <2>1, <2>2
<1> HIDE DEF r
<1>12. QED
  BY <1>1, <1>3, <1>4, <1>6, <1>8, <1>9, <1>10, <1>11, Learns

LEMMA ReadAnswerUnderstands ==
    ASSUME UInv, NEW x \in Fd, ReadAnswer(x), NEW z \in Fd PROVE Understands(z)'
<1> DEFINE q == toClient[x]
           s == toServer[x]
           e == tester[x].current_state
           cmd == tester[x].last
<1>1. /\ TInv /\ Understands(x) /\ Reading(x) /\ Told(x) \in tester[x].expected.normal
      /\ line' = line /\ served' = served /\ tester[x] \in Testers /\ s \in Seq(Commands)
  BY DEF UInv, ReadAnswer, TInv, Typed
<1>2. PICK c \in Commands :
        /\ toServer' = [toServer EXCEPT ![x] = Append(s, c)]
        /\ \/ /\ tester' = [tester EXCEPT ![x] =
                   [@ EXCEPT !.current_state = Told(x), !.resync = FALSE, !.last = c.cmd,
                             !.expected = NextStates(Told(x), c.cmd)]]
              /\ Consume(x)
           \/ Exit(x, FALSE)
  BY DEF ReadAnswer
<1> DEFINE r == [tester[x] EXCEPT !.current_state = Told(x), !.resync = FALSE, !.last = c.cmd,
                                  !.expected = NextStates(Told(x), c.cmd)]
<1>3. CASE Exit(x, FALSE)
  <2>1. Append(s, c) \in Seq(Commands)
    BY <1>1, <1>2
  <2>2. QED
    BY <1>1, <1>2, <1>3, <2>1, ExitUnderstands DEF Reading
<1>4. CASE tester' = [tester EXCEPT ![x] = r] /\ Consume(x)
  <2>1. /\ q \in Seq(Lines) /\ q # <<>> /\ Told(x) = q[1] /\ e \in States
        /\ cmd \in CommandNames
        /\ tester[x].expected.normal = NextStates(e, cmd).normal
    BY <1>1, FirstLine DEF Reading
  <2>2. PICK known, answer :
          /\ Reads(q, e, line[x], cmd, known, answer) /\ (s # <<>> => answer = 0)
          /\ known[1] \in States /\ answer \in Nat /\ known[Len(q)] = line[x] /\ known[0] = e
          /\ \/ Unasked(q[1], e, known[1])
             \/ /\ answer = 1 /\ q[1] = known[1]
                /\ known[1] \in NextStates(e, cmd).normal
    BY <1>1, FirstLine
  <2>3. c.cmd \in CommandNames
    BY DEF Commands, CommandNames
  <2>4. Told(x) \in States /\ Told(x) # "CHAT"
    BY <1>1 DEF Testers, Expectations, States
  <2>5. Told(x) = known[1]
    BY <2>1, <2>2, <2>4 DEF Unasked
  <2>6. answer # 1 => e \in OnHook /\ known[1] \in OnHook /\ cmd # "pickup"
    BY <1>1, <2>1, <2>2, <2>4, <2>5, UnaskedAnswer
  <2>7. \E k : Reads(Tail(q), Told(x), line[x], c.cmd, k, 0)
    <3> DEFINE b == IF answer = 0 THEN 0 ELSE answer - 1
    <3> HIDE DEF q, e, cmd, s, r
    <3>1. PICK k : Reads(Tail(q), known[1], line[x], cmd, k, b)
      BY <2>1, <2>2, ReadsTail
    <3>2. b = 0 \/ (known[1] \in OnHook /\ cmd # "pickup")
      BY <2>2, <2>6
    <3>3. Tail(q) \in Seq(Lines)
      BY <2>1
    <3> HIDE DEF b
    <3>4. Reads(Tail(q), known[1], line[x], c.cmd, k, 0)
      BY <2>1, <3>1, <3>2, <3>3, ReadsUnasked
    <3>5. QED
      BY <2>5, <3>4
  <2>8. /\ r \in Testers /\ r.current_state = Told(x) /\ ~r.failed /\ r.running
        /\ r.last = c.cmd /\ r.expected = NextStates(Told(x), r.last)
    BY <1>1, <2>3, <2>4, NextStatesType DEF Testers, CommandNames, Understands, Reading
  <2>9. s # <<>> => line[x] \in OnHook /\ cmd # "pickup"
    <3> SUFFICES ASSUME s # <<>> PROVE line[x] \in OnHook /\ cmd # "pickup"
      OBVIOUS
    <3>1. answer = 0 /\ e \in OnHook /\ cmd # "pickup"
      BY <2>2, <2>6
    <3>2. Len(q) \in Nat /\ 0 \in 0 .. Len(q) /\ Len(q) \in 0 .. Len(q)
      BY <2>1
    <3> HIDE DEF q, e, cmd
    <3>3. known[Len(q)] \in OnHook
      BY <2>2, <3>1, <3>2 DEF Reads
    <3>4. QED
      BY <2>2, <3>1, <3>3
  <2>10. Outstanding(x)'
    <3> DEFINE u == Append(s, c)
    <3>1. /\ Len(s) \in Nat /\ Len(u) = Len(s) + 1 /\ u[Len(s) + 1] = c
          /\ \A i \in 1 .. Len(s) : u[i] = s[i]
      BY <1>1
    <3>2. Len(s) > 0 => s # <<>>
      BY <1>1, EmptySeq
    <3>3. Outstanding(x)
      BY <1>1 DEF Understands, Reading
    <3>4. toServer'[x] = u /\ tester'[x].last = c.cmd
      BY <1>1, <1>2, <1>4, <2>8 DEF TInv, Typed
    <3> HIDE DEF u
    <3>5. Len(s) > 0 => s[Len(s)].cmd # "pickup"
      BY <2>9, <3>2, <3>3 DEF Outstanding
    <3>6. \A i \in 1 .. Len(u) - 1 : u[i].cmd # "pickup"
      <4>1. SUFFICES ASSUME NEW i \in 1 .. Len(s) PROVE s[i].cmd # "pickup"
        BY <3>1
      <4>2. CASE i = Len(s)
        BY <3>1, <3>5, <4>2
      <4>3. CASE i # Len(s)
        <5>1. i \in 1 .. Len(s) - 1
          BY <3>1, <4>3
        <5>2. QED
          BY <3>3, <5>1 DEF Outstanding
      <4>4. QED
        BY <4>2, <4>3
    <3>7. Len(u) > 1 => line[x] \in OnHook
      BY <2>9, <3>1, <3>2
    <3>8. u[Len(u)] = c
      BY <3>1
    <3>9. QED
      BY <1>1, <3>4, <3>6, <3>7, <3>8 DEF Outstanding
  <2>11. Append(s, c) \in Seq(Commands) /\ Append(s, c) # <<>>
    BY <1>1
  <2>12. \E k, a : /\ Reads(Tail(q), Told(x), line[x], r.last, k, a)
                   /\ Append(s, c) # <<>> => a = 0
    <3> HIDE DEF q, r, s
    <3>1. QED
      BY <2>7, <2>8
  <2> HIDE DEF r
  <2>13. QED
    BY <1>1, <1>2, <1>4, <2>4, <2>8, <2>10, <2>11, <2>12, Learns
<1>5. QED
  BY <1>2, <1>3, <1>4

LEMMA InitUInv == TesterInit => UInv
<1> SUFFICES ASSUME TesterInit PROVE UInv
  OBVIOUS
<1>1. TInv /\ IInv
  BY InitTInv, InitIInv DEF TesterInit
<1>2. NoSelf
  BY NoFdAssumption DEF TesterInit, Init, NoSelf
<1>3. ASSUME NEW x \in Fd PROVE Understands(x)
  BY DEF TesterInit, Understands, NoTester, NewTester
<1>4. QED
  BY <1>1, <1>2, <1>3 DEF UInv

LEMMA NextUInv == UInv /\ [TesterNext]_tvars => UInv'
<1> SUFFICES ASSUME UInv, [TesterNext]_tvars PROVE UInv'
  OBVIOUS
<1>1. TInv' /\ IInv' /\ NoSelf'
  BY NextTInv, CallsStep, NextIInv, NoSelfNext DEF UInv
<1>2. ASSUME NEW z \in Fd PROVE Understands(z)'
  <2>1. CASE TesterNext
    BY <1>1, <2>1, ConnectUnderstands, ServeUnderstands, EofUnderstands,
       DisconnectUnderstands, ReadChatUnderstands, ReadAnswerUnderstands,
       ReadOtherUnderstands
    DEF TesterNext
  <2>2. CASE UNCHANGED tvars
    BY <2>2, Unaffected DEF UInv, tvars
  <2>3. QED
    BY <2>1, <2>2
<1>3. QED
  BY <1>1, <1>2 DEF UInv

\* No tester ever fails, however many extensions there are, however long the
\* queues between a tester and its unit, and in whatever order commands and
\* notifications cross in them: of every line its table of next states, or the
\* one for a command that was crossed, allows it to be told, and a chat comes
\* only in a call (tester.c:46-140, 278-303).
THEOREM TesterSatisfied == TesterSpec => []TesterIsSatisfied
<1>1. UInv => TesterIsSatisfied
  BY DEF UInv, Understands, TesterIsSatisfied
<1>2. QED
  BY <1>1, InitUInv, NextUInv, PTL DEF TesterSpec

=============================================================================
