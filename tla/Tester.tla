------------------------------- MODULE Tester -------------------------------
(***************************************************************************)
(* The client simulator of hw5 (util/tester.c) at work on the exchange of  *)
(* module PBXCalls.  Every extension has one tester at a time, connected by*)
(* two streams, in which commands and notifications may cross.  The tester *)
(* knows of its telephone unit only what it reads; it checks each line     *)
(* against a table of the states it may be told of, and gives up on any    *)
(* other.                                                                  *)
(***************************************************************************)
EXTENDS PBXCalls, Integers, Sequences

CONSTANTS
    MaxLines,     \* bound: lines on their way to one tester
    MaxCommands   \* bound: commands on their way from one tester

VARIABLES
    toServer,   \* commands that the service thread has yet to read
    toClient,   \* lines that the tester has yet to read
    tester,     \* the variables of each tester
    served      \* "no", "open", or "hungup": the thread has seen the EOF

tvars == <<line, peer, toServer, toClient, tester, served>>

\* A dialled number is an extension, in use or not.
Commands == [cmd : {"dial"}, ext : Fd] \cup [cmd : {"pickup", "hangup", "chat"}]

\* The states a tester expects: normal ones, and those that a notification
\* which crossed the command may bring (RESYNC).
Expect(normal, crossing) == [normal |-> normal, crossing |-> crossing]

\* next_states, without the column DELAY, which is not looked up.
NextStates(s, cmd) ==
    LET off == cmd = "hangup"
    IN CASE s = "ON_HOOK" ->
              IF cmd = "pickup" THEN Expect({"DIAL_TONE"}, {"RINGING", "ON_HOOK"})
              ELSE Expect({"ON_HOOK"}, {"RINGING"})
         [] s = "RINGING" ->
              CASE cmd = "pickup" -> Expect({"CONNECTED"}, {"ON_HOOK", "RINGING"})
                [] off -> Expect({"ON_HOOK"}, {"RINGING"})
                [] OTHER -> Expect({"RINGING"}, {"ON_HOOK"})
         [] s = "DIAL_TONE" ->
              CASE off -> Expect({"ON_HOOK"}, {"DIAL_TONE"})
                [] cmd = "dial" -> Expect({"RING_BACK", "BUSY_SIGNAL", "ERROR"}, {"DIAL_TONE"})
                [] OTHER -> Expect({"DIAL_TONE"}, {})
         [] s = "RING_BACK" ->
              IF off THEN Expect({"ON_HOOK"}, {"CONNECTED", "DIAL_TONE", "RING_BACK"})
              ELSE Expect({"RING_BACK"}, {"CONNECTED", "DIAL_TONE"})
         [] s = "CONNECTED" ->
              CASE off -> Expect({"ON_HOOK"}, {"DIAL_TONE", "CONNECTED"})
                [] cmd = "pickup" -> Expect({"CONNECTED"}, {"DIAL_TONE", "CONNECTED"})
                [] OTHER -> Expect({"CONNECTED"}, {"DIAL_TONE"})
         [] s \in {"BUSY_SIGNAL", "ERROR"} ->
              IF off THEN Expect({"ON_HOOK"}, {s}) ELSE Expect({s}, {})

NewTester == [running |-> TRUE, failed |-> FALSE, current_state |-> "ON_HOOK",
              expected |-> Expect({"ON_HOOK"}, {}), resync |-> FALSE, last |-> "hangup"]
NoTester == [NewTester EXCEPT !.running = FALSE]

TesterInit ==
    /\ Init
    /\ toServer = [x \in Fd |-> <<>>] /\ toClient = [x \in Fd |-> <<>>]
    /\ tester = [x \in Fd |-> NoTester] /\ served = [x \in Fd |-> "no"]

-----------------------------------------------------------------------------
(***************************************************************************)
(* The exchange, told what to do by the commands it reads.                 *)
(***************************************************************************)

\* Mutant: the other party is not told.
TellCaller(x) ==
    toClient' = [toClient EXCEPT ![x] = IF tester[x].running THEN Append(@, line'[x]) ELSE @]

\* The operation of x tells x its state, and the other party if it changed.
\* Nobody reads what is written to a tester that has gone.
Tell(x) ==
    toClient' = [y \in Fd |->
        IF (y = x \/ line'[y] # line[y]) /\ tester[y].running
        THEN Append(toClient[y], line'[y]) ELSE toClient[y]]

Room == \A y \in Fd : Len(toClient[y]) < MaxLines

Idle == UNCHANGED <<line, peer>>

Pickup(x) == \/ PickupIdle(x)
             \/ PickupRinging(x)
             \/ line[x] \notin {"ON_HOOK", "RINGING"} /\ Idle

Hangup(x) == \/ HangupCall(x)
             \/ HangupIdle(x)
             \/ line[x] = "ON_HOOK" /\ Idle

DialExt(x, y) == \/ Dial(x, y)
                 \/ line[x] # "DIAL_TONE" /\ Idle

\* A chat is acknowledged with the state, and passed on when there is a call.
ChatTo(x) ==
    toClient' = [y \in Fd |->
        IF ~tester[y].running THEN toClient[y]
        ELSE CASE y = x -> Append(toClient[y], line[x])
               [] y = peer[x] /\ line[x] = "CONNECTED" -> Append(toClient[y], "CHAT")
               [] OTHER -> toClient[y]]

\* pbx_client_service reads and executes one command.
Serve(x) ==
    /\ served[x] = "open" /\ toServer[x] # <<>> /\ Room
    /\ toServer' = [toServer EXCEPT ![x] = Tail(@)]
    /\ UNCHANGED <<tester, served>>
    /\ LET c == Head(toServer[x])
       IN \/ c.cmd = "pickup" /\ Pickup(x) /\ Tell(x)
          \/ c.cmd = "hangup" /\ Hangup(x) /\ Tell(x)
          \/ c.cmd = "dial" /\ DialExt(x, c.ext) /\ Tell(x)
          \/ c.cmd = "chat" /\ Idle /\ ChatTo(x)

\* At the end of input the thread hangs up, and later unregisters.
Eof(x) ==
    /\ served[x] = "open" /\ toServer[x] = <<>> /\ ~tester[x].running /\ Room
    /\ Hangup(x) /\ Tell(x)
    /\ served' = [served EXCEPT ![x] = "hungup"]
    /\ UNCHANGED <<toServer, tester>>

Disconnect(x) ==
    /\ served[x] = "hungup"
    /\ Unregister(x)
    /\ served' = [served EXCEPT ![x] = "no"]
    /\ UNCHANGED <<toServer, toClient, tester>>

-----------------------------------------------------------------------------
(***************************************************************************)
(* The testers.                                                            *)
(***************************************************************************)

\* main connects; the service thread registers the connection.
Connect(x) ==
    /\ served[x] = "no"
    /\ Register(x)
    /\ served' = [served EXCEPT ![x] = "open"]
    /\ tester' = [tester EXCEPT ![x] = NewTester]
    /\ toClient' = [toClient EXCEPT ![x] = <<"ON_HOOK">>]
    /\ UNCHANGED toServer

Reading(x) == tester[x].running /\ toClient[x] # <<>>
Consume(x) == toClient' = [toClient EXCEPT ![x] = Tail(@)]
Told(x) == Head(toClient[x])

\* The process ends and its connection with it.
Exit(x, failed) ==
    /\ tester' = [tester EXCEPT ![x] = [@ EXCEPT !.running = FALSE, !.failed = failed]]
    /\ toClient' = [toClient EXCEPT ![x] = <<>>]

ReadChat(x) ==
    /\ Reading(x) /\ Told(x) = "CHAT"
    /\ IF tester[x].current_state = "CONNECTED" THEN Consume(x) /\ UNCHANGED tester
       ELSE Exit(x, TRUE)
    /\ UNCHANGED <<line, peer, toServer, served>>

\* The answer to the last command: the next command is sent, at once or after
\* delays, during which nothing is read.  It may be the last of the test.
ReadAnswer(x) ==
    /\ Reading(x) /\ Told(x) \in tester[x].expected.normal
    /\ Len(toServer[x]) < MaxCommands
    /\ \E c \in Commands :
         /\ toServer' = [toServer EXCEPT ![x] = Append(@, c)]
         /\ \/ /\ tester' = [tester EXCEPT ![x] =
                    [@ EXCEPT !.current_state = Told(x), !.resync = FALSE, !.last = c.cmd,
                              !.expected = NextStates(Told(x), c.cmd)]]
               /\ Consume(x)
            \/ Exit(x, FALSE)
    /\ UNCHANGED <<line, peer, served>>

\* Mutant: only one notification may cross a command.
ReadOtherOnce(x) ==
    /\ Reading(x) /\ Told(x) \notin tester[x].expected.normal \cup {"CHAT"}
    /\ IF ~tester[x].resync /\ Told(x) \in tester[x].expected.crossing
       THEN /\ tester' = [tester EXCEPT ![x] =
                 [@ EXCEPT !.current_state = Told(x), !.resync = TRUE,
                           !.expected = NextStates(Told(x), tester[x].last)]]
            /\ Consume(x)
       ELSE Exit(x, TRUE)
    /\ UNCHANGED <<line, peer, toServer, served>>

\* A notification that crossed the last command, whose answer is still to
\* come; any other state ends the test.
ReadOther(x) ==
    /\ Reading(x) /\ Told(x) \notin tester[x].expected.normal \cup {"CHAT"}
    /\ IF Told(x) \in tester[x].expected.crossing
       THEN /\ tester' = [tester EXCEPT ![x] =
                 [@ EXCEPT !.current_state = Told(x), !.resync = TRUE,
                           !.expected = NextStates(Told(x), tester[x].last)]]
            /\ Consume(x)
       ELSE Exit(x, TRUE)
    /\ UNCHANGED <<line, peer, toServer, served>>

TesterNext ==
    \E x \in Fd :
        \/ Connect(x)
        \/ Serve(x)
        \/ Eof(x)
        \/ Disconnect(x)
        \/ ReadChat(x)
        \/ ReadAnswer(x)
        \/ ReadOther(x)

TesterSpec == TesterInit /\ [][TesterNext]_tvars

-----------------------------------------------------------------------------
\* However commands and notifications cross, no tester is told of a state that
\* its table does not allow or gets a chat out of a call (tester.c:278-303).
TesterIsSatisfied == \A x \in Fd : ~tester[x].failed

\* A tester that has read every line knows the state of its telephone unit.
TesterKnowsState ==
    \A x \in Fd :
        tester[x].running /\ toClient[x] = <<>> => tester[x].current_state = line[x]
=============================================================================
