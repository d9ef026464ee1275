------------------------------ MODULE PBXCalls ------------------------------
(***************************************************************************)
(* What the telephone exchange of hw5 promises its clients, with every     *)
(* operation of pbx.c taken as one indivisible step.  A telephone unit     *)
(* (TU) is identified by its extension, which is the file descriptor of    *)
(* the client's connection (pbx.c:80).  Locks, threads, the heap and the   *)
(* notifications are left to module PBX, which implements this one.        *)
(***************************************************************************)
CONSTANTS
    Fd,      \* the extensions
    NoFd     \* "no peer": the NULL opponent pointer

ASSUME NoFdAssumption == NoFd \notin Fd

VARIABLES
    line,    \* line[x]: the TU_STATE of extension x, or "absent"
    peer     \* peer[x]: the extension x's opponent pointer leads to

vars == <<line, peer>>

States == {"ON_HOOK", "RINGING", "DIAL_TONE", "RING_BACK", "BUSY_SIGNAL",
           "CONNECTED", "ERROR"}

\* The states in which a TU takes part in a call.
InCall == {"RINGING", "RING_BACK", "CONNECTED"}

Init == /\ line = [x \in Fd |-> "absent"]
        /\ peer = [x \in Fd |-> NoFd]

-----------------------------------------------------------------------------
(***************************************************************************)
(* The operations.                                                         *)
(***************************************************************************)

Register(x) ==
    /\ line[x] = "absent"
    /\ line' = [line EXCEPT ![x] = "ON_HOOK"]
    /\ UNCHANGED peer

\* The service thread hangs up before it unregisters (server.c:35-36).
Unregister(x) ==
    /\ line[x] = "ON_HOOK"
    /\ line' = [line EXCEPT ![x] = "absent"]
    /\ UNCHANGED peer

PickupIdle(x) ==
    /\ line[x] = "ON_HOOK"
    /\ line' = [line EXCEPT ![x] = "DIAL_TONE"]
    /\ UNCHANGED peer

PickupRinging(x) ==
    /\ line[x] = "RINGING"
    /\ line' = [line EXCEPT ![x] = "CONNECTED", ![peer[x]] = "CONNECTED"]
    /\ UNCHANGED peer

\* What the state of the other end becomes when a TU in state s hangs up.
AfterHangup(s) == IF s = "RING_BACK" THEN "ON_HOOK" ELSE "DIAL_TONE"

\* Mutant: the peer keeps its pointer.
HangupCallHalf(x) ==
    /\ line[x] \in InCall
    /\ line' = [line EXCEPT ![x] = "ON_HOOK",
                            ![peer[x]] = AfterHangup(line[x])]
    /\ peer' = [peer EXCEPT ![x] = NoFd]

HangupCall(x) ==
    /\ line[x] \in InCall
    /\ line' = [line EXCEPT ![x] = "ON_HOOK",
                            ![peer[x]] = AfterHangup(line[x])]
    /\ peer' = [peer EXCEPT ![x] = NoFd, ![peer[x]] = NoFd]

HangupIdle(x) ==
    /\ line[x] \in {"DIAL_TONE", "BUSY_SIGNAL", "ERROR"}
    /\ line' = [line EXCEPT ![x] = "ON_HOOK"]
    /\ UNCHANGED peer

DialNobody(x, y) ==
    /\ line[x] = "DIAL_TONE" /\ line[y] = "absent"
    /\ line' = [line EXCEPT ![x] = "ERROR"]
    /\ UNCHANGED peer

\* Mutant: the dialled TU need not be on hook.
DialAnyone(x, y) ==
    /\ line[x] = "DIAL_TONE" /\ line[y] # "absent"
    /\ line' = [line EXCEPT ![x] = "RING_BACK", ![y] = "RINGING"]
    /\ peer' = [peer EXCEPT ![x] = y, ![y] = x]

DialIdle(x, y) ==
    /\ line[x] = "DIAL_TONE" /\ line[y] = "ON_HOOK"
    /\ line' = [line EXCEPT ![x] = "RING_BACK", ![y] = "RINGING"]
    /\ peer' = [peer EXCEPT ![x] = y, ![y] = x]

\* Dialling one's own extension is a call to a TU that is off hook.
DialBusy(x, y) ==
    /\ line[x] = "DIAL_TONE" /\ line[y] \notin {"absent", "ON_HOOK"}
    /\ line' = [line EXCEPT ![x] = "BUSY_SIGNAL"]
    /\ UNCHANGED peer

Operate(x) ==
    \/ Register(x)
    \/ Unregister(x)
    \/ PickupIdle(x)
    \/ PickupRinging(x)
    \/ HangupCall(x)
    \/ HangupIdle(x)

Dial(x, y) ==
    \/ DialNobody(x, y)
    \/ DialIdle(x, y)
    \/ DialBusy(x, y)

Next == \E x \in Fd : Operate(x) \/ \E y \in Fd : Dial(x, y)

Spec == Init /\ [][Next]_vars

-----------------------------------------------------------------------------
(***************************************************************************)
(* Properties.                                                             *)
(***************************************************************************)

\* Type invariant of the abstract exchange.
TypeOK == /\ line \in [Fd -> States \cup {"absent"}]
          /\ peer \in [Fd -> Fd \cup {NoFd}]

\* The pairs of states the two ends of one call may be in.
CallStates == {<<"RING_BACK", "RINGING">>, <<"RINGING", "RING_BACK">>,
               <<"CONNECTED", "CONNECTED">>}

\* A TU is in a call exactly when it has a peer; the peer's peer is the TU
\* itself, and the two are ringing back / ringing, or both connected: no
\* operation ever leaves a half of a call behind (pbx.h:130-207).
CallsAreSymmetric ==
    \A x \in Fd :
        /\ line[x] \in InCall <=> peer[x] # NoFd
        /\ peer[x] # NoFd =>
               /\ peer[peer[x]] = x
               /\ <<line[x], line[peer[x]]>> \in CallStates

\* A TU never changes the party it is in a call with without first leaving
\* the call, and a TU that is rung or connected can be dropped from the call
\* only together with its peer (pbx.h:153-161).
PartyIsStable ==
    [][\A x \in Fd :
           peer[x] # NoFd =>
               \/ peer'[x] = peer[x]
               \/ peer'[x] = NoFd /\ peer'[peer[x]] = NoFd]_vars
=============================================================================
