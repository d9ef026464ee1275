--------------------------- MODULE PBXCallsProofs ---------------------------
(***************************************************************************)
(* Proofs about the abstract exchange, for any set of extensions.          *)
(***************************************************************************)
EXTENDS PBXCalls, TLAPS

\* The inductive invariant: symmetry of calls needs the types, and nothing
\* more.
IInv == TypeOK /\ CallsAreSymmetric

LEMMA InitIInv == Init => IInv
  BY NoFdAssumption
  DEF Init, IInv, TypeOK, CallsAreSymmetric, States, InCall

\* Every operation keeps the invariant.
LEMMA NextIInv == IInv /\ [Next]_vars => IInv'
<1> SUFFICES ASSUME IInv, [Next]_vars PROVE IInv'
  OBVIOUS
<1> USE NoFdAssumption DEF IInv, TypeOK, CallsAreSymmetric, States, InCall,
                           CallStates
<1>1. ASSUME NEW x \in Fd, Register(x) PROVE IInv'
  BY <1>1 DEF Register
<1>2. ASSUME NEW x \in Fd, Unregister(x) PROVE IInv'
  BY <1>2 DEF Unregister
<1>3. ASSUME NEW x \in Fd, PickupIdle(x) PROVE IInv'
  BY <1>3 DEF PickupIdle
<1>4. ASSUME NEW x \in Fd, PickupRinging(x) PROVE IInv'
  BY <1>4 DEF PickupRinging
<1>5. ASSUME NEW x \in Fd, HangupCall(x) PROVE IInv'
  BY <1>5 DEF HangupCall, AfterHangup
<1>6. ASSUME NEW x \in Fd, HangupIdle(x) PROVE IInv'
  BY <1>6 DEF HangupIdle
<1>7. ASSUME NEW x \in Fd, NEW y \in Fd, DialNobody(x, y) PROVE IInv'
  BY <1>7 DEF DialNobody
<1>8. ASSUME NEW x \in Fd, NEW y \in Fd, DialIdle(x, y) PROVE IInv'
  BY <1>8 DEF DialIdle
<1>9. ASSUME NEW x \in Fd, NEW y \in Fd, DialBusy(x, y) PROVE IInv'
  BY <1>9 DEF DialBusy
<1>10. CASE UNCHANGED vars
  BY <1>10 DEF vars
<1>11. QED
  BY <1>1, <1>2, <1>3, <1>4, <1>5, <1>6, <1>7, <1>8, <1>9, <1>10
  DEF Next, Operate, Dial

\* Calls are symmetric in every reachable state: pickup, hangup and dial,
\* taken as indivisible steps, never leave half of a call behind
\* (pbx.h:130-207).
THEOREM SymmetricCalls == Spec => []CallsAreSymmetric
<1>1. IInv => CallsAreSymmetric
  BY DEF IInv
<1>2. QED
  BY <1>1, InitIInv, NextIInv, PTL DEF Spec

\* A TU changes party only by way of having none, together with its peer
\* (pbx.h:153-161).
THEOREM StableParty == Spec => PartyIsStable
<1>1. ASSUME IInv, [Next]_vars
      PROVE [\A x \in Fd :
               peer[x] # NoFd =>
                   \/ peer'[x] = peer[x]
                   \/ peer'[x] = NoFd /\ peer'[peer[x]] = NoFd]_vars
  <2> USE <1>1, NoFdAssumption DEF IInv, TypeOK, CallsAreSymmetric, InCall
  <2>1. ASSUME NEW y \in Fd, HangupCall(y),
               NEW x \in Fd, peer[x] # NoFd
        PROVE \/ peer'[x] = peer[x]
              \/ peer'[x] = NoFd /\ peer'[peer[x]] = NoFd
    BY <2>1 DEF HangupCall
  <2>2. ASSUME NEW y \in Fd, NEW z \in Fd, DialIdle(y, z),
               NEW x \in Fd, peer[x] # NoFd
        PROVE peer'[x] = peer[x]
    BY <2>2 DEF DialIdle
  <2>3. ASSUME Next, NEW x \in Fd, peer[x] # NoFd
        PROVE \/ peer'[x] = peer[x]
              \/ peer'[x] = NoFd /\ peer'[peer[x]] = NoFd
    BY <2>1, <2>2, <2>3
    DEF Next, Operate, Dial, Register, Unregister, PickupIdle, PickupRinging,
        HangupIdle, DialNobody, DialBusy
  <2>4. QED
    BY <2>3
<1>2. QED
  BY <1>1, InitIInv, NextIInv, PTL DEF Spec, PartyIsStable
=============================================================================
