--------------------------- MODULE EspNetworkProof ---------------------------
(***************************************************************************)
(* Proofs about EspNetwork, for any set of descriptors, any lengths, any   *)
(* timeout and any width of the counters.                                  *)
(***************************************************************************)
EXTENDS EspNetwork, TLAPS

\* Between closing the old socket and creating the new one there is none; a
\* transfer asks lwIP only for bytes that are missing.
NetInv ==
    /\ TypeOK /\ NoSocketLost /\ InsideBuffer
    /\ pc \in {"lookup", "socket"} => mine = {}
    /\ pc = "io" => moved < len

\* The counters stay within their width.
LEMMA InWidth == ASSUME NEW n \in Nat
                 PROVE  n % Modulus \in 0..(Modulus - 1)
  BY NetworkAssumption, SMT

\* The initial state.
LEMMA NetInit == Init => NetInv
<1> SUFFICES ASSUME Init PROVE NetInv
  OBVIOUS
<1>1. TypeOK
  <2>1. 0 \in 0..MaxTime /\ 0 \in 0..MaxLen /\ 0 \in 0..(Modulus - 1)
    BY NetworkAssumption, SMT
  <2> QED
    BY <2>1, Zenon DEF Init, TypeOK, Connecting, Transferring
<1>2. NoSocketLost /\ InsideBuffer
  BY DEF Init, NoSocketLost, InsideBuffer
<1> QED
  BY <1>1, <1>2 DEF Init, NetInv

\* Once the socket is dropped, no descriptor is left that network_connect opened.
LEMMA Dropped == ASSUME NetInv, DropSocket
                 PROVE  sock' = 0 /\ mine' = {} /\ open' \subseteq Fds
<1> USE NetworkAssumption DEF NetInv, TypeOK, NoSocketLost
<1>1. CASE sock # 0
  BY <1>1 DEF DropSocket, Close
<1>2. CASE sock = 0
  <2>1. 0 \notin mine
    OBVIOUS
  <2>2. mine = {}
    BY <1>2, <2>1
  <2> QED
    BY <1>2, <2>2 DEF DropSocket
<1> QED BY <1>1, <1>2

\* Steps that concern the socket; no transfer is under way.
LEMMA SocketSteps ==
    ASSUME NetInv,
           \/ \E fd \in Fds : OtherOpens(fd) \/ OtherCloses(fd)
           \/ NetworkDisconnect \/ ConnectBegins \/ Lookup \/ Socket \/ NoSocket
           \/ StepSucceeds \/ StepFails
    PROVE  NetInv'
<1> USE NetworkAssumption DEF NetInv, TypeOK, NoSocketLost, InsideBuffer, Connecting,
        Transferring, transfer
<1>1. CASE \E fd \in Fds : OtherOpens(fd) \/ OtherCloses(fd)
  <2>1. PICK fd \in Fds : OtherOpens(fd) \/ OtherCloses(fd)
    BY <1>1
  <2>2. CASE OtherOpens(fd)
    BY <2>2, SMT DEF OtherOpens
  <2>3. CASE OtherCloses(fd)
    BY <2>3, SMT DEF OtherCloses
  <2> QED BY <2>1, <2>2, <2>3
<1>2. CASE NetworkDisconnect
  <2>1. sock' = 0 /\ mine' = {} /\ open' \subseteq Fds
    BY <1>2, Dropped DEF NetworkDisconnect
  <2>2. /\ pc' = "idle" /\ pc = "idle" /\ connected' \in BOOLEAN
        /\ UNCHANGED <<port, theirs, remaining, len, moved, places, result>>
    BY <1>2 DEF NetworkDisconnect
  <2> QED
    BY <2>1, <2>2, SMT
<1>3. CASE ConnectBegins
  <2>1. sock' = 0 /\ mine' = {} /\ open' \subseteq Fds
    BY <1>3, Dropped DEF ConnectBegins
  <2> QED
    BY <1>3, <2>1, SMT DEF ConnectBegins
<1>4. CASE Lookup
  BY <1>4, SMT DEF Lookup, sockets
<1>5. CASE Socket
  BY <1>5, SMT DEF Socket
<1>6. CASE NoSocket
  BY <1>6, SMT DEF NoSocket
<1>7. CASE StepSucceeds
  BY <1>7, SMT DEF StepSucceeds
<1>8. CASE StepFails
  <2>1. /\ pc' = "idle" /\ pc \in {"connect", "options"}
        /\ UNCHANGED <<port, sock, connected, theirs, remaining, len, moved, places, result>>
    BY <1>8 DEF StepFails
  <2>2. CASE open' = open \ {sock} /\ mine' = mine \ {sock}
    BY <2>1, <2>2, SMT
  <2>3. CASE UNCHANGED <<open, mine>>
    BY <2>1, <2>3, SMT
  <2> QED
    BY <1>8, <2>2, <2>3 DEF StepFails, Close
<1> QED BY <1>1, <1>2, <1>3, <1>4, <1>5, <1>6, <1>7, <1>8

\* Steps of a transfer; the socket stays what it is.
LEMMA TransferSteps ==
    ASSUME NetInv, TimerSet \/ Tick \/ TransferBegins \/ Loop \/ Io
    PROVE  NetInv'
<1> USE NetworkAssumption DEF NetInv, TypeOK, NoSocketLost, InsideBuffer, Connecting,
        Transferring, sockets
<1>1. CASE TimerSet
  BY <1>1, SMT DEF TimerSet
<1>2. CASE Tick
  BY <1>2, SMT DEF Tick
<1>3. CASE TransferBegins
  BY <1>3, SMT DEF TransferBegins
<1>4. CASE Loop
  BY <1>4, SMT DEF Loop, Returns, TimeIsUp
<1>5. CASE IoMoves
  <2>1. PICK n \in 0..(len - moved) : /\ moved' = (moved + n) % Modulus
                                      /\ places' = places \cup moved..(moved + n - 1)
    BY <1>5 DEF IoMoves, Asked
  <2>2. moved' \in 0..(Modulus - 1)
    <3>1. moved + n \in Nat
      BY <2>1, SMT
    <3> QED BY <2>1, <3>1, InWidth
  <2>3. places' \subseteq 0..(len - 1)
    BY <1>5, <2>1, SMT DEF IoMoves
  <2> QED
    BY <1>5, <2>2, <2>3, SMT DEF IoMoves
<1>6. CASE IoTimesOut
  <2>1. moved' \in 0..(Modulus - 1)
    <3>1. moved + Modulus - 1 \in Nat
      BY SMT
    <3> QED BY <1>6, <3>1, InWidth DEF IoTimesOut, MinusOne
  <2> QED
    BY <1>6, <2>1, SMT DEF IoTimesOut
<1>7. CASE IoFails
  BY <1>7, SMT DEF IoFails, Returns
<1> QED BY <1>1, <1>2, <1>3, <1>4, <1>5, <1>6, <1>7 DEF Io

\* The strengthened invariant holds in every behaviour.
THEOREM NetInductive == Spec => []NetInv
<1>1. NetInv /\ [Next]_vars => NetInv'
  <2>1. NetInv /\ Next => NetInv'
    BY SocketSteps, TransferSteps DEF Next
  <2>2. NetInv /\ UNCHANGED vars => NetInv'
    BY DEF NetInv, TypeOK, NoSocketLost, InsideBuffer, vars, sockets, transfer
  <2> QED BY <2>1, <2>2
<1> QED BY NetInit, <1>1, PTL DEF Spec

\* Every variable keeps its type.
THEOREM NetTypes == Spec => []TypeOK
<1>1. NetInv => TypeOK
  BY DEF NetInv
<1> QED BY NetInductive, <1>1, PTL

\* Whatever fails during a connection attempt, the network object keeps the
\* number of every descriptor it has left open (esp_lwmqtt.c:25-74).
THEOREM KeepsSocket == Spec => []NoSocketLost
<1>1. NetInv => NoSocketLost
  BY DEF NetInv
<1> QED BY NetInductive, <1>1, PTL

\* Whatever the network returns, a transfer stays inside the part of the buffer
\* it was given (client.c:62-119).
THEOREM StaysInside == Spec => []InsideBuffer
<1>1. NetInv => InsideBuffer
  BY DEF NetInv
<1> QED BY NetInductive, <1>1, PTL
=============================================================================
