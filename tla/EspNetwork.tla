----------------------------- MODULE EspNetwork -----------------------------
(***************************************************************************)
(* The network object of components/esp-mqtt/esp_lwmqtt.c, and that of the *)
(* client's own port to Unix, lwmqtt/src/os/unix.c: the life of its one    *)
(* socket among the descriptors the system hands out to all tasks, and the *)
(* byte loops of lwmqtt/src/client.c that read and write through it.       *)
(*                                                                         *)
(* lwIP or the kernel, and the other tasks that use sockets, are external. *)
(* A descriptor is a number: whoever closes it closes what it now stands   *)
(* for.  The main mutex of esp_mqtt.c lets one operation run at a time.    *)
(***************************************************************************)
EXTENDS Integers, FiniteSets

CONSTANTS
    Fds,        \* descriptors the system can hand out, all greater than 0
    MaxLen,     \* bound: bytes one transfer asks for
    MaxTime,    \* bound: clock ticks a command may take
    Modulus     \* size_t wraps at this value, 2^32

ASSUME NetworkAssumption == /\ Fds \subseteq Nat \ {0}
                            /\ MaxLen \in Nat /\ MaxTime \in Nat
                            /\ Modulus \in Nat /\ Modulus > MaxLen + 1

VARIABLES
    port,       \* "esp" or "unix", whichever the program is built with
    pc,         \* where the operation in progress stands, "idle" when there is none
    sock,       \* network->socket: 0 none, -1 no socket to be had, else a descriptor
    connected,  \* the last network_connect succeeded and no disconnect followed
    open,       \* descriptors that are open
    mine,       \* those of them that network_connect opened
    theirs,     \* descriptors other tasks hold
    remaining,  \* what is left of the command timer
    len,        \* bytes the transfer in progress asks for
    moved,      \* its counter, a size_t
    places,     \* buffer positions it has really read or written
    result      \* how the last transfer ended

sockets == <<port, sock, connected, open, mine, theirs>>
transfer == <<remaining, len, moved, places, result>>
vars == <<pc, sockets, transfer>>

Connecting == {"lookup", "socket", "connect", "options"}
Transferring == {"loop", "io"}

Init ==
    /\ port \in {"esp", "unix"}
    /\ pc = "idle"
    /\ sock = 0 /\ connected = FALSE
    /\ open = {} /\ mine = {} /\ theirs = {}
    /\ remaining = 0 /\ len = 0 /\ moved = 0 /\ places = {} /\ result = "none"

-----------------------------------------------------------------------------
(***************************************************************************)
(* Other tasks (external).                                                 *)
(***************************************************************************)
OtherOpens(fd) ==
    /\ fd \notin open
    /\ open' = open \cup {fd} /\ theirs' = theirs \cup {fd}
    /\ UNCHANGED <<port, pc, sock, connected, mine, transfer>>

OtherCloses(fd) ==
    /\ fd \in theirs
    /\ theirs' = theirs \ {fd}
    /\ open' = open \ {fd} /\ mine' = mine \ {fd}
    /\ UNCHANGED <<port, pc, sock, connected, transfer>>

-----------------------------------------------------------------------------
(***************************************************************************)
(* The life of the socket.                                                 *)
(***************************************************************************)
\* lwip_close_r: closing what is not open is an error that changes nothing.
Close(fd) == open' = open \ {fd} /\ mine' = mine \ {fd}

\* Seeded fault: the socket is forgotten before it is closed.
DropSocketUnclosed == sock' = 0 /\ UNCHANGED <<open, mine>>
\* esp_lwmqtt_network_disconnect, lwmqtt_unix_network_disconnect
DropSocket == IF sock # 0 THEN Close(sock) /\ sock' = 0 ELSE UNCHANGED <<sock, open, mine>>

NetworkDisconnect ==
    /\ pc = "idle"
    /\ DropSocket
    /\ connected' = FALSE
    /\ UNCHANGED <<port, pc, theirs, transfer>>

\* network_connect starts by closing the previous socket.
ConnectBegins ==
    /\ pc = "idle" /\ ~connected
    /\ DropSocket
    /\ pc' = "lookup"
    /\ UNCHANGED <<port, connected, theirs, transfer>>

\* lwip_getaddrinfo, getaddrinfo
Lookup ==
    /\ pc = "lookup"
    /\ pc' \in {"idle", "socket"}
    /\ UNCHANGED <<sockets, transfer>>

\* lwip_socket: any descriptor that is not open, or none.
Socket ==
    /\ pc = "socket"
    /\ \E fd \in Fds \ open :
          sock' = fd /\ open' = open \cup {fd} /\ mine' = mine \cup {fd}
    /\ pc' = "connect"
    /\ UNCHANGED <<port, connected, theirs, transfer>>

NoSocket ==
    /\ pc = "socket"
    /\ sock' = -1
    /\ pc' = "idle"
    /\ UNCHANGED <<port, connected, open, mine, theirs, transfer>>

\* The device's port turns Nagle's algorithm off once it is connected.
LastStep == IF port = "esp" THEN "options" ELSE "connect"

StepSucceeds ==
    /\ pc \in {"connect", "options"}
    /\ pc' = IF pc = LastStep THEN "idle" ELSE "options"
    /\ connected' = (pc = LastStep)
    /\ UNCHANGED <<port, sock, open, mine, theirs, transfer>>

\* When either call fails, the device's port closes the socket and keeps its
\* number in network->socket; the other leaves the socket to the next attempt.
StepFails ==
    /\ pc \in {"connect", "options"}
    /\ IF port = "esp" THEN Close(sock) ELSE UNCHANGED <<open, mine>>
    /\ pc' = "idle"
    /\ UNCHANGED <<port, sock, connected, theirs, transfer>>

-----------------------------------------------------------------------------
(***************************************************************************)
(* lwmqtt_read_from_network and lwmqtt_write_to_network, which are the     *)
(* same loop, and the port's network_read and _write inside it, in which   *)
(* the two ports agree.  Each passes what is left of the command timer to  *)
(* the socket as its timeout.                                              *)
(***************************************************************************)
\* A call sets the command timer; its transfers share what is left of it.
TimerSet ==
    /\ pc = "idle"
    /\ remaining' \in 0..MaxTime
    /\ UNCHANGED <<pc, sockets, len, moved, places, result>>

Tick ==
    /\ pc \in Transferring
    /\ remaining > 0
    /\ remaining' = remaining - 1
    /\ UNCHANGED <<pc, sockets, len, moved, places, result>>

TransferBegins ==
    /\ pc = "idle" /\ connected
    /\ len' \in 1..MaxLen
    /\ moved' = 0 /\ places' = {} /\ result' = "none"
    /\ pc' = "loop"
    /\ UNCHANGED <<sockets, remaining>>

Returns(r) == pc' = "idle" /\ result' = r

\* Seeded fault: the loop does not look at the timer.
TimeIsUpNever == FALSE
TimeIsUp == remaining <= 0

\* The head of the loop.
Loop ==
    /\ pc = "loop"
    /\ IF moved >= len THEN Returns("success")
       ELSE IF TimeIsUp THEN Returns("timeout")
       ELSE pc' = "io" /\ UNCHANGED result
    /\ UNCHANGED <<sockets, remaining, len, moved, places>>

\* Seeded fault: every round asks for the whole length.
AskedAll == len
\* What a round of the loop asks the socket for.
Asked == len - moved

\* The socket moves some bytes; a connection closed by the
\* peer reads as no bytes at all.
IoMoves ==
    /\ pc = "io"
    /\ \E n \in 0..Asked :
          /\ moved' = (moved + n) % Modulus
          /\ places' = places \cup moved..(moved + n - 1)
    /\ pc' = "loop"
    /\ UNCHANGED <<sockets, remaining, len, result>>

\* Seeded fault: the counter is not a size_t.
MinusOneSigned(n) == n - 1
\* Adding the -1 of a failed call to a size_t.
MinusOne(n) == (n + Modulus - 1) % Modulus

\* The timeout passes, of which the command timer may have a little left: -1 with
\* EAGAIN, which is added to the counter.
IoTimesOut ==
    /\ pc = "io"
    /\ moved' = MinusOne(moved)
    /\ pc' = "loop"
    /\ UNCHANGED <<sockets, remaining, len, places, result>>

IoFails ==
    /\ pc = "io"
    /\ Returns("error")
    /\ UNCHANGED <<sockets, remaining, len, moved, places>>

Io == IoMoves \/ IoTimesOut \/ IoFails

-----------------------------------------------------------------------------
Next ==
    \/ \E fd \in Fds : OtherOpens(fd) \/ OtherCloses(fd)
    \/ NetworkDisconnect \/ ConnectBegins \/ Lookup \/ Socket \/ NoSocket
    \/ StepSucceeds \/ StepFails
    \/ TimerSet \/ Tick \/ TransferBegins \/ Loop \/ Io

Spec == Init /\ [][Next]_vars

\* Time passes, and the socket calls return.
FairSpec == Spec /\ WF_vars(Tick) /\ WF_vars(Loop) /\ WF_vars(Io)

-----------------------------------------------------------------------------
(***************************************************************************)
(* Properties.                                                             *)
(***************************************************************************)
\* Every variable keeps its type.
TypeOK ==
    /\ port \in {"esp", "unix"}
    /\ pc \in {"idle"} \cup Connecting \cup Transferring
    /\ sock \in Fds \cup {0, -1} /\ connected \in BOOLEAN
    /\ open \subseteq Fds /\ mine \subseteq open /\ theirs \subseteq Fds
    /\ remaining \in 0..MaxTime /\ len \in 0..MaxLen /\ moved \in 0..(Modulus - 1)
    /\ places \subseteq Nat
    /\ result \in {"none", "success", "timeout", "error"}

\* No descriptor is lost: one that network_connect opened and nobody closed is
\* the one network->socket names, through any sequence of failed attempts.
NoSocketLost == mine \subseteq {sock}

\* No transfer touches memory outside the part of the buffer it was given,
\* though its counter can wrap below zero.
InsideBuffer == places \subseteq 0..(len - 1)

\* Every transfer returns: when the peer has closed, only the command timer
\* ends the loop.
TransferReturns == pc \in Transferring ~> pc = "idle"

\* A transfer that reports success has moved every byte (lwmqtt.h:94:
\* "Variable that must be set with the amount of read bytes").
SuccessIsComplete == result = "success" => places = 0..(len - 1)

\* A descriptor held by another task stays open until that task closes it: the
\* network object closes its own socket if present (esp_lwmqtt.c:69), and
\* nothing else.
ForeignUntouched ==
    [][\A fd \in theirs \cap open : fd \in open' \/ fd \notin theirs']_vars
=============================================================================
