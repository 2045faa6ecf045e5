----------------------------- MODULE ClientSession -----------------------------
(***************************************************************************)
(* What one client thread does to its TCP connection                       *)
(* (src/client/ClientApp.cpp, ClientSocket.cpp, Network::SendAll), and     *)
(* what the network and the operating system may do to it.                 *)
(*                                                                         *)
(* A connection carries the lines of Telemetry[c] as a stream of units,    *)
(* LineLength to a line, the last of each line being its newline.  The     *)
(* stream is never copied: sent[c] counts the units the client has given   *)
(* to send(), received[c] those the server's recv() has returned, and the  *)
(* units between them are under way.                                       *)
(***************************************************************************)
EXTENDS Integers, Sequences

CONSTANTS
  Connections,   \* the client sessions, each with one TCP connection
  Telemetry,     \* the lines each session has to send, in file order
  LineLength,    \* units of a line on the wire, at least two
  Window,        \* units that may be under way before send() blocks
  Faults         \* which of the faults named below happen

ASSUME SessionAssumption ==
  /\ LineLength \in Nat /\ LineLength >= 2
  /\ Window \in Nat \ {0}
  /\ DOMAIN Telemetry = Connections
  /\ \A c \in Connections : Len(Telemetry[c]) \in Nat
  /\ Faults \subseteq {"kill", "reset", "vanish", "send", "disk", "crash", "bind"}

VARIABLES
  client,   \* what the client thread of each session is doing
  link,     \* the state of each session's connection
  sent,     \* units of the stream written by the client
  received  \* units of the stream read by the server

clientVars == <<client, link, sent, received>>

\* How a client thread stands: not connected yet, replaying over the socket,
\* replaying to the console only, at the end of its file, or gone.
ClientStates ==
  {"notStarted", "sending", "displayOnly", "finished", "killed", "vanished"}

\* none: no connection, or closed by both ends; open; fin: the peer has shut
\* it down, what it sent still arrives; reset: broken, both ends get errors and
\* units in flight may be lost; silent: the peer is gone and nobody is told.
LinkStates == {"none", "open", "fin", "reset", "silent"}

StreamLength(c) == Len(Telemetry[c]) * LineLength

\* Lines the client has sent to the last unit.
WholeLinesSent(c) == sent[c] \div LineLength

ClientInit ==
  /\ client = [c \in Connections |-> "notStarted"]
  /\ link = [c \in Connections |-> "none"]
  /\ sent = [c \in Connections |-> 0]
  /\ received = [c \in Connections |-> 0]

-----------------------------------------------------------------------------
(* The client thread                                                       *)

\* ClientSocket::Connect succeeds.
Connect(c) ==
  /\ client[c] = "notStarted"
  /\ client' = [client EXCEPT ![c] = "sending"]
  /\ link' = [link EXCEPT ![c] = "open"]
  /\ UNCHANGED <<sent, received>>

\* It does not, and the client goes on in display-only mode.
ConnectFails(c) ==
  /\ client[c] = "notStarted"
  /\ client' = [client EXCEPT ![c] = "displayOnly"]
  /\ UNCHANGED <<link, sent, received>>

\* One send() of SendAll: some or all of what is left of the current line, as
\* far as there is room. Without any the call blocks.
SendUnits(c) ==
  /\ client[c] = "sending" /\ link[c] = "open"
  /\ sent[c] < StreamLength(c)
  /\ \E total \in (sent[c] + 1)..((WholeLinesSent(c) + 1) * LineLength) :
       /\ total - received[c] <= Window
       /\ sent' = [sent EXCEPT ![c] = total]
  /\ UNCHANGED <<client, link, received>>

\* A wrong variant of the next definition: the error is not noticed.
SendFailureIgnored(c) ==
  /\ client[c] = "sending" /\ link[c] = "reset"
  /\ sent[c] < StreamLength(c)
  /\ UNCHANGED <<client, link, sent, received>>

\* send() reports that the connection is broken: the client disconnects and only
\* displays from then.
SendFails(c) ==
  /\ client[c] = "sending" /\ link[c] = "reset"
  /\ sent[c] < StreamLength(c)
  /\ client' = [client EXCEPT ![c] = "displayOnly"]
  /\ UNCHANGED <<link, sent, received>>

\* End of file: Disconnect, which shuts an intact connection down in order.
FinishReplay(c) ==
  /\ client[c] = "sending"
  /\ sent[c] = StreamLength(c)
  /\ client' = [client EXCEPT ![c] = "finished"]
  /\ link' = [link EXCEPT ![c] = IF @ = "open" THEN "fin" ELSE @]
  /\ UNCHANGED <<sent, received>>

-----------------------------------------------------------------------------
(* The environment                                                         *)

\* The client process is ended, between any two units: the operating system
\* closes its sockets, in order or with a reset.
Kill(c) ==
  /\ "kill" \in Faults
  /\ client[c] = "sending"
  /\ client' = [client EXCEPT ![c] = "killed"]
  /\ \E how \in {"fin", "reset"} :
       link' = [link EXCEPT ![c] = IF @ = "open" THEN how ELSE @]
  /\ UNCHANGED <<sent, received>>

\* send() reports an error of another kind (no buffer space, say) on an intact
\* connection, before a line or within it: Disconnect then shuts it down in
\* order.  A fault, as nothing makes it happen.
SendFailsIntact(c) ==
  /\ "send" \in Faults
  /\ client[c] = "sending" /\ link[c] = "open"
  /\ sent[c] < StreamLength(c)
  /\ client' = [client EXCEPT ![c] = "displayOnly"]
  /\ link' = [link EXCEPT ![c] = "fin"]
  /\ UNCHANGED <<sent, received>>

\* The connection breaks and both ends are told.
ConnectionReset(c) ==
  /\ "reset" \in Faults
  /\ link[c] \in {"open", "fin"}
  /\ link' = [link EXCEPT ![c] = "reset"]
  /\ UNCHANGED <<client, sent, received>>

\* The client's host or its network is gone without a word.
Vanish(c) ==
  /\ "vanish" \in Faults
  /\ client[c] = "sending" /\ link[c] = "open"
  /\ client' = [client EXCEPT ![c] = "vanished"]
  /\ link' = [link EXCEPT ![c] = "silent"]
  /\ UNCHANGED <<sent, received>>
=============================================================================
