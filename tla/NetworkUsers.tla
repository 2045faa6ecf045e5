----------------------------- MODULE NetworkUsers -----------------------------
(***************************************************************************)
(* The sockets of one process and its use of the network library           *)
(* (src/shared/Network.h, src/client/ClientSocket.cpp,                     *)
(* src/server/ServerListener.cpp).  A client process has one ClientSocket  *)
(* per thread; a server process has one ServerListener and the handlers of *)
(* the connections it accepts.  On Windows the objects share               *)
(* g_networkUserCount, and WSACleanup takes every socket of the process    *)
(* with it; on POSIX Initialize and Cleanup do nothing.                    *)
(***************************************************************************)
EXTENDS Integers, FiniteSets

CONSTANTS
  Clients,       \* the ClientSocket objects of a client process
  Listener,      \* the ServerListener of a server process
  Handlers,      \* the ClientHandler objects of a server process
  Handles,       \* socket handles
  MaxAddresses,  \* bound on the addresses getaddrinfo finds
  NoHandle,      \* InvalidSocket
  Nobody         \* the opener of a handle that is not open

Connectors == Clients \cup {Listener}
Owners == Connectors \cup Handlers

ASSUME NetworkAssumption ==
  /\ IsFiniteSet(Clients)
  /\ Listener \notin Clients
  /\ Handlers \cap Connectors = {}
  /\ NoHandle \notin Handles
  /\ Nobody \notin Owners
  /\ MaxAddresses \in Nat \ {0}

VARIABLES
  windows,             \* the build: Windows or POSIX
  process,             \* what the process is, a client or a server
  phase,               \* how far each object is
  returned,            \* what Connect or Start has returned
  addresses,           \* addresses still to be tried
  m_socket,            \* the handle each object holds
  openedBy,            \* which object has opened each handle
  g_networkUserCount

build == <<windows, process>>
vars == <<build, phase, returned, addresses, m_socket, openedBy, g_networkUserCount>>

Phases == {"new", "resolving", "trying", "opened", "refused", "open", "closed", "destroyed"}

\* The objects of this process that bring up a socket of their own.
Active == IF process = "client" THEN Clients ELSE {Listener}

Init ==
  /\ windows \in BOOLEAN
  /\ process \in {"client", "server"}
  /\ phase = [o \in Owners |-> "new"]
  /\ returned = [o \in Connectors |-> "nothing"]
  /\ addresses = [o \in Connectors |-> 0]
  /\ m_socket = [o \in Owners |-> NoHandle]
  /\ openedBy = [h \in Handles |-> Nobody]
  /\ g_networkUserCount = 0

-----------------------------------------------------------------------------
(* The network library                                                     *)

\* Winsock is started with the first user and shut down with the last.
LibraryUp == windows => g_networkUserCount > 0

Free == {h \in Handles : openedBy[h] = Nobody}

\* CloseSocket closes a handle whoever has opened it; InvalidSocket is ignored.
CloseSocket(h) == [g \in Handles |-> IF g = h THEN Nobody ELSE openedBy[g]]

\* Wrong variant of Cleanup: it counts below zero.
CleanupUnguarded(open) ==
  IF windows
    THEN /\ g_networkUserCount' = g_networkUserCount - 1
         /\ openedBy' = IF g_networkUserCount = 1 THEN [h \in Handles |-> Nobody] ELSE open
    ELSE openedBy' = open /\ UNCHANGED g_networkUserCount

\* Network::Cleanup, with these handles open; the last user takes them all.
Cleanup(open) ==
  IF windows /\ g_networkUserCount > 0
    THEN /\ g_networkUserCount' = g_networkUserCount - 1
         /\ openedBy' = IF g_networkUserCount = 1 THEN [h \in Handles |-> Nobody] ELSE open
    ELSE openedBy' = open /\ UNCHANGED g_networkUserCount

Goto(o, p) == phase' = [phase EXCEPT ![o] = p]
Return(o, value) == returned' = [returned EXCEPT ![o] = value]
Hold(o, h) == m_socket' = [m_socket EXCEPT ![o] = h]
NextAddress(o) == addresses' = [addresses EXCEPT ![o] = @ - 1]

-----------------------------------------------------------------------------
(* ClientSocket::Connect and ServerListener::Start.  Both begin with a      *)
(* Disconnect or Stop of a new object, which does nothing.                 *)

Initialize(o) ==
  /\ phase[o] = "new"
  /\ Goto(o, "resolving")
  /\ g_networkUserCount' = IF windows THEN g_networkUserCount + 1 ELSE g_networkUserCount
  /\ UNCHANGED <<build, returned, addresses, m_socket, openedBy>>

\* WSAStartup fails, which is not counted.
InitializeFails(o) ==
  /\ windows /\ g_networkUserCount = 0
  /\ phase[o] = "new"
  /\ Goto(o, "refused")
  /\ Return(o, "false")
  /\ UNCHANGED <<build, addresses, m_socket, openedBy, g_networkUserCount>>

\* getaddrinfo finds addresses.
Resolve(o) ==
  /\ phase[o] = "resolving"
  /\ LibraryUp
  /\ \E n \in 1..MaxAddresses : addresses' = [addresses EXCEPT ![o] = n]
  /\ Goto(o, "trying")
  /\ UNCHANGED <<build, returned, m_socket, openedBy, g_networkUserCount>>

\* Wrong variant of ResolveFails: the count is not given back.
ResolveFailsHolding(o) ==
  /\ phase[o] = "resolving"
  /\ Goto(o, "refused")
  /\ Return(o, "false")
  /\ UNCHANGED <<build, addresses, m_socket, openedBy, g_networkUserCount>>

\* getaddrinfo fails.
ResolveFails(o) ==
  /\ phase[o] = "resolving"
  /\ Goto(o, "refused")
  /\ Return(o, "false")
  /\ Cleanup(openedBy)
  /\ UNCHANGED <<build, addresses, m_socket>>

\* socket() hands out a handle that is free.
OpenSocket(o) ==
  /\ phase[o] = "trying" /\ addresses[o] > 0
  /\ LibraryUp
  /\ \E h \in Free :
       /\ Hold(o, h)
       /\ openedBy' = [openedBy EXCEPT ![h] = o]
  /\ Goto(o, "opened")
  /\ UNCHANGED <<build, returned, addresses, g_networkUserCount>>

\* Wrong variant of SocketFails: the loop does not advance.
SocketFailsInPlace(o) ==
  /\ phase[o] = "trying" /\ addresses[o] > 0
  /\ Hold(o, NoHandle)
  /\ UNCHANGED <<build, phase, returned, addresses, openedBy, g_networkUserCount>>

SocketFails(o) ==
  /\ phase[o] = "trying" /\ addresses[o] > 0
  /\ Hold(o, NoHandle)
  /\ NextAddress(o)
  /\ UNCHANGED <<build, phase, returned, openedBy, g_networkUserCount>>

\* Wrong variant of AddressFails: the handle is forgotten.
AddressFailsLeaking(o) ==
  /\ phase[o] = "opened"
  /\ Hold(o, NoHandle)
  /\ NextAddress(o)
  /\ Goto(o, "trying")
  /\ UNCHANGED <<build, returned, openedBy, g_networkUserCount>>

\* connect, bind or listen fails for this address.
AddressFails(o) ==
  /\ phase[o] = "opened"
  /\ openedBy' = CloseSocket(m_socket[o])
  /\ Hold(o, NoHandle)
  /\ NextAddress(o)
  /\ Goto(o, "trying")
  /\ UNCHANGED <<build, returned, g_networkUserCount>>

\* connect, or bind and listen, succeeds on a handle that is still open.
Established(o) ==
  /\ phase[o] = "opened"
  /\ m_socket[o] \notin Free
  /\ Goto(o, "open")
  /\ Return(o, "true")
  /\ UNCHANGED <<build, addresses, m_socket, openedBy, g_networkUserCount>>

\* No address is left.
GiveUp(o) ==
  /\ phase[o] = "trying" /\ addresses[o] = 0
  /\ Goto(o, "refused")
  /\ Return(o, "false")
  /\ Cleanup(openedBy)
  /\ UNCHANGED <<build, addresses, m_socket>>

\* What Connect and Start do after Initialize.
Attempt(o) ==
  \/ Resolve(o) \/ ResolveFails(o)
  \/ OpenSocket(o) \/ SocketFails(o) \/ AddressFails(o) \/ GiveUp(o)
  \/ Established(o)

Connect(c) == Initialize(c) \/ InitializeFails(c) \/ Attempt(c)
Start == Initialize(Listener) \/ InitializeFails(Listener) \/ Attempt(Listener)

-----------------------------------------------------------------------------
(* The rest of the objects' lives                                          *)

\* ClientSocket::Disconnect, after a failed send or at the end of the replay;
\* the end of ClientHandler::Run.
Disconnect(o) ==
  /\ phase[o] = "open"
  /\ openedBy' = CloseSocket(m_socket[o])
  /\ Hold(o, NoHandle)
  /\ Goto(o, "closed")
  /\ UNCHANGED <<build, returned, addresses, g_networkUserCount>>

\* The destructor disconnects and calls Cleanup, whatever Connect returned.
Destroy(o) ==
  /\ phase[o] \in {"refused", "closed"}
  /\ Cleanup(CloseSocket(m_socket[o]))
  /\ Hold(o, NoHandle)
  /\ Goto(o, "destroyed")
  /\ UNCHANGED <<build, returned, addresses>>

\* ServerListener::Accept hands a new handle to a handler.
Accept(d) ==
  /\ phase[Listener] = "open" /\ m_socket[Listener] \notin Free
  /\ phase[d] = "new"
  /\ \E h \in Free :
       /\ Hold(d, h)
       /\ openedBy' = [openedBy EXCEPT ![h] = d]
  /\ Goto(d, "open")
  /\ UNCHANGED <<build, returned, addresses, g_networkUserCount>>

\* A client process, one step of one of its threads.
ClientStep(c) == Connect(c) \/ Disconnect(c) \/ Destroy(c)

\* A server process whose listener starts accepts for ever; one whose listener
\* does not start ends.
ServerStep ==
  \/ Start
  \/ phase[Listener] = "refused" /\ Destroy(Listener)
  \/ \E d \in Handlers : Accept(d) \/ Disconnect(d)

Next ==
  \/ process = "client" /\ \E c \in Clients : ClientStep(c)
  \/ process = "server" /\ ServerStep

Spec == Init /\ [][Next]_vars

\* Threads are scheduled, and getaddrinfo, connect and bind return.
Fairness == \A o \in Connectors : WF_vars(o \in Active /\ Attempt(o))

FairSpec == Spec /\ Fairness

-----------------------------------------------------------------------------
(* Properties                                                              *)

TypeOK ==
  /\ windows \in BOOLEAN
  /\ process \in {"client", "server"}
  /\ phase \in [Owners -> Phases]
  /\ returned \in [Connectors -> {"nothing", "true", "false"}]
  /\ addresses \in [Connectors -> 0..MaxAddresses]
  /\ m_socket \in [Owners -> Handles \cup {NoHandle}]
  /\ openedBy \in [Handles -> Owners \cup {Nobody}]
  /\ g_networkUserCount \in Nat

\* An object whose Connect or Start failed has been destroyed on Windows: what
\* it gave back when it failed it has given back again (ClientSocket.cpp:14).
OverReleased ==
  windows /\ \E o \in Connectors : phase[o] = "destroyed" /\ returned[o] = "false"

\* The objects between a successful Initialize and the Cleanup it is owed.
Users ==
  {o \in Connectors : phase[o] \in {"resolving", "trying", "opened", "open", "closed"}}

\* An object holds exactly the handles it has opened: on every path through
\* Connect, Start, Accept and their failures no socket is left open, none is
\* used after it was closed, and none is closed by another thread.  On Windows
\* this holds as long as nobody has released twice.
HandlesExact ==
  ~OverReleased =>
    \A o \in Owners, h \in Handles : m_socket[o] = h <=> openedBy[h] = o

\* Winsock is counted exactly: it is up while any object needs it and goes down
\* with the last.  After a second release it may go down early, never late.
CountsUsers ==
  windows =>
    /\ g_networkUserCount <= Cardinality(Users)
    /\ ~OverReleased => g_networkUserCount = Cardinality(Users)

\* Connect and Start return, whatever fails on the way and however many
\* addresses there are.
EveryAttemptReturns ==
  \A o \in Connectors : phase[o] = "resolving" ~> returned[o] # "nothing"
=============================================================================
