-------------------------- MODULE NetworkUsers_proofs --------------------------
(***************************************************************************)
(* Proofs about the sockets of a process: for any number of threads,       *)
(* handlers, handles and addresses, the handles are exact and the users of *)
(* Winsock are counted as long as no object has released twice.            *)
(***************************************************************************)
EXTENDS NetworkUsers, FiniteSetTheorems, TLAPS

\* The phases in which an object owes a Cleanup.
UserPhases == {"resolving", "trying", "opened", "open", "closed"}

\* A handle is held only while it is being connected or is in use, there is an
\* address for every attempt, and an object is refused by a false return.
PhasesAgree ==
  /\ \A o \in Owners : m_socket[o] # NoHandle => phase[o] \in {"opened", "open"}
  /\ \A o \in Connectors : phase[o] = "opened" => addresses[o] > 0
  /\ \A o \in Connectors : phase[o] = "refused" => returned[o] = "false"

\* Connections are handled by a process that listens.
HandlersServed ==
  \A d \in Handlers : phase[d] # "new" => phase[Listener] = "open"

NetworkInv ==
  /\ TypeOK
  /\ HandlesExact
  /\ CountsUsers
  /\ PhasesAgree
  /\ HandlersServed

-----------------------------------------------------------------------------
(* Counting users                                                          *)

\* The users are a finite set, and what one more or one less makes of it.
LEMMA UserCount ==
  /\ IsFiniteSet(Users) /\ Cardinality(Users) \in Nat
  /\ Cardinality(Users) = 0 <=> Users = {}
  /\ \A o : o \in Users => Cardinality(Users \ {o}) = Cardinality(Users) - 1
  /\ \A o : o \notin Users => Cardinality(Users \cup {o}) = Cardinality(Users) + 1
<1>1. IsFiniteSet(Connectors)
  BY NetworkAssumption, FS_AddElement DEF Connectors
<1>2. IsFiniteSet(Users)
  BY <1>1, FS_Subset DEF Users
<1> QED  BY <1>2, FS_CardinalityType, FS_EmptySet, FS_AddElement, FS_RemoveElement

\* What a change of phase means for the set of users.
LEMMA UsersAfter ==
  ASSUME TypeOK, NEW o \in Connectors, NEW p, Goto(o, p)
  PROVE  /\ p \in UserPhases => Users' = Users \cup {o}
         /\ p \notin UserPhases => Users' = Users \ {o}
         /\ o \in Users <=> phase[o] \in UserPhases
         /\ \A q \in Owners : phase'[q] = IF q = o THEN p ELSE phase[q]
<1>1. \A q \in Owners : phase'[q] = IF q = o THEN p ELSE phase[q]
  BY DEF Goto, TypeOK
<1>2. Connectors \subseteq Owners
  BY DEF Owners
<1> QED  BY <1>1, <1>2 DEF Users, UserPhases

\* Handlers are not users.
LEMMA HandlersDoNotCount ==
  ASSUME TypeOK, NEW d \in Handlers, NEW p, Goto(d, p)
  PROVE  /\ Users' = Users
         /\ \A q \in Owners : phase'[q] = IF q = d THEN p ELSE phase[q]
<1>1. \A q \in Owners : phase'[q] = IF q = d THEN p ELSE phase[q]
  BY DEF Goto, TypeOK
<1>2. Connectors \subseteq Owners /\ d \notin Connectors
  BY NetworkAssumption DEF Owners
<1> QED  BY <1>1, <1>2 DEF Users

\* A step that leaves the destroyed objects as they are does not undo a second
\* release.
LEMMA OverReleasedStays ==
  ASSUME UNCHANGED build,
         \A o \in Connectors : phase[o] = "destroyed" =>
           phase'[o] = "destroyed" /\ returned'[o] = returned[o]
  PROVE  OverReleased => OverReleased'
BY DEF OverReleased, build

-----------------------------------------------------------------------------
(* The steps                                                               *)

\* Initialize counts one more.
LEMMA InitializeStep ==
  ASSUME NetworkInv, NEW o \in Connectors, Initialize(o)
  PROVE  NetworkInv'
<1> USE DEF NetworkInv
<1>1. /\ Users' = Users \cup {o} /\ o \notin Users
      /\ \A q \in Owners : phase'[q] = IF q = o THEN "resolving" ELSE phase[q]
  BY UsersAfter DEF Initialize, UserPhases
<1>2. o \in Owners /\ Connectors \subseteq Owners /\ Handlers \subseteq Owners
      /\ Listener \in Connectors
  BY DEF Owners, Connectors
<1>3. OverReleased => OverReleased'
  BY <1>1, <1>2, OverReleasedStays DEF Initialize
<1>4. TypeOK'
  <2>1. g_networkUserCount' \in Nat
    BY DEF Initialize, TypeOK
  <2>2. phase' \in [Owners -> Phases]
    BY DEF Initialize, TypeOK, Goto, Phases
  <2> QED  BY <2>1, <2>2 DEF Initialize, TypeOK, build
<1>5. HandlesExact'
  BY <1>3 DEF HandlesExact, Initialize
<1>6. CountsUsers'
  BY <1>1, <1>3, UserCount DEF CountsUsers, Initialize, TypeOK, build
<1>7. PhasesAgree'
  <2>1. phase[o] = "new"
    BY DEF Initialize
  <2> QED  BY <1>1, <1>2, <2>1 DEF PhasesAgree, Initialize
<1>8. HandlersServed'
  <2>1. phase[o] = "new" /\ o \notin Handlers
    BY NetworkAssumption DEF Initialize
  <2> QED  BY <1>1, <1>2, <2>1 DEF HandlersServed
<1> QED  BY <1>4, <1>5, <1>6, <1>7, <1>8

\* A failure of Initialize counts nothing.
LEMMA InitializeFailsStep ==
  ASSUME NetworkInv, NEW o \in Connectors, InitializeFails(o)
  PROVE  NetworkInv'
<1> USE DEF NetworkInv
<1>1. /\ Users' = Users \ {o} /\ o \notin Users
      /\ \A q \in Owners : phase'[q] = IF q = o THEN "refused" ELSE phase[q]
  BY UsersAfter DEF InitializeFails, UserPhases
<1>2. o \in Owners /\ Connectors \subseteq Owners /\ Handlers \subseteq Owners
      /\ Listener \in Connectors
  BY DEF Owners, Connectors
<1>3. /\ phase[o] = "new" /\ o \notin Handlers
      /\ \A q \in Connectors : returned'[q] = IF q = o THEN "false" ELSE returned[q]
  BY NetworkAssumption DEF InitializeFails, Return, TypeOK
<1>4. OverReleased => OverReleased'
  BY <1>1, <1>2, <1>3, OverReleasedStays DEF InitializeFails
<1>5. TypeOK'
  BY DEF InitializeFails, TypeOK, Goto, Return, Phases, build
<1>6. HandlesExact'
  BY <1>4 DEF HandlesExact, InitializeFails
<1>7. CountsUsers'
  <2>1. Users' = Users
    BY <1>1
  <2> QED  BY <2>1, <1>4 DEF CountsUsers, InitializeFails, build
<1>8. PhasesAgree'
  BY <1>1, <1>2, <1>3 DEF PhasesAgree, InitializeFails
<1>9. HandlersServed'
  BY <1>1, <1>2, <1>3 DEF HandlersServed
<1> QED  BY <1>5, <1>6, <1>7, <1>8, <1>9

\* There is an address to be tried next as long as one is left.
LEMMA NextAddressInRange ==
  ASSUME TypeOK, NEW o \in Connectors, addresses[o] > 0, NextAddress(o)
  PROVE  addresses' \in [Connectors -> 0..MaxAddresses]
<1>1. addresses[o] - 1 \in 0..MaxAddresses
  BY NetworkAssumption DEF TypeOK
<1> QED  BY <1>1 DEF TypeOK, NextAddress

\* The steps of an attempt that neither end it nor touch the library's count.
LEMMA TryingStep ==
  ASSUME NetworkInv, NEW o \in Connectors,
         Resolve(o) \/ OpenSocket(o) \/ SocketFails(o) \/ AddressFails(o) \/ Established(o)
  PROVE  NetworkInv'
<1> USE DEF NetworkInv
<1>1. o \in Owners /\ Connectors \subseteq Owners /\ Handlers \subseteq Owners
      /\ Listener \in Connectors /\ o \notin Handlers
  BY NetworkAssumption DEF Owners, Connectors
<1>2. /\ phase[o] \in {"resolving", "trying", "opened"}
      /\ phase'[o] \in {"trying", "opened", "open"}
      /\ \A q \in Owners : q # o => phase'[q] = phase[q]
      /\ \A q \in Connectors : q # o => returned'[q] = returned[q]
      /\ UNCHANGED <<build, g_networkUserCount>>
  BY <1>1 DEF Resolve, OpenSocket, SocketFails, AddressFails, Established, Goto,
    Return, TypeOK
<1>3. Users' = Users
  BY <1>1, <1>2 DEF Users
<1>4. OverReleased => OverReleased'
  BY <1>1, <1>2, OverReleasedStays
<1>5. /\ \A q \in Owners : q # o => m_socket'[q] = m_socket[q]
      /\ \A q \in Connectors : q # o => addresses'[q] = addresses[q]
  BY <1>1 DEF Resolve, OpenSocket, SocketFails, AddressFails, Established, Hold,
    NextAddress, TypeOK
<1>6. TypeOK' /\ (phase'[o] = "opened" => addresses'[o] > 0)
      /\ (m_socket'[o] # NoHandle => phase'[o] \in {"opened", "open"})
  <2>1. CASE Resolve(o)
    <3>1. m_socket[o] = NoHandle
      BY <2>1, <1>1 DEF Resolve, PhasesAgree
    <3> QED  BY <2>1, <3>1, <1>1, NetworkAssumption
             DEF Resolve, TypeOK, Goto, Phases, build
  <2>2. CASE OpenSocket(o)
    <3>1. TypeOK'
      BY <2>2, <1>1 DEF OpenSocket, TypeOK, Goto, Hold, Free, Phases, build
    <3> QED  BY <2>2, <3>1, <1>1 DEF OpenSocket, TypeOK, Goto
  <2>3. CASE SocketFails(o)
    <3>1. TypeOK'
      <4>1. addresses' \in [Connectors -> 0..MaxAddresses]
        BY <2>3, NextAddressInRange DEF SocketFails
      <4>2. m_socket' \in [Owners -> Handles \cup {NoHandle}]
        BY <2>3 DEF SocketFails, TypeOK, Hold
      <4> QED  BY <2>3, <4>1, <4>2 DEF SocketFails, TypeOK, build
    <3> QED  BY <2>3, <3>1, <1>1 DEF SocketFails, TypeOK, Hold
  <2>4. CASE AddressFails(o)
    <3>1. addresses[o] > 0
      BY <2>4 DEF AddressFails, PhasesAgree
    <3>2. TypeOK'
      <4>1. addresses' \in [Connectors -> 0..MaxAddresses]
        BY <2>4, <3>1, NextAddressInRange DEF AddressFails
      <4>2. /\ m_socket' \in [Owners -> Handles \cup {NoHandle}]
            /\ phase' \in [Owners -> Phases]
        BY <2>4 DEF AddressFails, TypeOK, Goto, Hold, Phases
      <4>3. openedBy' \in [Handles -> Owners \cup {Nobody}]
        BY <2>4 DEF AddressFails, TypeOK, CloseSocket
      <4> QED  BY <2>4, <4>1, <4>2, <4>3 DEF AddressFails, TypeOK, build
    <3> QED  BY <2>4, <3>2, <1>1 DEF AddressFails, TypeOK, Goto, Hold
  <2>5. CASE Established(o)
    <3>1. TypeOK'
      BY <2>5, <1>1 DEF Established, TypeOK, Goto, Return, Phases, build
    <3> QED  BY <2>5, <3>1, <1>1 DEF Established, TypeOK, Goto
  <2> QED  BY <2>1, <2>2, <2>3, <2>4, <2>5
<1>7. HandlesExact'
  <2> SUFFICES ASSUME ~OverReleased',
                      NEW q \in Owners, NEW h \in Handles
               PROVE  m_socket'[q] = h <=> openedBy'[h] = q
    BY DEF HandlesExact
  <2>1. \A r \in Owners, g \in Handles : m_socket[r] = g <=> openedBy[g] = r
    BY <1>4 DEF HandlesExact
  <2>2. CASE Resolve(o) \/ Established(o)
    BY <2>1, <2>2 DEF Resolve, Established
  <2>3. CASE OpenSocket(o)
    <3>1. PICK g \in Free : Hold(o, g) /\ openedBy' = [openedBy EXCEPT ![g] = o]
      BY <2>3 DEF OpenSocket
    <3>2. g \in Handles /\ openedBy[g] = Nobody /\ Nobody \notin Owners
      BY <3>1, NetworkAssumption DEF Free
    <3>3. m_socket[o] = NoHandle
      BY <2>3, <1>1 DEF OpenSocket, PhasesAgree
    <3>4. m_socket' = [m_socket EXCEPT ![o] = g]
      BY <3>1 DEF Hold
    <3> QED  BY <2>1, <3>1, <3>2, <3>3, <3>4, <1>1, NetworkAssumption DEF TypeOK
  <2>4. CASE SocketFails(o)
    <3>1. m_socket[o] = NoHandle
      BY <2>4, <1>1 DEF SocketFails, PhasesAgree
    <3>2. m_socket'[o] = NoHandle /\ UNCHANGED openedBy
      BY <2>4, <1>1 DEF SocketFails, Hold, TypeOK
    <3> QED  BY <2>1, <3>1, <3>2, <1>5
  <2>5. CASE AddressFails(o)
    <3>1. /\ openedBy' = [g \in Handles |-> IF g = m_socket[o] THEN Nobody ELSE openedBy[g]]
          /\ m_socket'[o] = NoHandle
      BY <2>5, <1>1 DEF AddressFails, CloseSocket, Hold, TypeOK
    <3> QED  BY <2>1, <3>1, <1>1, <1>5, NetworkAssumption
  <2> QED  BY <2>2, <2>3, <2>4, <2>5
<1>8. CountsUsers'
  BY <1>2, <1>3, <1>4 DEF CountsUsers, build
<1>9. PhasesAgree'
  BY <1>1, <1>2, <1>5, <1>6 DEF PhasesAgree
<1>10. HandlersServed'
  BY <1>1, <1>2 DEF HandlersServed
<1> QED  BY <1>6, <1>7, <1>8, <1>9, <1>10

\* The end of an attempt, or of an object, in Cleanup.  Only this step can shut
\* Winsock down; while every release is owed nobody then holds a handle.
LEMMA ReleaseStep ==
  ASSUME NetworkInv, NEW o \in Connectors, NEW p \in {"refused", "destroyed"},
         o \in Users \/ (phase[o] = "refused" /\ p = "destroyed"),
         o = Listener => phase[o] # "open",
         Goto(o, p), UNCHANGED <<build, addresses>>,
         m_socket[o] = NoHandle, UNCHANGED m_socket, Cleanup(openedBy),
         p = "refused" => Return(o, "false"),
         p = "destroyed" => UNCHANGED returned
  PROVE  NetworkInv'
<1> USE DEF NetworkInv
<1>1. /\ Users' = Users \ {o}
      /\ o \in Users <=> phase[o] \in UserPhases
      /\ \A q \in Owners : phase'[q] = IF q = o THEN p ELSE phase[q]
  BY UsersAfter DEF UserPhases
<1>2. o \in Owners /\ Connectors \subseteq Owners /\ Handlers \subseteq Owners
      /\ Listener \in Connectors /\ o \notin Handlers
  BY NetworkAssumption DEF Owners, Connectors
<1>3. /\ phase[o] # "destroyed"
      /\ \A q \in Connectors : q # o => returned'[q] = returned[q]
      /\ p = "refused" => returned'[o] = "false"
      /\ p = "destroyed" => returned'[o] = returned[o]
  BY <1>1, <1>2 DEF UserPhases, Return, TypeOK
<1>4. OverReleased => OverReleased'
  BY <1>1, <1>2, <1>3, OverReleasedStays
<1>5. OverReleased' \/ o \in Users \/ ~windows
  <2>1. CASE o \notin Users /\ windows
    <3>1. phase[o] = "refused" /\ p = "destroyed"
      BY <2>1
    <3>2. returned'[o] = "false" /\ phase'[o] = "destroyed" /\ windows'
      BY <3>1, <2>1, <1>1, <1>2, <1>3 DEF PhasesAgree, build
    <3> QED  BY <3>2 DEF OverReleased
  <2> QED  BY <2>1
<1>6. /\ g_networkUserCount \in Nat /\ g_networkUserCount' \in Nat
      /\ windows => g_networkUserCount' = IF g_networkUserCount > 0
                                            THEN g_networkUserCount - 1 ELSE 0
      /\ openedBy' \in [Handles -> Owners \cup {Nobody}]
  BY DEF Cleanup, TypeOK
<1>7. TypeOK'
  <2>1. phase' \in [Owners -> Phases]
    BY <1>2 DEF TypeOK, Goto, Phases
  <2>2. returned' \in [Connectors -> {"nothing", "true", "false"}]
    BY DEF TypeOK, Return
  <2> QED  BY <2>1, <2>2, <1>6 DEF TypeOK, build
<1>8. CountsUsers'
  <2> SUFFICES ASSUME windows
               PROVE  /\ g_networkUserCount' <= Cardinality(Users')
                      /\ ~OverReleased' => g_networkUserCount' = Cardinality(Users')
    BY DEF CountsUsers, build
  <2>1. CASE o \in Users
    <3>1. Cardinality(Users') = Cardinality(Users) - 1 /\ Cardinality(Users) \in Nat
      BY <2>1, <1>1, UserCount
    <3>2. Cardinality(Users) # 0
      BY <2>1, UserCount
    <3> QED  BY <3>1, <3>2, <1>4, <1>6 DEF CountsUsers
  <2>2. CASE o \notin Users
    <3>1. Users' = Users /\ Cardinality(Users) \in Nat
      BY <2>2, <1>1, UserCount
    <3> QED  BY <3>1, <2>2, <1>5, <1>6 DEF CountsUsers
  <2> QED  BY <2>1, <2>2
<1>9. PhasesAgree'
  BY <1>1, <1>2, <1>3 DEF PhasesAgree
<1>10. HandlersServed'
  <2>1. \A d \in Handlers : phase[d] # "new" => o # Listener
    BY <1>1, <1>2 DEF HandlersServed
  <2> QED  BY <2>1, <1>1, <1>2 DEF HandlersServed
<1>11. HandlesExact'
  <2> SUFFICES ASSUME ~OverReleased'
               PROVE  openedBy' = openedBy
    BY <1>4 DEF HandlesExact
  <2>1. CASE ~(windows /\ g_networkUserCount = 1)
    BY <2>1 DEF Cleanup, TypeOK
  <2>2. CASE windows /\ g_networkUserCount = 1
    <3>1. Users' = {}
      BY <1>1, <1>5, <1>4, <2>2, UserCount, FS_EmptySet, FS_RemoveElement
      DEF CountsUsers
    <3>2. \A q \in Owners : m_socket'[q] = NoHandle
      <4> SUFFICES ASSUME NEW q \in Owners, m_socket'[q] # NoHandle
                   PROVE  FALSE
        OBVIOUS
      <4>1. phase'[q] \in {"opened", "open"}
        BY <1>9 DEF PhasesAgree
      <4>2. q \notin Connectors
        BY <3>1, <4>1 DEF Users
      <4>3. phase'[Listener] = "open"
        BY <1>10, <4>1, <4>2 DEF HandlersServed, Owners
      <4> QED  BY <1>2, <3>1, <4>3 DEF Users
    <3>3. \A h \in Handles : openedBy[h] = Nobody
      BY <3>2, <1>4, NetworkAssumption DEF HandlesExact, TypeOK
    <3>4. openedBy' = [h \in Handles |-> Nobody]
      BY <2>2 DEF Cleanup
    <3> QED  BY <3>3, <3>4 DEF TypeOK
  <2> QED  BY <2>1, <2>2
<1> QED  BY <1>7, <1>8, <1>9, <1>10, <1>11

\* A socket in use is closed.
LEMMA DisconnectStep ==
  ASSUME NetworkInv, NEW o \in Owners, o # Listener, Disconnect(o)
  PROVE  NetworkInv'
<1> USE DEF NetworkInv
<1>1. /\ \A q \in Owners : phase'[q] = IF q = o THEN "closed" ELSE phase[q]
      /\ Users' = Users
  <2>1. CASE o \in Connectors
    <3>1. phase[o] = "open"
      BY DEF Disconnect
    <3> QED  BY <2>1, <3>1, UsersAfter DEF Disconnect, UserPhases
  <2>2. CASE o \in Handlers
    BY <2>2, HandlersDoNotCount DEF Disconnect
  <2> QED  BY <2>1, <2>2 DEF Owners
<1>2. Connectors \subseteq Owners /\ Handlers \subseteq Owners /\ Listener \in Connectors
  BY DEF Owners, Connectors
<1>3. OverReleased => OverReleased'
  <2>1. phase[o] # "destroyed"
    BY DEF Disconnect
  <2> QED  BY <1>1, <1>2, <2>1, OverReleasedStays DEF Disconnect
<1>4. TypeOK'
  BY DEF Disconnect, TypeOK, Goto, Hold, CloseSocket, Phases, build
<1>5. HandlesExact'
  <2> SUFFICES ASSUME ~OverReleased', NEW q \in Owners, NEW h \in Handles
               PROVE  m_socket'[q] = h <=> openedBy'[h] = q
    BY DEF HandlesExact
  <2>1. \A r \in Owners, g \in Handles : m_socket[r] = g <=> openedBy[g] = r
    BY <1>3 DEF HandlesExact
  <2>2. /\ openedBy' = [g \in Handles |-> IF g = m_socket[o] THEN Nobody ELSE openedBy[g]]
        /\ \A r \in Owners : m_socket'[r] = IF r = o THEN NoHandle ELSE m_socket[r]
    BY DEF Disconnect, CloseSocket, Hold, TypeOK
  <2> QED  BY <2>1, <2>2, NetworkAssumption
<1>6. CountsUsers'
  BY <1>1, <1>3 DEF CountsUsers, Disconnect, build
<1>7. PhasesAgree'
  <2>1. \A r \in Owners : m_socket'[r] = IF r = o THEN NoHandle ELSE m_socket[r]
    BY DEF Disconnect, Hold, TypeOK
  <2> QED  BY <1>1, <1>2, <2>1 DEF PhasesAgree, Disconnect
<1>8. HandlersServed'
  <2>1. phase[o] = "open"
    BY DEF Disconnect
  <2> QED  BY <1>1, <1>2, <2>1 DEF HandlersServed
<1> QED  BY <1>4, <1>5, <1>6, <1>7, <1>8

\* A handler gets a socket.
LEMMA AcceptStep ==
  ASSUME NetworkInv, NEW d \in Handlers, Accept(d)
  PROVE  NetworkInv'
<1> USE DEF NetworkInv
<1>1. /\ \A q \in Owners : phase'[q] = IF q = d THEN "open" ELSE phase[q]
      /\ Users' = Users
  BY HandlersDoNotCount DEF Accept
<1>2. /\ Connectors \subseteq Owners /\ Handlers \subseteq Owners
      /\ Listener \in Connectors /\ d \notin Connectors /\ d \in Owners
  BY NetworkAssumption DEF Owners, Connectors
<1>3. OverReleased => OverReleased'
  BY <1>1, <1>2, OverReleasedStays DEF Accept
<1>4. PICK g \in Free :
        /\ m_socket' = [m_socket EXCEPT ![d] = g]
        /\ openedBy' = [openedBy EXCEPT ![g] = d]
  BY DEF Accept, Hold
<1>5. g \in Handles /\ openedBy[g] = Nobody /\ Nobody \notin Owners
  BY <1>4, NetworkAssumption DEF Free
<1>6. TypeOK'
  BY <1>2, <1>4, <1>5 DEF Accept, TypeOK, Goto, Phases, build
<1>7. HandlesExact'
  <2> SUFFICES ASSUME ~OverReleased', NEW q \in Owners, NEW h \in Handles
               PROVE  m_socket'[q] = h <=> openedBy'[h] = q
    BY DEF HandlesExact
  <2>1. \A r \in Owners, k \in Handles : m_socket[r] = k <=> openedBy[k] = r
    BY <1>3 DEF HandlesExact
  <2>2. m_socket[d] = NoHandle
    BY <1>2 DEF Accept, PhasesAgree
  <2> QED  BY <2>1, <2>2, <1>2, <1>4, <1>5, NetworkAssumption DEF TypeOK
<1>8. CountsUsers'
  BY <1>1, <1>3 DEF CountsUsers, Accept, build
<1>9. PhasesAgree'
  <2>1. \A r \in Owners : m_socket'[r] = IF r = d THEN g ELSE m_socket[r]
    BY <1>4 DEF TypeOK
  <2> QED  BY <1>1, <1>2, <2>1 DEF PhasesAgree, Accept
<1>10. HandlersServed'
  BY <1>1, <1>2 DEF HandlersServed, Accept
<1> QED  BY <1>6, <1>7, <1>8, <1>9, <1>10

-----------------------------------------------------------------------------
(* The theorems                                                            *)

\* An attempt ends in a release only through these two steps.
LEMMA AttemptStep ==
  ASSUME NetworkInv, NEW o \in Connectors, Attempt(o)
  PROVE  NetworkInv'
<1> USE DEF NetworkInv
<1>1. CASE ResolveFails(o) \/ GiveUp(o)
  <2>1. /\ phase[o] \in {"resolving", "trying"}
        /\ Goto(o, "refused") /\ Return(o, "false") /\ Cleanup(openedBy)
        /\ UNCHANGED <<build, addresses>> /\ UNCHANGED m_socket
    BY <1>1 DEF ResolveFails, GiveUp
  <2>2. o \in Owners
    BY DEF Owners
  <2>3. m_socket[o] = NoHandle
    BY <2>1, <2>2 DEF PhasesAgree
  <2>4. o \in Users
    BY <2>1 DEF Users
  <2>5. phase[o] # "open"
    BY <2>1
  <2> QED  BY <2>1, <2>3, <2>4, <2>5, ReleaseStep
<1>2. CASE Resolve(o) \/ OpenSocket(o) \/ SocketFails(o) \/ AddressFails(o) \/ Established(o)
  BY <1>2, TryingStep
<1> QED  BY <1>1, <1>2 DEF Attempt

\* A destructor gives back what is owed, or releases a second time.
LEMMA DestroyStep ==
  ASSUME NetworkInv, NEW o \in Connectors, Destroy(o)
  PROVE  NetworkInv'
<1> USE DEF NetworkInv
<1>1. o \in Owners
  BY DEF Owners
<1>2. phase[o] \in {"refused", "closed"} /\ m_socket[o] = NoHandle
  BY <1>1 DEF Destroy, PhasesAgree
<1>3. CloseSocket(m_socket[o]) = openedBy
  BY <1>2, NetworkAssumption DEF CloseSocket, TypeOK
<1>4. UNCHANGED m_socket
  BY <1>1, <1>2 DEF Destroy, Hold, TypeOK
<1>5. o \in Users \/ phase[o] = "refused"
  BY <1>2 DEF Users
<1> QED  BY <1>2, <1>3, <1>4, <1>5, ReleaseStep DEF Destroy

\* Every step keeps the invariant.
LEMMA NetworkStep ==
  ASSUME NetworkInv, [Next]_vars
  PROVE  NetworkInv'
<1>1. CASE UNCHANGED vars
  BY <1>1 DEF vars, build, NetworkInv, TypeOK, HandlesExact, CountsUsers, OverReleased,
    Users, PhasesAgree, HandlersServed
<1>2. ASSUME NEW c \in Clients, ClientStep(c)
      PROVE  NetworkInv'
  <2>1. c \in Connectors /\ c \in Owners /\ c # Listener
    BY NetworkAssumption DEF Connectors, Owners
  <2> QED  BY <1>2, <2>1, InitializeStep, InitializeFailsStep, AttemptStep,
    DisconnectStep, DestroyStep DEF ClientStep, Connect
<1>3. CASE ServerStep
  <2>1. Listener \in Connectors
    BY DEF Connectors
  <2>2. ASSUME NEW d \in Handlers, Accept(d) \/ Disconnect(d)
        PROVE  NetworkInv'
    <3>1. d \in Owners /\ d # Listener
      BY NetworkAssumption DEF Owners, Connectors
    <3> QED  BY <2>2, <3>1, AcceptStep, DisconnectStep
  <2> QED  BY <1>3, <2>1, <2>2, InitializeStep, InitializeFailsStep, AttemptStep,
    DestroyStep DEF ServerStep, Start
<1> QED  BY <1>1, <1>2, <1>3 DEF Next

\* A new process has no sockets and no users.
LEMMA NetworkStart ==
  ASSUME Init
  PROVE  NetworkInv
<1> USE DEF Init, NetworkInv
<1>1. Users = {}
  BY DEF Users, Owners
<1>2. Connectors \subseteq Owners /\ Handlers \subseteq Owners
  BY DEF Owners
<1>3. TypeOK
  BY NetworkAssumption DEF TypeOK, Phases
<1>4. HandlesExact
  BY NetworkAssumption DEF HandlesExact
<1>5. CountsUsers
  BY <1>1, UserCount DEF CountsUsers
<1>6. PhasesAgree /\ HandlersServed
  BY <1>2 DEF PhasesAgree, HandlersServed
<1> QED  BY <1>3, <1>4, <1>5, <1>6

\* Whatever fails in any of the threads, and in whatever order, no socket is
\* leaked, used after it was closed or closed by another thread, and Winsock is
\* up exactly as long as it is needed, until an object releases twice.
THEOREM NetworkCorrect ==
  Spec => []TypeOK /\ []HandlesExact /\ []CountsUsers
<1>1. Init => NetworkInv
  BY NetworkStart
<1>2. NetworkInv /\ [Next]_vars => NetworkInv'
  BY NetworkStep
<1>3. NetworkInv => TypeOK /\ HandlesExact /\ CountsUsers
  BY DEF NetworkInv
<1> QED  BY <1>1, <1>2, <1>3, PTL DEF Spec
=============================================================================
