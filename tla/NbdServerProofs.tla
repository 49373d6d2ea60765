-------------------------- MODULE NbdServerProofs ---------------------------
(***************************************************************************)
(* The server as a whole, for every number of clients, handles and slots:  *)
(* it uses SelectServer as SelectServer asks to be used, so that what is   *)
(* proved of SelectServer holds of it, and every slot's handle, handler    *)
(* and user pointer belong together.                                       *)
(***************************************************************************)
EXTENDS NbdServerProperties, SelectServerProofs

-----------------------------------------------------------------------------
(* The inductive invariant. *)

\* What SelectServer's own steps keep.
SelectInv == IInv /\ NoSockLost /\ FreshInv

\* Types, and: no two handles are of the same client, none is of a client
\* that is still to be accepted.
HandleInv ==
  /\ handle \in [Sockets -> Clients \cup {Listening, Closed}]
  /\ bound \in [Slots -> [handler : {"accept", "recv", "none"},
                          user    : Clients \cup {NoClient}]]
  /\ client \in [Clients -> {"new", "backlog", "aborted", "accepted", "greeted",
                             "gone", "closed"}]
  /\ conns \subseteq Clients
  /\ \A s, t \in Sockets : handle[s] \in Clients /\ handle[s] = handle[t] => s = t
  /\ \A s \in Sockets : handle[s] \in Clients =>
       client[handle[s]] \notin {"new", "backlog", "aborted"}

\* newSock, once accepted, is the new client's and not registered before
\* TryAddSock returns; the slot it is stored in gets its Connection.
AcceptInv ==
  /\ newSock \in Sockets \cup {NoSocket}
  /\ (hpc = "greet" /\ newSock # NoSocket) \/ hpc = "add" =>
       /\ newSock \in Sockets /\ handle[newSock] \in Clients
       /\ newSock \notin accepted
  /\ hpc = "add" => handle[newSock] \in conns
  /\ adding[RunThread].at = "idle" => adding[RunThread] = Idle
  /\ adding[RunThread].at # "idle" =>
       hpc = "add" /\ adding[RunThread].sock.so = newSock
  /\ adding[RunThread].at = "increment" =>
       bound[socksReserved] = [handler |-> "recv", user |-> handle[newSock]]

\* Handlers have a place only while they run; select is given open handles.
CallerInv ==
  /\ hpc # "enter" => pc = "handler"
  /\ pc = "select" => \A s \in sets[0] : handle[s] # Closed

ServerInv == SelectInv /\ HandleInv /\ AcceptInv /\ CallerInv /\ SlotsFit

LEMMA OneThread == RaceFree /\ Actors = {RunThread} /\ RunThread \in Actors
BY ServerConstantsOK DEF RaceFree, Actors

LEMMA Settled == /\ Reading \in Settings /\ Dropped \in Settings
                 /\ Reading \in Registrations
                 /\ ~Unused(Reading) /\ Unused(Dropped)
BY ServerConstantsOK DEF Reading, Dropped, Unused

\* A live slot's socket is registered, and no other slot's.
LEMMA LiveFacts ==
  ASSUME NoSockLost, TypeOK
  PROVE  /\ \A i \in Live : socks[i].so \in accepted /\ socks[i].so \in Sockets
         /\ \A i, j \in Live : socks[i].so = socks[j].so => i = j
         /\ \A s \in accepted : \E i \in Live : socks[i].so = s
BY DEF NoSockLost, TypeOK

\* The slot whose handler runs is live.
LEMMA HandlerLive ==
  ASSUME IInv, pc = "handler"
  PROVE  slot \in Live /\ slot \in Slots
<1>1. slot \in Active /\ ~Unused(socks[slot])
  BY DEF IInv, TypeOK, CallsLiveSlot, slot
<1>2. slot \in Reserved /\ Holding = Reserved
  BY <1>1, ConstantsOK DEF IInv, CountInv, TypeOK, Active, Reserved, Holding
<1> QED
  BY <1>1, <1>2, HoldingSlots DEF Live

\* A socket that is registered is not closed while no handler has closed it.
LEMMA RegisteredOpen ==
  ASSUME ServerInv, hpc # "drop", NEW s \in accepted
  PROVE  handle[s] # Closed
<1>1. PICK i \in Live : socks[i].so = s
  BY LiveFacts DEF ServerInv, SelectInv, IInv
<1>2. i \in InUse
  BY <1>1 DEF InUse
<1> QED
  BY <1>1, <1>2, ServerConstantsOK DEF ServerInv, SlotsFit, HandleInv, TypeOK

-----------------------------------------------------------------------------
(* Each step is one of SelectServer or none. *)

\* Steps that leave all of SelectServer alone.
Apart ==
  \/ Accept \/ AcceptFails \/ Greet \/ GreetFails \/ ServerFull \/ CloseListener
  \/ TcpRecvHandler \/ (\E c \in Clients : ClientStep(c)) \/ Quiet
  \/ UNCHANGED serverVars

LEMMA ApartKeeps == Apart => UNCHANGED vars
BY DEF Apart, Accept, AcceptFails, Greet, GreetFails, ServerFull, CloseListener,
       TcpRecvHandler, RecvChunk, RecvEnds, Reply, ServeFails, ChunkServed,
       CloseConnection, ClientStep, Connect, Ask, ReadReply, HangUp, Quiet, serverVars

\* TryAddSock is called with a handle that SelectServer takes for free.
LEMMA AddsFree == ServerInv /\ AddConnection => TryAddSock(RunThread, newSock, Reading)
<1> SUFFICES ASSUME ServerInv, AddConnection
             PROVE  TryAddSock(RunThread, newSock, Reading)
  OBVIOUS
<1>1. /\ pc = "handler" /\ adding[RunThread].at = "idle" /\ hpc = "add" /\ ~Full
  BY DEF AddConnection, Handling
<1>2. newSock \notin accepted /\ newSock \in Sockets /\ adding[RunThread] = Idle
  BY <1>1 DEF ServerInv, AcceptInv
<1>3. adding[RunThread].sock.so # newSock
  BY <1>2, ConstantsOK DEF Idle, EmptySlot
<1>4. Free(newSock)
  BY <1>2, <1>3, OneThread DEF Free
<1>5. HasServer(RunThread) /\ HandlersAdd
  BY <1>1, ServerConstantsOK DEF HasServer
<1> QED
  BY <1>1, <1>4, <1>5 DEF TryAddSock, AddConnection

LEMMA Simulates == ServerInv /\ [ServerNext]_serverVars => [Next]_vars
<1> SUFFICES ASSUME ServerInv, [ServerNext]_serverVars PROVE [Next]_vars
  OBVIOUS
<1>1. CASE ServerPack \/ ServerRun
  BY <1>1 DEF ServerPack, ServerRun, Next, RunStep
<1>2. CASE ServerSelect
  <2>1. pc = "select"
    BY <1>2 DEF ServerSelect, SelectPops
  <2>2. \A s \in sets[0] : handle[s] # Closed
    BY <2>1 DEF ServerInv, CallerInv
  <2> QED
    BY <1>2, <2>2 DEF ServerSelect, Next, Select
<1>3. CASE ServerReturn
  <2>1. \E setting \in Settings : HandlerReturns(setting)
    BY <1>3, Settled DEF ServerReturn
  <2> QED
    BY <2>1 DEF Next, Handler
<1>4. CASE AddConnection
  <2>1. TryAddSock(RunThread, newSock, Reading)
    BY <1>4, AddsFree
  <2>2. newSock \in Sockets
    BY <1>4 DEF ServerInv, AcceptInv, AddConnection, Handling
  <2> QED
    BY <2>1, <2>2, Settled, OneThread DEF Next, Calls
<1>5. CASE StoreConnection \/ ConnectionAdded
  BY <1>5, OneThread DEF StoreConnection, ConnectionAdded, Next, Calls, AddStep
<1>6. CASE Apart
  BY <1>6, ApartKeeps
<1> QED
  BY <1>1, <1>2, <1>3, <1>4, <1>5, <1>6
  DEF ServerNext, ServerStep, TcpAcceptHandler, Apart

LEMMA SelectStep == ServerInv /\ [ServerNext]_serverVars => SelectInv'
BY Simulates, OneThread, InvStep, LostStep, FreshStep DEF ServerInv, SelectInv

-----------------------------------------------------------------------------
(* The steps of the select loop keep the invariant. *)

\* Live slots stay or go; nothing else changes.
LEMMA FitKept ==
  ASSUME SlotsFit, Live' \subseteq Live, \A i \in Live : socks'[i].so = socks[i].so,
         UNCHANGED <<bound, handle, conns>>, InUse' \subseteq InUse
  PROVE  SlotsFit'
BY DEF SlotsFit, InUse

\* Outside a handler all the live slots are in use.
LEMMA AllInUse ==
  ASSUME hpc = "enter"
  PROVE  InUse = Live
BY DEF InUse

LEMMA RunKeeps ==
  ServerInv /\ ServerRun => HandleInv' /\ AcceptInv' /\ CallerInv' /\ SlotsFit'
<1> SUFFICES ASSUME ServerInv, ServerRun
             PROVE  HandleInv' /\ AcceptInv' /\ CallerInv' /\ SlotsFit'
  OBVIOUS
<1>1. UNCHANGED <<handle, bound, conns, hpc, newSock, todo, client>>
  BY DEF ServerRun, objects, call, net
<1>2. /\ pc # "handler" /\ UNCHANGED <<accepted, adding>>
      /\ pc' = "select" => SetupSelect
  BY DEF ServerRun, Activate, PackEnd, Unlock, NoMoreSockets, SetupSelect, NextSet,
         EndPass, TakePopped, history
<1>3. hpc = "enter" /\ adding[RunThread].at = "idle" /\ adding[RunThread] = Idle
  BY <1>2 DEF ServerInv, SelectInv, IInv, LockInv, CallerInv, AcceptInv
<1>4. Live' = Live /\ \A i \in Live : socks'[i].so = socks[i].so
  <2>1. CASE Activate \/ PackEnd
    BY <2>1, LiveActivate, LivePackEnd DEF ServerInv, SelectInv
  <2>2. CASE Unlock \/ NoMoreSockets \/ SetupSelect \/ NextSet
             \/ \E s \in Sockets : TakePopped(s)
    <3>1. /\ UNCHANGED <<socks, socksReserved, activeSockCount, minSockToRemove, packFrom>>
          /\ pc # "pack" /\ pc' # "pack"
      BY <2>2 DEF Unlock, NoMoreSockets, SetupSelect, NextSet, EndPass, TakePopped,
                  members, packing
    <3> QED
      BY <3>1, LiveQuiet
  <2> QED
    BY <2>1, <2>2 DEF ServerRun
<1>5. HandleInv'
  BY <1>1 DEF ServerInv, HandleInv
<1>6. AcceptInv'
  BY <1>1, <1>2, <1>3 DEF ServerInv, AcceptInv
<1>7. CallerInv'
  <2>1. CASE SetupSelect
    <3>1. \A s \in sets'[0] : \E i \in Active : socks[i].so = s
      BY <2>1 DEF SetupSelect
    <3>2. Active \subseteq Live
      <4>1. pc = "test" /\ minSockToRemove = Capacity
        BY <2>1 DEF SetupSelect, ServerInv, SelectInv, IInv, CountInv
      <4>2. Holding = Reserved /\ Active \subseteq Reserved
        BY <4>1, ConstantsOK
        DEF ServerInv, SelectInv, IInv, CountInv, TypeOK, Holding, Active, Reserved
      <4>3. \A i \in Active : ~Unused(socks[i])
        BY <4>1, ConstantsOK DEF ServerInv, SelectInv, IInv, PackMark, Active, TypeOK
      <4> QED
        BY <4>2, <4>3 DEF Live
    <3>3. \A s \in sets'[0] : s \in accepted
      BY <3>1, <3>2, LiveFacts DEF ServerInv, SelectInv, IInv
    <3> QED
      BY <1>1, <1>3, <3>3, RegisteredOpen DEF CallerInv
  <2>2. CASE ~SetupSelect
    BY <1>1, <1>2, <1>3, <2>2 DEF CallerInv
  <2> QED
    BY <2>1, <2>2
<1>8. SlotsFit'
  BY <1>1, <1>3, <1>4, FitKept, AllInUse DEF ServerInv, InUse
<1> QED
  BY <1>5, <1>6, <1>7, <1>8

LEMMA PackKeeps ==
  ServerInv /\ ServerPack => HandleInv' /\ AcceptInv' /\ CallerInv' /\ SlotsFit'
<1> SUFFICES ASSUME ServerInv, ServerPack
             PROVE  HandleInv' /\ AcceptInv' /\ CallerInv' /\ SlotsFit'
  OBVIOUS
<1> DEFINE to == minSockToRemove
           from == packFrom
<1>1. /\ UNCHANGED <<handle, conns, hpc, newSock, client>> /\ PackSlot
      /\ bound' = IF Unused(socks[from]) THEN bound ELSE [bound EXCEPT ![to] = bound[from]]
  BY DEF ServerPack, call, net, Moved, Skipped
<1>2. /\ pc = "pack" /\ pc' = "pack" /\ UNCHANGED <<accepted, adding>>
      /\ from \in Slots /\ to \in Slots
  BY ConstantsOK
  DEF ServerPack, PackSlot, history, ServerInv, SelectInv, IInv, PackMark, TypeOK, Slots
<1>3. hpc = "enter" /\ adding[RunThread].at = "idle"
  BY <1>2 DEF ServerInv, SelectInv, IInv, LockInv, CallerInv
<1>4. bound' \in [Slots -> [handler : {"accept", "recv", "none"},
                            user    : Clients \cup {NoClient}]]
  BY <1>1, <1>2 DEF ServerInv, HandleInv
<1>5. HandleInv'
  BY <1>1, <1>4 DEF ServerInv, HandleInv
<1>6. AcceptInv' /\ CallerInv'
  BY <1>1, <1>2, <1>3 DEF ServerInv, AcceptInv, CallerInv
<1>7. SlotsFit /\ InUse = Live /\ InUse' = Live'
  BY <1>1, <1>3 DEF ServerInv, InUse
<1>8. ASSUME Unused(socks[from]) PROVE SlotsFit'
  <2>1. socks' = socks /\ Live' = Live
    BY <1>1, <1>8, LivePackSlot DEF ServerInv, SelectInv
  <2>2. bound' = bound /\ handle' = handle /\ conns' = conns /\ InUse' = InUse
    BY <1>1, <1>7, <1>8, <2>1
  <2> QED
    BY <1>7, <2>1, <2>2 DEF SlotsFit
<1>9. ASSUME ~Unused(socks[from]) PROVE SlotsFit'
  <2>1. /\ from \in Live /\ to \notin Live
        /\ Live' = (Live \ {from}) \cup {to}
        /\ socks'[to] = socks[from]
        /\ \A i \in Live : i # to /\ socks'[i] = socks[i]
    BY <1>1, <1>9, LivePackSlot DEF ServerInv, SelectInv
  <2>2. bound'[to] = bound[from] /\ \A i \in Live : bound'[i] = bound[i]
    <3>1. bound' = [bound EXCEPT ![to] = bound[from]] /\ DOMAIN bound = Slots
      BY <1>1, <1>9 DEF ServerInv, HandleInv
    <3>2. Live \subseteq Slots
      BY HoldingSlots DEF Live, ServerInv, SelectInv
    <3> QED
      BY <1>2, <2>1, <3>1, <3>2
  <2> QED
    BY <1>1, <1>7, <2>1, <2>2 DEF SlotsFit
<1> QED
  BY <1>5, <1>6, <1>7, <1>8, <1>9

LEMMA PopsKeep ==
  ServerInv /\ ServerSelect => HandleInv' /\ AcceptInv' /\ CallerInv' /\ SlotsFit'
<1> SUFFICES ASSUME ServerInv, ServerSelect
             PROVE  HandleInv' /\ AcceptInv' /\ CallerInv' /\ SlotsFit'
  OBVIOUS
<1>1. UNCHANGED <<handle, bound, conns, hpc, newSock, client>>
  BY DEF ServerSelect, objects, call, net
<1>2. /\ UNCHANGED <<socks, socksReserved, activeSockCount, minSockToRemove, packFrom>>
      /\ UNCHANGED <<accepted, adding>>
      /\ pc = "select" /\ pc' \in {"popped", "failed"}
  BY DEF ServerSelect, SelectPops, members, packing, history
<1>3. hpc = "enter"
  BY <1>2 DEF ServerInv, CallerInv
<1>4. Live' = Live
  BY <1>2, LiveQuiet
<1> QED
  BY <1>1, <1>2, <1>3, <1>4, FitKept
  DEF ServerInv, HandleInv, AcceptInv, CallerInv, InUse

LEMMA ReturnKeeps ==
  ServerInv /\ ServerReturn => HandleInv' /\ AcceptInv' /\ CallerInv' /\ SlotsFit'
<1> SUFFICES ASSUME ServerInv, ServerReturn
             PROVE  HandleInv' /\ AcceptInv' /\ CallerInv' /\ SlotsFit'
  OBVIOUS
<1>1. /\ UNCHANGED <<handle, bound, conns, client>>
      /\ hpc \in {"return", "drop"} /\ hpc' = "enter" /\ newSock' = NoSocket
  BY DEF ServerReturn, objects, net
<1>2. PICK setting \in Settings : /\ HandlerReturns(setting)
                                  /\ setting = IF hpc = "drop" THEN Dropped ELSE Reading
  BY Settled DEF ServerReturn
<1>3. /\ pc = "handler" /\ pc' \in {"sweep", "popped"}
      /\ adding' = adding /\ adding[RunThread].at = "idle"
  BY <1>2 DEF HandlerReturns
<1>4. /\ slot \in Live /\ \A i \in Live : socks'[i].so = socks[i].so
      /\ hpc = "drop" => Live' = Live \ {slot}
      /\ hpc = "return" => Live' = Live
  BY <1>1, <1>2, LiveHandler, Settled DEF ServerInv, SelectInv, slot
<1>5. InUse' \subseteq InUse
  BY <1>1, <1>3, <1>4 DEF InUse
<1>6. SlotsFit'
  BY <1>1, <1>4, <1>5, FitKept DEF ServerInv
<1> QED
  BY <1>1, <1>3, <1>6 DEF ServerInv, HandleInv, AcceptInv, CallerInv

-----------------------------------------------------------------------------
(* The steps of the handlers and the clients keep the invariant. *)

\* With the slots as they are, it is the handles and Connections that count.
LEMMA FitApart ==
  ASSUME UNCHANGED vars, InUse' \subseteq InUse,
         \A i \in InUse' :
           \/ bound'[i].handler = "accept" /\ handle'[socks[i].so] = Listening
           \/ /\ bound'[i].handler = "recv" /\ bound'[i].user \in conns'
              /\ handle'[socks[i].so] = bound'[i].user
  PROVE  SlotsFit'
<1>1. socks' = socks
  BY DEF vars, members
<1> QED
  BY <1>1 DEF SlotsFit

LEMMA SameSlots == UNCHANGED vars => Live' = Live
<1> SUFFICES ASSUME UNCHANGED vars PROVE Live' = Live
  OBVIOUS
<1>1. UNCHANGED <<socks, socksReserved, activeSockCount, minSockToRemove, packFrom, pc>>
  BY DEF vars, members, packing
<1> QED
  BY <1>1, LiveQuiet

\* accept hands out a handle no slot in use has, to a client that had none.
LEMMA AcceptKeeps ==
  ServerInv /\ Accept => HandleInv' /\ AcceptInv' /\ CallerInv' /\ SlotsFit'
<1> SUFFICES ASSUME ServerInv, Accept
             PROVE  HandleInv' /\ AcceptInv' /\ CallerInv' /\ SlotsFit'
  OBVIOUS
<1>1. /\ UNCHANGED vars /\ UNCHANGED <<pc, adding, accepted>>
      /\ UNCHANGED <<bound, conns>>
      /\ pc = "handler" /\ adding[RunThread].at = "idle"
      /\ hpc = "enter" /\ hpc' = "greet"
  BY DEF Accept, Handling, vars, history
<1>2. PICK c \in Pending, s \in Sockets :
        /\ handle[s] = Closed /\ handle' = [handle EXCEPT ![s] = c] /\ newSock' = s
        /\ client' = [client EXCEPT ![c] = IF @ = "backlog" THEN "accepted" ELSE "gone"]
  BY DEF Accept
<1>3. c \in Clients /\ client[c] \in {"backlog", "aborted"}
  BY DEF Pending
<1>4. /\ handle'[s] = c /\ \A t \in Sockets \ {s} : handle'[t] = handle[t]
      /\ client'[c] \in {"accepted", "gone"}
      /\ \A d \in Clients \ {c} : client'[d] = client[d]
  BY <1>2, <1>3 DEF ServerInv, HandleInv
<1>5. \A t \in Sockets : handle[t] # c
  BY <1>3 DEF ServerInv, HandleInv
<1>6. s \notin accepted
  BY <1>1, <1>2, RegisteredOpen
<1>7. HandleInv'
  <2>1. handle' \in [Sockets -> Clients \cup {Listening, Closed}]
    BY <1>2, <1>3 DEF ServerInv, HandleInv
  <2>2. client' \in [Clients -> {"new", "backlog", "aborted", "accepted", "greeted",
                                 "gone", "closed"}]
    BY <1>2, <1>3 DEF ServerInv, HandleInv
  <2>3. \A t, u \in Sockets : handle'[t] \in Clients /\ handle'[t] = handle'[u] => t = u
    BY <1>3, <1>4, <1>5 DEF ServerInv, HandleInv
  <2>4. \A t \in Sockets : handle'[t] \in Clients =>
          client'[handle'[t]] \notin {"new", "backlog", "aborted"}
    BY <1>3, <1>4, <1>5 DEF ServerInv, HandleInv
  <2> QED
    BY <1>1, <2>1, <2>2, <2>3, <2>4 DEF ServerInv, HandleInv
<1>8. AcceptInv' /\ CallerInv'
  BY <1>1, <1>2, <1>3, <1>4, <1>6 DEF ServerInv, AcceptInv, CallerInv
<1>9. InUse' = InUse /\ InUse = Live
  BY <1>1, SameSlots DEF InUse
<1>10. \A i \in InUse : handle'[socks[i].so] = handle[socks[i].so]
  <2>1. \A i \in InUse : socks[i].so \in accepted /\ socks[i].so \in Sockets
    BY <1>9, LiveFacts DEF ServerInv, SelectInv, IInv
  <2> QED
    BY <1>4, <1>6, <2>1
<1>11. SlotsFit'
  BY <1>1, <1>9, <1>10, FitApart DEF ServerInv, SlotsFit
<1> QED
  BY <1>7, <1>8, <1>11

LEMMA GreetKeeps ==
  ServerInv /\ Greet => HandleInv' /\ AcceptInv' /\ CallerInv' /\ SlotsFit'
<1> SUFFICES ASSUME ServerInv, Greet
             PROVE  HandleInv' /\ AcceptInv' /\ CallerInv' /\ SlotsFit'
  OBVIOUS
<1>1. /\ UNCHANGED vars /\ UNCHANGED <<pc, adding, accepted>>
      /\ UNCHANGED <<handle, bound, newSock>>
      /\ pc = "handler" /\ adding[RunThread].at = "idle"
      /\ hpc = "greet" /\ hpc' = "add" /\ newSock # NoSocket
  BY DEF Greet, Handling, vars, history
<1>2. /\ newSock \in Sockets /\ handle[newSock] \in Clients /\ newSock \notin accepted
      /\ conns' = conns \cup {handle[newSock]}
      /\ client' = [client EXCEPT ![handle[newSock]] =
                      IF @ = "accepted" THEN "greeted" ELSE @]
  BY <1>1 DEF Greet, ServerInv, AcceptInv
<1>3. HandleInv'
  BY <1>1, <1>2 DEF ServerInv, HandleInv
<1>4. AcceptInv' /\ CallerInv'
  BY <1>1, <1>2 DEF ServerInv, AcceptInv, CallerInv
<1>5. InUse' = InUse
  BY <1>1, SameSlots DEF InUse
<1>6. SlotsFit'
  BY <1>1, <1>2, <1>5, FitApart DEF ServerInv, SlotsFit
<1> QED
  BY <1>3, <1>4, <1>6

\* Steps that only move the handler on.
LEMMA MoveKeeps ==
  ServerInv /\ (GreetFails \/ ServerFull \/ RecvChunk \/ RecvEnds \/ Reply
                \/ ServeFails \/ ChunkServed)
  => HandleInv' /\ AcceptInv' /\ CallerInv' /\ SlotsFit'
<1> SUFFICES ASSUME ServerInv, \/ GreetFails \/ ServerFull \/ RecvChunk \/ RecvEnds
                               \/ Reply \/ ServeFails \/ ChunkServed
             PROVE  HandleInv' /\ AcceptInv' /\ CallerInv' /\ SlotsFit'
  OBVIOUS
<1>1. /\ UNCHANGED vars /\ UNCHANGED <<handle, bound, conns, newSock, client>>
      /\ pc = "handler" /\ adding[RunThread].at = "idle"
      /\ hpc # "drop" /\ hpc' \in {"fail", "serve", "return"}
  BY DEF GreetFails, ServerFull, RecvChunk, RecvEnds, Reply, ServeFails,
         ChunkServed, AfterChunk, Handling, objects, net
<1>2. UNCHANGED <<pc, adding, accepted, socksReserved>>
  BY <1>1 DEF vars, history, members
<1>3. InUse' = InUse
  BY <1>1, <1>2, SameSlots DEF InUse
<1>4. SlotsFit'
  BY <1>1, <1>3, FitApart DEF ServerInv, SlotsFit
<1> QED
  BY <1>1, <1>2, <1>4 DEF ServerInv, HandleInv, AcceptInv, CallerInv

LEMMA AcceptFailsKeeps ==
  ServerInv /\ AcceptFails => HandleInv' /\ AcceptInv' /\ CallerInv' /\ SlotsFit'
<1> SUFFICES ASSUME ServerInv, AcceptFails
             PROVE  HandleInv' /\ AcceptInv' /\ CallerInv' /\ SlotsFit'
  OBVIOUS
<1>1. /\ UNCHANGED vars /\ UNCHANGED <<handle, bound, conns>>
      /\ pc = "handler" /\ adding[RunThread].at = "idle"
      /\ hpc = "enter" /\ hpc' = "greet" /\ newSock' = NoSocket
  BY DEF AcceptFails, Handling, objects
<1>2. \/ client' = client
      \/ \E c \in Clients : client' = [client EXCEPT ![c] = "gone"]
  BY DEF AcceptFails
<1>3. UNCHANGED <<pc, adding, accepted, socksReserved>>
  BY <1>1 DEF vars, history, members
<1>4. HandleInv'
  BY <1>1, <1>2 DEF ServerInv, HandleInv
<1>5. InUse' = InUse
  BY <1>1, <1>3, SameSlots DEF InUse
<1>6. SlotsFit'
  BY <1>1, <1>5, FitApart DEF ServerInv, SlotsFit
<1> QED
  BY <1>1, <1>3, <1>4, <1>6 DEF ServerInv, AcceptInv, CallerInv

\* A handler closes its own socket: no other slot has that handle, and no
\* other the Connection.
LEMMA CloseKeeps ==
  ServerInv /\ (CloseListener \/ CloseConnection)
  => HandleInv' /\ AcceptInv' /\ CallerInv' /\ SlotsFit'
<1> SUFFICES ASSUME ServerInv, CloseListener \/ CloseConnection
             PROVE  HandleInv' /\ AcceptInv' /\ CallerInv' /\ SlotsFit'
  OBVIOUS
<1>1. /\ UNCHANGED vars /\ newSock' = newSock
      /\ pc = "handler" /\ adding[RunThread].at = "idle"
      /\ hpc = "fail" /\ hpc' = "drop"
      /\ handle' = [handle EXCEPT ![so] = Closed]
  BY DEF CloseListener, CloseConnection, Handling, ClosedFlags
<1>2. UNCHANGED <<pc, adding, accepted, socks>>
  BY <1>1 DEF vars, history, members
<1>3. slot \in Live /\ slot \in Slots /\ so \in Sockets /\ slot' = slot
  <2>1. slot \in Live /\ slot \in Slots
    BY <1>1, HandlerLive DEF ServerInv, SelectInv
  <2>2. so \in Sockets
    BY <2>1, LiveFacts DEF ServerInv, SelectInv, IInv, so
  <2> QED
    BY <1>1, <2>1, <2>2 DEF vars, polling, slot
<1>4. InUse = Live /\ InUse' = Live \ {slot}
  BY <1>1, <1>2, <1>3, SameSlots DEF InUse
<1>5. /\ handle'[so] = Closed
      /\ \A t \in Sockets \ {so} : handle'[t] = handle[t]
  BY <1>1, <1>3 DEF ServerInv, HandleInv
<1>6. \A i \in InUse' : socks[i].so \in Sockets \ {so}
  BY <1>3, <1>4, LiveFacts DEF ServerInv, SelectInv, IInv, so
<1>7. CallerInv' /\ AcceptInv'
  BY <1>1, <1>2, ServerConstantsOK DEF ServerInv, CallerInv, AcceptInv
<1>8. handle' \in [Sockets -> Clients \cup {Listening, Closed}]
  BY <1>1, <1>3 DEF ServerInv, HandleInv
<1>9. \A t, u \in Sockets : handle'[t] \in Clients /\ handle'[t] = handle'[u] => t = u
  BY <1>5, ServerConstantsOK DEF ServerInv, HandleInv
<1>10. ASSUME CloseListener PROVE HandleInv' /\ SlotsFit'
  <2>1. /\ UNCHANGED <<bound, conns>>
        /\ client' = [c \in Clients |-> IF c \in Pending THEN "closed" ELSE client[c]]
    BY <1>10 DEF CloseListener
  <2>2. client' \in [Clients -> {"new", "backlog", "aborted", "accepted", "greeted",
                                 "gone", "closed"}]
    BY <2>1 DEF ServerInv, HandleInv
  <2>3. \A t \in Sockets : handle'[t] \in Clients =>
          client'[handle'[t]] \notin {"new", "backlog", "aborted"}
    BY <1>5, <2>1, ServerConstantsOK DEF ServerInv, HandleInv
  <2>4. HandleInv'
    BY <1>8, <1>9, <2>1, <2>2, <2>3 DEF ServerInv, HandleInv
  <2>5. SlotsFit'
    BY <1>1, <1>4, <1>5, <1>6, <2>1, FitApart DEF ServerInv, SlotsFit
  <2> QED
    BY <2>4, <2>5
<1>11. ASSUME CloseConnection PROVE HandleInv' /\ SlotsFit'
  <2>1. /\ bound' = [bound EXCEPT ![slot].user = NoClient]
        /\ conns' = conns \ {conn}
        /\ client' = [c \in Clients |->
                        IF c = peer /\ ~Gone(c) THEN "closed" ELSE client[c]]
    BY <1>11 DEF CloseConnection, Remaining
  <2>2. bound' \in [Slots -> [handler : {"accept", "recv", "none"},
                              user    : Clients \cup {NoClient}]]
    BY <1>3, <2>1 DEF ServerInv, HandleInv
  <2>3. client' \in [Clients -> {"new", "backlog", "aborted", "accepted", "greeted",
                                 "gone", "closed"}]
    BY <2>1 DEF ServerInv, HandleInv
  <2>4. \A t \in Sockets : handle'[t] \in Clients =>
          client'[handle'[t]] \notin {"new", "backlog", "aborted"}
    BY <1>5, <2>1, ServerConstantsOK DEF ServerInv, HandleInv
  <2>5. HandleInv'
    BY <1>8, <1>9, <2>1, <2>2, <2>3, <2>4 DEF ServerInv, HandleInv
  <2>6. bound[slot].handler = "recv" /\ conn = handle[so] /\ conn \in Clients
    BY <1>3, <1>4, <1>11, ServerConstantsOK
    DEF CloseConnection, Handling, ServerInv, HandleInv, SlotsFit, conn, so
  <2>7. \A i \in InUse' : bound'[i] = bound[i]
    <3>1. Live \subseteq Slots
      BY HoldingSlots DEF Live, ServerInv, SelectInv
    <3> QED
      BY <1>4, <2>1, <3>1 DEF ServerInv, HandleInv
  <2>8. \A i \in InUse' : handle[socks[i].so] # conn
    BY <1>3, <1>6, <2>6 DEF ServerInv, HandleInv
  <2>9. SlotsFit'
    BY <1>1, <1>4, <1>5, <1>6, <2>1, <2>7, <2>8, FitApart DEF ServerInv, SlotsFit
  <2> QED
    BY <2>5, <2>9
<1> QED
  BY <1>7, <1>10, <1>11

LEMMA AddKeeps ==
  ServerInv /\ AddConnection => HandleInv' /\ AcceptInv' /\ CallerInv' /\ SlotsFit'
<1> SUFFICES ASSUME ServerInv, AddConnection
             PROVE  HandleInv' /\ AcceptInv' /\ CallerInv' /\ SlotsFit'
  OBVIOUS
<1>1. /\ UNCHANGED <<handle, bound, conns, hpc, newSock, client>>
      /\ UNCHANGED <<members, pc, packing, polling, accepted>>
      /\ pc = "handler" /\ hpc = "add"
      /\ adding' = [adding EXCEPT ![RunThread] =
                      [at |-> "store", sock |-> NewSock(newSock, Reading),
                       seen |-> socksReserved]]
  BY DEF AddConnection, Handling, objects, call, net, history
<1>2. adding'[RunThread].at = "store" /\ adding'[RunThread].sock.so = newSock
  <2>1. adding \in [Actors -> AddCall]
    BY DEF ServerInv, SelectInv, IInv, TypeOK
  <2> QED
    BY <1>1, <2>1, OneThread DEF NewSock
<1>3. HandleInv' /\ AcceptInv' /\ CallerInv'
  BY <1>1, <1>2 DEF ServerInv, HandleInv, AcceptInv, CallerInv, polling
<1>4. Live' = Live /\ UNCHANGED socks /\ InUse = Live /\ InUse' = Live
  BY <1>1, LiveQuiet DEF members, packing, InUse
<1>5. SlotsFit'
  BY <1>1, <1>4, FitKept DEF ServerInv
<1> QED
  BY <1>3, <1>5

\* The slot TryAddSock writes to is not live: no other's pointer is changed.
LEMMA StoreKeeps ==
  ServerInv /\ StoreConnection => HandleInv' /\ AcceptInv' /\ CallerInv' /\ SlotsFit'
<1> SUFFICES ASSUME ServerInv, StoreConnection
             PROVE  HandleInv' /\ AcceptInv' /\ CallerInv' /\ SlotsFit'
  OBVIOUS
<1>1. /\ UNCHANGED <<handle, conns, hpc, newSock, client>>
      /\ UNCHANGED <<pc, socksReserved, sets, current, accepted>>
      /\ StoreSock(RunThread) /\ adding[RunThread].at = "store"
      /\ adding' = [adding EXCEPT ![RunThread].at = "increment"]
      /\ bound' = [bound EXCEPT ![socksReserved] = [handler |-> "recv",
                                                    user    |-> handle[newSock]]]
  BY DEF StoreConnection, StoreSock, call, net, history, polling
<1>2. hpc = "add" /\ adding[RunThread].sock.so = newSock /\ handle[newSock] \in Clients
  BY <1>1 DEF ServerInv, AcceptInv
<1>3. /\ socksReserved \in Slots \ Live
      /\ Live' = Live /\ \A i \in Live : socks'[i] = socks[i]
  BY <1>1, LiveStore, OneThread DEF ServerInv, SelectInv
<1>4. /\ bound'[socksReserved] = [handler |-> "recv", user |-> handle[newSock]]
      /\ \A i \in Slots \ {socksReserved} : bound'[i] = bound[i]
      /\ bound' \in [Slots -> [handler : {"accept", "recv", "none"},
                               user    : Clients \cup {NoClient}]]
  BY <1>1, <1>2, <1>3 DEF ServerInv, HandleInv
<1>5. adding'[RunThread].at = "increment" /\ adding'[RunThread].sock.so = newSock
  <2>1. adding \in [Actors -> AddCall] /\ adding[RunThread] \in AddCall
    BY OneThread DEF ServerInv, SelectInv, IInv, TypeOK
  <2>2. /\ adding'[RunThread].at = "increment"
        /\ adding'[RunThread].sock = adding[RunThread].sock
    BY <1>1, <2>1, OneThread DEF AddCall
  <2> QED
    BY <1>2, <2>2
<1>6. HandleInv'
  BY <1>1, <1>4 DEF ServerInv, HandleInv
<1>7. AcceptInv' /\ CallerInv'
  BY <1>1, <1>2, <1>4, <1>5 DEF ServerInv, AcceptInv, CallerInv
<1>8. InUse = Live /\ InUse' = Live
  BY <1>1, <1>2, <1>3 DEF InUse
<1>9. Live \subseteq Slots \ {socksReserved}
  BY <1>3, HoldingSlots DEF Live, ServerInv, SelectInv
<1>10. \A i \in Live : socks'[i] = socks[i] /\ bound'[i] = bound[i]
  BY <1>3, <1>4, <1>9
<1>11. SlotsFit'
  BY <1>1, <1>8, <1>10 DEF ServerInv, SlotsFit
<1> QED
  BY <1>6, <1>7, <1>11

LEMMA AddedKeeps ==
  ServerInv /\ ConnectionAdded => HandleInv' /\ AcceptInv' /\ CallerInv' /\ SlotsFit'
<1> SUFFICES ASSUME ServerInv, ConnectionAdded
             PROVE  HandleInv' /\ AcceptInv' /\ CallerInv' /\ SlotsFit'
  OBVIOUS
<1>1. /\ UNCHANGED <<handle, bound, conns, newSock, client>>
      /\ UNCHANGED <<pc, sets>> /\ hpc' = "return"
      /\ IncrementReserved(RunThread) /\ adding[RunThread].at = "increment"
      /\ adding' = [adding EXCEPT ![RunThread] = Idle]
  BY DEF ConnectionAdded, IncrementReserved, objects, net, polling
<1>2. /\ hpc = "add" /\ adding[RunThread].sock.so = newSock /\ pc = "handler"
      /\ handle[newSock] \in Clients /\ handle[newSock] \in conns
      /\ bound[socksReserved] = [handler |-> "recv", user |-> handle[newSock]]
  BY <1>1 DEF ServerInv, AcceptInv, CallerInv
<1>3. /\ socks' = socks /\ Live' = Live \cup {socksReserved}
      /\ socks[socksReserved].so = newSock
  BY <1>1, <1>2, LiveIncrement, OneThread DEF ServerInv, SelectInv
<1>4. adding'[RunThread] = Idle /\ Idle.at = "idle"
  BY <1>1, OneThread DEF ServerInv, SelectInv, IInv, TypeOK, Idle
<1>5. HandleInv' /\ AcceptInv' /\ CallerInv'
  BY <1>1, <1>2, <1>4 DEF ServerInv, HandleInv, AcceptInv, CallerInv
<1>6. InUse = Live /\ InUse' = Live \cup {socksReserved}
  BY <1>1, <1>2, <1>3 DEF InUse
<1>7. SlotsFit'
  BY <1>1, <1>2, <1>3, <1>6 DEF ServerInv, SlotsFit
<1> QED
  BY <1>5, <1>7

LEMMA ClientKeeps ==
  ServerInv /\ ((\E c \in Clients : ClientStep(c)) \/ UNCHANGED serverVars)
  => HandleInv' /\ AcceptInv' /\ CallerInv' /\ SlotsFit'
<1> SUFFICES ASSUME ServerInv,
                    (\E c \in Clients : ClientStep(c)) \/ UNCHANGED serverVars
             PROVE  HandleInv' /\ AcceptInv' /\ CallerInv' /\ SlotsFit'
  OBVIOUS
<1>1. /\ UNCHANGED vars /\ UNCHANGED <<handle, bound, conns, hpc, newSock>>
      /\ \/ client' = client
         \/ \E c \in Clients :
              \/ client[c] = "new" /\ client' = [client EXCEPT ![c] = "backlog"]
              \/ client' = [client EXCEPT ![c] =
                              IF @ = "backlog" THEN "aborted" ELSE "gone"]
  BY DEF ClientStep, Connect, Ask, ReadReply, HangUp, serverVars, objects, call, net
<1>2. UNCHANGED <<pc, adding, accepted, socks, socksReserved, sets, current>>
  BY <1>1 DEF vars, members, polling, history
<1>3. HandleInv'
  BY <1>1 DEF ServerInv, HandleInv
<1>4. AcceptInv' /\ CallerInv'
  BY <1>1, <1>2 DEF ServerInv, AcceptInv, CallerInv
<1>5. InUse' = InUse
  BY <1>1, <1>2, SameSlots DEF InUse, slot
<1>6. SlotsFit'
  BY <1>1, <1>5, FitApart DEF ServerInv, SlotsFit
<1> QED
  BY <1>3, <1>4, <1>6

-----------------------------------------------------------------------------
(* Theorems. *)

LEMMA ServerInvInit == ServerInit => ServerInv
<1> SUFFICES ASSUME ServerInit PROVE ServerInv
  OBVIOUS
<1>1. SelectInv
  BY InvInit, LostInit DEF ServerInit, SelectInv
<1>2. PICK s \in Sockets, r \in Registrations :
        /\ socks = [i \in Slots |-> IF i = 0 THEN NewSock(s, r) ELSE EmptySlot]
        /\ accepted = {s}
  BY DEF ServerInit, Init
<1>3. /\ pc = "top" /\ adding[RunThread] = Idle /\ Idle.at = "idle"
  BY OneThread DEF ServerInit, Init, Idle
<1>4. HandleInv
  BY <1>2, ServerConstantsOK DEF ServerInit, HandleInv
<1>5. AcceptInv /\ CallerInv
  BY <1>3 DEF ServerInit, AcceptInv, CallerInv
<1>6. Live \subseteq {0}
  <2>1. Holding = {0}
    BY <1>3 DEF ServerInit, Init, Holding, Reserved
  <2> QED
    BY <2>1 DEF Live
<1>7. 0 \in Slots /\ socks[0].so = s
  BY <1>2, ConstantsOK DEF Slots, NewSock
<1>8. SlotsFit
  BY <1>2, <1>6, <1>7 DEF ServerInit, SlotsFit, InUse
<1> QED
  BY <1>1, <1>4, <1>5, <1>8 DEF ServerInv

LEMMA ServerInvStep == ServerInv /\ [ServerNext]_serverVars => ServerInv'
<1> SUFFICES ASSUME ServerInv, [ServerNext]_serverVars PROVE ServerInv'
  OBVIOUS
<1>1. SelectInv'
  BY SelectStep
<1> DEFINE Rest == HandleInv /\ AcceptInv /\ CallerInv /\ SlotsFit
<1>2. ASSUME ServerPack \/ ServerRun \/ ServerSelect \/ ServerReturn PROVE Rest'
  BY <1>2, PackKeeps, RunKeeps, PopsKeep, ReturnKeeps
<1>3. ASSUME TcpAcceptHandler PROVE Rest'
  BY <1>3, AcceptKeeps, AcceptFailsKeeps, GreetKeeps, MoveKeeps, AddKeeps,
     StoreKeeps, AddedKeeps, CloseKeeps DEF TcpAcceptHandler
<1>4. ASSUME TcpRecvHandler PROVE Rest'
  BY <1>4, MoveKeeps, CloseKeeps DEF TcpRecvHandler
<1>5. ASSUME (\E c \in Clients : ClientStep(c)) \/ Quiet \/ UNCHANGED serverVars
      PROVE  Rest'
  BY <1>5, ClientKeeps DEF Quiet
<1>6. Rest'
  BY <1>2, <1>3, <1>4, <1>5 DEF ServerNext, ServerStep
<1> QED
  BY <1>1, <1>6 DEF ServerInv

\* Every reachable state of the server satisfies the inductive invariant.
THEOREM ServerInvariant == ServerSpec => []ServerInv
<1> QED
  BY ServerInvInit, ServerInvStep, PTL DEF ServerSpec

\* Whatever clients connect, hang up and are accepted into handles and slots
\* used before, every slot's handle, handler and user pointer belong together
\* (NbdServer.cpp:797-879, SelectServer.cpp:178-193).
THEOREM SlotsAlwaysFit == ServerSpec => []SlotsFit
<1>1. ServerInv => SlotsFit
  BY DEF ServerInv
<1> QED
  BY <1>1, ServerInvariant, PTL

\* The server meets what SelectServer asks of its users: no accepted handle
\* is registered still, and select gets open handles only
\* (NbdServer.cpp:829-879).
THEOREM UsesSelectServer == ServerSpec => SelectServerUsed
<1>1. ServerInit => Init
  BY DEF ServerInit
<1>2. ServerInv /\ [ServerNext]_serverVars => [Next]_vars
  BY Simulates
<1> QED
  BY <1>1, <1>2, ServerInvariant, PTL DEF ServerSpec, SelectServerUsed, Spec

\* So no registration of the running server is lost, doubled or resurrected.
THEOREM ServerNothingLost == ServerSpec => []NoSockLost
<1>1. Spec => []NoSockLost
  BY NothingLost, OneThread
<1> QED
  BY <1>1, UsesSelectServer, PTL DEF SelectServerUsed
=============================================================================
