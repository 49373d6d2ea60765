------------------------- MODULE NbdListenerProofs --------------------------
(***************************************************************************)
(* The server as a whole, continued: the counts of requests and replies,   *)
(* what becomes of handles and Connections, and when the listening socket  *)
(* stays open.                                                             *)
(***************************************************************************)
EXTENDS NbdServerProofs, SelectRegistryProofs

-----------------------------------------------------------------------------
(* Requests and replies. *)

\* Clients that accept has not returned, or that wait for the greeting.
Early == {"new", "backlog", "aborted", "accepted"}

\* The requests of c that recv returned and that are not answered yet.
BeingServed(c) == IF hpc = "serve" /\ c = peer THEN todo ELSE 0

\* A request is counted once: answered, in the chunk being served, or not yet
\* received.
CountsInv ==
  /\ todo \in 0 .. MaxRequests
  /\ asked \in [Clients -> 0 .. MaxRequests]
  /\ answered \in [Clients -> 0 .. MaxRequests]
  /\ inbox \in [Clients -> 0 .. MaxRequests]
  /\ outbox \in [Clients -> 0 .. Window]
  /\ hpc # "serve" => todo = 0
  /\ \A c \in Clients : answered[c] + inbox[c] + BeingServed(c) =< asked[c]

\* The greeting is the first thing a client is sent, before its socket is
\* registered.
GreetInv ==
  /\ \A c \in Clients : client[c] \in Early => outbox[c] = 0
  /\ hpc = "greet" /\ newSock # NoSocket => outbox[handle[newSock]] = 0
  /\ hpc = "add" => client[handle[newSock]] # "accepted"
  /\ \A s \in accepted : handle[s] \in Clients => client[handle[s]] # "accepted"

\* While its handler runs a connection's peer is a client.
LEMMA PeerIsClient ==
  ASSUME ServerInv, NEW at, Handling("recv", at), at # "drop"
  PROVE  /\ slot \in Live /\ slot \in Slots /\ so \in Sockets /\ so \in accepted
         /\ peer \in Clients /\ conn = peer /\ conn \in conns
<1>1. slot \in Live /\ slot \in Slots
  BY HandlerLive DEF Handling, ServerInv, SelectInv
<1>2. so \in Sockets /\ so \in accepted
  BY <1>1, LiveFacts DEF ServerInv, SelectInv, IInv, so
<1>3. slot \in InUse
  BY <1>1 DEF InUse, Handling
<1>4. conn = peer /\ conn \in conns
  BY <1>3 DEF ServerInv, SlotsFit, Handling, conn, peer, so
<1> QED
  BY <1>1, <1>2, <1>4 DEF ServerInv, HandleInv

\* Steps that neither serve nor send.
LEMMA CountsKept ==
  ASSUME CountsInv, hpc # "serve", hpc' # "serve",
         UNCHANGED <<todo, asked, answered, inbox, outbox>>
  PROVE  CountsInv'
BY DEF CountsInv, BeingServed

\* Steps that neither accept nor greet.
LEMMA GreetKept ==
  ASSUME ServerInv, GreetInv, hpc' # "greet", outbox' = outbox,
         \A c \in Clients : client'[c] \in Early => client'[c] = client[c],
         hpc' = "add" => hpc = "add" /\ UNCHANGED <<newSock, handle>>,
         \A s \in accepted' : handle'[s] \in Clients =>
           /\ handle'[s] = handle[s]
           /\ s \in accepted \/ (hpc = "add" /\ s = newSock)
  PROVE  GreetInv'
<1>1. hpc = "add" => newSock \in Sockets /\ handle[newSock] \in Clients
  BY DEF ServerInv, AcceptInv
<1>2. \A c \in Clients : client'[c] \in Early => outbox'[c] = 0
  BY DEF GreetInv
<1>3. hpc' = "add" => client'[handle'[newSock']] # "accepted"
  BY <1>1 DEF GreetInv, Early
<1>4. \A s \in accepted' : handle'[s] \in Clients => client'[handle'[s]] # "accepted"
  BY <1>1 DEF GreetInv, Early
<1> QED
  BY <1>2, <1>3, <1>4 DEF GreetInv

LEMMA CountsLoop ==
  ServerInv /\ CountsInv /\ GreetInv /\ (ServerPack \/ ServerRun \/ ServerSelect \/ ServerReturn)
  => CountsInv' /\ GreetInv'
<1> SUFFICES ASSUME ServerInv, CountsInv, GreetInv,
                    ServerPack \/ ServerRun \/ ServerSelect \/ ServerReturn
             PROVE  CountsInv' /\ GreetInv'
  OBVIOUS
<1>1. UNCHANGED <<todo, asked, answered, inbox, outbox, client, handle>>
  BY DEF ServerPack, ServerRun, ServerSelect, ServerReturn, call, net, objects
<1>2. hpc # "serve" /\ hpc' \notin {"serve", "greet", "add"} /\ accepted' \subseteq accepted
  <2>1. CASE ServerReturn
    BY <2>1 DEF ServerReturn, HandlerReturns
  <2>2. CASE ServerPack \/ ServerRun \/ ServerSelect
    <3>1. pc # "handler" /\ hpc' = hpc /\ accepted' = accepted
      BY <2>2 DEF ServerPack, ServerRun, ServerSelect, call, PackSlot, Activate, PackEnd,
                  Unlock, NoMoreSockets, SetupSelect, NextSet, EndPass, TakePopped,
                  SelectPops, history
    <3> QED
      BY <3>1 DEF ServerInv, CallerInv
  <2> QED
    BY <2>1, <2>2
<1> QED
  BY <1>1, <1>2, CountsKept, GreetKept

LEMMA CountsAccept ==
  ServerInv /\ CountsInv /\ GreetInv /\ TcpAcceptHandler => CountsInv' /\ GreetInv'
<1> SUFFICES ASSUME ServerInv, CountsInv, GreetInv, TcpAcceptHandler
             PROVE  CountsInv' /\ GreetInv'
  OBVIOUS
<1>1. CASE Accept
  <2>1. PICK c \in Pending, s \in Sockets :
          /\ handle[s] = Closed
          /\ handle' = [handle EXCEPT ![s] = c] /\ newSock' = s
          /\ client' = [client EXCEPT ![c] = IF @ = "backlog" THEN "accepted" ELSE "gone"]
    BY <1>1 DEF Accept
  <2>2. /\ UNCHANGED <<todo, asked, answered, inbox, outbox, accepted>>
        /\ hpc = "enter" /\ hpc' = "greet"
    BY <1>1 DEF Accept, Handling, vars, history
  <2>3. c \in Clients /\ client[c] \in {"backlog", "aborted"} /\ handle'[s] = c
    BY <2>1 DEF Pending, ServerInv, HandleInv
  <2>4. \A t \in accepted : t # s /\ handle'[t] = handle[t] /\ handle[t] # c
    <3>1. accepted \subseteq Sockets
      BY DEF ServerInv, SelectInv, IInv, TypeOK
    <3>2. \A t \in accepted : handle[t] # Closed
      BY <2>2, RegisteredOpen
    <3> QED
      BY <2>1, <2>3, <3>1, <3>2 DEF ServerInv, HandleInv
  <2>5. GreetInv'
    BY <2>1, <2>2, <2>3, <2>4 DEF GreetInv, Early, ServerInv, HandleInv
  <2> QED
    BY <2>2, <2>5, CountsKept
<1>2. CASE AcceptFails
  <2>1. /\ UNCHANGED <<todo, asked, answered, inbox, outbox, handle, accepted>>
        /\ hpc = "enter" /\ hpc' = "greet" /\ newSock' = NoSocket
        /\ \/ client' = client
           \/ \E c \in Clients : client' = [client EXCEPT ![c] = "gone"]
    BY <1>2 DEF AcceptFails, Handling, objects, vars, history
  <2>2. GreetInv'
    BY <2>1 DEF GreetInv, Early, ServerInv, HandleInv
  <2> QED
    BY <2>1, <2>2, CountsKept
<1>3. CASE Greet
  <2>1. PICK c \in Clients :
          /\ c = handle[newSock] /\ outbox[c] = 0
          /\ client' = [client EXCEPT ![c] = IF @ = "accepted" THEN "greeted" ELSE @]
          /\ outbox' = [outbox EXCEPT ![c] = @ + 1]
    BY <1>3 DEF Greet, Handling, ServerInv, AcceptInv, GreetInv
  <2>2. /\ UNCHANGED <<todo, asked, answered, inbox, newSock, handle, accepted>>
        /\ hpc = "greet" /\ hpc' = "add"
    BY <1>3 DEF Greet, Handling, vars, history
  <2>3. client[c] \notin {"new", "backlog", "aborted"} /\ client'[c] \notin Early
    BY <1>3, <2>1, <2>2 DEF Greet, Handling, ServerInv, AcceptInv, HandleInv, Early
  <2>4. \A d \in Clients \ {c} : client'[d] = client[d] /\ outbox'[d] = outbox[d]
    BY <2>1 DEF ServerInv, HandleInv, CountsInv
  <2>5. outbox' \in [Clients -> 0 .. Window]
    BY <2>1, ServerConstantsOK DEF CountsInv
  <2>6. CountsInv'
    BY <2>2, <2>5 DEF CountsInv, BeingServed
  <2>7. GreetInv'
    BY <2>1, <2>2, <2>3, <2>4 DEF GreetInv, Early
  <2> QED
    BY <2>6, <2>7
<1>4. CASE GreetFails \/ AddConnection \/ StoreConnection \/ ServerFull
  <2>1. /\ UNCHANGED <<todo, asked, answered, inbox, outbox, client, handle, newSock, accepted>>
        /\ hpc # "serve" /\ hpc' \notin {"serve", "greet"} /\ (hpc' = "add" => hpc = "add")
    BY <1>4 DEF GreetFails, AddConnection, StoreConnection, ServerFull, Handling, net,
                call, objects, vars, history, StoreSock, ServerInv, AcceptInv
  <2> QED
    BY <2>1, CountsKept, GreetKept
<1>5. CASE ConnectionAdded
  <2>1. /\ UNCHANGED <<todo, asked, answered, inbox, outbox, client, handle>>
        /\ hpc = "add" /\ hpc' = "return" /\ accepted' = accepted \cup {newSock}
    BY <1>5 DEF ConnectionAdded, IncrementReserved, net, objects, ServerInv, AcceptInv
  <2> QED
    BY <2>1, CountsKept, GreetKept
<1>6. CASE CloseListener
  <2>1. /\ UNCHANGED <<todo, asked, answered, inbox, outbox, accepted>>
        /\ hpc = "fail" /\ hpc' = "drop"
        /\ client' = [c \in Clients |-> IF c \in Pending THEN "closed" ELSE client[c]]
        /\ handle' = [handle EXCEPT ![so] = Closed]
    BY <1>6 DEF CloseListener, Handling, vars, history
  <2>2. \A d \in Clients : client'[d] \in Early => client'[d] = client[d]
    BY <2>1 DEF Early
  <2>3. \A s \in accepted : handle'[s] \in Clients => handle'[s] = handle[s]
    BY <2>1, ServerConstantsOK DEF ServerInv, HandleInv, SelectInv, IInv, TypeOK
  <2> QED
    BY <2>1, <2>2, <2>3, CountsKept, GreetKept
<1> QED
  BY <1>1, <1>2, <1>3, <1>4, <1>5, <1>6 DEF TcpAcceptHandler

LEMMA CountsRecv ==
  ServerInv /\ CountsInv /\ GreetInv /\ TcpRecvHandler => CountsInv' /\ GreetInv'
<1> SUFFICES ASSUME ServerInv, CountsInv, GreetInv, TcpRecvHandler
             PROVE  CountsInv' /\ GreetInv'
  OBVIOUS
<1>1. CASE RecvChunk
  <2>0. PICK c \in Clients : c = peer
    BY <1>1 DEF RecvChunk
  <2>1. PICK n \in 1 .. inbox[c] :
          /\ c = peer /\ todo' = n
          /\ inbox' = [inbox EXCEPT ![c] = inbox[c] - n]
    BY <1>1, <2>0 DEF RecvChunk, Left
  <2>2. /\ UNCHANGED <<asked, answered, outbox, client, vars, handle, newSock, accepted>>
        /\ hpc = "enter" /\ hpc' = "serve"
    BY <1>1 DEF RecvChunk, Handling, objects, vars, history
  <2>3. peer' = peer
    BY <2>2 DEF vars, members, polling, peer, so, slot
  <2>4. inbox[c] \in 0 .. MaxRequests /\ inbox' \in [Clients -> 0 .. MaxRequests]
        /\ todo' \in 0 .. MaxRequests
    BY <2>1, ServerConstantsOK DEF CountsInv
  <2>5. \A d \in Clients : answered'[d] + inbox'[d] + BeingServed(d)' =< asked'[d]
    <3> TAKE d \in Clients
    <3>1. /\ answered[d] + inbox[d] =< asked[d]
          /\ answered[d] \in Nat /\ inbox[d] \in Nat /\ asked[d] \in Nat
      BY <2>2, ServerConstantsOK DEF CountsInv, BeingServed
    <3>2. BeingServed(d)' = IF d = c THEN n ELSE 0
      BY <2>1, <2>2, <2>3 DEF BeingServed
    <3>3. inbox'[d] = IF d = c THEN inbox[c] - n ELSE inbox[d]
      BY <2>1 DEF CountsInv
    <3> QED
      BY <2>2, <3>1, <3>2, <3>3
  <2>6. CountsInv'
    BY <2>2, <2>4, <2>5 DEF CountsInv
  <2> QED
    BY <2>2, <2>6, GreetKept
<1>2. CASE RecvEnds \/ ChunkServed
  <2>1. /\ UNCHANGED <<todo, asked, answered, inbox, outbox, client, handle, newSock, accepted>>
        /\ hpc' \in {"fail", "return"} /\ (hpc = "serve" => todo = 0)
    BY <1>2 DEF RecvEnds, ChunkServed, AfterChunk, Handling, net, objects, vars, history
  <2>2. CountsInv'
    BY <2>1 DEF CountsInv, BeingServed
  <2> QED
    BY <2>1, <2>2, GreetKept
<1>3. CASE Reply
  <2>1. /\ UNCHANGED <<inbox, client, vars, accepted, handle, newSock, hpc>>
        /\ hpc = "serve" /\ todo > 0 /\ todo' = todo - 1
        /\ IF Gone(peer) THEN UNCHANGED <<outbox, asked, answered>>
           ELSE /\ outbox' = [outbox EXCEPT ![peer] = @ + 1]
                /\ CountReply(peer)
                /\ outbox[peer] < Window
    BY <1>3 DEF Reply, Handling, objects, vars, history
  <2>2. PICK c \in Clients : c = peer /\ c = peer' /\ c = handle[so] /\ so \in accepted
    <3>1. peer \in Clients /\ peer' = peer /\ peer = handle[so] /\ so \in accepted
      BY <1>3, <2>1, PeerIsClient DEF Reply, vars, members, polling, peer, so, slot
    <3> QED
      BY <3>1
  <2>3. todo \in Nat /\ todo' \in 0 .. MaxRequests
    BY <2>1, ServerConstantsOK DEF CountsInv
  <2>4. \A d \in Clients :
          /\ answered[d] + inbox[d] + (IF d = c THEN todo ELSE 0) =< asked[d]
          /\ answered[d] \in Nat /\ inbox[d] \in Nat /\ asked[d] \in 0 .. MaxRequests
    BY <2>1, <2>2, ServerConstantsOK DEF CountsInv, BeingServed
  <2>5. \A d \in Clients :
          \/ answered'[d] = answered[d] /\ asked'[d] = asked[d]
          \/ d = c /\ answered'[c] = answered[c] + 1 /\ asked'[c] = asked[c]
          \/ /\ d = c /\ answered[c] + 1 = asked[c]
             /\ answered'[c] = 0 /\ asked'[c] = 0
    BY <2>1, <2>2 DEF CountsInv, CountReply
  <2>6. /\ answered' \in [Clients -> 0 .. MaxRequests]
        /\ asked' \in [Clients -> 0 .. MaxRequests]
    <3>1. \A d \in Clients : answered'[d] \in 0 .. MaxRequests /\ asked'[d] \in 0 .. MaxRequests
      <4> TAKE d \in Clients
      <4> QED
        BY <2>1, <2>3, <2>4, <2>5, ServerConstantsOK
    <3>2. /\ answered' = [d \in Clients |-> answered'[d]]
          /\ asked' = [d \in Clients |-> asked'[d]]
      BY <2>1, <2>2 DEF CountsInv, CountReply
    <3> QED
      BY <3>1, <3>2
  <2>7. outbox' \in [Clients -> 0 .. Window]
    BY <2>1, <2>2, ServerConstantsOK DEF CountsInv
  <2>8. \A d \in Clients : client[d] \in Early => outbox'[d] = 0
    <3>1. client[c] \notin Early
      <4>1. client[c] # "accepted"
        BY <2>2 DEF GreetInv
      <4>2. client[c] \notin {"new", "backlog", "aborted"} /\ so \in Sockets
        BY <2>2 DEF ServerInv, HandleInv, SelectInv, IInv, TypeOK
      <4> QED
        BY <4>1, <4>2 DEF Early
    <3> QED
      BY <2>1, <2>2, <3>1 DEF GreetInv, CountsInv
  <2>9. \A d \in Clients : answered'[d] + inbox'[d] + BeingServed(d)' =< asked'[d]
    <3>1. \A d \in Clients : BeingServed(d)' = IF d = c THEN todo - 1 ELSE 0
      BY <2>1, <2>2 DEF BeingServed
    <3> TAKE d \in Clients
    <3>2. inbox'[d] = inbox[d] /\ todo > 0
      BY <2>1
    <3> QED
      BY <3>2, <2>3, <2>4, <2>5, <3>1
  <2>10. CountsInv'
    BY <2>1, <2>3, <2>6, <2>7, <2>9 DEF CountsInv
  <2>11. GreetInv'
    BY <2>1, <2>8 DEF GreetInv
  <2> QED
    BY <2>10, <2>11
<1>4. CASE ServeFails
  <2>1. /\ UNCHANGED <<asked, answered, inbox, outbox, client, handle, newSock, accepted>>
        /\ hpc' = "fail" /\ todo' = 0
    BY <1>4 DEF ServeFails, net, objects, vars, history
  <2>2. \A d \in Clients : answered[d] + inbox[d] =< asked[d]
    <3> TAKE d \in Clients
    <3>1. /\ answered[d] + inbox[d] + BeingServed(d) =< asked[d]
          /\ BeingServed(d) \in Nat /\ answered[d] \in Nat /\ inbox[d] \in Nat
          /\ asked[d] \in Nat
      BY ServerConstantsOK DEF CountsInv, BeingServed
    <3> QED
      BY <3>1
  <2>3. 0 \in 0 .. MaxRequests /\ \A d \in Clients : answered[d] \in Nat /\ inbox[d] \in Nat
    BY ServerConstantsOK DEF CountsInv
  <2>4. CountsInv'
    BY <2>1, <2>2, <2>3 DEF CountsInv, BeingServed
  <2> QED
    BY <2>1, <2>4, GreetKept
<1>5. CASE CloseConnection
  <2>1. /\ UNCHANGED <<todo, asked, answered, inbox, outbox, accepted>>
        /\ hpc = "fail" /\ hpc' = "drop"
        /\ client' = [c \in Clients |->
                        IF c = peer /\ ~Gone(c) THEN "closed" ELSE client[c]]
        /\ handle' = [handle EXCEPT ![so] = Closed]
    BY <1>5 DEF CloseConnection, Handling, ClosedFlags, vars, history
  <2>2. \A d \in Clients : client'[d] \in Early => client'[d] = client[d]
    BY <2>1 DEF Early
  <2>3. \A s \in accepted : handle'[s] \in Clients => handle'[s] = handle[s]
    BY <2>1, ServerConstantsOK DEF ServerInv, HandleInv, SelectInv, IInv, TypeOK
  <2> QED
    BY <2>1, <2>2, <2>3, CountsKept, GreetKept
<1> QED
  BY <1>1, <1>2, <1>3, <1>4, <1>5 DEF TcpRecvHandler

LEMMA CountsClient ==
  ServerInv /\ CountsInv /\ GreetInv
  /\ ((\E c \in Clients : ClientStep(c)) \/ UNCHANGED serverVars)
  => CountsInv' /\ GreetInv'
<1> SUFFICES ASSUME ServerInv, CountsInv, GreetInv,
                    (\E c \in Clients : ClientStep(c)) \/ UNCHANGED serverVars
             PROVE  CountsInv' /\ GreetInv'
  OBVIOUS
<1>1. UNCHANGED <<accepted, handle, newSock, hpc, todo>> /\ peer' = peer
  BY DEF ClientStep, Connect, Ask, ReadReply, HangUp, serverVars, vars, members,
         polling, history, objects, call, peer, so, slot
<1>2. ASSUME NEW c \in Clients, Connect(c) \/ HangUp(c) PROVE CountsInv' /\ GreetInv'
  <2>1. /\ UNCHANGED <<asked, answered, inbox, outbox>>
        /\ \/ client[c] = "new" /\ client' = [client EXCEPT ![c] = "backlog"]
           \/ client' = [client EXCEPT ![c] = IF @ = "backlog" THEN "aborted" ELSE "gone"]
    BY <1>2 DEF Connect, HangUp
  <2>2. CountsInv'
    BY <1>1, <2>1 DEF CountsInv, BeingServed
  <2>3. GreetInv'
    BY <1>1, <2>1 DEF ServerInv, HandleInv, AcceptInv, GreetInv, Early
  <2> QED
    BY <2>2, <2>3
<1>3. ASSUME NEW c \in Clients, Ask(c) PROVE CountsInv' /\ GreetInv'
  <2>1. /\ UNCHANGED <<client, answered, outbox>> /\ asked[c] < MaxRequests
        /\ asked' = [asked EXCEPT ![c] = @ + 1] /\ inbox' = [inbox EXCEPT ![c] = @ + 1]
    BY <1>3 DEF Ask
  <2>2. \A d \in Clients : BeingServed(d)' = BeingServed(d) /\ BeingServed(d) \in Nat
    BY <1>1, ServerConstantsOK DEF CountsInv, BeingServed
  <2>3. \A d \in Clients : /\ answered[d] \in Nat /\ inbox[d] \in Nat
                           /\ asked[d] \in Nat /\ outbox[d] \in Nat
    BY ServerConstantsOK DEF CountsInv
  <2>4. \A d \in Clients : /\ asked'[d] = IF d = c THEN asked[d] + 1 ELSE asked[d]
                           /\ inbox'[d] = IF d = c THEN inbox[d] + 1 ELSE inbox[d]
    BY <2>1 DEF CountsInv
  <2>5. \A d \in Clients : answered'[d] + inbox'[d] + BeingServed(d)' =< asked'[d]
    <3> TAKE d \in Clients
    <3>1. answered[d] + inbox[d] + BeingServed(d) =< asked[d]
      BY DEF CountsInv
    <3> QED
      BY <2>1, <2>2, <2>3, <2>4, <3>1
  <2>6. \A d \in Clients : asked'[d] \in 0 .. MaxRequests /\ inbox'[d] \in 0 .. MaxRequests
    <3> TAKE d \in Clients
    <3>1. asked'[d] \in 0 .. MaxRequests
      BY <2>1, <2>3, <2>4, ServerConstantsOK DEF CountsInv
    <3>2. inbox'[d] =< asked'[d] /\ inbox'[d] \in Nat
      BY <2>1, <2>2, <2>3, <2>4, <2>5
    <3> QED
      BY <3>1, <3>2, ServerConstantsOK
  <2>7. asked' \in [Clients -> 0 .. MaxRequests] /\ inbox' \in [Clients -> 0 .. MaxRequests]
    BY <2>1, <2>6 DEF CountsInv
  <2> QED
    BY <1>1, <2>1, <2>5, <2>7 DEF CountsInv, GreetInv
<1>4. ASSUME NEW c \in Clients, ReadReply(c) PROVE CountsInv' /\ GreetInv'
  <2>1. /\ UNCHANGED <<client, asked, answered, inbox>>
        /\ client[c] = "greeted" /\ outbox[c] > 0
        /\ outbox' = [outbox EXCEPT ![c] = @ - 1]
    BY <1>4 DEF ReadReply
  <2>2. outbox' \in [Clients -> 0 .. Window]
    BY <2>1, ServerConstantsOK DEF CountsInv
  <2>3. CountsInv'
    BY <1>1, <2>1, <2>2 DEF CountsInv, BeingServed
  <2>4. GreetInv'
    BY <1>1, <2>1 DEF CountsInv, GreetInv, Early
  <2> QED
    BY <2>3, <2>4
<1>5. CASE UNCHANGED serverVars
  BY <1>1, <1>5 DEF serverVars, net, CountsInv, GreetInv, BeingServed
<1> QED
  BY <1>2, <1>3, <1>4, <1>5 DEF ClientStep

-----------------------------------------------------------------------------
(* Types. *)

\* Where a handler can be.
PlaceInv == hpc \in {"enter", "greet", "add", "serve", "fail", "return", "drop"}

TrafficInv == CountsInv /\ GreetInv /\ PlaceInv

LEMMA TrafficInit == ServerInit => TrafficInv
BY ServerConstantsOK
DEF ServerInit, TrafficInv, CountsInv, GreetInv, PlaceInv, BeingServed, Early

LEMMA TrafficStep == ServerInv /\ TrafficInv /\ [ServerNext]_serverVars => TrafficInv'
<1> SUFFICES ASSUME ServerInv, TrafficInv, [ServerNext]_serverVars PROVE TrafficInv'
  OBVIOUS
<1>1. CountsInv' /\ GreetInv'
  <2>1. CASE ServerPack \/ ServerRun \/ ServerSelect \/ ServerReturn
    BY <2>1, CountsLoop DEF TrafficInv
  <2>2. CASE TcpAcceptHandler
    BY <2>2, CountsAccept DEF TrafficInv
  <2>3. CASE TcpRecvHandler
    BY <2>3, CountsRecv DEF TrafficInv
  <2>4. CASE (\E c \in Clients : ClientStep(c)) \/ Quiet \/ UNCHANGED serverVars
    BY <2>4, CountsClient DEF TrafficInv, Quiet
  <2> QED
    BY <2>1, <2>2, <2>3, <2>4 DEF ServerNext, ServerStep
<1>2. PlaceInv'
  BY DEF TrafficInv, PlaceInv, ServerNext, ServerStep, ServerPack, ServerRun,
         ServerSelect, ServerReturn, TcpAcceptHandler, Accept, AcceptFails, Greet,
         GreetFails, AddConnection, StoreConnection, ConnectionAdded, ServerFull,
         CloseListener, TcpRecvHandler, RecvChunk, RecvEnds, Reply, ServeFails,
         ChunkServed, AfterChunk, CloseConnection, ClosedFlags, ClientStep, Connect, Ask,
         ReadReply, HangUp, Quiet, serverVars, call
<1> QED
  BY <1>1, <1>2 DEF TrafficInv

\* What the server keeps is of its type, and the counts agree: no client is
\* sent more replies than it has sent requests, none is sent a reply it has
\* no room for (NbdServer.cpp:797-826).
THEOREM ServerTypeCorrect == ServerSpec => []ServerTypeOK
<1>1. ServerInv /\ TrafficInv => ServerTypeOK
  BY DEF ServerInv, TrafficInv, ServerTypeOK, HandleInv, AcceptInv, CountsInv, PlaceInv
<1>2. ServerSpec => [](ServerInv /\ TrafficInv)
  BY ServerInvInit, TrafficInit, ServerInvStep, TrafficStep, PTL DEF ServerSpec
<1> QED
  BY <1>1, <1>2, PTL

-----------------------------------------------------------------------------
(* Handles and Connections. *)

\* The registered sockets whose handler has not closed them.
Kept == IF hpc = "drop" THEN accepted \ {so} ELSE accepted
Used == Kept \cup ({newSock} \ {NoSocket})

\* There is one listening socket, newSock is of use to TcpAcceptHandler alone,
\* and while the listening socket is open what is open is used.
LeakInv ==
  /\ \A s, t \in Sockets : handle[s] = Listening /\ handle[t] = Listening => s = t
  /\ hpc = "enter" => newSock = NoSocket
  /\ newSock # NoSocket => pc = "handler" /\ bound[slot].handler = "accept"
  /\ newSock # NoSocket /\ hpc = "return" => newSock \in accepted
  /\ newSock # NoSocket /\ hpc = "drop" => ~ListenerOpen
  /\ ListenerOpen => /\ \A s \in Sockets : handle[s] # Closed <=> s \in Used
                     /\ \A c \in conns : \E s \in Used : handle[s] = c

LEMMA KeptSockets == ServerInv => {socks[i].so : i \in InUse} = Kept
<1> SUFFICES ASSUME ServerInv PROVE {socks[i].so : i \in InUse} = Kept
  OBVIOUS
<1>1. accepted = {socks[i].so : i \in Live} /\ \A i, j \in Live : socks[i].so = socks[j].so => i = j
  BY DEF ServerInv, SelectInv, NoSockLost
<1>2. CASE hpc = "drop"
  <2>1. pc = "handler" /\ slot \in Live
    BY <1>2, HandlerLive DEF ServerInv, SelectInv, CallerInv
  <2>2. InUse = Live \ {slot}
    BY <1>2, <2>1 DEF InUse
  <2>3. {socks[i].so : i \in Live \ {slot}} = {socks[i].so : i \in Live} \ {so}
    BY <1>1, <2>1 DEF so
  <2> QED
    BY <1>1, <1>2, <2>2, <2>3 DEF Kept
<1>3. CASE hpc # "drop"
  BY <1>1, <1>3 DEF InUse, Kept
<1> QED
  BY <1>2, <1>3

\* Steps that open and close nothing, of the one handler or of no handler.
LEMMA LeakKept ==
  ASSUME LeakInv, UNCHANGED <<handle, conns, newSock, accepted>>,
         hpc # "drop", hpc' # "drop", hpc' = "enter" => hpc = "enter",
         newSock # NoSocket =>
           hpc' # "return" /\ pc' = "handler" /\ bound'[slot'].handler = "accept"
  PROVE  LeakInv'
<1>1. Used' = Used /\ (ListenerOpen' <=> ListenerOpen)
  BY DEF Used, Kept, ListenerOpen
<1> QED
  BY <1>1 DEF LeakInv

LEMMA LeakLoop ==
  ServerInv /\ LeakInv /\ (ServerPack \/ ServerRun \/ ServerSelect) => LeakInv'
<1> SUFFICES ASSUME ServerInv, LeakInv, ServerPack \/ ServerRun \/ ServerSelect
             PROVE  LeakInv'
  OBVIOUS
<1>1. UNCHANGED <<handle, conns, newSock, hpc, accepted>>
  BY DEF ServerPack, ServerRun, ServerSelect, call, net, objects, PackSlot, Activate,
         PackEnd, Unlock, NoMoreSockets, SetupSelect, NextSet, EndPass, TakePopped,
         SelectPops, history
<1>2. pc # "handler"
  BY DEF ServerPack, ServerRun, ServerSelect, PackSlot, Activate, PackEnd,
         Unlock, NoMoreSockets, SetupSelect, NextSet, TakePopped, SelectPops
<1>3. hpc = "enter" /\ newSock = NoSocket
  BY <1>2 DEF ServerInv, CallerInv, LeakInv
<1> QED
  BY <1>1, <1>3, LeakKept

LEMMA LeakReturn == ServerInv /\ LeakInv /\ ServerReturn => LeakInv'
<1> SUFFICES ASSUME ServerInv, LeakInv, ServerReturn PROVE LeakInv'
  OBVIOUS
<1>1. /\ UNCHANGED <<handle, bound, conns>>
      /\ hpc \in {"return", "drop"} /\ hpc' = "enter" /\ newSock' = NoSocket
  BY DEF ServerReturn, objects
<1>2. PICK setting \in Settings : /\ HandlerReturns(setting)
                                  /\ setting = IF hpc = "drop" THEN Dropped ELSE Reading
  BY Settled DEF ServerReturn
<1>3. accepted' = Kept
  BY <1>1, <1>2, LiveHandler, Settled DEF ServerInv, SelectInv, slot, so, Kept
<1>4. ListenerOpen' <=> ListenerOpen
  BY <1>1 DEF ListenerOpen
<1>5. Used' = Kept
  BY <1>1, <1>3 DEF Used, Kept
<1>6. ListenerOpen => Used = Kept
  BY <1>1 DEF LeakInv, Used, Kept
<1> QED
  BY <1>1, <1>4, <1>5, <1>6 DEF LeakInv

\* The slot whose handler runs stays in place when the select loop stands still.
LEMMA SameCaller == UNCHANGED vars => UNCHANGED <<pc, accepted, slot, so, socks>>
BY DEF vars, members, polling, history, slot, so

LEMMA LeakAccept == ServerInv /\ LeakInv /\ Accept => LeakInv'
<1> SUFFICES ASSUME ServerInv, LeakInv, Accept PROVE LeakInv'
  OBVIOUS
<1>1. PICK c \in Pending, s \in Sockets :
        handle[s] = Closed /\ handle' = [handle EXCEPT ![s] = c] /\ newSock' = s
  BY DEF Accept
<1>2. /\ UNCHANGED <<conns, bound>> /\ UNCHANGED <<pc, accepted, slot, so>>
      /\ pc = "handler" /\ bound[slot].handler = "accept"
      /\ hpc = "enter" /\ hpc' = "greet" /\ newSock = NoSocket
  BY SameCaller DEF Accept, Handling, LeakInv
<1>3. c \in Clients /\ c # Listening /\ c # Closed /\ s # NoSocket
  BY ServerConstantsOK, ConstantsOK DEF Pending
<1>4. handle'[s] = c /\ \A t \in Sockets \ {s} : handle'[t] = handle[t]
  BY <1>1 DEF ServerInv, HandleInv
<1>5. ListenerOpen' => ListenerOpen
  BY <1>3, <1>4 DEF ListenerOpen
<1>6. Used = accepted /\ Used' = accepted \cup {s}
  BY <1>1, <1>2, <1>3 DEF Used, Kept
<1>7. \A t, u \in Sockets : handle'[t] = Listening /\ handle'[u] = Listening => t = u
  BY <1>3, <1>4 DEF LeakInv
<1>8. ASSUME ListenerOpen'
      PROVE  /\ \A t \in Sockets : handle'[t] # Closed <=> t \in Used'
             /\ \A d \in conns' : \E t \in Used' : handle'[t] = d
  <2>1. /\ \A t \in Sockets : handle[t] # Closed <=> t \in accepted
        /\ \A d \in conns : \E t \in accepted : handle[t] = d
    BY <1>5, <1>6, <1>8 DEF LeakInv
  <2>2. accepted \subseteq Sockets \ {s}
    BY <1>1, <2>1 DEF ServerInv, SelectInv, IInv, TypeOK
  <2> QED
    BY <1>2, <1>3, <1>4, <1>6, <2>1, <2>2
<1> QED
  BY <1>1, <1>2, <1>7, <1>8 DEF LeakInv

LEMMA LeakGreet == ServerInv /\ LeakInv /\ Greet => LeakInv'
<1> SUFFICES ASSUME ServerInv, LeakInv, Greet PROVE LeakInv'
  OBVIOUS
<1>1. /\ UNCHANGED <<handle, bound, newSock>> /\ UNCHANGED <<pc, accepted, slot, so>>
      /\ hpc = "greet" /\ hpc' = "add" /\ newSock # NoSocket
      /\ conns' = conns \cup {handle[newSock]}
  BY SameCaller DEF Greet, Handling
<1>2. Used' = Used /\ newSock \in Used /\ (ListenerOpen' <=> ListenerOpen)
  BY <1>1 DEF Used, Kept, ListenerOpen
<1> QED
  BY <1>1, <1>2 DEF LeakInv

LEMMA LeakAdded == ServerInv /\ LeakInv /\ ConnectionAdded => LeakInv'
<1> SUFFICES ASSUME ServerInv, LeakInv, ConnectionAdded PROVE LeakInv'
  OBVIOUS
<1>1. /\ UNCHANGED <<handle, bound, conns, newSock, pc>> /\ slot' = slot
      /\ hpc = "add" /\ hpc' = "return" /\ accepted' = accepted \cup {newSock}
  BY DEF ConnectionAdded, IncrementReserved, net, objects, polling, slot, ServerInv, AcceptInv
<1>2. newSock \in Sockets /\ newSock # NoSocket
  BY <1>1, ConstantsOK DEF ServerInv, AcceptInv
<1>3. Used' = Used /\ (ListenerOpen' <=> ListenerOpen)
  BY <1>1, <1>2 DEF Used, Kept, ListenerOpen
<1> QED
  BY <1>1, <1>2, <1>3 DEF LeakInv

LEMMA LeakAcceptor == ServerInv /\ LeakInv /\ TcpAcceptHandler => LeakInv'
<1> SUFFICES ASSUME ServerInv, LeakInv, TcpAcceptHandler PROVE LeakInv'
  OBVIOUS
<1>1. CASE AcceptFails \/ GreetFails \/ ServerFull \/ AddConnection
  <2>1. /\ UNCHANGED <<handle, bound, conns, newSock>> \/ AcceptFails
        /\ UNCHANGED <<pc, accepted, slot>>
        /\ hpc \notin {"drop", "enter"} \/ AcceptFails
        /\ hpc' \in {"greet", "fail", "add"}
        /\ pc = "handler" /\ bound[slot].handler = "accept"
    BY <1>1, SameCaller
    DEF AcceptFails, GreetFails, ServerFull, AddConnection, Handling, objects, call,
        polling, history, slot
  <2>2. AcceptFails => UNCHANGED <<handle, bound, conns, newSock>> /\ hpc = "enter"
    BY DEF AcceptFails, Handling, objects, LeakInv
  <2> QED
    BY <2>1, <2>2, LeakKept
<1>2. CASE StoreConnection
  <2>1. /\ UNCHANGED <<handle, conns, newSock, hpc, pc, accepted, slot>>
        /\ bound' = [bound EXCEPT ![socksReserved] = [handler |-> "recv",
                                                      user    |-> handle[newSock]]]
        /\ StoreSock(RunThread) /\ hpc = "add"
    BY <1>2 DEF StoreConnection, StoreSock, call, net, polling, history, slot,
                ServerInv, AcceptInv
  <2>2. pc = "handler" /\ slot \in Live /\ slot \in Slots /\ socksReserved \in Slots \ Live
    BY <2>1, HandlerLive, LiveStore, OneThread DEF ServerInv, SelectInv, CallerInv
  <2>3. bound'[slot] = bound[slot]
    BY <2>1, <2>2 DEF ServerInv, HandleInv
  <2>4. newSock # NoSocket => bound'[slot'].handler = "accept"
    BY <2>1, <2>3 DEF LeakInv
  <2> QED
    BY <2>1, <2>2, <2>4, LeakKept
<1>3. CASE CloseListener
  <2>1. /\ UNCHANGED <<bound, conns, newSock>> /\ UNCHANGED <<pc, slot>>
        /\ hpc = "fail" /\ hpc' = "drop" /\ handle' = [handle EXCEPT ![so] = Closed]
        /\ pc = "handler" /\ bound[slot].handler = "accept"
    BY <1>3, SameCaller DEF CloseListener, Handling
  <2>2. slot \in InUse /\ so \in Sockets
    BY <2>1, HandlerLive, LiveFacts DEF InUse, ServerInv, SelectInv, IInv, so
  <2>3. handle[so] = Listening
    BY <2>1, <2>2 DEF ServerInv, SlotsFit, so
  <2>4. \A s \in Sockets : handle'[s] # Listening
    BY <2>1, <2>2, <2>3, ServerConstantsOK DEF LeakInv, ServerInv, HandleInv
  <2>5. ~ListenerOpen'
    BY <2>4 DEF ListenerOpen
  <2> QED
    BY <2>1, <2>4, <2>5 DEF LeakInv
<1> QED
  BY <1>1, <1>2, <1>3, LeakAccept, LeakGreet, LeakAdded DEF TcpAcceptHandler

LEMMA LeakReceiver == ServerInv /\ LeakInv /\ TcpRecvHandler => LeakInv'
<1> SUFFICES ASSUME ServerInv, LeakInv, TcpRecvHandler PROVE LeakInv'
  OBVIOUS
<1>1. /\ pc = "handler" /\ bound[slot].handler = "recv"
      /\ UNCHANGED vars /\ newSock' = newSock
  BY DEF TcpRecvHandler, RecvChunk, RecvEnds, Reply, ServeFails, ChunkServed, AfterChunk,
         CloseConnection, Handling
<1>2. newSock = NoSocket
  BY <1>1 DEF LeakInv
<1>3. CASE CloseConnection
  <2>1. /\ UNCHANGED <<pc, accepted, slot, so>> /\ hpc = "fail" /\ hpc' = "drop"
        /\ handle' = [handle EXCEPT ![so] = Closed] /\ conns' = conns \ {conn}
    BY <1>1, <1>3, SameCaller DEF CloseConnection, Handling, ClosedFlags, Remaining
  <2>2. slot \in InUse /\ so \in Sockets
    BY <1>1, <2>1, HandlerLive, LiveFacts DEF InUse, ServerInv, SelectInv, IInv, so
  <2>3. handle[so] = conn
    BY <1>1, <2>2 DEF ServerInv, SlotsFit, so, conn
  <2>4. handle'[so] = Closed /\ \A t \in Sockets \ {so} : handle'[t] = handle[t]
    BY <2>1, <2>2 DEF ServerInv, HandleInv
  <2>5. ListenerOpen' => ListenerOpen
    BY <2>4, ServerConstantsOK DEF ListenerOpen
  <2>6. Used = accepted /\ Used' = accepted \ {so}
    BY <1>1, <1>2, <2>1 DEF Used, Kept
  <2>7. \A t, u \in Sockets : handle'[t] = Listening /\ handle'[u] = Listening => t = u
    BY <2>4, ServerConstantsOK DEF LeakInv
  <2>8. ASSUME ListenerOpen'
        PROVE  /\ \A t \in Sockets : handle'[t] # Closed <=> t \in Used'
               /\ \A d \in conns' : \E t \in Used' : handle'[t] = d
    <3>1. /\ \A t \in Sockets : handle[t] # Closed <=> t \in accepted
          /\ \A d \in conns : \E t \in accepted : handle[t] = d
      BY <2>5, <2>6, <2>8 DEF LeakInv
    <3>2. accepted \subseteq Sockets
      BY DEF ServerInv, SelectInv, IInv, TypeOK
    <3> QED
      BY <2>1, <2>3, <2>4, <2>6, <3>1, <3>2
  <2> QED
    BY <1>1, <1>2, <2>1, <2>7, <2>8 DEF LeakInv
<1>4. CASE ~CloseConnection
  <2>1. /\ UNCHANGED <<handle, conns>> /\ accepted' = accepted
        /\ hpc # "drop" /\ hpc' \in {"serve", "fail", "return"}
    BY <1>1, <1>4, SameCaller
    DEF TcpRecvHandler, RecvChunk, RecvEnds, Reply, ServeFails, ChunkServed, AfterChunk, Handling, objects
  <2> QED
    BY <1>1, <1>2, <2>1, LeakKept
<1> QED
  BY <1>3, <1>4

LEMMA LeakApart ==
  ServerInv /\ LeakInv /\ ((\E c \in Clients : ClientStep(c)) \/ UNCHANGED serverVars)
  => LeakInv'
<1> SUFFICES ASSUME ServerInv, LeakInv,
                    (\E c \in Clients : ClientStep(c)) \/ UNCHANGED serverVars
             PROVE  LeakInv'
  OBVIOUS
<1>1. UNCHANGED vars /\ UNCHANGED <<handle, bound, conns, hpc, newSock>>
  BY DEF ClientStep, Connect, Ask, ReadReply, HangUp, serverVars, objects, call
<1>2. UNCHANGED <<pc, accepted, slot, so>>
  BY <1>1, SameCaller
<1>3. Used' = Used /\ (ListenerOpen' <=> ListenerOpen)
  BY <1>1, <1>2 DEF Used, Kept, ListenerOpen
<1> QED
  BY <1>1, <1>2, <1>3 DEF LeakInv

LEMMA LeakInit == ServerInit => LeakInv
<1> SUFFICES ASSUME ServerInit PROVE LeakInv
  OBVIOUS
<1>1. PICK s \in Sockets : accepted = {s}
  BY DEF ServerInit, Init
<1>2. /\ handle = [t \in Sockets |-> IF t \in accepted THEN Listening ELSE Closed]
      /\ conns = {} /\ hpc = "enter" /\ newSock = NoSocket
  BY DEF ServerInit
<1>3. Used = {s}
  BY <1>1, <1>2 DEF Used, Kept
<1> QED
  BY <1>1, <1>2, <1>3, ServerConstantsOK DEF LeakInv, ListenerOpen

LEMMA LeakStep == ServerInv /\ LeakInv /\ [ServerNext]_serverVars => LeakInv'
BY LeakLoop, LeakReturn, LeakAcceptor, LeakReceiver, LeakApart
DEF ServerNext, ServerStep, Quiet

\* As long as the listening socket is open every open handle and every
\* Connection belongs to a slot in use or to the accept being handled,
\* whatever clients do and however often handles and slots are used again
\* (NbdServer.cpp:799-879).
THEOREM NothingEverLeaks == ServerSpec => []NothingLeaks
<1>1. ServerInv /\ LeakInv => NothingLeaks
  <2> SUFFICES ASSUME ServerInv, LeakInv, ListenerOpen
               PROVE  /\ {s \in Sockets : handle[s] # Closed} = Used
                      /\ conns \subseteq {handle[s] : s \in Used}
    BY KeptSockets DEF NothingLeaks, Used
  <2>1. Used \subseteq Sockets
    BY DEF Used, Kept, ServerInv, AcceptInv, SelectInv, IInv, TypeOK
  <2> QED
    BY <2>1 DEF LeakInv
<1>2. ServerSpec => [](ServerInv /\ LeakInv)
  BY ServerInvInit, LeakInit, ServerInvStep, LeakStep, PTL DEF ServerSpec
<1> QED
  BY <1>1, <1>2, PTL

-----------------------------------------------------------------------------
(* The listening socket. *)

\* There are handles and slots for all the clients beside the listening
\* socket, and none hangs up before it is greeted.
RoomForAll ==
  /\ IsFiniteSet(Clients) /\ IsFiniteSet(Sockets)
  /\ Cardinality(Clients) < Capacity
  /\ Cardinality(Clients) < Cardinality(Sockets)
  /\ HangUpWhen \subseteq {"greeted"}

\* The clients that the server has greeted, and those it has lost since.
Taken == {c \in Clients : client[c] \in {"greeted", "gone", "closed"}}

\* Nothing goes wrong in TcpAcceptHandler: who is accepted is still there, and
\* each slot but the listening socket's was reserved for a client of its own.
RoomInv ==
  /\ \A c \in Clients : client[c] # "aborted"
  /\ ListenerOpen
  /\ pc = "handler" /\ bound[slot].handler = "accept" =>
       /\ hpc \notin {"fail", "drop"}
       /\ hpc = "greet" => newSock # NoSocket /\ client[handle[newSock]] = "accepted"
  /\ socksReserved + (IF hpc = "add" THEN 1 ELSE 0) =< 1 + Cardinality(Taken)

TakenInv == ServerInv /\ TrafficInv /\ LeakInv /\ RoomInv

\* Clients that are taken stay so, and are finitely many.
LEMMA TakenCount ==
  ASSUME RoomForAll, Taken \subseteq Taken'
  PROVE  /\ IsFiniteSet(Taken) /\ IsFiniteSet(Taken')
         /\ Cardinality(Taken) \in Nat /\ Cardinality(Taken') \in Nat
         /\ Cardinality(Taken) =< Cardinality(Taken')
         /\ Cardinality(Taken) =< Cardinality(Clients)
<1>1. IsFiniteSet(Clients) /\ Taken \in SUBSET Clients /\ Taken' \in SUBSET Clients
  BY DEF RoomForAll, Taken
<1>2. IsFiniteSet(Taken) /\ IsFiniteSet(Taken') /\ Cardinality(Taken) =< Cardinality(Clients)
  BY <1>1, FS_Subset
<1>3. Cardinality(Taken) =< Cardinality(Taken')
  BY <1>2, FS_Subset
<1> QED
  BY <1>2, <1>3, FS_CardinalityType

\* While a client waits to be accepted there is a handle for it.
LEMMA HandleLeft ==
  ASSUME RoomForAll, TakenInv, NEW c \in Pending
  PROVE  \E s \in Sockets : handle[s] = Closed
<1> SUFFICES ASSUME \A s \in Sockets : handle[s] # Closed PROVE FALSE
  OBVIOUS
<1> DEFINE Others == (Clients \ {c}) \cup {Listening}
<1>1. c \in Clients /\ client[c] \in {"backlog", "aborted"}
  BY DEF Pending
<1>2. handle \in [Sockets -> Others]
  BY <1>1 DEF TakenInv, ServerInv, HandleInv
<1>3. IsFiniteSet(Clients \ {c}) /\ Cardinality(Clients \ {c}) = Cardinality(Clients) - 1
  BY <1>1, FS_RemoveElement DEF RoomForAll
<1>4. IsFiniteSet(Others) /\ Cardinality(Others) = Cardinality(Clients)
  <2>1. Listening \notin Clients \ {c}
    BY ServerConstantsOK
  <2>2. IsFiniteSet(Others) /\ Cardinality(Others) = Cardinality(Clients) - 1 + 1
    BY <1>3, <2>1, FS_AddElement
  <2>3. Cardinality(Clients) \in Nat
    BY FS_CardinalityType DEF RoomForAll
  <2> QED
    BY <2>2, <2>3
<1>5. \E s, t \in Sockets : s # t /\ handle[s] = handle[t]
  <2> HIDE DEF Others
  <2>1. Cardinality(Others) < Cardinality(Sockets) /\ IsFiniteSet(Sockets)
    BY <1>4 DEF RoomForAll
  <2> QED
    BY <1>2, <1>4, <2>1, FS_PigeonHole
<1> QED
  BY <1>2, <1>5 DEF TakenInv, ServerInv, HandleInv, LeakInv

\* Steps outside TcpAcceptHandler, which take no slot.
LEMMA RoomKept ==
  ASSUME RoomForAll, TakenInv, TypeOK',
         hpc' \in {"fail", "drop"} => bound'[slot'].handler # "accept",
         hpc' # "greet", hpc' = "add" => hpc = "add",
         socksReserved' =< socksReserved, ListenerOpen',
         \A c \in Clients : client'[c] # "aborted",
         Taken \subseteq Taken'
  PROVE  RoomInv'
<1>1. socksReserved \in Nat /\ socksReserved' \in Nat
  BY ConstantsOK DEF TakenInv, ServerInv, SelectInv, IInv, TypeOK
<1>2. socksReserved' + (IF hpc' = "add" THEN 1 ELSE 0) =< 1 + Cardinality(Taken')
  BY <1>1, TakenCount DEF TakenInv, RoomInv
<1> QED
  BY <1>2 DEF RoomInv

LEMMA RoomLoop ==
  ASSUME RoomForAll
  PROVE  TakenInv /\ ServerInv' /\ (ServerPack \/ ServerRun \/ ServerSelect \/ ServerReturn)
         => RoomInv'
<1> SUFFICES ASSUME TakenInv, ServerInv',
                    ServerPack \/ ServerRun \/ ServerSelect \/ ServerReturn
             PROVE  RoomInv'
  OBVIOUS
<1>1. UNCHANGED <<handle, client>>
  BY DEF ServerPack, ServerRun, ServerSelect, ServerReturn, net, objects
<1>2. hpc' = "enter"
  <2>1. CASE ServerReturn
    BY <2>1 DEF ServerReturn
  <2>2. CASE ServerPack \/ ServerRun \/ ServerSelect
    <3>1. hpc' = hpc /\ pc # "handler"
      BY <2>2 DEF ServerPack, ServerRun, ServerSelect, call, PackSlot, Activate, PackEnd,
                  Unlock, NoMoreSockets, SetupSelect, NextSet, TakePopped, SelectPops
    <3> QED
      BY <3>1 DEF TakenInv, ServerInv, CallerInv
  <2> QED
    BY <2>1, <2>2
<1>3. socksReserved' =< socksReserved
  <2>1. CASE PackEnd
    BY <2>1, ConstantsOK
    DEF PackEnd, PackedReserved, TakenInv, ServerInv, SelectInv, IInv, TypeOK, PackMark, CountInv
  <2>2. CASE ~PackEnd
    <3>1. socksReserved' = socksReserved
      BY <2>2 DEF ServerPack, ServerRun, ServerSelect, ServerReturn, PackSlot, Activate,
                  Unlock, NoMoreSockets, SetupSelect, NextSet, TakePopped, SelectPops,
                  HandlerReturns, members
    <3> QED
      BY <3>1, ConstantsOK DEF TakenInv, ServerInv, SelectInv, IInv, TypeOK
  <2> QED
    BY <2>1, <2>2
<1>4. /\ ListenerOpen' /\ Taken' = Taken
      /\ \A c \in Clients : client'[c] # "aborted"
  BY <1>1 DEF TakenInv, RoomInv, ListenerOpen, Taken
<1> QED
  BY <1>2, <1>3, <1>4, RoomKept DEF ServerInv, SelectInv, IInv

\* The accept handler gets a handle for its client, which is still there.
LEMMA RoomAccept ==
  ASSUME RoomForAll
  PROVE  TakenInv /\ TcpAcceptHandler => RoomInv'
<1> SUFFICES ASSUME TakenInv, TcpAcceptHandler PROVE RoomInv'
  OBVIOUS
<1> USE DEF TakenInv
<1>1. CASE Accept
  <2>1. PICK c \in Pending, s \in Sockets :
          /\ handle[s] = Closed /\ newSock' = s
          /\ handle' = [handle EXCEPT ![s] = c]
          /\ client' = [client EXCEPT ![c] = IF @ = "backlog" THEN "accepted" ELSE "gone"]
    BY <1>1 DEF Accept
  <2>2. /\ hpc = "enter" /\ hpc' = "greet" /\ socksReserved' = socksReserved
    BY <1>1 DEF Accept, Handling, vars, members
  <2>3. c \in Clients /\ client[c] = "backlog" /\ client'[c] = "accepted"
    BY <2>1 DEF Pending, RoomInv, ServerInv, HandleInv
  <2>4. \A d \in Clients \ {c} : client'[d] = client[d]
    BY <2>1 DEF ServerInv, HandleInv
  <2>5. handle'[s] = c /\ newSock' # NoSocket /\ ListenerOpen'
    BY <2>1, ServerConstantsOK, ConstantsOK DEF ServerInv, HandleInv, RoomInv, ListenerOpen
  <2>6. Taken' = Taken
    BY <2>3, <2>4 DEF Taken
  <2> QED
    BY <2>1, <2>2, <2>3, <2>4, <2>5, <2>6 DEF RoomInv
<1>2. CASE AcceptFails
  <2>1. Pending # {} /\ \A s \in Sockets : handle[s] # Closed
    BY <1>2 DEF AcceptFails, RoomInv
  <2> QED
    BY <2>1, HandleLeft
<1>3. CASE Greet
  <2>1. /\ UNCHANGED <<handle, newSock, bound>> /\ UNCHANGED vars
        /\ hpc = "greet" /\ hpc' = "add" /\ newSock # NoSocket
        /\ pc = "handler" /\ bound[slot].handler = "accept"
    BY <1>3 DEF Greet, Handling
  <2>2. PICK c \in Clients : c = handle[newSock]
    BY <2>1 DEF ServerInv, AcceptInv
  <2>3. client[c] = "accepted" /\ client' = [client EXCEPT ![c] = "greeted"]
    BY <1>3, <2>1, <2>2 DEF Greet, RoomInv
  <2>4. Taken' = Taken \cup {c} /\ c \notin Taken
    BY <2>3 DEF Taken, ServerInv, HandleInv
  <2>5. Cardinality(Taken') = Cardinality(Taken) + 1 /\ Cardinality(Taken) \in Nat
    <3>1. IsFiniteSet(Taken) /\ Cardinality(Taken) \in Nat
      BY <2>4, TakenCount
    <3> QED
      BY <2>4, <3>1, FS_AddElement
  <2>6. /\ socksReserved' = socksReserved /\ ListenerOpen'
        /\ \A d \in Clients : client'[d] # "aborted"
    BY <2>1, <2>3 DEF vars, members, RoomInv, ListenerOpen, ServerInv, HandleInv
  <2>7. socksReserved' + 1 =< 1 + Cardinality(Taken')
    BY <2>1, <2>5, <2>6, ConstantsOK DEF RoomInv, ServerInv, SelectInv, IInv, TypeOK
  <2> QED
    BY <2>1, <2>6, <2>7 DEF RoomInv
<1>4. CASE AddConnection \/ StoreConnection
  <2>1. /\ UNCHANGED <<handle, client, socksReserved>> /\ hpc = "add" /\ hpc' = hpc
    BY <1>4 DEF AddConnection, StoreConnection, StoreSock, Handling, members, objects,
                call, net, ServerInv, AcceptInv
  <2>2. Taken' = Taken /\ (ListenerOpen' <=> ListenerOpen)
    BY <2>1 DEF Taken, ListenerOpen
  <2> QED
    BY <2>1, <2>2 DEF RoomInv
<1>5. CASE ConnectionAdded
  <2>1. /\ UNCHANGED <<handle, client>> /\ hpc = "add" /\ hpc' = "return"
        /\ adding[RunThread].at = "increment"
    BY <1>5 DEF ConnectionAdded, IncrementReserved, objects, net, ServerInv, AcceptInv
  <2>2. socksReserved' = socksReserved + 1
    BY <1>5, <2>1, OneThread
    DEF ConnectionAdded, IncrementReserved, ReadReserved, ServerInv, SelectInv, IInv, CallInv
  <2>3. Taken' = Taken /\ (ListenerOpen' <=> ListenerOpen)
    BY <2>1 DEF Taken, ListenerOpen
  <2>4. Cardinality(Taken) \in Nat /\ socksReserved \in Nat
    BY <2>3, TakenCount, ConstantsOK DEF ServerInv, SelectInv, IInv, TypeOK
  <2> QED
    BY <2>1, <2>2, <2>3, <2>4 DEF RoomInv
<1>6. CASE GreetFails
  <2>1. newSock # NoSocket /\ client[handle[newSock]] = "accepted"
    BY <1>6 DEF GreetFails, Handling, RoomInv
  <2> QED
    BY <1>6, <2>1 DEF GreetFails, Gone
<1>7. CASE ServerFull
  <2>1. socksReserved >= Capacity /\ socksReserved + 1 =< 1 + Cardinality(Taken)
    BY <1>7 DEF ServerFull, Handling, Full, RoomInv
  <2>2. Cardinality(Taken) =< Cardinality(Clients) /\ Cardinality(Taken) \in Nat
    <3>1. Taken \in SUBSET Clients /\ IsFiniteSet(Clients)
      BY DEF Taken, RoomForAll
    <3> QED
      BY <3>1, FS_Subset, FS_CardinalityType
  <2>3. Cardinality(Clients) \in Nat /\ Cardinality(Clients) < Capacity
    BY FS_CardinalityType DEF RoomForAll
  <2> QED
    BY <2>1, <2>2, <2>3, ConstantsOK DEF ServerInv, SelectInv, IInv, TypeOK
<1>8. CASE CloseListener
  BY <1>8 DEF CloseListener, Handling, RoomInv
<1> QED
  BY <1>1, <1>2, <1>3, <1>4, <1>5, <1>6, <1>7, <1>8 DEF TcpAcceptHandler

\* The connections' handler leaves the listening socket alone.
LEMMA RoomReceiver ==
  ASSUME RoomForAll
  PROVE  TakenInv /\ ServerInv' /\ TcpRecvHandler => RoomInv'
<1> SUFFICES ASSUME TakenInv, ServerInv', TcpRecvHandler PROVE RoomInv'
  OBVIOUS
<1>1. /\ pc = "handler" /\ bound[slot].handler = "recv" /\ UNCHANGED vars
      /\ hpc # "add" /\ hpc' \in {"serve", "fail", "return", "drop"}
  BY DEF TcpRecvHandler, RecvChunk, RecvEnds, Reply, ServeFails, ChunkServed, AfterChunk,
         CloseConnection, Handling, ClosedFlags
<1>2. /\ UNCHANGED <<pc, slot, so>> /\ socksReserved' = socksReserved
      /\ socksReserved \in Nat
  BY <1>1, SameCaller, ConstantsOK
  DEF vars, members, TakenInv, ServerInv, SelectInv, IInv, TypeOK
<1>3. slot \in Live /\ slot \in Slots
  BY <1>1, HandlerLive DEF TakenInv, ServerInv, SelectInv
<1>4. bound'[slot'].handler = "recv"
  BY <1>1, <1>2, <1>3
  DEF TcpRecvHandler, RecvChunk, RecvEnds, Reply, ServeFails, ChunkServed, AfterChunk,
      CloseConnection, objects, TakenInv, ServerInv, HandleInv
<1>5. /\ ListenerOpen' /\ Taken \subseteq Taken'
      /\ \A c \in Clients : client'[c] # "aborted"
  <2>1. CASE CloseConnection
    <3>1. /\ hpc = "fail" /\ handle' = [handle EXCEPT ![so] = Closed]
          /\ client' = [c \in Clients |->
                          IF c = peer /\ ~Gone(c) THEN "closed" ELSE client[c]]
      BY <2>1 DEF CloseConnection, Handling
    <3>2. so \in Sockets /\ peer \in Clients
      BY <1>1, <2>1, <3>1, PeerIsClient DEF CloseConnection, TakenInv
    <3>3. ListenerOpen'
      BY <3>1, <3>2, ServerConstantsOK
      DEF TakenInv, RoomInv, ServerInv, HandleInv, ListenerOpen, peer
    <3> QED
      BY <3>1, <3>3 DEF Taken, TakenInv, RoomInv
  <2>2. CASE ~CloseConnection
    <3>1. UNCHANGED <<handle, client>>
      BY <2>2 DEF TcpRecvHandler, RecvChunk, RecvEnds, Reply, ServeFails, ChunkServed, AfterChunk,
                  objects, net
    <3> QED
      BY <3>1 DEF Taken, TakenInv, RoomInv, ListenerOpen
  <2> QED
    BY <2>1, <2>2
<1> QED
  BY <1>1, <1>2, <1>4, <1>5, RoomKept DEF ServerInv, SelectInv, IInv

LEMMA RoomApart ==
  ASSUME RoomForAll
  PROVE  TakenInv /\ ((\E c \in Clients : ClientStep(c)) \/ UNCHANGED serverVars) => RoomInv'
<1> SUFFICES ASSUME TakenInv, (\E c \in Clients : ClientStep(c)) \/ UNCHANGED serverVars
             PROVE  RoomInv'
  OBVIOUS
<1>1. UNCHANGED vars /\ UNCHANGED <<handle, bound, hpc, newSock>>
  BY DEF ClientStep, Connect, Ask, ReadReply, HangUp, serverVars, objects, call
<1>2. UNCHANGED <<pc, slot>> /\ socksReserved' = socksReserved
  BY <1>1, SameCaller DEF vars, members
<1>3. \/ client' = client
      \/ \E c \in Clients : \/ /\ client[c] = "new"
                               /\ client' = [client EXCEPT ![c] = "backlog"]
                            \/ /\ client[c] = "greeted"
                               /\ client' = [client EXCEPT ![c] = "gone"]
  BY DEF ClientStep, Connect, Ask, ReadReply, HangUp, serverVars, net, RoomForAll
<1>4. /\ Taken' = Taken /\ \A c \in Clients : client'[c] # "aborted"
      /\ \A c \in Clients : client[c] = "accepted" => client'[c] = "accepted"
  BY <1>3 DEF Taken, TakenInv, RoomInv, ServerInv, HandleInv
<1>5. hpc = "greet" /\ newSock # NoSocket => handle[newSock] \in Clients
  BY DEF TakenInv, ServerInv, AcceptInv
<1>6. ListenerOpen' <=> ListenerOpen
  BY <1>1 DEF ListenerOpen
<1> QED
  BY <1>1, <1>2, <1>4, <1>5, <1>6 DEF TakenInv, RoomInv

LEMMA RoomInit ==
  ASSUME RoomForAll
  PROVE  ServerInit => RoomInv
<1> SUFFICES ASSUME ServerInit PROVE RoomInv
  OBVIOUS
<1>1. PICK s \in Sockets : accepted = {s}
  BY DEF ServerInit, Init
<1>2. /\ handle = [t \in Sockets |-> IF t \in accepted THEN Listening ELSE Closed]
      /\ hpc = "enter" /\ socksReserved = 1 /\ pc = "top"
      /\ client = [c \in Clients |-> "new"]
  BY DEF ServerInit, Init
<1>3. Taken = {}
  BY <1>2 DEF Taken
<1> QED
  BY <1>1, <1>2, <1>3, FS_EmptySet DEF RoomInv, ListenerOpen

LEMMA TakenStep ==
  ASSUME RoomForAll
  PROVE  TakenInv /\ [ServerNext]_serverVars => TakenInv'
<1> SUFFICES ASSUME TakenInv, [ServerNext]_serverVars PROVE TakenInv'
  OBVIOUS
<1>1. ServerInv' /\ TrafficInv' /\ LeakInv'
  BY ServerInvStep, TrafficStep, LeakStep DEF TakenInv
<1>2. RoomInv'
  BY <1>1, RoomLoop, RoomAccept, RoomReceiver, RoomApart DEF ServerNext, ServerStep, Quiet
<1> QED
  BY <1>1, <1>2 DEF TakenInv

\* A server with a slot and a handle for every client, none of which hangs up
\* before it is greeted, stays reachable, whatever else clients do and however
\* their connections end: TcpAcceptHandler never fails, so it never closes the
\* listening socket (NbdServer.cpp:829-879).
THEOREM ListenerStaysOpen == ASSUME RoomForAll PROVE ServerSpec => []ListenerOpen
<1>1. TakenInv => ListenerOpen
  BY DEF TakenInv, RoomInv
<1>2. ServerInit => TakenInv
  BY ServerInvInit, TrafficInit, LeakInit, RoomInit DEF TakenInv
<1>3. TakenInv /\ [ServerNext]_serverVars => TakenInv'
  BY TakenStep
<1> QED
  BY <1>1, <1>2, <1>3, PTL DEF ServerSpec

-----------------------------------------------------------------------------
(* What is proved of SelectServer holds of the server. *)

\* The array of the running server keeps the promise of SockRegistry, so its
\* handlers are called for what their sockets ask for and nothing else
\* (SelectServer.cpp:149-211, 331-446).
THEOREM ServerKeepsRegistry == ServerSpec => RegistryImplemented
<1>1. Spec => RegistryImplemented
  BY ImplementsRegistry, OneThread
<1> QED
  BY <1>1, UsesSelectServer, PTL DEF SelectServerUsed

\* Run returns for want of sockets only when the server has none left, and
\* select is asked for what every one of them waits for
\* (SelectServer.cpp:213-244).
THEOREM ServerWaitsForAll == ServerSpec => ExitOnlyWhenEmpty /\ SelectAsksAll
<1>1. Spec => ExitOnlyWhenEmpty /\ SelectAsksAll
  <2>1. SingleThread
    BY ServerConstantsOK DEF SingleThread
  <2> QED
    BY <2>1, ExitsWhenEmpty, AsksAll
<1> QED
  BY <1>1, UsesSelectServer, PTL DEF SelectServerUsed
=============================================================================
