----------------------------- MODULE NbdServer ------------------------------
(***************************************************************************)
(* The whole server of NbdServer.cpp: RunNbdServer registers a listening   *)
(* socket with a SelectServer and runs it; TcpAcceptHandler accepts,       *)
(* greets and registers clients; TcpRecvHandler serves their connections   *)
(* and deletes and closes them.  The select loop is that of SelectServer,  *)
(* action by action; added are the handles the system gives out, the       *)
(* user pointer of each slot, the Connection objects and the clients.      *)
(*                                                                         *)
(* What is said on a connection is left to NbdHandshake and                *)
(* NbdTransmission: here a request is something that is answered, refused  *)
(* or lost, and replies are held by the client's receive window until the  *)
(* client reads them.  All handlers run in the one thread.                 *)
(*                                                                         *)
(* Operators whose name ends in Fault are deliberately wrong versions of   *)
(* the definition that follows them; nothing uses them.                    *)
(***************************************************************************)
EXTENDS SelectServer

CONSTANTS
  Clients,         \* each connects once; also names the Connection made for it
  NoClient,        \* the user pointer NULL
  Listening,       \* what is behind the listening socket's handle
  Closed,          \* what is behind a handle that is not given out
  LISTEN_BACKLOG,
  MaxRequests,     \* how many requests a client sends before it has the replies
  Window,          \* how many replies wait in a client's receive window
  HangUpWhen,      \* when clients may hang up
  MayRefuse        \* TRUE if a request may be refused

Reading == [flags |-> {"read"}, timeout |-> INF]
Dropped == [flags |-> {}, timeout |-> INF]

ASSUME ServerConstantsOK ==
  /\ Threads = {} /\ HandlersAdd /\ ~SelectMayFail
  /\ Registrations = {Reading} /\ Settings = {Reading, Dropped}
  /\ NoClient \notin Clients
  /\ Listening \notin Clients /\ Closed \notin Clients /\ Listening # Closed
  /\ LISTEN_BACKLOG \in Nat \ {0} /\ MaxRequests \in Nat /\ Window \in Nat \ {0}
  /\ HangUpWhen \subseteq {"backlog", "accepted", "greeted"} /\ MayRefuse \in BOOLEAN

VARIABLES
  handle,   \* what is behind each SOCKET value
  bound,    \* handler and user of each slot
  conns,    \* the Connection objects there are
  hpc,      \* where the running handler is
  newSock,  \* newSock of TcpAcceptHandler; NoSocket for INVALID_SOCKET
  todo,     \* requests of the chunk being served that are not answered
  client,   \* how far each client is
  asked, answered,  \* requests each has sent, replies it was sent, since all
                    \* the requests before were answered
  inbox,    \* requests of it that recv has not returned
  outbox    \* replies (the greeting too) that it has not read

objects    == <<handle, bound, conns>>
call       == <<hpc, newSock, todo>>
net        == <<client, asked, answered, inbox, outbox>>
serverVars == <<vars, objects, call, net>>

slot    == current.slot
so      == socks[slot].so
conn    == bound[slot].user
peer    == handle[so]

Pending == {c \in Clients : client[c] \in {"backlog", "aborted"}}
Gone(c) == client[c] \in {"gone", "closed"}

Handling(name, at) ==
  /\ pc = "handler" /\ adding[RunThread].at = "idle"
  /\ bound[slot].handler = name /\ hpc = at

-----------------------------------------------------------------------------
(* The select loop, with the user pointers and the handles it works on. *)

\* Moves the socket, not the pointers beside it.
MovedFault == bound

\* socks[minSockToRemove++] = socks[i] copies the whole SelectSock.
Moved == IF Skipped(socks[packFrom]) THEN bound
         ELSE [bound EXCEPT ![minSockToRemove] = bound[packFrom]]

ServerPack ==
  /\ PackSlot
  /\ bound' = Moved
  /\ UNCHANGED <<handle, conns, call, net>>

\* No socket of this server has a timer.
ServerRun ==
  /\ \/ Activate \/ PackEnd \/ Unlock \/ NoMoreSockets \/ SetupSelect \/ NextSet
     \/ \E s \in Sockets : TakePopped(s)
  /\ UNCHANGED <<objects, call, net>>

Readable(s) ==
  \/ handle[s] = Listening /\ Pending # {}
  \/ handle[s] \in Clients /\ (inbox[handle[s]] > 0 \/ Gone(handle[s]))

\* select fails (WSAENOTSOCK) if a closed handle is in the set.
ServerSelect ==
  /\ IF \A s \in sets[0] : handle[s] # Closed
     THEN SelectPops /\ sets' = [NoSets EXCEPT ![0] = {s \in sets[0] : Readable(s)}]
     ELSE /\ pc = "select" /\ pc' = "failed"
          /\ UNCHANGED <<members, packing, polling, adding, now, history>>
  /\ UNCHANGED <<objects, call, net>>

\* The handler returns with its socket as it was, or with no flags.
ServerReturn ==
  /\ hpc \in {"return", "drop"}
  /\ HandlerReturns(IF hpc = "drop" THEN Dropped ELSE Reading)
  /\ hpc' = "enter" /\ newSock' = NoSocket
  /\ UNCHANGED <<objects, todo, net>>

-----------------------------------------------------------------------------
(* TcpAcceptHandler. *)

\* accept gives the first client a handle that is not in use.  A client that
\* has hung up may be accepted or not.
Accept ==
  /\ Handling("accept", "enter")
  /\ \E c \in Pending, s \in Sockets :
       /\ handle[s] = Closed
       /\ handle' = [handle EXCEPT ![s] = c]
       /\ newSock' = s
       /\ client' = [client EXCEPT ![c] = IF @ = "backlog" THEN "accepted" ELSE "gone"]
  /\ hpc' = "greet"
  /\ UNCHANGED <<vars, bound, conns, todo, asked, answered, inbox, outbox>>

\* The client has hung up, or there is no handle left: the handler goes on
\* with INVALID_SOCKET.
AcceptFails ==
  /\ Handling("accept", "enter")
  /\ \/ \E c \in Clients : /\ client[c] = "aborted"
                           /\ client' = [client EXCEPT ![c] = "gone"]
     \/ Pending # {} /\ (\A s \in Sockets : handle[s] # Closed) /\ UNCHANGED client
  /\ newSock' = NoSocket
  /\ hpc' = "greet"
  /\ UNCHANGED <<vars, objects, todo, asked, answered, inbox, outbox>>

\* sendWithLog(newSock, INITIAL_HANDSHAKE and flags), new Connection.
Greet ==
  /\ Handling("accept", "greet") /\ newSock # NoSocket
  /\ LET c == handle[newSock] IN
     /\ client' = [client EXCEPT ![c] = IF @ = "accepted" THEN "greeted" ELSE @]
     /\ outbox' = [outbox EXCEPT ![c] = @ + 1]
     /\ conns' = conns \cup {c}
  /\ hpc' = "add"
  /\ UNCHANGED <<vars, handle, bound, newSock, todo, asked, answered, inbox>>

GreetFails ==
  /\ Handling("accept", "greet")
  /\ newSock # NoSocket => Gone(handle[newSock])
  /\ hpc' = "fail"
  /\ UNCHANGED <<vars, objects, newSock, todo, net>>

\* TryAddSock(SelectSock(newSock, connection, &TcpRecvHandler, READ, INF)):
\* as in SelectServer, with the handle that accept returned.
AddConnection ==
  /\ Handling("accept", "add") /\ ~Full
  /\ adding' = [adding EXCEPT ![RunThread] = [at   |-> "store",
                                              sock |-> NewSock(newSock, Reading),
                                              seen |-> socksReserved]]
  /\ UNCHANGED <<members, pc, packing, polling, now, history, objects, call, net>>

StoreConnection ==
  /\ StoreSock(RunThread)
  /\ bound' = [bound EXCEPT ![socksReserved] = [handler |-> "recv",
                                                user    |-> handle[newSock]]]
  /\ UNCHANGED <<handle, conns, call, net>>

ConnectionAdded ==
  /\ IncrementReserved(RunThread)
  /\ hpc' = "return"
  /\ UNCHANGED <<objects, newSock, todo, net>>

ServerFull ==
  /\ Handling("accept", "add") /\ Full
  /\ hpc' = "fail"
  /\ UNCHANGED <<vars, objects, newSock, todo, net>>

\* ERROR_EXIT closes sock->so, which is the listening socket: who is in the
\* backlog is refused.  newSock and the Connection stay as they are.
CloseListener ==
  /\ Handling("accept", "fail")
  /\ handle' = [handle EXCEPT ![so] = Closed]
  /\ client' = [c \in Clients |-> IF c \in Pending THEN "closed" ELSE client[c]]
  /\ hpc' = "drop"
  /\ UNCHANGED <<vars, bound, conns, newSock, todo, asked, answered, inbox, outbox>>

-----------------------------------------------------------------------------
(* TcpRecvHandler. *)

\* Looks at the bytes and leaves them (MSG_PEEK).
LeftFault(n) == inbox[peer]

\* Takes one chunk for all there is.
LeftNothingFault(n) == 0

\* What recv leaves for the next call.
Left(n) == inbox[peer] - n

\* recv returns some or all of what the client has sent.
RecvChunk ==
  /\ Handling("recv", "enter") /\ peer \in Clients
  /\ \E n \in 1 .. inbox[peer] :
       /\ todo' = n
       /\ inbox' = [inbox EXCEPT ![peer] = Left(n)]
  /\ hpc' = "serve"
  /\ UNCHANGED <<vars, objects, newSock, client, asked, answered, outbox>>

\* recv returns 0 or an error.
RecvEnds ==
  /\ Handling("recv", "enter") /\ (peer \in Clients => Gone(peer))
  /\ hpc' = "fail"
  /\ UNCHANGED <<vars, objects, newSock, todo, net>>

\* One request of c is answered.  Once all are, both counts start again.
CountReply(c) ==
  LET all == answered[c] + 1 = asked[c] IN
  /\ asked' = [asked EXCEPT ![c] = IF all THEN 0 ELSE @]
  /\ answered' = [answered EXCEPT ![c] = IF all THEN 0 ELSE @ + 1]

\* send, which waits for room in the client's window.
Reply ==
  /\ Handling("recv", "serve") /\ todo > 0
  /\ Gone(peer) \/ outbox[peer] < Window
  /\ todo' = todo - 1
  /\ IF Gone(peer) THEN UNCHANGED <<outbox, asked, answered>>
     ELSE outbox' = [outbox EXCEPT ![peer] = @ + 1] /\ CountReply(peer)
  /\ UNCHANGED <<vars, objects, hpc, newSock, client, inbox>>

\* The client's handler refuses a request, or send fails.
ServeFails ==
  /\ Handling("recv", "serve") /\ todo > 0
  /\ MayRefuse \/ Gone(peer)
  /\ hpc' = "fail"
  /\ todo' = 0
  /\ UNCHANGED <<vars, objects, newSock, net>>

\* Receives again as long as the client has sent more: a connection that is
\* busy comes before all others.
AfterChunkFault == IF inbox[peer] > 0 THEN "enter" ELSE "return"

\* One chunk, and back to the select loop.
AfterChunk == "return"

ChunkServed ==
  /\ Handling("recv", "serve") /\ todo = 0
  /\ hpc' = AfterChunk
  /\ UNCHANGED <<vars, objects, newSock, todo, net>>

\* Keeps the object.
RemainingFault == conns

\* delete conn
Remaining == conns \ {conn}

\* The flags are left as they were.
ClosedFlagsFault == "return"

\* UpdateEventFlags(NONE)
ClosedFlags == "drop"

\* ERROR_EXIT: delete conn, sock->user = NULL, shutdown and closesocket.
CloseConnection ==
  /\ Handling("recv", "fail")
  /\ conns' = Remaining
  /\ bound' = [bound EXCEPT ![slot].user = NoClient]
  /\ handle' = [handle EXCEPT ![so] = Closed]
  /\ client' = [c \in Clients |->
                  IF c = peer /\ ~Gone(c) THEN "closed" ELSE client[c]]
  /\ hpc' = ClosedFlags
  /\ UNCHANGED <<vars, newSock, todo, asked, answered, inbox, outbox>>

-----------------------------------------------------------------------------
(* The clients. *)

Connect(c) ==
  /\ client[c] = "new"
  /\ \E s \in Sockets : handle[s] = Listening
  /\ Cardinality(Pending) < LISTEN_BACKLOG
  /\ client' = [client EXCEPT ![c] = "backlog"]
  /\ UNCHANGED <<vars, objects, call, asked, answered, inbox, outbox>>

\* As often as it likes, for ever.
Ask(c) ==
  /\ client[c] = "greeted" /\ asked[c] < MaxRequests
  /\ asked' = [asked EXCEPT ![c] = @ + 1]
  /\ inbox' = [inbox EXCEPT ![c] = @ + 1]
  /\ UNCHANGED <<vars, objects, call, client, answered, outbox>>

ReadReply(c) ==
  /\ client[c] = "greeted" /\ outbox[c] > 0
  /\ outbox' = [outbox EXCEPT ![c] = @ - 1]
  /\ UNCHANGED <<vars, objects, call, client, asked, answered, inbox>>

HangUp(c) ==
  /\ client[c] \in HangUpWhen
  /\ client' = [client EXCEPT ![c] = IF @ = "backlog" THEN "aborted" ELSE "gone"]
  /\ UNCHANGED <<vars, objects, call, asked, answered, inbox, outbox>>

-----------------------------------------------------------------------------
\* RunNbdServer: the listening socket is the one in the array.
ServerInit ==
  /\ Init /\ now = 0   \* no socket has a timer
  /\ handle = [s \in Sockets |-> IF s \in accepted THEN Listening ELSE Closed]
  /\ bound = [i \in Slots |-> [handler |-> IF i = 0 THEN "accept" ELSE "none",
                               user    |-> NoClient]]
  /\ conns = {}
  /\ hpc = "enter" /\ newSock = NoSocket /\ todo = 0
  /\ client = [c \in Clients |-> "new"]
  /\ asked = [c \in Clients |-> 0] /\ answered = [c \in Clients |-> 0]
  /\ inbox = [c \in Clients |-> 0] /\ outbox = [c \in Clients |-> 0]

TcpAcceptHandler ==
  \/ Accept \/ AcceptFails \/ Greet \/ GreetFails
  \/ AddConnection \/ StoreConnection \/ ConnectionAdded \/ ServerFull
  \/ CloseListener

TcpRecvHandler ==
  RecvChunk \/ RecvEnds \/ Reply \/ ServeFails \/ ChunkServed \/ CloseConnection

ServerStep ==
  \/ ServerPack \/ ServerRun \/ ServerSelect
  \/ TcpAcceptHandler \/ TcpRecvHandler \/ ServerReturn

ClientStep(c) == Connect(c) \/ Ask(c) \/ ReadReply(c) \/ HangUp(c)

\* The clients are gone, or Run has returned.
Quiet ==
  /\ \/ Returned
     \/ pc = "select" /\ \A c \in Clients : Gone(c)
  /\ UNCHANGED serverVars

ServerNext == ServerStep \/ (\E c \in Clients : ClientStep(c)) \/ Quiet

ServerSpec == ServerInit /\ [][ServerNext]_serverVars

\* The one thread of the server goes on whenever it can, and clients read
\* what they are sent: send would wait for them for ever.
ServerFairness ==
  /\ WF_serverVars(ServerStep)
  /\ \A c \in Clients : WF_serverVars(ReadReply(c))
=============================================================================
