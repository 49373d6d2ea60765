------------------------- MODULE NbdServerProperties -------------------------
(* What should hold of the server as a whole. *)
EXTENDS NbdServer, SelectServerProperties

\* Types; no client is sent more replies than it has sent requests, and none
\* is sent a reply it has no room for (RecvChunk takes what it serves).
ServerTypeOK ==
  /\ handle \in [Sockets -> Clients \cup {Listening, Closed}]
  /\ bound \in [Slots -> [handler : {"accept", "recv", "none"},
                          user    : Clients \cup {NoClient}]]
  /\ conns \subseteq Clients
  /\ hpc \in {"enter", "greet", "add", "serve", "fail", "return", "drop"}
  /\ newSock \in Sockets \cup {NoSocket}
  /\ todo \in 0 .. MaxRequests
  /\ client \in [Clients -> {"new", "backlog", "aborted", "accepted", "greeted",
                             "gone", "closed"}]
  /\ asked \in [Clients -> 0 .. MaxRequests]
  /\ answered \in [Clients -> 0 .. MaxRequests]
  /\ inbox \in [Clients -> 0 .. MaxRequests]
  /\ outbox \in [Clients -> 0 .. Window]

\* The slots of sockets whose handler has not closed them.
InUse == {i \in Live : ~(pc = "handler" /\ i = slot /\ hpc = "drop")}

\* What a slot holds fits together, through packing, removal and the reuse of
\* a handle by the next accept: its handle is open, a listening slot's is the
\* listening socket, and a connection's user pointer is the Connection made
\* for the peer behind the handle, not deleted (TcpRecvHandler's ERROR_EXIT,
\* TcpAcceptHandler).
SlotsFit ==
  \A i \in InUse :
    \/ bound[i].handler = "accept" /\ handle[socks[i].so] = Listening
    \/ /\ bound[i].handler = "recv" /\ bound[i].user \in conns
       /\ handle[socks[i].so] = bound[i].user

\* The server stays reachable: a client that cannot be taken is turned away
\* alone ("server full, rejected socket").
ListenerOpen == \E s \in Sockets : handle[s] = Listening

\* Nothing leaks as long as the listening socket is open, which every failure
\* of TcpAcceptHandler ends: each open handle and each Connection belongs to
\* a slot in use or to the accept being handled, whatever the clients do
\* (TcpRecvHandler's exits).
NothingLeaks ==
  LET used == {socks[i].so : i \in InUse} \cup ({newSock} \ {NoSocket})
  IN  ListenerOpen => /\ {s \in Sockets : handle[s] # Closed} = used
                      /\ conns \subseteq {handle[s] : s \in used}

\* What SelectServer supposes of its users and of the system holds in this
\* server: a handle that accept returns belongs to no socket still
\* registered, select is never given a closed handle, and handlers add and
\* drop sockets as SelectServer lets them.
SelectServerUsed == Spec

\* A client that waits to be accepted gets its connection, unless it hangs up,
\* also when the others send one request after the other for ever, so that
\* their sockets are ready at every select: the one thread they share may
\* delay it and not starve it, since a pass goes through all that popped and
\* a handler receives one chunk (Run, TcpAcceptHandler, TcpRecvHandler).
Connected(c) == \E i \in Live : bound[i].handler = "recv" /\ bound[i].user = c
ClientsTaken ==
  \A c \in Clients : client[c] = "backlog" ~> (Connected(c) \/ client[c] = "gone")

\* Every request a client sends is answered in the end or its connection
\* ends, in however many chunks requests are received and although the others
\* never stop asking (TcpRecvHandler).
RequestsAnswered ==
  \A c \in Clients : asked[c] > answered[c] ~> (asked[c] = answered[c] \/ Gone(c))
=============================================================================
