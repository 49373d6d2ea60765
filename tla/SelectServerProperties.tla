---------------------- MODULE SelectServerProperties ------------------------
(***************************************************************************)
(* What should hold of SelectServer.  cpp and h in the comments stand for  *)
(* SelectServer.cpp and SelectServer.h.                                    *)
(***************************************************************************)
EXTENDS SelectServer

TypeOK ==
  /\ socks \in [Slots -> SelectSock]
  /\ socksReserved \in 0 .. Capacity
  /\ stopFlag \in BOOLEAN
  /\ lock \in Actors \cup {NoThread}
  /\ pc \in {"top", "pack", "unlock", "test", "select", "popped", "handler",
             "sweep", "stopped", "failed"}
  /\ activeSockCount \in 0 .. Capacity
  /\ minSockToRemove \in 0 .. Capacity
  /\ packFrom \in 0 .. Capacity
  /\ minTimeDiff \in Ticks
  /\ sets \in [0 .. 2 -> SUBSET Sockets]
  /\ setIndex \in 0 .. 2
  /\ hint \in 0 .. Capacity
  /\ handled \in [Slots -> 0 .. 2]
  /\ sweepNow \in Ticks
  /\ sweep \in 0 .. Capacity
  /\ current \in [slot : 0 .. Capacity,
                  reason : Events \cup {"timeout", "none"}]
  /\ pc = "handler" => current.slot \in Active
  /\ adding \in [Actors -> AddCall]
  /\ now \in Ticks
  /\ accepted \subseteq Sockets
  /\ called \in [Slots -> SUBSET (Events \cup {"timeout"})]

\* The slots that hold a registration: all the reserved ones or, while they
\* are being packed, those packed already and those still to be looked at.
Holding == IF pc = "pack"
           THEN (0 .. (minSockToRemove - 1)) \cup (packFrom .. (activeSockCount - 1))
           ELSE Reserved
Live == {i \in Holding : ~Unused(socks[i])}

\* A socket that TryAddSock took stays in the array, in exactly one slot,
\* until its handler leaves it without flags and timeout; and nothing else is
\* live there.  Packing and the appending of new sockets, by whichever thread,
\* neither lose, nor duplicate, nor resurrect a registration (cpp:28-36,
\* 151-199).
NoSockLost ==
  /\ accepted = {socks[i].so : i \in Live}
  /\ \A i, j \in Live : socks[i].so = socks[j].so => i = j

\* No socket that was removed takes part in a select call: each one a handler
\* let go of has been packed away by then (cpp:171-199 against 222-245).
NoDeadSelected ==
  pc \in {"test", "select"} => \A i \in Active : ~Unused(socks[i])

\* What lets Run start packing at minSockToRemove: outside the pack loop that
\* slot is unused and no active slot before it is; inside, the slots already
\* packed are all in use (cpp:135-140, 178-193, 382-388, 438-444).
PackMark ==
  IF pc = "pack"
  THEN /\ minSockToRemove < packFrom /\ packFrom =< activeSockCount
       /\ \A i \in 0 .. (minSockToRemove - 1) : ~Unused(socks[i])
  ELSE /\ \A i \in Active : Unused(socks[i]) => minSockToRemove =< i
       /\ minSockToRemove # Capacity =>
            minSockToRemove \in Active /\ Unused(socks[minSockToRemove])

\* NoSocket stands for "no interest" and "no handler" below; it is neither.
ASSUME NothingIsNothing ==
  /\ NoSocket \notin Interest
  /\ NoSocket \notin [sock : Sockets, reason : Events \cup {"timeout"}]

\* The array, its reserved tail and the packing implement SockRegistry: what
\* is wanted of a socket is what its live slot says.
Wants(so) ==
  IF \E i \in Live : socks[i].so = so
  THEN LET i == CHOOSE i \in Live : socks[i].so = so
       IN  [flags |-> socks[i].flags, timeout |-> socks[i].timeout]
  ELSE NoSocket

Registry == INSTANCE SockRegistry WITH
  Nothing <- NoSocket,
  wants   <- [so \in Sockets |-> Wants(so)],
  serving <- IF pc = "handler"
             THEN [sock |-> socks[current.slot].so, reason |-> current.reason]
             ELSE NoSocket

\* Adding, removing, packing and calling sockets, in whatever order threads
\* and handlers do it, keep the promise of SockRegistry (cpp:28-36, 149-211,
\* 331-446).
RegistryImplemented == Registry!Spec

\* A handler is called only for a socket that is still registered, whatever
\* the handlers called before it in the same pass did (cpp:366-371, 408).
CallsLiveSlot ==
  pc = "handler" => ~Unused(socks[current.slot])

\* Between two selects a socket's handler is called for an error and nothing
\* else, for a timeout and nothing else, or for a read, a write or both
\* (cpp:68-78, h:28-35).
CallDiscipline ==
  \A i \in Slots :
    /\ "error" \in called[i] => called[i] = {"error"}
    /\ "timeout" \in called[i] => called[i] = {"timeout"}

\* Once a handler has set the stop flag Run does not call select again
\* (cpp:200-210): it leaves at the end of the pass.  For one thread.
StopNeverWaits == pc = "select" => ~stopFlag

\* select is asked for exactly the events the handlers last asked for
\* (cpp:222-244 after 178-199).
SelectAsksAll ==
  [][pc = "test" /\ pc' = "select" =>
       \A s \in 0 .. 2, so \in Sockets :
         so \in sets'[s] <=> \E i \in Live : /\ socks[i].so = so
                                            /\ setProps[s].flag \in socks[i].flags]_vars

\* Run returns for want of sockets only when no socket is registered: no
\* handler and no other thread was told that its socket was taken and waits
\* for a call that never comes (cpp:213-217, h:112-115).
ExitOnlyWhenEmpty ==
  [][pc = "test" /\ pc' = "stopped" => accepted = {}]_vars

\* A handler is not called for a timeout before its socket has waited the
\* whole of it, also when the tick counter has wrapped (cpp:412, h:75-77).
NoEarlyTimeout ==
  [][pc = "sweep" /\ pc' = "handler" =>
       socks[current'.slot].age >= socks[current'.slot].timeout]_vars

\* The sweep that follows a select leaves nobody out: a socket whose timeout
\* had passed when the sweep read the clock and who got no event is called
\* (cpp:406-425).
NoTimeoutSkipped ==
  [][pc = "sweep" /\ pc' = "top" =>
       \A i \in Active :
         LET since == (now - sweepNow) % TickMod IN
         HasTimer(socks[i]) /\ socks[i].age > socks[i].timeout + since =>
           called[i] # {}]_vars

\* select is told to wait exactly until the first deadline: the least time
\* any active socket has left, 0 once one is past (cpp:226-273).
SleepIsTight ==
  [][pc = "test" /\ pc' = "select" =>
       LET left == {IF socks[i].age >= socks[i].timeout THEN 0
                    ELSE socks[i].timeout - socks[i].age : i \in Running}
       IN  /\ left = {} <=> minTimeDiff' = INF
           /\ left # {} => minTimeDiff' = Least(left)]_vars

\* The handler of a socket that waits for a timeout is called in the end, or
\* Run returns 0 (h:75-77).
Waiting(so) == \E i \in Active : socks[i].so = so /\ HasTimer(socks[i])
InHandler(so) == pc = "handler" /\ socks[current.slot].so = so
TimerServed ==
  \A so \in Sockets : Waiting(so) ~> (InHandler(so) \/ pc = "stopped")

\* Once a handler has set the stop flag Run returns without waiting for any
\* socket (cpp:200-210).  For one thread.
StopHonoured == stopFlag ~> Returned
=============================================================================
