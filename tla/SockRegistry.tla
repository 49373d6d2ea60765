---------------------------- MODULE SockRegistry ----------------------------
(***************************************************************************)
(* What SelectServer promises its users, without the array, the lock, the  *)
(* reserved slots, the packing, the fd_sets or the clock: a socket can be  *)
(* registered while there is room, what is wanted of it changes only when  *)
(* its own handler returns, its handler is called only for something that  *)
(* is wanted, one handler runs at a time, and a socket goes away exactly   *)
(* when its handler wants nothing any more.                                *)
(***************************************************************************)
EXTENDS Integers, FiniteSets

CONSTANTS
  Sockets,   \* the sockets that may be registered
  Capacity,  \* how many at a time
  Interest,  \* the [flags, timeout] that can be asked for
  INF,       \* the timeout that stands for none
  Nothing    \* no interest, no handler

VARIABLES
  wants,     \* what is wanted of each socket; Nothing if it is not registered
  serving    \* the handler that runs: its socket and why it was called

vars == <<wants, serving>>

Registered == {so \in Sockets : wants[so] # Nothing}

Reasons(interest) ==
  interest.flags \cup (IF interest.timeout # INF THEN {"timeout"} ELSE {})

Init ==
  /\ \E so \in Sockets, r \in Interest :
       wants = [x \in Sockets |-> IF x = so THEN r ELSE Nothing]
  /\ serving = Nothing

\* Socket so, and no other, changes what is wanted of it.
Only(so) == \A x \in Sockets \ {so} : wants'[x] = wants[x]

Register(so) ==
  /\ UNCHANGED serving
  /\ so \notin Registered
  /\ Cardinality(Registered) < Capacity
  /\ wants'[so] \in Interest /\ Reasons(wants'[so]) # {}
  /\ Only(so)

Call(so) ==
  /\ serving = Nothing /\ serving' # Nothing
  /\ serving'.sock = so
  /\ so \in Registered /\ serving'.reason \in Reasons(wants[so])
  /\ UNCHANGED wants

Return(so) ==
  /\ serving # Nothing /\ serving' = Nothing
  /\ serving.sock = so
  /\ wants'[so] # Nothing => wants'[so] \in Interest /\ Reasons(wants'[so]) # {}
  /\ Only(so)

Next == \E so \in Sockets : Register(so) \/ Call(so) \/ Return(so)

Spec == Init /\ [][Next]_vars
=============================================================================
