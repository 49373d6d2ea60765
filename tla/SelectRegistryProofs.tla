------------------------ MODULE SelectRegistryProofs ------------------------
(***************************************************************************)
(* SelectServer implements SockRegistry, when TryAddSock never runs on two *)
(* threads at once.                                                        *)
(***************************************************************************)
EXTENDS SelectCallProofs, FiniteSetTheorems

-----------------------------------------------------------------------------
(* The array implements SockRegistry. *)

\* What the slot of a registered socket says is wanted of it.
Asked(sock) == [flags |-> sock.flags, timeout |-> sock.timeout]

WantsAll == [so \in Sockets |-> Wants(so)]
Serving  == IF pc = "handler"
            THEN [sock |-> socks[current.slot].so, reason |-> current.reason]
            ELSE NoSocket

\* A socket that is not registered wants nothing; what a registered one wants
\* is in its live slot.
WantsRight ==
  /\ \A so \in Sockets \ accepted : Wants(so) = NoSocket
  /\ \A i \in Live : Wants(socks[i].so) = Asked(socks[i])
  /\ \A so \in accepted : \E i \in Live : socks[i].so = so

LEMMA WantsKnown == NoSockLost => WantsRight
<1> SUFFICES ASSUME NoSockLost PROVE WantsRight
  OBVIOUS
<1>1. \A so \in Sockets \ accepted : Wants(so) = NoSocket
  BY DEF NoSockLost, Wants
<1>2. ASSUME NEW i \in Live PROVE Wants(socks[i].so) = Asked(socks[i])
  <2>1. (CHOOSE j \in Live : socks[j].so = socks[i].so) = i
    BY DEF NoSockLost
  <2> QED
    BY <2>1 DEF Wants, Asked
<1>3. \A so \in accepted : \E i \in Live : socks[i].so = so
  BY DEF NoSockLost
<1> QED
  BY <1>1, <1>2, <1>3 DEF WantsRight

LEMMA WantsKnownNext == NoSockLost' => WantsRight'
BY WantsKnown, PTL

\* The live slots hold sockets that are registered, with an interest that
\* calls for a handler.
LEMMA LiveAsks ==
  ASSUME IInv, NoSockLost, NEW i \in Live
  PROVE  /\ i \in Slots /\ socks[i].so \in Sockets /\ socks[i].so \in accepted
         /\ Asked(socks[i]) \in Interest /\ Asked(socks[i]) # NoSocket
         /\ Registry!Reasons(Asked(socks[i])) # {}
<1>1. i \in Slots /\ socks[i] \in SelectSock /\ ~Unused(socks[i])
  BY HoldingSlots DEF Live, IInv, TypeOK
<1>2. socks[i].so \in accepted /\ accepted \subseteq Sockets
  BY DEF NoSockLost, IInv, TypeOK
<1>3. Asked(socks[i]) \in Interest
  BY <1>1 DEF Asked, Interest, SelectSock
<1>4. Asked(socks[i]) # NoSocket
  BY <1>3, NothingIsNothing
<1>5. Registry!Reasons(Asked(socks[i])) # {}
  BY <1>1 DEF Registry!Reasons, Asked, Unused
<1> QED
  BY <1>1, <1>2, <1>3, <1>4, <1>5

\* A step that touches no registration but that of so, and only moves the
\* others about, changes the wants of no other socket.
LEMMA OthersWant ==
  ASSUME NoSockLost, NoSockLost', NEW so, accepted' \ {so} = accepted \ {so},
         \A i \in Live : socks[i].so # so =>
           \E j \in Live' : /\ socks'[j].so = socks[i].so
                            /\ Asked(socks'[j]) = Asked(socks[i])
  PROVE  \A x \in Sockets \ {so} : Wants(x)' = Wants(x)
<1>1. WantsRight /\ WantsRight'
  BY WantsKnown, WantsKnownNext
<1> SUFFICES ASSUME NEW x \in Sockets \ {so} PROVE Wants(x)' = Wants(x)
  OBVIOUS
<1>2. CASE x \notin accepted
  BY <1>1, <1>2 DEF WantsRight
<1>3. CASE x \in accepted
  <2>1. PICK i \in Live : socks[i].so = x
    BY <1>1, <1>3 DEF WantsRight
  <2>2. PICK j \in Live' : socks'[j].so = x /\ Asked(socks'[j]) = Asked(socks[i])
    BY <2>1
  <2> QED
    BY <1>1, <2>1, <2>2 DEF WantsRight
<1> QED
  BY <1>2, <1>3

\* A step that only moves registrations about changes no wants.
LEMMA SameWants ==
  ASSUME NoSockLost, NoSockLost', accepted' = accepted,
         \A i \in Live : \E j \in Live' : /\ socks'[j].so = socks[i].so
                                          /\ Asked(socks'[j]) = Asked(socks[i])
  PROVE  WantsAll' = WantsAll
<1>1. \A x \in Sockets \ {NoSocket} : Wants(x)' = Wants(x)
  BY OthersWant
<1> QED
  BY <1>1, ConstantsOK DEF WantsAll

\* What is known in every state.
Known == IInv /\ NoSockLost /\ FreshInv /\ PassInv

\* What the array implements, and what no step of the abstraction changes.
Unnoticed == WantsAll' = WantsAll /\ Serving' = Serving

\* The steps that only arrange the array, start timers or let time pass.
LEMMA ArrangingIsQuiet ==
  Known /\ Known' /\ (Activate \/ PackSlot \/ PackEnd \/ Tick) => Unnoticed
<1> SUFFICES ASSUME Known, Known', Activate \/ PackSlot \/ PackEnd \/ Tick PROVE Unnoticed
  OBVIOUS
<1> USE DEF Known
<1>1. CASE Activate
  <2>1. \A i \in Live : Asked(socks'[i]) = Asked(socks[i])
    BY <1>1, HoldingSlots, ArmedKeeps DEF Activate, Live, IInv, TypeOK, Asked
  <2>2. WantsAll' = WantsAll
    BY <1>1, <2>1, LiveActivate, SameWants DEF Activate, history
  <2> QED
    BY <1>1, <2>2 DEF Unnoticed, Serving, Activate
<1>2. CASE PackSlot
  <2>1. CASE Unused(socks[packFrom])
    BY <1>2, <2>1, LivePackSlot, SameWants DEF PackSlot, history, Unnoticed, Serving
  <2>2. CASE ~Unused(socks[packFrom])
    <3>1. \A i \in Live : \E j \in Live' : socks'[j] = socks[i]
      BY <1>2, <2>2, LivePackSlot
    <3>2. WantsAll' = WantsAll
      BY <1>2, <3>1, SameWants DEF PackSlot, history
    <3> QED
      BY <1>2, <3>2 DEF Unnoticed, Serving, PackSlot
  <2> QED
    BY <2>1, <2>2
<1>3. CASE PackEnd
  BY <1>3, LivePackEnd, SameWants DEF PackEnd, history, Unnoticed, Serving
<1>4. CASE Tick
  <2>1. \A i \in Slots : /\ Unused(socks'[i]) = Unused(socks[i])
                         /\ socks'[i].so = socks[i].so
                         /\ Asked(socks'[i]) = Asked(socks[i])
    BY <1>4 DEF Tick, IInv, TypeOK, SelectSock, Unused, Asked
  <2>2. Holding' = Holding /\ Holding \subseteq Slots
    BY <1>4, HoldingSlots DEF Tick, Holding, Reserved, packing
  <2>3. Live' = Live /\ Live \subseteq Slots
    BY <2>1, <2>2 DEF Live
  <2>4. WantsAll' = WantsAll
    BY <1>4, <2>1, <2>3, SameWants DEF Tick, history
  <2>5. pc = "handler" => current.slot \in Slots
    <3>1. activeSockCount \in 0 .. Capacity /\ Capacity \in Nat
      BY ConstantsOK DEF IInv, TypeOK
    <3>2. pc = "handler" => current.slot \in Active
      BY DEF IInv, TypeOK
    <3> QED
      BY <3>1, <3>2 DEF Active, Slots
  <2> QED
    BY <1>4, <2>1, <2>4, <2>5 DEF Unnoticed, Serving, Tick, polling
<1> QED
  BY <1>1, <1>2, <1>3, <1>4

\* The steps that leave the slots and the counts alone and call no handler.
LEMMA PollingIsQuiet ==
  ASSUME Known, Known',
         UNCHANGED <<socks, socksReserved, activeSockCount, minSockToRemove,
                     packFrom, accepted>>,
         \/ UNCHANGED <<pc, current>>
         \/ pc \notin {"pack", "handler"} /\ pc' \notin {"pack", "handler"}
  PROVE  Unnoticed
<1>1. Live' = Live
  BY LiveQuiet
<1>2. WantsAll' = WantsAll
  BY <1>1, SameWants DEF Known
<1> QED
  BY <1>2 DEF Unnoticed, Serving

LEMMA StoringIsQuiet ==
  ASSUME RaceFree, NEW t \in Actors
  PROVE  Known /\ Known' /\ StoreSock(t) => Unnoticed
<1> SUFFICES ASSUME Known, Known', StoreSock(t) PROVE Unnoticed
  OBVIOUS
<1> USE DEF Known
<1>1. WantsAll' = WantsAll
  BY LiveStore, SameWants DEF StoreSock, history
<1>2. pc = "handler" => current.slot \in Live
  BY ConstantsOK DEF IInv, TypeOK, CountInv, CallsLiveSlot, Live, Holding, Reserved, Active
<1> QED
  BY <1>1, <1>2, LiveStore DEF Unnoticed, Serving, StoreSock, polling

-----------------------------------------------------------------------------
(* The steps of SockRegistry. *)

\* There is room for one more when a call gets to the increment.
LEMMA RoomForOne ==
  ASSUME Known, socksReserved < Capacity, pc # "pack"
  PROVE  Cardinality(accepted) < Capacity
<1> USE DEF Known
<1> DEFINE f == [i \in Live |-> socks[i].so]
           last == socksReserved - 1
<1>1. Live \in SUBSET (0 .. last) /\ last \in Int /\ last + 1 < Capacity /\ last + 1 >= 0
  BY ConstantsOK DEF Live, Holding, Reserved, IInv, TypeOK
<1>2. IsFiniteSet(0 .. last) /\ Cardinality(0 .. last) = last + 1
  BY <1>1, FS_Interval, ConstantsOK
<1> HIDE DEF last
<1>3. IsFiniteSet(Live) /\ Cardinality(Live) =< last + 1
  BY <1>1, <1>2, FS_Subset
<1>4. f \in Surjection(Live, accepted)
  BY DEF NoSockLost, Surjection
<1>5. IsFiniteSet(accepted) /\ Cardinality(accepted) =< Cardinality(Live)
  BY <1>3, <1>4, FS_Surjection
<1>6. Cardinality(accepted) \in Nat /\ Cardinality(Live) \in Nat
  BY <1>3, <1>5, FS_CardinalityType
<1> QED
  BY <1>1, <1>3, <1>5, <1>6, ConstantsOK

\* A socket is registered there if and only if TryAddSock took it.
LEMMA RegisteredIsAccepted ==
  Known => Registry!Registered = accepted /\ accepted \subseteq Sockets
<1> SUFFICES ASSUME Known PROVE Registry!Registered = accepted /\ accepted \subseteq Sockets
  OBVIOUS
<1> USE DEF Known
<1>1. WantsRight
  BY WantsKnown
<1>2. accepted \subseteq Sockets
  BY DEF IInv, TypeOK
<1>3. \A so \in accepted : Wants(so) # NoSocket
  BY <1>1, LiveAsks DEF WantsRight
<1> QED
  BY <1>1, <1>2, <1>3 DEF Registry!Registered, WantsRight

\* What Serving says while a handler runs is not NoSocket.
LEMMA ServingIsNotNothing ==
  ASSUME NEW so \in Sockets, NEW reason \in Events \cup {"timeout"}
  PROVE  [sock |-> so, reason |-> reason] # NoSocket
BY NothingIsNothing

\* SockRegistry counts as SelectServer does.
LEMMA SameCardinality ==
  ASSUME NEW S
  PROVE  Registry!Cardinality(S) = Cardinality(S)
BY Zenon DEF Registry!Cardinality, Cardinality

\* The end of TryAddSock registers its socket.
LEMMA IncrementRegisters ==
  ASSUME RaceFree, NEW t \in Actors
  PROVE  Known /\ Known' /\ IncrementReserved(t) => Registry!Register(adding[t].sock.so)
<1> SUFFICES ASSUME Known, Known', IncrementReserved(t)
             PROVE  Registry!Register(adding[t].sock.so)
  OBVIOUS
<1> USE DEF Known
<1>1. PICK so \in Sockets : so = adding[t].sock.so
  BY DEF IncrementReserved, IInv, CallInv
<1>2. /\ socks' = socks /\ Live' = Live \cup {socksReserved}
      /\ socks[socksReserved].so = so
      /\ accepted' = accepted \cup {so} /\ so \notin accepted
  BY <1>1, LiveIncrement DEF IncrementReserved, FreshInv
<1>3. pc # "pack" /\ socksReserved < Capacity
  BY OneAtATime, ConstantsOK DEF IncrementReserved, IInv, LockInv, CallInv
<1>4. Serving' = Serving
  BY <1>2 DEF IncrementReserved, Serving, polling
<1>5. so \notin Registry!Registered /\ Cardinality(Registry!Registered) < Capacity
  BY <1>2, <1>3, RegisteredIsAccepted, RoomForOne
<1>6. /\ Wants(so)' \in Interest
      /\ Registry!Reasons(Wants(so)') # {}
  <2>1. Asked(socks'[socksReserved]) \in Interest
        /\ Registry!Reasons(Asked(socks'[socksReserved])) # {}
    <3>1. adding[t].sock \in SelectSock /\ ~Unused(adding[t].sock)
      BY DEF IncrementReserved, IInv, TypeOK, CallInv, AddCall
    <3>2. socks'[socksReserved] = adding[t].sock
      BY LiveIncrement
    <3> QED
      BY <3>1, <3>2 DEF Asked, Interest, SelectSock, Unused, Registry!Reasons
  <2>2. WantsRight'
    BY WantsKnownNext
  <2>3. Wants(so)' = Asked(socks'[socksReserved])
    BY <1>2, <2>2 DEF WantsRight
  <2> QED
    BY <2>1, <2>3
<1>7. \A x \in Sockets \ {so} : Wants(x)' = Wants(x)
  BY <1>2, OthersWant
<1>8. Registry!Register(so)
  BY <1>4, <1>5, <1>6, <1>7, SameCardinality
  DEF Registry!Register, Registry!Only, Serving
<1> QED
  BY <1>1, <1>8

\* A step of Run that enters a handler calls it, for something that is wanted.
LEMMA EnteringCalls ==
  ASSUME Known, Known', pc # "handler", pc # "pack", pc' = "handler",
         UNCHANGED <<members, packing, accepted>>,
         NEW i \in Active, NEW reason \in Events \cup {"timeout"},
         current' = [slot |-> i, reason |-> reason],
         reason \in Registry!Reasons(Asked(socks[i]))
  PROVE  Registry!Call(socks[i].so)
<1> USE DEF Known
<1>1. UNCHANGED <<socks, socksReserved, activeSockCount, minSockToRemove, packFrom>>
  BY DEF members, packing
<1>2. i \in Live
  <2>1. i \in Reserved
    BY ConstantsOK DEF IInv, TypeOK, CountInv, Active, Reserved
  <2>2. ~Unused(socks[i])
    BY DEF Registry!Reasons, Asked, Unused
  <2> QED
    BY <2>1, <2>2 DEF Live, Holding
<1>3. socks[i].so \in Sockets /\ socks[i].so \in accepted
  BY <1>2, LiveAsks
<1>4. Wants(socks[i].so) = Asked(socks[i])
  BY <1>2, WantsKnown DEF WantsRight
<1>5. WantsAll' = WantsAll
  <2>1. Live' = Live
    BY <1>1, LiveQuiet
  <2> QED
    BY <1>1, <2>1, SameWants
<1>6. /\ Serving = NoSocket
      /\ Serving' = [sock |-> socks[i].so, reason |-> reason]
      /\ Serving' # NoSocket
  BY <1>1, <1>3, ServingIsNotNothing DEF Serving
<1>7. /\ socks[i].so \in Registry!Registered
      /\ WantsAll[socks[i].so] = Asked(socks[i])
  BY <1>3, <1>4, RegisteredIsAccepted DEF WantsAll
<1> QED
  BY <1>5, <1>6, <1>7 DEF Registry!Call, Serving, WantsAll

\* The return of a handler changes what is wanted of its own socket, and that
\* socket goes away if nothing is.
LEMMA HandlerIsReturn ==
  ASSUME NEW setting \in Settings
  PROVE  Known /\ Known' /\ HandlerReturns(setting) => Registry!Return(socks[current.slot].so)
<1> SUFFICES ASSUME Known, Known', HandlerReturns(setting)
             PROVE  Registry!Return(socks[current.slot].so)
  OBVIOUS
<1> USE DEF Known
<1>1. PICK i \in Live : i = current.slot
  BY LiveHandler
<1>2. PICK so \in Sockets : so = socks[i].so
  BY <1>1, LiveAsks
<1>3. /\ pc = "handler" /\ pc' # "handler" /\ i \in Slots
      /\ current.reason \in Events \cup {"timeout", "none"}
  BY <1>1, LiveAsks DEF HandlerReturns, IInv, TypeOK
<1>4. \A j \in Slots \ {i} : socks'[j] = socks[j]
  BY <1>1, <1>3 DEF HandlerReturns, IInv, TypeOK
<1>5. setting \in Interest
  BY ConstantsOK
<1>6. Asked(socks'[i]) = setting
  <2> DEFINE left == [socks[i] EXCEPT !.flags = setting.flags, !.timeout = setting.timeout]
  <2>1. left \in SelectSock /\ left.flags = setting.flags /\ left.timeout = setting.timeout
    <3>1. socks[i] \in SelectSock
      BY <1>3 DEF IInv, TypeOK
    <3> QED
      BY <1>5, <3>1 DEF SelectSock, Interest
  <2>2. socks'[i] = Armed(left)
    BY <1>1, <1>3 DEF HandlerReturns, IInv, TypeOK
  <2> HIDE DEF left
  <2>3. socks'[i].flags = setting.flags /\ socks'[i].timeout = setting.timeout
    BY <2>1, <2>2, ArmedKeeps DEF IInv, TypeOK
  <2> QED
    BY <1>5, <2>3 DEF Asked, Interest
<1>7. IF Unused(setting) THEN Live' = Live \ {i} /\ accepted' = accepted \ {so}
      ELSE Live' = Live /\ accepted' = accepted
  BY <1>1, <1>2, LiveHandler
<1>8. socks'[i].so = so
  BY <1>1, <1>2, LiveHandler
<1>9. Wants(so)' = IF Unused(setting) THEN NoSocket ELSE setting
  BY <1>2, <1>6, <1>7, <1>8, WantsKnownNext DEF WantsRight
<1>10. Wants(so)' # NoSocket =>
         Wants(so)' \in Interest /\ Registry!Reasons(Wants(so)') # {}
  BY <1>5, <1>9 DEF Unused, Registry!Reasons
<1>11. \A x \in Sockets \ {so} : Wants(x)' = Wants(x)
  <2>1. \A j \in Live : socks[j].so # so => j \in Live' /\ socks'[j] = socks[j]
    BY <1>2, <1>4, <1>7, LiveAsks
  <2>2. accepted' \ {so} = accepted \ {so}
    BY <1>7
  <2> QED
    BY <2>1, <2>2, OthersWant
<1>12. current.reason # "none"
  <2>1. Served(i) /\ setIndex \in 0 .. 2
    BY <1>1, <1>3 DEF PassInv, InPass, IInv, TypeOK
  <2> QED
    BY <2>1, SetPropsValues DEF Served
<1> QED
  BY <1>1, <1>2, <1>3, <1>10, <1>11, <1>12, ServingIsNotNothing
  DEF Registry!Return, Registry!Only

-----------------------------------------------------------------------------
(* Every step is a step of SockRegistry or a stutter. *)

LEMMA KnownInit == Init => Known
BY InvInit, LostInit, PassInit DEF Known

LEMMA KnownStep == ASSUME RaceFree PROVE Known /\ [Next]_vars => Known'
BY InvStep, LostStep, FreshStep, PassStep DEF Known

LEMMA RegistryInit == Init => Registry!Init
<1> SUFFICES ASSUME Init PROVE Registry!Init
  OBVIOUS
<1> PICK so \in Sockets, r \in Registrations :
      socks = [i \in Slots |-> IF i = 0 THEN NewSock(so, r) ELSE EmptySlot]
      /\ accepted = {so}
  BY DEF Init
<1>1. Known /\ WantsRight
  BY KnownInit, WantsKnown DEF Known
<1>2. socks[0] = NewSock(so, r) /\ r \in Interest
  BY ConstantsOK DEF Slots
<1>3. Live = {0}
  BY <1>2, NewSockType DEF Init, Live, Holding, Reserved
<1>4. Asked(socks[0]) = r /\ socks[0].so = so
  BY <1>2 DEF Asked, NewSock, Interest
<1>5. \A x \in Sockets : Wants(x) = IF x = so THEN r ELSE NoSocket
  BY <1>1, <1>3, <1>4 DEF WantsRight
<1> QED
  BY <1>2, <1>5 DEF Registry!Init, Init

LEMMA RegistryStep ==
  ASSUME RaceFree
  PROVE  Known /\ Known' /\ [Next]_vars => Unnoticed \/ Registry!Next
<1> SUFFICES ASSUME Known, Known', [Next]_vars PROVE Unnoticed \/ Registry!Next
  OBVIOUS
<1>1. CASE Activate \/ PackSlot \/ PackEnd \/ Tick
  BY <1>1, ArrangingIsQuiet
<1>2. CASE \/ Unlock \/ NoMoreSockets \/ SetupSelect \/ Select \/ NextSet \/ EndSweep
           \/ UNCHANGED vars
  BY <1>2, PollingIsQuiet
  DEF Unlock, NoMoreSockets, SetupSelect, Select, SelectPops, SelectTimesOut,
      SelectFails, NextSet, EndSweep, EndPass, members, packing, polling, history, vars
<1>3. ASSUME NEW t \in Threads, LockServer(t) \/ UnlockServer(t) PROVE Unnoticed
  BY <1>3, PollingIsQuiet DEF LockServer, UnlockServer, packing, polling, history
<1>4. ASSUME NEW t \in Actors, SetStopFlag(t) PROVE Unnoticed
  BY <1>4, PollingIsQuiet DEF SetStopFlag, packing, polling, history
<1>5. ASSUME NEW t \in Actors, NEW so \in Sockets, NEW r \in Registrations,
             TryAddSock(t, so, r)
      PROVE  Unnoticed
  BY <1>5, PollingIsQuiet DEF TryAddSock, members, packing, polling, history
<1>6. ASSUME NEW t \in Actors, AddStep(t) PROVE Unnoticed \/ Registry!Next
  <2>1. CASE StoreSock(t)
    BY <2>1, StoringIsQuiet
  <2>2. CASE IncrementReserved(t)
    <3>1. adding[t].sock.so \in Sockets
      BY <2>2 DEF IncrementReserved, Known, IInv, CallInv
    <3>2. Registry!Register(adding[t].sock.so)
      BY <2>2, IncrementRegisters
    <3> QED
      BY <3>1, <3>2 DEF Registry!Next
  <2> QED
    BY <1>6, <2>1, <2>2 DEF AddStep
<1>7. ASSUME NEW so \in Sockets, TakePopped(so) PROVE Unnoticed \/ Registry!Next
  <2>1. PICK i \in 0 .. activeSockCount : i = Find(activeSockCount, socks, so, hint)
    BY FindCorrect DEF Known, IInv, TypeOK, CountInv
  <2>2. /\ pc = "popped" /\ UNCHANGED <<members, packing, accepted>>
        /\ \/ pc' = "popped" /\ UNCHANGED current
           \/ /\ pc' = "handler"
              /\ i # activeSockCount /\ setProps[setIndex].flag \in socks[i].flags
              /\ current' = [slot |-> i, reason |-> setProps[setIndex].flag]
    BY <1>7, <2>1 DEF TakePopped, PassedOver
  <2>3. CASE pc' = "popped" /\ UNCHANGED current
    BY <2>2, <2>3, PollingIsQuiet DEF members, packing
  <2>4. CASE pc' = "handler"
    <3>0. setProps[setIndex].flag \in Events
      BY SetProps DEF Known, IInv, TypeOK
    <3>1. i \in Active /\ i \in Slots
      <4>1. i # activeSockCount
        BY <2>2, <2>4
      <4>2. activeSockCount \in 0 .. Capacity /\ Capacity \in Nat
        BY ConstantsOK DEF Known, IInv, TypeOK
      <4> QED
        BY <2>1, <4>1, <4>2 DEF Active, Slots
    <3>2. setProps[setIndex].flag \in Registry!Reasons(Asked(socks[i]))
      BY <2>2, <2>4 DEF Registry!Reasons, Asked
    <3>3. Registry!Call(socks[i].so)
      BY <2>2, <2>4, <3>0, <3>1, <3>2, EnteringCalls
    <3>4. socks[i].so \in Sockets
      BY <3>1, ConstantsOK DEF Known, IInv, TypeOK, CountInv, Active, Slots
    <3> QED
      BY <3>3, <3>4 DEF Registry!Next
  <2> QED
    BY <2>2, <2>3, <2>4
<1>8. CASE CallTimeout
  <2>1. PICK i \in sweep .. (activeSockCount - 1) :
          HasTimer(socks[i]) /\ current' = [slot |-> i, reason |-> "timeout"]
    BY <1>8 DEF CallTimeout, TimerFires
  <2>2. i \in Active /\ i \in Slots
    BY ConstantsOK DEF Active, Slots, Known, IInv, TypeOK
  <2>3. "timeout" \in Registry!Reasons(Asked(socks[i]))
    BY <2>1 DEF Registry!Reasons, Asked, HasTimer
  <2>4. Registry!Call(socks[i].so)
    <3>1. /\ pc # "handler" /\ pc # "pack" /\ pc' = "handler"
          /\ UNCHANGED <<members, packing, accepted>>
      BY <1>8 DEF CallTimeout
    <3> QED
      BY <2>1, <2>2, <2>3, <3>1, EnteringCalls
  <2>5. socks[i].so \in Sockets
    BY <2>2, ConstantsOK DEF Known, IInv, TypeOK, CountInv, Active, Slots
  <2> QED
    BY <2>4, <2>5 DEF Registry!Next
<1>9. CASE Handler
  <2>1. PICK setting \in Settings : HandlerReturns(setting)
    BY <1>9 DEF Handler
  <2>2. socks[current.slot].so \in Sockets
    BY <2>1, LiveHandler, LiveAsks DEF Known
  <2>3. Registry!Return(socks[current.slot].so)
    BY <2>1, HandlerIsReturn
  <2> QED
    BY <2>2, <2>3 DEF Registry!Next
<1> QED
  BY <1>1, <1>2, <1>3, <1>4, <1>5, <1>6, <1>7, <1>8, <1>9
  DEF Next, RunStep, Calls, Done

\* Whatever handlers and other threads do, in whatever order, the array with
\* its reserved tail and its packing is a registry: sockets come and go one at
\* a time, while there is room, each with its own wants; a handler is called
\* only for what its socket wants, one at a time; and a socket goes away when,
\* and only when, its handler wants nothing more (cpp:28-36, 149-211, 331-446).
THEOREM ImplementsRegistry == ASSUME RaceFree PROVE Spec => RegistryImplemented
<1>1. Init => Known
  BY KnownInit
<1>2. Known /\ [Next]_vars => Known'
  BY KnownStep
<1>3. Known /\ Known' /\ [Next]_vars => [Registry!Next]_(Registry!vars)
  BY RegistryStep DEF Unnoticed, WantsAll, Serving, Registry!vars
<1>4. Init => Registry!Init
  BY RegistryInit
<1> QED
  BY <1>1, <1>2, <1>3, <1>4, PTL DEF Spec, RegistryImplemented, Registry!Spec
=============================================================================
