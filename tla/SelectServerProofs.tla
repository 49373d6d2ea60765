------------------------- MODULE SelectServerProofs -------------------------
(***************************************************************************)
(* Safety of SelectServer for every capacity, every set of sockets and     *)
(* threads, every tick width: proved when TryAddSock never runs on two     *)
(* threads at once (RaceFree).                                             *)
(***************************************************************************)
EXTENDS SelectServerProperties, WellFoundedInduction, TLAPS

\* Either no thread but the one in Run uses the server, or no handler adds.
RaceFree == Threads = {} \/ ~HandlersAdd

-----------------------------------------------------------------------------
(* The inductive invariant. *)

\* Run holds the lock while it packs, a thread while it adds; a handler adds
\* only while it runs.
LockInv ==
  /\ lock = RunThread <=> pc \in {"pack", "unlock"}
  /\ \A t \in Threads : adding[t].at # "idle" => lock = t
  /\ adding[RunThread].at # "idle" => pc = "handler" /\ HandlersAdd

\* What a TryAddSock call in progress read is still true, and what it has
\* stored is still there.
CallInv ==
  \A t \in Actors :
    /\ adding[t].at # "idle" => /\ adding[t].seen = socksReserved
                                /\ socksReserved < Capacity
                                /\ ~Unused(adding[t].sock)
                                /\ adding[t].sock.so \in Sockets
    /\ adding[t].at = "increment" => socks[socksReserved] = adding[t].sock

\* The active slots are reserved, all of them while packing; nothing is
\* marked for removal between packing and the handlers; a slot that waits to
\* become active is in use.
CountInv ==
  /\ activeSockCount =< socksReserved
  /\ pc = "pack" => activeSockCount = socksReserved
  /\ pc \in {"unlock", "test", "select"} => minSockToRemove = Capacity
  /\ hint =< activeSockCount
  /\ pc \in {"top", "pack"} => hint = 0
  /\ \A i \in Slots : activeSockCount =< i /\ i < socksReserved => ~Unused(socks[i])
  /\ \A i \in Slots : i < socksReserved => socks[i].so \in Sockets

IInv == TypeOK /\ LockInv /\ CallInv /\ CountInv /\ PackMark /\ CallsLiveSlot

-----------------------------------------------------------------------------
(* Helpers. *)

\* Remainders by the width of the tick counter are tick counts.
LEMMA TickRange == \A n \in Int : n % TickMod \in Ticks
BY ConstantsOK DEF Ticks

\* There is a well-founded relation that holds < of the natural numbers.
LEMMA NatOrder ==
  \E R : IsWellFoundedOn(R, Nat) /\ \A x, y \in Nat : x < y => <<x, y>> \in R
<1>1. \A x, y \in Nat : x < y => <<x, y>> \in OpToRel(<, Nat)
  BY Zenon DEF OpToRel
<1>2. IsWellFoundedOn(OpToRel(<, Nat), Nat)
  BY NatLessThanWellFounded, Zenon
<1> QED
  BY <1>1, <1>2, Zenon

\* Least(S) is what its name says.
LEMMA LeastIsLeast ==
  ASSUME NEW S, S \subseteq Nat, S # {}
  PROVE  Least(S) \in S /\ \A j \in S : Least(S) =< j
<1>1. PICK R : IsWellFoundedOn(R, Nat) /\ \A x, y \in Nat : x < y => <<x, y>> \in R
  BY NatOrder
<1>2. IsWellFoundedOn(R, Nat)
  BY <1>1, Zenon
<1>3. \E x \in S : \A y \in S : ~(<<y, x>> \in R)
  BY <1>2, WFMin, ZenonT(120)
<1>4. PICK x \in S : \A y \in S : ~(<<y, x>> \in R)
  BY <1>3, Zenon
<1>5. \A y \in S : ~(y < x)
  BY <1>1, <1>4, Zenon
<1>6. \A y \in S : x =< y
  BY <1>5
<1> QED
  BY <1>6 DEF Least

\* Find returns the index of a slot among the first count that holds the
\* socket, or count, exactly when there is none: the hint only decides which.
LEMMA FindCorrect ==
  ASSUME NEW count \in 0 .. Capacity, NEW ss, NEW so, NEW outHint \in 0 .. Capacity,
         outHint =< count
  PROVE  LET i == Find(count, ss, so, outHint) IN
         /\ i \in 0 .. count
         /\ i < count => ss[i].so = so
         /\ i = count <=> \A j \in 0 .. (count - 1) : ss[j].so # so
<1> DEFINE ahead  == {i \in outHint .. (count - 1) : ss[i].so = so}
           behind == {i \in 0 .. (outHint - 1) : ss[i].so = so}
<1>1. ahead \subseteq Nat /\ behind \subseteq Nat
  OBVIOUS
<1>2. ahead # {} => Least(ahead) \in ahead
  BY <1>1, LeastIsLeast
<1>3. behind # {} => Least(behind) \in behind
  BY <1>1, LeastIsLeast
<1>4. Find(count, ss, so, outHint) =
        IF ahead # {} THEN Least(ahead)
        ELSE IF behind # {} THEN Least(behind) ELSE count
  BY DEF Find
<1> HIDE DEF ahead, behind
<1>5. CASE ahead # {}
  BY <1>2, <1>4, <1>5, ConstantsOK DEF ahead
<1>6. CASE ahead = {} /\ behind # {}
  BY <1>3, <1>4, <1>6, ConstantsOK DEF behind
<1>7. CASE ahead = {} /\ behind = {}
  BY <1>4, <1>7, ConstantsOK DEF ahead, behind
<1> QED
  BY <1>5, <1>6, <1>7

\* Starting a timer touches nothing but the tick count and the age.
LEMMA ArmedKeeps ==
  ASSUME NEW sock \in SelectSock, now \in Ticks
  PROVE  /\ Armed(sock) \in SelectSock
         /\ Armed(sock).so = sock.so
         /\ Armed(sock).flags = sock.flags
         /\ Armed(sock).timeout = sock.timeout
         /\ Unused(Armed(sock)) = Unused(sock)
<1>1. now + sock.timeout \in Int
  BY ConstantsOK DEF SelectSock, Ticks
<1>2. (now + sock.timeout) % TickMod \in Ticks
  BY <1>1, TickRange
<1>3. 0 \in 0 .. TickMod
  BY ConstantsOK
<1> QED
  BY <1>2, <1>3 DEF Armed, SelectSock, Unused

\* The flag and the handled state of each of the three sets.
LEMMA SetProps ==
  \A s \in 0 .. 2 : setProps[s].flag \in Events /\ setProps[s].handled \in 0 .. 2
<1>1. setProps[0] = [flag |-> "read", handled |-> 1]
  BY DEF setProps
<1>2. setProps[1] = [flag |-> "write", handled |-> 1]
  BY DEF setProps
<1>3. setProps[2] = [flag |-> "error", handled |-> 2]
  BY DEF setProps
<1> QED
  BY <1>1, <1>2, <1>3 DEF Events

\* The delay of a timer is a tick count, and so is the least of them.
LEMMA MinTimeDiffType ==
  ASSUME TypeOK
  PROVE  MinTimeDiff \in Ticks
<1> DEFINE delays == {Delay(socks[i], now) : i \in {j \in Active : HasTimer(socks[j])}}
<1>1. \A i \in Active : socks[i] \in SelectSock
  BY ConstantsOK DEF TypeOK, Active, Slots
<1>2. \A i \in Active : TicksLeft(socks[i], now) \in Ticks
  BY <1>1, TickRange, ConstantsOK DEF TypeOK, TicksLeft, SelectSock, Ticks
<1>3. delays \subseteq Ticks
  BY <1>2, ConstantsOK DEF Delay, Ticks
<1>4. delays # {} => Least(delays) \in delays
  <2>1. delays \subseteq Nat
    BY <1>3, ConstantsOK DEF Ticks
  <2> QED
    BY <2>1, LeastIsLeast
<1>5. INF \in Ticks
  BY ConstantsOK DEF INF, Ticks
<1> QED
  BY <1>3, <1>4, <1>5 DEF MinTimeDiff

\* A new registration fills a slot.
LEMMA NewSockType ==
  ASSUME NEW so \in Sockets, NEW r \in Registrations
  PROVE  /\ NewSock(so, r) \in SelectSock
         /\ ~Unused(NewSock(so, r))
         /\ NewSock(so, r).so = so
BY ConstantsOK DEF NewSock, SelectSock, Unused, Interest, Ticks

LEMMA EmptySlotType == EmptySlot \in SelectSock
BY ConstantsOK DEF EmptySlot, SelectSock, Ticks, INF

-----------------------------------------------------------------------------
(* The invariant is inductive: one lemma per group of actions. *)

LEMMA InvInit == Init => IInv
<1> SUFFICES ASSUME Init PROVE IInv
  OBVIOUS
<1> PICK so \in Sockets, r \in Registrations :
      socks = [i \in Slots |-> IF i = 0 THEN NewSock(so, r) ELSE EmptySlot]
      /\ accepted = {so}
  BY DEF Init
<1>1. /\ NewSock(so, r) \in SelectSock /\ ~Unused(NewSock(so, r))
      /\ NewSock(so, r).so = so
  BY NewSockType
<1>2. EmptySlot \in SelectSock
  BY EmptySlotType
<1>3. socks \in [Slots -> SelectSock]
  BY <1>1, <1>2
<1>4. 0 \in Slots /\ socks[0] = NewSock(so, r)
  BY ConstantsOK DEF Slots
<1>5. Idle \in AddCall
  BY EmptySlotType, ConstantsOK DEF Idle, AddCall
<1>6. INF \in Ticks /\ 0 \in Ticks
  BY ConstantsOK DEF INF, Ticks
<1>7. TypeOK
  <2>1. adding \in [Actors -> AddCall]
    BY <1>5 DEF Init
  <2>2. sets \in [0 .. 2 -> SUBSET Sockets] /\ handled \in [Slots -> 0 .. 2]
    BY DEF Init, NoSets, Zeroed
  <2>3. called \in [Slots -> SUBSET (Events \cup {"timeout"})]
    BY DEF Init, NotCalled
  <2>4. current \in [slot : 0 .. Capacity, reason : Events \cup {"timeout", "none"}]
    BY ConstantsOK DEF Init, NoCall
  <2>5. /\ socksReserved = 1 /\ activeSockCount = 0 /\ minSockToRemove = Capacity
        /\ packFrom = 0 /\ hint = 0 /\ sweep = 0 /\ setIndex = 0
        /\ stopFlag = FALSE /\ lock = NoThread /\ pc = "top"
        /\ minTimeDiff = INF /\ sweepNow = 0 /\ now \in Ticks
        /\ accepted \subseteq Sockets
    BY DEF Init
  <2>6. /\ 0 \in 0 .. Capacity /\ 1 \in 0 .. Capacity /\ Capacity \in 0 .. Capacity
        /\ 0 \in 0 .. 2 /\ "top" # "handler"
    BY ConstantsOK
  <2> QED
    BY <1>3, <1>6, <2>1, <2>2, <2>3, <2>4, <2>5, <2>6, Zenon DEF TypeOK
<1>8. LockInv
  BY ConstantsOK DEF Init, LockInv, Actors, Idle
<1>9. CallInv
  BY DEF Init, CallInv, Idle
<1>10. CountInv
  BY <1>1, <1>4, ConstantsOK DEF Init, CountInv, Slots
<1>11. PackMark
  BY ConstantsOK DEF Init, PackMark, Active
<1>12. CallsLiveSlot
  BY DEF Init, CallsLiveSlot
<1> QED
  BY <1>7, <1>8, <1>9, <1>10, <1>11, <1>12 DEF IInv

LEMMA InvActivate == IInv /\ Activate => IInv'
<1> SUFFICES ASSUME IInv, Activate PROVE IInv'
  OBVIOUS
<1> USE DEF IInv
<1>1. activeSockCount' = socksReserved
  BY ConstantsOK DEF Activate, Appended, CountInv, TypeOK
<1>2. \A i \in Slots : /\ socks'[i] \in SelectSock
                       /\ Unused(socks'[i]) = Unused(socks[i])
                       /\ socks'[i].so = socks[i].so
                       /\ i >= socksReserved => socks'[i] = socks[i]
                       /\ i < activeSockCount => socks'[i] = socks[i]
  <2> TAKE i \in Slots
  <2>1. socks[i] \in SelectSock /\ now \in Ticks
    BY DEF TypeOK
  <2>2. socks'[i] = socks[i] \/ socks'[i] = Armed(socks[i])
    BY DEF Activate
  <2>3. i >= socksReserved => socks'[i] = socks[i]
    BY <1>1, ConstantsOK DEF Activate, Slots, TypeOK
  <2>4. i < activeSockCount => socks'[i] = socks[i]
    BY ConstantsOK DEF Activate, Slots, TypeOK
  <2> QED
    BY <2>1, <2>2, <2>3, <2>4, ArmedKeeps
<1>3. socks' \in [Slots -> SelectSock]
  BY <1>2 DEF Activate
<1>4. TypeOK'
  <2>1. /\ pc' \in {"pack", "unlock"} /\ packFrom' \in 0 .. Capacity
        /\ lock' = RunThread /\ RunThread \in Actors
    BY ConstantsOK DEF Activate, EnterCriticalSection, TypeOK, Actors
  <2> QED
    BY <1>1, <1>3, <2>1 DEF Activate, TypeOK, polling, history
<1>5. LockInv'
  BY ConstantsOK DEF Activate, LockInv, EnterCriticalSection, TypeOK, Actors
<1>6. CallInv'
  BY <1>2, ConstantsOK DEF Activate, EnterCriticalSection, CallInv, LockInv, TypeOK, Actors, Slots
<1>7. CountInv'
  <2>1. socksReserved' = socksReserved /\ hint' = hint /\ minSockToRemove' = minSockToRemove
    BY DEF Activate, polling
  <2>2. pc' = "pack" \/ (pc' = "unlock" /\ minSockToRemove = Capacity)
    BY DEF Activate
  <2>3. hint =< activeSockCount' /\ hint = 0
    BY <1>1, ConstantsOK DEF Activate, CountInv, TypeOK
  <2>4. \A i \in Slots : ~(activeSockCount' =< i /\ i < socksReserved')
    BY <1>1, <2>1, ConstantsOK DEF TypeOK, Slots
  <2>5. \A i \in Slots : i < socksReserved' => socks'[i].so \in Sockets
    BY <1>2, <2>1 DEF CountInv
  <2> QED
    BY <1>1, <2>1, <2>2, <2>3, <2>4, <2>5 DEF CountInv, TypeOK
<1>8. PackMark'
  BY <1>1, <1>2, ConstantsOK DEF Activate, PackMark, TypeOK, Active, Slots, CountInv
<1>9. CallsLiveSlot'
  BY DEF Activate, CallsLiveSlot
<1> QED
  BY <1>4, <1>5, <1>6, <1>7, <1>8, <1>9

LEMMA InvPackSlot == IInv /\ PackSlot => IInv'
<1> SUFFICES ASSUME IInv, PackSlot PROVE IInv'
  OBVIOUS
<1> USE DEF IInv
<1>1. /\ packFrom \in Slots /\ minSockToRemove \in Slots
      /\ minSockToRemove < packFrom /\ packFrom < activeSockCount
      /\ activeSockCount = socksReserved
  BY ConstantsOK DEF PackSlot, TypeOK, Slots, PackMark, CountInv
<1>2. socks' \in [Slots -> SelectSock]
  BY <1>1 DEF PackSlot, TypeOK
<1>3. TypeOK'
  BY <1>1, <1>2, ConstantsOK DEF PackSlot, TypeOK, polling, history, Slots, Active
<1>4. LockInv'
  BY DEF PackSlot, LockInv
<1>5. CallInv'
  BY ConstantsOK DEF PackSlot, CallInv, LockInv, Actors
<1>6. CountInv'
  <2>1. \A i \in Slots : i < socksReserved => socks'[i].so \in Sockets
    BY <1>1 DEF PackSlot, CountInv, TypeOK
  <2> QED
    BY <1>1, <2>1, ConstantsOK DEF PackSlot, CountInv, TypeOK, polling, Slots
<1>7. PackMark'
  BY <1>1, ConstantsOK DEF PackSlot, PackMark, TypeOK, Slots, Skipped
<1>8. CallsLiveSlot'
  BY DEF PackSlot, CallsLiveSlot
<1> QED
  BY <1>3, <1>4, <1>5, <1>6, <1>7, <1>8

LEMMA InvPackEnd == IInv /\ PackEnd => IInv'
<1> SUFFICES ASSUME IInv, PackEnd PROVE IInv'
  OBVIOUS
<1> USE DEF IInv
<1>1. TypeOK'
  BY ConstantsOK DEF PackEnd, TypeOK, polling, history, PackedReserved
<1>2. LockInv'
  BY DEF PackEnd, LockInv
<1>3. CallInv'
  BY ConstantsOK DEF PackEnd, CallInv, LockInv, Actors
<1>4. CountInv'
  <2>1. hint' = 0 /\ minSockToRemove' = Capacity
    BY DEF PackEnd, polling, CountInv
  <2>2. activeSockCount' = minSockToRemove /\ socksReserved' = minSockToRemove
    BY DEF PackEnd, PackedReserved
  <2>3. pc' = "unlock" /\ minSockToRemove \in Nat
    BY DEF PackEnd, TypeOK
  <2>4. \A i \in Slots : i < minSockToRemove => socks'[i].so \in Sockets
    BY ConstantsOK DEF PackEnd, CountInv, PackMark, TypeOK, Slots
  <2> QED
    BY <2>1, <2>2, <2>3, <2>4, ConstantsOK DEF CountInv, Slots
<1>5. PackMark'
  BY ConstantsOK DEF PackEnd, PackMark, TypeOK, Slots, Active
<1>6. CallsLiveSlot'
  BY DEF PackEnd, CallsLiveSlot
<1> QED
  BY <1>1, <1>2, <1>3, <1>4, <1>5, <1>6

LEMMA InvUnlock == IInv /\ Unlock => IInv'
<1> SUFFICES ASSUME IInv, Unlock PROVE IInv'
  OBVIOUS
<1> USE DEF IInv
<1>1. TypeOK'
  BY DEF Unlock, TypeOK, packing, polling, history
<1>2. LockInv'
  <2>1. lock' = NoThread /\ pc' \in {"stopped", "test"} /\ adding' = adding
    BY DEF Unlock
  <2>2. \A t \in Actors : adding[t].at = "idle"
    BY ConstantsOK DEF Unlock, LockInv, Actors
  <2> QED
    BY <2>1, <2>2, ConstantsOK DEF LockInv, Actors
<1>3. CallInv'
  BY DEF Unlock, CallInv
<1>4. CountInv'
  BY DEF Unlock, CountInv, packing, polling
<1>5. PackMark'
  BY DEF Unlock, PackMark, packing, Active
<1>6. CallsLiveSlot'
  BY DEF Unlock, CallsLiveSlot
<1> QED
  BY <1>1, <1>2, <1>3, <1>4, <1>5, <1>6

\* The steps of a pass that touch neither the array nor its counts.
Polls ==
  \/ NoMoreSockets \/ SetupSelect \/ Select
  \/ NextSet \/ CallTimeout \/ EndSweep
  \/ \E so \in Sockets : TakePopped(so)

LEMMA PollsKeep ==
  IInv /\ Polls => /\ UNCHANGED <<members, packing, adding, now, accepted>>
                   /\ pc \in {"test", "select", "popped", "sweep"}
                   /\ pc' \in {"top", "select", "popped", "handler", "sweep",
                               "stopped", "failed"}
BY DEF Polls, Select, NoMoreSockets, SetupSelect, SelectPops, SelectTimesOut,
       SelectFails, NextSet, CallTimeout, EndSweep, EndPass, TakePopped, history

LEMMA InvPolls == IInv /\ Polls => IInv'
<1> SUFFICES ASSUME IInv, Polls PROVE IInv'
  OBVIOUS
<1> USE DEF IInv
<1>1. /\ UNCHANGED <<socks, socksReserved, stopFlag, lock, activeSockCount,
                     minSockToRemove, packFrom, adding, now, accepted>>
      /\ pc \in {"test", "select", "popped", "sweep"}
      /\ pc' \in {"top", "select", "popped", "handler", "sweep", "stopped",
                  "failed"}
  BY PollsKeep DEF members, packing
<1>2. LockInv'
  BY <1>1 DEF LockInv
<1>3. CallInv'
  BY <1>1 DEF CallInv
<1>4. PackMark'
  BY <1>1 DEF PackMark, Active
<1>5. /\ minTimeDiff' \in Ticks
      /\ sets' \in [0 .. 2 -> SUBSET Sockets]
      /\ setIndex' \in 0 .. 2
      /\ hint' \in 0 .. Capacity /\ hint' =< activeSockCount
      /\ handled' \in [Slots -> 0 .. 2]
      /\ sweepNow' \in Ticks
      /\ sweep' \in 0 .. Capacity
      /\ current' \in [slot : 0 .. Capacity, reason : Events \cup {"timeout", "none"}]
      /\ pc' = "handler" => current'.slot \in Active /\ ~Unused(socks[current'.slot])
      /\ called' \in [Slots -> SUBSET (Events \cup {"timeout"})]
      /\ pc' = "top" => hint' = 0
      /\ pc' = "select" => pc = "test"
  <2> DEFINE Goal ==
      /\ minTimeDiff' \in Ticks
      /\ sets' \in [0 .. 2 -> SUBSET Sockets]
      /\ setIndex' \in 0 .. 2
      /\ hint' \in 0 .. Capacity /\ hint' =< activeSockCount
      /\ handled' \in [Slots -> 0 .. 2]
      /\ sweepNow' \in Ticks
      /\ sweep' \in 0 .. Capacity
      /\ current' \in [slot : 0 .. Capacity, reason : Events \cup {"timeout", "none"}]
      /\ pc' = "handler" => current'.slot \in Active /\ ~Unused(socks[current'.slot])
      /\ called' \in [Slots -> SUBSET (Events \cup {"timeout"})]
      /\ pc' = "top" => hint' = 0
      /\ pc' = "select" => pc = "test"
  <2>0. INF \in Ticks /\ 0 \in Ticks /\ 0 \in 0 .. Capacity /\ 2 \in 0 .. 2
    BY ConstantsOK DEF INF, Ticks
  <2>z. NoSets \in [0 .. 2 -> SUBSET Sockets] /\ Zeroed \in [Slots -> 0 .. 2]
        /\ NotCalled \in [Slots -> SUBSET (Events \cup {"timeout"})]
    BY DEF NoSets, Zeroed, NotCalled
  <2>1. CASE NoMoreSockets
    BY <2>1 DEF NoMoreSockets, polling, history, TypeOK, CountInv
  <2>2. CASE SetupSelect
    <3>1. MinTimeDiff \in Ticks
      BY MinTimeDiffType
    <3>2. sets' \in [0 .. 2 -> SUBSET Sockets]
      <4>1. \A i \in Active : socks[i].so \in Sockets
        BY ConstantsOK DEF TypeOK, CountInv, Active, Slots
      <4> QED
        BY <2>2, <4>1 DEF SetupSelect
    <3> QED
      BY <2>2, <3>1, <3>2 DEF SetupSelect, history, TypeOK, CountInv
  <2>3. CASE SelectPops
    BY <2>0, <2>z, <2>3, ConstantsOK DEF SelectPops, history, TypeOK, CountInv
  <2>4. CASE SelectTimesOut
    BY <2>0, <2>z, <2>4, ConstantsOK DEF SelectTimesOut, history, TypeOK, CountInv
  <2>5. CASE SelectFails
    BY <2>5 DEF SelectFails, polling, history, TypeOK, CountInv
  <2>6. CASE NextSet
    BY <2>0, <2>z, <2>6, ConstantsOK DEF NextSet, EndPass, TypeOK, CountInv
  <2>7. CASE CallTimeout
    <3>1. PICK i \in sweep .. (activeSockCount - 1) :
            /\ TimerFires(i)
            /\ current' = [slot |-> i, reason |-> "timeout"]
            /\ called' = [called EXCEPT ![i] = @ \cup {"timeout"}]
            /\ sweep' = i + 1
      BY <2>7 DEF CallTimeout, SweepAfter
    <3>2. i \in Active /\ i \in Slots /\ i + 1 \in 0 .. Capacity
      BY ConstantsOK DEF TypeOK, Active, Slots
    <3>3. called' \in [Slots -> SUBSET (Events \cup {"timeout"})]
      BY <3>1, <3>2 DEF TypeOK
    <3>4. /\ current' \in [slot : 0 .. Capacity, reason : Events \cup {"timeout", "none"}]
          /\ current'.slot \in Active /\ ~Unused(socks[current'.slot])
      BY <3>1, <3>2, ConstantsOK DEF Slots, TimerFires, HasTimer, Unused
    <3>5. sweep' \in 0 .. Capacity
      BY <3>1, <3>2
    <3> QED
      BY <2>7, <3>3, <3>4, <3>5 DEF CallTimeout, TypeOK, CountInv
  <2>8. CASE EndSweep
    BY <2>0, <2>z, <2>8, ConstantsOK DEF EndSweep, EndPass, TypeOK, CountInv
  <2>9. ASSUME NEW so \in Sockets, TakePopped(so) PROVE Goal
    <3> DEFINE i == Find(activeSockCount, socks, so, hint)
    <3>1. i \in 0 .. activeSockCount
      BY FindCorrect DEF TypeOK, CountInv
    <3>2. setProps[setIndex].flag \in Events
      BY SetProps DEF TypeOK
    <3>3. /\ hint' = IF i = activeSockCount THEN hint ELSE i + 1
          /\ sets' = [sets EXCEPT ![setIndex] = @ \ {so}]
          /\ \/ pc' = "popped" /\ UNCHANGED <<current, called>>
             \/ /\ i # activeSockCount /\ setProps[setIndex].flag \in socks[i].flags
                /\ current' = [slot |-> i, reason |-> setProps[setIndex].flag]
                /\ called' = [called EXCEPT ![i] = @ \cup {setProps[setIndex].flag}]
          /\ UNCHANGED <<minTimeDiff, setIndex, handled, sweepNow, sweep>>
      BY <2>9 DEF TakePopped, PassedOver
    <3> HIDE DEF i
    <3>4. i # activeSockCount => i \in Active /\ i \in Slots /\ i + 1 =< activeSockCount
      BY <3>1, ConstantsOK DEF TypeOK, Active, Slots
    <3>5. hint' \in 0 .. Capacity /\ hint' =< activeSockCount
      BY <3>1, <3>3, <3>4, ConstantsOK DEF TypeOK, CountInv
    <3>6. sets' \in [0 .. 2 -> SUBSET Sockets]
      BY <3>3 DEF TypeOK
    <3>7. called' \in [Slots -> SUBSET (Events \cup {"timeout"})]
      BY <3>2, <3>3, <3>4 DEF TypeOK
    <3>8. /\ current' \in [slot : 0 .. Capacity, reason : Events \cup {"timeout", "none"}]
          /\ pc' = "handler" => current'.slot \in Active /\ ~Unused(socks[current'.slot])
      <4>1. i # activeSockCount /\ setProps[setIndex].flag \in socks[i].flags
              => ~Unused(socks[i])
        BY DEF Unused
      <4> QED
        BY <3>1, <3>2, <3>3, <3>4, <4>1, ConstantsOK DEF TypeOK
    <3> QED
      BY <3>3, <3>5, <3>6, <3>7, <3>8, <2>9 DEF TypeOK, TakePopped
  <2> QED
    BY <2>1, <2>2, <2>3, <2>4, <2>5, <2>6, <2>7, <2>8, <2>9 DEF Polls, Select
<1>6. TypeOK'
  BY <1>1, <1>5 DEF TypeOK, Active
<1>7. CountInv'
  BY <1>1, <1>5 DEF CountInv
<1>8. CallsLiveSlot'
  BY <1>1, <1>5 DEF CallsLiveSlot
<1> QED
  BY <1>2, <1>3, <1>4, <1>6, <1>7, <1>8

LEMMA InvHandler ==
  ASSUME NEW setting \in Settings
  PROVE  IInv /\ HandlerReturns(setting) => IInv'
<1> SUFFICES ASSUME IInv, HandlerReturns(setting) PROVE IInv'
  OBVIOUS
<1> USE DEF IInv
<1> DEFINE i    == current.slot
           left == [socks[i] EXCEPT !.flags = setting.flags,
                                    !.timeout = setting.timeout]
<1>1. /\ pc = "handler" /\ i \in Slots /\ i < activeSockCount
      /\ i \in Active /\ socks[i] \in SelectSock
  BY ConstantsOK DEF HandlerReturns, TypeOK, Slots, Active
<1>2. left \in SelectSock /\ left.so = socks[i].so
  <2>1. setting \in Interest
    BY ConstantsOK
  <2> QED
    BY <1>1, <2>1 DEF SelectSock, Interest
<1>3. socks' = [socks EXCEPT ![i] = Armed(left)]
  BY DEF HandlerReturns
<1>4. /\ Armed(left) \in SelectSock
      /\ Armed(left).so = socks[i].so
      /\ Unused(Armed(left)) = Unused(left)
  BY <1>2, ArmedKeeps DEF TypeOK
<1>5. minSockToRemove' = IF Unused(left) THEN MarkRemoved(i) ELSE minSockToRemove
  BY DEF HandlerReturns
<1>6. /\ UNCHANGED <<socksReserved, stopFlag, lock, activeSockCount, packFrom,
                     minTimeDiff, sets, setIndex, hint, sweepNow, sweep, adding,
                     now, called>>
      /\ pc' \in {"sweep", "popped"}
      /\ current' = NoCall
      /\ adding[RunThread].at = "idle"
      /\ handled' = handled \/ handled' = [handled EXCEPT ![i] = setProps[setIndex].handled]
      /\ accepted' \subseteq accepted
  BY DEF HandlerReturns
<1> HIDE DEF i, left
<1>7. TypeOK'
  <2>1. socks' \in [Slots -> SelectSock]
    BY <1>1, <1>3, <1>4 DEF TypeOK
  <2>2. minSockToRemove' \in 0 .. Capacity
    BY <1>1, <1>5, ConstantsOK DEF TypeOK, MarkRemoved, Slots
  <2>3. handled' \in [Slots -> 0 .. 2]
    BY <1>1, <1>6, SetProps DEF TypeOK
  <2>4. current' \in [slot : 0 .. Capacity, reason : Events \cup {"timeout", "none"}]
    BY <1>6, ConstantsOK DEF NoCall
  <2> QED
    BY <1>6, <2>1, <2>2, <2>3, <2>4 DEF TypeOK
<1>8. LockInv'
  BY <1>1, <1>6 DEF LockInv
<1>9. CallInv'
  <2>1. socksReserved \in Slots /\ i # socksReserved =>
          socks'[socksReserved] = socks[socksReserved]
    BY <1>1, <1>3 DEF TypeOK
  <2>2. i # socksReserved
    BY <1>1, ConstantsOK DEF CountInv, TypeOK, Slots
  <2>3. socksReserved < Capacity => socksReserved \in Slots
    BY ConstantsOK DEF TypeOK, Slots
  <2> QED
    BY <1>6, <2>1, <2>2, <2>3 DEF CallInv
<1>10. CountInv'
  <2>1. \A j \in Slots : activeSockCount =< j => socks'[j] = socks[j]
    BY <1>1, <1>3, ConstantsOK DEF TypeOK, Slots
  <2>2. \A j \in Slots : j < socksReserved => socks'[j].so \in Sockets
    BY <1>1, <1>3, <1>4 DEF CountInv, TypeOK
  <2> QED
    BY <1>6, <2>1, <2>2 DEF CountInv
<1>11. PackMark'
  <2>1. \A j \in Active : Unused(socks'[j]) => minSockToRemove' =< j
    <3> TAKE j \in Active
    <3>1. j \in Slots /\ (Unused(socks[j]) => minSockToRemove =< j)
      BY <1>1, ConstantsOK DEF PackMark, TypeOK, Active, Slots
    <3>2. CASE j = i
      BY <1>1, <1>3, <1>4, <1>5, <3>1, <3>2, ConstantsOK
      DEF MarkRemoved, TypeOK, Slots
    <3>3. CASE j # i
      BY <1>1, <1>3, <1>5, <3>1, <3>3, ConstantsOK DEF MarkRemoved, TypeOK, Slots
    <3> QED
      BY <3>2, <3>3
  <2>2. minSockToRemove' # Capacity =>
          minSockToRemove' \in Active /\ Unused(socks'[minSockToRemove'])
    <3>1. CASE Unused(left) /\ i < minSockToRemove
      BY <1>1, <1>3, <1>4, <1>5, <3>1 DEF MarkRemoved, TypeOK
    <3>2. CASE ~(Unused(left) /\ i < minSockToRemove)
      <4>1. minSockToRemove' = minSockToRemove
        BY <1>5, <3>2 DEF MarkRemoved
      <4>2. minSockToRemove # Capacity =>
              minSockToRemove \in Active /\ Unused(socks[minSockToRemove])
        BY <1>1 DEF PackMark
      <4>3. minSockToRemove = i => Unused(socks'[i])
        BY <1>1, <4>2, ConstantsOK DEF CallsLiveSlot, TypeOK, Slots, i
      <4> QED
        BY <1>1, <1>3, <4>1, <4>2, <4>3, ConstantsOK DEF TypeOK, Active, Slots
    <3> QED
      BY <3>1, <3>2
  <2> QED
    BY <1>6, <2>1, <2>2 DEF PackMark, Active
<1>12. CallsLiveSlot'
  BY <1>6 DEF CallsLiveSlot
<1> QED
  BY <1>7, <1>8, <1>9, <1>10, <1>11, <1>12

\* The calls that change neither the array nor its counts.
LEMMA InvLock ==
  ASSUME NEW t \in Threads
  PROVE  IInv /\ (LockServer(t) \/ UnlockServer(t)) => IInv'
<1> SUFFICES ASSUME IInv, LockServer(t) \/ UnlockServer(t) PROVE IInv'
  OBVIOUS
<1> USE DEF IInv
<1>1. /\ UNCHANGED <<socks, socksReserved, stopFlag, pc, packing, polling, adding,
                     now, history>>
      /\ lock' \in {t, NoThread}
      /\ lock \in {t, NoThread}
      /\ lock = t => adding[t].at = "idle"
  BY ConstantsOK DEF LockServer, UnlockServer
<1>2. t # RunThread /\ t # NoThread /\ t \in Actors
  BY ConstantsOK DEF Actors
<1>3. TypeOK'
  BY <1>1, <1>2 DEF TypeOK, packing, polling, history, Active
<1>4. LockInv'
  BY <1>1, <1>2, ConstantsOK DEF LockInv
<1>5. CallInv'
  BY <1>1 DEF CallInv
<1>6. CountInv'
  BY <1>1 DEF CountInv, packing, polling
<1>7. PackMark' /\ CallsLiveSlot'
  BY <1>1 DEF PackMark, CallsLiveSlot, packing, polling, Active
<1> QED
  BY <1>3, <1>4, <1>5, <1>6, <1>7

LEMMA InvStopFlag ==
  ASSUME NEW t \in Actors
  PROVE  IInv /\ SetStopFlag(t) => IInv'
<1> SUFFICES ASSUME IInv, SetStopFlag(t) PROVE IInv'
  OBVIOUS
<1> USE DEF IInv
<1>1. TypeOK'
  BY DEF SetStopFlag, TypeOK, packing, polling, history, Active
<1>2. LockInv' /\ CallInv'
  BY DEF SetStopFlag, LockInv, CallInv
<1>3. CountInv' /\ PackMark' /\ CallsLiveSlot'
  BY DEF SetStopFlag, CountInv, PackMark, CallsLiveSlot, packing, polling, Active
<1> QED
  BY <1>1, <1>2, <1>3

\* While a TryAddSock is in progress no other one is, and Run is not in its
\* critical section.
LEMMA OneAtATime ==
  ASSUME RaceFree, IInv, NEW t \in Actors,
         HasServer(t) \/ adding[t].at # "idle",
         t = RunThread => HandlersAdd
  PROVE  /\ \A u \in Actors \ {t} : adding[u].at = "idle"
         /\ pc \notin {"pack", "unlock"}
         /\ t = RunThread => pc = "handler"
         /\ t # RunThread => lock = t
BY ConstantsOK DEF RaceFree, IInv, LockInv, Actors, HasServer, TypeOK

LEMMA InvTryAdd ==
  ASSUME RaceFree, NEW t \in Actors, NEW so \in Sockets, NEW r \in Registrations
  PROVE  IInv /\ TryAddSock(t, so, r) => IInv'
<1> SUFFICES ASSUME IInv, TryAddSock(t, so, r) PROVE IInv'
  OBVIOUS
<1>1. /\ \A u \in Actors \ {t} : adding[u].at = "idle"
      /\ t = RunThread => pc = "handler" /\ HandlersAdd
      /\ t # RunThread => lock = t
  BY OneAtATime DEF TryAddSock
<1> USE DEF IInv
<1>2. adding' = [adding EXCEPT ![t] = [at |-> "store", sock |-> NewSock(so, r),
                                       seen |-> socksReserved]]
  BY DEF TryAddSock
<1>3. /\ UNCHANGED <<members, pc, packing, polling, now, history>>
      /\ socksReserved < Capacity
  BY ConstantsOK DEF TryAddSock, Full, TypeOK
<1>4. NewSock(so, r) \in SelectSock /\ ~Unused(NewSock(so, r)) /\ NewSock(so, r).so = so
  BY NewSockType
<1>5. TypeOK'
  <2>1. adding' \in [Actors -> AddCall]
    BY <1>2, <1>4 DEF TypeOK, AddCall
  <2> QED
    BY <1>3, <2>1 DEF TypeOK, members, packing, polling, history, Active
<1>6. LockInv'
  BY <1>1, <1>2, <1>3, ConstantsOK DEF LockInv, TypeOK, members, Actors
<1>7. CallInv'
  BY <1>1, <1>2, <1>3, <1>4 DEF CallInv, TypeOK, members
<1>8. CountInv' /\ PackMark' /\ CallsLiveSlot'
  BY <1>3 DEF CountInv, PackMark, CallsLiveSlot, members, packing, polling, Active
<1> QED
  BY <1>5, <1>6, <1>7, <1>8

LEMMA InvStore ==
  ASSUME RaceFree, NEW t \in Actors
  PROVE  IInv /\ StoreSock(t) => IInv'
<1> SUFFICES ASSUME IInv, StoreSock(t) PROVE IInv'
  OBVIOUS
<1>1. /\ \A u \in Actors \ {t} : adding[u].at = "idle"
      /\ t = RunThread => pc = "handler" /\ HandlersAdd
      /\ t # RunThread => lock = t
      /\ pc \notin {"pack", "unlock"}
  BY OneAtATime, ConstantsOK DEF StoreSock, IInv, LockInv
<1> USE DEF IInv
<1>2. /\ socks' = [socks EXCEPT ![socksReserved] = adding[t].sock]
      /\ socksReserved \in Slots
      /\ adding[t] \in AddCall /\ adding[t].seen = socksReserved
      /\ ~Unused(adding[t].sock) /\ adding[t].sock.so \in Sockets
  <2>1. /\ adding[t] \in AddCall /\ adding[t].seen = socksReserved
        /\ socksReserved < Capacity
        /\ ~Unused(adding[t].sock) /\ adding[t].sock.so \in Sockets
    BY DEF StoreSock, CallInv, TypeOK
  <2>2. socksReserved \in Slots
    BY <2>1, ConstantsOK DEF TypeOK, Slots
  <2> QED
    BY <2>1, <2>2 DEF StoreSock, ReadReserved
<1>3. /\ UNCHANGED <<socksReserved, stopFlag, lock, pc, packing, polling, now, history>>
      /\ adding' = [adding EXCEPT ![t].at = "increment"]
  BY DEF StoreSock
<1>4. TypeOK'
  <2>1. adding' \in [Actors -> AddCall]
    BY <1>2, <1>3 DEF TypeOK, AddCall
  <2>2. socks' \in [Slots -> SelectSock]
    BY <1>2 DEF TypeOK, AddCall
  <2> QED
    BY <1>3, <2>1, <2>2 DEF TypeOK, packing, polling, history, Active
<1>5. LockInv'
  BY <1>1, <1>3, ConstantsOK DEF LockInv, TypeOK, Actors
<1>6. CallInv'
  BY <1>1, <1>2, <1>3 DEF CallInv, TypeOK, StoreSock
<1>7. \A i \in Slots : i < socksReserved => socks'[i] = socks[i]
  BY <1>2, ConstantsOK DEF TypeOK, Slots
<1>8. CountInv'
  BY <1>2, <1>3, <1>7 DEF CountInv, packing, polling
<1>9. \A i \in Active : i \in Slots /\ i < socksReserved
  BY ConstantsOK DEF Active, Slots, CountInv, TypeOK
<1>10. PackMark' /\ CallsLiveSlot'
  BY <1>1, <1>3, <1>7, <1>9 DEF PackMark, CallsLiveSlot, TypeOK, packing, polling, Active
<1> QED
  BY <1>4, <1>5, <1>6, <1>8, <1>10

LEMMA InvIncrement ==
  ASSUME RaceFree, NEW t \in Actors
  PROVE  IInv /\ IncrementReserved(t) => IInv'
<1> SUFFICES ASSUME IInv, IncrementReserved(t) PROVE IInv'
  OBVIOUS
<1>1. /\ \A u \in Actors \ {t} : adding[u].at = "idle"
      /\ pc \notin {"pack", "unlock"}
  BY OneAtATime, ConstantsOK DEF IncrementReserved, IInv, LockInv
<1> USE DEF IInv
<1>2. /\ socksReserved' = socksReserved + 1
      /\ socksReserved \in Slots
      /\ socks[socksReserved] = adding[t].sock
      /\ ~Unused(adding[t].sock) /\ adding[t].sock.so \in Sockets
  BY ConstantsOK DEF IncrementReserved, ReadReserved, CallInv, TypeOK, Slots
<1>3. /\ UNCHANGED <<socks, stopFlag, lock, pc, packing, polling, now, called>>
      /\ adding' = [adding EXCEPT ![t] = Idle]
      /\ accepted' = accepted \cup {adding[t].sock.so}
  BY DEF IncrementReserved
<1>4. TypeOK'
  <2>1. adding' \in [Actors -> AddCall]
    BY <1>3, EmptySlotType, ConstantsOK DEF TypeOK, AddCall, Idle
  <2>2. socksReserved' \in 0 .. Capacity
    BY <1>2, ConstantsOK DEF Slots
  <2> QED
    BY <1>2, <1>3, <2>1, <2>2 DEF TypeOK, packing, polling, Active
<1>5. \A u \in Actors : adding'[u].at = "idle"
  BY <1>1, <1>3 DEF TypeOK, Idle
<1>6. LockInv'
  BY <1>3, <1>5, ConstantsOK DEF LockInv, Actors
<1>7. CallInv'
  BY <1>5 DEF CallInv
<1>8. CountInv'
  <2>1. socksReserved \in Nat /\ socksReserved' = socksReserved + 1
    BY <1>2, ConstantsOK DEF Slots
  <2> QED
    BY <1>1, <1>2, <1>3, <2>1 DEF CountInv, packing, polling, TypeOK
<1>9. PackMark' /\ CallsLiveSlot'
  BY <1>3 DEF PackMark, CallsLiveSlot, packing, polling, Active
<1> QED
  BY <1>4, <1>6, <1>7, <1>8, <1>9

LEMMA InvTick == IInv /\ Tick => IInv'
<1> SUFFICES ASSUME IInv, Tick PROVE IInv'
  OBVIOUS
<1> USE DEF IInv
<1>1. \A i \in Slots : /\ socks'[i] \in SelectSock
                       /\ Unused(socks'[i]) = Unused(socks[i])
                       /\ socks'[i].so = socks[i].so
                       /\ i \notin Active => socks'[i] = socks[i]
  BY ConstantsOK DEF Tick, TypeOK, SelectSock, Unused, Running
<1>2. socks' \in [Slots -> SelectSock]
  BY <1>1 DEF Tick
<1>3. now' \in Ticks
  BY TickRange, ConstantsOK DEF Tick, TypeOK, Ticks
<1>4. UNCHANGED <<socksReserved, stopFlag, lock, pc, packing, polling, adding, history>>
  BY DEF Tick
<1>5. TypeOK'
  BY <1>2, <1>3, <1>4 DEF TypeOK, packing, polling, history, Active
<1>6. LockInv'
  BY <1>4 DEF LockInv
<1>7. CallInv'
  <2>1. socksReserved < Capacity => socksReserved \in Slots /\ socksReserved \notin Active
    BY ConstantsOK DEF TypeOK, CountInv, Active, Slots
  <2> QED
    BY <1>1, <1>4, <2>1 DEF CallInv
<1>8. CountInv'
  BY <1>1, <1>4 DEF CountInv, packing, polling
<1>9. Active \subseteq Slots
  BY ConstantsOK DEF TypeOK, Active, Slots
<1>10. PackMark'
  <2>1. \A i \in 0 .. (minSockToRemove - 1) : i \in Slots
    BY ConstantsOK DEF TypeOK, Slots
  <2> QED
    BY <1>1, <1>4, <1>9, <2>1 DEF PackMark, packing, Active
<1>11. CallsLiveSlot'
  BY <1>1, <1>4, <1>9 DEF CallsLiveSlot, polling, TypeOK
<1> QED
  BY <1>5, <1>6, <1>7, <1>8, <1>10, <1>11

LEMMA InvStep == ASSUME RaceFree PROVE IInv /\ [Next]_vars => IInv'
<1> SUFFICES ASSUME IInv, [Next]_vars PROVE IInv'
  OBVIOUS
<1>1. CASE Activate
  BY <1>1, InvActivate
<1>2. CASE PackSlot
  BY <1>2, InvPackSlot
<1>3. CASE PackEnd
  BY <1>3, InvPackEnd
<1>4. CASE Unlock
  BY <1>4, InvUnlock
<1>5. CASE Polls
  BY <1>5, InvPolls
<1>6. CASE Handler
  BY <1>6, InvHandler DEF Handler
<1>7. ASSUME NEW t \in Threads, LockServer(t) \/ UnlockServer(t) PROVE IInv'
  BY <1>7, InvLock
<1>8. ASSUME NEW t \in Actors, SetStopFlag(t) PROVE IInv'
  BY <1>8, InvStopFlag
<1>9. ASSUME NEW t \in Actors, AddStep(t) PROVE IInv'
  BY <1>9, InvStore, InvIncrement DEF AddStep
<1>10. ASSUME NEW t \in Actors, NEW so \in Sockets, NEW r \in Registrations,
              TryAddSock(t, so, r)
       PROVE  IInv'
  BY <1>10, InvTryAdd
<1>11. CASE Tick
  BY <1>11, InvTick
<1>12. CASE UNCHANGED vars
  <2>1. TypeOK'
    BY <1>12 DEF IInv, TypeOK, vars, members, packing, polling, history, Active
  <2>2. LockInv' /\ CallInv'
    BY <1>12 DEF IInv, LockInv, CallInv, vars, members
  <2>3. CountInv' /\ PackMark' /\ CallsLiveSlot'
    BY <1>12 DEF IInv, CountInv, PackMark, CallsLiveSlot, vars, members, packing,
                 polling, Active
  <2> QED
    BY <2>1, <2>2, <2>3 DEF IInv
<1> QED
  BY <1>1, <1>2, <1>3, <1>4, <1>5, <1>6, <1>7, <1>8, <1>9, <1>10, <1>11, <1>12
  DEF Next, RunStep, Calls, Done, Polls

-----------------------------------------------------------------------------
(* Theorems. *)

\* Every reachable state satisfies the inductive invariant.
THEOREM Invariant == ASSUME RaceFree PROVE Spec => []IInv
<1>1. Init => IInv
  BY InvInit
<1>2. IInv /\ [Next]_vars => IInv'
  BY InvStep
<1> QED
  BY <1>1, <1>2, PTL DEF Spec

\* The members and locals of Run keep their types: no index leaves the array,
\* socksReserved never exceeds the capacity, and handlers run on active slots
\* (cpp:28-36, 119-196, 331-446).
THEOREM TypeCorrect == ASSUME RaceFree PROVE Spec => []TypeOK
<1>1. IInv => TypeOK
  BY DEF IInv
<1> QED
  BY <1>1, Invariant, PTL

\* Packing always starts at the first unused slot and everything it has
\* packed is in use (cpp:135-140, 178-193, 382-388, 438-444).
THEOREM PackMarkCorrect == ASSUME RaceFree PROVE Spec => []PackMark
<1>1. IInv => PackMark
  BY DEF IInv
<1> QED
  BY <1>1, Invariant, PTL

\* A socket that was removed is never given to select again (cpp:171-245).
THEOREM RemovedNotSelected == ASSUME RaceFree PROVE Spec => []NoDeadSelected
<1>1. IInv => NoDeadSelected
  BY ConstantsOK DEF IInv, TypeOK, CountInv, PackMark, NoDeadSelected, Active
<1> QED
  BY <1>1, Invariant, PTL

\* A removed socket's handler is not called any more (cpp:366-371, 408).
THEOREM RemovedNotCalled == ASSUME RaceFree PROVE Spec => []CallsLiveSlot
<1>1. IInv => CallsLiveSlot
  BY DEF IInv
<1> QED
  BY <1>1, Invariant, PTL
-----------------------------------------------------------------------------
(* No registration is lost or duplicated. *)

\* A socket that is being added is not registered yet.
FreshInv == \A t \in Actors : adding[t].at # "idle" => adding[t].sock.so \notin accepted

\* A step that keeps the live slots, their sockets and accepted is harmless.
LEMMA SameLive ==
  ASSUME NoSockLost, Live' = Live, \A i \in Live : socks'[i].so = socks[i].so,
         accepted' = accepted
  PROVE  NoSockLost'
BY DEF NoSockLost

LEMMA HoldingSlots == IInv => Holding \subseteq Slots
BY ConstantsOK DEF IInv, TypeOK, Holding, Reserved, Slots, PackMark

LEMMA LostInit == Init => NoSockLost /\ FreshInv
<1> SUFFICES ASSUME Init PROVE NoSockLost /\ FreshInv
  OBVIOUS
<1> PICK so \in Sockets, r \in Registrations :
      socks = [i \in Slots |-> IF i = 0 THEN NewSock(so, r) ELSE EmptySlot]
      /\ accepted = {so}
  BY DEF Init
<1>1. Holding = {0}
  BY DEF Init, Holding, Reserved
<1>2. socks[0] = NewSock(so, r)
  BY ConstantsOK DEF Slots
<1>3. Live = {0}
  BY <1>1, <1>2, NewSockType DEF Live
<1> QED
  BY <1>2, <1>3, NewSockType DEF Init, NoSockLost, FreshInv, Idle

LEMMA LiveActivate ==
  IInv /\ Activate => Live' = Live /\ \A i \in Live : socks'[i].so = socks[i].so
<1> SUFFICES ASSUME IInv, Activate
             PROVE  Live' = Live /\ \A i \in Live : socks'[i].so = socks[i].so
  OBVIOUS
<1>1. activeSockCount' = socksReserved
  BY ConstantsOK DEF IInv, Activate, Appended, CountInv, TypeOK
<1>2. \A i \in Slots : /\ Unused(socks'[i]) = Unused(socks[i])
                       /\ socks'[i].so = socks[i].so
  BY ArmedKeeps DEF Activate, IInv, TypeOK
<1>3. Holding = Reserved /\ Holding \subseteq Slots
  BY HoldingSlots DEF Activate, Holding
<1>4. CASE minSockToRemove = Capacity
  <2>1. Holding' = Holding
    BY <1>3, <1>4 DEF Activate, Holding, Reserved
  <2> QED
    BY <1>2, <1>3, <2>1 DEF Live
<1>5. CASE minSockToRemove # Capacity
  <2>1. minSockToRemove \in Active /\ Unused(socks[minSockToRemove])
    BY <1>5 DEF Activate, IInv, PackMark
  <2>2. Holding' = Holding \ {minSockToRemove}
    BY <1>1, <1>3, <1>5, <2>1, ConstantsOK
    DEF Activate, Holding, Reserved, Active, IInv, TypeOK, CountInv
  <2> QED
    BY <1>2, <1>3, <2>1, <2>2 DEF Live
<1> QED
  BY <1>4, <1>5

LEMMA LostActivate == IInv /\ NoSockLost /\ Activate => NoSockLost'
BY LiveActivate, SameLive DEF Activate, history

\* PackSlot moves a live slot or leaves the live slots as they are.
LEMMA LivePackSlot ==
  IInv /\ PackSlot =>
    IF Unused(socks[packFrom]) THEN socks' = socks /\ Live' = Live
    ELSE /\ packFrom \in Live /\ minSockToRemove \in Slots \ Live
         /\ Live' = (Live \ {packFrom}) \cup {minSockToRemove}
         /\ socks'[minSockToRemove] = socks[packFrom]
         /\ \A i \in Live : i # minSockToRemove /\ socks'[i] = socks[i]
<1> SUFFICES ASSUME IInv, PackSlot
             PROVE  IF Unused(socks[packFrom]) THEN socks' = socks /\ Live' = Live
                    ELSE /\ packFrom \in Live /\ minSockToRemove \in Slots \ Live
                         /\ Live' = (Live \ {packFrom}) \cup {minSockToRemove}
                         /\ socks'[minSockToRemove] = socks[packFrom]
                         /\ \A i \in Live : i # minSockToRemove /\ socks'[i] = socks[i]
  OBVIOUS
<1> DEFINE to == minSockToRemove
           from == packFrom
<1>1. /\ pc = "pack" /\ pc' = "pack"
      /\ activeSockCount' = activeSockCount /\ packFrom' = from + 1
      /\ to < from /\ from < activeSockCount
      /\ to \in Slots /\ from \in Slots
  BY ConstantsOK DEF PackSlot, IInv, TypeOK, PackMark, Slots
<1>2. Holding = (0 .. (to - 1)) \cup (from .. (activeSockCount - 1))
      /\ Holding \subseteq Slots
  BY <1>1, HoldingSlots DEF Holding
<1>3. CASE Unused(socks[from])
  <2>1. socks' = socks /\ minSockToRemove' = to
    BY <1>3 DEF PackSlot, Skipped
  <2>2. Holding' = Holding \ {from}
    BY <1>1, <1>2, <2>1 DEF Holding, IInv, TypeOK, Slots
  <2> QED
    BY <1>3, <2>1, <2>2 DEF Live
<1>4. CASE ~Unused(socks[from])
  <2>1. /\ socks' = [socks EXCEPT ![to] = socks[from]] /\ minSockToRemove' = to + 1
        /\ socks'[to] = socks[from]
        /\ \A i \in Slots \ {to} : socks'[i] = socks[i]
    BY <1>1, <1>4 DEF PackSlot, Skipped, IInv, TypeOK
  <2>2. Holding' = (Holding \ {from}) \cup {to} /\ to \notin Holding /\ from \in Holding
    BY <1>1, <1>2, <2>1 DEF Holding, IInv, TypeOK, Slots
  <2>3. Live' = (Live \ {from}) \cup {to} /\ to \notin Live /\ from \in Live
    BY <1>2, <1>4, <2>1, <2>2 DEF Live
  <2>4. \A i \in Live : i \in Slots \ {to}
    BY <1>2, <2>2 DEF Live
  <2> QED
    BY <1>1, <1>4, <2>1, <2>3, <2>4
<1> QED
  BY <1>3, <1>4

LEMMA LostPackSlot == IInv /\ NoSockLost /\ PackSlot => NoSockLost'
<1> SUFFICES ASSUME IInv, NoSockLost, PackSlot PROVE NoSockLost'
  OBVIOUS
<1>1. accepted' = accepted
  BY DEF PackSlot, history
<1>2. CASE Unused(socks[packFrom])
  BY <1>1, <1>2, LivePackSlot, SameLive
<1>3. CASE ~Unused(socks[packFrom])
  BY <1>1, <1>3, LivePackSlot DEF NoSockLost
<1> QED
  BY <1>2, <1>3

LEMMA LivePackEnd == IInv /\ PackEnd => Live' = Live /\ socks' = socks
<1> SUFFICES ASSUME IInv, PackEnd PROVE Live' = Live /\ socks' = socks
  OBVIOUS
<1>1. Holding' = Holding
  BY ConstantsOK DEF PackEnd, PackedReserved, Holding, Reserved, IInv, TypeOK
<1> QED
  BY <1>1 DEF Live, PackEnd

LEMMA LostPackEnd == IInv /\ NoSockLost /\ PackEnd => NoSockLost'
BY LivePackEnd, SameLive DEF PackEnd, history

\* The handler's slot is live until the handler drops its socket.
LEMMA LiveHandler ==
  ASSUME NEW setting \in Settings
  PROVE  IInv /\ HandlerReturns(setting) =>
           /\ current.slot \in Live
           /\ \A i \in Live : socks'[i].so = socks[i].so
           /\ IF Unused(setting)
              THEN /\ Live' = Live \ {current.slot}
                   /\ accepted' = accepted \ {socks[current.slot].so}
              ELSE Live' = Live /\ accepted' = accepted
<1> SUFFICES ASSUME IInv, HandlerReturns(setting)
             PROVE  /\ current.slot \in Live
                    /\ \A i \in Live : socks'[i].so = socks[i].so
                    /\ IF Unused(setting)
                       THEN /\ Live' = Live \ {current.slot}
                            /\ accepted' = accepted \ {socks[current.slot].so}
                       ELSE Live' = Live /\ accepted' = accepted
  OBVIOUS
<1> DEFINE i    == current.slot
           left == [socks[i] EXCEPT !.flags = setting.flags,
                                    !.timeout = setting.timeout]
<1>1. /\ pc = "handler" /\ i \in Slots /\ i < activeSockCount
      /\ i \in Active /\ socks[i] \in SelectSock
  BY ConstantsOK DEF HandlerReturns, IInv, TypeOK, Slots, Active
<1>2. left \in SelectSock /\ left.so = socks[i].so /\ Unused(left) = Unused(setting)
  <2>1. setting \in Interest
    BY ConstantsOK
  <2> QED
    BY <1>1, <2>1 DEF SelectSock, Interest, Unused
<1>3. /\ socks'[i] = Armed(left)
      /\ \A j \in Slots \ {i} : socks'[j] = socks[j]
  BY <1>1 DEF HandlerReturns, IInv, TypeOK
<1>4. Armed(left).so = socks[i].so /\ Unused(Armed(left)) = Unused(left)
  BY <1>2, ArmedKeeps DEF IInv, TypeOK
<1>5. Holding = Reserved /\ Holding' = Holding /\ Holding \subseteq Slots /\ i \in Holding
  BY <1>1, HoldingSlots, ConstantsOK
  DEF HandlerReturns, Holding, Reserved, IInv, CountInv, TypeOK, Active
<1>6. i \in Live
  BY <1>1, <1>5 DEF Live, IInv, CallsLiveSlot
<1>7. accepted' = IF Unused(left) THEN accepted \ {left.so} ELSE accepted
  BY DEF HandlerReturns
<1> HIDE DEF i, left
<1>8. Live' = IF Unused(left) THEN Live \ {i} ELSE Live
  BY <1>3, <1>4, <1>5, <1>6 DEF Live
<1>9. \A j \in Live : socks'[j].so = socks[j].so
  BY <1>3, <1>4, <1>5 DEF Live
<1> QED
  BY <1>2, <1>6, <1>7, <1>8, <1>9 DEF i

LEMMA LostHandler ==
  ASSUME NEW setting \in Settings
  PROVE  IInv /\ NoSockLost /\ HandlerReturns(setting) => NoSockLost'
<1> SUFFICES ASSUME IInv, NoSockLost, HandlerReturns(setting) PROVE NoSockLost'
  OBVIOUS
<1> QED
  BY LiveHandler DEF NoSockLost

LEMMA LiveStore ==
  ASSUME RaceFree, NEW t \in Actors
  PROVE  IInv /\ StoreSock(t) =>
           /\ socksReserved \in Slots \ Live
           /\ Live' = Live /\ \A i \in Live : socks'[i] = socks[i]
<1> SUFFICES ASSUME IInv, StoreSock(t)
             PROVE  /\ socksReserved \in Slots \ Live
                    /\ Live' = Live /\ \A i \in Live : socks'[i] = socks[i]
  OBVIOUS
<1>1. pc \notin {"pack", "unlock"}
  BY OneAtATime, ConstantsOK DEF StoreSock, IInv, LockInv
<1>2. /\ adding[t].seen = socksReserved /\ socksReserved \in Slots
  <2>1. adding[t].at # "idle"
    BY DEF StoreSock
  <2>2. adding[t].seen = socksReserved /\ socksReserved < Capacity
    BY <2>1 DEF IInv, CallInv
  <2>3. socksReserved \in 0 .. Capacity
    BY DEF IInv, TypeOK
  <2> QED
    BY <2>2, <2>3, ConstantsOK DEF Slots
<1>3. Holding' = Holding /\ socksReserved \notin Holding /\ Holding \subseteq Slots
  BY <1>1, HoldingSlots DEF StoreSock, Holding, Reserved, IInv, TypeOK
<1>4. \A i \in Holding : socks'[i] = socks[i]
  BY <1>2, <1>3 DEF StoreSock, ReadReserved, IInv, TypeOK
<1> QED
  BY <1>2, <1>3, <1>4 DEF Live

LEMMA LostStore ==
  ASSUME RaceFree, NEW t \in Actors
  PROVE  IInv /\ NoSockLost /\ StoreSock(t) => NoSockLost'
BY LiveStore, SameLive DEF StoreSock, history

LEMMA LiveIncrement ==
  ASSUME RaceFree, NEW t \in Actors
  PROVE  IInv /\ IncrementReserved(t) =>
           /\ socks' = socks /\ Live' = Live \cup {socksReserved}
           /\ socks[socksReserved] = adding[t].sock
           /\ accepted' = accepted \cup {adding[t].sock.so}
<1> SUFFICES ASSUME IInv, IncrementReserved(t)
             PROVE  /\ socks' = socks /\ Live' = Live \cup {socksReserved}
                    /\ socks[socksReserved] = adding[t].sock
                    /\ accepted' = accepted \cup {adding[t].sock.so}
  OBVIOUS
<1>1. pc \notin {"pack", "unlock"}
  BY OneAtATime, ConstantsOK DEF IncrementReserved, IInv, LockInv
<1>2. /\ adding[t].seen = socksReserved
      /\ socks[socksReserved] = adding[t].sock
      /\ ~Unused(adding[t].sock)
  BY DEF IncrementReserved, IInv, CallInv
<1>3. /\ socksReserved' = socksReserved + 1
      /\ socks' = socks /\ pc' = pc
      /\ accepted' = accepted \cup {adding[t].sock.so}
  BY <1>2 DEF IncrementReserved, ReadReserved
<1>4. Holding' = Holding \cup {socksReserved}
  BY <1>1, <1>3 DEF Holding, Reserved, IInv, TypeOK
<1> QED
  BY <1>2, <1>3, <1>4 DEF Live

LEMMA LostIncrement ==
  ASSUME RaceFree, NEW t \in Actors
  PROVE  IInv /\ NoSockLost /\ FreshInv /\ IncrementReserved(t) => NoSockLost'
<1> SUFFICES ASSUME IInv, NoSockLost, FreshInv, IncrementReserved(t) PROVE NoSockLost'
  OBVIOUS
<1>1. adding[t].sock.so \notin accepted
  BY DEF IncrementReserved, FreshInv
<1> QED
  BY <1>1, LiveIncrement DEF NoSockLost

LEMMA LostTick == IInv /\ NoSockLost /\ Tick => NoSockLost'
<1> SUFFICES ASSUME IInv, NoSockLost, Tick PROVE NoSockLost'
  OBVIOUS
<1>1. \A i \in Slots : Unused(socks'[i]) = Unused(socks[i]) /\ socks'[i].so = socks[i].so
  BY DEF Tick, IInv, TypeOK, SelectSock, Unused
<1>2. Holding' = Holding /\ Holding \subseteq Slots
  BY HoldingSlots DEF Tick, Holding, Reserved, packing
<1>3. Live' = Live
  BY <1>1, <1>2 DEF Live
<1> QED
  BY <1>1, <1>2, <1>3, SameLive DEF Tick, history, Live

\* The steps that leave the slots and the counts alone.
LEMMA LiveQuiet ==
  ASSUME UNCHANGED <<socks, socksReserved, activeSockCount, minSockToRemove, packFrom>>,
         pc' = pc \/ (pc # "pack" /\ pc' # "pack")
  PROVE  Live' = Live
<1>1. Holding' = Holding
  BY DEF Holding, Reserved
<1> QED
  BY <1>1 DEF Live

LEMMA LostQuiet ==
  ASSUME IInv, NoSockLost,
         UNCHANGED <<socks, socksReserved, activeSockCount, minSockToRemove,
                     packFrom, accepted>>,
         pc' = pc \/ (pc # "pack" /\ pc' # "pack")
  PROVE  NoSockLost'
BY LiveQuiet, SameLive

LEMMA FreshStep ==
  ASSUME RaceFree
  PROVE  IInv /\ FreshInv /\ [Next]_vars => FreshInv'
<1> SUFFICES ASSUME IInv, FreshInv, [Next]_vars PROVE FreshInv'
  OBVIOUS
<1>1. CASE accepted' \subseteq accepted /\ adding' = adding
  BY <1>1 DEF FreshInv
<1>2. ASSUME NEW t \in Actors, NEW so \in Sockets, NEW r \in Registrations,
             TryAddSock(t, so, r)
      PROVE  FreshInv'
  <2>1. so \notin accepted /\ accepted' = accepted
    BY <1>2 DEF TryAddSock, Free, history
  <2>2. adding' = [adding EXCEPT ![t] = [at |-> "store", sock |-> NewSock(so, r),
                                         seen |-> socksReserved]]
    BY <1>2 DEF TryAddSock
  <2> QED
    BY <2>1, <2>2, NewSockType DEF FreshInv, IInv, TypeOK
<1>3. ASSUME NEW t \in Actors, StoreSock(t) PROVE FreshInv'
  BY <1>3 DEF StoreSock, FreshInv, IInv, TypeOK, AddCall, history
<1>4. ASSUME NEW t \in Actors, IncrementReserved(t) PROVE FreshInv'
  <2>1. \A u \in Actors \ {t} : adding[u].at = "idle"
    BY <1>4, OneAtATime, ConstantsOK DEF IncrementReserved, IInv, LockInv
  <2>2. \A u \in Actors : adding'[u].at = "idle"
    BY <1>4, <2>1 DEF IncrementReserved, Idle, IInv, TypeOK
  <2> QED
    BY <2>2 DEF FreshInv
<1>5. CASE Polls
  BY <1>1, <1>5, PollsKeep
<1>6. CASE Activate \/ PackSlot \/ PackEnd \/ Unlock \/ Tick \/ UNCHANGED vars
  BY <1>1, <1>6 DEF Activate, PackSlot, PackEnd, Unlock, Tick, vars, history
<1>7. CASE Handler
  BY <1>1, <1>7 DEF Handler, HandlerReturns
<1>8. CASE \/ \E t \in Threads : LockServer(t) \/ UnlockServer(t)
           \/ \E t \in Actors : SetStopFlag(t)
  BY <1>1, <1>8 DEF LockServer, UnlockServer, SetStopFlag, history
<1> QED
  BY <1>2, <1>3, <1>4, <1>5, <1>6, <1>7, <1>8
  DEF Next, RunStep, Calls, Done, Polls, AddStep

LEMMA LostStep ==
  ASSUME RaceFree
  PROVE  IInv /\ NoSockLost /\ FreshInv /\ [Next]_vars => NoSockLost'
<1> SUFFICES ASSUME IInv, NoSockLost, FreshInv, [Next]_vars PROVE NoSockLost'
  OBVIOUS
<1>1. CASE Activate \/ PackSlot \/ PackEnd \/ Tick
  BY <1>1, LostActivate, LostPackSlot, LostPackEnd, LostTick
<1>2. CASE Handler
  BY <1>2, LostHandler DEF Handler
<1>3. ASSUME NEW t \in Actors, AddStep(t) PROVE NoSockLost'
  BY <1>3, LostStore, LostIncrement DEF AddStep
<1>4. CASE Unlock \/ UNCHANGED vars
  <2>1. /\ UNCHANGED <<socks, socksReserved, activeSockCount, minSockToRemove,
                       packFrom, accepted>>
        /\ pc' = pc \/ (pc # "pack" /\ pc' # "pack")
    BY <1>4 DEF Unlock, vars, members, packing, history
  <2> QED
    BY <2>1, LostQuiet
<1>5. CASE Polls
  <2>1. /\ UNCHANGED <<socks, socksReserved, activeSockCount, minSockToRemove,
                       packFrom, accepted>>
        /\ pc # "pack" /\ pc' # "pack"
    BY <1>5, PollsKeep DEF members, packing
  <2> QED
    BY <2>1, LostQuiet
<1>6. ASSUME NEW t \in Threads, LockServer(t) \/ UnlockServer(t) PROVE NoSockLost'
  BY <1>6, LostQuiet DEF LockServer, UnlockServer, packing, history
<1>7. ASSUME NEW t \in Actors, SetStopFlag(t) PROVE NoSockLost'
  BY <1>7, LostQuiet DEF SetStopFlag, packing, history
<1>8. ASSUME NEW t \in Actors, NEW so \in Sockets, NEW r \in Registrations,
             TryAddSock(t, so, r)
      PROVE  NoSockLost'
  BY <1>8, LostQuiet DEF TryAddSock, members, packing, history
<1> QED
  BY <1>1, <1>2, <1>3, <1>4, <1>5, <1>6, <1>7, <1>8
  DEF Next, RunStep, Calls, Done, Polls

\* Whatever handlers and other threads add, remove and have packed, the live
\* slots hold exactly the registered sockets, each of them once (cpp:28-36,
\* 151-199).
THEOREM NothingLost == ASSUME RaceFree PROVE Spec => []NoSockLost
<1> DEFINE All == IInv /\ NoSockLost /\ FreshInv
<1>1. Init => All
  BY InvInit, LostInit
<1>2. All /\ [Next]_vars => All'
  BY InvStep, LostStep, FreshStep
<1>3. All => NoSockLost
  OBVIOUS
<1> QED
  BY <1>1, <1>2, <1>3, PTL DEF Spec

=============================================================================
