---------------------------- MODULE SelectServer ----------------------------
(***************************************************************************)
(* The select loop of SelectServer.cpp: one thread runs SelectServer::Run  *)
(* over an array of SelectSock, calls the handler of every socket that     *)
(* select returns or whose timeout has passed, and packs the array once    *)
(* per pass, inside the critical section.  Handlers and other threads      *)
(* register sockets with TryAddSock and ask the loop to stop with          *)
(* SetStopFlag.                                                            *)
(*                                                                         *)
(* Run is split at the points where another thread can see or change what  *)
(* it shares: the critical section, each handler call, select itself.      *)
(* The pack loop is one action per iteration.  What a handler does to its  *)
(* own socket is a choice among Settings.                                  *)
(*                                                                         *)
(* Operators whose name ends in Fault are deliberately wrong versions of   *)
(* the definition that follows them; nothing uses them, they are there to  *)
(* be substituted when one asks whether a property would notice.           *)
(***************************************************************************)
EXTENDS Integers, FiniteSets

CONSTANTS
  Sockets,        \* the SOCKET values the system can hand out
  NoSocket,       \* what an array slot holds before its first use
  Capacity,       \* SELECT_THREAD_CAPACITY
  RunThread,      \* the thread that calls Run (and so all the handlers)
  Threads,        \* the other threads, which use a LockedSelectServer
  NoThread,       \* the critical section is free
  HandlersAdd,    \* TRUE if a handler may call TryAddSock
  Registrations,  \* the [flags, timeout] a socket may be registered with
  Settings,       \* the [flags, timeout] a handler may leave its socket with
  SelectMayFail,  \* TRUE if select may fail for a reason of the system's own
  TickMod         \* GetTickCount counts milliseconds modulo this (2^32)

INF      == TickMod - 1            \* SelectSock::INF, 0xFFFFFFFF
HalfTick == (TickMod \div 2) - 1   \* 0x7FFFFFFF
Ticks    == 0 .. (TickMod - 1)
Slots    == 0 .. (Capacity - 1)
Events   == {"read", "write", "error"}
Interest == [flags : SUBSET Events, timeout : Ticks]

\* "Remove sockets that have no flags and an infinite timeout".
Unused(s) == s.flags = {} /\ s.timeout = INF

ASSUME ConstantsOK ==
  /\ Capacity \in Nat \ {0}
  /\ NoSocket \notin Sockets
  /\ RunThread \notin Threads
  /\ NoThread \notin Threads \cup {RunThread}
  /\ HandlersAdd \in BOOLEAN /\ SelectMayFail \in BOOLEAN
  /\ TickMod \in Nat /\ TickMod >= 4
  /\ Registrations \subseteq Interest
  /\ \A r \in Registrations : ~Unused(r)   \* TryAddSock's stated assumption
  /\ Settings \subseteq Interest

\* The three fd_sets in the order of setProps: index, event, HandledState.
setProps == [s \in 0 .. 2 |->
  CASE s = 0 -> [flag |-> "read",  handled |-> 1]
    [] s = 1 -> [flag |-> "write", handled |-> 1]
    [] s = 2 -> [flag |-> "error", handled |-> 2]]

Actors == Threads \cup {RunThread}

\* A SelectSock; age is a history field: milliseconds since the timer was
\* last started, counted up to TickMod.
SelectSock == [so : Sockets \cup {NoSocket}, flags : SUBSET Events,
               timeout : Ticks, tick : Ticks, age : 0 .. TickMod]
EmptySlot  == [so |-> NoSocket, flags |-> {}, timeout |-> INF,
               tick |-> 0, age |-> 0]
NewSock(so, r) == [so |-> so, flags |-> r.flags, timeout |-> r.timeout,
                   tick |-> 0, age |-> 0]

\* Progress of a TryAddSock call: where it is, the socket it adds, and the
\* value of socksReserved its capacity check read.
Idle    == [at |-> "idle", sock |-> EmptySlot, seen |-> 0]
AddCall == [at : {"idle", "store", "increment"}, sock : SelectSock,
            seen : 0 .. Capacity]

VARIABLES
  \* members of SelectServer, shared between threads
  socks, socksReserved, stopFlag, lock,
  \* locals of Run
  pc, activeSockCount, minSockToRemove, packFrom,
  minTimeDiff, sets, setIndex, hint, handled, sweepNow, sweep, current,
  \* TryAddSock calls in progress
  adding,
  \* GetTickCount
  now,
  \* history: sockets TryAddSock accepted and whose handler has not dropped
  \* them since; reasons each slot's handler was called for after a select
  accepted, called

members == <<socks, socksReserved, stopFlag, lock>>
packing == <<activeSockCount, minSockToRemove, packFrom>>
polling == <<minTimeDiff, sets, setIndex, hint, handled, sweepNow, sweep,
             current>>
history == <<accepted, called>>
vars    == <<members, pc, packing, polling, adding, now, history>>

NoSets == [s \in 0 .. 2 |-> {}]
NoCall == [slot |-> Capacity, reason |-> "none"]
Zeroed == [i \in Slots |-> 0]
NotCalled == [i \in Slots |-> {}]

-----------------------------------------------------------------------------
(* Pure helpers. *)

\* timeoutTickCount - now, as a DWORD.
TicksLeft(sock, time) == (sock.tick - time) % TickMod

HasTimer(sock) == sock.timeout # INF

\* Compares the tick counts themselves, forgetting that they wrap.
OverdueFault(sock, time) == sock.tick =< time

\* A difference of 0x7FFFFFFF or more is read as "in the past".
Overdue(sock, time) == TicksLeft(sock, time) >= HalfTick

Delay(sock, time) == IF Overdue(sock, time) THEN 0 ELSE TicksLeft(sock, time)

Least(S) == CHOOSE i \in S : \A j \in S : i =< j

\* Index of socket so among the first count slots, count if it is not there:
\* from the hint to the end, then from the start to the hint.
Find(count, ss, so, outHint) ==
  LET Matches(from, to) == {i \in from .. (to - 1) : ss[i].so = so}
      ahead  == Matches(outHint, count)
      behind == Matches(0, outHint)
  IN  IF ahead # {} THEN Least(ahead)
      ELSE IF behind # {} THEN Least(behind) ELSE count

Active   == 0 .. (activeSockCount - 1)
Reserved == 0 .. (socksReserved - 1)

\* Start the timer of a socket: timeoutTickCount = GetTickCount() + timeout.
Armed(sock) == IF HasTimer(sock)
               THEN [sock EXCEPT !.tick = (now + sock.timeout) % TickMod,
                                 !.age = 0]
               ELSE [sock EXCEPT !.age = 0]

-----------------------------------------------------------------------------
(* Run: the critical section. *)

\* Goes on without the lock.
EnterCriticalSectionFault == UNCHANGED lock

EnterCriticalSection == lock = NoThread /\ lock' = RunThread

\* Appends one reserved socket per pass.
AppendedFault == IF socksReserved > activeSockCount THEN activeSockCount + 1
                 ELSE activeSockCount

\* activeSockCount once the reserved sockets are active.
Appended == IF socksReserved > activeSockCount THEN socksReserved
            ELSE activeSockCount

\* Take the lock and make the reserved sockets active.
Activate ==
  /\ pc = "top"
  /\ EnterCriticalSection
  /\ socks' = [i \in Slots |-> IF i \in activeSockCount .. (Appended - 1)
                              THEN Armed(socks[i]) ELSE socks[i]]
  /\ activeSockCount' = Appended
  /\ IF minSockToRemove # Capacity
     THEN pc' = "pack" /\ packFrom' = minSockToRemove + 1
     ELSE pc' = "unlock" /\ UNCHANGED packFrom
  /\ UNCHANGED <<socksReserved, stopFlag, minSockToRemove, polling, adding,
                 now, history>>

\* Keeps the unused slots too.
SkippedFault(sock) == FALSE

\* Skips a slot that has no flags, though it has a timeout.
SkippedTimerFault(sock) == sock.flags = {}

Skipped(sock) == Unused(sock)

\* One iteration of the pack loop: skip the slot, or move it down.
PackSlot ==
  /\ pc = "pack" /\ packFrom < activeSockCount
  /\ packFrom' = packFrom + 1
  /\ IF Skipped(socks[packFrom])
     THEN UNCHANGED <<socks, minSockToRemove>>
     ELSE /\ socks' = [socks EXCEPT ![minSockToRemove] = socks[packFrom]]
          /\ minSockToRemove' = minSockToRemove + 1
  /\ UNCHANGED <<socksReserved, stopFlag, lock, pc, activeSockCount, polling,
                 adding, now, history>>

\* Leaves the reserved count where it was.
PackedReservedFault == socksReserved

\* Drops the last of the packed slots.
PackedReservedLessFault == IF minSockToRemove > 0 THEN minSockToRemove - 1 ELSE 0

\* socksReserved once the slots are packed.
PackedReserved == minSockToRemove

PackEnd ==
  /\ pc = "pack" /\ packFrom >= activeSockCount
  /\ activeSockCount' = minSockToRemove
  /\ socksReserved' = PackedReserved
  /\ minSockToRemove' = Capacity
  /\ packFrom' = 0
  /\ pc' = "unlock"
  /\ UNCHANGED <<socks, stopFlag, lock, polling, adding, now, history>>

\* Does not look at the stop flag.
MustStopFault == FALSE

MustStop == stopFlag

\* Leave the critical section: out of the loop if the stop flag is set.
Unlock ==
  /\ pc = "unlock"
  /\ lock' = NoThread
  /\ pc' = IF MustStop THEN "stopped" ELSE "test"
  /\ UNCHANGED <<socks, socksReserved, stopFlag, packing, polling, adding,
                 now, history>>

-----------------------------------------------------------------------------
(* Run: the select call. *)

\* Run returns 0 when there is nothing to wait for.
NoMoreSockets ==
  /\ pc = "test" /\ activeSockCount = 0
  /\ pc' = "stopped"
  /\ UNCHANGED <<members, packing, polling, adding, now, history>>

\* The delay of the first timer, whatever the others say.
MinTimeDiffFault ==
  LET timers == {i \in Active : HasTimer(socks[i])}
  IN  IF timers = {} THEN INF ELSE Delay(socks[Least(timers)], now)

\* minTimeDiff: the least delay of the active timers, INF if there is none.
MinTimeDiff ==
  LET delays == {Delay(socks[i], now) : i \in {j \in Active : HasTimer(socks[j])}}
  IN  IF delays = {} THEN INF ELSE Least(delays)

\* Fill the three sets and compute the timeout of select.
SetupSelect ==
  /\ pc = "test" /\ activeSockCount > 0
  /\ sets' = [s \in 0 .. 2 |-> {socks[i].so : i \in
                {j \in Active : setProps[s].flag \in socks[j].flags}}]
  /\ minTimeDiff' = MinTimeDiff
  /\ pc' = "select"
  /\ UNCHANGED <<members, packing, setIndex, hint, handled, sweepNow, sweep,
                 current, adding, now, history>>

\* select leaves in each set the sockets that are ready.
SelectPops ==
  /\ pc = "select"
  /\ \E ready \in [0 .. 2 -> SUBSET Sockets] :
       /\ \A s \in 0 .. 2 : ready[s] \subseteq sets[s]
       /\ \E s \in 0 .. 2 : ready[s] # {}
       /\ sets' = ready
  /\ setIndex' = 2
  /\ hint' = 0
  /\ handled' = Zeroed
  /\ pc' = "popped"
  /\ UNCHANGED <<members, packing, minTimeDiff, sweepNow, sweep, current,
                 adding, now, history>>

\* select returns 0: a timeout was given and has passed (or, the system's
\* timer being coarse, may be about to).
SelectTimesOut ==
  /\ pc = "select" /\ minTimeDiff # INF /\ sets # NoSets
  /\ sets' = NoSets
  /\ handled' = Zeroed
  /\ pc' = "sweep"
  /\ sweepNow' = now
  /\ sweep' = 0
  /\ UNCHANGED <<members, packing, minTimeDiff, setIndex, hint, current,
                 adding, now, history>>

\* select returns an error, and Run returns 1.  Winsock refuses a call whose
\* three sets are all empty, whatever the timeout (WSAEINVAL).
SelectFails ==
  /\ pc = "select" /\ (SelectMayFail \/ sets = NoSets)
  /\ pc' = "failed"
  /\ UNCHANGED <<members, packing, polling, adding, now, history>>

-----------------------------------------------------------------------------
(* Run: calling handlers. *)

\* The locals of one pass go out of use; the next pass begins.
EndPass ==
  /\ pc' = "top"
  /\ minTimeDiff' = INF
  /\ sets' = NoSets
  /\ setIndex' = 0
  /\ hint' = 0
  /\ handled' = Zeroed
  /\ sweepNow' = 0
  /\ sweep' = 0
  /\ called' = NotCalled

\* Looks at the timers only when select popped nothing.
SweepsFault == minTimeDiff # INF /\ called = NotCalled

Sweeps == minTimeDiff # INF

\* On to the next set; after the read set, to the timers if there are any.
NextSet ==
  /\ pc = "popped" /\ sets[setIndex] = {}
  /\ IF setIndex > 0
     THEN /\ setIndex' = setIndex - 1
          /\ hint' = 0
          /\ UNCHANGED <<pc, minTimeDiff, sets, handled, sweepNow, sweep, called>>
     ELSE IF Sweeps
     THEN /\ pc' = "sweep"
          /\ sweepNow' = now
          /\ sweep' = 0
          /\ UNCHANGED <<minTimeDiff, sets, setIndex, hint, handled, called>>
     ELSE EndPass
  /\ UNCHANGED <<members, packing, current, adding, now, accepted>>

\* Does not look at the flags again.
PassedOverFlagFault(i) ==
  \/ i = activeSockCount
  \/ handled[i] > setProps[setIndex].handled

\* Does not look at which handlers were called.
PassedOverHandledFault(i) ==
  \/ i = activeSockCount
  \/ setProps[setIndex].flag \notin socks[i].flags

\* A popped socket is passed over if it is unknown, if a handler that rules
\* this one out was called, or if a handler removed the flag meanwhile.
PassedOver(i) ==
  \/ i = activeSockCount
  \/ handled[i] > setProps[setIndex].handled
  \/ setProps[setIndex].flag \notin socks[i].flags

\* Take one popped socket: pass it over, or enter its handler.
TakePopped(so) ==
  LET i == Find(activeSockCount, socks, so, hint) IN
  /\ pc = "popped" /\ so \in sets[setIndex]
  /\ sets' = [sets EXCEPT ![setIndex] = @ \ {so}]
  /\ hint' = IF i = activeSockCount THEN hint ELSE i + 1
  /\ IF PassedOver(i)
     THEN UNCHANGED <<pc, current, called>>
     ELSE /\ pc' = "handler"
          /\ current' = [slot |-> i, reason |-> setProps[setIndex].flag]
          /\ called' = [called EXCEPT ![i] = @ \cup {setProps[setIndex].flag}]
  /\ UNCHANGED <<members, packing, minTimeDiff, setIndex, handled, sweepNow,
                 sweep, adding, now, accepted>>

\* Does not look at which handlers were called.
TimerFiresFault(i) ==
  /\ HasTimer(socks[i])
  /\ Overdue(socks[i], sweepNow)

\* The timer loop calls the handler of slot i.
TimerFires(i) ==
  /\ HasTimer(socks[i])
  /\ Overdue(socks[i], sweepNow)
  /\ handled[i] = 0

\* Leaves the loop after one call.
SweepAfterFault(i) == activeSockCount

SweepAfter(i) == i + 1

\* The timer loop runs on to the next slot whose handler it calls.
CallTimeout ==
  /\ pc = "sweep"
  /\ \E i \in sweep .. (activeSockCount - 1) :
       /\ TimerFires(i)
       /\ \A j \in sweep .. (i - 1) : ~TimerFires(j)
       /\ current' = [slot |-> i, reason |-> "timeout"]
       /\ called' = [called EXCEPT ![i] = @ \cup {"timeout"}]
       /\ sweep' = SweepAfter(i)
  /\ pc' = "handler"
  /\ UNCHANGED <<members, packing, minTimeDiff, sets, setIndex, hint, handled,
                 sweepNow, adding, now, accepted>>

EndSweep ==
  /\ pc = "sweep"
  /\ \A i \in sweep .. (activeSockCount - 1) : ~TimerFires(i)
  /\ EndPass
  /\ UNCHANGED <<members, packing, current, adding, now, accepted>>

\* Keeps the last slot instead of the first.
MarkRemovedFault(i) == i

\* minSockToRemove after the handler left slot i without flags or timer.
MarkRemoved(i) == IF i < minSockToRemove THEN i ELSE minSockToRemove

\* The handler returns, having set the flags and the timeout of its own
\* socket; Run notes that it was called, restarts its timer, or marks it for
\* removal.
HandlerReturns(setting) ==
  LET i    == current.slot
      left == [socks[i] EXCEPT !.flags = setting.flags,
                               !.timeout = setting.timeout]
  IN
  /\ pc = "handler" /\ adding[RunThread].at = "idle"
  /\ socks' = [socks EXCEPT ![i] = Armed(left)]
  /\ IF Unused(left)
     THEN /\ minSockToRemove' = MarkRemoved(i)
          /\ accepted' = accepted \ {left.so}
     ELSE UNCHANGED <<minSockToRemove, accepted>>
  /\ IF current.reason = "timeout"
     THEN pc' = "sweep" /\ UNCHANGED handled
     ELSE /\ pc' = "popped"
          /\ handled' = [handled EXCEPT ![i] = setProps[setIndex].handled]
  /\ current' = NoCall
  /\ UNCHANGED <<socksReserved, stopFlag, lock, activeSockCount, packFrom,
                 minTimeDiff, sets, setIndex, hint, sweepNow, sweep, adding,
                 now, called>>

-----------------------------------------------------------------------------
(* What handlers and other threads call. *)

\* Another thread creates and destroys a LockedSelectServer.
LockServer(t) ==
  /\ lock = NoThread
  /\ lock' = t
  /\ UNCHANGED <<socks, socksReserved, stopFlag, pc, packing, polling, adding,
                 now, history>>

UnlockServer(t) ==
  /\ lock = t /\ adding[t].at = "idle"
  /\ lock' = NoThread
  /\ UNCHANGED <<socks, socksReserved, stopFlag, pc, packing, polling, adding,
                 now, history>>

\* Handlers get a SynchronizedSelectServer, which takes no lock.
HasServer(t) == IF t = RunThread THEN pc = "handler" ELSE lock = t

SetStopFlag(t) ==
  /\ HasServer(t)
  /\ stopFlag' = TRUE
  /\ UNCHANGED <<socks, socksReserved, lock, pc, packing, polling, adding, now,
                 history>>

\* A socket the system may hand out now: nobody has it open.
Free(so) ==
  /\ so \notin accepted
  /\ \A t \in Actors : adding[t].sock.so # so

\* Off by one.
FullFault == socksReserved > Capacity

\* Off by one, the other way.
FullEarlyFault == socksReserved + 1 >= Capacity

Full == socksReserved >= Capacity

\* TryAddSock, capacity check passed.  (A full server only returns TRUE.)
TryAddSock(t, so, r) ==
  /\ HasServer(t) /\ adding[t].at = "idle"
  /\ t = RunThread => HandlersAdd
  /\ Free(so)
  /\ ~Full
  /\ adding' = [adding EXCEPT ![t] = [at   |-> "store", sock |-> NewSock(so, r),
                                      seen |-> socksReserved]]
  /\ UNCHANGED <<members, pc, packing, polling, now, history>>

\* The two later uses of socksReserved: the compiler may keep the value that
\* the check read, or read it again.
ReadReserved(t) == {adding[t].seen, socksReserved}

StoreSock(t) ==
  /\ adding[t].at = "store"
  /\ \E i \in ReadReserved(t) :
       socks' = IF i \in Slots THEN [socks EXCEPT ![i] = adding[t].sock] ELSE socks
  /\ adding' = [adding EXCEPT ![t].at = "increment"]
  /\ UNCHANGED <<socksReserved, stopFlag, lock, pc, packing, polling, now, history>>

IncrementReserved(t) ==
  /\ adding[t].at = "increment"
  /\ \E n \in ReadReserved(t) : socksReserved' = n + 1
  /\ accepted' = accepted \cup {adding[t].sock.so}
  /\ adding' = [adding EXCEPT ![t] = Idle]
  /\ UNCHANGED <<socks, stopFlag, lock, pc, packing, polling, now, called>>

-----------------------------------------------------------------------------
(* The clock.  It is read only to start or compare timers, so it stands     *)
(* still while none runs.  LagBound: the loop never lets a timer go so far  *)
(* overdue (2^31 ms, 24 days) that its difference turns positive again.     *)

Running == {i \in Active : HasTimer(socks[i])}

Tick ==
  /\ Running # {}
  /\ \A i \in Running : TicksLeft(socks[i], now) # HalfTick
  /\ now' = (now + 1) % TickMod
  /\ socks' = [i \in Slots |-> IF i \in Running /\ socks[i].age < TickMod
                              THEN [socks[i] EXCEPT !.age = @ + 1] ELSE socks[i]]
  /\ UNCHANGED <<socksReserved, stopFlag, lock, pc, packing, polling, adding,
                 history>>

-----------------------------------------------------------------------------
\* RunNbdServer calls Run with one socket registered.
Init ==
  /\ \E so \in Sockets, r \in Registrations :
       /\ socks = [i \in Slots |-> IF i = 0 THEN NewSock(so, r) ELSE EmptySlot]
       /\ accepted = {so}
  /\ socksReserved = 1
  /\ stopFlag = FALSE
  /\ lock = NoThread
  /\ pc = "top"
  /\ activeSockCount = 0
  /\ minSockToRemove = Capacity
  /\ packFrom = 0
  /\ minTimeDiff = INF
  /\ sets = NoSets
  /\ setIndex = 0
  /\ hint = 0
  /\ handled = Zeroed
  /\ sweepNow = 0
  /\ sweep = 0
  /\ current = NoCall
  /\ adding = [t \in Actors |-> Idle]
  /\ now \in Ticks
  /\ called = NotCalled

Returned == pc \in {"stopped", "failed"}

\* The process exits when Run returns.
Done == Returned /\ UNCHANGED vars

\* Steps of Run that wait for nobody but the lock.
RunStep ==
  \/ Activate \/ PackSlot \/ PackEnd \/ Unlock
  \/ NoMoreSockets \/ SetupSelect
  \/ NextSet \/ CallTimeout \/ EndSweep
  \/ \E so \in Sockets : TakePopped(so)

Select == SelectPops \/ SelectTimesOut \/ SelectFails

Handler == \E setting \in Settings : HandlerReturns(setting)

AddStep(t) == StoreSock(t) \/ IncrementReserved(t)

Calls ==
  \/ \E t \in Threads : LockServer(t) \/ UnlockServer(t)
  \/ \E t \in Actors : SetStopFlag(t) \/ AddStep(t)
  \/ \E t \in Actors, so \in Sockets, r \in Registrations : TryAddSock(t, so, r)

Next == RunStep \/ Select \/ Handler \/ Calls \/ Tick \/ Done

Spec == Init /\ [][Next]_vars

\* Every party that is never kept waiting moves on: Run between its waits,
\* handlers, TryAddSock, the clock, and select when it has a timeout.
FairSpec ==
  /\ Spec
  /\ WF_vars(RunStep) /\ WF_vars(Handler) /\ WF_vars(Tick)
  /\ WF_vars(SelectTimesOut) /\ WF_vars(SelectFails)
  /\ \A t \in Actors : WF_vars(AddStep(t))
=============================================================================
