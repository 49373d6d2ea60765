-------------------------- MODULE SelectCallProofs --------------------------
(***************************************************************************)
(* What one pass of Run does with its handlers, and what a program with    *)
(* one thread can rely on: proved from the invariant of                    *)
(* SelectServerProofs.                                                     *)
(***************************************************************************)
EXTENDS SelectServerProofs

-----------------------------------------------------------------------------
(* One pass: which handlers were called and what Run noted of it. *)

\* From the return of select to the end of the pass.
InPass == pc \in {"popped", "handler", "sweep"}

\* The sets are done with and Run looks at the timers.
Sweeping == pc = "sweep" \/ (pc = "handler" /\ current.reason = "timeout")

\* A slot whose handler does not run: the HandledState tells what the handler
\* was called for, and the timer loop does not come back to a slot.
Noted(i) ==
  /\ handled[i] = 0 => \/ called[i] = {}
                       \/ Sweeping /\ i < sweep /\ called[i] = {"timeout"}
  /\ handled[i] = 1 => called[i] \subseteq {"read", "write"}
  /\ handled[i] = 2 => called[i] = {"error"}

\* The slot whose handler runs.
Served(i) ==
  IF current.reason = "timeout"
  THEN handled[i] = 0 /\ i < sweep /\ called[i] = {"timeout"}
  ELSE /\ current.reason = setProps[setIndex].flag
       /\ IF setIndex = 2 THEN called[i] = {"error"}
          ELSE called[i] \subseteq {"read", "write"}

\* Errors come first: while the error set is looked at no other handler has
\* been called.
PassInv ==
  /\ ~InPass => called = NotCalled
  /\ InPass => \A i \in Slots : IF pc = "handler" /\ i = current.slot
                                THEN Served(i) ELSE Noted(i)
  /\ InPass /\ ~Sweeping /\ setIndex = 2 => \A i \in Slots : handled[i] # 1

\* The flag and the handled state of each of the three sets, one by one.
LEMMA SetPropsValues ==
  /\ setProps[0] = [flag |-> "read", handled |-> 1]
  /\ setProps[1] = [flag |-> "write", handled |-> 1]
  /\ setProps[2] = [flag |-> "error", handled |-> 2]
BY DEF setProps

LEMMA PassInit == Init => PassInv
BY DEF Init, PassInv, InPass

LEMMA PassTakePopped ==
  ASSUME NEW so \in Sockets
  PROVE  IInv /\ PassInv /\ TakePopped(so) => PassInv'
<1> SUFFICES ASSUME IInv, PassInv, TakePopped(so) PROVE PassInv'
  OBVIOUS
<1>2. PICK i \in 0 .. activeSockCount : i = Find(activeSockCount, socks, so, hint)
  BY FindCorrect DEF IInv, TypeOK, CountInv
<1>1. /\ pc = "popped" /\ UNCHANGED <<setIndex, handled, sweep>>
      /\ \/ pc' = "popped" /\ UNCHANGED <<current, called>>
         \/ /\ pc' = "handler"
            /\ i # activeSockCount /\ ~(handled[i] > setProps[setIndex].handled)
            /\ current' = [slot |-> i, reason |-> setProps[setIndex].flag]
            /\ called' = [called EXCEPT ![i] = @ \cup {setProps[setIndex].flag}]
  BY <1>2 DEF TakePopped, PassedOver
<1>3. CASE pc' = "popped" /\ UNCHANGED <<current, called>>
  BY <1>1, <1>3 DEF PassInv, InPass, Sweeping, Noted
<1>4. CASE pc' = "handler"
  <2>1. i \in Slots /\ setIndex \in 0 .. 2 /\ handled[i] \in 0 .. 2
    BY <1>1, <1>2, <1>4, ConstantsOK DEF IInv, TypeOK, Slots
  <2>2. called' = [called EXCEPT ![i] = @ \cup {setProps[setIndex].flag}]
        /\ current' = [slot |-> i, reason |-> setProps[setIndex].flag]
        /\ handled[i] =< setProps[setIndex].handled
    BY <1>1, <1>4, <2>1, SetPropsValues
  <2>3. current'.reason # "timeout" /\ ~Sweeping' /\ ~Sweeping
    BY <1>1, <1>4, <2>1, <2>2, SetPropsValues DEF Sweeping
  <2>4. Served(i)'
    <3>1. Noted(i) /\ (setIndex = 2 => handled[i] # 1)
      BY <1>1, <2>1, <2>3 DEF PassInv, InPass
    <3>2. called'[i] = called[i] \cup {setProps[setIndex].flag}
      BY <2>1, <2>2 DEF IInv, TypeOK
    <3>3. IF setIndex = 2 THEN called'[i] = {"error"}
          ELSE called'[i] \subseteq {"read", "write"}
      BY <2>1, <2>2, <2>3, <3>1, <3>2, SetPropsValues DEF Noted
    <3> QED
      BY <1>1, <2>2, <2>3, <3>3 DEF Served
  <2>5. \A j \in Slots \ {i} : Noted(j)'
    <3>1. \A j \in Slots \ {i} : Noted(j) /\ called'[j] = called[j]
      BY <1>1, <2>1, <2>2 DEF PassInv, InPass, IInv, TypeOK
    <3> QED
      BY <1>1, <2>3, <3>1 DEF Noted
  <2> QED
    BY <1>1, <1>4, <2>2, <2>3, <2>4, <2>5 DEF PassInv, InPass
<1> QED
  BY <1>1, <1>3, <1>4

LEMMA PassCallTimeout == IInv /\ PassInv /\ CallTimeout => PassInv'
<1> SUFFICES ASSUME IInv, PassInv, CallTimeout PROVE PassInv'
  OBVIOUS
<1>1. PICK i \in sweep .. (activeSockCount - 1) :
        /\ handled[i] = 0
        /\ current' = [slot |-> i, reason |-> "timeout"]
        /\ called' = [called EXCEPT ![i] = @ \cup {"timeout"}]
        /\ sweep' = i + 1
  BY DEF CallTimeout, SweepAfter, TimerFires
<1>2. pc = "sweep" /\ pc' = "handler" /\ UNCHANGED <<setIndex, handled>>
  BY DEF CallTimeout
<1>3. i \in Slots /\ sweep \in Nat /\ i >= sweep /\ i < i + 1
  BY ConstantsOK DEF IInv, TypeOK, Slots
<1>4. Sweeping /\ Sweeping'
  BY <1>1, <1>2 DEF Sweeping
<1>5. \A j \in Slots : Noted(j) /\ called'[j] = IF j = i THEN called[j] \cup {"timeout"}
                                                ELSE called[j]
  BY <1>1, <1>2, <1>3 DEF PassInv, InPass, IInv, TypeOK
<1>6. Served(i)'
  <2>1. called'[i] = {"timeout"}
    BY <1>1, <1>3, <1>5 DEF Noted
  <2> QED
    BY <1>1, <1>2, <1>3, <2>1 DEF Served
<1>7. \A j \in Slots \ {i} : Noted(j)'
  <2>1. \A j \in Slots : j < sweep => j < sweep'
    BY <1>1, <1>3 DEF Slots
  <2>2. \A j \in Slots \ {i} : called'[j] = called[j] /\ handled'[j] = handled[j]
    BY <1>2, <1>5
  <2> QED
    BY <1>4, <1>5, <2>1, <2>2 DEF Noted
<1> QED
  BY <1>1, <1>2, <1>4, <1>6, <1>7 DEF PassInv, InPass

LEMMA PassHandler ==
  ASSUME NEW setting \in Settings
  PROVE  IInv /\ PassInv /\ HandlerReturns(setting) => PassInv'
<1> SUFFICES ASSUME IInv, PassInv, HandlerReturns(setting) PROVE PassInv'
  OBVIOUS
<1>0. PICK i \in Slots : i = current.slot
  BY ConstantsOK DEF HandlerReturns, IInv, TypeOK, Active, Slots
<1>1. /\ pc = "handler" /\ UNCHANGED <<setIndex, sweep, called>>
      /\ IF current.reason = "timeout" THEN pc' = "sweep" /\ handled' = handled
         ELSE /\ pc' = "popped"
              /\ handled' = [handled EXCEPT ![i] = setProps[setIndex].handled]
  BY <1>0 DEF HandlerReturns
<1>2. setIndex \in 0 .. 2
  BY DEF IInv, TypeOK
<1>3. Served(i) /\ \A j \in Slots \ {i} : Noted(j)
  BY <1>0, <1>1 DEF PassInv, InPass
<1>4. CASE current.reason = "timeout"
  <2>1. Sweeping /\ Sweeping'
    BY <1>1, <1>4 DEF Sweeping
  <2>2. \A j \in Slots : Noted(j)'
    BY <1>1, <1>3, <1>4, <2>1 DEF Noted, Served
  <2> QED
    BY <1>1, <1>4, <2>1, <2>2 DEF PassInv, InPass
<1>5. CASE current.reason # "timeout"
  <2>1. ~Sweeping /\ ~Sweeping'
    BY <1>1, <1>5 DEF Sweeping
  <2>2. \A j \in Slots : handled'[j] = IF j = i THEN setProps[setIndex].handled
                                       ELSE handled[j]
    BY <1>1, <1>2, <1>5 DEF IInv, TypeOK
  <2>3. Noted(i)'
    BY <1>1, <1>2, <1>3, <1>5, <2>2, SetPropsValues DEF Noted, Served
  <2>4. \A j \in Slots \ {i} : Noted(j)'
    BY <1>1, <1>3, <2>1, <2>2 DEF Noted
  <2>5. setIndex' = 2 => \A j \in Slots : handled'[j] # 1
    BY <1>1, <1>2, <2>1, <2>2, SetPropsValues DEF PassInv, InPass
  <2> QED
    BY <1>1, <1>5, <2>3, <2>4, <2>5 DEF PassInv, InPass
<1> QED
  BY <1>4, <1>5

LEMMA PassStep == IInv /\ PassInv /\ [Next]_vars => PassInv'
<1> SUFFICES ASSUME IInv, PassInv, [Next]_vars PROVE PassInv'
  OBVIOUS
<1>1. CASE UNCHANGED <<pc, setIndex, handled, sweep, current, called>>
  BY <1>1 DEF PassInv, InPass, Sweeping, Noted, Served
<1>2. CASE ~InPass /\ ~InPass' /\ called' = called
  BY <1>2 DEF PassInv
<1>3. CASE SelectPops
  <2>1. /\ pc' = "popped" /\ called' = NotCalled /\ handled' = Zeroed
    BY <1>3 DEF SelectPops, PassInv, InPass, history
  <2> QED
    BY <2>1 DEF PassInv, InPass, Noted, NotCalled, Zeroed
<1>4. CASE SelectTimesOut
  <2>1. /\ pc' = "sweep" /\ called' = NotCalled /\ handled' = Zeroed
    BY <1>4 DEF SelectTimesOut, PassInv, InPass, history
  <2> QED
    BY <2>1 DEF PassInv, InPass, Noted, NotCalled, Zeroed, Sweeping
<1>5. CASE NextSet
  <2>1. pc = "popped" /\ setIndex \in 0 .. 2
    BY <1>5 DEF NextSet, IInv, TypeOK
  <2>2. CASE pc' = "popped" /\ setIndex' = setIndex - 1 /\ UNCHANGED <<handled, sweep, called>>
    BY <2>1, <2>2 DEF PassInv, InPass, Sweeping, Noted
  <2>3. CASE pc' = "sweep" /\ UNCHANGED <<handled, called>>
    BY <2>1, <2>3 DEF PassInv, InPass, Sweeping, Noted
  <2>4. CASE EndPass
    BY <2>4 DEF EndPass, PassInv, InPass
  <2> QED
    BY <1>5, <2>1, <2>2, <2>3, <2>4 DEF NextSet
<1>6. CASE EndSweep
  BY <1>6 DEF EndSweep, EndPass, PassInv, InPass
<1>7. CASE Activate \/ PackSlot \/ PackEnd \/ Unlock \/ NoMoreSockets \/ SetupSelect \/ SelectFails
  BY <1>2, <1>7 DEF Activate, PackSlot, PackEnd, Unlock, NoMoreSockets, SetupSelect,
                    SelectFails, InPass, history
<1>8. CASE Handler
  BY <1>8, PassHandler DEF Handler
<1>9. CASE Calls
  BY <1>1, <1>9 DEF Calls, LockServer, UnlockServer, SetStopFlag, AddStep, StoreSock,
                    IncrementReserved, TryAddSock, polling, history
<1>10. CASE Tick \/ UNCHANGED vars
  BY <1>1, <1>10 DEF Tick, vars, polling, history
<1> QED
  BY <1>3, <1>4, <1>5, <1>6, <1>7, <1>8, <1>9, <1>10, PassTakePopped, PassCallTimeout
  DEF Next, RunStep, Select, Done

\* Within a pass no handler is called for an error after a read or a write,
\* for a read or a write after an error, or for a timeout after any of them,
\* nor twice for a timeout (cpp:68-78, h:28-35).
THEOREM DisciplineKept == ASSUME RaceFree PROVE Spec => []CallDiscipline
<1> DEFINE All == IInv /\ PassInv
<1>1. Init => All
  BY InvInit, PassInit
<1>2. All /\ [Next]_vars => All'
  BY InvStep, PassStep
<1>3. All => CallDiscipline
  <2> SUFFICES ASSUME IInv, PassInv, NEW i \in Slots
               PROVE  /\ "error" \in called[i] => called[i] = {"error"}
                      /\ "timeout" \in called[i] => called[i] = {"timeout"}
    BY DEF CallDiscipline
  <2>1. handled[i] \in 0 .. 2
    BY DEF IInv, TypeOK
  <2> QED
    BY <2>1 DEF PassInv, Noted, Served, NotCalled
<1> QED
  BY <1>1, <1>2, <1>3, PTL DEF Spec

-----------------------------------------------------------------------------
(* One thread: between the critical section and the end of select nobody     *)
(* adds a socket or sets the stop flag.                                      *)

\* Only the thread of Run uses the server, from its handlers.
SingleThread == Threads = {}

AloneInv ==
  pc \in {"unlock", "test", "select"} =>
    /\ activeSockCount = socksReserved
    /\ pc # "unlock" => ~stopFlag

LEMMA AloneStep ==
  ASSUME SingleThread
  PROVE  IInv /\ AloneInv /\ [Next]_vars => AloneInv'
<1> SUFFICES ASSUME IInv, AloneInv, [Next]_vars PROVE AloneInv'
  OBVIOUS
<1>1. CASE Activate
  BY <1>1, ConstantsOK DEF Activate, Appended, AloneInv, IInv, TypeOK, CountInv
<1>2. CASE PackSlot
  BY <1>2 DEF PackSlot, AloneInv
<1>3. CASE PackEnd
  BY <1>3 DEF PackEnd, PackedReserved, AloneInv
<1>4. CASE Unlock
  BY <1>4 DEF Unlock, MustStop, AloneInv, packing
<1>5. CASE SetupSelect
  BY <1>5 DEF SetupSelect, AloneInv, members, packing
<1>6. CASE NoMoreSockets \/ Select \/ NextSet \/ EndSweep
  BY <1>6 DEF NoMoreSockets, Select, SelectPops, SelectTimesOut, SelectFails,
              NextSet, EndSweep, EndPass, AloneInv
<1>7. CASE CallTimeout \/ \E so \in Sockets : TakePopped(so)
  BY <1>7 DEF CallTimeout, TakePopped, AloneInv
<1>8. CASE Handler
  BY <1>8 DEF Handler, HandlerReturns, AloneInv
<1>9. CASE Calls
  <2>1. pc = "handler" /\ pc' = pc
    BY <1>9, ConstantsOK
    DEF SingleThread, Calls, Actors, LockServer, UnlockServer, SetStopFlag, HasServer,
        AddStep, StoreSock, IncrementReserved, TryAddSock, IInv, LockInv
  <2> QED
    BY <2>1 DEF AloneInv
<1>10. CASE Tick \/ UNCHANGED vars
  BY <1>10 DEF Tick, vars, members, packing, AloneInv
<1> QED
  BY <1>1, <1>2, <1>3, <1>4, <1>5, <1>6, <1>7, <1>8, <1>9, <1>10
  DEF Next, RunStep, Done

\* Everything known of a program with one thread.
AllAlone == IInv /\ NoSockLost /\ FreshInv /\ AloneInv

LEMMA AloneAlways == ASSUME SingleThread PROVE Spec => []AllAlone
<1>1. RaceFree
  BY DEF SingleThread, RaceFree
<1>2. Init => AllAlone
  BY InvInit, LostInit DEF AllAlone, Init, AloneInv
<1>3. AllAlone /\ [Next]_vars => AllAlone'
  BY <1>1, InvStep, LostStep, FreshStep, AloneStep DEF AllAlone
<1> QED
  BY <1>2, <1>3, PTL DEF Spec

\* Once a handler has set the stop flag, Run never gets to another select: it
\* leaves the loop at the end of the pass (cpp:200-210).
THEOREM StopObeyed == ASSUME SingleThread PROVE Spec => []StopNeverWaits
<1>1. AllAlone => StopNeverWaits
  BY DEF AllAlone, AloneInv, StopNeverWaits
<1> QED
  BY <1>1, AloneAlways, PTL

\* Run returns for want of sockets only when every socket that TryAddSock took
\* has been dropped by its handler (cpp:213-217, h:112-115).
THEOREM ExitsWhenEmpty == ASSUME SingleThread PROVE Spec => ExitOnlyWhenEmpty
<1>1. AllAlone /\ [Next]_vars => [pc = "test" /\ pc' = "stopped" => accepted = {}]_vars
  <2> SUFFICES ASSUME AllAlone, [Next]_vars, pc = "test", pc' = "stopped"
               PROVE  accepted = {}
    OBVIOUS
  <2>1. NoMoreSockets
    BY DEF Next, RunStep, Select, Handler, Calls, AddStep, Done, Activate, PackSlot,
           PackEnd, Unlock, SetupSelect, SelectPops, SelectTimesOut, SelectFails,
           NextSet, CallTimeout, EndSweep, TakePopped, HandlerReturns, LockServer,
           UnlockServer, SetStopFlag, StoreSock, IncrementReserved, TryAddSock, Tick,
           Returned, vars
  <2>2. Reserved = {}
    BY <2>1 DEF NoMoreSockets, AllAlone, AloneInv, Reserved
  <2>3. Live = {}
    BY <2>2 DEF Live, Holding
  <2> QED
    BY <2>3 DEF AllAlone, NoSockLost
<1> QED
  BY <1>1, AloneAlways, PTL DEF Spec, ExitOnlyWhenEmpty

\* Each set given to select holds exactly the registered sockets whose handlers
\* asked for its event last (cpp:222-244 after 178-199).
THEOREM AsksAll == ASSUME SingleThread PROVE Spec => SelectAsksAll
<1>1. AllAlone /\ [Next]_vars =>
        [pc = "test" /\ pc' = "select" =>
           \A s \in 0 .. 2, so \in Sockets :
             so \in sets'[s] <=> \E i \in Live : /\ socks[i].so = so
                                                /\ setProps[s].flag \in socks[i].flags]_vars
  <2> SUFFICES ASSUME AllAlone, [Next]_vars, pc = "test", pc' = "select"
               PROVE  \A s \in 0 .. 2, so \in Sockets :
                        so \in sets'[s] <=> \E i \in Live : /\ socks[i].so = so
                                                           /\ setProps[s].flag \in socks[i].flags
    OBVIOUS
  <2>1. SetupSelect
    BY DEF Next, RunStep, Select, Handler, Calls, AddStep, Done, Activate, PackSlot,
           PackEnd, Unlock, NoMoreSockets, SelectPops, SelectTimesOut, SelectFails,
           NextSet, CallTimeout, EndSweep, TakePopped, HandlerReturns, LockServer,
           UnlockServer, SetStopFlag, StoreSock, IncrementReserved, TryAddSock, Tick,
           Returned, vars
  <2>2. Active = Reserved /\ Holding = Reserved
    BY DEF AllAlone, AloneInv, Active, Reserved, Holding
  <2>3. \A s \in 0 .. 2 : {j \in Active : setProps[s].flag \in socks[j].flags}
                        = {j \in Live : setProps[s].flag \in socks[j].flags}
    BY <2>2 DEF Live, Unused
  <2>4. \A s \in 0 .. 2 : sets'[s] = {socks[i].so : i \in
                            {j \in Live : setProps[s].flag \in socks[j].flags}}
    BY <2>1, <2>3 DEF SetupSelect
  <2> QED
    BY <2>4
<1> QED
  BY <1>1, AloneAlways, PTL DEF Spec, SelectAsksAll
=============================================================================
