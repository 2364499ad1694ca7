----------------------------- MODULE SessionProofs -----------------------------
(***************************************************************************)
(* Theorems about Session.tla for any processes and number of sessions.    *)
(***************************************************************************)
EXTENDS Session, TLAPS

(* One call at a time.                                                     *)
InTurn == \A p, o \in Procs : pc[p] # "idle" /\ pc[o] # "idle" => p = o

(* The thread that is alive belongs to the session, which is no longer     *)
(* being made, and once it has begun there is a feedback queue.            *)
Bound ==
    \A i \in Threads : Live(i) =>
        /\ session \in live
        /\ tid[session] = i
        /\ \A p \in Procs : pc[p] \notin {"alloc", "args"}
        /\ mpc[i] # "begin" => async_state

(* What a call in progress relies on.                                      *)
Calling ==
    /\ session # NULL => session \in live
    /\ \A p \in Procs :
         /\ pc[p] = "alloc" => session = NULL
         /\ pc[p] \in {"args", "logout", "halt", "join", "joining"} => session # NULL
         /\ pc[p] = "joining" => target[p] = tid[session]

(* Unless start has failed, a session that is not being made has a thread. *)
Made ==
    ~failed =>
        /\ ~crashed
        /\ session # NULL /\ (\A p \in Procs : pc[p] # "args") => tid[session] # NULL

Sound == ~overlapped => InTurn /\ Bound /\ Calling /\ Made

IInv == TypeOK /\ Sound

-----------------------------------------------------------------------------
(* There is no session at first.                                           *)
LEMMA InitIInv == Init => IInv
  BY SessionAssumption
     DEF Init, IInv, TypeOK, Sound, InTurn, Bound, Calling, Made, Live, Structs, Threads

(* Every step keeps the types.                                             *)
LEMMA TypeCorrectStep == TypeOK /\ [Next]_vars => TypeOK'
<1> SUFFICES ASSUME TypeOK, [Next]_vars PROVE TypeOK'
  OBVIOUS
<1> USE DEF TypeOK, callVars, loopVars, flagVars, Goto, MGoto, Begin, SessionValid
<1>1. ASSUME NEW p \in Procs, Call(p) PROVE TypeOK'
  BY <1>1 DEF Call, Start, Stop
<1>2. ASSUME NEW p \in Procs, CallStep(p) PROVE TypeOK'
  <2>1. CASE StartAlloc(p) \/ StartFails(p) \/ StopLogout(p) \/ StopHalt(p)
    <3>1. CASE StartAlloc(p)
      BY <3>1 DEF StartAlloc
    <3>2. CASE StartFails(p)
      BY <3>2 DEF StartFails
    <3>3. CASE StopLogout(p) \/ StopHalt(p)
      BY <3>3 DEF StopLogout, StopHalt
    <3> QED
      BY <2>1, <3>1, <3>2, <3>3
  <2>2. CASE StartThread(p)
    BY <2>2 DEF StartThread
  <2>3. CASE StopJoin(p)
    BY <2>3 DEF StopJoin
  <2>4. CASE StopDone(p)
    BY <2>4 DEF StopDone
  <2> QED
    BY <1>2, <2>1, <2>2, <2>3, <2>4 DEF CallStep
<1>3. ASSUME NEW i \in Threads, RunStep(i) PROVE TypeOK'
  <2>1. CASE RunBegin(i) \/ SetRunning(i) \/ ResetLoggedIn(i) \/ RunLock(i)
    <3>1. CASE RunBegin(i)
      BY <3>1 DEF RunBegin
    <3>2. CASE SetRunning(i)
      BY <3>2 DEF SetRunning
    <3>3. CASE ResetLoggedIn(i)
      BY <3>3 DEF ResetLoggedIn
    <3>4. CASE RunLock(i)
      BY <3>4 DEF RunLock
    <3> QED
      BY <2>1, <3>1, <3>2, <3>3, <3>4
  <2>2. CASE TestRunning(i) \/ TakeEvents(i) \/ Sleep(i) \/ Woken(i) \/ Timeout(i)
    <3>1. CASE TestRunning(i)
      BY <3>1 DEF TestRunning
    <3>2. CASE TakeEvents(i)
      BY <3>2 DEF TakeEvents
    <3>3. CASE Sleep(i)
      BY <3>3 DEF Sleep
    <3>4. CASE Woken(i)
      BY <3>4 DEF Woken
    <3>5. CASE Timeout(i)
      BY <3>5 DEF Timeout
    <3> QED
      BY <2>2, <3>1, <3>2, <3>3, <3>4, <3>5
  <2>3. CASE ProcessEvents(i)
    <3>1. login' \in {"out", "pending", "in", "leaving"} /\ running' \in BOOLEAN /\ logged_in' \in BOOLEAN
      BY <2>3 DEF ProcessEvents, NoCallback, LoggedIn, LoggedOut
    <3> QED
      BY <2>3, <3>1 DEF ProcessEvents, Processed
  <2>4. CASE RunEnd(i)
    BY <2>4 DEF RunEnd
  <2> QED
    BY <1>3, <2>1, <2>2, <2>3, <2>4 DEF RunStep
<1>4. CASE Notify
  BY <1>4 DEF Notify
<1>5. CASE UNCHANGED vars
  BY <1>5 DEF vars
<1> QED
  BY <1>1, <1>2, <1>3, <1>4, <1>5 DEF Next

-----------------------------------------------------------------------------
(* The calls.                                                              *)
LEMMA CallsKeep ==
    ASSUME IInv, TypeOK', ~crashed, NEW p \in Procs, Call(p) \/ CallStep(p)
    PROVE  Sound'
<1> SUFFICES ASSUME ~overlapped' PROVE InTurn' /\ Bound' /\ Calling' /\ Made'
  BY DEF Sound
<1> USE SessionAssumption DEF IInv, Structs, Threads
<1>1. ~overlapped
  BY DEF Call, Start, Stop, Begin, CallStep, StartAlloc, StartFails, StartThread,
         StopLogout, StopHalt, StopJoin, StopDone
<1>2. InTurn /\ Bound /\ Calling /\ Made
  BY <1>1 DEF Sound
<1>3. pc[p] = "idle" => Start(p) \/ Stop(p)
  BY DEF Call, CallStep, StartAlloc, StartFails, StartThread, StopLogout, StopHalt, StopJoin, StopDone
<1>4. \A o \in Procs : o # p => pc[o] = "idle" /\ pc'[o] = "idle"
  <2>1. \A o \in Procs : o # p => pc'[o] = pc[o]
    BY DEF Call, Start, Stop, Goto, CallStep, StartAlloc, StartFails, StartThread,
           StopLogout, StopHalt, StopJoin, StopDone, TypeOK
  <2>2. \A o \in Procs : o # p => pc[o] = "idle"
    BY <1>2, <1>3 DEF InTurn, Start, Stop, Begin
  <2> QED
    BY <2>1, <2>2
<1>5. InTurn'
  BY <1>4 DEF InTurn
<1>6. CASE Start(p) \/ Stop(p)
  <2>1. /\ UNCHANGED <<session, live, tid, target, failed, crashed, mpc, async_state>>
        /\ \/ pc'[p] = pc[p]
           \/ pc'[p] = "alloc" /\ session = NULL
           \/ pc'[p] \in {"logout", "halt"} /\ session # NULL
    BY <1>6 DEF Start, Stop, Begin, Goto, TypeOK, loopVars, flagVars
  <2>2. session = NULL => \A i \in Threads : ~Live(i)
    BY <1>2 DEF Bound, TypeOK
  <2>3. Calling' /\ Made'
    BY <1>2, <1>4, <1>6, <2>1 DEF Calling, Made, Start, Stop, Begin
  <2>4. Bound'
    BY <1>2, <1>4, <2>1, <2>2 DEF Bound, Live
  <2> QED
    BY <1>5, <2>3, <2>4
<1>7. CASE StartAlloc(p)
  <2>1. /\ UNCHANGED <<tid, target, failed, crashed, mpc, async_state>>
        /\ session' \in live' /\ session' # NULL /\ pc[p] = "alloc" /\ pc'[p] = "args"
    BY <1>7 DEF StartAlloc, Goto, TypeOK, loopVars, flagVars
  <2>2. \A i \in Threads : ~Live(i)
    BY <1>2, <2>1 DEF Bound
  <2> QED
    BY <1>2, <1>4, <1>5, <2>1, <2>2 DEF Bound, Calling, Made, Live
<1>8. CASE StartFails(p)
  <2>1. /\ UNCHANGED <<session, live, tid, target, mpc, async_state>>
        /\ failed' /\ pc[p] = "args" /\ pc'[p] = "idle"
    BY <1>8 DEF StartFails, Goto, TypeOK, loopVars, flagVars
  <2> QED
    BY <1>2, <1>4, <1>5, <2>1 DEF Bound, Calling, Made, Live
<1>9. CASE StartThread(p)
  <2>1. /\ UNCHANGED <<session, live, target, failed, async_state>>
        /\ pc[p] = "args" /\ pc'[p] = "idle" /\ session \in live
    BY <1>2, <1>9 DEF StartThread, Goto, TypeOK, flagVars, Calling
  <2>2. PICK i \in Threads :
          tid' = [tid EXCEPT ![session] = i] /\ mpc' = [mpc EXCEPT ![i] = "begin"] /\ ~crashed'
    BY <1>9, <2>1 DEF StartThread, SessionValid, MGoto
  <2>3. \A j \in Threads : ~Live(j)
    BY <1>2, <2>1 DEF Bound
  <2>4. tid'[session] = i /\ i # NULL /\ \A j \in Threads : Live(j)' => j = i
    BY <2>1, <2>2, <2>3 DEF TypeOK, Live
  <2>5. mpc'[i] = "begin"
    BY <2>2 DEF TypeOK
  <2> QED
    BY <1>2, <1>4, <1>5, <2>1, <2>2, <2>4, <2>5 DEF Bound, Calling, Made
<1>10. CASE StopLogout(p) \/ StopHalt(p)
  <2>1. /\ UNCHANGED <<session, live, tid, target, failed, crashed, mpc, async_state>>
        /\ pc[p] \in {"logout", "halt"} /\ pc'[p] = "join"
    BY <1>10 DEF StopLogout, StopHalt, Goto, TypeOK, loopVars
  <2> QED
    BY <1>2, <1>4, <1>5, <2>1 DEF Bound, Calling, Made, Live
<1>11. CASE StopJoin(p)
  <2>1. /\ UNCHANGED <<session, live, tid, failed, mpc, async_state>>
        /\ pc[p] = "join" /\ session \in live
    BY <1>2, <1>11 DEF StopJoin, loopVars, flagVars, Calling
  <2>2. \/ tid[session] = NULL /\ UNCHANGED <<pc, target>>
        \/ /\ pc'[p] = "joining" /\ target'[p] = tid[session] /\ ~crashed'
    BY <1>11, <2>1 DEF StopJoin, SessionValid, Goto, TypeOK
  <2>3. failed \/ tid[session] # NULL
    BY <1>2, <1>4, <2>1 DEF Made, TypeOK
  <2> QED
    BY <1>2, <1>4, <1>5, <2>1, <2>2, <2>3 DEF Bound, Calling, Made, Live
<1>12. CASE StopDone(p)
  <2>1. /\ UNCHANGED <<tid, failed, mpc, async_state>>
        /\ pc[p] = "joining" /\ pc'[p] = "idle" /\ session' = NULL
        /\ session \in live /\ ~crashed' /\ mpc[tid[session]] = "exited"
    BY <1>2, <1>12 DEF StopDone, SessionValid, Goto, TypeOK, loopVars, flagVars, Calling
  <2>2. \A i \in Threads : ~Live(i)
    BY <1>2, <2>1 DEF Bound, Live
  <2> QED
    BY <1>4, <1>5, <2>1, <2>2 DEF Bound, Calling, Made, Live
<1> QED
  BY <1>6, <1>7, <1>8, <1>9, <1>10, <1>11, <1>12 DEF Call, CallStep

(* The main thread.                                                        *)
LEMMA RunKeeps ==
    ASSUME IInv, TypeOK', ~crashed, NEW i \in Threads, RunStep(i)
    PROVE  Sound'
<1> SUFFICES ASSUME ~overlapped' PROVE InTurn' /\ Bound' /\ Calling' /\ Made'
  BY DEF Sound
<1> USE DEF IInv
<1>1. UNCHANGED callVars
  BY DEF RunStep, RunBegin, SetRunning, ResetLoggedIn, RunLock, TestRunning, TakeEvents,
         Sleep, Woken, Timeout, ProcessEvents, Processed, RunEnd
<1>2. InTurn /\ Bound /\ Calling /\ Made
  BY <1>1 DEF Sound, callVars
<1>3. Live(i) /\ \A j \in Threads : j # i => ~Live(j) /\ mpc'[j] = mpc[j]
  <2>1. Live(i)
    BY DEF RunStep, RunBegin, SetRunning, ResetLoggedIn, RunLock, TestRunning, TakeEvents,
           Sleep, Woken, Timeout, ProcessEvents, Processed, RunEnd, Live
  <2>2. \A j \in Threads : j # i => mpc'[j] = mpc[j]
    BY DEF RunStep, RunBegin, SetRunning, ResetLoggedIn, RunLock, TestRunning, TakeEvents,
           Sleep, Woken, Timeout, ProcessEvents, Processed, RunEnd, MGoto, TypeOK
  <2> QED
    BY <1>2, <2>1, <2>2 DEF Bound
<1>4. session \in live
  BY <1>2, <1>3 DEF Bound
<1>5. crashed' = crashed
  BY <1>4 DEF RunStep, RunBegin, SetRunning, ResetLoggedIn, RunLock, TestRunning, TakeEvents,
         Sleep, Woken, Timeout, ProcessEvents, Processed, RunEnd, SessionValid
<1>6. Live(i)' /\ mpc'[i] # "begin" => async_state'
  BY <1>2, <1>3, <1>4 DEF Bound, RunStep, RunBegin, SetRunning, ResetLoggedIn, RunLock,
         TestRunning, TakeEvents, Sleep, Woken, Timeout, ProcessEvents, Processed, RunEnd,
         SessionValid, MGoto, TypeOK, Live, flagVars
<1>7. Bound'
  BY <1>1, <1>2, <1>3, <1>6 DEF Bound, Live, callVars
<1>8. InTurn' /\ Calling' /\ Made'
  BY <1>1, <1>2, <1>5 DEF InTurn, Calling, Made, callVars
<1> QED
  BY <1>7, <1>8

LEMMA StepIInv == IInv /\ [Next]_vars => IInv'
<1> SUFFICES ASSUME IInv, [Next]_vars PROVE Sound'
  BY TypeCorrectStep DEF IInv
<1>1. TypeOK'
  BY TypeCorrectStep DEF IInv
<1>2. CASE Notify
  BY <1>2 DEF IInv, Sound, InTurn, Bound, Calling, Made, Live, Notify, callVars, loopVars
<1>3. CASE UNCHANGED vars
  BY <1>3 DEF IInv, Sound, InTurn, Bound, Calling, Made, Live, vars, callVars, loopVars, flagVars
<1> QED
  BY <1>1, <1>2, <1>3, CallsKeep, RunKeeps DEF Next

LEMMA Invariant == Spec => []IInv
<1> QED
  BY InitIInv, StepIInv, PTL DEF Spec

-----------------------------------------------------------------------------
(* In every reachable state the variables have their types.                *)
THEOREM TypeCorrect == Spec => []TypeOK
<1>1. IInv => TypeOK
  BY DEF IInv
<1> QED
  BY <1>1, Invariant, PTL

(* Unless calls of start and stop overlap, at most one main thread is      *)
(* alive, and the callbacks of its loop find a feedback queue, however     *)
(* sessions end and whatever start does.                                   *)
THEOREM LoopAlwaysSound == Spec => []LoopSound
<1>1. IInv => OneMainLoop
  BY DEF IInv, Sound, Bound, OneMainLoop
<1>2. IInv => LoopHasQueue
  BY DEF IInv, Sound, Bound, LoopHasQueue, InLoop, Live
<1>3. IInv => LoopSound
  BY <1>1, <1>2 DEF LoopSound
<1> QED
  BY <1>3, Invariant, PTL

(* Unless they overlap or start has failed, no freed session and no thread *)
(* id that was never set is used.                                          *)
THEOREM SessionAlwaysSound == Spec => []SessionSound
<1>1. IInv => SessionSound
  BY DEF IInv, Sound, Made, SessionSound
<1> QED
  BY <1>1, Invariant, PTL
================================================================================
