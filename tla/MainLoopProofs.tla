--------------------------- MODULE MainLoopProofs ---------------------------
(***************************************************************************)
(* Theorems about MainLoop.tla for any threads and commands: types, no     *)
(* lost wakeup of the main thread, sound pointers and results, and that    *)
(* the command channel implements CommandService.tla.                      *)
(***************************************************************************)
EXTENDS MainLoop, TLAPS

(* The phases of a call, as long as calls do not overlap.                  *)
Idle(c) == pc[c] = "idle" /\ want[c] = "none" /\ served[c] = "no" /\ c \notin dropped

Waiting(c) ==
    /\ pc[c] \in {"posted", "asleep"} /\ served[c] = "no" /\ want[c] \in Cmds
    /\ cmd_error_msg = c /\ c \notin dropped
    /\ HasArg(want[c]) => cmd_arg1 = c

(* Its command is in g_state.cmd ...                                       *)
Pending(c) ==
    /\ Waiting(c)
    /\ cmd = want[c] /\ posted = c
    /\ mpc \notin {"begin", "execute", "signal", "ended"}

(* ... or with the main thread ...                                         *)
Serving(c) ==
    /\ Waiting(c)
    /\ cmd = "none" /\ serving = c /\ mcmd = want[c]
    /\ mpc \in {"begin", "execute"}

(* ... or has been carried out ...                                         *)
Served(c) ==
    /\ pc[c] \in {"posted", "asleep", "stranded", "woken"} /\ want[c] \in Cmds
    /\ served[c] = cmd_result /\ c \notin dropped
    /\ cmd_result = "ERROR" => error_msg[c] = "text"
    /\ cmd = "none"
    /\ mpc \notin {"begin", "execute"}
    /\ pc[c] = "woken" => mpc # "signal"

(* ... or was dropped when a session ended.                                *)
Dropped(c) ==
    /\ pc[c] \in {"posted", "asleep", "stranded"} /\ want[c] \in Cmds /\ served[c] = "no"
    /\ cmd = "none"
    /\ mpc \notin {"begin", "execute", "signal"}

AllIdle ==
    /\ \A c \in Callers : Idle(c)
    /\ cmd = "none"
    /\ mpc \notin {"begin", "execute", "signal"}

OneCall(c) ==
    /\ \A d \in Callers \ {c} : Idle(d)
    /\ Pending(c) \/ Serving(c) \/ Served(c) \/ Dropped(c)

InTurn == ~disturbed => AllIdle \/ \E c \in Callers : OneCall(c)

IInv == TypeOK /\ MainAwake /\ InTurn

-----------------------------------------------------------------------------
LEMMA InitIInv == Init => IInv
<1> SUFFICES ASSUME Init PROVE IInv
  OBVIOUS
<1>1. TypeOK
  BY DEF Init, TypeOK
<1>2. MainAwake
  BY DEF Init, MainAwake
<1>3. AllIdle
  BY DEF Init, AllIdle, Idle
<1> QED
  BY <1>1, <1>2, <1>3 DEF IInv, InTurn

LEMMA TypeStep == TypeOK /\ [Next]_vars => TypeOK'
<1> SUFFICES ASSUME TypeOK, [Next]_vars PROVE TypeOK'
  OBVIOUS
<1> USE DEF TypeOK
<1>1. ASSUME NEW c \in Callers, NEW k \in Cmds, Post(c, k) PROVE TypeOK'
  BY <1>1 DEF Post, ArgOf, Signalled
<1>2. ASSUME NEW c \in Callers, WaitResult(c) \/ SpuriousResult(c) PROVE TypeOK'
  BY <1>2 DEF WaitResult, SpuriousResult, sharedVars, mainVars, ghostVars
<1>3. ASSUME NEW c \in Callers, Return(c) PROVE TypeOK'
  BY <1>3 DEF Return, sharedVars, mainVars
<1>4. CASE Notify
  BY <1>4 DEF Notify, Signalled, sharedVars, callVars, ghostVars
<1>5. CASE MainWait \/ MainTimeout \/ MainRound \/ TakeEvents \/ ProcessEvents
  BY <1>5 DEF MainWait, MainTimeout, MainRound, TakeEvents, ProcessEvents, sharedVars, callVars,
              ghostVars
<1>6. CASE TakeCmd
  BY <1>6 DEF TakeCmd, sharedVars, callVars
<1>7. CASE BeginCmd
  BY <1>7 DEF BeginCmd, WriteErrorMsg, callVars, ghostVars
<1>8. ASSUME NEW o \in {"OK", "ERROR", "LOADING"}, Execute(o) PROVE TypeOK'
  BY <1>8 DEF Execute, WriteErrorMsg, callVars
<1>9. CASE SignalResult
  BY <1>9 DEF SignalResult, sharedVars, ghostVars
<1>10. CASE UNCHANGED vars
  BY <1>10 DEF vars, sharedVars, mainVars, callVars, ghostVars
<1>11. CASE LoopEnd
  BY <1>11 DEF LoopEnd, Unserved, callVars
<1>12. CASE RunBegin
  BY <1>12 DEF RunBegin, sharedVars, ghostVars
<1> QED
  BY <1>1, <1>2, <1>3, <1>4, <1>5, <1>6, <1>7, <1>8, <1>9, <1>10, <1>11, <1>12
     DEF Next, CallerStep, MainStep

(* Whoever sets cmd or notify_events signals notify_cond.                  *)
LEMMA AwakeStep == MainAwake /\ [Next]_vars => MainAwake'
<1> SUFFICES ASSUME MainAwake, [Next]_vars PROVE MainAwake'
  OBVIOUS
<1> USE DEF MainAwake
<1>1. ASSUME NEW c \in Callers, NEW k \in Cmds, Post(c, k) PROVE MainAwake'
  BY <1>1 DEF Post, Signalled
<1>2. ASSUME NEW c \in Callers, CallerStep(c) \/ SpuriousResult(c) PROVE MainAwake'
  BY <1>2 DEF CallerStep, WaitResult, Return, SpuriousResult, mainVars
<1>3. CASE Notify
  BY <1>3 DEF Notify, Signalled
<1>4. CASE MainStep \/ MainTimeout \/ LoopEnd \/ RunBegin
  BY <1>4 DEF MainStep, MainWait, MainRound, LoopEnd, RunBegin, TakeEvents, ProcessEvents,
              TakeCmd, BeginCmd, Execute,
              SignalResult, MainTimeout
<1>5. CASE UNCHANGED vars
  BY <1>5 DEF vars, mainVars
<1> QED
  BY <1>1, <1>2, <1>3, <1>4, <1>5 DEF Next

-----------------------------------------------------------------------------
LEMMA DisturbedStays == [Next]_vars /\ ~disturbed' /\ disturbed \in BOOLEAN => ~disturbed
BY DEF Next, Post, CallerStep, WaitResult, Return, SpuriousResult, Notify, MainStep, MainWait,
       MainRound, LoopEnd, RunBegin, TakeEvents, ProcessEvents, TakeCmd, BeginCmd, Execute,
       SignalResult, MainTimeout,
       vars, ghostVars

(* A call that does not disturb another one begins when all are idle.      *)
LEMMA PostStep ==
    ASSUME TypeOK, InTurn, ~disturbed, ~disturbed',
           NEW c \in Callers, NEW k \in Cmds, Post(c, k)
    PROVE  AllIdle /\ OneCall(c)'
<1>1. \A d \in Callers : pc[d] = "idle"
  BY DEF Post
<1>2. AllIdle
  BY <1>1 DEF InTurn, OneCall, Pending, Serving, Served, Dropped, Waiting
<1>3. \A d \in Callers \ {c} : Idle(d)'
  BY <1>2 DEF AllIdle, Idle, Post, TypeOK
<1>4. Pending(c)'
  BY <1>2 DEF AllIdle, Idle, Pending, Waiting, Post, TypeOK, ArgOf, Signalled, MutexFree
<1> QED
  BY <1>2, <1>3, <1>4 DEF OneCall

(* A step that leaves the calls alone and does not enter or leave the      *)
(* carrying out of a command.                                              *)
LEMMA QuietStep ==
    ASSUME TypeOK, InTurn,
           UNCHANGED <<cmd, sharedVars, callVars, error_msg, ghostVars, mcmd>>,
           mpc \notin {"begin", "execute", "signal"},
           mpc' \notin {"begin", "execute", "signal", "ended"}
    PROVE  InTurn'
<1> USE DEF sharedVars, callVars, ghostVars
<1>1. ASSUME AllIdle PROVE AllIdle'
  BY <1>1 DEF AllIdle, Idle
<1>2. ASSUME NEW c \in Callers, OneCall(c) PROVE OneCall(c)'
  BY <1>2 DEF OneCall, Idle, Pending, Serving, Served, Dropped, Waiting
<1> QED
  BY <1>1, <1>2 DEF InTurn

LEMMA InTurnStep == TypeOK /\ InTurn /\ [Next]_vars => InTurn'
<1> SUFFICES ASSUME TypeOK, InTurn, [Next]_vars, ~disturbed' PROVE InTurn'
  BY DEF InTurn
<1>0. ~disturbed /\ (AllIdle \/ \E c \in Callers : OneCall(c))
  BY DisturbedStays DEF InTurn, TypeOK
<1>1. ASSUME NEW c \in Callers, NEW k \in Cmds, Post(c, k) PROVE InTurn'
  BY <1>0, <1>1, PostStep DEF InTurn
<1>2. ASSUME NEW c \in Callers, WaitResult(c) PROVE InTurn'
  <2>1. OneCall(c)
    BY <1>0, <1>2 DEF WaitResult, AllIdle, OneCall, Idle
  <2>2. OneCall(c)'
    BY <1>2, <2>1 DEF WaitResult, OneCall, Idle, Pending, Serving, Served, Dropped, Waiting,
                      TypeOK, sharedVars, mainVars, ghostVars
  <2> QED
    BY <2>2 DEF InTurn
<1>3. ASSUME NEW c \in Callers, SpuriousResult(c) PROVE InTurn'
  BY <1>3 DEF SpuriousResult
<1>4. ASSUME NEW c \in Callers, Return(c) PROVE InTurn'
  <2>1. OneCall(c) /\ Served(c)
    BY <1>0, <1>4 DEF Return, AllIdle, OneCall, Idle, Pending, Serving, Dropped, Waiting
  <2>2. AllIdle'
    BY <1>4, <2>1 DEF Return, OneCall, Idle, Served, AllIdle, TypeOK, sharedVars, mainVars
  <2> QED
    BY <2>2 DEF InTurn
<1>5. CASE Notify \/ MainWait \/ MainTimeout \/ MainRound \/ TakeEvents \/ ProcessEvents
  <2>1. CASE Notify /\ mpc \in {"begin", "execute", "signal"}
    <3>1. mpc' = mpc /\ UNCHANGED <<cmd, sharedVars, callVars, error_msg, ghostVars, mcmd>>
      BY <2>1 DEF Notify, Signalled
    <3> QED
      BY <1>0, <3>1 DEF InTurn, AllIdle, OneCall, Idle, Pending, Serving, Served, Dropped,
                        Waiting,
                        sharedVars, callVars, ghostVars
  <2>2. CASE ~(Notify /\ mpc \in {"begin", "execute", "signal"})
    <3>1. /\ UNCHANGED <<cmd, sharedVars, callVars, error_msg, ghostVars, mcmd>>
          /\ mpc \notin {"begin", "execute", "signal"}
          /\ mpc' \notin {"begin", "execute", "signal", "ended"}
      BY <1>5, <2>2 DEF Notify, MutexFree, MainWait, MainTimeout, MainRound, TakeEvents,
                        ProcessEvents, Signalled
    <3> QED
      BY <3>1, QuietStep
  <2> QED
    BY <2>1, <2>2
<1>6. CASE TakeCmd
  <2>1. PICK c \in Callers : OneCall(c) /\ Pending(c)
    BY <1>0, <1>6 DEF TakeCmd, AllIdle, OneCall, Serving, Served, Dropped
  <2>2. OneCall(c)'
    BY <1>6, <2>1 DEF TakeCmd, OneCall, Idle, Pending, Serving, Dropped, Waiting, sharedVars,
                      callVars
  <2> QED
    BY <2>2 DEF InTurn
<1>7. CASE BeginCmd
  <2>1. PICK c \in Callers : OneCall(c) /\ Serving(c)
    BY <1>0, <1>7 DEF BeginCmd, AllIdle, OneCall, Pending, Served, Dropped
  <2>2. OneCall(c)'
    BY <1>7, <2>1 DEF BeginCmd, OneCall, Idle, Serving, Waiting, callVars, ghostVars
  <2> QED
    BY <2>2 DEF InTurn
<1>8. ASSUME NEW o \in {"OK", "ERROR", "LOADING"}, Execute(o) PROVE InTurn'
  <2>1. PICK c \in Callers : OneCall(c) /\ Serving(c)
    BY <1>0, <1>8 DEF Execute, AllIdle, OneCall, Pending, Served, Dropped
  <2>2. c # NULL /\ served' = [served EXCEPT ![c] = o] /\ cmd_result' = o
    BY <1>8, <2>1, MainLoopAssumption DEF Execute, Serving
  <2>3. o = "ERROR" => error_msg'[c] = "text"
    BY <1>8, <2>1, <2>2 DEF Execute, WriteErrorMsg, Serving, Waiting, TypeOK
  <2>4. Served(c)'
    BY <1>8, <2>1, <2>2, <2>3 DEF Execute, Serving, Waiting, Served, TypeOK, callVars
  <2>5. \A d \in Callers \ {c} : Idle(d)'
    BY <1>8, <2>1, <2>2 DEF Execute, OneCall, Idle, TypeOK, callVars
  <2> QED
    BY <2>4, <2>5 DEF InTurn, OneCall
<1>9. CASE SignalResult
  <2>1. PICK c \in Callers : OneCall(c) /\ Served(c)
    BY <1>0, <1>9 DEF SignalResult, AllIdle, OneCall, Pending, Serving, Dropped
  <2>2. pc' = pc \/ (pc[c] = "asleep" /\ pc' = [pc EXCEPT ![c] = "woken"])
    BY <1>9, <2>1 DEF SignalResult, OneCall, Idle
  <2>3. OneCall(c)'
    BY <1>9, <2>1, <2>2 DEF SignalResult, OneCall, Idle, Served, TypeOK, sharedVars, ghostVars
  <2> QED
    BY <2>3 DEF InTurn
<1>10. CASE UNCHANGED vars
  BY <1>0, <1>10 DEF InTurn, AllIdle, OneCall, Idle, Pending, Serving, Served, Dropped, Waiting,
                     vars, sharedVars, mainVars, callVars, ghostVars
<1>11. CASE LoopEnd
  <2>1. CASE AllIdle
    BY <1>11, <2>1 DEF LoopEnd, Unserved, InTurn, AllIdle, Idle, callVars
  <2>2. ASSUME NEW c \in Callers, OneCall(c) PROVE OneCall(c)'
    <3>1. \A d \in Callers \ {c} : Idle(d)'
      BY <1>11, <2>2 DEF LoopEnd, Unserved, OneCall, Idle, callVars
    <3>2. Served(c)' \/ Dropped(c)'
      BY <1>11, <2>2 DEF LoopEnd, Unserved, OneCall, Pending, Serving, Served, Dropped, Waiting,
                         TypeOK, callVars
    <3> QED
      BY <3>1, <3>2 DEF OneCall
  <2> QED
    BY <1>0, <2>1, <2>2 DEF InTurn
<1>12. CASE RunBegin
  <2>1. CASE AllIdle
    BY <1>12, <2>1 DEF RunBegin, InTurn, AllIdle, Idle, TypeOK, sharedVars, ghostVars
  <2>2. ASSUME NEW c \in Callers, OneCall(c) PROVE OneCall(c)'
    <3>1. \A d \in Callers \ {c} : Idle(d)'
      BY <1>12, <2>2 DEF RunBegin, OneCall, Idle, TypeOK, ghostVars
    <3>2. Served(c)' \/ Dropped(c)'
      BY <1>12, <2>2 DEF RunBegin, OneCall, Pending, Serving, Served, Dropped, TypeOK,
                         sharedVars, ghostVars
    <3> QED
      BY <3>1, <3>2 DEF OneCall
  <2> QED
    BY <1>0, <2>1, <2>2 DEF InTurn
<1> QED
  BY <1>1, <1>2, <1>3, <1>4, <1>5, <1>6, <1>7, <1>8, <1>9, <1>10, <1>11, <1>12
     DEF Next, CallerStep, MainStep

LEMMA Invariance == Spec => []IInv
<1>1. IInv /\ [Next]_vars => IInv'
  BY TypeStep, AwakeStep, InTurnStep DEF IInv
<1> QED
  BY <1>1, InitIInv, PTL DEF Spec

-----------------------------------------------------------------------------
(* Every variable of the main loop and the command channel keeps its type. *)
THEOREM TypeCorrect == Spec => []TypeOK
<1>1. IInv => TypeOK
  BY DEF IInv
<1> QED
  BY <1>1, Invariance, PTL

(* The main thread never sleeps on a command or an event.                  *)
THEOREM NoLostWakeup == Spec => []MainAwake
<1>1. IInv => MainAwake
  BY DEF IInv
<1> QED
  BY <1>1, Invariance, PTL

(* As long as calls do not overlap, the pointers into a caller's frame are *)
(* its own and used while its call lasts, and it reads its own result.     *)
THEOREM CallsAlwaysSound == Spec => []CallsSound
<1>1. IInv => CallsSound
  <2> SUFFICES ASSUME TypeOK, InTurn, ~disturbed PROVE CallsSound
    BY DEF IInv, CallsSound, FramesSound, AnswerIsOwn
  <2>1. AllIdle \/ \E c \in Callers : OneCall(c)
    BY DEF InTurn
  <2>2. CASE AllIdle
    BY <2>2 DEF AllIdle, Idle, CallsSound, FramesSound, AnswerIsOwn
  <2>3. ASSUME NEW c \in Callers, OneCall(c) PROVE CallsSound
    <3>1. \A d \in Callers : pc[d] = "woken" => d = c /\ Served(c)
      BY <2>3 DEF OneCall, Idle, Pending, Serving, Dropped, Waiting
    <3>2. mpc \in {"begin", "execute"} => Serving(c) /\ c # NULL
      BY <2>3, MainLoopAssumption DEF OneCall, Pending, Served, Dropped
    <3> QED
      BY <3>1, <3>2 DEF CallsSound, FramesSound, AnswerIsOwn, Serving, Served, Dropped, Waiting
  <2> QED
    BY <2>1, <2>2, <2>3
<1> QED
  BY <1>1, Invariance, PTL

-----------------------------------------------------------------------------
LEMMA ServiceInit == Init => Service!Init
BY DEF Init, Service!Init

(* A call, the carrying out of its command, its return and the end of a    *)
(* session are the steps of the service; all others leave it as it is.     *)
LEMMA ServiceStep == IInv /\ [Next]_vars => [Service!Next]_Service!vars
<1> SUFFICES ASSUME TypeOK, InTurn, [Next]_vars PROVE [Service!Next]_Service!vars
  BY DEF IInv
<1>0. disturbed' \in BOOLEAN
  BY TypeStep DEF TypeOK
<1>1. CASE disturbed'
  BY <1>0, <1>1 DEF Service!Next
<1>2. CASE ~disturbed'
  <2>0. ~disturbed /\ (AllIdle \/ \E c \in Callers : OneCall(c)) /\ UNCHANGED disturbed
    BY <1>0, <1>2, DisturbedStays DEF InTurn, TypeOK
  <2>1. ASSUME NEW c \in Callers, NEW k \in Cmds, Post(c, k) PROVE Service!Call(c, k)
    <3>1. \A d \in Callers : want[d] = "none"
      BY <1>2, <2>0, <2>1, PostStep DEF AllIdle, Idle
    <3> QED
      BY <2>1, <3>1 DEF Post, Service!Call
  <2>2. ASSUME NEW c \in Callers, Return(c) PROVE Service!Answer(c)
    <3>1. Served(c)
      BY <2>0, <2>2 DEF Return, AllIdle, OneCall, Idle, Pending, Serving, Dropped, Waiting
    <3>2. dropped' = dropped /\ answer' = [answer EXCEPT ![c] = served[c]] /\ served[c] # "no"
      BY <2>2, <3>1 DEF Return, Served, TypeOK
    <3> QED
      BY <2>2, <3>2 DEF Return, Service!Answer
  <2>3. ASSUME NEW o \in {"OK", "ERROR", "LOADING"}, Execute(o)
        PROVE  \E c \in Callers : Service!CarryOut(c, o)
    <3>1. PICK c \in Callers : Serving(c)
      BY <2>0, <2>3 DEF Execute, AllIdle, OneCall, Pending, Served, Dropped
    <3>2. /\ want[c] \in Cmds /\ served[c] = "no" /\ o \in Outcomes(want[c]) /\ c \notin dropped
          /\ served' = [served EXCEPT ![c] = o] /\ UNCHANGED <<want, answer, dropped>>
      BY <2>3, <3>1, MainLoopAssumption DEF Execute, Serving, Waiting, callVars
    <3>3. want[c] # "none"
      BY <3>2, MainLoopAssumption
    <3> QED
      BY <3>2, <3>3 DEF Service!CarryOut
  <2>4. CASE UNCHANGED <<want, served, answer, dropped>>
    BY <2>0, <2>4 DEF Service!vars
  <2>5. ASSUME LoopEnd PROVE Service!Next
    <3>1. /\ dropped' = dropped \union {c \in Callers : want[c] # "none" /\ served[c] = "no"}
          /\ want' = want /\ served' = served /\ answer' = answer /\ disturbed' = disturbed
      BY <2>5 DEF LoopEnd, Unserved, callVars
    <3>2. Service!EndSession
      BY <3>1 DEF Service!EndSession
    <3> QED
      BY <3>1, <3>2 DEF Service!Next
  <2>6. \/ \E c \in Callers, k \in Cmds : Post(c, k)
        \/ \E c \in Callers : Return(c)
        \/ \E o \in {"OK", "ERROR", "LOADING"} : Execute(o)
        \/ LoopEnd
        \/ UNCHANGED <<want, served, answer, dropped>>
    BY DEF Next, CallerStep, WaitResult, SpuriousResult, Notify, MainStep, MainWait, TakeEvents,
           ProcessEvents, TakeCmd, BeginCmd, SignalResult, MainTimeout, MainRound,
           RunBegin, vars, callVars, ghostVars
  <2> QED
    BY <2>0, <2>1, <2>2, <2>3, <2>4, <2>5, <2>6 DEF Service!Next
<1> QED
  BY <1>0, <1>1, <1>2

(* The command channel implements the service of CommandService.tla: as    *)
(* long as calls do not overlap, a command is carried out at most once and *)
(* in the session of its call, and the call returns its result.            *)
THEOREM ImplementsService == Spec => ServiceSpec
<1>1. Service!Init /\ [][Service!Next]_Service!vars => ServiceSpec
  BY DEF ServiceSpec, Service!Spec
<1> QED
  BY <1>1, ServiceInit, ServiceStep, Invariance, PTL DEF Spec
==============================================================================
