-------------------------------- MODULE Session --------------------------------
(***************************************************************************)
(* The life of a session: espotify:start and stop (espotify.c), the thread *)
(* that runs spotifyctl_run (spotifyctl.c), and libspotify, which logs in  *)
(* and out.  Commands are in MainLoop, tracks in Player.                   *)
(*                                                                         *)
(* Any process may call a NIF at any time, so priv->session and the flags  *)
(* running and logged_in, which no lock protects, are read and written in  *)
(* steps of their own.  The main thread returns from spotifyctl_run with   *)
(* notify_mutex locked; the next session initialises it again.             *)
(***************************************************************************)
EXTENDS Integers

CONSTANTS
    Procs,      (* scheduler threads that call the NIFs                    *)
    MaxStarts,  (* bound on the sessions allocated                         *)
    NULL

ASSUME SessionAssumption == MaxStarts \in Nat \ {0} /\ NULL \notin 1 .. MaxStarts

Structs == 1 .. MaxStarts      (* espotify_session blocks                  *)
Threads == 1 .. MaxStarts      (* threads that run_main_thread runs on     *)

VARIABLES
    session,        (* priv->session                                       *)
    live,           (* the allocated blocks                                *)
    tid,            (* the tid field of each block, NULL: uninitialised    *)
    pc,             (* where each caller is                                *)
    target,         (* the thread a caller joins                           *)
    mpc,            (* where each main thread is                           *)
    timed,          (* next_timeout is not 0                               *)
    running,        (* g_state.running                                     *)
    logged_in,      (* g_state.logged_in                                   *)
    async_state,    (* g_state.async_state is set                          *)
    notify_events,  (* g_state.notify_events                               *)
    notify_mutex,   (* its owner, or NULL                                  *)
    login,          (* libspotify: "out", "pending", "in" or "leaving"     *)
    crashed,        (* an invalid pointer or thread id has been used       *)
    overlapped,     (* auxiliary: a call has begun during another ...      *)
    early,          (* ... stop was called before the main loop was entered *)
    failed          (* ... start has returned badarg                       *)

callVars == <<session, live, tid, pc, target, overlapped, early, failed>>
loopVars == <<mpc, timed, notify_mutex>>
flagVars == <<running, logged_in, async_state, notify_events, login>>
vars == <<callVars, loopVars, flagVars, crashed>>

Init ==
    /\ session = NULL
    /\ live = {}
    /\ tid = [s \in Structs |-> NULL]
    /\ pc = [p \in Procs |-> "idle"]
    /\ target = [p \in Procs |-> NULL]
    /\ mpc = [i \in Threads |-> "none"]
    /\ timed = [i \in Threads |-> FALSE]
    /\ running = FALSE /\ logged_in = FALSE
    /\ async_state = FALSE /\ notify_events = FALSE
    /\ notify_mutex = NULL
    /\ login = "out"
    /\ crashed = FALSE
    /\ overlapped = FALSE /\ early = FALSE /\ failed = FALSE

Begin(p)  ==
    /\ pc[p] = "idle"
    /\ overlapped' = (overlapped \/ \E o \in Procs : pc[o] # "idle")

Goto(p, l)   == pc' = [pc EXCEPT ![p] = l]
MGoto(i, l)  == mpc' = [mpc EXCEPT ![i] = l]
SessionValid == session \in live

-----------------------------------------------------------------------------
(* Mutant: a session that exists is replaced.                              *)
StartUnchecked(p) ==
    /\ Begin(p)
    /\ Goto(p, "alloc")
    /\ UNCHANGED <<session, live, tid, target, early, failed, loopVars, flagVars, crashed>>

(* espotify_start: already_started, or go on.                              *)
Start(p) ==
    /\ Begin(p)
    /\ IF session # NULL THEN UNCHANGED pc ELSE Goto(p, "alloc")
    /\ UNCHANGED <<session, live, tid, target, early, failed, loopVars, flagVars, crashed>>

(* Mutant: the pointer is used before it is set.                           *)
StartAllocSwapped(p) ==
    /\ pc[p] = "alloc"
    /\ \E s \in Structs : s \notin live /\ tid[s] = NULL /\ session' = s
    /\ live' = live \union {session}
    /\ Goto(p, "args")
    /\ UNCHANGED <<tid, target, overlapped, early, failed, loopVars, flagVars, crashed>>

(* ... allocate the session ...                                            *)
StartAlloc(p) ==
    /\ pc[p] = "alloc"
    /\ \E s \in Structs :
         /\ s \notin live /\ tid[s] = NULL
         /\ \A r \in Structs : r < s => r \in live \/ tid[r] # NULL
         /\ session' = s
         /\ live' = live \union {s}
    /\ Goto(p, "args")
    /\ UNCHANGED <<tid, target, overlapped, early, failed, loopVars, flagVars, crashed>>

(* ... badarg, for an argument or because no thread can be created: the    *)
(* session stays allocated ...                                             *)
StartFails(p) ==
    /\ pc[p] = "args"
    /\ failed' = TRUE
    /\ Goto(p, "idle")
    /\ UNCHANGED <<session, live, tid, target, overlapped, early, loopVars, flagVars, crashed>>

(* ... or create the main thread.                                          *)
StartThread(p) ==
    /\ pc[p] = "args"
    /\ IF SessionValid
       THEN \E i \in Threads :
              /\ mpc[i] = "none" /\ \A j \in Threads : j < i => mpc[j] # "none"
              /\ tid' = [tid EXCEPT ![session] = i]
              /\ MGoto(i, "begin")
              /\ UNCHANGED crashed
       ELSE crashed' = TRUE /\ UNCHANGED <<tid, mpc>>
    /\ Goto(p, "idle")
    /\ UNCHANGED <<session, live, target, overlapped, early, failed, timed, notify_mutex, flagVars>>

(* espotify_stop, unload: not_started, or spotifyctl_stop looks at         *)
(* logged_in ...                                                           *)
Stop(p) ==
    /\ Begin(p)
    /\ IF session = NULL
       THEN UNCHANGED <<pc, early>>
       ELSE /\ Goto(p, IF logged_in THEN "logout" ELSE "halt")
            /\ early' = (early \/ \E i \in Threads : mpc[i] \in {"begin", "login", "reset"})
    /\ UNCHANGED <<session, live, tid, target, failed, loopVars, flagVars, crashed>>

(* ... and asks libspotify to log out ...                                  *)
StopLogout(p) ==
    /\ pc[p] = "logout"
    /\ login' = IF login = "in" THEN "leaving" ELSE login
    /\ Goto(p, "join")
    /\ UNCHANGED <<session, live, tid, target, overlapped, early, failed, loopVars,
                   running, logged_in, async_state, notify_events, crashed>>

(* ... or the main loop to end.                                            *)
StopHalt(p) ==
    /\ pc[p] = "halt"
    /\ running' = FALSE
    /\ Goto(p, "join")
    /\ UNCHANGED <<session, live, tid, target, overlapped, early, failed, loopVars,
                   logged_in, async_state, notify_events, login, crashed>>

(* do_stop: take the thread's id ...                                       *)
StopJoin(p) ==
    /\ pc[p] = "join"
    /\ IF SessionValid /\ tid[session] # NULL
       THEN /\ target' = [target EXCEPT ![p] = tid[session]]
            /\ Goto(p, "joining") /\ UNCHANGED crashed
       ELSE crashed' = TRUE /\ UNCHANGED <<pc, target>>
    /\ UNCHANGED <<session, live, tid, overlapped, early, failed, loopVars, flagVars>>

(* Mutant: the session is freed while its thread still runs.               *)
StopDoneEarly(p) ==
    /\ pc[p] = "joining"
    /\ live' = live \ {session}
    /\ session' = NULL
    /\ target' = [target EXCEPT ![p] = NULL]
    /\ Goto(p, "idle")
    /\ UNCHANGED <<tid, overlapped, early, failed, loopVars, flagVars, crashed>>

(* Mutant: priv->session still points to the freed block.                  *)
StopDangles(p) ==
    /\ pc[p] = "joining"
    /\ mpc[target[p]] = "exited"
    /\ live' = live \ {session}
    /\ target' = [target EXCEPT ![p] = NULL]
    /\ Goto(p, "idle")
    /\ UNCHANGED <<session, crashed, tid, overlapped, early, failed, loopVars, flagVars>>

(* ... wait for it, free the session and forget it.                        *)
StopDone(p) ==
    /\ pc[p] = "joining"
    /\ mpc[target[p]] = "exited"
    /\ crashed' = ~SessionValid
    /\ live' = live \ {session}
    /\ session' = NULL
    /\ target' = [target EXCEPT ![p] = NULL]
    /\ Goto(p, "idle")
    /\ UNCHANGED <<tid, overlapped, early, failed, loopVars, flagVars>>

-----------------------------------------------------------------------------
(* spotifyctl_run: read the session, initialise the mutexes and log in ... *)
RunBegin(i) ==
    /\ mpc[i] = "begin"
    /\ IF SessionValid
       THEN /\ async_state' = TRUE
            /\ notify_mutex' = NULL
            /\ login' = "pending"
            /\ MGoto(i, "login") /\ UNCHANGED crashed
       ELSE /\ crashed' = TRUE
            /\ UNCHANGED <<async_state, notify_mutex, login, mpc>>
    /\ UNCHANGED <<callVars, timed, running, logged_in, notify_events>>

(* ... let's go ...                                                        *)
SetRunning(i) ==
    /\ mpc[i] = "login"
    /\ running' = TRUE
    /\ MGoto(i, "reset")
    /\ UNCHANGED <<callVars, timed, notify_mutex, logged_in, async_state, notify_events, login, crashed>>

ResetLoggedIn(i) ==
    /\ mpc[i] = "reset"
    /\ logged_in' = FALSE
    /\ MGoto(i, "enter")
    /\ UNCHANGED <<callVars, timed, notify_mutex, running, async_state, notify_events, login, crashed>>

(* ... and lock notify_mutex, before the loop and after events.            *)
RunLock(i) ==
    /\ mpc[i] \in {"enter", "relock"}
    /\ notify_mutex = NULL
    /\ notify_mutex' = i
    /\ MGoto(i, "test")
    /\ UNCHANGED <<callVars, timed, flagVars, crashed>>

(* The loop: go on while running ...                                       *)
TestRunning(i) ==
    /\ mpc[i] = "test" /\ running
    /\ MGoto(i, "check")
    /\ UNCHANGED <<callVars, timed, notify_mutex, flagVars, crashed>>

(* ... process events, if there are any, or wait for them ...              *)
TakeEvents(i) ==
    /\ mpc[i] = "check" /\ notify_events
    /\ notify_events' = FALSE
    /\ notify_mutex' = NULL
    /\ MGoto(i, "events")
    /\ UNCHANGED <<callVars, timed, running, logged_in, async_state, login, crashed>>

Sleep(i) ==
    /\ mpc[i] = "check" /\ ~notify_events
    /\ notify_mutex' = NULL
    /\ MGoto(i, "asleep")
    /\ UNCHANGED <<callVars, timed, flagVars, crashed>>

(* ... until the main thread is notified ...                               *)
Woken(i) ==
    /\ mpc[i] = "asleep" /\ notify_events
    /\ notify_mutex = NULL /\ notify_mutex' = i
    /\ MGoto(i, "check")
    /\ UNCHANGED <<callVars, timed, flagVars, crashed>>

(* ... or the timeout passes.                                              *)
Timeout(i) ==
    /\ mpc[i] = "asleep" /\ timed[i] /\ ~notify_events
    /\ notify_mutex = NULL /\ notify_mutex' = i
    /\ MGoto(i, "test")
    /\ UNCHANGED <<callVars, timed, flagVars, crashed>>

(* sp_session_process_events: libspotify has nothing to call back ...      *)
NoCallback == UNCHANGED <<running, logged_in, login>>

(* ... logged_in: failed, or successful ...                                *)
LoggedIn ==
    /\ login = "pending"
    /\ \/ login' = "out" /\ UNCHANGED logged_in
       \/ login' = "in" /\ logged_in' = TRUE
    /\ UNCHANGED running

(* Mutant: logged_out leaves the main loop running.                        *)
LoggedOutRuns ==
    /\ login \in {"in", "leaving"}
    /\ login' = "out"
    /\ logged_in' = FALSE
    /\ UNCHANGED running

(* ... or logged_out, because stop asked for it or for an external reason. *)
LoggedOut ==
    /\ login \in {"in", "leaving"}
    /\ login' = "out"
    /\ running' = FALSE
    /\ logged_in' = FALSE

(* It is called again while it says so and the loop runs.                  *)
Processed(i) ==
    /\ mpc[i] = "events"
    /\ \E again \in BOOLEAN :
         IF again /\ running' THEN timed' = [timed EXCEPT ![i] = FALSE] /\ UNCHANGED mpc
                              ELSE timed' = [timed EXCEPT ![i] = ~again] /\ MGoto(i, "relock")
    /\ UNCHANGED <<callVars, notify_mutex, async_state, notify_events, crashed>>

ProcessEvents(i) == (NoCallback \/ LoggedIn \/ LoggedOut) /\ Processed(i)

(* The loop ends: clear the state.  notify_mutex stays locked.             *)
RunEnd(i) ==
    /\ mpc[i] = "test" /\ ~running
    /\ async_state' = FALSE
    /\ running' = FALSE
    /\ MGoto(i, "exited")
    /\ UNCHANGED <<callVars, timed, notify_mutex, logged_in, notify_events, login, crashed>>

(* notify_main_thread, on a thread of libspotify.                          *)
Notify ==
    /\ login # "out"
    /\ notify_mutex = NULL
    /\ notify_events' = TRUE
    /\ UNCHANGED <<callVars, loopVars, running, logged_in, async_state, login, crashed>>

-----------------------------------------------------------------------------
Call(p) == Start(p) \/ Stop(p)

CallStep(p) ==
    \/ StartAlloc(p) \/ StartFails(p) \/ StartThread(p)
    \/ StopLogout(p) \/ StopHalt(p) \/ StopJoin(p) \/ StopDone(p)

RunStep(i) ==
    \/ RunBegin(i) \/ SetRunning(i) \/ ResetLoggedIn(i) \/ RunLock(i)
    \/ TestRunning(i) \/ TakeEvents(i) \/ Sleep(i) \/ Woken(i) \/ Timeout(i)
    \/ ProcessEvents(i) \/ RunEnd(i)

Next ==
    /\ ~crashed
    /\ \/ \E p \in Procs : Call(p) \/ CallStep(p)
       \/ \E i \in Threads : RunStep(i)
       \/ Notify

Spec == Init /\ [][Next]_vars

(* Threads that can run do, the mutex is handed to whoever keeps asking,   *)
(* and libspotify completes a login or logout that keeps being processed.  *)
FairSpec ==
    /\ Spec
    /\ \A p \in Procs : WF_vars(~crashed /\ CallStep(p))
    /\ \A i \in Threads : WF_vars(~crashed /\ RunStep(i))
    /\ SF_vars(~crashed /\ login \in {"pending", "leaving"} /\ Notify)
    /\ \A i \in Threads :
         /\ SF_vars(~crashed /\ LoggedIn /\ Processed(i))
         /\ SF_vars(~crashed /\ login = "leaving" /\ LoggedOut /\ Processed(i))
         /\ SF_vars(~crashed /\ NoCallback /\ Processed(i) /\ mpc'[i] = "relock")

-----------------------------------------------------------------------------
(* The type of every variable.                                             *)
TypeOK ==
    /\ session \in Structs \union {NULL}
    /\ live \subseteq Structs
    /\ tid \in [Structs -> Threads \union {NULL}]
    /\ pc \in [Procs -> {"idle", "alloc", "args", "logout", "halt", "join", "joining"}]
    /\ target \in [Procs -> Threads \union {NULL}]
    /\ mpc \in [Threads -> {"none", "begin", "login", "reset", "enter", "test", "check",
                            "asleep", "events", "relock", "exited"}]
    /\ timed \in [Threads -> BOOLEAN]
    /\ running \in BOOLEAN /\ logged_in \in BOOLEAN
    /\ async_state \in BOOLEAN /\ notify_events \in BOOLEAN
    /\ notify_mutex \in Threads \union {NULL}
    /\ login \in {"out", "pending", "in", "leaving"}
    /\ crashed \in BOOLEAN
    /\ overlapped \in BOOLEAN /\ early \in BOOLEAN /\ failed \in BOOLEAN

Live(i) == mpc[i] \notin {"none", "exited"}
InLoop(i) == mpc[i] \in {"test", "check", "asleep", "events", "relock"}

(* If calls of start and stop do not overlap, there is one main thread at  *)
(* most, however sessions end: g_state and libspotify allow only one.      *)
OneMainLoop == ~overlapped => \A i, j \in Threads : Live(i) /\ Live(j) => i = j

(* If they do not, callbacks of a running loop find an async queue: the    *)
(* end of an earlier session has not cleared it.                           *)
LoopHasQueue == ~overlapped => \A i \in Threads : InLoop(i) => async_state

(* A loop is alone, and has what its callbacks need.                       *)
LoopSound == OneMainLoop /\ LoopHasQueue

(* If they do not and start has not failed, no freed session, and no       *)
(* thread id that was never set, is used.                                  *)
SessionSound == ~overlapped /\ ~failed => ~crashed

(* A stop that finds the main loop entered returns, whether the login is   *)
(* pending, done, refused or lost.                                         *)
StopOnceLooping ==
    \A p \in Procs :
        [](~overlapped /\ ~early /\ ~failed) => (pc[p] = "joining" ~> pc[p] = "idle")

(* src/espotify_api.erl:86-88: stop returns ok or not_started.  If calls   *)
(* do not overlap and start has succeeded, a stop returns.                 *)
StopReturns ==
    \A p \in Procs :
        [](~overlapped /\ ~failed) => (pc[p] = "joining" ~> pc[p] = "idle")
==============================================================================
