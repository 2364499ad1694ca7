------------------------------- MODULE MainLoop -------------------------------
(***************************************************************************)
(* c_src/spotifyctl/spotifyctl.c: the main loop of spotifyctl_run and the  *)
(* command channel through which NIFs run commands on it: do_cmd0, do_cmd1 *)
(* and wait_for_cmd_result, over any number of sessions.  Each critical    *)
(* section of notify_mutex or result_mutex is one step; what the main      *)
(* thread does to cmd_result, cmd_error_msg and cmd_arg1 outside them is   *)
(* split into the steps between which another thread may write.  What a    *)
(* command does to the player is left to its result, and when running is   *)
(* found 0 to Session.                                                     *)
(***************************************************************************)
EXTENDS Naturals

CONSTANTS
    Callers,   (* the scheduler threads that run a player NIF              *)
    Cmds,      (* the commands they may ask for                            *)
    NULL

ASSUME MainLoopAssumption ==
    /\ Cmds \subseteq {"load", "play", "seek", "unload"}
    /\ NULL \notin Callers

(* handle_cmd_player_load has three results; the other commands always OK. *)
Outcomes(k) == IF k = "load" THEN {"OK", "ERROR", "LOADING"} ELSE {"OK"}

(* The commands sent with do_cmd1, which carry a pointer to an argument.   *)
HasArg(k) == k # "unload"

VARIABLES
    cmd,            (* g_state.cmd                                         *)
    cmd_arg1,       (* the caller whose stack frame cmd_arg1 points into   *)
    cmd_error_msg,  (* the caller whose error_msg cmd_error_msg points to  *)
    cmd_result,     (* g_state.cmd_result                                  *)
    notify_events,  (* g_state.notify_events                               *)
    mpc,            (* where the main thread is                            *)
    mcmd,           (* its local copy of cmd                               *)
    pc,             (* where each caller is                                *)
    want,           (* the command of each caller's current call           *)
    error_msg,      (* the local variable error_msg of each caller's NIF   *)
    posted,         (* auxiliary: the caller whose command is in cmd       *)
    serving,        (* auxiliary: the caller whose command is in mcmd      *)
    served,         (* auxiliary: what each caller's command resulted in   *)
    answer,         (* auxiliary: what each caller's last call returned    *)
    dropped,        (* auxiliary: the callers whose command had not been   *)
                    (* carried out when a session ended                    *)
    disturbed       (* auxiliary: two calls have overlapped, or a wait for *)
                    (* result_cond has returned without a signal           *)

sharedVars == <<cmd_arg1, cmd_error_msg, cmd_result>>
mainVars   == <<mpc, mcmd>>
callVars   == <<pc, want>>
ghostVars  == <<posted, serving, served, answer, dropped, disturbed>>
vars == <<cmd, sharedVars, notify_events, mainVars, callVars, error_msg, ghostVars>>

Init ==
    /\ cmd = "none" /\ cmd_arg1 = NULL /\ cmd_error_msg = NULL
    /\ cmd_result = "OK"
    /\ notify_events \in BOOLEAN
    /\ mpc = "loop" /\ mcmd = "none"
    /\ pc = [c \in Callers |-> "idle"]
    /\ want = [c \in Callers |-> "none"]
    /\ error_msg = [c \in Callers |-> "garbage"]
    /\ posted = NULL /\ serving = NULL
    /\ served = [c \in Callers |-> "no"]
    /\ answer = [c \in Callers |-> "none"]
    /\ dropped = {}
    /\ disturbed = FALSE

(* Mutant: the signal on notify_cond is left out.                          *)
SignalLost == mpc

(* The main thread after a signal on notify_cond.                          *)
Signalled == IF mpc = "waiting" THEN "awake" ELSE mpc

(* The main thread of a session that has ended holds notify_mutex: nobody  *)
(* gets it before the next session initialises it.                         *)
MutexFree == mpc # "ended"

-----------------------------------------------------------------------------
(* Mutants: do_cmd1 leaves cmd_arg1 as it was, or sets it to the command.  *)
ArgKept(c, k) == cmd_arg1
ArgIsCommand(c, k) == k

(* do_cmd1 sets cmd_arg1, do_cmd0 does not.                                *)
ArgOf(c, k) == IF HasArg(k) THEN c ELSE cmd_arg1

(* do_cmd0 and do_cmd1: write the command under notify_mutex and signal.   *)
(* Nothing checks that the previous command has been taken.                *)
Post(c, k) ==
    /\ pc[c] = "idle"
    /\ MutexFree
    /\ cmd' = k
    /\ cmd_error_msg' = c
    /\ cmd_arg1' = ArgOf(c, k)
    /\ error_msg' = [error_msg EXCEPT ![c] = "garbage"]
    /\ mpc' = Signalled
    /\ pc' = [pc EXCEPT ![c] = "posted"]
    /\ want' = [want EXCEPT ![c] = k]
    /\ posted' = c
    /\ answer' = [answer EXCEPT ![c] = "none"]
    /\ disturbed' = (disturbed \/ \E d \in Callers : pc[d] # "idle")
    /\ UNCHANGED <<cmd_result, notify_events, mcmd, serving, served, dropped>>

(* wait_for_cmd_result: sleep on result_cond, whatever has happened since. *)
WaitResult(c) ==
    /\ pc[c] = "posted"
    /\ pc' = [pc EXCEPT ![c] = "asleep"]
    /\ UNCHANGED <<cmd, sharedVars, notify_events, mainVars, want, error_msg, ghostVars>>

(* pthread_cond_wait may return without a signal, or after a signal on the *)
(* condition that the next session has initialised in its place.           *)
SpuriousResult(c) ==
    /\ pc[c] \in {"asleep", "stranded"}
    /\ pc' = [pc EXCEPT ![c] = "woken"]
    /\ disturbed' = TRUE
    /\ UNCHANGED <<cmd, sharedVars, notify_events, mainVars, want, error_msg,
                   posted, serving, served, answer, dropped>>

(* wait_for_cmd_result: read cmd_result and return to the NIF.             *)
Return(c) ==
    /\ pc[c] = "woken"
    /\ pc' = [pc EXCEPT ![c] = "idle"]
    /\ want' = [want EXCEPT ![c] = "none"]
    /\ answer' = [answer EXCEPT ![c] = cmd_result]
    /\ dropped' = dropped \ {c}
    /\ served' = [served EXCEPT ![c] = "no"]
    /\ posted' = IF posted = c THEN NULL ELSE posted
    /\ serving' = IF serving = c THEN NULL ELSE serving
    /\ UNCHANGED <<cmd, sharedVars, notify_events, mainVars, error_msg, disturbed>>

-----------------------------------------------------------------------------
(* notify_main_thread, from a thread of libspotify.                        *)
Notify ==
    /\ MutexFree
    /\ notify_events' = TRUE
    /\ mpc' = Signalled
    /\ UNCHANGED <<cmd, sharedVars, mcmd, callVars, error_msg, ghostVars>>

(* spotifyctl_run: nothing to do, wait on notify_cond ...                  *)
MainWait ==
    /\ mpc \in {"loop", "awake"}
    /\ cmd = "none" /\ ~notify_events
    /\ mpc' = "waiting"
    /\ UNCHANGED <<cmd, sharedVars, notify_events, mcmd, callVars, error_msg, ghostVars>>

(* ... no longer than next_timeout, if that is not zero, and it may return *)
(* without a signal ...                                                    *)
MainTimeout ==
    /\ mpc = "waiting"
    /\ mpc' = "awake"
    /\ UNCHANGED <<cmd, sharedVars, notify_events, mcmd, callVars, error_msg, ghostVars>>

(* ... after a timeout look at running again.                              *)
MainRound ==
    /\ mpc = "awake"
    /\ cmd = "none" /\ ~notify_events
    /\ mpc' = "loop"
    /\ UNCHANGED <<cmd, sharedVars, notify_events, mcmd, callVars, error_msg, ghostVars>>

(* Events come before commands.                                            *)
TakeEvents ==
    /\ mpc \in {"loop", "awake"}
    /\ notify_events
    /\ notify_events' = FALSE
    /\ mpc' = "events"
    /\ UNCHANGED <<cmd, sharedVars, mcmd, callVars, error_msg, ghostVars>>

(* Mutant: notify_events is reset again after the events are processed.    *)
ProcessEventsResets ==
    /\ mpc = "events"
    /\ notify_events' = FALSE
    /\ mpc' = "loop"
    /\ UNCHANGED <<cmd, sharedVars, mcmd, callVars, error_msg, ghostVars>>

(* sp_session_process_events until it gives a next_timeout.                *)
ProcessEvents ==
    /\ mpc = "events"
    /\ mpc' = "loop"
    /\ UNCHANGED <<cmd, sharedVars, notify_events, mcmd, callVars, error_msg, ghostVars>>

(* Take the command.                                                       *)
TakeCmd ==
    /\ mpc \in {"loop", "awake"}
    /\ ~notify_events /\ cmd # "none"
    /\ mcmd' = cmd
    /\ cmd' = "none"
    /\ mpc' = "begin"
    /\ posted' = NULL
    /\ serving' = posted
    /\ UNCHANGED <<sharedVars, notify_events, callVars, error_msg, served, answer, dropped,
                   disturbed>>

(* What a write through cmd_error_msg does: the frame of a caller that has *)
(* returned is somebody else's memory by now.                              *)
WriteErrorMsg(text) ==
    error_msg' = IF cmd_error_msg # NULL /\ pc[cmd_error_msg] # "idle"
                 THEN [error_msg EXCEPT ![cmd_error_msg] = text]
                 ELSE error_msg

(* Without notify_mutex: preset the result and the error message ...       *)
BeginCmd ==
    /\ mpc = "begin"
    /\ cmd_result' = "OK"
    /\ WriteErrorMsg("null")
    /\ mpc' = "execute"
    /\ UNCHANGED <<cmd, cmd_arg1, cmd_error_msg, notify_events, mcmd, callVars, ghostVars>>

(* ... carry the command out and set its result: where it writes to NULL   *)
(* (line 256) the process ends, which Player has ...                       *)
Execute(o) ==
    /\ mpc = "execute"
    /\ o \in Outcomes(mcmd)
    /\ cmd_result' = o
    /\ IF o = "ERROR" THEN WriteErrorMsg("text") ELSE UNCHANGED error_msg
    /\ served' = IF serving = NULL THEN served ELSE [served EXCEPT ![serving] = o]
    /\ mpc' = "signal"
    /\ UNCHANGED <<cmd, cmd_arg1, cmd_error_msg, notify_events, mcmd, callVars,
                   posted, serving, answer, dropped, disturbed>>

(* ... and signal result_cond, without result_mutex: one sleeper wakes up, *)
(* and nobody does if the caller is not asleep yet.                        *)
SignalResult ==
    /\ mpc = "signal"
    /\ mpc' = "loop"
    /\ \/ \E c \in Callers :
            /\ pc[c] = "asleep"
            /\ pc' = [pc EXCEPT ![c] = "woken"]
       \/ /\ \A c \in Callers : pc[c] # "asleep"
          /\ UNCHANGED pc
    /\ UNCHANGED <<cmd, sharedVars, notify_events, mcmd, want, error_msg, ghostVars>>

(* The callers whose command has not been carried out.                     *)
Unserved == {c \in Callers : want[c] # "none" /\ served[c] = "no"}

(* Mutant: a command that has not been taken stays for the next session.   *)
LoopEndKeepsCmd ==
    /\ mpc = "loop"
    /\ cmd_arg1' = NULL
    /\ mpc' = "ended"
    /\ dropped' = dropped \union Unserved
    /\ UNCHANGED <<cmd, cmd_error_msg, cmd_result, notify_events, mcmd, callVars, error_msg,
                   posted, serving, served, answer, disturbed>>

(* running is 0: leave the loop with notify_mutex locked and drop the      *)
(* command that is waiting, if one is.                                     *)
LoopEnd ==
    /\ mpc = "loop"
    /\ cmd' = "none"
    /\ cmd_arg1' = NULL
    /\ mpc' = "ended"
    /\ posted' = NULL
    /\ dropped' = dropped \union Unserved
    /\ UNCHANGED <<cmd_error_msg, cmd_result, notify_events, mcmd, callVars, error_msg,
                   serving, served, answer, disturbed>>

(* The next session initialises the mutexes and the conditions.  Nothing   *)
(* has to wake the callers that sleep on the old result_cond any more.     *)
RunBegin ==
    /\ mpc = "ended"
    /\ mpc' = "loop"
    /\ pc' = [c \in Callers |-> IF pc[c] = "asleep" THEN "stranded" ELSE pc[c]]
    /\ UNCHANGED <<cmd, sharedVars, notify_events, mcmd, want, error_msg, ghostVars>>

-----------------------------------------------------------------------------
CallerStep(c) == WaitResult(c) \/ Return(c)

MainStep ==
    \/ MainWait \/ MainRound \/ TakeEvents \/ ProcessEvents \/ TakeCmd \/ BeginCmd
    \/ \E o \in {"OK", "ERROR", "LOADING"} : Execute(o)
    \/ SignalResult

Next ==
    \/ \E c \in Callers, k \in Cmds : Post(c, k)
    \/ \E c \in Callers : CallerStep(c) \/ SpuriousResult(c)
    \/ Notify
    \/ MainStep
    \/ MainTimeout \/ LoopEnd \/ RunBegin

Spec == Init /\ [][Next]_vars

(* The main thread and a caller inside a NIF run on; nobody has to call,   *)
(* libspotify has to notify nobody, and nobody wakes up by accident.       *)
Fairness == WF_vars(MainStep) /\ \A c \in Callers : WF_vars(CallerStep(c))

FairSpec == Spec /\ Fairness

-----------------------------------------------------------------------------
(* The type of every variable.                                             *)
TypeOK ==
    /\ cmd \in Cmds \union {"none"}
    /\ cmd_arg1 \in Callers \union {NULL}
    /\ cmd_error_msg \in Callers \union {NULL}
    /\ cmd_result \in {"OK", "ERROR", "LOADING"}
    /\ notify_events \in BOOLEAN
    /\ mpc \in {"loop", "waiting", "awake", "events", "begin", "execute", "signal", "ended"}
    /\ mcmd \in Cmds \union {"none"}
    /\ pc \in [Callers -> {"idle", "posted", "asleep", "stranded", "woken"}]
    /\ want \in [Callers -> Cmds \union {"none"}]
    /\ error_msg \in [Callers -> {"garbage", "null", "text"}]
    /\ posted \in Callers \union {NULL}
    /\ serving \in Callers \union {NULL}
    /\ served \in [Callers -> {"no", "OK", "ERROR", "LOADING"}]
    /\ answer \in [Callers -> {"none", "OK", "ERROR", "LOADING"}]
    /\ dropped \subseteq Callers
    /\ disturbed \in BOOLEAN

(* No lost wakeup on notify_cond: whatever threads call and notify, the    *)
(* main thread never sleeps on a command or an event, timed or not.        *)
MainAwake == mpc = "waiting" => cmd = "none" /\ ~notify_events

(* Every notification is followed by a call of sp_session_process_events   *)
(* that starts after it, however many commands are sent, or by the end of  *)
(* the session; and a notification that the session has left is processed  *)
(* in the next one.                                                        *)
EventsProcessed == notify_events ~> (mpc = "events" /\ ~notify_events) \/ mpc = "ended"

(* Unless calls have overlapped, a caller that is about to read cmd_result *)
(* finds the result of its own command in it.                              *)
AnswerIsOwn ==
    ~disturbed => \A c \in Callers : pc[c] = "woken" => cmd_result = served[c]

(* Unless calls have overlapped, the pointers into the caller's stack are  *)
(* used while the call lasts; cmd_arg1 points to the argument of the       *)
(* command that is carried out; and error_msg points to a message when     *)
(* player_load passes it to make_binary: it is not NULL or uninitialised.  *)
FramesSound ==
    ~disturbed =>
        /\ mpc \in {"begin", "execute"} =>
               /\ cmd_error_msg = serving /\ serving # NULL
               /\ pc[serving] \in {"posted", "asleep"}
               /\ HasArg(mcmd) => cmd_arg1 = serving /\ want[serving] = mcmd
        /\ \A c \in Callers : pc[c] = "woken" /\ cmd_result = "ERROR" => error_msg[c] = "text"

(* What passes between a caller and the main thread is sound in both       *)
(* directions: pointers on the way in, the result on the way out.          *)
CallsSound == FramesSound /\ AnswerIsOwn

(* If calls never overlap and libspotify is quiet at last, a caller that   *)
(* sleeps before its command is carried out is answered, unless the main   *)
(* loop ends first.                                                        *)
SleeperAnswered ==
    \A c \in Callers : []~disturbed /\ <>[]~notify_events =>
        ((pc[c] = "asleep" /\ c \in {posted, serving} /\ served[c] = "no")
             ~> (pc[c] = "idle" \/ mpc = "ended"))

(* As long as calls do not overlap, the command channel is a service that  *)
(* carries each command out at most once, in the session of its call, and  *)
(* only then lets the call return, with the result of that command: no     *)
(* call returns what another command left in cmd_result, and a command     *)
(* that the end of a session drops is not carried out in the next one.     *)
Service == INSTANCE CommandService WITH asked <- want, void <- disturbed

ServiceSpec == Service!Spec

(* test/espotify_api_playback_SUITE.erl:79-80 call player_load and         *)
(* player_unload and expect ok: the call returns, if the session goes on.  *)
CallReturns ==
    \A c \in Callers :
        [](mpc # "ended") /\ <>[]~notify_events => (pc[c] = "posted" ~> pc[c] = "idle")
==============================================================================
