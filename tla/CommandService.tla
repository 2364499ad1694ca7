---------------------------- MODULE CommandService ----------------------------
(***************************************************************************)
(* What the command channel of spotifyctl.c promises to a NIF, with no     *)
(* mutexes, condition variables, pointers or shared result: each call is   *)
(* carried out by the main thread at most once, in the session in which it *)
(* was made, and returns after that, with the result of its own command.   *)
(* The promise is void from the moment that two processes call at once.    *)
(***************************************************************************)
CONSTANTS
    Callers,       (* the threads that call player_load, player_play, ...  *)
    Cmds,          (* the commands                                         *)
    Outcomes(_)    (* the results each command may have                    *)

VARIABLES
    asked,    (* the command each caller waits for, or "none"              *)
    served,   (* its result once it has been carried out, "no" until then  *)
    answer,   (* what each caller's last call returned                     *)
    dropped,  (* the callers whose session ended before that               *)
    void      (* the promise no longer holds                               *)

vars == <<asked, served, answer, dropped, void>>

Init ==
    /\ asked = [c \in Callers |-> "none"]
    /\ served = [c \in Callers |-> "no"]
    /\ answer = [c \in Callers |-> "none"]
    /\ dropped = {}
    /\ void = FALSE

Call(c, k) ==
    /\ \A d \in Callers : asked[d] = "none"
    /\ asked' = [asked EXCEPT ![c] = k]
    /\ answer' = [answer EXCEPT ![c] = "none"]
    /\ UNCHANGED <<served, dropped>>

CarryOut(c, o) ==
    /\ asked[c] # "none"
    /\ served[c] = "no"
    /\ c \notin dropped
    /\ o \in Outcomes(asked[c])
    /\ served' = [served EXCEPT ![c] = o]
    /\ UNCHANGED <<asked, answer, dropped>>

Answer(c) ==
    /\ served[c] # "no"
    /\ answer' = [answer EXCEPT ![c] = served[c]]
    /\ asked' = [asked EXCEPT ![c] = "none"]
    /\ served' = [served EXCEPT ![c] = "no"]
    /\ UNCHANGED dropped

(* The session ends: what has not been carried out never is.               *)
EndSession ==
    /\ dropped' = dropped \union {c \in Callers : asked[c] # "none" /\ served[c] = "no"}
    /\ UNCHANGED <<asked, served, answer>>

Next ==
    \/ /\ \/ \E c \in Callers :
                \/ \E k \in Cmds : Call(c, k)
                \/ \E o \in {"OK", "ERROR", "LOADING"} : CarryOut(c, o)
                \/ Answer(c)
          \/ EndSession
       /\ UNCHANGED void
    \/ void' = TRUE

Spec == Init /\ [][Next]_vars
==============================================================================
