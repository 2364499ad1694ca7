--------------------------- MODULE FeedbackChannel ---------------------------
(***************************************************************************)
(* What the feedback path of espotify_async.c promises to the Erlang side, *)
(* with no locks, no pointers and no threads: feedback pushed by any       *)
(* thread reaches the process that is the callback pid at the moment of    *)
(* delivery, once, in the order it was pushed, until the library is        *)
(* unloaded.  Async.tla is shown to implement it.                          *)
(***************************************************************************)
EXTENDS Sequences

CONSTANTS
    Items,   (* the feedback messages                                      *)
    Pids     (* the Erlang processes that may be the callback pid          *)

VARIABLES
    pending,  (* pushed and not delivered, oldest first                    *)
    inbox,    (* what each process has received, in order                  *)
    pid,      (* the current callback pid                                  *)
    open      (* FALSE once the library is unloaded                        *)

vars == <<pending, inbox, pid, open>>

Init ==
    /\ pending = <<>>
    /\ inbox = [p \in Pids |-> <<>>]
    /\ pid \in Pids
    /\ open = TRUE

(* A thread hands over one more feedback message.                          *)
Push(i) ==
    /\ open
    /\ pending' = Append(pending, i)
    /\ UNCHANGED <<inbox, pid, open>>

(* The oldest message reaches the current callback pid.                    *)
Deliver ==
    /\ open
    /\ pending # <<>>
    /\ inbox' = [inbox EXCEPT ![pid] = Append(@, Head(pending))]
    /\ pending' = Tail(pending)
    /\ UNCHANGED <<pid, open>>

SetPid(p) ==
    /\ pid' = p
    /\ UNCHANGED <<pending, inbox, open>>

(* Unloading the library; what is still pending is never delivered.        *)
Close ==
    /\ open
    /\ open' = FALSE
    /\ UNCHANGED <<pending, inbox, pid>>

Next ==
    \/ \E i \in Items : Push(i)
    \/ Deliver
    \/ \E p \in Pids : SetPid(p)
    \/ Close

Spec == Init /\ [][Next]_vars
==============================================================================
