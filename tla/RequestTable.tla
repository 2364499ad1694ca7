----------------------------- MODULE RequestTable -----------------------------
(***************************************************************************)
(* What espotify promises for the reference that a NIF makes and returns   *)
(* to Erlang, with no list, callbacks, objects or threads: a request is    *)
(* refused, or it is open until a message with its reference is sent, at   *)
(* once or later; after that nothing is sent with it.  The promise becomes *)
(* void for requests that are used as the code cannot stand.               *)
(***************************************************************************)
CONSTANT Requests   (* calls of the NIFs, each with a reference of its own *)

VARIABLES
    state,   (* each request: "free" before it is made, "refused", "open", *)
             (* "answered"; "wrong" once it is answered again              *)
    void     (* the requests for which the promise does not hold           *)

vars == <<state, void>>

States == {"free", "refused", "open", "answered", "wrong"}

Init ==
    /\ state = [r \in Requests |-> "free"]
    /\ void = {}

(* A request is refused, made or answered; an open one may be answered.    *)
Moves == ({"free"} \X {"refused", "open", "answered"}) \union {<<"open", "answered">>}

(* Requests change their states one at a time, and only so.                *)
Next ==
    /\ state' \in [Requests -> States]
    /\ void' \in SUBSET Requests /\ void \subseteq void'
    /\ LET moved == {r \in Requests \ void' : state'[r] # state[r]}
       IN  /\ \A r \in moved : <<state[r], state'[r]>> \in Moves
           /\ \A r, s \in moved : r = s

Spec == Init /\ [][Next]_vars
==============================================================================
