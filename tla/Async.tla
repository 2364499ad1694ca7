-------------------------------- MODULE Async --------------------------------
(***************************************************************************)
(* c_src/espotify_async.c: the feedback queue of the NIF library, its      *)
(* delivery thread thr_main, and the table of outstanding request          *)
(* references (ref_env, ref_cnt) that lives in the same async_state_t.     *)
(*                                                                         *)
(* Threads are the threads that call into it: Erlang scheduler threads     *)
(* inside a NIF and the "espotify main loop" thread inside a libspotify    *)
(* callback.  head, tail and next are only touched with queue->lock held,  *)
(* so a critical section is one step; ref_cnt, ref_env and the start-up    *)
(* writes of thr_main are not protected by it, so each access to them is a *)
(* step of its own.                                                        *)
(***************************************************************************)
EXTENDS Integers, Sequences, FiniteSets

CONSTANTS
    Threads,   (* callers of make_ref and of the esp_*_feedback functions  *)
    Items,     (* feedback messages; an item stands for its qitem_t too    *)
    Replies,   (* the items that answer a request and carry its reference  *)
    Pids,      (* Erlang processes                                         *)
    Garbage,   (* what ref_cnt may hold before thr_main sets it            *)
    NULL       (* the null pointer                                         *)

ASSUME AsyncAssumption ==
    /\ Replies \subseteq Items
    /\ NULL \notin Items
    /\ NULL \notin Threads
    /\ Garbage \subseteq Int

VARIABLES
    lock,      (* holder of queue->lock: a thread or NULL                  *)
    head,      (* queue->head                                              *)
    tail,      (* queue->tail                                              *)
    next,      (* item->next                                               *)
    stopping,  (* queue->stopping, uninitialised until thr_main sets it    *)
    allocated, (* the qitem_t's that are allocated                         *)
    contents,  (* auxiliary: the items in the queue, oldest first          *)
    pc,        (* where each thread is                                     *)
    item,      (* the item each thread works on                            *)
    cnt,       (* the value of ref_cnt each thread has read                *)
    cpc,       (* where thr_main is                                        *)
    citem,     (* the item thr_main has popped                             *)
    upc,       (* progress of the NIF unload callback                      *)
    pid,       (* state->pid                                               *)
    inbox,     (* what each process has received from enif_send            *)
    ref_env,   (* the references whose terms are alive in state->ref_env   *)
    ref_cnt,   (* state->ref_cnt                                           *)
    ref,       (* life of the reference of each reply                      *)
    raced      (* auxiliary: two updates of ref_cnt have overlapped, the   *)
               (* initialisation of ref_env and ref_cnt counting as one    *)

queueVars  == <<head, tail, next, allocated, contents>>
threadVars == <<pc, item, cnt>>
thrVars    == <<cpc, citem>>
refVars    == <<ref_env, ref_cnt, ref, raced>>
vars == <<lock, queueVars, stopping, threadVars, thrVars, upc, pid, inbox, refVars>>

Init ==
    /\ lock = NULL
    /\ head = NULL /\ tail = NULL
    /\ next = [i \in Items |-> NULL]
    /\ stopping \in BOOLEAN
    /\ allocated = {}
    /\ contents = <<>>
    /\ pc = [t \in Threads |-> "idle"]
    /\ item = [t \in Threads |-> NULL]
    /\ cnt = [t \in Threads |-> 0]
    /\ cpc = "start"
    /\ citem = NULL
    /\ upc = "loaded"
    /\ pid \in Pids
    /\ inbox = [p \in Pids |-> <<>>]
    /\ ref_env = {}
    /\ ref_cnt \in Garbage
    /\ ref = [r \in Replies |-> "none"]
    /\ raced = FALSE

(* A thread may enter the library: it is between calls and no unload has   *)
(* begun (the VM unloads a library that nobody executes).                  *)
CanCall(t) == pc[t] = "idle" /\ upc = "loaded"

Goto(t, place) == pc' = [pc EXCEPT ![t] = place]

(* thr_main has yet to store the first value of ref_cnt.                   *)
Uninitialised == cpc \in {"start", "envset"}

(* A thread that loads ref_cnt races with one that has yet to store it.    *)
LoadRefCnt(t) ==
    /\ cnt' = [cnt EXCEPT ![t] = ref_cnt]
    /\ raced' = (raced \/ Uninitialised
                       \/ \E u \in Threads : pc[u] \in {"counting", "uncounting"})

(* Mutant: the signal is left out, or is sent before thr_main waits.       *)
SignalLost == cpc

(* The state of thr_main after a signal on queue->cond.                    *)
Signalled == IF cpc = "waiting" THEN "popping" ELSE cpc

-----------------------------------------------------------------------------
(* async_make_ref, unlocked: create the term and load ref_cnt ...          *)
(* Before thr_main has set ref_env there is no environment to create a     *)
(* term in: a call that early takes the VM down, and nothing follows it.   *)
MakeRef(t, r) ==
    /\ CanCall(t)
    /\ cpc # "start"
    /\ ref[r] = "none"
    /\ ref' = [ref EXCEPT ![r] = "made"]
    /\ ref_env' = ref_env \union {r}
    /\ LoadRefCnt(t)
    /\ item' = [item EXCEPT ![t] = r]
    /\ Goto(t, "counting")
    /\ UNCHANGED <<lock, queueVars, stopping, thrVars, upc, pid, inbox, ref_cnt>>

(* ... and store ref_cnt + 1.                                              *)
CountRef(t) ==
    /\ pc[t] = "counting"
    /\ ref_cnt' = cnt[t] + 1
    /\ ref' = [ref EXCEPT ![item[t]] = "counted"]
    /\ item' = [item EXCEPT ![t] = NULL]
    /\ cnt' = [cnt EXCEPT ![t] = 0]
    /\ Goto(t, "idle")
    /\ UNCHANGED <<lock, queueVars, stopping, thrVars, upc, pid, inbox, ref_env, raced>>

(* A request that fails, is dropped with the load queue or is never handed *)
(* to libspotify: its reference is returned by nobody.                     *)
DropRef(r) ==
    /\ upc = "loaded"
    /\ ref[r] = "counted"
    /\ \A t \in Threads : item[t] # r
    /\ ref' = [ref EXCEPT ![r] = "dropped"]
    /\ UNCHANGED <<lock, queueVars, stopping, threadVars, thrVars, upc, pid,
                   inbox, ref_env, ref_cnt, raced>>

(* async_env_acquire: lock the queue while the message is built.           *)
Acquire(t, i) ==
    /\ CanCall(t)
    /\ lock = NULL
    /\ i \notin allocated
    /\ \A p \in Pids : \A k \in DOMAIN inbox[p] : inbox[p][k] # i
    /\ \A u \in Threads : item[u] # i
    /\ i \in Replies => ref[i] = "counted"
    /\ lock' = t
    /\ item' = [item EXCEPT ![t] = i]
    /\ Goto(t, IF i \in Replies THEN "returning" ELSE "building")
    /\ UNCHANGED <<queueVars, stopping, cnt, thrVars, upc, pid, inbox, refVars>>

(* async_return_ref: copy the term, free the cell, load ref_cnt ...        *)
ReturnRef(t) ==
    /\ pc[t] = "returning"
    /\ ref' = [ref EXCEPT ![item[t]] = "returned"]
    /\ LoadRefCnt(t)
    /\ Goto(t, "uncounting")
    /\ UNCHANGED <<lock, queueVars, stopping, item, thrVars, upc, pid, inbox,
                   ref_env, ref_cnt>>

(* Mutant: the decrement of async_return_ref is missing.                   *)
UncountRefMissing(t) ==
    /\ pc[t] = "uncounting"
    /\ cnt' = [cnt EXCEPT ![t] = 0]
    /\ Goto(t, "building")
    /\ UNCHANGED <<lock, queueVars, stopping, item, thrVars, upc, pid, inbox, refVars>>

(* ... and store ref_cnt - 1.                                              *)
UncountRef(t) ==
    /\ pc[t] = "uncounting"
    /\ ref_cnt' = cnt[t] - 1
    /\ cnt' = [cnt EXCEPT ![t] = 0]
    /\ Goto(t, "building")
    /\ UNCHANGED <<lock, queueVars, stopping, item, thrVars, upc, pid, inbox,
                   ref_env, ref, raced>>

(* async_env_release_and_send, first half: unlock.                         *)
Release(t) ==
    /\ pc[t] = "building"
    /\ lock' = NULL
    /\ Goto(t, "pushing")
    /\ UNCHANGED <<queueVars, stopping, item, cnt, thrVars, upc, pid, inbox, refVars>>

(* Mutant: queue_push sets queue->head whether or not the queue is empty.  *)
HeadOverwritten(i) == i

(* queue->head and the next pointers once item i is linked in.             *)
HeadAfterPush(i) == IF head = NULL THEN i ELSE head
NextAfterPush(i) == IF tail = NULL THEN [next EXCEPT ![i] = NULL]
                                   ELSE [next EXCEPT ![i] = NULL, ![tail] = i]

(* queue_push: link the item behind the tail and signal, under the lock.   *)
Push(t) ==
    /\ pc[t] = "pushing"
    /\ lock = NULL
    /\ LET i == item[t] IN
         /\ allocated' = allocated \union {i}
         /\ next' = NextAfterPush(i)
         /\ tail' = i
         /\ head' = HeadAfterPush(i)
         /\ contents' = Append(contents, i)
    /\ cpc' = Signalled
    /\ item' = [item EXCEPT ![t] = NULL]
    /\ Goto(t, "idle")
    /\ UNCHANGED <<lock, stopping, cnt, citem, upc, pid, inbox, refVars>>

(* async_set_pid, from the start and set_pid NIFs.                         *)
SetPid(t, p) ==
    /\ CanCall(t)
    /\ pid' = p
    /\ UNCHANGED <<lock, queueVars, stopping, threadVars, thrVars, upc, inbox, refVars>>

-----------------------------------------------------------------------------
(* thr_main: allocate the environment of the references ...                *)
InitRefEnv ==
    /\ cpc = "start"
    /\ ref_env' = {}
    /\ cpc' = "envset"
    /\ UNCHANGED <<lock, queueVars, stopping, threadVars, citem, upc, pid, inbox,
                   ref_cnt, ref, raced>>

(* ... set ref_cnt to 0, whatever has been made since ...                  *)
InitRefCnt ==
    /\ cpc = "envset"
    /\ ref_cnt' = 0
    /\ cpc' = "starting"
    /\ UNCHANGED <<lock, queueVars, stopping, threadVars, citem, upc, pid, inbox,
                   ref_env, ref, raced>>

(* ... and give queue->stopping its first value.                           *)
InitStopping ==
    /\ cpc = "starting"
    /\ stopping' = FALSE
    /\ cpc' = "popping"
    /\ UNCHANGED <<lock, queueVars, threadVars, citem, upc, pid, inbox, refVars>>

(* queue_pop: sleep on queue->cond while there is nothing to do.           *)
PopWait ==
    /\ cpc = "popping"
    /\ lock = NULL
    /\ head = NULL /\ ~stopping
    /\ cpc' = "waiting"
    /\ UNCHANGED <<lock, queueVars, stopping, threadVars, citem, upc, pid, inbox, refVars>>

(* enif_cond_wait may return without a signal.                             *)
SpuriousWakeup ==
    /\ cpc = "waiting"
    /\ cpc' = "popping"
    /\ UNCHANGED <<lock, queueVars, stopping, threadVars, citem, upc, pid, inbox, refVars>>

(* Mutant: queue_pop leaves queue->tail on the last item it took out.      *)
TailKept == tail

(* queue->tail once the head is taken out.                                 *)
TailAfterPop == IF next[head] = NULL THEN NULL ELSE tail

(* queue_pop: unlink the head.                                             *)
PopItem ==
    /\ cpc = "popping"
    /\ lock = NULL
    /\ head # NULL /\ ~stopping
    /\ citem' = head
    /\ head' = next[head]
    /\ next' = [next EXCEPT ![head] = NULL]
    /\ tail' = TailAfterPop
    /\ contents' = Tail(contents)
    /\ cpc' = "sending"
    /\ UNCHANGED <<lock, allocated, stopping, threadVars, upc, pid, inbox, refVars>>

(* Mutant: queue_pop that goes on with queue->head when it is stopping.    *)
PopStopFallsThrough ==
    /\ cpc = "popping"
    /\ lock = NULL
    /\ stopping
    /\ citem' = head
    /\ cpc' = "sending"
    /\ UNCHANGED <<lock, queueVars, stopping, threadVars, upc, pid, inbox, refVars>>

(* queue_pop: a stopping queue yields NULL, and thr_main returns.          *)
PopStop ==
    /\ cpc = "popping"
    /\ lock = NULL
    /\ stopping
    /\ cpc' = "exited"
    /\ UNCHANGED <<lock, queueVars, stopping, threadVars, citem, upc, pid, inbox, refVars>>

(* thr_main: enif_send to the pid of this moment, then free the item.      *)
Send ==
    /\ cpc = "sending"
    /\ inbox' = [inbox EXCEPT ![pid] = Append(@, citem)]
    /\ allocated' = allocated \ {citem}
    /\ citem' = NULL
    /\ cpc' = "checking"
    /\ UNCHANGED <<lock, head, tail, next, contents, stopping, threadVars, upc,
                   pid, refVars>>

(* thr_main: look at ref_cnt without the lock ...                          *)
CheckRefs ==
    /\ cpc = "checking"
    /\ cpc' = IF ref_cnt = 0 THEN "clearing" ELSE "popping"
    /\ UNCHANGED <<lock, queueVars, stopping, threadVars, citem, upc, pid, inbox, refVars>>

(* ... and clear the environment of every reference term.                  *)
ClearRefs ==
    /\ cpc = "clearing"
    /\ ref_env' = {}
    /\ cpc' = "popping"
    /\ UNCHANGED <<lock, queueVars, stopping, threadVars, citem, upc, pid, inbox,
                   ref_cnt, ref, raced>>

-----------------------------------------------------------------------------
(* unload -> async_stop -> queue_stop.                                     *)
QueueStop ==
    /\ upc = "loaded"
    /\ \A t \in Threads : pc[t] = "idle"
    /\ lock = NULL
    /\ stopping' = TRUE
    /\ cpc' = Signalled
    /\ upc' = "joining"
    /\ UNCHANGED <<lock, queueVars, threadVars, citem, pid, inbox, refVars>>

(* async_stop: join thr_main, then destroy the queue with what is in it.   *)
Join ==
    /\ upc = "joining"
    /\ cpc = "exited"
    /\ upc' = "unloaded"
    /\ UNCHANGED <<lock, queueVars, stopping, threadVars, thrVars, pid, inbox, refVars>>

-----------------------------------------------------------------------------
ThreadStep(t) ==
    \/ CountRef(t) \/ ReturnRef(t) \/ UncountRef(t) \/ Release(t) \/ Push(t)

ThrMain ==
    \/ InitRefEnv \/ InitRefCnt \/ InitStopping \/ PopWait \/ PopItem \/ PopStop
    \/ Send \/ CheckRefs \/ ClearRefs

Next ==
    \/ \E t \in Threads, r \in Replies : MakeRef(t, r)
    \/ \E r \in Replies : DropRef(r)
    \/ \E t \in Threads, i \in Items : Acquire(t, i)
    \/ \E t \in Threads : ThreadStep(t)
    \/ \E t \in Threads, p \in Pids : SetPid(t, p)
    \/ ThrMain
    \/ SpuriousWakeup
    \/ QueueStop
    \/ Join

Spec == Init /\ [][Next]_vars

(* A thread inside the library runs on, and so does thr_main; nobody has   *)
(* to call, to unload or to wake up by accident.                           *)
Fairness ==
    /\ \A t \in Threads : WF_vars(ThreadStep(t))
    /\ WF_vars(ThrMain)
    /\ WF_vars(Join)

FairSpec == Spec /\ Fairness

-----------------------------------------------------------------------------
Received(i) == \E p \in Pids : \E k \in DOMAIN inbox[p] : inbox[p][k] = i

(* The type of every variable.                                             *)
TypeOK ==
    /\ lock \in Threads \union {NULL}
    /\ head \in Items \union {NULL}
    /\ tail \in Items \union {NULL}
    /\ next \in [Items -> Items \union {NULL}]
    /\ stopping \in BOOLEAN
    /\ allocated \subseteq Items
    /\ contents \in Seq(Items)
    /\ pc \in [Threads -> {"idle", "counting", "returning", "uncounting",
                           "building", "pushing"}]
    /\ item \in [Threads -> Items \union {NULL}]
    /\ cnt \in [Threads -> Int]
    /\ cpc \in {"start", "envset", "starting", "popping", "waiting", "sending",
                "checking", "clearing", "exited"}
    /\ citem \in Items \union {NULL}
    /\ upc \in {"loaded", "joining", "unloaded"}
    /\ pid \in Pids
    /\ inbox \in [Pids -> Seq(Items)]
    /\ ref_env \subseteq Replies
    /\ ref_cnt \in Int
    /\ ref \in [Replies -> {"none", "made", "counted", "returned", "dropped"}]
    /\ raced \in BOOLEAN

(* The linked list between queue->head and queue->tail is exactly the      *)
(* sequence of pushed and not yet popped items: pushes and pops of any     *)
(* threads never cut the list, close it into a ring or leave queue->tail   *)
(* on an item that is no longer in it.                                     *)
ListShape ==
    /\ contents = <<>> => head = NULL /\ tail = NULL
    /\ contents # <<>> => /\ head = contents[1]
                         /\ tail = contents[Len(contents)]
                         /\ next[tail] = NULL
    /\ \A k \in 1 .. Len(contents) - 1 : next[contents[k]] = contents[k + 1]

(* What queue_push and queue_pop dereference is allocated: thr_main never  *)
(* frees an item that the queue still reaches, nor one it has yet to send. *)
NoFreedItem ==
    /\ {head, tail} \ {NULL} \subseteq allocated \ {citem}
    /\ \A k \in DOMAIN contents : contents[k] \in allocated \ {citem}
    /\ cpc = "sending" => citem \in allocated
    /\ \A j, k \in DOMAIN contents : contents[j] = contents[k] => j = k

(* The list and its memory are sound together.                             *)
ListSound == ListShape /\ NoFreedItem

(* No lost wakeup: thr_main never sleeps on queue->cond while the queue    *)
(* holds an item or has been told to stop.                                 *)
NoSleepOnWork == cpc = "waiting" => head = NULL /\ ~stopping

(* As long as no two updates of ref_cnt have overlapped, it is between     *)
(* them the number of references made and not returned, whichever threads  *)
(* make and return them.  Updates that overlap lose count, and so does a   *)
(* reference made before thr_main sets ref_cnt to 0: its start-up counts   *)
(* as an update, and ref_cnt holds anything until it is over.              *)
RefCntExact ==
    ~raced /\ ~Uninitialised
           /\ (\A t \in Threads : pc[t] \notin {"counting", "uncounting"})
        => ref_cnt = Cardinality({r \in Replies : ref[r] \in {"counted", "dropped"}})

(* src/espotify_api.erl:8-10: the reference a call returned can later be   *)
(* used to identify its callback message, so its term stays alive in       *)
(* ref_env until async_return_ref copies it, at the least if no two        *)
(* updates of ref_cnt have overlapped.                                     *)
OutstandingRefsLive ==
    ~raced => \A r \in Replies : ref[r] = "counted" => r \in ref_env

(* The feedback path is a FIFO channel: what thr_main has in hand is still *)
(* pending, and the channel closes when thr_main returns.                  *)
Channel == INSTANCE FeedbackChannel WITH
    pending <- IF citem = NULL THEN contents ELSE <<citem>> \o contents,
    open    <- cpc # "exited"

ChannelSpec == Channel!Spec

(* Every pushed message is delivered, unless the library is unloaded.      *)
PushedIsDelivered ==
    \A i \in Items :
        (\E k \in DOMAIN contents : contents[k] = i) ~> (Received(i) \/ upc # "loaded")

(* A stop that thr_main can see, asleep or not, ends the join.             *)
StopHonoured ==
    (upc = "joining" /\ stopping /\ ~Uninitialised /\ cpc # "starting")
        ~> upc = "unloaded"

(* c_src/espotify.c:469 "wait for async thread to exit": the wait ends.    *)
UnloadTerminates == (upc = "joining") ~> (upc = "unloaded")
==============================================================================
