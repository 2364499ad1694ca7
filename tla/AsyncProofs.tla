----------------------------- MODULE AsyncProofs -----------------------------
(***************************************************************************)
(* Theorems about Async.tla for any threads, items, replies and processes: *)
(* its types, the shape of the feedback queue, the memory it reaches, the  *)
(* absence of lost wakeups, and that it implements FeedbackChannel.        *)
(***************************************************************************)
EXTENDS Async, SequenceTheorems, FiniteSetTheorems, TLAPS

(* A thread that carries an item which is not in the queue yet.            *)
Carrying(t) == pc[t] \in {"returning", "uncounting", "building", "pushing"}

(* Every item is carried by at most one thread, or is allocated: then it   *)
(* is in the queue once, or in the hands of thr_main.                      *)
OneOwner ==
    /\ \A t \in Threads : Carrying(t) => item[t] \in Items \ allocated
    /\ \A t, u \in Threads :
           Carrying(t) /\ Carrying(u) /\ item[t] = item[u] => t = u
    /\ \A t \in Threads : pc[t] = "counting" => item[t] \in Replies
    /\ cpc = "sending" => citem \in allocated
    /\ cpc # "sending" => citem = NULL
    /\ \A k \in DOMAIN contents : contents[k] \in allocated \ {citem}
    /\ \A j, k \in DOMAIN contents : contents[j] = contents[k] => j = k

(* Nobody is inside the library once it is being unloaded, and thr_main    *)
(* sees a stop only from then on.                                          *)
UnloadOrder ==
    /\ upc # "loaded" => \A t \in Threads : pc[t] = "idle"
    /\ cpc \notin {"start", "envset", "starting"} /\ stopping => upc # "loaded"
    /\ cpc = "exited" => stopping

IInv ==
    /\ TypeOK
    /\ OneOwner
    /\ UnloadOrder
    /\ ListShape
    /\ NoSleepOnWork

-----------------------------------------------------------------------------
(* Append and Tail keep the elements of a sequence in a set and distinct.  *)
LEMMA AppendKeeps ==
    ASSUME NEW S, NEW A, NEW s \in Seq(S), NEW e \in S
    PROVE  /\ e \in A /\ (\A k \in DOMAIN s : s[k] \in A)
                => \A k \in DOMAIN Append(s, e) : Append(s, e)[k] \in A
           /\ (\A k \in DOMAIN s : s[k] # e)
              /\ (\A j, k \in DOMAIN s : s[j] = s[k] => j = k)
                => \A j, k \in DOMAIN Append(s, e) :
                       Append(s, e)[j] = Append(s, e)[k] => j = k
<1>1. /\ Len(s) \in Nat /\ DOMAIN s = 1 .. Len(s)
      /\ DOMAIN Append(s, e) = 1 .. Len(s) + 1
      /\ \A k \in 1 .. Len(s) : Append(s, e)[k] = s[k]
      /\ Append(s, e)[Len(s) + 1] = e
  OBVIOUS
<1> QED
  BY <1>1

LEMMA TailKeeps ==
    ASSUME NEW S, NEW A, NEW s \in Seq(S), s # <<>>
    PROVE  /\ (\A k \in DOMAIN s : s[k] \in A)
                => \A k \in DOMAIN Tail(s) : Tail(s)[k] \in A
           /\ (\A j, k \in DOMAIN s : s[j] = s[k] => j = k)
                => /\ \A k \in DOMAIN Tail(s) : Tail(s)[k] # s[1]
                   /\ \A j, k \in DOMAIN Tail(s) : Tail(s)[j] = Tail(s)[k] => j = k
<1>1. /\ Len(s) \in Nat \ {0} /\ DOMAIN s = 1 .. Len(s)
      /\ DOMAIN Tail(s) = 1 .. Len(s) - 1
      /\ \A k \in 1 .. Len(s) - 1 : Tail(s)[k] = s[k + 1]
  OBVIOUS
<1>2. (\A k \in DOMAIN s : s[k] \in A) => \A k \in DOMAIN Tail(s) : Tail(s)[k] \in A
  BY <1>1
<1>3. ASSUME \A j, k \in DOMAIN s : s[j] = s[k] => j = k
      PROVE  /\ \A k \in DOMAIN Tail(s) : Tail(s)[k] # s[1]
             /\ \A j, k \in DOMAIN Tail(s) : Tail(s)[j] = Tail(s)[k] => j = k
  BY <1>1, <1>3
<1> QED
  BY <1>2, <1>3

LEMMA InitIInv == Init => IInv
<1> SUFFICES ASSUME Init PROVE IInv
  OBVIOUS
<1>0. raced \in BOOLEAN /\ stopping \in BOOLEAN
  BY DEF Init
<1>1. TypeOK
  BY <1>0, AsyncAssumption DEF Init, TypeOK
<1>2. OneOwner /\ UnloadOrder /\ ListShape /\ NoSleepOnWork
  BY AsyncAssumption DEF Init, OneOwner, Carrying, UnloadOrder, ListShape, NoSleepOnWork
<1> QED
  BY <1>1, <1>2 DEF IInv

(* Every step keeps the types; Push needs to know that the thread carries  *)
(* an item, PopItem that the head of a list is in it, Send that thr_main   *)
(* has popped something.                                                   *)
LEMMA TypeStep == TypeOK /\ OneOwner /\ ListShape /\ [Next]_vars => TypeOK'
<1> SUFFICES ASSUME TypeOK, OneOwner, ListShape, [Next]_vars PROVE TypeOK'
    OBVIOUS
<1> USE AsyncAssumption DEF TypeOK, Goto, queueVars, threadVars, thrVars, refVars
<1>1. ASSUME NEW t \in Threads, NEW r \in Replies, MakeRef(t, r) PROVE TypeOK'
  BY <1>1 DEF MakeRef, CanCall, LoadRefCnt
<1>2. ASSUME NEW r \in Replies, DropRef(r) PROVE TypeOK'
  BY <1>2 DEF DropRef
<1>3. ASSUME NEW t \in Threads, NEW i \in Items, Acquire(t, i) PROVE TypeOK'
  BY <1>3 DEF Acquire, CanCall
<1>4. ASSUME NEW t \in Threads, CountRef(t) PROVE TypeOK'
  BY <1>4 DEF CountRef, OneOwner
<1>5. ASSUME NEW t \in Threads, ReturnRef(t) PROVE TypeOK'
  BY <1>5 DEF ReturnRef, LoadRefCnt
<1>6. ASSUME NEW t \in Threads, UncountRef(t) PROVE TypeOK'
  BY <1>6 DEF UncountRef
<1>7. ASSUME NEW t \in Threads, Release(t) PROVE TypeOK'
  BY <1>7 DEF Release
<1>8. ASSUME NEW t \in Threads, Push(t) PROVE TypeOK'
  <2>1. item[t] \in Items
    BY <1>8 DEF Push, OneOwner, Carrying
  <2>2. next' \in [Items -> Items \union {NULL}]
    BY <1>8, <2>1 DEF Push, NextAfterPush
  <2>3. contents' \in Seq(Items)
    BY <1>8, <2>1 DEF Push
  <2>4. head' \in Items \union {NULL} /\ tail' \in Items \union {NULL}
    BY <1>8, <2>1 DEF Push, HeadAfterPush
  <2> QED
    BY <1>8, <2>1, <2>2, <2>3, <2>4 DEF Push, Signalled
<1>9. ASSUME NEW t \in Threads, NEW p \in Pids, SetPid(t, p) PROVE TypeOK'
  BY <1>9 DEF SetPid
<1>10. CASE InitRefEnv \/ InitRefCnt
  BY <1>10 DEF InitRefEnv, InitRefCnt
<1>11. CASE InitStopping
  BY <1>11 DEF InitStopping
<1>12. CASE PopWait
  BY <1>12 DEF PopWait
<1>13. CASE PopItem
  <2>1. head \in Items /\ contents # <<>>
    BY <1>13 DEF PopItem, ListShape
  <2>2. contents' \in Seq(Items)
    BY <1>13, <2>1 DEF PopItem
  <2> QED
    BY <1>13, <2>1, <2>2 DEF PopItem, TailAfterPop
<1>14. CASE PopStop
  BY <1>14 DEF PopStop
<1>15. CASE Send
  <2>1. citem \in Items
    BY <1>15 DEF Send, OneOwner
  <2>2. inbox' \in [Pids -> Seq(Items)]
    BY <1>15, <2>1 DEF Send
  <2> QED
    BY <1>15, <2>1, <2>2 DEF Send
<1>16. CASE CheckRefs
  BY <1>16 DEF CheckRefs
<1>17. CASE ClearRefs
  BY <1>17 DEF ClearRefs
<1>18. CASE SpuriousWakeup
  BY <1>18 DEF SpuriousWakeup
<1>19. CASE QueueStop
  BY <1>19 DEF QueueStop, Signalled
<1>20. CASE Join
  BY <1>20 DEF Join
<1>21. CASE UNCHANGED vars
  BY <1>21 DEF vars
<1> QED
  BY <1>1, <1>2, <1>3, <1>4, <1>5, <1>6, <1>7, <1>8, <1>9, <1>10, <1>11, <1>12,
     <1>13, <1>14, <1>15, <1>16, <1>17, <1>18, <1>19, <1>20, <1>21
     DEF Next, ThreadStep, ThrMain

-----------------------------------------------------------------------------
LEMMA OwnerStep == IInv /\ TypeOK' /\ [Next]_vars => OneOwner'
<1> SUFFICES ASSUME TypeOK, OneOwner, ListShape, TypeOK', [Next]_vars
             PROVE  OneOwner'
    BY DEF IInv
<1> USE AsyncAssumption
        DEF TypeOK, OneOwner, Carrying, Goto, queueVars, threadVars, thrVars, refVars
<1>1. ASSUME NEW t \in Threads, NEW r \in Replies, MakeRef(t, r) PROVE OneOwner'
  BY <1>1 DEF MakeRef, CanCall
<1>2. ASSUME NEW r \in Replies, DropRef(r) PROVE OneOwner'
  BY <1>2 DEF DropRef
<1>3. ASSUME NEW t \in Threads, NEW i \in Items, Acquire(t, i) PROVE OneOwner'
  BY <1>3 DEF Acquire, CanCall
<1>4. ASSUME NEW t \in Threads, CountRef(t) PROVE OneOwner'
  BY <1>4 DEF CountRef
<1>5. ASSUME NEW t \in Threads, ReturnRef(t) PROVE OneOwner'
  BY <1>5 DEF ReturnRef
<1>6. ASSUME NEW t \in Threads, UncountRef(t) PROVE OneOwner'
  BY <1>6 DEF UncountRef
<1>7. ASSUME NEW t \in Threads, Release(t) PROVE OneOwner'
  BY <1>7 DEF Release
<1>8. ASSUME NEW t \in Threads, Push(t) PROVE OneOwner'
  <2> DEFINE i == item[t]
  <2>1. i \in Items \ allocated
    BY <1>8 DEF Push
  <2>2. contents' = Append(contents, i)
    BY <1>8 DEF Push
  <2>3. allocated' = allocated \union {i} /\ citem' = citem
    BY <1>8 DEF Push
  <2>4. citem # i
    BY <2>1
  <2>5. \A u \in Threads : (Carrying(u))' => u # t /\ Carrying(u) /\ item'[u] = item[u]
    BY <1>8 DEF Push
  <2>6. \A u \in Threads : (Carrying(u))' => item'[u] \in Items \ allocated'
    BY <1>8, <2>3, <2>5 DEF Push
  <2>7. \A k \in DOMAIN contents' : contents'[k] \in allocated' \ {citem'}
    <3>1. i \in allocated' \ {citem'}
      BY <2>1, <2>3, <2>4
    <3>2. \A k \in DOMAIN contents : contents[k] \in allocated' \ {citem'}
      BY <2>3
    <3> QED
      BY <2>1, <2>2, <3>1, <3>2, AppendKeeps
  <2>8. \A j, k \in DOMAIN contents' : contents'[j] = contents'[k] => j = k
    <3>1. \A k \in DOMAIN contents : contents[k] # i
      BY <2>1
    <3> QED
      BY <2>1, <2>2, <3>1, AppendKeeps
  <2>9. cpc' = "sending" <=> cpc = "sending"
    BY <1>8 DEF Push, Signalled
  <2>10. \A u \in Threads : pc'[u] = "counting" => item'[u] \in Replies
    BY <1>8 DEF Push
  <2> QED
    BY <2>3, <2>5, <2>6, <2>7, <2>8, <2>9, <2>10
<1>9. ASSUME NEW t \in Threads, NEW p \in Pids, SetPid(t, p) PROVE OneOwner'
  BY <1>9 DEF SetPid
<1>10. CASE InitRefEnv \/ InitRefCnt
  BY <1>10 DEF InitRefEnv, InitRefCnt
<1>11. CASE InitStopping
  BY <1>11 DEF InitStopping
<1>12. CASE PopWait
  BY <1>12 DEF PopWait
<1>13. CASE PopItem
  <2>1. contents # <<>> /\ head = contents[1]
    BY <1>13 DEF PopItem, ListShape
  <2>2. contents' = Tail(contents)
    BY <1>13 DEF PopItem
  <2>3. citem' = contents[1] /\ allocated' = allocated
    BY <1>13, <2>1 DEF PopItem
  <2>4. \A k \in DOMAIN contents' : contents'[k] \in allocated' \ {citem'}
    <3>1. \A k \in DOMAIN contents : contents[k] \in allocated
      OBVIOUS
    <3> QED
      BY <2>1, <2>2, <2>3, <3>1, TailKeeps
  <2>5. \A j, k \in DOMAIN contents' : contents'[j] = contents'[k] => j = k
    BY <2>1, <2>2, TailKeeps
  <2> QED
    <3>1. citem' \in allocated'
      BY <2>1, <2>3
    <3> QED
      BY <1>13, <2>4, <2>5, <3>1 DEF PopItem
<1>14. CASE PopStop
  BY <1>14 DEF PopStop
<1>15. CASE Send
  BY <1>15 DEF Send
<1>16. CASE CheckRefs
  BY <1>16 DEF CheckRefs
<1>17. CASE ClearRefs
  BY <1>17 DEF ClearRefs
<1>18. CASE SpuriousWakeup
  BY <1>18 DEF SpuriousWakeup
<1>19. CASE QueueStop
  BY <1>19 DEF QueueStop, Signalled
<1>20. CASE Join
  BY <1>20 DEF Join
<1>21. CASE UNCHANGED vars
  BY <1>21 DEF vars
<1> QED
  BY <1>1, <1>2, <1>3, <1>4, <1>5, <1>6, <1>7, <1>8, <1>9, <1>10, <1>11, <1>12,
     <1>13, <1>14, <1>15, <1>16, <1>17, <1>18, <1>19, <1>20, <1>21
     DEF Next, ThreadStep, ThrMain

(* The only steps that touch the list are Push and PopItem.                *)
LEMMA ListStep == IInv /\ TypeOK' /\ [Next]_vars => ListShape'
<1> SUFFICES ASSUME TypeOK, OneOwner, ListShape, TypeOK', [Next]_vars
             PROVE  ListShape'
    BY DEF IInv
<1> USE AsyncAssumption
<1>0. /\ Len(contents) \in Nat /\ (contents = <<>> <=> Len(contents) = 0)
      /\ contents \in Seq(Items)
      /\ next \in [Items -> Items \union {NULL}]
      /\ \A k \in 1 .. Len(contents) : contents[k] \in Items /\ contents[k] \in allocated
      /\ \A j, k \in 1 .. Len(contents) : contents[j] = contents[k] => j = k
  BY DEF TypeOK, OneOwner
<1>1. ASSUME NEW t \in Threads, Push(t) PROVE ListShape'
  <2> DEFINE i == item[t]
  <2>1. i \in Items \ allocated
    BY <1>1 DEF Push, OneOwner, Carrying
  <2>2. /\ contents' # <<>>
        /\ Len(contents') = Len(contents) + 1
        /\ \A k \in 1 .. Len(contents) : contents'[k] = contents[k]
        /\ contents'[Len(contents) + 1] = i
    BY <1>0, <1>1, <2>1 DEF Push
  <2>3. \A k \in 1 .. Len(contents) : contents[k] \in Items /\ contents[k] # i
    BY <1>0, <2>1
  <2>4. CASE contents = <<>>
    <3>1. head = NULL /\ tail = NULL
      BY <2>4 DEF ListShape
    <3>2. head' = i /\ tail' = i /\ next' = [next EXCEPT ![i] = NULL]
      BY <1>1, <3>1 DEF Push, HeadAfterPush, NextAfterPush
    <3> QED
      BY <1>0, <2>1, <2>2, <2>4, <3>2 DEF ListShape
  <2>5. CASE contents # <<>>
    <3>1. Len(contents) \in Nat \ {0}
      BY <1>0, <2>5
    <3>2. head = contents[1] /\ tail = contents[Len(contents)] /\ head # NULL /\ tail # NULL
      BY <2>3, <2>5, <3>1 DEF ListShape
    <3>3. head' = head /\ tail' = i /\ next' = [next EXCEPT ![i] = NULL, ![tail] = i]
      BY <1>1, <3>2 DEF Push, HeadAfterPush, NextAfterPush
    <3>4. next'[i] = NULL /\ next'[tail] = i
      BY <1>0, <2>1, <2>3, <3>1, <3>2, <3>3
    <3>5. ASSUME NEW k \in 1 .. Len(contents') - 1
          PROVE  next'[contents'[k]] = contents'[k + 1]
      <4>1. CASE k = Len(contents)
        BY <2>2, <3>1, <3>2, <3>4, <4>1
      <4>2. CASE k \in 1 .. Len(contents) - 1
        <5>1. contents[k] # tail /\ contents[k] # i /\ contents[k] \in Items
          BY <1>0, <2>3, <3>1, <3>2, <4>2
        <5>2. next'[contents[k]] = next[contents[k]]
          BY <1>0, <2>1, <3>3, <5>1
        <5> QED
          BY <2>2, <3>1, <4>2, <5>2 DEF ListShape
      <4> QED
        BY <2>2, <3>1, <4>1, <4>2
    <3> QED
      <4>1. head' = contents'[1]
        BY <2>2, <3>1, <3>2, <3>3
      <4>2. tail' = contents'[Len(contents')] /\ next'[tail'] = NULL
        BY <2>2, <3>3, <3>4
      <4> QED
        BY <2>2, <3>5, <4>1, <4>2 DEF ListShape
  <2> QED
    BY <2>4, <2>5
<1>2. CASE PopItem
  <2>1. /\ contents # <<>> /\ Len(contents) \in Nat \ {0}
        /\ head = contents[1] /\ head \in Items
        /\ tail = contents[Len(contents)] /\ next[tail] = NULL
    BY <1>0, <1>2 DEF PopItem, ListShape
  <2>2. /\ contents' \in Seq(Items)
        /\ Len(contents') = Len(contents) - 1
        /\ \A k \in 1 .. Len(contents) - 1 : contents'[k] = contents[k + 1]
    BY <1>0, <1>2, <2>1 DEF PopItem
  <2>3. head' = next[head] /\ next' = [next EXCEPT ![head] = NULL]
    BY <1>2 DEF PopItem
  <2>4. CASE Len(contents) = 1
    <3>1. contents' = <<>>
      BY <2>2, <2>4
    <3>2. head' = NULL /\ tail' = NULL
      BY <1>0, <1>2, <2>1, <2>3, <2>4 DEF PopItem, TailAfterPop
    <3> QED
      BY <2>2, <2>4, <3>1, <3>2 DEF ListShape
  <2>5. CASE Len(contents) > 1
    <3>1. next[head] = contents[2] /\ contents[2] \in Items
      BY <1>0, <2>1, <2>5 DEF ListShape
    <3>2. head' = contents[2] /\ tail' = tail
      BY <1>0, <1>2, <2>3, <3>1 DEF PopItem, TailAfterPop
    <3>3. \A k \in 2 .. Len(contents) : contents[k] # head /\ contents[k] \in Items
      BY <1>0, <2>1, <2>5
    <3>4. \A k \in 2 .. Len(contents) : next'[contents[k]] = next[contents[k]]
      BY <1>0, <2>1, <2>3, <3>3
    <3>5. contents' # <<>> /\ head' = contents'[1] /\ tail' = contents'[Len(contents')]
      BY <2>1, <2>2, <2>5, <3>2
    <3>6. next'[tail'] = NULL
      BY <2>1, <2>5, <3>2, <3>4
    <3>7. \A k \in 1 .. Len(contents') - 1 : next'[contents'[k]] = contents'[k + 1]
      <4>1. ASSUME NEW k \in 1 .. Len(contents') - 1
            PROVE  next'[contents'[k]] = contents'[k + 1]
        <5>1. k + 1 \in 2 .. Len(contents) /\ k \in 1 .. Len(contents) - 1
              /\ k + 1 \in 1 .. Len(contents) - 1
          BY <2>1, <2>2, <2>5
        <5>2. contents'[k] = contents[k + 1] /\ contents'[k + 1] = contents[k + 2]
          BY <2>2, <5>1
        <5>3. next[contents[k + 1]] = contents[k + 2]
          BY <5>1 DEF ListShape
        <5> QED
          BY <3>4, <5>1, <5>2, <5>3
      <4> QED
        BY <4>1
    <3> QED
      BY <3>5, <3>6, <3>7 DEF ListShape
  <2>6. Len(contents) = 1 \/ Len(contents) > 1
    <3>1. Len(contents) \in Nat /\ Len(contents) # 0
      BY <1>0, <2>1
    <3>2. \A n \in Nat : n = 0 \/ n = 1 \/ n > 1
      OBVIOUS
    <3> QED
      BY <3>1, <3>2
  <2> QED
    BY <2>4, <2>5, <2>6
<1>3. ASSUME UNCHANGED <<head, tail, next, contents>> PROVE ListShape'
  BY <1>3 DEF ListShape
<1> QED
  BY <1>1, <1>2, <1>3
     DEF Next, ThreadStep, ThrMain, MakeRef, DropRef, Acquire, CountRef, ReturnRef,
         UncountRef, Release, SetPid, InitRefEnv, InitRefCnt, InitStopping, PopWait, PopStop, Send,
         CheckRefs, ClearRefs, SpuriousWakeup, QueueStop, Join, vars, queueVars

LEMMA UnloadStep == IInv /\ TypeOK' /\ [Next]_vars => UnloadOrder'
<1> SUFFICES ASSUME TypeOK, UnloadOrder, TypeOK', [Next]_vars PROVE UnloadOrder'
    BY DEF IInv
<1> USE DEF TypeOK, UnloadOrder
<1>1. ASSUME NEW t \in Threads, NEW r \in Replies, MakeRef(t, r) PROVE UnloadOrder'
  BY <1>1 DEF MakeRef, CanCall, Goto, thrVars
<1>2. ASSUME NEW t \in Threads, NEW i \in Items, Acquire(t, i) PROVE UnloadOrder'
  BY <1>2 DEF Acquire, CanCall, Goto, thrVars
<1>3. ASSUME NEW t \in Threads, ThreadStep(t) PROVE UnloadOrder'
  <2>1. upc = "loaded" /\ upc' = upc /\ stopping' = stopping
    BY <1>3 DEF ThreadStep, CountRef, ReturnRef, UncountRef, Release, Push
  <2>2. cpc' = cpc \/ cpc' = Signalled
    BY <1>3 DEF ThreadStep, CountRef, ReturnRef, UncountRef, Release, Push, thrVars
  <2> QED
    BY <2>1, <2>2 DEF Signalled
<1>4. CASE QueueStop
  BY <1>4 DEF QueueStop, Signalled, threadVars
<1>5. CASE ThrMain
  <2>1. UNCHANGED <<upc, pc>>
    BY <1>5 DEF ThrMain, InitRefEnv, InitRefCnt, InitStopping, PopWait, PopItem,
                PopStop, Send, CheckRefs, ClearRefs, threadVars
  <2> QED
    BY <1>5, <2>1 DEF ThrMain, InitRefEnv, InitRefCnt, InitStopping, PopWait, PopItem,
                PopStop, Send, CheckRefs, ClearRefs
<1>6. CASE Join
  BY <1>6 DEF Join, threadVars, thrVars
<1>7. CASE SpuriousWakeup
  BY <1>7 DEF SpuriousWakeup, threadVars
<1>8. ASSUME UNCHANGED <<pc, upc, cpc, stopping>> PROVE UnloadOrder'
  BY <1>8
<1> QED
  BY <1>1, <1>2, <1>3, <1>4, <1>5, <1>6, <1>7, <1>8
     DEF Next, DropRef, SetPid, vars, threadVars, thrVars

LEMMA SleepStep == IInv /\ [Next]_vars => NoSleepOnWork'
<1> SUFFICES ASSUME NoSleepOnWork, [Next]_vars PROVE NoSleepOnWork'
    BY DEF IInv
<1> USE DEF NoSleepOnWork
<1>1. ASSUME NEW t \in Threads, Push(t) PROVE NoSleepOnWork'
  BY <1>1 DEF Push, Signalled
<1>2. CASE QueueStop
  BY <1>2 DEF QueueStop, Signalled
<1>3. CASE ThrMain
  BY <1>3 DEF ThrMain, InitRefEnv, InitRefCnt, InitStopping, PopWait, PopItem, PopStop, Send,
              CheckRefs, ClearRefs, queueVars
<1>4. CASE SpuriousWakeup
  BY <1>4 DEF SpuriousWakeup
<1>5. ASSUME UNCHANGED <<head, cpc, stopping>> PROVE NoSleepOnWork'
  BY <1>5
<1> QED
  BY <1>1, <1>2, <1>3, <1>4, <1>5
     DEF Next, ThreadStep, MakeRef, DropRef, Acquire, CountRef, ReturnRef, UncountRef,
         Release, SetPid, Join, vars, queueVars, thrVars

-----------------------------------------------------------------------------
LEMMA IInvStep == IInv /\ [Next]_vars => IInv'
<1> SUFFICES ASSUME IInv, [Next]_vars PROVE IInv'
    OBVIOUS
<1>1. TypeOK'
  BY TypeStep DEF IInv
<1> QED
  BY <1>1, OwnerStep, UnloadStep, ListStep, SleepStep DEF IInv

LEMMA Invariance == Spec => []IInv
BY InitIInv, IInvStep, PTL DEF Spec

(* Every variable of espotify_async.c's model keeps its type.              *)
THEOREM TypeCorrect == Spec => []TypeOK
<1>1. IInv => TypeOK
  BY DEF IInv
<1> QED
  BY <1>1, Invariance, PTL

(* The linked list of queue_push and queue_pop is always the queue of the  *)
(* pushed and not yet popped items.                                        *)
THEOREM ListAlwaysShaped == Spec => []ListShape
<1>1. IInv => ListShape
  BY DEF IInv
<1> QED
  BY <1>1, Invariance, PTL

(* thr_main never sleeps on queue->cond while there is something to do.    *)
THEOREM NoLostWakeup == Spec => []NoSleepOnWork
<1>1. IInv => NoSleepOnWork
  BY DEF IInv
<1> QED
  BY <1>1, Invariance, PTL

(* Neither queue_push, queue_pop nor thr_main touches a freed item.        *)
THEOREM MemorySafe == Spec => []NoFreedItem
<1>1. IInv => NoFreedItem
  <2> SUFFICES ASSUME TypeOK, OneOwner, ListShape PROVE NoFreedItem
      BY DEF IInv
  <2>1. {head, tail} \ {NULL} \subseteq allocated \ {citem}
    <3>1. CASE contents = <<>>
      BY <3>1 DEF ListShape
    <3>2. CASE contents # <<>>
      <4>1. 1 \in DOMAIN contents /\ Len(contents) \in DOMAIN contents
        BY <3>2 DEF TypeOK
      <4> QED
        BY <3>2, <4>1 DEF ListShape, OneOwner
    <3> QED
      BY <3>1, <3>2
  <2> QED
    BY <2>1 DEF NoFreedItem, OneOwner
<1> QED
  BY <1>1, Invariance, PTL

(* The list and what it is made of are sound in every reachable state.     *)
THEOREM ListAlwaysSound == Spec => []ListSound
BY ListAlwaysShaped, MemorySafe, PTL DEF ListSound

-----------------------------------------------------------------------------
(* What FeedbackChannel calls pending, in terms of thr_main and the list.  *)
Pending == IF citem = NULL THEN contents ELSE <<citem>> \o contents

LEMMA ChannelInit == Init => Channel!Init
BY DEF Init, Channel!Init

(* Push appends to the pending messages, whether or not thr_main has one   *)
(* in hand, and never comes after thr_main has returned.                   *)
LEMMA PushRefines ==
    ASSUME IInv, NEW t \in Threads, Push(t) PROVE Channel!Push(item[t])
<1> USE AsyncAssumption
<1>1. item[t] \in Items /\ upc = "loaded" /\ cpc # "exited"
  BY DEF IInv, TypeOK, OneOwner, Carrying, UnloadOrder, Push
<1>2. (cpc # "exited")' /\ UNCHANGED <<inbox, pid, citem>>
  BY <1>1 DEF Push, Signalled
<1>3. Pending' = Append(Pending, item[t])
  <2>1. contents' = Append(contents, item[t]) /\ citem' = citem
    BY DEF Push
  <2>2. contents \in Seq(Items) /\ citem \in Items \union {NULL}
    BY DEF IInv, TypeOK
  <2>3. CASE citem = NULL
    BY <2>1, <2>3 DEF Pending
  <2>4. CASE citem # NULL
    <3>1. <<citem>> \in Seq(Items) /\ <<item[t]>> \in Seq(Items)
      BY <1>1, <2>2, <2>4
    <3>2. contents' = contents \o <<item[t]>>
      BY <1>1, <2>1, <2>2, AppendIsConcat
    <3>3. <<citem>> \o (contents \o <<item[t]>>) = (<<citem>> \o contents) \o <<item[t]>>
      BY <2>2, <3>1, ConcatAssociative
    <3>4. <<citem>> \o contents \in Seq(Items)
      BY <2>2, <3>1, ConcatProperties
    <3>5. Append(<<citem>> \o contents, item[t]) = (<<citem>> \o contents) \o <<item[t]>>
      BY <1>1, <3>4, AppendIsConcat
    <3> QED
      BY <2>1, <2>4, <3>2, <3>3, <3>5 DEF Pending
  <2> QED
    BY <2>3, <2>4
<1> QED
  BY <1>1, <1>2, <1>3 DEF Channel!Push, Pending

(* Taking an item out of the list is invisible: it is still pending.       *)
LEMMA PopRefines == ASSUME IInv, PopItem PROVE UNCHANGED Channel!vars
<1> USE AsyncAssumption
<1>1. /\ contents \in Seq(Items) /\ contents # <<>> /\ citem = NULL
      /\ citem' = contents[1] /\ citem' \in Items /\ contents' = Tail(contents)
  BY DEF IInv, TypeOK, OneOwner, ListShape, PopItem
<1>2. UNCHANGED <<inbox, pid, cpc # "exited">>
  BY DEF PopItem
<1>3. <<contents[1]>> \o Tail(contents) = contents
  BY <1>1
<1> QED
  BY <1>1, <1>2, <1>3 DEF Channel!vars, Pending

(* enif_send delivers the oldest pending message to the current pid.       *)
LEMMA SendRefines == ASSUME IInv, Send PROVE Channel!Deliver
<1> USE AsyncAssumption
<1>1. /\ contents \in Seq(Items) /\ citem \in Items
      /\ citem' = NULL /\ UNCHANGED <<contents, pid>>
      /\ inbox' = [inbox EXCEPT ![pid] = Append(@, citem)]
      /\ cpc = "sending" /\ cpc' = "checking"
  BY DEF IInv, TypeOK, OneOwner, Send
<1>2. /\ <<citem>> \o contents # <<>> /\ Head(<<citem>> \o contents) = citem
      /\ Tail(<<citem>> \o contents) = contents
  BY <1>1
<1> QED
  BY <1>1, <1>2 DEF Channel!Deliver, Pending

(* The steps the channel does not see.                                     *)
LEMMA StutterRefines ==
    ASSUME UNCHANGED <<contents, citem, inbox, pid>>, (cpc = "exited") = (cpc' = "exited")
    PROVE  UNCHANGED Channel!vars
BY DEF Channel!vars

LEMMA ChannelStep == IInv /\ [Next]_vars => [Channel!Next]_(Channel!vars)
<1> SUFFICES ASSUME IInv, [Next]_vars PROVE [Channel!Next]_(Channel!vars)
    OBVIOUS
<1> USE DEF queueVars, threadVars, thrVars, refVars
<1>1. ASSUME NEW t \in Threads, Push(t) PROVE Channel!Next
  <2>1. item[t] \in Items
    BY <1>1 DEF IInv, TypeOK, OneOwner, Carrying, Push
  <2> QED
    BY <1>1, <2>1, PushRefines DEF Channel!Next
<1>2. ASSUME NEW t \in Threads, NEW p \in Pids, SetPid(t, p) PROVE Channel!Next
  BY <1>2 DEF SetPid, Channel!Next, Channel!SetPid
<1>3. CASE PopItem
  BY <1>3, PopRefines
<1>4. CASE PopStop
  BY <1>4 DEF PopStop, Channel!Next, Channel!Close
<1>5. CASE Send
  BY <1>5, SendRefines DEF Channel!Next
<1>6. ASSUME UNCHANGED <<contents, citem, inbox, pid>>,
             (cpc = "exited") = (cpc' = "exited")
      PROVE  UNCHANGED Channel!vars
  BY <1>6, StutterRefines
<1>7. ASSUME UNCHANGED <<contents, citem, inbox, pid, cpc>> PROVE UNCHANGED Channel!vars
  BY <1>7, StutterRefines
<1>8. ASSUME NEW t \in Threads, ThreadStep(t), ~Push(t) PROVE UNCHANGED Channel!vars
  BY <1>7, <1>8 DEF ThreadStep, CountRef, ReturnRef, UncountRef, Release
<1>9. CASE \/ InitRefEnv \/ InitRefCnt \/ InitStopping \/ PopWait \/ CheckRefs \/ ClearRefs
           \/ SpuriousWakeup
  BY <1>6, <1>9 DEF InitRefEnv, InitRefCnt, InitStopping, PopWait, CheckRefs, ClearRefs,
                    SpuriousWakeup
<1>10. CASE QueueStop
  BY <1>6, <1>10 DEF QueueStop, Signalled
<1>11. CASE Join \/ UNCHANGED vars \/ \E r \in Replies : DropRef(r)
  BY <1>7, <1>11 DEF Join, DropRef, vars
<1>12. ASSUME NEW t \in Threads,
              (\E r \in Replies : MakeRef(t, r)) \/ (\E i \in Items : Acquire(t, i))
       PROVE  UNCHANGED Channel!vars
  BY <1>7, <1>12 DEF MakeRef, Acquire
<1> QED
  BY <1>1, <1>2, <1>3, <1>4, <1>5, <1>8, <1>9, <1>10, <1>11, <1>12 DEF Next, ThrMain

(* The locks, the list, the condition variable and the delivery thread     *)
(* together are a FIFO channel that delivers each message once, in order,  *)
(* to the process that is the callback pid at that moment.                 *)
THEOREM ImplementsChannel == Spec => ChannelSpec
BY ChannelInit, ChannelStep, Invariance, PTL DEF Spec, ChannelSpec, Channel!Spec

-----------------------------------------------------------------------------
(* The references that ref_cnt has to count: those made and counted, and   *)
(* those whose decrement is still to be stored.                            *)
Owed == {r \in Replies : ref[r] \in {"counted", "dropped"}}
            \union {item[t] : t \in {u \in Threads : pc[u] = "uncounting"}}

Updating(t) == pc[t] \in {"counting", "uncounting"}

(* What a thread has in hand, and that an update in progress is alone and  *)
(* has loaded the current count.                                           *)
RefInv ==
    /\ \A t \in Threads :
          /\ pc[t] = "counting" => ref[item[t]] = "made"
          /\ pc[t] = "returning" => item[t] \in Replies /\ ref[item[t]] = "counted"
          /\ pc[t] = "uncounting" => item[t] \in Replies /\ ref[item[t]] = "returned"
    /\ \A t, u \in Threads :
          pc[t] = "counting" /\ pc[u] = "counting" /\ item[t] = item[u] => t = u
    /\ Uninitialised /\ ~raced => Owed = {} /\ \A t \in Threads : ~Updating(t)
    /\ ~raced => \A t, u \in Threads : Updating(t) /\ Updating(u) => t = u
    /\ ~raced => \A t \in Threads : Updating(t) => cnt[t] = ref_cnt
    /\ IsFiniteSet(Owed)
    /\ ~raced /\ ~Uninitialised => ref_cnt = Cardinality(Owed)

LEMMA RefInit == Init => RefInv
<1> SUFFICES ASSUME Init PROVE RefInv
  OBVIOUS
<1>1. Owed = {}
  BY DEF Init, Owed
<1>2. IsFiniteSet(Owed) /\ Cardinality(Owed) = 0
  BY <1>1, FS_EmptySet
<1> QED
  BY <1>1, <1>2 DEF Init, RefInv, Updating, Uninitialised

(* Steps that leave what is owed, and ref_cnt, alone.                      *)
LEMMA RefSameOwed ==
    ASSUME RefInv, Owed' = Owed, ref_cnt' = ref_cnt, Uninitialised' = Uninitialised,
           raced' = raced,
           \A t \in Threads : Updating(t)' <=> Updating(t),
           \A t \in Threads : Updating(t) => cnt'[t] = cnt[t],
           \A t \in Threads : pc'[t] = "counting" => pc[t] = "counting" /\ item'[t] = item[t],
           \A t \in Threads :
              /\ pc'[t] = "counting" => ref'[item'[t]] = "made"
              /\ pc'[t] = "returning" => item'[t] \in Replies /\ ref'[item'[t]] = "counted"
              /\ pc'[t] = "uncounting" => item'[t] \in Replies /\ ref'[item'[t]] = "returned"
    PROVE  RefInv'
BY DEF RefInv, Updating

LEMMA RefMake ==
    ASSUME IInv, RefInv, NEW t \in Threads, NEW r \in Replies, MakeRef(t, r) PROVE RefInv'
<1> USE DEF MakeRef, CanCall, Goto, LoadRefCnt
<1>1. /\ pc \in [Threads -> {"idle", "counting", "returning", "uncounting", "building", "pushing"}]
      /\ item \in [Threads -> Items \union {NULL}] /\ cnt \in [Threads -> Int]
      /\ ref \in [Replies -> {"none", "made", "counted", "returned", "dropped"}]
  BY DEF IInv, TypeOK
<1>2. /\ \A u \in Threads \ {t} : pc'[u] = pc[u] /\ item'[u] = item[u] /\ cnt'[u] = cnt[u]
      /\ pc[t] = "idle" /\ pc'[t] = "counting" /\ item'[t] = r /\ cnt'[t] = ref_cnt
      /\ \A s \in Replies \ {r} : ref'[s] = ref[s]
      /\ ref[r] = "none" /\ ref'[r] = "made" /\ ref_cnt' = ref_cnt /\ cpc' = cpc
      /\ Uninitialised' = Uninitialised /\ (~raced' => ~Uninitialised)
  BY <1>1 DEF thrVars, Uninitialised
<1>3. Owed' = Owed
  BY <1>2 DEF Owed
<1>4. ~raced' => ~raced /\ \A u \in Threads : ~Updating(u)
  BY DEF Updating
<1>5. \A u \in Threads \ {t} :
          /\ pc'[u] = "counting" => ref'[item'[u]] = "made" /\ item'[u] # r
          /\ pc'[u] = "returning" => item'[u] \in Replies /\ ref'[item'[u]] = "counted"
          /\ pc'[u] = "uncounting" => item'[u] \in Replies /\ ref'[item'[u]] = "returned"
  <2>1. \A u \in Threads : pc[u] = "counting" => item[u] \in Replies
    BY DEF IInv, OneOwner
  <2> QED
    BY <1>2, <2>1 DEF RefInv
<1>6. \A u, v \in Threads :
          pc'[u] = "counting" /\ pc'[v] = "counting" /\ item'[u] = item'[v] => u = v
  BY <1>2, <1>5 DEF RefInv
<1>7. /\ ~raced' => \A u, v \in Threads : Updating(u)' /\ Updating(v)' => u = v
      /\ ~raced' => \A u \in Threads : Updating(u)' => cnt'[u] = ref_cnt'
  BY <1>2, <1>4 DEF Updating
<1> QED
  BY <1>2, <1>3, <1>4, <1>5, <1>6, <1>7 DEF RefInv

LEMMA RefCount ==
    ASSUME IInv, RefInv, NEW t \in Threads, CountRef(t) PROVE RefInv'
<1> USE DEF CountRef, Goto
<1> DEFINE r == item[t]
<1>1. /\ pc \in [Threads -> {"idle", "counting", "returning", "uncounting", "building", "pushing"}]
      /\ item \in [Threads -> Items \union {NULL}] /\ cnt \in [Threads -> Int]
      /\ ref \in [Replies -> {"none", "made", "counted", "returned", "dropped"}]
      /\ ref_cnt \in Int
  BY DEF IInv, TypeOK
<1>2. \A u \in Threads : pc[u] = "counting" => item[u] \in Replies
  BY DEF IInv, OneOwner
<1>3. /\ \A u \in Threads \ {t} : pc'[u] = pc[u] /\ item'[u] = item[u] /\ cnt'[u] = cnt[u]
      /\ pc[t] = "counting" /\ pc'[t] = "idle"
      /\ \A s \in Replies \ {r} : ref'[s] = ref[s]
      /\ r \in Replies /\ ref[r] = "made" /\ ref'[r] = "counted" /\ ref_cnt' = cnt[t] + 1
      /\ cpc' = cpc /\ raced' = raced
  BY <1>1, <1>2 DEF thrVars, RefInv
<1>4. r \notin Owed
  BY <1>3 DEF Owed, RefInv
<1>5. Owed' = Owed \union {r}
  BY <1>3 DEF Owed
<1>6. \A u \in Threads \ {t} :
          /\ pc'[u] = "counting" => ref'[item'[u]] = "made"
          /\ pc'[u] = "returning" => item'[u] \in Replies /\ ref'[item'[u]] = "counted"
          /\ pc'[u] = "uncounting" => item'[u] \in Replies /\ ref'[item'[u]] = "returned"
  BY <1>2, <1>3 DEF RefInv
<1>7. \A u, v \in Threads :
          pc'[u] = "counting" /\ pc'[v] = "counting" /\ item'[u] = item'[v] => u = v
  BY <1>3 DEF RefInv
<1>8. ~raced' => \A u \in Threads : ~Updating(u)'
  BY <1>3 DEF RefInv, Updating
<1>9. IsFiniteSet(Owed') /\ (~raced' => ref_cnt' = Cardinality(Owed'))
  <2>1. IsFiniteSet(Owed \union {r}) /\ Cardinality(Owed \union {r}) = Cardinality(Owed) + 1
    BY <1>4, FS_AddElement DEF RefInv
  <2>2. ~raced => cnt[t] = Cardinality(Owed)
    BY <1>3 DEF RefInv, Updating
  <2> QED
    BY <1>3, <1>5, <2>1, <2>2
<1>10. ~raced' => ~Uninitialised /\ ~Uninitialised'
  BY <1>3 DEF RefInv, Updating, Uninitialised
<1> QED
  BY <1>3, <1>6, <1>7, <1>8, <1>9, <1>10 DEF RefInv

LEMMA RefReturn ==
    ASSUME IInv, RefInv, NEW t \in Threads, ReturnRef(t) PROVE RefInv'
<1> USE DEF ReturnRef, Goto, LoadRefCnt
<1> DEFINE r == item[t]
<1>1. /\ pc \in [Threads -> {"idle", "counting", "returning", "uncounting", "building", "pushing"}]
      /\ item \in [Threads -> Items \union {NULL}] /\ cnt \in [Threads -> Int]
      /\ ref \in [Replies -> {"none", "made", "counted", "returned", "dropped"}]
  BY DEF IInv, TypeOK
<1>2. /\ \A u \in Threads : pc[u] = "counting" => item[u] \in Replies
      /\ \A u, v \in Threads :
            Carrying(u) /\ Carrying(v) /\ item[u] = item[v] => u = v
  BY DEF IInv, OneOwner
<1>3. /\ \A u \in Threads \ {t} : pc'[u] = pc[u] /\ cnt'[u] = cnt[u]
      /\ item' = item
      /\ pc[t] = "returning" /\ pc'[t] = "uncounting" /\ cnt'[t] = ref_cnt
      /\ \A s \in Replies \ {r} : ref'[s] = ref[s]
      /\ r \in Replies /\ ref[r] = "counted" /\ ref'[r] = "returned" /\ ref_cnt' = ref_cnt
      /\ cpc' = cpc
  BY <1>1 DEF thrVars, RefInv
<1>4. \A u \in Threads \ {t} :
          pc[u] \in {"counting", "returning", "uncounting"} => item[u] # r
  BY <1>2, <1>3 DEF RefInv, Carrying
<1>5. r \in Owed /\ (~raced' => ~Uninitialised /\ ~Uninitialised')
  BY <1>3 DEF Owed, RefInv, Uninitialised
<1>6. Owed' = Owed
  <2>1. {s \in Replies : ref'[s] \in {"counted", "dropped"}}
            = {s \in Replies : ref[s] \in {"counted", "dropped"}} \ {r}
    BY <1>3
  <2>2. {u \in Threads : pc'[u] = "uncounting"} = {u \in Threads : pc[u] = "uncounting"} \union {t}
    BY <1>3
  <2>3. {item'[u] : u \in {v \in Threads : pc'[v] = "uncounting"}}
            = {item[u] : u \in {v \in Threads : pc[v] = "uncounting"}} \union {r}
    BY <1>3, <2>2
  <2> QED
    BY <1>3, <2>1, <2>3 DEF Owed
<1>7. ~raced' => ~raced /\ \A u \in Threads : ~Updating(u)
  BY DEF Updating
<1>8. \A u \in Threads :
          /\ pc'[u] = "counting" => ref'[item'[u]] = "made"
          /\ pc'[u] = "returning" => item'[u] \in Replies /\ ref'[item'[u]] = "counted"
          /\ pc'[u] = "uncounting" => item'[u] \in Replies /\ ref'[item'[u]] = "returned"
  BY <1>2, <1>3, <1>4 DEF RefInv
<1>9. \A u, v \in Threads :
          pc'[u] = "counting" /\ pc'[v] = "counting" /\ item'[u] = item'[v] => u = v
  BY <1>3 DEF RefInv
<1>10. /\ ~raced' => \A u, v \in Threads : Updating(u)' /\ Updating(v)' => u = v
       /\ ~raced' => \A u \in Threads : Updating(u)' => cnt'[u] = ref_cnt'
  BY <1>3, <1>7 DEF Updating
<1> QED
  BY <1>3, <1>5, <1>6, <1>7, <1>8, <1>9, <1>10 DEF RefInv

LEMMA RefUncount ==
    ASSUME IInv, RefInv, NEW t \in Threads, UncountRef(t) PROVE RefInv'
<1> USE DEF UncountRef, Goto
<1> DEFINE r == item[t]
<1>1. /\ pc \in [Threads -> {"idle", "counting", "returning", "uncounting", "building", "pushing"}]
      /\ cnt \in [Threads -> Int] /\ ref_cnt \in Int
  BY DEF IInv, TypeOK
<1>2. \A u, v \in Threads : Carrying(u) /\ Carrying(v) /\ item[u] = item[v] => u = v
  BY DEF IInv, OneOwner
<1>3. /\ \A u \in Threads \ {t} : pc'[u] = pc[u] /\ cnt'[u] = cnt[u]
      /\ item' = item /\ ref' = ref
      /\ pc[t] = "uncounting" /\ pc'[t] = "building"
      /\ r \in Replies /\ ref[r] = "returned" /\ ref_cnt' = cnt[t] - 1
      /\ cpc' = cpc /\ raced' = raced
  BY <1>1 DEF thrVars, RefInv
<1>4. r \in Owed /\ (~raced' => ~Uninitialised /\ ~Uninitialised')
  BY <1>3 DEF Owed, RefInv, Uninitialised
<1>5. Owed' = Owed \ {r}
  <2>1. \A u \in Threads : pc[u] = "uncounting" /\ u # t => item[u] # r
    BY <1>2, <1>3 DEF Carrying
  <2>2. {u \in Threads : pc'[u] = "uncounting"} = {u \in Threads : pc[u] = "uncounting"} \ {t}
    BY <1>3
  <2>3. {item'[u] : u \in {v \in Threads : pc'[v] = "uncounting"}}
            = {item[u] : u \in {v \in Threads : pc[v] = "uncounting"}} \ {r}
    BY <1>3, <2>1, <2>2
  <2>4. r \notin {s \in Replies : ref[s] \in {"counted", "dropped"}}
    BY <1>3
  <2> QED
    BY <1>3, <2>3, <2>4 DEF Owed
<1>6. \A u \in Threads :
          /\ pc'[u] = "counting" => ref'[item'[u]] = "made"
          /\ pc'[u] = "returning" => item'[u] \in Replies /\ ref'[item'[u]] = "counted"
          /\ pc'[u] = "uncounting" => item'[u] \in Replies /\ ref'[item'[u]] = "returned"
  BY <1>3 DEF RefInv
<1>7. \A u, v \in Threads :
          pc'[u] = "counting" /\ pc'[v] = "counting" /\ item'[u] = item'[v] => u = v
  BY <1>3 DEF RefInv
<1>8. ~raced' => \A u \in Threads : ~Updating(u)'
  BY <1>3 DEF RefInv, Updating
<1>9. IsFiniteSet(Owed') /\ (~raced' => ref_cnt' = Cardinality(Owed'))
  <2>1. IsFiniteSet(Owed \ {r}) /\ Cardinality(Owed \ {r}) = Cardinality(Owed) - 1
    BY <1>4, FS_RemoveElement DEF RefInv
  <2>2. ~raced => cnt[t] = Cardinality(Owed)
    BY <1>3 DEF RefInv, Updating
  <2> QED
    BY <1>3, <1>5, <2>1, <2>2
<1> QED
  BY <1>3, <1>4, <1>6, <1>7, <1>8, <1>9 DEF RefInv

(* The steps of a thread that leave ref_cnt alone.                         *)
LEMMA RefThread ==
    ASSUME IInv, RefInv, NEW t \in Threads,
           \/ \E i \in Items : Acquire(t, i)
           \/ Release(t)
           \/ Push(t)
    PROVE  RefInv'
<1>1. /\ pc \in [Threads -> {"idle", "counting", "returning", "uncounting", "building", "pushing"}]
      /\ item \in [Threads -> Items \union {NULL}]
  BY DEF IInv, TypeOK
<1>2. /\ \A u \in Threads \ {t} : pc'[u] = pc[u] /\ item'[u] = item[u]
      /\ pc[t] \in {"idle", "building", "pushing"}
      /\ pc'[t] \in {"idle", "returning", "building", "pushing"}
      /\ cnt' = cnt /\ ref' = ref /\ ref_cnt' = ref_cnt /\ raced' = raced
      /\ Uninitialised' = Uninitialised
  BY <1>1 DEF Acquire, Release, Push, CanCall, Goto, Signalled, Uninitialised, thrVars, refVars
<1>3. pc'[t] = "returning" => item'[t] \in Replies /\ ref'[item'[t]] = "counted"
  BY <1>1 DEF Acquire, Release, Push, CanCall, Goto, refVars
<1>4. Owed' = Owed
  BY <1>2 DEF Owed
<1>5. \A u \in Threads : Updating(u)' <=> Updating(u)
  BY <1>2 DEF Updating
<1>6. \A u \in Threads :
          /\ pc'[u] = "counting" => ref'[item'[u]] = "made"
          /\ pc'[u] = "returning" => item'[u] \in Replies /\ ref'[item'[u]] = "counted"
          /\ pc'[u] = "uncounting" => item'[u] \in Replies /\ ref'[item'[u]] = "returned"
  BY <1>2, <1>3 DEF RefInv
<1>7. \A u \in Threads : pc'[u] = "counting" => pc[u] = "counting" /\ item'[u] = item[u]
  BY <1>2
<1> QED
  BY <1>2, <1>4, <1>5, <1>6, <1>7, RefSameOwed

LEMMA RefDrop == ASSUME IInv, RefInv, NEW r \in Replies, DropRef(r) PROVE RefInv'
<1>1. ref \in [Replies -> {"none", "made", "counted", "returned", "dropped"}]
  BY DEF IInv, TypeOK
<1>2. /\ \A s \in Replies \ {r} : ref'[s] = ref[s]
      /\ ref[r] = "counted" /\ ref'[r] = "dropped" /\ \A t \in Threads : item[t] # r
      /\ pc' = pc /\ item' = item /\ cnt' = cnt /\ ref_cnt' = ref_cnt /\ raced' = raced
      /\ Uninitialised' = Uninitialised
  BY <1>1 DEF DropRef, Uninitialised, threadVars, thrVars
<1>3. Owed' = Owed
  BY <1>2 DEF Owed
<1>4. \A t \in Threads : pc[t] = "counting" => item[t] \in Replies
  BY DEF IInv, OneOwner
<1>5. \A u \in Threads :
          /\ pc'[u] = "counting" => ref'[item'[u]] = "made"
          /\ pc'[u] = "returning" => item'[u] \in Replies /\ ref'[item'[u]] = "counted"
          /\ pc'[u] = "uncounting" => item'[u] \in Replies /\ ref'[item'[u]] = "returned"
  BY <1>2, <1>4 DEF RefInv
<1>6. \A u \in Threads : Updating(u)' <=> Updating(u)
  BY <1>2 DEF Updating
<1> QED
  BY <1>2, <1>3, <1>5, <1>6, RefSameOwed

(* thr_main's first value of ref_cnt is right if nothing has been made.    *)
LEMMA RefInitCnt == ASSUME IInv, RefInv, InitRefCnt PROVE RefInv'
<1>1. /\ pc' = pc /\ item' = item /\ cnt' = cnt /\ ref' = ref /\ raced' = raced
      /\ ref_cnt' = 0 /\ Uninitialised /\ ~Uninitialised'
  BY DEF InitRefCnt, Uninitialised, threadVars
<1>2. Owed' = Owed /\ IsFiniteSet(Owed)
  BY <1>1 DEF Owed, RefInv
<1>3. ~raced => Owed = {} /\ \A t \in Threads : ~Updating(t)
  BY <1>1 DEF RefInv
<1>4. ~raced' => ref_cnt' = Cardinality(Owed')
  BY <1>1, <1>2, <1>3, FS_EmptySet
<1>5. \A u \in Threads : Updating(u)' <=> Updating(u)
  BY <1>1 DEF Updating
<1> QED
  BY <1>1, <1>2, <1>3, <1>4, <1>5 DEF RefInv

(* The rest of thr_main and of the library leave it alone.                 *)
LEMMA RefOther ==
    ASSUME IInv, RefInv, ~InitRefCnt,
           \/ ThrMain \/ SpuriousWakeup \/ QueueStop \/ Join \/ UNCHANGED vars
           \/ \E t \in Threads, p \in Pids : SetPid(t, p)
    PROVE  RefInv'
<1>1. /\ pc' = pc /\ item' = item /\ cnt' = cnt /\ ref' = ref /\ raced' = raced
      /\ Uninitialised' = Uninitialised /\ ref_cnt' = ref_cnt
  BY DEF ThrMain, InitRefEnv, InitStopping, PopWait, PopItem, PopStop, Send, CheckRefs,
         ClearRefs, SpuriousWakeup, QueueStop, Join, SetPid, Signalled, Uninitialised,
         vars, threadVars, thrVars, refVars
<1>2. Owed' = Owed
  BY <1>1 DEF Owed
<1>3. \A u \in Threads : Updating(u)' <=> Updating(u)
  BY <1>1 DEF Updating
<1>4. \A u \in Threads :
          /\ pc'[u] = "counting" => ref'[item'[u]] = "made"
          /\ pc'[u] = "returning" => item'[u] \in Replies /\ ref'[item'[u]] = "counted"
          /\ pc'[u] = "uncounting" => item'[u] \in Replies /\ ref'[item'[u]] = "returned"
  BY <1>1 DEF RefInv
<1> QED
  BY <1>1, <1>2, <1>3, <1>4, RefSameOwed

(* As long as no two updates of ref_cnt have overlapped, thr_main's        *)
(* start-up being one of them, it is the number of references that have    *)
(* been made and not returned, whichever threads make and return them.     *)
THEOREM RefCountExact == Spec => []RefCntExact
<1>1. IInv /\ RefInv /\ [Next]_vars => RefInv'
  BY RefMake, RefCount, RefReturn, RefUncount, RefThread, RefDrop, RefInitCnt, RefOther
     DEF Next, ThreadStep
<1>2. RefInv => RefCntExact
  <2> SUFFICES ASSUME RefInv, ~raced, ~Uninitialised,
                      \A t \in Threads : pc[t] \notin {"counting", "uncounting"}
               PROVE  ref_cnt = Cardinality({r \in Replies : ref[r] \in {"counted", "dropped"}})
    BY DEF RefCntExact
  <2>1. Owed = {r \in Replies : ref[r] \in {"counted", "dropped"}}
    BY DEF Owed
  <2> QED
    BY <2>1 DEF RefInv
<1> QED
  BY <1>1, <1>2, Invariance, RefInit, PTL DEF Spec
==============================================================================
