---------------------------- MODULE LoadQueueProofs ----------------------------
(***************************************************************************)
(* Theorems about LoadQueue.tla for any threads, requests and tracks, in   *)
(* every interleaving.                                                     *)
(*                                                                         *)
(* Threads that add cells at once may lose some of them and leave the tail *)
(* on a freed cell.  What survives any interleaving is that no two         *)
(* pointers that a walk may follow lead to one cell, and that they go      *)
(* forward in some order of the cells.                                     *)
(***************************************************************************)
EXTENDS LoadQueue, TLAPS

(* Thread t has yet to put c into the list.                                *)
Pending(t, c) == c \in todo[t] \/ (pc[t] \in {"sethead", "link"} /\ item[t] = c)

(* The cells whose next field may be read: not the one just unlinked.      *)
Linked == IF mpc = "reply" THEN alive \ {q} ELSE alive

(* The clean-up does not read load_queue_head again.                       *)
First == IF mpc = "clean" THEN NULL ELSE head

(* x, a cell or for NULL load_queue_head, points to cell d.                *)
Pred(x, d) == IF x = NULL THEN First = d ELSE x \in Linked /\ next[x] = d

(* The cell that load_queue_check or the clean-up comes to next.           *)
Ahead == IF mpc \in {"reply", "advance"} THEN next[q] ELSE q

(* The cells that have not been queued yet.                                *)
Fresh(c) ==
    \/ /\ c[3] = "nif"
       /\ \/ c[1] \notin made
          \/ \E t \in Nifs : pc[t] = "look" /\ item[t][1] = c[1]
    \/ /\ c[3] = "main"
       /\ c[1] \in Playlists => plstate[c[1]] # "done"

-----------------------------------------------------------------------------
(* Each thread looks at a playlist of its own.                             *)
Looking ==
    /\ pc["main"] # "look"
    /\ \A t \in Nifs : pc[t] = "look" =>
         /\ item[t] \in Cells
         /\ item[t][1] \in Playlists \cap made
         /\ \A u \in Nifs : pc[u] = "look" /\ item[u][1] = item[t][1] => t = u
    /\ \A r \in Playlists : plstate[r] # "none" => r \in made

(* A cell that is to be added is one thread's alone.                       *)
Owned ==
    \A t \in Threads :
        /\ pc[t] \in {"idle", "look"} => todo[t] = {}
        /\ pc[t] \in {"sethead", "link", "settail"} => item[t] \in Cells
        /\ pc[t] \in {"sethead", "link"} =>
             /\ item[t] \in alive
             /\ item[t] \notin todo[t]
             /\ next[item[t]] = NULL
        /\ pc[t] = "settail" => \A u \in Threads : ~Pending(u, item[t])
        /\ \A c \in Cells : Pending(t, c) =>
             /\ c # tail /\ c # prevq
             /\ \A u \in Threads : Pending(u, c) => t = u

(* A fresh cell has no part in anything yet.                               *)
Unseen ==
    \A c \in Cells : Fresh(c) =>
        /\ c \notin alive /\ c # tail /\ c # prevq /\ c # q
        /\ \A t \in Threads : c \notin todo[t] /\ (pc[t] # "look" => item[t] # c)

(* Pointers lead to allocated cells, which are in the list, and no two to  *)
(* one cell.                                                               *)
Pointers ==
    \A x \in Cells \union {NULL}, d \in Cells : Pred(x, d) =>
        /\ d \in Linked
        /\ \A t \in Threads : ~Pending(t, d)
        /\ \A y \in Cells \union {NULL} : Pred(y, d) => x = y

(* The walk comes to an allocated cell, to which only the cell before it   *)
(* points.                                                                 *)
Walk ==
    /\ mpc \notin {"walk", "reply", "advance"} => prevq = NULL
    /\ mpc \in {"idle", "forget", "ended"} => q = NULL
    /\ mpc \in {"reply", "advance"} => q \in Cells /\ \A t \in Threads : ~Pending(t, q)
    /\ mpc = "reply" => q \in alive
    /\ mpc = "advance" => q \notin alive
    /\ Ahead # NULL =>
         /\ Ahead \in Linked
         /\ \A t \in Threads : ~Pending(t, Ahead)
         /\ \A x \in Cells \union {NULL} : Pred(x, Ahead) => x = prevq

(* Pointers go forward in the order of rank, and so does the walk.         *)
Forward(rank) ==
    /\ \A c \in Cells : c \in alive /\ next[c] # NULL => rank[c] < rank[next[c]]
    /\ prevq # NULL /\ Ahead # NULL => rank[prevq] < rank[Ahead]
    /\ prevq # NULL /\ mpc = "reply" => rank[prevq] < rank[q]

Ordered == \E rank \in [Cells -> Nat] : Forward(rank)

(* A track_info request that has been answered has no cell left.           *)
Answered ==
    \A r \in Requests \ Playlists :
        LET c == <<r, 1, "nif">>
        IN  /\ replies[r] \in {0, 1}
            /\ replies[r] = 1 =>
                 /\ r \in made
                 /\ c \notin alive
                 /\ \A t \in Threads : c \notin todo[t]

IInv == TypeOK /\ Looking /\ Owned /\ Unseen /\ Pointers /\ Walk /\ Ordered /\ Answered

-----------------------------------------------------------------------------
(* The three parts of a cell, and which cells there are.                   *)
LEMMA CellParts ==
    /\ \A c \in Cells :
         /\ c = <<c[1], c[2], c[3]>>
         /\ c[1] \in Requests /\ c[2] \in DOMAIN TracksOf[c[1]] /\ c[3] \in {"nif", "main"}
    /\ \A r \in Requests, w \in {"nif", "main"} : \A k \in DOMAIN TracksOf[r] : <<r, k, w>> \in Cells
  BY DEF Cells

(* The cell of a track_info request.                                       *)
LEMMA TrackCell ==
    /\ \A r \in Requests : <<r, 1, "nif">> \in Cells
    /\ \A c \in Cells : c[1] \notin Playlists /\ c[3] = "nif" => c = <<c[1], 1, "nif">>
<1> USE LoadQueueAssumption
<1>1. \A r \in Requests : 1 \in DOMAIN TracksOf[r]
  <2> SUFFICES ASSUME NEW r \in Requests PROVE 1 \in DOMAIN TracksOf[r]
    OBVIOUS
  <2>1. TracksOf[r] \in Seq(Tracks) /\ TracksOf[r] # <<>>
    OBVIOUS
  <2> QED
    BY <2>1
<1>2. \A r \in Requests \ Playlists : DOMAIN TracksOf[r] = 1 .. 1
  BY <1>1
<1>3. \A c \in Cells : c[1] \notin Playlists /\ c[3] = "nif" => c = <<c[1], 1, "nif">>
  <2> SUFFICES ASSUME NEW c \in Cells, c[1] \notin Playlists, c[3] = "nif"
               PROVE  c[2] = 1
    BY CellParts
  <2> QED
    BY CellParts, <1>2
<1> QED
  BY <1>1, <1>3, CellParts

(* The cells of a playlist that are waited for are cells of the playlist.  *)
LEMMA MissingCells ==
    \A r, w : \A c \in Missing(r, w) : c \in Cells /\ c[1] = r /\ c[3] = w
  BY DEF Missing

-----------------------------------------------------------------------------
(* In the initial state there is no list and everything is fresh.          *)
LEMMA InitIInv == Init => IInv
<1> SUFFICES ASSUME Init PROVE IInv
  OBVIOUS
<1> USE LoadQueueAssumption, NullAssumption DEF Init
<1>1. TypeOK
  BY DEF TypeOK
<1>2. Looking /\ Owned /\ Unseen
  BY DEF Looking, Owned, Unseen, Pending, Threads
<1>3. Pointers /\ Walk /\ Answered
  BY DEF Pointers, Walk, Answered, Pred, First, Linked, Ahead
<1>4. Ordered
  <2>1. [c \in Cells |-> 0] \in [Cells -> Nat] /\ Forward([c \in Cells |-> 0])
    BY DEF Forward
  <2> QED
    BY <2>1 DEF Ordered
<1> QED
  BY <1>1, <1>2, <1>3, <1>4 DEF IInv

-----------------------------------------------------------------------------
(* The types of what a reply and the start of load_queue_add change.       *)
LEMMA ReplyType ==
    ASSUME replies \in [Requests -> Nat], NEW r \in Requests, Reply(r)
    PROVE  replies' \in [Requests -> Nat] /\ crashed' \in BOOLEAN
<1>1. CASE HasQueue
  BY <1>1 DEF Reply
<1>2. CASE ~HasQueue
  BY <1>2 DEF Reply
<1> QED
  BY <1>1, <1>2

LEMMA StartAddType ==
    ASSUME TypeOK, NEW t \in Threads, NEW cells \in SUBSET Cells, StartAdd(t, cells)
    PROVE  /\ pc' \in [Threads -> {"idle", "look", "add", "sethead", "link", "settail"}]
           /\ item' \in [Threads -> Cells \union {NULL}]
           /\ todo' \in [Threads -> SUBSET Cells]
  BY DEF TypeOK, StartAdd

(* Every step keeps the types.                                             *)
LEMMA TypeCorrectStep == IInv /\ [Next]_vars => TypeOK'
<1> SUFFICES ASSUME IInv, [Next]_vars PROVE TypeOK'
  OBVIOUS
<1> USE LoadQueueAssumption, NullAssumption DEF IInv, TypeOK
<1> USE DEF listVars, addVars, walkVars, spVars, reqVars
<1>1. ASSUME NEW t \in Nifs, NEW r \in Requests \ Playlists, TrackInfo(t, r) PROVE TypeOK'
  <2>1. t \in Threads /\ r \in Requests /\ <<r, 1, "nif">> \in Cells
    BY TrackCell DEF Threads
  <2>2. CASE TracksOf[r][1] \in loaded
    BY <1>1, <2>1, <2>2, ReplyType DEF TrackInfo, Enter
  <2>3. CASE TracksOf[r][1] \notin loaded
    BY <1>1, <2>1, <2>3, StartAddType DEF TrackInfo, Enter
  <2> QED
    BY <2>2, <2>3
<1>2. ASSUME NEW t \in Nifs, NEW r \in Playlists, LoadPlaylist(t, r) PROVE TypeOK'
  BY <1>2, TrackCell DEF LoadPlaylist, Enter, Threads
<1>3. ASSUME NEW t \in Threads, LookAtPlaylist(t) PROVE TypeOK'
  <2>1. t \in Nifs /\ item[t] \in Cells /\ item[t][1] \in Playlists
    BY <1>3 DEF LookAtPlaylist, Looking, Threads
  <2>2. Missing(item[t][1], "nif") \in SUBSET Cells
    BY MissingCells
  <2> QED
    BY <1>3, <2>1, <2>2, ReplyType, StartAddType DEF LookAtPlaylist, PlStateChange, ghostVars
<1>4. ASSUME NEW t \in Threads, AddCell(t) PROVE TypeOK'
  BY <1>4 DEF AddCell, ghostVars
<1>5. ASSUME NEW t \in Threads, SetHead(t) PROVE TypeOK'
  BY <1>5 DEF SetHead, ghostVars
<1>6. ASSUME NEW t \in Threads, Link(t) PROVE TypeOK'
  BY <1>6 DEF Link, ghostVars
<1>7. ASSUME NEW t \in Threads, SetTail(t) PROVE TypeOK'
  BY <1>7 DEF SetTail, StartAdd, ghostVars
<1>8. ASSUME NEW r \in Playlists, PlaylistLoaded(r) PROVE TypeOK'
  <2>1. Missing(r, "main") \in SUBSET Cells
    BY MissingCells
  <2> QED
    BY <1>8, <2>1, ReplyType, StartAddType DEF PlaylistLoaded, PlStateChange, Enter, Threads
<1>9. ASSUME ReplyAndFree PROVE TypeOK'
  <2>1. q \in Cells
    BY <1>9 DEF ReplyAndFree, Walk
  <2> QED
    BY <1>9, <2>1, CellParts, ReplyType DEF ReplyAndFree, ghostVars
<1>10. ASSUME WalkPast \/ Unlink \/ Advance \/ FreeCell PROVE TypeOK'
  <2>1. q \in Cells
    BY <1>10 DEF WalkPast, Unlink, Advance, FreeCell, Walk
  <2> QED
    BY <1>10, <2>1 DEF WalkPast, Unlink, Advance, FreeCell, ghostVars
<1>11. ASSUME MetadataForPlayer \/ MetadataUpdated \/ WalkEnd PROVE TypeOK'
  BY <1>11 DEF MetadataForPlayer, MetadataUpdated, WalkEnd, Enter, ghostVars
<1>12. ASSUME RunEnd \/ ForgetHead \/ ForgetTail \/ RunBegin PROVE TypeOK'
  BY <1>12 DEF RunEnd, ForgetHead, ForgetTail, RunBegin, ghostVars
<1>13. ASSUME NEW new \in SUBSET (Tracks \ loaded), TracksLoad(new) PROVE TypeOK'
  BY <1>13 DEF TracksLoad, ghostVars
<1>14. ASSUME NEW r \in Playlists, PlaylistLoads(r) PROVE TypeOK'
  BY <1>14 DEF PlaylistLoads, ghostVars
<1>15. ASSUME NEW u \in PlayerTracks, PlayerLoad(u) PROVE TypeOK'
  BY <1>15 DEF PlayerLoad, ghostVars
<1>16. CASE UNCHANGED vars
  BY <1>16 DEF vars, ghostVars
<1> QED
  BY <1>1, <1>2, <1>3, <1>4, <1>5, <1>6, <1>7, <1>8, <1>9, <1>10, <1>11, <1>12,
     <1>13, <1>14, <1>15, <1>16 DEF Next, MainStep, AddStep, Threads

-----------------------------------------------------------------------------
(* The parts of the invariant that a step without new types can disturb.   *)
Parts == Looking /\ Owned /\ Unseen /\ Pointers /\ Walk /\ Ordered /\ Answered

(* Steps that touch neither the list nor the requests.                     *)
LEMMA OutsideStep ==
    ASSUME IInv, UNCHANGED <<listVars, addVars, walkVars, made, plstate, replies>>
    PROVE  Parts'
<1> USE DEF IInv, listVars, addVars, walkVars
<1>1. Looking'
  BY DEF Looking
<1>2. Owned' /\ Unseen'
  BY DEF Owned, Unseen, Pending, Fresh
<1>3. Pointers' /\ Walk'
  BY DEF Pointers, Walk, Pending, Pred, First, Linked, Ahead
<1>4. Ordered'
  BY DEF Ordered, Forward, Ahead
<1>5. Answered'
  BY DEF Answered
<1> QED
  BY <1>1, <1>2, <1>3, <1>4, <1>5 DEF Parts

(* A thread that starts to add fresh cells, or to look at a playlist.      *)
LEMMA StartStep ==
    ASSUME IInv, TypeOK', UNCHANGED <<listVars, walkVars>>,
           NEW t \in Threads, pc[t] \in {"idle", "look"},
           NEW cells \in SUBSET Cells, StartAdd(t, cells),
           \A c \in cells : Fresh(c) /\ ~Fresh(c)',
           \A c \in Cells : Fresh(c)' => Fresh(c)
    PROVE  Owned' /\ Unseen' /\ Pointers' /\ Walk' /\ Ordered'
<1> USE DEF IInv, listVars, walkVars
<1>1. \A u \in Threads, c \in Cells : Pending(u, c)' <=> (u = t /\ c \in cells) \/ Pending(u, c)
  BY DEF StartAdd, TypeOK, Pending, Owned
<1>2. \A c \in cells : /\ c \in Cells /\ c \notin alive /\ c # tail /\ c # prevq /\ c # q
                       /\ \A u \in Threads : ~Pending(u, c) /\ (pc[u] = "settail" => item[u] # c)
  BY DEF Unseen, Pending
<1>3. Owned'
  <2> SUFFICES ASSUME NEW u \in Threads
               PROVE  /\ (pc[u] \in {"idle", "look"} => todo[u] = {})'
                      /\ (pc[u] \in {"sethead", "link", "settail"} => item[u] \in Cells)'
                      /\ (pc[u] \in {"sethead", "link"} =>
                             item[u] \in alive /\ item[u] \notin todo[u] /\ next[item[u]] = NULL)'
                      /\ (pc[u] = "settail" => \A v \in Threads : ~Pending(v, item[u]))'
                      /\ \A c \in Cells : Pending(u, c)' =>
                           /\ c # tail /\ c # prevq
                           /\ \A v \in Threads : Pending(v, c)' => u = v
    BY DEF Owned
  <2>1. CASE u = t
    BY <1>1, <1>2, <2>1 DEF StartAdd, Owned, TypeOK
  <2>2. CASE u # t
    BY <1>1, <1>2, <2>2 DEF StartAdd, Owned, TypeOK
  <2> QED
    BY <2>1, <2>2
<1>4. Unseen'
  BY <1>2, NullAssumption DEF Unseen, StartAdd, TypeOK
<1>5. Pointers'
  <2>1. Linked' = Linked /\ Linked \subseteq alive /\ \A x, d : Pred(x, d)' <=> Pred(x, d)
    BY DEF Linked, Pred, First
  <2> QED
    BY <1>1, <1>2, <2>1 DEF Pointers
<1>6. Walk'
  <2>1. Linked' = Linked /\ Linked \subseteq alive /\ Ahead' = Ahead /\ \A x, d : Pred(x, d)' <=> Pred(x, d)
    BY DEF Linked, Pred, First, Ahead
  <2>2. Ahead # NULL => Ahead \in Cells
    BY <2>1 DEF Walk, TypeOK
  <2> QED
    BY <1>1, <1>2, <2>1, <2>2 DEF Walk, TypeOK
<1>7. Ordered'
  BY DEF Ordered, Forward, Ahead
<1> QED
  BY <1>3, <1>4, <1>5, <1>6, <1>7

-----------------------------------------------------------------------------
LEMMA TrackInfoStep ==
    ASSUME IInv, TypeOK', NEW t \in Nifs, NEW r \in Requests \ Playlists, TrackInfo(t, r)
    PROVE  Parts'
<1> USE DEF IInv
<1> DEFINE c0 == <<r, 1, "nif">>
<1>1. /\ c0 \in Cells /\ t \in Threads /\ pc[t] = "idle" /\ r \notin made
      /\ made' = made \union {r} /\ UNCHANGED <<listVars, walkVars, plstate>>
  BY TrackCell DEF TrackInfo, Enter, Threads
<1>2. Fresh(c0)
  BY <1>1 DEF Fresh
<1>3. replies[r] = 0
  BY <1>1 DEF Answered
<1>4. CASE TracksOf[r][1] \in loaded
  <2>1. UNCHANGED addVars /\ Reply(r)
    BY <1>4 DEF TrackInfo
  <2>2. \A c \in Cells : Fresh(c)' => Fresh(c)
    BY <1>1, <2>1 DEF Fresh, addVars
  <2>3. Looking'
    BY <1>1, <2>1 DEF Looking, addVars
  <2>4. Owned' /\ Unseen'
    BY <1>1, <2>1, <2>2 DEF Owned, Unseen, Pending, addVars, listVars, walkVars
  <2>5. Pointers' /\ Walk' /\ Ordered'
    BY <1>1, <2>1 DEF Pointers, Walk, Ordered, Forward, Pred, First, Linked, Ahead, Pending,
                      addVars, listVars, walkVars
  <2>6. \A s \in Requests \ Playlists : s # r => replies'[s] = replies[s]
    BY <2>1 DEF Reply, TypeOK
  <2>7. replies'[r] \in {0, 1}
    BY <2>1, <1>3 DEF Reply, TypeOK
  <2>8. c0 \notin alive /\ \A u \in Threads : c0 \notin todo[u]
    BY <1>1, <1>2 DEF Unseen
  <2>9. Answered'
    BY <1>1, <2>1, <2>6, <2>7, <2>8 DEF Answered, addVars, listVars
  <2> QED
    BY <2>3, <2>4, <2>5, <2>9 DEF Parts
<1>5. CASE TracksOf[r][1] \notin loaded
  <2>1. StartAdd(t, {c0}) /\ UNCHANGED replies
    BY <1>5 DEF TrackInfo
  <2>2. \A c \in Cells : Fresh(c)' => Fresh(c)
    BY <1>1, <2>1 DEF Fresh, StartAdd, TypeOK
  <2>3. ~Fresh(c0)'
    BY <1>1, <2>1 DEF Fresh, StartAdd, TypeOK, Looking
  <2>4. Owned' /\ Unseen' /\ Pointers' /\ Walk' /\ Ordered'
    BY <1>1, <1>2, <2>1, <2>2, <2>3, StartStep
  <2>5. Looking'
    BY <1>1, <2>1 DEF Looking, StartAdd, TypeOK, Threads
  <2>6. Answered'
    BY <1>1, <1>3, <2>1 DEF Answered, StartAdd, TypeOK, listVars
  <2> QED
    BY <2>4, <2>5, <2>6 DEF Parts
<1> QED
  BY <1>4, <1>5

LEMMA LoadPlaylistStep ==
    ASSUME IInv, TypeOK', NEW t \in Nifs, NEW r \in Playlists, LoadPlaylist(t, r)
    PROVE  Parts'
<1> USE LoadQueueAssumption DEF IInv
<1>1. /\ t \in Threads /\ t # "main" /\ pc[t] = "idle" /\ r \notin made /\ r \in Requests
      /\ <<r, 1, "nif">> \in Cells
      /\ made' = made \union {r} /\ plstate' = [plstate EXCEPT ![r] = "watched"]
      /\ pc' = [pc EXCEPT ![t] = "look"]
      /\ item' = [item EXCEPT ![t] = <<r, 1, "nif">>]
      /\ UNCHANGED <<todo, listVars, walkVars, replies>>
  BY TrackCell DEF LoadPlaylist, Enter, Threads
<1>2. plstate[r] = "none"
  BY <1>1 DEF Looking
<1>3. \A c \in Cells : Fresh(c)' => Fresh(c)
  BY <1>1, <1>2 DEF Fresh, TypeOK
<1>4. Looking'
  BY <1>1 DEF Looking, TypeOK
<1>5. \A u \in Threads, c \in Cells : Pending(u, c)' <=> Pending(u, c)
  BY <1>1 DEF Pending, TypeOK
<1>6. Owned'
  BY <1>1, <1>5 DEF Owned, TypeOK, listVars, walkVars
<1>7. Unseen'
  BY <1>1, <1>3 DEF Unseen, TypeOK, listVars, walkVars
<1>8. /\ Linked' = Linked /\ Linked \subseteq alive /\ Ahead' = Ahead
      /\ \A x, d : Pred(x, d)' <=> Pred(x, d)
  BY <1>1 DEF Linked, Pred, First, Ahead, listVars, walkVars
<1>9. Ahead # NULL => Ahead \in Cells
  BY <1>8 DEF Walk, TypeOK
<1>10. Pointers' /\ Walk'
  BY <1>1, <1>5, <1>8, <1>9 DEF Pointers, Walk, TypeOK, listVars, walkVars
<1>11. Ordered'
  BY <1>1 DEF Ordered, Forward, Ahead, listVars, walkVars
<1>12. Answered'
  BY <1>1 DEF Answered, listVars
<1> QED
  BY <1>4, <1>6, <1>7, <1>10, <1>11, <1>12 DEF Parts

(* Both callers of pl_state_change: r's cells of kind w are fresh, and are *)
(* not afterwards.                                                         *)
LEMMA PlStateStep ==
    ASSUME IInv, TypeOK', NEW t \in Threads, NEW r \in Playlists, NEW w \in {"nif", "main"},
           PlStateChange(t, r, w),
           UNCHANGED <<listVars, walkVars, made>>,
           r \in made,
           \/ w = "nif" /\ t \in Nifs /\ pc[t] = "look" /\ item[t][1] = r
           \/ w = "main" /\ t = "main" /\ pc[t] = "idle" /\ plstate[r] = "watched"
    PROVE  Parts'
<1> USE LoadQueueAssumption DEF IInv
<1> DEFINE cells == Missing(r, w)
<1>1. /\ plstate' = [plstate EXCEPT ![r] = "done"]
      /\ StartAdd(t, cells)
      /\ cells \in SUBSET Cells
  BY MissingCells DEF PlStateChange
<1>2. \A u \in Threads : /\ pc'[u] = "look" => u # t /\ pc[u] = "look"
                         /\ u # t => item'[u] = item[u] /\ pc'[u] = pc[u] /\ todo'[u] = todo[u]
  BY <1>1 DEF StartAdd, TypeOK
<1>3. \A c \in Cells : Fresh(c)' => Fresh(c)
  BY <1>1, <1>2 DEF Fresh, TypeOK, Threads
<1>4. \A c \in cells : Fresh(c)
  BY MissingCells DEF Fresh
<1>5. \A c \in cells : ~Fresh(c)'
  BY <1>1, <1>2, MissingCells DEF Fresh, Looking, TypeOK, Threads
<1>6. Owned' /\ Unseen' /\ Pointers' /\ Walk' /\ Ordered'
  BY <1>1, <1>3, <1>4, <1>5, StartStep
<1>7. Looking'
  BY <1>1, <1>2 DEF Looking, TypeOK, Threads
<1>8. \A s \in Requests \ Playlists : replies'[s] = replies[s]
  BY DEF PlStateChange, Reply, TypeOK
<1>9. \A s \in Requests \ Playlists, u \in Threads :
          <<s, 1, "nif">> \in todo'[u] => <<s, 1, "nif">> \in todo[u]
  BY <1>1, <1>2, MissingCells DEF StartAdd, TypeOK
<1>10. Answered'
  BY <1>8, <1>9 DEF Answered, listVars
<1> QED
  BY <1>6, <1>7, <1>10 DEF Parts

LEMMA LookAtPlaylistStep ==
    ASSUME IInv, TypeOK', NEW t \in Threads, LookAtPlaylist(t)
    PROVE  Parts'
<1> USE DEF IInv
<1>1. /\ t \in Nifs /\ pc[t] = "look" /\ item[t] \in Cells
      /\ item[t][1] \in Playlists /\ item[t][1] \in made
      /\ UNCHANGED <<listVars, walkVars, made>>
  BY DEF LookAtPlaylist, Looking, Threads, reqVars
<1>2. CASE item[t][1] \in pl_loaded
  BY <1>1, <1>2, PlStateStep DEF LookAtPlaylist
<1>3. CASE item[t][1] \notin pl_loaded
  <2>1. StartAdd(t, {}) /\ UNCHANGED <<plstate, replies>>
    BY <1>3 DEF LookAtPlaylist
  <2>2. \A c \in Cells : Fresh(c)' => Fresh(c)
    BY <1>1, <2>1 DEF Fresh, StartAdd, TypeOK, Threads
  <2>3. Owned' /\ Unseen' /\ Pointers' /\ Walk' /\ Ordered'
    BY <1>1, <2>1, <2>2, StartStep
  <2>4. Looking'
    BY <1>1, <2>1 DEF Looking, StartAdd, TypeOK, Threads
  <2>5. Answered'
    BY <1>1, <2>1 DEF Answered, StartAdd, TypeOK, listVars
  <2> QED
    BY <2>3, <2>4, <2>5 DEF Parts
<1> QED
  BY <1>2, <1>3

LEMMA PlaylistLoadedStep ==
    ASSUME IInv, TypeOK', NEW r \in Playlists, PlaylistLoaded(r)
    PROVE  Parts'
<1>1. /\ PlStateChange("main", r, "main") /\ UNCHANGED <<listVars, walkVars, made>>
      /\ pc["main"] = "idle" /\ plstate[r] = "watched" /\ r \in made /\ "main" \in Threads
  BY DEF PlaylistLoaded, Enter, IInv, Looking, Threads
<1> QED
  BY <1>1, PlStateStep

-----------------------------------------------------------------------------
(* Nothing points to the cell that a thread has yet to link.               *)
LEMMA AddCellStep ==
    ASSUME IInv, TypeOK', NEW t \in Threads, AddCell(t)
    PROVE  Parts'
<1> USE NullAssumption DEF IInv
<1>1. PICK c \in todo[t] :
        /\ item' = [item EXCEPT ![t] = c]
        /\ todo' = [todo EXCEPT ![t] = @ \ {c}]
        /\ alive' = alive \union {c}
        /\ next' = [next EXCEPT ![c] = NULL]
  BY DEF AddCell
<1>2. /\ pc[t] = "add" /\ pc' = [pc EXCEPT ![t] = IF head = NULL THEN "sethead" ELSE "link"]
      /\ UNCHANGED <<head, tail, mpc, q, prevq, made, plstate, replies>>
  BY DEF AddCell, walkVars, reqVars
<1>3. c \in Cells /\ Pending(t, c) /\ c # tail /\ c # prevq
  BY <1>1 DEF TypeOK, Pending, Owned
<1>4. \A u \in Threads : u # t =>
        pc'[u] = pc[u] /\ item'[u] = item[u] /\ todo'[u] = todo[u] /\ ~Pending(u, c)
  BY <1>1, <1>2, <1>3 DEF TypeOK, Owned
<1>5. pc'[t] \in {"sethead", "link"} /\ item'[t] = c /\ todo'[t] = todo[t] \ {c}
  BY <1>1, <1>2 DEF TypeOK
<1>6. \A u \in Threads, d \in Cells : Pending(u, d)' <=> Pending(u, d)
  BY <1>1, <1>2, <1>4, <1>5 DEF Pending
<1>7. \A d \in Cells : Fresh(d)' => Fresh(d)
  BY <1>2, <1>4, <1>5 DEF Fresh, Threads
<1>8. ~Fresh(c)
  BY <1>1, <1>3 DEF Unseen
<1>9. Looking'
  BY <1>2, <1>4, <1>5 DEF Looking, Threads
<1>10. Owned'
  <2> SUFFICES ASSUME NEW u \in Threads
               PROVE  /\ (pc[u] \in {"idle", "look"} => todo[u] = {})'
                      /\ (pc[u] \in {"sethead", "link", "settail"} => item[u] \in Cells)'
                      /\ (pc[u] \in {"sethead", "link"} =>
                             item[u] \in alive /\ item[u] \notin todo[u] /\ next[item[u]] = NULL)'
                      /\ (pc[u] = "settail" => \A v \in Threads : ~Pending(v, item[u]))'
                      /\ \A d \in Cells : Pending(u, d)' =>
                           /\ (d # tail /\ d # prevq)'
                           /\ \A v \in Threads : Pending(v, d)' => u = v
    BY DEF Owned
  <2>1. CASE u = t
    BY <1>1, <1>2, <1>3, <1>5, <1>6, <2>1 DEF Owned, TypeOK
  <2>2. CASE u # t
    BY <1>1, <1>2, <1>3, <1>4, <1>6, <2>2 DEF Owned, TypeOK
  <2> QED
    BY <2>1, <2>2
<1>11. Unseen'
  BY <1>1, <1>2, <1>3, <1>4, <1>5, <1>7, <1>8 DEF Unseen
<1>12. \A x \in Cells \union {NULL}, d \in Cells : Pred(x, d)' => x # c /\ Pred(x, d)
  BY <1>1, <1>2, <1>3 DEF Pred, First, Linked, TypeOK
<1>13. Linked \subseteq Linked'
  BY <1>1, <1>2 DEF Linked
<1>14. Pointers'
  BY <1>6, <1>12, <1>13 DEF Pointers
<1>15. Walk'
  <2>1. Ahead' = Ahead \/ Ahead' = NULL
    BY <1>1, <1>2, <1>3 DEF Ahead, TypeOK, Walk
  <2>2. Ahead # NULL => Ahead \in Cells
    BY DEF Walk, Linked, TypeOK
  <2> QED
    <3>1. mpc \in {"reply", "advance"} => q # c
      BY <1>3 DEF Walk
    <3>2. /\ (mpc \notin {"walk", "reply", "advance"} => prevq = NULL)'
          /\ (mpc \in {"idle", "forget", "ended"} => q = NULL)'
          /\ (mpc \in {"reply", "advance"} => q \in Cells /\ \A u \in Threads : ~Pending(u, q))'
          /\ (mpc = "reply" => q \in alive)'
          /\ (mpc = "advance" => q \notin alive)'
      BY <1>1, <1>2, <1>6, <3>1 DEF Walk
    <3> QED
      BY <1>2, <1>6, <1>12, <1>13, <2>1, <2>2, <3>2 DEF Walk
<1>16. Ordered'
  <2>1. PICK rank \in [Cells -> Nat] : Forward(rank)
    BY DEF Ordered
  <2>2. Ahead' = Ahead \/ Ahead' = NULL
    BY <1>1, <1>2, <1>3 DEF Ahead, TypeOK, Walk
  <2>3. Forward(rank)'
    BY <1>1, <1>2, <1>3, <2>1, <2>2 DEF Forward, TypeOK
  <2> QED
    BY <2>1, <2>3 DEF Ordered
<1>17. Answered'
  BY <1>1, <1>2, <1>4, <1>5 DEF Answered
<1> QED
  BY <1>9, <1>10, <1>11, <1>14, <1>15, <1>16, <1>17 DEF Parts

(* A thread goes on to set load_queue_tail: its cell is pending no more.   *)
LEMMA LinkedStep ==
    ASSUME IInv, TypeOK', NEW t \in Threads, pc[t] \in {"sethead", "link"},
           pc' = [pc EXCEPT ![t] = "settail"],
           UNCHANGED <<tail, alive, item, todo, mpc, q, prevq, made, plstate, replies>>,
           \A u \in Threads : u # t => next'[item[u]] = next[item[u]] \/ pc[u] \notin {"sethead", "link"}
    PROVE  /\ Looking' /\ Owned' /\ Unseen' /\ Answered'
           /\ Linked' = Linked
           /\ item[t] \in Cells /\ Pending(t, item[t])
           /\ \A u \in Threads, d \in Cells : Pending(u, d)' => Pending(u, d) /\ d # item[t]
<1> USE DEF IInv
<1>1. item[t] \in Cells /\ Pending(t, item[t]) /\ item[t] \notin todo[t]
  BY DEF Owned, Pending
<1>2. pc'[t] = "settail" /\ \A u \in Threads : u # t => pc'[u] = pc[u]
  BY DEF TypeOK
<1>3. \A u \in Threads : u # t => ~Pending(u, item[t])
  BY <1>1 DEF Owned
<1>4. \A u \in Threads, d \in Cells : Pending(u, d)' => Pending(u, d) /\ d # item[t]
  BY <1>1, <1>2, <1>3 DEF Pending
<1>5. \A d \in Cells : Fresh(d)' => Fresh(d)
  BY <1>2 DEF Fresh, Threads
<1>6. Looking'
  BY <1>2 DEF Looking, Threads
<1>7. Owned'
  BY <1>1, <1>2, <1>3, <1>4 DEF Owned, TypeOK
<1>8. Unseen'
  BY <1>2, <1>5 DEF Unseen
<1>9. Answered' /\ Linked' = Linked
  BY DEF Answered, Linked
<1> QED
  BY <1>1, <1>4, <1>6, <1>7, <1>8, <1>9

LEMMA SetHeadStep ==
    ASSUME IInv, TypeOK', NEW t \in Threads, SetHead(t)
    PROVE  Parts'
<1> USE NullAssumption DEF IInv
<1>1. /\ pc[t] = "sethead" /\ pc' = [pc EXCEPT ![t] = "settail"] /\ head' = item[t]
      /\ UNCHANGED <<tail, next, alive, item, todo, mpc, q, prevq, made, plstate, replies>>
  BY DEF SetHead, walkVars, reqVars
<1>2. /\ Looking' /\ Owned' /\ Unseen' /\ Answered'
      /\ Linked' = Linked
      /\ item[t] \in Cells /\ Pending(t, item[t])
      /\ \A u \in Threads, d \in Cells : Pending(u, d)' => Pending(u, d) /\ d # item[t]
  BY <1>1, LinkedStep
<1>3. \A x \in Cells, d \in Cells : Pred(x, d)' <=> Pred(x, d)
  BY <1>1, <1>2 DEF Pred
<1>4. \A d \in Cells : Pred(NULL, d)' => d = item[t]
  BY <1>1 DEF Pred, First
<1>5. \A x \in Cells \union {NULL} : ~Pred(x, item[t])
  BY <1>2 DEF Pointers
<1>6. item[t] \in Linked
  BY <1>1, <1>2 DEF Owned, Linked, Walk
<1>7. Pointers'
  <2> SUFFICES ASSUME NEW x \in Cells \union {NULL}, NEW d \in Cells, Pred(x, d)'
               PROVE  /\ d \in Linked'
                      /\ \A u \in Threads : ~Pending(u, d)'
                      /\ \A y \in Cells \union {NULL} : Pred(y, d)' => x = y
    BY DEF Pointers
  <2>1. CASE x = NULL
    BY <1>1, <1>2, <1>3, <1>4, <1>5, <1>6, <2>1
  <2>2. CASE x # NULL
    BY <1>1, <1>2, <1>3, <1>4, <1>5, <2>2 DEF Pointers
  <2> QED
    BY <2>1, <2>2
<1>8. Ahead' = Ahead /\ (Ahead # NULL => Ahead \in Cells)
  BY <1>1 DEF Ahead, Walk, Linked, TypeOK
<1>9. Ahead # item[t]
  BY <1>2, NullAssumption DEF Walk
<1>10. Walk'
  BY <1>1, <1>2, <1>3, <1>4, <1>8, <1>9 DEF Walk, TypeOK
<1>11. Ordered'
  BY <1>1 DEF Ordered, Forward, Ahead
<1> QED
  BY <1>2, <1>7, <1>10, <1>11 DEF Parts

LEMMA LinkStep ==
    ASSUME IInv, TypeOK', NEW t \in Threads, Link(t)
    PROVE  Parts'
<1> USE NullAssumption DEF IInv
<1>1. /\ pc[t] = "link" /\ pc' = [pc EXCEPT ![t] = "settail"]
      /\ UNCHANGED <<head, tail, alive, item, todo, mpc, q, prevq, made, plstate, replies>>
      /\ IF tail = NULL THEN UNCHANGED next ELSE next' = [next EXCEPT ![tail] = item[t]]
  BY DEF Link, walkVars, reqVars
<1>2. \A u \in Threads : pc[u] \in {"sethead", "link"} => next'[item[u]] = next[item[u]]
  BY <1>1 DEF Owned, Pending, TypeOK
<1>3. /\ Looking' /\ Owned' /\ Unseen' /\ Answered'
      /\ Linked' = Linked
      /\ item[t] \in Cells /\ Pending(t, item[t])
      /\ \A u \in Threads, d \in Cells : Pending(u, d)' => Pending(u, d) /\ d # item[t]
  BY <1>1, <1>2, LinkedStep
<1>4. item[t] # tail /\ item[t] # prevq /\ next[item[t]] = NULL
  BY <1>1, <1>3 DEF Owned
<1>5. \A x \in Cells \union {NULL}, d \in Cells :
          Pred(x, d)' => Pred(x, d) \/ (x = tail /\ d = item[t])
  BY <1>1, <1>3 DEF Pred, First, TypeOK
<1>6. \A x \in Cells \union {NULL} : ~Pred(x, item[t])
  BY <1>3 DEF Pointers
<1>7. item[t] \in Linked
  BY <1>1, <1>3 DEF Owned, Linked, Walk
<1>8. Pointers'
  <2> SUFFICES ASSUME NEW x \in Cells \union {NULL}, NEW d \in Cells, Pred(x, d)'
               PROVE  /\ d \in Linked'
                      /\ \A u \in Threads : ~Pending(u, d)'
                      /\ \A y \in Cells \union {NULL} : Pred(y, d)' => x = y
    BY DEF Pointers
  <2>1. CASE d = item[t]
    BY <1>3, <1>5, <1>6, <1>7, <2>1
  <2>2. CASE d # item[t]
    BY <1>1, <1>3, <1>5, <2>2 DEF Pointers
  <2> QED
    BY <2>1, <2>2
<1>9. Ahead' = Ahead \/ (Ahead' = item[t] /\ q = tail /\ mpc \in {"reply", "advance"})
  BY <1>1 DEF Ahead, TypeOK, Walk
<1>10. Ahead # NULL => Ahead \in Cells /\ Ahead # item[t]
  BY <1>3 DEF Walk, Linked, TypeOK
<1>11. Walk'
  <2>1. /\ (mpc \notin {"walk", "reply", "advance"} => prevq = NULL)'
        /\ (mpc \in {"idle", "forget", "ended"} => q = NULL)'
        /\ (mpc \in {"reply", "advance"} => q \in Cells /\ \A u \in Threads : ~Pending(u, q))'
        /\ (mpc = "reply" => q \in alive)'
        /\ (mpc = "advance" => q \notin alive)'
    BY <1>1, <1>3 DEF Walk
  <2>2. CASE Ahead' = Ahead
    BY <1>1, <1>3, <1>5, <1>10, <2>1, <2>2 DEF Walk
  <2>3. CASE Ahead' = item[t] /\ q = tail /\ mpc \in {"reply", "advance"}
    <3>1. \A x \in Cells \union {NULL} : Pred(x, item[t])' => x = tail
      BY <1>1, <1>3, <1>5, <1>6
    <3>2. tail \notin Linked
      BY <2>3 DEF Linked, Walk
    <3> QED
      BY <1>1, <1>3, <1>7, <2>1, <2>3, <3>1, <3>2 DEF Walk, Pred
  <2> QED
    BY <1>9, <2>2, <2>3
<1>12. Ordered'
  <2>1. PICK rank \in [Cells -> Nat] : Forward(rank)
    BY DEF Ordered
  <2>2. CASE tail = NULL
    <3>1. Forward(rank)'
      BY <1>1, <2>1, <2>2 DEF Forward, Ahead
    <3> QED
      BY <2>1, <3>1 DEF Ordered
  <2>3. CASE tail # NULL
    <3> DEFINE last == rank[tail] + 1 + IF prevq = NULL THEN 0 ELSE rank[prevq]
    <3>1. tail \in Cells /\ last \in Nat /\ last > rank[tail]
          /\ (prevq # NULL => prevq \in Cells /\ last > rank[prevq])
      BY <2>1, <2>3 DEF TypeOK
    <3>2. PICK rank2 \in [Cells -> Nat] :
            /\ rank2[item[t]] = last
            /\ \A c \in Cells : c # item[t] => rank2[c] = rank[c]
      <4>1. [rank EXCEPT ![item[t]] = last] \in [Cells -> Nat]
        BY <2>1, <3>1
      <4> QED
        BY <1>3, <2>1, <4>1
    <3>3. next'[tail] = item[t] /\ \A c \in Cells : c # tail => next'[c] = next[c]
      BY <1>1, <2>3, <3>1 DEF TypeOK
    <3> HIDE DEF last
    <3>4. ASSUME NEW c \in Cells, c \in alive, next'[c] # NULL
          PROVE  rank2[c] < rank2[next'[c]]
      <4>1. CASE c = tail
        BY <1>4, <3>1, <3>2, <3>3, <4>1
      <4>2. CASE c # tail
        <5>1. next'[c] = next[c] /\ next[c] \in Cells /\ c # item[t]
          BY <1>4, <3>3, <3>4, <4>2 DEF TypeOK
        <5>2. next[c] # item[t]
          BY <1>3, <1>6, <1>10, <3>4, <4>2, <5>1 DEF Pred, Linked, Ahead
        <5>3. rank[c] < rank[next[c]]
          BY <2>1, <3>4, <5>1 DEF Forward
        <5> QED
          BY <3>2, <5>1, <5>2, <5>3
      <4> QED
        BY <4>1, <4>2
    <3>5. prevq # NULL /\ Ahead' # NULL => rank2[prevq] < rank2[Ahead']
      BY <1>4, <1>9, <1>10, <2>1, <3>1, <3>2 DEF Forward
    <3>6. prevq # NULL /\ mpc = "reply" => rank2[prevq] < rank2[q]
      <4>1. mpc = "reply" => q \in Cells /\ q # item[t]
        BY <1>3 DEF Walk
      <4> QED
        BY <1>4, <2>1, <3>1, <3>2, <4>1 DEF Forward
    <3>7. Forward(rank2)'
      BY <1>1, <3>4, <3>5, <3>6 DEF Forward
    <3> QED
      BY <3>7 DEF Ordered
  <2> QED
    BY <2>2, <2>3
<1> QED
  BY <1>3, <1>8, <1>11, <1>12 DEF Parts

LEMMA SetTailStep ==
    ASSUME IInv, TypeOK', NEW t \in Threads, SetTail(t)
    PROVE  Parts'
<1> USE NullAssumption DEF IInv
<1>1. /\ pc[t] = "settail" /\ tail' = item[t] /\ StartAdd(t, todo[t])
      /\ UNCHANGED <<head, next, alive, mpc, q, prevq, made, plstate, replies>>
  BY DEF SetTail, walkVars, reqVars
<1>2. /\ item[t] \in Cells /\ todo' = todo /\ item'[t] = NULL /\ pc'[t] \in {"idle", "add"}
      /\ pc'[t] = "idle" => todo[t] = {}
      /\ \A u \in Threads : u # t => pc'[u] = pc[u] /\ item'[u] = item[u]
  BY <1>1 DEF StartAdd, TypeOK, Owned
<1>3. \A u \in Threads, d \in Cells : Pending(u, d)' <=> Pending(u, d)
  BY <1>1, <1>2 DEF Pending
<1>4. \A d \in Cells : Fresh(d)' => Fresh(d)
  BY <1>1, <1>2 DEF Fresh, Threads
<1>5. Looking'
  BY <1>1, <1>2 DEF Looking, Threads
<1>6. Owned'
  BY <1>1, <1>2, <1>3 DEF Owned
<1>7. Unseen'
  BY <1>1, <1>2, <1>4 DEF Unseen
<1>8. /\ Linked' = Linked /\ Linked \subseteq Cells /\ Ahead' = Ahead
      /\ \A x, d : Pred(x, d)' <=> Pred(x, d)
  BY <1>1 DEF Linked, Pred, First, Ahead, TypeOK
<1>9. Pointers' /\ Walk'
  BY <1>1, <1>3, <1>8 DEF Pointers, Walk
<1>10. Ordered' /\ Answered'
  BY <1>1, <1>2 DEF Ordered, Forward, Ahead, Answered
<1> QED
  BY <1>5, <1>6, <1>7, <1>9, <1>10 DEF Parts

-----------------------------------------------------------------------------
(* What the main thread does to the list leaves the other threads' cells   *)
(* alone.                                                                  *)
LEMMA MainFrame ==
    ASSUME IInv, TypeOK', UNCHANGED <<addVars, made, plstate>>,
           alive' \in {alive, alive \ {q}}, tail' \in {tail, NULL}, prevq' \in {prevq, q, NULL},
           q' \in alive \union {q, NULL},
           \A c \in Cells : next'[c] = next[c] \/ c = prevq
    PROVE  /\ Looking' /\ Owned' /\ Unseen'
           /\ \A u, d : Pending(u, d)' <=> Pending(u, d)
           /\ q # NULL => q \in Cells /\ \A u \in Threads : ~Pending(u, q)
<1> USE NullAssumption DEF IInv
<1>1. UNCHANGED <<pc, item, todo>>
  BY DEF addVars
<1>2. q # NULL => q \in Cells /\ \A u \in Threads : ~Pending(u, q)
  BY DEF Walk, Ahead, TypeOK
<1>3. \A u, d : Pending(u, d)' <=> Pending(u, d)
  BY <1>1 DEF Pending
<1>4. \A d \in Cells : Fresh(d)' <=> Fresh(d)
  BY <1>1 DEF Fresh
<1>5. Looking'
  BY <1>1 DEF Looking
<1>6. Unseen'
  BY <1>1, <1>2, <1>4 DEF Unseen
<1>7. ASSUME NEW u \in Threads, pc[u] \in {"sethead", "link"}
      PROVE  item[u] \in alive' /\ next'[item[u]] = NULL
  BY <1>2, <1>7 DEF Owned, Pending, TypeOK
<1>8. Owned'
  <2> SUFFICES ASSUME NEW u \in Threads
               PROVE  /\ (pc[u] \in {"idle", "look"} => todo[u] = {})'
                      /\ (pc[u] \in {"sethead", "link", "settail"} => item[u] \in Cells)'
                      /\ (pc[u] \in {"sethead", "link"} =>
                             item[u] \in alive /\ item[u] \notin todo[u] /\ next[item[u]] = NULL)'
                      /\ (pc[u] = "settail" => \A v \in Threads : ~Pending(v, item[u]))'
                      /\ \A d \in Cells : Pending(u, d)' =>
                           /\ (d # tail /\ d # prevq)'
                           /\ \A v \in Threads : Pending(v, d)' => u = v
    BY DEF Owned
  <2> QED
    BY <1>1, <1>2, <1>3, <1>7 DEF Owned
<1> QED
  BY <1>2, <1>3, <1>5, <1>6, <1>8

(* The main thread stays where the list is the same for it: no walk before *)
(* and after.                                                              *)
LEMMA RestStep ==
    ASSUME IInv, TypeOK', ForgetHead \/ ForgetTail \/ RunBegin \/ WalkEnd
    PROVE  Parts'
<1> USE NullAssumption DEF IInv
<1>1. /\ UNCHANGED <<pc, item, todo, next, alive, q, made, plstate, replies>>
      /\ q = NULL /\ prevq' = NULL
      /\ \/ mpc = "clean" /\ mpc' = "forget" /\ head' = NULL /\ tail' = tail
         \/ mpc = "forget" /\ mpc' = "ended" /\ head' = head /\ tail' = NULL
         \/ mpc = "ended" /\ mpc' = "idle" /\ head' = head /\ tail' = tail
         \/ mpc = "walk" /\ mpc' = "idle" /\ head' = head /\ tail' = tail
  BY DEF ForgetHead, ForgetTail, RunBegin, WalkEnd, listVars, addVars, reqVars, Walk
<1>2. /\ Looking' /\ Owned' /\ Unseen'
      /\ \A u, d : Pending(u, d)' <=> Pending(u, d)
  BY <1>1, MainFrame DEF addVars
<1>3. Linked' = Linked /\ First' = First /\ Ahead' = NULL
  BY <1>1 DEF Linked, First, Ahead
<1>4. \A x, d : Pred(x, d)' <=> Pred(x, d)
  BY <1>1, <1>3 DEF Pred
<1>5. Pointers' /\ Walk'
  BY <1>1, <1>2, <1>3, <1>4 DEF Pointers, Walk
<1>6. Ordered' /\ Answered'
  BY <1>1 DEF Ordered, Forward, Answered
<1> QED
  BY <1>2, <1>5, <1>6 DEF Parts

(* The walk and the clean-up begin at load_queue_head.                     *)
LEMMA BeginStep ==
    ASSUME IInv, TypeOK', MetadataUpdated \/ RunEnd
    PROVE  Parts'
<1> USE NullAssumption DEF IInv
<1>1. /\ UNCHANGED <<pc, item, todo, head, tail, next, alive, made, plstate, replies>>
      /\ mpc = "idle" /\ q' = head /\ prevq' = NULL /\ mpc' \in {"walk", "clean"}
  BY DEF MetadataUpdated, RunEnd, MainIdle, Enter, listVars, addVars, reqVars, Walk
<1>2. head # NULL => Pred(NULL, head) /\ head \in Cells
  BY <1>1 DEF Pred, First, TypeOK
<1>3. head # NULL => /\ head \in Linked /\ \A u \in Threads : ~Pending(u, head)
                     /\ \A x \in Cells \union {NULL} : Pred(x, head) => x = NULL
  BY <1>2 DEF Pointers
<1>4. /\ Looking' /\ Owned' /\ Unseen'
      /\ \A u, d : Pending(u, d)' <=> Pending(u, d)
  <2>1. head \in alive \union {q, NULL}
    BY <1>1, <1>3 DEF Linked
  <2> QED
    BY <1>1, <2>1, MainFrame DEF addVars, Walk
<1>5. Linked' = Linked /\ Ahead' = head /\ \A x \in Cells, d \in Cells : Pred(x, d)' <=> Pred(x, d)
  BY <1>1 DEF Linked, Ahead, Pred
<1>6. \A d \in Cells : Pred(NULL, d)' => Pred(NULL, d)
  BY <1>1 DEF Pred, First
<1>7. Pointers'
  BY <1>4, <1>5, <1>6 DEF Pointers
<1>8. Walk'
  BY <1>1, <1>2, <1>3, <1>4, <1>5, <1>6 DEF Walk
<1>9. Ordered' /\ Answered'
  BY <1>1 DEF Ordered, Forward, Answered
<1> QED
  BY <1>4, <1>7, <1>8, <1>9 DEF Parts

(* What a cell that the walk stands on points to.                          *)
LEMMA NextCell ==
    ASSUME IInv, mpc \in {"walk", "clean"}, q # NULL
    PROVE  /\ q \in Cells /\ q \in alive /\ Linked = alive /\ next[q] # q
           /\ \A x \in Cells \union {NULL} : Pred(x, q) => x = prevq
           /\ next[q] # NULL =>
                /\ next[q] \in Cells /\ next[q] \in alive
                /\ \A t \in Threads : ~Pending(t, next[q])
                /\ \A x \in Cells \union {NULL} : Pred(x, next[q]) => x = q
<1> USE NullAssumption DEF IInv
<1>1. q \in Cells /\ q \in alive /\ Linked = alive
      /\ \A x \in Cells \union {NULL} : Pred(x, q) => x = prevq
  BY DEF Walk, Ahead, Linked, TypeOK
<1>2. PICK rank \in [Cells -> Nat] : Forward(rank)
  BY DEF Ordered
<1>3. next[q] # q
  BY <1>1, <1>2 DEF Forward
<1>4. next[q] # NULL => next[q] \in Cells /\ Pred(q, next[q])
  BY <1>1 DEF Pred, TypeOK
<1> QED
  BY <1>1, <1>3, <1>4 DEF Pointers

(* The walk goes on behind a track that is not loaded ...                  *)
LEMMA WalkPastStep ==
    ASSUME IInv, TypeOK', WalkPast
    PROVE  Parts'
<1> USE NullAssumption DEF IInv
<1>1. /\ UNCHANGED <<pc, item, todo, head, tail, next, alive, mpc, made, plstate, replies>>
      /\ mpc = "walk" /\ q # NULL /\ prevq' = q /\ q' = next[q]
  BY DEF WalkPast, listVars, addVars, reqVars
<1>2. /\ q \in Cells /\ q \in alive /\ Linked = alive
      /\ next[q] # NULL =>
           /\ next[q] \in Cells /\ next[q] \in alive
           /\ \A t \in Threads : ~Pending(t, next[q])
           /\ \A x \in Cells \union {NULL} : Pred(x, next[q]) => x = q
  BY <1>1, NextCell
<1>3. /\ Looking' /\ Owned' /\ Unseen'
      /\ \A u, d : Pending(u, d)' <=> Pending(u, d)
  BY <1>1, <1>2, MainFrame DEF addVars
<1>4. Linked' = Linked /\ Ahead' = next[q] /\ \A x, d : Pred(x, d)' <=> Pred(x, d)
  BY <1>1 DEF Linked, Ahead, Pred, First
<1>5. Pointers' /\ Walk'
  BY <1>1, <1>2, <1>3, <1>4 DEF Pointers, Walk
<1>6. Ordered' /\ Answered'
  BY <1>1, <1>2, <1>4 DEF Ordered, Forward, Answered
<1> QED
  BY <1>3, <1>5, <1>6 DEF Parts

(* ... or unlinks the cell.                                                *)
LEMMA UnlinkStep ==
    ASSUME IInv, TypeOK', Unlink
    PROVE  Parts'
<1> USE NullAssumption DEF IInv
<1>1. /\ UNCHANGED <<pc, item, todo, tail, alive, q, prevq, made, plstate, replies>>
      /\ mpc = "walk" /\ mpc' = "reply" /\ q # NULL
      /\ IF prevq # NULL THEN next' = [next EXCEPT ![prevq] = next[q]] /\ head' = head
                         ELSE head' = next[q] /\ next' = next
  BY DEF Unlink, addVars, reqVars
<1>2. /\ q \in Cells /\ q \in alive /\ Linked = alive /\ next[q] # q
      /\ \A x \in Cells \union {NULL} : Pred(x, q) => x = prevq
      /\ next[q] # NULL =>
           /\ next[q] \in Cells /\ next[q] \in alive
           /\ \A t \in Threads : ~Pending(t, next[q])
           /\ \A x \in Cells \union {NULL} : Pred(x, next[q]) => x = q
  BY <1>1, NextCell
<1>3. \A c \in Cells : next'[c] = next[c] \/ (c = prevq /\ next'[c] = next[q])
  BY <1>1 DEF TypeOK
<1>4. /\ Looking' /\ Owned' /\ Unseen'
      /\ \A u, d : Pending(u, d)' <=> Pending(u, d)
      /\ \A t \in Threads : ~Pending(t, q)
  BY <1>1, <1>3, MainFrame DEF addVars
<1>5. PICK rank \in [Cells -> Nat] : Forward(rank)
  BY DEF Ordered
<1>6. prevq # q
  BY <1>1, <1>2, <1>5 DEF Forward, Ahead
<1>7. next'[q] = next[q] /\ Ahead' = next[q] /\ Linked' = Linked \ {q}
  BY <1>1, <1>2, <1>3, <1>6 DEF Ahead, Linked
<1>8. \A x \in Cells \union {NULL}, d \in Cells :
          Pred(x, d)' => x # q /\ (Pred(x, d) \/ (x = prevq /\ d = next[q]))
  BY <1>1, <1>2, <1>3, <1>7 DEF Pred, First
<1>9. \A x \in Cells \union {NULL} : ~Pred(x, q)'
  <2> SUFFICES ASSUME NEW x \in Cells \union {NULL}, Pred(x, q)' PROVE FALSE
    OBVIOUS
  <2>1. x = prevq
    BY <1>1, <1>2, <1>8
  <2> QED
    BY <1>1, <1>2, <2>1 DEF Pred, First, TypeOK
<1>10. Pointers'
  <2> SUFFICES ASSUME NEW x \in Cells \union {NULL}, NEW d \in Cells, Pred(x, d)'
               PROVE  /\ d \in Linked'
                      /\ \A u \in Threads : ~Pending(u, d)'
                      /\ \A y \in Cells \union {NULL} : Pred(y, d)' => x = y
    BY DEF Pointers
  <2>1. d # q
    BY <1>1, <1>9
  <2>2. CASE d = next[q]
    BY <1>2, <1>4, <1>7, <1>8, <2>1, <2>2
  <2>3. CASE d # next[q]
    BY <1>4, <1>7, <1>8, <2>1, <2>3 DEF Pointers
  <2> QED
    BY <2>2, <2>3
<1>11. Walk'
  <2>1. Ahead' # NULL => /\ Ahead' \in Linked' /\ \A t \in Threads : ~Pending(t, Ahead)'
                         /\ \A x \in Cells \union {NULL} : Pred(x, Ahead)' => x = prevq
    BY <1>2, <1>4, <1>7, <1>8
  <2> QED
    BY <1>1, <1>2, <1>4, <2>1 DEF Walk
<1>12. Ordered'
  <2>1. rank[prevq] < rank[q] \/ prevq = NULL
    BY <1>1, <1>5 DEF Forward, Ahead
  <2>2. next[q] # NULL => rank[q] < rank[next[q]]
    BY <1>2, <1>5 DEF Forward
  <2>3. next[q] # NULL => rank[prevq] < rank[next[q]] \/ prevq = NULL
    BY <1>2, <1>5, <2>1, <2>2 DEF TypeOK
  <2>4. Forward(rank)'
    BY <1>1, <1>3, <1>5, <1>7, <2>1, <2>2, <2>3 DEF Forward
  <2> QED
    BY <2>4 DEF Ordered
<1>13. Answered'
  BY <1>1 DEF Answered
<1> QED
  BY <1>4, <1>10, <1>11, <1>12, <1>13 DEF Parts

LEMMA ReplyAndFreeStep ==
    ASSUME IInv, TypeOK', ReplyAndFree
    PROVE  Parts'
<1> USE NullAssumption DEF IInv
<1>1. /\ UNCHANGED <<pc, item, todo, head, tail, next, q, prevq, made, plstate>>
      /\ mpc = "reply" /\ mpc' = "advance" /\ alive' = alive \ {q}
      /\ q \in Cells /\ q \in alive
  BY DEF ReplyAndFree, addVars, Walk
<1>2. /\ Looking' /\ Owned' /\ Unseen'
      /\ \A u, d : Pending(u, d)' <=> Pending(u, d)
  BY <1>1, MainFrame DEF addVars
<1>3. Linked' = Linked /\ Ahead' = Ahead /\ \A x, d : Pred(x, d)' <=> Pred(x, d)
  BY <1>1 DEF Linked, Ahead, Pred, First
<1>4. Pointers' /\ Walk'
  BY <1>1, <1>2, <1>3 DEF Pointers, Walk
<1>5. Ordered'
  BY <1>1, <1>3 DEF Ordered, Forward
<1>6. ~Fresh(q) /\ \A t \in Threads : q \notin todo[t]
  BY <1>1 DEF Unseen, Walk, Pending
<1>7. q[1] \notin Playlists => q[3] = "nif" /\ q = <<q[1], 1, "nif">>
  BY <1>1, <1>6, CellParts, TrackCell DEF Fresh
<1>8. q[1] \notin Playlists => q[1] \in Requests /\ q[1] \in made
  BY <1>1, <1>6, <1>7, CellParts DEF Fresh
<1>9. \A r \in Requests \ Playlists : replies'[r] = replies[r]
          \/ (r = q[1] /\ replies'[r] = replies[r] + 1)
  BY DEF ReplyAndFree, Reply, TypeOK
<1>10. Answered'
  <2> SUFFICES ASSUME NEW r \in Requests \ Playlists
               PROVE  /\ replies'[r] \in {0, 1}
                      /\ replies'[r] = 1 =>
                           /\ r \in made'
                           /\ <<r, 1, "nif">> \notin alive'
                           /\ \A t \in Threads : <<r, 1, "nif">> \notin todo'[t]
    BY DEF Answered
  <2>1. CASE r = q[1]
    <3>1. q = <<r, 1, "nif">> /\ replies[r] = 0
      BY <1>1, <1>7, <2>1 DEF Answered
    <3> QED
      BY <1>1, <1>6, <1>8, <1>9, <2>1, <3>1
  <2>2. CASE r # q[1]
    BY <1>1, <1>9, <2>2 DEF Answered
  <2> QED
    BY <2>1, <2>2
<1> QED
  BY <1>2, <1>4, <1>5, <1>10 DEF Parts

LEMMA AdvanceStep ==
    ASSUME IInv, TypeOK', Advance
    PROVE  Parts'
<1> USE NullAssumption DEF IInv
<1>1. /\ UNCHANGED <<pc, item, todo, head, tail, next, alive, prevq, made, plstate, replies>>
      /\ mpc = "advance" /\ mpc' = "walk" /\ q' = next[q]
  BY DEF Advance, listVars, addVars, reqVars
<1>2. Linked' = Linked /\ Linked = alive /\ Ahead' = Ahead /\ Ahead = next[q]
      /\ \A x, d : Pred(x, d)' <=> Pred(x, d)
  BY <1>1 DEF Linked, Ahead, Pred, First
<1>3. /\ Looking' /\ Owned' /\ Unseen'
      /\ \A u, d : Pending(u, d)' <=> Pending(u, d)
  <2>1. next[q] \in alive \union {q, NULL}
    BY <1>2 DEF Walk
  <2> QED
    BY <1>1, <2>1, MainFrame DEF addVars
<1>4. Pointers' /\ Walk'
  BY <1>1, <1>2, <1>3 DEF Pointers, Walk
<1>5. Ordered' /\ Answered'
  BY <1>1, <1>2 DEF Ordered, Forward, Answered
<1> QED
  BY <1>3, <1>4, <1>5 DEF Parts

(* The clean-up frees the cell it stands on.                               *)
LEMMA FreeCellStep ==
    ASSUME IInv, TypeOK', FreeCell
    PROVE  Parts'
<1> USE NullAssumption DEF IInv
<1>1. /\ UNCHANGED <<pc, item, todo, head, tail, next, mpc, prevq, made, plstate, replies>>
      /\ mpc = "clean" /\ q # NULL /\ prevq = NULL /\ alive' = alive \ {q} /\ q' = next[q]
  BY DEF FreeCell, addVars, reqVars, Walk
<1>2. /\ q \in Cells /\ q \in alive /\ Linked = alive /\ next[q] # q
      /\ \A x \in Cells \union {NULL} : Pred(x, q) => x = prevq
      /\ next[q] # NULL =>
           /\ next[q] \in Cells /\ next[q] \in alive
           /\ \A t \in Threads : ~Pending(t, next[q])
           /\ \A x \in Cells \union {NULL} : Pred(x, next[q]) => x = q
  BY <1>1, NextCell
<1>3. /\ Looking' /\ Owned' /\ Unseen'
      /\ \A u, d : Pending(u, d)' <=> Pending(u, d)
  BY <1>1, <1>2, MainFrame DEF addVars
<1>4. Linked' = alive \ {q} /\ Ahead' = next[q] /\ ~Pred(NULL, q)
  BY <1>1, <1>2 DEF Linked, Ahead, Pred, First
<1>5. \A x \in Cells \union {NULL}, d \in Cells : Pred(x, d)' => x # q /\ Pred(x, d) /\ d # q
  <2> SUFFICES ASSUME NEW x \in Cells \union {NULL}, NEW d \in Cells, Pred(x, d)'
               PROVE  x # q /\ Pred(x, d) /\ d # q
    OBVIOUS
  <2>1. x # q /\ Pred(x, d)
    BY <1>1, <1>2, <1>4 DEF Pred, First
  <2> QED
    BY <1>1, <1>2, <1>4, <2>1
<1>6. Pointers'
  BY <1>2, <1>3, <1>4, <1>5 DEF Pointers
<1>7. Walk'
  BY <1>1, <1>2, <1>3, <1>4, <1>5 DEF Walk
<1>8. Ordered' /\ Answered'
  BY <1>1 DEF Ordered, Forward, Answered
<1> QED
  BY <1>3, <1>6, <1>7, <1>8 DEF Parts

-----------------------------------------------------------------------------
LEMMA StepIInv == IInv /\ [Next]_vars => IInv'
<1> SUFFICES ASSUME IInv, [Next]_vars PROVE Parts'
  BY TypeCorrectStep DEF Parts, IInv
<1>1. TypeOK'
  BY TypeCorrectStep
<1>2. ASSUME NEW t \in Nifs, NEW r \in Requests \ Playlists, TrackInfo(t, r) PROVE Parts'
  BY <1>1, <1>2, TrackInfoStep
<1>3. ASSUME NEW t \in Nifs, NEW r \in Playlists, LoadPlaylist(t, r) PROVE Parts'
  BY <1>1, <1>3, LoadPlaylistStep
<1>4. ASSUME NEW t \in Threads, AddStep(t) PROVE Parts'
  BY <1>1, <1>4, LookAtPlaylistStep, AddCellStep, SetHeadStep, LinkStep, SetTailStep DEF AddStep
<1>5. ASSUME NEW r \in Playlists, PlaylistLoaded(r) PROVE Parts'
  BY <1>1, <1>5, PlaylistLoadedStep
<1>6. ASSUME MetadataUpdated \/ RunEnd PROVE Parts'
  BY <1>1, <1>6, BeginStep
<1>7. ASSUME ForgetHead \/ ForgetTail \/ RunBegin \/ WalkEnd PROVE Parts'
  BY <1>1, <1>7, RestStep
<1>8. ASSUME WalkPast \/ Unlink \/ ReplyAndFree \/ Advance \/ FreeCell PROVE Parts'
  BY <1>1, <1>8, WalkPastStep, UnlinkStep, ReplyAndFreeStep, AdvanceStep, FreeCellStep
<1>9. ASSUME \/ MetadataForPlayer
             \/ \E new \in SUBSET (Tracks \ loaded) : TracksLoad(new)
             \/ \E r \in Playlists : PlaylistLoads(r)
             \/ \E u \in PlayerTracks : PlayerLoad(u)
             \/ UNCHANGED vars
      PROVE  Parts'
  <2>1. UNCHANGED <<listVars, addVars, walkVars, made, plstate, replies>>
    BY <1>9 DEF MetadataForPlayer, TracksLoad, PlaylistLoads, PlayerLoad, vars, reqVars
  <2> QED
    BY <2>1, OutsideStep
<1> QED
  BY <1>2, <1>3, <1>4, <1>5, <1>6, <1>7, <1>8, <1>9 DEF Next, MainStep, Threads

LEMMA Invariant == Spec => []IInv
<1> QED
  BY InitIInv, StepIInv, PTL DEF Spec

-----------------------------------------------------------------------------
(* In every reachable state the variables have their types.                *)
THEOREM TypeCorrect == Spec => []TypeOK
<1>1. IInv => TypeOK
  BY DEF IInv
<1> QED
  BY <1>1, Invariant, PTL

-----------------------------------------------------------------------------
(* As long as calls and callbacks take turns, load_queue_tail is set when  *)
(* the queue is not empty, but while a cell is being added.                *)
TakingTurns ==
    ~overlapped =>
        /\ ~crashed
        /\ \A t \in Threads : pc[t] # "idle" =>
              mpc = "idle" /\ \A u \in Threads : pc[u] # "idle" => t = u
        /\ head # NULL => tail # NULL \/ \E t \in Threads : pc[t] = "settail"
        /\ \A t \in Threads : pc[t] = "link" => tail # NULL
        /\ mpc = "forget" => head = NULL
        /\ mpc \in {"walk", "reply", "advance"} /\ q # NULL => tail # NULL

LEMMA InitTurns == Init => TakingTurns
  BY DEF Init, TakingTurns

(* Replies are sent while there is a feedback queue.                       *)
LEMMA ReplyInTurn ==
    ASSUME NEW r, Reply(r), mpc \in {"idle", "reply"} PROVE ~crashed'
  BY DEF Reply, HasQueue

(* A thread that enters finds everyone at rest.                            *)
LEMMA EnterInTurn ==
    ASSUME TakingTurns, NEW t \in Threads, Enter(t), ~overlapped'
    PROVE  ~overlapped /\ ~crashed /\ mpc = "idle" /\ \A u \in Threads : pc[u] = "idle"
  BY DEF TakingTurns, Enter, Quiet, MainIdle, Threads

(* One thread moves, and the list stays as it is.                          *)
LEMMA ThreadTurn ==
    ASSUME TakingTurns, TypeOK, NEW t \in Threads, UNCHANGED <<head, tail, walkVars>>,
           ~overlapped' => /\ ~overlapped /\ ~crashed' /\ mpc = "idle"
                           /\ \A u \in Threads : u # t => pc[u] = "idle",
           pc[t] # "settail", \A u \in Threads : u # t => pc'[u] = pc[u],
           pc'[t] = "link" => head # NULL
    PROVE  TakingTurns'
  BY DEF TakingTurns, walkVars

LEMMA StepTurns == IInv /\ TakingTurns /\ [Next]_vars => TakingTurns'
<1> SUFFICES ASSUME IInv, TakingTurns, [Next]_vars PROVE TakingTurns'
  OBVIOUS
<1>0. TypeOK /\ \A t \in Nifs : t \in Threads
  BY DEF IInv, Threads
<1>1. ASSUME NEW t \in Nifs, NEW r \in Requests \ Playlists, TrackInfo(t, r)
      PROVE  TakingTurns'
  <2>1. Enter(t) /\ UNCHANGED <<head, tail, walkVars>> /\ t \in Threads /\ pc[t] = "idle"
    BY <1>0, <1>1 DEF TrackInfo, listVars, Enter
  <2>2. ~overlapped' => ~overlapped /\ ~crashed /\ mpc = "idle" /\ \A u \in Threads : pc[u] = "idle"
    BY <2>1, EnterInTurn
  <2>3. ~overlapped' => ~crashed'
    BY <1>1, <2>2, ReplyInTurn DEF TrackInfo
  <2>4. pc'[t] # "link" /\ \A u \in Threads : u # t => pc'[u] = pc[u]
    BY <1>0, <1>1, <2>1 DEF TrackInfo, StartAdd, TypeOK, addVars
  <2> QED
    BY <1>0, <2>1, <2>2, <2>3, <2>4, ThreadTurn
<1>2. ASSUME NEW t \in Nifs, NEW r \in Playlists, LoadPlaylist(t, r) PROVE TakingTurns'
  <2>1. Enter(t) /\ UNCHANGED <<head, tail, walkVars, crashed>> /\ t \in Threads /\ pc[t] = "idle"
    BY <1>0, <1>2 DEF LoadPlaylist, listVars, Enter
  <2>2. ~overlapped' => ~overlapped /\ ~crashed /\ mpc = "idle" /\ \A u \in Threads : pc[u] = "idle"
    BY <2>1, EnterInTurn
  <2>3. pc'[t] # "link" /\ \A u \in Threads : u # t => pc'[u] = pc[u]
    BY <1>0, <1>2, <2>1 DEF LoadPlaylist, TypeOK
  <2> QED
    BY <1>0, <2>1, <2>2, <2>3, ThreadTurn
<1>3. ASSUME NEW r \in Playlists, PlaylistLoaded(r) PROVE TakingTurns'
  <2> DEFINE t == "main"
  <2>1. Enter(t) /\ UNCHANGED <<head, tail, walkVars>> /\ t \in Threads /\ pc[t] = "idle"
    BY <1>3 DEF PlaylistLoaded, listVars, Enter, Threads
  <2>2. ~overlapped' => ~overlapped /\ ~crashed /\ mpc = "idle" /\ \A u \in Threads : pc[u] = "idle"
    BY <2>1, EnterInTurn
  <2>3. ~overlapped' => ~crashed'
    BY <1>3, <2>2, ReplyInTurn DEF PlaylistLoaded, PlStateChange
  <2>4. pc'[t] # "link" /\ \A u \in Threads : u # t => pc'[u] = pc[u]
    BY <1>0, <1>3, <2>1 DEF PlaylistLoaded, PlStateChange, StartAdd, TypeOK
  <2> QED
    BY <1>0, <2>1, <2>2, <2>3, <2>4, ThreadTurn
<1>4. ASSUME NEW t \in Threads, pc[t] # "idle", UNCHANGED overlapped, ~overlapped
      PROVE  ~crashed /\ mpc = "idle" /\ \A u \in Threads : u # t => pc[u] = "idle"
  BY <1>4 DEF TakingTurns
<1>5. ASSUME NEW t \in Threads, LookAtPlaylist(t) PROVE TakingTurns'
  <2>1. /\ UNCHANGED <<head, tail, walkVars, overlapped>> /\ pc[t] = "look"
        /\ ~overlapped => mpc = "idle"
    BY <1>4, <1>5 DEF LookAtPlaylist, listVars, ghostVars
  <2>2. ~overlapped' => ~crashed'
    BY <1>5, <2>1, ReplyInTurn DEF LookAtPlaylist, PlStateChange, TakingTurns
  <2>3. pc'[t] # "link" /\ \A u \in Threads : u # t => pc'[u] = pc[u]
    BY <1>0, <1>5 DEF LookAtPlaylist, PlStateChange, StartAdd, TypeOK
  <2> QED
    BY <1>0, <1>4, <2>1, <2>2, <2>3, ThreadTurn
<1>6. ASSUME NEW t \in Threads, AddCell(t) PROVE TakingTurns'
  <2>1. UNCHANGED <<head, tail, walkVars, overlapped, crashed>> /\ pc[t] = "add"
    BY <1>6 DEF AddCell, ghostVars
  <2>2. (pc'[t] = "link" => head # NULL) /\ \A u \in Threads : u # t => pc'[u] = pc[u]
    BY <1>0, <1>6 DEF AddCell, TypeOK
  <2> QED
    BY <1>0, <1>4, <2>1, <2>2, ThreadTurn
<1>7. ASSUME NEW t \in Threads, SetHead(t) \/ Link(t) PROVE TakingTurns'
  <2>1. /\ UNCHANGED <<tail, walkVars, overlapped>> /\ pc[t] \in {"sethead", "link"}
        /\ pc'[t] = "settail" /\ \A u \in Threads : u # t => pc'[u] = pc[u]
    BY <1>0, <1>7 DEF SetHead, Link, TypeOK, ghostVars
  <2>2. ~overlapped => ~crashed'
    BY <1>7 DEF SetHead, Link, TakingTurns
  <2> QED
    BY <1>4, <2>1, <2>2 DEF TakingTurns, walkVars
<1>8. ASSUME NEW t \in Threads, SetTail(t) PROVE TakingTurns'
  <2>1. /\ UNCHANGED <<head, walkVars, overlapped, crashed>> /\ pc[t] = "settail"
        /\ pc'[t] \in {"idle", "add"} /\ \A u \in Threads : u # t => pc'[u] = pc[u]
    BY <1>0, <1>8 DEF SetTail, StartAdd, TypeOK, ghostVars
  <2>2. tail' # NULL
    BY <1>8, NullAssumption DEF SetTail, IInv, Owned
  <2> QED
    BY <1>4, <2>1, <2>2 DEF TakingTurns, walkVars
<1>9. ASSUME MetadataUpdated PROVE TakingTurns'
  <2>1. Enter("main") /\ "main" \in Threads
    BY <1>9 DEF MetadataUpdated, Threads
  <2>2. ~overlapped' => ~overlapped /\ ~crashed /\ \A u \in Threads : pc[u] = "idle"
    BY <2>1, EnterInTurn
  <2>3. mpc' = "walk" /\ q' = head /\ UNCHANGED <<head, tail, pc, crashed>>
    BY <1>9 DEF MetadataUpdated, listVars, addVars
  <2> QED
    BY <2>2, <2>3 DEF TakingTurns
<1>10. ASSUME MetadataForPlayer PROVE TakingTurns'
  <2>1. Enter("main") /\ "main" \in Threads
    BY <1>10 DEF MetadataForPlayer, Threads
  <2>2. ~overlapped' => ~overlapped
    BY <2>1, EnterInTurn
  <2>3. UNCHANGED <<head, tail, pc, mpc, q, crashed>>
    BY <1>10 DEF MetadataForPlayer, listVars, addVars, walkVars
  <2> QED
    BY <2>2, <2>3 DEF TakingTurns
<1>11. ASSUME RunEnd PROVE TakingTurns'
  <2>1. ~overlapped' => ~overlapped /\ \A t \in Threads : pc[t] = "idle"
    BY <1>11 DEF RunEnd, Quiet, MainIdle, Threads
  <2>2. mpc' = "clean" /\ UNCHANGED <<head, tail, pc, crashed>>
    BY <1>11 DEF RunEnd, listVars, addVars
  <2> QED
    BY <2>1, <2>2 DEF TakingTurns
<1>12. ASSUME WalkEnd \/ WalkPast \/ Advance \/ FreeCell PROVE TakingTurns'
  <2>1. /\ UNCHANGED <<head, tail, pc, crashed, overlapped>>
        /\ \/ mpc = "walk" /\ mpc' = "idle"
           \/ mpc \in {"walk", "advance"} /\ mpc' = "walk" /\ q # NULL
           \/ mpc = "clean" /\ mpc' = "clean"
    BY <1>12, NullAssumption
       DEF WalkEnd, WalkPast, Advance, FreeCell, listVars, addVars, IInv, Walk, ghostVars
  <2> QED
    BY <2>1 DEF TakingTurns
<1>13. ASSUME Unlink \/ ReplyAndFree PROVE TakingTurns'
  <2>1. /\ UNCHANGED <<tail, pc, q, overlapped>> /\ q # NULL
        /\ mpc \in {"walk", "reply"} /\ mpc' \in {"reply", "advance"}
    BY <1>13, NullAssumption DEF Unlink, ReplyAndFree, addVars, IInv, Walk, ghostVars
  <2>2. ~overlapped => tail # NULL /\ ~crashed' /\ \A t \in Threads : pc[t] = "idle"
    BY <1>13, <2>1, ReplyInTurn DEF TakingTurns, Unlink, ReplyAndFree
  <2> QED
    BY <2>1, <2>2 DEF TakingTurns
<1>14. ASSUME ForgetHead \/ ForgetTail \/ RunBegin PROVE TakingTurns'
  <2>1. /\ UNCHANGED <<pc, crashed, overlapped>>
        /\ \/ mpc' = "forget" /\ head' = NULL /\ mpc = "clean"
           \/ mpc = "forget" /\ mpc' = "ended" /\ head' = head
           \/ mpc = "ended" /\ mpc' = "idle" /\ UNCHANGED <<head, tail>>
    BY <1>14 DEF ForgetHead, ForgetTail, RunBegin, listVars, addVars, ghostVars
  <2> QED
    BY <2>1 DEF TakingTurns
<1>15. ASSUME \/ \E new \in SUBSET (Tracks \ loaded) : TracksLoad(new)
              \/ \E r \in Playlists : PlaylistLoads(r)
              \/ \E u \in PlayerTracks : PlayerLoad(u)
              \/ UNCHANGED vars
       PROVE  TakingTurns'
  <2>1. UNCHANGED <<head, tail, pc, mpc, q, crashed, overlapped>>
    BY <1>15 DEF TracksLoad, PlaylistLoads, PlayerLoad, vars, listVars, addVars, walkVars,
          ghostVars
  <2> QED
    BY <2>1 DEF TakingTurns
<1> QED
  BY <1>1, <1>2, <1>3, <1>5, <1>6, <1>7, <1>8, <1>9, <1>10, <1>11, <1>12, <1>13, <1>14, <1>15
     DEF Next, MainStep, AddStep, Threads

LEMMA Turns == Spec => []TakingTurns
<1> QED
  BY InitTurns, StepTurns, Invariant, PTL DEF Spec

(* The allocated cells, but for the one that has just been unlinked, are   *)
(* such a list in every interleaving, and no cell is freed twice.          *)
THEOREM ListAlwaysAlive == Spec => []ListAlive
<1>1. IInv /\ TakingTurns => ListAlive
  <2>0. IInv => NoDoubleFree
    BY DEF IInv, NoDoubleFree, Walk, Ahead, Linked
  <2> SUFFICES ASSUME IInv, TakingTurns, mpc # "clean" PROVE \E S \in SUBSET alive : IsList(S)
    BY <2>0 DEF ListAlive, TakingTurns
  <2> USE NullAssumption DEF IInv
  <2>1. Linked \in SUBSET alive /\ alive \subseteq Cells
    BY DEF Linked, TypeOK
  <2>2. head \in Linked \union {NULL}
    <3>1. head # NULL => head \in Cells /\ Pred(NULL, head)
      BY DEF Pred, First, TypeOK
    <3> QED
      BY <3>1 DEF Pointers
  <2>3. ASSUME NEW c \in Linked, next[c] # NULL
        PROVE  /\ next[c] \in Linked /\ next[c] # head
               /\ \A d \in Linked : next[c] = next[d] => c = d
    <3>1. c \in Cells /\ next[c] \in Cells /\ Pred(c, next[c])
      BY <2>1, <2>3 DEF Pred, TypeOK
    <3>2. next[c] \in Linked /\ \A y \in Cells \union {NULL} : Pred(y, next[c]) => c = y
      BY <3>1 DEF Pointers
    <3>3. next[c] # head
      BY <3>1, <3>2 DEF Pred, First
    <3>4. \A d \in Linked : next[c] = next[d] => c = d
      BY <2>1, <3>2 DEF Pred
    <3> QED
      BY <3>2, <3>3, <3>4
  <2>4. IsList(Linked)
    BY <2>2, <2>3 DEF IsList
  <2> QED
    BY <2>1, <2>4
<1> QED
  BY <1>1, Turns, Invariant, PTL

-----------------------------------------------------------------------------
NoCells(r) == \A c \in Cells : c[1] = r => c \notin alive /\ \A t \in Threads : c \notin todo[t]

(* As long as they take turns, a playlist has cells between its            *)
(* pl_state_change and its answer only; and if load_queue_check meets at   *)
(* most one loaded track of it at a time, that one is the last.            *)
PlaylistOnce ==
    ~overlapped /\ ~batched =>
        \A r \in Playlists :
            /\ replies[r] \in {0, 1}
            /\ plstate[r] # "done" => replies[r] = 0
            /\ plstate[r] # "done" \/ replies[r] = 1 => NoCells(r)
            /\ \A t \in Nifs : pc[t] = "look" /\ item[t][1] = r => plstate[r] = "watched"
            /\ mpc \in {"walk", "reply", "advance"} =>
                   \A c, d \in Due : c[1] = r /\ d[1] = r => c = d

LEMMA InitOnce == Init => PlaylistOnce
<1> SUFFICES ASSUME Init, NEW r \in Playlists
             PROVE  replies[r] = 0 /\ NoCells(r) /\ plstate[r] = "none"
  BY DEF Init, PlaylistOnce, Threads
<1> QED
  BY LoadQueueAssumption DEF Init, NoCells

(* pl_state_change on a playlist that is watched: it is answered or gets   *)
(* its cells.                                                              *)
LEMMA PlStateOnce ==
    ASSUME IInv, PlaylistOnce, ~overlapped, ~batched, mpc = "idle", UNCHANGED <<alive, loaded, mpc>>,
           NEW t \in Threads, NEW r \in Playlists, NEW w \in {"nif", "main"},
           plstate[r] # "done", PlStateChange(t, r, w),
           \A u \in Threads : u # t => pc[u] = "idle"
    PROVE  PlaylistOnce'
<1> SUFFICES ASSUME NEW p \in Playlists
             PROVE  /\ replies'[p] \in {0, 1}
                    /\ plstate'[p] # "done" => replies'[p] = 0
                    /\ plstate'[p] # "done" \/ replies'[p] = 1 => NoCells(p)'
                    /\ \A u \in Nifs : pc'[u] # "look"
  BY DEF PlaylistOnce
<1>0. TypeOK /\ p \in Requests /\ r \in Requests /\ \A n \in Nifs : n \in Threads
  BY LoadQueueAssumption DEF IInv, Threads
<1>1. \A u \in Nifs : pc'[u] # "look"
  BY <1>0 DEF PlStateChange, StartAdd, TypeOK
<1>2. todo' = [todo EXCEPT ![t] = Missing(r, w)] /\ plstate' = [plstate EXCEPT ![r] = "done"]
  BY DEF PlStateChange, StartAdd
<1>3. replies[r] = 0 /\ NoCells(r)
  BY DEF PlaylistOnce
<1>4. CASE p = r
  <2>1. plstate'[p] = "done"
    BY <1>0, <1>2, <1>4 DEF TypeOK
  <2>2. CASE Missing(r, w) = {}
    <3>1. replies'[r] \in {0, 1}
      BY <1>0, <1>3, <2>2 DEF PlStateChange, Reply, TypeOK
    <3>2. NoCells(r)'
      BY <1>0, <1>2, <1>3, <2>2 DEF NoCells, TypeOK
    <3> QED
      BY <1>1, <1>4, <2>1, <3>1, <3>2
  <2>3. CASE Missing(r, w) # {}
    BY <1>1, <1>3, <1>4, <2>1, <2>3 DEF PlStateChange
  <2> QED
    BY <2>2, <2>3
<1>5. CASE p # r
  <2>1. replies'[p] = replies[p] /\ plstate'[p] = plstate[p]
    BY <1>0, <1>2, <1>5 DEF PlStateChange, Reply, TypeOK
  <2>2. NoCells(p) => NoCells(p)'
    BY <1>0, <1>2, <1>5 DEF NoCells, Missing, TypeOK
  <2> QED
    BY <1>1, <2>1, <2>2 DEF PlaylistOnce
<1> QED
  BY <1>4, <1>5

(* A step that neither adds nor answers nor changes a playlist's state.    *)
LEMMA FrameOnce ==
    ASSUME PlaylistOnce, ~overlapped, ~batched, UNCHANGED <<replies, plstate>>,
           \A r \in Playlists : NoCells(r) => NoCells(r)',
           \A t \in Nifs : pc'[t] = "look" => pc[t] = "look" /\ item'[t] = item[t],
           mpc' \in {"walk", "reply", "advance"} =>
               mpc \in {"walk", "reply", "advance"} /\ Due' \subseteq Due
    PROVE  PlaylistOnce'
  BY DEF PlaylistOnce

LEMMA StepOnce == IInv /\ TakingTurns /\ PlaylistOnce /\ [Next]_vars => PlaylistOnce'
<1> SUFFICES ASSUME IInv, TakingTurns, PlaylistOnce, [Next]_vars, ~overlapped', ~batched'
             PROVE  PlaylistOnce'
  BY DEF PlaylistOnce
<1>0. TypeOK /\ Playlists \subseteq Requests /\ \A t \in Nifs : t \in Threads /\ t # "main"
  BY LoadQueueAssumption DEF IInv, Threads
<1>1. ASSUME NEW t \in Nifs, NEW r \in Requests \ Playlists, TrackInfo(t, r)
      PROVE  PlaylistOnce'
  <2>1. /\ ~overlapped /\ ~batched /\ mpc = "idle"
        /\ UNCHANGED <<alive, loaded, mpc, plstate>>
    BY <1>0, <1>1, EnterInTurn DEF TrackInfo, listVars, walkVars, spVars
  <2>2. \A p \in Playlists : replies'[p] = replies[p]
    BY <1>0, <1>1 DEF TrackInfo, Reply, TypeOK
  <2>3. \A p \in Playlists : NoCells(p) => NoCells(p)'
    BY <1>0, <1>1, <2>1 DEF TrackInfo, StartAdd, addVars, NoCells, TypeOK
  <2>4. \A u \in Nifs : pc'[u] # "look"
    BY <1>0, <1>1, EnterInTurn DEF TrackInfo, StartAdd, addVars, TypeOK
  <2> QED
    BY <2>1, <2>2, <2>3, <2>4 DEF PlaylistOnce
<1>2. ASSUME NEW t \in Nifs, NEW r \in Playlists, LoadPlaylist(t, r) PROVE PlaylistOnce'
  <2>1. /\ ~overlapped /\ ~batched /\ mpc = "idle" /\ \A u \in Threads : pc[u] = "idle"
        /\ UNCHANGED <<alive, loaded, mpc, todo, replies>>
    BY <1>0, <1>2, EnterInTurn DEF LoadPlaylist, listVars, walkVars, spVars
  <2>2. plstate[r] # "done"
    BY <1>2 DEF LoadPlaylist, IInv, Looking
  <2>3. /\ plstate' = [plstate EXCEPT ![r] = "watched"]
        /\ \A u \in Nifs : pc'[u] = "look" => u = t
        /\ item'[t] = <<r, 1, "nif">>
    BY <1>0, <1>2, <2>1 DEF LoadPlaylist, TypeOK
  <2>4. \A p \in Playlists : NoCells(p) => NoCells(p)'
    BY <2>1 DEF NoCells
  <2>5. \A p \in Playlists : plstate'[p] = IF p = r THEN "watched" ELSE plstate[p]
    BY <1>0, <2>3 DEF TypeOK
  <2> QED
    BY <2>1, <2>2, <2>3, <2>4, <2>5 DEF PlaylistOnce
<1>3. ASSUME NEW t \in Threads, LookAtPlaylist(t) PROVE PlaylistOnce'
  <2>1. /\ ~overlapped /\ ~batched /\ mpc = "idle" /\ pc[t] = "look"
        /\ \A u \in Threads : u # t => pc[u] = "idle"
        /\ UNCHANGED <<alive, loaded, mpc>>
    BY <1>3 DEF TakingTurns, LookAtPlaylist, listVars, walkVars, spVars, ghostVars
  <2>2. t \in Nifs /\ item[t][1] \in Playlists
    BY <1>3, <2>1 DEF IInv, Looking, Threads
  <2>3. plstate[item[t][1]] # "done"
    BY <2>1, <2>2 DEF PlaylistOnce
  <2>4. CASE item[t][1] \in pl_loaded
    BY <1>3, <2>1, <2>2, <2>3, <2>4, PlStateOnce DEF LookAtPlaylist
  <2>5. CASE item[t][1] \notin pl_loaded
    <3>1. UNCHANGED <<replies, plstate>> /\ StartAdd(t, {})
      BY <1>3, <2>5 DEF LookAtPlaylist
    <3>2. \A p \in Playlists : NoCells(p) => NoCells(p)'
      BY <1>0, <2>1, <3>1 DEF StartAdd, NoCells, TypeOK
    <3>3. \A u \in Nifs : pc'[u] # "look"
      BY <1>0, <2>1, <3>1 DEF StartAdd, TypeOK
    <3> QED
      BY <2>1, <3>1, <3>2, <3>3, FrameOnce
  <2> QED
    BY <2>4, <2>5
<1>4. ASSUME NEW r \in Playlists, PlaylistLoaded(r) PROVE PlaylistOnce'
  <2>1. "main" \in Threads /\ Enter("main")
    BY <1>4 DEF PlaylistLoaded, Threads
  <2>2. /\ ~overlapped /\ ~batched /\ mpc = "idle" /\ \A u \in Threads : pc[u] = "idle"
        /\ UNCHANGED <<alive, loaded, mpc>>
    BY <1>0, <1>4, <2>1, EnterInTurn DEF PlaylistLoaded, listVars, walkVars, spVars, TypeOK
  <2> QED
    BY <1>4, <2>1, <2>2, PlStateOnce DEF PlaylistLoaded
<1>5. ASSUME NEW t \in Threads, AddCell(t) PROVE PlaylistOnce'
  <2>1. ~overlapped /\ ~batched /\ mpc = "idle" /\ UNCHANGED <<mpc, loaded, replies, plstate>>
    BY <1>5 DEF TakingTurns, AddCell, walkVars, spVars, reqVars, ghostVars
  <2>2. PICK c \in todo[t] :
            /\ item' = [item EXCEPT ![t] = c]
            /\ todo' = [todo EXCEPT ![t] = @ \ {c}] /\ alive' = alive \union {c}
    BY <1>5 DEF AddCell
  <2>3. \A p \in Playlists : NoCells(p) => NoCells(p)'
    BY <1>0, <2>2 DEF NoCells, TypeOK
  <2>4. \A u \in Nifs : pc'[u] = "look" => pc[u] = "look" /\ item'[u] = item[u]
    BY <1>0, <1>5, <2>2 DEF AddCell, TypeOK
  <2> QED
    BY <2>1, <2>3, <2>4, FrameOnce
<1>6. ASSUME NEW t \in Threads, SetHead(t) \/ Link(t) \/ SetTail(t) PROVE PlaylistOnce'
  <2>1. /\ ~overlapped /\ ~batched /\ mpc = "idle"
        /\ UNCHANGED <<mpc, alive, loaded, replies, plstate>>
    BY <1>6 DEF TakingTurns, SetHead, Link, SetTail, walkVars, spVars, reqVars, ghostVars
  <2>2. UNCHANGED todo /\ \A u \in Nifs : pc'[u] = "look" => pc[u] = "look" /\ item'[u] = item[u]
    BY <1>0, <1>6 DEF SetHead, Link, SetTail, StartAdd, TypeOK
  <2> QED
    BY <2>1, <2>2, FrameOnce DEF NoCells
<1>7. CASE MetadataUpdated
  <2>1. "main" \in Threads /\ Enter("main")
    BY <1>7 DEF MetadataUpdated, Threads
  <2>2. ~overlapped /\ \A u \in Threads : pc[u] = "idle"
    BY <2>1, EnterInTurn
  <2>3. ~batched /\ \A c, d \in Due : c[1] = d[1] => c = d
    BY <1>7 DEF MetadataUpdated
  <2>4. /\ UNCHANGED <<alive, loaded, todo, pc, item, replies, plstate>>
        /\ Due' = Due
    BY <1>7 DEF MetadataUpdated, listVars, addVars, reqVars, Due
  <2>5. \A p \in Playlists : NoCells(p) => NoCells(p)'
    BY <2>4 DEF NoCells
  <2> QED
    BY <2>2, <2>3, <2>4, <2>5 DEF PlaylistOnce
<1>8. CASE ReplyAndFree
  <2>1. /\ ~overlapped /\ ~batched /\ \A u \in Threads : pc[u] = "idle" /\ todo[u] = {}
        /\ mpc = "reply" /\ alive' = alive \ {q} /\ UNCHANGED <<q, todo, pc, item, loaded, plstate>>
    BY <1>8 DEF ReplyAndFree, TakingTurns, addVars, spVars, ghostVars, IInv, Owned
  <2>2. q \in Cells /\ q \in alive /\ q[1] \in Requests
    BY <2>1, CellParts DEF IInv, Walk
  <2>3. \A p \in Playlists : NoCells(p) => NoCells(p)'
    BY <2>1 DEF NoCells
  <2>4. Due' \subseteq Due
    BY <2>1 DEF Due
  <2>5. \A p \in Playlists : p # q[1] => replies'[p] = replies[p]
    BY <1>0, <1>8, <2>2 DEF ReplyAndFree, Reply, TypeOK
  <2>6. CASE UNCHANGED replies
    BY <2>1, <2>3, <2>4, <2>6, FrameOnce
  <2>7. CASE q[1] \notin Playlists
    BY <2>1, <2>3, <2>4, <2>5, <2>7 DEF PlaylistOnce
  <2>8. CASE q[1] \in Playlists /\ replies' # replies
    <3>1. /\ Reply(q[1])
          /\ \A k \in DOMAIN TracksOf[q[1]] : TracksOf[q[1]][k] \in loaded
      BY <1>8, <2>8 DEF ReplyAndFree
    <3>2. plstate[q[1]] = "done" /\ replies[q[1]] = 0
      BY <2>1, <2>2, <2>8 DEF PlaylistOnce, NoCells
    <3>3. replies'[q[1]] \in {0, 1}
      BY <1>0, <2>2, <3>1, <3>2 DEF Reply, TypeOK
    <3>4. \A c \in Cells : c[1] = q[1] /\ c \in alive => c \in Due
      BY <2>8, <3>1, CellParts DEF Due, TrackOf
    <3>5. \A c \in Cells : c[1] = q[1] /\ c \in alive => c = q
      BY <2>1, <2>2, <2>8, <3>4 DEF PlaylistOnce
    <3>6. NoCells(q[1])'
      BY <2>1, <3>5 DEF NoCells
    <3> QED
      BY <2>1, <2>3, <2>4, <2>5, <3>2, <3>3, <3>6 DEF PlaylistOnce
  <2> QED
    BY <2>6, <2>7, <2>8
<1>9. CASE UNCHANGED <<alive, todo, pc, item, replies, plstate, overlapped, batched, loaded>>
           /\ (mpc' \in {"walk", "reply", "advance"} => mpc \in {"walk", "reply", "advance"})
  BY <1>9, FrameOnce DEF NoCells, Due
<1>10. CASE RunEnd \/ MetadataForPlayer
  <2>1. ~overlapped /\ UNCHANGED <<alive, todo, pc, item, replies, plstate, batched, loaded>>
    BY <1>0, <1>10
       DEF RunEnd, MetadataForPlayer, Enter, listVars, addVars, reqVars, TypeOK
  <2>2. mpc' \in {"walk", "reply", "advance"} => mpc \in {"walk", "reply", "advance"}
    BY <1>10 DEF RunEnd, MetadataForPlayer, walkVars
  <2> QED
    BY <2>1, <2>2, FrameOnce DEF NoCells, Due
<1>11. CASE FreeCell
  <2>1. /\ UNCHANGED <<todo, pc, item, replies, plstate, overlapped, batched, mpc>>
        /\ mpc = "clean" /\ alive' \subseteq alive
    BY <1>11 DEF FreeCell, addVars, reqVars, ghostVars
  <2> QED
    BY <2>1, FrameOnce DEF NoCells
<1>12. CASE \E new \in SUBSET (Tracks \ loaded) : TracksLoad(new)
  <2>1. /\ UNCHANGED <<alive, todo, pc, item, replies, plstate, overlapped, batched, mpc>>
        /\ mpc = "idle"
    BY <1>12 DEF TracksLoad, MainIdle, listVars, addVars, walkVars, reqVars, ghostVars
  <2> QED
    BY <2>1, FrameOnce DEF NoCells
<1>13. CASE \/ WalkEnd \/ WalkPast \/ Unlink \/ Advance \/ ForgetHead \/ ForgetTail \/ RunBegin
            \/ \E r \in Playlists : PlaylistLoads(r)
            \/ \E u \in PlayerTracks : PlayerLoad(u)
            \/ UNCHANGED vars
  BY <1>9, <1>13
     DEF WalkEnd, WalkPast, Unlink, Advance, ForgetHead, ForgetTail, RunBegin, PlaylistLoads,
         PlayerLoad, vars, listVars, addVars, walkVars, spVars, reqVars, ghostVars
<1> QED
  BY <1>1, <1>2, <1>3, <1>4, <1>5, <1>6, <1>7, <1>8, <1>10, <1>11, <1>12, <1>13
     DEF Next, MainStep, AddStep, Threads

LEMMA AnsweredPlaylists == Spec => []PlaylistOnce
<1> QED
  BY InitOnce, StepOnce, Invariant, Turns, PTL DEF Spec

-----------------------------------------------------------------------------
(* A step that makes or answers request r, and no other.                   *)
Moves(r) ==
    /\ \A u \in Requests : u # r => (u \in made' <=> u \in made) /\ replies'[u] = replies[u]
    /\ r \in made => r \in made'
    /\ replies'[r] = 0 => replies[r] = 0

(* The requests for which RequestTable.tla's promise is void.              *)
Void == IF overlapped \/ batched THEN Playlists ELSE {}

LEMMA VoidGrows == [Next]_vars => Void \subseteq Void'
<1> SUFFICES ASSUME [Next]_vars PROVE (overlapped => overlapped') /\ (batched => batched')
  BY DEF Void
<1>1. \/ UNCHANGED overlapped
      \/ \E t \in Threads : Enter(t)
      \/ RunEnd
  BY DEF Next, MainStep, AddStep, Threads, TrackInfo, LoadPlaylist, PlaylistLoaded,
         LookAtPlaylist, AddCell, SetHead, Link, SetTail, TracksLoad, PlaylistLoads, PlayerLoad,
         MetadataForPlayer, MetadataUpdated, WalkEnd, WalkPast, Unlink, ReplyAndFree, Advance,
         FreeCell, ForgetHead, ForgetTail, RunBegin, vars, ghostVars
<1>2. UNCHANGED batched \/ MetadataUpdated
  BY DEF Next, MainStep, AddStep, TrackInfo, LoadPlaylist, PlaylistLoaded,
         LookAtPlaylist, AddCell, SetHead, Link, SetTail, TracksLoad, PlaylistLoads, PlayerLoad,
         MetadataForPlayer, WalkEnd, WalkPast, Unlink, ReplyAndFree, Advance,
         RunEnd, FreeCell, ForgetHead, ForgetTail, RunBegin, vars, ghostVars
<1>3. overlapped => overlapped'
  BY <1>1 DEF Enter, RunEnd
<1>4. batched => batched'
  BY <1>2 DEF MetadataUpdated
<1> QED
  BY <1>3, <1>4

(* Elsewhere a request is answered once, after it has been made.           *)
AnsweredOnce ==
    \A r \in Requests \ Void : replies[r] \in {0, 1} /\ (replies[r] = 1 => r \in made)

LEMMA OnceMade == IInv /\ PlaylistOnce => AnsweredOnce
<1> SUFFICES ASSUME IInv, PlaylistOnce, NEW r \in Requests \ Void
             PROVE  replies[r] \in {0, 1} /\ (replies[r] = 1 => r \in made)
  BY DEF AnsweredOnce
<1>1. CASE r \in Playlists
  <2>1. replies[r] \in {0, 1} /\ (replies[r] = 1 => plstate[r] = "done")
    BY <1>1 DEF PlaylistOnce, Void
  <2> QED
    BY <1>1, <2>1 DEF IInv, Looking
<1>2. CASE r \notin Playlists
  BY <1>2 DEF IInv, Answered
<1> QED
  BY <1>1, <1>2

(* A reply is counted for one request.                                     *)
LEMMA ReplyMoves ==
    ASSUME TypeOK, NEW r \in Requests, UNCHANGED replies \/ Reply(r),
           made' = made \/ made' = made \union {r}
    PROVE  Moves(r)
  BY DEF TypeOK, Reply, Moves

(* track_info, load_playlist, pl_state_change and load_queue_check each    *)
(* concern one request; no other step makes or answers any.                *)
LEMMA OneMoves ==
    IInv /\ [Next]_vars => (\E r \in Requests : Moves(r)) \/ UNCHANGED <<made, replies>>
<1> SUFFICES ASSUME IInv, [Next]_vars
             PROVE  (\E r \in Requests : Moves(r)) \/ UNCHANGED <<made, replies>>
  OBVIOUS
<1>0. TypeOK /\ Playlists \subseteq Requests
  BY LoadQueueAssumption DEF IInv
<1>1. ASSUME NEW t \in Nifs, NEW r \in Requests \ Playlists, TrackInfo(t, r) PROVE Moves(r)
  BY <1>0, <1>1, ReplyMoves DEF TrackInfo
<1>2. ASSUME NEW t \in Nifs, NEW r \in Playlists, LoadPlaylist(t, r) PROVE Moves(r)
  BY <1>0, <1>2, ReplyMoves DEF LoadPlaylist
<1>3. ASSUME NEW t \in Threads, LookAtPlaylist(t)
      PROVE  item[t][1] \in Requests /\ Moves(item[t][1])
  <2>1. item[t][1] \in Requests
    BY <1>0, <1>3 DEF IInv, Looking, LookAtPlaylist, Threads
  <2> QED
    BY <1>0, <1>3, <2>1, ReplyMoves DEF LookAtPlaylist, PlStateChange
<1>4. ASSUME NEW r \in Playlists, PlaylistLoaded(r) PROVE Moves(r)
  BY <1>0, <1>4, ReplyMoves DEF PlaylistLoaded, PlStateChange
<1>5. ASSUME ReplyAndFree PROVE q[1] \in Requests /\ Moves(q[1])
  <2>1. q[1] \in Requests
    BY <1>5, CellParts DEF ReplyAndFree, IInv, Walk
  <2> QED
    BY <1>0, <1>5, <2>1, ReplyMoves DEF ReplyAndFree
<1>6. \/ \E t \in Nifs, r \in Requests \ Playlists : TrackInfo(t, r)
      \/ \E t \in Nifs, r \in Playlists : LoadPlaylist(t, r)
      \/ \E t \in Threads : LookAtPlaylist(t)
      \/ \E r \in Playlists : PlaylistLoaded(r)
      \/ ReplyAndFree
      \/ UNCHANGED <<made, replies>>
  BY DEF Next, MainStep, AddStep, Threads, AddCell, SetHead, Link, SetTail, TracksLoad,
         PlaylistLoads, PlayerLoad, MetadataForPlayer, MetadataUpdated, WalkEnd, WalkPast,
         Unlink, Advance, RunEnd, FreeCell, ForgetHead, ForgetTail, RunBegin, vars, reqVars
<1> QED
  BY <1>0, <1>1, <1>2, <1>3, <1>4, <1>5, <1>6

LEMMA TableInit == Init => Table!Init
  BY DEF Init, Table!Init, TableState

LEMMA TableTyped ==
    TypeOK /\ TypeOK' => /\ \A r \in Requests : TableState(r) \in Table!States
                        /\ \A r \in Requests : TableState(r)' \in Table!States
<1>1. TypeOK => \A r \in Requests : replies[r] = 0 \/ replies[r] = 1 \/ replies[r] > 1
  BY DEF TypeOK
<1>2. TypeOK' => \A r \in Requests : replies'[r] = 0 \/ replies'[r] = 1 \/ replies'[r] > 1
  BY DEF TypeOK
<1> QED
  BY <1>1, <1>2 DEF TableState, Table!States

LEMMA TableStep ==
    IInv /\ IInv' /\ PlaylistOnce /\ PlaylistOnce' /\ [Next]_vars => [Table!Next]_Table!vars
<1> SUFFICES ASSUME IInv, IInv', PlaylistOnce, PlaylistOnce', [Next]_vars PROVE Table!Next
  OBVIOUS
<1> DEFINE state == [r \in Requests |-> TableState(r)]
<1>1. state' \in [Requests -> Table!States]
  BY TableTyped DEF IInv
<1>2. Void \subseteq Void' /\ Void' \in SUBSET Requests
  BY VoidGrows, LoadQueueAssumption DEF Void
<1>3. ASSUME NEW r \in Requests, Moves(r)
      PROVE  /\ \A u \in Requests : u # r => state'[u] = state[u]
             /\ r \notin Void' /\ state'[r] # state[r] => <<state[r], state'[r]>> \in Table!Moves
  <2>1. \A u \in Requests : u # r => TableState(u)' = TableState(u)
    BY <1>3 DEF Moves, TableState
  <2>2. r \notin Void' =>
            /\ replies[r] \in {0, 1} /\ (replies[r] = 1 => r \in made)
            /\ replies'[r] \in {0, 1} /\ (replies'[r] = 1 => r \in made')
    <3>1. AnsweredOnce /\ AnsweredOnce'
      BY OnceMade, PTL
    <3> QED
      BY <1>2, <3>1 DEF AnsweredOnce
  <2>3. r \notin Void' =>
            \/ TableState(r)' = TableState(r)
            \/ TableState(r) = "free" /\ TableState(r)' \in {"open", "answered"}
            \/ TableState(r) = "open" /\ TableState(r)' = "answered"
    BY <1>3, <2>2 DEF Moves, TableState
  <2> QED
    BY <2>1, <2>3 DEF Table!Moves
<1>4. CASE \E r \in Requests : Moves(r)
  <2>1. PICK r \in Requests : Moves(r)
    BY <1>4
  <2> QED
    BY <1>1, <1>2, <1>3, <2>1 DEF Table!Next, Void
<1>5. CASE UNCHANGED <<made, replies>>
  <2>1. \A u \in Requests : state'[u] = state[u]
    BY <1>5 DEF TableState
  <2> QED
    BY <1>1, <1>2, <2>1 DEF Table!Next, Void
<1> QED
  BY <1>4, <1>5, OneMoves

(* However NIFs, callbacks, walks and the ends of sessions interleave,     *)
(* track_info requests are those of RequestTable.tla: each reference is    *)
(* returned at most once, after its call, and one at a time.  So are those *)
(* of load_playlist until calls and callbacks overlap or load_queue_check  *)
(* finds two tracks of one playlist loaded.                                *)
THEOREM ImplementsTable == Spec => TableSpec
<1>1. Table!Init /\ [][Table!Next]_Table!vars => TableSpec
  BY DEF TableSpec, Table!Spec
<1> QED
  BY <1>1, TableInit, TableStep, Invariant, AnsweredPlaylists, PTL DEF Spec
==============================================================================
