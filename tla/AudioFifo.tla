------------------------------ MODULE AudioFifo ------------------------------
(***************************************************************************)
(* The audio fifo between libspotify and the audio driver: music_delivery  *)
(* (c_src/spotifyctl/spotifyctl.c), audio_get and audio_fifo_flush         *)
(* (audio.c), and a driver that takes packets with audio_get and is done   *)
(* with one when it calls audio_get again.  What the drivers do with a     *)
(* packet is in AudioDrivers.tla.  Every critical section of af->mutex is  *)
(* one step.                                                               *)
(***************************************************************************)
EXTENDS Integers, Sequences

CONSTANTS
    Rates,     (* the sample rates of the formats libspotify delivers      *)
    Frames,    (* the numbers of frames in one delivery                    *)
    MaxRate,   (* the highest of each                                      *)
    MaxFrames,
    MaxPos     (* bound: the length of the stream in frames                *)

ASSUME AudioFifoAssumption ==
    /\ MaxRate \in Nat /\ MaxFrames \in Nat /\ MaxPos \in Nat
    /\ Rates \subseteq 0 .. MaxRate
    /\ Frames \subseteq 1 .. MaxFrames

(* An audio_fifo_data_t: a run of frames of the stream.                    *)
Packets == [pos : Nat, nsamples : Frames, rate : Rates]

VARIABLES
    q,        (* af->q, the oldest packet first                            *)
    qlen,     (* af->qlen                                                  *)
    cpc,      (* the driver: "getting", "waiting" on af->cond, "playing"   *)
    afd,      (* the packet it plays: a sequence of at most one            *)
    pos,      (* auxiliary: the frames of the stream accepted so far       *)
    played,   (* auxiliary: where the last packet taken by audio_get ended *)
    flushed   (* auxiliary: where the stream was when last flushed         *)

vars == <<q, qlen, cpc, afd, pos, played, flushed>>

Init ==
    /\ q = <<>> /\ qlen = 0
    /\ cpc = "getting" /\ afd = <<>>
    /\ pos = 0 /\ played = 0 /\ flushed = 0

(* Mutant: the signal on af->cond is left out.                             *)
SignalLost == cpc

(* The driver after a signal on af->cond.                                  *)
Signalled == IF cpc = "waiting" THEN "getting" ELSE cpc

(* Mutants: an empty delivery is queued, or the length is not limited.     *)
AcceptsEmpty(n, rate) == ~(qlen > rate)
AcceptsAlways(n, rate) == n # 0

(* music_delivery returns 0 for a discontinuity, which has no frames, and  *)
(* while more than one second of audio is queued.                          *)
Accepts(n, rate) == n # 0 /\ ~(qlen > rate)

(* Mutant: TAILQ_INSERT_HEAD.                                              *)
InsertHead(p) == <<p>> \o q

Insert(p) == Append(q, p)

(* music_delivery accepts n frames.  Otherwise nothing changes, and        *)
(* libspotify delivers the same frames again.                              *)
MusicDelivery(n, rate) ==
    /\ Accepts(n, rate)
    /\ pos + n <= MaxPos
    /\ q' = Insert([pos |-> pos, nsamples |-> n, rate |-> rate])
    /\ qlen' = qlen + n
    /\ pos' = pos + n
    /\ cpc' = Signalled
    /\ UNCHANGED <<afd, played, flushed>>

(* audio_get: nothing queued, wait ...                                     *)
GetWait ==
    /\ cpc = "getting"
    /\ q = <<>>
    /\ cpc' = "waiting"
    /\ UNCHANGED <<q, qlen, afd, pos, played, flushed>>

SpuriousWakeup ==
    /\ cpc = "waiting"
    /\ cpc' = "getting"
    /\ UNCHANGED <<q, qlen, afd, pos, played, flushed>>

(* Mutant: audio_get does not count the packet out.                        *)
LenKept(n) == qlen

LenWithout(n) == qlen - n

(* ... otherwise take the first packet.                                    *)
Get ==
    /\ cpc = "getting"
    /\ q # <<>>
    /\ afd' = <<q[1]>>
    /\ q' = Tail(q)
    /\ qlen' = LenWithout(q[1].nsamples)
    /\ played' = q[1].pos + q[1].nsamples
    /\ cpc' = "playing"
    /\ UNCHANGED <<pos, flushed>>

(* The driver has played and freed the packet.                             *)
Play ==
    /\ cpc = "playing"
    /\ afd' = <<>>
    /\ cpc' = "getting"
    /\ UNCHANGED <<q, qlen, pos, played, flushed>>

(* Mutant: the flush leaves qlen as it was.                                *)
FlushKeepsLen ==
    /\ q' = <<>>
    /\ flushed' = pos
    /\ UNCHANGED <<qlen, cpc, afd, pos, played>>

(* Mutant: the flush frees the first packet only.                          *)
FlushFirst ==
    /\ q' = IF q = <<>> THEN q ELSE Tail(q)
    /\ qlen' = 0
    /\ flushed' = pos
    /\ UNCHANGED <<cpc, afd, pos, played>>

(* audio_fifo_flush, from play_token_lost.                                 *)
Flush ==
    /\ q' = <<>> /\ qlen' = 0
    /\ flushed' = pos
    /\ UNCHANGED <<cpc, afd, pos, played>>

Driver == GetWait \/ Get \/ Play

Next ==
    \/ \E n \in Frames \union {0}, rate \in Rates : MusicDelivery(n, rate)
    \/ Driver
    \/ SpuriousWakeup
    \/ Flush

Spec == Init /\ [][Next]_vars

(* The driver thread runs on.                                              *)
FairSpec == Spec /\ WF_vars(Driver)

-----------------------------------------------------------------------------
(* The type of every variable.                                             *)
TypeOK ==
    /\ q \in Seq(Packets)
    /\ qlen \in Int
    /\ cpc \in {"getting", "waiting", "playing"}
    /\ afd \in Seq(Packets)
    /\ pos \in Nat /\ played \in Nat /\ flushed \in Nat

(* Deliveries, flushes and the driver in any order leave the queued        *)
(* packets in the order of the stream and without a gap or an overlap, and *)
(* the last one ends where the stream is.                                  *)
Contiguous ==
    /\ \A k \in 1 .. Len(q) - 1 : q[k].pos + q[k].nsamples = q[k + 1].pos
    /\ q # <<>> => q[Len(q)].pos + q[Len(q)].nsamples = pos

(* qlen is the number of frames in the queue, so it is never negative.     *)
QlenExact == qlen = IF q = <<>> THEN 0 ELSE pos - q[1].pos

(* One second of audio is buffered, and at most one delivery more.         *)
QlenBounded == qlen <= MaxRate + MaxFrames

(* What the driver takes next starts where it left off, unless a flush     *)
(* came in between: no frame is played twice or out of order, and only a   *)
(* flush leaves one out.                                                   *)
Gapless ==
    LET upcoming == IF q = <<>> THEN pos ELSE q[1].pos IN
    upcoming = played \/ (upcoming >= flushed /\ flushed >= played)

(* The driver never waits on af->cond while a packet is queued.            *)
NoSleepOnData == cpc = "waiting" => q = <<>>

(* A full queue does not stay full: the frames that music_delivery refuses *)
(* can be delivered again later.                                           *)
RoomAgain == \A rate \in Rates : qlen > rate ~> qlen <= rate
==============================================================================
