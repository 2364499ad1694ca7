-------------------------- MODULE AudioDriversProofs --------------------------
(***************************************************************************)
(* Theorems about AudioFifo.tla for any rates, delivery sizes and length   *)
(* of the stream, and about AudioDrivers.tla: it implements AudioFifo, so  *)
(* what is proved there holds with each driver; and OpenAL's ring of       *)
(* buffers.                                                                *)
(***************************************************************************)
EXTENDS AudioDrivers, TLAPS

(* Where the driver goes on: at the first queued packet, or at the end.    *)
Upcoming == IF q = <<>> THEN pos ELSE q[1].pos

(* No packet, taken or queued, lies beyond the frames accepted so far.     *)
Behind ==
    /\ played <= pos /\ flushed <= pos
    /\ \A k \in 1 .. Len(q) : q[k].pos + q[k].nsamples <= pos

IInv ==
    /\ TypeOK
    /\ Behind
    /\ Contiguous
    /\ QlenExact
    /\ QlenBounded
    /\ Gapless
    /\ NoSleepOnData

LEMMA InitIInv == Init => IInv
BY AudioFifoAssumption
   DEF Init, IInv, TypeOK, Behind, Contiguous, QlenExact, QlenBounded, Gapless, NoSleepOnData

(* The fields of the queued packets are numbers.                           *)
LEMMA QueuedPackets ==
    ASSUME q \in Seq(Packets)
    PROVE  \A k \in 1 .. Len(q) : q[k] \in Packets /\ q[k].pos \in Nat /\ q[k].nsamples \in Nat
<1>1. \A f \in Frames : f \in Nat
  BY AudioFifoAssumption
<1>2. ASSUME NEW k \in 1 .. Len(q)
      PROVE  q[k] \in Packets /\ q[k].pos \in Nat /\ q[k].nsamples \in Nat
  <2>1. q[k] \in Packets
    OBVIOUS
  <2> QED
    BY <1>1, <2>1 DEF Packets
<1> QED
  BY <1>2

(* An accepted delivery is the new last packet; what was queued stays.     *)
LEMMA DeliveryStep ==
    ASSUME IInv, NEW n \in Frames \union {0}, NEW rate \in Rates, MusicDelivery(n, rate)
    PROVE  IInv'
<1> DEFINE p == [pos |-> pos, nsamples |-> n, rate |-> rate]
<1>1. /\ n \in Frames /\ n \in 1 .. MaxFrames /\ rate \in Int /\ rate <= MaxRate
      /\ MaxRate \in Nat /\ MaxFrames \in Nat /\ qlen <= rate
  BY AudioFifoAssumption DEF MusicDelivery, Accepts, IInv, TypeOK
<1>2. /\ q \in Seq(Packets) /\ qlen \in Int /\ pos \in Nat /\ played \in Nat
      /\ flushed \in Nat /\ Len(q) \in Nat /\ (q = <<>> <=> Len(q) = 0)
  BY DEF IInv, TypeOK
<1>3. p \in Packets /\ p.pos = pos /\ p.nsamples = n
  BY <1>1, <1>2 DEF Packets
<1>4. q' = Append(q, p) /\ qlen' = qlen + n /\ pos' = pos + n
      /\ UNCHANGED <<afd, played, flushed>>
  BY DEF MusicDelivery, Insert
<1>5. /\ q' \in Seq(Packets) /\ q' # <<>> /\ Len(q') = Len(q) + 1
      /\ \A k \in 1 .. Len(q) : q'[k] = q[k]
      /\ q'[Len(q) + 1] = p
  BY <1>2, <1>3, <1>4
<1>6. \A k \in 1 .. Len(q) : q[k].pos \in Nat /\ q[k].nsamples \in Nat
  BY <1>2, QueuedPackets
<1>7. TypeOK'
  BY <1>1, <1>2, <1>4, <1>5 DEF IInv, TypeOK, MusicDelivery, Signalled
<1>8. Behind'
  <2>1. ASSUME NEW k \in 1 .. Len(q') PROVE q'[k].pos + q'[k].nsamples <= pos'
    <3>1. CASE k = Len(q) + 1
      BY <1>1, <1>2, <1>3, <1>4, <1>5, <3>1
    <3>2. CASE k \in 1 .. Len(q)
      <4>1. q[k].pos + q[k].nsamples <= pos
        BY <3>2 DEF IInv, Behind
      <4> QED
        BY <1>1, <1>2, <1>4, <1>5, <1>6, <3>2, <4>1
    <3> QED
      BY <1>2, <1>5, <3>1, <3>2
  <2>2. played <= pos /\ flushed <= pos
    BY DEF IInv, Behind
  <2>3. played' <= pos' /\ flushed' <= pos'
    BY <1>1, <1>2, <1>4, <2>2
  <2> QED
    BY <2>1, <2>3 DEF Behind
<1>9. Contiguous'
  <2>1. ASSUME NEW k \in 1 .. Len(q') - 1 PROVE q'[k].pos + q'[k].nsamples = q'[k + 1].pos
    <3>1. CASE k = Len(q)
      <4>1. q # <<>> /\ q[Len(q)].pos + q[Len(q)].nsamples = pos
        BY <1>2, <1>5, <3>1 DEF IInv, Contiguous
      <4> QED
        BY <1>2, <1>3, <1>5, <3>1, <4>1
    <3>2. CASE k \in 1 .. Len(q) - 1
      <4>1. q[k].pos + q[k].nsamples = q[k + 1].pos
        BY <3>2 DEF IInv, Contiguous
      <4> QED
        BY <1>2, <1>5, <3>2, <4>1
    <3> QED
      BY <1>2, <1>5, <3>1, <3>2
  <2>2. q'[Len(q')].pos + q'[Len(q')].nsamples = pos'
    BY <1>2, <1>3, <1>4, <1>5
  <2> QED
    BY <2>1, <2>2 DEF Contiguous
<1>10. (Upcoming)' = Upcoming
  <2>1. CASE q = <<>>
    BY <1>2, <1>3, <1>5, <2>1 DEF Upcoming
  <2>2. CASE q # <<>>
    BY <1>2, <1>5, <2>2 DEF Upcoming
  <2> QED
    BY <2>1, <2>2
<1>11. QlenExact'
  <2>1. qlen = pos - Upcoming
    BY <1>2 DEF IInv, QlenExact, Upcoming
  <2>2. Upcoming \in Nat
    BY <1>2, <1>6 DEF Upcoming
  <2>3. qlen' = pos' - (Upcoming)'
    BY <1>1, <1>2, <1>4, <1>10, <2>1, <2>2
  <2> QED
    BY <1>5, <2>3 DEF QlenExact, Upcoming
<1>12. QlenBounded'
  BY <1>1, <1>2, <1>4 DEF QlenBounded
<1>13. Gapless'
  <2>1. Upcoming = played \/ (Upcoming >= flushed /\ flushed >= played)
    BY DEF IInv, Gapless, Upcoming
  <2> QED
    BY <1>4, <1>10, <2>1 DEF Gapless, Upcoming
<1>14. NoSleepOnData'
  BY DEF NoSleepOnData, MusicDelivery, Signalled
<1> QED
  BY <1>7, <1>8, <1>9, <1>11, <1>12, <1>13, <1>14 DEF IInv

(* audio_get takes the first packet; the second one, or the end of the     *)
(* stream, begins where it ends.                                           *)
LEMMA GetStep == ASSUME IInv, Get PROVE IInv'
<1> DEFINE p == q[1]
<1>1. /\ q \in Seq(Packets) /\ qlen \in Int /\ pos \in Nat /\ played \in Nat
      /\ flushed \in Nat /\ q # <<>> /\ Len(q) \in Nat /\ Len(q) >= 1
      /\ MaxRate \in Nat /\ MaxFrames \in Nat
  BY AudioFifoAssumption DEF IInv, TypeOK, Get
<1>2. \A k \in 1 .. Len(q) : q[k] \in Packets /\ q[k].pos \in Nat /\ q[k].nsamples \in Nat
  BY <1>1, QueuedPackets
<1>3. /\ afd' = <<p>> /\ q' = Tail(q) /\ qlen' = qlen - p.nsamples
      /\ played' = p.pos + p.nsamples /\ UNCHANGED <<pos, flushed>> /\ cpc' = "playing"
  BY DEF Get, LenWithout
<1>4. /\ q' \in Seq(Packets) /\ Len(q') = Len(q) - 1 /\ (q' = <<>> <=> Len(q) = 1)
      /\ \A k \in 1 .. Len(q) - 1 : q'[k] = q[k + 1]
  <2>1. q' \in Seq(Packets) /\ Len(q') = Len(q) - 1
    BY <1>1, <1>3
  <2>2. \A k \in 1 .. Len(q) - 1 : q'[k] = q[k + 1]
    BY <1>1, <1>3
  <2>3. q' = <<>> <=> Len(q') = 0
    BY <2>1
  <2>4. \A n \in Nat : n - 1 = 0 <=> n = 1
    OBVIOUS
  <2> QED
    BY <1>1, <2>1, <2>2, <2>3, <2>4
<1>5. p \in Packets /\ p.pos \in Nat /\ p.nsamples \in Nat
  BY <1>1, <1>2
<1>6. TypeOK'
  BY <1>1, <1>3, <1>4, <1>5 DEF TypeOK
<1>7. p.pos + p.nsamples <= pos
  BY <1>1 DEF IInv, Behind
<1>8. Behind'
  <2>1. \A k \in 1 .. Len(q) : q[k].pos + q[k].nsamples <= pos
    BY DEF IInv, Behind
  <2>2. \A k \in 1 .. Len(q') : q'[k].pos + q'[k].nsamples <= pos
    BY <1>1, <1>4, <2>1
  <2>3. flushed <= pos
    BY DEF IInv, Behind
  <2> QED
    BY <1>3, <1>7, <2>2, <2>3 DEF Behind
<1>9. Contiguous'
  <2>1. \A k \in 1 .. Len(q) - 1 : q[k].pos + q[k].nsamples = q[k + 1].pos
    BY DEF IInv, Contiguous
  <2>2. q[Len(q)].pos + q[Len(q)].nsamples = pos
    BY <1>1 DEF IInv, Contiguous
  <2>3. ASSUME NEW k \in 1 .. Len(q') - 1 PROVE q'[k].pos + q'[k].nsamples = q'[k + 1].pos
    <3>1. k \in 1 .. Len(q) - 1 /\ k + 1 \in 1 .. Len(q) - 1
      BY <1>1, <1>4
    <3> QED
      BY <1>4, <2>1, <3>1
  <2>4. q' # <<>> => q'[Len(q')] = q[Len(q)]
    BY <1>1, <1>4
  <2> QED
    BY <1>3, <2>2, <2>3, <2>4 DEF Contiguous
<1>10. (Upcoming)' = p.pos + p.nsamples
  <2>1. CASE Len(q) = 1
    BY <1>1, <1>3, <1>4, <2>1 DEF IInv, Contiguous, Upcoming
  <2>2. CASE Len(q) # 1
    <3>0. \A n \in Nat : n >= 1 /\ n # 1 => 1 \in 1 .. n - 1
      OBVIOUS
    <3>1. 1 \in 1 .. Len(q) - 1
      BY <1>1, <2>2, <3>0
    <3>2. p.pos + p.nsamples = q[2].pos /\ q'[1] = q[2]
      BY <1>4, <3>1 DEF IInv, Contiguous
    <3> QED
      BY <1>4, <2>2, <3>2 DEF Upcoming
  <2> QED
    BY <2>1, <2>2
<1>11. QlenExact'
  <2>1. qlen = pos - p.pos
    BY <1>1 DEF IInv, QlenExact
  <2>2. qlen' = pos - (Upcoming)'
    BY <1>1, <1>3, <1>5, <1>10, <2>1
  <2> QED
    BY <1>1, <1>3, <2>2 DEF QlenExact, Upcoming
<1>12. QlenBounded'
  BY <1>1, <1>3, <1>5 DEF IInv, QlenBounded
<1>13. Gapless'
  BY <1>3, <1>10 DEF Gapless, Upcoming
<1>14. NoSleepOnData'
  BY <1>3 DEF NoSleepOnData
<1> QED
  BY <1>6, <1>8, <1>9, <1>11, <1>12, <1>13, <1>14 DEF IInv

LEMMA FlushStep == ASSUME IInv, Flush PROVE IInv'
<1>1. /\ pos \in Nat /\ played \in Nat /\ played <= pos /\ MaxRate \in Nat /\ MaxFrames \in Nat
      /\ cpc \in {"getting", "waiting", "playing"} /\ afd \in Seq(Packets)
  BY AudioFifoAssumption DEF IInv, TypeOK, Behind
<1>2. /\ q' = <<>> /\ qlen' = 0 /\ flushed' = pos /\ UNCHANGED <<cpc, afd, pos, played>>
      /\ q' \in Seq(Packets) /\ Len(q') = 0
  BY DEF Flush
<1> QED
  BY <1>1, <1>2
     DEF IInv, TypeOK, Behind, Contiguous, QlenExact, QlenBounded, Gapless, NoSleepOnData

(* Waiting, waking up and playing leave the queue and its length alone.    *)
LEMMA OtherStep ==
    ASSUME IInv, GetWait \/ SpuriousWakeup \/ Play \/ UNCHANGED vars PROVE IInv'
<1>1. UNCHANGED <<q, qlen, pos, played, flushed>>
  BY DEF GetWait, SpuriousWakeup, Play, vars
<1>2. TypeOK'
  <2>1. cpc' \in {"getting", "waiting", "playing"}
    BY DEF IInv, TypeOK, GetWait, SpuriousWakeup, Play, vars
  <2>2. afd' = afd \/ afd' = <<>>
    BY DEF GetWait, SpuriousWakeup, Play, vars
  <2>3. afd \in Seq(Packets) /\ <<>> \in Seq(Packets)
    BY DEF IInv, TypeOK
  <2>4. afd' \in Seq(Packets)
    BY <2>2, <2>3
  <2> QED
    BY <1>1, <2>1, <2>4 DEF IInv, TypeOK
<1>3. NoSleepOnData'
  BY <1>1 DEF IInv, NoSleepOnData, GetWait, SpuriousWakeup, Play, vars
<1> QED
  BY <1>1, <1>2, <1>3 DEF IInv, Behind, Contiguous, QlenExact, QlenBounded, Gapless

LEMMA Invariance == Spec => []IInv
<1>1. IInv /\ [Next]_vars => IInv'
  BY DeliveryStep, GetStep, FlushStep, OtherStep DEF Next, Driver
<1> QED
  BY <1>1, InitIInv, PTL DEF Spec

(* Every variable keeps its type.                                          *)
THEOREM TypeCorrect == Spec => []TypeOK
<1>1. IInv => TypeOK
  BY DEF IInv
<1> QED
  BY <1>1, Invariance, PTL

(* af->qlen is the number of frames queued, and never exceeds a second of  *)
(* audio by more than one delivery.                                        *)
THEOREM QlenCorrect == Spec => [](QlenExact /\ QlenBounded)
<1>1. IInv => QlenExact /\ QlenBounded
  BY DEF IInv
<1> QED
  BY <1>1, Invariance, PTL

(* The driver hears the stream in order, with no gap but by a flush.       *)
THEOREM StreamInOrder == Spec => [](Contiguous /\ Gapless)
<1>1. IInv => Contiguous /\ Gapless
  BY DEF IInv
<1> QED
  BY <1>1, Invariance, PTL

(* The driver never waits while a packet is queued.                        *)
THEOREM NoLostWakeup == Spec => []NoSleepOnData
<1>1. IInv => NoSleepOnData
  BY DEF IInv
<1> QED
  BY <1>1, Invariance, PTL

-----------------------------------------------------------------------------
(* The drivers.                                                            *)

(* Every step is a step of the fifo or leaves it alone.                    *)
LEMMA DriverStepIsFifoStep == [DNext]_allVars => [Next]_vars
<1> SUFFICES ASSUME [DNext]_allVars PROVE [Next]_vars
  OBVIOUS
<1>1. CASE \E n \in Frames \union {0}, rate \in Rates : Deliver(n, rate)
  BY <1>1 DEF Deliver, Next
<1>2. CASE FifoStep
  BY <1>2 DEF FifoStep, Next
<1>3. CASE DriverStep
  <2>1. GetWait \/ Get \/ Play \/ UNCHANGED vars
    BY <1>3 DEF DriverStep, AlsaPlay, OsxPlay, DummyPlay, QueueBuffer, Unqueue, Refill,
                FormatChanged, Detach, Restart
  <2> QED
    BY <2>1 DEF Next, Driver
<1>4. CASE Hear
  BY <1>4 DEF Hear
<1>5. CASE UNCHANGED allVars
  BY <1>5 DEF allVars
<1> QED
  BY <1>1, <1>2, <1>3, <1>4, <1>5 DEF DNext

(* The fifo with any of the drivers is the fifo of AudioFifo.tla.          *)
THEOREM ImplementsFifo == DSpec => Spec
<1>1. DInit => Init
  BY DEF DInit
<1> QED
  BY <1>1, DriverStepIsFifoStep, PTL DEF DSpec, Spec

(* With every driver, qlen is exact and bounded, the stream leaves the     *)
(* fifo in order, and the driver never waits while a packet is queued.     *)
THEOREM FifoSound == DSpec => [](TypeOK /\ QlenExact /\ QlenBounded /\ Gapless /\ NoSleepOnData)
  BY ImplementsFifo, TypeCorrect, QlenCorrect, StreamInOrder, NoLostWakeup, PTL

-----------------------------------------------------------------------------
(* Two facts about sequences, for the queue of the source.                 *)
LEMMA TailIsShifted ==
    ASSUME NEW S, NEW s \in Seq(S), s # <<>>
    PROVE  Tail(s) \in Seq(S) /\ Len(Tail(s)) = Len(s) - 1
           /\ \A k \in 1 .. Len(s) - 1 : Tail(s)[k] = s[k + 1]
  OBVIOUS

LEMMA AppendIsLast ==
    ASSUME NEW S, NEW s \in Seq(S), NEW e \in S
    PROVE  Append(s, e) \in Seq(S) /\ Len(Append(s, e)) = Len(s) + 1
           /\ Append(s, e)[Len(s) + 1] = e
           /\ \A k \in 1 .. Len(s) : Append(s, e)[k] = s[k]
  OBVIOUS

RingTypes ==
    /\ phase \in {"loop", "prebuffer", "polling", "running", "resetting", "detached"}
    /\ phase = "loop" <=> kind # "openal"
    /\ slot \in Slots /\ frame \in Slots
    /\ buffers \in [Slots -> Slots]
    /\ bufs \in [Slots -> Seq(Packets)]
    /\ srcq \in Seq(Slots)
    /\ source \in {"initial", "playing", "stopped"}
    /\ processed \in Nat
    /\ stale \in Seq(Packets)
    /\ refused \in {"none", "detach", "format"}

(* Which buffers are queued in each phase, before OpenAL refuses a call.   *)
Ring ==
    refused = "none" =>
    /\ \A i \in Slots : buffers[i] = i
    /\ phase \in {"loop", "detached"} => Len(srcq) = 0
    /\ phase = "prebuffer" =>
         frame = 0 /\ slot = Len(srcq) /\ \A k \in 1 .. Len(srcq) : srcq[k] = k - 1
    /\ phase = "polling" =>
         Len(srcq) = 3 /\ srcq[1] = frame /\ srcq[2] = (frame + 1) % 3 /\ srcq[3] = (frame + 2) % 3
    /\ phase \in {"running", "resetting"} =>
         Len(srcq) = 2 /\ srcq[1] = (frame + 1) % 3 /\ srcq[2] = (frame + 2) % 3

Played ==
    /\ source # "playing" => processed = 0
    /\ source = "playing" => phase \in {"polling", "running", "resetting", "detached"}
    /\ processed <= Len(srcq)

RInv == RingTypes /\ Ring /\ Played

(* The invariant holds at first, and after each step of the driver.        *)
LEMMA InitRInv == DInit => RInv
  BY DEF DInit, RInv, RingTypes, Ring, Played, Slots

(* Steps after which the ring is as it was.                                *)
LEMMA RingKept ==
    ASSUME RInv, UNCHANGED <<kind, phase, frame, source, processed, queueVars>>,
           stale' \in Seq(Packets)
    PROVE  RInv'
  BY DEF RInv, RingTypes, Ring, Played, queueVars

(* Filling a buffer: it is queued last unless its format is refused, and   *)
(* as long as OpenAL refuses nothing it was not queued and holds p.        *)
LEMMA FillBuffer ==
    ASSUME RInv, NEW b \in Slots, NEW p \in Seq(Packets), Fill(b, p),
           refused = "none" => ~Queued(b)
    PROVE  /\ bufs' \in [Slots -> Seq(Packets)]
           /\ srcq' \in Seq(Slots) /\ Len(srcq') >= Len(srcq)
           /\ refused' \in {"none", "detach", "format"}
           /\ refused' = "none" =>
                /\ refused = "none" /\ ~Queued(b)
                /\ bufs' = [bufs EXCEPT ![b] = p] /\ srcq' = Append(srcq, b)
           /\ Len(p) = 1 /\ (\A k \in 1 .. Len(srcq) : Len(bufs[srcq[k]]) = 1) =>
                \A k \in 1 .. Len(srcq') : Len(bufs'[srcq'[k]]) = 1
<1>1. /\ srcq \in Seq(Slots) /\ bufs \in [Slots -> Seq(Packets)] /\ Len(srcq) \in Nat
      /\ refused \in {"none", "detach", "format"}
  BY DEF RInv, RingTypes
<1>2. /\ bufs' = IF Queued(b) THEN bufs ELSE [bufs EXCEPT ![b] = p]
      /\ srcq' = srcq \/ srcq' = Append(srcq, b)
      /\ refused # "none" => refused' = refused
      /\ refused' = "none" => refused = "none" /\ ~Queued(b) /\ srcq' = Append(srcq, b)
      /\ refused = "none" => refused' \in {"none", "format"}
  BY DEF Fill, Written
<1>3. /\ Append(srcq, b) \in Seq(Slots) /\ Len(Append(srcq, b)) = Len(srcq) + 1
      /\ Append(srcq, b)[Len(srcq) + 1] = b
      /\ \A k \in 1 .. Len(srcq) : Append(srcq, b)[k] = srcq[k]
  BY <1>1, AppendIsLast
<1>4. /\ bufs' \in [Slots -> Seq(Packets)]
      /\ \A c \in Slots : c # b => bufs'[c] = bufs[c]
      /\ Queued(b) => bufs'[b] = bufs[b]
      /\ ~Queued(b) => bufs'[b] = p
  BY <1>1, <1>2
<1>5. srcq' \in Seq(Slots) /\ Len(srcq') >= Len(srcq)
  <2>1. CASE srcq' = srcq
    BY <1>1, <2>1
  <2>2. CASE srcq' = Append(srcq, b)
    BY <1>1, <1>3, <2>2
  <2> QED
    BY <1>2, <2>1, <2>2
<1>6. ASSUME Len(p) = 1, \A k \in 1 .. Len(srcq) : Len(bufs[srcq[k]]) = 1
      PROVE  \A k \in 1 .. Len(srcq') : Len(bufs'[srcq'[k]]) = 1
  <2>1. Len(bufs'[b]) = 1
    BY <1>4, <1>6 DEF Queued
  <2>2. ASSUME NEW k \in 1 .. Len(srcq) PROVE Len(bufs'[srcq[k]]) = 1
    <3>1. srcq[k] \in Slots
      BY <1>1
    <3> QED
      BY <1>4, <1>6, <2>1, <3>1
  <2>3. ASSUME NEW k \in 1 .. Len(srcq'), srcq' = Append(srcq, b)
        PROVE  Len(bufs'[srcq'[k]]) = 1
    <3>1. k = Len(srcq) + 1 \/ k \in 1 .. Len(srcq)
      BY <1>1, <1>3, <2>3
    <3> QED
      BY <1>3, <2>1, <2>2, <2>3, <3>1
  <2> QED
    BY <1>2, <2>2, <2>3
<1> QED
  BY <1>1, <1>2, <1>4, <1>5, <1>6

(* The buffers that the driver fills are not queued.                       *)
LEMMA NotQueued ==
    ASSUME RInv, refused = "none"
    PROVE  /\ phase = "prebuffer" => ~Queued(buffers[slot])
           /\ phase = "running" => ~Queued(buffers[frame])
           /\ phase = "detached" => ~Queued(buffers[0])
<1>1. phase = "prebuffer" => ~Queued(buffers[slot])
  BY DEF RInv, RingTypes, Ring, Slots, Queued
<1>2. phase = "running" => ~Queued(buffers[frame])
  <2> SUFFICES ASSUME phase = "running" PROVE ~Queued(buffers[frame])
    OBVIOUS
  <2>1. /\ frame \in 0 .. 2 /\ buffers[frame] = frame /\ Len(srcq) = 2
        /\ srcq[1] = (frame + 1) % 3 /\ srcq[2] = (frame + 2) % 3
    BY DEF RInv, RingTypes, Ring, Slots
  <2>2. (frame + 1) % 3 # frame /\ (frame + 2) % 3 # frame
    BY <2>1
  <2>3. \A k \in 1 .. 2 : k = 1 \/ k = 2
    OBVIOUS
  <2> QED
    BY <2>1, <2>2, <2>3 DEF Queued
<1>3. phase = "detached" => ~Queued(buffers[0])
  BY DEF RInv, RingTypes, Ring, Slots, Queued
<1> QED
  BY <1>1, <1>2, <1>3

(* Prefilling: the buffers 0, 1, 2 in turn.                                *)
LEMMA QueueBufferStep == ASSUME TypeOK, RInv, QueueBuffer PROVE RInv'
<1>1. /\ kind = "openal" /\ phase = "prebuffer" /\ slot \in 0 .. 2 /\ source # "playing"
      /\ buffers[slot] \in Slots /\ afd \in Seq(Packets) /\ Fill(buffers[slot], afd)
      /\ slot' = (slot + 1) % 3 /\ UNCHANGED <<kind, frame, buffers, processed, stale>>
      /\ processed = 0 /\ Len(srcq) \in Nat
  BY DEF QueueBuffer, RInv, RingTypes, Played, TypeOK, Slots
<1>2. /\ slot < 2 => phase' = phase /\ source' = source
      /\ slot = 2 => phase' = "polling" /\ source' = "playing"
  BY DEF QueueBuffer
<1>3. /\ bufs' \in [Slots -> Seq(Packets)] /\ srcq' \in Seq(Slots) /\ Len(srcq') >= Len(srcq)
      /\ refused' \in {"none", "detach", "format"}
      /\ refused' = "none" => refused = "none" /\ srcq' = Append(srcq, buffers[slot])
  <2>1. refused = "none" => ~Queued(buffers[slot])
    BY <1>1, NotQueued
  <2> QED
    BY <1>1, <2>1, FillBuffer
<1>4. slot' \in 0 .. 2 /\ (slot < 2 => slot' = slot + 1) /\ (slot < 2 \/ slot = 2)
  BY <1>1
<1>5. RingTypes'
  BY <1>1, <1>2, <1>3, <1>4 DEF RInv, RingTypes, Slots
<1>6. Ring'
  <2> SUFFICES ASSUME refused' = "none" PROVE Ring'
    BY DEF Ring
  <2>1. /\ frame = 0 /\ slot = Len(srcq) /\ buffers[slot] = slot
        /\ \A i \in Slots : buffers[i] = i
        /\ \A k \in 1 .. Len(srcq) : srcq[k] = k - 1
    BY <1>1, <1>3 DEF RInv, Ring, Slots
  <2>2. /\ Len(srcq') = slot + 1 /\ srcq'[slot + 1] = slot
        /\ \A k \in 1 .. slot : srcq'[k] = k - 1
    <3>1. srcq \in Seq(Slots) /\ slot \in Slots /\ srcq' = Append(srcq, slot)
      BY <1>3, <2>1 DEF RInv, RingTypes
    <3> QED
      BY <2>1, <3>1, AppendIsLast
  <2>3. \A k \in 1 .. slot + 1 : srcq'[k] = k - 1
    BY <1>1, <2>2
  <2>4. CASE slot = 2
    BY <1>1, <1>2, <2>1, <2>2, <2>3, <2>4 DEF Ring
  <2>5. CASE slot < 2
    BY <1>1, <1>2, <1>4, <2>1, <2>2, <2>3, <2>5 DEF Ring
  <2> QED
    BY <1>4, <2>4, <2>5
<1>7. Played'
  BY <1>1, <1>2, <1>3, <1>4 DEF Played, RingTypes
<1> QED
  BY <1>5, <1>6, <1>7 DEF RInv

(* Unqueuing takes the buffer that frame names off the queue's head.       *)
LEMMA UnqueueStep == ASSUME RInv, Unqueue PROVE RInv'
<1>1. /\ phase = "polling" /\ phase' = "running" /\ srcq' = Tail(srcq) /\ srcq \in Seq(Slots)
      /\ buffers' = [buffers EXCEPT ![frame] = Head(srcq)] /\ frame \in Slots
      /\ buffers \in [Slots -> Slots] /\ processed \in Nat /\ Len(srcq) \in Nat
      /\ UNCHANGED <<kind, slot, frame, bufs, source, stale, refused>>
      /\ processed <= Len(srcq) /\ (source # "playing" => processed = 0)
  BY DEF Unqueue, RInv, RingTypes, Played
<1>2. /\ source = "stopped" => Len(srcq) > 0 /\ processed' = processed
      /\ source # "stopped" => processed > 0 /\ processed' = processed - 1
  BY DEF Unqueue, BuffersProcessed
<1>3. srcq # <<>> /\ Head(srcq) = srcq[1] /\ srcq[1] \in Slots
  BY <1>1, <1>2
<1>4. /\ srcq' \in Seq(Slots) /\ Len(srcq') = Len(srcq) - 1
      /\ \A k \in 1 .. Len(srcq) - 1 : srcq'[k] = srcq[k + 1]
  BY <1>1, <1>3, TailIsShifted
<1>5. buffers' \in [Slots -> Slots]
  BY <1>1, <1>3
<1>6. RingTypes'
  BY <1>1, <1>2, <1>4, <1>5 DEF RInv, RingTypes
<1>7. Ring'
  <2> SUFFICES ASSUME refused = "none" PROVE Ring'
    BY <1>1 DEF Ring
  <2>1. /\ Len(srcq) = 3 /\ srcq[1] = frame /\ srcq[2] = (frame + 1) % 3
        /\ srcq[3] = (frame + 2) % 3 /\ \A i \in Slots : buffers[i] = i
    BY <1>1 DEF RInv, Ring
  <2>2. \A i \in Slots : buffers'[i] = i
    BY <1>1, <1>3, <2>1
  <2>3. Len(srcq') = 2 /\ srcq'[1] = srcq[2] /\ srcq'[2] = srcq[3]
    <3>1. 1 \in 1 .. Len(srcq) - 1 /\ 2 \in 1 .. Len(srcq) - 1
      BY <2>1
    <3>2. srcq'[1] = srcq[1 + 1] /\ srcq'[2] = srcq[2 + 1]
      BY <1>4, <3>1
    <3> QED
      BY <1>4, <2>1, <3>2
  <2> QED
    BY <1>1, <2>1, <2>2, <2>3 DEF Ring
<1>8. Played'
  BY <1>1, <1>2, <1>4 DEF RInv, RingTypes, Played
<1> QED
  BY <1>6, <1>7, <1>8 DEF RInv

(* Refilling puts it at the queue's end.                                   *)
LEMMA RefillStep == ASSUME TypeOK, RInv, Refill PROVE RInv'
<1>1. /\ phase = "running" /\ phase' = "polling" /\ frame \in Slots /\ frame \in 0 .. 2
      /\ frame' = (frame + 1) % 3 /\ afd \in Seq(Packets) /\ buffers[frame] \in Slots
      /\ Fill(buffers[frame], afd) /\ Len(srcq) \in Nat
      /\ UNCHANGED <<kind, slot, buffers, source, processed, stale>>
  BY DEF Refill, RInv, RingTypes, TypeOK, Slots
<1>2. /\ bufs' \in [Slots -> Seq(Packets)] /\ srcq' \in Seq(Slots) /\ Len(srcq') >= Len(srcq)
      /\ refused' \in {"none", "detach", "format"}
      /\ refused' = "none" => refused = "none" /\ srcq' = Append(srcq, buffers[frame])
  <2>1. refused = "none" => ~Queued(buffers[frame])
    BY <1>1, NotQueued
  <2> QED
    BY <1>1, <2>1, FillBuffer
<1>3. frame' \in Slots
  BY <1>1 DEF Slots
<1>4. RingTypes'
  BY <1>1, <1>2, <1>3 DEF RInv, RingTypes
<1>5. Ring'
  <2> SUFFICES ASSUME refused' = "none" PROVE Ring'
    BY DEF Ring
  <2>1. /\ Len(srcq) = 2 /\ srcq[1] = (frame + 1) % 3 /\ srcq[2] = (frame + 2) % 3
        /\ buffers[frame] = frame /\ \A i \in Slots : buffers[i] = i
    BY <1>1, <1>2 DEF RInv, Ring
  <2>2. Len(srcq') = 3 /\ srcq'[1] = srcq[1] /\ srcq'[2] = srcq[2] /\ srcq'[3] = frame
    <3>1. srcq \in Seq(Slots) /\ srcq' = Append(srcq, frame)
      BY <1>2, <2>1 DEF RInv, RingTypes
    <3>2. /\ Len(Append(srcq, frame)) = Len(srcq) + 1
          /\ Append(srcq, frame)[Len(srcq) + 1] = frame
          /\ \A k \in 1 .. Len(srcq) : Append(srcq, frame)[k] = srcq[k]
      BY <1>1, <3>1, AppendIsLast
    <3> QED
      BY <2>1, <3>1, <3>2
  <2>3. srcq'[1] = frame' /\ srcq'[2] = (frame' + 1) % 3 /\ srcq'[3] = (frame' + 2) % 3
    <3>1. CASE frame = 0
      BY <1>1, <2>1, <2>2, <3>1
    <3>2. CASE frame = 1
      BY <1>1, <2>1, <2>2, <3>2
    <3>3. CASE frame = 2
      BY <1>1, <2>1, <2>2, <3>3
    <3>4. frame = 0 \/ frame = 1 \/ frame = 2
      BY <1>1
    <3> QED
      BY <3>1, <3>2, <3>3, <3>4
  <2> QED
    BY <1>1, <2>1, <2>2, <2>3 DEF Ring
<1>6. Played'
  BY <1>1, <1>2 DEF RInv, RingTypes, Played
<1> QED
  BY <1>4, <1>5, <1>6 DEF RInv

(* A source that does not play is detached; otherwise nothing happens.     *)
LEMMA DetachStep == ASSUME RInv, Detach PROVE RInv'
<1>1. /\ phase = "resetting" /\ phase' = "detached"
      /\ UNCHANGED <<kind, slot, frame, buffers, bufs, source, processed, stale>>
      /\ \/ srcq' = srcq /\ refused' # "none" /\ refused' \in {"detach", refused}
         \/ source # "playing" /\ srcq' = <<>> /\ refused' = refused
  BY DEF Detach
<1>2. <<>> \in Seq(Slots) /\ Len(<<>>) = 0
  OBVIOUS
<1>3. RingTypes'
  BY <1>1, <1>2 DEF RInv, RingTypes
<1>4. Ring'
  BY <1>1, <1>2 DEF RInv, Ring
<1>5. Played'
  BY <1>1, <1>2 DEF RInv, Played
<1> QED
  BY <1>3, <1>4, <1>5 DEF RInv

(* The driver starts again at buffer 0.                                    *)
LEMMA RestartStep == ASSUME RInv, Restart PROVE RInv'
<1>1. /\ phase = "detached" /\ phase' = "prebuffer" /\ slot' = 1 /\ frame' = 0
      /\ source' = "stopped" /\ processed' = 0 /\ stale' = <<>> /\ UNCHANGED <<kind, buffers>>
      /\ Fill(buffers[0], stale) /\ stale \in Seq(Packets) /\ buffers[0] \in Slots
      /\ Len(srcq) \in Nat
  BY DEF Restart, FrameAfterReset, RInv, RingTypes, Slots
<1>2. /\ bufs' \in [Slots -> Seq(Packets)] /\ srcq' \in Seq(Slots) /\ Len(srcq') >= Len(srcq)
      /\ refused' \in {"none", "detach", "format"}
      /\ refused' = "none" => refused = "none" /\ srcq' = Append(srcq, buffers[0])
  <2>1. refused = "none" => ~Queued(buffers[0])
    BY <1>1, NotQueued
  <2> QED
    BY <1>1, <2>1, FillBuffer
<1>3. RingTypes' /\ Played'
  BY <1>1, <1>2 DEF RInv, RingTypes, Played, Slots
<1>4. Ring'
  <2> SUFFICES ASSUME refused' = "none" PROVE Ring'
    BY DEF Ring
  <2>1. Len(srcq) = 0 /\ buffers[0] = 0 /\ \A i \in Slots : buffers[i] = i
    BY <1>1, <1>2 DEF RInv, Ring, Slots
  <2>2. srcq \in Seq(Slots) /\ srcq' = Append(srcq, 0) /\ 0 \in Slots
    BY <1>2, <2>1 DEF RInv, RingTypes, Slots
  <2>3. Len(srcq') = 1 /\ srcq'[1] = 0
    BY <2>1, <2>2
  <2> QED
    BY <1>1, <2>1, <2>3 DEF Ring
<1> QED
  BY <1>3, <1>4 DEF RInv

(* The device only counts the buffers it has played.                       *)
LEMMA HearStep == ASSUME RInv, Hear PROVE RInv'
<1>1. /\ UNCHANGED <<kind, phase, frame, stale, queueVars>> /\ source = "playing"
      /\ processed \in Nat /\ processed < Len(srcq) /\ Len(srcq) \in Nat
      /\ \/ source' = "stopped" /\ processed' = 0
         \/ source' = source /\ processed' = processed + 1
  BY DEF Hear, RInv, RingTypes
<1> QED
  BY <1>1 DEF RInv, RingTypes, Ring, Played, queueVars

(* Every step keeps the invariant.                                         *)
LEMMA StepRInv == TypeOK /\ TypeOK' /\ RInv /\ [DNext]_allVars => RInv'
<1> SUFFICES ASSUME TypeOK, TypeOK', RInv, [DNext]_allVars PROVE RInv'
  OBVIOUS
<1>1. ASSUME NEW n \in Frames \union {0}, NEW rate \in Rates, Deliver(n, rate) PROVE RInv'
  <2>1. stale' \in Seq(Packets)
    <3>1. CASE UNCHANGED <<stale, reused>>
      BY <3>1 DEF RInv, RingTypes
    <3>2. CASE stale' = <<q'[Len(q')]>>
      <4>1. q' \in Seq(Packets) /\ q' # <<>>
        BY <1>1 DEF Deliver, MusicDelivery, Insert, TypeOK
      <4>2. q'[Len(q')] \in Packets
        BY <4>1
      <4> QED
        BY <3>2, <4>2
    <3> QED
      BY <1>1, <3>1, <3>2 DEF Deliver
  <2> QED
    BY <1>1, <2>1, RingKept DEF Deliver
<1>2. ASSUME UNCHANGED <<kind, alVars>> PROVE RInv'
  BY <1>2, RingKept DEF alVars, RInv, RingTypes
<1>3. CASE FormatChanged
  BY <1>3 DEF FormatChanged, RInv, RingTypes, Ring, Played, TypeOK, queueVars
<1>4. CASE UNCHANGED allVars
  BY <1>4, RingKept DEF allVars, driverVars, alVars, RInv, RingTypes
<1>5. CASE QueueBuffer
  BY <1>5, QueueBufferStep
<1>6. CASE Unqueue
  BY <1>6, UnqueueStep
<1>7. CASE Refill
  BY <1>7, RefillStep
<1>8. CASE Detach \/ Restart
  BY <1>8, DetachStep, RestartStep
<1>9. CASE Hear
  BY <1>9, HearStep
<1>10. CASE DriverStep
  <2>1. CASE (GetWait \/ Get) /\ UNCHANGED driverVars
    BY <1>2, <2>1 DEF driverVars
  <2>2. CASE AlsaPlay
    BY <1>2, <2>2 DEF AlsaPlay
  <2>3. CASE OsxPlay
    BY <1>2, <2>3 DEF OsxPlay
  <2>4. CASE DummyPlay
    BY <1>2, <2>4 DEF DummyPlay, driverVars
  <2> QED
    BY <1>3, <1>5, <1>6, <1>7, <1>8, <1>10, <2>1, <2>2, <2>3, <2>4 DEF DriverStep
<1>11. CASE FifoStep
  BY <1>2, <1>11 DEF FifoStep, driverVars
<1>12. DNext \/ UNCHANGED allVars
  OBVIOUS
<1>13. CASE \E n \in Frames \union {0}, rate \in Rates : Deliver(n, rate)
  BY <1>1, <1>13, Zenon
<1> QED
  BY <1>4, <1>9, <1>10, <1>11, <1>12, <1>13, Zenon DEF DNext

(* The first call that OpenAL refuses never gives a queued buffer new      *)
(* data.  Until it has refused one, its queue is a run of consecutive      *)
(* buffers before the next one to be filled, the driver is given back the  *)
(* buffer that it names, and a reset begins with an empty queue.           *)
THEOREM RingAlwaysSound == DSpec => []RingSound
<1>1. RInv => RingSound
  <2> SUFFICES ASSUME RInv, kind = "openal" PROVE RingSound
    BY DEF RingSound
  <2>1. processed <= Len(srcq) /\ refused # "data"
    BY DEF RInv, RingTypes, Played
  <2>2. ASSUME refused = "none"
        PROVE  /\ \A i \in Slots : buffers[i] = i
               /\ phase = "detached" => srcq = <<>>
    BY <2>2 DEF RInv, RingTypes, Ring
  <2>3. ASSUME refused = "none", phase = "polling"
        PROVE  Len(srcq) = 3 /\ \A k \in 1 .. 3 : srcq[k] = (frame + k - (3 - 2)) % 3
    <3>1. Len(srcq) = 3 /\ srcq[1] = frame /\ srcq[2] = (frame + 1) % 3 /\ srcq[3] = (frame + 2) % 3
          /\ frame \in 0 .. 2
      BY <2>3 DEF RInv, Ring, RingTypes, Slots
    <3>2. frame = (frame + 1 - (3 - 2)) % 3
      BY <3>1
    <3>3. (frame + 1) % 3 = (frame + 2 - (3 - 2)) % 3 /\ (frame + 2) % 3 = (frame + 3 - (3 - 2)) % 3
      BY <3>1
    <3> QED
      BY <3>1, <3>2, <3>3
  <2>4. ASSUME refused = "none", phase \in {"running", "resetting"}
        PROVE  Len(srcq) = 2 /\ \A k \in 1 .. 2 : srcq[k] = (frame + k - (2 - 2)) % 3
    <3>1. Len(srcq) = 2 /\ srcq[1] = (frame + 1) % 3 /\ srcq[2] = (frame + 2) % 3 /\ frame \in 0 .. 2
      BY <2>4 DEF RInv, Ring, RingTypes, Slots
    <3> QED
      BY <3>1
  <2>5. ASSUME refused = "none", phase \in {"polling", "running", "resetting"}
        PROVE  /\ Len(srcq) = IF phase = "polling" THEN 3 ELSE 2
               /\ \A k \in 1 .. Len(srcq) : srcq[k] = (frame + k - (Len(srcq) - 2)) % 3
    <3>1. CASE phase = "polling"
      BY <2>3, <2>5, <3>1
    <3>2. CASE phase \in {"running", "resetting"}
      BY <2>4, <2>5, <3>2
    <3> QED
      BY <2>5, <3>1, <3>2
  <2> QED
    BY <2>1, <2>2, <2>5 DEF RingSound
<1> QED
  BY <1>1, InitRInv, StepRInv, ImplementsFifo, TypeCorrect, PTL DEF DSpec

-----------------------------------------------------------------------------
(* What has been heard and what is on its way to the device, in the order  *)
(* of the stream.  A packet that audio_get has returned is in hand until   *)
(* it is played or copied to a buffer.                                     *)
End(p) == p.pos + p.nsamples

HeardEnd == IF heard = <<>> THEN 0 ELSE End(heard[1].packet)

InHand == cpc = "playing" /\ phase # "polling"

(* Where everything that was taken before the packet in hand has ended.    *)
Limit == IF InHand THEN afd[1].pos ELSE played

Buf(k) == bufs[srcq[k]][1]

(* The k-th queued buffer will be played.                                  *)
ToHear(k) == (source # "stopped" \/ phase = "prebuffer") /\ processed < k

(* No packet that the next step uses is missing.                           *)
Filled ==
    /\ cpc = "playing" => Len(afd) = 1
    /\ phase \in {"polling", "resetting", "detached"} => cpc = "playing"
    /\ phase \in {"resetting", "detached"} => Len(stale) = 1
    /\ \A k \in 1 .. Len(srcq) : Len(bufs[srcq[k]]) = 1
    /\ heard = <<>> \/ (heard[1].packet \in Packets)

InOrder ==
    ~reused /\ refused = "none" =>
        /\ HeardEnd <= Limit
        /\ InHand => End(afd[1]) = played
        /\ phase \in {"resetting", "detached"} => stale = afd
        /\ \A k \in 1 .. Len(srcq) : ToHear(k) =>
               HeardEnd <= Buf(k).pos /\ End(Buf(k)) <= Limit
        /\ \A i, j \in 1 .. Len(srcq) : ToHear(i) /\ i < j => End(Buf(i)) <= Buf(j).pos

HInv == Filled /\ InOrder

(* The fields of a packet, and where it ends, are numbers.                 *)
LEMMA PacketFields ==
    ASSUME NEW p \in Packets
    PROVE  p.pos \in Nat /\ p.nsamples \in Nat /\ End(p) \in Nat /\ p.pos <= End(p)
<1>1. \A f \in Frames : f \in Nat
  BY AudioFifoAssumption
<1>2. p.pos \in Nat /\ p.nsamples \in Nat
  BY <1>1 DEF Packets
<1> QED
  BY <1>2 DEF End

LEMMA OneElement ==
    ASSUME NEW S, NEW s \in Seq(S), Len(s) = 1
    PROVE  s[1] \in S
  OBVIOUS

(* So they are for the packet in hand and those in the buffers.            *)
LEMMA DriverPackets ==
    ASSUME TypeOK, RInv, Filled
    PROVE  /\ cpc = "playing" => afd[1] \in Packets
           /\ phase \in {"resetting", "detached"} => stale[1] \in Packets
           /\ \A k \in 1 .. Len(srcq) : srcq[k] \in Slots /\ Buf(k) \in Packets
           /\ HeardEnd \in Nat /\ Len(srcq) \in Nat /\ processed \in Nat /\ played \in Nat
<1>1. cpc = "playing" => afd[1] \in Packets
  <2>1. afd \in Seq(Packets) /\ (cpc = "playing" => Len(afd) = 1)
    BY DEF TypeOK, Filled
  <2> QED
    BY <2>1, OneElement
<1>2. phase \in {"resetting", "detached"} => stale[1] \in Packets
  <2>1. stale \in Seq(Packets) /\ (phase \in {"resetting", "detached"} => Len(stale) = 1)
    BY DEF RInv, RingTypes, Filled
  <2> QED
    BY <2>1, OneElement
<1>3. ASSUME NEW k \in 1 .. Len(srcq) PROVE srcq[k] \in Slots /\ Buf(k) \in Packets
  <2>1. srcq[k] \in Slots
    BY DEF RInv, RingTypes
  <2>2. bufs[srcq[k]] \in Seq(Packets) /\ Len(bufs[srcq[k]]) = 1
    BY <2>1 DEF RInv, RingTypes, Filled
  <2> QED
    BY <2>1, <2>2 DEF Buf
<1>4. HeardEnd \in Nat
  BY PacketFields DEF HeardEnd, Filled
<1> QED
  BY <1>1, <1>2, <1>3, <1>4 DEF RInv, RingTypes, TypeOK

(* Nothing has been heard at first.                                        *)
LEMMA InitHInv == DInit => HInv
  BY DEF DInit, Init, HInv, Filled, InOrder, HeardEnd, InHand, Limit

(* Steps that leave the driver's packets as they are.                      *)
LEMMA PacketsKept ==
    ASSUME HInv,
           UNCHANGED <<afd, played, phase, bufs, srcq, source, processed, heard, refused>>,
           cpc' = "playing" <=> cpc = "playing",
           \/ UNCHANGED <<stale, reused>>
           \/ reused' /\ Len(stale') = 1
    PROVE  HInv'
<1>1. Filled'
  BY DEF HInv, Filled
<1>2. InOrder'
  BY DEF HInv, InOrder, HeardEnd, InHand, Limit, ToHear, Buf
<1> QED
  BY <1>1, <1>2 DEF HInv

(* audio_get takes what lies behind all that was taken before.             *)
LEMMA GetHeard == ASSUME IInv, RInv, HInv, Get, UNCHANGED driverVars PROVE HInv'
<1>1. q # <<>> /\ q \in Seq(Packets) /\ q[1] \in Packets /\ played <= q[1].pos
  <2>1. q # <<>> /\ q \in Seq(Packets) /\ played \in Nat /\ flushed \in Nat
    BY DEF Get, IInv, TypeOK
  <2>2. q[1] \in Packets
    BY <2>1
  <2>3. q[1].pos \in Nat
    BY <2>2, PacketFields
  <2> QED
    BY <2>1, <2>2, <2>3 DEF IInv, Gapless
<1>2. /\ afd' = <<q[1]>> /\ played' = End(q[1]) /\ cpc = "getting" /\ cpc' = "playing"
      /\ UNCHANGED <<phase, bufs, srcq, source, processed, heard, stale, reused, refused>>
  BY DEF Get, driverVars, alVars, queueVars, End
<1>3. phase \notin {"polling", "resetting", "detached"} /\ ~InHand /\ InHand' /\ Limit' = q[1].pos
      /\ Limit = played
  BY <1>2 DEF HInv, Filled, InHand, Limit
<1>4. Filled'
  BY <1>2 DEF HInv, Filled
<1>5. /\ HeardEnd \in Nat /\ played \in Nat /\ q[1].pos \in Nat
      /\ \A k \in 1 .. Len(srcq) : End(Buf(k)) \in Nat
  BY <1>1, DriverPackets, PacketFields DEF IInv, HInv
<1>6. HeardEnd' = HeardEnd /\ \A k \in 1 .. Len(srcq) : Buf(k)' = Buf(k) /\ ToHear(k)' = ToHear(k)
  BY <1>2 DEF HeardEnd, Buf, ToHear
<1>7. InOrder'
  <2> SUFFICES ASSUME ~reused', refused' = "none" PROVE InOrder'
    BY DEF InOrder
  <2>1. /\ HeardEnd <= played
        /\ \A k \in 1 .. Len(srcq) : ToHear(k) => HeardEnd <= Buf(k).pos /\ End(Buf(k)) <= played
        /\ \A i, j \in 1 .. Len(srcq) : ToHear(i) /\ i < j => End(Buf(i)) <= Buf(j).pos
    BY <1>2, <1>3 DEF HInv, InOrder
  <2>2. HeardEnd' <= Limit' /\ End(afd'[1]) = played'
    BY <1>1, <1>2, <1>3, <1>5, <1>6, <2>1
  <2>3. \A k \in 1 .. Len(srcq) : ToHear(k) => HeardEnd <= Buf(k).pos /\ End(Buf(k)) <= Limit'
    BY <1>1, <1>3, <1>5, <2>1
  <2> QED
    BY <1>2, <1>3, <1>6, <2>1, <2>2, <2>3 DEF InOrder, End
<1> QED
  BY <1>4, <1>7 DEF HInv

(* The packet in hand becomes the last buffer of the source's queue, which *)
(* is the steps that fill a buffer have in common.                         *)
LEMMA BufferFilled ==
    ASSUME TypeOK, RInv, HInv, NEW b \in Slots, cpc = "playing", phase # "polling",
           refused = "none", ~Queued(b),
           bufs' = [bufs EXCEPT ![b] = afd], srcq' = Append(srcq, b),
           \A k \in Nat : ToHear(k)' <=> ToHear(k),
           ~(cpc' = "playing" /\ phase' # "polling"),
           phase' \notin {"resetting", "detached"}, UNCHANGED <<played, heard, reused>>
    PROVE  InOrder'
<1>0. PICK n \in Nat : n = Len(srcq)
  BY DEF RInv, RingTypes
<1>1. /\ n \in Nat /\ n = Len(srcq) /\ Len(srcq') = n + 1 /\ srcq'[n + 1] = b
      /\ \A k \in 1 .. n : srcq'[k] = srcq[k] /\ srcq[k] \in Slots /\ srcq[k] # b
  <2>1. srcq \in Seq(Slots)
    BY DEF RInv, RingTypes
  <2> QED
    BY <1>0, <2>1, AppendIsLast DEF Queued
<1>2. bufs'[b] = afd /\ \A c \in Slots : c # b => bufs'[c] = bufs[c]
  BY DEF RInv, RingTypes
<1>3. Buf(n + 1)' = afd[1] /\ \A k \in 1 .. n : Buf(k)' = Buf(k)
  BY <1>1, <1>2 DEF Buf
<1>5. InHand /\ Limit = afd[1].pos /\ ~InHand' /\ Limit' = played /\ HeardEnd' = HeardEnd
  BY DEF InHand, Limit, HeardEnd
<1>6. /\ HeardEnd \in Nat /\ played \in Nat /\ processed \in Nat
      /\ afd[1].pos \in Nat /\ End(afd[1]) \in Nat /\ afd[1].pos <= End(afd[1])
      /\ \A k \in 1 .. n : End(Buf(k)) \in Nat /\ Buf(k).pos \in Nat
  BY <1>1, DriverPackets, PacketFields DEF HInv
<1>7. \A k \in 1 .. n + 1 : ToHear(k)' <=> ToHear(k)
  OBVIOUS
<1>8. InOrder'
  <2> SUFFICES ASSUME ~reused', refused' = "none" PROVE InOrder'
    BY DEF InOrder
  <2>1. /\ HeardEnd <= afd[1].pos /\ End(afd[1]) = played
        /\ \A k \in 1 .. n : ToHear(k) => HeardEnd <= Buf(k).pos /\ End(Buf(k)) <= afd[1].pos
        /\ \A i, j \in 1 .. n : ToHear(i) /\ i < j => End(Buf(i)) <= Buf(j).pos
    BY <1>1, <1>5 DEF HInv, InOrder
  <2>2. ASSUME NEW k \in 1 .. n + 1, ToHear(k)
        PROVE  HeardEnd <= Buf(k)'.pos /\ End(Buf(k)') <= played
    <3>1. CASE k = n + 1
      BY <1>3, <1>6, <2>1, <3>1
    <3>2. CASE k \in 1 .. n
      <4>1. HeardEnd <= Buf(k).pos /\ End(Buf(k)) <= afd[1].pos
        BY <2>1, <2>2, <3>2
      <4>2. End(Buf(k)) <= played
        BY <1>6, <2>1, <3>2, <4>1
      <4> QED
        BY <1>3, <3>2, <4>1, <4>2
    <3> QED
      BY <1>1, <3>1, <3>2
  <2>3. ASSUME NEW i \in 1 .. n + 1, NEW j \in 1 .. n + 1, ToHear(i), i < j
        PROVE  End(Buf(i)') <= Buf(j)'.pos
    <3>1. i \in 1 .. n
      BY <1>1, <2>3
    <3>2. CASE j = n + 1
      BY <1>3, <2>1, <2>3, <3>1, <3>2
    <3>3. CASE j \in 1 .. n
      BY <1>3, <2>1, <2>3, <3>1, <3>3
    <3> QED
      BY <1>1, <3>2, <3>3
  <2>4. HeardEnd <= played
    BY <1>6, <2>1
  <2>5. \A k \in 1 .. n + 1 : End(Buf(k))' = End(Buf(k)')
    BY DEF End
  <2> QED
    BY <1>1, <1>5, <1>7, <2>2, <2>3, <2>4, <2>5 DEF InOrder
<1> QED
  BY <1>8

(* The packet is played at once, by the drivers without buffers.           *)
LEMMA PlayHeard ==
    ASSUME TypeOK, RInv, HInv, Play, kind # "openal", UNCHANGED alVars,
           \/ UNCHANGED heard
           \/ heard' # <<>> /\ heard'[1].packet = afd[1]
    PROVE  HInv' /\ (~reused /\ refused = "none" /\ heard' # heard => HeardEnd <= afd[1].pos)
<1>1. /\ phase = "loop" /\ cpc = "playing" /\ cpc' = "getting"
      /\ refused = "none" => Len(srcq) = 0
      /\ UNCHANGED <<played, alVars>>
  BY DEF Play, RInv, RingTypes, Ring
<1>2. InHand /\ ~InHand' /\ Limit = afd[1].pos /\ Limit' = played
  BY <1>1 DEF InHand, Limit
<1>3. /\ HeardEnd \in Nat /\ played \in Nat /\ afd[1] \in Packets /\ afd[1].pos \in Nat
      /\ End(afd[1]) \in Nat /\ afd[1].pos <= End(afd[1])
  BY <1>1, DriverPackets, PacketFields DEF HInv
<1>4. Filled'
  BY <1>1, <1>3 DEF HInv, Filled, alVars, queueVars
<1>5. ~reused /\ refused = "none" => HeardEnd <= afd[1].pos /\ End(afd[1]) = played
  BY <1>2 DEF HInv, InOrder
<1>6. HeardEnd' = HeardEnd \/ HeardEnd' = End(afd[1])
  BY DEF HeardEnd, End
<1>7. ~reused /\ refused = "none" => HeardEnd' <= played
  BY <1>3, <1>5, <1>6
<1>8. InOrder'
  BY <1>1, <1>2, <1>7 DEF InOrder, alVars, queueVars
<1> QED
  BY <1>4, <1>5, <1>8 DEF HInv

(* Prefilling and refilling are such steps.                                *)
LEMMA QueueBufferHeard == ASSUME TypeOK, RInv, HInv, QueueBuffer PROVE HInv'
<1>1. /\ slot \in 0 .. 2 /\ cpc = "playing" /\ phase = "prebuffer"
      /\ buffers[slot] \in Slots /\ afd \in Seq(Packets) /\ Len(afd) = 1
      /\ Fill(buffers[slot], afd)
      /\ refused = "none" => ~Queued(buffers[slot])
      /\ UNCHANGED <<processed, heard, reused>>
  BY NotQueued DEF QueueBuffer, RInv, RingTypes, Slots, TypeOK, HInv, Filled
<1>2. \/ Play /\ UNCHANGED <<phase, source>>
      \/ phase' = "polling" /\ source' = "playing" /\ UNCHANGED vars
  BY DEF QueueBuffer
<1>3. /\ ~(cpc' = "playing" /\ phase' # "polling") /\ phase' \notin {"resetting", "detached"}
      /\ phase' = "polling" => cpc' = "playing"
      /\ cpc' = "playing" => afd' = afd
      /\ UNCHANGED played
      /\ \A k \in Nat : ToHear(k)' <=> ToHear(k)
  BY <1>1, <1>2 DEF Play, vars, ToHear
<1>4. Filled'
  BY <1>1, <1>3, FillBuffer DEF HInv, Filled
<1>5. ASSUME refused' = "none" PROVE InOrder'
  <2>1. /\ refused = "none" /\ ~Queued(buffers[slot])
        /\ bufs' = [bufs EXCEPT ![buffers[slot]] = afd] /\ srcq' = Append(srcq, buffers[slot])
    BY <1>1, <1>5, FillBuffer
  <2> QED
    BY <1>1, <1>3, <2>1, BufferFilled
<1> QED
  BY <1>4, <1>5 DEF HInv, InOrder

LEMMA RefillHeard == ASSUME TypeOK, RInv, HInv, Refill PROVE HInv'
<1>1. /\ buffers[frame] \in Slots /\ afd \in Seq(Packets) /\ Len(afd) = 1
      /\ cpc = "playing" /\ phase = "running" /\ phase' = "polling"
      /\ Fill(buffers[frame], afd)
      /\ refused = "none" => ~Queued(buffers[frame])
      /\ UNCHANGED <<cpc, afd, played, source, processed, heard, reused>>
  BY NotQueued DEF Refill, RInv, RingTypes, Slots, TypeOK, HInv, Filled, vars
<1>2. \A k \in Nat : ToHear(k)' <=> ToHear(k)
  BY <1>1 DEF ToHear
<1>3. Filled'
  BY <1>1, FillBuffer DEF HInv, Filled
<1>4. ASSUME refused' = "none" PROVE InOrder'
  <2>1. /\ refused = "none" /\ ~Queued(buffers[frame])
        /\ bufs' = [bufs EXCEPT ![buffers[frame]] = afd] /\ srcq' = Append(srcq, buffers[frame])
    BY <1>1, <1>4, FillBuffer
  <2> QED
    BY <1>1, <1>2, <2>1, BufferFilled
<1> QED
  BY <1>3, <1>4 DEF HInv, InOrder

(* Unqueuing moves the buffers that will be played one place forward.      *)
LEMMA UnqueueHeard == ASSUME TypeOK, RInv, HInv, Unqueue PROVE HInv'
<1>1. /\ phase = "polling" /\ phase' = "running" /\ cpc = "playing" /\ cpc' = "getting"
      /\ srcq' = Tail(srcq) /\ srcq \in Seq(Slots) /\ Len(srcq) \in Nat
      /\ UNCHANGED <<bufs, source, heard, reused, played, refused>>
      /\ processed \in Nat /\ processed <= Len(srcq)
      /\ source # "stopped" => processed' = processed - 1 /\ processed > 0
      /\ source = "stopped" => Len(srcq) > 0
  BY DEF Unqueue, BuffersProcessed, Play, RInv, RingTypes, Played
<1>2. Len(srcq') = Len(srcq) - 1 /\ \A k \in 1 .. Len(srcq) - 1 : srcq'[k] = srcq[k + 1]
  <2>1. srcq # <<>>
    BY <1>1
  <2> QED
    BY <1>1, <2>1, TailIsShifted
<1>3. ~InHand /\ ~InHand' /\ Limit' = Limit /\ HeardEnd' = HeardEnd
  BY <1>1 DEF InHand, Limit, HeardEnd
<1>4. \A k \in 1 .. Len(srcq') :
          k + 1 \in 1 .. Len(srcq) /\ Buf(k)' = Buf(k + 1) /\ (ToHear(k)' => ToHear(k + 1))
  BY <1>1, <1>2 DEF Buf, ToHear
<1>5. Filled'
  <2>1. \A k \in 1 .. Len(srcq') : k + 1 \in 1 .. Len(srcq) /\ srcq'[k] = srcq[k + 1]
    BY <1>1, <1>2
  <2> QED
    BY <1>1, <2>1 DEF HInv, Filled
<1>6. InOrder'
  <2> SUFFICES ASSUME ~reused', refused' = "none" PROVE InOrder'
    BY DEF InOrder
  <2>1. /\ HeardEnd <= Limit
        /\ \A k \in 1 .. Len(srcq) : ToHear(k) => HeardEnd <= Buf(k).pos /\ End(Buf(k)) <= Limit
        /\ \A i, j \in 1 .. Len(srcq) : ToHear(i) /\ i < j => End(Buf(i)) <= Buf(j).pos
    BY <1>1 DEF HInv, InOrder
  <2>2. ASSUME NEW k \in 1 .. Len(srcq'), ToHear(k)'
        PROVE  HeardEnd' <= Buf(k)'.pos /\ End(Buf(k))' <= Limit'
    BY <1>3, <1>4, <2>1, <2>2 DEF End
  <2>3. ASSUME NEW i \in 1 .. Len(srcq'), NEW j \in 1 .. Len(srcq'), ToHear(i)', i < j
        PROVE  End(Buf(i))' <= Buf(j)'.pos
    <3>1. i + 1 \in 1 .. Len(srcq) /\ j + 1 \in 1 .. Len(srcq) /\ i + 1 < j + 1
      BY <1>4, <2>3
    <3> QED
      BY <1>4, <2>1, <2>3, <3>1 DEF End
  <2> QED
    BY <1>1, <1>3, <2>1, <2>2, <2>3 DEF InOrder
<1> QED
  BY <1>5, <1>6 DEF HInv

(* Detaching drops the buffers, unless OpenAL refuses it.                  *)
LEMMA DetachHeard == ASSUME TypeOK, RInv, HInv, Detach PROVE HInv'
<1>1. /\ phase = "resetting" /\ phase' = "detached" /\ cpc = "playing"
      /\ UNCHANGED <<cpc, afd, played, bufs, source, processed, stale, heard, reused>>
      /\ \/ srcq' = srcq /\ refused' # "none"
         \/ srcq' = <<>> /\ refused' = refused
  BY DEF Detach, vars, HInv, Filled
<1>2. Filled'
  BY <1>1 DEF HInv, Filled
<1>3. ASSUME refused' = "none" PROVE InOrder'
  <2>1. refused = "none" /\ Len(srcq') = 0
    BY <1>1, <1>3
  <2>2. UNCHANGED <<InHand, Limit, HeardEnd>>
    BY <1>1 DEF InHand, Limit, HeardEnd
  <2> QED
    BY <1>1, <2>1, <2>2 DEF HInv, InOrder, End
<1> QED
  BY <1>2, <1>3 DEF HInv, InOrder

(* The driver starts again with the packet that caused the reset.          *)
LEMMA RestartHeard == ASSUME TypeOK, RInv, HInv, Restart PROVE HInv'
<1>1. /\ phase = "detached" /\ phase' = "prebuffer" /\ cpc = "playing" /\ cpc' = "getting"
      /\ Fill(buffers[0], stale) /\ buffers[0] \in Slots
      /\ stale \in Seq(Packets) /\ Len(stale) = 1
      /\ refused = "none" => ~Queued(buffers[0]) /\ Len(srcq) = 0
      /\ UNCHANGED <<heard, reused, played>>
  BY NotQueued DEF Restart, Play, RInv, RingTypes, Ring, Slots, HInv, Filled
<1>2. Filled'
  BY <1>1, FillBuffer DEF HInv, Filled
<1>3. InHand /\ ~InHand' /\ Limit = afd[1].pos /\ Limit' = played /\ HeardEnd' = HeardEnd
  BY <1>1 DEF InHand, Limit, HeardEnd
<1>4. /\ HeardEnd \in Nat /\ played \in Nat /\ afd[1].pos \in Nat /\ End(afd[1]) \in Nat
      /\ afd[1].pos <= End(afd[1])
  BY <1>1, DriverPackets, PacketFields DEF HInv
<1>5. ASSUME ~reused', refused' = "none" PROVE InOrder'
  <2>1. refused = "none" /\ bufs' = [bufs EXCEPT ![buffers[0]] = stale]
        /\ srcq' = Append(srcq, buffers[0])
    BY <1>1, <1>5, FillBuffer
  <2>2. Len(srcq') = 1 /\ srcq'[1] = buffers[0] /\ bufs'[buffers[0]] = stale
    <3>1. srcq \in Seq(Slots) /\ bufs \in [Slots -> Seq(Packets)] /\ Len(srcq) = 0
      BY <1>1, <2>1 DEF RInv, RingTypes
    <3> QED
      BY <1>1, <2>1, <3>1
  <2>3. HeardEnd <= afd[1].pos /\ End(afd[1]) = played /\ stale[1] = afd[1]
    BY <1>1, <1>3, <1>5, <2>1 DEF HInv, InOrder
  <2>4. HeardEnd <= played
    BY <1>4, <2>3
  <2>5. \A k \in 1 .. 1 : k = 1 /\ Buf(k)' = stale[1]
    BY <2>2 DEF Buf
  <2>6. ASSUME NEW k \in 1 .. 1 PROVE HeardEnd' <= Buf(k)'.pos /\ End(Buf(k))' <= Limit'
    BY <1>3, <1>4, <2>3, <2>5 DEF End
  <2>7. \A i, j \in 1 .. 1 : ~(i < j)
    OBVIOUS
  <2> QED
    BY <1>1, <1>3, <2>2, <2>4, <2>6, <2>7 DEF InOrder
<1> QED
  BY <1>2, <1>5 DEF HInv, InOrder

(* The source plays the first of the buffers that are left.                *)
LEMMA HearHeard ==
    ASSUME TypeOK, RInv, HInv, Hear
    PROVE  HInv' /\ (~reused /\ refused = "none" => HeardEnd <= heard'[1].packet.pos)
<1>1. /\ source = "playing" /\ processed \in Nat /\ Len(srcq) \in Nat /\ processed < Len(srcq)
      /\ UNCHANGED <<cpc, afd, played, phase, bufs, srcq, stale, reused, refused>>
      /\ phase # "prebuffer"
      /\ \/ source' = "stopped"
         \/ source' = source /\ processed' = processed + 1
  BY DriverPackets DEF Hear, HInv, vars, queueVars, RInv, Played
<1>2. PICK n \in 1 .. Len(srcq) : n = processed + 1
  BY <1>1
<1>3. /\ heard' # <<>> /\ heard'[1].packet = Buf(n) /\ ToHear(n)
  BY <1>1, <1>2 DEF Hear, Heard, Buf, ToHear
<1>4. HeardEnd' = End(Buf(n)) /\ Buf(n) \in Packets
  BY <1>3, DriverPackets DEF HeardEnd, End, HInv
<1>5. UNCHANGED <<InHand, Limit>> /\ \A k \in 1 .. Len(srcq) : Buf(k)' = Buf(k)
  BY <1>1 DEF InHand, Limit, Buf
<1>6. \A k \in 1 .. Len(srcq) : ToHear(k)' => ToHear(k) /\ n < k
  BY <1>1, <1>2 DEF ToHear
<1>7. Filled'
  BY <1>1, <1>3, <1>4 DEF HInv, Filled
<1>8. ASSUME ~reused, refused = "none"
      PROVE  /\ HeardEnd <= Buf(n).pos /\ End(Buf(n)) <= Limit
             /\ \A k \in 1 .. Len(srcq) : ToHear(k) => End(Buf(k)) <= Limit
             /\ \A i, j \in 1 .. Len(srcq) : ToHear(i) /\ i < j => End(Buf(i)) <= Buf(j).pos
  BY <1>2, <1>3, <1>8 DEF HInv, InOrder
<1>9. InOrder'
  <2> SUFFICES ASSUME ~reused', refused' = "none" PROVE InOrder'
    BY DEF InOrder
  <2>1. ~reused /\ refused = "none"
    BY <1>1
  <2>2. HeardEnd' <= Limit'
    BY <1>4, <1>5, <1>8, <2>1
  <2>3. ASSUME NEW k \in 1 .. Len(srcq), ToHear(k)'
        PROVE  HeardEnd' <= Buf(k)'.pos /\ End(Buf(k))' <= Limit'
    BY <1>2, <1>3, <1>4, <1>5, <1>6, <1>8, <2>1, <2>3 DEF End
  <2>4. ASSUME NEW i \in 1 .. Len(srcq), NEW j \in 1 .. Len(srcq), ToHear(i)', i < j
        PROVE  End(Buf(i))' <= Buf(j)'.pos
    BY <1>5, <1>6, <1>8, <2>1, <2>4 DEF End
  <2>5. /\ InHand' => End(afd[1]') = played'
        /\ phase' \in {"resetting", "detached"} => stale' = afd'
    BY <1>1, <1>5, <2>1 DEF HInv, InOrder, End
  <2> QED
    BY <1>1, <2>2, <2>3, <2>4, <2>5 DEF InOrder, End
<1> QED
  BY <1>3, <1>7, <1>8, <1>9 DEF HInv

(* What a step may do to heard.                                            *)
Forward ==
    heard' # heard =>
        /\ kind # "osx" => heard'[1].at = heard'[1].packet.rate
        /\ heard # <<>> /\ ~reused /\ refused = "none" =>
              heard'[1].packet.pos >= heard[1].packet.pos + heard[1].packet.nsamples

(* For the drivers without buffers.                                        *)
LEMMA PlayForward ==
    ASSUME TypeOK, RInv, HInv, AlsaPlay \/ OsxPlay \/ DummyPlay
    PROVE  HInv' /\ Forward
<1>1. Play /\ kind # "openal" /\ UNCHANGED alVars /\ cpc = "playing"
  BY DEF AlsaPlay, OsxPlay, DummyPlay, driverVars, Play
<1>2. \/ UNCHANGED heard
      \/ /\ heard' # <<>> /\ heard'[1].packet = afd[1]
         /\ kind # "osx" => heard'[1].at = afd[1].rate
  BY DEF AlsaPlay, OsxPlay, DummyPlay, driverVars, Heard, OpenAt
<1>3. HInv' /\ (~reused /\ refused = "none" /\ heard' # heard => HeardEnd <= afd[1].pos)
  BY <1>1, <1>2, PlayHeard
<1>4. HeardEnd \in Nat /\ afd[1] \in Packets /\ afd[1].pos \in Nat
  BY <1>1, DriverPackets, PacketFields DEF HInv
<1>5. Forward
  BY <1>2, <1>3, <1>4 DEF Forward, HeardEnd, End
<1> QED
  BY <1>3, <1>5

(* For OpenAL's.                                                           *)
LEMMA HearForward == ASSUME TypeOK, RInv, HInv, Hear PROVE HInv' /\ Forward
<1>1. HInv' /\ (~reused /\ refused = "none" => HeardEnd <= heard'[1].packet.pos)
  BY HearHeard
<1>2. heard'[1].at = heard'[1].packet.rate
  BY DEF Hear, Heard
<1>3. heard' # <<>> /\ heard'[1].packet \in Packets
  BY <1>1 DEF HInv, Filled, Hear, Heard
<1>4. HeardEnd \in Nat /\ heard'[1].packet.pos \in Nat
  BY <1>3, DriverPackets, PacketFields DEF HInv
<1> QED
  BY <1>1, <1>2, <1>4 DEF Forward, HeardEnd, End

(* Every step keeps the invariant, and what it lets be heard lies behind   *)
(* what was heard before.                                                  *)
LEMMA StepHInv == IInv /\ RInv /\ HInv /\ [DNext]_allVars => HInv' /\ Forward
<1> SUFFICES ASSUME IInv, RInv, HInv, [DNext]_allVars PROVE HInv' /\ Forward
  OBVIOUS
<1>0. TypeOK
  BY DEF IInv
<1>1. ASSUME UNCHANGED heard PROVE Forward
  BY <1>1 DEF Forward
<1>2. ASSUME NEW n \in Frames \union {0}, NEW rate \in Rates, Deliver(n, rate)
      PROVE  HInv' /\ Forward
  <2>1. cpc' = "playing" <=> cpc = "playing"
    BY <1>2 DEF Deliver, MusicDelivery, Signalled
  <2>2. UNCHANGED <<afd, played, phase, bufs, srcq, source, processed, heard, refused>>
    BY <1>2 DEF Deliver, MusicDelivery, queueVars
  <2>3. UNCHANGED <<stale, reused>> \/ (reused' /\ Len(stale') = 1)
    BY <1>2 DEF Deliver
  <2> QED
    BY <1>1, <2>1, <2>2, <2>3, PacketsKept
<1>3. CASE FifoStep
  <2>1. UNCHANGED driverVars /\ UNCHANGED <<afd, played>> /\ (cpc' = "playing" <=> cpc = "playing")
    BY <1>3 DEF FifoStep, SpuriousWakeup, Flush
  <2> QED
    BY <1>1, <2>1, PacketsKept DEF driverVars, alVars, queueVars
<1>4. CASE GetWait /\ UNCHANGED driverVars
  BY <1>1, <1>4, PacketsKept DEF GetWait, driverVars, alVars, queueVars
<1>5. CASE Get /\ UNCHANGED driverVars
  BY <1>1, <1>5, GetHeard DEF driverVars
<1>6. CASE AlsaPlay \/ OsxPlay \/ DummyPlay
  BY <1>0, <1>6, PlayForward
<1>7. CASE QueueBuffer
  BY <1>0, <1>1, <1>7, QueueBufferHeard DEF QueueBuffer
<1>8. CASE Unqueue
  BY <1>0, <1>1, <1>8, UnqueueHeard DEF Unqueue
<1>9. CASE Refill
  BY <1>0, <1>1, <1>9, RefillHeard DEF Refill
<1>10. CASE FormatChanged
  <2>1. /\ cpc = "playing" /\ phase = "running" /\ phase' = "resetting" /\ stale' = afd
        /\ UNCHANGED <<cpc, afd, played, bufs, srcq, source, processed, heard, reused, refused>>
    BY <1>10 DEF FormatChanged, vars, queueVars
  <2>2. UNCHANGED <<InHand, Limit, HeardEnd>>
        /\ \A k \in 1 .. Len(srcq) : Buf(k)' = Buf(k) /\ ToHear(k)' = ToHear(k)
    BY <2>1 DEF InHand, Limit, HeardEnd, Buf, ToHear
  <2>3. Filled'
    BY <2>1 DEF HInv, Filled
  <2>4. InOrder'
    BY <2>1, <2>2 DEF HInv, InOrder, End
  <2> QED
    BY <1>1, <2>1, <2>3, <2>4 DEF HInv
<1>11. CASE Detach \/ Restart
  BY <1>0, <1>1, <1>11, DetachHeard, RestartHeard DEF Detach, Restart
<1>12. CASE Hear
  BY <1>0, <1>12, HearForward
<1>13. CASE UNCHANGED allVars
  BY <1>1, <1>13, PacketsKept DEF allVars, vars, driverVars, alVars, queueVars
<1>14. CASE DriverStep
  BY <1>4, <1>5, <1>6, <1>7, <1>8, <1>9, <1>10, <1>11, <1>14, Zenon DEF DriverStep
<1>15. CASE \E n \in Frames \union {0}, rate \in Rates : Deliver(n, rate)
  BY <1>2, <1>15, Zenon
<1>16. DNext \/ UNCHANGED allVars
  OBVIOUS
<1> QED
  BY <1>3, <1>12, <1>13, <1>14, <1>15, <1>16, Zenon DEF DNext

(* What a device plays lies behind what it has played before, at the rate  *)
(* that it was recorded at: in every driver, through failed writes,        *)
(* underruns, rate changes and resets, as long as the freed packet that    *)
(* openal-audio.c reads has not been overwritten and OpenAL has refused no *)
(* call (what it refuses to detach is played again).                       *)
THEOREM HeardInOrder == DSpec => HeardForward
<1>1. IInv => TypeOK
  BY DEF IInv
<1>2. DSpec => []IInv
  BY ImplementsFifo, Invariance, PTL
<1>3. DSpec => []RInv
  BY <1>1, <1>2, InitRInv, StepRInv, PTL DEF DSpec
<1>4. DSpec => []HInv
  BY <1>2, <1>3, InitHInv, StepHInv, PTL DEF DSpec
<1>5. IInv /\ RInv /\ HInv /\ [DNext]_allVars => [heard' # heard =>
          /\ kind # "osx" => heard'[1].at = heard'[1].packet.rate
          /\ heard # <<>> /\ ~reused /\ refused = "none" =>
                heard'[1].packet.pos >= heard[1].packet.pos + heard[1].packet.nsamples]_allVars
  BY StepHInv DEF Forward
<1> QED
  BY <1>2, <1>3, <1>4, <1>5, PTL DEF DSpec, HeardForward
==============================================================================
