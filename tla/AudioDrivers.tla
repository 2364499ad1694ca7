----------------------------- MODULE AudioDrivers ----------------------------
(***************************************************************************)
(* The audio fifo with each of the drivers it can be built with:           *)
(* alsa-audio.c, openal-audio.c, osx-audio.c and dummy-audio.c.  Every     *)
(* step is one of AudioFifo's or leaves the fifo alone, so this module     *)
(* implements AudioFifo.  Failures to open a device and the assertion of   *)
(* osx-audio.c:46 (a packet larger than a buffer of the AudioQueue), which *)
(* end the process, and the number of channels, which is treated as the    *)
(* rate is, are left out.                                                  *)
(*                                                                         *)
(* OpenAL is external, and modelled as its 1.1 specification has it:       *)
(* AL_BUFFER cannot be set while the source plays, a queued buffer cannot  *)
(* be given new data, and the buffers of a queue have one format.  A call  *)
(* that breaks a rule changes nothing but OpenAL's error, which the driver *)
(* never reads (line 116 reads that of the device, alcGetError).           *)
(***************************************************************************)
EXTENDS AudioFifo

VARIABLES
    kind,      (* the driver                                               *)
    devRate,   (* ALSA: cur_rate, 0 before the first open; else unused     *)
    phase,     (* OpenAL's driver: "prebuffer", "running", "polling" the   *)
               (* source, "resetting" it, its buffers "detached"; "loop"   *)
               (* for the other drivers                                    *)
    slot,      (* the element of buffers that is prefilled next            *)
    frame,     (* frame % 3 (frame itself wraps after years of audio)      *)
    buffers,   (* the array of the three buffers' names                    *)
    bufs,      (* the packet in each buffer, as a sequence                 *)
    srcq,      (* the buffers queued on the source                         *)
    source,    (* its state: "initial", "playing", "stopped"               *)
    processed, (* how many of srcq a playing source has played             *)
    stale,     (* what the memory of the packet freed at line 105 holds    *)
    heard,     (* auxiliary: the last packet heard, at which rate, and a   *)
               (* bit that turns with every packet                         *)
    cause,     (* auxiliary: the packet that caused the reset, until the   *)
               (* source plays again                                       *)
    reused,    (* auxiliary: that packet's memory has been allocated again *)
    refused    (* auxiliary: the first call that OpenAL refused: "none",   *)
               (* to "detach" the buffers, "data" for a queued buffer, or  *)
               (* to queue a buffer of another "format"                    *)

queueVars == <<slot, buffers, bufs, srcq, refused>>
alVars == <<phase, frame, source, processed, stale, cause, reused, queueVars>>
driverVars == <<kind, devRate, heard, alVars>>
allVars == <<vars, driverVars>>

Slots == 0 .. 2

DInit ==
    /\ Init
    /\ kind \in {"alsa", "openal", "osx", "dummy"}
    /\ devRate = 0
    /\ phase = IF kind = "openal" THEN "prebuffer" ELSE "loop"
    /\ slot = 0 /\ frame = 0
    /\ buffers = [i \in Slots |-> i] /\ bufs = [b \in Slots |-> <<>>]
    /\ srcq = <<>> /\ source = "initial" /\ processed = 0
    /\ stale = <<>> /\ heard = <<>> /\ cause = <<>>
    /\ reused = FALSE /\ refused = "none"

(* music_delivery, whose malloc may get the memory of the packet that the  *)
(* OpenAL driver has freed and is about to read.                           *)
Deliver(n, rate) ==
    /\ MusicDelivery(n, rate)
    /\ \/ UNCHANGED <<stale, reused>>
       \/ /\ phase \in {"resetting", "detached"}
          /\ stale' = <<q'[Len(q')]>>
          /\ reused' = TRUE
    /\ UNCHANGED <<kind, devRate, heard, phase, frame, source, processed, cause, queueVars>>

(* A spurious wakeup in audio_get, and audio_fifo_flush.                   *)
FifoStep ==
    /\ SpuriousWakeup \/ Flush
    /\ UNCHANGED driverVars

(* What a device plays of packet p at a rate.                              *)
Heard(p, rate) ==
    <<[packet |-> p, at |-> rate, turn |-> heard = <<>> \/ ~heard[1].turn]>>

(* Mutant: the device is opened once.                                      *)
KeepRate(rate) == IF devRate = 0 THEN rate ELSE devRate

(* alsa_audio_start opens the device again when the rate has changed.      *)
OpenAt(rate) == rate

(* alsa_audio_start writes the packet; snd_pcm_writei may fail (EPIPE),    *)
(* and then the packet is lost: its result is not looked at.               *)
AlsaPlay ==
    /\ kind = "alsa"
    /\ Play
    /\ devRate' = OpenAt(afd[1].rate)
    /\ \/ heard' = Heard(afd[1], devRate')
       \/ heard' = heard
    /\ UNCHANGED <<kind, alVars>>

(* audio_callback of the AudioQueue driver: whatever its rate, the packet  *)
(* goes to a queue that plays at 44100 Hz.                                 *)
OsxPlay ==
    /\ kind = "osx"
    /\ Play
    /\ heard' = Heard(afd[1], MaxRate)
    /\ UNCHANGED <<kind, devRate, alVars>>

(* dummy-audio.c frees the packet.                                         *)
DummyPlay == kind = "dummy" /\ Play /\ UNCHANGED driverVars

-----------------------------------------------------------------------------
(* OpenAL.  The driver does not call audio_get again while it polls or     *)
(* resets the source, and AudioFifo's driver is "playing" meanwhile.       *)

Queued(b) == \E k \in 1 .. Len(srcq) : srcq[k] = b

(* alBufferData: packet p into buffer b.                                   *)
Written(b, p) == IF Queued(b) THEN bufs ELSE [bufs EXCEPT ![b] = p]

OtherFormat(b, data) == \E k \in 1 .. Len(srcq) : data[srcq[k]][1].rate # data[b][1].rate

(* alBufferData and alSourceQueueBuffers.                                  *)
Fill(b, p) ==
    LET other == OtherFormat(b, Written(b, p)) IN
    /\ bufs' = Written(b, p)
    /\ srcq' = IF other THEN srcq ELSE Append(srcq, b)
    /\ refused' = IF refused # "none" THEN refused
                  ELSE IF Queued(b) THEN "data"
                  ELSE IF other THEN "format" ELSE "none"

(* queue_buffer: the buffers are prefilled in their order, and             *)
(* alSourcePlay follows the third.  A source that was stopped plays all of *)
(* its queue again.                                                        *)
QueueBuffer ==
    /\ kind = "openal" /\ phase = "prebuffer" /\ cpc = "playing"
    /\ Fill(buffers[slot], afd)
    /\ slot' = (slot + 1) % 3
    /\ IF slot < 2
       THEN Play /\ UNCHANGED <<phase, source, cause>>
       ELSE phase' = "polling" /\ source' = "playing" /\ cause' = <<>> /\ UNCHANGED vars
    /\ UNCHANGED <<kind, devRate, frame, buffers, processed, stale, heard, reused>>

(* AL_BUFFERS_PROCESSED: a stopped source counts every buffer.             *)
BuffersProcessed == IF source = "stopped" THEN Len(srcq) ELSE processed

(* A buffer has been processed: unqueue it, which stores its name in the   *)
(* array, and go to audio_get.                                             *)
Unqueue ==
    /\ phase = "polling"
    /\ BuffersProcessed > 0
    /\ buffers' = [buffers EXCEPT ![frame] = Head(srcq)]
    /\ srcq' = Tail(srcq)
    /\ processed' = IF source = "stopped" THEN processed ELSE processed - 1
    /\ phase' = "running"
    /\ Play
    /\ UNCHANGED <<kind, devRate, slot, frame, bufs, source, stale, heard, cause, reused, refused>>

(* Mutant: frame is not reset together with the buffers.                   *)
FrameKept == frame

FrameAfterReset == 0

SameFormat(b) == afd[1].rate = bufs[b][1].rate

(* The packet has the format of the buffer's last one: refill it.          *)
Refill ==
    /\ phase = "running" /\ cpc = "playing"
    /\ SameFormat(buffers[frame])
    /\ Fill(buffers[frame], afd)
    /\ frame' = (frame + 1) % 3
    /\ phase' = "polling"
    /\ UNCHANGED <<vars, kind, devRate, slot, buffers, source, processed, stale, heard, cause,
                   reused>>

(* It has not: free the packet (line 105) and leave the loop.              *)
FormatChanged ==
    /\ phase = "running" /\ cpc = "playing"
    /\ ~SameFormat(buffers[frame])
    /\ stale' = afd /\ cause' = afd
    /\ phase' = "resetting"
    /\ UNCHANGED <<vars, kind, devRate, frame, source, processed, heard, reused, queueVars>>

(* alSourcei(source, AL_BUFFER, 0), which a playing source refuses.        *)
Detach ==
    /\ phase = "resetting"
    /\ IF source = "playing"
       THEN srcq' = srcq /\ refused' = IF refused = "none" THEN "detach" ELSE refused
       ELSE srcq' = <<>> /\ refused' = refused
    /\ phase' = "detached"
    /\ UNCHANGED <<vars, kind, devRate, slot, frame, buffers, bufs, source, processed, stale,
                   heard, cause, reused>>

(* Stop the source, and fill the first buffer with what afd points to,     *)
(* freed as it is.                                                         *)
Restart ==
    /\ phase = "detached"
    /\ Play
    /\ source' = "stopped" /\ processed' = 0
    /\ Fill(buffers[0], stale)
    /\ slot' = 1
    /\ frame' = FrameAfterReset
    /\ phase' = "prebuffer"
    /\ stale' = <<>>
    /\ UNCHANGED <<kind, devRate, buffers, heard, cause, reused>>

(* The source plays its next buffer, and stops after the last one.         *)
Hear ==
    /\ source = "playing"
    /\ processed < Len(srcq)
    /\ LET p == bufs[srcq[processed + 1]][1] IN heard' = Heard(p, p.rate)
    /\ IF processed + 1 = Len(srcq)
       THEN source' = "stopped" /\ processed' = 0
       ELSE processed' = processed + 1 /\ UNCHANGED source
    /\ UNCHANGED <<vars, kind, devRate, phase, frame, stale, cause, reused, queueVars>>

DriverStep ==
    \/ (GetWait \/ Get) /\ UNCHANGED driverVars
    \/ AlsaPlay \/ OsxPlay \/ DummyPlay
    \/ QueueBuffer \/ Unqueue \/ Refill \/ FormatChanged \/ Detach \/ Restart

DNext ==
    \/ \E n \in Frames \union {0}, rate \in Rates : Deliver(n, rate)
    \/ FifoStep
    \/ DriverStep
    \/ Hear

(* The driver's thread runs on, and so does the device.                    *)
DSpec == DInit /\ [][DNext]_allVars /\ WF_allVars(DriverStep) /\ WF_allVars(Hear)

-----------------------------------------------------------------------------
(* The first call that OpenAL refuses never is alBufferData for a queued   *)
(* buffer: it is the detach of a playing source, or the queueing of a      *)
(* prefilled buffer of another format than the one before it.  As          *)
(* long as OpenAL has refused no call, the source's queue is a run of      *)
(* consecutive buffers that ends before the one that is filled next, so    *)
(* alSourceUnqueueBuffers gives back the buffer that buffers[frame % 3]    *)
(* already names, and nothing is queued when a reset begins to fill.       *)
RingSound ==
    kind = "openal" =>
    /\ refused # "data"
    /\ processed <= Len(srcq)
    /\ refused = "none" =>
        /\ \A i \in Slots : buffers[i] = i
        /\ phase = "detached" => srcq = <<>>
        /\ phase \in {"polling", "running", "resetting"} =>
              /\ Len(srcq) = IF phase = "polling" THEN 3 ELSE 2
              /\ \A k \in 1 .. Len(srcq) : srcq[k] = (frame + k - (Len(srcq) - 2)) % 3

(* Whatever the driver, the rate changes, failed writes and resets, what   *)
(* is heard is heard at its own rate, unless the driver is AudioQueue's,   *)
(* and lies behind what was heard before, unless OpenAL has refused a call *)
(* (a source that could not be detached plays its old buffers again) or a  *)
(* freed packet was read that music_delivery had reused.                   *)
HeardForward ==
    [][heard' # heard =>
          /\ kind # "osx" => heard'[1].at = heard'[1].packet.rate
          /\ heard # <<>> /\ ~reused /\ refused = "none" =>
                heard'[1].packet.pos >= heard[1].packet.pos + heard[1].packet.nsamples]_allVars

(* "Make sure we don't lose the audio packet that caused the change"       *)
(* (openal-audio.c:126): the first buffer holds it after the reset, even   *)
(* if the source could be detached.                                        *)
ChangeKept ==
    phase = "prebuffer" /\ cause # <<>> /\ refused = "none" => bufs[buffers[0]] = cause
==============================================================================
