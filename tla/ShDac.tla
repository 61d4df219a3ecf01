-------------------------------- MODULE ShDac --------------------------------
(***************************************************************************)
(* The SuperH DAC ALSA driver (sound/sh/snd_sh_dac_audio.c) under the ALSA *)
(* playback protocol that calls it.  One byte of data_buffer is one frame  *)
(* (U8 mono); positions are offsets into data_buffer.  The TMU1 timer      *)
(* interrupt outputs one frame per tick from buffer_begin until it meets   *)
(* buffer_end; the copy callback moves buffer_end and restarts the timer   *)
(* when the driver was idle.                                               *)
(*                                                                         *)
(* The ALSA core is the caller: its state machine (open, hw_params,        *)
(* prepare, write, drop, release) guards the callbacks, and its appl_ptr   *)
(* and hw_ptr bookkeeping decides how much the application may copy.  The *)
(* copy runs with the stream lock released, so the interrupt interleaves   *)
(* with it; the write is split into the copy, the tail of the copy         *)
(* callback and the commit under the lock.                                 *)
(*                                                                         *)
(* ring and played are history: the frame of the current stream each byte *)
(* holds (NoFrame for one written before the last prepare), and how many   *)
(* frames the interrupt has output since prepare.                          *)
(***************************************************************************)
EXTENDS Naturals, FiniteSets

CONSTANTS Cap,       \* frames in data_buffer (BUFFER_SIZE bytes)
          Sizes,     \* runtime buffer sizes, in frames, hw_params may pick
          Period,    \* runtime->period_size
          MaxFrames  \* frames the application writes into one prepared stream

\* buffer_bytes_max (48K) is below BUFFER_SIZE (64000).
ASSUME Sizes \subseteq 2 .. Cap - 1 /\ Period \in 1 .. Cap

NoFrame == MaxFrames + 1

\* HD64461_GPADR bits driven by this driver and by the PCMCIA socket driver;
\* a set bit turns the device off.
GpadrBits == {"speaker", "pcmcia0"}

PcmStates == {"closed", "opening", "open", "setup", "prepared", "running",
              "xrun", "closing", "stopping"}

VARIABLES
  pcm,        \* substream state; opening/closing/stopping: in the driver
  rsize,      \* runtime->buffer_size
  appl, hw,   \* runtime appl_ptr and hw_ptr, counted from prepare
  begin, end, \* chip->buffer_begin, buffer_end (offsets)
  empty,      \* chip->empty
  processed,  \* chip->processed
  bsize,      \* chip->buffer_size
  tmu,        \* TMU1 bit of TMU_TSTR: the sample timer runs
  dac,        \* sh_dac_enable()d
  gpadr,      \* bits of HD64461_GPADR that are set
  dacRmw,     \* GPADR as read by dac_audio_start/stop, to be written back
  wr,         \* snd_pcm_lib_write: ph "idle", "copied" or "started", n frames
  ring,       \* history: the frame of this stream in each byte, or NoFrame
  played      \* history: frames output since prepare, capped at MaxFrames

dacVars == <<pcm, rsize, appl, hw, begin, end, empty, processed, bsize, tmu,
             dac, dacRmw, wr, ring, played>>
vars == <<dacVars, gpadr>>

Buf == 0 .. Cap - 1

Init ==
  /\ pcm = "closed" /\ rsize = 0 /\ appl = 0 /\ hw = 0
  /\ begin = 0 /\ end = 0 /\ empty = TRUE /\ processed = 0
  /\ bsize = 0                       \* the chip is kzalloc'ed
  /\ tmu = FALSE /\ dac = FALSE
  /\ gpadr = GpadrBits               \* the devices are off at boot
  /\ dacRmw = {}
  /\ wr = [ph |-> "idle", n |-> 0]
  /\ ring = [i \in Buf |-> NoFrame]
  /\ played = 0

\* The driver runs a read-modify-write of GPADR.
DacInRmw == pcm \in {"opening", "stopping"}

\* snd_sh_dac_pcm_open: reset the buffer pointers, then dac_audio_start
\* reads GPADR.
DacOpen ==
  /\ pcm = "closed"
  /\ pcm' = "opening"
  /\ begin' = 0 /\ end' = 0 /\ processed' = 0 /\ empty' = TRUE
  /\ rsize' = 0
  /\ dacRmw' = gpadr
  /\ UNCHANGED <<appl, hw, bsize, tmu, dac, gpadr, wr, ring, played>>

\* dac_audio_start: write GPADR back with the speaker bit cleared, enable
\* the DAC channel and program TMU1_TCR.
DacStartWrite ==
  /\ pcm = "opening"
  /\ gpadr' = dacRmw \ {"speaker"}
  /\ dac' = TRUE
  /\ dacRmw' = {}
  /\ pcm' = "open"
  /\ UNCHANGED <<rsize, appl, hw, begin, end, empty, processed, bsize, tmu, wr, ring, played>>

\* snd_sh_dac_pcm_hw_params: ALSA fixes the buffer size; the driver only
\* allocates the runtime pages.
HwParams(sz) ==
  /\ pcm \in {"open", "setup", "prepared"} /\ wr.ph = "idle"
  /\ pcm' = "setup" /\ rsize' = sz
  /\ UNCHANGED <<appl, hw, begin, end, empty, processed, bsize, tmu, dac, gpadr, dacRmw, wr, ring, played>>

\* snd_sh_dac_pcm_prepare copies the buffer size and nothing else; ALSA
\* resets appl_ptr and hw_ptr to 0.  buffer_begin and buffer_end stay.
Prepare ==
  /\ pcm \in {"setup", "prepared", "xrun"} /\ wr.ph = "idle"
  /\ pcm' = "prepared" /\ bsize' = rsize
  /\ appl' = 0 /\ hw' = 0
  /\ ring' = [i \in Buf |-> NoFrame] /\ played' = 0
  /\ UNCHANGED <<rsize, begin, end, empty, processed, tmu, dac, gpadr, dacRmw, wr>>

\* snd_pcm_update_hw_ptr with snd_sh_dac_pcm_pointer (buffer_begin): the
\* position is taken to have wrapped when it is below the last one; a
\* running stream whose hw_ptr reaches appl_ptr has underrun.
Update(pos) ==
  LET new0 == hw - (hw % rsize) + pos
      new  == IF new0 < hw THEN new0 + rsize ELSE new0
  IN  [nhw |-> new, npcm |-> IF pcm = "running" /\ new >= appl THEN "xrun" ELSE pcm]

\* snd_pcm_lib_write, up to the copy callback: update hw_ptr when running;
\* on an underrun the write fails.  Otherwise copy n frames at appl_ptr,
\* never past the end of the ring nor into frames not yet played, and
\* snd_sh_dac_pcm_copy memcpy's them and sets buffer_end = pos + n.
WriteCopy(n) ==
  LET u     == IF pcm = "running" THEN Update(begin) ELSE [nhw |-> hw, npcm |-> pcm]
      pos   == appl % rsize
      avail == u.nhw + rsize - appl
  IN /\ pcm \in {"prepared", "running"} /\ wr.ph = "idle"
     /\ hw' = u.nhw
     /\ IF u.npcm = "xrun"
          THEN /\ pcm' = "xrun"
               /\ UNCHANGED <<end, wr, ring>>
          ELSE /\ n <= avail /\ n <= rsize - pos /\ appl + n <= MaxFrames
               /\ ring' = [i \in Buf |-> IF i \in pos .. pos + n - 1
                                           THEN appl + (i - pos) ELSE ring[i]]
               /\ end' = pos + n
               /\ wr' = [ph |-> "copied", n |-> n]
               /\ UNCHANGED pcm
     /\ UNCHANGED <<rsize, appl, begin, empty, processed, bsize, tmu, dac, gpadr, dacRmw, played>>

\* Mutant: the copy callback clears empty and leaves starting the timer to
\* SNDRV_PCM_TRIGGER_START.
WriteStartNoTimer ==
  /\ wr.ph = "copied"
  /\ IF empty THEN empty' = FALSE ELSE UNCHANGED empty
  /\ wr' = [wr EXCEPT !.ph = "started"]
  /\ UNCHANGED <<pcm, rsize, appl, hw, begin, end, processed, bsize, tmu, dac, gpadr, dacRmw, ring, played>>

\* The tail of snd_sh_dac_pcm_copy: if (chip->empty) { chip->empty = 0;
\* dac_audio_start_timer(); }
WriteStart ==
  /\ wr.ph = "copied"
  /\ IF empty THEN empty' = FALSE /\ tmu' = TRUE ELSE UNCHANGED <<empty, tmu>>
  /\ wr' = [wr EXCEPT !.ph = "started"]
  /\ UNCHANGED <<pcm, rsize, appl, hw, begin, end, processed, bsize, dac, gpadr, dacRmw, ring, played>>

\* snd_pcm_lib_write after the copy, under the stream lock: a stream that
\* underran meanwhile fails the write; otherwise appl_ptr advances and a
\* prepared stream is started (start_threshold 1), which triggers
\* SNDRV_PCM_TRIGGER_START: dac_audio_start_timer.
WriteCommit ==
  /\ wr.ph = "started"
  /\ wr' = [ph |-> "idle", n |-> 0]
  /\ IF pcm = "xrun"
       THEN UNCHANGED <<appl, pcm, tmu>>
       ELSE /\ appl' = appl + wr.n
            /\ IF pcm = "prepared" THEN pcm' = "running" /\ tmu' = TRUE
                                   ELSE UNCHANGED <<pcm, tmu>>
  /\ UNCHANGED <<rsize, hw, begin, end, empty, processed, bsize, dac, gpadr, dacRmw, ring, played>>

\* snd_pcm_drop: the stream goes back to SETUP; SNDRV_PCM_TRIGGER_STOP is
\* a no-op in snd_sh_dac_pcm_trigger, so the timer keeps playing.
Drop ==
  /\ pcm \in {"prepared", "running", "xrun"} /\ wr.ph = "idle"
  /\ pcm' = "setup"
  /\ UNCHANGED <<rsize, appl, hw, begin, end, empty, processed, bsize, tmu, dac, gpadr, dacRmw, wr, ring, played>>

\* snd_pcm_release drops the stream and calls snd_sh_dac_pcm_close, which
\* starts with dac_audio_sync.
Close ==
  /\ pcm \in {"open", "setup", "prepared", "running", "xrun"} /\ wr.ph = "idle"
  /\ pcm' = "closing"
  /\ UNCHANGED <<rsize, appl, hw, begin, end, empty, processed, bsize, tmu, dac, gpadr, dacRmw, wr, ring, played>>

\* dac_audio_sync returns once chip->empty is set (while (!chip->empty)
\* schedule()); dac_audio_stop stops the timer and reads GPADR.
CloseSync ==
  /\ pcm = "closing" /\ empty
  /\ tmu' = FALSE
  /\ dacRmw' = gpadr
  /\ pcm' = "stopping"
  /\ UNCHANGED <<rsize, appl, hw, begin, end, empty, processed, bsize, dac, gpadr, wr, ring, played>>

\* dac_audio_stop: write GPADR back with the speaker bit set, output 0 and
\* disable the DAC channel.
CloseStopWrite ==
  /\ pcm = "stopping"
  /\ gpadr' = dacRmw \cup {"speaker"}
  /\ dac' = FALSE
  /\ dacRmw' = {}
  /\ pcm' = "closed"
  /\ UNCHANGED <<rsize, appl, hw, begin, end, empty, processed, bsize, tmu, wr, ring, played>>
\* snd_sh_dac_interrupt on a TMU1 tick with data to play: output the frame
\* at buffer_begin and advance it; every period_size frames call
\* snd_pcm_period_elapsed, which updates hw_ptr from the pointer (before the
\* wrap) when the stream runs; wrap when buffer_begin reaches
\* data_buffer + buffer_size - 1; on meeting buffer_end set empty and stop
\* the timer.  begin = Cap would be a read past data_buffer: no step.
DacIrq ==
  LET b1 == begin + 1
      p1 == processed + 1
      el == p1 >= Period
      u  == IF el /\ pcm = "running" THEN Update(b1) ELSE [nhw |-> hw, npcm |-> pcm]
      b2 == IF b1 = bsize - 1 THEN 0 ELSE b1
  IN /\ tmu /\ ~empty /\ begin < Cap
     /\ played' = IF played < MaxFrames THEN played + 1 ELSE played
     /\ processed' = IF el THEN p1 - Period ELSE p1
     /\ hw' = u.nhw /\ pcm' = u.npcm
     /\ begin' = b2
     /\ IF b2 = end THEN empty' = TRUE /\ tmu' = FALSE ELSE UNCHANGED <<empty, tmu>>
     /\ UNCHANGED <<rsize, appl, end, bsize, dac, gpadr, dacRmw, wr, ring>>

\* The steps of the process that has the substream open.
DacProcNext ==
  \/ DacOpen \/ DacStartWrite
  \/ \E sz \in Sizes : HwParams(sz)
  \/ Prepare
  \/ \E n \in 1 .. MaxFrames : WriteCopy(n)
  \/ WriteStart \/ WriteCommit \/ Drop \/ Close \/ CloseSync \/ CloseStopWrite

Next == DacProcNext \/ DacIrq

\* The timer ticks while it runs; the scheduler runs the process in close.
Spec == Init /\ [][Next]_vars /\ WF_vars(DacIrq) /\ WF_vars(CloseSync) /\ WF_vars(CloseStopWrite)

-----------------------------------------------------------------------------
TypeOK ==
  /\ pcm \in PcmStates
  /\ rsize \in Sizes \cup {0} /\ bsize \in Sizes \cup {0}
  /\ appl \in 0 .. MaxFrames /\ hw \in Nat
  /\ begin \in 0 .. Cap /\ end \in 0 .. Cap
  /\ empty \in BOOLEAN /\ tmu \in BOOLEAN /\ dac \in BOOLEAN
  /\ processed \in 0 .. Period - 1
  /\ gpadr \subseteq GpadrBits /\ dacRmw \subseteq GpadrBits
  /\ wr \in [ph : {"idle", "copied", "started"}, n : 0 .. MaxFrames]
  /\ ring \in [Buf -> 0 .. MaxFrames - 1 \cup {NoFrame}]
  /\ played \in 0 .. MaxFrames

\* Whatever the interrupt has still to play (buffer_begin # buffer_end) it
\* will play: chip->empty is clear and the timer runs.  Between the copy
\* callback's store to buffer_end and its test of chip->empty the
\* interrupt may drain the old data; the store must come first.
PendingPlays ==
  (begin # end /\ wr.ph # "copied") => (~empty /\ tmu)

\* The interrupt outputs the frames of the stream in the order they were
\* written: the frame at buffer_begin is the next one of this stream.
PlaysWritten ==
  (tmu /\ ~empty /\ pcm \in {"prepared", "running"}) => ring[begin] = played

\* The interrupt never reads past data_buffer.
NoReadPastBuffer == ~empty => begin < Cap

\* snd_sh_dac_pcm_close returns: dac_audio_sync waits for the interrupt to
\* set chip->empty.
CloseReturns == pcm = "closing" ~> pcm = "closed"
====
