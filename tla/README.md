# TLA+ models of the zrafa/linuxkernel sources

The repository holds a handful of files from a 2.6.17 kernel tree
(`src/linux-2.6.17.new/`): the DCCP CCID2 congestion controller and a set of
SuperH / Voyager board drivers. `spec.md` describes CCID2 as the algorithmic
core. This project models CCID2's sender (shown to refine an abstract
sender window) and its RTT estimator, the scan-keyboard
core with its two keyboards, the two SH real-time-clock drivers, and the
x86_64 SRAT parser that sets up the NUMA nodes, the Voyager GX I2C
algorithm and bus driver and its OSS sound driver, and on the HP6xx the SH DAC
audio driver and the HD64461 PCMCIA socket driver, alone and composed over
the GPIO register they share. Each is one module with its `.cfg` files, and an `MC_` module where
the constants are records or model values a `.cfg` cannot write.

## 1. Inventory of the system

| Part | Source | State | Operations | Interacts with |
|---|---|---|---|---|
| CCID2 sender window | `net/dccp/ccids/ccid2.c` | circular `seqbuf` of `{seq, acked}`, `seqh`, `seqt`, `pipe`, `cwnd`, `ssthresh`, `ssacks`, `acks`, `sendwait` | `send_packet`, `packet_sent`, `packet_recv`, `new_ack`, `dec_pipe`, `change_cwnd` | DCCP core (sequence numbers, sock lock), RTO timer |
| Ack-vector scan and NUMDUPACK | `ccid2.c` 557-673 | cursor `seqp`, `ackno`, `done`, `loss`, `maxincr` | the loops of `packet_recv` | sender window |
| Ack Ratio controller | `ccid2.c` 129-152, 269-300, 503-532 | `dccps_l_ack_ratio`, `arsent`, `ackloss`, `rpseq`, `rpdupack` | `change_l_ack_ratio`, `packet_sent`, the reverse-path check | peer (through Ack Ratio) |
| RTO timer | `ccid2.c` 170-230, 379-385 | `rtotimer`, `rto` | `rto_expire`, `start_rto_timer`, `kill_rto_timer` | softirq / bh lock, user socket lock |
| RTT estimator | `ccid2.c` 420-472, 186-192 | `srtt`, `rttvar`, `rto`, `lastrtt` | the sample in `new_ack`, the backoff | RTO timer |
| CCID2 receiver | `ccid2.c` 730-745 | `ccid2hcrx_data` | `rx_packet_recv` | DCCP core (`dccp_send_ack`) |
| Scan keyboards | `drivers/input/keyboard/` | `keyboards` list, `scan_timer`, `s0`/`s1` buffers | register, unregister, `scan_kbd` | input layer, timer |
| Voyager I2C | `drivers/i2c/algos/i2c-algo-voyager.c`, `busses/i2c-voyager.c` | the controller's start bit, slave address, BUSY and ACK; each call's timeout count and retry index | `iic_xfer`, `algo_control` (I2C_SREAD), module init and exit | i2c core (bus lock for `master_xfer` only), the controller |
| SH03 RTC | `drivers/char/sh03rtc.c` | `rtc_status`, `rtc_irq_data`, `rtc_freq`, the chip's ATCTL/TMCTL, the missed-interrupt timer | open, release, read, ioctl, interrupt handler, timer handler | user processes, interrupt, timer softirq |
| RS5C313 RTC | `drivers/char/rs5c313_rtc.c` | `rtc_status`, `epoch`, the chip's BCD counters, XSTP, CE and ADJ/BSY | open, release, RD_TIME/SET_TIME/EPOCH_SET, `get_cmos_time` at boot | user processes, boot-time `time_init` |
| x86_64 SRAT | `arch/x86_64/mm/srat.c` | `pxm2node`, `nodes_found`, `nodes_parsed`, `nodes[]`, `apicid_to_node`, `acpi_numa`, `acpi_slit` | the processor, memory and SLIT callbacks, `acpi_scan_nodes`, `__node_distance` | ACPI table parser, e820 map, NUMA setup (`numa.c`) |
| SH DAC audio | `sound/sh/snd_sh_dac_audio.c` | `buffer_begin`, `buffer_end`, `empty`, `processed`, `buffer_size`, the TMU timer, the DAC enable | open, close (`dac_audio_sync`), hw_params, prepare, trigger, copy, pointer, TMU interrupt | ALSA PCM core, HD64461 GPADR (speaker bit) |
| HD64461 PCMCIA socket | `drivers/pcmcia/hd64461_ss.c` | `sp->state`, `IC_memory`, the controller's GCR, SCR, STBCR, CSCIER, CSCR | init, suspend, set_socket, set_voltage, card-status interrupt, platform suspend/resume/remove | PCMCIA core, the card, HD64461 GPADR (PCMCIA0 bit) |
| Voyager GX OSS sound | `sound/oss/voyagergx_sound.c`, `voyagergx_8051.c` | `buff_flg1/2`, `proc_flg`, `first_flg`, `last_flg`, `wari_flg`, `break_flg`, `abnml_flg`, `next_write`, `next_size`, `dma_req[]`, DMA channel 0 | open, write, ioctl, release, `do_irq`, `voy_break` | user process, DMA completion interrupt, the 8051 |
| Framebuffers, flash, glue | the remaining files | register state | probe, register writes | hardware |

**Hard behaviours of CCID2.**
- The user process sends under `lock_sock`. Incoming packets run in softirq context. While the user owns the socket they are queued to the backlog.
- The RTO timer handler takes `bh_lock_sock`. If the socket is owned it only re-arms itself (`HZ/5`).
- On SMP, a timer that has expired is no longer pending while its handler still waits for the lock.
- Acks can be lost, and ack vectors may report any state.
- The peer's reverse-path sequence numbers drive the Ack Ratio.

**What makes CCID2 correct.**
- `pipe` counts exactly the unacked records of the live window. This is the debug-only `ccid2_hc_tx_check_sanity`, which the shipped build compiles out.
- Every record a run reports received is acked, and no record outside the window is.
- The timer is armed whenever packets are outstanding, and never started while pending.
- Outstanding packets are eventually cleared.
- Slow start grows at most `ceil(ratio/2)` per ack.
- The buffer never wraps onto live records.
- Teardown leaves no timer or handler behind.

## 2. Modules

### 2.1 `CCID2Tx.tla`: the CCID2 sender

**`CCID2Tx.tla`** is the CCID2 sender: the window, the scan, the Ack Ratio and the RTO timer.

The variables are the `ccid2_hc_tx_sock` fields, plus:
- `dccps_gss` and `dccps_l_ack_ratio` from the DCCP socket;
- `timer`, which is `timer_pending()`;
- `handlers`, the expired handlers still waiting for `bh_lock_sock` (SMP);
- `owned`, which is `sock_owned_by_user`;
- `exited`, set once `ccid2_hc_tx_exit` has run;
- `bugs`, the BUG_ON/WARN_ON sites that have fired.

Each entry point is one atomic action, because the socket lock or softirq serialises it:

| Action | Code |
|---|---|
| `UserLock`, `UserRelease` | `lock_sock` / `release_sock` (socket layer, outside `src/`) |
| `TxSendPacket` | `ccid2_hc_tx_send_packet` returning 0 for a data packet |
| `TxSendNonData` | the same function's early return for other packet types; the packet still takes a sequence number |
| `TxPacketSent` | `dccp_transmit_skb`'s `++gss`, then the whole of `ccid2_hc_tx_packet_sent` |
| `RecvPacket(kind, rp, ackno, vec, high)` | the whole of `ccid2_hc_tx_packet_recv` |
| `TimerFireUP` | timer expiry plus `ccid2_hc_tx_rto_expire`, on UP |
| `TimerExpireSMP`, `RtoExpireSMP` | the expiry, then the handler once it holds the lock, on SMP |
| `TxExit` | `ccid2_hc_tx_exit` at socket teardown: `sk_stop_timer`, then `seqbuf` freed. The DCCP core calls it under `bh_lock_sock` when the user has gone (outside `src/`). |
| `Closed` | the connection is gone and no timer or handler is left: the behaviour stops |

`RecvPacket` is built from these operators, each applied once:
- `RpCheck`, the reverse-path check;
- `ScanStart`, then `Scan`, the recursive ack-vector loops;
- `DetectLoss`, the NUMDUPACK check and loss loop;
- `TrimTail`, the tail trim and cwnd halving.

`NewAck`, `DecPipe` and `MarkAcked` are the helpers the loops call. `PROJECT.json` "map" gives the source lines of every definition.

**Data abstraction.**
- Time is not modelled, so a pending timer may expire at any step. The RTT/RTO arithmetic is left for `RttEstimator`.
- The peer's sequence number enters only through its relation to `rpseq`: `RpKinds`.
- A never-written slot (the buffer comes from `kmalloc`) holds `Uninit`. How it compares with `ackno` is the nondeterministic input `high`.
- An incoming ack is an `ackno` and a sequence of runs `[state, rl]`. `ccid2_ackvector` hands the options over byte by byte, and `ackno` continues across options, so the runs of all options form one sequence.
- Two input reductions are exact:
  - an ack to an empty window behaves like a data packet, because the code returns before looking at it;
  - ackno values below the tail record all lead to the same successor.

The cfgs of CCID2Tx give it:
- a 5-slot buffer (10 for the burst run);
- NUMDUPACK 3 and initial ssthresh 10, as in `ccid2_hc_tx_init`;
- an initial Ack Ratio of 1, as the DCCP core sets it.

**`CCID2Window.tla`: the abstract sender window.** This module states what the window promises without the circular buffer. Its state is:
- `outstanding`, the set of sequence numbers sent and not yet resolved;
- `pipe`, `cwnd` and `gss`;
- `overflow`, which is set once the buffer has wrapped.

Its actions:
- `RecordSent` (only while `pipe < cwnd`) adds the next sequence number;
- `SendUnmetered` only consumes a number;
- `Resolve` (an incoming packet or an RTO) removes any subset of the outstanding packets. It lowers `pipe` by exactly that many, and it may raise `cwnd` by at most that many;
- `Overflow` releases every promise once the buffer has wrapped.

CCID2Tx instantiates it as `Abs` with the refinement mapping `outstanding <- Outstanding` (the sequence numbers of the unacked records of the live window) and `overflow <- "window_full" \in bugs`. `WindowRefined == Abs!Spec` is checked as a PROPERTY in the tx_up run. Every other action of CCID2Tx is a stuttering step of the abstract window: lock, release, `TxSendPacket`, and a deferred RTO handler.

### 2.2 `RttEstimator.tla`: RTT estimate and RTO

This module covers the "update RTO" block of `ccid2_new_ack` and the backoff of `ccid2_hc_tx_rto_expire`.
- Variables: `srtt`, `rttvar`, `rto`, plus the history variable `specSrtt`. `specSrtt` is the srtt that spec.md 4.3 prescribes, fed the same samples.
- `Sample(r)` is one ack that passed the sampling throttle and measured `r` jiffies. The throttle depends only on jiffies, so it decides which acks sample and never the value sampled.
- `RtoExpire` is the backoff.
- `ClampRto`, `Granularity`, `NextSrtt` and `NextRttvar` are the fixed-point expressions of the code, with C's truncating shifts.
- `RttEstimator.cfg` and its variants:
  - HZ is 4, which keeps the 1 s floor and the 60 s cap apart.
  - The samples are `{0, 7, 9, 81, 250}`. They cover zero, both sides of the 8-jiffy shift, a first RTO of 3·81 just above 60 s, and one beyond the cap.

### 2.3 `ScanKeyb.tla`: the scan-keyboard core and the HP620/HP680 keyboards

This module covers `scan_keyb.c`, `hp620_keyb.c` and `hp680_keyb.c`.
- Each keyboard module's init registers its static `scan_keyboard` (`Register`), and its exit unregisters it (`Unregister`).
- `ScanKbd` is the shared `scan_timer` handler. It scans every listed keyboard into `s0` or `s1`, as `scan_jiffies` is odd or even. Then `CheckKbd` reports the differences to the input layer, and the handler re-arms itself.
- The list is `keyboards` plus a `next` field per keyboard. `Listed` walks it the way `scan_kbd` does.
- A buffer is the set of pressed positions.
- `Codes` gives the keycodes the input device holds. `register_scan_keyboard` sets `keybit` only for nonzero table entries, so unused positions are never reported.
- `KeyChange` is the user pressing or releasing a key.
- `bugs` records a timer re-initialised while pending, and a scan of a keyboard whose module is gone.
- `MC_ScanKeyb`:
  - two keyboards;
  - two positions with HP680 keycodes (KEY_A, KEY_B), and one unused position;
  - symmetry over the keyboards, sound because both run the same code on the same table.

### 2.4 `RtcDev.tla`: the SH03 `/dev/rtc` interrupt path

This module covers `sh03rtc.c` as five concurrent actors:
- the chip: `Tick` sets TF, `AlarmMatch` sets AF, and `IrqLost` loses an asserted interrupt;
- the interrupt handler: `IrqUpdate` is its `rtc_lock` section and `IrqWake` the wake-up after it;
- the missed-interrupt timer `sh03_rtc_irq_timer`: `TimerExpire`, then `DroppedIrq` (the locked section of `sh03_rtc_dropped_irq`), then `DroppedWake`;
- a control thread: `Open`, `AieOn`, `AieOff`, `PieOn` + `PieOnEnable`, `PieOff` + `PieOffTimer`, `IrqpSet`, `Release` + `ReleaseDone`;
- a reader in `read()`: `ReadStart`, `ReadCheck`, `ReadSchedule`, `ReadWoken`, and `Signal`.

Mapping rules:
- Every `spin_lock_irq(&rtc_lock)` section is one step. A handler or ioctl with two lock sections is two steps, and the other actors run in between.
- ioctls are serialised by the big kernel lock, so the control thread is a single actor.
- `rtc_irq_data` is `irqCount` (bits 8 and up, saturating at `IrqCountCap`) plus `irqFlags` (the low byte).
- `sleepy` is the reader's task state. A wake-up between `ReadCheck` and `schedule()` makes `ReadSchedule` return at once, as `schedule()` does for a task that is already TASK_RUNNING.
- `RtcDev.cfg` and `RtcDev_alarm.cfg`:
  - HZ = 250, the SH default;
  - `rtc_max_user_freq` = 64;
  - IRQP_SET rates 1, 64, 128 and 4096. 128 is a rate the chip lacks. 4096 is the rate where `freq / HZ` is nonzero.
  - three interrupt ioctls, enough for PIE_ON, PIE_OFF, PIE_ON with the timer handler in between.

### 2.5 `Rs5c313.tla`: the LANDISK RS5C313 RTC

This module covers `rs5c313_rtc.c`, down to the chip protocol of `rs5c313_get_cmos_time`.
- `chip` holds the BCD bytes of the yr, mon, day and hr register pairs. `xstp` is the oscillator-stop flag, `ce` the chip-enable line, `bsy` the ADJ/BSY bit and `held` a carry the chip postpones while CE is high.
- The chip counts: `TickStart` begins a carry into the next hour (`NextHour`, with day, month and year carries and the chip's own leap rule `yr % 4 = 0`), setting ADJ/BSY, or holds it back while CE is high; `TickDone` ends it. `CeLow` releases a held carry. Only valid dates count (`ChipDate`), and `MaxTicks` bounds the carries.
- A call of `get_cmos_time` is a sequence of driver steps, one per piece of the code, tracked by `pc`:
  - `CmosXstp`: the XSTP test and restart (lines 338-356). `clkstop` records that the chip was stopped;
  - `GetCurBusy`: `get_cur_time`'s loop that waits for ADJ/BSY clear with CE high;
  - `GetCurRegs`: the reads of hr, day, mon and yr in that order, then CE low. A read while a carry is under way is torn (`Torn`, `ReadRegs`): the registers read before the carry reached them hold the old count;
  - `CmosCheck`: the range and `clkstop` test (`NeedsReset`). It either returns the time or resets the chip to 2000-01-01 and goes "again";
  - `SetCurBusy` and `SetCurWrite`: `set_cur_time`'s busy loop and register writes, used by the reset and by `RTC_SET_TIME`.
- `rtc_open` and `rtc_release` model the single-open status.
- `RdTime` is `RTC_RD_TIME`. It starts a call of `rtc_get_rtc_time`, whose result is rebased on the epoch (`RtcTm`).
- `SetTime(tm)` is `RTC_SET_TIME` with the code's checks (`Accepts`) and encoding (`Encode`), including the unsigned-char truncations and the year fold. It starts a `set_cur_time`.
- `EpochSet(e)` is `RTC_EPOCH_SET`.
- `Boot` is `time_init`'s call of `rs5c313_get_cmos_time`: the system time is `mktime(2000 + yr, ...)` (`BootTm`). A boot also restarts the driver's statics: the epoch is 1900 again.
- `PowerLoss` is the backup battery running out: XSTP is set and the counters hold garbage.
- Every call runs under `rtc_lock` with interrupts off (or alone at boot), so calls never overlap (`Idle`); only the chip runs beside them.
- `lastSet`, `lastRead`, `bootTime`, `seen` (the counts the chip held during the current call) and `lastGot` are history variables.
- The min and sec fields go through the same code as hr and are left out; so the carry into the hour stands for every carry.
- The constants are definitions in the module, given in the cfgs with `<-`:
  - `UserTms`, six SET_TIME structs: 1999-12-31, 2005-02-28, the leap day 2000-02-29, the invalid 2001-02-30, 2105-01-01 (valid only under epoch 2000), and day 257 of January;
  - `UserEpochs`, epochs 1900 and 2000 (`UserEpochs1970` for the epoch configuration);
  - `BatteryGarbage`, two garbage contents: one out of range, and "01-02-30", which passes the driver's range check.

### 2.6 `Srat.tla`: x86_64 SRAT parsing

This module covers `srat.c` without its RESERVE_HOTADD path.
- The ACPI parser (`drivers/acpi/numa.c`, outside the tree) calls the processor-affinity callback for each processor entry in table order, then the memory-affinity callback for each memory entry, then the SLIT callback. The phases `"cpu"`, `"mem"` and `"slit"` follow that order. In each phase the table may hold any entry not yet seen, so every subset and order of `ProcEntries` and `MemEntries` is explored.
- `ProcessorAffinity(pa)` is `acpi_numa_processor_affinity_init`. Its ways out are disjuncts: `ProcIgnored` (SRAT disabled, or the entry disabled), `ProcBad` (bad length, or `setup_node` out of nodes, then `bad_srat`) and `ProcMapped`.
- `MemoryAffinity(ma)` is `acpi_numa_memory_affinity_init`, with the disjuncts `MemIgnored`, `MemBadLength`, `MemBadNode` and `MemMerged`. `MemBadNode` keeps the node `setup_node` allocated before the conflict was found. `ConflictingNodes` returns the lowest conflicting node, as the bitmap walk does. `Merge` is the first-range-or-grow step.
- `BadSrat` is `bad_srat`, including its clearing of `nodes[i].end` but not `nodes[i].start`.
- `SlitInit(sl)` is `acpi_numa_slit_init` with `SlitValid`. A missing SLIT leaves `acpi_slit` NULL, as an invalid one does.
- `AcpiScanNodes` is `acpi_scan_nodes(0, end_pfn << PAGE_SHIFT)`. It applies `Cutoff` and the small-node loop (`Unparse`), then either gives up or accepts. Giving up happens when no entry was mapped, when `NodesCoverMemory` fails, or when the hash function fails. The rest of `acpi_scan_nodes` is not modelled: `setup_node_bootmem` and `numa_init_array` are in `numa.c`, and the `cpu_to_node` fixup (srat.c:433-438) works on `cpu_to_node`, which no code of this tree writes.
- `NodeToPxm` and `NodeDistance` are `node_to_pxm` and `__node_distance`.
- Outside the file, hence environment:
  - the e820 map is the constant `Ram`, and `HoleSize` is `e820_hole_size`;
  - `compute_hash_shift` (`numa.c`) is taken to fail exactly when two nonempty nodes share address space (`HashFails`).
- Addresses are in MB. The page counts of `nodes_cover_memory` are 256 per MB.
- `seen` and `accepted` are history variables. `result` records `acpi_scan_nodes`' return.
- `MC_Srat`:
  - three nodes and four PXMs;
  - RAM of 0–640 MB and 1–6 GB;
  - memory entries: PXM 0 split around PXM 1, an entry overlapping two nodes, one past the RAM, and a hot-pluggable, a disabled and a bad-length one;
  - processor entries: a CPU on each PXM (two on PXM 0), a disabled one and a bad-length one;
  - a valid and an all-10 SLIT.

### 2.7 `ShDac.tla`: the SH DAC audio driver

The ALSA PCM core is the caller, and its protocol is the process side:
- `pcm` is the substream state as ALSA sees it (closed, open, setup, prepared, running, xrun), plus the driver's own two-step open and close.
- `appl` and `hw` are ALSA's application and hardware pointers in frames, `rsize` the runtime buffer size chosen by `HwParams`.
- Samples are frame numbers: `ring[i]` is the frame last copied to `data_buffer[i]`, and `played` counts what the interrupt has sent to the DAC. `NoFrame` marks a byte not written since the last prepare.
- A write is `WriteCopy` (ALSA's pointer update, then the `copy` callback storing the frames and `buffer_end`), `WriteStart` (the `empty` test that starts the timer) and `WriteCommit` (ALSA advancing `appl` and starting the stream on the first write). `wr` holds the write between those steps, so the interrupt can run in between as it does on the hardware.
- `DacOpen`/`DacStartWrite` and `CloseSync`/`CloseStopWrite` split `dac_audio_start` and `dac_audio_stop` at their GPADR read (`dacRmw`), so that the composition can run the socket driver between the read and the write.
- `DacIrq` is `sh_dac_audio_timer` in one step: it plays `buffer_begin`, counts toward the period, wraps at `buffer_size - 1` and stops the timer when `buffer_begin` meets `buffer_end`. ALSA's `snd_pcm_period_elapsed` pointer update (and xrun) is part of it.
- `Drop` is TRIGGER_STOP, which the driver leaves empty.

Fairness: weak fairness on `DacIrq` (the TMU keeps ticking while started) and on the two close steps (the scheduler runs a process that is not blocked). No fairness on the application's calls.

### 2.8 `Hd64461Ss.tla`: the HD64461 PCMCIA socket driver

The PCMCIA core is the caller, and the card and controller are the environment:
- `st` is `sp->state`, `icmem` is `sp->IC_memory`. `gcr`, `scr`, `stbcr` and `cscier` are the controller registers as sets of the bits the driver touches, `cscr` the latched status changes.
- `SsInit`, `SsSetSocket` and `SsSuspend` are the socket operations. Init and suspend of socket 0 read GPADR in one step (`ssRmw`) and write it in the next (`SsInitWrite`, `SsSuspendWrite`).
- `SetSocket` is `hd64461_set_socket`: the voltage only when the request differs from `sp->state`, the CSC enable follow, the card type with socket 1's refusal of I/O cards, and the store of the requested state. `SetVoltage` is `hd64461_set_voltage`.
- The interrupt is `IrqRead` (read CSCR), `IrqClear` (the card-detect and status handling) and `IrqWrite` (the write-back). `lost` records a change latched between the read and the write-back that the write cleared unreported.
- `HwCard` and `HwStatus` are the card being inserted or removed and its status lines changing.
- The PCMCIA core calls the operations one at a time, which `CoreMayRun` states.
- `pm`, `pmi` and `saved` are the platform device: `DrvSuspend(i)` and `DrvResume(i)` are one turn of the loops of `hd64461_pcmcia_drv_suspend`/`_resume` (keep and clear CSCIER, or write the kept copy back), after which `pcmcia_socket_dev_suspend`/`_resume` suspends or resumes every socket of the device through `SsSuspend`/`SsInit` before the next turn (`DevSuspended`, `DevResumed`). `DrvPmDone` is the callback returning. `SsPmNext` groups them.
- `DrvRemove(i)` is one turn of `hd64461_pcmcia_drv_remove`: the socket leaves the core (`core = "gone"`), then `hd64461_exit_socket` clears CSCIER and runs `hd64461_suspend`, with socket 0's GPADR write as in `SsSuspend`.
- The platform suspend starts once pccardd has initialised every socket (`pcmcia_register_socket` does that before it returns); a system suspend inside `init_hd64461_ss`, between the platform device registration and the socket registration, is not modelled.

`IerCoversState` states that while the core has a socket up, CSCIER enables at least the status changes of its `csc_mask`. `set_socket` only writes the enable bits of the mask that changed, so this depends on the suspend keeping CSCIER and the resume writing it back.

`CoreStates`, defined in the module and taken by every cfg of `Hd64461Ss` and `Hp6xx`, offers the core five socket states: the dead state of `socket_shutdown`, powered 5 V states with and without reset, an I/O card, and a memory card with ready-change interrupts.

### 2.9 `Hp6xx.tla`: the two drivers on the HP6xx

The DAC and the socket driver share the HD64461 GPADR register: bit `speaker` is the DAC's amplifier, bit `pcmcia0` powers socket 0. `Hp6xx` instantiates both modules over one `gpadr` variable and interleaves their steps:
- a process step of one driver runs only while no interrupt handler runs;
- with `PREEMPT = FALSE` a process step does not run while the other driver is between its GPADR read and write. With `PREEMPT = TRUE` it may, as a preemptible kernel allows, since neither driver takes a lock around the read-modify-write.

The composition takes the socket driver's core steps and its platform remove, but not the platform suspend and resume (`SsPmNext`). The freezer stops user tasks before devices suspend, so the DAC's process context (open, write, close) does not run during them. The DAC's interrupt never touches GPADR. The PM steps therefore meet the DAC on nothing, and they are checked on the socket driver alone (run `ss_pm`).

`GpadrFollowsDrivers` states that, outside both read-modify-writes, the speaker bit is clear exactly while the DAC is on and the PCMCIA0 bit is clear exactly while socket 0 is up.

### 2.10 `VoyagerI2c.tla`: the Voyager GX I2C algorithm and bus driver

The build is the OV7640 one (PACKET_SIZE 2, serial addresses 0x42/0x43), without `I2C_USE_INTR`, so `waitforpin` is a `udelay`.
- Two callers: `"tr"` is `i2c_transfer`, which the i2c core serialises on the bus lock before calling `iic_xfer`; `"ctl"` is the I2C_SREAD ioctl, which reaches `algo_control` without that lock. Each has a program counter `pc`, its message `m`, and a frame `loc` with the C locals: the timeout count `t`, `try_address`'s `i`, the results of the two wait procedures, and the status bits last read. `Frame` is reset on return.
- `wait_for_bb` is `BbPoll`/`BbExit`, and `wait_for_pin` is `PinPoll`/`PinLoop`. One step is one status read. `timeout--` is decremented on every test, as the C post-decrement is. The procedures return to the label in `bbRet`/`pinRet`.
- `iic_xfer` is `XferEmpty`, `XferBegin`, `XferAddress` (`iic_doAddress`), `TryAddress`/`TryResult` (`try_address`), `XferData`, `SendStart`/`SendEnd` (`iic_sendbytes`) and `ReadStart`/`ReadEnd` (`iic_readbytes`). `Sread` is `algo_control`, which returns 0 whatever happened.
- `ModuleInit` and `ModuleExit` are the bus driver's init and exit. Exit never calls `i2c_voyager_del_bus`, so `adapter` stays TRUE and the callers can still enter the unloaded driver; the model keeps those behaviours.
- The controller is the environment. `voyagergx_reg.h` is not in the tree, so the model takes this behaviour:
  - `Start` (a write of the start bit) begins a transfer to `I2C_SADDRESS` and sets BUSY;
  - `HwComplete` ends it at any later time, or never; it clears BUSY and sets ACK only if the address is in `Acks` and the slave answered.

Fairness: weak fairness on each caller's steps once called (`ProcStep`). The loops busy-wait, so a running caller keeps running. There is none on the controller or on new calls.

### 2.11 `VoyagerGxSound.tla`: the Voyager GX OSS sound driver

A process writing `/dev/dsp` fills two VRAM buffers of `VOYAGER_SOUND_SIZE`. DMA channel 0 feeds one buffer at a time to the 8051's FIFO, and its completion interrupt `do_irq` frees the buffer it played and starts the other one if it is full. If the other buffer is not full, `do_irq` records an underrun (`abnml_flg`), and the writer's next fill restarts DMA.

How the module's state and actions correspond to the code:
- The flags are the driver's globals, under their own names. `dma` is the channel's enable bit, source buffer and count. `pc` says where the one process is. `cont` says where a wait on `int_wq` returns to. `left` is `data_size`.
- `Open`, `Write(count)`, `IoctlBreak` (ioctl -1), `IoctlStereo` and `ReleaseStart` are the calls the process makes, in any order.
- `WriteFill` is one turn of write's loop: the fill, the restart after an underrun, the first start, and the wait when both buffers are full. `WriteTail` is the partial copy, or the drop of the tail when its buffer is busy, and the return.
- `WaitCheck`, `Wake`, `Timeout` and `Interrupted` are the `while (wari_flg)` loop around `interruptible_sleep_on_timeout`.
- `ReleaseTail` is the "less than 4 bytes" exit and the queueing of the partial buffer. `ReleaseDrain`, `ReleaseWake` and `ReleaseTimeout` are the final wait.
- `DoIrq` is `do_irq`, and `VoyBreak` is `voy_break`.

What is left out, and why:
- `do_irq` runs under `spin_lock_irq` on a uniprocessor SH4, so it is one step between any two steps of the process.
- Write's fill and its "restart if `abnml_flg`" test are one step. `abnml_flg` is set only while DMA is stopped, and then no interrupt can come between them.
- The lost wakeup between the `wari_flg` test and the sleep only turns a wakeup into a timeout. Both leave the loop to the same place, so it is not modelled separately.
- The counter `i` of the wait loops, which gives up after 10^7 wakeups, is left out: it cannot be reached in a bounded stream.

The stream is bookkeeping of the model, not of the code:
- `apos` is the position of the next unit written.
- `data[b]` is the stretch of the stream that buffer `b` holds.
- `played` is the position after the last unit DMA delivered.
- `misplay` records a transfer that was not the stream's next units.

The properties:
- `NoUnplayedOverwrite` (an action property) states that a refill of a buffer from its start never overwrites units DMA has not delivered.
- `ReleaseReturns` states that close always returns.
- `ReleasePlaysAll` states that a release returning 0 on a stream that was not broken has had the whole stream played, in order. TLC finds it violated; see the further configurations.

The 8051 loader and command retries are register I/O. The callers ignore `command_8051`'s failure, so the 8051's state is not modelled.

## 3. Runs

| Run | cfg | Expect | What it shows |
|---|---|---|---|
| tx_up | `CCID2Tx_up.cfg` | pass | UP, MaxSeq 7, cwnd ≤ 4, vectors of up to 2 runs with ECN marks. `TypeOK`, `PipeMatchesWindow`, `WindowTrimmed` and `OutstandingHasTimer` hold, and the sender refines `CCID2Window` (`WindowRefined`) (about 300k states). |
| tx_smp | `CCID2Tx_smp.cfg` | pass | SMP timer race under `LiveSpec`. Window accounting and `OutstandingHasTimer` survive a late handler, and `OutstandingCleared` (`pipe > 0 ~> pipe = 0 \/ exited`) holds (about 330k states). |
| rtt_rto | `RttEstimator.cfg` | pass | `RtoFloor` and `RtoCapped`: the RTO is never below 1 s, exceeds srtt by the one-jiffy granularity unless capped, and stays below 61 s through any number of backoffs (about 113k states). |
| kbd_two | `ScanKeyb_two.cfg` | pass | `ReportedMatchesScan`: with both keyboard modules loading and unloading, the input layer holds exactly the keys of the last scan (about 370k states). |
| kbd_stop | `ScanKeyb_stop.cfg` | violation | `KeysEventuallyReported`: unloading one keyboard stops the shared timer for the other. |
| rtc_dev | `RtcDev.cfg` | pass | `NoAddPendingTimer` and `ReaderServed`: PIE_ON never add_timers a queued timer, and a sleeping reader is served while the watchdog timer is on, even when an interrupt is lost (about 310k states). |
| srat_nodes | `Srat.cfg` | pass | `NodesFromEntries`, `CpusOnParsedNodes` and `DistancesFromSlit`: for every subset and order of the entries, an accepted SRAT has exactly the nodes its memory entries describe (hull, cut to RAM, small ones dropped), no CPU on a dropped node, and distances from the SLIT row and column of the right PXMs (about 2.5M states). |
| hp6xx | `Hp6xx.cfg` | pass | `TypeOK`, `PendingPlays` and `GpadrFollowsDrivers`: with the DAC playing through open, write, drop, prepare and close and socket 0 going through init, set_socket, suspend and card interrupts, written samples are always being played and GPADR follows both drivers, also when the socket driver is removed while the DAC plays (about 4.5M states). The socket's reported power is checked by ss_pm alone: the DAC never touches the registers it depends on. |
| ss_pm | `Hd64461Ss.cfg` | pass | `TypeOK`, `PowerReported` and `IerCoversState`: socket 0 through init, set_socket, card suspend, platform suspend, resume and remove, and card interrupts keeps its reported power equal to the controller's and CSCIER enabling every change the core asked for (about 85K states). |
| i2c_xfer | `VoyagerI2c.cfg` | pass | `TypeOK`, `SuccessMeansAcked` and `CallsReturn`: with both callers, module reloads, NAKs and a controller that may hang, a read or write is reported done only after the ACK of the transfer it started (unless another caller replaced it), and every call returns (about 1.3M states). |
| snd_play | `VoyagerGxSound.cfg` | pass | `TypeOK`, `NoUnplayedOverwrite` and `ReleaseReturns`: with breaks, STEREO ioctls, signals and timeouts at any point, the writer never refills a buffer before DMA has played it, and close always returns, even when DMA stopped without an interrupt (about 6.5K states). |
| rs_time | `Rs5c313.cfg` | pass | `ReadValid`, `ReadKeepsValidTime`, `ReadNotTorn`, `AccessReturns`: with the chip counting across 1999-12-31 23h, and through set, change between the epochs 1900 and 2000, reboot and power loss, every RD_TIME and boot read is a real date the chip held during the call (CE high holds a carry back, so no read mixes the counts before and after it), reads never clobber a valid running chip, and every chip access ends (358,768 states, about 20 s). |

Every property of a passing run has a mutant in `PROJECT.json` "mutants", and TLC must find it violated. Each mutant is an operator defined just before the one it replaces, with a comment naming the bug it plays: a dropped guard, a dropped reset, an off-by-one, or a swapped buffer.

### Further configurations

These cfgs check more properties of the same modules. TLC finds each of them violated, as the README states. They are kept beside the runs and are not among `PROJECT.json`'s runs.
- `CCID2Tx_stale.cfg`, `AcksOnlyLiveRecords`: a long run acks the stale record at `seqh`, and pipe reaches -1.
- `CCID2Tx_wrap.cfg`, `NoWindowOverflow`: `seqh` wraps onto `seqt` when cwnd + 2 reaches the buffer size.
- `RtcDev_alarm.cfg`, `AlarmFollowsIoctl`: RTC_AIE_ON never enables the alarm interrupt (one ioctl step).
- `CCID2Tx_burst.cfg`, `SlowStartBurstBounded`: cwnd grows by 2 on one ack with Ack Ratio 2. `maxincr` is `(ratio >> 1) + 1`, not the `ceil(ratio/2)` the comment states.
- `RttEstimator_clamp.cfg`, `RtoWithinSpec`: the caps test the whole seconds `rto / HZ > 60`, so an RTO between 60·HZ + 1 and 61·HZ - 1 jiffies stays, against spec.md 4.3's 60-second bound. With HZ = 4, a first sample of 81 jiffies gives rto = 241.
- `RttEstimator_srtt.cfg`, `SrttTracksSpec`: shifting `7*srtt` and `r` separately drifts more than one jiffy below the spec's `(7*srtt + r)/8`.
- `ScanKeyb_reinit.cfg`, `NoTimerReinit`: registering a second keyboard `init_timer`s and `add_timer`s the shared timer while it is pending.
- `Rs5c313_ReadBack.cfg`, `ReadBack`: SET_TIME truncates `tm_mday` to an unsigned char, so day 257 is stored as day 1. Under epoch 2000, years from 2100 read back a century early.
- `Rs5c313_BootAgreesWithRead.cfg`, `BootAgreesWithRead`: a chip set to 1999 through the ioctl boots the kernel into 2099.
- `Rs5c313_epoch.cfg`, `ReadValid` with epochs 1970 and 2000: a leap day stored as year 00 reads back as 1970-02-29.
- `CCID2Tx_rearm.cfg`, `NoTimerRearm`: on SMP a handler waiting for `bh_lock_sock` calls `ccid2_start_rto_timer` after the receive path re-armed the timer, and BUG_ON(timer_pending) fires.
- `VoyagerI2c_sread.cfg`, `OwnAck`: the I2C_SREAD ioctl takes no bus lock. An `iic_xfer` restarts the controller after the ioctl's transfer was acked and before `iic_readbytes` reads the data registers (12 states).
- `VoyagerI2c_timeout.cfg`, `TimeoutMeansNoAnswer`: `while (timeout-- && busy)` leaves timeout at 0 when the last permitted read finds the bus free, and `wait_for_bb` reports a timeout. `wait_for_pin` does the same with ACK.
- `VoyagerI2c_short.cfg`, `NoBufferOverrun`: a read of one byte gets PACKET_SIZE bytes stored into its buffer.
- `VoyagerI2c_stop.cfg`, `StoppedWhenIdle`: `try_address` leaves the bus started on success. `iic_sendbytes` then returns -EPROTO for a count other than PACKET_SIZE, or -ETIMEDOUT, without `iic_stop`.
- `VoyagerI2c_addr.cfg`, `DataAtMsgAddress`: `iic_doAddress` probes the message's address, but `iic_sendbytes` and `iic_readbytes` then load the fixed SERIAL_WRITE_ADDR/SERIAL_READ_ADDR. A message to another slave that answers sends its data to the camera.
- `ScanKeyb_uaf.cfg`, `NoScanAfterFree`: `unregister_scan_keyboard` sets `keyboards = kbd->next` whatever the keyboard's place in the list. Unloading the first-registered of two keyboards drops the other from the list (`RegisteredListed` fails on the way) and leaves the unloaded one reachable, and the next scan walks into the unloaded module's keyboard.
- `CCID2Tx_exit.cfg`, `NoHandlerAfterExit`: on SMP, a handler that expired before `ccid2_hc_tx_exit` runs after it, on the freed sender state, and re-arms the timer (8 steps).
- `VoyagerGxSound_drain.cfg`, `ReleasePlaysAll`: one write of a whole buffer, then close. With no partial buffer pending, `(VOYAGER_SOUND_SIZE - next_size) < 4` holds and release calls `voy_break` at once, while the buffer is still playing (7 steps).
- `VoyagerGxSound_order.cfg`, `ReleasePlaysAll`: one write of a buffer and a half, buffer 1 plays and DMA underruns (`proc_flg` becomes 2, buffer 2 holds the partial data), then close. Release takes `proc_flg == 2` to mean buffer 1 holds the tail: it marks and restarts buffer 1 with the partial length, so buffer 1's old data is played and the tail in buffer 2 never is.
- `ShDac_misplay.cfg`, `PlaysWritten`: the interrupt plays a frame other than the next one written: the sample at `buffer_size - 1` is skipped by the wrap test, and after a drop (TRIGGER_STOP does nothing) and prepare the old stream's frames are played.
- `ShDac_hang.cfg`, `CloseReturns`: when the last write ended at the end of the buffer, `buffer_end = buffer_size` is never met by an interrupt that wraps at `buffer_size - 1`; the timer loops over stale data and `dac_audio_sync` spins forever.
- `ShDac_resize.cfg`, `NoReadPastBuffer`: prepare takes a smaller buffer size but keeps `buffer_begin` from the previous stream, and the interrupt reads past `data_buffer`.
- `CCID2Tx_scan.cfg`, `ScanAcksReported`: a run covering two records acks only the newer one (finding 2).
- `Hd64461Ss_ier.cfg`, `IerFollowsState`: `drv_suspend` keeps socket 0's CSCIER before the core sets `dead_socket`, and `drv_resume` writes it back before `socket_resume`. `set_socket(dead_socket)` finds no change to the mask, so socket 0 comes back with the configured card's STSCHG or READY enabled while the core has `dead_socket` (12 steps).
- `Hd64461Ss_lost.cfg`, `NoLostChange`: a card-status change latched between the interrupt's CSCR read and its write-back is cleared and never reported.
- `Hd64461Ss_iocard.cfg`, `CardTypeAgrees`: socket 1 refuses SS_IOCARD but stores it in `sp->state`, so the core's view and the controller's card type disagree.
- `Hp6xx_preempt.cfg`, `GpadrFollowsDrivers` with `PREEMPT = TRUE`: the DAC's open reads GPADR, socket 0's init clears PCMCIA0, and the DAC's write puts it back: socket 0 is up with its power bit off (5 steps).
- `Srat_cover.cfg`, `CoversRam`: `nodes_cover_memory` compares pages with `1*1024*1024`, a slack of 4 GB. An SRAT whose only node is 4–6 GB is used while 3.7 GB of RAM lies in no node.

## 4. Bounds, fairness and why they are enough

**CCID2Tx.**
- `MaxSeq` bounds the sequence numbers sent.
- `MaxCwnd` bounds cwnd: transitions beyond it are cut.
- `MaxRunLen`, `MaxVecLen` and `MaxCoverage` bound the ack vectors.
- `MaxHandlers` = 1 is one expired handler in flight.

Why these bounds are enough:
- A 5-slot buffer with cwnd up to 4 reaches every branch: NUMDUPACK losses with three acked records above a lost one, ECN losses at cwnd 1, trimming, RTO while owned and not owned, ratio doubling, and the wrap.
- The passing runs keep `MaxCoverage` (3) below the buffer size (5). A run therefore never reaches the stale slot at `seqh`; that case is the `CCID2Tx_stale.cfg` finding.
- Both passing invariants are claimed only until the buffer wraps. Their precondition `"window_full" \notin bugs` says so.

Fairness (`Fairness` in CCID2Tx):
- Weak fairness on packet_sent, release_sock, timer expiry and handler run: the kernel runs an expired timer, and a process holding the socket finishes its call.
- Strong fairness on the handler running while the socket is not owned. A deferred handler retries every `HZ/5`, and processes take the socket at unrelated times.
- No fairness on incoming packets: every ack may be lost.
- No fairness on `TxExit`: a connection may stay open forever.

**ScanKeyb.**
- Two keyboards are the two modules of the tree.
- One used and one unused position per keyboard keeps the product of the buffers small. It still has presses, releases, the unused-position filter and a change between two scans.
- Weak fairness on `ScanKbd`: the kernel runs a pending timer.

**RtcDev.**
- `IrqCountCap` = 2 tells "none", "one" and "more" apart, which is all the reader tests.
- `MaxIoctls` = 3 reaches PIE_ON, PIE_OFF, PIE_ON.
- Weak fairness:
  - on `Tick`: the chip's periodic tick keeps running while TIE is on;
  - on both parts of both handlers and of the two-part ioctls: a handler or a thread that holds the CPU finishes;
  - on the reader's steps.
- There is no fairness on `IrqLost`, `AlarmMatch`, the control thread's new ioctls, `Signal` or `KeyChange`. They may or may not happen.

**Rs5c313.**
- `MaxTicks` = 2 gives two carries: enough for a carry to race a read at 23h on 31 December (the `UserTms` struct 1999-12-31 is set at 23h) and for a second carry to follow the first. The further configurations use `MaxTicks` = 0: their findings are about conversions, not timing.
- The inputs are each on one side of a check in `Accepts`, `ChipValid` or the year fold.
- Weak fairness on `Access`: the caller spins with interrupts off under `rtc_lock` until its access ends, so its steps are taken. Weak fairness on `TickDone`: the chip ends a carry within microseconds. There is none on the chip starting a carry, on the ioctls, on boots or on power loss.

**Srat.**
- Three nodes and four PXMs are the smallest setting in which `setup_node` runs out of nodes while a PXM with CPUs and no RAM still gets one.
- The memory entries are chosen so that each branch of `acpi_numa_memory_affinity_init` is taken, in both orders:
  - a self-overlap (the same range twice);
  - an overlap with another node;
  - a hull that swallows another node (caught only by the hash check);
  - an entry cut to nothing;
  - the three ignored kinds.
- The RAM hole makes `HoleSize` matter. The 6 GB total puts the 4 GB slack of `nodes_cover_memory` within reach, in both directions.
- There is no fairness and no liveness: boot runs the parser once, and the run ends when `acpi_scan_nodes` returns. That end is the only deadlock, hence `CHECK_DEADLOCK FALSE`.

**VoyagerI2c.**
- `DEF_TIMEOUT` is 3 instead of 16 and `RETRIES` 2 instead of 3. The controller may finish before any read, so the polls differ only in which read sees the change. Three reads are the fewest in which a re-read can still succeed, since the post-decrement spends one; with 2 the success-after-retry path is dead.
- The messages name the camera (a read, a write of PACKET_SIZE, a write of one byte, an empty one) and an absent slave. SREAD reads PACKET_SIZE.

**ShDac and Hd64461Ss.**
- The DAC ring of 4 or 5 frames with periods of 2 and up to 6 frames written reaches the wrap, a chunk ending at the ring end, a period elapsing mid-write, xrun, and a second stream after drop and prepare. `MaxFrames` caps ALSA's frame counters.
- One socket shows the interrupt race, the GPADR sharing and the CSCIER save and restore (socket 0 is the one whose copy is taken live). `Hd64461Ss_iocard.cfg` takes two sockets for socket 1's refusals; with the platform PM steps two sockets grow past 45M states, so no passing run takes them.
- `Hp6xx.cfg` takes the smaller DAC (ring 4, one size, 3 frames) and socket 0 alone: the GPADR interaction involves only socket 0, and the product stays at 4.5M states. With the platform suspend and resume composed it grows to 36M states, which is why they are checked on the socket driver alone.
- The socket driver has no waiting, so no liveness is claimed for it; the composition checks safety only.

**VoyagerGxSound.**
- A unit is four bytes, and the driver's "less than 4 bytes" test becomes "no unit". Writes that are not a multiple of four bytes are not modelled; `dma_req` drops their last bytes.
- Buffers of 3 units, writes of 1, 2 and 4 units, and streams of up to 10 units reach these cases: a fill that completes a partial buffer, a write that spans both buffers, the wait with both full, an underrun and its restart, a close with and without a partial buffer, and a second stream after close.
- The two further configurations take 2-unit buffers and the one write that shows each bug first.
- Timeouts are nondeterministic. `WAIT_TIMEOUT` is 11 s, while a 1 MB buffer plays for between about 5 s (48 kHz stereo) and 74 s (7 kHz mono), depending on the rate `SNDCTL_DSP_SPEED` set.
- Fairness:
  - weak fairness on the process's steps inside write and release: the scheduler runs a runnable process;
  - weak fairness on `DoIrq`: an enabled channel completes its transfer;
  - weak fairness on the timeouts: the timer of a sleep fires.
- The process's calls and signals have no fairness.

## 5. Findings

`PROJECT.json` "findings" has the details of the one found by a run (3). The others are found under the further configurations: 1 under `CCID2Tx_rearm.cfg`, 2 under `CCID2Tx_scan.cfg`, 4 under `ScanKeyb_uaf.cfg`, 5 under `CCID2Tx_exit.cfg`, 6 under `RtcDev_alarm.cfg`, and 7 and 8 under `VoyagerGxSound_drain.cfg` and `VoyagerGxSound_order.cfg`.
1. **SMP re-arm race** (`ccid2.c:227`): a late RTO handler calls `ccid2_start_rto_timer` after the receive path re-armed the timer, and the BUG_ON fires.
2. **Scan walks the wrong way** (`ccid2.c:608`): `seqp = seqp->ccid2s_next` acks only the newest record of each run. The others are later declared lost.
3. **Shared scan timer stopped** (`scan_keyb.c:143`): unloading one keyboard module `del_timer_sync`s the timer all keyboards share.
4. **Use after free** (`scan_keyb.c:144`): `keyboards = kbd->next` unlinks correctly only the list head. It leaves an unloaded module's keyboard in the list, and the next scan uses it.
5. **RTO handler after teardown** (`ccid2.c:725`): `sk_stop_timer` does not wait for a handler that has already expired. That handler runs `ccid2_hc_tx_rto_expire` on the sender state the DCCP core frees after exit, and re-arms the timer on it.
6. **RTC_AIE_ON is a no-op** (`sh03rtc.c:449`, `RtcDev_alarm.cfg`): it passes the chip bit `RTC_AIE` to helpers that switch on the ioctl numbers.
7. **Close cuts the queued sound** (`voyagergx_sound.c:840`): release tests for a partial buffer before anything else. When there is none, it stops the 8051 and DMA at once, so the full buffers still queued or playing are never heard. The comment says release "play[s] again if data remains in buffer".
8. **Close replays a stale buffer after an underrun** (`voyagergx_sound.c:870`): release picks the buffer for the tail from `proc_flg`. After an underrun, `proc_flg` names the empty buffer that holds the tail, so release restarts the other buffer, whose old data is played instead.

The model also reaches two behaviours that no run checks:
- A write whose wait timed out while both buffers were still full drops its tail and returns `count` (`voyagergx_sound.c:445`).
- After `SNDCTL_DSP_STEREO` rewrote the DMA channel during play, no interrupt comes and write's loop sleeps forever. Close still returns, through its timeout (run `snd_play`).

Further configurations above also record the DAC's skipped sample, stale replay after drop, close hang and resize overrun, the Voyager I2C ioctl race, timeout off-by-one, read overrun, unstopped bus, and fixed data address, the socket driver's lost CSCR change, socket-1 card type and CSCIER restored over `dead_socket`, and the GPADR lost update under preemption; they record the CCID2 stale-slot, wrap and slow-start findings, the RTO cap and srtt drift, the keyboard unlink and timer re-init, the AIE no-op of the SH03 RTC, the three RS5C313 date conversions, and the 4 GB slack of the SRAT coverage check.

## 6. Not modelled, and why

- **CCID2 receiver** (`ccid2_hc_rx_packet_recv`): a counter that calls `dccp_send_ack`. It is meaningful only in a composition with the sender over a channel, and that has not been built. The sender's acks are arbitrary inputs instead, which is more general.
- **SH03 time, alarm-time and epoch ioctls** and `/proc`. They are register conversions like those of `Rs5c313`, and are left for a later module.
- **RS5C313**: `rtc_read` and the `rtc_register`/`rtc_control` stubs only return `-EIO`, `RTC_EPOCH_READ` only reads, and `/proc` and sysctl only print or tune an unused value. The chip's counting of min and sec, and of register contents that are not dates, is left out: the carry into the hour stands for every carry, and a chip with garbage is reset before anything is returned. The serial transfer of each nibble (`rs5c313_write`, `rs5c313_read_data`) is one register access.
- **SH03 RTC time reads**: `sh03_rtc_get_rtc_time` reads the counters with no update check (`rtc_is_updating` is compiled out), so a carry can tear its read, unlike the RS5C313 driver's. It belongs with the SH03 time ioctls above and is not modelled yet.
- **SRAT hot-add reservation** (`reserve_hotadd`, `hotadd_enough_memory`, `srat_reserve_add_area`): built only with ACPI memory hotplug and without `CONFIG_MEMORY_HOTPLUG`, and used only with a nonzero `hotadd_percent`. It depends on `find_e820_area` and bootmem, outside the tree. `numa_off` only disables everything.
- **Voyager I2C**: the interrupt handler and IRQ setup are compiled out (`I2C_USE_INTR` is not defined), `i2c_voyager_del_bus` has no caller, and `iic_func` only returns flags. The I2C_RETRIES ioctl of the i2c core, which can set `adap->retries` to 0, is outside the tree.
- **Voyager GX sound**:
  - the ioctls other than -1 and STEREO only set the rate or format or return constants, and the rate matters only through the nondeterministic timeout;
  - read, poll and mmap do nothing, and the mixer forwards to the AC97 code;
  - probe, init and cleanup, and the 8051 loader with its command retries, are register I/O, and the callers ignore a failed command;
  - `open` does not exclude a second opener, which resets every flag under a playing stream. Only one open file is modelled.
- **DAC**: the silence callback (ALSA calls it only with a nonzero silence size), `set_rate`, probe and remove.
- **PCMCIA socket**: `hd64461_init_socket` and module init (IRQ request and registration, taken as done in `Init`), the IRQ demux chip and the static I/O and memory windows of `set_io_map`/`set_mem_map`.
- **Framebuffers, flash maps, IDE/NE2000/OHCI glue and board setup**: one-shot register programming with no state machine worth checking.
- The `ccid2_hc_tx_check_sanity` and debug output are compiled out. The sanity check's condition is `PipeMatchesWindow`.
