------------------------------ MODULE VoyagerI2c ------------------------------
(***************************************************************************)
(* The Voyager GX I2C algorithm (drivers/i2c/algos/i2c-algo-voyager.c)     *)
(* with its bus driver (drivers/i2c/busses/i2c-voyager.c), built for the   *)
(* OV7640 camera (PACKET_SIZE 2, serial addresses 0x42/0x43) and without  *)
(* I2C_USE_INTR, so waitforpin is a udelay.                                *)
(*                                                                         *)
(* Two callers use the controller: process "tr" is i2c_transfer, which the *)
(* i2c core serialises on the adapter's bus lock and which calls iic_xfer; *)
(* process "ctl" is the I2C_SREAD ioctl, which the core passes to         *)
(* algo_control without taking that lock.  Each process is a program      *)
(* counter over the driver's polling loops; wait_for_bb and wait_for_pin  *)
(* are procedures with a return label (bbRet, pinRet).                    *)
(*                                                                         *)
(* The controller is the environment.  voyagergx_reg.h is not in the tree, *)
(* so its behaviour is taken to be: writing the start bit (iic_start)     *)
(* begins a transfer to the slave address in I2C_SADDRESS and sets BUSY;   *)
(* the transfer completes at any later time, or never, clearing BUSY and  *)
(* setting ACK only if a device at that address answered.                 *)
(***************************************************************************)
EXTENDS Integers

CONSTANTS DEF_TIMEOUT,  \* polls of wait_for_bb and wait_for_pin
          RETRIES,      \* adap->retries, set by i2c_voyager_add_bus
          PACKET_SIZE,  \* bytes the controller moves per transfer
          WRITE_ADDR,   \* SERIAL_WRITE_ADDR
          READ_ADDR,    \* SERIAL_READ_ADDR
          Acks,         \* serial addresses a device answers
          Msgs,         \* i2c_msg values i2c_transfer passes: [addr, rd, len]
          SreadLens     \* s_msg.len values of I2C_SREAD

Procs == {"tr", "ctl"}

EIO == -5
ETIMEDOUT == -110
EPROTO == -71
EREMOTEIO == -121

VARIABLES
  loaded,    \* i2c-voyager is loaded
  adapter,   \* its adapter is on the i2c core's list
  ctl,       \* I2C_CONTROL_STATUS (start) bit
  saddr,     \* I2C_SADDRESS
  busy,      \* I2C_STATUS_BUSY
  ack,       \* I2C_STATUS_ACK
  hwx,       \* the controller's transfer: "idle" or "run"
  xaddr,     \* serial address of the transfer last begun
  xowner,    \* the process whose iic_start began it
  pc,        \* each caller's place in the driver
  m,         \* the message of each caller's call
  loc,       \* the locals of each caller's call (see Frame)
  result,    \* value the last call of each process returned
  copied     \* bytes readbytes stored into the caller's buffer

hwVars == <<ctl, saddr, busy, ack, hwx, xaddr, xowner>>
procVars == <<pc, m, loc, result, copied>>
vars == <<loaded, adapter, hwVars, procVars>>

NoMsg == [addr |-> 0, rd |-> FALSE, len |-> 0]

\* The stack of a call: the timeout counters (t), try_address's i, the
\* return labels of wait_for_bb and wait_for_pin, their results, and the
\* status bits last read (sb: BUSY, sa: ACK).  It dies when the call
\* returns.
Frame == [t |-> 0, i |-> 0, bbRet |-> "idle", pinRet |-> "idle",
          bbFail |-> FALSE, pinFail |-> FALSE, sb |-> FALSE, sa |-> FALSE]

Init ==
  /\ loaded = FALSE /\ adapter = FALSE
  /\ ctl = FALSE /\ saddr = 0 /\ busy = FALSE /\ ack = FALSE
  /\ hwx = "idle" /\ xaddr = 0 /\ xowner = "tr"
  /\ pc = [p \in Procs |-> "idle"] /\ m = [p \in Procs |-> NoMsg]
  /\ loc = [p \in Procs |-> Frame]
  /\ result = [p \in Procs |-> 0] /\ copied = [p \in Procs |-> 0]

\* iic_start by process p with a in I2C_SADDRESS: the controller begins a
\* transfer to a.
Start(p, a) ==
  /\ ctl' = TRUE /\ saddr' = a
  /\ hwx' = "run" /\ busy' = TRUE /\ ack' = FALSE
  /\ xaddr' = a /\ xowner' = p

\* Process p moves to label l with locals f.
Goto(p, l, f) ==
  /\ pc' = [pc EXCEPT ![p] = l]
  /\ loc' = [loc EXCEPT ![p] = f]

\* Process p calls wait_for_bb, returning to r, with locals f: the first
\* status read.
CallBb(p, r, f) ==
  Goto(p, "bb", [f EXCEPT !.t = DEF_TIMEOUT, !.sb = busy, !.bbRet = r])

\* Process p calls wait_for_pin, returning to r; wait_for_pin begins by
\* calling wait_for_bb.
CallPin(p, r) == CallBb(p, "pin_poll", [loc[p] EXCEPT !.pinRet = r])

\* Process p returns v to its caller; algo_control returns 0 whatever its
\* readbytes returned.
Return(p, v) ==
  /\ Goto(p, "idle", Frame)
  /\ result' = [result EXCEPT ![p] = IF p = "ctl" THEN 0 ELSE v]
-----------------------------------------------------------------------------
(* Module load and unload: iic_voyagergx_init (iic_hw_resrc_init, then     *)
(* i2c_voyager_add_bus) and iic_voyagergx_exit, which frees the IRQ and   *)
(* the region but never calls i2c_voyager_del_bus.  The i2c core holds a  *)
(* module reference while a call runs, so unload waits for both callers.  *)

ModuleInit ==
  /\ ~loaded
  /\ loaded' = TRUE /\ adapter' = TRUE
  /\ UNCHANGED <<hwVars, procVars>>

ModuleExit ==
  /\ loaded /\ \A p \in Procs : pc[p] = "idle"
  /\ loaded' = FALSE
  /\ UNCHANGED <<adapter, hwVars, procVars>>

-----------------------------------------------------------------------------
(* wait_for_bb: while (timeout-- && (status & BUSY)) re-read the status;   *)
(* the post-decrement runs on every test, so the loop leaves with         *)
(* timeout one below the value it tested.                                 *)

\* Mutant: the loop re-reads the status without counting down.
BbPollNoCount(p) ==
  /\ pc[p] = "bb" /\ loc[p].t # 0 /\ loc[p].sb
  /\ loc' = [loc EXCEPT ![p].sb = busy]
  /\ UNCHANGED <<loaded, adapter, hwVars, pc, m, result, copied>>

BbPoll(p) ==
  /\ pc[p] = "bb" /\ loc[p].t # 0 /\ loc[p].sb
  /\ loc' = [loc EXCEPT ![p].t = @ - 1, ![p].sb = busy]
  /\ UNCHANGED <<loaded, adapter, hwVars, pc, m, result, copied>>

\* The loop ends; timeout <= 0 is reported.  The iic_reset it does then
\* clears I2C_RESET_ERROR, which nothing in the driver reads.
BbExit(p) ==
  LET f == loc[p]
      fail == f.t - 1 <= 0
  IN /\ pc[p] = "bb" /\ ~(f.t # 0 /\ f.sb)
     /\ Goto(p, f.bbRet, [f EXCEPT !.t = @ - 1, !.bbFail = fail])
     /\ UNCHANGED <<loaded, adapter, ctl, saddr, busy, ack, hwx, xaddr, xowner,
                    m, result, copied>>

(* wait_for_pin: -EIO if wait_for_bb timed out; otherwise the same loop   *)
(* on !(status & ACK), with waitforpin's udelay between reads.             *)

PinPoll(p) ==
  LET f == loc[p]
  IN /\ pc[p] = "pin_poll"
     /\ \/ f.bbFail /\ Goto(p, f.pinRet, [f EXCEPT !.pinFail = TRUE])
        \/ ~f.bbFail /\ Goto(p, "pin_loop", [f EXCEPT !.t = DEF_TIMEOUT, !.sa = ack])
     /\ UNCHANGED <<loaded, adapter, hwVars, m, result, copied>>

\* Mutant: the loop waits for BUSY to clear instead of for ACK.
PinLoopBusyBit(p) ==
  LET f == loc[p]
  IN /\ pc[p] = "pin_loop"
     /\ \/ /\ f.t # 0 /\ ~f.sa
           /\ loc' = [loc EXCEPT ![p].t = @ - 1, ![p].sa = ~busy]
           /\ UNCHANGED pc
        \/ /\ ~(f.t # 0 /\ ~f.sa)
           /\ Goto(p, f.pinRet, [f EXCEPT !.t = @ - 1, !.pinFail = f.t - 1 <= 0])
     /\ UNCHANGED <<loaded, adapter, hwVars, m, result, copied>>

PinLoop(p) ==
  LET f == loc[p]
  IN /\ pc[p] = "pin_loop"
     /\ \/ /\ f.t # 0 /\ ~f.sa
           /\ loc' = [loc EXCEPT ![p].t = @ - 1, ![p].sa = ack]
           /\ UNCHANGED pc
        \/ /\ ~(f.t # 0 /\ ~f.sa)
           /\ Goto(p, f.pinRet, [f EXCEPT !.t = @ - 1, !.pinFail = f.t - 1 <= 0])
     /\ UNCHANGED <<loaded, adapter, hwVars, m, result, copied>>

-----------------------------------------------------------------------------
(* iic_xfer with the i2c core's message, only msgs[0] of it.               *)

\* A zero-length message is refused.
XferEmpty(msg) ==
  /\ adapter /\ pc["tr"] = "idle" /\ msg.len = 0
  /\ m' = [m EXCEPT !["tr"] = msg] /\ copied' = [copied EXCEPT !["tr"] = 0]
  /\ Return("tr", EIO)
  /\ UNCHANGED <<loaded, adapter, hwVars>>

\* Otherwise wait for any pending transfer to complete.
XferBegin(msg) ==
  /\ adapter /\ pc["tr"] = "idle" /\ msg.len # 0
  /\ m' = [m EXCEPT !["tr"] = msg] /\ copied' = [copied EXCEPT !["tr"] = 0]
  /\ CallBb("tr", "x_addr", Frame)
  /\ UNCHANGED <<loaded, adapter, hwVars, result>>

\* iic_doAddress: the address register is compared with addr << 1 and,
\* when it differs, rewritten and probed by try_address.
XferAddress ==
  LET a == 2 * m["tr"].addr
      f == loc["tr"]
  IN /\ pc["tr"] = "x_addr"
     /\ \/ f.bbFail /\ Return("tr", EIO) /\ UNCHANGED saddr
        \/ /\ ~f.bbFail /\ saddr # a
           /\ saddr' = a
           /\ Goto("tr", "try", [f EXCEPT !.i = 0]) /\ UNCHANGED result
        \/ /\ ~f.bbFail /\ saddr = a
           /\ Goto("tr", "x_data", f) /\ UNCHANGED <<saddr, result>>
     /\ UNCHANGED <<loaded, adapter, ctl, busy, ack, hwx, xaddr, xowner,
                    m, copied>>

\* try_address: up to RETRIES times, write the address, start and wait for
\* the pin; -1 when every try failed, which iic_xfer returns as -EIO.
\* Mutant: for (i = 0; i <= retries; i++).
TryAddressOneMore ==
  /\ pc["tr"] = "try"
  /\ \/ /\ loc["tr"].i <= RETRIES
        /\ Start("tr", 2 * m["tr"].addr)
        /\ CallPin("tr", "try_ret")
        /\ UNCHANGED result
     \/ /\ loc["tr"].i > RETRIES
        /\ Return("tr", EIO)
        /\ UNCHANGED hwVars
  /\ UNCHANGED <<loaded, adapter, m, copied>>

TryAddress ==
  /\ pc["tr"] = "try"
  /\ \/ /\ loc["tr"].i < RETRIES
        /\ Start("tr", 2 * m["tr"].addr)
        /\ CallPin("tr", "try_ret")
        /\ UNCHANGED result
     \/ /\ loc["tr"].i >= RETRIES
        /\ Return("tr", EIO)
        /\ UNCHANGED hwVars
  /\ UNCHANGED <<loaded, adapter, m, copied>>

\* A try that got the pin succeeds and breaks out, leaving the bus
\* started; a failed one is stopped.
TryResult ==
  LET f == loc["tr"]
  IN /\ pc["tr"] = "try_ret"
     /\ \/ ~f.pinFail /\ Goto("tr", "x_data", f) /\ UNCHANGED ctl
        \/ /\ f.pinFail
           /\ ctl' = FALSE
           /\ Goto("tr", "try", [f EXCEPT !.i = @ + 1])
     /\ UNCHANGED <<loaded, adapter, saddr, busy, ack, hwx, xaddr, xowner,
                    m, result, copied>>

\* The transfer proper: iic_readbytes, or iic_sendbytes, which refuses
\* any count but PACKET_SIZE and waits for the bus after loading
\* SERIAL_WRITE_ADDR.
XferData ==
  LET msg == m["tr"]
  IN /\ pc["tr"] = "x_data"
     /\ \/ msg.rd /\ Goto("tr", "rd", loc["tr"]) /\ UNCHANGED <<saddr, result>>
        \/ /\ ~msg.rd /\ msg.len # PACKET_SIZE
           /\ Return("tr", EPROTO) /\ UNCHANGED saddr
        \/ /\ ~msg.rd /\ msg.len = PACKET_SIZE
           /\ saddr' = WRITE_ADDR
           /\ CallBb("tr", "wr_bb", loc["tr"]) /\ UNCHANGED result
     /\ UNCHANGED <<loaded, adapter, ctl, busy, ack, hwx, xaddr, xowner,
                    m, copied>>

\* iic_sendbytes after wait_for_bb: -ETIMEDOUT, or the data registers are
\* loaded and the transfer started.
SendStart ==
  /\ pc["tr"] = "wr_bb"
  /\ \/ /\ loc["tr"].bbFail
        /\ Return("tr", ETIMEDOUT)
        /\ UNCHANGED hwVars
     \/ /\ ~loc["tr"].bbFail
        /\ Start("tr", WRITE_ADDR)
        /\ CallPin("tr", "wr_ret")
        /\ UNCHANGED result
  /\ UNCHANGED <<loaded, adapter, m, copied>>

\* The end of iic_sendbytes: stop, and -EREMOTEIO or the count written.
SendEnd ==
  /\ pc["tr"] = "wr_ret"
  /\ ctl' = FALSE
  /\ Return("tr", IF loc["tr"].pinFail THEN EREMOTEIO ELSE m["tr"].len)
  /\ UNCHANGED <<loaded, adapter, saddr, busy, ack, hwx, xaddr, xowner,
                 m, copied>>

-----------------------------------------------------------------------------
(* algo_control's I2C_SREAD and iic_readbytes, which both callers use.     *)

\* The ioctl copies the user's i2c_iic_msg and kmallocs s_msg.len bytes.
Sread(len) ==
  /\ adapter /\ pc["ctl"] = "idle"
  /\ m' = [m EXCEPT !["ctl"] = [addr |-> 0, rd |-> TRUE, len |-> len]]
  /\ copied' = [copied EXCEPT !["ctl"] = 0]
  /\ Goto("ctl", "rd", Frame)
  /\ UNCHANGED <<loaded, adapter, hwVars, result>>

\* iic_readbytes loads PACKET_SIZE - 1 and SERIAL_READ_ADDR and starts,
\* without waiting for the bus first.
ReadStart(p) ==
  /\ pc[p] = "rd"
  /\ Start(p, READ_ADDR)
  /\ CallPin(p, "rd_ret")
  /\ UNCHANGED <<loaded, adapter, m, result, copied>>

\* -EREMOTEIO after a stop, or PACKET_SIZE bytes are read into the
\* caller's buffer, whatever its length, and the bus is stopped.
ReadEnd(p) ==
  /\ pc[p] = "rd_ret"
  /\ ctl' = FALSE
  /\ \/ /\ loc[p].pinFail
        /\ Return(p, EREMOTEIO) /\ UNCHANGED copied
     \/ /\ ~loc[p].pinFail
        /\ copied' = [copied EXCEPT ![p] = PACKET_SIZE]
        /\ Return(p, PACKET_SIZE)
  /\ UNCHANGED <<loaded, adapter, saddr, busy, ack, hwx, xaddr, xowner, m>>

\* The controller ends the transfer it runs; the slave acknowledged it or
\* not, and one at an address nobody answers never does.
HwComplete ==
  /\ hwx = "run"
  /\ hwx' = "idle" /\ busy' = FALSE
  /\ ack' \in IF xaddr \in Acks THEN BOOLEAN ELSE {FALSE}
  /\ UNCHANGED <<loaded, adapter, ctl, saddr, xaddr, xowner, procVars>>

-----------------------------------------------------------------------------
\* A step of process p once called: the driver runs it to the end.
ProcStep(p) ==
  \/ BbPoll(p) \/ BbExit(p) \/ PinPoll(p) \/ PinLoop(p)
  \/ ReadStart(p) \/ ReadEnd(p)
  \/ p = "tr" /\ (XferAddress \/ TryAddress \/ TryResult \/ XferData
                  \/ SendStart \/ SendEnd)

Next ==
  \/ ModuleInit \/ ModuleExit \/ HwComplete
  \/ \E msg \in Msgs : XferEmpty(msg) \/ XferBegin(msg)
  \/ \E len \in SreadLens : Sread(len)
  \/ \E p \in Procs : ProcStep(p)

\* The polling loops busy-wait with udelay: a caller that is running keeps
\* running.  The controller may never finish a transfer, and nobody has to
\* call the driver.
Spec == Init /\ [][Next]_vars /\ \A p \in Procs : WF_vars(ProcStep(p))

-----------------------------------------------------------------------------
Labels == {"idle", "bb", "pin_poll", "pin_loop", "x_addr", "try", "try_ret",
           "x_data", "wr_bb", "wr_ret", "rd", "rd_ret"}

TypeOK ==
  /\ loaded \in BOOLEAN /\ adapter \in BOOLEAN
  /\ ctl \in BOOLEAN /\ busy \in BOOLEAN /\ ack \in BOOLEAN
  /\ hwx \in {"idle", "run"} /\ xowner \in Procs
  /\ pc \in [Procs -> Labels]
  /\ loc \in [Procs -> [t : -1 .. DEF_TIMEOUT, i : 0 .. RETRIES,
                        bbRet : Labels, pinRet : Labels, bbFail : BOOLEAN,
                        pinFail : BOOLEAN, sb : BOOLEAN, sa : BOOLEAN]]
  /\ copied \in [Procs -> 0 .. PACKET_SIZE]

\* A read or write that iic_readbytes or iic_sendbytes is about to report
\* done, and whose transfer no other caller has replaced, was completed and
\* acknowledged by the slave at the serial address it used: the polling
\* loops of wait_for_bb and wait_for_pin never end in success without an
\* ACK read.
SuccessMeansAcked ==
  \A p \in Procs :
     (pc[p] \in {"rd_ret", "wr_ret"} /\ ~loc[p].pinFail /\ xowner = p)
       => /\ hwx = "idle" /\ ack
          /\ xaddr = IF pc[p] = "rd_ret" THEN READ_ADDR ELSE WRITE_ADDR

\* Every call into the algorithm returns, even when the controller never
\* ends a transfer: the DEF_TIMEOUT bounds of both polling loops and the
\* retries of try_address.
CallsReturn == \A p \in Procs : pc[p] # "idle" ~> pc[p] = "idle"

(* The properties below are what the code's callers assume and the code   *)
(* does not give; they are checked under the further configurations.      *)

\* A caller that wait_for_pin told its transfer was acknowledged began the
\* transfer it was told about: an I2C_SREAD, which takes no bus lock, never
\* restarts the controller under an iic_xfer.
OwnAck ==
  \A p \in Procs :
     (pc[p] \in {"try_ret", "rd_ret", "wr_ret"} /\ ~loc[p].pinFail) => xowner = p

\* wait_for_bb reports a timeout only when the status it read last was
\* BUSY, and wait_for_pin only when the status it read last had no ACK.
TimeoutMeansNoAnswer ==
  [][\A p \in Procs :
       /\ (pc[p] = "bb" /\ pc'[p] # "bb" /\ loc'[p].bbFail) => loc[p].sb
       /\ (pc[p] = "pin_loop" /\ pc'[p] # "pin_loop" /\ loc'[p].pinFail)
            => ~loc[p].sa]_vars

\* iic_readbytes stores no more bytes than the caller's buffer holds (the
\* i2c_msg's len, or the s_msg.len bytes algo_control kmallocs).
NoBufferOverrun == \A p \in Procs : copied[p] <= m[p].len

\* When no call is in the driver the controller is stopped: every way out
\* of iic_xfer after a start has issued iic_stop.
StoppedWhenIdle == (\A p \in Procs : pc[p] = "idle") => ~ctl

\* The data phase of iic_xfer addresses the slave the i2c_msg names.
DataAtMsgAddress ==
  (pc["tr"] \in {"rd_ret", "wr_ret"} /\ xowner = "tr")
    => xaddr = 2 * m["tr"].addr + (IF m["tr"].rd THEN 1 ELSE 0)
====
