-------------------------------- MODULE Disk --------------------------------
(***************************************************************************)
(* The IDE disk driver of kernel/disk.c: disk_read and disk_write cut a    *)
(* call into DMA transfers through one buffer and poll the controller,     *)
(* with timeouts that count timer ticks.  In a page fault interrupts are   *)
(* off, and time stands still for the driver.                              *)
(*                                                                         *)
(* The drive and the bus master are an environment: a command may end well *)
(* or badly, late, or never.  A drive is busy until its command has ended, *)
(* the end of each command sets the interrupt bit of the bus master, and   *)
(* data moves only while the bus master is started.  One call at a time:   *)
(* proc1 is the only task that calls the driver.  ata_irq_handler only     *)
(* reads the drive's status, which changes nothing that the driver polls.  *)
(***************************************************************************)
EXTENDS Naturals, Sequences

CONSTANTS
  SECTORS,               \* sectors of the disk
  DISK_DMA_MAX_SECTORS,  \* sectors of dma_buffer
  MAX_COUNT,             \* bound: sectors of the longest call
  IF_VALUES,             \* TRUE: system calls and boot; FALSE: page faults
  TIMEOUT_TICKS,         \* ATA_BUSY_TIMEOUT_TICKS = ATA_DMA_TIMEOUT_TICKS
  TICK_RANGE             \* timer_ticks wraps here (2^32 in the kernel)

ASSUME DiskAssumption ==
  /\ SECTORS \in Nat /\ DISK_DMA_MAX_SECTORS \in Nat \ {0} /\ MAX_COUNT \in Nat
  /\ IF_VALUES \subseteq BOOLEAN
  /\ TIMEOUT_TICKS \in Nat \ {0}
  /\ TICK_RANGE \in Nat /\ TICK_RANGE > TIMEOUT_TICKS

VARIABLES
  disk,       \* the contents of the sectors, as the drive would return them
  dirty,      \* sectors that are only in the drive's cache
  drive,      \* the command the drive works on
  status,     \* ATA_STATUS_ERROR or ATA_STATUS_FAULT
  bm_start, bm_irq, bm_err,  \* BM_COMMAND_START, BM_STATUS_IRQ_COMPLETED, BM_STATUS_ERROR
  dma_buffer,
  timer_ticks,
  interrupts,  \* the flag IF during the call
  pc, stage,   \* where the driver is, and which of its waits it is in
  is_write, lba, count, remaining,
  out,         \* what disk_read has copied to its caller
  start,       \* the local start of the wait
  ata_status,  \* the local ata_status of ata_wait4_dma
  ok           \* what the transfer, and in the end the call, returns

controller == <<drive, status, bm_start, bm_irq, bm_err>>
media == <<disk, dirty>>
call == <<interrupts, is_write, lba, count>>
vars == <<media, controller, dma_buffer, timer_ticks, call, pc, stage, remaining, out,
          start, ata_status, ok>>

Sector == 0..(SECTORS - 1)
Slot == 0..(DISK_DMA_MAX_SECTORS - 1)

(* What a sector holds at first, and what callers write to it.             *)
Old(s) == <<"old", s>>
New(s) == <<"new", s>>
Value == {Old(s) : s \in Sector} \cup {New(s) : s \in Sector} \cup {<<"boot", 0>>}

NoCommand == [name |-> "none", lba |-> 0, sectors |-> 0, moved |-> 0]

(* init_disk has found the controller.                                     *)
Init ==
  /\ disk = [s \in Sector |-> Old(s)] /\ dirty = {}
  /\ drive = NoCommand /\ status = FALSE
  /\ bm_start = FALSE /\ bm_irq = FALSE /\ bm_err = FALSE
  /\ dma_buffer = [i \in Slot |-> <<"boot", 0>>]
  /\ timer_ticks = 0 /\ interrupts = TRUE
  /\ pc = "idle" /\ stage = "before"
  /\ is_write = FALSE /\ lba = 0 /\ count = 0 /\ remaining = 0 /\ out = <<>>
  /\ start = 0 /\ ata_status = FALSE /\ ok = FALSE

----------------------------------------------------------------------------
(* The environment.                                                        *)

Busy == drive.name # "none"

(* One sector goes through the bus master.                                 *)
Move ==
  /\ drive.name \in {"read", "write"}
  /\ bm_start /\ ~bm_err
  /\ drive.moved < drive.sectors
  /\ LET s == drive.lba + drive.moved
     IN  IF drive.name = "read"
         THEN /\ dma_buffer' = [dma_buffer EXCEPT ![drive.moved] = disk[s]]
              /\ UNCHANGED media
         ELSE /\ disk' = [disk EXCEPT ![s] = dma_buffer[drive.moved]]
              /\ dirty' = dirty \cup {s}
              /\ UNCHANGED dma_buffer
  /\ drive' = [drive EXCEPT !.moved = @ + 1]
  /\ UNCHANGED <<status, bm_start, bm_irq, bm_err, timer_ticks, call, pc, stage, remaining,
                 out, start, ata_status, ok>>

EndCommand(error) ==
  /\ drive' = NoCommand
  /\ status' = error
  /\ bm_irq' = TRUE
  /\ UNCHANGED <<disk, bm_start, bm_err, dma_buffer, timer_ticks, call, pc, stage, remaining,
                 out, start, ata_status, ok>>

Complete ==
  /\ Busy
  /\ drive.moved = drive.sectors
  /\ dirty' = IF drive.name = "flush" THEN {} ELSE dirty
  /\ EndCommand(FALSE)

FailCommand ==
  /\ Busy
  /\ UNCHANGED dirty
  /\ EndCommand(TRUE)

(* The bus master was stopped half way: the drive gives up, in whatever    *)
(* way.                                                                    *)
Abandon ==
  /\ Busy /\ ~bm_start
  /\ drive.name # "flush"
  /\ UNCHANGED dirty
  /\ EndCommand(FALSE)

BusError ==
  /\ drive.name \in {"read", "write"}
  /\ bm_start /\ ~bm_err
  /\ bm_err' = TRUE
  /\ UNCHANGED <<media, drive, status, bm_start, bm_irq, dma_buffer, timer_ticks, call, pc,
                 stage, remaining, out, start, ata_status, ok>>

Answer == Move \/ Complete \/ FailCommand

Waiting == pc \in {"time", "poll", "poll_bm"}

(* Mutant of Elapsed: the difference does not wrap.                        *)
ElapsedNoWrap == IF timer_ticks < start THEN 0 ELSE timer_ticks - start

Elapsed == (timer_ticks + TICK_RANGE - start) % TICK_RANGE

(* The timer interrupt.  The driver polls at least once in TICK_RANGE      *)
(* ticks (497 days at the 100 Hz of timer.h).                              *)
Tick ==
  /\ pc # "idle" => interrupts
  /\ Waiting => (timer_ticks + 1) % TICK_RANGE # start
  /\ timer_ticks' = (timer_ticks + 1) % TICK_RANGE
  /\ UNCHANGED <<media, controller, dma_buffer, call, pc, stage, remaining, out, start,
                 ata_status, ok>>

----------------------------------------------------------------------------
(* disk_read and disk_write.                                               *)

Chunk == IF remaining > DISK_DMA_MAX_SECTORS THEN DISK_DMA_MAX_SECTORS ELSE remaining
Done == count - remaining

(* disk_read or disk_write is called, with interrupts on or off.           *)
Call(w, l, n, i) ==
  /\ pc = "idle"
  /\ l + n <= SECTORS
  /\ is_write' = w /\ lba' = l /\ count' = n /\ interrupts' = i
  /\ remaining' = n
  /\ out' = <<>>
  /\ ok' = FALSE
  /\ pc' = "chunk"
  /\ UNCHANGED <<media, controller, dma_buffer, timer_ticks, stage, start, ata_status>>

(* The locals of the waits end with the call; a caller whose read failed   *)
(* has nothing.                                                            *)
Return(result) ==
  /\ pc' = "idle" /\ ok' = result
  /\ stage' = "before" /\ start' = 0 /\ remaining' = 0
  /\ out' = IF result THEN out ELSE <<>>

EnterWait(s) == pc' = "time" /\ stage' = s /\ start' = timer_ticks

(* while (remaining): disk_write fills the buffer before the transfer.     *)
NextChunk ==
  /\ pc = "chunk"
  /\ remaining > 0
  /\ dma_buffer' = IF is_write
                   THEN [i \in Slot |-> IF i < Chunk THEN New(lba + Done + i) ELSE dma_buffer[i]]
                   ELSE dma_buffer
  /\ EnterWait("before")
  /\ UNCHANGED <<media, controller, timer_ticks, call, remaining, out, ata_status, ok>>

AllDone ==
  /\ pc = "chunk"
  /\ remaining = 0
  /\ Return(TRUE)
  /\ UNCHANGED <<media, controller, dma_buffer, timer_ticks, call, ata_status>>

(* The transfer succeeded: disk_read copies the buffer.                    *)
ChunkDone ==
  /\ pc' = "chunk"
  /\ remaining' = remaining - Chunk
  /\ out' = IF is_write THEN out ELSE out \o [i \in 1..Chunk |-> dma_buffer[i - 1]]

----------------------------------------------------------------------------
(* ata_wait4_not_busy (before the transfer, after it and after the flush)  *)
(* and ata_wait4_dma.                                                      *)

(* The condition of the loop.                                              *)
CheckTime ==
  /\ pc = "time"
  /\ IF Elapsed < TIMEOUT_TICKS \/ stage = "dma"
     THEN /\ pc' = IF Elapsed < TIMEOUT_TICKS THEN "poll" ELSE "stop"
          /\ ok' = FALSE
          /\ UNCHANGED <<stage, start, remaining, out>>
     ELSE Return(FALSE)
  /\ UNCHANGED <<media, controller, dma_buffer, timer_ticks, call, ata_status>>

AfterWait == [before |-> "program", after |-> "verify", flush |-> "verify_flush"]

PollBusy ==
  /\ pc = "poll"
  /\ stage # "dma"
  /\ pc' = IF Busy THEN "time" ELSE AfterWait[stage]
  /\ UNCHANGED <<media, controller, dma_buffer, timer_ticks, call, stage, remaining, out,
                 start, ata_status, ok>>

(* Mutant of PollStatus: the poll acknowledges the interrupt.              *)
PollStatusAcks ==
  /\ pc = "poll"
  /\ stage = "dma"
  /\ ata_status' = status
  /\ bm_irq' = FALSE
  /\ pc' = "poll_bm"
  /\ UNCHANGED <<media, drive, status, bm_start, bm_err, dma_buffer, timer_ticks, call, stage,
                 remaining, out, start, ok>>

(* ata_wait4_dma reads the drive's status first,                           *)
PollStatus ==
  /\ pc = "poll"
  /\ stage = "dma"
  /\ ata_status' = status
  /\ pc' = "poll_bm"
  /\ UNCHANGED <<media, controller, dma_buffer, timer_ticks, call, stage, remaining, out,
                 start, ok>>

(* then that of the bus master, which may be newer.                        *)
PollBusMaster ==
  /\ pc = "poll_bm"
  /\ pc' = IF ata_status \/ bm_err \/ bm_irq THEN "stop" ELSE "time"
  /\ ok' = (~ata_status /\ ~bm_err /\ bm_irq)
  /\ ata_status' = FALSE
  /\ UNCHANGED <<media, controller, dma_buffer, timer_ticks, call, stage, remaining, out,
                 start>>

----------------------------------------------------------------------------
(* ata_dma_transfer.                                                       *)

(* Mutant of Program: the bits of the last transfer are not cleared.       *)
ProgramKeepsStatus ==
  /\ pc = "program"
  /\ bm_start' = TRUE /\ UNCHANGED <<bm_irq, bm_err>>
  /\ status' = FALSE
  /\ drive' = [name |-> IF is_write THEN "write" ELSE "read",
               lba |-> lba + Done, sectors |-> Chunk, moved |-> 0]
  /\ EnterWait("dma")
  /\ UNCHANGED <<media, dma_buffer, timer_ticks, call, remaining, out, ata_status, ok>>

(* The registers of the bus master and the drive, the drive being idle;    *)
(* its command register last.  (Block numbers have 16 bits, so that the 28 *)
(* bits of the drive's address are enough.)                                *)
Program ==
  /\ pc = "program"
  /\ bm_start' = TRUE /\ bm_irq' = FALSE /\ bm_err' = FALSE
  /\ status' = FALSE
  /\ drive' = [name |-> IF is_write THEN "write" ELSE "read",
               lba |-> lba + Done, sectors |-> Chunk, moved |-> 0]
  /\ EnterWait("dma")
  /\ UNCHANGED <<media, dma_buffer, timer_ticks, call, remaining, out, ata_status, ok>>

(* Mutant of Stop: after a failure the bus master goes on.                 *)
StopOnSuccess ==
  /\ pc = "stop"
  /\ bm_start' = IF ok THEN FALSE ELSE bm_start
  /\ IF ok THEN EnterWait("after") /\ UNCHANGED <<remaining, out, ok>> ELSE Return(FALSE)
  /\ UNCHANGED <<media, drive, status, bm_irq, bm_err, dma_buffer, timer_ticks, call,
                 ata_status>>

(* The bus master is stopped, whatever ata_wait4_dma has returned.         *)
Stop ==
  /\ pc = "stop"
  /\ bm_start' = FALSE
  /\ IF ok THEN EnterWait("after") /\ UNCHANGED <<remaining, out, ok>> ELSE Return(FALSE)
  /\ UNCHANGED <<media, drive, status, bm_irq, bm_err, dma_buffer, timer_ticks, call,
                 ata_status>>

(* Mutant of Verify: the drive's status is not looked at again.            *)
VerifyBusMaster ==
  /\ pc = "verify"
  /\ bm_irq' = FALSE /\ bm_err' = FALSE
  /\ IF bm_err THEN Return(FALSE) /\ UNCHANGED <<drive, status>>
     ELSE IF is_write
     THEN /\ drive' = [NoCommand EXCEPT !.name = "flush"]
          /\ status' = FALSE
          /\ EnterWait("flush")
          /\ UNCHANGED <<remaining, out, ok>>
     ELSE ChunkDone /\ UNCHANGED <<drive, status, stage, start, ok>>
  /\ UNCHANGED <<media, bm_start, dma_buffer, timer_ticks, call, ata_status>>

(* Both status registers again, now that the drive is idle; a write goes   *)
(* on with the flush of the drive's cache.                                 *)
Verify ==
  /\ pc = "verify"
  /\ bm_irq' = FALSE /\ bm_err' = FALSE
  /\ IF status \/ bm_err
     THEN Return(FALSE) /\ UNCHANGED <<drive, status>>
     ELSE IF is_write
     THEN /\ drive' = [NoCommand EXCEPT !.name = "flush"]
          /\ status' = FALSE
          /\ EnterWait("flush")
          /\ UNCHANGED <<remaining, out, ok>>
     ELSE ChunkDone /\ UNCHANGED <<drive, status, stage, start, ok>>
  /\ UNCHANGED <<media, bm_start, dma_buffer, timer_ticks, call, ata_status>>

VerifyFlush ==
  /\ pc = "verify_flush"
  /\ IF status THEN Return(FALSE)
     ELSE ChunkDone /\ UNCHANGED <<ok, stage, start>>
  /\ UNCHANGED <<media, controller, dma_buffer, timer_ticks, call, ata_status>>

Driver ==
  \/ NextChunk \/ AllDone
  \/ CheckTime \/ PollBusy \/ PollStatus \/ PollBusMaster
  \/ Program \/ Stop \/ Verify \/ VerifyFlush

----------------------------------------------------------------------------
Next ==
  \/ \E w \in BOOLEAN, l \in Sector, n \in 0..MAX_COUNT, i \in IF_VALUES : Call(w, l, n, i)
  \/ NextChunk
  \/ AllDone
  \/ CheckTime
  \/ PollBusy
  \/ PollStatus
  \/ PollBusMaster
  \/ Program
  \/ Stop
  \/ Verify
  \/ VerifyFlush
  \/ Move
  \/ Complete
  \/ FailCommand
  \/ Abandon
  \/ BusError
  \/ Tick

(* The driver's code runs on, and the timer is periodic as long as         *)
(* interrupts are on.  Nothing is assumed of the drive.                    *)
Fairness == WF_vars(Driver) /\ WF_vars(Tick)

Spec == Init /\ [][Next]_vars /\ Fairness
----------------------------------------------------------------------------
(* Properties.                                                             *)

Asked == {s \in Sector : lba <= s /\ s < lba + count}

(* When disk_read returns 1, its caller has the sectors asked for, however *)
(* earlier calls ended, and although the two status registers are read one *)
(* after the other.                                                        *)
ReadCorrect ==
  (pc = "idle" /\ ok /\ ~is_write) =>
    Len(out) = count /\ \A i \in 1..count : out[i] = disk[lba + i - 1]

(* When disk_write returns 1, the sectors hold the caller's data, and not  *)
(* only in the drive's cache.                                              *)
WriteCorrect ==
  (pc = "idle" /\ ok /\ is_write) =>
    /\ \A i \in 0..(count - 1) : disk[lba + i] = New(lba + i)
    /\ Asked \cap dirty = {}

(* A sector changes only during a call of disk_write for it: a transfer    *)
(* that timed out neither writes to the disk nor into the buffer later,    *)
(* when the buffer belongs to the next call.                               *)
LateTransfersHarmless ==
  [][/\ \A s \in Sector : disk'[s] # disk[s] => pc # "idle" /\ is_write /\ s \in Asked
     /\ (dma_buffer' # dma_buffer /\ is_write) => pc = "chunk"]_vars

(* With interrupts on, every call returns, whatever the drive does, and    *)
(* also when timer_ticks wraps while it waits.                             *)
TimeoutReturns == (pc # "idle" /\ interrupts) ~> pc = "idle"

(* With interrupts off, in a page fault, nothing but the drive's answer    *)
(* ends a wait; if the drive answers every command, the call returns.      *)
AnswerReturns == WF_vars(Answer) => (pc # "idle" ~> pc = "idle")
=============================================================================
