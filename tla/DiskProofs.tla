----------------------------- MODULE DiskProofs -----------------------------
(***************************************************************************)
(* Proofs about Disk: a call of disk_read or disk_write that reports       *)
(* success has done what it was asked for, and a transfer that timed out   *)
(* does no harm later, for every size of disk and buffer, every length of  *)
(* call, and every timeout.  Then about Pci, from which init_disk gets the *)
(* controller: for every machine it is the first one on the bus, with its  *)
(* own registers, and the only change to configuration space is its bus    *)
(* master bit.                                                             *)
(***************************************************************************)
EXTENDS Disk, Pci, Integers, SequenceTheorems, WellFoundedInduction, TLAPS

----------------------------------------------------------------------------
(* The inductive invariant.                                                *)

(* Every variable keeps its type; a call stays on the disk.                *)
DataOK ==
  /\ disk \in [Sector -> Value] /\ dirty \subseteq Sector
  /\ dma_buffer \in [Slot -> Value]
  /\ drive \in [name : {"none", "read", "write", "flush"}, lba : Nat, sectors : Nat, moved : Nat]
  /\ pc \in {"idle", "chunk", "time", "poll", "poll_bm", "program", "stop", "verify",
             "verify_flush"}
  /\ stage \in {"before", "dma", "after", "flush"}
  /\ lba \in Nat /\ count \in Nat /\ remaining \in 0..count
  /\ lba + count <= SECTORS
  /\ out \in Seq(Value)

FlagsOK ==
  /\ is_write \in BOOLEAN /\ ok \in BOOLEAN
  /\ status \in BOOLEAN /\ ata_status \in BOOLEAN
  /\ bm_start \in BOOLEAN /\ bm_irq \in BOOLEAN /\ bm_err \in BOOLEAN

TypeOK == DataOK /\ FlagsOK

(* A transfer is under way: between NextChunk and ChunkDone.               *)
Transfer == pc \notin {"idle", "chunk"}

(* Which wait the driver is in at which of its steps.                      *)
ControlInv ==
  /\ Transfer => remaining > 0
  /\ pc = "idle" => remaining = 0
  /\ pc \in {"poll_bm", "stop"} => stage = "dma"
  /\ pc = "program" => stage = "before"
  /\ pc = "verify" => stage = "after"
  /\ pc = "verify_flush" => stage = "flush"
  /\ (Transfer /\ stage = "flush") => is_write

(* The first n sectors of the transfer are where they belong.              *)
Moved(n) ==
  \A i \in 0..(n - 1) :
    IF is_write THEN disk[lba + Done + i] = New(lba + Done + i)
    ELSE dma_buffer[i] = disk[lba + Done + i]

(* The drive works on the driver's own command.                            *)
OwnCommand ==
  /\ drive.name = IF is_write THEN "write" ELSE "read"
  /\ drive.lba = lba + Done
  /\ drive.sectors = Chunk
  /\ drive.moved <= Chunk
  /\ Moved(drive.moved)

Ended == drive.name = "none"

(* The bus master runs only while the driver waits for its own command;    *)
(* the interrupt bit then says that the command has ended, and the status  *)
(* how.  A command of an earlier call may last until the driver programs   *)
(* the next one, and moves nothing.                                        *)
DriveInv ==
  /\ bm_start <=> (Transfer /\ stage = "dma")
  /\ (Transfer /\ stage = "dma") =>
       \/ OwnCommand /\ ~bm_irq
       \/ Ended /\ (~status => Moved(Chunk))
  /\ (pc = "stop" /\ ok) => bm_irq
  /\ pc = "program" => Ended
  /\ (Transfer /\ stage = "after") => Ended /\ (~status => Moved(Chunk))
  /\ (Transfer /\ stage = "flush") =>
       /\ Moved(Chunk)
       /\ drive.name = "flush" \/ (Ended /\ (~status => dirty = {}))
  /\ pc = "verify_flush" => Ended

(* disk_write has filled the buffer, and nothing overwrites it.            *)
BufferInv ==
  (Transfer /\ is_write) => \A i \in 0..(Chunk - 1) : dma_buffer[i] = New(lba + Done + i)

(* What the transfers that are done have achieved; after the call, as far  *)
(* as it reports success.                                                  *)
ProgressInv ==
  (pc = "idle" => ok) =>
    IF is_write
    THEN \A i \in 0..(Done - 1) : disk[lba + i] = New(lba + i) /\ lba + i \notin dirty
    ELSE Len(out) = Done /\ \A i \in 1..Done : out[i] = disk[lba + i - 1]

Inv == TypeOK /\ ControlInv /\ DriveInv /\ BufferInv /\ ProgressInv

----------------------------------------------------------------------------
LEMMA NewValue ==
  ASSUME NEW s \in Sector
  PROVE  New(s) \in Value
BY DEF Value

(* A transfer fits in the buffer and in what is left of the call.          *)
LEMMA ChunkFits ==
  ASSUME TypeOK
  PROVE  /\ Chunk \in Nat /\ Done \in Nat
         /\ Chunk <= remaining /\ Chunk <= DISK_DMA_MAX_SECTORS
         /\ remaining > 0 => Chunk > 0
         /\ Done + remaining = count
         /\ lba \in Nat /\ count \in Nat /\ remaining \in Nat /\ lba + count <= SECTORS
         /\ SECTORS \in Nat /\ DISK_DMA_MAX_SECTORS \in Nat
BY DiskAssumption DEF TypeOK, DataOK, Chunk, Done

LEMMA InitInv == Init => Inv
<1> SUFFICES ASSUME Init PROVE Inv
  OBVIOUS
<1>1. DataOK
  <2>1. disk \in [Sector -> Value] /\ dirty \subseteq Sector /\ dma_buffer \in [Slot -> Value]
    BY DEF Init, Value
  <2>2. drive \in [name : {"none", "read", "write", "flush"}, lba : Nat, sectors : Nat, moved : Nat]
    BY DEF Init, NoCommand
  <2>3. lba \in Nat /\ count \in Nat /\ remaining \in 0..count /\ lba + count <= SECTORS
    BY DiskAssumption DEF Init
  <2> QED
    BY <2>1, <2>2, <2>3 DEF Init, DataOK
<1>2. FlagsOK
  BY Zenon DEF Init, FlagsOK
<1>3. ControlInv
  BY DEF Init, ControlInv, Transfer
<1>4. DriveInv
  BY DEF Init, DriveInv, Transfer
<1>5. BufferInv
  BY DEF Init, BufferInv, Transfer
<1>6. ProgressInv
  BY DEF Init, ProgressInv
<1> QED
  BY <1>1, <1>2, <1>3, <1>4, <1>5, <1>6 DEF Inv, TypeOK

----------------------------------------------------------------------------
(* The steps of the driver.                                                *)

LEMMA CallStep ==
  ASSUME Inv, NEW w \in BOOLEAN, NEW l \in Sector, NEW n \in 0..MAX_COUNT, NEW i \in IF_VALUES,
         Call(w, l, n, i)
  PROVE  Inv'
<1>1. DataOK'
  BY DiskAssumption DEF Inv, TypeOK, DataOK, Call, media, controller, Sector
<1>2. FlagsOK'
  BY Zenon DEF Inv, TypeOK, FlagsOK, Call, controller
<1>3. ControlInv' /\ BufferInv' /\ DriveInv'
  <2>1. ~Transfer /\ ~Transfer' /\ pc' = "chunk"
    BY DEF Transfer, Call
  <2>2. ~bm_start /\ bm_start' = bm_start
    BY <2>1, Zenon DEF Inv, DriveInv, Call, controller
  <2> QED
    BY <2>1, <2>2 DEF ControlInv, DriveInv, BufferInv
<1>4. ProgressInv'
  BY DEF ProgressInv, Done, Call
<1> QED
  BY <1>1, <1>2, <1>3, <1>4 DEF Inv, TypeOK

LEMMA NextChunkStep == Inv /\ NextChunk => Inv'
<1> SUFFICES ASSUME Inv, NextChunk PROVE Inv'
  OBVIOUS
<1> USE DEF Inv
<1>1. TypeOK /\ remaining > 0
  BY DEF NextChunk
<1>2. UNCHANGED <<Chunk, Done, lba, is_write, bm_start>>
  BY DEF NextChunk, Chunk, Done, call, controller
<1>3. dma_buffer' \in [Slot -> Value]
  <2>1. ASSUME NEW i \in Slot, i < Chunk PROVE New(lba + Done + i) \in Value
    <3>1. lba + Done + i \in Sector
      BY <2>1, <1>1, ChunkFits DEF Slot, Sector
    <3> QED
      BY <3>1, NewValue
  <2>2. CASE is_write
    BY <2>1, <2>2 DEF NextChunk, TypeOK, DataOK
  <2>3. CASE ~is_write
    BY <2>3 DEF NextChunk, TypeOK, DataOK
  <2> QED
    BY <2>2, <2>3
<1>4. DataOK'
  BY <1>3 DEF TypeOK, DataOK, NextChunk, media, controller, call, EnterWait
<1>5. FlagsOK'
  BY Zenon DEF TypeOK, FlagsOK, NextChunk, controller, call
<1>6. ControlInv' /\ DriveInv'
  BY <1>2 DEF ControlInv, DriveInv, Transfer, NextChunk, EnterWait, controller
<1>7. BufferInv'
  <2> SUFFICES ASSUME is_write, NEW i \in 0..(Chunk - 1)
               PROVE  dma_buffer'[i] = New(lba + Done + i)
    BY <1>2 DEF BufferInv
  <2>1. i \in Slot /\ i < Chunk
    BY <1>1, ChunkFits DEF Slot
  <2> QED
    BY <2>1 DEF NextChunk
<1>8. ProgressInv'
  BY <1>2 DEF ProgressInv, NextChunk, EnterWait, media
<1> QED
  BY <1>4, <1>5, <1>6, <1>7, <1>8 DEF TypeOK

(* What a step that leaves the media, the buffer and the place in the call *)
(* alone cannot disturb.                                                   *)
LEMMA FrameStep ==
  ASSUME UNCHANGED <<disk, dma_buffer, is_write, lba, count, remaining>>
  PROVE  /\ UNCHANGED <<Chunk, Done>>
         /\ \A n : Moved(n)' <=> Moved(n)
<1>1. UNCHANGED <<Chunk, Done>>
  BY DEF Chunk, Done
<1> QED
  BY <1>1 DEF Moved

(* A return without success promises nothing.                              *)
LEMMA FailStep ==
  ASSUME Inv, Return(FALSE), UNCHANGED <<media, drive, status, dma_buffer, call>>,
         bm_start' = FALSE, bm_irq' \in BOOLEAN, bm_err' \in BOOLEAN, ata_status' \in BOOLEAN
  PROVE  Inv'
<1>1. DataOK'
  BY DEF Inv, TypeOK, DataOK, Return, media, call
<1>2. FlagsOK'
  BY Zenon DEF Inv, TypeOK, FlagsOK, Return, call
<1>3. ControlInv' /\ DriveInv' /\ BufferInv'
  BY DEF ControlInv, DriveInv, BufferInv, Transfer, Return
<1>4. ProgressInv'
  BY DEF ProgressInv, Return
<1> QED
  BY <1>1, <1>2, <1>3, <1>4 DEF Inv, TypeOK

LEMMA AllDoneStep == Inv /\ AllDone => Inv'
<1> SUFFICES ASSUME Inv, AllDone PROVE Inv'
  OBVIOUS
<1>1. DataOK'
  BY DEF Inv, TypeOK, DataOK, AllDone, Return, media, controller, call
<1>2. FlagsOK'
  BY Zenon DEF Inv, TypeOK, FlagsOK, AllDone, Return, call, controller
<1>3. ~bm_start /\ bm_start' = bm_start
  BY DEF Inv, DriveInv, Transfer, AllDone, controller
<1>4. ControlInv' /\ DriveInv' /\ BufferInv'
  BY <1>3 DEF ControlInv, DriveInv, BufferInv, Transfer, AllDone, Return
<1>5. ProgressInv'
  BY DEF Inv, ProgressInv, Done, AllDone, Return, media, call
<1> QED
  BY <1>1, <1>2, <1>4, <1>5 DEF Inv, TypeOK

(* The steps that only move the driver on in one of its waits.             *)
LEMMA WaitStep ==
  ASSUME Inv, Transfer, Transfer', UNCHANGED <<media, controller, dma_buffer, call>>,
         UNCHANGED <<stage, remaining, out>>,
         pc' \in {"time", "poll", "poll_bm", "program", "stop", "verify", "verify_flush"},
         ok' \in BOOLEAN, ata_status' \in BOOLEAN,
         ControlInv',
         (pc' = "stop" /\ ok') => bm_irq,
         pc' \in {"program", "verify_flush"} => Ended
  PROVE  Inv'
<1>1. DataOK'
  BY DEF Inv, TypeOK, DataOK, media, controller, call
<1>2. FlagsOK'
  BY Zenon DEF Inv, TypeOK, FlagsOK, call, controller
<1>3. UNCHANGED <<Chunk, Done>> /\ \A n : Moved(n)' <=> Moved(n)
  BY FrameStep DEF media, call
<1>4. UNCHANGED <<Ended, OwnCommand>>
  BY <1>3 DEF Ended, OwnCommand, controller, call
<1>5. DriveInv'
  BY <1>3, <1>4 DEF Inv, DriveInv, controller, media
<1>6. BufferInv'
  BY <1>3 DEF Inv, BufferInv, call
<1>7. ProgressInv'
  BY <1>3 DEF Inv, ProgressInv, Transfer, call, media
<1> QED
  BY <1>1, <1>2, <1>5, <1>6, <1>7 DEF Inv, TypeOK

LEMMA CheckTimeStep == Inv /\ CheckTime => Inv'
<1> SUFFICES ASSUME Inv, CheckTime PROVE Inv'
  OBVIOUS
<1>1. CASE Elapsed < TIMEOUT_TICKS \/ stage = "dma"
  <2>1. /\ Transfer /\ Transfer'
        /\ UNCHANGED <<media, controller, dma_buffer, call, stage, remaining, out, ata_status>>
        /\ pc' \in {"poll", "stop"} /\ (pc' = "stop" => stage = "dma")
        /\ ok' = FALSE
    BY <1>1 DEF CheckTime, Transfer
  <2>2. ata_status' \in BOOLEAN
    BY <2>1 DEF Inv, TypeOK, FlagsOK
  <2>3. ControlInv'
    BY <2>1 DEF Inv, ControlInv, call
  <2> QED
    BY <2>1, <2>2, <2>3, WaitStep
<1>2. CASE ~(Elapsed < TIMEOUT_TICKS \/ stage = "dma")
  <2>1. Return(FALSE) /\ UNCHANGED <<media, controller, dma_buffer, call, ata_status>>
    BY <1>2 DEF CheckTime
  <2>2. ~bm_start
    BY <1>2 DEF Inv, DriveInv
  <2>3. /\ bm_start' = FALSE /\ UNCHANGED <<drive, status>>
        /\ bm_irq' \in BOOLEAN /\ bm_err' \in BOOLEAN /\ ata_status' \in BOOLEAN
    BY <2>1, <2>2, Zenon DEF Inv, TypeOK, FlagsOK, controller
  <2> QED
    BY <2>1, <2>3, FailStep
<1> QED
  BY <1>1, <1>2

LEMMA PollBusyStep == Inv /\ PollBusy => Inv'
<1> SUFFICES ASSUME Inv, PollBusy PROVE Inv'
  OBVIOUS
<1>1. stage \in {"before", "after", "flush"}
  BY DEF Inv, TypeOK, DataOK, PollBusy
<1>2. /\ Transfer /\ Transfer'
      /\ UNCHANGED <<media, controller, dma_buffer, call, stage, remaining, out, ata_status, ok>>
      /\ pc' # "time" => Ended
      /\ \/ pc' = "time"
         \/ pc' = "program" /\ stage = "before"
         \/ pc' = "verify" /\ stage = "after"
         \/ pc' = "verify_flush" /\ stage = "flush"
  BY <1>1 DEF PollBusy, Transfer, Busy, Ended, AfterWait
<1>3. ok' \in BOOLEAN /\ ata_status' \in BOOLEAN
  BY <1>2 DEF Inv, TypeOK, FlagsOK
<1>4. ControlInv'
  BY <1>2 DEF Inv, ControlInv, call
<1> QED
  BY <1>2, <1>3, <1>4, WaitStep

LEMMA PollStatusStep == Inv /\ PollStatus => Inv'
<1> SUFFICES ASSUME Inv, PollStatus PROVE Inv'
  OBVIOUS
<1>1. /\ Transfer /\ Transfer' /\ pc' = "poll_bm" /\ stage = "dma"
      /\ UNCHANGED <<media, controller, dma_buffer, call, stage, remaining, out, ok>>
  BY DEF PollStatus, Transfer
<1>2. ok' \in BOOLEAN /\ ata_status' \in BOOLEAN
  BY Zenon DEF Inv, TypeOK, FlagsOK, PollStatus
<1>3. ControlInv'
  BY <1>1 DEF Inv, ControlInv, call
<1> QED
  BY <1>1, <1>2, <1>3, WaitStep

LEMMA PollBusMasterStep == Inv /\ PollBusMaster => Inv'
<1> SUFFICES ASSUME Inv, PollBusMaster PROVE Inv'
  OBVIOUS
<1>1. /\ Transfer /\ Transfer' /\ pc' \in {"stop", "time"} /\ stage = "dma"
      /\ UNCHANGED <<media, controller, dma_buffer, call, stage, remaining, out>>
  BY DEF Inv, ControlInv, PollBusMaster, Transfer
<1>2. ok' \in BOOLEAN /\ ata_status' \in BOOLEAN /\ (ok' => bm_irq)
  BY Zenon DEF Inv, TypeOK, FlagsOK, PollBusMaster
<1>3. ControlInv'
  BY <1>1 DEF Inv, ControlInv, call
<1> QED
  BY <1>1, <1>2, <1>3, WaitStep

LEMMA ProgramStep == Inv /\ Program => Inv'
<1> SUFFICES ASSUME Inv, Program PROVE Inv'
  OBVIOUS
<1>1. /\ Transfer /\ Transfer' /\ pc' = "time" /\ stage' = "dma"
      /\ UNCHANGED <<media, dma_buffer, call, remaining, out>>
      /\ bm_start' = TRUE /\ bm_irq' = FALSE /\ bm_err' = FALSE /\ status' = FALSE
  BY DEF Program, EnterWait, Transfer
<1>2. UNCHANGED <<Chunk, Done>> /\ \A n : Moved(n)' <=> Moved(n)
  BY <1>1, FrameStep DEF media, call
<1>3. Chunk \in Nat /\ Done \in Nat /\ lba \in Nat
  BY ChunkFits DEF Inv
<1>4. DataOK'
  <2>1. drive' \in [name : {"none", "read", "write", "flush"}, lba : Nat, sectors : Nat, moved : Nat]
    BY <1>3 DEF Program
  <2> QED
    BY <1>1, <2>1 DEF Inv, TypeOK, DataOK, media, call
<1>5. FlagsOK'
  BY Zenon DEF Inv, TypeOK, FlagsOK, Program, call
<1>6. ControlInv'
  BY <1>1 DEF Inv, ControlInv
<1>7. OwnCommand'
  <2>1. /\ drive'.lba = lba + Done /\ drive'.sectors = Chunk /\ drive'.moved = 0
        /\ drive'.name = IF is_write THEN "write" ELSE "read"
    BY DEF Program
  <2>2. Moved(drive.moved)'
    BY <2>1 DEF Moved
  <2> QED
    BY <1>1, <1>2, <1>3, <2>1, <2>2 DEF OwnCommand, call
<1>8. DriveInv'
  BY <1>1, <1>7 DEF DriveInv
<1>9. BufferInv' /\ ProgressInv'
  BY <1>1, <1>2 DEF Inv, BufferInv, ProgressInv, Transfer, call, media
<1> QED
  BY <1>4, <1>5, <1>6, <1>8, <1>9 DEF Inv, TypeOK

LEMMA StopStep == Inv /\ Stop => Inv'
<1> SUFFICES ASSUME Inv, Stop PROVE Inv'
  OBVIOUS
<1>1. CASE ~ok
  <2>1. /\ Return(FALSE) /\ bm_start' = FALSE
        /\ UNCHANGED <<media, drive, status, bm_irq, bm_err, dma_buffer, call, ata_status>>
    BY <1>1 DEF Stop
  <2> QED
    BY <2>1, FailStep DEF Inv, TypeOK, FlagsOK
<1>2. CASE ok
  <2>1. /\ Transfer /\ Transfer' /\ pc' = "time" /\ stage' = "after" /\ stage = "dma"
        /\ UNCHANGED <<media, drive, status, dma_buffer, call, remaining, out, ok>>
        /\ bm_start' = FALSE
    BY <1>2 DEF Inv, ControlInv, Stop, EnterWait, Transfer
  <2>2. UNCHANGED <<Chunk, Done>> /\ \A n : Moved(n)' <=> Moved(n)
    BY <2>1, FrameStep DEF media, call
  <2>3. DataOK'
    BY <2>1 DEF Inv, TypeOK, DataOK, media, call
  <2>4. FlagsOK'
    BY <1>2, <2>1, Zenon DEF Inv, TypeOK, FlagsOK, Stop, call
  <2>5. ControlInv'
    BY <2>1 DEF Inv, ControlInv
  <2>6. Ended /\ (~status => Moved(Chunk))
    BY <1>2, <2>1 DEF Inv, DriveInv, Stop
  <2>7. DriveInv'
    BY <2>1, <2>2, <2>6 DEF DriveInv, Ended
  <2>8. BufferInv' /\ ProgressInv'
    BY <2>1, <2>2 DEF Inv, BufferInv, ProgressInv, Transfer, call, media
  <2> QED
    BY <2>3, <2>4, <2>5, <2>7, <2>8 DEF Inv, TypeOK
<1> QED
  BY <1>1, <1>2

(* A transfer that succeeded adds its sectors to what the call has done.   *)
LEMMA ChunkDoneStep ==
  ASSUME Inv, ChunkDone, Transfer, stage # "dma", Moved(Chunk), is_write => dirty = {},
         UNCHANGED <<media, drive, status, bm_start, dma_buffer, call, stage>>,
         ok' \in BOOLEAN, bm_irq' \in BOOLEAN, bm_err' \in BOOLEAN, ata_status' \in BOOLEAN
  PROVE  Inv'
<1>1. /\ Chunk \in Nat /\ Done \in Nat
      /\ Chunk <= remaining /\ Chunk <= DISK_DMA_MAX_SECTORS
      /\ remaining > 0 => Chunk > 0
      /\ Done + remaining = count
      /\ lba \in Nat /\ count \in Nat /\ remaining \in Nat /\ lba + count <= SECTORS
      /\ SECTORS \in Nat /\ DISK_DMA_MAX_SECTORS \in Nat
  BY ChunkFits DEF Inv
<1> DEFINE copied == [i \in 1..Chunk |-> dma_buffer[i - 1]]
<1>2. copied \in Seq(Value) /\ Len(copied) = Chunk
  <2>1. ASSUME NEW i \in 1..Chunk PROVE dma_buffer[i - 1] \in Value
    BY <1>1 DEF Inv, TypeOK, DataOK, Slot
  <2> QED
    BY <1>1, <2>1
<1>3. remaining' \in 0..count' /\ Done' = Done + Chunk
  BY <1>1 DEF ChunkDone, Done, call
<1>4. out' \in Seq(Value)
  BY <1>2 DEF ChunkDone, Inv, TypeOK, DataOK
<1>5. DataOK'
  BY <1>3, <1>4 DEF ChunkDone, Inv, TypeOK, DataOK, media, call
<1>6. FlagsOK'
  BY Zenon DEF Inv, TypeOK, FlagsOK, call
<1>7. ControlInv' /\ DriveInv' /\ BufferInv'
  BY DEF Inv, ControlInv, DriveInv, BufferInv, Transfer, ChunkDone
<1>8. ProgressInv'
  <2>1. pc # "idle" /\ pc' = "chunk"
    BY DEF Transfer, ChunkDone
  <2>2. CASE is_write
    <3>1. ASSUME NEW i \in 0..(Done' - 1)
          PROVE  disk[lba + i] = New(lba + i) /\ lba + i \notin dirty
      <4>1. CASE i < Done
        BY <2>1, <2>2, <4>1, <1>1, <1>3 DEF Inv, ProgressInv
      <4>2. CASE i >= Done
        <5>1. i - Done \in 0..(Chunk - 1) /\ lba + Done + (i - Done) = lba + i
          BY <4>2, <1>1, <1>3
        <5> QED
          BY <2>2, <5>1 DEF Moved
      <4> QED
        BY <4>1, <4>2, <1>1, <1>3
    <3> QED
      BY <2>2, <3>1 DEF ProgressInv, call, media
  <2>3. CASE ~is_write
    <3>1. out' = out \o copied
      BY <2>3 DEF ChunkDone
    <3>2. out \in Seq(Value) /\ Len(out) = Done /\ \A i \in 1..Done : out[i] = disk[lba + i - 1]
      BY <2>1, <2>3 DEF Inv, ProgressInv, TypeOK, DataOK
    <3>3. Len(out') = Done'
      <4> HIDE DEF copied
      <4>1. Len(out \o copied) = Len(out) + Len(copied)
        BY <3>2, <1>2, ConcatProperties
      <4> QED
        BY <4>1, <3>1, <3>2, <1>2, <1>3
    <3>4. ASSUME NEW i \in 1..Done' PROVE out'[i] = disk[lba + i - 1]
      <4>1. CASE i <= Done
        BY <4>1, <3>1, <3>2, <1>1, <1>2, <1>3
      <4>2. CASE i > Done
        <5>1. i - Done \in 1..Chunk /\ i - Done - 1 \in 0..(Chunk - 1)
          BY <4>2, <1>1, <1>3
        <5>2. out'[i] = copied[i - Done]
          BY <4>2, <5>1, <3>1, <3>2, <1>1, <1>2, <1>3
        <5>3. copied[i - Done] = disk[lba + Done + (i - Done - 1)]
          BY <2>3, <5>1 DEF Moved
        <5>4. lba + Done + (i - Done - 1) = lba + i - 1
          BY <1>1, <1>3
        <5> QED
          BY <5>2, <5>3, <5>4
      <4> QED
        BY <4>1, <4>2, <1>1, <1>3
    <3> QED
      BY <2>3, <3>3, <3>4 DEF ProgressInv, call, media
  <2> QED
    BY <2>2, <2>3
<1> QED
  BY <1>5, <1>6, <1>7, <1>8 DEF Inv, TypeOK

LEMMA VerifyStep == Inv /\ Verify => Inv'
<1> SUFFICES ASSUME Inv, Verify PROVE Inv'
  OBVIOUS
<1>1. /\ Transfer /\ stage = "after" /\ bm_irq' = FALSE /\ bm_err' = FALSE
      /\ UNCHANGED <<media, bm_start, dma_buffer, call, ata_status>>
      /\ Ended /\ (~status => Moved(Chunk))
  BY DEF Inv, ControlInv, DriveInv, Verify, Transfer
<1>2. bm_start = FALSE /\ bm_irq' \in BOOLEAN /\ bm_err' \in BOOLEAN /\ ata_status' \in BOOLEAN
  <2>1. ~bm_start
    BY <1>1 DEF Inv, DriveInv
  <2> QED
    BY <2>1, <1>1, Zenon DEF Inv, TypeOK, FlagsOK
<1>3. CASE status \/ bm_err
  BY <1>1, <1>2, <1>3, FailStep DEF Verify
<1>4. CASE ~(status \/ bm_err) /\ is_write
  <2>1. /\ drive' = [NoCommand EXCEPT !.name = "flush"] /\ status' = FALSE
        /\ Transfer' /\ pc' = "time" /\ stage' = "flush" /\ UNCHANGED <<remaining, out, ok>>
    BY <1>4 DEF Verify, EnterWait, Transfer
  <2>2. UNCHANGED <<Chunk, Done>> /\ \A n : Moved(n)' <=> Moved(n)
    BY <1>1, <2>1, FrameStep DEF media, call
  <2>3. DataOK'
    <3>1. drive' \in [name : {"none", "read", "write", "flush"}, lba : Nat, sectors : Nat, moved : Nat]
      BY <2>1 DEF NoCommand
    <3> QED
      BY <1>1, <2>1, <3>1 DEF Inv, TypeOK, DataOK, media, call
  <2>4. FlagsOK'
    BY <1>1, <1>2, <2>1, Zenon DEF Inv, TypeOK, FlagsOK, call
  <2>5. ControlInv'
    BY <1>1, <1>4, <2>1 DEF Inv, ControlInv, call
  <2>6. DriveInv'
    BY <1>1, <1>2, <1>4, <2>1, <2>2 DEF DriveInv, NoCommand
  <2>7. BufferInv' /\ ProgressInv'
    BY <1>1, <2>1, <2>2 DEF Inv, BufferInv, ProgressInv, Transfer, call, media
  <2> QED
    BY <2>3, <2>4, <2>5, <2>6, <2>7 DEF Inv, TypeOK
<1>5. CASE ~(status \/ bm_err) /\ ~is_write
  <2>1. ChunkDone /\ UNCHANGED <<drive, status, stage, ok>>
    BY <1>5 DEF Verify
  <2>2. ok' \in BOOLEAN
    BY <2>1 DEF Inv, TypeOK, FlagsOK
  <2> QED
    BY <1>1, <1>2, <1>5, <2>1, <2>2, ChunkDoneStep
<1> QED
  BY <1>3, <1>4, <1>5

LEMMA VerifyFlushStep == Inv /\ VerifyFlush => Inv'
<1> SUFFICES ASSUME Inv, VerifyFlush PROVE Inv'
  OBVIOUS
<1>1. /\ Transfer /\ stage = "flush" /\ is_write
      /\ UNCHANGED <<media, drive, status, bm_start, bm_irq, bm_err, dma_buffer, call, ata_status>>
      /\ Ended /\ Moved(Chunk) /\ (~status => dirty = {})
  BY DEF Inv, ControlInv, DriveInv, VerifyFlush, Transfer, controller, Ended
<1>2. bm_start = FALSE /\ bm_irq' \in BOOLEAN /\ bm_err' \in BOOLEAN /\ ata_status' \in BOOLEAN
  <2>1. ~bm_start
    BY <1>1 DEF Inv, DriveInv
  <2> QED
    BY <2>1, <1>1, Zenon DEF Inv, TypeOK, FlagsOK
<1>3. CASE status
  BY <1>1, <1>2, <1>3, FailStep DEF VerifyFlush
<1>4. CASE ~status
  <2>1. ChunkDone /\ UNCHANGED <<stage, ok>>
    BY <1>4 DEF VerifyFlush
  <2>2. ok' \in BOOLEAN
    BY <2>1 DEF Inv, TypeOK, FlagsOK
  <2> QED
    BY <1>1, <1>2, <1>4, <2>1, <2>2, ChunkDoneStep
<1> QED
  BY <1>3, <1>4

----------------------------------------------------------------------------
(* The steps of the drive and the timer.                                   *)

(* Only the driver's own command moves data: the bus master is stopped     *)
(* before a call returns.                                                  *)
LEMMA MoveIsOwn ==
  ASSUME Inv, Move
  PROVE  /\ Transfer /\ stage = "dma" /\ OwnCommand
         /\ drive.moved \in Nat /\ drive.moved < Chunk
         /\ drive.lba + drive.moved = lba + Done + drive.moved
         /\ lba + Done + drive.moved \in Sector /\ drive.moved \in Slot
<1>1. Transfer /\ stage = "dma" /\ OwnCommand
  BY DEF Inv, DriveInv, Move, Ended
<1>2. drive.moved \in Nat /\ drive.moved < Chunk /\ drive.lba = lba + Done
  BY <1>1 DEF Inv, TypeOK, DataOK, Move, OwnCommand
<1>3. lba + Done + drive.moved \in Sector /\ drive.moved \in Slot
  BY <1>2, ChunkFits DEF Inv, Sector, Slot
<1> QED
  BY <1>1, <1>2, <1>3

LEMMA MoveStep == Inv /\ Move => Inv'
<1> SUFFICES ASSUME Inv, Move PROVE Inv'
  OBVIOUS
<1> DEFINE m == drive.moved
           s == lba + Done + m
<1>1. /\ Transfer /\ stage = "dma" /\ OwnCommand
      /\ m \in Nat /\ m < Chunk /\ drive.lba + m = s /\ s \in Sector /\ m \in Slot
  BY MoveIsOwn
<1>2. /\ UNCHANGED <<status, bm_start, bm_irq, bm_err, call, pc, stage, remaining, out, ata_status, ok>>
      /\ drive' = [drive EXCEPT !.moved = @ + 1]
  BY DEF Move
<1>3. UNCHANGED <<Chunk, Done, lba, is_write>> /\ Transfer'
  BY <1>1, <1>2 DEF Chunk, Done, call, Transfer
<1>4. /\ Chunk \in Nat /\ Done \in Nat /\ lba \in Nat /\ SECTORS \in Nat
      /\ Chunk <= remaining /\ Chunk <= DISK_DMA_MAX_SECTORS /\ DISK_DMA_MAX_SECTORS \in Nat
  BY ChunkFits DEF Inv
<1>5. /\ disk \in [Sector -> Value] /\ dma_buffer \in [Slot -> Value] /\ dirty \subseteq Sector
      /\ drive \in [name : {"none", "read", "write", "flush"}, lba : Nat, sectors : Nat, moved : Nat]
  BY DEF Inv, TypeOK, DataOK
<1>6. drive' \in [name : {"none", "read", "write", "flush"}, lba : Nat, sectors : Nat, moved : Nat]
  BY <1>1, <1>2, <1>5
<1>7. /\ drive'.name = drive.name /\ drive'.lba = drive.lba
      /\ drive'.sectors = drive.sectors /\ drive'.moved = m + 1
  BY <1>2, <1>5
<1>8. FlagsOK'
  BY <1>2, Zenon DEF Inv, TypeOK, FlagsOK, call
<1>9. ControlInv'
  BY <1>2 DEF Inv, ControlInv, Transfer, call
<1>10. ASSUME is_write PROVE DataOK' /\ Moved(drive.moved)' /\ ProgressInv' /\ BufferInv'
  <2>1. /\ disk' = [disk EXCEPT ![s] = dma_buffer[m]]
        /\ dirty' = dirty \cup {s} /\ dma_buffer' = dma_buffer
    BY <1>1, <1>10 DEF Move, OwnCommand
  <2>2. dma_buffer[m] = New(s)
    BY <1>1, <1>4, <1>10 DEF Inv, BufferInv
  <2>3. disk' \in [Sector -> Value] /\ dirty' \subseteq Sector
    BY <1>1, <1>5, <2>1
  <2>4. DataOK'
    BY <1>2, <1>6, <2>1, <2>3 DEF Inv, TypeOK, DataOK, call
  <2>5. Moved(drive.moved)'
    <3>1. ASSUME NEW i \in 0..m PROVE disk'[lba + Done + i] = New(lba + Done + i)
      <4>1. CASE i = m
        BY <1>1, <1>5, <2>1, <2>2, <4>1
      <4>2. CASE i # m
        <5>1. i \in 0..(m - 1) /\ lba + Done + i # s
          BY <1>1, <1>4, <4>2
        <5>2. disk[lba + Done + i] = New(lba + Done + i)
          BY <1>1, <1>10, <5>1 DEF OwnCommand, Moved
        <5>3. lba + Done + i \in Sector
          BY <1>1, <1>4, <5>1 DEF Sector
        <5> QED
          BY <1>5, <2>1, <5>1, <5>2, <5>3
      <4> QED
        BY <4>1, <4>2
    <3>2. 0..(drive'.moved - 1) = 0..m
      BY <1>1, <1>7
    <3> QED
      BY <1>3, <1>10, <3>1, <3>2 DEF Moved
  <2>6. ProgressInv'
    <3>1. ASSUME NEW i \in 0..(Done - 1)
          PROVE  disk'[lba + i] = New(lba + i) /\ lba + i \notin dirty'
      <4>1. lba + i # s /\ lba + i \in Sector
        BY <1>1, <1>4 DEF Sector
      <4>2. disk[lba + i] = New(lba + i) /\ lba + i \notin dirty
        BY <1>1, <1>10 DEF Inv, ProgressInv, Transfer
      <4> QED
        BY <1>5, <2>1, <4>1, <4>2
    <3> QED
      BY <1>3, <1>10, <3>1 DEF ProgressInv
  <2>7. BufferInv'
    BY <1>1, <1>3, <2>1 DEF Inv, BufferInv
  <2> QED
    BY <2>4, <2>5, <2>6, <2>7
<1>11. ASSUME ~is_write PROVE DataOK' /\ Moved(drive.moved)' /\ ProgressInv' /\ BufferInv'
  <2>1. dma_buffer' = [dma_buffer EXCEPT ![m] = disk[s]] /\ disk' = disk /\ dirty' = dirty
    BY <1>1, <1>11 DEF Move, OwnCommand, media
  <2>2. dma_buffer' \in [Slot -> Value]
    BY <1>1, <1>5, <2>1
  <2>3. DataOK'
    BY <1>2, <1>6, <2>1, <2>2 DEF Inv, TypeOK, DataOK, call
  <2>4. Moved(drive.moved)'
    <3>1. ASSUME NEW i \in 0..m PROVE dma_buffer'[i] = disk[lba + Done + i]
      <4>1. CASE i = m
        BY <1>1, <1>5, <2>1, <4>1
      <4>2. CASE i # m
        <5>1. i \in 0..(m - 1) /\ i \in Slot
          BY <1>1, <1>4, <4>2 DEF Slot
        <5>2. dma_buffer[i] = disk[lba + Done + i]
          BY <1>1, <1>11, <5>1 DEF OwnCommand, Moved
        <5> QED
          BY <1>5, <2>1, <4>2, <5>1, <5>2
      <4> QED
        BY <4>1, <4>2
    <3>2. 0..(drive'.moved - 1) = 0..m
      BY <1>1, <1>7
    <3> QED
      BY <1>3, <1>11, <2>1, <3>1, <3>2 DEF Moved
  <2>5. ProgressInv'
    BY <1>1, <1>2, <1>3, <1>11, <2>1 DEF Inv, ProgressInv, Transfer
  <2>6. BufferInv'
    BY <1>3, <1>11 DEF BufferInv
  <2> QED
    BY <2>3, <2>4, <2>5, <2>6
<1>12. DataOK' /\ Moved(drive.moved)' /\ ProgressInv' /\ BufferInv'
  BY <1>10, <1>11
<1>13. OwnCommand'
  BY <1>1, <1>3, <1>4, <1>7, <1>12 DEF OwnCommand
<1>14. DriveInv'
  <2>1. ~bm_irq
    BY <1>1 DEF Inv, DriveInv, OwnCommand, Ended
  <2>2. pc' \notin {"program", "verify_flush"} /\ ~(pc = "stop" /\ ok) /\ stage' = "dma"
    BY <1>1, <1>2, <2>1 DEF Inv, ControlInv, DriveInv
  <2>3. bm_start' <=> (Transfer' /\ stage' = "dma")
    BY <1>1, <1>2, <1>3 DEF Inv, DriveInv
  <2> QED
    BY <1>2, <1>3, <1>13, <2>1, <2>2, <2>3 DEF DriveInv
<1> QED
  BY <1>8, <1>9, <1>12, <1>14 DEF Inv, TypeOK

(* The end of a command, with what the drive promises of it.               *)
LEMMA EndStep ==
  ASSUME Inv, NEW error \in BOOLEAN, Busy, EndCommand(error), dirty' \subseteq dirty,
         (Transfer /\ stage = "dma" /\ ~error) => drive.moved = drive.sectors,
         (drive.name = "flush" /\ ~error) => dirty' = {}
  PROVE  Inv'
<1>1. /\ drive' = NoCommand /\ Ended' /\ status' = error /\ bm_irq' = TRUE
      /\ UNCHANGED <<disk, bm_start, bm_err, dma_buffer, call, pc, stage, remaining, out, ata_status, ok>>
  BY DEF EndCommand, Ended, NoCommand
<1>2. UNCHANGED <<Chunk, Done>> /\ \A n : Moved(n)' <=> Moved(n)
  BY <1>1, FrameStep DEF call
<1>3. DataOK'
  <2>1. drive' \in [name : {"none", "read", "write", "flush"}, lba : Nat, sectors : Nat, moved : Nat]
    BY <1>1 DEF NoCommand
  <2> QED
    BY <1>1, <2>1 DEF Inv, TypeOK, DataOK, call
<1>4. FlagsOK'
  BY <1>1, Zenon DEF Inv, TypeOK, FlagsOK, call
<1>5. UNCHANGED Transfer /\ ControlInv'
  BY <1>1 DEF Inv, ControlInv, Transfer, call
<1>6. (Transfer /\ stage = "dma" /\ ~error) => Moved(Chunk)
  BY DEF Inv, DriveInv, OwnCommand, Busy, Ended
<1>7. (Transfer /\ stage = "after") => FALSE
  BY DEF Inv, DriveInv, Busy, Ended
<1>8. (Transfer /\ stage = "flush") => Moved(Chunk) /\ (~error => dirty' = {})
  BY DEF Inv, DriveInv, Busy, Ended
<1>9. DriveInv'
  BY <1>1, <1>2, <1>5, <1>6, <1>7, <1>8 DEF Inv, DriveInv
<1>10. BufferInv' /\ ProgressInv'
  BY <1>1, <1>2, <1>5 DEF Inv, BufferInv, ProgressInv, call
<1> QED
  BY <1>3, <1>4, <1>5, <1>9, <1>10 DEF Inv, TypeOK

LEMMA DriveStep == Inv /\ (Complete \/ FailCommand \/ Abandon) => Inv'
<1> SUFFICES ASSUME Inv, Complete \/ FailCommand \/ Abandon PROVE Inv'
  OBVIOUS
<1>1. CASE Complete
  BY <1>1, EndStep DEF Complete
<1>2. CASE FailCommand
  BY <1>2, EndStep DEF FailCommand
<1>3. CASE Abandon
  <2>1. ~(Transfer /\ stage = "dma")
    BY <1>3 DEF Inv, DriveInv, Abandon
  <2> QED
    BY <1>3, <2>1, EndStep DEF Abandon
<1> QED
  BY <1>1, <1>2, <1>3

(* A stutter, a tick, or an error on the bus.                              *)
LEMMA IdleStep ==
  ASSUME Inv, UNCHANGED vars \/ Tick \/ BusError
  PROVE  Inv'
<1>1. /\ UNCHANGED <<disk, dirty, drive, status, bm_start, bm_irq, dma_buffer>>
      /\ UNCHANGED <<is_write, lba, count, pc, stage, remaining, out, ata_status, ok>>
  BY DEF vars, Tick, BusError, media, controller, call
<1>2. bm_err' \in BOOLEAN
  BY Zenon DEF Inv, TypeOK, FlagsOK, vars, Tick, BusError, controller
<1>3. UNCHANGED <<Chunk, Done>> /\ \A n : Moved(n)' <=> Moved(n)
  BY <1>1, FrameStep
<1>4. DataOK'
  BY <1>1 DEF Inv, TypeOK, DataOK
<1>5. FlagsOK'
  BY <1>1, <1>2, Zenon DEF Inv, TypeOK, FlagsOK
<1>6. UNCHANGED Transfer /\ ControlInv'
  BY <1>1 DEF Inv, ControlInv, Transfer
<1>7. UNCHANGED <<Ended, OwnCommand>>
  BY <1>1, <1>3 DEF Ended, OwnCommand
<1>8. DriveInv'
  BY <1>1, <1>3, <1>6, <1>7 DEF Inv, DriveInv
<1>9. BufferInv' /\ ProgressInv'
  BY <1>1, <1>3, <1>6 DEF Inv, BufferInv, ProgressInv
<1> QED
  BY <1>4, <1>5, <1>6, <1>8, <1>9 DEF Inv, TypeOK

----------------------------------------------------------------------------
(* The theorems.                                                           *)

LEMMA NextStep == Inv /\ [Next]_vars => Inv'
<1> SUFFICES ASSUME Inv, [Next]_vars PROVE Inv'
  OBVIOUS
<1>1. CASE \E w \in BOOLEAN, l \in Sector, n \in 0..MAX_COUNT, i \in IF_VALUES : Call(w, l, n, i)
  BY <1>1, CallStep
<1>2. CASE NextChunk
  BY <1>2, NextChunkStep
<1>3. CASE AllDone
  BY <1>3, AllDoneStep
<1>4. CASE CheckTime
  BY <1>4, CheckTimeStep
<1>5. CASE PollBusy
  BY <1>5, PollBusyStep
<1>6. CASE PollStatus
  BY <1>6, PollStatusStep
<1>7. CASE PollBusMaster
  BY <1>7, PollBusMasterStep
<1>8. CASE Program
  BY <1>8, ProgramStep
<1>9. CASE Stop
  BY <1>9, StopStep
<1>10. CASE Verify
  BY <1>10, VerifyStep
<1>11. CASE VerifyFlush
  BY <1>11, VerifyFlushStep
<1>12. CASE Move
  BY <1>12, MoveStep
<1>13. CASE Complete \/ FailCommand \/ Abandon
  BY <1>13, DriveStep
<1>14. CASE UNCHANGED vars \/ Tick \/ BusError
  BY <1>14, IdleStep
<1> QED
  BY <1>1, <1>2, <1>3, <1>4, <1>5, <1>6, <1>7, <1>8, <1>9, <1>10, <1>11, <1>12, <1>13, <1>14
     DEF Next

(* The invariant holds in every state of every run of the driver with a    *)
(* drive that may fail, be late or be silent.                              *)
THEOREM Inductive == Spec => []Inv
<1> QED
  BY InitInv, NextStep, PTL DEF Spec

(* A successful disk_read has delivered the sectors of the disk, all of    *)
(* them and in their order.                                                *)
THEOREM ReadsCorrect == Spec => []ReadCorrect
<1>1. Inv => ReadCorrect
  <2> SUFFICES ASSUME Inv, pc = "idle", ok, ~is_write
               PROVE  Len(out) = count /\ \A i \in 1..count : out[i] = disk[lba + i - 1]
    BY DEF ReadCorrect
  <2>1. Done = count
    BY ChunkFits DEF Inv, ControlInv
  <2> QED
    BY <2>1 DEF Inv, ProgressInv
<1> QED
  BY <1>1, Inductive, PTL

(* A successful disk_write has put every sector on the disk, and the       *)
(* drive's cache is flushed.                                               *)
THEOREM WritesCorrect == Spec => []WriteCorrect
<1>1. Inv => WriteCorrect
  <2> SUFFICES ASSUME Inv, pc = "idle", ok, is_write
               PROVE  /\ \A i \in 0..(count - 1) : disk[lba + i] = New(lba + i)
                      /\ Asked \cap dirty = {}
    BY DEF WriteCorrect
  <2>1. Done = count /\ lba \in Nat /\ count \in Nat /\ SECTORS \in Nat
    BY ChunkFits DEF Inv, ControlInv
  <2>2. \A i \in 0..(count - 1) : disk[lba + i] = New(lba + i) /\ lba + i \notin dirty
    BY <2>1 DEF Inv, ProgressInv
  <2>3. ASSUME NEW s \in Asked PROVE s \notin dirty
    <3>1. s - lba \in 0..(count - 1) /\ lba + (s - lba) = s
      BY <2>1 DEF Asked, Sector
    <3> QED
      BY <2>2, <3>1
  <2> QED
    BY <2>2, <2>3
<1> QED
  BY <1>1, Inductive, PTL

(* A transfer that timed out is harmless: a sector changes only while      *)
(* disk_write works on it, and the buffer of a write is not overwritten.   *)
THEOREM NoLateHarm == Spec => LateTransfersHarmless
<1> DEFINE Harmless ==
      /\ \A s \in Sector : disk'[s] # disk[s] => pc # "idle" /\ is_write /\ s \in Asked
      /\ (dma_buffer' # dma_buffer /\ is_write) => pc = "chunk"
<1>1. Inv /\ [Next]_vars => [Harmless]_vars
  <2> SUFFICES ASSUME Inv, Next PROVE Harmless
    OBVIOUS
  <2>1. CASE Move
    <3>1. Transfer /\ OwnCommand /\ drive.moved \in Nat /\ drive.moved < Chunk
      BY <2>1, MoveIsOwn
    <3>2. drive.lba + drive.moved \in Asked
      BY <2>1, <3>1, MoveIsOwn, ChunkFits DEF Inv, Asked
    <3>3. CASE is_write
      BY <2>1, <3>1, <3>2, <3>3 DEF Move, OwnCommand, Transfer, Inv, TypeOK, DataOK
    <3>4. CASE ~is_write
      BY <2>1, <3>1, <3>4 DEF Move, OwnCommand, media
    <3> QED
      BY <3>3, <3>4
  <2>2. CASE NextChunk
    BY <2>2 DEF NextChunk, media
  <2>3. CASE ~Move /\ ~NextChunk
    <3>1. UNCHANGED <<disk, dma_buffer>>
      BY <2>3 DEF Next, Call, AllDone, CheckTime, PollBusy, PollStatus, PollBusMaster, Program,
                  Stop, Verify, VerifyFlush, Complete, FailCommand, Abandon, EndCommand,
                  BusError, Tick, media
    <3> QED
      BY <3>1
  <2> QED
    BY <2>1, <2>2, <2>3
<1> QED
  BY <1>1, Inductive, PTL DEF Spec, LateTransfersHarmless
----------------------------------------------------------------------------
(* The PCI bus.  The scan is followed slot by slot: the list holds the     *)
(* functions in front of the slot at hand, in order.                       *)

(* Where the loops of scan_pci may be.                                     *)
Place == [bus : 0..BUSES, device : 0..(DEVICES - 1), func : 0..(FUNCTIONS - 1)]

(* A device of the list is a copy of the function in its slot.             *)
Copy(d) ==
  /\ d \in pci_device_t /\ Index(d.slot) \in DOMAIN space
  /\ d.id = space[Index(d.slot)][0] /\ d.command = space[Index(d.slot)][4].command
  /\ d.class = space[Index(d.slot)][8] /\ d.bar[4] = space[Index(d.slot)][32]

First(n) == n \in Controllers /\ \A k \in Controllers : n <= k

(* The list: the functions in front of the slot at hand, and in order.     *)
Listed ==
  /\ at \in Place /\ pci_devices \in Seq(pci_device_t)
  /\ \A i \in 1..Len(pci_devices) :
       Copy(pci_devices[i]) /\ Index(pci_devices[i].slot) < Index(at)
  /\ \A i, j \in 1..Len(pci_devices) :
       i < j => Index(pci_devices[i].slot) < Index(pci_devices[j].slot)
  /\ \A n \in DOMAIN space :
       n < Index(at) => \E i \in 1..Len(pci_devices) : Index(pci_devices[i].slot) = n

(* The controller that is used.                                            *)
Chosen == Copy(ide_dev) /\ First(Index(ide_dev.slot)) /\ HasPort(Index(ide_dev.slot))

ScanHeld ==
  /\ boot \in {"scan", "init_disk", "enable", "ready", "failed"}
  /\ boot # "ready" => space \in Machine
  /\ DOMAIN space \subseteq Nat
  /\ boot \in {"scan", "init_disk"} => Listed
  /\ boot = "init_disk" => at.bus = BUSES
  /\ boot \in {"enable", "ready"} => Chosen
  /\ boot = "ready" => BUS_MASTER \in ide_dev.command
  /\ boot = "failed" => Controllers = {} \/ \E n \in Controllers : First(n) /\ ~HasPort(n)

----------------------------------------------------------------------------
(* Slots and addresses.                                                    *)

(* The loops have at least one round.                                      *)
LEMMA Sizes ==
  /\ BUSES \in Nat /\ DEVICES \in Nat /\ FUNCTIONS \in Nat
  /\ BUSES > 0 /\ DEVICES > 0 /\ FUNCTIONS > 0 /\ DEVICES <= 32 /\ FUNCTIONS <= 8
BY PciAssumption

(* A slot by its parts.                                                    *)
LEMMA SlotParts ==
  ASSUME NEW s \in PciSlot
  PROVE  /\ s.bus \in Nat /\ s.bus < BUSES /\ s.device \in Nat /\ s.device < DEVICES
         /\ s.func \in Nat /\ s.func < FUNCTIONS
         /\ Index(s) \in Nat /\ Index(s) = 256 * s.bus + 8 * s.device + s.func
         /\ s \in Place
<1>1. s.bus \in 0..(BUSES - 1) /\ s.device \in 0..(DEVICES - 1) /\ s.func \in 0..(FUNCTIONS - 1)
  BY DEF PciSlot
<1>2. /\ s.bus \in Nat /\ s.bus < BUSES /\ s.device \in Nat /\ s.device < DEVICES
      /\ s.func \in Nat /\ s.func < FUNCTIONS /\ s.bus \in 0..BUSES
  BY <1>1, Sizes
<1>3. Index(s) \in Nat /\ Index(s) = 256 * s.bus + 8 * s.device + s.func
  BY <1>2 DEF Index
<1>4. s \in Place
  BY <1>2 DEF PciSlot, Place
<1> QED BY <1>2, <1>3, <1>4

(* An address chooses one function and one register.                       *)
LEMMA Address ==
  ASSUME NEW s \in PciSlot, NEW o \in 0..255
  PROVE  /\ pci_addr(s.bus, s.device, s.func, o) \div 256 = Index(s)
         /\ pci_addr(s.bus, s.device, s.func, o) % 256 = o
<1>1. PICK b \in Nat, d \in Nat, f \in Nat : b = s.bus /\ d = s.device /\ f = s.func
  BY SlotParts
<1>2. PICK n \in Nat : n = 256 * b + 8 * d + f
  OBVIOUS
<1>3. PICK a \in Nat : a = 256 * n + o
  OBVIOUS
<1>4. 65536 * b + 2048 * d + 256 * f + o = a
  BY <1>2, <1>3
<1>5. a \div 256 = n /\ a % 256 = o
  BY <1>3
<1>6. pci_addr(s.bus, s.device, s.func, o) = a
  BY <1>1, <1>4 DEF pci_addr
<1>7. Index(s) = n
  BY <1>1, <1>2 DEF Index
<1> QED BY <1>5, <1>6, <1>7

(* What is read there.                                                     *)
LEMMA Register ==
  ASSUME NEW s \in PciSlot, NEW o \in 0..255
  PROVE  pci_read32(pci_addr(s.bus, s.device, s.func, o))
           = IF Index(s) \in DOMAIN space THEN space[Index(s)][o] ELSE NONE
BY Address DEF pci_read32

(* The loops visit every slot: there is none between a slot and the next.  *)
LEMMA NextIs ==
  ASSUME NEW s \in PciSlot
  PROVE  /\ NextSlot(s) \in Place
         /\ Index(s) < Index(NextSlot(s)) /\ Index(NextSlot(s)) \in Nat
         /\ \A r \in PciSlot : Index(r) < Index(NextSlot(s)) => Index(r) <= Index(s)
         /\ NextSlot(s).bus < BUSES => NextSlot(s) \in PciSlot
         /\ NextSlot(s).bus >= BUSES => NextSlot(s).bus = BUSES
<1> DEFINE t == NextSlot(s)
<1>1. PICK b \in Nat, d \in Nat, f \in Nat :
        /\ b = s.bus /\ d = s.device /\ f = s.func
        /\ b < BUSES /\ d < DEVICES /\ f < FUNCTIONS
  BY SlotParts
<1>2. /\ t.bus \in 0..BUSES /\ t.device \in 0..(DEVICES - 1) /\ t.func \in 0..(FUNCTIONS - 1)
      /\ t = [bus |-> t.bus, device |-> t.device, func |-> t.func]
      /\ \/ f + 1 < FUNCTIONS /\ t.bus = b /\ t.device = d /\ t.func = f + 1
         \/ f + 1 = FUNCTIONS /\ d + 1 < DEVICES /\ t.bus = b /\ t.device = d + 1 /\ t.func = 0
         \/ f + 1 = FUNCTIONS /\ d + 1 = DEVICES /\ t.bus = b + 1 /\ t.device = 0 /\ t.func = 0
  <2>1. s = [bus |-> b, device |-> d, func |-> f]
    BY <1>1 DEF PciSlot
  <2>2. CASE f + 1 < FUNCTIONS
    <3>1. t = [s EXCEPT !.func = f + 1]
      BY <1>1, <2>2 DEF NextSlot
    <3>2. t = [bus |-> b, device |-> d, func |-> f + 1]
      BY <2>1, <3>1
    <3> HIDE DEF t
    <3>3. t.bus = b /\ t.device = d /\ t.func = f + 1
      BY <3>2
    <3>4. b \in 0..BUSES /\ d \in 0..(DEVICES - 1) /\ f + 1 \in 0..(FUNCTIONS - 1)
      BY <1>1, <2>2, Sizes
    <3> QED BY <2>2, <3>2, <3>3, <3>4
  <2>3. CASE f + 1 = FUNCTIONS /\ d + 1 < DEVICES
    <3>1. t = [s EXCEPT !.func = 0, !.device = d + 1]
      BY <1>1, <2>3, Sizes DEF NextSlot
    <3>2. t = [bus |-> b, device |-> d + 1, func |-> 0]
      BY <2>1, <3>1
    <3> HIDE DEF t
    <3>3. t.bus = b /\ t.device = d + 1 /\ t.func = 0
      BY <3>2
    <3>4. b \in 0..BUSES /\ d + 1 \in 0..(DEVICES - 1) /\ 0 \in 0..(FUNCTIONS - 1)
      BY <1>1, <2>3, Sizes
    <3> QED BY <2>3, <3>2, <3>3, <3>4
  <2>4. CASE f + 1 = FUNCTIONS /\ d + 1 = DEVICES
    <3>1. t = [bus |-> b + 1, device |-> 0, func |-> 0]
      BY <1>1, <2>4, Sizes DEF NextSlot
    <3> HIDE DEF t
    <3>2. t.bus = b + 1 /\ t.device = 0 /\ t.func = 0
      BY <3>1
    <3>3. b + 1 \in 0..BUSES /\ 0 \in 0..(DEVICES - 1) /\ 0 \in 0..(FUNCTIONS - 1)
      BY <1>1, Sizes
    <3> QED BY <2>4, <3>1, <3>2, <3>3
  <2> QED BY <1>1, <2>2, <2>3, <2>4, Sizes
<1> HIDE DEF t
<1>3. PICK tb \in Nat, td \in Nat, tf \in Nat : tb = t.bus /\ td = t.device /\ tf = t.func
  BY <1>2, Sizes
<1>4. Index(s) = 256 * b + 8 * d + f /\ Index(t) = 256 * tb + 8 * td + tf
  BY <1>1, <1>3 DEF Index
<1>5. PICK F \in Nat, D \in Nat : F = FUNCTIONS /\ D = DEVICES /\ F <= 8 /\ D <= 32
  BY Sizes
<1>6. 256 * b + 8 * d + f < 256 * tb + 8 * td + tf /\ 256 * tb + 8 * td + tf \in Nat
  BY <1>1, <1>2, <1>3, <1>5
<1>7. ASSUME NEW r \in PciSlot, Index(r) < Index(t)
      PROVE  Index(r) <= Index(s)
  <2>1. PICK rb \in Nat, rd \in Nat, rf \in Nat :
          Index(r) = 256 * rb + 8 * rd + rf /\ rd < D /\ rf < F
    <3>1. /\ r.bus \in Nat /\ r.device \in Nat /\ r.func \in Nat
          /\ Index(r) = 256 * r.bus + 8 * r.device + r.func /\ r.device < D /\ r.func < F
      BY <1>5, SlotParts
    <3> QED BY <3>1
  <2>2. 256 * rb + 8 * rd + rf < 256 * tb + 8 * td + tf
    BY <1>4, <1>7, <2>1
  <2>3. CASE f + 1 < F /\ tb = b /\ td = d /\ tf = f + 1
    BY <1>4, <2>1, <2>2, <2>3
  <2>4. CASE f + 1 = F /\ d + 1 < D /\ tb = b /\ td = d + 1 /\ tf = 0
    BY <1>4, <1>5, <2>1, <2>2, <2>4
  <2>5. CASE f + 1 = F /\ d + 1 = D /\ tb = b + 1 /\ td = 0 /\ tf = 0
    BY <1>4, <1>5, <2>1, <2>2, <2>5
  <2> QED BY <1>2, <1>3, <1>5, <2>3, <2>4, <2>5
<1>8. t \in Place
  <2>1. PICK x \in 0..BUSES, y \in 0..(DEVICES - 1), z \in 0..(FUNCTIONS - 1) :
          t = [bus |-> x, device |-> y, func |-> z]
    BY <1>2
  <2> QED BY <2>1 DEF Place
<1>9. t.bus < BUSES => t \in PciSlot
  <2>1. ASSUME t.bus < BUSES PROVE t \in PciSlot
    <3>1. t.bus \in 0..(BUSES - 1)
      BY <1>2, <2>1, Sizes
    <3>2. PICK x \in 0..(BUSES - 1), y \in 0..(DEVICES - 1), z \in 0..(FUNCTIONS - 1) :
            t = [bus |-> x, device |-> y, func |-> z]
      BY <1>2, <3>1
    <3> QED BY <3>2 DEF PciSlot
  <2> QED BY <2>1
<1>10. t.bus >= BUSES => t.bus = BUSES
  BY <1>2, Sizes
<1> QED BY <1>4, <1>6, <1>7, <1>8, <1>9, <1>10 DEF t

(* A place before the end is a slot; the end is behind every slot.         *)
LEMMA PlaceIs ==
  ASSUME NEW s \in Place
  PROVE  /\ Index(s) \in Nat
         /\ s.bus < BUSES => s \in PciSlot
         /\ s.bus >= BUSES => s.bus = BUSES /\ \A r \in PciSlot : Index(r) < Index(s)
<1>1. s.bus \in 0..BUSES /\ s.device \in 0..(DEVICES - 1) /\ s.func \in 0..(FUNCTIONS - 1)
  BY DEF Place
<1>2. PICK b \in Nat, d \in Nat, f \in Nat : b = s.bus /\ d = s.device /\ f = s.func
  BY <1>1, Sizes
<1>3. Index(s) = 256 * b + 8 * d + f /\ Index(s) \in Nat
  BY <1>2 DEF Index
<1>4. ASSUME s.bus < BUSES PROVE s \in PciSlot
  <2>1. s.bus \in 0..(BUSES - 1)
    BY <1>1, <1>4, Sizes
  <2>2. s = [bus |-> s.bus, device |-> s.device, func |-> s.func]
    BY DEF Place
  <2> QED BY <1>1, <2>1, <2>2 DEF PciSlot
<1>5. ASSUME s.bus >= BUSES, NEW r \in PciSlot PROVE Index(r) < Index(s)
  <2>1. PICK rb \in Nat, rd \in Nat, rf \in Nat :
          /\ rb < BUSES /\ rd < 32 /\ rf < 8
          /\ Index(r) = 256 * rb + 8 * rd + rf
    <3>1. /\ r.bus \in Nat /\ r.device \in Nat /\ r.func \in Nat
          /\ Index(r) = 256 * r.bus + 8 * r.device + r.func
          /\ r.bus < BUSES /\ r.device < DEVICES /\ r.func < FUNCTIONS
      BY SlotParts
    <3>2. r.device < 32 /\ r.func < 8
      BY <3>1, Sizes
    <3> QED BY <3>1, <3>2
  <2> QED BY <1>2, <1>3, <1>5, <2>1, Sizes
<1>6. s.bus >= BUSES => s.bus = BUSES
  BY <1>1, Sizes
<1> QED BY <1>3, <1>4, <1>5, <1>6

(* bar & 0xfffc is not 0.                                                  *)
LEMMA PortIs ==
  ASSUME NEW bar \in Nat
  PROVE  bm_base(bar) # 0 <=> (bar \div 4) % 16384 # 0
<1>1. (bar % 65536) - (bar % 4) = 4 * ((bar \div 4) % 16384)
  OBVIOUS
<1>2. PICK l \in Nat : l = (bar \div 4) % 16384
  OBVIOUS
<1> QED BY <1>1, <1>2 DEF bm_base

(* The functions of a machine are in slots.                                *)
LEMMA InSlots ==
  ASSUME space \in Machine, NEW n \in DOMAIN space
  PROVE  /\ \E s \in PciSlot : n = Index(s)
         /\ n \in Nat /\ space[n][0] # NONE
         /\ space[n][4] \in [command : SUBSET Nat, status : SUBSET Nat]
         /\ 4 \in DOMAIN space[n] /\ 0 \in DOMAIN space[n] /\ 8 \in DOMAIN space[n]
         /\ space[n][32] \in Nat
<1>1. Present(space)
  BY PciAssumption
<1>2. PICK s \in PciSlot : n = Index(s)
  BY <1>1 DEF Present
<1>3. n \in Nat
  BY <1>2, SlotParts
<1> QED BY <1>1, <1>2, <1>3 DEF Present

(* A set of numbers that is not empty has a least one.                     *)
LEMMA MinIs ==
  ASSUME NEW S \in SUBSET Nat, S # {}
  PROVE  Min(S) \in S /\ \A y \in S : Min(S) <= y
<1>1. IsWellFoundedOn(OpToRel(<, Nat), Nat)
  BY NatLessThanWellFounded
<1>2. PICK x \in S : \A y \in S : ~(<<y, x>> \in OpToRel(<, Nat))
  BY <1>1, WFMin
<1>3. \A y \in S : ~(y < x)
  BY <1>2 DEF OpToRel
<1>4. \A y \in S : x <= y
  BY <1>3
<1> QED BY <1>4 DEF Min

(* pci_read_device copies the function of its slot.                        *)
LEMMA ReadIs ==
  ASSUME space \in Machine, NEW s \in PciSlot, Index(s) \in DOMAIN space
  PROVE  Copy(Read(s)) /\ Read(s).slot = s
<1> DEFINE n == Index(s)
           reg(o) == pci_read32(pci_addr(s.bus, s.device, s.func, o))
           d == Read(s)
           bars == [i \in 0..5 |-> reg(16 + 4 * i)]
<1>1. \A o \in 0..255 : reg(o) = space[n][o]
  BY Register
<1>2. d = [slot |-> s, id |-> reg(0), command |-> reg(4).command, class |-> reg(8), bar |-> bars]
  BY DEF Read
<1> HIDE DEF reg
<1>3. reg(0) = space[n][0] /\ reg(4) = space[n][4] /\ reg(8) = space[n][8]
  BY <1>1
<1>4. reg(0) \in Word(0) /\ reg(8) \in Word(8)
  BY <1>3 DEF Word
<1>5. reg(4).command \in SUBSET Nat
  BY <1>3, InSlots
<1> DEFINE Bar == UNION {Word(16 + 4 * i) : i \in 0..5}
<1>6. bars \in [0..5 -> Bar] /\ bars[4] = space[n][32]
  <2>1. ASSUME NEW i \in 0..5 PROVE reg(16 + 4 * i) \in Bar
    <3>1. PICK o \in 0..255 : o = 16 + 4 * i
      <4>1. 16 + 4 * i \in 0..255
        OBVIOUS
      <4> QED BY <4>1
    <3>2. space[n][o] \in Word(o)
      BY DEF Word
    <3> QED BY <1>1, <3>1, <3>2
  <2>2. bars[4] = reg(32)
    OBVIOUS
  <2>3. 32 \in 0..255
    OBVIOUS
  <2> QED BY <1>1, <2>1, <2>2, <2>3
<1> HIDE DEF bars, d
<1>7. /\ d.slot = s /\ d.id = reg(0) /\ d.command = reg(4).command /\ d.class = reg(8) /\ d.bar = bars
      /\ d \in pci_device_t
  <2>1. /\ d.slot = s /\ d.id = reg(0) /\ d.command = reg(4).command /\ d.class = reg(8) /\ d.bar = bars
    BY <1>2
  <2>2. d \in [slot : PciSlot, id : Word(0), command : SUBSET Nat, class : Word(8), bar : [0..5 -> Bar]]
    <3> HIDE DEF Bar
    <3> QED BY <1>2, <1>4, <1>5, <1>6
  <2> QED BY <2>1, <2>2 DEF pci_device_t
<1>8. Copy(d) /\ d.slot = s
  BY <1>3, <1>6, <1>7 DEF Copy
<1> QED BY <1>8 DEF d

(* A round of the loop over the functions.                                 *)
LEMMA ScanStep ==
  ASSUME ScanHeld, boot = "scan", at.bus < BUSES,
         NEW list, NEW next, next = NextSlot(at),
         list = IF pci_read32(pci_addr(at.bus, at.device, at.func, 0)) = NONE
                THEN pci_devices ELSE Append(pci_devices, Read(at))
  PROVE  /\ next \in Place /\ list \in Seq(pci_device_t)
         /\ \A i \in 1..Len(list) : Copy(list[i]) /\ Index(list[i].slot) < Index(next)
         /\ \A i, j \in 1..Len(list) : i < j => Index(list[i].slot) < Index(list[j].slot)
         /\ \A n \in DOMAIN space :
              n < Index(next) => \E i \in 1..Len(list) : Index(list[i].slot) = n
<1>1. space \in Machine /\ Listed
  BY DEF ScanHeld
<1>2. at \in PciSlot /\ Index(at) \in Nat
  BY <1>1, PlaceIs DEF Listed
<1>3. /\ next \in Place /\ Index(at) < Index(next) /\ Index(next) \in Nat
      /\ \A r \in PciSlot : Index(r) < Index(next) => Index(r) <= Index(at)
  BY <1>2, NextIs
<1>4. PICK m \in Nat : m = Len(pci_devices)
  BY <1>1 DEF Listed
<1>5. /\ pci_devices \in Seq(pci_device_t)
      /\ \A i \in 1..m : Copy(pci_devices[i]) /\ Index(pci_devices[i].slot) < Index(at)
      /\ \A i, j \in 1..m : i < j => Index(pci_devices[i].slot) < Index(pci_devices[j].slot)
      /\ \A n \in DOMAIN space :
           n < Index(at) => \E i \in 1..m : Index(pci_devices[i].slot) = n
  BY <1>1, <1>4 DEF Listed
<1>6. \A i \in 1..m : Index(pci_devices[i].slot) \in Nat
  <2>1. ASSUME NEW i \in 1..m PROVE Index(pci_devices[i].slot) \in Nat
    <3>1. Index(pci_devices[i].slot) \in DOMAIN space
      BY <1>5 DEF Copy
    <3> QED BY <1>1, <3>1, InSlots
  <2> QED BY <2>1
<1>7. \A n \in DOMAIN space : n \in Nat /\ (n < Index(next) => n < Index(at) \/ n = Index(at))
  <2>1. ASSUME NEW n \in DOMAIN space, n < Index(next)
        PROVE  n \in Nat /\ (n < Index(at) \/ n = Index(at))
    <3>1. PICK r \in PciSlot : n = Index(r) /\ n \in Nat
      BY <1>1, InSlots
    <3> QED BY <1>2, <1>3, <2>1, <3>1
  <2>2. \A n \in DOMAIN space : n \in Nat
    BY <1>1, InSlots
  <2> QED BY <2>1, <2>2
<1>8. PICK v : v = pci_read32(pci_addr(at.bus, at.device, at.func, 0))
  OBVIOUS
<1>9. v = IF Index(at) \in DOMAIN space THEN space[Index(at)][0] ELSE NONE
  <2>1. PICK o \in 0..255 : o = 0
    OBVIOUS
  <2>2. pci_read32(pci_addr(at.bus, at.device, at.func, o))
          = IF Index(at) \in DOMAIN space THEN space[Index(at)][o] ELSE NONE
    BY <1>2, Register
  <2> QED BY <1>8, <2>1, <2>2
<1>10. v = NONE <=> Index(at) \notin DOMAIN space
  BY <1>1, <1>9, InSlots
<1>11. CASE v = NONE
  <2>1. list = pci_devices
    BY <1>8, <1>11
  <2>2. ASSUME NEW i \in 1..m PROVE Index(pci_devices[i].slot) < Index(next)
    <3>1. PICK k \in Nat : k = Index(pci_devices[i].slot) /\ k < Index(at)
      BY <1>5, <1>6
    <3> QED BY <1>2, <1>3, <3>1
  <2>3. ASSUME NEW n \in DOMAIN space, n < Index(next)
        PROVE  \E i \in 1..m : Index(pci_devices[i].slot) = n
    BY <1>5, <1>7, <1>10, <1>11, <2>3
  <2> QED BY <1>3, <1>4, <1>5, <2>1, <2>2, <2>3
<1>12. CASE v # NONE
  <2>1. PICK d : d = Read(at) /\ Copy(d) /\ d.slot = at
    BY <1>1, <1>2, <1>10, <1>12, ReadIs
  <2>2. list = Append(pci_devices, d)
    BY <1>8, <1>12, <2>1
  <2>3. d \in pci_device_t
    BY <2>1 DEF Copy
  <2>4. /\ list \in Seq(pci_device_t) /\ Len(list) = m + 1 /\ list[m + 1] = d
        /\ \A i \in 1..m : list[i] = pci_devices[i]
    BY <1>4, <1>5, <2>2, <2>3, AppendProperties
  <2>5. ASSUME NEW i \in 1..(m + 1)
        PROVE  Copy(list[i]) /\ Index(list[i].slot) < Index(next)
    <3>1. CASE i = m + 1
      BY <1>3, <2>1, <2>4, <3>1
    <3>2. CASE i # m + 1
      <4>1. i \in 1..m
        BY <3>2
      <4>2. PICK k \in Nat : k = Index(pci_devices[i].slot) /\ k < Index(at) /\ Copy(pci_devices[i])
        BY <1>5, <1>6, <4>1
      <4>3. k < Index(next)
        BY <1>2, <1>3, <4>2
      <4> QED BY <2>4, <4>1, <4>2, <4>3
    <3> QED BY <3>1, <3>2
  <2>6. ASSUME NEW i \in 1..(m + 1), NEW j \in 1..(m + 1), i < j
        PROVE  Index(list[i].slot) < Index(list[j].slot)
    <3>1. i \in 1..m
      BY <2>6
    <3>2. CASE j = m + 1
      BY <1>5, <2>1, <2>4, <3>1, <3>2
    <3>3. CASE j # m + 1
      <4>1. j \in 1..m
        BY <3>3
      <4> QED BY <1>5, <2>4, <2>6, <3>1, <4>1
    <3> QED BY <3>2, <3>3
  <2>7. ASSUME NEW n \in DOMAIN space, n < Index(next)
        PROVE  \E i \in 1..(m + 1) : Index(list[i].slot) = n
    <3>1. CASE n = Index(at)
      <4>1. m + 1 \in 1..(m + 1) /\ Index(list[m + 1].slot) = n
        BY <2>1, <2>4, <3>1
      <4> QED BY <4>1
    <3>2. CASE n < Index(at)
      <4>1. PICK i \in 1..m : Index(pci_devices[i].slot) = n
        BY <1>5, <3>2
      <4>2. i \in 1..(m + 1) /\ Index(list[i].slot) = n
        BY <2>4, <4>1
      <4> QED BY <4>2
    <3> QED BY <1>7, <2>7, <3>1, <3>2
  <2> QED BY <1>3, <2>4, <2>5, <2>6, <2>7
<1> QED BY <1>11, <1>12

(* The search: the first entry of the class is the first of the machine.   *)
LEMMA FindStep ==
  ASSUME ScanHeld, boot = "init_disk", NEW d, d = pci_find_device(IDE)
  PROVE  \/ d = NULL /\ Controllers = {}
         \/ d # NULL /\ Copy(d) /\ First(Index(d.slot))
<1>1. space \in Machine /\ Listed /\ at \in Place /\ at.bus >= BUSES
  <2>1. space \in Machine /\ Listed /\ at \in Place /\ at.bus = BUSES
    BY DEF ScanHeld, Listed
  <2> QED BY <2>1, Sizes
<1>2. PICK m \in Nat : m = Len(pci_devices) /\ DOMAIN pci_devices = 1..m
  BY <1>1 DEF Listed
<1>3. /\ \A i \in 1..m : Copy(pci_devices[i])
      /\ \A i, j \in 1..m : i < j => Index(pci_devices[i].slot) < Index(pci_devices[j].slot)
  BY <1>1, <1>2 DEF Listed
<1>4. ASSUME NEW n \in DOMAIN space
      PROVE  n \in Nat /\ \E i \in 1..m : Index(pci_devices[i].slot) = n
  <2>1. PICK r \in PciSlot : n = Index(r) /\ n \in Nat
    BY <1>1, InSlots
  <2>2. n < Index(at)
    BY <1>1, <2>1, PlaceIs
  <2> QED BY <1>1, <1>2, <2>1, <2>2 DEF Listed
<1> DEFINE found == {i \in 1..m : pci_devices[i].class = IDE}
<1>5. d = IF found = {} THEN NULL ELSE pci_devices[Min(found)]
  BY <1>2 DEF pci_find_device
<1>6. ASSUME NEW n \in Controllers
      PROVE  n \in Nat /\ \E i \in found : Index(pci_devices[i].slot) = n
  <2>1. n \in DOMAIN space /\ space[n][8] = IDE
    BY DEF Controllers
  <2>2. PICK i \in 1..m : Index(pci_devices[i].slot) = n /\ n \in Nat
    BY <1>4, <2>1
  <2>3. pci_devices[i].class = IDE
    BY <1>3, <2>1, <2>2 DEF Copy
  <2> QED BY <2>2, <2>3
<1>7. found \in SUBSET Nat /\ \A i \in found : i \in 1..m /\ pci_devices[i].class = IDE
  OBVIOUS
<1> HIDE DEF found
<1>8. CASE found = {}
  <2>1. Controllers = {}
    BY <1>6, <1>8
  <2> QED BY <1>5, <1>8, <2>1
<1>9. CASE found # {}
  <2>1. PICK k \in found : k = Min(found) /\ \A i \in found : k <= i
    BY <1>7, <1>9, MinIs
  <2>2. d = pci_devices[k] /\ k \in 1..m /\ Copy(d) /\ d.class = IDE
    BY <1>3, <1>5, <1>7, <1>9, <2>1
  <2>3. d # NULL
    BY <2>2, PciAssumption DEF Copy
  <2>4. Index(d.slot) \in Controllers
    BY <2>2 DEF Copy, Controllers
  <2>5. ASSUME NEW n \in Controllers PROVE Index(d.slot) <= n
    <3>1. PICK i \in found : Index(pci_devices[i].slot) = n /\ n \in Nat
      BY <1>6
    <3>2. i \in 1..m /\ k <= i /\ k \in Nat /\ i \in Nat
      BY <1>7, <2>1, <2>2
    <3>3. PICK a \in Nat : a = Index(d.slot)
      BY <1>6, <2>4
    <3>4. CASE k = i
      BY <2>2, <3>1, <3>4, <3>3
    <3>5. CASE k < i
      <4>1. a < n
        BY <1>3, <2>2, <3>1, <3>2, <3>3, <3>5
      <4> QED BY <3>1, <3>3, <4>1
    <3> QED BY <3>2, <3>4, <3>5
  <2> QED BY <2>2, <2>3, <2>4, <2>5 DEF First
<1> QED BY <1>8, <1>9

(* The configuration space u after a write of val to the command register  *)
(* of n in space m.                                                        *)
Written(u, m, n, val) == u = [m EXCEPT ![n][4].command = val]

(* One field of one register of one function.                              *)
Changed(u, m, n, val) ==
  /\ DOMAIN u = DOMAIN m
  /\ \A k \in DOMAIN m : k # n => u[k] = m[k]
  /\ \A r \in DOMAIN m[n] : r # 4 => u[n][r] = m[n][r]
  /\ u[n][4] = [m[n][4] EXCEPT !.command = val] /\ u[n][4].command = val

LEMMA WrittenIs ==
  ASSUME NEW u, NEW m, NEW n, NEW val, n \in DOMAIN m, Written(u, m, n, val),
         4 \in DOMAIN m[n], "command" \in DOMAIN m[n][4]
  PROVE  Changed(u, m, n, val)
<1>1. PICK w : w = [m[n][4] EXCEPT !.command = val]
  OBVIOUS
<1>2. PICK g : g = [m[n] EXCEPT ![4] = w]
  OBVIOUS
<1>3. u = [m EXCEPT ![n] = g]
  BY <1>1, <1>2, Zenon DEF Written
<1>4. DOMAIN u = DOMAIN m /\ u[n] = g /\ \A k \in DOMAIN m : k # n => u[k] = m[k]
  BY <1>3
<1>5. g[4] = w /\ \A r \in DOMAIN m[n] : r # 4 => g[r] = m[n][r]
  BY <1>2
<1>6. w.command = val
  BY <1>1
<1> QED BY <1>1, <1>4, <1>5, <1>6, Zenon DEF Changed

(* pci_enable_bus_master writes to the register of its device.             *)
LEMMA WriteStep ==
  ASSUME ScanHeld, pci_enable_bus_master, BUS_MASTER \notin ide_dev.command
  PROVE  /\ Written(space', space, Index(ide_dev.slot), ide_dev.command \cup {BUS_MASTER})
         /\ ide_dev' = [ide_dev EXCEPT !.command = ide_dev.command \cup {BUS_MASTER}]
         /\ space \in Machine /\ Index(ide_dev.slot) \in DOMAIN space
         /\ 4 \in DOMAIN space[Index(ide_dev.slot)]
         /\ "command" \in DOMAIN space[Index(ide_dev.slot)][4]
<1>1. space \in Machine /\ Copy(ide_dev)
  BY DEF ScanHeld, Chosen, pci_enable_bus_master
<1>2. PICK s \in PciSlot : s = ide_dev.slot /\ Index(s) \in DOMAIN space
  BY <1>1 DEF Copy, pci_device_t
<1>3. PICK val, n : val = ide_dev.command \cup {BUS_MASTER} /\ n = Index(s)
  OBVIOUS
<1>4. ide_dev' = [ide_dev EXCEPT !.command = val]
  BY <1>3 DEF pci_enable_bus_master
<1>5. ide_dev'.command = val
  BY <1>1, <1>4 DEF Copy, pci_device_t
<1>6. PICK a : a = pci_addr(s.bus, s.device, s.func, 4) /\ a \div 256 = n /\ a % 256 = 4
  <2>1. PICK o \in 0..255 : o = 4
    OBVIOUS
  <2>2. /\ pci_addr(s.bus, s.device, s.func, o) \div 256 = Index(s)
        /\ pci_addr(s.bus, s.device, s.func, o) % 256 = o
    BY Address
  <2> QED BY <1>3, <2>1, <2>2
<1>7. 4 \in DOMAIN space[n] /\ "command" \in DOMAIN space[n][4]
  <2>1. 4 \in DOMAIN space[n] /\ space[n][4] \in [command : SUBSET Nat, status : SUBSET Nat]
    BY <1>1, <1>2, <1>3, InSlots
  <2> QED BY <2>1
<1>8. Written(space', space, n, val)
  <2>1. pci_write16(pci_addr(s.bus, s.device, s.func, 4), ide_dev'.command)
    BY <1>2, Zenon DEF pci_enable_bus_master
  <2>2. space' = [space EXCEPT ![a \div 256][a % 256].command = val]
    BY <1>5, <1>6, <2>1, Zenon DEF pci_write16
  <2>3. PICK d, r : d = a \div 256 /\ r = a % 256
    OBVIOUS
  <2>4. space' = [space EXCEPT ![d][r].command = val]
    BY <2>2, <2>3, Zenon
  <2>5. d = n /\ r = 4
    BY <1>6, <2>3
  <2> QED BY <2>4, <2>5, ZenonT(60) DEF Written
<1> QED BY <1>1, <1>2, <1>3, <1>4, <1>7, <1>8

(* The registers that are looked at are there.                             *)
LEMMA Registers ==
  ASSUME space \in Machine, NEW n \in DOMAIN space
  PROVE  0 \in DOMAIN space[n] /\ 4 \in DOMAIN space[n] /\ 8 \in DOMAIN space[n] /\ 32 \in DOMAIN space[n]
<1>1. {0, 4, 8} \cup {16 + 4 * i : i \in 0..5} \subseteq DOMAIN space[n]
  BY PciAssumption DEF Present
<1>2. 32 \in {16 + 4 * i : i \in 0..5}
  <2>1. 4 \in 0..5 /\ 32 = 16 + 4 * 4
    OBVIOUS
  <2> QED BY <2>1
<1> QED BY <1>1, <1>2

(* pci_enable_bus_master.                                                  *)
LEMMA EnableStep ==
  ASSUME ScanHeld, pci_enable_bus_master
  PROVE  ScanHeld'
<1>1. /\ boot = "enable" /\ boot' = "ready" /\ at' = at /\ pci_devices' = pci_devices
      /\ Chosen /\ space \in Machine
  BY DEF ScanHeld, pci_enable_bus_master
<1>2. CASE BUS_MASTER \in ide_dev.command
  <2>1. space' = space /\ ide_dev' = ide_dev
    BY <1>2 DEF pci_enable_bus_master
  <2>2. Chosen'
    BY <1>1, <2>1 DEF Chosen, Copy, First, Controllers, HasPort
  <2> QED BY <1>1, <1>2, <2>1, <2>2 DEF ScanHeld
<1>3. CASE BUS_MASTER \notin ide_dev.command
  <2>1. PICK n, val : n = Index(ide_dev.slot) /\ val = ide_dev.command \cup {BUS_MASTER}
    OBVIOUS
  <2>2. /\ ide_dev' = [ide_dev EXCEPT !.command = val] /\ Written(space', space, n, val)
        /\ n \in DOMAIN space /\ 4 \in DOMAIN space[n] /\ "command" \in DOMAIN space[n][4]
    BY <1>3, <2>1, WriteStep
  <2>3. Copy(ide_dev) /\ First(n) /\ HasPort(n) /\ ide_dev \in pci_device_t
    BY <1>1, <2>1 DEF Chosen, Copy
  <2>4. val \in SUBSET Nat /\ BUS_MASTER \in val
    BY <2>1, <2>3 DEF pci_device_t, BUS_MASTER
  <2>5. /\ ide_dev' \in pci_device_t /\ ide_dev'.slot = ide_dev.slot /\ ide_dev'.id = ide_dev.id
        /\ ide_dev'.command = val /\ ide_dev'.class = ide_dev.class /\ ide_dev'.bar = ide_dev.bar
    BY <2>2, <2>3, <2>4 DEF pci_device_t
  <2>7. /\ DOMAIN space' = DOMAIN space /\ n \in DOMAIN space
        /\ \A k \in DOMAIN space : k # n => space'[k] = space[k]
        /\ \A r \in DOMAIN space[n] : r # 4 => space'[n][r] = space[n][r]
        /\ space'[n][4].command = val
    <3>1. PICK u, m : u = space' /\ m = space /\ u = [m EXCEPT ![n][4].command = val]
      BY <2>2, Zenon DEF Written
    <3>2. Written(u, m, n, val)
      BY <3>1, Zenon DEF Written
    <3>3. n \in DOMAIN m /\ 4 \in DOMAIN m[n] /\ "command" \in DOMAIN m[n][4]
      BY <2>2, <3>1, Zenon
    <3>4. /\ DOMAIN u = DOMAIN m
          /\ \A k \in DOMAIN m : k # n => u[k] = m[k]
          /\ \A r \in DOMAIN m[n] : r # 4 => u[n][r] = m[n][r]
          /\ u[n][4].command = val
      <4>1. Changed(u, m, n, val)
        BY <3>2, <3>3, WrittenIs
      <4> QED BY <4>1, Zenon DEF Changed
    <3>5. u = space' /\ m = space
      BY <3>1, Zenon
    <3> QED BY <3>3, <3>4, <3>5, Zenon
  <2>8. \A k \in DOMAIN space : space'[k][0] = space[k][0] /\ space'[k][8] = space[k][8]
                                /\ space'[k][32] = space[k][32]
    <3>1. ASSUME NEW k \in DOMAIN space, k = n
          PROVE  space'[k][0] = space[k][0] /\ space'[k][8] = space[k][8] /\ space'[k][32] = space[k][32]
      BY <1>1, <2>7, <3>1, Registers
    <3> QED BY <2>7, <3>1
  <2>9. Controllers' = Controllers
    BY <2>7, <2>8 DEF Controllers
  <2>10. Index(ide_dev'.slot) = n
    BY <2>1, <2>5 DEF Index
  <2>11. Copy(ide_dev)'
    <3>1. /\ ide_dev'.id = space'[n][0] /\ ide_dev'.command = space'[n][4].command
          /\ ide_dev'.class = space'[n][8] /\ ide_dev'.bar[4] = space'[n][32]
      BY <2>1, <2>3, <2>5, <2>7, <2>8 DEF Copy
    <3> QED BY <2>5, <2>7, <2>10, <3>1 DEF Copy, Index
  <2>12. Chosen'
    <3>1. (First(Index(ide_dev.slot)))'
      BY <2>3, <2>9, <2>10 DEF First, Index
    <3>2. HasPort(n)'
      BY <2>2, <2>3, <2>8 DEF HasPort
    <3>3. HasPort(Index(ide_dev.slot))'
      BY <2>10, <3>2
    <3> QED BY <2>11, <3>1, <3>3 DEF Chosen
  <2> QED BY <1>1, <2>4, <2>5, <2>7, <2>12 DEF ScanHeld
<1> QED BY <1>2, <1>3

(* Every action.                                                           *)
LEMMA HeldStep ==
  ASSUME ScanHeld, PciNext
  PROVE  ScanHeld'
<1>1. ASSUME scan_pci PROVE ScanHeld'
  <2>1. boot = "scan" /\ space' = space /\ ide_dev' = ide_dev /\ space \in Machine /\ Listed
    BY <1>1 DEF scan_pci, ScanHeld
  <2>2. CASE at.bus < BUSES /\ at' = NextSlot(at) /\ boot' = boot
    <3>1. pci_devices' = IF pci_read32(pci_addr(at.bus, at.device, at.func, 0)) = NONE
                         THEN pci_devices ELSE Append(pci_devices, Read(at))
      <4>1. ~(at.bus >= BUSES)
        BY <2>1, <2>2, Sizes DEF Listed, Place
      <4> QED BY <1>1, <4>1 DEF scan_pci
    <3>2. PICK list, next : list = pci_devices' /\ next = at'
      OBVIOUS
    <3>3. /\ next \in Place /\ list \in Seq(pci_device_t)
          /\ \A i \in 1..Len(list) : Copy(list[i]) /\ Index(list[i].slot) < Index(next)
          /\ \A i, j \in 1..Len(list) : i < j => Index(list[i].slot) < Index(list[j].slot)
          /\ \A n \in DOMAIN space :
               n < Index(next) => \E i \in 1..Len(list) : Index(list[i].slot) = n
      BY <2>1, <2>2, <3>1, <3>2, ScanStep
    <3>4. Listed'
      BY <2>1, <3>2, <3>3 DEF Listed, Copy, Index
    <3> QED BY <2>1, <2>2, <3>4 DEF ScanHeld
  <2>3. CASE at.bus >= BUSES /\ boot' = "init_disk" /\ at' = at /\ pci_devices' = pci_devices
    <3>1. Listed'
      BY <2>1, <2>3 DEF Listed, Copy
    <3>2. at'.bus = BUSES
      BY <2>1, <2>3, PlaceIs DEF Listed
    <3> QED BY <2>1, <2>3, <3>1, <3>2 DEF ScanHeld
  <2> QED BY <1>1, <2>2, <2>3 DEF scan_pci
<1>2. ASSUME init_disk PROVE ScanHeld'
  <2>1. /\ boot = "init_disk" /\ space' = space /\ space \in Machine
        /\ ide_dev' = pci_find_device(IDE)
        /\ boot' = IF ide_dev' = NULL THEN "failed" ELSE IF bm_base(ide_dev'.bar[4]) = 0 THEN "failed" ELSE "enable"
    BY <1>2 DEF init_disk, ScanHeld
  <2>2. PICK d : d = ide_dev'
    OBVIOUS
  <2>3. \/ d = NULL /\ Controllers = {}
        \/ d # NULL /\ Copy(d) /\ First(Index(d.slot))
    BY <2>1, <2>2, FindStep
  <2>4. Controllers' = Controllers
    BY <2>1 DEF Controllers
  <2>5. CASE d = NULL
    <3>1. boot' = "failed" /\ Controllers' = {}
      BY <2>1, <2>2, <2>3, <2>4, <2>5
    <3> QED BY <2>1, <3>1 DEF ScanHeld
  <2>8. ASSUME d # NULL
        PROVE  /\ First(Index(d.slot)) /\ Index(d.slot) \in Controllers
               /\ bm_base(d.bar[4]) # 0 <=> HasPort(Index(d.slot))
    <3>1. PICK n \in DOMAIN space : n = Index(d.slot) /\ d.bar[4] = space[n][32]
      BY <2>3, <2>8 DEF Copy
    <3>2. PICK bar \in Nat : bar = space[n][32]
      BY <2>1, InSlots
    <3> QED BY <2>3, <2>8, <3>1, <3>2, PortIs DEF HasPort, First
  <2>6. CASE d # NULL /\ bm_base(d.bar[4]) = 0
    <3>1. boot' = "failed"
      BY <2>1, <2>2, <2>6
    <3>2. PICK n : n = Index(d.slot) /\ First(n) /\ ~HasPort(n)
      BY <2>6, <2>8
    <3>3. First(n)' /\ (~HasPort(n))' /\ n \in Controllers'
      BY <2>1, <2>4, <3>2 DEF First, HasPort
    <3> QED BY <2>1, <3>1, <3>3 DEF ScanHeld
  <2>7. CASE d # NULL /\ bm_base(d.bar[4]) # 0
    <3>1. boot' = "enable"
      BY <2>1, <2>2, <2>7
    <3>2. Chosen'
      BY <2>1, <2>2, <2>3, <2>4, <2>7, <2>8 DEF Chosen, Copy, First, Index, HasPort
    <3> QED BY <2>1, <3>1, <3>2 DEF ScanHeld
  <2> QED BY <2>5, <2>6, <2>7
<1>3. ASSUME pci_enable_bus_master PROVE ScanHeld'
  BY <1>3, EnableStep
<1>4. ASSUME Booted PROVE ScanHeld'
  BY <1>4 DEF Booted, pci_vars, ScanHeld, Listed, Chosen, Copy, First, Controllers, HasPort
<1> QED BY <1>1, <1>2, <1>3, <1>4 DEF PciNext

(* At every step of the boot the list of scan_pci is what a walk over the  *)
(* slots so far would find, and the device of init_disk is a true copy.    *)
THEOREM ScanAlwaysHeld == PciSpec => []ScanHeld
<1>1. PciInit => ScanHeld
  <2> SUFFICES ASSUME PciInit PROVE ScanHeld
    OBVIOUS
  <2>1. /\ space \in Machine /\ at = [bus |-> 0, device |-> 0, func |-> 0]
        /\ pci_devices = <<>> /\ boot = "scan"
    BY DEF PciInit
  <2>2. at \in Place /\ Index(at) = 0
    <3>1. 0 \in 0..BUSES /\ 0 \in 0..(DEVICES - 1) /\ 0 \in 0..(FUNCTIONS - 1)
      BY Sizes
    <3>2. at \in Place
      BY <2>1, <3>1 DEF Place
    <3>3. Index(at) = 0
      BY <2>1 DEF Index
    <3> QED BY <3>2, <3>3
  <2>3. pci_devices \in Seq(pci_device_t) /\ Len(pci_devices) = 0
    BY <2>1
  <2>4. \A n \in DOMAIN space : ~(n < 0)
    BY <2>1, InSlots
  <2>5. Listed
    BY <2>2, <2>3, <2>4 DEF Listed
  <2>6. DOMAIN space \subseteq Nat
    BY <2>1, InSlots
  <2> QED BY <2>1, <2>5, <2>6 DEF ScanHeld
<1>2. ScanHeld /\ [PciNext]_pci_vars => ScanHeld'
  <2>1. ASSUME ScanHeld, UNCHANGED pci_vars PROVE ScanHeld'
    BY <2>1 DEF pci_vars, ScanHeld, Listed, Chosen, Copy, First, Controllers, HasPort
  <2> QED BY <2>1, HeldStep
<1> QED BY <1>1, <1>2, PTL DEF PciSpec

(* The first controller is the least one.                                  *)
LEMMA FirstIsMin ==
  ASSUME DOMAIN space \subseteq Nat, NEW n, First(n)
  PROVE  Min(Controllers) = n
<1>1. n \in Controllers /\ \A k \in Controllers : n <= k
  BY DEF First
<1>2. ASSUME NEW k \in Controllers, \A y \in Controllers : k <= y PROVE k = n
  <2>1. k <= n /\ n <= k
    BY <1>1, <1>2
  <2>2. k \in Nat /\ n \in Nat
    BY <1>1 DEF Controllers
  <2> QED BY <2>1, <2>2
<1> QED BY <1>1, <1>2 DEF Min

(* Whatever is on the bus: init_disk ends with the first IDE controller,   *)
(* its own registers and its bus master bit, or it fails because there is  *)
(* none or that one has no port for its bus master.                        *)
THEOREM FirstControllerUsed == PciSpec => []FirstController
<1>1. ScanHeld => FirstController
  <2> SUFFICES ASSUME ScanHeld PROVE FirstController
    OBVIOUS
  <2>1. ASSUME NEW n, First(n) PROVE Min(Controllers) = n
    BY <2>1, FirstIsMin DEF ScanHeld
  <2> QED BY <2>1 DEF ScanHeld, FirstController, Chosen, Copy
<1> QED BY <1>1, ScanAlwaysHeld, PTL

(* The scan and the driver change nothing in configuration space but one   *)
(* bit of one register of the first controller: the address that is        *)
(* written to is its own, and the copy that is written back is still what  *)
(* the register holds.                                                     *)
THEOREM NothingElseChanges == PciSpec => OnlyBusMaster
<1>1. ScanHeld /\ [PciNext]_pci_vars
        => [\/ space' = space
            \/ space' = [space EXCEPT ![Min(Controllers)][4].command = @ \cup {BUS_MASTER}]]_pci_vars
  <2>1. ASSUME ScanHeld, PciNext, space' # space
        PROVE  space' = [space EXCEPT ![Min(Controllers)][4].command = @ \cup {BUS_MASTER}]
    <3>1. pci_enable_bus_master /\ BUS_MASTER \notin ide_dev.command
      BY <2>1 DEF PciNext, scan_pci, init_disk, pci_enable_bus_master, Booted, pci_vars
    <3>2. Chosen /\ DOMAIN space \subseteq Nat
      BY <2>1, <3>1 DEF ScanHeld, pci_enable_bus_master
    <3>3. PICK n, val : n = Index(ide_dev.slot) /\ val = ide_dev.command \cup {BUS_MASTER}
      OBVIOUS
    <3>4. First(n) /\ ide_dev.command = space[n][4].command
      BY <3>2, <3>3 DEF Chosen, Copy
    <3>5. Min(Controllers) = n
      BY <3>2, <3>4, FirstIsMin
    <3>6. val = space[n][4].command \cup {BUS_MASTER}
      BY <3>3, <3>4
    <3>7. space' = [space EXCEPT ![n][4].command = val]
      BY <2>1, <3>1, <3>3, WriteStep, Zenon DEF Written
    <3>8. space' = [space EXCEPT ![n][4].command = space[n][4].command \cup {BUS_MASTER}]
      BY <3>6, <3>7, Zenon
    <3>9. space' = [space EXCEPT ![n][4].command = @ \cup {BUS_MASTER}]
      BY <3>8, Zenon
    <3> QED BY <3>5, <3>9, Zenon
  <2> QED BY <2>1
<1> QED BY <1>1, ScanAlwaysHeld, PTL DEF PciSpec, OnlyBusMaster
=============================================================================
