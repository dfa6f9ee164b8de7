---------------------------- MODULE UringJournal ----------------------------
(***************************************************************************)
(* io/io_uring_durable_journal.hpp, used through storage/durable_sink.hpp: *)
(* an append-only journal of one producer whose slots are written to an    *)
(* O_DIRECT file by an io_uring with a kernel poller (SQPOLL), and the     *)
(* recovery scan of storage/journal_tail_validator.hpp.                    *)
(*                                                                         *)
(* Offsets are counted in strides.  A frame is the generation that wrote   *)
(* it; 0 is a slot without the frame magic.  Actors: the producer, the     *)
(* kernel (poller, device), and a crash that may lose whatever the device  *)
(* has not been told to sync.  The device may refuse a write: an O_DIRECT  *)
(* write of sizeof(EventType) bytes fails unless that is a whole number of *)
(* sectors, and any write may meet an I/O error.                           *)
(***************************************************************************)
EXTENDS Integers, Sequences, FiniteSets

CONSTANTS Slots,          \* JournalSizeBytes / STRIDE
          SqEntries,      \* depth of the submission queue (256 in the code)
          MayRefuse,      \* the device may refuse a write
          MaxGenerations  \* bound on reset() and reopening

ASSUME JournalAssumption == /\ Slots \in Nat \ {0}
                            /\ SqEntries \in Nat \ {0}
                            /\ MayRefuse \in BOOLEAN
                            /\ MaxGenerations \in Nat \ {0}

VARIABLES
  write_cursor,       \* next slot to reserve
  persistent_horizon, \* what get_sync_watermark() returns
  submission_pulse,   \* writes given a submission entry
  completion_pulse,   \* completions harvested
  arena,              \* the anonymous mapping the frames are built in
  generation,         \* which reset or reopening the producer is in
  pc,                 \* where the producer is
  sqLocal,            \* entries taken by get_sqe, tail not yet published
  sqPublished,        \* entries the kernel poller may take
  poller,             \* "asleep" is IORING_SQ_NEED_WAKEUP
  inFlight,           \* entries the device is executing
  cq,                 \* completions nobody has seen yet
  cache,              \* what the device holds, synced or not
  disk,               \* what survives the loss of power
  submitted,          \* history: slots of this generation given an entry
  flushed,            \* history: the ones a returned force_flush covers
  refused             \* history: the ones the device did not write

cursors == <<write_cursor, persistent_horizon>>
pulses  == <<submission_pulse, completion_pulse>>
kernel  == <<sqLocal, sqPublished, poller, inFlight, cq>>
device  == <<cache, disk>>
history == <<submitted, flushed, refused>>
vars == <<cursors, pulses, arena, generation, pc, kernel, device, history>>

SlotIds     == 0 .. Slots - 1
Frames      == 0 .. MaxGenerations
Write(s)    == [op |-> "write", slot |-> s]
Fsync       == [op |-> "fsync", slot |-> 0]
Entries     == {Write(s) : s \in SlotIds} \cup {Fsync}
Completions == {"write", "write failed", "fsync", "fsync failed"}
Failed(c)   == c \in {"write failed", "fsync failed"}    \* cqe->res < 0

Init ==
  /\ write_cursor = 0 /\ persistent_horizon = 0
  /\ submission_pulse = 0 /\ completion_pulse = 0
  /\ arena = [s \in SlotIds |-> 0]
  /\ generation = 1
  /\ pc = "idle"
  /\ sqLocal = <<>> /\ sqPublished = <<>> /\ poller = "awake"
  /\ inFlight = {} /\ cq = <<>>
  /\ cache = [s \in SlotIds |-> 0] /\ disk = [s \in SlotIds |-> 0]
  /\ submitted = {} /\ flushed = {} /\ refused = {}

-----------------------------------------------------------------------------
(* The submission side of liburing, as uring_shim.hpp calls it.            *)

HasSqe == Len(sqLocal) + Len(sqPublished) < SqEntries

\* io_uring_submit: publish the tail, and wake the poller that asked for it.
Submit(local) ==
  /\ sqLocal' = <<>>
  /\ sqPublished' = sqPublished \o local
  /\ poller' = "awake"

\* Only a poller that asked to be woken is submitted to: until it falls
\* asleep the entry stays behind the unpublished tail.
SubmitIfNeeded(local) ==
  IF poller = "asleep" THEN Submit(local)
  ELSE sqLocal' = local /\ UNCHANGED <<sqPublished, poller>>

-----------------------------------------------------------------------------
(* The producer.                                                           *)

\* reserve_slot; the caller then fills the slot.
ReserveSlot ==
  /\ pc = "idle" /\ write_cursor < Slots
  /\ write_cursor' = write_cursor + 1
  /\ arena' = [arena EXCEPT ![write_cursor] = generation]
  /\ pc' = "holding"
  /\ UNCHANGED <<persistent_horizon, pulses, generation, kernel, device, history>>

\* reserve_slot past the end of the arena: nullptr, but the cursor moves.
\* The bound: one refused reservation per generation.
ReserveRefused ==
  /\ pc = "idle" /\ write_cursor = Slots
  /\ write_cursor' = write_cursor + 1
  /\ UNCHANGED <<persistent_horizon, pulses, arena, generation, pc, kernel,
                 device, history>>

\* Mutant: the pulse is counted whether or not an entry was there.
CommitSlotCountsAll ==
  /\ pc = "holding"
  /\ IF HasSqe
     THEN /\ SubmitIfNeeded(Append(sqLocal, Write(write_cursor - 1)))
          /\ submitted' = submitted \cup {write_cursor - 1}
     ELSE UNCHANGED <<sqLocal, sqPublished, poller, submitted>>
  /\ submission_pulse' = submission_pulse + 1
  /\ persistent_horizon' = persistent_horizon + 1
  /\ pc' = "idle"
  /\ UNCHANGED <<write_cursor, completion_pulse, arena, generation, inFlight,
                 cq, device, flushed, refused>>

\* commit_slot: without a free entry nothing is written, and the horizon
\* advances all the same.
CommitSlot ==
  /\ pc = "holding"
  /\ IF HasSqe
     THEN /\ SubmitIfNeeded(Append(sqLocal, Write(write_cursor - 1)))
          /\ submission_pulse' = submission_pulse + 1
          /\ submitted' = submitted \cup {write_cursor - 1}
     ELSE UNCHANGED <<sqLocal, sqPublished, poller, submission_pulse, submitted>>
  /\ persistent_horizon' = persistent_horizon + 1
  /\ pc' = "idle"
  /\ UNCHANGED <<write_cursor, completion_pulse, arena, generation, inFlight,
                 cq, device, flushed, refused>>

\* poll_completions: the harvest counts every completion, whatever it is of
\* and whatever its result.
Harvest ==
  /\ cq' = <<>>
  /\ completion_pulse' = completion_pulse + Len(cq)

PollCompletions ==
  /\ pc = "idle" /\ cq # <<>>
  /\ Harvest
  /\ UNCHANGED <<cursors, submission_pulse, arena, generation, pc, sqLocal,
                 sqPublished, poller, inFlight, device, history>>

\* reset(); the bound is on generations.
Reset ==
  /\ pc = "idle" /\ generation < MaxGenerations
  /\ write_cursor' = 0 /\ persistent_horizon' = 0
  /\ submission_pulse' = 0 /\ completion_pulse' = 0
  /\ generation' = generation + 1
  /\ submitted' = {} /\ flushed' = {} /\ refused' = {}
  /\ UNCHANGED <<arena, pc, kernel, device>>

\* When the modelled caller resets.  The code has no such test: durable_sink
\* calls reset "an out-of-band operation", and here that is one with every
\* write of the generation flushed.
OutOfBand == submitted # {} /\ flushed = submitted

\* force_flush, from the caller ("flush") or the destructor ("close").
Flushing == pc \in {"flush", "close"}
Awaiting == pc \in {"flush sync", "close sync"}

ForceFlush ==
  /\ pc = "idle"
  /\ pc' \in {"flush", "close"}
  /\ UNCHANGED <<cursors, pulses, arena, generation, kernel, device, history>>

\* Mutant: the wait never looks at the poller.
FlushDrainBlind ==
  /\ Flushing /\ completion_pulse < submission_pulse
  /\ Harvest
  /\ UNCHANGED <<cursors, submission_pulse, arena, generation, pc, sqLocal,
                 sqPublished, poller, inFlight, device, history>>

\* One turn of the wait for the submitted writes.
FlushDrain ==
  /\ Flushing /\ completion_pulse < submission_pulse
  /\ Harvest
  /\ SubmitIfNeeded(sqLocal)
  /\ UNCHANGED <<cursors, submission_pulse, arena, generation, pc, inFlight,
                 device, history>>

\* Mutant: the sync is issued without waiting for the writes.
FlushSyncEarly ==
  /\ Flushing /\ HasSqe
  /\ Submit(Append(sqLocal, Fsync))
  /\ pc' = IF pc = "flush" THEN "flush sync" ELSE "close sync"
  /\ UNCHANGED <<cursors, pulses, arena, generation, inFlight, cq, device,
                 history>>

\* Every write has completed, so the queue has room: the loop that waits for
\* an entry is not entered.
FlushSync ==
  /\ Flushing /\ completion_pulse >= submission_pulse /\ HasSqe
  /\ Submit(Append(sqLocal, Fsync))
  /\ pc' = IF pc = "flush" THEN "flush sync" ELSE "close sync"
  /\ UNCHANGED <<cursors, pulses, arena, generation, inFlight, cq, device,
                 history>>

\* Mutant: the completion is not marked as seen.
FlushReturnUnseen ==
  /\ pc = "flush sync" /\ cq # <<>> /\ ~Failed(Head(cq))
  /\ pc' = "idle"
  /\ flushed' = submitted
  /\ UNCHANGED <<cursors, pulses, arena, generation, kernel, device, submitted, refused>>

\* io_uring_wait_cqe takes the oldest completion for the sync's.
FlushReturn ==
  /\ pc = "flush sync" /\ cq # <<>> /\ ~Failed(Head(cq))
  /\ cq' = Tail(cq)
  /\ pc' = "idle"
  /\ flushed' = submitted
  /\ UNCHANGED <<cursors, pulses, arena, generation, sqLocal, sqPublished,
                 poller, inFlight, device, submitted, refused>>

\* Everything the process and its ring held is gone.
ProcessEnds ==
  /\ pc' = "down"
  /\ sqLocal' = <<>> /\ sqPublished' = <<>> /\ poller' = "awake"
  /\ inFlight' = {} /\ cq' = <<>>
  /\ arena' = [s \in SlotIds |-> 0]

Truncate(content, length) ==
  [s \in SlotIds |-> IF s < length THEN content[s] ELSE 0]

\* The destructor after its flush, failed or not: cut the file to the horizon.
Close ==
  /\ pc = "close sync" /\ cq # <<>>
  /\ flushed' = IF Failed(Head(cq)) THEN flushed ELSE submitted
  /\ disk' = Truncate(disk, persistent_horizon)
  /\ cache' = Truncate(cache, persistent_horizon)
  /\ ProcessEnds
  /\ UNCHANGED <<cursors, pulses, generation, submitted, refused>>

-----------------------------------------------------------------------------
(* The kernel and the device.                                              *)

PollerTake ==
  /\ poller = "awake" /\ sqPublished # <<>>
  /\ inFlight' = inFlight \cup {Head(sqPublished)}
  /\ sqPublished' = Tail(sqPublished)
  /\ UNCHANGED <<cursors, pulses, arena, generation, pc, sqLocal, poller, cq,
                 device, history>>

\* The idle time of the poller has passed with nothing published.
PollerSleep ==
  /\ poller = "awake" /\ sqPublished = <<>> /\ pc # "down"
  /\ poller' = "asleep"
  /\ UNCHANGED <<cursors, pulses, arena, generation, pc, sqLocal, sqPublished,
                 inFlight, cq, device, history>>

\* Completions come in any order.
WriteDone(s) ==
  /\ Write(s) \in inFlight
  /\ inFlight' = inFlight \ {Write(s)}
  /\ cache' = [cache EXCEPT ![s] = arena[s]]
  /\ cq' = Append(cq, "write")
  /\ UNCHANGED <<cursors, pulses, arena, generation, pc, sqLocal, sqPublished,
                 poller, disk, history>>

\* The write fails and the device keeps what it had.
WriteRefused(s) ==
  /\ MayRefuse /\ Write(s) \in inFlight
  /\ inFlight' = inFlight \ {Write(s)}
  /\ cq' = Append(cq, "write failed")
  /\ refused' = refused \cup {s}
  /\ UNCHANGED <<cursors, pulses, arena, generation, pc, sqLocal, sqPublished,
                 poller, device, submitted, flushed>>

FsyncDone ==
  /\ Fsync \in inFlight
  /\ inFlight' = inFlight \ {Fsync}
  /\ disk' = cache
  /\ cq' = Append(cq, "fsync")
  /\ UNCHANGED <<cursors, pulses, arena, generation, pc, sqLocal, sqPublished,
                 poller, cache, history>>

FsyncFails ==
  /\ Fsync \in inFlight
  /\ inFlight' = inFlight \ {Fsync}
  /\ cq' = Append(cq, "fsync failed")
  /\ UNCHANGED <<cursors, pulses, arena, generation, pc, sqLocal, sqPublished,
                 poller, device, history>>

-----------------------------------------------------------------------------
(* Loss of power, recovery, and the next process.                          *)

\* What a slot may hold after the loss of power: what was synced, what the
\* device had not synced yet, or the write it was executing.
Survivors(s) ==
  {disk[s], cache[s]} \cup {arena[t] : t \in {s} \cap {e.slot : e \in inFlight \ {Fsync}}}

Lose ==
  /\ disk' \in {f \in [SlotIds -> Frames] : \A s \in SlotIds : f[s] \in Survivors(s)}
  /\ cache' = disk'
  /\ ProcessEnds

Crash ==
  /\ pc # "down" /\ pc # "recovered"
  /\ Lose
  /\ UNCHANGED <<cursors, pulses, generation, history>>

\* durable_sink::force_flush is noexcept, so a failed sync ends the process.
FlushFails ==
  /\ pc = "flush sync" /\ cq # <<>> /\ Failed(Head(cq))
  /\ Lose
  /\ UNCHANGED <<cursors, pulses, generation, history>>

\* valid_journal_strided_prefix_bytes, in strides.
ValidPrefix(content) ==
  CHOOSE n \in 0 .. Slots :
    /\ \A s \in 0 .. n - 1 : content[s] # 0
    /\ n < Slots => content[n] = 0

\* The scan, and the truncation of what follows.
Recover ==
  /\ pc = "down"
  /\ disk' = Truncate(disk, ValidPrefix(disk))
  /\ cache' = disk'
  /\ pc' = "recovered"
  /\ UNCHANGED <<cursors, pulses, arena, generation, kernel, history>>

\* The constructor: the cursors start at zero over what the file holds.
Reopen ==
  /\ pc = "recovered" /\ generation < MaxGenerations
  /\ write_cursor' = 0 /\ persistent_horizon' = 0
  /\ submission_pulse' = 0 /\ completion_pulse' = 0
  /\ generation' = generation + 1
  /\ pc' = "idle"
  /\ submitted' = {} /\ flushed' = {} /\ refused' = {}
  /\ UNCHANGED <<arena, kernel, device>>

-----------------------------------------------------------------------------
Producer == \/ ReserveSlot \/ ReserveRefused \/ CommitSlot \/ PollCompletions
            \/ (OutOfBand /\ Reset) \/ ForceFlush \/ FlushDrain \/ FlushSync
            \/ FlushReturn \/ Close

Kernel == \/ PollerTake \/ PollerSleep \/ FsyncDone \/ FsyncFails
          \/ \E s \in SlotIds : WriteDone(s) \/ WriteRefused(s)

Next == Producer \/ Kernel \/ Crash \/ FlushFails \/ Recover \/ Reopen

FlushStep  == FlushDrain \/ FlushSync \/ FlushReturn \/ FlushFails \/ Close
PollerStep == PollerTake \/ PollerSleep

\* The producer's thread runs while it is inside a call, the poller falls
\* asleep when it is idle for long enough, and the device answers.
Fairness ==
  /\ WF_vars(FlushStep) /\ WF_vars(PollerStep)
  /\ WF_vars(FsyncDone \/ FsyncFails)
  /\ \A s \in SlotIds : WF_vars(WriteDone(s) \/ WriteRefused(s))

Spec == Init /\ [][Next]_vars /\ Fairness

-----------------------------------------------------------------------------
\* Every variable has its type: no more entries are queued than the ring of
\* io_uring_queue_init_params has, and no more completions are counted than a
\* generation has slots.
TypeOK ==
  /\ write_cursor \in 0 .. Slots + 1
  /\ persistent_horizon \in 0 .. Slots
  /\ submission_pulse \in 0 .. Slots
  /\ completion_pulse \in 0 .. Slots
  /\ generation \in 1 .. MaxGenerations
  /\ pc \in {"idle", "holding", "flush", "close", "flush sync", "close sync",
             "down", "recovered"}
  /\ arena \in [SlotIds -> Frames]
  /\ sqLocal \in Seq(Entries) /\ sqPublished \in Seq(Entries)
  /\ Len(sqLocal) + Len(sqPublished) <= SqEntries
  /\ poller \in {"awake", "asleep"}
  /\ inFlight \in SUBSET Entries
  /\ cq \in Seq(Completions)
  /\ cache \in [SlotIds -> Frames] /\ disk \in [SlotIds -> Frames]
  /\ flushed \in SUBSET submitted /\ refused \in SUBSET submitted
  /\ submitted \in SUBSET SlotIds

Writes(q) == Len(SelectSeq(q, LAMBDA e : e.op = "write"))

\* While the process runs, the submitted writes are the harvested ones and
\* those still in a queue, at the device or on the completion ring: no
\* completion is counted twice or lost, and none of a sync is counted as one
\* of a write.  This is what the wait of force_flush relies on.
PulsesAgree ==
  pc \notin {"down", "recovered"} =>
    submission_pulse = completion_pulse + Writes(sqLocal) + Writes(sqPublished)
                       + Cardinality(inFlight \ {Fsync})
                       + Len(SelectSeq(cq, LAMBDA c : c \in {"write", "write failed"}))

\* A slot whose write was submitted before a force_flush that returned, and
\* which the device did not refuse, holds its frame whatever is lost
\* afterwards; recovery keeps it as long as every slot below it is such a slot.
WrittenSurvives ==
  \A s \in flushed \ refused :
    (pc # "recovered" \/ 0 .. s - 1 \subseteq flushed \ refused) => disk[s] = generation

\* A force_flush ends: the caller goes on, or the process is gone.
FlushEnds == (Flushing \/ Awaiting) ~> ~(Flushing \/ Awaiting)

\* When a force_flush has returned and nothing was committed since, every
\* slot below the horizon is durable: the test's "ensuring disk persistence".
FlushCoversHorizon ==
  flushed = submitted /\ flushed # {} /\ pc = "idle" =>
    \A s \in 0 .. persistent_horizon - 1 : disk[s] = generation

\* "Force flush executes an io_uring FSYNC and waits for it, ensuring disk
\* persistence" (the journal's test): what was submitted before a force_flush
\* that returned is on disk.
FlushedSurvives ==
  pc # "recovered" => \A s \in flushed : disk[s] = generation
=============================================================================
