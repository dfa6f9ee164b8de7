# SlabFlux: TLA+ specifications and proofs

SlabFlux (`src/include/slabflux`) is a C++20 header library: lock-free queues
("conduits") and memory pools, a runtime that moves frames through them,
ordering and journaling of frames by log sequence number (LSN), and a network
stack. This directory specifies the parts whose correctness rests on
interleavings, lost or repeated messages and crashes. TLC checks the
specifications on small instances. TLAPS proves the single-producer queues for
every size.

`PROJECT.json` maps every definition to the lines it models and lists the runs,
the mutants, the findings, the hazards and the components.

## 1. The system

| part | state | operations | what is hard about it |
|---|---|---|---|
| SPSC conduits (`core/spsc_conduit.hpp`, `core/spsc_ring_conduit.hpp`) | ring, a gate per side, a cached copy of the other side's gate | push, pop, batches, peek/consume, reserve/commit, revert | stale shadow cursors, wrap-around, pointers handed out while the other side runs |
| MPMC conduit (`core/mpmc_conduit.hpp`) | lanes of slots with a ticket each, two gates per lane | try_push/try_pop, batches, invalidate_by_ptr | races for tickets, batches that wait for each other, vector stores |
| pools (`core/mpmc_pool.hpp`, `core/mpsc_pool.hpp`) | free lists with tagged heads; a private stack and a return ring | allocate, release, batches, sweep | ABA, lost nodes, a releaser waiting for the producer |
| epoch reclamation (`core/epoch_manager.hpp`, `core/ebr_reclamation_queue.hpp`, ticket vault in `security/tls_handshake_machine.hpp`) | global epoch, announced epochs, graveyard | enter/leave, retire, scavenge, store, sweep | use after release, delayed stores |
| ordering (`dist/causal_sequencer.hpp`, `core/hole_puncher.hpp`, `net/nexus_connector.hpp`, `core/sf_node_ctx.hpp`) | window of slots, expected LSN, horizon | push_and_align, poll, insert, flush_ready, on_raw_frame | reordering, duplicates, slots shared by LSNs a window apart |
| journals (`io/io_uring_durable_journal.hpp`, `io/durable_journal.hpp`, `storage/*`) | cursors, submission and completion counts, file | reserve, commit, force_flush, reopen, recovery scan | asynchronous completion, full queues, loss of power |
| sender side (`net/retransmission_buffer.hpp`, `net/nack_handler.hpp`) | ring of sent frames | insert, get, resend on NACK | frames overwritten while they are resent |
| runtime (`rte/environment.hpp`, `core/chip_genesis.hpp`, `core/backpressure_valve.hpp`) | compute loop, token bucket | pop, journal, route, stall | a stall that stops what would end it |
| network and services (`net/tcp_*`, `security/tls_*`, `workflow/*`, `cluster/*`, `orchestration/*`, timers) | connections, sagas, clocks | see section 8 | timeouts, retries, partial failure |

They compose as follows. Frames come from an I/O engine into pool memory, pass a
conduit to the compute thread, are put in LSN order, journaled and routed; their
memory returns through the pools' return paths. The graveyard of epoch
reclamation is itself a ring conduit, and the MPSC pool's return path is a
ticketed ring like an MPMC lane.

## 2. Modules

| module | code | state and actions |
|---|---|---|
| `BoundedFifo` | abstract | a queue of at most `Capacity` items; enqueue or refuse, dequeue or find empty, atomically |
| `SpscConduit` | `core/spsc_conduit.hpp` | gates, local and cached cursors, slots; a call is claim, one step per slot, publish |
| `SpscRingConduit` | `core/spsc_ring_conduit.hpp` | extends it with reserve/commit in place and look-ahead by pointer |
| `SpscConduitRecovery` | `core/spsc_conduit.hpp` | `revert_batch` |
| `SpscConduitProofs`, `SpscRingConduitProofs` | | the theorems |
| `MpmcConduit` | `core/mpmc_conduit.hpp` | tickets, gates, one step per shared access, several lanes |
| `MpmcConduitInspect` | same | adds `invalidate_by_ptr`: a group of slots is loaded, compared and stored while the threads go on |
| `MCMpmcConduit` | | thread symmetry for TLC |
| `MpmcPool` | `core/mpmc_pool.hpp` | lanes of linked free nodes, heads with an epoch tag |
| `MpscPool` | `core/mpsc_pool.hpp` | producer's stack, return ring with tickets, sweep in bursts |
| `EpochVault` | epoch manager, reclamation queue, ticket vault | readers in an epoch guard, storers (store, sweep), scavengers, any number of each; optional store buffers |
| `CausalSequencer` | `dist/causal_sequencer.hpp` | slots, presence bits in words, expected LSN |
| `NexusConnector` | `net/nexus_connector.hpp`, `core/hole_puncher.hpp`, `core/sf_node_ctx.hpp` | one action, `on_raw_frame`; the hole puncher is a record its functions transform |
| `UringJournal` | `io/io_uring_durable_journal.hpp`, `storage/durable_sink.hpp`, `storage/journal_tail_validator.hpp` | producer, kernel poller, device that may refuse, its cache, disk, loss of power, recovery, reopening |
| `MCConduits`, `MCProgress`, `MCSubstrate` | | components side by side for TLC; a variable `active` picks the one that moves, so its states are those of the components, not their product |

Every step is one access to memory shared between threads, or a whole handler
where only one thread touches the state. Items, frames and nodes are model values
or numbers. Definitions whose comment starts with "Mutant" are plausible bugs:
replacing the named definition by its mutant makes TLC report the property, which
shows the property can fail.

## 3. Runs

| run | shows | instance |
|---|---|---|
| `conduits` | ring: the inductive invariant, FIFO, pointers from peek stay valid, refinement of `BoundedFifo`, every item arrives. Lanes: refusals are honest, every position is popped. Purge: its target is gone, items stored before or after the scan are unharmed | 2 slots, 2 items, batches to 3, 4 sends: two wraps; 2 lanes of 2, 5 items; 3 items with a purge, groups of 2 slots |
| `mpmc_conduit` | slots are owned by one thread, tickets name the item written, published items stay intact | 2 producers, 2 consumers, one lane of 2 |
| `progress` | pools: no node is given out twice or lost, exhaustion is honest, calls end, released nodes come back, a release never waits. Journal: submission and completion counts agree, what a returned `force_flush` covers and the device accepted survives any crash, a flush ends | 2 threads, 2 lanes, 4 nodes, 4 calls; 2 releasers, 2 nodes, bursts of 1, 7 tickets; 3 slots, queue of 2, 2 generations |
| `substrate` | vault: no ticket is recycled under a reader, none leaks, a quiet scavenge empties the graveyard. Sequencer: only a repeated packet can be misplaced, nothing stored is lost, `poll_batch` equals repeated `poll_ready`. Nexus: frames come out in LSN order, every LSN has one fate | 2 readers, 1 storer, 1 scavenger, 2 tickets, 3 epochs; window 4 of 2-bit words, LSNs to 9; puncher window 128 with LSNs chosen at its edges and thresholds, 6 frames |
| `spsc_revert`, `mpmc_wide`, `epoch_buffered`, `vault_workers`, `uring_gap`, `uring_refused`, `causal_repeat`, `nexus_drops` | expected violations, section 4 | the smallest instance that shows them |

Why the bounds are enough for the cases of interest: every ring wraps at least
once, every batch can be longer than the room, every queue can be full and empty,
every pair of racing threads can be anywhere in its call, and each policy
threshold is crossed. They are not exhaustive: an effect that needs three
threads of one kind, or more items, is outside them.

Deadlock checking is off where a bound on calls, epochs, LSNs or generations ends
every behaviour, and only there.

`CallsEnd` is lock-freedom of `mpmc_pool`: a compare-and-swap fails only because
another call's succeeded, and the run bounds the calls. It does not establish the
"Wait-free O(1)" of `mpmc_pool.hpp:94`, which with an unbounded number of competing
calls does not follow from a retry loop.

Fairness. Threads that are inside a call keep running, since the code has no
locks and no blocking wait other than those modelled. Consumers poll, as the
service loops do. In `UringJournal` the device answers and the poller falls asleep
after its idle time; callers are not required to call anything.

## 4. Disagreements between code and documentation

* `spsc_revert`: `revert_batch` rewrites slots `pop_batch` has already released; a
  producer that refilled them loses its items.
* `mpmc_wide`: a short `push_batch` chunk is stored eight slots wide and overwrites
  slots whose tickets it does not own.
* `epoch_buffered`: `enter()` announces its epoch without a fence, so a scan can miss
  a reader that already holds a pointer.
* `vault_workers`: `store` and `sweep_expired` retire into a single-producer ring from
  any worker. Two workers write the same graveyard slot and one ticket is lost.
* `uring_gap`: a commit that finds the submission queue full writes nothing and still
  advances the horizon. Entries are published only when the poller has gone to
  sleep, so a burst of 256 commits is enough.
* `uring_refused`: completions are counted whatever their result, so `force_flush` returns
  although the device refused a write. `WrittenSurvives` is what holds: the slots
  that were submitted, flushed and not refused are durable.
* `causal_repeat`: the direct path of `push_and_align` leaves an already stored copy of the
  packet in its slot, and it is delivered a window later in another packet's
  place. `OnlyRepeatsMisplaced` is what holds: nothing else breaks the order.
* `nexus_drops`: the jitter policy skips the oldest 5% of the window whether or not the
  slots hold frames. `FramesAccounted` is what holds: every LSN that was passed was
  propagated, missing when it was skipped, or dropped by this policy.

Observed while modelling, with no run:

* Lanes of one slot make `pos + 1` and `pos + LaneCapacity` the same ticket
  (`mpmc_conduit.hpp:147`). `MpmcAssumption` excludes them.
* `pop_batch` of the MPMC conduit spins on positions a producer has claimed and not
  published (`mpmc_conduit.hpp:493`), so consumers are not wait-free.
* `occupancy()` loads two gates at different instants and can wrap (`:331`).
* The remainder of `Capacity / NumLanes` nodes of a pool is never handed out
  (`mpmc_pool.hpp:194`). With a capacity below `NumLanes` no lane has nodes of its own, yet
  every head is set to node 0 (`mpmc_pool.hpp:201`), so every lane would hand out that
  node. `PoolAssumption` excludes it.
* `invalidate_by_ptr` of the MPMC conduit writes a whole group back with AVX2
  (`mpmc_conduit.hpp:604`). A slot that a push filled after the group was loaded gets its
  old content back, and the pushed item is lost. `PurgeExact` leaves out the items
  stored while the scan runs; without that exclusion TLC finds this loss.
* `spsc_conduit::invalidate_by_ptr` scans the free part of the ring when the live part
  wraps (`spsc_conduit.hpp:460`).
* LSN 0 marks a frame without an LSN and is also the first expected one
  (`nexus_connector.hpp:79`).
* `truncate_journal_tail` scans without the stride (`journal_tail_validator.hpp:146`) and
  `durable_source` replays with a stride of 64 bytes (`durable_source.hpp:92`), while the
  journal writes in strides of 512.
* The compute loop journals through `append`, `write` or `write_batch`
  (`environment.hpp:689`). `durable_journal` has none of them, so with it nothing is journaled.

## 5. Proofs

Assumptions: `Size` is a positive natural, `NoItem` is not an item, `MaxBatch` is a
positive natural and `MaxSent` a natural. Nothing else is assumed about the constants.

`SpscConduitProofs` proves `Spec => []Inv`, and from it that delivery is first in first
out, that a peeked pointer stays valid, and that the conduit implements
`BoundedFifo`. `FifoOrder` alone is not inductive: it says nothing about the slots, and
the producer decides on a copy of the head that may be many pops old. `Inv` adds

1. `CursorOrder`: cached head <= head <= cached tail <= tail <= cached head + `Size`. The
   last inequality uses the *cached* head, which is why a stale copy is harmless;
2. `ClaimFits`: what a call has claimed fits into what its own cached cursor allows;
3. `LiveSlotsIntact`: slots between head and tail hold what was sent. The step that
   needs work is the producer's fill: two positions less than `Size` apart have
   different slots (`SlotDistinct`);
4. `PartialCopies` and `HistoryLength`, which carry a batch that is half copied.

There is one lemma per action. `SpscRingConduitProofs` does the same for the ring
conduit with reservations and look-ahead, reusing those lemmas: theorems
`RingInvariance`, `RingFifoOrder`, `LookAheadIsStable`, `RingRefinement`. In the refinement
a publish maps to an enqueue, a retire to a dequeue, and every other step to a
stutter, or to a refusal when the gate was loaded.

Only model-checked: all liveness (fairness and ENABLED are beyond the prover), and
every property of the other modules.

## 6. Abstractions and limits

* Memory is sequentially consistent, except in `epoch_buffered`. Release and acquire
  pairs of the conduits order what the models order.
* 64-bit cursors do not overflow. The 32-bit epoch of pool heads keeps its modulus
  as a constant, larger than any run reaches.
* `MpmcConduitInspect`: the load of a group and its store are one step each, although a
  vector access of the hardware need not be atomic. There is one call a run, and its
  target is an item some slot holds. A consumer that copied before the call returned
  may still hand the target out.
* `EpochVault`: a role of a worker is a process. The run `substrate` has one storer and one
  scavenger, the contract of the graveyard's ring; the other user of the queue,
  `public_tcp_gateway.hpp:169`, keeps it by running on one thread. The failed
  compare-and-swap of `store` (`tls_handshake_machine.hpp:495`) needs two storers and
  happens only in `vault_workers`. The missing fence of `enter()` is found by
  `epoch_buffered` only: in `substrate` stores are visible at once. Every reader has a
  thread id of its own.
* `UringJournal`: a frame fits a sector and a write the device accepts is done in one
  step; a torn write could only touch slots no flush has covered. A failed fsync ends the
  process, as it does through `durable_sink`, whose `force_flush` is `noexcept`. `Reset` has
  no precondition, as in the code; the modelled caller uses it only when everything
  submitted is flushed (`OutOfBand`, from the comment of `durable_sink::reset`). The
  harvest takes all completions instead of up to 32. Recovery is the strided scan and
  the truncation of `tests/runtime/journal_crash_consistency_test.cpp:231`.
  `WrittenSurvives` is about the current generation: reopening starts at slot zero and
  overwrites what an earlier process wrote.
* `NexusConnector`: `reset` of the hole puncher is not called by it, and the journal
  commit is left out.

## 7. What is not modelled

`PROJECT.json` lists every part. Left out for good: numerical SIMD kernels,
cryptographic primitives, byte-stream parsers, compile-time dispatch and the meta
compiler, device drivers and hardware monitoring. They are data without control,
or hardware.

## 8. Plan

In order of importance:

1. Ordering layer: `retransmission_buffer` and `nack_handler` as a sender, composed with
   `NexusConnector` over a lossy network; the genesis loop with its valve, for the
   stall that cannot end. Abstract specification: the LSN-ordered log.
2. Journals: the mapped journal with two writers, the mirrored one, and the replay
   readers over `UringJournal`'s disk.
3. Runtime: `run_compute` and NACK service of `rte/environment.hpp` over the conduits.
4. Timers: the timing wheels against a set of deadlines.
5. Sagas, durable and not, with a crash between steps; failover and hybrid clocks.
6. TCP: connection states, reassembly matrix, retransmission timer. TLS handshake
   with abstract cryptography.
7. Remaining conduits and pools as variations of the modules here.

Theorems, in order: `CausalSequencer` (`WindowInv` and `OnlyRepeatsMisplaced`); `MpscPool` and `MpmcPool` conservation; `MpmcConduit` `ExclusiveSlots` and `TicketFidelity`;
`UringJournal` `PulsesAgree` and `WrittenSurvives`; `EpochVault` `NoUseAfterRelease`.
