--------------------------- MODULE CausalSequencer ---------------------------
(***************************************************************************)
(* dist/causal_sequencer.hpp: a window of WindowSize packet slots indexed  *)
(* by LSN, with a presence bit per slot kept in words of WordBits bits,    *)
(* puts the packets of a network that reorders, repeats and drops them     *)
(* back into LSN order.  A packet is its LSN.                              *)
(***************************************************************************)
EXTENDS Integers, Sequences

CONSTANTS WindowSize,  \* 2048 in the code
          WordBits,    \* 64 in the code
          MaxLsn       \* bound: LSNs 0 .. MaxLsn arrive

ASSUME SequencerAssumption == /\ WordBits \in Nat \ {0}
                              /\ WindowSize \in Nat \ {0}
                              /\ WindowSize % WordBits = 0
                              /\ MaxLsn \in Nat

VARIABLES slots,              \* slots_, NoPacket is nullptr
          presence,           \* the indices whose presence bit is set
          next_expected_lsn,
          delivered,          \* history: packets handed on, in order
          accepted,           \* history: packets stored or handed on
          leftBehind          \* history: stored packets the direct path passed over

seqVars == <<slots, presence, next_expected_lsn, delivered, accepted, leftBehind>>

NoPacket == -1
Lsns     == 0 .. MaxLsn
Indices  == 0 .. WindowSize - 1
Idx(lsn) == lsn % WindowSize
Ready    == Idx(next_expected_lsn) \in presence

SeqInit ==
  /\ slots = [i \in Indices |-> NoPacket]
  /\ presence = {}
  /\ next_expected_lsn = 0
  /\ delivered = <<>>
  /\ accepted = {} /\ leftBehind = {}

-----------------------------------------------------------------------------
\* push_and_align, the packet that was awaited: handed on at once.  Its slot is
\* not looked at, so a packet stored there stays, bit and all.
PushExpected(p) ==
  /\ p = next_expected_lsn
  /\ next_expected_lsn' = next_expected_lsn + 1
  /\ delivered' = Append(delivered, p)
  /\ accepted' = accepted \cup {p}
  /\ leftBehind' = IF Ready THEN leftBehind \cup {slots[Idx(p)]} ELSE leftBehind
  /\ UNCHANGED <<slots, presence>>

\* Mutant: the window is one LSN too wide.
PushFutureWide(p) ==
  /\ p > next_expected_lsn /\ p <= next_expected_lsn + WindowSize
  /\ slots' = [slots EXCEPT ![Idx(p)] = p]
  /\ presence' = presence \cup {Idx(p)}
  /\ accepted' = accepted \cup {p}
  /\ UNCHANGED <<next_expected_lsn, delivered, leftBehind>>

\* push_and_align, a packet within the window: stored, over an earlier copy.
PushFuture(p) ==
  /\ p > next_expected_lsn /\ p < next_expected_lsn + WindowSize
  /\ slots' = [slots EXCEPT ![Idx(p)] = p]
  /\ presence' = presence \cup {Idx(p)}
  /\ accepted' = accepted \cup {p}
  /\ UNCHANGED <<next_expected_lsn, delivered, leftBehind>>

\* push_and_align, a packet of the past or beyond the window: nothing.
PushRefused(p) ==
  /\ p < next_expected_lsn \/ p >= next_expected_lsn + WindowSize
  /\ UNCHANGED seqVars

PushAndAlign(p) == PushExpected(p) \/ PushFuture(p) \/ PushRefused(p)

\* Mutant: the presence bit stays.
PollReadyKeepsBit ==
  /\ Ready
  /\ delivered' = Append(delivered, slots[Idx(next_expected_lsn)])
  /\ slots' = [slots EXCEPT ![Idx(next_expected_lsn)] = NoPacket]
  /\ next_expected_lsn' = next_expected_lsn + 1
  /\ UNCHANGED <<presence, accepted, leftBehind>>

\* poll_ready; without the awaited packet it returns nullptr.
PollReady ==
  /\ Ready
  /\ delivered' = Append(delivered, slots[Idx(next_expected_lsn)])
  /\ slots' = [slots EXCEPT ![Idx(next_expected_lsn)] = NoPacket]
  /\ presence' = presence \ {Idx(next_expected_lsn)}
  /\ next_expected_lsn' = next_expected_lsn + 1
  /\ UNCHANGED <<accepted, leftBehind>>

\* The trailing ones of the presence word of idx, shifted down to idx: the
\* shift brings in zeroes, so a run ends with its word.
Contiguous(bits, idx) ==
  CHOOSE n \in 0 .. WordBits - (idx % WordBits) :
    /\ \A i \in 0 .. n - 1 : idx + i \in bits
    /\ n < WordBits - (idx % WordBits) => idx + n \notin bits

\* Mutant: the scan stops at the end of the first word.
BatchCountOneWord(max) ==
  LET run == Contiguous(presence, Idx(next_expected_lsn))
  IN  IF run < max THEN run ELSE max

\* The loop of poll_batch after k turns: how many packets it has fetched.
\* What a turn fetches is cleared, so the next one starts after it.
BatchCount(max) ==
  LET turns[k \in 0 .. max] ==
        IF k = 0 THEN 0
        ELSE LET count == turns[k - 1]
                 run   == Contiguous(presence \ {Idx(next_expected_lsn + i) : i \in 0 .. count - 1},
                                     Idx(next_expected_lsn + count))
             IN  count + (IF run < max - count THEN run ELSE max - count)
  IN  turns[max]

\* Mutant: the clear mask takes the rest of the word with it.
PollBatchClearsWord(max) ==
  LET n       == BatchCount(max)
      fetched == {Idx(next_expected_lsn + i) : i \in 0 .. n - 1}
      words   == {i \in Indices : \E j \in fetched : i \div WordBits = j \div WordBits}
  IN  /\ Ready
      /\ delivered' = delivered \o [i \in 1 .. n |-> slots[Idx(next_expected_lsn + i - 1)]]
      /\ slots' = [i \in Indices |-> IF i \in fetched THEN NoPacket ELSE slots[i]]
      /\ presence' = presence \ words
      /\ next_expected_lsn' = next_expected_lsn + n
      /\ UNCHANGED <<accepted, leftBehind>>

\* poll_batch with room for max packets.
PollBatch(max) ==
  LET n       == BatchCount(max)
      fetched == {Idx(next_expected_lsn + i) : i \in 0 .. n - 1}
  IN  /\ Ready
      /\ delivered' = delivered \o [i \in 1 .. n |-> slots[Idx(next_expected_lsn + i - 1)]]
      /\ slots' = [i \in Indices |-> IF i \in fetched THEN NoPacket ELSE slots[i]]
      /\ presence' = presence \ fetched
      /\ next_expected_lsn' = next_expected_lsn + n
      /\ UNCHANGED <<accepted, leftBehind>>

SeqNext == \/ \E p \in Lsns : PushAndAlign(p)
           \/ PollReady
           \/ \E max \in 1 .. WindowSize : PollBatch(max)

SeqSpec == SeqInit /\ [][SeqNext]_seqVars

-----------------------------------------------------------------------------
\* The window: a set bit is the bit of one stored packet, in the slot of its
\* LSN and below the end of the window of push_and_align; a slot without a
\* bit is nullptr.
WindowInv ==
  /\ presence \in SUBSET Indices /\ next_expected_lsn \in Nat
  /\ slots \in [Indices -> Lsns \cup {NoPacket}]
  /\ \A i \in Indices :
       IF i \in presence
       THEN /\ slots[i] \in 0 .. next_expected_lsn + WindowSize - 1
            /\ Idx(slots[i]) = i
       ELSE slots[i] = NoPacket

\* The packets handed on, by push_and_align, poll_ready and poll_batch
\* together, are those of LSN 0, 1, 2, ... in order, each once.
InOrder ==
  delivered = [i \in 1 .. next_expected_lsn |-> i - 1]

\* What comes out in the place of another packet, or a second time, is always
\* a stored copy that the direct path of push_and_align passed over: however
\* packets are reordered, repeated and lost, nothing else breaks the order.
OnlyRepeatsMisplaced ==
  /\ Len(delivered) = next_expected_lsn
  /\ \A i \in 1 .. Len(delivered) : delivered[i] = i - 1 \/ delivered[i] \in leftBehind

\* A packet that push_and_align took is handed on or still stored.
NothingLost ==
  \A p \in accepted :
    \/ \E i \in 1 .. Len(delivered) : delivered[i] = p
    \/ Idx(p) \in presence /\ slots[Idx(p)] = p

\* poll_batch, which scans word by word, returns as many packets as poll_ready
\* called as often would: the whole run of stored packets up to its limit.
BatchIsRun ==
  \A max \in 1 .. WindowSize :
    LET n == BatchCount(max)
    IN  /\ \A i \in 0 .. n - 1 : Idx(next_expected_lsn + i) \in presence
        /\ n < max /\ n < WindowSize => Idx(next_expected_lsn + n) \notin presence
=============================================================================
