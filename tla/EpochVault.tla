----------------------------- MODULE EpochVault -----------------------------
(***************************************************************************)
(* Epoch-based reclamation: core/epoch_manager.hpp and                     *)
(* core/ebr_reclamation_queue.hpp, as security/tls_handshake_machine.hpp   *)
(* composes them in its ticket vault.  Readers copy a ticket out of a      *)
(* cache slot inside an epoch guard (lookup); storers swap tickets (store, *)
(* sweep_expired) and retire the old ones to the graveyard; scavengers     *)
(* release those no reader can still see (scavenge).  A worker of the      *)
(* record layer takes the three roles in turn; here each role of a worker  *)
(* is a process.                                                           *)
(*                                                                         *)
(* The graveyard is a ring conduit (SpscRingConduit) used through          *)
(* get_reserved_slot, commit_n, available_to_peek and consume_n, none of   *)
(* which tests for room or expects a second thread on its side.  Cursors   *)
(* are kept relative to the consumer's.  A step is one access to shared    *)
(* memory; with Buffered a reader's stores pass through its store buffer,  *)
(* as on the x86 machines the code is built for: enter() has no fence      *)
(* behind its store.                                                       *)
(***************************************************************************)
EXTENDS Integers, Sequences, FiniteSets

CONSTANTS Reader,            \* workers in lookup: each has a thread id of its own
          Storer, Scavenger, \* workers in store or sweep_expired, and in scavenge
          Ticket,            \* tickets of the pool
          Nil,               \* nullptr
          GraveyardCapacity, \* slots of the graveyard
          Buffered,          \* the machine delays stores
          MaxEpoch           \* bound: the last epoch of a run

ASSUME VaultAssumption ==
  /\ Nil \notin Ticket /\ Buffered \in BOOLEAN /\ MaxEpoch \in Nat \ {0}
  /\ GraveyardCapacity \in Nat \ {0} /\ Cardinality(Ticket) <= GraveyardCapacity

VARIABLES
  global_epoch, active_epoch,  \* epoch_manager: the epoch, and per reader its own or 0
  pending,                     \* per reader: stores not yet visible to others
  cache_slot, free,            \* the vault's slot; the pool's free tickets
  ring, first,                 \* graveyard: its slots; the index the consumer's cursor points to
  used, seen,                  \* graveyard: entries committed; entries the consumer knows of
  r_pc, r_epoch, r_ticket,     \* readers
  s_pc, s_old, s_new, s_epoch, \* storers: step, ticket swapped out and in, epoch of the retirement
  m_pc, m_safe, m_scan,        \* scavengers: step, safe epoch so far, readers to look at
  m_avail, m_count,            \* scavengers: entries to look at, entries released
  quiet                        \* per scavenger: no reader in a guard since it began

readerVars == <<active_epoch, pending, r_pc, r_epoch, r_ticket>>
storerVars == <<s_pc, s_old, s_new, s_epoch>>
scavengerVars == <<m_pc, m_safe, m_scan, m_avail, m_count>>
graveyard == <<ring, first, used, seen>>
vars == <<global_epoch, cache_slot, free, graveyard, readerVars, storerVars, scavengerVars, quiet>>

NoEntry == [ptr |-> Nil, epoch |-> 0]

\* The slot of the i-th entry from the consumer's cursor on.
Grave(i) == (first + i) % GraveyardCapacity

Init ==
  /\ global_epoch = 1 /\ active_epoch = [r \in Reader |-> 0]
  /\ pending = [r \in Reader |-> <<>>]
  /\ cache_slot = Nil /\ free = Ticket
  /\ ring = [i \in 0..GraveyardCapacity-1 |-> NoEntry] /\ first = 0 /\ used = 0 /\ seen = 0
  /\ r_pc = [r \in Reader |-> "out"] /\ r_epoch = [r \in Reader |-> 0]
  /\ r_ticket = [r \in Reader |-> Nil]
  /\ s_pc = [s \in Storer |-> "idle"] /\ s_epoch = [s \in Storer |-> 0]
  /\ s_old = [s \in Storer |-> Nil] /\ s_new = [s \in Storer |-> Nil]
  /\ m_pc = [g \in Scavenger |-> "idle"] /\ m_safe = [g \in Scavenger |-> 0]
  /\ m_scan = [g \in Scavenger |-> {}]
  /\ m_avail = [g \in Scavenger |-> 0] /\ m_count = [g \in Scavenger |-> 0]
  /\ quiet = [g \in Scavenger |-> FALSE]
-----------------------------------------------------------------------------
(* Readers: epoch_guard around lookup. *)

\* A store to the reader's own active_epoch: at once, or through the buffer.
StoreActive(r, epoch) ==
  IF Buffered
  THEN pending' = [pending EXCEPT ![r] = Append(@, epoch)] /\ UNCHANGED active_epoch
  ELSE active_epoch' = [active_epoch EXCEPT ![r] = epoch] /\ UNCHANGED pending

Drain(r) ==
  /\ pending[r] # <<>>
  /\ active_epoch' = [active_epoch EXCEPT ![r] = Head(pending[r])]
  /\ pending' = [pending EXCEPT ![r] = Tail(@)]
  /\ UNCHANGED <<global_epoch, cache_slot, free, graveyard, r_pc, r_epoch, r_ticket,
                 storerVars, scavengerVars, quiet>>

\* enter: the epoch is loaded ...
LoadEpoch(r) ==
  /\ r_pc[r] = "out"
  /\ r_epoch' = [r_epoch EXCEPT ![r] = global_epoch]
  /\ r_pc' = [r_pc EXCEPT ![r] = "enter"]
  /\ quiet' = [g \in Scavenger |-> FALSE]
  /\ UNCHANGED <<global_epoch, cache_slot, free, graveyard, active_epoch, pending, r_ticket,
                 storerVars, scavengerVars>>

\* ... and announced, however old it is by now.
Announce(r) ==
  /\ r_pc[r] = "enter"
  /\ StoreActive(r, r_epoch[r])
  /\ r_pc' = [r_pc EXCEPT ![r] = "in"]
  /\ UNCHANGED <<global_epoch, cache_slot, free, graveyard, r_epoch, r_ticket, storerVars,
                 scavengerVars, quiet>>

\* lookup: the pointer is loaded; while r_pc is "reading" its ticket is copied.
LoadTicket(r) ==
  /\ r_pc[r] = "in"
  /\ r_ticket' = [r_ticket EXCEPT ![r] = cache_slot]
  /\ r_pc' = [r_pc EXCEPT ![r] = "reading"]
  /\ UNCHANGED <<global_epoch, cache_slot, free, graveyard, active_epoch, pending, r_epoch,
                 storerVars, scavengerVars, quiet>>

LeaveGuard(r) ==
  /\ r_pc[r] = "reading"
  /\ StoreActive(r, 0)
  /\ r_pc' = [r_pc EXCEPT ![r] = "out"]
  /\ r_epoch' = [r_epoch EXCEPT ![r] = 0]
  /\ r_ticket' = [r_ticket EXCEPT ![r] = Nil]
  /\ UNCHANGED <<global_epoch, cache_slot, free, graveyard, storerVars, scavengerVars, quiet>>
-----------------------------------------------------------------------------
(* Storers: store and sweep_expired. *)

\* store: the slot is loaded and a ticket made (none left: the call returns);
\* sweep_expired: an expired ticket is to be replaced by nullptr.
BeginSwap(s, new) ==
  /\ s_pc[s] = "idle"
  /\ new \in free \/ (new = Nil /\ cache_slot # Nil)
  /\ s_old' = [s_old EXCEPT ![s] = cache_slot] /\ s_new' = [s_new EXCEPT ![s] = new]
  /\ free' = free \ {new}
  /\ s_pc' = [s_pc EXCEPT ![s] = "swap"]
  /\ UNCHANGED <<global_epoch, cache_slot, graveyard, readerVars, s_epoch, scavengerVars, quiet>>

\* The compare-and-swap.  Nothing is retired when the slot was empty; a swap that
\* lost against another worker's gives the new ticket back.
Swap(s) ==
  /\ s_pc[s] = "swap"
  /\ IF cache_slot = s_old[s]
     THEN /\ cache_slot' = s_new[s]
          /\ s_pc' = [s_pc EXCEPT ![s] = IF s_old[s] = Nil THEN "idle" ELSE "epoch"]
          /\ UNCHANGED <<free, s_old>>
     ELSE /\ free' = free \cup ({s_new[s]} \ {Nil})
          /\ s_old' = [s_old EXCEPT ![s] = Nil]
          /\ s_pc' = [s_pc EXCEPT ![s] = "idle"]
          /\ UNCHANGED cache_slot
  /\ s_new' = [s_new EXCEPT ![s] = Nil]
  /\ UNCHANGED <<global_epoch, graveyard, readerVars, s_epoch, scavengerVars, quiet>>

\* current_epoch, the argument of retire.
CurrentEpoch(s) ==
  /\ s_pc[s] = "epoch"
  /\ s_epoch' = [s_epoch EXCEPT ![s] = global_epoch]
  /\ s_pc' = [s_pc EXCEPT ![s] = "bury"]
  /\ UNCHANGED <<global_epoch, cache_slot, free, graveyard, readerVars, s_old, s_new,
                 scavengerVars, quiet>>

\* retire: the next slot is written, whatever it holds ...
Bury(s) ==
  /\ s_pc[s] = "bury"
  /\ ring' = [ring EXCEPT ![Grave(used)] = [ptr |-> s_old[s], epoch |-> s_epoch[s]]]
  /\ s_pc' = [s_pc EXCEPT ![s] = "commit"]
  /\ UNCHANGED <<global_epoch, cache_slot, free, first, used, seen, readerVars, s_old, s_new,
                 s_epoch, scavengerVars, quiet>>

\* ... and committed.
Retire(s) ==
  /\ s_pc[s] = "commit"
  /\ used' = used + 1
  /\ s_old' = [s_old EXCEPT ![s] = Nil] /\ s_epoch' = [s_epoch EXCEPT ![s] = 0]
  /\ s_pc' = [s_pc EXCEPT ![s] = "idle"]
  /\ UNCHANGED <<global_epoch, cache_slot, free, ring, first, seen, readerVars, s_new,
                 scavengerVars, quiet>>
-----------------------------------------------------------------------------
(* Scavengers. *)

Advance(g) ==
  /\ m_pc[g] = "idle" /\ global_epoch < MaxEpoch
  /\ global_epoch' = global_epoch + 1
  /\ m_pc' = [m_pc EXCEPT ![g] = "advanced"]
  /\ quiet' = [quiet EXCEPT ![g] = \A r \in Reader : /\ r_pc[r] = "out"
                                                     /\ active_epoch[r] = 0
                                                     /\ pending[r] = <<>>]
  /\ UNCHANGED <<cache_slot, free, graveyard, readerVars, storerVars, m_safe, m_scan, m_avail,
                 m_count>>

\* The first load of get_safe_epoch.
LoadGlobal(g) ==
  /\ m_pc[g] = "advanced"
  /\ m_safe' = [m_safe EXCEPT ![g] = global_epoch]
  /\ m_scan' = [m_scan EXCEPT ![g] = Reader]
  /\ m_pc' = [m_pc EXCEPT ![g] = "scan"]
  /\ UNCHANGED <<global_epoch, cache_slot, free, graveyard, readerVars, storerVars, m_avail,
                 m_count, quiet>>

\* Mutant of ScanReader: an idle reader's 0 counts as the oldest epoch.
ScanReaderZero(g, r) ==
  /\ m_pc[g] = "scan" /\ r \in m_scan[g]
  /\ m_safe' = [m_safe EXCEPT ![g] = IF active_epoch[r] < @ THEN active_epoch[r] ELSE @]
  /\ m_scan' = [m_scan EXCEPT ![g] = @ \ {r}]
  /\ UNCHANGED <<global_epoch, cache_slot, free, graveyard, readerVars, storerVars, m_pc,
                 m_avail, m_count, quiet>>

\* One iteration of get_safe_epoch's loop (in any order: the readers are alike).
ScanReader(g, r) ==
  /\ m_pc[g] = "scan" /\ r \in m_scan[g]
  /\ m_safe' = [m_safe EXCEPT ![g] = IF active_epoch[r] # 0 /\ active_epoch[r] < @
                                     THEN active_epoch[r] ELSE @]
  /\ m_scan' = [m_scan EXCEPT ![g] = @ \ {r}]
  /\ UNCHANGED <<global_epoch, cache_slot, free, graveyard, readerVars, storerVars, m_pc,
                 m_avail, m_count, quiet>>

\* available_to_peek looks at the gate again only when it has seen everything.
BeginRelease(g) ==
  /\ m_pc[g] = "scan" /\ m_scan[g] = {}
  /\ seen' = IF seen = 0 THEN used ELSE seen
  /\ m_avail' = [m_avail EXCEPT ![g] = seen'] /\ m_count' = [m_count EXCEPT ![g] = 0]
  /\ m_pc' = [m_pc EXCEPT ![g] = "release"]
  /\ UNCHANGED <<global_epoch, cache_slot, free, ring, first, used, readerVars, storerVars,
                 m_safe, m_scan, quiet>>

\* Mutant of Releasable: entries of the safe epoch itself are released.
ReleasableAtSafe(g) ==
  m_count[g] < m_avail[g] /\ ring[Grave(m_count[g])].epoch <= m_safe[g]

Releasable(g) == m_count[g] < m_avail[g] /\ ring[Grave(m_count[g])].epoch < m_safe[g]

\* pool.release of the next entry; its slot is not consumed yet.
ReleaseEntry(g) ==
  /\ m_pc[g] = "release" /\ Releasable(g)
  /\ free' = free \cup ({ring[Grave(m_count[g])].ptr} \ {Nil})
  /\ m_count' = [m_count EXCEPT ![g] = @ + 1]
  /\ UNCHANGED <<global_epoch, cache_slot, graveyard, readerVars, storerVars, m_pc, m_safe,
                 m_scan, m_avail, quiet>>

\* The locals of a scavenge that returns.
EndScavenge(g) ==
  /\ m_avail' = [m_avail EXCEPT ![g] = 0] /\ m_count' = [m_count EXCEPT ![g] = 0]
  /\ m_safe' = [m_safe EXCEPT ![g] = 0] /\ m_pc' = [m_pc EXCEPT ![g] = "idle"]
  /\ quiet' = [quiet EXCEPT ![g] = FALSE]

\* Mutant of EndRelease: one entry too few is consumed.
EndReleaseShort(g) ==
  /\ m_pc[g] = "release" /\ ~Releasable(g)
  /\ LET n == IF m_count[g] > 0 THEN m_count[g] - 1 ELSE 0
     IN  first' = Grave(n) /\ used' = used - n /\ seen' = seen - n
  /\ EndScavenge(g)
  /\ UNCHANGED <<global_epoch, cache_slot, free, ring, readerVars, storerVars, m_scan>>

\* Mutant of EndRelease: the count of entries already seen is not taken down.
EndReleaseUnseen(g) ==
  /\ m_pc[g] = "release" /\ ~Releasable(g)
  /\ first' = Grave(m_count[g])
  /\ used' = used - m_count[g] /\ UNCHANGED seen
  /\ EndScavenge(g)
  /\ UNCHANGED <<global_epoch, cache_slot, free, ring, readerVars, storerVars, m_scan>>

\* The first entry that is not safe ends the loop; consume_n retires the slots.
EndRelease(g) ==
  /\ m_pc[g] = "release" /\ ~Releasable(g)
  /\ first' = Grave(m_count[g])
  /\ used' = used - m_count[g] /\ seen' = seen - m_count[g]
  /\ EndScavenge(g)
  /\ UNCHANGED <<global_epoch, cache_slot, free, ring, readerVars, storerVars, m_scan>>
-----------------------------------------------------------------------------
ReaderNext(r) == LoadEpoch(r) \/ Announce(r) \/ LoadTicket(r) \/ LeaveGuard(r)
StorerNext(s) == \/ \E new \in Ticket \cup {Nil} : BeginSwap(s, new)
                 \/ Swap(s) \/ CurrentEpoch(s) \/ Bury(s) \/ Retire(s)
ScavengerNext(g) == \/ Advance(g) \/ LoadGlobal(g) \/ \E r \in Reader : ScanReader(g, r)
                    \/ BeginRelease(g) \/ ReleaseEntry(g) \/ EndRelease(g)
Next == \/ \E r \in Reader : ReaderNext(r)
        \/ \E s \in Storer : StorerNext(s)
        \/ \E g \in Scavenger : ScavengerNext(g)
Spec == Init /\ [][Next]_vars

\* The same on a machine with store buffers.
BufferedSpec == Init /\ [][Next \/ \E r \in Reader : Drain(r)]_vars
-----------------------------------------------------------------------------
(* What is checked.                                                        *)

\* Epochs are bounded, pointers are tickets or Nil, what the scavenger has seen was
\* committed.
TypeOK ==
  /\ global_epoch \in 1..MaxEpoch /\ active_epoch \in [Reader -> 0..MaxEpoch]
  /\ pending \in [Reader -> Seq(0..MaxEpoch)]
  /\ cache_slot \in Ticket \cup {Nil} /\ free \in SUBSET Ticket
  /\ ring \in [0..GraveyardCapacity-1 -> [ptr : Ticket \cup {Nil}, epoch : 0..MaxEpoch]]
  /\ first \in 0..GraveyardCapacity-1 /\ used \in Nat /\ seen \in 0..used
  /\ r_pc \in [Reader -> {"out", "enter", "in", "reading"}]
  /\ r_epoch \in [Reader -> 0..MaxEpoch] /\ r_ticket \in [Reader -> Ticket \cup {Nil}]
  /\ s_pc \in [Storer -> {"idle", "swap", "epoch", "bury", "commit"}]
  /\ s_old \in [Storer -> Ticket \cup {Nil}] /\ s_new \in [Storer -> Ticket \cup {Nil}]
  /\ s_epoch \in [Storer -> 0..MaxEpoch]
  /\ m_pc \in [Scavenger -> {"idle", "advanced", "scan", "release"}]
  /\ m_safe \in [Scavenger -> 0..MaxEpoch] /\ m_scan \in [Scavenger -> SUBSET Reader]
  /\ \A g \in Scavenger : m_avail[g] \in 0..used /\ m_count[g] \in 0..m_avail[g]
  /\ quiet \in [Scavenger -> BOOLEAN]

\* "recycles proven-safe pointers" (ebr_reclamation_queue.hpp): a ticket a reader is
\* copying is never back in the pool, however long the reader slept between loading
\* the epoch and announcing it, the storer between the swap and the retirement, and
\* wherever the scan of the readers stood.
NoUseAfterRelease == \A r \in Reader : r_pc[r] = "reading" => r_ticket[r] \notin free

\* Committed entries that no scavenger has released.
Buried == {i \in 0..used-1 : \A g \in Scavenger : m_pc[g] = "release" => i >= m_count[g]}

\* A ticket is in one place: free, cached, in a storer's hands, or buried once.  None
\* leaks, none is released twice, and none is lost under an entry that retire, which
\* does not test for room, wrote over it while a scavenge had released more entries
\* than it had consumed.
TicketsConserved ==
  \A n \in Ticket :
    Cardinality({i \in Buried : ring[Grave(i)].ptr = n})
      + Cardinality({s \in Storer : s_new[s] = n})
      + Cardinality({s \in Storer : s_old[s] = n /\ s_pc[s] \in {"epoch", "bury", "commit"}})
      + Cardinality({place \in {"free", "cached"} :
                       IF place = "free" THEN n \in free ELSE cache_slot = n}) = 1

\* A scavenge that no guard overlapped releases every entry it can see of an earlier
\* epoch, so nothing stays buried behind a stale horizon.
QuietScavengeDrains ==
  [][\A g \in Scavenger :
       m_pc[g] = "release" /\ m_pc'[g] = "idle" /\ quiet[g] =>
         \A i \in 0..seen'-1 : ring[(first' + i) % GraveyardCapacity].epoch = global_epoch]_vars
=============================================================================
