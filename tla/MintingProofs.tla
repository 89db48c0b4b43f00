---------------------------- MODULE MintingProofs ----------------------------
(***************************************************************************)
(* What TLAPS proves of module Minting, for any number of batches, names,  *)
(* failures, restarts and cancellations.                                   *)
(***************************************************************************)
EXTENDS Minting, TLAPS

(***************************************************************************)
(* The invariants.  The first layer holds whatever fails.                  *)
(***************************************************************************)
Early   == {"Pending", "Frozen", "Committed"}
Late    == {"Broadcast", "Confirmed", "Finalized"}
Stopped == {"none", "gone"}

\* The gardener waits for the pending batch, or for one it let go.
GardenerInv ==
    /\ gardener.at = "idle" => gardener = Idle
    /\ gardener.at # "idle" => gardener.batch \in Batches
    /\ gardener.at = "finalizing" => pendingBatch = gardener.batch
    /\ gardener.at = "cancelling" => pendingBatch = None

\* The batch is pending and nobody works on it.
Resting(b) == pendingBatch = b /\ gardener.at # "finalizing"

\* Where the caretaker of a batch is, against the state of the batch.
CaretakerInv(b) ==
    /\ disk[b].state = "None" => mem[b].state = "None" /\ care[b].pc = "none"
    /\ care[b].pc \notin Stopped => mem[b].state \in Early \cup Late
    /\ care[b].pc = "wait" => mem[b].state = "Broadcast"
    /\ care[b].conf = "watch" \/ care[b].confEvent => mem[b].state \in Late
    /\ disk[b].state \in Cancelled => care[b].pc \in Stopped
    /\ care[b].broadcast = "error" =>
         care[b].pc = "gone" /\ mem[b].state \in Early \cup {"Broadcast"} /\ b \in disturbed
    /\ care[b].cancelReq => b \in disturbed
    /\ Resting(b) =>
         /\ care[b].pc \in Stopped /\ mem[b].state \in Early \cup {"Broadcast"}
         /\ b \in disturbed \/ (mem[b].state = "Pending" /\ disk[b].state = "Pending")

\* The seedlings and the transaction of a batch in memory, in the store and on
\* the chain.
Seeded(b) ==
    mem[b].state \in {"Pending", "Frozen"} => mem[b].seedlings = disk[b].seedlings

TxInMemory(b) == mem[b].state \in {"Committed", "Broadcast", "Confirmed"} =>
    /\ mem[b].tx \in Txs /\ mem[b].tx.batch = b /\ disk[b].tx = mem[b].tx
    /\ b \in disturbed \/ mem[b].tx.names = disk[b].seedlings

TxOnDisk(b) == disk[b].state \in {"Committed"} \cup Late =>
    /\ disk[b].tx \in Txs /\ disk[b].tx.batch = b
    /\ b \in disturbed \/ disk[b].tx.names = disk[b].seedlings

TxMined(b) ==
    /\ mem[b].state = "Confirmed" \/ care[b].confEvent => mem[b].tx \in mined
    /\ mem[b].state = "Finalized" => disk[b].state \in {"Confirmed", "Finalized"}
    /\ disk[b].state \in {"Confirmed", "Finalized"} => disk[b].tx \in mined

GenesisInv(b) == Seeded(b) /\ TxInMemory(b) /\ TxOnDisk(b) /\ TxMined(b)

MintInv ==
    /\ TypeOK /\ fundings \in Nat /\ GardenerInv
    /\ \A b \in Batches : CaretakerInv(b) /\ GenesisInv(b)

(***************************************************************************)
(* The second layer is about the batches that were not finalized again     *)
(* after their transaction was signed.  One whose publishing or            *)
(* registration failed keeps its caretaker's entry in the map, so that it  *)
(* cannot be cancelled as a pending batch.                                 *)
(***************************************************************************)
OutInv(b) ==
    /\ care[b].broadcast = "error" \/ Resting(b) => mem[b].state \in Early \/ b \in caretakers
    /\ care[b].pc \notin Stopped => b \in caretakers
    /\ care[b].cancelResp = "cancelled" => care[b].pc = "gone" /\ mem[b].state \in Early
    /\ mem[b].state \in {"Broadcast", "Confirmed"} => disk[b].state = "Broadcast"
    /\ \A t \in published : t.batch = b =>
         disk[b].state \in Late /\ disk[b].tx = t /\ mem[b].state \notin Early

OffChainInv == \A b \in Batches \ refrozen : OutInv(b)

(***************************************************************************)
(* Types.                                                                  *)
(***************************************************************************)
BatchRows  == [state : States, seedlings : SUBSET Names, tx : Txs \cup {None}]
Caretakers == [pc : {"none", "check", "run", "wait", "signal", "gone"},
               anchorOutputIndex : {0, 1}, conf : {"none", "watch", "gone"},
               confEvent : BOOLEAN, cancelReq : BOOLEAN,
               cancelResp : {"none", "refused", "cancelled"},
               broadcast : {"none", "complete", "error"}]

Scalars ==
    /\ caretakers \subseteq Batches /\ pendingBatch \in Batches \cup {None}
    /\ gardener \in [at : {"idle", "finalizing", "cancelling"}, batch : Batches \cup {None}]
    /\ published \subseteq Txs /\ mined \subseteq published
    /\ disturbed \subseteq Batches /\ refrozen \subseteq Batches /\ fundings \in Nat

Typed == /\ disk \in [Batches -> BatchRows] /\ mem \in [Batches -> BatchRows]
         /\ care \in [Batches -> Caretakers] /\ Scalars /\ halting \in BOOLEAN

\* The parts of the type invariant.
LEMMA TypeParts == (Typed <=> TypeOK /\ fundings \in Nat) /\ (Typed' <=> TypeOK' /\ fundings' \in Nat)
  BY Zenon DEF Typed, TypeOK, BatchRows, Caretakers, Scalars

\* A caretaker that is new, and the rows of no batch.
LEMMA ConstantRecords ==
  /\ NoCaretaker \in Caretakers /\ NewBatchCaretaker \in Caretakers
  /\ NewBatchCaretaker.pc = "check" /\ NewBatchCaretaker.conf = "none"
  /\ ~NewBatchCaretaker.confEvent /\ ~NewBatchCaretaker.cancelReq
  /\ NewBatchCaretaker.broadcast = "none"
  /\ NoCaretaker.pc = "none" /\ NoCaretaker.conf = "none" /\ NoCaretaker.broadcast = "none"
  /\ ~NoCaretaker.confEvent /\ ~NoCaretaker.cancelReq
  /\ NoBatch \in BatchRows /\ NoBatch.state = "None"
  BY DEF NoCaretaker, NewBatchCaretaker, Caretakers, NoBatch, BatchRows, States

\* What a batch needs to keep its invariant when the step is about another.
LEMMA OtherBatch ==
  ASSUME NEW c \in Batches, CaretakerInv(c), GenesisInv(c),
         disk'[c] = disk[c], mem'[c] = mem[c], care'[c] = care[c],
         mined \subseteq mined', c \in disturbed <=> c \in disturbed', Resting(c)' => Resting(c)
  PROVE  CaretakerInv(c)' /\ GenesisInv(c)'
  BY DEF CaretakerInv, GenesisInv, Seeded, TxInMemory, TxOnDisk, TxMined

\* At the start there is no batch.
LEMMA InitMint == Init => MintInv
  <1> SUFFICES ASSUME Init PROVE MintInv
    OBVIOUS
  <1>1. Typed
    <2>1. disk \in [Batches -> BatchRows] /\ mem \in [Batches -> BatchRows]
          /\ care \in [Batches -> Caretakers]
      BY ConstantRecords DEF Init
    <2>2. Scalars
      BY DEF Init, Scalars, Idle
    <2>3. halting \in BOOLEAN
      BY DEF Init
    <2> QED BY <2>1, <2>2, <2>3 DEF Typed
  <1>2. GardenerInv
    BY DEF Init, GardenerInv, Idle
  <1>3. ASSUME NEW b \in Batches PROVE CaretakerInv(b) /\ GenesisInv(b)
    <2>1. /\ disk[b] = NoBatch /\ mem[b] = NoBatch /\ care[b] = NoCaretaker
          /\ pendingBatch # b
      BY MintingAssumption DEF Init
    <2> QED BY <2>1, ConstantRecords
            DEF CaretakerInv, GenesisInv, Seeded, TxInMemory, TxOnDisk, TxMined, Resting,
                Stopped, Early, Late, Cancelled
  <1> QED BY <1>1, <1>2, <1>3, TypeParts DEF MintInv

(***************************************************************************)
(* The gardener.                                                           *)
(***************************************************************************)
\* A seedling joins the pending batch or founds one, in memory and on disk.
LEMMA SeedlingKeeps ==
  ASSUME MintInv, NEW n \in Names, prepAssetSeedling(n) PROVE MintInv'
  <1>1. Typed /\ GardenerInv /\ gardener = Idle /\ gardener.at = "idle"
    BY TypeParts DEF MintInv, prepAssetSeedling, Idle
  <1>2. UNCHANGED <<care, caretakers, gardener, published, mined, halting, disturbed, refrozen, fundings>>
    BY DEF prepAssetSeedling, world, history, counters
  <1>3. CASE pendingBatch # None /\ addSeedling(pendingBatch, n)
    <2>1. PICK b \in Batches : b = pendingBatch /\ Resting(b)
      BY <1>1, <1>3 DEF Typed, Scalars, Resting
    <2>2. /\ mem' = [mem EXCEPT ![b].seedlings = @ \cup {n}]
          /\ disk' = [disk EXCEPT ![b].seedlings = @ \cup {n}]
          /\ UNCHANGED pendingBatch
      BY <1>3, <2>1 DEF addSeedling, AddSeedlingsToBatch
    <2>3. Typed'
      BY <1>1, <1>2, <2>1, <2>2 DEF Typed, Scalars, BatchRows
    <2>4. /\ \A c \in Batches : c # b => disk'[c] = disk[c] /\ mem'[c] = mem[c]
          /\ disk'[b].state = disk[b].state /\ disk'[b].tx = disk[b].tx
          /\ mem'[b].state = mem[b].state /\ mem'[b].tx = mem[b].tx
          /\ disk'[b].seedlings = disk[b].seedlings \cup {n}
          /\ mem'[b].seedlings = mem[b].seedlings \cup {n}
      BY <1>1, <2>1, <2>2 DEF Typed, BatchRows
    <2>7. CaretakerInv(b) /\ GenesisInv(b)
      BY <2>1 DEF MintInv
    <2>8. b \in disturbed \/ (mem[b].state = "Pending" /\ disk[b].state = "Pending")
      BY <2>1, <2>7 DEF CaretakerInv
    <2>9. CaretakerInv(b)'
      BY <1>2, <2>1, <2>2, <2>4, <2>7 DEF CaretakerInv, Resting
    <2>10. Seeded(b)' /\ TxInMemory(b)'
      BY <1>2, <2>4, <2>7, <2>8 DEF GenesisInv, Seeded, TxInMemory
    <2>11. TxOnDisk(b)' /\ TxMined(b)'
      BY <1>2, <2>4, <2>7, <2>8 DEF GenesisInv, TxOnDisk, TxMined, Late
    <2>5. CaretakerInv(b)' /\ GenesisInv(b)'
      BY <2>9, <2>10, <2>11 DEF GenesisInv
    <2>6. \A c \in Batches : CaretakerInv(c)' /\ GenesisInv(c)'
      BY <1>2, <2>2, <2>4, <2>5, OtherBatch DEF MintInv, Resting
    <2> QED BY <1>1, <1>2, <2>2, <2>3, <2>6, TypeParts DEF MintInv, GardenerInv
  <1>4. ASSUME NEW b \in Batches, pendingBatch = None, newMintingBatch(b, n) PROVE MintInv'
    <2> DEFINE batch == [NoBatch EXCEPT !.state = "Pending", !.seedlings = {n}]
    <2>1. /\ batch \in BatchRows /\ batch.state = "Pending" /\ batch.seedlings = {n}
      BY DEF NoBatch, BatchRows, States
    <2>2. /\ disk[b].state = "None" /\ disk' = [disk EXCEPT ![b] = batch]
          /\ mem' = [mem EXCEPT ![b] = batch] /\ pendingBatch' = b
      BY <1>4 DEF newMintingBatch, CommitMintingBatch
    <2> HIDE DEF batch
    <2>3. Typed'
      BY <1>1, <1>2, <2>1, <2>2 DEF Typed, Scalars
    <2>4. /\ \A c \in Batches : c # b => disk'[c] = disk[c] /\ mem'[c] = mem[c]
          /\ disk'[b] = batch /\ mem'[b] = batch
      BY <1>1, <2>2 DEF Typed
    <2>5. CaretakerInv(b)' /\ GenesisInv(b)'
      BY <1>2, <2>1, <2>2, <2>4
      DEF MintInv, CaretakerInv, GenesisInv, Seeded, TxInMemory, TxOnDisk, TxMined, Resting,
          Early, Late, Stopped, Cancelled
    <2>6. \A c \in Batches : CaretakerInv(c)' /\ GenesisInv(c)'
      BY <1>2, <2>2, <2>4, <2>5, OtherBatch DEF MintInv, Resting
    <2> QED BY <1>1, <1>2, <2>2, <2>3, <2>6, TypeParts DEF MintInv, GardenerInv
  <1> QED BY <1>3, <1>4 DEF prepAssetSeedling

\* A finalization starts a caretaker for a batch nobody works on.
LEMMA FinalizeKeeps == ASSUME MintInv, Tick \/ FinalizeBatch PROVE MintInv'
  <1>1. Typed /\ GardenerInv /\ gardener = Idle /\ gardener.at = "idle" /\ pendingBatch # None
    BY TypeParts DEF MintInv, Tick, FinalizeBatch, Idle
  <1>2. UNCHANGED <<mem, published, mined, halting, disturbed, fundings>>
    BY DEF Tick, FinalizeBatch, world, counters
  <1>3. PICK b \in Batches : b = pendingBatch /\ Resting(b)
    BY <1>1 DEF Typed, Scalars, Resting
  <1>4. /\ disk' = [disk EXCEPT ![b].state = "Frozen"]
        /\ care' = [care EXCEPT ![b] = NewBatchCaretaker]
        /\ caretakers' = caretakers \cup {b} /\ refrozen' \in {refrozen, refrozen \cup {b}}
        /\ \/ pendingBatch' = None /\ gardener' = gardener
           \/ pendingBatch' = b /\ gardener' = [at |-> "finalizing", batch |-> b]
    BY <1>3 DEF Tick, FinalizeBatch, finalizeBatch, UpdateBatchState
  <1>5. Typed'
    <2>1. disk' \in [Batches -> BatchRows]
      BY <1>1, <1>4 DEF Typed, BatchRows, States
    <2>2. care' \in [Batches -> Caretakers]
      BY <1>1, <1>4, ConstantRecords DEF Typed
    <2>3. Scalars'
      BY <1>1, <1>2, <1>3, <1>4 DEF Typed, Scalars
    <2> QED BY <1>1, <1>2, <2>1, <2>2, <2>3 DEF Typed
  <1>6. GardenerInv' /\ \A c \in Batches : Resting(c)' => Resting(c) /\ c # b
    BY <1>1, <1>4, MintingAssumption DEF GardenerInv, Resting, Idle
  <1>7. /\ \A c \in Batches : c # b => disk'[c] = disk[c] /\ care'[c] = care[c]
        /\ disk'[b].state = "Frozen" /\ disk'[b].tx = disk[b].tx
        /\ disk'[b].seedlings = disk[b].seedlings
        /\ care'[b] = NewBatchCaretaker
    BY <1>1, <1>4 DEF Typed, BatchRows
  <1>8. CaretakerInv(b) /\ GenesisInv(b)
    BY DEF MintInv
  <1>9. CaretakerInv(b)'
    BY <1>2, <1>3, <1>6, <1>7, <1>8, ConstantRecords DEF CaretakerInv, Early, Late, Stopped, Cancelled
  <1>10. GenesisInv(b)'
    <2>1. mem[b].state \in Early \cup {"Broadcast"}
      BY <1>3, <1>8 DEF CaretakerInv
    <2>2. Seeded(b)' /\ TxInMemory(b)'
      BY <1>2, <1>7, <1>8 DEF GenesisInv, Seeded, TxInMemory
    <2>3. TxOnDisk(b)' /\ TxMined(b)'
      BY <1>2, <1>7, <1>8, <2>1, ConstantRecords DEF GenesisInv, TxOnDisk, TxMined, Early, Late
    <2> QED BY <2>2, <2>3 DEF GenesisInv
  <1>11. \A c \in Batches : CaretakerInv(c)' /\ GenesisInv(c)'
    BY <1>2, <1>6, <1>7, <1>9, <1>10, OtherBatch DEF MintInv
  <1> QED BY <1>5, <1>6, <1>11, TypeParts DEF MintInv

\* What the steps that touch only the channels of one caretaker have to show.
LEMMA ChannelStep ==
  ASSUME MintInv, NEW b \in Batches, NEW c \in Caretakers,
         UNCHANGED <<disk, mem>>, care' = [care EXCEPT ![b] = c], mined \subseteq mined',
         c.confEvent => care[b].confEvent \/ (care[b].conf = "watch" /\ mem[b].tx \in mined),
         c.conf = "watch" => care[b].conf = "watch",
         c.cancelReq => b \in disturbed',
         c.broadcast = "error" => care[b].broadcast = "error",
         \/ c.pc = care[b].pc
         \/ c.pc = "gone" /\ care[b].pc # "none"
         \/ c.pc = "run" /\ care[b].pc = "check",
         disturbed \subseteq disturbed', disturbed' \subseteq disturbed \cup {b},
         \A d \in Batches : Resting(d)' =>
            Resting(d) \/ (d = b /\ care[b].broadcast = "error")
  PROVE  \A d \in Batches : CaretakerInv(d)' /\ GenesisInv(d)'
  <1>1. Typed /\ CaretakerInv(b) /\ GenesisInv(b)
    BY TypeParts DEF MintInv
  <1>2. care'[b] = c /\ \A d \in Batches : d # b => care'[d] = care[d]
    BY <1>1 DEF Typed
  <1>3. CaretakerInv(b)'
    <2>1. Resting(b)' => Resting(b) \/ care[b].broadcast = "error"
      OBVIOUS
    <2>2. c.pc \in Stopped \/ care[b].pc \notin Stopped
      BY DEF Stopped
    <2>3. c.pc = "wait" => care[b].pc = "wait"
      OBVIOUS
    <2>4. (Resting(b) =>
             /\ care[b].pc \in Stopped /\ mem[b].state \in Early \cup {"Broadcast"}
             /\ b \in disturbed \/ (mem[b].state = "Pending" /\ disk[b].state = "Pending"))'
      BY <1>1, <1>2, <2>1 DEF CaretakerInv, Stopped
    <2>5. (care[b].conf = "watch" \/ care[b].confEvent => mem[b].state \in Late)'
      BY <1>1, <1>2 DEF CaretakerInv
    <2> QED BY <1>1, <1>2, <2>2, <2>3, <2>4, <2>5 DEF CaretakerInv, Stopped
  <1>4. GenesisInv(b)'
    BY <1>1, <1>2 DEF GenesisInv, Seeded, TxInMemory, TxOnDisk, TxMined
  <1>5. ASSUME NEW d \in Batches, d # b PROVE CaretakerInv(d)' /\ GenesisInv(d)'
    BY <1>2, <1>5, OtherBatch DEF MintInv
  <1> QED BY <1>3, <1>4, <1>5

\* The type of a caretaker whose channels or whose place have changed.
LEMMA CaretakerTypes ==
  ASSUME NEW c \in Caretakers
  PROVE  /\ [c EXCEPT !.broadcast = "none"] \in Caretakers
         /\ [c EXCEPT !.cancelReq = TRUE] \in Caretakers
         /\ [c EXCEPT !.cancelResp = "none"] \in Caretakers
         /\ [c EXCEPT !.pc = "gone", !.conf = "gone"] \in Caretakers
         /\ [c EXCEPT !.pc = "run"] \in Caretakers
         /\ [c EXCEPT !.pc = "gone"] \in Caretakers
         /\ [c EXCEPT !.conf = "gone", !.confEvent = TRUE] \in Caretakers
         /\ [c EXCEPT !.cancelReq = FALSE, !.cancelResp = "refused", !.conf = "gone"] \in Caretakers
         /\ [c EXCEPT !.cancelReq = FALSE, !.cancelResp = "refused",
                      !.pc = IF @ = "check" THEN "run" ELSE @] \in Caretakers
  BY DEF Caretakers

\* Answers of a caretaker that the gardener takes.
LEMMA AnswerKeeps == ASSUME MintInv, FinalizeAnswered \/ CancelAnswered PROVE MintInv'
  <1>1. Typed /\ GardenerInv
    BY TypeParts DEF MintInv
  <1>2. PICK b \in Batches : b = gardener.batch
    BY <1>1 DEF FinalizeAnswered, CancelAnswered, GardenerInv
  <1>3. /\ UNCHANGED <<disk, mem, published, mined, halting, disturbed, refrozen, fundings>>
        /\ gardener' = Idle /\ caretakers' \subseteq Batches
        /\ \/ pendingBatch' = None
           \/ pendingBatch' = b /\ care[b].broadcast = "error"
        /\ \/ care' = [care EXCEPT ![b] = [care[b] EXCEPT !.broadcast = "none"]]
           \/ care' = [care EXCEPT ![b] = [care[b] EXCEPT !.cancelResp = "none"]]
    BY <1>1, <1>2 DEF FinalizeAnswered, CancelAnswered, GardenerInv, Typed, Scalars, world, history, counters
  <1>4. PICK c \in Caretakers :
          /\ care' = [care EXCEPT ![b] = c]
          /\ c \in {[care[b] EXCEPT !.broadcast = "none"], [care[b] EXCEPT !.cancelResp = "none"]}
    BY <1>1, <1>3, CaretakerTypes DEF Typed
  <1>5. /\ c.pc = care[b].pc /\ c.conf = care[b].conf
        /\ c.confEvent = care[b].confEvent /\ c.cancelReq = care[b].cancelReq
        /\ c.broadcast = "error" => care[b].broadcast = "error"
    BY <1>1, <1>4 DEF Typed, Caretakers
  <1>6. \A d \in Batches : Resting(d)' => d = b /\ care[b].broadcast = "error"
    BY <1>3, MintingAssumption DEF Resting
  <1>7. care[b].cancelReq => b \in disturbed
    BY DEF MintInv, CaretakerInv
  <1>8. \A d \in Batches : CaretakerInv(d)' /\ GenesisInv(d)'
    BY <1>3, <1>4, <1>5, <1>6, <1>7, ChannelStep
  <1>9. Typed' /\ GardenerInv'
    BY <1>1, <1>2, <1>3, <1>4 DEF Typed, Scalars, Idle, GardenerInv
  <1> QED BY <1>8, <1>9, TypeParts DEF MintInv

\* A request for cancellation: on its way to the caretaker, or carried out on a
\* batch that has none.
LEMMA CancelBatchKeeps ==
  ASSUME MintInv, NEW b \in Batches, CancelBatch(b) PROVE MintInv'
  <1>1. Typed /\ GardenerInv /\ gardener = Idle /\ gardener.at = "idle"
    BY TypeParts DEF MintInv, CancelBatch, Idle
  <1>2. /\ UNCHANGED <<mem, caretakers, published, mined, halting, refrozen, fundings>>
        /\ pendingBatch' = None /\ disturbed' = disturbed \cup {b}
    BY DEF CancelBatch, world
  <1>3. \A d \in Batches : ~Resting(d)'
    BY <1>2, MintingAssumption DEF Resting
  <1>4. CASE b \in caretakers
    <2> DEFINE c == [care[b] EXCEPT !.cancelReq = TRUE]
    <2>1. /\ UNCHANGED disk /\ care' = [care EXCEPT ![b] = c] /\ c \in Caretakers
          /\ gardener' = [at |-> "cancelling", batch |-> b]
      BY <1>1, <1>4, CaretakerTypes DEF CancelBatch, Typed
    <2>2. /\ c.pc = care[b].pc /\ c.conf = care[b].conf /\ c.broadcast = care[b].broadcast
          /\ c.confEvent = care[b].confEvent
      BY <1>1 DEF Typed, Caretakers
    <2> HIDE DEF c
    <2>3. \A d \in Batches : CaretakerInv(d)' /\ GenesisInv(d)'
      BY <1>2, <1>3, <2>1, <2>2, ChannelStep
    <2>4. Typed' /\ GardenerInv'
      BY <1>1, <1>2, <2>1 DEF Typed, Scalars, GardenerInv
    <2> QED BY <2>3, <2>4, TypeParts DEF MintInv
  <1>5. CASE b \notin caretakers
    <2>1. /\ UNCHANGED <<care, gardener>> /\ b = pendingBatch /\ Resting(b)
          /\ disk' = [disk EXCEPT ![b].state = "SeedlingCancelled"]
      BY <1>1, <1>5 DEF CancelBatch, Cancellable, UpdateBatchState, Resting
    <2>2. /\ disk' \in [Batches -> BatchRows]
          /\ \A c \in Batches : c # b => disk'[c] = disk[c]
          /\ disk'[b].state = "SeedlingCancelled" /\ disk'[b].tx = disk[b].tx
          /\ disk'[b].seedlings = disk[b].seedlings
      BY <1>1, <2>1 DEF Typed, BatchRows, States
    <2>3. /\ CaretakerInv(b) /\ GenesisInv(b) /\ care[b].pc \in Stopped
          /\ mem[b].state \in Early \cup {"Broadcast"}
      BY <2>1 DEF MintInv, CaretakerInv
    <2>4. CaretakerInv(b)'
      BY <1>2, <1>3, <2>1, <2>2, <2>3 DEF CaretakerInv, Cancelled
    <2>5. GenesisInv(b)'
      BY <1>2, <2>1, <2>2, <2>3
      DEF GenesisInv, Seeded, TxInMemory, TxOnDisk, TxMined, Early, Late
    <2>6. \A d \in Batches : d # b => CaretakerInv(d)' /\ GenesisInv(d)'
      BY <1>2, <1>3, <2>1, <2>2, OtherBatch DEF MintInv
    <2>7. Typed' /\ GardenerInv'
      BY <1>1, <1>2, <2>1, <2>2 DEF Typed, Scalars, GardenerInv
    <2> QED BY <2>4, <2>5, <2>6, <2>7, TypeParts DEF MintInv
  <1> QED BY <1>4, <1>5

(***************************************************************************)
(* The caretaker and the goroutine that waits for the confirmation.        *)
(***************************************************************************)
\* What the invariant needs of a step of the caretaker of batch b: its rows,
\* its batch and its channels become d, m and c.
CaretakerStep(b, d, m, c) ==
    /\ d \in BatchRows /\ m \in BatchRows /\ c \in Caretakers
    /\ disk' = [disk EXCEPT ![b] = d] /\ mem' = [mem EXCEPT ![b] = m]
    /\ care' = [care EXCEPT ![b] = c]
    /\ UNCHANGED <<pendingBatch, gardener>>
    /\ caretakers' \subseteq Batches /\ halting' \in BOOLEAN /\ fundings' \in Nat
    /\ published' \subseteq Txs /\ mined \subseteq mined' /\ mined' \subseteq published'
    /\ disturbed \subseteq disturbed' /\ disturbed' \subseteq disturbed \cup {b}
    /\ UNCHANGED refrozen

\* The frame of such a step.
LEMMA StepFrame ==
  ASSUME MintInv, NEW b \in Batches, NEW d, NEW m, NEW c, CaretakerStep(b, d, m, c)
  PROVE  /\ Typed' /\ GardenerInv' /\ (Resting(b)' <=> Resting(b))
         /\ disk'[b] = d /\ mem'[b] = m /\ care'[b] = c
         /\ \A e \in Batches \ {b} : CaretakerInv(e)' /\ GenesisInv(e)'
  <1>1. Typed /\ GardenerInv
    BY TypeParts DEF MintInv
  <1>2. Typed'
    <2>1. Scalars'
      BY <1>1 DEF CaretakerStep, Typed, Scalars
    <2> QED BY <1>1, <2>1 DEF CaretakerStep, Typed
  <1>3. GardenerInv' /\ \A e \in Batches : (Resting(e)' <=> Resting(e))
    BY <1>1 DEF CaretakerStep, GardenerInv, Resting
  <1>4. /\ disk'[b] = d /\ mem'[b] = m /\ care'[b] = c
        /\ \A e \in Batches \ {b} : disk'[e] = disk[e] /\ mem'[e] = mem[e] /\ care'[e] = care[e]
    BY <1>1 DEF CaretakerStep, Typed
  <1>5. \A e \in Batches \ {b} : CaretakerInv(e)' /\ GenesisInv(e)'
    BY <1>3, <1>4, OtherBatch DEF MintInv, CaretakerStep
  <1> QED BY <1>2, <1>3, <1>4, <1>5

\* Steps of a caretaker, of its confirmation goroutine or of the gardener that
\* only touch the channels.
LEMMA ChannelKeeps ==
  ASSUME MintInv, NEW b \in Batches,
         \/ CheckCancel(b) /\ (~care[b].cancelReq \/ CancelState(mem[b].state) = "None")
         \/ WaitCancel(b) /\ CancelState(mem[b].state) = "None"
         \/ ConfEvent(b) \/ ConfCancel(b) \/ Completed(b)
  PROVE  MintInv'
  <1>1. Typed /\ CaretakerInv(b)
    BY TypeParts DEF MintInv
  <1>2. /\ UNCHANGED <<disk, mem, pendingBatch, gardener, published, mined, disturbed, refrozen, fundings>>
        /\ caretakers' \subseteq Batches
    BY <1>1 DEF CheckCancel, Cancel, WaitCancel, ConfEvent, ConfCancel, Completed, Typed, Scalars,
                world, history, counters
  <1>3. halting' \in BOOLEAN
    BY <1>1, Zenon DEF CheckCancel, WaitCancel, ConfEvent, ConfCancel, Completed, Typed
  <1>4. \/ /\ care' = [care EXCEPT ![b] = [care[b] EXCEPT !.pc = "run"]] /\ care[b].pc = "check"
        \/ /\ care' = [care EXCEPT ![b] = [care[b] EXCEPT !.cancelReq = FALSE, !.cancelResp = "refused",
                                             !.pc = IF @ = "check" THEN "run" ELSE @]]
        \/ /\ care' = [care EXCEPT ![b] = [care[b] EXCEPT !.conf = "gone", !.confEvent = TRUE]]
           /\ care[b].conf = "watch" /\ mem[b].tx \in mined
        \/ /\ care' = [care EXCEPT ![b] = [care[b] EXCEPT !.cancelReq = FALSE, !.cancelResp = "refused",
                                             !.conf = "gone"]]
        \/ /\ care' = [care EXCEPT ![b] = [care[b] EXCEPT !.pc = "gone", !.conf = "gone"]]
           /\ care[b].pc = "signal"
    BY <1>1 DEF CheckCancel, Cancel, WaitCancel, ConfEvent, ConfCancel, Completed, Typed
  <1>5. PICK c \in Caretakers :
          /\ care' = [care EXCEPT ![b] = c]
          /\ c.confEvent => care[b].confEvent \/ (care[b].conf = "watch" /\ mem[b].tx \in mined)
          /\ c.conf = "watch" => care[b].conf = "watch"
          /\ c.cancelReq => care[b].cancelReq
          /\ c.broadcast = care[b].broadcast
          /\ \/ c.pc = care[b].pc
             \/ c.pc = "gone" /\ care[b].pc = "signal"
             \/ c.pc = "run" /\ care[b].pc = "check"
    <2>1. care[b] \in Caretakers
      BY <1>1 DEF Typed
    <2> DEFINE x1 == [care[b] EXCEPT !.pc = "run"]
               x2 == [care[b] EXCEPT !.cancelReq = FALSE, !.cancelResp = "refused",
                                     !.pc = IF @ = "check" THEN "run" ELSE @]
               x3 == [care[b] EXCEPT !.conf = "gone", !.confEvent = TRUE]
               x4 == [care[b] EXCEPT !.cancelReq = FALSE, !.cancelResp = "refused", !.conf = "gone"]
               x5 == [care[b] EXCEPT !.pc = "gone", !.conf = "gone"]
    <2>2. x1 \in Caretakers /\ x2 \in Caretakers /\ x3 \in Caretakers /\ x4 \in Caretakers
          /\ x5 \in Caretakers
      BY <2>1, CaretakerTypes
    <2>6. /\ x1.broadcast = care[b].broadcast /\ x2.broadcast = care[b].broadcast
          /\ x3.broadcast = care[b].broadcast /\ x4.broadcast = care[b].broadcast
          /\ x5.broadcast = care[b].broadcast
      BY <2>1 DEF Caretakers
    <2>3. /\ \A x \in {x1, x2, x4, x5} : x.confEvent = care[b].confEvent
          /\ \A x \in {x1, x3, x5} : x.cancelReq = care[b].cancelReq
          /\ ~x2.cancelReq /\ ~x4.cancelReq
      BY <2>1 DEF Caretakers
    <2>4. /\ \A x \in {x1, x2} : x.conf = care[b].conf
          /\ \A x \in {x3, x4, x5} : x.conf = "gone"
          /\ \A x \in {x3, x4} : x.pc = care[b].pc
          /\ x1.pc = "run" /\ x5.pc = "gone"
          /\ x2.pc = care[b].pc \/ (x2.pc = "run" /\ care[b].pc = "check")
      BY <2>1 DEF Caretakers
    <2>5. \/ care' = [care EXCEPT ![b] = x1] /\ care[b].pc = "check"
          \/ care' = [care EXCEPT ![b] = x2]
          \/ care' = [care EXCEPT ![b] = x3] /\ care[b].conf = "watch" /\ mem[b].tx \in mined
          \/ care' = [care EXCEPT ![b] = x4]
          \/ care' = [care EXCEPT ![b] = x5] /\ care[b].pc = "signal"
      BY <1>4
    <2> HIDE DEF x1, x2, x3, x4, x5
    <2> QED BY <2>2, <2>3, <2>4, <2>5, <2>6
  <1>6. \A e \in Batches : CaretakerInv(e)' /\ GenesisInv(e)'
    <2>1. \A e \in Batches : Resting(e)' => Resting(e)
      BY <1>2 DEF Resting
    <2>2. c.cancelReq => b \in disturbed
      BY <1>1, <1>5 DEF CaretakerInv
    <2> QED BY <1>2, <1>5, <2>1, <2>2, ChannelStep
  <1>7. CaretakerStep(b, disk[b], mem[b], c)
    BY <1>1, <1>2, <1>3, <1>5 DEF CaretakerStep, Typed, Scalars
  <1> QED BY <1>6, <1>7, StepFrame, TypeParts DEF MintInv

\* A cancellation that is carried out ends the caretaker and marks the batch.
LEMMA CancelKeeps ==
  ASSUME MintInv, NEW b \in Batches, care[b].cancelReq, care[b].pc \in {"check", "wait"},
         Cancel(b), CancelState(mem[b].state) # "None",
         UNCHANGED <<mem, caretakers, pendingBatch, gardener, world, halting, history, counters>>
  PROVE  MintInv'
  <1> DEFINE final == CancelState(mem[b].state)
             d == [disk[b] EXCEPT !.state = final]
             c == [care[b] EXCEPT !.cancelReq = FALSE, !.cancelResp = "cancelled",
                                  !.pc = "gone", !.broadcast = "error"]
  <1>1. Typed /\ CaretakerInv(b) /\ GenesisInv(b)
    BY TypeParts DEF MintInv
  <1>2. /\ mem[b].state \in Early /\ final \in Cancelled
        /\ care' = [care EXCEPT ![b] = c] /\ disk' = [disk EXCEPT ![b] = d]
    BY <1>1 DEF Cancel, CancelState, Early, Cancelled, UpdateBatchState, Typed
  <1>3. /\ d \in BatchRows /\ d.state \in Cancelled /\ d.tx = disk[b].tx
        /\ d.seedlings = disk[b].seedlings
    BY <1>1, <1>2 DEF Typed, BatchRows, States, Cancelled
  <1>4. /\ c \in Caretakers /\ c.pc = "gone" /\ c.conf = care[b].conf /\ ~c.cancelReq
        /\ c.confEvent = care[b].confEvent
    BY <1>1 DEF Typed, Caretakers
  <1> HIDE DEF d, c, final
  <1>5. CaretakerStep(b, d, mem[b], c)
    BY <1>1, <1>2, <1>3, <1>4 DEF CaretakerStep, Typed, Scalars, world, history, counters
  <1>6. CaretakerInv(b)'
    <2>1. b \in disturbed' /\ ~Resting(b)
      BY <1>1 DEF CaretakerInv, Stopped, history
    <2> QED BY <1>1, <1>2, <1>3, <1>4, <1>5, <2>1, StepFrame
            DEF CaretakerInv, Cancelled, Stopped
  <1>7. GenesisInv(b)'
    BY <1>1, <1>2, <1>3, <1>4, <1>5, StepFrame
    DEF GenesisInv, Seeded, TxInMemory, TxOnDisk, TxMined, Early, Late, Cancelled, world, history
  <1> QED BY <1>5, <1>6, <1>7, StepFrame, TypeParts DEF MintInv

\* A call that fails ends the caretaker, and the gardener may hear of it.
LEMMA FailsKeeps ==
  ASSUME MintInv, NEW b \in Batches, NEW call, care[b].pc = "run", Fails(b, call),
         mem[b].state \in Early \cup {"Broadcast", "Confirmed"},
         \/ UNCHANGED disk
         \/ mem[b].state = "Committed" /\ disk' = CommitSignedGenesisTx(b),
         published' \subseteq Txs, published \subseteq published',
         UNCHANGED <<mem, mined, fundings, refrozen, caretakers, pendingBatch, gardener, halting>>
  PROVE  MintInv'
  <1> DEFINE c == [care[b] EXCEPT !.pc = "gone",
                     !.broadcast = IF mem[b].state = "Confirmed" THEN @ ELSE "error"]
  <1>1. Typed /\ CaretakerInv(b) /\ GenesisInv(b)
    BY TypeParts DEF MintInv
  <1>2. /\ care' = [care EXCEPT ![b] = c] /\ disturbed' = disturbed \cup {b}
    BY <1>1 DEF Fails, Typed
  <1>3. PICK d \in BatchRows :
          /\ disk' = [disk EXCEPT ![b] = d] /\ d.tx = disk[b].tx /\ d.seedlings = disk[b].seedlings
          /\ d.state = disk[b].state \/ (mem[b].state = "Committed" /\ d.state = "Broadcast")
    <2>1. CASE UNCHANGED disk
      BY <1>1, <2>1 DEF Typed
    <2>2. CASE mem[b].state = "Committed" /\ disk' = CommitSignedGenesisTx(b)
      <3>1. /\ [disk[b] EXCEPT !.state = "Broadcast"] \in BatchRows
            /\ [disk[b] EXCEPT !.state = "Broadcast"].state = "Broadcast"
            /\ [disk[b] EXCEPT !.state = "Broadcast"].tx = disk[b].tx
            /\ [disk[b] EXCEPT !.state = "Broadcast"].seedlings = disk[b].seedlings
        BY <1>1 DEF Typed, BatchRows, States
      <3>2. disk' = [disk EXCEPT ![b] = [disk[b] EXCEPT !.state = "Broadcast"]]
        BY <1>1, <2>2 DEF CommitSignedGenesisTx, Typed
      <3> QED BY <2>2, <3>1, <3>2
    <2> QED BY <2>1, <2>2
  <1>4. /\ c \in Caretakers /\ c.pc = "gone" /\ c.conf = care[b].conf
        /\ c.confEvent = care[b].confEvent
        /\ c.broadcast = "error" => mem[b].state # "Confirmed" \/ care[b].broadcast = "error"
    BY <1>1 DEF Typed, Caretakers
  <1> HIDE DEF c
  <1>5. CaretakerStep(b, d, mem[b], c)
    BY <1>1, <1>2, <1>3, <1>4 DEF CaretakerStep, Typed, Scalars
  <1>6. CaretakerInv(b)'
    <2>1. b \in disturbed' /\ ~Resting(b) /\ care[b].broadcast # "error" /\ disk[b].state # "None"
      BY <1>1, <1>2 DEF CaretakerInv, Stopped
    <2>2. d.state # "None"
      BY <1>3, <2>1
    <2> QED BY <1>1, <1>2, <1>3, <1>4, <1>5, <2>1, <2>2, StepFrame
            DEF CaretakerInv, Stopped
  <1>7. Seeded(b)' /\ TxInMemory(b)'
    BY <1>1, <1>2, <1>3, <1>5, StepFrame DEF GenesisInv, Seeded, TxInMemory
  <1>8. TxOnDisk(b)'
    BY <1>1, <1>2, <1>3, <1>5, StepFrame DEF GenesisInv, TxInMemory, TxOnDisk, Late
  <1>9. TxMined(b)'
    BY <1>1, <1>3, <1>4, <1>5, StepFrame DEF GenesisInv, TxMined, Early
  <1> QED BY <1>5, <1>6, <1>7, <1>8, <1>9, StepFrame, TypeParts DEF MintInv, GenesisInv

\* What the steps that advance a batch have in common.
LEMMA AdvanceKeeps ==
  ASSUME MintInv, NEW b \in Batches, NEW d, NEW m, NEW c, CaretakerStep(b, d, m, c),
         care[b].pc \in {"run", "wait"}, c.pc \in {"check", "wait", "signal"},
         c.conf = care[b].conf \/ m.state \in Late,
         c.confEvent => care[b].confEvent, c.cancelReq = care[b].cancelReq,
         c.broadcast \in {care[b].broadcast, "complete"},
         d.state \notin {"None"} \cup Cancelled,
         m.state \in Early \cup Late, mem[b].state \in Late => m.state \in Late,
         c.pc = "wait" => m.state = "Broadcast",
         GenesisInv(b)'
  PROVE  MintInv'
  <1>1. CaretakerInv(b)
    BY DEF MintInv
  <1>2. ~Resting(b) /\ care[b].broadcast # "error"
    BY <1>1 DEF CaretakerInv, Stopped
  <1>3. b \in disturbed => b \in disturbed'
    BY DEF CaretakerStep
  <1>4. /\ disk'[b] = d /\ mem'[b] = m /\ care'[b] = c /\ ~Resting(b)'
    BY <1>2, StepFrame
  <1>5. CaretakerInv(b)'
    <2>1. (care[b].conf = "watch" \/ care[b].confEvent => mem[b].state \in Late)'
      BY <1>1, <1>4 DEF CaretakerInv
    <2>2. (care[b].cancelReq => b \in disturbed)'
      BY <1>1, <1>3, <1>4 DEF CaretakerInv
    <2> QED BY <1>2, <1>4, <2>1, <2>2 DEF CaretakerInv, Stopped
  <1> QED BY <1>5, StepFrame, TypeParts DEF MintInv

\* The records of a step that advances the state of the batch.
LEMMA AdvancedRecords ==
  ASSUME Typed, NEW b \in Batches, NEW s \in States
  PROVE  /\ [disk[b] EXCEPT !.state = s] \in BatchRows
         /\ [disk[b] EXCEPT !.state = s].state = s
         /\ [disk[b] EXCEPT !.state = s].tx = disk[b].tx
         /\ [disk[b] EXCEPT !.state = s].seedlings = disk[b].seedlings
         /\ [mem[b] EXCEPT !.state = s] \in BatchRows
         /\ [mem[b] EXCEPT !.state = s].state = s
         /\ [mem[b] EXCEPT !.state = s].tx = mem[b].tx
         /\ [mem[b] EXCEPT !.state = s].seedlings = mem[b].seedlings
         /\ [disk EXCEPT ![b].state = s] = [disk EXCEPT ![b] = [disk[b] EXCEPT !.state = s]]
         /\ [mem EXCEPT ![b].state = s] = [mem EXCEPT ![b] = [mem[b] EXCEPT !.state = s]]
  <1>1. /\ disk[b] \in BatchRows /\ mem[b] \in BatchRows
        /\ disk \in [Batches -> BatchRows] /\ mem \in [Batches -> BatchRows]
    BY DEF Typed
  <1>2. ASSUME NEW r \in BatchRows
        PROVE  /\ [r EXCEPT !.state = s] \in BatchRows /\ [r EXCEPT !.state = s].state = s
               /\ [r EXCEPT !.state = s].tx = r.tx
               /\ [r EXCEPT !.state = s].seedlings = r.seedlings
    BY DEF BatchRows
  <1> QED BY <1>1, <1>2

\* The caretaker of a step that advances its place.
LEMMA AdvancedCaretaker ==
  ASSUME Typed, NEW b \in Batches, NEW pc \in {"check", "signal"}
  PROVE  LET c == [care[b] EXCEPT !.pc = pc]
         IN  /\ c \in Caretakers /\ c.pc = pc /\ c.conf = care[b].conf
             /\ c.confEvent = care[b].confEvent /\ c.cancelReq = care[b].cancelReq
             /\ c.broadcast = care[b].broadcast
             /\ [care EXCEPT ![b].pc = pc] = [care EXCEPT ![b] = c]
  <1>1. care[b] \in Caretakers /\ care \in [Batches -> Caretakers]
    BY DEF Typed
  <1> QED BY <1>1 DEF Caretakers

\* Pending, Committed and Confirmed batches whose step succeeds, and Finalized.
LEMMA ProceedKeeps ==
  ASSUME MintInv, NEW b \in Batches, care[b].pc = "run",
         UNCHANGED <<mined, published, fundings, disturbed, refrozen, caretakers, pendingBatch, gardener, halting>>,
         \/ mem[b].state = "Pending" /\ disk' = UpdateBatchState(b, "Frozen") /\ Proceed(b, "Frozen")
         \/ mem[b].state = "Committed" /\ disk' = CommitSignedGenesisTx(b) /\ Proceed(b, "Broadcast")
         \/ mem[b].state = "Confirmed" /\ disk' = MarkBatchConfirmed(b) /\ Proceed(b, "Finalized")
         \/ /\ mem[b].state = "Finalized" /\ disk' = UpdateBatchState(b, "Finalized")
            /\ UNCHANGED mem /\ care' = [care EXCEPT ![b].pc = "signal"]
  PROVE  MintInv'
  <1>1. Typed /\ GenesisInv(b) /\ CaretakerInv(b)
    BY TypeParts DEF MintInv
  <1>2. \E ds, ms \in States, pc \in {"check", "signal"} :
          /\ \/ mem[b].state = "Pending" /\ ds = "Frozen" /\ ms = "Frozen"
             \/ mem[b].state = "Committed" /\ ds = "Broadcast" /\ ms = "Broadcast"
             \/ mem[b].state = "Confirmed" /\ ds = "Confirmed" /\ ms = "Finalized"
             \/ mem[b].state = "Finalized" /\ ds = "Finalized" /\ ms = "Finalized"
          /\ disk' = [disk EXCEPT ![b].state = ds]
          /\ mem' = [mem EXCEPT ![b].state = ms]
          /\ care' = [care EXCEPT ![b].pc = pc]
    <2>1. mem[b].state = "Finalized" => mem = [mem EXCEPT ![b].state = "Finalized"]
      BY <1>1 DEF Typed, BatchRows
    <2> QED BY <2>1 DEF UpdateBatchState, CommitSignedGenesisTx, MarkBatchConfirmed, Proceed, States
  <1>3. PICK ds \in States, ms \in States, pc \in {"check", "signal"} :
          /\ \/ mem[b].state = "Pending" /\ ds = "Frozen" /\ ms = "Frozen"
             \/ mem[b].state = "Committed" /\ ds = "Broadcast" /\ ms = "Broadcast"
             \/ mem[b].state = "Confirmed" /\ ds = "Confirmed" /\ ms = "Finalized"
             \/ mem[b].state = "Finalized" /\ ds = "Finalized" /\ ms = "Finalized"
          /\ disk' = [disk EXCEPT ![b].state = ds]
          /\ mem' = [mem EXCEPT ![b].state = ms]
          /\ care' = [care EXCEPT ![b].pc = pc]
    BY <1>2
  <1> DEFINE d == [disk[b] EXCEPT !.state = ds]
             m == [mem[b] EXCEPT !.state = ms]
             c == [care[b] EXCEPT !.pc = pc]
  <1>4. /\ d \in BatchRows /\ d.state = ds /\ d.tx = disk[b].tx /\ d.seedlings = disk[b].seedlings
        /\ m \in BatchRows /\ m.state = ms /\ m.tx = mem[b].tx /\ m.seedlings = mem[b].seedlings
        /\ disk' = [disk EXCEPT ![b] = d] /\ mem' = [mem EXCEPT ![b] = m]
    BY ZenonT(60), <1>1, <1>3, AdvancedRecords
  <1>5. /\ c \in Caretakers /\ c.pc = pc /\ c.conf = care[b].conf
        /\ c.confEvent = care[b].confEvent /\ c.cancelReq = care[b].cancelReq
        /\ c.broadcast = care[b].broadcast /\ care' = [care EXCEPT ![b] = c]
    BY <1>1, <1>3, AdvancedCaretaker
  <1> HIDE DEF d, m, c
  <1>6. CaretakerStep(b, d, m, c)
    BY <1>1, <1>4, <1>5 DEF CaretakerStep, Typed, Scalars
  <1>7. disk'[b] = d /\ mem'[b] = m /\ care'[b] = c
    BY <1>6, StepFrame
  <1>8. Seeded(b)' /\ TxInMemory(b)'
    BY <1>1, <1>3, <1>4, <1>7 DEF GenesisInv, Seeded, TxInMemory
  <1>9. TxOnDisk(b)'
    BY <1>1, <1>3, <1>4, <1>7 DEF GenesisInv, TxInMemory, TxOnDisk, TxMined, Late
  <1>10. TxMined(b)'
    <2>1. care[b].confEvent => mem[b].tx \in mined
      BY <1>1 DEF GenesisInv, TxMined
    <2> QED BY <1>1, <1>3, <1>4, <1>5, <1>7, <2>1 DEF GenesisInv, TxInMemory, TxMined
  <1>11. /\ ds \notin {"None"} \cup Cancelled /\ ms \in Early \cup Late
         /\ mem[b].state \in Late => ms \in Late
    BY <1>3 DEF Cancelled, Early, Late
  <1> QED BY <1>4, <1>5, <1>6, <1>8, <1>9, <1>10, <1>11, AdvanceKeeps DEF GenesisInv

\* A frozen batch gets a transaction that commits to its seedlings.
LEMMA CommitKeeps ==
  ASSUME MintInv, NEW b \in Batches, care[b].pc = "run", mem[b].state = "Frozen",
         fundings < MaxFundings, fundings' = fundings + 1, NEW funded \in fundGenesisPsbt,
         LET tx == seedlingsToAssetSprouts(b, funded) IN
             /\ disk' = AddSproutsToBatch(b, tx)
             /\ mem' = [mem EXCEPT ![b].state = "Committed", ![b].tx = tx]
             /\ care' = [care EXCEPT ![b].pc = "check", ![b].anchorOutputIndex = funded.index],
         UNCHANGED <<mined, published, disturbed, refrozen, caretakers, pendingBatch, gardener, halting>>
  PROVE  MintInv'
  <1> DEFINE tx == seedlingsToAssetSprouts(b, funded)
             d == [disk[b] EXCEPT !.state = "Committed", !.tx = tx]
             m == [mem[b] EXCEPT !.state = "Committed", !.tx = tx]
             c == [care[b] EXCEPT !.pc = "check", !.anchorOutputIndex = funded.index]
  <1>1. Typed /\ GenesisInv(b) /\ CaretakerInv(b)
    BY TypeParts DEF MintInv
  <1>2. tx \in Txs /\ tx.batch = b /\ tx.names = mem[b].seedlings /\ funded.index \in {0, 1}
    <2>1. mem[b].seedlings \in SUBSET Names /\ fundings \in Nat /\ MaxFundings \in Nat
      BY <1>1, MintingAssumption DEF Typed, BatchRows, Scalars
    <2>2. funded.index \in AnchorIndexes /\ funded.coins = fundings + 1
      BY DEF fundGenesisPsbt
    <2> QED BY <2>1, <2>2, MintingAssumption DEF seedlingsToAssetSprouts, Txs
  <1> HIDE DEF tx
  <1>3. /\ disk[b] \in BatchRows /\ mem[b] \in BatchRows /\ care[b] \in Caretakers
        /\ disk \in [Batches -> BatchRows] /\ mem \in [Batches -> BatchRows]
        /\ care \in [Batches -> Caretakers]
    BY <1>1 DEF Typed
  <1>4. ASSUME NEW r \in BatchRows
        PROVE  LET x == [r EXCEPT !.state = "Committed", !.tx = tx]
               IN  /\ x \in BatchRows /\ x.state = "Committed" /\ x.tx = tx
                   /\ x.seedlings = r.seedlings
    BY <1>2 DEF BatchRows, States
  <1>5. /\ c \in Caretakers /\ c.pc = "check" /\ c.conf = care[b].conf
        /\ c.confEvent = care[b].confEvent /\ c.cancelReq = care[b].cancelReq
        /\ c.broadcast = care[b].broadcast
    BY <1>2, <1>3 DEF Caretakers
  <1>6. /\ disk' = [disk EXCEPT ![b] = d] /\ mem' = [mem EXCEPT ![b] = m]
        /\ care' = [care EXCEPT ![b] = c]
    BY <1>3 DEF AddSproutsToBatch, tx
  <1>7. /\ d \in BatchRows /\ d.state = "Committed" /\ d.tx = tx /\ d.seedlings = disk[b].seedlings
        /\ m \in BatchRows /\ m.state = "Committed" /\ m.tx = tx
    BY <1>3, <1>4
  <1> HIDE DEF d, m, c
  <1>8. CaretakerStep(b, d, m, c)
    <2>1. halting' \in BOOLEAN
      BY <1>1, Zenon DEF Typed
    <2>2. /\ fundings' \in Nat /\ caretakers' \subseteq Batches /\ published' \subseteq Txs
          /\ mined' = mined /\ mined' \subseteq published' /\ UNCHANGED <<disturbed, refrozen>>
      BY <1>1 DEF Typed, Scalars
    <2> QED BY <1>5, <1>6, <1>7, <2>1, <2>2 DEF CaretakerStep
  <1>9. disk'[b] = d /\ mem'[b] = m /\ care'[b] = c
    BY <1>8, StepFrame
  <1>10. mem[b].seedlings = disk[b].seedlings /\ ~care[b].confEvent
    BY <1>1 DEF GenesisInv, Seeded, CaretakerInv, Late
  <1>11. GenesisInv(b)'
    BY ZenonT(60), <1>2, <1>5, <1>7, <1>9, <1>10 DEF GenesisInv, Seeded, TxInMemory, TxOnDisk, TxMined
  <1> QED BY <1>5, <1>7, <1>8, <1>11, AdvanceKeeps DEF Cancelled, Early, Late

\* A signed transaction is published and waited for.
LEMMA BroadcastKeeps ==
  ASSUME MintInv, NEW b \in Batches, care[b].pc = "run", mem[b].state = "Broadcast",
         published' = published \cup {mem[b].tx},
         care' = [care EXCEPT ![b].pc = "wait", ![b].conf = "watch", ![b].broadcast = "complete"],
         UNCHANGED <<disk, mem, mined, fundings, disturbed, refrozen, caretakers, pendingBatch, gardener, halting>>
  PROVE  MintInv'
  <1> DEFINE c == [care[b] EXCEPT !.pc = "wait", !.conf = "watch", !.broadcast = "complete"]
  <1>1. Typed /\ GenesisInv(b) /\ CaretakerInv(b)
    BY TypeParts DEF MintInv
  <1>2. mem[b].tx \in Txs
    BY <1>1 DEF GenesisInv, TxInMemory
  <1>3. /\ disk[b] \in BatchRows /\ mem[b] \in BatchRows /\ care[b] \in Caretakers
        /\ care \in [Batches -> Caretakers]
    BY <1>1 DEF Typed
  <1>4. /\ c \in Caretakers /\ c.pc = "wait" /\ c.confEvent = care[b].confEvent
        /\ c.cancelReq = care[b].cancelReq /\ c.broadcast = "complete"
    BY <1>3 DEF Caretakers
  <1>5. care' = [care EXCEPT ![b] = c]
    BY <1>3
  <1> HIDE DEF c
  <1>6. CaretakerStep(b, disk[b], mem[b], c)
    BY <1>1, <1>2, <1>3, <1>4, <1>5 DEF CaretakerStep, Typed, Scalars
  <1>7. care'[b] = c
    BY <1>6, StepFrame
  <1>8. GenesisInv(b)'
    BY <1>1, <1>4, <1>7 DEF GenesisInv, Seeded, TxInMemory, TxOnDisk, TxMined
  <1>9. disk[b].state \notin {"None"} \cup Cancelled
    BY <1>1 DEF CaretakerInv, Stopped
  <1> QED BY <1>4, <1>6, <1>8, <1>9, AdvanceKeeps DEF Late

\* The caretaker takes up the event of a confirmation.
LEMMA WaitConfirmedKeeps ==
  ASSUME MintInv, NEW b \in Batches, WaitConfirmed(b) PROVE MintInv'
  <1> DEFINE m == [mem[b] EXCEPT !.state = "Confirmed"]
             c == [care[b] EXCEPT !.confEvent = FALSE, !.pc = "check"]
  <1>1. /\ Typed /\ GenesisInv(b) /\ CaretakerInv(b) /\ care[b].confEvent /\ care[b].pc = "wait"
        /\ UNCHANGED <<disk, published, mined, fundings, disturbed, refrozen, caretakers, pendingBatch, gardener,
                       halting>>
    BY TypeParts DEF MintInv, WaitConfirmed, world, history, counters
  <1>2. /\ disk[b] \in BatchRows /\ care[b] \in Caretakers
        /\ mem \in [Batches -> BatchRows] /\ care \in [Batches -> Caretakers]
    BY <1>1 DEF Typed
  <1>3. /\ c \in Caretakers /\ c.pc = "check" /\ c.conf = care[b].conf /\ ~c.confEvent
        /\ c.cancelReq = care[b].cancelReq /\ c.broadcast = care[b].broadcast
    BY <1>2 DEF Caretakers
  <1>4. care' = [care EXCEPT ![b] = c] /\ mem' = [mem EXCEPT ![b] = m]
    BY <1>2 DEF WaitConfirmed
  <1>5. m \in BatchRows /\ m.state = "Confirmed" /\ m.tx = mem[b].tx
    BY <1>1, AdvancedRecords DEF States
  <1> HIDE DEF m, c
  <1>6. CaretakerStep(b, disk[b], m, c)
    BY <1>1, <1>2, <1>3, <1>4, <1>5 DEF CaretakerStep, Typed, Scalars
  <1>7. mem'[b] = m /\ care'[b] = c
    BY <1>6, StepFrame
  <1>8. mem[b].state = "Broadcast" /\ mem[b].tx \in mined /\ disk[b].state \notin {"None"} \cup Cancelled
    BY <1>1 DEF CaretakerInv, GenesisInv, TxMined, Stopped
  <1>9. GenesisInv(b)'
    BY <1>1, <1>3, <1>5, <1>7, <1>8 DEF GenesisInv, Seeded, TxInMemory, TxOnDisk, TxMined
  <1> QED BY <1>1, <1>3, <1>5, <1>6, <1>8, <1>9, AdvanceKeeps DEF Late

\* A caretaker whose proofs do not verify ends.
LEMMA UnverifiedKeeps ==
  ASSUME MintInv, NEW b \in Batches, care[b].pc = "run",
         care' = [care EXCEPT ![b].pc = "gone"],
         UNCHANGED <<disk, mem, published, mined, fundings, disturbed, refrozen, caretakers, pendingBatch,
                     gardener, halting>>
  PROVE  MintInv'
  <1> DEFINE c == [care[b] EXCEPT !.pc = "gone"]
  <1>1. Typed /\ CaretakerInv(b)
    BY TypeParts DEF MintInv
  <1>2. /\ disk[b] \in BatchRows /\ mem[b] \in BatchRows /\ care[b] \in Caretakers
        /\ care \in [Batches -> Caretakers]
    BY <1>1 DEF Typed
  <1>3. /\ c \in Caretakers /\ c.pc = "gone" /\ c.confEvent = care[b].confEvent
        /\ c.conf = care[b].conf
        /\ c.cancelReq = care[b].cancelReq /\ c.broadcast = care[b].broadcast
    BY <1>2 DEF Caretakers
  <1>4. care' = [care EXCEPT ![b] = c]
    BY <1>2
  <1> HIDE DEF c
  <1>5. CaretakerStep(b, disk[b], mem[b], c)
    BY <1>1, <1>2, <1>3, <1>4 DEF CaretakerStep, Typed, Scalars
  <1>6. \A e \in Batches : Resting(e)' => Resting(e)
    BY DEF Resting
  <1>7. c.cancelReq => b \in disturbed
    BY <1>1, <1>3 DEF CaretakerInv
  <1>8. \A e \in Batches : CaretakerInv(e)' /\ GenesisInv(e)'
    <2>1. /\ c.confEvent => care[b].confEvent
          /\ c.conf = "watch" => care[b].conf = "watch"
          /\ c.broadcast = "error" => care[b].broadcast = "error"
          /\ c.pc = "gone" /\ care[b].pc # "none"
      BY <1>3
    <2>2. mined' = mined /\ disturbed' = disturbed /\ UNCHANGED <<disk, mem>>
      OBVIOUS
    <2> QED BY <1>3, <1>4, <1>6, <1>7, <2>1, <2>2, ChannelStep
  <1> QED BY <1>5, <1>8, StepFrame, TypeParts DEF MintInv

\* Every step of a caretaker, by the state of its batch.
LEMMA stateStepKeeps == ASSUME MintInv, NEW b \in Batches, stateStep(b) PROVE MintInv'
  <1>1. /\ care[b].pc = "run" /\ Typed /\ CaretakerInv(b) /\ GenesisInv(b)
        /\ UNCHANGED <<caretakers, pendingBatch, gardener, halting, refrozen>>
    BY TypeParts DEF MintInv, stateStep
  <1>2. mem[b].state \in Early \cup Late
    BY <1>1 DEF CaretakerInv, Stopped
  <1> USE DEF Succeeds, world
  <1>3. CASE mem[b].state = "Pending"
    <2>1. Freeze(b)
      BY <1>3 DEF stateStep
    <2> QED BY <1>1, <1>3, <2>1, ProceedKeeps DEF Freeze
  <1>4. CASE mem[b].state = "Frozen"
    <2>1. Commit(b)
      BY <1>4 DEF stateStep
    <2>2. CASE Fails(b, "fund") /\ UNCHANGED <<disk, mem, world, fundings>>
      BY <1>1, <1>4, <2>2, FailsKeeps DEF Early, Typed, Scalars
    <2> QED BY <1>1, <1>4, <2>1, <2>2, CommitKeeps DEF Commit
  <1>5. CASE mem[b].state = "Committed"
    <2>1. Sign(b)
      BY <1>5 DEF stateStep
    <2>2. CASE Fails(b, "import") /\ disk' = CommitSignedGenesisTx(b) /\ UNCHANGED <<mem, world, fundings>>
      BY <1>1, <1>5, <2>2, FailsKeeps DEF Early, Typed, Scalars
    <2>3. CASE Fails(b, "sign") /\ UNCHANGED <<disk, mem, world, fundings>>
      BY <1>1, <1>5, <2>3, FailsKeeps DEF Early, Typed, Scalars
    <2> QED BY <1>1, <1>5, <2>1, <2>2, <2>3, ProceedKeeps DEF Sign
  <1>6. CASE mem[b].state = "Broadcast"
    <2>1. Broadcast(b)
      BY <1>6 DEF stateStep
    <2>2. mem[b].tx \in Txs
      BY <1>1, <1>6 DEF GenesisInv, TxInMemory
    <2>3. CASE /\ Fails(b, "register") \/ Fails(b, "publish")
               /\ published' \in {published, published \cup {mem[b].tx}}
               /\ UNCHANGED <<disk, mem, mined, fundings>>
      BY <1>1, <1>6, <2>2, <2>3, FailsKeeps DEF Typed, Scalars
    <2> QED BY <1>1, <1>6, <2>1, <2>3, BroadcastKeeps DEF Broadcast
  <1>7. CASE mem[b].state = "Confirmed"
    <2>1. Confirm(b)
      BY <1>7 DEF stateStep
    <2>2. CASE Fails(b, "universe") /\ UNCHANGED <<disk, mem, world, fundings>>
      BY <1>1, <1>7, <2>2, FailsKeeps DEF Typed, Scalars
    <2> QED BY <1>1, <1>7, <2>1, <2>2, ProceedKeeps, UnverifiedKeeps DEF Confirm
  <1>8. CASE mem[b].state = "Finalized"
    <2>1. Finalize(b)
      BY <1>8 DEF stateStep
    <2> QED BY <1>1, <1>8, <2>1, ProceedKeeps DEF Finalize
  <1> QED BY <1>2, <1>3, <1>4, <1>5, <1>6, <1>7, <1>8 DEF Early, Late

(***************************************************************************)
(* The chain and the process.                                              *)
(***************************************************************************)
\* A mined transaction only helps.
LEMMA MineKeeps == ASSUME MintInv, NEW t \in published, Mine(t) PROVE MintInv'
  <1>1. Typed /\ GardenerInv
    BY TypeParts DEF MintInv
  <1>2. /\ UNCHANGED <<disk, mem, care, caretakers, pendingBatch, gardener, published, halting,
                        disturbed, refrozen, fundings>>
        /\ mined' = mined \cup {t}
    BY DEF Mine, history, counters
  <1>3. Typed'
    <2>1. Scalars'
      BY <1>1, <1>2 DEF Typed, Scalars
    <2>2. halting' \in BOOLEAN
      BY <1>1, <1>2, Zenon DEF Typed
    <2> QED BY <1>1, <1>2, <2>1, <2>2 DEF Typed
  <1>4. GardenerInv' /\ \A e \in Batches : Resting(e)' => Resting(e)
    BY <1>1, <1>2 DEF GardenerInv, Resting
  <1>5. \A e \in Batches : CaretakerInv(e)' /\ GenesisInv(e)'
    BY <1>2, <1>4, OtherBatch DEF MintInv
  <1> QED BY <1>3, <1>4, <1>5, TypeParts DEF MintInv

\* What a restart reads back is what the rows say, up to the seedlings of a
\* batch that has its sprouts.
LEMMA LoadedRows ==
  ASSUME NEW d \in BatchRows
  PROVE  /\ Loaded(d) \in BatchRows /\ Loaded(d).tx = d.tx
         /\ d.state \in {"Pending", "Frozen"} => Loaded(d).seedlings = d.seedlings
         /\ d.state = "Confirmed" => Loaded(d).state = "Finalized"
         /\ d.state # "Confirmed" => Loaded(d).state = d.state
  BY DEF Loaded, BatchRows, States

\* A restart resumes from the rows alone.
LEMMA RestartKeeps == ASSUME MintInv, Restart PROVE MintInv'
  <1>1. Typed
    BY TypeParts DEF MintInv
  <1>2. /\ UNCHANGED <<disk, published, mined, disturbed, refrozen, fundings>> /\ halting' = FALSE
        /\ pendingBatch' = None /\ gardener' = Idle /\ caretakers' \subseteq Batches
    BY DEF Restart, world, history
  <1>3. ASSUME NEW b \in Batches
        PROVE  /\ disk[b] \in BatchRows
               /\ mem'[b] = IF Unfinished(b) THEN Loaded(disk[b]) ELSE NoBatch
               /\ care'[b] = IF Unfinished(b) THEN NewBatchCaretaker ELSE NoCaretaker
    BY <1>1 DEF Restart, Typed
  <1>4. ASSUME NEW b \in Batches PROVE mem'[b] \in BatchRows /\ care'[b] \in Caretakers
    BY <1>3, LoadedRows, ConstantRecords
  <1>5. Typed'
    <2>1. DOMAIN mem' = Batches /\ DOMAIN care' = Batches
          /\ mem' = [b \in Batches |-> mem'[b]] /\ care' = [b \in Batches |-> care'[b]]
      BY DEF Restart
    <2>2. mem' \in [Batches -> BatchRows] /\ care' \in [Batches -> Caretakers]
      BY <1>4, <2>1
    <2>3. Scalars'
      BY <1>1, <1>2 DEF Typed, Scalars, Idle
    <2> QED BY <1>1, <1>2, <2>2, <2>3 DEF Typed
  <1>6. GardenerInv' /\ \A b \in Batches : ~Resting(b)'
    BY <1>2, MintingAssumption DEF GardenerInv, Idle, Resting
  <1>7. ASSUME NEW b \in Batches, Unfinished(b) PROVE CaretakerInv(b)' /\ GenesisInv(b)'
    <2>1. /\ mem'[b] = Loaded(disk[b]) /\ care'[b] = NewBatchCaretaker /\ disk[b] \in BatchRows
      BY <1>3, <1>7
    <2>2. disk[b].state \in Early \cup {"Broadcast", "Confirmed"}
      BY <1>7, <2>1 DEF Unfinished, BatchRows, States, Cancelled, Early
    <2>3. GenesisInv(b)
      BY DEF MintInv
    <2>4. CaretakerInv(b)'
      BY <1>2, <1>6, <2>1, <2>2, LoadedRows, ConstantRecords
      DEF CaretakerInv, Early, Late, Cancelled, Stopped
    <2>5. Seeded(b)' /\ TxInMemory(b)'
      BY <1>2, <2>1, <2>2, <2>3, LoadedRows DEF GenesisInv, Seeded, TxInMemory, TxOnDisk, Late, Early
    <2>6. TxOnDisk(b)' /\ TxMined(b)'
      BY <1>2, <2>1, <2>2, <2>3, LoadedRows, ConstantRecords DEF GenesisInv, TxOnDisk, TxMined, Early
    <2> QED BY <2>4, <2>5, <2>6 DEF GenesisInv
  <1>8. ASSUME NEW b \in Batches, ~Unfinished(b) PROVE CaretakerInv(b)' /\ GenesisInv(b)'
    <2>1. mem'[b] = NoBatch /\ care'[b] = NoCaretaker
      BY <1>3, <1>8
    <2>2. GenesisInv(b)
      BY DEF MintInv
    <2>3. CaretakerInv(b)'
      BY <1>2, <1>6, <2>1, ConstantRecords DEF CaretakerInv, Early, Late, Cancelled, Stopped
    <2>4. GenesisInv(b)'
      BY <1>2, <2>1, <2>2, ConstantRecords DEF GenesisInv, Seeded, TxInMemory, TxOnDisk, TxMined
    <2> QED BY <2>3, <2>4
  <1> QED BY <1>5, <1>6, <1>7, <1>8, TypeParts DEF MintInv

\* A step of a caretaker.
LEMMA CaretakerKeeps == ASSUME MintInv, NEW b \in Batches, CaretakerNext(b) PROVE MintInv'
  <1>1. CASE /\ CheckCancel(b) \/ WaitCancel(b)
             /\ care[b].cancelReq /\ CancelState(mem[b].state) # "None"
    BY <1>1, CancelKeeps DEF CheckCancel, WaitCancel
  <1>2. CASE /\ CheckCancel(b) \/ WaitCancel(b)
             /\ ~(care[b].cancelReq /\ CancelState(mem[b].state) # "None")
    BY <1>2, ChannelKeeps DEF WaitCancel
  <1> QED BY <1>1, <1>2, stateStepKeeps, WaitConfirmedKeeps DEF CaretakerNext

\* Every step keeps the first layer.
LEMMA MintStep == MintInv /\ [Next]_vars => MintInv'
  <1> SUFFICES ASSUME MintInv, [Next]_vars PROVE MintInv'
    OBVIOUS
  <1>1. CASE UNCHANGED vars
    <2>1. UNCHANGED <<disk, mem, care, caretakers, pendingBatch, gardener, published, mined, halting,
                      disturbed, refrozen, fundings>>
      BY <1>1 DEF vars, world, history, counters
    <2>2. Typed /\ GardenerInv
      BY TypeParts DEF MintInv
    <2>3. Typed' /\ GardenerInv'
      BY <2>1, <2>2 DEF Typed, Scalars, GardenerInv
    <2>4. \A b \in Batches : CaretakerInv(b)' /\ GenesisInv(b)'
      BY <2>1, OtherBatch DEF MintInv, Resting
    <2> QED BY <2>3, <2>4, TypeParts DEF MintInv
  <1>2. CASE Next
    BY <1>2, SeedlingKeeps, FinalizeKeeps, AnswerKeeps, CancelBatchKeeps, ChannelKeeps, CaretakerKeeps,
       MineKeeps, RestartKeeps DEF Next, ConfNext, Interrupted, Halted
  <1> QED BY <1>1, <1>2

(***************************************************************************)
(* What holds whatever fails.                                              *)
(***************************************************************************)
\* The first layer is an invariant.
LEMMA MintInvariant == Spec => []MintInv
  BY InitMint, MintStep, PTL DEF Spec

\* The rows, the shared batches, the channels of the caretakers and the place
\* of the gardener keep their types, and only published transactions are mined.
THEOREM MintingTypes == Spec => []TypeOK
  <1>1. MintInv => TypeOK
    BY DEF MintInv
  <1> QED BY <1>1, MintInvariant, PTL

\* A batch the store marks Confirmed or Finalized (MarkBatchConfirmed) has its
\* recorded transaction mined and committing to every accepted seedling, unless
\* a call failed for it, over any number of failures, restarts and cancels.
THEOREM ConfirmedBatchesAreMinted == Spec => []ConfirmedIsMinted
  <1>1. MintInv => ConfirmedIsMinted
    BY DEF MintInv, GenesisInv, TxMined, TxOnDisk, Late, ConfirmedIsMinted
  <1> QED BY <1>1, MintInvariant, PTL

(***************************************************************************)
(* The second layer.                                                       *)
(***************************************************************************)
\* At the start nothing is published.
LEMMA InitOffChain == Init => OffChainInv
  BY MintingAssumption
  DEF Init, OffChainInv, OutInv, NoBatch, NoCaretaker, Resting, Idle, Early, Late, Stopped

\* A batch keeps its part when its state, its transaction, its caretaker and
\* what is published for it stay, and no failure is reported that was not
\* reported before.
LEMMA OutSame ==
  ASSUME NEW c \in Batches, OutInv(c),
         disk'[c].state = disk[c].state, disk'[c].tx = disk[c].tx, mem'[c].state = mem[c].state,
         \A t \in published' : t.batch = c => t \in published,
         care'[c].cancelResp = "cancelled" =>
            care[c].cancelResp = "cancelled" /\ care'[c].pc = care[c].pc,
         care'[c].pc \in Stopped \/ (care[c].pc \notin Stopped /\ (c \in caretakers => c \in caretakers')),
         care'[c].broadcast = "error" \/ Resting(c)' =>
            \/ mem[c].state \in Early
            \/ /\ care[c].broadcast = "error" \/ Resting(c)
               /\ c \in caretakers => c \in caretakers'
  PROVE  OutInv(c)'
  BY DEF OutInv

\* A batch that is early in memory has nothing on the network.
LEMMA EarlyIsUnpublished ==
  ASSUME OffChainInv, NEW b \in Batches \ refrozen, mem[b].state \in Early
  PROVE  \A t \in published : t.batch # b
  BY DEF OffChainInv, OutInv

\* The gardener: new and pending batches.
LEMMA SeedlingOut ==
  ASSUME MintInv, OffChainInv, NEW n \in Names, prepAssetSeedling(n) PROVE OffChainInv'
  <1>1. Typed
    BY TypeParts DEF MintInv
  <1>2. UNCHANGED <<care, caretakers, gardener, published, refrozen>>
    BY DEF prepAssetSeedling, world, history
  <1>3. CASE pendingBatch # None /\ addSeedling(pendingBatch, n)
    <2>1. PICK b \in Batches : b = pendingBatch
      BY <1>1, <1>3 DEF Typed, Scalars
    <2>2. /\ mem' = [mem EXCEPT ![b].seedlings = @ \cup {n}]
          /\ disk' = [disk EXCEPT ![b].seedlings = @ \cup {n}]
          /\ UNCHANGED pendingBatch
      BY <1>3, <2>1 DEF addSeedling, AddSeedlingsToBatch
    <2>3. \A c \in Batches : /\ disk'[c].state = disk[c].state /\ disk'[c].tx = disk[c].tx
                             /\ mem'[c].state = mem[c].state
      BY <1>1, <2>1, <2>2 DEF Typed, BatchRows
    <2>4. \A c \in Batches : Resting(c)' => Resting(c)
      BY <1>2, <2>2 DEF Resting
    <2> QED BY <1>2, <2>3, <2>4, OutSame DEF OffChainInv
  <1>4. ASSUME NEW b \in Batches, pendingBatch = None, newMintingBatch(b, n) PROVE OffChainInv'
    <2> DEFINE batch == [NoBatch EXCEPT !.state = "Pending", !.seedlings = {n}]
    <2>1. batch.state = "Pending"
      BY DEF NoBatch
    <2>2. /\ disk[b].state = "None" /\ disk' = [disk EXCEPT ![b] = batch]
          /\ mem' = [mem EXCEPT ![b] = batch] /\ pendingBatch' = b
      BY <1>4 DEF newMintingBatch, CommitMintingBatch
    <2> HIDE DEF batch
    <2>3. /\ disk'[b] = batch /\ mem'[b] = batch
          /\ \A c \in Batches : c # b => disk'[c] = disk[c] /\ mem'[c] = mem[c] /\ ~Resting(c)'
      BY <1>1, <2>2 DEF Typed, Resting
    <2>4. b \notin refrozen => OutInv(b)'
      <3>1. SUFFICES ASSUME b \notin refrozen PROVE OutInv(b)'
        OBVIOUS
      <3>2. OutInv(b)
        BY <3>1 DEF OffChainInv
      <3>3. \A t \in published : t.batch # b
        BY <2>2, <3>2 DEF OutInv, Late
      <3> QED BY <1>2, <2>1, <2>3, <3>2, <3>3 DEF OutInv, Early
    <2>5. \A c \in Batches \ refrozen : c # b => OutInv(c)'
      BY <1>2, <2>3, OutSame DEF OffChainInv
    <2> QED BY <1>2, <2>4, <2>5 DEF OffChainInv
  <1> QED BY <1>3, <1>4 DEF prepAssetSeedling

\* A batch is finalized while it is early, or it counts as refrozen from now on.
LEMMA FinalizeOut ==
  ASSUME MintInv, OffChainInv, Tick \/ FinalizeBatch PROVE OffChainInv'
  <1>1. Typed /\ gardener.at = "idle" /\ pendingBatch # None
    BY TypeParts DEF MintInv, Tick, FinalizeBatch, Idle
  <1>2. UNCHANGED <<mem, published>>
    BY DEF Tick, FinalizeBatch, world
  <1>3. PICK b \in Batches : b = pendingBatch /\ Resting(b)
    BY <1>1 DEF Typed, Scalars, Resting
  <1>4. /\ disk' = [disk EXCEPT ![b].state = "Frozen"]
        /\ care' = [care EXCEPT ![b] = NewBatchCaretaker]
        /\ caretakers' = caretakers \cup {b} /\ pendingBatch' \in {None, b}
        /\ refrozen' = IF mem[b].state = "Broadcast" THEN refrozen \cup {b} ELSE refrozen
    BY <1>3 DEF Tick, FinalizeBatch, finalizeBatch, UpdateBatchState
  <1>5. /\ care'[b] = NewBatchCaretaker
        /\ \A c \in Batches : c # b => disk'[c] = disk[c] /\ care'[c] = care[c] /\ ~Resting(c)'
    BY <1>1, <1>4, MintingAssumption DEF Typed, Resting
  <1>6. ASSUME b \notin refrozen' PROVE OutInv(b)'
    <2>1. mem[b].state \in Early /\ b \notin refrozen
      BY <1>3, <1>4, <1>6 DEF MintInv, CaretakerInv
    <2>2. \A t \in published : t.batch # b
      BY <2>1, EarlyIsUnpublished
    <2>3. care'[b].cancelResp = "none"
      BY <1>5 DEF NewBatchCaretaker, NoCaretaker
    <2>4. care'[b].broadcast # "error" /\ b \in caretakers'
      BY <1>4, <1>5, ConstantRecords
    <2> QED BY <1>2, <2>1, <2>2, <2>3, <2>4 DEF OutInv, Early
  <1>7. \A c \in Batches \ refrozen' : c # b => OutInv(c)'
    BY <1>2, <1>4, <1>5, OutSame DEF OffChainInv
  <1> QED BY <1>6, <1>7 DEF OffChainInv

\* A failed finalization hands the batch back to the gardener.
LEMMA AnswerOut ==
  ASSUME MintInv, OffChainInv, FinalizeAnswered \/ CancelAnswered PROVE OffChainInv'
  <1>1. Typed /\ GardenerInv
    BY TypeParts DEF MintInv
  <1>2. PICK b \in Batches : b = gardener.batch
    BY <1>1 DEF FinalizeAnswered, CancelAnswered, GardenerInv
  <1>3. /\ UNCHANGED <<disk, mem, published, refrozen>>
        /\ \/ pendingBatch' = None
           \/ pendingBatch' = b /\ care[b].broadcast = "error"
        /\ \/ /\ care' = [care EXCEPT ![b].broadcast = "none"] /\ UNCHANGED caretakers
           \/ /\ care' = [care EXCEPT ![b].cancelResp = "none"]
              /\ caretakers' = IF care[b].cancelResp = "cancelled" THEN caretakers \ {b} ELSE caretakers
    BY <1>1, <1>2 DEF FinalizeAnswered, CancelAnswered, GardenerInv, world, history
  <1>4. \A c \in Batches : /\ care'[c].broadcast \in {care[c].broadcast, "none"}
                           /\ care'[c].cancelResp \in {care[c].cancelResp, "none"}
                           /\ care'[c].pc = care[c].pc
    BY <1>1, <1>2, <1>3 DEF Typed, Caretakers
  <1>5. \A c \in Batches : Resting(c)' => c = b /\ care[b].broadcast = "error"
    BY <1>3, MintingAssumption DEF Resting
  <1>6. \A c \in Batches \ refrozen :
          c \in caretakers => c \in caretakers' \/ (mem[c].state \in Early /\ care[c].pc = "gone")
    BY <1>3 DEF OffChainInv, OutInv
  <1> QED BY <1>3, <1>4, <1>5, <1>6, OutSame DEF OffChainInv, Stopped

\* A batch is cancelled by the gardener while it is early.
LEMMA CancelBatchOut ==
  ASSUME MintInv, OffChainInv, NEW b \in Batches, CancelBatch(b) PROVE OffChainInv'
  <1>1. Typed /\ gardener.at = "idle"
    BY TypeParts DEF MintInv, CancelBatch, Idle
  <1>2. UNCHANGED <<mem, caretakers, published, refrozen>> /\ pendingBatch' = None
    BY DEF CancelBatch, world
  <1>3. \A c \in Batches : ~Resting(c)'
    BY <1>2, MintingAssumption DEF Resting
  <1>4. CASE b \in caretakers
    <2>1. UNCHANGED disk /\ care' = [care EXCEPT ![b].cancelReq = TRUE]
      BY <1>4 DEF CancelBatch
    <2>2. \A c \in Batches : /\ care'[c].broadcast = care[c].broadcast
                             /\ care'[c].cancelResp = care[c].cancelResp /\ care'[c].pc = care[c].pc
      BY <1>1, <2>1 DEF Typed, Caretakers
    <2> QED BY <1>2, <1>3, <2>1, <2>2, OutSame DEF OffChainInv
  <1>5. CASE b \notin caretakers
    <2>1. UNCHANGED care /\ Resting(b) /\ disk' = [disk EXCEPT ![b].state = "SeedlingCancelled"]
      BY <1>1, <1>5 DEF CancelBatch, Cancellable, UpdateBatchState, Resting
    <2>2. ASSUME b \notin refrozen PROVE OutInv(b)'
      <3>1. mem[b].state \in Early /\ OutInv(b)
        BY <1>5, <2>1, <2>2 DEF OffChainInv, OutInv
      <3>2. \A t \in published : t.batch # b
        BY <2>2, <3>1, EarlyIsUnpublished
      <3> QED BY <1>2, <1>3, <2>1, <3>1, <3>2 DEF OutInv, Early
    <2>3. \A c \in Batches : c # b => disk'[c] = disk[c]
      BY <1>1, <2>1 DEF Typed
    <2>4. \A c \in Batches \ refrozen : c # b => OutInv(c)'
      BY <1>2, <1>3, <2>1, <2>3, OutSame DEF OffChainInv
    <2> QED BY <1>2, <2>2, <2>4 DEF OffChainInv
  <1> QED BY <1>4, <1>5

\* A step of the caretaker of b leaves the other batches alone.
LEMMA OutOthers ==
  ASSUME OffChainInv, NEW b \in Batches, b \notin refrozen => OutInv(b)',
         \A c \in Batches \ {b} : disk'[c] = disk[c] /\ mem'[c] = mem[c] /\ care'[c] = care[c],
         \A t \in published' : t \in published \/ t.batch = b,
         UNCHANGED <<pendingBatch, gardener, caretakers, refrozen>>
  PROVE  OffChainInv'
  <1>1. \A c \in Batches : Resting(c)' => Resting(c)
    BY DEF Resting
  <1>2. ASSUME NEW c \in Batches \ refrozen, c # b PROVE OutInv(c)'
    BY <1>1, <1>2, OutSame DEF OffChainInv
  <1> QED BY <1>2 DEF OffChainInv

\* Channel steps.
LEMMA ChannelOut ==
  ASSUME MintInv, OffChainInv, NEW b \in Batches,
         \/ CheckCancel(b) /\ (~care[b].cancelReq \/ CancelState(mem[b].state) = "None")
         \/ WaitCancel(b) /\ CancelState(mem[b].state) = "None"
         \/ ConfEvent(b) \/ ConfCancel(b) \/ Completed(b)
  PROVE  OffChainInv'
  <1>1. care \in [Batches -> Caretakers] /\ CaretakerInv(b)
    BY TypeParts DEF MintInv, Typed
  <1>2. /\ UNCHANGED <<disk, mem, pendingBatch, gardener, published, refrozen>>
        /\ \/ UNCHANGED caretakers
           \/ care[b].pc = "signal" /\ care'[b].pc = "gone" /\ caretakers' = caretakers \ {b}
    BY <1>1 DEF Caretakers, CheckCancel, Cancel, WaitCancel, ConfEvent, ConfCancel, Completed, world, history
  <1>3. \A c \in Batches : care'[c].broadcast = care[c].broadcast
    BY <1>1 DEF CheckCancel, Cancel, WaitCancel, ConfEvent, ConfCancel, Completed, Caretakers
  <1>4. \A c \in Batches : Resting(c)' => Resting(c)
    BY <1>2 DEF Resting
  <1>5. \A c \in Batches \ {b} : care'[c] = care[c]
    BY <1>1 DEF CheckCancel, Cancel, WaitCancel, ConfEvent, ConfCancel, Completed
  <1>6. \/ care'[b].cancelResp = "refused"
        \/ /\ care'[b].cancelResp = care[b].cancelResp
           /\ care[b].pc \in {"check", "signal"} \/ care'[b].pc = care[b].pc
    BY <1>1 DEF CheckCancel, Cancel, WaitCancel, ConfEvent, ConfCancel, Completed, Caretakers
  <1>7. /\ care[b].pc = "signal" => care[b].broadcast # "error" /\ ~Resting(b)
        /\ care'[b].pc \in Stopped \/ care[b].pc \notin Stopped
    BY <1>1 DEF CaretakerInv, Stopped, CheckCancel, Cancel, WaitCancel, ConfEvent, ConfCancel,
                Completed, Caretakers
  <1>8. ASSUME NEW c \in Batches \ refrozen PROVE OutInv(c)'
    <2>1. OutInv(c)
      BY DEF OffChainInv
    <2>2. care'[c].cancelResp = "cancelled" =>
            care[c].cancelResp = "cancelled" /\ care'[c].pc = care[c].pc
      BY <1>5, <1>6, <2>1 DEF OutInv
    <2>3. care'[c].broadcast = "error" \/ Resting(c)' =>
             /\ care[c].broadcast = "error" \/ Resting(c)
             /\ c \in caretakers => c \in caretakers'
      BY <1>2, <1>3, <1>4, <1>7
    <2>4. care'[c].pc \in Stopped \/ (care[c].pc \notin Stopped /\ (c \in caretakers => c \in caretakers'))
      BY <1>2, <1>5, <1>7 DEF Stopped
    <2> QED BY <1>2, <2>1, <2>2, <2>3, <2>4, OutSame
  <1> QED BY <1>2, <1>8 DEF OffChainInv

\* A caretaker carries a cancellation out while its batch is early.
LEMMA CancelOut ==
  ASSUME MintInv, OffChainInv, NEW b \in Batches, Cancel(b), CancelState(mem[b].state) # "None",
         UNCHANGED <<mem, caretakers, pendingBatch, gardener, world, history>>
  PROVE  OffChainInv'
  <1>1. Typed
    BY TypeParts DEF MintInv
  <1>2. mem[b].state \in Early
    BY DEF CancelState, Early
  <1>3. \A c \in Batches \ {b} : disk'[c] = disk[c] /\ care'[c] = care[c]
    BY <1>1 DEF Cancel, UpdateBatchState, Typed
  <1>4. care'[b].pc = "gone"
    BY <1>1 DEF Cancel, Typed, Caretakers
  <1>5. b \notin refrozen => OutInv(b)'
    BY <1>2, <1>4, EarlyIsUnpublished DEF OutInv, Early, Stopped, world
  <1> QED BY <1>3, <1>5, OutOthers DEF world, history

\* A call fails: before the batch is signed, after its confirmation, or at the
\* broadcast, when the caretaker is still in the map.
LEMMA FailsOut ==
  ASSUME MintInv, OffChainInv, NEW b \in Batches, NEW call, care[b].pc = "run", Fails(b, call),
         \/ mem[b].state \in Early /\ UNCHANGED published
         \/ /\ mem[b].state \in {"Broadcast", "Confirmed"} /\ UNCHANGED disk
            /\ published' \in {published, published \cup {disk[b].tx}} /\ disk[b].tx.batch = b,
         UNCHANGED disk \/ disk' = CommitSignedGenesisTx(b),
         UNCHANGED <<mem, caretakers, pendingBatch, gardener, refrozen>>
  PROVE  OffChainInv'
  <1>1. Typed /\ CaretakerInv(b)
    BY TypeParts DEF MintInv
  <1>2. \A c \in Batches \ {b} : disk'[c] = disk[c] /\ care'[c] = care[c]
    BY <1>1 DEF Fails, CommitSignedGenesisTx, Typed
  <1>3. ASSUME b \notin refrozen PROVE OutInv(b)'
    <2>1. OutInv(b) /\ care[b].cancelResp # "cancelled" /\ b \in caretakers
      BY <1>3 DEF OffChainInv, OutInv, Stopped
    <2>2. care'[b].cancelResp = care[b].cancelResp /\ care'[b].pc = "gone" /\ ~Resting(b)'
      BY <1>1 DEF Fails, Typed, Caretakers, CaretakerInv, Resting, Stopped
    <2>3. CASE mem[b].state \in Early
      BY <1>3, <2>1, <2>2, <2>3, EarlyIsUnpublished DEF OutInv, Early, Stopped
    <2>4. CASE mem[b].state \in {"Broadcast", "Confirmed"} /\ UNCHANGED disk
      <3>2. disk[b].state \in Late /\ mem[b].state \notin Early
        BY <2>1, <2>4 DEF OutInv, Early, Late
      <3>3. \A t \in published' : t.batch = b => disk[b].tx = t
        BY <2>1, <2>4 DEF OutInv, Early
      <3> QED BY <2>1, <2>2, <2>4, <3>2, <3>3 DEF OutInv, Stopped
    <2> QED BY <2>3, <2>4
  <1>4. \A t \in published' : t \in published \/ t.batch = b
    OBVIOUS
  <1> QED BY <1>2, <1>3, <1>4, OutOthers

\* What the steps that advance a batch have in common: the caretaker runs, so
\* that its batch is not pending and no error of it is outstanding.
LEMMA AdvanceOut ==
  ASSUME MintInv, OffChainInv, NEW b \in Batches, care[b].pc \in {"run", "wait"},
         care'[b].broadcast \in {care[b].broadcast, "complete"},
         care'[b].cancelResp = care[b].cancelResp,
         \A c \in Batches \ {b} : disk'[c] = disk[c] /\ mem'[c] = mem[c] /\ care'[c] = care[c],
         UNCHANGED <<pendingBatch, gardener, caretakers, refrozen>>,
         \A t \in published' : t \in published \/ t.batch = b,
         b \notin refrozen =>
            /\ mem'[b].state \in {"Broadcast", "Confirmed"} => disk'[b].state = "Broadcast"
            /\ \A t \in published' : t.batch = b =>
                  disk'[b].state \in Late /\ disk'[b].tx = t /\ mem'[b].state \notin Early
  PROVE  OffChainInv'
  <1>1. care[b].broadcast # "error" /\ ~Resting(b)
    BY DEF MintInv, CaretakerInv, Stopped
  <1>2. ~Resting(b)' /\ care'[b].broadcast # "error"
    BY <1>1 DEF Resting
  <1>3. ASSUME b \notin refrozen PROVE OutInv(b)'
    <2>1. care[b].cancelResp # "cancelled" /\ b \in caretakers
      BY <1>3 DEF OffChainInv, OutInv, Stopped
    <2> QED BY <1>2, <1>3, <2>1 DEF OutInv
  <1> QED BY <1>3, OutOthers

\* The steps that succeed, and the one whose proofs do not verify.
LEMMA ProceedOut ==
  ASSUME MintInv, OffChainInv, NEW b \in Batches, care[b].pc = "run",
         UNCHANGED <<published, pendingBatch, gardener, caretakers, refrozen>>,
         \/ mem[b].state = "Pending" /\ disk' = UpdateBatchState(b, "Frozen") /\ Proceed(b, "Frozen")
         \/ mem[b].state = "Committed" /\ disk' = CommitSignedGenesisTx(b) /\ Proceed(b, "Broadcast")
         \/ mem[b].state = "Confirmed" /\ disk' = MarkBatchConfirmed(b) /\ Proceed(b, "Finalized")
         \/ /\ mem[b].state = "Finalized" /\ disk' = UpdateBatchState(b, "Finalized")
            /\ UNCHANGED mem /\ care' = [care EXCEPT ![b].pc = "signal"]
         \/ mem[b].state = "Confirmed" /\ UNCHANGED <<disk, mem>> /\ care' = [care EXCEPT ![b].pc = "gone"]
  PROVE  OffChainInv'
  <1>1. Typed /\ (b \notin refrozen => OutInv(b))
    BY TypeParts DEF MintInv, OffChainInv
  <1>2. \A c \in Batches \ {b} : disk'[c] = disk[c] /\ mem'[c] = mem[c] /\ care'[c] = care[c]
    BY <1>1 DEF UpdateBatchState, CommitSignedGenesisTx, MarkBatchConfirmed, Proceed, Typed
  <1>3. care'[b].broadcast = care[b].broadcast /\ care'[b].cancelResp = care[b].cancelResp
    BY <1>1 DEF Proceed, Typed, Caretakers
  <1>4. /\ disk'[b].tx = disk[b].tx
        /\ \/ mem[b].state = "Pending" /\ mem'[b].state = "Frozen"
           \/ mem[b].state = "Committed" /\ mem'[b].state = "Broadcast" /\ disk'[b].state = "Broadcast"
           \/ mem[b].state = "Confirmed" /\ mem'[b].state = "Finalized" /\ disk'[b].state = "Confirmed"
           \/ mem[b].state = "Finalized" /\ mem'[b].state = "Finalized" /\ disk'[b].state = "Finalized"
           \/ mem[b].state = "Confirmed" /\ mem'[b].state = "Confirmed" /\ disk'[b].state = disk[b].state
    BY <1>1 DEF UpdateBatchState, CommitSignedGenesisTx, MarkBatchConfirmed, Proceed, Typed, BatchRows
  <1>5. b \notin refrozen /\ mem[b].state \in Early => \A t \in published : t.batch # b
    BY EarlyIsUnpublished
  <1>6. b \notin refrozen /\ mem'[b].state \in {"Broadcast", "Confirmed"} => disk'[b].state = "Broadcast"
    BY <1>1, <1>4 DEF OutInv
  <1>7. ASSUME NEW t \in published', t.batch = b, b \notin refrozen
        PROVE  disk'[b].state \in Late /\ disk'[b].tx = t /\ mem'[b].state \notin Early
    BY <1>1, <1>4, <1>5, <1>7 DEF OutInv, Early, Late
  <1> QED BY <1>2, <1>3, <1>6, <1>7, AdvanceOut

\* A step of a caretaker by the state of its batch.
LEMMA stateStepOut ==
  ASSUME MintInv, OffChainInv, NEW b \in Batches, stateStep(b) PROVE OffChainInv'
  <1>1. /\ care[b].pc = "run" /\ Typed /\ CaretakerInv(b) /\ GenesisInv(b)
        /\ b \notin refrozen => OutInv(b)
        /\ UNCHANGED <<caretakers, pendingBatch, gardener, halting, refrozen>>
    BY TypeParts DEF MintInv, OffChainInv, stateStep
  <1>2. mem[b].state \in Early \cup Late
    BY <1>1 DEF CaretakerInv, Stopped
  <1> USE DEF world
  <1>3. CASE mem[b].state = "Pending"
    <2>1. Freeze(b)
      BY <1>3 DEF stateStep
    <2> QED BY <1>1, <1>3, <2>1, ProceedOut DEF Freeze
  <1>4. CASE mem[b].state = "Frozen"
    <2>1. Commit(b)
      BY <1>4 DEF stateStep
    <2>2. CASE Fails(b, "fund") /\ UNCHANGED <<disk, mem, world, fundings>>
      BY <1>1, <1>4, <2>2, FailsOut DEF Early
    <2>3. ASSUME NEW funded \in fundGenesisPsbt, NEW tx,
                 disk' = AddSproutsToBatch(b, tx),
                 mem' = [mem EXCEPT ![b].state = "Committed", ![b].tx = tx],
                 care' = [care EXCEPT ![b].pc = "check", ![b].anchorOutputIndex = funded.index],
                 UNCHANGED published
          PROVE  OffChainInv'
      <3>1. b \notin refrozen => \A t \in published' : t.batch # b
        BY <1>4, <2>3, EarlyIsUnpublished DEF Early
      <3>2. \A c \in Batches \ {b} : disk'[c] = disk[c] /\ mem'[c] = mem[c] /\ care'[c] = care[c]
        BY <1>1, <2>3 DEF AddSproutsToBatch, Typed
      <3>3. care'[b].broadcast = care[b].broadcast /\ care'[b].cancelResp = care[b].cancelResp
        BY <1>1, <2>3 DEF Typed, Caretakers
      <3>4. mem'[b].state = "Committed"
        BY <1>1, <2>3 DEF Typed, BatchRows
      <3> QED BY <1>1, <2>3, <3>1, <3>2, <3>3, <3>4, AdvanceOut
    <2> QED BY <2>1, <2>2, <2>3 DEF Commit
  <1>5. CASE mem[b].state = "Committed"
    <2>1. Sign(b)
      BY <1>5 DEF stateStep
    <2>2. CASE Fails(b, "import") /\ disk' = CommitSignedGenesisTx(b) /\ UNCHANGED <<mem, world, fundings>>
      BY <1>1, <1>5, <2>2, FailsOut DEF Early
    <2>3. CASE Fails(b, "sign") /\ UNCHANGED <<disk, mem, world, fundings>>
      BY <1>1, <1>5, <2>3, FailsOut DEF Early
    <2> QED BY <1>1, <1>5, <2>1, <2>2, <2>3, ProceedOut DEF Sign
  <1>6. CASE mem[b].state = "Broadcast"
    <2>1. Broadcast(b)
      BY <1>6 DEF stateStep
    <2>2. mem[b].tx.batch = b /\ disk[b].tx = mem[b].tx
      BY <1>1, <1>6 DEF GenesisInv, TxInMemory
    <2>3. CASE /\ Fails(b, "register") \/ Fails(b, "publish")
               /\ published' \in {published, published \cup {mem[b].tx}}
               /\ UNCHANGED <<disk, mem>>
      BY <1>1, <1>6, <2>2, <2>3, FailsOut
    <2>4. CASE /\ published' = published \cup {mem[b].tx}
               /\ care' = [care EXCEPT ![b].pc = "wait", ![b].conf = "watch", ![b].broadcast = "complete"]
               /\ UNCHANGED <<disk, mem>>
      <3>1. b \notin refrozen => disk[b].state = "Broadcast"
        BY <1>1, <1>6 DEF OutInv
      <3>2. /\ care'[b].broadcast = "complete" /\ care'[b].cancelResp = care[b].cancelResp
            /\ \A c \in Batches \ {b} : care'[c] = care[c]
        BY <1>1, <2>4 DEF Typed, Caretakers
      <3>3. b \notin refrozen => \A t \in published' : t.batch = b => disk'[b].tx = t
        BY <1>1, <2>2, <2>4 DEF OutInv
      <3>4. \A t \in published' : t \in published \/ t.batch = b
        BY <2>2, <2>4
      <3> QED BY <1>1, <1>6, <2>4, <3>1, <3>2, <3>3, <3>4, AdvanceOut DEF Early, Late
    <2> QED BY <2>1, <2>3, <2>4 DEF Broadcast
  <1>7. CASE mem[b].state = "Confirmed"
    <2>1. Confirm(b)
      BY <1>7 DEF stateStep
    <2>2. CASE Fails(b, "universe") /\ UNCHANGED <<disk, mem, world, fundings>>
      <3>1. disk[b].tx.batch = b
        BY <1>1, <1>7 DEF GenesisInv, TxInMemory
      <3> QED BY <1>1, <1>7, <2>2, <3>1, FailsOut
    <2> QED BY <1>1, <1>7, <2>1, <2>2, ProceedOut DEF Confirm
  <1>8. CASE mem[b].state = "Finalized"
    <2>1. Finalize(b)
      BY <1>8 DEF stateStep
    <2> QED BY <1>1, <1>8, <2>1, ProceedOut DEF Finalize
  <1> QED BY <1>2, <1>3, <1>4, <1>5, <1>6, <1>7, <1>8 DEF Early, Late

\* The caretaker takes up a confirmation.
LEMMA WaitConfirmedOut ==
  ASSUME MintInv, OffChainInv, NEW b \in Batches, WaitConfirmed(b) PROVE OffChainInv'
  <1>1. Typed /\ CaretakerInv(b) /\ (b \notin refrozen => OutInv(b))
    BY TypeParts DEF MintInv, OffChainInv
  <1>2. /\ care[b].pc = "wait"
        /\ UNCHANGED <<disk, caretakers, pendingBatch, gardener, published, refrozen>>
        /\ mem[b].state = "Broadcast"
    BY <1>1 DEF WaitConfirmed, CaretakerInv, world, history
  <1>3. /\ care'[b].broadcast = care[b].broadcast /\ care'[b].cancelResp = care[b].cancelResp
        /\ mem'[b].state = "Confirmed"
        /\ \A c \in Batches \ {b} : mem'[c] = mem[c] /\ care'[c] = care[c]
    BY <1>1 DEF WaitConfirmed, Typed, Caretakers, BatchRows
  <1> QED BY <1>1, <1>2, <1>3, AdvanceOut DEF OutInv, Early

\* A step of a caretaker.
LEMMA CaretakerOut ==
  ASSUME MintInv, OffChainInv, NEW b \in Batches, CaretakerNext(b)
  PROVE  OffChainInv'
  <1>1. CASE /\ CheckCancel(b) \/ WaitCancel(b)
             /\ care[b].cancelReq /\ CancelState(mem[b].state) # "None"
    BY <1>1, CancelOut DEF CheckCancel, WaitCancel
  <1>2. CASE /\ CheckCancel(b) \/ WaitCancel(b)
             /\ ~(care[b].cancelReq /\ CancelState(mem[b].state) # "None")
    BY <1>2, ChannelOut DEF WaitCancel
  <1> QED BY <1>1, <1>2, stateStepOut, WaitConfirmedOut DEF CaretakerNext

\* A restart reads back a batch no earlier than its rows.
LEMMA RestartOut == ASSUME MintInv, OffChainInv, Restart PROVE OffChainInv'
  <1>1. /\ UNCHANGED <<disk, published, refrozen>> /\ pendingBatch' = None
        /\ caretakers' = {b \in Batches : Unfinished(b)}
    BY DEF Restart, world, history
  <1>2. ASSUME NEW b \in Batches \ refrozen PROVE OutInv(b)'
    <2>1. ~Resting(b)' /\ OutInv(b) /\ disk[b] \in BatchRows
      BY <1>1, MintingAssumption, TypeParts DEF Resting, OffChainInv, MintInv, Typed
    <2>2. CASE Unfinished(b)
      <3>1. mem'[b] = Loaded(disk[b]) /\ care'[b] = NewBatchCaretaker
        BY <2>2 DEF Restart
      <3>2. care'[b].cancelResp = "none"
        BY <3>1 DEF NewBatchCaretaker, NoCaretaker
      <3> QED BY <1>1, <2>1, <2>2, <3>1, <3>2, LoadedRows, ConstantRecords DEF OutInv, Early, Late
    <2>3. CASE ~Unfinished(b)
      <3>1. mem'[b] = NoBatch /\ care'[b] = NoCaretaker
        BY <2>3 DEF Restart
      <3>2. care'[b].cancelResp = "none"
        BY <3>1 DEF NoCaretaker
      <3> QED BY <1>1, <2>1, <3>1, <3>2, ConstantRecords DEF OutInv, Early, Stopped
    <2> QED BY <2>2, <2>3
  <1> QED BY <1>1, <1>2 DEF OffChainInv

\* Every step keeps the second layer.
LEMMA OffChainStep == MintInv /\ OffChainInv /\ [Next]_vars => OffChainInv'
  <1> SUFFICES ASSUME MintInv, OffChainInv, [Next]_vars PROVE OffChainInv'
    OBVIOUS
  <1>1. CASE UNCHANGED vars \/ \E t \in published : Mine(t)
    <2>1. UNCHANGED <<disk, mem, care, caretakers, pendingBatch, gardener, published, refrozen>>
      BY <1>1 DEF vars, world, history, Mine
    <2> QED BY <2>1, OutSame DEF OffChainInv, Resting
  <1>2. CASE Next /\ ~\E t \in published : Mine(t)
    BY <1>2, SeedlingOut, FinalizeOut, AnswerOut, CancelBatchOut, ChannelOut, CaretakerOut, RestartOut
    DEF Next, ConfNext, Interrupted, Halted
  <1> QED BY <1>1, <1>2

\* The second layer is an invariant.
LEMMA OffChainInvariant == Spec => [](MintInv /\ OffChainInv)
  BY InitMint, MintStep, InitOffChain, OffChainStep, PTL DEF Spec

\* Whatever fails, and with any number of restarts, one transaction of a batch at
\* most is published, unless the batch was finalized again after its
\* transaction was signed.
THEOREM BatchesMintOnce == Spec => []OneGenesisTx
  <1>1. MintInv /\ OffChainInv => OneGenesisTx
    <2> SUFFICES ASSUME MintInv, OffChainInv, NEW t \in published, NEW u \in published,
                        t.batch = u.batch, t.batch \notin refrozen
                 PROVE  t = u
      BY DEF OneGenesisTx
    <2>1. t.batch \in Batches
      BY TypeParts DEF MintInv, Typed, Scalars, Txs
    <2>2. disk[t.batch].tx = t /\ disk[t.batch].tx = u
      BY <2>1 DEF OffChainInv, OutInv
    <2> QED BY <2>2
  <1> QED BY <1>1, OffChainInvariant, PTL

\* A batch the store marks cancelled has nothing on the network, with the same
\* exception, and its caretaker has stopped.
THEOREM CancelledBatchesStayOffChain == Spec => []CancelledStaysOffChain
  <1>1. MintInv /\ OffChainInv => CancelledStaysOffChain
    BY DEF MintInv, CaretakerInv, OffChainInv, OutInv, CancelledStaysOffChain, Cancelled, Late, Stopped
  <1> QED BY <1>1, OffChainInvariant, PTL
==============================================================================
