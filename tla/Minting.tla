------------------------------- MODULE Minting -------------------------------
(***************************************************************************)
(* The minting of Taproot assets (taproot-assets/tapgarden): the gardener  *)
(* goroutine of the ChainPlanter, one BatchCaretaker goroutine per batch,  *)
(* the goroutine each caretaker leaves behind to wait for a confirmation,  *)
(* the minting store (tapdb/asset_minting.go), and the wallet and the      *)
(* chain they call.  The goroutines meet on the channels of                *)
(* BatchCaretakerConfig and on the MintingBatch they share by pointer.     *)
(* The process may stop at any point and start again from the store.       *)
(*                                                                         *)
(* A genesis transaction is the set of names it commits to, the index of   *)
(* the output that holds the commitment, and the coins that fund it.       *)
(* Database calls succeed; calls to the wallet, the chain and the universe *)
(* named in Failures may fail, MaxFailures times in all.                   *)
(***************************************************************************)
EXTENDS Naturals, FiniteSets

CONSTANTS
    Batches,        \* batch keys the key ring can derive
    Names,          \* asset names of the seedlings
    None,           \* a nil pointer
    AnchorIndexes,  \* where FundPsbt may leave the output: 0, or 1 after the change
    Failures,       \* the external calls that may fail
    MaxFailures,    \* how many calls fail
    MaxCrashes,     \* how often the process is interrupted
    MaxFundings,    \* how many transactions the wallet funds
    MaxCancels      \* how many cancellations are requested

ASSUME MintingAssumption ==
    /\ None \notin Batches
    /\ AnchorIndexes \subseteq {0, 1}
    /\ Failures \subseteq {"fund", "sign", "import", "publish", "register", "universe"}
    /\ {MaxFailures, MaxCrashes, MaxFundings, MaxCancels} \subseteq Nat

VARIABLES
    disk,          \* the rows of a batch in the minting store
    mem,           \* the MintingBatch planter and caretaker share
    care,          \* the caretaker of a batch and its channels
    caretakers,    \* the keys of the planter's caretakers map
    pendingBatch,
    gardener,      \* where the gardener is, and for which batch
    published,     \* genesis transactions handed to the network
    mined,
    halting,       \* a subsystem reported an error, the daemon goes down
    disturbed,     \* history: batches a call failed for or a cancel was sent to
    refrozen,      \* history: batches finalized again after their transaction was
                   \* signed and stored
    failures, crashes, fundings, cancels

world    == <<published, mined>>
history  == <<disturbed, refrozen>>
counters == <<failures, crashes, fundings, cancels>>
vars == <<disk, mem, care, caretakers, pendingBatch, gardener, world, halting,
          history, counters>>

States == {"None", "Pending", "Frozen", "Committed", "Broadcast", "Confirmed",
           "Finalized", "SeedlingCancelled", "SproutCancelled"}
Cancelled == {"SeedlingCancelled", "SproutCancelled"}

Txs == [batch : Batches, names : SUBSET Names, index : AnchorIndexes,
        coins : 1 .. MaxFundings]

NoBatch == [state |-> "None", seedlings |-> {}, tx |-> None]
NoCaretaker == [pc |-> "none", anchorOutputIndex |-> 0, conf |-> "none",
                confEvent |-> FALSE, cancelReq |-> FALSE, cancelResp |-> "none",
                broadcast |-> "none"]
NewBatchCaretaker == [NoCaretaker EXCEPT !.pc = "check"]
Idle == [at |-> "idle", batch |-> None]

TypeOK ==
    /\ disk \in [Batches -> [state : States, seedlings : SUBSET Names,
                             tx : Txs \cup {None}]]
    /\ mem \in [Batches -> [state : States, seedlings : SUBSET Names,
                            tx : Txs \cup {None}]]
    /\ care \in [Batches ->
                    [pc : {"none", "check", "run", "wait", "signal", "gone"},
                     anchorOutputIndex : {0, 1}, conf : {"none", "watch", "gone"},
                     confEvent : BOOLEAN, cancelReq : BOOLEAN,
                     cancelResp : {"none", "refused", "cancelled"},
                     broadcast : {"none", "complete", "error"}]]
    /\ caretakers \subseteq Batches
    /\ pendingBatch \in Batches \cup {None}
    /\ gardener \in [at : {"idle", "finalizing", "cancelling"},
                     batch : Batches \cup {None}]
    /\ published \subseteq Txs /\ mined \subseteq published
    /\ halting \in BOOLEAN /\ disturbed \subseteq Batches /\ refrozen \subseteq Batches

Init ==
    /\ disk = [b \in Batches |-> NoBatch] /\ mem = [b \in Batches |-> NoBatch]
    /\ care = [b \in Batches |-> NoCaretaker] /\ caretakers = {}
    /\ pendingBatch = None /\ gardener = Idle
    /\ published = {} /\ mined = {}
    /\ halting = FALSE /\ disturbed = {} /\ refrozen = {}
    /\ failures = 0 /\ crashes = 0 /\ fundings = 0 /\ cancels = 0

-----------------------------------------------------------------------------
(* The minting store: the rows of batch b after a call.  Each call is one  *)
(* database transaction.                                                   *)

UpdateBatchState(b, s) == [disk EXCEPT ![b].state = s]
CommitMintingBatch(b, batch) == [disk EXCEPT ![b] = batch]
AddSeedlingsToBatch(b, n) == [disk EXCEPT ![b].seedlings = @ \cup {n}]
AddSproutsToBatch(b, tx) == [disk EXCEPT ![b].state = "Committed", ![b].tx = tx]
CommitSignedGenesisTx(b) == [disk EXCEPT ![b].state = "Broadcast"]
MarkBatchConfirmed(b) == [disk EXCEPT ![b].state = "Confirmed"]

-----------------------------------------------------------------------------
(* The gardener.                                                           *)

addSeedling(b, n) ==
    /\ mem' = [mem EXCEPT ![b].seedlings = @ \cup {n}]
    /\ disk' = AddSeedlingsToBatch(b, n)
    /\ UNCHANGED pendingBatch

newMintingBatch(b, n) ==
    LET batch == [NoBatch EXCEPT !.state = "Pending", !.seedlings = {n}] IN
    /\ disk[b].state = "None"
    /\ mem' = [mem EXCEPT ![b] = batch]
    /\ disk' = CommitMintingBatch(b, batch)
    /\ pendingBatch' = b

\* A seedling joins the pending batch, or founds one.  A name the batch
\* already has is refused.
prepAssetSeedling(n) ==
    /\ gardener = Idle
    /\ \/ /\ pendingBatch # None
          /\ n \notin mem[pendingBatch].seedlings
          /\ addSeedling(pendingBatch, n)
       \/ /\ pendingBatch = None
          /\ \E b \in Batches : newMintingBatch(b, n)
    /\ UNCHANGED <<care, caretakers, gardener, world, halting, history, counters>>

\* The batch is frozen on disk, whatever state the disk has, and a new
\* caretaker takes its entry in the map.  The batch in memory keeps its state.
finalizeBatch(b) ==
    /\ disk' = UpdateBatchState(b, "Frozen")
    /\ care' = [care EXCEPT ![b] = NewBatchCaretaker]
    /\ caretakers' = caretakers \cup {b}
    /\ refrozen' = IF mem[b].state = "Broadcast" THEN refrozen \cup {b} ELSE refrozen

Tick ==
    /\ gardener = Idle /\ pendingBatch # None
    /\ finalizeBatch(pendingBatch)
    /\ pendingBatch' = None
    /\ UNCHANGED <<mem, gardener, world, halting, disturbed, counters>>

FinalizeBatch ==
    /\ gardener = Idle /\ pendingBatch # None
    /\ finalizeBatch(pendingBatch)
    /\ gardener' = [at |-> "finalizing", batch |-> pendingBatch]
    /\ UNCHANGED <<mem, pendingBatch, world, halting, disturbed, counters>>

\* The caretaker broadcast, and the pending batch is let go; or it failed, and
\* the pending batch stays.
FinalizeAnswered ==
    /\ gardener.at = "finalizing"
    /\ \/ /\ care[gardener.batch].broadcast = "complete"
          /\ pendingBatch' = None
       \/ /\ care[gardener.batch].broadcast = "error"
          /\ UNCHANGED pendingBatch
    /\ care' = [care EXCEPT ![gardener.batch].broadcast = "none"]
    /\ gardener' = Idle
    /\ UNCHANGED <<disk, mem, caretakers, world, halting, history, counters>>

\* canCancelBatch: the pending batch when no caretaker is active, or the batch
\* of the only caretaker when no batch is pending.
Cancellable(b) ==
    \/ caretakers = {} /\ b = pendingBatch
    \/ caretakers = {b} /\ pendingBatch = None

CancelBatch(b) ==
    /\ gardener = Idle /\ cancels < MaxCancels /\ Cancellable(b)
    /\ \/ /\ b \in caretakers
          /\ ~care[b].cancelReq
          /\ care' = [care EXCEPT ![b].cancelReq = TRUE]
          /\ gardener' = [at |-> "cancelling", batch |-> b]
          /\ UNCHANGED disk
       \/ /\ b \notin caretakers
          /\ disk' = UpdateBatchState(b, "SeedlingCancelled")
          /\ UNCHANGED <<care, gardener>>
    /\ pendingBatch' = None
    /\ disturbed' = disturbed \cup {b}
    /\ cancels' = cancels + 1
    /\ UNCHANGED <<mem, caretakers, world, halting, refrozen, failures, crashes, fundings>>

CancelAnswered ==
    LET b == gardener.batch IN
    /\ gardener.at = "cancelling"
    /\ care[b].cancelResp # "none"
    /\ caretakers' = IF care[b].cancelResp = "cancelled" THEN caretakers \ {b}
                     ELSE caretakers
    /\ care' = [care EXCEPT ![b].cancelResp = "none"]
    /\ gardener' = Idle
    /\ UNCHANGED <<disk, mem, pendingBatch, world, halting, history, counters>>

\* A caretaker blocked on completionSignals is heard, stopped and forgotten.
Completed(b) ==
    /\ gardener = Idle /\ care[b].pc = "signal"
    /\ care' = [care EXCEPT ![b].pc = "gone", ![b].conf = "gone"]
    /\ caretakers' = caretakers \ {b}
    /\ UNCHANGED <<disk, mem, pendingBatch, gardener, world, halting, history, counters>>

-----------------------------------------------------------------------------
(* The caretaker.                                                          *)

\* Mutant of CancelState: a signed batch is cancelled like a committed one.
CancelStateSigned(s) ==
    CASE s \in {"Pending", "Frozen"} -> "SeedlingCancelled"
      [] s \in {"Committed", "Broadcast"} -> "SproutCancelled"
      [] OTHER -> "None"

\* The state a cancelled batch ends in, from the state the batch has in
\* memory; a batch that reached Broadcast is not cancelled.
CancelState(s) ==
    CASE s \in {"Pending", "Frozen"} -> "SeedlingCancelled"
      [] s = "Committed" -> "SproutCancelled"
      [] OTHER -> "None"

\* Cancel and the answer on CancelRespChan.
Cancel(b) ==
    LET final == CancelState(mem[b].state) IN
    IF final = "None"
    THEN /\ care' = [care EXCEPT ![b].cancelReq = FALSE, ![b].cancelResp = "refused",
                                 ![b].pc = IF @ = "check" THEN "run" ELSE @]
         /\ UNCHANGED disk
    ELSE /\ care' = [care EXCEPT ![b].cancelReq = FALSE, ![b].cancelResp = "cancelled",
                                 ![b].pc = "gone", ![b].broadcast = "error"]
         /\ disk' = UpdateBatchState(b, final)

\* Before every step the caretaker answers a cancellation that is there.
CheckCancel(b) ==
    /\ care[b].pc = "check"
    /\ IF care[b].cancelReq
       THEN Cancel(b)
       ELSE care' = [care EXCEPT ![b].pc = "run"] /\ UNCHANGED disk
    /\ UNCHANGED <<mem, caretakers, pendingBatch, gardener, world, halting, history, counters>>

\* An error ends the goroutine.  It is reported to the gardener only on the
\* way to the broadcast.
Fails(b, call) ==
    /\ call \in Failures /\ failures < MaxFailures
    /\ failures' = failures + 1
    /\ disturbed' = disturbed \cup {b}
    /\ care' = [care EXCEPT ![b].pc = "gone",
                            ![b].broadcast = IF mem[b].state = "Confirmed" THEN @ ELSE "error"]

Succeeds == UNCHANGED <<failures, disturbed>>

Proceed(b, s) ==
    /\ mem' = [mem EXCEPT ![b].state = s]
    /\ care' = [care EXCEPT ![b].pc = "check"]

Freeze(b) ==
    /\ disk' = UpdateBatchState(b, "Frozen")
    /\ Proceed(b, "Frozen")
    /\ Succeeds /\ UNCHANGED <<world, fundings>>

\* The wallet puts the output it was asked for first or after the change.
fundGenesisPsbt == [index : AnchorIndexes, coins : {fundings + 1}]

\* The seedlings in memory become the assets the transaction commits to.
seedlingsToAssetSprouts(b, funded) ==
    [batch |-> b, names |-> mem[b].seedlings, index |-> funded.index, coins |-> funded.coins]

Commit(b) ==
    \/ /\ fundings < MaxFundings
       /\ \E funded \in fundGenesisPsbt :
             LET tx == seedlingsToAssetSprouts(b, funded) IN
             /\ disk' = AddSproutsToBatch(b, tx)
             /\ mem' = [mem EXCEPT ![b].state = "Committed", ![b].tx = tx]
             /\ care' = [care EXCEPT ![b].pc = "check", ![b].anchorOutputIndex = funded.index]
       /\ fundings' = fundings + 1
       /\ Succeeds /\ UNCHANGED world
    \/ /\ Fails(b, "fund")
       /\ UNCHANGED <<disk, mem, world, fundings>>

\* Mutant of Sign: the state of the batch is not updated with the transaction.
SignStateUnsaved(b) ==
    /\ \/ Proceed(b, "Broadcast") /\ Succeeds
       \/ Fails(b, "import") /\ UNCHANGED mem
       \/ Fails(b, "sign") /\ UNCHANGED mem
    /\ UNCHANGED <<disk, world, fundings>>

\* The signed transaction is on disk before its key is imported.
Sign(b) ==
    /\ \/ /\ disk' = CommitSignedGenesisTx(b)
          /\ \/ Proceed(b, "Broadcast") /\ Succeeds
             \/ Fails(b, "import") /\ UNCHANGED mem
       \/ /\ Fails(b, "sign")
          /\ UNCHANGED <<disk, mem>>
    /\ UNCHANGED <<world, fundings>>

\* The transaction is published before its confirmation is asked for.
Broadcast(b) ==
    /\ \/ /\ published' = published \cup {mem[b].tx}
          /\ \/ /\ care' = [care EXCEPT ![b].pc = "wait", ![b].conf = "watch",
                                        ![b].broadcast = "complete"]
                /\ Succeeds
             \/ Fails(b, "register")
       \/ /\ Fails(b, "publish")
          /\ UNCHANGED published
    /\ UNCHANGED <<disk, mem, mined, fundings>>

\* The proofs are built from the caretaker's output index and verified: with
\* another index than the transaction's the step fails, whenever it is tried.
ProofsVerify(b) == care[b].anchorOutputIndex = mem[b].tx.index

Confirm(b) ==
    /\ \/ /\ ProofsVerify(b)
          /\ disk' = MarkBatchConfirmed(b)
          /\ Proceed(b, "Finalized") /\ Succeeds
       \/ /\ ProofsVerify(b)
          /\ Fails(b, "universe")
          /\ UNCHANGED <<disk, mem>>
       \/ /\ ~ProofsVerify(b)
          /\ care' = [care EXCEPT ![b].pc = "gone"]
          /\ Succeeds /\ UNCHANGED <<disk, mem>>
    /\ UNCHANGED <<world, fundings>>

Finalize(b) ==
    /\ disk' = UpdateBatchState(b, "Finalized")
    /\ care' = [care EXCEPT ![b].pc = "signal"]
    /\ Succeeds /\ UNCHANGED <<mem, world, fundings>>

stateStep(b) ==
    /\ care[b].pc = "run"
    /\ CASE mem[b].state = "Pending"   -> Freeze(b)
         [] mem[b].state = "Frozen"    -> Commit(b)
         [] mem[b].state = "Committed" -> Sign(b)
         [] mem[b].state = "Broadcast" -> Broadcast(b)
         [] mem[b].state = "Confirmed" -> Confirm(b)
         [] mem[b].state = "Finalized" -> Finalize(b)
    /\ UNCHANGED <<caretakers, pendingBatch, gardener, halting, refrozen, crashes, cancels>>

\* The caretaker that waits for its confirmation refuses a cancellation ...
WaitCancel(b) ==
    /\ care[b].pc = "wait" /\ care[b].cancelReq
    /\ Cancel(b)
    /\ UNCHANGED <<mem, caretakers, pendingBatch, gardener, world, halting, history, counters>>

\* ... and takes up the event.
WaitConfirmed(b) ==
    /\ care[b].pc = "wait" /\ care[b].confEvent
    /\ care' = [care EXCEPT ![b].confEvent = FALSE, ![b].pc = "check"]
    /\ mem' = [mem EXCEPT ![b].state = "Confirmed"]
    /\ UNCHANGED <<disk, caretakers, pendingBatch, gardener, world, halting, history, counters>>

-----------------------------------------------------------------------------
(* The goroutine that waits for the confirmation.  It listens for          *)
(* cancellations too: the one it answers before the confirmation leaves it *)
(* without an event, which it reports to the daemon; the one it answers    *)
(* instead of delivering the event drops the event.                        *)

ConfEvent(b) ==
    /\ care[b].conf = "watch" /\ mem[b].tx \in mined
    /\ care' = [care EXCEPT ![b].conf = "gone", ![b].confEvent = TRUE]
    /\ UNCHANGED <<disk, mem, caretakers, pendingBatch, gardener, world, halting,
                   history, counters>>

ConfCancel(b) ==
    /\ care[b].conf = "watch" /\ care[b].cancelReq
    /\ care' = [care EXCEPT ![b].cancelReq = FALSE, ![b].cancelResp = "refused",
                            ![b].conf = "gone"]
    /\ \/ halting' = TRUE
       \/ mem[b].tx \in mined /\ UNCHANGED halting
    /\ UNCHANGED <<disk, mem, caretakers, pendingBatch, gardener, world, history, counters>>

-----------------------------------------------------------------------------
(* The chain and the process.                                              *)

Mine(t) ==
    /\ t \in published \ mined
    /\ mined' = mined \cup {t}
    /\ UNCHANGED <<disk, mem, care, caretakers, pendingBatch, gardener, published,
                   halting, history, counters>>

\* Mutant of Loaded: a batch that was broadcast is taken up as confirmed.
LoadedAsConfirmed(d) ==
    [d EXCEPT !.seedlings = IF d.state \in {"Pending", "Frozen", "SeedlingCancelled"}
                            THEN @ ELSE {},
              !.state = CASE @ = "Confirmed" -> "Finalized"
                          [] @ = "Broadcast" -> "Confirmed"
                          [] OTHER -> @]

\* What marshalMintingBatch reads back: the seedlings up to Frozen, the sprouts
\* after it.  A caretaker of a Confirmed batch has only Finalized to do.
Loaded(d) ==
    [d EXCEPT !.seedlings = IF d.state \in {"Pending", "Frozen", "SeedlingCancelled"}
                            THEN @ ELSE {},
              !.state = IF @ = "Confirmed" THEN "Finalized" ELSE @]

\* Mutant of Unfinished: a confirmed batch counts as final.
UnfinishedConfirmed(b) == disk[b].state \notin {"None", "Confirmed", "Finalized"} \cup Cancelled

Unfinished(b) == disk[b].state \notin {"None", "Finalized"} \cup Cancelled

\* Everything in memory is lost; Start launches a caretaker, with a fresh
\* anchorOutputIndex, for every batch that is neither final nor cancelled.
Restart ==
    /\ mem' = [b \in Batches |-> IF Unfinished(b) THEN Loaded(disk[b]) ELSE NoBatch]
    /\ care' = [b \in Batches |-> IF Unfinished(b) THEN NewBatchCaretaker ELSE NoCaretaker]
    /\ caretakers' = {b \in Batches : Unfinished(b)}
    /\ pendingBatch' = None /\ gardener' = Idle /\ halting' = FALSE
    /\ UNCHANGED <<disk, world, history, failures, fundings, cancels>>

Interrupted == ~halting /\ crashes < MaxCrashes /\ crashes' = crashes + 1 /\ Restart
Halted      == halting /\ UNCHANGED crashes /\ Restart

CaretakerNext(b) ==
    \/ CheckCancel(b)
    \/ stateStep(b)
    \/ WaitCancel(b)
    \/ WaitConfirmed(b)

ConfNext(b) == ConfEvent(b) \/ ConfCancel(b)

Next ==
    \/ \E n \in Names : prepAssetSeedling(n)
    \/ Tick
    \/ FinalizeBatch
    \/ FinalizeAnswered
    \/ \E b \in Batches : CancelBatch(b) \/ Completed(b)
    \/ CancelAnswered
    \/ \E b \in Batches : CaretakerNext(b) \/ ConfNext(b)
    \/ \E t \in published : Mine(t)
    \/ Interrupted
    \/ Halted

\* Goroutines that can run do, and the network mines what was published.  Nobody
\* has to send a request or interrupt the process, and the batch ticker need
\* not tick: it is a ticker.Force that nothing resumes.
Spec ==
    /\ Init /\ [][Next]_vars
    /\ WF_vars(FinalizeAnswered) /\ WF_vars(CancelAnswered)
    /\ \A b \in Batches : /\ WF_vars(CaretakerNext(b))
                          /\ WF_vars(ConfNext(b))
                          /\ WF_vars(Completed(b))
    /\ WF_vars(\E t \in published : Mine(t))
    /\ WF_vars(Halted)

-----------------------------------------------------------------------------
(* Properties.                                                             *)

\* Whatever fails, and however often a batch is finalized again or resumed after
\* a restart, at most one of the transactions funded for it (stateStep, Frozen) is
\* ever published: an asset is not minted twice.  The exception is a batch whose
\* publishing or registration failed and which was then finalized again: its
\* rows go back to Frozen (finalizeBatch), although its transaction may be out.
OneGenesisTx ==
    \A t, u \in published : t.batch = u.batch => t = u \/ t.batch \in refrozen

\* A batch reported as cancelled (Cancel, cancelMintingBatch) has no genesis
\* transaction on the network, with the same exception, and none that its
\* caretaker will still publish.
CancelledStaysOffChain ==
    \A b \in Batches : disk[b].state \in Cancelled =>
        /\ (\A t \in published : t.batch # b) \/ b \in refrozen
        /\ care[b].pc \in {"none", "gone"}

\* A batch marked Confirmed or Finalized in the store (MarkBatchConfirmed) is
\* one whose recorded transaction is mined and, unless a call failed for it,
\* commits to every seedling that was accepted into the batch.
ConfirmedIsMinted ==
    \A b \in Batches : disk[b].state \in {"Confirmed", "Finalized"} =>
        /\ disk[b].tx \in mined
        /\ disk[b].tx.names = disk[b].seedlings \/ b \in disturbed

\* The caretaker has another output index than the transaction: it was 1 and
\* a restart has set it back (BatchCaretaker.anchorOutputIndex is not stored).
AnchorLost(b) ==
    mem[b].state \in {"Committed", "Broadcast", "Confirmed"} /\ ~ProofsVerify(b)

\* A batch that was frozen, or that a restart found unfinished, is minted: it
\* reaches Finalized over restarts, unless it was asked to be cancelled, a
\* call its caretaker made failed, or a restart lost its output index.
FrozenIsMinted ==
    \A b \in Batches :
        disk[b].state = "Frozen" \/ b \in caretakers
            ~> disk[b].state = "Finalized" \/ b \in disturbed \/ AnchorLost(b)
=============================================================================
