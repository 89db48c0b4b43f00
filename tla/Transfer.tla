------------------------------- MODULE Transfer -------------------------------
(***************************************************************************)
(* The sending of Taproot assets (taproot-assets/tapfreighter): coin       *)
(* selection with leases, the state machine of the ChainPorter that each   *)
(* parcel runs in a goroutine of its own, the goroutine that delivers the  *)
(* proofs to the receiver, and the tables of the asset store these steps   *)
(* write (tapdb/assets_store.go).  The process may stop at any point; it   *)
(* resumes the parcels the store has as unconfirmed.                       *)
(*                                                                         *)
(* An asset is one coin, held in the UTXO that anchors it, where other     *)
(* assets may be anchored too.  A parcel sends a part of its asset: the    *)
(* anchor transaction spends the UTXO and creates one, named after the     *)
(* parcel, for the change of the asset and for the other assets of the     *)
(* UTXO, the passive ones.  Leases that were prolonged at the commitment   *)
(* of a parcel (a year) do not expire.                                     *)
(***************************************************************************)
EXTENDS Naturals, FiniteSets

CONSTANTS
    Assets, Parcels,
    Homes,          \* the UTXOs of the assets at the start
    None,
    Failures,       \* the external calls that may fail
    MaxFailures,    \* how many calls fail
    MaxCrashes,     \* how often the process is interrupted
    LeaseOutlives   \* whether ten minutes suffice from selection to commitment

ASSUME TransferAssumption ==
    /\ None \notin Assets \cup Parcels \cup Homes
    /\ Parcels \cap Homes = {}
    /\ Failures \subseteq {"sign", "anchor", "publish", "register", "store", "deliver"}
    /\ MaxFailures \in Nat /\ MaxCrashes \in Nat
    /\ LeaseOutlives \in BOOLEAN

Utxos == Homes \cup Parcels

VARIABLES
    anchor,     \* store: the UTXO that anchors an asset
    lease,      \* store: the lease of a UTXO
    transfers,  \* store: the logged transfer of a parcel
    proofs,     \* archive: the assets that have a proof file ending at a UTXO
    pkg,        \* memory: the sendPackage of a parcel
    broadcast, mined,   \* the anchor transactions on the network
    held,       \* the chain: the UTXO an asset really is in
    delivered,  \* parcels whose receiver has its proof
    disturbed,  \* history: parcels a call failed for
    failures, crashes

store == <<anchor, lease, transfers>>
chain == <<broadcast, mined, held>>
vars  == <<store, proofs, pkg, chain, delivered, disturbed, failures, crashes>>

BeforeLog == {"Select", "VirtualSign", "AnchorSign", "LogCommit"}
SendStates == BeforeLog \cup {"none", "Broadcast", "WaitTxConf", "StoreProofs",
                              "Deliver", "Confirm", "Complete", "failed"}

NoPackage  == [state |-> "none", asset |-> None, utxo |-> None, passive |-> {}]
NoTransfer == [state |-> "none", asset |-> None, utxo |-> None, passive |-> {}]

Pending == {p \in Parcels : transfers[p].state = "pending"}
Logged  == {p \in Parcels : transfers[p].state # "none"}

TypeOK ==
    /\ anchor \in [Assets -> Utxos] /\ held \in [Assets -> Utxos]
    /\ lease \in [Utxos -> {"none", "short", "long"}]
    /\ transfers \in [Parcels -> [state : {"none", "pending", "confirmed"},
                                  asset : Assets \cup {None}, utxo : Utxos \cup {None},
                                  passive : SUBSET Assets]]
    /\ pkg \in [Parcels -> [state : SendStates, asset : Assets \cup {None},
                            utxo : Utxos \cup {None}, passive : SUBSET Assets]]
    /\ proofs \subseteq Assets \X Utxos
    /\ mined \subseteq broadcast /\ broadcast \subseteq Parcels
    /\ delivered \subseteq Parcels /\ disturbed \subseteq Parcels

Init ==
    /\ anchor \in [Assets -> Homes] /\ held = anchor
    /\ lease = [u \in Utxos |-> "none"]
    /\ transfers = [p \in Parcels |-> NoTransfer]
    /\ proofs = {<<a, anchor[a]>> : a \in Assets}
    /\ pkg = [p \in Parcels |-> NoPackage]
    /\ broadcast = {} /\ mined = {}
    /\ delivered = {} /\ disturbed = {}
    /\ failures = 0 /\ crashes = 0

-----------------------------------------------------------------------------
(* The state machine of a parcel.                                          *)

Moves(p, s) == pkg' = [pkg EXCEPT ![p].state = s]

\* A step that returns an error ends the goroutine of the parcel.
Ends(p) == Moves(p, "failed")

Fails(p, call) ==
    /\ call \in Failures /\ failures < MaxFailures
    /\ failures' = failures + 1
    /\ disturbed' = disturbed \cup {p}
    /\ Ends(p)

Succeeds == UNCHANGED <<failures, disturbed>>

RequestShipment(p, a) ==
    /\ pkg[p] = NoPackage /\ p \notin Logged
    /\ pkg' = [pkg EXCEPT ![p] = [NoPackage EXCEPT !.state = "Select", !.asset = a]]
    /\ UNCHANGED <<store, proofs, chain, delivered, disturbed, failures, crashes>>

\* Mutant: coin selection does not look at leases.
EligibleLeased(a) == TRUE

\* ListEligibleCoins: a lease on the UTXO withholds every asset in it.
Eligible(a) == lease[anchor[a]] = "none"

\* A lease of ten minutes.
LeaseCoins(u) == [lease EXCEPT ![u] = "short"]

\* The assets that share the UTXO with the one that is sent.
PassiveAssets(a, u) == {b \in Assets \ {a} : anchor[b] = u}

\* Coin selection, under coinLock: the coin is leased, and its commitment, with
\* the assets that will be passive, is read.
SelectCoins(p) ==
    LET a == pkg[p].asset
        u == anchor[a]
    IN  IF Eligible(a)
        THEN /\ lease' = LeaseCoins(u)
             /\ pkg' = [pkg EXCEPT ![p] = [state |-> "VirtualSign", asset |-> a, utxo |-> u,
                                           passive |-> PassiveAssets(a, u)]]
        ELSE Ends(p) /\ UNCHANGED lease

Select(p) ==
    /\ pkg[p].state = "Select"
    /\ SelectCoins(p)
    /\ Succeeds
    /\ UNCHANGED <<anchor, transfers, proofs, chain, delivered>>

VirtualSign(p) ==
    /\ pkg[p].state = "VirtualSign"
    /\ \/ Moves(p, "AnchorSign") /\ Succeeds
       \/ Fails(p, "sign")
    /\ UNCHANGED <<store, proofs, chain, delivered>>

AnchorSign(p) ==
    /\ pkg[p].state = "AnchorSign"
    /\ \/ Moves(p, "LogCommit") /\ Succeeds
       \/ Fails(p, "anchor")
    /\ UNCHANGED <<store, proofs, chain, delivered>>

\* The OutboundParcel of a package.
prepareForStorage(p) == [pkg[p] EXCEPT !.state = "pending"]

\* Mutant: the lease of the selection is not prolonged.
LogWithoutLease(p) ==
    /\ transfers' = [transfers EXCEPT ![p] = prepareForStorage(p)]
    /\ UNCHANGED <<anchor, lease>>

\* One database transaction: the transfer, its passive assets, and the lease
\* that outlasts the confirmation.
LogPendingParcel(p) ==
    /\ transfers' = [transfers EXCEPT ![p] = prepareForStorage(p)]
    /\ lease' = [lease EXCEPT ![pkg[p].utxo] = "long"]
    /\ UNCHANGED anchor

LogCommit(p) ==
    /\ pkg[p].state = "LogCommit"
    /\ LogPendingParcel(p)
    /\ Moves(p, "Broadcast") /\ Succeeds
    /\ UNCHANGED <<proofs, chain, delivered>>

\* The network refuses a transaction that spends what another one spends.
Conflicts(p) ==
    \E q \in broadcast \ {p} : transfers[q].utxo = transfers[p].utxo

Broadcast(p) ==
    /\ pkg[p].state = "Broadcast"
    /\ \/ /\ ~Conflicts(p)
          /\ broadcast' = broadcast \cup {p}
          /\ Moves(p, "WaitTxConf") /\ Succeeds
       \/ /\ Conflicts(p)
          /\ Ends(p) /\ Succeeds /\ UNCHANGED broadcast
       \/ Fails(p, "publish") /\ UNCHANGED broadcast
    /\ UNCHANGED <<store, proofs, mined, held, delivered>>

WaitTxConf(p) ==
    /\ pkg[p].state = "WaitTxConf"
    /\ \/ p \in mined /\ Moves(p, "StoreProofs") /\ Succeeds
       \/ Fails(p, "register")
    /\ UNCHANGED <<store, proofs, chain, delivered>>

\* The proof files of the passive assets are extended in place.
updateAssetProofFile(p) ==
    (proofs \ {<<b, pkg[p].utxo>> : b \in pkg[p].passive})
        \cup {<<b, p>> : b \in pkg[p].passive}

fetchInputProof(p) == <<pkg[p].asset, pkg[p].utxo>>

\* The passive assets first; then the change gets a file of its own, the
\* input's with the new proof appended.
StoreProofs(p) ==
    /\ pkg[p].state = "StoreProofs"
    /\ \/ /\ fetchInputProof(p) \in proofs
          /\ proofs' = updateAssetProofFile(p) \cup {<<pkg[p].asset, p>>}
          /\ Moves(p, "Deliver") /\ Succeeds
       \/ Fails(p, "store") /\ proofs' \in {proofs, updateAssetProofFile(p)}
    /\ UNCHANGED <<store, chain, delivered>>

DeliverProof(p) ==
    /\ pkg[p].state = "Deliver"
    /\ \/ /\ delivered' = delivered \cup {p}
          /\ Moves(p, "Confirm") /\ Succeeds
       \/ Fails(p, "deliver") /\ UNCHANGED delivered
    /\ UNCHANGED <<store, proofs, chain>>

\* The proof files at hand are those of the passive assets of the package;
\* the store asks for one for each passive asset it has logged.
PassiveFilesFound(p) == transfers[p].passive \subseteq pkg[p].passive

\* The asset and the passive assets are moved to the new UTXO.
ReAnchored(p) ==
    [a \in Assets |-> IF a \in transfers[p].passive \cup {transfers[p].asset}
                      THEN p ELSE anchor[a]]

ConfirmParcelDelivery(p) ==
    /\ pkg[p].state = "Confirm"
    /\ \/ /\ PassiveFilesFound(p)
          /\ anchor' = ReAnchored(p)
          /\ transfers' = [transfers EXCEPT ![p].state = "confirmed"]
          /\ Moves(p, "Complete")
       \/ /\ ~PassiveFilesFound(p)
          /\ Ends(p)
          /\ UNCHANGED <<anchor, transfers>>
    /\ Succeeds
    /\ UNCHANGED <<lease, proofs, chain, delivered>>

advanceState(p) ==
    /\ \/ Select(p) \/ VirtualSign(p) \/ AnchorSign(p) \/ LogCommit(p)
       \/ Broadcast(p) \/ WaitTxConf(p) \/ StoreProofs(p)
       \/ DeliverProof(p) \/ ConfirmParcelDelivery(p)
    /\ UNCHANGED crashes

-----------------------------------------------------------------------------
(* Time, the chain and the process.                                        *)

ExpireLease(u) ==
    /\ lease[u] = "short"
    /\ LeaseOutlives =>
          \A p \in Parcels : pkg[p].utxo = u => pkg[p].state \notin BeforeLog
    /\ lease' = [lease EXCEPT ![u] = "none"]
    /\ UNCHANGED <<anchor, transfers, proofs, pkg, chain, delivered, disturbed,
                   failures, crashes>>

\* A block confirms a transaction: the assets in the UTXO it spends move.
Mine(p) ==
    /\ p \in broadcast \ mined
    /\ mined' = mined \cup {p}
    /\ held' = [a \in Assets |-> IF held[a] = transfers[p].utxo THEN p ELSE held[a]]
    /\ UNCHANGED <<store, proofs, pkg, broadcast, delivered, disturbed, failures, crashes>>

\* Mutant: a logged transfer is taken to be broadcast.
ResumedAsBroadcast(p) ==
    [state |-> "WaitTxConf", asset |-> transfers[p].asset, utxo |-> transfers[p].utxo,
     passive |-> {}]

\* QueryParcels reads back the inputs and the outputs of a transfer.
Resumed(p) ==
    [state |-> "Broadcast", asset |-> transfers[p].asset, utxo |-> transfers[p].utxo,
     passive |-> {}]

Restart ==
    /\ crashes < MaxCrashes
    /\ crashes' = crashes + 1
    /\ pkg' = [p \in Parcels |-> IF p \in Pending THEN Resumed(p)
                                 ELSE IF pkg[p] = NoPackage THEN NoPackage
                                 ELSE [NoPackage EXCEPT !.state = "failed"]]
    /\ UNCHANGED <<store, proofs, chain, delivered, disturbed, failures>>

Next ==
    \/ \E p \in Parcels : (\E a \in Assets : RequestShipment(p, a)) \/ advanceState(p)
    \/ \E u \in Utxos : ExpireLease(u)
    \/ \E p \in Parcels : Mine(p)
    \/ Restart

\* The goroutines run, and the network mines what it accepted.
Spec ==
    /\ Init /\ [][Next]_vars
    /\ \A p \in Parcels : WF_vars(advanceState(p)) /\ WF_vars(Mine(p))

-----------------------------------------------------------------------------
(* Properties.                                                             *)

\* No two transfers in the store spend the same UTXO, though parcels select
\* coins concurrently, fail at any step, give up their leases by time and are
\* resumed: the lease taken by SelectCoins is kept or prolonged.
NoDoubleSpend ==
    \A p, q \in Logged : p # q => transfers[p].utxo # transfers[q].utxo

\* What coin selection may offer can be sent: the chain has the asset where
\* the store has it, in a UTXO nothing on the network spends, and the archive
\* has a proof file that ends there.
EligibleIsSpendable ==
    \A a \in Assets : Eligible(a) =>
        /\ held[a] = anchor[a]
        /\ \A p \in broadcast : transfers[p].utxo # anchor[a]
        /\ <<a, anchor[a]>> \in proofs

\* A transfer in the store is completed, over restarts, unless a call made
\* for it failed or it moves passive assets and the process was restarted.
LoggedIsConfirmed ==
    \A p \in Parcels :
        transfers[p].state = "pending" ~>
            \/ transfers[p].state = "confirmed"
            \/ p \in disturbed
            \/ transfers[p].passive # {} /\ crashes > 0

\* Once a transfer is logged, "after a restart, the transfer can be resumed":
\* it is completed unless a call made for it failed.
ResumedIsConfirmed ==
    \A p \in Parcels :
        transfers[p].state = "pending" ~>
            transfers[p].state = "confirmed" \/ p \in disturbed
=============================================================================
