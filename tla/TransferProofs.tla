---------------------------- MODULE TransferProofs ----------------------------
(***************************************************************************)
(* What TLAPS proves of module Transfer, for any number of assets, parcels, *)
(* failures and restarts.                                                   *)
(***************************************************************************)
EXTENDS Transfer, TLAPS

(***************************************************************************)
(* The invariants.                                                         *)
(***************************************************************************)
\* The states in which a parcel relies on the lease of its selection, and
\* those in which its transfer is logged and not yet confirmed.
Holding == {"VirtualSign", "AnchorSign", "LogCommit"}
Sending == {"Broadcast", "WaitTxConf", "StoreProofs", "Deliver", "Confirm"}

Selected == \A p \in Parcels :
    pkg[p].state = "Select" => pkg[p].asset \in Assets /\ p \notin Logged

Leased == \A p \in Parcels : pkg[p].state \in Holding =>
    /\ pkg[p].asset \in Assets /\ pkg[p].utxo \in Utxos /\ p \notin Logged
    /\ lease[pkg[p].utxo] = "short"

OneHolder == \A p, q \in Parcels :
    p # q /\ pkg[p].state \in Holding /\ pkg[q].state \in Holding
        => pkg[p].utxo # pkg[q].utxo

LoggedIsLeased == \A p \in Parcels : p \in Logged =>
    /\ transfers[p].asset \in Assets /\ transfers[p].utxo \in Utxos
    /\ lease[transfers[p].utxo] = "long"

\* The package of a logged transfer agrees with the log.
Packaged == \A p \in Parcels : pkg[p].state \in Sending =>
    /\ p \in Pending
    /\ pkg[p].asset = transfers[p].asset /\ pkg[p].utxo = transfers[p].utxo
    /\ pkg[p].passive \subseteq transfers[p].passive

LeaseInv ==
    /\ TypeOK
    /\ Selected /\ Leased /\ OneHolder /\ LoggedIsLeased /\ Packaged
    /\ NoDoubleSpend

(***************************************************************************)
(* The second layer, for EligibleIsSpendable: the store, the chain and the *)
(* archive agree on an asset, unless a pending transfer explains why not.  *)
(***************************************************************************)
Contents(u) == {a \in Assets : anchor[a] = u}

\* The commitment that was read at the selection is still the one of the UTXO.
Anchored == \A p \in Parcels :
    /\ pkg[p].state \in Holding =>
         Contents(pkg[p].utxo) = pkg[p].passive \cup {pkg[p].asset}
    /\ p \in Pending =>
         Contents(transfers[p].utxo) = transfers[p].passive \cup {transfers[p].asset}

\* A UTXO of a parcel is in use once its transfer is confirmed, no earlier.
OutputsConfirmed ==
    /\ \A a \in Assets : anchor[a] \in Parcels => transfers[anchor[a]].state = "confirmed"
    /\ \A p \in Logged : transfers[p].utxo \in Parcels
                           => transfers[transfers[p].utxo].state = "confirmed"

Published ==
    /\ broadcast \subseteq Logged
    /\ \A p \in Parcels :
         /\ pkg[p].state \in {"StoreProofs", "Deliver", "Confirm"} => p \in mined
         /\ transfers[p].state = "confirmed" => p \in mined

\* The chain agrees with the store, or is ahead of it by a mined transfer.
HeldOrMoved == \A a \in Assets :
    \/ held[a] = anchor[a] /\ \A p \in mined : transfers[p].utxo # anchor[a]
    \/ \E p \in mined \cap Pending : transfers[p].utxo = anchor[a] /\ held[a] = p

Proved ==
    /\ \A a \in Assets : \/ <<a, anchor[a]>> \in proofs
                         \/ \E p \in Pending : transfers[p].utxo = anchor[a]
    /\ \A p \in Parcels : pkg[p].state \in {"Deliver", "Confirm"} =>
         \A a \in pkg[p].passive \cup {pkg[p].asset} : <<a, p>> \in proofs

SpendInv == Anchored /\ OutputsConfirmed /\ Published /\ HeldOrMoved /\ Proved

(***************************************************************************)
(* The first layer: leases keep parcels apart.                             *)
(***************************************************************************)
\* At the start nothing is leased, selected or logged.
LEMMA InitLease == Init => LeaseInv
  BY TransferAssumption
  DEF Init, LeaseInv, TypeOK, Selected, Leased, OneHolder, LoggedIsLeased, Packaged,
      NoDoubleSpend, Logged, Pending, Holding, Sending, NoPackage, NoTransfer, Utxos, SendStates, BeforeLog

\* Every step of a parcel, of time, of the chain and of the process leaves the
\* variables in their types.
LEMMA TypeStep == ASSUME LeaseInv, Next PROVE TypeOK'
  <1> USE TransferAssumption DEF SendStates, BeforeLog, Utxos, Holding
  <1>0. TypeOK /\ Selected /\ Leased
    BY DEF LeaseInv
  <1>1. ASSUME NEW p \in Parcels, NEW a \in Assets, RequestShipment(p, a) PROVE TypeOK'
    BY <1>0, <1>1 DEF TypeOK, RequestShipment, NoPackage, store, chain
  <1>2. ASSUME NEW p \in Parcels, Select(p) PROVE TypeOK'
    BY <1>0, <1>2 DEF TypeOK, Selected, Leased, Select, SelectCoins, Eligible, LeaseCoins, PassiveAssets, Ends, Moves, Succeeds, store, chain
  <1>3. ASSUME NEW p \in Parcels, VirtualSign(p) PROVE TypeOK'
    BY <1>0, <1>3 DEF TypeOK, Selected, Leased, VirtualSign, Fails, Ends, Moves, Succeeds, store, chain
  <1>4. ASSUME NEW p \in Parcels, AnchorSign(p) PROVE TypeOK'
    BY <1>0, <1>4 DEF TypeOK, Selected, Leased, AnchorSign, Fails, Ends, Moves, Succeeds, store, chain
  <1>5. ASSUME NEW p \in Parcels, LogCommit(p) PROVE TypeOK'
    BY <1>0, <1>5 DEF TypeOK, Selected, Leased, LogCommit, LogPendingParcel, prepareForStorage, Moves, Succeeds, store, chain
  <1>6. ASSUME NEW p \in Parcels, Broadcast(p) PROVE TypeOK'
    BY <1>0, <1>6 DEF TypeOK, Selected, Leased, Broadcast, Fails, Ends, Moves, Succeeds, store, chain
  <1>7. ASSUME NEW p \in Parcels, WaitTxConf(p) PROVE TypeOK'
    BY <1>0, <1>7 DEF TypeOK, Selected, Leased, WaitTxConf, Fails, Ends, Moves, Succeeds, store, chain
  <1>8. ASSUME NEW p \in Parcels, StoreProofs(p) PROVE TypeOK'
    <2>1. pkg[p].passive \subseteq Assets
      BY <1>0 DEF TypeOK
    <2>2. updateAssetProofFile(p) \subseteq Assets \X Utxos
      BY <1>0, <2>1 DEF TypeOK, updateAssetProofFile
    <2>3. fetchInputProof(p) \in proofs => pkg[p].asset \in Assets
      BY <1>0 DEF TypeOK, fetchInputProof
    <2>4. proofs' \subseteq Assets \X Utxos
      BY <1>0, <1>8, <2>2, <2>3 DEF TypeOK, StoreProofs
    <2> QED
      BY <1>0, <1>8, <2>4 DEF TypeOK, StoreProofs, Fails, Ends, Moves, Succeeds, store, chain
  <1>9. ASSUME NEW p \in Parcels, DeliverProof(p) PROVE TypeOK'
    BY <1>0, <1>9 DEF TypeOK, Selected, Leased, DeliverProof, Fails, Ends, Moves, Succeeds, store, chain
  <1>10. ASSUME NEW p \in Parcels, ConfirmParcelDelivery(p) PROVE TypeOK'
    BY <1>0, <1>10 DEF TypeOK, Selected, Leased, ConfirmParcelDelivery, ReAnchored, Ends, Moves, Succeeds, store, chain
  <1>11. ASSUME NEW u \in Utxos, ExpireLease(u) PROVE TypeOK'
    BY <1>0, <1>11 DEF TypeOK, ExpireLease, chain
  <1>12. ASSUME NEW p \in Parcels, Mine(p) PROVE TypeOK'
    BY <1>0, <1>12 DEF TypeOK, Mine, store
  <1>13. ASSUME Restart PROVE TypeOK'
    BY <1>0, <1>13 DEF TypeOK, Restart, Resumed, NoPackage, store, chain
  <1> QED
    BY <1>1, <1>2, <1>3, <1>4, <1>5, <1>6, <1>7, <1>8, <1>9, <1>10, <1>11, <1>12, <1>13 DEF Next, advanceState

\* The steps that log, lease and confirm nothing: those in which packages end,
\* go on to the next state of their phase, are requested or are resumed.
Quiet ==
    /\ UNCHANGED <<lease, transfers>>
    /\ \A q \in Parcels :
         /\ pkg'[q].state = "Select" =>
              \/ pkg[q].state = "Select" /\ pkg'[q].asset = pkg[q].asset
              \/ q \notin Logged /\ pkg'[q].asset \in Assets
         /\ pkg'[q].state \in Holding =>
              /\ pkg[q].state \in Holding
              /\ pkg'[q].asset = pkg[q].asset /\ pkg'[q].utxo = pkg[q].utxo
         /\ pkg'[q].state \in Sending =>
              \/ /\ pkg[q].state \in Sending
                 /\ pkg'[q].asset = pkg[q].asset /\ pkg'[q].utxo = pkg[q].utxo
                 /\ pkg'[q].passive = pkg[q].passive
              \/ q \in Pending /\ pkg'[q] = Resumed(q)

\* A step to the next state changes nothing else of the packages.
LEMMA MovesEffect ==
  ASSUME TypeOK, NEW p \in Parcels, NEW s, Moves(p, s)
  PROVE  /\ \A q \in Parcels : q # p => pkg'[q] = pkg[q]
         /\ pkg'[p].state = s
         /\ \A q \in Parcels : /\ pkg'[q].asset = pkg[q].asset /\ pkg'[q].utxo = pkg[q].utxo
                               /\ pkg'[q].passive = pkg[q].passive
  BY DEF TypeOK, Moves

\* Which steps are quiet.
LEMMA QuietSteps ==
  ASSUME TypeOK,
         \/ \E p \in Parcels :
              \/ \E a \in Assets : RequestShipment(p, a)
              \/ VirtualSign(p) \/ AnchorSign(p) \/ Broadcast(p) \/ WaitTxConf(p)
              \/ StoreProofs(p) \/ DeliverProof(p) \/ Mine(p)
         \/ Restart
  PROVE  Quiet
  <1> USE DEF Quiet, Holding, Sending, store
  <1>1. ASSUME NEW p \in Parcels, NEW a \in Assets, RequestShipment(p, a) PROVE Quiet
    BY <1>1 DEF TypeOK, RequestShipment, NoPackage
  <1>2. ASSUME NEW p \in Parcels, VirtualSign(p) PROVE Quiet
    BY <1>2, MovesEffect DEF VirtualSign, Fails, Ends
  <1>3. ASSUME NEW p \in Parcels, AnchorSign(p) PROVE Quiet
    BY <1>3, MovesEffect DEF AnchorSign, Fails, Ends
  <1>4. ASSUME NEW p \in Parcels, Broadcast(p) PROVE Quiet
    BY <1>4, MovesEffect DEF Broadcast, Fails, Ends
  <1>5. ASSUME NEW p \in Parcels, WaitTxConf(p) PROVE Quiet
    BY <1>5, MovesEffect DEF WaitTxConf, Fails, Ends
  <1>6. ASSUME NEW p \in Parcels, StoreProofs(p) PROVE Quiet
    BY <1>6, MovesEffect DEF StoreProofs, Fails, Ends
  <1>7. ASSUME NEW p \in Parcels, DeliverProof(p) PROVE Quiet
    BY <1>7, MovesEffect DEF DeliverProof, Fails, Ends
  <1>8. ASSUME NEW p \in Parcels, Mine(p) PROVE Quiet
    BY <1>8 DEF Mine
  <1>9. ASSUME Restart PROVE Quiet
    BY <1>9 DEF TypeOK, Restart, Resumed, NoPackage
  <1> QED
    BY <1>1, <1>2, <1>3, <1>4, <1>5, <1>6, <1>7, <1>8, <1>9

\* Every step keeps what the leases guard, provided that a lease outlives the
\* work between the selection of a coin and the commitment of its parcel.
LEMMA LeaseStep == ASSUME LeaseOutlives, LeaseInv, Next PROVE LeaseInv'
  <1> DEFINE G == Selected /\ Leased /\ OneHolder /\ LoggedIsLeased /\ Packaged /\ NoDoubleSpend
  <1>0. TypeOK /\ TypeOK' /\ G
    BY TypeStep DEF LeaseInv
  <1> USE <1>0 DEF Holding, Sending, Logged
  <1>1. ASSUME Quiet PROVE G'
    <2>1. Selected' /\ Leased' /\ OneHolder'
      BY <1>1 DEF Quiet, Selected, Leased, OneHolder
    <2>2. LoggedIsLeased' /\ NoDoubleSpend'
      BY <1>1 DEF Quiet, LoggedIsLeased, NoDoubleSpend
    <2>3. Packaged'
      BY <1>1 DEF Quiet, Packaged, Pending, Resumed, TypeOK
    <2> QED BY <2>1, <2>2, <2>3
  <1>2. ASSUME NEW p \in Parcels, Select(p) PROVE G'
    <2>1. /\ UNCHANGED transfers
          /\ \A q \in Parcels \ {p} : pkg'[q] = pkg[q]
          /\ \/ pkg'[p].state = "failed" /\ UNCHANGED lease
             \/ /\ pkg'[p].state = "VirtualSign" /\ pkg'[p].asset = pkg[p].asset
                /\ pkg'[p].utxo = anchor[pkg[p].asset]
                /\ lease[anchor[pkg[p].asset]] = "none"
                /\ lease' = [lease EXCEPT ![anchor[pkg[p].asset]] = "short"]
      BY <1>2 DEF Select, SelectCoins, Eligible, LeaseCoins, Ends, Moves, TypeOK
    <2>2. pkg[p].asset \in Assets /\ anchor[pkg[p].asset] \in Utxos /\ p \notin Logged
      BY <1>2 DEF Select, Selected, TypeOK
    <2>3. Selected'
      BY <2>1, <2>2 DEF Selected
    <2>4. Leased'
      <3>1. ASSUME NEW q \in Parcels, q # p, pkg'[q].state \in Holding
            PROVE  /\ pkg'[q].asset \in Assets /\ pkg'[q].utxo \in Utxos /\ q \notin Logged'
                   /\ lease'[pkg'[q].utxo] = "short"
        BY <2>1, <2>2, <3>1 DEF Leased, TypeOK
      <3>2. pkg'[p].state \in Holding =>
                   /\ pkg'[p].asset \in Assets /\ pkg'[p].utxo \in Utxos /\ p \notin Logged'
                   /\ lease'[pkg'[p].utxo] = "short"
        BY <2>1, <2>2 DEF TypeOK
      <3> QED BY <3>1, <3>2 DEF Leased
    <2>5. OneHolder'
      <3>1. \A q \in Parcels : pkg[q].state \in Holding => lease[pkg[q].utxo] = "short"
        BY DEF Leased
      <3> QED BY <2>1, <3>1 DEF OneHolder
    <2>6. LoggedIsLeased' /\ NoDoubleSpend' /\ Packaged'
      BY <2>1, <2>2 DEF LoggedIsLeased, NoDoubleSpend, Packaged, Pending, TypeOK
    <2> QED BY <2>3, <2>4, <2>5, <2>6
  <1>3. ASSUME NEW p \in Parcels, LogCommit(p) PROVE G'
    <2>1. /\ transfers' = [transfers EXCEPT ![p] = [pkg[p] EXCEPT !.state = "pending"]]
          /\ lease' = [lease EXCEPT ![pkg[p].utxo] = "long"]
          /\ pkg' = [pkg EXCEPT ![p].state = "Broadcast"]
      BY <1>3 DEF LogCommit, LogPendingParcel, prepareForStorage, Moves
    <2>2. /\ pkg[p].state \in Holding /\ p \notin Logged
          /\ pkg[p].asset \in Assets /\ pkg[p].utxo \in Utxos /\ lease[pkg[p].utxo] = "short"
      BY <1>3 DEF LogCommit, Leased
    <2>3. \A q \in Logged : transfers[q].utxo # pkg[p].utxo
      BY <2>2 DEF LoggedIsLeased
    <2>4. Selected' /\ Leased' /\ OneHolder'
      BY <2>1, <2>2 DEF Selected, Leased, OneHolder, TypeOK
    <2>5. LoggedIsLeased' /\ Packaged'
      BY <2>1, <2>2 DEF LoggedIsLeased, Packaged, Pending, TypeOK
    <2>6. NoDoubleSpend'
      BY <2>1, <2>2, <2>3 DEF NoDoubleSpend, TypeOK
    <2> QED BY <2>4, <2>5, <2>6
  <1>4. ASSUME NEW p \in Parcels, ConfirmParcelDelivery(p) PROVE G'
    <2>1. \A q \in Parcels : pkg'[q].state \in Holding \cup Sending \cup {"Select"}
               => q # p /\ pkg'[q] = pkg[q]
      BY <1>4, MovesEffect DEF ConfirmParcelDelivery, Ends
    <2>2. /\ \A q \in Parcels : q # p => transfers'[q] = transfers[q]
          /\ \A q \in Parcels : /\ transfers'[q].asset = transfers[q].asset
                                /\ transfers'[q].utxo = transfers[q].utxo
      BY <1>4 DEF ConfirmParcelDelivery, TypeOK
    <2>3. UNCHANGED lease
      BY <1>4 DEF ConfirmParcelDelivery
    <2>4. p \in Pending
      BY <1>4 DEF ConfirmParcelDelivery, Packaged
    <2>5. Selected' /\ Leased' /\ OneHolder'
      BY <2>1, <2>2, <2>3, <2>4 DEF Selected, Leased, OneHolder
    <2>6. LoggedIsLeased' /\ NoDoubleSpend' /\ Packaged'
      BY <2>1, <2>2, <2>3, <2>4 DEF LoggedIsLeased, NoDoubleSpend, Packaged, Pending
    <2> QED BY <2>5, <2>6
  <1>5. ASSUME NEW u \in Utxos, ExpireLease(u) PROVE G'
    <2>1. /\ UNCHANGED <<pkg, transfers>>
          /\ \A q \in Parcels : pkg[q].state \in Holding => pkg[q].utxo # u
          /\ lease[u] = "short" /\ lease' = [lease EXCEPT ![u] = "none"]
      BY <1>5 DEF ExpireLease, BeforeLog
    <2>2. Selected' /\ Leased' /\ OneHolder'
      BY <2>1 DEF Selected, Leased, OneHolder, TypeOK
    <2>3. LoggedIsLeased' /\ NoDoubleSpend' /\ Packaged'
      BY <2>1 DEF LoggedIsLeased, NoDoubleSpend, Packaged, Pending, TypeOK
    <2> QED BY <2>2, <2>3
  <1> QED
    BY <1>1, <1>2, <1>3, <1>4, <1>5, QuietSteps DEF Next, advanceState, LeaseInv

\* The leases are kept in every step that is taken or not.
LEMMA LeaseInductive == ASSUME LeaseOutlives PROVE LeaseInv /\ [Next]_vars => LeaseInv'
  <1>1. ASSUME LeaseInv, UNCHANGED vars PROVE LeaseInv'
    BY <1>1 DEF LeaseInv, TypeOK, Selected, Leased, OneHolder, LoggedIsLeased, Packaged,
                NoDoubleSpend, Logged, Pending, vars, store, chain
  <1> QED BY <1>1, LeaseStep

(***************************************************************************)
(* The second layer: store, chain and archive.                             *)
(***************************************************************************)
\* At the start the store, the chain and the archive agree.
LEMMA InitSpend == Init => SpendInv
  BY TransferAssumption
  DEF Init, SpendInv, Anchored, OutputsConfirmed, Published, HeldOrMoved, Proved, Contents,
      Logged, Pending, Holding, NoPackage, NoTransfer

\* Steps that write neither the anchors, the log, the archive nor the chain's
\* outputs: packages go on once their transaction is mined, or end.
PackagesOnly ==
    /\ UNCHANGED <<anchor, transfers, proofs, mined, held>>
    /\ broadcast \subseteq broadcast' /\ broadcast' \subseteq broadcast \cup Logged
    /\ \A q \in Parcels :
         /\ pkg'[q].state \in Holding =>
              /\ pkg[q].state \in Holding
              /\ pkg'[q].asset = pkg[q].asset /\ pkg'[q].utxo = pkg[q].utxo
              /\ pkg'[q].passive = pkg[q].passive
         /\ pkg'[q].state \in {"StoreProofs", "Deliver", "Confirm"} =>
              q \in mined \/ pkg[q].state \in {"StoreProofs", "Deliver", "Confirm"}
         /\ pkg'[q].state \in {"Deliver", "Confirm"} =>
              /\ pkg[q].state \in {"Deliver", "Confirm"}
              /\ pkg'[q].asset = pkg[q].asset /\ pkg'[q].passive = pkg[q].passive

\* Which steps these are.
LEMMA PackagesOnlySteps ==
  ASSUME LeaseInv,
         \/ \E p \in Parcels :
              \/ \E a \in Assets : RequestShipment(p, a)
              \/ VirtualSign(p) \/ AnchorSign(p) \/ Broadcast(p) \/ WaitTxConf(p)
              \/ DeliverProof(p)
         \/ \E u \in Utxos : ExpireLease(u)
         \/ Restart
  PROVE  PackagesOnly
  <1>0. TypeOK /\ Packaged
    BY DEF LeaseInv
  <1> USE <1>0 DEF PackagesOnly, Holding, store, chain
  <1>1. ASSUME NEW p \in Parcels, NEW a \in Assets, RequestShipment(p, a) PROVE PackagesOnly
    BY <1>1 DEF TypeOK, RequestShipment, NoPackage
  <1>2. ASSUME NEW p \in Parcels, VirtualSign(p) PROVE PackagesOnly
    BY <1>2, MovesEffect DEF VirtualSign, Fails, Ends
  <1>3. ASSUME NEW p \in Parcels, AnchorSign(p) PROVE PackagesOnly
    BY <1>3, MovesEffect DEF AnchorSign, Fails, Ends
  <1>4. ASSUME NEW p \in Parcels, Broadcast(p) PROVE PackagesOnly
    <2>1. p \in Logged
      BY <1>4 DEF Broadcast, Packaged, Sending, Pending, Logged
    <2> QED BY <1>4, <2>1, MovesEffect DEF Broadcast, Fails, Ends
  <1>5. ASSUME NEW p \in Parcels, WaitTxConf(p) PROVE PackagesOnly
    BY <1>5, MovesEffect DEF WaitTxConf, Fails, Ends
  <1>6. ASSUME NEW p \in Parcels, DeliverProof(p) PROVE PackagesOnly
    BY <1>6, MovesEffect DEF DeliverProof, Fails, Ends
  <1>7. ASSUME NEW u \in Utxos, ExpireLease(u) PROVE PackagesOnly
    BY <1>7 DEF ExpireLease
  <1>8. ASSUME Restart PROVE PackagesOnly
    BY <1>8 DEF TypeOK, Restart, Resumed, NoPackage
  <1> QED
    BY <1>1, <1>2, <1>3, <1>4, <1>5, <1>6, <1>7, <1>8

\* They keep the agreement of store, chain and archive.
LEMMA PackagesOnlyKeeps == ASSUME SpendInv, PackagesOnly PROVE SpendInv'
  <1> USE DEF SpendInv, PackagesOnly
  <1>1. Anchored'
    BY DEF Anchored, Contents, Pending
  <1>2. OutputsConfirmed'
    BY DEF OutputsConfirmed, Logged
  <1>3. Published'
    BY DEF Published, Logged
  <1>4. HeldOrMoved'
    BY DEF HeldOrMoved, Pending
  <1>5. Proved'
    BY DEF Proved, Pending
  <1> QED BY <1>1, <1>2, <1>3, <1>4, <1>5

\* A selection reads the contents of the UTXO it leases.
LEMMA SelectKeeps ==
  ASSUME LeaseInv, SpendInv, NEW p \in Parcels, Select(p) PROVE SpendInv'
  <1>1. /\ TypeOK /\ pkg[p].asset \in Assets
    BY DEF LeaseInv, Selected, Select
  <1>2. /\ UNCHANGED <<anchor, transfers, proofs, mined, held, broadcast>>
        /\ \A q \in Parcels \ {p} : pkg'[q] = pkg[q]
        /\ \/ pkg'[p].state = "failed"
           \/ /\ pkg'[p].state = "VirtualSign" /\ pkg'[p].asset = pkg[p].asset
              /\ pkg'[p].utxo = anchor[pkg[p].asset]
              /\ pkg'[p].passive = PassiveAssets(pkg[p].asset, anchor[pkg[p].asset])
    BY <1>1 DEF Select, SelectCoins, Ends, Moves, TypeOK, chain
  <1>3. Anchored'
    BY <1>1, <1>2 DEF SpendInv, Anchored, Contents, PassiveAssets, Pending, Holding
  <1>4. OutputsConfirmed' /\ Published'
    BY <1>2 DEF SpendInv, OutputsConfirmed, Published, Logged
  <1>5. HeldOrMoved' /\ Proved'
    BY <1>2 DEF SpendInv, HeldOrMoved, Proved, Pending
  <1> QED BY <1>3, <1>4, <1>5 DEF SpendInv

\* A parcel is logged with the contents of the UTXO it spends; the UTXO is not
\* the output of a transfer that is still pending.
LEMMA LogCommitKeeps ==
  ASSUME LeaseInv, SpendInv, NEW p \in Parcels, LogCommit(p) PROVE SpendInv'
  <1>1. /\ TypeOK /\ p \notin Logged /\ pkg[p].state \in Holding
        /\ pkg[p].asset \in Assets
    BY DEF LeaseInv, Leased, LogCommit, Holding
  <1>2. /\ transfers' = [transfers EXCEPT ![p] = [pkg[p] EXCEPT !.state = "pending"]]
        /\ pkg' = [pkg EXCEPT ![p].state = "Broadcast"]
        /\ UNCHANGED <<anchor, proofs, broadcast, mined, held>>
    BY DEF LogCommit, LogPendingParcel, prepareForStorage, Moves, chain
  <1>3. /\ \A q \in Parcels : q # p => pkg'[q] = pkg[q] /\ transfers'[q] = transfers[q]
        /\ pkg'[p].state = "Broadcast"
        /\ transfers'[p].state = "pending" /\ transfers'[p].asset = pkg[p].asset
        /\ transfers'[p].utxo = pkg[p].utxo /\ transfers'[p].passive = pkg[p].passive
    BY <1>1, <1>2 DEF TypeOK
  <1>4. Contents(pkg[p].utxo) = pkg[p].passive \cup {pkg[p].asset}
    BY <1>1 DEF SpendInv, Anchored
  <1>5. p \notin broadcast /\ p \notin mined /\ p \notin Pending
    BY <1>1 DEF SpendInv, Published, TypeOK, Pending, Logged
  <1>6. Anchored'
    BY <1>2, <1>3, <1>4 DEF SpendInv, Anchored, Contents, Pending, Holding
  <1>7. OutputsConfirmed'
    <2>1. \A a \in Assets : anchor[a] \in Parcels => anchor[a] # p
      BY <1>1 DEF SpendInv, OutputsConfirmed, Logged
    <2>2. anchor[pkg[p].asset] = pkg[p].utxo
      BY <1>1, <1>4 DEF Contents
    <2>3. \A q \in Logged : transfers[q].utxo # p
      BY <1>1 DEF SpendInv, OutputsConfirmed, Logged
    <2> QED BY <1>1, <1>2, <1>3, <2>1, <2>2, <2>3 DEF SpendInv, OutputsConfirmed, Logged
  <1>8. Published'
    BY <1>2, <1>3 DEF SpendInv, Published, Logged
  <1>9. HeldOrMoved'
    <2>1. \A q \in mined : q \in Parcels /\ transfers'[q] = transfers[q]
      BY <1>1, <1>3, <1>5 DEF TypeOK
    <2>2. mined \cap Pending \subseteq (mined \cap Pending)'
      BY <1>2, <2>1 DEF Pending
    <2> QED BY <1>2, <2>1, <2>2 DEF SpendInv, HeldOrMoved
  <1>10. Proved'
    <2>1. \A q \in Pending : q \in Pending' /\ transfers'[q].utxo = transfers[q].utxo
      BY <1>3, <1>5 DEF Pending
    <2> QED BY <1>2, <1>3, <2>1 DEF SpendInv, Proved
  <1> QED BY <1>6, <1>7, <1>8, <1>9, <1>10 DEF SpendInv

\* Proof files are replaced only where a pending transfer spends the UTXO.
LEMMA StoreProofsKeeps ==
  ASSUME LeaseInv, SpendInv, NEW p \in Parcels, StoreProofs(p) PROVE SpendInv'
  <1>1. /\ TypeOK /\ p \in Pending /\ p \in mined
        /\ pkg[p].utxo = transfers[p].utxo
    BY DEF LeaseInv, Packaged, StoreProofs, Sending, SpendInv, Published
  <1>2. /\ UNCHANGED <<anchor, transfers, broadcast, mined, held>>
        /\ \A q \in Parcels : /\ q # p => pkg'[q] = pkg[q]
                              /\ pkg'[q].asset = pkg[q].asset
                              /\ pkg'[q].passive = pkg[q].passive
        /\ pkg'[p].state \in {"Deliver", "failed"}
    BY <1>1, MovesEffect DEF StoreProofs, Fails, Ends, store, chain
  <1>3. Anchored'
    BY <1>2 DEF SpendInv, Anchored, Contents, Pending, Holding
  <1>4. OutputsConfirmed' /\ Published'
    BY <1>1, <1>2 DEF SpendInv, OutputsConfirmed, Published, Logged
  <1>5. HeldOrMoved'
    BY <1>2 DEF SpendInv, HeldOrMoved, Pending
  <1>6. Proved'
    <2>1. \A a, u : <<a, u>> \in proofs /\ u # transfers[p].utxo => <<a, u>> \in proofs'
      BY <1>1 DEF StoreProofs, updateAssetProofFile
    <2>2. ASSUME NEW a \in Assets
          PROVE  \/ <<a, anchor'[a]>> \in proofs'
                 \/ \E q \in Pending' : transfers'[q].utxo = anchor'[a]
      BY <1>1, <1>2, <2>1 DEF SpendInv, Proved, Pending
    <2>3. ASSUME NEW q \in Parcels, q # p, pkg'[q].state \in {"Deliver", "Confirm"},
                 NEW a \in pkg'[q].passive \cup {pkg'[q].asset}
          PROVE  <<a, q>> \in proofs'
      <3>1. q \in Pending
        BY <1>2, <2>3 DEF LeaseInv, Packaged, Sending
      <3>2. q # transfers[p].utxo
        BY <1>1, <3>1 DEF SpendInv, OutputsConfirmed, Pending, Logged
      <3> QED BY <1>2, <2>1, <2>3, <3>2 DEF SpendInv, Proved
    <2>4. ASSUME pkg'[p].state \in {"Deliver", "Confirm"},
                 NEW a \in pkg'[p].passive \cup {pkg'[p].asset}
          PROVE  <<a, p>> \in proofs'
      <3>1. proofs' = updateAssetProofFile(p) \cup {<<pkg[p].asset, p>>}
        BY <1>1, <1>2, <2>4, MovesEffect DEF StoreProofs, Fails, Ends
      <3> QED BY <1>2, <2>4, <3>1 DEF updateAssetProofFile
    <2> QED BY <2>2, <2>3, <2>4 DEF Proved
  <1> QED BY <1>3, <1>4, <1>5, <1>6 DEF SpendInv

\* A transaction that is mined belongs to a pending transfer, and the assets
\* it moves are those the store has in the UTXO it spends.
LEMMA MineKeeps ==
  ASSUME LeaseInv, SpendInv, NEW p \in Parcels, Mine(p) PROVE SpendInv'
  <1>1. TypeOK /\ p \in Pending /\ p \in Logged
    BY DEF LeaseInv, TypeOK, SpendInv, Published, Mine, Logged, Pending
  <1>2. /\ UNCHANGED <<anchor, transfers, proofs, pkg, broadcast>>
        /\ mined' = mined \cup {p}
        /\ \A a \in Assets : held'[a] = IF held[a] = transfers[p].utxo THEN p ELSE held[a]
    BY DEF Mine, store
  <1>3. Anchored' /\ OutputsConfirmed' /\ Published' /\ Proved'
    BY <1>2 DEF SpendInv, Anchored, OutputsConfirmed, Published, Proved, Contents, Logged, Pending
  <1>4. HeldOrMoved'
    <2> SUFFICES ASSUME NEW a \in Assets
                 PROVE  \/ /\ held'[a] = anchor[a]
                           /\ \A q \in mined' : transfers[q].utxo # anchor[a]
                        \/ \E q \in mined' \cap Pending :
                              transfers[q].utxo = anchor[a] /\ held'[a] = q
      BY <1>2 DEF HeldOrMoved, Pending
    <2>1. CASE held[a] = anchor[a] /\ \A q \in mined : transfers[q].utxo # anchor[a]
      BY <1>1, <1>2, <2>1
    <2>2. ASSUME NEW q \in mined \cap Pending, transfers[q].utxo = anchor[a], held[a] = q
          PROVE  \E r \in mined' \cap Pending : transfers[r].utxo = anchor[a] /\ held'[a] = r
      <3>1. q # transfers[p].utxo
        BY <1>1 DEF SpendInv, OutputsConfirmed, Pending
      <3> QED BY <1>2, <2>2, <3>1
    <2> QED BY <2>1, <2>2 DEF SpendInv, HeldOrMoved
  <1> QED BY <1>3, <1>4 DEF SpendInv

\* The confirmation moves exactly the assets that the chain has moved.
LEMMA ConfirmKeeps ==
  ASSUME LeaseInv, SpendInv, NEW p \in Parcels, ConfirmParcelDelivery(p) PROVE SpendInv'
  <1> DEFINE u == transfers[p].utxo
             S == transfers[p].passive \cup {transfers[p].asset}
  <1>1. /\ TypeOK /\ p \in Pending /\ p \in Logged /\ p \in mined
        /\ pkg[p].asset = transfers[p].asset /\ pkg[p].passive \subseteq transfers[p].passive
        /\ \A a \in pkg[p].passive \cup {pkg[p].asset} : <<a, p>> \in proofs
    BY DEF LeaseInv, Packaged, ConfirmParcelDelivery, Sending, SpendInv, Published, Proved,
           Pending, Logged
  <1>2. CASE ~PassiveFilesFound(p)
    <2>1. PackagesOnly
      BY <1>1, <1>2, MovesEffect DEF ConfirmParcelDelivery, Ends, PackagesOnly, Holding, chain
    <2> QED BY <2>1, PackagesOnlyKeeps
  <1>3. CASE PassiveFilesFound(p)
    <2>1. /\ UNCHANGED <<proofs, broadcast, mined, held>>
          /\ \A a \in Assets : anchor'[a] = IF a \in S THEN p ELSE anchor[a]
          /\ pkg'[p].state = "Complete"
          /\ \A q \in Parcels : q # p => pkg'[q] = pkg[q]
      BY <1>1, <1>3, MovesEffect DEF ConfirmParcelDelivery, ReAnchored, chain
    <2>2. /\ transfers'[p].state = "confirmed"
          /\ \A q \in Parcels : q # p => transfers'[q] = transfers[q]
          /\ \A q \in Parcels : transfers'[q].utxo = transfers[q].utxo
          /\ Logged' = Logged /\ Pending' = Pending \ {p}
      <3>1. transfers' = [transfers EXCEPT ![p].state = "confirmed"]
        BY <1>3 DEF ConfirmParcelDelivery
      <3>2. /\ transfers'[p].state = "confirmed"
            /\ \A q \in Parcels : q # p => transfers'[q] = transfers[q]
            /\ \A q \in Parcels : transfers'[q].utxo = transfers[q].utxo
        BY <1>1, <3>1 DEF TypeOK
      <3> QED BY <1>1, <3>2 DEF Logged, Pending
    <2>3. Contents(u) = S
      BY <1>1 DEF SpendInv, Anchored
    <2>4. /\ \A q \in Logged : q # p => transfers[q].utxo # u
          /\ \A q \in Logged : transfers[q].utxo # p
          /\ \A a \in Assets : anchor[a] # p
      BY <1>1 DEF LeaseInv, NoDoubleSpend, SpendInv, OutputsConfirmed, Pending
    <2>5. \A v : v # u /\ v # p => Contents(v)' = Contents(v)
      BY <2>1, <2>3 DEF Contents
    <2>6. Anchored'
      <3>1. ASSUME NEW q \in Parcels, pkg'[q].state \in Holding
            PROVE  Contents(pkg[q].utxo)' = pkg'[q].passive \cup {pkg'[q].asset}
        <4>1. q # p /\ pkg'[q] = pkg[q]
          BY <2>1, <3>1 DEF Holding
        <4>2. /\ lease[pkg[q].utxo] = "short" /\ pkg[q].asset \in Assets
              /\ Contents(pkg[q].utxo) = pkg[q].passive \cup {pkg[q].asset}
          BY <3>1, <4>1 DEF LeaseInv, Leased, SpendInv, Anchored
        <4>3. pkg[q].utxo # u
          BY <1>1, <4>2 DEF LeaseInv, LoggedIsLeased
        <4>4. pkg[q].utxo # p
          BY <2>4, <4>2 DEF Contents
        <4> QED BY <2>5, <4>1, <4>2, <4>3, <4>4
      <3>2. ASSUME NEW q \in Pending'
            PROVE  Contents(transfers[q].utxo)' = transfers'[q].passive \cup {transfers'[q].asset}
        <4>1. q \in Parcels /\ q # p /\ transfers'[q] = transfers[q] /\ q \in Pending
          BY <2>2, <3>2 DEF Pending
        <4>2. transfers[q].utxo # u /\ transfers[q].utxo # p
          BY <2>4, <4>1 DEF Pending, Logged
        <4> QED BY <2>5, <4>1, <4>2 DEF SpendInv, Anchored
      <3> QED BY <2>1, <2>2, <3>1, <3>2 DEF Anchored, Contents, Pending, Holding
    <2>7. OutputsConfirmed'
      <3>1. \A q \in Parcels : transfers[q].state = "confirmed" => transfers'[q].state = "confirmed"
        BY <2>2
      <3>2. \A a \in Assets : anchor'[a] \in Parcels => transfers'[anchor'[a]].state = "confirmed"
        BY <2>1, <2>2, <3>1 DEF SpendInv, OutputsConfirmed
      <3>3. \A q \in Logged : transfers'[q].utxo \in Parcels
                               => transfers'[transfers'[q].utxo].state = "confirmed"
        BY <2>2, <3>1 DEF SpendInv, OutputsConfirmed, Logged
      <3> QED BY <2>2, <3>2, <3>3 DEF OutputsConfirmed
    <2>8. Published'
      BY <1>1, <2>1, <2>2 DEF SpendInv, Published
    <2>9. HeldOrMoved'
      <3>1. mined \subseteq Logged
        BY <1>1 DEF TypeOK, SpendInv, Published
      <3>2. ASSUME NEW a \in Assets, a \in S
            PROVE  held[a] = p /\ \A q \in mined : transfers[q].utxo # p
        <4>1. anchor[a] = u
          BY <2>3, <3>2 DEF Contents
        <4>2. PICK q \in mined \cap Pending : transfers[q].utxo = anchor[a] /\ held[a] = q
          BY <1>1, <4>1 DEF SpendInv, HeldOrMoved
        <4>3. q = p
          BY <2>4, <3>1, <4>1, <4>2
        <4> QED BY <2>4, <3>1, <4>2, <4>3
      <3>3. ASSUME NEW a \in Assets, a \notin S
            PROVE  anchor[a] # u
        BY <2>3, <3>3 DEF Contents
      <3>4. \A q \in mined : q \in Parcels
        BY <1>1 DEF TypeOK
      <3> QED BY <2>1, <2>2, <3>2, <3>3, <3>4 DEF SpendInv, HeldOrMoved
    <2>10. Proved'
      <3>1. ASSUME NEW a \in Assets
            PROVE  \/ <<a, anchor'[a]>> \in proofs
                   \/ \E q \in Pending' : transfers'[q].utxo = anchor'[a]
        <4>1. CASE a \in S
          BY <1>1, <1>3, <2>1, <4>1 DEF PassiveFilesFound
        <4>2. CASE a \notin S
          <5>1. anchor'[a] = anchor[a] /\ anchor[a] # u
            BY <2>1, <2>3, <4>2 DEF Contents
          <5>2. CASE \E q \in Pending : transfers[q].utxo = anchor[a]
            BY <2>2, <5>1, <5>2 DEF Pending
          <5> QED BY <5>1, <5>2 DEF SpendInv, Proved
        <4> QED BY <4>1, <4>2
      <3> QED BY <2>1, <3>1 DEF SpendInv, Proved
    <2> QED BY <2>6, <2>7, <2>8, <2>9, <2>10 DEF SpendInv
  <1> QED BY <1>2, <1>3

(***************************************************************************)
(* The theorems.                                                           *)
(***************************************************************************)
\* The variables of the transfer model keep their types in every behaviour in
\* which a lease outlives the work from the selection to the commitment.
THEOREM TransferTypes ==
  ASSUME LeaseOutlives PROVE Spec => []TypeOK
  <1>1. LeaseInv => TypeOK
    BY DEF LeaseInv
  <1> QED BY InitLease, LeaseInductive, <1>1, PTL DEF Spec

\* NoDoubleSpend for any number of parcels, failures and restarts: no two
\* transfers in the store spend the same UTXO, since SelectCoins leases only
\* what is free and LogPendingParcel prolongs the lease before it expires.
THEOREM TransfersNeverDoubleSpend ==
  ASSUME LeaseOutlives PROVE Spec => []NoDoubleSpend
  <1>1. LeaseInv => NoDoubleSpend
    BY DEF LeaseInv
  <1> QED BY InitLease, LeaseInductive, <1>1, PTL DEF Spec

\* EligibleIsSpendable for any number of parcels, failures and restarts: what
\* ListEligibleCoins offers is on the chain where the store has it, unspent,
\* and has its proof file.
THEOREM EligibleCoinsAreSpendable ==
  ASSUME LeaseOutlives PROVE Spec => []EligibleIsSpendable
  <1>1. LeaseInv /\ SpendInv /\ [Next]_vars => SpendInv'
    <2>1. ASSUME SpendInv, UNCHANGED vars PROVE SpendInv'
      BY <2>1 DEF SpendInv, Anchored, OutputsConfirmed, Published, HeldOrMoved, Proved, Contents,
                  Logged, Pending, vars, store, chain
    <2>2. ASSUME LeaseInv, SpendInv, Next PROVE SpendInv'
      BY <2>2, PackagesOnlySteps, PackagesOnlyKeeps, SelectKeeps, LogCommitKeeps,
         StoreProofsKeeps, MineKeeps, ConfirmKeeps
      DEF Next, advanceState
    <2> QED BY <2>1, <2>2
  <1>2. LeaseInv /\ SpendInv => EligibleIsSpendable
    <2> SUFFICES ASSUME LeaseInv, SpendInv, NEW a \in Assets, Eligible(a)
                 PROVE  /\ held[a] = anchor[a]
                        /\ \A p \in broadcast : transfers[p].utxo # anchor[a]
                        /\ <<a, anchor[a]>> \in proofs
      BY DEF EligibleIsSpendable
    <2>1. \A p \in Logged : transfers[p].utxo # anchor[a]
      BY DEF LeaseInv, LoggedIsLeased, Eligible, Logged
    <2>2. broadcast \subseteq Logged /\ Pending \subseteq Logged
      BY DEF SpendInv, Published, Pending, Logged
    <2> QED BY <2>1, <2>2 DEF SpendInv, HeldOrMoved, Proved
  <1> QED BY InitLease, LeaseInductive, InitSpend, <1>1, <1>2, PTL DEF Spec
===============================================================================
