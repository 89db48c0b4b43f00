---------------------------- MODULE OpSenderProofs ----------------------------
(***************************************************************************)
(* What TLAPS proves of module OpSender, for any wallet and any number of  *)
(* attempts, failing writes and failing broadcasts.                        *)
(***************************************************************************)
EXTENDS OpSender, TLAPS

(***************************************************************************)
(* The inductive invariant.                                                *)
(***************************************************************************)
\* The rows of sequencerUtxoDao, and the outputs they stand for.
Rows == [tx : Int \X Int, purpose : Purposes, used : {"unused", "locked"},
         status : {"unconfirmed", "confirmed"}]
Outputs == (Int \X Int) \X Purposes

Busy == {"prepare", "sign", "push", "stopped"}

\* Change is recorded under the attempt that creates it, after its utxos were
\* chosen.
RowsOlder == /\ utxos \subseteq Rows
             /\ \A u \in utxos : u.tx[1] <= attempt
             /\ pc = "prepare" => \A u \in utxos : u.tx[1] < attempt
             /\ pc \in Busy => attempt >= 1

\* An attempt spends outputs of each purpose that earlier attempts created.
InputsOlder == \A n \in 1..attempt : \A p \in Purposes :
    inputs[n][p] \in Outputs /\ inputs[n][p][2] = p /\ inputs[n][p][1][1] < n

\* The attempts of which some transaction was recorded or handed to the network.
Sent == {t[1] : t \in DOMAIN txs \cup network}

SentStarted == /\ \A t \in DOMAIN txs \cup network : t[1] \in 1..attempt
               /\ pc \in {"prepare", "sign"} => attempt \notin Sent

\* What an attempt spends is locked before its first broadcast, for good.
Locked == \A n \in Sent \cup (IF pc \in {"sign", "push"} THEN {attempt} ELSE {}) :
    \A p \in Purposes : \A u \in utxos : Output(u) = inputs[n][p] => u.used = "locked"

\* No attempt chooses what an attempt before it has sent.
Apart == \A n \in Sent : \A m \in 1..attempt : m > n =>
    \A p \in Purposes : inputs[n][p] # inputs[m][p]

\* The record of a transaction is behind the network, never ahead of it.
Recorded ==
    /\ \A t \in DOMAIN txs : t \in network \/ txs[t] = "pending"
    /\ \A n \in done, k \in 1..3 : <<n, k>> \in DOMAIN txs
    /\ pc \in {"prepare", "sign"} => turn = 1
    /\ pc = "push" => \A k \in 1..3 : k < turn => <<attempt, k>> \in DOMAIN txs

SenderInv == TypeOK /\ RowsOlder /\ InputsOlder /\ SentStarted /\ Locked /\ Apart
             /\ Recorded /\ ConfirmedIsMined

(***************************************************************************)
(* The invariant holds at the start, and every step keeps it.              *)
(***************************************************************************)
\* At the start the wallet has only confirmed utxos and nothing was sent.
LEMMA InitSender == Init => SenderInv
  <1> SUFFICES ASSUME Init PROVE SenderInv
    OBVIOUS
  <1> USE BoundsAssumption
  <1>1. /\ DOMAIN inputs = 1..0 /\ DOMAIN txs = {}
        /\ pc = "idle" /\ attempt = 0 /\ turn = 1 /\ missing = FALSE
        /\ network = {} /\ mined = {} /\ done = {} /\ cancelled = FALSE
    BY DEF Init
  <1>2. \A u \in utxos : u \in Rows /\ u.used = "unused" /\ u.status = "confirmed"
                         /\ u.tx[1] <= 0 /\ u.tx[2] = 0
    BY DEF Init, Utxo, Funded, Rows, Purposes
  <1>3. TypeOK
    <2>1. \A u \in utxos : /\ u.purpose \in Purposes /\ u.used \in {"unused", "locked"}
                           /\ u.status \in {"unconfirmed", "confirmed"}
      BY <1>2 DEF Rows
    <2>2. attempt \in 0..MaxAttempts /\ turn \in 1..4 /\ DOMAIN inputs = 1..attempt
      BY <1>1
    <2>3. DOMAIN txs \subseteq TxIds /\ mined \subseteq network /\ network \subseteq TxIds
          /\ done \subseteq 1..attempt
      BY <1>1
    <2> QED BY <1>1, <2>1, <2>2, <2>3 DEF TypeOK
  <1>4. RowsOlder /\ InputsOlder /\ Recorded /\ ConfirmedIsMined
    BY <1>1, <1>2 DEF RowsOlder, InputsOlder, Recorded, ConfirmedIsMined, Busy, Rows
  <1>5. SentStarted /\ Locked /\ Apart
    BY <1>1 DEF SentStarted, Locked, Apart, Sent
  <1> QED BY <1>3, <1>4, <1>5 DEF SenderInv

\* The choice of the inputs: of each purpose a utxo that no sent attempt spends.
LEMMA CreateCommitKeeps == ASSUME SenderInv, CreateCommit PROVE SenderInv'
  <1> USE BoundsAssumption DEF SenderInv
  <1> DEFINE Chosen(a, b, c) == [p \in Purposes |-> CASE p = "inscribe" -> Output(a)
                                                      [] p = "activate" -> Output(b)
                                                      [] p = "sequence" -> Output(c)]
  <1>1. PICK a \in Candidates("inscribe"), b \in Candidates("activate"),
             c \in Candidates("sequence") :
          inputs' = [n \in 1..(attempt + 1) |-> IF n <= attempt THEN inputs[n] ELSE Chosen(a, b, c)]
    BY Zenon DEF CreateCommit
  <1>2. /\ attempt \in Nat /\ attempt' = attempt + 1 /\ attempt < MaxAttempts
        /\ pc = "idle" /\ pc' = "prepare" /\ turn' = 1 /\ missing' = FALSE
        /\ UNCHANGED <<utxos, txs, network, mined, done, cancelled>>
    BY DEF CreateCommit, TypeOK
  <1>3. /\ \A n \in 1..attempt : inputs'[n] = inputs[n]
        /\ \A p \in Purposes : \E u \in utxos :
             inputs'[attempt + 1][p] = Output(u) /\ u.purpose = p /\ u.used = "unused"
    <2>1. /\ Chosen(a, b, c)["inscribe"] = Output(a)
          /\ Chosen(a, b, c)["activate"] = Output(b)
          /\ Chosen(a, b, c)["sequence"] = Output(c)
      BY DEF Purposes
    <2> HIDE DEF Chosen
    <2>3. /\ inputs'[attempt + 1] = Chosen(a, b, c)
          /\ \A n \in 1..attempt : inputs'[n] = inputs[n]
      BY <1>1, <1>2
    <2>2. /\ a \in utxos /\ a.purpose = "inscribe" /\ a.used = "unused"
          /\ b \in utxos /\ b.purpose = "activate" /\ b.used = "unused"
          /\ c \in utxos /\ c.purpose = "sequence" /\ c.used = "unused"
      BY DEF Candidates
    <2> QED BY <2>1, <2>2, <2>3 DEF Purposes
  <1>4. TypeOK'
    <2> HIDE DEF Chosen
    <2>1. DOMAIN inputs' = 1..attempt'
      BY <1>1, <1>2
    <2>2. done' \subseteq 1..attempt' /\ attempt' \in 0..MaxAttempts
      BY <1>2 DEF TypeOK
    <2>3. /\ pc' \in {"idle", "prepare", "sign", "push", "stopped"}
          /\ turn' \in 1..4 /\ (pc' = "push" => turn' <= 3)
      BY <1>2
    <2>5. missing' \in BOOLEAN /\ cancelled' \in BOOLEAN
      BY <1>2, Zenon DEF TypeOK
    <2>4. /\ \A u \in utxos' : /\ u.purpose \in Purposes
                               /\ u.used \in {"unused", "locked"}
                               /\ u.status \in {"unconfirmed", "confirmed"}
          /\ DOMAIN txs' \subseteq TxIds
          /\ \A t \in DOMAIN txs' : txs'[t] \in {"pending", "unconfirmed", "confirmed"}
          /\ mined' \subseteq network' /\ network' \subseteq TxIds
      BY <1>2 DEF TypeOK
    <2> QED BY <2>1, <2>2, <2>3, <2>4, <2>5 DEF TypeOK
  <1>5. RowsOlder'
    BY <1>2 DEF RowsOlder, Busy, Rows
  <1>6. InputsOlder'
    <2>1. ASSUME NEW p \in Purposes
          PROVE  /\ inputs'[attempt + 1][p] \in Outputs /\ inputs'[attempt + 1][p][2] = p
                 /\ inputs'[attempt + 1][p][1][1] < attempt + 1
      BY <1>2, <1>3 DEF RowsOlder, Rows, Output, Outputs
    <2> QED BY <1>2, <1>3, <2>1 DEF InputsOlder
  <1>7. \A n \in Sent : n \in 1..attempt
    BY DEF Sent, SentStarted
  <1>8. SentStarted'
    BY <1>2, <1>7 DEF SentStarted, Sent
  <1>9. Locked'
    BY <1>2, <1>3, <1>7 DEF Locked, Sent
  <1>10. Apart'
    <2>1. \A n \in Sent, p \in Purposes : inputs[n][p] # inputs'[attempt + 1][p]
      BY <1>3 DEF Locked
    <2> QED BY <1>2, <1>3, <1>7, <2>1 DEF Apart, Sent
  <1>11. Recorded' /\ ConfirmedIsMined'
    BY <1>2 DEF Recorded, ConfirmedIsMined
  <1> QED BY <1>4, <1>5, <1>6, <1>8, <1>9, <1>10, <1>11

\* However many of the six writes succeed, what is locked stays locked, and
\* what is recorded anew is the change of this attempt.
LEMMA PreparedRows ==
  ASSUME SenderInv, pc = "prepare", NEW writes \in 0..6
  PROVE  \A v \in Prepared(writes) :
           \/ \E u \in utxos :
                /\ Output(v) = Output(u) /\ v.tx = u.tx /\ v.status = u.status /\ v \in Rows
                /\ v.used = IF Output(u) = inputs[attempt][u.purpose] /\ Order(u.purpose) <= writes
                            THEN "locked" ELSE u.used
           \/ v \in Rows /\ v.tx[1] = attempt /\ v.status = "unconfirmed"
  <1>1. utxos \subseteq Rows /\ attempt \in Nat
    BY DEF SenderInv, RowsOlder, TypeOK
  <1>2. ASSUME NEW u \in utxos
        PROVE  LET v == IF Output(u) = inputs[attempt][u.purpose] /\ Order(u.purpose) <= writes
                        THEN [u EXCEPT !.used = "locked"] ELSE u
               IN  /\ Output(v) = Output(u) /\ v.tx = u.tx /\ v.status = u.status /\ v \in Rows
                   /\ v.used = IF Output(u) = inputs[attempt][u.purpose] /\ Order(u.purpose) <= writes
                               THEN "locked" ELSE u.used
    BY <1>1 DEF Rows, Output
  <1>3. ASSUME NEW p \in Purposes
        PROVE  LET v == Utxo(ChangeTx(attempt, p), p, "unused", "unconfirmed")
               IN  v \in Rows /\ v.tx[1] = attempt /\ v.status = "unconfirmed"
    BY <1>1 DEF Rows, Utxo, ChangeTx
  <1> QED BY <1>2, <1>3 DEF Prepared

\* What the lists of utxos after a complete and a partial preparation share.
LEMMA PreparedKeeps ==
  ASSUME SenderInv, pc = "prepare", NEW writes \in 0..6, utxos' = Prepared(writes),
         pc' \in {"idle", "sign"}, pc' = "sign" => writes = 6,
         UNCHANGED <<attempt, turn, inputs, missing, txs, network, mined, done, cancelled>>
  PROVE  SenderInv'
  <1> USE DEF SenderInv
  <1>1. /\ attempt \in Nat /\ attempt >= 1
        /\ \A u \in utxos : u \in Rows /\ u.tx[1] < attempt
    BY DEF TypeOK, RowsOlder, Busy
  <1>2. \A n \in Sent : n \in 1..attempt
    BY DEF Sent, SentStarted
  <1>3. TypeOK'
    BY PreparedRows DEF TypeOK, Rows
  <1>4. RowsOlder'
    BY <1>1, PreparedRows DEF RowsOlder, Rows, Busy
  <1>5. InputsOlder' /\ SentStarted' /\ Apart' /\ Recorded'
    BY DEF InputsOlder, SentStarted, Apart, Recorded, Sent
  <1>6. ConfirmedIsMined'
    BY PreparedRows DEF ConfirmedIsMined
  <1>7. Locked'
    <2>1. ASSUME NEW n \in 1..attempt, NEW p \in Purposes, NEW v \in Prepared(writes),
                 Output(v) = inputs[n][p], n \in Sent \/ (n = attempt /\ writes = 6)
          PROVE  v.used = "locked"
      <3>1. v.tx[1] < attempt
        <4>1. v.tx = inputs[n][p][1]
          BY <2>1 DEF Output
        <4>2. v.tx[1] \in Int
          BY PreparedRows, <1>1 DEF Rows
        <4> QED BY <1>1, <4>1, <4>2 DEF InputsOlder
      <3>2. PICK u \in utxos :
              /\ Output(v) = Output(u)
              /\ v.used = IF Output(u) = inputs[attempt][u.purpose] /\ Order(u.purpose) <= writes
                          THEN "locked" ELSE u.used
        BY <1>1, <3>1, PreparedRows
      <3>3. CASE n \in Sent
        BY <2>1, <3>2, <3>3 DEF Locked
      <3>4. CASE n = attempt /\ writes = 6
        <4>1. u.purpose = p
          BY <1>1, <2>1, <3>2 DEF InputsOlder, Output
        <4>2. Order(p) <= 6
          BY DEF Order, Purposes
        <4> QED BY <2>1, <3>2, <3>4, <4>1, <4>2
      <3> QED BY <2>1, <3>3, <3>4
    <2>2. Sent' = Sent /\ Sent \subseteq 1..attempt /\ attempt \in 1..attempt
      BY <1>1, <1>2 DEF Sent
    <2>3. ASSUME NEW n \in Sent' \cup (IF pc' \in {"sign", "push"} THEN {attempt'} ELSE {})
          PROVE  n \in 1..attempt /\ (n \in Sent \/ (n = attempt /\ writes = 6))
      BY <2>2, <2>3
    <2> QED BY <2>1, <2>3 DEF Locked, Output
  <1> QED BY <1>3, <1>4, <1>5, <1>6, <1>7

\* A broadcast adds the transaction to the network, to the record, to both or
\* to neither; it is of the current attempt, whose inputs are locked.
LEMMA BroadcastKeeps ==
  ASSUME SenderInv, pc = "push",
         UNCHANGED <<attempt, inputs, utxos, mined, cancelled>>,
         network' \in {network, network \cup {<<attempt, turn>>}},
         \/ pc' = "idle" /\ UNCHANGED <<txs, done, turn, missing>>
         \/ \E status \in {"pending", "unconfirmed"}, fatal \in BOOLEAN :
              /\ status = "unconfirmed" => <<attempt, turn>> \in network'
              /\ txs' = Record(<<attempt, turn>>, status)
              /\ AfterPush(fatal)
  PROVE  SenderInv'
  <1> USE BoundsAssumption DEF SenderInv
  <1> DEFINE t == <<attempt, turn>>
  <1>1. /\ attempt \in Nat /\ attempt >= 1 /\ attempt <= MaxAttempts /\ turn \in 1..3
        /\ t \in TxIds /\ t[1] = attempt
    BY DEF TypeOK, RowsOlder, Busy, TxIds
  <1>2. /\ DOMAIN txs \subseteq DOMAIN txs' /\ DOMAIN txs' \subseteq DOMAIN txs \cup {t}
        /\ \A s \in DOMAIN txs' : IF s \in DOMAIN txs /\ s # t THEN txs'[s] = txs[s]
             ELSE \/ txs'[s] = "pending" \/ (txs'[s] = "unconfirmed" /\ s \in network')
                  \/ (txs'[s] = txs[s] /\ s \in DOMAIN txs)
    BY DEF Record
  <1>3. /\ network \subseteq network' /\ network' \subseteq network \cup {t}
    OBVIOUS
  <1>4. \/ pc' = "push" /\ turn < 3 /\ turn' = turn + 1 /\ done' = done /\ t \in DOMAIN txs'
        \/ pc' = "stopped" /\ turn = 3 /\ turn' = 4 /\ done' = done
        \/ pc' = "idle" /\ turn' = turn /\ done' = done
        \/ pc' = "idle" /\ turn = 3 /\ turn' = 4 /\ done' = done \cup {attempt} /\ t \in DOMAIN txs'
    BY <1>1 DEF AfterPush, Record
  <1>5. missing' \in BOOLEAN /\ cancelled' \in BOOLEAN
    BY Zenon DEF AfterPush, TypeOK
  <1>6. TypeOK'
    <2>1. /\ pc' \in {"idle", "prepare", "sign", "push", "stopped"}
          /\ attempt' \in 0..MaxAttempts /\ turn' \in 1..4 /\ (pc' = "push" => turn' <= 3)
      BY <1>1, <1>4 DEF TypeOK
    <2>4. done' \subseteq 1..attempt'
      <3>1. done \subseteq 1..attempt /\ attempt \in 1..attempt /\ attempt' = attempt
        BY <1>1 DEF TypeOK
      <3> QED BY <1>4, <3>1
    <2>2. /\ DOMAIN txs' \subseteq TxIds /\ network' \subseteq TxIds /\ mined' \subseteq network'
          /\ \A s \in DOMAIN txs' : txs'[s] \in {"pending", "unconfirmed", "confirmed"}
      BY <1>1, <1>2, <1>3 DEF TypeOK
    <2>3. /\ DOMAIN inputs' = 1..attempt'
          /\ \A u \in utxos' : /\ u.purpose \in Purposes /\ u.used \in {"unused", "locked"}
                               /\ u.status \in {"unconfirmed", "confirmed"}
      BY DEF TypeOK
    <2> QED BY <1>5, <2>1, <2>2, <2>3, <2>4 DEF TypeOK
  <1>7. RowsOlder' /\ InputsOlder'
    BY <1>1, <1>4 DEF RowsOlder, InputsOlder
  <1>8. Sent \subseteq Sent' /\ Sent' \subseteq Sent \cup {attempt}
    BY <1>1, <1>2, <1>3 DEF Sent
  <1>9. SentStarted'
    BY <1>1, <1>2, <1>3, <1>4 DEF SentStarted
  <1>10. Locked'
    BY <1>4, <1>8 DEF Locked
  <1>11. Apart'
    BY <1>1, <1>8 DEF Apart
  <1>12. Recorded'
    <2>1. \A s \in DOMAIN txs' : s \in network' \/ txs'[s] = "pending"
      BY <1>2, <1>3 DEF Recorded
    <2>2. \A n \in done', k \in 1..3 : <<n, k>> \in DOMAIN txs'
      <3>1. \A n \in done, k \in 1..3 : <<n, k>> \in DOMAIN txs'
        BY <1>2 DEF Recorded
      <3>2. ASSUME turn = 3, t \in DOMAIN txs', NEW k \in 1..3
            PROVE  <<attempt, k>> \in DOMAIN txs'
        <4>1. CASE k < 3
          BY <1>2, <3>2, <4>1 DEF Recorded
        <4>2. CASE k = 3
          BY <3>2, <4>2
        <4> QED BY <4>1, <4>2
      <3> QED BY <1>4, <3>1, <3>2
    <2>3. pc' = "push" => \A k \in 1..3 : k < turn' => <<attempt', k>> \in DOMAIN txs'
      BY <1>1, <1>2, <1>4 DEF Recorded
    <2> QED BY <1>4, <2>1, <2>2, <2>3 DEF Recorded
  <1>13. ConfirmedIsMined'
    BY <1>2 DEF ConfirmedIsMined
  <1> QED BY <1>6, <1>7, <1>9, <1>10, <1>11, <1>12, <1>13

\* The steps of tickNewBlock, and a block, change the status of rows and
\* records only as the chain warrants.
LEMMA TickKeeps ==
  ASSUME SenderInv, ConfirmUtxo \/ Rebroadcast \/ ConfirmTx \/ NewBlock
  PROVE  SenderInv'
  <1> USE DEF SenderInv
  <1>1. CASE ConfirmUtxo
    <2>1. UNCHANGED <<pc, attempt, turn, inputs, missing, txs, network, mined, done, cancelled>>
      BY <1>1 DEF ConfirmUtxo
    <2>2. \A v \in utxos' : \E u \in utxos :
            /\ v \in Rows /\ Output(v) = Output(u) /\ v.tx = u.tx /\ v.used = u.used
            /\ v.status = u.status \/ v.tx \in mined
      BY <1>1 DEF ConfirmUtxo, RowsOlder, Rows, Output
    <2>3. TypeOK'
      BY <2>1, <2>2 DEF TypeOK, Rows
    <2>4. RowsOlder' /\ InputsOlder' /\ SentStarted' /\ Apart' /\ Recorded'
      BY <2>1, <2>2 DEF RowsOlder, InputsOlder, SentStarted, Apart, Recorded, Sent, Busy
    <2>5. Locked' /\ ConfirmedIsMined'
      BY <2>1, <2>2 DEF Locked, ConfirmedIsMined, Sent
    <2> QED BY <2>3, <2>4, <2>5
  <1>2. CASE Rebroadcast
    <2>1. UNCHANGED <<pc, attempt, turn, inputs, missing, utxos, mined, done, cancelled>>
      BY <1>2 DEF Rebroadcast
    <2>2. PICK t \in DOMAIN txs : network' = network \cup {t} /\ txs' = Record(t, "unconfirmed")
      BY <1>2 DEF Rebroadcast
    <2>3. /\ DOMAIN txs' = DOMAIN txs
          /\ \A s \in DOMAIN txs : txs'[s] = IF s = t THEN "unconfirmed" ELSE txs[s]
      BY <2>2 DEF Record
    <2>4. Sent' = Sent
      BY <2>2, <2>3 DEF Sent
    <2>5. TypeOK'
      BY <2>1, <2>2, <2>3 DEF TypeOK
    <2>6. RowsOlder' /\ InputsOlder' /\ SentStarted'
      BY <2>1, <2>2, <2>3, <2>4 DEF RowsOlder, InputsOlder, SentStarted
    <2>7. Locked' /\ Apart'
      BY <2>1, <2>4 DEF Locked, Apart, Output
    <2>8. Recorded' /\ ConfirmedIsMined'
      BY <2>1, <2>2, <2>3 DEF Recorded, ConfirmedIsMined
    <2> QED BY <2>5, <2>6, <2>7, <2>8
  <1>3. CASE ConfirmTx
    <2>1. UNCHANGED <<pc, attempt, turn, inputs, missing, utxos, network, mined, done, cancelled>>
      BY <1>3 DEF ConfirmTx
    <2>2. /\ DOMAIN txs' = DOMAIN txs
          /\ \A s \in DOMAIN txs : txs'[s] = txs[s] \/ (txs'[s] = "confirmed" /\ s \in mined)
      BY <1>3 DEF ConfirmTx
    <2>3. TypeOK'
      BY <2>1, <2>2 DEF TypeOK
    <2>4. RowsOlder' /\ InputsOlder' /\ SentStarted' /\ Locked' /\ Apart'
      BY <2>1, <2>2 DEF RowsOlder, InputsOlder, SentStarted, Locked, Apart, Sent, Output
    <2>5. Recorded' /\ ConfirmedIsMined'
      BY <2>1, <2>2 DEF Recorded, ConfirmedIsMined, TypeOK
    <2> QED BY <2>3, <2>4, <2>5
  <1>4. CASE NewBlock
    <2>1. /\ UNCHANGED <<pc, attempt, turn, inputs, missing, utxos, txs, network, done, cancelled>>
          /\ mined' = network
      BY <1>4 DEF NewBlock
    <2>2. TypeOK' /\ ConfirmedIsMined'
      BY <2>1 DEF TypeOK, ConfirmedIsMined
    <2>3. RowsOlder' /\ InputsOlder' /\ SentStarted' /\ Locked' /\ Apart' /\ Recorded'
      BY <2>1 DEF RowsOlder, InputsOlder, SentStarted, Locked, Apart, Recorded, Sent, Output
    <2> QED BY <2>2, <2>3
  <1> QED BY <1>1, <1>2, <1>3, <1>4

\* The steps of createCommit that only go on or give up, and stuttering.
LEMMA WaitingKeeps ==
  ASSUME SenderInv, Sign \/ SignThrows \/ Cancel \/ UNCHANGED vars
  PROVE  SenderInv'
  <1> USE DEF SenderInv
  <1>1. /\ UNCHANGED <<attempt, turn, inputs, missing, utxos, txs, network, mined, done>>
        /\ \/ UNCHANGED pc
           \/ pc = "sign" /\ pc' \in {"push", "idle"}
    BY DEF Sign, SignThrows, Cancel, vars
  <1>2. cancelled' \in BOOLEAN /\ missing' \in BOOLEAN
    BY Zenon DEF Sign, SignThrows, Cancel, vars, TypeOK
  <1>3. TypeOK'
    <2>1. pc = "sign" => turn = 1
      BY DEF Recorded
    <2>2. (pc' = "push" => turn' <= 3) /\ pc' \in {"idle", "prepare", "sign", "push", "stopped"}
      BY <1>1, <2>1 DEF TypeOK
    <2> QED BY <1>1, <1>2, <2>2 DEF TypeOK
  <1>4. RowsOlder' /\ InputsOlder' /\ SentStarted' /\ Apart'
    BY <1>1 DEF RowsOlder, InputsOlder, SentStarted, Apart, Sent, Busy
  <1>5. Locked' /\ Recorded' /\ ConfirmedIsMined'
    BY <1>1 DEF Locked, Recorded, ConfirmedIsMined, Sent, Output
  <1> QED BY <1>3, <1>4, <1>5

\* The invariant is inductive.
LEMMA SenderInductive == SenderInv /\ [Next]_vars => SenderInv'
  <1>1. ASSUME SenderInv, Prepare \/ PrepareThrows PROVE SenderInv'
    <2>1. pc = "prepare" /\ pc' \in {"idle", "sign"}
          /\ UNCHANGED <<attempt, turn, inputs, missing, txs, network, mined, done, cancelled>>
      BY <1>1 DEF Prepare, PrepareThrows
    <2>2. \E writes \in 0..6 : utxos' = Prepared(writes) /\ (pc' = "sign" => writes = 6)
      BY <1>1 DEF Prepare, PrepareThrows
    <2> QED BY <1>1, <2>1, <2>2, PreparedKeeps
  <1>2. ASSUME SenderInv, Push \/ PushThrows \/ InsertThrows PROVE SenderInv'
    <2>1. /\ pc = "push" /\ UNCHANGED <<attempt, inputs, utxos, mined, cancelled>>
          /\ network' \in {network, network \cup {<<attempt, turn>>}}
      BY <1>2 DEF Push, PushThrows, InsertThrows
    <2>2. missing \in BOOLEAN
      BY <1>2 DEF SenderInv, TypeOK
    <2>3. \/ pc' = "idle" /\ UNCHANGED <<txs, done, turn, missing>>
          \/ \E status \in {"pending", "unconfirmed"}, fatal \in BOOLEAN :
               /\ status = "unconfirmed" => <<attempt, turn>> \in network'
               /\ txs' = Record(<<attempt, turn>>, status)
               /\ AfterPush(fatal)
      BY <1>2, <2>2, Zenon DEF Push, PushThrows, InsertThrows
    <2> QED BY <1>2, <2>1, <2>3, BroadcastKeeps
  <1> QED
    BY <1>1, <1>2, CreateCommitKeeps, TickKeeps, WaitingKeeps DEF Next, Idle

(***************************************************************************)
(* The theorems.                                                           *)
(***************************************************************************)
\* The variables of the op-sender keep their types in every behaviour.
THEOREM OpSenderTypes == Spec => []TypeOK
  <1>1. SenderInv => TypeOK
    BY DEF SenderInv
  <1> QED BY InitSender, SenderInductive, <1>1, PTL DEF Spec

\* NoDoubleSpend for any wallet and any faults: what a recorded or broadcast
\* transaction of createCommit spends was locked before, and is never chosen
\* again.
THEOREM OpSenderNeverDoubleSpends == Spec => []NoDoubleSpend
  <1>1. SenderInv => NoDoubleSpend
    <2> SUFFICES ASSUME SenderInv, NEW s \in DOMAIN txs \cup network,
                        NEW t \in DOMAIN txs \cup network, s # t
                 PROVE  Spends(s[1], s[2]) \cap Spends(t[1], t[2]) = {}
      BY DEF NoDoubleSpend
    <2> USE DEF SenderInv
    <2>1. /\ s[1] \in Sent /\ t[1] \in Sent /\ s[1] \in 1..attempt /\ t[1] \in 1..attempt
          /\ s = <<s[1], s[2]>> /\ t = <<t[1], t[2]>> /\ attempt \in Nat
      BY DEF Sent, SentStarted, TypeOK, TxIds
    <2>2. \A n, m \in 1..attempt, p, q \in Purposes :
            p # q => inputs[n][p] # inputs[m][q]
      BY DEF InputsOlder
    <2>3. CASE s[1] = t[1]
      <3>1. s[2] # t[2]
        BY <2>1, <2>3
      <3> QED BY <2>1, <2>2, <3>1 DEF Spends, Purposes
    <2>4. CASE s[1] # t[1]
      <3>1. \A p \in Purposes : inputs[s[1]][p] # inputs[t[1]][p]
        BY <2>1, <2>4 DEF Apart
      <3> QED BY <2>1, <2>2, <3>1 DEF Spends, Purposes
    <2> QED BY <2>3, <2>4
  <1> QED BY InitSender, SenderInductive, <1>1, PTL DEF Spec

\* DoneIsRecoverable for any wallet and any faults: a commit that createCommit
\* reported as made has all its transactions recorded, and those the network
\* does not know are recorded as to be broadcast again.
THEOREM DoneCommitsAreRecoverable == Spec => []DoneIsRecoverable
  <1>1. SenderInv => DoneIsRecoverable
    BY DEF SenderInv, Recorded, DoneIsRecoverable
  <1> QED BY InitSender, SenderInductive, <1>1, PTL DEF Spec

\* ConfirmedIsMined for any wallet and any faults: tickNewBlock never marks a
\* utxo or a transaction as confirmed that no block holds.
THEOREM ConfirmedRecordsAreMined == Spec => []ConfirmedIsMined
  <1>1. SenderInv => ConfirmedIsMined
    BY DEF SenderInv
  <1> QED BY InitSender, SenderInductive, <1>1, PTL DEF Spec
===============================================================================
