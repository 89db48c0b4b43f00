------------------------------ MODULE OpSender ------------------------------
(***************************************************************************)
(* domain/op-sender.ts: how a commit is paid for and brought to the chain. *)
(* createCommit takes a utxo of each of three purposes, locks them, records *)
(* the change it expects, signs three transactions and broadcasts them; a  *)
(* timer confirms utxos, broadcasts again what failed and confirms         *)
(* transactions.  Module Sequencer sees all of it as the steps "send" and  *)
(* "saveIns".                                                              *)
(*                                                                         *)
(* Transaction <<n, k>> is the k-th of attempt n (lib/tx-helpers/          *)
(* commit-helper.ts): 1 pays for the inscription from the "inscribe" utxo, *)
(* 2 inscribes, 3 sends the inscription, spending the "activate" and the   *)
(* "sequence" utxo.  Values and fees are not modelled: which of several    *)
(* utxos is the largest is left open.                                      *)
(***************************************************************************)
EXTENDS Integers, FiniteSets

CONSTANTS Funds,        \* how many utxos the wallet holds of "inscribe", "activate"
          MaxAttempts,  \* bound: calls of createCommit
          MaxFaults,    \* bound: failing writes and signatures
          MaxPushFaults \* bound: broadcasts that fail on the network

ASSUME BoundsAssumption == /\ Funds \in Nat /\ MaxAttempts \in Nat
                           /\ MaxFaults \in Nat /\ MaxPushFaults \in Nat

Purposes == {"inscribe", "activate", "sequence"}

VARIABLES
  pc,        \* where createCommit is: "idle", "prepare", "sign", "push", "stopped"
  attempt,   \* the number of the current, or last, attempt
  turn,      \* the transaction createCommit broadcasts next
  inputs,    \* the utxos each attempt spends, by purpose
  missing,   \* fatal_error: a broadcast of this attempt hit missing inputs
  utxos,     \* sequencerUtxoDao: [tx, purpose, used, status]
  txs,       \* sequencerTxDao: the status of the transactions it holds
  network,   \* the transactions the network knows
  mined,     \* those in a block
  done,      \* the attempts whose createCommit returned normally
  cancelled, \* the timers are cancelled
  faults, pushFaults  \* counters for MaxFaults and MaxPushFaults

counters == <<faults, pushFaults>>
vars == <<pc, attempt, turn, inputs, missing, utxos, txs, network, mined, done,
          cancelled, counters>>

TxIds == (0..MaxAttempts) \X (1..3)

Utxo(tx, purpose, used, status) ==
  [tx |-> tx, purpose |-> purpose, used |-> used, status |-> status]

\* What the wallet starts with, confirmed.
Funded == {<<-i, p>> : i \in 1..Funds, p \in {"inscribe", "activate"}} \cup {<<-1, "sequence">>}

Output(u) == <<u.tx, u.purpose>>

\* The transactions whose outputs transaction <<n, k>> spends.
Parents(t) ==
  LET n == t[1] IN
  CASE t[2] = 1 -> {inputs[n]["inscribe"][1]}
    [] t[2] = 2 -> {<<n, 1>>}
    [] t[2] = 3 -> {<<n, 2>>, inputs[n]["activate"][1], inputs[n]["sequence"][1]}

OnNetwork(t) == t[2] = 0 \/ t \in network

Spendable(t) == \A p \in Parents(t) : OnNetwork(p)

Init ==
  /\ pc = "idle" /\ attempt = 0 /\ turn = 1 /\ missing = FALSE
  /\ inputs = <<>>
  /\ utxos = {Utxo(<<f[1], 0>>, f[2], "unused", "confirmed") : f \in Funded}
  /\ txs = [t \in {} |-> "pending"]
  /\ network = {} /\ mined = {} /\ done = {} /\ cancelled = FALSE
  /\ faults = 0 /\ pushFaults = 0

Fault == faults < MaxFaults /\ faults' = faults + 1 /\ UNCHANGED pushFaults
PushFault == pushFaults < MaxPushFaults /\ pushFaults' = pushFaults + 1 /\ UNCHANGED faults

\* utxoA and utxoB must be confirmed, utxoC need not be.  The largest one is
\* taken: the wallet's own utxos are numbered by their value, the last one
\* being the largest, and where the change ranks among them is open.
Candidates(purpose) ==
  {u \in utxos :
     /\ u.purpose = purpose /\ u.used = "unused"
     /\ purpose = "sequence" \/ u.status = "confirmed"
     /\ u.tx[2] = 0 => \A v \in utxos :
          v.purpose = purpose /\ v.used = "unused" /\ v.tx[2] = 0 => u.tx[1] <= v.tx[1]}

CreateCommit ==
  /\ pc = "idle" /\ attempt < MaxAttempts
  /\ \E a \in Candidates("inscribe"), b \in Candidates("activate"), c \in Candidates("sequence") :
       inputs' = [n \in 1..(attempt + 1) |->
                    IF n <= attempt THEN inputs[n]
                    ELSE [p \in Purposes |-> CASE p = "inscribe" -> Output(a)
                                               [] p = "activate" -> Output(b)
                                               [] p = "sequence" -> Output(c)]]
  /\ attempt' = attempt + 1
  /\ turn' = 1 /\ missing' = FALSE
  /\ pc' = "prepare"
  /\ UNCHANGED <<utxos, txs, network, mined, done, cancelled, counters>>

\* The utxos are locked in this order, then the change is recorded in the same
\* order: six writes, the first `writes' of which succeed.
Order(purpose) == CASE purpose = "inscribe" -> 1 [] purpose = "activate" -> 2
                    [] purpose = "sequence" -> 3

ChangeTx(n, purpose) == IF purpose = "inscribe" THEN <<n, 1>> ELSE <<n, 3>>

\* Mutant: nothing is locked.
PreparedUnlocked(writes) ==
  utxos \cup {Utxo(ChangeTx(attempt, p), p, "unused", "unconfirmed") :
                p \in {q \in Purposes : Order(q) + 3 <= writes}}

Prepared(writes) ==
  LET locks(u) == Output(u) = inputs[attempt][u.purpose] /\ Order(u.purpose) <= writes
  IN  {IF locks(u) THEN [u EXCEPT !.used = "locked"] ELSE u : u \in utxos}
      \cup {Utxo(ChangeTx(attempt, p), p, "unused", "unconfirmed") :
              p \in {q \in Purposes : Order(q) + 3 <= writes}}

Prepare ==
  /\ pc = "prepare"
  /\ utxos' = Prepared(6)
  /\ pc' = "sign"
  /\ UNCHANGED <<attempt, turn, inputs, missing, txs, network, mined, done, cancelled, counters>>

\* "let's commit in next turn": nothing is unlocked.
PrepareThrows ==
  /\ pc = "prepare" /\ Fault
  /\ \E writes \in 0..5 : utxos' = Prepared(writes)
  /\ pc' = "idle"
  /\ UNCHANGED <<attempt, turn, inputs, missing, txs, network, mined, done, cancelled>>

Sign ==
  /\ pc = "sign"
  /\ pc' = "push"
  /\ UNCHANGED <<attempt, turn, inputs, missing, utxos, txs, network, mined, done, cancelled, counters>>

\* The remote wallet (signPsbtBySequencerWallet) fails.
SignThrows ==
  /\ pc = "sign" /\ Fault
  /\ pc' = "idle"
  /\ UNCHANGED <<attempt, turn, inputs, missing, utxos, txs, network, mined, done, cancelled>>

Record(t, status) ==
  [s \in DOMAIN txs \cup {t} |-> IF s = t THEN status ELSE txs[s]]

\* After the third transaction createCommit returns, or stops everything if
\* one of the broadcasts found its inputs missing.
AfterPush(fatal) ==
  /\ missing' = fatal
  /\ turn' = turn + 1
  /\ IF turn < 3 THEN UNCHANGED <<pc, done>>
     ELSE IF fatal THEN pc' = "stopped" /\ UNCHANGED done
     ELSE pc' = "idle" /\ done' = done \cup {attempt}

Push ==
  /\ pc = "push"
  /\ LET t == <<attempt, turn>> IN
     \/ /\ Spendable(t)
        /\ network' = network \cup {t}
        /\ txs' = Record(t, "unconfirmed")
        /\ AfterPush(missing)
        /\ UNCHANGED counters
     \/ /\ ~Spendable(t)
        /\ txs' = Record(t, "pending")
        /\ AfterPush(TRUE)
        /\ UNCHANGED <<network, counters>>
  /\ UNCHANGED <<attempt, inputs, utxos, mined, cancelled>>

\* Mutant: a failed broadcast is recorded as one that succeeded.
PushThrowsUnnoticed ==
  /\ pc = "push" /\ PushFault
  /\ txs' = Record(<<attempt, turn>>, "unconfirmed")
  /\ AfterPush(missing)
  /\ UNCHANGED <<attempt, inputs, utxos, network, mined, cancelled>>

\* The call fails on the way there or on the way back, and is recorded as such.
PushThrows ==
  /\ pc = "push" /\ PushFault
  /\ LET t == <<attempt, turn>> IN
     /\ network' \in {network, IF Spendable(t) THEN network \cup {t} ELSE network}
     /\ txs' = Record(t, "pending")
  /\ AfterPush(missing)
  /\ UNCHANGED <<attempt, inputs, utxos, mined, cancelled>>

\* sequencerTxDao.insert fails: the transaction may be on the network, without a
\* record of it, and "next turn" starts over with other utxos.
InsertThrows ==
  /\ pc = "push" /\ Fault
  /\ LET t == <<attempt, turn>> IN
       network' \in {network, IF Spendable(t) THEN network \cup {t} ELSE network}
  /\ pc' = "idle"
  /\ UNCHANGED <<attempt, turn, inputs, missing, utxos, txs, mined, done, cancelled>>

(***************************************************************************)
(* tickNewBlock: one action per loop, and one per turn for the loop that    *)
(* broadcasts; a turn that fails is skipped until the next block.          *)
(***************************************************************************)
ConfirmUtxo ==
  /\ ~cancelled
  /\ LET seen(u) == u.status = "unconfirmed" /\ u.tx \in mined IN
       /\ \E u \in utxos : seen(u)
       /\ utxos' = {IF seen(u) THEN [u EXCEPT !.status = "confirmed"] ELSE u : u \in utxos}
  /\ UNCHANGED <<pc, attempt, turn, inputs, missing, txs, network, mined, done, cancelled, counters>>

\* Mutant: a broadcast that is refused is taken for one that succeeded.
RebroadcastUnnoticed ==
  /\ ~cancelled
  /\ \E t \in DOMAIN txs :
       /\ txs[t] = "pending"
       /\ network' = IF Spendable(t) THEN network \cup {t} ELSE network
       /\ txs' = Record(t, "unconfirmed")
  /\ UNCHANGED <<pc, attempt, turn, inputs, missing, utxos, mined, done, cancelled, counters>>

Rebroadcast ==
  /\ ~cancelled
  /\ \E t \in DOMAIN txs :
       /\ txs[t] = "pending" /\ Spendable(t)
       /\ network' = network \cup {t}
       /\ txs' = Record(t, "unconfirmed")
  /\ UNCHANGED <<pc, attempt, turn, inputs, missing, utxos, mined, done, cancelled, counters>>

ConfirmTx ==
  /\ ~cancelled
  /\ LET seen(t) == txs[t] = "unconfirmed" /\ t \in mined IN
       /\ \E t \in DOMAIN txs : seen(t)
       /\ txs' = [t \in DOMAIN txs |-> IF seen(t) THEN "confirmed" ELSE txs[t]]
  /\ UNCHANGED <<pc, attempt, turn, inputs, missing, utxos, network, mined, done, cancelled, counters>>

\* The main timer sees the fatal error and cancels both timers.
Cancel ==
  /\ pc = "stopped" /\ ~cancelled
  /\ cancelled' = TRUE
  /\ UNCHANGED <<pc, attempt, turn, inputs, missing, utxos, txs, network, mined, done, counters>>

\* A block: it takes every transaction of the mempool.
NewBlock ==
  /\ mined # network
  /\ mined' = network
  /\ UNCHANGED <<pc, attempt, turn, inputs, missing, utxos, txs, network, done, cancelled, counters>>

\* Nothing is left to do within the bound.
Idle == /\ (pc = "stopped" /\ cancelled) \/ pc = "idle"
        /\ UNCHANGED vars

Next == \/ CreateCommit \/ Prepare \/ PrepareThrows \/ Sign \/ SignThrows \/ Push \/ PushThrows
        \/ InsertThrows \/ ConfirmUtxo \/ Rebroadcast \/ ConfirmTx \/ Cancel \/ NewBlock \/ Idle

Spec == Init /\ [][Next]_vars

\* createCommit runs to its end, the timer fires after every block until it is
\* cancelled, and blocks come.
Fairness == /\ WF_vars(Prepare \/ Sign \/ Push)
            /\ WF_vars(Rebroadcast) /\ WF_vars(ConfirmTx) /\ WF_vars(ConfirmUtxo)
            /\ WF_vars(NewBlock)

FairSpec == Spec /\ Fairness

(***************************************************************************)
(* Properties                                                              *)
(***************************************************************************)

\* The shape of the state.
TypeOK ==
  /\ pc \in {"idle", "prepare", "sign", "push", "stopped"}
  /\ attempt \in 0..MaxAttempts /\ turn \in 1..4 /\ (pc = "push" => turn <= 3)
  /\ DOMAIN inputs = 1..attempt
  /\ missing \in BOOLEAN /\ cancelled \in BOOLEAN
  /\ \A u \in utxos : /\ u.purpose \in Purposes
                      /\ u.used \in {"unused", "locked"}
                      /\ u.status \in {"unconfirmed", "confirmed"}
  /\ DOMAIN txs \subseteq TxIds
  /\ \A t \in DOMAIN txs : txs[t] \in {"pending", "unconfirmed", "confirmed"}
  /\ mined \subseteq network /\ network \subseteq TxIds
  /\ done \subseteq 1..attempt

Spends(n, k) == IF k = 1 THEN {inputs[n]["inscribe"]}
                ELSE IF k = 3 THEN {inputs[n]["activate"], inputs[n]["sequence"]} ELSE {}

\* No utxo is spent by two transactions that were both handed to the network,
\* whatever failed in between: the locks of createCommit come before its
\* broadcasts and are never released (op-sender.ts:141-174).
NoDoubleSpend ==
  \A s, t \in DOMAIN txs \cup network : s # t => Spends(s[1], s[2]) \cap Spends(t[1], t[2]) = {}

\* What the database holds as confirmed is in a block, though the two are
\* updated by different steps, in any order.
ConfirmedIsMined ==
  /\ \A u \in utxos : u.status = "confirmed" => u.tx[2] = 0 \/ u.tx \in mined
  /\ \A t \in DOMAIN txs : txs[t] = "confirmed" => t \in mined

\* A commit whose createCommit returned normally is recoverable: each of its
\* transactions is recorded, and is known to the network or waits to be
\* broadcast again.
DoneIsRecoverable ==
  \A n \in done : \A k \in 1..3 :
    /\ <<n, k>> \in DOMAIN txs
    /\ <<n, k>> \in network \/ txs[<<n, k>>] = "pending"

\* An earlier attempt failed after it had recorded its change: that change is
\* spent by a transaction that does not exist.
Phantom(n) == n \notin done /\ \E u \in utxos : u.tx[1] = n

\* A commit whose createCommit returned normally is on the chain in the end,
\* unless an attempt before it left phantom change or a later fatal error stops
\* the timers first: broadcasts that fail on the network are made up for by
\* tickNewBlock, in an order that respects their dependencies.
DoneIsMined == \A n \in 1..MaxAttempts :
  n \in done /\ (\A m \in 1..n : ~Phantom(m))
    ~> (\A k \in 1..3 : <<n, k>> \in mined) \/ cancelled

\* op-sender.ts:308 says of an attempt that failed before its broadcasts "let's
\* commit in next turn".  So as long as no broadcast fails on the network, no
\* attempt runs into missing inputs.
NextTurnCanCommit == pushFaults = 0 => pc # "stopped"
=============================================================================
