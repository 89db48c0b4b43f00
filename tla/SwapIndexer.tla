---------------------------- MODULE SwapIndexer -----------------------------
(***************************************************************************)
(* The ledger of the Go indexer (brc20_swap_index, package indexer): the   *)
(* BRC-20 balances, the swap module with its deposits, approvals,          *)
(* conditional approvals, withdrawals and commits.  One action per         *)
(* inscription and per move that ProcessUpdateLatestBRC20Loop dispatches.  *)
(*                                                                         *)
(* An inscription that is spent as fee comes back to its owner, so for     *)
(* every kind it equals a move to the owner.  A conditional approval may   *)
(* be moved any number of times, all others count once (Sequence = 1).     *)
(* Histories, the *Safe balances (a second copy for unconfirmed data) and  *)
(* the JSON of inscriptions are not modelled.                              *)
(***************************************************************************)
EXTENDS SwapCommit, Functions

CONSTANTS Active,        \* the scripts whose outputs can be spent
          Module, Burn,  \* the scripts of the module and of OP_RETURN
          SelfMint,      \* ticks of five letters
          MaxSupply, Limit,    \* [Ticks -> Nat]
          Amounts,       \* amounts inscribed
          Dests,         \* receivers of moves
          Inscribers,    \* receivers of new inscriptions
          Commits,       \* the commits: [id, parent, gas, data]
          Quota,         \* [kind -> Nat]: bound on inscriptions of a kind
          MaxIns,        \* bound on all inscriptions
          MaxMoves,      \* bound on the moves of a conditional approval
          HeightPasses,  \* whether ENABLE_SWAP_WITHDRAW_HEIGHT is reached
          Names,         \* what results name, per function: [users, lps, pools]
          Starts         \* where behaviours start: [ticks, bal, avail, swap]

\* The outputs of OP_RETURN and of the module cannot be spent.
ASSUME ScriptsAssumption ==
  /\ IsFiniteSet(Users) /\ IsFiniteSet(Ticks)
  /\ {Module, Burn} \cup Active \cup Dests \cup Inscribers \subseteq Users
  /\ {Module, Burn} \cap Active = {}
ASSUME SupplyAssumption ==
  MaxSupply \in [Ticks -> Nat] /\ Amounts \subseteq Nat
ASSUME BoundsAssumption == MaxIns \in Nat /\ MaxMoves \in Nat
ASSUME CommitsAssumption ==
  /\ \A c \in Commits : /\ c.id # NoParent /\ c.gas \in Nat
                        /\ c.data \in Seq(SwapFunctions)
  /\ \A c, d \in Commits : c.id = d.id => c = d
ASSUME NamesAssumption ==
  \A n \in Names, c \in Commits : \A k \in DOMAIN c.data :
    n[k] \in [users : SUBSET (Users \X Ticks), lps : SUBSET (Users \X Pairs), pools : SUBSET Pairs]

VARIABLES deployed, minted, burned,   \* InscriptionsTickerInfoMap
          bal, tran,                  \* AvailableBalance, TransferableBalance
          listed,                     \* TokenUsersBalanceData
          ins,                        \* the maps of inscriptions
          created, mod,               \* ModulesInfoMap
          heap, static, list, apprs,  \* the states of the transaction
          matched,                    \* how much of a transfer was matched
          enabled,                    \* BestHeight >= ENABLE_SWAP_WITHDRAW_HEIGHT
          halted                      \* the indexer panicked

tick == <<deployed, minted, burned>>
tx == <<heap, static, list, apprs, matched>>
vars == <<tick, bal, tran, listed, ins, created, mod, tx, enabled, halted>>

SumOf(F(_), S) == SumFunctionOnSet([x \in S |-> F(x)], S)

\* What was deposited, burned and minted before a start is accounted for, and
\* is of deployed ticks.
ASSUME StartsAssumption ==
  \A st \in Starts :
    /\ \A f \in {"bal", "avail", "swap"} : st[f] \in [Users -> [Ticks -> Nat]]
    /\ \A u \in Users, t \in Ticks : st.bal[u][t] > 0 => t \in st.ticks
    /\ \A t \in Ticks :
         /\ SumOf(LAMBDA u : st.bal[u][t], Users) <= MaxSupply[t]
         /\ SumOf(LAMBDA u : st.avail[u][t] + st.swap[u][t], Users) <= st.bal[Module][t]
         /\ st.bal[Burn][t] = 0

\* An empty indexer, or one whose module exists and has deposits, some of
\* which a commit has made available for approval.
Init ==
  \E st \in Starts :
    /\ deployed = st.ticks /\ created = (st.ticks # {})
    /\ bal = st.bal /\ tran = [u \in Users |-> [t \in Ticks |-> 0]]
    /\ minted = [t \in Ticks |-> SumOf(LAMBDA u : st.bal[u][t], Users)]
    /\ burned = [t \in Ticks |-> 0]
    /\ listed = {l \in Users \X Ticks : st.bal[l[1]][l[2]] > 0} /\ ins = << >>
    /\ mod = [NewModule EXCEPT !.avail = st.avail, !.swap = st.swap,
                !.dep = [t \in Ticks |->
                   SumOf(LAMBDA u : st.avail[u][t] + st.swap[u][t], Users)]]
    /\ heap = << >> /\ static = << >> /\ list = << >> /\ apprs = << >>
    /\ matched = [i \in 1..MaxIns |-> 0]
    /\ enabled = FALSE /\ halted = FALSE

\* An inscription, as the valid and invalid maps keep it: valid tells the two
\* apart, pending is the owner's own map, moves counts what was processed.
\* bal and agent are Balance and DelegatorPkScript of a conditional approval.
Inscription(kind, owner, t, amt, valid) ==
  [kind |-> kind, owner |-> owner, tick |-> t, amt |-> amt, valid |-> valid,
   pending |-> valid, moves |-> 0, bal |-> IF valid THEN amt ELSE 0,
   agent |-> "none", c |-> "none"]

CanInscribe(kind) ==
  /\ ~halted /\ Len(ins) < MaxIns
  /\ Cardinality({i \in DOMAIN ins : ins[i].kind = kind}) < Quota[kind]

\* The first move of inscription i, of the given kind.
Moves(kind, i) ==
  /\ ~halted /\ ins[i].kind = kind /\ ins[i].owner \in Active /\ ins[i].moves = 0

-----------------------------------------------------------------------------
(***************************************************************************)
(* BRC-20: deploy, mint, transfer.                                         *)
(***************************************************************************)
Deploy(t, u) ==
  /\ ~halted /\ t \notin deployed
  /\ deployed' = deployed \cup {t}
  /\ listed' = {l \in listed : l[2] # t} \cup {<<u, t>>}
  /\ UNCHANGED <<minted, burned, bal, tran, ins, created, mod, tx, enabled, halted>>

\* Mutant: the last mint is not cut to what is left.
MintedAmountUncut(t, amt) == IF minted[t] >= MaxSupply[t] THEN 0 ELSE amt

MintedAmount(t, amt) ==
  IF minted[t] + amt > MaxSupply[t] THEN MaxSupply[t] - minted[t] ELSE amt

\* A self mint also needs the deploy inscription as parent: one that has not
\* is dropped, and is not enumerated.
Mint(t, u, amt) ==
  /\ ~halted /\ t \in deployed /\ amt \in 1..Limit[t]
  /\ listed' = listed \cup {<<u, t>>}
  /\ minted' = [minted EXCEPT ![t] = @ + MintedAmount(t, amt)]
  /\ bal' = [bal EXCEPT ![u][t] = @ + MintedAmount(t, amt)]
  /\ burned' = [burned EXCEPT ![t] = IF u = Burn THEN @ + MintedAmount(t, amt) ELSE @]
  /\ UNCHANGED <<deployed, tran, ins, created, mod, tx, enabled, halted>>

InscribeTransfer(u, t, amt) ==
  LET valid == bal[u][t] >= amt IN
  /\ CanInscribe("transfer") /\ t \in deployed /\ amt \in 1..MaxSupply[t]
  /\ listed' = listed \cup {<<u, t>>}
  /\ ins' = Append(ins, Inscription("transfer", u, t, amt, valid))
  /\ bal' = [bal EXCEPT ![u][t] = IF valid THEN @ - amt ELSE @]
  /\ tran' = [tran EXCEPT ![u][t] = IF valid THEN @ + amt ELSE @]
  /\ UNCHANGED <<tick, created, mod, tx, enabled, halted>>

(***************************************************************************)
(* Conditional approvals.  Within a transaction the transfers to the owner *)
(* of an approval that moves through its agent are matched, first come     *)
(* first served: the sender of the transfer is credited in the module and  *)
(* the approval charged.  heap holds the transfer states; static, the      *)
(* indexer's, and list, the module's, hold references into it, for the Go  *)
(* code copies pointers.  An event charges approval i for the credit of    *)
(* to; rest is what the approval keeps.                                    *)
(***************************************************************************)
Event(i, to, amt, rest, from) ==
  [i |-> i, to |-> to, amt |-> amt, rest |-> rest, from |-> from]

\* Transfer h against the k-th waiting approval of the module.
ChargeApproval(r, h, k) ==
  LET a == r.apprs[k]
      got == IF a.bal <= r.left THEN a.bal ELSE r.left
  IN  IF \/ ins[a.i].tick # h.tick \/ ins[a.i].owner # h.to
         \/ a.bal = 0 \/ r.left = 0
      THEN r
      ELSE [left |-> r.left - got,
            apprs |-> [r.apprs EXCEPT ![k].bal = @ - got],
            events |-> Append(r.events, Event(a.i, h.from, got, a.bal - got, h.ins))]

MatchTransfer(h) ==
  LET run[k \in 0..Len(apprs)] ==
        IF k = 0 THEN [left |-> h.bal, apprs |-> apprs, events |-> << >>]
        ELSE ChargeApproval(run[k - 1], h, k)
  IN  run[Len(apprs)]

\* Mutant: the module gets copies of the transfer states, not references.
SpendTransferCopied(r, i, k) ==
  LET h == r.heap[k]
      got == IF h.bal <= r.left THEN h.bal ELSE r.left
  IN  IF \/ r.left = 0 \/ h.tick # ins[i].tick \/ h.to # ins[i].owner \/ h.bal = 0
      THEN r
      ELSE [r EXCEPT !.left = @ - got,
                     !.events = Append(@, Event(i, h.from, got, r.left - got, h.ins))]

\* Approval i against the transfer state at k.
SpendTransfer(r, i, k) ==
  LET h == r.heap[k]
      got == IF h.bal <= r.left THEN h.bal ELSE r.left
  IN  IF \/ r.left = 0 \/ h.tick # ins[i].tick \/ h.to # ins[i].owner \/ h.bal = 0
      THEN r
      ELSE [left |-> r.left - got,
            heap |-> [r.heap EXCEPT ![k].bal = @ - got],
            events |-> Append(r.events, Event(i, h.from, got, r.left - got, h.ins))]

\* The transfers an approval is held against: those of the whole transaction
\* while no approval waits.
Candidates == IF apprs = << >> THEN static ELSE list

MatchApproval(i) ==
  LET run[k \in 0..Len(Candidates)] ==
        IF k = 0 THEN [left |-> ins[i].bal, heap |-> heap, events |-> << >>]
        ELSE SpendTransfer(run[k - 1], i, Candidates[k])
  IN  run[Len(Candidates)]

\* Mutant: cancelled approvals are not counted as such.
BookEventAsMatch(m, e) ==
  LET o == ins[e.i].owner  t == ins[e.i].tick
  IN  [m EXCEPT !.cond[o][t] = @ - e.amt, !.swap[e.to][t] = @ + e.amt,
                !.okAppr[t] = IF o = e.to THEN @ ELSE @ + e.amt]

BookEvent(m, e) ==
  LET o == ins[e.i].owner  t == ins[e.i].tick
  IN  [m EXCEPT !.cond[o][t] = @ - e.amt, !.swap[e.to][t] = @ + e.amt,
                !.cancel[t] = IF o = e.to THEN @ + e.amt ELSE @,
                !.okAppr[t] = IF o = e.to THEN @ ELSE @ + e.amt]

\* ProcessConditionalApproveEvents: the balances, event by event.
BookEvents(m, events) ==
  LET booked[k \in 0..Len(events)] ==
        IF k = 0 THEN m ELSE BookEvent(booked[k - 1], events[k])
  IN  booked[Len(events)]

\* An approval keeps what the last event that charged it left.
RestOf(approvals, events) ==
  [j \in DOMAIN approvals |->
     LET charges == {k \in DOMAIN events : events[k].i = j}
         last == CHOOSE k \in charges : \A l \in charges : l <= k
     IN  IF charges = {} THEN approvals[j]
         ELSE [approvals[j] EXCEPT !.bal = events[last].rest]]

MatchedBy(events) ==
  [i \in DOMAIN matched |->
     matched[i] + SumOf(LAMBDA k : events[k].amt, {k \in DOMAIN events : events[k].from = i})]

\* A valid transfer leaves its owner, is credited to the receiver, may settle
\* waiting approvals and, at the module, becomes a deposit of the sender.
MoveTransfer(i, to) ==
  LET x == ins[i]
      h == [from |-> x.owner, to |-> to, tick |-> x.tick, bal |-> x.amt, ins |-> i]
      r == MatchTransfer(h)
      seen == x.tick \notin SelfMint /\ ~enabled
      waits == created /\ apprs # << >>
      events == IF seen /\ waits THEN r.events ELSE << >>
      paid == BookEvents(mod, events)
      moved == [ins EXCEPT ![i].moves = 1, ![i].pending = FALSE]
  IN
  /\ Moves("transfer", i)
  /\ IF ~x.valid
     THEN /\ ins' = [ins EXCEPT ![i].moves = 1]
          /\ UNCHANGED <<bal, tran, listed, burned, mod, tx>>
     ELSE /\ ins' = RestOf(moved, events)
          /\ tran' = [tran EXCEPT ![x.owner][x.tick] = @ - x.amt]
          /\ bal' = [bal EXCEPT ![to][x.tick] = @ + x.amt]
          /\ listed' = listed \cup {<<to, x.tick>>}
          /\ burned' = [burned EXCEPT ![x.tick] = IF to = Burn THEN @ + x.amt ELSE @]
          /\ mod' = IF to = Module /\ created /\ x.tick \notin SelfMint
                    THEN [paid EXCEPT !.swap[x.owner][x.tick] = @ + x.amt,
                                      !.dep[x.tick] = @ + x.amt]
                    ELSE paid
          /\ matched' = MatchedBy(events)
          /\ static' = IF seen THEN Append(static, Len(heap) + 1) ELSE static
          /\ heap' = IF ~seen THEN heap
                     ELSE IF waits /\ r.left > 0
                     THEN heap \o <<h, [h EXCEPT !.bal = r.left]>>
                     ELSE Append(heap, h)
          /\ list' = IF seen /\ waits /\ r.left > 0 THEN Append(list, Len(heap) + 2) ELSE list
          /\ apprs' = IF seen /\ waits THEN r.apprs ELSE apprs
  /\ UNCHANGED <<deployed, minted, created, enabled, halted>>

-----------------------------------------------------------------------------
(***************************************************************************)
(* The module.  Approvals and withdrawals need a tick of four letters (a   *)
(* self-minted one has five); withdrawals accept both.                     *)
(***************************************************************************)
CreateModule ==
  /\ ~halted /\ ~created /\ GasTick \in deployed
  /\ created' = TRUE
  /\ UNCHANGED <<tick, bal, tran, listed, ins, mod, tx, enabled, halted>>

CanApprove(kind, t, amt) ==
  CanInscribe(kind) /\ created /\ t \in deployed \ SelfMint /\ amt \in 1..MaxSupply[t]

HasAvailable(u, t, amt) == mod.avail[u][t] >= amt

ApprovedFrom(u, t, amt) ==
  [mod EXCEPT !.avail[u][t] = @ - amt, !.appr[u][t] = @ + amt]

InscribeApprove(u, t, amt) ==
  LET valid == HasAvailable(u, t, amt) IN
  /\ CanApprove("approve", t, amt)
  /\ ins' = Append(ins, Inscription("approve", u, t, amt, valid))
  /\ mod' = IF valid THEN ApprovedFrom(u, t, amt) ELSE mod
  /\ UNCHANGED <<tick, bal, tran, listed, created, tx, enabled, halted>>

\* An approval that was invalid, or moved before, is not in its owner's map.
MoveApprove(i, to) ==
  LET x == ins[i] IN
  /\ Moves("approve", i)
  /\ ins' = [ins EXCEPT ![i].moves = 1, ![i].pending = FALSE]
  /\ mod' = IF x.pending
            THEN [mod EXCEPT !.appr[x.owner][x.tick] = @ - x.amt,
                             !.swap[to][x.tick] = @ + x.amt]
            ELSE mod
  /\ UNCHANGED <<tick, bal, tran, listed, created, tx, enabled, halted>>

\* Mutant: the approval is taken from the swap balance.
InscribeConditionalApproveFromSwap(u, t, amt) ==
  LET valid == mod.swap[u][t] >= amt IN
  /\ CanApprove("cond", t, amt) /\ ~enabled
  /\ ins' = Append(ins, Inscription("cond", u, t, amt, valid))
  /\ mod' = IF valid
            THEN [mod EXCEPT !.swap[u][t] = @ - amt, !.cond[u][t] = @ + amt,
                             !.newAppr[t] = @ + amt]
            ELSE mod
  /\ UNCHANGED <<tick, bal, tran, listed, created, tx, enabled, halted>>

InscribeConditionalApprove(u, t, amt) ==
  LET valid == HasAvailable(u, t, amt) IN
  /\ CanApprove("cond", t, amt) /\ ~enabled
  /\ ins' = Append(ins, Inscription("cond", u, t, amt, valid))
  /\ mod' = IF valid
            THEN [mod EXCEPT !.avail[u][t] = @ - amt, !.cond[u][t] = @ + amt,
                             !.newAppr[t] = @ + amt]
            ELSE mod
  /\ UNCHANGED <<tick, bal, tran, listed, created, tx, enabled, halted>>

\* The first move appoints the receiver as agent, or refunds the owner; later
\* ones scan the transaction when the agent sends to itself and refund
\* otherwise.  Not looked at from the height on, nor when invalid.  A
\* transaction moves an inscription once: one that waits has moved.
MoveConditionalApprove(i, to) ==
  LET x == ins[i]
      refunds == IF x.moves = 0 THEN to = x.owner ELSE to # x.agent
      appoints == x.moves = 0 /\ to # x.owner
      r == MatchApproval(i)
      events == IF refunds THEN <<Event(i, x.owner, x.bal, 0, 0)>>
                ELSE IF appoints THEN << >> ELSE r.events
      scans == ~refunds /\ ~appoints
  IN
  /\ ~halted /\ ~enabled /\ x.kind = "cond" /\ x.valid
  /\ (IF x.agent = "none" THEN x.owner ELSE x.agent) \in Active
  /\ x.moves < MaxMoves /\ \A k \in DOMAIN apprs : apprs[k].i # i
  /\ ins' = RestOf([ins EXCEPT ![i].moves = @ + 1,
                               ![i].agent = IF appoints THEN to ELSE @], events)
  /\ mod' = BookEvents(mod, events)
  /\ matched' = MatchedBy(events)
  /\ heap' = IF scans THEN r.heap ELSE heap
  /\ list' = IF scans THEN Candidates ELSE list
  /\ apprs' = IF scans /\ r.left > 0 THEN Append(apprs, [i |-> i, bal |-> r.left]) ELSE apprs
  /\ UNCHANGED <<tick, bal, tran, listed, created, static, enabled, halted>>

\* No balance is looked at: ReadyToWithdrawAmount only announces.
InscribeWithdraw(u, t, amt) ==
  /\ CanInscribe("withdraw") /\ created /\ enabled
  /\ t \in deployed /\ amt \in 1..MaxSupply[t]
  /\ ins' = Append(ins, Inscription("withdraw", u, t, amt, TRUE))
  /\ mod' = [mod EXCEPT !.ready[u][t] = @ + amt]
  /\ UNCHANGED <<tick, bal, tran, listed, created, tx, enabled, halted>>

\* InscriptionsWithdrawRemoveMap is never allocated: writing to it panics.
MoveWithdraw(i) ==
  /\ Moves("withdraw", i)
  /\ halted' = TRUE
  /\ UNCHANGED <<tick, bal, tran, listed, ins, created, mod, tx, enabled>>

-----------------------------------------------------------------------------
(***************************************************************************)
(* Commits.                                                                *)
(***************************************************************************)
\* The ticks of a function exist, those of a new pool differ (one tick written
\* in two ways is not enumerated), and it has the parameters of the height.
PreVerifiedFunction(f, height, ticks) ==
  /\ f.fn # "sendLp" => Pair(f) \subseteq ticks
  /\ f.fn = "deployPool" => f.t0 # f.t1
  /\ f.fn \in {"addLiq", "removeLiq", "swap"} => f.fmt = IF height THEN "new" ELSE "old"

\* The gas tick exists, too.
PreVerified(c, height, ticks) ==
  GasTick \in ticks /\ \A k \in DOMAIN c.data : PreVerifiedFunction(c.data[k], height, ticks)

InscribeCommit(c, u) ==
  LET ok == u = Sequencer /\ PreVerified(c, enabled, deployed) IN
  /\ CanInscribe("commit") /\ created
  /\ \A i \in DOMAIN ins : ins[i].c # c.id
  /\ ins' = Append(ins, [Inscription("commit", u, GasTick, 0, ok) EXCEPT !.c = c.id])
  /\ mod' = [mod EXCEPT !.invalid = IF ok THEN @ ELSE @ \cup {c.id}]
  /\ UNCHANGED <<tick, bal, tran, listed, created, tx, enabled, halted>>

CommitOf(id) == CHOOSE c \in Commits : c.id = id

\* Only a commit that was valid when inscribed is found; it must reach the
\* module.
MoveCommit(i, to) ==
  LET r == ProcessCommit(mod, CommitOf(ins[i].c), ins[i].owner, enabled) IN
  /\ Moves("commit", i) /\ ins[i].valid
  /\ ins' = [ins EXCEPT ![i].moves = 1]
  /\ IF to # Module THEN UNCHANGED <<mod, halted>>
     ELSE IF r.st = "panic" THEN halted' = TRUE /\ UNCHANGED mod
     ELSE mod' = r.m /\ UNCHANGED halted
  /\ UNCHANGED <<tick, bal, tran, listed, created, tx, enabled>>

\* The commits that were inscribed and not moved, InscriptionsValidCommitMapById.
WaitingIds ==
  {ins[i].c : i \in {j \in DOMAIN ins : ins[j].kind = "commit" /\ ins[j].valid /\ ins[j].moves = 0}}

-----------------------------------------------------------------------------
(***************************************************************************)
(* The verification service, which the sequencer asks about a commit       *)
(* before it accepts a function and before it inscribes.  A call brings    *)
(* the commit, some of its ancestors and, for each function, the balances  *)
(* that are expected after it.  CherryPick copies the module and the       *)
(* waiting commits, and of the ticks the gas tick and those that the       *)
(* results name.  A result has the swap balances of users and ticks, the   *)
(* LP of users and pairs, and the reserves and LP of pools, the ticks of   *)
(* which are written as their deployer wrote them.                         *)
(***************************************************************************)
Copy == [ticks |-> deployed, created |-> created, mod |-> mod, waiting |-> WaitingIds]

NamedTicks(results) ==
  UNION {{x[2] : x \in DOMAIN results[k].swap} \cup UNION DOMAIN results[k].pools
           : k \in DOMAIN results}

PickedFor(g, results) == g.ticks \cap ({GasTick} \cup (NamedTicks(results) \ SelfMint))

\* BRC20ResultsPreVerify
ResultMatches(m, result, ticks) ==
  /\ \A x \in DOMAIN result.swap :
       x[2] \in ticks \ SelfMint /\ m.swap[x[1]][x[2]] = result.swap[x]
  /\ \A x \in DOMAIN result.lp :
       /\ x[2] \subseteq ticks \ SelfMint /\ x[2] \in m.pools
       /\ m.lpOfPool[x[2]][x[1]] = result.lp[x]
  /\ \A p \in DOMAIN result.pools :
       /\ p \subseteq ticks \ SelfMint /\ p \in m.pools
       /\ result.pools[p] = [res |-> m.res[p], lp |-> m.lp[p]]

\* ProcessCommitCheck: an ancestor is run on the copy, which knows no height.
ProcessCommitCheck(r, c, ticks) ==
  IF r.st # "ok" THEN r
  ELSE Chained(ProcessCommitVerify(r.m, c, [enabled |-> FALSE, known |-> ticks]), c)

\* What commit d is run on: the module, after the ancestors of d that were not
\* executed.  There are no more than MaxIns of them, and their bodies are known.
Rehearsed(m, bodies, ticks) ==
  LET run[k \in 0..MaxIns] ==
        [d \in Commits |->
           IF d.parent = NoParent \/ d.parent \in m.ids THEN Ok(m)
           ELSE IF k = 0 \/ d.parent \notin bodies THEN [st |-> "missing", m |-> m]
           ELSE ProcessCommitCheck(run[k - 1][CommitOf(d.parent)], CommitOf(d.parent), ticks)]
  IN  run[MaxIns]

\* How a call is answered.  A call that is not valid is critical when the commit
\* or an ancestor is at fault, not when a body is missing or a result differs.
Answer(st) == CASE st = "err" -> "critical" [] st = "panic" -> "panic" [] OTHER -> "invalid"

\* ProcessCommitVerify with results: every function is run and then compared;
\* the first that fails decides.
Passes(r, result, ticks) == r.st = "ok" /\ ResultMatches(r.m, result, ticks)

Failed(run, c, results, ticks) == {k \in DOMAIN c.data : ~Passes(run[k], results[k], ticks)}

VerifyResults(m, c, results, ticks) ==
  LET run == Run(m, c, [enabled |-> FALSE, known |-> ticks])
      failed == Failed(run, c, results, ticks)
      first == CHOOSE k \in failed : \A j \in failed : k <= j
  IN  IF ~ParentOk(m, c) THEN "critical"
      ELSE IF failed = {} THEN "valid"
      ELSE Answer(run[first].st)

\* BRC20ModuleVerifySwapCommitContent, for a call that brings the bodies given.
VerifySwapCommitContent(g, c, given, results) ==
  LET ticks == PickedFor(g, results)
      before == Rehearsed(g.mod, g.waiting \cup given, ticks)[c]
  IN  IF Len(results) # Len(c.data) THEN "invalid"
      ELSE IF ~g.created \/ ~PreVerified(c, FALSE, ticks) THEN "critical"
      ELSE IF before.st # "ok" THEN Answer(before.st)
      ELSE VerifyResults(before.m, c, results, ticks)

-----------------------------------------------------------------------------
ClearTx == heap' = << >> /\ static' = << >> /\ list' = << >> /\ apprs' = << >>

\* The next event belongs to another transaction.
NextTx ==
  /\ ~halted /\ heap \o static \o list \o apprs # << >>
  /\ ClearTx
  /\ UNCHANGED <<tick, bal, tran, listed, ins, created, mod, matched, enabled, halted>>

Unlisted == {l \in listed : bal[l[1]][l[2]] = 0 /\ tran[l[1]][l[2]] = 0}

\* The loop ends with the block: holders without balance leave the list.
EndBlock ==
  /\ ~halted
  /\ listed' = listed \ Unlisted
  /\ ClearTx
  /\ \E h \in {enabled} \cup (IF HeightPasses THEN {TRUE} ELSE {}) : enabled' = h
  /\ UNCHANGED <<tick, bal, tran, ins, created, mod, matched, halted>>

Next ==
  \/ \E t \in Ticks, u \in Inscribers : Deploy(t, u)
  \/ \E t \in Ticks, u \in Inscribers, a \in Amounts : Mint(t, u, a)
  \/ \E t \in Ticks, u \in Inscribers, a \in Amounts : InscribeTransfer(u, t, a)
  \/ \E i \in DOMAIN ins, to \in Dests : MoveTransfer(i, to)
  \/ CreateModule
  \/ \E t \in Ticks, u \in Inscribers, a \in Amounts : InscribeApprove(u, t, a)
  \/ \E i \in DOMAIN ins, to \in Dests : MoveApprove(i, to)
  \/ \E t \in Ticks, u \in Inscribers, a \in Amounts : InscribeConditionalApprove(u, t, a)
  \/ \E i \in DOMAIN ins, to \in Dests : MoveConditionalApprove(i, to)
  \/ \E t \in Ticks, u \in Inscribers, a \in Amounts : InscribeWithdraw(u, t, a)
  \/ \E i \in DOMAIN ins : MoveWithdraw(i)
  \/ \E c \in Commits, u \in Inscribers : InscribeCommit(c, u)
  \/ \E i \in DOMAIN ins, to \in Dests : MoveCommit(i, to)
  \/ NextTx
  \/ EndBlock

Spec == Init /\ [][Next]_vars
-----------------------------------------------------------------------------
(***************************************************************************)
(* Properties.                                                             *)
(***************************************************************************)
TypeOK ==
  /\ bal \in [Users -> [Ticks -> Nat]] /\ tran \in [Users -> [Ticks -> Nat]]
  /\ \A f \in {"avail", "appr", "cond", "ready"} : mod[f] \in [Users -> [Ticks -> Nat]]
  /\ listed \subseteq Users \X deployed
  /\ mod.pools \subseteq Pairs /\ \A p \in Pairs : mod.res[p] \in [Ticks -> Nat]

\* Nothing is lost or made up by mints, transfers, self transfers and burns:
\* the balances of a tick add up to what was minted, never more than its
\* maximum, and Burned is what OP_RETURN holds.
SupplyIsHeld ==
  \A t \in Ticks :
    /\ SumOf(LAMBDA u : bal[u][t] + tran[u][t], Users) = minted[t]
    /\ minted[t] <= MaxSupply[t]
    /\ burned[t] = bal[Burn][t] + tran[Burn][t]

Liabilities(m, t) ==
  SumOf(LAMBDA u : m.swap[u][t] + m.avail[u][t] + m.appr[u][t] + m.cond[u][t], Users)
  + SumOf(LAMBDA p : m.res[p][t], Pairs)

\* Everything the module owes its users and pools in a tick was deposited, and
\* the module's script still holds it, whatever commits, approvals and matches
\* (also failed ones) did in between.
ModuleBacked ==
  \A t \in Ticks :
    /\ Liabilities(mod, t) = mod.dep[t]
    /\ mod.dep[t] <= bal[Module][t] + tran[Module][t]

Pending(kind, u, t) ==
  {i \in DOMAIN ins : /\ ins[i].kind = kind /\ ins[i].pending
                      /\ ins[i].owner = u /\ ins[i].tick = t}

\* The aggregate balances of an owner agree with the inscriptions they stand
\* for, so that each of these can still be moved once for its full amount; the
\* totals of conditional approvals agree with both (the equation noted at
\* BRC20ModuleConditionalApproveStateBalance).
PendingIsBacked ==
  \A t \in Ticks :
    /\ \A u \in Users :
         /\ tran[u][t] = SumOf(LAMBDA i : ins[i].amt, Pending("transfer", u, t))
         /\ mod.appr[u][t] = SumOf(LAMBDA i : ins[i].amt, Pending("approve", u, t))
         /\ mod.cond[u][t] = SumOf(LAMBDA i : ins[i].bal, Pending("cond", u, t))
    /\ mod.newAppr[t] - mod.cancel[t] - mod.okAppr[t]
         = SumOf(LAMBDA u : mod.cond[u][t], Users)

\* One transfer settles approvals for at most its amount, in whatever order
\* transfers and approvals appear in the transaction.
MatchedAtMostOnce == \A i \in DOMAIN ins : matched[i] <= ins[i].amt

\* No balance is negative, and whoever holds something of a tick is in the list
\* of its holders, though a deploy starts that list anew and every block prunes
\* it.
HoldersAreListed ==
  \A u \in Users, t \in Ticks :
    /\ bal[u][t] >= 0 /\ tran[u][t] >= 0
    /\ bal[u][t] + tran[u][t] > 0 => <<u, t>> \in listed

\* The two maps of LP balances agree, for removeLiq and sendLp refuse to work
\* when they do not, and add up to the LP of the pool.
LpMapsAgree ==
  \A p \in Pairs :
    /\ \A u \in Users : mod.lpOfPool[p][u] = mod.lpOfUser[u][p] /\ mod.lpOfPool[p][u] >= 0
    /\ SumOf(LAMBDA u : mod.lpOfPool[p][u], Users) = mod.lp[p]

\* A pool with LP keeps both reserves and never falls behind the root K the
\* service fee is measured from: the fee is never negative and never divides
\* by 0.
PoolKeepsValue ==
  \A p \in mod.pools :
    mod.lp[p] > 0 => /\ \A t \in p : mod.res[p][t] > 0
                     /\ RootK(mod, p) >= mod.lastK[p] /\ mod.lastK[p] > 0

\* A commit that is not accepted leaves no trace but its id in
\* CommitInvalidMap ("Need to cherrypick, then verify on the copy. ... Execute
\* in reality if successful.").
CommitIsAtomic ==
  [][ mod'.invalid # mod.invalid /\ mod'.ids = mod.ids
        => [mod' EXCEPT !.invalid = {}] = [mod EXCEPT !.invalid = {}] ]_vars

\* The pools a commit deploys have two ticks.
PoolsDiffer(c) == \A k \in 1..Len(c.data) : c.data[k].fn = "deployPool" => c.data[k].t0 # c.data[k].t1

\* The bodies that a call brings.
Bodies == {d.id : d \in {c \in Commits : PoolsDiffer(c)}}

\* What a run of c on copy g gives at the entries that n names per function.
Read(m, entries) ==
  [swap |-> [x \in entries.users |-> m.swap[x[1]][x[2]]],
   lp |-> [x \in entries.lps |-> m.lpOfPool[x[2]][x[1]]],
   pools |-> [p \in entries.pools |-> [res |-> m.res[p], lp |-> m.lp[p]]]]

ResultsOn(g, c, given, n) ==
  LET ticks == PickedFor(g, [k \in DOMAIN c.data |-> Read(NewModule, n[k])])
      m == Rehearsed(g.mod, g.waiting \cup given, ticks)[c].m
      run == Run(m, c, [enabled |-> FALSE, known |-> ticks])
  IN  [k \in DOMAIN c.data |-> Read(run[k].m, n[k])]

Credited(c, n) ==
  \E k \in DOMAIN c.data : \E x \in n[k].users : mod'.swap[x[1]][x[2]] # mod.swap[x[1]][x[2]]

\* While no commit moves, a call that the verification service answered with
\* valid never becomes critical, whatever deposits, approvals, conditional
\* approvals, deploys and commits the indexer sees in between: no user loses
\* what the commit spends.  The same call is refused, as invalid, exactly when
\* a swap balance that its results name was credited.
VerifiedStaysGood ==
  [][ Copy' # Copy /\ (\A i \in DOMAIN ins :
                          ins[i].kind = "commit" => ins'[i].moves = ins[i].moves) =>
        \A c \in Commits, given \in SUBSET Bodies, n \in Names :
          LET results == ResultsOn(Copy, c, given, n) IN
          VerifySwapCommitContent(Copy, c, given, results) = "valid" =>
            VerifySwapCommitContent(Copy', c, given, results)
              = IF Credited(c, n) THEN "invalid" ELSE "valid" ]_vars

\* The chain of commits: its head is the one accepted commit nobody continued.
Head1 == LET tips == mod.ids \ mod.chain
         IN  IF mod.ids = {} THEN NoParent
             ELSE IF Cardinality(tips) = 1 THEN CHOOSE c \in tips : TRUE ELSE "forked"
PoolState(m) == <<m.pools, m.res, m.lp>>
Log == INSTANCE CommitLog WITH
         Ids <- {c.id : c \in Commits}, Root <- NoParent,
         NoPools <- PoolState(NewModule), head <- Head1,
         settled <- mod.ids \cap mod.chain, pools <- PoolState(mod)

\* The commits of the module behave as the abstract chain: one head, each
\* accepted commit continues it, and pools change with it only.
CommitsFormOneChain == Log!Spec
=============================================================================
