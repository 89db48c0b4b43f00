------------------------- MODULE SwapIndexerInvariants ----------------------
(***************************************************************************)
(* What the proofs about module SwapIndexer say of its states and steps:   *)
(* the types, the inductive invariants with their parts, and the relations *)
(* between the modules before and after a step.  The sections are those of *)
(* SwapIndexerProofs.                                                      *)
(***************************************************************************)
EXTENDS SwapIndexer

(***************************************************************************)
(* The recursive functions of the model unfold: matching, booking and the  *)
(* run of a commit.                                                        *)
(***************************************************************************)
\* g matches transfer h against the first j waiting approvals.
MatchesTransfer(g, h, j) ==
  g = [k \in 0..j |-> IF k = 0 THEN [left |-> h.bal, apprs |-> apprs, events |-> << >>]
                      ELSE ChargeApproval(g[k - 1], h, k)]

TransferRun(h) == CHOOSE g : MatchesTransfer(g, h, Len(apprs))

\* g matches approval i against the first j candidates.
MatchesApproval(g, i, j) ==
  g = [k \in 0..j |-> IF k = 0 THEN [left |-> ins[i].bal, heap |-> heap, events |-> << >>]
                      ELSE SpendTransfer(g[k - 1], i, Candidates[k])]

ApprovalRun(i) == CHOOSE g : MatchesApproval(g, i, Len(Candidates))

\* g books the first j events.
Books(g, m, events, j) ==
  g = [k \in 0..j |-> IF k = 0 THEN m
                      ELSE BookEvent(g[k - 1], events[k])]

BookRun(m, events) == CHOOSE g : Books(g, m, events, Len(events))

\* g runs the first j functions of commit c.
Runs(g, m, c, e, j) ==
  g = [k \in 0..j |-> IF k = 0 THEN Ok(m)
                      ELSE RunFunction(g[k - 1], c.data[k], c.gas, e)]

CommitRun(m, c, e) == CHOOSE g : Runs(g, m, c, e, Len(c.data))

-----------------------------------------------------------------------------
(***************************************************************************)
(* Types.                                                                  *)
(***************************************************************************)
Kinds == {"transfer", "approve", "cond", "withdraw", "commit"}
CommitIds == {c.id : c \in Commits}

Inscriptions ==
  [kind : Kinds, owner : Users, tick : Ticks, amt : Nat, valid : BOOLEAN, pending : BOOLEAN,
   moves : Nat, bal : Nat, agent : Users \cup {"none"}, c : CommitIds \cup {"none"}]

TransferStates == [from : Users, to : Users, tick : Ticks, bal : Nat, ins : Nat]
ApproveStates == [i : Nat, bal : Nat]
Events == [i : Nat, to : Users, amt : Nat, rest : Nat, from : Nat]

\* What the events settle of transfer i.
AmtFrom(events, i) ==
  SumFunctionOnSet([k \in {l \in DOMAIN events : events[l].from = i} |-> events[k].amt],
                   {l \in DOMAIN events : events[l].from = i})

-----------------------------------------------------------------------------
(***************************************************************************)
(* A transfer against the waiting approvals.                               *)
(***************************************************************************)
\* No approval waits twice.
WaitOnce == \A k, l \in DOMAIN apprs : apprs[k].i = apprs[l].i => k = l

\* Transfer h was held against the first k approvals: an approval is charged
\* once, and what the events settle is what h has lost.
TransferMatched(h, r, k) ==
  /\ r.left \in Nat /\ r.apprs \in Seq(ApproveStates) /\ r.events \in Seq(Events)
  /\ Len(r.apprs) = Len(apprs)
  /\ \A q \in 1..Len(apprs) :
       /\ r.apprs[q].i = apprs[q].i
       /\ q > k => r.apprs[q].bal = apprs[q].bal
       /\ (\A a \in 1..Len(r.events) : r.events[a].i # apprs[q].i)
            => r.apprs[q].bal = apprs[q].bal
  /\ \A a \in 1..Len(r.events) :
       /\ r.events[a].from = h.ins /\ r.events[a].to = h.from
       /\ \E q \in 1..k : /\ q \in 1..Len(apprs) /\ r.events[a].i = apprs[q].i
                         /\ r.events[a].rest = r.apprs[q].bal
                         /\ r.events[a].rest = apprs[q].bal - r.events[a].amt
  /\ \A a, b \in 1..Len(r.events) : r.events[a].i = r.events[b].i => a = b
  /\ AmtFrom(r.events, h.ins) + r.left = h.bal

-----------------------------------------------------------------------------
(***************************************************************************)
(* An approval against the transfers of the transaction.                   *)
(***************************************************************************)
\* The candidates are states of different transfers.
CandidatesDiffer ==
  /\ Candidates \in Seq(Nat)
  /\ \A k \in DOMAIN Candidates : Candidates[k] \in 1..Len(heap)
  /\ \A k, l \in DOMAIN Candidates :
       heap[Candidates[k]].ins = heap[Candidates[l]].ins => k = l

\* Approval i was held against some of the candidates: each event charges it
\* for what the transfer it names has lost.
ApprovalMatched(i, r) ==
  /\ r.left \in Nat /\ r.heap \in Seq(TransferStates) /\ r.events \in Seq(Events)
  /\ Len(r.heap) = Len(heap)
  /\ \A q \in 1..Len(heap) : r.heap[q].ins = heap[q].ins
  /\ \A l \in 1..Len(Candidates) :
       r.heap[Candidates[l]].bal + AmtFrom(r.events, heap[Candidates[l]].ins)
         = heap[Candidates[l]].bal
  /\ \A j \in Nat : (\A l \in 1..Len(Candidates) : heap[Candidates[l]].ins # j)
                     => AmtFrom(r.events, j) = 0
  /\ \A a \in 1..Len(r.events) :
       /\ r.events[a].i = i
       /\ r.events[a].rest = (IF a = 1 THEN ins[i].bal ELSE r.events[a - 1].rest) - r.events[a].amt
  /\ r.left = IF Len(r.events) = 0 THEN ins[i].bal ELSE r.events[Len(r.events)].rest

-----------------------------------------------------------------------------
(***************************************************************************)
(* Booking: what the events do to the balances of the module.              *)
(***************************************************************************)
Balances == [Users -> [Ticks -> Int]]
Totals == [Ticks -> Int]

Modules ==
  [swap : Balances, avail : Balances, appr : Balances, cond : Balances, ready : Balances,
   dep : Totals, newAppr : Totals, okAppr : Totals, cancel : Totals,
   pools : SUBSET Pairs, tick0 : [Pairs -> Ticks], res : [Pairs -> [Ticks -> Nat]],
   lp : [Pairs -> Nat], lastK : [Pairs -> Nat], lpOfPool : [Pairs -> [Users -> Int]],
   lpOfUser : [Users -> [Pairs -> Int]], lpUsers : SUBSET Users,
   ids : SUBSET CommitIds, chain : SUBSET {c.parent : c \in Commits}, invalid : SUBSET CommitIds]

\* The pools and the commits of the module.
KeepsPools(m, n) ==
  /\ n.pools = m.pools /\ n.tick0 = m.tick0 /\ n.res = m.res /\ n.lp = m.lp
  /\ n.lastK = m.lastK /\ n.lpOfPool = m.lpOfPool /\ n.lpOfUser = m.lpOfUser
  /\ n.lpUsers = m.lpUsers

KeepsChain(m, n) == n.ids = m.ids /\ n.chain = m.chain /\ n.invalid = m.invalid

\* What approval j keeps after the first k events.
Charges(events, k, j) == {q \in 1..k : events[q].i = j}

LastOf(S) == CHOOSE q \in S : \A l \in S : l <= q

RestAfter(events, k, j) ==
  IF Charges(events, k, j) = {} THEN ins[j].bal
  ELSE events[LastOf(Charges(events, k, j))].rest

\* Events that charge approvals, each from what the one before left.
Sound(events) ==
  /\ events \in Seq(Events)
  /\ \A k \in 1..Len(events) :
       /\ events[k].i \in DOMAIN ins /\ ins[events[k].i].kind = "cond"
       /\ ins[events[k].i].pending
       /\ events[k].rest = RestAfter(events, k - 1, events[k].i) - events[k].amt

OwedTo(m, t) ==
  [u \in Users |-> m.swap[u][t] + m.avail[u][t] + m.appr[u][t] + m.cond[u][t]]

InPools(m, t) == [p \in Pairs |-> m.res[p][t]]
CondOf(m, t) == [u \in Users |-> m.cond[u][t]]
RestsOf(events, k, u, t) == [i \in Pending("cond", u, t) |-> RestAfter(events, k, i)]

\* The first k events were booked: nothing owed is lost, and the balances of
\* conditional approvals follow what the approvals keep.
Booked(m, n, events, k) ==
  /\ n \in Modules /\ KeepsPools(m, n) /\ KeepsChain(m, n)
  /\ n.avail = m.avail /\ n.appr = m.appr /\ n.ready = m.ready
  /\ n.dep = m.dep /\ n.newAppr = m.newAppr
  /\ \A j \in DOMAIN ins : RestAfter(events, k, j) \in Nat
  /\ \A t \in Ticks :
       /\ SumFunctionOnSet(OwedTo(n, t), Users) = SumFunctionOnSet(OwedTo(m, t), Users)
       /\ SumFunctionOnSet(CondOf(n, t), Users) + (n.cancel[t] + n.okAppr[t])
            = SumFunctionOnSet(CondOf(m, t), Users) + (m.cancel[t] + m.okAppr[t])
       /\ \A u \in Users :
            n.cond[u][t] - SumFunctionOnSet(RestsOf(events, k, u, t), Pending("cond", u, t))
              = m.cond[u][t] - SumFunctionOnSet(RestsOf(events, 0, u, t), Pending("cond", u, t))

\* Waiting approvals are pending ones, with their balances.
WaitingArePending ==
  \A q \in 1..Len(apprs) :
    /\ apprs[q].i \in DOMAIN ins /\ ins[apprs[q].i].kind = "cond" /\ ins[apprs[q].i].pending
    /\ apprs[q].bal = ins[apprs[q].i].bal

-----------------------------------------------------------------------------
(***************************************************************************)
(* The inductive invariant.                                                *)
(***************************************************************************)
Typed ==
  /\ bal \in Balances /\ tran \in Balances /\ minted \in Totals /\ burned \in Totals
  /\ ins \in Seq(Inscriptions) /\ Len(ins) <= MaxIns
  /\ mod \in Modules

\* The states of a transaction refer to inscriptions that have moved, and a
\* list of states has one of each transfer.
Refers(refs) ==
  /\ refs \in Seq(Nat) /\ \A k \in DOMAIN refs : refs[k] \in 1..Len(heap)
  /\ \A k, l \in DOMAIN refs : heap[refs[k]].ins = heap[refs[l]].ins => k = l

TxSound ==
  /\ heap \in Seq(TransferStates) /\ apprs \in Seq(ApproveStates)
  /\ \A k \in 1..Len(heap) : heap[k].ins \in DOMAIN ins /\ ins[heap[k].ins].moves # 0
  /\ Refers(static) /\ Refers(list)
  /\ WaitOnce /\ WaitingArePending

\* What was matched of a transfer, and what can still be matched, is no more
\* than its amount; nothing was matched before it moved.
MatchSound ==
  /\ matched \in [1..MaxIns -> Nat]
  /\ MatchedAtMostOnce
  /\ \A i \in 1..MaxIns : matched[i] # 0 => i \in DOMAIN ins /\ ins[i].moves # 0
  /\ \A k \in DOMAIN Candidates :
       matched[heap[Candidates[k]].ins] + heap[Candidates[k]].bal
         <= ins[heap[Candidates[k]].ins].amt

\* Valid inscriptions are pending: a transfer until it moves, a conditional
\* approval for ever.
ValidIsPending ==
  \A i \in DOMAIN ins :
    /\ ins[i].kind = "transfer" /\ ins[i].valid /\ ins[i].moves = 0 => ins[i].pending
    /\ ins[i].kind = "cond" /\ ins[i].valid => ins[i].pending

ValidCommits ==
  \A i \in DOMAIN ins : ins[i].kind = "commit" =>
    /\ ins[i].c \in CommitIds
    /\ ins[i].valid => PoolsDiffer(CommitOf(ins[i].c))

PoolSound(m, p) ==
  m.lp[p] > 0 => /\ \A t \in p : m.res[p][t] > 0
                 /\ RootK(m, p) >= m.lastK[p] /\ m.lastK[p] > 0

PoolsSound(m) == \A p \in Pairs : m.tick0[p] \in p /\ PoolSound(m, p)

LedgerInv ==
  /\ Typed /\ TxSound /\ MatchSound /\ ValidIsPending /\ ValidCommits
  /\ SupplyIsHeld /\ PendingIsBacked /\ PoolsSound(mod)

-----------------------------------------------------------------------------
(***************************************************************************)
(* Commits.  A function changes swap and available balances and pools, and *)
(* nothing else of the module.                                             *)
(***************************************************************************)
KeepsRest(m, n) ==
  /\ n.appr = m.appr /\ n.cond = m.cond /\ n.ready = m.ready /\ n.dep = m.dep
  /\ n.newAppr = m.newAppr /\ n.okAppr = m.okAppr /\ n.cancel = m.cancel
  /\ KeepsChain(m, n)

Balanced(m, n) == \A t \in Ticks : Liabilities(n, t) = Liabilities(m, t)

\* What users have of tick t in swap and available balances moves: d to user
\* y, e to user z.
Flows(m, n, t, y, d, z, e) ==
  /\ n.appr = m.appr /\ n.cond = m.cond
  /\ y \in Users /\ d \in Int /\ z \in Users /\ e \in Int
  /\ \A u \in Users : n.swap[u][t] + n.avail[u][t] = m.swap[u][t] + m.avail[u][t]
                        + (IF u = y THEN d ELSE 0) + (IF u = z THEN e ELSE 0)

\* User u pays x(t) of each tick t of pair p into its pool.
Trades(m, n, u, p, x) ==
  /\ n.appr = m.appr /\ n.cond = m.cond /\ n.avail = m.avail
  /\ u \in Users /\ p \in Pairs /\ x \in [Ticks -> Int] /\ \A t \in Ticks \ p : x[t] = 0
  /\ \A v \in Users, t \in Ticks :
       n.swap[v][t] = m.swap[v][t] - (IF v = u THEN x[t] ELSE 0)
  /\ \A q \in Pairs, t \in Ticks :
       n.res[q][t] = m.res[q][t] + (IF q = p THEN x[t] ELSE 0)

\* The result n of a function f on module m.
Executed(m, f, n) ==
  /\ n \in Modules /\ KeepsRest(m, n) /\ PoolsSound(n)
  /\ f.same => Balanced(m, n)

\* Everything but the LP of holders.
KeepsButLp(m, n) ==
  /\ n.swap = m.swap /\ n.avail = m.avail /\ n.res = m.res /\ n.pools = m.pools
  /\ n.tick0 = m.tick0 /\ n.lastK = m.lastK /\ KeepsRest(m, n)

\* What a payment of x0 of t0 and x1 of t1 makes of tick t.
Paid(t0, x0, t1, x1) == [t \in Ticks |-> IF t = t0 THEN x0 ELSE IF t = t1 THEN x1 ELSE 0]

\* Everything but the balances and reserves that a trade moves.
KeepsButTrade(m, n) ==
  /\ n.avail = m.avail /\ n.pools = m.pools /\ n.tick0 = m.tick0 /\ n.lp = m.lp
  /\ n.lastK = m.lastK /\ n.lpOfPool = m.lpOfPool /\ n.lpOfUser = m.lpOfUser
  /\ n.lpUsers = m.lpUsers /\ KeepsRest(m, n)

\* The ticks of every function of c are written as the pools' deployers did.
SameTicksIn(c) == \A k \in 1..Len(c.data) : c.data[k].same

\* The result n of some functions of commit c on module m.
RanOn(m, c, n) ==
  /\ n \in Modules /\ KeepsRest(m, n) /\ PoolsSound(n)
  /\ SameTicksIn(c) => Balanced(m, n)

\* The approvals and deposits of the module.
KeepsApprovals(m, n) ==
  /\ n.appr = m.appr /\ n.cond = m.cond /\ n.ready = m.ready /\ n.dep = m.dep
  /\ n.newAppr = m.newAppr /\ n.okAppr = m.okAppr /\ n.cancel = m.cancel

-----------------------------------------------------------------------------
(***************************************************************************)
(* The sums of the invariant, for any list of inscriptions and any         *)
(* balances, so that they can be stated of a state and of the next one.    *)
(***************************************************************************)
IsPending(x, j, kind, u, t) ==
  j \in DOMAIN x /\ x[j].kind = kind /\ x[j].pending /\ x[j].owner = u /\ x[j].tick = t

AmtOf(x, kind, u, t) == [j \in 1..MaxIns |-> IF IsPending(x, j, kind, u, t) THEN x[j].amt ELSE 0]
BalOf(x, kind, u, t) == [j \in 1..MaxIns |-> IF IsPending(x, j, kind, u, t) THEN x[j].bal ELSE 0]
TotalAmt(x, kind, u, t) == SumFunctionOnSet(AmtOf(x, kind, u, t), 1..MaxIns)
TotalBal(x, kind, u, t) == SumFunctionOnSet(BalOf(x, kind, u, t), 1..MaxIns)

\* A list of inscriptions within the bound.
Inscribed(x) == x \in Seq(Inscriptions) /\ Len(x) <= MaxIns

\* PendingIsBacked for a list x, a module m and transferable balances r.
Backed(x, m, r) ==
  \A u \in Users, t \in Ticks :
    /\ r[u][t] = TotalAmt(x, "transfer", u, t)
    /\ m.appr[u][t] = TotalAmt(x, "approve", u, t)
    /\ m.cond[u][t] = TotalBal(x, "cond", u, t)

CondsAdd(m) ==
  \A t \in Ticks : m.newAppr[t] - m.cancel[t] - m.okAppr[t] = SumFunctionOnSet(CondOf(m, t), Users)

\* The sums of PendingIsBacked.
PendingOf(x, kind, u, t) ==
  {i \in DOMAIN x : x[i].kind = kind /\ x[i].pending /\ x[i].owner = u /\ x[i].tick = t}

PendingAmt(x, kind, u, t) ==
  SumFunctionOnSet([i \in PendingOf(x, kind, u, t) |-> x[i].amt], PendingOf(x, kind, u, t))

PendingBal(x, kind, u, t) ==
  SumFunctionOnSet([i \in PendingOf(x, kind, u, t) |-> x[i].bal], PendingOf(x, kind, u, t))

\* Inscription j is as it was, but perhaps for its moves, agent and balance.
SameAt(x, y, j) ==
  /\ j \in DOMAIN y <=> j \in DOMAIN x
  /\ j \in DOMAIN x => /\ y[j].kind = x[j].kind /\ y[j].pending = x[j].pending
                       /\ y[j].owner = x[j].owner /\ y[j].tick = x[j].tick
                       /\ y[j].amt = x[j].amt

SameBalAt(x, y, j) == j \in DOMAIN x => y[j].bal = x[j].bal
ChangesAt(x, y, i) == i \in 1..MaxIns /\ \A j \in 1..MaxIns : j # i => SameAt(x, y, j)

\* y is x with one more inscription z.
Appended(x, z, y) ==
  /\ Inscribed(y) /\ DOMAIN y = DOMAIN x \cup {Len(x) + 1}
  /\ y[Len(x) + 1] = z /\ Len(x) + 1 \notin DOMAIN x
  /\ \A j \in DOMAIN x : y[j] = x[j]
  /\ \A kind, u, t :
       LET here == z.kind = kind /\ z.pending /\ z.owner = u /\ z.tick = t
       IN  /\ TotalAmt(y, kind, u, t) = TotalAmt(x, kind, u, t) + (IF here THEN z.amt ELSE 0)
           /\ TotalBal(y, kind, u, t) = TotalBal(x, kind, u, t) + (IF here THEN z.bal ELSE 0)

\* SupplyIsHeld for balances b and r, what was minted and what was burned.
Held(b, r, t) == [u \in Users |-> b[u][t] + r[u][t]]

Supply(b, r, total, lost) ==
  \A t \in Ticks :
    /\ SumFunctionOnSet(Held(b, r, t), Users) = total[t]
    /\ total[t] <= MaxSupply[t]
    /\ lost[t] = b[Burn][t] + r[Burn][t]

\* A list of inscriptions grows, or inscriptions move, and nothing else that
\* the states of the transaction refer to changes.
Grows(x, y) ==
  /\ DOMAIN x \subseteq DOMAIN y
  /\ \A j \in DOMAIN x :
       /\ y[j].kind = x[j].kind /\ y[j].amt = x[j].amt
       /\ x[j].kind = "cond" => y[j].pending = x[j].pending /\ y[j].bal = x[j].bal
       /\ x[j].moves # 0 => y[j].moves # 0

-----------------------------------------------------------------------------
(***************************************************************************)
(* The invariant, action by action.                                        *)
(***************************************************************************)
\* The parts of the invariant about inscriptions and the transaction.
ListInv ==
  /\ Inscribed(ins) /\ TxSound /\ MatchSound /\ ValidIsPending /\ ValidCommits

\* What the module owes beyond what was deposited stays the same, and what the
\* module's script holds grows with the deposits.
Holds(b, r, t) == b[Module][t] + r[Module][t]

Funds ==
  \A t \in Ticks :
    /\ Liabilities(mod', t) - mod'.dep[t] = Liabilities(mod, t) - mod.dep[t]
    /\ mod'.dep[t] - mod.dep[t] <= Holds(bal', tran', t) - Holds(bal, tran, t)

\* What an inscription z of the module does to its balances.
Books1(m, n, z) ==
  /\ n \in Modules /\ KeepsPools(m, n) /\ n.dep = m.dep /\ Balanced(m, n) /\ CondsAdd(n)
  /\ \A v \in Users, s \in Ticks :
       LET here == z.pending /\ z.owner = v /\ z.tick = s
       IN  /\ n.appr[v][s] = m.appr[v][s] + (IF z.kind = "approve" /\ here THEN z.amt ELSE 0)
           /\ n.cond[v][s] = m.cond[v][s] + (IF z.kind = "cond" /\ here THEN z.bal ELSE 0)

\* The module once an approval of a of tick t has moved from u to v.
Approved(m, n) ==
  /\ KeepsPools(m, n) /\ n.dep = m.dep /\ n.avail = m.avail /\ n.cond = m.cond
  /\ n.newAppr = m.newAppr /\ n.cancel = m.cancel /\ n.okAppr = m.okAppr

Moved(m, n, u, to, t, a) ==
  /\ n \in Modules /\ Approved(m, n)
  /\ \A v \in Users, s \in Ticks :
       /\ n.appr[v][s] = m.appr[v][s] - (IF v = u /\ s = t THEN a ELSE 0)
       /\ n.swap[v][s] = m.swap[v][s] + (IF v = to /\ s = t THEN a ELSE 0)

Marks(x, y, i) == y = [x EXCEPT ![i].moves = 1]

\* Every commit writes its ticks as the deployers of the pools did.
SameTicks == \A c \in Commits : SameTicksIn(c)

-----------------------------------------------------------------------------
(***************************************************************************)
(* The states of a transaction that grows.                                 *)
(***************************************************************************)
\* Refers, of any heap.
RefersTo(refs, hp) ==
  /\ refs \in Seq(Nat) /\ \A k \in DOMAIN refs : refs[k] \in 1..Len(hp)
  /\ \A k, l \in DOMAIN refs : hp[refs[k]].ins = hp[refs[l]].ins => k = l

\* What MatchSound says of the candidates c in heap hp, for a list x of
\* inscriptions of which mt was matched.
Matchable(mt, c, hp, x) ==
  \A k \in DOMAIN c : mt[hp[c[k]].ins] + hp[c[k]].bal <= x[hp[c[k]].ins].amt

\* hq is hp with states of transfer i added.
HeapGrows(hp, hq, i) ==
  /\ hp \in Seq(TransferStates) /\ hq \in Seq(TransferStates) /\ Len(hp) <= Len(hq)
  /\ \A k \in 1..Len(hp) : hq[k] = hp[k] /\ hp[k].ins # i
  /\ \A k \in 1..Len(hq) : k > Len(hp) => hq[k].ins = i

-----------------------------------------------------------------------------
(***************************************************************************)
(* What booked events mean for the invariant.                              *)
(***************************************************************************)
\* A list w of the inscriptions as they are after the events.
AfterEvents(w, events) ==
  /\ Inscribed(w) /\ DOMAIN w = DOMAIN ins
  /\ \A j \in DOMAIN ins :
       /\ w[j].kind = ins[j].kind /\ w[j].owner = ins[j].owner /\ w[j].tick = ins[j].tick
       /\ w[j].kind = "cond" => w[j].pending = ins[j].pending
       /\ w[j].bal = RestAfter(events, Len(events), j)

\* Inscriptions after a move of i.
Steps(x, y, i) ==
  /\ Inscribed(x) /\ Inscribed(y) /\ DOMAIN y = DOMAIN x /\ i \in DOMAIN x
  /\ \A j \in DOMAIN x : y[j].amt = x[j].amt /\ (x[j].moves # 0 => y[j].moves # 0)
  /\ y[i].moves # 0

-----------------------------------------------------------------------------
(***************************************************************************)
(* A valid transfer moves.                                                 *)
(***************************************************************************)
TransferState(i, to) ==
  [from |-> ins[i].owner, to |-> to, tick |-> ins[i].tick, bal |-> ins[i].amt, ins |-> i]

Seen(i) == ins[i].tick \notin SelfMint /\ ~enabled
Waits == created /\ apprs # << >>
Settled(i, to) == IF Seen(i) /\ Waits THEN MatchTransfer(TransferState(i, to)).events ELSE << >>
MovedList(i) == [ins EXCEPT ![i].moves = 1, ![i].pending = FALSE]
Deposits(i, to) == to = Module /\ created /\ ins[i].tick \notin SelfMint

\* A deposit of a of tick t by user o.
Deposited(m, n, o, t, a) == n = [m EXCEPT !.swap[o][t] = @ + a, !.dep[t] = @ + a]

\* Transferable a of tick t is paid by o to the receiver.
Pays(o, to, t, a) ==
  /\ tran' = [tran EXCEPT ![o][t] = @ - a] /\ bal' = [bal EXCEPT ![to][t] = @ + a]
  /\ burned' = [burned EXCEPT ![t] = IF to = Burn THEN @ + a ELSE @] /\ minted' = minted

-----------------------------------------------------------------------------
(***************************************************************************)
(* A conditional approval moves.                                           *)
(***************************************************************************)
Refunds(i, to) == IF ins[i].moves = 0 THEN to = ins[i].owner ELSE to # ins[i].agent
Appoints(i, to) == ins[i].moves = 0 /\ to # ins[i].owner
Scans(i, to) == ~Refunds(i, to) /\ ~Appoints(i, to)
Refund(i) == <<Event(i, ins[i].owner, ins[i].bal, 0, 0)>>

Charged(i, to) ==
  IF Refunds(i, to) THEN Refund(i)
  ELSE IF Appoints(i, to) THEN << >> ELSE MatchApproval(i).events

AppointedList(i, to) ==
  [ins EXCEPT ![i].moves = @ + 1, ![i].agent = IF Appoints(i, to) THEN to ELSE @]

-----------------------------------------------------------------------------
(***************************************************************************)
(* The theorems.                                                           *)
(***************************************************************************)
\* The module of a start.
StartModule(st) ==
  [NewModule EXCEPT !.avail = st.avail, !.swap = st.swap,
     !.dep = [t \in Ticks |->
        SumFunctionOnSet([u \in Users |-> st.avail[u][t] + st.swap[u][t]], Users)]]

-----------------------------------------------------------------------------
(***************************************************************************)
(* Commits below the height: the rehearsal on the copy is the execution.   *)
(***************************************************************************)
\* Two indexers read a function in the same way: both are below the height, or
\* both above it, and know its ticks.
ReadAlike(f, e1, e2) ==
  e1.enabled = e2.enabled /\ Pair(f) \subseteq e1.known /\ Pair(f) \subseteq e2.known

\* The functions of c have the parameters of before the height.
OldFormat(c) ==
  \A k \in 1..Len(c.data) :
    c.data[k].fn \in {"addLiq", "removeLiq", "swap"} => c.data[k].fmt = "old"

\* A commit is inscribed once; one that has not moved is not accepted; the
\* accepted ones form a chain with one head.
ChainOk(x, m) ==
  /\ \A i \in DOMAIN x : x[i].kind = "commit" =>
       /\ x[i].valid => OldFormat(CommitOf(x[i].c))
       /\ x[i].moves = 0 => x[i].c \notin m.ids
       /\ \A j \in DOMAIN x : x[j].kind = "commit" /\ x[j].c = x[i].c => j = i
  /\ \A d \in m.ids : \E i \in DOMAIN x : x[i].kind = "commit" /\ x[i].c = d
  /\ m.chain \subseteq m.ids \cup {NoParent}
  /\ m.ids # {} => \E h \in m.ids : m.ids \ m.chain = {h}

ChainInv == enabled = FALSE /\ ChainOk(ins, mod)

\* A step that decides on no commit.
CommitsStay(x, y) ==
  /\ DOMAIN x \subseteq DOMAIN y
  /\ \A j \in DOMAIN x :
       /\ y[j].kind = x[j].kind /\ y[j].valid = x[j].valid /\ y[j].c = x[j].c
       /\ x[j].kind = "commit" => y[j].moves = x[j].moves
  /\ \A j \in DOMAIN y : j \notin DOMAIN x => y[j].kind # "commit"

PoolsStay(m, n) == n.pools = m.pools /\ n.res = m.res /\ n.lp = m.lp
ModuleStays(m, n) == KeepsChain(m, n) /\ PoolsStay(m, n)
Quiet == CommitsStay(ins, ins') /\ ModuleStays(mod, mod')

\* What a commit does to the module: it is rejected, or it continues the chain.
Rejects(m, n) == \E i : n = [m EXCEPT !.invalid = i]

Continues(m, n, c) ==
  /\ ParentOk(m, c) /\ c.id \notin m.ids
  /\ n.ids = m.ids \cup {c.id} /\ n.chain = m.chain \cup {c.parent}

Accepts(m, n) == \E c \in Commits : Continues(m, n, c)

\* The head of the chain of a module, and the commits before it.
HeadOf(m) == LET tips == m.ids \ m.chain
             IN  IF m.ids = {} THEN NoParent
                 ELSE IF Cardinality(tips) = 1 THEN CHOOSE c \in tips : TRUE ELSE "forked"

SettledOf(m) == m.ids \cap m.chain

-----------------------------------------------------------------------------
(***************************************************************************)
(* The verification service.  A commit that passes its rehearsal on a      *)
(* module passes it on every module that has the same pools and the same   *)
(* chain and owes no user less.                                            *)
(***************************************************************************)
\* A module is a record, with these fields among others.
HasFields(m) ==
  {"swap", "avail", "pools", "tick0", "res", "lp", "lastK", "lpOfPool", "lpOfUser", "lpUsers",
   "ids", "chain", "invalid"} \subseteq DOMAIN m

\* Module n has the pools and the commits of m, and no less for any user.
Richer(m, n) ==
  /\ HasFields(m) /\ HasFields(n) /\ KeepsPools(m, n)
  /\ n.ids = m.ids /\ n.chain = m.chain
  /\ m.swap \in Balances /\ n.swap \in Balances
  /\ \A u \in Users, t \in Ticks : m.swap[u][t] <= n.swap[u][t]

\* The same, with what the users have more.
Ahead(m, n, gap) ==
  /\ HasFields(m) /\ HasFields(n) /\ KeepsPools(m, n)
  /\ n.ids = m.ids /\ n.chain = m.chain
  /\ m.swap \in Balances /\ n.swap \in Balances
  /\ gap \in [Users -> [Ticks -> Nat]]
  /\ \A u \in Users, t \in Ticks : n.swap[u][t] = m.swap[u][t] + gap[u][t]

\* Result s is good when result r is.
Follows(r, s, gap) == r.st = "ok" => s.st = "ok" /\ Ahead(r.m, s.m, gap)

\* What is run before commits with at most k waiting ancestors, from what is run
\* before those with one less.
RehearsalStep(m, bodies, ticks, k, before) ==
  [d \in Commits |->
     IF d.parent = NoParent \/ d.parent \in m.ids THEN Ok(m)
     ELSE IF k = 0 \/ d.parent \notin bodies THEN [st |-> "missing", m |-> m]
     ELSE ProcessCommitCheck(before[CommitOf(d.parent)], CommitOf(d.parent), ticks)]

\* g holds the rehearsals after at most j ancestors.
Rehearses(g, m, bodies, ticks, j) ==
  g = [k \in 0..j |-> RehearsalStep(m, bodies, ticks, k, g[k - 1])]

Rehearsal(m, bodies, ticks) == CHOOSE g : Rehearses(g, m, bodies, ticks, MaxIns)

\* What the copy of the service may lose from one step to the next: nothing,
\* unless a commit moves.
Enriched ==
  /\ Richer(mod, mod') /\ WaitingIds \subseteq WaitingIds'
  /\ deployed \subseteq deployed' /\ (created => created')

-----------------------------------------------------------------------------
(***************************************************************************)
(* The LP of the pools.                                                    *)
(***************************************************************************)
HeldLp(m, p) == SumFunctionOnSet([u \in Users |-> m.lpOfPool[p][u]], Users)

\* The two maps of LP balances, which agree.
LpMaps(m) ==
  /\ HasFields(m) /\ m.lp \in [Pairs -> Int]
  /\ m.lpOfPool \in [Pairs -> [Users -> Nat]] /\ m.lpOfUser \in [Users -> [Pairs -> Nat]]
  /\ \A p \in Pairs, u \in Users : m.lpOfPool[p][u] = m.lpOfUser[u][p]

\* All LP is held, but for d of pool p.
LpBut(m, p, d) ==
  /\ LpMaps(m)
  /\ \A q \in Pairs : m.lp[q] = HeldLp(m, q) + (IF q = p THEN d ELSE 0)

LpSound(m) == LpMaps(m) /\ \A p \in Pairs : m.lp[p] = HeldLp(m, p)

\* The LP of pools and holders.
KeepsLp(m, n) ==
  HasFields(n) /\ n.lp = m.lp /\ n.lpOfPool = m.lpOfPool /\ n.lpOfUser = m.lpOfUser

-----------------------------------------------------------------------------
(***************************************************************************)
(* The holders of a tick.                                                  *)
(***************************************************************************)
TransferableIsNat == \A u \in Users, t \in Ticks : tran[u][t] \in Nat

\* Deploy starts a list of holders anew, so a tick that is not deployed must
\* have none.
HolderInv ==
  \A u \in Users, t \in Ticks :
    /\ bal[u][t] >= 0
    /\ bal[u][t] + tran[u][t] > 0 => <<u, t>> \in listed /\ t \in deployed

=============================================================================
