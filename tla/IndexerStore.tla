---------------------------- MODULE IndexerStore ----------------------------
(***************************************************************************)
(* How the Go indexer keeps its state: blocks are processed one at a time, *)
(* what a block changed is appended to tables in one database transaction, *)
(* and at boot the tables are loaded and the blocks after the last balance *)
(* row are processed, some of them for a second time.                      *)
(*                                                                         *)
(* One tick of 18 decimals, one module.  The items are the inscriptions    *)
(* that may occur, each with what its content says: a transfer or an       *)
(* approval of its owner, or a commit of one function (decreaseApproval,   *)
(* or send to another user) with its parent.  A block is a sequence of     *)
(* events and, once it was read, stays what it is.  Pools, conditional     *)
(* approvals and withdrawals are left out.                                 *)
(***************************************************************************)
EXTENDS Integers, Sequences
LOCAL INSTANCE SequencesExt

CONSTANTS Users, Module,
          Items,          \* {[id, kind, owner, amt, parent, fn, to]}
          NoParent,
          MaxSupply,      \* BRC20Max of the tick
          Minters, Dests, \* receivers of mints and of moves
          Histories,       \* chains the database already covers
          MaxHeight, MaxEvents,   \* bounds on the chain and on a block
          MaxBoots                \* bound on restarts

ASSUME StoreAssumption == Module \in Users /\ Minters \cup Dests \subseteq Users

VARIABLES chain,    \* the blocks seen so far
          mem,      \* BRC20ModuleIndexer, or Down
          stage,    \* "down", "idle" or "processed" (a block, not yet saved)
          next,     \* the height to process, or being processed
          db,       \* the tables
          boots

vars == <<chain, mem, stage, next, db, boots>>

(***************************************************************************)
(* The indexer's memory.  touched and mtouched are the balances whose      *)
(* UpdateHeight is the height being processed (ticked: the tick's), new    *)
(* the inscriptions of that height, moved the Remove maps, which are       *)
(* purged after each save; mine are the maps users have of their own.      *)
(***************************************************************************)
Zero == [u \in Users |-> 0]
Empty ==
  [minted |-> 0, bal |-> Zero, tran |-> Zero, transfers |-> {}, badTransfers |-> {},
   mine |-> {}, swap |-> Zero, avail |-> Zero, appr |-> Zero, approves |-> {},
   badApproves |-> {}, commits |-> {}, ids |-> {}, linked |-> {}, invalid |-> {},
   touched |-> {}, mtouched |-> {}, new |-> {}, moved |-> {}, ticked |-> FALSE,
   dirty |-> FALSE]

ProcessMint(m, u) ==
  LET amt == IF m.minted >= MaxSupply THEN 0 ELSE 1
  IN  [m EXCEPT !.touched = @ \cup {u}, !.minted = @ + amt, !.bal[u] = @ + amt,
                !.ticked = @ \/ amt > 0]

ProcessInscribeTransfer(m, i) ==
  LET o == i.owner
      t == [m EXCEPT !.touched = @ \cup {o}]
  IN  IF m.bal[o] < i.amt THEN [t EXCEPT !.badTransfers = @ \cup {i}]
      ELSE [t EXCEPT !.bal[o] = @ - i.amt, !.tran[o] = @ + i.amt, !.new = @ \cup {i},
                     !.mine = @ \cup {i}, !.transfers = @ \cup {i}]

\* The receiver's balance is saved with the block.
Credited(m, to, amt) == [m EXCEPT !.bal[to] = @ + amt, !.touched = @ \cup {to}]

Deposited(m, o, amt) == [m EXCEPT !.swap[o] = @ + amt, !.mtouched = @ \cup {o}]

ProcessTransfer(m, i, to) ==
  LET o == i.owner
      sent == [m EXCEPT !.touched = @ \cup {o}]
      paid == Credited([sent EXCEPT !.tran[o] = @ - i.amt, !.mine = @ \ {i}], to, i.amt)
  IN  IF i \in m.badTransfers \/ i \notin m.mine THEN sent
      ELSE IF to = Module THEN Deposited(paid, o, i.amt) ELSE paid

ProcessInscribeApprove(m, i) ==
  LET o == i.owner
  IN  IF m.avail[o] < i.amt THEN [m EXCEPT !.badApproves = @ \cup {i}]
      ELSE [m EXCEPT !.avail[o] = @ - i.amt, !.appr[o] = @ + i.amt, !.new = @ \cup {i},
                     !.mine = @ \cup {i}, !.approves = @ \cup {i},
                     !.mtouched = @ \cup {o}]

\* An approval its owner's ValidApproveMap does not know has no effect.
ProcessApprove(m, i, to) ==
  IF i \notin m.mine THEN m
  ELSE [m EXCEPT !.appr[i.owner] = @ - i.amt, !.mine = @ \ {i}, !.swap[to] = @ + i.amt,
                 !.mtouched = @ \cup {i.owner, to}]

ProcessInscribeCommit(m, i) ==
  [m EXCEPT !.commits = @ \cup {i}, !.new = @ \cup {i}, !.invalid = @ \ {i.id}]

\* Mutant: only the existence of the parent is checked.
ParentKnown(m, p) == IF p = NoParent THEN TRUE ELSE p \in m.ids

ParentFree(m, p) ==
  IF p = NoParent THEN m.ids = {} ELSE p \in m.ids /\ p \notin m.linked

RunFunction(m, i) ==
  LET taken == [m EXCEPT !.swap[i.owner] = @ - i.amt, !.mtouched = @ \cup {i.owner}]
  IN  IF i.fn = "send"
      THEN [taken EXCEPT !.swap[i.to] = @ + i.amt, !.mtouched = @ \cup {i.to}]
      ELSE [taken EXCEPT !.avail[i.owner] = @ + i.amt]

ProcessCommit(m, i, to) ==
  IF to # Module THEN m
  ELSE IF ~ParentFree(m, i.parent) \/ m.swap[i.owner] < i.amt
  THEN [m EXCEPT !.invalid = @ \cup {i.id}]
  ELSE [RunFunction(m, i) EXCEPT !.ids = @ \cup {i.id}, !.linked = @ \cup {i.parent},
                                 !.invalid = @ \ {i.id}]

-----------------------------------------------------------------------------
(***************************************************************************)
(* ProcessUpdateLatestBRC20Loop: an event is a mint, an inscription or the *)
(* first move of one; a move is dispatched by the maps it is found in.     *)
(***************************************************************************)
Minting(u) == [op |-> "mint", i |-> NoParent, u |-> u]
Inscribing(i) == [op |-> "inscribe", i |-> i, u |-> NoParent]
Moving(i, to) == [op |-> "move", i |-> i, u |-> to]

ProcessMove(m, i, to) ==
  LET found == [m EXCEPT !.moved = @ \cup {i}, !.dirty = TRUE]
  IN  CASE i \in m.transfers \cup m.badTransfers -> ProcessTransfer(found, i, to)
        [] i \in m.approves \cup m.badApproves -> ProcessApprove(found, i, to)
        [] i \in m.commits -> ProcessCommit(found, i, to)
        [] OTHER -> m

ProcessInscribe(m, i) ==
  LET d == [m EXCEPT !.dirty = TRUE]
  IN  CASE i.kind = "transfer" -> ProcessInscribeTransfer(d, i)
        [] i.kind = "approve" -> ProcessInscribeApprove(d, i)
        [] i.kind = "commit" -> ProcessInscribeCommit(d, i)

Process(m, e) ==
  CASE e.op = "mint" -> ProcessMint([m EXCEPT !.dirty = TRUE], e.u)
    [] e.op = "inscribe" -> ProcessInscribe(m, e.i)
    [] e.op = "move" -> ProcessMove(m, e.i, e.u)

\* A new height: nothing is dirty and nothing has this height yet.
NewHeight(m) ==
  [m EXCEPT !.dirty = FALSE, !.ticked = FALSE, !.touched = {}, !.mtouched = {},
            !.new = {}, !.moved = {}]

ProcessLoop(m, block) == FoldLeft(Process, NewHeight(m), block)

-----------------------------------------------------------------------------
(***************************************************************************)
(* The tables.  Rows are only inserted; a commit_chain row tells for every *)
(* commit known whether it is valid and connected.                         *)
(***************************************************************************)
NoRows == [tick |-> {}, bal |-> {}, mod |-> {}, links |-> {},
           validTransfer |-> {}, transferState |-> {}, validApprove |-> {},
           approveState |-> {}, validCommit |-> {}, commitState |-> {}]

OfKind(items, kind) == {i \in items : i.kind = kind}

\* The Save functions insert what has the height of the block: the tick, the
\* balances, the new valid inscriptions and the keys of the moved ones.
SaveTickerInfo(m, h) == IF m.ticked THEN {[h |-> h, minted |-> m.minted]} ELSE {}
SaveTickerBalance(m, h) ==
  {[h |-> h, u |-> u, bal |-> m.bal[u], tran |-> m.tran[u]] : u \in m.touched}
SaveModuleUserBalance(m, h) ==
  {[h |-> h, u |-> u, swap |-> m.swap[u], avail |-> m.avail[u], appr |-> m.appr[u]]
     : u \in m.mtouched}
SaveValidTransfer(m) == OfKind(m.new, "transfer")
SaveTransferState(m) == OfKind(m.moved, "transfer")
SaveSwapApprove(m) == OfKind(m.new, "approve")
SaveSwapApproveState(m) == OfKind(m.moved, "approve")
SaveSwapCommit(m) == OfKind(m.new, "commit")
SaveSwapCommitState(m) == OfKind(m.moved, "commit")

\* All commits are inserted again with every block.
SaveModuleCommitChain(m) ==
  {[id |-> id, valid |-> id \in m.ids \/ id \notin m.invalid, connected |-> id \in m.linked]
     : id \in m.ids \cup m.linked \cup m.invalid}

SaveRows(d, m, h) ==
  [tick |-> d.tick \cup SaveTickerInfo(m, h),
   bal |-> d.bal \cup SaveTickerBalance(m, h),
   mod |-> d.mod \cup SaveModuleUserBalance(m, h),
   links |-> d.links \cup SaveModuleCommitChain(m),
   validTransfer |-> d.validTransfer \cup SaveValidTransfer(m),
   transferState |-> d.transferState \cup SaveTransferState(m),
   validApprove |-> d.validApprove \cup SaveSwapApprove(m),
   approveState |-> d.approveState \cup SaveSwapApproveState(m),
   validCommit |-> d.validCommit \cup SaveSwapCommit(m),
   commitState |-> d.commitState \cup SaveSwapCommitState(m)]

Heights(rows) == {r.h : r \in rows}
Latest(rows) == {r \in rows : \A s \in rows : s.h <= r.h}
RowsOf(rows, u) == Latest({r \in rows : r.u = u})

\* What a load may return: when several rows of a user have the last height,
\* the database's order decides.
Picks(rows) ==
  {f \in [Users -> rows \cup {[h |-> 0]}] :
     \A u \in Users : IF RowsOf(rows, u) = {} THEN f[u] = [h |-> 0]
                      ELSE f[u] \in RowsOf(rows, u)}

Field(pick, name) == [u \in Users |-> IF pick[u].h = 0 THEN 0 ELSE pick[u][name]]

LoadTickerInfo(d) ==
  IF d.tick = {} THEN 0 ELSE (CHOOSE r \in Latest(d.tick) : TRUE).minted

LoadUserTokensBalance(m, b) == [m EXCEPT !.bal = Field(b, "bal"), !.tran = Field(b, "tran")]

LoadModuleUserBalance(m, s) ==
  [m EXCEPT !.swap = Field(s, "swap"), !.avail = Field(s, "avail"), !.appr = Field(s, "appr")]

LoadValidTransfer(d) == {i \in d.validTransfer : i \notin d.transferState}
LoadSwapApprove(d) == {i \in d.validApprove : i \notin d.approveState}
LoadSwapCommit(d) == {i \in d.validCommit : i \notin d.commitState}

\* Every row counts, not the last one of a commit.
LoadModuleCommitChain(m, d) ==
  [m EXCEPT !.ids = {r.id : r \in {x \in d.links : x.valid /\ ~x.connected}},
            !.linked = {r.id : r \in {x \in d.links : x.valid /\ x.connected}},
            !.invalid = {r.id : r \in {x \in d.links : ~x.valid}}]

\* LoadDataFromDB.  Transfers are given back to their owners' maps, approvals
\* are not; the invalid and the Remove maps are not loaded.
Load(d, b, s) ==
  LET m == [Empty EXCEPT !.minted = LoadTickerInfo(d),
                         !.transfers = LoadValidTransfer(d), !.mine = LoadValidTransfer(d),
                         !.approves = LoadSwapApprove(d), !.commits = LoadSwapCommit(d)]
  IN  LoadModuleCommitChain(LoadModuleUserBalance(LoadUserTokensBalance(m, b), s), d)

\* Mutant: the last saved height is processed again.
StartAtLast(d) ==
  IF d.bal = {} THEN 1
  ELSE CHOOSE h \in Heights(d.bal) : \A k \in Heights(d.bal) : k <= h

\* GetBrc20LatestHeightFromDB: only the balance rows are looked at.
StartHeight(d) ==
  IF d.bal = {} THEN 1
  ELSE 1 + (CHOOSE h \in Heights(d.bal) : \A k \in Heights(d.bal) : k <= h)

-----------------------------------------------------------------------------
(***************************************************************************)
(* Blocks.  An item is inscribed once, and its first move comes later.     *)
(***************************************************************************)
EventsOf(c) == FoldLeft(LAMBDA s, b : s \cup ToSet(b), {}, c)
Inscribed(c) == {e.i : e \in {x \in EventsOf(c) : x.op = "inscribe"}}
Moved(c) == {e.i : e \in {x \in EventsOf(c) : x.op = "move"}}

Possible(c) ==
  {Minting(u) : u \in Minters}
    \cup {Inscribing(i) : i \in Items \ Inscribed(c)}
    \cup {Moving(i, to) : i \in Inscribed(c) \ Moved(c), to \in Dests}

\* The blocks that may follow the chain c; one without events is not seen.
Blocks(c) ==
  LET Grow(bs, n) ==
        bs \cup UNION {{Append(b, e) : e \in Possible(Append(c, b))}
                         : b \in {x \in bs : Len(x) = n - 1}}
  IN  FoldLeft(Grow, {<< >>}, [n \in 1..MaxEvents |-> n]) \ {<< >>}

Init ==
  \E c \in Histories :
    LET Step(r, h) == LET m == ProcessLoop(r.m, c[h])
                      IN  [m |-> m, d |-> IF m.dirty THEN SaveRows(r.d, m, h) ELSE r.d]
    IN  /\ chain = c
        /\ db = FoldLeft(Step, [m |-> Empty, d |-> NoRows], [h \in 1..Len(c) |-> h]).d
        /\ mem = Empty /\ stage = "down" /\ next = 0 /\ boots = 0

Boot ==
  /\ stage = "down" /\ boots < MaxBoots
  /\ \E b \in Picks(db.bal), s \in Picks(db.mod) : mem' = Load(db, b, s)
  /\ next' = StartHeight(db) /\ stage' = "idle" /\ boots' = boots + 1
  /\ UNCHANGED <<chain, db>>

\* A block that was read before is read again as it is.
ProcessBlock ==
  /\ stage = "idle"
  /\ IF next <= Len(chain) THEN chain' = chain
     ELSE Len(chain) < MaxHeight /\ \E b \in Blocks(chain) : chain' = Append(chain, b)
  /\ mem' = ProcessLoop(mem, chain'[next])
  /\ stage' = "processed"
  /\ UNCHANGED <<next, db, boots>>

SaveDataToDB ==
  /\ stage = "processed"
  /\ db' = IF mem.dirty THEN SaveRows(db, mem, next) ELSE db
  /\ mem' = NewHeight(mem)
  /\ next' = next + 1 /\ stage' = "idle"
  /\ UNCHANGED <<chain, boots>>

\* The process ends, at any point, also with a processed block not saved.
Stop ==
  /\ stage # "down" /\ boots < MaxBoots
  /\ mem' = Empty /\ stage' = "down" /\ next' = 0
  /\ UNCHANGED <<chain, db, boots>>

Next == Boot \/ ProcessBlock \/ SaveDataToDB \/ Stop

Spec == Init /\ [][Next]_vars
-----------------------------------------------------------------------------
(***************************************************************************)
(* Properties: a restarted indexer against one that never stopped.         *)
(***************************************************************************)
Truth(h) == FoldLeft(ProcessLoop, Empty, SubSeq(chain, 1, h))

Pending(m) == {i \in m.mine : i.kind = "transfer"}

\* However often the indexer was stopped between or within blocks, and though
\* it processes some blocks again, balances, supply and the transfers that can
\* still be moved are those of an indexer that never stopped.
BalancesSurvive ==
  stage = "idle" =>
    LET t == Truth(next - 1)
    IN  /\ mem.bal = t.bal /\ mem.tran = t.tran /\ mem.minted = t.minted
        /\ Pending(mem) = Pending(t)

\* While there are no approvals and every commit was accepted when it was moved,
\* the module survives exactly: processing a commit again changes nothing, and
\* the same commits can follow.  (A commit that was refused because its parent
\* was moved after it can be accepted when it is processed again.)
ModuleSurvives ==
  LET t == Truth(Len(chain))
      settled == /\ stage = "idle" /\ next > Len(chain)
                 /\ t.invalid = {} /\ (\A i \in Inscribed(chain) : i.kind # "approve")
  IN  settled => /\ mem.swap = t.swap /\ mem.avail = t.avail
                 /\ \A i \in Items : i.kind = "commit" =>
                      ParentFree(mem, i.parent) = ParentFree(t, i.parent)
                 /\ \A i \in t.commits : i \in Moved(chain) \/ i \in mem.commits
=============================================================================
