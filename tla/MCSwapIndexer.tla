--------------------------- MODULE MCSwapIndexer ----------------------------
(***************************************************************************)
(* Instances of SwapIndexer.  A bare function record is filled in by each  *)
(* commit; amounts are small, so the first liquidity locks one LP.         *)
(***************************************************************************)
EXTENDS SwapIndexer

Fn(name, by, t0, t1) ==
  [fn |-> name, by |-> by, to |-> by, t0 |-> t0, t1 |-> t1, a0 |-> 0, a1 |-> 0, lp |-> 0,
   amt |-> 0, quote |-> 0, slip |-> 0, dir |-> "exactIn", fmt |-> "old", same |-> TRUE,
   size |-> 1]

Commit(id, parent, gas, data) == [id |-> id, parent |-> parent, gas |-> gas, data |-> data]

NoBalance == [u \in Users |-> [t \in Ticks |-> 0]]

Fresh == [ticks |-> {}, bal |-> NoBalance, avail |-> NoBalance, swap |-> NoBalance]

\* Ledger: four units of a tick, all but one minted, two of them in the module
\* and available to alice.  One commit is inscribed; calls of the verification
\* service are about c1, or about c2 with or without its parent, and their
\* results name the swap balance of alice.
LedgerSupply == [t \in Ticks |-> 4]
LedgerLimit == [t \in Ticks |-> 2]
LedgerStarts ==
  {[Fresh EXCEPT !.ticks = Ticks,
      !.bal = [u \in Users |-> [t \in Ticks |->
                CASE u = Module -> 2 [] u = "bob" -> 1 [] OTHER -> 0]],
      !.avail["alice"] = [t \in Ticks |-> 2]]}
LedgerQuota == [transfer |-> 2, approve |-> 0, cond |-> 2, withdraw |-> 1, commit |-> 1]
LedgerCommits ==
  {Commit("c1", NoParent, 1, <<[Fn("decreaseApproval", "alice", "a", "a") EXCEPT !.amt = 1]>>),
   Commit("c2", "c1", 0, <<[Fn("send", "bob", "a", "a") EXCEPT !.to = "alice", !.amt = 1]>>)}
LedgerNames == {<<[users |-> {"alice"} \X Ticks, lps |-> {}, pools |-> {}]>>}

\* Commits: nothing happened yet, or bob has deposits; a pool is made, traded on and left.  c4 and c5
\* are rivals of c2 and fail, c4 after functions that succeed.  He may take
\* back one approval of 40 meanwhile.
CommitSupply == [t \in Ticks |-> 170]
CommitLimit == [t \in Ticks |-> 30]
CommitStarts ==
  {Fresh,
   [Fresh EXCEPT !.ticks = Ticks, !.bal[Module] = [t \in Ticks |-> 170],
      !.avail["bob"] = [t \in Ticks |-> 40], !.swap["bob"] = [t \in Ticks |-> 130]]}
CommitQuota == [transfer |-> 0, approve |-> 1, cond |-> 0, withdraw |-> 0, commit |-> 3]
AddLiq(a, lp) == [Fn("addLiq", "bob", "a", "b") EXCEPT !.a0 = a, !.a1 = a, !.lp = lp]
CommitCommits ==
  {Commit("c1", NoParent, 0, <<Fn("deployPool", "bob", "a", "b"), AddLiq(60, 59)>>),
   Commit("c2", "c1", 1, <<[Fn("swap", "bob", "a", "b") EXCEPT !.amt = 60, !.quote = 20],
                           [Fn("sendLp", "bob", "b", "a") EXCEPT !.to = "alice", !.amt = 5]>>),
   Commit("c3", "c2", 0, <<[Fn("removeLiq", "bob", "b", "a") EXCEPT !.lp = 40],
                           [Fn("swap", "bob", "a", "b") EXCEPT !.dir = "exactOut",
                              !.amt = 9, !.quote = 5, !.slip = 100],
                           AddLiq(20, 0)>>),
   Commit("c4", "c1", 1, <<AddLiq(10, 10),
                           [Fn("send", "bob", "a", "a") EXCEPT !.to = "alice", !.amt = 10],
                           [Fn("send", "alice", "a", "a") EXCEPT !.to = "bob", !.amt = 11]>>),
   Commit("c5", "c1", 0, <<[Fn("swap", "bob", "b", "a") EXCEPT !.dir = "exactOut",
                              !.amt = 60, !.quote = 40]>>)}
=============================================================================
