--------------------------- MODULE MCIndexerStore ---------------------------
(***************************************************************************)
(* Instances of IndexerStore: alice has minted three and deposited two; a  *)
(* first commit may have made one of them available again.                 *)
(***************************************************************************)
EXTENDS IndexerStore

Item(id, kind, amt, parent) ==
  [id |-> id, kind |-> kind, owner |-> "alice", amt |-> amt, parent |-> parent,
   fn |-> "decreaseApproval", to |-> "alice"]
t0 == Item("t0", "transfer", 2, NoParent)
c0 == Item("c0", "commit", 1, NoParent)

MCItems == {t0, c0, Item("t1", "transfer", 1, NoParent), Item("a1", "approve", 1, NoParent),
            [Item("c1", "commit", 1, "c0") EXCEPT !.fn = "send", !.to = "bob"]}

Setup(i) == <<Inscribing(i), Moving(i, Module)>>
Mint == Minting("alice")
MCHistories == {<<<<Mint, Mint, Mint>> \o Setup(t0)>>,
               <<<<Mint, Mint, Mint>> \o Setup(t0), Setup(c0)>>}
=============================================================================
