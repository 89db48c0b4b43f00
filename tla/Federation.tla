----------------------------- MODULE Federation -----------------------------
(***************************************************************************)
(* Universe servers of taproot-assets and the nodes federated with them:   *)
(* issuance proofs are registered locally and pushed to the servers of the *)
(* federation (universe/auto_syncer.go, base.go), and pulled from them by  *)
(* a syncer that compares roots (universe/syncer.go).                      *)
(*                                                                         *)
(* A leaf is <<key, block>>: the issuance proof at a key, made for the     *)
(* block its transaction was in.  The root of a universe tree is the set   *)
(* of its leaves, which MsSmt justifies.                                   *)
(***************************************************************************)
EXTENDS Naturals, FiniteSets

CONSTANTS Nodes, Keys, Blocks,
          Uni,          \* [Keys -> universe]: asset or group of a key
          Home,         \* [Keys -> Nodes]: the node that mints it
          Static,       \* [Nodes -> SUBSET Nodes]: StaticFederationMembers
          Addable,      \* [Nodes -> SUBSET Nodes]: servers a user adds
          BatchSize,    \* SyncBatchSize, 200 in the code
          MaxDisturbances  \* re-organisations, failures, restarts, user calls

ASSUME FederationAssumption ==
  /\ Home \in [Keys -> Nodes] /\ Uni \in [Keys -> {Uni[k] : k \in Keys}]
  /\ \A n \in Nodes : Static[n] \cup Addable[n] \subseteq Nodes \ {n}
  /\ Blocks \subseteq Nat \ {0} /\ Blocks # {}
  /\ BatchSize \in Nat \ {0} /\ MaxDisturbances \in Nat

VARIABLES best,     \* [Keys -> Blocks]: the block of a mint in the best chain
          made,     \* [Keys -> Blocks and 0]: the block of its last proof
          leaves,   \* [Nodes -> sets of leaves], on disk
          fed,      \* [Nodes -> SUBSET Nodes]: servers of the federation, on disk
          reqs,     \* registrations waiting for the envoy of the key's home
          envoy,    \* [Nodes -> state of the envoy's goroutine]
          pushes,   \* proofs on their way to a server
          calls,    \* [Nodes -> calls of SyncUniverse not yet begun]
          sync,     \* [Nodes -> the sync that holds isSyncing]
          cancelled, \* [Nodes -> groups of calls with a cancelled context]
          silent,   \* servers that answer nothing any more, and close nothing
          disturbances
archive == <<best, made, leaves>>
network == <<silent, disturbances>>
vars == <<best, made, leaves, fed, reqs, envoy, pushes, calls, sync, cancelled,
          silent, disturbances>>

Leaves == Keys \X Blocks
Unis == {Uni[k] : k \in Keys}
KeysOf(S) == {l[1] : l \in S}
Root(S, u) == {l \in S : Uni[l[1]] = u}

Selecting == [pc |-> "select", items |-> {}]
Sync(pc, server, caller) ==
  [pc |-> pc, server |-> server, by |-> caller, roots |-> {}, todo |-> {}, keys |-> {},
   items |-> {}, batch |-> {}, touched |-> {}]
NoSync == Sync("none", "none", "none")
Callers == {"tick", "add", "user"}

TypeOK ==
  /\ best \in [Keys -> Blocks] /\ made \in [Keys -> Blocks \cup {0}]
  /\ leaves \in [Nodes -> SUBSET Leaves] /\ fed \in [Nodes -> SUBSET Nodes]
  /\ \A n \in Nodes : \A l, m \in leaves[n] : l[1] = m[1] => l = m
  /\ reqs \subseteq [home : Nodes, items : SUBSET Leaves, update : BOOLEAN]
  /\ envoy \in [Nodes -> [pc : {"select", "sync", "insert"}, items : SUBSET Leaves]]
  /\ pushes \subseteq [from : Nodes, to : Nodes, leaf : Leaves, verified : BOOLEAN]
  /\ calls \in [Nodes -> SUBSET [server : Nodes, by : Callers]]
  /\ sync \in [Nodes -> {NoSync} \cup
                 [pc : {"roots", "leaves"}, server : Nodes, by : Callers,
                  roots : SUBSET Leaves, todo : SUBSET Unis, keys : SUBSET Keys,
                  items : SUBSET Leaves, batch : SUBSET Leaves, touched : SUBSET Keys]]
  /\ cancelled \in [Nodes -> SUBSET Callers] /\ silent \subseteq Nodes

Disturbed(unheard) ==
  /\ disturbances < MaxDisturbances /\ disturbances' = disturbances + 1
  /\ silent' = unheard
Disturb == Disturbed(silent)

CallsTo(S, caller) == [server : S, by : {caller}]

Init ==
  /\ best = [k \in Keys |-> CHOOSE b \in Blocks : TRUE]
  /\ made = [k \in Keys |-> 0]
  /\ leaves = [n \in Nodes |-> {}]
  /\ fed = [n \in Nodes |-> Static[n]]
  /\ reqs = {} /\ pushes = {}
  /\ envoy = [n \in Nodes |-> Selecting]
  /\ calls = [n \in Nodes |-> CallsTo(Static[n], "add")]
  /\ sync = [n \in Nodes |-> NoSync]
  /\ cancelled = [n \in Nodes |-> {}]
  /\ silent = {} /\ disturbances = 0

-----------------------------------------------------------------------------
(***************************************************************************)
(* The archive.  Proofs are verified against the chain first and inserted  *)
(* in a database transaction later; other writers may come between.        *)
(***************************************************************************)
\* verifyIssuanceProof: the header has to be in the best chain.
Verifies(items) == \A l \in items : best[l[1]] = l[2]

\* universeRegisterIssuance for each item, and the leaf of its universe in the
\* multiverse, which has no state of its own here.
Upserted(S, items) == {l \in S : l[1] \notin KeysOf(items)} \cup items

\* The syncs of these nodes note keys that others wrote, for SyncedIsCovered.
Touched(N, keys) ==
  [n \in Nodes |-> IF n \in N /\ sync[n] # NoSync
                   THEN [sync[n] EXCEPT !.touched = @ \cup keys] ELSE sync[n]]

Register(n, items) ==
  /\ leaves' = [leaves EXCEPT ![n] = Upserted(@, items)]
  /\ sync' = Touched({n}, KeysOf(items))

(***************************************************************************)
(* The envoy: one goroutine takes requests and ticks, one at a time.       *)
(***************************************************************************)
\* The caretaker registers the proofs of a node's batch once it is confirmed.
Mint(n) ==
  LET batch == {k \in Keys : Home[k] = n}
  IN  /\ batch # {} /\ \A k \in batch : made[k] = 0
      /\ reqs' = reqs \cup {[home |-> n, items |-> {<<k, best[k]>> : k \in batch},
                             update |-> FALSE]}
      /\ made' = [k \in Keys |-> IF k \in batch THEN best[k] ELSE made[k]]
      /\ UNCHANGED <<best, leaves, fed, envoy, pushes, calls, sync, cancelled,
                     network>>

\* updateMintingProofs, called by the re-org watcher.
UpdateMintingProof(k) ==
  /\ made[k] \notin {0, best[k]}
  /\ reqs' = reqs \cup {[home |-> Home[k], items |-> {<<k, best[k]>>}, update |-> TRUE]}
  /\ made' = [made EXCEPT ![k] = best[k]]
  /\ UNCHANGED <<best, leaves, fed, envoy, pushes, calls, sync, cancelled, network>>

\* pushProofToFederation.
PushesOf(n, items) ==
  [from : {n}, to : fed[n], leaf : items, verified : {FALSE}]

\* RegisterIssuance answers with the proof it has for the block, and that one
\* is pushed too; RegisterNewIssuanceBatch does not look for it.
TakeRequest(n, r) ==
  /\ r \in reqs /\ r.home = n /\ envoy[n] = Selecting
  /\ reqs' = reqs \ {r}
  /\ IF r.update /\ r.items \subseteq leaves[n]
     THEN pushes' = pushes \cup PushesOf(n, r.items) /\ UNCHANGED envoy
     ELSE /\ envoy' = IF Verifies(r.items)
                      THEN [envoy EXCEPT ![n] = [pc |-> "insert", items |-> r.items]]
                      ELSE envoy
          /\ UNCHANGED pushes
  /\ UNCHANGED <<archive, fed, calls, sync, cancelled, network>>

InsertRequest(n) ==
  /\ envoy[n].pc = "insert"
  /\ Register(n, envoy[n].items)
  /\ pushes' = pushes \cup PushesOf(n, envoy[n].items)
  /\ envoy' = [envoy EXCEPT ![n] = Selecting]
  /\ UNCHANGED <<best, made, fed, reqs, calls, cancelled, network>>

Tick(n) ==
  /\ envoy[n] = Selecting /\ fed[n] # {}
  /\ envoy' = [envoy EXCEPT ![n].pc = "sync"]
  /\ calls' = [calls EXCEPT ![n] = @ \cup CallsTo(fed[n], "tick")]
  /\ UNCHANGED <<archive, fed, reqs, pushes, sync, cancelled, network>>

\* Mutant: a tick that was cancelled does not return.
ReturnedUnlessCancelled(n, caller) ==
  /\ \A c \in calls[n] : c.by # caller
  /\ sync[n].by # caller
  /\ caller \notin cancelled[n]

\* A group of calls has returned when none waits and none is running.
Returned(n, caller) ==
  /\ \A c \in calls[n] : c.by # caller
  /\ sync[n].by # caller

TickReturns(n) ==
  /\ envoy[n].pc = "sync" /\ Returned(n, "tick")
  /\ envoy' = [envoy EXCEPT ![n] = Selecting]
  /\ cancelled' = [cancelled EXCEPT ![n] = @ \ {"tick"}]
  /\ UNCHANGED <<archive, fed, reqs, pushes, calls, sync, network>>

\* A server that is already there fails the whole call, in a transaction.
AddServers(n, S) ==
  IF S \cap fed[n] # {} THEN UNCHANGED <<fed, calls, cancelled>>
  ELSE /\ fed' = [fed EXCEPT ![n] = @ \cup S]
       /\ calls' = [calls EXCEPT ![n] = @ \cup CallsTo(S, "add")]
       /\ cancelled' = [cancelled EXCEPT ![n] = @ \ {"add"}]

\* Of the user, one addition at a time: a server has to answer within a time-out
\* to be added (CheckFederationServer).
AddServer(n, s) ==
  /\ Disturb
  /\ s \in Addable[n] \ (fed[n] \cup silent) /\ Returned(n, "add")
  /\ AddServers(n, {s})
  /\ UNCHANGED <<archive, reqs, envoy, pushes, sync>>

RemoveServer(n, s) ==
  /\ Disturb
  /\ s \in fed[n]
  /\ fed' = [fed EXCEPT ![n] = @ \ {s}]
  /\ UNCHANGED <<archive, reqs, envoy, pushes, calls, sync, cancelled>>

SyncUniverse(n, s) ==
  /\ Disturb
  /\ calls' = [calls EXCEPT ![n] = @ \cup CallsTo({s}, "user")]
  /\ UNCHANGED <<archive, fed, reqs, envoy, pushes, sync, cancelled>>

\* DeleteRoot of a universe.
DeleteRoot(n, u) ==
  /\ Disturb
  /\ Root(leaves[n], u) # {}
  /\ leaves' = [leaves EXCEPT ![n] = @ \ Root(@, u)]
  /\ sync' = Touched({n} \cup {o \in Nodes : sync[o].server = n},
                     {k \in Keys : Uni[k] = u})
  /\ UNCHANGED <<best, made, fed, reqs, envoy, pushes, calls, cancelled>>

(***************************************************************************)
(* A pushed proof at the server.  An error ends the pushes of the proof to *)
(* other servers; nothing retries them.                                    *)
(***************************************************************************)
AfterError(p) ==
  pushes \ {q \in pushes : q = p \/ (q.from = p.from /\ q.leaf = p.leaf /\ ~q.verified)}

InsertProof(p) ==
  /\ p \in pushes /\ ~p.verified /\ p.to \notin silent
  /\ pushes' = CASE p.leaf \in leaves[p.to] -> pushes \ {p}
                 [] p.leaf \notin leaves[p.to] /\ Verifies({p.leaf}) ->
                      (pushes \ {p}) \cup {[p EXCEPT !.verified = TRUE]}
                 [] OTHER -> AfterError(p)
  /\ UNCHANGED <<archive, fed, reqs, envoy, calls, sync, cancelled, network>>

FinishInsertProof(p) ==
  /\ p \in pushes /\ p.verified /\ p.to \notin silent
  /\ Register(p.to, {p.leaf})
  /\ pushes' = pushes \ {p}
  /\ UNCHANGED <<best, made, fed, reqs, envoy, calls, cancelled, network>>

\* A call to a silent server may end with an error, or never.
CallFails(s) == IF s \in silent THEN UNCHANGED network ELSE Disturb

LosePush(p) ==
  /\ CallFails(p.to)
  /\ p \in pushes /\ pushes' = AfterError(p)
  /\ UNCHANGED <<archive, fed, reqs, envoy, calls, sync, cancelled>>

-----------------------------------------------------------------------------
(***************************************************************************)
(* The syncer.                                                             *)
(***************************************************************************)
\* An error cancels the context of the calls made together with this one.
Cancel(n, caller) ==
  cancelled' = [cancelled EXCEPT ![n] = @ \cup ({caller} \cap {"tick", "add"})]

\* executeSync: only one at a time.
StartSync(n, c) ==
  /\ c \in calls[n]
  /\ calls' = [calls EXCEPT ![n] = @ \ {c}]
  /\ IF sync[n] # NoSync THEN Cancel(n, c.by) /\ UNCHANGED sync
     ELSE /\ sync' = [sync EXCEPT ![n] = Sync("roots", c.server, c.by)]
          /\ UNCHANGED cancelled
  /\ UNCHANGED <<archive, fed, reqs, envoy, pushes, network>>

\* Mutant: isSyncing is only reset when a sync succeeds.
FailSyncHeld(n) ==
  /\ sync' = [sync EXCEPT ![n] = Sync("held", "none", "none")]
  /\ Cancel(n, sync[n].by)

FailSync(n) ==
  /\ sync' = [sync EXCEPT ![n] = NoSync]
  /\ Cancel(n, sync[n].by)

\* The calls of a sync have no time-out and their connection no keepalive.
Hangs(n) == sync[n].server \in silent

Aborted(n) == sync[n].by \in cancelled[n]
Running(n, pc) == sync[n].pc = pc /\ ~Aborted(n)
Advance(n, s) == sync' = [sync EXCEPT ![n] = s] /\ UNCHANGED cancelled
SyncFrame == UNCHANGED <<best, made, fed, reqs, envoy, pushes, calls, network>>

FetchRoots(n) ==
  LET s == sync[n]
      remote == leaves[s.server]
  IN  /\ Running(n, "roots") /\ ~Hangs(n)
      /\ Advance(n, [s EXCEPT !.pc = "leaves", !.roots = remote,
                              !.todo = {Uni[k] : k \in KeysOf(remote)}])
      /\ UNCHANGED leaves /\ SyncFrame

\* The keys of the two sides are compared by pointer, so that none of the
\* remote ones is ever recognised.
KeysToFetch(n, u) == KeysOf(Root(leaves[sync[n].server], u))

SyncRoot(n, u) ==
  LET s == sync[n]
  IN  /\ Running(n, "leaves") /\ u \in s.todo
      /\ Hangs(n) => Root(leaves[n], u) = Root(s.roots, u)
      /\ Advance(n, [s EXCEPT !.todo = @ \ {u},
                              !.keys = IF Root(leaves[n], u) = Root(s.roots, u) THEN @
                                       ELSE @ \cup KeysToFetch(n, u)])
      /\ UNCHANGED leaves /\ SyncFrame

\* Mutant: the root a proof comes with is not compared with the first one.
VerifyRootNot(n, k) == TRUE

\* VerifyRoot: the proof belongs to the root that was fetched first.
VerifyRoot(n, k) ==
  Root(leaves[sync[n].server], Uni[k]) = Root(sync[n].roots, Uni[k])

FetchIssuanceProof(n, k) ==
  LET s == sync[n]
      found == {l \in leaves[s.server] : l[1] = k}
  IN  /\ Running(n, "leaves") /\ k \in s.keys /\ ~Hangs(n)
      /\ IF found = {} \/ ~VerifyRoot(n, k) THEN FailSync(n)
         ELSE Advance(n, [s EXCEPT !.keys = @ \ {k}, !.items = @ \cup found])
      /\ UNCHANGED leaves /\ SyncFrame

\* CollectBatch: full batches, and what is left when a universe is complete.
IsBatch(s, u, b) ==
  LET complete == u \notin s.todo /\ \A k \in s.keys : Uni[k] # u
  IN  /\ b \subseteq Root(s.items, u) /\ b # {}
      /\ \/ Cardinality(b) = BatchSize
         \/ complete /\ b = Root(s.items, u) /\ Cardinality(b) < BatchSize

VerifyBatch(n, u, b) ==
  LET s == sync[n]
  IN  /\ Running(n, "leaves") /\ s.batch = {} /\ IsBatch(s, u, b)
      /\ IF Verifies(b) THEN Advance(n, [s EXCEPT !.batch = b]) ELSE FailSync(n)
      /\ UNCHANGED leaves /\ SyncFrame

InsertBatch(n) ==
  LET s == sync[n]
  IN  /\ Running(n, "leaves") /\ s.batch # {}
      /\ leaves' = [leaves EXCEPT ![n] = Upserted(@, s.batch)]
      /\ Advance(n, [s EXCEPT !.items = @ \ s.batch, !.batch = {}])
      /\ SyncFrame

Complete(s) == s.pc = "leaves" /\ s.todo = {} /\ s.keys = {} /\ s.items = {}

EndSync(n) ==
  /\ Running(n, "leaves") /\ Complete(sync[n])
  /\ Advance(n, NoSync)
  /\ UNCHANGED leaves /\ SyncFrame

AbortSync(n) ==
  /\ Aborted(n) /\ FailSync(n)
  /\ UNCHANGED leaves /\ SyncFrame

LoseSync(n) ==
  /\ CallFails(sync[n].server)
  /\ sync[n] # NoSync /\ FailSync(n)
  /\ UNCHANGED <<archive, fed, reqs, envoy, pushes, calls>>

-----------------------------------------------------------------------------
Reorg(k) ==
  /\ Disturb
  /\ \E b \in Blocks \ {best[k]} : best' = [best EXCEPT ![k] = b]
  /\ UNCHANGED <<made, leaves, fed, reqs, envoy, pushes, calls, sync, cancelled>>

\* The server, or the network on the way to it, goes away without a word.
FallSilent(s) ==
  /\ Disturbed(silent \cup {s}) /\ s \notin silent
  /\ UNCHANGED <<archive, fed, reqs, envoy, pushes, calls, sync, cancelled>>

\* Static members are added if they can be reached.  Requests come back: the
\* caretaker and the re-org watcher start again from what they had stored.
Restart(n) ==
  /\ Disturb
  /\ \E S \in SUBSET (Static[n] \ silent) :
       IF S \cap fed[n] # {}
       THEN calls' = [calls EXCEPT ![n] = {}] /\ UNCHANGED fed
       ELSE /\ fed' = [fed EXCEPT ![n] = @ \cup S]
            /\ calls' = [calls EXCEPT ![n] = CallsTo(S, "add")]
  /\ cancelled' = [cancelled EXCEPT ![n] = {}]
  /\ sync' = [sync EXCEPT ![n] = NoSync]
  /\ reqs' = reqs \cup (IF envoy[n].pc = "insert"
                        THEN {[home |-> n, items |-> envoy[n].items, update |-> FALSE]}
                        ELSE {})
  /\ envoy' = [envoy EXCEPT ![n] = Selecting]
  /\ pushes' = {p \in pushes : p.from # n /\ (p.to = n => ~p.verified)}
  /\ UNCHANGED archive

EnvoyStep(n) ==
  \/ InsertRequest(n) \/ TickReturns(n)
  \/ \E c \in calls[n] : StartSync(n, c)
SyncStep(n) ==
  \/ FetchRoots(n)
  \/ \E u \in Unis : SyncRoot(n, u)
  \/ \E k \in Keys : FetchIssuanceProof(n, k)
  \/ \E u \in Unis : \E b \in SUBSET sync[n].items : VerifyBatch(n, u, b)
  \/ InsertBatch(n) \/ EndSync(n) \/ AbortSync(n)
PushStep ==
  \/ \E p \in pushes : InsertProof(p)
  \/ \E p \in pushes : FinishInsertProof(p)
UserStep(n) ==
  \/ \E s \in Nodes : AddServer(n, s) \/ RemoveServer(n, s)
  \/ \E s \in Static[n] \cup Addable[n] : SyncUniverse(n, s)
  \/ \E u \in Unis : DeleteRoot(n, u)

Next ==
  \/ \E n \in Nodes : Mint(n)
  \/ \E k \in Keys : UpdateMintingProof(k)
  \/ \E n \in Nodes, r \in reqs : TakeRequest(n, r)
  \/ \E n \in Nodes : Tick(n)
  \/ \E n \in Nodes : EnvoyStep(n)
  \/ \E n \in Nodes : SyncStep(n)
  \/ PushStep
  \/ \E n \in Nodes : UserStep(n)
  \/ \E p \in pushes : LosePush(p)
  \/ \E n \in Nodes : LoseSync(n)
  \/ \E k \in Keys : Reorg(k)
  \/ \E s \in Nodes : FallSilent(s)
  \/ \E n \in Nodes : Restart(n)

\* Goroutines go on, the ticker ticks, and select chooses among what is ready
\* at random, so that neither requests nor ticks are passed over for ever.  A
\* remote call returns only if its server answers (the step waits for a server
\* that is not silent) or its context is cancelled; nothing is assumed of pushes.
Fairness ==
  /\ \A n \in Nodes : /\ WF_vars(EnvoyStep(n))
                      /\ SF_vars(\E r \in reqs : TakeRequest(n, r))
  /\ \A n \in Nodes : Static[n] \cup Addable[n] # {} =>
                        WF_vars(SyncStep(n)) /\ WF_vars(Tick(n))

Spec == Init /\ [][Next]_vars /\ Fairness

-----------------------------------------------------------------------------
(***************************************************************************)
(* Properties.                                                             *)
(***************************************************************************)
\* A sync that is about to report success has every leaf of the roots it
\* fetched first, whatever was pushed to or re-organised under the server since,
\* but for keys that others wrote at this node and universes that were deleted
\* at either (a deleted universe has no keys to fetch, and counts as synced).
SyncedIsCovered ==
  \A n \in Nodes : Complete(sync[n]) =>
    \A l \in sync[n].roots : l \in leaves[n] \/ l[1] \in sync[n].touched

\* A node with one server in its federation ends up with all of that server's
\* leaves, whatever failed or collided before, if these are proofs for blocks
\* of the best chain and the server answers.  (One stale proof at the server
\* stops every sync, and so does one sync that hangs: it holds isSyncing.)
FollowerCatchesUp ==
  \A n \in Nodes : \A s \in Static[n] :
    <>[](fed[n] = {s} /\ s \notin silent /\ ~Hangs(n) /\ Verifies(leaves[s])) =>
      <>[](leaves[s] \subseteq leaves[n])

\* The envoy is in a tick that waits for a server that is silent.
Blocked(n) == envoy[n].pc = "sync" /\ sync[n].by = "tick" /\ Hangs(n)

\* A minter that hands proofs to the envoy gets an answer, unless the envoy is
\* blocked for ever in a call of a tick without a time-out (auto_syncer.go:318).
\* No failure, collision, cancellation or silent server stops it otherwise: not
\* one that is only pushed to, nor one that an addition or a user syncs with.
RequestIsAnswered ==
  \A n \in Nodes :
    (\E r \in reqs : r.home = n) ~> (\A r \in reqs : r.home # n) \/ []Blocked(n)
=============================================================================
