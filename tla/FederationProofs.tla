-------------------------- MODULE FederationProofs --------------------------
(***************************************************************************)
(* What TLAPS proves of module Federation, for any nodes, keys, blocks,    *)
(* batch size and number of disturbances.                                  *)
(***************************************************************************)
EXTENDS Federation, TLAPS

OnePerKey(S) == \A l, m \in S : l[1] = m[1] => l = m

(***************************************************************************)
(* The invariant of a sync that is under way.  Every leaf of the roots it  *)
(* fetched first is in one of four places: its universe is not compared    *)
(* yet, its key is not fetched yet, it waits to be inserted, or it is at   *)
(* the node.  What was fetched is of those roots, which have one leaf per  *)
(* key: the insertion of a batch displaces none of them.  And the server   *)
(* still has every key of the roots, so that a universe that differs is    *)
(* fetched in full.                                                        *)
(***************************************************************************)
SyncInv(n) ==
  LET s == sync[n]
  IN  /\ OnePerKey(s.roots) /\ s.items \subseteq s.roots /\ s.batch \subseteq s.items
      /\ s.pc # "leaves" => s.items = {} /\ s.roots = {}
      /\ \A l \in s.roots : l[1] \notin s.touched =>
           /\ l[1] \in KeysOf(leaves[s.server])
           /\ Uni[l[1]] \in s.todo \/ l[1] \in s.keys \/ l \in s.items \/ l \in leaves[n]

CoverInv ==
  /\ TypeOK
  /\ \A r \in reqs : OnePerKey(r.items)
  /\ \A n \in Nodes : OnePerKey(envoy[n].items) /\ SyncInv(n)

(***************************************************************************)
(* Types.                                                                  *)
(***************************************************************************)
Requests == [home : Nodes, items : SUBSET Leaves, update : BOOLEAN]
Envoys   == [pc : {"select", "sync", "insert"}, items : SUBSET Leaves]
Pushes   == [from : Nodes, to : Nodes, leaf : Leaves, verified : BOOLEAN]
Calls    == [server : Nodes, by : Callers]
Syncs    == [pc : {"roots", "leaves"}, server : Nodes, by : Callers,
             roots : SUBSET Leaves, todo : SUBSET Unis, keys : SUBSET Keys,
             items : SUBSET Leaves, batch : SUBSET Leaves, touched : SUBSET Keys]

ChainTyped   == best \in [Keys -> Blocks] /\ made \in [Keys -> Blocks \cup {0}]
ArchiveTyped == /\ leaves \in [Nodes -> SUBSET Leaves]
                /\ \A n \in Nodes : OnePerKey(leaves[n])
EnvoyTyped   == /\ envoy \in [Nodes -> Envoys] /\ \A n \in Nodes : OnePerKey(envoy[n].items)
RequestsTyped == reqs \subseteq Requests /\ \A r \in reqs : OnePerKey(r.items)
SyncTyped    == sync \in [Nodes -> {NoSync} \cup Syncs]
ServersTyped == /\ fed \in [Nodes -> SUBSET Nodes] /\ calls \in [Nodes -> SUBSET Calls]
                /\ cancelled \in [Nodes -> SUBSET Callers] /\ silent \subseteq Nodes

Typed == /\ ChainTyped /\ ArchiveTyped /\ EnvoyTyped /\ RequestsTyped /\ SyncTyped
         /\ ServersTyped /\ pushes \subseteq Pushes

\* The parts of the invariant.
LEMMA CoverParts ==
  /\ CoverInv <=> Typed /\ \A n \in Nodes : SyncInv(n)
  /\ CoverInv' <=> Typed' /\ \A n \in Nodes : SyncInv(n)'
  BY DEF CoverInv, TypeOK, Typed, ChainTyped, ArchiveTyped, EnvoyTyped, RequestsTyped, SyncTyped,
         ServersTyped, OnePerKey, Requests, Envoys, Pushes, Calls, Syncs

\* The records without content.
LEMMA ConstantRecords ==
  /\ Selecting \in Envoys /\ Selecting.pc = "select" /\ Selecting.items = {}
  /\ NoSync.pc = "none" /\ NoSync.by = "none" /\ NoSync.roots = {} /\ NoSync.items = {}
  /\ NoSync.batch = {} /\ NoSync.touched = {} /\ NoSync \notin Syncs
  BY DEF Selecting, Envoys, NoSync, Sync, Syncs

\* The calls a tick, an addition or a user makes.
LEMMA CallsToTyped ==
  ASSUME NEW S \in SUBSET Nodes, NEW caller \in Callers
  PROVE  CallsTo(S, caller) \subseteq Calls
  BY DEF CallsTo, Calls

(***************************************************************************)
(* The archive.                                                            *)
(***************************************************************************)
\* What an insertion keeps, adds and displaces (universeRegisterIssuance).
LEMMA UpsertedLeaves ==
  ASSUME NEW S \in SUBSET Leaves, NEW items \in SUBSET Leaves
  PROVE  /\ Upserted(S, items) \in SUBSET Leaves /\ items \subseteq Upserted(S, items)
         /\ KeysOf(S) \subseteq KeysOf(Upserted(S, items))
         /\ \A l \in S : l[1] \in KeysOf(items) \/ l \in Upserted(S, items)
         /\ OnePerKey(S) /\ OnePerKey(items) => OnePerKey(Upserted(S, items))
  <1>1. \A l \in items : l[1] \in KeysOf(items)
    BY DEF KeysOf
  <1>2. \A l \in Upserted(S, items) : l \in items \/ (l \in S /\ l[1] \notin KeysOf(items))
    BY DEF Upserted
  <1>3. Upserted(S, items) \in SUBSET Leaves /\ items \subseteq Upserted(S, items)
    BY DEF Upserted
  <1>4. \A l \in S : l[1] \in KeysOf(items) \/ l \in Upserted(S, items)
    BY DEF Upserted
  <1>5. KeysOf(S) \subseteq KeysOf(Upserted(S, items))
    BY <1>3, <1>4 DEF KeysOf
  <1>6. OnePerKey(S) /\ OnePerKey(items) => OnePerKey(Upserted(S, items))
    BY <1>1, <1>2 DEF OnePerKey
  <1> QED BY <1>3, <1>4, <1>5, <1>6

\* A leaf's key.
LEMMA KeyOfLeaf ==
  ASSUME NEW S \in SUBSET Leaves
  PROVE  KeysOf(S) \in SUBSET Keys /\ \A l \in S : l[1] \in KeysOf(S) /\ l[1] \in Keys
  BY DEF KeysOf, Leaves

\* A sync keeps its invariant if the leaves it relies on stay, or are noted.
LEMMA SyncSame ==
  ASSUME NEW n \in Nodes, SyncInv(n),
         sync'[n].pc = sync[n].pc, sync'[n].server = sync[n].server, sync'[n].roots = sync[n].roots,
         sync'[n].todo = sync[n].todo, sync'[n].keys = sync[n].keys, sync'[n].items = sync[n].items,
         sync'[n].batch = sync[n].batch, sync[n].touched \subseteq sync'[n].touched,
         \A l \in sync[n].roots : l[1] \notin sync'[n].touched =>
            /\ l[1] \in KeysOf(leaves[sync[n].server]) => l[1] \in KeysOf(leaves'[sync[n].server])
            /\ l \in leaves[n] => l \in leaves'[n]
  PROVE  SyncInv(n)'
  BY DEF SyncInv

\* A sync that has not fetched any roots.
LEMMA SyncEmpty ==
  ASSUME NEW n \in Nodes, sync'[n].roots = {}, sync'[n].items = {}, sync'[n].batch = {}
  PROVE  SyncInv(n)'
  BY DEF SyncInv, OnePerKey

\* What others write is noted.
LEMMA TouchedSyncs ==
  ASSUME SyncTyped, NEW N, NEW K \in SUBSET Keys, sync' = Touched(N, K)
  PROVE  /\ SyncTyped'
         /\ \A n \in Nodes :
              /\ sync'[n].pc = sync[n].pc /\ sync'[n].server = sync[n].server
              /\ sync'[n].roots = sync[n].roots /\ sync'[n].todo = sync[n].todo
              /\ sync'[n].keys = sync[n].keys /\ sync'[n].items = sync[n].items
              /\ sync'[n].batch = sync[n].batch /\ sync[n].touched \subseteq sync'[n].touched
              /\ n \in N => sync[n].roots = {} \/ K \subseteq sync'[n].touched
  <1>1. ASSUME NEW n \in Nodes, n \in N, sync[n] # NoSync
        PROVE  /\ sync'[n] \in Syncs
               /\ sync'[n].pc = sync[n].pc /\ sync'[n].server = sync[n].server
               /\ sync'[n].roots = sync[n].roots /\ sync'[n].todo = sync[n].todo
               /\ sync'[n].keys = sync[n].keys /\ sync'[n].items = sync[n].items
               /\ sync'[n].batch = sync[n].batch /\ sync'[n].touched = sync[n].touched \cup K
    <2>1. sync[n] \in Syncs /\ sync'[n] = [sync[n] EXCEPT !.touched = @ \cup K]
      BY <1>1 DEF SyncTyped, Touched
    <2> QED BY <2>1 DEF Syncs
  <1>2. ASSUME NEW n \in Nodes, ~(n \in N /\ sync[n] # NoSync) PROVE sync'[n] = sync[n]
    BY <1>2 DEF Touched
  <1>3. SyncTyped'
    <2>1. sync' = [n \in Nodes |-> sync'[n]]
      BY DEF Touched
    <2>2. \A n \in Nodes : sync'[n] \in {NoSync} \cup Syncs
      BY <1>1, <1>2 DEF SyncTyped
    <2> QED BY <2>1, <2>2 DEF SyncTyped
  <1> QED BY <1>1, <1>2, <1>3, ConstantRecords

\* A registration by others than the sync of the node (Register).
LEMMA RegisterKeeps ==
  ASSUME CoverInv, NEW m \in Nodes, NEW items \in SUBSET Leaves, OnePerKey(items),
         Register(m, items)
  PROVE  ArchiveTyped' /\ SyncTyped' /\ \A n \in Nodes : SyncInv(n)'
  <1>1. ArchiveTyped /\ SyncTyped /\ \A n \in Nodes : SyncInv(n)
    BY CoverParts DEF Typed
  <1>2. leaves' = [leaves EXCEPT ![m] = Upserted(leaves[m], items)] /\ sync' = Touched({m}, KeysOf(items))
    BY DEF Register
  <1>3. KeysOf(items) \in SUBSET Keys
    BY KeyOfLeaf
  <1>4. /\ leaves'[m] = Upserted(leaves[m], items)
        /\ \A n \in Nodes : n # m => leaves'[n] = leaves[n]
    BY <1>1, <1>2 DEF ArchiveTyped
  <1>5. ArchiveTyped'
    BY <1>1, <1>2, <1>4, UpsertedLeaves DEF ArchiveTyped
  <1>6. ASSUME NEW n \in Nodes PROVE KeysOf(leaves[n]) \subseteq KeysOf(leaves'[n])
    BY <1>1, <1>4, UpsertedLeaves DEF ArchiveTyped
  <1>7. ASSUME NEW n \in Nodes PROVE SyncInv(n)'
    <2>1. CASE sync[n].roots = {}
      <3>1. sync[n].items = {} /\ sync[n].batch = {}
        BY <1>1, <2>1 DEF SyncInv
      <3> QED BY <1>1, <1>2, <1>3, <2>1, <3>1, SyncEmpty, TouchedSyncs
    <2>2. CASE sync[n].roots # {}
      <3>1. sync[n].server \in Nodes
        BY <1>1, <2>2, ConstantRecords DEF SyncTyped, Syncs
      <3>2. \A l \in sync[n].roots : l[1] \notin sync'[n].touched =>
              (l \in leaves[n] => l \in leaves'[n])
        <4>1. CASE n = m
          <5>1. KeysOf(items) \subseteq sync'[n].touched
            <6>1. ASSUME NEW K \in SUBSET Keys, sync' = Touched({m}, K)
                  PROVE  sync[m].roots = {} \/ K \subseteq sync'[m].touched
              BY <1>1, <6>1, TouchedSyncs
            <6> QED BY <1>2, <1>3, <2>2, <4>1, <6>1
          <5>2. \A l \in leaves[n] : l[1] \in KeysOf(items) \/ l \in leaves'[n]
            BY <1>1, <1>4, <4>1, UpsertedLeaves DEF ArchiveTyped
          <5> QED BY <5>1, <5>2
        <4> QED BY <1>4, <4>1
      <3>3. KeysOf(leaves[sync[n].server]) \subseteq KeysOf(leaves'[sync[n].server])
        BY <1>6, <3>1
      <3>4. /\ sync'[n].pc = sync[n].pc /\ sync'[n].server = sync[n].server
            /\ sync'[n].roots = sync[n].roots /\ sync'[n].todo = sync[n].todo
            /\ sync'[n].keys = sync[n].keys /\ sync'[n].items = sync[n].items
            /\ sync'[n].batch = sync[n].batch /\ sync[n].touched \subseteq sync'[n].touched
        BY <1>1, <1>2, <1>3, TouchedSyncs
      <3> QED BY <1>1, <3>2, <3>3, <3>4, SyncSame
    <2> QED BY <2>1, <2>2
  <1> QED BY <1>1, <1>2, <1>3, <1>5, <1>7, TouchedSyncs

\* The servers delete a universe: its keys are noted by the syncs of the node
\* and by the syncs with it.
LEMMA DeleteRootKeeps ==
  ASSUME CoverInv, NEW m \in Nodes, NEW u \in Unis, DeleteRoot(m, u) PROVE CoverInv'
  <1> DEFINE N == {m} \cup {o \in Nodes : sync[o].server = m}
             K == {k \in Keys : Uni[k] = u}
  <1>1. Typed /\ \A n \in Nodes : SyncInv(n)
    BY CoverParts
  <1>2. /\ leaves' = [leaves EXCEPT ![m] = leaves[m] \ Root(leaves[m], u)] /\ sync' = Touched(N, K)
        /\ UNCHANGED <<best, made, fed, reqs, envoy, pushes, calls, cancelled, silent>>
    BY DEF DeleteRoot, Disturb, Disturbed
  <1>3. /\ leaves'[m] = leaves[m] \ Root(leaves[m], u)
        /\ \A n \in Nodes : n # m => leaves'[n] = leaves[n]
    BY <1>1, <1>2 DEF Typed, ArchiveTyped
  <1>4. ArchiveTyped'
    BY <1>1, <1>2, <1>3 DEF Typed, ArchiveTyped, OnePerKey
  <1>5. SyncTyped /\ K \in SUBSET Keys
    BY <1>1 DEF Typed
  <1>6. /\ SyncTyped'
        /\ \A n \in Nodes :
              /\ sync'[n].pc = sync[n].pc /\ sync'[n].server = sync[n].server
              /\ sync'[n].roots = sync[n].roots /\ sync'[n].todo = sync[n].todo
              /\ sync'[n].keys = sync[n].keys /\ sync'[n].items = sync[n].items
              /\ sync'[n].batch = sync[n].batch /\ sync[n].touched \subseteq sync'[n].touched
              /\ n \in N => sync[n].roots = {} \/ K \subseteq sync'[n].touched
    <2> HIDE DEF N, K
    <2> QED BY <1>2, <1>5, TouchedSyncs
  <1>7. \A l \in leaves[m] : l \notin leaves'[m] => l[1] \in K
    BY <1>1, <1>3, KeyOfLeaf DEF Typed, ArchiveTyped, Root
  <1>8. \A k \in KeysOf(leaves[m]) : k \notin KeysOf(leaves'[m]) => k \in K
    <2> HIDE DEF K
    <2> QED BY <1>7 DEF KeysOf
  <1>9. ASSUME NEW n \in Nodes PROVE SyncInv(n)'
    <2>1. ASSUME NEW l \in sync[n].roots, l[1] \notin sync'[n].touched
          PROVE  /\ l[1] \in KeysOf(leaves[sync[n].server]) =>
                      l[1] \in KeysOf(leaves'[sync[n].server])
                 /\ l \in leaves[n] => l \in leaves'[n]
      <3>1. n \in N => l[1] \notin K
        BY <1>6, <2>1
      <3>2. n = m \/ sync[n].server = m => n \in N
        OBVIOUS
      <3>3. sync[n].server \in Nodes
        BY <1>5, <2>1, ConstantRecords DEF SyncTyped, Syncs
      <3> HIDE DEF N, K
      <3>4. l \in leaves[n] => l \in leaves'[n]
        BY <1>3, <1>7, <3>1, <3>2
      <3>5. l[1] \in KeysOf(leaves[sync[n].server]) => l[1] \in KeysOf(leaves'[sync[n].server])
        BY <1>3, <1>8, <3>1, <3>2, <3>3
      <3> QED BY <3>4, <3>5
    <2>2. SyncInv(n)
      BY <1>1
    <2> QED BY <1>6, <2>1, <2>2, SyncSame
  <1>10. Typed'
    BY <1>1, <1>2, <1>4, <1>6
    DEF Typed, ChainTyped, EnvoyTyped, RequestsTyped, ServersTyped
  <1> QED BY <1>9, <1>10, CoverParts

(***************************************************************************)
(* Requests, pushes, servers and re-organisations.                         *)
(***************************************************************************)
\* Steps that touch neither an archive nor a sync only have types to keep.
LEMMA QuietKeeps == ASSUME CoverInv, Typed', UNCHANGED <<leaves, sync>> PROVE CoverInv'
  BY CoverParts DEF SyncInv

\* A minter makes the proofs of its batch.
LEMMA MintKeeps == ASSUME CoverInv, NEW n \in Nodes, Mint(n) PROVE CoverInv'
  <1> DEFINE batch == {k \in Keys : Home[k] = n}
             items == {<<k, best[k]>> : k \in batch}
             r == [home |-> n, items |-> items, update |-> FALSE]
  <1>1. Typed
    BY CoverParts
  <1>2. /\ reqs' = reqs \cup {r}
        /\ made' = [k \in Keys |-> IF k \in batch THEN best[k] ELSE made[k]]
        /\ UNCHANGED <<best, leaves, fed, envoy, pushes, calls, sync, cancelled, silent>>
    BY DEF Mint, network
  <1>3. items \in SUBSET Leaves /\ OnePerKey(items)
    BY <1>1 DEF Typed, ChainTyped, Leaves, OnePerKey
  <1>4. ChainTyped'
    BY <1>1, <1>2 DEF Typed, ChainTyped
  <1> HIDE DEF batch, items
  <1>5. r \in Requests /\ r.items = items
    BY <1>3 DEF Requests
  <1> HIDE DEF r
  <1>6. RequestsTyped'
    BY <1>1, <1>2, <1>3, <1>5 DEF Typed, RequestsTyped
  <1>7. Typed'
    BY <1>1, <1>2, <1>4, <1>6 DEF Typed, ArchiveTyped, EnvoyTyped, SyncTyped, ServersTyped
  <1> QED BY <1>2, <1>7, QuietKeeps

\* The re-org watcher makes a proof again.
LEMMA UpdateKeeps == ASSUME CoverInv, NEW k \in Keys, UpdateMintingProof(k) PROVE CoverInv'
  <1> DEFINE r == [home |-> Home[k], items |-> {<<k, best[k]>>}, update |-> TRUE]
  <1>1. Typed
    BY CoverParts
  <1>2. /\ reqs' = reqs \cup {r} /\ made' = [made EXCEPT ![k] = best[k]]
        /\ UNCHANGED <<best, leaves, fed, envoy, pushes, calls, sync, cancelled, silent>>
    BY DEF UpdateMintingProof, network
  <1>3. {<<k, best[k]>>} \in SUBSET Leaves /\ OnePerKey({<<k, best[k]>>})
    BY <1>1 DEF Typed, ChainTyped, Leaves, OnePerKey
  <1>4. ChainTyped'
    BY <1>1, <1>2 DEF Typed, ChainTyped
  <1>5. r \in Requests /\ OnePerKey(r.items)
    BY <1>3, FederationAssumption DEF Requests
  <1> HIDE DEF r
  <1>6. RequestsTyped'
    BY <1>1, <1>2, <1>5 DEF Typed, RequestsTyped
  <1>7. Typed'
    BY <1>1, <1>2, <1>4, <1>6 DEF Typed, ArchiveTyped, EnvoyTyped, SyncTyped, ServersTyped
  <1> QED BY <1>2, <1>7, QuietKeeps

\* Pushes are typed.
LEMMA PushesOfTyped ==
  ASSUME Typed, NEW n \in Nodes, NEW items \in SUBSET Leaves
  PROVE  PushesOf(n, items) \subseteq Pushes
  BY DEF PushesOf, Pushes, Typed, ServersTyped

\* The envoy takes a request.
LEMMA TakeRequestKeeps ==
  ASSUME CoverInv, NEW n \in Nodes, NEW r \in reqs, TakeRequest(n, r) PROVE CoverInv'
  <1>1. Typed
    BY CoverParts
  <1>2. r \in Requests /\ OnePerKey(r.items) /\ r.items \in SUBSET Leaves
    BY <1>1 DEF Typed, RequestsTyped, Requests
  <1>3. /\ reqs' = reqs \ {r} /\ UNCHANGED <<best, made, leaves, fed, calls, sync, cancelled, silent>>
        /\ pushes' \in {pushes, pushes \cup PushesOf(n, r.items)}
        /\ \/ UNCHANGED envoy
           \/ envoy' = [envoy EXCEPT ![n] = [pc |-> "insert", items |-> r.items]]
    BY DEF TakeRequest, archive, network
  <1>4. pushes' \subseteq Pushes
    BY <1>1, <1>2, <1>3, PushesOfTyped DEF Typed
  <1>5. EnvoyTyped'
    BY <1>1, <1>2, <1>3 DEF Typed, EnvoyTyped, Envoys
  <1>6. Typed'
    BY <1>1, <1>3, <1>4, <1>5
    DEF Typed, ChainTyped, ArchiveTyped, RequestsTyped, SyncTyped, ServersTyped
  <1> QED BY <1>3, <1>6, QuietKeeps

\* The envoy inserts it.
LEMMA InsertRequestKeeps == ASSUME CoverInv, NEW n \in Nodes, InsertRequest(n) PROVE CoverInv'
  <1>1. Typed /\ envoy[n].items \in SUBSET Leaves /\ OnePerKey(envoy[n].items)
    BY CoverParts DEF Typed, EnvoyTyped, Envoys
  <1>2. /\ Register(n, envoy[n].items) /\ pushes' = pushes \cup PushesOf(n, envoy[n].items)
        /\ envoy' = [envoy EXCEPT ![n] = Selecting]
        /\ UNCHANGED <<best, made, fed, reqs, calls, cancelled, silent>>
    BY DEF InsertRequest, network
  <1>3. ArchiveTyped' /\ SyncTyped' /\ \A m \in Nodes : SyncInv(m)'
    BY <1>1, <1>2, RegisterKeeps
  <1>4. EnvoyTyped'
    BY <1>1, <1>2, ConstantRecords DEF Typed, EnvoyTyped, OnePerKey
  <1>5. pushes' \subseteq Pushes
    BY <1>1, <1>2, PushesOfTyped DEF Typed
  <1>6. Typed'
    BY <1>1, <1>2, <1>3, <1>4, <1>5 DEF Typed, ChainTyped, RequestsTyped, ServersTyped
  <1> QED BY <1>3, <1>6, CoverParts

\* Ticks and their return.
LEMMA TickKeeps == ASSUME CoverInv, NEW n \in Nodes, Tick(n) \/ TickReturns(n) PROVE CoverInv'
  <1>1. Typed
    BY CoverParts
  <1>2. UNCHANGED <<best, made, leaves, fed, reqs, pushes, sync, silent>>
    BY DEF Tick, TickReturns, archive, network
  <1>3. EnvoyTyped'
    BY <1>1, ConstantRecords DEF Tick, TickReturns, Typed, EnvoyTyped, Envoys, OnePerKey
  <1>4. ServersTyped'
    <2>1. CallsTo(fed[n], "tick") \subseteq Calls
      BY <1>1, CallsToTyped DEF Typed, ServersTyped, Callers
    <2> QED BY <1>1, <1>2, <2>1 DEF Tick, TickReturns, Typed, ServersTyped
  <1>5. Typed'
    BY <1>1, <1>2, <1>3, <1>4 DEF Typed, ChainTyped, ArchiveTyped, RequestsTyped, SyncTyped
  <1> QED BY <1>2, <1>5, QuietKeeps

\* What the user does to the servers of the federation.
LEMMA ServerKeeps ==
  ASSUME CoverInv, NEW n \in Nodes, NEW s \in Nodes,
         AddServer(n, s) \/ RemoveServer(n, s) \/ SyncUniverse(n, s)
  PROVE  CoverInv'
  <1>1. Typed
    BY CoverParts
  <1>2. UNCHANGED <<best, made, leaves, reqs, envoy, pushes, sync, silent>>
    BY DEF AddServer, RemoveServer, SyncUniverse, archive, Disturb, Disturbed
  <1>3. ServersTyped'
    <2>1. CallsTo({s}, "add") \subseteq Calls /\ CallsTo({s}, "user") \subseteq Calls
      BY CallsToTyped DEF Callers
    <2>2. CASE AddServer(n, s)
      <3>1. \/ UNCHANGED <<fed, calls, cancelled, silent>>
            \/ /\ fed' = [fed EXCEPT ![n] = @ \cup {s}]
               /\ calls' = [calls EXCEPT ![n] = @ \cup CallsTo({s}, "add")]
               /\ cancelled' = [cancelled EXCEPT ![n] = @ \ {"add"}]
        BY <2>2 DEF AddServer, AddServers
      <3>2. fed' \in [Nodes -> SUBSET Nodes] /\ cancelled' \in [Nodes -> SUBSET Callers]
        BY <1>1, <3>1 DEF Typed, ServersTyped
      <3>3. calls' \in [Nodes -> SUBSET Calls]
        <4>1. calls \in [Nodes -> SUBSET Calls] /\ calls[n] \cup CallsTo({s}, "add") \in SUBSET Calls
          BY <1>1, <2>1 DEF Typed, ServersTyped
        <4> QED BY <3>1, <4>1
      <3> QED BY <1>1, <1>2, <3>2, <3>3 DEF Typed, ServersTyped
    <2>3. CASE RemoveServer(n, s)
      BY <1>1, <1>2, <2>3 DEF RemoveServer, Typed, ServersTyped
    <2>4. CASE SyncUniverse(n, s)
      BY <1>1, <1>2, <2>1, <2>4 DEF SyncUniverse, Typed, ServersTyped
    <2> QED BY <2>2, <2>3, <2>4
  <1>4. Typed'
    BY <1>1, <1>2, <1>3 DEF Typed, ChainTyped, ArchiveTyped, EnvoyTyped, RequestsTyped, SyncTyped
  <1> QED BY <1>2, <1>4, QuietKeeps

\* A pushed proof is verified or dropped.
LEMMA InsertProofKeeps ==
  ASSUME CoverInv, NEW p \in pushes, InsertProof(p) \/ LosePush(p) PROVE CoverInv'
  <1>1. Typed /\ p \in Pushes
    BY CoverParts DEF Typed
  <1>2. UNCHANGED <<best, made, leaves, fed, reqs, envoy, calls, sync, cancelled, silent>>
    BY DEF InsertProof, LosePush, CallFails, Disturb, Disturbed, archive, network
  <1>3. pushes' \subseteq Pushes
    <2>1. [p EXCEPT !.verified = TRUE] \in Pushes
      BY <1>1 DEF Pushes
    <2>2. AfterError(p) \subseteq Pushes
      BY <1>1 DEF AfterError, Typed
    <2> QED BY <1>1, <2>1, <2>2 DEF InsertProof, LosePush, Typed
  <1>4. Typed'
    BY <1>1, <1>2, <1>3
    DEF Typed, ChainTyped, ArchiveTyped, EnvoyTyped, RequestsTyped, SyncTyped, ServersTyped
  <1> QED BY <1>2, <1>4, QuietKeeps

\* A pushed proof is inserted.
LEMMA FinishInsertKeeps ==
  ASSUME CoverInv, NEW p \in pushes, FinishInsertProof(p) PROVE CoverInv'
  <1>1. Typed /\ p.to \in Nodes /\ {p.leaf} \in SUBSET Leaves /\ OnePerKey({p.leaf})
    BY CoverParts DEF Typed, Pushes, OnePerKey
  <1>2. /\ Register(p.to, {p.leaf}) /\ pushes' = pushes \ {p}
        /\ UNCHANGED <<best, made, fed, reqs, envoy, calls, cancelled, silent>>
    BY DEF FinishInsertProof, network
  <1>3. ArchiveTyped' /\ SyncTyped' /\ \A m \in Nodes : SyncInv(m)'
    BY <1>1, <1>2, RegisterKeeps
  <1>4. Typed'
    BY <1>1, <1>2, <1>3 DEF Typed, ChainTyped, EnvoyTyped, RequestsTyped, ServersTyped
  <1> QED BY <1>3, <1>4, CoverParts

\* The best chain changes.
LEMMA ReorgKeeps == ASSUME CoverInv, NEW k \in Keys, Reorg(k) PROVE CoverInv'
  <1>1. Typed
    BY CoverParts
  <1>2. UNCHANGED <<made, leaves, fed, reqs, envoy, pushes, calls, sync, cancelled, silent>>
    BY DEF Reorg, Disturb, Disturbed
  <1>3. ChainTyped'
    BY <1>1 DEF Reorg, Typed, ChainTyped
  <1>4. Typed'
    BY <1>1, <1>2, <1>3 DEF Typed, ArchiveTyped, EnvoyTyped, RequestsTyped, SyncTyped, ServersTyped
  <1> QED BY <1>2, <1>4, QuietKeeps

\* A server stops answering.
LEMMA FallSilentKeeps == ASSUME CoverInv, NEW s \in Nodes, FallSilent(s) PROVE CoverInv'
  <1>1. /\ UNCHANGED <<best, made, leaves, fed, reqs, envoy, pushes, calls, sync, cancelled>>
        /\ silent' = silent \cup {s}
    BY DEF FallSilent, Disturbed, archive
  <1>2. Typed'
    BY <1>1, CoverParts
    DEF Typed, ChainTyped, ArchiveTyped, EnvoyTyped, RequestsTyped, SyncTyped, ServersTyped
  <1> QED BY <1>1, <1>2, QuietKeeps

(***************************************************************************)
(* The syncer.                                                             *)
(***************************************************************************)
\* A step of the sync of n that leaves its archive alone.
LEMMA AdvanceKeeps ==
  ASSUME CoverInv, NEW n \in Nodes, NEW s \in {NoSync} \cup Syncs, sync' = [sync EXCEPT ![n] = s],
         SyncInv(n)', ServersTyped',
         UNCHANGED <<best, made, leaves, reqs, envoy, pushes>>
  PROVE  CoverInv'
  <1>1. Typed /\ \A m \in Nodes : SyncInv(m)
    BY CoverParts
  <1>2. SyncTyped' /\ \A m \in Nodes : m # n => sync'[m] = sync[m]
    BY <1>1 DEF Typed, SyncTyped
  <1>3. \A m \in Nodes : m # n => SyncInv(m)'
    BY <1>1, <1>2, SyncSame
  <1>4. Typed'
    BY <1>1, <1>2 DEF Typed, ChainTyped, ArchiveTyped, EnvoyTyped, RequestsTyped
  <1> QED BY <1>3, <1>4, CoverParts

\* A sync that fails or ends.
LEMMA EndKeeps ==
  ASSUME CoverInv, NEW n \in Nodes, sync' = [sync EXCEPT ![n] = NoSync],
         UNCHANGED cancelled \/ Cancel(n, sync[n].by), UNCHANGED <<best, made, leaves>>,
         UNCHANGED <<fed, calls, reqs, envoy, pushes, silent>>
  PROVE  CoverInv'
  <1>1. Typed
    BY CoverParts
  <1>2. sync'[n] = NoSync
    BY <1>1 DEF Typed, SyncTyped
  <1>3. ServersTyped'
    BY <1>1 DEF Typed, ServersTyped, Cancel, Callers
  <1> QED BY <1>2, <1>3, ConstantRecords, SyncEmpty, AdvanceKeeps

\* A call begins a sync or is refused.
LEMMA StartSyncKeeps ==
  ASSUME CoverInv, NEW n \in Nodes, NEW c \in calls[n], StartSync(n, c) PROVE CoverInv'
  <1>1. Typed /\ c \in Calls
    BY CoverParts DEF Typed, ServersTyped
  <1>2. /\ calls' = [calls EXCEPT ![n] = calls[n] \ {c}]
        /\ UNCHANGED <<best, made, leaves, fed, reqs, envoy, pushes, silent>>
        /\ cancelled' = cancelled \/ Cancel(n, c.by)
    BY DEF StartSync, archive, network
  <1>3. ServersTyped'
    BY <1>1, <1>2 DEF Typed, ServersTyped, Cancel, Callers, Calls
  <1>4. CASE sync' = [sync EXCEPT ![n] = Sync("roots", c.server, c.by)]
    <2> DEFINE s == Sync("roots", c.server, c.by)
    <2>1. s \in Syncs /\ s.roots = {} /\ s.items = {} /\ s.batch = {}
      BY <1>1 DEF Sync, Syncs, Calls
    <2> HIDE DEF s
    <2>2. sync' = [sync EXCEPT ![n] = s]
      BY <1>4 DEF s
    <2>3. sync'[n] = s
      BY <1>1, <2>2 DEF Typed, SyncTyped
    <2> QED BY <1>2, <1>3, <2>1, <2>2, <2>3, SyncEmpty, AdvanceKeeps
  <1>5. CASE UNCHANGED sync
    <2>1. Typed'
      BY <1>1, <1>2, <1>3, <1>5 DEF Typed, ChainTyped, ArchiveTyped, EnvoyTyped, RequestsTyped, SyncTyped
    <2> QED BY <1>2, <1>5, <2>1, QuietKeeps
  <1> QED BY <1>4, <1>5 DEF StartSync

\* What a sync that runs has: its record, its server and the part of the
\* invariant that is about it.
LEMMA RunningSync ==
  ASSUME CoverInv, NEW n \in Nodes, sync[n].pc \in {"roots", "leaves"}
  PROVE  /\ sync[n] \in Syncs /\ sync[n].server \in Nodes /\ SyncInv(n) /\ Typed
         /\ leaves[n] \in SUBSET Leaves /\ leaves[sync[n].server] \in SUBSET Leaves
         /\ OnePerKey(leaves[n]) /\ OnePerKey(leaves[sync[n].server])
  <1>1. Typed /\ SyncInv(n)
    BY CoverParts
  <1>2. sync[n] \in Syncs
    BY <1>1, ConstantRecords DEF Typed, SyncTyped
  <1>3. sync[n].server \in Nodes
    BY <1>2 DEF Syncs
  <1> QED BY <1>1, <1>2, <1>3 DEF Typed, ArchiveTyped

\* The frame of the steps that go on with a sync.
LEMMA SyncFrameKeeps ==
  ASSUME CoverInv, NEW n \in Nodes, NEW s \in Syncs, Advance(n, s), SyncFrame, UNCHANGED leaves,
         SyncInv(n)'
  PROVE  CoverInv'
  <1>1. Typed
    BY CoverParts
  <1>2. ServersTyped'
    BY <1>1 DEF Typed, ServersTyped, Advance, SyncFrame, network
  <1> QED BY <1>2, AdvanceKeeps DEF Advance, SyncFrame

\* The roots are fetched: every universe of them is to be compared.
LEMMA FetchRootsKeeps == ASSUME CoverInv, NEW n \in Nodes, FetchRoots(n) PROVE CoverInv'
  <1> DEFINE remote == leaves[sync[n].server]
             s == [sync[n] EXCEPT !.pc = "leaves", !.roots = remote,
                                  !.todo = {Uni[k] : k \in KeysOf(remote)}]
  <1>1. sync[n].pc = "roots" /\ Advance(n, s) /\ UNCHANGED leaves /\ SyncFrame
    BY DEF FetchRoots, Running
  <1>2. /\ sync[n] \in Syncs /\ SyncInv(n) /\ Typed /\ remote \in SUBSET Leaves /\ OnePerKey(remote)
    BY <1>1, RunningSync
  <1>3. KeysOf(remote) \in SUBSET Keys /\ \A l \in remote : l[1] \in KeysOf(remote)
    BY <1>2, KeyOfLeaf
  <1> HIDE DEF remote
  <1>4. /\ s \in Syncs /\ s.roots = remote /\ s.server = sync[n].server /\ s.items = sync[n].items
        /\ s.batch = sync[n].batch /\ s.todo = {Uni[k] : k \in KeysOf(remote)} /\ s.pc = "leaves"
    BY <1>2, <1>3 DEF Syncs, Unis
  <1> HIDE DEF s
  <1>5. sync'[n] = s
    BY <1>1, <1>2 DEF Advance, Typed, SyncTyped
  <1>6. SyncInv(n)'
    <2>1. sync[n].items = {} /\ sync[n].batch = {}
      BY <1>1, <1>2 DEF SyncInv
    <2>2. \A l \in remote : l[1] \in KeysOf(remote) /\ Uni[l[1]] \in s.todo
      BY <1>3, <1>4
    <2> QED BY <1>1, <1>2, <1>4, <1>5, <2>1, <2>2 DEF SyncInv, remote
  <1> QED BY <1>1, <1>4, <1>6, SyncFrameKeeps

\* A universe is compared: it is at the node, or all its keys are fetched.
LEMMA SyncRootKeeps ==
  ASSUME CoverInv, NEW n \in Nodes, NEW u \in Unis, SyncRoot(n, u) PROVE CoverInv'
  <1> DEFINE same == Root(leaves[n], u) = Root(sync[n].roots, u)
             keys == IF same THEN sync[n].keys ELSE sync[n].keys \cup KeysToFetch(n, u)
             s == [sync[n] EXCEPT !.todo = @ \ {u}, !.keys = keys]
  <1>1. sync[n].pc = "leaves" /\ Advance(n, s) /\ UNCHANGED leaves /\ SyncFrame
    BY DEF SyncRoot, Running
  <1>2. /\ sync[n] \in Syncs /\ SyncInv(n) /\ Typed /\ leaves[sync[n].server] \in SUBSET Leaves
    BY <1>1, RunningSync
  <1>3. /\ keys \in SUBSET Keys /\ sync[n].keys \subseteq keys
        /\ same \/ KeysToFetch(n, u) \subseteq keys
    <2>1. Root(leaves[sync[n].server], u) \in SUBSET Leaves
      BY <1>2 DEF Root
    <2>2. KeysToFetch(n, u) \in SUBSET Keys
      BY <2>1, KeyOfLeaf DEF KeysToFetch
    <2> QED BY <1>2, <2>2 DEF Syncs
  <1> HIDE DEF keys
  <1>4. /\ s \in Syncs /\ s.roots = sync[n].roots /\ s.server = sync[n].server
        /\ s.items = sync[n].items /\ s.batch = sync[n].batch /\ s.todo = sync[n].todo \ {u}
        /\ s.pc = "leaves" /\ s.keys = keys /\ s.touched = sync[n].touched
    BY <1>1, <1>2, <1>3 DEF Syncs
  <1> HIDE DEF s
  <1>5. sync'[n] = s
    BY <1>1, <1>2 DEF Advance, Typed, SyncTyped
  <1>6. ASSUME NEW l \in sync[n].roots, l[1] \notin sync[n].touched, Uni[l[1]] = u
        PROVE  l[1] \in keys \/ l \in leaves[n]
    <2>1. l \in Root(sync[n].roots, u)
      BY <1>6 DEF Root
    <2>2. CASE same
      BY <2>1, <2>2 DEF Root
    <2>3. CASE ~same
      <3>1. l[1] \in KeysOf(leaves[sync[n].server])
        BY <1>2, <1>6 DEF SyncInv
      <3>2. l[1] \in KeysToFetch(n, u)
        BY <1>6, <3>1 DEF KeysToFetch, KeysOf, Root
      <3> QED BY <1>3, <2>3, <3>2
    <2> QED BY <2>2, <2>3
  <1> HIDE DEF same
  <1>7. SyncInv(n)'
    <2>1. ASSUME NEW l \in s.roots, l[1] \notin s.touched
          PROVE  /\ l[1] \in KeysOf(leaves'[s.server])
                 /\ Uni[l[1]] \in s.todo \/ l[1] \in s.keys \/ l \in s.items \/ l \in leaves'[n]
      BY <1>1, <1>2, <1>3, <1>4, <1>6, <2>1 DEF SyncInv
    <2> QED BY <1>1, <1>2, <1>4, <1>5, <2>1 DEF SyncInv
  <1> QED BY <1>1, <1>4, <1>7, SyncFrameKeeps

\* A proof is fetched: it is of the root that was fetched first.
LEMMA FetchProofKeeps ==
  ASSUME CoverInv, NEW n \in Nodes, NEW k \in Keys, FetchIssuanceProof(n, k) PROVE CoverInv'
  <1> DEFINE found == {l \in leaves[sync[n].server] : l[1] = k}
             s == [sync[n] EXCEPT !.keys = @ \ {k}, !.items = @ \cup found]
  <1>1. /\ sync[n].pc = "leaves" /\ UNCHANGED leaves /\ SyncFrame
        /\ FailSync(n) \/ (VerifyRoot(n, k) /\ Advance(n, s))
    BY DEF FetchIssuanceProof, Running
  <1>2. /\ sync[n] \in Syncs /\ SyncInv(n) /\ Typed /\ leaves[sync[n].server] \in SUBSET Leaves
    BY <1>1, RunningSync
  <1>3. CASE FailSync(n)
    BY <1>1, <1>3, EndKeeps DEF FailSync, SyncFrame, network
  <1>4. CASE VerifyRoot(n, k) /\ Advance(n, s)
    <2>1. /\ found \in SUBSET Leaves /\ found \subseteq sync[n].roots
          /\ \A l \in sync[n].roots : l[1] = k => l \in found
      BY <1>2, <1>4 DEF VerifyRoot, Root
    <2> HIDE DEF found
    <2>2. /\ s \in Syncs /\ s.roots = sync[n].roots /\ s.server = sync[n].server
          /\ s.items = sync[n].items \cup found /\ s.batch = sync[n].batch /\ s.todo = sync[n].todo
          /\ s.pc = "leaves" /\ s.keys = sync[n].keys \ {k} /\ s.touched = sync[n].touched
      BY <1>1, <1>2, <2>1 DEF Syncs
    <2> HIDE DEF s
    <2>3. sync'[n] = s
      BY <1>2, <1>4 DEF Advance, Typed, SyncTyped
    <2>4. SyncInv(n)'
      <3>1. ASSUME NEW l \in s.roots, l[1] \notin s.touched
            PROVE  /\ l[1] \in KeysOf(leaves'[s.server])
                   /\ Uni[l[1]] \in s.todo \/ l[1] \in s.keys \/ l \in s.items \/ l \in leaves'[n]
        BY <1>1, <1>2, <2>1, <2>2, <3>1 DEF SyncInv
      <3> QED BY <1>1, <1>2, <2>1, <2>2, <2>3, <3>1 DEF SyncInv
    <2> QED BY <1>1, <1>4, <2>2, <2>4, SyncFrameKeeps
  <1> QED BY <1>1, <1>3, <1>4

\* A batch is verified: it is part of what was fetched.
LEMMA VerifyBatchKeeps ==
  ASSUME CoverInv, NEW n \in Nodes, NEW u \in Unis, NEW b, VerifyBatch(n, u, b) PROVE CoverInv'
  <1> DEFINE s == [sync[n] EXCEPT !.batch = b]
  <1>1. /\ sync[n].pc = "leaves" /\ UNCHANGED leaves /\ SyncFrame /\ b \subseteq sync[n].items
        /\ FailSync(n) \/ Advance(n, s)
    BY DEF VerifyBatch, Running, IsBatch, Root
  <1>2. sync[n] \in Syncs /\ SyncInv(n) /\ Typed
    BY <1>1, RunningSync
  <1>3. CASE FailSync(n)
    BY <1>1, <1>3, EndKeeps DEF FailSync, SyncFrame, network
  <1>4. CASE Advance(n, s)
    <2>1. /\ s \in Syncs /\ s.roots = sync[n].roots /\ s.server = sync[n].server
          /\ s.items = sync[n].items /\ s.batch = b /\ s.todo = sync[n].todo
          /\ s.pc = "leaves" /\ s.keys = sync[n].keys /\ s.touched = sync[n].touched
      BY <1>1, <1>2 DEF Syncs
    <2> HIDE DEF s
    <2>2. sync'[n] = s
      BY <1>2, <1>4 DEF Advance, Typed, SyncTyped
    <2>3. SyncInv(n)'
      BY <1>1, <1>2, <2>1, <2>2 DEF SyncInv
    <2> QED BY <1>1, <1>4, <2>1, <2>3, SyncFrameKeeps
  <1> QED BY <1>1, <1>3, <1>4

\* A batch is inserted: its leaves displace no other leaf of the roots.
LEMMA InsertBatchKeeps == ASSUME CoverInv, NEW n \in Nodes, InsertBatch(n) PROVE CoverInv'
  <1> DEFINE batch == sync[n].batch
             s == [sync[n] EXCEPT !.items = @ \ batch, !.batch = {}]
  <1>1. /\ sync[n].pc = "leaves" /\ SyncFrame /\ Advance(n, s)
        /\ leaves' = [leaves EXCEPT ![n] = Upserted(leaves[n], batch)]
    BY DEF InsertBatch, Running
  <1>2. /\ sync[n] \in Syncs /\ SyncInv(n) /\ Typed /\ sync[n].server \in Nodes
        /\ leaves[n] \in SUBSET Leaves /\ OnePerKey(leaves[n])
    BY <1>1, RunningSync
  <1>3. /\ batch \in SUBSET Leaves /\ batch \subseteq sync[n].roots /\ OnePerKey(batch)
        /\ batch \subseteq sync[n].items /\ sync[n].items \in SUBSET Leaves
    BY <1>2 DEF SyncInv, Syncs, OnePerKey
  <1> HIDE DEF batch
  <1>4. /\ s \in Syncs /\ s.roots = sync[n].roots /\ s.server = sync[n].server
        /\ s.items = sync[n].items \ batch /\ s.batch = {} /\ s.todo = sync[n].todo
        /\ s.pc = "leaves" /\ s.keys = sync[n].keys /\ s.touched = sync[n].touched
    BY <1>1, <1>2, <1>3 DEF Syncs
  <1> HIDE DEF s
  <1>5. /\ sync' = [sync EXCEPT ![n] = s] /\ UNCHANGED cancelled /\ sync'[n] = s
        /\ \A m \in Nodes : m # n => sync'[m] = sync[m]
    BY <1>1, <1>2 DEF Advance, Typed, SyncTyped
  <1>6. /\ leaves'[n] = Upserted(leaves[n], batch)
        /\ \A m \in Nodes : m # n => leaves'[m] = leaves[m]
    BY <1>1, <1>2 DEF Typed, ArchiveTyped
  <1>7. /\ leaves'[n] \in SUBSET Leaves /\ OnePerKey(leaves'[n]) /\ batch \subseteq leaves'[n]
        /\ KeysOf(leaves[n]) \subseteq KeysOf(leaves'[n])
        /\ \A l \in leaves[n] : l[1] \in KeysOf(batch) \/ l \in leaves'[n]
    BY <1>2, <1>3, <1>6, UpsertedLeaves
  <1>8. ASSUME NEW m \in Nodes PROVE KeysOf(leaves[m]) \subseteq KeysOf(leaves'[m])
    BY <1>6, <1>7
  <1>9. \A l \in sync[n].roots : l \in leaves[n] => l \in leaves'[n]
    <2> SUFFICES ASSUME NEW l \in sync[n].roots, l \in leaves[n], l[1] \in KeysOf(batch)
                 PROVE  l \in leaves'[n]
      BY <1>7
    <2>1. PICK m \in batch : m[1] = l[1]
      BY DEF KeysOf
    <2>2. m = l
      BY <1>2, <1>3, <2>1 DEF SyncInv, OnePerKey
    <2> QED BY <1>7, <2>2
  <1>10. SyncInv(n)'
    <2>1. ASSUME NEW l \in s.roots, l[1] \notin s.touched
          PROVE  /\ l[1] \in KeysOf(leaves'[s.server])
                 /\ Uni[l[1]] \in s.todo \/ l[1] \in s.keys \/ l \in s.items \/ l \in leaves'[n]
      <3>1. /\ l[1] \in KeysOf(leaves[sync[n].server])
            /\ \/ Uni[l[1]] \in sync[n].todo \/ l[1] \in sync[n].keys
               \/ l \in sync[n].items \/ l \in leaves[n]
        BY <1>2, <1>4, <2>1 DEF SyncInv
      <3> QED BY <1>2, <1>4, <1>7, <1>8, <1>9, <2>1, <3>1
    <2> QED BY <1>2, <1>4, <1>5, <2>1 DEF SyncInv
  <1>11. ASSUME NEW m \in Nodes, m # n PROVE SyncInv(m)'
    <2>1. SyncInv(m)
      BY CoverParts
    <2>2. CASE sync[m].roots = {}
      BY <1>5, <1>11, <2>1, <2>2, SyncEmpty DEF SyncInv
    <2>3. CASE sync[m].roots # {}
      <3>1. sync[m].server \in Nodes
        BY <1>2, <2>3, ConstantRecords DEF Typed, SyncTyped, Syncs
      <3> QED BY <1>5, <1>6, <1>8, <1>11, <2>1, <3>1, SyncSame
    <2> QED BY <2>2, <2>3
  <1>12. Typed'
    <2>1. ArchiveTyped'
      BY <1>1, <1>2, <1>6, <1>7 DEF Typed, ArchiveTyped
    <2>2. SyncTyped'
      BY <1>2, <1>4, <1>5 DEF Typed, SyncTyped
    <2> QED BY <1>1, <1>2, <1>5, <2>1, <2>2
            DEF SyncFrame, network, Typed, ChainTyped, EnvoyTyped, RequestsTyped, ServersTyped
  <1> QED BY <1>10, <1>11, <1>12, CoverParts

(***************************************************************************)
(* Restarts, and every step.                                               *)
(***************************************************************************)
\* A restart ends the sync of the node and loses what is in its memory.
LEMMA RestartKeeps == ASSUME CoverInv, NEW n \in Nodes, Restart(n) PROVE CoverInv'
  <1> DEFINE r == [home |-> n, items |-> envoy[n].items, update |-> FALSE]
  <1>1. Typed
    BY CoverParts
  <1>2. /\ UNCHANGED <<best, made, leaves>> /\ sync' = [sync EXCEPT ![n] = NoSync]
        /\ reqs' \in {reqs, reqs \cup {r}} /\ envoy' = [envoy EXCEPT ![n] = Selecting]
        /\ pushes' \subseteq pushes /\ cancelled' = [cancelled EXCEPT ![n] = {}] /\ UNCHANGED silent
    BY DEF Restart, archive, Disturb, Disturbed
  <1>3. ServersTyped'
    <2>1. PICK S \in SUBSET (Static[n] \ silent) :
            \/ calls' = [calls EXCEPT ![n] = {}] /\ UNCHANGED fed
            \/ /\ fed' = [fed EXCEPT ![n] = @ \cup S]
               /\ calls' = [calls EXCEPT ![n] = CallsTo(S, "add")]
      BY DEF Restart
    <2>2. S \in SUBSET Nodes
      BY FederationAssumption
    <2>3. CallsTo(S, "add") \subseteq Calls
      BY <2>2, CallsToTyped DEF Callers
    <2> QED BY <1>1, <1>2, <2>1, <2>2, <2>3 DEF Typed, ServersTyped
  <1>4. EnvoyTyped'
    BY <1>1, <1>2, ConstantRecords DEF Typed, EnvoyTyped, OnePerKey
  <1>5. RequestsTyped'
    <2>1. r \in Requests /\ OnePerKey(r.items)
      BY <1>1 DEF Typed, EnvoyTyped, Envoys, Requests
    <2> HIDE DEF r
    <2> QED BY <1>1, <1>2, <2>1 DEF Typed, RequestsTyped
  <1>6. SyncTyped' /\ sync'[n] = NoSync /\ \A m \in Nodes : m # n => sync'[m] = sync[m]
    BY <1>1, <1>2 DEF Typed, SyncTyped
  <1>7. \A m \in Nodes : SyncInv(m)'
    <2>1. SyncInv(n)'
      BY <1>6, ConstantRecords, SyncEmpty
    <2>2. \A m \in Nodes : m # n => SyncInv(m)'
      BY <1>2, <1>6, CoverParts, SyncSame
    <2> QED BY <2>1, <2>2
  <1>8. Typed'
    BY <1>1, <1>2, <1>3, <1>4, <1>5, <1>6 DEF Typed, ChainTyped, ArchiveTyped
  <1> QED BY <1>7, <1>8, CoverParts

\* At the start there are no leaves and no sync.
LEMMA InitCover == Init => CoverInv
  <1> SUFFICES ASSUME Init PROVE CoverInv
    OBVIOUS
  <1>1. ChainTyped
    BY FederationAssumption DEF Init, ChainTyped
  <1>2. ArchiveTyped /\ EnvoyTyped /\ RequestsTyped /\ SyncTyped /\ pushes \subseteq Pushes
    BY ConstantRecords DEF Init, ArchiveTyped, EnvoyTyped, RequestsTyped, SyncTyped, OnePerKey
  <1>3. ServersTyped
    <2>1. \A n \in Nodes : Static[n] \in SUBSET Nodes
      BY FederationAssumption
    <2>2. \A n \in Nodes : CallsTo(Static[n], "add") \subseteq Calls
      BY <2>1, CallsToTyped DEF Callers
    <2> QED BY <2>1, <2>2 DEF Init, ServersTyped
  <1>4. \A n \in Nodes : SyncInv(n)
    BY ConstantRecords DEF Init, SyncInv, OnePerKey
  <1> QED BY <1>1, <1>2, <1>3, <1>4, CoverParts DEF Typed

\* Every step keeps the invariant.
LEMMA CoverStep == CoverInv /\ [Next]_vars => CoverInv'
  <1> SUFFICES ASSUME CoverInv, [Next]_vars PROVE CoverInv'
    OBVIOUS
  <1>1. CASE UNCHANGED vars
    <2>1. UNCHANGED <<best, made, leaves, fed, reqs, envoy, pushes, calls, sync, cancelled, silent>>
      BY <1>1 DEF vars
    <2>2. Typed'
      BY <2>1, CoverParts DEF Typed, ChainTyped, ArchiveTyped, EnvoyTyped, RequestsTyped, SyncTyped,
                              ServersTyped
    <2> QED BY <2>1, <2>2, QuietKeeps
  <1>2. ASSUME NEW n \in Nodes, EnvoyStep(n) PROVE CoverInv'
    BY <1>2, InsertRequestKeeps, TickKeeps, StartSyncKeeps DEF EnvoyStep
  <1>3. ASSUME NEW n \in Nodes, EndSync(n) \/ AbortSync(n) \/ LoseSync(n) PROVE CoverInv'
    <2>1. UNCHANGED <<best, made, leaves, fed, calls, reqs, envoy, pushes, silent>>
      BY <1>3 DEF EndSync, AbortSync, LoseSync, SyncFrame, CallFails, Disturb, Disturbed, archive, network
    <2> QED BY <1>3, <2>1, EndKeeps DEF EndSync, AbortSync, LoseSync, FailSync, Advance
  <1>4. ASSUME NEW n \in Nodes, SyncStep(n) PROVE CoverInv'
    BY <1>3, <1>4, FetchRootsKeeps, SyncRootKeeps, FetchProofKeeps, VerifyBatchKeeps, InsertBatchKeeps
    DEF SyncStep
  <1>5. ASSUME NEW n \in Nodes, UserStep(n) PROVE CoverInv'
    <2>1. Static[n] \cup Addable[n] \subseteq Nodes
      BY FederationAssumption
    <2> QED BY <1>5, <2>1, ServerKeeps, DeleteRootKeeps DEF UserStep
  <1>6. CASE PushStep
    BY <1>6, InsertProofKeeps, FinishInsertKeeps DEF PushStep
  <1>7. CASE Next
    BY <1>2, <1>3, <1>4, <1>5, <1>6, <1>7, MintKeeps, UpdateKeeps, TakeRequestKeeps, TickKeeps,
       InsertProofKeeps, ReorgKeeps, FallSilentKeeps, RestartKeeps DEF Next
  <1> QED BY <1>1, <1>7

(***************************************************************************)
(* The theorems.                                                           *)
(***************************************************************************)
\* The invariant holds in every state.
LEMMA CoverInvariant == Spec => []CoverInv
  BY InitCover, CoverStep, PTL DEF Spec

\* Archives, requests, pushes and syncs keep their types, and an archive never
\* has two proofs at one key, though syncs, pushes and the envoy write to it.
THEOREM FederationTypes == Spec => []TypeOK
  <1>1. CoverInv => TypeOK
    BY DEF CoverInv
  <1> QED BY <1>1, CoverInvariant, PTL

\* A sync that is about to report success (executeSync) has every leaf of the
\* roots it fetched first, but for keys others wrote or deleted meanwhile.
THEOREM SyncsCoverTheirRoots == Spec => []SyncedIsCovered
  <1>1. CoverInv => SyncedIsCovered
    BY DEF CoverInv, SyncInv, SyncedIsCovered, Complete
  <1> QED BY <1>1, CoverInvariant, PTL
=============================================================================
