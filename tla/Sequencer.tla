------------------------------ MODULE Sequencer ------------------------------
(***************************************************************************)
(* The commit pipeline of the sequencer: domain/operator.ts (accepting     *)
(* users' functions into the open commit), domain/op-sender.ts (inscribing *)
(* a full commit), domain/op-builder.ts (following the event list and      *)
(* rebuilding the newest space) and the op_commit collection, run by the   *)
(* main timer of init.ts while requests arrive at every await.             *)
(*                                                                         *)
(* A function is a member of Ops and a space is the sequence of the        *)
(* functions applied to it: what they do to balances is module Space's and *)
(* SwapPool's concern.  Inscription n is the n-th commit the sequencer     *)
(* broadcast; 0 stands for the empty parent and None for undefined.  The   *)
(* event list holds commit events only.                                    *)
(*                                                                         *)
(* pc is where the main timer is; every other action may happen between    *)
(* any two of its steps.                                                   *)
(***************************************************************************)
EXTENDS Integers, Sequences, SequencesExt

CONSTANTS Ops,                  \* the functions users ask for, each once
          CommitPerSize,        \* config.commitPerSize
          SnapshotPerSize,      \* config.snapshotPerSize
          VerifyCommit,         \* config.verifyCommit
          VerifyCommitFatalNum, \* config.verifyCommitFatalNum
          MaxFailures,          \* bound: failing external calls (API, wallet, db)
          MaxCrashes,           \* bound: crashes of the process
          LateFailures,         \* may the process die, or the write fail, between
                                \* the broadcast of a commit and its upsert?
          NoOp                  \* the mutex is free

ASSUME ConfigAssumption == /\ CommitPerSize \in Nat \ {0}
                           /\ SnapshotPerSize \in Nat \ {0}
                           /\ VerifyCommitFatalNum \in Nat \ {0}
                           /\ VerifyCommit \in BOOLEAN
                           /\ LateFailures \in BOOLEAN
                           /\ MaxFailures \in Nat
                           /\ MaxCrashes \in Nat
ASSUME NoOpAssumption == NoOp \notin Ops

None == -1

VARIABLES
  pc,                 \* the next step of the main timer
  inited,             \* global.inited
  fatal,              \* global.fatal
  commitData,         \* operator.commitData: parent and data of its op, and, when it
                      \* was read from op_commit, its inscription (0 if it has none)
  newestSpace,        \* operator.newestSpace
  mutex,              \* operator.mutex: the function being aggregated, or NoOp
  timeUp,             \* commitPerMinute has passed since firstAggregateTimestamp
  commiting,          \* opSender.commiting
  lastCommitOp,       \* the parent of opSender.lastCommitOp
  lastInscriptionId,  \* opSender.lastInscriptionId
  isRestoring,        \* opBuilder.isRestoring
  allEventsFromStart, \* opBuilder.allEventsFromStart: a range of the event list
  endOp,              \* opBuilder.endOp: how far the event list is processed
  handled,            \* how far the loop of the current tick over the events is
  lastHash,           \* opBuilder.lastHash: the range the last full tick saw, if
                      \* nothing has changed since
  startOpData,        \* op_confirm: how many events the last snapshot contains
  opCommit,           \* op_commit: the collection, in insertion order
  inscribed,          \* the commits broadcast so far
  events,             \* the commit events the API lists
  accepted,           \* history: the functions users were told are accepted
  failures, crashes   \* counters for MaxFailures and MaxCrashes

operatorVars == <<commitData, newestSpace, mutex, timeUp, accepted>>
senderVars   == <<commiting, lastCommitOp, lastInscriptionId, inscribed>>
builderVars  == <<isRestoring, allEventsFromStart, endOp, handled, lastHash, startOpData>>
processVars  == <<inited, fatal>>
bounds       == <<failures, crashes>>
vars == <<pc, operatorVars, senderVars, builderVars, processVars, bounds, opCommit, events>>

CommitOp == [parent : Nat \cup {None}, data : Seq(Ops), ins : Nat]
OpCommitData == [parent : Nat, data : Seq(Ops), ins : Nat, inEventList : BOOLEAN]
EventRange == [from : Nat, to : Nat]
\* Mutant: a commit that names itself as parent.
NewCommitOwnParent(parent) == [parent |-> parent + 1, data |-> <<>>, ins |-> 0]

NewCommit(parent) == [parent |-> parent, data |-> <<>>, ins |-> 0]
NoCommit == NewCommit(None)
NoRange == [from |-> 1, to |-> 0]

Steps == {"idle", "rebuild", "snapshot", "mark", "senderInit", "check", "save",
          "commit", "verify", "create", "send", "saveIns", "new", "saveNew", "stopped"}

(***************************************************************************)
(* The op_commit collection.                                               *)
(***************************************************************************)
HasParent(parent) == \E i \in DOMAIN opCommit : opCommit[i].parent = parent

\* Mutant: the newest row is written, whatever its parent.
UpsertLast(op) ==
  IF opCommit # <<>> THEN [opCommit EXCEPT ![Len(opCommit)].data = op.data]
  ELSE <<[parent |-> op.parent, data |-> op.data, ins |-> op.ins, inEventList |-> FALSE]>>

\* upsertByParent with the open commit: $set leaves alone what it does not have,
\* which is the inscription unless the commit was read with one.
UpsertData(op) ==
  IF HasParent(op.parent)
  THEN [i \in DOMAIN opCommit |->
          IF opCommit[i].parent = op.parent
          THEN [opCommit[i] EXCEPT !.data = op.data,
                                   !.ins = IF op.ins = 0 THEN @ ELSE op.ins]
          ELSE opCommit[i]]
  ELSE Append(opCommit, [parent |-> op.parent, data |-> op.data,
                         ins |-> op.ins, inEventList |-> FALSE])

\* upsertByParent with an inscription: only the inscription.
UpsertInscription(parent, ins) ==
  IF HasParent(parent)
  THEN [i \in DOMAIN opCommit |->
          IF opCommit[i].parent = parent
          THEN [opCommit[i] EXCEPT !.ins = ins] ELSE opCommit[i]]
  ELSE Append(opCommit, [parent |-> parent, data |-> <<>>,
                         ins |-> ins, inEventList |-> FALSE])

\* findLastCommitOp: the index of the newest commit with an inscription.
Inscribed == {i \in DOMAIN opCommit : opCommit[i].ins # 0}
LastInscribed == CHOOSE i \in Inscribed : \A j \in Inscribed : j <= i

\* notInEventCommitIds
NotInEventCommitIds == {i \in Inscribed : ~opCommit[i].inEventList}

\* findNotInEventList
NotInEventList == {i \in DOMAIN opCommit : ~opCommit[i].inEventList}
LastNotInEventList == CHOOSE i \in NotInEventList : \A j \in NotInEventList : j <= i

\* need(i == notInEventList.length - 1)
OpenCommitIsLast ==
  commitData # NoCommit =>
    \A i, j \in NotInEventList : opCommit[i].parent = commitData.parent => j <= i

\* getCommitEventsNotInEventList: op_commit as this process sees it, its open
\* commit replacing the saved version, or coming last when there is none that is
\* not in the event list.
Uncommitted ==
  LET open == [parent |-> commitData.parent, data |-> commitData.data,
               ins |-> commitData.ins, inEventList |-> FALSE]
      saved == {i \in NotInEventList : opCommit[i].parent = commitData.parent}
  IN  IF commitData = NoCommit THEN opCommit
      ELSE IF saved # {}
      THEN [i \in DOMAIN opCommit |-> IF i \in saved THEN open ELSE opCommit[i]]
      ELSE Append(opCommit, open)

(***************************************************************************)
(* rebuild: the snapshot, the events, then the uncommitted commits.  A     *)
(* commit is applied once per space and per parent (EventsChecker), and a  *)
(* new space starts with no memory of what its snapshot contains.          *)
(***************************************************************************)
EventData(from, to) ==
  FlattenSeq([i \in 1..(to - from) |-> inscribed[events[from + i]].data])

\* Mutant: no EventsChecker.
NothingSeen == {}

SeenParents == {inscribed[events[i]].parent :
                  i \in (allEventsFromStart.from + 1)..allEventsFromStart.to}

\* The commits that are not in the event list and not yet applied, by index.
ToApply == {i \in DOMAIN Uncommitted : /\ ~Uncommitted[i].inEventList
                                       /\ Uncommitted[i].parent \notin SeenParents}

\* handleCommitOp's need(this.lastCommitId == op.parent), which applies to the
\* commits that have an inscription and only after the first one.
LastCommitIdBefore(i) ==
  LET ids == {j \in ToApply : j < i /\ Uncommitted[j].ins # 0}
  IN  IF ids # {} THEN Uncommitted[CHOOSE j \in ids : \A k \in ids : k <= j].ins
      ELSE IF allEventsFromStart.to > allEventsFromStart.from
      THEN events[allEventsFromStart.to]
      ELSE None

OutOfChain ==
  {i \in ToApply : /\ Uncommitted[i].ins # 0
                   /\ LastCommitIdBefore(i) \notin {None, Uncommitted[i].parent}}

CanRebuild == OpenCommitIsLast /\ OutOfChain = {}

FromEvents == EventData(0, startOpData)
              \o EventData(allEventsFromStart.from, allEventsFromStart.to)

UncommittedData(to) ==
  FlattenSeq([i \in 1..to |-> IF i \in ToApply THEN Uncommitted[i].data ELSE <<>>])

RebuiltSpace == FromEvents \o UncommittedData(Len(Uncommitted))

\* A rebuild that throws, be it because it cannot read op_commit, has already
\* replaced newestSpace.
HalfBuiltSpace ==
  IF ~OpenCommitIsLast \/ OutOfChain = {} THEN FromEvents
  ELSE LET bad == CHOOSE i \in OutOfChain : \A j \in OutOfChain : i <= j
       IN  FromEvents \o UncommittedData(bad - 1)

\* The commit rebuild leaves open is the last uncommitted one: the open commit
\* of this process, which OpenCommitIsLast has made the last one, or else the
\* last one of op_commit, or else a new one that follows the newest inscribed
\* commit.
Orphaned == commitData = NoCommit /\ NotInEventList = {}
\* Mutant: the saved commit replaces the one in memory.
RebuiltFromSaved ==
  IF NotInEventList = {}
  THEN NewCommit(IF Inscribed = {} THEN 0 ELSE opCommit[LastInscribed].ins)
  ELSE LET last == opCommit[LastNotInEventList]
       IN  [parent |-> last.parent, data |-> last.data, ins |-> last.ins]

RebuiltCommit ==
  IF commitData # NoCommit THEN commitData
  ELSE IF Orphaned
  THEN NewCommit(IF Inscribed = {} THEN 0 ELSE opCommit[LastInscribed].ins)
  ELSE LET last == opCommit[LastNotInEventList]
       IN  [parent |-> last.parent, data |-> last.data, ins |-> last.ins]

Fails == failures < MaxFailures /\ failures' = failures + 1 /\ UNCHANGED crashes

\* The rebuild, with the trySave of a new commit.  Its awaits are under the
\* mutex, and nothing that runs outside the mutex touches what it reads.
Rebuild ==
  /\ mutex = NoOp
  /\ CanRebuild
  /\ newestSpace' = RebuiltSpace
  /\ commitData' = RebuiltCommit
  /\ opCommit' = IF Orphaned THEN UpsertData(RebuiltCommit) ELSE opCommit
  /\ UNCHANGED bounds

RebuildThrows ==
  /\ mutex = NoOp
  /\ \/ ~CanRebuild /\ UNCHANGED bounds
     \/ CanRebuild /\ Fails
  /\ newestSpace' = HalfBuiltSpace
  /\ UNCHANGED <<commitData, opCommit>>

\* An exception ends the turn of the main timer; the next one starts after
\* three seconds.  While the process boots it is the end of the process.
Throw == pc' = IF inited THEN "idle" ELSE "stopped"

(***************************************************************************)
(* opBuilder.tick                                                          *)
(***************************************************************************)
NewestRange == [from |-> startOpData, to |-> Len(events)]

\* Nothing new in the event list, and no new block.
BuilderSkip ==
  /\ pc = "idle" /\ inited /\ ~fatal
  /\ lastHash = NewestRange
  /\ pc' = "check"
  /\ UNCHANGED <<operatorVars, senderVars, builderVars, processVars, bounds, opCommit, events>>

\* calculateInfoFromRange stops at endOp, or at the end of the list when endOp
\* lies before the snapshot (a loop over the events that was interrupted).
Processed == IF endOp >= startOpData THEN endOp ELSE Len(events)

\* The event list has changed or there is a new block: until this tick is
\* complete, no other one is skipped (lastHash and lashHeight are set last).
BuilderFetch ==
  /\ pc = "idle" /\ ~fatal
  /\ allEventsFromStart' = NewestRange
  /\ endOp' = Processed
  /\ lastHash' = NoRange
  /\ isRestoring' = TRUE
  /\ pc' = "rebuild"
  /\ UNCHANGED <<operatorVars, senderVars, handled, startOpData, processVars, bounds,
                 opCommit, events>>

BuilderRebuild ==
  /\ pc = "rebuild"
  /\ Rebuild
  /\ isRestoring' = FALSE
  /\ pc' = "snapshot"
  /\ UNCHANGED <<mutex, timeUp, accepted, senderVars, allEventsFromStart, endOp, handled,
                 lastHash, startOpData, processVars, events>>

BuilderRebuildThrows ==
  /\ pc = "rebuild"
  /\ RebuildThrows
  /\ Throw
  /\ UNCHANGED <<mutex, timeUp, accepted, senderVars, builderVars, processVars, events>>

\* The events with insertHeightNum confirmations that an earlier tick has
\* processed become part of the snapshot, if there are snapshotPerSize of them.
\* allEventsFromStart still starts at the previous snapshot.
BuilderSnapshot ==
  /\ pc = "snapshot"
  /\ \/ UNCHANGED startOpData
     \/ \E confirmed \in (startOpData + SnapshotPerSize)..endOp : startOpData' = confirmed
  /\ handled' = allEventsFromStart.from
  /\ pc' = "mark"
  /\ UNCHANGED <<operatorVars, senderVars, isRestoring, allEventsFromStart, endOp, lastHash,
                 processVars, bounds, opCommit, events>>

MarkInEventList(ins) ==
  [i \in DOMAIN opCommit |->
     IF opCommit[i].ins = ins
     THEN [opCommit[i] EXCEPT !.inEventList = TRUE] ELSE opCommit[i]]

\* One turn of the loop over allEventsFromStart; updateInEventList comes last.
BuilderMark ==
  /\ pc = "mark"
  /\ handled < allEventsFromStart.to
  /\ handled' = handled + 1
  /\ endOp' = handled + 1
  /\ opCommit' = MarkInEventList(events[handled + 1])
  /\ UNCHANGED <<pc, operatorVars, senderVars, isRestoring, allEventsFromStart, lastHash,
                 startOpData, processVars, bounds, events>>

\* A write fails, before or after endOp is set.
BuilderMarkThrows ==
  /\ pc = "mark"
  /\ handled < allEventsFromStart.to
  /\ endOp' \in {endOp, handled + 1}
  /\ Fails
  /\ Throw
  /\ UNCHANGED <<operatorVars, senderVars, isRestoring, allEventsFromStart, handled, lastHash,
                 startOpData, processVars, opCommit, events>>

BuilderDone ==
  /\ pc = "mark"
  /\ handled = allEventsFromStart.to
  /\ lastHash' = allEventsFromStart
  /\ pc' = IF inited THEN "check" ELSE "senderInit"
  /\ UNCHANGED <<operatorVars, senderVars, isRestoring, allEventsFromStart, endOp, handled,
                 startOpData, processVars, bounds, opCommit, events>>

\* opSender.init, operator.init: the process is up.
SenderInit ==
  /\ pc = "senderInit"
  /\ LET lastEvent == IF endOp > 0 THEN events[endOp] ELSE 0
     IN  /\ lastInscriptionId' = IF Inscribed # {} THEN opCommit[LastInscribed].ins ELSE lastEvent
         /\ lastCommitOp' = IF Inscribed # {} THEN opCommit[LastInscribed].parent
                            ELSE IF lastEvent > 0 THEN inscribed[lastEvent].parent ELSE None
  /\ inited' = TRUE
  /\ pc' = "idle"
  /\ UNCHANGED <<operatorVars, commiting, inscribed, builderVars, fatal, bounds, opCommit, events>>

(***************************************************************************)
(* operator.tick                                                           *)
(***************************************************************************)
Stop == fatal' = TRUE /\ pc' = "stopped" /\ UNCHANGED inited

OperatorCheck ==
  /\ pc = "check"
  /\ IF Cardinality(NotInEventCommitIds) >= VerifyCommitFatalNum
     THEN Stop
     ELSE pc' = "save" /\ UNCHANGED processVars
  /\ UNCHANGED <<operatorVars, senderVars, builderVars, bounds, opCommit, events>>

TrySave ==
  /\ pc = "save"
  /\ \/ /\ opCommit' = UpsertData(commitData)
        /\ pc' = "commit"
        /\ UNCHANGED bounds
     \/ Fails /\ Throw /\ UNCHANGED opCommit
  /\ UNCHANGED <<operatorVars, senderVars, builderVars, processVars, events>>

\* Mutant: commitPerMinute is ignored.
reachCommitSize == Len(commitData.data) >= CommitPerSize

reachCommitCondition ==
  \/ Len(commitData.data) >= CommitPerSize
  \/ Len(commitData.data) > 0 /\ timeUp

\* Mutant: no look at what was committed last.
WantsCommitAgain == reachCommitCondition /\ ~commiting

WantsCommit == reachCommitCondition /\ lastCommitOp # commitData.parent /\ ~commiting

TryCommit ==
  /\ pc = "commit"
  /\ WantsCommit
  /\ \/ Rebuild /\ pc' = "verify"
     \/ RebuildThrows /\ Throw
  /\ UNCHANGED <<mutex, timeUp, accepted, senderVars, builderVars, processVars, events>>

TryCommitSkip ==
  /\ pc = "commit"
  /\ ~WantsCommit
  /\ pc' = "new"
  /\ UNCHANGED <<operatorVars, senderVars, builderVars, processVars, bounds, opCommit, events>>

\* commitVerify: valid (or its verdict is ignored), invalid, or unreachable.
Verify ==
  /\ pc = "verify"
  /\ \/ pc' = "create" /\ UNCHANGED <<processVars, bounds>>
     \/ Fails /\ Stop
     \/ Fails /\ Throw /\ UNCHANGED processVars
  /\ UNCHANGED <<operatorVars, senderVars, builderVars, opCommit, events>>

CreateCommit ==
  /\ pc = "create"
  /\ commiting' = TRUE
  /\ pc' = "send"
  /\ UNCHANGED <<operatorVars, lastCommitOp, lastInscriptionId, inscribed, builderVars,
                 processVars, bounds, opCommit, events>>

\* Mutant: commiting is not reset by a finally.
CreateCommitStuck ==
  /\ pc = "send"
  /\ Fails /\ Throw
  /\ UNCHANGED <<operatorVars, senderVars, builderVars, processVars, opCommit, events>>

\* No fee rate, no utxo or no signature: "let's commit in next turn".
CreateCommitThrows ==
  /\ pc = "send"
  /\ commiting' = FALSE
  /\ Fails /\ Throw
  /\ UNCHANGED <<operatorVars, lastCommitOp, lastInscriptionId, inscribed, builderVars,
                 processVars, opCommit, events>>

Inscription == [parent |-> commitData.parent, data |-> commitData.data]

\* The transactions are broadcast; the ones that fail are broadcast again with
\* every block, so that the inscription is as good as made.
Broadcast ==
  /\ pc = "send"
  /\ inscribed' = Append(inscribed, Inscription)
  /\ pc' = "saveIns"
  /\ UNCHANGED <<operatorVars, commiting, lastCommitOp, lastInscriptionId, builderVars,
                 processVars, bounds, opCommit, events>>

\* A conflict or a missing input stops the sequencer with commiting set,
\* whether or not the inscription makes it to the chain.
BroadcastFatal ==
  /\ pc = "send"
  /\ Fails /\ Stop
  /\ inscribed' \in {inscribed, Append(inscribed, Inscription)}
  /\ UNCHANGED <<operatorVars, commiting, lastCommitOp, lastInscriptionId, builderVars,
                 opCommit, events>>

SaveInscription ==
  /\ pc = "saveIns"
  /\ opCommit' = UpsertInscription(commitData.parent, Len(inscribed))
  /\ lastInscriptionId' = Len(inscribed)
  /\ lastCommitOp' = commitData.parent
  /\ commiting' = FALSE
  /\ pc' = "new"
  /\ UNCHANGED <<operatorVars, inscribed, builderVars, processVars, bounds, events>>

SaveInscriptionThrows ==
  /\ pc = "saveIns"
  /\ LateFailures
  /\ commiting' = FALSE
  /\ Fails /\ Throw
  /\ UNCHANGED <<operatorVars, lastCommitOp, lastInscriptionId, inscribed, builderVars,
                 processVars, opCommit, events>>

\* The price may be unavailable; else the next commit is opened, and saved
\* in a step of its own.
TryNewCommitOp ==
  /\ pc = "new"
  /\ lastCommitOp = commitData.parent /\ ~commiting
  /\ \/ /\ commitData' = NewCommit(lastInscriptionId)
        /\ pc' = "saveNew"
        /\ UNCHANGED bounds
     \/ Fails /\ Throw /\ UNCHANGED commitData
  /\ UNCHANGED <<newestSpace, mutex, timeUp, accepted, senderVars, builderVars, processVars,
                 opCommit, events>>

TryNewCommitOpSkip ==
  /\ pc = "new"
  /\ lastCommitOp # commitData.parent \/ commiting
  /\ pc' = "idle"
  /\ UNCHANGED <<operatorVars, senderVars, builderVars, processVars, bounds, opCommit, events>>

SaveNewCommitOp ==
  /\ pc = "saveNew"
  /\ \/ /\ opCommit' = UpsertData(commitData)
        /\ pc' = "idle"
        /\ UNCHANGED bounds
     \/ Fails /\ Throw /\ UNCHANGED opCommit
  /\ UNCHANGED <<operatorVars, senderVars, builderVars, processVars, events>>

(***************************************************************************)
(* operator.aggregate, called by a request.  The checks and the push are   *)
(* separated by awaits (commitVerify, record) during which the mutex is    *)
(* held.                                                                   *)
(***************************************************************************)
\* Mutant: a commit that is due still takes functions.
checkStatusOfSender == ~commiting /\ ~isRestoring /\ ~fatal

checkSystemStatus == ~reachCommitCondition /\ ~commiting /\ ~isRestoring /\ ~fatal

Aggregate(op) ==
  /\ inited /\ mutex = NoOp
  /\ op \notin accepted
  /\ checkSystemStatus
  /\ \/ /\ ~VerifyCommit
        /\ mutex' = op
        /\ UNCHANGED <<newestSpace, commitData, opCommit, bounds>>
     \/ VerifyCommit /\ Rebuild /\ mutex' = op
     \/ VerifyCommit /\ RebuildThrows /\ UNCHANGED mutex
  /\ UNCHANGED <<pc, timeUp, accepted, senderVars, builderVars, processVars, events>>

AggregatePush ==
  /\ mutex # NoOp
  /\ newestSpace' = Append(newestSpace, mutex)
  /\ commitData' = [commitData EXCEPT !.data = Append(@, mutex)]
  /\ timeUp' = (timeUp /\ Len(commitData.data) > 0)
  /\ accepted' = accepted \cup {mutex}
  /\ mutex' = NoOp
  /\ UNCHANGED <<pc, senderVars, builderVars, processVars, bounds, opCommit, events>>

\* The verification or the record fails, or the request was only a test.
AggregateReject ==
  /\ mutex # NoOp
  /\ mutex' = NoOp
  /\ UNCHANGED <<pc, newestSpace, commitData, timeUp, accepted, senderVars, builderVars,
                 processVars, bounds, opCommit, events>>

(***************************************************************************)
(* The environment: time, the indexer behind the event list, crashes.      *)
(***************************************************************************)
TimePasses ==
  /\ Len(commitData.data) > 0 /\ ~timeUp
  /\ timeUp' = TRUE
  /\ UNCHANGED <<pc, commitData, newestSpace, mutex, accepted, senderVars, builderVars,
                 processVars, bounds, opCommit, events>>

\* The indexer lists a commit once its parent is the last one listed.
EventListed ==
  /\ \E n \in DOMAIN inscribed :
       /\ inscribed[n].parent = IF events = <<>> THEN 0 ELSE Last(events)
       /\ events' = Append(events, n)
  /\ UNCHANGED <<pc, operatorVars, senderVars, builderVars, processVars, bounds, opCommit>>

\* A broadcast commit that op_commit does not know of.
BroadcastUnsaved == pc \in {"saveIns", "stopped"} /\ commiting

\* A crash and the restart: what is not in the database is gone.
Crash ==
  /\ crashes < MaxCrashes
  /\ LateFailures \/ ~BroadcastUnsaved
  /\ crashes' = crashes + 1
  /\ pc' = "idle"
  /\ inited' = FALSE /\ fatal' = FALSE
  /\ commitData' = NoCommit /\ newestSpace' = <<>> /\ mutex' = NoOp
  /\ commiting' = FALSE /\ lastCommitOp' = None /\ lastInscriptionId' = 0
  /\ isRestoring' = FALSE
  /\ allEventsFromStart' = [from |-> startOpData, to |-> startOpData]
  /\ endOp' = startOpData /\ handled' = startOpData /\ lastHash' = NoRange
  /\ UNCHANGED <<timeUp, startOpData, opCommit, inscribed, events, accepted, failures>>

Init ==
  /\ pc = "idle"
  /\ inited = FALSE /\ fatal = FALSE
  /\ commitData = NoCommit /\ newestSpace = <<>> /\ mutex = NoOp /\ timeUp = FALSE
  /\ commiting = FALSE /\ lastCommitOp = None /\ lastInscriptionId = 0
  /\ isRestoring = FALSE
  /\ allEventsFromStart = [from |-> 0, to |-> 0] /\ endOp = 0 /\ handled = 0
  /\ lastHash = NoRange
  /\ startOpData = 0
  /\ opCommit = <<>> /\ inscribed = <<>> /\ events = <<>>
  /\ accepted = {} /\ failures = 0 /\ crashes = 0

BuilderTick == \/ BuilderSkip \/ BuilderFetch \/ BuilderRebuild \/ BuilderRebuildThrows
               \/ BuilderSnapshot \/ BuilderMark \/ BuilderMarkThrows \/ BuilderDone
               \/ SenderInit
OperatorTick == \/ OperatorCheck \/ TrySave \/ TryCommit \/ TryCommitSkip \/ Verify
                \/ TryNewCommitOp \/ TryNewCommitOpSkip \/ SaveNewCommitOp
SenderStep == \/ CreateCommit \/ CreateCommitThrows \/ Broadcast \/ BroadcastFatal
              \/ SaveInscription \/ SaveInscriptionThrows
MainTimer == BuilderTick \/ OperatorTick \/ SenderStep
Requests == (\E op \in Ops : Aggregate(op)) \/ AggregatePush \/ AggregateReject
Environment == TimePasses \/ EventListed \/ Crash

\* After a fatal error, or a failed boot, the main timer is cancelled.
Stopped == pc = "stopped" /\ UNCHANGED vars

Next == MainTimer \/ Requests \/ Environment \/ Stopped

Spec == Init /\ [][Next]_vars

\* The timer keeps firing every three seconds and no step of it waits for
\* ever; a request that holds the mutex ends; time passes; the indexer lists
\* what was inscribed.
Fairness == /\ WF_vars(MainTimer)
            /\ WF_vars(AggregatePush \/ AggregateReject)
            /\ WF_vars(TimePasses)
            /\ WF_vars(EventListed)

FairSpec == Spec /\ Fairness

(***************************************************************************)
(* Properties                                                              *)
(***************************************************************************)

\* The shape of the state (FreshRebuildIsExact says what newestSpace holds).
TypeOK ==
  /\ pc \in Steps
  /\ inited \in BOOLEAN /\ fatal \in BOOLEAN
  /\ commitData \in CommitOp
  /\ mutex \in Ops \cup {NoOp} /\ timeUp \in BOOLEAN
  /\ commiting \in BOOLEAN /\ lastCommitOp \in Nat \cup {None} /\ lastInscriptionId \in Nat
  /\ isRestoring \in BOOLEAN
  /\ allEventsFromStart \in EventRange /\ endOp \in Nat /\ handled \in Nat
  /\ lastHash \in EventRange
  /\ startOpData \in Nat
  /\ opCommit \in Seq(OpCommitData)
  /\ inscribed \in Seq([parent : Nat, data : Seq(Ops)])
  /\ events \in Seq(Nat)
  /\ accepted \subseteq Ops
  /\ failures \in Nat /\ crashes \in Nat

\* bp02-module-swap/indexing.md:32-34: the first commit's parent is empty, every
\* other commit's parent was sent before, and no parent is used twice.  As
\* inscriptions are numbered in the order of their broadcast: each commit
\* follows the one before it (op-sender.ts createCommit, operator.ts
\* tryCommit and tryNewCommitOp).
LinearChain == \A i \in DOMAIN inscribed : inscribed[i].parent = i - 1

\* bp02-module-swap/indexing.md:33: the parent a commit names was sent before
\* it, or is empty.  This holds even when a failure after the broadcast makes
\* the sequencer inscribe a commit again, so that LinearChain is lost.
ParentSentBefore == \A i \in DOMAIN inscribed : inscribed[i].parent \in 0..(i - 1)

\* A commit that was broadcast is closed: while the operator still holds it,
\* its functions are the inscribed ones, so nothing is accepted into it after
\* it was inscribed (operator.ts checkSystemStatus against createCommit).
InscribedIsClosed ==
  crashes = 0 =>
    \A i \in DOMAIN inscribed :
      inscribed[i].parent = commitData.parent => inscribed[i].data = commitData.data

\* What a user was told is accepted is in the open commit or inscribed, as
\* long as the process does not crash.
AcceptedIsKept ==
  crashes = 0 =>
    accepted \subseteq Range(commitData.data) \cup UNION {Range(inscribed[i].data) :
                                                         i \in DOMAIN inscribed}

\* No function is inscribed twice.
InscribedOnce ==
  \A i, j \in DOMAIN inscribed : \A k \in DOMAIN inscribed[i].data :
    \A l \in DOMAIN inscribed[j].data :
      inscribed[i].data[k] = inscribed[j].data[l] => i = j /\ k = l

\* op_commit has missed an inscription: the process died, or the write failed,
\* between the broadcast and the upsert.
InscriptionLost ==
  \E n \in DOMAIN inscribed :
    /\ \A i \in DOMAIN opCommit : opCommit[i].ins # n
    /\ ~(n = Len(inscribed) /\ pc \in {"saveIns", "stopped"})

\* The one way to fork the chain, or to inscribe a function again, is that
\* op_commit missed an inscription: no other failure and no crash, at any other
\* point, does it (op-sender.ts createCommit, operator.ts tryCommit, rebuild).
ForkedOnlyIfLost == InscriptionLost \/ (LinearChain /\ InscribedOnce)

\* What op_commit holds of an inscribed commit may lag behind what is
\* inscribed, but never differs from it (a crash may break this: the restarted
\* operator takes the shorter commit for an open one).
SavedIsPrefix ==
  crashes = 0 =>
  \A i \in DOMAIN opCommit : \A n \in DOMAIN inscribed :
    opCommit[i].ins = n => IsPrefix(opCommit[i].data, inscribed[n].data)

\* operator.ts:103, "use memory data (newest)": the commits that rebuild
\* replays from op_commit are the newest.  So what op_commit holds of an
\* inscribed commit, once the operator has left it, is what was inscribed.
SavedIsInscribed ==
  \A i \in DOMAIN opCommit : \A n \in DOMAIN inscribed :
    opCommit[i].ins = n /\ commitData.parent # opCommit[i].parent
      => opCommit[i].data = inscribed[n].data

\* operator.ts:135-139: the newest space is the snapshot, followed by the events
\* after it, followed by the uncommitted functions.  So no function is in it
\* twice.
NothingAppliedTwice == IsInjective(newestSpace)

\* The snapshot contains a commit that a rebuild still takes for uncommitted: its
\* row in op_commit was not marked, since loops over the events failed at it
\* until the snapshot had passed it, or the operator still holds it as open.
SnapshotAhead ==
  \E n \in 1..startOpData : \E i \in DOMAIN Uncommitted :
    ~Uncommitted[i].inEventList /\ Uncommitted[i].parent = inscribed[events[n]].parent

\* A rebuild that follows a fetch of the event list does not throw, and it yields
\* every function of the event list and of the open commit exactly once, in the
\* order of the list: whatever failed in earlier ticks, the one thing that
\* spoils it is a snapshot that is ahead of op_commit (op-builder.ts:319-345).
FreshRebuildIsExact ==
  pc = "rebuild" /\ crashes = 0 /\ ~SnapshotAhead =>
    /\ CanRebuild
    /\ IsInjective(RebuiltSpace)
    /\ IsPrefix(EventData(0, Len(events)), RebuiltSpace) \/ allEventsFromStart.to < Len(events)
    /\ Range(commitData.data) \subseteq Range(RebuiltSpace)

\* A step of the operator only extends the open commit, or opens the successor
\* of the inscription that closed it.
CommitOnlyGrows ==
  [][commitData # NoCommit /\ commitData' # commitData /\ commitData' # NoCommit =>
       \/ /\ commitData'.parent = commitData.parent
          /\ IsPrefix(commitData.data, commitData'.data)
       \/ /\ commitData'.data = <<>>
          /\ commitData'.parent \in DOMAIN inscribed
          /\ inscribed[commitData'.parent].parent = commitData.parent]_vars

\* What a user was told is accepted is inscribed in the end, unless the
\* sequencer stops for good (a fatal error) or the snapshot is ahead of op_commit
\* for good.  Failures of external calls are retried by the next turn of the
\* timer.
AcceptedIsInscribed ==
  \/ <>[]SnapshotAhead
  \/ \A op \in Ops :
       op \in accepted ~>
         \/ \E i \in DOMAIN inscribed : op \in Range(inscribed[i].data)
         \/ pc = "stopped"

\* The sequencer never refuses requests for ever: again and again it is ready
\* for a function, unless it stops for good or the snapshot is ahead of op_commit
\* for good.
AlwaysOpensAgain ==
  []<>((inited /\ checkSystemStatus) \/ pc = "stopped") \/ <>[]SnapshotAhead
=============================================================================
