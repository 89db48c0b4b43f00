--------------------------- MODULE SequencerProofs ---------------------------
(***************************************************************************)
(* What TLAPS proves of module Sequencer, for every set of functions,      *)
(* every configuration and any number of failures and crashes.             *)
(***************************************************************************)
EXTENDS Sequencer, SequenceTheorems, WellFoundedInduction, TLAPS

(***************************************************************************)
(* Lemmas about the operators of the model.                                *)
(***************************************************************************)

\* A function on an initial segment of the naturals is a sequence.
LEMMA FunctionIsSequence ==
  ASSUME NEW S, NEW n \in Nat, NEW f \in [1..n -> S]
  PROVE  f \in Seq(S)
  BY SeqDef, Zenon

\* A nonempty set of naturals has a smallest member: first for any relation that
\* orders them, then for the order itself.
LEMMA SmallestInOrder ==
  ASSUME NEW R, \A d, e \in Nat : <<e, d>> \in R <=> e < d, IsWellFoundedOn(R, Nat),
         NEW D, D \subseteq Nat, D # {}
  PROVE  \E d \in D : \A e \in D : d <= e
<1>1. PICK d \in D : \A e \in D : ~(<<e, d>> \in R)
  BY WFMin
<1>2. \A e \in D : e \in Nat /\ d \in Nat /\ ~(e < d)
  BY <1>1
<1>3. \A e \in D : d <= e
  BY <1>2
<1> QED BY <1>3

\* The well-founded order of the naturals is such a relation.
LEMMA HasSmallest ==
  ASSUME NEW D, D \subseteq Nat, D # {}
  PROVE  \E d \in D : \A e \in D : d <= e
<1>1. \A d, e \in Nat : <<e, d>> \in OpToRel(<, Nat) <=> e < d
  BY Zenon DEF OpToRel
<1> QED BY <1>1, NatLessThanWellFounded, SmallestInOrder, Zenon

\* A nonempty set of naturals below a bound has a largest member.
LEMMA HasLargest ==
  ASSUME NEW n \in Nat, NEW T \in SUBSET (1..n), T # {}
  PROVE  \E m \in T : \A j \in T : j <= m
<1> DEFINE D == {k \in 0..n : n - k \in T}
<1>1. D \subseteq Nat /\ D # {}
  <2>1. PICK t \in T : TRUE
    OBVIOUS
  <2>2. t \in 1..n /\ n - t \in 0..n /\ n - (n - t) = t
    OBVIOUS
  <2>3. n - t \in D
    BY <2>1, <2>2
  <2>4. D \subseteq Nat
    OBVIOUS
  <2> HIDE DEF D
  <2> QED BY <2>3, <2>4
<1>3. PICK d \in D : \A e \in D : d <= e
  BY <1>1, HasSmallest
<1>4. \A j \in T : n - j \in D /\ j \in 1..n
  OBVIOUS
<1>5. n - d \in T /\ d \in 0..n
  BY <1>3
<1>6. \A j \in T : j <= n - d
  <2> HIDE DEF D
  <2> QED BY <1>3, <1>4, <1>5
<1> QED BY <1>5, <1>6

\* A rebuild (operator.ts:130-192) of a process that has an open commit leaves
\* exactly that commit open.
LEMMA RebuildKeepsCommit ==
  ASSUME commitData # NoCommit, Rebuild
  PROVE  UNCHANGED <<commitData, opCommit>>
  BY DEF Rebuild, RebuiltCommit, Orphaned

\* upsertByParent (op-commit-dao.ts:19-24) keeps op_commit well typed.
LEMMA UpsertDataType ==
  ASSUME opCommit \in Seq(OpCommitData), NEW op \in CommitOp, op.parent # None
  PROVE  UpsertData(op) \in Seq(OpCommitData)
<1>1. op.parent \in Nat /\ op.data \in Seq(Ops) /\ op.ins \in Nat
  BY DEF CommitOp, None
<1>2. Len(opCommit) \in Nat /\ opCommit \in [1..Len(opCommit) -> OpCommitData]
  BY LenProperties
<1>3. CASE HasParent(op.parent)
  <2>1. UpsertData(op) \in [1..Len(opCommit) -> OpCommitData]
    BY <1>1, <1>2, <1>3 DEF UpsertData, OpCommitData
  <2> QED BY <1>2, <2>1, FunctionIsSequence
<1>4. CASE ~HasParent(op.parent)
  BY <1>1, <1>4 DEF UpsertData, OpCommitData
<1> QED BY <1>3, <1>4

\* So does the upsert of an inscription (op-sender.ts:293-296).
LEMMA UpsertInscriptionType ==
  ASSUME opCommit \in Seq(OpCommitData), NEW parent \in Nat, NEW ins \in Nat
  PROVE  UpsertInscription(parent, ins) \in Seq(OpCommitData)
<1>1. Len(opCommit) \in Nat /\ opCommit \in [1..Len(opCommit) -> OpCommitData]
  BY LenProperties
<1>2. CASE HasParent(parent)
  <2>1. UpsertInscription(parent, ins) \in [1..Len(opCommit) -> OpCommitData]
    BY <1>1, <1>2 DEF UpsertInscription, OpCommitData
  <2> QED BY <1>1, <2>1, FunctionIsSequence
<1>3. CASE ~HasParent(parent)
  <2>1. [parent |-> parent, data |-> <<>>, ins |-> ins, inEventList |-> FALSE] \in OpCommitData
    BY DEF OpCommitData
  <2> QED BY <1>3, <2>1 DEF UpsertInscription
<1> QED BY <1>2, <1>3

\* updateInEventList (op-commit-dao.ts:70-75) keeps op_commit well typed.
LEMMA MarkType ==
  ASSUME opCommit \in Seq(OpCommitData), NEW ins
  PROVE  MarkInEventList(ins) \in Seq(OpCommitData)
<1>1. Len(opCommit) \in Nat /\ opCommit \in [1..Len(opCommit) -> OpCommitData]
  BY LenProperties
<1>2. MarkInEventList(ins) \in [1..Len(opCommit) -> OpCommitData]
  BY <1>1 DEF MarkInEventList, OpCommitData
<1> QED BY <1>1, <1>2, FunctionIsSequence

(***************************************************************************)
(* Type correctness.  A commit that is saved or broadcast must have a       *)
(* parent, and what is read of the event list must exist: the two parts    *)
(* that make TypeOK inductive.                                             *)
(***************************************************************************)
BootSteps == {"snapshot", "mark", "senderInit"}
InitedSteps == {"check", "save", "commit", "verify", "create", "send", "saveIns",
                "new", "saveNew"}

Opened ==
  /\ inited \/ pc \in BootSteps => commitData.parent # None
  /\ commitData.parent = None => commitData = NoCommit
  /\ pc \in InitedSteps => inited
  /\ mutex # NoOp => inited

Ranges ==
  /\ startOpData <= Len(events) /\ endOp <= Len(events)
  /\ allEventsFromStart.to <= Len(events)
  /\ \A i \in DOMAIN events : events[i] \in DOMAIN inscribed

TypeInv == TypeOK /\ Opened /\ Ranges

\* findLastCommitOp (op-commit-dao.ts:26-33) finds a row with an inscription.
LEMMA LastInscribedType ==
  ASSUME TypeOK, Inscribed # {}
  PROVE  /\ LastInscribed \in DOMAIN opCommit /\ opCommit[LastInscribed] \in OpCommitData
         /\ opCommit[LastInscribed].ins # 0
<1>1. Len(opCommit) \in Nat /\ DOMAIN opCommit = 1..Len(opCommit)
  BY LenProperties DEF TypeOK
<1>2. Inscribed \in SUBSET (1..Len(opCommit))
  BY <1>1 DEF Inscribed
<1>3. \E i \in Inscribed : \A j \in Inscribed : j <= i
  BY <1>1, <1>2, HasLargest
<1>4. LastInscribed \in Inscribed
  BY <1>3 DEF LastInscribed
<1> QED BY <1>1, <1>2, <1>4, ElementOfSeq DEF TypeOK, Inscribed

\* The last row of findNotInEventList (op-commit-dao.ts:62-68) is a row.
LEMMA LastNotInEventListType ==
  ASSUME TypeOK, NotInEventList # {}
  PROVE  /\ LastNotInEventList \in DOMAIN opCommit
         /\ opCommit[LastNotInEventList] \in OpCommitData
<1>1. Len(opCommit) \in Nat /\ DOMAIN opCommit = 1..Len(opCommit)
  BY LenProperties DEF TypeOK
<1>2. NotInEventList \in SUBSET (1..Len(opCommit))
  BY <1>1 DEF NotInEventList
<1>3. \E i \in NotInEventList : \A j \in NotInEventList : j <= i
  BY <1>1, <1>2, HasLargest
<1>4. LastNotInEventList \in NotInEventList
  BY <1>3 DEF LastNotInEventList
<1> QED BY <1>1, <1>2, <1>4, ElementOfSeq DEF TypeOK

\* A rebuild leaves a well-typed commit open, and op_commit well typed.
LEMMA RebuildType ==
  ASSUME TypeInv, Rebuild
  PROVE  /\ commitData' \in CommitOp /\ commitData'.parent # None
         /\ opCommit' \in Seq(OpCommitData)
         /\ UNCHANGED bounds
<1> USE DEF TypeInv
<1>1. CASE commitData # NoCommit
  <2>1. UNCHANGED <<commitData, opCommit>>
    BY <1>1, RebuildKeepsCommit
  <2> QED BY <1>1, <2>1 DEF Rebuild, TypeOK, Opened
<1>2. CASE Orphaned
  <2>1. RebuiltCommit \in CommitOp /\ RebuiltCommit.parent # None
    <3>1. CASE Inscribed = {}
      BY <1>2, <3>1 DEF Orphaned, RebuiltCommit, NewCommit, CommitOp, None
    <3>2. CASE Inscribed # {}
      <4>1. opCommit[LastInscribed].ins \in Nat
        BY <3>2, LastInscribedType DEF OpCommitData
      <4> QED BY <1>2, <3>2, <4>1 DEF Orphaned, RebuiltCommit, NewCommit, CommitOp, None
    <3> QED BY <3>1, <3>2
  <2>2. UpsertData(RebuiltCommit) \in Seq(OpCommitData)
    BY <2>1, UpsertDataType DEF TypeOK
  <2> QED BY <1>2, <2>1, <2>2 DEF Rebuild
<1>3. CASE commitData = NoCommit /\ NotInEventList # {}
  <2>1. opCommit[LastNotInEventList] \in OpCommitData
    BY <1>3, LastNotInEventListType
  <2>2. RebuiltCommit \in CommitOp /\ RebuiltCommit.parent # None
    BY <1>3, <2>1 DEF Orphaned, RebuiltCommit, OpCommitData, CommitOp, None
  <2> QED BY <1>3, <2>2 DEF Rebuild, Orphaned, TypeOK
<1> QED BY <1>1, <1>2, <1>3 DEF Orphaned

\* The first start of the process is well typed.
LEMMA TypeInit == Init => TypeInv
<1> SUFFICES ASSUME Init PROVE TypeInv
  OBVIOUS
<1>1. inited \in BOOLEAN /\ fatal \in BOOLEAN /\ timeUp \in BOOLEAN
      /\ commiting \in BOOLEAN /\ isRestoring \in BOOLEAN
  BY Zenon DEF Init
<1>2. commitData \in CommitOp
  BY DEF Init, CommitOp, NoCommit, NewCommit, None
<1>3. TypeOK
  BY <1>1, <1>2 DEF Init, TypeOK, Steps, NoRange, EventRange, None
<1>4. Opened /\ Ranges
  BY DEF Init, Opened, Ranges, BootSteps, InitedSteps, NoCommit, NewCommit
<1> QED BY <1>3, <1>4 DEF TypeInv

\* Every step of the pipeline keeps the state well typed; one step per action.
LEMMA TypeStep == TypeInv /\ [Next]_vars => TypeInv'
<1> SUFFICES ASSUME TypeInv, [Next]_vars PROVE TypeInv'
  OBVIOUS
<1> USE DEF TypeInv, TypeOK, Opened, Ranges, BootSteps, InitedSteps,
            operatorVars, senderVars, builderVars, processVars, bounds
<1>1. CASE BuilderSkip
  BY <1>1 DEF BuilderSkip, Steps
<1>2. CASE BuilderFetch
  <2>1. isRestoring' \in BOOLEAN
    BY <1>2, Zenon DEF BuilderFetch
  <2> QED BY <1>2, <2>1 DEF BuilderFetch, NewestRange, NoRange, EventRange, Processed, Steps
<1>3. CASE BuilderRebuild
  <2>1. /\ commitData' \in CommitOp /\ commitData'.parent # None
        /\ opCommit' \in Seq(OpCommitData)
        /\ UNCHANGED <<failures, crashes>>
    BY <1>3, RebuildType DEF BuilderRebuild
  <2>2. isRestoring' \in BOOLEAN
    BY <1>3, Zenon DEF BuilderRebuild
  <2> QED BY <1>3, <2>1, <2>2 DEF BuilderRebuild, Steps
<1>4. CASE BuilderRebuildThrows
  BY <1>4 DEF BuilderRebuildThrows, RebuildThrows, Fails, Throw, Steps
<1>5. CASE BuilderSnapshot
  <2>1. startOpData' \in Nat /\ startOpData' <= Len(events)
    BY <1>5, ConfigAssumption DEF BuilderSnapshot
  <2>2. handled' \in Nat
    BY <1>5 DEF BuilderSnapshot, EventRange
  <2> QED BY <1>5, <2>1, <2>2 DEF BuilderSnapshot, Steps
<1>6. CASE BuilderMark
  <2>1. opCommit' \in Seq(OpCommitData)
    BY <1>6, MarkType DEF BuilderMark
  <2>2. handled' \in Nat /\ endOp' \in Nat /\ endOp' <= Len(events)
    BY <1>6 DEF BuilderMark, EventRange
  <2> QED BY <1>6, <2>1, <2>2 DEF BuilderMark
<1>7. CASE BuilderMarkThrows
  <2>1. endOp' \in Nat /\ endOp' <= Len(events)
    BY <1>7 DEF BuilderMarkThrows, EventRange
  <2> QED BY <1>7, <2>1 DEF BuilderMarkThrows, Fails, Throw, Steps
<1>8. CASE BuilderDone
  BY <1>8 DEF BuilderDone, Steps
<1>9. CASE SenderInit
  <2>1. inited' \in BOOLEAN
    BY <1>9, Zenon DEF SenderInit
  <2>2. lastInscriptionId' \in Nat /\ lastCommitOp' \in Nat \cup {None}
    <3>1. CASE Inscribed # {}
      BY <1>9, <3>1, LastInscribedType DEF SenderInit, OpCommitData
    <3>2. CASE Inscribed = {} /\ endOp > 0
      <4>1. events[endOp] \in DOMAIN inscribed /\ events[endOp] \in Nat
        BY <3>2
      <4>2. \A k \in DOMAIN inscribed : inscribed[k].parent \in Nat
        <5>1. inscribed \in [DOMAIN inscribed -> [parent : Nat, data : Seq(Ops)]]
          BY LenProperties
        <5> QED BY ONLY <5>1
      <4> QED BY <1>9, <3>2, <4>1, <4>2 DEF SenderInit
    <3>3. CASE Inscribed = {} /\ ~(endOp > 0)
      BY <1>9, <3>3 DEF SenderInit
    <3> QED BY <3>1, <3>2, <3>3
  <2> QED BY <1>9, <2>1, <2>2 DEF SenderInit, Steps
<1>10. CASE OperatorCheck
  <2>1. CASE Stop
    <3>1. fatal' \in BOOLEAN
      BY <2>1, Zenon DEF Stop
    <3> QED BY <1>10, <2>1, <3>1 DEF OperatorCheck, Stop, Steps
  <2>2. CASE pc' = "save" /\ UNCHANGED processVars
    BY <1>10, <2>2 DEF OperatorCheck, Steps
  <2> QED BY <1>10, <2>1, <2>2 DEF OperatorCheck
<1>11. CASE TrySave
  <2>1. opCommit' \in Seq(OpCommitData)
    BY <1>11, UpsertDataType DEF TrySave
  <2> QED BY <1>11, <2>1 DEF TrySave, Fails, Throw, Steps
<1>12. CASE TryCommit
  <2>1. CASE Rebuild /\ pc' = "verify"
    <3>1. /\ commitData' \in CommitOp /\ commitData'.parent # None
          /\ opCommit' \in Seq(OpCommitData)
          /\ UNCHANGED <<failures, crashes>>
      BY <2>1, RebuildType
    <3> QED BY <1>12, <2>1, <3>1 DEF TryCommit, Steps
  <2>2. CASE RebuildThrows /\ Throw
    BY <1>12, <2>2 DEF TryCommit, RebuildThrows, Fails, Throw, Steps
  <2> QED BY <1>12, <2>1, <2>2 DEF TryCommit
<1>13. CASE TryCommitSkip
  BY <1>13 DEF TryCommitSkip, Steps
<1>14. CASE Verify
  <2>1. CASE Fails /\ Stop
    <3>1. fatal' \in BOOLEAN
      BY <2>1, Zenon DEF Stop
    <3> QED BY <1>14, <2>1, <3>1 DEF Verify, Fails, Stop, Steps
  <2>2. CASE pc' = "create" /\ UNCHANGED <<processVars, bounds>>
    BY <1>14, <2>2 DEF Verify, Steps
  <2>3. CASE Fails /\ Throw /\ UNCHANGED processVars
    BY <1>14, <2>3 DEF Verify, Fails, Throw, Steps
  <2> QED BY <1>14, <2>1, <2>2, <2>3, Zenon DEF Verify
<1>15. CASE CreateCommit
  <2>1. commiting' \in BOOLEAN
    BY <1>15, Zenon DEF CreateCommit
  <2> QED BY <1>15, <2>1 DEF CreateCommit, Steps
<1>16. CASE CreateCommitThrows
  <2>1. commiting' \in BOOLEAN
    BY <1>16, Zenon DEF CreateCommitThrows
  <2> QED BY <1>16, <2>1 DEF CreateCommitThrows, Fails, Throw, Steps
<1>17. CASE Broadcast
  <2>1. Inscription \in [parent : Nat, data : Seq(Ops)]
    BY <1>17 DEF Broadcast, Inscription, CommitOp
  <2>2. Append(inscribed, Inscription) \in Seq([parent : Nat, data : Seq(Ops)])
        /\ DOMAIN inscribed \subseteq DOMAIN Append(inscribed, Inscription)
    BY <2>1
  <2> QED BY <1>17, <2>2 DEF Broadcast, Steps
<1>18. CASE BroadcastFatal
  <2>1. Inscription \in [parent : Nat, data : Seq(Ops)]
    BY <1>18 DEF BroadcastFatal, Inscription, CommitOp
  <2>2. inscribed' \in Seq([parent : Nat, data : Seq(Ops)])
        /\ DOMAIN inscribed \subseteq DOMAIN inscribed'
    <3>1. Append(inscribed, Inscription) \in Seq([parent : Nat, data : Seq(Ops)])
          /\ DOMAIN inscribed \subseteq DOMAIN Append(inscribed, Inscription)
      BY <2>1
    <3>2. inscribed' = inscribed \/ inscribed' = Append(inscribed, Inscription)
      BY <1>18 DEF BroadcastFatal
    <3> QED BY <3>1, <3>2
  <2>3. fatal' \in BOOLEAN
    BY <1>18, Zenon DEF BroadcastFatal, Stop
  <2> QED BY <1>18, <2>2, <2>3 DEF BroadcastFatal, Fails, Stop, Steps
<1>19. CASE SaveInscription
  <2>1. commitData.parent \in Nat
    BY <1>19 DEF SaveInscription, CommitOp
  <2>2. opCommit' \in Seq(OpCommitData) /\ Len(inscribed) \in Nat
    <3>1. Len(inscribed) \in Nat
      BY LenProperties
    <3> QED BY <1>19, <2>1, <3>1, UpsertInscriptionType DEF SaveInscription
  <2>3. commiting' \in BOOLEAN
    BY <1>19, Zenon DEF SaveInscription
  <2> QED BY <1>19, <2>1, <2>2, <2>3 DEF SaveInscription, Steps
<1>20. CASE SaveInscriptionThrows
  <2>1. commiting' \in BOOLEAN
    BY <1>20, Zenon DEF SaveInscriptionThrows
  <2> QED BY <1>20, <2>1 DEF SaveInscriptionThrows, Fails, Throw, Steps
<1>21. CASE TryNewCommitOp
  <2>1. CASE commitData' = NewCommit(lastInscriptionId) /\ pc' = "saveNew" /\ UNCHANGED bounds
    <3>1. commitData' \in CommitOp /\ commitData'.parent # None
      BY <2>1 DEF NewCommit, CommitOp, None
    <3> QED BY <1>21, <2>1, <3>1 DEF TryNewCommitOp, Steps
  <2>2. CASE Fails /\ Throw /\ UNCHANGED commitData
    BY <1>21, <2>2 DEF TryNewCommitOp, Fails, Throw, Steps
  <2> QED BY <1>21, <2>1, <2>2 DEF TryNewCommitOp
<1>22. CASE TryNewCommitOpSkip
  BY <1>22 DEF TryNewCommitOpSkip, Steps
<1>23. CASE SaveNewCommitOp
  <2>1. opCommit' \in Seq(OpCommitData)
    BY <1>23, UpsertDataType DEF SaveNewCommitOp
  <2> QED BY <1>23, <2>1 DEF SaveNewCommitOp, Fails, Throw, Steps
<1>24. CASE \E op \in Ops : Aggregate(op)
  <2>1. PICK op \in Ops : Aggregate(op)
    BY <1>24
  <2>2. CASE Rebuild /\ mutex' = op
    <3>1. /\ commitData' \in CommitOp /\ commitData'.parent # None
          /\ opCommit' \in Seq(OpCommitData)
          /\ UNCHANGED <<failures, crashes>>
      BY <2>2, RebuildType
    <3> QED BY <2>1, <2>2, <3>1 DEF Aggregate
  <2>3. CASE RebuildThrows /\ UNCHANGED mutex
    BY <2>1, <2>3 DEF Aggregate, RebuildThrows, Fails
  <2>4. CASE mutex' = op /\ UNCHANGED <<newestSpace, commitData, opCommit, bounds>>
    BY <2>1, <2>4 DEF Aggregate
  <2> QED BY <2>1, <2>2, <2>3, <2>4 DEF Aggregate
<1>25. CASE AggregatePush
  <2>1. commitData' \in CommitOp /\ commitData'.parent = commitData.parent
    <3>1. mutex \in Ops /\ commitData.data \in Seq(Ops)
      BY <1>25 DEF AggregatePush, CommitOp
    <3>2. Append(commitData.data, mutex) \in Seq(Ops)
      BY <3>1
    <3>3. commitData' = [commitData EXCEPT !.data = Append(commitData.data, mutex)]
      BY <1>25 DEF AggregatePush
    <3> QED BY <3>2, <3>3 DEF CommitOp
  <2>2. timeUp' \in BOOLEAN
    BY <1>25, Zenon DEF AggregatePush
  <2> QED BY <1>25, <2>1, <2>2 DEF AggregatePush
<1>26. CASE AggregateReject
  BY <1>26 DEF AggregateReject
<1>27. CASE TimePasses
  <2>1. timeUp' \in BOOLEAN
    BY <1>27, Zenon DEF TimePasses
  <2> QED BY <1>27, <2>1 DEF TimePasses
<1>28. CASE EventListed
  <2>1. PICK n \in DOMAIN inscribed : events' = Append(events, n)
    BY <1>28 DEF EventListed
  <2>2. n \in Nat
    BY <2>1
  <2>3. events' \in Seq(Nat) /\ Len(events') = Len(events) + 1
        /\ \A i \in DOMAIN events' : events'[i] \in DOMAIN inscribed
    BY <2>1, <2>2
  <2>4. startOpData <= Len(events') /\ endOp <= Len(events')
        /\ allEventsFromStart.to <= Len(events')
    <3>1. Len(events) \in Nat
      BY LenProperties
    <3>2. startOpData \in Nat /\ endOp \in Nat /\ allEventsFromStart.to \in Nat
      BY DEF EventRange
    <3>3. startOpData <= Len(events) /\ endOp <= Len(events)
          /\ allEventsFromStart.to <= Len(events)
      OBVIOUS
    <3>4. Len(events') = Len(events) + 1
      BY <2>3
    <3> QED BY ONLY <3>1, <3>2, <3>3, <3>4, SMT
  <2> QED BY <1>28, <2>3, <2>4 DEF EventListed
<1>29. CASE Crash
  <2>1. inited' \in BOOLEAN /\ fatal' \in BOOLEAN /\ commiting' \in BOOLEAN
        /\ isRestoring' \in BOOLEAN
    BY <1>29, Zenon DEF Crash
  <2>2. commitData' \in CommitOp /\ commitData' = NoCommit /\ ~inited'
    BY <1>29 DEF Crash, NoCommit, NewCommit, CommitOp, None
  <2> QED BY <1>29, <2>1, <2>2 DEF Crash, EventRange, NoRange, Steps
<1>30. CASE UNCHANGED vars
  BY <1>30 DEF vars
<1> QED
  BY <1>1, <1>2, <1>3, <1>4, <1>5, <1>6, <1>7, <1>8, <1>9, <1>10, <1>11, <1>12, <1>13,
     <1>14, <1>15, <1>16, <1>17, <1>18, <1>19, <1>20, <1>21, <1>22, <1>23, <1>24, <1>25,
     <1>26, <1>27, <1>28, <1>29, <1>30
     DEF Next, MainTimer, BuilderTick, OperatorTick, SenderStep, Requests, Environment, Stopped

\* Every state of the commit pipeline is well typed: in particular nothing is
\* saved or broadcast without a parent, across failures and restarts.
THEOREM TypeCorrect == Spec => []TypeOK
<1>1. Init => TypeInv
  BY TypeInit
<1>2. TypeInv /\ [Next]_vars => TypeInv'
  BY TypeStep
<1>3. TypeInv => TypeOK
  BY DEF TypeInv
<1> QED BY <1>1, <1>2, <1>3, PTL DEF Spec

(***************************************************************************)
(* Parents.  An inscription the sequencer remembers, in op_commit, in the  *)
(* open commit or in opSender, is one it broadcast with the parent it      *)
(* remembers for it.  This survives crashes and failures at any point.     *)
(***************************************************************************)
Links(ins, parent) == ins \in DOMAIN inscribed /\ inscribed[ins].parent = parent

Sound(c) == c.parent <= Len(inscribed) /\ (c.ins # 0 => Links(c.ins, c.parent))

ParentInv ==
  /\ ParentSentBefore
  /\ lastInscriptionId <= Len(inscribed)
  /\ Sound(commitData)
  /\ \A i \in DOMAIN opCommit : Sound(opCommit[i])
  /\ lastCommitOp # None => Links(lastInscriptionId, lastCommitOp)
  /\ pc = "saveIns" => Links(Len(inscribed), commitData.parent)

\* upsertByParent keeps what op_commit says of inscriptions true.
LEMMA UpsertDataSound ==
  ASSUME opCommit \in Seq(OpCommitData), NEW op \in CommitOp, op.parent # None,
         \A i \in DOMAIN opCommit : Sound(opCommit[i]), Sound(op)
  PROVE  \A i \in DOMAIN UpsertData(op) : Sound(UpsertData(op)[i])
<1>1. Len(opCommit) \in Nat /\ opCommit \in [1..Len(opCommit) -> OpCommitData]
  BY LenProperties
<1>2. CASE HasParent(op.parent)
  <2> SUFFICES ASSUME NEW i \in DOMAIN opCommit
               PROVE  Sound(UpsertData(op)[i])
    BY <1>2 DEF UpsertData
  <2>1. opCommit[i] \in OpCommitData /\ Sound(opCommit[i])
    BY <1>1
  <2>2. CASE opCommit[i].parent # op.parent
    BY <1>2, <2>1, <2>2 DEF UpsertData
  <2>3. CASE opCommit[i].parent = op.parent
    <3>1. UpsertData(op)[i].parent = op.parent
          /\ UpsertData(op)[i].ins = IF op.ins = 0 THEN opCommit[i].ins ELSE op.ins
      BY <1>2, <2>1, <2>3 DEF UpsertData, OpCommitData
    <3> QED BY <2>1, <2>3, <3>1 DEF Sound
  <2> QED BY <2>2, <2>3
<1>3. CASE ~HasParent(op.parent)
  <2> DEFINE r == [parent |-> op.parent, data |-> op.data, ins |-> op.ins, inEventList |-> FALSE]
  <2>1. UpsertData(op) = Append(opCommit, r)
    BY <1>3 DEF UpsertData
  <2>2. Sound(r)
    BY DEF Sound
  <2>3. r \in OpCommitData
    BY DEF CommitOp, OpCommitData, None
  <2> HIDE DEF r
  <2>4. \A i \in DOMAIN Append(opCommit, r) :
          IF i = Len(opCommit) + 1 THEN Append(opCommit, r)[i] = r
          ELSE i \in DOMAIN opCommit /\ Append(opCommit, r)[i] = opCommit[i]
    BY <2>3
  <2>5. \A i \in DOMAIN Append(opCommit, r) : Sound(Append(opCommit, r)[i])
    BY <2>2, <2>4 DEF Sound
  <2> QED BY <2>1, <2>5
<1> QED BY <1>2, <1>3

\* The upsert of the inscription that was just broadcast keeps op_commit true:
\* the commit it names has the row's parent.
LEMMA UpsertInscriptionSound ==
  ASSUME opCommit \in Seq(OpCommitData), NEW parent \in Nat, NEW ins \in Nat \ {0},
         \A i \in DOMAIN opCommit : Sound(opCommit[i]),
         parent <= Len(inscribed), Links(ins, parent)
  PROVE  \A i \in DOMAIN UpsertInscription(parent, ins) :
           Sound(UpsertInscription(parent, ins)[i])
<1>1. Len(opCommit) \in Nat /\ opCommit \in [1..Len(opCommit) -> OpCommitData]
  BY LenProperties
<1>2. CASE HasParent(parent)
  <2> SUFFICES ASSUME NEW i \in DOMAIN opCommit
               PROVE  Sound(UpsertInscription(parent, ins)[i])
    BY <1>2 DEF UpsertInscription
  <2>1. opCommit[i] \in OpCommitData /\ Sound(opCommit[i])
    BY <1>1
  <2>2. CASE opCommit[i].parent # parent
    BY <1>2, <2>1, <2>2 DEF UpsertInscription
  <2>3. CASE opCommit[i].parent = parent
    <3>1. UpsertInscription(parent, ins)[i].parent = parent
          /\ UpsertInscription(parent, ins)[i].ins = ins
      BY <1>2, <2>1, <2>3 DEF UpsertInscription, OpCommitData
    <3> QED BY <2>1, <2>3, <3>1 DEF Sound
  <2> QED BY <2>2, <2>3
<1>3. CASE ~HasParent(parent)
  <2> DEFINE r == [parent |-> parent, data |-> <<>>, ins |-> ins, inEventList |-> FALSE]
  <2>1. UpsertInscription(parent, ins) = Append(opCommit, r)
    BY <1>3 DEF UpsertInscription
  <2>2. Sound(r)
    BY DEF Sound
  <2>3. r \in OpCommitData
    BY DEF OpCommitData
  <2> HIDE DEF r
  <2>4. \A i \in DOMAIN Append(opCommit, r) :
          IF i = Len(opCommit) + 1 THEN Append(opCommit, r)[i] = r
          ELSE i \in DOMAIN opCommit /\ Append(opCommit, r)[i] = opCommit[i]
    BY <2>3
  <2>5. \A i \in DOMAIN Append(opCommit, r) : Sound(Append(opCommit, r)[i])
    BY <2>2, <2>4 DEF Sound
  <2> QED BY <2>1, <2>5
<1> QED BY <1>2, <1>3

\* updateInEventList keeps op_commit true.
LEMMA MarkSound ==
  ASSUME opCommit \in Seq(OpCommitData), NEW ins,
         \A i \in DOMAIN opCommit : Sound(opCommit[i])
  PROVE  \A i \in DOMAIN MarkInEventList(ins) : Sound(MarkInEventList(ins)[i])
<1>1. opCommit \in [1..Len(opCommit) -> OpCommitData]
  BY LenProperties
<1> SUFFICES ASSUME NEW i \in DOMAIN opCommit
             PROVE  Sound(MarkInEventList(ins)[i])
  BY DEF MarkInEventList
<1>2. MarkInEventList(ins)[i].parent = opCommit[i].parent
      /\ MarkInEventList(ins)[i].ins = opCommit[i].ins
  BY <1>1 DEF MarkInEventList, OpCommitData
<1> QED BY <1>2 DEF Sound

\* A rebuild keeps the open commit, or opens one whose parent was sent before.
LEMMA RebuildSound ==
  ASSUME TypeInv, ParentInv, Rebuild
  PROVE  /\ Sound(commitData')
         /\ \A i \in DOMAIN opCommit' : Sound(opCommit'[i])
<1> USE DEF TypeInv
<1>1. CASE commitData # NoCommit
  BY <1>1, RebuildKeepsCommit DEF ParentInv
<1>2. CASE Orphaned
  <2>1. /\ RebuiltCommit \in CommitOp /\ RebuiltCommit.parent # None
        /\ Sound(RebuiltCommit)
    <3>1. CASE Inscribed = {}
      BY <1>2, <3>1, LenProperties
         DEF Orphaned, RebuiltCommit, NewCommit, CommitOp, None, Sound, TypeOK
    <3>2. CASE Inscribed # {}
      <4>1. opCommit[LastInscribed].ins \in Nat /\ Sound(opCommit[LastInscribed])
        BY <3>2, LastInscribedType DEF OpCommitData, ParentInv
      <4>2. opCommit[LastInscribed].ins <= Len(inscribed)
        BY <4>1, LenProperties DEF Sound, Links, TypeOK
      <4> QED
        BY <1>2, <3>2, <4>1, <4>2
           DEF Orphaned, RebuiltCommit, NewCommit, CommitOp, None, Sound
    <3> QED BY <3>1, <3>2
  <2>2. \A i \in DOMAIN UpsertData(RebuiltCommit) : Sound(UpsertData(RebuiltCommit)[i])
    BY <2>1, UpsertDataSound DEF TypeOK, ParentInv
  <2> QED BY <1>2, <2>1, <2>2 DEF Rebuild
<1>3. CASE commitData = NoCommit /\ NotInEventList # {}
  <2>1. LastNotInEventList \in DOMAIN opCommit
    BY <1>3, LastNotInEventListType
  <2>2. Sound(opCommit[LastNotInEventList])
    BY <2>1 DEF ParentInv
  <2>3. Sound(RebuiltCommit)
    BY <1>3, <2>2 DEF Orphaned, RebuiltCommit, Sound
  <2> QED BY <1>3, <2>3 DEF Rebuild, Orphaned, ParentInv
<1> QED BY <1>1, <1>2, <1>3 DEF Orphaned

\* At the first start nothing has been sent.
LEMMA ParentInit == Init => ParentInv
  BY DEF Init, ParentInv, ParentSentBefore, Sound, Links, NoCommit, NewCommit, None

\* Broadcasting the open commit keeps every link and adds the new one.
LEMMA BroadcastLinks ==
  ASSUME TypeInv, ParentInv, commitData.parent # None,
         inscribed' = Append(inscribed, Inscription), UNCHANGED commitData
  PROVE  /\ ParentSentBefore'
         /\ Len(inscribed') = Len(inscribed) + 1
         /\ \A n, p : Links(n, p) => Links(n, p)'
         /\ Links(Len(inscribed), commitData.parent)'
<1>1. /\ Inscription \in [parent : Nat, data : Seq(Ops)]
      /\ Inscription.parent = commitData.parent
  BY DEF TypeInv, TypeOK, Inscription, CommitOp
<1>2. inscribed \in Seq([parent : Nat, data : Seq(Ops)]) /\ Len(inscribed) \in Nat
  BY LenProperties DEF TypeInv, TypeOK
<1>3. /\ Len(inscribed') = Len(inscribed) + 1
      /\ DOMAIN inscribed' = 1..(Len(inscribed) + 1)
      /\ DOMAIN inscribed = 1..Len(inscribed)
      /\ \A i \in 1..Len(inscribed) : inscribed'[i] = inscribed[i]
      /\ inscribed'[Len(inscribed) + 1] = Inscription
  BY <1>1, <1>2
<1>4. \A n, p : Links(n, p) => Links(n, p)'
  BY <1>2, <1>3 DEF Links
<1>5. inscribed'[Len(inscribed) + 1].parent = commitData.parent
  BY <1>1, <1>3
<1>6. commitData.parent \in 0..Len(inscribed)
  BY <1>2 DEF TypeInv, TypeOK, CommitOp, ParentInv, Sound
<1>7. ParentSentBefore'
  <2> SUFFICES ASSUME NEW i \in 1..(Len(inscribed) + 1)
               PROVE  inscribed'[i].parent \in 0..(i - 1)
    BY <1>3 DEF ParentSentBefore
  <2>1. CASE i = Len(inscribed) + 1
    BY <1>2, <1>5, <1>6, <2>1
  <2>2. CASE i \in 1..Len(inscribed)
    BY <1>3, <2>2 DEF ParentInv, ParentSentBefore
  <2> QED BY <1>2, <2>1, <2>2
<1> QED BY <1>3, <1>4, <1>5, <1>7 DEF Links

\* Every step, crashes and late failures included, keeps the links sound.
LEMMA ParentStep == TypeInv /\ ParentInv /\ [Next]_vars => ParentInv'
<1> SUFFICES ASSUME TypeInv, ParentInv, [Next]_vars PROVE ParentInv'
  OBVIOUS
<1> USE DEF operatorVars, senderVars, builderVars, processVars, bounds
<1> DEFINE kept == <<inscribed, lastInscriptionId, lastCommitOp>>
           mem  == <<commitData, opCommit>>
\* Steps that touch none of this.
<1>1. ASSUME UNCHANGED <<kept, mem>>, pc' = "saveIns" => pc = "saveIns" PROVE ParentInv'
  BY <1>1 DEF ParentInv, ParentSentBefore, Sound, Links
<1>2. CASE BuilderSkip \/ BuilderFetch \/ BuilderRebuildThrows \/ BuilderSnapshot
           \/ BuilderMarkThrows \/ BuilderDone \/ OperatorCheck \/ TryCommitSkip \/ Verify
  BY <1>1, <1>2 DEF BuilderSkip, BuilderFetch, BuilderRebuildThrows, RebuildThrows,
       BuilderSnapshot, BuilderMarkThrows, BuilderDone, OperatorCheck, TryCommitSkip, Verify,
       Throw, Stop
<1>3. CASE CreateCommit \/ CreateCommitThrows \/ SaveInscriptionThrows \/ TryNewCommitOpSkip
           \/ AggregateReject \/ TimePasses \/ EventListed \/ UNCHANGED vars
  BY <1>1, <1>3 DEF CreateCommit, CreateCommitThrows, SaveInscriptionThrows,
       TryNewCommitOpSkip, AggregateReject, TimePasses, EventListed, Throw, vars
\* Rebuilds.
<1>4. ASSUME Rebuild, UNCHANGED kept, pc' # "saveIns" PROVE ParentInv'
  <2>1. Sound(commitData') /\ \A i \in DOMAIN opCommit' : Sound(opCommit'[i])
    BY <1>4, RebuildSound
  <2> QED BY <1>4, <2>1 DEF ParentInv, ParentSentBefore, Sound, Links
<1>5. CASE BuilderRebuild
  BY <1>4, <1>5 DEF BuilderRebuild
<1>6. CASE TryCommit
  <2>1. CASE Rebuild /\ pc' = "verify"
    BY <1>4, <1>6, <2>1 DEF TryCommit
  <2>2. CASE RebuildThrows /\ Throw
    BY <1>1, <1>6, <2>2 DEF TryCommit, RebuildThrows, Throw
  <2> QED BY <1>6, <2>1, <2>2 DEF TryCommit
<1>7. CASE \E op \in Ops : Aggregate(op)
  <2>1. PICK op \in Ops : Aggregate(op)
    BY <1>7
  <2>2. commitData # NoCommit
    BY <2>1 DEF Aggregate, TypeInv, Opened, NoCommit, NewCommit
  <2>3. UNCHANGED <<commitData, opCommit>>
    <3>1. CASE Rebuild
      BY <2>2, <3>1, RebuildKeepsCommit
    <3>2. CASE RebuildThrows
      BY <3>2 DEF RebuildThrows
    <3> QED BY <2>1, <3>1, <3>2 DEF Aggregate
  <2> QED BY <1>1, <2>1, <2>3 DEF Aggregate
\* Steps that change the database, the open commit or the sender.
<1>8. CASE BuilderMark
  <2>1. \A i \in DOMAIN opCommit' : Sound(opCommit'[i])
    BY <1>8, MarkSound DEF BuilderMark, TypeInv, TypeOK, ParentInv
  <2> QED BY <1>8, <2>1 DEF BuilderMark, ParentInv, ParentSentBefore, Sound, Links
<1>9. CASE SenderInit
  <2>1. lastInscriptionId' <= Len(inscribed)
        /\ (lastCommitOp' # None => Links(lastInscriptionId', lastCommitOp'))
    <3>1. CASE Inscribed # {}
      <4>1. /\ opCommit[LastInscribed].ins # 0 /\ opCommit[LastInscribed].ins \in Nat
            /\ Sound(opCommit[LastInscribed])
        BY <3>1, LastInscribedType DEF TypeInv, ParentInv, OpCommitData
      <4>2. opCommit[LastInscribed].ins <= Len(inscribed)
        BY <4>1, LenProperties DEF Sound, Links, TypeInv, TypeOK
      <4> QED BY <1>9, <3>1, <4>1, <4>2 DEF SenderInit, Sound
    <3>2. CASE Inscribed = {} /\ endOp > 0
      BY <1>9, <3>2 DEF SenderInit, TypeInv, TypeOK, Ranges, Links
    <3>3. CASE Inscribed = {} /\ ~(endOp > 0)
      BY <1>9, <3>3, LenProperties DEF SenderInit, TypeInv, TypeOK
    <3> QED BY <3>1, <3>2, <3>3
  <2> QED BY <1>9, <2>1 DEF SenderInit, ParentInv, ParentSentBefore, Sound, Links
<1>10. CASE TrySave \/ SaveNewCommitOp
  <2>1. commitData \in CommitOp /\ commitData.parent # None
    BY <1>10 DEF TrySave, SaveNewCommitOp, TypeInv, TypeOK, Opened, InitedSteps
  <2>2. \A i \in DOMAIN UpsertData(commitData) : Sound(UpsertData(commitData)[i])
    BY <2>1, UpsertDataSound DEF TypeInv, TypeOK, ParentInv
  <2>3. opCommit' = opCommit \/ opCommit' = UpsertData(commitData)
    BY <1>10 DEF TrySave, SaveNewCommitOp
  <2>4. \A i \in DOMAIN opCommit' : Sound(opCommit'[i])
    BY <2>2, <2>3 DEF ParentInv
  <2>5. UNCHANGED <<kept, commitData>> /\ pc' # "saveIns"
    BY <1>10 DEF TrySave, SaveNewCommitOp, Throw
  <2> QED BY <2>4, <2>5 DEF ParentInv, ParentSentBefore, Sound, Links
<1>11. CASE Broadcast \/ BroadcastFatal
  <2>1. commitData.parent # None
    BY <1>11 DEF Broadcast, BroadcastFatal, TypeInv, Opened, InitedSteps
  <2>2. CASE inscribed' = Append(inscribed, Inscription)
    <3>1. UNCHANGED <<lastInscriptionId, lastCommitOp, mem>>
      BY <1>11 DEF Broadcast, BroadcastFatal
    <3>2. /\ ParentSentBefore' /\ Len(inscribed') = Len(inscribed) + 1
          /\ \A n, p : Links(n, p) => Links(n, p)'
          /\ Links(Len(inscribed), commitData.parent)'
      BY <2>1, <2>2, <3>1, BroadcastLinks
    <3>3. Len(inscribed) \in Nat
      BY LenProperties DEF TypeInv, TypeOK
    <3>4. /\ lastInscriptionId \in Nat /\ commitData.parent \in Nat
          /\ \A i \in DOMAIN opCommit : opCommit[i].parent \in Nat
      <4>1. opCommit \in [DOMAIN opCommit -> OpCommitData]
        BY LenProperties DEF TypeInv, TypeOK
      <4> QED BY <2>1, <4>1 DEF TypeInv, TypeOK, CommitOp, OpCommitData
    <3>5. Sound(commitData)' /\ \A i \in DOMAIN opCommit : Sound(opCommit[i])'
      BY <3>1, <3>2, <3>3, <3>4 DEF ParentInv, Sound
    <3>6. (lastInscriptionId <= Len(inscribed))'
      BY <3>1, <3>2, <3>3, <3>4 DEF ParentInv
    <3> QED BY <3>1, <3>2, <3>5, <3>6 DEF ParentInv
  <2>3. CASE UNCHANGED inscribed /\ pc' = "stopped"
    BY <1>1, <1>11, <2>3 DEF Broadcast, BroadcastFatal
  <2> QED BY <1>11, <2>2, <2>3 DEF Broadcast, BroadcastFatal, Stop
<1>12. CASE SaveInscription
  <2>1. commitData.parent \in Nat /\ Len(inscribed) \in Nat
    BY <1>12, LenProperties
       DEF SaveInscription, TypeInv, TypeOK, Opened, InitedSteps, CommitOp
  <2>2. Links(Len(inscribed), commitData.parent) /\ Len(inscribed) # 0
    BY <1>12, <2>1 DEF SaveInscription, ParentInv, Links, TypeInv, TypeOK
  <2>3. \A i \in DOMAIN opCommit' : Sound(opCommit'[i])
    BY <1>12, <2>1, <2>2, UpsertInscriptionSound
       DEF SaveInscription, TypeInv, TypeOK, ParentInv, Sound
  <2> QED BY <1>12, <2>1, <2>2, <2>3
          DEF SaveInscription, ParentInv, ParentSentBefore, Sound, Links
<1>13. CASE TryNewCommitOp
  <2>1. CASE commitData' = NewCommit(lastInscriptionId) /\ pc' = "saveNew"
    BY <1>13, <2>1
       DEF TryNewCommitOp, NewCommit, ParentInv, ParentSentBefore, Sound, Links
  <2>2. CASE Throw /\ UNCHANGED commitData
    BY <1>1, <1>13, <2>2 DEF TryNewCommitOp, Throw
  <2> QED BY <1>13, <2>1, <2>2 DEF TryNewCommitOp
<1>14. CASE AggregatePush
  <2>1. commitData'.parent = commitData.parent /\ commitData'.ins = commitData.ins
    BY <1>14 DEF AggregatePush, TypeInv, TypeOK, CommitOp
  <2> QED BY <1>14, <2>1 DEF AggregatePush, ParentInv, ParentSentBefore, Sound, Links
<1>15. CASE Crash
  BY <1>15, LenProperties
     DEF Crash, NoCommit, NewCommit, None, ParentInv, ParentSentBefore, Sound, Links,
         TypeInv, TypeOK
<1> QED
  BY <1>2, <1>3, <1>5, <1>6, <1>7, <1>8, <1>9, <1>10, <1>11, <1>12, <1>13, <1>14, <1>15
     DEF Next, MainTimer, BuilderTick, OperatorTick, SenderStep, Requests, Environment, Stopped

\* Whatever fails and however often the process restarts, a commit is only ever
\* inscribed after the parent it names (op-sender.ts:59-316, operator.ts:725-793).
THEOREM ParentsAreSent == Spec => []ParentSentBefore
<1>1. Init => TypeInv /\ ParentInv
  BY TypeInit, ParentInit
<1>2. TypeInv /\ ParentInv /\ [Next]_vars => (TypeInv /\ ParentInv)'
  BY TypeStep, ParentStep
<1>3. TypeInv /\ ParentInv => ParentSentBefore
  BY DEF ParentInv
<1> QED BY <1>1, <1>2, <1>3, PTL DEF Spec

\* A sequence is a prefix of what Append makes of it.
LEMMA PrefixOfAppend ==
  ASSUME NEW S, NEW s \in Seq(S), NEW e \in S
  PROVE  IsPrefix(s, Append(s, e))
<1>1. Len(s) \in Nat /\ Len(s) <= Len(Append(s, e)) /\ Append(s, e) \in Seq(S)
  BY LenProperties
<1>2. SubSeq(s, 1, Len(s)) = SubSeq(Append(s, e), 1, Len(s))
  <2>1. \A i \in 1..Len(s) : s[i] = Append(s, e)[i]
    BY <1>1
  <2> QED BY <1>1, <2>1
<1> QED BY <1>1, <1>2 DEF IsPrefix

\* What CommitOnlyGrows allows a step to do to the open commit.
Grows ==
  commitData # NoCommit /\ commitData' # commitData /\ commitData' # NoCommit =>
    \/ /\ commitData'.parent = commitData.parent
       /\ IsPrefix(commitData.data, commitData'.data)
    \/ /\ commitData'.data = <<>>
       /\ commitData'.parent \in DOMAIN inscribed
       /\ inscribed[commitData'.parent].parent = commitData.parent

\* Every step only extends the open commit or opens its successor.
LEMMA StepGrows == TypeInv /\ ParentInv /\ [Next]_vars => Grows
<1> SUFFICES ASSUME TypeInv, ParentInv, [Next]_vars, commitData # NoCommit,
                    commitData' # commitData, commitData' # NoCommit
             PROVE  Grows
  BY DEF Grows
<1> USE DEF operatorVars
<1>1. Rebuild => UNCHANGED commitData
  BY RebuildKeepsCommit
<1>2. CASE AggregatePush
  <2>1. commitData.data \in Seq(Ops) /\ mutex \in Ops
    BY <1>2 DEF AggregatePush, TypeInv, TypeOK, CommitOp
  <2>2. commitData'.parent = commitData.parent
        /\ commitData'.data = Append(commitData.data, mutex)
    BY <1>2 DEF AggregatePush, TypeInv, TypeOK, CommitOp
  <2> QED BY <2>1, <2>2, PrefixOfAppend DEF Grows
<1>3. CASE TryNewCommitOp
  <2>1. commitData' = NewCommit(lastInscriptionId) /\ lastCommitOp = commitData.parent
    BY <1>3 DEF TryNewCommitOp
  <2>2. commitData.parent # None
    BY <1>3 DEF TryNewCommitOp, TypeInv, Opened, InitedSteps
  <2>3. Links(lastInscriptionId, commitData.parent)
    BY <2>1, <2>2 DEF ParentInv
  <2> QED BY <2>1, <2>3 DEF Grows, Links, NewCommit
<1>4. UNCHANGED commitData \/ AggregatePush \/ TryNewCommitOp
  BY <1>1 DEF Next, MainTimer, BuilderTick, OperatorTick, SenderStep, Requests, Environment,
     Stopped, vars, BuilderSkip, BuilderFetch, BuilderRebuild, BuilderRebuildThrows,
     RebuildThrows, BuilderSnapshot, BuilderMark, BuilderMarkThrows, BuilderDone, SenderInit,
     OperatorCheck, TrySave, TryCommit, TryCommitSkip, Verify, TryNewCommitOpSkip,
     SaveNewCommitOp, CreateCommit, CreateCommitThrows, Broadcast, BroadcastFatal,
     SaveInscription, SaveInscriptionThrows, Aggregate, AggregateReject, TimePasses,
     EventListed, Crash
<1> QED BY <1>2, <1>3, <1>4

\* In every configuration, with crashes and failures at any point, a step only
\* extends the open commit or opens the successor of the commit that was
\* inscribed with its parent (operator.ts:529-706, 765-793).
THEOREM CommitsOnlyGrow == Spec => CommitOnlyGrows
<1>1. Init => TypeInv /\ ParentInv
  BY TypeInit, ParentInit
<1>2. TypeInv /\ ParentInv /\ [Next]_vars => (TypeInv /\ ParentInv)'
  BY TypeStep, ParentStep
<1>3. TypeInv /\ ParentInv /\ [Next]_vars => [Grows]_vars
  BY StepGrows
<1>4. CommitOnlyGrows <=> [][Grows]_vars
  BY PTL DEF CommitOnlyGrows, Grows
<1> QED BY <1>1, <1>2, <1>3, <1>4, PTL DEF Spec

(***************************************************************************)
(* What the writes to op_commit do, row by row.                            *)
(***************************************************************************)
\* upsertByParent with the open commit (op-commit-dao.ts:19-24): the rows with its
\* parent take its functions; if there is none, it becomes the last row.
LEMMA UpsertDataRows ==
  ASSUME opCommit \in Seq(OpCommitData), NEW op \in CommitOp, op.parent # None,
         NEW new, new = UpsertData(op)
  PROVE  /\ Len(new) = Len(opCommit) + (IF HasParent(op.parent) THEN 0 ELSE 1)
         /\ DOMAIN new = 1..Len(new)
         /\ \A i \in DOMAIN opCommit :
              IF opCommit[i].parent = op.parent
              THEN /\ new[i].parent = op.parent
                   /\ new[i].data = op.data
                   /\ new[i].ins = IF op.ins = 0 THEN opCommit[i].ins ELSE op.ins
                   /\ new[i].inEventList = opCommit[i].inEventList
              ELSE new[i] = opCommit[i]
         /\ ~HasParent(op.parent) =>
              LET r == new[Len(opCommit) + 1]
              IN  r.parent = op.parent /\ r.data = op.data /\ r.ins = op.ins /\ ~r.inEventList
<1>1. Len(opCommit) \in Nat /\ opCommit \in [1..Len(opCommit) -> OpCommitData]
  BY LenProperties
<1>2. CASE HasParent(op.parent)
  <2>1. new \in [1..Len(opCommit) -> OpCommitData]
    BY <1>1, <1>2 DEF UpsertData, OpCommitData, CommitOp, None
  <2>2. Len(new) = Len(opCommit)
    BY <1>1, <2>1, FunctionIsSequence, LenProperties
  <2>3. ASSUME NEW i \in DOMAIN opCommit
        PROVE  IF opCommit[i].parent = op.parent
               THEN /\ new[i].parent = op.parent
                    /\ new[i].data = op.data
                    /\ new[i].ins = IF op.ins = 0 THEN opCommit[i].ins ELSE op.ins
                    /\ new[i].inEventList = opCommit[i].inEventList
               ELSE new[i] = opCommit[i]
    BY <1>1, <1>2 DEF UpsertData, OpCommitData
  <2> QED BY <1>1, <1>2, <2>1, <2>2, <2>3
<1>3. CASE ~HasParent(op.parent)
  <2> DEFINE r == [parent |-> op.parent, data |-> op.data, ins |-> op.ins, inEventList |-> FALSE]
  <2>1. r \in OpCommitData
    BY DEF OpCommitData, CommitOp, None
  <2>2. new = Append(opCommit, r)
    BY <1>3 DEF UpsertData
  <2>3. \A i \in DOMAIN opCommit : opCommit[i].parent # op.parent
    BY <1>3 DEF HasParent
  <2>4. r.parent = op.parent /\ r.data = op.data /\ r.ins = op.ins /\ ~r.inEventList
    OBVIOUS
  <2> HIDE DEF r
  <2>5. /\ Len(Append(opCommit, r)) = Len(opCommit) + 1
        /\ DOMAIN Append(opCommit, r) = 1..(Len(opCommit) + 1)
        /\ \A i \in DOMAIN opCommit : Append(opCommit, r)[i] = opCommit[i]
        /\ Append(opCommit, r)[Len(opCommit) + 1] = r
    BY <1>1, <2>1
  <2> QED BY <1>3, <2>2, <2>3, <2>4, <2>5
<1> QED BY <1>2, <1>3

\* The upsert of an inscription (op-sender.ts:293-296): the rows with the open
\* commit's parent, or a new one, take the inscription.
LEMMA SaveInscriptionRows ==
  ASSUME TypeInv, SaveInscription
  PROVE  /\ Len(opCommit') = Len(opCommit) + (IF HasParent(commitData.parent) THEN 0 ELSE 1)
         /\ DOMAIN opCommit' = 1..Len(opCommit')
         /\ \A i \in DOMAIN opCommit :
              IF opCommit[i].parent = commitData.parent
              THEN /\ opCommit'[i].parent = commitData.parent
                   /\ opCommit'[i].data = opCommit[i].data
                   /\ opCommit'[i].ins = Len(inscribed)
                   /\ opCommit'[i].inEventList = opCommit[i].inEventList
              ELSE opCommit'[i] = opCommit[i]
         /\ ~HasParent(commitData.parent) =>
              LET r == opCommit'[Len(opCommit) + 1]
              IN  /\ r.parent = commitData.parent /\ r.data = <<>>
                  /\ r.ins = Len(inscribed) /\ ~r.inEventList
<1> DEFINE p == commitData.parent
           n == Len(inscribed)
<1>1. Len(opCommit) \in Nat /\ opCommit \in [1..Len(opCommit) -> OpCommitData]
  BY LenProperties DEF TypeInv, TypeOK
<1>2. p \in Nat /\ n \in Nat /\ opCommit' = UpsertInscription(p, n)
  BY LenProperties
     DEF SaveInscription, TypeInv, TypeOK, Opened, InitedSteps, CommitOp
<1>3. opCommit \in Seq(OpCommitData)
  BY DEF TypeInv, TypeOK
<1> HIDE DEF p, n
<1>4. CASE HasParent(p)
  <2>1. opCommit' \in [1..Len(opCommit) -> OpCommitData]
    BY <1>1, <1>2, <1>4 DEF UpsertInscription, OpCommitData
  <2>2. Len(opCommit') = Len(opCommit)
    BY <1>1, <2>1, FunctionIsSequence, LenProperties
  <2>3. ASSUME NEW i \in DOMAIN opCommit
        PROVE  IF opCommit[i].parent = p
               THEN /\ opCommit'[i].parent = p
                    /\ opCommit'[i].data = opCommit[i].data
                    /\ opCommit'[i].ins = n
                    /\ opCommit'[i].inEventList = opCommit[i].inEventList
               ELSE opCommit'[i] = opCommit[i]
    BY <1>1, <1>2, <1>4 DEF UpsertInscription, OpCommitData
  <2> QED BY <1>1, <1>4, <2>1, <2>2, <2>3 DEF p, n
<1>5. CASE ~HasParent(p)
  <2> DEFINE r == [parent |-> p, data |-> <<>>, ins |-> n, inEventList |-> FALSE]
  <2>1. r \in OpCommitData
    BY <1>2 DEF OpCommitData
  <2>2. opCommit' = Append(opCommit, r)
    BY <1>2, <1>5 DEF UpsertInscription
  <2>3. \A i \in DOMAIN opCommit : opCommit[i].parent # p
    BY <1>5 DEF HasParent
  <2>4. r.parent = p /\ r.data = <<>> /\ r.ins = n /\ ~r.inEventList
    OBVIOUS
  <2> HIDE DEF r
  <2>5. /\ Len(Append(opCommit, r)) = Len(opCommit) + 1
        /\ DOMAIN Append(opCommit, r) = 1..(Len(opCommit) + 1)
        /\ \A i \in DOMAIN opCommit : Append(opCommit, r)[i] = opCommit[i]
        /\ Append(opCommit, r)[Len(opCommit) + 1] = r
    BY <1>1, <1>3, <2>1
  <2> QED BY <1>5, <2>2, <2>3, <2>4, <2>5 DEF p, n
<1> QED BY <1>4, <1>5

\* updateInEventList (op-commit-dao.ts:70-75): the rows with the inscription are
\* marked, and nothing else changes.
LEMMA MarkRows ==
  ASSUME opCommit \in Seq(OpCommitData), NEW ins,
         NEW new, new = MarkInEventList(ins)
  PROVE  /\ Len(new) = Len(opCommit)
         /\ DOMAIN new = DOMAIN opCommit
         /\ \A i \in DOMAIN opCommit :
              /\ new[i].parent = opCommit[i].parent
              /\ new[i].data = opCommit[i].data
              /\ new[i].ins = opCommit[i].ins
              /\ new[i].inEventList
                   <=> (opCommit[i].inEventList \/ opCommit[i].ins = ins)
<1>1. Len(opCommit) \in Nat /\ opCommit \in [1..Len(opCommit) -> OpCommitData]
  BY LenProperties
<1>2. new \in [1..Len(opCommit) -> OpCommitData]
  BY <1>1 DEF MarkInEventList, OpCommitData
<1>3. Len(new) = Len(opCommit)
  BY <1>1, <1>2, FunctionIsSequence, LenProperties
<1>4. ASSUME NEW i \in DOMAIN opCommit
      PROVE  /\ new[i].parent = opCommit[i].parent
             /\ new[i].data = opCommit[i].data
             /\ new[i].ins = opCommit[i].ins
  BY <1>1 DEF MarkInEventList, OpCommitData
<1>5. ASSUME NEW i \in DOMAIN opCommit
      PROVE  new[i].inEventList
                   <=> (opCommit[i].inEventList \/ opCommit[i].ins = ins)
  <2>1. CASE opCommit[i].ins = ins
    <3>1. opCommit[i] \in OpCommitData
      BY <1>1
    <3>2. new[i].inEventList = TRUE
      BY <2>1, <3>1 DEF MarkInEventList, OpCommitData
    <3> QED BY <2>1, <3>2
  <2>2. CASE opCommit[i].ins # ins
    <3>1. new[i] = opCommit[i]
      BY <2>2 DEF MarkInEventList
    <3> QED BY <2>2, <3>1
  <2> QED BY <2>1, <2>2
<1> QED BY <1>1, <1>2, <1>3, <1>4, <1>5

(***************************************************************************)
(* Functions.  The open commit, the rows of op_commit and the inscriptions *)
(* are copies of one another: two of them that share a function have the   *)
(* same parent.  This survives crashes and failures at any point, and with *)
(* a linear chain it says that no function is inscribed twice.             *)
(***************************************************************************)
IsCopy(parent, data) ==
  \/ parent = commitData.parent /\ data = commitData.data
  \/ \E i \in DOMAIN opCommit : parent = opCommit[i].parent /\ data = opCommit[i].data
  \/ \E i \in DOMAIN inscribed : parent = inscribed[i].parent /\ data = inscribed[i].data

OnceInv ==
  /\ \A p, d : IsCopy(p, d) => \A k \in DOMAIN d :
                 d[k] \in accepted /\ \A l \in DOMAIN d : d[k] = d[l] => k = l
  /\ \A p, q, d, e : IsCopy(p, d) /\ IsCopy(q, e) =>
       \A k \in DOMAIN d : \A l \in DOMAIN e : d[k] = e[l] => p = q
  /\ mutex \notin accepted

\* At the first start there is only the empty commit.
LEMMA OnceInit == Init => OnceInv
  BY NoOpAssumption DEF Init, OnceInv, IsCopy, NoCommit, NewCommit

\* A rebuild only copies a row of op_commit, or opens an empty commit.
LEMMA RebuildCopies ==
  ASSUME TypeInv, Rebuild, UNCHANGED inscribed
  PROVE  \A p, d : IsCopy(p, d)' => IsCopy(p, d) \/ d = <<>>
<1>1. CASE commitData # NoCommit
  BY <1>1, RebuildKeepsCommit DEF IsCopy
<1>2. CASE Orphaned
  <2>1. RebuiltCommit \in CommitOp /\ RebuiltCommit.parent # None /\ RebuiltCommit.data = <<>>
    <3>1. CASE Inscribed = {}
      BY <1>2, <3>1 DEF Orphaned, RebuiltCommit, NewCommit, CommitOp, None
    <3>2. CASE Inscribed # {}
      <4>1. opCommit[LastInscribed].ins \in Nat
        BY <3>2, LastInscribedType DEF TypeInv, OpCommitData
      <4> QED BY <1>2, <3>2, <4>1 DEF Orphaned, RebuiltCommit, NewCommit, CommitOp, None
    <3> QED BY <3>1, <3>2
  <2>2. commitData' = RebuiltCommit /\ opCommit' = UpsertData(RebuiltCommit)
    BY <1>2 DEF Rebuild
  <2>3. opCommit \in Seq(OpCommitData) /\ DOMAIN opCommit = 1..Len(opCommit)
        /\ Len(opCommit) \in Nat
    BY LenProperties DEF TypeInv, TypeOK
  <2>4. \A i \in DOMAIN opCommit' : \/ opCommit'[i].data = <<>>
                                    \/ i \in DOMAIN opCommit /\ opCommit'[i] = opCommit[i]
    BY <2>1, <2>2, <2>3, UpsertDataRows
  <2> QED BY <2>1, <2>2, <2>4 DEF IsCopy
<1>3. CASE commitData = NoCommit /\ NotInEventList # {}
  <2>1. LastNotInEventList \in DOMAIN opCommit
    BY <1>3, LastNotInEventListType DEF TypeInv
  <2>2. /\ commitData'.parent = opCommit[LastNotInEventList].parent
        /\ commitData'.data = opCommit[LastNotInEventList].data
        /\ opCommit' = opCommit
    BY <1>3 DEF Rebuild, Orphaned, RebuiltCommit
  <2> QED BY <2>1, <2>2 DEF IsCopy
<1> QED BY <1>1, <1>2, <1>3 DEF Orphaned

\* Nothing but the push of a function makes more than a copy.
LEMMA StepCopies ==
  ASSUME TypeInv, [Next]_vars, ~AggregatePush
  PROVE  /\ \A p, d : IsCopy(p, d)' => IsCopy(p, d) \/ d = <<>>
         /\ UNCHANGED accepted
         /\ mutex' \in {mutex, NoOp} \/ mutex' \notin accepted
<1> USE DEF operatorVars, senderVars, builderVars, processVars, bounds
<1>1. ASSUME UNCHANGED <<commitData, opCommit, inscribed>>
      PROVE  \A p, d : IsCopy(p, d)' => IsCopy(p, d)
  BY <1>1 DEF IsCopy
<1>2. CASE BuilderSkip \/ BuilderFetch \/ BuilderRebuildThrows \/ BuilderSnapshot
           \/ BuilderMarkThrows \/ BuilderDone \/ SenderInit \/ OperatorCheck
           \/ TryCommitSkip \/ Verify
  BY <1>1, <1>2 DEF BuilderSkip, BuilderFetch, BuilderRebuildThrows, RebuildThrows,
       BuilderSnapshot, BuilderMarkThrows, BuilderDone, SenderInit, OperatorCheck,
       TryCommitSkip, Verify
<1>3. CASE CreateCommit \/ CreateCommitThrows \/ SaveInscriptionThrows \/ TryNewCommitOpSkip
           \/ AggregateReject \/ TimePasses \/ EventListed \/ UNCHANGED vars
  BY <1>1, <1>3 DEF CreateCommit, CreateCommitThrows, SaveInscriptionThrows,
       TryNewCommitOpSkip, AggregateReject, TimePasses, EventListed, vars
<1>4. CASE BuilderRebuild
  BY <1>4, RebuildCopies DEF BuilderRebuild
<1>5. CASE TryCommit
  BY <1>1, <1>5, RebuildCopies DEF TryCommit, RebuildThrows
<1>6. CASE \E op \in Ops : Aggregate(op)
  <2>1. PICK op \in Ops : Aggregate(op)
    BY <1>6
  <2>2. UNCHANGED <<inscribed, accepted>> /\ op \notin accepted /\ mutex' \in {mutex, op}
    BY <2>1 DEF Aggregate
  <2> QED BY <1>1, <2>1, <2>2, RebuildCopies DEF Aggregate, RebuildThrows
<1>7. CASE BuilderMark
  <2>1. \A i \in DOMAIN opCommit' : /\ i \in DOMAIN opCommit
                                    /\ opCommit'[i].parent = opCommit[i].parent
                                    /\ opCommit'[i].data = opCommit[i].data
    BY <1>7, MarkRows DEF BuilderMark, TypeInv, TypeOK
  <2> QED BY <1>7, <2>1 DEF BuilderMark, IsCopy
<1>8. CASE TrySave \/ SaveNewCommitOp
  <2>1. commitData \in CommitOp /\ commitData.parent # None
    BY <1>8 DEF TrySave, SaveNewCommitOp, TypeInv, TypeOK, Opened, InitedSteps
  <2>2. UNCHANGED <<commitData, inscribed, mutex, accepted>>
        /\ (opCommit' = opCommit \/ opCommit' = UpsertData(commitData))
    BY <1>8 DEF TrySave, SaveNewCommitOp
  <2>3. opCommit \in Seq(OpCommitData) /\ DOMAIN opCommit = 1..Len(opCommit)
        /\ Len(opCommit) \in Nat
    BY LenProperties DEF TypeInv, TypeOK
  <2>4. CASE opCommit' = UpsertData(commitData)
    <3>1. \A i \in DOMAIN opCommit' :
            \/ /\ opCommit'[i].parent = commitData.parent
               /\ opCommit'[i].data = commitData.data
            \/ i \in DOMAIN opCommit /\ opCommit'[i] = opCommit[i]
      BY <2>1, <2>3, <2>4, UpsertDataRows
    <3> QED BY <2>2, <3>1 DEF IsCopy
  <2> QED BY <1>1, <2>2, <2>4
<1>9. CASE Broadcast \/ BroadcastFatal
  <2>1. UNCHANGED <<commitData, opCommit, mutex, accepted>>
        /\ (inscribed' = inscribed \/ inscribed' = Append(inscribed, Inscription))
    BY <1>9 DEF Broadcast, BroadcastFatal
  <2>2. CASE inscribed' = Append(inscribed, Inscription)
    <3>1. Inscription \in [parent : Nat, data : Seq(Ops)]
          /\ Inscription.parent = commitData.parent /\ Inscription.data = commitData.data
      BY <1>9 DEF Broadcast, BroadcastFatal, TypeInv, TypeOK, Opened, InitedSteps,
         Inscription, CommitOp
    <3>2. \A i \in DOMAIN inscribed' :
            \/ inscribed'[i] = Inscription
            \/ i \in DOMAIN inscribed /\ inscribed'[i] = inscribed[i]
      BY <2>2, <3>1 DEF TypeInv, TypeOK
    <3> QED BY <2>1, <3>1, <3>2 DEF IsCopy
  <2> QED BY <1>1, <2>1, <2>2
<1>10. CASE SaveInscription
  <2>1. commitData.parent \in Nat /\ Len(inscribed) \in Nat
    BY <1>10, LenProperties
       DEF SaveInscription, TypeInv, TypeOK, Opened, InitedSteps, CommitOp
  <2>2. opCommit \in Seq(OpCommitData) /\ DOMAIN opCommit = 1..Len(opCommit)
        /\ Len(opCommit) \in Nat
    BY LenProperties DEF TypeInv, TypeOK
  <2>3. opCommit' = UpsertInscription(commitData.parent, Len(inscribed))
        /\ UNCHANGED <<commitData, inscribed, mutex, accepted>>
    BY <1>10 DEF SaveInscription
  <2>4. \A i \in DOMAIN opCommit' :
          \/ opCommit'[i].data = <<>>
          \/ /\ i \in DOMAIN opCommit
             /\ opCommit'[i].parent = opCommit[i].parent
             /\ opCommit'[i].data = opCommit[i].data
    <3>1. \A i \in DOMAIN opCommit : /\ opCommit'[i].parent = opCommit[i].parent
                                     /\ opCommit'[i].data = opCommit[i].data
      BY <1>10, SaveInscriptionRows
    <3>2. \A i \in DOMAIN opCommit' : \/ i \in DOMAIN opCommit
                                      \/ opCommit'[i].data = <<>>
      <4>1. CASE HasParent(commitData.parent)
        BY <1>10, <2>2, <4>1, SaveInscriptionRows
      <4>2. CASE ~HasParent(commitData.parent)
        BY <1>10, <2>2, <4>2, SaveInscriptionRows
      <4> QED BY <4>1, <4>2
    <3> QED BY <3>1, <3>2
  <2> QED BY <2>3, <2>4 DEF IsCopy
<1>11. CASE TryNewCommitOp
  <2>1. /\ UNCHANGED <<opCommit, inscribed, mutex, accepted>>
        /\ commitData' = commitData \/ commitData' = NewCommit(lastInscriptionId)
    BY <1>11 DEF TryNewCommitOp
  <2> QED BY <2>1 DEF IsCopy, NewCommit
<1>12. CASE Crash
  <2>1. /\ UNCHANGED <<opCommit, inscribed, accepted>> /\ mutex' = NoOp
        /\ commitData' = NoCommit
    BY <1>12 DEF Crash
  <2> QED BY <2>1 DEF IsCopy, NoCommit, NewCommit
<1> QED
  BY <1>2, <1>3, <1>4, <1>5, <1>6, <1>7, <1>8, <1>9, <1>10, <1>11, <1>12
     DEF Next, MainTimer, BuilderTick, OperatorTick, SenderStep, Requests, Environment, Stopped

\* The push adds a function that no copy holds.
LEMMA PushCopies ==
  ASSUME TypeInv, OnceInv, AggregatePush
  PROVE  OnceInv'
<1> DEFINE new == Append(commitData.data, mutex)
<1>1. commitData.data \in Seq(Ops) /\ mutex \in Ops /\ Len(commitData.data) \in Nat
  BY LenProperties DEF AggregatePush, TypeInv, TypeOK, CommitOp
<1>2. /\ commitData'.parent = commitData.parent /\ commitData'.data = new
      /\ UNCHANGED <<opCommit, inscribed>>
      /\ accepted' = accepted \cup {mutex} /\ mutex' = NoOp
  BY DEF AggregatePush, TypeInv, TypeOK, CommitOp, senderVars
<1>3. /\ DOMAIN new = 1..(Len(commitData.data) + 1)
      /\ DOMAIN commitData.data = 1..Len(commitData.data)
      /\ \A k \in DOMAIN commitData.data : new[k] = commitData.data[k]
      /\ new[Len(commitData.data) + 1] = mutex
  BY <1>1
<1> HIDE DEF new
<1>4. IsCopy(commitData.parent, commitData.data)
  BY DEF IsCopy
<1>5. \A p, d : IsCopy(p, d)' => IsCopy(p, d) \/ (p = commitData.parent /\ d = new)
  BY <1>2 DEF IsCopy
<1>6. \A p, d : IsCopy(p, d) => \A k \in DOMAIN d : d[k] # mutex
  BY DEF OnceInv
<1>7. \A k \in DOMAIN new : /\ new[k] \in accepted'
                            /\ \A l \in DOMAIN new : new[k] = new[l] => k = l
  BY <1>1, <1>2, <1>3, <1>4, <1>6 DEF OnceInv
<1>8. \A q, e : IsCopy(q, e) => \A k \in DOMAIN new : \A l \in DOMAIN e :
                                   new[k] = e[l] => q = commitData.parent
  <2> SUFFICES ASSUME NEW q, NEW e, IsCopy(q, e), NEW k \in DOMAIN new, NEW l \in DOMAIN e,
                      new[k] = e[l]
               PROVE  q = commitData.parent
    OBVIOUS
  <2>1. e[l] # mutex
    BY <1>6
  <2>2. k \in DOMAIN commitData.data /\ commitData.data[k] = e[l]
    BY <1>1, <1>3, <2>1
  <2> QED BY <1>4, <2>2 DEF OnceInv
<1>9. \A p, d : IsCopy(p, d)' => \A k \in DOMAIN d :
                  d[k] \in accepted' /\ \A l \in DOMAIN d : d[k] = d[l] => k = l
  <2>1. \A p, d : IsCopy(p, d) => \A k \in DOMAIN d :
                  d[k] \in accepted' /\ \A l \in DOMAIN d : d[k] = d[l] => k = l
    BY <1>2 DEF OnceInv
  <2> QED BY <1>5, <1>7, <2>1
<1>10. \A p, q, d, e : IsCopy(p, d)' /\ IsCopy(q, e)' =>
         \A k \in DOMAIN d : \A l \in DOMAIN e : d[k] = e[l] => p = q
  <2>1. \A p, q, d, e : IsCopy(p, d) /\ IsCopy(q, e) =>
          \A k \in DOMAIN d : \A l \in DOMAIN e : d[k] = e[l] => p = q
    BY DEF OnceInv
  <2> QED BY <1>5, <1>8, <2>1
<1>11. mutex' \notin accepted'
  BY <1>1, <1>2, NoOpAssumption DEF TypeInv, TypeOK
<1> QED BY <1>9, <1>10, <1>11 DEF OnceInv

\* Every step, crashes and late failures included, keeps the copies apart.
LEMMA OnceStep == TypeInv /\ OnceInv /\ [Next]_vars => OnceInv'
<1> SUFFICES ASSUME TypeInv, OnceInv, [Next]_vars PROVE OnceInv'
  OBVIOUS
<1>1. CASE AggregatePush
  BY <1>1, PushCopies
<1>2. CASE ~AggregatePush
  <2>1. /\ \A p, d : IsCopy(p, d)' => IsCopy(p, d) \/ d = <<>>
        /\ UNCHANGED accepted
        /\ mutex' \in {mutex, NoOp} \/ mutex' \notin accepted
    BY <1>2, StepCopies
  <2>2. mutex' \notin accepted'
    BY <2>1, NoOpAssumption DEF OnceInv, TypeInv, TypeOK
  <2>3. DOMAIN <<>> = {}
    OBVIOUS
  <2>4. \A p, d : IsCopy(p, d)' => \A k \in DOMAIN d :
                  d[k] \in accepted' /\ \A l \in DOMAIN d : d[k] = d[l] => k = l
    BY <2>1, <2>3 DEF OnceInv
  <2>5. \A p, q, d, e : IsCopy(p, d)' /\ IsCopy(q, e)' =>
          \A k \in DOMAIN d : \A l \in DOMAIN e : d[k] = e[l] => p = q
    BY <2>1, <2>3 DEF OnceInv
  <2> QED BY <2>2, <2>4, <2>5 DEF OnceInv
<1> QED BY <1>1, <1>2

\* In a linear chain no function is inscribed twice.
LEMMA OnceInChain ==
  ASSUME TypeInv, OnceInv, LinearChain
  PROVE  InscribedOnce
<1> SUFFICES ASSUME NEW i \in DOMAIN inscribed, NEW j \in DOMAIN inscribed,
                    NEW k \in DOMAIN inscribed[i].data, NEW l \in DOMAIN inscribed[j].data,
                    inscribed[i].data[k] = inscribed[j].data[l]
             PROVE  i = j /\ k = l
  BY DEF InscribedOnce
<1>1. IsCopy(i - 1, inscribed[i].data) /\ IsCopy(j - 1, inscribed[j].data)
  BY DEF IsCopy, LinearChain
<1>2. i - 1 = j - 1
  BY <1>1 DEF OnceInv
<1>3. i = j
  BY <1>2 DEF TypeInv, TypeOK
<1> QED BY <1>1, <1>3 DEF OnceInv

(***************************************************************************)
(* The chain.  Either an inscription other than the last one is lost to    *)
(* op_commit for good, or everything is in order: the commits, the events  *)
(* and the rows are numbered alike, the open commit is the last row or its *)
(* successor, and op_commit knows every inscription but perhaps the last.  *)
(* A restart with an order that only misses the last inscription may       *)
(* inscribe its commit again, which is how the first case arises.          *)
(***************************************************************************)
Sent == Len(inscribed)
Rows == Len(opCommit)

LostForGood ==
  \E m \in 1..(Sent - 1) : /\ \A i \in DOMAIN opCommit : opCommit[i].ins # m
                           /\ commitData.ins # m

\* op_commit knows the last inscription.
LastKnown == Sent = 0 \/ opCommit[Sent].ins = Sent

EventsInOrder == \A k \in DOMAIN events : events[k] = k

RowsInOrder ==
  /\ Sent <= Rows
  /\ \A i \in DOMAIN opCommit :
       /\ opCommit[i].parent = i - 1
       /\ opCommit[i].ins \in {0, i}
       /\ i < Sent => opCommit[i].ins = i
       /\ opCommit[i].inEventList => opCommit[i].ins = i
  /\ \A i, j \in DOMAIN opCommit : i < j /\ opCommit[j].inEventList => opCommit[i].inEventList

\* The open commit is saved before it is committed.
SavedSteps == {"commit", "verify", "create", "send", "saveIns"}

OpenInOrder ==
  /\ commitData.parent # None => commitData.parent \in {Rows - 1, Rows}
  /\ commitData.ins # 0 => /\ commitData.parent + 1 \in DOMAIN opCommit
                           /\ opCommit[commitData.parent + 1].ins = commitData.ins
  /\ ~inited /\ pc \in {"idle", "rebuild"} => commitData.parent = None
  /\ (~inited /\ pc \in BootSteps) \/ pc \in SavedSteps => commitData.parent = Rows - 1
  /\ pc = "senderInit" => ~inited

SenderInOrder ==
  /\ lastCommitOp < Rows
  /\ inited /\ LastKnown => lastCommitOp = Sent - 1
  /\ pc \in {"verify", "create", "send"} => lastCommitOp # commitData.parent

\* The rows of the events before the n-th one are marked.
MarkedUpTo(n) ==
  \A i \in DOMAIN opCommit : i <= n /\ opCommit[i].ins # 0 => opCommit[i].inEventList

MarksInOrder ==
  /\ pc = "snapshot" /\ allEventsFromStart.from < allEventsFromStart.to =>
       MarkedUpTo(allEventsFromStart.from)
  /\ pc = "mark" /\ handled < allEventsFromStart.to => MarkedUpTo(handled)

InOrder == /\ LinearChain /\ EventsInOrder /\ RowsInOrder
           /\ OpenInOrder /\ SenderInOrder /\ MarksInOrder

ForkInv == LostForGood \/ InOrder

\* At the first start everything is in order.
LEMMA InOrderInit == Init => InOrder
  BY DEF Init, InOrder, LinearChain, EventsInOrder, RowsInOrder, OpenInOrder, SenderInOrder,
     MarksInOrder, Sent, Rows, NoCommit, NewCommit, None, SavedSteps, BootSteps, LastKnown

\* The types of the sequences, in the form the steps below use.
LEMMA SequenceTypes ==
  ASSUME TypeInv
  PROVE  /\ Sent \in Nat /\ DOMAIN inscribed = 1..Sent
         /\ Rows \in Nat /\ DOMAIN opCommit = 1..Rows
         /\ Len(events) \in Nat /\ DOMAIN events = 1..Len(events)
         /\ \A i \in DOMAIN opCommit : opCommit[i].parent \in Nat /\ opCommit[i].ins \in Nat
         /\ \A i \in DOMAIN inscribed : inscribed[i].parent \in Nat
         /\ commitData.parent \in Nat \cup {None} /\ commitData.ins \in Nat
<1>1. /\ opCommit \in [DOMAIN opCommit -> OpCommitData]
      /\ inscribed \in [DOMAIN inscribed -> [parent : Nat, data : Seq(Ops)]]
  BY LenProperties DEF TypeInv, TypeOK
<1>2. /\ \A i \in DOMAIN opCommit : opCommit[i].parent \in Nat /\ opCommit[i].ins \in Nat
      /\ \A i \in DOMAIN inscribed : inscribed[i].parent \in Nat
  BY <1>1 DEF OpCommitData
<1> QED BY <1>2, LenProperties DEF TypeInv, TypeOK, Sent, Rows, CommitOp

\* What is lost for good stays lost: no step writes an old inscription.
LEMMA LostStaysLost ==
  ASSUME TypeInv, LostForGood, [Next]_vars
  PROVE  LostForGood'
<1> USE DEF operatorVars, senderVars, builderVars, processVars, bounds
<1>1. PICK m \in 1..(Sent - 1) : /\ \A i \in DOMAIN opCommit : opCommit[i].ins # m
                                 /\ commitData.ins # m
  BY DEF LostForGood
<1>2. /\ Sent \in Nat /\ m # 0 /\ m # Sent
      /\ opCommit \in Seq(OpCommitData) /\ DOMAIN opCommit = 1..Len(opCommit)
      /\ Len(opCommit) \in Nat
  <2>1. Sent \in Nat
    BY SequenceTypes
  <2> QED BY <1>1, <2>1, SequenceTypes DEF Rows, TypeInv, TypeOK
<1>3. ASSUME UNCHANGED inscribed, commitData'.ins # m,
             \A i \in DOMAIN opCommit' : opCommit'[i].ins # m
      PROVE  LostForGood'
  BY <1>1, <1>3 DEF LostForGood, Sent
<1>4. CASE UNCHANGED <<commitData, opCommit, inscribed>>
  BY <1>1, <1>3, <1>4
<1>5. CASE Rebuild /\ UNCHANGED inscribed
  <2>1. CASE commitData # NoCommit
    BY <1>4, <1>5, <2>1, RebuildKeepsCommit
  <2>2. CASE Orphaned
    <3>1. /\ commitData' = RebuiltCommit /\ opCommit' = UpsertData(RebuiltCommit)
          /\ RebuiltCommit.ins = 0
      BY <1>5, <2>2 DEF Rebuild, RebuiltCommit, NewCommit, Orphaned
    <3>2. RebuiltCommit \in CommitOp /\ RebuiltCommit.parent # None
      BY <1>5, <3>1, RebuildType
    <3>3. \A i \in DOMAIN opCommit' : opCommit'[i].ins # m
      BY <1>1, <1>2, <3>1, <3>2, UpsertDataRows
    <3> QED BY <1>2, <1>3, <1>5, <3>1, <3>3
  <2>3. CASE commitData = NoCommit /\ NotInEventList # {}
    <3>1. LastNotInEventList \in DOMAIN opCommit
      BY <2>3, LastNotInEventListType DEF TypeInv
    <3>2. commitData'.ins = opCommit[LastNotInEventList].ins /\ opCommit' = opCommit
      BY <1>5, <2>3 DEF Rebuild, Orphaned, RebuiltCommit
    <3> QED BY <1>1, <1>3, <1>5, <3>1, <3>2
  <2> QED BY <2>1, <2>2, <2>3 DEF Orphaned
<1>6. CASE TrySave \/ SaveNewCommitOp
  <2>1. commitData \in CommitOp /\ commitData.parent # None
    BY <1>6 DEF TrySave, SaveNewCommitOp, TypeInv, TypeOK, Opened, InitedSteps
  <2>2. UNCHANGED <<commitData, inscribed>>
        /\ (opCommit' = opCommit \/ opCommit' = UpsertData(commitData))
    BY <1>6 DEF TrySave, SaveNewCommitOp
  <2>3. CASE opCommit' = UpsertData(commitData)
    <3>1. \A i \in DOMAIN opCommit' : opCommit'[i].ins # m
      BY <1>1, <1>2, <2>1, <2>3, UpsertDataRows
    <3> QED BY <1>1, <1>3, <2>2, <3>1
  <2> QED BY <1>4, <2>2, <2>3
<1>7. CASE SaveInscription
  <2>1. UNCHANGED <<commitData, inscribed>>
    BY <1>7 DEF SaveInscription
  <2>2. \A i \in DOMAIN opCommit : opCommit'[i].ins # m
    BY <1>1, <1>2, <1>7, SaveInscriptionRows DEF Sent
  <2>3. \A i \in DOMAIN opCommit' : \/ i \in DOMAIN opCommit
                                    \/ opCommit'[i].ins = Sent
    <3>1. CASE HasParent(commitData.parent)
      BY <1>2, <1>7, <3>1, SaveInscriptionRows
    <3>2. CASE ~HasParent(commitData.parent)
      BY <1>2, <1>7, <3>2, SaveInscriptionRows DEF Sent
    <3> QED BY <3>1, <3>2
  <2> QED BY <1>1, <1>2, <1>3, <2>1, <2>2, <2>3
<1>8. CASE BuilderMark
  <2>1. \A i \in DOMAIN opCommit' : i \in DOMAIN opCommit /\ opCommit'[i].ins = opCommit[i].ins
    BY <1>8, MarkRows DEF BuilderMark, TypeInv, TypeOK
  <2> QED BY <1>1, <1>3, <1>8, <2>1 DEF BuilderMark
<1>9. CASE Broadcast \/ BroadcastFatal
  <2>1. UNCHANGED <<commitData, opCommit>>
        /\ (inscribed' = inscribed \/ inscribed' = Append(inscribed, Inscription))
    BY <1>9 DEF Broadcast, BroadcastFatal
  <2>2. CASE inscribed' = Append(inscribed, Inscription)
    <3>1. Sent' = Sent + 1
      <4>1. Inscription \in [parent : Nat, data : Seq(Ops)]
        BY <1>9 DEF Broadcast, BroadcastFatal, TypeInv, TypeOK, Opened, InitedSteps,
           Inscription, CommitOp
      <4> QED BY <2>2, <4>1 DEF TypeInv, TypeOK, Sent
    <3>2. m \in 1..(Sent' - 1)
      BY <1>2, <3>1
    <3> QED BY <1>1, <2>1, <3>2 DEF LostForGood
  <2> QED BY <1>4, <2>1, <2>2
<1>10. CASE TryNewCommitOp
  BY <1>1, <1>2, <1>3, <1>10 DEF TryNewCommitOp, NewCommit
<1>11. CASE AggregatePush
  BY <1>1, <1>3, <1>11 DEF AggregatePush, TypeInv, TypeOK, CommitOp
<1>12. CASE Crash
  BY <1>1, <1>2, <1>3, <1>12 DEF Crash, NoCommit, NewCommit
<1>13. CASE BuilderSkip \/ BuilderFetch \/ BuilderRebuildThrows \/ BuilderSnapshot
           \/ BuilderMarkThrows \/ BuilderDone \/ SenderInit \/ OperatorCheck
           \/ TryCommitSkip \/ Verify
  BY <1>4, <1>13 DEF BuilderSkip, BuilderFetch, BuilderRebuildThrows, RebuildThrows,
       BuilderSnapshot, BuilderMarkThrows, BuilderDone, SenderInit, OperatorCheck,
       TryCommitSkip, Verify
<1>14. CASE CreateCommit \/ CreateCommitThrows \/ SaveInscriptionThrows \/ TryNewCommitOpSkip
           \/ AggregateReject \/ TimePasses \/ EventListed \/ UNCHANGED vars
  BY <1>4, <1>14 DEF CreateCommit, CreateCommitThrows, SaveInscriptionThrows,
       TryNewCommitOpSkip, AggregateReject, TimePasses, EventListed, vars
<1>15. CASE BuilderRebuild \/ TryCommit \/ \E op \in Ops : Aggregate(op)
  BY <1>4, <1>5, <1>15 DEF BuilderRebuild, TryCommit, Aggregate, RebuildThrows
<1> QED
  BY <1>6, <1>7, <1>8, <1>9, <1>10, <1>11, <1>12, <1>13, <1>14, <1>15
     DEF Next, MainTimer, BuilderTick, OperatorTick, SenderStep, Requests, Environment, Stopped

\* Steps of the timer that leave the commits, the events, op_commit and the sender
\* alone keep the order, if they only go on or give up.
LEMMA InOrderCalm ==
  ASSUME TypeInv, InOrder,
         UNCHANGED <<inscribed, opCommit, commitData, lastCommitOp, inited, events>>,
         ~inited /\ pc' \in {"idle", "rebuild"} => pc \in {"idle", "rebuild"},
         ~inited /\ pc' \in BootSteps => pc \in BootSteps,
         pc' \in SavedSteps => pc \in SavedSteps,
         pc' \in {"verify", "create", "send"} => pc \in {"verify", "create", "send"},
         pc' = "senderInit" => ~inited,
         MarksInOrder'
  PROVE  InOrder'
<1>1. LinearChain' /\ EventsInOrder' /\ RowsInOrder'
  BY DEF InOrder, LinearChain, EventsInOrder, RowsInOrder, Sent, Rows
<1>2. OpenInOrder'
  BY DEF InOrder, OpenInOrder, Rows
<1>3. SenderInOrder'
  BY DEF InOrder, SenderInOrder, LastKnown, Rows, Sent
<1> QED BY <1>1, <1>2, <1>3 DEF InOrder

\* A rebuild that finds no commit out of the chain has no inscribed commit to
\* apply that lies before the events it was given: the first of them would not
\* follow the last event (space.ts handleCommitOp, operator.ts:146-154).
LEMMA RebuildMarks ==
  ASSUME TypeInv, ParentInv, InOrder, CanRebuild,
         allEventsFromStart.from < allEventsFromStart.to
  PROVE  MarkedUpTo(allEventsFromStart.from)
<1> DEFINE from == allEventsFromStart.from
           to   == allEventsFromStart.to
           Bad(i) == /\ i \in DOMAIN opCommit /\ i <= from
                     /\ opCommit[i].ins # 0 /\ ~opCommit[i].inEventList
           bads == {i \in DOMAIN opCommit : Bad(i)}
<1> SUFFICES ASSUME bads # {} PROVE FALSE
  BY DEF MarkedUpTo
<1>1. /\ Sent \in Nat /\ DOMAIN inscribed = 1..Sent
      /\ Rows \in Nat /\ DOMAIN opCommit = 1..Rows
      /\ Len(events) \in Nat /\ DOMAIN events = 1..Len(events)
      /\ \A i \in DOMAIN opCommit : opCommit[i].parent \in Nat /\ opCommit[i].ins \in Nat
      /\ commitData.parent \in Nat \cup {None} /\ commitData.ins \in Nat
  BY SequenceTypes
<1>2. from \in Nat /\ to \in Nat /\ from < to /\ to <= Len(events)
  BY DEF TypeInv, TypeOK, Ranges, EventRange
<1>3. \A k \in 1..Len(events) : events[k] = k /\ k <= Sent
  BY <1>1 DEF InOrder, EventsInOrder, TypeInv, Ranges
<1>4. from < Sent /\ Sent <= Rows
  <2>1. to \in 1..Len(events)
    BY <1>1, <1>2
  <2>2. to <= Sent
    BY <1>3, <2>1
  <2> QED BY <1>1, <1>2, <2>2 DEF InOrder, RowsInOrder
<1>5. PICK j \in bads : \A i \in bads : j <= i
  <2>1. bads \subseteq Nat
    BY <1>1
  <2> HIDE DEF bads
  <2> QED BY <2>1, HasSmallest
<1>6. /\ j \in 1..Rows /\ j <= from /\ j < Rows
      /\ opCommit[j].ins = j /\ opCommit[j].parent = j - 1 /\ ~opCommit[j].inEventList
  BY <1>1, <1>2, <1>4, <1>5 DEF InOrder, RowsInOrder
\* The rows before the last one are as op_commit has them.
<1>7. \A i \in 1..(Rows - 1) : i \in DOMAIN Uncommitted /\ Uncommitted[i] = opCommit[i]
  <2> SUFFICES ASSUME NEW i \in 1..(Rows - 1)
               PROVE  i \in DOMAIN Uncommitted /\ Uncommitted[i] = opCommit[i]
    OBVIOUS
  <2> DEFINE open == [parent |-> commitData.parent, data |-> commitData.data,
                      ins |-> commitData.ins, inEventList |-> FALSE]
             saved == {k \in NotInEventList : opCommit[k].parent = commitData.parent}
  <2>1. i \in DOMAIN opCommit /\ opCommit[i].parent = i - 1
    BY <1>1 DEF InOrder, RowsInOrder
  <2>2. CASE commitData = NoCommit
    BY <2>1, <2>2 DEF Uncommitted
  <2>3. CASE commitData # NoCommit /\ saved # {}
    <3>1. commitData.parent \in {Rows - 1, Rows}
      BY <2>3 DEF InOrder, OpenInOrder, TypeInv, Opened
    <3>2. i \notin saved
      BY <1>1, <2>1, <3>1
    <3>3. Uncommitted = [k \in DOMAIN opCommit |-> IF k \in saved THEN open ELSE opCommit[k]]
      BY <2>3 DEF Uncommitted
    <3> HIDE DEF saved, open
    <3> QED BY <2>1, <3>2, <3>3
  <2>4. CASE commitData # NoCommit /\ saved = {}
    <3>1. Uncommitted = Append(opCommit, open)
      BY <2>4 DEF Uncommitted
    <3> DEFINE Row == [parent : Nat \cup {None}, data : Seq(Ops), ins : Nat,
                       inEventList : BOOLEAN]
    <3>2. open \in Row
      BY DEF TypeInv, TypeOK, CommitOp
    <3>3. opCommit \in Seq(Row)
      <4>1. opCommit \in [1..Rows -> OpCommitData]
        BY <1>1, LenProperties DEF TypeInv, TypeOK
      <4>2. opCommit \in [1..Rows -> Row]
        BY <4>1 DEF OpCommitData
      <4> HIDE DEF Row
      <4> QED BY <1>1, <4>2, FunctionIsSequence
    <3> HIDE DEF open, Row
    <3>4. /\ DOMAIN Append(opCommit, open) = 1..(Rows + 1)
          /\ \A k \in 1..Rows : Append(opCommit, open)[k] = opCommit[k]
      BY <1>1, <3>2, <3>3 DEF Rows
    <3>5. i \in 1..Rows /\ i \in 1..(Rows + 1)
      BY <1>1
    <3> QED BY <3>1, <3>4, <3>5
  <2> QED BY <2>2, <2>3, <2>4
<1>8. /\ j \in DOMAIN Uncommitted /\ Uncommitted[j].ins = j
      /\ Uncommitted[j].parent = j - 1 /\ ~Uncommitted[j].inEventList
  BY <1>1, <1>6, <1>7
\* It is not one of the commits the event list has.
<1>9. j \in ToApply
  <2>1. \A i \in (from + 1)..to : inscribed[events[i]].parent # j - 1
    <3> SUFFICES ASSUME NEW i \in (from + 1)..to PROVE inscribed[events[i]].parent # j - 1
      OBVIOUS
    <3>1. i \in 1..Len(events)
      BY <1>1, <1>2
    <3>2. events[i] = i /\ i \in DOMAIN inscribed
      BY <1>1, <1>3, <3>1
    <3>3. inscribed[i].parent = i - 1
      BY <3>2 DEF InOrder, LinearChain
    <3> QED BY <1>1, <1>2, <1>6, <3>2, <3>3
  <2>2. Uncommitted[j].parent \notin SeenParents
    BY <1>8, <2>1 DEF SeenParents
  <2> QED BY <1>8, <2>2 DEF ToApply
\* It is the first one with an inscription.
<1>10. LastCommitIdBefore(j) = events[to]
  <2>1. {k \in ToApply : k < j /\ Uncommitted[k].ins # 0} = {}
    <3> SUFFICES ASSUME NEW k \in ToApply, k < j, Uncommitted[k].ins # 0 PROVE FALSE
      OBVIOUS
    <3>1. k \in 1..(Rows - 1)
      <4>1. k \in DOMAIN Uncommitted
        BY DEF ToApply
      <4>2. DOMAIN Uncommitted \subseteq Nat \ {0}
        <5>1. CASE Uncommitted = opCommit
          BY <1>1, <5>1
        <5>2. CASE DOMAIN Uncommitted = DOMAIN opCommit
          BY <1>1, <5>2
        <5>3. ASSUME NEW x, Uncommitted = Append(opCommit, x)
              PROVE  DOMAIN Uncommitted \subseteq Nat \ {0}
          <6>1. DOMAIN Append(opCommit, x) = 1..(Rows + 1)
            BY DEF Rows, TypeInv, TypeOK
          <6> QED BY <1>1, <5>3, <6>1
        <5> QED BY <5>1, <5>2, <5>3 DEF Uncommitted
      <4> QED BY <1>1, <1>6, <4>1, <4>2
    <3>2. Uncommitted[k] = opCommit[k]
      BY <1>7, <3>1
    <3>3. ~opCommit[k].inEventList /\ opCommit[k].ins # 0
      BY <3>2 DEF ToApply
    <3>4. k \in bads
      BY <1>1, <1>2, <1>6, <3>1, <3>3
    <3>5. j <= k
      BY <1>5, <3>4
    <3> QED BY <1>6, <3>1, <3>5
  <2> QED BY <1>2, <2>1 DEF LastCommitIdBefore
<1>11. events[to] = to /\ to \in Nat /\ to # j - 1 /\ to # None
  BY <1>1, <1>2, <1>3, <1>6 DEF None
<1>12. j \in OutOfChain
  BY <1>6, <1>8, <1>9, <1>10, <1>11 DEF OutOfChain
<1> QED BY <1>12 DEF CanRebuild

\* A commit that is broadcast while op_commit knows the last inscription follows
\* it: the open commit is the last row, and its parent is not the one that
\* opSender committed last (operator.ts tryCommit, op-sender.ts createCommit).
LEMMA BroadcastInOrder ==
  ASSUME TypeInv, ParentInv, InOrder, LastKnown, Broadcast \/ BroadcastFatal,
         inscribed' = Append(inscribed, Inscription)
  PROVE  InOrder'
<1> USE DEF operatorVars, senderVars, builderVars, processVars, bounds
<1>1. /\ Sent \in Nat /\ DOMAIN inscribed = 1..Sent
      /\ Rows \in Nat /\ DOMAIN opCommit = 1..Rows
      /\ commitData.parent \in Nat \cup {None}
  BY SequenceTypes
<1>2. /\ UNCHANGED <<opCommit, commitData, lastCommitOp, inited, events>>
      /\ pc = "send" /\ pc' \in {"saveIns", "stopped"} /\ inited
  BY DEF Broadcast, BroadcastFatal, Stop, TypeInv, Opened, InitedSteps
<1>3. commitData.parent = Sent /\ Rows = Sent + 1
  <2>1. commitData.parent = Rows - 1 /\ Sent <= Rows
    BY <1>2 DEF InOrder, OpenInOrder, SavedSteps, RowsInOrder
  <2>2. commitData.parent <= Sent
    BY DEF ParentInv, Sound, Sent
  <2>3. lastCommitOp = Sent - 1 /\ lastCommitOp # commitData.parent
    BY <1>2 DEF InOrder, SenderInOrder
  <2> QED BY <1>1, <2>1, <2>2, <2>3
<1>4. /\ Inscription \in [parent : Nat, data : Seq(Ops)]
      /\ Inscription.parent = Sent
  BY <1>1, <1>3 DEF Inscription, TypeInv, TypeOK, CommitOp
<1>5. /\ Sent' = Sent + 1 /\ DOMAIN inscribed' = 1..(Sent + 1)
      /\ \A i \in 1..Sent : inscribed'[i] = inscribed[i]
      /\ inscribed'[Sent + 1] = Inscription
  BY <1>4 DEF Sent, TypeInv, TypeOK
<1>6. LinearChain'
  <2> SUFFICES ASSUME NEW i \in 1..(Sent + 1) PROVE inscribed'[i].parent = i - 1
    BY <1>5 DEF LinearChain
  <2>1. CASE i = Sent + 1
    BY <1>1, <1>4, <1>5, <2>1
  <2>2. CASE i \in 1..Sent
    BY <1>1, <1>5, <2>2 DEF InOrder, LinearChain
  <2> QED BY <1>1, <2>1, <2>2
<1>7. Rows' = Rows
  BY <1>2 DEF Rows
<1>8. RowsInOrder'
  <2>1. Sent' <= Rows'
    BY <1>1, <1>3, <1>5, <1>7
  <2>2. \A i \in DOMAIN opCommit : i < Sent + 1 => opCommit[i].ins = i
    BY <1>1 DEF InOrder, RowsInOrder, LastKnown
  <2> QED BY <1>2, <1>5, <2>1, <2>2 DEF InOrder, RowsInOrder
<1>9. OpenInOrder'
  BY <1>2, <1>7 DEF InOrder, OpenInOrder, SavedSteps, BootSteps
<1>10. SenderInOrder'
  <2>1. opCommit[Sent + 1].ins # Sent + 1
    <3>1. Sent + 1 \in DOMAIN opCommit
      BY <1>1, <1>3
    <3>2. opCommit[Sent + 1].ins # 0 => opCommit[Sent + 1].ins \in DOMAIN inscribed
      BY <3>1 DEF ParentInv, Sound, Links
    <3> QED BY <1>1, <3>2
  <2>2. ~LastKnown'
    BY <1>1, <1>2, <1>5, <2>1 DEF LastKnown
  <2> QED BY <1>2, <1>7, <2>2 DEF InOrder, SenderInOrder
<1>11. EventsInOrder' /\ MarksInOrder'
  BY <1>2 DEF InOrder, EventsInOrder, MarksInOrder
<1> QED BY <1>6, <1>8, <1>9, <1>10, <1>11 DEF InOrder

\* A commit that is broadcast while op_commit has missed the last inscription
\* leaves that one lost for good.
LEMMA BroadcastLoses ==
  ASSUME TypeInv, InOrder, ~LastKnown, Broadcast \/ BroadcastFatal,
         inscribed' = Append(inscribed, Inscription)
  PROVE  LostForGood'
<1> USE DEF operatorVars
<1>1. /\ Sent \in Nat /\ Rows \in Nat /\ DOMAIN opCommit = 1..Rows
  BY SequenceTypes
<1>2. UNCHANGED <<opCommit, commitData>>
  BY DEF Broadcast, BroadcastFatal
<1>3. Sent' = Sent + 1
  <2>1. Inscription \in [parent : Nat, data : Seq(Ops)]
    BY DEF Broadcast, BroadcastFatal, TypeInv, TypeOK, Opened, InitedSteps,
       Inscription, CommitOp
  <2> QED BY <2>1 DEF TypeInv, TypeOK, Sent
<1>4. Sent \in 1..(Sent' - 1)
  BY <1>1, <1>3 DEF LastKnown
<1>5. \A i \in DOMAIN opCommit : opCommit[i].ins # Sent
  BY <1>1, <1>4 DEF InOrder, RowsInOrder, LastKnown
<1>6. commitData.ins # Sent
  BY <1>1, <1>4, <1>5 DEF InOrder, OpenInOrder
<1> QED BY <1>2, <1>4, <1>5, <1>6 DEF LostForGood

\* The rebuild of a process that boots takes the last row for the open commit, or
\* adds one after the last inscribed row (operator.ts:130-192).
LEMMA BootRebuildInOrder ==
  ASSUME TypeInv, ParentInv, InOrder, BuilderRebuild, ~inited
  PROVE  InOrder' /\ (LastKnown' <=> LastKnown)
<1> USE DEF operatorVars, senderVars, builderVars, processVars, bounds
<1>1. /\ Sent \in Nat /\ Rows \in Nat /\ DOMAIN opCommit = 1..Rows
      /\ \A i \in DOMAIN opCommit : opCommit[i].parent \in Nat /\ opCommit[i].ins \in Nat
  BY SequenceTypes
<1>2. /\ UNCHANGED <<inscribed, lastCommitOp, inited, events, allEventsFromStart>>
      /\ pc' = "snapshot" /\ Rebuild /\ CanRebuild
  BY DEF BuilderRebuild, Rebuild
<1>3. commitData = NoCommit
  BY DEF BuilderRebuild, InOrder, OpenInOrder, TypeInv, Opened
<1>4. LinearChain' /\ EventsInOrder' /\ Sent' = Sent
  BY <1>2 DEF InOrder, LinearChain, EventsInOrder, Sent
<1>5. CASE NotInEventList = {}
  <2>1. Orphaned /\ \A i \in DOMAIN opCommit : opCommit[i].inEventList /\ opCommit[i].ins = i
    BY <1>3, <1>5 DEF Orphaned, NotInEventList, InOrder, RowsInOrder
  <2>2. RebuiltCommit = NewCommit(Rows)
    <3>1. CASE Rows = 0
      <4>1. Inscribed = {}
        BY <1>1, <3>1 DEF Inscribed
      <4> QED BY <2>1, <3>1, <4>1 DEF RebuiltCommit, Orphaned
    <3>2. CASE Rows # 0
      <4>1. Inscribed = 1..Rows
        BY <1>1, <2>1 DEF Inscribed
      <4>2. LastInscribed = Rows
        BY <1>1, <3>2, <4>1 DEF LastInscribed
      <4>3. Inscribed # {} /\ opCommit[LastInscribed].ins = Rows
        BY <1>1, <2>1, <3>2, <4>1, <4>2
      <4> QED BY <2>1, <4>3 DEF RebuiltCommit, Orphaned
    <3> QED BY <3>1, <3>2
  <2>3. commitData' = NewCommit(Rows) /\ opCommit' = UpsertData(NewCommit(Rows))
    BY <1>2, <2>1, <2>2 DEF Rebuild
  <2>4. /\ NewCommit(Rows) \in CommitOp /\ NewCommit(Rows).parent = Rows
        /\ NewCommit(Rows).ins = 0 /\ Rows # None
    BY <1>1 DEF NewCommit, CommitOp, None
  <2>5. ~HasParent(Rows)
    BY <1>1 DEF HasParent, InOrder, RowsInOrder
  <2>6. /\ Rows' = Rows + 1 /\ DOMAIN opCommit' = 1..(Rows + 1)
        /\ \A i \in 1..Rows : opCommit'[i] = opCommit[i]
        /\ opCommit'[Rows + 1].parent = Rows /\ opCommit'[Rows + 1].ins = 0
        /\ ~opCommit'[Rows + 1].inEventList
    <3> DEFINE op == NewCommit(Rows)
    <3>1. /\ op \in CommitOp /\ op.parent # None /\ ~HasParent(op.parent)
          /\ op.parent = Rows /\ op.ins = 0
          /\ opCommit' = UpsertData(op) /\ opCommit \in Seq(OpCommitData)
      BY <2>3, <2>4, <2>5 DEF TypeInv, TypeOK
    <3>2. \A i \in DOMAIN opCommit : opCommit[i].parent # op.parent
      BY <3>1 DEF HasParent
    <3> HIDE DEF op
    <3> QED BY <1>1, <3>1, <3>2, UpsertDataRows DEF Rows
  <2>7. RowsInOrder'
    BY <1>1, <1>4, <2>1, <2>6 DEF InOrder, RowsInOrder
  <2>8. OpenInOrder'
    BY <1>1, <1>2, <2>3, <2>4, <2>6 DEF OpenInOrder, BootSteps, SavedSteps
  <2>9. SenderInOrder'
    <3>1. lastCommitOp < Rows /\ lastCommitOp \in Nat \cup {None}
      BY DEF InOrder, SenderInOrder, TypeInv, TypeOK
    <3> QED BY <1>1, <1>2, <2>6, <3>1 DEF SenderInOrder, None
  <2>10. MarksInOrder'
    BY <1>1, <1>2, <2>1, <2>6 DEF MarksInOrder, MarkedUpTo
  <2>11. LastKnown' <=> LastKnown
    <3>1. Sent # 0 => Sent \in 1..Rows
      BY <1>1 DEF InOrder, RowsInOrder
    <3> QED BY <1>4, <2>6, <3>1 DEF LastKnown
  <2> QED BY <1>4, <2>7, <2>8, <2>9, <2>10, <2>11 DEF InOrder
<1>6. CASE NotInEventList # {}
  <2>1. ~opCommit[Rows].inEventList /\ Rows # 0 /\ LastNotInEventList = Rows
    <3>1. PICK i \in DOMAIN opCommit : ~opCommit[i].inEventList
      BY <1>6 DEF NotInEventList
    <3>2. Rows \in DOMAIN opCommit /\ i <= Rows /\ i \in Nat
      BY <1>1, <3>1
    <3>3. ~opCommit[Rows].inEventList
      BY <1>1, <3>1, <3>2 DEF InOrder, RowsInOrder
    <3>4. Rows \in NotInEventList /\ \A k \in NotInEventList : k \in Nat /\ k <= Rows
      BY <1>1, <3>2, <3>3 DEF NotInEventList
    <3>5. LastNotInEventList = Rows
      <4>1. \E k \in NotInEventList : \A l \in NotInEventList : l <= k
        BY <3>4
      <4>2. /\ LastNotInEventList \in NotInEventList
            /\ \A l \in NotInEventList : l <= LastNotInEventList
        BY <4>1 DEF LastNotInEventList
      <4> QED BY <1>1, <3>4, <4>2
    <3> QED BY <1>1, <3>2, <3>3, <3>5
  <2>2. /\ opCommit' = opCommit
        /\ commitData'.parent = opCommit[Rows].parent /\ commitData'.ins = opCommit[Rows].ins
    BY <1>2, <1>3, <1>6, <2>1 DEF Rebuild, Orphaned, RebuiltCommit
  <2>3. Rows' = Rows /\ commitData'.parent = Rows - 1 /\ Rows \in DOMAIN opCommit
    BY <1>1, <2>1, <2>2 DEF InOrder, RowsInOrder, Rows
  <2>4. RowsInOrder'
    BY <1>4, <2>2, <2>3 DEF InOrder, RowsInOrder
  <2>5. OpenInOrder'
    BY <1>1, <1>2, <2>2, <2>3 DEF OpenInOrder, BootSteps, SavedSteps
  <2>6. SenderInOrder'
    BY <1>2, <2>3 DEF InOrder, SenderInOrder
  <2>7. MarksInOrder'
    BY <1>2, <2>2, RebuildMarks DEF MarksInOrder, MarkedUpTo
  <2>8. LastKnown' <=> LastKnown
    BY <1>4, <2>2 DEF LastKnown
  <2> QED BY <1>4, <2>4, <2>5, <2>6, <2>7, <2>8 DEF InOrder
<1> QED BY <1>5, <1>6

\* Marking the row of the next event keeps the marks downward closed.
LEMMA MarkInOrder ==
  ASSUME TypeInv, InOrder, BuilderMark
  PROVE  InOrder' /\ (LastKnown' <=> LastKnown)
<1> USE DEF operatorVars, senderVars, builderVars, processVars, bounds
<1> DEFINE k == handled + 1
<1>1. /\ Sent \in Nat /\ DOMAIN inscribed = 1..Sent
      /\ Rows \in Nat /\ DOMAIN opCommit = 1..Rows
      /\ Len(events) \in Nat /\ DOMAIN events = 1..Len(events)
      /\ \A i \in DOMAIN opCommit : opCommit[i].parent \in Nat /\ opCommit[i].ins \in Nat
  BY SequenceTypes
<1>2. /\ UNCHANGED <<inscribed, commitData, lastCommitOp, inited, events, allEventsFromStart, pc>>
      /\ pc = "mark" /\ handled < allEventsFromStart.to /\ handled' = k
      /\ opCommit' = MarkInEventList(events[k])
  BY DEF BuilderMark
<1>3. /\ handled \in Nat /\ k \in Nat \ {0} /\ k \in DOMAIN events
      /\ events[k] = k /\ k <= Sent
  <2>1. handled \in Nat /\ allEventsFromStart.to \in Nat /\ allEventsFromStart.to <= Len(events)
    BY DEF TypeInv, TypeOK, EventRange, Ranges
  <2>2. k \in DOMAIN events
    BY <1>1, <1>2, <2>1
  <2>3. events[k] = k /\ events[k] \in DOMAIN inscribed
    BY <2>2 DEF InOrder, EventsInOrder, TypeInv, Ranges
  <2> QED BY <1>1, <2>1, <2>2, <2>3
<1> HIDE DEF k
<1>4. /\ Rows' = Rows /\ DOMAIN opCommit' = DOMAIN opCommit
      /\ \A i \in DOMAIN opCommit :
           /\ opCommit'[i].parent = opCommit[i].parent
           /\ opCommit'[i].ins = opCommit[i].ins
           /\ opCommit'[i].inEventList <=> (opCommit[i].inEventList \/ opCommit[i].ins = k)
  <2>1. opCommit' = MarkInEventList(k) /\ opCommit \in Seq(OpCommitData)
    BY <1>2, <1>3 DEF TypeInv, TypeOK
  <2> QED BY <2>1, MarkRows DEF Rows
<1>5. MarkedUpTo(handled)
  BY <1>2 DEF InOrder, MarksInOrder
<1>6. \A i \in DOMAIN opCommit : i < k /\ k \in DOMAIN opCommit => opCommit[i].inEventList
  <2> SUFFICES ASSUME NEW i \in DOMAIN opCommit, i < k PROVE opCommit[i].inEventList
    OBVIOUS
  <2>1. i < Sent /\ i <= handled /\ i # 0
    BY <1>1, <1>3 DEF k
  <2>2. opCommit[i].ins = i
    BY <2>1 DEF InOrder, RowsInOrder
  <2> QED BY <1>5, <2>1, <2>2 DEF MarkedUpTo
<1>7. RowsInOrder'
  <2>1. Sent' = Sent
    BY <1>2 DEF Sent
  <2>2. \A i \in DOMAIN opCommit :
          /\ opCommit'[i].parent = i - 1
          /\ opCommit'[i].ins \in {0, i}
          /\ i < Sent => opCommit'[i].ins = i
          /\ opCommit'[i].inEventList => opCommit'[i].ins = i
    BY <1>3, <1>4 DEF InOrder, RowsInOrder
  <2>3. ASSUME NEW i \in DOMAIN opCommit, NEW j \in DOMAIN opCommit, i < j,
               opCommit'[j].inEventList
        PROVE  opCommit'[i].inEventList
    <3>1. CASE opCommit[j].inEventList
      BY <1>4, <2>3, <3>1 DEF InOrder, RowsInOrder
    <3>2. CASE opCommit[j].ins = k
      <4>1. j = k
        BY <1>3, <3>2 DEF InOrder, RowsInOrder
      <4> QED BY <1>4, <1>6, <2>3, <4>1
    <3> QED BY <1>4, <2>3, <3>1, <3>2
  <2> QED BY <1>4, <2>1, <2>2, <2>3 DEF InOrder, RowsInOrder
<1>8. OpenInOrder'
  <2>1. commitData.ins # 0 => commitData.parent + 1 \in DOMAIN opCommit
    BY DEF InOrder, OpenInOrder
  <2> QED BY <1>2, <1>4, <2>1 DEF InOrder, OpenInOrder
<1>9. LastKnown' <=> LastKnown
  <2>1. Sent # 0 => Sent \in DOMAIN opCommit
    BY <1>1 DEF InOrder, RowsInOrder
  <2> QED BY <1>2, <1>4, <2>1 DEF LastKnown, Sent
<1>10. SenderInOrder'
  BY <1>2, <1>4, <1>9 DEF InOrder, SenderInOrder, Sent
<1>11. MarksInOrder'
  <2>1. ASSUME NEW i \in DOMAIN opCommit, i <= k, opCommit[i].ins # 0
        PROVE  opCommit'[i].inEventList
    <3>1. CASE i <= handled
      BY <1>4, <1>5, <2>1, <3>1 DEF MarkedUpTo
    <3>2. CASE i = k
      BY <1>4, <2>1, <3>2 DEF InOrder, RowsInOrder
    <3> QED BY <1>1, <1>3, <2>1, <3>1, <3>2 DEF k
  <2> QED BY <1>2, <1>4, <2>1 DEF MarksInOrder, MarkedUpTo
<1>12. LinearChain' /\ EventsInOrder'
  BY <1>2 DEF InOrder, LinearChain, EventsInOrder
<1> QED BY <1>7, <1>8, <1>9, <1>10, <1>11, <1>12 DEF InOrder

\* opSender.init finds the last inscription op_commit knows (op-sender.ts init), or
\* takes the last event when it knows none.
LEMMA SenderInitInOrder ==
  ASSUME TypeInv, ParentInv, InOrder, SenderInit
  PROVE  InOrder'
<1> USE DEF operatorVars, senderVars, builderVars, processVars, bounds
<1>1. /\ Sent \in Nat /\ DOMAIN inscribed = 1..Sent
      /\ Rows \in Nat /\ DOMAIN opCommit = 1..Rows
      /\ Len(events) \in Nat /\ DOMAIN events = 1..Len(events)
      /\ \A i \in DOMAIN opCommit : opCommit[i].parent \in Nat /\ opCommit[i].ins \in Nat
  BY SequenceTypes
<1>2. /\ UNCHANGED <<inscribed, opCommit, commitData, events>>
      /\ inited' /\ pc' = "idle"
  BY DEF SenderInit
<1>3. \A i \in DOMAIN opCommit : opCommit[i].ins <= Sent
  BY <1>1 DEF ParentInv, Sound, Links
<1>4. lastCommitOp' < Rows /\ (LastKnown => lastCommitOp' = Sent - 1)
  <2>1. CASE Inscribed # {}
    <3> DEFINE l == LastInscribed
    <3>1. l \in Inscribed /\ \A j \in Inscribed : j <= l
      <4>1. Inscribed \in SUBSET (1..Rows)
        BY <1>1 DEF Inscribed
      <4>2. \E i \in Inscribed : \A j \in Inscribed : j <= i
        BY <1>1, <2>1, <4>1, HasLargest
      <4> QED BY <4>2 DEF LastInscribed
    <3>2. lastCommitOp' = opCommit[l].parent
      BY <2>1 DEF SenderInit
    <3> HIDE DEF l
    <3>3. l \in DOMAIN opCommit /\ opCommit[l].ins = l /\ opCommit[l].parent = l - 1
      BY <3>1 DEF Inscribed, InOrder, RowsInOrder
    <3>4. l <= Sent
      BY <1>3, <3>3
    <3>5. LastKnown => l = Sent
      <4>1. CASE Sent = 0
        BY <1>1, <3>3, <3>4, <4>1
      <4>2. CASE Sent # 0
        <5>1. Sent \in DOMAIN opCommit
          BY <1>1, <4>2 DEF InOrder, RowsInOrder
        <5>2. LastKnown => Sent \in Inscribed
          BY <4>2, <5>1 DEF LastKnown, Inscribed
        <5> QED BY <1>1, <3>1, <3>3, <3>4, <5>2
      <4> QED BY <4>1, <4>2
    <3> QED BY <1>1, <3>2, <3>3, <3>5
  <2>2. CASE Inscribed = {}
    <3>1. \A i \in DOMAIN opCommit : opCommit[i].ins = 0
      BY <2>2 DEF Inscribed
    <3>2. Rows # 0
      BY <1>1 DEF SenderInit, InOrder, OpenInOrder, TypeInv, TypeOK, Opened, BootSteps,
         CommitOp, None
    <3>3. Sent <= 1
      <4>1. SUFFICES ASSUME 1 < Sent PROVE FALSE
        BY <1>1
      <4>2. 1 \in DOMAIN opCommit
        BY <1>1, <3>2
      <4>3. opCommit[1].ins = 1
        BY <4>1, <4>2 DEF InOrder, RowsInOrder
      <4> QED BY <3>1, <4>2, <4>3
    <3>4. LastKnown => Sent = 0
      BY <1>1, <3>1, <3>2, <3>3 DEF LastKnown
    <3>5. CASE endOp > 0
      <4>1. endOp \in DOMAIN events
        BY <1>1, <3>5 DEF TypeInv, TypeOK, Ranges
      <4>2. events[endOp] = endOp /\ endOp \in 1..Sent
        BY <1>1, <4>1 DEF InOrder, EventsInOrder, TypeInv, Ranges
      <4>3. endOp = 1 /\ Sent = 1
        BY <1>1, <3>3, <4>2
      <4>4. lastCommitOp' = inscribed[1].parent /\ inscribed[1].parent = 0
        BY <1>1, <2>2, <3>5, <4>2, <4>3 DEF SenderInit, InOrder, LinearChain
      <4> QED BY <1>1, <3>2, <3>4, <4>3, <4>4
    <3>6. CASE ~(endOp > 0)
      <4>1. lastCommitOp' = None
        BY <2>2, <3>6 DEF SenderInit
      <4> QED BY <1>1, <3>4, <4>1 DEF None
    <3> QED BY <3>5, <3>6
  <2> QED BY <2>1, <2>2
<1>5. LinearChain' /\ EventsInOrder' /\ RowsInOrder' /\ MarksInOrder'
  BY <1>2 DEF InOrder, LinearChain, EventsInOrder, RowsInOrder, Sent, Rows, MarksInOrder
<1>6. OpenInOrder'
  BY <1>2 DEF InOrder, OpenInOrder, Rows, SavedSteps, BootSteps
<1>7. SenderInOrder'
  BY <1>2, <1>4 DEF SenderInOrder, LastKnown, Rows, Sent
<1> QED BY <1>5, <1>6, <1>7 DEF InOrder

\* Saving the open commit writes its row or adds it as the last one.
LEMMA SaveInOrder ==
  ASSUME TypeInv, ParentInv, InOrder, TrySave \/ SaveNewCommitOp,
         opCommit' = UpsertData(commitData)
  PROVE  InOrder' /\ (LastKnown' <=> LastKnown)
<1> USE DEF operatorVars, senderVars, builderVars, processVars, bounds
<1>1. /\ Sent \in Nat /\ Rows \in Nat /\ DOMAIN opCommit = 1..Rows
      /\ \A i \in DOMAIN opCommit : opCommit[i].parent \in Nat /\ opCommit[i].ins \in Nat
  BY SequenceTypes
<1>2. /\ UNCHANGED <<inscribed, commitData, lastCommitOp, inited, events>>
      /\ pc' \in {"commit", "idle"} /\ inited /\ pc \in {"save", "saveNew"}
  BY DEF TrySave, SaveNewCommitOp, Throw, TypeInv, Opened, InitedSteps
<1>3. commitData \in CommitOp /\ commitData.parent # None /\ commitData.parent \in Nat
  BY <1>2 DEF TypeInv, TypeOK, Opened, CommitOp
<1> DEFINE c == commitData.parent
<1>4. HasParent(c) <=> c = Rows - 1
  <2>1. c \in {Rows - 1, Rows}
    BY <1>3 DEF InOrder, OpenInOrder
  <2>2. c = Rows - 1 => HasParent(c)
    <3>1. c = Rows - 1 => Rows \in DOMAIN opCommit
      BY <1>1, <1>3
    <3> QED BY <3>1 DEF HasParent, InOrder, RowsInOrder
  <2>3. HasParent(c) => c # Rows
    BY <1>1 DEF HasParent, InOrder, RowsInOrder
  <2> QED BY <2>1, <2>2, <2>3
<1>5. \A i \in DOMAIN opCommit : opCommit[i].parent = i - 1
  BY DEF InOrder, RowsInOrder
<1>6. /\ DOMAIN opCommit' = 1..Rows' /\ Rows' \in Nat /\ Rows <= Rows'
      /\ c = Rows' - 1
      /\ \A i \in DOMAIN opCommit :
           /\ opCommit'[i].parent = opCommit[i].parent
           /\ opCommit'[i].ins = opCommit[i].ins
           /\ opCommit'[i].inEventList = opCommit[i].inEventList
      /\ Rows' # Rows => /\ Rows' = Rows + 1
                         /\ opCommit'[Rows'].parent = c
                         /\ opCommit'[Rows'].ins = 0
                         /\ ~opCommit'[Rows'].inEventList
  <2>1. /\ Rows' = Rows + (IF HasParent(c) THEN 0 ELSE 1)
        /\ DOMAIN opCommit' = 1..Rows'
        /\ \A i \in DOMAIN opCommit :
             IF opCommit[i].parent = c
             THEN /\ opCommit'[i].parent = c
                  /\ opCommit'[i].ins = IF commitData.ins = 0 THEN opCommit[i].ins
                                        ELSE commitData.ins
                  /\ opCommit'[i].inEventList = opCommit[i].inEventList
             ELSE opCommit'[i] = opCommit[i]
        /\ ~HasParent(c) => /\ opCommit'[Rows + 1].parent = c
                            /\ opCommit'[Rows + 1].ins = commitData.ins
                            /\ ~opCommit'[Rows + 1].inEventList
    <3>1. opCommit \in Seq(OpCommitData)
      BY DEF TypeInv, TypeOK
    <3> QED BY <1>3, <3>1, UpsertDataRows DEF Rows
  <2>2. commitData.ins # 0 => c + 1 \in DOMAIN opCommit /\ opCommit[c + 1].ins = commitData.ins
    BY DEF InOrder, OpenInOrder
  <2>3. \A i \in DOMAIN opCommit :
           /\ opCommit'[i].parent = opCommit[i].parent
           /\ opCommit'[i].ins = opCommit[i].ins
           /\ opCommit'[i].inEventList = opCommit[i].inEventList
    <3> SUFFICES ASSUME NEW i \in DOMAIN opCommit
                 PROVE  /\ opCommit'[i].parent = opCommit[i].parent
                        /\ opCommit'[i].ins = opCommit[i].ins
                        /\ opCommit'[i].inEventList = opCommit[i].inEventList
      OBVIOUS
    <3>1. CASE opCommit[i].parent = c
      <4>1. i = c + 1
        BY <1>1, <1>3, <1>5, <3>1
      <4> QED BY <2>1, <2>2, <3>1, <4>1
    <3>2. CASE opCommit[i].parent # c
      BY <2>1, <3>2
    <3> QED BY <3>1, <3>2
  <2>4. c \in {Rows - 1, Rows}
    BY <1>3 DEF InOrder, OpenInOrder
  <2>5. ~HasParent(c) => commitData.ins = 0
    BY <1>1, <1>3, <1>4, <2>2, <2>4
  <2> QED BY <1>1, <1>3, <1>4, <2>1, <2>3, <2>4, <2>5
<1> HIDE DEF c
<1>7. RowsInOrder'
  <2>1. Sent' = Sent /\ Sent <= Rows'
    BY <1>1, <1>2, <1>6 DEF Sent, InOrder, RowsInOrder
  <2>2. ASSUME NEW i \in DOMAIN opCommit'
        PROVE  /\ opCommit'[i].parent = i - 1
               /\ opCommit'[i].ins \in {0, i}
               /\ i < Sent => opCommit'[i].ins = i
               /\ opCommit'[i].inEventList => opCommit'[i].ins = i
    <3>1. CASE i \in DOMAIN opCommit
      BY <1>6, <3>1 DEF InOrder, RowsInOrder
    <3>2. CASE i \notin DOMAIN opCommit
      <4>1. Rows' = Rows + 1 /\ i = Rows'
        BY <1>1, <1>6, <3>2
      <4>2. ~(i < Sent)
        BY <1>1, <4>1 DEF InOrder, RowsInOrder
      <4> QED BY <1>1, <1>6, <4>1, <4>2
    <3> QED BY <3>1, <3>2
  <2>3. ASSUME NEW i \in DOMAIN opCommit', NEW j \in DOMAIN opCommit', i < j,
               opCommit'[j].inEventList
        PROVE  opCommit'[i].inEventList
    <3>1. j \in DOMAIN opCommit
      BY <1>1, <1>6, <2>3
    <3>2. i \in DOMAIN opCommit
      BY <1>1, <1>6, <2>3, <3>1
    <3> QED BY <1>6, <2>3, <3>1, <3>2 DEF InOrder, RowsInOrder
  <2> QED BY <2>1, <2>2, <2>3 DEF RowsInOrder
<1>8. OpenInOrder'
  <2>1. commitData.ins # 0 => /\ c + 1 \in DOMAIN opCommit /\ c + 1 \in DOMAIN opCommit'
                              /\ opCommit'[c + 1].ins = commitData.ins
    <3>1. commitData.ins # 0 => /\ c + 1 \in DOMAIN opCommit
                                /\ opCommit[c + 1].ins = commitData.ins
      BY DEF InOrder, OpenInOrder, c
    <3>2. DOMAIN opCommit \subseteq DOMAIN opCommit'
      BY <1>1, <1>6
    <3> QED BY <1>6, <3>1, <3>2
  <2> QED BY <1>2, <1>6, <2>1 DEF OpenInOrder, c
<1>9. LastKnown' <=> LastKnown
  <2>1. Sent # 0 => Sent \in DOMAIN opCommit
    BY <1>1 DEF InOrder, RowsInOrder
  <2> QED BY <1>2, <1>6, <2>1 DEF LastKnown, Sent
<1>10. SenderInOrder'
  <2>1. lastCommitOp < Rows'
    <3>1. lastCommitOp \in Int /\ lastCommitOp < Rows
      BY DEF InOrder, SenderInOrder, TypeInv, TypeOK, None
    <3> QED BY <1>1, <1>6, <3>1
  <2> QED BY <1>2, <1>9, <2>1 DEF InOrder, SenderInOrder, Sent
<1>11. LinearChain' /\ EventsInOrder' /\ MarksInOrder'
  BY <1>2 DEF InOrder, LinearChain, EventsInOrder, MarksInOrder
<1> QED BY <1>7, <1>8, <1>9, <1>10, <1>11 DEF InOrder

\* Saving the inscription makes op_commit and opSender know the last one.
LEMMA SaveInscriptionInOrder ==
  ASSUME TypeInv, ParentInv, InOrder, SaveInscription
  PROVE  InOrder' /\ LastKnown'
<1> USE DEF operatorVars, senderVars, builderVars, processVars, bounds
<1>1. /\ Sent \in Nat /\ DOMAIN inscribed = 1..Sent
      /\ Rows \in Nat /\ DOMAIN opCommit = 1..Rows
      /\ \A i \in DOMAIN opCommit : opCommit[i].parent \in Nat /\ opCommit[i].ins \in Nat
  BY SequenceTypes
<1>2. /\ UNCHANGED <<inscribed, commitData, inited, events>>
      /\ pc = "saveIns" /\ pc' = "new" /\ lastCommitOp' = commitData.parent /\ inited
  BY DEF SaveInscription, TypeInv, Opened, InitedSteps
<1>3. Sent # 0 /\ commitData.parent = Sent - 1 /\ Rows = Sent
  <2>1. Sent \in DOMAIN inscribed /\ inscribed[Sent].parent = commitData.parent
    BY <1>2 DEF ParentInv, Links, Sent
  <2>2. commitData.parent = Rows - 1
    BY <1>2 DEF InOrder, OpenInOrder, SavedSteps
  <2> QED BY <1>1, <2>1, <2>2 DEF InOrder, LinearChain
<1>4. \A i \in DOMAIN opCommit : opCommit[i].parent = i - 1
  BY DEF InOrder, RowsInOrder
<1>5. HasParent(commitData.parent)
  <2>1. Sent \in DOMAIN opCommit
    BY <1>1, <1>3
  <2>2. opCommit[Sent].parent = commitData.parent
    BY <1>3, <1>4, <2>1
  <2> QED BY <2>1, <2>2 DEF HasParent
<1>6. /\ Rows' = Rows /\ Sent' = Sent /\ DOMAIN opCommit' = DOMAIN opCommit
      /\ opCommit'[Sent].ins = Sent
      /\ \A i \in DOMAIN opCommit :
           /\ opCommit'[i].parent = opCommit[i].parent
           /\ opCommit'[i].ins \in {opCommit[i].ins, i}
           /\ opCommit'[i].inEventList = opCommit[i].inEventList
  <2>1. /\ Rows' = Rows /\ DOMAIN opCommit' = 1..Rows
        /\ \A i \in DOMAIN opCommit :
             IF opCommit[i].parent = commitData.parent
             THEN /\ opCommit'[i].parent = commitData.parent
                  /\ opCommit'[i].ins = Sent
                  /\ opCommit'[i].inEventList = opCommit[i].inEventList
             ELSE opCommit'[i] = opCommit[i]
    <3>1. Len(opCommit) + 0 = Len(opCommit)
      BY <1>1 DEF Rows
    <3> QED BY <1>5, <3>1, SaveInscriptionRows DEF Rows, Sent
  <2>2. Sent' = Sent
    BY <1>2 DEF Sent
  <2>3. \A i \in DOMAIN opCommit : opCommit[i].parent = commitData.parent <=> i = Sent
    BY <1>1, <1>3, <1>4
  <2>4. Sent \in DOMAIN opCommit
    BY <1>1, <1>3
  <2> QED BY <1>1, <2>1, <2>2, <2>3, <2>4
<1>7. RowsInOrder'
  <2>1. ASSUME NEW i \in DOMAIN opCommit
        PROVE  /\ opCommit'[i].parent = i - 1
               /\ opCommit'[i].ins \in {0, i}
               /\ i < Sent => opCommit'[i].ins = i
               /\ opCommit'[i].inEventList => opCommit'[i].ins = i
    BY <1>6 DEF InOrder, RowsInOrder
  <2>2. \A i, j \in DOMAIN opCommit :
          i < j /\ opCommit'[j].inEventList => opCommit'[i].inEventList
    BY <1>6 DEF InOrder, RowsInOrder
  <2>3. Sent <= Rows
    BY DEF InOrder, RowsInOrder
  <2> QED BY <1>6, <2>1, <2>2, <2>3 DEF RowsInOrder
<1>8. LastKnown'
  BY <1>6 DEF LastKnown
<1>9. OpenInOrder'
  <2>1. commitData.ins # 0 => commitData.ins = Sent
    <3>1. commitData.ins # 0 => /\ commitData.parent + 1 \in DOMAIN opCommit
                                /\ opCommit[commitData.parent + 1].ins = commitData.ins
      BY DEF InOrder, OpenInOrder
    <3> QED BY <1>1, <1>3, <3>1 DEF InOrder, RowsInOrder
  <2>2. Sent \in DOMAIN opCommit /\ commitData.parent + 1 = Sent
    BY <1>1, <1>3
  <2> QED BY <1>2, <1>3, <1>6, <2>1, <2>2 DEF OpenInOrder, SavedSteps
<1>10. SenderInOrder'
  BY <1>1, <1>2, <1>3, <1>6 DEF SenderInOrder
<1>11. LinearChain' /\ EventsInOrder' /\ MarksInOrder'
  BY <1>2 DEF InOrder, LinearChain, EventsInOrder, MarksInOrder
<1> QED BY <1>7, <1>8, <1>9, <1>10, <1>11 DEF InOrder

\* The commit that is opened after the last one follows the last row.
LEMMA NewCommitInOrder ==
  ASSUME TypeInv, ParentInv, InOrder, TryNewCommitOp, commitData' = NewCommit(lastInscriptionId),
         pc' = "saveNew"
  PROVE  InOrder'
<1> USE DEF operatorVars, senderVars, builderVars, processVars, bounds
<1>1. /\ Sent \in Nat /\ DOMAIN inscribed = 1..Sent /\ Rows \in Nat
      /\ lastInscriptionId \in Nat
  BY SequenceTypes DEF TypeInv, TypeOK
<1>2. /\ UNCHANGED <<inscribed, opCommit, lastCommitOp, inited, events>>
      /\ lastCommitOp = commitData.parent /\ inited /\ commitData.parent # None
  BY DEF TryNewCommitOp, TypeInv, Opened, InitedSteps
<1>3. lastInscriptionId = Rows
  <2>1. lastInscriptionId \in DOMAIN inscribed
        /\ inscribed[lastInscriptionId].parent = commitData.parent
    BY <1>2 DEF ParentInv, Links
  <2>2. commitData.parent = lastInscriptionId - 1
    BY <1>1, <2>1 DEF InOrder, LinearChain
  <2>3. commitData.parent \in {Rows - 1, Rows} /\ commitData.parent < Rows
    BY <1>2 DEF InOrder, OpenInOrder, SenderInOrder
  <2> QED BY <1>1, <2>2, <2>3
<1>4. commitData'.parent = Rows /\ commitData'.ins = 0 /\ Rows' = Rows
  BY <1>2, <1>3 DEF NewCommit, Rows
<1>5. OpenInOrder'
  BY <1>2, <1>4 DEF OpenInOrder, SavedSteps, BootSteps
<1>6. SenderInOrder'
  BY <1>2, <1>4 DEF InOrder, SenderInOrder, LastKnown, Sent
<1>7. LinearChain' /\ EventsInOrder' /\ RowsInOrder' /\ MarksInOrder'
  BY <1>2 DEF InOrder, LinearChain, EventsInOrder, RowsInOrder, MarksInOrder, Sent, Rows
<1> QED BY <1>5, <1>6, <1>7 DEF InOrder

\* A crash forgets what is not in op_commit, which stays in order.
LEMMA CrashInOrder ==
  ASSUME TypeInv, InOrder, Crash
  PROVE  InOrder'
<1>1. /\ UNCHANGED <<inscribed, opCommit, events>> /\ ~inited' /\ pc' = "idle"
      /\ commitData' = NoCommit /\ lastCommitOp' = None
  BY DEF Crash
<1>2. Rows' = Rows /\ Rows \in Nat /\ commitData'.parent = None /\ commitData'.ins = 0
  BY <1>1, SequenceTypes DEF Rows, NoCommit, NewCommit
<1>3. OpenInOrder'
  BY <1>1, <1>2 DEF OpenInOrder, SavedSteps, BootSteps
<1>4. SenderInOrder'
  BY <1>1, <1>2 DEF SenderInOrder, None
<1>5. LinearChain' /\ EventsInOrder' /\ RowsInOrder' /\ MarksInOrder'
  BY <1>1 DEF InOrder, LinearChain, EventsInOrder, RowsInOrder, MarksInOrder, Sent, Rows
<1> QED BY <1>3, <1>4, <1>5 DEF InOrder

\* The indexer lists a linear chain in its order.
LEMMA EventInOrder ==
  ASSUME TypeInv, InOrder, EventListed
  PROVE  InOrder'
<1> USE DEF operatorVars, senderVars, builderVars, processVars, bounds
<1>1. /\ UNCHANGED <<inscribed, opCommit, commitData, lastCommitOp, inited, pc, handled,
                     allEventsFromStart>>
  BY DEF EventListed
<1>2. PICK n \in DOMAIN inscribed :
        /\ inscribed[n].parent = IF events = <<>> THEN 0 ELSE Last(events)
        /\ events' = Append(events, n)
  BY DEF EventListed
<1>3. events \in Seq(Nat) /\ Len(events) \in Nat /\ n \in Nat
      /\ DOMAIN events = 1..Len(events)
  <2>1. events \in Seq(Nat)
    BY DEF TypeInv, TypeOK
  <2>2. Len(events) \in Nat /\ DOMAIN events = 1..Len(events)
    BY SequenceTypes
  <2>3. n \in 1..Sent /\ Sent \in Nat
    BY <1>2, SequenceTypes
  <2> QED BY <2>1, <2>2, <2>3
<1>4. n = Len(events) + 1
  <2>1. inscribed[n].parent = n - 1
    BY <1>2 DEF InOrder, LinearChain
  <2>2. CASE events = <<>>
    BY <1>2, <1>3, <2>1, <2>2
  <2>3. CASE events # <<>>
    <3>1. Len(events) \in DOMAIN events
      BY <1>3, <2>3
    <3>2. Last(events) = Len(events)
      BY <3>1 DEF Last, InOrder, EventsInOrder
    <3> QED BY <1>2, <1>3, <2>1, <2>3, <3>2
  <2> QED BY <2>2, <2>3
<1>5. EventsInOrder'
  BY <1>2, <1>3, <1>4 DEF InOrder, EventsInOrder
<1>6. OpenInOrder' /\ SenderInOrder' /\ MarksInOrder'
  BY <1>1 DEF InOrder, OpenInOrder, SenderInOrder, MarksInOrder, MarkedUpTo, LastKnown,
     Sent, Rows
<1>7. LinearChain' /\ RowsInOrder'
  BY <1>1 DEF InOrder, LinearChain, RowsInOrder, Sent, Rows
<1> QED BY <1>5, <1>6, <1>7 DEF InOrder

\* Every step keeps the order, except that a broadcast must follow the last
\* inscription that was saved.
LEMMA InOrderStep ==
  ASSUME TypeInv, ParentInv, InOrder, [Next]_vars,
         UNCHANGED inscribed \/ LastKnown
  PROVE  InOrder'
<1> USE DEF operatorVars, senderVars, builderVars, processVars, bounds
<1> DEFINE kept == <<inscribed, opCommit, commitData, lastCommitOp, inited, events>>
\* Steps that leave the order alone.
<1>1. CASE BuilderSkip \/ BuilderFetch \/ BuilderRebuildThrows \/ BuilderMarkThrows
           \/ BuilderDone
  <2>1. UNCHANGED kept /\ MarksInOrder' /\ (pc' = "senderInit" => ~inited)
    BY <1>1 DEF BuilderSkip, BuilderFetch, BuilderRebuildThrows, RebuildThrows,
       BuilderMarkThrows, BuilderDone, Throw, MarksInOrder
  <2>2. /\ ~inited /\ pc' \in {"idle", "rebuild"} => pc \in {"idle", "rebuild"}
        /\ ~inited /\ pc' \in BootSteps => pc \in BootSteps
        /\ pc' \notin SavedSteps
        /\ pc' \notin {"verify", "create", "send"}
    BY <1>1 DEF BuilderSkip, BuilderFetch, BuilderRebuildThrows, BuilderMarkThrows,
       BuilderDone, Throw, BootSteps, SavedSteps
  <2> QED BY <2>1, <2>2, InOrderCalm
<1>2. CASE BuilderSnapshot
  <2>1. UNCHANGED kept /\ pc = "snapshot" /\ pc' = "mark"
    BY <1>2 DEF BuilderSnapshot
  <2>2. MarksInOrder'
    BY <1>2 DEF BuilderSnapshot, InOrder, MarksInOrder, MarkedUpTo
  <2> QED BY <2>1, <2>2, InOrderCalm DEF BootSteps, SavedSteps
<1>3. CASE OperatorCheck \/ TryCommitSkip \/ Verify \/ CreateCommit \/ CreateCommitThrows
           \/ SaveInscriptionThrows \/ TryNewCommitOpSkip
  <2>1. UNCHANGED kept /\ inited /\ pc \notin {"idle", "stopped"}
    BY <1>3 DEF OperatorCheck, TryCommitSkip, Verify, CreateCommit, CreateCommitThrows,
       SaveInscriptionThrows, TryNewCommitOpSkip, Stop, TypeInv, Opened, InitedSteps
  <2>2. /\ pc' \in SavedSteps => pc \in SavedSteps
        /\ pc' \in {"verify", "create", "send"} => pc \in {"verify", "create", "send"}
        /\ pc' \notin {"snapshot", "mark", "senderInit"}
    BY <1>3 DEF OperatorCheck, TryCommitSkip, Verify, CreateCommit, CreateCommitThrows,
       SaveInscriptionThrows, TryNewCommitOpSkip, Stop, Throw, SavedSteps
  <2>3. MarksInOrder'
    BY <2>2 DEF MarksInOrder
  <2> QED BY <2>1, <2>2, <2>3, InOrderCalm
<1>4. ASSUME UNCHANGED <<kept, pc, handled, allEventsFromStart>> PROVE InOrder'
  BY <1>4 DEF InOrder, LinearChain, EventsInOrder, RowsInOrder, OpenInOrder, SenderInOrder,
     MarksInOrder, MarkedUpTo, LastKnown, Sent, Rows
<1>5. CASE AggregateReject \/ TimePasses \/ UNCHANGED vars
  BY <1>4, <1>5 DEF AggregateReject, TimePasses, vars
<1>6. CASE \E op \in Ops : Aggregate(op)
  <2>1. PICK op \in Ops : Aggregate(op)
    BY <1>6
  <2>2. commitData # NoCommit
    BY <2>1 DEF Aggregate, TypeInv, Opened, NoCommit, NewCommit
  <2>3. UNCHANGED <<commitData, opCommit>>
    BY <2>1, <2>2, RebuildKeepsCommit DEF Aggregate, RebuildThrows
  <2> QED BY <1>4, <2>1, <2>3 DEF Aggregate
<1>7. CASE AggregatePush
  <2>1. /\ UNCHANGED <<inscribed, opCommit, lastCommitOp, inited, events, pc, handled,
                       allEventsFromStart>>
        /\ commitData'.parent = commitData.parent /\ commitData'.ins = commitData.ins
    BY <1>7 DEF AggregatePush, TypeInv, TypeOK, CommitOp
  <2> QED BY <2>1 DEF InOrder, LinearChain, EventsInOrder, RowsInOrder, OpenInOrder,
             SenderInOrder, MarksInOrder, MarkedUpTo, LastKnown, Sent, Rows
\* Rebuilds.
<1>8. CASE TryCommit
  <2>1. commitData # NoCommit /\ inited /\ pc = "commit"
    BY <1>8 DEF TryCommit, TypeInv, Opened, InitedSteps, NoCommit, NewCommit
  <2>2. UNCHANGED kept
    BY <1>8, <2>1, RebuildKeepsCommit DEF TryCommit, RebuildThrows
  <2>3. pc' \in {"verify", "idle"} /\ lastCommitOp # commitData.parent
    BY <1>8, <2>1 DEF TryCommit, Throw, WantsCommit
  <2>4. LinearChain' /\ EventsInOrder' /\ RowsInOrder'
    BY <2>2 DEF InOrder, LinearChain, EventsInOrder, RowsInOrder, Sent, Rows
  <2>5. OpenInOrder'
    BY <2>1, <2>2, <2>3 DEF InOrder, OpenInOrder, Rows, SavedSteps, BootSteps
  <2>6. SenderInOrder' /\ MarksInOrder'
    BY <2>2, <2>3 DEF InOrder, SenderInOrder, LastKnown, Rows, Sent, MarksInOrder
  <2> QED BY <2>4, <2>5, <2>6 DEF InOrder
<1>9. CASE BuilderRebuild
  <2>1. CASE ~inited
    BY <1>9, <2>1, BootRebuildInOrder
  <2>2. CASE inited
    <3>1. commitData # NoCommit
      BY <2>2 DEF TypeInv, Opened, NoCommit, NewCommit
    <3>2. /\ UNCHANGED <<kept, allEventsFromStart>> /\ pc' = "snapshot" /\ CanRebuild
      BY <1>9, <3>1, RebuildKeepsCommit DEF BuilderRebuild, Rebuild
    <3>3. MarksInOrder'
      BY <3>2, RebuildMarks DEF MarksInOrder, MarkedUpTo
    <3> QED BY <2>2, <3>2, <3>3, InOrderCalm DEF SavedSteps
  <2> QED BY <2>1, <2>2
\* Steps that change the order.
<1>10. CASE BuilderMark
  BY <1>10, MarkInOrder
<1>11. CASE SenderInit
  BY <1>11, SenderInitInOrder
<1>12. CASE TrySave \/ SaveNewCommitOp
  <2>1. CASE opCommit' = UpsertData(commitData)
    BY <1>12, <2>1, SaveInOrder
  <2>2. CASE UNCHANGED opCommit /\ Throw
    <3>1. UNCHANGED kept /\ inited /\ pc' = "idle"
      BY <1>12, <2>2 DEF TrySave, SaveNewCommitOp, Throw, TypeInv, Opened, InitedSteps
    <3>2. MarksInOrder'
      BY <3>1 DEF MarksInOrder
    <3> QED BY <3>1, <3>2, InOrderCalm DEF SavedSteps, BootSteps
  <2> QED BY <1>12, <2>1, <2>2 DEF TrySave, SaveNewCommitOp
<1>13. CASE Broadcast \/ BroadcastFatal
  <2>1. CASE inscribed' = Append(inscribed, Inscription) /\ LastKnown
    BY <1>13, <2>1, BroadcastInOrder
  <2>2. CASE UNCHANGED inscribed /\ BroadcastFatal
    <3>1. UNCHANGED kept /\ pc' = "stopped"
      BY <2>2 DEF BroadcastFatal, Stop
    <3>2. MarksInOrder'
      BY <3>1 DEF MarksInOrder
    <3> QED BY <3>1, <3>2, InOrderCalm DEF SavedSteps, BootSteps
  <2>3. UNCHANGED inscribed => BroadcastFatal
    <3>1. Broadcast => Inscription \in [parent : Nat, data : Seq(Ops)]
      BY DEF Broadcast, TypeInv, TypeOK, Opened, InitedSteps, Inscription, CommitOp
    <3>2. Broadcast => Len(inscribed') = Len(inscribed) + 1 /\ Len(inscribed) \in Nat
      BY <3>1 DEF Broadcast, TypeInv, TypeOK
    <3> QED BY <1>13, <3>2
  <2> QED BY <1>13, <2>1, <2>2, <2>3 DEF Broadcast, BroadcastFatal
<1>14. CASE SaveInscription
  BY <1>14, SaveInscriptionInOrder
<1>15. CASE TryNewCommitOp
  <2>1. CASE commitData' = NewCommit(lastInscriptionId) /\ pc' = "saveNew"
    BY <1>15, <2>1, NewCommitInOrder
  <2>2. CASE UNCHANGED commitData /\ Throw
    <3>1. UNCHANGED kept /\ inited /\ pc' = "idle"
      BY <1>15, <2>2 DEF TryNewCommitOp, Throw, TypeInv, Opened, InitedSteps
    <3>2. MarksInOrder'
      BY <3>1 DEF MarksInOrder
    <3> QED BY <3>1, <3>2, InOrderCalm DEF SavedSteps, BootSteps
  <2> QED BY <1>15, <2>1, <2>2 DEF TryNewCommitOp
<1>16. CASE EventListed
  BY <1>16, EventInOrder
<1>17. CASE Crash
  BY <1>17, CrashInOrder
<1> QED
  BY <1>1, <1>2, <1>3, <1>5, <1>6, <1>7, <1>8, <1>9, <1>10, <1>11, <1>12, <1>13, <1>14,
     <1>15, <1>16, <1>17
     DEF Next, MainTimer, BuilderTick, OperatorTick, SenderStep, Requests, Environment, Stopped

\* Only a broadcast makes an inscription.
LEMMA OnlyBroadcastSends ==
  ASSUME [Next]_vars, inscribed' # inscribed
  PROVE  (Broadcast \/ BroadcastFatal) /\ inscribed' = Append(inscribed, Inscription)
<1>1. Broadcast \/ BroadcastFatal
  BY DEF Next, MainTimer, BuilderTick, OperatorTick, SenderStep, Requests, Environment,
     Stopped, vars, senderVars, BuilderSkip, BuilderFetch, BuilderRebuild,
     BuilderRebuildThrows, BuilderSnapshot, BuilderMark, BuilderMarkThrows, BuilderDone,
     SenderInit, OperatorCheck, TrySave, TryCommit, TryCommitSkip, Verify, TryNewCommitOp,
     TryNewCommitOpSkip, SaveNewCommitOp, CreateCommit, CreateCommitThrows,
     SaveInscription, SaveInscriptionThrows, Aggregate, AggregatePush, AggregateReject,
     TimePasses, EventListed, Crash
<1> QED BY <1>1 DEF Broadcast, BroadcastFatal

\* A step from an order that misses the last inscription keeps the order, or loses
\* that inscription for good; what is lost for good stays lost.
LEMMA ForkStep == TypeInv /\ ParentInv /\ ForkInv /\ [Next]_vars => ForkInv'
<1> SUFFICES ASSUME TypeInv, ParentInv, ForkInv, [Next]_vars PROVE ForkInv'
  OBVIOUS
<1>1. CASE LostForGood
  BY <1>1, LostStaysLost DEF ForkInv
<1>2. CASE InOrder /\ (UNCHANGED inscribed \/ LastKnown)
  BY <1>2, InOrderStep DEF ForkInv
<1>3. CASE InOrder /\ inscribed' # inscribed /\ ~LastKnown
  BY <1>3, OnlyBroadcastSends, BroadcastLoses DEF ForkInv
<1> QED BY <1>1, <1>2, <1>3 DEF ForkInv

\* Whatever fails and however often the process restarts, the chain forks, or a
\* function is inscribed twice, only if op_commit missed an inscription between
\* its broadcast and its upsert (op-sender.ts:59-316, operator.ts:130-192, 725-793).
THEOREM ForksOnlyAfterLoss == Spec => []ForkedOnlyIfLost
<1> DEFINE Inv == TypeInv /\ ParentInv /\ OnceInv /\ ForkInv
<1>1. Init => Inv
  BY TypeInit, ParentInit, OnceInit, InOrderInit DEF ForkInv
<1>2. Inv /\ [Next]_vars => Inv'
  BY TypeStep, ParentStep, OnceStep, ForkStep
<1>3. Inv => ForkedOnlyIfLost
  <2> SUFFICES ASSUME Inv PROVE ForkedOnlyIfLost
    OBVIOUS
  <2>1. CASE LostForGood
    <3>1. PICK m \in 1..(Sent - 1) : \A i \in DOMAIN opCommit : opCommit[i].ins # m
      BY <2>1 DEF LostForGood
    <3>2. m \in DOMAIN inscribed /\ m # Len(inscribed)
      <4>1. Sent \in Nat /\ DOMAIN inscribed = 1..Sent
        BY SequenceTypes
      <4>2. m \in 1..Sent /\ m # Sent
        BY <3>1, <4>1
      <4> QED BY <4>1, <4>2 DEF Sent
    <3> QED BY <3>1, <3>2 DEF ForkedOnlyIfLost, InscriptionLost
  <2>2. CASE InOrder
    BY <2>2, OnceInChain DEF InOrder, ForkedOnlyIfLost
  <2> QED BY <2>1, <2>2 DEF ForkInv
<1> HIDE DEF Inv
<1> QED BY <1>1, <1>2, <1>3, PTL DEF Spec

(***************************************************************************)
(* Without a failure between a broadcast and its upsert, no inscription is *)
(* ever lost: op_commit knows the last one whenever a commit is broadcast. *)
(***************************************************************************)
KnownInv ==
  /\ InOrder
  /\ LastKnown \/ pc = "saveIns" \/ (pc = "stopped" /\ commiting)
  /\ pc \in {"send", "saveIns"} => commiting

\* At the first start there is nothing to know.
LEMMA KnownInit == Init => KnownInv
  BY InOrderInit DEF Init, KnownInv, LastKnown, Sent

\* The process neither dies nor forgets before it has saved what it broadcast.
LEMMA KnownStep ==
  ASSUME ~LateFailures
  PROVE  TypeInv /\ ParentInv /\ KnownInv /\ [Next]_vars => KnownInv'
<1> SUFFICES ASSUME TypeInv, ParentInv, KnownInv, [Next]_vars PROVE KnownInv'
  OBVIOUS
<1> USE DEF operatorVars, senderVars, builderVars, processVars, bounds
<1>1. InOrder'
  <2>1. inscribed' # inscribed => LastKnown
    <3>1. inscribed' # inscribed => pc = "send"
      BY OnlyBroadcastSends DEF Broadcast, BroadcastFatal
    <3> QED BY <3>1 DEF KnownInv
  <2> QED BY <2>1, InOrderStep DEF KnownInv
\* Steps that leave what is known alone.
<1>2. ASSUME LastKnown' <=> LastKnown, UNCHANGED commiting,
             pc' = pc \/ (pc \notin {"saveIns", "stopped"} /\ pc' \notin {"send", "saveIns"})
      PROVE  KnownInv'
  BY <1>1, <1>2 DEF KnownInv
<1>3. UNCHANGED <<inscribed, opCommit>> => (LastKnown' <=> LastKnown)
  BY DEF LastKnown, Sent
<1>4. CASE BuilderSkip \/ BuilderFetch \/ BuilderRebuildThrows \/ BuilderSnapshot
           \/ BuilderMarkThrows \/ BuilderDone \/ SenderInit
  BY <1>2, <1>3, <1>4 DEF BuilderSkip, BuilderFetch, BuilderRebuildThrows, RebuildThrows,
     BuilderSnapshot, BuilderMarkThrows, BuilderDone, SenderInit, Throw
<1>5. CASE OperatorCheck \/ TryCommitSkip \/ Verify \/ TryNewCommitOp \/ TryNewCommitOpSkip
  BY <1>2, <1>3, <1>5 DEF OperatorCheck, TryCommitSkip, Verify, TryNewCommitOp,
     TryNewCommitOpSkip, Throw, Stop
<1>6. CASE AggregatePush \/ AggregateReject \/ TimePasses \/ EventListed \/ UNCHANGED vars
  BY <1>2, <1>3, <1>6 DEF AggregatePush, AggregateReject, TimePasses, EventListed, vars
<1>7. CASE \E op \in Ops : Aggregate(op)
  <2>1. PICK op \in Ops : Aggregate(op)
    BY <1>7
  <2>2. commitData # NoCommit
    BY <2>1 DEF Aggregate, TypeInv, Opened, NoCommit, NewCommit
  <2>3. UNCHANGED opCommit
    BY <2>1, <2>2, RebuildKeepsCommit DEF Aggregate, RebuildThrows
  <2> QED BY <1>2, <1>3, <2>1, <2>3 DEF Aggregate
<1>8. CASE TryCommit
  <2>1. commitData # NoCommit
    BY <1>8 DEF TryCommit, TypeInv, Opened, InitedSteps, NoCommit, NewCommit
  <2>2. UNCHANGED opCommit
    BY <1>8, <2>1, RebuildKeepsCommit DEF TryCommit, RebuildThrows
  <2> QED BY <1>2, <1>3, <1>8, <2>2 DEF TryCommit, Throw
<1>9. CASE BuilderRebuild
  <2>1. LastKnown' <=> LastKnown
    <3>1. CASE ~inited
      BY <1>9, <3>1, BootRebuildInOrder DEF KnownInv
    <3>2. CASE inited
      <4>1. commitData # NoCommit
        BY <3>2 DEF TypeInv, Opened, NoCommit, NewCommit
      <4> QED BY <1>3, <1>9, <4>1, RebuildKeepsCommit DEF BuilderRebuild
    <3> QED BY <3>1, <3>2
  <2> QED BY <1>2, <1>9, <2>1 DEF BuilderRebuild
<1>10. CASE BuilderMark
  <2>1. LastKnown' <=> LastKnown
    BY <1>10, MarkInOrder DEF KnownInv
  <2> QED BY <1>2, <1>10, <2>1 DEF BuilderMark
<1>11. CASE TrySave \/ SaveNewCommitOp
  <2>1. CASE opCommit' = UpsertData(commitData)
    <3>1. LastKnown' <=> LastKnown
      BY <1>11, <2>1, SaveInOrder DEF KnownInv
    <3> QED BY <1>2, <1>11, <3>1 DEF TrySave, SaveNewCommitOp, Throw
  <2>2. CASE UNCHANGED opCommit
    BY <1>2, <1>3, <1>11, <2>2 DEF TrySave, SaveNewCommitOp, Throw
  <2> QED BY <1>11, <2>1, <2>2 DEF TrySave, SaveNewCommitOp
\* The sender.
<1>12. CASE CreateCommit \/ CreateCommitThrows
  <2>1. LastKnown /\ LastKnown' /\ pc' # "saveIns"
    BY <1>3, <1>12 DEF CreateCommit, CreateCommitThrows, KnownInv, Throw
  <2> QED BY <1>1, <1>12, <2>1 DEF CreateCommit, CreateCommitThrows, KnownInv, Throw
<1>13. CASE Broadcast \/ BroadcastFatal
  BY <1>1, <1>13 DEF Broadcast, BroadcastFatal, Stop, KnownInv
<1>14. CASE SaveInscription
  BY <1>1, <1>14, SaveInscriptionInOrder DEF SaveInscription, KnownInv
<1>15. CASE SaveInscriptionThrows
  BY <1>15 DEF SaveInscriptionThrows
<1>16. CASE Crash
  BY <1>1, <1>3, <1>16 DEF Crash, BroadcastUnsaved, KnownInv
<1> QED
  BY <1>4, <1>5, <1>6, <1>7, <1>8, <1>9, <1>10, <1>11, <1>12, <1>13, <1>14, <1>15, <1>16
     DEF Next, MainTimer, BuilderTick, OperatorTick, SenderStep, Requests, Environment, Stopped

\* As long as no failure comes between a broadcast and its upsert, every commit
\* names the one inscribed just before it (bp02-module-swap/indexing.md:32-34),
\* whatever else fails and however often the process restarts.
THEOREM ChainIsLinear ==
  ASSUME ~LateFailures
  PROVE  Spec => []LinearChain
<1> DEFINE Inv == TypeInv /\ ParentInv /\ KnownInv
<1>1. Init => Inv
  BY TypeInit, ParentInit, KnownInit
<1>2. Inv /\ [Next]_vars => Inv'
  BY TypeStep, ParentStep, KnownStep
<1>3. Inv => LinearChain
  BY DEF KnownInv, InOrder
<1> HIDE DEF Inv
<1> QED BY <1>1, <1>2, <1>3, PTL DEF Spec

\* Under the same assumption no function is inscribed twice, restarts included.
THEOREM FunctionsAreInscribedOnce ==
  ASSUME ~LateFailures
  PROVE  Spec => []InscribedOnce
<1> DEFINE Inv == TypeInv /\ ParentInv /\ OnceInv /\ KnownInv
<1>1. Init => Inv
  BY TypeInit, ParentInit, OnceInit, KnownInit
<1>2. Inv /\ [Next]_vars => Inv'
  BY TypeStep, ParentStep, OnceStep, KnownStep
<1>3. Inv => InscribedOnce
  BY OnceInChain DEF KnownInv, InOrder
<1> HIDE DEF Inv
<1> QED BY <1>1, <1>2, <1>3, PTL DEF Spec

(***************************************************************************)
(* Closing.  As long as the process has not crashed, the open commit is    *)
(* the newest: nothing has a later parent, and what has its parent is a    *)
(* copy of it.  A commit that is being inscribed, or is inscribed and      *)
(* still held by the operator, meets the commit condition, so that no      *)
(* request gets past checkSystemStatus, and none is under way.             *)
(***************************************************************************)
CommitSteps == {"verify", "create", "send", "saveIns"}

Closed == reachCommitCondition /\ mutex = NoOp

Kept == accepted \subseteq Range(commitData.data) \cup
                           UNION {Range(inscribed[i].data) : i \in DOMAIN inscribed}

\* A row holds what the open commit holds, or did when it was saved last; the rows
\* of the commits before it hold what is inscribed, or less.
RowIsCopy(r) ==
  /\ r.parent <= commitData.parent
  /\ r.parent = commitData.parent => IsPrefix(r.data, commitData.data)
  /\ r.parent # commitData.parent /\ r.ins # 0 => IsPrefix(r.data, inscribed[r.ins].data)

CleanInv ==
  /\ commitData.ins = 0
  /\ commitData.parent = None => opCommit = <<>> /\ inscribed = <<>> /\ accepted = {}
  /\ \A i \in DOMAIN opCommit : RowIsCopy(opCommit[i])
  /\ \A i \in DOMAIN inscribed :
       /\ inscribed[i].parent <= commitData.parent
       /\ inscribed[i].parent = commitData.parent =>
            inscribed[i].data = commitData.data /\ Closed
  /\ pc \in CommitSteps => Closed
  /\ Kept

\* A prefix, element by element.
LEMMA PrefixElements ==
  ASSUME NEW S, NEW s \in Seq(S), NEW t \in Seq(S)
  PROVE  IsPrefix(s, t) <=> Len(s) <= Len(t) /\ \A i \in 1..Len(s) : s[i] = t[i]
<1>1. Len(s) \in Nat /\ Len(t) \in Nat
  BY LenProperties
<1>2. ASSUME Len(s) <= Len(t)
      PROVE  SubSeq(s, 1, Len(s)) = SubSeq(t, 1, Len(s)) <=> \A i \in 1..Len(s) : s[i] = t[i]
  <2>1. /\ SubSeq(s, 1, Len(s)) \in Seq(S) /\ SubSeq(t, 1, Len(s)) \in Seq(S)
        /\ Len(SubSeq(s, 1, Len(s))) = Len(s) /\ Len(SubSeq(t, 1, Len(s))) = Len(s)
        /\ \A i \in 1..Len(s) : SubSeq(s, 1, Len(s))[i] = s[i] /\ SubSeq(t, 1, Len(s))[i] = t[i]
    BY <1>1, <1>2
  <2> QED BY <1>1, <2>1, SeqEqual
<1> QED BY <1>2 DEF IsPrefix

\* Every sequence is a prefix of itself, and the empty one of all.
LEMMA PrefixOfSelf ==
  ASSUME NEW S, NEW t \in Seq(S)
  PROVE  IsPrefix(t, t) /\ IsPrefix(<<>>, t)
<1>1. Len(t) \in Nat /\ <<>> \in Seq(S) /\ Len(<<>>) = 0
  BY LenProperties
<1>2. IsPrefix(t, t)
  BY <1>1 DEF IsPrefix
<1>3. ASSUME NEW z \in Seq(S), Len(z) = 0 PROVE IsPrefix(z, t)
  <2>1. Len(z) <= Len(t) /\ \A i \in 1..Len(z) : z[i] = t[i]
    BY <1>1, <1>3
  <2> QED BY <2>1, PrefixElements
<1> QED BY <1>1, <1>2, <1>3

\* A prefix stays one when the sequence grows.
LEMMA PrefixStays ==
  ASSUME NEW S, NEW s \in Seq(S), NEW t \in Seq(S), NEW e \in S, IsPrefix(s, t)
  PROVE  IsPrefix(s, Append(t, e))
<1>1. /\ Len(s) \in Nat /\ Len(t) \in Nat
      /\ Append(t, e) \in Seq(S) /\ Len(Append(t, e)) = Len(t) + 1
      /\ \A i \in 1..Len(t) : Append(t, e)[i] = t[i]
  BY LenProperties
<1>2. Len(s) <= Len(t) /\ \A i \in 1..Len(s) : s[i] = t[i]
  BY PrefixElements
<1>3. Len(s) <= Len(Append(t, e)) /\ \A i \in 1..Len(s) : s[i] = Append(t, e)[i]
  BY <1>1, <1>2
<1> QED BY <1>1, <1>3, PrefixElements

\* At the first start there is nothing to keep.
LEMMA CleanInit == Init => CleanInv
  BY DEF Init, CleanInv, Kept, CommitSteps, NoCommit, NewCommit, None

\* Steps that leave the operator and the chain alone, and the rows the same.
LEMMA CleanCalm ==
  ASSUME TypeInv, CleanInv, UNCHANGED <<commitData, inscribed, mutex, timeUp, accepted>>,
         pc' \in CommitSteps => pc \in CommitSteps,
         commitData.parent = None => UNCHANGED opCommit,
         \A i \in DOMAIN opCommit' : RowIsCopy(opCommit'[i])
  PROVE  CleanInv'
<1>1. (\A i \in DOMAIN opCommit : RowIsCopy(opCommit[i]))'
  BY DEF RowIsCopy
<1>2. (Closed <=> Closed') /\ (Kept <=> Kept')
  BY DEF Closed, Kept, reachCommitCondition
<1> QED BY <1>1, <1>2 DEF CleanInv

\* The writes of op_commit while a commit is open: every row stays a copy.
LEMMA CleanRows ==
  ASSUME TypeInv, ParentInv, CleanInv
  PROVE  /\ UNCHANGED opCommit => \A i \in DOMAIN opCommit' : RowIsCopy(opCommit'[i])
         /\ BuilderMark => \A i \in DOMAIN opCommit' : RowIsCopy(opCommit'[i])
         /\ SaveInscription => \A i \in DOMAIN opCommit' : RowIsCopy(opCommit'[i])
         /\ commitData.parent # None /\ opCommit' = UpsertData(commitData) =>
              \A i \in DOMAIN opCommit' : RowIsCopy(opCommit'[i])
<1>1. /\ opCommit \in Seq(OpCommitData) /\ Len(opCommit) \in Nat
      /\ DOMAIN opCommit = 1..Len(opCommit)
      /\ commitData \in CommitOp /\ commitData.data \in Seq(Ops)
      /\ commitData.ins = 0 /\ <<>> \in Seq(Ops)
      /\ commitData.parent \in Int
  BY LenProperties DEF TypeInv, TypeOK, CommitOp, CleanInv, None
<1>2. /\ IsPrefix(commitData.data, commitData.data)
      /\ IsPrefix(<<>>, commitData.data)
  BY <1>1, PrefixOfSelf
<1>3. \A i \in DOMAIN opCommit : RowIsCopy(opCommit[i])
  BY DEF CleanInv
<1>4. ASSUME BuilderMark, NEW i \in DOMAIN opCommit' PROVE RowIsCopy(opCommit'[i])
  <2>1. opCommit' = MarkInEventList(events[handled + 1])
    BY <1>4 DEF BuilderMark
  <2>2. /\ i \in DOMAIN opCommit
        /\ opCommit'[i].parent = opCommit[i].parent
        /\ opCommit'[i].data = opCommit[i].data
        /\ opCommit'[i].ins = opCommit[i].ins
    BY <1>1, <1>4, <2>1, MarkRows
  <2> QED BY <1>3, <2>2 DEF RowIsCopy
<1>5. ASSUME SaveInscription, NEW i \in DOMAIN opCommit' PROVE RowIsCopy(opCommit'[i])
  <2>1. CASE i \in DOMAIN opCommit /\ opCommit[i].parent = commitData.parent
    <3>1. opCommit'[i].parent = commitData.parent /\ opCommit'[i].data = opCommit[i].data
      BY <1>5, <2>1, SaveInscriptionRows
    <3>2. RowIsCopy(opCommit[i])
      BY <1>3, <2>1
    <3> QED BY <1>1, <2>1, <3>1, <3>2 DEF RowIsCopy
  <2>2. CASE i \in DOMAIN opCommit /\ opCommit[i].parent # commitData.parent
    <3>1. opCommit'[i] = opCommit[i]
      BY <1>5, <2>2, SaveInscriptionRows
    <3> QED BY <1>3, <2>2, <3>1
  <2>3. CASE i \notin DOMAIN opCommit
    <3>1. i = Len(opCommit) + 1 /\ ~HasParent(commitData.parent)
      <4>1. /\ DOMAIN opCommit' = 1..Len(opCommit')
            /\ Len(opCommit') = Len(opCommit) + (IF HasParent(commitData.parent) THEN 0 ELSE 1)
        BY <1>5, SaveInscriptionRows
      <4> QED BY <1>1, <1>5, <2>3, <4>1
    <3>2. opCommit'[i].parent = commitData.parent /\ opCommit'[i].data = <<>>
      BY <1>5, <3>1, SaveInscriptionRows
    <3> QED BY <1>1, <1>2, <3>2 DEF RowIsCopy
  <2> QED BY <2>1, <2>2, <2>3
<1>6. ASSUME commitData.parent # None, opCommit' = UpsertData(commitData),
             NEW i \in DOMAIN opCommit'
      PROVE  RowIsCopy(opCommit'[i])
  <2>1. CASE i \in DOMAIN opCommit /\ opCommit[i].parent = commitData.parent
    <3>1. opCommit'[i].parent = commitData.parent /\ opCommit'[i].data = commitData.data
      BY <1>1, <1>6, <2>1, UpsertDataRows
    <3> QED BY <1>1, <1>2, <3>1 DEF RowIsCopy
  <2>2. CASE i \in DOMAIN opCommit /\ opCommit[i].parent # commitData.parent
    <3>1. opCommit'[i] = opCommit[i]
      BY <1>1, <1>6, <2>2, UpsertDataRows
    <3> QED BY <1>3, <2>2, <3>1
  <2>3. CASE i \notin DOMAIN opCommit
    <3>1. i = Len(opCommit) + 1 /\ ~HasParent(commitData.parent)
      BY <1>1, <1>6, <2>3, UpsertDataRows
    <3>2. opCommit'[i].parent = commitData.parent /\ opCommit'[i].data = commitData.data
      BY <1>1, <1>6, <3>1, UpsertDataRows
    <3> QED BY <1>1, <1>2, <3>2 DEF RowIsCopy
  <2> QED BY <2>1, <2>2, <2>3
<1> QED BY <1>3, <1>4, <1>5, <1>6

\* A broadcast inscribes the open commit, which is closed.
LEMMA BroadcastClean ==
  ASSUME TypeInv, ParentInv, CleanInv, Broadcast \/ BroadcastFatal
  PROVE  CleanInv'
<1> USE DEF operatorVars, senderVars, builderVars, processVars, bounds
<1>1. UNCHANGED <<commitData, mutex, timeUp, accepted, opCommit>> /\ pc \in CommitSteps
  BY DEF Broadcast, BroadcastFatal, CommitSteps
<1>2. CASE UNCHANGED inscribed
  BY <1>1, <1>2, CleanCalm, CleanRows
<1>3. CASE inscribed' = Append(inscribed, Inscription)
  <2>1. Closed /\ Closed'
    BY <1>1 DEF CleanInv, Closed, reachCommitCondition
  <2>2. /\ Inscription \in [parent : Nat, data : Seq(Ops)]
        /\ Inscription.data = commitData.data /\ Inscription.parent = commitData.parent
        /\ commitData.parent \in Nat /\ commitData.parent # None
    BY DEF Broadcast, BroadcastFatal, Inscription, TypeInv, TypeOK, Opened,
       InitedSteps, CommitOp, None
  <2>3. /\ DOMAIN inscribed' = DOMAIN inscribed \cup {Len(inscribed) + 1}
        /\ \A i \in DOMAIN inscribed : inscribed'[i] = inscribed[i]
        /\ inscribed'[Len(inscribed) + 1] = Inscription
    BY <1>3, <2>2 DEF TypeInv, TypeOK
  <2>4. Kept'
    BY <1>1, <2>3 DEF CleanInv, Kept
  <2>5. (\A i \in DOMAIN opCommit : RowIsCopy(opCommit[i]))'
    <3>1. ASSUME NEW i \in DOMAIN opCommit PROVE RowIsCopy(opCommit[i])'
      <4>1. RowIsCopy(opCommit[i]) /\ Sound(opCommit[i])
        BY DEF CleanInv, ParentInv
      <4>2. opCommit[i].ins # 0 => inscribed'[opCommit[i].ins] = inscribed[opCommit[i].ins]
        BY <2>3, <4>1 DEF Sound, Links
      <4> QED BY <1>1, <4>1, <4>2 DEF RowIsCopy
    <3> QED BY <1>1, <3>1
  <2>6. (\A i \in DOMAIN inscribed :
           /\ inscribed[i].parent <= commitData.parent
           /\ inscribed[i].parent = commitData.parent =>
                inscribed[i].data = commitData.data /\ Closed)'
    BY <1>1, <2>1, <2>2, <2>3 DEF CleanInv
  <2> QED BY <1>1, <2>1, <2>2, <2>4, <2>5, <2>6 DEF CleanInv
<1> QED BY <1>2, <1>3 DEF Broadcast, BroadcastFatal

\* The commit that is opened next has a parent of its own: the inscription that
\* closed the one before it, which holds all that was accepted into that.
LEMMA NewCommitClean ==
  ASSUME TypeInv, ParentInv, CleanInv, TryNewCommitOp, commitData' = NewCommit(lastInscriptionId),
         pc' = "saveNew"
  PROVE  CleanInv'
<1> USE DEF operatorVars, senderVars, builderVars, processVars, bounds
<1> DEFINE c == commitData.parent
           n == lastInscriptionId
<1>1. c \in Nat /\ c # None /\ n \in Nat
  BY DEF TryNewCommitOp, TypeInv, TypeOK, Opened, InitedSteps, CommitOp
<1>2. UNCHANGED <<inscribed, accepted, opCommit>>
  BY DEF TryNewCommitOp
<1>3. Links(n, c)
  BY <1>1 DEF TryNewCommitOp, ParentInv
<1>4. c < n
  <2>1. n \in DOMAIN inscribed /\ inscribed[n].parent \in 0..(n - 1)
    BY <1>3 DEF ParentInv, ParentSentBefore, Links
  <2>2. inscribed[n].parent = c
    BY <1>3 DEF Links
  <2> QED BY <1>1, <2>1, <2>2
<1>5. inscribed[n].data = commitData.data
  BY <1>3 DEF CleanInv, Links
<1>6. /\ commitData'.parent = n /\ commitData'.data = <<>> /\ commitData'.ins = 0
      /\ n # None
  BY <1>1 DEF NewCommit, None
<1>7. Kept'
  BY <1>2, <1>3, <1>5 DEF CleanInv, Kept, Links
<1>8. \A i \in DOMAIN inscribed : inscribed[i].parent < n
  <2>1. ASSUME NEW i \in DOMAIN inscribed PROVE inscribed[i].parent < n
    <3>1. inscribed[i].parent <= c /\ inscribed[i].parent \in Nat
      <4>1. inscribed[i] \in [parent : Nat, data : Seq(Ops)]
        BY ElementOfSeq, LenProperties DEF TypeInv, TypeOK
      <4> QED BY <4>1 DEF CleanInv
    <3> HIDE DEF c, n
    <3> QED BY <1>1, <1>4, <3>1
  <2> QED BY <2>1
<1>9. ASSUME NEW i \in DOMAIN opCommit PROVE RowIsCopy(opCommit[i])'
  <2>1. RowIsCopy(opCommit[i]) /\ Sound(opCommit[i])
    BY DEF CleanInv, ParentInv
  <2>2. opCommit[i].parent \in Nat
    <3>1. opCommit[i] \in OpCommitData
      BY ElementOfSeq, LenProperties DEF TypeInv, TypeOK
    <3> QED BY <3>1 DEF OpCommitData
  <2>3. opCommit[i].parent < n
    <3>1. opCommit[i].parent <= c
      BY <2>1 DEF RowIsCopy
    <3> HIDE DEF c, n
    <3> QED BY <1>1, <1>4, <2>2, <3>1
  <2>4. opCommit[i].ins # 0 => IsPrefix(opCommit[i].data, inscribed[opCommit[i].ins].data)
    <3>1. CASE opCommit[i].parent # c
      BY <2>1, <3>1 DEF RowIsCopy
    <3>2. CASE opCommit[i].parent = c /\ opCommit[i].ins # 0
      <4>1. inscribed[opCommit[i].ins].data = commitData.data
        BY <2>1, <3>2 DEF CleanInv, Sound, Links
      <4> QED BY <2>1, <3>2, <4>1 DEF RowIsCopy
    <3> QED BY <3>1, <3>2
  <2>5. opCommit[i].parent <= n /\ opCommit[i].parent # n
    <3> HIDE DEF c, n
    <3> QED BY <1>1, <2>2, <2>3
  <2> QED BY <1>2, <1>6, <2>4, <2>5 DEF RowIsCopy
<1>10. ASSUME NEW i \in DOMAIN inscribed
       PROVE  inscribed[i].parent <= n /\ inscribed[i].parent # n
  <2>1. inscribed[i].parent \in Nat
    <3>1. inscribed[i] \in [parent : Nat, data : Seq(Ops)]
      BY ElementOfSeq, LenProperties DEF TypeInv, TypeOK
    <3> QED BY <3>1
  <2> HIDE DEF c, n
  <2> QED BY <1>1, <1>8, <2>1
<1> HIDE DEF c, n
<1> QED BY <1>2, <1>6, <1>7, <1>9, <1>10 DEF CleanInv, CommitSteps

\* A function is pushed only into a commit that is not closed.
LEMMA PushClean ==
  ASSUME TypeInv, ParentInv, CleanInv, AggregatePush
  PROVE  CleanInv'
<1> USE DEF operatorVars, senderVars, builderVars, processVars, bounds
<1>1. /\ pc \notin CommitSteps /\ pc' = pc
      /\ \A i \in DOMAIN inscribed : inscribed[i].parent # commitData.parent
      /\ UNCHANGED <<inscribed, opCommit>>
  BY DEF AggregatePush, CleanInv, Closed
<1>2. commitData.data \in Seq(Ops) /\ mutex \in Ops
  BY DEF AggregatePush, TypeInv, TypeOK, CommitOp
<1>3. /\ commitData'.parent = commitData.parent /\ commitData'.ins = 0
      /\ commitData'.data = Append(commitData.data, mutex)
      /\ commitData.parent # None
  BY DEF AggregatePush, TypeInv, TypeOK, CommitOp, CleanInv, Opened
<1>4. Range(commitData'.data) = Range(commitData.data) \cup {mutex}
  BY <1>2, <1>3 DEF Range
<1>5. Kept'
  BY <1>1, <1>4 DEF AggregatePush, CleanInv, Kept
<1>6. ASSUME NEW i \in DOMAIN opCommit PROVE RowIsCopy(opCommit[i])'
  <2>1. RowIsCopy(opCommit[i])
    BY DEF CleanInv
  <2>2. opCommit[i].data \in Seq(Ops)
    <3>1. opCommit[i] \in OpCommitData
      BY ElementOfSeq, LenProperties DEF TypeInv, TypeOK
    <3> QED BY <3>1 DEF OpCommitData
  <2>3. IsPrefix(opCommit[i].data, commitData.data) => IsPrefix(opCommit[i].data, commitData'.data)
    BY <1>2, <1>3, <2>2, PrefixStays
  <2> QED BY <1>1, <1>3, <2>1, <2>3 DEF RowIsCopy
<1> QED BY <1>1, <1>3, <1>5, <1>6 DEF CleanInv

\* Without a crash every step keeps what is inscribed closed, what is accepted
\* kept, and the rows copies.
LEMMA CleanStep ==
  ASSUME TypeInv, ParentInv, CleanInv, [Next]_vars, ~Crash
  PROVE  CleanInv'
<1> USE DEF operatorVars, senderVars, builderVars, processVars, bounds
<1>1. ASSUME UNCHANGED <<commitData, inscribed, mutex, timeUp, accepted, opCommit>>,
             pc' \in CommitSteps => pc \in CommitSteps
      PROVE  CleanInv'
  BY <1>1, CleanCalm, CleanRows
\* While the process boots, nothing is accepted, inscribed or under way.
<1>2. CASE BuilderRebuild
  <2>1. CASE commitData # NoCommit
    BY <1>1, <1>2, <2>1, RebuildKeepsCommit DEF BuilderRebuild, CommitSteps
  <2>2. CASE commitData = NoCommit
    <3>1. opCommit = <<>> /\ inscribed = <<>> /\ accepted = {}
      BY <2>2 DEF CleanInv, NoCommit, NewCommit
    <3>2. NotInEventList = {} /\ Inscribed = {}
      BY <3>1 DEF NotInEventList, Inscribed
    <3>3. commitData' = NewCommit(0) /\ opCommit' = UpsertData(NewCommit(0))
      BY <1>2, <2>2, <3>2 DEF BuilderRebuild, Rebuild, RebuiltCommit, Orphaned
    <3>4. NewCommit(0) \in CommitOp /\ NewCommit(0).parent = 0 /\ NewCommit(0).data = <<>>
          /\ NewCommit(0).ins = 0
      BY DEF NewCommit, CommitOp
    <3>5. (\A i \in DOMAIN opCommit : RowIsCopy(opCommit[i]))'
      <4> DEFINE r == [parent |-> 0, data |-> <<>>, ins |-> 0, inEventList |-> FALSE]
      <4>1. ~HasParent(0)
        BY <3>1 DEF HasParent
      <4>2. opCommit' = Append(<<>>, r)
        BY <3>1, <3>3, <3>4, <4>1 DEF UpsertData
      <4>3. r.parent = 0 /\ r.data = <<>>
        OBVIOUS
      <4> HIDE DEF r
      <4>4. \A i \in DOMAIN opCommit' : opCommit'[i] = r
        BY <4>2
      <4>5. <<>> \in Seq(Ops)
        OBVIOUS
      <4>6. IsPrefix(<<>>, <<>>)
        BY <4>5, PrefixOfSelf
      <4> QED BY <3>3, <3>4, <4>3, <4>4, <4>6 DEF RowIsCopy
    <3>6. UNCHANGED <<inscribed, accepted>> /\ pc' = "snapshot"
      BY <1>2 DEF BuilderRebuild
    <3> QED BY <3>1, <3>3, <3>4, <3>5, <3>6 DEF CleanInv, Kept, CommitSteps, None
  <2> QED BY <2>1, <2>2
<1>3. CASE BuilderSkip \/ BuilderFetch \/ BuilderRebuildThrows \/ BuilderSnapshot
           \/ BuilderMarkThrows \/ BuilderDone \/ SenderInit
  BY <1>1, <1>3 DEF BuilderSkip, BuilderFetch, BuilderRebuildThrows, RebuildThrows,
       BuilderSnapshot, BuilderMarkThrows, BuilderDone, SenderInit, Throw, CommitSteps
<1>4. CASE OperatorCheck \/ TryCommitSkip \/ Verify \/ TryNewCommitOpSkip
  BY <1>1, <1>4 DEF OperatorCheck, TryCommitSkip, Verify, TryNewCommitOpSkip,
       Throw, Stop, CommitSteps
<1>5. CASE CreateCommit \/ CreateCommitThrows \/ SaveInscriptionThrows \/ EventListed
           \/ UNCHANGED vars
  BY <1>1, <1>5 DEF CreateCommit, CreateCommitThrows, SaveInscriptionThrows, EventListed,
       Throw, vars, CommitSteps
\* The writes of op_commit.
<1>6. CASE BuilderMark
  <2>1. commitData.parent # None /\ UNCHANGED <<pc, commitData, inscribed, mutex, timeUp, accepted>>
    BY <1>6 DEF BuilderMark, TypeInv, Opened, BootSteps
  <2> QED BY <1>6, <2>1, CleanCalm, CleanRows
<1>7. CASE SaveInscription
  <2>1. /\ commitData.parent # None /\ pc' = "new"
        /\ UNCHANGED <<commitData, inscribed, mutex, timeUp, accepted>>
    BY <1>7 DEF SaveInscription, TypeInv, Opened, InitedSteps
  <2> QED BY <1>7, <2>1, CleanCalm, CleanRows DEF CommitSteps
<1>8. CASE TrySave \/ SaveNewCommitOp
  <2>1. /\ commitData.parent # None
        /\ UNCHANGED <<commitData, inscribed, mutex, timeUp, accepted>>
        /\ pc' \notin CommitSteps
        /\ opCommit' = UpsertData(commitData) \/ UNCHANGED opCommit
    BY <1>8 DEF TrySave, SaveNewCommitOp, TypeInv, Opened, InitedSteps, Throw, CommitSteps
  <2> QED BY <2>1, CleanCalm, CleanRows
\* The open commit.
<1>9. CASE TryCommit
  <2>1. commitData # NoCommit
    BY <1>9 DEF TryCommit, TypeInv, Opened, InitedSteps, NoCommit, NewCommit
  <2>2. UNCHANGED <<commitData, inscribed, mutex, timeUp, accepted, opCommit>>
    BY <1>9, <2>1, RebuildKeepsCommit DEF TryCommit, RebuildThrows
  <2>3. Closed
    BY <1>9 DEF TryCommit, WantsCommit, Rebuild, RebuildThrows, Closed
  <2>4. Closed'
    BY <2>2, <2>3 DEF Closed, reachCommitCondition
  <2>5. (\A i \in DOMAIN opCommit : RowIsCopy(opCommit[i]))' /\ Kept'
    BY <2>2 DEF CleanInv, RowIsCopy, Kept
  <2> QED BY <2>2, <2>4, <2>5 DEF CleanInv
<1>10. CASE Broadcast \/ BroadcastFatal
  BY <1>10, BroadcastClean
<1>11. CASE TryNewCommitOp
  <2>1. CASE Throw /\ UNCHANGED commitData
    BY <1>1, <1>11, <2>1 DEF TryNewCommitOp, Throw, CommitSteps
  <2>2. CASE commitData' = NewCommit(lastInscriptionId) /\ pc' = "saveNew"
    BY <1>11, <2>2, NewCommitClean
  <2> QED BY <1>11, <2>1, <2>2 DEF TryNewCommitOp
\* Requests.
<1>12. CASE \E op \in Ops : Aggregate(op)
  <2>1. PICK op \in Ops : Aggregate(op)
    BY <1>12
  <2>2. commitData # NoCommit
    BY <2>1 DEF Aggregate, TypeInv, Opened, NoCommit, NewCommit
  <2>3. UNCHANGED <<pc, commitData, inscribed, timeUp, accepted, opCommit>>
    BY <2>1, <2>2, RebuildKeepsCommit DEF Aggregate, RebuildThrows
  <2>4. ~Closed
    BY <2>1 DEF Aggregate, checkSystemStatus, Closed
  <2>5. (\A i \in DOMAIN opCommit : RowIsCopy(opCommit[i]))' /\ Kept'
    BY <2>3 DEF CleanInv, RowIsCopy, Kept
  <2> QED BY <2>3, <2>4, <2>5 DEF CleanInv
<1>13. CASE AggregatePush
  BY <1>13, PushClean
<1>14. CASE AggregateReject \/ TimePasses
  <2>1. UNCHANGED <<pc, commitData, inscribed, accepted, opCommit>> /\ (Closed => Closed')
    BY <1>14 DEF AggregateReject, TimePasses, Closed, reachCommitCondition
  <2>2. (\A i \in DOMAIN opCommit : RowIsCopy(opCommit[i]))' /\ Kept'
    BY <2>1 DEF CleanInv, RowIsCopy, Kept
  <2> QED BY <2>1, <2>2 DEF CleanInv
<1> QED
  BY <1>2, <1>3, <1>4, <1>5, <1>6, <1>7, <1>8, <1>9, <1>10, <1>11, <1>12, <1>13, <1>14
     DEF Next, MainTimer, BuilderTick, OperatorTick, SenderStep, Requests, Environment, Stopped

\* A process that has not crashed had not before the step, and no step undoes a
\* crash.
LEMMA NoCrashBefore ==
  ASSUME TypeInv, [Next]_vars, crashes' = 0
  PROVE  crashes = 0 /\ ~Crash
<1>1. ~Crash
  BY DEF Crash, TypeInv, TypeOK
<1>2. Fails => UNCHANGED crashes
  BY DEF Fails
<1>3. UNCHANGED crashes
  BY <1>1, <1>2 DEF bounds, Next, MainTimer, BuilderTick, OperatorTick, SenderStep, Requests,
     Environment, Stopped, vars, BuilderSkip, BuilderFetch, BuilderRebuild, Rebuild,
     BuilderRebuildThrows, RebuildThrows, BuilderSnapshot, BuilderMark, BuilderMarkThrows,
     BuilderDone, SenderInit, OperatorCheck, TrySave, TryCommit, TryCommitSkip, Verify,
     TryNewCommitOp, TryNewCommitOpSkip, SaveNewCommitOp, CreateCommit, CreateCommitThrows,
     Broadcast, BroadcastFatal, SaveInscription, SaveInscriptionThrows, Aggregate,
     AggregatePush, AggregateReject, TimePasses, EventListed
<1> QED BY <1>1, <1>3

RunInv == TypeInv /\ ParentInv /\ (crashes = 0 => CleanInv)

\* Until the first crash everything is clean.
LEMMA RunStep == RunInv /\ [Next]_vars => RunInv'
  BY TypeStep, ParentStep, NoCrashBefore, CleanStep DEF RunInv

\* The process starts clean.
LEMMA RunInit == Init => RunInv
  BY TypeInit, ParentInit, CleanInit DEF RunInv

\* Until the process crashes, nothing is accepted into a commit after it was
\* inscribed: checkSystemStatus (operator.ts:518-527) and the mutex close it in
\* time, whatever fails and whatever the interleaving of requests with the timer.
THEOREM InscribedCommitsAreClosed == Spec => []InscribedIsClosed
<1>1. RunInv => InscribedIsClosed
  BY DEF RunInv, CleanInv, InscribedIsClosed
<1> QED BY <1>1, RunInit, RunStep, PTL DEF Spec

\* Until the process crashes, no function that a user was told is accepted
\* (operator.ts:690-702) is lost: it is in the open commit or inscribed.
THEOREM AcceptedFunctionsAreKept == Spec => []AcceptedIsKept
<1>1. RunInv => AcceptedIsKept
  BY DEF RunInv, CleanInv, Kept, AcceptedIsKept
<1> QED BY <1>1, RunInit, RunStep, PTL DEF Spec

\* Until the process crashes, what op_commit holds of an inscribed commit may lag
\* behind what is inscribed but never differs from it (operator.ts:708-723,
\* op-sender.ts:293-296), whatever fails.
THEOREM SavedCommitsArePrefixes == Spec => []SavedIsPrefix
<1>1. RunInv => SavedIsPrefix
  <2> SUFFICES ASSUME RunInv, crashes = 0, NEW i \in DOMAIN opCommit, NEW n \in DOMAIN inscribed,
                      opCommit[i].ins = n
               PROVE  IsPrefix(opCommit[i].data, inscribed[n].data)
    BY DEF SavedIsPrefix
  <2>1. RowIsCopy(opCommit[i]) /\ Sound(opCommit[i]) /\ n # 0
    BY LenProperties DEF RunInv, CleanInv, ParentInv, TypeInv, TypeOK
  <2>2. CASE opCommit[i].parent # commitData.parent
    BY <2>1, <2>2 DEF RowIsCopy
  <2>3. CASE opCommit[i].parent = commitData.parent
    <3>1. inscribed[n].data = commitData.data
      BY <2>1, <2>3 DEF Sound, Links, RunInv, CleanInv
    <3> QED BY <2>1, <2>3, <3>1 DEF RowIsCopy
  <2> QED BY <2>2, <2>3
<1> QED BY <1>1, RunInit, RunStep, PTL DEF Spec
=============================================================================
